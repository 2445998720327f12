------------------------- MODULE RateLimiterProofs -------------------------
(***************************************************************************)
(* Proofs about RateLimiter, for any paths and limits and any number of    *)
(* requests, handlers, entries and restarts.                               *)
(***************************************************************************)
EXTENDS RateLimiter, SequenceTheorems, TLAPS

USE RateLimiterAssumption

(***************************************************************************)
(* The last limit of a list.  The CHOOSE of LastLimit means something only *)
(* when there is a last info of the path; every list that the program      *)
(* builds is Ordered.                                                      *)
(***************************************************************************)
LastAt(s, p, j) ==
    /\ j \in DOMAIN s /\ s[j].path = p
    /\ \A k \in DOMAIN s : s[k].path = p => k <= j

Names(s, p) == \E i \in DOMAIN s : s[i].path = p

Ordered(s) == \A p \in Paths : Names(s, p) => \E j \in DOMAIN s : LastAt(s, p, j)

LEMMA LastLimitAt ==
  ASSUME NEW S, NEW s \in Seq(S), NEW p, NEW j, LastAt(s, p, j)
  PROVE  LastLimit(s, p) = s[j].limit
<1> DEFINE at == {i \in DOMAIN s : s[i].path = p}
<1>1. j \in at /\ \A i \in at : i <= j
  BY DEF LastAt
<1>2. \A i \in at : i \in Nat
  OBVIOUS
<1>3. ASSUME NEW i \in at, \A k \in at : k <= i PROVE i = j
  BY <1>1, <1>2, <1>3
<1> HIDE DEF at
<1>4. (CHOOSE i \in at : \A k \in at : k <= i) = j
  BY <1>1, <1>3
<1> QED
  BY <1>1, <1>4 DEF LastLimit, at

LEMMA LastLimitNone ==
  ASSUME NEW s, NEW p, ~ Names(s, p)
  PROVE  LastLimit(s, p) = NoLimiter
  BY DEF LastLimit, Names

\* One more info: its own path gets its limit, the others keep theirs.
LEMMA AppendLimit ==
  ASSUME NEW S, NEW s \in Seq(S), Ordered(s), NEW e \in S
  PROVE  /\ Ordered(Append(s, e))
         /\ \A p \in Paths : LastLimit(Append(s, e), p) = IF e.path = p THEN e.limit
                                                                       ELSE LastLimit(s, p)
<1> DEFINE t == Append(s, e)
           n == Len(s) + 1
<1>1. /\ t \in Seq(S) /\ DOMAIN t = 1 .. n /\ DOMAIN s = 1 .. Len(s) /\ Len(s) \in Nat
      /\ t[n] = e /\ \A i \in 1 .. Len(s) : t[i] = s[i]
  OBVIOUS
<1> HIDE DEF t, n
<1>2. n = Len(s) + 1
  BY DEF n
<1>3. ASSUME NEW p, e.path = p PROVE LastAt(t, p, n)
  BY <1>1, <1>2, <1>3 DEF LastAt
<1>4. ASSUME NEW p, e.path # p, NEW j, LastAt(s, p, j) PROVE LastAt(t, p, j) /\ t[j] = s[j]
  BY <1>1, <1>2, <1>4 DEF LastAt
<1>5. ASSUME NEW p, e.path # p PROVE Names(t, p) <=> Names(s, p)
  BY <1>1, <1>2, <1>5 DEF Names
<1>6. ASSUME NEW p \in Paths, Names(t, p) PROVE \E j \in DOMAIN t : LastAt(t, p, j)
  <2>1. CASE e.path = p
    BY <1>1, <1>2, <1>3, <2>1
  <2>2. CASE e.path # p
    <3>1. PICK j \in DOMAIN s : LastAt(s, p, j)
      BY <1>5, <1>6, <2>2 DEF Ordered
    <3> QED
      BY <1>4, <2>2, <3>1, ZenonT(60) DEF LastAt
  <2> QED
    BY <2>1, <2>2
<1>7. ASSUME NEW p \in Paths
      PROVE  LastLimit(t, p) = IF e.path = p THEN e.limit ELSE LastLimit(s, p)
  <2>1. CASE e.path = p
    BY <1>1, <1>3, <2>1, LastLimitAt
  <2>2. CASE e.path # p /\ Names(s, p)
    <3>1. PICK j \in DOMAIN s : LastAt(s, p, j)
      BY <2>2 DEF Ordered
    <3>2. LastAt(t, p, j) /\ t[j] = s[j]
      BY <1>4, <2>2, <3>1
    <3>3. LastLimit(t, p) = t[j].limit
      BY <1>1, <3>2, LastLimitAt
    <3>4. LastLimit(s, p) = s[j].limit
      BY <3>1, LastLimitAt
    <3> QED
      BY <2>2, <3>2, <3>3, <3>4
  <2>3. CASE e.path # p /\ ~ Names(s, p)
    BY <1>5, <2>3, LastLimitNone
  <2> QED
    BY <2>1, <2>2, <2>3
<1>8. Ordered(t)
  BY <1>6 DEF Ordered
<1> QED
  BY <1>7, <1>8 DEF t

\* Restore repeats the list, which changes no path's limit.
LEMMA RepeatedLimits ==
  ASSUME NEW S, NEW s \in Seq(S), Ordered(s)
  PROVE  /\ Ordered(s \o s)
         /\ \A p \in Paths : LastLimit(s \o s, p) = LastLimit(s, p)
<1> DEFINE t == s \o s
           n == Len(s)
<1>1. /\ t \in Seq(S) /\ DOMAIN t = 1 .. n + n /\ DOMAIN s = 1 .. n /\ n \in Nat
      /\ \A i \in 1 .. n : t[i] = s[i] /\ t[n + i] = s[i]
      /\ \A i \in 1 .. n + n : i > n => t[i] = s[i - n]
  OBVIOUS
<1> HIDE DEF t, n
<1>2. ASSUME NEW p, NEW j, LastAt(s, p, j) PROVE LastAt(t, p, n + j) /\ t[n + j] = s[j]
  <2>1. j \in 1 .. n /\ t[n + j] = s[j] /\ s[j].path = p /\ n + j \in DOMAIN t
    BY <1>1, <1>2 DEF LastAt
  <2>2. ASSUME NEW k \in DOMAIN t, t[k].path = p PROVE k <= n + j
    <3>1. CASE k <= n
      BY <1>1, <2>1, <3>1
    <3>2. CASE k > n
      <4>1. k - n \in 1 .. n /\ s[k - n].path = p
        BY <1>1, <2>2, <3>2
      <4>2. k - n <= j
        BY <1>1, <1>2, <4>1 DEF LastAt
      <4> QED
        BY <1>1, <2>1, <4>2
    <3> QED
      BY <1>1, <3>1, <3>2
  <2> QED
    BY <2>1, <2>2 DEF LastAt
<1>3. ASSUME NEW p, Names(t, p) PROVE Names(s, p)
  <2>1. PICK i \in 1 .. n + n : t[i].path = p
    BY <1>1, <1>3 DEF Names
  <2>2. CASE i <= n
    <3>1. i \in 1 .. n /\ s[i].path = p
      BY <1>1, <2>1, <2>2
    <3> QED
      BY <1>1, <3>1 DEF Names
  <2>3. CASE i > n
    <3>1. i - n \in 1 .. n /\ s[i - n].path = p
      BY <1>1, <2>1, <2>3
    <3> QED
      BY <1>1, <3>1 DEF Names
  <2> QED
    BY <1>1, <2>2, <2>3
<1>4. ASSUME NEW p \in Paths, Names(s, p)
      PROVE  /\ \E j \in DOMAIN t : LastAt(t, p, j)
             /\ LastLimit(t, p) = LastLimit(s, p)
  <2>1. PICK j \in DOMAIN s : LastAt(s, p, j)
    BY <1>4 DEF Ordered
  <2>2. LastAt(t, p, n + j) /\ t[n + j] = s[j]
    BY <1>2, <2>1
  <2>3. LastLimit(t, p) = t[n + j].limit /\ LastLimit(s, p) = s[j].limit
    BY <1>1, <2>1, <2>2, LastLimitAt
  <2>4. n + j \in DOMAIN t
    BY <2>2 DEF LastAt
  <2> QED
    BY <2>2, <2>3, <2>4
<1>5. ASSUME NEW p \in Paths, ~ Names(s, p) PROVE LastLimit(t, p) = LastLimit(s, p)
  BY <1>3, <1>5, LastLimitNone
<1>6. Ordered(t)
  BY <1>3, <1>4 DEF Ordered
<1> QED
  BY <1>4, <1>5, <1>6 DEF t

-----------------------------------------------------------------------------
(***************************************************************************)
(* Typing.                                                                 *)
(***************************************************************************)
Entry == [path : Paths, limit : Limits]

\* What is needed beyond the types: nothing is ahead of the log, which is as
\* long as its bound.
LimiterTypes ==
    /\ TypeOK
    /\ Len(log) <= MaxLog
    /\ \A a \in Handlers : h[a] <= Len(log)
    /\ pend \subseteq 0 .. applied /\ snap.index <= applied

LEMMA InitTypes == Init => LimiterTypes
<1> SUFFICES ASSUME Init PROVE LimiterTypes
  OBVIOUS
<1>1. \A S : <<>> \in Seq(S) /\ Len(<<>>) = 0
  OBVIOUS
<1>2. snap.index = 0 /\ snap.limiters = <<>>
  BY DEF Init
<1>3. TypeOK
  BY <1>1, <1>2 DEF Init, TypeOK, Limiter
<1> QED
  BY <1>1, <1>2, <1>3 DEF Init, LimiterTypes

LEMMA LogEntries ==
  ASSUME TypeOK, NEW i \in 1 .. Len(log)
  PROVE  log[i].path \in Paths /\ log[i].limit \in Limits
<1>1. log \in Seq(Entry)
  BY DEF TypeOK, Entry
<1>2. log[i] \in Entry
  BY <1>1, ElementOfSeq
<1> QED
  BY <1>2 DEF Entry

LEMMA SetTypes ==
  ASSUME TypeOK, NEW p \in Paths, NEW limit \in Limits \cup {Default}, SetRateLimiter(p, limit)
  PROVE  methods' \in [Paths -> Limiter] /\ limiters' \in Seq(Info)
<1>1. [path |-> p, limit |-> limit] \in Info
  BY DEF Info
<1> QED
  BY <1>1 DEF TypeOK, SetRateLimiter, Limiter

LEMMA RequestTypes ==
  ASSUME LimiterTypes, NEW r \in Requests, NEW p \in Paths,
         Take(r, p) \/ ReadNoLimiter(r, p) \/ ConfigRate(r, p)
  PROVE  LimiterTypes'
<1>1. CASE Take(r, p)
  BY <1>1 DEF LimiterTypes, TypeOK, Take, vars
<1>2. CASE ReadNoLimiter(r, p)
  BY <1>2 DEF LimiterTypes, TypeOK, ReadNoLimiter, nodeVars
<1>3. CASE ConfigRate(r, p)
  <2>1. methods' \in [Paths -> Limiter] /\ limiters' \in Seq(Info)
    BY <1>3, SetTypes DEF LimiterTypes, TypeOK, ConfigRate
  <2> QED
    BY <1>3, <2>1 DEF LimiterTypes, TypeOK, ConfigRate, nodeVars
<1> QED
  BY <1>1, <1>2, <1>3

LEMMA LogTypes ==
  ASSUME LimiterTypes, NEW p \in Paths, NEW limit \in Limits, WriteLogEntry(p, limit)
  PROVE  log' \in Seq(Entry) /\ Len(log') = Len(log) + 1 /\ Len(log') <= MaxLog
<1>1. [path |-> p, limit |-> limit] \in Entry /\ log \in Seq(Entry)
  BY DEF Entry, LimiterTypes, TypeOK
<1> QED
  BY <1>1 DEF WriteLogEntry

LEMMA ProposeTypes ==
  ASSUME LimiterTypes, NEW p \in Paths, NEW limit \in Limits,
         Replicate(p, limit) \/ \E a \in Handlers : Propose(a, p, limit)
  PROVE  LimiterTypes'
<1>1. /\ log' \in Seq(Entry) /\ Len(log') = Len(log) + 1 /\ Len(log') <= MaxLog
      /\ UNCHANGED <<methods, limiters, applied, req, pend, snap, restarts, late>>
  BY LogTypes DEF Replicate, Propose
<1>2. h' \in [Handlers -> 0 .. MaxLog] /\ \A a \in Handlers : h'[a] <= Len(log')
  <2>1. Len(log) \in Nat /\ h \in [Handlers -> 0 .. MaxLog] /\ \A a \in Handlers : h[a] <= Len(log)
    BY DEF LimiterTypes, TypeOK
  <2>2. CASE Replicate(p, limit)
    BY <1>1, <2>1, <2>2 DEF Replicate
  <2>3. ASSUME NEW a \in Handlers, Propose(a, p, limit)
        PROVE  h' \in [Handlers -> 0 .. MaxLog] /\ \A b \in Handlers : h'[b] <= Len(log')
    <3>1. h' = [h EXCEPT ![a] = Len(log')]
      BY <2>3 DEF Propose
    <3> QED
      BY <1>1, <2>1, <3>1
  <2> QED
    BY <2>2, <2>3
<1> QED
  BY <1>1, <1>2 DEF LimiterTypes, TypeOK, Entry

LEMMA HandlerTypes ==
  ASSUME LimiterTypes, NEW a \in Handlers, SetAgain(a) \/ ProposeFails(a)
  PROVE  LimiterTypes'
<1>1. CASE SetAgain(a)
  <2>1. /\ h[a] \in 1 .. Len(log) /\ log[h[a]].path \in Paths /\ log[h[a]].limit \in Limits
        /\ \A i \in (h[a] + 1) .. applied : log[i].path \in Paths
    <3>1. h[a] \in 1 .. applied /\ applied \in 0 .. Len(log) /\ h[a] \in Nat
      BY <1>1 DEF LimiterTypes, TypeOK, SetAgain
    <3> QED
      BY <3>1, LogEntries DEF LimiterTypes
  <2>2. methods' \in [Paths -> Limiter] /\ limiters' \in Seq(Info)
    BY <1>1, <2>1, SetTypes DEF LimiterTypes, SetAgain
  <2>3. late' \subseteq Paths
    BY <1>1, <2>1 DEF LimiterTypes, TypeOK, SetAgain
  <2> QED
    BY <1>1, <2>2, <2>3 DEF LimiterTypes, TypeOK, SetAgain
<1>2. CASE ProposeFails(a)
  BY <1>2 DEF LimiterTypes, TypeOK, ProposeFails
<1> QED
  BY <1>1, <1>2

LEMMA ApplyTypes == LimiterTypes /\ Apply => LimiterTypes'
<1> SUFFICES ASSUME LimiterTypes, Apply PROVE LimiterTypes'
  OBVIOUS
<1>1. applied' \in 1 .. Len(log) /\ log[applied'].path \in Paths /\ log[applied'].limit \in Limits
  <2>1. applied' \in 1 .. Len(log)
    BY DEF LimiterTypes, TypeOK, Apply
  <2> QED
    BY <2>1, LogEntries DEF LimiterTypes
<1>2. methods' \in [Paths -> Limiter] /\ limiters' \in Seq(Info)
  BY <1>1, SetTypes DEF LimiterTypes, Apply
<1> QED
  BY <1>1, <1>2 DEF LimiterTypes, TypeOK, Apply

LEMMA SnapshotTypes == LimiterTypes /\ (Snapshot \/ Persist) => LimiterTypes'
<1>1. LimiterTypes /\ Snapshot => LimiterTypes'
  BY DEF LimiterTypes, TypeOK, Snapshot
<1>2. LimiterTypes /\ Persist => LimiterTypes'
  BY DEF LimiterTypes, TypeOK, Persist
<1> QED
  BY <1>1, <1>2

-----------------------------------------------------------------------------
(***************************************************************************)
(* The invariant.  The lists have last infos; a node's limiters are those  *)
(* of its list; and a state that is labelled with an index of the log, as  *)
(* a node and a snapshot are, has the limit of the log on every path that  *)
(* is not to be decided by an entry after that index.  The snapshot may    *)
(* have been written when the node was already further.                    *)
(***************************************************************************)
Decided(index, p) == \E k \in (index + 1) .. Len(log) : log[k].path = p

Agrees(index, p, limit) ==
    Decided(index, p) \/ LastLimit(log, p) = NoLimiter \/ LastLimit(log, p) = limit

LimitsInv ==
    /\ LimiterTypes
    /\ Ordered(log) /\ Ordered(limiters) /\ Ordered(snap.limiters)
    /\ LimitersReproduce
    /\ \A p \in Paths \ late : /\ Agrees(applied, p, methods[p])
                               /\ Agrees(snap.index, p, LastLimit(snap.limiters, p))

LEMMA LimitsInit == Init => LimitsInv
<1> SUFFICES ASSUME Init PROVE LimitsInv
  OBVIOUS
<1>1. Ordered(<<>>) /\ \A p \in Paths : LastLimit(<<>>, p) = NoLimiter
  BY LastLimitNone DEF Ordered, Names
<1> QED
  BY <1>1, InitTypes DEF Init, LimitsInv, LimitersReproduce, Agrees

\* Setting a limit keeps list and limiters together.
LEMMA SetReproduces ==
  ASSUME LimitsInv, NEW p \in Paths, NEW limit \in Limits \cup {Default}, SetRateLimiter(p, limit)
  PROVE  /\ Ordered(limiters)' /\ LimitersReproduce'
         /\ \A q \in Paths : methods'[q] = IF q = p THEN limit ELSE methods[q]
<1> DEFINE e == [path |-> p, limit |-> limit]
<1>1. e \in Info /\ e.path = p /\ e.limit = limit /\ limiters \in Seq(Info) /\ Ordered(limiters)
  BY DEF Info, LimitsInv, LimiterTypes, TypeOK
<1>2. limiters' = Append(limiters, e)
  BY DEF SetRateLimiter
<1> HIDE DEF e
<1>3. /\ Ordered(limiters')
      /\ \A q \in Paths : LastLimit(limiters', q) = IF p = q THEN limit ELSE LastLimit(limiters, q)
  BY <1>1, <1>2, AppendLimit
<1>4. \A q \in Paths : methods'[q] = IF q = p THEN limit ELSE methods[q]
  BY DEF SetRateLimiter, LimitsInv, LimiterTypes, TypeOK
<1>5. LimitersReproduce'
  BY <1>3, <1>4 DEF LimitersReproduce, LimitsInv
<1>6. Ordered(limiters)'
  BY <1>3 DEF Ordered, LastAt, Names
<1> QED
  BY <1>4, <1>5, <1>6

\* Where the limit of a path that has an entry lies.
LEMMA LoggedAt ==
  ASSUME LimitsInv, NEW i \in 1 .. Len(log), ~ Decided(i, log[i].path)
  PROVE  LastLimit(log, log[i].path) = log[i].limit
<1>1. log \in Seq(Entry) /\ DOMAIN log = 1 .. Len(log)
  BY DEF LimitsInv, LimiterTypes, TypeOK, Entry
<1>2. LastAt(log, log[i].path, i)
  BY <1>1 DEF LastAt, Decided
<1> QED
  BY <1>1, <1>2, LastLimitAt

LEMMA LoggedOrNone ==
  ASSUME LimitsInv, NEW p \in Paths
  PROVE  LastLimit(log, p) \in Limits \cup {NoLimiter}
<1>1. log \in Seq(Entry) /\ DOMAIN log = 1 .. Len(log)
  BY DEF LimitsInv, LimiterTypes, TypeOK, Entry
<1>2. CASE Names(log, p)
  <2>1. PICK j \in DOMAIN log : LastAt(log, p, j)
    BY <1>2 DEF LimitsInv, Ordered
  <2>2. LastLimit(log, p) = log[j].limit
    BY <1>1, <2>1, LastLimitAt
  <2> QED
    BY <1>1, <2>1, <2>2, LogEntries DEF LimitsInv, LimiterTypes
<1>3. CASE ~ Names(log, p)
  BY <1>3, LastLimitNone
<1> QED
  BY <1>2, <1>3

-----------------------------------------------------------------------------
(***************************************************************************)
(* The steps.                                                              *)
(***************************************************************************)
\* A first request finds no limiter, so the log has none that is in force.
LEMMA RequestStep ==
  ASSUME LimitsInv, NEW r \in Requests, NEW p \in Paths,
         Take(r, p) \/ ReadNoLimiter(r, p) \/ ConfigRate(r, p)
  PROVE  LimitsInv'
<1>0. LimiterTypes'
  BY RequestTypes DEF LimitsInv
<1>1. UNCHANGED <<log, applied, h, pend, snap, restarts, late>>
  BY DEF Take, ReadNoLimiter, ConfigRate, nodeVars, vars
<1>2. CASE UNCHANGED <<methods, limiters>>
  BY <1>0, <1>1, <1>2 DEF LimitsInv, LimitersReproduce, Agrees, Decided, Ordered, LastAt, Names
<1>3. CASE SetRateLimiter(p, Default) /\ methods[p] = NoLimiter
  <2>1. /\ Ordered(limiters)' /\ LimitersReproduce'
        /\ \A q \in Paths : methods'[q] = IF q = p THEN Default ELSE methods[q]
    BY <1>3, SetReproduces
  <2>2. ASSUME NEW q \in Paths \ late PROVE Agrees(applied, q, methods'[q])
    BY <1>3, <2>1 DEF LimitsInv, Agrees
  <2>3. Ordered(log)' /\ Ordered(snap.limiters)'
    BY <1>1 DEF LimitsInv, Ordered, LastAt, Names
  <2>4. ASSUME NEW q \in Paths \ late'
        PROVE  Agrees(applied, q, methods[q])' /\ Agrees(snap.index, q, LastLimit(snap.limiters, q))'
    BY <1>1, <2>2, <2>4 DEF LimitsInv, Agrees, Decided
  <2> QED
    BY <1>0, <2>1, <2>3, <2>4 DEF LimitsInv
<1> QED
  BY <1>2, <1>3 DEF Take, ReadNoLimiter, ConfigRate, vars

\* A new entry is after every index: it is to decide its path.
LEMMA ProposeStep ==
  ASSUME LimitsInv, NEW p \in Paths, NEW limit \in Limits,
         Replicate(p, limit) \/ \E a \in Handlers : Propose(a, p, limit)
  PROVE  LimitsInv'
<1> DEFINE e == [path |-> p, limit |-> limit]
<1>0. LimiterTypes'
  BY ProposeTypes DEF LimitsInv
<1>1. /\ log' = Append(log, e)
      /\ UNCHANGED <<methods, limiters, applied, snap, late>>
  BY DEF Replicate, Propose, WriteLogEntry
<1>2. e \in Entry /\ e.path = p /\ e.limit = limit /\ log \in Seq(Entry) /\ Ordered(log)
  BY DEF Entry, LimitsInv, LimiterTypes, TypeOK
<1> HIDE DEF e
<1>3. /\ Ordered(log')
      /\ \A q \in Paths : LastLimit(log', q) = IF p = q THEN limit ELSE LastLimit(log, q)
  BY <1>1, <1>2, AppendLimit
<1>4. /\ Len(log) \in Nat /\ Len(log') = Len(log) + 1 /\ log'[Len(log')].path = p
      /\ \A k \in 1 .. Len(log) : log'[k] = log[k]
  BY <1>1, <1>2
<1>5. ASSUME NEW index \in 0 .. Len(log), NEW q \in Paths, NEW x, Agrees(index, q, x)
      PROVE  \/ \E k \in (index + 1) .. Len(log') : log'[k].path = q
             \/ LastLimit(log', q) = NoLimiter \/ LastLimit(log', q) = x
  <2>1. CASE q = p
    BY <1>4, <2>1
  <2>2. CASE q # p /\ Decided(index, q)
    <3>1. PICK k \in (index + 1) .. Len(log) : log[k].path = q
      BY <2>2 DEF Decided
    <3> QED
      BY <1>4, <3>1
  <2>3. CASE q # p /\ ~ Decided(index, q)
    BY <1>3, <1>5, <2>3 DEF Agrees
  <2> QED
    BY <2>1, <2>2, <2>3
<1>6. applied \in 0 .. Len(log) /\ snap.index \in 0 .. Len(log)
  BY DEF LimitsInv, LimiterTypes, TypeOK
<1>7. ASSUME NEW q \in Paths \ late'
      PROVE  Agrees(applied, q, methods[q])' /\ Agrees(snap.index, q, LastLimit(snap.limiters, q))'
  <2>1. Agrees(applied, q, methods[q]) /\ Agrees(snap.index, q, LastLimit(snap.limiters, q))
    BY <1>1, <1>7 DEF LimitsInv
  <2>2. q \in Paths /\ UNCHANGED <<methods, applied, snap>>
    BY <1>1, <1>7
  <2>3. Agrees(applied, q, methods[q])'
    BY <1>5, <1>6, <2>1, <2>2, ZenonT(60) DEF Agrees, Decided
  <2>4. Agrees(snap.index, q, LastLimit(snap.limiters, q))'
    BY <1>5, <1>6, <2>1, <2>2, ZenonT(60) DEF Agrees, Decided
  <2> QED
    BY <2>3, <2>4
<1>8. Ordered(log)' /\ Ordered(limiters)' /\ Ordered(snap.limiters)' /\ LimitersReproduce'
  BY <1>1, <1>3 DEF LimitsInv, Ordered, LastAt, Names, LimitersReproduce
<1> QED
  BY <1>0, <1>7, <1>8 DEF LimitsInv

\* A handler's second write is of an entry no later one follows, or marks its path.
LEMMA HandlerStep ==
  ASSUME LimitsInv, NEW a \in Handlers, SetAgain(a) \/ ProposeFails(a)
  PROVE  LimitsInv'
<1>0. LimiterTypes'
  BY HandlerTypes DEF LimitsInv
<1>1. CASE ProposeFails(a)
  BY <1>0, <1>1 DEF ProposeFails, LimitsInv, LimitersReproduce, Agrees, Decided, Ordered, LastAt, Names
<1>2. CASE SetAgain(a)
  <2> DEFINE p == log[h[a]].path
             x == log[h[a]].limit
  <2>0. h[a] \in 1 .. applied /\ applied \in 0 .. Len(log) /\ h[a] \in Nat
    BY <1>2 DEF LimitsInv, LimiterTypes, TypeOK, SetAgain
  <2>1. p \in Paths /\ x \in Limits /\ h[a] \in 1 .. Len(log)
    BY <2>0, LogEntries DEF LimitsInv, LimiterTypes
  <2>2. SetRateLimiter(p, x) /\ UNCHANGED <<log, applied, snap>>
    BY <1>2 DEF SetAgain
  <2>3. late' = late \cup {log[i].path : i \in {j \in (h[a] + 1) .. applied : log[j].path = p}}
    BY <1>2 DEF SetAgain
  <2>4. /\ Ordered(limiters)' /\ LimitersReproduce'
        /\ \A q \in Paths : methods'[q] = IF q = p THEN x ELSE methods[q]
    BY <2>1, <2>2, SetReproduces
  <2>5. ASSUME p \notin late' PROVE Agrees(applied, p, x)
    <3>1. \A j \in (h[a] + 1) .. applied : log[j].path # p
      BY <2>3, <2>5
    <3>2. CASE Decided(applied, p)
      BY <3>2 DEF Agrees
    <3>3. CASE ~ Decided(applied, p)
      <4>1. ~ Decided(h[a], p)
        BY <2>0, <3>1, <3>3 DEF Decided
      <4> QED
        BY <2>1, <4>1, LoggedAt DEF Agrees
    <3> QED
      BY <3>2, <3>3
  <2> HIDE DEF p, x
  <2>6. ASSUME NEW q \in Paths \ late'
        PROVE  Agrees(applied, q, methods[q])' /\ Agrees(snap.index, q, LastLimit(snap.limiters, q))'
    <3>1. q \notin late
      BY <2>3, <2>6
    <3>2. Agrees(applied, q, methods'[q])
      BY <2>4, <2>5, <2>6, <3>1 DEF LimitsInv
    <3>3. Agrees(snap.index, q, LastLimit(snap.limiters, q))
      BY <3>1 DEF LimitsInv
    <3> QED
      BY <2>2, <3>2, <3>3 DEF Agrees, Decided
  <2>7. Ordered(log)' /\ Ordered(snap.limiters)'
    BY <2>2 DEF LimitsInv, Ordered, LastAt, Names
  <2> QED
    BY <1>0, <2>4, <2>6, <2>7 DEF LimitsInv
<1> QED
  BY <1>1, <1>2

\* The applied entry is the last one of its path, or a later one is to decide.
LEMMA ApplyStep == LimitsInv /\ Apply => LimitsInv'
<1> SUFFICES ASSUME LimitsInv, Apply PROVE LimitsInv'
  OBVIOUS
<1> DEFINE i == applied + 1
           p == log[i].path
           x == log[i].limit
<1>0. LimiterTypes'
  BY ApplyTypes DEF LimitsInv
<1>1. i \in 1 .. Len(log) /\ applied' = i /\ applied \in Nat /\ UNCHANGED <<log, snap, late>>
  BY DEF Apply, LimitsInv, LimiterTypes, TypeOK
<1>2. p \in Paths /\ x \in Limits /\ SetRateLimiter(p, x)
  BY <1>1, LogEntries DEF LimitsInv, LimiterTypes, Apply
<1>3. /\ Ordered(limiters)' /\ LimitersReproduce'
      /\ \A q \in Paths : methods'[q] = IF q = p THEN x ELSE methods[q]
  BY <1>2, SetReproduces
<1>4. Agrees(i, p, x)
  BY <1>1, LoggedAt DEF Agrees
<1>5. ASSUME NEW q \in Paths \ late, q # p PROVE Agrees(i, q, methods[q])
  <2>1. Agrees(applied, q, methods[q])
    BY DEF LimitsInv
  <2>2. Decided(applied, q) => Decided(i, q)
    <3>1. ASSUME NEW k \in (applied + 1) .. Len(log), log[k].path = q PROVE k \in (i + 1) .. Len(log)
      BY <1>1, <1>5, <3>1
    <3> QED
      BY <3>1 DEF Decided
  <2> QED
    BY <2>1, <2>2 DEF Agrees
<1> HIDE DEF i, p, x
<1>6. ASSUME NEW q \in Paths \ late'
      PROVE  Agrees(applied, q, methods[q])' /\ Agrees(snap.index, q, LastLimit(snap.limiters, q))'
  <2>1. Agrees(i, q, methods'[q])
    BY <1>1, <1>3, <1>4, <1>5
  <2>2. Agrees(snap.index, q, LastLimit(snap.limiters, q))
    BY <1>1 DEF LimitsInv
  <2> QED
    BY <1>1, <2>1, <2>2 DEF Agrees, Decided
<1>7. Ordered(log)' /\ Ordered(snap.limiters)'
  BY <1>1 DEF LimitsInv, Ordered, LastAt, Names
<1> QED
  BY <1>0, <1>3, <1>6, <1>7 DEF LimitsInv

\* Persist writes what is in force now under the index of then.
LEMMA SnapshotStep == LimitsInv /\ (Snapshot \/ Persist) => LimitsInv'
<1> SUFFICES ASSUME LimitsInv, Snapshot \/ Persist PROVE LimitsInv'
  OBVIOUS
<1>0. LimiterTypes'
  BY SnapshotTypes DEF LimitsInv
<1>1. CASE Snapshot
  BY <1>0, <1>1 DEF Snapshot, LimitsInv, LimitersReproduce, Agrees, Decided, Ordered, LastAt, Names
<1>2. CASE Persist
  <2>1. PICK i \in pend : snap' = [index |-> i, limiters |-> limiters]
    BY <1>2 DEF Persist
  <2>2. UNCHANGED <<methods, limiters, log, applied, late>>
    BY <1>2 DEF Persist
  <2>3. snap'.index = i /\ snap'.limiters = limiters
    BY <2>1
  <2>4. i \in 0 .. applied /\ applied \in Nat
    BY DEF LimitsInv, LimiterTypes, TypeOK
  <2>5. ASSUME NEW q \in Paths \ late
        PROVE  Agrees(applied, q, methods[q]) /\ Agrees(i, q, LastLimit(limiters, q))
    <3>1. Agrees(applied, q, methods[q]) /\ methods[q] = LastLimit(limiters, q)
      BY DEF LimitsInv, LimitersReproduce
    <3>2. Decided(applied, q) => Decided(i, q)
      BY <2>4 DEF Decided
    <3> QED
      BY <3>1, <3>2 DEF Agrees
  <2>6. ASSUME NEW q \in Paths \ late'
        PROVE  Agrees(applied, q, methods[q])' /\ Agrees(snap.index, q, LastLimit(snap.limiters, q))'
    BY <2>2, <2>3, <2>5 DEF Agrees, Decided
  <2>7. Ordered(log)' /\ Ordered(limiters)' /\ Ordered(snap.limiters)' /\ LimitersReproduce'
    BY <2>2, <2>3 DEF LimitsInv, Ordered, LastAt, Names, LimitersReproduce
  <2> QED
    BY <1>0, <2>6, <2>7 DEF LimitsInv
<1> QED
  BY <1>1, <1>2

\* Restore sets every limit of the snapshot again.
LEMMA RestartStep == LimitsInv /\ Restart => LimitsInv'
<1> SUFFICES ASSUME LimitsInv, Restart PROVE LimitsInv'
  OBVIOUS
<1> DEFINE s == snap.limiters
<1>0. s \in Seq(Info) /\ Ordered(s)
  BY DEF LimitsInv, LimiterTypes, TypeOK
<1>1. /\ methods' = [p \in Paths |-> LastLimit(s, p)]
      /\ limiters' = s \o s /\ applied' = snap.index
      /\ UNCHANGED <<log, snap, late>>
      /\ restarts' = restarts + 1 /\ restarts < MaxRestarts
      /\ req' = [r \in Requests |-> {}] /\ h' = [a \in Handlers |-> 0] /\ pend' = {}
  BY DEF Restart, Restore
<1> HIDE DEF s
<1>2. /\ Ordered(s \o s)
      /\ \A p \in Paths : LastLimit(s \o s, p) = LastLimit(s, p)
  BY <1>0, RepeatedLimits
<1>3. ASSUME NEW p \in Paths PROVE LastLimit(s, p) \in Limiter
  <2>1. CASE Names(s, p)
    <3>1. PICK j \in DOMAIN s : LastAt(s, p, j)
      BY <1>0, <2>1 DEF Ordered
    <3>2. LastLimit(s, p) = s[j].limit
      BY <1>0, <3>1, LastLimitAt
    <3>3. s[j] \in Info
      BY <1>0, ElementOfSeq
    <3> QED
      BY <3>2, <3>3 DEF Info, Limiter
  <2>2. CASE ~ Names(s, p)
    BY <2>2, LastLimitNone DEF Limiter
  <2> QED
    BY <2>1, <2>2
<1>4. methods' \in [Paths -> Limiter] /\ limiters' \in Seq(Info)
  BY <1>0, <1>1, <1>3
<1>5. LimiterTypes'
  BY <1>1, <1>4 DEF LimitsInv, LimiterTypes, TypeOK
<1>6a. Ordered(log)' /\ Ordered(snap.limiters)'
  BY <1>1 DEF LimitsInv, Ordered, LastAt, Names
<1>6b. Ordered(limiters)'
  BY <1>1, <1>2 DEF Ordered, LastAt, Names
<1>6c. LimitersReproduce'
  BY <1>1, <1>2 DEF LimitersReproduce
<1>6. Ordered(log)' /\ Ordered(limiters)' /\ Ordered(snap.limiters)' /\ LimitersReproduce'
  BY <1>6a, <1>6b, <1>6c
<1>7. ASSUME NEW q \in Paths \ late'
      PROVE  Agrees(applied, q, methods[q])' /\ Agrees(snap.index, q, LastLimit(snap.limiters, q))'
  <2>1. Agrees(snap.index, q, LastLimit(s, q))
    BY <1>1, <1>7 DEF LimitsInv, s
  <2>2. methods'[q] = LastLimit(s, q)
    BY <1>1
  <2> QED
    BY <1>1, <2>1, <2>2 DEF Agrees, Decided, s
<1> QED
  BY <1>5, <1>6, <1>7 DEF LimitsInv

LEMMA LimitsNext == LimitsInv /\ [Next]_vars => LimitsInv'
<1> SUFFICES ASSUME LimitsInv, [Next]_vars PROVE LimitsInv'
  OBVIOUS
<1>1. CASE Next
  BY <1>1, RequestStep, ProposeStep, HandlerStep, ApplyStep, SnapshotStep, RestartStep DEF Next
<1>2. CASE UNCHANGED vars
  BY <1>2 DEF vars, LimitsInv, LimiterTypes, TypeOK, LimitersReproduce, Agrees, Decided, Ordered, LastAt, Names
<1> QED
  BY <1>1, <1>2

-----------------------------------------------------------------------------
(***************************************************************************)
(* The theorems.                                                           *)
(***************************************************************************)
\* The types of limiters, log and snapshots.
THEOREM LimiterTypesHold == Spec => []TypeOK
<1>1. LimitsInv => TypeOK
  BY DEF LimitsInv, LimiterTypes
<1> QED
  BY <1>1, LimitsInit, LimitsNext, PTL DEF Spec

(***************************************************************************)
(* Whatever requests, handlers, entries and restarts did, the recorded     *)
(* list (ProxyMap.Limiters) gives every path the limiter it has: a         *)
(* snapshot of it restores the limits in force.                            *)
(***************************************************************************)
THEOREM RecordedLimitsSuffice == Spec => []LimitersReproduce
<1>1. LimitsInv => LimitersReproduce
  BY DEF LimitsInv
<1> QED
  BY <1>1, LimitsInit, LimitsNext, PTL DEF Spec

(***************************************************************************)
(* A node that has applied the whole log has the log's limits, except for  *)
(* paths a handler set late (doSetRateLimiter).                            *)
(***************************************************************************)
THEOREM LogDecidesLimits == Spec => []LoggedLimitInForce
<1>1. ASSUME LimitsInv PROVE LoggedLimitInForce
  <2>1. ASSUME applied = Len(log), NEW p \in Paths \ late, LastLimit(log, p) # NoLimiter
        PROVE  methods[p] = LastLimit(log, p)
    <3>1. ~ Decided(applied, p)
      BY <1>1, <2>1 DEF Decided, LimitsInv, LimiterTypes, TypeOK
    <3> QED
      BY <1>1, <2>1, <3>1 DEF LimitsInv, Agrees
  <2> QED
    BY <2>1 DEF LoggedLimitInForce
<1> QED
  BY <1>1, LimitsInit, LimitsNext, PTL DEF Spec
=============================================================================
