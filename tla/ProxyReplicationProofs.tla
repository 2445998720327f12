----------------------- MODULE ProxyReplicationProofs -----------------------
(***************************************************************************)
(* Proofs about ProxyReplication: which proxies exist on the nodes of any  *)
(* cluster, and with which hosts, for any patterns, hosts, configurations  *)
(* and number of requests, elections, crashes and snapshots.               *)
(***************************************************************************)
EXTENDS ProxyReplication, SequenceTheorems, TLAPS

USE ProxyReplicationAssumption

(***************************************************************************)
(* The operations of the ProxyMap.                                         *)
(***************************************************************************)
ProxyOK(r) == r.made \cup r.hosts \subseteq r.shut /\ (~ r.is => r = NoProxy)
MapOK(M) == M \in Map /\ \A p \in Patterns : ProxyOK(M[p])

LEMMA EmptyOK == MapOK(Empty) /\ \A p \in Patterns : ~ Empty[p].is
  BY DEF Empty, MapOK, Map, Proxy, ProxyOK, NoProxy

LEMMA ChangeParts ==
  ASSUME NEW ch \in Change
  PROVE  /\ ch.op \in {"addProxy", "removeProxy", "addHost", "removeHost"}
         /\ ch.pat \in Patterns /\ ch.arg \subseteq Hosts
  BY DEF Change

\* A map with another proxy at p.
Put(M, p, r) == [M EXCEPT ![p] = r]

LEMMA PutOK ==
  ASSUME NEW M, MapOK(M), NEW p \in Patterns, NEW r \in Proxy, ProxyOK(r)
  PROVE  /\ MapOK(Put(M, p, r))
         /\ \A q \in Patterns : Put(M, p, r)[q] = IF q = p THEN r ELSE M[q]
  BY DEF MapOK, Map, Put

LEMMA AddLocationOK ==
  ASSUME NEW M, MapOK(M), NEW p \in Patterns, NEW pass \in SUBSET Hosts
  PROVE  /\ MapOK(AddProxyWithLocation(M, p, pass))
         /\ \A q \in Patterns :
               AddProxyWithLocation(M, p, pass)[q].is <=> (q = p \/ M[q].is)
         /\ AddProxyWithLocation(M, p, pass)[p].made = pass
<1> DEFINE r == [made |-> pass, hosts |-> pass, shut |-> pass, is |-> TRUE]
<1>1. r \in Proxy /\ ProxyOK(r) /\ r.is = TRUE /\ r.made = pass
  BY DEF Proxy, ProxyOK
<1>2. \A q \in Patterns : M[q].is \in BOOLEAN
  BY DEF MapOK, Map, Proxy
<1>3. AddProxyWithLocation(M, p, pass) = Put(M, p, r)
  BY DEF AddProxyWithLocation, Put
<1> HIDE DEF r
<1> QED
  BY <1>1, <1>2, <1>3, PutOK

LEMMA AddHostOK ==
  ASSUME NEW M, MapOK(M), NEW p \in Patterns, NEW hs \in SUBSET Hosts
  PROVE  MapOK(AddProxy(M, p, hs)) /\ \A q \in Patterns : AddProxy(M, p, hs)[q].is <=> M[q].is
<1>1. CASE M[p].is
  <2> DEFINE r == [M[p] EXCEPT !.hosts = @ \cup hs, !.shut = @ \cup hs]
  <2>1. M[p] \in Proxy /\ ProxyOK(M[p])
    BY DEF MapOK, Map
  <2>2. r \in Proxy /\ ProxyOK(r) /\ r.is = M[p].is
    BY <1>1, <2>1 DEF Proxy, ProxyOK
  <2>3. AddProxy(M, p, hs) = Put(M, p, r)
    BY <1>1 DEF AddProxy, Put, MapOK, Map, Proxy
  <2> HIDE DEF r
  <2> QED
    BY <2>2, <2>3, PutOK
<1>2. CASE ~ M[p].is
  BY <1>2 DEF AddProxy
<1> QED
  BY <1>1, <1>2

LEMMA RemoveProxyOK ==
  ASSUME NEW M, MapOK(M), NEW p \in Patterns
  PROVE  /\ MapOK(RemoveProxy(M, p))
         /\ \A q \in Patterns : RemoveProxy(M, p)[q].is <=> (q # p /\ M[q].is)
<1>1. NoProxy \in Proxy /\ ProxyOK(NoProxy) /\ NoProxy.is = FALSE
  BY DEF NoProxy, Proxy, ProxyOK
<1>2. \A q \in Patterns : M[q].is \in BOOLEAN
  BY DEF MapOK, Map, Proxy
<1>3. RemoveProxy(M, p) = Put(M, p, NoProxy)
  BY DEF RemoveProxy, Put
<1> QED
  BY <1>1, <1>2, <1>3, PutOK

LEMMA RemoveHostOK ==
  ASSUME NEW M, MapOK(M), NEW p \in Patterns, NEW hs \in SUBSET Hosts
  PROVE  MapOK(RemoveHost(M, p, hs)) /\ \A q \in Patterns : RemoveHost(M, p, hs)[q].is <=> M[q].is
<1> DEFINE r == [M[p] EXCEPT !.hosts = @ \ hs]
<1>1. M[p] \in Proxy /\ ProxyOK(M[p])
  BY DEF MapOK, Map
<1>2. r \in Proxy /\ r.is = M[p].is
  BY <1>1 DEF Proxy
<1>3. ProxyOK(r)
  <2>1. r.made = M[p].made /\ r.hosts = M[p].hosts \ hs /\ r.shut = M[p].shut
    BY <1>1 DEF Proxy
  <2>2. r.made \cup r.hosts \subseteq r.shut
    BY <1>1, <2>1 DEF ProxyOK
  <2>3. ASSUME ~ r.is PROVE r = NoProxy
    <3>1. M[p] = NoProxy
      BY <1>1, <1>2, <2>3 DEF ProxyOK
    <3> HIDE DEF r
    <3>2. r = [made |-> r.made, hosts |-> r.hosts, shut |-> r.shut, is |-> r.is]
      BY <1>2 DEF Proxy
    <3>3. r.is = FALSE
      BY <1>2, <2>3 DEF Proxy
    <3>4. r.made = {} /\ r.hosts = {} /\ r.shut = {}
      BY <2>1, <3>1 DEF NoProxy
    <3> QED
      BY <3>2, <3>3, <3>4 DEF NoProxy
  <2> QED
    BY <2>2, <2>3 DEF ProxyOK
<1>4. RemoveHost(M, p, hs) = Put(M, p, r)
  BY DEF RemoveHost, Put, MapOK, Map, Proxy
<1> HIDE DEF r
<1> QED
  BY <1>2, <1>3, <1>4, PutOK

\* Which proxies exist after a change.
IsAfter(ch, p, before) ==
    \/ ch.pat = p /\ ch.op = "addProxy"
    \/ before /\ ~ (ch.pat = p /\ ch.op = "removeProxy")

LEMMA FsmApplyOK ==
  ASSUME NEW M, MapOK(M), NEW ch \in Change
  PROVE  /\ MapOK(FsmApply(M, ch))
         /\ \A p \in Patterns : FsmApply(M, ch)[p].is <=> IsAfter(ch, p, M[p].is)
<1>0. /\ ch.op \in {"addProxy", "removeProxy", "addHost", "removeHost"}
      /\ ch.pat \in Patterns /\ ch.arg \in SUBSET Hosts
  BY ChangeParts
<1>1. \A p \in Patterns : M[p].is \in BOOLEAN
  BY DEF MapOK, Map, Proxy
<1>2. CASE ch.op = "addProxy"
  <2>1. CASE M[ch.pat].is
    BY <1>0, <1>1, <1>2, <2>1 DEF FsmApply, IsAfter
  <2>2. CASE ~ M[ch.pat].is
    <3>1. FsmApply(M, ch) = AddProxyWithLocation(M, ch.pat, ch.arg)
      BY <1>2, <2>2 DEF FsmApply
    <3> QED
      BY <1>0, <1>1, <1>2, <3>1, AddLocationOK DEF IsAfter
  <2> QED
    BY <2>1, <2>2
<1>3. CASE ch.op = "removeProxy"
  <2>1. FsmApply(M, ch) = RemoveProxy(M, ch.pat)
    BY <1>3 DEF FsmApply
  <2> QED
    BY <1>0, <1>1, <1>3, <2>1, RemoveProxyOK DEF IsAfter
<1>4. CASE ch.op = "addHost"
  <2>1. FsmApply(M, ch) = AddProxy(M, ch.pat, ch.arg)
    BY <1>4 DEF FsmApply
  <2> QED
    BY <1>0, <1>1, <1>4, <2>1, AddHostOK DEF IsAfter
<1>5. CASE ch.op = "removeHost"
  <2>1. FsmApply(M, ch) = RemoveHost(M, ch.pat, ch.arg)
    BY <1>5 DEF FsmApply
  <2> QED
    BY <1>0, <1>1, <1>5, <2>1, RemoveHostOK DEF IsAfter
<1> QED
  BY <1>0, <1>2, <1>3, <1>4, <1>5

LEMMA LocalApplyOK ==
  ASSUME NEW M, MapOK(M), NEW ch \in Change
  PROVE  /\ MapOK(LocalApply(M, ch))
         /\ \A p \in Patterns : LocalApply(M, ch)[p].is <=> IsAfter(ch, p, M[p].is)
<1>1. CASE ch.op = "addProxy"
  <2>1. ch.pat \in Patterns /\ ch.arg \in SUBSET Hosts
    BY ChangeParts
  <2>2. LocalApply(M, ch) = AddProxyWithLocation(M, ch.pat, ch.arg)
    BY <1>1 DEF LocalApply
  <2>3. \A p \in Patterns : M[p].is \in BOOLEAN
    BY DEF MapOK, Map, Proxy
  <2> QED
    BY <1>1, <2>1, <2>2, <2>3, AddLocationOK DEF IsAfter
<1>2. CASE ch.op # "addProxy"
  BY <1>2, FsmApplyOK DEF LocalApply
<1> QED
  BY <1>1, <1>2

LEMMA FromLocationsOK ==
  ASSUME NEW M, MapOK(M)
  PROVE  /\ MapOK(FromLocations(M))
         /\ \A p \in Patterns : FromLocations(M)[p].is <=> M[p].is
<1>1. ASSUME NEW p \in Patterns
      PROVE  /\ FromLocations(M)[p] \in Proxy /\ ProxyOK(FromLocations(M)[p])
             /\ FromLocations(M)[p].is <=> M[p].is
  <2>1. M[p].made \in SUBSET Hosts /\ M[p].is \in BOOLEAN
    BY DEF MapOK, Map, Proxy
  <2>2. CASE M[p].is
    <3> DEFINE L == AddProxyWithLocation(Empty, p, M[p].made)
    <3>1. MapOK(L) /\ L[p].is = TRUE
      BY <2>1, EmptyOK, AddLocationOK
    <3>2. FromLocations(M)[p] = L[p]
      BY <2>2 DEF FromLocations
    <3> HIDE DEF L
    <3> QED
      BY <2>2, <3>1, <3>2 DEF MapOK, Map
  <2>3. CASE ~ M[p].is
    BY <2>1, <2>3 DEF FromLocations, NoProxy, Proxy, ProxyOK
  <2> QED
    BY <2>1, <2>2, <2>3
<1>2. FromLocations(M) \in Map
  <2>1. DOMAIN FromLocations(M) = Patterns /\ FromLocations(M) = [p \in Patterns |-> FromLocations(M)[p]]
    BY DEF FromLocations
  <2> QED
    BY <1>1, <2>1 DEF Map
<1> QED
  BY <1>1, <1>2 DEF MapOK

-----------------------------------------------------------------------------
(***************************************************************************)
(* The log: each entry decides whether its pattern has a proxy from then   *)
(* on, and what two moments of the log disagree on was decided in between. *)
(***************************************************************************)
Decides(k, p, ops) == log[k].ch.pat = p /\ log[k].ch.op \in ops

LogOK ==
    /\ log \in Seq([ch : Change, after : Map])
    /\ \A i \in 1 .. Len(log) : MapOK(log[i].after)
    /\ \A i \in 1 .. Len(log), p \in Patterns :
          MapAt(i)[p].is <=> IsAfter(log[i].ch, p, MapAt(i - 1)[p].is)
    /\ \A i \in 0 .. Len(log) : \A j \in i .. Len(log), p \in Patterns :
          \/ MapAt(i)[p].is <=> MapAt(j)[p].is
          \/ ~ MapAt(j)[p].is /\ \E k \in (i + 1) .. j : Decides(k, p, {"removeProxy"})
          \/ MapAt(j)[p].is /\ \E k \in (i + 1) .. j : Decides(k, p, {"addProxy"})

(***************************************************************************)
(* A ProxyMap labelled with an index of the log, on a node or in a         *)
(* snapshot.  It is not that of the log at this index: the node's own      *)
(* changes come before their entries, and snapshots are written late.      *)
(* Settles: what no later entry decides is as it will be at the end of the *)
(* log.  Keeps: a proxy that is missing will be removed by a later entry.  *)
(***************************************************************************)
Later(i, p, ops) == \E k \in (i + 1) .. Len(log) : Decides(k, p, ops)

Settles(i, p, is) ==
    Later(i, p, {"addProxy", "removeProxy"}) \/ (is <=> MapAt(Len(log))[p].is)

Keeps(i, p, is) == MapAt(i)[p].is => is \/ Later(i, p, {"removeProxy"})

\* Changes of a node's handlers and its leader watch that have no entry yet.
Pending(n, ops) ==
    {p \in Patterns : \E c \in Procs : \E ch \in h[c].ch :
        h[c].node = n /\ ch.pat = p /\ ch.op \in ops}

NodeFollows(n) ==
    up[n] => \A p \in Patterns \ unlogged[n] :
        /\ p \notin Pending(n, {"addProxy", "removeProxy"})
               => Settles(applied[n], p, relations[n][p].is)
        /\ p \notin Pending(n, {"removeProxy"}) => Keeps(applied[n], p, relations[n][p].is)

SnapFollows(n) ==
    \A p \in Patterns \ snap[n].unlogged :
        /\ Settles(snap[n].index, p, snap[n].made[p].is)
        /\ Keeps(snap[n].index, p, snap[n].made[p].is)

\* What is needed beyond the types.
ReplicationTypes ==
    /\ TypeOK /\ LogOK
    /\ \A n \in Nodes : /\ MapOK(snap[n].made) /\ snap[n].index <= Len(log)
                        /\ pend[n] <= applied[n]

FollowInv ==
    /\ ReplicationTypes
    /\ \A n \in Nodes : NodeFollows(n) /\ SnapFollows(n)

-----------------------------------------------------------------------------
(***************************************************************************)
(* Facts about the log.                                                    *)
(***************************************************************************)
LEMMA MapAtOK ==
  ASSUME LogOK, NEW i \in 0 .. Len(log)
  PROVE  MapOK(MapAt(i))
<1>1. CASE i = 0
  BY <1>1, EmptyOK DEF MapAt
<1>2. CASE i # 0
  <2>1. i \in 1 .. Len(log)
    BY <1>2 DEF LogOK
  <2> QED
    BY <1>2, <2>1 DEF LogOK, MapAt
<1> QED
  BY <1>1, <1>2

LEMMA LogChange ==
  ASSUME LogOK, NEW i \in 1 .. Len(log)
  PROVE  log[i].ch \in Change
<1>1. log[i] \in [ch : Change, after : Map]
  BY ElementOfSeq DEF LogOK
<1> QED
  BY <1>1

\* An entry that is the last to decide a pattern, and what the log says of it.
LEMMA DecidedLast ==
  ASSUME LogOK, NEW i \in 1 .. Len(log), NEW p \in Patterns,
         ~ Later(i, p, {"addProxy", "removeProxy"})
  PROVE  MapAt(Len(log))[p].is <=> IsAfter(log[i].ch, p, MapAt(i - 1)[p].is)
<1>1. Len(log) \in i .. Len(log) /\ i \in 0 .. Len(log)
  BY DEF LogOK
<1>2. \A k \in (i + 1) .. Len(log) : /\ ~ Decides(k, p, {"removeProxy"})
                                     /\ ~ Decides(k, p, {"addProxy"})
  BY DEF Later, Decides
<1>3. MapAt(i)[p].is <=> MapAt(Len(log))[p].is
  BY <1>1, <1>2 DEF LogOK
<1> QED
  BY <1>3 DEF LogOK

\* WriteLog appends an entry.
Entry(ch) == [ch |-> ch, after |-> FsmApply(MapAt(Len(log)), ch)]

LEMMA LogGrows ==
  ASSUME LogOK, NEW ch \in Change, log' = Append(log, Entry(ch)), NEW n, n = Len(log)
  PROVE  /\ n \in Nat /\ Len(log') = n + 1
         /\ \A k \in 1 .. n : log'[k] = log[k]
         /\ log'[n + 1].ch = ch
         /\ \A i \in 0 .. n : MapAt(i)' = MapAt(i)
         /\ MapOK(MapAt(n + 1)')
         /\ \A p \in Patterns : MapAt(n + 1)'[p].is <=> IsAfter(ch, p, MapAt(n)[p].is)
         /\ log' \in Seq([ch : Change, after : Map])
<1> DEFINE e == Entry(ch)
<1>0. n \in Nat /\ n \in 0 .. n /\ log \in Seq([ch : Change, after : Map])
  BY DEF LogOK
<1>1. MapOK(MapAt(n))
  BY <1>0, MapAtOK
<1>2. e.ch = ch /\ e.after = FsmApply(MapAt(n), ch)
  BY DEF Entry
<1>3. /\ MapOK(e.after) /\ e \in [ch : Change, after : Map]
      /\ \A p \in Patterns : e.after[p].is <=> IsAfter(ch, p, MapAt(n)[p].is)
  <2>1. /\ MapOK(FsmApply(MapAt(n), ch))
        /\ \A p \in Patterns : FsmApply(MapAt(n), ch)[p].is <=> IsAfter(ch, p, MapAt(n)[p].is)
    BY <1>1, FsmApplyOK
  <2>2. FsmApply(MapAt(n), ch) \in Map
    BY <2>1 DEF MapOK
  <2> QED
    BY <1>2, <2>1, <2>2 DEF Entry
<1> HIDE DEF e
<1>4. /\ Len(log') = n + 1 /\ log'[n + 1] = e /\ \A k \in 1 .. n : log'[k] = log[k]
      /\ log' \in Seq([ch : Change, after : Map])
  BY <1>0, <1>3 DEF e
<1>5. \A i \in 0 .. n : MapAt(i)' = MapAt(i)
  BY <1>0, <1>4 DEF MapAt
<1>6. MapAt(n + 1)' = e.after
  BY <1>0, <1>4 DEF MapAt
<1> QED
  BY <1>0, <1>2, <1>3, <1>4, <1>5, <1>6

LEMMA LogGrowsOK ==
  ASSUME LogOK, NEW ch \in Change, log' = Append(log, Entry(ch))
  PROVE  LogOK'
<1>0. PICK n : n = Len(log)
  OBVIOUS
<1>1. /\ n \in Nat /\ Len(log') = n + 1
      /\ \A k \in 1 .. n : log'[k] = log[k]
      /\ log'[n + 1].ch = ch
      /\ \A i \in 0 .. n : MapAt(i)' = MapAt(i)
      /\ MapOK(MapAt(n + 1)')
      /\ \A p \in Patterns : MapAt(n + 1)'[p].is <=> IsAfter(ch, p, MapAt(n)[p].is)
      /\ log' \in Seq([ch : Change, after : Map])
  BY <1>0, LogGrows
<1>2. ASSUME NEW i \in 1 .. Len(log') PROVE MapOK(log'[i].after)
  <2>1. CASE i \in 1 .. n
    BY <1>0, <1>1, <2>1 DEF LogOK
  <2>2. CASE i = n + 1
    BY <1>1, <2>2 DEF MapAt
  <2> QED
    BY <1>1, <2>1, <2>2
<1>3. ASSUME NEW i \in 1 .. Len(log'), NEW p \in Patterns
      PROVE  MapAt(i)'[p].is <=> IsAfter(log'[i].ch, p, MapAt(i - 1)'[p].is)
  <2>1. CASE i \in 1 .. n
    <3>1. i \in 0 .. n /\ i - 1 \in 0 .. n
      BY <1>1, <2>1
    <3>2. MapAt(i)' = MapAt(i) /\ MapAt(i - 1)' = MapAt(i - 1) /\ log'[i] = log[i]
      BY <1>1, <2>1, <3>1
    <3> QED
      BY <1>0, <2>1, <3>2 DEF LogOK
  <2>2. CASE i = n + 1
    <3>1. i - 1 = n /\ MapAt(n)' = MapAt(n)
      BY <1>1, <2>2
    <3> QED
      BY <1>1, <2>2, <3>1
  <2> QED
    BY <1>1, <2>1, <2>2
<1>4. ASSUME NEW i \in 0 .. n, NEW j \in i .. n, NEW p \in Patterns
      PROVE  \/ MapAt(i)'[p].is <=> MapAt(j)'[p].is
             \/ ~ MapAt(j)'[p].is /\ \E k \in (i + 1) .. j : Decides(k, p, {"removeProxy"})'
             \/ MapAt(j)'[p].is /\ \E k \in (i + 1) .. j : Decides(k, p, {"addProxy"})'
  <2>1. j \in 0 .. n /\ MapAt(i)' = MapAt(i) /\ MapAt(j)' = MapAt(j)
    BY <1>1
  <2>2. \A k \in (i + 1) .. j : log'[k] = log[k]
    BY <1>1
  <2> QED
    BY <1>0, <2>1, <2>2, SMTT(20) DEF LogOK, Decides
<1>5. ASSUME NEW i \in 0 .. n, NEW p \in Patterns
      PROVE  \/ MapAt(i)'[p].is <=> MapAt(n + 1)'[p].is
             \/ ~ MapAt(n + 1)'[p].is /\ \E k \in (i + 1) .. (n + 1) : Decides(k, p, {"removeProxy"})'
             \/ MapAt(n + 1)'[p].is /\ \E k \in (i + 1) .. (n + 1) : Decides(k, p, {"addProxy"})'
  <2>1. n \in i .. n /\ n + 1 \in (i + 1) .. (n + 1) /\ \A k \in (i + 1) .. n : k \in (i + 1) .. (n + 1)
    BY <1>1
  <2>2. CASE ch.pat = p /\ ch.op \in {"addProxy", "removeProxy"}
    BY <1>1, <2>1, <2>2 DEF Decides, IsAfter
  <2>3. CASE ~ (ch.pat = p /\ ch.op \in {"addProxy", "removeProxy"})
    <3>1. MapAt(n + 1)'[p].is <=> MapAt(n)'[p].is
      BY <1>1, <2>1, <2>3 DEF IsAfter
    <3> QED
      BY <1>4, <2>1, <3>1
  <2> QED
    BY <2>2, <2>3
<1>6. ASSUME NEW i \in 0 .. Len(log'), NEW j \in i .. Len(log'), NEW p \in Patterns
      PROVE  \/ MapAt(i)'[p].is <=> MapAt(j)'[p].is
             \/ ~ MapAt(j)'[p].is /\ \E k \in (i + 1) .. j : Decides(k, p, {"removeProxy"})'
             \/ MapAt(j)'[p].is /\ \E k \in (i + 1) .. j : Decides(k, p, {"addProxy"})'
  <2>1. CASE j \in i .. n
    <3>1. i \in 0 .. n
      BY <1>1, <2>1
    <3> QED
      BY <1>4, <2>1, <3>1
  <2>2. CASE j = n + 1 /\ i \in 0 .. n
    BY <1>5, <2>2
  <2>3. CASE j = n + 1 /\ i = n + 1
    BY <2>3
  <2> QED
    BY <1>1, <2>1, <2>2, <2>3
<1> QED
  BY <1>1, <1>2, <1>3, <1>6 DEF LogOK

-----------------------------------------------------------------------------
(***************************************************************************)
(* Typing.                                                                 *)
(***************************************************************************)
\* A step that appends nothing.
LEMMA SameLogOK ==
  ASSUME LogOK, log' = log
  PROVE  LogOK'
  BY DEF LogOK, MapAt, Decides

LEMMA InitTypes == Init => ReplicationTypes
<1> SUFFICES ASSUME Init PROVE ReplicationTypes
  OBVIOUS
<1>1. \A S : <<>> \in Seq(S) /\ Len(<<>>) = 0
  OBVIOUS
<1>2. LogOK
  BY <1>1 DEF Init, LogOK
<1>3. Empty \in Map /\ \A p \in Patterns : ProxyOK(Empty[p])
  BY EmptyOK DEF MapOK
<1>4. /\ relations \in [Nodes -> Map]
      /\ \A n \in Nodes, p \in Patterns :
            LET r == relations[n][p] IN r.made \cup r.hosts \subseteq r.shut /\ (~ r.is => r = NoProxy)
  BY <1>3 DEF Init, ProxyOK
<1>5. /\ NewSnapshot.made = Empty /\ NewSnapshot.index = 0
      /\ NewSnapshot \in [index : Nat, made : Map, unlogged : SUBSET Patterns, drift : SUBSET Patterns]
  BY <1>3 DEF NewSnapshot
<1>6. Len(log) = 0 /\ log \in Seq([ch : Change, after : Map])
  BY <1>1 DEF Init
<1>7. TypeOK
  <2>1. /\ applied \in [Nodes -> 0 .. Len(log)] /\ pend \in [Nodes -> Nat \cup {NoSnapshot}]
        /\ notify \in [Nodes -> Seq(BOOLEAN)] /\ h \in [Procs -> {Idle} \cup Busy]
    BY <1>1, <1>6 DEF Init
  <2>2. snap \in [Nodes -> [index : Nat, made : Map, unlogged : SUBSET Patterns,
                           drift : SUBSET Patterns]]
    BY <1>5 DEF Init
  <2> QED
    BY <1>4, <1>6, <2>1, <2>2 DEF Init, TypeOK
<1> QED
  BY <1>2, <1>5, <1>7, EmptyOK DEF Init, ReplicationTypes, NoSnapshot

\* A node's ProxyMap is well-formed.
LEMMA RelationsOK ==
  ASSUME TypeOK, NEW n \in Nodes
  PROVE  MapOK(relations[n])
  BY DEF TypeOK, MapOK, ProxyOK

LEMMA RelationsType ==
  ASSUME NEW n \in Nodes, NEW M, MapOK(M), TypeOK, relations' = [relations EXCEPT ![n] = M]
  PROVE  /\ relations' \in [Nodes -> Map]
         /\ \A m \in Nodes, p \in Patterns :
              LET r == relations'[m][p] IN r.made \cup r.hosts \subseteq r.shut /\ (~ r.is => r = NoProxy)
<1>1. relations' \in [Nodes -> Map]
  BY DEF TypeOK, MapOK
<1>2. \A m \in Nodes : MapOK(relations'[m])
  BY RelationsOK DEF TypeOK
<1> QED
  BY <1>1, <1>2 DEF MapOK, ProxyOK

\* What a handler or the leader watch has in hand.
LEMMA BusyProc ==
  ASSUME TypeOK, NEW c \in Procs, NEW ch \in h[c].ch
  PROVE  h[c] \in Busy /\ h[c].node \in Nodes /\ ch \in Change /\ h[c].ch = {ch}
<1>1. h[c] \in {Idle} \cup Busy
  BY DEF TypeOK
<1>2. Idle.ch = {}
  BY DEF Idle
<1>3. h[c] \in Busy
  BY <1>1, <1>2
<1> QED
  BY <1>3 DEF Busy

\* The first half of a handler, or of createProxy.
LEMMA LocalChangeTypes ==
  ASSUME TypeOK, NEW n \in Nodes, NEW ch \in Change, LocalChange(n, ch)
  PROVE  /\ relations' = [relations EXCEPT ![n] = LocalApply(relations[n], ch)]
         /\ MapOK(LocalApply(relations[n], ch))
         /\ drift' \in [Nodes -> SUBSET Patterns]
<1>1. relations' = [relations EXCEPT ![n] = LocalApply(relations[n], ch)]
  BY DEF LocalChange, TypeOK
<1>2. MapOK(relations[n])
  BY RelationsOK
<1>3. drift' \in [Nodes -> SUBSET Patterns]
  BY ChangeParts DEF LocalChange, TypeOK
<1> QED
  BY <1>1, <1>2, <1>3, LocalApplyOK

LEMMA RequestTypes ==
  ASSUME ReplicationTypes, NEW c \in Clients, NEW n \in Nodes, NEW ch \in Change, Request(c, n, ch)
  PROVE  ReplicationTypes'
<1>1. TypeOK /\ LocalChange(n, ch) /\ c \in Procs
  BY DEF ReplicationTypes, Request, Procs
<1>2. /\ relations' \in [Nodes -> Map]
      /\ \A m \in Nodes, p \in Patterns :
            LET r == relations'[m][p] IN r.made \cup r.hosts \subseteq r.shut /\ (~ r.is => r = NoProxy)
      /\ drift' \in [Nodes -> SUBSET Patterns]
  BY <1>1, LocalChangeTypes, RelationsType
<1>3. h' \in [Procs -> {Idle} \cup Busy] /\ nreqs' \in 0 .. MaxReqs
  BY <1>1 DEF Request, TypeOK, Busy
<1>4. UNCHANGED <<log, applied, unlogged, snapVars, up, fresh, flag, raftVars, ncrashes>>
  BY DEF Request
<1>5. TypeOK'
  BY <1>1, <1>2, <1>3, <1>4 DEF TypeOK, snapVars, raftVars
<1> QED
  BY <1>4, <1>5, SameLogOK DEF ReplicationTypes, snapVars

LEMMA WriteLogTypes ==
  ASSUME ReplicationTypes, NEW c \in Procs, NEW ch \in h[c].ch, leader = h[c].node,
         log' = Append(log, Entry(ch)), Return(c),
         UNCHANGED <<applied, nodeVars, snapVars, up, fresh, raftVars, bounds>>
  PROVE  ReplicationTypes'
<1>1. TypeOK /\ LogOK /\ ch \in Change
  BY BusyProc DEF ReplicationTypes
<1>2. LogOK'
  BY <1>1, LogGrowsOK
<1>3. Len(log) \in Nat /\ Len(log') = Len(log) + 1 /\ log' \in Seq([ch : Change, after : Map])
  <2>1. PICK n : n = Len(log)
    OBVIOUS
  <2> QED
    BY <1>1, <2>1, LogGrows
<1>4. h' \in [Procs -> {Idle} \cup Busy] /\ flag' \in [Nodes -> BOOLEAN]
  BY <1>1 DEF Return, TypeOK
<1>5. applied' \in [Nodes -> 0 .. Len(log')]
  BY <1>1, <1>3 DEF TypeOK
<1>6. TypeOK'
  BY <1>1, <1>3, <1>4, <1>5 DEF TypeOK, nodeVars, snapVars, raftVars, bounds
<1>7. ASSUME NEW n \in Nodes
      PROVE  MapOK(snap'[n].made) /\ snap'[n].index <= Len(log') /\ pend'[n] <= applied'[n]
  <2>1. snap[n].index \in Nat
    BY <1>1 DEF TypeOK
  <2> QED
    BY <1>3, <2>1 DEF ReplicationTypes, snapVars
<1>8. \A n \in Nodes : MapOK(snap[n].made)'
  BY <1>7 DEF MapOK, Map, Proxy, ProxyOK, NoProxy
<1> QED
  BY <1>2, <1>6, <1>7, <1>8 DEF ReplicationTypes

LEMMA WriteLogFailsTypes ==
  ASSUME ReplicationTypes, NEW c \in Procs, WriteLogFails(c)
  PROVE  ReplicationTypes'
<1>1. PICK ch \in h[c].ch :
        /\ unlogged' = IF ch.op \in {"addProxy", "removeProxy"}
                       THEN [unlogged EXCEPT ![h[c].node] = @ \cup {ch.pat}] ELSE unlogged
        /\ drift' = [drift EXCEPT ![h[c].node] = @ \cup {ch.pat}]
        /\ Return(c)
        /\ UNCHANGED <<log, applied, relations, snapVars, up, fresh, raftVars, bounds>>
  BY DEF WriteLogFails
<1>2. TypeOK /\ ch.pat \in Patterns /\ h[c].node \in Nodes
  BY BusyProc, ChangeParts DEF ReplicationTypes
<1>3. unlogged' \in [Nodes -> SUBSET Patterns] /\ drift' \in [Nodes -> SUBSET Patterns]
  BY <1>1, <1>2 DEF TypeOK
<1>4. h' \in [Procs -> {Idle} \cup Busy] /\ flag' \in [Nodes -> BOOLEAN]
  BY <1>1, <1>2 DEF Return, TypeOK
<1>5. TypeOK'
  BY <1>1, <1>2, <1>3, <1>4 DEF TypeOK, snapVars, raftVars, bounds
<1> QED
  BY <1>1, <1>5, SameLogOK DEF ReplicationTypes, snapVars

\* The FSM goes on by one entry.
LEMMA BehindTypes ==
  ASSUME ReplicationTypes, NEW n \in Nodes, Behind(n)
  PROVE  /\ applied[n] \in Nat /\ applied[n] + 1 \in 1 .. Len(log)
         /\ NextChange(n) \in Change /\ NextChange(n).pat \in Patterns
         /\ NextChange(n) = log[applied[n] + 1].ch
<1>1. applied[n] \in Nat /\ applied[n] + 1 \in 1 .. Len(log)
  BY DEF ReplicationTypes, TypeOK, Behind
<1> QED
  BY <1>1, LogChange, ChangeParts DEF NextChange, ReplicationTypes

LEMMA SettleTypes ==
  ASSUME TypeOK, NEW n \in Nodes, NEW ch \in Change, NEW timeout, Settle(n, ch, timeout)
  PROVE  unlogged' \in [Nodes -> SUBSET Patterns] /\ drift' \in [Nodes -> SUBSET Patterns]
<1>1. ch.pat \in Patterns
  BY ChangeParts
<1>2. unlogged' \in [Nodes -> SUBSET Patterns]
  BY DEF Settle, TypeOK
<1>3. drift' \in [Nodes -> SUBSET Patterns]
  BY <1>1, SMTT(20) DEF Settle, TypeOK
<1> QED
  BY <1>2, <1>3

LEMMA ApplyTypes ==
  ASSUME ReplicationTypes, NEW n \in Nodes, Apply(n) \/ ApplyTimeout(n)
  PROVE  ReplicationTypes'
<1>0. TypeOK /\ Behind(n) /\ UNCHANGED <<log, snapVars, up, fresh, flag, raftVars, h, bounds>>
  BY DEF ReplicationTypes, Apply, ApplyTimeout
<1>1. applied[n] \in Nat /\ applied[n] + 1 \in 1 .. Len(log) /\ NextChange(n) \in Change
  BY <1>0, BehindTypes
<1>2. applied' = [applied EXCEPT ![n] = applied[n] + 1]
  BY <1>0 DEF Apply, ApplyTimeout, TypeOK
<1>3. applied' \in [Nodes -> 0 .. Len(log')]
  BY <1>0, <1>1, <1>2 DEF TypeOK
<1>4. /\ relations' \in [Nodes -> Map]
      /\ \A m \in Nodes, p \in Patterns :
            LET r == relations'[m][p] IN r.made \cup r.hosts \subseteq r.shut /\ (~ r.is => r = NoProxy)
  <2>1. CASE Apply(n)
    <3>1. relations' = [relations EXCEPT ![n] = FsmApply(relations[n], NextChange(n))]
      BY <2>1, <1>0 DEF Apply, TypeOK
    <3>2. MapOK(FsmApply(relations[n], NextChange(n)))
      BY <1>0, <1>1, RelationsOK, FsmApplyOK
    <3> QED
      BY <1>0, <3>1, <3>2, RelationsType
  <2>2. CASE ApplyTimeout(n)
    BY <2>2, <1>0 DEF ApplyTimeout, TypeOK
  <2> QED
    BY <2>1, <2>2
<1>5. unlogged' \in [Nodes -> SUBSET Patterns] /\ drift' \in [Nodes -> SUBSET Patterns]
  BY <1>0, <1>1, SettleTypes DEF Apply, ApplyTimeout
<1>6. TypeOK'
  BY <1>0, <1>3, <1>4, <1>5 DEF TypeOK, snapVars, raftVars, bounds
<1>7. \A m \in Nodes : pend'[m] <= applied'[m]
  <2>1. pend' = pend /\ \A m \in Nodes : pend[m] \in Nat \cup {NoSnapshot} /\ pend[m] <= applied[m]
    BY <1>0 DEF ReplicationTypes, TypeOK, snapVars
  <2>2. \A m \in Nodes : applied[m] \in Nat /\ (applied'[m] = applied[m] \/ applied'[m] = applied[m] + 1)
    BY <1>0, <1>2 DEF TypeOK
  <2> QED
    BY <2>1, <2>2 DEF NoSnapshot
<1>8. LogOK'
  <2>1. LogOK /\ log' = log
    BY <1>0 DEF ReplicationTypes
  <2> QED
    BY <2>1, SameLogOK
<1>9. \A m \in Nodes : MapOK(snap[m].made)' /\ snap'[m].index <= Len(log')
  BY <1>0 DEF ReplicationTypes, snapVars
<1> QED
  BY <1>6, <1>7, <1>8, <1>9 DEF ReplicationTypes

LEMMA SnapshotTypes ==
  ASSUME ReplicationTypes, NEW n \in Nodes, Snapshot(n)
  PROVE  ReplicationTypes'
<1>0. TypeOK
  BY DEF ReplicationTypes
<1>1. pend' \in [Nodes -> Nat \cup {NoSnapshot}] /\ \A m \in Nodes : pend'[m] <= applied'[m]
  BY <1>0 DEF Snapshot, ReplicationTypes, TypeOK
<1>2. TypeOK'
  BY <1>0, <1>1 DEF Snapshot, TypeOK, nodeVars, raftVars, bounds
<1>3. UNCHANGED <<log, snap>>
  BY DEF Snapshot
<1>4. LogOK'
  BY <1>3, SameLogOK DEF ReplicationTypes
<1>5. \A m \in Nodes : MapOK(snap[m].made)' /\ snap'[m].index <= Len(log')
  BY <1>3 DEF ReplicationTypes
<1> QED
  BY <1>1, <1>2, <1>4, <1>5 DEF ReplicationTypes

LEMMA PersistTypes ==
  ASSUME ReplicationTypes, NEW n \in Nodes, Persist(n)
  PROVE  ReplicationTypes'
<1> DEFINE s == [index |-> pend[n], made |-> FromLocations(relations[n]),
                 unlogged |-> unlogged[n] \cup InFlight(n),
                 drift |-> drift[n] \cup InFlight(n)]
<1>0. /\ TypeOK /\ snap' = [snap EXCEPT ![n] = s] /\ pend' = [pend EXCEPT ![n] = NoSnapshot]
      /\ pend[n] # NoSnapshot
      /\ UNCHANGED <<log, applied, nodeVars, nsnaps, up, fresh, flag, raftVars, h, bounds>>
  BY DEF ReplicationTypes, Persist
<1>1. pend[n] \in Nat /\ pend[n] <= Len(log)
  <2>1. pend[n] \in Nat /\ pend[n] <= applied[n] /\ applied[n] \in 0 .. Len(log) /\ Len(log) \in Nat
    BY <1>0 DEF ReplicationTypes, TypeOK
  <2> QED
    BY <2>1
<1>2. MapOK(s.made) /\ s.index = pend[n]
  BY <1>0, RelationsOK, FromLocationsOK
<1>3. s \in [index : Nat, made : Map, unlogged : SUBSET Patterns, drift : SUBSET Patterns]
  <2>1. InFlight(n) \subseteq Patterns /\ unlogged[n] \subseteq Patterns /\ drift[n] \subseteq Patterns
    BY <1>0 DEF InFlight, TypeOK
  <2>2. FromLocations(relations[n]) \in Map
    BY <1>2 DEF MapOK
  <2> QED
    BY <1>1, <2>1, <2>2
<1> HIDE DEF s
<1>4. pend' \in [Nodes -> Nat \cup {NoSnapshot}] /\ \A m \in Nodes : pend'[m] <= applied'[m]
  <2>1. pend \in [Nodes -> Nat \cup {NoSnapshot}] /\ \A m \in Nodes : applied[m] \in Nat
    BY <1>0 DEF TypeOK
  <2>2. \A m \in Nodes : pend'[m] = pend[m] \/ pend'[m] = NoSnapshot
    BY <1>0, <2>1
  <2>3. \A m \in Nodes : pend[m] <= applied[m] /\ applied'[m] = applied[m]
    BY <1>0 DEF ReplicationTypes
  <2> QED
    BY <1>0, <2>1, <2>2, <2>3 DEF NoSnapshot
<1>5. snap' \in [Nodes -> [index : Nat, made : Map, unlogged : SUBSET Patterns,
                           drift : SUBSET Patterns]]
  BY <1>0, <1>3 DEF TypeOK
<1>6. TypeOK'
  BY <1>0, <1>4, <1>5 DEF TypeOK, nodeVars, raftVars, bounds
<1>7. \A m \in Nodes : MapOK(snap'[m].made) /\ snap'[m].index <= Len(log')
  BY <1>0, <1>1, <1>2 DEF ReplicationTypes, TypeOK
<1>8. \A m \in Nodes : MapOK(snap[m].made)'
  BY <1>7 DEF MapOK, Map, Proxy, ProxyOK, NoProxy
<1> QED
  BY <1>0, <1>4, <1>6, <1>7, <1>8, SameLogOK DEF ReplicationTypes

\* Restore, from one's own snapshot or from the leader's.
LEMMA RestoreTypes ==
  ASSUME ReplicationTypes, NEW n \in Nodes, NEW m \in Nodes, Restore(n, snap[m])
  PROVE  /\ applied' = [applied EXCEPT ![n] = snap[m].index]
         /\ applied' \in [Nodes -> 0 .. Len(log)]
         /\ relations' \in [Nodes -> Map]
         /\ \A k \in Nodes, p \in Patterns :
               LET r == relations'[k][p] IN r.made \cup r.hosts \subseteq r.shut /\ (~ r.is => r = NoProxy)
         /\ unlogged' \in [Nodes -> SUBSET Patterns] /\ drift' \in [Nodes -> SUBSET Patterns]
<1>0. /\ TypeOK /\ MapOK(snap[m].made) /\ snap[m].index \in 0 .. Len(log)
      /\ snap[m].unlogged \subseteq Patterns /\ snap[m].drift \subseteq Patterns
      /\ Forgotten(snap[m]) \subseteq Patterns
  BY SMTT(20) DEF ReplicationTypes, TypeOK, Forgotten
<1>1. relations' = [relations EXCEPT ![n] = snap[m].made]
  BY DEF Restore
<1>2. /\ applied' = [applied EXCEPT ![n] = snap[m].index]
      /\ unlogged' = [unlogged EXCEPT ![n] = snap[m].unlogged]
      /\ drift' = [drift EXCEPT ![n] = snap[m].drift \cup Forgotten(snap[m])]
  BY DEF Restore
<1>3. applied' \in [Nodes -> 0 .. Len(log)]
  BY <1>0, <1>2 DEF TypeOK
<1>4. unlogged' \in [Nodes -> SUBSET Patterns] /\ drift' \in [Nodes -> SUBSET Patterns]
  BY <1>0, <1>2 DEF TypeOK
<1> QED
  BY <1>0, <1>1, <1>2, <1>3, <1>4, RelationsType

LEMMA InstallTypes ==
  ASSUME ReplicationTypes, NEW n \in Nodes, InstallSnapshot(n)
  PROVE  ReplicationTypes'
<1>0. /\ TypeOK /\ leader \in Nodes /\ Restore(n, snap[leader])
      /\ snap' = [snap EXCEPT ![n] = snap[leader]] /\ pend' = [pend EXCEPT ![n] = NoSnapshot]
      /\ UNCHANGED <<log, nsnaps, up, fresh, flag, raftVars, h, bounds>>
  BY DEF ReplicationTypes, InstallSnapshot
<1>1. /\ applied' = [applied EXCEPT ![n] = snap[leader].index]
      /\ applied' \in [Nodes -> 0 .. Len(log)]
      /\ relations' \in [Nodes -> Map]
      /\ \A k \in Nodes, p \in Patterns :
            LET r == relations'[k][p] IN r.made \cup r.hosts \subseteq r.shut /\ (~ r.is => r = NoProxy)
      /\ unlogged' \in [Nodes -> SUBSET Patterns] /\ drift' \in [Nodes -> SUBSET Patterns]
  BY <1>0, RestoreTypes
<1>2. pend' \in [Nodes -> Nat \cup {NoSnapshot}] /\ snap' \in [Nodes ->
        [index : Nat, made : Map, unlogged : SUBSET Patterns, drift : SUBSET Patterns]]
  BY <1>0 DEF TypeOK
<1>3. TypeOK'
  BY <1>0, <1>1, <1>2 DEF TypeOK, raftVars, bounds
<1>4. \A m \in Nodes : /\ MapOK(snap'[m].made) /\ snap'[m].index <= Len(log')
                       /\ pend'[m] <= applied'[m]
  <2>1. snap[leader].index \in Nat
    BY <1>0 DEF TypeOK
  <2> QED
    BY <1>0, <1>1, <2>1 DEF ReplicationTypes, TypeOK, NoSnapshot
<1>5. \A m \in Nodes : MapOK(snap[m].made)'
  BY <1>4 DEF MapOK, Map, Proxy, ProxyOK, NoProxy
<1> QED
  BY <1>0, <1>3, <1>4, <1>5, SameLogOK DEF ReplicationTypes

LEMMA RestartTypes ==
  ASSUME ReplicationTypes, NEW n \in Nodes, Restart(n), pend[n] = NoSnapshot
  PROVE  ReplicationTypes'
<1>0. /\ TypeOK /\ Restore(n, snap[n]) /\ up' = [up EXCEPT ![n] = TRUE]
      /\ UNCHANGED <<log, snapVars, fresh, flag, raftVars, h, bounds>>
  BY DEF ReplicationTypes, Restart
<1>1. /\ applied' = [applied EXCEPT ![n] = snap[n].index]
      /\ applied' \in [Nodes -> 0 .. Len(log)]
      /\ relations' \in [Nodes -> Map]
      /\ \A k \in Nodes, p \in Patterns :
            LET r == relations'[k][p] IN r.made \cup r.hosts \subseteq r.shut /\ (~ r.is => r = NoProxy)
      /\ unlogged' \in [Nodes -> SUBSET Patterns] /\ drift' \in [Nodes -> SUBSET Patterns]
  BY <1>0, RestoreTypes
<1>2. TypeOK'
  BY <1>0, <1>1 DEF TypeOK, snapVars, raftVars, bounds
<1>3. \A m \in Nodes : pend'[m] <= applied'[m]
  <2>1. snap[n].index \in Nat
    BY <1>0 DEF TypeOK
  <2> QED
    BY <1>0, <1>1, <2>1 DEF ReplicationTypes, TypeOK, NoSnapshot, snapVars
<1> QED
  BY <1>0, <1>2, <1>3, SameLogOK DEF ReplicationTypes, snapVars

\* The end of a process.
LEMMA DieTypes ==
  ASSUME ReplicationTypes, NEW n \in Nodes, Die(n), ncrashes' \in 0 .. MaxCrashes
  PROVE  ReplicationTypes'
<1>0. /\ TypeOK /\ LogOK
      /\ relations' = [relations EXCEPT ![n] = Empty]
      /\ UNCHANGED <<log, applied, snap, nsnaps, nreqs, nterms>>
  BY DEF ReplicationTypes, Die
<1>1. /\ relations' \in [Nodes -> Map]
      /\ \A k \in Nodes, p \in Patterns :
            LET r == relations'[k][p] IN r.made \cup r.hosts \subseteq r.shut /\ (~ r.is => r = NoProxy)
  BY <1>0, EmptyOK, RelationsType
<1>2. /\ up' \in [Nodes -> BOOLEAN] /\ fresh' \in [Nodes -> BOOLEAN]
      /\ leader' \in Nodes \cup {None} /\ flag' \in [Nodes -> BOOLEAN]
      /\ unlogged' \in [Nodes -> SUBSET Patterns] /\ drift' \in [Nodes -> SUBSET Patterns]
  BY <1>0 DEF Die, TypeOK
<1>3. notify' \in [Nodes -> Seq(BOOLEAN)]
  <2>1. <<>> \in Seq(BOOLEAN)
    OBVIOUS
  <2> QED
    BY <1>0, <2>1 DEF Die, TypeOK
<1>4. h' \in [Procs -> {Idle} \cup Busy]
  BY <1>0 DEF Die, TypeOK
<1>5. /\ pend' \in [Nodes -> Nat \cup {NoSnapshot}]
      /\ \A m \in Nodes : pend'[m] <= applied'[m]
  BY <1>0 DEF Die, TypeOK, ReplicationTypes, NoSnapshot
<1>6. TypeOK'
  BY <1>0, <1>1, <1>2, <1>3, <1>4, <1>5 DEF TypeOK
<1>7. LogOK'
  <2>1. LogOK /\ log' = log
    BY <1>0
  <2> QED
    BY <2>1, SameLogOK
<1>8. \A m \in Nodes : MapOK(snap[m].made)' /\ snap'[m].index <= Len(log')
  BY <1>0 DEF ReplicationTypes
<1> QED
  BY <1>5, <1>6, <1>7, <1>8 DEF ReplicationTypes

\* Leadership and its notifications.
LEMMA LeadershipTypes ==
  ASSUME ReplicationTypes, NEW n \in Nodes, Elect(n) \/ StepDown(n) \/ WatchLeader(n)
  PROVE  ReplicationTypes'
<1>0. TypeOK /\ LogOK /\ UNCHANGED <<log, applied, nodeVars, snapVars, up, fresh, h, bounds>>
  BY DEF ReplicationTypes, Elect, StepDown, WatchLeader
<1>1. /\ leader' \in Nodes \cup {None} /\ nterms' \in 0 .. MaxTerms
      /\ flag' \in [Nodes -> BOOLEAN]
  <2>1. CASE Elect(n)
    <3>1. MaxTerms \in Nat /\ nterms \in 0 .. MaxTerms /\ flag \in [Nodes -> BOOLEAN]
      BY <1>0, ProxyReplicationAssumption DEF TypeOK
    <3>2. leader' = n /\ nterms < MaxTerms /\ nterms' = nterms + 1 /\ flag' = flag
      BY <2>1 DEF Elect
    <3> QED
      BY <3>1, <3>2
  <2>2. CASE StepDown(n)
    BY <1>0, <2>2 DEF StepDown, TypeOK
  <2>3. CASE WatchLeader(n)
    <3>1. Leads(n) \in BOOLEAN
      BY DEF Leads
    <3> QED
      BY <1>0, <2>3, <3>1 DEF WatchLeader, TypeOK
  <2> QED
    BY <2>1, <2>2, <2>3
<1>2. notify' \in [Nodes -> Seq(BOOLEAN)]
  <2>1. \A q \in Seq(BOOLEAN), b \in BOOLEAN : Append(q, b) \in Seq(BOOLEAN)
    OBVIOUS
  <2>2. \A q \in Seq(BOOLEAN) : q # <<>> => Tail(q) \in Seq(BOOLEAN)
    OBVIOUS
  <2>3. notify \in [Nodes -> Seq(BOOLEAN)]
    BY <1>0 DEF TypeOK
  <2>4. CASE Elect(n)
    <3>1. \A m \in Nodes : (CASE m = n -> Append(notify[m], TRUE)
                              [] m # n /\ m = leader -> Append(notify[m], FALSE)
                              [] OTHER -> notify[m]) \in Seq(BOOLEAN)
      BY <2>1, <2>3
    <3> QED
      BY <2>4, <3>1 DEF Elect
  <2>5. CASE StepDown(n)
    BY <2>1, <2>3, <2>5 DEF StepDown
  <2>6. CASE WatchLeader(n)
    BY <2>2, <2>3, <2>6 DEF WatchLeader
  <2> QED
    BY <2>4, <2>5, <2>6
<1>3. TypeOK'
  BY <1>0, <1>1, <1>2 DEF TypeOK, nodeVars, snapVars, bounds
<1>4. LogOK'
  BY <1>0, SameLogOK
<1>5. \A m \in Nodes : /\ MapOK(snap[m].made)' /\ snap'[m].index <= Len(log')
                       /\ pend'[m] <= applied'[m]
  BY <1>0 DEF ReplicationTypes, snapVars
<1> QED
  BY <1>3, <1>4, <1>5 DEF ReplicationTypes

LEMMA CreateProxyTypes ==
  ASSUME ReplicationTypes, NEW n \in Nodes, NEW ch \in Conf[n], LocalChange(n, ch), CreateProxy(n)
  PROVE  /\ ReplicationTypes' /\ ch \in Change /\ ch.op = "addProxy" /\ n \in Procs
         /\ h' = [h EXCEPT ![n] = [node |-> n, ch |-> {ch}]]
<1>0. TypeOK /\ LogOK /\ n \in Procs
  BY DEF ReplicationTypes, Procs
<1>1. ch \in Change /\ ch.op = "addProxy" /\ Conf[n] = {ch}
  <2>1. Conf[n] \subseteq {c \in Change : c.op = "addProxy"} /\ \A a, b \in Conf[n] : a = b
    OBVIOUS
  <2> QED
    BY <2>1
<1>2. /\ relations' \in [Nodes -> Map]
      /\ \A m \in Nodes, p \in Patterns :
            LET r == relations'[m][p] IN r.made \cup r.hosts \subseteq r.shut /\ (~ r.is => r = NoProxy)
      /\ drift' \in [Nodes -> SUBSET Patterns]
  BY <1>0, <1>1, LocalChangeTypes, RelationsType
<1>3. h' = [h EXCEPT ![n] = [node |-> n, ch |-> {ch}]]
  BY <1>1 DEF CreateProxy
<1>4. h' \in [Procs -> {Idle} \cup Busy]
  <2>1. [node |-> n, ch |-> {ch}] \in Busy
    BY <1>1 DEF Busy
  <2> QED
    BY <1>0, <1>3, <2>1 DEF TypeOK
<1>5. notify' \in [Nodes -> Seq(BOOLEAN)]
  <2>1. \A q \in Seq(BOOLEAN) : q # <<>> => Tail(q) \in Seq(BOOLEAN)
    OBVIOUS
  <2> QED
    BY <1>0, <2>1 DEF CreateProxy, TypeOK
<1>6. UNCHANGED <<log, applied, unlogged, snapVars, up, fresh, flag, leader, nterms, bounds>>
  BY DEF CreateProxy
<1>7. TypeOK'
  BY <1>0, <1>2, <1>4, <1>5, <1>6 DEF TypeOK, snapVars, bounds
<1>8. LogOK'
  BY <1>0, <1>6, SameLogOK
<1>9. \A m \in Nodes : /\ MapOK(snap[m].made)' /\ snap'[m].index <= Len(log')
                       /\ pend'[m] <= applied'[m]
  BY <1>6 DEF ReplicationTypes, snapVars
<1> QED
  BY <1>0, <1>1, <1>3, <1>7, <1>8, <1>9 DEF ReplicationTypes

\* A process that does not run persists no snapshot.
DownIdle == \A n \in Nodes : ~ up[n] => pend[n] = NoSnapshot

LEMMA DownIdleStep == ReplicationTypes /\ DownIdle /\ [Next]_vars => DownIdle'
<1> SUFFICES ASSUME ReplicationTypes, DownIdle, [Next]_vars PROVE DownIdle'
  OBVIOUS
<1>0. up \in [Nodes -> BOOLEAN] /\ pend \in [Nodes -> Nat \cup {NoSnapshot}]
  BY DEF ReplicationTypes, TypeOK
<1>1. CASE UNCHANGED <<up, pend>>
  BY <1>1 DEF DownIdle
<1>2. ASSUME NEW n \in Nodes, Snapshot(n) PROVE DownIdle'
  BY <1>0, <1>2 DEF DownIdle, Snapshot
<1>3. ASSUME NEW n \in Nodes, Persist(n) PROVE DownIdle'
  BY <1>0, <1>3 DEF DownIdle, Persist
<1>4. ASSUME NEW n \in Nodes, InstallSnapshot(n) PROVE DownIdle'
  BY <1>0, <1>4 DEF DownIdle, InstallSnapshot
<1>5. ASSUME NEW n \in Nodes, Die(n) PROVE DownIdle'
  BY <1>0, <1>5 DEF DownIdle, Die
<1>6. ASSUME NEW n \in Nodes, Restart(n) PROVE DownIdle'
  BY <1>0, <1>6 DEF DownIdle, Restart, snapVars
<1>7. ASSUME NEW n \in Nodes, NodeStep(n) PROVE UNCHANGED <<up, pend>> \/ DownIdle'
  <2>1. CASE Apply(n) \/ ApplyTimeout(n)
    BY <2>1 DEF Apply, ApplyTimeout, snapVars
  <2>2. CASE Elect(n) \/ StepDown(n) \/ WatchLeader(n) \/ CreateProxy(n)
    BY <2>2 DEF Elect, StepDown, WatchLeader, CreateProxy, snapVars
  <2>3. CASE FsmPanic(n) \/ Crash(n)
    BY <1>5, <2>3 DEF FsmPanic, Crash
  <2> QED
    BY <1>2, <1>3, <1>4, <1>6, <1>7, <2>1, <2>2, <2>3 DEF NodeStep
<1>8. ASSUME NEW c \in Procs, HandlerStep(c) PROVE UNCHANGED <<up, pend>>
  BY <1>8 DEF HandlerStep, WriteLog, WriteLogFails, snapVars
<1>9. ASSUME NEW c \in Clients, NEW n \in Nodes, NEW ch \in Asked, Request(c, n, ch)
      PROVE  UNCHANGED <<up, pend>>
  BY <1>9 DEF Request, snapVars
<1> QED
  BY <1>1, <1>7, <1>8, <1>9 DEF Next, vars, snapVars

-----------------------------------------------------------------------------
(***************************************************************************)
(* How nodes and snapshots follow the log.                                 *)
(***************************************************************************)
\* What follows the log at an index follows it at an earlier one, where more
\* entries are still to come.
LEMMA FollowsEarlier ==
  ASSUME LogOK, NEW j \in 0 .. Len(log), NEW i \in 0 .. j, NEW p \in Patterns, NEW is
  PROVE  /\ Settles(j, p, is) => Settles(i, p, is)
         /\ Keeps(j, p, is) => Keeps(i, p, is)
<1>0. Len(log) \in Nat
  BY DEF LogOK
<1>1. \A ops : Later(j, p, ops) => Later(i, p, ops)
  <2>1. (j + 1) .. Len(log) \subseteq (i + 1) .. Len(log)
    BY <1>0
  <2> QED
    BY <2>1 DEF Later
<1>2. Settles(j, p, is) => Settles(i, p, is)
  BY <1>1 DEF Settles
<1>3. ASSUME Keeps(j, p, is), MapAt(i)[p].is PROVE is \/ Later(i, p, {"removeProxy"})
  <2>1. CASE MapAt(j)[p].is
    BY <1>1, <1>3, <2>1 DEF Keeps
  <2>2. CASE ~ MapAt(j)[p].is
    <3>1. i \in 0 .. Len(log) /\ j \in i .. Len(log) /\ (i + 1) .. j \subseteq (i + 1) .. Len(log)
      BY <1>0
    <3>2. \E k \in (i + 1) .. j : Decides(k, p, {"removeProxy"})
      BY <1>3, <2>2, <3>1 DEF LogOK
    <3> QED
      BY <3>1, <3>2 DEF Later
  <2> QED
    BY <2>1, <2>2
<1> QED
  BY <1>2, <1>3 DEF Keeps

\* A step that leaves the log, the node and its pending changes as they are.
LEMMA NodeSame ==
  ASSUME NEW n \in Nodes, NodeFollows(n), log' = log, up'[n] => up[n], applied'[n] = applied[n],
         relations'[n] = relations[n], unlogged[n] \subseteq unlogged'[n],
         \A p \in Patterns \ unlogged'[n] :
            /\ p \in Pending(n, {"addProxy", "removeProxy"})
                  => p \in Pending(n, {"addProxy", "removeProxy"})'
            /\ p \in Pending(n, {"removeProxy"}) => p \in Pending(n, {"removeProxy"})'
  PROVE  NodeFollows(n)'
  BY DEF NodeFollows, Settles, Keeps, Later, Decides, MapAt

LEMMA SnapSame ==
  ASSUME NEW n \in Nodes, SnapFollows(n), log' = log, snap'[n] = snap[n]
  PROVE  SnapFollows(n)'
  BY DEF SnapFollows, Settles, Keeps, Later, Decides, MapAt

LEMMA PendingGrows ==
  ASSUME TypeOK, NEW c \in Procs, h[c] = Idle, NEW n \in Nodes, NEW ch \in Change,
         h' = [h EXCEPT ![c] = [node |-> n, ch |-> {ch}]], NEW ops
  PROVE  /\ \A m \in Nodes, p \in Patterns : p \in Pending(m, ops) => p \in Pending(m, ops)'
         /\ ch.op \in ops => ch.pat \in Pending(n, ops)'
<1>1. h[c].ch = {} /\ h \in [Procs -> {Idle} \cup Busy]
  BY DEF Idle, TypeOK
<1>2. h'[c].node = n /\ h'[c].ch = {ch} /\ \A d \in Procs \ {c} : h'[d] = h[d]
  BY <1>1
<1>3. ASSUME NEW m \in Nodes, NEW p \in Patterns, p \in Pending(m, ops) PROVE p \in Pending(m, ops)'
  <2>1. PICK d \in Procs : \E x \in h[d].ch : h[d].node = m /\ x.pat = p /\ x.op \in ops
    BY <1>3 DEF Pending
  <2>2. d # c
    BY <1>1, <2>1
  <2>3. h'[d] = h[d]
    BY <1>2, <2>2
  <2> QED
    BY <2>1, <2>3 DEF Pending
<1>4. ASSUME ch.op \in ops PROVE ch.pat \in Pending(n, ops)'
  BY <1>2, <1>4, ChangeParts DEF Pending
<1> QED
  BY <1>3, <1>4

LEMMA PendingDrops ==
  ASSUME TypeOK, NEW c \in Procs, NEW ch \in h[c].ch, h' = [h EXCEPT ![c] = Idle], NEW ops
  PROVE  \A m \in Nodes, p \in Patterns :
            p \in Pending(m, ops) => \/ p \in Pending(m, ops)'
                                     \/ m = h[c].node /\ p = ch.pat /\ ch.op \in ops
<1>1. h[c].ch = {ch} /\ h \in [Procs -> {Idle} \cup Busy]
  BY BusyProc DEF TypeOK
<1>2. \A d \in Procs \ {c} : h'[d] = h[d]
  BY <1>1
<1>3. ASSUME NEW m \in Nodes, NEW p \in Patterns, p \in Pending(m, ops)
      PROVE  \/ p \in Pending(m, ops)'
             \/ m = h[c].node /\ p = ch.pat /\ ch.op \in ops
  <2>1. PICK d \in Procs : \E x \in h[d].ch : h[d].node = m /\ x.pat = p /\ x.op \in ops
    BY <1>3 DEF Pending
  <2>2. CASE d = c
    BY <1>1, <2>1, <2>2
  <2>3. CASE d # c
    <3>1. h'[d] = h[d]
      BY <1>2, <2>3
    <3> QED
      BY <2>1, <3>1 DEF Pending
  <2> QED
    BY <2>2, <2>3
<1> QED
  BY <1>3

\* A handler or the leader watch changes its own node; an entry is to follow.
LEMMA LocalFollows ==
  ASSUME FollowInv, NEW c \in Procs, h[c] = Idle, NEW n \in Nodes, NEW ch \in Change,
         LocalChange(n, ch), h' = [h EXCEPT ![c] = [node |-> n, ch |-> {ch}]],
         UNCHANGED <<log, applied, unlogged, snap, up>>
  PROVE  \A m \in Nodes : NodeFollows(m)' /\ SnapFollows(m)'
<1>0. TypeOK /\ MapOK(relations[n]) /\ relations \in [Nodes -> Map]
  BY RelationsOK DEF FollowInv, ReplicationTypes, TypeOK
<1>1. /\ \A m \in Nodes, p \in Patterns :
            /\ p \in Pending(m, {"addProxy", "removeProxy"})
                  => p \in Pending(m, {"addProxy", "removeProxy"})'
            /\ p \in Pending(m, {"removeProxy"}) => p \in Pending(m, {"removeProxy"})'
      /\ ch.op \in {"addProxy", "removeProxy"} => ch.pat \in Pending(n, {"addProxy", "removeProxy"})'
      /\ ch.op \in {"removeProxy"} => ch.pat \in Pending(n, {"removeProxy"})'
  BY <1>0, PendingGrows
<1>2. /\ relations' = [relations EXCEPT ![n] = LocalApply(relations[n], ch)]
      /\ \A p \in Patterns : LocalApply(relations[n], ch)[p].is <=> IsAfter(ch, p, relations[n][p].is)
  BY <1>0, LocalChangeTypes, LocalApplyOK
<1>3. ASSUME NEW p \in Patterns PROVE relations'[n][p].is <=> IsAfter(ch, p, relations[n][p].is)
  BY <1>0, <1>2
<1>4. ASSUME NEW m \in Nodes, m # n PROVE NodeFollows(m)'
  <2>1. relations'[m] = relations[m]
    BY <1>0, <1>2, <1>4
  <2> QED
    BY <1>1, <2>1, NodeSame DEF FollowInv
<1>5. NodeFollows(n)'
  <2>1. ASSUME up[n], NEW p \in Patterns \ unlogged[n], p \notin Pending(n, {"addProxy", "removeProxy"})'
        PROVE  Settles(applied[n], p, relations'[n][p].is)
    <3>1. Settles(applied[n], p, relations[n][p].is)
      BY <1>1, <2>1 DEF FollowInv, NodeFollows
    <3>2. relations'[n][p].is <=> relations[n][p].is
      BY <1>1, <1>3, <2>1 DEF IsAfter
    <3> QED
      BY <3>1, <3>2 DEF Settles
  <2>2. ASSUME up[n], NEW p \in Patterns \ unlogged[n], p \notin Pending(n, {"removeProxy"})'
        PROVE  Keeps(applied[n], p, relations'[n][p].is)
    <3>1. Keeps(applied[n], p, relations[n][p].is)
      BY <1>1, <2>2 DEF FollowInv, NodeFollows
    <3>2. relations[n][p].is => relations'[n][p].is
      BY <1>1, <1>3, <2>2 DEF IsAfter
    <3> QED
      BY <3>1, <3>2 DEF Keeps
  <2> QED
    BY <2>1, <2>2 DEF NodeFollows, Settles, Keeps, Later, Decides, MapAt
<1>6. ASSUME NEW m \in Nodes PROVE SnapFollows(m)'
  BY SnapSame DEF FollowInv
<1> QED
  BY <1>4, <1>5, <1>6

\* A new entry is later than every index.
LEMMA EntryFollows ==
  ASSUME LogOK, NEW ch \in Change, log' = Append(log, Entry(ch)), NEW n, n = Len(log),
         NEW i \in 0 .. n, NEW p \in Patterns, NEW is
  PROVE  /\ Settles(i, p, is) => Settles(i, p, is)'
         /\ Keeps(i, p, is) => Keeps(i, p, is)'
         /\ ch.pat = p /\ ch.op \in {"addProxy", "removeProxy"} => Settles(i, p, is)'
         /\ ch.pat = p /\ ch.op = "removeProxy" => Keeps(i, p, is)'
<1>1. /\ n \in Nat /\ Len(log') = n + 1
      /\ \A k \in 1 .. n : log'[k] = log[k]
      /\ log'[n + 1].ch = ch
      /\ \A k \in 0 .. n : MapAt(k)' = MapAt(k)
      /\ \A q \in Patterns : MapAt(n + 1)'[q].is <=> IsAfter(ch, q, MapAt(n)[q].is)
  BY LogGrows
<1>2. ASSUME NEW ops, Later(i, p, ops) PROVE Later(i, p, ops)'
  <2>1. PICK k \in (i + 1) .. n : Decides(k, p, ops)
    BY <1>2 DEF Later
  <2>2. k \in (i + 1) .. Len(log') /\ log'[k] = log[k]
    BY <1>1
  <2> QED
    BY <2>1, <2>2 DEF Later, Decides
<1>3. ASSUME NEW ops, ch.pat = p, ch.op \in ops PROVE Later(i, p, ops)'
  <2>1. n + 1 \in (i + 1) .. Len(log') /\ Decides(n + 1, p, ops)'
    BY <1>1, <1>3 DEF Decides
  <2> QED
    BY <2>1 DEF Later
<1>4. ASSUME Settles(i, p, is), ~ (ch.pat = p /\ ch.op \in {"addProxy", "removeProxy"})
      PROVE  Settles(i, p, is)'
  <2>1. MapAt(n + 1)'[p].is <=> MapAt(n)[p].is
    BY <1>1, <1>4 DEF IsAfter
  <2>2. CASE Later(i, p, {"addProxy", "removeProxy"})
    BY <1>2, <2>2 DEF Settles
  <2>3. CASE is <=> MapAt(Len(log))[p].is
    <3>1. is <=> MapAt(n + 1)'[p].is
      BY <2>1, <2>3
    <3>2. Len(log)' = n + 1
      BY <1>1
    <3> QED
      BY <3>1, <3>2 DEF Settles, MapAt
  <2> QED
    BY <1>4, <2>2, <2>3 DEF Settles
<1>5. ch.pat = p /\ ch.op \in {"addProxy", "removeProxy"} => Settles(i, p, is)'
  BY <1>3 DEF Settles
<1>6. ASSUME Keeps(i, p, is) PROVE Keeps(i, p, is)'
  BY <1>1, <1>2, <1>6 DEF Keeps
<1>7. ch.pat = p /\ ch.op = "removeProxy" => Keeps(i, p, is)'
  BY <1>3 DEF Keeps
<1> QED
  BY <1>4, <1>5, <1>6, <1>7

\* The entry of a change made before; the change is no longer in progress.
LEMMA WriteLogFollows ==
  ASSUME FollowInv, NEW c \in Procs, NEW ch \in h[c].ch, log' = Append(log, Entry(ch)),
         h' = [h EXCEPT ![c] = Idle],
         UNCHANGED <<applied, relations, unlogged, snap, up>>
  PROVE  \A m \in Nodes : NodeFollows(m)' /\ SnapFollows(m)'
<1>0. /\ TypeOK /\ LogOK /\ ch \in Change
      /\ \A m \in Nodes : applied[m] \in 0 .. Len(log) /\ snap[m].index \in 0 .. Len(log)
  BY BusyProc DEF FollowInv, ReplicationTypes, TypeOK
<1>1. PICK n : n = Len(log)
  OBVIOUS
<1>2. ASSUME NEW i \in 0 .. n, NEW p \in Patterns, NEW is
      PROVE  /\ Settles(i, p, is) => Settles(i, p, is)'
             /\ Keeps(i, p, is) => Keeps(i, p, is)'
             /\ ch.pat = p /\ ch.op \in {"addProxy", "removeProxy"} => Settles(i, p, is)'
             /\ ch.pat = p /\ ch.op = "removeProxy" => Keeps(i, p, is)'
  BY <1>0, <1>1, EntryFollows
<1>3. ASSUME NEW m \in Nodes, NEW p \in Patterns, NEW ops, p \in Pending(m, ops)
      PROVE  p \in Pending(m, ops)' \/ (p = ch.pat /\ ch.op \in ops)
  BY <1>0, <1>3, PendingDrops
<1>4. ASSUME NEW m \in Nodes PROVE NodeFollows(m)'
  <2> DEFINE i == applied[m]
  <2>0. i \in 0 .. n
    BY <1>0, <1>1
  <2>1. ASSUME up[m], NEW p \in Patterns \ unlogged[m], p \notin Pending(m, {"addProxy", "removeProxy"})'
        PROVE  Settles(applied[m], p, relations[m][p].is)'
    <3>0. PICK is : is = relations[m][p].is
      OBVIOUS
    <3>1. Settles(i, p, is) \/ (p = ch.pat /\ ch.op \in {"addProxy", "removeProxy"})
      BY <1>3, <2>1, <3>0 DEF FollowInv, NodeFollows
    <3>2. Settles(i, p, is)'
      BY <1>2, <2>0, <3>1
    <3> QED
      BY <3>0, <3>2 DEF Settles, Later, Decides
  <2>2. ASSUME up[m], NEW p \in Patterns \ unlogged[m], p \notin Pending(m, {"removeProxy"})'
        PROVE  Keeps(applied[m], p, relations[m][p].is)'
    <3>0. PICK is : is = relations[m][p].is
      OBVIOUS
    <3>1. Keeps(i, p, is) \/ (p = ch.pat /\ ch.op = "removeProxy")
      BY <1>3, <2>2, <3>0 DEF FollowInv, NodeFollows
    <3>2. Keeps(i, p, is)'
      BY <1>2, <2>0, <3>1
    <3> QED
      BY <3>0, <3>2 DEF Keeps, MapAt, Later, Decides
  <2> QED
    BY <2>1, <2>2 DEF NodeFollows
<1>5. ASSUME NEW m \in Nodes PROVE SnapFollows(m)'
  <2>1. ASSUME NEW p \in Patterns \ snap[m].unlogged
        PROVE  /\ Settles(snap[m].index, p, snap[m].made[p].is)'
               /\ Keeps(snap[m].index, p, snap[m].made[p].is)'
    <3>0. PICK s : s = snap[m]
      OBVIOUS
    <3>1. s.index \in 0 .. n /\ Settles(s.index, p, s.made[p].is) /\ Keeps(s.index, p, s.made[p].is)
      BY <1>0, <1>1, <3>0 DEF FollowInv, SnapFollows
    <3>2. Settles(s.index, p, s.made[p].is)' /\ Keeps(s.index, p, s.made[p].is)'
      BY <1>2, <3>1
    <3> QED
      BY <3>0, <3>2 DEF Settles, Keeps, MapAt, Later, Decides
  <2> QED
    BY <2>1 DEF SnapFollows
<1> QED
  BY <1>4, <1>5

\* The entry that fails: its pattern, if it is added or removed, is unlogged.
LEMMA WriteLogFailsFollows ==
  ASSUME FollowInv, NEW c \in Procs, WriteLogFails(c)
  PROVE  \A m \in Nodes : NodeFollows(m)' /\ SnapFollows(m)'
<1>1. PICK ch \in h[c].ch :
        /\ unlogged' = IF ch.op \in {"addProxy", "removeProxy"}
                       THEN [unlogged EXCEPT ![h[c].node] = @ \cup {ch.pat}] ELSE unlogged
        /\ h' = [h EXCEPT ![c] = Idle]
        /\ UNCHANGED <<log, applied, relations, snap, up>>
  BY DEF WriteLogFails, Return, snapVars
<1>2. TypeOK /\ h[c].node \in Nodes
  BY BusyProc DEF FollowInv, ReplicationTypes
<1>3. \A m \in Nodes : unlogged[m] \subseteq unlogged'[m]
  BY <1>1, <1>2 DEF TypeOK
<1>4. ASSUME NEW ops, ops \subseteq {"addProxy", "removeProxy"}, NEW m \in Nodes,
             NEW p \in Patterns \ unlogged'[m], p \in Pending(m, ops)
      PROVE  p \in Pending(m, ops)'
  <2>1. p \in Pending(m, ops)' \/ (m = h[c].node /\ p = ch.pat /\ ch.op \in ops)
    BY <1>1, <1>2, <1>4, PendingDrops
  <2>2. ASSUME m = h[c].node, p = ch.pat, ch.op \in ops PROVE p \in unlogged'[m]
    <3>1. ch.op \in {"addProxy", "removeProxy"}
      BY <1>4, <2>2
    <3>2. unlogged' = [unlogged EXCEPT ![m] = unlogged[m] \cup {p}]
      BY <1>1, <1>2, <2>2, <3>1 DEF TypeOK
    <3>3. unlogged'[m] = unlogged[m] \cup {p}
      BY <1>2, <3>2 DEF TypeOK
    <3> QED
      BY <3>3
  <2> QED
    BY <2>1, <2>2
<1>5. ASSUME NEW m \in Nodes PROVE NodeFollows(m)'
  BY <1>1, <1>3, <1>4, NodeSame DEF FollowInv
<1>6. ASSUME NEW m \in Nodes PROVE SnapFollows(m)'
  BY <1>1, SnapSame DEF FollowInv
<1> QED
  BY <1>5, <1>6

\* One entry further.
LEMMA FollowsNext ==
  ASSUME LogOK, NEW i \in Nat, i + 1 \in 1 .. Len(log), NEW p \in Patterns, NEW ch,
         ch = log[i + 1].ch, NEW is, NEW after, after <=> IsAfter(ch, p, is)
  PROVE  /\ Settles(i, p, is) => Settles(i + 1, p, after)
         /\ Keeps(i, p, is) => Keeps(i + 1, p, after)
         /\ ch.pat = p /\ ch.op \in {"addProxy", "removeProxy"}
               => Settles(i + 1, p, after) /\ Keeps(i + 1, p, after)
<1>0. ch \in Change /\ Len(log) \in Nat
  BY LogChange DEF LogOK
<1>1. MapAt(i + 1)[p].is <=> IsAfter(ch, p, MapAt(i)[p].is)
  <2>1. MapAt(i + 1)[p].is <=> IsAfter(log[i + 1].ch, p, MapAt((i + 1) - 1)[p].is)
    BY DEF LogOK
  <2>2. (i + 1) - 1 = i
    OBVIOUS
  <2> QED
    BY <2>1, <2>2
<1>2. \/ Later(i + 1, p, {"addProxy", "removeProxy"})
      \/ MapAt(Len(log))[p].is <=> IsAfter(ch, p, MapAt(i)[p].is)
  <2>1. (i + 1) - 1 = i
    OBVIOUS
  <2> QED
    BY <2>1, DecidedLast
<1>3. ASSUME NEW ops, Later(i, p, ops), ~ Decides(i + 1, p, ops) PROVE Later(i + 1, p, ops)
  <2>1. PICK k \in (i + 1) .. Len(log) : Decides(k, p, ops)
    BY <1>3 DEF Later
  <2>2. k # i + 1
    BY <1>3, <2>1
  <2>3. k \in ((i + 1) + 1) .. Len(log)
    BY <1>0, <2>2
  <2> QED
    BY <2>1, <2>3 DEF Later
<1>4. CASE ch.pat = p /\ ch.op \in {"addProxy", "removeProxy"}
  <2>1. /\ after <=> ch.op = "addProxy"
        /\ MapAt(i + 1)[p].is <=> ch.op = "addProxy"
        /\ \/ Later(i + 1, p, {"addProxy", "removeProxy"})
           \/ MapAt(Len(log))[p].is <=> ch.op = "addProxy"
    BY <1>1, <1>2, <1>4 DEF IsAfter
  <2>2. Settles(i + 1, p, after)
    BY <2>1 DEF Settles
  <2>3. Keeps(i + 1, p, after)
    BY <2>1 DEF Keeps
  <2> QED
    BY <2>2, <2>3
<1>5. CASE ~ (ch.pat = p /\ ch.op \in {"addProxy", "removeProxy"})
  <2>1. (after <=> is) /\ (MapAt(i + 1)[p].is <=> MapAt(i)[p].is)
    BY <1>1, <1>5 DEF IsAfter
  <2>2. ~ Decides(i + 1, p, {"addProxy", "removeProxy"}) /\ ~ Decides(i + 1, p, {"removeProxy"})
    BY <1>5 DEF Decides
  <2>3. Settles(i, p, is) => Settles(i + 1, p, after)
    BY <1>3, <2>1, <2>2 DEF Settles
  <2>4. Keeps(i, p, is) => Keeps(i + 1, p, after)
    BY <1>3, <2>1, <2>2 DEF Keeps
  <2> QED
    BY <1>5, <2>3, <2>4
<1> QED
  BY <1>4, <1>5

LEMMA ApplyFollows ==
  ASSUME FollowInv, NEW n \in Nodes, Apply(n) \/ ApplyTimeout(n)
  PROVE  \A m \in Nodes : NodeFollows(m)' /\ SnapFollows(m)'
<1>0. /\ TypeOK /\ LogOK /\ ReplicationTypes /\ Behind(n)
      /\ UNCHANGED <<log, snap, up, h>>
  BY DEF FollowInv, ReplicationTypes, Apply, ApplyTimeout, snapVars
<1> DEFINE ch == NextChange(n)
<1>1. /\ applied[n] \in Nat /\ applied[n] + 1 \in 1 .. Len(log) /\ ch \in Change
      /\ ch = log[applied[n] + 1].ch
  BY <1>0, BehindTypes
<1>2. /\ applied'[n] = applied[n] + 1
      /\ \A m \in Nodes \ {n} : applied'[m] = applied[m]
  <2>1. applied' = [applied EXCEPT ![n] = applied[n] + 1]
    BY <1>0 DEF Apply, ApplyTimeout, TypeOK
  <2> QED
    BY <1>0, <2>1 DEF TypeOK
<1>3. /\ \A m \in Nodes \ {n} : relations'[m] = relations[m]
      /\ \A p \in Patterns : relations'[n][p].is <=> IsAfter(ch, p, relations[n][p].is)
  <2>1. CASE Apply(n)
    <3>1. relations'[n] = FsmApply(relations[n], ch) /\ \A m \in Nodes \ {n} : relations'[m] = relations[m]
      BY <1>0, <2>1 DEF Apply, TypeOK
    <3>2. \A p \in Patterns : FsmApply(relations[n], ch)[p].is <=> IsAfter(ch, p, relations[n][p].is)
      BY <1>0, <1>1, RelationsOK, FsmApplyOK
    <3> QED
      BY <3>1, <3>2
  <2>2. CASE ApplyTimeout(n)
    <3>1. relations' = relations /\ ch.op = "removeHost"
      BY <2>2 DEF ApplyTimeout
    <3> QED
      BY <3>1 DEF IsAfter
  <2> QED
    BY <2>1, <2>2
<1>4. /\ \A m \in Nodes \ {n} : unlogged'[m] = unlogged[m]
      /\ ch.op \notin {"addProxy", "removeProxy"} => unlogged'[n] = unlogged[n]
      /\ \A p \in unlogged[n] \ unlogged'[n] : p = ch.pat
  <2>1. unlogged' = IF ch.op \in {"addProxy", "removeProxy"}
                    THEN [unlogged EXCEPT ![n] = unlogged[n] \ {ch.pat}] ELSE unlogged
    BY <1>0 DEF Apply, ApplyTimeout, Settle, TypeOK
  <2> HIDE DEF ch
  <2> QED
    BY <1>0, <2>1 DEF TypeOK
<1> HIDE DEF ch
<1>5. ASSUME NEW m \in Nodes \ {n} PROVE NodeFollows(m)'
  BY <1>0, <1>2, <1>3, <1>4, NodeSame DEF FollowInv, Pending
<1>6. NodeFollows(n)'
  <2> DEFINE i == applied[n]
             is(p) == relations[n][p].is
             after(p) == relations'[n][p].is
  <2>1. ASSUME NEW p \in Patterns
        PROVE  /\ Settles(i, p, is(p)) => Settles(i + 1, p, after(p))
               /\ Keeps(i, p, is(p)) => Keeps(i + 1, p, after(p))
               /\ ch.pat = p /\ ch.op \in {"addProxy", "removeProxy"}
                     => Settles(i + 1, p, after(p)) /\ Keeps(i + 1, p, after(p))
    <3> DEFINE a == relations'[n][p].is
               b == relations[n][p].is
    <3>1. a <=> IsAfter(ch, p, b)
      BY <1>3, <2>1
    <3> HIDE DEF a, b
    <3>2. /\ Settles(i, p, b) => Settles(i + 1, p, a)
          /\ Keeps(i, p, b) => Keeps(i + 1, p, a)
          /\ ch.pat = p /\ ch.op \in {"addProxy", "removeProxy"}
                => Settles(i + 1, p, a) /\ Keeps(i + 1, p, a)
      BY <1>0, <1>1, <2>1, <3>1, FollowsNext
    <3> QED
      BY <3>2 DEF a, b
  <2>2. ASSUME up[n], NEW p \in Patterns \ unlogged'[n]
        PROVE  /\ p \notin Pending(n, {"addProxy", "removeProxy"})
                     => Settles(i + 1, p, after(p))
               /\ p \notin Pending(n, {"removeProxy"}) => Keeps(i + 1, p, after(p))
    <3>1. CASE ch.pat = p /\ ch.op \in {"addProxy", "removeProxy"}
      BY <2>1, <3>1
    <3>2. CASE ~ (ch.pat = p /\ ch.op \in {"addProxy", "removeProxy"})
      <4>1. p \notin unlogged[n]
        BY <1>4, <2>2, <3>2
      <4> QED
        BY <2>1, <2>2, <4>1 DEF FollowInv, NodeFollows
    <3> QED
      BY <3>1, <3>2
  <2>3. \A p, ops : p \in Pending(n, ops)' <=> p \in Pending(n, ops)
    BY <1>0 DEF Pending
  <2> QED
    BY <1>0, <1>2, <2>2, <2>3 DEF NodeFollows, Settles, Keeps, Later, Decides, MapAt
<1>7. ASSUME NEW m \in Nodes PROVE SnapFollows(m)'
  BY <1>0, SnapSame DEF FollowInv
<1> QED
  BY <1>5, <1>6, <1>7

\* Snapshots are written after their index: from a map that is further.
LEMMA PersistFollows ==
  ASSUME FollowInv, NEW n \in Nodes, Persist(n)
  PROVE  \A m \in Nodes : NodeFollows(m)' /\ SnapFollows(m)'
<1> DEFINE s == [index |-> pend[n], made |-> FromLocations(relations[n]),
                 unlogged |-> unlogged[n] \cup InFlight(n),
                 drift |-> drift[n] \cup InFlight(n)]
<1>0. /\ TypeOK /\ LogOK /\ up[n] /\ pend[n] # NoSnapshot
      /\ snap' = [snap EXCEPT ![n] = s]
      /\ UNCHANGED <<log, applied, relations, unlogged, up, h>>
  BY DEF FollowInv, ReplicationTypes, Persist, nodeVars
<1>1. pend[n] \in 0 .. applied[n] /\ applied[n] \in 0 .. Len(log)
  BY <1>0 DEF FollowInv, ReplicationTypes, TypeOK
<1>2. /\ s.index = pend[n] /\ s.unlogged = unlogged[n] \cup InFlight(n)
      /\ \A p \in Patterns : s.made[p].is <=> relations[n][p].is
  BY <1>0, RelationsOK, FromLocationsOK
<1> HIDE DEF s
<1>3. snap'[n] = s /\ \A m \in Nodes \ {n} : snap'[m] = snap[m]
  BY <1>0 DEF TypeOK
<1>4. ASSUME NEW p \in Patterns \ s.unlogged
      PROVE  Settles(s.index, p, s.made[p].is) /\ Keeps(s.index, p, s.made[p].is)
  <2>1. /\ p \notin unlogged[n] /\ p \notin Pending(n, {"addProxy", "removeProxy"})
        /\ p \notin Pending(n, {"removeProxy"})
    BY <1>2, <1>4 DEF InFlight, Pending
  <2> DEFINE is == relations[n][p].is
  <2>2. Settles(applied[n], p, is) /\ Keeps(applied[n], p, is)
    BY <1>0, <1>4, <2>1 DEF FollowInv, NodeFollows
  <2> HIDE DEF is
  <2>3. Settles(pend[n], p, is) /\ Keeps(pend[n], p, is)
    BY <1>0, <1>1, <1>4, <2>2, FollowsEarlier
  <2>4. s.made[p].is <=> is
    BY <1>2, <1>4 DEF is
  <2> QED
    BY <1>2, <2>3, <2>4 DEF Settles, Keeps
<1>5. SnapFollows(n)'
  BY <1>0, <1>3, <1>4 DEF SnapFollows, Settles, Keeps, Later, Decides, MapAt
<1>6. ASSUME NEW m \in Nodes \ {n} PROVE SnapFollows(m)'
  BY <1>0, <1>3, SnapSame DEF FollowInv
<1>7. ASSUME NEW m \in Nodes PROVE NodeFollows(m)'
  BY <1>0, NodeSame DEF FollowInv, Pending
<1> QED
  BY <1>5, <1>6, <1>7

\* A node restores its own snapshot, or that of the leader.
LEMMA RestoreFollows ==
  ASSUME FollowInv, NEW n \in Nodes, NEW m \in Nodes, Restore(n, snap[m]),
         UNCHANGED <<log, h>>, \A k \in Nodes \ {n} : up'[k] = up[k],
         snap' = snap \/ snap' = [snap EXCEPT ![n] = snap[m]]
  PROVE  \A k \in Nodes : NodeFollows(k)' /\ SnapFollows(k)'
<1>0. TypeOK
  BY DEF FollowInv, ReplicationTypes
<1>1. /\ relations'[n] = snap[m].made /\ unlogged'[n] = snap[m].unlogged
      /\ applied'[n] = snap[m].index
      /\ \A k \in Nodes \ {n} : /\ relations'[k] = relations[k] /\ unlogged'[k] = unlogged[k]
                                /\ applied'[k] = applied[k]
  BY <1>0 DEF Restore, TypeOK
<1>2. \A k \in Nodes : snap'[k] = snap[k] \/ (k = n /\ snap'[n] = snap[m])
  <2>1. CASE snap' = snap
    BY <2>1
  <2>2. CASE snap' = [snap EXCEPT ![n] = snap[m]]
    BY <1>0, <2>2 DEF TypeOK
  <2> QED
    BY <2>1, <2>2
<1>3. NodeFollows(n)'
  BY <1>1 DEF FollowInv, SnapFollows, NodeFollows, Settles, Keeps, Later, Decides, MapAt
<1>4. ASSUME NEW k \in Nodes \ {n} PROVE NodeFollows(k)'
  BY <1>1, NodeSame DEF FollowInv, Pending
<1>5. ASSUME NEW k \in Nodes PROVE SnapFollows(k)'
  <2>1. CASE snap'[k] = snap[k]
    BY <2>1, SnapSame DEF FollowInv
  <2>2. CASE k = n /\ snap'[n] = snap[m]
    BY <2>2 DEF FollowInv, SnapFollows, Settles, Keeps, Later, Decides, MapAt
  <2> QED
    BY <1>2, <2>1, <2>2
<1> QED
  BY <1>3, <1>4, <1>5

LEMMA DieFollows ==
  ASSUME FollowInv, NEW n \in Nodes, Die(n)
  PROVE  \A m \in Nodes : NodeFollows(m)' /\ SnapFollows(m)'
<1>0. TypeOK /\ UNCHANGED <<log, applied, snap>>
  BY DEF FollowInv, ReplicationTypes, Die
<1>1. /\ ~ up'[n]
      /\ \A m \in Nodes \ {n} : /\ up'[m] = up[m] /\ relations'[m] = relations[m]
                                /\ unlogged'[m] = unlogged[m]
  BY <1>0 DEF Die, TypeOK
<1>2. ASSUME NEW m \in Nodes \ {n}, NEW p, NEW ops, p \in Pending(m, ops)
      PROVE  p \in Pending(m, ops)'
  <2>1. PICK c \in Procs : \E x \in h[c].ch : h[c].node = m /\ x.pat = p /\ x.op \in ops
    BY <1>2 DEF Pending
  <2>2. h'[c] = h[c]
    BY <2>1 DEF Die
  <2> QED
    BY <1>2, <2>1, <2>2 DEF Pending
<1>3. NodeFollows(n)'
  BY <1>1 DEF NodeFollows
<1>4. ASSUME NEW m \in Nodes \ {n} PROVE NodeFollows(m)'
  BY <1>0, <1>1, <1>2, NodeSame DEF FollowInv
<1>5. ASSUME NEW m \in Nodes PROVE SnapFollows(m)'
  BY <1>0, SnapSame DEF FollowInv
<1> QED
  BY <1>3, <1>4, <1>5

LEMMA FrameFollows ==
  ASSUME FollowInv, UNCHANGED <<log, applied, relations, unlogged, snap, up, h>>
  PROVE  \A m \in Nodes : NodeFollows(m)' /\ SnapFollows(m)'
<1>1. ASSUME NEW m \in Nodes PROVE NodeFollows(m)'
  BY NodeSame DEF FollowInv, Pending
<1>2. ASSUME NEW m \in Nodes PROVE SnapFollows(m)'
  BY SnapSame DEF FollowInv
<1> QED
  BY <1>1, <1>2

-----------------------------------------------------------------------------
(***************************************************************************)
(* The invariant, and what follows from it.                                *)
(***************************************************************************)
LEMMA FollowInit == Init => FollowInv /\ DownIdle
<1> SUFFICES ASSUME Init PROVE FollowInv /\ DownIdle
  OBVIOUS
<1>1. ReplicationTypes
  BY InitTypes
<1>2. \A p \in Patterns : ~ Empty[p].is
  BY EmptyOK
<1>3. /\ MapAt(0) = Empty /\ Len(log) = 0
      /\ \A n \in Nodes : /\ relations[n] = Empty /\ snap[n].made = Empty
                          /\ applied[n] = 0 /\ snap[n].index = 0
  BY DEF Init, NewSnapshot, MapAt
<1>4. \A n \in Nodes : NodeFollows(n) /\ SnapFollows(n)
  BY <1>2, <1>3 DEF NodeFollows, SnapFollows, Settles, Keeps
<1>5. DownIdle
  BY DEF DownIdle, Init
<1> QED
  BY <1>1, <1>4, <1>5 DEF FollowInv

LEMMA RequestKeeps ==
  ASSUME FollowInv, NEW c \in Clients, NEW n \in Nodes, NEW ch \in Asked, Request(c, n, ch)
  PROVE  FollowInv'
<1>1. c \in Procs /\ ch \in Change /\ h[c] = Idle /\ LocalChange(n, ch)
  BY ProxyReplicationAssumption DEF Request, Procs
<1>2. /\ h' = [h EXCEPT ![c] = [node |-> n, ch |-> {ch}]]
      /\ UNCHANGED <<log, applied, unlogged, snap, up>>
  BY DEF Request, snapVars
<1>3. ReplicationTypes'
  BY <1>1, RequestTypes DEF FollowInv
<1> QED
  BY <1>1, <1>2, <1>3, LocalFollows DEF FollowInv

LEMMA HandlerKeeps ==
  ASSUME FollowInv, NEW c \in Procs, HandlerStep(c)
  PROVE  FollowInv'
<1>1. CASE WriteLog(c)
  <2>1. PICK ch \in h[c].ch :
          /\ leader = h[c].node
          /\ log' = Append(log, Entry(ch))
          /\ Return(c)
          /\ UNCHANGED <<applied, nodeVars, snapVars, up, fresh, raftVars, bounds>>
    BY <1>1 DEF WriteLog, Entry
  <2>2. ReplicationTypes'
    BY <2>1, WriteLogTypes DEF FollowInv
  <2>3. h' = [h EXCEPT ![c] = Idle] /\ UNCHANGED <<applied, relations, unlogged, snap, up>>
    BY <2>1 DEF Return, nodeVars, snapVars
  <2> QED
    BY <2>1, <2>2, <2>3, WriteLogFollows DEF FollowInv
<1>2. CASE WriteLogFails(c)
  BY <1>2, WriteLogFailsTypes, WriteLogFailsFollows DEF FollowInv
<1> QED
  BY <1>1, <1>2 DEF HandlerStep

LEMMA NodeKeeps ==
  ASSUME FollowInv, DownIdle, NEW n \in Nodes, NodeStep(n)
  PROVE  FollowInv'
<1>1. CASE Apply(n) \/ ApplyTimeout(n)
  BY <1>1, ApplyTypes, ApplyFollows DEF FollowInv
<1>2. CASE FsmPanic(n) \/ Crash(n)
  <2>1. Die(n) /\ ncrashes' \in 0 .. MaxCrashes
    BY <1>2 DEF FsmPanic, Crash, FollowInv, ReplicationTypes, TypeOK
  <2> QED
    BY <2>1, DieTypes, DieFollows DEF FollowInv
<1>3. CASE Snapshot(n)
  BY <1>3, SnapshotTypes, FrameFollows DEF FollowInv, Snapshot, nodeVars
<1>4. CASE Persist(n)
  BY <1>4, PersistTypes, PersistFollows DEF FollowInv
<1>5. CASE InstallSnapshot(n)
  <2>1. ReplicationTypes'
    BY <1>5, InstallTypes DEF FollowInv
  <2>2. leader \in Nodes /\ Restore(n, snap[leader]) /\ snap' = [snap EXCEPT ![n] = snap[leader]]
        /\ UNCHANGED <<log, up, h>>
    BY <1>5 DEF InstallSnapshot
  <2> QED
    BY <2>1, <2>2, RestoreFollows DEF FollowInv
<1>6. CASE Restart(n)
  <2>1. ReplicationTypes'
    BY <1>6, RestartTypes DEF FollowInv, DownIdle, Restart
  <2>2. Restore(n, snap[n]) /\ UNCHANGED <<log, snap, h>> /\ \A k \in Nodes \ {n} : up'[k] = up[k]
    BY <1>6 DEF Restart, snapVars, FollowInv, ReplicationTypes, TypeOK
  <2> QED
    BY <2>1, <2>2, RestoreFollows DEF FollowInv
<1>7. CASE Elect(n) \/ StepDown(n) \/ WatchLeader(n)
  <2>1. UNCHANGED <<log, applied, relations, unlogged, snap, up, h>>
    BY <1>7 DEF Elect, StepDown, WatchLeader, nodeVars, snapVars
  <2> QED
    BY <1>7, <2>1, LeadershipTypes, FrameFollows DEF FollowInv
<1>8. CASE CreateProxy(n)
  <2>1. PICK ch \in Conf[n] : LocalChange(n, ch)
    BY <1>8 DEF CreateProxy
  <2>2. /\ ReplicationTypes' /\ ch \in Change /\ n \in Procs
        /\ h' = [h EXCEPT ![n] = [node |-> n, ch |-> {ch}]]
    BY <1>8, <2>1, CreateProxyTypes DEF FollowInv
  <2>3. h[n] = Idle /\ UNCHANGED <<log, applied, unlogged, snap, up>>
    BY <1>8 DEF CreateProxy, snapVars
  <2> QED
    BY <2>1, <2>2, <2>3, LocalFollows DEF FollowInv
<1> QED
  BY <1>1, <1>2, <1>3, <1>4, <1>5, <1>6, <1>7, <1>8 DEF NodeStep

LEMMA StutterKeeps == FollowInv /\ UNCHANGED vars => FollowInv'
<1> SUFFICES ASSUME FollowInv, UNCHANGED vars PROVE FollowInv'
  OBVIOUS
<1>0. UNCHANGED <<log, applied, relations, unlogged, drift, pend, snap, nsnaps, up, fresh, flag,
                  leader, notify, nterms, h, nreqs, ncrashes>>
  BY DEF vars, nodeVars, snapVars, raftVars, bounds
<1>1. TypeOK'
  BY <1>0 DEF FollowInv, ReplicationTypes, TypeOK
<1>2. LogOK'
  BY <1>0, SameLogOK DEF FollowInv, ReplicationTypes
<1>3. ReplicationTypes'
  BY <1>0, <1>1, <1>2 DEF FollowInv, ReplicationTypes
<1> QED
  BY <1>0, <1>3, FrameFollows DEF FollowInv

LEMMA FollowNext == FollowInv /\ DownIdle /\ [Next]_vars => (FollowInv /\ DownIdle)'
<1>1. FollowInv /\ DownIdle /\ [Next]_vars => DownIdle'
  BY DownIdleStep DEF FollowInv
<1> QED
  BY <1>1, RequestKeeps, HandlerKeeps, NodeKeeps, StutterKeeps DEF Next

LEMMA Follows == Spec => [](FollowInv /\ DownIdle)
  BY FollowInit, FollowNext, PTL DEF Spec

(***************************************************************************)
(* The types: the index of a snapshot being persisted and the map of each  *)
(* node stay well-formed, for any number of nodes, patterns and requests.  *)
(***************************************************************************)
THEOREM ProxyTypes == Spec => []TypeOK
<1>1. FollowInv => TypeOK
  BY DEF FollowInv, ReplicationTypes
<1> QED
  BY Follows, <1>1, PTL

(***************************************************************************)
(* A node that has applied the whole log and has nothing in progress has   *)
(* the proxies of the log, but for those it changed with an entry that     *)
(* failed: nothing is later than the end of the log.                       *)
(***************************************************************************)
THEOREM NodesAgreeOnPatterns == Spec => []PatternsAgree
<1>1. FollowInv => PatternsAgree
  <2> SUFFICES ASSUME FollowInv, NEW n \in Nodes, Settled(n), NEW p \in Patterns \ unlogged[n]
               PROVE  relations[n][p].is <=> MapAt(Len(log))[p].is
    BY DEF PatternsAgree
  <2>1. up[n] /\ applied[n] = Len(log) /\ Len(log) \in Nat
    BY DEF Settled, FollowInv, ReplicationTypes, LogOK
  <2>2. p \notin Pending(n, {"addProxy", "removeProxy"})
    BY DEF Settled, Pending
  <2>3. Settles(applied[n], p, relations[n][p].is)
    BY <2>1, <2>2 DEF FollowInv, NodeFollows
  <2>4. ~ Later(applied[n], p, {"addProxy", "removeProxy"})
    BY <2>1 DEF Later
  <2> QED
    BY <2>3, <2>4 DEF Settles
<1> QED
  BY Follows, <1>1, PTL

(***************************************************************************)
(* The FSM dereferences nil only for a proxy that a removal has taken      *)
(* away, be it logged before, unlogged, in progress or later in the log.   *)
(***************************************************************************)
THEOREM FsmPanicsNeedRemoval == Spec => []PanicsNeedRemoval
<1>1. FollowInv => PanicsNeedRemoval
  <2> SUFFICES ASSUME FollowInv, NEW n \in Nodes, Panics(n)
               PROVE  LET p == NextChange(n).pat
                      IN \/ ~ MapAt(applied[n])[p].is
                         \/ p \in unlogged[n] \cup InFlight(n)
                         \/ \E k \in applied[n] + 2 .. Len(log) :
                               log[k].ch.op = "removeProxy" /\ log[k].ch.pat = p
    BY DEF PanicsNeedRemoval
  <2> DEFINE p == NextChange(n).pat
             i == applied[n]
  <2>0. ReplicationTypes /\ Behind(n) /\ up[n]
    BY DEF FollowInv, Panics, Behind
  <2>1. /\ i \in Nat /\ Len(log) \in Nat /\ p \in Patterns
        /\ log[i + 1].ch.op = "removeHost" /\ ~ relations[n][p].is
    BY <2>0, BehindTypes DEF Panics, ReplicationTypes, LogOK
  <2> HIDE DEF p
  <2>2. ASSUME MapAt(i)[p].is, p \notin unlogged[n] \cup InFlight(n)
        PROVE  \E k \in i + 2 .. Len(log) : log[k].ch.op = "removeProxy" /\ log[k].ch.pat = p
    <3>1. p \notin Pending(n, {"removeProxy"})
      BY <2>2 DEF Pending, InFlight
    <3>2. Keeps(i, p, relations[n][p].is)
      BY <2>0, <2>1, <2>2, <3>1 DEF FollowInv, NodeFollows
    <3>3. PICK k \in (i + 1) .. Len(log) : Decides(k, p, {"removeProxy"})
      BY <2>1, <2>2, <3>2 DEF Keeps, Later
    <3>4. k # i + 1
      BY <2>1, <3>3 DEF Decides
    <3> QED
      BY <2>1, <3>3, <3>4 DEF Decides
  <2> QED
    BY <2>2 DEF p
<1> QED
  BY Follows, <1>1, PTL

-----------------------------------------------------------------------------
(***************************************************************************)
(* The hosts.  A node's ProxyMap runs ahead of the log by its own changes  *)
(* and, after a restore, behind it; what the log says of the hosts of a    *)
(* proxy is compared with a node's at the node's own index.                *)
(***************************************************************************)
\* The proxy r that a change leaves at p where there was b.
ProxyAfter(ch, p, b, r) ==
    /\ ch.pat # p => r = b
    /\ ch.pat = p /\ ch.op = "addProxy"
          => IF b.is THEN r = b ELSE r.is /\ r.made = ch.arg /\ r.hosts = ch.arg
    /\ ch.pat = p /\ ch.op = "removeProxy" => r = NoProxy
    /\ ch.pat = p /\ ch.op = "addHost"
          => r.made = b.made /\ r.hosts = IF b.is THEN b.hosts \cup ch.arg ELSE b.hosts
    /\ ch.pat = p /\ ch.op = "removeHost" => r.made = b.made /\ r.hosts = b.hosts \ ch.arg

LEMMA FsmApplyProxy ==
  ASSUME NEW M, MapOK(M), NEW ch \in Change, NEW p \in Patterns, NEW r, r = FsmApply(M, ch)[p]
  PROVE  ProxyAfter(ch, p, M[p], r)
<1>0. /\ ch.op \in {"addProxy", "removeProxy", "addHost", "removeHost"}
      /\ ch.pat \in Patterns /\ M \in [Patterns -> Proxy]
  BY ChangeParts DEF MapOK, Map
<1>1. CASE ch.op = "addProxy"
  <2>1. CASE M[ch.pat].is
    BY <1>1, <2>1 DEF FsmApply, ProxyAfter
  <2>2. CASE ~ M[ch.pat].is
    <3>1. r = [M EXCEPT ![ch.pat] =
                 [made |-> ch.arg, hosts |-> ch.arg, shut |-> ch.arg, is |-> TRUE]][p]
      BY <1>1, <2>2 DEF FsmApply, AddProxyWithLocation
    <3> QED
      BY <1>0, <1>1, <2>2, <3>1 DEF ProxyAfter
  <2> QED
    BY <2>1, <2>2
<1>2. CASE ch.op = "removeProxy"
  <2>1. r = [M EXCEPT ![ch.pat] = NoProxy][p]
    BY <1>2 DEF FsmApply, RemoveProxy
  <2> QED
    BY <1>0, <1>2, <2>1 DEF ProxyAfter
<1>3. CASE ch.op = "addHost"
  <2>1. CASE M[ch.pat].is
    <3> DEFINE q == [M[ch.pat] EXCEPT !.hosts = @ \cup ch.arg, !.shut = @ \cup ch.arg]
    <3>1. M[ch.pat] \in Proxy
      BY <1>0
    <3>2. q.made = M[ch.pat].made /\ q.hosts = M[ch.pat].hosts \cup ch.arg
      BY <3>1 DEF Proxy
    <3>3. FsmApply(M, ch) = Put(M, ch.pat, q)
      BY <1>0, <1>3, <2>1 DEF FsmApply, AddProxy, Put, Proxy
    <3> HIDE DEF q
    <3>4. r = IF p = ch.pat THEN q ELSE M[p]
      BY <1>0, <3>3 DEF Put
    <3> QED
      BY <1>3, <2>1, <3>2, <3>4 DEF ProxyAfter
  <2>2. CASE ~ M[ch.pat].is
    BY <1>3, <2>2 DEF FsmApply, AddProxy, ProxyAfter
  <2> QED
    BY <2>1, <2>2
<1>4. CASE ch.op = "removeHost"
  <2> DEFINE q == [M[ch.pat] EXCEPT !.hosts = @ \ ch.arg]
  <2>1. M[ch.pat] \in Proxy
    BY <1>0
  <2>2. q.made = M[ch.pat].made /\ q.hosts = M[ch.pat].hosts \ ch.arg
    BY <2>1 DEF Proxy
  <2>3. FsmApply(M, ch) = Put(M, ch.pat, q)
    BY <1>0, <1>4 DEF FsmApply, RemoveHost, Put, Proxy
  <2> HIDE DEF q
  <2>4. r = IF p = ch.pat THEN q ELSE M[p]
    BY <1>0, <2>3 DEF Put
  <2> QED
    BY <1>4, <2>2, <2>4 DEF ProxyAfter
<1> QED
  BY <1>0, <1>1, <1>2, <1>3, <1>4

\* Each entry is applied to what the entries before it leave.
LogFolds == \A i \in 1 .. Len(log) : log[i].after = FsmApply(MapAt(i - 1), log[i].ch)

\* The hosts that a node's proxy r should have where the log has g: before the
\* log creates the proxy, those of the node's own creation.
HostsOf(g, r) == IF g.is THEN g.hosts ELSE r.made

HostAt(x, g, r) == x \in r.hosts <=> x \in HostsOf(g, r)

\* x is added to p, or removed, by a change.
About(ch, p, x) == ch.pat = p /\ ch.op \in {"addHost", "removeHost"} /\ ch.arg = {x}

HostLater(i, p, x) == \E k \in (i + 1) .. Len(log) : About(log[k].ch, p, x)

HostPending(n, p, x) ==
    \E c \in Procs : \E ch \in h[c].ch : h[c].node = n /\ About(ch, p, x)

\* Every host of a proxy is as in the log, or a change of it is to come; and
\* nothing needs to be so where the removal of the proxy is to come.
NodeHosts(n) ==
    up[n] => \A p \in Patterns \ drift[n] :
        \/ p \in Pending(n, {"removeProxy"})
        \/ Later(applied[n], p, {"removeProxy"})
        \/ \A x \in Hosts :
              \/ HostAt(x, MapAt(applied[n])[p], relations[n][p])
              \/ HostLater(applied[n], p, x)
              \/ HostPending(n, p, x)

SnapHosts(n) ==
    /\ snap[n].unlogged \subseteq snap[n].drift
    /\ \A p \in Patterns : snap[n].made[p].hosts = snap[n].made[p].made

HostsInv ==
    /\ LogFolds
    /\ \A n \in Nodes : unlogged[n] \subseteq drift[n] /\ NodeHosts(n) /\ SnapHosts(n)

\* The same entry on both sides: what agreed still does, and so does the host
\* that the entry is about.
LEMMA HostsNext ==
  ASSUME NEW M, MapOK(M), NEW G, MapOK(G), NEW ch \in Change, NEW p \in Patterns, NEW x,
         ~ (ch.pat = p /\ ch.op = "removeProxy"), G[p].is => M[p].is,
         ch.pat = p /\ M[p].is /\ ~ G[p].is => ch.op = "addProxy" /\ M[p].made = ch.arg,
         HostAt(x, G[p], M[p]) \/ About(ch, p, x),
         NEW q, q = FsmApply(M, ch)[p], NEW r, r.hosts = q.hosts, r.made = q.made,
         NEW g, g = FsmApply(G, ch)[p]
  PROVE  HostAt(x, g, r)
<1>0. /\ ch.op \in {"addProxy", "removeProxy", "addHost", "removeHost"}
      /\ M[p].is \in BOOLEAN /\ G[p].is \in BOOLEAN
      /\ ~ M[p].is => M[p] = NoProxy
      /\ ~ G[p].is => G[p] = NoProxy
      /\ g.is <=> IsAfter(ch, p, G[p].is)
  BY ChangeParts, FsmApplyOK DEF MapOK, Map, Proxy, ProxyOK
<1>1. NoProxy.made = {} /\ NoProxy.hosts = {}
  BY DEF NoProxy
<1>2. ProxyAfter(ch, p, M[p], q)
  BY FsmApplyProxy
<1>3. ProxyAfter(ch, p, G[p], g)
  BY FsmApplyProxy
<1>4. r.hosts = q.hosts /\ r.made = q.made
  OBVIOUS
<1>5. CASE ch.pat # p
  BY <1>2, <1>3, <1>4, <1>5 DEF ProxyAfter, HostAt, HostsOf, About
<1>6. CASE ch.pat = p /\ ch.op = "addProxy"
  <2>1. g.is
    BY <1>0, <1>6 DEF IsAfter
  <2>2. HostAt(x, G[p], M[p])
    BY <1>6 DEF About
  <2>3. CASE G[p].is
    BY <1>2, <1>3, <1>4, <1>6, <2>1, <2>2, <2>3 DEF ProxyAfter, HostAt, HostsOf
  <2>4. CASE ~ G[p].is
    BY <1>2, <1>3, <1>4, <1>6, <2>1, <2>2, <2>4 DEF ProxyAfter, HostAt, HostsOf
  <2> QED
    BY <2>3, <2>4
<1>7. CASE ch.pat = p /\ ch.op \in {"addHost", "removeHost"}
  <2>1. (g.is <=> G[p].is) /\ (M[p].is <=> G[p].is)
    BY <1>0, <1>7 DEF IsAfter
  <2>2. CASE G[p].is
    BY <1>2, <1>3, <1>4, <1>7, <2>1, <2>2 DEF ProxyAfter, HostAt, HostsOf, About
  <2>3. CASE ~ G[p].is
    BY <1>0, <1>1, <1>2, <1>3, <1>4, <1>7, <2>1, <2>3 DEF ProxyAfter, HostAt, HostsOf
  <2> QED
    BY <2>2, <2>3
<1> QED
  BY <1>0, <1>5, <1>6, <1>7

LEMMA HostArg ==
  ASSUME NEW ch \in Change, ch.op \in {"addHost", "removeHost"}
  PROVE  \E y \in Hosts : ch.arg = {y}
<1>1. CASE ch \in [op : {"addProxy"}, pat : Patterns, arg : Passes]
  BY <1>1
<1>2. CASE ch \in [op : {"addHost", "removeHost"}, pat : Patterns, arg : {{x} : x \in Hosts}]
  BY <1>2
<1>3. CASE ch \in [op : {"removeProxy"}, pat : Patterns, arg : {{}}]
  BY <1>3
<1> QED
  BY <1>1, <1>2, <1>3 DEF Change

\* Steps that leave a node, or a snapshot, and its pending changes as they are.
LEMMA HostsSame ==
  ASSUME NEW n \in Nodes, NodeHosts(n), log' = log, up'[n] => up[n], applied'[n] = applied[n],
         relations'[n] = relations[n], drift[n] \subseteq drift'[n],
         \A p \in Patterns \ drift'[n] :
            /\ p \in Pending(n, {"removeProxy"}) => p \in Pending(n, {"removeProxy"})'
            /\ \A x \in Hosts : HostPending(n, p, x) => HostPending(n, p, x)'
  PROVE  NodeHosts(n)'
  BY DEF NodeHosts, Later, Decides, HostLater, MapAt

LEMMA SnapHostsSame ==
  ASSUME NEW n \in Nodes, SnapHosts(n), snap'[n] = snap[n]
  PROVE  SnapHosts(n)'
  BY DEF SnapHosts

LEMMA SameFolds ==
  ASSUME LogFolds, log' = log
  PROVE  LogFolds'
  BY DEF LogFolds, MapAt

\* Changes that begin, and those that end.
LEMMA HostPendingGrows ==
  ASSUME TypeOK, NEW c \in Procs, h[c] = Idle, NEW n \in Nodes, NEW ch \in Change,
         h' = [h EXCEPT ![c] = [node |-> n, ch |-> {ch}]], NEW p, NEW x
  PROVE  /\ \A m \in Nodes : HostPending(m, p, x) => HostPending(m, p, x)'
         /\ About(ch, p, x) => HostPending(n, p, x)'
<1>1. h[c].ch = {} /\ h \in [Procs -> {Idle} \cup Busy]
  BY DEF Idle, TypeOK
<1>2. h'[c].node = n /\ h'[c].ch = {ch} /\ \A d \in Procs \ {c} : h'[d] = h[d]
  BY <1>1
<1>3. ASSUME NEW m \in Nodes, HostPending(m, p, x) PROVE HostPending(m, p, x)'
  <2>1. PICK d \in Procs : \E a \in h[d].ch : h[d].node = m /\ About(a, p, x)
    BY <1>3 DEF HostPending
  <2>2. h'[d] = h[d]
    BY <1>1, <1>2, <2>1
  <2> QED
    BY <2>1, <2>2 DEF HostPending
<1>4. About(ch, p, x) => HostPending(n, p, x)'
  BY <1>2 DEF HostPending
<1> QED
  BY <1>3, <1>4

LEMMA HostPendingDrops ==
  ASSUME TypeOK, NEW c \in Procs, NEW ch \in h[c].ch, h' = [h EXCEPT ![c] = Idle],
         NEW m \in Nodes, NEW p, NEW x, HostPending(m, p, x)
  PROVE  HostPending(m, p, x)' \/ (m = h[c].node /\ About(ch, p, x))
<1>1. h[c].ch = {ch} /\ h \in [Procs -> {Idle} \cup Busy]
  BY BusyProc DEF TypeOK
<1>2. \A d \in Procs \ {c} : h'[d] = h[d]
  BY <1>1
<1>3. PICK d \in Procs : \E a \in h[d].ch : h[d].node = m /\ About(a, p, x)
  BY DEF HostPending
<1>4. CASE d = c
  BY <1>1, <1>3, <1>4
<1>5. CASE d # c
  <2>1. h'[d] = h[d]
    BY <1>2, <1>5
  <2> QED
    BY <1>3, <2>1 DEF HostPending
<1> QED
  BY <1>4, <1>5

\* The change of a handler is that of the FSM, unless it replaces a proxy.
LEMMA LocalApplyProxy ==
  ASSUME NEW M, MapOK(M), NEW ch \in Change, NEW p \in Patterns,
         NEW r, r = LocalApply(M, ch)[p], ~ (ch.pat = p /\ ch.op = "addProxy" /\ M[p].is)
  PROVE  ProxyAfter(ch, p, M[p], r)
<1>1. CASE ch.op = "addProxy" /\ M[ch.pat].is
  <2>1. ch.pat # p /\ ch.pat \in Patterns /\ M \in [Patterns -> Proxy]
    BY <1>1, ChangeParts DEF MapOK, Map
  <2>2. r = [M EXCEPT ![ch.pat] =
               [made |-> ch.arg, hosts |-> ch.arg, shut |-> ch.arg, is |-> TRUE]][p]
    BY <1>1 DEF LocalApply, AddProxyWithLocation
  <2>3. r = M[p]
    BY <2>1, <2>2
  <2> QED
    BY <2>1, <2>3 DEF ProxyAfter
<1>2. CASE ~ (ch.op = "addProxy" /\ M[ch.pat].is)
  <2>1. LocalApply(M, ch) = FsmApply(M, ch)
    BY <1>2 DEF LocalApply, FsmApply
  <2> QED
    BY <2>1, FsmApplyProxy
<1> QED
  BY <1>1, <1>2

LEMMA LocalHosts ==
  ASSUME FollowInv, HostsInv, NEW c \in Procs, h[c] = Idle, NEW n \in Nodes, NEW ch \in Change,
         LocalChange(n, ch), h' = [h EXCEPT ![c] = [node |-> n, ch |-> {ch}]],
         UNCHANGED <<log, applied, unlogged, snap, up>>
  PROVE  HostsInv'
<1>0. /\ TypeOK /\ MapOK(relations[n]) /\ relations \in [Nodes -> Map]
      /\ ch.op \in {"addProxy", "removeProxy", "addHost", "removeHost"}
      /\ MapOK(MapAt(applied[n]))
  <2>1. applied[n] \in 0 .. Len(log)
    BY DEF FollowInv, ReplicationTypes, TypeOK
  <2> QED
    BY <2>1, RelationsOK, ChangeParts, MapAtOK DEF FollowInv, ReplicationTypes, TypeOK
<1>1. /\ relations' = [relations EXCEPT ![n] = LocalApply(relations[n], ch)]
      /\ \A m \in Nodes \ {n} : relations'[m] = relations[m] /\ drift'[m] = drift[m]
      /\ drift[n] \subseteq drift'[n]
      /\ ch.op = "addProxy" /\ relations[n][ch.pat].is => ch.pat \in drift'[n]
  BY <1>0, LocalChangeTypes DEF LocalChange, TypeOK
<1>2. \A m \in Nodes, p \in Patterns :
         /\ p \in Pending(m, {"removeProxy"}) => p \in Pending(m, {"removeProxy"})'
         /\ \A x \in Hosts : HostPending(m, p, x) => HostPending(m, p, x)'
  BY <1>0, PendingGrows, HostPendingGrows
<1>3. ASSUME NEW m \in Nodes \ {n} PROVE NodeHosts(m)'
  <2>1. /\ NodeHosts(m) /\ relations'[m] = relations[m] /\ drift'[m] = drift[m]
        /\ log' = log /\ up' = up /\ applied' = applied
    BY <1>1 DEF HostsInv
  <2> QED
    BY <1>2, <2>1, HostsSame
<1>4. NodeHosts(n)'
  <2> SUFFICES ASSUME up[n], NEW p \in Patterns \ drift'[n],
                      p \notin Pending(n, {"removeProxy"})',
                      ~ Later(applied[n], p, {"removeProxy"}),
                      NEW x \in Hosts, ~ HostLater(applied[n], p, x), ~ HostPending(n, p, x)'
               PROVE  HostAt(x, MapAt(applied[n])[p], relations'[n][p])
    BY DEF NodeHosts, Later, Decides, HostLater, MapAt
  <2> DEFINE g == MapAt(applied[n])[p]
             b == relations[n][p]
             r == relations'[n][p]
  <2>1. /\ p \notin drift[n] /\ p \notin unlogged[n] /\ p \notin Pending(n, {"removeProxy"})
        /\ ~ HostPending(n, p, x)
    BY <1>1, <1>2 DEF HostsInv
  <2>2. HostAt(x, g, b)
    BY <2>1 DEF HostsInv, NodeHosts
  <2>3. g.is => b.is
    BY <2>1 DEF FollowInv, NodeFollows, Keeps
  <2>4. ProxyAfter(ch, p, b, r)
    <3>1. relations'[n] = LocalApply(relations[n], ch)
      BY <1>0, <1>1
    <3>2. ~ (ch.pat = p /\ ch.op = "addProxy" /\ relations[n][p].is)
      BY <1>1
    <3> QED
      BY <1>0, <3>1, <3>2, LocalApplyProxy
  <2>5. ~ (ch.pat = p /\ ch.op = "removeProxy") /\ ~ About(ch, p, x)
    <3>1. ch.op \in {"removeProxy"} => ch.pat \in Pending(n, {"removeProxy"})'
      BY <1>0, PendingGrows
    <3>2. About(ch, p, x) => HostPending(n, p, x)'
      BY <1>0, HostPendingGrows
    <3> QED
      BY <3>1, <3>2
  <2>6. ~ (ch.pat = p /\ ch.op = "addProxy" /\ b.is)
    BY <1>1
  <2> HIDE DEF g, b, r
  <2>7. HostAt(x, g, r)
    <3>1. CASE ch.pat # p
      BY <2>2, <2>4, <3>1 DEF ProxyAfter
    <3>2. CASE ch.pat = p /\ ch.op = "addProxy"
      BY <2>3, <2>4, <2>6, <3>2 DEF ProxyAfter, HostAt, HostsOf
    <3>3. CASE ch.pat = p /\ ch.op \in {"addHost", "removeHost"}
      <4>1. PICK y \in Hosts : ch.arg = {y}
        BY <3>3, HostArg
      <4>2. x # y
        BY <2>5, <3>3, <4>1 DEF About
      <4>3. r.made = b.made /\ (x \in r.hosts <=> x \in b.hosts)
        BY <2>4, <3>3, <4>1, <4>2 DEF ProxyAfter
      <4> QED
        BY <2>2, <4>3 DEF HostAt, HostsOf
    <3> QED
      BY <1>0, <2>5, <3>1, <3>2, <3>3
  <2> QED
    BY <2>7 DEF g, r
<1>5. \A m \in Nodes : unlogged'[m] \subseteq drift'[m]
  BY <1>1 DEF HostsInv
<1> QED
  BY <1>3, <1>4, <1>5, SameFolds, SnapHostsSame DEF HostsInv

\* A new entry is later than every index, and it is about its host.
LEMMA EntryHosts ==
  ASSUME LogOK, LogFolds, NEW ch \in Change, log' = Append(log, Entry(ch))
  PROVE  /\ LogFolds'
         /\ \A i \in 0 .. Len(log) : MapAt(i)' = MapAt(i)
         /\ \A i \in 0 .. Len(log) : \A p, ops :
               Later(i, p, ops) \/ (p = ch.pat /\ ch.op \in ops) => Later(i, p, ops)'
         /\ \A i \in 0 .. Len(log) : \A p, x :
               HostLater(i, p, x) \/ About(ch, p, x) => HostLater(i, p, x)'
<1>0. PICK n : n = Len(log)
  OBVIOUS
<1>1. /\ n \in Nat /\ Len(log') = n + 1
      /\ \A k \in 1 .. n : log'[k] = log[k]
      /\ \A i \in 0 .. n : MapAt(i)' = MapAt(i)
  BY <1>0, LogGrows
<1>2. log'[n + 1] = Entry(ch)
  BY <1>0, <1>1 DEF LogOK
<1>3. ASSUME NEW i \in 1 .. Len(log') PROVE log'[i].after = FsmApply(MapAt(i - 1)', log'[i].ch)
  <2>1. i - 1 \in 0 .. n /\ MapAt(i - 1)' = MapAt(i - 1)
    BY <1>1
  <2>2. CASE i \in 1 .. n
    BY <1>0, <1>1, <2>1, <2>2 DEF LogFolds
  <2>3. CASE i = n + 1
    <3>1. i - 1 = n /\ Entry(ch).after = FsmApply(MapAt(n), ch) /\ Entry(ch).ch = ch
      BY <1>0, <1>1, <2>3 DEF Entry
    <3> QED
      BY <1>2, <2>1, <2>3, <3>1
  <2> QED
    BY <1>1, <2>2, <2>3
<1>4. ASSUME NEW i \in 0 .. n, NEW p, NEW ops, Later(i, p, ops) \/ (p = ch.pat /\ ch.op \in ops)
      PROVE  Later(i, p, ops)'
  <2>1. CASE Later(i, p, ops)
    <3>1. PICK k \in (i + 1) .. n : Decides(k, p, ops)
      BY <1>0, <2>1 DEF Later
    <3>2. k \in (i + 1) .. Len(log') /\ log'[k] = log[k]
      BY <1>1
    <3> QED
      BY <3>1, <3>2 DEF Later, Decides
  <2>2. CASE p = ch.pat /\ ch.op \in ops
    <3>1. n + 1 \in (i + 1) .. Len(log') /\ log'[n + 1].ch = ch
      BY <1>1, <1>2 DEF Entry
    <3> QED
      BY <2>2, <3>1 DEF Later, Decides
  <2> QED
    BY <1>4, <2>1, <2>2
<1>5. ASSUME NEW i \in 0 .. n, NEW p, NEW x, HostLater(i, p, x) \/ About(ch, p, x)
      PROVE  HostLater(i, p, x)'
  <2>1. CASE HostLater(i, p, x)
    <3>1. PICK k \in (i + 1) .. n : About(log[k].ch, p, x)
      BY <1>0, <2>1 DEF HostLater
    <3>2. k \in (i + 1) .. Len(log') /\ log'[k] = log[k]
      BY <1>1
    <3> QED
      BY <3>1, <3>2 DEF HostLater
  <2>2. CASE About(ch, p, x)
    <3>1. n + 1 \in (i + 1) .. Len(log') /\ log'[n + 1].ch = ch
      BY <1>1, <1>2 DEF Entry
    <3> QED
      BY <2>2, <3>1 DEF HostLater
  <2> QED
    BY <1>5, <2>1, <2>2
<1>6. LogFolds'
  BY <1>3 DEF LogFolds
<1> QED
  BY <1>0, <1>1, <1>4, <1>5, <1>6

LEMMA WriteLogHosts ==
  ASSUME FollowInv, HostsInv, NEW c \in Procs, NEW ch \in h[c].ch, log' = Append(log, Entry(ch)),
         h' = [h EXCEPT ![c] = Idle],
         UNCHANGED <<applied, relations, unlogged, drift, snap, up>>
  PROVE  HostsInv'
<1>0. /\ TypeOK /\ LogOK /\ LogFolds /\ ch \in Change
      /\ \A m \in Nodes : applied[m] \in 0 .. Len(log)
  BY BusyProc DEF FollowInv, ReplicationTypes, TypeOK, HostsInv
<1>1. /\ LogFolds'
      /\ \A i \in 0 .. Len(log) : MapAt(i)' = MapAt(i)
      /\ \A i \in 0 .. Len(log) : \A p, ops :
            Later(i, p, ops) \/ (p = ch.pat /\ ch.op \in ops) => Later(i, p, ops)'
      /\ \A i \in 0 .. Len(log) : \A p, x :
            HostLater(i, p, x) \/ About(ch, p, x) => HostLater(i, p, x)'
  BY <1>0, EntryHosts
<1>2. ASSUME NEW m \in Nodes PROVE NodeHosts(m)'
  <2>0. PICK i : i = applied[m]
    OBVIOUS
  <2>1. i \in 0 .. Len(log) /\ applied'[m] = i
    BY <1>0, <2>0
  <2>2. ASSUME up[m], NEW p \in Patterns \ drift[m],
               p \notin Pending(m, {"removeProxy"})', ~ Later(i, p, {"removeProxy"})',
               NEW x \in Hosts, ~ HostLater(i, p, x)', ~ HostPending(m, p, x)'
        PROVE  HostAt(x, MapAt(i)'[p], relations[m][p])
    <3>1. ~ Later(i, p, {"removeProxy"}) /\ ~ (p = ch.pat /\ ch.op = "removeProxy")
      BY <1>1, <2>1, <2>2
    <3>2. p \notin Pending(m, {"removeProxy"})
      <4>1. ASSUME NEW ops, p \in Pending(m, ops)
            PROVE  p \in Pending(m, ops)' \/ (p = ch.pat /\ ch.op \in ops)
        BY <1>0, <2>2, <4>1, PendingDrops
      <4> QED
        BY <2>2, <3>1, <4>1
    <3>3. ~ HostLater(i, p, x) /\ ~ About(ch, p, x)
      BY <1>1, <2>1, <2>2
    <3>4. ~ HostPending(m, p, x)
      BY <1>0, <2>2, <3>3, HostPendingDrops
    <3>5. HostAt(x, MapAt(i)[p], relations[m][p])
      BY <2>0, <2>2, <3>1, <3>2, <3>3, <3>4 DEF HostsInv, NodeHosts
    <3> QED
      BY <1>1, <2>1, <3>5
  <2> QED
    BY <2>0, <2>1, <2>2 DEF NodeHosts, HostLater, Later, Decides, MapAt
<1>3. ASSUME NEW m \in Nodes PROVE SnapHosts(m)'
  BY SnapHostsSame DEF HostsInv
<1> QED
  BY <1>1, <1>2, <1>3 DEF HostsInv

LEMMA WriteLogFailsHosts ==
  ASSUME FollowInv, HostsInv, NEW c \in Procs, WriteLogFails(c)
  PROVE  HostsInv'
<1>1. PICK ch \in h[c].ch :
        /\ unlogged' = IF ch.op \in {"addProxy", "removeProxy"}
                       THEN [unlogged EXCEPT ![h[c].node] = @ \cup {ch.pat}] ELSE unlogged
        /\ drift' = [drift EXCEPT ![h[c].node] = @ \cup {ch.pat}]
        /\ h' = [h EXCEPT ![c] = Idle]
        /\ UNCHANGED <<log, applied, relations, snap, up>>
  BY DEF WriteLogFails, Return, snapVars
<1>2. TypeOK /\ h[c].node \in Nodes /\ LogFolds
  BY BusyProc DEF FollowInv, ReplicationTypes, HostsInv
<1>3. /\ \A m \in Nodes : drift[m] \subseteq drift'[m] /\ unlogged'[m] \subseteq drift'[m]
      /\ ch.pat \in drift'[h[c].node]
  <2>1. \A m \in Nodes : unlogged[m] \subseteq drift[m]
    BY DEF HostsInv
  <2> QED
    BY <1>1, <1>2, <2>1 DEF TypeOK
<1>4. ASSUME NEW m \in Nodes, NEW p \in Patterns \ drift'[m]
      PROVE  /\ p \in Pending(m, {"removeProxy"}) => p \in Pending(m, {"removeProxy"})'
             /\ \A x \in Hosts : HostPending(m, p, x) => HostPending(m, p, x)'
  <2>1. ~ (m = h[c].node /\ p = ch.pat)
    BY <1>3, <1>4
  <2>2. ASSUME NEW ops, p \in Pending(m, ops) PROVE p \in Pending(m, ops)'
    BY <1>1, <1>2, <1>4, <2>1, <2>2, PendingDrops
  <2>3. ASSUME NEW x \in Hosts, HostPending(m, p, x) PROVE HostPending(m, p, x)'
    <3>1. HostPending(m, p, x)' \/ (m = h[c].node /\ About(ch, p, x))
      BY <1>1, <1>2, <2>3, HostPendingDrops
    <3> QED
      BY <2>1, <3>1 DEF About
  <2> QED
    BY <2>2, <2>3
<1>5. ASSUME NEW m \in Nodes PROVE NodeHosts(m)'
  <2>1. NodeHosts(m) /\ UNCHANGED <<log, applied, relations, up>>
    BY <1>1 DEF HostsInv
  <2> QED
    BY <1>3, <1>4, <2>1, HostsSame
<1>6. ASSUME NEW m \in Nodes PROVE SnapHosts(m)'
  BY <1>1, SnapHostsSame DEF HostsInv
<1> QED
  BY <1>1, <1>2, <1>3, <1>5, <1>6, SameFolds DEF HostsInv

\* The FSM of n goes on by one entry.
LEMMA ApplyHosts ==
  ASSUME FollowInv, HostsInv, NEW n \in Nodes, Apply(n) \/ ApplyTimeout(n)
  PROVE  HostsInv'
<1>0. /\ TypeOK /\ LogOK /\ LogFolds /\ ReplicationTypes /\ Behind(n) /\ up[n]
      /\ UNCHANGED <<log, snap, up, h>>
  BY DEF FollowInv, HostsInv, ReplicationTypes, Apply, ApplyTimeout, Behind, snapVars
<1>1. PICK ch : ch = NextChange(n)
  OBVIOUS
<1>2. PICK i : i = applied[n]
  OBVIOUS
<1>3. /\ i \in Nat /\ i + 1 \in 1 .. Len(log) /\ i \in 0 .. Len(log) /\ Len(log) \in Nat
      /\ ch \in Change /\ ch = log[i + 1].ch
      /\ ch.op \in {"addProxy", "removeProxy", "addHost", "removeHost"} /\ ch.pat \in Patterns
  <2>1. i \in Nat /\ i + 1 \in 1 .. Len(log) /\ ch \in Change /\ ch = log[i + 1].ch
    BY <1>0, <1>1, <1>2, BehindTypes
  <2>2. Len(log) \in Nat
    BY <1>0 DEF LogOK
  <2> QED
    BY <2>1, <2>2, ChangeParts
<1>4. /\ applied'[n] = i + 1
      /\ \A m \in Nodes \ {n} : applied'[m] = applied[m] /\ relations'[m] = relations[m]
  <2>1. applied' = [applied EXCEPT ![n] = applied[n] + 1]
    BY <1>0 DEF Apply, ApplyTimeout, TypeOK
  <2>2. \A m \in Nodes \ {n} : relations'[m] = relations[m]
    <3>1. CASE Apply(n)
      BY <1>0, <3>1 DEF Apply, TypeOK
    <3>2. CASE ApplyTimeout(n)
      BY <3>2 DEF ApplyTimeout
    <3> QED
      BY <3>1, <3>2
  <2> QED
    BY <1>0, <1>2, <2>1, <2>2 DEF TypeOK
<1>5. PICK timeout \in BOOLEAN :
        /\ timeout <=> ApplyTimeout(n) /\ ~ Apply(n)
        /\ Settle(n, ch, timeout)
  <2>1. CASE Apply(n)
    BY <1>1, <2>1 DEF Apply
  <2>2. CASE ~ Apply(n)
    BY <1>1, <2>2 DEF ApplyTimeout
  <2> QED
    BY <2>1, <2>2
<1>6. /\ \A m \in Nodes \ {n} : unlogged'[m] = unlogged[m] /\ drift'[m] = drift[m]
      /\ unlogged'[n] = IF ch.op \in {"addProxy", "removeProxy"}
                        THEN unlogged[n] \ {ch.pat} ELSE unlogged[n]
      /\ drift'[n] = CASE ch.op = "removeProxy"       -> drift[n] \ {ch.pat}
                       [] Departs(n, ch, timeout)     -> drift[n] \cup {ch.pat}
                       [] OTHER                       -> drift[n]
  BY <1>0, <1>5 DEF Settle, TypeOK
<1>7. \A m \in Nodes : unlogged'[m] \subseteq drift'[m]
  <2>1. \A m \in Nodes : unlogged[m] \subseteq drift[m]
    BY DEF HostsInv
  <2> QED
    BY <1>3, <1>6, <2>1
<1>8. ASSUME NEW m \in Nodes \ {n} PROVE NodeHosts(m)'
  <2>1. NodeHosts(m) /\ UNCHANGED <<log, up, h>>
    BY <1>0 DEF HostsInv
  <2> QED
    BY <1>4, <1>6, <2>1, HostsSame DEF Pending, HostPending
<1>9. MapOK(relations[n]) /\ MapOK(MapAt(i)) /\ MapAt(i + 1) = FsmApply(MapAt(i), ch)
  <2>1. (i + 1) - 1 = i /\ i + 1 # 0
    BY <1>3
  <2> QED
    BY <1>0, <1>3, <2>1, RelationsOK, MapAtOK DEF LogFolds, MapAt
<1>10. ASSUME NEW p \in Patterns \ drift'[n], p \notin Pending(n, {"removeProxy"}),
              ~ Later(i + 1, p, {"removeProxy"}),
              NEW x \in Hosts, ~ HostLater(i + 1, p, x), ~ HostPending(n, p, x)
       PROVE  HostAt(x, MapAt(i + 1)[p], relations'[n][p])
  <2>1. PICK q : q = FsmApply(relations[n], ch)[p]
    OBVIOUS
  <2>2. PICK r : r = relations'[n][p]
    OBVIOUS
  <2>3. PICK g : g = FsmApply(MapAt(i), ch)[p]
    OBVIOUS
  <2>4. ProxyAfter(ch, p, relations[n][p], q) /\ ProxyAfter(ch, p, MapAt(i)[p], g)
    BY <1>3, <1>9, <2>1, <2>3, FsmApplyProxy
  <2>5. CASE ch.pat = p /\ ch.op = "removeProxy"
    <3>1. Apply(n)
      BY <1>0, <1>1, <2>5 DEF ApplyTimeout
    <3>2. relations'[n] = FsmApply(relations[n], ch)
      BY <1>0, <1>1, <3>1 DEF Apply, TypeOK
    <3>3. r = NoProxy /\ g = NoProxy
      BY <2>1, <2>2, <2>4, <2>5, <3>2 DEF ProxyAfter
    <3>4. HostAt(x, g, r)
      BY <3>3 DEF HostAt, HostsOf, NoProxy
    <3> QED
      BY <1>9, <2>2, <2>3, <3>4
  <2>6. CASE ~ (ch.pat = p /\ ch.op = "removeProxy")
    <3>1. p \notin drift[n] /\ ~ (ch.pat = p /\ Departs(n, ch, timeout))
      BY <1>3, <1>6, <1>10, <2>6
    <3>2. p \notin unlogged[n]
      BY <3>1 DEF HostsInv
    <3>3. ~ Later(i, p, {"removeProxy"})
      <4>1. SUFFICES ASSUME NEW k \in (i + 1) .. Len(log), Decides(k, p, {"removeProxy"}) PROVE FALSE
        BY DEF Later
      <4>2. k # i + 1
        BY <1>3, <2>6, <4>1 DEF Decides
      <4>3. k \in ((i + 1) + 1) .. Len(log)
        BY <1>3, <4>2
      <4> QED
        BY <1>10, <4>1, <4>3 DEF Later
    <3>4. MapAt(i)[p].is => relations[n][p].is
      BY <1>0, <1>2, <1>10, <3>2, <3>3 DEF FollowInv, NodeFollows, Keeps
    <3>5. HostAt(x, MapAt(i)[p], relations[n][p]) \/ About(ch, p, x)
      <4>1. CASE HostLater(i, p, x)
        <5>1. PICK k \in (i + 1) .. Len(log) : About(log[k].ch, p, x)
          BY <4>1 DEF HostLater
        <5>2. k = i + 1 \/ k \in ((i + 1) + 1) .. Len(log)
          BY <1>3
        <5> QED
          BY <1>3, <1>10, <5>1, <5>2 DEF HostLater
      <4>2. CASE ~ HostLater(i, p, x)
        BY <1>0, <1>2, <1>10, <3>1, <3>3, <4>2 DEF HostsInv, NodeHosts
      <4> QED
        BY <4>1, <4>2
    <3>6. ch.pat = p /\ relations[n][p].is /\ ~ MapAt(i)[p].is
             => ch.op = "addProxy" /\ relations[n][p].made = ch.arg
      BY <1>2, <1>3, <2>6, <3>1 DEF Departs
    <3>7. r.hosts = q.hosts /\ r.made = q.made
      <4>1. CASE Apply(n)
        BY <1>0, <1>1, <2>1, <2>2, <4>1 DEF Apply, TypeOK
      <4>2. CASE ~ Apply(n)
        <5>1. ch.op = "removeHost" /\ relations' = relations /\ timeout
          BY <1>0, <1>1, <1>5, <4>2 DEF ApplyTimeout
        <5>2. r = relations[n][p]
          BY <2>2, <5>1
        <5>3. ch.pat = p => ch.arg \cap r.hosts = {}
          BY <3>1, <5>1, <5>2 DEF Departs
        <5> QED
          BY <2>4, <5>1, <5>2, <5>3 DEF ProxyAfter
      <4> QED
        BY <4>1, <4>2
    <3>8. HostAt(x, g, r)
      <4>1. PICK M : M = relations[n]
        OBVIOUS
      <4>2. PICK G : G = MapAt(i)
        OBVIOUS
      <4>3. /\ MapOK(M) /\ MapOK(G) /\ ch \in Change /\ (G[p].is => M[p].is)
            /\ ch.pat = p /\ M[p].is /\ ~ G[p].is => ch.op = "addProxy" /\ M[p].made = ch.arg
            /\ HostAt(x, G[p], M[p]) \/ About(ch, p, x)
            /\ q = FsmApply(M, ch)[p] /\ g = FsmApply(G, ch)[p]
        BY <1>3, <1>9, <2>1, <2>3, <3>4, <3>5, <3>6, <4>1, <4>2
      <4> QED
        BY <2>6, <3>7, <4>3, HostsNext
    <3> QED
      BY <1>9, <2>2, <2>3, <3>8
  <2> QED
    BY <2>5, <2>6
<1>11. NodeHosts(n)'
  BY <1>0, <1>4, <1>10 DEF NodeHosts, HostLater, Later, Decides, MapAt, Pending, HostPending
<1> QED
  BY <1>0, <1>7, <1>8, <1>11, SameFolds, SnapHostsSame DEF HostsInv

\* Every proxy of a snapshot has the hosts of its creation.
LEMMA FromLocationsHosts ==
  ASSUME NEW M, NEW p \in Patterns
  PROVE  FromLocations(M)[p].hosts = FromLocations(M)[p].made
<1>1. CASE M[p].is
  <2> DEFINE pass == M[p].made
  <2>1. FromLocations(M)[p] = AddProxyWithLocation(Empty, p, pass)[p]
    BY <1>1 DEF FromLocations
  <2> HIDE DEF pass
  <2>2. AddProxyWithLocation(Empty, p, pass)[p] =
           [made |-> pass, hosts |-> pass, shut |-> pass, is |-> TRUE]
    BY DEF AddProxyWithLocation, Empty
  <2> QED
    BY <2>1, <2>2
<1>2. CASE ~ M[p].is
  BY <1>2 DEF FromLocations, NoProxy
<1> QED
  BY <1>1, <1>2

LEMMA PersistHosts ==
  ASSUME FollowInv, HostsInv, NEW n \in Nodes, Persist(n)
  PROVE  HostsInv'
<1> DEFINE s == [index |-> pend[n], made |-> FromLocations(relations[n]),
                 unlogged |-> unlogged[n] \cup InFlight(n),
                 drift |-> drift[n] \cup InFlight(n)]
<1>0. /\ TypeOK /\ LogFolds /\ unlogged[n] \subseteq drift[n]
      /\ snap' = [snap EXCEPT ![n] = s]
      /\ UNCHANGED <<log, applied, relations, unlogged, drift, up, h>>
  BY DEF FollowInv, HostsInv, ReplicationTypes, Persist, nodeVars
<1>1. /\ s.unlogged \subseteq s.drift
      /\ \A p \in Patterns : s.made[p].hosts = s.made[p].made
  BY <1>0, FromLocationsHosts
<1> HIDE DEF s
<1>2. snap'[n] = s /\ \A m \in Nodes \ {n} : snap'[m] = snap[m]
  BY <1>0 DEF TypeOK
<1>3. SnapHosts(n)'
  BY <1>1, <1>2 DEF SnapHosts
<1>4. ASSUME NEW m \in Nodes \ {n} PROVE SnapHosts(m)'
  BY <1>2, SnapHostsSame DEF HostsInv
<1>5. ASSUME NEW m \in Nodes PROVE NodeHosts(m)'
  <2>1. NodeHosts(m)
    BY DEF HostsInv
  <2> QED
    BY <1>0, <2>1, HostsSame DEF Pending, HostPending
<1> QED
  BY <1>0, <1>3, <1>4, <1>5, SameFolds DEF HostsInv

\* What a restored proxy lacks of the log's, Forgotten tells.
LEMMA RestoreHosts ==
  ASSUME FollowInv, HostsInv, NEW n \in Nodes, NEW m \in Nodes, Restore(n, snap[m]),
         UNCHANGED <<log, h>>, \A k \in Nodes \ {n} : up'[k] = up[k],
         snap' = snap \/ snap' = [snap EXCEPT ![n] = snap[m]]
  PROVE  HostsInv'
<1>0. TypeOK
  BY DEF FollowInv, ReplicationTypes
<1>1. /\ relations'[n] = snap[m].made /\ unlogged'[n] = snap[m].unlogged
      /\ applied'[n] = snap[m].index /\ drift'[n] = snap[m].drift \cup Forgotten(snap[m])
      /\ \A k \in Nodes \ {n} : /\ relations'[k] = relations[k] /\ unlogged'[k] = unlogged[k]
                                /\ applied'[k] = applied[k] /\ drift'[k] = drift[k]
  BY <1>0 DEF Restore, TypeOK
<1>2. \A k \in Nodes : snap'[k] = snap[k] \/ (k = n /\ snap'[n] = snap[m])
  <2>1. CASE snap' = snap
    BY <2>1
  <2>2. CASE snap' = [snap EXCEPT ![n] = snap[m]]
    BY <1>0, <2>2 DEF TypeOK
  <2> QED
    BY <2>1, <2>2
<1>3. \A k \in Nodes : unlogged'[k] \subseteq drift'[k]
  BY <1>1 DEF HostsInv, SnapHosts
<1>4. PICK s : s = snap[m]
  OBVIOUS
<1>5. ASSUME NEW p \in Patterns \ drift'[n], ~ Later(s.index, p, {"removeProxy"}), NEW x
      PROVE  HostAt(x, MapAt(s.index)[p], s.made[p])
  <2>1. p \notin s.unlogged /\ p \notin Forgotten(s) /\ s.made[p].hosts = s.made[p].made
    BY <1>1, <1>4, <1>5 DEF HostsInv, SnapHosts
  <2>2. Keeps(s.index, p, s.made[p].is)
    BY <1>4, <2>1 DEF FollowInv, SnapFollows
  <2>3. MapAt(s.index)[p].is => s.made[p].hosts = MapAt(s.index)[p].hosts
    BY <1>5, <2>1, <2>2 DEF Keeps, Forgotten
  <2> QED
    BY <2>1, <2>3 DEF HostAt, HostsOf
<1>6. NodeHosts(n)'
  BY <1>1, <1>4, <1>5 DEF NodeHosts, Later, Decides, MapAt
<1>7. ASSUME NEW k \in Nodes \ {n} PROVE NodeHosts(k)'
  <2>1. NodeHosts(k)
    BY DEF HostsInv
  <2> QED
    BY <1>1, <2>1, HostsSame DEF Pending, HostPending
<1>8. ASSUME NEW k \in Nodes PROVE SnapHosts(k)'
  <2>1. CASE snap'[k] = snap[k]
    BY <2>1, SnapHostsSame DEF HostsInv
  <2>2. CASE k = n /\ snap'[n] = snap[m]
    BY <2>2 DEF HostsInv, SnapHosts
  <2> QED
    BY <1>2, <2>1, <2>2
<1> QED
  BY <1>3, <1>6, <1>7, <1>8, SameFolds DEF HostsInv

LEMMA DieHosts ==
  ASSUME FollowInv, HostsInv, NEW n \in Nodes, Die(n)
  PROVE  HostsInv'
<1>0. TypeOK /\ LogFolds /\ UNCHANGED <<log, applied, snap>>
  BY DEF FollowInv, HostsInv, ReplicationTypes, Die
<1>1. /\ ~ up'[n] /\ unlogged'[n] = {}
      /\ \A m \in Nodes \ {n} : /\ up'[m] = up[m] /\ relations'[m] = relations[m]
                                /\ unlogged'[m] = unlogged[m] /\ drift'[m] = drift[m]
  BY <1>0 DEF Die, TypeOK
<1>2. \A c \in Procs : h[c].node # n => h'[c] = h[c]
  BY DEF Die
<1>3. ASSUME NEW m \in Nodes \ {n}, NEW p
      PROVE  /\ p \in Pending(m, {"removeProxy"}) => p \in Pending(m, {"removeProxy"})'
             /\ \A x \in Hosts : HostPending(m, p, x) => HostPending(m, p, x)'
  BY <1>2 DEF Pending, HostPending
<1>4. NodeHosts(n)'
  BY <1>1 DEF NodeHosts
<1>5. ASSUME NEW m \in Nodes \ {n} PROVE NodeHosts(m)'
  <2>1. NodeHosts(m)
    BY DEF HostsInv
  <2> QED
    BY <1>0, <1>1, <1>3, <2>1, HostsSame
<1>6. ASSUME NEW m \in Nodes PROVE SnapHosts(m)' /\ unlogged'[m] \subseteq drift'[m]
  BY <1>0, <1>1, SnapHostsSame DEF HostsInv
<1> QED
  BY <1>0, <1>4, <1>5, <1>6, SameFolds DEF HostsInv

LEMMA FrameHosts ==
  ASSUME HostsInv, UNCHANGED <<log, applied, relations, unlogged, drift, snap, up, h>>
  PROVE  HostsInv'
<1>1. ASSUME NEW m \in Nodes PROVE NodeHosts(m)'
  <2>1. NodeHosts(m)
    BY DEF HostsInv
  <2> QED
    BY <2>1, HostsSame DEF Pending, HostPending
<1> QED
  BY <1>1, SameFolds, SnapHostsSame DEF HostsInv

LEMMA HostsInit == Init => HostsInv
<1> SUFFICES ASSUME Init PROVE HostsInv
  OBVIOUS
<1>1. /\ Len(log) = 0 /\ MapAt(0) = Empty
      /\ \A n \in Nodes : /\ relations[n] = Empty /\ snap[n] = NewSnapshot
                          /\ applied[n] = 0 /\ unlogged[n] = {}
  BY DEF Init, MapAt
<1>2. \A p \in Patterns : Empty[p] = NoProxy
  BY DEF Empty
<1>3. LogFolds
  BY <1>1 DEF LogFolds
<1>4. \A n \in Nodes : NodeHosts(n)
  BY <1>1, <1>2 DEF NodeHosts, HostAt, HostsOf, NoProxy
<1>5. \A n \in Nodes : SnapHosts(n)
  <2>1. NewSnapshot.unlogged = {} /\ NewSnapshot.made = Empty
    BY DEF NewSnapshot
  <2>2. NoProxy.hosts = NoProxy.made
    BY DEF NoProxy
  <2> QED
    BY <1>1, <1>2, <2>1, <2>2 DEF SnapHosts
<1> QED
  BY <1>1, <1>3, <1>4, <1>5 DEF HostsInv

LEMMA NodeStepHosts ==
  ASSUME FollowInv, HostsInv, NEW n \in Nodes, NodeStep(n)
  PROVE  HostsInv'
<1>1. CASE Apply(n) \/ ApplyTimeout(n)
  BY <1>1, ApplyHosts
<1>2. CASE FsmPanic(n) \/ Crash(n)
  BY <1>2, DieHosts DEF FsmPanic, Crash
<1>3. CASE Snapshot(n) \/ Elect(n) \/ StepDown(n) \/ WatchLeader(n)
  <2>1. UNCHANGED <<log, applied, relations, unlogged, drift, snap, up, h>>
    BY <1>3 DEF Snapshot, Elect, StepDown, WatchLeader, nodeVars, snapVars
  <2> QED
    BY <2>1, FrameHosts
<1>4. CASE Persist(n)
  BY <1>4, PersistHosts
<1>5. CASE InstallSnapshot(n)
  <2>1. leader \in Nodes /\ Restore(n, snap[leader]) /\ snap' = [snap EXCEPT ![n] = snap[leader]]
        /\ UNCHANGED <<log, up, h>>
    BY <1>5 DEF InstallSnapshot
  <2> QED
    BY <2>1, RestoreHosts
<1>6. CASE Restart(n)
  <2>1. Restore(n, snap[n]) /\ UNCHANGED <<log, snap, h>> /\ \A k \in Nodes \ {n} : up'[k] = up[k]
    BY <1>6 DEF Restart, snapVars, FollowInv, ReplicationTypes, TypeOK
  <2> QED
    BY <2>1, RestoreHosts
<1>7. CASE CreateProxy(n)
  <2>1. PICK ch \in Conf[n] : LocalChange(n, ch)
    BY <1>7 DEF CreateProxy
  <2>2. ch \in Change /\ n \in Procs /\ h' = [h EXCEPT ![n] = [node |-> n, ch |-> {ch}]]
    BY <1>7, <2>1, CreateProxyTypes DEF FollowInv
  <2>3. h[n] = Idle /\ UNCHANGED <<log, applied, unlogged, snap, up>>
    BY <1>7 DEF CreateProxy, snapVars
  <2> QED
    BY <2>1, <2>2, <2>3, LocalHosts
<1> QED
  BY <1>1, <1>2, <1>3, <1>4, <1>5, <1>6, <1>7 DEF NodeStep

LEMMA HostsNextState == FollowInv /\ HostsInv /\ [Next]_vars => HostsInv'
<1> SUFFICES ASSUME FollowInv, HostsInv, [Next]_vars PROVE HostsInv'
  OBVIOUS
<1>1. ASSUME NEW c \in Clients, NEW n \in Nodes, NEW ch \in Asked, Request(c, n, ch)
      PROVE  HostsInv'
  <2>1. c \in Procs /\ ch \in Change /\ h[c] = Idle /\ LocalChange(n, ch)
    BY <1>1, ProxyReplicationAssumption DEF Request, Procs
  <2>2. /\ h' = [h EXCEPT ![c] = [node |-> n, ch |-> {ch}]]
        /\ UNCHANGED <<log, applied, unlogged, snap, up>>
    BY <1>1 DEF Request, snapVars
  <2> QED
    BY <2>1, <2>2, LocalHosts
<1>2. ASSUME NEW c \in Procs, WriteLog(c) PROVE HostsInv'
  <2>1. PICK ch \in h[c].ch : /\ log' = Append(log, Entry(ch)) /\ Return(c)
                              /\ UNCHANGED <<applied, nodeVars, snapVars, up>>
    BY <1>2 DEF WriteLog, Entry
  <2>2. h' = [h EXCEPT ![c] = Idle] /\ UNCHANGED <<applied, relations, unlogged, drift, snap, up>>
    BY <2>1 DEF Return, nodeVars, snapVars
  <2> QED
    BY <2>1, <2>2, WriteLogHosts
<1>3. ASSUME NEW c \in Procs, WriteLogFails(c) PROVE HostsInv'
  BY <1>3, WriteLogFailsHosts
<1>4. CASE UNCHANGED vars
  BY <1>4, FrameHosts DEF vars, nodeVars, snapVars
<1> QED
  BY <1>1, <1>2, <1>3, <1>4, NodeStepHosts DEF Next, HandlerStep

(***************************************************************************)
(* The hosts: a node that has applied the whole log and has nothing in     *)
(* progress has the hosts of the log in each of its proxies, but for those *)
(* that drift records; the exceptions there are all of them.               *)
(***************************************************************************)
THEOREM NodesAgreeOnHosts == Spec => []HostsAgree
<1>1. FollowInv /\ HostsInv => HostsAgree
  <2> SUFFICES ASSUME FollowInv, HostsInv, NEW n \in Nodes, Settled(n),
                      NEW p \in Patterns \ (drift[n] \cup unlogged[n])
               PROVE  relations[n][p].hosts = MapAt(Len(log))[p].hosts
    BY DEF HostsAgree
  <2>0. /\ up[n] /\ applied[n] = Len(log) /\ Len(log) \in Nat /\ LogOK
        /\ MapOK(relations[n]) /\ MapOK(MapAt(Len(log)))
    <3>1. up[n] /\ applied[n] = Len(log) /\ TypeOK /\ LogOK
      BY DEF Settled, FollowInv, ReplicationTypes
    <3>2. Len(log) \in Nat
      BY <3>1 DEF LogOK
    <3>3. Len(log) \in 0 .. Len(log)
      BY <3>2
    <3> QED
      BY <3>1, <3>2, <3>3, RelationsOK, MapAtOK
  <2> DEFINE r == relations[n][p]
             g == MapAt(Len(log))[p]
  <2>1. /\ p \notin Pending(n, {"removeProxy"}) /\ p \notin Pending(n, {"addProxy", "removeProxy"})
        /\ \A x \in Hosts : ~ HostPending(n, p, x)
    BY DEF Settled, Pending, HostPending
  <2>2. /\ ~ Later(applied[n], p, {"removeProxy"})
        /\ ~ Later(applied[n], p, {"addProxy", "removeProxy"})
        /\ \A x \in Hosts : ~ HostLater(applied[n], p, x)
    BY <2>0 DEF Later, HostLater
  <2>3. \A x \in Hosts : HostAt(x, g, r)
    BY <2>0, <2>1, <2>2 DEF HostsInv, NodeHosts
  <2>4. r.is <=> g.is
    BY <2>0, <2>1, <2>2 DEF FollowInv, NodeFollows, Settles
  <2>5. /\ r.hosts \subseteq Hosts /\ g.hosts \subseteq Hosts
        /\ ~ r.is => r = NoProxy
        /\ ~ g.is => g = NoProxy
    BY <2>0 DEF MapOK, Map, Proxy, ProxyOK
  <2> HIDE DEF r, g
  <2>6. r.hosts = g.hosts
    <3>1. CASE g.is
      BY <2>3, <2>5, <3>1 DEF HostAt, HostsOf
    <3>2. CASE ~ g.is
      BY <2>4, <2>5, <3>2
    <3> QED
      BY <3>1, <3>2
  <2> QED
    BY <2>6 DEF r, g
<1> QED
  BY Follows, HostsInit, HostsNextState, <1>1, PTL DEF Spec
=============================================================================
