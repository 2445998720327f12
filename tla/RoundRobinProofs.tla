-------------------------- MODULE RoundRobinProofs --------------------------
(***************************************************************************)
(* Proofs about RoundRobin for every list of hosts, any number of          *)
(* concurrent readers and every width of idx: it implements Balancer,      *)
(* removed hosts stay out and calls that do not overlap take the hosts in  *)
(* turn.  ListInv says that the list stays without repetitions (or Remove  *)
(* would leave a copy) and that a reader's host is still in the list when  *)
(* its call returns, because its read lock keeps writers out; TurnsInv     *)
(* relates the choices to the positions before idx.                        *)
(***************************************************************************)
EXTENDS RoundRobin, SequenceTheorems, WellFoundedInduction, TLAPS

NoRepeats(s) == \A i, j \in DOMAIN s : s[i] = s[j] => i = j

ListInv ==
    /\ hosts \in Seq(Hosts)
    /\ NoRepeats(hosts)
    /\ idx \in Nat
    /\ reader \in [Clients -> [pc : {"idle", "load", "store"}, host : Hosts \cup {NoHost},
                               i : Nat]]
    /\ answer \in [Clients -> Hosts \cup {NoHost}]
    /\ \A c \in Readers : reader[c].host \in Range(hosts)
    /\ removed \cap Range(hosts) = {}

-----------------------------------------------------------------------------
\* Appending a new host keeps the list free of repetitions and adds that host.
LEMMA AppendFacts ==
    ASSUME NEW S, NEW s \in Seq(S), NoRepeats(s), NEW x \in S, x \notin Range(s)
    PROVE  /\ Append(s, x) \in Seq(S)
           /\ NoRepeats(Append(s, x))
           /\ Range(Append(s, x)) = Range(s) \cup {x}
<1>1. Append(s, x) \in Seq(S) /\ Len(Append(s, x)) = Len(s) + 1
  OBVIOUS
<1>2. \A i \in 1 .. (Len(s) + 1) :
          Append(s, x)[i] = IF i <= Len(s) THEN s[i] ELSE x
  OBVIOUS
<1>3. DOMAIN s = 1 .. Len(s) /\ DOMAIN Append(s, x) = 1 .. (Len(s) + 1)
  BY <1>1
<1>4. NoRepeats(Append(s, x))
  BY <1>2, <1>3 DEF NoRepeats, Range
<1>5. Range(Append(s, x)) = Range(s) \cup {x}
  <2>1. \A y : y \in Range(Append(s, x)) => y \in Range(s) \cup {x}
    BY <1>2, <1>3 DEF Range
  <2>2. ASSUME NEW y \in Range(s) PROVE y \in Range(Append(s, x))
    <3>1. PICK i \in 1 .. Len(s) : s[i] = y
      BY <1>3 DEF Range
    <3>2. i \in DOMAIN Append(s, x) /\ Append(s, x)[i] = y
      BY <3>1, <1>2, <1>3
    <3> QED
      BY <3>2 DEF Range
  <2>3. x \in Range(Append(s, x))
    <3>1. Len(s) + 1 \in DOMAIN Append(s, x) /\ Append(s, x)[Len(s) + 1] = x
      BY <1>2, <1>3
    <3> QED
      BY <3>1 DEF Range
  <2> QED
    BY <2>1, <2>2, <2>3
<1> QED
  BY <1>1, <1>4, <1>5

\* From a list free of repetitions, Without removes the host entirely.
LEMMA WithoutFacts ==
    ASSUME NEW S, NEW s \in Seq(S), NoRepeats(s), NEW h
    PROVE  /\ Without(s, h) \in Seq(S)
           /\ NoRepeats(Without(s, h))
           /\ Range(Without(s, h)) = Range(s) \ {h}
<1>1. CASE h \notin Range(s)
  BY <1>1 DEF Without
<1>2. CASE h \in Range(s)
  <2> DEFINE n == Len(s)
  <2>1. n \in Nat /\ DOMAIN s = 1 .. n
    OBVIOUS
  <2>2. \E i \in DOMAIN s : s[i] = h /\ \A j \in 1 .. (i - 1) : s[j] # h
    <3>1. PICK i \in DOMAIN s : s[i] = h
      BY <1>2 DEF Range
    <3>2. \A j \in 1 .. (i - 1) : s[j] # h
      BY <3>1, <2>1 DEF NoRepeats
    <3> QED
      BY <3>1, <3>2
  <2>3. PICK i \in DOMAIN s :
            /\ s[i] = h
            /\ Without(s, h) = SubSeq(s, 1, i - 1) \o SubSeq(s, i + 1, Len(s))
    BY <1>2, <2>2 DEF Without
  <2> DEFINE t == Without(s, h)
  <2>4. i \in 1 .. n
    BY <2>1, <2>3
  <2> DEFINE a == SubSeq(s, 1, i - 1)
             b == SubSeq(s, i + 1, n)
  <2>5. /\ a \in Seq(S) /\ Len(a) = i - 1 /\ \A k \in 1 .. (i - 1) : a[k] = s[k]
        /\ b \in Seq(S) /\ Len(b) = n - i /\ \A k \in 1 .. (n - i) : b[k] = s[i + k]
    BY <2>1, <2>4, SMTT(20)
  <2>a. t = a \o b
    BY <2>3
  <2> HIDE DEF a, b, t
  <2>6. t \in Seq(S) /\ Len(t) = n - 1 /\ DOMAIN t = 1 .. (n - 1)
    <3>1. t \in Seq(S) /\ Len(t) = Len(a) + Len(b)
      BY <2>5, <2>a, ConcatProperties
    <3>2. Len(t) = n - 1
      BY <3>1, <2>1, <2>4, <2>5
    <3>3. DOMAIN t = 1 .. Len(t)
      BY <3>1
    <3> QED
      BY <3>1, <3>2, <3>3
  <2>7. \A k \in 1 .. (n - 1) : t[k] = IF k < i THEN s[k] ELSE s[k + 1]
    <3>1. \A k \in 1 .. (n - 1) : t[k] = IF k <= i - 1 THEN a[k] ELSE b[k - (i - 1)]
      BY <2>1, <2>4, <2>5, <2>a, SMTT(20)
    <3>2. ASSUME NEW k \in 1 .. (n - 1), k < i PROVE t[k] = s[k]
      BY <3>1, <3>2, <2>1, <2>4, <2>5
    <3>3. ASSUME NEW k \in 1 .. (n - 1), ~ (k < i) PROVE t[k] = s[k + 1]
      <4>1. PICK m \in 1 .. (n - i) : m = k - (i - 1) /\ i + m = k + 1
        BY <3>3, <2>1, <2>4
      <4>2. t[k] = b[m]
        BY <4>1, <3>1, <3>3, <2>1, <2>4
      <4>3. b[m] = s[i + m]
        BY <2>5
      <4> QED
        BY <4>1, <4>2, <4>3
    <3> QED
      BY <3>2, <3>3
  <2>8. NoRepeats(t)
    <3> SUFFICES ASSUME NEW k \in 1 .. (n - 1), NEW m \in 1 .. (n - 1), t[k] = t[m]
                 PROVE  k = m
      BY <2>6 DEF NoRepeats
    <3> DEFINE src(x) == IF x < i THEN x ELSE x + 1
    <3>1. src(k) \in 1 .. n /\ src(m) \in 1 .. n
      BY <2>1, <2>4
    <3>2. s[src(k)] = s[src(m)]
      BY <2>7
    <3>3. src(k) = src(m)
      BY <3>1, <3>2, <2>1 DEF NoRepeats
    <3> QED
      BY <3>3, <2>1, <2>4
  <2>9. ASSUME NEW y \in Range(t) PROVE y \in Range(s) \ {h}
    <3>1. PICK k \in 1 .. (n - 1) : t[k] = y
      BY <2>6 DEF Range
    <3>2. PICK m \in 1 .. n : m # i /\ s[m] = y
      BY <3>1, <2>1, <2>4, <2>7
    <3> QED
      BY <3>2, <2>1, <2>3 DEF Range, NoRepeats
  <2>10. ASSUME NEW y \in Range(s), y # h PROVE y \in Range(t)
    <3>1. PICK m \in 1 .. n : s[m] = y
      BY <2>1 DEF Range
    <3>2. m # i
      BY <3>1, <2>3, <2>10
    <3>3. PICK k \in 1 .. (n - 1) : t[k] = y
      <4>1. CASE m < i
        BY <4>1, <3>1, <2>1, <2>4, <2>7
      <4>2. CASE m > i
        <5>1. m - 1 \in 1 .. (n - 1) /\ t[m - 1] = s[(m - 1) + 1]
          BY <4>2, <2>1, <2>4, <2>7
        <5> QED
          BY <5>1, <3>1
      <4> QED
        BY <4>1, <4>2, <3>2, <2>1, <2>4
    <3> QED
      BY <3>3, <2>6 DEF Range
  <2>11. Range(t) = Range(s) \ {h}
    BY <2>9, <2>10
  <2> QED
    BY <2>6, <2>8, <2>11 DEF t
<1> QED
  BY <1>1, <1>2

-----------------------------------------------------------------------------
\* Every step keeps the invariant; ListInv is what the refinement needs.
LEMMA ListInvStep ==
    ASSUME ListInv, [Next]_vars
    PROVE  ListInv'
<1> USE RoundRobinAssumption
<1>1. ASSUME NEW h \in Hosts, Add(h) PROVE ListInv'
  <2>1. CASE h \in Range(hosts)
    BY <1>1, <2>1 DEF ListInv, Add, Readers
  <2>2. CASE h \notin Range(hosts)
    <3>1. /\ hosts' \in Seq(Hosts) /\ NoRepeats(hosts')
          /\ Range(hosts') = Range(hosts) \cup {h}
      BY <1>1, <2>2, AppendFacts DEF ListInv, Add
    <3> QED
      BY <1>1, <3>1 DEF ListInv, Add, Readers
  <2> QED
    BY <2>1, <2>2
<1>2. ASSUME NEW h \in Hosts, Remove(h) PROVE ListInv'
  <2>1. /\ hosts' \in Seq(Hosts) /\ NoRepeats(hosts')
        /\ Range(hosts') = Range(hosts) \ {h}
    BY <1>2, WithoutFacts DEF ListInv, Remove
  <2> QED
    BY <1>2, <2>1 DEF ListInv, Remove, Readers
<1>3. ASSUME NEW c \in Clients, BalanceEmpty(c) PROVE ListInv'
  BY <1>3 DEF ListInv, BalanceEmpty, Readers
<1>4. ASSUME NEW c \in Clients, Pick(c) PROVE ListInv'
  <2> DEFINE k == (idx % Len(hosts)) + 1
  <2>1. Len(hosts) \in Nat /\ Len(hosts) # 0 /\ DOMAIN hosts = 1 .. Len(hosts)
    BY <1>4 DEF ListInv, Pick
  <2>2. k \in DOMAIN hosts
    BY <2>1 DEF ListInv
  <2>3. hosts[k] \in Hosts /\ hosts[k] \in Range(hosts)
    BY <2>2 DEF ListInv, Range
  <2> HIDE DEF k
  <2>4. reader' = [reader EXCEPT ![c] = [pc |-> "load", host |-> hosts[k], i |-> 0]]
    BY <1>4 DEF Pick, k
  <2>5. UNCHANGED <<hosts, idx, answer, removed>>
    BY <1>4 DEF Pick
  <2> QED
    BY <2>3, <2>4, <2>5 DEF ListInv, Readers
<1>5. ASSUME NEW c \in Clients, LoadIdx(c) PROVE ListInv'
  BY <1>5, ZenonT(60) DEF ListInv, LoadIdx, Readers
<1>6. ASSUME NEW c \in Clients, StoreIdx(c) PROVE ListInv'
  <2>1. idx' \in Nat
    BY <1>6 DEF ListInv, StoreIdx
  <2> QED
    BY <1>6, <2>1 DEF ListInv, StoreIdx, Readers, Idle
<1>7. ASSUME UNCHANGED vars PROVE ListInv'
  BY <1>7 DEF ListInv, vars, Readers
<1> QED
  BY <1>1, <1>2, <1>3, <1>4, <1>5, <1>6, <1>7 DEF Next

\* A balancer built from a list without repetitions starts with the invariant.
LEMMA ListInvInit ==
    ASSUME NoRepeats(InitHosts), Init
    PROVE  ListInv
BY RoundRobinAssumption DEF Init, ListInv, Idle, Readers

(***************************************************************************)
(* "Site unreachable, remove %s from load balancer": Remove of a balancer  *)
(* built without repetitions takes the host out of the list for good.      *)
(***************************************************************************)
THEOREM RemovalHolds ==
    ASSUME NoRepeats(InitHosts)
    PROVE  Spec => []RemovedStaysOut
<1>1. Init => ListInv
  BY ListInvInit
<1>2. ListInv /\ [Next]_vars => ListInv'
  BY ListInvStep
<1>3. ListInv => RemovedStaysOut
  BY DEF ListInv, RemovedStaysOut
<1> QED
  BY <1>1, <1>2, <1>3, PTL DEF Spec

(***************************************************************************)
(* RoundRobin implements Balancer: whatever the readers' race on idx does, *)
(* every call of Balance answers with a host of the rotation as it is when *)
(* the call returns, and every Add and Remove is the abstract one.         *)
(***************************************************************************)
THEOREM RoundRobinImplementsBalancer ==
    ASSUME NoRepeats(InitHosts)
    PROVE  Spec => ImplementsBalancer
<1> USE RoundRobinAssumption
<1>1. Init => ListInv
  BY ListInvInit
<1>2. ListInv /\ [Next]_vars => ListInv'
  BY ListInvStep
<1>3. Init => Abstract!Init
  <2>1. Range(InitHosts) \subseteq Hosts
    BY DEF Range
  <2> QED
    BY <2>1 DEF Init, Abstract!Init
<1>4. ListInv /\ [Next]_vars => [Abstract!Next]_(Abstract!vars)
  <2> SUFFICES ASSUME ListInv, [Next]_vars
               PROVE  [Abstract!Next]_(Abstract!vars)
    OBVIOUS
  <2>1. ASSUME NEW h \in Hosts, Add(h) PROVE Abstract!Add(h)
    <3>1. Range(hosts') = Range(hosts) \cup {h}
      BY <2>1, AppendFacts DEF ListInv, Add
    <3> QED
      BY <2>1, <3>1 DEF Add, Abstract!Add
  <2>2. ASSUME NEW h \in Hosts, Remove(h) PROVE Abstract!Remove(h)
    <3>1. Range(hosts') = Range(hosts) \ {h}
      BY <2>2, WithoutFacts DEF ListInv, Remove
    <3> QED
      BY <2>2, <3>1 DEF Remove, Abstract!Remove
  <2>3. ASSUME NEW c \in Clients, BalanceEmpty(c) PROVE Abstract!Balance(c)
    BY <2>3 DEF BalanceEmpty, Abstract!Balance, Range
  <2>4. ASSUME NEW c \in Clients, Pick(c) \/ LoadIdx(c) PROVE UNCHANGED (Abstract!vars)
    BY <2>4 DEF Pick, LoadIdx, Abstract!vars
  <2>5. ASSUME NEW c \in Clients, StoreIdx(c) PROVE Abstract!Balance(c)
    <3>1. reader[c].host \in Range(hosts)
      BY <2>5 DEF ListInv, Readers, StoreIdx
    <3> QED
      BY <2>5, <3>1 DEF StoreIdx, Abstract!Balance
  <2>6. ASSUME UNCHANGED vars PROVE UNCHANGED (Abstract!vars)
    BY <2>6 DEF vars, Abstract!vars
  <2> QED
    BY <2>1, <2>2, <2>3, <2>4, <2>5, <2>6 DEF Next, Abstract!Next
<1> QED
  BY <1>1, <1>2, <1>3, <1>4, PTL DEF Spec, ImplementsBalancer, Abstract!Spec

-----------------------------------------------------------------------------
(***************************************************************************)
(* The types, for every list, with repetitions or without.                 *)
(***************************************************************************)
\* The least-number principle, by the well-foundedness of < on Nat.
LEMMA LeastElement ==
    ASSUME NEW T \in SUBSET Nat, T # {}
    PROVE  \E m \in T : \A k \in T : m <= k
<1> DEFINE R == {x \in Nat \X Nat : x[1] < x[2]}
<1>1. IsWellFoundedOn(R, Nat)
  BY NatLessThanWellFounded DEF OpToRel
<1>2. \E m \in T : \A k \in T : ~(<<k, m>> \in R)
  <2> HIDE DEF R
  <2> QED
    BY <1>1, WFMin
<1>3. ASSUME NEW m \in T, NEW k \in T, ~(<<k, m>> \in R) PROVE m <= k
  <2>1. m \in Nat /\ k \in Nat /\ ~(k < m)
    BY <1>3
  <2> QED
    BY <2>1
<1> QED
  BY <1>2, <1>3

\* Without finds the first occurrence, if there is one.
LEMMA WithoutType ==
    ASSUME NEW S, NEW s \in Seq(S), NEW h
    PROVE  Without(s, h) \in Seq(S)
<1>1. CASE h \notin Range(s)
  BY <1>1 DEF Without
<1>2. CASE h \in Range(s)
  <2> DEFINE T == {i \in DOMAIN s : s[i] = h}
  <2>1. T \in SUBSET Nat /\ T # {}
    BY <1>2 DEF Range
  <2>2. PICK m \in T : \A k \in T : m <= k
    <3> HIDE DEF T
    <3> QED
      BY <2>1, LeastElement
  <2>3. m \in DOMAIN s /\ s[m] = h /\ \A j \in 1 .. (m - 1) : s[j] # h
    BY <2>2
  <2>4. PICK i \in DOMAIN s : Without(s, h) = SubSeq(s, 1, i - 1) \o SubSeq(s, i + 1, Len(s))
    BY <1>2, <2>3 DEF Without
  <2>5. SubSeq(s, 1, i - 1) \in Seq(S) /\ SubSeq(s, i + 1, Len(s)) \in Seq(S)
    OBVIOUS
  <2> QED
    BY <2>4, <2>5
<1> QED
  BY <1>1, <1>2

\* Recent keeps the last ones.
LEMMA RecentFacts ==
    ASSUME hosts \in Seq(Hosts), NEW s \in Seq(Hosts)
    PROVE  LET m == IF Len(s) < Len(hosts) THEN Len(s) ELSE Len(hosts)
           IN  /\ Recent(s) \in Seq(Hosts) /\ Len(Recent(s)) = m
               /\ \A k \in 1 .. m : Recent(s)[k] = s[Len(s) - m + k]
<1> DEFINE m == IF Len(s) < Len(hosts) THEN Len(s) ELSE Len(hosts)
           a == 1 + Len(s) - m
<1>1. m \in Nat /\ Len(s) \in Nat /\ m <= Len(s)
  OBVIOUS
<1>2. Recent(s) = SubSeq(s, a, Len(s))
  BY DEF Recent
<1> HIDE DEF m
<1>3. a \in 1 .. Len(s) + 1 /\ Len(s) - a + 1 = m
  BY <1>1
<1>4. /\ Recent(s) \in Seq(Hosts) /\ Len(Recent(s)) = m
      /\ \A k \in 1 .. m : Recent(s)[k] = s[a + k - 1]
  <2> HIDE DEF a
  <2> QED
    BY <1>1, <1>2, <1>3
<1>5. \A k \in 1 .. m : a + k - 1 = Len(s) - m + k
  BY <1>1
<1>6. \A k \in 1 .. m : Recent(s)[k] = s[Len(s) - m + k]
  BY <1>4, <1>5
<1> QED
  BY <1>4, <1>6 DEF m

\* The host of a call.
LEMMA PickedHost ==
    ASSUME TypeOK, hosts # <<>>
    PROVE  /\ Len(hosts) \in Nat \ {0} /\ (idx % Len(hosts)) + 1 \in 1 .. Len(hosts)
           /\ hosts[(idx % Len(hosts)) + 1] \in Hosts
<1>1. Len(hosts) \in Nat \ {0} /\ idx \in Nat
  BY RoundRobinAssumption DEF TypeOK
<1>2. (idx % Len(hosts)) + 1 \in 1 .. Len(hosts)
  BY <1>1
<1> QED
  BY <1>1, <1>2 DEF TypeOK

LEMMA TypesStep ==
    ASSUME TypeOK, [Next]_vars
    PROVE  TypeOK'
<1> USE RoundRobinAssumption
<1>1. ASSUME NEW h \in Hosts, Add(h) PROVE TypeOK'
  <2>1. hosts' \in Seq(Hosts) /\ turns' \in Seq(Hosts) /\ removed' \subseteq Hosts
    BY <1>1 DEF TypeOK, Add
  <2> QED
    BY <1>1, <2>1 DEF TypeOK, Add
<1>2. ASSUME NEW h \in Hosts, Remove(h) PROVE TypeOK'
  <2>1. hosts' \in Seq(Hosts) /\ turns' \in Seq(Hosts) /\ removed' \subseteq Hosts
    BY <1>2, WithoutType DEF TypeOK, Remove
  <2> QED
    BY <1>2, <2>1 DEF TypeOK, Remove
<1>3. ASSUME NEW c \in Clients, BalanceEmpty(c) PROVE TypeOK'
  BY <1>3 DEF TypeOK, BalanceEmpty
<1>4. ASSUME NEW c \in Clients, Pick(c) PROVE TypeOK'
  <2> DEFINE host == hosts[(idx % Len(hosts)) + 1]
  <2>1. /\ reader' = [reader EXCEPT ![c] = [pc |-> "load", host |-> host, i |-> 0]]
        /\ turns' = IF Readers = {} THEN Recent(Append(turns, host)) ELSE <<>>
        /\ UNCHANGED <<hosts, idx, answer, removed>>
    BY <1>4 DEF Pick
  <2>2. host \in Hosts
    BY <1>4, PickedHost DEF Pick
  <2> HIDE DEF host
  <2>3. Recent(Append(turns, host)) \in Seq(Hosts)
    <3>1. Append(turns, host) \in Seq(Hosts) /\ hosts \in Seq(Hosts)
      BY <2>2 DEF TypeOK
    <3> QED
      BY <3>1, RecentFacts
  <2>4. turns' \in Seq(Hosts)
    BY <2>1, <2>3
  <2>5. 0 \in 0 .. (IdxLimit - 1)
    OBVIOUS
  <2> QED
    BY <2>1, <2>2, <2>4, <2>5 DEF TypeOK
<1>5. ASSUME NEW c \in Clients, LoadIdx(c) PROVE TypeOK'
  BY <1>5 DEF TypeOK, LoadIdx
<1>6. ASSUME NEW c \in Clients, StoreIdx(c) PROVE TypeOK'
  <2>1. reader[c].i \in Nat
    BY DEF TypeOK
  <2>2. idx' \in 0 .. (IdxLimit - 1)
    BY <1>6, <2>1 DEF StoreIdx
  <2>3. Idle \in [pc : {"idle", "load", "store"}, host : Hosts \cup {NoHost}, i : 0 .. (IdxLimit - 1)]
    BY DEF Idle
  <2>4. turns' \in Seq(Hosts)
    BY <1>6 DEF TypeOK, StoreIdx
  <2> QED
    BY <1>6, <2>2, <2>3, <2>4 DEF TypeOK, StoreIdx
<1>7. ASSUME UNCHANGED vars PROVE TypeOK'
  BY <1>7 DEF TypeOK, vars
<1> QED
  BY <1>1, <1>2, <1>3, <1>4, <1>5, <1>6, <1>7 DEF Next

LEMMA TypesInit == Init => TypeOK
<1>1. 0 \in 0 .. (IdxLimit - 1) /\ <<>> \in Seq(Hosts)
  BY RoundRobinAssumption
<1> QED
  BY <1>1, RoundRobinAssumption DEF Init, TypeOK, Idle

(***************************************************************************)
(* idx stays a uint64 and every host that Add, Remove or a call handles is *)
(* one of the list, whatever the readers' race does and for every list.    *)
(***************************************************************************)
THEOREM RoundRobinTypesOK == Spec => []TypeOK
  BY TypesInit, TypesStep, PTL DEF Spec

-----------------------------------------------------------------------------
(***************************************************************************)
(* Turns.  The calls since the last change or overlap chose the hosts at   *)
(* consecutive positions, up to the one that the next call will find.      *)
(***************************************************************************)
End == IF Readers = {} THEN idx ELSE idx + 1

TurnsInv ==
    turns # <<>> =>
      /\ \A c, d \in Readers : c = d
      /\ \A c \in Readers : reader[c].pc = "store" => reader[c].i = idx
      /\ Len(turns) <= Len(hosts) /\ Len(turns) <= End
      /\ \A k \in 1 .. Len(turns) :
            turns[k] = hosts[((End - Len(turns) + k - 1) % Len(hosts)) + 1]

\* Numbers less than n apart have different remainders.
LEMMA RemaindersDiffer ==
    ASSUME NEW n \in Nat \ {0}, NEW p \in Nat, NEW q \in Nat, p < q, q - p < n
    PROVE  p % n # q % n
<1> DEFINE a == p \div n
           b == q \div n
<1>1. /\ a \in Nat /\ p % n \in Nat /\ p = a * n + (p % n)
      /\ b \in Nat /\ q % n \in Nat /\ q = b * n + (q % n)
  BY Z3
<1> SUFFICES ASSUME p % n = q % n PROVE FALSE
  OBVIOUS
<1> HIDE DEF a, b
<1>2. q - p = b * n - a * n
  BY <1>1, Z3
<1>3. CASE b <= a
  <2>1. b * n <= a * n
    BY <1>1, <1>3, Z3
  <2> QED
    BY <1>1, <1>2, <2>1, Z3
<1>4. CASE b >= a + 1
  <2>1. b * n >= a * n + n
    <3>1. (a + 1) * n <= b * n
      BY <1>1, <1>4, Z3
    <3>2. (a + 1) * n = a * n + n
      BY <1>1, Z3
    <3> QED
      BY <3>1, <3>2
  <2> QED
    BY <1>1, <1>2, <2>1, Z3
<1> QED
  BY <1>1, <1>3, <1>4

\* Consecutive positions of a list without repetitions are different hosts.
LEMMA TurnsDiffer == TypeOK /\ NoRepeats(hosts) /\ TurnsInv => EachInTurn
<1> SUFFICES ASSUME TypeOK, NoRepeats(hosts), TurnsInv,
                    NEW i \in DOMAIN turns, NEW j \in DOMAIN turns, i < j
             PROVE  turns[i] # turns[j]
  <2>1. DOMAIN turns \subseteq Nat
    BY DEF TypeOK
  <2> QED
    BY <2>1 DEF EachInTurn
<1> DEFINE n == Len(hosts)
           m == Len(turns)
           p == End - m + i - 1
           q == End - m + j - 1
<1>1. m \in Nat /\ i \in 1 .. m /\ j \in 1 .. m /\ n \in Nat /\ End \in Nat /\ turns # <<>>
  BY DEF TypeOK, End
<1>2. m <= n /\ m <= End
  BY <1>1 DEF TurnsInv
<1>3. turns[i] = hosts[(p % n) + 1] /\ turns[j] = hosts[(q % n) + 1]
  BY <1>1 DEF TurnsInv
<1> HIDE DEF n, m
<1>4. n \in Nat \ {0} /\ p \in Nat /\ q \in Nat /\ p < q /\ q - p < n
  BY <1>1, <1>2
<1> HIDE DEF p, q
<1>5. p % n # q % n
  BY <1>4, RemaindersDiffer
<1>6. (p % n) + 1 \in 1 .. n /\ (q % n) + 1 \in 1 .. n
  BY <1>4
<1>7. DOMAIN hosts = 1 .. n
  BY DEF TypeOK, n
<1>8. hosts[(p % n) + 1] # hosts[(q % n) + 1]
  BY <1>4, <1>5, <1>6, <1>7 DEF NoRepeats
<1> QED
  BY <1>3, <1>8

LEMMA TurnsStep ==
    ASSUME TypeOK, TurnsInv, [Next]_vars
    PROVE  TurnsInv'
<1> USE RoundRobinAssumption
<1>0. idx \in Nat /\ turns \in Seq(Hosts) /\ hosts \in Seq(Hosts) /\ Len(turns) \in Nat /\ End \in Nat
  BY DEF TypeOK, End
<1>kept. ASSUME UNCHANGED <<hosts, idx, reader, turns>> PROVE TurnsInv'
  BY <1>kept DEF TurnsInv, End, Readers
<1>none. ASSUME turns' = <<>> PROVE TurnsInv'
  BY <1>none DEF TurnsInv
<1>1. ASSUME NEW h \in Hosts, Add(h) PROVE TurnsInv'
  BY <1>1, <1>kept, <1>none DEF Add
<1>2. ASSUME NEW h \in Hosts, Remove(h) PROVE TurnsInv'
  BY <1>2, <1>kept, <1>none DEF Remove
<1>3. ASSUME NEW c \in Clients, BalanceEmpty(c) PROVE TurnsInv'
  BY <1>3, <1>kept DEF BalanceEmpty
<1>4. ASSUME NEW c \in Clients, Pick(c) PROVE TurnsInv'
  <2> DEFINE n == Len(hosts)
             host == hosts[(idx % n) + 1]
             s == Append(turns, host)
             m == Len(s)
  <2>1. /\ reader' = [reader EXCEPT ![c] = [pc |-> "load", host |-> host, i |-> 0]]
        /\ turns' = IF Readers = {} THEN Recent(s) ELSE <<>>
        /\ UNCHANGED <<hosts, idx>> /\ hosts # <<>>
    BY <1>4 DEF Pick
  <2>2. host \in Hosts /\ n \in Nat \ {0}
    BY <2>1, PickedHost
  <2>3. CASE Readers = {}
    <3>1. Readers' = {c} /\ reader'[c].pc = "load"
      BY <2>1, <2>3 DEF Readers, TypeOK
    <3>2. End = idx /\ End' = idx + 1
      BY <2>1, <2>3, <3>1 DEF End
    <3>3. s \in Seq(Hosts) /\ m = Len(turns) + 1 /\ s[m] = host
          /\ \A k \in 1 .. Len(turns) : s[k] = turns[k]
      <4> HIDE DEF host
      <4> QED
        BY <1>0, <2>2
    \* s holds the hosts at the positions up to idx.
    <3>4. Len(turns) <= n /\ Len(turns) <= idx
          /\ \A k \in 1 .. m : s[k] = hosts[((idx + 1 - m + k - 1) % n) + 1]
      <4>1. ASSUME NEW k \in 1 .. Len(turns)
            PROVE  s[k] = hosts[((idx + 1 - m + k - 1) % n) + 1]
        <5>1. turns # <<>>
          BY <1>0
        <5>2. turns[k] = hosts[((idx - Len(turns) + k - 1) % n) + 1]
          BY <3>2, <5>1 DEF TurnsInv
        <5>3. idx - Len(turns) + k - 1 = idx + 1 - m + k - 1
          BY <1>0, <3>3
        <5> QED
          BY <3>3, <5>2, <5>3
      <4>2. s[m] = hosts[((idx + 1 - m + m - 1) % n) + 1]
        <5>1. idx + 1 - m + m - 1 = idx
          BY <1>0, <3>3
        <5> QED
          BY <3>3, <5>1
      <4>3. turns = <<>> => Len(turns) <= n /\ Len(turns) <= idx
        BY <1>0, <2>2
      <4>4. turns # <<>> => Len(turns) <= n /\ Len(turns) <= idx
        BY <3>2 DEF TurnsInv
      <4>5. \A k \in 1 .. m : k = m \/ k \in 1 .. Len(turns)
        BY <1>0, <3>3
      <4> HIDE DEF host, s, m
      <4> QED
        BY <4>1, <4>2, <4>3, <4>4, <4>5
    <3> DEFINE l == IF m < n THEN m ELSE n
    <3>5. /\ Recent(s) \in Seq(Hosts) /\ Len(Recent(s)) = l
          /\ \A k \in 1 .. l : Recent(s)[k] = s[m - l + k]
      <4> HIDE DEF s
      <4> QED
        BY <1>0, <3>3, RecentFacts
    <3>6. turns' = Recent(s)
      BY <2>1, <2>3
    <3> HIDE DEF s, m, n, host
    <3>7. l \in Nat /\ l <= n /\ l <= m /\ m \in Nat /\ l <= idx + 1
      BY <1>0, <2>2, <3>3, <3>4
    <3>8. ASSUME NEW k \in 1 .. l
          PROVE  Recent(s)[k] = hosts[((idx + 1 - l + k - 1) % n) + 1]
      <4> HIDE DEF l
      <4>1. m - l + k \in 1 .. m
        BY <3>7
      <4>2. idx + 1 - m + (m - l + k) - 1 = idx + 1 - l + k - 1
        BY <1>0, <3>7
      <4>3. Recent(s)[k] = s[m - l + k]
        BY <3>5
      <4> QED
        BY <3>4, <4>1, <4>2, <4>3
    <3> HIDE DEF l
    <3>9. Len(turns') = l /\ Len(hosts') = n /\ hosts' = hosts
      BY <2>1, <3>5, <3>6 DEF n
    <3>10. ASSUME NEW k \in 1 .. Len(turns')
           PROVE  turns'[k] = hosts'[((End' - Len(turns') + k - 1) % Len(hosts')) + 1]
      <4>1. k \in 1 .. l
        BY <3>9
      <4>2. turns'[k] = hosts[((idx + 1 - l + k - 1) % n) + 1]
        BY <3>6, <3>8, <4>1
      <4>3. End' - Len(turns') + k - 1 = idx + 1 - l + k - 1
        <5>1. Len(turns') = l
          BY <3>9
        <5> QED
          BY <1>0, <3>2, <3>7, <5>1
      <4> QED
        BY <3>9, <4>2, <4>3
    <3> QED
      BY <3>1, <3>2, <3>7, <3>9, <3>10 DEF TurnsInv
  <2>4. CASE Readers # {}
    BY <1>none, <2>1, <2>4
  <2> QED
    BY <2>3, <2>4
<1>5. ASSUME NEW c \in Clients, LoadIdx(c) PROVE TurnsInv'
  <2>1. /\ reader' = [reader EXCEPT ![c].pc = "store", ![c].i = idx]
        /\ reader[c].pc = "load" /\ UNCHANGED <<hosts, idx, turns>>
    BY <1>5 DEF LoadIdx
  <2>2. Readers' = Readers /\ c \in Readers /\ reader'[c].i = idx
    BY <2>1 DEF Readers, TypeOK
  <2>3. End' = End
    BY <2>1, <2>2 DEF End
  <2>4. ASSUME turns # <<>>
        PROVE  \A d \in Readers' : reader'[d].pc = "store" => reader'[d].i = idx'
    BY <2>1, <2>2, <2>4 DEF TurnsInv
  <2> QED
    BY <2>1, <2>2, <2>3, <2>4 DEF TurnsInv
<1>6. ASSUME NEW c \in Clients, StoreIdx(c) PROVE TurnsInv'
  <2>1. /\ reader[c].pc = "store" /\ idx' = (reader[c].i + 1) % IdxLimit
        /\ reader' = [reader EXCEPT ![c] = Idle] /\ hosts' = hosts
        /\ turns' = IF Readers = {c} /\ idx' # 0 THEN turns ELSE <<>>
    BY <1>6 DEF StoreIdx
  <2>2. CASE Readers = {c} /\ idx' # 0 /\ turns # <<>>
    <3>1. turns' = turns /\ reader[c].i = idx
      BY <2>1, <2>2 DEF TurnsInv
    <3>2. idx' = idx + 1
      <4>1. idx \in 0 .. (IdxLimit - 1)
        BY DEF TypeOK
      <4>2. idx + 1 < IdxLimit => (idx + 1) % IdxLimit = idx + 1
        BY <4>1
      <4>3. idx + 1 = IdxLimit => (idx + 1) % IdxLimit = 0
        BY <4>1
      <4> QED
        BY <2>1, <2>2, <3>1, <4>1, <4>2, <4>3
    <3>3. Readers' = {}
      BY <2>1, <2>2 DEF Readers, Idle, TypeOK
    <3>4. End' = End
      BY <2>2, <3>2, <3>3 DEF End
    <3> QED
      BY <2>1, <3>1, <3>3, <3>4 DEF TurnsInv
  <2>3. CASE ~(Readers = {c} /\ idx' # 0) \/ turns = <<>>
    BY <1>none, <2>1, <2>3
  <2> QED
    BY <2>2, <2>3
<1>7. ASSUME UNCHANGED vars PROVE TurnsInv'
  BY <1>7, <1>kept DEF vars
<1> QED
  BY <1>1, <1>2, <1>3, <1>4, <1>5, <1>6, <1>7 DEF Next

(***************************************************************************)
(* Balance takes the hosts in turn: among calls that do not overlap,       *)
(* without a change of the list and without a wrap of idx, no host is      *)
(* chosen again before all others were; whatever updates of idx were lost  *)
(* before, for every list without repetitions.                             *)
(***************************************************************************)
THEOREM HostsTakeTurns ==
    ASSUME NoRepeats(InitHosts)
    PROVE  Spec => []EachInTurn
<1>1. Init => ListInv
  BY ListInvInit
<1>2. ListInv /\ [Next]_vars => ListInv'
  BY ListInvStep
<1>3. Init => TurnsInv
  BY DEF Init, TurnsInv
<1>4. TypeOK /\ TurnsInv /\ [Next]_vars => TurnsInv'
  BY TurnsStep
<1>5. TypeOK /\ ListInv /\ TurnsInv => EachInTurn
  BY TurnsDiffer DEF ListInv
<1> QED
  BY <1>1, <1>2, <1>3, <1>4, <1>5, TypesInit, TypesStep, PTL DEF Spec
=============================================================================
