----------------------------- MODULE RoundRobin -----------------------------
(***************************************************************************)
(* The round-robin balancer (balancer/round_robin.go).                     *)
(*                                                                         *)
(* Add and Remove hold the write lock from start to end: one step each.    *)
(* Balance holds only the read lock and yet increments idx, so any number  *)
(* of goroutines are between its reads of idx and its write at a time: the *)
(* choice of the host, the load and the store of idx++ are steps of their  *)
(* own.  reader[c].pc # "idle" is c's read lock.                           *)
(***************************************************************************)
EXTENDS Naturals, Sequences, Functions

CONSTANTS
    Hosts,      \* host names
    InitHosts,  \* the list the balancer is built from
    Clients,    \* goroutines that serve requests
    IdxLimit,   \* 2^64: idx is a uint64
    NoHost      \* NoHostError

ASSUME RoundRobinAssumption ==
    /\ InitHosts \in Seq(Hosts)
    /\ IdxLimit \in Nat \ {0}
    /\ NoHost \notin Hosts

VARIABLES
    hosts,      \* RoundRobin.hosts
    idx,        \* RoundRobin.idx
    reader,     \* the Balance calls in progress
    answer,     \* what the last Balance call of each goroutine returned
    removed,    \* history: hosts whose last Add or Remove was a Remove
    turns       \* history: the hosts chosen since the last change or overlap

vars == <<hosts, idx, reader, answer, removed, turns>>

Idle == [pc |-> "idle", host |-> NoHost, i |-> 0]

TypeOK ==
    /\ hosts \in Seq(Hosts)
    /\ idx \in 0 .. (IdxLimit - 1)
    /\ reader \in [Clients -> [pc : {"idle", "load", "store"}, host : Hosts \cup {NoHost},
                               i : 0 .. (IdxLimit - 1)]]
    /\ answer \in [Clients -> Hosts \cup {NoHost}]
    /\ removed \subseteq Hosts
    /\ turns \in Seq(Hosts)

\* NewRoundRobin.
Init ==
    /\ hosts = InitHosts
    /\ idx = 0
    /\ reader = [c \in Clients |-> Idle]
    /\ answer = [c \in Clients |-> NoHost]
    /\ removed = {}
    /\ turns = <<>>

Readers == {c \in Clients : reader[c].pc # "idle"}

-----------------------------------------------------------------------------
\* append(s[:i], s[i+1:]...) for the first i with s[i] = h.
Without(s, h) ==
    IF h \notin Range(s) THEN s
    ELSE LET i == CHOOSE i \in DOMAIN s : s[i] = h /\ \A j \in 1 .. (i - 1) : s[j] # h
         IN  SubSeq(s, 1, i - 1) \o SubSeq(s, i + 1, Len(s))

\* Mutant: a host that is there is appended again.
Add_Repeats(h) ==
    /\ Readers = {}
    /\ hosts' = Append(hosts, h)
    /\ removed' = removed \ {h}
    /\ turns' = <<>>
    /\ UNCHANGED <<idx, reader, answer>>

Add(h) ==
    /\ Readers = {}
    /\ hosts' = IF h \in Range(hosts) THEN hosts ELSE Append(hosts, h)
    /\ removed' = removed \ {h}
    /\ turns' = IF hosts' = hosts THEN turns ELSE <<>>
    /\ UNCHANGED <<idx, reader, answer>>

\* Mutant: Remove does not take the lock.
Remove_Unlocked(h) ==
    /\ hosts' = Without(hosts, h)
    /\ removed' = removed \cup {h}
    /\ turns' = <<>>
    /\ UNCHANGED <<idx, reader, answer>>

\* The first occurrence only.
Remove(h) ==
    /\ Readers = {}
    /\ hosts' = Without(hosts, h)
    /\ removed' = removed \cup {h}
    /\ turns' = IF hosts' = hosts THEN turns ELSE <<>>
    /\ UNCHANGED <<idx, reader, answer>>

-----------------------------------------------------------------------------
\* Balance: an empty list answers at once.
BalanceEmpty(c) ==
    /\ reader[c].pc = "idle" /\ hosts = <<>>
    /\ answer' = [answer EXCEPT ![c] = NoHost]
    /\ UNCHANGED <<hosts, idx, reader, removed, turns>>

\* The most recent choices, as many as there are hosts.
Recent(s) == SubSeq(s, 1 + Len(s) - (IF Len(s) < Len(hosts) THEN Len(s) ELSE Len(hosts)), Len(s))

Pick(c) ==
    LET host == hosts[(idx % Len(hosts)) + 1]
    IN /\ reader[c].pc = "idle" /\ hosts # <<>>
       /\ reader' = [reader EXCEPT ![c] = [pc |-> "load", host |-> host, i |-> 0]]
       /\ turns' = IF Readers = {} THEN Recent(Append(turns, host)) ELSE <<>>
       /\ UNCHANGED <<hosts, idx, answer, removed>>

LoadIdx(c) ==
    /\ reader[c].pc = "load"
    /\ reader' = [reader EXCEPT ![c].pc = "store", ![c].i = idx]
    /\ UNCHANGED <<hosts, idx, answer, removed, turns>>

\* Mutant: the host is returned and idx stays.
StoreIdx_Skip(c) ==
    /\ reader[c].pc = "store"
    /\ answer' = [answer EXCEPT ![c] = reader[c].host]
    /\ reader' = [reader EXCEPT ![c] = Idle]
    /\ UNCHANGED <<hosts, idx, removed, turns>>

\* Mutant: idx does not wrap.
StoreIdx_NoWrap(c) ==
    /\ reader[c].pc = "store"
    /\ idx' = reader[c].i + 1
    /\ answer' = [answer EXCEPT ![c] = reader[c].host]
    /\ reader' = [reader EXCEPT ![c] = Idle]
    /\ turns' = <<>>
    /\ UNCHANGED <<hosts, removed>>

\* idx++ wraps; the call returns and releases the read lock.
StoreIdx(c) ==
    /\ reader[c].pc = "store"
    /\ idx' = (reader[c].i + 1) % IdxLimit
    /\ answer' = [answer EXCEPT ![c] = reader[c].host]
    /\ reader' = [reader EXCEPT ![c] = Idle]
    /\ turns' = IF Readers = {c} /\ idx' # 0 THEN turns ELSE <<>>
    /\ UNCHANGED <<hosts, removed>>

Next ==
    \/ \E h \in Hosts : Add(h) \/ Remove(h)
    \/ \E c \in Clients : BalanceEmpty(c) \/ Pick(c) \/ LoadIdx(c) \/ StoreIdx(c)

Spec == Init /\ [][Next]_vars

-----------------------------------------------------------------------------
Abstract == INSTANCE Balancer WITH rotation <- Range(hosts)

(***************************************************************************)
(* RoundRobin is a Balancer: although readers race on idx, each call       *)
(* answers with a host of the rotation as it is when the call returns, and *)
(* Remove takes the host out entirely.                                     *)
(***************************************************************************)
ImplementsBalancer == Abstract!Spec

(***************************************************************************)
(* Round robin: among calls that do not overlap, with the same list and no *)
(* wrap of idx, no host is chosen twice before every other had its turn,   *)
(* also after overlapping calls have lost updates of idx.                  *)
(***************************************************************************)
EachInTurn == \A i, j \in DOMAIN turns : turns[i] = turns[j] => i = j

(***************************************************************************)
(* "Site unreachable, remove %s from load balancer": a host that was       *)
(* removed is not in the list.                                             *)
(***************************************************************************)
RemovedStaysOut == removed \cap Range(hosts) = {}
=============================================================================
