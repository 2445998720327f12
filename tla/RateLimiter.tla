---------------------------- MODULE RateLimiter ----------------------------
(***************************************************************************)
(* The rate limiters of one HTTPProxy on one node: Methods, the limiter of *)
(* each path, and Limiters, the list in the ProxyMap from which a snapshot *)
(* restores them (reverse_proxy/http_proxy.go, reverse_proxy/proxyMap.go). *)
(*                                                                         *)
(* Goroutines: requests, which create the default limiter of a path at its *)
(* first access; the FSM, which applies the limits of the raft log; and    *)
(* admin handlers, which append a limit to the log while this node is the  *)
(* leader, wait until their own FSM has applied it and then set it once    *)
(* more.  Other entries of the log come from other leaders.  Methods is    *)
(* written under the lock of the proxy and read without it.                *)
(*                                                                         *)
(* A limit is a model value; Default is the unlimited one.  The tokens of  *)
(* a limiter (golang.org/x/time/rate) are not modelled.                    *)
(***************************************************************************)
EXTENDS Naturals, Sequences

CONSTANTS
    Paths,       \* paths below the pattern
    Limits,      \* rates and timeouts an admin may set
    Requests,    \* goroutines that serve requests
    Handlers,    \* goroutines in doSetRateLimiter
    MaxLog,      \* bound: entries of the log
    MaxRestarts, \* bound: restarts
    Default,     \* the qps limiter of configRate, with rate.Inf
    NoLimiter    \* nil

ASSUME RateLimiterAssumption ==
    /\ Default \notin Limits /\ NoLimiter \notin Limits \cup {Default}
    /\ MaxLog \in Nat /\ MaxRestarts \in Nat

VARIABLES
    methods,   \* HTTPProxy.Methods
    limiters,  \* ProxyMap.Limiters[pattern]
    log,       \* the limits committed to the raft log
    applied,   \* how many of them the FSM has applied
    req,       \* the path for which a request is about to call configRate, if any
    h,         \* doSetRateLimiter calls in progress
    pend,      \* index of the snapshot being persisted, if any
    snap,      \* the snapshot on disk
    restarts,
    late       \* history: paths a handler set after a later entry was applied

vars == <<methods, limiters, log, applied, req, h, pend, snap, restarts, late>>

Info == [path : Paths, limit : Limits \cup {Default}]
Limiter == Limits \cup {Default, NoLimiter}

TypeOK ==
    /\ methods \in [Paths -> Limiter]
    /\ limiters \in Seq(Info)
    /\ log \in Seq([path : Paths, limit : Limits])
    /\ applied \in 0 .. Len(log)
    /\ req \in [Requests -> SUBSET Paths]
    /\ h \in [Handlers -> 0 .. MaxLog]
    /\ pend \subseteq 0 .. MaxLog
    /\ snap.index \in 0 .. MaxLog /\ snap.limiters \in Seq(Info)
    /\ restarts \in 0 .. MaxRestarts
    /\ late \subseteq Paths

Init ==
    /\ methods = [p \in Paths |-> NoLimiter]
    /\ limiters = <<>>
    /\ log = <<>>
    /\ applied = 0
    /\ req = [r \in Requests |-> {}]
    /\ h = [a \in Handlers |-> 0]
    /\ pend = {}
    /\ snap = [index |-> 0, limiters |-> <<>>]
    /\ restarts = 0
    /\ late = {}

-----------------------------------------------------------------------------
\* Mutant: the limit is set and not recorded in the ProxyMap.
SetRateLimiter_NotRecorded(p, limit) ==
    /\ methods' = [methods EXCEPT ![p] = limit]
    /\ UNCHANGED limiters

\* SetRateLimiter, under the lock of the proxy: a new limiter, and its record.
SetRateLimiter(p, limit) ==
    /\ methods' = [methods EXCEPT ![p] = limit]
    /\ limiters' = Append(limiters, [path |-> p, limit |-> limit])

-----------------------------------------------------------------------------
(***************************************************************************)
(* invaildToken.                                                           *)
(***************************************************************************)
nodeVars == <<log, applied, h, pend, snap, restarts, late>>

\* Methods is read without the lock.  The limiter found there decides over the
\* request (Take, TakeWithTimeout): its tokens are not part of this state.
Take(r, p) ==
    /\ req[r] = {}
    /\ methods[p] # NoLimiter
    /\ UNCHANGED vars

\* There is no limiter yet.
ReadNoLimiter(r, p) ==
    /\ req[r] = {}
    /\ methods[p] = NoLimiter
    /\ req' = [req EXCEPT ![r] = {p}]
    /\ UNCHANGED <<methods, limiters, nodeVars>>

\* Mutant: configRate does not look again.
ConfigRate_Unchecked(r, p) ==
    /\ p \in req[r]
    /\ SetRateLimiter(p, Default)
    /\ req' = [req EXCEPT ![r] = {}]
    /\ UNCHANGED nodeVars

\* configRate, under the lock: the default limiter, if there still is none;
\* otherwise LimiterAlreadyExists, and the request is refused.
ConfigRate(r, p) ==
    /\ p \in req[r]
    /\ IF methods[p] = NoLimiter THEN SetRateLimiter(p, Default)
                                 ELSE UNCHANGED <<methods, limiters>>
    /\ req' = [req EXCEPT ![r] = {}]
    /\ UNCHANGED nodeVars

-----------------------------------------------------------------------------
(***************************************************************************)
(* Limits set by an admin.  h[a] is the index of the entry that handler a  *)
(* of this node has appended.                                              *)
(***************************************************************************)
WriteLogEntry(p, limit) ==
    /\ Len(log) < MaxLog
    /\ log' = Append(log, [path |-> p, limit |-> limit])

\* An entry of a handler of another node.
Replicate(p, limit) ==
    /\ WriteLogEntry(p, limit)
    /\ UNCHANGED <<methods, limiters, applied, req, h, pend, snap, restarts, late>>

Propose(a, p, limit) ==
    /\ h[a] = 0
    /\ WriteLogEntry(p, limit)
    /\ h' = [h EXCEPT ![a] = Len(log')]
    /\ UNCHANGED <<methods, limiters, applied, req, pend, snap, restarts, late>>

\* The entry is applied, Raft.Apply returns, the handler sets the limit itself.
SetAgain(a) ==
    /\ h[a] \in 1 .. applied
    /\ SetRateLimiter(log[h[a]].path, log[h[a]].limit)
    /\ h' = [h EXCEPT ![a] = 0]
    /\ late' = late \cup {log[i].path : i \in {j \in (h[a] + 1) .. applied :
                                                  log[j].path = log[h[a]].path}}
    /\ UNCHANGED <<log, applied, req, pend, snap, restarts>>

\* Raft.Apply returns an error although the entry is committed.
ProposeFails(a) ==
    /\ h[a] # 0
    /\ h' = [h EXCEPT ![a] = 0]
    /\ UNCHANGED <<methods, limiters, log, applied, req, pend, snap, restarts, late>>

\* doSetRateLimiter of the FSM.
Apply ==
    /\ applied < Len(log)
    /\ applied' = applied + 1
    /\ SetRateLimiter(log[applied'].path, log[applied'].limit)
    /\ UNCHANGED <<log, req, h, pend, snap, restarts, late>>

-----------------------------------------------------------------------------
(***************************************************************************)
(* Snapshots.  Persist marshals the ProxyMap as it is by then.             *)
(***************************************************************************)
Snapshot ==
    /\ pend = {} /\ snap.index < applied
    /\ pend' = {applied}
    /\ UNCHANGED <<methods, limiters, log, applied, req, h, snap, restarts, late>>

Persist ==
    /\ \E i \in pend : snap' = [index |-> i, limiters |-> limiters]
    /\ pend' = {}
    /\ UNCHANGED <<methods, limiters, log, applied, req, h, restarts, late>>

\* The limit a list of infos leaves for a path: the last one.
LastLimit(s, p) ==
    LET at == {i \in DOMAIN s : s[i].path = p}
    IN  IF at = {} THEN NoLimiter ELSE s[CHOOSE i \in at : \A j \in at : j <= i].limit

\* Mutant: the node goes on after the entry that follows the snapshot.
Restore_SkipsOne ==
    /\ methods' = [p \in Paths |-> LastLimit(snap.limiters, p)]
    /\ limiters' = snap.limiters \o snap.limiters
    /\ applied' = snap.index + 1

\* Restore: the proxy is built anew and SetRateLimiter called for each info of
\* the list; each call appends to the same list again.
Restore ==
    /\ methods' = [p \in Paths |-> LastLimit(snap.limiters, p)]
    /\ limiters' = snap.limiters \o snap.limiters
    /\ applied' = snap.index

\* A crash, and the start from the snapshot on disk.
Restart ==
    /\ restarts < MaxRestarts
    /\ restarts' = restarts + 1
    /\ Restore
    /\ req' = [r \in Requests |-> {}]
    /\ h' = [a \in Handlers |-> 0]
    /\ pend' = {}
    /\ UNCHANGED <<log, snap, late>>

Next ==
    \/ \E r \in Requests, p \in Paths : Take(r, p) \/ ReadNoLimiter(r, p) \/ ConfigRate(r, p)
    \/ \E p \in Paths, limit \in Limits : Replicate(p, limit)
    \/ \E a \in Handlers, p \in Paths, limit \in Limits : Propose(a, p, limit)
    \/ \E a \in Handlers : SetAgain(a) \/ ProposeFails(a)
    \/ Apply \/ Snapshot \/ Persist \/ Restart

Spec == Init /\ [][Next]_vars

-----------------------------------------------------------------------------
(***************************************************************************)
(* A snapshot restores the limits in force: at any time, replaying         *)
(* Limiters gives every path the limiter it has, although default limiters *)
(* are created by requests and restores repeat the list.                   *)
(***************************************************************************)
LimitersReproduce == \A p \in Paths : methods[p] = LastLimit(limiters, p)

(***************************************************************************)
(* A node that has applied the whole log limits every path as the last     *)
(* entry of the log for it says, unless a handler set the path late: no    *)
(* default limiter, restart or snapshot from a later moment replaces it.   *)
(***************************************************************************)
LoggedLimitInForce ==
    applied = Len(log) =>
        \A p \in Paths \ late :
            LastLimit(log, p) # NoLimiter => methods[p] = LastLimit(log, p)
=============================================================================
