--------------------------- MODULE AclReplication ---------------------------
(***************************************************************************)
(* How the access control list stays the same on every node of a cluster:  *)
(* the admin handler doHandleAcl changes the list of its own node first    *)
(* and then appends the change to the raft log (cheryl/http_server.go);    *)
(* the FSM of every node, the handler's own included, applies the log      *)
(* (cheryl/fsm.go); snapshots are written from the live list               *)
(* (cheryl/snapshot.go); leadership opens and closes the write API         *)
(* (cheryl/raft.go).                                                       *)
(*                                                                         *)
(* Raft (hashicorp/raft) is external and modelled by what the gateway uses *)
(* of it: one committed log, applied in order by every node; Raft.Apply,   *)
(* which commits the entry or returns an error; snapshots and their        *)
(* installation on a node that is behind; leadership and its notification  *)
(* channel.  A node's list is the set of networks in Record (RadixTree     *)
(* models the tree).                                                       *)
(***************************************************************************)
EXTENDS Integers, Sequences, FiniteSets

CONSTANTS
    Nodes,        \* the gateways of the cluster
    ConfLeaders,  \* those configured with raft.leader: true
    Nets,         \* networks, as the strings the requests carry
    Clients,      \* admin requests in progress at a time
    Patterns,     \* request kinds: 0 deletes, 1 adds, others are not excluded
    MaxReqs,      \* bound: admin requests
    MaxTerms,     \* bound: elections
    MaxCrashes    \* bound: crashes

None == "none"
NoSnapshot == -1

ASSUME AclAssumption ==
    /\ None \notin Nodes
    /\ ConfLeaders \subseteq Nodes
    /\ Patterns \subseteq Nat
    /\ MaxReqs \in Nat /\ MaxTerms \in Nat /\ MaxCrashes \in Nat

VARIABLES
    log,       \* committed entries; after = the list once the entry is applied
    applied,   \* how much of the log the FSM of a node has applied
    record,    \* AccessControlList.Record of each node
    pend,      \* index of the snapshot being persisted
    snap,      \* the snapshot a node has on disk
    up,        \* running nodes
    leader,    \* the raft leader
    flag,      \* HttpServer.enableWrite
    notify,    \* leaderNotifych, the sends raft blocks on included
    h,         \* the doHandleAcl calls in progress
    nreqs, nterms, ncrashes,
    unlogged   \* history: networks a node changed locally with no entry to follow

raftVars == <<leader, flag, notify, nterms>>
vars == <<log, applied, record, pend, snap, up, h, nreqs, ncrashes, unlogged, raftVars>>

Idle == [pc |-> "idle", node |-> None, op |-> 0, net |-> None]
Busy == [pc : {"local", "log"}, node : Nodes, op : Patterns, net : Nets]
Entry == [op : Patterns, net : Nets, after : SUBSET Nets]

TypeOK ==
    /\ log \in Seq(Entry)
    /\ applied \in [Nodes -> Nat]
    /\ \A n \in Nodes : applied[n] <= Len(log)
    /\ record \in [Nodes -> SUBSET Nets]
    /\ pend \in [Nodes -> Nat \cup {NoSnapshot}]
    /\ snap \in [Nodes -> [index : Nat, rec : SUBSET Nets, unlogged : SUBSET Nets]]
    /\ up \in [Nodes -> BOOLEAN]
    /\ leader \in Nodes \cup {None}
    /\ flag \in [Nodes -> BOOLEAN]
    /\ notify \in [Nodes -> Seq(BOOLEAN)]
    /\ h \in [Clients -> {Idle} \cup Busy]
    /\ nreqs \in 0 .. MaxReqs /\ nterms \in 0 .. MaxTerms /\ ncrashes \in 0 .. MaxCrashes
    /\ unlogged \in [Nodes -> SUBSET Nets]

NewSnapshot == [index |-> 0, rec |-> {}, unlogged |-> {}]

Init ==
    /\ log = <<>>
    /\ applied = [n \in Nodes |-> 0]
    /\ record = [n \in Nodes |-> {}]
    /\ pend = [n \in Nodes |-> NoSnapshot]
    /\ snap = [n \in Nodes |-> NewSnapshot]
    /\ up = [n \in Nodes |-> TRUE]
    /\ leader = None
    /\ flag = [n \in Nodes |-> FALSE]
    /\ notify = [n \in Nodes |-> <<>>]
    /\ h = [c \in Clients |-> Idle]
    /\ nreqs = 0 /\ nterms = 0 /\ ncrashes = 0
    /\ unlogged = [n \in Nodes |-> {}]

-----------------------------------------------------------------------------
\* The list after i entries of the log.
ListAt(i) == IF i = 0 THEN {} ELSE log[i].after

\* doHandleAcl of the FSM, on a list S: a pattern other than 0 and 1 is ignored.
FsmApply(op, net, S) ==
    CASE op = 0 -> S \ {net}
      [] op = 1 -> S \cup {net}
      [] OTHER  -> S

\* doHandleAcl of the handler, on the local list: everything but 0 adds.
LocalApply(op, net, S) == IF op = 0 THEN S \ {net} ELSE S \cup {net}

-----------------------------------------------------------------------------
(***************************************************************************)
(* The handler.                                                            *)
(***************************************************************************)
\* checkWritePermission, and the request is decoded.
Request(c, n, op, net) ==
    /\ h[c].pc = "idle"
    /\ nreqs < MaxReqs
    /\ up[n] /\ flag[n]
    /\ nreqs' = nreqs + 1
    /\ h' = [h EXCEPT ![c] = [pc |-> "local", node |-> n, op |-> op, net |-> net]]
    /\ UNCHANGED <<log, applied, record, pend, snap, up, ncrashes, unlogged, raftVars>>

\* The local change; Delete fails for a network that is not listed.
WriteLocal(c) ==
    LET n == h[c].node
        refused == h[c].op = 0 /\ h[c].net \notin record[n]
    IN /\ h[c].pc = "local"
       /\ record' = [record EXCEPT ![n] = LocalApply(h[c].op, h[c].net, @)]
       /\ h' = [h EXCEPT ![c] = IF refused THEN Idle ELSE [@ EXCEPT !.pc = "log"]]
       /\ UNCHANGED <<log, applied, pend, snap, up, nreqs, ncrashes, unlogged, raftVars>>

\* writeLogEntry: Raft.Apply commits the entry.  The handler answers once its
\* own node has applied it, or with an error when leadership is lost before;
\* neither changes anything.
WriteLog(c) ==
    LET n == h[c].node
        after == FsmApply(h[c].op, h[c].net, ListAt(Len(log)))
    IN /\ h[c].pc = "log"
       /\ leader = n
       /\ log' = Append(log, [op |-> h[c].op, net |-> h[c].net, after |-> after])
       /\ unlogged' = IF h[c].op \in {0, 1} THEN unlogged
                      ELSE [unlogged EXCEPT ![n] = @ \cup {h[c].net}]
       /\ h' = [h EXCEPT ![c] = Idle]
       /\ UNCHANGED <<applied, record, pend, snap, up, nreqs, ncrashes, raftVars>>

\* Raft.Apply returns an error (not the leader, leadership lost, timeout) and
\* the entry is not committed: the handler reports it and undoes nothing.
WriteLogFails(c) ==
    /\ h[c].pc = "log"
    /\ unlogged' = [unlogged EXCEPT ![h[c].node] = @ \cup {h[c].net}]
    /\ h' = [h EXCEPT ![c] = Idle]
    /\ UNCHANGED <<log, applied, record, pend, snap, up, nreqs, ncrashes, raftVars>>

HandlerStep(c) == WriteLocal(c) \/ WriteLog(c) \/ WriteLogFails(c)

-----------------------------------------------------------------------------
(***************************************************************************)
(* The FSM.                                                                *)
(***************************************************************************)
\* Mutant: a node that is not the leader leaves the log alone.
Apply_LeaderOnly(n) ==
    LET e == log[applied[n] + 1]
    IN /\ up[n] /\ leader = n
       /\ applied[n] < Len(log)
       /\ applied' = [applied EXCEPT ![n] = @ + 1]
       /\ record' = [record EXCEPT ![n] = FsmApply(e.op, e.net, @)]
       /\ unlogged' = IF e.op \in {0, 1}
                      THEN [unlogged EXCEPT ![n] = @ \ {e.net}] ELSE unlogged
       /\ UNCHANGED <<log, pend, snap, up, h, nreqs, ncrashes, raftVars>>

\* Apply: the next committed entry.
Apply(n) ==
    LET e == log[applied[n] + 1]
    IN /\ up[n]
       /\ applied[n] < Len(log)
       /\ applied' = [applied EXCEPT ![n] = @ + 1]
       /\ record' = [record EXCEPT ![n] = FsmApply(e.op, e.net, @)]
       /\ unlogged' = IF e.op \in {0, 1}
                      THEN [unlogged EXCEPT ![n] = @ \ {e.net}] ELSE unlogged
       /\ UNCHANGED <<log, pend, snap, up, h, nreqs, ncrashes, raftVars>>

\* Snapshot returns pointers to the live state, labelled with the index
\* applied so far.
Snapshot(n) ==
    /\ up[n]
    /\ pend[n] = NoSnapshot
    /\ snap[n].index < applied[n]
    /\ pend' = [pend EXCEPT ![n] = applied[n]]
    /\ UNCHANGED <<log, applied, record, snap, up, h, nreqs, ncrashes, unlogged, raftVars>>

\* Networks that a handler of node n has written locally and not yet logged.
InFlight(n) == {h[c].net : c \in {d \in Clients : h[d].pc = "log" /\ h[d].node = n}}

\* Persist, in another goroutine, marshals the list as it is by then.
Persist(n) ==
    /\ up[n]
    /\ pend[n] # NoSnapshot
    /\ snap' = [snap EXCEPT ![n] = [index |-> pend[n], rec |-> record[n],
                                    unlogged |-> unlogged[n] \cup InFlight(n)]]
    /\ pend' = [pend EXCEPT ![n] = NoSnapshot]
    /\ UNCHANGED <<log, applied, record, up, h, nreqs, ncrashes, unlogged, raftVars>>

\* Mutant: Restore adds the networks of the snapshot to the tree that is there.
Restore_Merged(n, s) ==
    /\ record' = [record EXCEPT ![n] = @ \cup s.rec]
    /\ unlogged' = [unlogged EXCEPT ![n] = s.unlogged]
    /\ applied' = [applied EXCEPT ![n] = s.index]

\* Mutant: the node goes on after the entry that follows the snapshot.
Restore_OffByOne(n, s) ==
    /\ record' = [record EXCEPT ![n] = s.rec]
    /\ unlogged' = [unlogged EXCEPT ![n] = s.unlogged]
    /\ applied' = [applied EXCEPT ![n] = s.index + 1]

\* Restore: a new tree with the networks of the snapshot's Record.
Restore(n, s) ==
    /\ record' = [record EXCEPT ![n] = s.rec]
    /\ unlogged' = [unlogged EXCEPT ![n] = s.unlogged]
    /\ applied' = [applied EXCEPT ![n] = s.index]

\* Raft sends the leader's snapshot to a node that is behind; its own older
\* snapshot is dropped (the store keeps one), one being persisted too.
InstallSnapshot(n) ==
    /\ up[n] /\ leader \in Nodes \ {n}
    /\ applied[n] < snap[leader].index
    /\ Restore(n, snap[leader])
    /\ snap' = [snap EXCEPT ![n] = snap[leader]]
    /\ pend' = [pend EXCEPT ![n] = NoSnapshot]
    /\ UNCHANGED <<log, up, h, nreqs, ncrashes, raftVars>>

-----------------------------------------------------------------------------
(***************************************************************************)
(* Crashes and leadership.                                                 *)
(***************************************************************************)
Crash(n) ==
    /\ up[n]
    /\ ncrashes < MaxCrashes
    /\ ncrashes' = ncrashes + 1
    /\ up' = [up EXCEPT ![n] = FALSE]
    /\ leader' = IF leader = n THEN None ELSE leader
    /\ flag' = [flag EXCEPT ![n] = FALSE]
    /\ notify' = [notify EXCEPT ![n] = <<>>]
    /\ pend' = [pend EXCEPT ![n] = NoSnapshot]
    /\ h' = [c \in Clients |-> IF h[c].node = n THEN Idle ELSE h[c]]
    /\ record' = [record EXCEPT ![n] = {}]
    /\ unlogged' = [unlogged EXCEPT ![n] = {}]
    /\ UNCHANGED <<log, applied, snap, nreqs, nterms>>

\* Start: the list is empty, or what raft restores from the snapshot on disk.
Restart(n) ==
    /\ ~ up[n]
    /\ up' = [up EXCEPT ![n] = TRUE]
    /\ Restore(n, snap[n])
    /\ UNCHANGED <<log, pend, snap, h, nreqs, ncrashes, raftVars>>

\* Raft elects n; the old leader, if any, learns that it is not leader any more.
Elect(n) ==
    /\ up[n] /\ leader # n
    /\ nterms < MaxTerms
    /\ nterms' = nterms + 1
    /\ leader' = n
    /\ notify' = [m \in Nodes |-> CASE m = n -> Append(notify[m], TRUE)
                                    [] m # n /\ m = leader -> Append(notify[m], FALSE)
                                    [] OTHER -> notify[m]]
    /\ UNCHANGED <<log, applied, record, pend, snap, up, flag, h, nreqs, ncrashes, unlogged>>

\* The leader loses its quorum.
StepDown(n) ==
    /\ leader = n
    /\ leader' = None
    /\ notify' = [notify EXCEPT ![n] = Append(@, FALSE)]
    /\ UNCHANGED <<log, applied, record, pend, snap, up, flag, h, nreqs, nterms, ncrashes, unlogged>>

\* Mutant: the notification of a lost leadership is ignored.
WatchLeader_OnlyGains(n) ==
    /\ up[n] /\ notify[n] # <<>>
    /\ flag' = [flag EXCEPT ![n] = @ \/ Head(notify[n]) \/ n \in ConfLeaders]
    /\ notify' = [notify EXCEPT ![n] = Tail(@)]
    /\ UNCHANGED <<log, applied, record, pend, snap, up, leader, h, nreqs, nterms, ncrashes, unlogged>>

\* The goroutine of Start that ranges over leaderNotifych.
WatchLeader(n) ==
    /\ up[n] /\ notify[n] # <<>>
    /\ flag' = [flag EXCEPT ![n] = Head(notify[n]) \/ n \in ConfLeaders]
    /\ notify' = [notify EXCEPT ![n] = Tail(@)]
    /\ UNCHANGED <<log, applied, record, pend, snap, up, leader, h, nreqs, nterms, ncrashes, unlogged>>

NodeStep(n) ==
    \/ Apply(n) \/ Snapshot(n) \/ Persist(n) \/ InstallSnapshot(n)
    \/ Crash(n) \/ Restart(n) \/ Elect(n) \/ StepDown(n) \/ WatchLeader(n)

Next ==
    \/ \E c \in Clients, n \in Nodes, op \in Patterns, net \in Nets : Request(c, n, op, net)
    \/ \E c \in Clients : HandlerStep(c)
    \/ \E n \in Nodes : NodeStep(n)

Spec == Init /\ [][Next]_vars

\* Goroutines of a running node take their steps: handlers, the FSM, the
\* leader watch.  Snapshots, crashes, restarts and elections need not happen.
FairSpec ==
    /\ Spec
    /\ \A c \in Clients : WF_vars(HandlerStep(c))
    /\ \A n \in Nodes : WF_vars(Apply(n)) /\ WF_vars(WatchLeader(n))

-----------------------------------------------------------------------------
(***************************************************************************)
(* Nodes agree.  A node that has applied the whole log and has no handler  *)
(* between its local change and its log entry has exactly the networks of  *)
(* the log, however crashes, late snapshots and their installation were    *)
(* interleaved with the handlers; it differs only on networks whose local  *)
(* change never got an entry.                                              *)
(***************************************************************************)
ListsAgree ==
    \A n \in Nodes :
        (up[n] /\ applied[n] = Len(log) /\ InFlight(n) = {}) =>
            \A net \in Nets \ unlogged[n] : net \in record[n] <=> net \in ListAt(Len(log))

(***************************************************************************)
(* "become follower, disable write api": a node that has heard of its loss *)
(* of leadership refuses writes, unless it is configured as the leader.    *)
(***************************************************************************)
FollowersRefuseWrites ==
    \A n \in Nodes \ ConfLeaders :
        (up[n] /\ flag[n] /\ notify[n] = <<>>) => leader = n

(***************************************************************************)
(* A node that stays up ends with the list of the log, but for networks    *)
(* whose change was not logged: no handler and no entry is left behind.    *)
(***************************************************************************)
ListsConverge ==
    \A n \in Nodes :
        <>[]up[n] =>
            <>[](record[n] \ unlogged[n] = ListAt(Len(log)) \ unlogged[n])
=============================================================================
