-------------------------- MODULE ProxyReplication --------------------------
(***************************************************************************)
(* How the proxies of a cluster follow the raft log.  The admin handlers   *)
(* doAddProxy, doRemoveProxy, doAddHost and doRemoveHost change the        *)
(* ProxyMap of their own node first and append the change to the log       *)
(* afterwards (cheryl/http_server.go); so does the goroutine that watches  *)
(* the leadership, which creates the proxies of the configuration file     *)
(* (cheryl/raft.go).  The FSM of every node applies the log, snapshots are *)
(* written from the live ProxyMap and restored from its Locations alone    *)
(* (cheryl/fsm.go, cheryl/snapshot.go).                                    *)
(*                                                                         *)
(* What the two paths do is not the same: the handlers replace a proxy     *)
(* that exists, the FSM keeps it; RemoveHost may give up after 5 seconds   *)
(* on one node and not on another; for a pattern that is not there it      *)
(* dereferences nil, which net/http recovers in a handler and which ends   *)
(* the process in the FSM.                                                 *)
(*                                                                         *)
(* Raft (hashicorp/raft) is external, as in AclReplication.  RemoveHost    *)
(* and RemoveProxy are one step each: HTTPProxy models their waits, and    *)
(* Gateway the routes and a node whose router has not been started.        *)
(***************************************************************************)
EXTENDS Integers, Sequences

CONSTANTS
    Nodes,        \* the gateways of the cluster
    ConfLeaders,  \* those configured with raft.leader: true
    Patterns,     \* patterns of locations
    Hosts,        \* backend addresses
    Passes,       \* ProxyPass: the sets of hosts a location may be created with
    Conf,         \* the location in the configuration file of a node, if any
    Clients,      \* admin requests in progress at a time
    Asked,        \* the changes they ask for
    MaxReqs,      \* bound: admin requests
    MaxTerms,     \* bound: elections
    MaxCrashes,   \* bound: crashes other than those of the FSM
    MaxSnaps,     \* bound: snapshots taken
    MaxEvents     \* bound: elections, crashes and snapshots together

None == "none"
NoSnapshot == -1
NoProxy == [made |-> {}, hosts |-> {}, shut |-> {}, is |-> FALSE]

\* What a request or a log entry asks for; arg is the ProxyPass of a location,
\* the host to add or to remove, or nothing.
Change ==
    [op : {"addProxy"}, pat : Patterns, arg : Passes]
        \cup [op : {"addHost", "removeHost"}, pat : Patterns, arg : {{x} : x \in Hosts}]
        \cup [op : {"removeProxy"}, pat : Patterns, arg : {{}}]

ASSUME ProxyReplicationAssumption ==
    /\ None \notin Nodes /\ Clients \cap Nodes = {}
    /\ ConfLeaders \subseteq Nodes
    /\ Passes \subseteq SUBSET Hosts
    /\ Conf \in [Nodes -> SUBSET {ch \in Change : ch.op = "addProxy"}]
    /\ \A n \in Nodes : \A a, b \in Conf[n] : a = b
    /\ Asked \subseteq Change
    /\ MaxReqs \in Nat /\ MaxTerms \in Nat /\ MaxCrashes \in Nat /\ MaxSnaps \in Nat
    /\ MaxEvents \in Nat

VARIABLES
    log,       \* committed entries; after = the proxies once the entry is applied
    applied,   \* how much of the log the FSM of a node has applied
    relations, \* ProxyMap of each node: Relations and Locations
    pend,      \* index of the snapshot being persisted
    snap,      \* the snapshot a node has on disk
    up,        \* running nodes
    fresh,     \* nodes in their first process: the data directory was not there
    leader,    \* the raft leader
    flag,      \* HttpServer.enableWrite
    notify,    \* leaderNotifych, the sends raft blocks on included
    h,         \* changes made locally and not yet logged, by an admin request or by
               \* the leader watch of a node
    nreqs, nterms, ncrashes, nsnaps,
    unlogged,  \* history: patterns a node added or removed with no entry to follow
    drift      \* history: patterns whose hosts have left the log, see Departs

nodeVars == <<relations, unlogged, drift>>
snapVars == <<pend, snap, nsnaps>>
raftVars == <<leader, notify, nterms>>
bounds == <<nreqs, ncrashes>>
vars == <<log, applied, nodeVars, snapVars, up, fresh, flag, raftVars, h, bounds>>

Procs == Clients \cup Nodes
Idle == [node |-> None, ch |-> {}]
Busy == [node : Nodes, ch : {{ch} : ch \in Change}]

\* made: Locations[pattern].ProxyPass; hosts: HostMap; shut: the keys of
\* HostsShutDown, which RemoveHost does not delete.
Proxy == [made : SUBSET Hosts, hosts : SUBSET Hosts, shut : SUBSET Hosts, is : BOOLEAN]
Map == [Patterns -> Proxy]
Empty == [p \in Patterns |-> NoProxy]

TypeOK ==
    /\ log \in Seq([ch : Change, after : Map])
    /\ applied \in [Nodes -> 0 .. Len(log)]
    /\ relations \in [Nodes -> Map]
    /\ \A n \in Nodes, p \in Patterns :
          LET r == relations[n][p] IN r.made \cup r.hosts \subseteq r.shut /\ (~ r.is => r = NoProxy)
    /\ pend \in [Nodes -> Nat \cup {NoSnapshot}]
    /\ snap \in [Nodes -> [index : Nat, made : Map, unlogged : SUBSET Patterns,
                           drift : SUBSET Patterns]]
    /\ up \in [Nodes -> BOOLEAN] /\ fresh \in [Nodes -> BOOLEAN]
    /\ leader \in Nodes \cup {None}
    /\ flag \in [Nodes -> BOOLEAN]
    /\ notify \in [Nodes -> Seq(BOOLEAN)]
    /\ h \in [Procs -> {Idle} \cup Busy]
    /\ nreqs \in 0 .. MaxReqs /\ nterms \in 0 .. MaxTerms /\ ncrashes \in 0 .. MaxCrashes
    /\ nsnaps \in 0 .. MaxSnaps
    /\ unlogged \in [Nodes -> SUBSET Patterns] /\ drift \in [Nodes -> SUBSET Patterns]

\* Bounds the length of a behaviour, not what the cluster may do.
MoreEvents == nterms + ncrashes + nsnaps < MaxEvents

NewSnapshot == [index |-> 0, made |-> Empty, unlogged |-> {}, drift |-> {}]

Init ==
    /\ log = <<>>
    /\ applied = [n \in Nodes |-> 0]
    /\ relations = [n \in Nodes |-> Empty]
    /\ pend = [n \in Nodes |-> NoSnapshot]
    /\ snap = [n \in Nodes |-> NewSnapshot]
    /\ up = [n \in Nodes |-> TRUE] /\ fresh = [n \in Nodes |-> TRUE]
    /\ leader = None
    /\ flag = [n \in Nodes |-> FALSE]
    /\ notify = [n \in Nodes |-> <<>>]
    /\ h = [c \in Procs |-> Idle]
    /\ nreqs = 0 /\ nterms = 0 /\ ncrashes = 0 /\ nsnaps = 0
    /\ unlogged = [n \in Nodes |-> {}] /\ drift = [n \in Nodes |-> {}]

-----------------------------------------------------------------------------
(***************************************************************************)
(* The operations of the ProxyMap, on a map M.                             *)
(***************************************************************************)
\* AddProxyWithLocation: a new HTTPProxy for the pattern, over an existing one.
AddProxyWithLocation(M, p, pass) ==
    [M EXCEPT ![p] = [made |-> pass, hosts |-> pass, shut |-> pass, is |-> TRUE]]

\* Mutant: the host gets no channel in HostsShutDown.
AddProxy_NoChannel(M, p, hs) ==
    IF M[p].is THEN [M EXCEPT ![p].hosts = @ \cup hs] ELSE M

\* AddProxy: an error for a pattern that is not there; Locations is not changed.
AddProxy(M, p, hs) ==
    IF M[p].is THEN [M EXCEPT ![p].hosts = @ \cup hs, ![p].shut = @ \cup hs] ELSE M

RemoveProxy(M, p) == [M EXCEPT ![p] = NoProxy]

\* RemoveHost, once a health check has received the stop: Locations is not changed.
RemoveHost(M, p, hs) == [M EXCEPT ![p].hosts = @ \ hs]

\* Apply of the FSM, with a RemoveHost that succeeds.
FsmApply(M, ch) ==
    CASE ch.op = "addProxy"    -> IF M[ch.pat].is THEN M
                                  ELSE AddProxyWithLocation(M, ch.pat, ch.arg)
      [] ch.op = "removeProxy" -> RemoveProxy(M, ch.pat)
      [] ch.op = "addHost"     -> AddProxy(M, ch.pat, ch.arg)
      [] ch.op = "removeHost"  -> RemoveHost(M, ch.pat, ch.arg)

\* What a handler does.
LocalApply(M, ch) ==
    IF ch.op = "addProxy" THEN AddProxyWithLocation(M, ch.pat, ch.arg) ELSE FsmApply(M, ch)

\* The proxies after i entries of the log.
MapAt(i) == IF i = 0 THEN Empty ELSE log[i].after

-----------------------------------------------------------------------------
(***************************************************************************)
(* The handlers, and createProxy of the leader watch.                      *)
(***************************************************************************)
\* The first half of a handler, on the ProxyMap of its own node.
LocalChange(n, ch) ==
    /\ relations' = [relations EXCEPT ![n] = LocalApply(@, ch)]
    /\ drift' = IF ch.op = "addProxy" /\ relations[n][ch.pat].is
                THEN [drift EXCEPT ![n] = @ \cup {ch.pat}] ELSE drift

\* A handler up to its local change.  Only doAddProxy asks checkWritePermission:
\* the others run on every node.  RemoveHost needs a health check to receive
\* its stop; there may be one for a host that is no longer in HostMap.
\* Otherwise the handler ends and changes nothing: no permission, no such
\* pattern (an error, or the panic of RemoveHost, which net/http recovers), or
\* the timeout of RemoveHost, at any time.
Request(c, n, ch) ==
    /\ h[c] = Idle
    /\ nreqs < MaxReqs
    /\ up[n]
    /\ IF ch.op = "addProxy" THEN flag[n] ELSE relations[n][ch.pat].is
    /\ ch.op = "removeHost" => ch.arg \subseteq relations[n][ch.pat].shut
    /\ LocalChange(n, ch)
    /\ nreqs' = nreqs + 1
    /\ h' = [h EXCEPT ![c] = [node |-> n, ch |-> {ch}]]
    /\ UNCHANGED <<log, applied, unlogged, snapVars, up, fresh, flag, raftVars, ncrashes>>

\* The handler answers; the leader watch opens the write API after createProxy.
Return(c) ==
    /\ h' = [h EXCEPT ![c] = Idle]
    /\ flag' = IF c \in Nodes THEN [flag EXCEPT ![c] = TRUE] ELSE flag

\* writeLogEntry: Raft.Apply commits the entry.
WriteLog(c) ==
    \E ch \in h[c].ch :
        /\ leader = h[c].node
        /\ log' = Append(log, [ch |-> ch, after |-> FsmApply(MapAt(Len(log)), ch)])
        /\ Return(c)
        /\ UNCHANGED <<applied, nodeVars, snapVars, up, fresh, raftVars, bounds>>

\* Raft.Apply returns an error (not the leader, leadership lost, timeout) and
\* the entry is not committed: nothing is undone, and createProxyWithLocation
\* does not even report it.
WriteLogFails(c) ==
    \E ch \in h[c].ch :
        /\ unlogged' = IF ch.op \in {"addProxy", "removeProxy"}
                       THEN [unlogged EXCEPT ![h[c].node] = @ \cup {ch.pat}] ELSE unlogged
        /\ drift' = [drift EXCEPT ![h[c].node] = @ \cup {ch.pat}]
        /\ Return(c)
        /\ UNCHANGED <<log, applied, relations, snapVars, up, fresh, raftVars, bounds>>

HandlerStep(c) == WriteLog(c) \/ WriteLogFails(c)

-----------------------------------------------------------------------------
(***************************************************************************)
(* The FSM.                                                                *)
(***************************************************************************)
Behind(n) == up[n] /\ applied[n] < Len(log)
NextChange(n) == log[applied[n] + 1].ch

\* RemoveHost reads HostsShutDown of a proxy that is not in Relations.
Panics(n) ==
    Behind(n) /\ NextChange(n).op = "removeHost" /\ ~ relations[n][NextChange(n).pat].is

\* An entry that makes the hosts of a pattern differ from those of the log: the
\* node has a proxy that the log creates only now, from another location, or
\* never created; or its RemoveHost times out.
Departs(n, ch, timeout) ==
    \/ /\ relations[n][ch.pat].is /\ ~ MapAt(applied[n])[ch.pat].is
       /\ \/ ch.op = "addProxy" /\ relations[n][ch.pat].made # ch.arg
          \/ ch.op \in {"addHost", "removeHost"}
    \/ timeout /\ ch.arg \cap relations[n][ch.pat].hosts # {}

\* History: what an applied entry settles.
Settle(n, ch, timeout) ==
    /\ unlogged' = IF ch.op \in {"addProxy", "removeProxy"}
                   THEN [unlogged EXCEPT ![n] = @ \ {ch.pat}] ELSE unlogged
    /\ drift' = CASE ch.op = "removeProxy"    -> [drift EXCEPT ![n] = @ \ {ch.pat}]
                  [] Departs(n, ch, timeout)  -> [drift EXCEPT ![n] = @ \cup {ch.pat}]
                  [] OTHER                    -> drift

\* Mutant: a node that is not the leader leaves the log alone.
Apply_LeaderOnly(n) ==
    /\ Behind(n) /\ ~ Panics(n)
    /\ applied' = [applied EXCEPT ![n] = @ + 1]
    /\ relations' = IF leader = n
                    THEN [relations EXCEPT ![n] = FsmApply(@, NextChange(n))] ELSE relations
    /\ Settle(n, NextChange(n), FALSE)
    /\ UNCHANGED <<log, snapVars, up, fresh, flag, raftVars, h, bounds>>

\* Apply: the next committed entry.
Apply(n) ==
    /\ Behind(n) /\ ~ Panics(n)
    /\ applied' = [applied EXCEPT ![n] = @ + 1]
    /\ relations' = [relations EXCEPT ![n] = FsmApply(@, NextChange(n))]
    /\ Settle(n, NextChange(n), FALSE)
    /\ UNCHANGED <<log, snapVars, up, fresh, flag, raftVars, h, bounds>>

\* "shut down reverproxy timeout": the error goes back to raft, the host stays.
ApplyTimeout(n) ==
    /\ Behind(n) /\ ~ Panics(n)
    /\ NextChange(n).op = "removeHost"
    /\ applied' = [applied EXCEPT ![n] = @ + 1]
    /\ Settle(n, NextChange(n), TRUE)
    /\ UNCHANGED <<log, relations, snapVars, up, fresh, flag, raftVars, h, bounds>>

\* Snapshot returns a pointer to the live ProxyMap, labelled with the index
\* applied so far.
Snapshot(n) ==
    /\ up[n]
    /\ pend[n] = NoSnapshot
    /\ snap[n].index < applied[n]
    /\ nsnaps < MaxSnaps /\ MoreEvents
    /\ nsnaps' = nsnaps + 1
    /\ pend' = [pend EXCEPT ![n] = applied[n]]
    /\ UNCHANGED <<log, applied, nodeVars, snap, up, fresh, flag, raftVars, h, bounds>>

\* Patterns that node n has added or removed and not yet logged.
InFlight(n) ==
    {p \in Patterns : \E c \in Procs : \E ch \in h[c].ch :
        /\ h[c].node = n
        /\ ch.pat = p /\ ch.op \in {"addProxy", "removeProxy"}}

\* The proxies that Restore makes of the Locations of M.
FromLocations(M) ==
    [p \in Patterns |-> IF M[p].is THEN AddProxyWithLocation(Empty, p, M[p].made)[p] ELSE NoProxy]

\* Persist, in another goroutine, marshals the map as it is by then: Relations
\* is not marshalled (json:"-"), Locations is.
Persist(n) ==
    /\ up[n]
    /\ pend[n] # NoSnapshot
    /\ snap' = [snap EXCEPT ![n] =
                   [index |-> pend[n], made |-> FromLocations(relations[n]),
                    unlogged |-> unlogged[n] \cup InFlight(n),
                    drift |-> drift[n] \cup InFlight(n)]]
    /\ pend' = [pend EXCEPT ![n] = NoSnapshot]
    /\ UNCHANGED <<log, applied, nodeVars, nsnaps, up, fresh, flag, raftVars, h, bounds>>

\* Patterns whose hosts a snapshot forgets: they changed after the creation.
Forgotten(s) ==
    {p \in Patterns : s.made[p].is /\ MapAt(s.index)[p].is
                         /\ s.made[p].hosts # MapAt(s.index)[p].hosts}

\* Mutant: the proxies are not created again.
Restore_NoProxies(n, s) ==
    /\ relations' = [relations EXCEPT ![n] = Empty]
    /\ unlogged' = [unlogged EXCEPT ![n] = s.unlogged]
    /\ drift' = [drift EXCEPT ![n] = s.drift \cup Forgotten(s)]
    /\ applied' = [applied EXCEPT ![n] = s.index]

\* Mutant: the node goes on after the entry that follows the snapshot.
Restore_OffByOne(n, s) ==
    /\ relations' = [relations EXCEPT ![n] = s.made]
    /\ unlogged' = [unlogged EXCEPT ![n] = s.unlogged]
    /\ drift' = [drift EXCEPT ![n] = s.drift \cup Forgotten(s)]
    /\ applied' = [applied EXCEPT ![n] = IF s.index < Len(log) THEN s.index + 1 ELSE s.index]

\* Restore: new Relations, one AddProxyWithLocation for each of Locations.
Restore(n, s) ==
    /\ relations' = [relations EXCEPT ![n] = s.made]
    /\ unlogged' = [unlogged EXCEPT ![n] = s.unlogged]
    /\ drift' = [drift EXCEPT ![n] = s.drift \cup Forgotten(s)]
    /\ applied' = [applied EXCEPT ![n] = s.index]

\* Raft sends the leader's snapshot to a node that is behind.
InstallSnapshot(n) ==
    /\ up[n] /\ leader \in Nodes \ {n}
    /\ applied[n] < snap[leader].index
    /\ Restore(n, snap[leader])
    /\ snap' = [snap EXCEPT ![n] = snap[leader]]
    /\ pend' = [pend EXCEPT ![n] = NoSnapshot]
    /\ UNCHANGED <<log, nsnaps, up, fresh, flag, raftVars, h, bounds>>

-----------------------------------------------------------------------------
(***************************************************************************)
(* Crashes and leadership.                                                 *)
(***************************************************************************)
\* The process of n ends.
Die(n) ==
    /\ up' = [up EXCEPT ![n] = FALSE]
    /\ fresh' = [fresh EXCEPT ![n] = FALSE]
    /\ leader' = IF leader = n THEN None ELSE leader
    /\ flag' = [flag EXCEPT ![n] = FALSE]
    /\ notify' = [notify EXCEPT ![n] = <<>>]
    /\ pend' = [pend EXCEPT ![n] = NoSnapshot]
    /\ h' = [c \in Procs |-> IF h[c].node = n THEN Idle ELSE h[c]]
    /\ relations' = [relations EXCEPT ![n] = Empty]
    /\ unlogged' = [unlogged EXCEPT ![n] = {}] /\ drift' = [drift EXCEPT ![n] = {}]
    /\ UNCHANGED <<log, applied, snap, nsnaps, nreqs, nterms>>

Crash(n) ==
    /\ up[n]
    /\ ncrashes < MaxCrashes /\ MoreEvents
    /\ ncrashes' = ncrashes + 1
    /\ Die(n)

\* The nil dereference of RemoveHost, in the goroutine of the FSM.  The entry
\* stays in the log: the node meets it again after a restart.
FsmPanic(n) ==
    /\ Panics(n)
    /\ Die(n)
    /\ UNCHANGED ncrashes

\* Start: what raft restores from the snapshot on disk.
Restart(n) ==
    /\ ~ up[n]
    /\ up' = [up EXCEPT ![n] = TRUE]
    /\ Restore(n, snap[n])
    /\ UNCHANGED <<log, snapVars, fresh, flag, raftVars, h, bounds>>

\* Raft elects n; the old leader, if any, learns that it is not leader any more.
Elect(n) ==
    /\ up[n] /\ leader # n
    /\ nterms < MaxTerms /\ MoreEvents
    /\ nterms' = nterms + 1
    /\ leader' = n
    /\ notify' = [m \in Nodes |-> CASE m = n -> Append(notify[m], TRUE)
                                    [] m # n /\ m = leader -> Append(notify[m], FALSE)
                                    [] OTHER -> notify[m]]
    /\ UNCHANGED <<log, applied, nodeVars, snapVars, up, fresh, flag, h, bounds>>

\* The leader loses its quorum.
StepDown(n) ==
    /\ leader = n
    /\ leader' = None
    /\ notify' = [notify EXCEPT ![n] = Append(@, FALSE)]
    /\ UNCHANGED <<log, applied, nodeVars, snapVars, up, fresh, flag, h, nterms, bounds>>

Leads(n) == Head(notify[n]) \/ n \in ConfLeaders

\* The goroutine of Start that ranges over leaderNotifych ...
WatchLeader(n) ==
    /\ up[n] /\ notify[n] # <<>> /\ h[n] = Idle
    /\ ~ (Leads(n) /\ fresh[n] /\ Conf[n] # {})
    /\ notify' = [notify EXCEPT ![n] = Tail(@)]
    /\ flag' = [flag EXCEPT ![n] = Leads(n)]
    /\ UNCHANGED <<log, applied, nodeVars, snapVars, up, fresh, leader, nterms, h, bounds>>

\* ... which in the first process of a node creates the configured proxy, at
\* each such notification, before the write API opens.
CreateProxy(n) ==
    /\ up[n] /\ notify[n] # <<>> /\ h[n] = Idle
    /\ Leads(n) /\ fresh[n]
    /\ \E ch \in Conf[n] : LocalChange(n, ch)
    /\ notify' = [notify EXCEPT ![n] = Tail(@)]
    /\ h' = [h EXCEPT ![n] = [node |-> n, ch |-> Conf[n]]]
    /\ UNCHANGED <<log, applied, unlogged, snapVars, up, fresh, flag, leader, nterms, bounds>>

NodeStep(n) ==
    \/ Apply(n) \/ ApplyTimeout(n) \/ FsmPanic(n) \/ Snapshot(n) \/ Persist(n)
    \/ InstallSnapshot(n) \/ Crash(n) \/ Restart(n) \/ Elect(n) \/ StepDown(n)
    \/ WatchLeader(n) \/ CreateProxy(n)

Next ==
    \/ \E c \in Clients, n \in Nodes, ch \in Asked : Request(c, n, ch)
    \/ \E c \in Procs : HandlerStep(c)
    \/ \E n \in Nodes : NodeStep(n)

Spec == Init /\ [][Next]_vars

-----------------------------------------------------------------------------
\* A node with nothing left to do: no entry to apply, no change in progress.
Settled(n) ==
    up[n] /\ applied[n] = Len(log) /\ \A c \in Procs : h[c].node # n

(***************************************************************************)
(* Nodes agree on the proxies that exist.  A node that has applied the     *)
(* whole log has a proxy for exactly the patterns of the log, whatever the *)
(* order of the handlers' local changes, their entries, snapshots taken in *)
(* between, crashes and elections; the patterns it added or removed with   *)
(* an entry that failed are the only exception.                            *)
(***************************************************************************)
PatternsAgree ==
    \A n \in Nodes : Settled(n) =>
        \A p \in Patterns \ unlogged[n] : relations[n][p].is <=> MapAt(Len(log))[p].is

(***************************************************************************)
(* ... and on their hosts, with the exceptions that drift records: a       *)
(* handler or the leader watch replaced an existing proxy, which the FSM   *)
(* does not; the local change came before an entry of another handler that *)
(* presupposes it or contradicts it; RemoveHost timed out; a change was    *)
(* not logged; a snapshot was restored, whose Locations have the hosts of  *)
(* the creation only.  Removing the proxy through the log ends all of them.*)
(***************************************************************************)
HostsAgree ==
    \A n \in Nodes : Settled(n) =>
        \A p \in Patterns \ (drift[n] \cup unlogged[n]) :
            relations[n][p].hosts = MapAt(Len(log))[p].hosts

(***************************************************************************)
(* The FSM ends the process only at a RemoveHost entry that a removal of   *)
(* the same proxy has met: one that was logged before it, that was not     *)
(* logged, or that is later in the log or on its way there and has already *)
(* been made on this node (by its own handler, or in the snapshot it       *)
(* restored).                                                              *)
(***************************************************************************)
PanicsNeedRemoval ==
    \A n \in Nodes : Panics(n) =>
        LET p == NextChange(n).pat
        IN \/ ~ MapAt(applied[n])[p].is
           \/ p \in unlogged[n] \cup InFlight(n)
           \/ \E k \in applied[n] + 2 .. Len(log) :
                 log[k].ch.op = "removeProxy" /\ log[k].ch.pat = p
=============================================================================
