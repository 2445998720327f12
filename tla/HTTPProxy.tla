----------------------------- MODULE HTTPProxy -----------------------------
(***************************************************************************)
(* The life of one HTTPProxy, the object behind one route pattern of the   *)
(* gateway (reverse_proxy/http_proxy.go), from NewHTTPProxy until the      *)
(* goroutine shutDownCheck has told its health checks to stop.             *)
(*                                                                         *)
(* Goroutines:                                                             *)
(*   - one health check per host and per AddProxy call, chk[<<h, k>>];     *)
(*   - the admin calls of the HTTP API and of the raft FSM (Callers), which *)
(*     run AddProxy, RemoveHost, RemoveProxy and ChangeLb concurrently:    *)
(*     only RemoveProxy takes the mutex of the ProxyMap;                   *)
(*   - shutDownCheck, sd.                                                  *)
(*                                                                         *)
(* A Go map lookup, a map write, a Balancer call (under the balancer's own *)
(* mutex), a dial and a channel rendezvous are each one step.  The dial    *)
(* reads the environment (backendUp).  Time is abstracted: the ticker may  *)
(* fire whenever a health check selects, the 5s timer of RemoveHost        *)
(* whenever it waits.                                                      *)
(*                                                                         *)
(* lb is the set of hosts in the balancer's rotation, as in Balancer, which *)
(* RoundRobin implements for a location without repeated hosts.  A call on *)
(* the balancer that ChangeLb has just replaced is the call made just      *)
(* before the swap.                                                        *)
(*                                                                         *)
(* The Go runtime may abort the process when it notices two goroutines in  *)
(* the same map; a behaviour then ends where the model would go on.        *)
(***************************************************************************)
EXTENDS Naturals, FiniteSets

CONSTANTS
    Hosts,      \* backend addresses, as utils.GetHost returns them
    InitHosts,  \* the ProxyPass list of the location the proxy is built from
    Callers,    \* goroutines that run admin calls
    Ops,        \* the admin calls they run
    MaxCalls    \* bound: admin calls in a behaviour

AllOps == {"addHost", "removeHost", "removeProxy", "changeLb"}

ASSUME HTTPProxyAssumption ==
    /\ InitHosts \subseteq Hosts
    /\ Ops \subseteq AllOps
    /\ MaxCalls \in Nat
    /\ "none" \notin Callers

VARIABLES
    hostMap,     \* HTTPProxy.HostMap: the hosts that have a reverse proxy
    alive,       \* HTTPProxy.Alive; a host without an entry reads false
    shut,        \* HTTPProxy.HostsShutDown: the n-th channel made for a host, 0 = nil
    lb,          \* HTTPProxy.Lb
    registered,  \* ProxyMap.Relations has the pattern, and so has the router
    lock,        \* holder of ProxyMap's mutex
    chk,         \* the health check goroutines
    spawned,     \* how many health checks were started for each host
    sd,          \* the goroutine shutDownCheck
    call,        \* the admin calls in progress
    ncalls,      \* admin calls made so far
    backendUp,   \* which backends accept a TCP connection (environment)
    deleted,     \* history: hosts that a RemoveHost call has deleted
    touched      \* history: hosts added by AddProxy; all hosts after a ChangeLb

vars == <<hostMap, alive, shut, lb, registered, lock, chk, spawned, sd, call,
          ncalls, backendUp, deleted, touched>>

Gens == 1 .. (MaxCalls + 1)
CheckIds == Hosts \X Gens

CheckPCs == {"none", "enter", "select", "readDown", "setDead", "lbRemove", "dialAgain",
             "readUp", "setAlive", "lbAdd", "exited"}
Running == CheckPCs \ {"none", "exited"}
CallPCs == {"idle", "map", "alive", "chan", "lbAdd", "spawn",      \* AddProxy
            "pick", "send", "delete",                              \* RemoveHost
            "lock", "lookup", "signal", "unregister",              \* RemoveProxy
            "list", "swap"}                                        \* ChangeLb

Idle == [pc |-> "idle", host |-> "none", ch |-> 0, hosts |-> {}]

Busy == [pc : CallPCs \ {"idle"}, host : Hosts, ch : Nat, hosts : SUBSET Hosts]

TypeOK ==
    /\ hostMap \subseteq Hosts
    /\ alive \in [Hosts -> BOOLEAN]
    /\ shut \in [Hosts -> Nat]
    /\ lb \subseteq Hosts
    /\ registered \in BOOLEAN
    /\ lock \in Callers \cup {"none"}
    /\ chk \in [CheckIds -> [pc : CheckPCs, ch : Nat]]
    /\ spawned \in [Hosts -> 0 .. (MaxCalls + 1)]
    /\ sd \in [pc : {"wait", "range", "send", "done"}, todo : SUBSET Hosts,
               seen : SUBSET Hosts, host : Hosts \cup {"none"}, ch : Nat]
    /\ call \in [Callers -> {Idle} \cup Busy]
    /\ ncalls \in 0 .. MaxCalls
    /\ backendUp \in [Hosts -> BOOLEAN]
    /\ deleted \subseteq Hosts /\ touched \subseteq Hosts

(***************************************************************************)
(* NewHTTPProxy and AddRelations: every host of the location is alive, has *)
(* a reverse proxy, a shutdown channel and a health check, and is in the   *)
(* rotation.                                                               *)
(***************************************************************************)
Init ==
    /\ hostMap = InitHosts
    /\ alive = [h \in Hosts |-> h \in InitHosts]
    /\ shut = [h \in Hosts |-> IF h \in InitHosts THEN 1 ELSE 0]
    /\ lb = InitHosts
    /\ registered = TRUE
    /\ lock = "none"
    /\ chk = [c \in CheckIds |->
                 IF c[1] \in InitHosts /\ c[2] = 1
                 THEN [pc |-> "enter", ch |-> 0]
                 ELSE [pc |-> "none", ch |-> 0]]
    /\ spawned = [h \in Hosts |-> IF h \in InitHosts THEN 1 ELSE 0]
    /\ sd = [pc |-> "wait", todo |-> {}, seen |-> {}, host |-> "none", ch |-> 0]
    /\ call = [p \in Callers |-> Idle]
    /\ ncalls = 0
    /\ backendUp = [h \in Hosts |-> TRUE]
    /\ deleted = {} /\ touched = {}

-----------------------------------------------------------------------------
(***************************************************************************)
(* healthCheck(host).                                                      *)
(***************************************************************************)
Goto(c, pc) == chk' = [chk EXCEPT ![c].pc = pc]

proxyVars == <<hostMap, shut, registered, lock, spawned, sd, call, ncalls, deleted, touched>>

\* The select statement reads HostsShutDown[host] anew each time it is entered
\* and then waits on that channel.
EnterSelect(c) ==
    /\ chk[c].pc = "enter"
    /\ chk' = [chk EXCEPT ![c] = [pc |-> "select", ch |-> shut[c[1]]]]
    /\ UNCHANGED <<proxyVars, alive, lb, backendUp>>

\* The ticker fires and IsBackendAlive dials for the first condition.
Tick(c) ==
    /\ chk[c].pc = "select"
    /\ Goto(c, IF backendUp[c[1]] THEN "dialAgain" ELSE "readDown")
    /\ UNCHANGED <<proxyVars, alive, lb, backendUp>>

\* !IsBackendAlive(host) held: ReadAlive decides between the two branches.
ReadDown(c) ==
    /\ chk[c].pc = "readDown"
    /\ Goto(c, IF alive[c[1]] THEN "setDead" ELSE "dialAgain")
    /\ UNCHANGED <<proxyVars, alive, lb, backendUp>>

\* Mutant: the host is marked dead and left in the rotation.
SetDead_NoRemove(c) ==
    /\ chk[c].pc = "setDead"
    /\ alive' = [alive EXCEPT ![c[1]] = FALSE]
    /\ Goto(c, "enter")
    /\ UNCHANGED <<proxyVars, lb, backendUp>>

SetDead(c) ==
    /\ chk[c].pc = "setDead"
    /\ alive' = [alive EXCEPT ![c[1]] = FALSE]
    /\ Goto(c, "lbRemove")
    /\ UNCHANGED <<proxyVars, lb, backendUp>>

LbRemove(c) ==
    /\ chk[c].pc = "lbRemove"
    /\ lb' = lb \ {c[1]}
    /\ Goto(c, "enter")
    /\ UNCHANGED <<proxyVars, alive, backendUp>>

\* The else-if dials a second time.
DialAgain(c) ==
    /\ chk[c].pc = "dialAgain"
    /\ Goto(c, IF backendUp[c[1]] THEN "readUp" ELSE "enter")
    /\ UNCHANGED <<proxyVars, alive, lb, backendUp>>

ReadUp(c) ==
    /\ chk[c].pc = "readUp"
    /\ Goto(c, IF alive[c[1]] THEN "enter" ELSE "setAlive")
    /\ UNCHANGED <<proxyVars, alive, lb, backendUp>>

SetAlive(c) ==
    /\ chk[c].pc = "setAlive"
    /\ alive' = [alive EXCEPT ![c[1]] = TRUE]
    /\ Goto(c, "lbAdd")
    /\ UNCHANGED <<proxyVars, lb, backendUp>>

\* Mutant: the host that came back is not put into the rotation again.
LbAdd_Skip(c) ==
    /\ chk[c].pc = "lbAdd"
    /\ Goto(c, "enter")
    /\ UNCHANGED <<proxyVars, alive, lb, backendUp>>

LbAdd(c) ==
    /\ chk[c].pc = "lbAdd"
    /\ lb' = lb \cup {c[1]}
    /\ Goto(c, "enter")
    /\ UNCHANGED <<proxyVars, alive, backendUp>>

\* The health checks that a send on the n-th channel of host h can reach.
Receivers(h, n) ==
    {c \in CheckIds : c[1] = h /\ chk[c].pc = "select" /\ chk[c].ch = n}

HealthCheckStep(c) ==
    \/ EnterSelect(c) \/ Tick(c) \/ ReadDown(c) \/ SetDead(c) \/ LbRemove(c)
    \/ DialAgain(c) \/ ReadUp(c) \/ SetAlive(c) \/ LbAdd(c)

-----------------------------------------------------------------------------
(***************************************************************************)
(* Admin calls.                                                            *)
(***************************************************************************)
checkVars == <<alive, chk, lb, backendUp>>
history == <<deleted, touched>>

At(p, pc) == call[p].pc = pc
Move(p, pc) == call' = [call EXCEPT ![p].pc = pc]
Return(p) == call' = [call EXCEPT ![p] = Idle]

FirstPC(op) == CASE op = "addHost"     -> "map"
                 [] op = "removeHost"  -> "pick"
                 [] op = "removeProxy" -> "lock"
                 [] op = "changeLb"    -> "list"

\* Mutant: the call carries the wrong argument as its host.
Call_SwappedArguments(p, op, h) ==
    /\ At(p, "idle")
    /\ ncalls < MaxCalls
    /\ registered \/ op = "removeProxy"
    /\ ncalls' = ncalls + 1
    /\ call' = [call EXCEPT ![p] = [Idle EXCEPT !.pc = FirstPC(op), !.host = p]]
    /\ UNCHANGED <<hostMap, shut, registered, lock, spawned, sd, checkVars, history>>

\* A request reaches the proxy through ProxyMap.Relations; for a pattern that
\* is not there AddProxy returns an error, RemoveHost and ChangeLb dereference
\* nil (a panic that net/http recovers), and none of them changes this object.
\* RemoveProxy looks the pattern up under the mutex (Lookup).
Call(p, op, h) ==
    /\ At(p, "idle")
    /\ ncalls < MaxCalls
    /\ registered \/ op = "removeProxy"
    /\ ncalls' = ncalls + 1
    /\ call' = [call EXCEPT ![p] = [Idle EXCEPT !.pc = FirstPC(op), !.host = h]]
    /\ UNCHANGED <<hostMap, shut, registered, lock, spawned, sd, checkVars, history>>

adminVars == <<registered, sd, ncalls, backendUp>>

\* AddProxy(pattern, host): five writes, none of them under a lock.
\* (Mutant first: the reverse proxy is built and not stored.)
AddHostMap_NotStored(p) ==
    /\ At(p, "map")
    /\ touched' = touched \cup {call[p].host}
    /\ Move(p, "alive")
    /\ UNCHANGED <<adminVars, deleted, hostMap, alive, shut, lb, lock, chk, spawned>>

AddHostMap(p) ==
    /\ At(p, "map")
    /\ hostMap' = hostMap \cup {call[p].host}
    /\ touched' = touched \cup {call[p].host}
    /\ Move(p, "alive")
    /\ UNCHANGED <<adminVars, deleted, alive, shut, lb, lock, chk, spawned>>

AddAlive(p) ==
    /\ At(p, "alive")
    /\ alive' = [alive EXCEPT ![call[p].host] = TRUE]
    /\ Move(p, "chan")
    /\ UNCHANGED <<adminVars, history, hostMap, shut, lb, lock, chk, spawned>>

AddChan(p) ==
    /\ At(p, "chan")
    /\ shut' = [shut EXCEPT ![call[p].host] = @ + 1]
    /\ Move(p, "lbAdd")
    /\ UNCHANGED <<adminVars, history, hostMap, alive, lb, lock, chk, spawned>>

AddLb(p) ==
    /\ At(p, "lbAdd")
    /\ lb' = lb \cup {call[p].host}
    /\ Move(p, "spawn")
    /\ UNCHANGED <<adminVars, history, hostMap, alive, shut, lock, chk, spawned>>

AddSpawn(p) ==
    LET h == call[p].host
    IN /\ At(p, "spawn")
       /\ spawned[h] <= MaxCalls
       /\ spawned' = [spawned EXCEPT ![h] = @ + 1]
       /\ chk' = [chk EXCEPT ![<<h, spawned[h] + 1>>] =
                                [pc |-> "enter", ch |-> 0]]
       /\ Return(p)
       /\ UNCHANGED <<adminVars, history, hostMap, alive, shut, lb, lock>>

\* RemoveHost(pattern, host): the select evaluates HostsShutDown[host] once.
PickChan(p) ==
    /\ At(p, "pick")
    /\ call' = [call EXCEPT ![p] = [@ EXCEPT !.pc = "send", !.ch = shut[call[p].host]]]
    /\ UNCHANGED <<adminVars, history, hostMap, alive, shut, lb, lock, chk, spawned>>

\* The rendezvous: the health check returns, RemoveHost goes on to delete.
SendStop(p) ==
    /\ At(p, "send")
    /\ \E c \in Receivers(call[p].host, call[p].ch) : Goto(c, "exited")
    /\ Move(p, "delete")
    /\ UNCHANGED <<adminVars, history, hostMap, alive, shut, lb, lock, spawned>>

\* time.After(5 * time.Second): "shut down reverproxy timeout".
SendTimeout(p) ==
    /\ At(p, "send")
    /\ Return(p)
    /\ UNCHANGED <<adminVars, history, hostMap, alive, shut, lb, lock, chk, spawned>>

\* Mutant: RemoveHost stops the health check and keeps the reverse proxy.
DeleteHost_Kept(p) ==
    /\ At(p, "delete")
    /\ Return(p)
    /\ UNCHANGED <<adminVars, history, hostMap, alive, shut, lb, lock, chk, spawned>>

DeleteHost(p) ==
    /\ At(p, "delete")
    /\ hostMap' = hostMap \ {call[p].host}
    /\ deleted' = deleted \cup {call[p].host}
    /\ Return(p)
    /\ UNCHANGED <<adminVars, touched, alive, shut, lb, lock, chk, spawned>>

\* RemoveProxy(pattern).
Lock(p) ==
    /\ At(p, "lock")
    /\ lock = "none"
    /\ lock' = p
    /\ Move(p, "lookup")
    /\ UNCHANGED <<adminVars, history, hostMap, alive, shut, lb, chk, spawned>>

\* Mutant: the pattern is not looked up again under the mutex.
Lookup_Unchecked(p) ==
    /\ At(p, "lookup")
    /\ Move(p, "signal")
    /\ UNCHANGED <<adminVars, history, hostMap, alive, shut, lb, lock, chk, spawned>>

Lookup(p) ==
    /\ At(p, "lookup")
    /\ IF registered THEN Move(p, "signal") /\ UNCHANGED lock
                     ELSE Return(p) /\ lock' = "none"
    /\ UNCHANGED <<adminVars, history, hostMap, alive, shut, lb, chk, spawned>>

\* ShutDown <- true on an unbuffered channel: shutDownCheck must be waiting.
SignalShutDown(p) ==
    /\ At(p, "signal")
    /\ sd.pc = "wait"
    /\ sd' = [sd EXCEPT !.pc = "range", !.todo = {h \in Hosts : shut[h] # 0}]
    /\ Move(p, "unregister")
    /\ UNCHANGED <<hostMap, alive, shut, lb, registered, lock, chk, spawned,
                   ncalls, backendUp, history>>

\* RouterSingleton.Remove, the two deletes and the deferred Unlock.
Unregister(p) ==
    /\ At(p, "unregister")
    /\ registered' = FALSE
    /\ lock' = "none"
    /\ Return(p)
    /\ UNCHANGED <<hostMap, alive, shut, lb, chk, spawned, sd, ncalls, backendUp, history>>

\* ChangeLb(mode): a new balancer over the keys of HostMap.
ListHosts(p) ==
    /\ At(p, "list")
    /\ call' = [call EXCEPT ![p] = [@ EXCEPT !.pc = "swap", !.hosts = hostMap]]
    /\ touched' = Hosts
    /\ UNCHANGED <<adminVars, deleted, hostMap, alive, shut, lb, lock, chk, spawned>>

SwapLb(p) ==
    /\ At(p, "swap")
    /\ lb' = call[p].hosts
    /\ Return(p)
    /\ UNCHANGED <<adminVars, history, hostMap, alive, shut, lock, chk, spawned>>

AdminStep(p) ==
    \/ AddHostMap(p) \/ AddAlive(p) \/ AddChan(p) \/ AddLb(p) \/ AddSpawn(p)
    \/ PickChan(p) \/ SendStop(p) \/ SendTimeout(p) \/ DeleteHost(p)
    \/ Lock(p) \/ Lookup(p) \/ SignalShutDown(p) \/ Unregister(p)
    \/ ListHosts(p) \/ SwapLb(p)

-----------------------------------------------------------------------------
(***************************************************************************)
(* shutDownCheck: after the signal it ranges over HostsShutDown and sends  *)
(* on every channel in turn, blocking on each.  A Go range visits every    *)
(* entry that was there at its start; one added meanwhile may be visited.  *)
(***************************************************************************)
sdVars == <<hostMap, alive, shut, lb, registered, lock, spawned, call, ncalls,
            backendUp, history>>

RangeNext(h) ==
    /\ sd.pc = "range"
    /\ shut[h] # 0
    /\ h \notin sd.seen
    /\ sd' = [sd EXCEPT !.pc = "send", !.seen = @ \cup {h}, !.host = h,
                        !.ch = shut[h]]
    /\ UNCHANGED <<sdVars, chk>>

StopCheck ==
    /\ sd.pc = "send"
    /\ \E c \in Receivers(sd.host, sd.ch) : Goto(c, "exited")
    /\ sd' = [sd EXCEPT !.pc = "range", !.host = "none", !.ch = 0]
    /\ UNCHANGED sdVars

\* Mutant: shutDownCheck returns after the first host.
RangeDone_FirstHost ==
    /\ sd.pc = "range"
    /\ sd.seen # {}
    /\ sd' = [sd EXCEPT !.pc = "done"]
    /\ UNCHANGED <<sdVars, chk>>

RangeDone ==
    /\ sd.pc = "range"
    /\ sd.todo \subseteq sd.seen
    /\ sd' = [sd EXCEPT !.pc = "done"]
    /\ UNCHANGED <<sdVars, chk>>

ShutDownStep == (\E h \in Hosts : RangeNext(h)) \/ StopCheck \/ RangeDone

\* A backend goes down or comes back.
Flap(h) ==
    /\ backendUp' = [backendUp EXCEPT ![h] = ~@]
    /\ UNCHANGED <<proxyVars, alive, lb, chk>>

Next ==
    \/ \E c \in CheckIds : HealthCheckStep(c)
    \/ \E p \in Callers, op \in Ops, h \in Hosts : Call(p, op, h)
    \/ \E p \in Callers : AdminStep(p)
    \/ ShutDownStep
    \/ \E h \in Hosts : Flap(h)

Spec == Init /\ [][Next]_vars

(***************************************************************************)
(* Every goroutine runs: the ticker of a health check keeps firing and an  *)
(* admin call takes its steps, the 5s timer included.  shutDownCheck       *)
(* blocked on a channel is queued there, so it is served once the health   *)
(* check selects often enough: strong fairness.  Clients and backends are  *)
(* under no obligation.                                                    *)
(***************************************************************************)
FairSpec ==
    /\ Spec
    /\ \A c \in CheckIds : WF_vars(HealthCheckStep(c))
    /\ \A p \in Callers : WF_vars(AdminStep(p))
    /\ SF_vars(ShutDownStep)

-----------------------------------------------------------------------------
Watched(h) == \E k \in Gens : chk[<<h, k>>].pc \in Running

\* Callers between AddProxy's write of HostMap and its go statement, or between
\* RemoveHost's rendezvous and its delete.
MidChange(h) ==
    \E p \in Callers :
        call[p].host = h /\ call[p].pc \in {"alive", "chan", "lbAdd", "spawn", "delete"}

(***************************************************************************)
(* As long as the proxy is in service, every host that has a reverse proxy *)
(* has a health check, however AddProxy and RemoveHost calls of the HTTP   *)
(* API and of the FSM interleave; the only gaps are inside such a call.    *)
(***************************************************************************)
Monitored ==
    sd.pc = "wait" => \A h \in hostMap : Watched(h) \/ MidChange(h)

(***************************************************************************)
(* RemoveProxy sends on the unbuffered ShutDown channel while it holds the *)
(* mutex of the ProxyMap, with no timeout ("TODO" in the code): the send   *)
(* never blocks, because shutDownCheck is still waiting whenever a caller  *)
(* gets that far, and only one caller ever does.                           *)
(***************************************************************************)
SignalHasReceiver ==
    \A p \in Callers : At(p, "signal") => sd.pc = "wait"

(***************************************************************************)
(* Any host the balancer can return has a reverse proxy: ServeHTTP calls   *)
(* HostMap[host].ServeHTTP without a check.  RemoveHost takes the reverse  *)
(* proxy and leaves the host in the rotation, so the hosts it has deleted  *)
(* are the exception, and the only one.                                    *)
(***************************************************************************)
RotationHasProxy == lb \subseteq hostMap \cup deleted

(***************************************************************************)
(* Outside the two steps that change them one after the other, Alive[h]    *)
(* says whether h is in the rotation: the health check adds and removes    *)
(* only on a change of Alive, so once the two disagree they stay so.       *)
(* AddProxy on a host that has a health check and ChangeLb, which lists    *)
(* dead hosts too, break this; no RemoveHost, RemoveProxy or timeout does. *)
(***************************************************************************)
RotationTracksAlive ==
    \A h \in Hosts \ touched :
        (\A k \in Gens : chk[<<h, k>>].pc \notin {"lbRemove", "lbAdd"})
            => (alive[h] <=> h \in lb)

(***************************************************************************)
(* A backend that stays down leaves the rotation for good, and one that    *)
(* stays up is in it, as long as a health check watches it.                *)
(***************************************************************************)
RotationFollowsBackend ==
    \A h \in Hosts :
        /\ <>[](~backendUp[h] /\ Watched(h)) => <>[](h \notin lb)
        /\ <>[](backendUp[h] /\ Watched(h)) => <>[](h \in lb)

(***************************************************************************)
(* After RemoveProxy every health check of the proxy stops: shutDownCheck  *)
(* closes the heartbeats of all hosts.  A host that RemoveHost has deleted *)
(* leaves its channel in HostsShutDown with nobody to receive, and         *)
(* shutDownCheck may then block on it for ever.                            *)
(***************************************************************************)
ChecksStopAfterRemoval ==
    ~registered ~> (deleted # {} \/ \A h \in Hosts : ~Watched(h))
=============================================================================
