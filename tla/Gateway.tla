------------------------------ MODULE Gateway ------------------------------
(***************************************************************************)
(* One gateway process: the patterns registered in the ProxyMap, the       *)
(* routes of the DefaultRouter, and the requests that are routed while     *)
(* patterns come and go (reverse_proxy/default_router.go, router.go,       *)
(* proxyMap.go; cheryl/fsm.go, http_server.go, raft.go).                   *)
(*                                                                         *)
(* Goroutines: admin handlers and the leader watch, whose                  *)
(* AddProxyWithLocation takes no lock; the FSM, which adds under the lock  *)
(* of the ProxyMap and restores snapshots into a new ProxyMap; RemoveProxy *)
(* of both, under the lock; and requests.  Relations, the routes and each  *)
(* channel rendezvous are steps of their own.                              *)
(*                                                                         *)
(* A pattern or path is its sequence of segments, "/a/b" is <<a, b>>.  An  *)
(* HTTPProxy is a number.  What happens inside one is in HTTPProxy, its    *)
(* limits in RateLimiter, the access control list in RadixTree.            *)
(***************************************************************************)
EXTENDS Naturals, Integers, Sequences, FiniteSets

CONSTANTS
    Patterns,    \* patterns of locations
    Paths,       \* paths of requests
    Handlers,    \* goroutines of the admin server
    Watch, Fsm,  \* the leader watch and the FSM
    Requests,    \* goroutines that serve requests
    MaxProxies,  \* bound: HTTPProxies created
    MaxMaps,     \* bound: ProxyMaps, one more than snapshots restored
    Nil

Callers == Handlers \cup {Watch, Fsm}

ASSUME GatewayAssumption ==
    /\ Watch \notin Handlers /\ Fsm \notin Handlers \cup {Watch}
    /\ \A p \in Patterns : Len(p) \in Nat
    /\ \A p \in Paths : Len(p) \in Nat \ {0}   \* a path begins with a slash
    /\ MaxProxies \in Nat /\ MaxMaps \in Nat \ {0}
    /\ Nil \notin Nat /\ Nil \notin Callers /\ Nil \notin Patterns

VARIABLES
    router,     \* RouterSingleton has been created
    routes,     \* DefaultRouter.hosts
    relations,  \* Relations of every ProxyMap there has been
    lock,       \* who holds its mutex
    pm,         \* the ProxyMap in the State
    running,    \* proxies with a shutDownCheck and health checks
    created,    \* how many were created
    call,       \* calls in progress
    req,        \* requests in progress
    crashed,    \* a panic outside of net/http has ended the process
    calm,       \* history: patterns settled ever since a request began
    raced,      \* history: patterns with an unlocked change beside another one
    ghosts,     \* history: patterns with a route that a snapshot does not have
    broken,     \* history: patterns a handler registered before it panicked
    equipped    \* history: startRouter or Restore has been reached

callVars == <<router, routes, relations, lock, pm, running, created, call, crashed>>
history == <<raced, ghosts, broken, equipped>>
vars == <<callVars, req, calm, history>>

Proxies == 1 .. MaxProxies
Maps == 1 .. MaxMaps
Idle == [pc |-> "idle", pattern |-> Nil, map |-> 1, proxy |-> Nil, todo |-> {}]
NoRequest == [pc |-> "idle", path |-> <<>>, k |-> -1, proxy |-> Nil]

TypeOK ==
    /\ router \in BOOLEAN /\ crashed \in BOOLEAN /\ equipped \in BOOLEAN
    /\ routes \in [Patterns -> Proxies \cup {Nil}]
    /\ relations \in [Maps -> [Patterns -> Proxies \cup {Nil}]]
    /\ lock \in [Maps -> Callers \cup {Nil}]
    /\ pm \in Maps
    /\ created \in 0 .. MaxProxies /\ running \subseteq 1 .. created
    /\ call \in [Callers ->
          [pc : {"idle", "lockAdd", "lockRemove", "relation", "route", "signal", "unroute",
                 "delete", "restore"},
           pattern : Patterns \cup {Nil}, map : Maps, proxy : Proxies \cup {Nil},
           todo : SUBSET Patterns]]
    /\ req \in [Requests -> [pc : {"idle", "has", "get", "proxy", "none"},
                             path : Paths \cup {<<>>}, k : Nat \cup {-1},
                             proxy : Proxies \cup {Nil}]]
    /\ \A r \in Requests : req[r].k < Len(req[r].path)
    /\ calm \in [Requests -> SUBSET Patterns]
    /\ raced \subseteq Patterns /\ ghosts \subseteq Patterns /\ broken \subseteq Patterns

Init ==
    /\ router = FALSE /\ crashed = FALSE /\ equipped = FALSE
    /\ routes = [p \in Patterns |-> Nil]
    /\ relations = [g \in Maps |-> [p \in Patterns |-> Nil]]
    /\ lock = [g \in Maps |-> Nil]
    /\ pm = 1
    /\ created = 0 /\ running = {}
    /\ call = [c \in Callers |-> Idle]
    /\ req = [r \in Requests |-> NoRequest]
    /\ calm = [r \in Requests |-> {}]
    /\ raced = {} /\ ghosts = {} /\ broken = {}

-----------------------------------------------------------------------------
(***************************************************************************)
(* Patterns with a call in progress, and the ones where that call is an    *)
(* AddProxyWithLocation without the lock.                                  *)
(***************************************************************************)
Busy == (UNION {call[c].todo \cup {call[c].pattern} : c \in Callers}) \ {Nil}

Unlocked(c) == lock[call[c].map] # c

AddingUnlocked ==
    UNION {call[c].todo \cup (IF Unlocked(c) THEN {call[c].pattern} ELSE {}) :
             c \in {d \in Callers : call[d].pc \in {"relation", "route", "restore"}}}

\* Registered, and nobody is changing it.
Settled == {p \in Patterns \ Busy : relations[pm][p] # Nil}

\* A call that wants the mutex of the ProxyMap in the State.
Waits(stage, p) == [Idle EXCEPT !.pc = stage, !.pattern = p, !.map = pm]

\* A call that has these locations of a snapshot before it, or nothing.
Goes(todo) == IF todo = {} THEN Idle ELSE [Idle EXCEPT !.pc = "restore", !.todo = todo]

-----------------------------------------------------------------------------
(***************************************************************************)
(* AddProxyWithLocation.                                                   *)
(***************************************************************************)
\* NewHTTPProxy starts shutDownCheck.
NewHTTPProxy(c, p, todo) ==
    /\ created < MaxProxies
    /\ created' = created + 1
    /\ running' = running \cup {created'}
    /\ call' = [call EXCEPT ![c] = [pc |-> "relation", pattern |-> p, map |-> pm,
                                    proxy |-> created', todo |-> todo]]

\* createProxyWithLocation of doAddProxy and createProxy.  The pattern may be
\* registered already: it is replaced, and the old proxy runs on.
AddProxy(c, p) ==
    /\ c # Fsm /\ call[c].pc = "idle"
    /\ NewHTTPProxy(c, p, {})
    /\ raced' = IF p \in Busy THEN raced \cup {p} ELSE raced
    /\ UNCHANGED <<router, routes, relations, lock, pm, crashed, ghosts, broken, equipped>>

\* doNewHttpProxy of the FSM.
ApplyAdd(p) ==
    /\ call[Fsm].pc = "idle"
    /\ call' = [call EXCEPT ![Fsm] = Waits("lockAdd", p)]
    /\ raced' = IF p \in AddingUnlocked THEN raced \cup {p} ELSE raced
    /\ UNCHANGED <<router, routes, relations, lock, pm, running, created, crashed, ghosts, broken,
                   equipped>>

\* A pattern that is there is left alone.
LockAdd ==
    LET c == call[Fsm]
    IN  /\ c.pc = "lockAdd" /\ lock[c.map] = Nil
        /\ IF relations[c.map][c.pattern] # Nil
           THEN call' = [call EXCEPT ![Fsm] = Idle] /\ UNCHANGED <<lock, running, created>>
           ELSE NewHTTPProxy(Fsm, c.pattern, {}) /\ lock' = [lock EXCEPT ![c.map] = Fsm]
        /\ UNCHANGED <<router, routes, relations, pm, crashed, history>>

\* AddRelations: Relations (and Locations) first, then the router.
SetRelation(c) ==
    /\ call[c].pc = "relation"
    /\ relations' = [relations EXCEPT ![call[c].map][call[c].pattern] = call[c].proxy]
    /\ call' = [call EXCEPT ![c].pc = "route"]
    /\ UNCHANGED <<router, routes, lock, pm, running, created, crashed, history>>

\* The end of a call: deferred unlock, or the next location of a snapshot.
Return(c) ==
    /\ lock' = [g \in Maps |-> IF lock[g] = c THEN Nil ELSE lock[g]]
    /\ call' = [call EXCEPT ![c] = Goes(call[c].todo)]

AddRoute(c) ==
    /\ call[c].pc = "route" /\ router
    /\ routes' = [routes EXCEPT ![call[c].pattern] = call[c].proxy]
    /\ ghosts' = ghosts \ {call[c].pattern}
    /\ Return(c)
    /\ UNCHANGED <<router, relations, pm, running, created, crashed, raced, broken, equipped>>

-----------------------------------------------------------------------------
(***************************************************************************)
(* RemoveProxy of doRemoveProxy, in the handlers and in the FSM.           *)
(***************************************************************************)
RemoveProxy(c, p) ==
    /\ c # Watch /\ call[c].pc = "idle"
    /\ call' = [call EXCEPT ![c] = Waits("lockRemove", p)]
    /\ raced' = IF p \in AddingUnlocked THEN raced \cup {p} ELSE raced
    /\ UNCHANGED <<router, routes, relations, lock, pm, running, created, crashed, ghosts, broken,
                   equipped>>

\* Mutant: the mutex is not taken.
LockRemove_NoLock(c) ==
    /\ call[c].pc = "lockRemove"
    /\ call' = [call EXCEPT ![c] = IF relations[call[c].map][call[c].pattern] = Nil THEN Idle
                                   ELSE [call[c] EXCEPT !.pc = "signal"]]
    /\ UNCHANGED <<router, routes, relations, lock, pm, running, created, crashed, history>>

LockRemove(c) ==
    /\ call[c].pc = "lockRemove" /\ lock[call[c].map] = Nil
    /\ IF relations[call[c].map][call[c].pattern] = Nil
       THEN call' = [call EXCEPT ![c] = Idle] /\ UNCHANGED lock
       ELSE /\ call' = [call EXCEPT ![c].pc = "signal"]
            /\ lock' = [lock EXCEPT ![call[c].map] = c]
    /\ UNCHANGED <<router, routes, relations, pm, running, created, crashed, history>>

\* Relations is read once more; the send waits for the proxy's shutDownCheck,
\* which then ends its health checks.
SignalShutDown(c) ==
    LET x == relations[call[c].map][call[c].pattern]
    IN  /\ call[c].pc = "signal" /\ x \in running
        /\ running' = running \ {x}
        /\ call' = [call EXCEPT ![c].pc = "unroute"]
        /\ UNCHANGED <<router, routes, relations, lock, pm, created, crashed, history>>

RemoveRoute(c) ==
    /\ call[c].pc = "unroute" /\ router
    /\ routes' = [routes EXCEPT ![call[c].pattern] = Nil]
    /\ call' = [call EXCEPT ![c].pc = "delete"]
    /\ UNCHANGED <<router, relations, lock, pm, running, created, crashed, history>>

\* Mutant: the pattern is left in Relations.
DeleteRelation_Kept(c) ==
    /\ call[c].pc = "delete"
    /\ Return(c)
    /\ UNCHANGED <<router, routes, relations, pm, running, created, crashed, history>>

DeleteRelation(c) ==
    /\ call[c].pc = "delete"
    /\ relations' = [relations EXCEPT ![call[c].map][call[c].pattern] = Nil]
    /\ Return(c)
    /\ UNCHANGED <<router, routes, pm, running, created, crashed, history>>

-----------------------------------------------------------------------------
(***************************************************************************)
(* Startup and snapshots.                                                  *)
(***************************************************************************)
StartRouter ==
    /\ ~router
    /\ router' = TRUE /\ equipped' = TRUE
    /\ UNCHANGED <<routes, relations, lock, pm, running, created, call, crashed, raced, ghosts,
                   broken>>

\* Mutant: the router is expected to be there.
Restore_NoRouter(locations) ==
    /\ call[Fsm].pc = "idle" /\ pm < MaxMaps
    /\ pm' = pm + 1
    /\ call' = [call EXCEPT ![Fsm] = Goes(locations)]
    /\ equipped' = TRUE
    /\ raced' = raced \cup Busy
    /\ ghosts' = ghosts \cup {p \in Patterns \ locations : routes[p] # Nil}
    /\ UNCHANGED <<router, routes, relations, lock, running, created, crashed, broken>>

\* Restore: a new ProxyMap takes the place of the old one, whose proxies and
\* routes stay; then AddProxyWithLocation for each location of the snapshot.
Restore(locations) ==
    /\ call[Fsm].pc = "idle" /\ pm < MaxMaps
    /\ pm' = pm + 1
    /\ router' = TRUE /\ equipped' = TRUE
    /\ call' = [call EXCEPT ![Fsm] = Goes(locations)]
    /\ raced' = raced \cup Busy
    /\ ghosts' = ghosts \cup {p \in Patterns \ locations : routes[p] # Nil}
    /\ UNCHANGED <<routes, relations, lock, running, created, crashed, broken>>

RestoreLocation(p) ==
    /\ call[Fsm].pc = "restore" /\ p \in call[Fsm].todo
    /\ NewHTTPProxy(Fsm, p, call[Fsm].todo \ {p})
    /\ UNCHANGED <<router, routes, relations, lock, pm, crashed, history>>

\* Without RouterSingleton the call of Add or Remove panics: net/http recovers
\* in a handler, elsewhere the process ends.
Panic(c) ==
    /\ ~router /\ call[c].pc \in {"route", "unroute"}
    /\ crashed' = (c \notin Handlers)
    /\ broken' = broken \cup {call[c].pattern}
    /\ Return(c)
    /\ UNCHANGED <<router, routes, relations, pm, running, created, raced, ghosts, equipped>>

-----------------------------------------------------------------------------
(***************************************************************************)
(* Requests that the access control list and the filters have let pass.    *)
(***************************************************************************)
Prefix(path, k) == SubSeq(path, 1, k)

\* A path is matched by the patterns before one of its slashes: "/a" is not
\* matched by the pattern "/a".
Matches(p, path) == Len(p) < Len(path) /\ p = Prefix(path, Len(p))

\* Mutants: the search begins past the end, or at the first slash.
FirstTry_PastEnd(path) == Len(path)

FirstTry_Shortest(path) == 0

FirstTry(path) == Len(path) - 1

ServeHTTP(r, path) ==
    /\ router /\ req[r].pc = "idle"
    /\ req' = [req EXCEPT ![r] = [pc |-> "has", path |-> path, k |-> FirstTry(path), proxy |-> Nil]]

\* Route: HasPrefix, with the read lock of the router.
HasPrefix(r) ==
    LET p == Prefix(req[r].path, req[r].k)
        has == p \in Patterns /\ routes[p] # Nil
    IN  /\ req[r].pc = "has"
        /\ req' = [req EXCEPT ![r] = CASE has -> [@ EXCEPT !.pc = "get"]
                                       [] ~has /\ @.k > 0 -> [@ EXCEPT !.k = @ - 1]
                                       [] ~has /\ @.k = 0 -> [@ EXCEPT !.k = -1, !.pc = "none"]]

\* The route is read again, without the lock; by then it may be gone, and the
\* answer is 404 although a shorter pattern may match.
GetRoute(r) ==
    LET x == routes[Prefix(req[r].path, req[r].k)]
    IN  /\ req[r].pc = "get"
        /\ req' = [req EXCEPT ![r].pc = IF x = Nil THEN "none" ELSE "proxy", ![r].proxy = x]

\* The rate limiter, the balancer and the reverse proxy; or the answer 404.
Finish(r) ==
    /\ req[r].pc \in {"proxy", "none"}
    /\ req' = [req EXCEPT ![r] = NoRequest]

-----------------------------------------------------------------------------
Call ==
    \/ \E c \in Callers, p \in Patterns : AddProxy(c, p) \/ RemoveProxy(c, p)
    \/ \E p \in Patterns : ApplyAdd(p) \/ RestoreLocation(p)
    \/ LockAdd \/ StartRouter
    \/ \E locations \in SUBSET Patterns : Restore(locations)
    \/ \E c \in Callers : \/ SetRelation(c) \/ AddRoute(c)
                          \/ LockRemove(c) \/ SignalShutDown(c) \/ RemoveRoute(c)
                          \/ DeleteRelation(c) \/ Panic(c)

Serve ==
    \E r \in Requests : \/ \E path \in Paths : ServeHTTP(r, path)
                        \/ HasPrefix(r) \/ GetRoute(r) \/ Finish(r)

\* History: what stayed settled while a request was under way.
Observe ==
    calm' = [r \in Requests |-> IF req'[r].pc = "idle" THEN {}
                                ELSE IF req[r].pc = "idle" THEN Settled'
                                ELSE calm[r] \cap Settled']

Next ==
    /\ ~crashed
    /\ \/ Call /\ UNCHANGED req
       \/ Serve /\ UNCHANGED <<callVars, history>>
    /\ Observe

Spec == Init /\ [][Next]_vars

-----------------------------------------------------------------------------
(***************************************************************************)
(* Requests reach the proxy that admin calls act on: a pattern nobody is   *)
(* changing has the same proxy in the router and in the ProxyMap, or in    *)
(* neither.  Exceptions: an AddProxyWithLocation without the lock beside   *)
(* another change, or any change while a snapshot was restored; routes     *)
(* that a restored snapshot does not have, which stay; and a handler that  *)
(* panicked before there was a router.                                     *)
(***************************************************************************)
RoutesAgree ==
    \A p \in Patterns \ (Busy \cup raced \cup ghosts \cup broken) : routes[p] = relations[pm][p]

(***************************************************************************)
(* Route keeps its promise under concurrent changes: no request is         *)
(* answered 404, or goes to a shorter pattern, while a matching pattern    *)
(* was registered and untouched all the time - except that a longer        *)
(* pattern which vanishes between HasPrefix and the read also ends in 404. *)
(***************************************************************************)
LongestCalmPattern ==
    \A r \in Requests : req[r].pc \in {"proxy", "none"} =>
        \A p \in calm[r] \ (raced \cup broken) :
            Matches(p, req[r].path) =>
                Len(p) <= req[r].k /\ (req[r].pc = "none" => Len(p) < req[r].k)

(***************************************************************************)
(* RemoveProxy, which holds the mutex of the ProxyMap while it sends, has  *)
(* a receiver: however patterns are replaced, removed twice or restored,   *)
(* the proxy in Relations has not been shut down before.  Only a removal   *)
(* that panicked for want of a router leaves one there that has.           *)
(***************************************************************************)
SignalHasReceiver ==
    \A c \in Callers :
        (call[c].pc = "signal" /\ call[c].pattern \notin broken)
        => relations[call[c].map][call[c].pattern] \in running

(***************************************************************************)
(* A node that has restored a snapshot or started its router does not      *)
(* crash on a change of patterns; one that applies an entry earlier, while *)
(* it is still joining the cluster, does.                                  *)
(***************************************************************************)
NoCrashOnceEquipped == crashed => ~equipped
=============================================================================
