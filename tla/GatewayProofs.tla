--------------------------- MODULE GatewayProofs ---------------------------
(***************************************************************************)
(* Proofs about Gateway, for any number of goroutines, patterns, proxies   *)
(* and snapshots.                                                          *)
(***************************************************************************)
EXTENDS Gateway, TLAPS

-----------------------------------------------------------------------------
(***************************************************************************)
(* The inductive invariant.                                                *)
(***************************************************************************)
Adding == {"relation", "route"}
Removing == {"signal", "unroute", "delete"}
Waiting == {"idle", "lockAdd", "lockRemove", "restore"}

\* Goroutines: which of them have a pattern, a list of locations, a lock.
CallOK(c) ==
    /\ call[c].pc \in {"idle", "restore"} <=> call[c].pattern = Nil
    /\ call[c].pc \in Adding => call[c].proxy \in 1 .. created
    /\ call[c].pc \in Removing => lock[call[c].map] = c
    /\ call[c].pc = "signal" => relations[call[c].map][call[c].pattern] # Nil
    /\ call[c].pc \in Waiting => \A g \in Maps : lock[g] # c
    /\ call[c].todo # {} => c = Fsm /\ call[c].pc \in Adding \cup {"restore"}
    /\ call[c].map <= pm

\* A proxy that is to be entered in Relations runs and is nowhere else.
FreshOK(c) ==
    call[c].pc = "relation" =>
        /\ call[c].proxy \in running
        /\ \A g \in Maps, p \in Patterns : relations[g][p] # call[c].proxy
        /\ \A d \in Callers \ {c} : call[d].pc = "relation" => call[d].proxy # call[c].proxy

\* A proxy in Relations runs, unless it is about to be deleted.
AliveOK(g, p) ==
    relations[g][p] # Nil =>
        /\ relations[g][p] \in 1 .. created
        /\ g <= pm
        /\ \/ relations[g][p] \in running
           \/ p \in broken
           \/ \E c \in Callers : /\ call[c].pc \in {"unroute", "delete"}
                                 /\ call[c].map = g /\ call[c].pattern = p
        /\ \A h \in Maps, q \in Patterns : relations[h][q] = relations[g][p] => h = g /\ q = p

\* A goroutine that works on p alone, with the lock or as an unlocked adder.
Works(c, p) == call[c].pattern = p /\ call[c].pc \in Adding \cup Removing

\* A pattern without races: who works on it, and what routes and Relations are
\* at every stage of that work.
PatternOK(p) ==
    /\ \A c \in Callers : call[c].pattern = p => call[c].map = pm /\ \A d \in Callers : p \notin call[d].todo
    /\ \A c \in Callers : call[c].pattern = p /\ call[c].pc \in Adding /\ Unlocked(c) =>
          \A d \in Callers \ {c} : call[d].pattern # p
    /\ \A c, d \in Callers : Works(c, p) /\ Works(d, p) => c = d
    /\ \A c \in Callers : call[c].pattern = p /\ call[c].pc = "route" => relations[pm][p] = call[c].proxy
    /\ \A c \in Callers : call[c].pattern = p /\ call[c].pc = "delete" => routes[p] = Nil
    /\ \/ p \in ghosts
       \/ \E c \in Callers : p \in call[c].todo
       \/ \E c \in Callers : call[c].pattern = p /\ call[c].pc \in Adding \cup {"delete"}
       \/ routes[p] = relations[pm][p]
    /\ p \in ghosts => \/ \E c \in Callers : call[c].pattern = p /\ call[c].pc = "route"
                       \/ relations[pm][p] = Nil

\* Requests: how far the search has come.
RequestOK(r) ==
    /\ req[r].pc \in {"has", "get", "proxy"} => req[r].k >= 0
    /\ req[r].pc \in {"get"} => Prefix(req[r].path, req[r].k) \in Patterns
    /\ req[r].pc # "idle" =>
          /\ calm[r] \subseteq Settled
          /\ \A p \in calm[r] \ (raced \cup broken) : Matches(p, req[r].path) =>
                Len(p) <= req[r].k /\ (req[r].pc = "none" => Len(p) < req[r].k)

\* The parts of TypeOK.
CallType ==
    [pc : {"idle", "lockAdd", "lockRemove", "relation", "route", "signal", "unroute",
           "delete", "restore"},
     pattern : Patterns \cup {Nil}, map : Maps, proxy : Proxies \cup {Nil},
     todo : SUBSET Patterns]

CallTypes ==
    /\ router \in BOOLEAN /\ crashed \in BOOLEAN /\ equipped \in BOOLEAN
    /\ routes \in [Patterns -> Proxies \cup {Nil}]
    /\ relations \in [Maps -> [Patterns -> Proxies \cup {Nil}]]
    /\ lock \in [Maps -> Callers \cup {Nil}]
    /\ pm \in Maps
    /\ created \in 0 .. MaxProxies /\ running \subseteq 1 .. created
    /\ call \in [Callers -> CallType]
    /\ raced \subseteq Patterns /\ ghosts \subseteq Patterns /\ broken \subseteq Patterns

RequestTypes ==
    /\ req \in [Requests -> [pc : {"idle", "has", "get", "proxy", "none"},
                             path : Paths \cup {<<>>}, k : Nat \cup {-1},
                             proxy : Proxies \cup {Nil}]]
    /\ \A r \in Requests : req[r].k < Len(req[r].path)
    /\ calm \in [Requests -> SUBSET Patterns]

RouterOK == equipped = router /\ (crashed => ~router)

CallsInv ==
    /\ CallTypes
    /\ RouterOK
    /\ \A c \in Callers : CallOK(c) /\ FreshOK(c)
    /\ \A g \in Maps, p \in Patterns : AliveOK(g, p)
    /\ \A p \in Patterns \ (raced \cup broken) : PatternOK(p)

GatewayInv ==
    /\ CallsInv
    /\ RequestTypes
    /\ \A r \in Requests : RequestOK(r)

LEMMA TypeParts == TypeOK <=> CallTypes /\ RequestTypes
  BY DEF TypeOK, CallTypes, RequestTypes, CallType

-----------------------------------------------------------------------------
(***************************************************************************)
(* The steps of calls.                                                     *)
(***************************************************************************)
\* The constants.
LEMMA Constants ==
    /\ Fsm \in Callers /\ Watch \in Callers /\ Nil \notin Callers /\ Nil \notin Patterns
    /\ Nil \notin Nat /\ MaxProxies \in Nat /\ MaxMaps \in Nat
    /\ 1 \in Maps /\ Nil \notin Proxies
    /\ \A c \in Callers : c \notin Handlers => c \in {Watch, Fsm}
  BY GatewayAssumption DEF Callers, Maps, Proxies

LEMMA IdleType == Idle \in CallType
  BY Constants DEF Idle, CallType

LEMMA CallsInit == Init => CallsInv
<1> SUFFICES ASSUME Init PROVE CallsInv
  OBVIOUS
<1>1. CallTypes
  <2>1. created \in 0 .. MaxProxies /\ running \subseteq 1 .. created /\ pm \in Maps
    BY Constants DEF Init
  <2>2. call \in [Callers -> CallType]
    BY IdleType DEF Init
  <2>3. router \in BOOLEAN /\ crashed \in BOOLEAN /\ equipped \in BOOLEAN
    BY DEF Init
  <2> QED
    BY <2>1, <2>2, <2>3 DEF Init, CallTypes
<1>2. RouterOK
  BY DEF Init, RouterOK
<1>3. ASSUME NEW c \in Callers PROVE call[c] = Idle
  BY DEF Init
<1>4. ASSUME NEW c \in Callers PROVE CallOK(c) /\ FreshOK(c)
  BY <1>3, Constants DEF Init, CallOK, FreshOK, Idle, Adding, Removing, Waiting
<1>5. ASSUME NEW g \in Maps, NEW p \in Patterns PROVE AliveOK(g, p)
  BY DEF Init, AliveOK
<1>6. ASSUME NEW p \in Patterns PROVE PatternOK(p)
  <2>1. routes[p] = relations[pm][p]
    BY Constants DEF Init
  <2>2. \A c \in Callers : call[c].pattern # p /\ call[c].todo = {}
    BY <1>3, Constants DEF Idle
  <2> QED
    BY <2>1, <2>2 DEF PatternOK, Works, Init
<1> QED
  BY <1>1, <1>2, <1>4, <1>5, <1>6 DEF CallsInv

\* NewHTTPProxy, in a call that had nothing entered yet: numbers and types.
LEMMA NewProxyStep ==
    ASSUME CallsInv, NEW c \in Callers, NEW p \in Patterns, NEW todo \in SUBSET Patterns,
           NewHTTPProxy(c, p, todo)
    PROVE  /\ created \in Nat /\ created' = created + 1 /\ created' \in Proxies
           /\ created' \notin 1 .. created /\ 1 .. created \subseteq 1 .. created'
           /\ running' = running \cup {created'} /\ running' \subseteq 1 .. created'
           /\ call' = [call EXCEPT ![c] = [pc |-> "relation", pattern |-> p, map |-> pm,
                                           proxy |-> created', todo |-> todo]]
           /\ call' \in [Callers -> CallType]
<1>1. created \in Nat /\ created' = created + 1 /\ created' \in Proxies /\ created' \in Nat
  BY Constants DEF CallsInv, CallTypes, NewHTTPProxy, Proxies
<1>2. created' \notin 1 .. created /\ 1 .. created \subseteq 1 .. created' /\ created' \in 1 .. created'
  BY <1>1
<1>3. running' = running \cup {created'} /\ running' \subseteq 1 .. created'
  BY <1>2 DEF CallsInv, CallTypes, NewHTTPProxy
<1> DEFINE R == [pc |-> "relation", pattern |-> p, map |-> pm, proxy |-> created', todo |-> todo]
<1>4. R \in CallType
  BY <1>1 DEF CallType, CallsInv, CallTypes
<1>5. call' = [call EXCEPT ![c] = R]
  BY DEF NewHTTPProxy
<1> HIDE DEF R
<1>6. call' \in [Callers -> CallType]
  BY <1>4, <1>5 DEF CallsInv, CallTypes
<1> QED
  BY <1>1, <1>2, <1>3, <1>5, <1>6 DEF R

\* The same: CallOK, FreshOK and AliveOK, when the locks of others stay.
LEMMA NewProxyKeeps ==
    ASSUME CallsInv, NEW c \in Callers, NEW p \in Patterns, NEW todo \in SUBSET Patterns,
           NewHTTPProxy(c, p, todo), call[c].pc \in Waiting, todo # {} => c = Fsm,
           UNCHANGED <<relations, pm, broken>>,
           \A g \in Maps : lock'[g] = lock[g] \/ (lock[g] = Nil /\ lock'[g] = c)
    PROVE  /\ \A d \in Callers : CallOK(d)' /\ FreshOK(d)'
           /\ \A g \in Maps, q \in Patterns : AliveOK(g, q)'
<1> DEFINE R == [pc |-> "relation", pattern |-> p, map |-> pm, proxy |-> created', todo |-> todo]
<1>0. /\ created \in Nat /\ created' = created + 1 /\ created' \in Proxies
      /\ created' \notin 1 .. created /\ 1 .. created \subseteq 1 .. created'
      /\ running' = running \cup {created'} /\ running' \subseteq 1 .. created'
      /\ call' = [call EXCEPT ![c] = R] /\ call' \in [Callers -> CallType]
  BY NewProxyStep
<1>1. /\ \A d \in Callers \ {c} : call'[d] = call[d]
      /\ call'[c].pc = "relation" /\ call'[c].pattern = p /\ call'[c].map = pm
      /\ call'[c].proxy = created' /\ call'[c].todo = todo
  BY <1>0 DEF CallsInv, CallTypes
<1>2. created' \in 1 .. created' /\ pm \in Nat /\ pm <= pm
  BY <1>0 DEF CallsInv, CallTypes, Maps
<1>old. /\ \A d \in Callers : CallOK(d) /\ FreshOK(d)
        /\ \A g \in Maps, q \in Patterns : AliveOK(g, q)
        /\ \A d \in Callers : call[d].map \in Maps
  BY DEF CallsInv, CallTypes, CallType
<1>3. ASSUME NEW d \in Callers PROVE CallOK(d)'
  <2>1. CASE d = c
    BY <2>1, <1>1, <1>2, Constants DEF CallOK, Adding, Removing, Waiting
  <2>2. CASE d # c
    <3>1. /\ call[d].pc \in {"idle", "restore"} <=> call[d].pattern = Nil
          /\ call[d].pc \in Adding => call[d].proxy \in 1 .. created'
          /\ call[d].pc = "signal" => relations[call[d].map][call[d].pattern] # Nil
          /\ call[d].todo # {} => d = Fsm /\ call[d].pc \in Adding \cup {"restore"}
          /\ call[d].map <= pm
      BY <1>0, <1>old DEF CallOK
    <3>2. call[d].pc \in Removing => lock'[call[d].map] = d
      BY <2>2, <1>old, Constants DEF CallOK
    <3>3. call[d].pc \in Waiting => \A g \in Maps : lock'[g] # d
      BY <2>2, <1>old, Constants DEF CallOK
    <3> QED
      BY <2>2, <1>1, <3>1, <3>2, <3>3 DEF CallOK
  <2> QED
    BY <2>1, <2>2
<1>4. \A g \in Maps, q \in Patterns : relations[g][q] # created'
  BY <1>0, <1>old, Constants DEF AliveOK, Proxies
<1>5. ASSUME NEW d \in Callers PROVE FreshOK(d)'
  <2>1. CASE d = c
    <3>1. \A e \in Callers \ {c} : call[e].pc = "relation" => call[e].proxy # created'
      BY <1>0, <1>old DEF CallOK, Adding
    <3> QED
      BY <2>1, <3>1, <1>0, <1>1, <1>4 DEF FreshOK
  <2>2. CASE d # c
    <3>1. call[d].pc = "relation" => call[d].proxy # created'
      BY <1>0, <1>old DEF CallOK, Adding
    <3> QED
      BY <2>2, <3>1, <1>0, <1>1, <1>old DEF FreshOK
  <2> QED
    BY <2>1, <2>2
<1>6. ASSUME NEW g \in Maps, NEW q \in Patterns PROVE AliveOK(g, q)'
  <2>1. \A d \in Callers : call[d].pc \in {"unroute", "delete"} => call'[d] = call[d]
    BY <1>1 DEF Waiting
  <2>2. AliveOK(g, q)
    BY <1>old
  <2> QED
    BY <2>1, <2>2, <1>0 DEF AliveOK
<1> QED
  BY <1>3, <1>5, <1>6

\* A pattern that a step has nothing to do with.
LEMMA PatternOther ==
    ASSUME NEW q \in Patterns, PatternOK(q), pm' = pm, routes'[q] = routes[q],
           relations'[pm][q] = relations[pm][q], q \in ghosts' <=> q \in ghosts,
           \A d \in Callers : /\ q \in call'[d].todo <=> q \in call[d].todo
                             /\ \/ call'[d] = call[d] /\ (lock'[call[d].map] = d <=> lock[call[d].map] = d)
                                \/ call'[d].pattern # q /\ call[d].pattern # q
    PROVE  PatternOK(q)'
<1>1. \A d \in Callers : call'[d].pattern = q <=> call[d].pattern = q
  OBVIOUS
<1>2. \A d \in Callers : call[d].pattern = q => call'[d] = call[d] /\ (Unlocked(d)' <=> Unlocked(d))
  BY DEF Unlocked
<1>3. \A d \in Callers : Works(d, q)' <=> Works(d, q)
  BY <1>1, <1>2 DEF Works
<1>4. (\A c \in Callers : call[c].pattern = q => call[c].map = pm /\ \A d \in Callers : q \notin call[d].todo)'
  BY <1>1, <1>2 DEF PatternOK
<1>5. (\A c \in Callers : call[c].pattern = q /\ call[c].pc \in Adding /\ Unlocked(c) =>
          \A d \in Callers \ {c} : call[d].pattern # q)'
  BY <1>1, <1>2 DEF PatternOK
<1>6. (\A c, d \in Callers : Works(c, q) /\ Works(d, q) => c = d)'
  BY <1>3 DEF PatternOK
<1>7. /\ (\A c \in Callers : call[c].pattern = q /\ call[c].pc = "route" => relations[pm][q] = call[c].proxy)'
      /\ (\A c \in Callers : call[c].pattern = q /\ call[c].pc = "delete" => routes[q] = Nil)'
  BY <1>1, <1>2 DEF PatternOK
<1>8. (\/ q \in ghosts
       \/ \E c \in Callers : q \in call[c].todo
       \/ \E c \in Callers : call[c].pattern = q /\ call[c].pc \in Adding \cup {"delete"}
       \/ routes[q] = relations[pm][q])'
  BY <1>1, <1>2 DEF PatternOK
<1>9. (q \in ghosts => \/ \E c \in Callers : call[c].pattern = q /\ call[c].pc = "route"
                       \/ relations[pm][q] = Nil)'
  BY <1>1, <1>2 DEF PatternOK
<1> QED
  BY <1>4, <1>5, <1>6, <1>7, <1>8, <1>9 DEF PatternOK

\* Facts of a state that the steps use.
LEMMA CallsFacts ==
    ASSUME CallsInv
    PROVE  /\ \A d \in Callers : /\ CallOK(d) /\ FreshOK(d) /\ call[d] \in CallType /\ call[d].map \in Maps
                                /\ call[d].todo \subseteq Patterns /\ call[d].pattern \in Patterns \cup {Nil}
                                /\ call[d].pc \notin {"idle", "restore"} => call[d].pattern \in Patterns
           /\ \A g \in Maps, q \in Patterns : AliveOK(g, q)
           /\ \A q \in Patterns \ (raced \cup broken) : PatternOK(q)
           /\ pm \in Maps
<1>1. ASSUME NEW d \in Callers
      PROVE  /\ CallOK(d) /\ FreshOK(d) /\ call[d] \in CallType /\ call[d].map \in Maps
             /\ call[d].todo \subseteq Patterns /\ call[d].pattern \in Patterns \cup {Nil}
  BY DEF CallsInv, CallTypes, CallType
<1>2. ASSUME NEW d \in Callers
      PROVE  call[d].pc \notin {"idle", "restore"} => call[d].pattern \in Patterns
  BY <1>1 DEF CallOK
<1> QED
  BY <1>1, <1>2 DEF CallsInv, CallTypes

\* Busy and AddingUnlocked, member by member.
LEMMA NotBusy ==
    ASSUME NEW p \in Patterns
    PROVE  p \notin Busy <=> \A d \in Callers : call[d].pattern # p /\ p \notin call[d].todo
<1>1. p # Nil
  BY Constants
<1> DEFINE S(d) == call[d].todo \cup {call[d].pattern}
           U == {S(d) : d \in Callers}
<1>2. Busy = (UNION U) \ {Nil}
  BY DEF Busy
<1>3. p \in Busy <=> p \in UNION U
  <2> HIDE DEF U
  <2> QED
    BY <1>1, <1>2
<1>4. p \in UNION U <=> \E d \in Callers : p \in S(d)
  BY Zenon
<1> QED
  BY <1>3, <1>4

LEMMA NotAddingUnlocked ==
    ASSUME NEW p \in Patterns, p \notin AddingUnlocked,
           NEW d \in Callers, call[d].pc \in Adding \cup {"restore"}
    PROVE  p \notin call[d].todo /\ (Unlocked(d) => call[d].pattern # p)
<1> DEFINE S == call[d].todo \cup (IF Unlocked(d) THEN {call[d].pattern} ELSE {})
<1>1. d \in {e \in Callers : call[e].pc \in {"relation", "route", "restore"}}
  BY DEF Adding
<1>2. S \subseteq AddingUnlocked
  BY <1>1, Zenon DEF AddingUnlocked
<1> QED
  BY <1>2

\* createProxyWithLocation by a handler or the leader watch.
LEMMA AddProxyStep ==
    ASSUME CallsInv, NEW c \in Callers, NEW p \in Patterns, AddProxy(c, p)
    PROVE  CallsInv'
<1>0. /\ call[c].pc = "idle" /\ NewHTTPProxy(c, p, {})
      /\ UNCHANGED <<router, routes, relations, lock, pm, crashed, ghosts, broken, equipped>>
      /\ raced' = IF p \in Busy THEN raced \cup {p} ELSE raced
  BY DEF AddProxy
<1>1. /\ created' \in Proxies /\ running' \subseteq 1 .. created' /\ call' \in [Callers -> CallType]
      /\ call' = [call EXCEPT ![c] = [pc |-> "relation", pattern |-> p, map |-> pm,
                                      proxy |-> created', todo |-> {}]]
  BY <1>0, NewProxyStep
<1>2. CallTypes'
  <2>1. created' \in 0 .. MaxProxies
    BY <1>1, Constants DEF Proxies
  <2> QED
    BY <1>0, <1>1, <2>1 DEF CallsInv, CallTypes
<1>3. /\ \A d \in Callers : CallOK(d)' /\ FreshOK(d)'
      /\ \A g \in Maps, q \in Patterns : AliveOK(g, q)'
  BY <1>0, NewProxyKeeps DEF Waiting
<1>4. /\ \A d \in Callers \ {c} : call'[d] = call[d]
      /\ call'[c].pc = "relation" /\ call'[c].pattern = p /\ call'[c].map = pm /\ call'[c].todo = {}
      /\ call[c].pattern = Nil /\ call[c].todo = {}
  <2>1. CallOK(c)
    BY DEF CallsInv
  <2> QED
    BY <1>0, <1>1, <2>1 DEF CallsInv, CallTypes, CallOK, Adding
<1>5. ASSUME NEW q \in Patterns \ (raced' \cup broken') PROVE PatternOK(q)'
  <2>1. PatternOK(q)
    BY <1>0, CallsFacts
  <2>2. CASE q # p
    BY <2>1, <2>2, <1>0, <1>4, PatternOther, Constants
  <2>3. CASE q = p
    <3>1. \A d \in Callers : call[d].pattern # p /\ p \notin call[d].todo
      BY <1>0, <2>3, NotBusy
    <3>2. \A d \in Callers : p \notin call'[d].todo /\ (call'[d].pattern = p <=> d = c)
      BY <3>1, <1>4
    <3>3. p \in ghosts => relations[pm][p] = Nil
      BY <2>1, <2>3, <3>1 DEF PatternOK
    <3> QED
      BY <2>3, <3>2, <3>3, <1>0, <1>4 DEF PatternOK, Works, Adding, Removing
  <2> QED
    BY <2>2, <2>3
<1>6. RouterOK'
  BY <1>0 DEF CallsInv, RouterOK
<1> QED
  BY <1>2, <1>3, <1>5, <1>6 DEF CallsInv

LEMMA WaitsType ==
    ASSUME NEW p \in Patterns, pm \in Maps, NEW stage \in {"lockAdd", "lockRemove"}
    PROVE  /\ Waits(stage, p) \in CallType /\ Waits(stage, p).pc = stage
           /\ Waits(stage, p).pattern = p /\ Waits(stage, p).map = pm /\ Waits(stage, p).todo = {}
<1>1. Idle \in CallType /\ Idle.todo = {}
  BY IdleType DEF Idle
<1> QED
  BY <1>1 DEF Waits, CallType

LEMMA GoesType ==
    ASSUME NEW todo \in SUBSET Patterns
    PROVE  /\ Goes(todo) \in CallType /\ Goes(todo).pattern = Nil /\ Goes(todo).map = 1
           /\ Goes(todo).todo = todo /\ Goes(todo).pc \in {"idle", "restore"}
           /\ todo # {} => Goes(todo).pc = "restore"
<1>1. Idle \in CallType /\ Idle.todo = {} /\ Idle.pattern = Nil /\ Idle.map = 1 /\ Idle.pc = "idle"
  BY IdleType DEF Idle
<1>2. CASE todo = {}
  BY <1>1, <1>2 DEF Goes
<1>3. CASE todo # {}
  <2>1. Goes(todo) = [Idle EXCEPT !.pc = "restore", !.todo = todo]
    BY <1>3 DEF Goes
  <2> QED
    BY <1>1, <1>3, <2>1 DEF CallType
<1> QED
  BY <1>2, <1>3

\* A call of the FSM that begins, and of a handler that is to remove: c waits
\* for the lock.
LEMMA BeginStep ==
    ASSUME CallsInv, NEW c \in Callers, NEW p \in Patterns, NEW stage \in {"lockAdd", "lockRemove"},
           call[c].pc = "idle",
           call' = [call EXCEPT ![c] = Waits(stage, p)],
           raced' = IF p \in AddingUnlocked THEN raced \cup {p} ELSE raced,
           UNCHANGED <<router, routes, relations, lock, pm, running, created, crashed, ghosts, broken, equipped>>
    PROVE  CallsInv'
<1> DEFINE R == Waits(stage, p)
<1>1. /\ R.pc = stage /\ R.pattern = p /\ R.map = pm /\ R.todo = {}
      /\ R \in CallType
  <2>1. pm \in Maps
    BY DEF CallsInv, CallTypes
  <2> QED
    BY <2>1, WaitsType
<1>3. call' = [call EXCEPT ![c] = R]
  OBVIOUS
<1> HIDE DEF R
<1>4. CallTypes'
  BY <1>1, <1>3 DEF CallsInv, CallTypes
<1>5. \A d \in Callers \ {c} : call'[d] = call[d]
  BY <1>3 DEF CallsInv, CallTypes
<1>6. call'[c] = R
  BY <1>3 DEF CallsInv, CallTypes
<1>7. CallOK(c) /\ call[c].pattern = Nil /\ call[c].todo = {}
  <2>1. CallOK(c)
    BY DEF CallsInv
  <2> QED
    BY <2>1 DEF CallOK, Adding
<1>8. ASSUME NEW d \in Callers PROVE CallOK(d)' /\ FreshOK(d)'
  <2>0. CallOK(d) /\ FreshOK(d)
    BY DEF CallsInv
  <2>1. CASE d = c
    <3>1. pm <= pm
      BY DEF CallsInv, CallTypes, Maps
    <3>2. CallOK(c)'
      BY <3>1, <1>1, <1>6, <1>7, Constants DEF CallOK, Adding, Removing, Waiting
    <3>3. FreshOK(c)'
      BY <1>1, <1>6 DEF FreshOK
    <3> QED
      BY <2>1, <3>2, <3>3
  <2>2. CASE d # c
    <3>1. CallOK(d)'
      BY <2>0, <2>2, <1>5 DEF CallOK
    <3>2. FreshOK(d)'
      BY <2>0, <2>2, <1>1, <1>5, <1>6 DEF FreshOK
    <3> QED
      BY <3>1, <3>2
  <2> QED
    BY <2>1, <2>2
<1>9. ASSUME NEW g \in Maps, NEW q \in Patterns PROVE AliveOK(g, q)'
  <2>1. \A d \in Callers : call[d].pc \in {"unroute", "delete"} => call'[d] = call[d]
    BY <1>5
  <2>2. AliveOK(g, q)
    BY DEF CallsInv
  <2> QED
    BY <2>1, <2>2 DEF AliveOK
<1>10. ASSUME NEW q \in Patterns \ (raced' \cup broken') PROVE PatternOK(q)'
  <2>1. PatternOK(q)
    BY DEF CallsInv
  <2>2. CASE q # p
    BY <2>1, <2>2, <1>1, <1>5, <1>6, <1>7, PatternOther, Constants
  <2>3. CASE q = p
    <3>1. p \notin AddingUnlocked
      BY <2>3
    <3>2. ASSUME NEW d \in Callers
          PROVE  /\ p \notin call[d].todo
                 /\ call[d].pc \in Adding /\ Unlocked(d) => call[d].pattern # p
      <4>1. call[d].todo # {} => call[d].pc \in Adding \cup {"restore"}
        BY DEF CallsInv, CallOK
      <4> QED
        BY <4>1, <3>1, NotAddingUnlocked
    <3>3. /\ \A d \in Callers : Unlocked(d)' <=> IF d = c THEN lock[pm] # c ELSE Unlocked(d)
          /\ \A d \in Callers : Works(d, p)' <=> (d # c /\ Works(d, p))
      BY <1>1, <1>5, <1>6 DEF Unlocked, Works, Adding, Removing
    <3>4. \A d \in Callers : p \notin call'[d].todo
      BY <3>2, <1>1, <1>5, <1>6
    <3>5. (\A e \in Callers : call[e].pattern = p => call[e].map = pm /\ \A d \in Callers : p \notin call[d].todo)'
      BY <2>1, <2>3, <3>4, <1>1, <1>5, <1>6 DEF PatternOK
    <3>6. (\A e \in Callers : call[e].pattern = p /\ call[e].pc \in Adding /\ Unlocked(e) =>
              \A d \in Callers \ {e} : call[d].pattern # p)'
      BY <3>2, <3>3, <1>1, <1>5, <1>6 DEF Adding
    <3>7. (\A e, d \in Callers : Works(e, p) /\ Works(d, p) => e = d)'
      BY <2>1, <2>3, <3>3 DEF PatternOK
    <3>8. /\ (\A e \in Callers : call[e].pattern = p /\ call[e].pc = "route" => relations[pm][p] = call[e].proxy)'
          /\ (\A e \in Callers : call[e].pattern = p /\ call[e].pc = "delete" => routes[p] = Nil)'
      BY <2>1, <2>3, <1>1, <1>5, <1>6 DEF PatternOK
    <3>9. (\/ p \in ghosts
           \/ \E e \in Callers : p \in call[e].todo
           \/ \E e \in Callers : call[e].pattern = p /\ call[e].pc \in Adding \cup {"delete"}
           \/ routes[p] = relations[pm][p])'
      BY <2>1, <2>3, <3>2, <1>5, <1>7, Constants DEF PatternOK, Adding
    <3>10. (p \in ghosts => \/ \E e \in Callers : call[e].pattern = p /\ call[e].pc = "route"
                            \/ relations[pm][p] = Nil)'
      BY <2>1, <2>3, <1>5, <1>7, Constants DEF PatternOK
    <3> QED
      BY <2>3, <3>5, <3>6, <3>7, <3>8, <3>9, <3>10 DEF PatternOK
  <2> QED
    BY <2>2, <2>3
<1>11. RouterOK'
  BY DEF CallsInv, RouterOK
<1> QED
  BY <1>4, <1>8, <1>9, <1>10, <1>11 DEF CallsInv

\* Nothing to add or nothing to remove.
LEMMA GiveUpStep ==
    ASSUME CallsInv, NEW c \in Callers, call[c].pc \in {"lockAdd", "lockRemove"},
           call' = [call EXCEPT ![c] = Idle],
           UNCHANGED <<router, routes, relations, lock, pm, running, created, crashed, history>>
    PROVE  CallsInv'
<1>0. UNCHANGED <<raced, ghosts, broken, equipped>>
  BY DEF history
<1>1. /\ Idle \in CallType /\ Idle.pc = "idle" /\ Idle.pattern = Nil /\ Idle.todo = {} /\ Idle.map = 1
  BY IdleType DEF Idle
<1>2. \A d \in Callers : call'[d] = IF d = c THEN Idle ELSE call[d]
  BY DEF CallsInv, CallTypes
<1>3. CallTypes'
  BY <1>0, <1>1 DEF CallsInv, CallTypes
<1>4. CallOK(c) /\ call[c].todo = {}
  <2>1. CallOK(c)
    BY DEF CallsInv
  <2> QED
    BY <2>1 DEF CallOK, Adding
<1>5. ASSUME NEW d \in Callers PROVE CallOK(d)' /\ FreshOK(d)'
  <2>0. CallOK(d) /\ FreshOK(d)
    BY DEF CallsInv
  <2>1. CASE d = c
    <3>1. 1 <= pm
      BY DEF CallsInv, CallTypes, Maps
    <3>2. CallOK(c)'
      BY <3>1, <1>1, <1>2, <1>4 DEF CallOK, Adding, Removing, Waiting
    <3>3. FreshOK(c)'
      BY <1>1, <1>2 DEF FreshOK
    <3> QED
      BY <2>1, <3>2, <3>3
  <2>2. CASE d # c
    <3>1. CallOK(d)'
      BY <2>0, <2>2, <1>2 DEF CallOK
    <3>2. FreshOK(d)'
      BY <2>0, <2>2, <1>1, <1>2 DEF FreshOK
    <3> QED
      BY <3>1, <3>2
  <2> QED
    BY <2>1, <2>2
<1>6. ASSUME NEW g \in Maps, NEW q \in Patterns PROVE AliveOK(g, q)'
  <2>1. \A d \in Callers : call[d].pc \in {"unroute", "delete"} => call'[d] = call[d]
    BY <1>2
  <2>2. AliveOK(g, q)
    BY DEF CallsInv
  <2> QED
    BY <2>1, <2>2, <1>0 DEF AliveOK
<1>7. ASSUME NEW q \in Patterns \ (raced' \cup broken') PROVE PatternOK(q)'
  <2>1. PatternOK(q)
    BY <1>0 DEF CallsInv
  <2>2. CASE call[c].pattern # q
    BY <2>1, <2>2, <1>0, <1>1, <1>2, <1>4, PatternOther, Constants
  <2>3. CASE call[c].pattern = q
    <3>1. \A d \in Callers : q \notin call'[d].todo /\ (call'[d].pattern = q => call'[d] = call[d])
      BY <2>1, <2>3, <1>1, <1>2, Constants DEF PatternOK
    <3>2. \A d \in Callers : call[d].pattern = q /\ call[d].pc \in Adding \cup Removing => call'[d] = call[d]
      BY <1>2 DEF Adding, Removing
    <3>3. \A d \in Callers : call'[d].pattern = q => (Unlocked(d)' <=> Unlocked(d))
      BY <3>1 DEF Unlocked
    <3>4. (\A e \in Callers : call[e].pattern = q => call[e].map = pm /\ \A d \in Callers : q \notin call[d].todo)'
      BY <2>1, <3>1 DEF PatternOK
    <3>5. (\A e \in Callers : call[e].pattern = q /\ call[e].pc \in Adding /\ Unlocked(e) =>
              \A d \in Callers \ {e} : call[d].pattern # q)'
      BY <2>1, <3>1, <3>3 DEF PatternOK
    <3>6. (\A e, d \in Callers : Works(e, q) /\ Works(d, q) => e = d)'
      BY <2>1, <3>1 DEF PatternOK, Works
    <3>7. /\ (\A e \in Callers : call[e].pattern = q /\ call[e].pc = "route" => relations[pm][q] = call[e].proxy)'
          /\ (\A e \in Callers : call[e].pattern = q /\ call[e].pc = "delete" => routes[q] = Nil)'
      BY <2>1, <3>1 DEF PatternOK
    <3>8. (\/ q \in ghosts
           \/ \E e \in Callers : q \in call[e].todo
           \/ \E e \in Callers : call[e].pattern = q /\ call[e].pc \in Adding \cup {"delete"}
           \/ routes[q] = relations[pm][q])'
      BY <2>1, <2>3, <3>2, <1>0 DEF PatternOK, Adding, Removing
    <3>9. (q \in ghosts => \/ \E e \in Callers : call[e].pattern = q /\ call[e].pc = "route"
                           \/ relations[pm][q] = Nil)'
      BY <2>1, <3>2, <1>0 DEF PatternOK, Adding
    <3> QED
      BY <3>4, <3>5, <3>6, <3>7, <3>8, <3>9 DEF PatternOK
  <2> QED
    BY <2>2, <2>3
<1>8. RouterOK'
  BY <1>0 DEF CallsInv, RouterOK
<1> QED
  BY <1>3, <1>5, <1>6, <1>7, <1>8 DEF CallsInv

\* RemoveProxy gets the lock.
LEMMA LockRemoveStep ==
    ASSUME CallsInv, NEW c \in Callers, LockRemove(c)
    PROVE  CallsInv'
<1> DEFINE g == call[c].map
           p == call[c].pattern
<1>0. /\ call[c].pc = "lockRemove" /\ lock[g] = Nil
      /\ UNCHANGED <<router, routes, relations, pm, running, created, crashed, history>>
  BY DEF LockRemove
<1>1. CASE relations[g][p] = Nil
  BY <1>0, <1>1, GiveUpStep DEF LockRemove
<1>2. CASE relations[g][p] # Nil
  <2>0. UNCHANGED <<raced, ghosts, broken, equipped>>
    BY <1>0 DEF history
  <2>1. call' = [call EXCEPT ![c].pc = "signal"] /\ lock' = [lock EXCEPT ![g] = c]
    BY <1>2 DEF LockRemove
  <2>2. /\ call[c] \in CallType /\ g \in Maps /\ p \in Patterns /\ CallOK(c) /\ call[c].todo = {}
        /\ call \in [Callers -> CallType] /\ lock \in [Maps -> Callers \cup {Nil}]
    <3>1. CallOK(c) /\ call[c] \in CallType /\ g \in Maps /\ p \in Patterns \cup {Nil}
      BY DEF CallsInv, CallTypes, CallType
    <3> QED
      BY <1>0, <3>1 DEF CallOK, Adding, CallsInv, CallTypes
  <2>3. /\ \A d \in Callers \ {c} : call'[d] = call[d]
        /\ call'[c].pc = "signal" /\ call'[c].pattern = p /\ call'[c].map = g /\ call'[c].todo = {}
        /\ call' \in [Callers -> CallType]
    BY <2>1, <2>2 DEF CallType
  <2>4. /\ \A h \in Maps : lock'[h] = IF h = g THEN c ELSE lock[h]
        /\ lock' \in [Maps -> Callers \cup {Nil}]
    BY <2>1, <2>2
  <2> HIDE DEF g, p
  <2>5. CallTypes'
    BY <1>0, <2>0, <2>3, <2>4 DEF CallsInv, CallTypes
  <2>6. ASSUME NEW d \in Callers PROVE CallOK(d)' /\ FreshOK(d)'
    <3>0. CallOK(d) /\ FreshOK(d) /\ call[d].map \in Maps
      BY DEF CallsInv, CallTypes, CallType
    <3>1. CASE d = c
      <4>1. g <= pm
        BY <2>2 DEF CallOK, g
      <4>2. CallOK(c)'
        BY <4>1, <1>0, <1>2, <2>2, <2>3, <2>4, Constants DEF CallOK, Adding, Removing, Waiting
      <4>3. FreshOK(c)'
        BY <2>3 DEF FreshOK
      <4> QED
        BY <3>1, <4>2, <4>3
    <3>2. CASE d # c
      <4>1. CallOK(d)'
        BY <3>0, <3>2, <1>0, <2>3, <2>4, Constants DEF CallOK
      <4>2. FreshOK(d)'
        BY <3>0, <3>2, <1>0, <2>3 DEF FreshOK
      <4> QED
        BY <4>1, <4>2
    <3> QED
      BY <3>1, <3>2
  <2>7. ASSUME NEW h \in Maps, NEW q \in Patterns PROVE AliveOK(h, q)'
    <3>1. \A d \in Callers : call[d].pc \in {"unroute", "delete"} => call'[d] = call[d]
      BY <1>0, <2>3
    <3>2. AliveOK(h, q)
      BY DEF CallsInv
    <3> QED
      BY <3>1, <3>2, <1>0, <2>0 DEF AliveOK
  <2>8. ASSUME NEW q \in Patterns \ (raced' \cup broken') PROVE PatternOK(q)'
    <3>1. PatternOK(q)
      BY <2>0 DEF CallsInv
    <3>lock. \A d \in Callers \ {c} : call[d].map \in Maps /\ (lock'[call[d].map] = d <=> lock[call[d].map] = d)
      BY <1>0, <2>4, Constants DEF CallsInv, CallTypes, CallType
    <3>2. CASE p # q
      BY <3>1, <3>2, <3>lock, <1>0, <2>0, <2>2, <2>3, PatternOther DEF p
    <3>3. CASE p = q
      <4>1. g = pm /\ \A d \in Callers : q \notin call[d].todo
        BY <3>1, <3>3 DEF PatternOK, p, g
      <4>2. \A d \in Callers : ~Works(d, q)
        <5>1. ASSUME NEW d \in Callers, Works(d, q) PROVE FALSE
          <6>0. CallOK(d) /\ d # Nil
            BY Constants DEF CallsInv
          <6>1. call[d].map = pm /\ lock[pm] = Nil
            BY <3>1, <5>1, <1>0, <4>1 DEF PatternOK, Works
          <6>2. call[d].pc \in Adding /\ Unlocked(d)
            BY <5>1, <6>0, <6>1 DEF Works, CallOK, Unlocked
          <6>3. d # c
            BY <6>2, <1>0 DEF Adding
          <6> QED
            BY <3>1, <3>3, <5>1, <6>2, <6>3 DEF PatternOK, Works, p
        <5> QED
          BY <5>1
      <4>3. \A d \in Callers : Works(d, q)' => d = c
        BY <4>2, <2>3 DEF Works
      <4>4. \A d \in Callers : q \notin call'[d].todo /\ (call'[d].pattern = q => call'[d].map = pm)
        BY <3>1, <3>3, <4>1, <2>3 DEF PatternOK
      <4>5. \A d \in Callers : call'[d].pattern = q => call'[d].pc \notin Adding \cup {"delete"}
        BY <4>3, <2>3 DEF Works, Adding, Removing
      <4>6. q \in ghosts \/ routes[q] = relations[pm][q]
        BY <3>1, <4>1, <4>2 DEF PatternOK, Works, Adding, Removing
      <4>7. q \in ghosts => relations[pm][q] = Nil
        BY <3>1, <4>2 DEF PatternOK, Works, Adding, Removing
      <4> QED
        BY <4>3, <4>4, <4>5, <4>6, <4>7, <1>0, <2>0 DEF PatternOK, Adding
    <3> QED
      BY <3>2, <3>3
  <2>9. RouterOK'
    BY <1>0, <2>0 DEF CallsInv, RouterOK
  <2> QED
    BY <2>5, <2>6, <2>7, <2>8, <2>9 DEF CallsInv
<1> QED
  BY <1>1, <1>2

\* A new proxy for a pattern nobody else is adding: the FSM, with the lock or
\* with the next location of a snapshot.
LEMMA NewProxyAlone ==
    ASSUME CallsInv, NEW p \in Patterns, NEW todo \in SUBSET Patterns, p \notin todo,
           NewHTTPProxy(Fsm, p, todo), call[Fsm].pc \in Waiting,
           call[Fsm].pattern \in {p, Nil}, todo \subseteq call[Fsm].todo,
           \A q \in call[Fsm].todo : q \in todo \/ q = p,
           UNCHANGED <<router, routes, relations, pm, crashed, raced, ghosts, broken, equipped>>,
           lock' \in [Maps -> Callers \cup {Nil}],
           \A g \in Maps : lock'[g] = lock[g] \/ (lock[g] = Nil /\ lock'[g] = Fsm),
           p \notin raced \cup broken =>
              /\ \A d \in Callers : ~Works(d, p)
              /\ \A d \in Callers \ {Fsm} : call[d].pattern # p \/ lock'[pm] = Fsm
              /\ \A d \in Callers \ {Fsm} : call[d].pattern = p => call[d].map = pm
    PROVE  CallsInv'
<1>0. Fsm \in Callers
  BY Constants
<1>1. /\ created' \in Proxies /\ running' \subseteq 1 .. created' /\ call' \in [Callers -> CallType]
      /\ call' = [call EXCEPT ![Fsm] = [pc |-> "relation", pattern |-> p, map |-> pm,
                                        proxy |-> created', todo |-> todo]]
  BY <1>0, NewProxyStep
<1>2. CallTypes'
  <2>1. created' \in 0 .. MaxProxies
    BY <1>1, Constants DEF Proxies
  <2> QED
    BY <1>1, <2>1 DEF CallsInv, CallTypes
<1>3. /\ \A d \in Callers : CallOK(d)' /\ FreshOK(d)'
      /\ \A g \in Maps, q \in Patterns : AliveOK(g, q)'
  BY <1>0, NewProxyKeeps
<1>4. /\ \A d \in Callers \ {Fsm} : call'[d] = call[d] /\ call[d].todo = {}
      /\ call'[Fsm].pc = "relation" /\ call'[Fsm].pattern = p /\ call'[Fsm].map = pm /\ call'[Fsm].todo = todo
  <2>1. \A d \in Callers : CallOK(d)
    BY DEF CallsInv
  <2>2. \A d \in Callers \ {Fsm} : call[d].todo = {}
    BY <2>1 DEF CallOK
  <2> QED
    BY <1>0, <1>1, <2>2 DEF CallsInv, CallTypes
<1>5. ASSUME NEW q \in Patterns \ (raced' \cup broken') PROVE PatternOK(q)'
  <2>1. PatternOK(q)
    BY DEF CallsInv
  <2>lock. \A d \in Callers \ {Fsm} : call[d].map \in Maps /\ (lock'[call[d].map] = d <=> lock[call[d].map] = d)
    BY Constants DEF CallsInv, CallTypes, CallType
  <2>2. CASE q # p
    <3>1. \A d \in Callers : q \in call'[d].todo <=> q \in call[d].todo
      BY <2>2, <1>4
    <3>2. call'[Fsm].pattern # q /\ call[Fsm].pattern # q
      BY <2>2, <1>4, Constants
    <3> QED
      BY <2>1, <2>lock, <3>1, <3>2, <1>4, PatternOther
  <2>3. CASE q = p
    <3>1. /\ \A d \in Callers : ~Works(d, p)
          /\ \A d \in Callers \ {Fsm} : call[d].pattern # p \/ lock'[pm] = Fsm
          /\ \A d \in Callers \ {Fsm} : call[d].pattern = p => call[d].map = pm
      BY <2>3
    <3>2. \A d \in Callers : p \notin call'[d].todo /\ (call'[d].pattern = p => call'[d].map = pm)
      BY <3>1, <1>4
    <3>3. \A d \in Callers : Works(d, p)' <=> d = Fsm
      BY <3>1, <1>0, <1>4 DEF Works, Adding
    <3>4. Unlocked(Fsm)' => \A d \in Callers \ {Fsm} : call'[d].pattern # p
      BY <3>1, <1>4 DEF Unlocked
    <3>5. (\A e \in Callers : call[e].pattern = p /\ call[e].pc \in Adding /\ Unlocked(e) =>
              \A d \in Callers \ {e} : call[d].pattern # p)'
      BY <3>3, <3>4 DEF Works
    <3>6. \A d \in Callers : call'[d].pattern = p => call'[d].pc \notin {"route", "delete"}
      BY <3>3, <1>4 DEF Works, Adding, Removing
    <3>7. p \in ghosts => relations[pm][p] = Nil
      BY <2>1, <2>3, <3>1 DEF PatternOK, Works, Adding
    <3> QED
      BY <2>3, <3>2, <3>3, <3>5, <3>6, <3>7, <1>0, <1>4 DEF PatternOK, Adding
  <2> QED
    BY <2>2, <2>3
<1>6. RouterOK'
  BY DEF CallsInv, RouterOK
<1> QED
  BY <1>2, <1>3, <1>5, <1>6 DEF CallsInv

\* doNewHttpProxy of the FSM gets the lock.
LEMMA LockAddStep ==
    ASSUME CallsInv, LockAdd
    PROVE  CallsInv'
<1> DEFINE g == call[Fsm].map
           p == call[Fsm].pattern
<1>0. /\ call[Fsm].pc = "lockAdd" /\ lock[g] = Nil /\ Fsm \in Callers
      /\ UNCHANGED <<router, routes, relations, pm, crashed, history>>
  BY Constants DEF LockAdd
<1>1. CASE relations[g][p] # Nil
  BY <1>0, <1>1, GiveUpStep DEF LockAdd
<1>2. CASE relations[g][p] = Nil
  <2>0. UNCHANGED <<raced, ghosts, broken, equipped>>
    BY <1>0 DEF history
  <2>1. NewHTTPProxy(Fsm, p, {}) /\ lock' = [lock EXCEPT ![g] = Fsm]
    BY <1>2 DEF LockAdd
  <2>2. /\ g \in Maps /\ p \in Patterns /\ call[Fsm].todo = {}
        /\ lock \in [Maps -> Callers \cup {Nil}]
    <3>1. CallOK(Fsm) /\ g \in Maps /\ p \in Patterns \cup {Nil}
      BY <1>0 DEF CallsInv, CallTypes, CallType
    <3> QED
      BY <1>0, <3>1 DEF CallOK, Adding, CallsInv, CallTypes
  <2>3. /\ lock' \in [Maps -> Callers \cup {Nil}]
        /\ \A h \in Maps : lock'[h] = IF h = g THEN Fsm ELSE lock[h]
    BY <1>0, <2>1, <2>2
  <2>4. ASSUME p \notin raced \cup broken
        PROVE  /\ g = pm /\ \A d \in Callers : ~Works(d, p)
               /\ \A d \in Callers : call[d].pattern = p => call[d].map = pm
    <3>1. PatternOK(p)
      BY <2>2, <2>4 DEF CallsInv
    <3>2. g = pm /\ \A d \in Callers : call[d].pattern = p => call[d].map = pm
      BY <3>1, <1>0 DEF PatternOK
    <3>3. ASSUME NEW d \in Callers, Works(d, p) PROVE FALSE
      <4>0. CallOK(d) /\ d # Nil
        BY Constants DEF CallsInv
      <4>1. call[d].map = pm /\ lock[pm] = Nil
        BY <3>2, <3>3, <1>0 DEF Works
      <4>2. call[d].pc \in Adding /\ Unlocked(d)
        BY <3>3, <4>0, <4>1 DEF Works, CallOK, Unlocked
      <4>3. d # Fsm
        BY <4>2, <1>0 DEF Adding
      <4> QED
        BY <3>1, <3>3, <4>2, <4>3, <1>0 DEF PatternOK, Works
    <3> QED
      BY <3>2, <3>3
  <2> HIDE DEF g
  <2>5. \A h \in Maps : lock'[h] = lock[h] \/ (lock[h] = Nil /\ lock'[h] = Fsm)
    BY <1>0, <2>3
  <2>6. call[Fsm].pc \in Waiting
    BY <1>0 DEF Waiting
  <2>7. p \notin raced \cup broken => lock'[pm] = Fsm
    BY <2>2, <2>3, <2>4
  <2> HIDE DEF p
  <2>8. call[Fsm].pattern \in {p, Nil}
    BY DEF p
  <2> QED
    BY <1>0, <2>0, <2>1, <2>2, <2>3, <2>4, <2>5, <2>6, <2>7, <2>8, NewProxyAlone
<1> QED
  BY <1>1, <1>2

\* The next location of a snapshot.
LEMMA RestoreLocationStep ==
    ASSUME CallsInv, NEW p \in Patterns, RestoreLocation(p)
    PROVE  CallsInv'
<1> DEFINE todo == call[Fsm].todo \ {p}
<1>0. /\ call[Fsm].pc = "restore" /\ p \in call[Fsm].todo /\ NewHTTPProxy(Fsm, p, todo) /\ Fsm \in Callers
      /\ UNCHANGED <<router, routes, relations, lock, pm, crashed, raced, ghosts, broken, equipped>>
  BY Constants DEF RestoreLocation, history
<1>1. /\ CallOK(Fsm) /\ call[Fsm].pattern = Nil /\ call[Fsm].todo \subseteq Patterns
      /\ lock \in [Maps -> Callers \cup {Nil}]
  <2>1. CallOK(Fsm) /\ call[Fsm].todo \subseteq Patterns /\ lock \in [Maps -> Callers \cup {Nil}]
    BY <1>0 DEF CallsInv, CallTypes, CallType
  <2> QED
    BY <1>0, <2>1 DEF CallOK
<1>2. p \notin raced \cup broken => \A d \in Callers : call[d].pattern # p
  BY <1>0 DEF CallsInv, PatternOK
<1>3. p \notin raced \cup broken => \A d \in Callers : ~Works(d, p)
  BY <1>2 DEF Works
<1>4. call[Fsm].pc \in Waiting
  BY <1>0 DEF Waiting
<1>5. todo \in SUBSET Patterns /\ p \notin todo /\ todo \subseteq call[Fsm].todo
      /\ \A q \in call[Fsm].todo : q \in todo \/ q = p
  BY <1>1
<1> HIDE DEF todo
<1> QED
  BY <1>0, <1>1, <1>2, <1>3, <1>4, <1>5, NewProxyAlone

\* AddRelations, first half.
LEMMA SetRelationStep ==
    ASSUME CallsInv, NEW c \in Callers, SetRelation(c)
    PROVE  CallsInv'
<1> DEFINE g == call[c].map
           p == call[c].pattern
           x == call[c].proxy
<1>0. /\ call[c].pc = "relation" /\ relations' = [relations EXCEPT ![g][p] = x]
      /\ call' = [call EXCEPT ![c].pc = "route"]
      /\ UNCHANGED <<router, routes, lock, pm, running, created, crashed, raced, ghosts, broken, equipped>>
  BY DEF SetRelation, history
<1>1. /\ g \in Maps /\ p \in Patterns /\ CallOK(c) /\ FreshOK(c) /\ call[c] \in CallType
      /\ x \in running /\ x \in 1 .. created /\ x \in Proxies /\ x # Nil /\ g <= pm
      /\ call \in [Callers -> CallType] /\ relations \in [Maps -> [Patterns -> Proxies \cup {Nil}]]
  <2>1. /\ CallOK(c) /\ FreshOK(c) /\ call[c] \in CallType /\ g \in Maps /\ p \in Patterns \cup {Nil}
        /\ x \in Proxies \cup {Nil}
        /\ call \in [Callers -> CallType] /\ relations \in [Maps -> [Patterns -> Proxies \cup {Nil}]]
    BY DEF CallsInv, CallTypes, CallType
  <2>2. p \in Patterns /\ x \in 1 .. created /\ g <= pm
    BY <1>0, <2>1 DEF CallOK, Adding
  <2>3. x \in running
    BY <1>0, <2>1 DEF FreshOK
  <2>4. x # Nil
    BY <2>2, Constants
  <2> QED
    BY <2>1, <2>2, <2>3, <2>4
<1>2. /\ \A d \in Callers \ {c} : call'[d] = call[d]
      /\ call'[c].pc = "route" /\ call'[c].pattern = p /\ call'[c].map = g /\ call'[c].proxy = x
      /\ call'[c].todo = call[c].todo /\ call' \in [Callers -> CallType]
  BY <1>0, <1>1 DEF CallType
<1>3. /\ \A h \in Maps, q \in Patterns :
            relations'[h][q] = IF h = g /\ q = p THEN x ELSE relations[h][q]
      /\ relations' \in [Maps -> [Patterns -> Proxies \cup {Nil}]]
  BY <1>0, <1>1
<1>fresh. \A h \in Maps, q \in Patterns : relations[h][q] # x
  BY <1>0, <1>1 DEF FreshOK
<1> HIDE DEF g, p, x
<1>4. CallTypes'
  BY <1>0, <1>2, <1>3 DEF CallsInv, CallTypes
<1>5. ASSUME NEW d \in Callers PROVE CallOK(d)' /\ FreshOK(d)'
  <2>0. /\ CallOK(d) /\ FreshOK(d) /\ call[d].map \in Maps
        /\ call[d].pc = "signal" => call[d].pattern \in Patterns
    <3>1. CallOK(d) /\ FreshOK(d) /\ call[d].map \in Maps /\ call[d].pattern \in Patterns \cup {Nil}
      BY DEF CallsInv, CallTypes, CallType
    <3> QED
      BY <3>1 DEF CallOK
  <2>1. CASE d = c
    <3>1. call[c].todo # {} => c = Fsm
      BY <1>1 DEF CallOK
    <3>2. CallOK(c)'
      BY <3>1, <1>0, <1>1, <1>2, Constants DEF CallOK, Adding, Removing, Waiting
    <3>3. FreshOK(c)'
      BY <1>2 DEF FreshOK
    <3> QED
      BY <2>1, <3>2, <3>3
  <2>2. CASE d # c
    <3>1. call[d].pc = "signal" => relations'[call[d].map][call[d].pattern] # Nil
      BY <2>0, <1>1, <1>3 DEF CallOK
    <3>2. CallOK(d)'
      BY <2>0, <2>2, <3>1, <1>0, <1>2 DEF CallOK
    <3>3. call[d].pc = "relation" => call[d].proxy # x
      BY <2>0, <2>2, <1>0 DEF FreshOK, x
    <3>4. FreshOK(d)'
      BY <2>0, <2>2, <3>3, <1>0, <1>2, <1>3 DEF FreshOK
    <3> QED
      BY <3>2, <3>4
  <2> QED
    BY <2>1, <2>2
<1>6. ASSUME NEW h \in Maps, NEW q \in Patterns PROVE AliveOK(h, q)'
  <2>1. \A d \in Callers : call[d].pc \in {"unroute", "delete"} => call'[d] = call[d]
    BY <1>0, <1>2
  <2>2. AliveOK(h, q)
    BY DEF CallsInv
  <2>3. CASE h = g /\ q = p
    BY <2>3, <1>0, <1>1, <1>3, <1>fresh DEF AliveOK
  <2>4. CASE ~(h = g /\ q = p)
    BY <2>1, <2>2, <2>4, <1>0, <1>1, <1>3, <1>fresh DEF AliveOK
  <2> QED
    BY <2>3, <2>4
<1>7. ASSUME NEW q \in Patterns \ (raced' \cup broken') PROVE PatternOK(q)'
  <2>1. PatternOK(q) /\ pm \in Maps
    BY <1>0 DEF CallsInv, CallTypes
  <2>2. CASE q # p
    <3>1. call'[c].pattern # q /\ call[c].pattern # q
      BY <2>2, <1>2 DEF p
    <3>2. \A d \in Callers : q \in call'[d].todo <=> q \in call[d].todo
      BY <1>2
    <3>3. relations'[pm][q] = relations[pm][q]
      BY <2>1, <2>2, <1>3
    <3> QED
      BY <2>1, <3>1, <3>2, <3>3, <1>0, <1>2, PatternOther
  <2>3. CASE q = p
    <3>1. Works(c, q)
      BY <2>3, <1>0 DEF Works, Adding, p
    <3>2. g = pm
      BY <2>1, <2>3 DEF PatternOK, g, p
    <3>3. relations'[pm][q] = x
      BY <2>1, <2>3, <3>2, <1>3
    <3>4. \A d \in Callers : Works(d, q)' <=> Works(d, q)
      BY <2>3, <1>0, <1>2 DEF Works, Adding, p
    <3>5. \A d \in Callers : Works(d, q) <=> d = c
      BY <2>1, <3>1 DEF PatternOK
    <3>6. \A d \in Callers : call'[d].pattern = call[d].pattern /\ call'[d].map = call[d].map
                            /\ call'[d].todo = call[d].todo /\ (Unlocked(d)' <=> Unlocked(d))
      BY <1>0, <1>2 DEF p, g, Unlocked
    <3>7. (\A e \in Callers : call[e].pattern = q => call[e].map = pm /\ \A d \in Callers : q \notin call[d].todo)'
      BY <2>1, <3>6, <1>0 DEF PatternOK
    <3>8. (\A e \in Callers : call[e].pattern = q /\ call[e].pc \in Adding /\ Unlocked(e) =>
              \A d \in Callers \ {e} : call[d].pattern # q)'
      <4>1. Unlocked(c) => \A d \in Callers \ {c} : call[d].pattern # q
        BY <2>1, <2>3, <1>0 DEF PatternOK, Adding, p
      <4>2. \A d \in Callers : call'[d].pattern = q /\ call'[d].pc \in Adding => d = c
        BY <3>4, <3>5 DEF Works
      <4> QED
        BY <3>6, <4>1, <4>2
    <3>9. \A d \in Callers : call'[d].pattern = q /\ call'[d].pc \in {"route", "delete"} => d = c
      BY <3>4, <3>5 DEF Works, Adding, Removing
    <3>10. call'[c].pattern = q /\ call'[c].pc = "route" /\ call'[c].proxy = x
      BY <2>3, <1>2
    <3> QED
      BY <3>3, <3>4, <3>5, <3>7, <3>8, <3>9, <3>10, <1>0 DEF PatternOK, Adding
  <2> QED
    BY <2>2, <2>3
<1>8. RouterOK'
  BY <1>0 DEF CallsInv, RouterOK
<1> QED
  BY <1>4, <1>5, <1>6, <1>7, <1>8 DEF CallsInv

\* The steps of RemoveProxy up to the last: c goes on to the next stage.
LEMMA RemovingStep ==
    ASSUME CallsInv, NEW c \in Callers, NEW next \in {"unroute", "delete"},
           call[c].pc \in {"signal", "unroute"}, call' = [call EXCEPT ![c].pc = next],
           UNCHANGED <<router, relations, lock, pm, created, crashed, raced, ghosts, broken, equipped>>,
           running' = running \/ running' = running \ {relations[call[c].map][call[c].pattern]},
           IF next = "delete" THEN routes' = [routes EXCEPT ![call[c].pattern] = Nil] ELSE routes' = routes,
           next = "delete" => call[c].pc = "unroute" /\ running' = running
    PROVE  CallsInv'
<1> DEFINE g == call[c].map
           p == call[c].pattern
<1>1. /\ g \in Maps /\ p \in Patterns /\ CallOK(c) /\ call[c] \in CallType /\ g <= pm
      /\ lock[g] = c /\ call[c].todo = {} /\ call \in [Callers -> CallType]
      /\ routes \in [Patterns -> Proxies \cup {Nil}]
  <2>1. /\ CallOK(c) /\ call[c] \in CallType /\ g \in Maps /\ p \in Patterns \cup {Nil}
        /\ call \in [Callers -> CallType] /\ routes \in [Patterns -> Proxies \cup {Nil}]
    BY DEF CallsInv, CallTypes, CallType
  <2> QED
    BY <2>1 DEF CallOK, Adding, Removing
<1>2. /\ \A d \in Callers \ {c} : call'[d] = call[d]
      /\ call'[c].pc = next /\ call'[c].pattern = p /\ call'[c].map = g
      /\ call'[c].todo = {} /\ call' \in [Callers -> CallType]
  BY <1>1 DEF CallType
<1>3. /\ routes' \in [Patterns -> Proxies \cup {Nil}]
      /\ \A q \in Patterns : routes'[q] = IF next = "delete" /\ q = p THEN Nil ELSE routes[q]
  BY <1>1
<1>4. running' = running \/ running' = running \ {relations[g][p]}
  OBVIOUS
<1>5. CallTypes'
  BY <1>2, <1>3 DEF CallsInv, CallTypes
<1> HIDE DEF g
<1>6. ASSUME NEW d \in Callers PROVE CallOK(d)' /\ FreshOK(d)'
  <2>0. CallOK(d) /\ FreshOK(d)
    BY DEF CallsInv
  <2>1. CASE d = c
    <3>1. CallOK(c)'
      BY <1>1, <1>2, Constants DEF CallOK, Adding, Removing, Waiting
    <3>2. FreshOK(c)'
      BY <1>2 DEF FreshOK
    <3> QED
      BY <2>1, <3>1, <3>2
  <2>2. CASE d # c
    <3>1. CallOK(d)'
      BY <2>0, <2>2, <1>2 DEF CallOK
    <3>2. call[d].pc = "relation" => call[d].proxy \in running'
      BY <2>0, <1>1, <1>4 DEF FreshOK
    <3>3. FreshOK(d)'
      BY <2>0, <2>2, <3>2, <1>2 DEF FreshOK
    <3> QED
      BY <3>1, <3>3
  <2> QED
    BY <2>1, <2>2
<1>7. ASSUME NEW h \in Maps, NEW q \in Patterns PROVE AliveOK(h, q)'
  <2>0. AliveOK(h, q)
    BY DEF CallsInv
  <2>1. \A d \in Callers : call[d].pc \in {"unroute", "delete"} =>
            /\ call'[d].pc \in {"unroute", "delete"}
            /\ call'[d].map = call[d].map /\ call'[d].pattern = call[d].pattern
    BY <1>2 DEF g
  <2>2. CASE h = g /\ q = p
    BY <2>0, <2>2, <1>2 DEF AliveOK
  <2>3. CASE ~(h = g /\ q = p)
    <3>1. relations[h][q] # Nil => relations[g][p] # relations[h][q]
      BY <2>0, <2>3, <1>1 DEF AliveOK
    <3>2. relations[h][q] # Nil /\ relations[h][q] \in running => relations[h][q] \in running'
      BY <3>1, <1>4
    <3> QED
      BY <2>0, <2>1, <3>2 DEF AliveOK
  <2> QED
    BY <2>2, <2>3
<1>8. ASSUME NEW q \in Patterns \ (raced' \cup broken') PROVE PatternOK(q)'
  <2>1. PatternOK(q)
    BY DEF CallsInv
  <2>2. CASE q # p
    <3>1. call'[c].pattern # q /\ call[c].pattern # q
      BY <2>2, <1>2
    <3>2. \A d \in Callers : q \in call'[d].todo <=> q \in call[d].todo
      BY <1>1, <1>2
    <3>3. routes'[q] = routes[q]
      BY <2>2, <1>3
    <3> HIDE DEF p
    <3> QED
      BY <2>1, <3>1, <3>2, <3>3, <1>2, PatternOther
  <2>3. CASE q = p
    <3>1. \A d \in Callers : Works(d, q) <=> d = c
      <4>1. Works(c, q)
        BY <2>3 DEF Works, Removing
      <4> QED
        BY <2>1, <4>1 DEF PatternOK
    <3>2. \A d \in Callers : Works(d, q)' <=> d = c
      BY <2>3, <3>1, <1>2 DEF Works, Removing
    <3>3. \A d \in Callers : call'[d].pattern = call[d].pattern /\ call'[d].map = call[d].map
                            /\ call'[d].todo = call[d].todo
      BY <1>1, <1>2 DEF g
    <3>4. (\A e \in Callers : call[e].pattern = q => call[e].map = pm /\ \A d \in Callers : q \notin call[d].todo)'
      BY <2>1, <3>3 DEF PatternOK
    <3>5. \A d \in Callers : call'[d].pattern = q => call'[d].pc \notin Adding
      BY <3>2, <1>2 DEF Works, Adding
    <3>6. \A d \in Callers : call[d].pattern = q => call[d].pc \notin Adding \cup {"delete"}
      BY <3>1 DEF Works, Adding, Removing
    <3>7. \A d \in Callers : call'[d].pattern = q /\ call'[d].pc = "delete" => d = c
      BY <3>2 DEF Works, Removing
    <3>8. /\ q \in ghosts \/ routes[q] = relations[pm][q]
          /\ q \in ghosts => relations[pm][q] = Nil
      BY <2>1, <2>3, <3>6 DEF PatternOK, Adding
    <3>9. \/ q \in ghosts' \/ \E e \in Callers : call'[e].pattern = q /\ call'[e].pc = "delete"
          \/ routes'[q] = relations[pm][q]
      <4>1. CASE next = "delete"
        BY <2>3, <4>1, <1>2
      <4>2. CASE next # "delete"
        BY <4>2, <3>8, <1>3
      <4> QED
        BY <4>1, <4>2
    <3>10. (\A e \in Callers : call[e].pattern = q /\ call[e].pc = "delete" => routes[q] = Nil)'
      BY <2>3, <3>7, <1>2, <1>3
    <3> QED
      BY <3>2, <3>4, <3>5, <3>8, <3>9, <3>10 DEF PatternOK, Adding
  <2> QED
    BY <2>2, <2>3
<1>9. RouterOK'
  BY DEF CallsInv, RouterOK
<1> QED
  BY <1>5, <1>6, <1>7, <1>8, <1>9 DEF CallsInv

\* The end of a call.
LEMMA ReturnFacts ==
    ASSUME CallsInv, NEW c \in Callers, Return(c)
    PROVE  /\ \A d \in Callers \ {c} : /\ call'[d] = call[d] /\ call[d].map \in Maps
                                       /\ (lock'[call[d].map] = d <=> lock[call[d].map] = d)
           /\ call'[c].pc \in {"idle", "restore"} /\ call'[c].pattern = Nil /\ call'[c].map = 1
           /\ call'[c].todo = call[c].todo /\ (call[c].todo # {} => call'[c].pc = "restore")
           /\ \A h \in Maps : lock'[h] # c /\ lock'[h] \in {lock[h], Nil}
           /\ call' \in [Callers -> CallType] /\ lock' \in [Maps -> Callers \cup {Nil}]
<1>1. /\ call \in [Callers -> CallType] /\ lock \in [Maps -> Callers \cup {Nil}]
      /\ call[c].todo \in SUBSET Patterns /\ \A d \in Callers : call[d].map \in Maps
  BY DEF CallsInv, CallTypes, CallType
<1> DEFINE R == Goes(call[c].todo)
<1>2. /\ R \in CallType /\ R.pattern = Nil /\ R.map = 1 /\ R.todo = call[c].todo
      /\ R.pc \in {"idle", "restore"} /\ (call[c].todo # {} => R.pc = "restore")
  BY <1>1, GoesType
<1>3. call' = [call EXCEPT ![c] = R]
  BY DEF Return
<1> HIDE DEF R
<1>4. lock' = [g \in Maps |-> IF lock[g] = c THEN Nil ELSE lock[g]]
  BY DEF Return
<1>5. /\ \A d \in Callers \ {c} : call'[d] = call[d]
      /\ call'[c] = R /\ call' \in [Callers -> CallType]
  BY <1>1, <1>2, <1>3
<1>6. /\ \A h \in Maps : lock'[h] = IF lock[h] = c THEN Nil ELSE lock[h]
      /\ lock' \in [Maps -> Callers \cup {Nil}]
  BY <1>1, <1>4
<1>7. \A d \in Callers \ {c} : lock'[call[d].map] = d <=> lock[call[d].map] = d
  BY <1>1, <1>6, Constants
<1>8. \A h \in Maps : lock'[h] # c /\ lock'[h] \in {lock[h], Nil}
  BY <1>6, Constants
<1> QED
  BY <1>1, <1>2, <1>5, <1>6, <1>7, <1>8

LEMMA ReturnKeeps ==
    ASSUME CallsInv, NEW c \in Callers, Return(c), call[c].pc \in {"route", "unroute", "delete"},
           UNCHANGED <<pm, running, created>>, broken \subseteq broken',
           \A h \in Maps, q \in Patterns :
               IF call[c].pc = "delete" /\ h = call[c].map /\ q = call[c].pattern
               THEN relations'[h][q] = Nil ELSE relations'[h][q] = relations[h][q],
           call[c].pc = "unroute" => call[c].pattern \in broken'
    PROVE  /\ \A d \in Callers : CallOK(d)' /\ FreshOK(d)'
           /\ \A g \in Maps, q \in Patterns : AliveOK(g, q)'
<1> DEFINE g == call[c].map
           p == call[c].pattern
<1>1. /\ \A d \in Callers \ {c} : /\ call'[d] = call[d] /\ call[d].map \in Maps
                                  /\ (lock'[call[d].map] = d <=> lock[call[d].map] = d)
      /\ call'[c].pc \in {"idle", "restore"} /\ call'[c].pattern = Nil /\ call'[c].map = 1
      /\ call'[c].todo = call[c].todo /\ (call[c].todo # {} => call'[c].pc = "restore")
      /\ \A h \in Maps : lock'[h] # c /\ lock'[h] \in {lock[h], Nil}
  BY ReturnFacts
<1>2. ASSUME NEW d \in Callers PROVE CallOK(d)' /\ FreshOK(d)'
  <2>0. /\ CallOK(d) /\ FreshOK(d) /\ CallOK(c) /\ call[d].map \in Maps
        /\ call[d].pc = "signal" => call[d].pattern \in Patterns
    <3>1. CallOK(d) /\ FreshOK(d) /\ CallOK(c) /\ call[d].map \in Maps /\ call[d].pattern \in Patterns \cup {Nil}
      BY DEF CallsInv, CallTypes, CallType
    <3> QED
      BY <3>1 DEF CallOK
  <2>1. CASE d = c
    <3>1. 1 <= pm
      BY DEF CallsInv, CallTypes, Maps
    <3>2. CallOK(c)'
      BY <2>0, <3>1, <1>1 DEF CallOK, Adding, Removing, Waiting
    <3>3. FreshOK(c)'
      BY <1>1 DEF FreshOK
    <3> QED
      BY <2>1, <3>2, <3>3
  <2>2. CASE d # c
    <3>1. call[d].pc = "signal" => relations'[call[d].map][call[d].pattern] # Nil
      <4>1. call[d].pc = "signal" /\ call[c].pc = "delete" => call[d].map # g
        BY <2>0, <2>2 DEF CallOK, Removing
      <4>2. call[d].pc = "signal" => relations'[call[d].map][call[d].pattern] = relations[call[d].map][call[d].pattern]
        BY <2>0, <4>1
      <4> QED
        BY <2>0, <4>2 DEF CallOK
    <3>2. call[d].pc \in Removing => lock'[call[d].map] = d
      BY <2>0, <2>2, <1>1 DEF CallOK
    <3>3. call[d].pc \in Waiting => \A h \in Maps : lock'[h] # d
      BY <2>0, <2>2, <1>1, Constants DEF CallOK
    <3>4. CallOK(d)'
      BY <2>0, <2>2, <3>1, <3>2, <3>3, <1>1 DEF CallOK
    <3>5. call[d].pc = "relation" => call[d].proxy # Nil
      BY <2>0, Constants DEF CallOK, Adding
    <3>6. call[d].pc = "relation" => \A h \in Maps, q \in Patterns : relations'[h][q] # call[d].proxy
      BY <2>0, <3>5 DEF FreshOK
    <3>7. FreshOK(d)'
      BY <2>0, <2>2, <3>6, <1>1 DEF FreshOK
    <3> QED
      BY <3>4, <3>7
  <2> QED
    BY <2>1, <2>2
<1>3. ASSUME NEW h \in Maps, NEW q \in Patterns PROVE AliveOK(h, q)'
  <2>0. AliveOK(h, q)
    BY DEF CallsInv
  <2>1. CASE relations'[h][q] = Nil
    BY <2>1 DEF AliveOK
  <2>2. CASE relations'[h][q] # Nil
    <3>1. relations'[h][q] = relations[h][q]
      BY <2>2
    <3>2. ASSUME NEW d \in Callers, call[d].pc \in {"unroute", "delete"}, call[d].map = h, call[d].pattern = q
          PROVE  q \in broken' \/ (/\ call'[d].pc \in {"unroute", "delete"}
                                    /\ call'[d].map = h /\ call'[d].pattern = q)
      <4>1. CASE d = c
        BY <2>2, <3>2, <4>1
      <4>2. CASE d # c
        BY <3>2, <4>2, <1>1
      <4> QED
        BY <4>1, <4>2
    <3>3. \A i \in Maps, r \in Patterns : relations'[i][r] # Nil => relations'[i][r] = relations[i][r]
      OBVIOUS
    <3> QED
      BY <2>0, <2>2, <3>1, <3>2, <3>3 DEF AliveOK
  <2> QED
    BY <2>1, <2>2
<1> QED
  BY <1>2, <1>3

\* AddRelations, second half.
LEMMA AddRouteStep ==
    ASSUME CallsInv, NEW c \in Callers, AddRoute(c)
    PROVE  CallsInv'
<1> DEFINE p == call[c].pattern
           x == call[c].proxy
<1>0. /\ call[c].pc = "route" /\ routes' = [routes EXCEPT ![p] = x] /\ ghosts' = ghosts \ {p} /\ Return(c)
      /\ UNCHANGED <<router, relations, pm, running, created, crashed, raced, broken, equipped>>
  BY DEF AddRoute
<1>1. /\ \A d \in Callers \ {c} : /\ call'[d] = call[d] /\ call[d].map \in Maps
                                  /\ (lock'[call[d].map] = d <=> lock[call[d].map] = d)
      /\ call'[c].pc \in {"idle", "restore"} /\ call'[c].pattern = Nil
      /\ call'[c].todo = call[c].todo
      /\ call' \in [Callers -> CallType] /\ lock' \in [Maps -> Callers \cup {Nil}]
  BY <1>0, ReturnFacts
<1>2. /\ \A d \in Callers : CallOK(d)' /\ FreshOK(d)'
      /\ \A g \in Maps, q \in Patterns : AliveOK(g, q)'
  BY <1>0, ReturnKeeps
<1>3. p \in Patterns /\ x \in Proxies /\ routes \in [Patterns -> Proxies \cup {Nil}]
  <2>1. CallOK(c) /\ p \in Patterns \cup {Nil} /\ x \in Proxies \cup {Nil} /\ created \in Nat
        /\ routes \in [Patterns -> Proxies \cup {Nil}]
    BY DEF CallsInv, CallTypes, CallType
  <2>2. p \in Patterns /\ x \in 1 .. created
    BY <1>0, <2>1 DEF CallOK, Adding
  <2>3. x # Nil
    BY <2>1, <2>2, Constants
  <2> QED
    BY <2>1, <2>2, <2>3
<1>4. /\ \A q \in Patterns : routes'[q] = IF q = p THEN x ELSE routes[q]
      /\ routes' \in [Patterns -> Proxies \cup {Nil}]
  BY <1>0, <1>3
<1>5. CallTypes'
  BY <1>0, <1>1, <1>4 DEF CallsInv, CallTypes
<1>6. ASSUME NEW q \in Patterns \ (raced' \cup broken') PROVE PatternOK(q)'
  <2>1. PatternOK(q)
    BY <1>0 DEF CallsInv
  <2>2. CASE q # p
    <3>1. call'[c].pattern # q /\ call[c].pattern # q
      BY <2>2, <1>1, Constants
    <3>2. \A d \in Callers : q \in call'[d].todo <=> q \in call[d].todo
      BY <1>1
    <3>3. routes'[q] = routes[q] /\ (q \in ghosts' <=> q \in ghosts)
      BY <2>2, <1>0, <1>4
    <3> HIDE DEF p
    <3> QED
      BY <2>1, <3>1, <3>2, <3>3, <1>0, <1>1, PatternOther
  <2>3. CASE q = p
    <3>1. Works(c, q)
      BY <2>3, <1>0 DEF Works, Adding
    <3>2. \A d \in Callers : ~Works(d, q)'
      BY <2>1, <3>1, <1>1, Constants DEF PatternOK, Works
    <3>3. relations[pm][q] = x
      BY <2>1, <2>3, <1>0 DEF PatternOK
    <3>4. \A d \in Callers : q \notin call'[d].todo /\ (call'[d].pattern = q => call'[d].map = pm)
      BY <2>1, <2>3, <1>1, Constants DEF PatternOK
    <3>5. \A d \in Callers : call'[d].pattern = q => call'[d].pc \notin Adding \cup {"delete"}
      BY <3>2 DEF Works, Removing
    <3>6. q \notin ghosts' /\ routes'[q] = x
      BY <2>3, <1>0, <1>4
    <3> QED
      BY <3>2, <3>3, <3>4, <3>5, <3>6, <1>0 DEF PatternOK, Adding
  <2> QED
    BY <2>2, <2>3
<1>7. RouterOK'
  BY <1>0 DEF CallsInv, RouterOK
<1> QED
  BY <1>2, <1>5, <1>6, <1>7 DEF CallsInv

\* RemoveProxy, the end.
LEMMA DeleteRelationStep ==
    ASSUME CallsInv, NEW c \in Callers, DeleteRelation(c)
    PROVE  CallsInv'
<1> DEFINE g == call[c].map
           p == call[c].pattern
<1>0. /\ call[c].pc = "delete" /\ relations' = [relations EXCEPT ![g][p] = Nil] /\ Return(c)
      /\ UNCHANGED <<router, routes, pm, running, created, crashed, raced, ghosts, broken, equipped>>
  BY DEF DeleteRelation, history
<1>1. /\ \A d \in Callers \ {c} : /\ call'[d] = call[d] /\ call[d].map \in Maps
                                  /\ (lock'[call[d].map] = d <=> lock[call[d].map] = d)
      /\ call'[c].pc \in {"idle", "restore"} /\ call'[c].pattern = Nil
      /\ call'[c].todo = call[c].todo
      /\ call' \in [Callers -> CallType] /\ lock' \in [Maps -> Callers \cup {Nil}]
  BY <1>0, ReturnFacts
<1>2. g \in Maps /\ p \in Patterns /\ relations \in [Maps -> [Patterns -> Proxies \cup {Nil}]]
  <2>1. CallOK(c) /\ g \in Maps /\ p \in Patterns \cup {Nil}
        /\ relations \in [Maps -> [Patterns -> Proxies \cup {Nil}]]
    BY DEF CallsInv, CallTypes, CallType
  <2> QED
    BY <1>0, <2>1 DEF CallOK
<1>3. /\ \A h \in Maps, q \in Patterns :
            relations'[h][q] = IF h = g /\ q = p THEN Nil ELSE relations[h][q]
      /\ relations' \in [Maps -> [Patterns -> Proxies \cup {Nil}]]
  BY <1>0, <1>2
<1>4. /\ \A d \in Callers : CallOK(d)' /\ FreshOK(d)'
      /\ \A h \in Maps, q \in Patterns : AliveOK(h, q)'
  <2>1. call[c].pc \in {"route", "unroute", "delete"} /\ call[c].pc # "unroute"
    BY <1>0
  <2>2. \A h \in Maps, q \in Patterns :
            IF call[c].pc = "delete" /\ h = call[c].map /\ q = call[c].pattern
            THEN relations'[h][q] = Nil ELSE relations'[h][q] = relations[h][q]
    BY <1>0, <1>3
  <2> QED
    BY <1>0, <2>1, <2>2, ReturnKeeps
<1>5. CallTypes'
  BY <1>0, <1>1, <1>3 DEF CallsInv, CallTypes
<1>6. ASSUME NEW q \in Patterns \ (raced' \cup broken') PROVE PatternOK(q)'
  <2>1. PatternOK(q) /\ pm \in Maps
    BY <1>0 DEF CallsInv, CallTypes
  <2>2. CASE q # p
    <3>1. call'[c].pattern # q /\ call[c].pattern # q
      BY <2>2, <1>1, Constants
    <3>2. \A d \in Callers : q \in call'[d].todo <=> q \in call[d].todo
      BY <1>1
    <3>3. relations'[pm][q] = relations[pm][q]
      BY <2>1, <2>2, <1>3
    <3> HIDE DEF p, g
    <3> QED
      BY <2>1, <3>1, <3>2, <3>3, <1>0, <1>1, PatternOther
  <2>3. CASE q = p
    <3>1. Works(c, q)
      BY <2>3, <1>0 DEF Works, Removing
    <3>2. \A d \in Callers : ~Works(d, q)'
      BY <2>1, <3>1, <1>1, Constants DEF PatternOK, Works
    <3>3. g = pm /\ routes[q] = Nil
      BY <2>1, <2>3, <1>0 DEF PatternOK
    <3>4. relations'[pm][q] = Nil
      BY <2>1, <2>3, <3>3, <1>3
    <3>5. \A d \in Callers : q \notin call'[d].todo /\ (call'[d].pattern = q => call'[d].map = pm)
      BY <2>1, <2>3, <1>1, Constants DEF PatternOK
    <3>6. \A d \in Callers : call'[d].pattern = q => call'[d].pc \notin Adding \cup {"delete"}
      BY <3>2 DEF Works, Removing
    <3> QED
      BY <3>2, <3>3, <3>4, <3>5, <3>6, <1>0 DEF PatternOK, Adding
  <2> QED
    BY <2>2, <2>3
<1>7. RouterOK'
  BY <1>0 DEF CallsInv, RouterOK
<1> QED
  BY <1>4, <1>5, <1>6, <1>7 DEF CallsInv

\* A call that panics for want of a router.
LEMMA PanicStep ==
    ASSUME CallsInv, NEW c \in Callers, Panic(c)
    PROVE  CallsInv'
<1> DEFINE p == call[c].pattern
<1>0. /\ ~router /\ call[c].pc \in {"route", "unroute"} /\ crashed' = (c \notin Handlers)
      /\ broken' = broken \cup {p} /\ Return(c)
      /\ UNCHANGED <<router, routes, relations, pm, running, created, raced, ghosts, equipped>>
  BY DEF Panic
<1>1. /\ \A d \in Callers \ {c} : /\ call'[d] = call[d]
                                  /\ (lock'[call[d].map] = d <=> lock[call[d].map] = d)
      /\ call'[c].pattern = Nil /\ call'[c].todo = call[c].todo
      /\ call' \in [Callers -> CallType] /\ lock' \in [Maps -> Callers \cup {Nil}]
  BY <1>0, ReturnFacts
<1>2. p \in Patterns
  <2>1. CallOK(c) /\ p \in Patterns \cup {Nil}
    BY DEF CallsInv, CallTypes, CallType
  <2> QED
    BY <1>0, <2>1 DEF CallOK
<1>3. /\ \A d \in Callers : CallOK(d)' /\ FreshOK(d)'
      /\ \A g \in Maps, q \in Patterns : AliveOK(g, q)'
  <2>1. call[c].pc \in {"route", "unroute", "delete"} /\ call[c].pc # "delete" /\ broken \subseteq broken'
        /\ p \in broken'
    BY <1>0
  <2> QED
    BY <1>0, <2>1, ReturnKeeps
<1>4. crashed' \in BOOLEAN
  BY <1>0
<1>5. CallTypes'
  BY <1>0, <1>1, <1>2, <1>4 DEF CallsInv, CallTypes
<1>6. ASSUME NEW q \in Patterns \ (raced' \cup broken') PROVE PatternOK(q)'
  <2>1. PatternOK(q) /\ q # p
    BY <1>0 DEF CallsInv
  <2>2. call'[c].pattern # q /\ call[c].pattern # q
    BY <2>1, <1>1, Constants
  <2>3. \A d \in Callers : q \in call'[d].todo <=> q \in call[d].todo
    BY <1>1
  <2> HIDE DEF p
  <2> QED
    BY <2>1, <2>2, <2>3, <1>0, <1>1, PatternOther
<1>7. RouterOK'
  BY <1>0 DEF CallsInv, RouterOK
<1> QED
  BY <1>3, <1>5, <1>6, <1>7 DEF CallsInv

LEMMA StartRouterStep ==
    ASSUME CallsInv, ~crashed, StartRouter
    PROVE  CallsInv'
<1>1. /\ router' = TRUE /\ equipped' = TRUE
      /\ UNCHANGED <<routes, relations, lock, pm, running, created, call, crashed, raced, ghosts, broken>>
  BY DEF StartRouter
<1>2. CallTypes' /\ RouterOK'
  BY <1>1 DEF CallsInv, CallTypes, RouterOK
<1>3. ASSUME NEW d \in Callers PROVE CallOK(d)' /\ FreshOK(d)'
  BY <1>1 DEF CallsInv, CallOK, FreshOK
<1>4. ASSUME NEW g \in Maps, NEW q \in Patterns PROVE AliveOK(g, q)'
  BY <1>1 DEF CallsInv, AliveOK
<1>5. ASSUME NEW q \in Patterns \ (raced' \cup broken') PROVE PatternOK(q)'
  <2>1. PatternOK(q)
    BY <1>1 DEF CallsInv
  <2> QED
    BY <2>1, <1>1, PatternOther
<1> QED
  BY <1>2, <1>3, <1>4, <1>5 DEF CallsInv

\* Restore: the new ProxyMap is empty.
LEMMA RestoreStep ==
    ASSUME CallsInv, ~crashed, NEW locations \in SUBSET Patterns, Restore(locations)
    PROVE  CallsInv'
<1> DEFINE R == Goes(locations)
<1>0. /\ call[Fsm].pc = "idle" /\ pm < MaxMaps /\ pm' = pm + 1 /\ router' = TRUE /\ equipped' = TRUE
      /\ call' = [call EXCEPT ![Fsm] = R] /\ raced' = raced \cup Busy
      /\ ghosts' = ghosts \cup {p \in Patterns \ locations : routes[p] # Nil}
      /\ UNCHANGED <<routes, relations, lock, running, created, crashed, broken>>
      /\ Fsm \in Callers
  BY Constants DEF Restore
<1>1. /\ R \in CallType /\ R.pattern = Nil /\ R.map = 1 /\ R.todo = locations
      /\ R.pc \in {"idle", "restore"} /\ (locations # {} => R.pc = "restore")
  BY GoesType
<1> HIDE DEF R
<1>2. /\ \A d \in Callers : call'[d] = IF d = Fsm THEN R ELSE call[d]
      /\ call' \in [Callers -> CallType]
  BY <1>0, <1>1 DEF CallsInv, CallTypes
<1>3. pm \in Nat /\ pm' \in Maps /\ 1 <= pm'
  BY <1>0, Constants DEF CallsInv, CallTypes, Maps
<1>4. CallTypes'
  <2>1. Busy \subseteq Patterns
    <3>1. \A d \in Callers : call[d].todo \cup {call[d].pattern} \subseteq Patterns \cup {Nil}
      BY DEF CallsInv, CallTypes, CallType
    <3> DEFINE U == {call[d].todo \cup {call[d].pattern} : d \in Callers}
    <3>2. \A S \in U : S \subseteq Patterns \cup {Nil}
      BY <3>1
    <3> HIDE DEF U
    <3>3. (UNION U) \ {Nil} \subseteq Patterns
      BY <3>2
    <3> QED
      BY <3>3 DEF Busy, U
  <2>2. raced' \subseteq Patterns /\ ghosts' \subseteq Patterns
    BY <2>1, <1>0 DEF CallsInv, CallTypes
  <2>3. router' \in BOOLEAN /\ equipped' \in BOOLEAN
    BY <1>0
  <2> QED
    BY <2>2, <2>3, <1>0, <1>2, <1>3 DEF CallsInv, CallTypes
<1>5. RouterOK'
  BY <1>0 DEF RouterOK
<1>6. ASSUME NEW d \in Callers PROVE CallOK(d)' /\ FreshOK(d)'
  <2>0. CallOK(d) /\ FreshOK(d) /\ call[d].map \in Nat
    BY DEF CallsInv, CallTypes, CallType, Maps
  <2>1. CASE d = Fsm
    <3>1. \A g \in Maps : lock[g] # Fsm
      BY <2>0, <2>1, <1>0 DEF CallOK, Waiting
    <3>2. CallOK(Fsm)'
      BY <2>1, <3>1, <1>0, <1>1, <1>2, <1>3 DEF CallOK, Adding, Removing, Waiting
    <3>3. FreshOK(Fsm)'
      BY <2>1, <1>1, <1>2 DEF FreshOK
    <3> QED
      BY <2>1, <3>2, <3>3
  <2>2. CASE d # Fsm
    <3>1. call[d].map <= pm'
      BY <2>0, <1>0, <1>3 DEF CallOK
    <3>2. CallOK(d)'
      BY <2>0, <2>2, <3>1, <1>0, <1>2 DEF CallOK
    <3>3. FreshOK(d)'
      BY <2>0, <2>2, <1>0, <1>1, <1>2 DEF FreshOK
    <3> QED
      BY <3>2, <3>3
  <2> QED
    BY <2>1, <2>2
<1>7. ASSUME NEW g \in Maps, NEW q \in Patterns PROVE AliveOK(g, q)'
  <2>0. AliveOK(g, q)
    BY DEF CallsInv
  <2>1. \A d \in Callers : call[d].pc \in {"unroute", "delete"} => call'[d] = call[d]
    BY <1>0, <1>2
  <2>2. g <= pm => g <= pm'
    BY <1>0, <1>3 DEF Maps
  <2> QED
    BY <2>0, <2>1, <2>2, <1>0 DEF AliveOK
<1>8. ASSUME NEW q \in Patterns \ (raced' \cup broken') PROVE PatternOK(q)'
  <2>1. \A d \in Callers : call[d].pattern # q /\ q \notin call[d].todo
    BY <1>0, NotBusy
  <2>2. \A d \in Callers : call'[d].pattern # q
    BY <2>1, <1>1, <1>2, Constants
  <2>3. relations[pm'][q] = Nil
    <3>1. AliveOK(pm', q)
      BY <1>3 DEF CallsInv
    <3>2. ~(pm' <= pm)
      BY <1>0, <1>3
    <3> QED
      BY <3>1, <3>2 DEF AliveOK
  <2>4. q \in ghosts' \/ routes[q] = Nil \/ q \in call'[Fsm].todo
    BY <1>0, <1>1, <1>2
  <2> QED
    BY <2>2, <2>3, <2>4, <1>0 DEF PatternOK, Works
<1> QED
  BY <1>4, <1>5, <1>6, <1>7, <1>8 DEF CallsInv

\* Every step of a call.
LEMMA CallsStep == CallsInv /\ ~crashed /\ Call => CallsInv'
<1> SUFFICES ASSUME CallsInv, ~crashed, Call PROVE CallsInv'
  OBVIOUS
<1>1. ASSUME NEW p \in Patterns, ApplyAdd(p) PROVE CallsInv'
  BY <1>1, BeginStep, Constants DEF ApplyAdd
<1>2. ASSUME NEW c \in Callers, NEW p \in Patterns, RemoveProxy(c, p) PROVE CallsInv'
  BY <1>2, BeginStep DEF RemoveProxy
<1>3. ASSUME NEW c \in Callers, SignalShutDown(c) PROVE CallsInv'
  <2>1. /\ call[c].pc = "signal" /\ call' = [call EXCEPT ![c].pc = "unroute"]
        /\ running' = running \ {relations[call[c].map][call[c].pattern]}
        /\ UNCHANGED <<router, routes, relations, lock, pm, created, crashed, raced, ghosts, broken, equipped>>
    BY <1>3 DEF SignalShutDown, history
  <2> QED
    BY <2>1, RemovingStep
<1>4. ASSUME NEW c \in Callers, RemoveRoute(c) PROVE CallsInv'
  <2>1. /\ call[c].pc = "unroute" /\ call' = [call EXCEPT ![c].pc = "delete"]
        /\ routes' = [routes EXCEPT ![call[c].pattern] = Nil]
        /\ UNCHANGED <<router, running, relations, lock, pm, created, crashed, raced, ghosts, broken, equipped>>
    BY <1>4 DEF RemoveRoute, history
  <2> QED
    BY <2>1, RemovingStep
<1> QED
  BY <1>1, <1>2, <1>3, <1>4, AddProxyStep, RestoreLocationStep, LockAddStep, StartRouterStep, RestoreStep,
     SetRelationStep, AddRouteStep, LockRemoveStep, DeleteRelationStep, PanicStep DEF Call

\* Races and panics are remembered.
LEMMA HistoryGrows == Call => raced \subseteq raced' /\ broken \subseteq broken'
  BY DEF Call, AddProxy, RemoveProxy, ApplyAdd, RestoreLocation, LockAdd, StartRouter, Restore, SetRelation,
     AddRoute, LockRemove, SignalShutDown, RemoveRoute, DeleteRelation, Panic, history

\* Steps of requests do not touch the patterns.
LEMMA ServeKeepsCalls ==
    ASSUME CallsInv, UNCHANGED <<callVars, history>>
    PROVE  CallsInv' /\ Settled' = Settled
<1>1. UNCHANGED <<router, routes, relations, lock, pm, running, created, call, crashed, raced, ghosts,
                  broken, equipped>>
  BY DEF callVars, history
<1>2. CallTypes' /\ RouterOK'
  BY <1>1 DEF CallsInv, CallTypes, RouterOK
<1>3. ASSUME NEW d \in Callers PROVE CallOK(d)' /\ FreshOK(d)'
  BY <1>1 DEF CallsInv, CallOK, FreshOK
<1>4. ASSUME NEW g \in Maps, NEW q \in Patterns PROVE AliveOK(g, q)'
  BY <1>1 DEF CallsInv, AliveOK
<1>5. ASSUME NEW q \in Patterns \ (raced' \cup broken') PROVE PatternOK(q)'
  <2>1. PatternOK(q)
    BY <1>1 DEF CallsInv
  <2> QED
    BY <2>1, <1>1, PatternOther
<1>6. Settled' = Settled
  BY <1>1 DEF Settled, Busy
<1> QED
  BY <1>2, <1>3, <1>4, <1>5, <1>6 DEF CallsInv

\* A pattern that is registered and left alone has a route.
LEMMA SettledHasRoute ==
    ASSUME CallsInv, NEW p \in Settled, p \notin raced \cup broken
    PROVE  routes[p] # Nil
<1>1. p \in Patterns /\ p \notin Busy /\ relations[pm][p] # Nil
  BY DEF Settled
<1>2. \A d \in Callers : call[d].pattern # p /\ p \notin call[d].todo
  BY <1>1, NotBusy
<1>3. PatternOK(p)
  BY <1>1 DEF CallsInv
<1> QED
  BY <1>1, <1>2, <1>3 DEF PatternOK

-----------------------------------------------------------------------------
(***************************************************************************)
(* The steps of requests.                                                  *)
(***************************************************************************)
RequestType ==
    [pc : {"idle", "has", "get", "proxy", "none"}, path : Paths \cup {<<>>}, k : Nat \cup {-1},
     proxy : Proxies \cup {Nil}]

LEMMA RequestsInit == Init => RequestTypes /\ \A r \in Requests : RequestOK(r)
<1> SUFFICES ASSUME Init PROVE RequestTypes /\ \A r \in Requests : RequestOK(r)
  OBVIOUS
<1>1. NoRequest \in RequestType /\ NoRequest.pc = "idle" /\ NoRequest.k = -1 /\ NoRequest.path = <<>>
  BY DEF NoRequest, RequestType
<1>2. req \in [Requests -> RequestType] /\ \A r \in Requests : req[r] = NoRequest
  BY <1>1 DEF Init
<1>3. \A r \in Requests : req[r].k < Len(req[r].path)
  <2>1. Len(<<>>) = 0 /\ -1 < 0
    OBVIOUS
  <2> QED
    BY <1>1, <1>2, <2>1
<1>4. calm \in [Requests -> SUBSET Patterns]
  BY DEF Init
<1>5. RequestTypes
  BY <1>2, <1>3, <1>4 DEF RequestTypes, RequestType
<1> QED
  BY <1>1, <1>2, <1>5 DEF RequestOK

\* Observe, request by request.
LEMMA CalmFacts ==
    ASSUME Observe, Settled' \subseteq Patterns, calm \in [Requests -> SUBSET Patterns]
    PROVE  /\ calm' \in [Requests -> SUBSET Patterns]
           /\ \A r \in Requests : calm'[r] = IF req'[r].pc = "idle" THEN {}
                                             ELSE IF req[r].pc = "idle" THEN Settled'
                                             ELSE calm[r] \cap Settled'
  BY DEF Observe

\* The requests, while a call makes a step.
LEMMA RequestsBesideCall ==
    ASSUME CallsInv, RequestTypes, \A r \in Requests : RequestOK(r), Call, UNCHANGED req, Observe
    PROVE  RequestTypes' /\ \A r \in Requests : RequestOK(r)'
<1>1. raced \subseteq raced' /\ broken \subseteq broken'
  BY HistoryGrows
<1>2. Settled' \subseteq Patterns
  BY DEF Settled
<1>3. /\ calm' \in [Requests -> SUBSET Patterns]
      /\ \A r \in Requests : calm'[r] = IF req'[r].pc = "idle" THEN {}
                                        ELSE IF req[r].pc = "idle" THEN Settled'
                                        ELSE calm[r] \cap Settled'
  BY <1>2, CalmFacts DEF RequestTypes
<1>4. RequestTypes'
  BY <1>3 DEF RequestTypes
<1>5. ASSUME NEW r \in Requests PROVE RequestOK(r)'
  <2>1. RequestOK(r)
    OBVIOUS
  <2>2. CASE req[r].pc = "idle"
    BY <2>2 DEF RequestOK
  <2>3. CASE req[r].pc # "idle"
    <3>1. calm'[r] = calm[r] \cap Settled'
      BY <2>3, <1>3
    <3>2. calm'[r] \subseteq Settled'
      BY <3>1
    <3>3. \A p \in calm'[r] \ (raced' \cup broken') : p \in calm[r] \ (raced \cup broken)
      BY <3>1, <1>1
    <3> QED
      BY <2>1, <2>3, <3>2, <3>3 DEF RequestOK
  <2> QED
    BY <2>2, <2>3
<1> QED
  BY <1>4, <1>5

\* What a request holds after a step of its search, when it knew the patterns
\* of the set known to be settled.
SearchOK(q, known) ==
    /\ q.k < Len(q.path)
    /\ q.pc \in {"has", "get", "proxy"} => q.k >= 0
    /\ q.pc = "get" => Prefix(q.path, q.k) \in Patterns
    /\ q.pc # "idle" =>
          \A p \in known \ (raced \cup broken) : Matches(p, q.path) =>
              Len(p) <= q.k /\ (q.pc = "none" => Len(p) < q.k)

LEMMA ServeHTTPStep ==
    ASSUME RequestTypes, NEW r \in Requests, NEW path \in Paths, ServeHTTP(r, path)
    PROVE  /\ req[r].pc = "idle"
           /\ \E q \in RequestType : req' = [req EXCEPT ![r] = q] /\ q.pc = "has" /\ SearchOK(q, Settled)
<1>1. Len(path) \in Nat \ {0} /\ \A p \in Settled : Len(p) \in Nat
  BY GatewayAssumption DEF Settled
<1> DEFINE q == [pc |-> "has", path |-> path, k |-> FirstTry(path), proxy |-> Nil]
<1>2. q.pc = "has" /\ q.path = path /\ q.k = FirstTry(path)
  OBVIOUS
<1>3. FirstTry(path) \in Nat /\ FirstTry(path) < Len(path) /\ FirstTry(path) >= 0
  BY <1>1 DEF FirstTry
<1>4. \A p \in Settled : Len(p) < Len(path) => Len(p) <= FirstTry(path)
  BY <1>1 DEF FirstTry
<1>5. q \in RequestType
  BY <1>3 DEF RequestType
<1>6. req[r].pc = "idle" /\ req' = [req EXCEPT ![r] = q]
  BY DEF ServeHTTP
<1> HIDE DEF q
<1>7. SearchOK(q, Settled)
  BY <1>2, <1>3, <1>4 DEF SearchOK, Matches
<1> QED
  BY <1>2, <1>5, <1>6, <1>7

LEMMA HasPrefixStep ==
    ASSUME CallsInv, RequestTypes, NEW r \in Requests, RequestOK(r), HasPrefix(r)
    PROVE  /\ req[r].pc # "idle"
           /\ \E q \in RequestType : req' = [req EXCEPT ![r] = q] /\ q.pc # "idle" /\ SearchOK(q, calm[r])
<1> DEFINE o == req[r]
           P == Prefix(o.path, o.k)
           has == P \in Patterns /\ routes[P] # Nil
<1>0. /\ o \in RequestType /\ o.pc = "has" /\ o.k < Len(o.path) /\ o.k \in Nat /\ Len(o.path) \in Nat
      /\ calm[r] \subseteq Settled
      /\ \A p \in calm[r] \ (raced \cup broken) : Matches(p, o.path) => Len(p) <= o.k
      /\ \A p \in calm[r] : Len(p) \in Nat
  <2>1. o \in RequestType /\ o.pc = "has" /\ o.k < Len(o.path)
    BY DEF RequestTypes, RequestType, HasPrefix
  <2>2. o.k \in Nat
    BY <2>1 DEF RequestOK, RequestType
  <2>3. Len(o.path) \in Nat
    BY <2>1, GatewayAssumption DEF RequestType
  <2>4. calm[r] \subseteq Settled /\ \A p \in calm[r] \ (raced \cup broken) : Matches(p, o.path) => Len(p) <= o.k
    BY <2>1 DEF RequestOK
  <2>5. \A p \in calm[r] : Len(p) \in Nat
    BY <2>4, GatewayAssumption DEF Settled
  <2> QED
    BY <2>1, <2>2, <2>3, <2>4, <2>5
<1> DEFINE E == CASE has -> [o EXCEPT !.pc = "get"]
                  [] ~has /\ o.k > 0 -> [o EXCEPT !.k = o.k - 1]
                  [] ~has /\ o.k = 0 -> [o EXCEPT !.k = -1, !.pc = "none"]
<1>E. req' = [req EXCEPT ![r] = E]
  BY DEF HasPrefix
<1>1. CASE has
  <2> DEFINE q == [o EXCEPT !.pc = "get"]
  <2>1. req' = [req EXCEPT ![r] = q]
    BY <1>1 DEF HasPrefix
  <2>2. q \in RequestType /\ q.pc = "get" /\ q.path = o.path /\ q.k = o.k
    BY <1>0 DEF RequestType
  <2> HIDE DEF q, o
  <2>3. P \in Patterns
    BY <1>1
  <2>4. SearchOK(q, calm[r])
    BY <1>0, <2>2, <2>3 DEF SearchOK
  <2> QED
    BY <1>0, <2>1, <2>2, <2>4 DEF o
<1>2. ASSUME ~has, NEW p \in calm[r] \ (raced \cup broken), Matches(p, o.path)
      PROVE  Len(p) <= o.k - 1
  <2>1. p \in Patterns /\ routes[p] # Nil
    BY <1>0, <1>2, SettledHasRoute DEF Settled
  <2>2. Len(p) # o.k
    <3>1. p = Prefix(o.path, Len(p))
      BY <1>2 DEF Matches
    <3> QED
      BY <1>2, <2>1, <3>1
  <2> HIDE DEF has, P
  <2>3. Len(p) <= o.k /\ Len(p) \in Nat
    BY <1>0, <1>2
  <2> HIDE DEF o
  <2> QED
    BY <1>0, <2>2, <2>3
<1>3. CASE ~has /\ o.k > 0
  <2> DEFINE q == [o EXCEPT !.k = o.k - 1]
  <2>1. req' = [req EXCEPT ![r] = q]
    <3>1. E = q
      <4> HIDE DEF has, o
      <4> QED
        BY <1>0, <1>3
    <3> QED
      BY <3>1, <1>E
  <2>2. q \in RequestType /\ q.pc = "has" /\ q.path = o.path /\ q.k = o.k - 1
    <3>1. o.k - 1 \in Nat
      BY <1>0, <1>3
    <3> QED
      BY <1>0, <3>1 DEF RequestType
  <2>3. o.k - 1 >= 0 /\ o.k - 1 < Len(o.path)
    BY <1>0, <1>3
  <2> HIDE DEF q, o
  <2>4. SearchOK(q, calm[r])
    BY <1>2, <1>3, <2>2, <2>3 DEF SearchOK
  <2> QED
    BY <1>0, <2>1, <2>2, <2>4 DEF o
<1>4. CASE ~has /\ o.k = 0
  <2> DEFINE q == [o EXCEPT !.k = -1, !.pc = "none"]
  <2>1. req' = [req EXCEPT ![r] = q]
    <3>1. E = q
      <4> HIDE DEF has, o
      <4> QED
        BY <1>0, <1>4
    <3> QED
      BY <3>1, <1>E
  <2>2. q \in RequestType /\ q.pc = "none" /\ q.path = o.path /\ q.k = -1
    BY <1>0 DEF RequestType
  <2>3. -1 < Len(o.path)
    BY <1>0
  <2>4. \A p \in calm[r] \ (raced \cup broken) : ~Matches(p, o.path)
    <3>1. ASSUME NEW p \in calm[r] \ (raced \cup broken), Matches(p, o.path) PROVE FALSE
      <4>1. Len(p) <= o.k - 1
        BY <1>2, <1>4, <3>1
      <4>2. Len(p) \in Nat /\ o.k = 0
        BY <1>0, <1>4
      <4> QED
        BY <4>1, <4>2
    <3> QED
      BY <3>1
  <2> HIDE DEF q, o
  <2>5. SearchOK(q, calm[r])
    BY <2>2, <2>3, <2>4 DEF SearchOK
  <2> QED
    BY <1>0, <2>1, <2>2, <2>5 DEF o
<1>5. o.k > 0 \/ o.k = 0
  BY <1>0
<1> QED
  BY <1>1, <1>3, <1>4, <1>5

LEMMA GetRouteStep ==
    ASSUME CallsInv, RequestTypes, NEW r \in Requests, RequestOK(r), GetRoute(r)
    PROVE  /\ req[r].pc # "idle"
           /\ \E q \in RequestType : req' = [req EXCEPT ![r] = q] /\ q.pc # "idle" /\ SearchOK(q, calm[r])
<1> DEFINE o == req[r]
           P == Prefix(o.path, o.k)
           x == routes[P]
           q == [o EXCEPT !.pc = IF x = Nil THEN "none" ELSE "proxy", !.proxy = x]
<1>0. /\ o \in RequestType /\ o.pc = "get" /\ o.k < Len(o.path) /\ o.k \in Nat /\ P \in Patterns
      /\ calm[r] \subseteq Settled
      /\ \A p \in calm[r] \ (raced \cup broken) : Matches(p, o.path) => Len(p) <= o.k
      /\ \A p \in calm[r] : Len(p) \in Nat
      /\ x \in Proxies \cup {Nil} /\ req \in [Requests -> RequestType]
  <2>1. o \in RequestType /\ o.pc = "get" /\ o.k < Len(o.path) /\ req \in [Requests -> RequestType]
    BY DEF RequestTypes, RequestType, GetRoute
  <2>2. o.k \in Nat /\ P \in Patterns
    BY <2>1 DEF RequestOK, RequestType
  <2>3. x \in Proxies \cup {Nil}
    <3>1. routes \in [Patterns -> Proxies \cup {Nil}]
      BY DEF CallsInv, CallTypes
    <3> QED
      BY <2>2, <3>1
  <2>4. calm[r] \subseteq Settled /\ \A p \in calm[r] \ (raced \cup broken) : Matches(p, o.path) => Len(p) <= o.k
    BY <2>1 DEF RequestOK
  <2>5. \A p \in calm[r] : Len(p) \in Nat
    BY <2>4, GatewayAssumption DEF Settled
  <2> QED
    BY <2>1, <2>2, <2>3, <2>4, <2>5
<1>1. q \in RequestType /\ q.pc = (IF x = Nil THEN "none" ELSE "proxy") /\ q.path = o.path /\ q.k = o.k
  <2> HIDE DEF o, x
  <2> QED
    BY <1>0 DEF RequestType
<1>2. req' = [req EXCEPT ![r] = q]
  <2>1. req' = [req EXCEPT ![r].pc = IF x = Nil THEN "none" ELSE "proxy", ![r].proxy = x]
    BY DEF GetRoute
  <2> HIDE DEF x
  <2> QED
    BY <1>0, <2>1 DEF RequestType
<1>3. ASSUME x = Nil, NEW p \in calm[r] \ (raced \cup broken), Matches(p, o.path)
      PROVE  Len(p) < o.k
  <2>1. routes[p] # Nil
    BY <1>0, SettledHasRoute
  <2>2. Len(p) # o.k
    <3>1. p = Prefix(o.path, Len(p))
      BY <1>3 DEF Matches
    <3> QED
      BY <1>3, <2>1, <3>1
  <2>3. Len(p) <= o.k /\ Len(p) \in Nat
    BY <1>0, <1>3
  <2> HIDE DEF o
  <2> QED
    BY <1>0, <2>2, <2>3
<1>4. o.k >= 0
  BY <1>0
<1> HIDE DEF q, x, o
<1>5. SearchOK(q, calm[r])
  BY <1>0, <1>1, <1>3, <1>4 DEF SearchOK
<1>6. q.pc # "idle"
  BY <1>1
<1> QED
  BY <1>0, <1>1, <1>2, <1>5, <1>6 DEF o

LEMMA FinishStep ==
    ASSUME NEW r \in Requests, Finish(r)
    PROVE  /\ req[r].pc # "idle"
           /\ \E q \in RequestType : req' = [req EXCEPT ![r] = q] /\ q.pc = "idle" /\ SearchOK(q, {})
<1>1. NoRequest \in RequestType /\ NoRequest.pc = "idle" /\ NoRequest.k = -1 /\ NoRequest.path = <<>>
  BY DEF NoRequest, RequestType
<1>2. -1 < Len(<<>>)
  OBVIOUS
<1>3. SearchOK(NoRequest, {})
  BY <1>1, <1>2 DEF SearchOK
<1> QED
  BY <1>1, <1>3 DEF Finish

\* The requests, while one of them makes a step.
LEMMA RequestsServe ==
    ASSUME CallsInv, RequestTypes, \A r \in Requests : RequestOK(r), Serve,
           UNCHANGED <<callVars, history>>, Observe
    PROVE  RequestTypes' /\ \A r \in Requests : RequestOK(r)'
<1>0. Settled' = Settled /\ raced' = raced /\ broken' = broken
  BY ServeKeepsCalls DEF history
<1>1. PICK r \in Requests : \/ \E path \in Paths : ServeHTTP(r, path)
                            \/ HasPrefix(r) \/ GetRoute(r) \/ Finish(r)
  BY DEF Serve
<1> DEFINE known == IF req[r].pc = "idle" THEN Settled ELSE calm[r]
<1> DEFINE Steps(q) == /\ req' = [req EXCEPT ![r] = q]
                       /\ q.pc = "idle" \/ SearchOK(q, known)
                       /\ q.k < Len(q.path)
<1>2a. \E q \in RequestType : Steps(q)
  <2>1. ASSUME NEW path \in Paths, ServeHTTP(r, path) PROVE \E q \in RequestType : Steps(q)
    BY <2>1, ServeHTTPStep DEF SearchOK
  <2>2. ASSUME HasPrefix(r) PROVE \E q \in RequestType : Steps(q)
    BY <2>2, HasPrefixStep DEF SearchOK
  <2>3. ASSUME GetRoute(r) PROVE \E q \in RequestType : Steps(q)
    BY <2>3, GetRouteStep DEF SearchOK
  <2>4. ASSUME Finish(r) PROVE \E q \in RequestType : Steps(q)
    BY <2>4, FinishStep DEF SearchOK
  <2> HIDE DEF Steps
  <2> QED
    BY <2>1, <2>2, <2>3, <2>4, <1>1
<1>2. PICK q \in RequestType : /\ req' = [req EXCEPT ![r] = q]
                               /\ q.pc = "idle" \/ SearchOK(q, known)
                               /\ q.k < Len(q.path)
  BY <1>2a
<1>3. req \in [Requests -> RequestType] /\ calm \in [Requests -> SUBSET Patterns]
      /\ \A s \in Requests : req[s].k < Len(req[s].path)
  BY DEF RequestTypes, RequestType
<1>4. /\ req' \in [Requests -> RequestType] /\ req'[r] = q
      /\ \A s \in Requests \ {r} : req'[s] = req[s]
      /\ \A s \in Requests : req'[s].k < Len(req'[s].path)
  BY <1>2, <1>3
<1>5. Settled' \subseteq Patterns
  BY DEF Settled
<1>6. /\ calm' \in [Requests -> SUBSET Patterns]
      /\ \A s \in Requests : calm'[s] = IF req'[s].pc = "idle" THEN {}
                                        ELSE IF req[s].pc = "idle" THEN Settled'
                                        ELSE calm[s] \cap Settled'
  BY <1>3, <1>5, CalmFacts
<1>7. RequestTypes'
  BY <1>4, <1>6 DEF RequestTypes, RequestType
<1>8. ASSUME NEW s \in Requests PROVE RequestOK(s)'
  <2>0. RequestOK(s)
    OBVIOUS
  <2>1. CASE req'[s].pc = "idle"
    BY <2>1 DEF RequestOK
  <2>2. CASE s = r /\ q.pc # "idle"
    <3>1. calm'[r] \subseteq Settled /\ calm'[r] \subseteq known
      BY <2>2, <1>0, <1>4, <1>6
    <3>2. SearchOK(q, known)
      BY <2>2, <1>2
    <3> HIDE DEF known
    <3> QED
      BY <2>2, <3>1, <3>2, <1>0, <1>4 DEF RequestOK, SearchOK
  <2>3. CASE s # r /\ req'[s].pc # "idle"
    <3>1. req'[s] = req[s] /\ req[s].pc # "idle"
      BY <2>3, <1>4
    <3>2. calm'[s] = calm[s] \cap Settled
      BY <2>3, <3>1, <1>0, <1>6
    <3> QED
      BY <2>0, <3>1, <3>2, <1>0 DEF RequestOK
  <2> QED
    BY <2>1, <2>2, <2>3, <1>4
<1> QED
  BY <1>7, <1>8

-----------------------------------------------------------------------------
(***************************************************************************)
(* The theorems.                                                           *)
(***************************************************************************)
LEMMA GatewayInit == Init => GatewayInv
  BY CallsInit, RequestsInit DEF GatewayInv

LEMMA GatewayNext == GatewayInv /\ [Next]_vars => GatewayInv'
<1> SUFFICES ASSUME GatewayInv, [Next]_vars PROVE GatewayInv'
  OBVIOUS
<1>0. CallsInv /\ RequestTypes /\ \A r \in Requests : RequestOK(r)
  BY DEF GatewayInv
<1>1. CASE Next /\ Call /\ UNCHANGED req
  <2>1. CallsInv'
    BY <1>0, <1>1, CallsStep DEF Next
  <2> QED
    BY <1>0, <1>1, <2>1, RequestsBesideCall DEF GatewayInv, Next
<1>2. CASE Next /\ Serve /\ UNCHANGED <<callVars, history>>
  <2>1. CallsInv'
    BY <1>0, <1>2, ServeKeepsCalls
  <2> QED
    BY <1>0, <1>2, <2>1, RequestsServe DEF GatewayInv, Next
<1>3. CASE UNCHANGED vars
  <2>1. UNCHANGED <<callVars, history>> /\ UNCHANGED <<req, calm>>
    BY <1>3 DEF vars
  <2>2. CallsInv' /\ Settled' = Settled
    BY <1>0, <2>1, ServeKeepsCalls
  <2>3. RequestTypes'
    BY <1>0, <2>1 DEF RequestTypes
  <2>4. raced' = raced /\ broken' = broken
    BY <2>1 DEF history
  <2>5. ASSUME NEW r \in Requests PROVE RequestOK(r)'
    BY <1>0, <2>1, <2>2, <2>4 DEF RequestOK
  <2> QED
    BY <2>2, <2>3, <2>5 DEF GatewayInv
<1> QED
  BY <1>1, <1>2, <1>3 DEF Next

\* The gateway's types.
THEOREM GatewayTypes == Spec => []TypeOK
<1>1. GatewayInv => TypeOK
  BY TypeParts DEF GatewayInv, CallsInv
<1> QED
  BY <1>1, GatewayInit, GatewayNext, PTL DEF Spec

(***************************************************************************)
(* Router and ProxyMap agree on every pattern that is not being changed,   *)
(* outside the listed races, whatever goroutines add, remove and restore   *)
(* (AddRelations, RemoveProxy, Restore).                                   *)
(***************************************************************************)
THEOREM RouterFollowsProxyMap == Spec => []RoutesAgree
<1>1. ASSUME GatewayInv PROVE RoutesAgree
  <2> SUFFICES ASSUME NEW p \in Patterns \ (Busy \cup raced \cup ghosts \cup broken)
               PROVE  routes[p] = relations[pm][p]
    BY DEF RoutesAgree
  <2>1. \A d \in Callers : call[d].pattern # p /\ p \notin call[d].todo
    BY NotBusy
  <2>2. PatternOK(p)
    BY <1>1 DEF GatewayInv, CallsInv
  <2> QED
    BY <2>1, <2>2 DEF PatternOK
<1> QED
  BY <1>1, GatewayInit, GatewayNext, PTL DEF Spec

(***************************************************************************)
(* A request is never answered by a shorter pattern, or not found, while a *)
(* longer one stood untouched, however HasPrefix and the read of the route *)
(* interleave with changes of other patterns (Route).                      *)
(***************************************************************************)
THEOREM RequestsFindCalmPatterns == Spec => []LongestCalmPattern
<1>1. GatewayInv => LongestCalmPattern
  BY DEF GatewayInv, RequestOK, LongestCalmPattern
<1> QED
  BY <1>1, GatewayInit, GatewayNext, PTL DEF Spec

(***************************************************************************)
(* RemoveProxy, which holds the mutex while it sends on the channel of a   *)
(* proxy, sends to one whose shutDownCheck still receives.                 *)
(***************************************************************************)
THEOREM RemovalsAreReceived == Spec => []SignalHasReceiver
<1>1. ASSUME GatewayInv PROVE SignalHasReceiver
  <2> SUFFICES ASSUME NEW c \in Callers, call[c].pc = "signal", call[c].pattern \notin broken
               PROVE  relations[call[c].map][call[c].pattern] \in running
    BY DEF SignalHasReceiver
  <2>1. /\ \A d \in Callers : CallOK(d)
        /\ call[c].map \in Maps /\ call[c].pattern \in Patterns \cup {Nil}
    BY <1>1 DEF GatewayInv, CallsInv, CallTypes, CallType
  <2>2. call[c].pattern \in Patterns /\ relations[call[c].map][call[c].pattern] # Nil
    BY <2>1 DEF CallOK
  <2>3. AliveOK(call[c].map, call[c].pattern)
    BY <1>1, <2>1, <2>2 DEF GatewayInv, CallsInv
  <2>4. ASSUME NEW d \in Callers, call[d].pc \in {"unroute", "delete"}, call[d].map = call[c].map
        PROVE  FALSE
    <3>1. lock[call[d].map] = d /\ lock[call[c].map] = c
      BY <2>1, <2>4 DEF CallOK, Removing
    <3> QED
      BY <2>4, <3>1
  <2> QED
    BY <2>2, <2>3, <2>4 DEF AliveOK
<1> QED
  BY <1>1, GatewayInit, GatewayNext, PTL DEF Spec

(***************************************************************************)
(* A change of patterns crashes only a node that has neither started its   *)
(* router nor restored a snapshot.                                         *)
(***************************************************************************)
THEOREM EquippedNodesSurvive == Spec => []NoCrashOnceEquipped
<1>1. GatewayInv => NoCrashOnceEquipped
  BY DEF GatewayInv, CallsInv, RouterOK, NoCrashOnceEquipped
<1> QED
  BY <1>1, GatewayInit, GatewayNext, PTL DEF Spec
=============================================================================
