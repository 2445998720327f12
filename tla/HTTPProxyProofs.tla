-------------------------- MODULE HTTPProxyProofs --------------------------
(***************************************************************************)
(* Proofs about HTTPProxy, for any hosts, callers and number of calls.     *)
(***************************************************************************)
EXTENDS HTTPProxy, TLAPS

USE HTTPProxyAssumption

LEMMA InitTypeOK == Init => TypeOK
  BY DEF Init, TypeOK, CheckIds, Gens, CheckPCs, Idle, Busy

LEMMA CheckTypeOK ==
  ASSUME TypeOK, NEW c \in CheckIds, HealthCheckStep(c)
  PROVE  TypeOK'
<1> USE DEF TypeOK, proxyVars, Goto, CheckIds, CheckPCs
<1>1. CASE EnterSelect(c)  BY <1>1 DEF EnterSelect
<1>2. CASE Tick(c)         BY <1>2 DEF Tick
<1>3. CASE ReadDown(c)     BY <1>3 DEF ReadDown
<1>4. CASE SetDead(c)      BY <1>4 DEF SetDead
<1>5. CASE LbRemove(c)     BY <1>5 DEF LbRemove
<1>6. CASE DialAgain(c)    BY <1>6 DEF DialAgain
<1>7. CASE ReadUp(c)       BY <1>7 DEF ReadUp
<1>8. CASE SetAlive(c)     BY <1>8 DEF SetAlive
<1>9. CASE LbAdd(c)        BY <1>9 DEF LbAdd
<1> QED
  BY <1>1, <1>2, <1>3, <1>4, <1>5, <1>6, <1>7, <1>8, <1>9 DEF HealthCheckStep

LEMMA CallTypeOK ==
  ASSUME TypeOK, NEW p \in Callers, NEW op \in Ops, NEW h \in Hosts, Call(p, op, h)
  PROVE  TypeOK'
<1>1. FirstPC(op) \in CallPCs \ {"idle"}
  BY DEF FirstPC, CallPCs, AllOps
<1>2. [Idle EXCEPT !.pc = FirstPC(op), !.host = h] \in Busy
  BY <1>1 DEF Idle, Busy
<1>3. call' \in [Callers -> {Idle} \cup Busy]
  BY <1>2 DEF TypeOK, Call
<1>4. ncalls' \in 0 .. MaxCalls
  BY DEF TypeOK, Call
<1> QED
  BY <1>3, <1>4 DEF TypeOK, Call, checkVars, history

LEMMA AdminTypeOK ==
  ASSUME TypeOK, NEW p \in Callers, AdminStep(p)
  PROVE  TypeOK'
<1> USE DEF TypeOK, At, Move, Return, adminVars, history, Idle, Busy, CallPCs
<1>1. CASE AddHostMap(p)     BY <1>1 DEF AddHostMap
<1>2. CASE AddAlive(p)       BY <1>2 DEF AddAlive
<1>3. CASE AddChan(p)        BY <1>3 DEF AddChan
<1>4. CASE AddLb(p)          BY <1>4 DEF AddLb
<1>5. CASE AddSpawn(p)       BY <1>5 DEF AddSpawn, CheckIds, Gens, CheckPCs
<1>6. CASE PickChan(p)
  <2>1. call[p] \in Busy
    BY <1>6 DEF PickChan
  <2>2. [call[p] EXCEPT !.pc = "send", !.ch = shut[call[p].host]] \in Busy
    BY <2>1
  <2>3. call' \in [Callers -> {Idle} \cup Busy]
    BY <1>6, <2>2 DEF PickChan
  <2> QED  BY <1>6, <2>3 DEF PickChan
<1>7. CASE SendStop(p)
  <2>1. PICK c \in CheckIds : chk' = [chk EXCEPT ![c].pc = "exited"]
    BY <1>7 DEF SendStop, Receivers, Goto
  <2>2. chk' \in [CheckIds -> [pc : CheckPCs, ch : Nat]]
    BY <2>1 DEF CheckPCs
  <2> QED  BY <1>7, <2>2, SMTT(20) DEF SendStop
<1>8. CASE SendTimeout(p)    BY <1>8 DEF SendTimeout
<1>9. CASE DeleteHost(p)     BY <1>9 DEF DeleteHost
<1>10. CASE Lock(p)          BY <1>10 DEF Lock
<1>11. CASE Lookup(p)
  <2>1. call' \in [Callers -> {Idle} \cup Busy]
    <3>1. CASE Move(p, "signal")
      <4>1. call[p] \in Busy
        BY <1>11 DEF Lookup
      <4>2. [call[p] EXCEPT !.pc = "signal"] \in Busy
        BY <4>1
      <4> QED  BY <3>1, <4>2
    <3>2. CASE Return(p)
      BY <3>2
    <3> QED  BY <1>11, <3>1, <3>2 DEF Lookup
  <2>2. lock' \in Callers \cup {"none"}
    BY <1>11 DEF Lookup
  <2> QED  BY <1>11, <2>1, <2>2 DEF Lookup
<1>12. CASE SignalShutDown(p)
  <2>1. call' \in [Callers -> {Idle} \cup Busy]
    BY <1>12 DEF SignalShutDown
  <2>2. sd' \in [pc : {"wait", "range", "send", "done"}, todo : SUBSET Hosts,
                 seen : SUBSET Hosts, host : Hosts \cup {"none"}, ch : Nat]
    BY <1>12 DEF SignalShutDown
  <2> QED  BY <1>12, <2>1, <2>2 DEF SignalShutDown
<1>13. CASE Unregister(p)    BY <1>13 DEF Unregister
<1>14. CASE ListHosts(p)
  <2>1. call[p] \in Busy
    BY <1>14 DEF ListHosts
  <2>2. [call[p] EXCEPT !.pc = "swap", !.hosts = hostMap] \in Busy
    BY <2>1
  <2>3. call' \in [Callers -> {Idle} \cup Busy]
    BY <1>14, <2>2 DEF ListHosts
  <2> QED  BY <1>14, <2>3 DEF ListHosts
<1>15. CASE SwapLb(p)        BY <1>15 DEF SwapLb
<1> QED
  BY <1>1, <1>2, <1>3, <1>4, <1>5, <1>6, <1>7, <1>8, <1>9, <1>10, <1>11,
     <1>12, <1>13, <1>14, <1>15 DEF AdminStep

LEMMA ShutDownTypeOK ==
  ASSUME TypeOK, ShutDownStep
  PROVE  TypeOK'
<1> USE DEF TypeOK, sdVars, history
<1>1. ASSUME NEW h \in Hosts, RangeNext(h) PROVE TypeOK'
  BY <1>1 DEF RangeNext
<1>2. CASE StopCheck
  <2>1. PICK c \in CheckIds : chk' = [chk EXCEPT ![c].pc = "exited"]
    BY <1>2 DEF StopCheck, Receivers, Goto
  <2>2. chk' \in [CheckIds -> [pc : CheckPCs, ch : Nat]]
    BY <2>1 DEF CheckPCs
  <2>3. sd' \in [pc : {"wait", "range", "send", "done"}, todo : SUBSET Hosts,
                 seen : SUBSET Hosts, host : Hosts \cup {"none"}, ch : Nat]
    BY <1>2 DEF StopCheck
  <2> QED  BY <1>2, <2>2, <2>3 DEF StopCheck
<1>3. CASE RangeDone
  BY <1>3 DEF RangeDone
<1> QED  BY <1>1, <1>2, <1>3 DEF ShutDownStep

LEMMA NextTypeOK == TypeOK /\ [Next]_vars => TypeOK'
<1> SUFFICES ASSUME TypeOK, [Next]_vars PROVE TypeOK'
  OBVIOUS
<1>1. ASSUME NEW h \in Hosts, Flap(h) PROVE TypeOK'
  BY <1>1 DEF Flap, TypeOK, proxyVars
<1>2. CASE UNCHANGED vars
  BY <1>2 DEF vars, TypeOK
<1> QED
  BY <1>1, <1>2, CheckTypeOK, CallTypeOK, AdminTypeOK, ShutDownTypeOK DEF Next

\* Every state the proxy reaches is well typed: in particular an admin call in
\* progress always carries a host, and a health check is only started once.
THEOREM TypeCorrect == Spec => []TypeOK
  BY InitTypeOK, NextTypeOK, PTL DEF Spec

-----------------------------------------------------------------------------
LEMMA MoveEffect ==
  ASSUME TypeOK, NEW p \in Callers, NEW pc, call[p].pc # "idle", Move(p, pc)
  PROVE  /\ call'[p].pc = pc /\ call'[p].host = call[p].host
         /\ call'[p].hosts = call[p].hosts
         /\ \A q \in Callers : q # p => call'[q] = call[q]
<1>1. call[p] \in Busy
  BY DEF TypeOK, Idle
<1>2. call'[p] = [call[p] EXCEPT !.pc = pc]
  BY DEF Move, TypeOK
<1> QED
  BY <1>1, <1>2 DEF Busy, Move, TypeOK

LEMMA ReturnEffect ==
  ASSUME TypeOK, NEW p \in Callers, Return(p)
  PROVE  call'[p] = Idle /\ \A q \in Callers : q # p => call'[q] = call[q]
  BY DEF Return, TypeOK

LEMMA PickEffect ==
  ASSUME TypeOK, NEW p \in Callers, PickChan(p)
  PROVE  call'[p].pc = "send" /\ \A q \in Callers : q # p => call'[q] = call[q]
<1>1. call[p] \in Busy
  BY DEF TypeOK, PickChan, At, Idle
<1>2. call'[p] = [call[p] EXCEPT !.pc = "send", !.ch = shut[call[p].host]]
  BY DEF PickChan, TypeOK
<1> QED
  BY <1>1, <1>2 DEF Busy, PickChan, TypeOK

LEMMA ListEffect ==
  ASSUME TypeOK, NEW p \in Callers, ListHosts(p)
  PROVE  /\ call'[p].pc = "swap" /\ call'[p].hosts = hostMap
         /\ \A q \in Callers : q # p => call'[q] = call[q]
<1>1. call[p] \in Busy
  BY DEF TypeOK, ListHosts, At, Idle
<1>2. call'[p] = [call[p] EXCEPT !.pc = "swap", !.hosts = hostMap]
  BY DEF ListHosts, TypeOK
<1> QED
  BY <1>1, <1>2 DEF Busy, ListHosts, TypeOK

\* shutDownCheck only touches a health check that waits in its select.
LEMMA ShutDownStops ==
  ASSUME TypeOK, ShutDownStep
  PROVE  \A d \in CheckIds : \/ chk'[d] = chk[d]
                             \/ chk[d].pc = "select" /\ chk'[d].pc = "exited"
<1>1. CASE StopCheck
  <2>1. PICK c \in CheckIds : chk[c].pc = "select" /\ chk' = [chk EXCEPT ![c].pc = "exited"]
    BY <1>1 DEF StopCheck, Receivers, Goto
  <2> QED
    BY <2>1 DEF TypeOK
<1>2. CASE ~ StopCheck
  BY <1>2 DEF ShutDownStep, RangeNext, RangeDone
<1> QED
  BY <1>1, <1>2

(***************************************************************************)
(* RemoveProxy's send.  Callers past Lock hold the mutex, so at most one   *)
(* is there; the pattern stays registered until the one that signalled     *)
(* unregisters it, and shutDownCheck waits until that signal.              *)
(***************************************************************************)
Locked == {"lookup", "signal", "unregister"}

LockInv ==
    /\ \A p \in Callers : call[p].pc \in Locked => lock = p
    /\ \A p \in Callers : At(p, "signal") => registered
    /\ registered => sd.pc = "wait" \/ \E p \in Callers : At(p, "unregister")

LEMMA LockInvImplies == LockInv => SignalHasReceiver
  BY DEF LockInv, SignalHasReceiver, At, Locked

\* Moves between program counters outside the mutex.
LEMMA UnlockedMove ==
  ASSUME TypeOK, LockInv, NEW p \in Callers, call[p].pc \notin Locked,
         call'[p].pc \notin Locked, \A q \in Callers \ {p} : call'[q] = call[q],
         UNCHANGED <<lock, registered, sd>>
  PROVE  LockInv'
<1>1. \A q \in Callers : (call[q].pc \in Locked \/ call'[q].pc \in Locked) => call'[q] = call[q]
  OBVIOUS
<1>2. \A q \in Callers, pc \in Locked : At(q, pc)' <=> At(q, pc)
  BY <1>1 DEF At
<1> QED
  BY <1>1, <1>2 DEF LockInv, Locked

LEMMA CallLockInv ==
  ASSUME TypeOK, LockInv, NEW p \in Callers, NEW op \in Ops, NEW h \in Hosts, Call(p, op, h)
  PROVE  LockInv'
<1>1. call[p].pc \notin Locked
  BY DEF Call, At, Locked
<1>2. call'[p].pc = FirstPC(op)
  BY DEF Call, TypeOK, Idle
<1>3. FirstPC(op) \notin Locked
  BY DEF FirstPC, AllOps, Locked
<1> QED
  BY <1>1, <1>2, <1>3, UnlockedMove DEF Call, TypeOK

LEMMA AdminLockInv ==
  ASSUME TypeOK, LockInv, NEW p \in Callers, AdminStep(p)
  PROVE  LockInv'
<1>0. \A q \in Callers : q # p => call'[q] = call[q]
  BY DEF AdminStep, AddHostMap, AddAlive, AddChan, AddLb, AddSpawn, PickChan, SendStop,
         SendTimeout, DeleteHost, Lock, Lookup, SignalShutDown, Unregister, ListHosts,
         SwapLb, Move, Return, TypeOK
<1>1. CASE \/ AddHostMap(p) \/ AddAlive(p) \/ AddChan(p) \/ AddLb(p) \/ AddSpawn(p)
           \/ SendStop(p) \/ SendTimeout(p) \/ DeleteHost(p) \/ SwapLb(p)
  <2>1. call[p].pc \notin Locked /\ call'[p].pc \notin Locked
    BY <1>1, MoveEffect, ReturnEffect
       DEF AddHostMap, AddAlive, AddChan, AddLb, AddSpawn, SendStop, SendTimeout,
           DeleteHost, SwapLb, At, Locked, Idle
  <2>2. UNCHANGED <<lock, registered, sd>>
    BY <1>1 DEF AddHostMap, AddAlive, AddChan, AddLb, AddSpawn, SendStop,
                SendTimeout, DeleteHost, SwapLb, adminVars
  <2> QED
    BY <1>0, <2>1, <2>2, UnlockedMove
<1>2. CASE PickChan(p) \/ ListHosts(p)
  <2>1. call[p].pc \notin Locked
    BY <1>2 DEF PickChan, ListHosts, At, Locked
  <2>2. call[p] \in Busy
    BY <1>2 DEF PickChan, ListHosts, At, TypeOK, Idle
  <2>3. call'[p].pc \in {"send", "swap"}
    <3>1. CASE PickChan(p)   BY <2>2, <3>1, PickEffect
    <3>2. CASE ListHosts(p)  BY <2>2, <3>2, ListEffect
    <3> QED  BY <1>2, <3>1, <3>2
  <2>4. UNCHANGED <<lock, registered, sd>>
    BY <1>2 DEF PickChan, ListHosts, adminVars
  <2> QED
    BY <1>0, <2>1, <2>3, <2>4, UnlockedMove DEF Locked
<1>3. CASE Lock(p)
  <2>1. call'[p].pc = "lookup" /\ call[p].pc = "lock"
    BY <1>3, MoveEffect DEF Lock, At
  <2>2. \A q \in Callers : call[q].pc \notin Locked
    BY <1>3 DEF Lock, LockInv
  <2> QED
    BY <1>0, <1>3, <2>1, <2>2 DEF Lock, LockInv, At, Locked, adminVars
<1>4. CASE Lookup(p)
  <2>0. call[p].pc = "lookup"
    BY <1>4 DEF Lookup, At
  <2>1. CASE registered
    <3>1. call'[p].pc = "signal" /\ UNCHANGED <<lock, registered, sd>>
      BY <1>4, <2>0, <2>1, MoveEffect DEF Lookup, adminVars
    <3> QED
      BY <1>0, <2>0, <2>1, <3>1 DEF LockInv, At, Locked
  <2>2. CASE ~ registered
    <3>1. call'[p].pc = "idle" /\ UNCHANGED <<registered, sd>>
      BY <1>4, <2>2 DEF Lookup, Return, TypeOK, Idle, adminVars
    <3>2. \A q \in Callers : q # p => call[q].pc \notin Locked
      BY <2>0 DEF LockInv, Locked
    <3> QED
      BY <1>0, <2>2, <3>1, <3>2 DEF LockInv, At, Locked
  <2> QED
    BY <2>1, <2>2
<1>5. CASE SignalShutDown(p)
  <2>1. call[p].pc = "signal" /\ call'[p].pc = "unregister" /\ UNCHANGED <<lock, registered>>
    BY <1>5, MoveEffect DEF SignalShutDown, At
  <2> QED
    BY <1>0, <2>1 DEF LockInv, At, Locked
<1>6. CASE Unregister(p)
  <2>1. call[p].pc = "unregister" /\ call'[p].pc = "idle" /\ registered' = FALSE
    BY <1>6 DEF Unregister, Return, At, TypeOK, Idle
  <2>2. \A q \in Callers : q # p => call[q].pc \notin Locked
    BY <2>1 DEF LockInv, Locked
  <2> QED
    BY <1>0, <2>1, <2>2 DEF LockInv, At, Locked
<1> QED
  BY <1>1, <1>2, <1>3, <1>4, <1>5, <1>6 DEF AdminStep

LEMMA NextLockInv == TypeOK /\ LockInv /\ [Next]_vars => LockInv'
<1> SUFFICES ASSUME TypeOK, LockInv, [Next]_vars PROVE LockInv'
  OBVIOUS
<1>1. CASE UNCHANGED <<lock, registered, sd, call>>
  BY <1>1 DEF LockInv, At
<1>2. ASSUME NEW c \in CheckIds, HealthCheckStep(c) PROVE LockInv'
  BY <1>1, <1>2 DEF HealthCheckStep, EnterSelect, Tick, ReadDown, SetDead, LbRemove,
                    DialAgain, ReadUp, SetAlive, LbAdd, proxyVars
<1>3. ASSUME NEW h \in Hosts, Flap(h) PROVE LockInv'
  BY <1>1, <1>3 DEF Flap, proxyVars
<1>4. CASE ShutDownStep
  <2>1. UNCHANGED <<lock, registered, call>>
    BY <1>4 DEF ShutDownStep, RangeNext, StopCheck, RangeDone, sdVars
  <2>2. sd.pc # "wait"
    BY <1>4 DEF ShutDownStep, RangeNext, StopCheck, RangeDone
  <2> QED
    BY <2>1, <2>2 DEF LockInv, At
<1> QED
  BY <1>1, <1>2, <1>3, <1>4, CallLockInv, AdminLockInv DEF Next, vars

\* RemoveProxy never blocks on ShutDown while it holds the ProxyMap's mutex:
\* whenever a caller is about to send, shutDownCheck is waiting to receive.
THEOREM SignalNeverBlocks == Spec => []SignalHasReceiver
<1>1. Init => LockInv
  BY DEF Init, LockInv, At, Idle, Locked
<1> QED
  BY <1>1, TypeCorrect, NextLockInv, LockInvImplies, PTL DEF Spec

-----------------------------------------------------------------------------
(***************************************************************************)
(* Health checks.  Monitored is inductive: a check stops only for a        *)
(* RemoveHost, which then is about to delete the host, or after the        *)
(* shutdown signal.                                                        *)
(***************************************************************************)
Mid == {"alive", "chan", "lbAdd", "spawn", "delete"}

\* A step that stops no health check and adds no host, and after which the
\* callers in the middle of a change of g are still there.
LEMMA MonitoredKept ==
  ASSUME TypeOK, Monitored, sd'.pc = "wait" => sd.pc = "wait", hostMap' \subseteq hostMap,
         \A c \in CheckIds : chk[c].pc \in Running => chk'[c].pc \in Running,
         \A q \in Callers, g \in hostMap' :
             (call[q].host = g /\ call[q].pc \in Mid) => (call'[q].host = g /\ call'[q].pc \in Mid)
  PROVE  Monitored'
<1>1. \A g \in Hosts : Watched(g) => Watched(g)'
  BY DEF Watched, CheckIds
<1>2. \A g \in hostMap' : MidChange(g) => MidChange(g)'
  BY DEF MidChange, Mid
<1> QED
  BY <1>1, <1>2 DEF Monitored, TypeOK

LEMMA CheckMonitored ==
  ASSUME TypeOK, Monitored, NEW c \in CheckIds, HealthCheckStep(c)
  PROVE  Monitored'
<1>1. UNCHANGED <<hostMap, call, sd>>
  BY DEF HealthCheckStep, EnterSelect, Tick, ReadDown, SetDead, LbRemove, DialAgain,
         ReadUp, SetAlive, LbAdd, proxyVars
<1>2. \A d \in CheckIds : chk[d].pc \in Running => chk'[d].pc \in Running
  <2> SUFFICES ASSUME NEW d \in CheckIds PROVE chk'[d] = chk[d] \/ chk'[d].pc \in Running
    OBVIOUS
  <2>1. CASE EnterSelect(c)
    BY <2>1 DEF EnterSelect, TypeOK, Running, CheckPCs
  <2>2. CASE ~ EnterSelect(c)
    <3>1. PICK pc \in Running : Goto(c, pc)
      BY <2>2 DEF HealthCheckStep, Tick, ReadDown, SetDead, LbRemove, DialAgain, ReadUp,
                  SetAlive, LbAdd, Running, CheckPCs
    <3> QED
      BY <3>1 DEF Goto, TypeOK
  <2> QED
    BY <2>1, <2>2
<1> QED
  BY <1>1, <1>2, MonitoredKept

LEMMA AdminMonitored ==
  ASSUME TypeOK, Monitored, NEW p \in Callers, AdminStep(p)
  PROVE  Monitored'
<1>0. PICK g : g = call[p].host
  OBVIOUS
<1>1. CASE AddHostMap(p)
  <2>1. call'[p].pc = "alive" /\ call'[p].host = g /\ \A q \in Callers : q # p => call'[q] = call[q]
    BY <1>0, <1>1, MoveEffect DEF AddHostMap, At
  <2>2. MidChange(g)'
    BY <2>1 DEF MidChange
  <2>3. \A f \in hostMap : (Watched(f) => Watched(f)') /\ (MidChange(f) => MidChange(f)')
    BY <1>0, <1>1, <2>1 DEF AddHostMap, Watched, MidChange, At
  <2> QED
    BY <1>0, <1>1, <2>2, <2>3 DEF AddHostMap, adminVars, Monitored
<1>2. CASE AddAlive(p) \/ AddChan(p) \/ AddLb(p)
  <2>1. /\ call'[p].pc \in Mid /\ call'[p].host = g
        /\ \A q \in Callers : q # p => call'[q] = call[q]
    BY <1>0, <1>2, MoveEffect DEF AddAlive, AddChan, AddLb, At, Mid
  <2>2. UNCHANGED <<sd, hostMap, chk>>
    BY <1>2 DEF AddAlive, AddChan, AddLb, adminVars
  <2> QED
    BY <1>0, <2>1, <2>2, MonitoredKept
<1>3. CASE AddSpawn(p)
  <2>0. call[p] \in Busy
    BY <1>3 DEF AddSpawn, At, TypeOK, Idle
  <2>1. g \in Hosts /\ spawned[g] + 1 \in Gens
    BY <1>0, <1>3, <2>0 DEF AddSpawn, Gens, TypeOK, Busy
  <2>2. chk'[<<g, spawned[g] + 1>>].pc = "enter"
    BY <1>0, <1>3, <2>1 DEF AddSpawn, TypeOK, CheckIds
  <2>3. Watched(g)'
    BY <2>1, <2>2 DEF Watched, Running, CheckPCs
  <2>4. \A q \in Callers : q # p => call'[q] = call[q]
    BY <1>3, ReturnEffect DEF AddSpawn
  <2>5. ASSUME NEW f \in Hosts, f # g
        PROVE  (Watched(f) => Watched(f)') /\ (MidChange(f) => MidChange(f)')
    <3>1. \A k \in Gens : chk'[<<f, k>>] = chk[<<f, k>>]
      BY <1>0, <1>3, <2>1, <2>5 DEF AddSpawn, TypeOK, CheckIds
    <3> QED
      BY <1>0, <2>4, <2>5, <3>1 DEF Watched, MidChange
  <2> QED
    BY <1>0, <1>3, <2>3, <2>5 DEF AddSpawn, adminVars, Monitored, TypeOK
<1>4. CASE PickChan(p) \/ SendTimeout(p) \/ Lock(p) \/ Lookup(p) \/ ListHosts(p)
           \/ SwapLb(p) \/ Unregister(p)
  <2>1. call[p].pc \notin Mid
    BY <1>4 DEF PickChan, SendTimeout, Lock, Lookup, ListHosts, SwapLb, Unregister, At, Mid
  <2>2. \A q \in Callers : q # p => call'[q] = call[q]
    BY <1>4 DEF PickChan, SendTimeout, Lock, Lookup, ListHosts, SwapLb, Unregister,
                Move, Return, TypeOK
  <2>3. UNCHANGED <<sd, hostMap, chk>>
    BY <1>4 DEF PickChan, SendTimeout, Lock, Lookup, ListHosts, SwapLb, Unregister, adminVars
  <2> QED
    BY <2>1, <2>2, <2>3, MonitoredKept
<1>5. CASE SendStop(p)
  <2>1. PICK c \in CheckIds : c[1] = g /\ chk' = [chk EXCEPT ![c].pc = "exited"]
    BY <1>0, <1>5 DEF SendStop, Receivers, Goto
  <2>2. /\ call[p].pc = "send" /\ call'[p].pc = "delete" /\ call'[p].host = g
        /\ \A q \in Callers : q # p => call'[q] = call[q]
    BY <1>0, <1>5, MoveEffect DEF SendStop, At
  <2>3. MidChange(g)'
    BY <2>2 DEF MidChange
  <2>4. ASSUME NEW f \in Hosts, f # g
        PROVE  (Watched(f) => Watched(f)') /\ (MidChange(f) => MidChange(f)')
    <3>1. \A k \in Gens : chk'[<<f, k>>] = chk[<<f, k>>]
      BY <1>0, <2>1, <2>4 DEF TypeOK, CheckIds
    <3> QED
      BY <1>0, <2>2, <3>1 DEF Watched, MidChange
  <2> QED
    BY <1>0, <1>5, <2>3, <2>4 DEF SendStop, adminVars, Monitored, TypeOK
<1>6. CASE DeleteHost(p)
  <2>1. \A q \in Callers : q # p => call'[q] = call[q]
    BY <1>6, ReturnEffect DEF DeleteHost
  <2>2. hostMap' = hostMap \ {g} /\ UNCHANGED <<sd, chk>>
    BY <1>0, <1>6 DEF DeleteHost, adminVars
  <2> QED
    BY <1>0, <2>1, <2>2, MonitoredKept
<1>7. CASE SignalShutDown(p)
  <2>1. sd'.pc = "range"
    BY <1>7 DEF SignalShutDown, TypeOK
  <2> QED
    BY <2>1 DEF Monitored
<1> QED
  BY <1>1, <1>2, <1>3, <1>4, <1>5, <1>6, <1>7 DEF AdminStep

LEMMA NextMonitored == TypeOK /\ Monitored /\ [Next]_vars => Monitored'
<1> SUFFICES ASSUME TypeOK, Monitored, [Next]_vars PROVE Monitored'
  OBVIOUS
<1>1. ASSUME NEW p \in Callers, NEW op \in Ops, NEW h \in Hosts, Call(p, op, h)
      PROVE  Monitored'
  <2>1. call[p].pc \notin Mid /\ \A q \in Callers : q # p => call'[q] = call[q]
    BY <1>1 DEF Call, At, Mid, TypeOK
  <2> QED
    BY <1>1, <2>1, MonitoredKept DEF Call, checkVars
<1>2. CASE ShutDownStep
  <2>1. sd'.pc # "wait"
    BY <1>2 DEF ShutDownStep, RangeNext, StopCheck, RangeDone, TypeOK
  <2> QED
    BY <2>1 DEF Monitored
<1>3. ASSUME NEW h \in Hosts, Flap(h) PROVE Monitored'
  BY <1>3, MonitoredKept DEF Flap, proxyVars
<1>4. CASE UNCHANGED vars
  BY <1>4, MonitoredKept DEF vars
<1> QED
  BY <1>1, <1>2, <1>3, <1>4, CheckMonitored, AdminMonitored DEF Next

\* As long as the proxy has not been told to shut down, no host with a reverse
\* proxy is left without a health check, whatever AddProxy, RemoveHost,
\* RemoveProxy and ChangeLb calls run concurrently.
THEOREM AlwaysMonitored == Spec => []Monitored
<1>1. Init => Monitored
  <2> SUFFICES ASSUME Init, NEW h \in hostMap PROVE Watched(h)
    BY DEF Monitored
  <2>1. 1 \in Gens /\ h \in InitHosts /\ <<h, 1>> \in CheckIds
    BY DEF Init, Gens, CheckIds
  <2> QED
    BY <2>1 DEF Init, Watched, Running, CheckPCs
<1> QED
  BY <1>1, TypeCorrect, NextMonitored, PTL DEF Spec

-----------------------------------------------------------------------------
(***************************************************************************)
(* The rotation.  HostMap and the hosts RemoveHost has deleted together    *)
(* only grow, and whoever is about to put a host into the rotation (a      *)
(* health check, AddProxy between its writes, ChangeLb with its list of    *)
(* hosts) got it from there.                                               *)
(***************************************************************************)
Known == hostMap \cup deleted

ProxyInv ==
    /\ lb \subseteq Known
    /\ \A c \in CheckIds : chk[c].pc \in Running => c[1] \in Known
    /\ \A p \in Callers :
        /\ call[p].pc \in {"alive", "chan", "lbAdd", "spawn"} => call[p].host \in Known
        /\ call[p].pc = "swap" => call[p].hosts \subseteq Known

LEMMA InitProxyInv == Init => ProxyInv
  BY DEF Init, ProxyInv, Known, Idle, Running, CheckPCs

LEMMA CheckProxyInv ==
  ASSUME TypeOK, ProxyInv, NEW c \in CheckIds, HealthCheckStep(c)
  PROVE  ProxyInv'
<1>1. Known' = Known /\ call' = call
  BY DEF HealthCheckStep, EnterSelect, Tick, ReadDown, SetDead, LbRemove, DialAgain,
         ReadUp, SetAlive, LbAdd, proxyVars, Known
<1>2. chk[c].pc \in Running
  BY DEF HealthCheckStep, EnterSelect, Tick, ReadDown, SetDead, LbRemove, DialAgain,
         ReadUp, SetAlive, LbAdd, Running, CheckPCs
<1>3. lb' \subseteq lb \cup {c[1]}
  BY DEF HealthCheckStep, EnterSelect, Tick, ReadDown, SetDead, LbRemove, DialAgain,
         ReadUp, SetAlive, LbAdd
<1>4. \A d \in CheckIds : d # c => chk'[d] = chk[d]
  BY DEF HealthCheckStep, EnterSelect, Tick, ReadDown, SetDead, LbRemove, DialAgain,
         ReadUp, SetAlive, LbAdd, Goto, TypeOK
<1> QED
  BY <1>1, <1>2, <1>3, <1>4 DEF ProxyInv

\* A step of one caller after which Known still has what it had, and which adds
\* to the rotation, and to the health checks, hosts that are known only.
LEMMA ProxyInvKept ==
  ASSUME TypeOK, ProxyInv, NEW p \in Callers, Known \subseteq Known',
         \A q \in Callers : q # p => call'[q] = call[q],
         call'[p].pc \in {"alive", "chan", "lbAdd", "spawn"} => call'[p].host \in Known',
         call'[p].pc = "swap" => call'[p].hosts \subseteq Known',
         lb' \subseteq Known',
         \A d \in CheckIds : \/ chk'[d] = chk[d] \/ chk'[d].pc = "exited"
                             \/ d[1] \in Known'
  PROVE  ProxyInv'
<1>1. "exited" \notin Running
  BY DEF Running
<1> QED
  BY <1>1 DEF ProxyInv

LEMMA AdminProxyInv ==
  ASSUME TypeOK, ProxyInv, NEW p \in Callers, AdminStep(p)
  PROVE  ProxyInv'
<1>1. CASE AddHostMap(p)
  <2>1. /\ call'[p].pc = "alive" /\ call'[p].host = call[p].host
        /\ \A q \in Callers : q # p => call'[q] = call[q]
    BY <1>1, MoveEffect DEF AddHostMap, At
  <2>2. Known' = Known \cup {call[p].host} /\ UNCHANGED <<lb, chk>>
    BY <1>1 DEF AddHostMap, Known
  <2>3. lb \subseteq Known
    BY DEF ProxyInv
  <2> QED
    BY <2>1, <2>2, <2>3, ProxyInvKept
<1>2. CASE AddAlive(p) \/ AddChan(p) \/ AddLb(p)
  <2>1. /\ call[p].pc \in {"alive", "chan", "lbAdd"}
        /\ call'[p].pc \in {"chan", "lbAdd", "spawn"} /\ call'[p].host = call[p].host
        /\ \A q \in Callers : q # p => call'[q] = call[q]
    BY <1>2, MoveEffect DEF AddAlive, AddChan, AddLb, At
  <2>2. Known' = Known /\ chk' = chk /\ lb' \subseteq lb \cup {call[p].host}
    BY <1>2 DEF AddAlive, AddChan, AddLb, Known, history
  <2>3. lb \subseteq Known /\ call[p].host \in Known
    BY <2>1 DEF ProxyInv
  <2> QED
    BY <2>1, <2>2, <2>3, ProxyInvKept
<1>3. CASE AddSpawn(p)
  <2>1. call[p].pc = "spawn" /\ call'[p] = Idle /\ \A q \in Callers : q # p => call'[q] = call[q]
    BY <1>3, ReturnEffect DEF AddSpawn, At
  <2>2. \A d \in CheckIds : chk'[d] = chk[d] \/ d[1] = call[p].host
    BY <1>3 DEF AddSpawn, TypeOK
  <2>3. Known' = Known /\ lb' = lb
    BY <1>3 DEF AddSpawn, Known, history
  <2>4. lb \subseteq Known /\ call[p].host \in Known
    BY <2>1 DEF ProxyInv
  <2> QED
    BY <2>1, <2>2, <2>3, <2>4, ProxyInvKept DEF Idle
<1>4. CASE SendStop(p)
  <2>1. call'[p].pc = "delete" /\ \A q \in Callers : q # p => call'[q] = call[q]
    BY <1>4, MoveEffect DEF SendStop, At
  <2>2. Known' = Known /\ lb' = lb /\ lb \subseteq Known
    BY <1>4 DEF SendStop, Known, history, ProxyInv
  <2>3. \A d \in CheckIds : chk'[d] = chk[d] \/ chk'[d].pc = "exited"
    BY <1>4 DEF SendStop, Receivers, Goto, TypeOK
  <2> QED
    BY <2>1, <2>2, <2>3, ProxyInvKept
<1>5. CASE \/ PickChan(p) \/ SendTimeout(p) \/ DeleteHost(p) \/ Lock(p) \/ Lookup(p)
           \/ SignalShutDown(p) \/ Unregister(p)
  <2>1. /\ call'[p].pc \in {"send", "idle", "lookup", "signal", "unregister"}
        /\ \A q \in Callers : q # p => call'[q] = call[q]
    BY <1>5, MoveEffect, ReturnEffect, PickEffect
       DEF SendTimeout, DeleteHost, Lock, Lookup, SignalShutDown, Unregister, At, Idle
  <2>2. UNCHANGED <<lb, chk>> /\ Known \subseteq Known'
    BY <1>5 DEF PickChan, SendTimeout, DeleteHost, Lock, Lookup, SignalShutDown, Unregister,
                Known, history
  <2>3. lb \subseteq Known
    BY DEF ProxyInv
  <2> QED
    BY <2>1, <2>2, <2>3, ProxyInvKept
<1>6. CASE ListHosts(p)
  <2>1. /\ call'[p].pc = "swap" /\ call'[p].hosts = hostMap
        /\ \A q \in Callers : q # p => call'[q] = call[q]
    BY <1>6, ListEffect
  <2>2. Known' = Known /\ hostMap \subseteq Known /\ UNCHANGED <<lb, chk>>
    BY <1>6 DEF ListHosts, Known
  <2>3. lb \subseteq Known
    BY DEF ProxyInv
  <2> QED
    BY <2>1, <2>2, <2>3, ProxyInvKept
<1>7. CASE SwapLb(p)
  <2>1. call'[p] = Idle /\ \A q \in Callers : q # p => call'[q] = call[q]
    BY <1>7, ReturnEffect DEF SwapLb
  <2>2. Known' = Known /\ chk' = chk /\ lb' \subseteq Known
    BY <1>7 DEF SwapLb, At, ProxyInv, Known, history
  <2> QED
    BY <2>1, <2>2, ProxyInvKept DEF Idle
<1> QED
  BY <1>1, <1>2, <1>3, <1>4, <1>5, <1>6, <1>7 DEF AdminStep

LEMMA NextProxyInv == TypeOK /\ ProxyInv /\ [Next]_vars => ProxyInv'
<1> SUFFICES ASSUME TypeOK, ProxyInv, [Next]_vars PROVE ProxyInv'
  OBVIOUS
<1>1. ASSUME NEW p \in Callers, NEW op \in Ops, NEW h \in Hosts, Call(p, op, h)
      PROVE  ProxyInv'
  <2>1. call'[p].pc = FirstPC(op) /\ \A q \in Callers : q # p => call'[q] = call[q]
    BY <1>1 DEF Call, TypeOK, Idle
  <2>2. FirstPC(op) \in {"map", "pick", "lock", "list"}
    BY DEF FirstPC, AllOps
  <2>3. Known' = Known /\ UNCHANGED <<chk, lb>> /\ lb \subseteq Known
    BY <1>1 DEF Call, checkVars, history, Known, ProxyInv
  <2> QED
    BY <2>1, <2>2, <2>3, ProxyInvKept
<1>2. CASE ShutDownStep
  <2>1. Known' = Known /\ UNCHANGED <<call, lb>>
    BY <1>2 DEF ShutDownStep, RangeNext, StopCheck, RangeDone, sdVars, history, Known
  <2>2. \A d \in CheckIds : chk'[d] = chk[d] \/ chk'[d].pc = "exited"
    BY <1>2, ShutDownStops
  <2> QED
    BY <2>1, <2>2 DEF ProxyInv, Running
<1>3. ASSUME NEW h \in Hosts, Flap(h) PROVE ProxyInv'
  BY <1>3 DEF Flap, proxyVars, ProxyInv, Known
<1>4. CASE UNCHANGED vars
  BY <1>4 DEF vars, ProxyInv, Known
<1> QED
  BY <1>1, <1>2, <1>3, <1>4, CheckProxyInv, AdminProxyInv DEF Next

\* Every host the balancer can return has a reverse proxy or was deleted by
\* RemoveHost: no interleaving of health checks, AddProxy, ChangeLb and
\* RemoveProxy makes ServeHTTP call a nil one.
THEOREM RotationSafe == Spec => []RotationHasProxy
<1>1. ProxyInv => RotationHasProxy
  BY DEF ProxyInv, Known, RotationHasProxy
<1> QED
  BY <1>1, InitProxyInv, TypeCorrect, NextProxyInv, PTL DEF Spec

-----------------------------------------------------------------------------
(***************************************************************************)
(* Alive and the rotation.  A host that AddProxy has not touched keeps the *)
(* one health check it started with, which is the only writer of both but  *)
(* for ChangeLb.                                                           *)
(***************************************************************************)
Tracks(h, pc) ==
    CASE pc = "lbRemove" -> ~ alive[h]
      [] pc = "lbAdd" -> alive[h]
      [] OTHER -> alive[h] <=> h \in lb

TrackInv ==
    /\ \A c \in CheckIds : c[1] \notin touched /\ c[2] # 1 => chk[c].pc = "none"
    /\ \A p \in Callers :
        /\ call[p].pc \in {"alive", "chan", "lbAdd", "spawn"} => call[p].host \in touched
        /\ call[p].pc = "swap" => touched = Hosts
    /\ \A h \in Hosts \ touched : Tracks(h, chk[<<h, 1>>].pc)

LEMMA FirstCheck == \A h \in Hosts : <<h, 1>> \in CheckIds
  BY DEF CheckIds, Gens

LEMMA InitTrackInv == Init => TrackInv
<1> SUFFICES ASSUME Init PROVE TrackInv
  OBVIOUS
<1>1. \A c \in CheckIds : c[2] # 1 => chk[c].pc = "none"
  BY DEF Init
<1>2. \A p \in Callers : call[p].pc = "idle"
  BY DEF Init, Idle
<1>3. ASSUME NEW h \in Hosts PROVE Tracks(h, chk[<<h, 1>>].pc)
  <2>1. chk[<<h, 1>>].pc \in {"enter", "none"}
    BY FirstCheck DEF Init
  <2>2. alive[h] <=> h \in lb
    BY DEF Init
  <2> QED
    BY <2>1, <2>2 DEF Tracks
<1> QED
  BY <1>1, <1>2, <1>3 DEF TrackInv

LEMMA TrackImplies == TrackInv => RotationTracksAlive
<1>1. 1 \in Gens
  BY DEF Gens
<1> QED
  BY <1>1 DEF TrackInv, Tracks, RotationTracksAlive

LEMMA CheckTrackInv ==
  ASSUME TypeOK, TrackInv, NEW c \in CheckIds, HealthCheckStep(c)
  PROVE  TrackInv'
<1>0. UNCHANGED <<call, touched>>
  BY DEF HealthCheckStep, EnterSelect, Tick, ReadDown, SetDead, LbRemove, DialAgain,
         ReadUp, SetAlive, LbAdd, proxyVars
<1>1. PICK h \in Hosts : h = c[1]
  BY DEF CheckIds
<1>2. chk[c].pc # "none"
  BY DEF HealthCheckStep, EnterSelect, Tick, ReadDown, SetDead, LbRemove,
         DialAgain, ReadUp, SetAlive, LbAdd
<1>3. \A d \in CheckIds : d # c => chk'[d] = chk[d]
  BY DEF HealthCheckStep, EnterSelect, Tick, ReadDown, SetDead, LbRemove, DialAgain,
         ReadUp, SetAlive, LbAdd, Goto, TypeOK
<1>4. \A g \in Hosts : g # h => alive'[g] = alive[g] /\ (g \in lb' <=> g \in lb)
  BY <1>1 DEF HealthCheckStep, EnterSelect, Tick, ReadDown, SetDead, LbRemove, DialAgain,
              ReadUp, SetAlive, LbAdd, TypeOK
<1>5. \A g \in Hosts \ touched : g # h => Tracks(g, chk[<<g, 1>>].pc)'
  <2> SUFFICES ASSUME NEW g \in Hosts \ touched, g # h PROVE Tracks(g, chk[<<g, 1>>].pc)'
    OBVIOUS
  <2>1. <<g, 1>> \in CheckIds /\ <<g, 1>> # c
    BY <1>1, FirstCheck
  <2> QED
    BY <1>3, <1>4, <2>1 DEF TrackInv, Tracks
<1>6. \A d \in CheckIds : d[1] \notin touched /\ d[2] # 1 => chk'[d].pc = "none"
  BY <1>2, <1>3 DEF TrackInv
<1>7. ASSUME h \notin touched PROVE Tracks(h, chk[<<h, 1>>].pc)'
  <2>1. c = <<h, 1>>
    BY <1>1, <1>2, <1>7 DEF TrackInv, CheckIds
  <2>2. Tracks(h, chk[c].pc)
    BY <1>7, <2>1 DEF TrackInv
  <2>3. Tracks(h, chk[c].pc)'
    <3> USE <1>1, <2>2 DEF Tracks, Goto, TypeOK
    <3>1. CASE EnterSelect(c)  BY <3>1 DEF EnterSelect
    <3>2. CASE Tick(c)         BY <3>2 DEF Tick
    <3>3. CASE ReadDown(c)     BY <3>3 DEF ReadDown
    <3>4. CASE SetDead(c)      BY <3>4 DEF SetDead
    <3>5. CASE LbRemove(c)     BY <3>5 DEF LbRemove
    <3>6. CASE DialAgain(c)    BY <3>6 DEF DialAgain
    <3>7. CASE ReadUp(c)       BY <3>7 DEF ReadUp
    <3>8. CASE SetAlive(c)     BY <3>8 DEF SetAlive
    <3>9. CASE LbAdd(c)        BY <3>9 DEF LbAdd
    <3> QED
      BY <3>1, <3>2, <3>3, <3>4, <3>5, <3>6, <3>7, <3>8, <3>9 DEF HealthCheckStep
  <2> QED
    BY <2>1, <2>3
<1> QED
  BY <1>0, <1>5, <1>6, <1>7 DEF TrackInv

\* A step that leaves alone Alive, the rotation and the health checks of every
\* host that is untouched after it, but for checks that select and return.
LEMMA TrackKept ==
  ASSUME TypeOK, TrackInv, touched \subseteq touched',
         \A h \in Hosts \ touched' : alive'[h] = alive[h] /\ (h \in lb' <=> h \in lb),
         \A c \in CheckIds : \/ c[1] \in touched'
                             \/ chk'[c] = chk[c]
                             \/ chk[c].pc = "select" /\ chk'[c].pc = "exited",
         \A p \in Callers :
             /\ call'[p].pc \in {"alive", "chan", "lbAdd", "spawn"} => call'[p].host \in touched'
             /\ call'[p].pc = "swap" => touched' = Hosts
  PROVE  TrackInv'
<1>1. \A c \in CheckIds : c[1] \notin touched' /\ c[2] # 1 => chk'[c].pc = "none"
  BY DEF TrackInv
<1>2. ASSUME NEW h \in Hosts \ touched' PROVE Tracks(h, chk[<<h, 1>>].pc)'
  <2>1. Tracks(h, chk[<<h, 1>>].pc)
    BY DEF TrackInv
  <2>2. \/ chk'[<<h, 1>>] = chk[<<h, 1>>]
        \/ chk[<<h, 1>>].pc = "select" /\ chk'[<<h, 1>>].pc = "exited"
    BY FirstCheck
  <2> QED
    BY <2>1, <2>2 DEF Tracks
<1> QED
  BY <1>1, <1>2 DEF TrackInv

LEMMA AdminTrackInv ==
  ASSUME TypeOK, TrackInv, NEW p \in Callers, AdminStep(p)
  PROVE  TrackInv'
<1>1. CASE AddHostMap(p)
  <2>1. /\ call'[p].pc = "alive" /\ call'[p].host = call[p].host
        /\ \A q \in Callers : q # p => call'[q] = call[q]
    BY <1>1, MoveEffect DEF AddHostMap, At
  <2>2. touched' = touched \cup {call[p].host} /\ UNCHANGED <<alive, lb, chk>>
    BY <1>1 DEF AddHostMap
  <2>3. call[p].host \in Hosts
    BY <1>1 DEF AddHostMap, At, TypeOK, Idle, Busy
  <2>4. \A q \in Callers :
           /\ call'[q].pc \in {"alive", "chan", "lbAdd", "spawn"} => call'[q].host \in touched'
           /\ call'[q].pc = "swap" => touched' = Hosts
    BY <2>1, <2>2, <2>3 DEF TrackInv
  <2> QED
    BY <2>2, <2>4, TrackKept
<1>2. CASE AddAlive(p) \/ AddChan(p) \/ AddLb(p) \/ AddSpawn(p)
  <2>1. call[p].pc \in {"alive", "chan", "lbAdd", "spawn"}
    BY <1>2 DEF AddAlive, AddChan, AddLb, AddSpawn, At
  <2>2. /\ call'[p] = Idle \/ (call'[p].pc # "swap" /\ call'[p].host = call[p].host)
        /\ \A q \in Callers : q # p => call'[q] = call[q]
    BY <1>2, MoveEffect, ReturnEffect DEF AddAlive, AddChan, AddLb, AddSpawn, At
  <2>3. call[p].host \in touched /\ touched' = touched
    BY <1>2, <2>1 DEF TrackInv, AddAlive, AddChan, AddLb, AddSpawn, history
  <2>4. \A g \in Hosts \ touched : alive'[g] = alive[g] /\ (g \in lb' <=> g \in lb)
    BY <1>2, <2>3 DEF AddAlive, AddChan, AddLb, AddSpawn, TypeOK
  <2>5. \A d \in CheckIds : d[1] \in touched \/ chk'[d] = chk[d]
    BY <1>2, <2>3 DEF AddAlive, AddChan, AddLb, AddSpawn, TypeOK
  <2>6. \A q \in Callers :
           /\ call'[q].pc \in {"alive", "chan", "lbAdd", "spawn"} => call'[q].host \in touched'
           /\ call'[q].pc = "swap" => touched' = Hosts
    BY <2>2, <2>3 DEF TrackInv, Idle
  <2> QED
    BY <2>3, <2>4, <2>5, <2>6, TrackKept
<1>3. CASE ListHosts(p)
  <2>1. /\ call'[p].pc = "swap" /\ \A q \in Callers : q # p => call'[q] = call[q]
    BY <1>3, ListEffect
  <2>2. touched' = Hosts /\ touched \subseteq Hosts /\ UNCHANGED <<alive, lb, chk>>
    BY <1>3 DEF ListHosts, TypeOK
  <2>3. \A q \in Callers :
           /\ call'[q].pc \in {"alive", "chan", "lbAdd", "spawn"} => call'[q].host \in touched'
           /\ call'[q].pc = "swap" => touched' = Hosts
    BY <2>1, <2>2 DEF TrackInv
  <2> QED
    BY <2>2, <2>3, TrackKept
<1>4. CASE SwapLb(p)
  <2>1. call'[p] = Idle /\ \A q \in Callers : q # p => call'[q] = call[q]
    BY <1>4, ReturnEffect DEF SwapLb
  <2>2. touched = Hosts /\ touched' = touched /\ chk' = chk
    BY <1>4 DEF SwapLb, TrackInv, At, history
  <2>3. \A q \in Callers :
           call'[q].pc \in {"alive", "chan", "lbAdd", "spawn"} => call'[q].host \in touched'
    BY <2>1, <2>2 DEF TrackInv, Idle
  <2> QED
    BY <2>2, <2>3, TrackKept
<1>5. CASE SendStop(p)
  <2>1. call'[p].pc = "delete" /\ \A q \in Callers : q # p => call'[q] = call[q]
    BY <1>5, MoveEffect DEF SendStop, At
  <2>2. \A d \in CheckIds : \/ chk'[d] = chk[d]
                            \/ chk[d].pc = "select" /\ chk'[d].pc = "exited"
    BY <1>5 DEF SendStop, Receivers, Goto, TypeOK
  <2>3. UNCHANGED <<touched, alive, lb>>
    BY <1>5 DEF SendStop, history
  <2>4. \A q \in Callers :
           /\ call'[q].pc \in {"alive", "chan", "lbAdd", "spawn"} => call'[q].host \in touched'
           /\ call'[q].pc = "swap" => touched' = Hosts
    BY <2>1, <2>3 DEF TrackInv
  <2> QED
    BY <2>2, <2>3, <2>4, TrackKept
<1>6. CASE \/ PickChan(p) \/ SendTimeout(p) \/ DeleteHost(p) \/ Lock(p) \/ Lookup(p)
           \/ SignalShutDown(p) \/ Unregister(p)
  <2>1. /\ call'[p].pc \in {"send", "idle", "lookup", "signal", "unregister"}
        /\ \A q \in Callers : q # p => call'[q] = call[q]
    BY <1>6, MoveEffect, ReturnEffect, PickEffect
       DEF SendTimeout, DeleteHost, Lock, Lookup, SignalShutDown, Unregister, At, Idle
  <2>2. UNCHANGED <<touched, alive, lb, chk>>
    BY <1>6 DEF PickChan, SendTimeout, DeleteHost, Lock, Lookup, SignalShutDown, Unregister,
                history
  <2>3. \A q \in Callers :
           /\ call'[q].pc \in {"alive", "chan", "lbAdd", "spawn"} => call'[q].host \in touched'
           /\ call'[q].pc = "swap" => touched' = Hosts
    BY <2>1, <2>2 DEF TrackInv
  <2> QED
    BY <2>2, <2>3, TrackKept
<1> QED
  BY <1>1, <1>2, <1>3, <1>4, <1>5, <1>6 DEF AdminStep

LEMMA NextTrackInv == TypeOK /\ TrackInv /\ [Next]_vars => TrackInv'
<1> SUFFICES ASSUME TypeOK, TrackInv, [Next]_vars PROVE TrackInv'
  OBVIOUS
<1>1. ASSUME NEW p \in Callers, NEW op \in Ops, NEW h \in Hosts, Call(p, op, h)
      PROVE  TrackInv'
  <2>1. call'[p].pc = FirstPC(op) /\ \A q \in Callers : q # p => call'[q] = call[q]
    BY <1>1 DEF Call, TypeOK, Idle
  <2>2. FirstPC(op) \in {"map", "pick", "lock", "list"}
    BY DEF FirstPC, AllOps
  <2>3. UNCHANGED <<touched, alive, lb, chk>>
    BY <1>1 DEF Call, checkVars, history
  <2>4. \A q \in Callers :
           /\ call'[q].pc \in {"alive", "chan", "lbAdd", "spawn"} => call'[q].host \in touched'
           /\ call'[q].pc = "swap" => touched' = Hosts
    BY <2>1, <2>2, <2>3 DEF TrackInv
  <2> QED
    BY <2>3, <2>4, TrackKept
<1>2. CASE ShutDownStep
  <2>1. UNCHANGED <<touched, alive, lb, call>>
    BY <1>2 DEF ShutDownStep, RangeNext, StopCheck, RangeDone, sdVars, history
  <2>2. \A d \in CheckIds : \/ chk'[d] = chk[d]
                            \/ chk[d].pc = "select" /\ chk'[d].pc = "exited"
    BY <1>2, ShutDownStops
  <2> QED
    BY <2>1, <2>2, TrackKept DEF TrackInv
<1>3. ASSUME NEW h \in Hosts, Flap(h) PROVE TrackInv'
  BY <1>3, TrackKept DEF Flap, proxyVars, TrackInv
<1>4. CASE UNCHANGED vars
  BY <1>4, TrackKept DEF vars, TrackInv
<1> QED
  BY <1>1, <1>2, <1>3, <1>4, CheckTrackInv, AdminTrackInv DEF Next

\* For a host that no AddProxy call has touched, and until ChangeLb, Alive says
\* whether the host is in the rotation, except between the two statements of
\* healthCheck that change one after the other.
THEOREM RotationTracks == Spec => []RotationTracksAlive
  BY InitTrackInv, TrackImplies, TypeCorrect, NextTrackInv, PTL DEF Spec
=============================================================================
