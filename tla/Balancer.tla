------------------------------ MODULE Balancer ------------------------------
(***************************************************************************)
(* What the rest of the gateway relies on of a load balancer (interface    *)
(* Balancer, balancer/balancer.go): it keeps a set of hosts, the rotation; *)
(* Add and Remove change that set and nothing else, whether the host is    *)
(* there or not; Balance answers with a host of the rotation, or with      *)
(* NoHostError when it is empty.  HTTPProxy models the balancer by this.   *)
(***************************************************************************)
CONSTANTS
    Hosts,      \* host names
    Clients,    \* goroutines that serve requests
    NoHost      \* NoHostError

VARIABLES
    rotation,   \* the hosts Balance chooses from
    answer      \* what the last Balance call of each goroutine returned

vars == <<rotation, answer>>

Init ==
    /\ rotation \in SUBSET Hosts
    /\ answer = [c \in Clients |-> NoHost]

Add(h) == rotation' = rotation \cup {h} /\ UNCHANGED answer

Remove(h) == rotation' = rotation \ {h} /\ UNCHANGED answer

Balance(c) ==
    /\ \/ rotation = {} /\ answer' = [answer EXCEPT ![c] = NoHost]
       \/ \E h \in rotation : answer' = [answer EXCEPT ![c] = h]
    /\ UNCHANGED rotation

Next ==
    \/ \E h \in Hosts : Add(h) \/ Remove(h)
    \/ \E c \in Clients : Balance(c)

Spec == Init /\ [][Next]_vars
=============================================================================
