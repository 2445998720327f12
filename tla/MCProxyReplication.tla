------------------------- MODULE MCProxyReplication -------------------------
(* Instances of ProxyReplication for TLC. *)
EXTENDS ProxyReplication

CONSTANTS n1, n2, c1, p1, x, y

TwoNodes == {n1, n2}
OneClient == {c1}
OnePattern == {p1}
TwoHosts == {x, y}
TwoPasses == {{x}, {x, y}}

\* The configuration of the first node only.
FirstConf == [n \in Nodes |-> IF n = n1 THEN {[op |-> "addProxy", pat |-> p1, arg |-> {x}]} ELSE {}]

\* One change of each kind; the location is another than the configured one.
EachKind ==
    {[op |-> "addProxy", pat |-> p1, arg |-> {x, y}],
     [op |-> "addHost", pat |-> p1, arg |-> {y}],
     [op |-> "removeHost", pat |-> p1, arg |-> {x}],
     [op |-> "removeProxy", pat |-> p1, arg |-> {}]}
=============================================================================
