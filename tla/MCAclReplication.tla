-------------------------- MODULE MCAclReplication --------------------------
(* Instances of AclReplication for TLC. *)
EXTENDS AclReplication

CONSTANTS n1, n2, k1, c1, c2

TwoNodes == {n1, n2}
FirstNode == {n1}
OneNet == {k1}
TwoClients == {c1, c2}
=============================================================================
