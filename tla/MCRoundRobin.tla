---------------------------- MODULE MCRoundRobin ----------------------------
(* Instances of RoundRobin for TLC. *)
EXTENDS RoundRobin

CONSTANTS h1, h2, h3, c1, c2

ThreeHosts == {h1, h2, h3}
ThreeListed == <<h1, h2, h3>>
TwoClients == {c1, c2}
=============================================================================
