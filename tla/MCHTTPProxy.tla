---------------------------- MODULE MCHTTPProxy ----------------------------
(* Instances of HTTPProxy for TLC. *)
EXTENDS HTTPProxy, TLC

CONSTANTS h1, h2, p1, p2

OneHost == {h1}
TwoHosts == {h1, h2}
OneCaller == {p1}
TwoCallers == {p1, p2}

\* Callers are interchangeable; hosts are not once InitHosts separates them.
CallerSymmetry == Permutations(Callers)
=============================================================================
