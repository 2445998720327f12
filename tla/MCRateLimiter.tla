--------------------------- MODULE MCRateLimiter ---------------------------
(* Instances of RateLimiter for TLC. *)
EXTENDS RateLimiter, TLC

CONSTANTS p1, p2, l1, l2, r1, r2, a1

TwoPaths == {p1, p2}
TwoLimits == {l1, l2}
TwoRequests == {r1, r2}
OneHandler == {a1}

Symmetry ==
    Permutations(Paths) \cup Permutations(Limits) \cup Permutations(Requests)
        \cup Permutations(Handlers)
=============================================================================
