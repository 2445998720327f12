------------------------- MODULE MCConsistenceHash -------------------------
(* Instances of ConsistenceHash for TLC. *)
EXTENDS ConsistenceHash, TLC

CONSTANTS h1, h2, h3

ThreeHosts == {h1, h2, h3}
Around == 0 .. 6
MCSymmetry == Permutations(ThreeHosts)
=============================================================================
