---------------------------- MODULE MCRadixTree ----------------------------
(* Instances of RadixTree for TLC: two-bit addresses. *)
EXTENDS RadixTree, TLC

CONSTANTS p1

Worker == {p1}

\* Networks written without host bits, and a mask that is too long.
CanonicalNets ==
    {net \in Keys \X (0 .. W) : net[1] % Pow2[W - net[2]] = 0} \cup {<<0, W + 1>>}

\* Single addresses.
HostNets == Keys \X {W}

\* The hypothesis of the theorems about search in AclProofs.
ASSUME NetworksAreDistinct == DistinctNetworks
=============================================================================
