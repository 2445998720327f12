--------------------------- MODULE MCWebConsole ---------------------------
(* Values for the constants of WebConsole. *)
EXTENDS WebConsole, TLC

CONSTANTS a, m1, m2

MCItems == {a}
MCMethods == {m1, m2}
MCMaxRequests == [index |-> 5, acl |-> 5, rate |-> 4]
MCSymmetry == Permutations(MCMethods)

\* A speed that is shown as it was typed, with a timeout, and one that float64
\* rounds down.
MCTyped ==
    {[speed |-> 3, volumn |-> 1, timeout |-> 20],
     [speed |-> 3125, volumn |-> 2, timeout |-> 0]}

MCEarlier == {[speed |-> 3, volumn |-> 1, timeout |-> 20]}

\* The quotients up to 200000 for which int64(1 / (interval / 1e9)) is one less.
MCRoundedDown == {3125 * k : k \in {1, 2, 4, 8, 16, 32, 64}}
=============================================================================
