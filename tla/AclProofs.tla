----------------------------- MODULE AclProofs -----------------------------
(***************************************************************************)
(* Proofs about the access control list.  First RadixTree, the list of one *)
(* node: for any width of an address, networks and size of the heap.  Then *)
(* AclReplication, the lists of a cluster: for any nodes, networks and     *)
(* number of requests, elections and crashes.                              *)
(***************************************************************************)
EXTENDS AclReplication, RadixTree, SequenceTheorems, WellFoundedInduction, TLAPS

(***************************************************************************)
(* Induction over numbers, with sets in the place of predicates.           *)
(***************************************************************************)
\* The least-number principle, by the well-foundedness of < on Nat.
LEMMA LeastElement ==
    ASSUME NEW T \in SUBSET Nat, T # {}
    PROVE  \E m \in T : \A k \in T : m <= k
<1> DEFINE R == {x \in Nat \X Nat : x[1] < x[2]}
<1>1. IsWellFoundedOn(R, Nat)
  BY NatLessThanWellFounded DEF OpToRel
<1>2. \E m \in T : \A k \in T : ~(<<k, m>> \in R)
  <2> HIDE DEF R
  <2> QED
    BY <1>1, WFMin
<1>3. ASSUME NEW m \in T, NEW k \in T, ~(<<k, m>> \in R) PROVE m <= k
  <2>1. m \in Nat /\ k \in Nat /\ ~(k < m)
    BY <1>3
  <2> QED
    BY <2>1
<1> QED
  BY <1>2, <1>3

\* A set of numbers up to n that has 0 and the successors of its elements.
LEMMA UpTo ==
    ASSUME NEW n \in Nat, NEW T, 0 \in T, \A i \in 0 .. (n - 1) : i \in T => i + 1 \in T
    PROVE  \A i \in 0 .. n : i \in T
<1> DEFINE B == {i \in 0 .. n : i \notin T}
<1>1. ASSUME B # {} PROVE FALSE
  <2>1. B \in SUBSET Nat
    OBVIOUS
  <2>2. PICK m \in B : \A k \in B : m <= k
    <3> HIDE DEF B
    <3> QED
      BY <1>1, <2>1, LeastElement
  <2>3. m \in 0 .. n /\ m \notin T /\ m # 0
    BY <2>2
  <2>4. m - 1 \in 0 .. (n - 1) /\ m - 1 \notin B
    BY <2>2, <2>3
  <2>5. m - 1 \in T
    BY <2>4
  <2>6. (m - 1) + 1 \in T /\ (m - 1) + 1 = m
    BY <2>3, <2>4, <2>5
  <2> QED
    BY <2>3, <2>6
<1> QED
  BY <1>1

\* A loop of n steps: F[i] is the i-th.
Loops(S, n) == [1 .. n -> [S -> S]]

\* A loop of n steps has a run: the values of a recursive function exist.
LEMMA LoopExists ==
    ASSUME NEW S, NEW b \in S, NEW n \in Nat, NEW F \in Loops(S, n)
    PROVE  \E f \in [0 .. n -> S] : f[0] = b /\ \A i \in 1 .. n : f[i] = F[i][f[i - 1]]
<1> USE DEF Loops
<1> DEFINE Loop(m, f) == f[0] = b /\ \A i \in 1 .. m : f[i] = F[i][f[i - 1]]
           T == {m \in 0 .. n : \E f \in [0 .. m -> S] : Loop(m, f)}
<1>1. 0 \in T
  <2> DEFINE f == [i \in 0 .. 0 |-> b]
  <2>1. f \in [0 .. 0 -> S] /\ Loop(0, f)
    OBVIOUS
  <2> HIDE DEF f
  <2> QED
    BY <2>1
<1>2. ASSUME NEW m \in 0 .. (n - 1), m \in T PROVE m + 1 \in T
  <2>1. PICK f \in [0 .. m -> S] : Loop(m, f)
    BY <1>2
  <2> DEFINE g == [i \in 0 .. (m + 1) |-> IF i <= m THEN f[i] ELSE F[m + 1][f[m]]]
  <2>2. m + 1 \in 1 .. n /\ m \in 0 .. m /\ f[m] \in S
    BY <1>2
  <2>3. F[m + 1][f[m]] \in S
    BY <2>2
  <2>4. g \in [0 .. (m + 1) -> S]
    BY <2>3
  <2>5. ASSUME NEW i \in 1 .. (m + 1)
        PROVE  g[i] = F[i][g[i - 1]]
    <3>1. CASE i \in 1 .. m
      <4>1. i \in 0 .. m /\ i - 1 \in 0 .. m
        BY <3>1
      <4>2. f[i] = F[i][f[i - 1]]
        BY <2>1, <3>1
      <4>3. g[i] = f[i] /\ g[i - 1] = f[i - 1]
        BY <3>1, <4>1
      <4> QED
        BY <4>1, <4>2, <4>3
    <3>2. CASE i = m + 1
      <4>1. g[i] = F[m + 1][f[m]] /\ g[m] = f[m] /\ i - 1 = m
        BY <3>2
      <4> QED
        BY <3>2, <4>1
    <3> QED
      BY <3>1, <3>2
  <2>8. g[0] = b
    BY <2>1
  <2> HIDE DEF g
  <2>6. Loop(m + 1, g)
    BY <2>5, <2>8
  <2>7. m + 1 \in 0 .. n
    BY <1>2
  <2> QED
    BY <2>4, <2>6, <2>7
<1>3. n \in T
  <2>1. \A i \in 0 .. (n - 1) : i \in T => i + 1 \in T
    BY <1>2
  <2> HIDE DEF T
  <2>2. \A i \in 0 .. n : i \in T
    BY <1>1, <2>1, UpTo
  <2> QED
    BY <2>2
<1> QED
  BY <1>3

-----------------------------------------------------------------------------
(***************************************************************************)
(* Masks: bit d of the mask of a network /c is set exactly if d < c.       *)
(***************************************************************************)
LEMMA Pow2Facts ==
  /\ Pow2[0] = 1
  /\ \A n \in 0 .. W : Pow2[n] \in Nat \ {0}
  /\ \A n \in 1 .. W : Pow2[n] = 2 * Pow2[n - 1]
<1> DEFINE N == Nat \ {0}
           F == [i \in 1 .. W |-> [x \in N |-> 2 * x]]
           Def(g) == g = [n \in 0 .. W |-> IF n = 0 THEN 1 ELSE 2 * g[n - 1]]
<1>1. \E f \in [0 .. W -> N] : f[0] = 1 /\ \A i \in 1 .. W : f[i] = F[i][f[i - 1]]
  <2>1. F \in Loops(N, W)
    BY DEF Loops
  <2>2. 1 \in N /\ W \in Nat
    BY RadixTreeAssumption
  <2> HIDE DEF N, F
  <2> QED
    BY <2>1, <2>2, LoopExists
<1>2. PICK f \in [0 .. W -> N] : f[0] = 1 /\ \A i \in 1 .. W : f[i] = F[i][f[i - 1]]
  BY <1>1
<1>3. ASSUME NEW i \in 1 .. W PROVE f[i] = 2 * f[i - 1]
  <2>1. i - 1 \in 0 .. W
    BY RadixTreeAssumption
  <2>2. f[i - 1] \in N
    BY <2>1
  <2> QED
    BY <1>2, <2>2
<1>4. Def(f)
  <2>1. ASSUME NEW n \in 0 .. W PROVE f[n] = IF n = 0 THEN 1 ELSE 2 * f[n - 1]
    <3>1. CASE n = 0
      BY <3>1, <1>2
    <3>2. CASE n # 0
      <4>1. n \in 1 .. W
        BY <3>2, RadixTreeAssumption
      <4> QED
        BY <3>2, <4>1, <1>3
    <3> QED
      BY <3>1, <3>2
  <2> QED
    BY <2>1
<1>5. Pow2 = CHOOSE g : Def(g)
  BY DEF Pow2
<1>6. Def(Pow2)
  <2> HIDE DEF Def
  <2> QED
    BY <1>4, <1>5
<1>7. \A n \in 0 .. W : Pow2[n] = IF n = 0 THEN 1 ELSE 2 * Pow2[n - 1]
  BY <1>6
<1>8. Pow2[0] = 1
  BY <1>7, RadixTreeAssumption
<1>9. ASSUME NEW n \in 1 .. W PROVE Pow2[n] = 2 * Pow2[n - 1]
  <2>1. n \in 0 .. W /\ n # 0
    BY RadixTreeAssumption
  <2> HIDE DEF Def
  <2> QED
    BY <1>7, <2>1
<1>10. \A n \in 0 .. W : Pow2[n] \in N
  <2> DEFINE T == {n \in 0 .. W : Pow2[n] \in N}
  <2>1. 0 \in T
    BY <1>8, RadixTreeAssumption
  <2>2. \A i \in 0 .. (W - 1) : i \in T => i + 1 \in T
    <3>1. ASSUME NEW i \in 0 .. (W - 1), i \in T PROVE i + 1 \in T
      <4>1. i + 1 \in 1 .. W /\ (i + 1) - 1 = i
        BY RadixTreeAssumption
      <4>2. Pow2[i + 1] = 2 * Pow2[i]
        BY <4>1, <1>9
      <4> QED
        BY <4>1, <4>2, <3>1
    <3> QED
      BY <3>1
  <2>3. W \in Nat
    BY RadixTreeAssumption
  <2> HIDE DEF T
  <2>4. \A i \in 0 .. W : i \in T
    BY <2>1, <2>2, <2>3, UpTo
  <2> QED
    BY <2>4 DEF T
<1> QED
  BY <1>8, <1>9, <1>10

\* Quotient and remainder by b of b * q + r.
LEMMA DivMod ==
  ASSUME NEW b \in Nat \ {0}, NEW q \in Int, NEW r \in 0 .. (b - 1)
  PROVE  (b * q + r) \div b = q /\ (b * q + r) % b = r
  OBVIOUS

\* Sums of exponents, and growth with the exponent.
LEMMA Pow2Split ==
  ASSUME NEW a \in 0 .. W, NEW n \in 0 .. (W - a)
  PROVE  Pow2[a + n] = Pow2[a] * Pow2[n]
<1> DEFINE T == {i \in 0 .. (W - a) : Pow2[a + i] = Pow2[a] * Pow2[i]}
<1>0. W \in Nat /\ Pow2[a] \in Nat \ {0}
  BY RadixTreeAssumption, Pow2Facts
<1>1. 0 \in T
  BY <1>0, Pow2Facts
<1>2. ASSUME NEW i \in 0 .. (W - a - 1), i \in T PROVE i + 1 \in T
  <2>1. i + 1 \in 1 .. W /\ a + i + 1 \in 1 .. W /\ i \in 0 .. W /\ (i + 1) - 1 = i
        /\ (a + i + 1) - 1 = a + i
    BY <1>0
  <2>2. Pow2[i + 1] = 2 * Pow2[i] /\ Pow2[a + i + 1] = 2 * Pow2[a + i]
    BY <2>1, Pow2Facts
  <2>3. Pow2[i] \in Nat /\ Pow2[a + i] = Pow2[a] * Pow2[i]
    BY <2>1, Pow2Facts, <1>2
  <2> DEFINE x == Pow2[a]
             y == Pow2[i]
  <2>4. x \in Nat /\ y \in Nat
    BY <1>0, <2>3
  <2>5. 2 * (x * y) = x * (2 * y)
    <3> HIDE DEF x, y
    <3> QED
      BY <2>4
  <2>6. a + (i + 1) = a + i + 1
    BY <1>0
  <2>7. Pow2[a + (i + 1)] = Pow2[a] * Pow2[i + 1]
    BY <2>2, <2>3, <2>5, <2>6
  <2>8. i + 1 \in 0 .. (W - a)
    BY <1>0
  <2> QED
    BY <2>7, <2>8
<1>3. \A i \in 0 .. ((W - a) - 1) : i \in T => i + 1 \in T
  BY <1>0, <1>2
<1>4. W - a \in Nat
  BY <1>0
<1>5. \A i \in 0 .. (W - a) : i \in T
  <2> DEFINE k == W - a
  <2>1. k \in Nat /\ 0 \in T /\ \A i \in 0 .. (k - 1) : i \in T => i + 1 \in T
    BY <1>1, <1>3, <1>4
  <2> HIDE DEF k, T
  <2>2. \A i \in 0 .. k : i \in T
    BY <2>1, UpTo
  <2> QED
    BY <2>2 DEF k
<1> QED
  BY <1>5

LEMMA Pow2Grows ==
  ASSUME NEW a \in 0 .. W, NEW b \in 0 .. W, a <= b
  PROVE  Pow2[a] <= Pow2[b]
<1> DEFINE x == Pow2[a]
           y == Pow2[b - a]
<1>1. W \in Nat /\ b - a \in 0 .. (W - a) /\ b - a \in 0 .. W /\ a + (b - a) = b
  BY RadixTreeAssumption
<1>2. Pow2[b] = x * y
  BY <1>1, Pow2Split
<1>3. x \in Nat \ {0} /\ y \in Nat \ {0}
  BY <1>1, Pow2Facts
<1>4. x <= x * y
  <2> HIDE DEF x, y
  <2>1. PICK z \in Nat : y = z + 1
    <3>1. y - 1 \in Nat /\ y = (y - 1) + 1
      BY <1>3
    <3> QED
      BY <3>1
  <2>2. x * (z + 1) = x * z + x /\ x * z >= 0
    BY <1>3
  <2> QED
    BY <1>3, <2>1, <2>2
<1> QED
  BY <1>2, <1>4

\* The mask of /c without the wrap of uint32.
LEMMA NetMaskIs ==
  ASSUME NEW c \in Int, c <= W
  PROVE  NetMask(c) = IF c <= 0 THEN 0 ELSE Pow2[W] - Pow2[W - c]
<1> DEFINE one == IF W - c >= W THEN 0 ELSE Pow2[W - c]
           P == Pow2[W]
<1>0. W \in Nat /\ P \in Nat \ {0}
  BY RadixTreeAssumption, Pow2Facts
<1>1. NetMask(c) = (P - 1) - ((one - 1) % P)
  BY DEF NetMask
<1>2. CASE c <= 0
  <2>1. one = 0
    BY <1>0, <1>2
  <2>2. (0 - 1) % P = P - 1
    <3> DEFINE q == -1
               r == P - 1
    <3>1. q \in Int /\ r \in 0 .. (P - 1) /\ P * q + r = 0 - 1
      <4> HIDE DEF P
      <4> QED
        BY <1>0
    <3> HIDE DEF P, q, r
    <3>2. (P * q + r) % P = r
      BY <1>0, <3>1, DivMod
    <3> QED
      BY <3>1, <3>2 DEF r
  <2> HIDE DEF one, P
  <2> QED
    BY <1>0, <1>1, <1>2, <2>1, <2>2
<1>3. CASE ~(c <= 0)
  <2>1. one = Pow2[W - c] /\ W - c \in 0 .. W
    BY <1>0, <1>3
  <2>2. one \in Nat \ {0} /\ one <= P
    BY <1>0, <2>1, Pow2Facts, Pow2Grows
  <2>3. (one - 1) % P = one - 1
    <3> DEFINE q == 0
               r == one - 1
    <3>1. q \in Int /\ r \in 0 .. (P - 1) /\ P * q + r = r
      <4> HIDE DEF P, one
      <4> QED
        BY <1>0, <2>2
    <3> HIDE DEF P, q, r
    <3>2. (P * q + r) % P = r
      BY <1>0, <3>1, DivMod
    <3> QED
      BY <3>1, <3>2 DEF r
  <2>4. (P - 1) - (one - 1) = P - one
    <3> HIDE DEF P, one
    <3> QED
      BY <1>0, <2>2
  <2> HIDE DEF P
  <2> QED
    BY <1>1, <1>3, <2>1, <2>3, <2>4 DEF P
<1> QED
  BY <1>2, <1>3

\* Bit d of the mask of /c is set exactly if d < c: the difference of two powers,
\* split at bit d.
LEMMA MaskBits ==
  ASSUME NEW c \in Int, c <= W, NEW d \in 0 .. W
  PROVE  BitOf(NetMask(c), d) <=> d < c
<1>0. W \in Nat
  BY RadixTreeAssumption
<1>1. CASE d = W
  BY <1>0, <1>1 DEF BitOf
<1>2. CASE d < W /\ c <= 0
  <2> DEFINE s == Pow2[W - 1 - d]
  <2>1. W - 1 - d \in 0 .. W /\ s \in Nat \ {0}
    BY <1>0, <1>2, Pow2Facts
  <2>2. 0 \div s = 0
    <3> HIDE DEF s
    <3> QED
      BY <2>1
  <2>3. NetMask(c) = 0
    BY <1>2, NetMaskIs
  <2> HIDE DEF s
  <2>4. BitOf(NetMask(c), d) <=> d < W /\ (NetMask(c) \div s) % 2 = 1
    BY DEF BitOf, s
  <2>5. ~BitOf(NetMask(c), d)
    BY <2>2, <2>3, <2>4
  <2> QED
    BY <1>2, <2>5
<1>3. CASE d < W /\ 0 < c /\ d < c
  <2> DEFINE s == Pow2[W - 1 - d]
             m == Pow2[W - c]
             t == Pow2[d]
  <2>1. /\ W - 1 - d \in 0 .. W /\ W - c \in 0 .. W /\ W - c <= W - 1 - d
        /\ d + 1 \in 1 .. W /\ (d + 1) - 1 = d /\ (W - 1 - d) + (d + 1) = W
        /\ d + 1 \in 0 .. (W - (W - 1 - d))
    BY <1>0, <1>3
  <2>2. s \in Nat \ {0} /\ m \in Nat \ {0} /\ m <= s /\ t \in Nat \ {0}
    BY <2>1, Pow2Facts, Pow2Grows
  <2>3. Pow2[W] = s * (2 * t)
    BY <2>1, Pow2Split, Pow2Facts
  <2>4. NetMask(c) = s * (2 * t) - m
    BY <1>3, <2>3, NetMaskIs
  <2> HIDE DEF s, m, t
  <2> DEFINE q == 2 * t - 1
             r == s - m
  <2>5. q \in Int /\ r \in 0 .. (s - 1) /\ s * (2 * t) - m = s * q + r /\ q % 2 = 1
    BY <2>2
  <2> HIDE DEF q, r
  <2>6. NetMask(c) \div s = q
    BY <2>2, <2>4, <2>5, DivMod
  <2> QED
    BY <1>3, <2>5, <2>6 DEF BitOf, s
<1>4. CASE d < W /\ 0 < c /\ c <= d
  <2> DEFINE s == Pow2[W - 1 - d]
             t == Pow2[d]
             x == Pow2[d - c]
  <2>1. /\ W - 1 - d \in 0 .. W /\ W - c \in 0 .. W
        /\ d + 1 \in 1 .. W /\ (d + 1) - 1 = d /\ (W - 1 - d) + (d + 1) = W
        /\ d + 1 \in 0 .. (W - (W - 1 - d))
        /\ d - c \in 0 .. W /\ d - c + 1 \in 1 .. W /\ (d - c + 1) - 1 = d - c
        /\ (W - 1 - d) + (d - c + 1) = W - c /\ d - c + 1 \in 0 .. (W - (W - 1 - d))
    BY <1>0, <1>4
  <2>2. s \in Nat \ {0} /\ t \in Nat \ {0} /\ x \in Nat \ {0}
    BY <2>1, Pow2Facts
  <2>3. Pow2[W] = s * (2 * t)
    BY <2>1, Pow2Split, Pow2Facts
  <2>4. Pow2[W - c] = s * (2 * x)
    BY <2>1, Pow2Split, Pow2Facts
  <2>5. NetMask(c) = s * (2 * t) - s * (2 * x)
    BY <1>4, <2>3, <2>4, NetMaskIs
  <2> HIDE DEF s, t, x
  <2> DEFINE q == 2 * (t - x)
             r == 0
  <2>6. q \in Int /\ r \in 0 .. (s - 1) /\ s * (2 * t) - s * (2 * x) = s * q + r /\ q % 2 = 0
    BY <2>2
  <2> HIDE DEF q, r
  <2>7. NetMask(c) \div s = q
    BY <2>2, <2>5, <2>6, DivMod
  <2> QED
    BY <1>4, <2>6, <2>7 DEF BitOf, s
<1> QED
  BY <1>0, <1>1, <1>2, <1>3, <1>4

\* For a network that the tree may hold.
LEMMA MaskedIs ==
  ASSUME NEW net \in Networks, net[2] <= W, NEW d \in 0 .. W
  PROVE  net[1] \in Keys /\ net[2] \in Int /\ (Masked(net, d) <=> d < net[2])
<1>1. net[1] \in Keys /\ net[2] \in Int
  BY RadixTreeAssumption
<1> QED
  BY <1>1, MaskBits DEF Masked

-----------------------------------------------------------------------------
(***************************************************************************)
(* Types and panics, for any number of goroutines.  Whatever the tree has  *)
(* become, only the root has no parent: a node gets one before a pointer   *)
(* to it is stored, and no step takes a parent away.                       *)
(***************************************************************************)
CallRec == [pc : PCs, net : Networks \cup {NoValue}, node : TreeNodes \cup {Nil}, d : 0 .. W]

CallNamed(c) == c.pc # "idle" => c.net \in Networks /\ c.net[2] <= W

CallPlaced(c) == c.pc \in {"descend", "grow", "unlink"} => c.node # Nil

BelowRoot(c) ==
    /\ c.pc = "find" /\ c.node # Nil /\ c.d # 0 => parent[c.node] # Nil
    /\ c.pc = "unlink" /\ c.net[2] \in 1 .. W => parent[c.node] # Nil

HasParent(n) == n # Nil => parent[n] # Nil

AllHaveParents ==
    /\ \A n \in TreeNodes : HasParent(left[n]) /\ HasParent(right[n])
    /\ HasParent(free)

CallsInv == \A p \in Workers : CallNamed(w[p]) /\ CallPlaced(w[p]) /\ BelowRoot(w[p])

TreeInv == TreeTypeOK /\ CallsInv /\ AllHaveParents /\ PanicsOnlyAtEdges

\* Typing of a call, and one lemma per action: it keeps TreeInv.
LEMMA CallType ==
  ASSUME TreeTypeOK, NEW p \in Workers
  PROVE  w[p] \in CallRec
  BY DEF TreeTypeOK, CallRec

\* A step of p that leaves the heap alone.
LEMMA CallStepInv ==
  ASSUME TreeInv, NEW p \in Workers, NEW c \in CallRec,
         w' = [w EXCEPT ![p] = c], UNCHANGED heap,
         Record' \in SUBSET Networks, panicked' \in SUBSET Networks,
         nops' \in 0 .. MaxOps, UNCHANGED reused,
         CallNamed(c), CallPlaced(c), BelowRoot(c),
         \A net \in panicked' \ panicked : net[2] \notin 1 .. W
  PROVE  TreeInv'
<1>1. TreeTypeOK'
  BY DEF TreeInv, TreeTypeOK, heap, CallRec
<1>2. CallsInv'
  BY DEF TreeInv, TreeTypeOK, heap, CallsInv, CallNamed, CallPlaced, BelowRoot
<1>3. AllHaveParents' /\ PanicsOnlyAtEdges'
  BY DEF TreeInv, heap, AllHaveParents, HasParent, PanicsOnlyAtEdges
<1> QED
  BY <1>1, <1>2, <1>3 DEF TreeInv

LEMMA TreeInvInit == TreeInit => TreeInv
<1> SUFFICES ASSUME TreeInit PROVE TreeInv
  OBVIOUS
<1> USE RadixTreeAssumption DEF TreeInit, IdleCall, Nil, Root
<1>1. TreeTypeOK
  <2>1. /\ {left, right, parent} \subseteq [TreeNodes -> TreeNodes \cup {Nil}]
        /\ value \in [TreeNodes -> Networks \cup {NoValue}]
    OBVIOUS
  <2>2. used \in TreeNodes /\ free \in TreeNodes \cup {Nil} /\ nops \in 0 .. MaxOps
    BY DEF TreeNodes
  <2>4. Record \subseteq Networks /\ panicked \subseteq Networks
    OBVIOUS
  <2>5. reused \in BOOLEAN
    OBVIOUS
  <2>3. IdleCall \in [pc : PCs, net : Networks \cup {NoValue},
                     node : TreeNodes \cup {Nil}, d : 0 .. W]
    BY DEF PCs
  <2> QED
    BY <2>1, <2>2, <2>3, <2>4, <2>5 DEF TreeTypeOK
<1>2. CallsInv
  BY DEF CallsInv, CallNamed, CallPlaced, BelowRoot
<1>3. AllHaveParents /\ PanicsOnlyAtEdges
  BY DEF AllHaveParents, HasParent, PanicsOnlyAtEdges
<1> QED
  BY <1>1, <1>2, <1>3 DEF TreeInv

LEMMA AddInv ==
  ASSUME TreeInv, NEW p \in Workers, NEW net \in Networks, Add(p, net)
  PROVE  TreeInv'
<1> DEFINE c == [pc |-> "descend", net |-> net, node |-> Root, d |-> 0]
<1>1. c \in CallRec
  BY RadixTreeAssumption DEF CallRec, PCs, TreeNodes, Root
<1>2. CallNamed(c) /\ CallPlaced(c) /\ BelowRoot(c)
  BY DEF Add, CallNamed, CallPlaced, BelowRoot, Nil, Root
<1>3. w' = [w EXCEPT ![p] = c] /\ UNCHANGED heap /\ Record' \in SUBSET Networks
      /\ panicked' = panicked /\ panicked' \in SUBSET Networks /\ UNCHANGED reused
  BY DEF Add, Begin, TreeInv, TreeTypeOK
<1>4. nops' \in 0 .. MaxOps
  BY RadixTreeAssumption DEF Add, Begin, TreeInv, TreeTypeOK
<1> HIDE DEF c
<1> QED
  BY <1>1, <1>2, <1>3, <1>4, CallStepInv

LEMMA DeleteInv ==
  ASSUME TreeInv, NEW p \in Workers, NEW net \in Networks, Delete(p, net)
  PROVE  TreeInv'
<1> DEFINE c == [pc |-> "find", net |-> net, node |-> Root, d |-> 0]
<1>1. c \in CallRec
  BY RadixTreeAssumption DEF CallRec, PCs, TreeNodes, Root
<1>2. CallNamed(c) /\ CallPlaced(c) /\ BelowRoot(c)
  BY RadixTreeAssumption DEF Delete, CallNamed, CallPlaced, BelowRoot
<1>3. w' = [w EXCEPT ![p] = c] /\ UNCHANGED heap /\ Record' \in SUBSET Networks
      /\ panicked' = panicked /\ panicked' \in SUBSET Networks /\ UNCHANGED reused
  BY DEF Delete, Begin, TreeInv, TreeTypeOK
<1>4. nops' \in 0 .. MaxOps
  BY RadixTreeAssumption DEF Delete, Begin, TreeInv, TreeTypeOK
<1> HIDE DEF c
<1> QED
  BY <1>1, <1>2, <1>3, <1>4, CallStepInv

LEMMA AddPanicInv ==
  ASSUME TreeInv, NEW p \in Workers, NEW net \in Networks, AddPanic(p, net)
  PROVE  TreeInv'
<1>1. TreeTypeOK'
  BY RadixTreeAssumption DEF TreeInv, TreeTypeOK, AddPanic, heap
<1>2. CallsInv'
  BY DEF TreeInv, AddPanic, heap, CallsInv, CallNamed, CallPlaced, BelowRoot
<1>3. AllHaveParents'
  BY DEF TreeInv, AddPanic, heap, AllHaveParents, HasParent
<1>4. PanicsOnlyAtEdges'
  <2>1. net[2] \in Int /\ net[2] \notin 1 .. W
    BY RadixTreeAssumption DEF AddPanic
  <2> QED
    BY <2>1 DEF TreeInv, AddPanic, PanicsOnlyAtEdges
<1> QED
  BY <1>1, <1>2, <1>3, <1>4 DEF TreeInv

\* Return: the call of p ends.
LEMMA IdleInv ==
  ASSUME TreeInv, NEW p \in Workers, w' = [w EXCEPT ![p] = IdleCall],
         UNCHANGED <<heap, nops, reused>>,
         Record' \in SUBSET Networks, panicked' \in SUBSET Networks,
         \A net \in panicked' \ panicked : net[2] \notin 1 .. W
  PROVE  TreeInv'
<1>1. IdleCall \in CallRec
  BY RadixTreeAssumption DEF IdleCall, CallRec, PCs
<1>2. CallNamed(IdleCall) /\ CallPlaced(IdleCall) /\ BelowRoot(IdleCall)
  BY DEF IdleCall, CallNamed, CallPlaced, BelowRoot
<1>3. nops' \in 0 .. MaxOps /\ UNCHANGED heap /\ UNCHANGED reused
  BY DEF TreeInv, TreeTypeOK
<1> QED
  BY <1>1, <1>2, <1>3, CallStepInv

LEMMA CallFacts ==
  ASSUME TreeInv, NEW p \in Workers
  PROVE  /\ w[p] \in CallRec /\ CallNamed(w[p]) /\ CallPlaced(w[p]) /\ BelowRoot(w[p])
         /\ w[p].pc # "idle" => /\ w[p].net \in Networks /\ w[p].net[2] \in Int
                                /\ Masked(w[p].net, w[p].d) <=> w[p].d < w[p].net[2]
<1>1. w[p] \in CallRec /\ CallNamed(w[p]) /\ CallPlaced(w[p]) /\ BelowRoot(w[p])
  BY CallType DEF TreeInv, CallsInv
<1>2. w[p].d \in 0 .. W
  BY <1>1 DEF CallRec
<1>3. w[p].pc # "idle" => w[p].net \in Networks /\ w[p].net[2] <= W
  BY <1>1 DEF CallNamed
<1> QED
  BY <1>1, <1>2, <1>3, MaskedIs

LEMMA ChildFacts ==
  ASSUME TreeInv, NEW n \in TreeNodes, NEW k, NEW d
  PROVE  Child(n, k, d) \in TreeNodes \cup {Nil} /\ HasParent(Child(n, k, d))
  BY DEF TreeInv, TreeTypeOK, AllHaveParents, Child

LEMMA DescendInv ==
  ASSUME TreeInv, NEW p \in Workers, Descend(p)
  PROVE  TreeInv'
<1> DEFINE c == w[p]
           next == Child(c.node, c.net[1], c.d)
           e == IF next = Nil THEN [c EXCEPT !.pc = "grow"]
                              ELSE [c EXCEPT !.node = next, !.d = @ + 1]
<1>1. c \in CallRec /\ c.pc = "descend" /\ CallNamed(c) /\ CallPlaced(c)
      /\ c.net[2] \in Int /\ c.d < c.net[2] /\ c.net[2] <= W
  BY CallFacts DEF Descend, CallNamed
<1>2. next \in TreeNodes \cup {Nil}
  BY <1>1, ChildFacts DEF CallRec, CallPlaced
<1>3. c.d + 1 \in 0 .. W
  BY <1>1, RadixTreeAssumption DEF CallRec
<1>4. w' = [w EXCEPT ![p] = e] /\ UNCHANGED heap /\ UNCHANGED <<Record, nops, reused, panicked>>
  BY DEF Descend
<1> HIDE DEF next
<1>5. e \in CallRec
  BY <1>1, <1>2, <1>3 DEF CallRec, PCs
<1>6. CallNamed(e) /\ CallPlaced(e) /\ BelowRoot(e)
  BY <1>1, <1>2 DEF CallNamed, CallPlaced, BelowRoot, CallRec
<1>7. Record \in SUBSET Networks /\ panicked \in SUBSET Networks /\ nops \in 0 .. MaxOps
  BY DEF TreeInv, TreeTypeOK
<1> HIDE DEF e
<1> QED
  BY <1>4, <1>5, <1>6, <1>7, CallStepInv

LEMMA FindInv ==
  ASSUME TreeInv, NEW p \in Workers, Find(p)
  PROVE  TreeInv'
<1> DEFINE c == w[p]
           next == Child(c.node, c.net[1], c.d)
           e == [c EXCEPT !.node = next, !.d = @ + 1]
<1>1. c \in CallRec /\ c.pc = "find" /\ c.node # Nil /\ CallNamed(c)
      /\ c.net[2] \in Int /\ c.d < c.net[2] /\ c.net[2] <= W
  BY CallFacts DEF Find, CallNamed
<1>2. next \in TreeNodes \cup {Nil} /\ HasParent(next)
  BY <1>1, ChildFacts DEF CallRec
<1>3. c.d + 1 \in 0 .. W
  BY <1>1, RadixTreeAssumption DEF CallRec
<1>4. w' = [w EXCEPT ![p] = e] /\ UNCHANGED heap /\ UNCHANGED <<Record, nops, reused, panicked>>
  BY DEF Find
<1> HIDE DEF next
<1>5. e \in CallRec
  BY <1>1, <1>2, <1>3 DEF CallRec, PCs
<1>6. CallNamed(e) /\ CallPlaced(e) /\ BelowRoot(e)
  BY <1>1, <1>2 DEF CallNamed, CallPlaced, BelowRoot, CallRec, HasParent
<1>7. Record \in SUBSET Networks /\ panicked \in SUBSET Networks /\ nops \in 0 .. MaxOps
  BY DEF TreeInv, TreeTypeOK
<1> HIDE DEF e
<1> QED
  BY <1>4, <1>5, <1>6, <1>7, CallStepInv

LEMMA FoundLeafInv ==
  ASSUME TreeInv, NEW p \in Workers, FoundLeaf(p)
  PROVE  TreeInv'
<1> DEFINE c == w[p]
           e == [c EXCEPT !.pc = "unlink"]
<1>1. c \in CallRec /\ c.pc = "find" /\ c.node # Nil /\ CallNamed(c) /\ BelowRoot(c)
      /\ c.net[2] \in Int /\ ~(c.d < c.net[2])
  BY CallFacts DEF FoundLeaf, Found
<1>2. c.net[2] \in 1 .. W => c.d # 0
  BY <1>1, RadixTreeAssumption DEF CallRec
<1>3. w' = [w EXCEPT ![p] = e] /\ UNCHANGED heap /\ UNCHANGED <<Record, nops, reused, panicked>>
  BY DEF FoundLeaf, TreeInv, TreeTypeOK
<1>4. e \in CallRec
  BY <1>1 DEF CallRec, PCs
<1>5. CallNamed(e) /\ CallPlaced(e) /\ BelowRoot(e)
  BY <1>1, <1>2 DEF CallNamed, CallPlaced, BelowRoot, CallRec
<1>6. Record \in SUBSET Networks /\ panicked \in SUBSET Networks /\ nops \in 0 .. MaxOps
  BY DEF TreeInv, TreeTypeOK
<1> HIDE DEF e
<1> QED
  BY <1>3, <1>4, <1>5, <1>6, CallStepInv

LEMMA EnlistInv ==
  ASSUME TreeInv, NEW p \in Workers, Enlist(p)
  PROVE  TreeInv'
<1>1. w[p].net \in Networks
  BY CallFacts DEF Enlist
<1>2. w' = [w EXCEPT ![p] = IdleCall] /\ UNCHANGED <<heap, nops, reused>> /\ panicked' = panicked
  BY DEF Enlist
<1>3. Record' \in SUBSET Networks /\ panicked \in SUBSET Networks
  BY <1>1 DEF Enlist, TreeInv, TreeTypeOK
<1> QED
  BY <1>2, <1>3, IdleInv

LEMMA DelistInv ==
  ASSUME TreeInv, NEW p \in Workers, Delist(p)
  PROVE  TreeInv'
<1>1. w' = [w EXCEPT ![p] = IdleCall] /\ UNCHANGED <<heap, nops, reused>> /\ panicked' = panicked
  BY DEF Delist
<1>2. Record' \in SUBSET Networks /\ panicked \in SUBSET Networks
  BY DEF Delist, TreeInv, TreeTypeOK
<1> QED
  BY <1>1, <1>2, IdleInv

LEMMA NotFoundInv ==
  ASSUME TreeInv, NEW p \in Workers, NotFound(p)
  PROVE  TreeInv'
<1>1. w' = [w EXCEPT ![p] = IdleCall] /\ UNCHANGED <<heap, nops, reused>>
      /\ panicked' = panicked /\ Record' = Record
  BY DEF NotFound
<1>2. Record \in SUBSET Networks /\ panicked \in SUBSET Networks
  BY DEF TreeInv, TreeTypeOK
<1> QED
  BY <1>1, <1>2, IdleInv

LEMMA UnlinkPanicInv ==
  ASSUME TreeInv, NEW p \in Workers, UnlinkPanic(p)
  PROVE  TreeInv'
<1>1. w[p].net \in Networks /\ BelowRoot(w[p])
  BY CallFacts DEF UnlinkPanic
<1>2. w' = [w EXCEPT ![p] = IdleCall] /\ UNCHANGED <<heap, nops, reused>> /\ Record' = Record
      /\ panicked' = panicked \cup {w[p].net}
  BY DEF UnlinkPanic
<1>3. w[p].net[2] \notin 1 .. W
  BY <1>1 DEF UnlinkPanic, BelowRoot
<1>4. Record \in SUBSET Networks /\ panicked' \in SUBSET Networks
  BY <1>1, <1>2 DEF TreeInv, TreeTypeOK
<1> QED
  BY <1>2, <1>3, <1>4, IdleInv

\* A step of p after which every node that had a parent still has one.
LEMMA CallsStep ==
  ASSUME TreeInv, NEW p \in Workers, NEW c \in CallRec, w' = [w EXCEPT ![p] = c],
         \A n \in TreeNodes : parent[n] # Nil => parent'[n] # Nil,
         CallNamed(c), CallPlaced(c),
         c.pc = "find" /\ c.node # Nil /\ c.d # 0 => parent'[c.node] # Nil,
         c.pc = "unlink" /\ c.net[2] \in 1 .. W => parent'[c.node] # Nil
  PROVE  CallsInv' /\ w' \in [Workers -> CallRec]
<1>1. w \in [Workers -> CallRec]
  BY DEF TreeInv, TreeTypeOK, CallRec
<1>2. ASSUME NEW q \in Workers
      PROVE  CallNamed(w'[q]) /\ CallPlaced(w'[q]) /\ BelowRoot(w[q])'
  <2>1. CASE q = p
    BY <1>1, <2>1 DEF BelowRoot
  <2>2. CASE q # p
    <3>1. w'[q] = w[q] /\ CallNamed(w[q]) /\ CallPlaced(w[q]) /\ BelowRoot(w[q]) /\ w[q] \in CallRec
      BY <1>1, <2>2 DEF TreeInv, CallsInv
    <3>2. w[q].pc = "unlink" => w[q].node \in TreeNodes
      BY <3>1 DEF CallPlaced, CallRec
    <3>3. w[q].node # Nil => w[q].node \in TreeNodes
      BY <3>1 DEF CallRec
    <3> QED
      BY <3>1, <3>2, <3>3 DEF BelowRoot
  <2> QED
    BY <2>1, <2>2
<1> QED
  BY <1>1, <1>2 DEF CallsInv, CallNamed, CallPlaced

LEMMA SetValueInv ==
  ASSUME TreeInv, NEW p \in Workers, SetValue(p)
  PROVE  TreeInv'
<1> DEFINE c == w[p]
           e == [c EXCEPT !.pc = "record"]
<1>1. c \in CallRec /\ CallNamed(c) /\ c.net \in Networks /\ c.pc # "idle"
  BY CallFacts DEF SetValue
<1>2. e \in CallRec /\ CallNamed(e) /\ CallPlaced(e) /\ e.pc = "record"
  BY <1>1 DEF CallRec, PCs, CallNamed, CallPlaced
<1>3. w' = [w EXCEPT ![p] = e]
  BY DEF SetValue
<1>4. parent' = parent /\ value' = [value EXCEPT ![c.node] = c.net]
      /\ UNCHANGED <<left, right, used, free, Record, nops, reused, panicked>>
  BY DEF SetValue
<1> HIDE DEF e, c
<1>5. CallsInv' /\ w' \in [Workers -> CallRec]
  BY <1>2, <1>3, <1>4, CallsStep
<1>6. TreeTypeOK'
  BY <1>1, <1>4, <1>5 DEF TreeInv, TreeTypeOK, CallRec
<1>7. AllHaveParents' /\ PanicsOnlyAtEdges'
  BY <1>4 DEF TreeInv, AllHaveParents, HasParent, PanicsOnlyAtEdges
<1> QED
  BY <1>5, <1>6, <1>7 DEF TreeInv

LEMMA ClearValueInv ==
  ASSUME TreeInv, NEW p \in Workers, ClearValue(p)
  PROVE  TreeInv'
<1> DEFINE c == w[p]
           e == [c EXCEPT !.pc = "unrecord"]
<1>1. c \in CallRec /\ CallNamed(c) /\ c.pc # "idle"
  BY CallFacts DEF ClearValue, Found
<1>2. e \in CallRec /\ CallNamed(e) /\ CallPlaced(e) /\ e.pc = "unrecord"
  BY <1>1 DEF CallRec, PCs, CallNamed, CallPlaced
<1>3. w' = [w EXCEPT ![p] = e]
  BY DEF ClearValue
<1>4. parent' = parent /\ value' = [value EXCEPT ![c.node] = NoValue]
      /\ UNCHANGED <<left, right, used, free, Record, nops, reused, panicked>>
  BY DEF ClearValue
<1> HIDE DEF e, c
<1>5. CallsInv' /\ w' \in [Workers -> CallRec]
  BY <1>2, <1>3, <1>4, CallsStep
<1>6. TreeTypeOK'
  BY <1>4, <1>5 DEF TreeInv, TreeTypeOK, CallRec
<1>7. AllHaveParents' /\ PanicsOnlyAtEdges'
  BY <1>4 DEF TreeInv, AllHaveParents, HasParent, PanicsOnlyAtEdges
<1> QED
  BY <1>5, <1>6, <1>7 DEF TreeInv

\* newNode.
NewNode == IF free # Nil THEN free ELSE used + 1

\* What newNode and the link to it do to the fields, node by node.
LEMMA GrowIs ==
  ASSUME TreeInv, NEW p \in Workers, Grow(p)
  PROVE  LET c == w[p] IN
         /\ NewNode \in TreeNodes /\ c.node \in TreeNodes /\ c \in CallRec /\ CallNamed(c)
         /\ c.pc = "grow" /\ c.d < c.net[2] /\ c.net[2] \in Int /\ c.d + 1 \in 0 .. W
         /\ parent' = [parent EXCEPT ![NewNode] = c.node]
         /\ value' = [value EXCEPT ![NewNode] = NoValue]
         /\ IF BitOf(c.net[1], c.d)
            THEN right' = [right EXCEPT ![c.node] = NewNode] /\ left' = left
            ELSE left' = [left EXCEPT ![c.node] = NewNode] /\ right' = right
         /\ IF free # Nil
            THEN free' = right[free] /\ reused' = TRUE /\ used' = used
            ELSE used' = used + 1 /\ free' = free /\ reused' = reused
         /\ w' = [w EXCEPT ![p] = [c EXCEPT !.node = NewNode, !.d = @ + 1]]
         /\ UNCHANGED <<Record, nops, panicked>>
<1> DEFINE c == w[p]
<1>1. c \in CallRec /\ CallNamed(c) /\ CallPlaced(c) /\ c.pc = "grow" /\ c.net[2] \in Int
      /\ c.d < c.net[2] /\ c.net[2] <= W
  BY CallFacts DEF Grow, CallNamed
<1>2. c.d + 1 \in 0 .. W /\ c.node \in TreeNodes
  BY <1>1, RadixTreeAssumption DEF CallRec, CallPlaced
<1>3. NewNode \in TreeNodes
  <2>1. CASE free # Nil
    BY <2>1 DEF NewNode, TreeInv, TreeTypeOK
  <2>2. CASE free = Nil
    BY <2>2, RadixTreeAssumption DEF NewNode, TreeInv, TreeTypeOK, TreeNodes, Grow
  <2> QED
    BY <2>1, <2>2
<1>4. w \in [Workers -> CallRec]
  BY DEF TreeInv, TreeTypeOK, CallRec
<1>5. w' = [w EXCEPT ![p] = [c EXCEPT !.node = NewNode, !.d = @ + 1]]
  BY <1>4 DEF Grow, NewNode
<1>6. /\ parent' = [parent EXCEPT ![NewNode] = c.node]
      /\ value' = [value EXCEPT ![NewNode] = NoValue]
      /\ IF BitOf(c.net[1], c.d)
         THEN right' = [right EXCEPT ![c.node] = NewNode] /\ left' = left
         ELSE left' = [left EXCEPT ![c.node] = NewNode] /\ right' = right
      /\ UNCHANGED <<Record, nops, panicked>>
  BY DEF Grow, NewNode
<1>7. IF free # Nil
      THEN free' = right[free] /\ reused' = TRUE /\ used' = used
      ELSE used' = used + 1 /\ free' = free /\ reused' = reused
  BY DEF Grow
<1> QED
  BY <1>1, <1>2, <1>3, <1>5, <1>6, <1>7

LEMMA GrowInv ==
  ASSUME TreeInv, NEW p \in Workers, Grow(p)
  PROVE  TreeInv'
<1> DEFINE c == w[p]
           e == [c EXCEPT !.node = NewNode, !.d = @ + 1]
<1>1. /\ NewNode \in TreeNodes /\ c.node \in TreeNodes /\ c \in CallRec /\ CallNamed(c)
      /\ c.pc = "grow" /\ c.d + 1 \in 0 .. W
      /\ parent' = [parent EXCEPT ![NewNode] = c.node]
      /\ value' = [value EXCEPT ![NewNode] = NoValue]
      /\ w' = [w EXCEPT ![p] = e]
      /\ UNCHANGED <<Record, nops, panicked>>
  BY GrowIs
<1>2. \/ right' = [right EXCEPT ![c.node] = NewNode] /\ left' = left
      \/ left' = [left EXCEPT ![c.node] = NewNode] /\ right' = right
  BY GrowIs
<1>3. \/ free # Nil /\ free' = right[free] /\ reused' = TRUE /\ used' = used
      \/ free = Nil /\ used' = NewNode /\ free' = free /\ reused' = reused
  BY GrowIs DEF NewNode
<1>4. e \in CallRec /\ CallNamed(e) /\ CallPlaced(e) /\ e.pc = "grow"
  <2>1. NewNode # Nil
    BY <1>1 DEF TreeNodes, Nil
  <2> HIDE DEF c
  <2>2. e \in CallRec /\ e.pc = "grow" /\ e.node = NewNode /\ e.net = c.net
    BY <1>1 DEF CallRec
  <2> QED
    BY <1>1, <2>1, <2>2 DEF CallNamed, CallPlaced
<1> HIDE DEF e
<1>5. parent \in [TreeNodes -> TreeNodes \cup {Nil}]
  BY DEF TreeInv, TreeTypeOK
<1>6. c.node # Nil
  BY <1>1 DEF TreeNodes, Nil
<1>7. \A n \in TreeNodes : parent[n] # Nil => parent'[n] # Nil
  BY <1>1, <1>5, <1>6
<1> HIDE DEF c
<1>8. CallsInv' /\ w' \in [Workers -> CallRec]
  BY <1>1, <1>4, <1>7, CallsStep
<1>9. TreeTypeOK'
  <2>1. parent' \in [TreeNodes -> TreeNodes \cup {Nil}]
    BY <1>1, <1>5
  <2>2. left' \in [TreeNodes -> TreeNodes \cup {Nil}] /\ right' \in [TreeNodes -> TreeNodes \cup {Nil}]
    BY <1>1, <1>2 DEF TreeInv, TreeTypeOK
  <2>3. value' \in [TreeNodes -> Networks \cup {NoValue}]
    BY <1>1 DEF TreeInv, TreeTypeOK
  <2>4. used' \in TreeNodes /\ free' \in TreeNodes \cup {Nil}
    BY <1>1, <1>3 DEF TreeInv, TreeTypeOK
  <2>5. reused' \in BOOLEAN
    BY <1>3 DEF TreeInv, TreeTypeOK
  <2>6. Record' \subseteq Networks /\ nops' \in 0 .. MaxOps /\ panicked' \subseteq Networks
    BY <1>1 DEF TreeInv, TreeTypeOK
  <2> QED
    BY <1>8, <2>1, <2>2, <2>3, <2>4, <2>5, <2>6 DEF TreeTypeOK, CallRec
<1>10. AllHaveParents'
  <2>1. left \in [TreeNodes -> TreeNodes \cup {Nil}] /\ right \in [TreeNodes -> TreeNodes \cup {Nil}]
    BY DEF TreeInv, TreeTypeOK
  <2>2. parent'[NewNode] # Nil
    BY <1>1, <1>5, <1>6
  <2>3. free' # Nil => parent'[free'] # Nil
    BY <1>3, <1>7, <2>1 DEF TreeInv, TreeTypeOK, AllHaveParents, HasParent
  <2>4. ASSUME NEW n \in TreeNodes
        PROVE  /\ left'[n] # Nil => parent'[left'[n]] # Nil
               /\ right'[n] # Nil => parent'[right'[n]] # Nil
    <3>1. left'[n] \in {left[n], NewNode} /\ right'[n] \in {right[n], NewNode}
      BY <1>1, <1>2, <2>1
    <3>2. /\ left[n] # Nil => parent'[left[n]] # Nil
          /\ right[n] # Nil => parent'[right[n]] # Nil
      BY <1>7, <2>1 DEF TreeInv, AllHaveParents, HasParent
    <3> QED
      BY <2>2, <3>1, <3>2
  <2> QED
    BY <2>3, <2>4 DEF AllHaveParents, HasParent
<1>11. PanicsOnlyAtEdges'
  BY <1>1 DEF TreeInv, PanicsOnlyAtEdges
<1> QED
  BY <1>8, <1>9, <1>10, <1>11 DEF TreeInv

\* What unlinking a leaf does to the fields, node by node.
LEMMA UnlinkIs ==
  ASSUME TreeInv, NEW p \in Workers, Unlink(p)
  PROVE  LET c == w[p]
             n == c.node
             m == parent[n]
         IN /\ c \in CallRec /\ CallNamed(c) /\ c.pc = "unlink" /\ c.net \in Networks
            /\ n \in TreeNodes /\ m \in TreeNodes /\ m # Nil
            /\ right' \in [TreeNodes -> TreeNodes \cup {Nil}]
            /\ left' \in [TreeNodes -> TreeNodes \cup {Nil}]
            /\ right'[n] = free
            /\ m # n /\ right[m] = n => right'[m] = Nil /\ left' = left
            /\ right[m] # n => left'[m] = Nil /\ \A i \in TreeNodes \ {m} : left'[i] = left[i]
            /\ \A i \in TreeNodes \ {m} : left'[i] = left[i]
            /\ left'[m] \in {left[m], Nil}
            /\ right[m] # n /\ m # n => right'[m] = right[m]
            /\ \A i \in TreeNodes \ {n, m} : right'[i] = right[i]
            /\ free' = n
            /\ w' = [w EXCEPT ![p] = [c EXCEPT !.node = m,
                         !.pc = IF \/ right'[m] # Nil \/ left'[m] # Nil
                                   \/ value[m] # NoValue \/ parent[m] = Nil
                                THEN "unrecord" ELSE "unlink"]]
            /\ UNCHANGED <<parent, value, used, Record, nops, reused, panicked>>
<1> DEFINE c == w[p]
           n == c.node
           m == parent[n]
<1>1. c \in CallRec /\ CallNamed(c) /\ CallPlaced(c) /\ c.pc = "unlink" /\ c.net \in Networks
  BY CallFacts DEF Unlink
<1>2. n \in TreeNodes
  BY <1>1 DEF CallRec, CallPlaced
<1>3. m \in TreeNodes /\ m # Nil
  BY <1>2 DEF TreeInv, TreeTypeOK, Unlink
<1>4. /\ left \in [TreeNodes -> TreeNodes \cup {Nil}]
      /\ right \in [TreeNodes -> TreeNodes \cup {Nil}]
      /\ free \in TreeNodes \cup {Nil}
      /\ w \in [Workers -> CallRec]
  BY DEF TreeInv, TreeTypeOK, CallRec
<1>5. right' = [i \in TreeNodes |-> CASE i = n -> free
                                      [] i = m /\ i # n /\ right[m] = n -> Nil
                                      [] OTHER -> right[i]]
  BY DEF Unlink
<1>6. left' = IF right[m] = n THEN left ELSE [left EXCEPT ![m] = Nil]
  BY DEF Unlink
<1>7. free' = n /\ UNCHANGED <<parent, value, used, Record, nops, reused, panicked>>
  BY DEF Unlink
<1>8. w' = [w EXCEPT ![p] = [c EXCEPT !.node = m,
                         !.pc = IF \/ right'[m] # Nil \/ left'[m] # Nil
                                   \/ value[m] # NoValue \/ parent[m] = Nil
                                THEN "unrecord" ELSE "unlink"]]
  BY <1>4 DEF Unlink
<1> HIDE DEF c, n, m
<1>9. /\ right' \in [TreeNodes -> TreeNodes \cup {Nil}]
      /\ left' \in [TreeNodes -> TreeNodes \cup {Nil}]
  BY <1>4, <1>5, <1>6
<1>10. /\ right'[n] = free
       /\ m # n /\ right[m] = n => right'[m] = Nil /\ left' = left
       /\ right[m] # n /\ m # n => right'[m] = right[m]
       /\ \A i \in TreeNodes \ {n, m} : right'[i] = right[i]
  BY <1>2, <1>3, <1>4, <1>5, <1>6
<1>11. /\ right[m] # n => left'[m] = Nil
       /\ \A i \in TreeNodes \ {m} : left'[i] = left[i]
       /\ left'[m] \in {left[m], Nil}
  BY <1>2, <1>3, <1>4, <1>6
<1> QED
  BY <1>1, <1>2, <1>3, <1>7, <1>8, <1>9, <1>10, <1>11 DEF c, n, m

LEMMA UnlinkInv ==
  ASSUME TreeInv, NEW p \in Workers, Unlink(p)
  PROVE  TreeInv'
<1> DEFINE c == w[p]
           n == c.node
           m == parent[n]
           stop == \/ right'[m] # Nil \/ left'[m] # Nil
                   \/ value[m] # NoValue \/ parent[m] = Nil
           e == [c EXCEPT !.node = m, !.pc = IF stop THEN "unrecord" ELSE "unlink"]
<1>1. /\ c \in CallRec /\ CallNamed(c) /\ c.pc = "unlink" /\ c.net \in Networks
      /\ n \in TreeNodes /\ m \in TreeNodes /\ m # Nil
      /\ w' = [w EXCEPT ![p] = e]
      /\ free' = n
      /\ UNCHANGED <<parent, value, used, Record, nops, reused, panicked>>
  BY UnlinkIs
<1>2. /\ right' \in [TreeNodes -> TreeNodes \cup {Nil}]
      /\ left' \in [TreeNodes -> TreeNodes \cup {Nil}]
      /\ right'[n] = free
      /\ \A i \in TreeNodes \ {m} : left'[i] = left[i]
      /\ left'[m] \in {left[m], Nil}
      /\ \A i \in TreeNodes \ {n, m} : right'[i] = right[i]
      /\ m # n => right'[m] \in {right[m], Nil}
  BY UnlinkIs
<1>3. e \in CallRec /\ CallNamed(e) /\ CallPlaced(e)
      /\ e.pc # "find" /\ (e.pc = "unlink" => parent[e.node] # Nil)
  BY <1>1 DEF CallRec, PCs, CallNamed, CallPlaced
<1> HIDE DEF e, c, n, m
<1>4. CallsInv' /\ w' \in [Workers -> CallRec]
  BY <1>1, <1>3, CallsStep
<1>5. TreeTypeOK'
  <2>1. reused' \in BOOLEAN
    BY <1>1 DEF TreeInv, TreeTypeOK
  <2> QED
    BY <1>1, <1>2, <1>4, <2>1 DEF TreeInv, TreeTypeOK, CallRec
<1>6. AllHaveParents'
  <2>1. parent[n] # Nil
    BY <1>1 DEF m
  <2>2. ASSUME NEW i \in TreeNodes
        PROVE  /\ left'[i] # Nil => parent[left'[i]] # Nil
               /\ right'[i] # Nil => parent[right'[i]] # Nil
    <3>1. left'[i] \in {left[i], Nil}
      BY <1>2
    <3>2. right'[i] \in {right[i], free, Nil}
      BY <1>2
    <3> QED
      BY <3>1, <3>2 DEF TreeInv, AllHaveParents, HasParent
  <2> QED
    BY <1>1, <2>1, <2>2 DEF AllHaveParents, HasParent
<1>7. PanicsOnlyAtEdges'
  BY <1>1 DEF TreeInv, PanicsOnlyAtEdges
<1> QED
  BY <1>4, <1>5, <1>6, <1>7 DEF TreeInv

LEMMA StutterInv ==
  ASSUME TreeInv, UNCHANGED treeVars
  PROVE  TreeInv'
<1>1. TreeTypeOK'
  BY DEF TreeInv, TreeTypeOK, treeVars, heap
<1>2. CallsInv' /\ AllHaveParents' /\ PanicsOnlyAtEdges'
  BY DEF TreeInv, CallsInv, AllHaveParents, PanicsOnlyAtEdges, CallNamed, CallPlaced,
         BelowRoot, HasParent, treeVars, heap
<1> QED
  BY <1>1, <1>2 DEF TreeInv

\* Every step keeps TreeInv, for any number of goroutines.
LEMMA TreeInvNext == TreeInv /\ [TreeNext]_treeVars => TreeInv'
<1> SUFFICES ASSUME TreeInv, [TreeNext]_treeVars PROVE TreeInv'
  OBVIOUS
<1>1. ASSUME NEW p \in Workers, NEW net \in Networks,
             Add(p, net) \/ AddPanic(p, net) \/ Delete(p, net)
      PROVE  TreeInv'
  BY <1>1, AddInv, AddPanicInv, DeleteInv
<1>2. ASSUME NEW p \in Workers, Step(p) PROVE TreeInv'
  BY <1>2, DescendInv, SetValueInv, GrowInv, EnlistInv, FindInv, NotFoundInv, ClearValueInv,
     FoundLeafInv, UnlinkPanicInv, UnlinkInv, DelistInv DEF Step
<1> QED
  BY <1>1, <1>2, StutterInv DEF TreeNext

LEMMA TreeAlways == TreeSpec => []TreeInv
<1> QED
  BY TreeInvInit, TreeInvNext, PTL DEF TreeSpec

(***************************************************************************)
(* Nodes and calls keep their types for any number of goroutines in Add    *)
(* and Delete, also after nodes of the free list have been used again.     *)
(***************************************************************************)
THEOREM TreeTypesOK == TreeSpec => []TreeTypeOK
<1>1. TreeInv => TreeTypeOK
  BY DEF TreeInv
<1> QED
  BY <1>1, TreeAlways, PTL

(***************************************************************************)
(* However the goroutines in Add and Delete interleave, and however often  *)
(* nodes are used again, only /0 and masks beyond the width panic.         *)
(***************************************************************************)
THEOREM OnlyEdgesPanic == TreeSpec => []PanicsOnlyAtEdges
<1>1. TreeInv => PanicsOnlyAtEdges
  BY DEF TreeInv
<1> QED
  BY <1>1, TreeAlways, PTL

-----------------------------------------------------------------------------
(***************************************************************************)
(* The shape of the tree while no node has been used a second time.  L is  *)
(* the set of nodes in the tree; node n stands for the first dep[n] bits   *)
(* of key[n].  What the invariant says of them is local to a node and its  *)
(* neighbours, so that a step disturbs it at two nodes at most.            *)
(***************************************************************************)
Agree(k, l, d) == \A i \in 0 .. (d - 1) : BitOf(k, i) <=> BitOf(l, i)

Rooted(L, dep) == Root \in L /\ L \subseteq 1 .. used /\ dep[Root] = 0 /\ parent[Root] = Nil

\* From a node to its parent ...
HangsFrom(n, m, dep, key) ==
    /\ dep[n] = dep[m] + 1
    /\ Agree(key[n], key[m], dep[m])
    /\ Child(m, key[n], dep[m]) = n

Upward(L, dep, key) ==
    \A n \in L \ {Root} : parent[n] \in L /\ HangsFrom(n, parent[n], dep, key)

\* ... and from a node to its children.
Holds(n, m, L, dep, key) ==
    m \in L \ {Root} /\ parent[m] = n

Downward(L, dep, key) ==
    \A n \in L :
        /\ left[n] # Nil => Holds(n, left[n], L, dep, key) /\ ~BitOf(key[left[n]], dep[n])
        /\ right[n] # Nil => Holds(n, right[n], L, dep, key) /\ BitOf(key[right[n]], dep[n])

\* A new node has no children yet.
Fresh == \A n \in TreeNodes : n > used => left[n] = Nil /\ right[n] = Nil

At(n, net, dep, key) == dep[n] = net[2] /\ Agree(key[n], net[1], dep[n])

Placed(L, dep, key) ==
    \A n \in L : value[n] # NoValue => At(n, value[n], dep, key)

OnePlace(L, dep, key) ==
    \A m, n \in L : dep[m] = dep[n] /\ Agree(key[m], key[n], dep[m]) => m = n

Shape(L, dep, key) ==
    /\ Rooted(L, dep) /\ Upward(L, dep, key) /\ Downward(L, dep, key) /\ Fresh
    /\ Placed(L, dep, key) /\ OnePlace(L, dep, key)

\* The networks the tree holds.
Held(L) == {net \in Networks : \E n \in L : value[n] = net}

OnPath(c, L, dep, key) ==
    /\ c.node \in L
    /\ dep[c.node] = c.d
    /\ c.d <= c.net[2]
    /\ Agree(key[c.node], c.net[1], c.d)

\* The first node that delete unlinks, or one above it.
Unlinking(c, L, dep, key) ==
    /\ c.node \in L /\ Leaf(c.node)
    /\ \/ Held(L) = Record /\ At(c.node, c.net, dep, key)
       \/ /\ Held(L) = Record \ {c.net}
          /\ c.node # Root /\ value[c.node] = NoValue

CallShape(c, L, dep, key) ==
    /\ c.pc \in {"idle", "descend", "grow", "find"} => Held(L) = Record
    /\ c.pc \in {"descend", "grow"} => OnPath(c, L, dep, key)
    /\ c.pc = "find" /\ c.node # Nil => OnPath(c, L, dep, key)
    /\ c.pc = "grow" => Child(c.node, c.net[1], c.d) = Nil
    /\ c.pc = "record" => Held(L) = Record \cup {c.net}
    /\ c.pc = "unrecord" => Held(L) = Record \ {c.net}
    /\ c.pc = "unlink" => Unlinking(c, L, dep, key)

Depths == [TreeNodes -> 0 .. W]
NodeKeys == [TreeNodes -> Keys]

ShapeInv ==
    ~reused => \E L \in SUBSET TreeNodes, dep \in Depths, key \in NodeKeys :
                   /\ Shape(L, dep, key)
                   /\ \A p \in Workers : CallShape(w[p], L, dep, key)

\* Agree is an equivalence, and grows bit by bit.
LEMMA AgreeSym ==
  ASSUME NEW a, NEW b, NEW d, Agree(a, b, d)
  PROVE  Agree(b, a, d)
  BY DEF Agree

LEMMA AgreeTrans ==
  ASSUME NEW a, NEW b, NEW c, NEW d, Agree(a, b, d), Agree(b, c, d)
  PROVE  Agree(a, c, d)
  BY DEF Agree

LEMMA AgreeNone ==
  ASSUME NEW a, NEW b
  PROVE  Agree(a, b, 0)
  BY DEF Agree

LEMMA AgreeNext ==
  ASSUME NEW a, NEW b, NEW d \in Nat
  PROVE  Agree(a, b, d + 1) <=> Agree(a, b, d) /\ (BitOf(a, d) <=> BitOf(b, d))
<1>1. ASSUME Agree(a, b, d + 1) PROVE Agree(a, b, d) /\ (BitOf(a, d) <=> BitOf(b, d))
  <2>1. \A i \in 0 .. d : BitOf(a, i) <=> BitOf(b, i)
    BY <1>1 DEF Agree
  <2> QED
    BY <2>1 DEF Agree
<1>2. ASSUME Agree(a, b, d), BitOf(a, d) <=> BitOf(b, d) PROVE Agree(a, b, d + 1)
  <2>1. ASSUME NEW i \in 0 .. ((d + 1) - 1) PROVE BitOf(a, i) <=> BitOf(b, i)
    <3>1. CASE i = d
      BY <1>2, <3>1
    <3>2. CASE i \in 0 .. (d - 1)
      BY <1>2, <3>2 DEF Agree
    <3> QED
      BY <3>1, <3>2
  <2> QED
    BY <2>1 DEF Agree
<1> QED
  BY <1>1, <1>2

\* The child of n on the path of k stands for one bit more of k.
LEMMA ChildPlace ==
  ASSUME NEW L \in SUBSET TreeNodes, NEW dep \in Depths, NEW key, Shape(L, dep, key),
         NEW n \in L, NEW k, NEW m, Agree(key[n], k, dep[n]),
         m = Child(n, k, dep[n]), m # Nil
  PROVE  m \in L \ {Root} /\ parent[m] = n /\ dep[m] = dep[n] + 1 /\ Agree(key[m], k, dep[n] + 1)
<1> DEFINE d == dep[n]
<1>1. m \in L \ {Root} /\ parent[m] = n /\ (BitOf(key[m], d) <=> BitOf(k, d))
  BY DEF Shape, Downward, Holds, Child
<1>2. dep[m] = d + 1 /\ Agree(key[m], key[n], d)
  BY <1>1 DEF Shape, Upward, HangsFrom
<1>3. Agree(key[m], k, d)
  BY <1>2, AgreeTrans
<1>4. d \in Nat
  BY DEF Depths
<1>5. Agree(key[m], k, d + 1)
  BY <1>1, <1>3, <1>4, AgreeNext
<1> QED
  BY <1>1, <1>2, <1>5

\* Two nodes where the path of a network ends are one node.
LEMMA SamePlace ==
  ASSUME NEW L, NEW dep, NEW key, Shape(L, dep, key),
         NEW m \in L, NEW n \in L, NEW net, At(m, net, dep, key), At(n, net, dep, key)
  PROVE  m = n
<1>1. Agree(key[m], net[1], dep[m]) /\ Agree(net[1], key[n], dep[m]) /\ dep[m] = dep[n]
  BY AgreeSym DEF At
<1>2. Agree(key[m], key[n], dep[m])
  BY <1>1, AgreeTrans
<1> QED
  BY <1>1, <1>2 DEF Shape, OnePlace

\* A network contains the keys that agree with it on the bits of its mask.
LEMMA ContainsIs ==
  ASSUME NEW net \in Networks, net[2] <= W, 0 <= net[2], NEW k
  PROVE  Contains(net, k) <=> Agree(net[1], k, net[2])
<1>0. W \in Nat /\ net[2] \in 0 .. W
  BY RadixTreeAssumption
<1>1. \A d \in 0 .. (W - 1) : Masked(net, d) <=> d < net[2]
  <2>1. ASSUME NEW d \in 0 .. (W - 1) PROVE Masked(net, d) <=> d < net[2]
    <3>1. d \in 0 .. W
      BY <1>0
    <3> QED
      BY <3>1, MaskedIs
  <2> QED
    BY <2>1
<1>2. ASSUME Contains(net, k) PROVE Agree(net[1], k, net[2])
  <2>1. ASSUME NEW i \in 0 .. (net[2] - 1) PROVE BitOf(net[1], i) <=> BitOf(k, i)
    <3>1. i \in 0 .. (W - 1) /\ i < net[2]
      BY <1>0
    <3>2. BitOf(net[1], i) = BitOf(k, i)
      BY <1>1, <1>2, <3>1 DEF Contains
    <3> QED
      BY <3>2
  <2> QED
    BY <2>1 DEF Agree
<1>3. ASSUME Agree(net[1], k, net[2]) PROVE Contains(net, k)
  <2>1. ASSUME NEW d \in 0 .. (W - 1), Masked(net, d) PROVE BitOf(net[1], d) = BitOf(k, d)
    <3>1. d \in 0 .. (net[2] - 1)
      BY <1>0, <1>1, <2>1
    <3>2. BitOf(net[1], d) <=> BitOf(k, d)
      BY <1>3, <3>1 DEF Agree
    <3> QED
      BY <3>2 DEF BitOf
  <2> QED
    BY <2>1 DEF Contains
<1> QED
  BY <1>2, <1>3

\* Two networks of one node are one network, if callers write it in one way.
LEMMA SameNet ==
  ASSUME DistinctNetworks, NEW dep \in Depths, NEW key, NEW n \in TreeNodes,
         NEW a \in Networks, NEW b \in Networks, At(n, a, dep, key), At(n, b, dep, key)
  PROVE  a = b
<1>1. dep[n] \in 0 .. W
  BY DEF Depths
<1>2. a[2] = dep[n] /\ b[2] = dep[n] /\ Agree(a[1], key[n], dep[n]) /\ Agree(key[n], b[1], dep[n])
  BY AgreeSym DEF At
<1>3. Agree(a[1], b[1], a[2])
  BY <1>2, AgreeTrans
<1>4. Contains(a, b[1])
  BY <1>1, <1>2, <1>3, ContainsIs, RadixTreeAssumption
<1> QED
  BY <1>1, <1>2, <1>4, RadixTreeAssumption DEF DistinctNetworks

\* ShapeInv holds in the next state by the same or by other L, dep and key.
LEMMA ShapeWitness ==
  ASSUME NEW p, Workers = {p},
         NEW L \in SUBSET TreeNodes, NEW dep \in Depths, NEW key \in NodeKeys,
         Shape(L, dep, key)', CallShape(w[p], L, dep, key)'
  PROVE  ShapeInv'
  BY DEF ShapeInv

\* A step that leaves the heap alone keeps the shape and the networks held.
LEMMA SameHeap ==
  ASSUME NEW L, NEW dep, NEW key, Shape(L, dep, key), UNCHANGED heap
  PROVE  Shape(L, dep, key)' /\ Held(L)' = Held(L)
<1>1. left' = left /\ right' = right /\ parent' = parent /\ value' = value /\ used' = used
  BY DEF heap
<1>2. Rooted(L, dep)' /\ Fresh'
  BY <1>1 DEF Shape, Rooted, Fresh
<1>3. Upward(L, dep, key)'
  BY <1>1 DEF Shape, Upward, HangsFrom, Child
<1>4. Downward(L, dep, key)'
  BY <1>1 DEF Shape, Downward, Holds
<1>5. Placed(L, dep, key)' /\ OnePlace(L, dep, key)' /\ Held(L)' = Held(L)
  BY <1>1 DEF Shape, Placed, OnePlace, At, Held
<1> QED
  BY <1>2, <1>3, <1>4, <1>5 DEF Shape

\* What a call rests on while it is on its way down or has nothing to do with
\* nodes.
LEMMA QuietCall ==
  ASSUME NEW p, Workers = {p}, ~reused,
         NEW L \in SUBSET TreeNodes, NEW dep \in Depths, NEW key \in NodeKeys,
         Shape(L, dep, key), UNCHANGED heap,
         LET c == w'[p] IN
         /\ c.pc \in {"idle", "descend", "grow", "find"} => Held(L) = Record'
         /\ c.pc \in {"descend", "grow"} => OnPath(c, L, dep, key)
         /\ c.pc = "find" /\ c.node # Nil => OnPath(c, L, dep, key)
         /\ c.pc = "grow" => Child(c.node, c.net[1], c.d) = Nil
         /\ c.pc = "record" => Held(L) = Record' \cup {c.net}
         /\ c.pc = "unrecord" => Held(L) = Record' \ {c.net}
         /\ c.pc = "unlink" => /\ c.node \in L /\ Leaf(c.node)
                               /\ Held(L) = Record' /\ At(c.node, c.net, dep, key)
  PROVE  ShapeInv'
<1>1. Shape(L, dep, key)' /\ Held(L)' = Held(L)
  BY SameHeap
<1>2. left' = left /\ right' = right /\ value' = value
  BY DEF heap
<1>3. CallShape(w[p], L, dep, key)'
  BY <1>1, <1>2 DEF CallShape, OnPath, Unlinking, At, Leaf, Child
<1> QED
  BY <1>1, <1>3, ShapeWitness

LEMMA ShapeOf ==
  ASSUME ShapeInv, ~reused, NEW p, Workers = {p}
  PROVE  \E L \in SUBSET TreeNodes, dep \in Depths, key \in NodeKeys :
            Shape(L, dep, key) /\ CallShape(w[p], L, dep, key)
  BY DEF ShapeInv

LEMMA CallChanges ==
  ASSUME TreeInv, NEW p \in Workers, NEW c, w' = [w EXCEPT ![p] = c]
  PROVE  w'[p] = c
  BY DEF TreeInv, TreeTypeOK

\* One lemma per action: it keeps ShapeInv.
LEMMA ShapeInvInit ==
  ASSUME TreeInit, NEW p, Workers = {p}
  PROVE  ShapeInv
<1> DEFINE L == {Root}
           dep == [n \in TreeNodes |-> 0]
           key == [n \in TreeNodes |-> 0]
<1>0. Root \in TreeNodes /\ W \in Nat
  BY RadixTreeAssumption DEF Root, TreeNodes
<1>1. L \in SUBSET TreeNodes /\ dep \in Depths /\ key \in NodeKeys
  <2>1. 0 \in Keys
    BY <1>0, Pow2Facts DEF Keys
  <2> QED
    BY <1>0, <2>1 DEF Depths, NodeKeys
<1>2. Rooted(L, dep) /\ Upward(L, dep, key) /\ Fresh
  BY <1>0 DEF TreeInit, Rooted, Upward, Fresh, Root
<1>3. Downward(L, dep, key) /\ Placed(L, dep, key) /\ OnePlace(L, dep, key)
  BY <1>0 DEF TreeInit, Downward, Placed, OnePlace
<1>4. Held(L) = Record
  <2>1. NoValue \notin Networks
    BY RadixTreeAssumption DEF NoValue, Keys
  <2> QED
    BY <1>0, <2>1 DEF TreeInit, Held
<1>5. w[p] = IdleCall
  BY DEF TreeInit
<1> HIDE DEF L, dep, key
<1>6. CallShape(w[p], L, dep, key)
  BY <1>4, <1>5 DEF CallShape, IdleCall
<1> QED
  BY <1>1, <1>2, <1>3, <1>6 DEF ShapeInv, Shape

LEMMA BeginShape ==
  ASSUME TreeInv, ShapeInv, DistinctNetworks, NEW p, Workers = {p},
         NEW net \in Networks, NEW pc \in {"descend", "find"}, Begin(p, net, pc)
  PROVE  ShapeInv'
<1> SUFFICES ASSUME ~reused' PROVE ShapeInv'
  BY DEF ShapeInv
<1>1. ~reused /\ UNCHANGED heap /\ Record' = Record /\ w[p].pc = "idle"
  BY DEF Begin
<1>2. PICK L \in SUBSET TreeNodes, dep \in Depths, key \in NodeKeys :
         Shape(L, dep, key) /\ CallShape(w[p], L, dep, key)
  BY <1>1, ShapeOf
<1>3. w'[p] = [pc |-> pc, net |-> net, node |-> Root, d |-> 0]
  BY CallChanges DEF Begin
<1>4. Held(L) = Record
  BY <1>1, <1>2 DEF CallShape
<1>5. OnPath(w'[p], L, dep, key)
  <2>1. Root \in L /\ dep[Root] = 0 /\ 0 <= net[2]
    BY <1>2 DEF Shape, Rooted, DistinctNetworks
  <2> QED
    BY <1>3, <2>1, AgreeNone DEF OnPath
<1> QED
  BY <1>1, <1>2, <1>3, <1>4, <1>5, QuietCall

LEMMA AddPanicShape ==
  ASSUME TreeInv, ShapeInv, NEW p, Workers = {p}, NEW net \in Networks, AddPanic(p, net)
  PROVE  ShapeInv'
<1> SUFFICES ASSUME ~reused' PROVE ShapeInv'
  BY DEF ShapeInv
<1>1. ~reused /\ UNCHANGED heap /\ Record' = Record /\ w' = w /\ w[p].pc = "idle"
  BY DEF AddPanic
<1>2. PICK L \in SUBSET TreeNodes, dep \in Depths, key \in NodeKeys :
         Shape(L, dep, key) /\ CallShape(w[p], L, dep, key)
  BY <1>1, ShapeOf
<1>3. Held(L) = Record
  BY <1>1, <1>2 DEF CallShape
<1> QED
  BY <1>1, <1>2, <1>3, QuietCall

\* One step down, in insert or delete.
LEMMA StepsDown ==
  ASSUME NEW L \in SUBSET TreeNodes, NEW dep \in Depths, NEW key \in NodeKeys,
         Shape(L, dep, key), NEW c \in CallRec, OnPath(c, L, dep, key),
         c.net[2] \in Int, c.d < c.net[2],
         Child(c.node, c.net[1], c.d) # Nil
  PROVE  OnPath([c EXCEPT !.node = Child(c.node, c.net[1], c.d), !.d = @ + 1], L, dep, key)
<1> DEFINE next == Child(c.node, c.net[1], c.d)
           e == [c EXCEPT !.node = next, !.d = @ + 1]
<1>1. c.node \in L /\ dep[c.node] = c.d /\ Agree(key[c.node], c.net[1], dep[c.node])
  BY DEF OnPath
<1>2. next \in L /\ dep[next] = c.d + 1 /\ Agree(key[next], c.net[1], c.d + 1)
  <2> DEFINE n == c.node
             k == c.net[1]
  <2>1. n \in L /\ Agree(key[n], k, dep[n]) /\ Child(n, k, dep[n]) # Nil
        /\ next = Child(n, k, dep[n]) /\ dep[n] = c.d
    BY <1>1
  <2> HIDE DEF n, k, next
  <2>2. next \in L /\ dep[next] = c.d + 1 /\ Agree(key[next], k, c.d + 1)
    <3>1. next \in L \ {Root} /\ dep[next] = dep[n] + 1 /\ Agree(key[next], k, dep[n] + 1)
      BY <2>1, ChildPlace
    <3> QED
      BY <2>1, <3>1
  <2> QED
    BY <2>2 DEF k
<1>3. c.d \in Int /\ c.d + 1 <= c.net[2]
  BY DEF CallRec
<1> HIDE DEF next
<1>4. e.node = next /\ e.d = c.d + 1 /\ e.net = c.net
  BY DEF CallRec
<1> HIDE DEF e
<1>5. OnPath(e, L, dep, key)
  BY <1>2, <1>3, <1>4 DEF OnPath
<1> QED
  BY <1>5 DEF e, next

LEMMA DescendShape ==
  ASSUME TreeInv, ShapeInv, NEW p, Workers = {p}, Descend(p)
  PROVE  ShapeInv'
<1> SUFFICES ASSUME ~reused' PROVE ShapeInv'
  BY DEF ShapeInv
<1> DEFINE c == w[p]
           next == Child(c.node, c.net[1], c.d)
           e == [c EXCEPT !.node = next, !.d = @ + 1]
           g == [c EXCEPT !.pc = "grow"]
<1>1. ~reused /\ UNCHANGED heap /\ Record' = Record
  BY DEF Descend
<1>2. PICK L \in SUBSET TreeNodes, dep \in Depths, key \in NodeKeys :
         Shape(L, dep, key) /\ CallShape(c, L, dep, key)
  BY <1>1, ShapeOf
<1>3. c \in CallRec /\ c.pc = "descend" /\ c.net[2] \in Int /\ c.d < c.net[2]
  BY CallFacts DEF Descend
<1>4. Held(L) = Record /\ OnPath(c, L, dep, key)
  BY <1>2, <1>3 DEF CallShape
<1>5. w'[p] = IF next = Nil THEN g ELSE e
  BY CallChanges DEF Descend
<1>6. CASE next = Nil
  <2>1. w'[p] = g /\ g.pc = "grow" /\ g.node = c.node /\ g.d = c.d /\ g.net = c.net
    BY <1>3, <1>5, <1>6 DEF CallRec
  <2> HIDE DEF g
  <2>2. OnPath(w'[p], L, dep, key) /\ Child(w'[p].node, w'[p].net[1], w'[p].d) = Nil
    BY <1>4, <1>6, <2>1 DEF OnPath
  <2> QED
    BY <1>1, <1>2, <1>4, <2>1, <2>2, QuietCall
<1>7. CASE next # Nil
  <2>1. OnPath(e, L, dep, key)
    BY <1>2, <1>3, <1>4, <1>7, StepsDown
  <2>2. w'[p] = e /\ e.pc = "descend"
    BY <1>3, <1>5, <1>7 DEF CallRec
  <2> HIDE DEF e
  <2> QED
    BY <1>1, <1>2, <1>4, <2>1, <2>2, QuietCall
<1> QED
  BY <1>6, <1>7

LEMMA FindShape ==
  ASSUME TreeInv, ShapeInv, NEW p, Workers = {p}, Find(p)
  PROVE  ShapeInv'
<1> SUFFICES ASSUME ~reused' PROVE ShapeInv'
  BY DEF ShapeInv
<1> DEFINE c == w[p]
           next == Child(c.node, c.net[1], c.d)
           e == [c EXCEPT !.node = next, !.d = @ + 1]
<1>1. ~reused /\ UNCHANGED heap /\ Record' = Record
  BY DEF Find
<1>2. PICK L \in SUBSET TreeNodes, dep \in Depths, key \in NodeKeys :
         Shape(L, dep, key) /\ CallShape(c, L, dep, key)
  BY <1>1, ShapeOf
<1>3. c \in CallRec /\ c.pc = "find" /\ c.net[2] \in Int /\ c.d < c.net[2] /\ c.node # Nil
  BY CallFacts DEF Find
<1>4. Held(L) = Record /\ OnPath(c, L, dep, key)
  BY <1>2, <1>3 DEF CallShape
<1>5. w'[p] = e /\ e.pc = "find" /\ e.node = next
  BY <1>3, CallChanges DEF Find, CallRec
<1>6. next # Nil => OnPath(e, L, dep, key)
  BY <1>2, <1>3, <1>4, StepsDown
<1> HIDE DEF e, next
<1> QED
  BY <1>1, <1>2, <1>4, <1>5, <1>6, QuietCall

LEMMA NoValueIsNoNet == NoValue \notin Networks
  BY RadixTreeAssumption DEF NoValue, Keys

\* A node where the path of a network ends holds that network or none.
LEMMA HeldHere ==
  ASSUME TreeInv, DistinctNetworks,
         NEW L \in SUBSET TreeNodes, NEW dep \in Depths, NEW key, Shape(L, dep, key),
         NEW n \in L, NEW net \in Networks, At(n, net, dep, key)
  PROVE  value[n] \in {NoValue, net}
<1>1. n \in TreeNodes /\ value[n] \in Networks \cup {NoValue}
  BY DEF TreeInv, TreeTypeOK
<1>2. ASSUME value[n] # NoValue PROVE value[n] = net
  <2>1. value[n] \in Networks /\ At(n, value[n], dep, key)
    BY <1>1, <1>2 DEF Shape, Placed
  <2> DEFINE b == value[n]
  <2>2. b \in Networks /\ At(n, b, dep, key)
    BY <2>1
  <2> HIDE DEF b
  <2>3. b = net
    BY <1>1, <2>2, SameNet
  <2> QED
    BY <2>3 DEF b
<1> QED
  BY <1>2

\* ... and no other node holds it.
LEMMA HeldOnce ==
  ASSUME NEW L, NEW dep, NEW key, Shape(L, dep, key),
         NEW n \in L, NEW m \in L, NEW net, net # NoValue, At(n, net, dep, key), value[m] = net
  PROVE  m = n
<1>1. At(m, net, dep, key)
  BY DEF Shape, Placed
<1> QED
  BY <1>1, SamePlace

\* The value of a node in the tree changes.
LEMMA ValueShape ==
  ASSUME NEW L \in SUBSET TreeNodes, NEW dep, NEW key, Shape(L, dep, key), TreeInv,
         UNCHANGED <<left, right, parent, used>>, NEW n \in L, NEW v,
         value' = [value EXCEPT ![n] = v], v = NoValue \/ At(n, v, dep, key)
  PROVE  Shape(L, dep, key)'
<1>1. Rooted(L, dep)' /\ Fresh' /\ OnePlace(L, dep, key)'
  BY DEF Shape, Rooted, Fresh, OnePlace
<1>2. Upward(L, dep, key)'
  BY DEF Shape, Upward, HangsFrom, Child
<1>3. Downward(L, dep, key)'
  BY DEF Shape, Downward, Holds
<1>4. Placed(L, dep, key)'
  <2>1. ASSUME NEW m \in L, value'[m] # NoValue PROVE At(m, value'[m], dep, key)
    <3>0. m \in TreeNodes /\ n \in TreeNodes /\ value \in [TreeNodes -> Networks \cup {NoValue}]
      BY DEF TreeInv, TreeTypeOK
    <3>1. CASE m = n
      <4>1. value'[m] = v
        BY <3>0, <3>1
      <4> QED
        BY <2>1, <3>1, <4>1
    <3>2. CASE m # n
      <4>1. value'[m] = value[m]
        BY <3>0, <3>2
      <4> QED
        BY <2>1, <4>1 DEF Shape, Placed
    <3> QED
      BY <3>1, <3>2
  <2> QED
    BY <2>1 DEF Placed, At
<1> QED
  BY <1>1, <1>2, <1>3, <1>4 DEF Shape

LEMMA SetValueShape ==
  ASSUME TreeInv, ShapeInv, DistinctNetworks, NEW p, Workers = {p}, SetValue(p)
  PROVE  ShapeInv'
<1> SUFFICES ASSUME ~reused' PROVE ShapeInv'
  BY DEF ShapeInv
<1> DEFINE c == w[p]
           e == [c EXCEPT !.pc = "record"]
<1>1. ~reused /\ Record' = Record
  BY DEF SetValue
<1>2. PICK L \in SUBSET TreeNodes, dep \in Depths, key \in NodeKeys :
         Shape(L, dep, key) /\ CallShape(c, L, dep, key)
  BY <1>1, ShapeOf
<1>3. c \in CallRec /\ c.pc \in {"descend", "grow"} /\ c.net[2] \in Int /\ ~(c.d < c.net[2])
      /\ c.net \in Networks
  BY CallFacts DEF SetValue
<1>4. Held(L) = Record /\ OnPath(c, L, dep, key)
  BY <1>2, <1>3 DEF CallShape
<1>5. PICK n, net : n = c.node /\ net = c.net
  OBVIOUS
<1>6. n \in L /\ net \in Networks /\ At(n, net, dep, key)
  BY <1>3, <1>4, <1>5 DEF OnPath, At, CallRec
<1>7. value' = [value EXCEPT ![n] = net] /\ UNCHANGED <<left, right, parent, used>>
  BY <1>5 DEF SetValue
<1>8. Shape(L, dep, key)'
  BY <1>2, <1>6, <1>7, ValueShape
<1>9. w'[p] = e /\ e.pc = "record" /\ e.net = net
  <2>1. w' = [w EXCEPT ![p] = e]
    BY DEF SetValue
  <2>2. w'[p] = e
    BY <2>1, CallChanges
  <2> QED
    BY <1>3, <1>5, <2>2 DEF CallRec
<1>10. Held(L)' = Held(L) \cup {net}
  <2>0. value \in [TreeNodes -> Networks \cup {NoValue}] /\ L \subseteq TreeNodes
    BY DEF TreeInv, TreeTypeOK
  <2>1. value[n] \in {NoValue, net}
    BY <1>2, <1>6, HeldHere
  <2>2. ASSUME NEW x \in Networks
        PROVE  (\E m \in L : value'[m] = x) <=> x = net \/ \E m \in L : value[m] = x
    <3>1. CASE x = net
      BY <1>6, <1>7, <2>0, <3>1
    <3>2. CASE x # net
      <4>1. x # NoValue
        BY NoValueIsNoNet
      <4>2. \A m \in L : value'[m] = x <=> value[m] = x
        BY <1>6, <1>7, <2>0, <2>1, <3>2, <4>1
      <4> QED
        BY <3>2, <4>2
    <3> QED
      BY <3>1, <3>2
  <2> QED
    BY <1>6, <2>2 DEF Held
<1> HIDE DEF e
<1>11. CallShape(w[p], L, dep, key)'
  BY <1>1, <1>4, <1>9, <1>10 DEF CallShape
<1> QED
  BY <1>8, <1>11, ShapeWitness

LEMMA ClearValueShape ==
  ASSUME TreeInv, ShapeInv, DistinctNetworks, NEW p, Workers = {p}, ClearValue(p)
  PROVE  ShapeInv'
<1> SUFFICES ASSUME ~reused' PROVE ShapeInv'
  BY DEF ShapeInv
<1> DEFINE c == w[p]
           e == [c EXCEPT !.pc = "unrecord"]
<1>1. ~reused /\ Record' = Record
  BY DEF ClearValue
<1>2. PICK L \in SUBSET TreeNodes, dep \in Depths, key \in NodeKeys :
         Shape(L, dep, key) /\ CallShape(c, L, dep, key)
  BY <1>1, ShapeOf
<1>3. c \in CallRec /\ c.pc = "find" /\ c.net[2] \in Int /\ ~(c.d < c.net[2])
      /\ c.net \in Networks /\ c.node # Nil /\ value[c.node] # NoValue
  BY CallFacts DEF ClearValue, Found
<1>4. Held(L) = Record /\ OnPath(c, L, dep, key)
  BY <1>2, <1>3 DEF CallShape
<1>5. PICK n, net : n = c.node /\ net = c.net
  OBVIOUS
<1>6. n \in L /\ net \in Networks /\ At(n, net, dep, key)
  BY <1>3, <1>4, <1>5 DEF OnPath, At, CallRec
<1>7. value' = [value EXCEPT ![n] = NoValue] /\ UNCHANGED <<left, right, parent, used>>
  BY <1>5 DEF ClearValue
<1>8. Shape(L, dep, key)'
  BY <1>2, <1>6, <1>7, ValueShape
<1>9. w'[p] = e /\ e.pc = "unrecord" /\ e.net = net
  <2>1. w' = [w EXCEPT ![p] = e]
    BY DEF ClearValue
  <2>2. w'[p] = e
    BY <2>1, CallChanges
  <2> QED
    BY <1>3, <1>5, <2>2 DEF CallRec
<1>10. Held(L)' = Held(L) \ {net}
  <2>0. value \in [TreeNodes -> Networks \cup {NoValue}] /\ L \subseteq TreeNodes
    BY DEF TreeInv, TreeTypeOK
  <2>1. value[n] = net /\ net # NoValue
    BY <1>2, <1>3, <1>5, <1>6, HeldHere, NoValueIsNoNet
  <2>2. ASSUME NEW x \in Networks
        PROVE  (\E m \in L : value'[m] = x) <=> x # net /\ \E m \in L : value[m] = x
    <3>0. x # NoValue
      BY NoValueIsNoNet
    <3>1. CASE x = net
      <4>1. ASSUME NEW m \in L, value'[m] = x PROVE FALSE
        <5>1. m # n /\ value[m] = net
          BY <1>6, <1>7, <2>0, <3>0, <3>1, <4>1
        <5> QED
          BY <1>2, <1>6, <2>1, <5>1, HeldOnce
      <4> QED
        BY <3>1, <4>1
    <3>2. CASE x # net
      <4>1. \A m \in L : value'[m] = x <=> value[m] = x
        BY <1>6, <1>7, <2>0, <2>1, <3>0, <3>2
      <4> QED
        BY <3>2, <4>1
    <3> QED
      BY <3>1, <3>2
  <2> QED
    BY <1>6, <2>2 DEF Held
<1> HIDE DEF e
<1>11. CallShape(w[p], L, dep, key)'
  BY <1>1, <1>4, <1>9, <1>10 DEF CallShape
<1> QED
  BY <1>8, <1>11, ShapeWitness

\* The call of p returns with the list as the tree holds it.
LEMMA ReturnShape ==
  ASSUME TreeInv, ~reused, NEW p, Workers = {p},
         NEW L \in SUBSET TreeNodes, NEW dep \in Depths, NEW key \in NodeKeys,
         Shape(L, dep, key), UNCHANGED heap, w' = [w EXCEPT ![p] = IdleCall], Held(L) = Record'
  PROVE  ShapeInv'
<1>1. w'[p] = IdleCall
  BY CallChanges
<1> QED
  BY <1>1, QuietCall DEF IdleCall

LEMMA EnlistShape ==
  ASSUME TreeInv, ShapeInv, NEW p, Workers = {p}, Enlist(p) \/ Delist(p) \/ NotFound(p)
  PROVE  ShapeInv'
<1> SUFFICES ASSUME ~reused' PROVE ShapeInv'
  BY DEF ShapeInv
<1>1. ~reused /\ UNCHANGED heap /\ w' = [w EXCEPT ![p] = IdleCall]
  BY DEF Enlist, Delist, NotFound
<1>2. PICK L \in SUBSET TreeNodes, dep \in Depths, key \in NodeKeys :
         Shape(L, dep, key) /\ CallShape(w[p], L, dep, key)
  BY <1>1, ShapeOf
<1>3. Held(L) = Record'
  BY <1>2 DEF CallShape, Enlist, Delist, NotFound
<1> QED
  BY <1>1, <1>2, <1>3, ReturnShape

LEMMA FoundLeafShape ==
  ASSUME TreeInv, ShapeInv, NEW p, Workers = {p}, FoundLeaf(p)
  PROVE  ShapeInv'
<1> SUFFICES ASSUME ~reused' PROVE ShapeInv'
  BY DEF ShapeInv
<1> DEFINE c == w[p]
           e == [c EXCEPT !.pc = "unlink"]
<1>1. ~reused /\ UNCHANGED heap /\ Record' = Record
  BY DEF FoundLeaf
<1>2. PICK L \in SUBSET TreeNodes, dep \in Depths, key \in NodeKeys :
         Shape(L, dep, key) /\ CallShape(c, L, dep, key)
  BY <1>1, ShapeOf
<1>3. c \in CallRec /\ c.pc = "find" /\ c.net[2] \in Int /\ ~(c.d < c.net[2])
      /\ c.node # Nil /\ Leaf(c.node)
  BY CallFacts DEF FoundLeaf, Found
<1>4. Held(L) = Record /\ OnPath(c, L, dep, key)
  BY <1>2, <1>3 DEF CallShape
<1>5. c.node \in L /\ At(c.node, c.net, dep, key)
  BY <1>3, <1>4 DEF OnPath, At, CallRec
<1>6. w'[p] = e /\ e.pc = "unlink" /\ e.node = c.node /\ e.net = c.net
  <2>1. w' = [w EXCEPT ![p] = e]
    BY DEF FoundLeaf
  <2>2. w'[p] = e
    BY <2>1, CallChanges
  <2> QED
    BY <1>3, <2>2 DEF CallRec
<1> HIDE DEF e, c
<1> QED
  BY <1>1, <1>2, <1>3, <1>4, <1>5, <1>6, QuietCall

LEMMA UnlinkPanicShape ==
  ASSUME TreeInv, ShapeInv, NEW p, Workers = {p}, UnlinkPanic(p)
  PROVE  ShapeInv'
<1> SUFFICES ASSUME ~reused' PROVE ShapeInv'
  BY DEF ShapeInv
<1>1. ~reused /\ UNCHANGED heap /\ Record' = Record /\ w' = [w EXCEPT ![p] = IdleCall]
      /\ w[p].pc = "unlink" /\ parent[w[p].node] = Nil
  BY DEF UnlinkPanic
<1>2. PICK L \in SUBSET TreeNodes, dep \in Depths, key \in NodeKeys :
         Shape(L, dep, key) /\ CallShape(w[p], L, dep, key)
  BY <1>1, ShapeOf
<1>3. Unlinking(w[p], L, dep, key)
  BY <1>1, <1>2 DEF CallShape
<1>4. w[p].node = Root
  <2>1. w[p].node \in L /\ Nil \notin L
    BY <1>3 DEF Unlinking, TreeNodes, Nil
  <2>2. w[p].node # Root => parent[w[p].node] \in L
    BY <1>2, <2>1 DEF Shape, Upward
  <2> QED
    BY <1>1, <2>1, <2>2
<1>5. Held(L) = Record'
  BY <1>1, <1>3, <1>4 DEF Unlinking
<1> QED
  BY <1>1, <1>2, <1>5, ReturnShape

\* insert hangs a new node under n, for bit d of the address k.
Hung(new, n, k, d) ==
    IF BitOf(k, d) THEN right' = [right EXCEPT ![n] = new] /\ left' = left
                   ELSE left' = [left EXCEPT ![n] = new] /\ right' = right

Growing(L, dep, key, n, new, k, d, dep2, key2) ==
    /\ L \in SUBSET TreeNodes /\ dep \in Depths /\ key \in NodeKeys /\ Shape(L, dep, key)
    /\ n \in L /\ new \in TreeNodes /\ d \in Nat
    /\ new = used + 1 /\ used' = used + 1
    /\ dep[n] = d /\ Agree(key[n], k, d) /\ Child(n, k, d) = Nil
    /\ parent' = [parent EXCEPT ![new] = n]
    /\ value' = [value EXCEPT ![new] = NoValue]
    /\ Hung(new, n, k, d)
    /\ dep2[new] = d + 1 /\ \A m \in L : dep2[m] = dep[m]
    /\ key2[new] = k /\ \A m \in L : key2[m] = key[m]

\* A tree with one leaf more is a tree.
LEMMA GrowTree ==
  ASSUME TreeInv, NEW L, NEW dep, NEW key, NEW n, NEW new, NEW k, NEW d, NEW dep2, NEW key2,
         Growing(L, dep, key, n, new, k, d, dep2, key2)
  PROVE  Shape(L \cup {new}, dep2, key2)' /\ left'[new] = Nil /\ right'[new] = Nil
<1> USE DEF Growing
<1> DEFINE L2 == L \cup {new}
<1>1. /\ left \in [TreeNodes -> TreeNodes \cup {Nil}] /\ right \in [TreeNodes -> TreeNodes \cup {Nil}]
      /\ parent \in [TreeNodes -> TreeNodes \cup {Nil}] /\ value \in [TreeNodes -> Networks \cup {NoValue}]
      /\ used \in Nat \ {0} /\ TreeNodes \subseteq Nat
  BY DEF TreeInv, TreeTypeOK, TreeNodes
<1>2. /\ Rooted(L, dep) /\ Upward(L, dep, key) /\ Downward(L, dep, key)
      /\ Fresh /\ Placed(L, dep, key) /\ OnePlace(L, dep, key)
  BY DEF Shape
<1>3. new \notin L /\ new # n /\ Root \in L /\ new # Root /\ n \in TreeNodes /\ new # Nil /\ Nil \notin L
  BY <1>1, <1>2 DEF Rooted, TreeNodes, Nil
<1>4. left[new] = Nil /\ right[new] = Nil
  BY <1>1, <1>2 DEF Fresh
<1>5. /\ \A m \in TreeNodes \ {n} : left'[m] = left[m] /\ right'[m] = right[m]
      /\ BitOf(k, d) => right'[n] = new /\ left'[n] = left[n] /\ right[n] = Nil
      /\ ~BitOf(k, d) => left'[n] = new /\ right'[n] = right[n] /\ left[n] = Nil
      /\ \A m \in L : parent'[m] = parent[m] /\ value'[m] = value[m]
      /\ parent'[new] = n /\ value'[new] = NoValue
  <2>1. /\ \A m \in TreeNodes \ {n} : left'[m] = left[m] /\ right'[m] = right[m]
        /\ BitOf(k, d) => right'[n] = new /\ left'[n] = left[n]
        /\ ~BitOf(k, d) => left'[n] = new /\ right'[n] = right[n]
    BY <1>1, <1>3 DEF Hung
  <2>2. /\ BitOf(k, d) => right[n] = Nil
        /\ ~BitOf(k, d) => left[n] = Nil
    BY DEF Child
  <2>3. /\ \A m \in L : parent'[m] = parent[m] /\ value'[m] = value[m]
        /\ parent'[new] = n /\ value'[new] = NoValue
    BY <1>1, <1>3
  <2> QED
    BY <2>1, <2>2, <2>3
<1>6. Rooted(L2, dep2)'
  <2>1. ASSUME NEW x \in L2 PROVE x \in 1 .. (used + 1)
    <3>1. CASE x \in L
      <4>1. x \in 1 .. used
        BY <1>2, <3>1 DEF Rooted
      <4> QED
        BY <1>1, <4>1
    <3>2. CASE x = new
      BY <1>1, <3>2
    <3> QED
      BY <3>1, <3>2
  <2> QED
    BY <1>2, <1>3, <1>5, <2>1 DEF Rooted
<1>7. Upward(L2, dep2, key2)'
  <2>1. ASSUME NEW m \in L \ {Root}
        PROVE  /\ parent'[m] \in L2 /\ dep2[m] = dep2[parent'[m]] + 1
               /\ Agree(key2[m], key2[parent'[m]], dep2[parent'[m]])
               /\ (IF BitOf(key2[m], dep2[parent'[m]]) THEN right'[parent'[m]]
                                                    ELSE left'[parent'[m]]) = m
    <3>1. PICK q \in L : /\ q = parent[m] /\ dep[m] = dep[q] + 1
                         /\ Agree(key[m], key[q], dep[q]) /\ Child(q, key[m], dep[q]) = m
      BY <1>2 DEF Upward, HangsFrom
    <3>2. dep2[m] = dep2[q] + 1 /\ Agree(key2[m], key2[q], dep2[q]) /\ dep2[q] = dep[q] /\ key2[m] = key[m]
      BY <3>1
    <3>3. (IF BitOf(key[m], dep[q]) THEN right'[q] ELSE left'[q]) = m
      <4>1. m # Nil /\ q \in TreeNodes
        BY <1>3
      <4>2. BitOf(key[m], dep[q]) => right[q] = m
        BY <3>1 DEF Child
      <4>3. ~BitOf(key[m], dep[q]) => left[q] = m
        BY <3>1 DEF Child
      <4>4. BitOf(key[m], dep[q]) => right'[q] = m
        BY <1>5, <4>1, <4>2
      <4>5. ~BitOf(key[m], dep[q]) => left'[q] = m
        BY <1>5, <4>1, <4>3
      <4> QED
        BY <4>4, <4>5
    <3>4. parent'[m] = q
      BY <1>5, <3>1
    <3> QED
      BY <3>2, <3>3, <3>4
  <2>2. /\ parent'[new] \in L2 /\ dep2[new] = dep2[parent'[new]] + 1
        /\ Agree(key2[new], key2[parent'[new]], dep2[parent'[new]])
        /\ (IF BitOf(key2[new], dep2[parent'[new]]) THEN right'[parent'[new]]
                                                 ELSE left'[parent'[new]]) = new
    <3>1. dep2[n] = d /\ key2[n] = key[n] /\ dep2[new] = dep2[n] + 1
      OBVIOUS
    <3>2. Agree(k, key[n], d)
      BY AgreeSym
    <3>3. (IF BitOf(k, d) THEN right'[n] ELSE left'[n]) = new
      BY <1>5
    <3> QED
      BY <1>5, <3>1, <3>2, <3>3
  <2> QED
    BY <2>1, <2>2 DEF Upward, HangsFrom, Child
<1>8. Downward(L2, dep2, key2)'
  <2>1. ASSUME NEW m \in L2
        PROVE  /\ left'[m] # Nil => /\ left'[m] \in L2 \ {Root} /\ parent'[left'[m]] = m
                                    /\ ~BitOf(key2[left'[m]], dep2[m])
               /\ right'[m] # Nil => /\ right'[m] \in L2 \ {Root} /\ parent'[right'[m]] = m
                                     /\ BitOf(key2[right'[m]], dep2[m])
    <3>1. CASE m = new
      BY <1>3, <1>4, <1>5, <3>1
    <3>2. CASE m \in L
      <4>1. /\ left[m] # Nil => /\ left[m] \in L \ {Root} /\ parent[left[m]] = m
                                /\ ~BitOf(key[left[m]], dep[m])
            /\ right[m] # Nil => /\ right[m] \in L \ {Root} /\ parent[right[m]] = m
                                 /\ BitOf(key[right[m]], dep[m])
        BY <1>2, <3>2 DEF Downward, Holds
      <4>2. left'[m] = left[m] \/ (m = n /\ left'[m] = new /\ ~BitOf(k, d))
        BY <1>5, <3>2
      <4>3. right'[m] = right[m] \/ (m = n /\ right'[m] = new /\ BitOf(k, d))
        BY <1>5, <3>2
      <4>4. dep2[m] = dep[m]
        BY <3>2
      <4>5. left'[m] # Nil => /\ left'[m] \in L2 \ {Root} /\ parent'[left'[m]] = m
                              /\ ~BitOf(key2[left'[m]], dep2[m])
        BY <1>3, <1>5, <4>1, <4>2, <4>4
      <4>6. right'[m] # Nil => /\ right'[m] \in L2 \ {Root} /\ parent'[right'[m]] = m
                               /\ BitOf(key2[right'[m]], dep2[m])
        <5>1. CASE right'[m] = right[m]
          <6>1. ASSUME right[m] # Nil
                PROVE  right[m] \in L2 \ {Root} /\ parent'[right[m]] = m /\ BitOf(key2[right[m]], dep2[m])
            <7>1. right[m] \in L /\ key2[right[m]] = key[right[m]] /\ parent'[right[m]] = parent[right[m]]
              BY <1>5, <4>1, <6>1
            <7>2. BitOf(key[right[m]], dep[m])
              BY <4>1, <6>1
            <7> QED
              BY <4>1, <4>4, <6>1, <7>1, <7>2
          <6> QED
            BY <5>1, <6>1
        <5>2. CASE m = n /\ right'[m] = new /\ BitOf(k, d)
          BY <1>3, <1>5, <4>4, <5>2
        <5> QED
          BY <4>3, <5>1, <5>2
      <4> QED
        BY <4>5, <4>6
    <3> QED
      BY <3>1, <3>2
  <2> QED
    BY <2>1 DEF Downward, Holds
<1>9. Fresh'
  <2>1. ASSUME NEW m \in TreeNodes, m > used' PROVE left'[m] = Nil /\ right'[m] = Nil
    <3>1. m # n /\ m > used
      BY <1>1, <1>2, <2>1 DEF Rooted
    <3> QED
      BY <1>2, <1>5, <3>1 DEF Fresh
  <2> QED
    BY <2>1 DEF Fresh
<1>10. Placed(L2, dep2, key2)'
  <2>1. ASSUME NEW m \in L2, value'[m] # NoValue PROVE At(m, value'[m], dep2, key2)
    <3>1. m \in L /\ value'[m] = value[m]
      BY <1>5, <2>1
    <3>2. At(m, value[m], dep, key)
      BY <1>2, <2>1, <3>1 DEF Placed
    <3> QED
      BY <3>1, <3>2 DEF At
  <2> QED
    BY <2>1 DEF Placed, At
<1>11. OnePlace(L2, dep2, key2)'
  <2>1. ASSUME NEW m \in L, dep[m] = d + 1, Agree(key[m], k, d + 1) PROVE FALSE
    <3>1. m # Root
      BY <1>2, <2>1 DEF Rooted
    <3> DEFINE q == parent[m]
    <3>2. q \in L /\ dep[m] = dep[q] + 1 /\ Agree(key[m], key[q], dep[q]) /\ Child(q, key[m], dep[q]) = m
      BY <1>2, <3>1 DEF Upward, HangsFrom
    <3> HIDE DEF q
    <3>3. dep[q] = d
      <4>1. dep[q] \in Nat
        BY <3>2 DEF Depths
      <4> QED
        BY <2>1, <3>2, <4>1
    <3>4. Agree(key[m], k, d) /\ (BitOf(key[m], d) <=> BitOf(k, d))
      BY <2>1, AgreeNext
    <3>5. Agree(key[q], key[m], d) /\ Agree(k, key[n], d)
      BY <3>2, <3>3, AgreeSym
    <3>6. Agree(key[q], key[n], d)
      BY <3>4, <3>5, AgreeTrans
    <3>7. q = n
      BY <1>2, <3>2, <3>3, <3>6 DEF OnePlace
    <3>8. Child(n, k, d) = m
      BY <3>2, <3>3, <3>4, <3>7 DEF Child
    <3> QED
      BY <1>3, <2>1, <3>8
  <2>2. ASSUME NEW m \in L2, NEW q \in L2, dep2[m] = dep2[q], Agree(key2[m], key2[q], dep2[m])
        PROVE  m = q
    <3>1. CASE m \in L /\ q \in L
      BY <1>2, <2>2, <3>1 DEF OnePlace
    <3>2. CASE m \in L /\ q = new
      BY <2>1, <2>2, <3>2
    <3>3. CASE m = new /\ q \in L
      <4>1. Agree(key2[q], key2[m], dep2[m])
        BY <2>2, AgreeSym
      <4> QED
        BY <2>1, <2>2, <3>3, <4>1
    <3> QED
      BY <3>1, <3>2, <3>3
  <2> QED
    BY <2>2 DEF OnePlace
<1>12. left'[new] = Nil /\ right'[new] = Nil
  BY <1>3, <1>4, <1>5
<1> QED
  BY <1>6, <1>7, <1>8, <1>9, <1>10, <1>11, <1>12 DEF Shape

LEMMA GrowShape ==
  ASSUME TreeInv, ShapeInv, NEW p, Workers = {p}, Grow(p)
  PROVE  ShapeInv'
<1> SUFFICES ASSUME ~reused' PROVE ShapeInv'
  BY DEF ShapeInv
<1> DEFINE c == w[p]
           e == [c EXCEPT !.node = NewNode, !.d = @ + 1]
<1>1. ~reused /\ Record' = Record /\ free = Nil
  BY DEF Grow
<1>2. PICK L \in SUBSET TreeNodes, dep \in Depths, key \in NodeKeys :
         Shape(L, dep, key) /\ CallShape(c, L, dep, key)
  BY <1>1, ShapeOf
<1>3. PICK n, new, net, d : n = c.node /\ new = NewNode /\ net = c.net /\ d = c.d
  OBVIOUS
<1>4. /\ new \in TreeNodes /\ c \in CallRec /\ c.pc = "grow" /\ d < net[2] /\ net[2] \in Int
      /\ d + 1 \in 0 .. W
      /\ parent' = [parent EXCEPT ![new] = n]
      /\ value' = [value EXCEPT ![new] = NoValue]
      /\ IF BitOf(net[1], d) THEN right' = [right EXCEPT ![n] = new] /\ left' = left
                             ELSE left' = [left EXCEPT ![n] = new] /\ right' = right
      /\ used' = used + 1 /\ w' = [w EXCEPT ![p] = e]
  BY <1>1, <1>3, GrowIs
<1>5. new = used + 1
  BY <1>1, <1>3 DEF NewNode
<1>6. Held(L) = Record /\ OnPath(c, L, dep, key) /\ Child(n, net[1], d) = Nil
  BY <1>2, <1>3, <1>4 DEF CallShape
<1>7. n \in L /\ dep[n] = d /\ Agree(key[n], net[1], d) /\ d \in Nat
  BY <1>3, <1>4, <1>6 DEF OnPath, CallRec
<1>8. net \in Networks /\ net[1] \in Keys
  <2>1. net \in Networks
    BY <1>3, <1>4, CallFacts
  <2> QED
    BY <2>1, RadixTreeAssumption
<1> DEFINE L2 == L \cup {new}
           dep2 == [dep EXCEPT ![new] = d + 1]
           key2 == [key EXCEPT ![new] = net[1]]
<1>9. L2 \in SUBSET TreeNodes /\ dep2 \in Depths /\ key2 \in NodeKeys
  BY <1>4, <1>8 DEF Depths, NodeKeys
<1>10. new \notin L
  BY <1>2, <1>5 DEF Shape, Rooted, TreeInv, TreeTypeOK, TreeNodes
<1>11. /\ dep2[new] = d + 1 /\ \A m \in L : dep2[m] = dep[m]
       /\ key2[new] = net[1] /\ \A m \in L : key2[m] = key[m]
  BY <1>4, <1>10 DEF Depths, NodeKeys
<1> HIDE DEF dep2, key2
<1>12. Shape(L2, dep2, key2)' /\ left'[new] = Nil /\ right'[new] = Nil
  <2>1. PICK k : k = net[1]
    OBVIOUS
  <2>2. /\ Agree(key[n], k, d) /\ Child(n, k, d) = Nil /\ key2[new] = k
        /\ Hung(new, n, k, d)
    BY <1>4, <1>6, <1>7, <1>11, <2>1 DEF Hung
  <2>3. /\ parent' = [parent EXCEPT ![new] = n] /\ value' = [value EXCEPT ![new] = NoValue]
        /\ new = used + 1 /\ used' = used + 1 /\ new \in TreeNodes
    BY <1>4, <1>5
  <2>4. n \in L /\ d \in Nat /\ dep[n] = d
    BY <1>7
  <2>5. /\ dep2[new] = d + 1 /\ \A m \in L : dep2[m] = dep[m]
        /\ key2[new] = k /\ \A m \in L : key2[m] = key[m]
    BY <1>11, <2>1
  <2>6. Growing(L, dep, key, n, new, k, d, dep2, key2)
    BY <1>2, <2>2, <2>3, <2>4, <2>5 DEF Growing
  <2>7. Shape(L \cup {new}, dep2, key2)' /\ left'[new] = Nil /\ right'[new] = Nil
    BY <2>6, GrowTree
  <2> QED
    BY <2>7
<1>13. Held(L2)' = Held(L)
  <2>1. \A m \in L : value'[m] = value[m]
    BY <1>4, <1>10 DEF TreeInv, TreeTypeOK
  <2>2. value'[new] = NoValue
    BY <1>4 DEF TreeInv, TreeTypeOK
  <2>3. ASSUME NEW x \in Networks
        PROVE  (\E m \in L2 : value'[m] = x) <=> \E m \in L : value[m] = x
    <3>1. x # NoValue
      BY NoValueIsNoNet
    <3> QED
      BY <2>1, <2>2, <3>1
  <2> QED
    BY <2>3 DEF Held
<1>14. w'[p] = e /\ e.pc = "grow" /\ e.node = new /\ e.d = d + 1 /\ e.net = net
  <2>1. w'[p] = e
    BY <1>4, CallChanges
  <2> QED
    BY <1>3, <1>4, <2>1 DEF CallRec
<1> HIDE DEF e
<1>15. OnPath(w[p], L2, dep2, key2)'
  <2>1. d + 1 <= net[2]
    BY <1>4, <1>7
  <2>2. Agree(key2[new], net[1], d + 1)
    BY <1>11 DEF Agree
  <2> QED
    BY <1>11, <1>14, <2>1, <2>2 DEF OnPath
<1>16. \A a, b : Child(new, a, b)' = Nil
  BY <1>12 DEF Child
<1>17. CallShape(w[p], L2, dep2, key2)'
  BY <1>1, <1>6, <1>13, <1>14, <1>15, <1>16 DEF CallShape, Child
<1> HIDE DEF L2
<1> QED
  BY <1>9, <1>12, <1>17, ShapeWitness

\* delete takes the leaf n, below m, out of the tree.
Cutting(L, dep, key, n, m) ==
    /\ L \in SUBSET TreeNodes /\ dep \in Depths /\ key \in NodeKeys /\ Shape(L, dep, key)
    /\ n \in L \ {Root} /\ Leaf(n) /\ m = parent[n]
    /\ m # n /\ right[m] = n => right'[m] = Nil /\ left' = left
    /\ right[m] # n => left'[m] = Nil
    /\ \A i \in TreeNodes \ {m} : left'[i] = left[i]
    /\ right[m] # n /\ m # n => right'[m] = right[m]
    /\ \A i \in TreeNodes \ {n, m} : right'[i] = right[i]
    /\ UNCHANGED <<parent, value, used>>

\* A tree without one of its leaves is a tree.
LEMMA UnlinkTree ==
  ASSUME TreeInv, NEW L, NEW dep, NEW key, NEW n, NEW m, Cutting(L, dep, key, n, m)
  PROVE  Shape(L \ {n}, dep, key)' /\ m \in L \ {n}
<1> DEFINE L2 == L \ {n}
<1>1. /\ L \subseteq TreeNodes /\ TreeNodes \subseteq Nat /\ used \in Nat /\ Nil \notin L
      /\ n \in L /\ n # Root /\ m = parent[n] /\ left[n] = Nil /\ right[n] = Nil
      /\ UNCHANGED <<parent, value, used>> /\ dep \in Depths
  BY DEF Cutting, Leaf, TreeInv, TreeTypeOK, TreeNodes, Nil
<1>2. /\ Rooted(L, dep) /\ Upward(L, dep, key) /\ Downward(L, dep, key)
      /\ Fresh /\ Placed(L, dep, key) /\ OnePlace(L, dep, key)
  BY DEF Cutting, Shape
<1>3. m \in L /\ dep[n] = dep[m] + 1 /\ Child(m, key[n], dep[m]) = n
  BY <1>1, <1>2 DEF Upward, HangsFrom
<1>4. m # n
  <2>1. dep[m] \in Nat
    BY <1>1, <1>3 DEF Depths
  <2> QED
    BY <1>3, <2>1
<1>5. /\ right[m] = n => left[m] # n
      /\ right[m] # n => left[m] = n
  BY <1>1, <1>2, <1>3 DEF Downward, Child
\* Who pointed to n no longer does; every other pointer in the tree is kept.
<1>6. ASSUME NEW q \in L2
      PROVE  /\ left'[q] = IF left[q] = n THEN Nil ELSE left[q]
             /\ right'[q] = IF right[q] = n THEN Nil ELSE right[q]
  <2>0. q \in TreeNodes /\ m \in TreeNodes /\ q # n
    BY <1>1, <1>3
  <2>1. CASE q = m
    <3>1. CASE right[m] = n
      <4>1. right'[m] = Nil /\ left' = left
        BY <1>4, <3>1 DEF Cutting
      <4> QED
        BY <1>5, <2>1, <3>1, <4>1
    <3>2. CASE right[m] # n
      <4>1. left'[m] = Nil /\ right'[m] = right[m]
        BY <1>4, <3>2 DEF Cutting
      <4> QED
        BY <1>5, <2>1, <3>2, <4>1
    <3> QED
      BY <3>1, <3>2
  <2>2. CASE q # m
    <3>1. left'[q] = left[q] /\ right'[q] = right[q]
      BY <2>0, <2>2 DEF Cutting
    <3>2. left[q] # n /\ right[q] # n
      BY <1>1, <1>2, <2>2 DEF Downward, Holds
    <3> QED
      BY <3>1, <3>2
  <2> QED
    BY <2>1, <2>2
<1>7. Rooted(L2, dep)'
  BY <1>1, <1>2 DEF Rooted
<1>8. Upward(L2, dep, key)'
  <2>1. ASSUME NEW i \in L2 \ {Root}
        PROVE  /\ parent[i] \in L2 /\ dep[i] = dep[parent[i]] + 1
               /\ Agree(key[i], key[parent[i]], dep[parent[i]])
               /\ (IF BitOf(key[i], dep[parent[i]]) THEN right'[parent[i]] ELSE left'[parent[i]]) = i
    <3>1. PICK q \in L : /\ q = parent[i] /\ dep[i] = dep[q] + 1
                         /\ Agree(key[i], key[q], dep[q]) /\ Child(q, key[i], dep[q]) = i
      BY <1>2 DEF Upward, HangsFrom
    <3>2. i # Nil /\ i # n
      BY <1>1
    <3>3. (IF BitOf(key[i], dep[q]) THEN right[q] ELSE left[q]) = i
      BY <3>1 DEF Child
    <3>4. q # n
      BY <1>1, <3>2, <3>3
    <3>5. (IF BitOf(key[i], dep[q]) THEN right'[q] ELSE left'[q]) = i
      <4>1. /\ left'[q] = IF left[q] = n THEN Nil ELSE left[q]
            /\ right'[q] = IF right[q] = n THEN Nil ELSE right[q]
        BY <1>6, <3>4
      <4> QED
        BY <3>2, <3>3, <4>1
    <3> QED
      BY <3>1, <3>4, <3>5
  <2> QED
    BY <1>1, <2>1 DEF Upward, HangsFrom, Child
<1>9. Downward(L2, dep, key)'
  <2>1. ASSUME NEW q \in L2
        PROVE  /\ left'[q] # Nil => /\ left'[q] \in L2 \ {Root} /\ parent[left'[q]] = q
                                    /\ ~BitOf(key[left'[q]], dep[q])
               /\ right'[q] # Nil => /\ right'[q] \in L2 \ {Root} /\ parent[right'[q]] = q
                                     /\ BitOf(key[right'[q]], dep[q])
    <3>1. /\ left'[q] # Nil => left'[q] = left[q] /\ left[q] # n
          /\ right'[q] # Nil => right'[q] = right[q] /\ right[q] # n
      BY <1>6
    <3>2. /\ left[q] # Nil => /\ left[q] \in L \ {Root} /\ parent[left[q]] = q
                              /\ ~BitOf(key[left[q]], dep[q])
          /\ right[q] # Nil => /\ right[q] \in L \ {Root} /\ parent[right[q]] = q
                               /\ BitOf(key[right[q]], dep[q])
      BY <1>2 DEF Downward, Holds
    <3>3. left'[q] # Nil => /\ left'[q] \in L2 \ {Root} /\ parent[left'[q]] = q
                            /\ ~BitOf(key[left'[q]], dep[q])
      BY <3>1, <3>2
    <3>4. right'[q] # Nil => /\ right'[q] \in L2 \ {Root} /\ parent[right'[q]] = q
                             /\ BitOf(key[right'[q]], dep[q])
      BY <3>1, <3>2
    <3> QED
      BY <3>3, <3>4
  <2> QED
    BY <1>1, <2>1 DEF Downward, Holds
<1>10. Fresh'
  <2>1. ASSUME NEW i \in TreeNodes, i > used PROVE left'[i] = Nil /\ right'[i] = Nil
    <3>1. i # n /\ i # m
      BY <1>1, <1>2, <1>3, <2>1 DEF Rooted
    <3>2. left'[i] = left[i] /\ right'[i] = right[i]
      BY <3>1 DEF Cutting
    <3> QED
      BY <1>2, <2>1, <3>2 DEF Fresh
  <2> QED
    BY <1>1, <2>1 DEF Fresh
<1>11. Placed(L2, dep, key)' /\ OnePlace(L2, dep, key)'
  BY <1>1, <1>2 DEF Placed, OnePlace, At
<1> QED
  BY <1>3, <1>4, <1>7, <1>8, <1>9, <1>10, <1>11 DEF Shape

LEMMA UnlinkShape ==
  ASSUME TreeInv, ShapeInv, DistinctNetworks, NEW p, Workers = {p}, Unlink(p)
  PROVE  ShapeInv'
<1> SUFFICES ASSUME ~reused' PROVE ShapeInv'
  BY DEF ShapeInv
<1> DEFINE c == w[p]
           stop == \/ right'[parent[c.node]] # Nil \/ left'[parent[c.node]] # Nil
                   \/ value[parent[c.node]] # NoValue \/ parent[parent[c.node]] = Nil
           e == [c EXCEPT !.node = parent[c.node], !.pc = IF stop THEN "unrecord" ELSE "unlink"]
<1>1. ~reused /\ Record' = Record /\ UNCHANGED <<parent, value, used>>
  BY DEF Unlink
<1>2. PICK L \in SUBSET TreeNodes, dep \in Depths, key \in NodeKeys :
         Shape(L, dep, key) /\ CallShape(c, L, dep, key)
  BY <1>1, ShapeOf
<1>3. PICK n, m, net : n = c.node /\ m = parent[n] /\ net = c.net
  OBVIOUS
<1>4. c \in CallRec /\ c.pc = "unlink" /\ net \in Networks /\ m # Nil
      /\ w' = [w EXCEPT ![p] = e]
  BY <1>3, UnlinkIs
<1>5. n \in L /\ Leaf(n)
      /\ \/ Held(L) = Record /\ At(n, net, dep, key)
         \/ Held(L) = Record \ {net} /\ n # Root /\ value[n] = NoValue
  BY <1>2, <1>3, <1>4 DEF CallShape, Unlinking
<1>6. n # Root
  BY <1>2, <1>3, <1>4 DEF Shape, Rooted
<1>7. Cutting(L, dep, key, n, m)
  <2>1. /\ m # n /\ right[m] = n => right'[m] = Nil /\ left' = left
        /\ right[m] # n => left'[m] = Nil
        /\ \A i \in TreeNodes \ {m} : left'[i] = left[i]
        /\ right[m] # n /\ m # n => right'[m] = right[m]
        /\ \A i \in TreeNodes \ {n, m} : right'[i] = right[i]
    BY <1>3, UnlinkIs
  <2> QED
    BY <1>1, <1>2, <1>3, <1>5, <1>6, <2>1 DEF Cutting
<1> DEFINE L2 == L \ {n}
<1>8. Shape(L2, dep, key)' /\ m \in L2
  BY <1>7, UnlinkTree
<1>9. Held(L2)' = Record \ {net}
  <2>1. CASE Held(L) = Record /\ At(n, net, dep, key)
    <3>1. value[n] \in {NoValue, net}
      BY <1>2, <1>4, <1>5, <2>1, HeldHere
    <3>2. ASSUME NEW x \in Networks
          PROVE  (\E q \in L2 : value[q] = x) <=> x # net /\ \E q \in L : value[q] = x
      <4>1. x # NoValue
        BY NoValueIsNoNet
      <4>2. CASE x = net
        <5>1. ASSUME NEW q \in L2, value[q] = net PROVE FALSE
          BY <1>2, <1>5, <2>1, <4>1, <4>2, <5>1, HeldOnce
        <5> QED
          BY <4>2, <5>1
      <4>3. CASE x # net
        BY <3>1, <4>1, <4>3
      <4> QED
        BY <4>2, <4>3
    <3>3. {x \in Networks : \E q \in L2 : value[q] = x} = Held(L) \ {net}
      BY <3>2 DEF Held
    <3> QED
      BY <1>1, <2>1, <3>3 DEF Held
  <2>2. CASE Held(L) = Record \ {net} /\ value[n] = NoValue
    <3>1. ASSUME NEW x \in Networks
          PROVE  (\E q \in L2 : value[q] = x) <=> \E q \in L : value[q] = x
      BY <2>2, NoValueIsNoNet
    <3>2. {x \in Networks : \E q \in L2 : value[q] = x} = Held(L)
      BY <3>1 DEF Held
    <3> QED
      BY <1>1, <2>2, <3>2 DEF Held
  <2> QED
    BY <1>5, <2>1, <2>2
<1>10. w'[p] = e
  BY <1>4, CallChanges
<1>11. /\ e.net = net /\ e.node = m
       /\ \/ e.pc = "unrecord"
          \/ /\ e.pc = "unlink" /\ right'[m] = Nil /\ left'[m] = Nil
             /\ value[m] = NoValue /\ parent[m] # Nil
  BY <1>3, <1>4 DEF CallRec
<1>12. parent[m] # Nil => m # Root
  BY <1>2 DEF Shape, Rooted
<1> HIDE DEF e
<1>13. CASE e.pc = "unrecord"
  <2>1. CallShape(w[p], L2, dep, key)'
    BY <1>1, <1>9, <1>10, <1>11, <1>13 DEF CallShape
  <2> QED
    BY <1>8, <2>1, ShapeWitness
<1>14. CASE e.pc = "unlink"
  <2>1. right'[m] = Nil /\ left'[m] = Nil /\ value'[m] = NoValue /\ m # Root
    BY <1>1, <1>11, <1>12, <1>14
  <2>2. Unlinking(w[p], L2, dep, key)'
    BY <1>1, <1>8, <1>9, <1>10, <1>11, <2>1 DEF Unlinking, Leaf
  <2>3. CallShape(w[p], L2, dep, key)'
    BY <1>10, <1>14, <2>2 DEF CallShape
  <2> QED
    BY <1>8, <2>3, ShapeWitness
<1> QED
  BY <1>11, <1>13, <1>14

\* Every step of a single goroutine keeps ShapeInv.
LEMMA ShapeInvNext ==
  ASSUME TreeInv, ShapeInv, DistinctNetworks, NEW p, Workers = {p}, [TreeNext]_treeVars
  PROVE  ShapeInv'
<1>1. ASSUME NEW net \in Networks, Add(p, net) PROVE ShapeInv'
  <2> DEFINE pc == "descend"
  <2>1. Begin(p, net, pc) /\ pc \in {"descend", "find"}
    BY <1>1 DEF Add
  <2> HIDE DEF pc
  <2> QED
    BY <2>1, BeginShape
<1>2. ASSUME NEW net \in Networks, Delete(p, net) PROVE ShapeInv'
  <2> DEFINE pc == "find"
  <2>1. Begin(p, net, pc) /\ pc \in {"descend", "find"}
    BY <1>2 DEF Delete
  <2> HIDE DEF pc
  <2> QED
    BY <2>1, BeginShape
<1>3. ASSUME NEW net \in Networks, AddPanic(p, net) PROVE ShapeInv'
  BY <1>3, AddPanicShape
<1>4. ASSUME Step(p) PROVE ShapeInv'
  BY <1>4, DescendShape, SetValueShape, GrowShape, EnlistShape, FindShape, ClearValueShape,
     FoundLeafShape, UnlinkPanicShape, UnlinkShape DEF Step
<1>5. ASSUME UNCHANGED treeVars PROVE ShapeInv'
  <2> SUFFICES ASSUME ~reused' PROVE ShapeInv'
    BY DEF ShapeInv
  <2>1. ~reused /\ UNCHANGED heap /\ Record' = Record /\ w' = w
    BY <1>5 DEF treeVars
  <2>2. PICK L \in SUBSET TreeNodes, dep \in Depths, key \in NodeKeys :
           Shape(L, dep, key) /\ CallShape(w[p], L, dep, key)
    BY <2>1, ShapeOf
  <2>3. Shape(L, dep, key)' /\ Held(L)' = Held(L)
    BY <2>1, <2>2, SameHeap
  <2>4. left' = left /\ right' = right /\ value' = value
    BY <2>1 DEF heap
  <2>5. CallShape(w[p], L, dep, key)'
    BY <2>1, <2>2, <2>3, <2>4 DEF CallShape, OnPath, Unlinking, At, Leaf, Child
  <2> QED
    BY <2>3, <2>5, ShapeWitness
<1> QED
  BY <1>1, <1>2, <1>3, <1>4, <1>5 DEF TreeNext

LEMMA ShapeAlways ==
  ASSUME DistinctNetworks, NEW CONSTANT p, Workers = {p}
  PROVE  TreeSpec => [](TreeInv /\ ShapeInv)
<1>1. TreeInit => TreeInv /\ ShapeInv
  BY TreeInvInit, ShapeInvInit
<1>2. TreeInv /\ ShapeInv /\ [TreeNext]_treeVars => (TreeInv /\ ShapeInv)'
  BY TreeInvNext, ShapeInvNext
<1> QED
  BY <1>1, <1>2, PTL DEF TreeSpec

-----------------------------------------------------------------------------
(***************************************************************************)
(* search on such a tree.                                                  *)
(***************************************************************************)
LEMMA PathFacts ==
  ASSUME TreeInv, NEW k
  PROVE  /\ Path(k)[0] = Root
         /\ \A d \in 1 .. Fuel : Path(k)[d] = IF Path(k)[d - 1] = Nil THEN Nil
                                              ELSE Child(Path(k)[d - 1], k, d - 1)
         /\ Fuel \in Nat /\ W < Fuel
<1> DEFINE S == TreeNodes \cup {Nil}
           F == [i \in 1 .. Fuel |-> [x \in S |-> IF x = Nil THEN Nil ELSE Child(x, k, i - 1)]]
           Def(g) == g = [d \in 0 .. Fuel |-> IF d = 0 THEN Root
                             ELSE IF g[d - 1] = Nil THEN Nil ELSE Child(g[d - 1], k, d - 1)]
<1>0. Fuel \in Nat /\ W < Fuel
  BY RadixTreeAssumption DEF Fuel
<1>1. F \in Loops(S, Fuel)
  <2>1. ASSUME NEW i \in 1 .. Fuel, NEW x \in S
        PROVE  (IF x = Nil THEN Nil ELSE Child(x, k, i - 1)) \in S
    <3>1. CASE x = Nil
      BY <3>1
    <3>2. CASE x # Nil
      <4>1. x \in TreeNodes
        BY <3>2
      <4>2. Child(x, k, i - 1) \in S
        BY <4>1, ChildFacts
      <4> QED
        BY <3>2, <4>2
    <3> QED
      BY <3>1, <3>2
  <2> QED
    BY <2>1 DEF Loops
<1>2. \E f \in [0 .. Fuel -> S] : f[0] = Root /\ \A i \in 1 .. Fuel : f[i] = F[i][f[i - 1]]
  <2>1. Root \in S
    BY RadixTreeAssumption DEF TreeNodes, Root
  <2> HIDE DEF S, F
  <2> QED
    BY <1>0, <1>1, <2>1, LoopExists
<1>3. PICK f \in [0 .. Fuel -> S] : f[0] = Root /\ \A i \in 1 .. Fuel : f[i] = F[i][f[i - 1]]
  BY <1>2
<1>4. ASSUME NEW d \in 1 .. Fuel
      PROVE  f[d] = IF f[d - 1] = Nil THEN Nil ELSE Child(f[d - 1], k, d - 1)
  <2>1. d - 1 \in 0 .. Fuel
    BY <1>0
  <2>2. f[d - 1] \in S /\ f[d] = F[d][f[d - 1]]
    BY <1>3, <2>1
  <2> QED
    BY <2>2
<1>5. Def(f)
  <2>1. ASSUME NEW d \in 0 .. Fuel
        PROVE  f[d] = IF d = 0 THEN Root
                      ELSE IF f[d - 1] = Nil THEN Nil ELSE Child(f[d - 1], k, d - 1)
    <3>1. CASE d = 0
      BY <1>3, <3>1
    <3>2. CASE d # 0
      <4>1. d \in 1 .. Fuel
        BY <1>0, <3>2
      <4> QED
        BY <1>4, <3>2, <4>1
    <3> QED
      BY <3>1, <3>2
  <2> QED
    BY <2>1
<1>6. Path(k) = CHOOSE g : Def(g)
  BY DEF Path
<1>7. Def(Path(k))
  <2> DEFINE at == Path(k)
  <2>1. at = CHOOSE g : Def(g)
    BY <1>6
  <2> HIDE DEF Def, at
  <2>2. Def(at)
    BY <1>5, <2>1
  <2> QED
    BY <2>2 DEF at
<1> DEFINE at == Path(k)
<1>8. \A d \in 0 .. Fuel : at[d] = IF d = 0 THEN Root
                           ELSE IF at[d - 1] = Nil THEN Nil ELSE Child(at[d - 1], k, d - 1)
  BY <1>7
<1> HIDE DEF at
<1>9. at[0] = Root
  BY <1>0, <1>8
<1>10. ASSUME NEW d \in 1 .. Fuel
       PROVE  at[d] = IF at[d - 1] = Nil THEN Nil ELSE Child(at[d - 1], k, d - 1)
  <2>1. d \in 0 .. Fuel /\ d # 0
    BY <1>0
  <2> QED
    BY <1>8, <2>1
<1> QED
  BY <1>0, <1>9, <1>10 DEF at

\* The path of k meets nodes that stand for the beginnings of k ...
LEMMA PathPlace ==
  ASSUME TreeInv, NEW L \in SUBSET TreeNodes, NEW dep \in Depths, NEW key \in NodeKeys,
         Shape(L, dep, key), NEW k
  PROVE  \A d \in 0 .. Fuel : LET n == Path(k)[d] IN
             n # Nil => n \in L /\ dep[n] = d /\ Agree(key[n], k, d)
<1> DEFINE at == Path(k)
           T == {d \in 0 .. Fuel : at[d] # Nil =>
                    at[d] \in L /\ dep[at[d]] = d /\ Agree(key[at[d]], k, d)}
<1>0. /\ at[0] = Root
      /\ \A d \in 1 .. Fuel : at[d] = IF at[d - 1] = Nil THEN Nil ELSE Child(at[d - 1], k, d - 1)
      /\ Fuel \in Nat
  BY PathFacts
<1> HIDE DEF at
<1>1. 0 \in T
  <2>1. Root \in L /\ dep[Root] = 0
    BY DEF Shape, Rooted
  <2> QED
    BY <1>0, <2>1, AgreeNone
<1>2. ASSUME NEW d \in 0 .. (Fuel - 1), d \in T PROVE d + 1 \in T
  <2>1. d + 1 \in 1 .. Fuel /\ (d + 1) - 1 = d /\ d + 1 \in 0 .. Fuel
    BY <1>0
  <2> DEFINE e == d + 1
  <2>2. at[e] = IF at[d] = Nil THEN Nil ELSE Child(at[d], k, d)
    BY <1>0, <2>1
  <2>3. ASSUME at[e] # Nil PROVE at[e] \in L /\ dep[at[e]] = e /\ Agree(key[at[e]], k, e)
    <3> DEFINE n == at[d]
               m == at[e]
    <3>1. n \in L /\ dep[n] = d /\ Agree(key[n], k, d) /\ m = Child(n, k, d) /\ m # Nil
      BY <1>2, <2>2, <2>3
    <3> HIDE DEF n, m, e, T
    <3>2. n \in L /\ Agree(key[n], k, dep[n])
      BY <3>1
    <3>3. m = Child(n, k, dep[n]) /\ m # Nil
      BY <3>1
    <3>4. m \in L \ {Root} /\ dep[m] = dep[n] + 1 /\ Agree(key[m], k, dep[n] + 1)
      BY <3>2, <3>3, ChildPlace
    <3>5. m \in L /\ dep[m] = e /\ Agree(key[m], k, e)
      BY <3>1, <3>4 DEF e
    <3> QED
      BY <3>5 DEF m
  <2> QED
    BY <2>1, <2>3
<1>3. \A d \in 0 .. Fuel : d \in T
  <2>1. \A d \in 0 .. (Fuel - 1) : d \in T => d + 1 \in T
    BY <1>2
  <2> HIDE DEF T
  <2> QED
    BY <1>0, <1>1, <2>1, UpTo
<1> QED
  BY <1>3 DEF at

\* ... and every such node.
LEMMA PathReaches ==
  ASSUME TreeInv, NEW L \in SUBSET TreeNodes, NEW dep \in Depths, NEW key \in NodeKeys,
         Shape(L, dep, key), NEW k
  PROVE  \A n \in L : Agree(key[n], k, dep[n]) => Path(k)[dep[n]] = n
<1> DEFINE at == Path(k)
           T == {d \in 0 .. W : \A n \in L : dep[n] = d /\ Agree(key[n], k, d) => at[d] = n}
<1>0. /\ at[0] = Root
      /\ \A d \in 1 .. Fuel : at[d] = IF at[d - 1] = Nil THEN Nil ELSE Child(at[d - 1], k, d - 1)
      /\ Fuel \in Nat /\ W < Fuel /\ W \in Nat
  BY PathFacts, RadixTreeAssumption
<1> HIDE DEF at
<1>1. \A n \in L \ {Root} :
         /\ parent[n] \in L /\ dep[n] = dep[parent[n]] + 1 /\ dep[parent[n]] \in Nat
         /\ Agree(key[n], key[parent[n]], dep[parent[n]])
         /\ Child(parent[n], key[n], dep[parent[n]]) = n
  BY DEF Shape, Upward, HangsFrom, Depths
<1>2. dep[Root] = 0 /\ Nil \notin L
  BY DEF Shape, Rooted, TreeNodes, Nil
<1>3. 0 \in T
  <2>1. ASSUME NEW n \in L, dep[n] = 0 PROVE n = Root
    BY <1>1, <2>1
  <2> QED
    BY <1>0, <2>1
<1>4. ASSUME NEW d \in 0 .. (W - 1), d \in T PROVE d + 1 \in T
  <2> DEFINE e == d + 1
  <2>1. e \in 1 .. Fuel /\ e - 1 = d /\ e \in 0 .. W /\ d \in Nat /\ e # 0
    BY <1>0
  <2>2. at[e] = IF at[d] = Nil THEN Nil ELSE Child(at[d], k, d)
    BY <1>0, <2>1
  <2>3. ASSUME NEW n \in L, dep[n] = e, Agree(key[n], k, e) PROVE at[e] = n
    <3>1. n # Root
      BY <1>2, <2>1, <2>3
    <3>2. PICK q \in L : /\ q = parent[n] /\ dep[n] = dep[q] + 1 /\ dep[q] \in Nat
                         /\ Agree(key[n], key[q], dep[q]) /\ Child(q, key[n], dep[q]) = n
      BY <1>1, <3>1
    <3>3. dep[q] = d
      BY <2>1, <2>3, <3>2
    <3>4. Agree(key[n], k, d) /\ (BitOf(key[n], d) <=> BitOf(k, d))
      BY <2>1, <2>3, AgreeNext
    <3>5. Agree(key[q], key[n], d)
      BY <3>2, <3>3, AgreeSym
    <3>6. Agree(key[q], k, d)
      BY <3>4, <3>5, AgreeTrans
    <3>7. at[d] = q
      BY <1>4, <3>3, <3>6
    <3>8. Child(q, k, d) = n
      BY <3>2, <3>3, <3>4 DEF Child
    <3> QED
      BY <1>2, <2>2, <3>7, <3>8
  <2> QED
    BY <2>1, <2>3
<1>5. \A d \in 0 .. W : d \in T
  <2>1. \A d \in 0 .. (W - 1) : d \in T => d + 1 \in T
    BY <1>4
  <2> HIDE DEF T
  <2> QED
    BY <1>0, <1>3, <2>1, UpTo
<1>6. \A n \in L : dep[n] \in 0 .. W
  BY DEF Depths
<1> QED
  BY <1>5, <1>6 DEF at

\* A set of numbers up to n has a greatest element.
LEMMA GreatestElement ==
  ASSUME NEW n \in Nat, NEW T \in SUBSET (0 .. n), T # {}
  PROVE  \E m \in T : \A k \in T : k <= m
<1> DEFINE B == {m \in 0 .. n : \A k \in T : k <= m}
<1>1. n \in B /\ B \in SUBSET Nat
  OBVIOUS
<1>2. PICK m \in B : \A b \in B : m <= b
  <2> HIDE DEF B
  <2> QED
    BY <1>1, LeastElement
<1>3. m \in 0 .. n /\ \A k \in T : k <= m
  BY <1>2
<1>4. ASSUME m \notin T PROVE FALSE
  <2>1. PICK k \in T : TRUE
    OBVIOUS
  <2>2. m # 0
    BY <1>3, <1>4, <2>1
  <2>3. m - 1 \in 0 .. n /\ \A j \in T : j <= m - 1
    BY <1>3, <1>4, <2>2
  <2>4. m <= m - 1
    BY <1>2, <2>3
  <2> QED
    BY <1>3, <2>4
<1> QED
  BY <1>3, <1>4

\* A value on the path of k is a network that contains k, at its own depth ...
LEMMA ValuedContains ==
  ASSUME TreeInv, NEW L \in SUBSET TreeNodes, NEW dep \in Depths, NEW key \in NodeKeys,
         Shape(L, dep, key), NEW k,
         NEW d \in 0 .. Fuel, NEW n, n = Path(k)[d], n # Nil, value[n] # NoValue
  PROVE  value[n] \in Held(L) /\ Contains(value[n], k) /\ value[n][2] = d
<1> DEFINE net == value[n]
<1>1. n \in L /\ dep[n] = d /\ Agree(key[n], k, d)
  <2>1. \A e \in 0 .. Fuel : Path(k)[e] # Nil =>
            /\ Path(k)[e] \in L /\ dep[Path(k)[e]] = e
            /\ Agree(key[Path(k)[e]], k, e)
    BY PathPlace
  <2> QED
    BY <2>1
<1>2. n \in TreeNodes /\ net \in Networks
  BY <1>1 DEF TreeInv, TreeTypeOK
<1>3. At(n, net, dep, key)
  BY <1>1 DEF Shape, Placed
<1> HIDE DEF net
<1>4. net[2] = d /\ Agree(net[1], key[n], d)
  BY <1>1, <1>3, AgreeSym DEF At
<1>5. Agree(net[1], k, net[2])
  BY <1>1, <1>4, AgreeTrans
<1>6. d \in 0 .. W
  BY <1>1, <1>2 DEF Depths
<1>7. net[2] <= W /\ 0 <= net[2]
  BY <1>4, <1>6, RadixTreeAssumption
<1>8. Contains(net, k)
  BY <1>2, <1>5, <1>7, ContainsIs
<1>9. net \in Held(L)
  BY <1>1, <1>2 DEF Held, net
<1> QED
  BY <1>4, <1>8, <1>9 DEF net

\* ... and every network of the tree that contains k is met on its path.
LEMMA ContainingMet ==
  ASSUME TreeInv, NEW L \in SUBSET TreeNodes, NEW dep \in Depths, NEW key \in NodeKeys,
         Shape(L, dep, key), NEW k,
         NEW net \in Held(L), Contains(net, k)
  PROVE  LET n == Path(k)[net[2]] IN
             net[2] \in 0 .. Fuel /\ n # Nil /\ value[n] = net /\ net # NoValue
<1>1. PICK n \in L : value[n] = net /\ net \in Networks
  BY DEF Held
<1>2. net # NoValue
  BY <1>1, NoValueIsNoNet
<1>3. dep[n] = net[2] /\ Agree(key[n], net[1], dep[n])
  BY <1>1, <1>2 DEF Shape, Placed, At
<1>4. net[2] \in 0 .. W /\ Fuel \in Nat /\ W < Fuel /\ W \in Nat
  BY <1>3, PathFacts, RadixTreeAssumption DEF Depths
<1>5. Agree(net[1], k, dep[n])
  BY <1>1, <1>3, <1>4, ContainsIs
<1>6. Agree(key[n], k, dep[n])
  BY <1>3, <1>5, AgreeTrans
<1>7. Path(k)[dep[n]] = n
  BY <1>6, PathReaches
<1>8. n # Nil
  BY DEF TreeNodes, Nil
<1> QED
  BY <1>1, <1>2, <1>3, <1>4, <1>7, <1>8

\* search finds the longest match among the networks in the tree.
LEMMA SearchIs ==
  ASSUME TreeInv, NEW L \in SUBSET TreeNodes, NEW dep \in Depths, NEW key \in NodeKeys,
         Shape(L, dep, key), NEW k
  PROVE  search(k) = LongestMatch(Held(L), k)
<1> DEFINE at == Path(k)
           V == {d \in 0 .. Fuel : at[d] # Nil /\ value[at[d]] # NoValue}
           C == {net \in Held(L) : Contains(net, k)}
<1>0. Fuel \in Nat /\ W < Fuel /\ W \in Nat
  BY PathFacts, RadixTreeAssumption
<1>1. at[Fuel] = Nil
  <2>1. ASSUME at[Fuel] # Nil PROVE FALSE
    <3>1. Fuel \in 0 .. Fuel
      BY <1>0
    <3>2. at[Fuel] \in L /\ dep[at[Fuel]] = Fuel
      BY <2>1, <3>1, PathPlace
    <3>3. Fuel \in 0 .. W
      BY <3>2 DEF Depths
    <3> QED
      BY <1>0, <3>3
  <2> QED
    BY <2>1
<1>2. \A d \in V : value[at[d]] \in C /\ value[at[d]][2] = d
  <2>1. ASSUME NEW d \in V PROVE value[at[d]] \in C /\ value[at[d]][2] = d
    <3> DEFINE n == at[d]
    <3>1. d \in 0 .. Fuel /\ n = Path(k)[d] /\ n # Nil /\ value[n] # NoValue
      OBVIOUS
    <3> HIDE DEF n
    <3>2. value[n] \in Held(L) /\ Contains(value[n], k) /\ value[n][2] = d
      BY <3>1, ValuedContains
    <3> QED
      BY <3>2 DEF n
  <2> QED
    BY <2>1
<1>3. \A net \in C : net[2] \in V /\ value[at[net[2]]] = net
  BY ContainingMet
<1>4. search(k) = IF V = {} THEN NoValue
                  ELSE value[at[CHOOSE d \in V : \A e \in V : e <= d]]
  BY <1>1 DEF search
<1>5. LongestMatch(Held(L), k) = IF C = {} THEN NoValue
                                 ELSE CHOOSE net \in C : \A other \in C : other[2] <= net[2]
  BY DEF LongestMatch
<1>6. V \in SUBSET (0 .. Fuel)
  OBVIOUS
<1> HIDE DEF at, V, C
<1>7. CASE V = {}
  BY <1>3, <1>4, <1>5, <1>7
<1>8. CASE V # {}
  <2>1. PICK m \in V : \A e \in V : e <= m
    BY <1>0, <1>6, <1>8, GreatestElement
  <2>2. \A d \in V : d \in Int
    BY <1>6
  <2>3. (CHOOSE d \in V : \A e \in V : e <= d) = m
    <3>1. \A d \in V : (\A e \in V : e <= d) <=> d = m
      BY <2>1, <2>2
    <3> QED
      BY <3>1
  <2> DEFINE net == value[at[m]]
  <2>4. net \in C /\ net[2] = m
    BY <1>2
  <2> HIDE DEF net
  <2>5. (CHOOSE x \in C : \A other \in C : other[2] <= x[2]) = net
    <3>1. \A x \in C : x[2] \in Int /\ x[2] <= m
      BY <1>3, <2>1, <2>2
    <3>2. \A x \in C : x[2] = m => x = net
      BY <1>3 DEF net
    <3>3. \A x \in C : (\A other \in C : other[2] <= x[2]) <=> x = net
      BY <2>2, <2>4, <3>1, <3>2
    <3> QED
      BY <2>4, <3>3
  <2>6. C # {}
    BY <2>4
  <2> QED
    BY <1>4, <1>5, <1>8, <2>3, <2>5, <2>6 DEF net
<1> QED
  BY <1>7, <1>8

\* A single worker: what the call in progress adds or deletes.
LEMMA InProgress ==
  ASSUME NEW p, Workers = {p}
  PROVE  /\ Adding = IF w[p].pc \in {"descend", "grow", "record"} THEN {w[p].net} ELSE {}
         /\ Deleting = IF w[p].pc \in {"find", "unlink", "unrecord"} THEN {w[p].net} ELSE {}
<1>1. \A S : {q \in Workers : w[q].pc \in S} = IF w[p].pc \in S THEN {p} ELSE {}
  OBVIOUS
<1>2. {w[q].net : q \in {p}} = {w[p].net} /\ {w[q].net : q \in {}} = {}
  OBVIOUS
<1> QED
  BY <1>1, <1>2 DEF Adding, Deleting

\* The tree holds the networks of Record as it was before the call in progress
\* or as it is after it.
LEMMA HeldIsRecord ==
  ASSUME TreeInv, NEW p, Workers = {p},
         NEW L \in SUBSET TreeNodes, NEW dep \in Depths, NEW key \in NodeKeys,
         CallShape(w[p], L, dep, key)
  PROVE  Held(L) \in {Record, (Record \cup Adding) \ Deleting}
<1> DEFINE c == w[p]
<1>1. c \in CallRec
  BY CallType DEF TreeInv
<1>2. CallShape(c, L, dep, key)
  OBVIOUS
<1>3. /\ Adding = IF c.pc \in {"descend", "grow", "record"} THEN {c.net} ELSE {}
      /\ Deleting = IF c.pc \in {"find", "unlink", "unrecord"} THEN {c.net} ELSE {}
  BY InProgress
<1>4. c.pc \in PCs
  BY <1>1 DEF CallRec
<1> HIDE DEF c
<1>5. CASE c.pc \in {"idle", "descend", "grow", "find"}
  BY <1>2, <1>5 DEF CallShape
<1>6. CASE c.pc = "record"
  <2>1. Held(L) = Record \cup {c.net} /\ Adding = {c.net} /\ Deleting = {}
    BY <1>2, <1>3, <1>6 DEF CallShape
  <2> QED
    BY <2>1
<1>7. CASE c.pc = "unrecord"
  <2>1. Held(L) = Record \ {c.net} /\ Adding = {} /\ Deleting = {c.net}
    BY <1>2, <1>3, <1>7 DEF CallShape
  <2> QED
    BY <2>1
<1>8. CASE c.pc = "unlink"
  <2>1. Adding = {} /\ Deleting = {c.net}
    BY <1>3, <1>8
  <2>2. Held(L) = Record \/ Held(L) = Record \ {c.net}
    BY <1>2, <1>8 DEF CallShape, Unlinking
  <2> QED
    BY <2>1, <2>2
<1> QED
  BY <1>4, <1>5, <1>6, <1>7, <1>8 DEF PCs

(***************************************************************************)
(* A search during a call of Add or Delete finds the longest match in the  *)
(* record as it was before the call or as it is after it, for every width  *)
(* of an address, size of the heap and set of networks: for one goroutine, *)
(* and until newNode takes a node of the free list.                        *)
(***************************************************************************)
THEOREM SearchFindsLongestMatch ==
  ASSUME DistinctNetworks, NEW CONSTANT p, Workers = {p}
  PROVE  TreeSpec => []SearchMatchesRecord
<1>1. TreeInv /\ ShapeInv => SearchMatchesRecord
  <2> SUFFICES ASSUME TreeInv, ShapeInv, ~reused, NEW k \in Keys
               PROVE  search(k) \in {LongestMatch(Record, k),
                                     LongestMatch((Record \cup Adding) \ Deleting, k)}
    BY DEF SearchMatchesRecord
  <2>1. PICK L \in SUBSET TreeNodes, dep \in Depths, key \in NodeKeys :
            Shape(L, dep, key) /\ \A q \in Workers : CallShape(w[q], L, dep, key)
    BY DEF ShapeInv
  <2>2. search(k) = LongestMatch(Held(L), k)
    BY <2>1, SearchIs
  <2>3. Held(L) \in {Record, (Record \cup Adding) \ Deleting}
    BY <2>1, HeldIsRecord
  <2> QED
    BY <2>2, <2>3
<1> QED
  BY <1>1, ShapeAlways, PTL

(***************************************************************************)
(* What TestRadixTree expects, that a listed /32 is found at its address,  *)
(* can only fail after newNode has taken a node of the free list: that     *)
(* node keeps its old pointers, and nothing else in Add and Delete breaks  *)
(* the tree for one goroutine.                                             *)
(***************************************************************************)
THEOREM ListedIsFoundUntilReuse ==
  ASSUME DistinctNetworks, NEW CONSTANT p, Workers = {p}
  PROVE  TreeSpec => [](~reused => SearchFindsListed)
<1>1. TreeInv /\ ShapeInv => (~reused => SearchFindsListed)
  <2> SUFFICES ASSUME TreeInv, ShapeInv, ~reused, w[p].pc = "idle",
                      NEW net \in Record, net[2] = W
               PROVE  search(net[1]) = net
    BY DEF SearchFindsListed
  <2>1. PICK L \in SUBSET TreeNodes, dep \in Depths, key \in NodeKeys :
            Shape(L, dep, key) /\ CallShape(w[p], L, dep, key)
    BY DEF ShapeInv
  <2> DEFINE k == net[1]
             C == {x \in Held(L) : Contains(x, k)}
  <2>2. Held(L) = Record
    BY <2>1 DEF CallShape
  <2>3. net \in C
    BY <2>2 DEF Contains
  <2>4. search(k) = LongestMatch(Held(L), k)
    BY <2>1, SearchIs
  <2>5. LongestMatch(Held(L), k) = IF C = {} THEN NoValue
                                   ELSE CHOOSE x \in C : \A other \in C : other[2] <= x[2]
    BY DEF LongestMatch
  <2>6. \A x \in C : /\ x[2] \in 0 .. Fuel /\ Path(k)[x[2]] # Nil
                     /\ value[Path(k)[x[2]]] = x
    BY <2>1, ContainingMet
  <2> HIDE DEF k, C
  <2>7. \A x \in C : x[2] \in Int /\ x[2] <= W
    <3>1. \A d \in 0 .. Fuel : Path(k)[d] # Nil =>
              /\ Path(k)[d] \in L /\ dep[Path(k)[d]] = d
              /\ Agree(key[Path(k)[d]], k, d)
      BY <2>1, PathPlace
    <3>2. \A x \in C : Path(k)[x[2]] \in TreeNodes /\ dep[Path(k)[x[2]]] = x[2]
      BY <2>6, <3>1
    <3>3. \A n \in TreeNodes : dep[n] \in 0 .. W
      BY DEF Depths
    <3>4. \A x \in C : x[2] \in 0 .. W
      BY <3>2, <3>3
    <3> QED
      BY <3>4, RadixTreeAssumption
  <2>8. \A x \in C : (\A other \in C : other[2] <= x[2]) <=> x = net
    <3>1. \A x \in C : x[2] = W => x = net
      BY <2>3, <2>6
    <3> QED
      BY <2>3, <2>7, <3>1, RadixTreeAssumption
  <2>9. (CHOOSE x \in C : \A other \in C : other[2] <= x[2]) = net
    BY <2>3, <2>8
  <2> QED
    BY <2>3, <2>4, <2>5, <2>9 DEF k
<1> QED
  BY <1>1, ShapeAlways, PTL

-----------------------------------------------------------------------------
(***************************************************************************)
(* AclReplication.                                                         *)
(***************************************************************************)
USE AclAssumption

(***************************************************************************)
(* Typing.                                                                 *)
(***************************************************************************)
LEMMA FsmApplyType ==
  ASSUME NEW op, NEW net \in Nets, NEW S \in SUBSET Nets
  PROVE  FsmApply(op, net, S) \in SUBSET Nets
  BY DEF FsmApply

LEMMA ListAtType ==
  ASSUME TypeOK, NEW i \in 0 .. Len(log)
  PROVE  ListAt(i) \in SUBSET Nets
<1>1. CASE i = 0
  BY <1>1 DEF ListAt
<1>2. CASE i # 0
  <2>1. i \in 1 .. Len(log)
    BY <1>2 DEF TypeOK
  <2>2. log[i] \in Entry
    BY <2>1 DEF TypeOK
  <2> QED
    BY <1>2, <2>2 DEF ListAt, Entry
<1> QED
  BY <1>1, <1>2

LEMMA InitTypeOK == Init => TypeOK
  BY DEF Init, TypeOK, NewSnapshot, Idle, Entry

LEMMA RequestTypeOK ==
  ASSUME TypeOK, NEW c \in Clients, NEW n \in Nodes, NEW op \in Patterns,
         NEW net \in Nets, Request(c, n, op, net)
  PROVE  TypeOK'
<1>1. h' \in [Clients -> {Idle} \cup Busy]
  BY DEF TypeOK, Request, Busy
<1>2. nreqs' \in 0 .. MaxReqs
  BY DEF TypeOK, Request
<1> QED
  BY <1>1, <1>2 DEF TypeOK, Request, raftVars

LEMMA HandlerTypeOK ==
  ASSUME TypeOK, NEW c \in Clients, HandlerStep(c)
  PROVE  TypeOK'
<1>1. h[c] \in Busy
  BY DEF TypeOK, HandlerStep, WriteLocal, WriteLog, WriteLogFails, Idle
<1>2. CASE WriteLocal(c)
  <2>1. [h[c] EXCEPT !.pc = "log"] \in Busy
    BY <1>1 DEF Busy
  <2>2. h' \in [Clients -> {Idle} \cup Busy]
    BY <1>2, <2>1 DEF TypeOK, WriteLocal
  <2>3. record' \in [Nodes -> SUBSET Nets]
    BY <1>1, <1>2 DEF TypeOK, WriteLocal, LocalApply, Busy
  <2> QED
    BY <1>2, <2>2, <2>3 DEF TypeOK, WriteLocal, raftVars
<1>3. CASE WriteLog(c)
  <2> DEFINE after == FsmApply(h[c].op, h[c].net, ListAt(Len(log)))
             e == [op |-> h[c].op, net |-> h[c].net, after |-> after]
  <2>0. Len(log) \in 0 .. Len(log) /\ h[c].net \in Nets
    BY <1>1 DEF TypeOK, Busy
  <2>1. after \in SUBSET Nets
    BY <2>0, ListAtType, FsmApplyType
  <2>2. e \in Entry
    BY <1>1, <2>1 DEF Busy, Entry
  <2>3. log' = Append(log, e)
    BY <1>3 DEF WriteLog
  <2> HIDE DEF e
  <2>4. log' \in Seq(Entry) /\ Len(log') = Len(log) + 1
    BY <2>2, <2>3 DEF TypeOK
  <2>5. h' \in [Clients -> {Idle} \cup Busy]
    BY <1>3 DEF TypeOK, WriteLog
  <2>6. unlogged' \in [Nodes -> SUBSET Nets]
    BY <1>1, <1>3 DEF TypeOK, WriteLog, Busy
  <2>7. applied' = applied /\ \A m \in Nodes : applied[m] <= Len(log) + 1
    BY <1>3 DEF TypeOK, WriteLog
  <2> QED
    BY <1>3, <2>4, <2>5, <2>6, <2>7 DEF TypeOK, WriteLog, raftVars
<1>4. CASE WriteLogFails(c)
  <2>1. h' \in [Clients -> {Idle} \cup Busy]
    BY <1>4 DEF TypeOK, WriteLogFails
  <2>2. unlogged' \in [Nodes -> SUBSET Nets]
    BY <1>1, <1>4 DEF TypeOK, WriteLogFails, Busy
  <2> QED
    BY <1>4, <2>1, <2>2 DEF TypeOK, WriteLogFails, raftVars
<1> QED
  BY <1>2, <1>3, <1>4 DEF HandlerStep

(***************************************************************************)
(* Snapshots never run ahead of the log; this is what keeps the index a    *)
(* node restores within it.                                                *)
(***************************************************************************)
SnapshotsBehind ==
    \A n \in Nodes : /\ snap[n].index <= Len(log)
                     /\ pend[n] # NoSnapshot => up[n] /\ pend[n] <= applied[n]

LEMMA NodeTypeOK ==
  ASSUME TypeOK, SnapshotsBehind, NEW n \in Nodes, NodeStep(n)
  PROVE  TypeOK'
<1> USE DEF TypeOK, raftVars
<1>1. CASE Apply(n)
  <2> DEFINE e == log[applied[n] + 1]
  <2>1. e \in Entry
    BY <1>1 DEF Apply
  <2>2. e.net \in Nets
    BY <2>1 DEF Entry
  <2>3. record' \in [Nodes -> SUBSET Nets]
    BY <1>1, <2>2, FsmApplyType DEF Apply
  <2>4. unlogged' \in [Nodes -> SUBSET Nets]
    BY <1>1 DEF Apply
  <2>5. applied' \in [Nodes -> Nat] /\ \A m \in Nodes : applied'[m] <= Len(log)
    BY <1>1 DEF Apply
  <2> QED
    BY <1>1, <2>3, <2>4, <2>5 DEF Apply
<1>2. CASE Snapshot(n)
  BY <1>2 DEF Snapshot
<1>3. CASE Persist(n)
  <2>1. InFlight(n) \subseteq Nets
    BY DEF InFlight, Busy, Idle
  <2>2. pend[n] \in Nat
    BY <1>3 DEF Persist
  <2>3. snap' \in [Nodes -> [index : Nat, rec : SUBSET Nets, unlogged : SUBSET Nets]]
    BY <1>3, <2>1, <2>2 DEF Persist
  <2> QED
    BY <1>3, <2>3 DEF Persist
<1>4. CASE InstallSnapshot(n)
  <2>1. snap[leader] \in [index : Nat, rec : SUBSET Nets, unlogged : SUBSET Nets]
        /\ snap[leader].index <= Len(log)
    BY <1>4 DEF InstallSnapshot, SnapshotsBehind
  <2> QED
    BY <1>4, <2>1 DEF InstallSnapshot, Restore
<1>5. CASE Crash(n)
  <2>1. h' \in [Clients -> {Idle} \cup Busy]
    BY <1>5 DEF Crash
  <2>2. leader' \in Nodes \cup {None} /\ ncrashes' \in 0 .. MaxCrashes
    BY <1>5 DEF Crash
  <2> QED
    BY <1>5, <2>1, <2>2 DEF Crash
<1>6. CASE Restart(n)
  <2>1. snap[n] \in [index : Nat, rec : SUBSET Nets, unlogged : SUBSET Nets]
        /\ snap[n].index <= Len(log)
    BY DEF SnapshotsBehind
  <2> QED
    BY <1>6, <2>1 DEF Restart, Restore
<1>7. CASE Elect(n)
  <2>1. \A m \in Nodes : Append(notify[m], TRUE) \in Seq(BOOLEAN)
                         /\ Append(notify[m], FALSE) \in Seq(BOOLEAN)
    OBVIOUS
  <2>2. notify' \in [Nodes -> Seq(BOOLEAN)]
    BY <1>7, <2>1 DEF Elect
  <2>3. leader' \in Nodes \cup {None} /\ nterms' \in 0 .. MaxTerms
    BY <1>7, SMTT(20) DEF Elect
  <2> QED
    BY <1>7, <2>2, <2>3 DEF Elect
<1>8. CASE StepDown(n)
  <2>1. Append(notify[n], FALSE) \in Seq(BOOLEAN)
    OBVIOUS
  <2>2. notify' \in [Nodes -> Seq(BOOLEAN)]
    BY <1>8, <2>1 DEF StepDown
  <2> QED
    BY <1>8, <2>2 DEF StepDown
<1>9. CASE WatchLeader(n)
  <2>0. notify[n] \in Seq(BOOLEAN) /\ notify[n] # <<>>
    BY <1>9 DEF WatchLeader
  <2>1. Tail(notify[n]) \in Seq(BOOLEAN)
    BY <2>0
  <2>2. notify' \in [Nodes -> Seq(BOOLEAN)]
    BY <1>9, <2>1 DEF WatchLeader
  <2>3. flag' \in [Nodes -> BOOLEAN]
    BY <1>9 DEF WatchLeader
  <2> QED
    BY <1>9, <2>2, <2>3 DEF WatchLeader
<1> QED
  BY <1>1, <1>2, <1>3, <1>4, <1>5, <1>6, <1>7, <1>8, <1>9 DEF NodeStep

LEMMA BehindStep == TypeOK /\ SnapshotsBehind /\ [Next]_vars => SnapshotsBehind'
<1> SUFFICES ASSUME TypeOK, SnapshotsBehind, [Next]_vars PROVE SnapshotsBehind'
  OBVIOUS
<1> USE DEF SnapshotsBehind, TypeOK, raftVars
<1>1. ASSUME NEW c \in Clients, NEW n \in Nodes, NEW op \in Patterns, NEW net \in Nets,
             Request(c, n, op, net)
      PROVE  SnapshotsBehind'
  BY <1>1 DEF Request
<1>2. ASSUME NEW c \in Clients, HandlerStep(c) PROVE SnapshotsBehind'
  <2>1. CASE WriteLocal(c)
    BY <2>1 DEF WriteLocal
  <2>2. CASE WriteLog(c)
    <3>1. PICK e : log' = Append(log, e)
      BY <2>2 DEF WriteLog
    <3>2. Len(log') = Len(log) + 1
      BY <3>1
    <3> QED
      BY <2>2, <3>2 DEF WriteLog
  <2>3. CASE WriteLogFails(c)
    BY <2>3 DEF WriteLogFails
  <2> QED
    BY <1>2, <2>1, <2>2, <2>3 DEF HandlerStep
<1>3. ASSUME NEW n \in Nodes, NodeStep(n) PROVE SnapshotsBehind'
  <2>1. CASE Apply(n)            BY <2>1 DEF Apply
  <2>2. CASE Snapshot(n)         BY <2>2 DEF Snapshot
  <2>3. CASE Persist(n)          BY <2>3 DEF Persist
  <2>4. CASE InstallSnapshot(n)  BY <2>4 DEF InstallSnapshot, Restore
  <2>5. CASE Crash(n)            BY <2>5 DEF Crash
  <2>6. CASE Restart(n)          BY <2>6 DEF Restart, Restore
  <2>7. CASE Elect(n)            BY <2>7 DEF Elect
  <2>8. CASE StepDown(n)         BY <2>8 DEF StepDown
  <2>9. CASE WatchLeader(n)      BY <2>9 DEF WatchLeader
  <2> QED
    BY <1>3, <2>1, <2>2, <2>3, <2>4, <2>5, <2>6, <2>7, <2>8, <2>9 DEF NodeStep
<1>4. CASE UNCHANGED vars
  BY <1>4 DEF vars
<1> QED
  BY <1>1, <1>2, <1>3, <1>4 DEF Next
LEMMA NextTypeOK == TypeOK /\ SnapshotsBehind /\ [Next]_vars => TypeOK'
<1> SUFFICES ASSUME TypeOK, SnapshotsBehind, [Next]_vars PROVE TypeOK'
  OBVIOUS
<1>1. CASE UNCHANGED vars
  BY <1>1 DEF vars, TypeOK, raftVars
<1> QED
  BY <1>1, RequestTypeOK, HandlerTypeOK, NodeTypeOK DEF Next

\* Every state is well typed; in particular no node has applied more than the
\* log holds, restarts and installed snapshots included.
THEOREM TypeCorrect == Spec => []TypeOK
<1>1. Init => TypeOK /\ SnapshotsBehind
  BY InitTypeOK DEF Init, SnapshotsBehind, NewSnapshot
<1>2. TypeOK /\ SnapshotsBehind /\ [Next]_vars => (TypeOK /\ SnapshotsBehind)'
  BY NextTypeOK, BehindStep
<1> QED
  BY <1>1, <1>2, PTL DEF Spec

-----------------------------------------------------------------------------
(***************************************************************************)
(* Agreement.  A list S that was right after i entries of the log is right *)
(* now for every network that no later entry changes: that is what every   *)
(* node's list and every snapshot satisfy, but for the networks in flight  *)
(* or unlogged.  The operators take the log as a parameter, so that the    *)
(* lemmas about it are about constants.                                    *)
(***************************************************************************)
Final(L) == IF Len(L) = 0 THEN {} ELSE L[Len(L)].after
Changes(e, net) == e.net = net /\ e.op \in {0, 1}
Later(L, i, net) == \E m \in (i + 1) .. Len(L) : Changes(L[m], net)
Right(L, S, i, net) == Later(L, i, net) \/ (net \in S <=> net \in Final(L))

\* The last entry that changes a network decides.
LastDecides(L) ==
    \A m \in 1 .. Len(L) :
        (L[m].op \in {0, 1} /\ ~ Later(L, m, L[m].net))
            => (L[m].net \in Final(L) <=> L[m].op = 1)

NodeRight(n) ==
    up[n] => \A net \in Nets : \/ net \in unlogged[n] \/ net \in InFlight(n)
                               \/ Right(log, record[n], applied[n], net)

SnapRight(n) ==
    \A net \in Nets :
        net \in snap[n].unlogged \/ Right(log, snap[n].rec, snap[n].index, net)

AgreeInv == LastDecides(log) /\ \A n \in Nodes : NodeRight(n) /\ SnapRight(n)

IInv == TypeOK /\ SnapshotsBehind /\ AgreeInv

LEMMA InitAgree == Init => AgreeInv
  BY DEF Init, AgreeInv, LastDecides, NodeRight, SnapRight, Right, Final, NewSnapshot

\* Starting earlier can only add later entries.
LEMMA RightEarlier ==
  ASSUME NEW L \in Seq(Entry), NEW S, NEW net, NEW i \in Nat, NEW j \in Nat, i <= j,
         Right(L, S, j, net)
  PROVE  Right(L, S, i, net)
<1>1. Later(L, j, net) => Later(L, i, net)
  BY DEF Later
<1> QED
  BY <1>1 DEF Right

\* What a new entry does to the list of the log.
LEMMA FinalAppend ==
  ASSUME NEW L \in Seq(Entry), NEW e \in Entry, e.after = FsmApply(e.op, e.net, Final(L))
  PROVE  /\ Final(Append(L, e)) = e.after
         /\ \A net : ~ Changes(e, net) => (net \in e.after <=> net \in Final(L))
         /\ e.op \in {0, 1} => (e.net \in e.after <=> e.op = 1)
<1>1. Len(Append(L, e)) = Len(L) + 1 /\ Append(L, e)[Len(L) + 1] = e
  OBVIOUS
<1>2. Final(Append(L, e)) = e.after
  BY <1>1 DEF Final
<1>3. ASSUME NEW net, ~ Changes(e, net) PROVE net \in e.after <=> net \in Final(L)
  BY <1>3 DEF Changes, FsmApply
<1>4. e.op \in {0, 1} => (e.net \in e.after <=> e.op = 1)
  BY DEF FsmApply
<1> QED
  BY <1>2, <1>3, <1>4

LEMMA LaterAppend ==
  ASSUME NEW L \in Seq(Entry), NEW e \in Entry, NEW i \in 0 .. Len(L), NEW net
  PROVE  Later(Append(L, e), i, net) <=> (Later(L, i, net) \/ Changes(e, net))
<1>1. /\ Len(Append(L, e)) = Len(L) + 1 /\ Append(L, e)[Len(L) + 1] = e
      /\ \A m \in 1 .. Len(L) : Append(L, e)[m] = L[m]
  OBVIOUS
<1>2. Changes(e, net) => Later(Append(L, e), i, net)
  BY <1>1 DEF Later
<1>3. ASSUME Later(L, i, net) PROVE Later(Append(L, e), i, net)
  <2>1. PICK m \in (i + 1) .. Len(L) : Changes(L[m], net)
    BY <1>3 DEF Later
  <2>2. m \in (i + 1) .. Len(Append(L, e)) /\ Append(L, e)[m] = L[m]
    BY <1>1
  <2> QED
    BY <2>1, <2>2 DEF Later
<1>4. ASSUME Later(Append(L, e), i, net), ~ Changes(e, net) PROVE Later(L, i, net)
  <2>1. PICK m \in (i + 1) .. (Len(L) + 1) : Changes(Append(L, e)[m], net)
    BY <1>1, <1>4 DEF Later
  <2>2. m # Len(L) + 1
    BY <1>1, <1>4, <2>1
  <2>3. m \in (i + 1) .. Len(L) /\ Append(L, e)[m] = L[m]
    BY <1>1, <2>2
  <2> QED
    BY <2>1, <2>3 DEF Later
<1> QED
  BY <1>2, <1>3, <1>4

LEMMA RightAppend ==
  ASSUME NEW L \in Seq(Entry), NEW e \in Entry, e.after = FsmApply(e.op, e.net, Final(L)),
         NEW i \in 0 .. Len(L), NEW S, NEW net, Right(L, S, i, net)
  PROVE  Right(Append(L, e), S, i, net)
  BY FinalAppend, LaterAppend DEF Right

LEMMA LastDecidesAppend ==
  ASSUME NEW L \in Seq(Entry), NEW e \in Entry, e.after = FsmApply(e.op, e.net, Final(L)),
         LastDecides(L)
  PROVE  LastDecides(Append(L, e))
<1> DEFINE M == Append(L, e)
<1>1. /\ Len(M) = Len(L) + 1 /\ M[Len(L) + 1] = e
      /\ \A m \in 1 .. Len(L) : M[m] = L[m]
  OBVIOUS
<1> SUFFICES ASSUME NEW m \in 1 .. Len(M), M[m].op \in {0, 1}, ~ Later(M, m, M[m].net)
             PROVE  M[m].net \in Final(M) <=> M[m].op = 1
  BY DEF LastDecides
<1>2. CASE m = Len(L) + 1
  BY <1>1, <1>2, FinalAppend
<1>3. CASE m # Len(L) + 1
  <2>1. m \in 1 .. Len(L) /\ m \in 0 .. Len(L) /\ M[m] = L[m]
    BY <1>1, <1>3
  <2>2. ~ Later(L, m, L[m].net) /\ ~ Changes(e, L[m].net)
    BY <2>1, LaterAppend
  <2>3. L[m].net \in Final(L) <=> L[m].op = 1
    BY <2>1, <2>2 DEF LastDecides
  <2> QED
    BY <2>1, <2>2, <2>3, FinalAppend
<1> QED
  BY <1>2, <1>3

\* Applying the next entry to a list that is right so far.
LEMMA RightApply ==
  ASSUME NEW L \in Seq(Entry), LastDecides(L), NEW i \in 0 .. (Len(L) - 1),
         NEW S \in SUBSET Nets, NEW net,
         Right(L, S, i, net) \/ Changes(L[i + 1], net)
  PROVE  Right(L, FsmApply(L[i + 1].op, L[i + 1].net, S), i + 1, net)
<1> DEFINE e == L[i + 1]
<1>1. i + 1 \in 1 .. Len(L)
  OBVIOUS
<1>2. CASE Changes(e, net)
  <2>1. Later(L, i + 1, net) \/ (net \in Final(L) <=> e.op = 1)
    BY <1>1, <1>2 DEF LastDecides, Changes
  <2>2. net \in FsmApply(e.op, e.net, S) <=> e.op = 1
    BY <1>2 DEF Changes, FsmApply
  <2> QED
    BY <2>1, <2>2 DEF Right
<1>3. CASE ~ Changes(e, net)
  <2>1. net \in FsmApply(e.op, e.net, S) <=> net \in S
    BY <1>3 DEF Changes, FsmApply
  <2>2. ASSUME Later(L, i, net) PROVE Later(L, i + 1, net)
    <3>1. PICK m \in (i + 1) .. Len(L) : Changes(L[m], net)
      BY <2>2 DEF Later
    <3>2. m \in (i + 1 + 1) .. Len(L)
      BY <1>3, <3>1
    <3> QED
      BY <3>1, <3>2 DEF Later
  <2> QED
    BY <1>3, <2>1, <2>2 DEF Right
<1> QED
  BY <1>2, <1>3

LEMMA AgreeImplies == IInv => ListsAgree
<1> SUFFICES ASSUME IInv, NEW n \in Nodes, up[n], applied[n] = Len(log), InFlight(n) = {},
                    NEW net \in Nets \ unlogged[n]
             PROVE  net \in record[n] <=> net \in ListAt(Len(log))
  BY DEF ListsAgree
<1>1. ~ Later(log, applied[n], net)
  BY DEF Later, IInv, TypeOK
<1>2. Right(log, record[n], applied[n], net)
  BY DEF IInv, AgreeInv, NodeRight
<1> QED
  BY <1>1, <1>2 DEF Right, Final, ListAt
\* Steps of a handler: the network it changes is in flight until it is logged,
\* and from then on an entry of the log that every node still has to apply.
LEMMA HandlerAgree ==
  ASSUME IInv, NEW c \in Clients, HandlerStep(c)
  PROVE  AgreeInv'
<1> USE DEF IInv, AgreeInv
<1>0. h[c] \in Busy
  BY DEF TypeOK, HandlerStep, WriteLocal, WriteLog, WriteLogFails, Idle
<1>1. CASE WriteLocal(c)
  <2>1. log' = log /\ snap' = snap /\ applied' = applied /\ up' = up /\ unlogged' = unlogged
    BY <1>1 DEF WriteLocal
  <2>2. ASSUME NEW n \in Nodes PROVE NodeRight(n)'
    <3> SUFFICES ASSUME up[n], NEW net \in Nets, net \notin unlogged[n],
                        net \notin InFlight(n)'
                 PROVE  Right(log, record'[n], applied[n], net)
      BY <2>1 DEF NodeRight
    <3>1. net \notin InFlight(n)
      <4> SUFFICES ASSUME NEW d \in Clients, h[d].pc = "log", h[d].node = n, h[d].net = net
                   PROVE  FALSE
        BY DEF InFlight
      <4>1. d # c /\ h'[d] = h[d]
        BY <1>1 DEF WriteLocal, TypeOK
      <4> QED
        BY <4>1 DEF InFlight
    <3>2. Right(log, record[n], applied[n], net)
      BY <3>1 DEF NodeRight
    <3>3. net \in record'[n] <=> net \in record[n]
      <4>1. CASE h[c].node = n /\ h[c].net = net
        <5>1. h'[c].pc # "log"
          <6> SUFFICES ASSUME h'[c].pc = "log" PROVE FALSE
            OBVIOUS
          <6>1. h'[c] = [h[c] EXCEPT !.pc = "log"]
            BY <1>1 DEF WriteLocal, TypeOK, Idle
          <6>2. h'[c].node = n /\ h'[c].net = net
            BY <1>0, <4>1, <6>1 DEF Busy
          <6> QED
            BY <6>2 DEF InFlight
        <5>2. h[c].op = 0 /\ h[c].net \notin record[n]
          <6> SUFFICES ASSUME ~ (h[c].op = 0 /\ h[c].net \notin record[n])
                       PROVE  h'[c].pc = "log"
            BY <5>1
          <6>1. h'[c] = [h[c] EXCEPT !.pc = "log"]
            BY <1>1, <4>1 DEF WriteLocal, TypeOK
          <6> QED
            BY <1>0, <6>1 DEF Busy
        <5> QED
          BY <1>1, <4>1, <5>2 DEF WriteLocal, LocalApply, TypeOK
      <4>2. CASE ~ (h[c].node = n /\ h[c].net = net)
        BY <1>0, <1>1, <4>2 DEF WriteLocal, LocalApply, TypeOK, Busy
      <4> QED
        BY <4>1, <4>2
    <3> QED
      BY <3>2, <3>3 DEF Right
  <2>3. ASSUME NEW n \in Nodes PROVE SnapRight(n)'
    BY <2>1 DEF SnapRight
  <2> QED
    BY <2>1, <2>2, <2>3
<1>2. CASE WriteLog(c)
  <2> DEFINE after == FsmApply(h[c].op, h[c].net, ListAt(Len(log)))
             e == [op |-> h[c].op, net |-> h[c].net, after |-> after]
  <2>0. ListAt(Len(log)) = Final(log)
    BY DEF ListAt, Final
  <2>1. Len(log) \in 0 .. Len(log) /\ h[c].net \in Nets
    BY <1>0 DEF TypeOK, Busy
  <2>2. after \in SUBSET Nets
    BY <2>1, ListAtType, FsmApplyType
  <2>3. e \in Entry /\ e.after = FsmApply(e.op, e.net, Final(log))
    BY <1>0, <2>0, <2>2 DEF Busy, Entry
  <2>4. log' = Append(log, e)
    BY <1>2 DEF WriteLog
  <2>5. e.op = h[c].op /\ e.net = h[c].net
    OBVIOUS
  <2> HIDE DEF e
  <2>6. log \in Seq(Entry)
    BY DEF TypeOK
  <2>7. LastDecides(log')
    BY <2>3, <2>4, <2>6, LastDecidesAppend
  <2>8. ASSUME NEW n \in Nodes PROVE NodeRight(n)'
    <3> SUFFICES ASSUME up[n], NEW net \in Nets, net \notin unlogged'[n],
                        net \notin InFlight(n)'
                 PROVE  Right(log', record[n], applied[n], net)
      BY <1>2 DEF NodeRight, WriteLog
    <3>1. applied[n] \in 0 .. Len(log)
      BY DEF TypeOK
    <3>2. net \notin unlogged[n]
      BY <1>0, <1>2 DEF WriteLog, TypeOK, Busy
    <3>3. CASE h[c].node = n /\ h[c].net = net
      <4>1. h[c].op \in {0, 1}
        BY <1>2, <3>3 DEF WriteLog, TypeOK
      <4>2. Changes(e, net)
        BY <2>5, <3>3, <4>1 DEF Changes
      <4>3. Later(log', applied[n], net)
        BY <2>3, <2>4, <2>6, <3>1, <4>2, LaterAppend
      <4> QED
        BY <4>3 DEF Right
    <3>4. CASE ~ (h[c].node = n /\ h[c].net = net)
      <4>1. net \notin InFlight(n)
        <5> SUFFICES ASSUME NEW d \in Clients, h[d].pc = "log", h[d].node = n, h[d].net = net
                     PROVE  FALSE
          BY DEF InFlight
        <5>1. d # c /\ h'[d] = h[d]
          BY <1>2, <3>4 DEF WriteLog, TypeOK
        <5> QED
          BY <5>1 DEF InFlight
      <4>2. Right(log, record[n], applied[n], net)
        BY <3>2, <4>1 DEF NodeRight
      <4> QED
        BY <2>3, <2>4, <2>6, <3>1, <4>2, RightAppend
    <3> QED
      BY <3>3, <3>4
  <2>9. ASSUME NEW n \in Nodes PROVE SnapRight(n)'
    <3>1. snap[n].index \in 0 .. Len(log)
      BY DEF TypeOK, SnapshotsBehind
    <3>2. snap' = snap
      BY <1>2 DEF WriteLog
    <3> SUFFICES ASSUME NEW net \in Nets, Right(log, snap[n].rec, snap[n].index, net)
                 PROVE  Right(log', snap[n].rec, snap[n].index, net)
      BY <3>2 DEF SnapRight
    <3> QED
      BY <2>3, <2>4, <2>6, <3>1, RightAppend
  <2> QED
    BY <2>7, <2>8, <2>9
<1>3. CASE WriteLogFails(c)
  <2>1. log' = log /\ snap' = snap /\ applied' = applied /\ up' = up /\ record' = record
    BY <1>3 DEF WriteLogFails
  <2>2. ASSUME NEW n \in Nodes PROVE NodeRight(n)'
    <3> SUFFICES ASSUME up[n], NEW net \in Nets, net \notin unlogged'[n],
                        net \notin InFlight(n)'
                 PROVE  Right(log, record[n], applied[n], net)
      BY <2>1 DEF NodeRight
    <3>1. net \notin unlogged[n] /\ ~ (h[c].node = n /\ h[c].net = net)
      BY <1>0, <1>3 DEF WriteLogFails, TypeOK, Busy
    <3>2. net \notin InFlight(n)
      <4> SUFFICES ASSUME NEW d \in Clients, h[d].pc = "log", h[d].node = n, h[d].net = net
                   PROVE  FALSE
        BY DEF InFlight
      <4>1. d # c /\ h'[d] = h[d]
        BY <1>3, <3>1 DEF WriteLogFails, TypeOK
      <4> QED
        BY <4>1 DEF InFlight
    <3> QED
      BY <3>1, <3>2 DEF NodeRight
  <2>3. ASSUME NEW n \in Nodes PROVE SnapRight(n)'
    BY <2>1 DEF SnapRight
  <2> QED
    BY <2>1, <2>2, <2>3
<1> QED
  BY <1>1, <1>2, <1>3 DEF HandlerStep
\* A step that leaves the log, the lists and the handlers alone.
LEMMA SameAgree ==
  ASSUME AgreeInv, UNCHANGED <<log, snap, applied, up, record, unlogged>>,
         \A n \in Nodes : InFlight(n)' = InFlight(n)
  PROVE  AgreeInv'
  BY DEF AgreeInv, NodeRight, SnapRight

\* A list restored from a snapshot that is right is right.
LEMMA RestoreAgree ==
  ASSUME IInv, NEW n \in Nodes, NEW m \in Nodes, Restore(n, snap[m]),
         log' = log, snap' \in {snap, [snap EXCEPT ![n] = snap[m]]},
         \A k \in Nodes \ {n} : up'[k] = up[k] /\ InFlight(k)' = InFlight(k)
  PROVE  AgreeInv'
<1> USE DEF IInv, AgreeInv
<1>1. ASSUME NEW k \in Nodes PROVE NodeRight(k)'
  <2>1. CASE k = n
    <3>1. /\ record'[n] = snap[m].rec /\ applied'[n] = snap[m].index
          /\ unlogged'[n] = snap[m].unlogged
      BY DEF Restore, TypeOK
    <3> QED
      BY <2>1, <3>1 DEF NodeRight, SnapRight
  <2>2. CASE k # n
    <3>1. /\ record'[k] = record[k] /\ applied'[k] = applied[k]
          /\ unlogged'[k] = unlogged[k]
      BY <2>2 DEF Restore, TypeOK
    <3> QED
      BY <2>2, <3>1 DEF NodeRight
  <2> QED
    BY <2>1, <2>2
<1>2. ASSUME NEW k \in Nodes PROVE SnapRight(k)'
  <2>1. snap'[k] \in {snap[k], snap[m]}
    BY DEF TypeOK
  <2> QED
    BY <2>1 DEF SnapRight
<1> QED
  BY <1>1, <1>2

LEMMA NodeAgree ==
  ASSUME IInv, NEW n \in Nodes, NodeStep(n)
  PROVE  AgreeInv'
<1> USE DEF IInv, raftVars
<1>1. CASE Apply(n)
  <2> DEFINE e == log[applied[n] + 1]
             a == applied[n]
  <2>1. log \in Seq(Entry) /\ LastDecides(log) /\ a \in 0 .. (Len(log) - 1)
        /\ record[n] \in SUBSET Nets
    BY <1>1 DEF Apply, TypeOK, AgreeInv
  <2>2. log' = log /\ snap' = snap /\ up' = up /\ h' = h
    BY <1>1 DEF Apply
  <2>3. \A k \in Nodes : InFlight(k)' = InFlight(k)
    BY <2>2 DEF InFlight
  <2>4. ASSUME NEW k \in Nodes PROVE NodeRight(k)'
    <3>1. CASE k = n
      <4>1. record'[n] = FsmApply(e.op, e.net, record[n]) /\ applied'[n] = a + 1
        BY <1>1 DEF Apply, TypeOK
      <4> SUFFICES ASSUME NEW net \in Nets, net \notin unlogged'[n], net \notin InFlight(n)
                   PROVE  Right(log, record'[n], applied'[n], net)
        BY <2>2, <2>3, <3>1 DEF NodeRight
      <4>2. Right(log, record[n], a, net) \/ Changes(e, net)
        <5>1. net \notin unlogged[n] \/ Changes(e, net)
          BY <1>1 DEF Apply, TypeOK, Changes
        <5> QED
          BY <1>1, <5>1 DEF AgreeInv, NodeRight, Apply
      <4>3. Right(log, FsmApply(e.op, e.net, record[n]), a + 1, net)
        BY <2>1, <4>2, RightApply
      <4> QED
        BY <4>1, <4>3
    <3>2. CASE k # n
      <4>1. /\ record'[k] = record[k] /\ applied'[k] = applied[k]
            /\ unlogged'[k] = unlogged[k]
        BY <1>1, <3>2 DEF Apply, TypeOK
      <4> QED
        BY <2>2, <2>3, <4>1 DEF AgreeInv, NodeRight
    <3> QED
      BY <3>1, <3>2
  <2> QED
    BY <2>2, <2>4 DEF AgreeInv, SnapRight
<1>2. CASE Snapshot(n)
  <2>1. \A k \in Nodes : InFlight(k)' = InFlight(k)
    BY <1>2 DEF Snapshot, InFlight
  <2> QED
    BY <1>2, <2>1, SameAgree DEF Snapshot
<1>3. CASE Persist(n)
  <2>1. UNCHANGED <<log, applied, up, record, unlogged, h>>
    BY <1>3 DEF Persist
  <2>2. \A k \in Nodes : InFlight(k)' = InFlight(k)
    BY <2>1 DEF InFlight
  <2>3. ASSUME NEW k \in Nodes PROVE SnapRight(k)'
    <3>1. CASE k = n
      <4>1. /\ snap'[n].index = pend[n] /\ snap'[n].rec = record[n]
            /\ snap'[n].unlogged = unlogged[n] \cup InFlight(n)
        BY <1>3 DEF Persist, TypeOK
      <4>2. pend[n] \in Nat /\ applied[n] \in Nat /\ pend[n] <= applied[n]
            /\ log \in Seq(Entry)
        BY <1>3 DEF Persist, TypeOK, SnapshotsBehind
      <4> SUFFICES ASSUME NEW net \in Nets, net \notin unlogged[n], net \notin InFlight(n)
                   PROVE  Right(log, record[n], pend[n], net)
        BY <2>1, <3>1, <4>1 DEF SnapRight
      <4>3. Right(log, record[n], applied[n], net)
        BY <1>3 DEF Persist, AgreeInv, NodeRight
      <4> QED
        BY <4>2, <4>3, RightEarlier
    <3>2. CASE k # n
      <4>1. snap'[k] = snap[k]
        BY <1>3, <3>2 DEF Persist, TypeOK
      <4> QED
        BY <2>1, <4>1 DEF AgreeInv, SnapRight
    <3> QED
      BY <3>1, <3>2
  <2> QED
    BY <2>1, <2>2, <2>3 DEF AgreeInv, NodeRight
<1>4. CASE InstallSnapshot(n)
  <2>1. leader \in Nodes /\ up' = up /\ h' = h /\ log' = log
        /\ snap' = [snap EXCEPT ![n] = snap[leader]] /\ Restore(n, snap[leader])
    BY <1>4 DEF InstallSnapshot
  <2>2. \A k \in Nodes : InFlight(k)' = InFlight(k)
    BY <2>1 DEF InFlight
  <2> QED
    BY <2>1, <2>2, RestoreAgree
<1>5. CASE Crash(n)
  <2>1. log' = log /\ snap' = snap /\ applied' = applied
    BY <1>5 DEF Crash
  <2>2. ASSUME NEW k \in Nodes PROVE NodeRight(k)'
    <3>1. CASE k = n
      BY <1>5, <3>1 DEF Crash, NodeRight, TypeOK
    <3>2. CASE k # n
      <4>1. up'[k] = up[k] /\ record'[k] = record[k] /\ unlogged'[k] = unlogged[k]
        BY <1>5, <3>2 DEF Crash, TypeOK
      <4>2. InFlight(k) \subseteq InFlight(k)'
        BY <1>5, <3>2 DEF Crash, InFlight, TypeOK
      <4> QED
        BY <2>1, <4>1, <4>2 DEF AgreeInv, NodeRight
    <3> QED
      BY <3>1, <3>2
  <2> QED
    BY <2>1, <2>2 DEF AgreeInv, SnapRight
<1>6. CASE Restart(n)
  <2>1. h' = h /\ log' = log /\ snap' = snap /\ Restore(n, snap[n])
        /\ \A k \in Nodes \ {n} : up'[k] = up[k]
    BY <1>6 DEF Restart, TypeOK
  <2>2. \A k \in Nodes : InFlight(k)' = InFlight(k)
    BY <2>1 DEF InFlight
  <2> QED
    BY <2>1, <2>2, RestoreAgree
<1>7. CASE Elect(n) \/ StepDown(n) \/ WatchLeader(n)
  <2>1. UNCHANGED <<log, snap, applied, up, record, unlogged, h>>
    BY <1>7 DEF Elect, StepDown, WatchLeader
  <2>2. \A k \in Nodes : InFlight(k)' = InFlight(k)
    BY <2>1 DEF InFlight
  <2> QED
    BY <2>1, <2>2, SameAgree
<1> QED
  BY <1>1, <1>2, <1>3, <1>4, <1>5, <1>6, <1>7 DEF NodeStep

LEMMA NextAgree == IInv /\ [Next]_vars => AgreeInv'
<1> SUFFICES ASSUME IInv, [Next]_vars PROVE AgreeInv'
  OBVIOUS
<1>1. ASSUME NEW c \in Clients, NEW n \in Nodes, NEW op \in Patterns, NEW net \in Nets,
             Request(c, n, op, net)
      PROVE  AgreeInv'
  <2>1. UNCHANGED <<log, snap, applied, up, record, unlogged>>
    BY <1>1 DEF Request
  <2>2. ASSUME NEW d \in Clients
        PROVE  /\ h'[d].pc = "log" <=> h[d].pc = "log"
               /\ h'[d].pc = "log" => h'[d] = h[d]
    <3>1. CASE d = c
      <4>1. h'[d].pc = "local"
        BY <1>1, <3>1 DEF Request, IInv, TypeOK
      <4> QED
        BY <1>1, <3>1, <4>1 DEF Request
    <3>2. CASE d # c
      BY <1>1, <3>2 DEF Request, IInv, TypeOK
    <3> QED
      BY <3>1, <3>2
  <2>3. \A k \in Nodes : InFlight(k)' = InFlight(k)
    BY <2>2 DEF InFlight
  <2> QED
    BY <2>1, <2>3, SameAgree DEF IInv
<1>2. CASE UNCHANGED vars
  <2>1. \A k \in Nodes : InFlight(k)' = InFlight(k)
    BY <1>2 DEF vars, InFlight
  <2> QED
    BY <1>2, <2>1, SameAgree DEF vars, IInv
<1> QED
  BY <1>1, <1>2, HandlerAgree, NodeAgree DEF Next

\* The lists agree: a node that has applied the whole log and has no handler
\* between doHandleAcl's local change and its writeLogEntry lists the networks
\* of the log, apart from those whose local change was never logged.
THEOREM Agreement == Spec => []ListsAgree
<1>1. Init => IInv
  BY InitTypeOK, InitAgree DEF Init, IInv, SnapshotsBehind, NewSnapshot
<1>2. IInv /\ [Next]_vars => IInv'
  BY NextTypeOK, BehindStep, NextAgree DEF IInv
<1> QED
  BY <1>1, <1>2, AgreeImplies, PTL DEF Spec

-----------------------------------------------------------------------------
(***************************************************************************)
(* The write API.  The last notification that is still to be read, or the  *)
(* flag when there is none, says TRUE only on the leader.                  *)
(***************************************************************************)
Told(n) == IF notify[n] = <<>> THEN flag[n] /\ n \notin ConfLeaders
                               ELSE notify[n][Len(notify[n])]

WriteInv == \A n \in Nodes : Told(n) => leader = n
LEMMA LastOfAppend ==
  ASSUME NEW B, NEW q \in Seq(B), NEW x \in B
  PROVE  Append(q, x) # <<>> /\ Append(q, x)[Len(Append(q, x))] = x
  BY AppendProperties

LEMMA LastIsFalse ==
  ASSUME NEW q \in Seq(BOOLEAN)
  PROVE  Append(q, FALSE) # <<>> /\ ~ Append(q, FALSE)[Len(Append(q, FALSE))]
<1>1. \A x \in BOOLEAN : Append(q, x) # <<>> /\ Append(q, x)[Len(Append(q, x))] = x
  BY LastOfAppend
<1>2. FALSE \in BOOLEAN
  OBVIOUS
<1>3. Append(q, FALSE) # <<>> /\ Append(q, FALSE)[Len(Append(q, FALSE))] = FALSE
  BY <1>1, <1>2, Zenon
<1> QED
  BY <1>3, Zenon

LEMMA LastOfTail ==
  ASSUME NEW B, NEW q \in Seq(B), q # <<>>
  PROVE  IF Len(q) = 1 THEN Tail(q) = <<>> /\ Head(q) = q[Len(q)]
         ELSE Tail(q) # <<>> /\ Tail(q)[Len(Tail(q))] = q[Len(q)]
<1>1. Len(q) \in Nat \ {0} /\ Tail(q) \in Seq(B) /\ Len(Tail(q)) = Len(q) - 1
      /\ Head(q) = q[1]
  OBVIOUS
<1>2. CASE Len(q) = 1
  <2>1. Len(Tail(q)) = 0
    BY <1>1, <1>2
  <2>2. Tail(q) = <<>>
    BY <1>1, <2>1, EmptySeq
  <2> QED
    BY <1>1, <1>2, <2>2
<1>3. CASE Len(q) # 1
  <2>1. Len(q) - 1 \in 1 .. (Len(q) - 1)
    BY <1>1, <1>3
  <2>2. Tail(q)[Len(q) - 1] = q[Len(q) - 1 + 1]
    BY <1>1, <2>1
  <2>3. Len(Tail(q)) # 0 /\ Len(<<>>) = 0
    BY <1>1, <1>3
  <2>4. Tail(q) # <<>>
    BY <2>3, Zenon
  <2> QED
    BY <1>1, <1>3, <2>2, <2>4
<1> QED
  BY <1>2, <1>3

LEMMA WriteStep == TypeOK /\ WriteInv /\ [Next]_vars => WriteInv'
<1> SUFFICES ASSUME TypeOK, WriteInv, [Next]_vars PROVE WriteInv'
  OBVIOUS
<1>1. CASE UNCHANGED <<leader, flag, notify>>
  BY <1>1 DEF WriteInv, Told
<1>2. ASSUME NEW n \in Nodes, Elect(n) PROVE WriteInv'
  <2> SUFFICES ASSUME NEW m \in Nodes, m # n PROVE ~ Told(m)'
    BY <1>2 DEF WriteInv, Elect
  <2>1. CASE m = leader
    <3>1. notify'[m] = Append(notify[m], FALSE)
      BY <1>2, <2>1 DEF Elect, TypeOK
    <3>2. notify[m] \in Seq(BOOLEAN)
      BY DEF TypeOK
    <3>3. notify'[m] # <<>> /\ ~ notify'[m][Len(notify'[m])]
      BY <3>1, <3>2, LastIsFalse, Zenon
    <3> QED
      BY <3>3 DEF Told
  <2>2. CASE m # leader
    <3>1. notify'[m] = notify[m] /\ flag' = flag
      BY <1>2, <2>2 DEF Elect, TypeOK
    <3>2. ~ Told(m)
      BY <2>2 DEF WriteInv
    <3> QED
      BY <3>1, <3>2 DEF Told
  <2> QED
    BY <2>1, <2>2
<1>3. ASSUME NEW n \in Nodes, StepDown(n) PROVE WriteInv'
  <2> SUFFICES ASSUME NEW m \in Nodes PROVE ~ Told(m)'
    BY DEF WriteInv
  <2>1. CASE m = n
    <3>1. notify'[m] = Append(notify[m], FALSE) /\ notify[m] \in Seq(BOOLEAN)
      BY <1>3, <2>1 DEF StepDown, TypeOK
    <3>2. notify'[m] # <<>> /\ ~ notify'[m][Len(notify'[m])]
      BY <3>1, LastIsFalse, Zenon
    <3> QED
      BY <3>2 DEF Told
  <2>2. CASE m # n
    <3>1. notify'[m] = notify[m] /\ flag' = flag
      BY <1>3, <2>2 DEF StepDown, TypeOK
    <3>2. ~ Told(m)
      BY <1>3, <2>2 DEF WriteInv, StepDown
    <3> QED
      BY <3>1, <3>2 DEF Told
  <2> QED
    BY <2>1, <2>2
<1>4. ASSUME NEW n \in Nodes, WatchLeader(n) PROVE WriteInv'
  <2> SUFFICES ASSUME NEW m \in Nodes, Told(m)' PROVE Told(m)
    BY <1>4 DEF WriteInv, WatchLeader
  <2>1. CASE m = n
    <3> DEFINE q == notify[n]
    <3>1. q \in Seq(BOOLEAN) /\ q # <<>> /\ notify'[n] = Tail(q)
          /\ flag'[n] = (Head(q) \/ n \in ConfLeaders)
      BY <1>4 DEF WatchLeader, TypeOK
    <3> HIDE DEF q
    <3>2. CASE Len(q) = 1
      <4>1. Tail(q) = <<>> /\ Head(q) = q[Len(q)]
        BY <3>1, <3>2, LastOfTail, Zenon
      <4>2. flag'[n] /\ n \notin ConfLeaders
        BY <2>1, <3>1, <4>1 DEF Told
      <4> QED
        BY <2>1, <3>1, <4>1, <4>2 DEF Told, q
    <3>3. CASE Len(q) # 1
      <4>1. Tail(q) # <<>> /\ Tail(q)[Len(Tail(q))] = q[Len(q)]
        BY <3>1, <3>3, LastOfTail, Zenon
      <4> QED
        BY <2>1, <3>1, <4>1 DEF Told, q
    <3> QED
      BY <3>2, <3>3
  <2>2. CASE m # n
    BY <1>4, <2>2 DEF WatchLeader, TypeOK, Told
  <2> QED
    BY <2>1, <2>2
<1>5. ASSUME NEW n \in Nodes, Crash(n) PROVE WriteInv'
  <2> SUFFICES ASSUME NEW m \in Nodes, Told(m)' PROVE leader' = m
    BY DEF WriteInv
  <2>1. m # n
    BY <1>5 DEF Crash, Told, TypeOK
  <2>2. Told(m)
    BY <1>5, <2>1 DEF Crash, Told, TypeOK
  <2> QED
    BY <1>5, <2>1, <2>2 DEF Crash, WriteInv
<1>6. ASSUME NEW n \in Nodes, NodeStep(n) PROVE WriteInv'
  BY <1>1, <1>2, <1>3, <1>4, <1>5, <1>6
     DEF NodeStep, Apply, Snapshot, Persist, InstallSnapshot, Restart, raftVars
<1>7. ASSUME NEW c \in Clients, HandlerStep(c) PROVE WriteInv'
  BY <1>1, <1>7 DEF HandlerStep, WriteLocal, WriteLog, WriteLogFails, raftVars
<1>8. ASSUME NEW c \in Clients, NEW n \in Nodes, NEW op \in Patterns, NEW net \in Nets,
             Request(c, n, op, net)
      PROVE  WriteInv'
  BY <1>1, <1>8 DEF Request, raftVars
<1> QED
  BY <1>1, <1>6, <1>7, <1>8 DEF Next, vars, raftVars

\* Once the goroutine that watches leaderNotifych has read all there is, a node
\* not configured as the leader accepts writes only if it is the raft leader.
THEOREM OnlyLeaderWrites == Spec => []FollowersRefuseWrites
<1>1. Init => WriteInv
  BY DEF Init, WriteInv, Told
<1>2. WriteInv => FollowersRefuseWrites
  BY DEF WriteInv, Told, FollowersRefuseWrites
<1> QED
  BY <1>1, <1>2, TypeCorrect, WriteStep, PTL DEF Spec
=============================================================================
