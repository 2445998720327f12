----------------------- MODULE ConsistenceHashProofs -----------------------
(***************************************************************************)
(* Proofs about ConsistenceHash, for every placement of the replicas on a  *)
(* ring of any size, any hosts and any number of copies of them.           *)
(*                                                                         *)
(* The ring is a sorted list in which a key may occur more than once.  The *)
(* proofs count keys by what SearchInts finds: between the first key that  *)
(* is at least x and the first that is greater lie the copies of x.  Add   *)
(* and Remove are loops over the replicas; what they do is proved by       *)
(* induction over the replica's number.                                    *)
(***************************************************************************)
EXTENDS ConsistenceHash, Integers, SequenceTheorems, WellFoundedInduction, TLAPS

-----------------------------------------------------------------------------
(***************************************************************************)
(* Induction over numbers, with sets in the place of predicates.           *)
(***************************************************************************)
\* The least-number principle, by the well-foundedness of < on Nat.
LEMMA LeastElement ==
    ASSUME NEW T \in SUBSET Nat, T # {}
    PROVE  \E m \in T : \A k \in T : m <= k
<1> DEFINE R == {x \in Nat \X Nat : x[1] < x[2]}
<1>1. IsWellFoundedOn(R, Nat)
  BY NatLessThanWellFounded DEF OpToRel
<1>2. \E m \in T : \A k \in T : ~(<<k, m>> \in R)
  <2> HIDE DEF R
  <2> QED
    BY <1>1, WFMin
<1>3. ASSUME NEW m \in T, NEW k \in T, ~(<<k, m>> \in R) PROVE m <= k
  <2>1. m \in Nat /\ k \in Nat /\ ~(k < m)
    BY <1>3
  <2> QED
    BY <2>1
<1> QED
  BY <1>2, <1>3

\* A set of numbers up to n that has 0 and the successors of its elements.
LEMMA UpTo ==
    ASSUME NEW n \in Nat, NEW T, 0 \in T, \A i \in 0 .. (n - 1) : i \in T => i + 1 \in T
    PROVE  \A i \in 0 .. n : i \in T
<1> DEFINE B == {i \in 0 .. n : i \notin T}
<1>1. ASSUME B # {} PROVE FALSE
  <2>1. B \in SUBSET Nat
    OBVIOUS
  <2>2. PICK m \in B : \A k \in B : m <= k
    <3> HIDE DEF B
    <3> QED
      BY <1>1, <2>1, LeastElement
  <2>3. m \in 0 .. n /\ m \notin T /\ m # 0
    BY <2>2
  <2>4. m - 1 \in 0 .. (n - 1) /\ m - 1 \notin B
    BY <2>2, <2>3
  <2>5. m - 1 \in T
    BY <2>4
  <2>6. (m - 1) + 1 \in T /\ (m - 1) + 1 = m
    BY <2>3, <2>4, <2>5
  <2> QED
    BY <2>3, <2>6
<1> QED
  BY <1>1

\* A loop of n steps: F[i] is the i-th.
Loops(S, n) == [1 .. n -> [S -> S]]

LEMMA LoopExists ==
    ASSUME NEW S, NEW b \in S, NEW n \in Nat, NEW F \in Loops(S, n)
    PROVE  \E f \in [0 .. n -> S] : f[0] = b /\ \A i \in 1 .. n : f[i] = F[i][f[i - 1]]
<1> USE DEF Loops
<1> DEFINE Loop(m, f) == f[0] = b /\ \A i \in 1 .. m : f[i] = F[i][f[i - 1]]
           T == {m \in 0 .. n : \E f \in [0 .. m -> S] : Loop(m, f)}
<1>1. 0 \in T
  <2> DEFINE f == [i \in 0 .. 0 |-> b]
  <2>1. f \in [0 .. 0 -> S] /\ Loop(0, f)
    OBVIOUS
  <2> HIDE DEF f
  <2> QED
    BY <2>1
<1>2. ASSUME NEW m \in 0 .. (n - 1), m \in T PROVE m + 1 \in T
  <2>1. PICK f \in [0 .. m -> S] : Loop(m, f)
    BY <1>2
  <2> DEFINE g == [i \in 0 .. (m + 1) |-> IF i <= m THEN f[i] ELSE F[m + 1][f[m]]]
  <2>2. m + 1 \in 1 .. n /\ m \in 0 .. m /\ f[m] \in S
    BY <1>2
  <2>3. F[m + 1][f[m]] \in S
    BY <2>2
  <2>4. g \in [0 .. (m + 1) -> S]
    BY <2>3
  <2>5. ASSUME NEW i \in 1 .. (m + 1)
        PROVE  g[i] = F[i][g[i - 1]]
    <3>1. CASE i \in 1 .. m
      <4>1. i \in 0 .. m /\ i - 1 \in 0 .. m
        BY <3>1
      <4>2. f[i] = F[i][f[i - 1]]
        BY <2>1, <3>1
      <4>3. g[i] = f[i] /\ g[i - 1] = f[i - 1]
        BY <3>1, <4>1
      <4> QED
        BY <4>1, <4>2, <4>3
    <3>2. CASE i = m + 1
      <4>1. g[i] = F[m + 1][f[m]] /\ g[m] = f[m] /\ i - 1 = m
        BY <3>2
      <4> QED
        BY <3>2, <4>1
    <3> QED
      BY <3>1, <3>2
  <2>8. g[0] = b
    BY <2>1
  <2> HIDE DEF g
  <2>6. Loop(m + 1, g)
    BY <2>5, <2>8
  <2>7. m + 1 \in 0 .. n
    BY <1>2
  <2> QED
    BY <2>4, <2>6, <2>7
<1>3. n \in T
  <2>1. \A i \in 0 .. (n - 1) : i \in T => i + 1 \in T
    BY <1>2
  <2> HIDE DEF T
  <2>2. \A i \in 0 .. n : i \in T
    BY <1>1, <2>1, UpTo
  <2> QED
    BY <2>2
<1> QED
  BY <1>3

-----------------------------------------------------------------------------
(***************************************************************************)
(* Sorted lists.                                                           *)
(***************************************************************************)
Ordered(s) == \A i, j \in 1 .. Len(s) : i <= j => s[i] <= s[j]

\* How often x is in a sorted list s.
Count(s, x) == SearchInts(s, x + 1) - SearchInts(s, x)

LEMMA SearchIntsFinds ==
    ASSUME NEW s \in Seq(Nat), NEW x \in Nat
    PROVE  /\ SearchInts(s, x) \in 1 .. (Len(s) + 1)
           /\ \A j \in 1 .. (SearchInts(s, x) - 1) : s[j] < x
           /\ SearchInts(s, x) = Len(s) + 1 \/ s[SearchInts(s, x)] >= x
<1> DEFINE n == Len(s)
           T == {i \in 1 .. (n + 1) : i = n + 1 \/ s[i] >= x}
           First(i) == /\ \A j \in 1 .. (i - 1) : s[j] < x
                       /\ i = n + 1 \/ s[i] >= x
<1>1. n \in Nat /\ \A i \in 1 .. n : s[i] \in Nat
  OBVIOUS
<1>2. T \in SUBSET Nat /\ T # {}
  <2>1. n + 1 \in T
    BY <1>1
  <2> QED
    BY <1>1, <2>1
<1>3. PICK m \in T : \A k \in T : m <= k
  <2> HIDE DEF T
  <2> QED
    BY <1>2, LeastElement
<1>4. m \in 1 .. (n + 1) /\ First(m)
  <2>1. ASSUME NEW j \in 1 .. (m - 1) PROVE s[j] < x
    <3>1. m \in 1 .. (n + 1)
      BY <1>3
    <3>2. j \in 1 .. n /\ ~(m <= j)
      BY <1>1, <3>1
    <3>3. j \notin T
      BY <1>3, <3>2
    <3>4. ~(s[j] >= x) /\ s[j] \in Nat
      BY <1>1, <3>2, <3>3
    <3> QED
      BY <3>4
  <2> QED
    BY <1>3, <2>1
<1>5. SearchInts(s, x) = CHOOSE i \in 1 .. (n + 1) : First(i)
  BY DEF SearchInts
<1> DEFINE at == SearchInts(s, x)
<1>6. at \in 1 .. (n + 1) /\ First(at)
  BY <1>4, <1>5
<1> QED
  BY <1>6

\* From there on the keys are at least x, and there is no other such place.
LEMMA SearchIntsSplits ==
    ASSUME NEW s \in Seq(Nat), Ordered(s), NEW x \in Nat
    PROVE  /\ \A j \in 1 .. Len(s) : j < SearchInts(s, x) <=> s[j] < x
           /\ \A i \in 1 .. (Len(s) + 1) :
                 (\A j \in 1 .. Len(s) : j < i <=> s[j] < x) => SearchInts(s, x) = i
<1> DEFINE at == SearchInts(s, x)
           n == Len(s)
<1>1. /\ at \in 1 .. (n + 1) /\ \A j \in 1 .. (at - 1) : s[j] < x
      /\ at = n + 1 \/ s[at] >= x
  BY SearchIntsFinds
<1>2. n \in Nat /\ \A i \in 1 .. n : s[i] \in Nat
  OBVIOUS
<1> HIDE DEF at
<1>3. ASSUME NEW j \in 1 .. n PROVE j < at <=> s[j] < x
  <2>1. CASE j < at
    <3>1. j \in 1 .. (at - 1)
      BY <1>1, <1>2, <2>1
    <3> QED
      BY <1>1, <2>1, <3>1
  <2>2. CASE ~(j < at)
    <3>1. at \in 1 .. n /\ at <= j
      BY <1>1, <1>2, <2>2
    <3>2. s[at] <= s[j] /\ s[at] >= x /\ s[at] \in Nat /\ s[j] \in Nat
      BY <1>1, <1>2, <3>1 DEF Ordered
    <3>3. ~(s[j] < x)
      BY <3>2
    <3> QED
      BY <2>2, <3>3
  <2> QED
    BY <2>1, <2>2
<1>4. ASSUME NEW i \in 1 .. (n + 1), \A j \in 1 .. n : j < i <=> s[j] < x PROVE at = i
  <2>1. ASSUME at < i PROVE FALSE
    <3>1. at \in 1 .. n
      BY <1>1, <1>2, <2>1
    <3> QED
      BY <1>3, <1>4, <2>1, <3>1
  <2>2. ASSUME i < at PROVE FALSE
    <3>1. i \in 1 .. n
      BY <1>1, <1>2, <2>2
    <3> QED
      BY <1>3, <1>4, <2>2, <3>1
  <2> QED
    BY <1>1, <1>2, <2>1, <2>2
<1> QED
  BY <1>3, <1>4 DEF at

\* Keys that are counted are there, and no others.
LEMMA CountedIsThere ==
    ASSUME NEW s \in Seq(Nat), Ordered(s), NEW x \in Nat
    PROVE  /\ Count(s, x) \in Nat
           /\ Count(s, x) > 0 <=> x \in Range(s)
           /\ Count(s, x) > 0 => SearchInts(s, x) \in 1 .. Len(s) /\ s[SearchInts(s, x)] = x
<1> DEFINE a == SearchInts(s, x)
           b == SearchInts(s, x + 1)
           n == Len(s)
<1>1. /\ a \in 1 .. (n + 1) /\ b \in 1 .. (n + 1)
      /\ \A j \in 1 .. n : j < a <=> s[j] < x
      /\ \A j \in 1 .. n : j < b <=> s[j] < x + 1
  <2>1. x + 1 \in Nat
    OBVIOUS
  <2>2. a \in 1 .. (n + 1) /\ \A j \in 1 .. n : j < a <=> s[j] < x
    BY SearchIntsFinds, SearchIntsSplits
  <2>3. b \in 1 .. (n + 1) /\ \A j \in 1 .. n : j < b <=> s[j] < x + 1
    <3> DEFINE y == x + 1
    <3>1. y \in Nat
      OBVIOUS
    <3> HIDE DEF y
    <3>2. SearchInts(s, y) \in 1 .. (n + 1) /\ \A j \in 1 .. n : j < SearchInts(s, y) <=> s[j] < y
      BY <3>1, SearchIntsFinds, SearchIntsSplits
    <3> QED
      BY <3>2 DEF y
  <2> QED
    BY <2>2, <2>3
<1>2. n \in Nat /\ \A i \in 1 .. n : s[i] \in Nat
  OBVIOUS
<1>3. Count(s, x) = b - a
  BY DEF Count
<1> HIDE DEF a, b
<1>4. a <= b
  <2>1. ASSUME b < a PROVE FALSE
    <3>1. b \in 1 .. n
      BY <1>1, <1>2, <2>1
    <3>2. s[b] < x /\ ~(s[b] < x + 1) /\ s[b] \in Nat
      BY <1>1, <1>2, <2>1, <3>1
    <3> QED
      BY <3>2
  <2> QED
    BY <1>1, <2>1
<1>5. ASSUME a < b PROVE a \in 1 .. n /\ s[a] = x
  <2>1. a \in 1 .. n
    BY <1>1, <1>2, <1>5
  <2>2. ~(s[a] < x) /\ s[a] < x + 1 /\ s[a] \in Nat
    BY <1>1, <1>2, <1>5, <2>1
  <2> QED
    BY <2>1, <2>2
<1>6. ASSUME NEW j \in 1 .. n, s[j] = x PROVE a < b
  <2>1. ~(j < a) /\ j < b
    BY <1>1, <1>6
  <2> QED
    BY <1>1, <1>2, <2>1
<1>7. x \in Range(s) <=> \E j \in 1 .. n : s[j] = x
  BY DEF Range
<1>8. Count(s, x) \in Nat /\ (Count(s, x) > 0 <=> a < b)
  BY <1>1, <1>3, <1>4
<1> QED
  BY <1>5, <1>6, <1>7, <1>8 DEF a

\* A list whose places are shifted by one from that of a key x on, counts x
\* once more, or once less.
LEMMA CountShifted ==
    ASSUME NEW s \in Seq(Nat), NEW t \in Seq(Nat), NEW x \in Nat, NEW d \in {-1, 1},
           \A y \in Nat : SearchInts(t, y) = SearchInts(s, y) + (IF x < y THEN d ELSE 0)
    PROVE  \A y \in Nat : Count(t, y) = Count(s, y) + (IF x = y THEN d ELSE 0)
<1> TAKE y \in Nat
<1> DEFINE z == y + 1
<1>1. z \in Nat /\ (x < z <=> x < y \/ x = y)
  OBVIOUS
<1>2. Count(t, y) = SearchInts(t, z) - SearchInts(t, y) /\ Count(s, y) = SearchInts(s, z) - SearchInts(s, y)
  BY DEF Count
<1> HIDE DEF z
<1>3. /\ SearchInts(t, y) = SearchInts(s, y) + (IF x < y THEN d ELSE 0)
      /\ SearchInts(t, z) = SearchInts(s, z) + (IF x < z THEN d ELSE 0)
  BY <1>1
<1>4. SearchInts(s, y) \in Int /\ SearchInts(s, z) \in Int
  <2>1. SearchInts(s, y) \in 1 .. (Len(s) + 1) /\ SearchInts(s, z) \in 1 .. (Len(s) + 1)
    BY <1>1, SearchIntsFinds
  <2> QED
    BY <2>1
<1> QED
  BY <1>1, <1>2, <1>3, <1>4

InsertAt(s, i, x) == SubSeq(s, 1, i - 1) \o <<x>> \o SubSeq(s, i, Len(s))

\* The elements of a list into which one was put, or from which one was taken.
LEMMA InsertElements ==
    ASSUME NEW S, NEW s \in Seq(S), NEW x \in S, NEW i \in 1 .. (Len(s) + 1)
    PROVE  /\ InsertAt(s, i, x) \in Seq(S)
           /\ Len(InsertAt(s, i, x)) = Len(s) + 1
           /\ \A j \in 1 .. (Len(s) + 1) :
                 InsertAt(s, i, x)[j] = IF j < i THEN s[j] ELSE IF j = i THEN x ELSE s[j - 1]
<1> DEFINE n == Len(s)
           a == SubSeq(s, 1, i - 1)
           b == SubSeq(s, i, n)
           ax == a \o <<x>>
           t == ax \o b
<1>0. n \in Nat /\ i \in 1 .. (n + 1)
  OBVIOUS
<1>1. a \in Seq(S) /\ Len(a) = i - 1 /\ \A j \in 1 .. (i - 1) : a[j] = s[j]
  <2>1. \A j \in 1 .. (i - 1) : s[j] \in S
    BY <1>0
  <2>2. i - 1 <= n
    BY <1>0
  <2> QED
    BY <1>0, <2>1, <2>2
<1>2. b \in Seq(S) /\ Len(b) = n + 1 - i /\ \A j \in 1 .. (n + 1 - i) : b[j] = s[i + j - 1]
  BY <1>0
<1> HIDE DEF a, b, n
<1>3. /\ ax \in Seq(S) /\ Len(ax) = i
      /\ \A j \in 1 .. i : ax[j] = IF j < i THEN s[j] ELSE x
  BY <1>0, <1>1
<1> HIDE DEF ax
<1>4. t \in Seq(S) /\ Len(t) = n + 1
      /\ \A j \in 1 .. (n + 1) : t[j] = IF j <= i THEN ax[j] ELSE b[j - i]
  BY <1>0, <1>2, <1>3
<1> HIDE DEF t
<1>5. ASSUME NEW j \in 1 .. (n + 1)
      PROVE  t[j] = IF j < i THEN s[j] ELSE IF j = i THEN x ELSE s[j - 1]
  <2>1. CASE j <= i
    <3>1. j \in 1 .. i
      BY <1>0, <2>1
    <3> QED
      BY <1>0, <1>3, <1>4, <2>1, <3>1
  <2>2. CASE ~(j <= i)
    <3>1. j - i \in 1 .. (n + 1 - i) /\ i + (j - i) - 1 = j - 1
      BY <1>0, <2>2
    <3>2. t[j] = b[j - i]
      BY <1>4, <2>2
    <3>3. b[j - i] = s[i + (j - i) - 1]
      BY <1>2, <3>1
    <3> QED
      BY <1>0, <2>2, <3>1, <3>2, <3>3
  <2> QED
    BY <2>1, <2>2
<1>6. t \in Seq(S) /\ Len(t) = n + 1
  BY <1>4
<1> QED
  BY <1>5, <1>6 DEF t, ax, a, b, n, InsertAt

LEMMA DropElements ==
    ASSUME NEW S, NEW s \in Seq(S), NEW i \in 1 .. Len(s)
    PROVE  LET t == DropAt(s, i)
           IN  /\ t \in Seq(S) /\ Len(t) = Len(s) - 1
               /\ \A j \in 1 .. (Len(s) - 1) : t[j] = IF j < i THEN s[j] ELSE s[j + 1]
<1> DEFINE n == Len(s)
           a == SubSeq(s, 1, i - 1)
           b == SubSeq(s, i + 1, n)
           t == a \o b
<1>0. n \in Nat /\ i \in 1 .. n
  OBVIOUS
<1>1. a \in Seq(S) /\ Len(a) = i - 1 /\ \A j \in 1 .. (i - 1) : a[j] = s[j]
  <2>1. i - 1 <= n
    BY <1>0
  <2> QED
    BY <1>0, <2>1
<1>2. b \in Seq(S) /\ Len(b) = n - i /\ \A j \in 1 .. (n - i) : b[j] = s[i + j]
  BY <1>0
<1>3. DropAt(s, i) = t
  BY DEF DropAt
<1> HIDE DEF a, b, n
<1>4. t \in Seq(S) /\ Len(t) = n - 1
      /\ \A j \in 1 .. (n - 1) : t[j] = IF j <= i - 1 THEN a[j] ELSE b[j - (i - 1)]
  <2>1. a \in Seq(S) /\ b \in Seq(S)
    BY <1>1, <1>2
  <2>2. /\ t \in Seq(S) /\ Len(t) = Len(a) + Len(b)
        /\ \A j \in 1 .. (Len(a) + Len(b)) : t[j] = IF j <= Len(a) THEN a[j] ELSE b[j - Len(a)]
    BY <2>1, ConcatProperties
  <2>3. Len(a) = i - 1 /\ Len(a) + Len(b) = n - 1
    BY <1>0, <1>1, <1>2
  <2> QED
    BY <2>2, <2>3
<1> HIDE DEF t
<1>5. ASSUME NEW j \in 1 .. (n - 1) PROVE t[j] = IF j < i THEN s[j] ELSE s[j + 1]
  <2>1. CASE j < i
    <3>1. j \in 1 .. (i - 1) /\ j <= i - 1
      BY <1>0, <2>1
    <3> QED
      BY <1>1, <1>4, <2>1, <3>1
  <2>2. CASE ~(j < i)
    <3>1. j - (i - 1) \in 1 .. (n - i) /\ i + (j - (i - 1)) = j + 1 /\ ~(j <= i - 1)
      BY <1>0, <2>2
    <3>2. t[j] = b[j - (i - 1)]
      BY <1>4, <3>1
    <3>3. b[j - (i - 1)] = s[i + (j - (i - 1))]
      BY <1>2, <3>1
    <3> QED
      BY <2>2, <3>1, <3>2, <3>3
  <2> QED
    BY <2>1, <2>2
<1>6. t \in Seq(S) /\ Len(t) = n - 1
  BY <1>4
<1> QED
  BY <1>3, <1>5, <1>6 DEF n

\* One more key: the list stays sorted and counts the key once more.
LEMMA InsertFacts ==
    ASSUME NEW s \in Seq(Nat), Ordered(s), NEW x \in Nat
    PROVE  /\ Insert(s, x) \in Seq(Nat) /\ Ordered(Insert(s, x)) /\ Len(Insert(s, x)) = Len(s) + 1
           /\ \A y \in Nat : Count(Insert(s, x), y) = Count(s, y) + (IF x = y THEN 1 ELSE 0)
<1> DEFINE at == SearchInts(s, x)
           t == Insert(s, x)
           n == Len(s)
<1>1. at \in 1 .. (n + 1) /\ \A j \in 1 .. n : j < at <=> s[j] < x
  BY SearchIntsFinds, SearchIntsSplits
<1>2. n \in Nat /\ \A i \in 1 .. n : s[i] \in Nat
  OBVIOUS
<1>3. t = InsertAt(s, at, x)
  BY DEF Insert, InsertAt
<1> HIDE DEF at, t
<1>4. /\ t \in Seq(Nat) /\ Len(t) = n + 1
      /\ \A j \in 1 .. (n + 1) : t[j] = IF j < at THEN s[j] ELSE IF j = at THEN x ELSE s[j - 1]
  <2>1. at \in 1 .. (Len(s) + 1)
    BY <1>1
  <2> DEFINE N == Nat
  <2>2. s \in Seq(N) /\ x \in N
    OBVIOUS
  <2> HIDE DEF n, N
  <2>3. /\ InsertAt(s, at, x) \in Seq(N) /\ Len(InsertAt(s, at, x)) = Len(s) + 1
        /\ \A j \in 1 .. (Len(s) + 1) :
              InsertAt(s, at, x)[j] = IF j < at THEN s[j] ELSE IF j = at THEN x ELSE s[j - 1]
    BY <2>1, <2>2, InsertElements
  <2> QED
    BY <1>3, <2>3 DEF n, N
<1>5. Ordered(t)
  <2> SUFFICES ASSUME NEW i \in 1 .. (n + 1), NEW j \in 1 .. (n + 1), i <= j
               PROVE  t[i] <= t[j]
    BY <1>4 DEF Ordered
  <2>1. CASE j < at
    <3>1. i \in 1 .. n /\ j \in 1 .. n /\ i < at
      BY <1>1, <1>2, <2>1
    <3>2. t[i] = s[i] /\ t[j] = s[j]
      BY <1>4, <2>1, <3>1
    <3> QED
      BY <3>1, <3>2 DEF Ordered
  <2>2. CASE j = at /\ i < j
    <3>1. i \in 1 .. n /\ t[i] = s[i] /\ t[j] = x /\ s[i] < x /\ s[i] \in Nat
      BY <1>1, <1>2, <1>4, <2>2
    <3> QED
      BY <3>1
  <2>3. CASE i = j
    <3>1. t[i] \in Nat
      BY <1>4
    <3> QED
      BY <2>3, <3>1
  <2>4. CASE at < j /\ i < at
    <3>1. i \in 1 .. n /\ j - 1 \in 1 .. n /\ t[i] = s[i] /\ t[j] = s[j - 1] /\ i <= j - 1
      BY <1>1, <1>2, <1>4, <2>4
    <3> QED
      BY <3>1 DEF Ordered
  <2>5. CASE at < j /\ i = at
    <3>1. j - 1 \in 1 .. n /\ t[i] = x /\ t[j] = s[j - 1] /\ ~(j - 1 < at)
      BY <1>1, <1>2, <1>4, <2>5
    <3>2. ~(s[j - 1] < x) /\ s[j - 1] \in Nat
      BY <1>1, <1>2, <3>1
    <3> QED
      BY <3>1, <3>2
  <2>6. CASE at < i
    <3>1. i - 1 \in 1 .. n /\ j - 1 \in 1 .. n /\ t[i] = s[i - 1] /\ t[j] = s[j - 1] /\ i - 1 <= j - 1
      BY <1>1, <1>2, <1>4, <2>6
    <3> QED
      BY <3>1 DEF Ordered
  <2> QED
    BY <1>1, <1>2, <2>1, <2>2, <2>3, <2>4, <2>5, <2>6
<1>6. ASSUME NEW y \in Nat PROVE SearchInts(t, y) = SearchInts(s, y) + (IF x < y THEN 1 ELSE 0)
  <2> DEFINE b == SearchInts(s, y)
             k == b + (IF x < y THEN 1 ELSE 0)
  <2>1. b \in 1 .. (n + 1) /\ \A j \in 1 .. n : j < b <=> s[j] < y
    BY SearchIntsFinds, SearchIntsSplits
  <2> HIDE DEF b
  <2>2. k \in 1 .. (n + 2)
    BY <1>2, <2>1
  <2>3. IF x < y THEN at <= b ELSE b <= at
    <3>1. ASSUME x < y, b < at PROVE FALSE
      <4>1. b \in 1 .. n
        BY <1>1, <1>2, <2>1, <3>1
      <4>2. s[b] \in Nat /\ s[b] < x /\ ~(s[b] < y)
        BY <1>1, <1>2, <2>1, <3>1, <4>1
      <4> QED
        BY <3>1, <4>2
    <3>2. ASSUME ~(x < y), at < b PROVE FALSE
      <4>1. at \in 1 .. n
        BY <1>1, <1>2, <2>1, <3>2
      <4>2. s[at] \in Nat /\ ~(s[at] < x) /\ s[at] < y
        BY <1>1, <1>2, <2>1, <3>2, <4>1
      <4> QED
        BY <3>2, <4>2
    <3> QED
      BY <1>1, <1>2, <2>1, <3>1, <3>2
  <2>4. ASSUME NEW j \in 1 .. (n + 1) PROVE j < k <=> t[j] < y
    <3>1. CASE j < at
      <4>1. j \in 1 .. n /\ t[j] = s[j] /\ s[j] < x /\ s[j] \in Nat /\ (j < b <=> s[j] < y)
        BY <1>1, <1>2, <1>4, <2>1, <3>1, SMTT(20)
      <4> QED
        BY <1>1, <2>1, <2>3, <3>1, <4>1
    <3>2. CASE j = at
      <4>1. t[j] = x
        BY <1>4, <3>2
      <4> QED
        BY <1>1, <2>1, <2>3, <3>2, <4>1
    <3>3. CASE at < j
      <4>1. j - 1 \in 1 .. n /\ t[j] = s[j - 1]
        BY <1>1, <1>2, <1>4, <3>3
      <4>2. (j - 1 < b) <=> (s[j - 1] < y)
        BY <2>1, <4>1
      <4> QED
        BY <1>1, <2>1, <2>3, <3>3, <4>1, <4>2
    <3> QED
      BY <1>1, <3>1, <3>2, <3>3
  <2> HIDE DEF k
  <2>5. SearchInts(t, y) = k
    BY <1>2, <1>4, <1>5, <2>2, <2>4, SearchIntsSplits
  <2> QED
    BY <2>5 DEF k, b
<1>7. \A y \in Nat : Count(t, y) = Count(s, y) + (IF x = y THEN 1 ELSE 0)
  BY <1>4, <1>6, CountShifted, ZenonT(60)
<1> QED
  BY <1>4, <1>5, <1>7 DEF t

\* A key that is there goes: the list stays sorted and counts it once less.
LEMMA DropFacts ==
    ASSUME NEW s \in Seq(Nat), Ordered(s), NEW x \in Nat, Count(s, x) > 0
    PROVE  LET t == DropAt(s, SearchInts(s, x))
           IN  /\ t \in Seq(Nat) /\ Ordered(t) /\ Len(t) = Len(s) - 1
               /\ \A y \in Nat : Count(t, y) = Count(s, y) - (IF x = y THEN 1 ELSE 0)
<1> DEFINE at == SearchInts(s, x)
           t == DropAt(s, at)
           n == Len(s)
<1>1. at \in 1 .. n /\ s[at] = x /\ \A j \in 1 .. n : j < at <=> s[j] < x
  BY CountedIsThere, SearchIntsSplits
<1>2. n \in Nat /\ \A i \in 1 .. n : s[i] \in Nat
  OBVIOUS
<1> HIDE DEF at
<1>4. /\ t \in Seq(Nat) /\ Len(t) = n - 1
      /\ \A j \in 1 .. (n - 1) : t[j] = IF j < at THEN s[j] ELSE s[j + 1]
  BY <1>1, DropElements
<1> HIDE DEF t
<1>5. Ordered(t)
  <2> SUFFICES ASSUME NEW i \in 1 .. (n - 1), NEW j \in 1 .. (n - 1), i <= j
               PROVE  t[i] <= t[j]
    BY <1>4 DEF Ordered
  <2> DEFINE p == IF i < at THEN i ELSE i + 1
             q == IF j < at THEN j ELSE j + 1
  <2>1. p \in 1 .. n /\ q \in 1 .. n /\ p <= q
    BY <1>1, <1>2
  <2>2. t[i] = s[p] /\ t[j] = s[q]
    BY <1>4
  <2> QED
    BY <2>1, <2>2 DEF Ordered
<1>6. ASSUME NEW y \in Nat PROVE SearchInts(t, y) = SearchInts(s, y) + (IF x < y THEN -1 ELSE 0)
  <2> DEFINE b == SearchInts(s, y)
             k == b + (IF x < y THEN -1 ELSE 0)
  <2>1. b \in 1 .. (n + 1) /\ \A j \in 1 .. n : j < b <=> s[j] < y
    BY SearchIntsFinds, SearchIntsSplits
  <2> HIDE DEF b
  <2>2. at < b <=> x < y
    BY <1>1, <2>1
  <2>3. k \in 1 .. n
    BY <1>1, <1>2, <2>1, <2>2
  <2>4. ASSUME NEW j \in 1 .. (n - 1) PROVE j < k <=> t[j] < y
    <3>1. CASE j < at
      <4>1. j \in 1 .. n /\ t[j] = s[j]
        BY <1>2, <1>4, <3>1
      <4>2. s[j] < x /\ s[j] \in Nat /\ (j < b <=> s[j] < y)
        BY <1>1, <1>2, <2>1, <3>1, <4>1
      <4> QED
        BY <1>1, <2>1, <2>2, <3>1, <4>1, <4>2
    <3>2. CASE ~(j < at)
      <4>1. j + 1 \in 1 .. n /\ t[j] = s[j + 1]
        BY <1>1, <1>2, <1>4, <3>2
      <4>2. (j + 1 < b) <=> (s[j + 1] < y)
        BY <2>1, <4>1
      <4> QED
        BY <1>1, <2>1, <2>2, <3>2, <4>1, <4>2
    <3> QED
      BY <3>1, <3>2
  <2> HIDE DEF k
  <2>5. SearchInts(t, y) = k
    <3>1. k \in 1 .. (Len(t) + 1)
      BY <1>2, <1>4, <2>3
    <3>2. \A j \in 1 .. Len(t) : j < k <=> t[j] < y
      BY <1>4, <2>4
    <3>3. \A i \in 1 .. (Len(t) + 1) :
              (\A j \in 1 .. Len(t) : j < i <=> t[j] < y) => SearchInts(t, y) = i
      BY <1>4, <1>5, SearchIntsSplits
    <3> QED
      BY <3>1, <3>2, <3>3
  <2> QED
    BY <2>5 DEF k, b
<1>7. \A y \in Nat : Count(t, y) = Count(s, y) + (IF x = y THEN -1 ELSE 0)
  BY <1>4, <1>6, CountShifted, ZenonT(60)
<1>8. \A y \in Nat : Count(t, y) = Count(s, y) - (IF x = y THEN 1 ELSE 0)
  <2> TAKE y \in Nat
  <2>1. Count(s, y) \in Nat
    BY CountedIsThere
  <2> QED
    BY <1>7, <2>1
<1> QED
  BY <1>4, <1>5, <1>8 DEF t, at

-----------------------------------------------------------------------------
(***************************************************************************)
(* Add and Remove, one replica at a time.                                  *)
(***************************************************************************)
Owners == Hosts \cup {None}
Rings == [keys : Seq(Positions), owner : [Positions -> Owners]]

\* Init's choice of hash: no two replicas have the same position.
HashOK ==
    /\ hash \in [Hosts \X Reps -> Positions]
    /\ \A a, b \in Hosts \X Reps : hash[a] = hash[b] => a = b

\* The positions of the first n replicas of h.
Placed(h, n) == {hash[<<h, k>>] : k \in 0 .. (n - 1)}

LEMMA PlacedGrows ==
    ASSUME HashOK, NEW h \in Hosts, NEW i \in Reps
    PROVE  /\ hash[<<h, i>>] \in Positions /\ hash[<<h, i>>] \in Nat
           /\ hash[<<h, i>>] \notin Placed(h, i)
           /\ Placed(h, i + 1) = Placed(h, i) \cup {hash[<<h, i>>]}
<1>1. Replicas \in Nat /\ i \in 0 .. (Replicas - 1) /\ Positions \subseteq Nat
  BY ConsistenceHashAssumption DEF Reps
<1>2. <<h, i>> \in Hosts \X Reps /\ hash[<<h, i>>] \in Positions
  BY DEF HashOK
<1>3. ASSUME NEW k \in 0 .. (i - 1) PROVE hash[<<h, k>>] # hash[<<h, i>>]
  <2>1. k \in Reps /\ k # i
    BY <1>1 DEF Reps
  <2>2. <<h, k>> \in Hosts \X Reps /\ <<h, k>> # <<h, i>>
    BY <2>1
  <2> QED
    BY <1>2, <2>2 DEF HashOK
<1>4. 0 .. ((i + 1) - 1) = (0 .. (i - 1)) \cup {i}
  BY <1>1
<1> QED
  BY <1>1, <1>2, <1>3, <1>4 DEF Placed

LEMMA KeysAreNumbers ==
    ASSUME NEW s \in Seq(Positions) PROVE s \in Seq(Nat)
<1>1. Positions \subseteq Nat
  BY ConsistenceHashAssumption
<1>2. Len(s) \in Nat /\ s \in [1 .. Len(s) -> Positions]
  OBVIOUS
<1>3. s \in [1 .. Len(s) -> Nat]
  BY <1>1, <1>2
<1> QED
  BY <1>2, <1>3

\* The ring b into which the first n replicas of h were entered.
Entered(r, b, h, n) ==
    /\ r \in Rings /\ Ordered(r.keys)
    /\ \A y \in Nat : Count(r.keys, y) = Count(b.keys, y) + (IF y \in Placed(h, n) THEN 1 ELSE 0)
    /\ \A p \in Positions : r.owner[p] = IF p \in Placed(h, n) THEN h ELSE b.owner[p]

LEMMA EnterType ==
    ASSUME NEW r \in Rings, NEW x \in Positions, NEW h \in Hosts
    PROVE  Enter(r, x, h) \in Rings
<1>1. r.keys \in Seq(Positions) /\ r.keys \in Seq(Nat) /\ x \in Nat
  BY KeysAreNumbers, ConsistenceHashAssumption DEF Rings
<1>2. SearchInts(r.keys, x) \in 1 .. (Len(r.keys) + 1)
  BY <1>1, SearchIntsFinds
<1>3. InsertAt(r.keys, SearchInts(r.keys, x), x) \in Seq(Positions)
  BY <1>1, <1>2, InsertElements
<1>4. Insert(r.keys, x) \in Seq(Positions)
  BY <1>3 DEF Insert, InsertAt
<1>5. [r.owner EXCEPT ![x] = h] \in [Positions -> Owners]
  BY DEF Rings, Owners
<1> QED
  BY <1>4, <1>5 DEF Enter, Rings

LEMMA EnterFacts ==
    ASSUME HashOK, NEW b \in Rings, Ordered(b.keys), NEW h \in Hosts, NEW i \in Reps,
           NEW r, Entered(r, b, h, i)
    PROVE  Entered(Enter(r, hash[<<h, i>>], h), b, h, i + 1)
<1> DEFINE x == hash[<<h, i>>]
           t == Insert(r.keys, x)
           o == [r.owner EXCEPT ![x] = h]
           P == Placed(h, i)
           Q == Placed(h, i + 1)
<1>1. x \in Positions /\ x \in Nat /\ x \notin P /\ Q = P \cup {x}
  BY PlacedGrows
<1>2. Enter(r, x, h) = [keys |-> t, owner |-> o]
  BY DEF Enter
<1>3. Enter(r, x, h) \in Rings
  BY <1>1, EnterType DEF Entered
<1>4. r.keys \in Seq(Nat) /\ b.keys \in Seq(Nat) /\ Ordered(r.keys) /\ r.owner \in [Positions -> Owners]
  BY KeysAreNumbers DEF Entered, Rings
<1>5. /\ \A y \in Nat : Count(r.keys, y) = Count(b.keys, y) + (IF y \in P THEN 1 ELSE 0)
      /\ \A p \in Positions : r.owner[p] = IF p \in P THEN h ELSE b.owner[p]
  BY DEF Entered
<1> HIDE DEF x, P, Q
<1>6. /\ Ordered(t)
      /\ \A y \in Nat : Count(t, y) = Count(r.keys, y) + (IF x = y THEN 1 ELSE 0)
  BY <1>1, <1>4, InsertFacts
<1>7. ASSUME NEW y \in Nat
      PROVE  Count(t, y) = Count(b.keys, y) + (IF y \in Q THEN 1 ELSE 0)
  <2>1. Count(b.keys, y) \in Nat
    BY <1>4, CountedIsThere
  <2>2. Count(t, y) = (Count(b.keys, y) + (IF y \in P THEN 1 ELSE 0)) + (IF x = y THEN 1 ELSE 0)
    BY <1>5, <1>6
  <2> HIDE DEF t
  <2> QED
    BY <1>1, <2>1, <2>2
<1>8. \A p \in Positions : o[p] = IF p \in Q THEN h ELSE b.owner[p]
  BY <1>1, <1>4, <1>5
<1> HIDE DEF t, o
<1>9. Enter(r, x, h).keys = t /\ Enter(r, x, h).owner = o
  BY <1>2
<1>10. /\ Ordered(Enter(r, x, h).keys)
       /\ \A y \in Nat : Count(Enter(r, x, h).keys, y) = Count(b.keys, y) + (IF y \in Q THEN 1 ELSE 0)
       /\ \A p \in Positions : Enter(r, x, h).owner[p] = IF p \in Q THEN h ELSE b.owner[p]
  BY <1>6, <1>7, <1>8, <1>9
<1> QED
  BY <1>3, <1>10 DEF Entered, x, Q

\* Add enters every replica once more and makes h the owner of its keys.
LEMMA AddToFacts ==
    ASSUME HashOK, NEW b \in Rings, Ordered(b.keys), NEW h \in Hosts
    PROVE  Entered(AddTo(b, h), b, h, Replicas)
<1> DEFINE x(i) == hash[<<h, i - 1>>]
           Loop(f) == f = [i \in 0 .. Replicas |-> IF i = 0 THEN b ELSE Enter(f[i - 1], x(i), h)]
           F == [i \in 1 .. Replicas |-> [r \in Rings |-> Enter(r, x(i), h)]]
           g == CHOOSE f : Loop(f)
<1>1. Replicas \in Nat
  BY ConsistenceHashAssumption
<1>2. ASSUME NEW i \in 1 .. Replicas PROVE i - 1 \in Reps /\ x(i) \in Positions
  <2>1. i - 1 \in Reps
    BY <1>1 DEF Reps
  <2> QED
    BY <2>1, PlacedGrows
<1>3. F \in Loops(Rings, Replicas)
  BY <1>2, EnterType DEF Loops
<1>4. \E f : Loop(f)
  <2>1. PICK f \in [0 .. Replicas -> Rings] :
            f[0] = b /\ \A i \in 1 .. Replicas : f[i] = F[i][f[i - 1]]
    <3> HIDE DEF F
    <3> QED
      BY <1>1, <1>3, LoopExists
  <2>2. ASSUME NEW i \in 1 .. Replicas PROVE f[i] = Enter(f[i - 1], x(i), h)
    <3>1. i - 1 \in 0 .. Replicas
      BY <1>1
    <3> QED
      BY <2>1, <3>1
  <2>3. \A i \in 0 .. Replicas : f[i] = IF i = 0 THEN b ELSE Enter(f[i - 1], x(i), h)
    BY <1>1, <2>1, <2>2
  <2> QED
    BY <2>1, <2>3
<1>5. Loop(g)
  BY <1>4
<1>6. AddTo(b, h) = g[Replicas]
  BY DEF AddTo
<1> HIDE DEF g
<1> DEFINE T == {i \in 0 .. Replicas : Entered(g[i], b, h, i)}
<1>7. 0 \in T
  <2>1. g[0] = b
    BY <1>1, <1>5
  <2>2. Placed(h, 0) = {}
    BY DEF Placed
  <2>3. b.keys \in Seq(Nat) /\ \A y \in Nat : Count(b.keys, y) \in Nat
    BY KeysAreNumbers, CountedIsThere DEF Rings
  <2>4. Entered(b, b, h, 0)
    BY <2>2, <2>3 DEF Entered
  <2> QED
    BY <1>1, <2>1, <2>4
<1>8. ASSUME NEW i \in 0 .. (Replicas - 1), i \in T PROVE i + 1 \in T
  <2>1. i \in Reps /\ i + 1 \in 0 .. Replicas /\ i + 1 # 0 /\ (i + 1) - 1 = i
    BY <1>1 DEF Reps
  <2>2. g[i + 1] = Enter(g[i], hash[<<h, i>>], h)
    BY <1>5, <2>1
  <2>3. Entered(Enter(g[i], hash[<<h, i>>], h), b, h, i + 1)
    BY <1>8, <2>1, EnterFacts
  <2> QED
    BY <2>1, <2>2, <2>3
<1>9. Replicas \in T
  <2>1. \A i \in 0 .. (Replicas - 1) : i \in T => i + 1 \in T
    BY <1>8
  <2> HIDE DEF T
  <2>2. \A i \in 0 .. Replicas : i \in T
    BY <1>1, <1>7, <2>1, UpTo
  <2> QED
    BY <1>1, <2>2
<1> QED
  BY <1>6, <1>9

\* What the loop of Remove works on.
Removals == [keys : Seq(Positions), owner : [Positions -> Owners], panic : BOOLEAN]

\* The ring b from which the first n replicas of h were removed.
Deleted(r, b, h, n) ==
    /\ r \in Removals /\ r.panic = FALSE /\ Ordered(r.keys)
    /\ \A y \in Nat : Count(r.keys, y) = Count(b.keys, y) - (IF y \in Placed(h, n) THEN 1 ELSE 0)
    /\ \A p \in Positions : r.owner[p] = IF p \in Placed(h, n) THEN None ELSE b.owner[p]

DeleteCase(r, x, at) ==
    [r EXCEPT !.keys = DropAt(@, at), !.owner = [@ EXCEPT ![x] = None]]

LEMMA DeleteCaseFacts ==
    ASSUME NEW r \in Removals, NEW x \in Positions, NEW at \in 1 .. Len(r.keys)
    PROVE  /\ DeleteCase(r, x, at) \in Removals
           /\ DeleteCase(r, x, at).keys = DropAt(r.keys, at)
           /\ DeleteCase(r, x, at).owner = [r.owner EXCEPT ![x] = None]
           /\ DeleteCase(r, x, at).panic = r.panic
<1> DEFINE k == DropAt(r.keys, at)
           o == [r.owner EXCEPT ![x] = None]
<1>1. k \in Seq(Positions)
  <2>1. r.keys \in Seq(Positions)
    BY DEF Removals
  <2> QED
    BY <2>1, DropElements
<1>2. o \in [Positions -> Owners]
  BY DEF Removals, Owners
<1>3. DeleteCase(r, x, at) = [r EXCEPT !.keys = k, !.owner = o]
  BY DEF DeleteCase
<1> HIDE DEF k, o
<1>4. DeleteCase(r, x, at) \in Removals
  BY <1>1, <1>2, <1>3 DEF Removals
<1>5. /\ DeleteCase(r, x, at).keys = k /\ DeleteCase(r, x, at).owner = o
      /\ DeleteCase(r, x, at).panic = r.panic
  BY <1>3 DEF Removals
<1> QED
  BY <1>4, <1>5 DEF k, o

LEMMA DeleteType ==
    ASSUME NEW r \in Removals, NEW x \in Positions
    PROVE  Delete(r, x) \in Removals
<1> DEFINE at == SearchInts(r.keys, x)
<1>1. r.keys \in Seq(Positions) /\ r.keys \in Seq(Nat) /\ x \in Nat
  BY KeysAreNumbers, ConsistenceHashAssumption DEF Removals
<1>2. at \in 1 .. (Len(r.keys) + 1)
  BY <1>1, SearchIntsFinds
<1>3. Delete(r, x) = IF r.panic \/ at > Len(r.keys) THEN [r EXCEPT !.panic = TRUE]
                     ELSE DeleteCase(r, x, at)
  BY DEF Delete, DeleteCase
<1> HIDE DEF at
<1>4. [r EXCEPT !.panic = TRUE] \in Removals
  BY DEF Removals
<1>5. ASSUME ~(at > Len(r.keys)) PROVE DeleteCase(r, x, at) \in Removals
  <2>1. at \in 1 .. Len(r.keys)
    BY <1>1, <1>2, <1>5
  <2> QED
    BY <2>1, DeleteCaseFacts
<1> QED
  BY <1>3, <1>4, <1>5

LEMMA DeleteFacts ==
    ASSUME HashOK, NEW b \in Rings, Ordered(b.keys), NEW h \in Hosts, NEW i \in Reps,
           Count(b.keys, hash[<<h, i>>]) > 0, NEW r, Deleted(r, b, h, i)
    PROVE  Deleted(Delete(r, hash[<<h, i>>]), b, h, i + 1)
<1> DEFINE x == hash[<<h, i>>]
           at == SearchInts(r.keys, x)
           t == DropAt(r.keys, at)
           o == [r.owner EXCEPT ![x] = None]
           d == Delete(r, x)
           P == Placed(h, i)
           Q == Placed(h, i + 1)
<1>1. x \in Positions /\ x \in Nat /\ x \notin P /\ Q = P \cup {x}
  BY PlacedGrows
<1>2. /\ r \in Removals /\ r.panic = FALSE /\ Ordered(r.keys)
      /\ \A y \in Nat : Count(r.keys, y) = Count(b.keys, y) - (IF y \in P THEN 1 ELSE 0)
      /\ \A p \in Positions : r.owner[p] = IF p \in P THEN None ELSE b.owner[p]
  BY DEF Deleted
<1>3. r.keys \in Seq(Nat) /\ b.keys \in Seq(Nat) /\ r.owner \in [Positions -> Owners]
  BY <1>2, KeysAreNumbers DEF Removals, Rings
<1>4. \A y \in Nat : Count(b.keys, y) \in Nat
  BY <1>3, CountedIsThere
<1>5. Count(b.keys, x) > 0
  OBVIOUS
<1> HIDE DEF x, P, Q
<1>6. Count(r.keys, x) > 0
  BY <1>1, <1>2, <1>4, <1>5
<1>7. at \in 1 .. Len(r.keys)
  BY <1>1, <1>2, <1>3, <1>6, CountedIsThere
<1>8. /\ Ordered(t)
      /\ \A y \in Nat : Count(t, y) = Count(r.keys, y) - (IF x = y THEN 1 ELSE 0)
  BY <1>1, <1>2, <1>3, <1>6, DropFacts
<1>9. d = DeleteCase(r, x, at)
  <2>1. d = IF r.panic \/ at > Len(r.keys) THEN [r EXCEPT !.panic = TRUE] ELSE DeleteCase(r, x, at)
    BY DEF Delete, DeleteCase
  <2>2. ~(at > Len(r.keys))
    <3> HIDE DEF at
    <3>1. Len(r.keys) \in Nat
      BY <1>3
    <3> QED
      BY <1>7, <3>1
  <2> HIDE DEF d, at
  <2> QED
    BY <1>2, <2>1, <2>2
<1>10. d \in Removals /\ d.keys = t /\ d.owner = o /\ d.panic = r.panic
  <2> HIDE DEF d, at
  <2> QED
    BY <1>1, <1>2, <1>7, <1>9, DeleteCaseFacts
<1>11. ASSUME NEW y \in Nat
       PROVE  Count(t, y) = Count(b.keys, y) - (IF y \in Q THEN 1 ELSE 0)
  <2>1. Count(b.keys, y) \in Nat
    BY <1>4
  <2>2. Count(t, y) = (Count(b.keys, y) - (IF y \in P THEN 1 ELSE 0)) - (IF x = y THEN 1 ELSE 0)
    BY <1>2, <1>8
  <2> HIDE DEF t
  <2> QED
    BY <1>1, <2>1, <2>2
<1>12. \A p \in Positions : o[p] = IF p \in Q THEN None ELSE b.owner[p]
  BY <1>1, <1>2, <1>3
<1> HIDE DEF d, t, o
<1>13. /\ d \in Removals /\ d.panic = FALSE /\ Ordered(d.keys)
       /\ \A y \in Nat : Count(d.keys, y) = Count(b.keys, y) - (IF y \in Q THEN 1 ELSE 0)
       /\ \A p \in Positions : d.owner[p] = IF p \in Q THEN None ELSE b.owner[p]
  BY <1>2, <1>8, <1>10, <1>11, <1>12
<1> QED
  BY <1>13 DEF Deleted, d, x, Q

\* Remove takes every replica of h out once, without a panic, if all are there.
LEMMA RemoveFromFacts ==
    ASSUME HashOK, NEW b \in Rings, Ordered(b.keys), NEW h \in Hosts,
           \A i \in Reps : Count(b.keys, hash[<<h, i>>]) > 0
    PROVE  Deleted(RemoveFrom(b, h), b, h, Replicas)
<1> DEFINE a == [keys |-> b.keys, owner |-> b.owner, panic |-> FALSE]
           x(i) == hash[<<h, i - 1>>]
           Loop(f) == f = [i \in 0 .. Replicas |-> IF i = 0 THEN a ELSE Delete(f[i - 1], x(i))]
           F == [i \in 1 .. Replicas |-> [r \in Removals |-> Delete(r, x(i))]]
           g == CHOOSE f : Loop(f)
<1>1. Replicas \in Nat
  BY ConsistenceHashAssumption
<1>2. ASSUME NEW i \in 1 .. Replicas PROVE i - 1 \in Reps /\ x(i) \in Positions
  <2>1. i - 1 \in Reps
    BY <1>1 DEF Reps
  <2> QED
    BY <2>1, PlacedGrows
<1>3. F \in Loops(Removals, Replicas) /\ a \in Removals
  BY <1>2, DeleteType DEF Loops, Removals, Rings
<1>0. a.keys = b.keys /\ a.owner = b.owner /\ a.panic = FALSE
  OBVIOUS
<1>4. \E f : Loop(f)
  <2> HIDE DEF a
  <2>1. PICK f \in [0 .. Replicas -> Removals] :
            f[0] = a /\ \A i \in 1 .. Replicas : f[i] = F[i][f[i - 1]]
    <3> HIDE DEF F
    <3> QED
      BY <1>1, <1>3, LoopExists
  <2>2. ASSUME NEW i \in 1 .. Replicas PROVE f[i] = Delete(f[i - 1], x(i))
    <3>1. i - 1 \in 0 .. Replicas
      BY <1>1
    <3> QED
      BY <2>1, <3>1
  <2>3. \A i \in 0 .. Replicas : f[i] = IF i = 0 THEN a ELSE Delete(f[i - 1], x(i))
    BY <1>1, <2>1, <2>2
  <2> QED
    BY <2>1, <2>3
<1>5. Loop(g)
  BY <1>4
<1>6. RemoveFrom(b, h) = g[Replicas]
  BY DEF RemoveFrom
<1> HIDE DEF g, a
<1> DEFINE T == {i \in 0 .. Replicas : Deleted(g[i], b, h, i)}
<1>7. 0 \in T
  <2>1. g[0] = a
    BY <1>1, <1>5
  <2>2. Placed(h, 0) = {}
    BY DEF Placed
  <2>3. b.keys \in Seq(Nat) /\ \A y \in Nat : Count(b.keys, y) \in Nat
    BY KeysAreNumbers, CountedIsThere DEF Rings
  <2>4. Deleted(a, b, h, 0)
    BY <1>0, <1>3, <2>2, <2>3 DEF Deleted
  <2> QED
    BY <1>1, <2>1, <2>4
<1>8. ASSUME NEW i \in 0 .. (Replicas - 1), i \in T PROVE i + 1 \in T
  <2>1. i \in Reps /\ i + 1 \in 0 .. Replicas /\ i + 1 # 0 /\ (i + 1) - 1 = i
    BY <1>1 DEF Reps
  <2>2. g[i + 1] = Delete(g[i], hash[<<h, i>>])
    BY <1>5, <2>1
  <2>3. Deleted(Delete(g[i], hash[<<h, i>>]), b, h, i + 1)
    BY <1>8, <2>1, DeleteFacts
  <2> QED
    BY <2>1, <2>2, <2>3
<1>9. Replicas \in T
  <2>1. \A i \in 0 .. (Replicas - 1) : i \in T => i + 1 \in T
    BY <1>8
  <2> HIDE DEF T
  <2>2. \A i \in 0 .. Replicas : i \in T
    BY <1>1, <1>7, <2>1, UpTo
  <2> QED
    BY <1>1, <2>2
<1> QED
  BY <1>6, <1>9

-----------------------------------------------------------------------------
(***************************************************************************)
(* The ring: every replica of a host has its key once for each copy of the *)
(* host, no other key is there, and the positions of a host have it as     *)
(* their owner exactly while it serves.  RemoveNeverPanics says nothing of *)
(* the keys Remove looks for; that they are there is what this adds.       *)
(***************************************************************************)
Copied ==
    /\ \A h \in Hosts : \A y \in Placed(h, Replicas) : Count(keys, y) = copies[h]
    /\ \A y \in Nat : (\A h \in Hosts : y \notin Placed(h, Replicas)) => Count(keys, y) = 0

Owned ==
    \A h \in Hosts : \A y \in Placed(h, Replicas) :
        owner[y] = IF h \in Serving THEN h ELSE None

RingInv ==
    /\ HashOK
    /\ keys \in Seq(Positions) /\ Ordered(keys)
    /\ owner \in [Positions -> Owners]
    /\ copies \in [Hosts -> 0 .. MaxCopies]
    /\ ownerless \subseteq Member
    /\ Copied
    /\ Owned
    /\ down = FALSE

LEMMA PlacedFacts ==
    ASSUME HashOK
    PROVE  /\ \A h \in Hosts : Placed(h, Replicas) \subseteq Positions
           /\ \A h \in Hosts : \A i \in Reps : hash[<<h, i>>] \in Placed(h, Replicas)
           /\ \A h \in Hosts : \A y \in Placed(h, Replicas) : \E i \in Reps : hash[<<h, i>>] = y
           /\ \A g, h \in Hosts : \A y \in Placed(g, Replicas) : y \in Placed(h, Replicas) => g = h
           /\ \A h \in Hosts : Placed(h, Replicas) # {}
<1>1. Reps = 0 .. (Replicas - 1) /\ 0 \in Reps
  BY ConsistenceHashAssumption DEF Reps
<1>2. \A h \in Hosts : Placed(h, Replicas) = {hash[<<h, i>>] : i \in Reps}
  BY <1>1 DEF Placed
<1>3. \A h \in Hosts : \A i \in Reps : <<h, i>> \in Hosts \X Reps /\ hash[<<h, i>>] \in Positions
  BY DEF HashOK
<1>4. ASSUME NEW g \in Hosts, NEW h \in Hosts, NEW i \in Reps, NEW j \in Reps,
             hash[<<g, i>>] = hash[<<h, j>>]
      PROVE  g = h
  <2>1. <<g, i>> \in Hosts \X Reps /\ <<h, j>> \in Hosts \X Reps
    OBVIOUS
  <2>2. <<g, i>> = <<h, j>>
    BY <1>4, <2>1 DEF HashOK
  <2> QED
    BY <2>2
<1>5. ASSUME NEW g \in Hosts, NEW h \in Hosts, NEW y \in Placed(g, Replicas), y \in Placed(h, Replicas)
      PROVE  g = h
  <2>1. PICK i \in Reps : y = hash[<<g, i>>]
    BY <1>2
  <2>2. PICK j \in Reps : y = hash[<<h, j>>]
    BY <1>2, <1>5
  <2> QED
    BY <1>4, <2>1, <2>2
<1>6. ASSUME NEW h \in Hosts
      PROVE  /\ Placed(h, Replicas) \subseteq Positions /\ Placed(h, Replicas) # {}
             /\ \A i \in Reps : hash[<<h, i>>] \in Placed(h, Replicas)
             /\ \A y \in Placed(h, Replicas) : \E i \in Reps : hash[<<h, i>>] = y
  <2>1. Placed(h, Replicas) = {hash[<<h, i>>] : i \in Reps}
    BY <1>2
  <2>2. hash[<<h, 0>>] \in Placed(h, Replicas)
    BY <1>1, <2>1
  <2>3. Placed(h, Replicas) \subseteq Positions
    BY <1>3, <2>1
  <2>4. \A i \in Reps : hash[<<h, i>>] \in Placed(h, Replicas)
    BY <2>1
  <2>5. \A y \in Placed(h, Replicas) : \E i \in Reps : hash[<<h, i>>] = y
    BY <2>1
  <2> QED
    BY <2>2, <2>3, <2>4, <2>5
<1> QED
  BY <1>5, <1>6

LEMMA RingInvInit ==
    ASSUME Init PROVE RingInv
<1>1. HashOK
  BY DEF Init, Injection, IsInjective, HashOK
<1>2. keys \in Seq(Positions) /\ keys \in Seq(Nat) /\ Ordered(keys) /\ Range(keys) = {}
  BY DEF Init, Ordered, Range
<1>3. \A y \in Nat : Count(keys, y) = 0
  BY <1>2, CountedIsThere
<1>4. owner \in [Positions -> Owners] /\ copies \in [Hosts -> 0 .. MaxCopies]
  BY ConsistenceHashAssumption DEF Init, Owners
<1>5. ownerless = {} /\ Member = {} /\ Serving = {}
  BY DEF Init, Member, Serving
<1>6. Copied
  <2>1. \A h \in Hosts : Placed(h, Replicas) \subseteq Nat
    BY <1>1, PlacedFacts, ConsistenceHashAssumption
  <2> QED
    BY <1>3, <2>1 DEF Copied, Init
<1>7. Owned
  BY <1>1, <1>5, PlacedFacts DEF Owned, Init
<1> QED
  BY <1>1, <1>2, <1>4, <1>5, <1>6, <1>7 DEF RingInv, Init

\* The ring as AddTo and RemoveFrom take it.
LEMMA RingFacts ==
    ASSUME RingInv
    PROVE  /\ Ring \in Rings /\ Ring.keys = keys /\ Ring.owner = owner /\ Ordered(Ring.keys)
           /\ keys \in Seq(Nat) /\ \A y \in Nat : Count(keys, y) \in Nat
<1>1. Ring.keys = keys /\ Ring.owner = owner /\ Ring \in Rings
  BY DEF Ring, Rings, RingInv
<1>2. keys \in Seq(Nat) /\ Ordered(keys)
  BY KeysAreNumbers DEF RingInv
<1> QED
  BY <1>1, <1>2, CountedIsThere

\* What one step does to the ring.
LEMMA AddRing ==
    ASSUME RingInv, NEW h \in Hosts, Add(h)
    PROVE  /\ keys' \in Seq(Positions) /\ Ordered(keys') /\ owner' \in [Positions -> Owners]
           /\ \A y \in Nat :
                 Count(keys', y) = Count(keys, y) + (IF y \in Placed(h, Replicas) THEN 1 ELSE 0)
           /\ \A p \in Positions : owner'[p] = IF p \in Placed(h, Replicas) THEN h ELSE owner[p]
<1>1. Entered(AddTo(Ring, h), Ring, h, Replicas)
  BY RingFacts, AddToFacts DEF RingInv
<1>2. keys' = AddTo(Ring, h).keys /\ owner' = AddTo(Ring, h).owner
  BY DEF Add
<1>3. Ring.keys = keys /\ Ring.owner = owner
  BY RingFacts
<1> QED
  BY <1>1, <1>2, <1>3 DEF Entered, Rings

LEMMA RemoveRing ==
    ASSUME RingInv, NEW h \in Hosts, Remove(h)
    PROVE  /\ keys' \in Seq(Positions) /\ Ordered(keys') /\ owner' \in [Positions -> Owners]
           /\ down' = FALSE
           /\ \A y \in Nat :
                 Count(keys', y) = Count(keys, y) - (IF y \in Placed(h, Replicas) THEN 1 ELSE 0)
           /\ \A p \in Positions : owner'[p] = IF p \in Placed(h, Replicas) THEN None ELSE owner[p]
<1>1. \A i \in Reps : Count(Ring.keys, hash[<<h, i>>]) > 0
  <2> TAKE i \in Reps
  <2>1. copies[h] > 0
    BY DEF Remove, Member
  <2>2. hash[<<h, i>>] \in Placed(h, Replicas)
    BY PlacedFacts DEF RingInv
  <2>3. Count(keys, hash[<<h, i>>]) = copies[h]
    BY <2>2 DEF RingInv, Copied
  <2>4. Ring.keys = keys
    BY RingFacts
  <2> QED
    BY <2>1, <2>3, <2>4
<1>2. Deleted(RemoveFrom(Ring, h), Ring, h, Replicas)
  BY <1>1, RingFacts, RemoveFromFacts DEF RingInv
<1>3. /\ keys' = RemoveFrom(Ring, h).keys /\ owner' = RemoveFrom(Ring, h).owner
      /\ down' = RemoveFrom(Ring, h).panic
  BY DEF Remove
<1>4. Ring.keys = keys /\ Ring.owner = owner
  BY RingFacts
<1> QED
  BY <1>2, <1>3, <1>4 DEF Deleted, Removals

LEMMA AddHistory ==
    ASSUME RingInv, NEW h \in Hosts, Add(h)
    PROVE  /\ copies' \in [Hosts -> 0 .. MaxCopies] /\ copies' = [copies EXCEPT ![h] = @ + 1]
           /\ ownerless' = ownerless \ {h}
           /\ ownerless' \subseteq Member' /\ Serving' = Serving \cup {h}
<1>1. MaxCopies \in Nat
  BY ConsistenceHashAssumption
<1>2. /\ copies' = [copies EXCEPT ![h] = @ + 1] /\ ownerless' = ownerless \ {h}
      /\ copies[h] < MaxCopies /\ copies \in [Hosts -> 0 .. MaxCopies]
      /\ ownerless \subseteq Member
  BY DEF Add, Counted, RingInv
<1>3. copies' \in [Hosts -> 0 .. MaxCopies]
  BY <1>1, <1>2
<1>4. Member' = Member \cup {h}
  BY <1>1, <1>2 DEF Member
<1>5. Serving' = Member' \ ownerless'
  BY DEF Serving
<1> QED
  BY <1>2, <1>3, <1>4, <1>5 DEF Serving

LEMMA RemoveHistory ==
    ASSUME RingInv, NEW h \in Hosts, Remove(h)
    PROVE  /\ copies' \in [Hosts -> 0 .. MaxCopies] /\ copies' = [copies EXCEPT ![h] = @ - 1]
           /\ copies[h] \in Nat /\ copies[h] >= 1
           /\ ownerless' = IF copies[h] > 1 THEN ownerless \cup {h} ELSE ownerless \ {h}
           /\ ownerless' \subseteq Member' /\ Serving' = Serving \ {h}
<1>1. MaxCopies \in Nat
  BY ConsistenceHashAssumption
<1>2. /\ copies' = [copies EXCEPT ![h] = @ - 1]
      /\ ownerless' = IF copies[h] > 1 THEN ownerless \cup {h} ELSE ownerless \ {h}
      /\ copies[h] > 0 /\ copies \in [Hosts -> 0 .. MaxCopies]
      /\ ownerless \subseteq Member
  BY DEF Remove, Member, RingInv
<1>3. copies' \in [Hosts -> 0 .. MaxCopies] /\ copies[h] \in Nat /\ copies[h] >= 1
  BY <1>1, <1>2
<1>4. Member' = IF copies[h] > 1 THEN Member ELSE Member \ {h}
  BY <1>1, <1>2 DEF Member
<1>5. Serving' = Member' \ ownerless' /\ h \in Member
  BY <1>2 DEF Serving, Member
<1>6. ownerless' \subseteq Member' /\ Serving' = Serving \ {h}
  BY <1>2, <1>4, <1>5 DEF Serving
<1> QED
  BY <1>2, <1>3, <1>6

LEMMA RingInvStep ==
    ASSUME RingInv, [Next]_vars
    PROVE  RingInv'
<1>0. HashOK
  BY DEF RingInv
<1>p. \A h \in Hosts : Placed(h, Replicas) \subseteq Nat
  BY <1>0, PlacedFacts, ConsistenceHashAssumption
<1>h. ASSUME hash' = hash
      PROVE  HashOK' /\ \A h \in Hosts : Placed(h, Replicas)' = Placed(h, Replicas)
  BY <1>h, <1>0 DEF HashOK, Placed
<1>same. ASSUME UNCHANGED <<hash, keys, owner, down, history>> PROVE RingInv'
  <2>1. /\ hash' = hash /\ keys' = keys /\ owner' = owner /\ down' = down
        /\ copies' = copies /\ ownerless' = ownerless
    BY <1>same DEF history
  <2>2. HashOK' /\ \A g \in Hosts : Placed(g, Replicas)' = Placed(g, Replicas)
    BY <2>1, <1>h
  <2>3. Ordered(keys)' /\ \A y \in Nat : Count(keys, y)' = Count(keys, y)
    BY <2>1 DEF RingInv, Ordered, Count, SearchInts
  <2>4. Member' = Member /\ Serving' = Serving
    BY <2>1 DEF Member, Serving
  <2>5. Copied'
    BY <1>p, <2>1, <2>2, <2>3 DEF RingInv, Copied
  <2>6. Owned'
    BY <2>1, <2>2, <2>4 DEF RingInv, Owned
  <2> QED
    BY <2>1, <2>2, <2>3, <2>4, <2>5, <2>6 DEF RingInv, Owners
<1>1. ASSUME NEW h \in Hosts, Add(h) PROVE RingInv'
  <2>1. hash' = hash /\ down' = FALSE
    BY <1>1 DEF Add, RingInv
  <2>2. HashOK' /\ \A g \in Hosts : Placed(g, Replicas)' = Placed(g, Replicas)
    BY <2>1, <1>h
  <2>3. Copied'
    <3>1. ASSUME NEW g \in Hosts, NEW y \in Placed(g, Replicas) PROVE Count(keys', y) = copies'[g]
      <4>1. y \in Nat /\ Count(keys, y) = copies[g] /\ (y \in Placed(h, Replicas) <=> g = h)
        BY <1>0, <1>p, PlacedFacts DEF RingInv, Copied
      <4>2. copies'[g] = IF g = h THEN copies[g] + 1 ELSE copies[g]
        BY <1>1, AddHistory DEF RingInv
      <4>3. copies[g] \in Nat
        BY ConsistenceHashAssumption DEF RingInv
      <4>4. Count(keys', y) = Count(keys, y) + (IF y \in Placed(h, Replicas) THEN 1 ELSE 0)
        BY <1>1, <4>1, AddRing
      <4> QED
        BY <4>1, <4>2, <4>3, <4>4
    <3>2. ASSUME NEW y \in Nat, \A g \in Hosts : y \notin Placed(g, Replicas)
          PROVE  Count(keys', y) = 0
      <4>1. Count(keys, y) = 0
        BY <3>2 DEF RingInv, Copied
      <4>2. Count(keys', y) = Count(keys, y) + 0
        BY <1>1, <3>2, AddRing
      <4> QED
        BY <4>1, <4>2
    <3>3. \A y \in Nat : Count(keys, y)' = Count(keys', y)
      BY DEF Count, SearchInts
    <3> QED
      BY <1>p, <2>2, <3>1, <3>2, <3>3 DEF Copied
  <2>4. Owned'
    <3>1. ASSUME NEW g \in Hosts, NEW y \in Placed(g, Replicas)
          PROVE  owner'[y] = IF g \in Serving' THEN g ELSE None
      <4>1. y \in Positions /\ (y \in Placed(h, Replicas) <=> g = h)
        BY <1>0, PlacedFacts
      <4>2. owner[y] = IF g \in Serving THEN g ELSE None
        BY DEF RingInv, Owned
      <4>3. g \in Serving' <=> g \in Serving \/ g = h
        BY <1>1, AddHistory
      <4>4. owner'[y] = IF y \in Placed(h, Replicas) THEN h ELSE owner[y]
        BY <1>1, <4>1, AddRing
      <4> QED
        BY <4>1, <4>2, <4>3, <4>4
    <3> QED
      BY <2>2, <3>1 DEF Owned
  <2>5. keys' \in Seq(Positions) /\ Ordered(keys') /\ owner' \in [Positions -> Owners]
    BY <1>1, AddRing
  <2>6. copies' \in [Hosts -> 0 .. MaxCopies] /\ ownerless' \subseteq Member'
    BY <1>1, AddHistory
  <2>7. Ordered(keys)'
    BY <2>5 DEF Ordered
  <2> QED
    BY <2>1, <2>2, <2>3, <2>4, <2>5, <2>6, <2>7 DEF RingInv, Owners
<1>2. ASSUME NEW h \in Hosts, Remove(h) PROVE RingInv'
  <2>1. hash' = hash /\ down' = FALSE
    BY <1>2, RemoveRing DEF Remove
  <2>2. HashOK' /\ \A g \in Hosts : Placed(g, Replicas)' = Placed(g, Replicas)
    BY <2>1, <1>h
  <2>3. Copied'
    <3>1. ASSUME NEW g \in Hosts, NEW y \in Placed(g, Replicas) PROVE Count(keys', y) = copies'[g]
      <4>1. y \in Nat /\ Count(keys, y) = copies[g] /\ (y \in Placed(h, Replicas) <=> g = h)
        BY <1>0, <1>p, PlacedFacts DEF RingInv, Copied
      <4>2. copies'[g] = IF g = h THEN copies[g] - 1 ELSE copies[g]
        BY <1>2, RemoveHistory DEF RingInv
      <4>3. copies[g] \in Nat
        BY ConsistenceHashAssumption DEF RingInv
      <4>4. Count(keys', y) = Count(keys, y) - (IF y \in Placed(h, Replicas) THEN 1 ELSE 0)
        BY <1>2, <4>1, RemoveRing
      <4> QED
        BY <4>1, <4>2, <4>3, <4>4
    <3>2. ASSUME NEW y \in Nat, \A g \in Hosts : y \notin Placed(g, Replicas)
          PROVE  Count(keys', y) = 0
      <4>1. Count(keys, y) = 0
        BY <3>2 DEF RingInv, Copied
      <4>2. Count(keys', y) = Count(keys, y) - 0
        BY <1>2, <3>2, RemoveRing
      <4> QED
        BY <4>1, <4>2
    <3>3. \A y \in Nat : Count(keys, y)' = Count(keys', y)
      BY DEF Count, SearchInts
    <3> QED
      BY <1>p, <2>2, <3>1, <3>2, <3>3 DEF Copied
  <2>4. Owned'
    <3>1. ASSUME NEW g \in Hosts, NEW y \in Placed(g, Replicas)
          PROVE  owner'[y] = IF g \in Serving' THEN g ELSE None
      <4>1. y \in Positions /\ (y \in Placed(h, Replicas) <=> g = h)
        BY <1>0, PlacedFacts
      <4>2. owner[y] = IF g \in Serving THEN g ELSE None
        BY DEF RingInv, Owned
      <4>3. g \in Serving' <=> g \in Serving /\ g # h
        BY <1>2, RemoveHistory
      <4>4. owner'[y] = IF y \in Placed(h, Replicas) THEN None ELSE owner[y]
        BY <1>2, <4>1, RemoveRing
      <4> QED
        BY <4>1, <4>2, <4>3, <4>4
    <3> QED
      BY <2>2, <3>1 DEF Owned
  <2>5. keys' \in Seq(Positions) /\ Ordered(keys') /\ owner' \in [Positions -> Owners]
    BY <1>2, RemoveRing
  <2>6. copies' \in [Hosts -> 0 .. MaxCopies] /\ ownerless' \subseteq Member'
    BY <1>2, RemoveHistory
  <2>7. Ordered(keys)'
    BY <2>5 DEF Ordered
  <2> QED
    BY <2>1, <2>2, <2>3, <2>4, <2>5, <2>6, <2>7 DEF RingInv, Owners
<1>3. ASSUME NEW c \in Clients, Balance(c) PROVE RingInv'
  BY <1>3, <1>same DEF Balance
<1>4. ASSUME UNCHANGED vars PROVE RingInv'
  BY <1>4, <1>same DEF vars
<1> QED
  BY <1>1, <1>2, <1>3, <1>4 DEF Next

-----------------------------------------------------------------------------
(***************************************************************************)
(* Routing.                                                                *)
(***************************************************************************)
\* k is the key of s that x meets first, around the ring: no key lies
\* between them.
FirstFrom(s, x, k) ==
    /\ k \in Range(s)
    /\ \A p \in Range(s) : IF k >= x THEN p < x \/ k <= p ELSE p < x /\ k <= p

\* KeyOf for any list.
Around(s, x) == s[((SearchInts(s, x) - 1) % Len(s)) + 1]

LEMMA AroundIsFirst ==
    ASSUME NEW s \in Seq(Nat), Ordered(s), s # <<>>, NEW x \in Nat
    PROVE  FirstFrom(s, x, Around(s, x))
<1> DEFINE n == Len(s)
           at == SearchInts(s, x)
<1>1. n \in Nat \ {0} /\ \A j \in 1 .. n : s[j] \in Nat
  OBVIOUS
<1>2. at \in 1 .. (n + 1) /\ \A j \in 1 .. n : j < at <=> s[j] < x
  BY SearchIntsFinds, SearchIntsSplits
<1>3. Range(s) = {s[j] : j \in 1 .. n}
  BY DEF Range
<1>4. Around(s, x) = s[((at - 1) % n) + 1]
  BY DEF Around
<1> HIDE DEF n, at
<1>5. CASE at \in 1 .. n
  <2>1. (at - 1) % n = at - 1
    <3> DEFINE a == at - 1
    <3>1. a \in Nat /\ a < n
      BY <1>1, <1>5
    <3> HIDE DEF a
    <3>2. a % n = a
      BY <1>1, <3>1, Z3
    <3> QED
      BY <3>2 DEF a
  <2>2. Around(s, x) = s[at] /\ ~(s[at] < x) /\ s[at] \in Nat
    BY <1>1, <1>2, <1>4, <1>5, <2>1
  <2>3. ASSUME NEW j \in 1 .. n PROVE s[j] < x \/ s[at] <= s[j]
    <3>1. CASE j < at
      BY <1>2, <3>1
    <3>2. CASE at <= j
      BY <1>5, <3>2 DEF Ordered, n
    <3> QED
      BY <1>5, <3>1, <3>2
  <2> QED
    BY <1>3, <1>5, <2>2, <2>3 DEF FirstFrom
<1>6. CASE at = n + 1
  <2>1. (at - 1) % n = 0
    <3>1. at - 1 = n
      BY <1>1, <1>6
    <3>2. n % n = 0
      BY <1>1, Z3
    <3> QED
      BY <3>1, <3>2
  <2>2. 1 \in 1 .. n /\ Around(s, x) = s[1] /\ s[1] < x /\ s[1] \in Nat
    BY <1>1, <1>2, <1>4, <1>6, <2>1
  <2>3. ASSUME NEW j \in 1 .. n PROVE s[j] < x /\ s[1] <= s[j]
    <3>1. s[j] < x
      BY <1>1, <1>2, <1>6
    <3>2. 1 <= j /\ 1 \in 1 .. n
      BY <2>2
    <3>3. s[1] <= s[j]
      BY <3>2 DEF Ordered, n
    <3> QED
      BY <3>1, <3>3
  <2> QED
    BY <1>3, <2>2, <2>3 DEF FirstFrom
<1> QED
  BY <1>1, <1>2, <1>5, <1>6

\* There is one such key, and it stays the one where other keys go.
LEMMA FirstIsUnique ==
    ASSUME NEW s \in Seq(Nat), NEW t \in Seq(Nat), NEW x \in Nat, NEW j, NEW k,
           FirstFrom(s, x, j), FirstFrom(t, x, k), j \in Range(t), k \in Range(s)
    PROVE  j = k
<1>1. j \in Nat /\ k \in Nat
  BY DEF FirstFrom, Range
<1>2. IF j >= x THEN k < x \/ j <= k ELSE k < x /\ j <= k
  BY DEF FirstFrom
<1>3. IF k >= x THEN j < x \/ k <= j ELSE j < x /\ k <= j
  BY DEF FirstFrom
<1> QED
  BY <1>1, <1>2, <1>3

\* The key of a client, and to whom it belongs.
LEMMA Routed ==
    ASSUME RingInv, keys # <<>>, NEW x \in Positions
    PROVE  /\ FirstFrom(keys, x, KeyOf(x)) /\ KeyOf(x) \in Positions /\ Route(x) = owner[KeyOf(x)]
           /\ \E h \in Member : /\ KeyOf(x) \in Placed(h, Replicas)
                                /\ Route(x) = IF h \in Serving THEN h ELSE None
<1> DEFINE k == KeyOf(x)
<1>1. x \in Nat /\ keys \in Seq(Nat) /\ Ordered(keys)
  BY RingFacts, ConsistenceHashAssumption DEF RingInv
<1>2. FirstFrom(keys, x, k)
  BY <1>1, AroundIsFirst DEF KeyOf, Around
<1>3. k \in Range(keys) /\ k \in Nat /\ k \in Positions
  <2>1. k \in Range(keys)
    BY <1>2 DEF FirstFrom
  <2>2. Range(keys) \subseteq Positions
    BY DEF RingInv, Range
  <2> QED
    BY <2>1, <2>2, ConsistenceHashAssumption
<1>4. Route(x) = owner[k]
  BY DEF Route
<1> HIDE DEF k
<1>5. Count(keys, k) \in Nat /\ Count(keys, k) > 0
  BY <1>1, <1>3, CountedIsThere
<1>6. PICK h \in Hosts : k \in Placed(h, Replicas)
  BY <1>3, <1>5 DEF RingInv, Copied
<1>7. copies[h] > 0
  BY <1>5, <1>6 DEF RingInv, Copied
<1>8. h \in Member /\ owner[k] = IF h \in Serving THEN h ELSE None
  BY <1>6, <1>7 DEF Member, RingInv, Owned
<1> QED
  BY <1>2, <1>3, <1>4, <1>6, <1>8 DEF k

\* An empty ring has no members.
LEMMA EmptyRing ==
    ASSUME RingInv, keys = <<>> PROVE Member = {}
<1>1. keys \in Seq(Nat) /\ Ordered(keys) /\ Range(keys) = {}
  BY RingFacts DEF RingInv, Range
<1>2. ASSUME NEW h \in Member PROVE FALSE
  <2>1. h \in Hosts /\ copies[h] > 0
    BY DEF Member
  <2>2. PICK y \in Placed(h, Replicas) : y \in Positions
    BY <2>1, PlacedFacts DEF RingInv
  <2>3. y \in Nat
    BY <2>2, ConsistenceHashAssumption
  <2>4. Count(keys, y) = copies[h]
    BY <2>1 DEF RingInv, Copied
  <2> QED
    BY <1>1, <2>1, <2>3, <2>4, CountedIsThere
<1> QED
  BY <1>2

-----------------------------------------------------------------------------
(***************************************************************************)
(* The theorems.                                                           *)
(***************************************************************************)
LEMMA RingAlways == Spec => []RingInv
<1>1. Init => RingInv
  BY RingInvInit
<1>2. RingInv /\ [Next]_vars => RingInv'
  BY RingInvStep
<1> QED
  BY <1>1, <1>2, PTL DEF Spec

\* The values of every variable; the keys stay sorted through every Add and
\* Remove, though each sorts or cuts the list only around the key it touches.
THEOREM RingTypesOK == Spec => []TypeOK
<1> DEFINE Answers == answer \in [Clients -> Hosts \cup {None, NoHost}]
<1>1. Init => Answers
  BY DEF Init
<1>2. RingInv /\ Answers /\ [Next]_vars => Answers'
  <2> SUFFICES ASSUME RingInv, Answers, [Next]_vars PROVE Answers'
    OBVIOUS
  <2>1. ASSUME NEW c \in Clients, Balance(c) PROVE Answers'
    <3>1. keys # <<>> => Route(c) \in Hosts \cup {None, NoHost}
      <4>1. c \in Positions /\ Member \subseteq Hosts
        BY ConsistenceHashAssumption DEF Member
      <4> QED
        BY <4>1, Routed
    <3>2. answer' = [answer EXCEPT ![c] = IF keys = <<>> THEN NoHost ELSE Route(c)]
      BY <2>1 DEF Balance
    <3> QED
      BY <3>1, <3>2
  <2>2. ASSUME UNCHANGED answer PROVE Answers'
    BY <2>2
  <2> QED
    BY <2>1, <2>2 DEF Next, Add, Remove, vars
<1>3. RingInv /\ Answers => TypeOK
  <2> SUFFICES ASSUME RingInv, Answers PROVE TypeOK
    OBVIOUS
  <2>1. \A i \in 2 .. Len(keys) : keys[i - 1] <= keys[i]
    <3> TAKE i \in 2 .. Len(keys)
    <3>1. Len(keys) \in Nat
      BY DEF RingInv
    <3>2. i - 1 \in 1 .. Len(keys) /\ i \in 1 .. Len(keys) /\ i - 1 <= i
      BY <3>1
    <3> QED
      BY <3>2 DEF RingInv, Ordered
  <2> QED
    BY <2>1 DEF RingInv, HashOK, TypeOK, Owners
<1> QED
  BY <1>1, <1>2, <1>3, RingAlways, PTL DEF Spec

\* Balance finds the host of a key that was added and not removed since, or the
\* empty host of a key left behind, for every client.
THEOREM ClientsReachMembers == Spec => []RoutesToMember
<1>1. RingInv => RoutesToMember
  <2> SUFFICES ASSUME RingInv, keys # <<>>, NEW x \in Positions
               PROVE  \/ Route(x) \in Serving
                      \/ /\ Route(x) = None
                         /\ \E h \in ownerless, i \in Reps : hash[<<h, i>>] = KeyOf(x)
    BY DEF RoutesToMember
  <2>1. PICK h \in Member : /\ KeyOf(x) \in Placed(h, Replicas)
                            /\ Route(x) = IF h \in Serving THEN h ELSE None
    BY Routed
  <2>2. CASE h \in Serving
    BY <2>1, <2>2
  <2>3. CASE h \notin Serving
    <3>1. h \in ownerless /\ h \in Hosts
      BY <2>3 DEF Serving, Member
    <3>2. PICK i \in Reps : hash[<<h, i>>] = KeyOf(x)
      BY <2>1, <3>1, PlacedFacts DEF RingInv
    <3> QED
      BY <2>1, <2>3, <3>1, <3>2
  <2> QED
    BY <2>2, <2>3
<1> QED
  BY <1>1, RingAlways, PTL

\* Remove never slices past the last key: what it looks for is there once per
\* copy, as long as callers remove no more often than they add.
THEOREM RemoveFindsItsKeys == Spec => []RemoveNeverPanics
<1>1. RingInv => RemoveNeverPanics
  BY DEF RingInv, RemoveNeverPanics
<1> QED
  BY <1>1, RingAlways, PTL

\* The ring is a Balancer: Add and Remove change the rotation by one host, and
\* Balance answers with a host of it, or with the error only when it is empty;
\* the empty host comes only after a host added twice was removed once.
THEOREM RingImplementsBalancer == Spec => ImplementsBalancer
<1> DEFINE Step == Abstract!Next \/ (ownerless # {} /\ \E c \in Clients : answer'[c] = None)
<1>1. Init => Abstract!Init
  BY DEF Init, Abstract!Init, Serving, Member
<1>2. RingInv /\ TypeOK /\ [Next]_vars => [Step]_<<Serving, answer>>
  <2> SUFFICES ASSUME RingInv, TypeOK, [Next]_vars PROVE Step \/ UNCHANGED <<Serving, answer>>
    OBVIOUS
  <2>1. ASSUME NEW h \in Hosts, Add(h) PROVE Abstract!Add(h)
    <3>1. Serving' = Serving \cup {h} /\ answer' = answer
      BY <2>1, AddHistory DEF Add
    <3> QED
      BY <3>1 DEF Abstract!Add
  <2>2. ASSUME NEW h \in Hosts, Remove(h) PROVE Abstract!Remove(h)
    <3>1. Serving' = Serving \ {h} /\ answer' = answer
      BY <2>2, RemoveHistory DEF Remove
    <3> QED
      BY <3>1 DEF Abstract!Remove
  <2>3. ASSUME NEW c \in Clients, Balance(c) PROVE Step
    <3>1. /\ answer' = [answer EXCEPT ![c] = IF keys = <<>> THEN NoHost ELSE Route(c)]
          /\ copies' = copies /\ ownerless' = ownerless
      BY <2>3 DEF Balance, history
    <3>2. Serving' = Serving
      BY <3>1 DEF Serving, Member
    <3>3. CASE keys = <<>>
      <4>1. Serving = {}
        BY <3>3, EmptyRing DEF Serving
      <4>2. Abstract!Balance(c)
        BY <3>1, <3>2, <3>3, <4>1 DEF Abstract!Balance
      <4> QED
        BY <4>2 DEF Abstract!Next
    <3>4. CASE keys # <<>>
      <4>1. c \in Positions
        BY ConsistenceHashAssumption
      <4>2. PICK h \in Member : Route(c) = IF h \in Serving THEN h ELSE None
        BY <3>4, <4>1, Routed
      <4>3. CASE h \in Serving
        <5>1. answer' = [answer EXCEPT ![c] = h]
          BY <3>1, <3>4, <4>2, <4>3
        <5>2. Abstract!Balance(c)
          BY <3>2, <4>3, <5>1 DEF Abstract!Balance
        <5> QED
          BY <5>2 DEF Abstract!Next
      <4>4. CASE h \notin Serving
        <5>1. ownerless # {}
          BY <4>4 DEF Serving
        <5>2. answer'[c] = None
          BY <3>1, <3>4, <4>2, <4>4 DEF TypeOK
        <5> QED
          BY <5>1, <5>2
      <4> QED
        BY <4>3, <4>4
    <3> QED
      BY <3>3, <3>4
  <2>4. ASSUME UNCHANGED vars PROVE UNCHANGED <<Serving, answer>>
    BY <2>4 DEF vars, history, Serving, Member
  <2> HIDE DEF Step
  <2>5. (\E h \in Hosts : Add(h) \/ Remove(h)) => Abstract!Next
    BY <2>1, <2>2 DEF Abstract!Next
  <2>6. Abstract!Next => Step
    BY DEF Step
  <2> QED
    BY <2>3, <2>4, <2>5, <2>6 DEF Next
<1>3. ImplementsBalancer <=> Abstract!Init /\ [][Step]_<<Serving, answer>>
  BY DEF ImplementsBalancer
<1> QED
  BY <1>1, <1>2, <1>3, RingAlways, RingTypesOK, PTL DEF Spec

-----------------------------------------------------------------------------
(***************************************************************************)
(* Who moves when the ring changes.                                        *)
(***************************************************************************)
Moved(x) ==
    (keys # <<>> /\ keys' # <<>> /\ Route(x)' # Route(x)) =>
        \/ Route(x)' \in Serving' \ Serving
        \/ Route(x) \in Serving \ Serving'
        \/ Route(x) = None /\ ownerless \ ownerless' # {}

\* The key of x after a step, in the lists of the step.
LEMMA RoutedNext ==
    ASSUME RingInv', keys' # <<>>, NEW x \in Positions
    PROVE  /\ FirstFrom(keys', x, KeyOf(x)') /\ KeyOf(x)' \in Positions
           /\ Route(x)' = owner'[KeyOf(x)']
           /\ keys' \in Seq(Nat) /\ Ordered(keys')
<1>1. keys' \in Seq(Positions) /\ Ordered(keys)'
  BY DEF RingInv
<1>2. x \in Nat /\ keys' \in Seq(Nat) /\ Ordered(keys')
  BY <1>1, KeysAreNumbers, ConsistenceHashAssumption DEF Ordered
<1>3. KeyOf(x)' = Around(keys', x)
  BY DEF KeyOf, Around, SearchInts
<1>4. FirstFrom(keys', x, KeyOf(x)')
  BY <1>2, <1>3, AroundIsFirst
<1>5. Range(keys') \subseteq Positions
  BY <1>1 DEF Range
<1>6. KeyOf(x)' \in Positions
  BY <1>4, <1>5 DEF FirstFrom
<1>7. Route(x)' = owner'[KeyOf(x)']
  BY DEF Route
<1> QED
  BY <1>2, <1>4, <1>6, <1>7

LEMMA AddMoves ==
    ASSUME RingInv, RingInv', NEW h \in Hosts, Add(h), NEW x \in Positions,
           keys # <<>>, keys' # <<>>, Route(x)' # Route(x)
    PROVE  Route(x)' \in Serving' \ Serving
<1> DEFINE k == KeyOf(x)
           l == KeyOf(x)'
           P == Placed(h, Replicas)
<1>1. FirstFrom(keys, x, k) /\ k \in Positions /\ Route(x) = owner[k]
  BY Routed
<1>2. FirstFrom(keys', x, l) /\ l \in Positions /\ Route(x)' = owner'[l] /\ keys' \in Seq(Nat) /\ Ordered(keys')
  BY RoutedNext
<1>3. /\ \A y \in Nat : Count(keys', y) = Count(keys, y) + (IF y \in P THEN 1 ELSE 0)
      /\ \A p \in Positions : owner'[p] = IF p \in P THEN h ELSE owner[p]
  BY AddRing
<1>4. /\ keys \in Seq(Nat) /\ Ordered(keys) /\ x \in Nat /\ k \in Nat /\ l \in Nat
      /\ \A y \in Nat : Count(keys, y) \in Nat
  BY <1>1, <1>2, RingFacts, ConsistenceHashAssumption DEF RingInv
<1>5. Serving' = Serving \cup {h}
  BY AddHistory
<1>6. \A p \in P : Count(keys, p) = copies[h] /\ owner[p] = IF h \in Serving THEN h ELSE None
  BY DEF RingInv, Copied, Owned
<1> HIDE DEF k, l, P
<1>7. k \in Range(keys')
  <2>1. k \in Range(keys)
    BY <1>1 DEF FirstFrom
  <2>2. Count(keys, k) > 0
    BY <1>4, <2>1, CountedIsThere
  <2>3. Count(keys', k) > 0
    <3>1. Count(keys', k) = Count(keys, k) + (IF k \in P THEN 1 ELSE 0) /\ Count(keys, k) \in Nat
      BY <1>3, <1>4
    <3> QED
      BY <2>2, <3>1
  <2> QED
    BY <1>2, <1>4, <2>3, CountedIsThere
<1>8. CASE l \in Range(keys)
  <2>1. k = l
    BY <1>1, <1>2, <1>4, <1>7, <1>8, FirstIsUnique
  <2>2. k \in P /\ owner'[l] = h
    BY <1>1, <1>2, <1>3, <2>1
  <2>3. h \notin Serving
    BY <1>1, <1>2, <1>6, <2>1, <2>2
  <2> QED
    BY <1>2, <1>5, <2>2, <2>3
<1>9. CASE l \notin Range(keys)
  <2>1. Count(keys, l) = 0
    <3>1. ~(Count(keys, l) > 0)
      BY <1>4, <1>9, CountedIsThere
    <3> QED
      BY <1>4, <3>1
  <2>2. Count(keys', l) > 0
    BY <1>2, <1>4, CountedIsThere DEF FirstFrom
  <2>3. l \in P
    BY <1>3, <1>4, <2>1, <2>2
  <2>4. owner'[l] = h
    BY <1>2, <1>3, <2>3
  <2>5. h \notin Member
    BY <1>6, <2>1, <2>3 DEF Member
  <2> QED
    BY <1>2, <1>5, <2>4, <2>5 DEF Serving
<1> QED
  BY <1>8, <1>9

LEMMA RemoveMoves ==
    ASSUME RingInv, RingInv', NEW h \in Hosts, Remove(h), NEW x \in Positions,
           keys # <<>>, keys' # <<>>, Route(x)' # Route(x)
    PROVE  \/ Route(x) \in Serving \ Serving'
           \/ Route(x) = None /\ ownerless \ ownerless' # {}
<1> DEFINE k == KeyOf(x)
           l == KeyOf(x)'
           P == Placed(h, Replicas)
<1>1. FirstFrom(keys, x, k) /\ k \in Positions /\ Route(x) = owner[k]
  BY Routed
<1>2. FirstFrom(keys', x, l) /\ l \in Positions /\ Route(x)' = owner'[l] /\ keys' \in Seq(Nat) /\ Ordered(keys')
  BY RoutedNext
<1>3. /\ \A y \in Nat : Count(keys', y) = Count(keys, y) - (IF y \in P THEN 1 ELSE 0)
      /\ \A p \in Positions : owner'[p] = IF p \in P THEN None ELSE owner[p]
  BY RemoveRing
<1>4. /\ keys \in Seq(Nat) /\ Ordered(keys) /\ x \in Nat /\ k \in Nat /\ l \in Nat
      /\ \A y \in Nat : Count(keys, y) \in Nat
  BY <1>1, <1>2, RingFacts, ConsistenceHashAssumption DEF RingInv
<1>5. /\ Serving' = Serving \ {h} /\ copies[h] \in Nat /\ copies[h] >= 1
      /\ ownerless' = IF copies[h] > 1 THEN ownerless \cup {h} ELSE ownerless \ {h}
  BY RemoveHistory
<1>6. \A p \in P : Count(keys, p) = copies[h] /\ owner[p] = IF h \in Serving THEN h ELSE None
  BY DEF RingInv, Copied, Owned
<1> HIDE DEF k, l, P
<1>7. l \in Range(keys)
  <2>1. l \in Range(keys')
    BY <1>2 DEF FirstFrom
  <2>2. Count(keys', l) > 0
    BY <1>2, <1>4, <2>1, CountedIsThere
  <2>3. Count(keys, l) > 0
    <3>1. Count(keys', l) = Count(keys, l) - (IF l \in P THEN 1 ELSE 0) /\ Count(keys, l) \in Nat
      BY <1>3, <1>4
    <3> QED
      BY <2>2, <3>1
  <2> QED
    BY <1>4, <2>3, CountedIsThere
<1>8. ASSUME k \in Range(keys') PROVE k = l
  BY <1>1, <1>2, <1>4, <1>7, <1>8, FirstIsUnique
<1>9. k \in P
  <2> SUFFICES ASSUME k \notin P PROVE FALSE
    OBVIOUS
  <2>1. k \in Range(keys)
    BY <1>1 DEF FirstFrom
  <2>2. Count(keys, k) > 0
    BY <1>4, <2>1, CountedIsThere
  <2>3. Count(keys', k) > 0
    BY <1>3, <1>4, <2>2
  <2>4. k \in Range(keys')
    BY <1>2, <1>4, <2>3, CountedIsThere
  <2> QED
    BY <1>1, <1>2, <1>3, <1>8, <2>4
<1>10. CASE h \in Serving
  BY <1>1, <1>5, <1>6, <1>9, <1>10
<1>11. CASE h \notin Serving
  <2>1. h \in ownerless
    BY <1>11 DEF Remove, Serving
  <2>2. Route(x) = None
    BY <1>1, <1>6, <1>9, <1>11
  <2>3. ASSUME copies[h] > 1 PROVE FALSE
    <3>1. Count(keys', k) > 0
      <4>1. Count(keys', k) = Count(keys, k) - (IF k \in P THEN 1 ELSE 0)
        BY <1>3, <1>4
      <4>2. Count(keys, k) = copies[h]
        BY <1>6, <1>9
      <4> QED
        BY <1>5, <1>9, <2>3, <4>1, <4>2
    <3>2. k \in Range(keys')
      BY <1>2, <1>4, <3>1, CountedIsThere
    <3>3. Route(x)' = None
      BY <1>1, <1>2, <1>3, <1>8, <1>9, <3>2
    <3> QED
      BY <2>2, <3>3
  <2> QED
    BY <1>5, <2>1, <2>2, <2>3
<1> QED
  BY <1>10, <1>11

\* A change of the ring moves a client only to the host that came or away from
\* the one that went, or from keys left behind that went with it.
THEOREM OthersKeepTheirHost == Spec => OnlyAffectedClientsMove
<1>1. RingInv /\ RingInv' /\ [Next]_vars => [\A x \in Positions : Moved(x)]_vars
  <2> SUFFICES ASSUME RingInv, RingInv', [Next]_vars, NEW x \in Positions,
                      keys # <<>>, keys' # <<>>, Route(x)' # Route(x)
               PROVE  \/ Route(x)' \in Serving' \ Serving
                      \/ Route(x) \in Serving \ Serving'
                      \/ Route(x) = None /\ ownerless \ ownerless' # {}
    BY DEF Moved
  <2>1. ASSUME NEW h \in Hosts, Add(h) PROVE Route(x)' \in Serving' \ Serving
    BY <2>1, AddMoves
  <2>2. ASSUME NEW h \in Hosts, Remove(h)
        PROVE  \/ Route(x) \in Serving \ Serving'
               \/ Route(x) = None /\ ownerless \ ownerless' # {}
    BY <2>2, RemoveMoves
  <2>3. ASSUME keys' = keys, owner' = owner PROVE FALSE
    BY <2>3 DEF Route, KeyOf, SearchInts
  <2> QED
    BY <2>1, <2>2, <2>3 DEF Next, Balance, vars
<1>2. OnlyAffectedClientsMove <=> [][\A x \in Positions : Moved(x)]_vars
  BY DEF OnlyAffectedClientsMove, Moved
<1> QED
  BY <1>1, <1>2, RingAlways, PTL DEF Spec

=============================================================================
