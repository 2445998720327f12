----------------------------- MODULE RadixTree -----------------------------
(***************************************************************************)
(* The access control list (acl/radix_tree.go): a binary trie of blocked   *)
(* networks with a free list of nodes, and Record, the listed networks by  *)
(* name.                                                                   *)
(*                                                                         *)
(* Addresses have W bits (the code: 32).  A network is a pair <<key, cidr>>, *)
(* the parsed form of "a.b.c.d/cidr"; a node's value is the network it was *)
(* added with, the string the code passes as value.  Workers are the       *)
(* goroutines that change the list: the admin handler and the raft FSM.    *)
(* The tree embeds an RWMutex that Add, Delete and search do not take, so  *)
(* a worker's step is one iteration of a loop of insert or delete.         *)
(*                                                                         *)
(* AclProofs extends this module and AclReplication, so the names that     *)
(* every specification has begin with tree here.                           *)
(***************************************************************************)
EXTENDS Integers, FiniteSets

CONSTANTS
    W,          \* bits of an address
    Networks,   \* networks the callers name, pairs <<key, cidr>>
    Workers,    \* goroutines inside Add or Delete
    MaxNodes,   \* bound: nodes allocated from the heap
    MaxOps      \* bound: calls of Add and Delete

\* 1 << n
Pow2[n \in 0 .. W] == IF n = 0 THEN 1 ELSE 2 * Pow2[n - 1]

Keys == 0 .. (Pow2[W] - 1)

ASSUME RadixTreeAssumption ==
    /\ W \in Nat \ {0}
    /\ Networks \subseteq Keys \X Int
    /\ MaxNodes \in Nat \ {0}
    /\ MaxOps \in Nat

Nil == 0
Root == 1
TreeNodes == 1 .. MaxNodes
NoValue == <<-1, -1>>      \* NO_VALUE, the empty string

VARIABLES
    left, right, parent, value,  \* the fields of the nodes
    used,                        \* nodes allocated so far are 1 .. used
    free,                        \* RadixTree.free, linked through right
    Record,                      \* RadixTree.Record
    w,                           \* the calls in progress
    nops,                        \* calls made so far
    reused,                      \* history: newNode took a node of the free list
    panicked                     \* history: the networks whose call panicked

heap == <<left, right, parent, value, used, free>>
treeVars == <<heap, Record, w, nops, reused, panicked>>

IdleCall == [pc |-> "idle", net |-> NoValue, node |-> Nil, d |-> 0]
PCs == {"idle", "descend", "grow", "record", "find", "unlink", "unrecord"}

TreeTypeOK ==
    /\ {left, right, parent} \subseteq [TreeNodes -> TreeNodes \cup {Nil}]
    /\ value \in [TreeNodes -> Networks \cup {NoValue}]
    /\ used \in TreeNodes
    /\ free \in TreeNodes \cup {Nil}
    /\ Record \subseteq Networks
    /\ w \in [Workers -> [pc : PCs, net : Networks \cup {NoValue},
                          node : TreeNodes \cup {Nil}, d : 0 .. W]]
    /\ nops \in 0 .. MaxOps
    /\ reused \in BOOLEAN
    /\ panicked \subseteq Networks

\* NewRadixTree.
TreeInit ==
    /\ left = [n \in TreeNodes |-> Nil]
    /\ right = [n \in TreeNodes |-> Nil]
    /\ parent = [n \in TreeNodes |-> Nil]
    /\ value = [n \in TreeNodes |-> NoValue]
    /\ used = Root
    /\ free = Nil
    /\ Record = {}
    /\ w = [p \in Workers |-> IdleCall]
    /\ nops = 0
    /\ reused = FALSE
    /\ panicked = {}

-----------------------------------------------------------------------------
(***************************************************************************)
(* Bits.  bit = MAX_IPV4_BIT >> d; for d >= W the bit has been shifted out. *)
(***************************************************************************)
BitOf(x, d) == d < W /\ (x \div Pow2[W - 1 - d]) % 2 = 1

\* ((1 << (32 - cidr)) - 1) ^ 0xffffffff in uint32: a shift by the width or
\* more gives 0, so every cidr <= 0 gives the empty mask.
NetMask(cidr) ==
    LET one == IF W - cidr >= W THEN 0 ELSE Pow2[W - cidr]
    IN  (Pow2[W] - 1) - ((one - 1) % Pow2[W])

Masked(net, d) == BitOf(NetMask(net[2]), d)
Child(n, key, d) == IF BitOf(key, d) THEN right[n] ELSE left[n]

-----------------------------------------------------------------------------
(***************************************************************************)
(* Add and insert.                                                         *)
(***************************************************************************)
Begin(p, net, pc) ==
    /\ w[p].pc = "idle"
    /\ nops < MaxOps
    /\ nops' = nops + 1
    /\ w' = [w EXCEPT ![p] = [pc |-> pc, net |-> net, node |-> Root, d |-> 0]]
    /\ UNCHANGED <<heap, Record, reused, panicked>>

\* Add has no check of the range of cidr; one above the width makes the shift
\* count negative, a panic before anything is changed.
Add(p, net) == net[2] <= W /\ Begin(p, net, "descend")

AddPanic(p, net) ==
    /\ w[p].pc = "idle" /\ nops < MaxOps
    /\ net[2] > W
    /\ nops' = nops + 1
    /\ panicked' = panicked \cup {net}
    /\ UNCHANGED <<heap, Record, w, reused>>

\* First loop of insert: follow the nodes that exist, until one is missing ...
Descend(p) ==
    LET c == w[p]
        next == Child(c.node, c.net[1], c.d)
    IN /\ c.pc = "descend" /\ Masked(c.net, c.d)
       /\ w' = [w EXCEPT ![p] =
                   IF next = Nil THEN [c EXCEPT !.pc = "grow"]
                                 ELSE [c EXCEPT !.node = next, !.d = @ + 1]]
       /\ UNCHANGED <<heap, Record, nops, reused, panicked>>

\* ... or the mask ends; both loops end by setting the value of the node.
SetValue(p) ==
    LET c == w[p]
    IN /\ c.pc \in {"descend", "grow"} /\ ~ Masked(c.net, c.d)
       /\ value' = [value EXCEPT ![c.node] = c.net]
       /\ w' = [w EXCEPT ![p].pc = "record"]
       /\ UNCHANGED <<left, right, parent, used, free, Record, nops, reused, panicked>>

\* Second loop of insert with newNode: the free list first.  A reused node
\* keeps its right pointer, the link of the free list, and its left pointer.
Grow(p) ==
    LET c == w[p]
        new == IF free # Nil THEN free ELSE used + 1
    IN /\ c.pc = "grow" /\ Masked(c.net, c.d)
       /\ IF free # Nil
          THEN free' = right[free] /\ reused' = TRUE /\ UNCHANGED used
          ELSE used < MaxNodes /\ used' = used + 1 /\ UNCHANGED <<free, reused>>
       /\ parent' = [parent EXCEPT ![new] = c.node]
       /\ value' = [value EXCEPT ![new] = NoValue]
       /\ IF BitOf(c.net[1], c.d)
          THEN right' = [right EXCEPT ![c.node] = new] /\ UNCHANGED left
          ELSE left' = [left EXCEPT ![c.node] = new] /\ UNCHANGED right
       /\ w' = [w EXCEPT ![p].node = new, ![p].d = @ + 1]
       /\ UNCHANGED <<Record, nops, panicked>>

\* Mutant: Record is written under the empty string.
Enlist_NoName(p) ==
    /\ w[p].pc = "record"
    /\ Record' = Record \cup {NoValue}
    /\ w' = [w EXCEPT ![p] = IdleCall]
    /\ UNCHANGED <<heap, nops, reused, panicked>>

Enlist(p) ==
    /\ w[p].pc = "record"
    /\ Record' = Record \cup {w[p].net}
    /\ w' = [w EXCEPT ![p] = IdleCall]
    /\ UNCHANGED <<heap, nops, reused, panicked>>

-----------------------------------------------------------------------------
(***************************************************************************)
(* Delete and delete.                                                      *)
(***************************************************************************)
\* A cidr outside 0 .. 32 is refused with InvaildNetMask.
Delete(p, net) == net[2] \in 0 .. W /\ Begin(p, net, "find")

Find(p) ==
    LET c == w[p]
    IN /\ c.pc = "find" /\ c.node # Nil /\ Masked(c.net, c.d)
       /\ w' = [w EXCEPT ![p] = [c EXCEPT !.node = Child(c.node, c.net[1], c.d),
                                          !.d = @ + 1]]
       /\ UNCHANGED <<heap, Record, nops, reused, panicked>>

Leaf(n) == left[n] = Nil /\ right[n] = Nil
Found(p) == w[p].pc = "find" /\ w[p].node # Nil /\ ~ Masked(w[p].net, w[p].d)

\* CantFindIpNet: no such node, or an inner node without a value.
NotFound(p) ==
    LET n == w[p].node
    IN /\ w[p].pc = "find"
       /\ n = Nil \/ (Found(p) /\ ~ Leaf(n) /\ value[n] = NoValue)
       /\ w' = [w EXCEPT ![p] = IdleCall]
       /\ UNCHANGED <<heap, Record, nops, reused, panicked>>

ClearValue(p) ==
    LET n == w[p].node
    IN /\ Found(p) /\ ~ Leaf(n) /\ value[n] # NoValue
       /\ value' = [value EXCEPT ![n] = NoValue]
       /\ w' = [w EXCEPT ![p].pc = "unrecord"]
       /\ UNCHANGED <<left, right, parent, used, free, Record, nops, reused, panicked>>

\* A leaf is unlinked without looking at its value.
FoundLeaf(p) ==
    /\ Found(p) /\ Leaf(w[p].node)
    /\ w' = [w EXCEPT ![p].pc = "unlink"]
    /\ UNCHANGED <<heap, Record, nops, reused, panicked>>

\* node.parent.right with a nil parent: the root is the leaf.
UnlinkPanic(p) ==
    /\ w[p].pc = "unlink" /\ parent[w[p].node] = Nil
    /\ panicked' = panicked \cup {w[p].net}
    /\ w' = [w EXCEPT ![p] = IdleCall]
    /\ UNCHANGED <<heap, Record, nops, reused>>

\* Mutant: the node always is unlinked from the left of its parent.
Unlink_LeftOnly(p) ==
    LET n == w[p].node
        up == parent[n]
    IN /\ w[p].pc = "unlink" /\ up # Nil
       /\ right' = [right EXCEPT ![n] = free]
       /\ left' = [left EXCEPT ![up] = Nil]
       /\ free' = n
       /\ w' = [w EXCEPT ![p].node = up, ![p].pc = "unrecord"]
       /\ UNCHANGED <<parent, value, used, Record, nops, reused, panicked>>

\* Mutant: the loop does not stop at the root.
Unlink_PastRoot(p) ==
    LET n == w[p].node
        up == parent[n]
        onRight == right[up] = n
    IN /\ w[p].pc = "unlink" /\ up # Nil
       /\ right' = [m \in TreeNodes |-> CASE m = n -> free
                                      [] m = up /\ m # n /\ onRight -> Nil
                                      [] OTHER -> right[m]]
       /\ left' = IF onRight THEN left ELSE [left EXCEPT ![up] = Nil]
       /\ free' = n
       /\ w' = [w EXCEPT ![p].node = up,
                         ![p].pc = IF \/ right'[up] # Nil \/ left'[up] # Nil
                                      \/ value[up] # NoValue
                                   THEN "unrecord" ELSE "unlink"]
       /\ UNCHANGED <<parent, value, used, Record, nops, reused, panicked>>

\* One iteration: unlink the node, push it on the free list (its value and
\* parent stay), and go on with the parent while that is an empty leaf.
Unlink(p) ==
    LET n == w[p].node
        up == parent[n]
        onRight == right[up] = n
    IN /\ w[p].pc = "unlink" /\ up # Nil
       /\ right' = [m \in TreeNodes |-> CASE m = n -> free
                                      [] m = up /\ m # n /\ onRight -> Nil
                                      [] OTHER -> right[m]]
       /\ left' = IF onRight THEN left ELSE [left EXCEPT ![up] = Nil]
       /\ free' = n
       /\ w' = [w EXCEPT ![p].node = up,
                         ![p].pc = IF \/ right'[up] # Nil \/ left'[up] # Nil
                                      \/ value[up] # NoValue
                                      \/ parent[up] = Nil
                                   THEN "unrecord" ELSE "unlink"]
       /\ UNCHANGED <<parent, value, used, Record, nops, reused, panicked>>

Delist(p) ==
    /\ w[p].pc = "unrecord"
    /\ Record' = Record \ {w[p].net}
    /\ w' = [w EXCEPT ![p] = IdleCall]
    /\ UNCHANGED <<heap, nops, reused, panicked>>

Step(p) ==
    \/ Descend(p) \/ SetValue(p) \/ Grow(p) \/ Enlist(p)
    \/ Find(p) \/ NotFound(p) \/ ClearValue(p) \/ FoundLeaf(p)
    \/ UnlinkPanic(p) \/ Unlink(p) \/ Delist(p)

TreeNext ==
    \/ \E p \in Workers, net \in Networks : Add(p, net) \/ AddPanic(p, net) \/ Delete(p, net)
    \/ \E p \in Workers : Step(p)

TreeSpec == TreeInit /\ [][TreeNext]_treeVars

-----------------------------------------------------------------------------
(***************************************************************************)
(* search(key): the value of the last node on the key's path that has one. *)
(* Past the last bit the path goes left; a path longer than any tree of    *)
(* MaxNodes nodes is an endless loop.                                      *)
(***************************************************************************)
Fuel == W + MaxNodes + 1
Endless == <<-2, -2>>

Path(key) ==
    LET at[d \in 0 .. Fuel] ==
            IF d = 0 THEN Root
            ELSE LET up == at[d - 1] IN IF up = Nil THEN Nil ELSE Child(up, key, d - 1)
    IN  at

search(key) ==
    LET at == Path(key)
        valued == {d \in 0 .. Fuel : at[d] # Nil /\ value[at[d]] # NoValue}
    IN  CASE at[Fuel] # Nil -> Endless
          [] at[Fuel] = Nil /\ valued = {} -> NoValue
          [] OTHER -> value[at[CHOOSE d \in valued : \A e \in valued : e <= d]]

-----------------------------------------------------------------------------
(***************************************************************************)
(* What the list promises: an address is judged by the longest listed      *)
(* network that contains it.                                               *)
(***************************************************************************)
Contains(net, key) == \A d \in 0 .. (W - 1) : Masked(net, d) => BitOf(net[1], d) = BitOf(key, d)

LongestMatch(S, key) ==
    LET C == {net \in S : Contains(net, key)}
    IN  IF C = {} THEN NoValue
        ELSE CHOOSE net \in C : \A other \in C : other[2] <= net[2]

\* Record is keyed by what a caller wrote, the tree by address and mask: the
\* list is a set of networks if callers write each network in one way only,
\* and none with a negative mask (a second name of /0).
DistinctNetworks ==
    /\ \A net \in Networks : 0 <= net[2]
    /\ \A a, b \in Networks :
          a[2] <= W /\ a[2] = b[2] /\ Contains(a, b[1]) => a = b

Adding == {w[p].net : p \in {q \in Workers : w[q].pc \in {"descend", "grow", "record"}}}
Deleting == {w[p].net : p \in {q \in Workers : w[q].pc \in {"find", "unlink", "unrecord"}}}

(***************************************************************************)
(* Requests search the tree without a lock while a call changes it: until  *)
(* a node of the free list is used again, what they find is the longest    *)
(* match in Record as it was before that call or as it is after it.        *)
(***************************************************************************)
SearchMatchesRecord ==
    ~ reused =>
        \A key \in Keys :
            search(key) \in {LongestMatch(Record, key),
                             LongestMatch((Record \cup Adding) \ Deleting, key)}

(***************************************************************************)
(* As TestRadixTree expects: searching an address whose /32 network is     *)
(* listed finds that network, once no call is in progress.                 *)
(***************************************************************************)
SearchFindsListed ==
    (\A p \in Workers : w[p].pc = "idle") =>
        \A net \in Record : net[2] = W => search(net[1]) = net

(***************************************************************************)
(* Delete follows parent pointers upwards and Add computes a shift from    *)
(* its argument, neither with a check: only the masks at the edges make a  *)
(* call panic, /0 (the root as a leaf has no parent) and those beyond the  *)
(* width, however often nodes of the free list have been used again.       *)
(***************************************************************************)
PanicsOnlyAtEdges == \A net \in panicked : net[2] \notin 1 .. W
=============================================================================
