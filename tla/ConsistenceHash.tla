-------------------------- MODULE ConsistenceHash --------------------------
(***************************************************************************)
(* The consistent-hash balancer (balancer/consistence_hash.go): every host *)
(* has Replicas positions on a ring, a request goes to the owner of the    *)
(* first position at or after the hash of its client.                      *)
(*                                                                         *)
(* Every method holds the lock from start to end (Balance, which writes    *)
(* nothing, the read lock), so each is one step.  hash stands for crc32 of *)
(* the replica number and the host: any function without collisions, fixed *)
(* at the start.  A panic in Remove leaves what was done so far; in a      *)
(* health check it ends the process (down).                                *)
(*                                                                         *)
(* A host may be added again while it is there: on the leader AddProxy     *)
(* runs in the handler and in the FSM.  Add enters its keys once more, and *)
(* Remove takes one of each but the owner with it: keys without an owner   *)
(* stay, and Balance answers with the empty host and no error.  Callers    *)
(* remove no more often than they add; the code does not check it, and     *)
(* Remove of an absent host would drop a key of another one.               *)
(***************************************************************************)
EXTENDS Naturals, Sequences, FiniteSets, Functions

CONSTANTS
    Hosts,      \* host names
    Replicas,   \* load_balance.replicas
    Positions,  \* what the hash function returns, 0 .. n
    Clients,    \* client addresses, each named by its hash
    NoHost,     \* the error of an empty ring
    MaxCopies,  \* bound: how often a host is in the ring
    MaxRepeated \* bound: hosts that are in it more than once, or were

None == ""      \* what a Go map returns for a position without owner

ASSUME ConsistenceHashAssumption ==
    /\ Replicas \in Nat \ {0}
    /\ Positions \subseteq Nat
    /\ Clients \subseteq Positions
    /\ None \notin Hosts /\ NoHost \notin Hosts
    /\ MaxCopies \in Nat /\ MaxRepeated \in Nat

Reps == 0 .. (Replicas - 1)

VARIABLES
    hash,       \* crc32.ChecksumIEEE(strconv.Itoa(i) + host)
    keys,       \* ConsistenceHash.keys
    owner,      \* ConsistenceHash.hosts
    answer,     \* what the last Balance call for each client returned
    down,       \* a panic ended the process
    copies,     \* history: Adds of a host less its Removes
    ownerless   \* history: hosts with copies left that were removed last

history == <<copies, ownerless>>
vars == <<hash, keys, owner, answer, down, history>>

Member == {h \in Hosts : copies[h] > 0}

\* The hosts whose last call was Add.
Serving == Member \ ownerless

TypeOK ==
    /\ hash \in [Hosts \X Reps -> Positions]
    /\ keys \in Seq(Positions)
    /\ \A i \in 2 .. Len(keys) : keys[i - 1] <= keys[i]
    /\ owner \in [Positions -> Hosts \cup {None}]
    /\ answer \in [Clients -> Hosts \cup {None, NoHost}]
    /\ down \in BOOLEAN
    /\ copies \in [Hosts -> 0 .. MaxCopies]
    /\ ownerless \subseteq Member

-----------------------------------------------------------------------------
\* Mutant: the first index whose key is greater than x.
SearchInts_After(s, x) ==
    CHOOSE i \in 1 .. (Len(s) + 1) :
        /\ \A j \in 1 .. (i - 1) : s[j] <= x
        /\ i = Len(s) + 1 \/ s[i] > x

\* sort.SearchInts(s, x) + 1: the first index whose key is at least x.
SearchInts(s, x) ==
    CHOOSE i \in 1 .. (Len(s) + 1) :
        /\ \A j \in 1 .. (i - 1) : s[j] < x
        /\ i = Len(s) + 1 \/ s[i] >= x

\* One more key, and sort.Ints.
Insert(s, x) ==
    LET i == SearchInts(s, x) IN SubSeq(s, 1, i - 1) \o <<x>> \o SubSeq(s, i, Len(s))

DropAt(s, i) == SubSeq(s, 1, i - 1) \o SubSeq(s, i + 1, Len(s))

\* A key of h is entered, whether it is there or not.
Enter(r, x, h) ==
    [keys |-> Insert(r.keys, x), owner |-> [r.owner EXCEPT ![x] = h]]

\* The ring after Add: one key per replica.
AddTo(ring, h) ==
    LET after[i \in 0 .. Replicas] ==
            IF i = 0 THEN ring ELSE Enter(after[i - 1], hash[<<h, i - 1>>], h)
    IN  after[Replicas]

\* Mutant: as many keys as the host has go from the end of the ring.
RemoveFrom_WrongKey(ring, h) ==
    [keys |-> SubSeq(ring.keys, 1, Len(ring.keys) - Replicas),
     owner |-> [x \in Positions |-> IF ring.owner[x] = h THEN None ELSE ring.owner[x]],
     panic |-> FALSE]

\* The key that SearchInts finds goes, whatever it is; past the last key the
\* slice expression panics.
Delete(r, x) ==
    LET at == SearchInts(r.keys, x)
    IN  IF r.panic \/ at > Len(r.keys) THEN [r EXCEPT !.panic = TRUE]
        ELSE [r EXCEPT !.keys = DropAt(@, at), !.owner = [@ EXCEPT ![x] = None]]

\* The ring after Remove: a key less per replica, until it panics.
RemoveFrom(ring, h) ==
    LET after[i \in 0 .. Replicas] ==
            IF i = 0 THEN [keys |-> ring.keys, owner |-> ring.owner, panic |-> FALSE]
            ELSE Delete(after[i - 1], hash[<<h, i - 1>>])
    IN  after[Replicas]

\* Mutant: the hash modulo the number of keys, as in a plain hash table.
Route_Modulo(x) == owner[keys[(x % Len(keys)) + 1]]

\* The first key at or after x, around the ring, and its owner.
KeyOf(x) == keys[((SearchInts(keys, x) - 1) % Len(keys)) + 1]
Route(x) == owner[KeyOf(x)]

-----------------------------------------------------------------------------
\* NewConsistenceHash; the hosts it is given are then added one by one.
Init ==
    /\ hash \in Injection(Hosts \X Reps, Positions)
    /\ keys = <<>>
    /\ owner = [x \in Positions |-> None]
    /\ answer = [c \in Clients |-> NoHost]
    /\ down = FALSE
    /\ copies = [h \in Hosts |-> 0]
    /\ ownerless = {}

Ring == [keys |-> keys, owner |-> owner]

\* One more copy of h, within the bounds.
Counted(h) ==
    LET repeated == ownerless \cup {g \in Hosts : copies[g] > 1}
    IN  /\ copies[h] < MaxCopies
        /\ h \in Member => Cardinality(repeated \cup {h}) <= MaxRepeated
        /\ copies' = [copies EXCEPT ![h] = @ + 1]
        /\ ownerless' = ownerless \ {h}

\* Mutant: the new keys are appended and not sorted.
Add_Unsorted(h) ==
    /\ ~ down
    /\ keys' = keys \o [i \in 1 .. Replicas |-> hash[<<h, i - 1>>]]
    /\ owner' = AddTo(Ring, h).owner
    /\ Counted(h)
    /\ UNCHANGED <<hash, answer, down>>

Add(h) ==
    /\ ~ down
    /\ keys' = AddTo(Ring, h).keys
    /\ owner' = AddTo(Ring, h).owner
    /\ Counted(h)
    /\ UNCHANGED <<hash, answer, down>>

Remove(h) ==
    LET r == RemoveFrom(Ring, h)
    IN /\ ~ down
       /\ h \in Member
       /\ keys' = r.keys /\ owner' = r.owner /\ down' = r.panic
       /\ copies' = [copies EXCEPT ![h] = @ - 1]
       /\ ownerless' = IF copies[h] > 1 THEN ownerless \cup {h} ELSE ownerless \ {h}
       /\ UNCHANGED <<hash, answer>>

\* Mutant: an empty ring is not reported.
Balance_NoError(c) ==
    /\ ~ down
    /\ answer' = [answer EXCEPT ![c] = IF keys = <<>> THEN None ELSE Route(c)]
    /\ UNCHANGED <<hash, keys, owner, down, history>>

Balance(c) ==
    /\ ~ down
    /\ answer' = [answer EXCEPT ![c] = IF keys = <<>> THEN NoHost ELSE Route(c)]
    /\ UNCHANGED <<hash, keys, owner, down, history>>

Next ==
    \/ \E h \in Hosts : Add(h) \/ Remove(h)
    \/ \E c \in Clients : Balance(c)

Spec == Init /\ [][Next]_vars

-----------------------------------------------------------------------------
Abstract == INSTANCE Balancer WITH rotation <- Serving

(***************************************************************************)
(* The ring is a Balancer, for every placement of the replicas and however *)
(* often hosts are added: the rotation has the hosts whose last call was   *)
(* Add, and Balance answers with one of them.  The one exception is the    *)
(* empty host of a key that its host has left behind.                      *)
(***************************************************************************)
ImplementsBalancer ==
    /\ Abstract!Init
    /\ [][Abstract!Next \/ (ownerless # {} /\ \E c \in Clients : answer'[c] = None)]_
           <<Serving, answer>>

(***************************************************************************)
(* What consistent hashing is for: when a host comes or goes, a client is  *)
(* sent elsewhere only if it goes to the new host or came from the old     *)
(* one, or from the keys a host had left behind and now takes with it.     *)
(***************************************************************************)
OnlyAffectedClientsMove ==
    [][\A x \in Positions :
          (keys # <<>> /\ keys' # <<>> /\ Route(x)' # Route(x)) =>
              \/ Route(x)' \in Serving' \ Serving
              \/ Route(x) \in Serving \ Serving'
              \/ Route(x) = None /\ ownerless \ ownerless' # {}]_vars

(***************************************************************************)
(* ServeHTTP forwards to the host it is given when Balance reports no      *)
(* error.  That host was added and not removed since, for every client;    *)
(* it is the empty host only while a host that was added twice has been    *)
(* removed once, and only for clients whose key is one of that host.       *)
(***************************************************************************)
RoutesToMember ==
    (~ down /\ keys # <<>>) => \A x \in Positions :
        \/ Route(x) \in Serving
        \/ /\ Route(x) = None
           /\ \E h \in ownerless, i \in Reps : hash[<<h, i>>] = KeyOf(x)

(***************************************************************************)
(* Remove slices keys at the index SearchInts returns without looking at   *)
(* it: whatever was added, again too, and removed before, the key is there.*)
(***************************************************************************)
RemoveNeverPanics == ~ down
=============================================================================
