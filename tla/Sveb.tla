-------------------------------- MODULE Sveb --------------------------------
(***************************************************************************)
(* Insertion and search of the static tree, SVEB/staticvebtree.c, called   *)
(* by any number of threads (baseline.c with one tree).  insert holds the  *)
(* global spinlock throughout; search_test drops it before it reads the    *)
(* slot that it found.  The globals that only the holder of the lock uses  *)
(* (h, bf, anc, lh, rh, level, was_in) are values inside one action.       *)
(***************************************************************************)
EXTENDS StaticVeb, FiniteSetsExt, SequencesExt

CONSTANTS
    Threads,   \* the threads that call insert and search_test
    Keys,
    OP_ADD, OP_READ,
    NoThread,  \* the holder of a lock that nobody holds
    NoCall     \* a thread outside insert and search_test

ASSUME KeysAssumption == Keys \subseteq Nat /\ \A k \in Keys : k < MAXINT

\* What an emptied slot holds until the subtree is rebuilt: -2 to -5 in the code.
Marker == -2

VARIABLES
    val,          \* the array, by address; empty between free and malloc
    size,
    keys,         \* the global counter
    helper,       \* the values taken out of the subtree that is being rebuilt
    node,         \* the root of that subtree
    global_lock,  \* the thread that holds it, or NoThread
    pc, call,     \* where each thread is, and what it was asked to do
    it,           \* the local variable of search_test
    ret,          \* what search_test returns: 0 not decided, 1 a miss, 2 a hit
    known         \* a history variable: the key was in the tree when the call began

vars == <<val, size, keys, helper, node, global_lock, pc, call, it, ret, known>>

locals == <<call, it, ret, known>>

Goto(t, label) == pc' = [pc EXCEPT ![t] = label]

Empty(n) == [ad \in 0..(n - 1) |-> MAXINT]

\* The keys in the tree, or in the hands of an insertion.
Members ==
    ({val[ad] : ad \in DOMAIN val} \ {MAXINT, Marker})
        \cup {helper[i] : i \in DOMAIN helper}

\* init_tree and init_memory; the value asked for, 2000000, does not set the size.
Init ==
    /\ size = 7
    /\ val = Empty(7)
    /\ keys = 0
    /\ helper = <<>>
    /\ node = 0
    /\ global_lock = NoThread
    /\ pc = [t \in Threads |-> "idle"]
    /\ call = [t \in Threads |-> NoCall]
    /\ it = [t \in Threads |-> 0]
    /\ ret = [t \in Threads |-> 0]
    /\ known = [t \in Threads |-> FALSE]

\* A thread calls insert or search_test.
Call(t, type, k) ==
    /\ pc[t] = "idle"
    /\ call' = [call EXCEPT ![t] = [type |-> type, key |-> k]]
    /\ known' = [known EXCEPT ![t] = k \in Members]
    /\ Goto(t, IF type = OP_ADD THEN "insert" ELSE "search")
    /\ UNCHANGED <<val, size, keys, helper, node, global_lock, it, ret>>

Return(t) ==
    /\ call' = [call EXCEPT ![t] = NoCall]
    /\ it' = [it EXCEPT ![t] = 0]
    /\ ret' = [ret EXCEPT ![t] = 0]
    /\ known' = [known EXCEPT ![t] = FALSE]
    /\ Goto(t, "idle")

-------------------------------------------------------------------------------
(* insert *)

\* The node where insert_rec stops: outside, empty, or with the key.
RECURSIVE Stop(_, _)
Stop(key, b) ==
    IF ~Inside(size, b) \/ val[Ad(size, b)] \in {MAXINT, key} THEN b
    ELSE Stop(key, IF key < val[Ad(size, b)] THEN 2*b ELSE 2*b + 1)

\* l_count and r_count: the values below b in order, but nothing below an empty slot.
RECURSIVE Gather(_)
Gather(b) ==
    IF ~Inside(size, b) \/ val[Ad(size, b)] = MAXINT THEN <<>>
    ELSE Gather(2*b) \o <<val[Ad(size, b)]>> \o Gather(2*b + 1)

\* The nodes that they, and insert_rec on its way up to b, leave a marker in.
RECURSIVE Taken(_)
Taken(b) ==
    IF ~Inside(size, b) \/ val[Ad(size, b)] = MAXINT THEN {}
    ELSE {b} \cup Taken(2*b) \cup Taken(2*b + 1)

\* The density that a subtree of that many levels may have, 1 - 0.6 level / max_dep;
\* up to max_dep = 5 the code's floating-point arithmetic agrees with this.
Dense(c, level) ==
    c * 10 * Bits[size] <= (2^level - 1) * (10 * Bits[size] - 6 * level)

\* Mutant of Helper: the new key, from which the others go outwards, is put one lower.
HelperOneLower(seq, key) ==
    LET lh == size - 1 - Cardinality({i \in DOMAIN seq : seq[i] < key})
    IN  [i \in lh..(lh + Len(seq) - 1) |-> seq[i - lh + 1]]

\* helper after insert_rec has returned from b with c = Len(seq): what is smaller
\* than the new key ends below helper[size], what is larger begins behind it.
Helper(seq, key) ==
    LET lh == size - Cardinality({i \in DOMAIN seq : seq[i] < key})
    IN  [i \in lh..(lh + Len(seq) - 1) |-> seq[i - lh + 1]]

\* Mutant of Ascend: the sibling's values are taken on the right only.
RECURSIVE AscendRight(_, _)
AscendRight(b, seq) ==
    LET p == b \div 2
        here == <<val[Ad(size, p)]>>
        c == IF b % 2 = 0 THEN seq \o here \o Gather(2*p + 1) ELSE here \o seq
    IN  IF b = 1 THEN [node |-> 0, seq |-> seq]
        ELSE IF Dense(Len(c), Height(Bits[size], p)) THEN [node |-> p, seq |-> c]
        ELSE AscendRight(p, c)

\* insert_rec on its way up from b, with seq taken from below b: the parent's value
\* and its other subtree are added until the subtree is not too dense to be rebuilt.
\* Node 0 stands for none: insert_rec( 0 ) returns the count.
RECURSIVE Ascend(_, _)
Ascend(b, seq) ==
    LET p == b \div 2
        here == <<val[Ad(size, p)]>>
        c == IF b % 2 = 0 THEN seq \o here \o Gather(2*p + 1)
                          ELSE Gather(2*p) \o here \o seq
    IN  IF b = 1 THEN [node |-> 0, seq |-> seq]
        ELSE IF Dense(Len(c), Height(Bits[size], p)) THEN [node |-> p, seq |-> c]
        ELSE Ascend(p, c)

\* rebuild: helper[lh..rh] spread over the subtree of b, the middle one at b.
RECURSIVE Rebuilt(_, _, _, _)
Rebuilt(v, b, lh, rh) ==
    IF ~Inside(size, b) THEN v
    ELSE LET m == IF lh > rh THEN lh ELSE (lh + rh) \div 2
             left == Rebuilt(v, 2*b, lh, m - 1)
             here == IF lh > rh THEN MAXINT ELSE helper[m]
         IN  Rebuilt([left EXCEPT ![Ad(size, b)] = here], 2*b + 1, m + 1, rh)

\* Mutant of InsertLock: the lock is not waited for.
InsertLockBusy(t) ==
    /\ pc[t] = "insert"
    /\ global_lock' = t
    /\ Goto(t, "insert_rec")
    /\ UNCHANGED <<val, size, keys, helper, node, locals>>

InsertLock(t) ==
    /\ pc[t] = "insert"
    /\ global_lock = NoThread
    /\ global_lock' = t
    /\ Goto(t, "insert_rec")
    /\ UNCHANGED <<val, size, keys, helper, node, locals>>

\* Mutant of InsertDuplicate: the counter is not taken back.
InsertDuplicateCounted(t) ==
    /\ pc[t] = "insert_rec"
    /\ LET b == Stop(call[t].key, 1) IN
        Inside(size, b) /\ val[Ad(size, b)] = call[t].key
    /\ keys' = keys + 1
    /\ Goto(t, "unlock")
    /\ UNCHANGED <<val, size, helper, node, global_lock, locals>>

\* The key is there (was_in).
InsertDuplicate(t) ==
    /\ pc[t] = "insert_rec"
    /\ LET b == Stop(call[t].key, 1) IN
        Inside(size, b) /\ val[Ad(size, b)] = call[t].key
    /\ Goto(t, "unlock")
    /\ UNCHANGED <<val, size, keys, helper, node, global_lock, locals>>

InsertEmpty(t) ==
    /\ pc[t] = "insert_rec"
    /\ LET b == Stop(call[t].key, 1) IN
        /\ Inside(size, b) /\ val[Ad(size, b)] = MAXINT
        /\ val' = [val EXCEPT ![Ad(size, b)] = call[t].key]
    /\ keys' = keys + 1
    /\ Goto(t, "unlock")
    /\ UNCHANGED <<size, helper, node, global_lock, locals>>

\* No slot is free on the path: values are taken out, from below a node that can
\* be rebuilt or from the whole tree.
InsertCollect(t) ==
    /\ pc[t] = "insert_rec"
    /\ LET b == Stop(call[t].key, 1)
           up == Ascend(b, <<call[t].key>>)
           marked == {Ad(size, x) : x \in Taken(IF up.node = 0 THEN 1 ELSE up.node)}
       IN  /\ ~Inside(size, b)
           /\ helper' = Helper(up.seq, call[t].key)
           /\ node' = up.node
           /\ val' = [ad \in DOMAIN val |-> IF ad \in marked THEN Marker ELSE val[ad]]
           /\ Goto(t, IF up.node = 0 THEN "grow" ELSE "rebuild")
    /\ keys' = keys + 1
    /\ UNCHANGED <<size, global_lock, locals>>

\* size is doubled and val freed.  (2 * size + 1 stays within MaxDepth levels.)
Grow(t) ==
    /\ pc[t] = "grow"
    /\ size' = (size + 1) * 2 - 1
    /\ val' = <<>>
    /\ node' = 1
    /\ Goto(t, "malloc")
    /\ UNCHANGED <<keys, helper, global_lock, locals>>

Malloc(t) ==
    /\ pc[t] = "malloc"
    /\ val' = Empty(size)
    /\ Goto(t, "rebuild")
    /\ UNCHANGED <<size, keys, helper, node, global_lock, locals>>

Rebuild(t) ==
    /\ pc[t] = "rebuild"
    /\ val' = Rebuilt(val, node, Min(DOMAIN helper), Max(DOMAIN helper))
    /\ helper' = <<>>
    /\ node' = 0
    /\ Goto(t, "unlock")
    /\ UNCHANGED <<size, keys, global_lock, locals>>

InsertUnlock(t) ==
    /\ pc[t] = "unlock"
    /\ global_lock' = NoThread
    /\ Return(t)
    /\ UNCHANGED <<val, size, keys, helper, node>>

-------------------------------------------------------------------------------
(* search_test *)

\* Lock, search, unlock.
SearchTest(t) ==
    /\ pc[t] = "search"
    /\ global_lock = NoThread
    /\ it' = [it EXCEPT ![t] = Search(val, size, call[t].key)]
    /\ Goto(t, "read")
    /\ UNCHANGED <<val, size, keys, helper, node, global_lock, call, ret, known>>

\* val[it] == key, without the lock.  Memory that is free, or not filled yet, may
\* hold anything.
SearchRead(t) ==
    /\ pc[t] = "read"
    /\ \E found \in BOOLEAN :
        /\ val # <<>> => found = (val[it[t]] = call[t].key)
        /\ ret' = [ret EXCEPT ![t] = IF found THEN 2 ELSE 1]
    /\ Goto(t, "answer")
    /\ UNCHANGED <<val, size, keys, helper, node, global_lock, call, it, known>>

SearchReturn(t) ==
    /\ pc[t] = "answer"
    /\ Return(t)
    /\ UNCHANGED <<val, size, keys, helper, node, global_lock>>

-------------------------------------------------------------------------------

InsertStep(t) ==
    \/ InsertLock(t) \/ InsertDuplicate(t) \/ InsertEmpty(t) \/ InsertCollect(t)
    \/ Grow(t) \/ Malloc(t) \/ Rebuild(t) \/ InsertUnlock(t)

SearchStep(t) == SearchTest(t) \/ SearchRead(t) \/ SearchReturn(t)

Next ==
    \E t \in Threads :
        \/ \E type \in {OP_ADD, OP_READ}, k \in Keys : Call(t, type, k)
        \/ InsertStep(t)
        \/ SearchStep(t)

Spec == Init /\ [][Next]_vars

-------------------------------------------------------------------------------
(* Properties *)

InsertLabels == {"insert", "insert_rec", "grow", "malloc", "rebuild", "unlock"}
SearchLabels == {"search", "read", "answer"}

Ints == Keys \cup {MAXINT, Marker}

\* Type invariant; the lock is held exactly between the two calls of it in insert.
TypeOK ==
    /\ val \in {<<>>} \cup [0..(size - 1) -> Ints]
    /\ size \in {2^d - 1 : d \in 1..MaxDepth}
    /\ keys \in Nat
    /\ \A i \in DOMAIN helper : helper[i] \in Keys
    /\ node \in 0..size
    /\ pc \in [Threads -> {"idle"} \cup InsertLabels \cup SearchLabels]
    /\ ret \in [Threads -> 0..2]
    /\ known \in [Threads -> BOOLEAN]
    /\ \A t \in Threads :
        /\ it[t] \in 0..(size - 1)
        /\ call[t] = NoCall <=> pc[t] = "idle"
        /\ global_lock = t <=> pc[t] \in InsertLabels \ {"insert"}

Settled == global_lock = NoThread

Ascending(seq) == \A i, j \in DOMAIN seq : i < j => seq[i] < seq[j]

\* test_rec_walk and test_it_walk pass whenever the lock is free, whatever was
\* rebuilt and however often the array grew: the tree is in order, the two walks
\* meet the same values, they are as many as the counter says, and a search finds
\* these and no others.  (The tests are for trees of the keys 0, 1, 2, ..., where
\* order and number make each value its rank, which they compare it with.)
WalksPass ==
    Settled =>
        LET walk == Walk(val, size, 1)
            met == {walk[i] : i \in DOMAIN walk}
        IN
        /\ Ascending(walk)
        /\ Len(walk) = keys
        /\ ItWalk(val, size, LeftEnd(size, 1), <<>>) = walk
        /\ \A k \in Keys : val[Search(val, size, k)] = k <=> k \in met

\* No step loses a key (`loosing things in rebuild!', line 180): neither the
\* markers, nor the rebuilding of a part, nor the move to a larger array.
NothingLost == [][Members \subseteq Members']_vars

\* A full tree has no slot for the smallest key, which is put before all others.
SmallestOfFull == DOMAIN helper = size..(2 * size)

\* What is taken out is in order and within helper, which has 2 * size elements
\* (lines 367 and 499).  There is one exception, where the code writes one element
\* behind them: all of a full tree goes to the right of a new key that is smaller.
HelperFits ==
    /\ \A i, j \in DOMAIN helper : i < j => helper[i] < helper[j]
    /\ DOMAIN helper \subseteq 0..(2 * size - 1) \/ SmallestOfFull

\* The order that van Emde Boas layout is defined by: the upper half of the levels
\* first, then each of the trees below it, from left to right, each laid out so.
Layout[b \in Nat, levels \in 1..MaxDepth] ==
    LET low == (levels + 1) \div 2
        top == levels - low
        below[i \in 0..2^top] ==
            IF i = 0 THEN <<>> ELSE below[i - 1] \o Layout[b * 2^top + i - 1, low]
    IN  IF levels = 1 THEN <<b>> ELSE Layout[b, top] \o below[2^top]

Orders == [d \in 1..MaxDepth |-> Layout[1, d]]

\* The address arithmetic of the descents yields that order, in each tree that the
\* array grows to.
AddressesFollowLayout ==
    \A i \in 1..size : Ad(size, Orders[Bits[size]][i]) = i - 1

\* `(global lock-based) STATIC IMPLICIT VEB Tree', line 4: a search finds a key that
\* was in the tree when it began, whatever other threads insert meanwhile.
FindsWhatWasThere == \A t \in Threads : pc[t] = "answer" /\ known[t] => ret[t] = 2
=============================================================================
