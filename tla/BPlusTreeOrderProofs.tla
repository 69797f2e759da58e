------------------------- MODULE BPlusTreeOrderProofs -------------------------
(***************************************************************************)
(* The order of the tree, for any number of threads that insert, delete    *)
(* and search, any order of the tree and any keys: the keys ascend along   *)
(* the leaves, every key in a leaf is within reach, and the way down to a  *)
(* leaf never misses to the right.  The invariant needs three functions    *)
(* that the code does not have:                                            *)
(*                                                                         *)
(*   l[n]   the least key that a descent may bring to node n,              *)
(*   r[n]   the number of leaves to the right of leaf n, -1 for a leaf     *)
(*          that is not linked yet (and 0 for an inner node),              *)
(*   h[n]   the height of node n.                                          *)
(*                                                                         *)
(* It says nothing of where a node is in the tree: l never changes, and    *)
(* every pointer to a node respects it, in whichever parent it is found    *)
(* and from whichever root.  (Where get_left_index would run behind its    *)
(* array the model stops, so this is about what comes before.)             *)
(***************************************************************************)
EXTENDS BPlusTreeProofs, SumTheorems

-------------------------------------------------------------------------------
(* The keys that count *)

\* The labels where num_keys is not the number of entries of every node held.
Special ==
    {"leaf_count", "node_count", "leaf_link", "leaf_cut", "node_split", "remove_count"}

\* The entries of node n with num_keys = num, which a thread at the label holds.
Pending(label, f, n, num) ==
    IF label = "leaf_count" \/ (label = "node_count" /\ n = f.parent) THEN num + 1
    ELSE IF label \in {"leaf_link", "leaf_cut"} /\ n = f.left THEN cut(Order - 1)
    ELSE IF label = "node_split" /\ n = f.left THEN Order - 1
    ELSE IF label = "remove_count" THEN num - 1
    ELSE num

Count(n) ==
    IF Free(n) THEN nodes[n].num_keys
    ELSE Pending(pc[lock[n]], frame[lock[n]], n, nodes[n].num_keys)

\* A leaf that is split, whose upper half is not linked yet, and that upper half.
Splitting(n) == ~Free(n) /\ pc[lock[n]] = "leaf_link" /\ n = frame[lock[n]].left
Unlinked(n) == ~Free(n) /\ pc[lock[n]] = "leaf_link" /\ n = frame[lock[n]].right

KeysUpTo(n, num) == {nodes[n].keys[i] : i \in 0 .. num - 1}

\* The keys that are in a leaf's place in the order.
Contents(n) ==
    KeysUpTo(n, Count(n)) \cup
        (IF Splitting(n)
         THEN KeysUpTo(frame[lock[n]].right, nodes[frame[lock[n]].right].num_keys)
         ELSE {})

\* These keys of leaf p, and the word before its array, are less than v; so are those
\* of all leaves to the left of leaf q.
Below(p, v) == BeforeKeys < v /\ \A x \in Contents(p) : x < v
Above(r, q, v) == \A p \in Leaves : r[p] > r[q] => Below(p, v)

-------------------------------------------------------------------------------
(* The invariant: nodes *)

\* A descent to child i brings no key that is less than the child's least.
Routed(l, n, i) ==
    l[nodes[n].pointers[i]] <= IF i = 0 THEN l[n] ELSE nodes[n].keys[i - 1]

Routes(l, r, h, n) ==
    /\ h[n] > 0 /\ r[n] >= 0
    /\ \A i \in 0 .. Count(n) :
          /\ nodes[n].pointers[i] \in Nodes
          /\ r[nodes[n].pointers[i]] >= 0
          /\ h[n] = h[nodes[n].pointers[i]] + 1
          /\ Routed(l, n, i)

Chained(r, h, n) ==
    /\ h[n] = 0
    /\ IF Unlinked(n) THEN r[n] = -1 ELSE r[n] >= 0
    /\ r[n] <= 0 => NextLeaf(n) = NULL
    /\ r[n] > 0 => NextLeaf(n) # NULL /\ r[NextLeaf(n)] = r[n] - 1

Sorted(n) ==
    /\ \A i, j \in 0 .. Count(n) - 1 : i < j => nodes[n].keys[i] < nodes[n].keys[j]
    /\ \A i \in 0 .. Count(n) - 1 : BeforeKeys <= nodes[n].keys[i]

Ascends(l, r, n) ==
    r[n] >= 0 => Above(r, n, l[n]) /\ \A y \in Contents(n) : Above(r, n, y)

LeavesOrder(l, r, h) ==
    /\ \A n \in Leaves : Chained(r, h, n) /\ Sorted(n) /\ Ascends(l, r, n)
    /\ \A p, q \in Leaves : r[p] = r[q] /\ r[p] >= 0 => p = q

\* The new half of a node that is split, for which its parent is still to be found.
IsRight(n) == ~Free(n) /\ pc[lock[n]] \in HoldsRight /\ n = frame[lock[n]].right

\* Whatever has no parent is leftmost.
Leftmost(l, n) == nodes[n].parent = NULL => l[n] <= BeforeKeys \/ IsRight(n)

NodeOrder(l, r, h) ==
    /\ LeavesOrder(l, r, h)
    /\ \A n \in Inner : Routes(l, r, h, n)
    /\ \A n \in Nodes : Leftmost(l, n)
    /\ l[root] <= BeforeKeys /\ r[root] >= 0

-------------------------------------------------------------------------------
(* The invariant: what a thread relies on *)

DeleteHeld == {"find_again", "find_read", "delete"}

\* On its way down and right.
WayOrder(l, r, t) ==
    LET left == frame[t].left
        key_leaf == frame[t].key_leaf
    IN
    /\ pc[t] # "idle" => l[frame[t].root] <= BeforeKeys /\ r[frame[t].root] >= 0 /\ r[left] >= 0
    /\ pc[t] = "descend" /\ call[t].type # OP_READ => l[left] <= Key(t)
    /\ pc[t] \in {"at_leaf", "leaf_lock_parent", "leaf_split"} => Above(r, left, Key(t))
    /\ pc[t] \in {"leaf_lock_parent", "leaf_split"} =>
          ~GoesRight(left, Key(t)) /\ ~IsPresent(t) /\ nodes[left].num_keys = Order - 1
    /\ pc[t] \in DeleteHeld /\ call[t].type = OP_DELETE =>
          Above(r, key_leaf, Key(t)) /\ r[key_leaf] >= 0 /\ ~GoesRight(key_leaf, Key(t))
    /\ pc[t] = "find_again" =>
          IF left \in Leaves THEN r[left] >= r[key_leaf] ELSE l[left] <= Key(t)

\* While it splits nodes.
SplitOrder(l, r, h, t) ==
    LET left == frame[t].left
        right == frame[t].right
        parent == frame[t].parent
    IN
    /\ pc[t] = "leaf_link" =>
          /\ nodes[right].num_keys > 0
          /\ l[right] = nodes[right].keys[0]
          /\ \A i \in 0 .. Count(left) - 1 : nodes[left].keys[i] < l[right]
    /\ pc[t] = "leaf_cut" => r[right] >= 0 /\ l[right] <= nodes[right].keys[0]
    /\ pc[t] \in {"into_parent", "follow_lock"} \cup SplitLabels =>
          r[right] >= 0 /\ l[right] <= frame[t].key
    /\ pc[t] \in {"into_parent", "follow_lock"} => h[right] = h[left]
    /\ pc[t] \in SplitLabels => h[left] = h[right] + 1
    /\ pc[t] \in {"node_lock_parent", "node_empty"} => nodes[left].num_keys = Order - 1
    /\ pc[t] \in HoldsParent /\ parent = NULL => l[left] <= BeforeKeys
    /\ pc[t] \in {"into_parent", "follow_lock", "node_count"} /\ parent # NULL =>
          nodes[right].parent # NULL

ThreadOrder(l, r, h, t) == WayOrder(l, r, t) /\ SplitOrder(l, r, h, t)

Ghosts(l, r, h) == l \in [Nat -> Int] /\ r \in [Nat -> Int] /\ h \in [Nat -> Nat]

Ordered(l, r, h) ==
    /\ Ghosts(l, r, h)
    /\ NodeOrder(l, r, h)
    /\ \A t \in Threads : ThreadOrder(l, r, h, t)

OInv == \E l, r, h : Ordered(l, r, h)

-------------------------------------------------------------------------------
(* A step of one thread, and what it leaves alone *)

Alone(t) ==
    \A u \in Threads \ {t} : pc'[u] = pc[u] /\ call'[u] = call[u] /\ frame'[u] = frame[u]

\* A node loses its parent only as the new half of a leaf that is split.
Steady(t) ==
    /\ Alone(t)
    /\ Nodes \subseteq Nodes'
    /\ \A n \in Nodes :
          /\ n \in Leaves' <=> n \in Leaves
          /\ nodes[n].parent # NULL =>
                \/ nodes'[n].parent # NULL
                \/ lock[n] = t /\ pc'[t] \in HoldsRight /\ n = frame'[t].right
          /\ lock[n] # t => /\ nodes'[n].num_keys = nodes[n].num_keys
                            /\ nodes'[n].keys = nodes[n].keys
                            /\ nodes'[n].pointers = nodes[n].pointers

\* A node whose part in the order is not changed.
SameKeys(n) == Count(n)' = Count(n) /\ nodes'[n].keys = nodes[n].keys

SameLeaf(n) ==
    /\ SameKeys(n)
    /\ NextLeaf(n)' = NextLeaf(n)
    /\ Contents(n)' = Contents(n)
    /\ Unlinked(n)' <=> Unlinked(n)

SameInner(n) == SameKeys(n) /\ nodes'[n].pointers = nodes[n].pointers

SameEntries(n) ==
    SameKeys(n) /\ \A i \in 0 .. Count(n) - 1 : nodes'[n].pointers[i] = nodes[n].pointers[i]

\* A step that changes no entry that counts.
KeptEntries ==
    /\ UNCHANGED <<Nodes, Leaves, Inner>>
    /\ \A n \in Leaves : SameEntries(n)
    /\ \A n \in Inner : SameInner(n)

SameParents == \A n \in Nodes : nodes'[n].parent = nodes[n].parent

LEMMA NodeNumbers ==
    ASSUME NodesOK
    PROVE  \A n \in Nodes : n \in Nat /\ n # NULL
BY DEF NodesOK, Nodes, NULL

LEMMA GotoAlone ==
    ASSUME BInv, NEW t \in Threads, NEW label, NEW locals, Goto(t, label, locals),
           \A u \in Threads \ {t} : call'[u] = call[u]
    PROVE  Alone(t) /\ pc'[t] = label /\ frame'[t] = locals
BY DEF BInv, Goto, Alone

\* A thread that does nothing keeps the locks it has.
LEMMA OtherHolder ==
    ASSUME BInv, BInv', NEW t \in Threads, Alone(t), Nodes \subseteq Nodes',
           NEW u \in Threads \ {t}
    PROVE  /\ \A n \in Nodes : lock'[n] = u <=> lock[n] = u
           /\ \A n \in Nodes' \ Nodes : lock'[n] # u
<1>1. LockOK(u) /\ FrameOK(u) /\ NodesOK
  BY ThreadFacts
<1>2. \A n \in Nodes' : lock'[n] = u <=> Holds(u, n)'
  BY DEF BInv, ThreadOK, LockOK
<1>3. \A n : Holds(u, n)' <=> Holds(u, n)
  BY DEF Holds, Deleting, Alone
<1>4. \A n : Holds(u, n) => n \in Nodes \cup {NULL}
  BY <1>1 DEF FrameOK, Holds, Inner, Leaves, HoldsLeft, HoldsRight, HoldsParent
<1>5. NULL \notin Nodes'
  BY NullIsNoNode DEF BInv
<1> QED BY <1>1, <1>2, <1>3, <1>4, <1>5 DEF LockOK

LEMMA LockType ==
    ASSUME BInv, NEW n \in Nodes
    PROVE  lock[n] \in Threads \cup {NoThread} /\ (Free(n) <=> lock[n] = NoThread)
BY DEF BInv, NodesOK, Free

LEMMA LockTypeNext ==
    ASSUME BInv', NEW n \in Nodes'
    PROVE  lock'[n] \in Threads \cup {NoThread} /\ (Free(n)' <=> lock'[n] = NoThread)
BY DEF BInv, NodesOK, Free

\* The lock of a node that the thread neither had nor has.
LEMMA LockKept ==
    ASSUME BInv, BInv', NEW t \in Threads, Alone(t), Nodes \subseteq Nodes',
           NEW n \in Nodes, lock[n] # t, lock'[n] # t
    PROVE  lock'[n] = lock[n]
<1>1. lock[n] \in Threads \cup {NoThread} /\ lock'[n] \in Threads \cup {NoThread}
  BY LockType, LockTypeNext
<1>2. \A u \in Threads \ {t} : lock'[n] = u <=> lock[n] = u
  BY OtherHolder
<1> QED BY <1>1, <1>2

-------------------------------------------------------------------------------
(* What is counted *)

LEMMA PendingPlain ==
    ASSUME NEW label, label \notin Special, NEW f, NEW n, NEW num
    PROVE  Pending(label, f, n, num) = num
BY DEF Pending, Special

LEMMA HeldBy ==
    ASSUME BInv, NEW t \in Threads, NEW n \in Nodes, lock[n] = t
    PROVE  /\ Count(n) = Pending(pc[t], frame[t], n, nodes[n].num_keys)
           /\ Splitting(n) <=> pc[t] = "leaf_link" /\ n = frame[t].left
           /\ Unlinked(n) <=> pc[t] = "leaf_link" /\ n = frame[t].right
           /\ IsRight(n) <=> pc[t] \in HoldsRight /\ n = frame[t].right
<1>1. ~Free(n)
  BY MenuAssumption DEF Free
<1> QED BY <1>1 DEF Count, Splitting, Unlinked, IsRight

LEMMA HeldByNext ==
    ASSUME BInv', NEW t \in Threads, NEW n \in Nodes', lock'[n] = t
    PROVE  /\ Count(n)' = Pending(pc'[t], frame'[t], n, nodes'[n].num_keys)
           /\ Splitting(n)' <=> pc'[t] = "leaf_link" /\ n = frame'[t].left
           /\ Unlinked(n)' <=> pc'[t] = "leaf_link" /\ n = frame'[t].right
           /\ IsRight(n)' <=> pc'[t] \in HoldsRight /\ n = frame'[t].right
<1>1. ~Free(n)'
  BY MenuAssumption DEF Free
<1> QED BY <1>1 DEF Count, Splitting, Unlinked, IsRight

LEMMA HeldByNone ==
    ASSUME NEW n, lock[n] = NoThread
    PROVE  Count(n) = nodes[n].num_keys /\ ~Splitting(n) /\ ~Unlinked(n) /\ ~IsRight(n)
BY DEF Free, Count, Splitting, Unlinked, IsRight

LEMMA HeldByNoneNext ==
    ASSUME NEW n, lock'[n] = NoThread
    PROVE  Count(n)' = nodes'[n].num_keys /\ ~Splitting(n)' /\ ~Unlinked(n)' /\ ~IsRight(n)'
BY DEF Free, Count, Splitting, Unlinked, IsRight

LEMMA CountBounds ==
    ASSUME BInv, NEW n \in Nodes
    PROVE  Count(n) \in 0 .. Order - 1
<1> DEFINE num == nodes[n].num_keys
<1>1. num \in 0 .. Order - 1
  BY ThreadFacts, NodeFields DEF BInv
<1>2. CASE lock[n] = NoThread
  BY <1>1, <1>2, HeldByNone
<1>3. ASSUME NEW t \in Threads, lock[n] = t
      PROVE  Count(n) \in 0 .. Order - 1
  <2>1. Count(n) = Pending(pc[t], frame[t], n, num)
    BY <1>3, HeldBy
  <2>2. CallOK(t) /\ RoomOK(t) /\ Holds(t, n)
    BY <1>3, ThreadFacts DEF LockOK
  <2>3. CASE pc[t] = "leaf_count" \/ (pc[t] = "node_count" /\ n = frame[t].parent)
    <3>1. num < Order - 1
      BY <2>2, <2>3 DEF RoomOK, Holds, HoldsRight, HoldsParent, Deleting, DeleteLabels
    <3> HIDE DEF num
    <3> QED BY <1>1, <2>1, <2>3, <3>1, OrderAssumption DEF Pending
  <2>4. CASE pc[t] = "remove_count"
    <3>1. num > 0
      BY <2>2, <2>4 DEF RoomOK, Holds, HoldsLeft, HoldsRight, HoldsParent
    <3> HIDE DEF num
    <3> QED BY <1>1, <2>1, <2>4, <3>1, OrderAssumption DEF Pending
  <2>5. cut(Order - 1) \in 0 .. Order - 1 /\ Order - 1 \in 0 .. Order - 1
    BY CutBounds, OrderAssumption
  <2> HIDE DEF num
  <2> QED BY <1>1, <2>1, <2>3, <2>4, <2>5 DEF Pending
<1> QED BY <1>2, <1>3, LockType

LEMMA KeysUpToInt ==
    ASSUME NodesOK, NEW n \in Nodes, NEW num \in 0 .. Order - 1
    PROVE  KeysUpTo(n, num) \subseteq Int
<1>1. nodes[n].keys \in [Slots -> Int]
  BY NodeFields
<1>2. \A i \in 0 .. num - 1 : i \in Slots
  BY OrderAssumption DEF Slots
<1> QED BY <1>1, <1>2 DEF KeysUpTo

LEMMA ContentsInt ==
    ASSUME BInv, NEW n \in Leaves
    PROVE  Contents(n) \subseteq Int
<1>1. NodesOK /\ n \in Nodes
  BY DEF BInv, Leaves
<1>2. KeysUpTo(n, Count(n)) \subseteq Int
  BY <1>1, CountBounds, KeysUpToInt
<1>3. ASSUME Splitting(n)
      PROVE  KeysUpTo(frame[lock[n]].right, nodes[frame[lock[n]].right].num_keys) \subseteq Int
  <2>1. lock[n] \in Threads /\ pc[lock[n]] = "leaf_link"
    BY <1>1, <1>3, LockType DEF Splitting
  <2>2. frame[lock[n]].right \in Nodes
    BY <2>1, ThreadFacts DEF FrameOK, HoldsRight
  <2> QED BY <1>1, <2>2, NodeFields, KeysUpToInt
<1> QED BY <1>2, <1>3 DEF Contents

\* What holds of node n after a step of another thread.
LEMMA OutsideKept ==
    ASSUME BInv, BInv', NEW t \in Threads, Steady(t),
           NEW n \in Nodes, lock[n] # t, lock'[n] # t
    PROVE  /\ SameKeys(n) /\ nodes'[n].pointers = nodes[n].pointers
           /\ n \in Leaves => SameLeaf(n)
           /\ IsRight(n)' <=> IsRight(n)
<1>1. /\ nodes'[n].num_keys = nodes[n].num_keys /\ nodes'[n].keys = nodes[n].keys
      /\ nodes'[n].pointers = nodes[n].pointers
      /\ Alone(t) /\ Nodes \subseteq Nodes'
  BY DEF Steady
<1>2. lock'[n] = lock[n]
  BY <1>1, LockKept
<1>3. CASE lock[n] = NoThread
  <2>1. /\ Count(n) = nodes[n].num_keys /\ ~Splitting(n) /\ ~Unlinked(n) /\ ~IsRight(n)
    BY <1>3, HeldByNone
  <2>2. /\ Count(n)' = nodes'[n].num_keys /\ ~Splitting(n)' /\ ~Unlinked(n)' /\ ~IsRight(n)'
    BY <1>2, <1>3, HeldByNoneNext
  <2>3. Contents(n)' = Contents(n)
    BY <1>1, <2>1, <2>2 DEF Contents, KeysUpTo
  <2> QED BY <1>1, <2>1, <2>2, <2>3 DEF SameKeys, SameLeaf, NextLeaf
<1>4. ASSUME NEW u \in Threads \ {t}, lock[n] = u
      PROVE  /\ SameKeys(n)
             /\ n \in Leaves => SameLeaf(n)
             /\ IsRight(n)' <=> IsRight(n)
  <2>1. pc'[u] = pc[u] /\ frame'[u] = frame[u]
    BY <1>1 DEF Alone
  <2>2. /\ Count(n) = Pending(pc[u], frame[u], n, nodes[n].num_keys)
        /\ Splitting(n) <=> pc[u] = "leaf_link" /\ n = frame[u].left
        /\ Unlinked(n) <=> pc[u] = "leaf_link" /\ n = frame[u].right
        /\ IsRight(n) <=> pc[u] \in HoldsRight /\ n = frame[u].right
    BY <1>4, HeldBy
  <2>3. n \in Nodes'
    BY <1>1
  <2>4. /\ Count(n)' = Pending(pc'[u], frame'[u], n, nodes'[n].num_keys)
        /\ Splitting(n)' <=> pc'[u] = "leaf_link" /\ n = frame'[u].left
        /\ Unlinked(n)' <=> pc'[u] = "leaf_link" /\ n = frame'[u].right
        /\ IsRight(n)' <=> pc'[u] \in HoldsRight /\ n = frame'[u].right
    BY <1>2, <1>4, <2>3, HeldByNext
  <2>5. /\ Count(n)' = Count(n) /\ (Splitting(n)' <=> Splitting(n))
        /\ (Unlinked(n)' <=> Unlinked(n)) /\ (IsRight(n)' <=> IsRight(n))
    BY <1>1, <2>1, <2>2, <2>4
  <2>6. ASSUME Splitting(n)
        PROVE  LET right == frame[u].right IN
               /\ nodes'[right].keys = nodes[right].keys
               /\ nodes'[right].num_keys = nodes[right].num_keys
    <3>1. frame[u].right \in Nodes /\ Holds(u, frame[u].right)
      BY <2>2, <2>6, ThreadFacts DEF FrameOK, Holds, HoldsRight
    <3>2. lock[frame[u].right] = u
      BY <3>1, ThreadFacts DEF LockOK
    <3> QED BY <3>1, <3>2 DEF Steady
  <2>7. Contents(n)' = Contents(n)
    <3>1. KeysUpTo(n, Count(n))' = KeysUpTo(n, Count(n))
      BY <1>1, <2>5 DEF KeysUpTo
    <3>2. CASE Splitting(n)
      <4>1. KeysUpTo(frame[lock[n]].right, nodes[frame[lock[n]].right].num_keys)'
              = KeysUpTo(frame[lock[n]].right, nodes[frame[lock[n]].right].num_keys)
        BY <1>2, <1>4, <2>1, <2>6, <3>2 DEF KeysUpTo
      <4> QED BY <2>5, <3>1, <3>2, <4>1 DEF Contents
    <3>3. CASE ~Splitting(n)
      BY <2>5, <3>1, <3>3 DEF Contents
    <3> QED BY <3>2, <3>3
  <2> QED BY <1>1, <2>5, <2>7 DEF SameKeys, SameLeaf, NextLeaf
<1>5. lock[n] = NoThread \/ lock[n] \in Threads \ {t}
  BY LockType
<1> QED BY <1>1, <1>3, <1>4, <1>5

-------------------------------------------------------------------------------
(* The parts of the invariant that a step does not touch *)

\* What the functions l, r, h become in a step.
Later(l, r, h, l2, r2, h2) ==
    /\ Ghosts(l2, r2, h2)
    /\ \A n \in Nodes : l2[n] = l[n] /\ h2[n] = h[n] /\ (r[n] >= 0 => r2[n] >= 0)
    /\ \A p, q \in Nodes : r[q] >= 0 /\ r[p] >= r[q] => r2[p] >= r2[q]
    /\ \A q \in Leaves, v \in Int : r[q] >= 0 /\ Above(r, q, v) => Above(r2, q, v)'

LEMMA AboveKept ==
    ASSUME Leaves' = Leaves, \A n \in Leaves : Contents(n)' = Contents(n),
           NEW r, NEW q, NEW v
    PROVE  Above(r, q, v)' <=> Above(r, q, v)
<1>1. \A n \in Leaves : Below(n, v)' <=> Below(n, v)
  BY DEF Below
<1> QED BY <1>1 DEF Above

LEMMA SameLater ==
    ASSUME NEW l, NEW r, NEW h, Ghosts(l, r, h),
           Leaves' = Leaves, \A n \in Leaves : Contents(n)' = Contents(n)
    PROVE  Later(l, r, h, l, r, h)
BY AboveKept DEF Later

LEMMA LeavesOrderKept ==
    ASSUME NodesOK, NEW l, NEW r, NEW h, LeavesOrder(l, r, h),
           Leaves' = Leaves, \A n \in Leaves : SameLeaf(n),
           NEW l2, NEW r2, NEW h2,
           \A n \in Leaves : l2[n] = l[n] /\ r2[n] = r[n] /\ h2[n] = h[n]
    PROVE  LeavesOrder(l2, r2, h2)'
<1>1. ASSUME NEW n \in Leaves
      PROVE  Chained(r2, h2, n)' /\ Sorted(n)' /\ Ascends(l2, r2, n)'
  <2>1. Chained(r, h, n) /\ Sorted(n) /\ Ascends(l, r, n) /\ SameLeaf(n)
        /\ l2[n] = l[n] /\ r2[n] = r[n] /\ h2[n] = h[n]
    BY DEF LeavesOrder
  <2>2. NextLeaf(n) \in Leaves \cup {NULL}
    BY DEF NodesOK, Linked, Leaves
  <2>3. Chained(r2, h2, n)'
    BY <2>1, <2>2 DEF Chained, SameLeaf
  <2>4. Sorted(n)'
    BY <2>1 DEF Sorted, SameLeaf, SameKeys
  <2>5. \A v : Above(r2, n, v)' <=> Above(r, n, v)
    <3>1. \A v : \A p \in Leaves : Below(p, v)' <=> Below(p, v)
      BY DEF Below, SameLeaf
    <3> QED BY <2>1, <3>1 DEF Above
  <2>6. Ascends(l2, r2, n)'
    BY <2>1, <2>5 DEF Ascends, SameLeaf
  <2> QED BY <2>3, <2>4, <2>6
<1>2. \A p, q \in Leaves : r2[p] = r2[q] /\ r2[p] >= 0 => p = q
  BY DEF LeavesOrder
<1> QED BY <1>1, <1>2 DEF LeavesOrder

LEMMA RoutesKept ==
    ASSUME NEW n \in Nodes, NEW l, NEW r, NEW h, Routes(l, r, h, n),
           SameInner(n), Nodes \subseteq Nodes',
           NEW l2, NEW r2, NEW h2,
           \A m \in Nodes : l2[m] = l[m] /\ h2[m] = h[m] /\ (r[m] >= 0 => r2[m] >= 0)
    PROVE  Routes(l2, r2, h2, n)'
<1>1. \A i \in 0 .. Count(n) : Routed(l, n, i) /\ nodes[n].pointers[i] \in Nodes
         => Routed(l2, n, i)'
  BY DEF Routed, SameInner, SameKeys
<1> QED BY <1>1 DEF Routes, SameInner, SameKeys

LEMMA KeptHeld ==
    ASSUME BInv, NEW t \in Threads, Steady(t), NEW u \in Threads \ {t},
           NEW n \in Nodes, Holds(u, n)
    PROVE  /\ lock[n] = u
           /\ nodes'[n].keys = nodes[n].keys
           /\ nodes'[n].num_keys = nodes[n].num_keys
           /\ NextLeaf(n)' = NextLeaf(n)
           /\ \A k : GoesRight(n, k)' <=> GoesRight(n, k)
           /\ \A k : InsertionIndex(n, k)' = InsertionIndex(n, k)
<1>1. lock[n] = u
  BY ThreadFacts DEF LockOK
<1>2. /\ nodes'[n].keys = nodes[n].keys
      /\ nodes'[n].num_keys = nodes[n].num_keys
      /\ nodes'[n].pointers = nodes[n].pointers
  BY <1>1 DEF Steady
<1> QED BY <1>1, <1>2 DEF GoesRight, LastKey, NextLeaf, InsertionIndex

LEMMA OthersWay ==
    ASSUME BInv, BInv', NEW t \in Threads, Steady(t),
           NEW l, NEW r, NEW h, NEW l2, NEW r2, NEW h2, Later(l, r, h, l2, r2, h2),
           NEW u \in Threads \ {t}, WayOrder(l, r, u)
    PROVE  WayOrder(l2, r2, u)'
<1> DEFINE left == frame[u].left
           key_leaf == frame[u].key_leaf
<1>1. /\ CallOK(u) /\ FrameOK(u)
      /\ pc'[u] = pc[u] /\ call'[u] = call[u] /\ frame'[u] = frame[u] /\ Key(u)' = Key(u)
  BY ThreadFacts DEF Steady, Alone, Key
<1>2. \A n \in Nodes : l2[n] = l[n] /\ (r[n] >= 0 => r2[n] >= 0)
  BY DEF Later
<1>3. pc[u] # "idle" => l2[frame[u].root] <= BeforeKeys /\ r2[frame[u].root] >= 0 /\ r2[left] >= 0
  BY <1>1, <1>2 DEF FrameOK, WayOrder
<1>4. pc[u] = "descend" /\ call[u].type # OP_READ => l2[left] <= Key(u)
  BY <1>1, <1>2 DEF FrameOK, WayOrder
<1>5. pc[u] \in {"at_leaf", "leaf_lock_parent", "leaf_split"} => Above(r2, left, Key(u))'
  <2> SUFFICES ASSUME pc[u] \in {"at_leaf", "leaf_lock_parent", "leaf_split"}
               PROVE  Above(r2, left, Key(u))'
    OBVIOUS
  <2>1. left \in Leaves /\ r[left] >= 0 /\ Above(r, left, Key(u)) /\ Key(u) \in Int
    BY <1>1, KeyIsInt DEF FrameOK, LeafLabels, WayOrder
  <2>2. \A q \in Leaves, v \in Int : r[q] >= 0 /\ Above(r, q, v) => Above(r2, q, v)'
    BY DEF Later
  <2>3. PICK q, k : q = left /\ k = Key(u)
    OBVIOUS
  <2>4. Above(r2, q, k)'
    BY <2>1, <2>2, <2>3
  <2> QED BY <1>1, <2>3, <2>4 DEF Above, Below
<1>6. pc[u] \in {"leaf_lock_parent", "leaf_split"} =>
         /\ ~GoesRight(left, Key(u))' /\ ~IsPresent(u)'
         /\ nodes'[left].num_keys = Order - 1
  <2> SUFFICES ASSUME pc[u] \in {"leaf_lock_parent", "leaf_split"}
               PROVE  /\ ~GoesRight(left, Key(u))' /\ ~IsPresent(u)'
                      /\ nodes'[left].num_keys = Order - 1
    OBVIOUS
  <2>1. left \in Nodes /\ Holds(u, left)
    BY <1>1 DEF FrameOK, LeafLabels, Holds, HoldsLeft
  <2>2. ~GoesRight(left, Key(u)) /\ ~IsPresent(u) /\ nodes[left].num_keys = Order - 1
    BY DEF WayOrder
  <2>3. /\ nodes'[left].keys = nodes[left].keys
        /\ nodes'[left].num_keys = nodes[left].num_keys
        /\ NextLeaf(left)' = NextLeaf(left)
        /\ InsertionIndex(left, Key(u))' = InsertionIndex(left, Key(u))
    <3>1. lock[left] = u
      BY <2>1, KeptHeld
    <3>2. /\ nodes'[left].keys = nodes[left].keys
          /\ nodes'[left].num_keys = nodes[left].num_keys
          /\ nodes'[left].pointers = nodes[left].pointers
      BY <2>1, <3>1 DEF Steady
    <3>3. frame'[u].left = frame[u].left
      BY <1>1
    <3> QED BY <1>1, <3>2, <3>3 DEF NextLeaf, InsertionIndex, left
  <2>4. frame'[u].left = left
    BY <1>1
  <2> QED BY <1>1, <2>2, <2>3, <2>4 DEF GoesRight, LastKey, IsPresent
<1>7. pc[u] \in DeleteHeld /\ call[u].type = OP_DELETE =>
         Above(r2, key_leaf, Key(u))' /\ r2[key_leaf] >= 0 /\ ~GoesRight(key_leaf, Key(u))'
  <2> SUFFICES ASSUME pc[u] \in DeleteHeld, call[u].type = OP_DELETE
               PROVE  /\ Above(r2, key_leaf, Key(u))' /\ r2[key_leaf] >= 0
                      /\ ~GoesRight(key_leaf, Key(u))'
    OBVIOUS
  <2>1. /\ key_leaf \in Leaves /\ key_leaf \in Nodes /\ Holds(u, key_leaf)
        /\ r[key_leaf] >= 0 /\ Above(r, key_leaf, Key(u)) /\ ~GoesRight(key_leaf, Key(u))
        /\ Key(u) \in Int
    BY <1>1, KeyIsInt
       DEF FrameOK, Deleting, DeleteLabels, DeleteHeld, Holds, WayOrder, Leaves
  <2>2. \A q \in Leaves, v \in Int : r[q] >= 0 /\ Above(r, q, v) => Above(r2, q, v)'
    BY DEF Later
  <2>3. PICK q, k : q = key_leaf /\ k = Key(u)
    OBVIOUS
  <2>4. /\ nodes'[key_leaf].keys = nodes[key_leaf].keys
        /\ nodes'[key_leaf].num_keys = nodes[key_leaf].num_keys
        /\ NextLeaf(key_leaf)' = NextLeaf(key_leaf)
    <3>1. lock[key_leaf] = u
      BY <2>1, KeptHeld
    <3> QED BY <1>1, <2>1, <3>1 DEF Steady, NextLeaf
  <2>5. Above(r2, q, k)'
    BY <2>1, <2>2, <2>3
  <2>6. Above(r2, key_leaf, Key(u))'
    BY <1>1, <2>3, <2>5 DEF Above, Below
  <2>7. ~GoesRight(key_leaf, Key(u))'
    BY <1>1, <2>1, <2>4 DEF GoesRight, LastKey
  <2>8. r2[key_leaf] >= 0
    BY <1>2, <2>1
  <2> QED BY <2>6, <2>7, <2>8
<1>8. pc[u] = "find_again" =>
         IF left \in Leaves' THEN r2[left] >= r2[key_leaf] ELSE l2[left] <= Key(u)
  <2> SUFFICES ASSUME pc[u] = "find_again"
               PROVE  IF left \in Leaves' THEN r2[left] >= r2[key_leaf] ELSE l2[left] <= Key(u)
    OBVIOUS
  <2>1. /\ left \in Nodes /\ key_leaf \in Nodes /\ r[key_leaf] >= 0
        /\ left \in Leaves' <=> left \in Leaves
        /\ IF left \in Leaves THEN r[left] >= r[key_leaf] ELSE l[left] <= Key(u)
    <3>1. call[u].type = OP_DELETE
      BY <1>1 DEF CallOK, DeleteLabels
    <3> QED BY <1>1, <3>1
            DEF FrameOK, Deleting, DeleteLabels, DeleteHeld, WayOrder, Leaves, Steady
  <2>2. \A p, q \in Nodes : r[q] >= 0 /\ r[p] >= r[q] => r2[p] >= r2[q]
    BY DEF Later
  <2> QED BY <1>2, <2>1, <2>2
<1> QED BY <1>1, <1>3, <1>4, <1>5, <1>6, <1>7, <1>8 DEF WayOrder

LEMMA OthersSplit ==
    ASSUME BInv, BInv', NEW t \in Threads, Steady(t),
           NEW l, NEW r, NEW h, NEW l2, NEW r2, NEW h2, Later(l, r, h, l2, r2, h2),
           NEW u \in Threads \ {t}, SplitOrder(l, r, h, u)
    PROVE  SplitOrder(l2, r2, h2, u)'
<1> DEFINE left == frame[u].left
           right == frame[u].right
           parent == frame[u].parent
<1>1. CallOK(u) /\ FrameOK(u) /\ pc'[u] = pc[u] /\ frame'[u] = frame[u]
  BY ThreadFacts DEF Steady, Alone
<1>2. \A n \in Nodes : l2[n] = l[n] /\ h2[n] = h[n] /\ (r[n] >= 0 => r2[n] >= 0)
  BY DEF Later
<1>3. pc[u] \in HoldsLeft => left \in Nodes
  BY <1>1 DEF FrameOK, HoldsLeft
<1>4. pc[u] \in HoldsRight \cup SplitLabels => right \in Nodes
  BY <1>1 DEF FrameOK
<1>5. pc[u] = "leaf_link" =>
         /\ nodes'[right].num_keys > 0
         /\ l2[right] = nodes'[right].keys[0]
         /\ \A i \in 0 .. Count(left)' - 1 : nodes'[left].keys[i] < l2[right]
  <2> SUFFICES ASSUME pc[u] = "leaf_link"
               PROVE  /\ nodes'[right].num_keys > 0
                      /\ l2[right] = nodes'[right].keys[0]
                      /\ \A i \in 0 .. Count(left)' - 1 : nodes'[left].keys[i] < l2[right]
    OBVIOUS
  <2>1. left \in Nodes /\ right \in Nodes /\ Holds(u, left) /\ Holds(u, right)
    BY <1>3, <1>4 DEF Holds, HoldsLeft, HoldsRight
  <2>2. lock[left] = u /\ lock[right] = u
    BY <2>1, ThreadFacts DEF LockOK
  <2>3. lock'[left] = u
    BY <2>1, <2>2, OtherHolder DEF Steady
  <2>4. /\ nodes'[left].keys = nodes[left].keys
        /\ nodes'[right].keys = nodes[right].keys
        /\ nodes'[right].num_keys = nodes[right].num_keys
    BY <2>1, <2>2 DEF Steady
  <2>5. PICK n : n = left
    OBVIOUS
  <2>6. Count(n)' = Count(n)
    BY <2>1, <2>2, <2>3, <2>5, OutsideKept DEF SameKeys
  <2>7. Count(left)' = Count(left)
    BY <1>1, <2>5, <2>6 DEF Count, Free
  <2> QED BY <1>2, <2>1, <2>4, <2>7 DEF SplitOrder
<1>6. pc[u] = "leaf_cut" => r2[right] >= 0 /\ l2[right] <= nodes'[right].keys[0]
  <2> SUFFICES ASSUME pc[u] = "leaf_cut"
               PROVE  r2[right] >= 0 /\ l2[right] <= nodes'[right].keys[0]
    OBVIOUS
  <2>1. right \in Nodes /\ Holds(u, right)
    BY <1>4 DEF Holds, HoldsRight
  <2>2. nodes'[right].keys = nodes[right].keys
    <3>1. lock[right] = u
      BY <2>1, ThreadFacts DEF LockOK
    <3> QED BY <2>1, <3>1 DEF Steady
  <2> QED BY <1>2, <2>1, <2>2 DEF SplitOrder
<1>7. pc[u] \in {"into_parent", "follow_lock"} \cup SplitLabels =>
         r2[right] >= 0 /\ l2[right] <= frame[u].key
  BY <1>2, <1>4 DEF SplitOrder, HoldsRight
<1>8. pc[u] \in {"into_parent", "follow_lock"} => h2[right] = h2[left]
  BY <1>2, <1>3, <1>4 DEF SplitOrder, HoldsRight, HoldsLeft
<1>9. pc[u] \in SplitLabels => h2[left] = h2[right] + 1
  BY <1>2, <1>3, <1>4 DEF SplitOrder, HoldsLeft, SplitLabels
<1>10. pc[u] \in HoldsParent /\ parent = NULL => l2[left] <= BeforeKeys
  BY <1>2, <1>3 DEF SplitOrder, HoldsLeft, HoldsParent, HoldsRight
<1>11. pc[u] \in {"into_parent", "follow_lock", "node_count"} /\ parent # NULL =>
          nodes'[right].parent # NULL
  <2> SUFFICES ASSUME pc[u] \in {"into_parent", "follow_lock", "node_count"}, parent # NULL
               PROVE  nodes'[right].parent # NULL
    OBVIOUS
  <2>1. right \in Nodes /\ Holds(u, right)
    BY <1>4 DEF Holds, HoldsRight
  <2>2. lock[right] = u
    BY <2>1, ThreadFacts DEF LockOK
  <2>3. nodes[right].parent # NULL
    BY DEF SplitOrder
  <2>4. \A n \in Nodes : nodes[n].parent # NULL => nodes'[n].parent # NULL \/ lock[n] = t
    BY DEF Steady
  <2> QED BY <2>1, <2>2, <2>3, <2>4
<1>12. pc[u] \in {"node_lock_parent", "node_empty"} => nodes'[left].num_keys = Order - 1
  <2> SUFFICES ASSUME pc[u] \in {"node_lock_parent", "node_empty"}
               PROVE  nodes'[left].num_keys = Order - 1
    OBVIOUS
  <2>1. left \in Nodes /\ Holds(u, left)
    BY <1>3 DEF Holds, HoldsLeft
  <2>2. lock[left] = u
    BY <2>1, ThreadFacts DEF LockOK
  <2> QED BY <2>1, <2>2 DEF Steady, SplitOrder
<1> QED BY <1>1, <1>5, <1>6, <1>7, <1>8, <1>9, <1>10, <1>11, <1>12 DEF SplitOrder

LEMMA Assembled ==
    ASSUME BInv, BInv', NEW t \in Threads, Steady(t),
           NEW l, NEW r, NEW h, Ordered(l, r, h),
           NEW l2, NEW r2, NEW h2, Later(l, r, h, l2, r2, h2),
           NodeOrder(l2, r2, h2)', ThreadOrder(l2, r2, h2, t)'
    PROVE  OInv'
<1>1. ASSUME NEW u \in Threads \ {t}
      PROVE  ThreadOrder(l2, r2, h2, u)'
  BY OthersWay, OthersSplit DEF Ordered, ThreadOrder
<1>2. Ordered(l2, r2, h2)'
  BY <1>1 DEF Ordered, Later, Ghosts
<1> QED BY <1>2 DEF OInv

-------------------------------------------------------------------------------
(* Steps that touch no node *)

QuietTree(t) ==
    Alone(t) /\ nodes' = nodes /\ pc[t] \notin Special /\ pc'[t] \notin Special

LEMMA QuietSteady ==
    ASSUME NEW t \in Threads, QuietTree(t)
    PROVE  Steady(t) /\ UNCHANGED <<Nodes, Leaves, Inner>>
BY DEF QuietTree, Steady, Nodes, Leaves, Inner

LEMMA QuietKept ==
    ASSUME BInv, BInv', NEW t \in Threads, QuietTree(t), NEW n \in Nodes
    PROVE  /\ SameInner(n)
           /\ n \in Leaves => SameLeaf(n)
           /\ lock[n] # t /\ lock'[n] # t => (IsRight(n)' <=> IsRight(n))
<1>1. Steady(t) /\ n \in Nodes'
  BY QuietSteady
<1>2. CASE lock[n] # t /\ lock'[n] # t
  BY <1>1, <1>2, OutsideKept DEF SameInner
<1>3. CASE ~(lock[n] # t /\ lock'[n] # t)
  <2>1. lock[n] \in {t, NoThread} /\ lock'[n] \in {t, NoThread}
    BY <1>1, <1>3, LockType, LockTypeNext, OtherHolder DEF Steady
  <2>2. Count(n) = nodes[n].num_keys /\ ~Splitting(n) /\ ~Unlinked(n)
    <3>1. CASE lock[n] = t
      BY <3>1, HeldBy, PendingPlain DEF QuietTree, Special
    <3>2. CASE lock[n] = NoThread
      BY <3>2, HeldByNone
    <3> QED BY <2>1, <3>1, <3>2
  <2>3. Count(n)' = nodes'[n].num_keys /\ ~Splitting(n)' /\ ~Unlinked(n)'
    <3>1. CASE lock'[n] = t
      BY <1>1, <3>1, HeldByNext, PendingPlain DEF QuietTree, Special
    <3>2. CASE lock'[n] = NoThread
      BY <3>2, HeldByNoneNext
    <3> QED BY <2>1, <3>1, <3>2
  <2>4. nodes' = nodes
    BY DEF QuietTree
  <2>5. Contents(n)' = Contents(n)
    BY <2>2, <2>3, <2>4 DEF Contents, KeysUpTo
  <2> QED BY <1>3, <2>2, <2>3, <2>4, <2>5 DEF SameInner, SameKeys, SameLeaf, NextLeaf
<1> QED BY <1>2, <1>3

LEMMA QuietAbove ==
    ASSUME BInv, BInv', NEW t \in Threads, QuietTree(t), NEW r, NEW q, NEW v
    PROVE  Above(r, q, v)' <=> Above(r, q, v)
<1>1. Leaves' = Leaves /\ \A n \in Leaves : n \in Nodes
  BY QuietSteady DEF Leaves
<1>2. \A n \in Leaves : Contents(n)' = Contents(n)
  BY <1>1, QuietKept DEF SameLeaf
<1> QED BY <1>1, <1>2, AboveKept

\* What the thread relies on for the new half of a node stays true of it, or the node has
\* a parent.
LEMMA QuietStep ==
    ASSUME BInv, BInv', NEW t \in Threads, QuietTree(t),
           NEW l, NEW r, NEW h, Ordered(l, r, h),
           l[root'] <= BeforeKeys, r[root'] >= 0,
           pc[t] \in HoldsRight =>
              \/ nodes[frame[t].right].parent # NULL
              \/ pc'[t] \in HoldsRight /\ frame'[t].right = frame[t].right,
           WayOrder(l, r, t)', SplitOrder(l, r, h, t)'
    PROVE  OInv'
<1>1. Steady(t) /\ UNCHANGED <<Nodes, Leaves, Inner, nodes>> /\ NodesOK
  BY QuietSteady, ThreadFacts DEF QuietTree
<1>2. \A n \in Leaves : SameLeaf(n) /\ n \in Nodes
  BY QuietKept DEF Leaves
<1>3. Later(l, r, h, l, r, h)
  BY <1>1, <1>2, SameLater DEF Ordered, SameLeaf
<1>4. NodeOrder(l, r, h)
  BY DEF Ordered
<1>5. LeavesOrder(l, r, h)'
  BY <1>1, <1>2, <1>4, LeavesOrderKept DEF NodeOrder
<1>6. ASSUME NEW n \in Inner PROVE Routes(l, r, h, n)'
  <2>1. n \in Nodes /\ SameInner(n) /\ Routes(l, r, h, n)
    BY <1>4, QuietKept DEF Inner, NodeOrder
  <2> QED BY <1>1, <2>1, RoutesKept
<1>7. ASSUME NEW n \in Nodes PROVE Leftmost(l, n)'
  <2> SUFFICES ASSUME nodes[n].parent = NULL, IsRight(n) PROVE IsRight(n)'
    BY <1>1, <1>4 DEF NodeOrder, Leftmost
  <2>1. CASE lock[n] # t /\ lock'[n] # t
    BY <2>1, QuietKept
  <2>2. CASE lock[n] = t
    <3>1. pc[t] \in HoldsRight /\ n = frame[t].right
      BY <2>2, HeldBy
    <3>2. pc'[t] \in HoldsRight /\ frame'[t].right = n
      BY <3>1
    <3>3. Holds(t, n)' /\ n \in Nodes'
      BY <1>1, <3>2 DEF Holds
    <3>4. lock'[n] = t
      BY <3>3 DEF BInv, ThreadOK, LockOK
    <3> QED BY <3>2, <3>3, <3>4, HeldByNext
  <2>3. CASE lock[n] # t /\ lock'[n] = t
    <3>1. lock[n] \in Threads
      BY LockType DEF IsRight
    <3> QED BY <1>1, <2>3, <3>1, OtherHolder DEF Steady
  <2> QED BY <2>1, <2>2, <2>3
<1>8. NodeOrder(l, r, h)'
  BY <1>1, <1>5, <1>6, <1>7 DEF NodeOrder
<1> QED BY <1>1, <1>3, <1>8, Assembled DEF ThreadOrder

-------------------------------------------------------------------------------
(* What the order says of a leaf and its neighbours *)

LEMMA MinLeast ==
    ASSUME NEW S \in SUBSET Nat, S # {}
    PROVE  Min(S) \in S /\ \A j \in S : Min(S) <= j
<1> DEFINE R == OpToRel(<, Nat)
<1>1. IsWellFoundedOn(R, Nat)
  BY NatLessThanWellFounded
<1>2. \A x, y \in Nat : x < y => <<x, y>> \in R
  BY DEF OpToRel
<1> HIDE DEF R
<1>3. PICK x \in S : \A y \in S : ~ (<<y, x>> \in R)
  BY <1>1, WFMin, Zenon
<1>4. ASSUME NEW y \in S PROVE x <= y
  <2>1. x \in Nat /\ y \in Nat
    OBVIOUS
  <2>2. ~ (y < x)
    BY <1>2, <1>3, <2>1, Zenon
  <2> QED BY <2>1, <2>2
<1> QED BY <1>3, <1>4 DEF Min

LEMMA OrderFacts ==
    ASSUME BInv, NEW l, NEW r, NEW h, Ordered(l, r, h), NEW t \in Threads
    PROVE  /\ Ghosts(l, r, h) /\ NodeOrder(l, r, h) /\ LeavesOrder(l, r, h)
           /\ WayOrder(l, r, t) /\ SplitOrder(l, r, h, t)
           /\ \A n \in Nodes : n \in Nat /\ l[n] \in Int /\ r[n] \in Int /\ h[n] \in Nat
<1>1. \A n \in Nodes : n \in Nat
  BY ThreadFacts, NodeNumbers
<1> QED BY <1>1 DEF Ordered, NodeOrder, ThreadOrder, Ghosts

\* Keys are not less than the word before the array.
LEMMA KeyFacts ==
    ASSUME BInv, NEW t \in Threads, pc[t] # "idle"
    PROVE  Key(t) \in Int /\ BeforeKeys \in Int /\ BeforeKeys <= Key(t)
<1>1. call[t] \in CallType
  BY ThreadFacts DEF CallOK
<1>2. call[t].key \in Keys
  BY <1>1 DEF CallType
<1> QED BY <1>2, KeyIsInt, KeysAssumption, BeforeKeysAssumption DEF Key

LEMMA BelowMore ==
    ASSUME BInv, NEW p \in Leaves, NEW v \in Int, NEW w \in Int, v <= w, Below(p, v)
    PROVE  Below(p, w)
<1>1. Contents(p) \subseteq Int /\ BeforeKeys \in Int
  BY ContentsInt, KeysAssumption
<1> QED BY <1>1 DEF Below

LEMMA AboveMore ==
    ASSUME BInv, NEW r, NEW q, NEW v \in Int, NEW w \in Int, v <= w, Above(r, q, v)
    PROVE  Above(r, q, w)
BY BelowMore DEF Above

\* The last key is at the end of what is counted.
LEMMA LastKeyFacts ==
    ASSUME BInv, NEW n \in Leaves, Count(n) = nodes[n].num_keys, Sorted(n)
    PROVE  /\ LastKey(n) \in Int /\ BeforeKeys \in Int
           /\ LastKey(n) \in Contents(n) \cup {BeforeKeys}
           /\ BeforeKeys <= LastKey(n)
           /\ \A i \in 0 .. Count(n) - 1 : nodes[n].keys[i] <= LastKey(n)
<1> DEFINE num == nodes[n].num_keys
           k == nodes[n].keys
<1>1. num \in 0 .. Order - 1 /\ k \in [Slots -> Int] /\ BeforeKeys \in Int
  BY ThreadFacts, NodeFields, KeysAssumption DEF BInv, Leaves
<1>2. LastKey(n) = IF num = 0 THEN BeforeKeys ELSE k[num - 1]
  BY DEF LastKey
<1>3. /\ \A i, j \in 0 .. num - 1 : i < j => k[i] < k[j]
      /\ \A i \in 0 .. num - 1 : BeforeKeys <= k[i]
  BY SMTT(60) DEF Sorted
<1>4. \A i \in 0 .. num - 1 : k[i] \in Contents(n)
  BY DEF Contents, KeysUpTo
<1>5. Count(n) = num
  OBVIOUS
<1> HIDE DEF num, k
<1>6. \A i \in 0 .. num - 1 : k[i] \in Int
  BY <1>1, OrderAssumption DEF Slots
<1>7. num # 0 => num - 1 \in 0 .. num - 1 /\ \A i \in 0 .. num - 1 : i = num - 1 \/ i < num - 1
  BY <1>1, OrderAssumption
<1>8. \A i \in 0 .. num - 1 : k[i] <= LastKey(n)
  BY <1>1, <1>2, <1>3, <1>6, <1>7
<1>9. \A i \in 0 .. Count(n) - 1 : nodes[n].keys[i] <= LastKey(n)
  BY <1>5, <1>8 DEF k
<1> QED BY <1>1, <1>2, <1>3, <1>4, <1>6, <1>7, <1>9

\* A thread that does not go right has a key that is less than what is further right.
LEMMA StopsBefore ==
    ASSUME BInv, NEW l, NEW r, NEW h, Ghosts(l, r, h), LeavesOrder(l, r, h),
           NEW n \in Leaves, r[n] >= 0, Count(n) = nodes[n].num_keys,
           NEW k \in Int, ~GoesRight(n, k),
           NEW q \in Leaves, r[q] >= 0, r[q] < r[n], NEW v \in Int, Above(r, q, v)
    PROVE  k < v
<1>1. n \in Nat /\ q \in Nat /\ r[n] \in Int /\ r[q] \in Int
  BY ThreadFacts, NodeNumbers DEF Leaves, Ghosts, BInv
<1>2. NextLeaf(n) # NULL
  BY <1>1 DEF LeavesOrder, Chained
<1>3. ~(LastKey(n) < k)
  BY <1>2 DEF GoesRight
<1>4. Below(n, v)
  BY <1>1 DEF Above
<1>5. LastKey(n) \in Int /\ LastKey(n) \in Contents(n) \cup {BeforeKeys}
  BY LastKeyFacts DEF LeavesOrder
<1>6. LastKey(n) < v
  BY <1>4, <1>5 DEF Below
<1> QED BY <1>3, <1>5, <1>6

\* A thread that goes right is not past the place of its key.
LEMMA GoesOn ==
    ASSUME BInv, NEW l, NEW r, NEW h, Ghosts(l, r, h), LeavesOrder(l, r, h),
           NEW n \in Leaves, r[n] >= 0, Count(n) = nodes[n].num_keys, ~Splitting(n),
           NEW k \in Int, GoesRight(n, k), Above(r, n, k)
    PROVE  /\ NextLeaf(n) \in Leaves /\ r[NextLeaf(n)] >= 0
           /\ Above(r, NextLeaf(n), k)
<1>1. \A m \in Leaves : m \in Nat /\ r[m] \in Int
  BY ThreadFacts, NodeNumbers DEF Leaves, Ghosts, BInv
<1>2. LastKey(n) < k /\ NextLeaf(n) \in Leaves
  BY ThreadFacts DEF GoesRight, NodesOK, Linked, Leaves, BInv
<1>3. r[NextLeaf(n)] = r[n] - 1 /\ r[NextLeaf(n)] >= 0
  BY <1>1, <1>2, NodeNumbers DEF LeavesOrder, Chained, GoesRight
<1>4. Below(n, k)
  <2>1. /\ LastKey(n) \in Int /\ BeforeKeys \in Int /\ BeforeKeys <= LastKey(n)
        /\ \A i \in 0 .. Count(n) - 1 : nodes[n].keys[i] <= LastKey(n)
    BY LastKeyFacts DEF LeavesOrder
  <2>2. Contents(n) = {nodes[n].keys[i] : i \in 0 .. Count(n) - 1}
    BY DEF Contents, KeysUpTo
  <2>3. Contents(n) \subseteq Int
    BY ContentsInt
  <2>4. \A x \in Contents(n) : x <= LastKey(n)
    BY <2>1, <2>2
  <2> QED BY <1>2, <2>1, <2>3, <2>4 DEF Below
<1>5. ASSUME NEW p \in Leaves, r[p] > r[NextLeaf(n)]
      PROVE  Below(p, k)
  <2>1. CASE r[p] = r[n]
    <3>1. p = n
      BY <2>1 DEF LeavesOrder
    <3> QED BY <1>4, <3>1
  <2>2. CASE r[p] > r[n]
    BY <2>2 DEF Above
  <2> QED BY <1>1, <1>3, <1>5, <2>1, <2>2
<1> QED BY <1>2, <1>3, <1>5 DEF Above

LEMMA InnerCount ==
    ASSUME BInv, NEW n \in Inner
    PROVE  nodes[n].num_keys <= Count(n) /\ nodes[n].num_keys \in 0 .. Order - 1
<1> DEFINE num == nodes[n].num_keys
<1>1. num \in 0 .. Order - 1 /\ n \in Nodes /\ n \notin Leaves
  BY ThreadFacts, NodeFields DEF BInv, Inner
<1>2. CASE lock[n] = NoThread
  BY <1>1, <1>2, HeldByNone
<1>3. ASSUME NEW t \in Threads, lock[n] = t
      PROVE  num <= Count(n)
  <2>1. Count(n) = Pending(pc[t], frame[t], n, num)
    BY <1>1, <1>3, HeldBy
  <2>2. Holds(t, n) /\ FrameOK(t)
    BY <1>1, <1>3, ThreadFacts DEF LockOK
  <2>3. ~(pc[t] \in {"leaf_link", "leaf_cut"} /\ n = frame[t].left) /\ pc[t] # "remove_count"
    BY <1>1, <2>2 DEF FrameOK, LeafLabels, Holds, HoldsLeft, HoldsRight, HoldsParent
  <2> HIDE DEF num
  <2> QED BY <1>1, <2>1, <2>3, OrderAssumption DEF Pending
<1> QED BY <1>1, <1>2, <1>3, LockType

\* A descent.
LEMMA ChildRoute ==
    ASSUME BInv, NEW l, NEW r, NEW h, Ghosts(l, r, h), NEW n \in Inner, Routes(l, r, h, n),
           NEW key \in Int
    PROVE  /\ Child(n, key) \in Nodes /\ r[Child(n, key)] >= 0
           /\ h[n] = h[Child(n, key)] + 1
           /\ l[n] <= key => l[Child(n, key)] <= key
<1> DEFINE num == nodes[n].num_keys
           S == {j \in 0 .. num : j = num \/ key < nodes[n].keys[j]}
           i == Min(S)
           c == nodes[n].pointers[i]
<1>1. num \in 0 .. Order - 1 /\ num <= Count(n) /\ Count(n) \in 0 .. Order - 1
  BY InnerCount, CountBounds DEF Inner
<1>2. S \in SUBSET Nat /\ S # {}
  BY <1>1, OrderAssumption
<1>3. i \in S
  BY <1>2, MinIn
<1>4. i \in 0 .. num /\ i \in 0 .. Count(n)
  BY <1>1, <1>3, OrderAssumption
<1>5. c = Child(n, key)
  BY DEF Child
<1>6. \A j \in 0 .. num : j < i => ~(key < nodes[n].keys[j])
  <2>1. \A j \in S : i <= j
    BY <1>2, MinLeast
  <2>2. ASSUME NEW j \in 0 .. num, j < i, key < nodes[n].keys[j]
        PROVE  FALSE
    <3>1. i <= j
      BY <2>1, <2>2
    <3>2. i \in Int /\ j \in Int
      BY <1>1, <1>4
    <3> HIDE DEF i
    <3> QED BY <2>2, <3>1, <3>2
  <2> QED BY <2>2
<1>7. l[c] <= IF i = 0 THEN l[n] ELSE nodes[n].keys[i - 1]
  BY <1>4 DEF Routes, Routed
<1>8. c \in Nodes /\ r[c] >= 0 /\ h[n] = h[c] + 1
  BY <1>4 DEF Routes
<1>9. l[n] \in Int /\ l[c] \in Int
  BY <1>8, ThreadFacts, NodeNumbers DEF BInv, Ghosts, Inner
<1>10. nodes[n].keys \in [Slots -> Int]
  BY ThreadFacts, NodeFields DEF BInv, Inner
<1>11. i # 0 => nodes[n].keys[i - 1] <= key /\ nodes[n].keys[i - 1] \in Int
  <2> SUFFICES ASSUME i # 0 PROVE nodes[n].keys[i - 1] <= key /\ nodes[n].keys[i - 1] \in Int
    OBVIOUS
  <2> DEFINE k == nodes[n].keys[i - 1]
  <2>1. i - 1 \in 0 .. num /\ i - 1 < i /\ i - 1 \in Slots
    <3> HIDE DEF num, i
    <3> QED BY <1>1, <1>4, OrderAssumption DEF Slots
  <2>2. ~(key < k) /\ k \in Int
    BY <1>6, <1>10, <2>1
  <2> HIDE DEF k
  <2>3. k <= key
    BY <2>2
  <2> QED BY <2>2, <2>3 DEF k
<1> HIDE DEF c, i, S
<1> QED BY <1>5, <1>7, <1>8, <1>9, <1>11

-------------------------------------------------------------------------------
(* Where a thread goes without touching a node *)

\* WayOrder and SplitOrder of a thread that goes to the label, with this call and these
\* local variables.
WayTo(l, r, label, c, f) ==
    /\ label # "idle" => l[f.root] <= BeforeKeys /\ r[f.root] >= 0 /\ r[f.left] >= 0
    /\ label = "descend" /\ c.type # OP_READ => l[f.left] <= c.key
    /\ label \in {"at_leaf", "leaf_lock_parent", "leaf_split"} => Above(r, f.left, c.key)
    /\ label \in {"leaf_lock_parent", "leaf_split"} =>
          /\ ~GoesRight(f.left, c.key)
          /\ nodes[f.left].keys[InsertionIndex(f.left, c.key)] # c.key
          /\ nodes[f.left].num_keys = Order - 1
    /\ label \in DeleteHeld /\ c.type = OP_DELETE =>
          Above(r, f.key_leaf, c.key) /\ r[f.key_leaf] >= 0 /\ ~GoesRight(f.key_leaf, c.key)
    /\ label = "find_again" =>
          IF f.left \in Leaves THEN r[f.left] >= r[f.key_leaf] ELSE l[f.left] <= c.key

SplitTo(l, r, h, label, f) ==
    /\ label \in {"into_parent", "follow_lock"} \cup SplitLabels =>
          r[f.right] >= 0 /\ l[f.right] <= f.key
    /\ label \in {"into_parent", "follow_lock"} => h[f.right] = h[f.left]
    /\ label \in SplitLabels => h[f.left] = h[f.right] + 1
    /\ label \in {"node_lock_parent", "node_empty"} => nodes[f.left].num_keys = Order - 1
    /\ label \in HoldsParent /\ f.parent = NULL => l[f.left] <= BeforeKeys
    /\ label \in {"into_parent", "follow_lock"} /\ f.parent # NULL =>
          nodes[f.right].parent # NULL

LEMMA QuietWay ==
    ASSUME BInv, BInv', NEW t \in Threads, QuietTree(t), NEW l, NEW r,
           NEW label, NEW c, NEW f, pc'[t] = label, call'[t] = c, frame'[t] = f,
           WayTo(l, r, label, c, f)
    PROVE  WayOrder(l, r, t)'
<1>1. nodes' = nodes /\ Leaves' = Leaves
  BY QuietSteady DEF QuietTree
<1>2. Key(t)' = c.key
  BY DEF Key
<1>3. \A n, k : GoesRight(n, k)' <=> GoesRight(n, k)
  BY <1>1 DEF GoesRight, LastKey, NextLeaf
<1>4. \A n, k : InsertionIndex(n, k)' = InsertionIndex(n, k)
  BY <1>1 DEF InsertionIndex
<1>5. \A q, v : Above(r, q, v)' <=> Above(r, q, v)
  BY QuietAbove
<1>6. label \in {"at_leaf", "leaf_lock_parent", "leaf_split"} => Above(r, frame[t].left, Key(t))'
  <2> SUFFICES ASSUME label \in {"at_leaf", "leaf_lock_parent", "leaf_split"}
               PROVE  Above(r, frame[t].left, Key(t))'
    OBVIOUS
  <2>1. PICK q, v : q = f.left /\ v = c.key
    OBVIOUS
  <2>2. Above(r, q, v)'
    BY <1>5, <2>1 DEF WayTo
  <2> QED BY <1>2, <2>1, <2>2 DEF Above, Below
<1>7. label \in DeleteHeld /\ c.type = OP_DELETE =>
         Above(r, frame[t].key_leaf, Key(t))' /\ ~GoesRight(frame[t].key_leaf, Key(t))'
  <2> SUFFICES ASSUME label \in DeleteHeld /\ c.type = OP_DELETE
               PROVE  Above(r, frame[t].key_leaf, Key(t))'
                      /\ ~GoesRight(frame[t].key_leaf, Key(t))'
    OBVIOUS
  <2>1. PICK q, v : q = f.key_leaf /\ v = c.key
    OBVIOUS
  <2>2. Above(r, q, v)' /\ ~GoesRight(q, v)'
    BY <1>3, <1>5, <2>1 DEF WayTo
  <2> QED BY <1>2, <2>1, <2>2 DEF Above, Below, GoesRight, LastKey, NextLeaf
<1>8. label \in {"leaf_lock_parent", "leaf_split"} =>
          ~GoesRight(frame[t].left, Key(t))' /\ ~IsPresent(t)'
          /\ nodes'[f.left].num_keys = Order - 1
  <2> SUFFICES ASSUME label \in {"leaf_lock_parent", "leaf_split"}
               PROVE  ~GoesRight(frame[t].left, Key(t))' /\ ~IsPresent(t)'
                      /\ nodes'[f.left].num_keys = Order - 1
    OBVIOUS
  <2>1. PICK q, v : q = f.left /\ v = c.key
    OBVIOUS
  <2>2. ~GoesRight(q, v)' /\ InsertionIndex(q, v)' = InsertionIndex(q, v)
    BY <1>3, <1>4, <2>1 DEF WayTo
  <2>3. ~GoesRight(frame[t].left, Key(t))'
    BY <1>2, <2>1, <2>2 DEF GoesRight, LastKey, NextLeaf
  <2>4. InsertionIndex(frame[t].left, Key(t))' = InsertionIndex(q, v)
    BY <1>2, <2>1, <2>2 DEF InsertionIndex
  <2>5. ~IsPresent(t)'
    BY <1>1, <1>2, <2>1, <2>4 DEF IsPresent, WayTo
  <2> QED BY <1>1, <2>3, <2>5 DEF WayTo
<1> QED BY <1>1, <1>2, <1>6, <1>7, <1>8 DEF WayOrder, WayTo

LEMMA QuietMove ==
    ASSUME BInv, BInv', NEW t \in Threads, NEW label, NEW c, NEW f,
           Goto(t, label, f), call'[t] = c, \A u \in Threads \ {t} : call'[u] = call[u],
           nodes' = nodes, pc[t] \notin Special, label \notin Special,
           NEW l, NEW r, NEW h, Ordered(l, r, h), l[root'] <= BeforeKeys, r[root'] >= 0,
           pc[t] \in HoldsRight =>
              \/ nodes[frame[t].right].parent # NULL
              \/ label \in HoldsRight /\ f.right = frame[t].right,
           WayTo(l, r, label, c, f), SplitTo(l, r, h, label, f)
    PROVE  OInv'
<1>1. Alone(t) /\ pc'[t] = label /\ frame'[t] = f
  BY GotoAlone
<1>2. QuietTree(t)
  BY <1>1 DEF QuietTree
<1>3. WayOrder(l, r, t)'
  BY <1>1, <1>2, QuietWay
<1>4. SplitOrder(l, r, h, t)'
  BY <1>1 DEF SplitOrder, SplitTo, Special, HoldsParent, HoldsRight
<1> QED BY <1>1, <1>2, <1>3, <1>4, QuietStep

\* A call that does not change, and a root that nobody writes.
LEMMA SameCall ==
    ASSUME BInv, NEW l, NEW r, NEW h, Ordered(l, r, h), UNCHANGED <<root, call>>
    PROVE  /\ l[root'] <= BeforeKeys /\ r[root'] >= 0
           /\ \A t : call'[t] = call[t]
BY DEF Ordered, NodeOrder

\* A leaf that the thread holds counts what it says.
LEMMA PlainCount ==
    ASSUME BInv, NEW t \in Threads, pc[t] \notin Special, NEW n \in Nodes, Holds(t, n)
    PROVE  lock[n] = t /\ Count(n) = nodes[n].num_keys /\ ~Splitting(n) /\ ~Unlinked(n)
<1>1. lock[n] = t
  BY ThreadFacts DEF LockOK
<1> QED BY <1>1, HeldBy, PendingPlain DEF Special

LEMMA InvokeOrder ==
    ASSUME BInv, BInv', NEW t \in Threads, Invoke(t), NEW l, NEW r, NEW h, Ordered(l, r, h)
    PROVE  OInv'
<1>1. PICK c \in Menu[t] :
        /\ call' = [call EXCEPT ![t] = c]
        /\ Goto(t, "descend",
                [NoFrame EXCEPT !.root = root, !.left = root, !.had = Settled(c.key)])
  BY DEF Invoke
<1> DEFINE f == [NoFrame EXCEPT !.root = root, !.left = root, !.had = Settled(c.key)]
<1>2. f.root = root /\ f.left = root
  BY DEF NoFrame
<1>3. c \in CallType /\ c.key \in Keys
  BY MenuAssumption DEF CallType
<1> HIDE DEF f
<1>4. c.key \in Int /\ BeforeKeys \in Int /\ BeforeKeys <= c.key
  BY <1>3, KeysAssumption, BeforeKeysAssumption
<1>5. l[root] <= BeforeKeys /\ r[root] >= 0 /\ l[root] \in Int
  BY OrderFacts DEF NodeOrder, BInv, NodesOK
<1>6. l[root] <= c.key
  BY ONLY <1>4, <1>5
<1>7. WayTo(l, r, "descend", c, f)
  BY <1>2, <1>5, <1>6 DEF WayTo, DeleteHeld
<1>8. SplitTo(l, r, h, "descend", f)
  BY DEF SplitTo, HoldsParent, HoldsRight, SplitLabels
<1>9. call'[t] = c /\ \A u \in Threads \ {t} : call'[u] = call[u]
  BY <1>1 DEF BInv
<1>10. pc[t] = "idle" /\ UNCHANGED <<nodes, lock, root>>
  BY DEF Invoke, At
<1>11. Goto(t, "descend", f)
  BY <1>1 DEF f
<1> QED BY <1>5, <1>7, <1>8, <1>9, <1>10, <1>11, QuietMove DEF Special, HoldsRight

LEMMA DescendOrder ==
    ASSUME BInv, BInv', NEW t \in Threads, Descend(t), NEW l, NEW r, NEW h, Ordered(l, r, h)
    PROVE  OInv'
<1> DEFINE n == frame[t].left
           child == Child(n, Key(t))
           f == [frame[t] EXCEPT !.left = child]
           key_leaf == frame[t].key_leaf
<1>1. /\ pc[t] \in {"descend", "find_again"} /\ ~nodes[n].is_leaf
      /\ Goto(t, pc[t], f) /\ UNCHANGED <<nodes, lock, root, call>>
  BY DEF Descend
<1>2. FrameOK(t) /\ CallOK(t) /\ frame[t] \in FrameType
  BY ThreadFacts
<1>3. n \in Inner /\ Key(t) \in Int
  BY <1>1, <1>2, KeyFacts DEF FrameOK, Inner, Leaves
<1>4. /\ WayOrder(l, r, t) /\ LeavesOrder(l, r, h) /\ Ghosts(l, r, h)
      /\ Routes(l, r, h, n)
      /\ \A m \in Nodes : l[m] \in Int /\ r[m] \in Int
  BY <1>3, OrderFacts DEF NodeOrder
<1>5. /\ child \in Nodes /\ r[child] >= 0
      /\ l[n] <= Key(t) => l[child] <= Key(t)
  BY <1>3, <1>4, ChildRoute
<1>6. f.left = child /\ f.root = frame[t].root /\ f.key_leaf = key_leaf
  BY <1>2 DEF FrameType
<1> HIDE DEF f, child
<1>7. ASSUME pc[t] = "find_again"
      PROVE  /\ Above(r, key_leaf, Key(t)) /\ r[key_leaf] >= 0
             /\ ~GoesRight(key_leaf, Key(t))
             /\ l[child] <= Key(t)
             /\ child \in Leaves => r[child] >= r[key_leaf]
  <2>1. call[t].type = OP_DELETE /\ Deleting(t)
    BY <1>2, <1>7 DEF CallOK, DeleteLabels, Deleting
  <2>2. Above(r, key_leaf, Key(t)) /\ r[key_leaf] >= 0 /\ ~GoesRight(key_leaf, Key(t))
    BY <1>4, <1>7, <2>1 DEF WayOrder, DeleteHeld
  <2>3. l[n] <= Key(t)
    BY <1>3, <1>4, <1>7 DEF WayOrder, Inner
  <2>4. l[child] <= Key(t)
    BY <1>5, <2>3
  <2>5. key_leaf \in Leaves /\ key_leaf \in Nodes
    BY <1>2, <2>1 DEF FrameOK, Leaves
  <2>6. ASSUME child \in Leaves, ~(r[child] >= r[key_leaf])
        PROVE  FALSE
    <3>1. Above(r, child, l[child])
      BY <1>4, <1>5, <2>6 DEF LeavesOrder, Ascends
    <3>2. Count(key_leaf) = nodes[key_leaf].num_keys
      BY <1>7, <2>1, <2>5, PlainCount DEF Special, Holds
    <3>3. r[child] < r[key_leaf] /\ l[child] \in Int
      BY <1>4, <1>5, <2>5, <2>6
    <3>4. Key(t) < l[child]
      BY <1>3, <1>4, <1>5, <2>2, <2>5, <2>6, <3>1, <3>2, <3>3, StopsBefore
    <3> QED BY <1>3, <2>4, <3>3, <3>4
  <2> QED BY <2>2, <2>4, <2>6
<1>8. WayTo(l, r, pc[t], call[t], f)
  <2>1. call[t].key = Key(t)
    BY DEF Key
  <2>2. CASE pc[t] = "descend"
    <3>1. n \notin Leaves
      BY <1>3 DEF Inner
    <3> QED BY <1>4, <1>5, <1>6, <2>1, <2>2 DEF WayTo, WayOrder, DeleteHeld
  <2>3. CASE pc[t] = "find_again"
    BY <1>4, <1>5, <1>6, <1>7, <2>1, <2>3 DEF WayTo, WayOrder, DeleteHeld
  <2> QED BY <1>1, <2>2, <2>3
<1>9. SplitTo(l, r, h, pc[t], f)
  BY <1>1 DEF SplitTo, HoldsParent, HoldsRight, SplitLabels
<1> QED BY <1>1, <1>8, <1>9, SameCall, QuietMove DEF Special, HoldsRight

LEMMA LockLeafOrder ==
    ASSUME BInv, BInv', NEW t \in Threads, LockLeaf(t), NEW l, NEW r, NEW h, Ordered(l, r, h)
    PROVE  OInv'
<1> DEFINE n == frame[t].left
<1>1. /\ pc[t] = "descend" /\ call[t].type # OP_READ /\ nodes[n].is_leaf
      /\ Goto(t, "at_leaf", frame[t]) /\ UNCHANGED <<nodes, root, call>>
  BY DEF LockLeaf, At
<1>2. n \in Leaves /\ n \in Nodes
  BY <1>1, ThreadFacts DEF FrameOK, Leaves
<1>3. /\ WayOrder(l, r, t) /\ LeavesOrder(l, r, h)
      /\ \A m \in Nodes : l[m] \in Int /\ r[m] \in Int
  BY OrderFacts
<1>4. l[n] <= Key(t) /\ r[n] >= 0 /\ Key(t) \in Int
  BY <1>1, <1>3, KeyFacts DEF WayOrder
<1>5. Above(r, n, l[n])
  BY <1>2, <1>3, <1>4 DEF LeavesOrder, Ascends
<1>6. Above(r, n, Key(t))
  BY <1>2, <1>3, <1>4, <1>5, AboveMore
<1>7. WayTo(l, r, "at_leaf", call[t], frame[t])
  BY <1>1, <1>3, <1>6 DEF WayTo, WayOrder, Key, DeleteHeld
<1>8. SplitTo(l, r, h, "at_leaf", frame[t])
  BY DEF SplitTo, HoldsParent, HoldsRight, SplitLabels
<1> QED BY <1>1, <1>7, <1>8, SameCall, QuietMove DEF Special, HoldsRight

LEMMA WalkRightOrder ==
    ASSUME BInv, BInv', NEW t \in Threads, WalkRight(t), NEW l, NEW r, NEW h, Ordered(l, r, h)
    PROVE  OInv'
<1> DEFINE n == frame[t].left
           next == NextLeaf(n)
           f == [frame[t] EXCEPT !.left = next]
<1>1. /\ pc[t] = "at_leaf" /\ GoesRight(n, Key(t))
      /\ Goto(t, "at_leaf", f) /\ UNCHANGED <<nodes, root, call>>
  BY DEF WalkRight, At
<1>2. /\ n \in Leaves /\ n \in Nodes /\ frame[t] \in FrameType /\ Holds(t, n)
  BY <1>1, ThreadFacts DEF FrameOK, LeafLabels, Leaves, Holds, HoldsLeft
<1>3. WayOrder(l, r, t) /\ LeavesOrder(l, r, h) /\ Ghosts(l, r, h)
  BY OrderFacts
<1>4. Above(r, n, Key(t)) /\ r[n] >= 0 /\ Key(t) \in Int
  BY <1>1, <1>3, KeyFacts DEF WayOrder
<1>5. Count(n) = nodes[n].num_keys /\ ~Splitting(n)
  BY <1>1, <1>2, PlainCount DEF Special
<1>6. next \in Leaves /\ r[next] >= 0 /\ Above(r, next, Key(t))
  BY <1>1, <1>2, <1>3, <1>4, <1>5, GoesOn
<1>7. f.left = next /\ f.root = frame[t].root
  BY <1>2 DEF FrameType
<1> HIDE DEF f, next
<1>8. WayTo(l, r, "at_leaf", call[t], f)
  BY <1>1, <1>3, <1>6, <1>7 DEF WayTo, WayOrder, Key, DeleteHeld
<1>9. SplitTo(l, r, h, "at_leaf", f)
  BY DEF SplitTo, HoldsParent, HoldsRight, SplitLabels
<1> QED BY <1>1, <1>8, <1>9, SameCall, QuietMove DEF Special, HoldsRight

\* A call that has its result, or gives its lock back.
LEMMA EndOrder ==
    ASSUME BInv, BInv', NEW t \in Threads, Present(t) \/ DeleteAbsent(t),
           NEW l, NEW r, NEW h, Ordered(l, r, h)
    PROVE  OInv'
<1>1. /\ pc[t] \in {"at_leaf", "delete"} /\ Goto(t, "put_return", frame[t])
      /\ UNCHANGED <<nodes, root, call>>
  BY DEF Present, Arrived, ArrivedTo, DeleteAbsent, At
<1>2. WayTo(l, r, "put_return", call[t], frame[t])
  BY <1>1, OrderFacts DEF WayTo, WayOrder, DeleteHeld
<1>3. SplitTo(l, r, h, "put_return", frame[t])
  BY DEF SplitTo, HoldsParent, HoldsRight, SplitLabels
<1> QED BY <1>1, <1>2, <1>3, SameCall, QuietMove DEF Special, HoldsRight

LEMMA ReturnOrder ==
    ASSUME BInv, BInv', NEW t \in Threads, PutReturn(t) \/ GetReturn(t),
           NEW l, NEW r, NEW h, Ordered(l, r, h)
    PROVE  OInv'
<1>1. /\ pc[t] \in {"put_return", "get_return"} /\ Goto(t, "idle", NoFrame)
      /\ call' = [call EXCEPT ![t] = NoCall]
      /\ UNCHANGED <<nodes, lock>> /\ root' \in {root, frame[t].root}
  BY DEF PutReturn, GetReturn, Return, At
<1>2. l[root'] <= BeforeKeys /\ r[root'] >= 0
  BY <1>1, OrderFacts DEF WayOrder, NodeOrder
<1>3. call'[t] = NoCall /\ \A u \in Threads \ {t} : call'[u] = call[u]
  BY <1>1 DEF BInv
<1>4. WayTo(l, r, "idle", NoCall, NoFrame)
  BY DEF WayTo, DeleteHeld
<1>5. SplitTo(l, r, h, "idle", NoFrame)
  BY DEF SplitTo, HoldsParent, HoldsRight, SplitLabels
<1> QED BY <1>1, <1>2, <1>3, <1>4, <1>5, QuietMove DEF Special, HoldsRight

LEMMA FindWalkOrder ==
    ASSUME BInv, BInv', NEW t \in Threads, FindWalk(t), NEW l, NEW r, NEW h, Ordered(l, r, h)
    PROVE  OInv'
<1> DEFINE n == frame[t].left
           next == NextLeaf(n)
           f == [frame[t] EXCEPT !.left = next]
           key_leaf == frame[t].key_leaf
<1>1. /\ Finding(t) /\ nodes[n].is_leaf /\ GoesRight(n, Key(t))
      /\ Goto(t, pc[t], f) /\ UNCHANGED <<nodes, lock, root, call>>
  BY DEF FindWalk
<1>2. /\ FrameOK(t) /\ CallOK(t) /\ frame[t] \in FrameType /\ NodesOK
      /\ pc[t] \in {"find_again", "descend"}
      /\ pc[t] = "descend" => call[t].type = OP_READ
  BY <1>1, ThreadFacts DEF Finding, At
<1>3. n \in Leaves /\ n \in Nodes
  BY <1>1, <1>2 DEF FrameOK, Leaves
<1>4. /\ WayOrder(l, r, t) /\ LeavesOrder(l, r, h)
      /\ \A m \in Nodes : m \in Nat /\ r[m] \in Int
  BY OrderFacts
<1>5. next \in Leaves /\ next \in Nodes /\ next # NULL
  BY <1>1, <1>2, <1>3 DEF GoesRight, NodesOK, Linked, Leaves
<1>6. r[n] >= 0
  BY <1>2, <1>4 DEF WayOrder
<1>7. r[next] = r[n] - 1 /\ r[n] > 0
  BY <1>3, <1>4, <1>5, <1>6 DEF LeavesOrder, Chained
<1>8. f.left = next /\ f.root = frame[t].root /\ f.key_leaf = key_leaf
  BY <1>2 DEF FrameType
<1> HIDE DEF f, next
<1>9. ASSUME pc[t] = "find_again"
      PROVE  /\ Above(r, key_leaf, Key(t)) /\ r[key_leaf] >= 0
             /\ ~GoesRight(key_leaf, Key(t))
             /\ r[next] >= r[key_leaf]
  <2>1. call[t].type = OP_DELETE /\ Deleting(t)
    BY <1>2, <1>9 DEF CallOK, DeleteLabels, Deleting
  <2>2. Above(r, key_leaf, Key(t)) /\ r[key_leaf] >= 0 /\ ~GoesRight(key_leaf, Key(t))
    BY <1>4, <1>9, <2>1 DEF WayOrder, DeleteHeld
  <2>3. key_leaf \in Leaves /\ key_leaf \in Nodes
    BY <1>2, <2>1 DEF FrameOK, Leaves
  <2>4. r[n] >= r[key_leaf]
    BY <1>3, <1>4, <1>9 DEF WayOrder
  <2>5. n # key_leaf
    BY <1>1, <2>2
  <2>6. r[n] # r[key_leaf]
    BY <1>3, <1>4, <1>6, <2>3, <2>5 DEF LeavesOrder
  <2>7. r[n] \in Int /\ r[key_leaf] \in Int
    BY <1>3, <1>4, <2>3
  <2> QED BY <1>7, <2>2, <2>4, <2>6, <2>7
<1>10. r[next] >= 0
  BY <1>3, <1>4, <1>7
<1>11. WayTo(l, r, pc[t], call[t], f)
  <2>1. call[t].key = Key(t)
    BY DEF Key
  <2>2. CASE pc[t] = "descend"
    BY <1>2, <1>4, <1>8, <1>10, <2>2 DEF WayTo, WayOrder, DeleteHeld
  <2>3. CASE pc[t] = "find_again"
    BY <1>4, <1>5, <1>8, <1>9, <1>10, <2>1, <2>3 DEF WayTo, WayOrder, DeleteHeld
  <2> QED BY <1>2, <2>2, <2>3
<1>12. SplitTo(l, r, h, pc[t], f)
  BY <1>2 DEF SplitTo, HoldsParent, HoldsRight, SplitLabels
<1> QED BY <1>1, <1>2, <1>11, <1>12, SameCall, QuietMove DEF Special, HoldsRight

LEMMA FindOrder ==
    ASSUME BInv, BInv', NEW t \in Threads, FindScan(t) \/ FindRead(t),
           NEW l, NEW r, NEW h, Ordered(l, r, h)
    PROVE  OInv'
<1>1. PICK label, f :
        /\ Goto(t, label, f) /\ label \in {"find_read", Found(t)}
        /\ f.root = frame[t].root /\ f.left = frame[t].left /\ f.key_leaf = frame[t].key_leaf
  <2>1. frame[t] \in FrameType
    BY ThreadFacts
  <2>2. \A x : LET f == [frame[t] EXCEPT !.index = x] IN
          f.root = frame[t].root /\ f.left = frame[t].left /\ f.key_leaf = frame[t].key_leaf
    BY <2>1 DEF FrameType
  <2>3. \A x : LET f == [frame[t] EXCEPT !.hit = x] IN
          f.root = frame[t].root /\ f.left = frame[t].left /\ f.key_leaf = frame[t].key_leaf
    BY <2>1, SMTT(60) DEF FrameType
  <2>4. CASE FindScan(t)
    BY <2>2, <2>4 DEF FindScan
  <2>5. CASE FindRead(t)
    BY <2>3, <2>5, ZenonT(60) DEF FindRead
  <2> QED BY <2>4, <2>5
<1>2. /\ Finding(t) \/ pc[t] = "find_read"
      /\ UNCHANGED <<nodes, lock, root, call>>
  BY DEF FindScan, FindRead, At
<1>3. CallOK(t) /\ WayOrder(l, r, t)
  BY ThreadFacts, OrderFacts
<1>4. \/ /\ pc[t] \in {"find_again", "find_read"} /\ call[t].type = OP_DELETE
         /\ label \in {"find_read", "delete"}
      \/ /\ pc[t] \in {"descend", "find_read"} /\ call[t].type = OP_READ
         /\ label \in {"find_read", "get_return"}
  BY <1>1, <1>2, <1>3, MenuAssumption DEF Finding, At, Found, CallOK, DeleteLabels, CallType
<1>5. WayTo(l, r, label, call[t], f)
  BY <1>1, <1>3, <1>4, MenuAssumption DEF WayTo, WayOrder, DeleteHeld, Key
<1>6. SplitTo(l, r, h, label, f)
  BY <1>4 DEF SplitTo, HoldsParent, HoldsRight, SplitLabels
<1>7. pc[t] \in {"find_again", "find_read", "descend"}
      /\ label \in {"find_read", "delete", "get_return"}
  BY <1>4
<1> QED BY <1>1, <1>2, <1>5, <1>6, <1>7, SameCall, QuietMove DEF Special, HoldsRight

LEMMA DeleteFindOrder ==
    ASSUME BInv, BInv', NEW t \in Threads, DeleteFind(t),
           NEW l, NEW r, NEW h, Ordered(l, r, h)
    PROVE  OInv'
<1> DEFINE n == frame[t].left
           top == frame[t].root
           f == [frame[t] EXCEPT !.key_leaf = n, !.left = top]
<1>1. /\ pc[t] = "at_leaf" /\ call[t].type = OP_DELETE /\ ~GoesRight(n, Key(t))
      /\ Goto(t, "find_again", f) /\ UNCHANGED <<nodes, lock, root, call>>
  BY DEF DeleteFind, ArrivedTo, At
<1>2. /\ n \in Leaves /\ n \in Nodes /\ top \in Nodes /\ frame[t] \in FrameType /\ Holds(t, n)
  BY <1>1, ThreadFacts DEF FrameOK, LeafLabels, Leaves, Holds, HoldsLeft
<1>3. /\ WayOrder(l, r, t) /\ LeavesOrder(l, r, h) /\ Ghosts(l, r, h)
      /\ \A m \in Nodes : l[m] \in Int /\ r[m] \in Int
  BY OrderFacts
<1>4. /\ Above(r, n, Key(t)) /\ r[n] >= 0 /\ l[top] <= BeforeKeys /\ r[top] >= 0
  BY <1>1, <1>3 DEF WayOrder
<1>5. l[top] <= Key(t) /\ Key(t) \in Int
  BY <1>1, <1>2, <1>3, <1>4, KeyFacts
<1>6. Count(n) = nodes[n].num_keys
  BY <1>1, <1>2, PlainCount DEF Special
<1>7. ASSUME top \in Leaves, ~(r[top] >= r[n])
      PROVE  FALSE
  <2>1. Above(r, top, l[top])
    BY <1>3, <1>4, <1>7 DEF LeavesOrder, Ascends
  <2>2. r[top] < r[n] /\ l[top] \in Int
    BY <1>2, <1>3, <1>7
  <2>3. Key(t) < l[top]
    BY <1>1, <1>2, <1>3, <1>4, <1>5, <1>6, <1>7, <2>1, <2>2, StopsBefore
  <2> QED BY <1>5, <2>2, <2>3
<1>8. f.left = top /\ f.root = top /\ f.key_leaf = n
  BY <1>2 DEF FrameType
<1> HIDE DEF f
<1>9. WayTo(l, r, "find_again", call[t], f)
  BY <1>1, <1>4, <1>5, <1>7, <1>8 DEF WayTo, Key
<1>10. SplitTo(l, r, h, "find_again", f)
  BY DEF SplitTo, HoldsParent, HoldsRight, SplitLabels
<1> QED BY <1>1, <1>9, <1>10, SameCall, QuietMove DEF Special, HoldsRight

-------------------------------------------------------------------------------
(* Where a thread that splits goes without touching a node *)

\* A node that the thread holds, and that is no new half, is leftmost if it has no parent.
LEMMA HeldLeftmost ==
    ASSUME BInv, NEW l, NEW r, NEW h, Ordered(l, r, h), NEW t \in Threads,
           NEW n \in Nodes, Holds(t, n), pc[t] \in HoldsRight => n # frame[t].right,
           nodes[n].parent = NULL
    PROVE  l[n] <= BeforeKeys
<1>1. lock[n] = t
  BY ThreadFacts DEF LockOK
<1>2. ~IsRight(n)
  BY <1>1, HeldBy
<1> QED BY <1>2, OrderFacts DEF NodeOrder, Leftmost

LEMMA LeafFullOrder ==
    ASSUME BInv, BInv', NEW t \in Threads, LeafFull(t), NEW l, NEW r, NEW h, Ordered(l, r, h)
    PROVE  OInv'
<1> DEFINE n == frame[t].left
           parent == nodes[n].parent
           label == IF parent = NULL THEN "leaf_split" ELSE "leaf_lock_parent"
           f == [frame[t] EXCEPT !.parent = parent]
<1>1. /\ pc[t] = "at_leaf" /\ call[t].type = OP_ADD /\ ~GoesRight(n, Key(t))
      /\ ~IsPresent(t) /\ nodes[n].num_keys = Order - 1
      /\ Goto(t, label, f) /\ UNCHANGED <<nodes, lock, root, call>>
  BY DEF LeafFull, Arrived, ArrivedTo, At
<1>2. /\ n \in Leaves /\ n \in Nodes /\ frame[t] \in FrameType /\ Holds(t, n)
  BY <1>1, ThreadFacts DEF FrameOK, LeafLabels, Leaves, Holds, HoldsLeft
<1>3. WayOrder(l, r, t)
  BY OrderFacts
<1>4. parent = NULL => l[n] <= BeforeKeys
  BY <1>1, <1>2, HeldLeftmost DEF HoldsRight
<1>5. f.left = n /\ f.root = frame[t].root /\ f.parent = parent
  BY <1>2 DEF FrameType
<1>6. label \in {"leaf_split", "leaf_lock_parent"}
  OBVIOUS
<1> HIDE DEF f, label
<1>7. nodes[n].keys[InsertionIndex(n, Key(t))] # Key(t)
  BY <1>1 DEF IsPresent
<1>8. WayTo(l, r, label, call[t], f)
  BY <1>1, <1>3, <1>5, <1>6, <1>7 DEF WayTo, WayOrder, Key, DeleteHeld
<1>9. SplitTo(l, r, h, label, f)
  BY <1>4, <1>5, <1>6 DEF SplitTo, HoldsParent, HoldsRight, SplitLabels
<1> QED BY <1>1, <1>6, <1>8, <1>9, SameCall, QuietMove DEF Special, HoldsRight

LEMMA LockParentOrder ==
    ASSUME BInv, BInv', NEW t \in Threads, LockParent(t),
           NEW l, NEW r, NEW h, Ordered(l, r, h)
    PROVE  OInv'
<1> DEFINE label == IF At(t, "leaf_lock_parent") THEN "leaf_split" ELSE "node_empty"
<1>1. /\ pc[t] \in {"leaf_lock_parent", "node_lock_parent"}
      /\ Goto(t, label, frame[t]) /\ UNCHANGED <<nodes, root, call>>
  BY DEF LockParent
<1>2. WayOrder(l, r, t) /\ SplitOrder(l, r, h, t) /\ frame[t].parent # NULL
  BY <1>1, OrderFacts, ThreadFacts DEF FrameOK
<1>3. WayTo(l, r, label, call[t], frame[t])
  <2>1. CASE pc[t] = "leaf_lock_parent"
    <3>1. nodes[frame[t].left].keys[InsertionIndex(frame[t].left, Key(t))] # Key(t)
      BY <1>2, <2>1 DEF WayOrder, IsPresent
    <3> QED BY <1>2, <2>1, <3>1 DEF WayTo, WayOrder, Key, DeleteHeld, At
  <2>2. CASE pc[t] = "node_lock_parent"
    BY <1>2, <2>2 DEF WayTo, WayOrder, DeleteHeld, At
  <2> QED BY <1>1, <2>1, <2>2
<1>4. SplitTo(l, r, h, label, frame[t])
  BY <1>1, <1>2 DEF SplitTo, SplitOrder, HoldsParent, HoldsRight, SplitLabels, At
<1>5. label \in {"leaf_split", "node_empty"}
  OBVIOUS
<1> HIDE DEF label
<1> QED BY <1>1, <1>3, <1>4, <1>5, SameCall, QuietMove DEF Special, HoldsRight

LEMMA FollowOrder ==
    ASSUME BInv, BInv', NEW t \in Threads, FollowParent(t) \/ FollowLock(t),
           NEW l, NEW r, NEW h, Ordered(l, r, h)
    PROVE  OInv'
<1>1. PICK label, f :
        /\ Goto(t, label, f) /\ label \in {"into_parent", "follow_lock"}
        /\ f.root = frame[t].root /\ f.left = frame[t].left /\ f.right = frame[t].right
        /\ f.key = frame[t].key /\ f.parent # NULL
  <2>1. FrameOK(t) /\ frame[t] \in FrameType
    BY ThreadFacts
  <2>2. CASE FollowParent(t)
    BY <2>1, <2>2 DEF FollowParent, FrameType
  <2>3. CASE FollowLock(t)
    <3>1. frame[t].next # NULL
      <4>1. pc[t] = "follow_lock"
        BY <2>3 DEF FollowLock, At
      <4>2. frame[t].next \in Nodes
        BY <2>1, <4>1 DEF FrameOK, Inner
      <4> QED BY <4>2, ThreadFacts, NodeNumbers
    <3> QED BY <2>1, <2>3, <3>1 DEF FollowLock, FrameType
  <2> QED BY <2>2, <2>3
<1>2. /\ pc[t] \in {"into_parent", "follow_lock"} /\ frame[t].parent # NULL
      /\ UNCHANGED <<nodes, root, call>>
  BY ThreadFacts DEF FollowParent, FollowLock, At, FrameOK
<1>3. WayOrder(l, r, t) /\ SplitOrder(l, r, h, t)
  BY OrderFacts
<1>4. WayTo(l, r, label, call[t], f)
  BY <1>1, <1>2, <1>3 DEF WayTo, WayOrder, DeleteHeld
<1>5. SplitTo(l, r, h, label, f)
  BY <1>1, <1>2, <1>3 DEF SplitTo, SplitOrder, SplitLabels
<1> QED BY <1>1, <1>2, <1>4, <1>5, SameCall, QuietMove DEF Special, HoldsRight

\* Where the parent points to the node that was split.
LEMMA LeftIndex ==
    ASSUME BInv, NEW n \in Nodes, NEW left, get_left_index(n, left) <= nodes[n].num_keys
    PROVE  LET i == get_left_index(n, left) IN
           /\ i \in Nat /\ i <= nodes[n].num_keys
           /\ nodes[n].pointers[i] = left
<1> DEFINE num == nodes[n].num_keys
           S == {i \in 0 .. num + 1 : i = num + 1 \/ nodes[n].pointers[i] = left}
<1>1. num \in Nat
  BY ThreadFacts, NodeFields DEF BInv
<1>2. S \in SUBSET Nat /\ S # {}
  <2> HIDE DEF num
  <2>1. num + 1 \in 0 .. num + 1 /\ \A i \in 0 .. num + 1 : i \in Nat
    BY <1>1
  <2> QED BY <2>1
<1>3. Min(S) \in S
  BY <1>2, MinLeast
<1>4. get_left_index(n, left) = Min(S)
  BY DEF get_left_index
<1>5. Min(S) \in Nat /\ Min(S) <= num
  BY <1>2, <1>3, <1>4
<1>6. Min(S) # num + 1
  <2> HIDE DEF num, S
  <2> QED BY <1>1, <1>5
<1> QED BY <1>3, <1>4, <1>5, <1>6

LEMMA LeftRoute ==
    ASSUME BInv, NEW l, NEW r, NEW h, Ordered(l, r, h), NEW n \in Inner, NEW left,
           get_left_index(n, left) <= nodes[n].num_keys
    PROVE  /\ get_left_index(n, left) \in 0 .. nodes[n].num_keys
           /\ nodes[n].pointers[get_left_index(n, left)] = left
           /\ left \in Nodes /\ h[n] = h[left] + 1
           /\ Routed(l, n, get_left_index(n, left))
<1> DEFINE i == get_left_index(n, left)
           num == nodes[n].num_keys
<1>1. n \in Nodes
  BY DEF Inner
<1>2. i \in Nat /\ i <= num /\ nodes[n].pointers[i] = left
  BY <1>1, LeftIndex
<1>3. num \in 0 .. Order - 1 /\ num <= Count(n) /\ Count(n) \in 0 .. Order - 1
  BY <1>1, InnerCount, CountBounds
<1> HIDE DEF i, num
<1>4. i \in 0 .. num /\ i \in 0 .. Count(n)
  BY <1>2, <1>3, OrderAssumption
<1>5. Routes(l, r, h, n)
  BY DEF Ordered, NodeOrder
<1> QED BY <1>2, <1>4, <1>5 DEF Routes, num, i

LEMMA NodeFullOrder ==
    ASSUME BInv, BInv', NEW t \in Threads, NodeFull(t), NEW l, NEW r, NEW h, Ordered(l, r, h)
    PROVE  OInv'
<1> DEFINE n == frame[t].parent
           parent == nodes[n].parent
           left == frame[t].left
           right == frame[t].right
           label == IF parent = NULL THEN "node_empty" ELSE "node_lock_parent"
           f == [frame[t] EXCEPT !.left = n, !.parent = parent,
                                 !.index = get_left_index(n, left)]
<1>1. /\ pc[t] = "into_parent" /\ n # NULL /\ get_left_index(n, left) <= nodes[n].num_keys
      /\ nodes[n].num_keys = Order - 1
      /\ Goto(t, label, f) /\ UNCHANGED <<nodes, root, call>>
  BY DEF NodeFull, ParentFound, LeftInParent, At
<1>2. FrameOK(t) /\ frame[t] \in FrameType
  BY ThreadFacts
<1>3. n \in Inner /\ n \in Nodes /\ n # right
  BY <1>1, <1>2 DEF FrameOK, Inner, HoldsRight
<1>4. /\ WayOrder(l, r, t) /\ SplitOrder(l, r, h, t) /\ NodeOrder(l, r, h)
      /\ \A m \in Nodes : r[m] \in Int
  BY OrderFacts
<1>5. h[n] = h[left] + 1
  BY <1>1, <1>3, LeftRoute
<1>6. parent = NULL => l[n] <= BeforeKeys
  <2>1. Holds(t, n)
    BY <1>1 DEF Holds, HoldsParent, HoldsRight
  <2> QED BY <1>3, <2>1, HeldLeftmost
<1>7. /\ f.left = n /\ f.parent = parent /\ f.root = frame[t].root /\ f.right = right
      /\ f.key = frame[t].key
  BY <1>2 DEF FrameType
<1>8. label \in {"node_empty", "node_lock_parent"}
      /\ label \notin {"idle", "into_parent", "follow_lock"}
  OBVIOUS
<1> HIDE DEF f, label
<1>9. r[n] >= 0
  BY <1>3, <1>4 DEF NodeOrder, Routes
<1>10. WayTo(l, r, label, call[t], f)
  BY <1>1, <1>4, <1>7, <1>8, <1>9 DEF WayTo, WayOrder, DeleteHeld
<1>11. SplitTo(l, r, h, label, f)
  BY <1>1, <1>4, <1>5, <1>6, <1>7, <1>8
     DEF SplitTo, SplitOrder, HoldsParent, HoldsRight, SplitLabels
<1>12. nodes[right].parent # NULL
  BY <1>1, <1>4 DEF SplitOrder
<1> QED BY <1>1, <1>8, <1>10, <1>11, <1>12, SameCall, QuietMove, SMTT(60) DEF Special, HoldsRight

-------------------------------------------------------------------------------
(* Steps that change nodes *)

LEMMA LeftmostKept ==
    ASSUME BInv, BInv', NEW t \in Threads, Steady(t), NEW n \in Nodes,
           NEW l, Leftmost(l, n), NEW l2, l2[n] = l[n],
           pc[t] \in HoldsRight /\ n = frame[t].right =>
              \/ nodes'[n].parent # NULL
              \/ pc'[t] \in HoldsRight /\ frame'[t].right = frame[t].right
    PROVE  Leftmost(l2, n)'
<1>1. n \in Nodes' /\ Alone(t) /\ Nodes \subseteq Nodes'
  BY DEF Steady
<1>5. CASE nodes[n].parent # NULL
  <2> SUFFICES ASSUME nodes'[n].parent = NULL PROVE IsRight(n)'
    BY DEF Leftmost
  <2>1. pc'[t] \in HoldsRight /\ n = frame'[t].right
    BY <1>5 DEF Steady
  <2>2. Holds(t, n)'
    BY <2>1 DEF Holds
  <2>3. lock'[n] = t
    BY <1>1, <2>2 DEF BInv, ThreadOK, LockOK
  <2> QED BY <1>1, <2>1, <2>3, HeldByNext
<1> SUFFICES ASSUME nodes[n].parent = NULL, nodes'[n].parent = NULL, IsRight(n) PROVE IsRight(n)'
  BY <1>5 DEF Leftmost
<1>2. CASE lock[n] # t /\ lock'[n] # t
  BY <1>2, OutsideKept
<1>3. CASE lock[n] = t
  <2>1. pc[t] \in HoldsRight /\ n = frame[t].right
    BY <1>3, HeldBy
  <2>2. pc'[t] \in HoldsRight /\ frame'[t].right = n
    BY <2>1
  <2>3. Holds(t, n)'
    BY <2>2 DEF Holds
  <2>4. lock'[n] = t
    BY <1>1, <2>3 DEF BInv, ThreadOK, LockOK
  <2> QED BY <1>1, <2>2, <2>4, HeldByNext
<1>4. CASE lock[n] # t /\ lock'[n] = t
  <2>1. lock[n] \in Threads
    BY LockType DEF IsRight
  <2> QED BY <1>1, <1>4, <2>1, OtherHolder
<1> QED BY <1>2, <1>3, <1>4

\* A node that the thread holds, with the same keys that count.
LEMMA HeldSame ==
    ASSUME BInv, BInv', NEW t \in Threads, NEW n \in Nodes, n \in Nodes',
           lock[n] = t, lock'[n] \in {t, NoThread},
           pc[t] # "leaf_link", pc'[t] # "leaf_link",
           nodes'[n].keys = nodes[n].keys,
           lock'[n] = t => Pending(pc'[t], frame'[t], n, nodes'[n].num_keys)
                             = Pending(pc[t], frame[t], n, nodes[n].num_keys),
           lock'[n] = NoThread =>
              nodes'[n].num_keys = Pending(pc[t], frame[t], n, nodes[n].num_keys)
    PROVE  /\ nodes'[n].pointers = nodes[n].pointers => SameInner(n)
           /\ NextLeaf(n)' = NextLeaf(n) => SameLeaf(n)
<1>1. /\ Count(n) = Pending(pc[t], frame[t], n, nodes[n].num_keys)
      /\ ~Splitting(n) /\ ~Unlinked(n)
  BY HeldBy
<1>2. /\ Count(n)' = Pending(pc[t], frame[t], n, nodes[n].num_keys)
      /\ ~Splitting(n)' /\ ~Unlinked(n)'
  <2>1. CASE lock'[n] = t
    BY <2>1, HeldByNext
  <2>2. CASE lock'[n] = NoThread
    BY <2>2, HeldByNoneNext
  <2> QED BY <2>1, <2>2
<1>3. Contents(n)' = Contents(n)
  BY <1>1, <1>2 DEF Contents, KeysUpTo
<1> QED BY <1>1, <1>2, <1>3 DEF SameInner, SameKeys, SameLeaf

\* One node that the thread holds is changed.
LEMMA OneSteady ==
    ASSUME BInv, NEW t \in Threads, Alone(t), NEW n \in Nodes, lock[n] = t,
           NEW x \in NodeType, nodes' = [nodes EXCEPT ![n] = x],
           x.is_leaf = nodes[n].is_leaf, x.parent = nodes[n].parent
    PROVE  /\ Steady(t) /\ UNCHANGED <<Nodes, Leaves, Inner>>
           /\ nodes'[n] = x /\ \A m \in Nodes \ {n} : nodes'[m] = nodes[m]
           /\ \A m \in Nodes : nodes'[m].parent = nodes[m].parent
<1>1. /\ nodes'[n] = x /\ \A m \in Nodes \ {n} : nodes'[m] = nodes[m]
      /\ \A m \in Nodes : nodes'[m].parent = nodes[m].parent
      /\ UNCHANGED <<Nodes, Leaves, Inner>>
  BY OneNode DEF BInv
<1>2. \A m \in Nodes : lock[m] # t => nodes'[m] = nodes[m]
  BY <1>1
<1> QED BY <1>1, <1>2 DEF Steady

\* A step after which all leaves hold what they held, and all inner nodes too.
LEMMA SameStep ==
    ASSUME BInv, BInv', NEW t \in Threads, Steady(t), UNCHANGED <<Nodes, Leaves, Inner, root>>,
           NEW l, NEW r, NEW h, Ordered(l, r, h),
           \A n \in Leaves : SameLeaf(n), \A n \in Inner : SameInner(n),
           pc[t] \in HoldsRight =>
              \/ nodes'[frame[t].right].parent # NULL
              \/ pc'[t] \in HoldsRight /\ frame'[t].right = frame[t].right,
           WayOrder(l, r, t)', SplitOrder(l, r, h, t)'
    PROVE  OInv'
<1>1. NodeOrder(l, r, h) /\ Ghosts(l, r, h) /\ NodesOK
  BY OrderFacts, ThreadFacts
<1>2. Later(l, r, h, l, r, h)
  BY <1>1, SameLater DEF SameLeaf
<1>3. LeavesOrder(l, r, h)'
  BY <1>1, LeavesOrderKept DEF NodeOrder
<1>4. ASSUME NEW n \in Inner PROVE Routes(l, r, h, n)'
  <2>1. n \in Nodes /\ Routes(l, r, h, n)
    BY <1>1 DEF NodeOrder, Inner
  <2> QED BY <2>1, RoutesKept
<1>5. \A n \in Nodes : Leftmost(l, n)'
  BY <1>1, LeftmostKept DEF NodeOrder
<1>6. NodeOrder(l, r, h)'
  BY <1>1, <1>3, <1>4, <1>5 DEF NodeOrder
<1> QED BY <1>2, <1>6, Assembled DEF ThreadOrder

\* Where a thread has nothing to rely on but the root it began with.
LEMMA PlainWay ==
    ASSUME NEW t \in Threads, NEW l, NEW r,
           pc'[t] \notin {"descend", "at_leaf", "leaf_lock_parent", "leaf_split"} \cup DeleteHeld,
           l[frame'[t].root] <= BeforeKeys, r[frame'[t].root] >= 0, r[frame'[t].left] >= 0
    PROVE  WayOrder(l, r, t)'
BY DEF WayOrder, DeleteHeld

LEMMA PlainSplit ==
    ASSUME NEW t \in Threads, NEW l, NEW r, NEW h, pc'[t] = "put_return"
    PROVE  SplitOrder(l, r, h, t)'
BY DEF SplitOrder, HoldsParent, HoldsRight, SplitLabels

\* Nodes that the thread neither held nor holds.
LEMMA OutsideSame ==
    ASSUME BInv, BInv', NEW t \in Threads, Steady(t), NEW n \in Nodes, lock[n] # t, lock'[n] # t
    PROVE  SameInner(n) /\ (n \in Leaves => SameLeaf(n))
BY OutsideKept DEF SameInner

\* A call is done: node n has another num_keys, and all locks are given back.
Done(t, n, x) ==
    /\ pc[t] \in {"leaf_count", "node_count", "remove_count"}
    /\ Goto(t, "put_return", frame[t]) /\ UNCHANGED <<root, call>>
    /\ \A m \in Nodes : lock'[m] = IF lock[m] = t THEN NoThread ELSE lock[m]
    /\ n \in Nodes /\ lock[n] = t /\ x \in NodeType /\ nodes' = [nodes EXCEPT ![n] = x]
    /\ x.is_leaf = nodes[n].is_leaf /\ x.parent = nodes[n].parent /\ x.keys = nodes[n].keys
    /\ x.num_keys = Pending(pc[t], frame[t], n, nodes[n].num_keys)
    /\ n \in Inner => x.pointers = nodes[n].pointers
    /\ n \in Leaves => x.pointers[Order - 1] = NextLeaf(n)
    /\ \A i \in 0 .. x.num_keys - 1 : x.pointers[i] = nodes[n].pointers[i]
    /\ \A m \in Nodes \ {n} : lock[m] = t =>
          Pending(pc[t], frame[t], m, nodes[m].num_keys) = nodes[m].num_keys

LEMMA DoneKept ==
    ASSUME BInv, BInv', NEW t \in Threads, NEW n, NEW x, Done(t, n, x)
    PROVE  /\ Alone(t) /\ pc'[t] = "put_return" /\ frame'[t] = frame[t]
           /\ Steady(t) /\ KeptEntries /\ SameParents /\ \A m \in Leaves : SameLeaf(m)
<1> USE DEF Done
<1>1. Alone(t) /\ pc'[t] = "put_return" /\ frame'[t] = frame[t]
  BY GotoAlone
<1>2. /\ Steady(t) /\ UNCHANGED <<Nodes, Leaves, Inner>>
      /\ nodes'[n] = x /\ \A m \in Nodes \ {n} : nodes'[m] = nodes[m]
      /\ \A m \in Nodes : nodes'[m].parent = nodes[m].parent
  BY <1>1, OneSteady
<1>3. t # NoThread
  BY MenuAssumption
<1>4. ASSUME NEW m \in Nodes
      PROVE  (m \in Leaves => SameLeaf(m)) /\ (m \in Inner => SameInner(m))
  <2>1. CASE lock[m] # t
    BY <1>2, <1>3, <2>1, OutsideSame
  <2>2. CASE lock[m] = t
    <3>1. lock'[m] = NoThread /\ m \in Nodes'
      BY <1>2, <2>2
    <3>2. nodes'[m].keys = nodes[m].keys
          /\ nodes'[m].num_keys = Pending(pc[t], frame[t], m, nodes[m].num_keys)
      BY <1>2, <2>2
    <3>3. pc[t] # "leaf_link" /\ pc'[t] # "leaf_link"
      BY <1>1
    <3>4. /\ nodes'[m].pointers = nodes[m].pointers => SameInner(m)
          /\ NextLeaf(m)' = NextLeaf(m) => SameLeaf(m)
      BY <1>3, <2>2, <3>1, <3>2, <3>3, HeldSame
    <3>5. m \in Inner => nodes'[m].pointers = nodes[m].pointers
      BY <1>2
    <3>6. m \in Leaves => NextLeaf(m)' = NextLeaf(m)
      BY <1>2 DEF NextLeaf
    <3> QED BY <3>4, <3>5, <3>6
  <2> QED BY <2>1, <2>2
<1>5. Count(n) = x.num_keys
  BY HeldBy
<1>6. (\A m \in Leaves : m \in Nodes) /\ (\A m \in Inner : m \in Nodes)
  BY DEF Leaves, Inner
<1>7. \A m \in Leaves : SameEntries(m)
  BY <1>2, <1>4, <1>5, <1>6 DEF SameEntries, SameLeaf
<1> QED BY <1>1, <1>2, <1>4, <1>6, <1>7 DEF KeptEntries, SameParents

LEMMA DoneOrder ==
    ASSUME BInv, BInv', NEW t \in Threads, NEW l, NEW r, NEW h, Ordered(l, r, h),
           NEW n, NEW x, Done(t, n, x)
    PROVE  OInv'
<1>1. /\ Alone(t) /\ pc'[t] = "put_return" /\ frame'[t] = frame[t]
      /\ Steady(t) /\ KeptEntries /\ SameParents /\ \A m \in Leaves : SameLeaf(m)
  BY DoneKept
<1>2. pc[t] \in {"leaf_count", "node_count", "remove_count"} /\ UNCHANGED root
  BY DEF Done
<1>3. WayOrder(l, r, t) /\ SplitOrder(l, r, h, t)
  BY OrderFacts
<1>4. WayOrder(l, r, t)'
  BY <1>1, <1>2, <1>3, PlainWay DEF WayOrder, DeleteHeld
<1>5. pc[t] \in HoldsRight => nodes'[frame[t].right].parent # NULL
  <2> SUFFICES ASSUME pc[t] \in HoldsRight PROVE nodes'[frame[t].right].parent # NULL
    OBVIOUS
  <2>1. pc[t] = "node_count"
    BY <1>2 DEF HoldsRight
  <2>2. frame[t].right \in Nodes /\ frame[t].parent # NULL
    BY <2>1, ThreadFacts DEF FrameOK, HoldsRight
  <2> QED BY <1>1, <1>3, <2>1, <2>2 DEF SplitOrder, SameParents
<1> QED BY <1>1, <1>2, <1>4, <1>5, PlainSplit, SameStep DEF KeptEntries

LEMMA LeafCountDone ==
    ASSUME BInv, NEW t \in Threads, LeafCount(t)
    PROVE  \E n, x : Done(t, n, x)
<1> DEFINE n == frame[t].left
           x == [nodes[n] EXCEPT !.num_keys = nodes[n].num_keys + 1]
<1>1. /\ pc[t] = "leaf_count"
      /\ nodes' = [nodes EXCEPT ![n] = x]
      /\ lock' = [lock EXCEPT ![n] = NoThread]
      /\ Goto(t, "put_return", frame[t])
      /\ UNCHANGED <<root, call>>
  BY DEF LeafCount, At
<1>2. NodesOK /\ FrameOK(t) /\ RoomOK(t) /\ LockOK(t)
  BY ThreadFacts
<1>3. n \in Leaves /\ n \in Nodes /\ n \notin Inner
  BY <1>1, <1>2 DEF FrameOK, LeafLabels, Leaves, Inner
<1>4. nodes[n].num_keys + 1 \in 0 .. Order - 1 /\ nodes[n] \in NodeType
  BY <1>1, <1>2, <1>3, NodeFields, OrderAssumption DEF RoomOK
<1>5. /\ x \in NodeType /\ x.is_leaf = nodes[n].is_leaf /\ x.parent = nodes[n].parent
      /\ x.keys = nodes[n].keys /\ x.pointers = nodes[n].pointers
      /\ x.num_keys = nodes[n].num_keys + 1
  BY <1>4, Renumbered
<1> HIDE DEF x
<1>6. \A m \in Nodes : lock[m] = t <=> m = n
  BY <1>1, <1>2, <1>3 DEF LockOK, Holds, HoldsLeft, HoldsRight, HoldsParent, Deleting,
                          DeleteLabels
<1>7. \A m \in Nodes : lock'[m] = IF m = n THEN NoThread ELSE lock[m]
  BY <1>1, <1>2, <1>3 DEF NodesOK
<1>8. x.num_keys = Pending(pc[t], frame[t], n, nodes[n].num_keys)
  BY <1>1, <1>5 DEF Pending
<1>9. x.pointers[Order - 1] = NextLeaf(n)
  BY <1>5 DEF NextLeaf
<1>10. lock[n] = t
  BY <1>3, <1>6
<1>11. \A m \in Nodes : lock'[m] = IF lock[m] = t THEN NoThread ELSE lock[m]
  BY <1>6, <1>7
<1>12. \A i \in 0 .. x.num_keys - 1 : x.pointers[i] = nodes[n].pointers[i]
  BY <1>5
<1>13. pc[t] \in {"leaf_count", "node_count", "remove_count"}
  BY <1>1
<1>14. \A m \in Nodes \ {n} : lock[m] = t =>
          Pending(pc[t], frame[t], m, nodes[m].num_keys) = nodes[m].num_keys
  BY <1>6
<1> HIDE DEF n
<1>15. Done(t, n, x)
  BY <1>1, <1>3, <1>5, <1>8, <1>9, <1>10, <1>11, <1>12, <1>13, <1>14 DEF Done
<1> QED BY <1>15

LEMMA LeafCountOrder ==
    ASSUME BInv, BInv', NEW t \in Threads, LeafCount(t), NEW l, NEW r, NEW h, Ordered(l, r, h)
    PROVE  OInv'
BY LeafCountDone, DoneOrder

LEMMA RemoveCountDone ==
    ASSUME BInv, NEW t \in Threads, RemoveCount(t)
    PROVE  \E n, x : Done(t, n, x)
<1> DEFINE n == frame[t].key_leaf
           num == nodes[n].num_keys - 1
           x == Cleared(nodes[n], num)
<1>1. /\ pc[t] = "remove_count"
      /\ nodes' = [nodes EXCEPT ![n] = x]
      /\ lock' = [lock EXCEPT ![n] = NoThread]
      /\ Goto(t, "put_return", frame[t])
      /\ UNCHANGED <<root, call>>
  BY DEF RemoveCount, At
<1>2. NodesOK /\ CallOK(t) /\ FrameOK(t) /\ RoomOK(t) /\ LockOK(t)
  BY ThreadFacts
<1>3. Deleting(t)
  BY <1>1, <1>2 DEF CallOK, Deleting, DeleteLabels
<1>4. n \in Leaves /\ n \in Nodes /\ n \notin Inner
  BY <1>2, <1>3 DEF FrameOK, Leaves, Inner
<1>5. num \in 0 .. Order - 1 /\ nodes[n] \in NodeType
  BY <1>1, <1>2, <1>4, NodeFields, OrderAssumption DEF RoomOK
<1>6. /\ x \in NodeType /\ x.is_leaf = nodes[n].is_leaf /\ x.parent = nodes[n].parent
      /\ x.keys = nodes[n].keys /\ x.num_keys = num
      /\ x.pointers[Order - 1] = NextLeaf(n)
      /\ \A i \in 0 .. x.num_keys - 1 : x.pointers[i] = nodes[n].pointers[i]
  BY <1>5, ClearedOK DEF NextLeaf
<1> HIDE DEF x
<1>7. \A m \in Nodes : lock[m] = t <=> m = n
  BY <1>1, <1>2, <1>3, <1>4 DEF LockOK, Holds, HoldsLeft, HoldsRight, HoldsParent
<1>8. \A m \in Nodes : lock'[m] = IF m = n THEN NoThread ELSE lock[m]
  BY <1>1, <1>2, <1>4 DEF NodesOK
<1>9. x.num_keys = Pending(pc[t], frame[t], n, nodes[n].num_keys)
  BY <1>1, <1>6 DEF Pending
<1>10. lock[n] = t
  BY <1>4, <1>7
<1>11. \A m \in Nodes : lock'[m] = IF lock[m] = t THEN NoThread ELSE lock[m]
  BY <1>7, <1>8
<1>13. pc[t] \in {"leaf_count", "node_count", "remove_count"}
  BY <1>1
<1>14. \A m \in Nodes \ {n} : lock[m] = t =>
          Pending(pc[t], frame[t], m, nodes[m].num_keys) = nodes[m].num_keys
  BY <1>7
<1> HIDE DEF n
<1>15. Done(t, n, x)
  BY <1>1, <1>4, <1>6, <1>9, <1>10, <1>11, <1>13, <1>14 DEF Done
<1> QED BY <1>15

LEMMA RemoveCountOrder ==
    ASSUME BInv, BInv', NEW t \in Threads, RemoveCount(t), NEW l, NEW r, NEW h, Ordered(l, r, h)
    PROVE  OInv'
BY RemoveCountDone, DoneOrder

LEMMA NodeCountDone ==
    ASSUME BInv, NEW t \in Threads, NodeCount(t)
    PROVE  \E n, x : Done(t, n, x)
<1> DEFINE n == frame[t].parent
           H == {frame[t].left, frame[t].right, n}
           x == [nodes[n] EXCEPT !.num_keys = nodes[n].num_keys + 1]
<1>1. /\ pc[t] = "node_count"
      /\ nodes' = [nodes EXCEPT ![n] = x]
      /\ lock' = [lock EXCEPT ![n] = NoThread, ![frame[t].left] = NoThread,
                              ![frame[t].right] = NoThread]
      /\ Goto(t, "put_return", frame[t])
      /\ UNCHANGED <<root, call>>
  BY DEF NodeCount, At
<1>2. NodesOK /\ FrameOK(t) /\ RoomOK(t) /\ LockOK(t)
  BY ThreadFacts
<1>3. n \in Inner /\ n \in Nodes /\ n \notin Leaves
  BY <1>1, <1>2 DEF FrameOK, Leaves, Inner
<1>4. nodes[n].num_keys + 1 \in 0 .. Order - 1 /\ nodes[n] \in NodeType
  BY <1>1, <1>2, <1>3, NodeFields, OrderAssumption DEF RoomOK
<1>5. /\ x \in NodeType /\ x.is_leaf = nodes[n].is_leaf /\ x.parent = nodes[n].parent
      /\ x.keys = nodes[n].keys /\ x.pointers = nodes[n].pointers
      /\ x.num_keys = nodes[n].num_keys + 1
  BY <1>4, Renumbered
<1> HIDE DEF x
<1>6. \A m \in Nodes : lock[m] = t <=> m \in H
  BY <1>1, <1>2 DEF LockOK, Holds, HoldsLeft, HoldsRight, HoldsParent, Deleting,
                    DeleteLabels
<1>7. \A m \in Nodes : lock'[m] = IF m \in H THEN NoThread ELSE lock[m]
  BY <1>1, <1>2, <1>3 DEF NodesOK
<1>8. x.num_keys = Pending(pc[t], frame[t], n, nodes[n].num_keys)
  BY <1>1, <1>5 DEF Pending
<1>10. lock[n] = t
  BY <1>3, <1>6
<1>11. \A m \in Nodes : lock'[m] = IF lock[m] = t THEN NoThread ELSE lock[m]
  BY <1>6, <1>7
<1>12. \A i \in 0 .. x.num_keys - 1 : x.pointers[i] = nodes[n].pointers[i]
  BY <1>5
<1>13. pc[t] \in {"leaf_count", "node_count", "remove_count"}
  BY <1>1
<1>14. \A m \in Nodes \ {n} : lock[m] = t =>
          Pending(pc[t], frame[t], m, nodes[m].num_keys) = nodes[m].num_keys
  BY <1>1 DEF Pending
<1> HIDE DEF n
<1>15. Done(t, n, x)
  BY <1>1, <1>3, <1>5, <1>8, <1>10, <1>11, <1>12, <1>13, <1>14 DEF Done
<1> QED BY <1>15

LEMMA NodeCountOrder ==
    ASSUME BInv, BInv', NEW t \in Threads, NodeCount(t), NEW l, NEW r, NEW h, Ordered(l, r, h)
    PROVE  OInv'
BY NodeCountDone, DoneOrder

LEMMA NodeEmptyOrder ==
    ASSUME BInv, BInv', NEW t \in Threads, NodeEmpty(t), NEW l, NEW r, NEW h, Ordered(l, r, h)
    PROVE  OInv'
<1> DEFINE n == frame[t].left
           x == [nodes[n] EXCEPT !.num_keys = 0]
<1>1. /\ pc[t] = "node_empty"
      /\ nodes' = [nodes EXCEPT ![n] = x]
      /\ Goto(t, "node_split", frame[t])
      /\ UNCHANGED <<lock, root, call>>
  BY DEF NodeEmpty, At
<1>2. NodesOK /\ FrameOK(t) /\ LockOK(t) /\ WayOrder(l, r, t) /\ SplitOrder(l, r, h, t)
  BY ThreadFacts, OrderFacts
<1>3. n \in Inner /\ n \in Nodes /\ n \notin Leaves
  BY <1>1, <1>2 DEF FrameOK, SplitLabels, Leaves, Inner
<1>4. nodes[n] \in NodeType /\ 0 \in 0 .. Order - 1 /\ nodes[n].num_keys = Order - 1
  BY <1>1, <1>2, <1>3, NodeFields, OrderAssumption DEF SplitOrder
<1>5. x \in NodeType /\ x.is_leaf = nodes[n].is_leaf /\ x.parent = nodes[n].parent
      /\ x.keys = nodes[n].keys /\ x.pointers = nodes[n].pointers /\ x.num_keys = 0
  BY <1>4, Renumbered
<1> HIDE DEF x
<1>6. lock[n] = t
  BY <1>1, <1>2, <1>3 DEF LockOK, Holds, HoldsLeft
<1>7. Alone(t) /\ pc'[t] = "node_split" /\ frame'[t] = frame[t]
  BY <1>1, GotoAlone
<1>8. /\ Steady(t) /\ UNCHANGED <<Nodes, Leaves, Inner>>
      /\ nodes'[n] = x /\ \A m \in Nodes \ {n} : nodes'[m] = nodes[m]
  BY <1>1, <1>3, <1>5, <1>6, <1>7, OneSteady
<1>9. ASSUME NEW m \in Nodes
      PROVE  (m \in Leaves => SameLeaf(m)) /\ SameInner(m)
  <2>1. CASE lock[m] # t
    BY <1>1, <1>8, <2>1, OutsideSame
  <2>2. CASE lock[m] = t
    <3>1. lock'[m] = t /\ m \in Nodes' /\ lock'[m] # NoThread
      BY <1>1, <1>8, <2>2, MenuAssumption
    <3>2. nodes'[m].keys = nodes[m].keys /\ nodes'[m].pointers = nodes[m].pointers
      BY <1>5, <1>8
    <3>3. Pending(pc'[t], frame'[t], m, nodes'[m].num_keys)
            = Pending(pc[t], frame[t], m, nodes[m].num_keys)
      <4>1. CASE m = n
        BY <1>1, <1>4, <1>7, <4>1 DEF Pending
      <4>2. CASE m # n
        BY <1>1, <1>7, <1>8, <4>2 DEF Pending
      <4> QED BY <4>1, <4>2
    <3>4. pc[t] # "leaf_link" /\ pc'[t] # "leaf_link"
      BY <1>1, <1>7
    <3> QED BY <2>2, <3>1, <3>2, <3>3, <3>4, HeldSame DEF NextLeaf
  <2> QED BY <2>1, <2>2
<1>10. WayOrder(l, r, t)'
  BY <1>1, <1>2, <1>7, PlainWay DEF WayOrder, DeleteHeld
<1>11. SplitOrder(l, r, h, t)'
  BY <1>1, <1>2, <1>7 DEF SplitOrder, HoldsParent, HoldsRight, SplitLabels
<1>12. (\A m \in Leaves : m \in Nodes) /\ (\A m \in Inner : m \in Nodes)
  BY DEF Leaves, Inner
<1>13. pc[t] \notin HoldsRight
  BY <1>1 DEF HoldsRight
<1> QED BY <1>1, <1>8, <1>9, <1>10, <1>11, <1>12, <1>13, SameStep

LEMMA LeafCutOrder ==
    ASSUME BInv, BInv', NEW t \in Threads, LeafCut(t), NEW l, NEW r, NEW h, Ordered(l, r, h)
    PROVE  OInv'
<1> DEFINE n == frame[t].left
           new == frame[t].right
           x == Cleared(nodes[n], cut(Order - 1))
           y == [nodes[new] EXCEPT !.parent = nodes[n].parent]
           f == [frame[t] EXCEPT !.key = nodes[new].keys[0]]
<1>1. /\ pc[t] = "leaf_cut"
      /\ nodes' = [nodes EXCEPT ![n] = x, ![new].parent = nodes[n].parent]
      /\ Goto(t, "into_parent", f)
      /\ UNCHANGED <<lock, root, call>>
  BY DEF LeafCut, At
<1> HIDE DEF x, f
<1>2. /\ NodesOK /\ FrameOK(t) /\ LockOK(t) /\ frame[t] \in FrameType
      /\ WayOrder(l, r, t) /\ SplitOrder(l, r, h, t) /\ LeavesOrder(l, r, h)
  BY ThreadFacts, OrderFacts
<1>3. n \in Leaves /\ n \in Nodes /\ new \in Leaves /\ new \in Nodes /\ n # new
  BY <1>1, <1>2 DEF FrameOK, LeafLabels, HoldsRight, Leaves
<1>4. nodes' = [nodes EXCEPT ![n] = x, ![new] = y]
  BY <1>1, <1>3
<1> HIDE DEF y
<1>5. /\ nodes[n] \in NodeType /\ nodes[new] \in NodeType
      /\ nodes[n].parent \in Int
  BY <1>2, <1>3, NodeFields
<1>6. /\ x \in NodeType /\ x.is_leaf = nodes[n].is_leaf /\ x.parent = nodes[n].parent
      /\ x.keys = nodes[n].keys /\ x.num_keys = cut(Order - 1)
      /\ x.pointers[Order - 1] = NextLeaf(n)
  <2>1. cut(Order - 1) \in 0 .. Order - 1
    BY CutBounds, OrderAssumption
  <2> QED BY <1>5, <2>1, ClearedOK DEF x, NextLeaf
<1>7. /\ y \in NodeType /\ y.is_leaf = nodes[new].is_leaf /\ y.parent = nodes[n].parent
      /\ y.keys = nodes[new].keys /\ y.num_keys = nodes[new].num_keys
      /\ y.pointers = nodes[new].pointers
  BY <1>5 DEF y, NodeType
<1>8. /\ nodes'[n] = x /\ nodes'[new] = y
      /\ \A m \in Nodes \ {n, new} : nodes'[m] = nodes[m]
      /\ UNCHANGED <<Nodes, Leaves, Inner>>
  <2>1. /\ nodes'[n] = x /\ nodes'[new] = y
        /\ Nodes' = Nodes /\ \A m \in Nodes \ {n, new} : nodes'[m] = nodes[m]
    BY <1>2, <1>3, <1>4, <1>6, <1>7 DEF NodesOK, Nodes
  <2>2. Leaves' = Leaves
    BY <1>6, <1>7, <2>1 DEF Leaves
  <2> QED BY <2>1, <2>2 DEF Inner
<1>9. /\ f.left = n /\ f.right = new /\ f.root = frame[t].root /\ f.parent = frame[t].parent
      /\ f.key = nodes[new].keys[0]
  BY <1>2 DEF f, FrameType
<1>10. Alone(t) /\ pc'[t] = "into_parent" /\ frame'[t] = f
  BY <1>1, GotoAlone
<1>11. lock[n] = t /\ lock[new] = t
  BY <1>1, <1>2, <1>3 DEF LockOK, Holds, HoldsLeft, HoldsRight
<1>12. nodes[n].parent # NULL => nodes'[new].parent # NULL
  BY <1>7, <1>8
<1>13. Steady(t)
  <2>1. \A m \in Nodes : lock[m] # t => nodes'[m] = nodes[m]
    BY <1>8, <1>11
  <2>2. lock[new] = t /\ pc'[t] \in HoldsRight /\ new = frame'[t].right
    BY <1>9, <1>10, <1>11 DEF HoldsRight
  <2>3. \A m \in Nodes \ {new} : nodes[m].parent # NULL => nodes'[m].parent # NULL
    BY <1>6, <1>8
  <2> QED BY <1>8, <1>10, <2>1, <2>2, <2>3 DEF Steady
<1>14. ASSUME NEW m \in Nodes
       PROVE  (m \in Leaves => SameLeaf(m)) /\ (m \in Inner => SameInner(m))
  <2>1. CASE lock[m] # t
    BY <1>1, <1>13, <2>1, OutsideSame
  <2>2. CASE lock[m] = t
    <3>1. lock'[m] = t /\ m \in Nodes' /\ lock'[m] # NoThread
      BY <1>1, <1>8, <2>2, MenuAssumption
    <3>2. nodes'[m].keys = nodes[m].keys
      BY <1>6, <1>7, <1>8
    <3>3. m # n => nodes'[m].num_keys = nodes[m].num_keys /\ nodes'[m].pointers = nodes[m].pointers
      BY <1>7, <1>8
    <3>4. Pending(pc'[t], frame'[t], m, nodes'[m].num_keys)
            = Pending(pc[t], frame[t], m, nodes[m].num_keys)
      <4>1. CASE m = n
        BY <1>1, <1>6, <1>8, <1>10, <4>1 DEF Pending
      <4>2. CASE m # n
        BY <1>1, <1>10, <3>3, <4>2 DEF Pending
      <4> QED BY <4>1, <4>2
    <3>5. pc[t] # "leaf_link" /\ pc'[t] # "leaf_link"
      BY <1>1, <1>10
    <3>6. /\ nodes'[m].pointers = nodes[m].pointers => SameInner(m)
          /\ NextLeaf(m)' = NextLeaf(m) => SameLeaf(m)
      BY <2>2, <3>1, <3>2, <3>4, <3>5, HeldSame
    <3>7. NextLeaf(m)' = NextLeaf(m)
      BY <1>6, <1>8, <3>3 DEF NextLeaf
    <3>8. m \in Inner => m # n
      BY <1>3, SMTT(60) DEF Inner
    <3> QED BY <3>3, <3>6, <3>7, <3>8
  <2> QED BY <2>1, <2>2
<1>15. WayOrder(l, r, t)'
  BY <1>1, <1>2, <1>9, <1>10, PlainWay DEF WayOrder, DeleteHeld
<1>16. SplitOrder(l, r, h, t)'
  <2>1. h[new] = h[n]
    BY <1>2, <1>3 DEF LeavesOrder, Chained
  <2>2. r[new] >= 0 /\ l[new] <= f.key
    BY <1>1, <1>2, <1>9 DEF SplitOrder
  <2>3. f.parent = NULL => l[n] <= BeforeKeys
    BY <1>1, <1>2, <1>9 DEF SplitOrder, HoldsParent, HoldsRight
  <2>4. f.parent # NULL => nodes'[new].parent # NULL
    BY <1>1, <1>2, <1>9, <1>12 DEF FrameOK, HoldsParent, HoldsRight
  <2> QED BY <1>9, <1>10, <2>1, <2>2, <2>3, <2>4 DEF SplitOrder, SplitLabels
<1>17. (\A m \in Leaves : m \in Nodes) /\ (\A m \in Inner : m \in Nodes)
  BY DEF Leaves, Inner
<1>18. pc'[t] \in HoldsRight /\ frame'[t].right = frame[t].right
  BY <1>9, <1>10 DEF HoldsRight
<1> QED BY <1>1, <1>8, <1>13, <1>14, <1>15, <1>16, <1>17, <1>18, SameStep

-------------------------------------------------------------------------------
(* Sorted sequences of keys *)

Ascending(f, num) == \A i, j \in 0 .. num - 1 : i < j => f[i] < f[j]

LEMMA SplicedAt ==
    ASSUME NEW f, NEW last \in Nat, NEW i \in 0 .. last, NEW x, NEW j \in 0 .. last
    PROVE  Spliced(f, i, last, x)[j] = IF j < i THEN f[j] ELSE IF j = i THEN x ELSE f[j - 1]
BY DEF Spliced

LEMMA SplicedSorted ==
    ASSUME NEW f, NEW num \in Nat, NEW i \in 0 .. num, NEW k \in Int,
           \A j \in 0 .. num - 1 : f[j] \in Int, Ascending(f, num),
           \A j \in 0 .. num - 1 : (j < i => f[j] < k) /\ (j >= i => k < f[j]),
           NEW g, \A j \in 0 .. num : g[j] = Spliced(f, i, num, k)[j]
    PROVE  /\ \A j \in 0 .. num : g[j] \in Int
           /\ Ascending(g, num + 1)
           /\ \A j \in 0 .. num : g[j] = k \/ \E m \in 0 .. num - 1 : g[j] = f[m]
<1>1. \A j \in 0 .. num :
         /\ j < i => g[j] = f[j] /\ j \in 0 .. num - 1
         /\ j = i => g[j] = k
         /\ j > i => g[j] = f[j - 1] /\ j - 1 \in 0 .. num - 1 /\ j - 1 >= i
  <2>1. ASSUME NEW j \in 0 .. num
        PROVE  g[j] = IF j < i THEN f[j] ELSE IF j = i THEN k ELSE f[j - 1]
    BY SplicedAt
  <2> QED BY <2>1
<1>2. ASSUME NEW a \in 0 .. num, NEW c \in 0 .. num, a < c
      PROVE  g[a] < g[c]
  <2>1. CASE c < i
    <3>1. a < i
      BY <1>2, <2>1
    <3> QED BY <1>1, <1>2, <2>1, <3>1 DEF Ascending
  <2>2. CASE c = i
    BY <1>1, <1>2, <2>2
  <2>3. CASE c > i /\ a < i
    <3>1. /\ a \in 0 .. num - 1 /\ f[a] < k /\ g[a] = f[a] /\ f[a] \in Int
      BY <1>1, <2>3
    <3>2. c - 1 \in 0 .. num - 1 /\ k < f[c - 1] /\ g[c] = f[c - 1] /\ f[c - 1] \in Int
      BY <1>1, <2>3
    <3> QED BY <3>1, <3>2
  <2>4. CASE c > i /\ a = i
    BY <1>1, <2>4
  <2>5. CASE c > i /\ a > i
    <3>1. a - 1 \in 0 .. num - 1 /\ c - 1 \in 0 .. num - 1 /\ a - 1 < c - 1
      BY <1>1, <1>2, <2>5
    <3>2. f[a - 1] < f[c - 1]
      BY <3>1 DEF Ascending
    <3> QED BY <1>1, <2>5, <3>2
  <2> QED BY <1>2, <2>1, <2>2, <2>3, <2>4, <2>5
<1>3. Ascending(g, num + 1)
  <2>1. \A j \in 0 .. num + 1 - 1 : j \in 0 .. num
    OBVIOUS
  <2> QED BY <1>2, <2>1 DEF Ascending
<1>4. \A j \in 0 .. num : g[j] \in Int
  BY <1>1
<1>5. \A j \in 0 .. num : g[j] = k \/ \E m \in 0 .. num - 1 : g[j] = f[m]
  BY <1>1
<1> QED BY <1>3, <1>4, <1>5

\* Where a key is inserted that insert did not find.
LEMMA InsertionFacts ==
    ASSUME NEW f \in [Slots -> Int], NEW num \in 0 .. Order - 1, NEW k \in Int,
           Ascending(f, num),
           f[Min({i \in Slots : i = Order - 1 \/ f[i] >= k})] # k,
           NEW i, i = Min({j \in 0 .. num : j = num \/ f[j] >= k})
    PROVE  /\ i \in 0 .. num
           /\ \A j \in 0 .. num - 1 : (j < i => f[j] < k) /\ (j >= i => k < f[j])
<1> DEFINE S == {j \in 0 .. num : j = num \/ f[j] >= k}
           T == {j \in Slots : j = Order - 1 \/ f[j] >= k}
<1>1. S \in SUBSET Nat /\ S # {} /\ T \in SUBSET Nat /\ T # {}
  <2>1. num \in S /\ S \in SUBSET Nat
    BY ONLY num \in 0 .. Order - 1, OrderAssumption
  <2>2. Order - 1 \in T /\ T \in SUBSET Nat
    BY ONLY OrderAssumption DEF Slots
  <2> QED BY <2>1, <2>2
<1>2. i \in S /\ (\A j \in S : i <= j) /\ Min(T) \in T /\ (\A j \in T : Min(T) <= j)
  BY <1>1, MinLeast
<1>3. \A j \in 0 .. num - 1 : f[j] \in Int /\ j \in Slots /\ j \in 0 .. num
  BY OrderAssumption DEF Slots
<1>4. PICK m : m = Min(T)
  OBVIOUS
<1>5. m \in T /\ (\A j \in T : m <= j) /\ f[m] # k
  BY <1>2, <1>4
<1>6. ASSUME NEW j \in 0 .. num - 1, j < i
      PROVE  f[j] < k
  <2>1. j \notin S
    BY <1>2, <1>6
  <2> QED BY <1>3, <2>1
<1>7. ASSUME NEW j \in 0 .. num - 1, j >= i
      PROVE  k < f[j]
  <2>1. i \in 0 .. num - 1 /\ f[i] >= k
    BY <1>2, <1>7
  <2>2. i \in T
    BY <1>3, <2>1
  <2>3. m <= i
    BY <1>5, <2>2
  <2>4. m \in 0 .. num - 1 /\ m # Order - 1
    BY <1>5, <2>1, <2>3, OrderAssumption DEF Slots
  <2>5. f[m] >= k
    BY <1>5, <2>4
  <2>6. i <= m
    BY <1>2, <1>3, <2>4, <2>5
  <2>7. f[i] # k
    BY <1>5, <2>1, <2>3, <2>4, <2>6
  <2>8. i = j \/ f[i] < f[j]
    BY <1>7, <2>1 DEF Ascending
  <2>9. f[i] \in Int /\ f[j] \in Int
    BY <1>3, <2>1
  <2> QED BY <2>1, <2>7, <2>8, <2>9
<1> QED BY <1>2, <1>6, <1>7

LEMMA WithoutSorted ==
    ASSUME NEW f \in [Slots -> Int], NEW num \in 1 .. Order - 1, NEW i \in 0 .. num - 1,
           Ascending(f, num), NEW g, g = Over(f, Without(f, i, num))
    PROVE  /\ Ascending(g, num - 1)
           /\ \A j \in 0 .. num - 2 : \E m \in 0 .. num - 1 : g[j] = f[m]
<1>1. \A j \in 0 .. num - 2 :
         /\ j \in 0 .. num - 1 /\ j + 1 \in 0 .. num - 1
         /\ j < i => g[j] = f[j]
         /\ j >= i => g[j] = f[j + 1]
  <2>1. \A j \in 0 .. num - 2 : j \in Slots /\ (j \in i .. num - 2 <=> j >= i)
    BY OrderAssumption DEF Slots
  <2>2. DOMAIN Without(f, i, num) = i .. num - 2
        /\ \A j \in i .. num - 2 : Without(f, i, num)[j] = f[j + 1]
    BY DEF Without
  <2>3. \A j \in Slots : g[j] = IF j \in i .. num - 2 THEN f[j + 1] ELSE f[j]
    BY <2>2 DEF Over
  <2> QED BY <2>1, <2>3
<1>2. ASSUME NEW a \in 0 .. num - 2, NEW c \in 0 .. num - 2, a < c
      PROVE  g[a] < g[c]
  <2>1. CASE c < i
    BY <1>1, <1>2, <2>1 DEF Ascending
  <2>2. CASE c >= i /\ a < i
    BY <1>1, <1>2, <2>2 DEF Ascending
  <2>3. CASE c >= i /\ a >= i
    <3>1. f[a + 1] < f[c + 1]
      BY <1>1, <1>2 DEF Ascending
    <3> QED BY <1>1, <2>3, <3>1
  <2> QED BY <1>2, <2>1, <2>2, <2>3
<1>3. Ascending(g, num - 1)
  <2>1. \A j \in 0 .. num - 1 - 1 : j \in 0 .. num - 2
    OBVIOUS
  <2> QED BY <1>2, <2>1 DEF Ascending
<1> QED BY <1>1, <1>3

-------------------------------------------------------------------------------
(* A leaf that is changed *)

\* A key that may be added to leaf n: it is greater than all keys to the left, and less
\* than whatever is to the right.
Fits(r, n, y) ==
    /\ y \in Int /\ Above(r, n, y)
    /\ \A q \in Leaves, v \in Int : r[q] >= 0 /\ r[q] < r[n] /\ Above(r, q, v) => y < v

LEMMA AboveGrows ==
    ASSUME BInv, NEW n \in Leaves, NEW r, NEW r2,
           \A m \in Leaves : r[m] \in Int /\ r2[m] = r[m],
           Leaves \subseteq Leaves', \A m \in Leaves' \ Leaves : r2[m] = -1,
           \A m \in Leaves \ {n} : Contents(m)' = Contents(m),
           \A y \in Contents(n)' : y \in Contents(n) \/ Fits(r, n, y),
           NEW q \in Leaves, NEW v \in Int, r[q] >= 0, Above(r, q, v)
    PROVE  Above(r2, q, v)'
<1>1. ASSUME NEW p \in Leaves', r2[p] > r2[q]
      PROVE  Below(p, v)'
  <2>1. p \in Leaves
    BY <1>1
  <2>2. r[p] > r[q] /\ Below(p, v)
    BY <1>1, <2>1 DEF Above
  <2>3. CASE p # n
    BY <2>1, <2>2, <2>3 DEF Below
  <2>4. CASE p = n
    <3>1. ASSUME NEW y \in Contents(n)' PROVE y < v
      <4>1. CASE y \in Contents(n)
        BY <2>2, <2>4, <4>1 DEF Below
      <4>2. CASE Fits(r, n, y)
        BY <2>1, <2>2, <2>4, <4>2 DEF Fits
      <4> QED BY <4>1, <4>2
    <3> QED BY <2>2, <2>4, <3>1 DEF Below
  <2> QED BY <2>3, <2>4
<1> QED BY <1>1 DEF Above

LEMMA LeavesGrow ==
    ASSUME BInv, NEW l, NEW r, NEW h, Ghosts(l, r, h), LeavesOrder(l, r, h),
           NEW l2, NEW r2, NEW h2,
           \A m \in Leaves : l2[m] = l[m] /\ r2[m] = r[m] /\ h2[m] = h[m],
           Leaves \subseteq Leaves', \A m \in Leaves' \ Leaves : r2[m] = -1,
           NEW n \in Leaves, r[n] >= 0,
           \A m \in Leaves \ {n} : SameLeaf(m),
           \A y \in Contents(n)' : y \in Contents(n) \/ Fits(r, n, y),
           NextLeaf(n)' = NextLeaf(n), ~Unlinked(n)', Sorted(n)'
    PROVE  /\ \A q \in Leaves, v \in Int : r[q] >= 0 /\ Above(r, q, v) => Above(r2, q, v)'
           /\ \A m \in Leaves : Chained(r2, h2, m)' /\ Sorted(m)' /\ Ascends(l2, r2, m)'
<1>1. \A m \in Leaves : l[m] \in Int /\ r[m] \in Int /\ m \in Nodes
  BY ThreadFacts, NodeNumbers DEF Leaves, Ghosts, BInv
<1>2. ASSUME NEW q \in Leaves, NEW v \in Int, r[q] >= 0, Above(r, q, v)
      PROVE  Above(r2, q, v)'
  <2>1. \A m \in Leaves : r[m] \in Int /\ r2[m] = r[m]
    BY <1>1
  <2>2. \A m \in Leaves \ {n} : Contents(m)' = Contents(m)
    BY DEF SameLeaf
  <2> QED BY <1>2, <2>1, <2>2, AboveGrows
<1>3. ASSUME NEW m \in Leaves
      PROVE  Chained(r2, h2, m)' /\ Sorted(m)' /\ Ascends(l2, r2, m)'
  <2>1. Chained(r, h, m) /\ Sorted(m) /\ Ascends(l, r, m)
        /\ l2[m] = l[m] /\ r2[m] = r[m] /\ h2[m] = h[m]
    BY DEF LeavesOrder
  <2>2. NextLeaf(m) \in Leaves \cup {NULL}
    BY <1>1 DEF BInv, NodesOK, Linked
  <2>3. NextLeaf(m)' = NextLeaf(m) /\ (Unlinked(m)' <=> Unlinked(m))
    <3>1. CASE m = n
      BY <2>1, <3>1 DEF Chained
    <3>2. CASE m # n
      BY <3>2 DEF SameLeaf
    <3> QED BY <3>1, <3>2
  <2>4. Chained(r2, h2, m)'
    BY <2>1, <2>2, <2>3 DEF Chained
  <2>5. Sorted(m)'
    <3>1. CASE m = n
      BY <3>1
    <3>2. CASE m # n
      BY <2>1, <3>2 DEF SameLeaf, SameKeys, Sorted
    <3> QED BY <3>1, <3>2
  <2>6. ASSUME r2[m] >= 0
        PROVE  Above(r2, m, l2[m])' /\ \A y \in Contents(m)' : Above(r2, m, y)'
    <3>1. r[m] >= 0 /\ Above(r, m, l[m]) /\ \A y \in Contents(m) : Above(r, m, y)
      BY <2>1, <2>6 DEF Ascends
    <3>2. Above(r2, m, l2[m])'
      BY <1>1, <1>2, <2>1, <3>1
    <3>3. ASSUME NEW y \in Contents(m)' PROVE Above(r2, m, y)'
      <4>1. y \in Int /\ Above(r, m, y)
        <5>1. CASE y \in Contents(m)
          BY <3>1, <5>1, ContentsInt
        <5>2. CASE y \notin Contents(m)
          <6>1. m = n
            BY <3>3, <5>2 DEF SameLeaf
          <6> QED BY <3>3, <5>2, <6>1 DEF Fits
        <5> QED BY <5>1, <5>2
      <4> QED BY <1>2, <3>1, <4>1
    <3> QED BY <3>2, <3>3
  <2> QED BY <2>4, <2>5, <2>6 DEF Ascends
<1> QED BY <1>2, <1>3

\* A thread that holds one leaf changes its keys.
LEMMA LeafStep ==
    ASSUME BInv, BInv', NEW t \in Threads, NEW l, NEW r, NEW h, Ordered(l, r, h),
           NEW label, Goto(t, label, frame[t]), UNCHANGED <<lock, root, call>>,
           pc[t] # "leaf_link", label # "leaf_link", pc[t] \notin HoldsRight,
           NEW n \in Leaves, r[n] >= 0, \A m \in Nodes : lock[m] = t <=> m = n,
           NEW x \in NodeType, nodes' = [nodes EXCEPT ![n] = x],
           x.is_leaf = nodes[n].is_leaf, x.parent = nodes[n].parent,
           x.pointers[Order - 1] = NextLeaf(n),
           \A y \in Contents(n)' : y \in Contents(n) \/ Fits(r, n, y), Sorted(n)',
           WayOrder(l, r, t)', SplitOrder(l, r, h, t)'
    PROVE  OInv'
<1>1. Alone(t) /\ pc'[t] = label /\ n \in Nodes /\ lock[n] = t
  BY GotoAlone DEF Leaves
<1>2. /\ Steady(t) /\ UNCHANGED <<Nodes, Leaves, Inner>>
      /\ nodes'[n] = x
  BY <1>1, OneSteady
<1>3. NodeOrder(l, r, h) /\ Ghosts(l, r, h) /\ LeavesOrder(l, r, h)
  BY OrderFacts
<1>4. \A m \in Nodes \ {n} : SameInner(m) /\ (m \in Leaves => SameLeaf(m))
  BY <1>2, OutsideSame
<1>5. (\A m \in Leaves : m \in Nodes) /\ (\A m \in Inner : m \in Nodes \ {n})
  BY DEF Leaves, Inner
<1>6. NextLeaf(n)' = NextLeaf(n) /\ ~Unlinked(n)'
  <2>1. NextLeaf(n)' = NextLeaf(n)
    BY <1>2 DEF NextLeaf
  <2>2. lock'[n] = t /\ n \in Nodes'
    BY <1>1, <1>2
  <2> QED BY <1>1, <2>1, <2>2, HeldByNext
<1>7. /\ \A q \in Leaves, v \in Int : r[q] >= 0 /\ Above(r, q, v) => Above(r, q, v)'
      /\ \A m \in Leaves : Chained(r, h, m)' /\ Sorted(m)' /\ Ascends(l, r, m)'
  <2>1. \A m \in Leaves \ {n} : SameLeaf(m)
    BY <1>4, <1>5
  <2>2. Leaves \subseteq Leaves' /\ \A m \in Leaves' \ Leaves : r[m] = -1
    BY <1>2
  <2> QED BY <1>3, <1>6, <2>1, <2>2, LeavesGrow
<1>8. Later(l, r, h, l, r, h)
  BY <1>3, <1>7 DEF Later
<1>9. LeavesOrder(l, r, h)'
  BY <1>2, <1>3, <1>7 DEF LeavesOrder
<1>10. ASSUME NEW m \in Inner PROVE Routes(l, r, h, m)'
  <2>1. m \in Nodes /\ Routes(l, r, h, m) /\ SameInner(m)
    BY <1>3, <1>4, <1>5 DEF NodeOrder
  <2> QED BY <1>2, <2>1, RoutesKept
<1>11. \A m \in Nodes : Leftmost(l, m)'
  BY <1>2, <1>3, LeftmostKept DEF NodeOrder
<1>12. NodeOrder(l, r, h)'
  BY <1>2, <1>3, <1>9, <1>10, <1>11 DEF NodeOrder
<1> QED BY <1>2, <1>8, <1>12, Assembled DEF ThreadOrder

\* A key that a thread has come to insert fits, in a leaf where it does not go right.
LEMMA KeyFits ==
    ASSUME BInv, NEW l, NEW r, NEW h, Ordered(l, r, h), NEW n \in Leaves, r[n] >= 0,
           Count(n) = nodes[n].num_keys, NEW k \in Int, ~GoesRight(n, k), Above(r, n, k)
    PROVE  Fits(r, n, k)
<1>1. Ghosts(l, r, h) /\ LeavesOrder(l, r, h)
  BY DEF Ordered, NodeOrder
<1> QED BY <1>1, StopsBefore DEF Fits

LEMMA SortedAscending ==
    ASSUME NEW n, Sorted(n), Count(n) = nodes[n].num_keys
    PROVE  /\ Ascending(nodes[n].keys, nodes[n].num_keys)
           /\ \A i \in 0 .. nodes[n].num_keys - 1 : BeforeKeys <= nodes[n].keys[i]
BY DEF Sorted, Ascending

\* A node with other entries.
LEMMA WrittenFields ==
    ASSUME NEW node \in NodeType, NEW k, NEW p,
           \A j \in DOMAIN k : k[j] \in Int, \A j \in DOMAIN p : p[j] \in Int,
           NEW x, x = Written(node, k, p)
    PROVE  /\ x \in NodeType /\ x.is_leaf = node.is_leaf /\ x.parent = node.parent
           /\ x.num_keys = node.num_keys
           /\ \A j \in Slots : x.keys[j] = IF j \in DOMAIN k THEN k[j] ELSE node.keys[j]
           /\ \A j \in Slots :
                 x.pointers[j] = IF j \in DOMAIN p THEN p[j] ELSE node.pointers[j]
<1>1. /\ x \in NodeType /\ x.is_leaf = node.is_leaf /\ x.parent = node.parent
      /\ x.num_keys = node.num_keys
      /\ x.keys = Over(node.keys, k) /\ x.pointers = Over(node.pointers, p)
  BY WrittenOK
<1>2. node.keys \in [Slots -> Int] /\ node.pointers \in [Slots -> Int]
  BY DEF NodeType
<1> QED BY <1>1, <1>2 DEF Over

\* A leaf with room after a key was written in its place.
LEMMA LeafWritten ==
    ASSUME NEW node \in NodeType, NEW key \in Int, BeforeKeys <= key,
           NEW num, num = node.num_keys, num < Order - 1,
           Ascending(node.keys, num), \A j \in 0 .. num - 1 : BeforeKeys <= node.keys[j],
           NEW i \in 0 .. num,
           \A j \in 0 .. num - 1 :
              (j < i => node.keys[j] < key) /\ (j >= i => key < node.keys[j]),
           NEW x, x = Written(node, Spliced(node.keys, i, num, key),
                                    Spliced(node.pointers, i, num, key))
    PROVE  /\ x \in NodeType /\ x.is_leaf = node.is_leaf /\ x.parent = node.parent
           /\ x.num_keys = num /\ x.pointers[Order - 1] = node.pointers[Order - 1]
           /\ Ascending(x.keys, num + 1)
           /\ \A j \in 0 .. num :
                 /\ BeforeKeys <= x.keys[j]
                 /\ x.keys[j] = key \/ \E m \in 0 .. num - 1 : x.keys[j] = node.keys[m]
<1>1. PICK keys, pointers : keys = node.keys /\ pointers = node.pointers
  OBVIOUS
<1>2. PICK k, p : k = Spliced(keys, i, num, key) /\ p = Spliced(pointers, i, num, key)
  OBVIOUS
<1>3. /\ keys \in [Slots -> Int] /\ pointers \in [Slots -> Int] /\ num \in 0 .. Order - 1
  BY <1>1 DEF NodeType
<1>4. /\ num \in Nat /\ num \in Slots
      /\ Order - 1 \in Slots /\ Order - 1 \notin 0 .. num
      /\ \A j \in 0 .. num : j \in Slots
      /\ BeforeKeys \in Int
  BY ONLY <1>3, num < Order - 1, OrderAssumption, KeysAssumption DEF Slots
<1>5. /\ DOMAIN k = 0 .. num /\ \A j \in DOMAIN k : k[j] \in Int
      /\ DOMAIN p = 0 .. num /\ \A j \in DOMAIN p : p[j] \in Int
  <2>1. /\ DOMAIN Spliced(keys, i, num, key) = 0 .. num
        /\ \A j \in 0 .. num : Spliced(keys, i, num, key)[j] \in Int
    BY ONLY key \in Int, i \in 0 .. num, <1>3, <1>4, SplicedEntries, SMTT(60)
  <2>2. /\ DOMAIN Spliced(pointers, i, num, key) = 0 .. num
        /\ \A j \in 0 .. num : Spliced(pointers, i, num, key)[j] \in Int
    BY ONLY key \in Int, i \in 0 .. num, <1>3, <1>4, SplicedEntries, ZenonT(60)
  <2> QED BY <1>2, <2>1, <2>2
<1>6. x = Written(node, k, p)
  BY <1>1, <1>2
<1>7. /\ x \in NodeType /\ x.is_leaf = node.is_leaf /\ x.parent = node.parent
      /\ x.num_keys = node.num_keys
      /\ \A j \in Slots : x.keys[j] = IF j \in DOMAIN k THEN k[j] ELSE node.keys[j]
      /\ \A j \in Slots :
            x.pointers[j] = IF j \in DOMAIN p THEN p[j] ELSE node.pointers[j]
  <2>1. (\A j \in DOMAIN k : k[j] \in Int) /\ \A j \in DOMAIN p : p[j] \in Int
    BY <1>5
  <2>2. node \in NodeType
    OBVIOUS
  <2> QED BY ONLY <2>1, <2>2, <1>6, WrittenFields, SMTT(60)
<1>8. x.pointers[Order - 1] = node.pointers[Order - 1]
  BY <1>4, <1>5, <1>7
<1>9. \A j \in 0 .. num : x.keys[j] = Spliced(keys, i, num, key)[j]
  BY <1>2, <1>4, <1>5, <1>7
<1>10. /\ Ascending(x.keys, num + 1)
       /\ \A j \in 0 .. num : x.keys[j] \in Int
       /\ \A j \in 0 .. num : x.keys[j] = key \/ \E m \in 0 .. num - 1 : x.keys[j] = keys[m]
  <2>1. \A j \in 0 .. num - 1 : keys[j] \in Int
    BY ONLY <1>3, <1>4
  <2>2. /\ Ascending(keys, num)
        /\ \A j \in 0 .. num - 1 : (j < i => keys[j] < key) /\ (j >= i => key < keys[j])
    BY <1>1
  <2>3. PICK g : g = x.keys
    OBVIOUS
  <2>4. \A j \in 0 .. num : g[j] = Spliced(keys, i, num, key)[j]
    BY <1>9, <2>3
  <2>5. /\ \A j \in 0 .. num : g[j] \in Int
        /\ Ascending(g, num + 1)
        /\ \A j \in 0 .. num : g[j] = key \/ \E m \in 0 .. num - 1 : g[j] = keys[m]
    BY ONLY key \in Int, i \in 0 .. num, <1>4, <2>1, <2>2, <2>4, SplicedSorted
  <2> QED BY <2>3, <2>5
<1>11. \A j \in 0 .. num : BeforeKeys <= x.keys[j]
  <2>1. \A m \in 0 .. num - 1 : BeforeKeys <= keys[m]
    BY <1>1
  <2> QED BY ONLY BeforeKeys <= key, <1>10, <2>1
<1> QED BY <1>1, <1>7, <1>8, <1>10, <1>11

LEMMA LeafWriteOrder ==
    ASSUME BInv, BInv', NEW t \in Threads, LeafWrite(t), NEW l, NEW r, NEW h, Ordered(l, r, h)
    PROVE  OInv'
<1> DEFINE n == frame[t].left
           num == nodes[n].num_keys
           i == Min({j \in 0 .. num : j = num \/ nodes[n].keys[j] >= Key(t)})
           x == Written(nodes[n], Spliced(nodes[n].keys, i, num, Key(t)),
                                  Spliced(nodes[n].pointers, i, num, Key(t)))
<1>1. /\ pc[t] = "at_leaf" /\ call[t].type = OP_ADD /\ num < Order - 1
      /\ ~GoesRight(n, Key(t)) /\ ~IsPresent(t)
      /\ nodes' = [nodes EXCEPT ![n] = x]
      /\ Goto(t, "leaf_count", frame[t])
      /\ UNCHANGED <<lock, root, call>>
  BY DEF LeafWrite, Arrived, ArrivedTo, At
<1>2. /\ NodesOK /\ FrameOK(t) /\ LockOK(t)
      /\ WayOrder(l, r, t) /\ SplitOrder(l, r, h, t) /\ LeavesOrder(l, r, h)
  BY ThreadFacts, OrderFacts
<1>3. n \in Leaves /\ n \in Nodes
  BY <1>1, <1>2 DEF FrameOK, LeafLabels, Leaves
<1>4. Holds(t, n) /\ Key(t) \in Int /\ BeforeKeys <= Key(t) /\ BeforeKeys \in Int
  BY <1>1, KeyFacts DEF Holds, HoldsLeft
<1>5. lock[n] = t /\ Count(n) = num /\ ~Splitting(n)
  BY <1>1, <1>3, <1>4, PlainCount DEF Special
<1>6. Above(r, n, Key(t)) /\ r[n] >= 0
  BY <1>1, <1>2 DEF WayOrder
<1>7. Fits(r, n, Key(t))
  BY <1>1, <1>3, <1>4, <1>5, <1>6, KeyFits
<1>8. Ascending(nodes[n].keys, num) /\ \A j \in 0 .. num - 1 : BeforeKeys <= nodes[n].keys[j]
  BY <1>2, <1>3, <1>5, SortedAscending DEF LeavesOrder
<1>9. nodes[n] \in NodeType /\ num \in Nat
  BY <1>2, <1>3, NodeFields
<1>10. nodes[n].keys[Min({j \in Slots : j = Order - 1 \/ nodes[n].keys[j] >= Key(t)})] # Key(t)
  BY <1>1 DEF IsPresent, InsertionIndex
<1>11. PICK node, key, c : node = nodes[n] /\ key = Key(t) /\ c = num
  OBVIOUS
<1>12. PICK y : y = x
  OBVIOUS
<1>13. /\ y \in NodeType /\ y.is_leaf = node.is_leaf /\ y.parent = node.parent
       /\ y.num_keys = c /\ y.pointers[Order - 1] = node.pointers[Order - 1]
       /\ Ascending(y.keys, c + 1)
       /\ \A j \in 0 .. c :
             /\ BeforeKeys <= y.keys[j]
             /\ y.keys[j] = key \/ \E m \in 0 .. c - 1 : y.keys[j] = node.keys[m]
  <2>1. node \in NodeType /\ key \in Int /\ BeforeKeys <= key /\ c = node.num_keys /\ c < Order - 1
    BY <1>1, <1>4, <1>9, <1>11, SMTT(60)
  <2>2. /\ Ascending(node.keys, c) /\ \A j \in 0 .. c - 1 : BeforeKeys <= node.keys[j]
        /\ node.keys[Min({j \in Slots : j = Order - 1 \/ node.keys[j] >= key})] # key
    BY <1>8, <1>10, <1>11
  <2>3. PICK m : m = Min({j \in 0 .. c : j = c \/ node.keys[j] >= key})
    BY SMTT(60)
  <2>4. y = Written(node, Spliced(node.keys, m, c, key), Spliced(node.pointers, m, c, key))
    BY <1>11, <1>12, <2>3
  <2>5. /\ m \in 0 .. c
        /\ \A j \in 0 .. c - 1 :
              (j < m => node.keys[j] < key) /\ (j >= m => key < node.keys[j])
    <3>1. node.keys \in [Slots -> Int] /\ c \in 0 .. Order - 1
      BY <2>1 DEF NodeType
    <3> QED BY ONLY <2>1, <2>2, <2>3, <3>1, InsertionFacts, SMTT(60)
  <2> QED BY ONLY <2>1, <2>2, <2>4, <2>5, LeafWritten
<1>14. nodes' = [nodes EXCEPT ![n] = y]
  BY <1>1, <1>12
<1> HIDE DEF i, x
<1>15. Alone(t) /\ pc'[t] = "leaf_count" /\ frame'[t] = frame[t]
  BY <1>1, GotoAlone
<1>16. y.is_leaf = nodes[n].is_leaf /\ y.parent = nodes[n].parent
       /\ y.pointers[Order - 1] = NextLeaf(n)
  BY <1>11, <1>13 DEF NextLeaf
<1>17. PICK q : q = n
  OBVIOUS
<1>18. /\ q \in Leaves /\ q \in Nodes /\ lock[q] = t /\ Count(q) = c
       /\ Fits(r, q, key) /\ r[q] >= 0 /\ nodes[q] = node
       /\ y.is_leaf = nodes[q].is_leaf /\ y.parent = nodes[q].parent
       /\ y.pointers[Order - 1] = NextLeaf(q)
       /\ nodes' = [nodes EXCEPT ![q] = y]
  BY <1>3, <1>5, <1>6, <1>7, <1>11, <1>14, <1>16, <1>17
<1>19. nodes'[q] = y /\ q \in Nodes'
  BY <1>13, <1>15, <1>18, OneSteady
<1>20. Count(q)' = c + 1 /\ ~Splitting(q)'
  <2>1. lock'[q] = t
    BY <1>1, <1>18
  <2>2. Count(q)' = Pending("leaf_count", frame'[t], q, c) /\ ~Splitting(q)'
    BY <1>13, <1>15, <1>19, <2>1, HeldByNext
  <2> QED BY <2>2 DEF Pending
<1>21. c \in Nat /\ 0 .. c + 1 - 1 = 0 .. c
  BY <1>9, <1>11
<1>22. \A z \in Contents(q)' : z \in Contents(q) \/ Fits(r, q, z)
  <2>1. Contents(q)' = {y.keys[j] : j \in 0 .. c}
    BY <1>19, <1>20, <1>21 DEF Contents, KeysUpTo
  <2>2. \A m \in 0 .. c - 1 : node.keys[m] \in Contents(q)
    BY <1>18 DEF Contents, KeysUpTo
  <2> QED BY <1>13, <1>18, <2>1, <2>2
<1>23. Sorted(q)'
  BY <1>13, <1>19, <1>20, <1>21 DEF Sorted, Ascending
<1>24. \A m \in Nodes : lock[m] = t <=> m = q
  BY <1>1, <1>2, <1>3, <1>17
     DEF LockOK, Holds, HoldsLeft, HoldsRight, HoldsParent, Deleting, DeleteLabels
<1>25. WayOrder(l, r, t)'
  BY <1>1, <1>2, <1>15, PlainWay DEF WayOrder, DeleteHeld
<1>26. SplitOrder(l, r, h, t)'
  BY <1>15 DEF SplitOrder, HoldsParent, HoldsRight, SplitLabels
<1>27. pc[t] # "leaf_link" /\ pc[t] \notin HoldsRight
  BY <1>1 DEF HoldsRight
<1> HIDE DEF n, num
<1> QED BY <1>1, <1>13, <1>18, <1>22, <1>23, <1>24, <1>25, <1>26, <1>27, LeafStep

\* The first num entries of f are among the first c of g, and none is before BeforeKeys.
Among(f, num, g, c) ==
    \A j \in 0 .. num - 1 : BeforeKeys <= f[j] /\ \E m \in 0 .. c - 1 : f[j] = g[m]

\* A leaf from which a key was taken.
LEMMA LeafTaken ==
    ASSUME NEW node \in NodeType, NEW num \in 1 .. Order - 1, num = node.num_keys,
           Ascending(node.keys, num), \A j \in 0 .. num - 1 : BeforeKeys <= node.keys[j],
           NEW i \in 0 .. num - 1, NEW s \in 0 .. num - 1,
           NEW x, x = Written(node, Without(node.keys, i, num), Without(node.pointers, s, num))
    PROVE  /\ x \in NodeType /\ x.is_leaf = node.is_leaf /\ x.parent = node.parent
           /\ x.num_keys = num /\ x.pointers[Order - 1] = node.pointers[Order - 1]
           /\ Ascending(x.keys, num - 1)
           /\ Among(x.keys, num - 1, node.keys, num)
<1>1. PICK keys, pointers : keys = node.keys /\ pointers = node.pointers
  OBVIOUS
<1>2. PICK k, p : k = Without(keys, i, num) /\ p = Without(pointers, s, num)
  OBVIOUS
<1>3. keys \in [Slots -> Int] /\ pointers \in [Slots -> Int]
  BY <1>1 DEF NodeType
<1>4. num \in 0 .. Order - 1
  BY OrderAssumption
<1>5. /\ \A j \in DOMAIN k : k[j] \in Int
      /\ (\A j \in DOMAIN p : p[j] \in Int) /\ Order - 1 \notin DOMAIN p
  <2>1. \A j \in DOMAIN Without(keys, i, num) : Without(keys, i, num)[j] \in Int
    BY ONLY i \in 0 .. num - 1, <1>3, <1>4, WithoutEntries
  <2>2. /\ \A j \in DOMAIN Without(pointers, s, num) : Without(pointers, s, num)[j] \in Int
        /\ Order - 1 \notin DOMAIN Without(pointers, s, num)
    BY ONLY s \in 0 .. num - 1, <1>3, <1>4, WithoutEntries
  <2> QED BY <1>2, <2>1, <2>2
<1>6. x = Written(node, k, p)
  BY <1>1, <1>2
<1>7. /\ x \in NodeType /\ x.is_leaf = node.is_leaf /\ x.parent = node.parent
      /\ x.num_keys = node.num_keys
      /\ x.keys = Over(keys, k) /\ x.pointers = Over(pointers, p)
  <2>1. (\A j \in DOMAIN k : k[j] \in Int) /\ \A j \in DOMAIN p : p[j] \in Int
    BY <1>5
  <2>2. node \in NodeType
    OBVIOUS
  <2>3. /\ Written(node, k, p) \in NodeType /\ Written(node, k, p).is_leaf = node.is_leaf
        /\ Written(node, k, p).parent = node.parent
        /\ Written(node, k, p).num_keys = node.num_keys
        /\ Written(node, k, p).keys = Over(node.keys, k)
        /\ Written(node, k, p).pointers = Over(node.pointers, p)
    BY ONLY <2>1, <2>2, WrittenOK
  <2> QED BY <1>1, <1>6, <2>3
<1>8. x.pointers[Order - 1] = node.pointers[Order - 1]
  <2>1. Order - 1 \in Slots
    BY OrderAssumption DEF Slots
  <2> QED BY ONLY <1>1, <1>3, <1>5, <1>7, <2>1, OverOutside
<1>9. /\ Ascending(x.keys, num - 1)
      /\ \A j \in 0 .. num - 2 : \E m \in 0 .. num - 1 : x.keys[j] = keys[m]
  <2>1. Ascending(keys, num)
    BY <1>1
  <2>2. PICK g : g = x.keys
    OBVIOUS
  <2>3. g = Over(keys, Without(keys, i, num))
    BY <1>2, <1>7, <2>2
  <2>4. /\ Ascending(g, num - 1)
        /\ \A j \in 0 .. num - 2 : \E m \in 0 .. num - 1 : g[j] = keys[m]
    BY ONLY num \in 1 .. Order - 1, i \in 0 .. num - 1, <1>3, <2>1, <2>3, WithoutSorted
  <2> QED BY <2>2, <2>4
<1>10. \A j \in 0 .. num - 2 : BeforeKeys <= x.keys[j]
  <2>1. \A m \in 0 .. num - 1 : BeforeKeys <= keys[m]
    BY <1>1
  <2> QED BY ONLY <1>9, <2>1
<1>11. \A j \in 0 .. num - 1 - 1 : j \in 0 .. num - 2
  OBVIOUS
<1> QED BY <1>1, <1>7, <1>8, <1>9, <1>10, <1>11 DEF Among

LEMMA RemoveEntryOrder ==
    ASSUME BInv, BInv', NEW t \in Threads, RemoveEntry(t), NEW l, NEW r, NEW h, Ordered(l, r, h)
    PROVE  OInv'
<1> DEFINE n == frame[t].key_leaf
           num == nodes[n].num_keys
           at == Places(nodes[n].keys, num, Key(t))
           to == Places(nodes[n].pointers, num, Key(t))
           x == Written(nodes[n], Without(nodes[n].keys, Min(at), num),
                                  Without(nodes[n].pointers, Min(to), num))
<1>1. /\ pc[t] = "delete" /\ at # {} /\ to # {}
      /\ nodes' = [nodes EXCEPT ![n] = x]
      /\ Goto(t, "remove_count", frame[t])
      /\ UNCHANGED <<lock, root, call>>
  BY DEF RemoveEntry, At
<1>2. /\ NodesOK /\ CallOK(t) /\ FrameOK(t) /\ LockOK(t)
      /\ WayOrder(l, r, t) /\ LeavesOrder(l, r, h)
  BY ThreadFacts, OrderFacts
<1>3. Deleting(t)
  BY <1>1, <1>2 DEF CallOK, Deleting, DeleteLabels
<1>4. n \in Leaves /\ n \in Nodes
  BY <1>2, <1>3 DEF FrameOK, Leaves
<1>5. lock[n] = t /\ Count(n) = num /\ ~Splitting(n)
  BY <1>1, <1>3, <1>4, PlainCount DEF Special, Holds
<1>6. r[n] >= 0
  BY <1>1, <1>2, <1>3 DEF WayOrder, DeleteHeld, Deleting
<1>7. Ascending(nodes[n].keys, num) /\ \A j \in 0 .. num - 1 : BeforeKeys <= nodes[n].keys[j]
  BY <1>2, <1>4, <1>5, SortedAscending DEF LeavesOrder
<1>8. nodes[n] \in NodeType /\ num \in 0 .. Order - 1
  BY <1>2, <1>4, NodeFields
<1>9. PICK node, c, i, s, y :
         node = nodes[n] /\ c = num /\ i = Min(at) /\ s = Min(to) /\ y = x
  OBVIOUS
<1>10. i \in 0 .. c - 1 /\ s \in 0 .. c - 1 /\ c \in 1 .. Order - 1
  <2>1. \A a \in SUBSET Nat : a # {} => Min(a) \in a
    BY MinIn, SMTT(60)
  <2>2. c \in 0 .. Order - 1 /\ at \subseteq 0 .. c - 1 /\ to \subseteq 0 .. c - 1
    BY <1>8, <1>9 DEF Places
  <2>3. 0 .. c - 1 \subseteq Nat
    BY <2>2, SMTT(60)
  <2>4. i \in at /\ s \in to
    BY <1>1, <1>9, <2>1, <2>2, <2>3
  <2>5. i \in 0 .. c - 1 /\ s \in 0 .. c - 1
    BY <2>2, <2>4
  <2> QED BY ONLY <2>2, <2>5, OrderAssumption
<1>11. /\ y \in NodeType /\ y.is_leaf = node.is_leaf /\ y.parent = node.parent
       /\ y.num_keys = c /\ y.pointers[Order - 1] = node.pointers[Order - 1]
       /\ Ascending(y.keys, c - 1)
       /\ Among(y.keys, c - 1, node.keys, c)
  <2>1. node \in NodeType /\ c = node.num_keys
    BY <1>8, <1>9, SMTT(60)
  <2>2. Ascending(node.keys, c) /\ \A j \in 0 .. c - 1 : BeforeKeys <= node.keys[j]
    BY <1>7, <1>9
  <2>3. y = Written(node, Without(node.keys, i, c), Without(node.pointers, s, c))
    BY <1>9
  <2>4. /\ y \in NodeType /\ y.is_leaf = node.is_leaf /\ y.parent = node.parent
        /\ y.num_keys = c /\ Ascending(y.keys, c - 1) /\ Among(y.keys, c - 1, node.keys, c)
    BY ONLY <1>10, <2>1, <2>2, <2>3, LeafTaken
  <2>5. y.pointers \in [Slots -> Int] /\ node.pointers \in [Slots -> Int]
    BY <2>1, <2>4 DEF NodeType
  <2>6. y.pointers[Order - 1] = node.pointers[Order - 1]
    BY ONLY <1>10, <2>1, <2>2, <2>3, <2>5, LeafTaken, SMTT(60)
  <2> QED BY <2>4, <2>6, SMTT(60)
<1>12. nodes' = [nodes EXCEPT ![n] = y]
  BY <1>1, <1>9
<1> HIDE DEF x, at, to
<1>13. Alone(t) /\ pc'[t] = "remove_count" /\ frame'[t] = frame[t]
  BY <1>1, GotoAlone
<1>14. PICK q : q = n
  OBVIOUS
<1>15. /\ q \in Leaves /\ q \in Nodes /\ lock[q] = t /\ Count(q) = c
       /\ r[q] >= 0 /\ nodes[q] = node
       /\ y.is_leaf = nodes[q].is_leaf /\ y.parent = nodes[q].parent
       /\ y.pointers[Order - 1] = NextLeaf(q)
       /\ nodes' = [nodes EXCEPT ![q] = y]
  BY <1>4, <1>5, <1>6, <1>9, <1>11, <1>12, <1>14 DEF NextLeaf
<1>16. nodes'[q] = y /\ q \in Nodes'
  BY <1>11, <1>13, <1>15, OneSteady
<1>17. Count(q)' = c - 1 /\ ~Splitting(q)'
  <2>1. lock'[q] = t
    BY <1>1, <1>15
  <2>2. Count(q)' = Pending("remove_count", frame'[t], q, c) /\ ~Splitting(q)'
    BY <1>11, <1>13, <1>16, <2>1, HeldByNext
  <2> QED BY <2>2 DEF Pending
<1>18. c \in Int /\ 0 .. c - 1 - 1 = 0 .. c - 2
  BY <1>10
<1>19. \A z \in Contents(q)' : z \in Contents(q) \/ Fits(r, q, z)
  <2>1. Contents(q)' = {y.keys[j] : j \in 0 .. c - 2}
    BY <1>16, <1>17, <1>18 DEF Contents, KeysUpTo
  <2>2. \A m \in 0 .. c - 1 : node.keys[m] \in Contents(q)
    BY <1>15 DEF Contents, KeysUpTo
  <2>3. \A j \in 0 .. c - 2 : \E m \in 0 .. c - 1 : y.keys[j] = node.keys[m]
    BY <1>11, <1>18 DEF Among
  <2> QED BY <2>1, <2>2, <2>3
<1>20. Sorted(q)'
  BY <1>11, <1>16, <1>17, <1>18 DEF Sorted, Ascending, Among
<1>21. \A m \in Nodes : lock[m] = t <=> m = q
  BY <1>1, <1>2, <1>3, <1>4, <1>14
     DEF LockOK, Holds, HoldsLeft, HoldsRight, HoldsParent
<1>22. WayOrder(l, r, t)'
  BY <1>1, <1>2, <1>13, PlainWay DEF WayOrder, DeleteHeld
<1>23. SplitOrder(l, r, h, t)'
  BY <1>13 DEF SplitOrder, HoldsParent, HoldsRight, SplitLabels
<1>24. pc[t] # "leaf_link" /\ pc[t] \notin HoldsRight
  BY <1>1 DEF HoldsRight
<1> HIDE DEF n, num
<1> QED BY <1>1, <1>11, <1>15, <1>19, <1>20, <1>21, <1>22, <1>23, <1>24, LeafStep

-------------------------------------------------------------------------------
(* A leaf that is split *)

\* The num entries of f are those of g that begin at position from.
Copied(f, num, g, from) == \A j \in 0 .. num - 1 : f[j] = g[from + j]

\* These are the node's Order - 1 keys and a further one.
TempKeys(tk, node, key) ==
    \A j \in 0 .. Order - 1 :
        /\ tk[j] \in Int /\ BeforeKeys <= tk[j]
        /\ tk[j] = key \/ \E m \in 0 .. Order - 2 : tk[j] = node.keys[m]

LEMMA SplitKeys ==
    ASSUME NEW node \in NodeType, NEW key \in Int, BeforeKeys <= key,
           Ascending(node.keys, Order - 1), \A j \in 0 .. Order - 2 : BeforeKeys <= node.keys[j],
           NEW i, i = Min({j \in Slots : j = Order - 1 \/ node.keys[j] >= key}),
           node.keys[i] # key,
           NEW tk, tk = Spliced(node.keys, i, Order - 1, key)
    PROVE  Ascending(tk, Order) /\ TempKeys(tk, node, key)
<1>1. PICK keys, num : keys = node.keys /\ num = Order - 1
  OBVIOUS
<1>2. /\ keys \in [Slots -> Int] /\ num \in 0 .. Order - 1 /\ num \in Nat
      /\ num + 1 = Order /\ num - 1 = Order - 2 /\ Slots = 0 .. num /\ BeforeKeys \in Int
  BY <1>1, OrderAssumption, KeysAssumption DEF NodeType, Slots
<1>3. /\ i \in 0 .. num
      /\ \A j \in 0 .. num - 1 : (j < i => keys[j] < key) /\ (j >= i => key < keys[j])
  <2>1. i = Min({j \in 0 .. num : j = num \/ keys[j] >= key})
    BY <1>1, <1>2
  <2>2. keys[Min({j \in Slots : j = Order - 1 \/ keys[j] >= key})] # key
    BY <1>1
  <2>3. Ascending(keys, num)
    BY <1>1
  <2>4. keys \in [Slots -> Int] /\ num \in 0 .. Order - 1
    BY <1>2
  <2> QED BY ONLY key \in Int, <2>1, <2>2, <2>3, <2>4, InsertionFacts
<1>4. \A j \in 0 .. num - 1 : keys[j] \in Int
  BY <1>2
<1>5. Ascending(keys, num) /\ \A j \in 0 .. num : tk[j] = Spliced(keys, i, num, key)[j]
  BY <1>1
<1>6. /\ \A j \in 0 .. num : tk[j] \in Int
      /\ Ascending(tk, num + 1)
      /\ \A j \in 0 .. num : tk[j] = key \/ \E m \in 0 .. num - 1 : tk[j] = keys[m]
  <2>1. num \in Nat
    BY <1>2
  <2> QED BY ONLY key \in Int, <2>1, <1>3, <1>4, <1>5, SplicedSorted
<1>7. \A j \in 0 .. num : BeforeKeys <= tk[j]
  <2>1. \A m \in 0 .. num - 1 : BeforeKeys <= keys[m]
    BY <1>1, <1>2
  <2> QED BY ONLY BeforeKeys <= key, <1>6, <2>1
<1> QED BY <1>1, <1>2, <1>6, <1>7 DEF TempKeys

LEMMA SliceEntries ==
    ASSUME NEW g, NEW a \in 0 .. Order, NEW c \in a .. Order,
           \A j \in 0 .. Order - 1 : g[j] \in Int
    PROVE  /\ DOMAIN Slice(g, a, c) = 0 .. c - a - 1
           /\ \A j \in DOMAIN Slice(g, a, c) : Slice(g, a, c)[j] \in Int
           /\ Copied(Slice(g, a, c), c - a, g, a)
<1>1. a \in Int /\ c \in Int /\ 0 <= a /\ c <= Order /\ Order \in Int
  BY OrderAssumption
<1>2. \A j \in 0 .. c - a - 1 : a + j \in 0 .. Order - 1
  BY ONLY <1>1
<1>3. DOMAIN Slice(g, a, c) = 0 .. c - a - 1
      /\ \A j \in 0 .. c - a - 1 : Slice(g, a, c)[j] = g[a + j]
  BY DEF Slice
<1> QED BY <1>2, <1>3 DEF Copied

\* y is node with num entries from those that begin at position a of g.
Half(y, node, num, g, a) ==
    /\ y \in NodeType /\ y.is_leaf = node.is_leaf /\ y.parent = node.parent
    /\ y.num_keys = node.num_keys
    /\ y.pointers[Order - 1] = node.pointers[Order - 1]
    /\ Copied(y.keys, num, g, a)

LEMMA HalfWritten ==
    ASSUME NEW node \in NodeType, NEW tk, NEW tp,
           \A j \in 0 .. Order - 1 : tk[j] \in Int, \A j \in 0 .. Order - 1 : tp[j] \in Int,
           NEW a \in 0 .. Order, NEW c \in a .. Order, NEW num, num = c - a, num < Order,
           NEW y, y = Written(node, Slice(tk, a, c), Slice(tp, a, c))
    PROVE  Half(y, node, num, tk, a)
<1>1. PICK k, p : k = Slice(tk, a, c) /\ p = Slice(tp, a, c)
  OBVIOUS
<1>2. /\ DOMAIN Slice(tk, a, c) = 0 .. c - a - 1
      /\ \A j \in DOMAIN Slice(tk, a, c) : Slice(tk, a, c)[j] \in Int
      /\ Copied(Slice(tk, a, c), c - a, tk, a)
  BY SliceEntries
<1>3. /\ DOMAIN Slice(tp, a, c) = 0 .. c - a - 1
      /\ \A j \in DOMAIN Slice(tp, a, c) : Slice(tp, a, c)[j] \in Int
  BY SliceEntries
<1>4. /\ DOMAIN k = 0 .. c - a - 1 /\ DOMAIN p = 0 .. c - a - 1
      /\ (\A j \in DOMAIN k : k[j] \in Int) /\ (\A j \in DOMAIN p : p[j] \in Int)
      /\ Copied(k, c - a, tk, a)
  BY <1>1, <1>2, <1>3
<1>5. y = Written(node, k, p)
  BY <1>1
<1>6. /\ y \in NodeType /\ y.is_leaf = node.is_leaf /\ y.parent = node.parent
      /\ y.num_keys = node.num_keys
      /\ \A j \in Slots : y.keys[j] = IF j \in DOMAIN k THEN k[j] ELSE node.keys[j]
      /\ \A j \in Slots :
            y.pointers[j] = IF j \in DOMAIN p THEN p[j] ELSE node.pointers[j]
  <2>1. (\A j \in DOMAIN k : k[j] \in Int) /\ \A j \in DOMAIN p : p[j] \in Int
    BY <1>4
  <2>2. node \in NodeType
    OBVIOUS
  <2> QED BY ONLY <2>1, <2>2, <1>5, WrittenFields, SMTT(60)
<1>7. a \in Int /\ c \in Int /\ Order \in Int /\ Order >= 3
  BY OrderAssumption
<1>8. Order - 1 \in Slots /\ Order - 1 \notin 0 .. c - a - 1 /\ \A j \in 0 .. c - a - 1 : j \in Slots
  BY ONLY <1>7, num = c - a, num < Order DEF Slots
<1> QED BY <1>4, <1>6, <1>8 DEF Copied, Half
\* What a split writes: y is the old leaf q, and x the new one.
LEMMA LeafSplitNodes ==
    ASSUME BInv, NEW t \in Threads, LeafSplit(t), NEW l, NEW r, NEW h, Ordered(l, r, h)
    PROVE  \E new, x, y, tk :
              LET q == frame[t].left IN
              /\ nodes' = Append([nodes EXCEPT ![q] = y], x) /\ new = Len(nodes) + 1
              /\ Goto(t, "leaf_link", [frame[t] EXCEPT !.right = new])
              /\ y \in NodeType /\ y.is_leaf = nodes[q].is_leaf /\ y.parent = nodes[q].parent
              /\ y.pointers[Order - 1] = NextLeaf(q) /\ Copied(y.keys, cut(Order - 1), tk, 0)
              /\ x \in NodeType /\ x.is_leaf = TRUE
              /\ x.num_keys = Order - cut(Order - 1) /\ x.pointers[Order - 1] = NULL
              /\ Copied(x.keys, Order - cut(Order - 1), tk, cut(Order - 1))
              /\ Ascending(tk, Order) /\ TempKeys(tk, nodes[q], Key(t))
<1> DEFINE n == frame[t].left
           i == InsertionIndex(n, Key(t))
           temp_keys == Spliced(nodes[n].keys, i, Order - 1, Key(t))
           temp_pointers == Spliced(nodes[n].pointers, i, Order - 1, Key(t))
           split == cut(Order - 1)
           z == Written(nodes[n], Slice(temp_keys, 0, split), Slice(temp_pointers, 0, split))
<1>1. PICK unwritten \in MallocKeys :
        /\ pc[t] = "leaf_split"
        /\ nodes' = Append([nodes EXCEPT ![n] = z],
              Written([MakeNode(TRUE, unwritten) EXCEPT !.num_keys = Order - split],
                      Slice(temp_keys, split, Order), Slice(temp_pointers, split, Order)))
        /\ Goto(t, "leaf_link", [frame[t] EXCEPT !.right = Len(nodes) + 1])
  BY DEF LeafSplit, At
<1>2. /\ NodesOK /\ FrameOK(t)
      /\ WayOrder(l, r, t) /\ LeavesOrder(l, r, h)
  BY ThreadFacts, OrderFacts
<1>3. n \in Leaves /\ n \in Nodes
  BY <1>1, <1>2 DEF FrameOK, LeafLabels, Leaves
<1>4. Holds(t, n) /\ Key(t) \in Int /\ BeforeKeys <= Key(t) /\ BeforeKeys \in Int
  BY <1>1, KeyFacts DEF Holds, HoldsLeft
<1>5. Count(n) = nodes[n].num_keys /\ nodes[n].num_keys = Order - 1 /\ ~IsPresent(t)
  BY <1>1, <1>2, <1>3, <1>4, PlainCount DEF Special, WayOrder
<1>6. /\ Ascending(nodes[n].keys, Order - 1)
      /\ \A j \in 0 .. Order - 2 : BeforeKeys <= nodes[n].keys[j]
  <2>1. Order - 1 - 1 = Order - 2
    BY OrderAssumption
  <2> QED BY <1>2, <1>3, <1>5, <2>1, SortedAscending DEF LeavesOrder
<1>7. nodes[n] \in NodeType /\ nodes[n].pointers \in [Slots -> Int]
  BY <1>2, <1>3, NodeFields
<1>8. nodes[n].keys[i] # Key(t)
  BY <1>5 DEF IsPresent
<1>9. PICK node, key, s, tk, tp, c :
        /\ node = nodes[n] /\ key = Key(t) /\ s = i /\ c = split
        /\ tk = temp_keys /\ tp = temp_pointers
  OBVIOUS
<1>10. PICK x, y :
        /\ y = Written(node, Slice(tk, 0, c), Slice(tp, 0, c))
        /\ x = Written([MakeNode(TRUE, unwritten) EXCEPT !.num_keys = Order - c],
                       Slice(tk, c, Order), Slice(tp, c, Order))
  OBVIOUS
<1>11. Ascending(tk, Order) /\ TempKeys(tk, node, key)
  <2>1. node \in NodeType /\ key \in Int /\ BeforeKeys <= key
    BY <1>4, <1>7, <1>9
  <2>2. Ascending(node.keys, Order - 1) /\ \A j \in 0 .. Order - 2 : BeforeKeys <= node.keys[j]
    BY <1>6, <1>9
  <2>3. node.keys[s] # key
    BY <1>8, <1>9
  <2>4. s = Min({j \in Slots : j = Order - 1 \/ node.keys[j] >= key})
    BY <1>9 DEF InsertionIndex
  <2>5. tk = Spliced(node.keys, s, Order - 1, key)
    BY <1>9
  <2> QED BY ONLY <2>1, <2>2, <2>3, <2>4, <2>5, SplitKeys
<1>12. \A j \in 0 .. Order - 1 : tk[j] \in Int
  BY <1>11 DEF TempKeys
<1>13. \A j \in 0 .. Order - 1 : tp[j] \in Int
  <2>1. s \in 0 .. Order - 1 /\ Order - 1 \in Slots
    BY <1>9, InsertionIndexOK, OrderAssumption DEF Slots
  <2>2. PICK f : f = node.pointers
    OBVIOUS
  <2>3. f \in [Slots -> Int] /\ key \in Int /\ tp = Spliced(f, s, Order - 1, key)
    BY <1>4, <1>7, <1>9, <2>2
  <2> QED BY ONLY <2>1, <2>3, SplicedEntries
<1>14. c \in 1 .. Order - 1 /\ c \in 0 .. Order /\ c - 0 < Order /\ c - 0 = c
       /\ Order \in c .. Order /\ Order - c < Order /\ c \in 0 .. Order /\ 0 \in 0 .. Order
       /\ Order - c \in 0 .. Order - 1
  <2>1. c \in 1 .. Order - 1
    BY <1>9, CutBounds
  <2> QED BY ONLY <2>1, OrderAssumption
<1>15. /\ y \in NodeType /\ y.is_leaf = node.is_leaf /\ y.parent = node.parent
       /\ y.pointers[Order - 1] = node.pointers[Order - 1] /\ Copied(y.keys, c, tk, 0)
  <2>1. node \in NodeType
    BY <1>7, <1>9
  <2>2. y = Written(node, Slice(tk, 0, c), Slice(tp, 0, c))
    BY <1>10
  <2>3. 0 \in 0 .. Order /\ c \in 0 .. Order /\ c = c - 0 /\ c < Order
    BY ONLY <1>14, OrderAssumption
  <2>4. Half(y, node, c, tk, 0)
    BY ONLY <1>12, <1>13, <2>1, <2>2, <2>3, HalfWritten
  <2> QED BY <2>4 DEF Half
<1>16. PICK base : base = [MakeNode(TRUE, unwritten) EXCEPT !.num_keys = Order - c]
  OBVIOUS
<1>17. /\ base \in NodeType /\ base.is_leaf = TRUE /\ base.num_keys = Order - c
       /\ base.pointers = [j \in Slots |-> NULL]
  <2>1. PICK made : made = MakeNode(TRUE, unwritten)
    OBVIOUS
  <2>2. unwritten \in Int
    BY KeysAssumption
  <2>3. /\ made \in NodeType /\ made.is_leaf = TRUE
        /\ made.pointers = [j \in Slots |-> NULL]
    BY <2>1, <2>2, MakeLeafOK
  <2>4. base = [made EXCEPT !.num_keys = Order - c]
    BY <1>16, <2>1
  <2> QED BY ONLY <1>14, <2>3, <2>4, Renumbered DEF NodeType
<1>18. /\ x \in NodeType /\ x.is_leaf = TRUE /\ x.num_keys = Order - c
       /\ x.pointers[Order - 1] = NULL /\ Copied(x.keys, Order - c, tk, c)
  <2>1. x = Written(base, Slice(tk, c, Order), Slice(tp, c, Order))
    BY <1>10, <1>16
  <2>2. base \in NodeType
    BY <1>17
  <2>3. c \in 0 .. Order /\ Order \in c .. Order /\ Order - c < Order
    BY ONLY <1>14
  <2>4. Half(x, base, Order - c, tk, c)
    BY ONLY <1>12, <1>13, <2>1, <2>2, <2>3, HalfWritten
  <2>5. Order - 1 \in Slots
    BY OrderAssumption, SMTT(60) DEF Slots
  <2> QED BY <1>17, <2>4, <2>5 DEF Half
<1>19. nodes' = Append([nodes EXCEPT ![n] = y], x)
  BY <1>1, <1>9, <1>10
<1>20. PICK new : new = Len(nodes) + 1
  OBVIOUS
<1>21. Goto(t, "leaf_link", [frame[t] EXCEPT !.right = new])
  BY <1>1, <1>20
<1>22. y.pointers[Order - 1] = NextLeaf(n) /\ c = cut(Order - 1) /\ node = nodes[n] /\ key = Key(t)
  BY <1>9, <1>15 DEF NextLeaf
<1> HIDE DEF i, temp_keys, temp_pointers, split, z
<1> QED BY <1>11, <1>15, <1>18, <1>19, <1>20, <1>21, <1>22
LEMMA LeafSplitOrder ==
    ASSUME BInv, BInv', NEW t \in Threads, LeafSplit(t), NEW l, NEW r, NEW h, Ordered(l, r, h)
    PROVE  OInv'
<1>1. PICK q, key, node, f, c : /\ q = frame[t].left /\ key = Key(t) /\ node = nodes[q]
                                /\ f = frame[t] /\ c = cut(Order - 1)
  OBVIOUS
<1>2. PICK new, x, y, tk :
         /\ nodes' = Append([nodes EXCEPT ![q] = y], x) /\ new = Len(nodes) + 1
         /\ Goto(t, "leaf_link", [f EXCEPT !.right = new])
         /\ y \in NodeType /\ y.is_leaf = node.is_leaf /\ y.parent = node.parent
         /\ y.pointers[Order - 1] = NextLeaf(q) /\ Copied(y.keys, c, tk, 0)
         /\ x \in NodeType /\ x.is_leaf = TRUE
         /\ x.num_keys = Order - c /\ x.pointers[Order - 1] = NULL
         /\ Copied(x.keys, Order - c, tk, c)
         /\ Ascending(tk, Order) /\ TempKeys(tk, node, key)
  BY <1>1, LeafSplitNodes, ZenonT(60)
<1>3. pc[t] = "leaf_split" /\ lock' = Append(lock, t) /\ UNCHANGED <<root, call>>
  BY DEF LeafSplit, At
<1>4. /\ NodesOK /\ FrameOK(t) /\ LockOK(t) /\ frame[t] \in FrameType
      /\ WayOrder(l, r, t) /\ SplitOrder(l, r, h, t) /\ Ghosts(l, r, h)
      /\ NodeOrder(l, r, h) /\ LeavesOrder(l, r, h)
  BY ThreadFacts, OrderFacts
<1>5. q \in Leaves /\ q \in Nodes /\ q \notin Inner
  BY <1>1, <1>3, <1>4 DEF FrameOK, LeafLabels, Leaves, Inner
<1>6. Holds(t, q) /\ key \in Int
  BY <1>1, <1>3, KeyFacts DEF Holds, HoldsLeft
<1>7. lock[q] = t /\ Count(q) = node.num_keys /\ ~Splitting(q) /\ node.num_keys = Order - 1
  BY <1>1, <1>3, <1>4, <1>5, <1>6, PlainCount DEF Special, WayOrder
<1>8. Above(r, q, key) /\ r[q] >= 0 /\ ~GoesRight(q, key)
  BY <1>1, <1>3, <1>4 DEF WayOrder
<1>9. Fits(r, q, key)
  BY <1>1, <1>5, <1>6, <1>7, <1>8, KeyFits
<1>10. c \in 1 .. Order - 1 /\ Order - c \in 1 .. Order - 1
  <2>1. c \in 1 .. Order - 1
    BY <1>1, CutBounds
  <2> QED BY ONLY <2>1, OrderAssumption
<1>11. PICK half : half = [nodes EXCEPT ![q] = y]
  OBVIOUS
<1>12. /\ half \in Seq(NodeType) /\ DOMAIN half = Nodes /\ half[q] = y
       /\ \A m \in Nodes \ {q} : half[m] = nodes[m]
  BY <1>2, <1>4, <1>5, <1>11, UpdateOK, Zenon DEF NodesOK, Nodes
<1>13. /\ new \in Int \ Nodes /\ Nodes' = Nodes \cup {new}
       /\ nodes'[new] = x /\ nodes'[q] = y /\ \A m \in Nodes \ {q} : nodes'[m] = nodes[m]
       /\ \A m \in Nodes : /\ m \in Leaves' <=> m \in Leaves
                           /\ m \in Inner' <=> m \in Inner
       /\ new \in Leaves' /\ new \notin Inner'
  <2>1. \A m \in Nodes : half[m].is_leaf = nodes[m].is_leaf
    BY <1>1, <1>2, <1>12
  <2>2. nodes' = Append(half, x)
    BY <1>2, <1>11
  <2>3. /\ Len(nodes) + 1 \in Int \ Nodes /\ Nodes' = Nodes \cup {Len(nodes) + 1}
        /\ nodes'[Len(nodes) + 1] = x /\ \A m \in Nodes : nodes'[m] = half[m]
        /\ \A m \in Nodes : /\ m \in Leaves' <=> m \in Leaves
                            /\ m \in Inner' <=> m \in Inner
        /\ Len(nodes) + 1 \in Leaves' <=> x.is_leaf
        /\ Len(nodes) + 1 \in Inner' <=> ~x.is_leaf
    BY <1>2, <1>4, <1>12, <2>1, <2>2, Grown, Zenon
  <2> QED BY <1>2, <1>5, <1>12, <2>3
<1>14. /\ lock'[new] = t /\ \A m \in Nodes : lock'[m] = lock[m]
  <2>1. Nodes' = Nodes \cup {Len(nodes) + 1}
    BY <1>2, <1>13
  <2> QED BY <1>2, <1>3, <1>4, <2>1, GrownLocks DEF NodesOK
<1>15. new \in Nat /\ new # q /\ new \in Nodes' /\ q \in Nodes'
  <2>1. Len(nodes) + 1 \in Nat
    BY <1>4, LenProperties DEF NodesOK
  <2> QED BY <1>2, <1>5, <1>13, <2>1
<1>16. /\ Alone(t) /\ pc'[t] = "leaf_link" /\ frame'[t] = [f EXCEPT !.right = new]
  BY <1>2, <1>3, GotoAlone
<1>17. /\ frame'[t].left = q /\ frame'[t].right = new
       /\ frame'[t].root = f.root /\ frame'[t].parent = f.parent
  BY <1>1, <1>4, <1>16 DEF FrameType
<1>18. Steady(t)
  <2>1. \A m \in Nodes : lock[m] # t => nodes'[m] = nodes[m]
    BY <1>7, <1>13
  <2>2. \A m \in Nodes : nodes'[m].parent = nodes[m].parent
    BY <1>1, <1>2, <1>13
  <2> QED BY <1>13, <1>16, <2>1, <2>2 DEF Steady
<1>19. /\ Leaves' = Leaves \cup {new} /\ Inner' = Inner
       /\ \A m \in Leaves : m \in Nodes
       /\ \A m \in Inner : m \in Nodes \ {q}
  <2>1. (\A m \in Leaves' : m \in Nodes') /\ (\A m \in Leaves : m \in Nodes)
    BY DEF Leaves
  <2>2. (\A m \in Inner' : m \in Nodes') /\ (\A m \in Inner : m \in Nodes)
    BY DEF Inner
  <2> QED BY <1>5, <1>13, <2>1, <2>2
<1>20. /\ Count(q)' = c /\ Splitting(q)' /\ ~Unlinked(q)'
       /\ Count(new)' = Order - c /\ ~Splitting(new)' /\ Unlinked(new)' /\ IsRight(new)'
  <2>1. lock'[q] = t /\ lock'[new] = t
    BY <1>5, <1>7, <1>14
  <2>4. /\ pc'[t] = "leaf_link" /\ pc'[t] \in HoldsRight
        /\ frame'[t].left = q /\ frame'[t].right = new /\ q # new
        /\ q \in Nodes' /\ new \in Nodes' /\ nodes'[q] = y /\ nodes'[new] = x
    BY <1>13, <1>15, <1>16, <1>17 DEF HoldsRight
  <2>2. /\ Count(q)' = Pending("leaf_link", frame'[t], q, y.num_keys)
        /\ Splitting(q)' /\ ~Unlinked(q)'
    BY ONLY BInv', t \in Threads, <2>1, <2>4, HeldByNext
  <2>3. /\ Count(new)' = Pending("leaf_link", frame'[t], new, x.num_keys)
        /\ ~Splitting(new)' /\ Unlinked(new)' /\ IsRight(new)'
    BY ONLY BInv', t \in Threads, <2>1, <2>4, HeldByNext
  <2> QED BY <1>1, <1>2, <1>15, <1>17, <2>2, <2>3 DEF Pending
<1>21. /\ \A j \in 0 .. c - 1 : y.keys[j] = tk[j] /\ j \in 0 .. Order - 1
       /\ \A j \in 0 .. Order - c - 1 : x.keys[j] = tk[c + j] /\ c + j \in 0 .. Order - 1
  <2>1. /\ \A j \in 0 .. c - 1 : y.keys[j] = tk[0 + j]
        /\ \A j \in 0 .. Order - c - 1 : x.keys[j] = tk[c + j]
    BY <1>2 DEF Copied
  <2>2. /\ \A j \in 0 .. c - 1 : 0 + j = j /\ j \in 0 .. Order - 1
        /\ \A j \in 0 .. Order - c - 1 : c + j \in 0 .. Order - 1
    BY ONLY <1>10, OrderAssumption
  <2> QED BY <2>1, <2>2
<1>22. \A j \in 0 .. Order - 1 : tk[j] \in Int /\ BeforeKeys <= tk[j]
                                 /\ (tk[j] \in Contents(q) \/ tk[j] = key)
  <2>1. 0 .. Order - 2 = 0 .. Count(q) - 1
    BY <1>7, OrderAssumption, SMTT(60)
  <2>2. \A j \in 0 .. Order - 2 : node.keys[j] \in Contents(q)
    BY <1>1, <2>1 DEF Contents, KeysUpTo
  <2> QED BY <1>2, <2>2 DEF TempKeys
<1>23. \A z \in Contents(q)' : z \in Contents(q) \/ Fits(r, q, z)
  <2>1. /\ frame'[lock'[q]].right = new /\ Splitting(q)' /\ Count(q)' = c
        /\ nodes'[q] = y /\ nodes'[new] = x /\ x.num_keys = Order - c
    BY <1>2, <1>5, <1>7, <1>13, <1>14, <1>17, <1>20, ZenonT(60)
  <2>2. Contents(q)' = {y.keys[j] : j \in 0 .. c - 1} \cup {x.keys[j] : j \in 0 .. Order - c - 1}
    BY ONLY <2>1 DEF Contents, KeysUpTo
  <2> QED BY <1>9, <1>21, <1>22, <2>2
<1>24. Sorted(q)'
  <2>1. \A i, j \in 0 .. c - 1 : i < j => tk[i] < tk[j]
    BY <1>2, <1>21 DEF Ascending
  <2> QED BY <1>13, <1>20, <1>21, <1>22, <2>1 DEF Sorted
<1>25. Sorted(new)'
  <2>1. c \in Int /\ \A j \in 0 .. Order - 1 : j \in Int
    BY <1>10
  <2>2. \A i, j \in 0 .. Order - c - 1 : i < j => c + i < c + j
    BY <2>1
  <2>3. \A i, j \in 0 .. Order - c - 1 : i < j => tk[c + i] < tk[c + j]
    BY <1>2, <1>21, <2>2 DEF Ascending
  <2> QED BY <1>13, <1>20, <1>21, <1>22, <2>3 DEF Sorted
<1>26. PICK l2, r2, h2 : /\ l2 = [l EXCEPT ![new] = tk[c]] /\ r2 = [r EXCEPT ![new] = -1]
                         /\ h2 = [h EXCEPT ![new] = 0]
  OBVIOUS
<1>27. c \in 0 .. Order - 1 /\ tk[c] \in Int
  <2>1. c \in 0 .. Order - 1
    BY ONLY <1>10, OrderAssumption
  <2> QED BY <1>22, <2>1
<1>28. /\ Ghosts(l2, r2, h2)
       /\ l2[new] = tk[c] /\ r2[new] = -1 /\ h2[new] = 0
       /\ \A m \in Nodes : l2[m] = l[m] /\ r2[m] = r[m] /\ h2[m] = h[m]
  <2>1. \A m \in Nodes : m \in Nat /\ m # new
    BY <1>4, <1>13, NodeNumbers
  <2> QED BY <1>4, <1>15, <1>26, <1>27, <2>1 DEF Ghosts
<1>29. \A m \in Leaves \ {q} : SameLeaf(m)
  <2> SUFFICES ASSUME NEW m \in Leaves \ {q} PROVE SameLeaf(m)
    OBVIOUS
  <2>1. m \in Nodes /\ m \notin Inner
    BY <1>19 DEF Inner
  <2>2. lock[m] # t
    BY <1>1, <1>3, <1>4, <2>1, NullIsNoNode
       DEF LockOK, Holds, HoldsLeft, HoldsRight, HoldsParent, Deleting, DeleteLabels, FrameOK,
           NodesOK, Nodes, NULL
  <2>3. lock'[m] # t
    BY <1>14, <2>1, <2>2
  <2> QED BY <1>18, <2>1, <2>2, <2>3, OutsideSame
<1>30. /\ \A p \in Leaves, v \in Int : r[p] >= 0 /\ Above(r, p, v) => Above(r2, p, v)'
       /\ \A m \in Leaves : Chained(r2, h2, m)' /\ Sorted(m)' /\ Ascends(l2, r2, m)'
  <2>1. NextLeaf(q)' = NextLeaf(q)
    BY <1>2, <1>13 DEF NextLeaf
  <2>2. \A m \in Leaves : l2[m] = l[m] /\ r2[m] = r[m] /\ h2[m] = h[m]
    BY <1>19, <1>28
  <2>3. Leaves \subseteq Leaves' /\ \A m \in Leaves' \ Leaves : r2[m] = -1
    BY <1>19, <1>28
  <2> QED BY <1>4, <1>5, <1>8, <1>20, <1>23, <1>24, <1>29, <2>1, <2>2, <2>3, LeavesGrow
<1>31. Chained(r2, h2, new)' /\ Ascends(l2, r2, new)'
  BY <1>2, <1>13, <1>20, <1>28 DEF Chained, Ascends, NextLeaf
<1>32. LeavesOrder(l2, r2, h2)'
  <2>1. \A p, m \in Leaves' : r2[p] = r2[m] /\ r2[p] >= 0 => p = m
    BY <1>4, <1>19, <1>28 DEF LeavesOrder
  <2> QED BY <1>19, <1>25, <1>30, <1>31, <2>1 DEF LeavesOrder
<1>33. ASSUME NEW m \in Inner PROVE Routes(l2, r2, h2, m)'
  <2>1. m \in Nodes /\ m # q /\ m # new /\ Routes(l, r, h, m)
    BY <1>4, <1>13, <1>19 DEF NodeOrder
  <2>2. SameInner(m)
    <3>1. CASE lock[m] # t
      BY <1>14, <1>18, <2>1, <3>1, OutsideSame
    <3>2. CASE lock[m] = t
      <4>1. lock'[m] = t /\ m \in Nodes' /\ nodes'[m] = nodes[m]
        BY <1>13, <1>14, <2>1, <3>2
      <4>2. Count(m) = Pending("leaf_split", frame[t], m, nodes[m].num_keys)
        BY <1>3, <2>1, <3>2, HeldBy
      <4>3. Count(m)' = Pending("leaf_link", frame'[t], m, nodes[m].num_keys)
        BY <1>16, <4>1, HeldByNext
      <4> QED BY <1>17, <2>1, <4>1, <4>2, <4>3 DEF Pending, SameInner, SameKeys
    <3> QED BY <3>1, <3>2
  <2>3. \A u \in Nodes : l2[u] = l[u] /\ h2[u] = h[u] /\ (r[u] >= 0 => r2[u] >= 0)
    BY <1>28
  <2> QED BY <1>13, <2>1, <2>2, <2>3, RoutesKept
<1>34. \A m \in Nodes' : Leftmost(l2, m)'
  <2>1. \A m \in Nodes : Leftmost(l2, m)'
    <3>1. pc[t] \notin HoldsRight
      BY <1>3 DEF HoldsRight
    <3> QED BY <1>4, <1>18, <1>28, <3>1, LeftmostKept DEF NodeOrder
  <2> QED BY <1>13, <1>20, <2>1 DEF Leftmost
<1>35. NodeOrder(l2, r2, h2)'
  <2>1. root \in Nodes
    BY <1>4 DEF NodesOK
  <2> QED BY <1>3, <1>4, <1>19, <1>28, <1>32, <1>33, <1>34, <2>1 DEF NodeOrder
<1>36. Later(l, r, h, l2, r2, h2)
  BY <1>28, <1>30 DEF Later
<1>37. WayOrder(l2, r2, t)'
  <2>1. f.root \in Nodes /\ l[f.root] <= BeforeKeys /\ r[f.root] >= 0
    BY <1>1, <1>3, <1>4 DEF FrameOK, WayOrder
  <2>2. /\ l2[frame'[t].root] <= BeforeKeys /\ r2[frame'[t].root] >= 0
        /\ r2[frame'[t].left] >= 0 /\ pc'[t] = "leaf_link"
    BY <1>5, <1>8, <1>16, <1>17, <1>28, <2>1
  <2> QED BY <2>2, PlainWay DEF DeleteHeld
<1>38. SplitOrder(l2, r2, h2, t)'
  <2>1. x.num_keys > 0 /\ x.keys[0] = tk[c]
    <3>1. 0 \in 0 .. Order - c - 1 /\ c + 0 = c /\ Order - c > 0
      BY ONLY <1>10
    <3> QED BY <1>2, <1>21, <3>1
  <2>2. \A i \in 0 .. c - 1 : y.keys[i] < tk[c]
    <3>1. \A i \in 0 .. c - 1 : i < c /\ i \in 0 .. Order - 1
      BY ONLY <1>10, OrderAssumption
    <3> QED BY <1>2, <1>21, <1>27, <3>1 DEF Ascending
  <2>3. f.parent = NULL => l2[q] <= BeforeKeys
    BY <1>1, <1>3, <1>4, <1>5, <1>28 DEF SplitOrder, HoldsParent
  <2>4. Count(frame[t].left)' = c
    BY <1>17, <1>20 DEF Count, Free
  <2> QED BY <1>13, <1>16, <1>17, <1>28, <2>1, <2>2, <2>3, <2>4 DEF SplitOrder, SplitLabels
<1> QED BY <1>18, <1>35, <1>36, <1>37, <1>38, Assembled DEF ThreadOrder

\* The new leaf takes its place in the chain: the old one and all leaves to the left of it
\* have one more leaf to their right.
Pushed(r, r2, q, new) ==
    /\ r2[new] = r[q]
    /\ \A m \in Nodes \ {new} : r2[m] = IF r[m] >= r[q] THEN r[m] + 1 ELSE r[m]

LEMMA LeafLinkOrder ==
    ASSUME BInv, BInv', NEW t \in Threads, LeafLink(t), NEW l, NEW r, NEW h, Ordered(l, r, h)
    PROVE  OInv'
<1>1. PICK q, new, c, num : /\ q = frame[t].left /\ new = frame[t].right
                            /\ c = cut(Order - 1) /\ num = nodes[new].num_keys
  OBVIOUS
<1>2. /\ pc[t] = "leaf_link" /\ UNCHANGED <<lock, root, call>>
      /\ Goto(t, "leaf_cut", frame[t])
      /\ nodes' = [nodes EXCEPT ![new].pointers[Order - 1] = NextLeaf(q),
                                ![q].pointers[Order - 1] = new]
  BY <1>1 DEF LeafLink, At
<1>3. /\ NodesOK /\ FrameOK(t) /\ LockOK(t) /\ frame[t] \in FrameType
      /\ WayOrder(l, r, t) /\ SplitOrder(l, r, h, t) /\ Ghosts(l, r, h)
      /\ NodeOrder(l, r, h) /\ LeavesOrder(l, r, h)
      /\ \A m \in Nodes : m \in Nat /\ l[m] \in Int /\ r[m] \in Int /\ h[m] \in Nat
  BY ThreadFacts, OrderFacts, SMTT(60)
<1>4. q \in Leaves /\ q \in Nodes /\ new \in Leaves /\ new \in Nodes /\ new # q
  BY <1>1, <1>2, <1>3 DEF FrameOK, LeafLabels, HoldsRight, Leaves
<1>5. lock[q] = t /\ lock[new] = t
  BY <1>1, <1>2, <1>3, <1>4 DEF LockOK, Holds, HoldsLeft, HoldsRight
<1>6. PICK x, y : /\ x = [nodes[new] EXCEPT !.pointers[Order - 1] = NextLeaf(q)]
                  /\ y = [nodes[q] EXCEPT !.pointers[Order - 1] = new]
  OBVIOUS
<1>7. /\ x \in NodeType /\ x.is_leaf = nodes[new].is_leaf /\ x.parent = nodes[new].parent
      /\ x.keys = nodes[new].keys /\ x.num_keys = num /\ x.pointers[Order - 1] = NextLeaf(q)
      /\ y \in NodeType /\ y.is_leaf = nodes[q].is_leaf /\ y.parent = nodes[q].parent
      /\ y.keys = nodes[q].keys /\ y.num_keys = nodes[q].num_keys
      /\ y.pointers[Order - 1] = new
  <2>1. nodes[q] \in NodeType /\ nodes[new] \in NodeType /\ Order - 1 \in Slots
        /\ nodes[q].pointers \in [Slots -> Int] /\ nodes[new].pointers \in [Slots -> Int]
    BY <1>3, <1>4, NodeFields, OrderAssumption DEF Slots
  <2>2. NextLeaf(q) \in Int /\ new \in Int
    BY <1>3, <1>4, <2>1 DEF NextLeaf
  <2>3. PICK v : v = NextLeaf(q)
    OBVIOUS
  <2> QED BY <1>1, <1>6, <2>1, <2>2, <2>3 DEF NodeType
<1>8. nodes' = [nodes EXCEPT ![new] = x, ![q] = y]
  BY <1>2, <1>4, <1>6
<1>9. /\ nodes'[q] = y /\ nodes'[new] = x
      /\ \A m \in Nodes \ {q, new} : nodes'[m] = nodes[m]
      /\ UNCHANGED <<Nodes, Leaves, Inner>>
  <2>1. /\ nodes'[q] = y /\ nodes'[new] = x
        /\ Nodes' = Nodes /\ \A m \in Nodes \ {q, new} : nodes'[m] = nodes[m]
    BY <1>3, <1>4, <1>7, <1>8 DEF NodesOK, Nodes
  <2>2. Leaves' = Leaves
    BY <1>7, <2>1 DEF Leaves
  <2> QED BY <2>1, <2>2 DEF Inner
<1>10. Alone(t) /\ pc'[t] = "leaf_cut" /\ frame'[t] = frame[t]
  BY <1>2, GotoAlone
<1>11. Steady(t)
  <2>1. \A m \in Nodes : lock[m] # t => nodes'[m] = nodes[m]
    BY <1>5, <1>9
  <2>2. \A m \in Nodes : nodes'[m].parent = nodes[m].parent
    BY <1>7, <1>9
  <2> QED BY <1>9, <1>10, <2>1, <2>2 DEF Steady
<1>12. /\ Count(q) = c /\ Splitting(q) /\ ~Unlinked(q)
       /\ Count(new) = num /\ ~Splitting(new) /\ Unlinked(new)
  <2>1. /\ Count(q) = Pending("leaf_link", frame[t], q, nodes[q].num_keys)
        /\ Splitting(q) /\ ~Unlinked(q)
    BY <1>1, <1>2, <1>4, <1>5, HeldBy, SMTT(60)
  <2>2. /\ Count(new) = Pending("leaf_link", frame[t], new, num)
        /\ ~Splitting(new) /\ Unlinked(new)
    BY <1>1, <1>2, <1>4, <1>5, HeldBy
  <2> QED BY <1>1, <1>4, <2>1, <2>2 DEF Pending
<1>13. /\ Count(q)' = c /\ ~Splitting(q)' /\ ~Unlinked(q)'
       /\ Count(new)' = num /\ ~Splitting(new)' /\ ~Unlinked(new)'
  <2>1. /\ pc'[t] = "leaf_cut" /\ frame'[t].left = q /\ lock'[q] = t /\ lock'[new] = t
        /\ q \in Nodes' /\ new \in Nodes' /\ nodes'[q] = y /\ nodes'[new] = x
    BY <1>1, <1>2, <1>4, <1>5, <1>9, <1>10
  <2>2. /\ Count(q)' = Pending("leaf_cut", frame'[t], q, y.num_keys)
        /\ ~Splitting(q)' /\ ~Unlinked(q)'
    BY ONLY BInv', t \in Threads, <2>1, HeldByNext
  <2>3. /\ Count(new)' = Pending("leaf_cut", frame'[t], new, x.num_keys)
        /\ ~Splitting(new)' /\ ~Unlinked(new)'
    BY ONLY BInv', t \in Threads, <2>1, HeldByNext
  <2> QED BY <1>1, <1>4, <1>7, <2>1, <2>2, <2>3, SMTT(60) DEF Pending
<1>14. /\ Contents(q) = Contents(q)' \cup Contents(new)
       /\ Contents(new)' = Contents(new)
       /\ Contents(new) = KeysUpTo(new, num) /\ Contents(q)' = KeysUpTo(q, c)
  <2>1. frame[lock[q]].right = new /\ nodes[new].num_keys = num /\ Splitting(q) /\ Count(q) = c
    BY <1>1, <1>5, <1>12
  <2>2. Contents(q) = KeysUpTo(q, c) \cup KeysUpTo(new, num)
    BY ONLY <2>1 DEF Contents
  <2>3. Contents(q)' = KeysUpTo(q, c)' /\ Contents(new)' = KeysUpTo(new, num)'
    BY ONLY <1>13 DEF Contents, KeysUpTo
  <2>4. Contents(new) = KeysUpTo(new, num)
    BY ONLY <1>12 DEF Contents
  <2>5. KeysUpTo(q, c)' = KeysUpTo(q, c) /\ KeysUpTo(new, num)' = KeysUpTo(new, num)
    BY <1>7, <1>9 DEF KeysUpTo
  <2> QED BY <2>2, <2>3, <2>4, <2>5
<1>15. ASSUME NEW m \in Nodes \ {q, new}
       PROVE  (m \in Leaves => SameLeaf(m)) /\ (m \in Inner => SameInner(m))
  <2>1. CASE lock[m] # t
    BY <1>2, <1>11, <2>1, OutsideSame
  <2>2. CASE lock[m] = t
    <3>1. lock'[m] = t /\ m \in Nodes' /\ nodes'[m] = nodes[m]
      BY <1>2, <1>9, <2>2
    <3>2. /\ Count(m) = Pending("leaf_link", frame[t], m, nodes[m].num_keys)
          /\ ~Splitting(m) /\ ~Unlinked(m)
      BY <1>1, <1>2, <2>2, HeldBy
    <3>3. /\ Count(m)' = Pending("leaf_cut", frame'[t], m, nodes'[m].num_keys)
          /\ ~Splitting(m)' /\ ~Unlinked(m)'
      BY <1>10, <3>1, HeldByNext
    <3>4. Count(m)' = Count(m)
      BY <1>1, <1>10, <3>1, <3>2, <3>3 DEF Pending
    <3> QED BY <3>1, <3>2, <3>3, <3>4
            DEF SameInner, SameLeaf, SameKeys, Contents, KeysUpTo, NextLeaf
  <2> QED BY <2>1, <2>2
<1>16. /\ r[q] >= 0 /\ r[new] = -1
       /\ \A m \in Leaves \ {q} : r[m] # r[q]
  <2>1. r[q] >= 0
    BY <1>1, <1>2, <1>3 DEF WayOrder
  <2>2. r[new] = -1
    BY <1>3, <1>4, <1>12 DEF LeavesOrder, Chained
  <2> QED BY <1>3, <1>4, <2>1, <2>2, SMTT(60) DEF LeavesOrder
<1>17. PICK r2 : r2 = [m \in Nat |-> IF m = new THEN r[q]
                                     ELSE IF r[m] >= r[q] THEN r[m] + 1 ELSE r[m]]
  OBVIOUS
<1>18. Ghosts(l, r2, h) /\ Pushed(r, r2, q, new)
  <2>1. r[q] \in Int /\ r \in [Nat -> Int]
    BY <1>3, <1>4 DEF Ghosts
  <2>2. r2 \in [Nat -> Int]
    BY <1>17, <2>1
  <2>3. new \in Nat /\ \A m \in Nodes : m \in Nat
    BY <1>3, <1>4
  <2>4. Pushed(r, r2, q, new)
    BY <1>17, <2>3 DEF Pushed
  <2> QED BY <1>3, <2>2, <2>4 DEF Ghosts
<1>19. /\ \A m \in Nodes : r2[m] \in Int /\ (r[m] >= 0 => r2[m] >= 0)
       /\ \A m \in Nodes \ {new} : r2[m] >= 0 => r[m] >= 0
       /\ \A p, m \in Nodes \ {new} : r2[p] > r2[m] <=> r[p] > r[m]
       /\ \A m \in Nodes \ {new} : r[q] > r2[m] <=> r[q] > r[m]
       /\ \A m \in Nodes \ {new} : r2[m] # r[q]
       /\ \A m \in Nodes \ {new} : r2[m] > r[q] <=> r[m] >= r[q]
  BY <1>3, <1>4, <1>16, <1>18 DEF Pushed
<1>20. ASSUME NEW p \in Leaves, NEW v, Below(p, v) PROVE Below(p, v)'
  <2>1. CASE p \in {q, new}
    BY <1>14, <1>20, <2>1 DEF Below
  <2>2. CASE p \notin {q, new}
    BY <1>15, <1>20, <2>2 DEF Below, SameLeaf, Leaves
  <2> QED BY <2>1, <2>2
<1>21. ASSUME NEW p \in Leaves, NEW v \in Int, r[p] >= 0, Above(r, p, v)
       PROVE  Above(r2, p, v)'
  <2>1. p # new /\ p \in Nodes
    BY <1>16, <1>21 DEF Leaves
  <2>2. ASSUME NEW m \in Leaves', r2[m] > r2[p]
        PROVE  Below(m, v)'
    <3>1. m \in Leaves /\ m \in Nodes
      BY <1>9 DEF Leaves
    <3>2. CASE m # new
      <4>1. r[m] > r[p]
        BY <1>19, <2>1, <2>2, <3>1, <3>2
      <4>2. Below(m, v)
        BY <1>21, <3>1, <4>1 DEF Above
      <4> QED BY <1>20, <3>1, <4>2
    <3>3. CASE m = new
      <4>1. r[q] > r[p]
        BY <1>18, <1>19, <2>1, <2>2, <3>3 DEF Pushed
      <4>2. Below(q, v)
        BY <1>4, <1>21, <4>1 DEF Above
      <4> QED BY <1>14, <3>3, <4>2 DEF Below
    <3> QED BY <3>2, <3>3
  <2> QED BY <2>2 DEF Above
<1>22. /\ num > 0 /\ l[new] = nodes[new].keys[0] /\ l[new] \in Contents(new)
       /\ \A i \in 0 .. c - 1 : nodes[q].keys[i] < l[new]
       /\ \A v \in Contents(new) : v \in Int /\ l[new] <= v
  <2>1. /\ num > 0 /\ l[new] = nodes[new].keys[0]
        /\ \A i \in 0 .. c - 1 : nodes[q].keys[i] < l[new]
    BY <1>1, <1>2, <1>3, <1>12 DEF SplitOrder
  <2>2. num \in 0 .. Order - 1 /\ nodes[new].keys \in [Slots -> Int]
    BY <1>1, <1>3, <1>4, NodeFields
  <2>3. 0 \in 0 .. num - 1 /\ \A i \in 0 .. num - 1 : i \in Slots /\ (i = 0 \/ 0 < i)
    BY <2>1, <2>2, OrderAssumption DEF Slots
  <2>4. \A i \in 0 .. num - 1 : 0 < i => nodes[new].keys[0] < nodes[new].keys[i]
    BY <1>3, <1>4, <1>12, <2>3 DEF LeavesOrder, Sorted
  <2>5. Contents(new) = {nodes[new].keys[i] : i \in 0 .. num - 1}
    BY <1>14 DEF KeysUpTo
  <2> QED BY <2>1, <2>2, <2>3, <2>4, <2>5, SMTT(60)
<1>23. ASSUME NEW v \in Int, l[new] <= v, Above(r, q, v)
       PROVE  Above(r2, new, v)'
  <2>1. Below(q, v)'
    <3>1. 0 \in 0 .. c - 1 /\ Order - 1 \in Nat
      BY <1>1, CutBounds, OrderAssumption
    <3>2. \A i \in 0 .. c - 1 : nodes[q].keys[i] \in Int
      <4>1. nodes[q].keys \in [Slots -> Int] /\ c \in 1 .. Order - 1
        BY <1>1, <1>3, <1>4, NodeFields, CutBounds
      <4> QED BY <4>1, OrderAssumption DEF Slots
    <3>3. BeforeKeys <= nodes[q].keys[0] /\ BeforeKeys \in Int
      BY <1>3, <1>4, <1>12, <3>1, KeysAssumption DEF LeavesOrder, Sorted
    <3>4. l[new] \in Int
      BY <1>3, <1>4
    <3>5. BeforeKeys < v /\ \A i \in 0 .. c - 1 : nodes[q].keys[i] < v
      BY <1>22, <1>23, <3>1, <3>2, <3>3, <3>4
    <3>6. \A z \in KeysUpTo(q, c) : z < v
      BY <3>5 DEF KeysUpTo
    <3> QED BY <1>14, <3>5, <3>6 DEF Below
  <2>2. ASSUME NEW m \in Leaves', r2[m] > r2[new]
        PROVE  Below(m, v)'
    <3>1. m \in Leaves /\ m \in Nodes /\ r2[new] = r[q] /\ r[q] \in Int
      BY <1>3, <1>4, <1>9, <1>18 DEF Leaves, Pushed
    <3>2. CASE m = q
      BY <2>1, <3>2
    <3>3. CASE m # q
      <4>1. m # new
        BY <2>2, <3>1
      <4>2. r[m] >= r[q]
        BY <1>19, <2>2, <3>1, <4>1
      <4>3. r[m] > r[q]
        BY <1>3, <1>16, <3>1, <3>3, <4>2
      <4>4. Below(m, v)
        BY <1>23, <3>1, <4>3 DEF Above
      <4> QED BY <1>20, <3>1, <4>4
    <3> QED BY <3>2, <3>3
  <2> QED BY <2>2 DEF Above
<1>24. ASSUME NEW m \in Leaves
       PROVE  Ascends(l, r2, m)'
  <2> SUFFICES ASSUME r2[m] >= 0
               PROVE  Above(r2, m, l[m])' /\ \A z \in Contents(m)' : Above(r2, m, z)'
    BY DEF Ascends
  <2>1. m \in Nodes /\ l[m] \in Int
    BY <1>3 DEF Leaves
  <2>2. CASE m = new
    <3>1. \A z \in Contents(q) : Above(r, q, z)
      BY <1>3, <1>4, <1>16 DEF LeavesOrder, Ascends
    <3>2. \A z \in Contents(new) : Above(r, q, z) /\ z \in Int /\ l[new] <= z
      BY <1>14, <1>22, <3>1
    <3>3. \A z \in Contents(new) : Above(r2, new, z)'
      BY <1>23, <3>2
    <3>4. Contents(new)' = Contents(new) /\ l[new] \in Contents(new)
      BY <1>14, <1>22
    <3>5. Above(r2, new, l[new])' /\ \A z \in Contents(new)' : Above(r2, new, z)'
      BY <3>3, <3>4
    <3> QED BY <2>2, <3>5
  <2>3. CASE m # new
    <3>1. r[m] >= 0
      BY <1>19, <2>1, <2>3
    <3>2. Above(r, m, l[m]) /\ \A z \in Contents(m) : Above(r, m, z)
      BY <1>3, <3>1 DEF LeavesOrder, Ascends
    <3>3. Contents(m)' \subseteq Contents(m) /\ Contents(m) \subseteq Int
      BY <1>14, <1>15, <2>1, <2>3, ContentsInt DEF SameLeaf
    <3> QED BY <1>21, <2>1, <3>1, <3>2, <3>3
  <2> QED BY <2>2, <2>3
<1>25. ASSUME NEW m \in Leaves
       PROVE  Chained(r2, h, m)' /\ Sorted(m)'
  <2>1. m \in Nodes /\ Chained(r, h, m) /\ Sorted(m) /\ NextLeaf(m) \in Leaves \cup {NULL}
    BY <1>3 DEF LeavesOrder, NodesOK, Linked, Leaves
  <2>2. NextLeaf(q) \in Leaves \cup {NULL} /\ Chained(r, h, q) /\ NULL \notin Nodes
    BY <1>3, <1>4, NodeNumbers DEF LeavesOrder, NodesOK, Linked
  <2>3. CASE m = q
    <3>1. NextLeaf(q)' = new
      BY <1>7, <1>9 DEF NextLeaf
    <3>2. r2[q] = r[q] + 1 /\ r2[new] = r[q]
      BY <1>3, <1>4, <1>18 DEF Pushed
    <3>3. Chained(r2, h, q)'
      BY <1>3, <1>4, <1>13, <1>16, <2>2, <3>1, <3>2 DEF Chained
    <3>4. Sorted(q)'
      BY <1>7, <1>9, <1>12, <1>13, <2>1, <2>3 DEF Sorted
    <3> QED BY <2>3, <3>3, <3>4
  <2>4. CASE m = new
    <3>1. NextLeaf(new)' = NextLeaf(q)
      BY <1>7, <1>9 DEF NextLeaf
    <3>2. r2[new] = r[q]
      BY <1>18 DEF Pushed
    <3>3. r[q] > 0 => NextLeaf(q) # NULL /\ r2[NextLeaf(q)] = r[q] - 1
      <4> SUFFICES ASSUME r[q] > 0
                   PROVE  NextLeaf(q) # NULL /\ r2[NextLeaf(q)] = r[q] - 1
        OBVIOUS
      <4>1. NextLeaf(q) # NULL /\ r[NextLeaf(q)] = r[q] - 1 /\ NextLeaf(q) \in Nodes
        BY <2>2 DEF Chained, Leaves
      <4>2. NextLeaf(q) # new
        BY <1>3, <1>4, <1>16, <4>1
      <4> QED BY <1>3, <1>4, <1>18, <4>1, <4>2 DEF Pushed
    <3>4. Chained(r2, h, new)'
      BY <1>13, <1>16, <2>1, <2>2, <2>4, <3>1, <3>2, <3>3 DEF Chained
    <3>5. Sorted(new)'
      BY <1>7, <1>9, <1>12, <1>13, <2>1, <2>4 DEF Sorted
    <3> QED BY <2>4, <3>4, <3>5
  <2>5. CASE m \notin {q, new}
    <3>1. SameLeaf(m)
      BY <1>15, <2>1, <2>5
    <3>2. NextLeaf(m)' = NextLeaf(m) /\ (Unlinked(m)' <=> Unlinked(m)) /\ Sorted(m)'
      BY <2>1, <3>1 DEF SameLeaf, SameKeys, Sorted
    <3>3. r[m] \in Int /\ r[q] \in Int /\ r[m] # r[q]
      BY <1>3, <1>4, <1>16, <2>1, <2>5
    <3>4. r2[m] = IF r[m] >= r[q] THEN r[m] + 1 ELSE r[m]
      BY <1>18, <2>1, <2>5 DEF Pushed
    <3>5. r[m] > 0 => NextLeaf(m) # NULL /\ r2[NextLeaf(m)] = r2[m] - 1
      <4> SUFFICES ASSUME r[m] > 0
                   PROVE  NextLeaf(m) # NULL /\ r2[NextLeaf(m)] = r2[m] - 1
        OBVIOUS
      <4>1. NextLeaf(m) # NULL /\ r[NextLeaf(m)] = r[m] - 1 /\ NextLeaf(m) \in Nodes
        BY <2>1 DEF Chained, Leaves
      <4>2. NextLeaf(m) # new
        BY <1>16, <3>3, <4>1
      <4>3. PICK w : w = NextLeaf(m)
        OBVIOUS
      <4>4. r2[w] = IF r[w] >= r[q] THEN r[w] + 1 ELSE r[w]
        BY <1>18, <4>1, <4>2, <4>3 DEF Pushed
      <4> QED BY <3>3, <3>4, <4>1, <4>3, <4>4
    <3>6. Chained(r2, h, m)'
      BY <1>16, <2>1, <3>2, <3>3, <3>4, <3>5 DEF Chained
    <3> QED BY <3>2, <3>6
  <2> QED BY <2>3, <2>4, <2>5
<1>26. LeavesOrder(l, r2, h)'
  <2>1. ASSUME NEW p \in Leaves', NEW m \in Leaves', r2[p] = r2[m], r2[p] >= 0
        PROVE  p = m
    <3>1. p \in Nodes /\ m \in Nodes /\ p \in Leaves /\ m \in Leaves
      BY <1>9 DEF Leaves
    <3>2. CASE p = new
      BY <1>18, <1>19, <2>1, <3>1, <3>2 DEF Pushed
    <3>3. CASE m = new
      BY <1>18, <1>19, <2>1, <3>1, <3>3 DEF Pushed
    <3>4. CASE p # new /\ m # new
      <4>1. r[p] >= 0 /\ ~(r[p] > r[m]) /\ ~(r[m] > r[p])
        BY <1>19, <2>1, <3>1, <3>4
      <4>2. r[p] = r[m]
        BY <1>3, <3>1, <4>1
      <4> QED BY <1>3, <3>1, <4>1, <4>2 DEF LeavesOrder
    <3> QED BY <3>2, <3>3, <3>4
  <2> QED BY <1>9, <1>24, <1>25, <2>1 DEF LeavesOrder
<1>27. Later(l, r, h, l, r2, h)
  <2>1. ASSUME NEW p \in Nodes, NEW m \in Nodes, r[m] >= 0, r[p] >= r[m]
        PROVE  r2[p] >= r2[m]
    <3>1. p # new /\ m # new
      BY <1>3, <1>16, <2>1
    <3> QED BY <1>3, <1>4, <1>18, <2>1, <3>1 DEF Pushed
  <2> QED BY <1>18, <1>19, <1>21, <2>1 DEF Later
<1>28. ASSUME NEW m \in Inner PROVE Routes(l, r2, h, m)'
  <2>1. m \in Nodes \ {q, new} /\ m \in Nodes /\ Routes(l, r, h, m)
    BY <1>3, <1>4 DEF NodeOrder, Inner
  <2>2. SameInner(m)
    BY <1>15, <2>1
  <2> QED BY <1>9, <1>19, <2>1, <2>2, RoutesKept
<1>29. \A m \in Nodes : Leftmost(l, m)'
  <2>1. pc'[t] \in HoldsRight /\ frame'[t].right = frame[t].right
    BY <1>10 DEF HoldsRight
  <2> QED BY <1>3, <1>11, <2>1, LeftmostKept DEF NodeOrder
<1>30. NodeOrder(l, r2, h)'
  <2>1. root \in Nodes
    BY <1>3 DEF NodesOK
  <2> QED BY <1>2, <1>3, <1>9, <1>19, <1>26, <1>28, <1>29, <2>1 DEF NodeOrder
<1>31. WayOrder(l, r2, t)'
  <2>1. frame[t].root \in Nodes /\ l[frame[t].root] <= BeforeKeys /\ r[frame[t].root] >= 0
    BY <1>2, <1>3 DEF FrameOK, WayOrder
  <2>2. /\ l[frame'[t].root] <= BeforeKeys /\ r2[frame'[t].root] >= 0
        /\ r2[frame'[t].left] >= 0 /\ pc'[t] = "leaf_cut"
    BY <1>1, <1>4, <1>10, <1>16, <1>19, <2>1
  <2> QED BY <2>2, PlainWay DEF DeleteHeld
<1>32. SplitOrder(l, r2, h, t)'
  <2>1. r2[new] >= 0 /\ l[new] <= nodes'[new].keys[0]
    BY <1>3, <1>4, <1>7, <1>9, <1>16, <1>18, <1>22, SMTT(60) DEF Pushed
  <2>2. frame[t].parent = NULL => l[q] <= BeforeKeys
    BY <1>1, <1>2, <1>3 DEF SplitOrder, HoldsParent, HoldsRight
  <2> QED BY <1>1, <1>10, <2>1, <2>2 DEF SplitOrder, SplitLabels
<1> QED BY <1>11, <1>27, <1>30, <1>31, <1>32, Assembled DEF ThreadOrder

-------------------------------------------------------------------------------
(* An inner node that is added *)

LEMMA InnerAdded ==
    ASSUME BInv, BInv', NEW t \in Threads, Steady(t), UNCHANGED root,
           NEW l, NEW r, NEW h, Ordered(l, r, h),
           NEW new, new \notin Nodes, Nodes' = Nodes \cup {new},
           Leaves' = Leaves, Inner' = Inner \cup {new},
           \A m \in Leaves : SameLeaf(m),
           NEW l2, NEW r2, NEW h2, Ghosts(l2, r2, h2),
           \A m \in Nodes : l2[m] = l[m] /\ r2[m] = r[m] /\ h2[m] = h[m],
           \A m \in Inner : Routes(l2, r2, h2, m)', Routes(l2, r2, h2, new)',
           Leftmost(l2, new)',
           pc[t] \in HoldsRight =>
              \/ nodes'[frame[t].right].parent # NULL
              \/ pc'[t] \in HoldsRight /\ frame'[t].right = frame[t].right,
           WayOrder(l2, r2, t)', SplitOrder(l2, r2, h2, t)'
    PROVE  OInv'
<1>1. /\ NodeOrder(l, r, h) /\ Ghosts(l, r, h) /\ LeavesOrder(l, r, h) /\ NodesOK
      /\ root \in Nodes
  BY OrderFacts, ThreadFacts DEF NodesOK
<1>2. \A m \in Leaves : m \in Nodes
  BY DEF Leaves
<1>3. LeavesOrder(l2, r2, h2)'
  <2>1. \A m \in Leaves : l2[m] = l[m] /\ r2[m] = r[m] /\ h2[m] = h[m]
    BY <1>2
  <2> QED BY <1>1, <2>1, LeavesOrderKept
<1>4. Later(l, r, h, l2, r2, h2)
  <2>1. ASSUME NEW q \in Leaves, NEW v \in Int, Above(r, q, v)
        PROVE  Above(r2, q, v)'
    <3>1. \A p \in Leaves : Below(p, v)' <=> Below(p, v)
      BY DEF Below, SameLeaf
    <3>2. \A p \in Leaves : r2[p] = r[p]
      BY <1>2
    <3> QED BY <2>1, <3>1, <3>2 DEF Above
  <2> QED BY <2>1 DEF Later
<1>5. \A m \in Nodes : Leftmost(l2, m)'
  BY <1>1, LeftmostKept DEF NodeOrder
<1>6. NodeOrder(l2, r2, h2)'
  BY <1>1, <1>3, <1>5 DEF NodeOrder
<1> QED BY <1>4, <1>6, Assembled DEF ThreadOrder

RootLooks(x, left, right, key) ==
    /\ x \in NodeType /\ x.is_leaf = FALSE /\ x.num_keys = 1 /\ x.parent = NULL
    /\ x.keys[0] = key /\ x.pointers[0] = left /\ x.pointers[1] = right

LEMMA RootMade ==
    ASSUME NEW left \in Int, NEW right \in Int, NEW key \in Int,
           NEW x, x = [MakeNode(FALSE, NULL) EXCEPT !.num_keys = 1, !.keys[0] = key,
                           !.pointers[0] = left, !.pointers[1] = right]
    PROVE  RootLooks(x, left, right, key)
<1>1. 1 \in 0 .. Order - 1 /\ 0 \in Slots /\ 1 \in Slots
  BY OrderAssumption DEF Slots
<1>2. PICK made : made = MakeNode(FALSE, NULL)
  OBVIOUS
<1>3. made \in NodeType /\ made.is_leaf = FALSE /\ made.parent = NULL
  BY <1>2, MakeInnerOK
<1>4. made.keys \in [Slots -> Int] /\ made.pointers \in [Slots -> Int]
  BY <1>3 DEF NodeType
<1>5. PICK k, p : /\ k = [made.keys EXCEPT ![0] = key]
                  /\ p = [made.pointers EXCEPT ![0] = left, ![1] = right]
  OBVIOUS
<1>6. /\ k \in [Slots -> Int] /\ p \in [Slots -> Int]
      /\ k[0] = key /\ p[0] = left /\ p[1] = right
  BY <1>1, <1>4, <1>5
<1>7. x = [made EXCEPT !.num_keys = 1, !.keys = k, !.pointers = p]
  BY <1>2, <1>5 DEF MakeNode
<1> QED BY ONLY <1>1, <1>3, <1>6, <1>7 DEF NodeType, RootLooks

LEMMA NewRootOrder ==
    ASSUME BInv, BInv', NEW t \in Threads, NewRoot(t), NEW l, NEW r, NEW h, Ordered(l, r, h)
    PROVE  OInv'
<1>1. PICK left, right, new, key, x, half :
        /\ left = frame[t].left /\ right = frame[t].right /\ new = Len(nodes) + 1
        /\ key = frame[t].key
        /\ half = [nodes EXCEPT ![left].parent = new, ![right].parent = new]
        /\ x = [MakeNode(FALSE, NULL) EXCEPT !.num_keys = 1, !.keys[0] = key,
                    !.pointers[0] = left, !.pointers[1] = right]
  OBVIOUS
<1>2. /\ pc[t] = "into_parent" /\ frame[t].parent = NULL
      /\ nodes' = Append(half, x)
      /\ lock' = Append([lock EXCEPT ![left] = NoThread, ![right] = NoThread], NoThread)
      /\ Goto(t, "put_return", [frame[t] EXCEPT !.root = new])
      /\ UNCHANGED <<root, call>>
  BY <1>1 DEF NewRoot, At
<1>3. /\ NodesOK /\ FrameOK(t) /\ CallOK(t) /\ LockOK(t) /\ frame[t] \in FrameType
      /\ WayOrder(l, r, t) /\ SplitOrder(l, r, h, t) /\ Ghosts(l, r, h)
      /\ NodeOrder(l, r, h)
      /\ \A m \in Nodes : m \in Nat /\ l[m] \in Int /\ r[m] \in Int /\ h[m] \in Nat
  BY ThreadFacts, OrderFacts
<1>4. left \in Nodes /\ right \in Nodes /\ left # right
  BY <1>1, <1>2, <1>3 DEF FrameOK, HoldsRight
<1>5. nodes[left] \in NodeType /\ nodes[right] \in NodeType
      /\ left \in Int /\ right \in Int /\ new \in Int /\ key \in Int
  BY <1>1, <1>3, <1>4, NodeFields DEF NodesOK, Nodes, FrameType
<1>6. /\ x \in NodeType /\ x.is_leaf = FALSE /\ x.num_keys = 1 /\ x.parent = NULL
      /\ x.keys[0] = key /\ x.pointers[0] = left /\ x.pointers[1] = right
  <2>1. /\ left \in Int /\ right \in Int /\ key \in Int
        /\ x = [MakeNode(FALSE, NULL) EXCEPT !.num_keys = 1, !.keys[0] = key,
                     !.pointers[0] = left, !.pointers[1] = right]
    BY <1>1, <1>5
  <2>2. RootLooks(x, left, right, key)
    BY ONLY <2>1, RootMade
  <2> QED BY <2>2 DEF RootLooks
<1>7. /\ half \in Seq(NodeType) /\ DOMAIN half = Nodes
      /\ \A m \in Nodes : /\ half[m].is_leaf = nodes[m].is_leaf
                          /\ half[m].num_keys = nodes[m].num_keys
                          /\ half[m].keys = nodes[m].keys
                          /\ half[m].pointers = nodes[m].pointers
                          /\ half[m].parent = IF m \in {left, right} THEN new ELSE nodes[m].parent
  <2>1. PICK a, b : /\ a = [nodes[left] EXCEPT !.parent = new]
                    /\ b = [nodes[right] EXCEPT !.parent = new]
    OBVIOUS
  <2>2. /\ a \in NodeType /\ a.is_leaf = nodes[left].is_leaf
        /\ a.num_keys = nodes[left].num_keys /\ a.keys = nodes[left].keys
        /\ a.pointers = nodes[left].pointers /\ a.parent = new
    BY <1>5, <2>1 DEF NodeType
  <2>3. /\ b \in NodeType /\ b.is_leaf = nodes[right].is_leaf
        /\ b.num_keys = nodes[right].num_keys /\ b.keys = nodes[right].keys
        /\ b.pointers = nodes[right].pointers /\ b.parent = new
    BY <1>5, <2>1 DEF NodeType
  <2>4. half = [nodes EXCEPT ![left] = a, ![right] = b]
    BY <1>1, <1>4, <2>1
  <2>5. /\ half \in Seq(NodeType) /\ DOMAIN half = Nodes
        /\ half[left] = a /\ half[right] = b
        /\ \A m \in Nodes \ {left, right} : half[m] = nodes[m]
    BY <1>3, <1>4, <2>2, <2>3, <2>4 DEF NodesOK, Nodes
  <2> QED BY <2>2, <2>3, <2>5
<1>8. /\ new \in Int \ Nodes /\ Nodes' = Nodes \cup {new}
      /\ nodes'[new] = x /\ \A m \in Nodes : nodes'[m] = half[m]
      /\ \A m \in Nodes : /\ m \in Leaves' <=> m \in Leaves
                          /\ m \in Inner' <=> m \in Inner
      /\ new \notin Leaves' /\ new \in Inner'
  <2>1. \A m \in Nodes : half[m].is_leaf = nodes[m].is_leaf
    BY <1>7, Zenon
  <2>2. /\ Len(nodes) + 1 \in Int \ Nodes /\ Nodes' = Nodes \cup {Len(nodes) + 1}
        /\ nodes'[Len(nodes) + 1] = x /\ \A m \in Nodes : nodes'[m] = half[m]
        /\ \A m \in Nodes : /\ m \in Leaves' <=> m \in Leaves
                            /\ m \in Inner' <=> m \in Inner
        /\ Len(nodes) + 1 \in Leaves' <=> x.is_leaf
        /\ Len(nodes) + 1 \in Inner' <=> ~x.is_leaf
    BY <1>2, <1>3, <1>6, <1>7, <2>1, Grown, Zenon
  <2> QED BY <1>1, <1>6, <2>2
<1>9. Leaves' = Leaves /\ Inner' = Inner \cup {new}
  <2>1. (\A m \in Leaves' : m \in Nodes') /\ (\A m \in Leaves : m \in Nodes)
    BY DEF Leaves
  <2>2. (\A m \in Inner' : m \in Nodes') /\ (\A m \in Inner : m \in Nodes)
    BY DEF Inner
  <2> QED BY <1>8, <2>1, <2>2
<1>10. /\ lock'[new] = NoThread
       /\ \A m \in Nodes : lock'[m] = IF m \in {left, right} THEN NoThread ELSE lock[m]
  <2>1. PICK free : free = [lock EXCEPT ![left] = NoThread, ![right] = NoThread]
    OBVIOUS
  <2>2. /\ free \in [Nodes -> Threads \cup {NoThread}]
        /\ \A m \in Nodes : free[m] = IF m \in {left, right} THEN NoThread ELSE lock[m]
    BY <1>3, <1>4, <2>1, SMTT(60) DEF NodesOK
  <2>3. lock' = Append(free, NoThread) /\ Nodes' = Nodes \cup {Len(nodes) + 1}
    BY <1>1, <1>2, <1>8, <2>1
  <2> QED BY <1>1, <1>3, <2>2, <2>3, GrownLocks
<1>11. new \in Nat /\ new \in Nodes' /\ new # left /\ new # right
  <2>1. Len(nodes) + 1 \in Nat
    BY <1>3, LenProperties DEF NodesOK
  <2> QED BY <1>1, <1>4, <1>8, <2>1
<1>12. Alone(t) /\ pc'[t] = "put_return" /\ frame'[t] = [frame[t] EXCEPT !.root = new]
  BY <1>2, GotoAlone
<1>13. frame'[t].left = left /\ frame'[t].root = new
  BY <1>1, <1>3, <1>12, SMTT(60) DEF FrameType
<1>14. \A m \in Nodes : lock[m] = t <=> m \in {left, right}
  <2>1. NULL \notin Nodes
    BY <1>3 DEF NodesOK, Nodes, NULL
  <2> QED BY <1>1, <1>2, <1>3, <2>1
          DEF LockOK, Holds, HoldsLeft, HoldsRight, HoldsParent, Deleting, DeleteLabels
<1>15. new # NULL
  BY <1>11 DEF NULL
<1>16. Steady(t)
  BY <1>7, <1>8, <1>12, <1>14, <1>15 DEF Steady
<1>17. ASSUME NEW m \in Nodes
       PROVE  (m \in Leaves => SameLeaf(m)) /\ (m \in Inner => SameInner(m))
  <2>1. CASE lock[m] # t
    <3>1. lock'[m] # t
      BY <1>10, <2>1, MenuAssumption
    <3> QED BY <1>16, <2>1, <3>1, OutsideSame
  <2>2. CASE lock[m] = t
    <3>1. /\ lock'[m] = NoThread /\ m \in Nodes' /\ NoThread # t
          /\ nodes'[m].keys = nodes[m].keys /\ nodes'[m].pointers = nodes[m].pointers
          /\ nodes'[m].num_keys = nodes[m].num_keys
      BY <1>7, <1>8, <1>10, <1>14, <2>2, MenuAssumption
    <3>2. Pending(pc[t], frame[t], m, nodes[m].num_keys) = nodes[m].num_keys
      <4>1. pc[t] \notin Special
        BY <1>2 DEF Special
      <4> QED BY ONLY <4>1, PendingPlain
    <3>3. pc[t] # "leaf_link" /\ pc'[t] # "leaf_link"
      BY <1>2, <1>12
    <3>4. NextLeaf(m)' = NextLeaf(m)
      BY <3>1 DEF NextLeaf
    <3> QED BY <2>2, <3>1, <3>2, <3>3, <3>4, HeldSame
  <2> QED BY <2>1, <2>2
<1>18. PICK l2, r2, h2 : /\ l2 = [l EXCEPT ![new] = BeforeKeys] /\ r2 = [r EXCEPT ![new] = 0]
                         /\ h2 = [h EXCEPT ![new] = h[left] + 1]
  OBVIOUS
<1>19. /\ Ghosts(l2, r2, h2)
       /\ l2[new] = BeforeKeys /\ r2[new] = 0 /\ h2[new] = h[left] + 1
       /\ \A m \in Nodes : l2[m] = l[m] /\ r2[m] = r[m] /\ h2[m] = h[m]
       /\ BeforeKeys \in Int
  <2>1. \A m \in Nodes : m \in Nat /\ m # new
    BY <1>3, <1>8
  <2>2. BeforeKeys \in Int /\ h[left] + 1 \in Nat
    BY <1>3, <1>4, KeysAssumption
  <2> QED BY <1>3, <1>11, <1>18, <2>1, <2>2 DEF Ghosts
<1>20. \A m \in Inner : Routes(l2, r2, h2, m)'
  <2> SUFFICES ASSUME NEW m \in Inner PROVE Routes(l2, r2, h2, m)'
    OBVIOUS
  <2>1. m \in Nodes /\ Routes(l, r, h, m)
    BY <1>3 DEF NodeOrder, Inner
  <2>2. SameInner(m) /\ Nodes \subseteq Nodes'
    BY <1>8, <1>17, <2>1
  <2>3. \A u \in Nodes : l2[u] = l[u] /\ h2[u] = h[u] /\ (r[u] >= 0 => r2[u] >= 0)
    BY <1>19
  <2> QED BY <2>1, <2>2, <2>3, RoutesKept
<1>21. /\ r[left] >= 0 /\ r[right] >= 0 /\ h[right] = h[left]
       /\ l[left] <= BeforeKeys /\ l[right] <= key
  <2>1. r[left] >= 0
    BY <1>1, <1>2, <1>3, SMTT(60) DEF WayOrder
  <2>2. r[right] >= 0 /\ h[right] = h[left] /\ l[left] <= BeforeKeys /\ l[right] <= key
    BY <1>1, <1>2, <1>3 DEF SplitOrder, HoldsParent, HoldsRight
  <2> QED BY <2>1, <2>2, SMTT(60)
<1>22. Routes(l2, r2, h2, new)'
  <2>1. Count(new)' = 1
    BY <1>6, <1>8, <1>10, <1>11, HeldByNoneNext
  <2>2. 0 .. 1 = {0, 1}
    OBVIOUS
  <2>3. h2[new] > 0 /\ r2[new] >= 0
    BY <1>3, <1>4, <1>19
  <2>4. /\ left \in Nodes' /\ r2[left] >= 0 /\ h2[new] = h2[left] + 1 /\ l2[left] <= l2[new]
        /\ right \in Nodes' /\ r2[right] >= 0 /\ h2[new] = h2[right] + 1 /\ l2[right] <= key
    BY <1>4, <1>8, <1>19, <1>21
  <2>5. ASSUME NEW i \in {0, 1}
        PROVE  /\ nodes'[new].pointers[i] \in Nodes'
               /\ r2[nodes'[new].pointers[i]] >= 0
               /\ h2[new] = h2[nodes'[new].pointers[i]] + 1
               /\ Routed(l2, new, i)'
    <3>1. CASE i = 0
      BY <1>6, <1>8, <2>4, <3>1 DEF Routed
    <3>2. CASE i = 1
      BY <1>6, <1>8, <2>4, <3>2 DEF Routed
    <3> QED BY <3>1, <3>2
  <2> QED BY <2>1, <2>2, <2>3, <2>5 DEF Routes
<1>23. Leftmost(l2, new)'
  BY <1>19 DEF Leftmost
<1>24. nodes'[right].parent # NULL /\ right = frame[t].right
  <2>1. half[right].parent = new /\ nodes'[right] = half[right]
    BY <1>4, <1>7, <1>8
  <2> QED BY <1>1, <1>15, <2>1
<1>25. WayOrder(l2, r2, t)'
  <2>1. /\ l2[frame'[t].root] <= BeforeKeys /\ r2[frame'[t].root] >= 0
        /\ r2[frame'[t].left] >= 0 /\ pc'[t] = "put_return"
    BY <1>4, <1>12, <1>13, <1>19, <1>21
  <2> QED BY <2>1, PlainWay DEF DeleteHeld
<1>26. SplitOrder(l2, r2, h2, t)'
  BY <1>12, PlainSplit
<1>27. \A m \in Leaves : SameLeaf(m)
  BY <1>17 DEF Leaves
<1>28. /\ UNCHANGED root /\ new \notin Nodes /\ Nodes' = Nodes \cup {new}
       /\ (pc[t] \in HoldsRight =>
              \/ nodes'[frame[t].right].parent # NULL
              \/ pc'[t] \in HoldsRight /\ frame'[t].right = frame[t].right)
  BY <1>2, <1>8, <1>24
<1> QED BY ONLY BInv, BInv', t \in Threads, Ordered(l, r, h), <1>9, <1>16, <1>19, <1>20,
                <1>22, <1>23, <1>25, <1>26, <1>27, <1>28, InnerAdded

-------------------------------------------------------------------------------
(* A child that is added to an inner node *)

\* A descent with a key from v on may go to c from a node of this height.
ChildFits(l, r, h, N, c, v, height) == c \in N /\ r[c] >= 0 /\ height = h[c] + 1 /\ l[c] <= v

Guides(l, r, h, N, keys, pointers, num, least, height) ==
    \A i \in 0 .. num :
        ChildFits(l, r, h, N, pointers[i], IF i = 0 THEN least ELSE keys[i - 1], height)

LEMMA RoutesGuide ==
    ASSUME NEW l, NEW r, NEW h, NEW n
    PROVE  Routes(l, r, h, n) <=>
              /\ h[n] > 0 /\ r[n] >= 0
              /\ Guides(l, r, h, Nodes, nodes[n].keys, nodes[n].pointers, Count(n), l[n], h[n])
BY DEF Routes, Routed, Guides, ChildFits

LEMMA RoutesGuideNext ==
    ASSUME NEW l, NEW r, NEW h, NEW n
    PROVE  Routes(l, r, h, n)' <=>
              /\ h[n] > 0 /\ r[n] >= 0
              /\ Guides(l, r, h, Nodes', nodes'[n].keys, nodes'[n].pointers, Count(n)', l[n], h[n])
BY DEF Routes, Routed, Guides, ChildFits

\* The key between two children goes before the right one.
LEMMA SplicedGuides ==
    ASSUME NEW l, NEW r, NEW h, NEW N, NEW keys, NEW pointers, NEW num \in Nat,
           NEW least, NEW height, Guides(l, r, h, N, keys, pointers, num, least, height),
           NEW i \in 0 .. num, NEW key, NEW right, ChildFits(l, r, h, N, right, key, height),
           NEW k, \A j \in 0 .. num : k[j] = Spliced(keys, i, num, key)[j],
           NEW p, \A j \in 0 .. num + 1 : p[j] = Spliced(pointers, i + 1, num + 1, right)[j]
    PROVE  Guides(l, r, h, N, k, p, num + 1, least, height)
<1> SUFFICES ASSUME NEW j \in 0 .. num + 1
             PROVE  ChildFits(l, r, h, N, p[j], IF j = 0 THEN least ELSE k[j - 1], height)
  BY DEF Guides
<1>1. /\ num + 1 \in Nat /\ i + 1 \in 0 .. num + 1
      /\ j # 0 => j - 1 \in 0 .. num
      /\ j < i + 1 => j \in 0 .. num
  OBVIOUS
<1>2. p[j] = IF j < i + 1 THEN pointers[j] ELSE IF j = i + 1 THEN right ELSE pointers[j - 1]
  <2>1. p[j] = Spliced(pointers, i + 1, num + 1, right)[j]
    OBVIOUS
  <2>2. j \in 0 .. num + 1
    OBVIOUS
  <2> QED BY ONLY <2>1, <2>2 DEF Spliced
<1>3. j # 0 => k[j - 1] = IF j - 1 < i THEN keys[j - 1]
                          ELSE IF j - 1 = i THEN key ELSE keys[j - 1 - 1]
  <2> SUFFICES ASSUME j # 0
               PROVE  k[j - 1] = IF j - 1 < i THEN keys[j - 1]
                                 ELSE IF j - 1 = i THEN key ELSE keys[j - 1 - 1]
    OBVIOUS
  <2>1. j - 1 \in 0 .. num
    BY <1>1
  <2>2. k[j - 1] = Spliced(keys, i, num, key)[j - 1]
    BY <2>1
  <2> QED BY ONLY <2>1, <2>2 DEF Spliced
<1>4. CASE j < i + 1
  <2>1. j \in 0 .. num /\ (j # 0 => j - 1 < i)
    BY <1>4
  <2>2. ChildFits(l, r, h, N, pointers[j], IF j = 0 THEN least ELSE keys[j - 1], height)
    BY <2>1 DEF Guides
  <2> QED BY <1>2, <1>3, <1>4, <2>1, <2>2
<1>5. CASE j = i + 1
  <2>1. j # 0 /\ j - 1 = i /\ ~(j < i + 1)
    BY <1>5
  <2>2. k[j - 1] = key /\ p[j] = right
    BY <1>2, <1>3, <1>5, <2>1
  <2> QED BY <2>1, <2>2
<1>6. CASE j > i + 1
  <2>1. /\ j # 0 /\ ~(j < i + 1) /\ j # i + 1 /\ ~(j - 1 < i) /\ j - 1 # i
        /\ j - 1 \in 0 .. num /\ j - 1 # 0
    BY <1>6
  <2>2. ChildFits(l, r, h, N, pointers[j - 1], IF j - 1 = 0 THEN least ELSE keys[j - 1 - 1],
                  height)
    BY <2>1 DEF Guides
  <2> QED BY <1>2, <1>3, <2>1, <2>2
<1> QED BY <1>4, <1>5, <1>6

\* A node with room after a child was written next to another.
NodeLooks(y, node, num) ==
    /\ y \in NodeType /\ y.is_leaf = node.is_leaf /\ y.parent = node.parent /\ y.num_keys = num

LEMMA NodeWritten ==
    ASSUME NEW node \in NodeType, NEW num, num = node.num_keys, num < Order - 1,
           NEW i \in 0 .. num, NEW key \in Int, NEW right \in Int,
           NEW y, y = Written(node, Spliced(node.keys, i, num, key),
                              Spliced(node.pointers, i + 1, num + 1, right)),
           NEW l, NEW r, NEW h, NEW N, NEW least, NEW height,
           Guides(l, r, h, N, node.keys, node.pointers, num, least, height),
           ChildFits(l, r, h, N, right, key, height)
    PROVE  /\ NodeLooks(y, node, num)
           /\ Guides(l, r, h, N, y.keys, y.pointers, num + 1, least, height)
<1>1. PICK keys, pointers : keys = node.keys /\ pointers = node.pointers
  OBVIOUS
<1>2. PICK k, p : /\ k = Spliced(keys, i, num, key)
                  /\ p = Spliced(pointers, i + 1, num + 1, right)
  OBVIOUS
<1>3. /\ keys \in [Slots -> Int] /\ pointers \in [Slots -> Int] /\ num \in 0 .. Order - 1
  BY <1>1 DEF NodeType
<1>4. /\ num \in Nat /\ num \in Slots /\ num + 1 \in Slots /\ i + 1 \in 0 .. num + 1
      /\ \A j \in 0 .. num : j \in Slots
      /\ \A j \in 0 .. num + 1 : j \in Slots
  BY ONLY <1>3, num < Order - 1, i \in 0 .. num, OrderAssumption DEF Slots
<1>5. /\ DOMAIN k = 0 .. num /\ \A j \in DOMAIN k : k[j] \in Int
      /\ DOMAIN p = 0 .. num + 1 /\ \A j \in DOMAIN p : p[j] \in Int
  <2>1. /\ DOMAIN Spliced(keys, i, num, key) = 0 .. num
        /\ \A j \in DOMAIN Spliced(keys, i, num, key) : Spliced(keys, i, num, key)[j] \in Int
    BY ONLY key \in Int, i \in 0 .. num, <1>3, <1>4, SplicedEntries
  <2>2. /\ DOMAIN Spliced(pointers, i + 1, num + 1, right) = 0 .. num + 1
        /\ \A j \in DOMAIN Spliced(pointers, i + 1, num + 1, right) :
              Spliced(pointers, i + 1, num + 1, right)[j] \in Int
    BY ONLY right \in Int, <1>3, <1>4, SplicedEntries
  <2> QED BY <1>2, <2>1, <2>2
<1>6. y = Written(node, k, p)
  BY <1>1, <1>2
<1>7. /\ y \in NodeType /\ y.is_leaf = node.is_leaf /\ y.parent = node.parent
      /\ y.num_keys = node.num_keys
      /\ \A j \in Slots : y.keys[j] = IF j \in DOMAIN k THEN k[j] ELSE node.keys[j]
      /\ \A j \in Slots :
            y.pointers[j] = IF j \in DOMAIN p THEN p[j] ELSE node.pointers[j]
  <2>1. (\A j \in DOMAIN k : k[j] \in Int) /\ \A j \in DOMAIN p : p[j] \in Int
    BY <1>5
  <2>2. node \in NodeType
    OBVIOUS
  <2> QED BY ONLY <2>1, <2>2, <1>6, WrittenFields, SMTT(60)
<1>8. NodeLooks(y, node, num)
  BY <1>7 DEF NodeLooks
<1>9. PICK a, b : a = y.keys /\ b = y.pointers
  OBVIOUS
<1>10. \A j \in 0 .. num : a[j] = Spliced(keys, i, num, key)[j]
  BY <1>2, <1>4, <1>5, <1>7, <1>9
<1>11. \A j \in 0 .. num + 1 : b[j] = Spliced(pointers, i + 1, num + 1, right)[j]
  BY <1>2, <1>4, <1>5, <1>7, <1>9
<1>12. Guides(l, r, h, N, keys, pointers, num, least, height)
  BY <1>1
<1>13. Guides(l, r, h, N, a, b, num + 1, least, height)
  BY ONLY ChildFits(l, r, h, N, right, key, height), i \in 0 .. num, <1>4, <1>10, <1>11, <1>12,
          SplicedGuides
<1> QED BY <1>8, <1>9, <1>13

LEMMA NodeWriteOrder ==
    ASSUME BInv, BInv', NEW t \in Threads, NodeWrite(t), NEW l, NEW r, NEW h, Ordered(l, r, h)
    PROVE  OInv'
<1>1. PICK n, num, i, left, right, key, node, y :
        /\ n = frame[t].parent /\ num = nodes[n].num_keys /\ left = frame[t].left
        /\ right = frame[t].right /\ key = frame[t].key /\ i = get_left_index(n, left)
        /\ node = nodes[n]
        /\ y = Written(node, Spliced(node.keys, i, num, key),
                             Spliced(node.pointers, i + 1, num + 1, right))
  BY SMTT(60)
<1>2. /\ pc[t] = "into_parent" /\ n # NULL /\ i <= num /\ num < Order - 1
      /\ nodes' = [nodes EXCEPT ![n] = y]
      /\ Goto(t, "node_count", frame[t])
      /\ UNCHANGED <<lock, root, call>>
  BY <1>1 DEF NodeWrite, ParentFound, LeftInParent, At
<1>3. /\ NodesOK /\ FrameOK(t) /\ LockOK(t) /\ frame[t] \in FrameType
      /\ WayOrder(l, r, t) /\ SplitOrder(l, r, h, t) /\ NodeOrder(l, r, h) /\ Ghosts(l, r, h)
      /\ LeavesOrder(l, r, h)
  BY ThreadFacts, OrderFacts, SMTT(60)
<1>4. n \in Inner /\ n \in Nodes /\ n \notin Leaves /\ right \in Nodes /\ n # right
  BY <1>1, <1>2, <1>3 DEF FrameOK, Leaves, Inner, HoldsRight
<1>5. node \in NodeType /\ key \in Int /\ right \in Int /\ num = node.num_keys
  BY <1>1, <1>3, <1>4, NodeFields DEF FrameType, NodesOK, Nodes
<1>6. Holds(t, n)
  BY <1>1, <1>2 DEF Holds, HoldsParent, HoldsRight
<1>7. lock[n] = t
  BY <1>3, <1>4, <1>6 DEF LockOK
<1>8. Count(n) = num
  <2>1. Count(n) = Pending(pc[t], frame[t], n, nodes[n].num_keys)
    BY <1>4, <1>7, HeldBy
  <2> QED BY <1>1, <1>2, <2>1, PendingPlain DEF Special
<1>9. /\ i \in 0 .. num /\ h[n] = h[left] + 1
  BY <1>1, <1>2, <1>4, LeftRoute
<1>10. /\ h[n] > 0 /\ r[n] >= 0
       /\ Guides(l, r, h, Nodes, node.keys, node.pointers, num, l[n], h[n])
  BY <1>1, <1>3, <1>4, <1>8, RoutesGuide DEF NodeOrder
<1>11. r[right] >= 0 /\ l[right] <= key /\ h[right] = h[left] /\ nodes[right].parent # NULL
  BY <1>1, <1>2, <1>3 DEF SplitOrder
<1>12. ChildFits(l, r, h, Nodes, right, key, h[n])
  BY <1>4, <1>9, <1>11 DEF ChildFits
<1>13. /\ NodeLooks(y, node, num)
       /\ Guides(l, r, h, Nodes, y.keys, y.pointers, num + 1, l[n], h[n])
  <2>1. y = Written(node, Spliced(node.keys, i, num, key),
                          Spliced(node.pointers, i + 1, num + 1, right))
    BY <1>1
  <2>2. num < Order - 1
    BY <1>2
  <2>3. i \in 0 .. num
    BY <1>9
  <2>4. Guides(l, r, h, Nodes, node.keys, node.pointers, num, l[n], h[n])
    BY <1>10, SMTT(60)
  <2> QED BY ONLY <1>5, <1>12, <2>1, <2>2, <2>3, <2>4, NodeWritten
<1>14. y \in NodeType /\ y.is_leaf = nodes[n].is_leaf /\ y.parent = nodes[n].parent
       /\ y.num_keys = num
  BY <1>1, <1>13 DEF NodeLooks
<1>15. Alone(t) /\ pc'[t] = "node_count" /\ frame'[t] = frame[t]
  BY <1>2, GotoAlone
<1>16. /\ Steady(t) /\ UNCHANGED <<Nodes, Leaves, Inner>>
       /\ nodes'[n] = y /\ \A m \in Nodes \ {n} : nodes'[m] = nodes[m]
       /\ \A m \in Nodes : nodes'[m].parent = nodes[m].parent
  BY <1>2, <1>4, <1>7, <1>14, <1>15, OneSteady
<1>17. ASSUME NEW m \in Nodes \ {n}
       PROVE  (m \in Leaves => SameLeaf(m)) /\ SameInner(m)
  <2>1. CASE lock[m] # t
    BY <1>2, <1>16, <2>1, OutsideSame
  <2>2. CASE lock[m] = t
    <3>1. lock'[m] = t /\ m \in Nodes' /\ lock'[m] # NoThread
      BY <1>2, <1>16, <2>2, MenuAssumption
    <3>2. nodes'[m] = nodes[m]
      BY <1>16, SMTT(60)
    <3>3. Pending(pc'[t], frame'[t], m, nodes'[m].num_keys)
            = Pending(pc[t], frame[t], m, nodes[m].num_keys)
      BY <1>1, <1>2, <1>15, <3>2 DEF Pending
    <3>4. pc[t] # "leaf_link" /\ pc'[t] # "leaf_link"
      BY <1>2, <1>15
    <3> QED BY <2>2, <3>1, <3>2, <3>3, <3>4, HeldSame DEF NextLeaf
  <2> QED BY <2>1, <2>2
<1>18. (\A m \in Leaves : m \in Nodes \ {n}) /\ (\A m \in Inner : m \in Nodes)
  BY <1>4 DEF Leaves, Inner
<1>19. \A m \in Leaves : SameLeaf(m)
  BY <1>17, <1>18
<1>20. Later(l, r, h, l, r, h)
  BY <1>3, <1>16, <1>19, SameLater DEF SameLeaf
<1>21. LeavesOrder(l, r, h)'
  BY <1>3, <1>16, <1>19, LeavesOrderKept
<1>22. Count(n)' = num + 1
  <2>1. lock'[n] = t /\ n \in Nodes' /\ pc'[t] = "node_count" /\ nodes'[n].num_keys = num
        /\ frame'[t].parent = n
    BY <1>1, <1>2, <1>4, <1>7, <1>14, <1>15, <1>16
  <2>2. Count(n)' = Pending(pc'[t], frame'[t], n, nodes'[n].num_keys)
    BY ONLY BInv', t \in Threads, <2>1, HeldByNext
  <2> QED BY <2>1, <2>2, SMTT(60) DEF Pending
<1>23. Routes(l, r, h, n)'
  <2>1. Guides(l, r, h, Nodes', nodes'[n].keys, nodes'[n].pointers, Count(n)', l[n], h[n])
    BY <1>13, <1>16, <1>22
  <2> QED BY <1>10, <2>1, RoutesGuideNext
<1>24. ASSUME NEW m \in Inner PROVE Routes(l, r, h, m)'
  <2>1. CASE m = n
    BY <1>23, <2>1
  <2>2. CASE m # n
    <3>1. m \in Nodes /\ Routes(l, r, h, m) /\ SameInner(m) /\ Nodes \subseteq Nodes'
      BY <1>3, <1>16, <1>17, <1>18, <2>2 DEF NodeOrder
    <3> QED BY <3>1, RoutesKept
  <2> QED BY <2>1, <2>2
<1>25. \A m \in Nodes : Leftmost(l, m)'
  <2>1. nodes'[right].parent # NULL /\ right = frame[t].right
    BY <1>1, <1>4, <1>11, <1>16
  <2> QED BY <1>3, <1>16, <2>1, LeftmostKept DEF NodeOrder
<1>26. NodeOrder(l, r, h)'
  BY <1>2, <1>3, <1>16, <1>21, <1>24, <1>25 DEF NodeOrder
<1>27. WayOrder(l, r, t)'
  BY <1>2, <1>3, <1>15, PlainWay DEF WayOrder, DeleteHeld
<1>28. SplitOrder(l, r, h, t)'
  <2>1. /\ pc'[t] = "node_count" /\ frame'[t].parent # NULL
        /\ nodes'[frame'[t].right].parent # NULL
    <3>1. frame'[t].right = right /\ frame'[t].parent = n
      BY <1>1, <1>15
    <3>2. nodes'[right].parent = nodes[right].parent
      BY <1>4, <1>16
    <3> QED BY <1>2, <1>11, <1>15, <3>1, <3>2
  <2> QED BY <2>1 DEF SplitOrder, HoldsParent, HoldsRight, SplitLabels
<1> QED BY <1>16, <1>20, <1>26, <1>27, <1>28, Assembled DEF ThreadOrder

-------------------------------------------------------------------------------
(* An inner node that is split *)

\* A run of children, with the keys between them.
Part(k, p, c, keys, pointers, num, a, least, least2) ==
    /\ num \in Nat /\ a \in 0 .. num /\ c \in 0 .. num - a
    /\ Copied(k, c, keys, a) /\ Copied(p, c + 1, pointers, a)
    /\ least2 = IF a = 0 THEN least ELSE keys[a - 1]

Extends(l, r, h, N, l2, r2, h2, N2) ==
    /\ N \subseteq N2
    /\ \A m \in N : l2[m] = l[m] /\ h2[m] = h[m] /\ r2[m] = r[m]

LEMMA PartGuides ==
    ASSUME NEW l, NEW r, NEW h, NEW N, NEW l2, NEW r2, NEW h2, NEW N2,
           Extends(l, r, h, N, l2, r2, h2, N2),
           NEW k, NEW p, NEW c, NEW keys, NEW pointers, NEW num, NEW a, NEW least, NEW least2,
           Part(k, p, c, keys, pointers, num, a, least, least2),
           NEW height, Guides(l, r, h, N, keys, pointers, num, least, height)
    PROVE  Guides(l2, r2, h2, N2, k, p, c, least2, height)
<1>0. /\ num \in Nat /\ a \in 0 .. num /\ c \in 0 .. num - a
      /\ Copied(k, c, keys, a) /\ Copied(p, c + 1, pointers, a)
      /\ least2 = IF a = 0 THEN least ELSE keys[a - 1]
  BY DEF Part
<1> SUFFICES ASSUME NEW j \in 0 .. c
             PROVE  ChildFits(l2, r2, h2, N2, p[j], IF j = 0 THEN least2 ELSE k[j - 1], height)
  BY DEF Guides
<1>1. PICK i \in 0 .. num : i = a + j
  BY <1>0
<1>2. /\ j \in 0 .. c + 1 - 1 /\ i \in Int /\ a \in Int /\ j \in Int
      /\ j # 0 => j - 1 \in 0 .. c - 1 /\ i # 0
      /\ j = 0 => i = a
  BY <1>0, <1>1
<1>3. PICK v, w, child : /\ v = IF i = 0 THEN least ELSE keys[i - 1]
                         /\ w = IF j = 0 THEN least2 ELSE k[j - 1]
                         /\ child = p[j]
  OBVIOUS
<1>4. child = pointers[i]
  BY <1>0, <1>1, <1>2, <1>3 DEF Copied
<1>5. v = w
  <2>1. CASE j = 0
    BY <1>0, <1>2, <1>3, <2>1
  <2>2. CASE j # 0
    <3>1. k[j - 1] = keys[a + (j - 1)]
      BY <1>0, <1>2, <2>2 DEF Copied
    <3>2. a + (j - 1) = i - 1
      BY ONLY <1>1, <1>2
    <3> QED BY <1>2, <1>3, <2>2, <3>1, <3>2
  <2> QED BY <2>1, <2>2
<1>6. ChildFits(l, r, h, N, pointers[i], IF i = 0 THEN least ELSE keys[i - 1], height)
  BY ONLY Guides(l, r, h, N, keys, pointers, num, least, height), i \in 0 .. num DEF Guides
<1>7. ChildFits(l, r, h, N, child, v, height)
  BY ONLY <1>3, <1>4, <1>6
<1>8. ChildFits(l2, r2, h2, N2, child, w, height)
  BY ONLY <1>5, <1>7, Extends(l, r, h, N, l2, r2, h2, N2) DEF ChildFits, Extends
<1> QED BY ONLY <1>3, <1>8

LEMMA SliceCopied ==
    ASSUME NEW g, NEW last \in Nat, NEW a \in 0 .. last, NEW c \in a .. last,
           \A j \in 0 .. last - 1 : g[j] \in Int
    PROVE  /\ DOMAIN Slice(g, a, c) = 0 .. c - a - 1
           /\ \A j \in DOMAIN Slice(g, a, c) : Slice(g, a, c)[j] \in Int
           /\ Copied(Slice(g, a, c), c - a, g, a)
<1>1. \A j \in 0 .. c - a - 1 : a + j \in 0 .. last - 1
  OBVIOUS
<1>2. DOMAIN Slice(g, a, c) = 0 .. c - a - 1
      /\ \A j \in 0 .. c - a - 1 : Slice(g, a, c)[j] = g[a + j]
  BY DEF Slice
<1> QED BY <1>1, <1>2 DEF Copied

\* y is node with num keys, and the children around them, from position a on.
HalfNode(y, node, num, tk, tp, a) ==
    /\ NodeLooks(y, node, node.num_keys)
    /\ Copied(y.keys, num, tk, a) /\ Copied(y.pointers, num + 1, tp, a)

LEMMA HalfNodeWritten ==
    ASSUME NEW node \in NodeType, NEW tk, NEW tp,
           \A j \in 0 .. Order - 1 : tk[j] \in Int, \A j \in 0 .. Order : tp[j] \in Int,
           NEW a \in 0 .. Order, NEW c \in a .. Order, NEW num, num = c - a, num < Order,
           NEW y, y = Written(node, Slice(tk, a, c), Slice(tp, a, c + 1))
    PROVE  HalfNode(y, node, num, tk, tp, a)
<1>1. PICK k, p : k = Slice(tk, a, c) /\ p = Slice(tp, a, c + 1)
  OBVIOUS
<1>2. /\ DOMAIN Slice(tk, a, c) = 0 .. c - a - 1
      /\ \A j \in DOMAIN Slice(tk, a, c) : Slice(tk, a, c)[j] \in Int
      /\ Copied(Slice(tk, a, c), c - a, tk, a)
  BY SliceEntries
<1>3. /\ DOMAIN Slice(tp, a, c + 1) = 0 .. c + 1 - a - 1
      /\ \A j \in DOMAIN Slice(tp, a, c + 1) : Slice(tp, a, c + 1)[j] \in Int
      /\ Copied(Slice(tp, a, c + 1), c + 1 - a, tp, a)
  <2>1. PICK last, d : last = Order + 1 /\ d = c + 1
    OBVIOUS
  <2>2. last \in Nat /\ a \in 0 .. last /\ d \in a .. last /\ last - 1 = Order
    BY ONLY a \in 0 .. Order, c \in a .. Order, <2>1, OrderAssumption
  <2>3. \A j \in 0 .. Order : tp[j] \in Int
    OBVIOUS
  <2>4. \A j \in 0 .. last - 1 : tp[j] \in Int
    BY ONLY <2>2, <2>3
  <2>5. /\ DOMAIN Slice(tp, a, d) = 0 .. d - a - 1
        /\ \A j \in DOMAIN Slice(tp, a, d) : Slice(tp, a, d)[j] \in Int
        /\ Copied(Slice(tp, a, d), d - a, tp, a)
    BY ONLY <2>2, <2>4, SliceCopied
  <2> QED BY <2>1, <2>5
<1>4. /\ DOMAIN k = 0 .. num - 1 /\ DOMAIN p = 0 .. num
      /\ (\A j \in DOMAIN k : k[j] \in Int) /\ (\A j \in DOMAIN p : p[j] \in Int)
      /\ Copied(k, num, tk, a) /\ Copied(p, num + 1, tp, a)
  <2>1. c + 1 - a = num + 1 /\ num + 1 - 1 = num
    BY ONLY a \in 0 .. Order, c \in a .. Order, num = c - a, OrderAssumption
  <2> QED BY <1>1, <1>2, <1>3, <2>1
<1>5. y = Written(node, k, p)
  BY <1>1
<1>6. /\ y \in NodeType /\ y.is_leaf = node.is_leaf /\ y.parent = node.parent
      /\ y.num_keys = node.num_keys
      /\ \A j \in Slots : y.keys[j] = IF j \in DOMAIN k THEN k[j] ELSE node.keys[j]
      /\ \A j \in Slots :
            y.pointers[j] = IF j \in DOMAIN p THEN p[j] ELSE node.pointers[j]
  <2>1. (\A j \in DOMAIN k : k[j] \in Int) /\ \A j \in DOMAIN p : p[j] \in Int
    BY <1>4
  <2>2. node \in NodeType
    OBVIOUS
  <2> QED BY ONLY <2>1, <2>2, <1>5, WrittenFields, SMTT(60)
<1>7. /\ \A j \in 0 .. num - 1 : j \in Slots
      /\ \A j \in 0 .. num + 1 - 1 : j \in Slots /\ j \in 0 .. num
  BY ONLY a \in 0 .. Order, c \in a .. Order, num = c - a, num < Order, OrderAssumption DEF Slots
<1>8. NodeLooks(y, node, node.num_keys)
  BY <1>6 DEF NodeLooks
<1>9. Copied(y.keys, num, tk, a)
  <2>1. \A j \in 0 .. num - 1 : y.keys[j] = k[j]
    BY <1>4, <1>6, <1>7
  <2> QED BY <1>4, <2>1 DEF Copied
<1>10. Copied(y.pointers, num + 1, tp, a)
  <2>1. \A j \in 0 .. num + 1 - 1 : y.pointers[j] = p[j]
    BY <1>4, <1>6, <1>7
  <2> QED BY <1>4, <2>1 DEF Copied
<1> QED BY <1>8, <1>9, <1>10 DEF HalfNode

\* The nodes in which only n is rewritten, and some others are given the new parent.
Adopted(half, n, y, new, M) ==
    /\ half \in Seq(NodeType) /\ DOMAIN half = Nodes /\ half[n] = y
    /\ \A m \in Nodes \ {n} :
          /\ half[m].is_leaf = nodes[m].is_leaf /\ half[m].num_keys = nodes[m].num_keys
          /\ half[m].keys = nodes[m].keys /\ half[m].pointers = nodes[m].pointers
          /\ half[m].parent = IF m \in M THEN new ELSE nodes[m].parent

LEMMA Adopting ==
    ASSUME NodesOK, NEW n \in Nodes, NEW y \in NodeType, NEW new \in Int, NEW M,
           NEW half, half = [c \in DOMAIN nodes |->
                                IF c = n THEN y
                                ELSE IF c \in M THEN [nodes[c] EXCEPT !.parent = new]
                                ELSE nodes[c]]
    PROVE  Adopted(half, n, y, new, M)
<1> DEFINE moved(m) == [nodes[m] EXCEPT !.parent = new]
<1>1. ASSUME NEW m \in Nodes
      PROVE  /\ moved(m) \in NodeType /\ moved(m).is_leaf = nodes[m].is_leaf
             /\ moved(m).num_keys = nodes[m].num_keys /\ moved(m).keys = nodes[m].keys
             /\ moved(m).pointers = nodes[m].pointers /\ moved(m).parent = new
  <2>1. nodes[m] \in NodeType
    BY NodeFields
  <2> QED BY <2>1 DEF NodeType
<1>2. \A m \in Nodes : half[m] = IF m = n THEN y ELSE IF m \in M THEN moved(m) ELSE nodes[m]
  BY DEF Nodes
<1>3. DOMAIN half = Nodes
  BY DEF Nodes
<1> HIDE DEF moved
<1>4. \A m \in Nodes : half[m] \in NodeType
  <2>1. \A m \in Nodes : nodes[m] \in NodeType
    BY NodeFields
  <2> QED BY ONLY y \in NodeType, <1>1, <1>2, <2>1
<1>5. half \in Seq(NodeType)
  <2>1. Nodes = 1 .. Len(nodes) /\ Len(nodes) \in Nat
    BY DEF NodesOK, Nodes
  <2>2. half = [m \in Nodes |-> half[m]]
    BY DEF Nodes
  <2> QED BY ONLY <1>4, <2>1, <2>2
<1>6. half[n] = y
  BY <1>2
<1>7. ASSUME NEW m \in Nodes \ {n}
      PROVE  /\ half[m].is_leaf = nodes[m].is_leaf /\ half[m].num_keys = nodes[m].num_keys
             /\ half[m].keys = nodes[m].keys /\ half[m].pointers = nodes[m].pointers
             /\ half[m].parent = IF m \in M THEN new ELSE nodes[m].parent
  <2>1. CASE m \in M
    <3>1. half[m] = moved(m)
      BY <1>2, <2>1
    <3> QED BY <1>1, <2>1, <3>1
  <2>2. CASE m \notin M
    <3>1. half[m] = nodes[m]
      BY <1>2, <2>2
    <3> QED BY <2>2, <3>1
  <2> QED BY <2>1, <2>2
<1> QED BY <1>3, <1>5, <1>6, <1>7 DEF Adopted

\* What the split writes: y is the old node, x the new one, and tk, tp are the keys and
\* the children of both.
NodeSplitInto(x, y, tk, tp, c, node, num, i, key, right) ==
    /\ num = Order - 1
    /\ \A j \in 0 .. num : tk[j] = Spliced(node.keys, i, num, key)[j]
    /\ \A j \in 0 .. num + 1 : tp[j] = Spliced(node.pointers, i + 1, num + 1, right)[j]
    /\ \A j \in 0 .. num : tk[j] \in Int
    /\ y \in NodeType /\ y.is_leaf = node.is_leaf /\ y.parent = node.parent
    /\ y.num_keys = c - 1 /\ Copied(y.keys, c - 1, tk, 0) /\ Copied(y.pointers, c, tp, 0)
    /\ x \in NodeType /\ x.is_leaf = FALSE /\ x.parent = node.parent
    /\ x.num_keys = Order - c
    /\ Copied(x.keys, Order - c, tk, c) /\ Copied(x.pointers, Order - c + 1, tp, c)

SplitLocals(t, q, f, c, node, i, key, right) ==
    /\ q = frame[t].left /\ f = frame[t] /\ c = cut(Order) /\ node = nodes[q]
    /\ i = f.index /\ key = f.key /\ right = f.right

SplitWrites(t, q, f, c, node, i, key, right) ==
    \E new, x, y, tk, tp, half, num :
        /\ nodes' = Append(half, x) /\ new = Len(nodes) + 1
        /\ Adopted(half, q, y, new, Moved(Slice(tp, c, Order + 1)))
        /\ Goto(t, "into_parent", [f EXCEPT !.right = new, !.key = tk[c - 1]])
        /\ NodeSplitInto(x, y, tk, tp, c, node, num, i, key, right)

LEMMA NodeSplitNodes ==
    ASSUME BInv, NEW t \in Threads, NodeSplit(t),
           NEW q, NEW f, NEW c, NEW node, NEW i, NEW key, NEW right,
           SplitLocals(t, q, f, c, node, i, key, right)
    PROVE  SplitWrites(t, q, f, c, node, i, key, right)
<1> USE DEF SplitLocals
<1>1. PICK tk, tp, new :
        /\ tk = Spliced(node.keys, i, Order - 1, key)
        /\ tp = Spliced(node.pointers, i + 1, Order, right)
        /\ new = Len(nodes) + 1
  OBVIOUS
<1>2. PICK y, x :
        /\ y = Written([node EXCEPT !.num_keys = c - 1],
                       Slice(tk, 0, c - 1), Slice(tp, 0, c))
        /\ x = Written([MakeNode(FALSE, NULL) EXCEPT
                           !.num_keys = Order - c, !.parent = node.parent],
                       Slice(tk, c, Order), Slice(tp, c, Order + 1))
  OBVIOUS
<1>3. PICK M, half :
        /\ M = Moved(Slice(tp, c, Order + 1))
        /\ half = [m \in DOMAIN nodes |->
                      IF m = q THEN y
                      ELSE IF m \in M THEN [nodes[m] EXCEPT !.parent = new]
                      ELSE nodes[m]]
  OBVIOUS
<1>4. /\ pc[t] = "node_split" /\ nodes' = Append(half, x)
      /\ Goto(t, "into_parent", [f EXCEPT !.right = new, !.key = tk[c - 1]])
  BY <1>1, <1>2, <1>3 DEF NodeSplit, At
<1>5. NodesOK /\ FrameOK(t) /\ RoomOK(t) /\ frame[t] \in FrameType
  BY ThreadFacts
<1>6. /\ q \in Nodes /\ i \in Slots /\ right \in Nodes /\ key \in Int
      /\ \A j \in Slots : node.pointers[j] \in Nodes
  BY <1>4, <1>5 DEF FrameOK, RoomOK, SplitLabels, FrameType, Inner
<1>7. /\ node \in NodeType /\ right \in Int /\ new \in Int /\ node.parent \in Int
      /\ node.pointers \in [Slots -> Int] /\ node.keys \in [Slots -> Int]
  BY <1>1, <1>5, <1>6, NodeFields DEF NodesOK, Nodes
<1>8. /\ c \in 1 .. Order /\ c - 1 \in 0 .. Order - 1 /\ Order - c \in 0 .. Order - 1
      /\ 0 \in 0 .. Order /\ c - 1 \in 0 .. Order /\ c \in 0 .. Order /\ Order \in c .. Order
      /\ c - 1 - 0 = c - 1 /\ c - 1 < Order /\ Order - c < Order /\ c - 1 + 1 = c
      /\ i \in 0 .. Order - 1 /\ i + 1 \in 0 .. Order /\ Order - 1 \in Slots
      /\ Order - 1 + 1 = Order
  <2>1. c \in 1 .. Order
    BY CutBounds
  <2> QED BY ONLY <1>6, <2>1, OrderAssumption DEF Slots
<1>9. \A j \in 0 .. Order - 1 : tk[j] \in Int
  <2>1. PICK g : g = node.keys
    OBVIOUS
  <2>2. g \in [Slots -> Int] /\ tk = Spliced(g, i, Order - 1, key)
    BY <1>1, <1>7, <2>1
  <2> QED BY ONLY <1>6, <1>8, <2>2, SplicedEntries
<1>10. \A j \in 0 .. Order : tp[j] \in Int
  <2>1. PICK p : p = node.pointers
    OBVIOUS
  <2>2. p \in [Slots -> Int] /\ tp = Spliced(p, i + 1, Order, right)
    BY <1>1, <1>7, <2>1
  <2>3. \A j \in 0 .. Order : tp[j] = IF j < i + 1 THEN p[j]
                                      ELSE IF j = i + 1 THEN right ELSE p[j - 1]
    BY ONLY <2>2 DEF Spliced
  <2> SUFFICES ASSUME NEW j \in 0 .. Order PROVE tp[j] \in Int
    OBVIOUS
  <2>4. CASE j < i + 1
    <3>1. j \in Slots
      BY ONLY <1>8, <2>4, OrderAssumption DEF Slots
    <3> QED BY ONLY <2>2, <2>3, <2>4, <3>1
  <2>5. CASE j = i + 1
    BY ONLY <1>7, <1>8, <2>3, <2>5
  <2>6. CASE j > i + 1
    <3>1. j - 1 \in Slots
      BY ONLY <1>8, <2>6, OrderAssumption DEF Slots
    <3>2. tp[j] = p[j - 1]
      BY ONLY <1>8, <2>3, <2>6
    <3> QED BY ONLY <2>2, <3>1, <3>2
  <2> QED BY ONLY <1>8, <2>4, <2>5, <2>6
<1>11. PICK cropped : cropped = [node EXCEPT !.num_keys = c - 1]
  OBVIOUS
<1>12. /\ cropped \in NodeType /\ cropped.num_keys = c - 1 /\ cropped.is_leaf = node.is_leaf
       /\ cropped.parent = node.parent
  BY ONLY <1>7, <1>8, <1>11, Renumbered
<1>13. PICK base : base = [MakeNode(FALSE, NULL) EXCEPT
                              !.num_keys = Order - c, !.parent = node.parent]
  OBVIOUS
<1>14. /\ base \in NodeType /\ base.num_keys = Order - c /\ base.is_leaf = FALSE
       /\ base.parent = node.parent
  <2>1. PICK made, num, parent : made = MakeNode(FALSE, NULL) /\ num = Order - c
                                 /\ parent = node.parent
    OBVIOUS
  <2>2. made \in NodeType /\ made.is_leaf = FALSE
    BY <2>1, MakeInnerOK
  <2>3. base = [made EXCEPT !.num_keys = num, !.parent = parent]
    BY <1>13, <2>1
  <2>4. num \in 0 .. Order - 1 /\ parent \in Int
    BY <1>7, <1>8, <2>1
  <2>5. /\ base \in NodeType /\ base.num_keys = num /\ base.is_leaf = FALSE
        /\ base.parent = parent
    BY ONLY <2>2, <2>3, <2>4 DEF NodeType
  <2> QED BY <2>1, <2>5
<1>15. HalfNode(y, cropped, c - 1, tk, tp, 0)
  <2>1. PICK b : b = c - 1
    OBVIOUS
  <2>2. y = Written(cropped, Slice(tk, 0, b), Slice(tp, 0, b + 1))
    BY <1>2, <1>8, <1>11, <2>1
  <2>3. b \in 0 .. Order /\ b = b - 0 /\ b < Order /\ 0 \in 0 .. Order
    BY <1>8, <2>1
  <2>4. cropped \in NodeType
    BY <1>12
  <2>5. HalfNode(y, cropped, b, tk, tp, 0)
    BY ONLY <1>9, <1>10, <2>2, <2>3, <2>4, HalfNodeWritten
  <2> QED BY <2>1, <2>5
<1>16. HalfNode(x, base, Order - c, tk, tp, c)
  <2>1. x = Written(base, Slice(tk, c, Order), Slice(tp, c, Order + 1))
    BY <1>2, <1>13
  <2>2. c \in 0 .. Order /\ Order \in c .. Order /\ Order - c < Order
    BY <1>8
  <2>3. base \in NodeType
    BY <1>14
  <2> QED BY ONLY <1>9, <1>10, <2>1, <2>2, <2>3, HalfNodeWritten
<1>17. /\ y \in NodeType /\ y.is_leaf = node.is_leaf /\ y.parent = node.parent
       /\ y.num_keys = c - 1 /\ Copied(y.keys, c - 1, tk, 0) /\ Copied(y.pointers, c, tp, 0)
  BY <1>8, <1>12, <1>15 DEF HalfNode, NodeLooks
<1>18. /\ x \in NodeType /\ x.is_leaf = FALSE /\ x.parent = node.parent
       /\ x.num_keys = Order - c
       /\ Copied(x.keys, Order - c, tk, c) /\ Copied(x.pointers, Order - c + 1, tp, c)
  BY <1>14, <1>16 DEF HalfNode, NodeLooks
<1>19. Adopted(half, q, y, new, Moved(Slice(tp, c, Order + 1)))
  <2>1. Adopted(half, q, y, new, M)
    BY <1>3, <1>5, <1>6, <1>7, <1>17, Adopting
  <2> QED BY <1>3, <2>1
<1>20. PICK num : num = Order - 1
  OBVIOUS
<1>21. NodeSplitInto(x, y, tk, tp, c, node, num, i, key, right)
  <2>1. num + 1 = Order
    BY <1>8, <1>20
  <2>2. /\ tk = Spliced(node.keys, i, num, key)
        /\ tp = Spliced(node.pointers, i + 1, num + 1, right)
    BY <1>1, <1>20, <2>1
  <2>3. \A j \in 0 .. num : tk[j] \in Int
    BY <1>9, <1>20
  <2> QED BY <1>17, <1>18, <1>20, <2>2, <2>3 DEF NodeSplitInto
<1> QED BY <1>1, <1>4, <1>19, <1>21 DEF SplitWrites

LEMMA NodeSplitOrder ==
    ASSUME BInv, BInv', NEW t \in Threads, NodeSplit(t), NEW l, NEW r, NEW h, Ordered(l, r, h)
    PROVE  OInv'
<1>1. PICK q, f, c, node, i, key, right :
        /\ q = frame[t].left /\ f = frame[t] /\ c = cut(Order) /\ node = nodes[q]
        /\ i = f.index /\ key = f.key /\ right = f.right
  OBVIOUS
<1>2. PICK new, x, y, tk, tp, half, num :
        /\ nodes' = Append(half, x) /\ new = Len(nodes) + 1
        /\ Adopted(half, q, y, new, Moved(Slice(tp, c, Order + 1)))
        /\ Goto(t, "into_parent", [f EXCEPT !.right = new, !.key = tk[c - 1]])
        /\ NodeSplitInto(x, y, tk, tp, c, node, num, i, key, right)
  <2>1. SplitLocals(t, q, f, c, node, i, key, right)
    BY <1>1 DEF SplitLocals
  <2>2. SplitWrites(t, q, f, c, node, i, key, right)
    BY ONLY BInv, t \in Threads, NodeSplit(t), <2>1, NodeSplitNodes, SMTT(60)
  <2> QED BY <2>2 DEF SplitWrites
<1>3. pc[t] = "node_split" /\ lock' = Append(lock, t) /\ UNCHANGED <<root, call>>
  BY DEF NodeSplit, At
<1>4. /\ NodesOK /\ FrameOK(t) /\ LockOK(t) /\ RoomOK(t) /\ frame[t] \in FrameType
      /\ WayOrder(l, r, t) /\ SplitOrder(l, r, h, t) /\ Ghosts(l, r, h)
      /\ NodeOrder(l, r, h)
      /\ \A m \in Nodes : m \in Nat /\ l[m] \in Int /\ r[m] \in Int /\ h[m] \in Nat
  BY ThreadFacts, OrderFacts
<1>5. q \in Inner /\ q \in Nodes /\ q \notin Leaves /\ right \in Nodes
  BY <1>1, <1>3, <1>4 DEF FrameOK, SplitLabels, Leaves, Inner
<1>6. lock[q] = t
  BY <1>1, <1>3, <1>4, <1>5 DEF LockOK, Holds, HoldsLeft
<1>7. Count(q) = Order - 1
  <2>1. Count(q) = Pending(pc[t], frame[t], q, nodes[q].num_keys)
    BY <1>5, <1>6, HeldBy
  <2> QED BY <1>1, <1>3, <2>1 DEF Pending
<1>8. /\ num = Order - 1
      /\ \A j \in 0 .. num : tk[j] = Spliced(node.keys, i, num, key)[j]
      /\ \A j \in 0 .. num + 1 : tp[j] = Spliced(node.pointers, i + 1, num + 1, right)[j]
      /\ \A j \in 0 .. num : tk[j] \in Int
      /\ y \in NodeType /\ y.is_leaf = node.is_leaf /\ y.parent = node.parent
      /\ y.num_keys = c - 1 /\ Copied(y.keys, c - 1, tk, 0) /\ Copied(y.pointers, c, tp, 0)
      /\ x \in NodeType /\ x.is_leaf = FALSE /\ x.parent = node.parent
      /\ x.num_keys = Order - c
      /\ Copied(x.keys, Order - c, tk, c) /\ Copied(x.pointers, Order - c + 1, tp, c)
  BY <1>2 DEF NodeSplitInto
<1>9. /\ num \in Nat /\ num + 1 = Order /\ i \in 0 .. num /\ c \in 1 .. Order
      /\ Order \in Nat /\ c - 1 \in 0 .. num /\ c \in 0 .. Order /\ 0 \in 0 .. Order
      /\ c - 1 \in 0 .. Order - 0 /\ c - 1 + 1 = c /\ Order - c \in 0 .. Order - c
  <2>1. c \in 1 .. Order
    BY <1>1, CutBounds
  <2>2. i \in Slots
    BY <1>1, <1>3, <1>4 DEF RoomOK, SplitLabels
  <2>3. num = Order - 1
    BY <1>8
  <2> QED BY ONLY <2>1, <2>2, <2>3, OrderAssumption DEF Slots
<1>10. /\ h[q] > 0 /\ r[q] >= 0
       /\ Guides(l, r, h, Nodes, node.keys, node.pointers, num, l[q], h[q])
  BY <1>1, <1>4, <1>5, <1>7, <1>8, RoutesGuide DEF NodeOrder
<1>11. ChildFits(l, r, h, Nodes, right, key, h[q])
  <2>1. r[right] >= 0 /\ l[right] <= key /\ h[q] = h[right] + 1
    BY <1>1, <1>3, <1>4 DEF SplitOrder, SplitLabels
  <2> QED BY <1>5, <2>1 DEF ChildFits
<1>12. Guides(l, r, h, Nodes, tk, tp, Order, l[q], h[q])
  <2>1. Guides(l, r, h, Nodes, node.keys, node.pointers, num, l[q], h[q])
    BY <1>10
  <2>2. /\ \A j \in 0 .. num : tk[j] = Spliced(node.keys, i, num, key)[j]
        /\ \A j \in 0 .. num + 1 : tp[j] = Spliced(node.pointers, i + 1, num + 1, right)[j]
    BY <1>8
  <2>3. num \in Nat /\ i \in 0 .. num
    BY <1>9
  <2>4. Guides(l, r, h, Nodes, tk, tp, num + 1, l[q], h[q])
    BY ONLY <1>11, <2>1, <2>2, <2>3, SplicedGuides
  <2> QED BY <1>9, <2>4
<1>13. /\ half \in Seq(NodeType) /\ DOMAIN half = Nodes /\ half[q] = y
       /\ \A m \in Nodes \ {q} :
             /\ half[m].is_leaf = nodes[m].is_leaf /\ half[m].num_keys = nodes[m].num_keys
             /\ half[m].keys = nodes[m].keys /\ half[m].pointers = nodes[m].pointers
             /\ half[m].parent \in {new, nodes[m].parent}
  BY <1>2 DEF Adopted
<1>14. /\ new \in Int \ Nodes /\ Nodes' = Nodes \cup {new}
       /\ nodes'[new] = x /\ \A m \in Nodes : nodes'[m] = half[m]
       /\ \A m \in Nodes : /\ m \in Leaves' <=> m \in Leaves
                           /\ m \in Inner' <=> m \in Inner
       /\ new \notin Leaves' /\ new \in Inner'
  <2>1. \A m \in Nodes : half[m].is_leaf = nodes[m].is_leaf
    BY <1>1, <1>8, <1>13
  <2>2. /\ Len(nodes) + 1 \in Int \ Nodes /\ Nodes' = Nodes \cup {Len(nodes) + 1}
        /\ nodes'[Len(nodes) + 1] = x /\ \A m \in Nodes : nodes'[m] = half[m]
        /\ \A m \in Nodes : /\ m \in Leaves' <=> m \in Leaves
                            /\ m \in Inner' <=> m \in Inner
        /\ Len(nodes) + 1 \in Leaves' <=> x.is_leaf
        /\ Len(nodes) + 1 \in Inner' <=> ~x.is_leaf
    BY <1>2, <1>4, <1>8, <1>13, <2>1, Grown, Zenon
  <2> QED BY <1>2, <1>8, <2>2
<1>15. Leaves' = Leaves /\ Inner' = Inner \cup {new}
  <2>1. (\A m \in Leaves' : m \in Nodes') /\ (\A m \in Leaves : m \in Nodes)
    BY DEF Leaves
  <2>2. (\A m \in Inner' : m \in Nodes') /\ (\A m \in Inner : m \in Nodes)
    BY DEF Inner
  <2> QED BY <1>14, <2>1, <2>2
<1>16. lock'[new] = t /\ \A m \in Nodes : lock'[m] = lock[m]
  <2>1. lock' = Append(lock, t) /\ Nodes' = Nodes \cup {Len(nodes) + 1}
    BY <1>2, <1>3, <1>14
  <2> QED BY <1>2, <1>4, <2>1, GrownLocks DEF NodesOK
<1>17. new \in Nat /\ new \in Nodes' /\ new # q /\ new # NULL /\ q \in Nodes'
  <2>1. Len(nodes) + 1 \in Nat /\ Len(nodes) + 1 # 0
    BY <1>4, LenProperties DEF NodesOK
  <2> QED BY <1>2, <1>5, <1>14, <2>1 DEF NULL
<1>18. /\ Alone(t) /\ pc'[t] = "into_parent"
       /\ frame'[t] = [frame[t] EXCEPT !.right = new, !.key = tk[c - 1]]
  <2>1. Goto(t, "into_parent", [frame[t] EXCEPT !.right = new, !.key = tk[c - 1]])
    BY <1>1, <1>2
  <2>2. PICK g : g = [frame[t] EXCEPT !.right = new, !.key = tk[c - 1]]
    OBVIOUS
  <2>3. Goto(t, "into_parent", g)
    BY <2>1, <2>2
  <2> QED BY <1>3, <2>2, <2>3, GotoAlone
<1>19. /\ frame'[t].left = q /\ frame'[t].root = frame[t].root /\ frame'[t].right = new
       /\ frame'[t].key = tk[c - 1] /\ frame'[t].parent = frame[t].parent
  BY <1>1, <1>4, <1>18 DEF FrameType
<1>20. nodes'[q] = y
       /\ \A m \in Nodes \ {q} :
             /\ nodes'[m].num_keys = nodes[m].num_keys
             /\ nodes'[m].keys = nodes[m].keys /\ nodes'[m].pointers = nodes[m].pointers
             /\ nodes'[m].parent \in {new, nodes[m].parent}
  BY <1>5, <1>13, <1>14
<1>21. Steady(t)
  <2>1. \A m \in Nodes : nodes[m].parent # NULL => nodes'[m].parent # NULL
    <3>1. nodes'[q].parent = nodes[q].parent
      BY <1>1, <1>8, <1>20
    <3> QED BY <1>17, <1>20, <3>1
  <2>2. \A m \in Nodes : lock[m] # t => m # q
    BY <1>6
  <2> QED BY <1>14, <1>18, <1>20, <2>1, <2>2 DEF Steady
<1>22. ASSUME NEW m \in Nodes \ {q}
       PROVE  (m \in Leaves => SameLeaf(m)) /\ SameInner(m)
  <2>1. CASE lock[m] # t
    <3>1. lock'[m] # t
      BY <1>16, <2>1
    <3> QED BY <1>21, <2>1, <3>1, OutsideSame
  <2>2. CASE lock[m] = t
    <3>1. lock'[m] = t /\ m \in Nodes' /\ lock'[m] # NoThread
      BY <1>14, <1>16, <2>2, MenuAssumption
    <3>2. /\ nodes'[m].keys = nodes[m].keys /\ nodes'[m].pointers = nodes[m].pointers
          /\ nodes'[m].num_keys = nodes[m].num_keys
      BY <1>20
    <3>3. Pending(pc'[t], frame'[t], m, nodes'[m].num_keys)
            = Pending(pc[t], frame[t], m, nodes[m].num_keys)
      <4>1. Pending(pc[t], frame[t], m, nodes[m].num_keys) = nodes[m].num_keys
        BY <1>1, <1>3 DEF Pending
      <4>2. Pending(pc'[t], frame'[t], m, nodes'[m].num_keys) = nodes'[m].num_keys
        BY <1>18 DEF Pending
      <4> QED BY <3>2, <4>1, <4>2
    <3>4. pc[t] # "leaf_link" /\ pc'[t] # "leaf_link"
      BY <1>3, <1>18
    <3> QED BY <2>2, <3>1, <3>2, <3>3, <3>4, HeldSame DEF NextLeaf
  <2> QED BY <2>1, <2>2
<1>23. PICK l2, r2, h2 : /\ l2 = [l EXCEPT ![new] = tk[c - 1]] /\ r2 = [r EXCEPT ![new] = 0]
                         /\ h2 = [h EXCEPT ![new] = h[q]]
  OBVIOUS
<1>24. /\ Ghosts(l2, r2, h2)
       /\ l2[new] = tk[c - 1] /\ r2[new] = 0 /\ h2[new] = h[q]
       /\ \A m \in Nodes : l2[m] = l[m] /\ r2[m] = r[m] /\ h2[m] = h[m]
  <2>1. \A m \in Nodes : m \in Nat /\ m # new
    BY <1>4, <1>14
  <2>2. tk[c - 1] \in Int /\ h[q] \in Nat
    BY <1>4, <1>5, <1>8, <1>9
  <2> QED BY <1>4, <1>17, <1>23, <2>1, <2>2 DEF Ghosts
<1>25. /\ Count(q)' = c - 1 /\ Count(new)' = Order - c /\ IsRight(new)'
  <2>1. /\ lock'[q] = t /\ q \in Nodes' /\ lock'[new] = t /\ new \in Nodes'
        /\ pc'[t] = "into_parent" /\ nodes'[q].num_keys = c - 1
        /\ nodes'[new].num_keys = Order - c /\ frame'[t].right = new
    BY <1>6, <1>5, <1>8, <1>14, <1>16, <1>17, <1>18, <1>19, <1>20
  <2>2. Count(q)' = Pending(pc'[t], frame'[t], q, nodes'[q].num_keys)
    BY ONLY BInv', t \in Threads, <2>1, HeldByNext
  <2>3. /\ Count(new)' = Pending(pc'[t], frame'[t], new, nodes'[new].num_keys)
        /\ IsRight(new)' <=> pc'[t] \in HoldsRight /\ new = frame'[t].right
    BY ONLY BInv', t \in Threads, <2>1, HeldByNext
  <2> QED BY <2>1, <2>2, <2>3 DEF Pending, HoldsRight
<1>26. Extends(l, r, h, Nodes, l2, r2, h2, Nodes') /\ Nodes \subseteq Nodes'
  BY <1>14, <1>24 DEF Extends
<1>27. Routes(l2, r2, h2, q)'
  <2>1. Copied(y.keys, c - 1, tk, 0) /\ Copied(y.pointers, c - 1 + 1, tp, 0)
    BY <1>8, <1>9
  <2>2. PICK k, p, b, a, least, height :
          /\ k = y.keys /\ p = y.pointers /\ b = c - 1 /\ a = 0
          /\ least = l[q] /\ height = h[q]
    OBVIOUS
  <2>3. Copied(k, b, tk, a) /\ Copied(p, b + 1, tp, a) /\ b \in 0 .. Order - a
    BY <1>9, <2>1, <2>2
  <2>4. least = IF a = 0 THEN least ELSE tk[a - 1]
    BY <2>2
  <2>5. Order \in Nat /\ a \in 0 .. Order /\ Guides(l, r, h, Nodes, tk, tp, Order, least, height)
    BY <1>9, <1>12, <2>2
  <2>6. Part(k, p, b, tk, tp, Order, a, least, least)
    BY <2>3, <2>4, <2>5 DEF Part
  <2>7. Guides(l2, r2, h2, Nodes', k, p, b, least, height)
    BY ONLY <1>26, <2>5, <2>6, PartGuides
  <2>8. Guides(l2, r2, h2, Nodes', nodes'[q].keys, nodes'[q].pointers, Count(q)', l2[q], h2[q])
    BY <1>5, <1>20, <1>24, <1>25, <2>2, <2>7
  <2>9. h2[q] > 0 /\ r2[q] >= 0
    BY <1>5, <1>10, <1>24
  <2> QED BY <2>8, <2>9, RoutesGuideNext
<1>28. Routes(l2, r2, h2, new)'
  <2>1. PICK k, p, b, least, least2, height :
          /\ k = x.keys /\ p = x.pointers /\ b = Order - c
          /\ least = l[q] /\ least2 = tk[c - 1] /\ height = h[q]
    OBVIOUS
  <2>2. Copied(k, b, tk, c) /\ Copied(p, b + 1, tp, c) /\ b \in 0 .. Order - c
    BY <1>8, <1>9, <2>1
  <2>3. least2 = IF c = 0 THEN least ELSE tk[c - 1]
    BY <1>9, <2>1
  <2>4. Order \in Nat /\ c \in 0 .. Order /\ Guides(l, r, h, Nodes, tk, tp, Order, least, height)
    BY <1>9, <1>12, <2>1
  <2>5. Part(k, p, b, tk, tp, Order, c, least, least2)
    BY <2>2, <2>3, <2>4 DEF Part
  <2>6. Guides(l2, r2, h2, Nodes', k, p, b, least2, height)
    BY ONLY <1>26, <2>4, <2>5, PartGuides
  <2>7. Guides(l2, r2, h2, Nodes', nodes'[new].keys, nodes'[new].pointers, Count(new)',
               l2[new], h2[new])
    BY <1>14, <1>24, <1>25, <2>1, <2>6
  <2>8. h2[new] > 0 /\ r2[new] >= 0
    BY <1>10, <1>24
  <2> QED BY <2>7, <2>8, RoutesGuideNext
<1>29. ASSUME NEW m \in Inner PROVE Routes(l2, r2, h2, m)'
  <2>1. CASE m = q
    BY <1>27, <2>1
  <2>2. CASE m # q
    <3>1. m \in Nodes /\ Routes(l, r, h, m)
      BY <1>4 DEF NodeOrder, Inner
    <3>2. SameInner(m)
      BY <1>22, <2>2, <3>1
    <3>3. \A u \in Nodes : l2[u] = l[u] /\ h2[u] = h[u] /\ (r[u] >= 0 => r2[u] >= 0)
      BY <1>24
    <3> QED BY <1>26, <3>1, <3>2, <3>3, RoutesKept
  <2> QED BY <2>1, <2>2
<1>30. Leftmost(l2, new)'
  BY <1>25 DEF Leftmost
<1>31. WayOrder(l2, r2, t)'
  <2>1. frame[t].root \in Nodes /\ l[frame[t].root] <= BeforeKeys /\ r[frame[t].root] >= 0
    BY <1>3, <1>4 DEF FrameOK, WayOrder
  <2>2. /\ l2[frame'[t].root] <= BeforeKeys /\ r2[frame'[t].root] >= 0
        /\ r2[frame'[t].left] >= 0 /\ pc'[t] = "into_parent"
    BY <1>5, <1>10, <1>18, <1>19, <1>24, <2>1
  <2> QED BY <2>2, PlainWay DEF DeleteHeld
<1>32. SplitOrder(l2, r2, h2, t)'
  <2>1. tk[c - 1] <= tk[c - 1]
    BY <1>8, <1>9
  <2>2. r2[frame'[t].right] >= 0 /\ l2[frame'[t].right] <= frame'[t].key
        /\ h2[frame'[t].right] = h2[frame'[t].left]
    BY <1>5, <1>19, <1>24, <2>1
  <2>3. frame'[t].parent = NULL => l2[frame'[t].left] <= BeforeKeys
    <3>1. frame[t].parent = NULL => l[q] <= BeforeKeys
      BY <1>1, <1>3, <1>4 DEF SplitOrder, HoldsParent
    <3> QED BY <1>5, <1>19, <1>24, <3>1
  <2>4. frame'[t].parent # NULL => nodes'[frame'[t].right].parent # NULL
    <3>1. frame[t].parent # NULL => nodes[q].parent # NULL
      BY <1>1, <1>3, <1>4 DEF FrameOK, HoldsParent
    <3>2. nodes'[new].parent = nodes[q].parent
      BY <1>1, <1>8, <1>14
    <3> QED BY <1>19, <3>1, <3>2
  <2> QED BY <1>18, <2>2, <2>3, <2>4 DEF SplitOrder, SplitLabels
<1>33. \A m \in Leaves : SameLeaf(m)
  <2>1. \A m \in Leaves : m \in Nodes \ {q}
    BY <1>5 DEF Leaves
  <2> QED BY <1>22, <2>1
<1>34. /\ UNCHANGED root /\ new \notin Nodes /\ Nodes' = Nodes \cup {new}
       /\ (pc[t] \in HoldsRight =>
              \/ nodes'[frame[t].right].parent # NULL
              \/ pc'[t] \in HoldsRight /\ frame'[t].right = frame[t].right)
  BY <1>3, <1>14 DEF HoldsRight
<1>35. \A m \in Inner : Routes(l2, r2, h2, m)'
  BY <1>29
<1>36. Ghosts(l2, r2, h2) /\ \A m \in Nodes : l2[m] = l[m] /\ r2[m] = r[m] /\ h2[m] = h[m]
  BY <1>24
<1> QED BY ONLY BInv, BInv', t \in Threads, Ordered(l, r, h), <1>15, <1>21, <1>28, <1>30,
                <1>31, <1>32, <1>33, <1>34, <1>35, <1>36, InnerAdded

-------------------------------------------------------------------------------
(* The invariant is kept *)

LEMMA OrderInit == Init => OInv
<1> SUFFICES ASSUME Init PROVE OInv
  OBVIOUS
<1>1. BInv
  BY InitOK
<1>2. PICK unwritten \in MallocKeys :
        nodes = <<[MakeNode(TRUE, unwritten) EXCEPT
                      !.num_keys = 1, !.keys[0] = FirstKey, !.pointers[0] = FirstKey]>>
  BY DEF Init
<1>3. PICK made, x : /\ made = MakeNode(TRUE, unwritten)
                     /\ x = [made EXCEPT
                               !.num_keys = 1, !.keys[0] = FirstKey, !.pointers[0] = FirstKey]
  OBVIOUS
<1>4. /\ 0 \in Slots /\ Order - 1 \in Slots /\ Order - 1 # 0 /\ FirstKey \in Int
      /\ BeforeKeys \in Int /\ BeforeKeys <= FirstKey /\ unwritten \in Int
  BY OrderAssumption, KeysAssumption, BeforeKeysAssumption DEF Slots
<1>5. /\ x.is_leaf = TRUE /\ x.num_keys = 1 /\ x.keys[0] = FirstKey
      /\ x.pointers[Order - 1] = NULL
  <2>1. PICK k, p : /\ k = [made.keys EXCEPT ![0] = FirstKey]
                    /\ p = [made.pointers EXCEPT ![0] = FirstKey]
    OBVIOUS
  <2>2. x = [made EXCEPT !.num_keys = 1, !.keys = k, !.pointers = p]
    BY <1>3, <2>1 DEF MakeNode
  <2>3. /\ made \in NodeType /\ made.is_leaf = TRUE
        /\ made.pointers = [j \in Slots |-> NULL]
    BY <1>3, <1>4, MakeLeafOK
  <2>4. k[0] = FirstKey /\ p[Order - 1] = NULL
    BY <1>4, <2>1, <2>3 DEF NodeType
  <2> QED BY ONLY <2>2, <2>3, <2>4 DEF NodeType
<1>6. nodes = <<x>>
  BY <1>2, <1>3
<1>7. Nodes = {1} /\ nodes[1] = x
  BY <1>6 DEF Nodes
<1>8. Leaves = {1} /\ Inner = {}
  BY <1>5, <1>7 DEF Leaves, Inner
<1>9. lock[1] = NoThread /\ root = 1 /\ \A t \in Threads : pc[t] = "idle"
  BY DEF Init
<1>10. Count(1) = 1 /\ ~Splitting(1) /\ ~Unlinked(1) /\ ~IsRight(1)
  BY <1>5, <1>7, <1>9, HeldByNone
<1>11. PICK l, r, h : /\ l = [n \in Nat |-> BeforeKeys]
                      /\ r = [n \in Nat |-> 0] /\ h = [n \in Nat |-> 0]
  OBVIOUS
<1>12. Ghosts(l, r, h) /\ l[1] = BeforeKeys /\ r[1] = 0 /\ h[1] = 0
  BY <1>4, <1>11 DEF Ghosts
<1>13. Chained(r, h, 1)
  <2>1. NextLeaf(1) = NULL
    BY <1>5, <1>7 DEF NextLeaf
  <2> QED BY <1>10, <1>12, <2>1 DEF Chained
<1>14. Sorted(1)
  <2>1. 0 .. 1 - 1 = {0}
    OBVIOUS
  <2> QED BY <1>4, <1>5, <1>7, <1>10, <2>1 DEF Sorted
<1>15. Ascends(l, r, 1)
  <2>1. \A p \in Leaves : ~(r[p] > r[1])
    BY <1>8, <1>12
  <2>2. \A v : Above(r, 1, v)
    BY ONLY <2>1 DEF Above
  <2> QED BY ONLY <2>2 DEF Ascends
<1>16. LeavesOrder(l, r, h)
  BY <1>8, <1>13, <1>14, <1>15 DEF LeavesOrder
<1>17. NodeOrder(l, r, h)
  BY <1>4, <1>7, <1>8, <1>9, <1>12, <1>16 DEF NodeOrder, Leftmost
<1>18. \A t \in Threads : ThreadOrder(l, r, h, t)
  BY <1>9 DEF ThreadOrder, WayOrder, SplitOrder, DeleteHeld, HoldsParent, HoldsRight, SplitLabels
<1> QED BY <1>12, <1>17, <1>18 DEF Ordered, OInv

LEMMA OrderStutter ==
    ASSUME UNCHANGED vars, NEW l, NEW r, NEW h, Ordered(l, r, h)
    PROVE  Ordered(l, r, h)'
<1>1. UNCHANGED <<nodes, lock, root, pc, call, frame>>
  BY DEF vars
<1>2. UNCHANGED <<Nodes, Leaves, Inner>>
  BY <1>1 DEF Inner, Leaves, Nodes
<1>3. \A n : /\ Free(n)' <=> Free(n)
             /\ Count(n)' = Count(n) /\ NextLeaf(n)' = NextLeaf(n)
             /\ Splitting(n)' <=> Splitting(n)
             /\ Unlinked(n)' <=> Unlinked(n)
             /\ IsRight(n)' <=> IsRight(n)
  BY <1>1 DEF Free, Count, NextLeaf, Splitting, Unlinked, IsRight
<1>4. \A n : Contents(n)' = Contents(n)
  BY <1>1, <1>3 DEF Contents, KeysUpTo
<1>5. \A q, v : Above(r, q, v)' <=> Above(r, q, v)
  <2> TAKE q, v
  <2> QED BY <1>2, <1>4, AboveKept
<1>6. \A n \in Leaves : /\ Chained(r, h, n) => Chained(r, h, n)'
                        /\ Sorted(n) => Sorted(n)'
                        /\ Ascends(l, r, n) => Ascends(l, r, n)'
  BY <1>1, <1>3, <1>4, <1>5 DEF Chained, Sorted, Ascends
<1>7. LeavesOrder(l, r, h)'
  BY <1>2, <1>6 DEF Ordered, NodeOrder, LeavesOrder
<1>8. NodeOrder(l, r, h)'
  BY <1>1, <1>2, <1>3, <1>7 DEF Ordered, NodeOrder, Routes, Routed, Leftmost
<1>9. ASSUME NEW t \in Threads PROVE ThreadOrder(l, r, h, t)'
  <2>1. WayOrder(l, r, t) /\ SplitOrder(l, r, h, t)
    BY DEF Ordered, ThreadOrder
  <2>2. /\ \A n, k : GoesRight(n, k)' <=> GoesRight(n, k)
        /\ IsPresent(t)' <=> IsPresent(t)
    BY <1>1 DEF GoesRight, LastKey, NextLeaf, IsPresent, InsertionIndex, Key
  <2>3. WayOrder(l, r, t)'
    BY <1>1, <1>2, <1>5, <2>1, <2>2 DEF WayOrder, Key
  <2>4. SplitOrder(l, r, h, t)'
    BY <1>1, <1>3, <2>1 DEF SplitOrder
  <2> QED BY <2>3, <2>4 DEF ThreadOrder
<1> QED BY <1>8, <1>9 DEF Ordered, Ghosts

LEMMA OrderNext == BInv /\ OInv /\ [Next]_vars => OInv'
<1> SUFFICES ASSUME BInv, OInv, [Next]_vars PROVE OInv'
  OBVIOUS
<1>1. BInv'
  BY NextOK
<1>2. PICK l, r, h : Ordered(l, r, h)
  BY DEF OInv
<1>3. CASE UNCHANGED vars
  BY <1>2, <1>3, OrderStutter DEF OInv
<1>4. ASSUME NEW t \in Threads, Invoke(t) PROVE OInv'
  BY <1>1, <1>2, <1>4, InvokeOrder
<1>5. ASSUME NEW t \in Threads, Descend(t) PROVE OInv'
  BY <1>1, <1>2, <1>5, DescendOrder
<1>6. ASSUME NEW t \in Threads, InsertIntoLeaf(t) PROVE OInv'
  BY <1>1, <1>2, <1>6, LockLeafOrder, WalkRightOrder, EndOrder, LeafWriteOrder, LeafCountOrder,
     LeafFullOrder, LockParentOrder, LeafSplitOrder, LeafLinkOrder, LeafCutOrder, Zenon
     DEF InsertIntoLeaf
<1>7. ASSUME NEW t \in Threads, InsertIntoParent(t) PROVE OInv'
  BY <1>1, <1>2, <1>7, NewRootOrder, FollowOrder, NodeWriteOrder, NodeCountOrder, NodeFullOrder,
     NodeEmptyOrder, NodeSplitOrder, Zenon DEF InsertIntoParent
<1>8. ASSUME NEW t \in Threads, PutReturn(t) PROVE OInv'
  BY <1>1, <1>2, <1>8, ReturnOrder
<1>9. ASSUME NEW t \in Threads, Find(t) PROVE OInv'
  BY <1>1, <1>2, <1>9, FindWalkOrder, FindOrder, ReturnOrder, Zenon DEF Find
<1>10. ASSUME NEW t \in Threads, Delete(t) PROVE OInv'
  BY <1>1, <1>2, <1>10, DeleteFindOrder, EndOrder, RemoveEntryOrder, RemoveCountOrder, Zenon
     DEF Delete
<1> QED BY <1>3, <1>4, <1>5, <1>6, <1>7, <1>8, <1>9, <1>10, Zenon DEF Next, Step

\* insert, find and delete (bpt.c): whatever the threads do, there are functions l, r and h
\* by which the tree is ordered.
THEOREM OrderInvariance == Spec => []OInv
<1>1. Init => OInv
  BY OrderInit
<1>2. BInv /\ OInv /\ [Next]_vars => OInv'
  BY OrderNext
<1> QED BY <1>1, <1>2, TreeInvariance, PTL DEF Spec

-------------------------------------------------------------------------------
(* Where a search that goes from node to node ends *)

\* f[s] is where one comes from s, with as many steps as the measure m allows.
Ends(f, S, T, next, m, n) ==
    \A s \in S : m[s] <= n => f[s] = IF s \in T THEN s ELSE f[next[s]]

Lessens(m, S, T, next) == \A s \in S \ T : next[s] \in S /\ m[next[s]] < m[s]

\* f[s] is the member of T where one comes from s.
Arrives(f, S, T, next) == f = [s \in S |-> IF s \in T THEN s ELSE f[next[s]]]

LEMMA EndsAlike ==
    ASSUME NEW S, NEW T, NEW next, NEW m \in [S -> Nat],
           Lessens(m, S, T, next),
           NEW f, NEW g, NEW n \in Nat, Ends(f, S, T, next, m, n), Ends(g, S, T, next, m, n),
           NEW s \in S, m[s] <= n
    PROVE  f[s] = g[s]
<1> DEFINE A == {k \in Nat : \A u \in S : m[u] <= k /\ m[u] <= n => f[u] = g[u]}
<1>1. ASSUME NEW k \in Nat, \A u \in S : m[u] < k /\ m[u] <= n => f[u] = g[u],
             NEW u \in S, m[u] <= k, m[u] <= n
      PROVE  f[u] = g[u]
  <2>1. CASE u \in T
    BY <1>1, <2>1 DEF Ends
  <2>2. CASE u \notin T
    <3>1. next[u] \in S /\ m[next[u]] < m[u] /\ m[u] \in Nat
      BY <2>2 DEF Lessens
    <3>2. m[next[u]] \in Nat
      BY <3>1
    <3>3. f[next[u]] = g[next[u]]
      BY <1>1, <3>1, <3>2
    <3> QED BY <1>1, <2>2, <3>3 DEF Ends
  <2> QED BY <2>1, <2>2
<1>2. 0 \in A
  <2>1. \A u \in S : ~(m[u] < 0)
    OBVIOUS
  <2> QED BY <1>1, <2>1
<1>3. ASSUME NEW k \in A PROVE k + 1 \in A
  <2>1. \A u \in S : m[u] < k + 1 /\ m[u] <= n => f[u] = g[u]
    BY <1>3
  <2> QED BY <1>1, <2>1
<1> HIDE DEF A
<1>4. A = Nat
  BY <1>2, <1>3, AllNaturals DEF A
<1> QED BY <1>4 DEF A

LEMMA EndsExist ==
    ASSUME NEW S, NEW T, NEW next, NEW m \in [S -> Nat],
           Lessens(m, S, T, next)
    PROVE  \E f : Arrives(f, S, T, next)
<1> DEFINE A == {n \in Nat : \E f : Ends(f, S, T, next, m, n)}
<1>1. 0 \in A
  <2>1. Ends([s \in S |-> s], S, T, next, m, 0)
    <3>1. \A s \in S : m[s] <= 0 => s \in T
      BY SMT DEF Lessens
    <3> QED BY <3>1 DEF Ends
  <2> QED BY <2>1
<1>2. ASSUME NEW n \in A PROVE n + 1 \in A
  <2>1. PICK f : Ends(f, S, T, next, m, n)
    OBVIOUS
  <2>2. PICK g : g = [s \in S |-> IF m[s] <= n THEN f[s]
                                  ELSE IF s \in T THEN s ELSE f[next[s]]]
    OBVIOUS
  <2>3. ASSUME NEW s \in S, m[s] <= n + 1
        PROVE  g[s] = IF s \in T THEN s ELSE g[next[s]]
    <3>1. CASE s \in T
      BY <2>1, <2>2, <3>1 DEF Ends
    <3>2. CASE s \notin T
      <4>1. next[s] \in S /\ m[next[s]] < m[s] /\ m[s] \in Nat /\ m[next[s]] \in Nat
        BY <3>2 DEF Lessens
      <4>2. m[next[s]] <= n
        BY <2>3, <4>1
      <4>3. g[next[s]] = f[next[s]]
        BY <2>2, <4>1, <4>2
      <4>4. g[s] = f[next[s]]
        BY <2>1, <2>2, <3>2 DEF Ends
      <4> QED BY <3>2, <4>3, <4>4
    <3> QED BY <3>1, <3>2
  <2>4. Ends(g, S, T, next, m, n + 1)
    BY <2>3 DEF Ends
  <2> QED BY <2>4
<1> HIDE DEF A
<1>3. A = Nat
  BY <1>1, <1>2, AllNaturals DEF A
<1>4. PICK F : F = [n \in Nat |-> CHOOSE f : Ends(f, S, T, next, m, n)]
  OBVIOUS
<1>5. \A n \in Nat : Ends(F[n], S, T, next, m, n)
  <2> TAKE n \in Nat
  <2>1. \E f : Ends(f, S, T, next, m, n)
    BY <1>3 DEF A
  <2> QED BY <1>4, <2>1, Zenon
<1>6. PICK f : f = [s \in S |-> F[m[s]][s]]
  OBVIOUS
<1>7. ASSUME NEW s \in S PROVE f[s] = IF s \in T THEN s ELSE f[next[s]]
  <2>1. m[s] \in Nat /\ f[s] = F[m[s]][s] /\ Ends(F[m[s]], S, T, next, m, m[s])
    BY <1>5, <1>6
  <2>2. CASE s \in T
    BY <2>1, <2>2 DEF Ends
  <2>3. CASE s \notin T
    <3>1. next[s] \in S /\ m[next[s]] < m[s] /\ m[next[s]] \in Nat
      BY <2>3 DEF Lessens
    <3>2. f[s] = F[m[s]][next[s]]
      BY <2>1, <2>3 DEF Ends
    <3>3. Ends(F[m[s]], S, T, next, m, m[next[s]])
      BY <2>1, <3>1 DEF Ends
    <3>4. Ends(F[m[next[s]]], S, T, next, m, m[next[s]])
      BY <1>5, <3>1
    <3>5. PICK k, a, b, u : /\ k = m[next[s]] /\ a = F[m[s]] /\ b = F[m[next[s]]]
                            /\ u = next[s]
      OBVIOUS
    <3>6. /\ k \in Nat /\ Ends(a, S, T, next, m, k) /\ Ends(b, S, T, next, m, k)
          /\ u \in S /\ m[u] <= k
      BY <3>1, <3>3, <3>4, <3>5
    <3>7. a[u] = b[u]
      BY <3>6, EndsAlike
    <3>8. f[next[s]] = b[u]
      BY <1>6, <3>1, <3>5
    <3> QED BY <2>3, <3>2, <3>5, <3>7, <3>8
  <2> QED BY <2>2, <2>3
<1>8. f = [s \in S |-> IF s \in T THEN s ELSE f[next[s]]]
  BY <1>6, <1>7
<1> QED BY <1>8 DEF Arrives

\* The numbers of leaves to the right are bounded.
LEMMA Bounded ==
    ASSUME NEW r \in [Nat -> Int]
    PROVE  \A n \in Nat : \E b \in Nat : \A i \in 1 .. n : r[i] <= b
<1> DEFINE A == {n \in Nat : \E b \in Nat : \A i \in 1 .. n : r[i] <= b}
<1>1. 0 \in A
  <2>1. 1 .. 0 = {} /\ 0 \in Nat
    OBVIOUS
  <2> QED BY <2>1
<1>2. ASSUME NEW n \in A PROVE n + 1 \in A
  <2>1. n \in Nat /\ n + 1 \in Nat
    OBVIOUS
  <2>2. PICK b \in Nat : \A i \in 1 .. n : r[i] <= b
    OBVIOUS
  <2>3. PICK c : c = IF r[n + 1] <= b THEN b ELSE r[n + 1]
    OBVIOUS
  <2>4. r[n + 1] \in Int
    BY <2>1
  <2>5. c \in Nat /\ b <= c /\ r[n + 1] <= c
    BY <2>3, <2>4
  <2>6. ASSUME NEW i \in 1 .. n + 1 PROVE r[i] <= c
    <3>1. CASE i = n + 1
      BY <2>5, <3>1
    <3>2. CASE i # n + 1
      <4>1. i \in 1 .. n /\ r[i] \in Int
        BY <2>1, <3>2
      <4> QED BY <2>2, <2>5, <4>1
    <3> QED BY <3>1, <3>2
  <2> QED BY <2>1, <2>5, <2>6
<1> HIDE DEF A
<1>3. A = Nat
  BY <1>1, <1>2, AllNaturals DEF A
<1> QED BY <1>3 DEF A

-------------------------------------------------------------------------------
(* The keys ascend along the leaves *)

LEMMA LeafFacts ==
    ASSUME BInv, NEW l, NEW r, NEW h, Ordered(l, r, h), NEW n \in Leaves
    PROVE  /\ n \in Nodes /\ n \in Nat /\ r[n] \in Int /\ l[n] \in Int
           /\ Chained(r, h, n) /\ Sorted(n) /\ Ascends(l, r, n)
           /\ NextLeaf(n) \in Leaves \cup {NULL} /\ Contents(n) \subseteq Int
           /\ \A q \in Leaves : r[q] \in Int /\ (r[q] = r[n] /\ r[q] >= 0 => q = n)
<1>1. NodesOK
  BY DEF BInv
<1>2. \A q \in Leaves : q \in Nodes /\ q \in Nat
  BY <1>1, NodeNumbers DEF Leaves
<1>3. NextLeaf(n) \in Leaves \cup {NULL}
  BY <1>1, <1>2 DEF NodesOK, Linked
<1> QED BY <1>2, <1>3, ContentsInt DEF Ordered, NodeOrder, LeavesOrder, Ghosts

\* The leaves that are linked further right.
Righter(r, n) == {q \in Leaves : r[q] >= 0 /\ r[q] < r[n]}

LEMMA RighterStep ==
    ASSUME BInv, NEW l, NEW r, NEW h, Ordered(l, r, h), NEW n \in Leaves
    PROVE  Righter(r, n) = IF NextLeaf(n) = NULL THEN {}
                           ELSE {NextLeaf(n)} \cup Righter(r, NextLeaf(n))
<1>1. /\ r[n] \in Int /\ Chained(r, h, n) /\ \A q \in Leaves : r[q] \in Int
  BY LeafFacts
<1>2. CASE NextLeaf(n) = NULL
  <2>1. r[n] <= 0
    BY <1>1, <1>2 DEF Chained
  <2> QED BY <1>1, <1>2, <2>1 DEF Righter
<1>3. CASE NextLeaf(n) # NULL
  <2>1. NextLeaf(n) \in Leaves /\ r[n] > 0 /\ r[NextLeaf(n)] = r[n] - 1
    BY <1>1, <1>3, LeafFacts DEF Chained
  <2>2. \A q \in Leaves : r[q] = r[NextLeaf(n)] /\ r[q] >= 0 => q = NextLeaf(n)
    BY <2>1, LeafFacts
  <2> QED BY <1>1, <1>3, <2>1, <2>2 DEF Righter
<1> QED BY <1>2, <1>3

LEMMA RightOfIs ==
    ASSUME BInv, NEW l, NEW r, NEW h, Ordered(l, r, h), NEW leaf \in Leaves
    PROVE  RightOf(leaf) = Righter(r, leaf)
<1> DEFINE right == CHOOSE f : f = [n \in Leaves |->
                        IF NextLeaf(n) = NULL THEN {} ELSE {NextLeaf(n)} \cup f[NextLeaf(n)]]
<1>1. RightOf(leaf) = right[leaf]
  BY DEF RightOf
<1>2. right = [n \in Leaves |->
                  IF NextLeaf(n) = NULL THEN {} ELSE {NextLeaf(n)} \cup right[NextLeaf(n)]]
  <2>1. PICK g : g = [n \in Leaves |-> Righter(r, n)]
    OBVIOUS
  <2>2. \A n \in Leaves : NextLeaf(n) \in Leaves \cup {NULL}
    BY LeafFacts
  <2>3. \A n \in Leaves : g[n] = IF NextLeaf(n) = NULL THEN {}
                                 ELSE {NextLeaf(n)} \cup g[NextLeaf(n)]
    BY <2>1, <2>2, RighterStep
  <2>4. g = [n \in Leaves |->
                IF NextLeaf(n) = NULL THEN {} ELSE {NextLeaf(n)} \cup g[NextLeaf(n)]]
    BY ONLY <2>1, <2>3
  <2> QED BY ONLY <2>4
<1> HIDE DEF right
<1> DEFINE A == {k \in Nat : \A n \in Leaves : r[n] <= k => right[n] = Righter(r, n)}
<1>3. \A n \in Leaves : /\ r[n] \in Int /\ (r[n] <= 0 => NextLeaf(n) = NULL)
                        /\ NextLeaf(n) # NULL => /\ NextLeaf(n) \in Leaves
                                                 /\ r[NextLeaf(n)] = r[n] - 1
  <2> TAKE n \in Leaves
  <2>1. r[n] \in Int /\ Chained(r, h, n) /\ NextLeaf(n) \in Leaves \cup {NULL}
    BY LeafFacts
  <2> QED BY <2>1 DEF Chained
<1>4. 0 \in A
  <2>1. ASSUME NEW n \in Leaves, r[n] <= 0 PROVE right[n] = Righter(r, n)
    BY <1>2, <1>3, <2>1, RighterStep
  <2> QED BY <2>1
<1>5. ASSUME NEW k \in A PROVE k + 1 \in A
  <2>1. ASSUME NEW n \in Leaves, r[n] <= k + 1 PROVE right[n] = Righter(r, n)
    <3>1. NextLeaf(n) # NULL => right[NextLeaf(n)] = Righter(r, NextLeaf(n))
      BY <1>3, <2>1
    <3>2. right[n] = IF NextLeaf(n) = NULL THEN {} ELSE {NextLeaf(n)} \cup right[NextLeaf(n)]
      BY <1>2
    <3> QED BY <3>1, <3>2, RighterStep
  <2> QED BY <2>1
<1> HIDE DEF A
<1>6. A = Nat
  BY <1>4, <1>5, AllNaturals DEF A
<1>7. right[leaf] = Righter(r, leaf)
  <2>1. r[leaf] \in Int
    BY <1>3
  <2>2. CASE r[leaf] >= 0
    BY <1>6, <2>1, <2>2 DEF A
  <2>3. CASE r[leaf] < 0
    BY <1>6, <2>1, <2>3 DEF A
  <2> QED BY <2>1, <2>2, <2>3
<1> QED BY <1>1, <1>7

\* What the readers of a leaf that nobody changes see of it.
LEMMA LeafKeysSeen ==
    ASSUME BInv, NEW n \in Leaves,
           Free(n) \/ \E t \in Threads : lock[n] = t /\ pc[t] \notin Special
    PROVE  /\ LeafKeys(n) = Contents(n) /\ Contents(n) = KeysUpTo(n, nodes[n].num_keys)
           /\ Count(n) = nodes[n].num_keys /\ ~Unlinked(n)
<1>1. n \in Nodes
  BY DEF Leaves
<1>2. ~\E t \in Threads : At(t, "leaf_count") /\ frame[t].left = n
  <2> SUFFICES ASSUME NEW t \in Threads, pc[t] = "leaf_count", frame[t].left = n
               PROVE  FALSE
    BY DEF At
  <2>1. lock[n] = t
    BY <1>1, ThreadFacts DEF LockOK, Holds, HoldsLeft
  <2> QED BY <2>1, MenuAssumption DEF Free, Special
<1>3. Count(n) = nodes[n].num_keys /\ ~Splitting(n) /\ ~Unlinked(n)
  <2>1. CASE Free(n)
    BY <2>1, HeldByNone DEF Free
  <2>2. ASSUME NEW t \in Threads, lock[n] = t, pc[t] \notin Special
        PROVE  Count(n) = nodes[n].num_keys /\ ~Splitting(n) /\ ~Unlinked(n)
    BY <1>1, <2>2, HeldBy, PendingPlain DEF Special
  <2> QED BY <2>1, <2>2
<1>4. nodes[n].num_keys \in Int
  BY <1>1, NodeFields DEF BInv
<1>5. nodes[n].num_keys + 0 = nodes[n].num_keys
  BY <1>4
<1>6. LeafKeys(n) = KeysUpTo(n, nodes[n].num_keys)
  BY <1>2, <1>5 DEF LeafKeys, KeysUpTo
<1>7. Contents(n) = KeysUpTo(n, nodes[n].num_keys)
  BY <1>3 DEF Contents
<1> QED BY <1>3, <1>6, <1>7

\* The leaves of bpt.c that no thread has locked hold ascending keys, and all of them less
\* than those of the leaves further right: insertions, splits and deletions that other
\* threads have under way never leave two leaves in the wrong order.
THEOREM LeavesAscend == Spec => []LeavesInOrder
<1>1. BInv /\ OInv => LeavesInOrder
  <2> SUFFICES ASSUME BInv, NEW l, NEW r, NEW h, Ordered(l, r, h), NEW n \in Leaves, Free(n)
               PROVE  /\ \A i \in 1 .. nodes[n].num_keys - 1 :
                            nodes[n].keys[i - 1] < nodes[n].keys[i]
                      /\ \A m \in RightOf(n) : Free(m) =>
                            \A k \in LeafKeys(n), v \in LeafKeys(m) : k < v
    BY DEF LeavesInOrder, OInv
  <2>1. /\ LeafKeys(n) = Contents(n) /\ Count(n) = nodes[n].num_keys /\ Sorted(n)
        /\ Contents(n) \subseteq Int /\ r[n] \in Int
    BY LeafKeysSeen, LeafFacts
  <2>2. ASSUME NEW i \in 1 .. nodes[n].num_keys - 1
        PROVE  nodes[n].keys[i - 1] < nodes[n].keys[i]
    <3>1. nodes[n].num_keys \in Int
      BY NodeFields DEF BInv, Leaves
    <3>2. PICK num : num = nodes[n].num_keys
      OBVIOUS
    <3>3. num \in Int /\ i \in 1 .. num - 1
      BY <3>1, <3>2
    <3>4. i - 1 \in 0 .. num - 1 /\ i \in 0 .. num - 1 /\ i - 1 < i
      BY ONLY <3>3
    <3> QED BY <2>1, <3>2, <3>4 DEF Sorted
  <2>3. ASSUME NEW m \in RightOf(n), Free(m), NEW k \in LeafKeys(n), NEW v \in LeafKeys(m)
        PROVE  k < v
    <3>1. m \in Leaves /\ r[m] >= 0 /\ r[m] < r[n]
      BY <2>3, RightOfIs DEF Righter
    <3>2. LeafKeys(m) = Contents(m) /\ Ascends(l, r, m) /\ r[m] \in Int
      BY <2>3, <3>1, LeafKeysSeen, LeafFacts
    <3>3. Above(r, m, v)
      BY <2>3, <3>1, <3>2 DEF Ascends
    <3>4. Below(n, v)
      BY <2>1, <3>1, <3>2, <3>3 DEF Above
    <3> QED BY <2>1, <2>3, <3>4 DEF Below
  <2> QED BY <2>2, <2>3
<1> QED BY <1>1, TreeInvariance, OrderInvariance, PTL

-------------------------------------------------------------------------------
(* An insertion or a deletion is never past its key *)

LEMMA LeavesFromIs ==
    ASSUME BInv, NEW l, NEW r, NEW h, Ordered(l, r, h), NEW start \in Nodes, r[start] >= 0
    PROVE  \E s \in Leaves : /\ LeavesFrom(start) = {s} \cup RightOf(s)
                             /\ r[s] >= 0 /\ l[s] <= l[start]
                             /\ start \in Leaves => s = start
<1> DEFINE leftmost == CHOOSE f : f = [n \in Nodes |->
                           IF nodes[n].is_leaf THEN n ELSE f[nodes[n].pointers[0]]]
<1>1. LeavesFrom(start) = {leftmost[start]} \cup RightOf(leftmost[start])
  BY DEF LeavesFrom
<1>2. PICK first : first = [n \in Nodes |-> nodes[n].pointers[0]]
  OBVIOUS
<1>3. ASSUME NEW n \in Nodes \ Leaves
      PROVE  /\ first[n] \in Nodes /\ r[first[n]] >= 0 /\ l[first[n]] <= l[n]
             /\ h[n] = h[first[n]] + 1
  <2>1. n \in Inner /\ Routes(l, r, h, n) /\ Count(n) \in 0 .. Order - 1
    BY CountBounds DEF Ordered, NodeOrder, Inner, Leaves
  <2>2. 0 \in 0 .. Count(n)
    BY ONLY <2>1, OrderAssumption
  <2> QED BY <1>2, <2>1, <2>2 DEF Routes, Routed
<1>4. \A n \in Nodes : /\ n \in Nat /\ h[n] \in Nat /\ l[n] \in Int /\ r[n] \in Int
                       /\ n \in Leaves <=> nodes[n].is_leaf
  BY NodeNumbers, SMTT(60) DEF BInv, Ordered, Ghosts, Leaves
<1>5. leftmost = [n \in Nodes |-> IF nodes[n].is_leaf THEN n
                                  ELSE leftmost[nodes[n].pointers[0]]]
  <2>1. PICK m : m = [n \in Nodes |-> h[n]]
    OBVIOUS
  <2>2. m \in [Nodes -> Nat]
    BY <1>4, <2>1
  <2>3. Lessens(m, Nodes, Leaves, first)
    <3> SUFFICES ASSUME NEW n \in Nodes \ Leaves
                 PROVE  first[n] \in Nodes /\ m[first[n]] < m[n]
      BY DEF Lessens
    <3>1. first[n] \in Nodes /\ h[n] = h[first[n]] + 1
      BY <1>3
    <3>2. h[first[n]] \in Nat /\ m[n] = h[n] /\ m[first[n]] = h[first[n]]
      BY <1>4, <2>1, <3>1
    <3> QED BY ONLY <3>1, <3>2
  <2>4. PICK f : Arrives(f, Nodes, Leaves, first)
    BY ONLY <2>2, <2>3, EndsExist
  <2>5. \A n \in Nodes : f[n] = IF nodes[n].is_leaf THEN n ELSE f[nodes[n].pointers[0]]
    BY <1>2, <1>4, <2>4 DEF Arrives
  <2>6. f = [n \in Nodes |-> IF nodes[n].is_leaf THEN n ELSE f[nodes[n].pointers[0]]]
    BY ONLY <2>4, <2>5 DEF Arrives
  <2> QED BY ONLY <2>6
<1> HIDE DEF leftmost
<1> DEFINE Fine(n) == /\ leftmost[n] \in Leaves /\ r[leftmost[n]] >= 0
                      /\ l[leftmost[n]] <= l[n]
                      /\ n \in Leaves => leftmost[n] = n
<1> DEFINE A == {k \in Nat : \A n \in Nodes : h[n] <= k /\ r[n] >= 0 => Fine(n)}
<1>6. \A n \in Leaves : r[n] >= 0 => Fine(n)
  BY <1>4, <1>5 DEF Leaves
<1>7. ASSUME NEW n \in Nodes \ Leaves, Fine(first[n]) PROVE Fine(n)
  <2>1. leftmost[n] = leftmost[first[n]]
    BY <1>2, <1>4, <1>5
  <2>2. /\ leftmost[n] \in Leaves /\ r[leftmost[n]] >= 0
        /\ l[leftmost[n]] <= l[first[n]] /\ l[first[n]] <= l[n] /\ first[n] \in Nodes
    BY <1>3, <1>7, <2>1
  <2>3. l[leftmost[n]] \in Int /\ l[first[n]] \in Int /\ l[n] \in Int
    BY <1>4, <2>2 DEF Leaves
  <2>4. l[leftmost[n]] <= l[n]
    BY ONLY <2>2, <2>3
  <2> QED BY <2>2, <2>4
<1> HIDE DEF Fine
<1>8. 0 \in A
  <2>1. ASSUME NEW n \in Nodes, h[n] <= 0 PROVE n \in Leaves
    BY <1>3, <1>4, <2>1
  <2> QED BY <1>6, <2>1
<1>9. ASSUME NEW k \in A PROVE k + 1 \in A
  <2>1. ASSUME NEW n \in Nodes \ Leaves, h[n] <= k + 1 PROVE Fine(n)
    <3>1. first[n] \in Nodes /\ r[first[n]] >= 0 /\ h[n] = h[first[n]] + 1
      BY <1>3
    <3>2. h[first[n]] \in Nat /\ h[n] \in Nat
      BY <1>4, <3>1
    <3>3. h[first[n]] <= k
      BY <2>1, <3>1, <3>2
    <3> QED BY <1>7, <3>1, <3>3
  <2> QED BY <1>6, <2>1
<1> HIDE DEF A
<1>10. A = Nat
  BY <1>8, <1>9, AllNaturals DEF A
<1>11. Fine(start)
  BY <1>4, <1>10 DEF A
<1> QED BY <1>1, <1>11 DEF Fine

\* Where a thread that inserts or deletes is, nothing on the left is as great as its key.
LEMMA OnItsWay ==
    ASSUME BInv, NEW l, NEW r, NEW h, Ordered(l, r, h), NEW t \in Threads,
           pc[t] \in {"descend", "at_leaf", "find_again"}, call[t].type # OP_READ,
           NEW s \in Leaves, l[s] <= l[frame[t].left],
           frame[t].left \in Leaves => s = frame[t].left, r[s] >= 0
    PROVE  Above(r, s, Key(t))
<1> DEFINE left == frame[t].left
           key_leaf == frame[t].key_leaf
<1>1. /\ WayOrder(l, r, t) /\ CallOK(t) /\ FrameOK(t) /\ left \in Nodes
  BY ThreadFacts DEF Ordered, ThreadOrder, FrameOK, Leaves
<1>2. Key(t) \in Int
  BY <1>1, KeyIsInt DEF CallOK
<1>3. l[left] \in Int /\ l[s] \in Int /\ Ascends(l, r, s)
  BY <1>1, NodeNumbers, LeafFacts DEF BInv, Ordered, Ghosts
<1>4. ASSUME l[left] <= Key(t) PROVE Above(r, s, Key(t))
  <2>1. l[s] <= Key(t)
    BY ONLY <1>2, <1>3, <1>4, l[s] <= l[left]
  <2> QED BY <1>2, <1>3, <2>1, AboveMore DEF Ascends
<1>5. CASE pc[t] = "descend"
  BY <1>1, <1>4, <1>5 DEF WayOrder
<1>6. CASE pc[t] = "at_leaf"
  <2>1. left \in Leaves
    BY <1>1, <1>6 DEF FrameOK, LeafLabels, HoldsLeft
  <2> QED BY <1>1, <1>6, <2>1 DEF WayOrder
<1>7. CASE pc[t] = "find_again"
  <2>1. CASE left \in Leaves
    <3>1. r[left] >= r[key_leaf] /\ Above(r, key_leaf, Key(t)) /\ s = left
      BY <1>1, <1>7, <2>1 DEF WayOrder, DeleteHeld, CallOK, DeleteLabels
    <3>2. key_leaf \in Nat
      BY <1>1, <1>7, ThreadFacts, NodeNumbers DEF FrameOK, DeleteLabels, Leaves, Deleting, CallOK
    <3>3. \A p \in Leaves : r[p] \in Int /\ r[left] \in Int /\ r[key_leaf] \in Int
      BY <2>1, <3>2, LeafFacts DEF Ordered, Ghosts
    <3>4. \A p \in Leaves : r[p] > r[left] => r[p] > r[key_leaf]
      BY ONLY <3>1, <3>3
    <3> QED BY <3>1, <3>4 DEF Above
  <2>2. CASE left \notin Leaves
    BY <1>1, <1>4, <1>7, <2>2 DEF WayOrder
  <2> QED BY <2>1, <2>2
<1> QED BY <1>5, <1>6, <1>7

\* insert, delete and find (bpt.c): a thread that inserts or deletes goes down without locks
\* and then right, and the leaf that has its key is always below it or to the right of it,
\* whatever splits and deletions are under way, so it can never miss the key.
THEOREM WritersNeverPastKey == Spec => []NeverPastKey
<1>1. BInv /\ OInv => NeverPastKey
  <2> SUFFICES ASSUME BInv, NEW l, NEW r, NEW h, Ordered(l, r, h), NEW t \in Threads,
                      pc[t] \in {"descend", "at_leaf", "find_again"}, call[t].type # OP_READ,
                      NEW n \in Leaves, lock[n] \in {NoThread, t}, Key(t) \in LeafKeys(n)
               PROVE  n \in LeavesFrom(frame[t].left)
    BY DEF NeverPastKey, OInv
  <2>1. frame[t].left \in Nodes /\ r[frame[t].left] >= 0
    BY ThreadFacts DEF Ordered, ThreadOrder, WayOrder, FrameOK, Leaves
  <2>2. PICK s \in Leaves : /\ LeavesFrom(frame[t].left) = {s} \cup RightOf(s)
                            /\ r[s] >= 0 /\ l[s] <= l[frame[t].left]
                            /\ frame[t].left \in Leaves => s = frame[t].left
    BY <2>1, LeavesFromIs
  <2>3. Above(r, s, Key(t))
    BY <2>2, OnItsWay
  <2>4. Key(t) \in Contents(n) /\ ~Unlinked(n)
    BY LeafKeysSeen DEF Free, Special
  <2>5. r[n] \in Int /\ r[s] \in Int /\ Chained(r, h, n) /\ Contents(n) \subseteq Int
    BY LeafFacts
  <2>6. r[n] >= 0
    BY <2>4, <2>5 DEF Chained
  <2>7. ~(r[n] > r[s])
    <3> SUFFICES ASSUME r[n] > r[s] PROVE FALSE
      OBVIOUS
    <3>1. Key(t) < Key(t) /\ Key(t) \in Int
      BY <2>3, <2>4, <2>5 DEF Above, Below
    <3> QED BY ONLY <3>1
  <2>8. RightOf(s) = Righter(r, s)
    BY <2>2, RightOfIs
  <2>9. CASE r[n] = r[s]
    <3>1. n = s
      BY <2>2, <2>6, <2>9, LeafFacts
    <3> QED BY <2>2, <3>1
  <2>10. CASE r[n] # r[s]
    <3>1. r[n] < r[s]
      BY ONLY <2>5, <2>7, <2>10
    <3> QED BY <2>2, <2>6, <2>8, <3>1 DEF Righter
  <2> QED BY <2>9, <2>10
<1> QED BY <1>1, TreeInvariance, OrderInvariance, PTL

-------------------------------------------------------------------------------
(* In a quiet tree every key is found *)

LEMMA QuietFacts ==
    ASSUME BInv, Quiet, NEW n \in Nodes
    PROVE  Free(n) /\ Count(n) = nodes[n].num_keys /\ ~Splitting(n) /\ ~Unlinked(n)
<1>1. \A t \in Threads : lock[n] # t
  BY ThreadFacts DEF Quiet, At, LockOK, Holds, HoldsLeft, HoldsRight, HoldsParent, Deleting,
                     DeleteLabels
<1>2. lock[n] = NoThread
  BY <1>1, LockType
<1> QED BY <1>2, HeldByNone DEF Free

\* The leaf where a search ends that started left of, or above, the place of its key.
LEMMA ReachIs ==
    ASSUME BInv, Quiet, NEW l, NEW r, NEW h, Ordered(l, r, h), NEW key \in Int,
           NEW start \in Nodes, r[start] >= 0, l[start] <= key
    PROVE  \E q \in Leaves : /\ Reach(start, key) = q /\ r[q] >= 0
                             /\ ~GoesRight(q, key) /\ Above(r, q, key)
<1> DEFINE reach == CHOOSE f : f = [n \in Nodes |->
                        IF ~nodes[n].is_leaf THEN f[Child(n, key)]
                        ELSE IF GoesRight(n, key) THEN f[NextLeaf(n)] ELSE n]
<1>1. Reach(start, key) = reach[start]
  BY DEF Reach
<1>2. PICK T, next : /\ T = {n \in Leaves : ~GoesRight(n, key)}
                     /\ next = [n \in Nodes |-> IF n \in Leaves THEN NextLeaf(n)
                                                ELSE Child(n, key)]
  OBVIOUS
<1>3. \A n \in Nodes : /\ n \in Nat /\ h[n] \in Nat /\ l[n] \in Int /\ r[n] \in Int
                       /\ n \in Leaves <=> nodes[n].is_leaf
  BY NodeNumbers DEF BInv, Ordered, Ghosts, Leaves
<1>4. ASSUME NEW n \in Leaves \ T
      PROVE  /\ next[n] = NextLeaf(n) /\ next[n] \in Leaves
             /\ r[n] > 0 /\ r[next[n]] = r[n] - 1
  <2>1. GoesRight(n, key) /\ n \in Nodes
    BY <1>2, <1>4 DEF Leaves
  <2>2. r[n] \in Int /\ Chained(r, h, n) /\ NextLeaf(n) \in Leaves
    BY <2>1, LeafFacts DEF GoesRight
  <2>3. r[n] > 0
    BY <2>1, <2>2 DEF Chained, GoesRight
  <2> QED BY <1>2, <2>1, <2>2, <2>3 DEF Chained
<1>5. ASSUME NEW n \in Nodes \ Leaves
      PROVE  /\ next[n] = Child(n, key) /\ next[n] \in Nodes /\ r[next[n]] >= 0
             /\ h[n] = h[next[n]] + 1
             /\ l[n] <= key => l[next[n]] <= key
  <2>1. n \in Inner /\ Routes(l, r, h, n) /\ Ghosts(l, r, h)
    BY DEF Ordered, NodeOrder, Inner, Leaves
  <2> QED BY <1>2, <2>1, ChildRoute
<1>6. PICK b \in Nat : \A n \in Nodes : r[n] <= b
  <2>1. r \in [Nat -> Int]
    BY DEF Ordered, Ghosts
  <2>2. nodes \in Seq(NodeType)
    BY DEF BInv, NodesOK
  <2>3. Len(nodes) \in Nat /\ Nodes = 1 .. Len(nodes)
    BY ONLY <2>2 DEF Nodes
  <2>4. \E b \in Nat : \A i \in 1 .. Len(nodes) : r[i] <= b
    BY ONLY <2>1, <2>3, Bounded
  <2> QED BY ONLY <2>3, <2>4
<1>7. PICK m : m = [n \in Nodes |-> IF n \notin Leaves THEN b + h[n]
                                    ELSE IF r[n] >= 0 THEN r[n] ELSE 0]
  OBVIOUS
<1>8. m \in [Nodes -> Nat]
  BY <1>3, <1>7
<1>9. Lessens(m, Nodes, T, next)
  <2>1. ASSUME NEW n \in Leaves \ T PROVE next[n] \in Nodes /\ m[next[n]] < m[n]
    <3>1. n \in Nodes /\ next[n] \in Nodes /\ next[n] \in Leaves
      BY <1>4, <2>1 DEF Leaves
    <3>2. r[n] > 0 /\ r[next[n]] = r[n] - 1 /\ r[n] \in Int
      BY <1>3, <1>4, <3>1
    <3>3. m[n] = r[n] /\ m[next[n]] = r[next[n]]
      BY <1>7, <3>1, <3>2
    <3> QED BY ONLY <3>1, <3>2, <3>3
  <2>2. ASSUME NEW n \in Nodes \ Leaves PROVE next[n] \in Nodes /\ m[next[n]] < m[n]
    <3>1. /\ next[n] \in Nodes /\ h[n] = h[next[n]] + 1 /\ h[next[n]] \in Nat
          /\ r[next[n]] \in Int /\ r[next[n]] <= b /\ b \in Nat
      BY <1>3, <1>5, <1>6
    <3>2. m[n] = b + h[n]
      BY <1>7
    <3>3. m[next[n]] \in {b + h[next[n]], r[next[n]], 0}
      BY <1>7, <3>1
    <3> QED BY ONLY <3>1, <3>2, <3>3
  <2> QED BY <2>1, <2>2 DEF Lessens
<1>10. reach = [n \in Nodes |-> IF ~nodes[n].is_leaf THEN reach[Child(n, key)]
                                ELSE IF GoesRight(n, key) THEN reach[NextLeaf(n)] ELSE n]
  <2>1. PICK f : Arrives(f, Nodes, T, next)
    BY ONLY <1>8, <1>9, EndsExist
  <2>2. \A n \in Nodes : f[n] = IF n \in T THEN n ELSE f[next[n]]
    BY <2>1 DEF Arrives
  <2>3. \A n \in Nodes : f[n] = IF ~nodes[n].is_leaf THEN f[Child(n, key)]
                                ELSE IF GoesRight(n, key) THEN f[NextLeaf(n)] ELSE n
    BY <1>2, <1>3, <2>2
  <2>4. f = [n \in Nodes |-> IF ~nodes[n].is_leaf THEN f[Child(n, key)]
                             ELSE IF GoesRight(n, key) THEN f[NextLeaf(n)] ELSE n]
    BY ONLY <2>1, <2>3 DEF Arrives
  <2> QED BY ONLY <2>4
<1>11. \A n \in Nodes : reach[n] = IF n \in T THEN n ELSE reach[next[n]]
  <2>1. \A n \in Nodes : reach[n] = IF ~nodes[n].is_leaf THEN reach[Child(n, key)]
                                    ELSE IF GoesRight(n, key) THEN reach[NextLeaf(n)] ELSE n
    BY ONLY <1>10
  <2> HIDE DEF reach
  <2> QED BY <1>2, <1>3, <2>1
<1> HIDE DEF reach
<1> DEFINE OnWay(n) == r[n] >= 0 /\ IF n \in Leaves THEN Above(r, n, key) ELSE l[n] <= key
           There(q) == q \in T /\ r[q] >= 0 /\ Above(r, q, key)
           A == {k \in Nat : \A n \in Nodes : m[n] <= k /\ OnWay(n) => There(reach[n])}
<1>12. ASSUME NEW n \in Nodes, r[n] >= 0, l[n] <= key PROVE OnWay(n)
  <2>1. CASE n \in Leaves
    <3>1. Above(r, n, l[n]) /\ l[n] \in Int
      BY <1>12, <2>1, LeafFacts DEF Ascends
    <3> QED BY <1>12, <2>1, <3>1, AboveMore
  <2> QED BY <1>12, <2>1
<1>13. ASSUME NEW n \in Nodes \ T, OnWay(n) PROVE OnWay(next[n])
  <2>1. CASE n \in Leaves
    <3>1. GoesRight(n, key) /\ Above(r, n, key) /\ r[n] >= 0
      BY <1>2, <1>13, <2>1
    <3>2. Count(n) = nodes[n].num_keys /\ ~Splitting(n)
      BY QuietFacts
    <3>3. Ghosts(l, r, h) /\ LeavesOrder(l, r, h)
      BY DEF Ordered, NodeOrder
    <3>4. NextLeaf(n) \in Leaves /\ r[NextLeaf(n)] >= 0 /\ Above(r, NextLeaf(n), key)
      BY <2>1, <3>1, <3>2, <3>3, GoesOn
    <3> QED BY <1>4, <1>13, <2>1, <3>4
  <2>2. CASE n \notin Leaves
    <3>1. next[n] \in Nodes /\ r[next[n]] >= 0 /\ l[next[n]] <= key
      BY <1>5, <1>13, <2>2
    <3> QED BY <1>12, <3>1
  <2> QED BY <2>1, <2>2
<1>14. ASSUME NEW n \in T, OnWay(n) PROVE There(reach[n])
  <2>1. reach[n] = n /\ n \in Leaves
    BY <1>2, <1>11 DEF Leaves
  <2> QED BY <1>14, <2>1
<1> HIDE DEF OnWay, There
<1>15. 0 \in A
  <2>1. ASSUME NEW n \in Nodes, m[n] <= 0 PROVE n \in T
    <3> SUFFICES ASSUME n \notin T PROVE FALSE
      OBVIOUS
    <3>1. next[n] \in Nodes /\ m[next[n]] < m[n]
      BY <1>9 DEF Lessens
    <3>2. m[next[n]] \in Nat /\ m[n] \in Nat
      BY <1>8, <3>1
    <3> QED BY ONLY <2>1, <3>1, <3>2
  <2> QED BY <1>14, <2>1
<1>16. ASSUME NEW k \in A PROVE k + 1 \in A
  <2>1. ASSUME NEW n \in Nodes \ T, m[n] <= k + 1, OnWay(n) PROVE There(reach[n])
    <3>1. next[n] \in Nodes /\ m[next[n]] < m[n]
      BY <1>9 DEF Lessens
    <3>2. m[next[n]] \in Nat /\ m[n] \in Nat /\ k \in Nat
      BY <1>8, <3>1
    <3>3. m[next[n]] <= k
      BY ONLY <2>1, <3>1, <3>2
    <3>4. There(reach[next[n]])
      BY <1>13, <2>1, <3>1, <3>3
    <3> QED BY <1>11, <3>4
  <2>2. k + 1 \in Nat
    OBVIOUS
  <2>3. \A n \in Nodes : m[n] <= k + 1 /\ OnWay(n) => There(reach[n])
    BY ONLY <1>14, <2>1
  <2> QED BY ONLY <2>2, <2>3 DEF A
<1> HIDE DEF A
<1>17. A = Nat
  BY <1>15, <1>16, AllNaturals DEF A
<1>18. There(reach[start])
  <2>1. OnWay(start) /\ m[start] \in Nat
    BY <1>8, <1>12
  <2>2. m[start] <= m[start]
    BY ONLY <2>1
  <2> QED BY <1>17, <2>1, <2>2 DEF A
<1> QED BY <1>1, <1>2, <1>18 DEF There

\* insert, find and delete (bpt.c), called by any number of threads that write back whichever
\* root their call returned (baseline.c): when no call is under way, every key in a leaf is
\* found by a search from the root that was written back last: no split, stale parent or stale
\* root leaves a key out of reach.  (That a key which was put is in a leaf is PutsAreKept.)
THEOREM LeavesReachable == Spec => []EveryKeyFound
<1>1. BInv /\ OInv => EveryKeyFound
  <2> SUFFICES ASSUME BInv, NEW l, NEW r, NEW h, Ordered(l, r, h), Quiet,
                      NEW n \in Leaves, NEW key \in LeafKeys(n)
               PROVE  key \in LeafKeys(Reach(root, key))
    BY DEF EveryKeyFound, OInv, Stored
  <2>1. n \in Nodes /\ Free(n) /\ Count(n) = nodes[n].num_keys /\ ~Unlinked(n)
    BY QuietFacts DEF Leaves
  <2>2. key \in KeysUpTo(n, nodes[n].num_keys) /\ key \in Contents(n)
    BY <2>1, LeafKeysSeen
  <2>3. /\ Contents(n) \subseteq Int /\ r[n] \in Int /\ Sorted(n) /\ Ascends(l, r, n)
        /\ Chained(r, h, n)
    BY LeafFacts
  <2>4. key \in Int /\ r[n] >= 0
    BY <2>1, <2>2, <2>3 DEF Chained
  <2>5. Above(r, n, key)
    BY <2>2, <2>3, <2>4 DEF Ascends
  <2>6. BeforeKeys <= key
    BY <2>1, <2>2, <2>3 DEF Sorted, KeysUpTo
  <2>7. root \in Nodes /\ root \in Nat /\ r[root] >= 0 /\ l[root] <= BeforeKeys
    BY NodeNumbers DEF Ordered, NodeOrder, BInv, NodesOK
  <2>8. l[root] \in Int /\ BeforeKeys \in Int
    BY <2>7, KeysAssumption DEF Ordered, Ghosts
  <2>9. l[root] <= key
    BY ONLY <2>4, <2>6, <2>7, <2>8
  <2>10. PICK q \in Leaves : /\ Reach(root, key) = q /\ r[q] >= 0
                             /\ ~GoesRight(q, key) /\ Above(r, q, key)
    BY <2>4, <2>7, <2>9, ReachIs
  <2>11. r[q] \in Int /\ Count(q) = nodes[q].num_keys
    BY LeafFacts, QuietFacts DEF Leaves
  <2>12. ~(r[n] > r[q])
    <3> SUFFICES ASSUME r[n] > r[q] PROVE FALSE
      OBVIOUS
    <3>1. key < key
      BY <2>2, <2>10 DEF Above, Below
    <3> QED BY ONLY <2>4, <3>1
  <2>13. ~(r[n] < r[q])
    <3> SUFFICES ASSUME r[n] < r[q] PROVE FALSE
      OBVIOUS
    <3>1. Ghosts(l, r, h) /\ LeavesOrder(l, r, h)
      BY DEF Ordered, NodeOrder
    <3>2. key < key
      BY <2>4, <2>5, <2>10, <2>11, <3>1, StopsBefore
    <3> QED BY ONLY <2>4, <3>2
  <2>14. r[n] = r[q]
    BY ONLY <2>3, <2>11, <2>12, <2>13
  <2>15. n = q
    BY <2>4, <2>14, LeafFacts
  <2> QED BY <2>10, <2>15
<1> QED BY <1>1, TreeInvariance, OrderInvariance, PTL
=============================================================================
