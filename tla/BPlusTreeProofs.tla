--------------------------- MODULE BPlusTreeProofs ----------------------------
(***************************************************************************)
(* Type correctness and lock discipline of BPlusTree, for any number of    *)
(* threads, any order of the tree and any keys: a node never holds more    *)
(* than Order - 1 keys, no pointer that is followed is anything but a      *)
(* node, and each thread holds the locks that its place in the code says,  *)
(* which are none when its call ends.                                      *)
(***************************************************************************)
EXTENDS BPlusTree, SequenceTheorems, WellFoundedInduction, TLAPS

Inner == Nodes \ Leaves

-------------------------------------------------------------------------------
(* The locks that a thread holds, by its place *)

HoldsLeft ==
    {"at_leaf", "leaf_count", "leaf_lock_parent", "leaf_split", "leaf_link", "leaf_cut",
     "into_parent", "follow_lock", "node_count", "node_lock_parent", "node_empty",
     "node_split"}

HoldsRight == {"leaf_link", "leaf_cut", "into_parent", "follow_lock", "node_count"}

HoldsParent == HoldsRight \cup {"leaf_split", "node_empty", "node_split"}

Deleting(t) == pc[t] \in DeleteLabels /\ call[t].type = OP_DELETE

Holds(t, n) ==
    \/ pc[t] \in HoldsLeft /\ n = frame[t].left
    \/ pc[t] \in HoldsRight /\ n = frame[t].right
    \/ pc[t] \in HoldsParent /\ n = frame[t].parent
    \/ Deleting(t) /\ n = frame[t].key_leaf

LockOK(t) == \A n \in Nodes : lock[n] = t <=> Holds(t, n)

-------------------------------------------------------------------------------
(* Nodes *)

NodeType == [is_leaf : BOOLEAN, num_keys : 0 .. Order - 1, keys : [Slots -> Int],
             pointers : [Slots -> Int], parent : Int]

\* What the pointers of a node lead to.
Linked(n) ==
    /\ nodes[n].parent \in Inner \cup {NULL}
    /\ n \in Leaves => NextLeaf(n) \in Leaves \cup {NULL}
    /\ n \in Inner => \A i \in 0 .. nodes[n].num_keys : nodes[n].pointers[i] \in Nodes

NodesOK ==
    /\ nodes \in Seq(NodeType)
    /\ lock \in [Nodes -> Threads \cup {NoThread}]
    /\ root \in Nodes
    /\ \A n \in Nodes : Linked(n)

-------------------------------------------------------------------------------
(* The local variables of a thread *)

Labels == InsertLabels \cup DeleteLabels \cup {"idle", "descend", "put_return", "get_return"}

FrameType ==
    [root : Int, left : Int, right : Int, parent : Int, next : Int, key_leaf : Int,
     key : Int, index : Int, hit : BOOLEAN, had : BOOLEAN]

LeafLabels ==
    {"at_leaf", "leaf_count", "leaf_lock_parent", "leaf_split", "leaf_link", "leaf_cut"}

SplitLabels == {"node_lock_parent", "node_empty", "node_split"}

CallOK(t) ==
    /\ pc[t] = "idle" => call[t] = NoCall
    /\ pc[t] # "idle" => call[t] \in CallType
    /\ pc[t] \in InsertLabels \ {"at_leaf"} => call[t].type = OP_ADD
    /\ pc[t] = "at_leaf" => call[t].type # OP_READ
    /\ pc[t] \in DeleteLabels \ {"find_read"} => call[t].type = OP_DELETE
    /\ pc[t] = "find_read" => call[t].type # OP_ADD

FrameOK(t) ==
    /\ pc[t] # "idle" => frame[t].root \in Nodes /\ frame[t].left \in Nodes
    /\ frame[t].parent \in Inner \cup {NULL}
    /\ pc[t] \in LeafLabels => frame[t].left \in Leaves
    /\ pc[t] \in SplitLabels => frame[t].left \in Inner
    /\ pc[t] \in HoldsRight \cup SplitLabels => frame[t].right \in Nodes
    /\ pc[t] \in {"leaf_link", "leaf_cut"} => frame[t].right \in Leaves
    /\ pc[t] \in HoldsRight => frame[t].right # frame[t].left
    /\ pc[t] \in HoldsParent => frame[t].parent # frame[t].left
    /\ pc[t] \in HoldsRight => frame[t].parent # frame[t].right
    /\ pc[t] \in {"leaf_lock_parent", "node_lock_parent", "follow_lock", "node_count"} =>
          frame[t].parent # NULL
    /\ pc[t] \in HoldsParent \cup {"leaf_lock_parent", "node_lock_parent"} =>
          (frame[t].parent # NULL => nodes[frame[t].left].parent # NULL)
    /\ pc[t] = "follow_lock" => frame[t].next \in Inner
    /\ Deleting(t) => frame[t].key_leaf \in Leaves

\* What a thread relies on in the nodes that it holds.
RoomOK(t) ==
    /\ pc[t] = "leaf_count" => nodes[frame[t].left].num_keys < Order - 1
    /\ pc[t] = "node_count" =>
          /\ nodes[frame[t].parent].num_keys < Order - 1
          /\ \A i \in 0 .. nodes[frame[t].parent].num_keys + 1 :
                nodes[frame[t].parent].pointers[i] \in Nodes
    /\ pc[t] \in SplitLabels =>
          /\ frame[t].index \in Slots
          /\ \A i \in Slots : nodes[frame[t].left].pointers[i] \in Nodes
    /\ pc[t] = "remove_count" => nodes[frame[t].key_leaf].num_keys > 0

ThreadOK(t) == CallOK(t) /\ FrameOK(t) /\ RoomOK(t) /\ LockOK(t)

BInv ==
    /\ NodesOK
    /\ pc \in [Threads -> Labels]
    /\ call \in [Threads -> CallType \cup {NoCall}]
    /\ frame \in [Threads -> FrameType]
    /\ \A t \in Threads : ThreadOK(t)

-------------------------------------------------------------------------------
(* Operators *)

LEMMA MinIn ==
    ASSUME NEW S \in SUBSET Nat, S # {}
    PROVE  Min(S) \in S
<1> DEFINE R == OpToRel(<, Nat)
<1>1. IsWellFoundedOn(R, Nat)
  BY NatLessThanWellFounded
<1>2. \A x, y \in Nat : x < y => <<x, y>> \in R
  BY DEF OpToRel
<1> HIDE DEF R
<1>3. PICK x \in S : \A y \in S : ~ (<<y, x>> \in R)
  BY <1>1, WFMin, Zenon
<1>4. ASSUME NEW y \in S PROVE x <= y
  <2>1. x \in Nat /\ y \in Nat
    OBVIOUS
  <2>2. ~ (y < x)
    BY <1>2, <1>3, <2>1, Zenon
  <2> QED BY <2>1, <2>2
<1> QED BY <1>3, <1>4 DEF Min

LEMMA CutBounds ==
    /\ cut(Order - 1) \in 1 .. Order - 1
    /\ cut(Order) \in 1 .. Order
BY OrderAssumption DEF cut

LEMMA OverType ==
    ASSUME NEW f \in [Slots -> Int], NEW g, \A j \in DOMAIN g : g[j] \in Int
    PROVE  Over(f, g) \in [Slots -> Int]
BY DEF Over

\* The fields of a node.
LEMMA NodeFields ==
    ASSUME NodesOK, NEW n \in Nodes
    PROVE  /\ nodes[n] \in NodeType
           /\ nodes[n].is_leaf \in BOOLEAN
           /\ nodes[n].num_keys \in 0 .. Order - 1
           /\ nodes[n].keys \in [Slots -> Int]
           /\ nodes[n].pointers \in [Slots -> Int]
           /\ nodes[n].parent \in Int
<1>1. nodes[n] \in NodeType
  BY DEF NodesOK, Nodes
<1> QED BY <1>1 DEF NodeType

LEMMA NullIsNoNode == NodesOK' => NULL \notin Nodes'
BY DEF NodesOK, Nodes, NULL

LEMMA ChildOK ==
    ASSUME NodesOK, NEW n \in Inner, NEW key \in Int
    PROVE  Child(n, key) \in Nodes
<1> DEFINE num == nodes[n].num_keys
           S == {j \in 0 .. num : j = num \/ key < nodes[n].keys[j]}
<1>1. num \in 0 .. Order - 1
  BY NodeFields DEF Inner
<1>2. S \in SUBSET Nat /\ S # {}
  BY <1>1, OrderAssumption
<1>3. Min(S) \in 0 .. num
  BY <1>2, MinIn
<1> QED BY <1>3 DEF Child, NodesOK, Linked, Inner

LEMMA InsertionIndexOK ==
    ASSUME NEW n, NEW key
    PROVE  InsertionIndex(n, key) \in Slots
<1> DEFINE S == {i \in Slots : i = Order - 1 \/ nodes[n].keys[i] >= key}
<1>1. S \in SUBSET Nat /\ S # {}
  BY OrderAssumption DEF Slots
<1> QED BY <1>1, MinIn DEF InsertionIndex

-------------------------------------------------------------------------------
(* The steps of one thread and the invariant of the others *)

\* What a step of t leaves to the other threads.
Frozen(t) ==
    /\ Nodes \subseteq Nodes'
    /\ \A n \in Nodes : n \in Leaves' <=> n \in Leaves
    /\ \A u \in Threads \ {t} :
          /\ \A n \in Nodes : lock[n] = u =>
                /\ nodes[n].parent # NULL => nodes'[n].parent # NULL
                /\ nodes'[n].num_keys = nodes[n].num_keys
                /\ nodes'[n].pointers = nodes[n].pointers
          /\ \A n \in Nodes : lock'[n] = u <=> lock[n] = u
          /\ \A n \in Nodes' \ Nodes : lock'[n] # u
          /\ pc'[u] = pc[u] /\ call'[u] = call[u] /\ frame'[u] = frame[u]

LEMMA OthersOK ==
    ASSUME BInv, NEW t \in Threads, NEW u \in Threads \ {t}, Frozen(t), NodesOK'
    PROVE  ThreadOK(u)'
<1>1. /\ ThreadOK(u) /\ NodesOK
      /\ pc'[u] = pc[u] /\ call'[u] = call[u] /\ frame'[u] = frame[u]
      /\ pc[u] \in Labels
  BY DEF BInv, Frozen
<1>2. \A n : n \in Inner => n \in Inner'
  BY DEF Frozen, Inner
<1>3. \A n : n \in Leaves => n \in Leaves'
  BY DEF Frozen, Leaves
<1>4. \A n : n \in Nodes => n \in Nodes'
  BY DEF Frozen
<1>5. Deleting(u)' <=> Deleting(u)
  BY <1>1 DEF Deleting
<1>6. \A n : Holds(u, n)' <=> Holds(u, n)
  BY <1>1, <1>5 DEF Holds
<1>7. \A n : Holds(u, n) => n \in Nodes \cup {NULL}
  BY <1>1 DEF ThreadOK, FrameOK, Holds, Inner, Leaves, HoldsLeft, HoldsRight, HoldsParent
<1>8. CallOK(u)'
  BY <1>1 DEF ThreadOK, CallOK
<1>9. FrameOK(u)'
  <2>1. frame[u].left \in Nodes /\ Holds(u, frame[u].left) /\ nodes[frame[u].left].parent # NULL
           => nodes'[frame[u].left].parent # NULL
    BY <1>1 DEF ThreadOK, LockOK, Frozen
  <2>2. pc[u] \in HoldsParent \cup {"leaf_lock_parent", "node_lock_parent"} =>
          frame[u].left \in Nodes /\ Holds(u, frame[u].left)
    BY <1>1 DEF ThreadOK, FrameOK, Holds, HoldsLeft, HoldsRight, HoldsParent
  <2> QED BY <1>1, <1>2, <1>3, <1>4, <1>5, <2>1, <2>2 DEF ThreadOK, FrameOK
<1>10. RoomOK(u)'
  <2>1. ASSUME NEW n \in Nodes, Holds(u, n)
        PROVE  nodes'[n].num_keys = nodes[n].num_keys /\ nodes'[n].pointers = nodes[n].pointers
    BY <1>1, <2>1 DEF ThreadOK, LockOK, Frozen
  <2>2. pc[u] = "leaf_count" \/ pc[u] \in SplitLabels =>
          Holds(u, frame[u].left) /\ frame[u].left \in Nodes
    BY <1>1 DEF ThreadOK, FrameOK, Holds, HoldsLeft, SplitLabels
  <2>3. pc[u] = "node_count" => Holds(u, frame[u].parent) /\ frame[u].parent \in Nodes
    BY <1>1 DEF ThreadOK, FrameOK, Holds, HoldsParent, HoldsRight, Inner
  <2>4. pc[u] = "remove_count" => Holds(u, frame[u].key_leaf) /\ frame[u].key_leaf \in Nodes
    BY <1>1 DEF ThreadOK, FrameOK, CallOK, Holds, Deleting, DeleteLabels, Leaves
  <2> QED BY <1>1, <1>4, <2>1, <2>2, <2>3, <2>4 DEF ThreadOK, RoomOK
<1>11. LockOK(u)'
  BY <1>1, <1>6, <1>7, NullIsNoNode DEF ThreadOK, LockOK, Frozen
<1> QED BY <1>8, <1>9, <1>10, <1>11 DEF ThreadOK

LEMMA Assemble ==
    ASSUME BInv, NEW t \in Threads, Frozen(t), NodesOK', ThreadOK(t)',
           pc' \in [Threads -> Labels], call' \in [Threads -> CallType \cup {NoCall}],
           frame' \in [Threads -> FrameType]
    PROVE  BInv'
BY OthersOK DEF BInv

LEMMA GotoOK ==
    ASSUME BInv, NEW t \in Threads, NEW label \in Labels, NEW locals \in FrameType,
           Goto(t, label, locals)
    PROVE  /\ pc' \in [Threads -> Labels] /\ frame' \in [Threads -> FrameType]
           /\ pc'[t] = label /\ frame'[t] = locals
           /\ \A u \in Threads \ {t} : pc'[u] = pc[u] /\ frame'[u] = frame[u]
BY DEF BInv, Goto

\* What BInv says of one thread.
LEMMA ThreadFacts ==
    ASSUME BInv, NEW t \in Threads
    PROVE  /\ NodesOK /\ CallOK(t) /\ FrameOK(t) /\ RoomOK(t) /\ LockOK(t)
           /\ pc[t] \in Labels /\ call[t] \in CallType \cup {NoCall}
           /\ frame[t] \in FrameType
BY DEF BInv, ThreadOK

\* A step that touches no node and no lock.
LEMMA QuietOK ==
    ASSUME BInv, NEW t \in Threads, NEW label \in Labels, NEW locals \in FrameType,
           Goto(t, label, locals), UNCHANGED <<nodes, lock>>, root' \in Nodes,
           call' \in [Threads -> CallType \cup {NoCall}],
           \A u \in Threads \ {t} : call'[u] = call[u],
           CallOK(t)', FrameOK(t)', RoomOK(t)',
           \A n \in Nodes : Holds(t, n)' <=> Holds(t, n)
    PROVE  BInv'
<1>1. Frozen(t)
  BY GotoOK DEF Frozen, Nodes, Leaves
<1>2. NodesOK'
  BY DEF BInv, NodesOK, Nodes, Linked, Inner, Leaves, NextLeaf
<1>3. LockOK(t)'
  BY ThreadFacts DEF LockOK, Nodes
<1> QED BY <1>1, <1>2, <1>3, Assemble, GotoOK DEF ThreadOK

-------------------------------------------------------------------------------
(* Steps that touch no node and no lock *)

LEMMA StartFrame ==
    ASSUME NEW r \in Int, NEW had \in BOOLEAN
    PROVE  LET f == [NoFrame EXCEPT !.root = r, !.left = r, !.had = had]
           IN  f \in FrameType /\ f.root = r /\ f.left = r /\ f.parent = NULL
<1>1. NoFrame \in FrameType
  BY DEF NoFrame, FrameType, NULL
<1>2. [NoFrame EXCEPT !.root = r, !.left = r, !.had = had] \in FrameType
  BY <1>1 DEF FrameType
<1> QED BY <1>2 DEF NoFrame

LEMMA InvokeOK ==
    ASSUME BInv, NEW t \in Threads, Invoke(t)
    PROVE  BInv'
<1>1. PICK c \in Menu[t] :
        /\ call' = [call EXCEPT ![t] = c]
        /\ Goto(t, "descend",
                [NoFrame EXCEPT !.root = root, !.left = root, !.had = Settled(c.key)])
  BY DEF Invoke
<1> DEFINE locals == [NoFrame EXCEPT !.root = root, !.left = root, !.had = Settled(c.key)]
<1>2. c \in CallType
  BY MenuAssumption
<1>3. root \in Nodes /\ root \in Int
  BY DEF BInv, NodesOK, Nodes
<1>4. locals \in FrameType /\ locals.root = root /\ locals.left = root /\ locals.parent = NULL
  <2>1. Settled(c.key) \in BOOLEAN
    BY DEF Settled
  <2> QED BY <1>3, <2>1, StartFrame
<1> HIDE DEF locals
<1>5. "descend" \in Labels
  BY DEF Labels
<1>6. pc'[t] = "descend" /\ frame'[t] = locals
  BY <1>1, <1>4, <1>5, GotoOK DEF locals
<1>7. call' \in [Threads -> CallType \cup {NoCall}] /\ call'[t] = c
      /\ \A u \in Threads \ {t} : call'[u] = call[u]
  BY <1>1, <1>2 DEF BInv
<1>8. pc[t] = "idle" /\ UNCHANGED <<nodes, lock, root>>
  BY DEF Invoke, At
<1>9. CallOK(t)'
  BY <1>2, <1>6, <1>7 DEF CallOK, InsertLabels, DeleteLabels
<1>10. FrameOK(t)'
  BY <1>3, <1>4, <1>6, <1>8
  DEF FrameOK, Nodes, LeafLabels, SplitLabels, HoldsRight, HoldsParent, Deleting, DeleteLabels
<1>11. RoomOK(t)'
  BY <1>6 DEF RoomOK, SplitLabels
<1>12. \A n \in Nodes : Holds(t, n)' <=> Holds(t, n)
  BY <1>6, <1>8 DEF Holds, HoldsLeft, HoldsRight, HoldsParent, Deleting, DeleteLabels
<1> QED BY <1>1, <1>3, <1>4, <1>5, <1>7, <1>8, <1>9, <1>10, <1>11, <1>12, QuietOK DEF locals

LEMMA DescendOK ==
    ASSUME BInv, NEW t \in Threads, Descend(t)
    PROVE  BInv'
<1> DEFINE n == frame[t].left
           child == Child(n, Key(t))
           locals == [frame[t] EXCEPT !.left = child]
<1>1. /\ pc[t] \in {"descend", "find_again"} /\ ~nodes[n].is_leaf
      /\ Goto(t, pc[t], locals)
      /\ UNCHANGED <<nodes, lock, root, call>>
  BY DEF Descend
<1>2. /\ NodesOK /\ CallOK(t) /\ FrameOK(t) /\ RoomOK(t)
      /\ pc[t] \in Labels /\ frame[t] \in FrameType
  BY ThreadFacts
<1>3. Key(t) \in Int
  BY <1>1, <1>2, KeysAssumption DEF Key, CallOK, CallType
<1>4. n \in Inner
  BY <1>1, <1>2 DEF FrameOK, Inner, Leaves
<1>5. child \in Nodes /\ child \in Int
  BY <1>2, <1>3, <1>4, ChildOK DEF NodesOK, Nodes
<1>6. locals \in FrameType /\ locals.left = child
      /\ locals.root = frame[t].root /\ locals.parent = frame[t].parent
      /\ locals.key_leaf = frame[t].key_leaf
  BY <1>2, <1>5 DEF FrameType
<1> HIDE DEF locals, child
<1>7. pc'[t] = pc[t] /\ frame'[t] = locals
  BY <1>1, <1>2, <1>6, GotoOK
<1>8. CallOK(t)'
  BY <1>1, <1>2, <1>7 DEF CallOK
<1>9. FrameOK(t)'
  BY <1>1, <1>2, <1>5, <1>6, <1>7
  DEF FrameOK, Nodes, Inner, Leaves, LeafLabels, SplitLabels, HoldsRight, HoldsParent, Deleting
<1>10. RoomOK(t)'
  BY <1>1, <1>7 DEF RoomOK, SplitLabels
<1>11. \A m \in Nodes : Holds(t, m)' <=> Holds(t, m)
  BY <1>1, <1>6, <1>7 DEF Holds, HoldsLeft, HoldsRight, HoldsParent, Deleting, DeleteLabels
<1> QED BY <1>1, <1>2, <1>6, <1>8, <1>9, <1>10, <1>11, QuietOK DEF NodesOK, BInv, Nodes, Leaves

LEMMA FindWalkOK ==
    ASSUME BInv, NEW t \in Threads, FindWalk(t)
    PROVE  BInv'
<1> DEFINE n == frame[t].left
           next == NextLeaf(n)
           locals == [frame[t] EXCEPT !.left = next]
<1>1. /\ Finding(t) /\ nodes[n].is_leaf /\ next # NULL
      /\ Goto(t, pc[t], locals)
      /\ UNCHANGED <<nodes, lock, root, call>>
  BY DEF FindWalk, GoesRight
<1>2. /\ NodesOK /\ CallOK(t) /\ FrameOK(t) /\ RoomOK(t)
      /\ pc[t] \in Labels /\ frame[t] \in FrameType
  BY ThreadFacts
<1>3. pc[t] \in {"find_again", "descend"}
  BY <1>1 DEF Finding, At
<1>4. n \in Leaves
  BY <1>2, <1>1, <1>3 DEF FrameOK, Leaves
<1>5. next \in Nodes /\ next \in Int
  BY <1>1, <1>2, <1>4 DEF NodesOK, Linked, Leaves, Nodes
<1>6. locals \in FrameType /\ locals.left = next
      /\ locals.root = frame[t].root /\ locals.parent = frame[t].parent
      /\ locals.key_leaf = frame[t].key_leaf
  BY <1>2, <1>5 DEF FrameType
<1> HIDE DEF locals, next
<1>7. pc'[t] = pc[t] /\ frame'[t] = locals
  BY <1>1, <1>2, <1>6, GotoOK
<1>8. CallOK(t)'
  BY <1>1, <1>2, <1>7 DEF CallOK
<1>9. FrameOK(t)'
  BY <1>1, <1>2, <1>3, <1>5, <1>6, <1>7
  DEF FrameOK, Nodes, Inner, Leaves, LeafLabels, SplitLabels, HoldsRight, HoldsParent, Deleting
<1>10. RoomOK(t)'
  BY <1>3, <1>7 DEF RoomOK, SplitLabels
<1>11. \A m \in Nodes : Holds(t, m)' <=> Holds(t, m)
  BY <1>1, <1>3, <1>6, <1>7 DEF Holds, HoldsLeft, HoldsRight, HoldsParent, Deleting, DeleteLabels
<1> QED BY <1>1, <1>2, <1>6, <1>8, <1>9, <1>10, <1>11, QuietOK DEF NodesOK, BInv, Nodes, Leaves

\* Where find goes on, and that it holds what it held.
LEMMA FoundOK ==
    ASSUME BInv, NEW t \in Threads, Finding(t) \/ pc[t] = "find_read",
           NEW label \in {"find_read", Found(t)}, NEW locals \in FrameType,
           Goto(t, label, locals), UNCHANGED <<nodes, lock, root, call>>,
           locals.root = frame[t].root, locals.left = frame[t].left,
           locals.parent = frame[t].parent, locals.key_leaf = frame[t].key_leaf
    PROVE  BInv'
<1>1. /\ NodesOK /\ CallOK(t) /\ FrameOK(t) /\ pc[t] \in Labels /\ frame[t] \in FrameType
  BY ThreadFacts
<1>2. \/ /\ pc[t] \in {"find_again", "find_read"} /\ call[t].type = OP_DELETE
         /\ label \in {"find_read", "delete"}
      \/ /\ pc[t] \in {"descend", "find_read"} /\ call[t].type = OP_READ
         /\ label \in {"find_read", "get_return"}
  BY <1>1, MenuAssumption DEF Finding, At, Found, CallOK, DeleteLabels, CallType
<1>3. label \in Labels
  BY <1>2 DEF Labels, DeleteLabels
<1>4. pc'[t] = label /\ frame'[t] = locals
  BY <1>3, GotoOK
<1>5. Deleting(t) <=> call[t].type = OP_DELETE
  BY <1>2, MenuAssumption DEF Deleting, DeleteLabels
<1>6. Deleting(t)' <=> call[t].type = OP_DELETE
  BY <1>2, <1>4, MenuAssumption DEF Deleting, DeleteLabels
<1>7. pc[t] \in {"find_again", "find_read", "descend"}
      /\ pc'[t] \in {"find_read", "delete", "get_return"}
  BY <1>2, <1>4
<1>8. CallOK(t)'
  BY <1>1, <1>2, <1>4, MenuAssumption DEF CallOK, InsertLabels, DeleteLabels
<1>9. FrameOK(t)'
  BY <1>1, <1>4, <1>5, <1>6, <1>7
  DEF FrameOK, Nodes, Inner, Leaves, LeafLabels, SplitLabels, HoldsRight, HoldsParent
<1>10. RoomOK(t)'
  BY <1>7 DEF RoomOK, SplitLabels
<1>11. \A m \in Nodes : Holds(t, m)' <=> Holds(t, m)
  BY <1>4, <1>5, <1>6, <1>7 DEF Holds, HoldsLeft, HoldsRight, HoldsParent
<1> QED BY <1>1, <1>3, <1>8, <1>9, <1>10, <1>11, QuietOK DEF NodesOK, BInv, Nodes, Leaves

LEMMA FindScanOK ==
    ASSUME BInv, NEW t \in Threads, FindScan(t)
    PROVE  BInv'
<1> DEFINE n == frame[t].left
           num == nodes[n].num_keys
           S == {j \in 0 .. num : j = num \/ nodes[n].keys[j] = Key(t)}
           locals == [frame[t] EXCEPT !.index = Min(S)]
<1>1. /\ Finding(t)
      /\ Goto(t, IF Min(S) = num THEN Found(t) ELSE "find_read", locals)
      /\ UNCHANGED <<nodes, lock, root, call>>
  BY DEF FindScan
<1>2. frame[t] \in FrameType /\ FrameOK(t) /\ NodesOK
  BY ThreadFacts
<1>3. n \in Nodes
  BY <1>1, <1>2 DEF Finding, At, FrameOK
<1>4. num \in Nat
  BY <1>2, <1>3, NodeFields
<1>5. S \in SUBSET Nat /\ S # {}
  BY <1>4
<1>6. Min(S) \in Int
  BY <1>5, MinIn
<1> HIDE DEF S
<1>7. locals \in FrameType /\ locals.left = frame[t].left
      /\ locals.root = frame[t].root /\ locals.parent = frame[t].parent
      /\ locals.key_leaf = frame[t].key_leaf
  BY <1>2, <1>6 DEF FrameType
<1> HIDE DEF locals
<1> QED BY <1>1, <1>7, FoundOK

LEMMA FindReadOK ==
    ASSUME BInv, NEW t \in Threads, FindRead(t)
    PROVE  BInv'
<1> DEFINE hit == nodes[frame[t].left].pointers[frame[t].index] # NULL
           locals == [frame[t] EXCEPT !.hit = hit]
<1>1. /\ pc[t] = "find_read" /\ Goto(t, Found(t), locals)
      /\ UNCHANGED <<nodes, lock, root, call>>
  BY DEF FindRead, At
<1>2. frame[t] \in FrameType
  BY ThreadFacts
<1>3. hit \in BOOLEAN
  OBVIOUS
<1> HIDE DEF hit
<1>4. locals \in FrameType
  BY <1>2, <1>3 DEF FrameType
<1>5. locals.left = frame[t].left
      /\ locals.root = frame[t].root /\ locals.parent = frame[t].parent
      /\ locals.key_leaf = frame[t].key_leaf
  BY <1>2 DEF FrameType
<1> HIDE DEF locals
<1> QED BY <1>1, <1>4, <1>5, FoundOK

LEMMA ReturnOK ==
    ASSUME BInv, NEW t \in Threads, PutReturn(t) \/ GetReturn(t)
    PROVE  BInv'
<1>1. /\ pc[t] \in {"put_return", "get_return"}
      /\ Goto(t, "idle", NoFrame) /\ call' = [call EXCEPT ![t] = NoCall]
      /\ UNCHANGED <<nodes, lock>> /\ root' \in {root, frame[t].root}
  BY DEF PutReturn, GetReturn, Return, At
<1>2. NodesOK /\ FrameOK(t)
  BY ThreadFacts
<1>3. NoFrame \in FrameType /\ NoFrame.parent = NULL
  BY DEF NoFrame, FrameType, NULL
<1>4. "idle" \in Labels
  BY DEF Labels
<1>5. pc'[t] = "idle" /\ frame'[t] = NoFrame
  BY <1>1, <1>3, <1>4, GotoOK
<1>6. call' \in [Threads -> CallType \cup {NoCall}] /\ call'[t] = NoCall
      /\ \A u \in Threads \ {t} : call'[u] = call[u]
  BY <1>1 DEF BInv
<1>7. root' \in Nodes
  BY <1>1, <1>2 DEF NodesOK, FrameOK
<1>8. CallOK(t)'
  BY <1>5, <1>6 DEF CallOK, InsertLabels, DeleteLabels
<1>9. FrameOK(t)'
  BY <1>3, <1>5
  DEF FrameOK, LeafLabels, SplitLabels, HoldsRight, HoldsParent, Deleting, DeleteLabels
<1>10. RoomOK(t)'
  BY <1>5 DEF RoomOK, SplitLabels
<1>11. \A n \in Nodes : Holds(t, n)' <=> Holds(t, n)
  BY <1>1, <1>5 DEF Holds, HoldsLeft, HoldsRight, HoldsParent, Deleting, DeleteLabels
<1> QED BY <1>1, <1>3, <1>4, <1>6, <1>7, <1>8, <1>9, <1>10, <1>11, QuietOK

LEMMA DeleteFindOK ==
    ASSUME BInv, NEW t \in Threads, DeleteFind(t)
    PROVE  BInv'
<1> DEFINE locals == [frame[t] EXCEPT !.key_leaf = frame[t].left, !.left = frame[t].root]
<1>1. /\ pc[t] = "at_leaf" /\ call[t].type = OP_DELETE
      /\ Goto(t, "find_again", locals)
      /\ UNCHANGED <<nodes, lock, root, call>>
  BY DEF DeleteFind, ArrivedTo, At
<1>2. NodesOK /\ CallOK(t) /\ FrameOK(t) /\ frame[t] \in FrameType
  BY ThreadFacts
<1>3. locals \in FrameType /\ locals.key_leaf = frame[t].left /\ locals.left = frame[t].root
      /\ locals.root = frame[t].root /\ locals.parent = frame[t].parent
  BY <1>2 DEF FrameType
<1> HIDE DEF locals
<1>4. "find_again" \in Labels
  BY DEF Labels, DeleteLabels
<1>5. pc'[t] = "find_again" /\ frame'[t] = locals
  BY <1>1, <1>3, <1>4, GotoOK
<1>6. ~Deleting(t) /\ Deleting(t)'
  BY <1>1, <1>5 DEF Deleting, DeleteLabels
<1>7. CallOK(t)'
  BY <1>1, <1>2, <1>5 DEF CallOK, InsertLabels, DeleteLabels
<1>8. FrameOK(t)'
  BY <1>1, <1>2, <1>3, <1>5
  DEF FrameOK, Nodes, Inner, Leaves, LeafLabels, SplitLabels, HoldsRight, HoldsParent
<1>9. RoomOK(t)'
  BY <1>5 DEF RoomOK, SplitLabels
<1>10. \A m \in Nodes : Holds(t, m)' <=> Holds(t, m)
  BY <1>1, <1>3, <1>5, <1>6 DEF Holds, HoldsLeft, HoldsRight, HoldsParent
<1> QED BY <1>1, <1>2, <1>3, <1>4, <1>7, <1>8, <1>9, <1>10, QuietOK DEF NodesOK, BInv, Nodes, Leaves

LEMMA LeafFullOK ==
    ASSUME BInv, NEW t \in Threads, LeafFull(t)
    PROVE  BInv'
<1> DEFINE parent == nodes[frame[t].left].parent
           label == IF parent = NULL THEN "leaf_split" ELSE "leaf_lock_parent"
           locals == [frame[t] EXCEPT !.parent = parent]
<1>1. /\ pc[t] = "at_leaf" /\ call[t].type = OP_ADD
      /\ Goto(t, label, locals)
      /\ UNCHANGED <<nodes, lock, root, call>>
  BY DEF LeafFull, Arrived, ArrivedTo, At
<1>2. NodesOK /\ CallOK(t) /\ FrameOK(t) /\ frame[t] \in FrameType
  BY ThreadFacts
<1>3. frame[t].left \in Leaves /\ frame[t].left \in Nodes
  BY <1>1, <1>2 DEF FrameOK, LeafLabels, Leaves
<1>4. parent \in Inner \cup {NULL} /\ parent \in Int
  BY <1>2, <1>3, NodeFields DEF NodesOK, Linked
<1>5. locals \in FrameType /\ locals.parent = parent /\ locals.left = frame[t].left
      /\ locals.root = frame[t].root
  BY <1>2, <1>4 DEF FrameType
<1>6. label \in {"leaf_split", "leaf_lock_parent"} /\ (label = "leaf_split" <=> parent = NULL)
  OBVIOUS
<1>7. frame[t].left \notin Inner /\ NULL \notin Nodes
  BY <1>2, <1>3 DEF Inner, NodesOK, Nodes, NULL
<1> HIDE DEF locals, label
<1>8. label \in Labels
  BY <1>6 DEF Labels, InsertLabels
<1>9. pc'[t] = label /\ frame'[t] = locals
  BY <1>1, <1>5, <1>8, GotoOK
<1>10. ~Deleting(t) /\ ~Deleting(t)'
  BY <1>1, <1>6, <1>9 DEF Deleting, DeleteLabels
<1>11. CallOK(t)'
  BY <1>1, <1>2, <1>6, <1>9, MenuAssumption DEF CallOK, InsertLabels, DeleteLabels
<1>12. FrameOK(t)'
  <2>1. UNCHANGED <<Nodes, Leaves, Inner>>
    BY <1>1 DEF Nodes, Leaves, Inner
  <2> QED BY <1>1, <1>2, <1>3, <1>4, <1>5, <1>6, <1>7, <1>9, <1>10, <2>1
          DEF FrameOK, LeafLabels, SplitLabels, HoldsRight, HoldsParent
<1>13. RoomOK(t)'
  BY <1>6, <1>9 DEF RoomOK, SplitLabels
<1>14. \A m \in Nodes : Holds(t, m)' <=> Holds(t, m)
  BY <1>1, <1>5, <1>6, <1>7, <1>9, <1>10 DEF Holds, HoldsLeft, HoldsRight, HoldsParent
<1> QED BY <1>1, <1>2, <1>5, <1>8, <1>11, <1>12, <1>13, <1>14, QuietOK
        DEF NodesOK, BInv, Nodes, Leaves

LEMMA FollowParentOK ==
    ASSUME BInv, NEW t \in Threads, FollowParent(t)
    PROVE  BInv'
<1> DEFINE parent == nodes[frame[t].left].parent
           locals == [frame[t] EXCEPT !.next = parent]
<1>1. /\ pc[t] = "into_parent" /\ frame[t].parent \notin {NULL, parent}
      /\ Goto(t, "follow_lock", locals)
      /\ UNCHANGED <<nodes, lock, root, call>>
  BY DEF FollowParent, At
<1>2. NodesOK /\ CallOK(t) /\ FrameOK(t) /\ frame[t] \in FrameType
  BY ThreadFacts
<1>3. frame[t].left \in Nodes /\ parent # NULL
  BY <1>1, <1>2 DEF FrameOK, HoldsParent, HoldsRight
<1>4. parent \in Inner /\ parent \in Int
  BY <1>2, <1>3, NodeFields DEF NodesOK, Linked
<1>5. locals \in FrameType /\ locals.next = parent /\ locals.left = frame[t].left
      /\ locals.root = frame[t].root /\ locals.right = frame[t].right
      /\ locals.parent = frame[t].parent
  BY <1>2, <1>4 DEF FrameType
<1> HIDE DEF locals, parent
<1>6. "follow_lock" \in Labels
  BY DEF Labels, InsertLabels
<1>7. pc'[t] = "follow_lock" /\ frame'[t] = locals
  BY <1>1, <1>5, <1>6, GotoOK
<1>8. ~Deleting(t) /\ ~Deleting(t)'
  BY <1>1, <1>7 DEF Deleting, DeleteLabels
<1>9. CallOK(t)'
  BY <1>1, <1>2, <1>7 DEF CallOK, InsertLabels, DeleteLabels
<1>10. FrameOK(t)'
  <2>1. UNCHANGED <<Nodes, Leaves, Inner>>
    BY <1>1 DEF Nodes, Leaves, Inner
  <2> QED BY <1>1, <1>2, <1>4, <1>5, <1>7, <1>8, <2>1
          DEF FrameOK, LeafLabels, SplitLabels, HoldsRight, HoldsParent
<1>11. RoomOK(t)'
  BY <1>7 DEF RoomOK, SplitLabels
<1>12. \A m \in Nodes : Holds(t, m)' <=> Holds(t, m)
  BY <1>1, <1>5, <1>7, <1>8 DEF Holds, HoldsLeft, HoldsRight, HoldsParent
<1> QED BY <1>1, <1>2, <1>5, <1>6, <1>9, <1>10, <1>11, <1>12, QuietOK
        DEF NodesOK, BInv, Nodes, Leaves

-------------------------------------------------------------------------------
(* Steps that touch locks only *)

LEMMA LockStepOK ==
    ASSUME BInv, NEW t \in Threads, NEW label \in Labels, NEW locals \in FrameType,
           Goto(t, label, locals), UNCHANGED <<nodes, root, call>>,
           lock' \in [Nodes -> Threads \cup {NoThread}],
           \A n \in Nodes : lock'[n] # lock[n] => {lock[n], lock'[n]} \subseteq {t, NoThread},
           CallOK(t)', FrameOK(t)', RoomOK(t)',
           \A n \in Nodes : lock'[n] = t <=> Holds(t, n)'
    PROVE  BInv'
<1>1. UNCHANGED <<Nodes, Leaves, Inner>>
  BY DEF Nodes, Leaves, Inner
<1>2. \A u \in Threads \ {t} : \A n \in Nodes : lock'[n] = u <=> lock[n] = u
  BY MenuAssumption
<1>3. Frozen(t)
  BY <1>1, <1>2, GotoOK DEF Frozen
<1>4. NodesOK'
  BY <1>1 DEF BInv, NodesOK, Linked, NextLeaf
<1>5. LockOK(t)'
  BY <1>1 DEF LockOK
<1> QED BY <1>3, <1>4, <1>5, Assemble, GotoOK DEF ThreadOK, BInv

LEMMA LockLeafOK ==
    ASSUME BInv, NEW t \in Threads, LockLeaf(t)
    PROVE  BInv'
<1> DEFINE n == frame[t].left
<1>1. /\ pc[t] = "descend" /\ call[t].type # OP_READ /\ nodes[n].is_leaf
      /\ lock[n] = NoThread
      /\ lock' = [lock EXCEPT ![n] = t]
      /\ Goto(t, "at_leaf", frame[t])
      /\ UNCHANGED <<nodes, root, call>>
  BY DEF LockLeaf, At, Free
<1>2. NodesOK /\ CallOK(t) /\ FrameOK(t) /\ LockOK(t) /\ frame[t] \in FrameType
  BY ThreadFacts
<1>3. n \in Leaves /\ n \in Nodes
  BY <1>1, <1>2 DEF FrameOK, Leaves
<1>4. "at_leaf" \in Labels
  BY DEF Labels, InsertLabels
<1>5. pc'[t] = "at_leaf" /\ frame'[t] = frame[t]
  BY <1>1, <1>2, <1>4, GotoOK
<1>6. ~Deleting(t) /\ ~Deleting(t)'
  BY <1>1, <1>5 DEF Deleting, DeleteLabels
<1>7. CallOK(t)'
  BY <1>1, <1>2, <1>5 DEF CallOK, InsertLabels, DeleteLabels
<1>8. FrameOK(t)'
  <2>1. UNCHANGED <<Nodes, Leaves, Inner>>
    BY <1>1 DEF Nodes, Leaves, Inner
  <2> QED BY <1>1, <1>2, <1>3, <1>5, <1>6, <2>1
          DEF FrameOK, LeafLabels, SplitLabels, HoldsRight, HoldsParent
<1>9. RoomOK(t)'
  BY <1>5 DEF RoomOK, SplitLabels
<1>10. lock' \in [Nodes -> Threads \cup {NoThread}]
  BY <1>1, <1>2 DEF NodesOK
<1>11. \A m \in Nodes : lock'[m] = t <=> Holds(t, m)'
  <2>1. \A m \in Nodes : lock[m] # t
    BY <1>1, <1>2, <1>6 DEF LockOK, Holds, HoldsLeft, HoldsRight, HoldsParent
  <2>2. \A m \in Nodes : Holds(t, m)' <=> m = n
    BY <1>5, <1>6 DEF Holds, HoldsLeft, HoldsRight, HoldsParent
  <2> QED BY <1>1, <1>2, <1>3, <2>1, <2>2 DEF NodesOK
<1>12. \A m \in Nodes : lock'[m] # lock[m] => {lock[m], lock'[m]} \subseteq {t, NoThread}
  BY <1>1, <1>2 DEF NodesOK
<1> QED BY <1>1, <1>2, <1>4, <1>7, <1>8, <1>9, <1>10, <1>11, <1>12, LockStepOK

LEMMA WalkRightOK ==
    ASSUME BInv, NEW t \in Threads, WalkRight(t)
    PROVE  BInv'
<1> DEFINE n == frame[t].left
           next == NextLeaf(n)
           locals == [frame[t] EXCEPT !.left = next]
<1>1. /\ pc[t] = "at_leaf" /\ next # NULL
      /\ lock[next] = NoThread
      /\ lock' = [lock EXCEPT ![next] = t, ![n] = NoThread]
      /\ Goto(t, "at_leaf", locals)
      /\ UNCHANGED <<nodes, root, call>>
  BY DEF WalkRight, GoesRight, At, Free
<1>2. NodesOK /\ CallOK(t) /\ FrameOK(t) /\ LockOK(t) /\ frame[t] \in FrameType
  BY ThreadFacts
<1>3. n \in Leaves /\ n \in Nodes
  BY <1>1, <1>2 DEF FrameOK, Leaves, LeafLabels
<1>4. next \in Leaves /\ next \in Nodes /\ next \in Int
  BY <1>1, <1>2, <1>3 DEF NodesOK, Linked, Leaves, Nodes
<1>5. locals \in FrameType /\ locals.left = next /\ locals.root = frame[t].root
      /\ locals.parent = frame[t].parent
  BY <1>2, <1>4 DEF FrameType
<1> HIDE DEF locals, next
<1>6. "at_leaf" \in Labels
  BY DEF Labels, InsertLabels
<1>7. pc'[t] = "at_leaf" /\ frame'[t] = locals
  BY <1>1, <1>5, <1>6, GotoOK
<1>8. ~Deleting(t) /\ ~Deleting(t)'
  BY <1>1, <1>7 DEF Deleting, DeleteLabels
<1>9. CallOK(t)'
  BY <1>1, <1>2, <1>7 DEF CallOK, InsertLabels, DeleteLabels
<1>10. FrameOK(t)'
  <2>1. UNCHANGED <<Nodes, Leaves, Inner>>
    BY <1>1 DEF Nodes, Leaves, Inner
  <2> QED BY <1>1, <1>2, <1>4, <1>5, <1>7, <1>8, <2>1
          DEF FrameOK, LeafLabels, SplitLabels, HoldsRight, HoldsParent
<1>11. RoomOK(t)'
  BY <1>7 DEF RoomOK, SplitLabels
<1>12. lock' \in [Nodes -> Threads \cup {NoThread}]
  BY <1>1, <1>2 DEF NodesOK
<1>13. \A m \in Nodes : lock[m] = t <=> m = n
  BY <1>1, <1>2, <1>8 DEF LockOK, Holds, HoldsLeft, HoldsRight, HoldsParent
<1>14. \A m \in Nodes : Holds(t, m)' <=> m = next
  BY <1>5, <1>7, <1>8 DEF Holds, HoldsLeft, HoldsRight, HoldsParent
<1>15. lock[n] = t /\ t # NoThread /\ next # n
  BY <1>1, <1>3, <1>13, MenuAssumption
<1>16. \A m \in Nodes : lock'[m] = IF m = n THEN NoThread ELSE IF m = next THEN t ELSE lock[m]
  BY <1>1, <1>2, <1>15 DEF NodesOK
<1>17. \A m \in Nodes : lock'[m] = t <=> Holds(t, m)'
  BY <1>13, <1>14, <1>15, <1>16
<1>18. \A m \in Nodes : lock'[m] # lock[m] => {lock[m], lock'[m]} \subseteq {t, NoThread}
  BY <1>1, <1>15, <1>16
<1> QED BY <1>1, <1>5, <1>6, <1>9, <1>10, <1>11, <1>12, <1>17, <1>18, LockStepOK

\* A lock is given back, and the call has nothing else to do.
LEMMA UnlockOK ==
    ASSUME BInv, NEW t \in Threads, NEW n \in Nodes,
           \A m \in Nodes : Holds(t, m) <=> m = n,
           pc[t] # "idle", lock' = [lock EXCEPT ![n] = NoThread],
           Goto(t, "put_return", frame[t]), UNCHANGED <<nodes, root, call>>
    PROVE  BInv'
<1>1. NodesOK /\ CallOK(t) /\ FrameOK(t) /\ LockOK(t) /\ frame[t] \in FrameType
  BY ThreadFacts
<1>2. "put_return" \in Labels
  BY DEF Labels
<1>3. pc'[t] = "put_return" /\ frame'[t] = frame[t]
  BY <1>1, <1>2, GotoOK
<1>4. ~Deleting(t)'
  BY <1>3 DEF Deleting, DeleteLabels
<1>5. CallOK(t)'
  BY <1>1, <1>3 DEF CallOK, InsertLabels, DeleteLabels
<1>6. FrameOK(t)'
  <2>1. UNCHANGED <<Nodes, Leaves, Inner>>
    BY DEF Nodes, Leaves, Inner
  <2> QED BY <1>1, <1>3, <1>4, <2>1
          DEF FrameOK, LeafLabels, SplitLabels, HoldsRight, HoldsParent
<1>7. RoomOK(t)'
  BY <1>3 DEF RoomOK, SplitLabels
<1>8. lock' \in [Nodes -> Threads \cup {NoThread}]
  BY <1>1 DEF NodesOK
<1>9. \A m \in Nodes : lock[m] = t <=> m = n
  BY <1>1 DEF LockOK
<1>10. \A m \in Nodes : ~Holds(t, m)'
  BY <1>3, <1>4 DEF Holds, HoldsLeft, HoldsRight, HoldsParent
<1>11. t # NoThread
  BY MenuAssumption
<1>12. \A m \in Nodes : lock'[m] = IF m = n THEN NoThread ELSE lock[m]
  BY <1>1 DEF NodesOK
<1>13. \A m \in Nodes : lock'[m] = t <=> Holds(t, m)'
  BY <1>9, <1>10, <1>11, <1>12
<1>14. \A m \in Nodes : lock'[m] # lock[m] => {lock[m], lock'[m]} \subseteq {t, NoThread}
  BY <1>9, <1>12
<1> QED BY <1>1, <1>2, <1>5, <1>6, <1>7, <1>8, <1>13, <1>14, LockStepOK

LEMMA PresentOK ==
    ASSUME BInv, NEW t \in Threads, Present(t)
    PROVE  BInv'
<1>1. /\ pc[t] = "at_leaf"
      /\ lock' = [lock EXCEPT ![frame[t].left] = NoThread]
      /\ Goto(t, "put_return", frame[t])
      /\ UNCHANGED <<nodes, root, call>>
  BY DEF Present, Arrived, ArrivedTo, At
<1>2. frame[t].left \in Nodes
  BY <1>1, ThreadFacts DEF FrameOK
<1>3. \A m \in Nodes : Holds(t, m) <=> m = frame[t].left
  BY <1>1 DEF Holds, HoldsLeft, HoldsRight, HoldsParent, Deleting, DeleteLabels
<1> QED BY <1>1, <1>2, <1>3, UnlockOK

LEMMA DeleteAbsentOK ==
    ASSUME BInv, NEW t \in Threads, DeleteAbsent(t)
    PROVE  BInv'
<1>1. /\ pc[t] = "delete"
      /\ lock' = [lock EXCEPT ![frame[t].key_leaf] = NoThread]
      /\ Goto(t, "put_return", frame[t])
      /\ UNCHANGED <<nodes, root, call>>
  BY DEF DeleteAbsent, At
<1>2. Deleting(t)
  BY <1>1, ThreadFacts DEF CallOK, Deleting, DeleteLabels
<1>3. frame[t].key_leaf \in Nodes
  BY <1>2, ThreadFacts DEF FrameOK, Leaves
<1>4. \A m \in Nodes : Holds(t, m) <=> m = frame[t].key_leaf
  BY <1>1, <1>2 DEF Holds, HoldsLeft, HoldsRight, HoldsParent
<1> QED BY <1>1, <1>3, <1>4, UnlockOK

LEMMA LockParentOK ==
    ASSUME BInv, NEW t \in Threads, LockParent(t)
    PROVE  BInv'
<1> DEFINE parent == frame[t].parent
           label == IF pc[t] = "leaf_lock_parent" THEN "leaf_split" ELSE "node_empty"
<1>1. /\ pc[t] \in {"leaf_lock_parent", "node_lock_parent"}
      /\ lock[parent] = NoThread
      /\ lock' = [lock EXCEPT ![parent] = t]
      /\ Goto(t, label, frame[t])
      /\ UNCHANGED <<nodes, root, call>>
  BY DEF LockParent, At, Free
<1>2. NodesOK /\ CallOK(t) /\ FrameOK(t) /\ RoomOK(t) /\ LockOK(t) /\ frame[t] \in FrameType
  BY ThreadFacts
<1>3. \/ pc[t] = "leaf_lock_parent" /\ label = "leaf_split"
      \/ pc[t] = "node_lock_parent" /\ label = "node_empty"
  BY <1>1
<1> HIDE DEF label
<1>4. parent \in Inner /\ parent \in Nodes /\ frame[t].left \in Nodes
  BY <1>1, <1>2 DEF FrameOK, Inner
<1>5. label \in Labels
  BY <1>3 DEF Labels, InsertLabels
<1>6. pc'[t] = label /\ frame'[t] = frame[t]
  BY <1>1, <1>2, <1>5, GotoOK
<1>7. ~Deleting(t) /\ ~Deleting(t)'
  BY <1>3, <1>6 DEF Deleting, DeleteLabels
<1>8. \A m \in Nodes : lock[m] = t <=> m = frame[t].left
  BY <1>2, <1>3, <1>7 DEF LockOK, Holds, HoldsLeft, HoldsRight, HoldsParent
<1>9. parent # frame[t].left /\ t # NoThread
  BY <1>1, <1>4, <1>8, MenuAssumption
<1>10. CallOK(t)'
  BY <1>1, <1>2, <1>3, <1>6 DEF CallOK, InsertLabels, DeleteLabels
<1>11. FrameOK(t)'
  <2>1. UNCHANGED <<nodes, Nodes, Leaves, Inner>>
    BY <1>1 DEF Nodes, Leaves, Inner
  <2> QED BY <1>2, <1>3, <1>4, <1>6, <1>7, <1>9, <2>1
          DEF FrameOK, LeafLabels, SplitLabels, HoldsRight, HoldsParent
<1>12. RoomOK(t)'
  <2>1. UNCHANGED <<Nodes, nodes>>
    BY <1>1 DEF Nodes
  <2> QED BY <1>2, <1>3, <1>6, <2>1 DEF RoomOK, SplitLabels
<1>13. lock' \in [Nodes -> Threads \cup {NoThread}]
  BY <1>1, <1>2 DEF NodesOK
<1>14. \A m \in Nodes : lock'[m] = IF m = parent THEN t ELSE lock[m]
  BY <1>1, <1>2 DEF NodesOK
<1>15. \A m \in Nodes : Holds(t, m)' <=> m \in {parent, frame[t].left}
  BY <1>3, <1>6, <1>7 DEF Holds, HoldsLeft, HoldsRight, HoldsParent
<1>16. \A m \in Nodes : lock'[m] = t <=> Holds(t, m)'
  BY <1>8, <1>14, <1>15
<1>17. \A m \in Nodes : lock'[m] # lock[m] => {lock[m], lock'[m]} \subseteq {t, NoThread}
  BY <1>1, <1>14
<1> QED BY <1>1, <1>2, <1>5, <1>10, <1>11, <1>12, <1>13, <1>16, <1>17, LockStepOK

LEMMA FollowLockOK ==
    ASSUME BInv, NEW t \in Threads, FollowLock(t)
    PROVE  BInv'
<1> DEFINE next == frame[t].next
           parent == frame[t].parent
           locals == [frame[t] EXCEPT !.parent = next]
<1>1. /\ pc[t] = "follow_lock"
      /\ lock[next] = NoThread
      /\ lock' = [lock EXCEPT ![next] = t, ![parent] = NoThread]
      /\ Goto(t, "into_parent", locals)
      /\ UNCHANGED <<nodes, root, call>>
  BY DEF FollowLock, At, Free
<1>2. NodesOK /\ CallOK(t) /\ FrameOK(t) /\ LockOK(t) /\ frame[t] \in FrameType
  BY ThreadFacts
<1>3. /\ next \in Inner /\ next \in Nodes /\ next \in Int
      /\ parent \in Inner /\ parent \in Nodes
      /\ frame[t].left \in Nodes /\ frame[t].right \in Nodes
      /\ frame[t].right # frame[t].left
      /\ parent # frame[t].left /\ parent # frame[t].right
  <2>1. next \in Inner /\ parent \in Inner /\ parent \in Nodes /\ next \in Nodes
    BY <1>1, <1>2 DEF FrameOK, Inner
  <2>2. next \in Int
    BY <1>2, <2>1 DEF NodesOK, Nodes
  <2> QED BY <1>1, <1>2, <2>1, <2>2 DEF FrameOK, HoldsRight, HoldsParent
<1>4. locals \in FrameType /\ locals.parent = next /\ locals.left = frame[t].left
      /\ locals.root = frame[t].root /\ locals.right = frame[t].right
  BY <1>2, <1>3 DEF FrameType
<1> HIDE DEF locals
<1>5. "into_parent" \in Labels
  BY DEF Labels, InsertLabels
<1>6. pc'[t] = "into_parent" /\ frame'[t] = locals
  BY <1>1, <1>4, <1>5, GotoOK
<1>7. ~Deleting(t) /\ ~Deleting(t)'
  BY <1>1, <1>6 DEF Deleting, DeleteLabels
<1>8. \A m \in Nodes : lock[m] = t <=> m \in {frame[t].left, frame[t].right, parent}
  BY <1>1, <1>2, <1>7 DEF LockOK, Holds, HoldsLeft, HoldsRight, HoldsParent
<1>9. t # NoThread
  BY MenuAssumption
<1>10. next \notin {frame[t].left, frame[t].right, parent}
  BY <1>1, <1>3, <1>8, <1>9
<1>11. CallOK(t)'
  BY <1>1, <1>2, <1>6 DEF CallOK, InsertLabels, DeleteLabels
<1>12. nodes[frame[t].left].parent # NULL
  <2>1. frame[t].parent # NULL
    BY <1>1, <1>2 DEF FrameOK
  <2> QED BY <1>1, <1>2, <2>1 DEF FrameOK, HoldsParent, HoldsRight
<1>13. FrameOK(t)'
  <2>1. UNCHANGED <<Nodes, Leaves, Inner>>
    BY <1>1 DEF Nodes, Leaves, Inner
  <2> QED BY <1>1, <1>2, <1>3, <1>4, <1>6, <1>7, <1>10, <1>12, <2>1
          DEF FrameOK, LeafLabels, SplitLabels, HoldsRight, HoldsParent
<1>14. RoomOK(t)'
  BY <1>6 DEF RoomOK, SplitLabels
<1>15. lock' \in [Nodes -> Threads \cup {NoThread}]
  BY <1>1, <1>2 DEF NodesOK
<1>16. \A m \in Nodes : lock'[m] = IF m = parent THEN NoThread ELSE IF m = next THEN t ELSE lock[m]
  BY <1>1, <1>2, <1>3 DEF NodesOK
<1>17. \A m \in Nodes : Holds(t, m)' <=> m \in {frame[t].left, frame[t].right, next}
  BY <1>4, <1>6, <1>7 DEF Holds, HoldsLeft, HoldsRight, HoldsParent
<1>18. \A m \in Nodes : lock'[m] = t <=> Holds(t, m)'
  BY <1>3, <1>8, <1>9, <1>10, <1>16, <1>17
<1>19. \A m \in Nodes : lock'[m] # lock[m] => {lock[m], lock'[m]} \subseteq {t, NoThread}
  BY <1>1, <1>3, <1>8, <1>16
<1> QED BY <1>1, <1>4, <1>5, <1>11, <1>13, <1>14, <1>15, <1>18, <1>19, LockStepOK

LEMMA NodeFullOK ==
    ASSUME BInv, NEW t \in Threads, NodeFull(t)
    PROVE  BInv'
<1> DEFINE n == frame[t].parent
           parent == nodes[n].parent
           index == get_left_index(n, frame[t].left)
           label == IF parent = NULL THEN "node_empty" ELSE "node_lock_parent"
           locals == [frame[t] EXCEPT !.left = n, !.parent = parent, !.index = index]
<1>1. /\ pc[t] = "into_parent" /\ n # NULL
      /\ index <= nodes[n].num_keys /\ nodes[n].num_keys = Order - 1
      /\ lock' = [lock EXCEPT ![frame[t].left] = NoThread, ![frame[t].right] = NoThread]
      /\ Goto(t, label, locals)
      /\ UNCHANGED <<nodes, root, call>>
  BY DEF NodeFull, ParentFound, LeftInParent, At
<1>2. NodesOK /\ CallOK(t) /\ FrameOK(t) /\ LockOK(t) /\ frame[t] \in FrameType
  BY ThreadFacts
<1>3. /\ n \in Inner /\ n \in Nodes
      /\ frame[t].left \in Nodes /\ frame[t].right \in Nodes
      /\ frame[t].right # frame[t].left
      /\ n # frame[t].left /\ n # frame[t].right
  <2>1. n \in Inner /\ n \in Nodes
    BY <1>1, <1>2 DEF FrameOK, Inner
  <2> QED BY <1>1, <1>2, <2>1 DEF FrameOK, HoldsRight, HoldsParent
<1>4. parent \in Inner \cup {NULL} /\ parent \in Int /\ n \in Int
  <2>1. parent \in Int
    BY <1>2, <1>3, NodeFields
  <2> QED BY <1>2, <1>3, <2>1 DEF NodesOK, Linked, Nodes
<1>5. index \in Slots
  <2> DEFINE S == {i \in 0 .. nodes[n].num_keys + 1 :
                     i = nodes[n].num_keys + 1 \/ nodes[n].pointers[i] = frame[t].left}
  <2>1. S \in SUBSET Nat /\ S # {}
    BY <1>1, OrderAssumption
  <2>2. Min(S) \in Nat
    BY <2>1, MinIn
  <2> QED BY <1>1, <2>2, OrderAssumption DEF get_left_index, Slots
<1>6. \A i \in Slots : nodes[n].pointers[i] \in Nodes
  BY <1>1, <1>2, <1>3 DEF NodesOK, Linked, Slots
<1> HIDE DEF index
<1>7. index \in Int
  BY <1>5 DEF Slots
<1>8. locals \in FrameType /\ locals.left = n /\ locals.parent = parent /\ locals.index = index
      /\ locals.root = frame[t].root /\ locals.right = frame[t].right
  BY <1>2, <1>4, <1>7 DEF FrameType
<1>9. label \in {"node_empty", "node_lock_parent"} /\ (label = "node_empty" <=> parent = NULL)
  OBVIOUS
<1> HIDE DEF locals, label
<1>10. label \in Labels
  BY <1>9 DEF Labels, InsertLabels
<1>11. pc'[t] = label /\ frame'[t] = locals
  BY <1>1, <1>8, <1>10, GotoOK
<1>12. ~Deleting(t) /\ ~Deleting(t)'
  BY <1>1, <1>9, <1>11 DEF Deleting, DeleteLabels
<1>13. \A m \in Nodes : lock[m] = t <=> m \in {frame[t].left, frame[t].right, n}
  BY <1>1, <1>2, <1>12 DEF LockOK, Holds, HoldsLeft, HoldsRight, HoldsParent
<1>14. t # NoThread /\ NULL \notin Nodes
  BY <1>2, MenuAssumption DEF NodesOK, Nodes, NULL
<1>15. CallOK(t)'
  BY <1>1, <1>2, <1>9, <1>11 DEF CallOK, InsertLabels, DeleteLabels
<1>16. FrameOK(t)'
  <2>1. UNCHANGED <<Nodes, Leaves, Inner>>
    BY <1>1 DEF Nodes, Leaves, Inner
  <2> QED BY <1>1, <1>2, <1>3, <1>4, <1>8, <1>9, <1>11, <1>12, <1>14, <2>1
          DEF FrameOK, LeafLabels, SplitLabels, HoldsRight, HoldsParent
<1>17. RoomOK(t)'
  <2>1. UNCHANGED <<Nodes, nodes>>
    BY <1>1 DEF Nodes
  <2> QED BY <1>5, <1>6, <1>8, <1>9, <1>11, <2>1 DEF RoomOK
<1>18. lock' \in [Nodes -> Threads \cup {NoThread}]
  BY <1>1, <1>2 DEF NodesOK
<1>19. \A m \in Nodes : lock'[m] =
         IF m \in {frame[t].left, frame[t].right} THEN NoThread ELSE lock[m]
  BY <1>1, <1>2, <1>3 DEF NodesOK
<1>20. \A m \in Nodes : Holds(t, m)' <=> m = n
  BY <1>8, <1>9, <1>11, <1>12, <1>14 DEF Holds, HoldsLeft, HoldsRight, HoldsParent
<1>21. \A m \in Nodes : lock'[m] = t <=> Holds(t, m)'
  BY <1>3, <1>13, <1>14, <1>19, <1>20
<1>22. \A m \in Nodes : lock'[m] # lock[m] => {lock[m], lock'[m]} \subseteq {t, NoThread}
  BY <1>3, <1>13, <1>19
<1> QED BY <1>1, <1>8, <1>10, <1>15, <1>16, <1>17, <1>18, <1>21, <1>22, LockStepOK

-------------------------------------------------------------------------------
(* Steps that change nodes *)

LEMMA UpdateOK ==
    ASSUME NEW S, NEW s \in Seq(S), NEW n \in DOMAIN s, NEW x \in S,
           NEW r, r = [s EXCEPT ![n] = x]
    PROVE  /\ r \in Seq(S) /\ DOMAIN r = DOMAIN s /\ Len(r) = Len(s)
           /\ r[n] = x /\ \A m \in DOMAIN s \ {n} : r[m] = s[m]
OBVIOUS

LEMMA NodeStepOK ==
    ASSUME BInv, NEW t \in Threads, NEW label \in Labels, NEW locals \in FrameType,
           Goto(t, label, locals), UNCHANGED <<root, call>>,
           nodes' \in Seq(NodeType), Nodes \subseteq Nodes',
           \A n \in Nodes :
              /\ nodes'[n].is_leaf = nodes[n].is_leaf
              /\ lock[n] # t => /\ nodes[n].parent # NULL => nodes'[n].parent # NULL
                                /\ nodes'[n].num_keys = nodes[n].num_keys
                                /\ nodes'[n].pointers = nodes[n].pointers,
           \A n \in Nodes' : Linked(n)',
           lock' \in [Nodes' -> Threads \cup {NoThread}],
           \A n \in Nodes : lock'[n] # lock[n] => {lock[n], lock'[n]} \subseteq {t, NoThread},
           \A n \in Nodes' \ Nodes : lock'[n] \in {t, NoThread},
           CallOK(t)', FrameOK(t)', RoomOK(t)',
           \A n \in Nodes' : lock'[n] = t <=> Holds(t, n)'
    PROVE  BInv'
<1>1. \A n \in Nodes : n \in Leaves' <=> n \in Leaves
  BY DEF Leaves
<1>2. \A u \in Threads \ {t} : \A n \in Nodes : lock'[n] = u <=> lock[n] = u
  BY MenuAssumption
<1>3. \A u \in Threads \ {t} : \A n \in Nodes' \ Nodes : lock'[n] # u
  BY MenuAssumption
<1>4. Frozen(t)
  BY <1>1, <1>2, <1>3, GotoOK DEF Frozen
<1>5. NodesOK'
  BY DEF BInv, NodesOK
<1>6. LockOK(t)'
  BY DEF LockOK
<1> QED BY <1>4, <1>5, <1>6, Assemble, GotoOK DEF ThreadOK, BInv

\* The nodes after one of them has got new entries.
LEMMA OneNode ==
    ASSUME NodesOK, NEW n \in Nodes, NEW x \in NodeType, nodes' = [nodes EXCEPT ![n] = x],
           x.is_leaf = nodes[n].is_leaf, x.parent = nodes[n].parent
    PROVE  /\ nodes' \in Seq(NodeType) /\ nodes'[n] = x
           /\ \A m \in Nodes \ {n} : nodes'[m] = nodes[m]
           /\ \A m \in Nodes :
                 nodes'[m].parent = nodes[m].parent /\ nodes'[m].is_leaf = nodes[m].is_leaf
           /\ UNCHANGED <<Nodes, Leaves, Inner>>
<1>1. /\ nodes' \in Seq(NodeType) /\ nodes'[n] = x /\ Nodes' = Nodes
      /\ \A m \in Nodes \ {n} : nodes'[m] = nodes[m]
  BY UpdateOK, Zenon DEF NodesOK, Nodes
<1>2. \A m \in Nodes :
         nodes'[m].parent = nodes[m].parent /\ nodes'[m].is_leaf = nodes[m].is_leaf
  BY <1>1
<1>3. Leaves' = Leaves /\ Inner' = Inner
  BY <1>1, <1>2 DEF Leaves, Inner
<1> QED BY <1>1, <1>2, <1>3

LEMMA OneNodeOK ==
    ASSUME BInv, NEW t \in Threads, NEW label \in Labels, NEW locals \in FrameType,
           Goto(t, label, locals), UNCHANGED <<root, call>>,
           NEW n \in Nodes, NEW x \in NodeType, lock[n] = t,
           nodes' = [nodes EXCEPT ![n] = x],
           x.is_leaf = nodes[n].is_leaf, x.parent = nodes[n].parent,
           n \in Leaves => x.pointers[Order - 1] = NextLeaf(n),
           n \in Inner => \A i \in 0 .. x.num_keys : x.pointers[i] \in Nodes,
           lock' \in [Nodes -> Threads \cup {NoThread}],
           \A m \in Nodes : lock'[m] # lock[m] => {lock[m], lock'[m]} \subseteq {t, NoThread},
           CallOK(t)', FrameOK(t)', RoomOK(t)',
           \A m \in Nodes : lock'[m] = t <=> Holds(t, m)'
    PROVE  BInv'
<1>1. NodesOK
  BY ThreadFacts
<1>2. /\ nodes' \in Seq(NodeType) /\ nodes'[n] = x
      /\ \A m \in Nodes \ {n} : nodes'[m] = nodes[m]
      /\ \A m \in Nodes :
            nodes'[m].parent = nodes[m].parent /\ nodes'[m].is_leaf = nodes[m].is_leaf
      /\ UNCHANGED <<Nodes, Leaves, Inner>>
  BY <1>1, OneNode
<1>3. ASSUME NEW m \in Nodes'
      PROVE  Linked(m)'
  <2>1. CASE m = n
    BY <1>1, <1>2, <2>1 DEF Linked, NextLeaf, NodesOK
  <2>2. CASE m # n
    BY <1>1, <1>2, <2>2 DEF Linked, NextLeaf, NodesOK
  <2> QED BY <2>1, <2>2
<1>4. \A m \in Nodes : lock[m] # t => /\ nodes'[m].num_keys = nodes[m].num_keys
                                      /\ nodes'[m].pointers = nodes[m].pointers
  BY <1>2
<1> QED BY <1>2, <1>3, <1>4, NodeStepOK

\* A node with another number of keys, with other entries, or with both.
LEMMA Renumbered ==
    ASSUME NEW x \in NodeType, NEW num \in 0 .. Order - 1,
           NEW y, y = [x EXCEPT !.num_keys = num]
    PROVE  /\ y \in NodeType /\ y.num_keys = num /\ y.is_leaf = x.is_leaf
           /\ y.keys = x.keys /\ y.pointers = x.pointers /\ y.parent = x.parent
BY DEF NodeType

LEMMA WrittenOK ==
    ASSUME NEW x \in NodeType, NEW f, NEW g,
           \A j \in DOMAIN f : f[j] \in Int, \A j \in DOMAIN g : g[j] \in Int
    PROVE  /\ Written(x, f, g) \in NodeType
           /\ Written(x, f, g).num_keys = x.num_keys
           /\ Written(x, f, g).is_leaf = x.is_leaf
           /\ Written(x, f, g).keys = Over(x.keys, f)
           /\ Written(x, f, g).pointers = Over(x.pointers, g)
           /\ Written(x, f, g).parent = x.parent
<1>1. Over(x.keys, f) \in [Slots -> Int] /\ Over(x.pointers, g) \in [Slots -> Int]
  BY OverType DEF NodeType
<1> QED BY <1>1 DEF NodeType, Written

LEMMA ClearedOK ==
    ASSUME NEW x \in NodeType, NEW num \in 0 .. Order - 1, NEW y, y = Cleared(x, num)
    PROVE  /\ y \in NodeType /\ y.num_keys = num /\ y.is_leaf = x.is_leaf
           /\ y.keys = x.keys /\ y.parent = x.parent
           /\ y.pointers[Order - 1] = x.pointers[Order - 1]
           /\ \A i \in 0 .. num - 1 : y.pointers[i] = x.pointers[i]
<1> DEFINE p == [i \in Slots |-> IF i \in num .. Order - 2 THEN NULL ELSE x.pointers[i]]
<1>1. p \in [Slots -> Int]
  BY DEF NULL, NodeType
<1>2. /\ p[Order - 1] = x.pointers[Order - 1]
      /\ \A i \in 0 .. num - 1 : p[i] = x.pointers[i]
  BY OrderAssumption DEF Slots
<1>3. y = [x EXCEPT !.num_keys = num, !.pointers = p]
  BY DEF Cleared
<1> HIDE DEF p
<1> QED BY <1>1, <1>2, <1>3 DEF NodeType

\* One node is changed, all locks are given back, and the call has nothing else to do.
LEMMA DoneOK ==
    ASSUME BInv, NEW t \in Threads, NEW H \in SUBSET Nodes,
           \A m \in Nodes : Holds(t, m) <=> m \in H,
           lock' \in [Nodes -> Threads \cup {NoThread}],
           \A m \in Nodes : lock'[m] = IF m \in H THEN NoThread ELSE lock[m],
           pc[t] # "idle", Goto(t, "put_return", frame[t]), UNCHANGED <<root, call>>,
           NEW n \in H, NEW x \in NodeType,
           nodes' = [nodes EXCEPT ![n] = x],
           x.is_leaf = nodes[n].is_leaf, x.parent = nodes[n].parent,
           n \in Leaves => x.pointers[Order - 1] = NextLeaf(n),
           n \in Inner => \A i \in 0 .. x.num_keys : x.pointers[i] \in Nodes
    PROVE  BInv'
<1>1. NodesOK /\ CallOK(t) /\ FrameOK(t) /\ LockOK(t) /\ frame[t] \in FrameType
  BY ThreadFacts
<1>2. "put_return" \in Labels
  BY DEF Labels
<1>3. pc'[t] = "put_return" /\ frame'[t] = frame[t]
  BY <1>1, <1>2, GotoOK
<1>4. ~Deleting(t)'
  BY <1>3 DEF Deleting, DeleteLabels
<1>5. CallOK(t)'
  BY <1>1, <1>3 DEF CallOK, InsertLabels, DeleteLabels
<1>6. FrameOK(t)'
  <2>1. UNCHANGED <<Nodes, Leaves, Inner>>
    BY <1>1, OneNode
  <2> QED BY <1>1, <1>3, <1>4, <2>1
          DEF FrameOK, LeafLabels, SplitLabels, HoldsRight, HoldsParent
<1>7. RoomOK(t)'
  BY <1>3 DEF RoomOK, SplitLabels
<1>9. \A m \in Nodes : lock[m] = t <=> m \in H
  BY <1>1 DEF LockOK
<1>10. \A m \in Nodes : ~Holds(t, m)'
  BY <1>3, <1>4 DEF Holds, HoldsLeft, HoldsRight, HoldsParent
<1>11. t # NoThread
  BY MenuAssumption
<1>12. \A m \in Nodes : lock'[m] = t <=> Holds(t, m)'
  BY <1>9, <1>10, <1>11
<1>13. \A m \in Nodes : lock'[m] # lock[m] => {lock[m], lock'[m]} \subseteq {t, NoThread}
  BY <1>9
<1>14. n \in Nodes /\ lock[n] = t
  BY <1>9
<1> QED BY <1>1, <1>2, <1>5, <1>6, <1>7, <1>12, <1>13, <1>14, OneNodeOK

LEMMA LeafCountOK ==
    ASSUME BInv, NEW t \in Threads, LeafCount(t)
    PROVE  BInv'
<1> DEFINE n == frame[t].left
           H == {n}
           x == [nodes[n] EXCEPT !.num_keys = nodes[n].num_keys + 1]
<1>1. /\ pc[t] = "leaf_count"
      /\ nodes' = [nodes EXCEPT ![n] = x]
      /\ lock' = [lock EXCEPT ![n] = NoThread]
      /\ Goto(t, "put_return", frame[t])
      /\ UNCHANGED <<root, call>>
  BY DEF LeafCount, At
<1>2. NodesOK /\ FrameOK(t) /\ RoomOK(t)
  BY ThreadFacts
<1>3. n \in Leaves /\ n \in Nodes /\ n \notin Inner
  BY <1>1, <1>2 DEF FrameOK, LeafLabels, Leaves, Inner
<1>4. nodes[n].num_keys + 1 \in 0 .. Order - 1
  BY <1>1, <1>2, <1>3, NodeFields, OrderAssumption DEF RoomOK
<1>5. nodes[n] \in NodeType
  BY <1>2, <1>3, NodeFields
<1>6. x \in NodeType /\ x.is_leaf = nodes[n].is_leaf /\ x.parent = nodes[n].parent
      /\ x.pointers = nodes[n].pointers
  BY <1>4, <1>5, Renumbered
<1> HIDE DEF x
<1>7. \A m \in Nodes : Holds(t, m) <=> m \in H
  BY <1>1 DEF Holds, HoldsLeft, HoldsRight, HoldsParent, Deleting, DeleteLabels
<1>8. /\ lock' \in [Nodes -> Threads \cup {NoThread}]
      /\ \A m \in Nodes : lock'[m] = IF m \in H THEN NoThread ELSE lock[m]
  BY <1>1, <1>2, <1>3 DEF NodesOK
<1>9. x.pointers[Order - 1] = NextLeaf(n)
  BY <1>6 DEF NextLeaf
<1>12. n \in H /\ H \in SUBSET Nodes
  BY <1>3
<1> HIDE DEF H
<1> QED BY <1>1, <1>3, <1>6, <1>7, <1>8, <1>9, <1>12, DoneOK

LEMMA NodeCountOK ==
    ASSUME BInv, NEW t \in Threads, NodeCount(t)
    PROVE  BInv'
<1> DEFINE n == frame[t].parent
           H == {frame[t].left, frame[t].right, n}
           x == [nodes[n] EXCEPT !.num_keys = nodes[n].num_keys + 1]
<1>1. /\ pc[t] = "node_count"
      /\ nodes' = [nodes EXCEPT ![n] = x]
      /\ lock' = [lock EXCEPT ![n] = NoThread, ![frame[t].left] = NoThread,
                              ![frame[t].right] = NoThread]
      /\ Goto(t, "put_return", frame[t])
      /\ UNCHANGED <<root, call>>
  BY DEF NodeCount, At
<1>2. NodesOK /\ FrameOK(t) /\ RoomOK(t)
  BY ThreadFacts
<1>3. n \in Inner /\ n \in Nodes /\ n \notin Leaves
  BY <1>1, <1>2 DEF FrameOK, Leaves, Inner
<1>4. nodes[n].num_keys + 1 \in 0 .. Order - 1
  BY <1>1, <1>2, <1>3, NodeFields, OrderAssumption DEF RoomOK
<1>5. nodes[n] \in NodeType
  BY <1>2, <1>3, NodeFields
<1>6. x \in NodeType /\ x.is_leaf = nodes[n].is_leaf /\ x.parent = nodes[n].parent
      /\ x.pointers = nodes[n].pointers /\ x.num_keys = nodes[n].num_keys + 1
  BY <1>4, <1>5, Renumbered
<1> HIDE DEF x
<1>7. \A m \in Nodes : Holds(t, m) <=> m \in H
  BY <1>1 DEF Holds, HoldsLeft, HoldsRight, HoldsParent, Deleting, DeleteLabels
<1>8. /\ lock' \in [Nodes -> Threads \cup {NoThread}]
      /\ \A m \in Nodes : lock'[m] = IF m \in H THEN NoThread ELSE lock[m]
  BY <1>1, <1>2, <1>3 DEF NodesOK
<1>9. \A i \in 0 .. x.num_keys : x.pointers[i] \in Nodes
  BY <1>1, <1>2, <1>6 DEF RoomOK
<1>10. H \in SUBSET Nodes
  BY <1>1, <1>2, <1>3 DEF FrameOK, HoldsRight
<1> QED BY <1>1, <1>3, <1>6, <1>7, <1>8, <1>9, <1>10, DoneOK

LEMMA RemoveCountOK ==
    ASSUME BInv, NEW t \in Threads, RemoveCount(t)
    PROVE  BInv'
<1> DEFINE n == frame[t].key_leaf
           num == nodes[n].num_keys - 1
           H == {n}
           x == Cleared(nodes[n], num)
<1>1. /\ pc[t] = "remove_count"
      /\ nodes' = [nodes EXCEPT ![n] = x]
      /\ lock' = [lock EXCEPT ![n] = NoThread]
      /\ Goto(t, "put_return", frame[t])
      /\ UNCHANGED <<root, call>>
  BY DEF RemoveCount, At
<1>2. NodesOK /\ CallOK(t) /\ FrameOK(t) /\ RoomOK(t)
  BY ThreadFacts
<1>3. Deleting(t)
  BY <1>1, <1>2 DEF CallOK, Deleting, DeleteLabels
<1>4. n \in Leaves /\ n \in Nodes /\ n \notin Inner
  BY <1>2, <1>3 DEF FrameOK, Leaves, Inner
<1>5. num \in 0 .. Order - 1
  BY <1>1, <1>2, <1>4, NodeFields, OrderAssumption DEF RoomOK
<1>6. nodes[n] \in NodeType
  BY <1>2, <1>4, NodeFields
<1>8. x \in NodeType /\ x.is_leaf = nodes[n].is_leaf /\ x.parent = nodes[n].parent
      /\ x.pointers[Order - 1] = NextLeaf(n)
  BY <1>5, <1>6, ClearedOK DEF NextLeaf
<1> HIDE DEF x
<1>9. \A m \in Nodes : Holds(t, m) <=> m \in H
  BY <1>1, <1>3 DEF Holds, HoldsLeft, HoldsRight, HoldsParent
<1>10. /\ lock' \in [Nodes -> Threads \cup {NoThread}]
       /\ \A m \in Nodes : lock'[m] = IF m \in H THEN NoThread ELSE lock[m]
  BY <1>1, <1>2, <1>4 DEF NodesOK
<1>12. n \in H /\ H \in SUBSET Nodes
  BY <1>4
<1> HIDE DEF H
<1> QED BY <1>1, <1>4, <1>8, <1>9, <1>10, <1>12, DoneOK

LEMMA SplicedEntries ==
    ASSUME NEW f \in [Slots -> Int], NEW last \in Slots, NEW i \in 0 .. last, NEW x \in Int
    PROVE  /\ DOMAIN Spliced(f, i, last, x) = 0 .. last
           /\ \A j \in DOMAIN Spliced(f, i, last, x) : Spliced(f, i, last, x)[j] \in Int
BY OrderAssumption DEF Spliced, Slots

LEMMA OverOutside ==
    ASSUME NEW f \in [Slots -> Int], NEW g, NEW j \in Slots, j \notin DOMAIN g
    PROVE  Over(f, g)[j] = f[j]
BY DEF Over

LEMMA OverInside ==
    ASSUME NEW f \in [Slots -> Int], NEW g, NEW j \in Slots, j \in DOMAIN g
    PROVE  Over(f, g)[j] = g[j]
BY DEF Over

LEMMA KeyIsInt ==
    ASSUME BInv, NEW t \in Threads, pc[t] # "idle"
    PROVE  Key(t) \in Int
<1>1. call[t] \in CallType
  BY ThreadFacts DEF CallOK
<1>2. call[t].key \in Keys
  BY <1>1 DEF CallType
<1>3. \A k \in Keys : k \in Int
  BY KeysAssumption
<1> QED BY <1>2, <1>3, Zenon DEF Key

LEMMA NodeEmptyOK ==
    ASSUME BInv, NEW t \in Threads, NodeEmpty(t)
    PROVE  BInv'
<1> DEFINE n == frame[t].left
           x == [nodes[n] EXCEPT !.num_keys = 0]
<1>1. /\ pc[t] = "node_empty"
      /\ nodes' = [nodes EXCEPT ![n] = x]
      /\ Goto(t, "node_split", frame[t])
      /\ UNCHANGED <<lock, root, call>>
  BY DEF NodeEmpty, At
<1>2. NodesOK /\ CallOK(t) /\ FrameOK(t) /\ RoomOK(t) /\ LockOK(t) /\ frame[t] \in FrameType
  BY ThreadFacts
<1>3. n \in Inner /\ n \in Nodes /\ n \notin Leaves
  BY <1>1, <1>2 DEF FrameOK, SplitLabels, Leaves, Inner
<1>4. nodes[n] \in NodeType /\ 0 \in 0 .. Order - 1 /\ 0 \in Slots
  BY <1>2, <1>3, NodeFields, OrderAssumption DEF Slots
<1>5. x \in NodeType /\ x.is_leaf = nodes[n].is_leaf /\ x.parent = nodes[n].parent
      /\ x.pointers = nodes[n].pointers /\ x.num_keys = 0
  BY <1>4, Renumbered
<1> HIDE DEF x
<1>6. \A i \in Slots : x.pointers[i] \in Nodes
  BY <1>1, <1>2, <1>5 DEF RoomOK, SplitLabels
<1>7. "node_split" \in Labels
  BY DEF Labels, InsertLabels
<1>8. pc'[t] = "node_split" /\ frame'[t] = frame[t]
  BY <1>1, <1>2, <1>7, GotoOK
<1>9. ~Deleting(t) /\ ~Deleting(t)'
  BY <1>1, <1>8 DEF Deleting, DeleteLabels
<1>10. /\ UNCHANGED <<Nodes, Leaves, Inner>> /\ nodes'[n] = x
       /\ nodes'[n].parent = nodes[n].parent
  BY <1>1, <1>2, <1>3, <1>5, OneNode
<1>11. CallOK(t)'
  BY <1>1, <1>2, <1>8 DEF CallOK, InsertLabels, DeleteLabels
<1>12. FrameOK(t)'
  BY <1>1, <1>2, <1>8, <1>9, <1>10
     DEF FrameOK, LeafLabels, SplitLabels, HoldsRight, HoldsParent
<1>13. RoomOK(t)'
  BY <1>1, <1>2, <1>6, <1>8, <1>10 DEF RoomOK, SplitLabels
<1>14. \A m \in Nodes : lock'[m] = t <=> Holds(t, m)'
  BY <1>1, <1>2, <1>8, <1>9 DEF LockOK, Holds, HoldsLeft, HoldsRight, HoldsParent
<1>15. lock[n] = t
  BY <1>1, <1>2, <1>3 DEF LockOK, Holds, HoldsLeft
<1>16. lock' \in [Nodes -> Threads \cup {NoThread}] /\ \A m \in Nodes : lock'[m] = lock[m]
  BY <1>1, <1>2 DEF NodesOK
<1>17. \A i \in 0 .. x.num_keys : x.pointers[i] \in Nodes
  BY <1>4, <1>5, <1>6
<1> QED BY <1>1, <1>2, <1>3, <1>5, <1>7, <1>11, <1>12, <1>13, <1>14, <1>15, <1>16, <1>17, OneNodeOK

LEMMA LeafWriteOK ==
    ASSUME BInv, NEW t \in Threads, LeafWrite(t)
    PROVE  BInv'
<1> DEFINE n == frame[t].left
           num == nodes[n].num_keys
           S == {j \in 0 .. num : j = num \/ nodes[n].keys[j] >= Key(t)}
           k == Spliced(nodes[n].keys, Min(S), num, Key(t))
           p == Spliced(nodes[n].pointers, Min(S), num, Key(t))
           x == Written(nodes[n], k, p)
<1>1. /\ pc[t] = "at_leaf" /\ call[t].type = OP_ADD /\ num < Order - 1
      /\ nodes' = [nodes EXCEPT ![n] = x]
      /\ Goto(t, "leaf_count", frame[t])
      /\ UNCHANGED <<lock, root, call>>
  BY DEF LeafWrite, Arrived, ArrivedTo, At
<1>2. NodesOK /\ CallOK(t) /\ FrameOK(t) /\ RoomOK(t) /\ LockOK(t) /\ frame[t] \in FrameType
  BY ThreadFacts
<1>3. n \in Leaves /\ n \in Nodes /\ n \notin Inner
  BY <1>1, <1>2 DEF FrameOK, LeafLabels, Leaves, Inner
<1> HIDE DEF k, p, x, S
<1>4. nodes[n] \in NodeType /\ nodes[n].keys \in [Slots -> Int]
      /\ nodes[n].pointers \in [Slots -> Int]
  BY <1>2, <1>3, NodeFields
<1>5. num \in Slots /\ num \in Nat
  BY <1>2, <1>3, NodeFields, OrderAssumption DEF Slots
<1>6. Min(S) \in 0 .. num
  <2>1. S \in SUBSET Nat /\ S # {}
    BY <1>5 DEF S
  <2> QED BY <2>1, MinIn DEF S
<1>7. /\ DOMAIN k = 0 .. num /\ \A j \in DOMAIN k : k[j] \in Int
      /\ DOMAIN p = 0 .. num /\ \A j \in DOMAIN p : p[j] \in Int
  <2>1. Key(t) \in Int
    BY <1>1, KeyIsInt
  <2> HIDE DEF num
  <2> QED BY <1>4, <1>5, <1>6, <2>1, SplicedEntries DEF k, p
<1>8. /\ x \in NodeType /\ x.is_leaf = nodes[n].is_leaf /\ x.parent = nodes[n].parent
      /\ x.pointers = Over(nodes[n].pointers, p) /\ x.num_keys = num
  <2> DEFINE X == nodes[n]
  <2>1. /\ X \in NodeType
        /\ \A j \in DOMAIN k : k[j] \in Int
        /\ \A j \in DOMAIN p : p[j] \in Int
    BY <1>4, <1>7, Zenon
  <2>2. x = Written(X, k, p)
    BY DEF x
  <2> HIDE DEF X
  <2>3. /\ Written(X, k, p) \in NodeType
        /\ Written(X, k, p).is_leaf = X.is_leaf
        /\ Written(X, k, p).parent = X.parent
        /\ Written(X, k, p).pointers = Over(X.pointers, p)
        /\ Written(X, k, p).num_keys = X.num_keys
    BY <2>1, WrittenOK
  <2> QED BY <2>2, <2>3 DEF X
<1>9. x.pointers[Order - 1] = NextLeaf(n)
  <2>1. Order - 1 \in Slots /\ Order - 1 \notin DOMAIN p
    BY <1>1, <1>5, <1>7, OrderAssumption DEF Slots
  <2> QED BY <1>4, <1>8, <2>1, OverOutside DEF NextLeaf
<1>10. "leaf_count" \in Labels
  BY DEF Labels, InsertLabels
<1>11. pc'[t] = "leaf_count" /\ frame'[t] = frame[t]
  BY <1>1, <1>2, <1>10, GotoOK
<1>12. ~Deleting(t) /\ ~Deleting(t)'
  BY <1>1, <1>11 DEF Deleting, DeleteLabels
<1>13. /\ UNCHANGED <<Nodes, Leaves, Inner>> /\ nodes'[n] = x
  BY <1>1, <1>2, <1>3, <1>8, OneNode
<1>14. CallOK(t)'
  BY <1>1, <1>2, <1>11 DEF CallOK, InsertLabels, DeleteLabels
<1>15. FrameOK(t)'
  BY <1>1, <1>2, <1>11, <1>12, <1>13
     DEF FrameOK, LeafLabels, SplitLabels, HoldsRight, HoldsParent
<1>16. RoomOK(t)'
  BY <1>1, <1>8, <1>11, <1>13 DEF RoomOK, SplitLabels
<1>17. \A m \in Nodes : lock'[m] = t <=> Holds(t, m)'
  BY <1>1, <1>2, <1>11, <1>12 DEF LockOK, Holds, HoldsLeft, HoldsRight, HoldsParent
<1>18. lock[n] = t
  BY <1>1, <1>2, <1>3 DEF LockOK, Holds, HoldsLeft
<1>19. lock' \in [Nodes -> Threads \cup {NoThread}] /\ \A m \in Nodes : lock'[m] = lock[m]
  BY <1>1, <1>2 DEF NodesOK
<1> QED BY <1>1, <1>2, <1>3, <1>8, <1>9, <1>10, <1>14, <1>15, <1>16, <1>17, <1>18, <1>19, OneNodeOK

LEMMA NodeWriteOK ==
    ASSUME BInv, NEW t \in Threads, NodeWrite(t)
    PROVE  BInv'
<1> DEFINE n == frame[t].parent
           num == nodes[n].num_keys
           i == get_left_index(n, frame[t].left)
           k == Spliced(nodes[n].keys, i, num, frame[t].key)
           p == Spliced(nodes[n].pointers, i + 1, num + 1, frame[t].right)
           x == Written(nodes[n], k, p)
<1>1. /\ pc[t] = "into_parent" /\ n # NULL /\ n = nodes[frame[t].left].parent
      /\ i <= num /\ num < Order - 1
      /\ nodes' = [nodes EXCEPT ![n] = x]
      /\ Goto(t, "node_count", frame[t])
      /\ UNCHANGED <<lock, root, call>>
  BY DEF NodeWrite, ParentFound, LeftInParent, At
<1> HIDE DEF i, k, p, x
<1>2. NodesOK /\ CallOK(t) /\ FrameOK(t) /\ RoomOK(t) /\ LockOK(t) /\ frame[t] \in FrameType
  BY ThreadFacts
<1>3. n \in Inner /\ n \in Nodes /\ n \notin Leaves
  BY <1>1, <1>2 DEF FrameOK, Leaves, Inner
<1>4. nodes[n] \in NodeType /\ nodes[n].keys \in [Slots -> Int]
      /\ nodes[n].pointers \in [Slots -> Int]
  BY <1>2, <1>3, NodeFields
<1>5. num \in Slots /\ num + 1 \in Slots /\ num \in Nat
  BY <1>1, <1>2, <1>3, NodeFields, OrderAssumption DEF Slots
<1>6. i \in 0 .. num
  <2> DEFINE S == {j \in 0 .. num + 1 : j = num + 1 \/ nodes[n].pointers[j] = frame[t].left}
  <2>0. S = {j \in 0 .. num + 1 : j = num + 1 \/ nodes[n].pointers[j] = frame[t].left}
    OBVIOUS
  <2> HIDE DEF S, num
  <2>1. S \in SUBSET Nat /\ num + 1 \in S
    BY <1>5, <2>0
  <2>2. Min(S) \in Nat
    BY <2>1, MinIn
  <2>3. i = Min(S)
    BY DEF i, get_left_index, S, num
  <2>4. i <= num /\ num \in Nat
    BY <1>1, <1>5, Zenon
  <2>5. i \in Nat
    BY <2>2, <2>3, Zenon
  <2> HIDE DEF i
  <2> QED BY <2>4, <2>5
<1>7. /\ DOMAIN k = 0 .. num /\ \A j \in DOMAIN k : k[j] \in Int
  <2> HIDE DEF num
  <2>1. frame[t].key \in Int
    BY <1>2 DEF FrameType
  <2> QED BY <1>4, <1>5, <1>6, <2>1, SplicedEntries DEF k
<1>8. /\ DOMAIN p = 0 .. num + 1 /\ \A j \in DOMAIN p : p[j] \in Nodes
  <2>1. frame[t].right \in Nodes
    BY <1>1, <1>2 DEF FrameOK, HoldsRight
  <2>2. \A j \in 0 .. num : nodes[n].pointers[j] \in Nodes
    BY <1>2, <1>3 DEF NodesOK, Linked
  <2> HIDE DEF num
  <2>3. num + 1 \in 0 .. Order /\ i + 1 \in 0 .. num + 1 /\ 0 .. (num + 1) - 1 = 0 .. num
    BY <1>5, <1>6, OrderAssumption DEF Slots
  <2> QED BY <1>5, <1>6, <2>1, <2>2, <2>3 DEF p, Spliced
<1>9. /\ \A j \in DOMAIN k : k[j] \in Int
      /\ \A j \in DOMAIN p : p[j] \in Int
  BY <1>2, <1>7, <1>8 DEF NodesOK, Nodes
<1>10. /\ x \in NodeType /\ x.is_leaf = nodes[n].is_leaf /\ x.parent = nodes[n].parent
       /\ x.pointers = Over(nodes[n].pointers, p) /\ x.num_keys = num
  BY <1>4, <1>9, WrittenOK DEF x
<1>11. \A j \in 0 .. num + 1 : x.pointers[j] \in Nodes
  <2> HIDE DEF num
  <2>1. 0 .. num + 1 \subseteq Slots
    BY <1>5, OrderAssumption DEF Slots
  <2>2. \A j \in 0 .. num + 1 : x.pointers[j] = p[j]
    <3>1. \A j \in 0 .. num + 1 : j \in Slots /\ j \in DOMAIN p
      BY <1>8, <2>1, Zenon
    <3>2. nodes[n].pointers \in [Slots -> Int] /\ x.pointers = Over(nodes[n].pointers, p)
      BY <1>4, <1>10, Zenon
    <3> QED BY <3>1, <3>2, OverInside
  <2> QED BY <1>8, <2>2
<1>12. "node_count" \in Labels
  BY DEF Labels, InsertLabels
<1>13. pc'[t] = "node_count" /\ frame'[t] = frame[t]
  BY <1>1, <1>2, <1>12, GotoOK
<1>14. ~Deleting(t) /\ ~Deleting(t)'
  BY <1>1, <1>13 DEF Deleting, DeleteLabels
<1>15. /\ UNCHANGED <<Nodes, Leaves, Inner>> /\ nodes'[n] = x
  BY <1>1, <1>2, <1>3, <1>10, OneNode
<1>16. CallOK(t)'
  BY <1>1, <1>2, <1>13 DEF CallOK, InsertLabels, DeleteLabels
<1>17. FrameOK(t)'
  BY <1>1, <1>2, <1>13, <1>14, <1>15
     DEF FrameOK, LeafLabels, SplitLabels, HoldsRight, HoldsParent
<1>18. RoomOK(t)'
  <2>1. nodes'[frame'[t].parent] = x
    BY <1>13, <1>15
  <2>2. /\ nodes'[frame'[t].parent].num_keys < Order - 1
        /\ \A j \in 0 .. nodes'[frame'[t].parent].num_keys + 1 :
              nodes'[frame'[t].parent].pointers[j] \in Nodes'
    <3>1. num < Order - 1 /\ x.num_keys = num
      BY <1>1, <1>10, Zenon
    <3> HIDE DEF num
    <3> QED BY <1>11, <1>15, <2>1, <3>1
  <2> QED BY <1>13, <2>2 DEF RoomOK, SplitLabels
<1>19. \A m \in Nodes : lock'[m] = t <=> Holds(t, m)'
  BY <1>1, <1>2, <1>13, <1>14 DEF LockOK, Holds, HoldsLeft, HoldsRight, HoldsParent
<1>20. lock[n] = t
  BY <1>1, <1>2, <1>3 DEF LockOK, Holds, HoldsRight, HoldsParent
<1>21. lock' \in [Nodes -> Threads \cup {NoThread}] /\ \A m \in Nodes : lock'[m] = lock[m]
  BY <1>1, <1>2 DEF NodesOK
<1>22. \A j \in 0 .. x.num_keys : x.pointers[j] \in Nodes
  BY <1>5, <1>10, <1>11
<1> QED BY <1>1, <1>2, <1>3, <1>10, <1>12, <1>16, <1>17, <1>18, <1>19, <1>20, <1>21, <1>22,
           OneNodeOK

LEMMA WithoutEntries ==
    ASSUME NEW f \in [Slots -> Int], NEW num \in 0 .. Order - 1, NEW i \in 0 .. num - 1
    PROVE  /\ \A j \in DOMAIN Without(f, i, num) : Without(f, i, num)[j] \in Int
           /\ Order - 1 \notin DOMAIN Without(f, i, num)
BY OrderAssumption DEF Without, Slots

LEMMA RemoveEntryOK ==
    ASSUME BInv, NEW t \in Threads, RemoveEntry(t)
    PROVE  BInv'
<1> DEFINE n == frame[t].key_leaf
           num == nodes[n].num_keys
           at == Places(nodes[n].keys, num, Key(t))
           to == Places(nodes[n].pointers, num, Key(t))
           k == Without(nodes[n].keys, Min(at), num)
           p == Without(nodes[n].pointers, Min(to), num)
           x == Written(nodes[n], k, p)
<1>1. /\ pc[t] = "delete" /\ at # {} /\ to # {}
      /\ nodes' = [nodes EXCEPT ![n] = x]
      /\ Goto(t, "remove_count", frame[t])
      /\ UNCHANGED <<lock, root, call>>
  BY DEF RemoveEntry, At
<1> HIDE DEF at, to, k, p, x
<1>2. NodesOK /\ CallOK(t) /\ FrameOK(t) /\ RoomOK(t) /\ LockOK(t) /\ frame[t] \in FrameType
  BY ThreadFacts
<1>3. Deleting(t)
  BY <1>1, <1>2 DEF CallOK, Deleting, DeleteLabels
<1>4. n \in Leaves /\ n \in Nodes /\ n \notin Inner
  BY <1>2, <1>3 DEF FrameOK, Leaves, Inner
<1>5. nodes[n] \in NodeType /\ nodes[n].keys \in [Slots -> Int]
      /\ nodes[n].pointers \in [Slots -> Int]
  BY <1>2, <1>4, NodeFields
<1>6. num \in 0 .. Order - 1
  BY <1>2, <1>4, NodeFields
<1>7. Min(at) \in 0 .. num - 1 /\ Min(to) \in 0 .. num - 1 /\ num > 0
  <2>1. /\ at \in SUBSET Nat /\ at \subseteq 0 .. num - 1
        /\ to \in SUBSET Nat /\ to \subseteq 0 .. num - 1
    BY <1>6 DEF at, to, Places
  <2>2. Min(at) \in at /\ Min(to) \in to
    BY <1>1, <2>1, MinIn
  <2>3. Min(at) \in 0 .. num - 1 /\ Min(to) \in 0 .. num - 1
    BY <2>1, <2>2, Zenon
  <2> DEFINE i == Min(at)
  <2>4. num \in Int
    BY <1>6, OrderAssumption
  <2>5. i \in 0 .. num - 1
    BY <2>3
  <2> HIDE DEF num, i
  <2>6. num > 0
    BY <2>4, <2>5
  <2> QED BY <2>3, <2>6
<1>8. /\ \A j \in DOMAIN k : k[j] \in Int
      /\ \A j \in DOMAIN p : p[j] \in Int
      /\ Order - 1 \notin DOMAIN p
  <2> HIDE DEF num
  <2> QED BY <1>5, <1>6, <1>7, WithoutEntries DEF k, p
<1>9. /\ x \in NodeType /\ x.is_leaf = nodes[n].is_leaf /\ x.parent = nodes[n].parent
      /\ x.pointers = Over(nodes[n].pointers, p) /\ x.num_keys = num
  BY <1>5, <1>8, WrittenOK DEF x
<1>10. x.pointers[Order - 1] = NextLeaf(n)
  <2>1. Order - 1 \in Slots
    BY OrderAssumption DEF Slots
  <2> QED BY <1>5, <1>8, <1>9, <2>1, OverOutside DEF NextLeaf
<1>11. "remove_count" \in Labels
  BY DEF Labels, DeleteLabels
<1>12. pc'[t] = "remove_count" /\ frame'[t] = frame[t]
  BY <1>1, <1>2, <1>11, GotoOK
<1>13. Deleting(t)'
  BY <1>1, <1>3, <1>12 DEF Deleting, DeleteLabels
<1>14. /\ UNCHANGED <<Nodes, Leaves, Inner>> /\ nodes'[n] = x
  BY <1>1, <1>2, <1>4, <1>9, OneNode
<1>15. CallOK(t)'
  BY <1>1, <1>2, <1>12 DEF CallOK, InsertLabels, DeleteLabels
<1>16. FrameOK(t)'
  BY <1>1, <1>2, <1>4, <1>12, <1>14
     DEF FrameOK, LeafLabels, SplitLabels, HoldsRight, HoldsParent
<1>17. RoomOK(t)'
  BY <1>7, <1>9, <1>12, <1>14 DEF RoomOK, SplitLabels
<1>18. \A m \in Nodes : lock'[m] = t <=> Holds(t, m)'
  BY <1>1, <1>2, <1>3, <1>12, <1>13 DEF LockOK, Holds, HoldsLeft, HoldsRight, HoldsParent
<1>19. lock[n] = t
  BY <1>2, <1>3, <1>4 DEF LockOK, Holds
<1>20. lock' \in [Nodes -> Threads \cup {NoThread}] /\ \A m \in Nodes : lock'[m] = lock[m]
  BY <1>1, <1>2 DEF NodesOK
<1> QED BY <1>1, <1>2, <1>4, <1>9, <1>10, <1>11, <1>15, <1>16, <1>17, <1>18, <1>19, <1>20, OneNodeOK

LEMMA LeafLinkOK ==
    ASSUME BInv, NEW t \in Threads, LeafLink(t)
    PROVE  BInv'
<1> DEFINE n == frame[t].left
           new == frame[t].right
           p == [nodes[new].pointers EXCEPT ![Order - 1] = NextLeaf(n)]
           q == [nodes[n].pointers EXCEPT ![Order - 1] = new]
           x == [nodes[new] EXCEPT !.pointers = p]
           y == [nodes[n] EXCEPT !.pointers = q]
<1>1. /\ pc[t] = "leaf_link"
      /\ nodes' = [nodes EXCEPT ![new].pointers[Order - 1] = NextLeaf(n),
                                ![n].pointers[Order - 1] = new]
      /\ Goto(t, "leaf_cut", frame[t])
      /\ UNCHANGED <<lock, root, call>>
  BY DEF LeafLink, At
<1>2. NodesOK /\ CallOK(t) /\ FrameOK(t) /\ RoomOK(t) /\ LockOK(t) /\ frame[t] \in FrameType
  BY ThreadFacts
<1>3. /\ n \in Leaves /\ n \in Nodes /\ n \notin Inner
      /\ new \in Leaves /\ new \in Nodes /\ new \notin Inner /\ n # new
  BY <1>1, <1>2 DEF FrameOK, LeafLabels, HoldsRight, Leaves, Inner
<1>4. nodes' = [nodes EXCEPT ![new] = x, ![n] = y]
  BY <1>1, <1>3
<1> HIDE DEF x, y
<1>5. /\ nodes[n] \in NodeType /\ nodes[n].pointers \in [Slots -> Int]
      /\ nodes[new] \in NodeType /\ nodes[new].pointers \in [Slots -> Int]
  BY <1>2, <1>3, NodeFields
<1>6. NextLeaf(n) \in Leaves \cup {NULL} /\ NextLeaf(n) \in Int /\ new \in Int
  <2>1. NextLeaf(n) \in Leaves \cup {NULL}
    BY <1>2, <1>3 DEF NodesOK, Linked
  <2> QED BY <1>2, <1>3, <2>1 DEF NodesOK, Nodes, Leaves, NULL
<1>7. /\ p \in [Slots -> Int] /\ p[Order - 1] = NextLeaf(n)
      /\ q \in [Slots -> Int] /\ q[Order - 1] = new
  <2>1. Order - 1 \in Slots
    BY OrderAssumption DEF Slots
  <2> QED BY <1>5, <1>6, <2>1
<1> HIDE DEF p, q
<1>8. /\ x \in NodeType /\ x.is_leaf = nodes[new].is_leaf /\ x.pointers = p
      /\ x.parent = nodes[new].parent
  BY <1>5, <1>7 DEF x, NodeType
<1>9. /\ y \in NodeType /\ y.is_leaf = nodes[n].is_leaf /\ y.pointers = q
      /\ y.parent = nodes[n].parent
  BY <1>5, <1>7 DEF y, NodeType
<1>10. /\ nodes' \in Seq(NodeType) /\ nodes'[new] = x /\ nodes'[n] = y
       /\ \A m \in Nodes \ {n, new} : nodes'[m] = nodes[m]
       /\ UNCHANGED <<Nodes, Leaves, Inner>>
  <2>1. /\ nodes' \in Seq(NodeType) /\ nodes'[new] = x /\ nodes'[n] = y
        /\ Nodes' = Nodes /\ \A m \in Nodes \ {n, new} : nodes'[m] = nodes[m]
    BY <1>2, <1>3, <1>4, <1>8, <1>9 DEF NodesOK, Nodes
  <2>2. Leaves' = Leaves
    BY <1>8, <1>9, <2>1 DEF Leaves
  <2> QED BY <2>1, <2>2 DEF Inner
<1>11. "leaf_cut" \in Labels
  BY DEF Labels, InsertLabels
<1>12. pc'[t] = "leaf_cut" /\ frame'[t] = frame[t]
  BY <1>1, <1>2, <1>11, GotoOK
<1>13. ~Deleting(t) /\ ~Deleting(t)'
  BY <1>1, <1>12 DEF Deleting, DeleteLabels
<1>14. \A m \in Nodes : nodes'[m].parent = nodes[m].parent
                        /\ nodes'[m].is_leaf = nodes[m].is_leaf
  BY <1>8, <1>9, <1>10
<1>15. lock[n] = t /\ lock[new] = t
  BY <1>1, <1>2, <1>3 DEF LockOK, Holds, HoldsLeft, HoldsRight
<1>16. CallOK(t)'
  BY <1>1, <1>2, <1>12 DEF CallOK, InsertLabels, DeleteLabels
<1>17. FrameOK(t)'
  <2>1. nodes'[n].parent = nodes[n].parent
    BY <1>3, <1>14
  <2> QED BY <1>1, <1>2, <1>10, <1>12, <1>13, <2>1
          DEF FrameOK, LeafLabels, SplitLabels, HoldsRight, HoldsParent
<1>18. RoomOK(t)'
  BY <1>12 DEF RoomOK, SplitLabels
<1>19. \A m \in Nodes : lock'[m] = t <=> Holds(t, m)'
  BY <1>1, <1>2, <1>12, <1>13 DEF LockOK, Holds, HoldsLeft, HoldsRight, HoldsParent
<1>20. lock' \in [Nodes -> Threads \cup {NoThread}] /\ \A m \in Nodes : lock'[m] = lock[m]
  BY <1>1, <1>2 DEF NodesOK
<1>21. ASSUME NEW m \in Nodes'
       PROVE  Linked(m)'
  <2>1. m \in Nodes /\ Linked(m)
    BY <1>2, <1>10 DEF NodesOK
  <2>2. CASE m = n
    BY <1>3, <1>7, <1>9, <1>10, <2>1, <2>2 DEF Linked, NextLeaf
  <2>3. CASE m = new
    BY <1>3, <1>6, <1>7, <1>8, <1>10, <2>1, <2>3 DEF Linked, NextLeaf
  <2>4. CASE m \notin {n, new}
    BY <1>10, <2>1, <2>4 DEF Linked, NextLeaf
  <2> QED BY <2>2, <2>3, <2>4
<1>22. \A m \in Nodes :
         /\ nodes'[m].is_leaf = nodes[m].is_leaf
         /\ lock[m] # t => /\ nodes[m].parent # NULL => nodes'[m].parent # NULL
                           /\ nodes'[m].num_keys = nodes[m].num_keys
                           /\ nodes'[m].pointers = nodes[m].pointers
  BY <1>10, <1>14, <1>15
<1> QED BY <1>1, <1>2, <1>10, <1>11, <1>16, <1>17, <1>18, <1>19, <1>20, <1>21, <1>22, NodeStepOK

LEMMA LeafCutOK ==
    ASSUME BInv, NEW t \in Threads, LeafCut(t)
    PROVE  BInv'
<1> DEFINE n == frame[t].left
           new == frame[t].right
           x == Cleared(nodes[n], cut(Order - 1))
           y == [nodes[new] EXCEPT !.parent = nodes[n].parent]
           locals == [frame[t] EXCEPT !.key = nodes[new].keys[0]]
<1>1. /\ pc[t] = "leaf_cut"
      /\ nodes' = [nodes EXCEPT ![n] = x, ![new].parent = nodes[n].parent]
      /\ Goto(t, "into_parent", locals)
      /\ UNCHANGED <<lock, root, call>>
  BY DEF LeafCut, At
<1> HIDE DEF x, locals
<1>2. NodesOK /\ CallOK(t) /\ FrameOK(t) /\ RoomOK(t) /\ LockOK(t) /\ frame[t] \in FrameType
  BY ThreadFacts
<1>3. /\ n \in Leaves /\ n \in Nodes /\ n \notin Inner
      /\ new \in Leaves /\ new \in Nodes /\ new \notin Inner /\ n # new
  BY <1>1, <1>2 DEF FrameOK, LeafLabels, HoldsRight, Leaves, Inner
<1>4. nodes' = [nodes EXCEPT ![n] = x, ![new] = y]
  BY <1>1, <1>3
<1> HIDE DEF y
<1>5. /\ nodes[n] \in NodeType /\ nodes[new] \in NodeType
      /\ nodes[new].keys \in [Slots -> Int] /\ nodes[n].parent \in Int
  BY <1>2, <1>3, NodeFields
<1>6. nodes[n].parent \in Inner \cup {NULL}
  BY <1>2, <1>3 DEF NodesOK, Linked
<1>7. /\ x \in NodeType /\ x.is_leaf = nodes[n].is_leaf /\ x.parent = nodes[n].parent
      /\ x.pointers[Order - 1] = NextLeaf(n)
  <2>1. cut(Order - 1) \in 0 .. Order - 1
    BY CutBounds, OrderAssumption
  <2> QED BY <1>5, <2>1, ClearedOK DEF x, NextLeaf
<1>8. /\ y \in NodeType /\ y.is_leaf = nodes[new].is_leaf /\ y.parent = nodes[n].parent
      /\ y.pointers = nodes[new].pointers
  BY <1>5 DEF y, NodeType
<1>9. /\ nodes' \in Seq(NodeType) /\ nodes'[n] = x /\ nodes'[new] = y
      /\ \A m \in Nodes \ {n, new} : nodes'[m] = nodes[m]
      /\ UNCHANGED <<Nodes, Leaves, Inner>>
  <2>1. /\ nodes' \in Seq(NodeType) /\ nodes'[n] = x /\ nodes'[new] = y
        /\ Nodes' = Nodes /\ \A m \in Nodes \ {n, new} : nodes'[m] = nodes[m]
    BY <1>2, <1>3, <1>4, <1>7, <1>8 DEF NodesOK, Nodes
  <2>2. Leaves' = Leaves
    BY <1>7, <1>8, <2>1 DEF Leaves
  <2> QED BY <2>1, <2>2 DEF Inner
<1>10. /\ locals \in FrameType /\ locals.left = n /\ locals.right = new
       /\ locals.root = frame[t].root /\ locals.parent = frame[t].parent
  <2>1. nodes[new].keys[0] \in Int
    BY <1>5, OrderAssumption DEF Slots
  <2> QED BY <1>2, <2>1 DEF locals, FrameType
<1>11. "into_parent" \in Labels
  BY DEF Labels, InsertLabels
<1>12. pc'[t] = "into_parent" /\ frame'[t] = locals
  BY <1>1, <1>10, <1>11, GotoOK
<1>13. ~Deleting(t) /\ ~Deleting(t)'
  BY <1>1, <1>12 DEF Deleting, DeleteLabels
<1>14. lock[n] = t /\ lock[new] = t
  BY <1>1, <1>2, <1>3 DEF LockOK, Holds, HoldsLeft, HoldsRight
<1>15. CallOK(t)'
  BY <1>1, <1>2, <1>12 DEF CallOK, InsertLabels, DeleteLabels
<1>16. FrameOK(t)'
  <2>1. nodes'[n].parent = nodes[n].parent
    BY <1>7, <1>9
  <2> QED BY <1>1, <1>2, <1>9, <1>10, <1>12, <1>13, <2>1
          DEF FrameOK, LeafLabels, SplitLabels, HoldsRight, HoldsParent
<1>17. RoomOK(t)'
  BY <1>12 DEF RoomOK, SplitLabels
<1>18. \A m \in Nodes : lock'[m] = t <=> Holds(t, m)'
  BY <1>1, <1>2, <1>10, <1>12, <1>13 DEF LockOK, Holds, HoldsLeft, HoldsRight, HoldsParent
<1>19. lock' \in [Nodes -> Threads \cup {NoThread}] /\ \A m \in Nodes : lock'[m] = lock[m]
  BY <1>1, <1>2 DEF NodesOK
<1>20. ASSUME NEW m \in Nodes'
       PROVE  Linked(m)'
  <2>1. m \in Nodes /\ Linked(m)
    BY <1>2, <1>9 DEF NodesOK
  <2>2. CASE m = n
    BY <1>3, <1>7, <1>9, <2>1, <2>2 DEF Linked, NextLeaf
  <2>3. CASE m = new
    BY <1>3, <1>6, <1>8, <1>9, <2>1, <2>3 DEF Linked, NextLeaf
  <2>4. CASE m \notin {n, new}
    BY <1>9, <2>1, <2>4 DEF Linked, NextLeaf
  <2> QED BY <2>2, <2>3, <2>4
<1>21. \A m \in Nodes :
         /\ nodes'[m].is_leaf = nodes[m].is_leaf
         /\ lock[m] # t => /\ nodes[m].parent # NULL => nodes'[m].parent # NULL
                           /\ nodes'[m].num_keys = nodes[m].num_keys
                           /\ nodes'[m].pointers = nodes[m].pointers
  BY <1>7, <1>8, <1>9, <1>14
<1> QED BY <1>1, <1>2, <1>9, <1>10, <1>11, <1>15, <1>16, <1>17, <1>18, <1>19, <1>20, <1>21,
           NodeStepOK

-------------------------------------------------------------------------------
(* Steps that add a node *)

LEMMA MakeLeafOK ==
    ASSUME NEW unwritten \in Int
    PROVE  /\ MakeNode(TRUE, unwritten) \in NodeType
           /\ MakeNode(TRUE, unwritten).is_leaf = TRUE
           /\ MakeNode(TRUE, unwritten).parent = NULL
           /\ MakeNode(TRUE, unwritten).pointers = [i \in Slots |-> NULL]
BY OrderAssumption DEF MakeNode, NodeType, NULL

LEMMA MakeInnerOK ==
    /\ MakeNode(FALSE, NULL) \in NodeType
    /\ MakeNode(FALSE, NULL).is_leaf = FALSE
    /\ MakeNode(FALSE, NULL).parent = NULL
    /\ MakeNode(FALSE, NULL).pointers = [i \in Slots |-> NULL]
BY OrderAssumption DEF MakeNode, NodeType, NULL

\* The nodes after one was added.
LEMMA Grown ==
    ASSUME NodesOK, NEW half \in Seq(NodeType), DOMAIN half = Nodes,
           NEW x \in NodeType, nodes' = Append(half, x),
           \A m \in Nodes : half[m].is_leaf = nodes[m].is_leaf
    PROVE  /\ nodes' \in Seq(NodeType)
           /\ Len(nodes) + 1 \in Int \ Nodes /\ Nodes' = Nodes \cup {Len(nodes) + 1}
           /\ nodes'[Len(nodes) + 1] = x /\ \A m \in Nodes : nodes'[m] = half[m]
           /\ \A m \in Nodes : /\ m \in Leaves' <=> m \in Leaves
                               /\ m \in Inner' <=> m \in Inner
           /\ Len(nodes) + 1 \in Leaves' <=> x.is_leaf
           /\ Len(nodes) + 1 \in Inner' <=> ~x.is_leaf
<1>1. nodes \in Seq(NodeType) /\ Len(half) = Len(nodes) /\ Len(nodes) \in Nat
  BY DEF NodesOK, Nodes
<1>2. /\ nodes' \in Seq(NodeType)
      /\ Len(nodes) + 1 \in Int \ Nodes /\ Nodes' = Nodes \cup {Len(nodes) + 1}
      /\ nodes'[Len(nodes) + 1] = x /\ \A m \in Nodes : nodes'[m] = half[m]
  BY <1>1 DEF Nodes
<1>3. \A m \in Nodes : m \in Leaves' <=> m \in Leaves
  BY <1>2 DEF Leaves
<1>4. Len(nodes) + 1 \in Leaves' <=> x.is_leaf
  BY <1>2 DEF Leaves
<1> QED BY <1>2, <1>3, <1>4 DEF Inner

LEMMA GrownLocks ==
    ASSUME NodesOK, NEW l \in [Nodes -> Threads \cup {NoThread}],
           NEW u \in Threads \cup {NoThread},
           lock' = Append(l, u), Nodes' = Nodes \cup {Len(nodes) + 1}
    PROVE  /\ lock' \in [Nodes' -> Threads \cup {NoThread}]
           /\ lock'[Len(nodes) + 1] = u /\ \A m \in Nodes : lock'[m] = l[m]
<1>1. Nodes = 1 .. Len(nodes) /\ Len(nodes) \in Nat
  BY DEF NodesOK, Nodes
<1>2. l \in Seq(Threads \cup {NoThread}) /\ Len(l) = Len(nodes)
  BY <1>1
<1>3. /\ DOMAIN lock' = Nodes \cup {Len(nodes) + 1} /\ lock' \in Seq(Threads \cup {NoThread})
      /\ lock'[Len(nodes) + 1] = u /\ \A m \in Nodes : lock'[m] = l[m]
  BY <1>1, <1>2
<1>4. lock' \in [1 .. Len(lock') -> Threads \cup {NoThread}] /\ DOMAIN lock' = 1 .. Len(lock')
  BY <1>3, LenProperties, Zenon
<1> QED BY <1>3, <1>4, Zenon

\* What the pointers of a node lead to is not disturbed by nodes that are added.
LEMMA LinkedStays ==
    ASSUME NodesOK, NEW m \in Nodes, Nodes \subseteq Nodes',
           \A i \in Nodes : /\ i \in Leaves' <=> i \in Leaves
                            /\ i \in Inner' <=> i \in Inner,
           nodes'[m].parent \in Inner' \cup {NULL},
           nodes'[m].pointers = nodes[m].pointers, nodes'[m].num_keys = nodes[m].num_keys
    PROVE  Linked(m)'
<1>1. Linked(m)
  BY DEF NodesOK
<1>2. \A i \in Leaves : i \in Leaves'
  <2>1. \A i \in Leaves : i \in Nodes
    BY DEF Leaves
  <2> QED BY <2>1
<1>3. m \in Leaves' => NextLeaf(m)' \in Leaves' \cup {NULL}
  <2>1. m \in Leaves' => m \in Leaves
    OBVIOUS
  <2>2. NextLeaf(m)' = NextLeaf(m)
    BY DEF NextLeaf
  <2> QED BY <1>1, <1>2, <2>1, <2>2, Zenon DEF Linked
<1>4. m \in Inner' => \A i \in 0 .. nodes'[m].num_keys : nodes'[m].pointers[i] \in Nodes'
  <2>1. m \in Inner' => m \in Inner
    OBVIOUS
  <2> QED BY <1>1, <2>1 DEF Linked
<1> QED BY <1>3, <1>4, Zenon DEF Linked

LEMMA NewRootOK ==
    ASSUME BInv, NEW t \in Threads, NewRoot(t)
    PROVE  BInv'
<1> DEFINE left == frame[t].left
           right == frame[t].right
           new == Len(nodes) + 1
           half == [nodes EXCEPT ![left].parent = new, ![right].parent = new]
           base == [MakeNode(FALSE, NULL) EXCEPT !.num_keys = 1]
           x == [MakeNode(FALSE, NULL) EXCEPT
                    !.num_keys = 1, !.keys[0] = frame[t].key,
                    !.pointers[0] = left, !.pointers[1] = right]
           l == [lock EXCEPT ![left] = NoThread, ![right] = NoThread]
           locals == [frame[t] EXCEPT !.root = new]
<1>1. /\ pc[t] = "into_parent" /\ frame[t].parent = NULL
      /\ nodes' = Append(half, x)
      /\ lock' = Append(l, NoThread)
      /\ Goto(t, "put_return", locals)
      /\ UNCHANGED <<root, call>>
  BY DEF NewRoot, At
<1>2. NodesOK /\ CallOK(t) /\ FrameOK(t) /\ RoomOK(t) /\ LockOK(t) /\ frame[t] \in FrameType
  BY ThreadFacts
<1>3. left \in Nodes /\ right \in Nodes /\ left # right
  BY <1>1, <1>2 DEF FrameOK, HoldsRight
<1>4. nodes[left] \in NodeType /\ nodes[right] \in NodeType
      /\ left \in Int /\ right \in Int /\ new \in Int /\ frame[t].key \in Int
  BY <1>2, <1>3, NodeFields DEF NodesOK, Nodes, FrameType
<1>5. /\ x \in NodeType /\ x.is_leaf = FALSE /\ x.num_keys = 1 /\ x.parent = NULL
      /\ x.pointers[0] = left /\ x.pointers[1] = right
  <2>1. 1 \in 0 .. Order - 1 /\ 0 \in Slots /\ 1 \in Slots
    BY OrderAssumption DEF Slots
  <2>2. /\ base \in NodeType /\ base.is_leaf = FALSE /\ base.num_keys = 1
        /\ base.parent = NULL
    <3> DEFINE made == MakeNode(FALSE, NULL)
    <3>1. made \in NodeType /\ made.is_leaf = FALSE /\ made.parent = NULL
      BY MakeInnerOK
    <3>2. base = [made EXCEPT !.num_keys = 1]
      OBVIOUS
    <3> HIDE DEF made, base, x
    <3> QED BY <2>1, <3>1, <3>2, Renumbered
  <2>3. base.keys \in [Slots -> Int] /\ base.pointers \in [Slots -> Int]
    BY <2>2 DEF NodeType
  <2>4. x = [base EXCEPT !.keys = [base.keys EXCEPT ![0] = frame[t].key],
                         !.pointers = [base.pointers EXCEPT ![0] = left, ![1] = right]]
    BY DEF MakeNode
  <2> HIDE DEF base
  <2> DEFINE k == [base.keys EXCEPT ![0] = frame[t].key]
             p == [base.pointers EXCEPT ![0] = left, ![1] = right]
  <2>5. k \in [Slots -> Int] /\ p \in [Slots -> Int] /\ p[0] = left /\ p[1] = right
    BY <1>4, <2>1, <2>3
  <2>6. x = [base EXCEPT !.keys = k, !.pointers = p]
    BY <2>4
  <2> HIDE DEF k, p, x
  <2> QED BY <2>2, <2>5, <2>6 DEF NodeType
<1> HIDE DEF x, locals
<1>6. /\ half \in Seq(NodeType) /\ DOMAIN half = Nodes
      /\ \A m \in Nodes : /\ half[m].is_leaf = nodes[m].is_leaf
                          /\ half[m].num_keys = nodes[m].num_keys
                          /\ half[m].pointers = nodes[m].pointers
                          /\ half[m].parent = IF m \in {left, right} THEN new ELSE nodes[m].parent
  <2> DEFINE a == [nodes[left] EXCEPT !.parent = new]
             b == [nodes[right] EXCEPT !.parent = new]
  <2>1. /\ a \in NodeType /\ a.is_leaf = nodes[left].is_leaf
        /\ a.num_keys = nodes[left].num_keys
        /\ a.pointers = nodes[left].pointers /\ a.parent = new
    BY <1>4 DEF NodeType
  <2>2. /\ b \in NodeType /\ b.is_leaf = nodes[right].is_leaf
        /\ b.num_keys = nodes[right].num_keys
        /\ b.pointers = nodes[right].pointers /\ b.parent = new
    BY <1>4 DEF NodeType
  <2>3. half = [nodes EXCEPT ![left] = a, ![right] = b]
    BY <1>3
  <2> HIDE DEF a, b, half, new
  <2>4. /\ half \in Seq(NodeType) /\ DOMAIN half = Nodes
        /\ half[left] = a /\ half[right] = b
        /\ \A m \in Nodes \ {left, right} : half[m] = nodes[m]
    BY <1>2, <1>3, <2>1, <2>2, <2>3 DEF NodesOK, Nodes
  <2> QED BY <2>1, <2>2, <2>4
<1> HIDE DEF half
<1>7. /\ nodes' \in Seq(NodeType) /\ new \in Int \ Nodes /\ Nodes' = Nodes \cup {new}
      /\ nodes'[new] = x /\ \A m \in Nodes : nodes'[m] = half[m]
      /\ \A m \in Nodes : /\ m \in Leaves' <=> m \in Leaves
                          /\ m \in Inner' <=> m \in Inner
      /\ new \notin Leaves' /\ new \in Inner'
  <2>1. \A m \in Nodes : half[m].is_leaf = nodes[m].is_leaf
    BY <1>6, Zenon
  <2> QED BY <1>1, <1>2, <1>5, <1>6, <2>1, Grown, Zenon
<1>8. /\ l \in [Nodes -> Threads \cup {NoThread}]
      /\ \A m \in Nodes : l[m] = IF m \in {left, right} THEN NoThread ELSE lock[m]
  BY <1>2, <1>3 DEF NodesOK
<1> HIDE DEF l
<1>9. /\ lock' \in [Nodes' -> Threads \cup {NoThread}]
      /\ lock'[new] = NoThread /\ \A m \in Nodes : lock'[m] = l[m]
  BY <1>1, <1>2, <1>7, <1>8, GrownLocks
<1> HIDE DEF new
<1>10. /\ locals \in FrameType /\ locals.root = new /\ locals.left = left
       /\ locals.parent = NULL
  BY <1>1, <1>2, <1>7 DEF locals, FrameType
<1>11. "put_return" \in Labels
  BY DEF Labels
<1>12. pc'[t] = "put_return" /\ frame'[t] = locals
  BY <1>1, <1>10, <1>11, GotoOK
<1>13. ~Deleting(t) /\ ~Deleting(t)'
  BY <1>1, <1>12 DEF Deleting, DeleteLabels
<1>14. \A m \in Nodes : lock[m] = t <=> m \in {left, right}
  <2>1. NULL \notin Nodes
    BY <1>2 DEF NodesOK, Nodes, NULL
  <2> QED BY <1>1, <1>2, <1>13, <2>1 DEF LockOK, Holds, HoldsLeft, HoldsRight, HoldsParent
<1>15. CallOK(t)'
  BY <1>1, <1>2, <1>12 DEF CallOK, InsertLabels, DeleteLabels
<1>16. FrameOK(t)'
  BY <1>3, <1>7, <1>10, <1>12, <1>13
     DEF FrameOK, LeafLabels, SplitLabels, HoldsRight, HoldsParent
<1>17. RoomOK(t)'
  BY <1>12 DEF RoomOK, SplitLabels
<1>18. t # NoThread
  BY MenuAssumption
<1>19. \A m \in Nodes' : lock'[m] = t <=> Holds(t, m)'
  <2>1. \A m : ~Holds(t, m)'
    BY <1>12, <1>13 DEF Holds, HoldsLeft, HoldsRight, HoldsParent
  <2> QED BY <1>7, <1>8, <1>9, <1>14, <1>18, <2>1
<1>20. \A m \in Nodes : lock'[m] # lock[m] => {lock[m], lock'[m]} \subseteq {t, NoThread}
  BY <1>8, <1>9, <1>14
<1>21. ASSUME NEW m \in Nodes'
       PROVE  Linked(m)'
  <2>1. CASE m = new
    <3>1. \A i \in 0 .. x.num_keys : x.pointers[i] \in Nodes'
      BY <1>3, <1>5, <1>7
    <3> QED BY <1>5, <1>7, <2>1, <3>1 DEF Linked
  <2>2. CASE m # new
    <3>1. m \in Nodes /\ Linked(m)
      BY <1>2, <1>7, <2>2 DEF NodesOK
    <3>2. nodes'[m].parent \in Inner' \cup {NULL}
      <4>1. \A i : i \in Inner => i \in Inner'
        BY <1>7 DEF Inner
      <4> QED BY <1>6, <1>7, <3>1, <4>1 DEF Linked
    <3>3. nodes'[m].pointers = nodes[m].pointers /\ nodes'[m].num_keys = nodes[m].num_keys
      BY <1>6, <1>7, <3>1
    <3> QED BY <1>2, <1>7, <3>1, <3>2, <3>3, LinkedStays
  <2> QED BY <2>1, <2>2
<1>22. \A m \in Nodes :
         /\ nodes'[m].is_leaf = nodes[m].is_leaf
         /\ lock[m] # t => /\ nodes[m].parent # NULL => nodes'[m].parent # NULL
                           /\ nodes'[m].num_keys = nodes[m].num_keys
                           /\ nodes'[m].pointers = nodes[m].pointers
  BY <1>6, <1>7, <1>14
<1>23. Nodes \subseteq Nodes' /\ \A m \in Nodes' \ Nodes : lock'[m] \in {t, NoThread}
  BY <1>7, <1>9
<1> QED BY <1>1, <1>7, <1>9, <1>10, <1>11, <1>15, <1>16, <1>17, <1>19, <1>20, <1>21, <1>22,
           <1>23, NodeStepOK

LEMMA LeafSplitOK ==
    ASSUME BInv, NEW t \in Threads, LeafSplit(t)
    PROVE  BInv'
<1> DEFINE n == frame[t].left
           new == Len(nodes) + 1
           i == InsertionIndex(n, Key(t))
           temp_keys == Spliced(nodes[n].keys, i, Order - 1, Key(t))
           temp_pointers == Spliced(nodes[n].pointers, i, Order - 1, Key(t))
           split == cut(Order - 1)
           low_keys == Slice(temp_keys, 0, split)
           low_pointers == Slice(temp_pointers, 0, split)
           high_keys == Slice(temp_keys, split, Order)
           high_pointers == Slice(temp_pointers, split, Order)
           y == Written(nodes[n], low_keys, low_pointers)
           half == [nodes EXCEPT ![n] = y]
           locals == [frame[t] EXCEPT !.right = new]
<1>1. PICK unwritten \in MallocKeys :
        /\ pc[t] = "leaf_split"
        /\ nodes' = Append(half, Written([MakeNode(TRUE, unwritten) EXCEPT
                                             !.num_keys = Order - split],
                                         high_keys, high_pointers))
        /\ lock' = Append(lock, t)
        /\ Goto(t, "leaf_link", locals)
        /\ UNCHANGED <<root, call>>
  BY DEF LeafSplit, At
<1> DEFINE base == [MakeNode(TRUE, unwritten) EXCEPT !.num_keys = Order - split]
           x == Written(base, high_keys, high_pointers)
<1> HIDE DEF i, temp_keys, temp_pointers, split, low_keys, low_pointers, high_keys,
             high_pointers, base, x, y, locals
<1>2. NodesOK /\ CallOK(t) /\ FrameOK(t) /\ RoomOK(t) /\ LockOK(t) /\ frame[t] \in FrameType
  BY ThreadFacts
<1>3. n \in Leaves /\ n \in Nodes /\ n \notin Inner /\ NULL \notin Nodes
  BY <1>1, <1>2 DEF FrameOK, LeafLabels, Leaves, Inner, NodesOK, Nodes, NULL
<1>4. /\ nodes[n] \in NodeType /\ nodes[n].keys \in [Slots -> Int]
      /\ nodes[n].pointers \in [Slots -> Int]
  BY <1>2, <1>3, NodeFields
<1>5. split \in 1 .. Order - 1
  BY CutBounds DEF split
<1>6. /\ \A j \in 0 .. Order - 1 : temp_keys[j] \in Int
      /\ \A j \in 0 .. Order - 1 : temp_pointers[j] \in Int
  <2>1. Key(t) \in Int
    BY <1>1, KeyIsInt
  <2>2. i \in 0 .. Order - 1 /\ Order - 1 \in Slots
    BY InsertionIndexOK, OrderAssumption DEF i, Slots
  <2> QED BY <1>4, <2>1, <2>2, SplicedEntries DEF temp_keys, temp_pointers
<1>7. DOMAIN low_pointers = 0 .. split - 1 /\ DOMAIN high_pointers = 0 .. Order - split - 1
  BY <1>5, OrderAssumption DEF Slice, low_pointers, high_pointers
<1>8. /\ \A j \in DOMAIN low_keys : low_keys[j] \in Int
      /\ \A j \in DOMAIN low_pointers : low_pointers[j] \in Int
      /\ \A j \in DOMAIN high_keys : high_keys[j] \in Int
      /\ \A j \in DOMAIN high_pointers : high_pointers[j] \in Int
  BY <1>5, <1>6, OrderAssumption
     DEF Slice, low_keys, low_pointers, high_keys, high_pointers
<1>9. /\ y \in NodeType /\ y.is_leaf = nodes[n].is_leaf /\ y.parent = nodes[n].parent
      /\ y.pointers = Over(nodes[n].pointers, low_pointers)
  BY <1>4, <1>8, WrittenOK DEF y
<1>10. y.pointers[Order - 1] = NextLeaf(n)
  <2>1. Order - 1 \in Slots /\ Order - 1 \notin DOMAIN low_pointers
    BY <1>5, <1>7, OrderAssumption DEF Slots
  <2> QED BY <1>4, <1>9, <2>1, OverOutside DEF NextLeaf
<1>11. /\ base \in NodeType /\ base.is_leaf = TRUE /\ base.parent = NULL
       /\ base.pointers = [j \in Slots |-> NULL]
  <2> DEFINE made == MakeNode(TRUE, unwritten)
  <2>1. /\ made \in NodeType /\ made.is_leaf = TRUE /\ made.parent = NULL
        /\ made.pointers = [j \in Slots |-> NULL]
    BY KeysAssumption, MakeLeafOK
  <2>2. base = [made EXCEPT !.num_keys = Order - split]
    BY DEF base
  <2>3. Order - split \in 0 .. Order - 1
    BY <1>5, OrderAssumption
  <2> HIDE DEF made
  <2> QED BY <2>1, <2>2, <2>3, Renumbered
<1>12. /\ x \in NodeType /\ x.is_leaf = TRUE /\ x.parent = NULL
       /\ x.pointers = Over(base.pointers, high_pointers)
  <2>1. /\ x \in NodeType /\ x.is_leaf = base.is_leaf /\ x.parent = base.parent
        /\ x.pointers = Over(base.pointers, high_pointers)
    <3>1. /\ base \in NodeType
          /\ \A j \in DOMAIN high_keys : high_keys[j] \in Int
          /\ \A j \in DOMAIN high_pointers : high_pointers[j] \in Int
      BY <1>11, <1>8
    <3>2. /\ Written(base, high_keys, high_pointers) \in NodeType
          /\ Written(base, high_keys, high_pointers).is_leaf = base.is_leaf
          /\ Written(base, high_keys, high_pointers).parent = base.parent
          /\ Written(base, high_keys, high_pointers).pointers
                = Over(base.pointers, high_pointers)
      BY <3>1, WrittenOK
    <3> QED BY <3>2, Zenon DEF x
  <2> QED BY <1>11, <2>1
<1>13. x.pointers[Order - 1] = NULL
  <2>1. Order - 1 \in Slots /\ Order - 1 \notin DOMAIN high_pointers
    BY <1>5, <1>7, OrderAssumption DEF Slots
  <2>2. base.pointers \in [Slots -> Int] /\ base.pointers[Order - 1] = NULL
    BY <1>11, <2>1 DEF NULL
  <2> QED BY <1>12, <2>1, <2>2, OverOutside
<1>14. /\ half \in Seq(NodeType) /\ DOMAIN half = Nodes /\ half[n] = y
       /\ \A m \in Nodes \ {n} : half[m] = nodes[m]
  BY <1>2, <1>3, <1>9, UpdateOK, Zenon DEF NodesOK, Nodes
<1>15. nodes' = Append(half, x)
  BY <1>1 DEF x, base
<1> HIDE DEF half
<1>16. /\ nodes' \in Seq(NodeType) /\ new \in Int \ Nodes /\ Nodes' = Nodes \cup {new}
       /\ nodes'[new] = x /\ \A m \in Nodes : nodes'[m] = half[m]
       /\ \A m \in Nodes : /\ m \in Leaves' <=> m \in Leaves
                           /\ m \in Inner' <=> m \in Inner
       /\ new \in Leaves' /\ new \notin Inner'
  <2>1. \A m \in Nodes : half[m].is_leaf = nodes[m].is_leaf
    BY <1>9, <1>14
  <2> QED BY <1>2, <1>12, <1>14, <1>15, <2>1, Grown, Zenon
<1>17. /\ lock' \in [Nodes' -> Threads \cup {NoThread}]
       /\ lock'[new] = t /\ \A m \in Nodes : lock'[m] = lock[m]
  BY <1>1, <1>2, <1>16, GrownLocks DEF NodesOK
<1> HIDE DEF new
<1>18. /\ locals \in FrameType /\ locals.root = frame[t].root /\ locals.left = n
       /\ locals.right = new /\ locals.parent = frame[t].parent
  BY <1>2, <1>16 DEF locals, FrameType
<1>19. "leaf_link" \in Labels
  BY DEF Labels, InsertLabels
<1>20. pc'[t] = "leaf_link" /\ frame'[t] = locals
  BY <1>1, <1>18, <1>19, GotoOK
<1>21. ~Deleting(t) /\ ~Deleting(t)'
  BY <1>1, <1>20 DEF Deleting, DeleteLabels
<1>22. lock[n] = t
  BY <1>1, <1>2, <1>3 DEF LockOK, Holds, HoldsLeft
<1>23. CallOK(t)'
  BY <1>1, <1>2, <1>20 DEF CallOK, InsertLabels, DeleteLabels
<1>24. FrameOK(t)'
  <2>1. nodes'[n].parent = nodes[n].parent
    BY <1>3, <1>9, <1>14, <1>16
  <2>2. frame[t].root \in Nodes /\ frame[t].parent \in Inner \cup {NULL}
        /\ frame[t].parent # n /\ (frame[t].parent # NULL => nodes[n].parent # NULL)
    BY <1>1, <1>2 DEF FrameOK, HoldsParent
  <2>3. frame[t].parent \in Inner' \cup {NULL} /\ frame[t].parent # new /\ new # n
    <3>1. NULL # new /\ new # n
      BY <1>3, <1>16 DEF NULL, Nodes, new
    <3>2. \A j \in Inner : j \in Nodes
      BY DEF Inner
    <3> QED BY <1>16, <2>2, <3>1, <3>2
  <2> QED BY <1>3, <1>16, <1>18, <1>20, <1>21, <2>1, <2>2, <2>3
          DEF FrameOK, LeafLabels, SplitLabels, HoldsRight, HoldsParent
<1>25. RoomOK(t)'
  BY <1>20 DEF RoomOK, SplitLabels
<1>26. \A m \in Nodes' : lock'[m] = t <=> Holds(t, m)'
  <2>1. \A m : Holds(t, m)' <=> m \in {n, new, frame[t].parent}
    BY <1>18, <1>20, <1>21 DEF Holds, HoldsLeft, HoldsRight, HoldsParent
  <2>2. \A m \in Nodes : lock[m] = t <=> m \in {n, frame[t].parent}
    BY <1>1, <1>2, <1>21 DEF LockOK, Holds, HoldsLeft, HoldsRight, HoldsParent
  <2> QED BY <1>16, <1>17, <2>1, <2>2
<1>27. ASSUME NEW m \in Nodes'
       PROVE  Linked(m)'
  <2>1. CASE m = new
    BY <1>12, <1>13, <1>16, <2>1 DEF Linked, NextLeaf
  <2>2. \A j : j \in Inner => j \in Inner'
    BY <1>16 DEF Inner
  <2>3. \A j : j \in Leaves => j \in Leaves'
    BY <1>16 DEF Leaves
  <2>4. CASE m = n
    <3>1. Linked(n)
      BY <1>2, <1>3 DEF NodesOK
    <3> QED BY <1>3, <1>9, <1>10, <1>14, <1>16, <2>2, <2>3, <2>4, <3>1 DEF Linked, NextLeaf
  <2>5. CASE m \notin {n, new}
    <3>1. m \in Nodes /\ nodes'[m] = nodes[m] /\ Linked(m)
      BY <1>2, <1>14, <1>16, <2>5 DEF NodesOK
    <3>2. nodes'[m].parent \in Inner' \cup {NULL}
      BY <2>2, <3>1 DEF Linked
    <3> QED BY <1>2, <1>16, <3>1, <3>2, LinkedStays
  <2> QED BY <2>1, <2>4, <2>5
<1>28. \A m \in Nodes :
         /\ nodes'[m].is_leaf = nodes[m].is_leaf
         /\ lock[m] # t => /\ nodes[m].parent # NULL => nodes'[m].parent # NULL
                           /\ nodes'[m].num_keys = nodes[m].num_keys
                           /\ nodes'[m].pointers = nodes[m].pointers
  BY <1>9, <1>14, <1>16, <1>22
<1>29. /\ Nodes \subseteq Nodes' /\ \A m \in Nodes' \ Nodes : lock'[m] \in {t, NoThread}
       /\ \A m \in Nodes : lock'[m] # lock[m] => {lock[m], lock'[m]} \subseteq {t, NoThread}
  BY <1>16, <1>17
<1> QED BY <1>1, <1>16, <1>17, <1>18, <1>19, <1>23, <1>24, <1>25, <1>26, <1>27, <1>28, <1>29,
           NodeStepOK

LEMMA NodeSplitOK ==
    ASSUME BInv, NEW t \in Threads, NodeSplit(t)
    PROVE  BInv'
<1> DEFINE n == frame[t].left
           new == Len(nodes) + 1
           i == frame[t].index
           temp_keys == Spliced(nodes[n].keys, i, Order - 1, frame[t].key)
           temp_pointers == Spliced(nodes[n].pointers, i + 1, Order, frame[t].right)
           split == cut(Order)
           low_keys == Slice(temp_keys, 0, split - 1)
           low_pointers == Slice(temp_pointers, 0, split)
           high_keys == Slice(temp_keys, split, Order)
           upper == Slice(temp_pointers, split, Order + 1)
           cropped == [nodes[n] EXCEPT !.num_keys = split - 1]
           y == Written(cropped, low_keys, low_pointers)
           base == [MakeNode(FALSE, NULL) EXCEPT
                       !.num_keys = Order - split, !.parent = nodes[n].parent]
           z == Written(base, high_keys, upper)
           half == [c \in DOMAIN nodes |->
                       IF c = n THEN y
                       ELSE IF c \in Moved(upper) THEN [nodes[c] EXCEPT !.parent = new]
                       ELSE nodes[c]]
           locals == [frame[t] EXCEPT !.right = new, !.key = temp_keys[split - 1]]
<1>1. /\ pc[t] = "node_split"
      /\ nodes' = Append(half, z)
      /\ lock' = Append(lock, t)
      /\ Goto(t, "into_parent", locals)
      /\ UNCHANGED <<root, call>>
  BY DEF NodeSplit, At
<1> HIDE DEF temp_keys, temp_pointers, split, low_keys, low_pointers, high_keys, upper,
             cropped, base, y, z, half, locals
<1>2. NodesOK /\ CallOK(t) /\ FrameOK(t) /\ RoomOK(t) /\ LockOK(t) /\ frame[t] \in FrameType
  BY ThreadFacts
<1>3. n \in Inner /\ n \in Nodes /\ n \notin Leaves
  BY <1>1, <1>2 DEF FrameOK, SplitLabels, Leaves, Inner
<1>4. /\ nodes[n] \in NodeType /\ nodes[n].keys \in [Slots -> Int]
      /\ nodes[n].pointers \in [Slots -> Int] /\ nodes[n].parent \in Int
  BY <1>2, <1>3, NodeFields
<1>5. split \in 1 .. Order
  BY CutBounds DEF split
<1>6. /\ i \in Slots /\ frame[t].right \in Nodes
      /\ \A j \in Slots : nodes[n].pointers[j] \in Nodes
  BY <1>1, <1>2 DEF FrameOK, RoomOK, SplitLabels
<1>7. \A j \in 0 .. Order - 1 : temp_keys[j] \in Int
  <2>1. frame[t].key \in Int
    BY <1>2 DEF FrameType
  <2>2. i \in 0 .. Order - 1 /\ Order - 1 \in Slots
    BY <1>6, OrderAssumption DEF Slots
  <2> QED BY <1>4, <2>1, <2>2, SplicedEntries DEF temp_keys
<1>8. \A j \in 0 .. Order : temp_pointers[j] \in Nodes
  BY <1>6, OrderAssumption DEF temp_pointers, Spliced, Slots
<1>9. /\ DOMAIN low_pointers = 0 .. split - 1
      /\ \A j \in 0 .. split - 1 : low_pointers[j] \in Nodes
      /\ DOMAIN upper = 0 .. Order - split
      /\ \A j \in 0 .. Order - split : upper[j] \in Nodes
  BY <1>5, <1>8, OrderAssumption DEF Slice, low_pointers, upper
<1>10. /\ \A j \in DOMAIN low_keys : low_keys[j] \in Int
       /\ \A j \in DOMAIN high_keys : high_keys[j] \in Int
  BY <1>5, <1>7, OrderAssumption DEF Slice, low_keys, high_keys
<1>11. /\ \A j \in DOMAIN low_pointers : low_pointers[j] \in Int
       /\ \A j \in DOMAIN upper : upper[j] \in Int
  BY <1>2, <1>9 DEF NodesOK, Nodes
<1>12. /\ y \in NodeType /\ y.is_leaf = nodes[n].is_leaf /\ y.parent = nodes[n].parent
       /\ y.num_keys = split - 1 /\ \A j \in 0 .. split - 1 : y.pointers[j] \in Nodes
  <2>1. split - 1 \in 0 .. Order - 1
    BY <1>5, OrderAssumption
  <2>2. /\ cropped \in NodeType /\ cropped.num_keys = split - 1
        /\ cropped.is_leaf = nodes[n].is_leaf /\ cropped.parent = nodes[n].parent
        /\ cropped.pointers = nodes[n].pointers
    BY <1>4, <2>1, Renumbered DEF cropped
  <2>3. /\ Written(cropped, low_keys, low_pointers) \in NodeType
        /\ Written(cropped, low_keys, low_pointers).num_keys = cropped.num_keys
        /\ Written(cropped, low_keys, low_pointers).is_leaf = cropped.is_leaf
        /\ Written(cropped, low_keys, low_pointers).parent = cropped.parent
        /\ Written(cropped, low_keys, low_pointers).pointers
              = Over(cropped.pointers, low_pointers)
    <3>1. /\ cropped \in NodeType
          /\ \A j \in DOMAIN low_keys : low_keys[j] \in Int
          /\ \A j \in DOMAIN low_pointers : low_pointers[j] \in Int
      BY <1>10, <1>11, <2>2, Zenon
    <3> QED BY <3>1, WrittenOK
  <2>4. \A j \in 0 .. split - 1 : y.pointers[j] \in Nodes
    <3>1. \A j \in 0 .. split - 1 : j \in Slots
      BY <1>5, OrderAssumption DEF Slots
    <3>2. y.pointers = Over(nodes[n].pointers, low_pointers)
      BY <2>2, <2>3, Zenon DEF y
    <3>3. \A j \in 0 .. split - 1 : y.pointers[j] = low_pointers[j]
      <4>1. \A j \in 0 .. split - 1 : j \in Slots /\ j \in DOMAIN low_pointers
        BY <1>9, <3>1, Zenon
      <4>2. /\ nodes[n].pointers \in [Slots -> Int]
            /\ y.pointers = Over(nodes[n].pointers, low_pointers)
        BY <1>4, <3>2, Zenon
      <4> QED BY <4>1, <4>2, OverInside
    <3> QED BY <1>9, <3>3
  <2> QED BY <2>2, <2>3, <2>4, Zenon DEF y
<1>13. /\ z \in NodeType /\ z.is_leaf = FALSE /\ z.parent = nodes[n].parent
       /\ z.num_keys = Order - split /\ \A j \in 0 .. Order - split : z.pointers[j] \in Nodes
  <2>1. Order - split \in 0 .. Order - 1
    BY <1>5, OrderAssumption
  <2>2. /\ base \in NodeType /\ base.num_keys = Order - split
        /\ base.is_leaf = FALSE /\ base.parent = nodes[n].parent
        /\ base.pointers \in [Slots -> Int]
    <3> DEFINE made == MakeNode(FALSE, NULL)
               parent == nodes[n].parent
               num == Order - split
    <3>1. made \in NodeType /\ made.is_leaf = FALSE
      BY MakeInnerOK
    <3>2. base = [made EXCEPT !.num_keys = num, !.parent = parent]
      BY DEF base
    <3>3. num \in 0 .. Order - 1 /\ parent \in Int
      BY <1>4, <2>1
    <3> HIDE DEF made, parent, num
    <3>4. /\ base \in NodeType /\ base.num_keys = num /\ base.is_leaf = FALSE
          /\ base.parent = parent /\ base.pointers \in [Slots -> Int]
      BY <3>1, <3>2, <3>3 DEF NodeType
    <3> QED BY <3>4 DEF num, parent
  <2>3. /\ Written(base, high_keys, upper) \in NodeType
        /\ Written(base, high_keys, upper).num_keys = base.num_keys
        /\ Written(base, high_keys, upper).is_leaf = base.is_leaf
        /\ Written(base, high_keys, upper).parent = base.parent
        /\ Written(base, high_keys, upper).pointers = Over(base.pointers, upper)
    <3>1. /\ base \in NodeType
          /\ \A j \in DOMAIN high_keys : high_keys[j] \in Int
          /\ \A j \in DOMAIN upper : upper[j] \in Int
      BY <1>10, <1>11, <2>2, Zenon
    <3> QED BY <3>1, WrittenOK
  <2>4. \A j \in 0 .. Order - split : z.pointers[j] \in Nodes
    <3>1. \A j \in 0 .. Order - split : j \in Slots
      BY <1>5, OrderAssumption DEF Slots
    <3>2. z.pointers = Over(base.pointers, upper)
      BY <2>3, Zenon DEF z
    <3>3. \A j \in 0 .. Order - split : z.pointers[j] = upper[j]
      <4>1. \A j \in 0 .. Order - split : j \in Slots /\ j \in DOMAIN upper
        BY <1>9, <3>1, Zenon
      <4>2. base.pointers \in [Slots -> Int] /\ z.pointers = Over(base.pointers, upper)
        BY <2>2, <3>2, Zenon
      <4> QED BY <4>1, <4>2, OverInside
    <3> QED BY <1>9, <3>3
  <2> QED BY <2>2, <2>3, <2>4, Zenon DEF z
<1>14. new \in Int /\ new # NULL
  BY <1>2 DEF NodesOK, NULL
<1>15. /\ half \in Seq(NodeType) /\ DOMAIN half = Nodes /\ half[n] = y
       /\ \A m \in Nodes \ {n} :
             /\ half[m].is_leaf = nodes[m].is_leaf
             /\ half[m].num_keys = nodes[m].num_keys
             /\ half[m].pointers = nodes[m].pointers
             /\ half[m].parent \in {new, nodes[m].parent}
  <2> HIDE DEF new
  <2> DEFINE moved(m) == [nodes[m] EXCEPT !.parent = new]
  <2>1. ASSUME NEW m \in Nodes
        PROVE  /\ moved(m) \in NodeType /\ moved(m).is_leaf = nodes[m].is_leaf
               /\ moved(m).num_keys = nodes[m].num_keys
               /\ moved(m).pointers = nodes[m].pointers /\ moved(m).parent = new
    <3>1. nodes[m] \in NodeType
      BY <1>2, NodeFields
    <3> QED BY <1>14, <3>1 DEF NodeType
  <2>2. \A m \in Nodes : half[m] = IF m = n THEN y
                                   ELSE IF m \in Moved(upper) THEN moved(m) ELSE nodes[m]
    BY DEF half, Nodes
  <2>3. DOMAIN half = Nodes /\ \A m \in Nodes : half[m] \in NodeType
    <3>1. \A m \in Nodes : nodes[m] \in NodeType
      BY <1>2, NodeFields
    <3>2. DOMAIN half = Nodes
      BY DEF half, Nodes
    <3> HIDE DEF moved
    <3> QED BY <1>12, <2>1, <2>2, <3>1, <3>2
  <2>4. half \in Seq(NodeType)
    <3>1. Nodes = 1 .. Len(nodes) /\ Len(nodes) \in Nat
      BY <1>2 DEF NodesOK, Nodes
    <3>2. half = [m \in Nodes |-> half[m]]
      BY DEF half, Nodes
    <3> QED BY <2>3, <3>1, <3>2
  <2> HIDE DEF moved
  <2> QED BY <1>3, <2>1, <2>2, <2>3, <2>4
<1>16. /\ nodes' \in Seq(NodeType) /\ new \in Int \ Nodes /\ Nodes' = Nodes \cup {new}
       /\ nodes'[new] = z /\ \A m \in Nodes : nodes'[m] = half[m]
       /\ \A m \in Nodes : /\ m \in Leaves' <=> m \in Leaves
                           /\ m \in Inner' <=> m \in Inner
       /\ new \notin Leaves' /\ new \in Inner'
  <2>1. \A m \in Nodes : half[m].is_leaf = nodes[m].is_leaf
    BY <1>12, <1>15
  <2> QED BY <1>1, <1>2, <1>13, <1>15, <2>1, Grown, Zenon
<1>17. /\ lock' \in [Nodes' -> Threads \cup {NoThread}]
       /\ lock'[new] = t /\ \A m \in Nodes : lock'[m] = lock[m]
  BY <1>1, <1>2, <1>16, GrownLocks DEF NodesOK
<1> HIDE DEF new
<1>18. /\ locals \in FrameType /\ locals.root = frame[t].root /\ locals.left = n
       /\ locals.right = new /\ locals.parent = frame[t].parent
  <2>1. temp_keys[split - 1] \in Int
    BY <1>5, <1>7, OrderAssumption
  <2> QED BY <1>2, <1>14, <2>1 DEF locals, FrameType
<1>19. "into_parent" \in Labels
  BY DEF Labels, InsertLabels
<1>20. pc'[t] = "into_parent" /\ frame'[t] = locals
  BY <1>1, <1>18, <1>19, GotoOK
<1>21. ~Deleting(t) /\ ~Deleting(t)'
  BY <1>1, <1>20 DEF Deleting, DeleteLabels
<1>22. lock[n] = t
  BY <1>1, <1>2, <1>3 DEF LockOK, Holds, HoldsLeft
<1>23. CallOK(t)'
  BY <1>1, <1>2, <1>20 DEF CallOK, InsertLabels, DeleteLabels
<1>24. FrameOK(t)'
  <2>1. nodes'[n].parent = nodes[n].parent
    BY <1>3, <1>12, <1>15, <1>16
  <2>2. frame[t].root \in Nodes /\ frame[t].parent \in Inner \cup {NULL}
        /\ frame[t].parent # n /\ (frame[t].parent # NULL => nodes[n].parent # NULL)
    BY <1>1, <1>2 DEF FrameOK, HoldsParent
  <2>3. frame[t].parent \in Inner' \cup {NULL} /\ frame[t].parent # new /\ new # n
    <3>1. \A j \in Inner : j \in Nodes
      BY DEF Inner
    <3> QED BY <1>3, <1>14, <1>16, <2>2, <3>1
  <2> QED BY <1>3, <1>16, <1>18, <1>20, <1>21, <2>1, <2>2, <2>3
          DEF FrameOK, LeafLabels, SplitLabels, HoldsRight, HoldsParent
<1>25. RoomOK(t)'
  BY <1>20 DEF RoomOK, SplitLabels
<1>26. \A m \in Nodes' : lock'[m] = t <=> Holds(t, m)'
  <2>1. \A m : Holds(t, m)' <=> m \in {n, new, frame[t].parent}
    BY <1>18, <1>20, <1>21 DEF Holds, HoldsLeft, HoldsRight, HoldsParent
  <2>2. \A m \in Nodes : lock[m] = t <=> m \in {n, frame[t].parent}
    BY <1>1, <1>2, <1>21 DEF LockOK, Holds, HoldsLeft, HoldsRight, HoldsParent
  <2> QED BY <1>16, <1>17, <2>1, <2>2
<1>27. ASSUME NEW m \in Nodes'
       PROVE  Linked(m)'
  <2>1. \A j : j \in Inner => j \in Inner'
    BY <1>16 DEF Inner
  <2>2. Linked(n)
    BY <1>2, <1>3 DEF NodesOK
  <2>3. CASE m = new
    <3>1. \A j \in 0 .. z.num_keys : z.pointers[j] \in Nodes'
      BY <1>13, <1>16
    <3>2. z.parent \in Inner' \cup {NULL}
      BY <1>13, <2>1, <2>2 DEF Linked
    <3> QED BY <1>16, <2>3, <3>1, <3>2 DEF Linked
  <2>4. CASE m = n
    <3>1. nodes'[n] = y
      BY <1>3, <1>15, <1>16
    <3>2. \A j \in 0 .. y.num_keys : y.pointers[j] \in Nodes'
      BY <1>12, <1>16
    <3>3. y.parent \in Inner' \cup {NULL}
      BY <1>12, <2>1, <2>2 DEF Linked
    <3> QED BY <1>3, <1>16, <2>4, <3>1, <3>2, <3>3 DEF Linked
  <2>5. CASE m \notin {n, new}
    <3>1. m \in Nodes /\ Linked(m)
      BY <1>2, <1>16, <2>5 DEF NodesOK
    <3>2. nodes'[m].parent \in Inner' \cup {NULL}
      BY <1>15, <1>16, <2>1, <2>5, <3>1 DEF Linked
    <3>3. nodes'[m].pointers = nodes[m].pointers /\ nodes'[m].num_keys = nodes[m].num_keys
      BY <1>15, <1>16, <2>5, <3>1
    <3> QED BY <1>2, <1>16, <3>1, <3>2, <3>3, LinkedStays
  <2> QED BY <2>3, <2>4, <2>5
<1>28. \A m \in Nodes :
         /\ nodes'[m].is_leaf = nodes[m].is_leaf
         /\ lock[m] # t => /\ nodes[m].parent # NULL => nodes'[m].parent # NULL
                           /\ nodes'[m].num_keys = nodes[m].num_keys
                           /\ nodes'[m].pointers = nodes[m].pointers
  BY <1>12, <1>14, <1>15, <1>16, <1>22
<1>29. /\ Nodes \subseteq Nodes' /\ \A m \in Nodes' \ Nodes : lock'[m] \in {t, NoThread}
       /\ \A m \in Nodes : lock'[m] # lock[m] => {lock[m], lock'[m]} \subseteq {t, NoThread}
  BY <1>16, <1>17
<1> QED BY <1>1, <1>16, <1>17, <1>18, <1>19, <1>23, <1>24, <1>25, <1>26, <1>27, <1>28, <1>29,
           NodeStepOK

-------------------------------------------------------------------------------
(* The theorems *)

LEMMA InitOK == Init => BInv
<1> SUFFICES ASSUME Init PROVE BInv
  OBVIOUS
<1>1. PICK unwritten \in MallocKeys :
        nodes = <<[MakeNode(TRUE, unwritten) EXCEPT
                      !.num_keys = 1, !.keys[0] = FirstKey, !.pointers[0] = FirstKey]>>
  BY DEF Init
<1> DEFINE made == MakeNode(TRUE, unwritten)
           x == [made EXCEPT !.num_keys = 1, !.keys[0] = FirstKey, !.pointers[0] = FirstKey]
<1>2. /\ x \in NodeType /\ x.is_leaf = TRUE /\ x.parent = NULL
      /\ x.pointers[Order - 1] = NULL
  <2>1. 1 \in 0 .. Order - 1 /\ 0 \in Slots /\ Order - 1 \in Slots /\ Order - 1 # 0
        /\ FirstKey \in Int
    BY OrderAssumption, KeysAssumption DEF Slots
  <2>2. /\ made \in NodeType /\ made.is_leaf = TRUE /\ made.parent = NULL
        /\ made.pointers = [j \in Slots |-> NULL]
    BY KeysAssumption, MakeLeafOK
  <2> DEFINE k == [made.keys EXCEPT ![0] = FirstKey]
             p == [made.pointers EXCEPT ![0] = FirstKey]
  <2>3. x = [made EXCEPT !.num_keys = 1, !.keys = k, !.pointers = p]
    BY DEF MakeNode
  <2> HIDE DEF made, x
  <2>4. k \in [Slots -> Int] /\ p \in [Slots -> Int] /\ p[Order - 1] = NULL
    <3>1. made.keys \in [Slots -> Int] /\ made.pointers \in [Slots -> Int]
      BY <2>2 DEF NodeType
    <3>2. made.pointers[Order - 1] = NULL
      BY <2>1, <2>2
    <3> QED BY <2>1, <3>1, <3>2
  <2> HIDE DEF k, p
  <2> QED BY <2>1, <2>2, <2>3, <2>4 DEF NodeType
<1>3. nodes = <<x>>
  BY <1>1
<1> HIDE DEF x
<1>4. nodes \in Seq(NodeType) /\ Nodes = {1} /\ nodes[1] = x
  BY <1>2, <1>3 DEF Nodes
<1>5. Leaves = {1} /\ Inner = {}
  BY <1>2, <1>4 DEF Leaves, Inner
<1>6. NodesOK
  <2>1. Linked(1)
    BY <1>2, <1>4, <1>5 DEF Linked, NextLeaf
  <2>2. lock \in [Nodes -> Threads \cup {NoThread}] /\ root \in Nodes
    BY <1>4 DEF Init
  <2> QED BY <1>4, <2>1, <2>2 DEF NodesOK
<1>7. NoFrame \in FrameType /\ NoFrame.parent = NULL
  <2>1. NoFrame \in FrameType
    BY DEF NoFrame, FrameType, NULL
  <2> QED BY <2>1 DEF NoFrame
<1>8. /\ pc \in [Threads -> Labels] /\ call \in [Threads -> CallType \cup {NoCall}]
      /\ frame \in [Threads -> FrameType]
  BY <1>7 DEF Init, Labels
<1>9. ASSUME NEW t \in Threads
      PROVE  ThreadOK(t)
  <2>1. pc[t] = "idle" /\ call[t] = NoCall /\ frame[t] = NoFrame
    BY DEF Init
  <2>2. CallOK(t)
    BY <2>1 DEF CallOK, InsertLabels, DeleteLabels
  <2>3. ~Deleting(t)
    BY <2>1 DEF Deleting, DeleteLabels
  <2>4. FrameOK(t)
    BY <1>7, <2>1, <2>3 DEF FrameOK, LeafLabels, SplitLabels, HoldsRight, HoldsParent
  <2>5. RoomOK(t)
    BY <2>1 DEF RoomOK, SplitLabels
  <2>6. LockOK(t)
    <3>1. \A n \in Nodes : lock[n] # t
      BY <1>4, MenuAssumption DEF Init
    <3> QED BY <2>1, <2>3, <3>1 DEF LockOK, Holds, HoldsLeft, HoldsRight, HoldsParent
  <2> QED BY <2>2, <2>4, <2>5, <2>6 DEF ThreadOK
<1> QED BY <1>6, <1>8, <1>9 DEF BInv

LEMMA NextOK == BInv /\ [Next]_vars => BInv'
<1> SUFFICES ASSUME BInv, [Next]_vars PROVE BInv'
  OBVIOUS
<1>1. CASE UNCHANGED vars
  <2>1. UNCHANGED <<nodes, lock, root, pc, call, frame>>
    BY <1>1 DEF vars
  <2>2. UNCHANGED <<Nodes, Leaves, Inner>>
    BY <2>1 DEF Inner, Leaves, Nodes
  <2>3. NodesOK'
    <3>1. \A n \in Nodes : Linked(n)'
      BY <2>1, <2>2 DEF BInv, NodesOK, Linked, NextLeaf
    <3> QED BY <2>1, <2>2, <3>1 DEF BInv, NodesOK
  <2>4. ASSUME NEW t \in Threads
        PROVE  ThreadOK(t)'
    <3>1. CallOK(t) /\ FrameOK(t) /\ RoomOK(t) /\ LockOK(t)
      BY ThreadFacts
    <3>2. CallOK(t)'
      BY <2>1, <3>1 DEF CallOK
    <3>3. Deleting(t)' <=> Deleting(t)
      BY <2>1 DEF Deleting
    <3>4. FrameOK(t)'
      BY <2>1, <2>2, <3>1, <3>3 DEF FrameOK
    <3>5. RoomOK(t)'
      BY <2>1, <2>2, <3>1 DEF RoomOK
    <3>6. LockOK(t)'
      BY <2>1, <2>2, <3>1, <3>3 DEF LockOK, Holds
    <3> QED BY <3>2, <3>4, <3>5, <3>6 DEF ThreadOK
  <2> QED BY <2>1, <2>3, <2>4 DEF BInv
<1>2. ASSUME NEW t \in Threads, Invoke(t) PROVE BInv'
  BY <1>2, InvokeOK
<1>3. ASSUME NEW t \in Threads, Descend(t) PROVE BInv'
  BY <1>3, DescendOK
<1>4. ASSUME NEW t \in Threads, InsertIntoLeaf(t) PROVE BInv'
  BY <1>4, LockLeafOK, WalkRightOK, PresentOK, LeafWriteOK, LeafCountOK, LeafFullOK,
     LockParentOK, LeafSplitOK, LeafLinkOK, LeafCutOK, Zenon DEF InsertIntoLeaf
<1>5. ASSUME NEW t \in Threads, InsertIntoParent(t) PROVE BInv'
  BY <1>5, NewRootOK, FollowParentOK, FollowLockOK, NodeWriteOK, NodeCountOK, NodeFullOK,
     NodeEmptyOK, NodeSplitOK, Zenon DEF InsertIntoParent
<1>6. ASSUME NEW t \in Threads, PutReturn(t) PROVE BInv'
  BY <1>6, ReturnOK
<1>7. ASSUME NEW t \in Threads, Find(t) PROVE BInv'
  BY <1>7, FindWalkOK, FindScanOK, FindReadOK, ReturnOK, Zenon DEF Find
<1>8. ASSUME NEW t \in Threads, Delete(t) PROVE BInv'
  BY <1>8, DeleteFindOK, DeleteAbsentOK, RemoveEntryOK, RemoveCountOK, Zenon DEF Delete
<1> QED BY <1>1, <1>2, <1>3, <1>4, <1>5, <1>6, <1>7, <1>8, Zenon DEF Next, Step

LEMMA TypeFollows == BInv => TypeOK
<1> SUFFICES ASSUME BInv PROVE TypeOK
  OBVIOUS
<1>1. NodesOK
  BY DEF BInv
<1>2. nodes \in Seq(Node)
  <2>1. \A n \in Nodes : nodes[n] \in Node
    <3> TAKE n \in Nodes
    <3>1. nodes[n] \in NodeType /\ nodes[n].parent \in Nodes \cup {NULL}
      BY <1>1, NodeFields DEF NodesOK, Linked, Inner
    <3> QED BY <3>1 DEF NodeType, Node
  <2>2. Nodes = 1 .. Len(nodes) /\ Len(nodes) \in Nat /\ nodes = [n \in Nodes |-> nodes[n]]
    BY <1>1 DEF NodesOK, Nodes
  <2>3. nodes \in [1 .. Len(nodes) -> Node]
    BY <2>1, <2>2
  <2> QED BY <2>2, <2>3, SeqDef
<1>3. ASSUME NEW n \in Nodes, lock[n] # NoThread
      PROVE  pc[lock[n]] \in IF call[lock[n]].type = OP_DELETE
                             THEN DeleteLabels \cup {"at_leaf"}
                             ELSE InsertLabels
  <2> DEFINE t == lock[n]
  <2>1. t \in Threads
    BY <1>1, <1>3 DEF NodesOK
  <2>2. CallOK(t) /\ LockOK(t)
    BY <2>1, ThreadFacts
  <2>3. Holds(t, n)
    BY <2>2 DEF LockOK
  <2>4. pc[t] \in InsertLabels \/ Deleting(t)
    BY <2>3 DEF Holds, HoldsLeft, HoldsRight, HoldsParent, InsertLabels
  <2>5. call[t].type = OP_DELETE /\ pc[t] \in InsertLabels => pc[t] = "at_leaf"
    BY <2>2, MenuAssumption DEF CallOK
  <2> QED BY <2>4, <2>5 DEF Deleting
<1> QED BY <1>1, <1>2, <1>3 DEF TypeOK, NodesOK, BInv, Labels

\* insert, find and delete (bpt.c): the invariant that the rest follows from.
THEOREM TreeInvariance == Spec => []BInv
<1>1. Init => BInv
  BY InitOK
<1>2. BInv /\ [Next]_vars => BInv'
  BY NextOK
<1> QED BY <1>1, <1>2, PTL DEF Spec

\* A node of bpt.c never has more keys than its arrays hold, its parent is a node or
\* NULL, and only a thread between taking a lock in insert or delete and giving it
\* back is the holder of one.
THEOREM TreeTypeCorrect == Spec => []TypeOK
BY TreeInvariance, TypeFollows, PTL

-------------------------------------------------------------------------------
(* What follows from it *)

\* Every pointer that bpt.c follows leads to a node: the children of an inner node, up to
\* its num_keys, also while another thread writes to it, and the next leaf of a leaf.
PointersLead ==
    \A n \in Nodes :
        IF nodes[n].is_leaf
        THEN NextLeaf(n) = NULL \/ nodes[NextLeaf(n)].is_leaf
        ELSE \A i \in 0 .. nodes[n].num_keys : nodes[n].pointers[i] \in Nodes

\* No descent and no walk along the leaves of bpt.c ends in a pointer that is not one.
THEOREM NoWildPointer == Spec => []PointersLead
<1>1. BInv => PointersLead
  <2> SUFFICES ASSUME BInv, NEW n \in Nodes
               PROVE  IF nodes[n].is_leaf
                      THEN NextLeaf(n) = NULL \/ nodes[NextLeaf(n)].is_leaf
                      ELSE \A i \in 0 .. nodes[n].num_keys : nodes[n].pointers[i] \in Nodes
    BY DEF PointersLead
  <2>1. Linked(n) /\ (n \in Leaves <=> nodes[n].is_leaf) /\ (n \in Inner <=> ~nodes[n].is_leaf)
    BY DEF BInv, NodesOK, Leaves, Inner
  <2>2. \A m \in Leaves : nodes[m].is_leaf
    BY DEF Leaves
  <2> QED BY <2>1, <2>2 DEF Linked
<1> QED BY <1>1, TreeInvariance, PTL

\* A thread between two calls holds no lock.
NothingHeld == \A t \in Threads : At(t, "idle") => \A n \in Nodes : lock[n] # t

\* Whatever way insert, find and delete of bpt.c take, they return with every lock
\* given back that they took.
THEOREM LocksGivenBack == Spec => []NothingHeld
<1>1. BInv => NothingHeld
  <2> SUFFICES ASSUME BInv, NEW t \in Threads, At(t, "idle"), NEW n \in Nodes
               PROVE  lock[n] # t
    BY DEF NothingHeld
  <2>1. LockOK(t) /\ pc[t] = "idle"
    BY ThreadFacts DEF At
  <2> QED BY <2>1 DEF LockOK, Holds, HoldsLeft, HoldsRight, HoldsParent, Deleting, DeleteLabels
<1> QED BY <1>1, TreeInvariance, PTL
=============================================================================
