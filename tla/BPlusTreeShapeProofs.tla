------------------------- MODULE BPlusTreeShapeProofs -------------------------
(***************************************************************************)
(* The shape of the tree and what it stores, on top of its order.          *)
(*                                                                         *)
(* Balanced: between calls all leaves are equally deep and every node but  *)
(* the root is half full, for any number of threads, as long as nobody     *)
(* deletes (gps.c and baseline.c never do, and a deletion merges nothing). *)
(* The invariant, Filled, is about what counts as an entry (Count), and    *)
(* about the halves of a node that is split, which may still be orphans.   *)
(*                                                                         *)
(* ParentLinks: between calls every node is linked to the parent that      *)
(* points to it, and db_put kept the only root, when one thread calls the  *)
(* tree, as under gps.c; it may delete.  The invariant, LinkedUp, is the   *)
(* same of every moment, but for the halves of a split.                    *)
(*                                                                         *)
(* ImplementsKVStore: the leaves hold what was put, and every call takes   *)
(* effect at one moment.  KInv says what counts as stored while a leaf is  *)
(* written or split (Counted), and that every such key has its record;     *)
(* RInv, that a search is not past its key.  Nobody deletes (gps.c and     *)
(* baseline.c never do), malloc leaves no key of a client in a slot, and   *)
(* the tree is called by one thread, or by threads that only put: a search *)
(* takes no lock, and may miss a key while another thread splits.          *)
(*                                                                         *)
(* InsertionsKept: from the same invariant, for any number of threads that *)
(* do not delete; a put that is decided has its key among those counted.   *)
(***************************************************************************)
EXTENDS BPlusTreeOrderProofs

-------------------------------------------------------------------------------
(* What a step does to the links of the tree *)

\* The children of the inner nodes, and everybody's parent, are what they were.
SameLinks ==
    /\ UNCHANGED <<Nodes, Leaves, Inner>>
    /\ \A n \in Inner : SameInner(n)
    /\ SameParents

\* No leaf has fewer keys.
Fuller == \A n \in Leaves : Count(n)' = Count(n) \/ Count(n)' = Count(n) + 1

\* Steps that touch no node.
Walks(t) ==
    \/ Invoke(t) \/ Descend(t) \/ LockLeaf(t) \/ WalkRight(t) \/ Present(t) \/ LeafFull(t)
    \/ At(t, "leaf_lock_parent") /\ LockParent(t)
    \/ PutReturn(t) \/ Find(t) \/ DeleteFind(t) \/ DeleteAbsent(t)

Climbs(t) ==
    \/ At(t, "node_lock_parent") /\ LockParent(t)
    \/ FollowParent(t) \/ FollowLock(t) \/ NodeFull(t)

LEMMA KeptLinks ==
    ASSUME KeptEntries, SameParents
    PROVE  SameLinks /\ Fuller
BY DEF KeptEntries, SameEntries, SameKeys, SameLinks, Fuller

LEMMA QuietLinks ==
    ASSUME BInv, BInv', NEW t \in Threads, QuietTree(t)
    PROVE  Steady(t) /\ KeptEntries /\ SameParents
<1>1. Steady(t) /\ UNCHANGED <<Nodes, Leaves, Inner>>
  BY QuietSteady
<1>2. \A n \in Leaves \cup Inner : n \in Nodes
  BY DEF Leaves, Inner
<1>3. \A n \in Nodes : SameInner(n)
  BY QuietKept
<1>4. \A n \in Leaves : SameEntries(n)
  BY <1>2, <1>3 DEF SameInner, SameEntries, SameKeys
<1>5. SameParents
  BY DEF QuietTree, SameParents
<1> QED BY <1>1, <1>2, <1>3, <1>4, <1>5 DEF KeptEntries

LEMMA WalksQuiet ==
    ASSUME BInv, NEW t \in Threads, Walks(t)
    PROVE  QuietTree(t) /\ pc'[t] \notin HoldsRight \cup SplitLabels
<1> DEFINE quiet(label, f) ==
        /\ Goto(t, label, f) /\ nodes' = nodes /\ \A u \in Threads \ {t} : call'[u] = call[u]
        /\ pc[t] \notin Special /\ label \notin Special \cup HoldsRight \cup SplitLabels
<1>1. ASSUME NEW label, NEW f, quiet(label, f)
      PROVE  QuietTree(t) /\ pc'[t] \notin HoldsRight \cup SplitLabels
  BY <1>1, GotoAlone DEF QuietTree
<1> USE DEF Special, HoldsRight, SplitLabels
<1>2. call \in [Threads -> CallType \cup {NoCall}]
  BY DEF BInv
<1>3. CASE Invoke(t)
  <2>1. \E c \in Menu[t] : call' = [call EXCEPT ![t] = c]
    BY <1>3 DEF Invoke
  <2>2. \A u \in Threads \ {t} : call'[u] = call[u]
    BY <1>2, <2>1
  <2>3. PICK f : Goto(t, "descend", f)
    BY <1>3 DEF Invoke
  <2>4. quiet("descend", f)
    BY <1>3, <2>2, <2>3 DEF Invoke, At
  <2> QED BY <1>1, <2>4
<1>4. CASE PutReturn(t) \/ GetReturn(t)
  <2>1. call' = [call EXCEPT ![t] = NoCall] /\ Goto(t, "idle", NoFrame)
    BY <1>4 DEF PutReturn, GetReturn, Return
  <2>2. \A u \in Threads \ {t} : call'[u] = call[u]
    BY <1>2, <2>1
  <2>3. quiet("idle", NoFrame)
    BY <1>4, <2>1, <2>2 DEF PutReturn, GetReturn, At
  <2> QED BY <1>1, <2>3
<1>5. CASE Descend(t)
  <2>1. PICK f : Goto(t, pc[t], f)
    BY <1>5 DEF Descend
  <2>2. quiet(pc[t], f)
    BY <1>5, <2>1 DEF Descend
  <2> QED BY <1>1, <2>2
<1>6. CASE LockLeaf(t) \/ WalkRight(t)
  <2>1. PICK f : Goto(t, "at_leaf", f)
    BY <1>6 DEF LockLeaf, WalkRight
  <2>2. quiet("at_leaf", f)
    BY <1>6, <2>1 DEF LockLeaf, WalkRight, At
  <2> QED BY <1>1, <2>2
<1>7. CASE Present(t) \/ DeleteAbsent(t)
  <2>1. PICK f : Goto(t, "put_return", f)
    BY <1>7 DEF Present, DeleteAbsent
  <2>2. quiet("put_return", f)
    BY <1>7, <2>1 DEF Present, DeleteAbsent, Arrived, ArrivedTo, At
  <2> QED BY <1>1, <2>2
<1>8. CASE LeafFull(t)
  <2>1. PICK label, f :
          label \in {"leaf_split", "leaf_lock_parent"} /\ Goto(t, label, f)
    BY <1>8 DEF LeafFull
  <2>2. quiet(label, f)
    BY <1>8, <2>1 DEF LeafFull, Arrived, ArrivedTo, At
  <2> QED BY <1>1, <2>2
<1>9. CASE At(t, "leaf_lock_parent") /\ LockParent(t)
  <2>1. quiet("leaf_split", frame[t])
    BY <1>9 DEF LockParent, At
  <2> QED BY <1>1, <2>1
<1>10. CASE FindWalk(t)
  <2>1. PICK f : Goto(t, pc[t], f)
    BY <1>10 DEF FindWalk
  <2>2. quiet(pc[t], f)
    BY <1>10, <2>1 DEF FindWalk, Finding, At
  <2> QED BY <1>1, <2>2
<1>11. CASE FindScan(t) \/ FindRead(t)
  <2>1. PICK label, f : label \in {"find_read", Found(t)} /\ Goto(t, label, f)
    BY <1>11 DEF FindScan, FindRead
  <2>2. label \in {"find_read", "get_return", "delete"}
    BY <2>1 DEF Found
  <2>3. quiet(label, f)
    BY <1>11, <2>1, <2>2 DEF FindScan, FindRead, Finding, At
  <2> QED BY <1>1, <2>3
<1>12. CASE DeleteFind(t)
  <2>1. PICK f : Goto(t, "find_again", f)
    BY <1>12 DEF DeleteFind
  <2>2. quiet("find_again", f)
    BY <1>12, <2>1 DEF DeleteFind, ArrivedTo, At
  <2> QED BY <1>1, <2>2
<1> QED BY <1>3, <1>4, <1>5, <1>6, <1>7, <1>8, <1>9, <1>10, <1>11, <1>12 DEF Walks, Find

\* A thread that splits nodes goes on with the new half that it has.
LEMMA ClimbsQuiet ==
    ASSUME BInv, NEW t \in Threads, Climbs(t)
    PROVE  /\ QuietTree(t) /\ pc[t] \in HoldsRight \cup SplitLabels
           /\ frame'[t].right = frame[t].right
           /\ pc'[t] \in HoldsRight => pc[t] \in HoldsRight /\ frame'[t].left = frame[t].left
<1> DEFINE quiet(label, f) ==
        /\ Goto(t, label, f) /\ nodes' = nodes /\ \A u \in Threads \ {t} : call'[u] = call[u]
        /\ pc[t] \notin Special /\ label \notin Special
<1>1. ASSUME NEW label, NEW f, quiet(label, f)
      PROVE  QuietTree(t) /\ pc'[t] = label /\ frame'[t] = f
  BY <1>1, GotoAlone DEF QuietTree
<1> USE DEF Special, HoldsRight, SplitLabels
<1>2. frame[t] \in FrameType
  BY ThreadFacts
<1>3. CASE At(t, "node_lock_parent") /\ LockParent(t)
  <2>1. quiet("node_empty", frame[t]) /\ pc[t] = "node_lock_parent"
    BY <1>3 DEF LockParent, At
  <2> QED BY <1>1, <2>1
<1>4. CASE FollowParent(t)
  <2>1. PICK x : x = nodes[frame[t].left].parent
    OBVIOUS
  <2>2. quiet("follow_lock", [frame[t] EXCEPT !.next = x]) /\ pc[t] = "into_parent"
    BY <1>4, <2>1 DEF FollowParent, At
  <2> QED BY <1>1, <1>2, <2>2 DEF FrameType
<1>5. CASE FollowLock(t)
  <2>1. quiet("into_parent", [frame[t] EXCEPT !.parent = frame[t].next]) /\ pc[t] = "follow_lock"
    BY <1>5 DEF FollowLock, At
  <2> QED BY <1>1, <1>2, <2>1 DEF FrameType
<1>6. CASE NodeFull(t)
  <2>1. PICK label, a, b, c :
           /\ label = IF nodes[frame[t].parent].parent = NULL THEN "node_empty"
                      ELSE "node_lock_parent"
           /\ a = frame[t].parent /\ b = nodes[frame[t].parent].parent
           /\ c = get_left_index(frame[t].parent, frame[t].left)
    OBVIOUS
  <2>2. Goto(t, label, [frame[t] EXCEPT !.left = a, !.parent = b, !.index = c])
    BY <1>6, <2>1 DEF NodeFull
  <2>3. /\ label \in {"node_empty", "node_lock_parent"}
        /\ nodes' = nodes /\ UNCHANGED call /\ pc[t] = "into_parent"
    BY <1>6, <2>1 DEF NodeFull, ParentFound, At
  <2>4. quiet(label, [frame[t] EXCEPT !.left = a, !.parent = b, !.index = c])
    BY <2>2, <2>3
  <2>5. /\ QuietTree(t) /\ pc'[t] = label
        /\ frame'[t] = [frame[t] EXCEPT !.left = a, !.parent = b, !.index = c]
    BY <1>1, <2>4
  <2>6. frame'[t].right = frame[t].right
    BY ONLY <1>2, <2>5 DEF FrameType
  <2> QED BY <2>3, <2>5, <2>6
<1> QED BY <1>3, <1>4, <1>5, <1>6 DEF Climbs

\* A step in which node n becomes x, and no other node counts otherwise.
Changes(t, label, n, x) ==
    /\ Goto(t, label, frame[t]) /\ UNCHANGED <<lock, root, call>>
    /\ n \in Nodes /\ lock[n] = t /\ x \in NodeType /\ nodes' = [nodes EXCEPT ![n] = x]
    /\ x.is_leaf = nodes[n].is_leaf /\ x.parent = nodes[n].parent
    /\ \A m \in Nodes \ {n} : lock[m] = t =>
          Pending(label, frame[t], m, nodes[m].num_keys)
            = Pending(pc[t], frame[t], m, nodes[m].num_keys)

Changed(t, label, n, x) ==
    /\ Steady(t) /\ UNCHANGED <<Nodes, Leaves, Inner>> /\ SameParents
    /\ pc'[t] = label /\ frame'[t] = frame[t]
    /\ n \in Nodes' /\ nodes'[n] = x
    /\ \A m \in Nodes \ {n} : nodes'[m] = nodes[m] /\ SameInner(m)
    /\ Count(n) = Pending(pc[t], frame[t], n, nodes[n].num_keys)
    /\ Count(n)' = Pending(label, frame[t], n, x.num_keys)

LEMMA ChangeSeen ==
    ASSUME BInv, BInv', NEW t \in Threads, NEW label, NEW n, NEW x, Changes(t, label, n, x)
    PROVE  Changed(t, label, n, x)
<1>1. /\ Goto(t, label, frame[t]) /\ UNCHANGED <<lock, root, call>>
      /\ n \in Nodes /\ lock[n] = t /\ x \in NodeType /\ nodes' = [nodes EXCEPT ![n] = x]
      /\ x.is_leaf = nodes[n].is_leaf /\ x.parent = nodes[n].parent
  BY DEF Changes
<1>2. Alone(t) /\ pc'[t] = label /\ frame'[t] = frame[t]
  BY <1>1, GotoAlone
<1>3. /\ Steady(t) /\ UNCHANGED <<Nodes, Leaves, Inner>>
      /\ nodes'[n] = x /\ \A m \in Nodes \ {n} : nodes'[m] = nodes[m]
      /\ \A m \in Nodes : nodes'[m].parent = nodes[m].parent
  BY <1>1, <1>2, OneSteady
<1>4. ASSUME NEW m \in Nodes \ {n} PROVE SameInner(m)
  <2>1. CASE lock[m] # t
    BY <1>1, <1>3, <2>1, OutsideSame
  <2>2. CASE lock[m] = t
    <3>1. m \in Nodes /\ m \in Nodes' /\ lock'[m] = t /\ nodes'[m] = nodes[m]
      BY <1>1, <1>3, <2>2
    <3>2. Count(m) = Pending(pc[t], frame[t], m, nodes[m].num_keys)
      BY <2>2, HeldBy
    <3>3. Count(m)' = Pending(pc'[t], frame'[t], m, nodes'[m].num_keys)
      BY ONLY BInv', t \in Threads, <3>1, HeldByNext
    <3>4. Count(m)' = Count(m)
      BY <1>2, <2>2, <3>1, <3>2, <3>3 DEF Changes
    <3> QED BY <3>1, <3>4 DEF SameInner, SameKeys
  <2> QED BY <2>1, <2>2
<1>5. Count(n) = Pending(pc[t], frame[t], n, nodes[n].num_keys)
  BY <1>1, HeldBy
<1>6. Count(n)' = Pending(label, frame[t], n, x.num_keys)
  <2>1. n \in Nodes' /\ lock'[n] = t
    BY <1>1, <1>3
  <2>2. Count(n)' = Pending(pc'[t], frame'[t], n, nodes'[n].num_keys)
    BY ONLY BInv', t \in Threads, <2>1, HeldByNext
  <2> QED BY <1>2, <1>3, <2>2
<1> QED BY <1>1, <1>2, <1>3, <1>4, <1>5, <1>6 DEF Changed, SameParents

\* The entries f are the entries g with v inserted at position i, up to position last.
Inserted(f, g, i, last, v) ==
    \A j \in Slots :
        f[j] = IF j > last \/ j < i THEN g[j] ELSE IF j = i THEN v ELSE g[j - 1]

LEMMA InsertedWritten ==
    ASSUME NEW node \in NodeType,
           NEW last \in Slots, NEW i \in 0 .. last, NEW v \in Int,
           NEW last2 \in Slots, NEW i2 \in 0 .. last2, NEW v2 \in Int,
           NEW y, y = Written(node, Spliced(node.keys, i, last, v),
                                    Spliced(node.pointers, i2, last2, v2))
    PROVE  /\ y \in NodeType /\ y.is_leaf = node.is_leaf /\ y.parent = node.parent
           /\ y.num_keys = node.num_keys
           /\ Inserted(y.keys, node.keys, i, last, v)
           /\ Inserted(y.pointers, node.pointers, i2, last2, v2)
<1>1. PICK f, g : f = node.keys /\ g = node.pointers
  OBVIOUS
<1>2. f \in [Slots -> Int] /\ g \in [Slots -> Int]
  BY <1>1 DEF NodeType
<1>3. PICK k, p : k = Spliced(f, i, last, v) /\ p = Spliced(g, i2, last2, v2)
  OBVIOUS
<1>4. DOMAIN k = 0 .. last /\ \A j \in DOMAIN k : k[j] \in Int
  BY <1>2, <1>3, SplicedEntries
<1>5. DOMAIN p = 0 .. last2 /\ \A j \in DOMAIN p : p[j] \in Int
  BY <1>2, <1>3, SplicedEntries
<1>6. y = Written(node, k, p)
  BY <1>1, <1>3
<1>7. /\ y \in NodeType /\ y.is_leaf = node.is_leaf /\ y.parent = node.parent
      /\ y.num_keys = node.num_keys
      /\ \A j \in Slots : y.keys[j] = IF j \in DOMAIN k THEN k[j] ELSE f[j]
      /\ \A j \in Slots : y.pointers[j] = IF j \in DOMAIN p THEN p[j] ELSE g[j]
  <2>1. (\A j \in DOMAIN k : k[j] \in Int) /\ \A j \in DOMAIN p : p[j] \in Int
    BY <1>4, <1>5
  <2>2. /\ y \in NodeType /\ y.is_leaf = node.is_leaf /\ y.parent = node.parent
        /\ y.num_keys = node.num_keys
        /\ \A j \in Slots : y.keys[j] = IF j \in DOMAIN k THEN k[j] ELSE node.keys[j]
        /\ \A j \in Slots : y.pointers[j] = IF j \in DOMAIN p THEN p[j] ELSE node.pointers[j]
    BY ONLY <2>1, <1>6, node \in NodeType, WrittenFields, SMTT(60)
  <2> QED BY ONLY <1>1, <2>2
<1>8. /\ last \in Nat /\ last2 \in Nat /\ \A j \in Slots : j \in Nat
  BY OrderAssumption DEF Slots
<1>9. Inserted(y.keys, f, i, last, v)
  <2>1. \A j \in 0 .. last : k[j] = IF j < i THEN f[j] ELSE IF j = i THEN v ELSE f[j - 1]
    BY ONLY <1>3, <1>8, i \in 0 .. last DEF Spliced
  <2> QED BY ONLY <1>4, <1>7, <1>8, <2>1, i \in 0 .. last DEF Inserted
<1>10. Inserted(y.pointers, g, i2, last2, v2)
  <2>1. \A j \in 0 .. last2 : p[j] = IF j < i2 THEN g[j] ELSE IF j = i2 THEN v2 ELSE g[j - 1]
    BY ONLY <1>3, <1>8, i2 \in 0 .. last2 DEF Spliced
  <2> QED BY ONLY <1>5, <1>7, <1>8, <2>1, i2 \in 0 .. last2 DEF Inserted
<1> QED BY <1>1, <1>7, <1>9, <1>10

\* A key and its record are written into a leaf.
LeafWrites(t, n, x, i, num) ==
    /\ n = frame[t].left /\ n \in Leaves /\ num = nodes[n].num_keys /\ num \in 0 .. Order - 2
    /\ i = Min({j \in 0 .. num : j = num \/ nodes[n].keys[j] >= Key(t)}) /\ i \in 0 .. num
    /\ Changes(t, "leaf_count", n, x) /\ x.num_keys = num /\ pc[t] = "at_leaf"
    /\ Inserted(x.keys, nodes[n].keys, i, num, Key(t))
    /\ Inserted(x.pointers, nodes[n].pointers, i, num, Key(t))

LEMMA LeafWriteSeen ==
    ASSUME BInv, NEW t \in Threads, LeafWrite(t)
    PROVE  \E n, x, i, num : LeafWrites(t, n, x, i, num)
<1>1. PICK n, num, i, key, node, x :
        /\ n = frame[t].left /\ num = nodes[n].num_keys /\ key = Key(t) /\ node = nodes[n]
        /\ i = Min({j \in 0 .. num : j = num \/ node.keys[j] >= key})
        /\ x = Written(node, Spliced(node.keys, i, num, key), Spliced(node.pointers, i, num, key))
  <2>1. PICK n, num, key, node : /\ n = frame[t].left /\ num = nodes[n].num_keys /\ key = Key(t)
                                 /\ node = nodes[n]
    OBVIOUS
  <2>2. PICK i : i = Min({j \in 0 .. num : j = num \/ node.keys[j] >= key})
    OBVIOUS
  <2>3. PICK x : x = Written(node, Spliced(node.keys, i, num, key),
                                   Spliced(node.pointers, i, num, key))
    OBVIOUS
  <2> QED BY <2>1, <2>2, <2>3
<1>2. /\ pc[t] = "at_leaf" /\ call[t].type = OP_ADD /\ num < Order - 1
      /\ nodes' = [nodes EXCEPT ![n] = x]
      /\ Goto(t, "leaf_count", frame[t])
      /\ UNCHANGED <<lock, root, call>>
  BY <1>1 DEF LeafWrite, Arrived, ArrivedTo, At
<1>3. NodesOK /\ FrameOK(t) /\ LockOK(t)
  BY ThreadFacts
<1>4. n \in Leaves /\ n \in Nodes
  BY <1>1, <1>2, <1>3 DEF FrameOK, LeafLabels, Leaves
<1>5. node \in NodeType /\ num = node.num_keys /\ num \in 0 .. Order - 1 /\ key \in Int
  <2>1. key \in Int
    BY <1>1, <1>2, KeyIsInt
  <2> QED BY <1>1, <1>3, <1>4, <2>1, NodeFields
<1>6. num \in 0 .. Order - 2 /\ num \in Slots /\ num \in Nat
  BY <1>2, <1>5, OrderAssumption DEF Slots
<1>7. i \in 0 .. num
  <2>1. PICK S : S = {j \in 0 .. num : j = num \/ node.keys[j] >= key}
    OBVIOUS
  <2>2. S \in SUBSET Nat /\ S # {} /\ S \subseteq 0 .. num
    BY <1>6, <2>1
  <2> QED BY <1>1, <2>1, <2>2, MinIn
<1>8. /\ x \in NodeType /\ x.is_leaf = node.is_leaf /\ x.parent = node.parent
      /\ x.num_keys = node.num_keys
      /\ Inserted(x.keys, node.keys, i, num, key)
      /\ Inserted(x.pointers, node.pointers, i, num, key)
  <2>1. x = Written(node, Spliced(node.keys, i, num, key), Spliced(node.pointers, i, num, key))
    BY <1>1
  <2>2. node \in NodeType /\ num \in Slots /\ key \in Int
    BY <1>5, <1>6
  <2> QED BY ONLY <1>7, <2>1, <2>2, InsertedWritten
<1>9. \A m \in Nodes : lock[m] = t <=> m = n
  BY <1>1, <1>2, <1>3, <1>4 DEF LockOK, Holds, HoldsLeft, HoldsRight, HoldsParent, Deleting,
                                DeleteLabels
<1>10. Changes(t, "leaf_count", n, x)
  BY <1>1, <1>2, <1>4, <1>8, <1>9 DEF Changes
<1>11. LeafWrites(t, n, x, i, num)
  <2>1. i = Min({j \in 0 .. num : j = num \/ nodes[n].keys[j] >= Key(t)})
    BY <1>1
  <2>2. /\ x.num_keys = num /\ Inserted(x.keys, nodes[n].keys, i, num, Key(t))
        /\ Inserted(x.pointers, nodes[n].pointers, i, num, Key(t))
    BY <1>1, <1>8
  <2> QED BY <1>1, <1>2, <1>4, <1>6, <1>7, <1>10, <2>1, <2>2 DEF LeafWrites
<1> QED BY <1>11

LEMMA LeafWriteLinks ==
    ASSUME BInv, BInv', NEW t \in Threads, LeafWrite(t)
    PROVE  /\ Steady(t) /\ SameLinks /\ Fuller
           /\ pc'[t] = "leaf_count" /\ pc[t] = "at_leaf" /\ frame'[t] = frame[t]
<1>1. PICK n, x, i, num : LeafWrites(t, n, x, i, num)
  BY LeafWriteSeen
<1>2. /\ n \in Leaves /\ num = nodes[n].num_keys /\ num \in Nat /\ x.num_keys = num
      /\ pc[t] = "at_leaf"
  <2>1. /\ n \in Leaves /\ num = nodes[n].num_keys /\ num \in 0 .. Order - 2 /\ x.num_keys = num
        /\ pc[t] = "at_leaf"
    BY <1>1, Zenon DEF LeafWrites
  <2> QED BY <2>1, OrderAssumption
<1>3. Changed(t, "leaf_count", n, x)
  BY <1>1, ChangeSeen DEF LeafWrites
<1>4. Count(n) = num /\ Count(n)' = num + 1
  BY <1>2, <1>3 DEF Changed, Pending
<1>5. n \notin Inner /\ \A m \in Leaves \cup Inner : m \in Nodes
  BY <1>2 DEF Leaves, Inner
<1> QED BY <1>2, <1>3, <1>4, <1>5 DEF Changed, SameLinks, Fuller, SameInner, SameKeys

\* A key and a child are written into an inner node.
NodeWrites(t, n, x, i, num) ==
    /\ n = frame[t].parent /\ n \in Inner /\ num = nodes[n].num_keys /\ num \in 0 .. Order - 2
    /\ i \in 0 .. num /\ nodes[n].pointers[i] = frame[t].left
    /\ Changes(t, "node_count", n, x) /\ x.num_keys = num
    /\ pc[t] = "into_parent" /\ nodes[frame[t].left].parent = n
    /\ Inserted(x.pointers, nodes[n].pointers, i + 1, num + 1, frame[t].right)

LEMMA NodeWriteSeen ==
    ASSUME BInv, NEW t \in Threads, NodeWrite(t)
    PROVE  \E n, x, i, num : NodeWrites(t, n, x, i, num)
<1>1. PICK n, num, i, left, right, key, node, x :
        /\ n = frame[t].parent /\ num = nodes[n].num_keys /\ left = frame[t].left
        /\ right = frame[t].right /\ key = frame[t].key /\ i = get_left_index(n, left)
        /\ node = nodes[n]
        /\ x = Written(node, Spliced(node.keys, i, num, key),
                             Spliced(node.pointers, i + 1, num + 1, right))
  BY SMTT(60)
<1>2. /\ pc[t] = "into_parent" /\ n # NULL /\ i <= num /\ num < Order - 1
      /\ nodes[left].parent = n
      /\ nodes' = [nodes EXCEPT ![n] = x]
      /\ Goto(t, "node_count", frame[t])
      /\ UNCHANGED <<lock, root, call>>
  BY <1>1 DEF NodeWrite, ParentFound, LeftInParent, At
<1>3. NodesOK /\ FrameOK(t) /\ LockOK(t) /\ frame[t] \in FrameType
  BY ThreadFacts
<1>4. n \in Inner /\ n \in Nodes /\ right \in Nodes
  BY <1>1, <1>2, <1>3 DEF FrameOK, Inner, HoldsRight
<1>5. node \in NodeType /\ key \in Int /\ right \in Int /\ num = node.num_keys
      /\ num \in 0 .. Order - 1
  BY <1>1, <1>3, <1>4, NodeFields DEF FrameType
<1>6. num \in 0 .. Order - 2 /\ num \in Slots /\ num + 1 \in Slots /\ num \in Nat
  BY <1>2, <1>5, OrderAssumption DEF Slots
<1>7. i \in 0 .. num /\ nodes[n].pointers[i] = left
  <2>1. i \in Nat /\ i <= num /\ nodes[n].pointers[i] = left
    BY <1>1, <1>2, <1>4, LeftIndex
  <2> QED BY <1>6, <2>1
<1>8. i + 1 \in 0 .. num + 1
  BY <1>6, <1>7
<1>9. /\ x \in NodeType /\ x.is_leaf = node.is_leaf /\ x.parent = node.parent
      /\ x.num_keys = node.num_keys
      /\ Inserted(x.pointers, node.pointers, i + 1, num + 1, right)
  <2>1. x = Written(node, Spliced(node.keys, i, num, key),
                          Spliced(node.pointers, i + 1, num + 1, right))
    BY <1>1
  <2>2. node \in NodeType /\ num \in Slots /\ num + 1 \in Slots /\ key \in Int /\ right \in Int
    BY <1>5, <1>6
  <2> QED BY ONLY <1>7, <1>8, <2>1, <2>2, InsertedWritten
<1>10. lock[n] = t
  BY <1>1, <1>2, <1>3, <1>4 DEF LockOK, Holds, HoldsParent, HoldsRight
<1>11. Changes(t, "node_count", n, x)
  <2>1. \A m \in Nodes \ {n} : Pending("node_count", frame[t], m, nodes[m].num_keys)
                                 = Pending(pc[t], frame[t], m, nodes[m].num_keys)
    BY <1>1, <1>2 DEF Pending
  <2> QED BY <1>1, <1>2, <1>4, <1>9, <1>10, <2>1 DEF Changes
<1>12. NodeWrites(t, n, x, i, num)
  <2>1. x.num_keys = num /\ Inserted(x.pointers, nodes[n].pointers, i + 1, num + 1, frame[t].right)
    BY <1>1, <1>5, <1>9
  <2> QED BY <1>1, <1>2, <1>4, <1>6, <1>7, <1>11, <2>1 DEF NodeWrites
<1> QED BY <1>12

LEMMA NodeEmptyLinks ==
    ASSUME BInv, BInv', NEW t \in Threads, NodeEmpty(t), nodes[frame[t].left].num_keys = Order - 1
    PROVE  /\ Steady(t) /\ KeptEntries /\ SameParents
           /\ pc[t] = "node_empty" /\ pc'[t] = "node_split" /\ frame'[t] = frame[t]
<1>1. PICK n, x : n = frame[t].left /\ x = [nodes[n] EXCEPT !.num_keys = 0]
  OBVIOUS
<1>2. /\ pc[t] = "node_empty"
      /\ nodes' = [nodes EXCEPT ![n] = x]
      /\ Goto(t, "node_split", frame[t])
      /\ UNCHANGED <<lock, root, call>>
  BY <1>1 DEF NodeEmpty, At
<1>3. NodesOK /\ FrameOK(t) /\ LockOK(t)
  BY ThreadFacts
<1>4. n \in Inner /\ n \in Nodes /\ n \notin Leaves
  BY <1>1, <1>2, <1>3 DEF FrameOK, SplitLabels, Leaves, Inner
<1>5. nodes[n] \in NodeType /\ 0 \in 0 .. Order - 1
  BY <1>3, <1>4, NodeFields, OrderAssumption
<1>6. x \in NodeType /\ x.is_leaf = nodes[n].is_leaf /\ x.parent = nodes[n].parent
      /\ x.keys = nodes[n].keys /\ x.pointers = nodes[n].pointers /\ x.num_keys = 0
  BY <1>1, <1>5, Renumbered
<1>7. lock[n] = t
  BY <1>1, <1>2, <1>3, <1>4 DEF LockOK, Holds, HoldsLeft
<1>8. Changes(t, "node_split", n, x)
  <2>1. \A m \in Nodes \ {n} : Pending("node_split", frame[t], m, nodes[m].num_keys)
                                 = Pending(pc[t], frame[t], m, nodes[m].num_keys)
    BY <1>1, <1>2 DEF Pending
  <2> QED BY <1>2, <1>4, <1>6, <1>7, <2>1 DEF Changes
<1>9. Changed(t, "node_split", n, x)
  BY <1>8, ChangeSeen
<1>10. Count(n) = Order - 1 /\ Count(n)' = Order - 1
  BY <1>1, <1>2, <1>9 DEF Changed, Pending
<1>11. \A m \in Nodes : SameInner(m)
  BY <1>6, <1>9, <1>10 DEF Changed, SameInner, SameKeys
<1>12. \A m \in Leaves \cup Inner : m \in Nodes
  BY DEF Leaves, Inner
<1> QED BY <1>2, <1>9, <1>11, <1>12 DEF Changed, KeptEntries, SameEntries, SameInner, SameKeys

LEMMA RemoveEntryLinks ==
    ASSUME BInv, BInv', NEW t \in Threads, RemoveEntry(t)
    PROVE  /\ Steady(t) /\ SameLinks
           /\ pc[t] = "delete" /\ pc'[t] = "remove_count" /\ frame'[t] = frame[t]
<1>1. PICK n, num, at, to, i, s : /\ n = frame[t].key_leaf /\ num = nodes[n].num_keys
                                  /\ at = Places(nodes[n].keys, num, Key(t)) /\ i = Min(at)
                                  /\ to = Places(nodes[n].pointers, num, Key(t)) /\ s = Min(to)
  BY SMTT(60)
<1>2. PICK x : x = Written(nodes[n], Without(nodes[n].keys, i, num),
                                     Without(nodes[n].pointers, s, num))
  OBVIOUS
<1>3. /\ pc[t] = "delete" /\ at # {} /\ to # {}
      /\ nodes' = [nodes EXCEPT ![n] = x]
      /\ Goto(t, "remove_count", frame[t])
      /\ UNCHANGED <<lock, root, call>>
  BY <1>1, <1>2 DEF RemoveEntry, At
<1>4. NodesOK /\ CallOK(t) /\ FrameOK(t) /\ LockOK(t)
  BY ThreadFacts
<1>5. Deleting(t)
  BY <1>3, <1>4 DEF CallOK, Deleting, DeleteLabels
<1>6. n \in Leaves /\ n \in Nodes
  BY <1>1, <1>4, <1>5 DEF FrameOK, Leaves
<1>7. /\ nodes[n] \in NodeType /\ num \in 0 .. Order - 1
      /\ nodes[n].keys \in [Slots -> Int] /\ nodes[n].pointers \in [Slots -> Int]
  BY <1>1, <1>4, <1>6, NodeFields
<1>8. i \in 0 .. num - 1 /\ s \in 0 .. num - 1
  <2>1. /\ at \in SUBSET Nat /\ at \subseteq 0 .. num - 1
        /\ to \in SUBSET Nat /\ to \subseteq 0 .. num - 1
    BY <1>1, <1>7 DEF Places
  <2> QED BY <1>1, <1>3, <2>1, MinIn
<1>9. x \in NodeType /\ x.is_leaf = nodes[n].is_leaf /\ x.parent = nodes[n].parent
  <2>1. PICK k, p : /\ k = Without(nodes[n].keys, i, num) /\ p = Without(nodes[n].pointers, s, num)
    OBVIOUS
  <2>2. (\A j \in DOMAIN k : k[j] \in Int) /\ \A j \in DOMAIN p : p[j] \in Int
    BY <1>7, <1>8, <2>1, WithoutEntries
  <2>3. x = Written(nodes[n], k, p)
    BY <1>2, <2>1
  <2>4. PICK node : node = nodes[n]
    OBVIOUS
  <2>5. node \in NodeType /\ x = Written(node, k, p)
    BY <1>7, <2>3, <2>4
  <2>6. x \in NodeType /\ x.is_leaf = node.is_leaf /\ x.parent = node.parent
    BY ONLY <2>2, <2>5, WrittenOK
  <2> QED BY <2>4, <2>6
<1>10. \A m \in Nodes : lock[m] = t <=> m = n
  BY <1>1, <1>3, <1>4, <1>5, <1>6 DEF LockOK, Holds, HoldsLeft, HoldsRight, HoldsParent
<1>11. Changes(t, "remove_count", n, x)
  BY <1>3, <1>6, <1>9, <1>10 DEF Changes
<1>12. Changed(t, "remove_count", n, x)
  BY <1>11, ChangeSeen
<1>13. \A m \in Inner : m \in Nodes \ {n}
  BY <1>6 DEF Inner
<1> QED BY <1>3, <1>12, <1>13 DEF Changed, SameLinks

\* The leaves q and new, which the thread holds, become x and y.
Rewrites(t, label, f, q, new, x, y) ==
    /\ Goto(t, label, f) /\ UNCHANGED <<lock, call>>
    /\ q \in Leaves /\ new \in Leaves /\ q # new /\ lock[q] = t /\ lock[new] = t
    /\ x \in NodeType /\ x.is_leaf = nodes[q].is_leaf /\ x.parent = nodes[q].parent
    /\ y \in NodeType /\ y.is_leaf = nodes[new].is_leaf
    /\ y.parent = nodes[new].parent \/ (label \in HoldsRight /\ new = f.right)
    /\ nodes' = [nodes EXCEPT ![q] = x, ![new] = y]

Rewritten(t, label, f, q, new, x, y) ==
    /\ Steady(t) /\ UNCHANGED <<Nodes, Leaves, Inner>> /\ pc'[t] = label /\ frame'[t] = f
    /\ nodes'[q] = x /\ nodes'[new] = y
    /\ \A m \in Nodes \ {q, new} : nodes'[m] = nodes[m]
    /\ \A m \in Nodes : lock[m] # t => SameInner(m)
    /\ \A m \in Nodes : lock[m] = t =>
          /\ Count(m) = Pending(pc[t], frame[t], m, nodes[m].num_keys)
          /\ Count(m)' = Pending(label, f, m, nodes'[m].num_keys)

LEMMA BothSeen ==
    ASSUME BInv, BInv', NEW t \in Threads, NEW label, NEW f, NEW q, NEW new, NEW x, NEW y,
           Rewrites(t, label, f, q, new, x, y)
    PROVE  Rewritten(t, label, f, q, new, x, y)
<1> USE DEF Rewrites
<1>1. q \in Nodes /\ new \in Nodes /\ NodesOK
  BY DEF Leaves, BInv
<1>2. /\ nodes'[q] = x /\ nodes'[new] = y
      /\ \A m \in Nodes \ {q, new} : nodes'[m] = nodes[m]
      /\ UNCHANGED <<Nodes, Leaves, Inner>>
  <2>1. /\ nodes'[q] = x /\ nodes'[new] = y
        /\ Nodes' = Nodes /\ \A m \in Nodes \ {q, new} : nodes'[m] = nodes[m]
    BY <1>1 DEF NodesOK, Nodes
  <2>2. Leaves' = Leaves
    BY <2>1 DEF Leaves
  <2> QED BY <2>1, <2>2 DEF Inner
<1>3. Alone(t) /\ pc'[t] = label /\ frame'[t] = f
  BY GotoAlone
<1>4. Steady(t)
  <2>1. \A m \in Nodes : lock[m] # t => nodes'[m] = nodes[m]
    BY <1>2
  <2>2. \A m \in Nodes \ {new} : nodes'[m].parent = nodes[m].parent
    BY <1>2
  <2>3. nodes'[new].parent = nodes[new].parent \/ (pc'[t] \in HoldsRight /\ new = frame'[t].right)
    BY <1>2, <1>3
  <2> QED BY <1>1, <1>2, <1>3, <2>1, <2>2, <2>3 DEF Steady
<1>5. \A m \in Nodes : lock[m] # t => SameInner(m)
  BY <1>4, OutsideSame
<1>6. ASSUME NEW m \in Nodes, lock[m] = t
      PROVE  /\ Count(m) = Pending(pc[t], frame[t], m, nodes[m].num_keys)
             /\ Count(m)' = Pending(label, f, m, nodes'[m].num_keys)
  <2>1. m \in Nodes' /\ lock'[m] = t
    BY <1>2, <1>6
  <2>2. Count(m)' = Pending(pc'[t], frame'[t], m, nodes'[m].num_keys)
    BY ONLY BInv', t \in Threads, <2>1, HeldByNext
  <2> QED BY <1>3, <1>6, <2>2, HeldBy
<1> QED BY <1>2, <1>3, <1>4, <1>5, <1>6 DEF Rewritten

LEMMA LeafLinkLinks ==
    ASSUME BInv, BInv', NEW t \in Threads, LeafLink(t)
    PROVE  /\ Steady(t) /\ KeptEntries /\ SameParents
           /\ pc[t] = "leaf_link" /\ pc'[t] = "leaf_cut" /\ frame'[t] = frame[t]
           /\ \A n \in Nodes : nodes'[n].num_keys = nodes[n].num_keys
<1>1. PICK q, new : q = frame[t].left /\ new = frame[t].right
  OBVIOUS
<1>2. /\ pc[t] = "leaf_link" /\ UNCHANGED <<lock, root, call>>
      /\ Goto(t, "leaf_cut", frame[t])
      /\ nodes' = [nodes EXCEPT ![new].pointers[Order - 1] = NextLeaf(q),
                                ![q].pointers[Order - 1] = new]
  BY <1>1 DEF LeafLink, At
<1>3. NodesOK /\ FrameOK(t) /\ LockOK(t)
  BY ThreadFacts
<1>4. q \in Leaves /\ q \in Nodes /\ new \in Leaves /\ new \in Nodes /\ q # new
  BY <1>1, <1>2, <1>3 DEF FrameOK, LeafLabels, HoldsRight, Leaves
<1>5. lock[q] = t /\ lock[new] = t
  BY <1>1, <1>2, <1>3, <1>4 DEF LockOK, Holds, HoldsLeft, HoldsRight
<1>6. PICK x, y, v : /\ v = NextLeaf(q) /\ y = [nodes[new] EXCEPT !.pointers[Order - 1] = v]
                     /\ x = [nodes[q] EXCEPT !.pointers[Order - 1] = new]
  <2>1. PICK v : v = NextLeaf(q)
    OBVIOUS
  <2> QED BY <2>1
<1>7. /\ nodes[q] \in NodeType /\ nodes[new] \in NodeType /\ Order - 1 \in Slots
      /\ nodes[q].pointers \in [Slots -> Int] /\ nodes[new].pointers \in [Slots -> Int]
      /\ v \in Int /\ new \in Int
  <2>1. /\ nodes[q] \in NodeType /\ nodes[new] \in NodeType /\ Order - 1 \in Slots
        /\ nodes[q].pointers \in [Slots -> Int] /\ nodes[new].pointers \in [Slots -> Int]
    BY <1>3, <1>4, NodeFields, OrderAssumption DEF Slots
  <2>2. v \in Int /\ new \in Int
    BY <1>3, <1>4, <1>6, <2>1, NodeNumbers DEF NextLeaf
  <2> QED BY <2>1, <2>2
<1>8. /\ x \in NodeType /\ x.is_leaf = nodes[q].is_leaf /\ x.parent = nodes[q].parent
      /\ x.keys = nodes[q].keys /\ x.num_keys = nodes[q].num_keys
      /\ \A i \in Slots \ {Order - 1} : x.pointers[i] = nodes[q].pointers[i]
  BY <1>6, <1>7 DEF NodeType
<1>9. /\ y \in NodeType /\ y.is_leaf = nodes[new].is_leaf /\ y.parent = nodes[new].parent
      /\ y.keys = nodes[new].keys /\ y.num_keys = nodes[new].num_keys
      /\ \A i \in Slots \ {Order - 1} : y.pointers[i] = nodes[new].pointers[i]
  BY <1>6, <1>7 DEF NodeType
<1>10. nodes' = [nodes EXCEPT ![q] = x, ![new] = y]
  BY <1>2, <1>4, <1>6
<1>11. Rewritten(t, "leaf_cut", frame[t], q, new, x, y)
  <2>1. Rewrites(t, "leaf_cut", frame[t], q, new, x, y)
    BY <1>2, <1>4, <1>5, <1>8, <1>9, <1>10 DEF Rewrites
  <2> QED BY <2>1, BothSeen
<1>12. ASSUME NEW m \in Nodes
       PROVE  nodes'[m].keys = nodes[m].keys /\ nodes'[m].num_keys = nodes[m].num_keys
  <2>1. CASE m = q
    BY <1>8, <1>11, <2>1 DEF Rewritten
  <2>2. CASE m = new
    BY <1>9, <1>11, <2>2 DEF Rewritten
  <2>3. CASE m \in Nodes \ {q, new}
    BY <1>11, <2>3 DEF Rewritten
  <2> QED BY <2>1, <2>2, <2>3
<1>13. \A m \in Nodes : SameKeys(m)
  <2>1. ASSUME NEW m \in Nodes, lock[m] = t PROVE Count(m)' = Count(m)
    <3>1. /\ Count(m) = Pending(pc[t], frame[t], m, nodes[m].num_keys)
          /\ Count(m)' = Pending("leaf_cut", frame[t], m, nodes'[m].num_keys)
      BY <1>11, <2>1, Zenon DEF Rewritten
    <3>2. nodes'[m].num_keys = nodes[m].num_keys /\ pc[t] = "leaf_link"
      BY <1>2, <1>12
    <3> QED BY ONLY <3>1, <3>2 DEF Pending
  <2> QED BY <1>11, <1>12, <2>1 DEF Rewritten, SameKeys, SameInner
<1>14. ASSUME NEW m \in Leaves PROVE SameEntries(m)
  <2>1. m \in Nodes /\ Count(m) \in 0 .. Order - 1
    BY CountBounds DEF Leaves
  <2>2. \A i \in 0 .. Count(m) - 1 : i \in Slots \ {Order - 1}
    BY <2>1, OrderAssumption DEF Slots
  <2> QED BY <1>8, <1>9, <1>11, <1>13, <2>1, <2>2 DEF Rewritten, SameEntries
<1>15. ASSUME NEW m \in Inner PROVE SameInner(m)
  <2>1. m \in Nodes \ {q, new}
    BY <1>4 DEF Inner
  <2> QED BY <1>11, <1>13, <2>1 DEF Rewritten, SameInner
<1>16. SameParents
  BY <1>8, <1>9, <1>11 DEF Rewritten, SameParents
<1> QED BY <1>2, <1>11, <1>12, <1>14, <1>15, <1>16 DEF Rewritten, KeptEntries

LEMMA LeafCutLinks ==
    ASSUME BInv, BInv', NEW t \in Threads, LeafCut(t)
    PROVE  /\ Steady(t) /\ KeptEntries
           /\ \A m \in Nodes : nodes'[m].parent = IF m = frame[t].right
                                                  THEN nodes[frame[t].left].parent
                                                  ELSE nodes[m].parent
           /\ pc[t] = "leaf_cut" /\ pc'[t] = "into_parent"
           /\ frame'[t] = [frame[t] EXCEPT !.key = nodes[frame[t].right].keys[0]]
<1>1. PICK q, new, c, f : /\ q = frame[t].left /\ new = frame[t].right /\ c = cut(Order - 1)
                          /\ f = [frame[t] EXCEPT !.key = nodes[new].keys[0]]
  OBVIOUS
<1>2. PICK x, y : /\ x = Cleared(nodes[q], c) /\ y = [nodes[new] EXCEPT !.parent = nodes[q].parent]
  OBVIOUS
<1>3. /\ pc[t] = "leaf_cut" /\ UNCHANGED <<lock, root, call>>
      /\ Goto(t, "into_parent", f)
      /\ nodes' = [nodes EXCEPT ![q] = x, ![new].parent = nodes[q].parent]
  BY <1>1, <1>2 DEF LeafCut, At
<1>4. NodesOK /\ FrameOK(t) /\ LockOK(t) /\ frame[t] \in FrameType
  BY ThreadFacts
<1>5. q \in Leaves /\ q \in Nodes /\ new \in Leaves /\ new \in Nodes /\ q # new
  BY <1>1, <1>3, <1>4 DEF FrameOK, LeafLabels, HoldsRight, Leaves
<1>6. lock[q] = t /\ lock[new] = t
  BY <1>1, <1>3, <1>4, <1>5 DEF LockOK, Holds, HoldsLeft, HoldsRight
<1>7. nodes[q] \in NodeType /\ nodes[new] \in NodeType /\ nodes[q].parent \in Int
  BY <1>4, <1>5, NodeFields
<1>8. /\ x \in NodeType /\ x.num_keys = c /\ x.is_leaf = nodes[q].is_leaf
      /\ x.keys = nodes[q].keys /\ x.parent = nodes[q].parent
      /\ \A i \in 0 .. c - 1 : x.pointers[i] = nodes[q].pointers[i]
  <2>1. c \in 0 .. Order - 1
    BY <1>1, CutBounds, OrderAssumption
  <2> QED BY <1>2, <1>7, <2>1, ClearedOK
<1>9. /\ y \in NodeType /\ y.is_leaf = nodes[new].is_leaf /\ y.parent = nodes[q].parent
      /\ y.keys = nodes[new].keys /\ y.num_keys = nodes[new].num_keys
      /\ y.pointers = nodes[new].pointers
  BY <1>2, <1>7 DEF NodeType
<1>10. nodes' = [nodes EXCEPT ![q] = x, ![new] = y]
  BY <1>2, <1>3, <1>5
<1>11. f.left = q /\ f.right = new /\ f.parent = frame[t].parent
  BY <1>1, <1>4 DEF FrameType
<1>12. "into_parent" \in HoldsRight /\ new = f.right
  BY <1>11 DEF HoldsRight
<1>13. Rewritten(t, "into_parent", f, q, new, x, y)
  <2>1. Rewrites(t, "into_parent", f, q, new, x, y)
    BY <1>3, <1>5, <1>6, <1>8, <1>9, <1>10, <1>12 DEF Rewrites
  <2> QED BY <2>1, BothSeen
<1>14. ASSUME NEW m \in Nodes
       PROVE  /\ nodes'[m].keys = nodes[m].keys
              /\ nodes'[m].parent = IF m = new THEN nodes[q].parent ELSE nodes[m].parent
              /\ nodes'[m].num_keys = IF m = q THEN c ELSE nodes[m].num_keys
  <2>1. CASE m = q
    BY <1>5, <1>8, <1>13, <2>1 DEF Rewritten
  <2>2. CASE m = new
    BY <1>5, <1>9, <1>13, <2>2 DEF Rewritten
  <2>3. CASE m \in Nodes \ {q, new}
    BY <1>13, <2>3 DEF Rewritten
  <2> QED BY <2>1, <2>2, <2>3
<1>15. ASSUME NEW m \in Nodes, lock[m] = t PROVE Count(m)' = Count(m) /\ (m = q => Count(m) = c)
  <2>1. /\ Count(m) = Pending(pc[t], frame[t], m, nodes[m].num_keys)
        /\ Count(m)' = Pending("into_parent", f, m, nodes'[m].num_keys)
    BY <1>13, <1>15, Zenon DEF Rewritten
  <2>2. /\ nodes'[m].num_keys = IF m = q THEN c ELSE nodes[m].num_keys
        /\ pc[t] = "leaf_cut" /\ q = frame[t].left /\ c = cut(Order - 1)
    BY <1>1, <1>3, <1>14
  <2> QED BY ONLY <2>1, <2>2 DEF Pending
<1>16. \A m \in Nodes : SameKeys(m)
  BY <1>13, <1>14, <1>15 DEF Rewritten, SameKeys, SameInner
<1>17. \A m \in Leaves : SameEntries(m)
  <2>1. \A m \in Leaves : m \in Nodes
    BY DEF Leaves
  <2>2. Count(q) = c
    BY <1>5, <1>6, <1>15
  <2> QED BY <1>8, <1>9, <1>13, <1>16, <2>1, <2>2 DEF Rewritten, SameEntries
<1>18. ASSUME NEW m \in Inner PROVE SameInner(m)
  <2>1. m \in Nodes \ {q, new}
    BY <1>5 DEF Inner
  <2> QED BY <1>13, <1>16, <2>1 DEF Rewritten, SameInner
<1>19. \A m \in Nodes : nodes'[m].parent = IF m = new THEN nodes[q].parent ELSE nodes[m].parent
  BY <1>14
<1> QED BY <1>1, <1>3, <1>13, <1>17, <1>18, <1>19 DEF Rewritten, KeptEntries

\* A leaf is split: the halves q and new.
LeafSplits(t, q, new) ==
    /\ Steady(t) /\ pc[t] = "leaf_split" /\ pc'[t] = "leaf_link"
    /\ frame'[t] = [frame[t] EXCEPT !.right = new] /\ UNCHANGED root
    /\ q = frame[t].left /\ q \in Leaves /\ new \notin Nodes
    /\ Nodes' = Nodes \cup {new} /\ Leaves' = Leaves \cup {new} /\ Inner' = Inner
    /\ \A m \in Nodes \ {q} : SameInner(m)
    /\ SameParents
    /\ Count(q)' = cut(Order - 1) /\ Count(new)' = Order - cut(Order - 1)

LEMMA LeafSplitLinks ==
    ASSUME BInv, BInv', OInv, NEW t \in Threads, LeafSplit(t)
    PROVE  \E q, new : LeafSplits(t, q, new)
<1>1. PICK q, node, f, c : /\ q = frame[t].left /\ node = nodes[q]
                           /\ f = frame[t] /\ c = cut(Order - 1)
  OBVIOUS
<1>2. PICK new, x, y :
         /\ nodes' = Append([nodes EXCEPT ![q] = y], x) /\ new = Len(nodes) + 1
         /\ Goto(t, "leaf_link", [f EXCEPT !.right = new])
         /\ y \in NodeType /\ y.is_leaf = node.is_leaf /\ y.parent = node.parent
         /\ x \in NodeType /\ x.is_leaf = TRUE /\ x.num_keys = Order - c
  <2>1. PICK l, r, h : Ordered(l, r, h)
    BY DEF OInv
  <2> QED BY <1>1, <2>1, LeafSplitNodes, ZenonT(60)
<1>3. pc[t] = "leaf_split" /\ lock' = Append(lock, t) /\ UNCHANGED <<root, call>>
  BY DEF LeafSplit, At
<1>4. NodesOK /\ FrameOK(t) /\ LockOK(t) /\ frame[t] \in FrameType
  BY ThreadFacts
<1>5. q \in Leaves /\ q \in Nodes
  BY <1>1, <1>3, <1>4 DEF FrameOK, LeafLabels, Leaves
<1>6. lock[q] = t
  BY <1>1, <1>3, <1>4, <1>5 DEF LockOK, Holds, HoldsLeft
<1>7. PICK half : half = [nodes EXCEPT ![q] = y]
  OBVIOUS
<1>8. /\ half \in Seq(NodeType) /\ DOMAIN half = Nodes /\ half[q] = y
      /\ \A m \in Nodes \ {q} : half[m] = nodes[m]
  BY <1>2, <1>4, <1>5, <1>7, UpdateOK, Zenon DEF NodesOK, Nodes
<1>9. /\ new \notin Nodes /\ Nodes' = Nodes \cup {new}
      /\ nodes'[new] = x /\ nodes'[q] = y /\ \A m \in Nodes \ {q} : nodes'[m] = nodes[m]
      /\ \A m \in Nodes : /\ m \in Leaves' <=> m \in Leaves
                          /\ m \in Inner' <=> m \in Inner
      /\ new \in Leaves' /\ new \notin Inner'
  <2>1. \A m \in Nodes : half[m].is_leaf = nodes[m].is_leaf
    BY <1>1, <1>2, <1>8
  <2>2. nodes' = Append(half, x)
    BY <1>2, <1>7
  <2>3. /\ Len(nodes) + 1 \in Int \ Nodes /\ Nodes' = Nodes \cup {Len(nodes) + 1}
        /\ nodes'[Len(nodes) + 1] = x /\ \A m \in Nodes : nodes'[m] = half[m]
        /\ \A m \in Nodes : /\ m \in Leaves' <=> m \in Leaves
                            /\ m \in Inner' <=> m \in Inner
        /\ Len(nodes) + 1 \in Leaves' <=> x.is_leaf
        /\ Len(nodes) + 1 \in Inner' <=> ~x.is_leaf
    BY <1>2, <1>4, <1>8, <2>1, <2>2, Grown, Zenon
  <2> QED BY <1>2, <1>5, <1>8, <2>3
<1>10. lock'[new] = t /\ \A m \in Nodes : lock'[m] = lock[m]
  <2>1. Nodes' = Nodes \cup {Len(nodes) + 1}
    BY <1>2, <1>9
  <2> QED BY <1>2, <1>3, <1>4, <2>1, GrownLocks DEF NodesOK
<1>11. new # q /\ new \in Nodes' /\ q \in Nodes'
  BY <1>5, <1>9
<1>12. Alone(t) /\ pc'[t] = "leaf_link" /\ frame'[t] = [f EXCEPT !.right = new]
  BY <1>2, <1>3, GotoAlone
<1>13. frame'[t].left = q /\ frame'[t].right = new
  BY <1>1, <1>4, <1>12 DEF FrameType
<1>14. SameParents
  BY <1>1, <1>2, <1>9 DEF SameParents
<1>15. Steady(t)
  <2>1. \A m \in Nodes : lock[m] # t => nodes'[m] = nodes[m]
    BY <1>6, <1>9
  <2> QED BY <1>9, <1>12, <1>14, <2>1 DEF Steady, SameParents
<1>16. Leaves' = Leaves \cup {new} /\ Inner' = Inner
  <2>1. (\A m \in Leaves' : m \in Nodes') /\ (\A m \in Leaves : m \in Nodes)
    BY DEF Leaves
  <2>2. (\A m \in Inner' : m \in Nodes') /\ (\A m \in Inner : m \in Nodes)
    BY DEF Inner
  <2> QED BY <1>9, <2>1, <2>2
<1>17. Count(q)' = c /\ Count(new)' = Order - c
  <2>1. /\ lock'[q] = t /\ lock'[new] = t /\ pc'[t] = "leaf_link"
        /\ q \in Nodes' /\ new \in Nodes' /\ nodes'[new] = x
    BY <1>5, <1>6, <1>9, <1>10, <1>11, <1>12
  <2>2. Count(q)' = Pending(pc'[t], frame'[t], q, nodes'[q].num_keys)
    BY ONLY BInv', t \in Threads, <2>1, HeldByNext
  <2>3. Count(new)' = Pending(pc'[t], frame'[t], new, nodes'[new].num_keys)
    BY ONLY BInv', t \in Threads, <2>1, HeldByNext
  <2> QED BY ONLY <1>1, <1>2, <1>11, <1>13, <2>1, <2>2, <2>3 DEF Pending
<1>18. ASSUME NEW m \in Nodes \ {q} PROVE SameInner(m)
  <2>1. m \in Nodes /\ m # new /\ m \in Nodes' /\ lock'[m] = lock[m] /\ nodes'[m] = nodes[m]
    BY <1>9, <1>10
  <2>2. CASE lock[m] # t
    BY <1>15, <2>1, <2>2, OutsideSame
  <2>3. CASE lock[m] = t
    <3>1. Count(m) = Pending("leaf_split", frame[t], m, nodes[m].num_keys)
      BY <1>3, <2>1, <2>3, HeldBy
    <3>2. Count(m)' = Pending("leaf_link", frame'[t], m, nodes[m].num_keys)
      BY <1>12, <2>1, <2>3, HeldByNext
    <3> QED BY <1>13, <2>1, <3>1, <3>2 DEF Pending, SameInner, SameKeys
  <2> QED BY <2>2, <2>3
<1>19. LeafSplits(t, q, new)
  BY <1>1, <1>3, <1>5, <1>9, <1>12, <1>14, <1>15, <1>16, <1>17, <1>18 DEF LeafSplits
<1> QED BY <1>19

\* A root is made of the halves left and right.
NewRoots(t, left, right, new) ==
    /\ Steady(t) /\ pc[t] = "into_parent" /\ pc'[t] = "put_return" /\ frame[t].parent = NULL
    /\ frame'[t] = [frame[t] EXCEPT !.root = new] /\ UNCHANGED root
    /\ left = frame[t].left /\ right = frame[t].right /\ left \in Nodes /\ right \in Nodes
    /\ left # right /\ new \notin Nodes /\ new # NULL
    /\ Nodes' = Nodes \cup {new} /\ Leaves' = Leaves /\ Inner' = Inner \cup {new}
    /\ \A m \in Nodes : SameInner(m)
    /\ \A m \in Nodes : nodes'[m].parent = IF m \in {left, right} THEN new ELSE nodes[m].parent
    /\ nodes'[new].parent = NULL /\ Count(new)' = 1
    /\ nodes'[new].pointers[0] = left /\ nodes'[new].pointers[1] = right

LEMMA NewRootLinks ==
    ASSUME BInv, BInv', NEW t \in Threads, NewRoot(t)
    PROVE  \E left, right, new : NewRoots(t, left, right, new)
<1>1. PICK left, right, new, key, x, half :
        /\ left = frame[t].left /\ right = frame[t].right /\ new = Len(nodes) + 1
        /\ key = frame[t].key
        /\ half = [nodes EXCEPT ![left].parent = new, ![right].parent = new]
        /\ x = [MakeNode(FALSE, NULL) EXCEPT !.num_keys = 1, !.keys[0] = key,
                    !.pointers[0] = left, !.pointers[1] = right]
  OBVIOUS
<1>2. /\ pc[t] = "into_parent" /\ frame[t].parent = NULL
      /\ nodes' = Append(half, x)
      /\ lock' = Append([lock EXCEPT ![left] = NoThread, ![right] = NoThread], NoThread)
      /\ Goto(t, "put_return", [frame[t] EXCEPT !.root = new])
      /\ UNCHANGED <<root, call>>
  BY <1>1 DEF NewRoot, At
<1>3. NodesOK /\ FrameOK(t) /\ LockOK(t) /\ frame[t] \in FrameType
  BY ThreadFacts
<1>4. left \in Nodes /\ right \in Nodes /\ left # right
  BY <1>1, <1>2, <1>3 DEF FrameOK, HoldsRight
<1>5. nodes[left] \in NodeType /\ nodes[right] \in NodeType
      /\ left \in Int /\ right \in Int /\ new \in Int /\ key \in Int
  BY <1>1, <1>3, <1>4, NodeFields DEF NodesOK, Nodes, FrameType
<1>6. /\ x \in NodeType /\ x.is_leaf = FALSE /\ x.num_keys = 1 /\ x.parent = NULL
      /\ x.keys[0] = key /\ x.pointers[0] = left /\ x.pointers[1] = right
  <2>1. /\ left \in Int /\ right \in Int /\ key \in Int
        /\ x = [MakeNode(FALSE, NULL) EXCEPT !.num_keys = 1, !.keys[0] = key,
                     !.pointers[0] = left, !.pointers[1] = right]
    BY <1>1, <1>5
  <2>2. RootLooks(x, left, right, key)
    BY ONLY <2>1, RootMade
  <2> QED BY <2>2 DEF RootLooks
<1>7. /\ half \in Seq(NodeType) /\ DOMAIN half = Nodes
      /\ \A m \in Nodes : /\ half[m].is_leaf = nodes[m].is_leaf
                          /\ half[m].num_keys = nodes[m].num_keys
                          /\ half[m].keys = nodes[m].keys
                          /\ half[m].pointers = nodes[m].pointers
                          /\ half[m].parent = IF m \in {left, right} THEN new ELSE nodes[m].parent
  <2>1. PICK a, b : /\ a = [nodes[left] EXCEPT !.parent = new]
                    /\ b = [nodes[right] EXCEPT !.parent = new]
    OBVIOUS
  <2>2. /\ a \in NodeType /\ a.is_leaf = nodes[left].is_leaf
        /\ a.num_keys = nodes[left].num_keys /\ a.keys = nodes[left].keys
        /\ a.pointers = nodes[left].pointers /\ a.parent = new
    BY <1>5, <2>1 DEF NodeType
  <2>3. /\ b \in NodeType /\ b.is_leaf = nodes[right].is_leaf
        /\ b.num_keys = nodes[right].num_keys /\ b.keys = nodes[right].keys
        /\ b.pointers = nodes[right].pointers /\ b.parent = new
    BY <1>5, <2>1 DEF NodeType
  <2>4. half = [nodes EXCEPT ![left] = a, ![right] = b]
    BY <1>1, <1>4, <2>1
  <2>5. /\ half \in Seq(NodeType) /\ DOMAIN half = Nodes
        /\ half[left] = a /\ half[right] = b
        /\ \A m \in Nodes \ {left, right} : half[m] = nodes[m]
    BY <1>3, <1>4, <2>2, <2>3, <2>4 DEF NodesOK, Nodes
  <2> QED BY <2>2, <2>3, <2>5
<1>8. /\ new \in Int \ Nodes /\ Nodes' = Nodes \cup {new}
      /\ nodes'[new] = x /\ \A m \in Nodes : nodes'[m] = half[m]
      /\ \A m \in Nodes : /\ m \in Leaves' <=> m \in Leaves
                          /\ m \in Inner' <=> m \in Inner
      /\ new \notin Leaves' /\ new \in Inner'
  <2>1. \A m \in Nodes : half[m].is_leaf = nodes[m].is_leaf
    BY <1>7, Zenon
  <2>2. /\ Len(nodes) + 1 \in Int \ Nodes /\ Nodes' = Nodes \cup {Len(nodes) + 1}
        /\ nodes'[Len(nodes) + 1] = x /\ \A m \in Nodes : nodes'[m] = half[m]
        /\ \A m \in Nodes : /\ m \in Leaves' <=> m \in Leaves
                            /\ m \in Inner' <=> m \in Inner
        /\ Len(nodes) + 1 \in Leaves' <=> x.is_leaf
        /\ Len(nodes) + 1 \in Inner' <=> ~x.is_leaf
    BY <1>2, <1>3, <1>6, <1>7, <2>1, Grown, Zenon
  <2> QED BY <1>1, <1>6, <2>2
<1>9. Leaves' = Leaves /\ Inner' = Inner \cup {new}
  <2>1. (\A m \in Leaves' : m \in Nodes') /\ (\A m \in Leaves : m \in Nodes)
    BY DEF Leaves
  <2>2. (\A m \in Inner' : m \in Nodes') /\ (\A m \in Inner : m \in Nodes)
    BY DEF Inner
  <2> QED BY <1>8, <2>1, <2>2
<1>10. /\ lock'[new] = NoThread
       /\ \A m \in Nodes : lock'[m] = IF m \in {left, right} THEN NoThread ELSE lock[m]
  <2>1. PICK free : free = [lock EXCEPT ![left] = NoThread, ![right] = NoThread]
    OBVIOUS
  <2>2. /\ free \in [Nodes -> Threads \cup {NoThread}]
        /\ \A m \in Nodes : free[m] = IF m \in {left, right} THEN NoThread ELSE lock[m]
    BY <1>3, <1>4, <2>1, SMTT(60) DEF NodesOK
  <2>3. lock' = Append(free, NoThread) /\ Nodes' = Nodes \cup {Len(nodes) + 1}
    BY <1>1, <1>2, <1>8, <2>1
  <2> QED BY <1>1, <1>3, <2>2, <2>3, GrownLocks
<1>11. new \in Nat /\ new \in Nodes' /\ new # left /\ new # right
  <2>1. Len(nodes) + 1 \in Nat
    BY <1>3, LenProperties DEF NodesOK
  <2> QED BY <1>1, <1>4, <1>8, <2>1
<1>12. Alone(t) /\ pc'[t] = "put_return" /\ frame'[t] = [frame[t] EXCEPT !.root = new]
  BY <1>2, GotoAlone
<1>14. \A m \in Nodes : lock[m] = t <=> m \in {left, right}
  <2>1. NULL \notin Nodes
    BY <1>3 DEF NodesOK, Nodes, NULL
  <2> QED BY <1>1, <1>2, <1>3, <2>1
          DEF LockOK, Holds, HoldsLeft, HoldsRight, HoldsParent, Deleting, DeleteLabels
<1>15. new # NULL
  BY <1>11 DEF NULL
<1>16. Steady(t)
  <2>1. \A m \in Nodes : nodes[m].parent # NULL => nodes'[m].parent # NULL
    BY <1>7, <1>8, <1>15
  <2>2. \A m \in Nodes : /\ nodes'[m].num_keys = nodes[m].num_keys
                         /\ nodes'[m].keys = nodes[m].keys
                         /\ nodes'[m].pointers = nodes[m].pointers
    BY <1>7, <1>8
  <2>3. Alone(t) /\ Nodes \subseteq Nodes' /\ \A m \in Nodes : m \in Leaves' <=> m \in Leaves
    BY <1>8, <1>12
  <2> QED BY ONLY <2>1, <2>2, <2>3 DEF Steady
<1>17. ASSUME NEW m \in Nodes PROVE SameInner(m)
  <2>1. CASE lock[m] # t
    <3>1. lock'[m] # t
      BY <1>10, <2>1, MenuAssumption
    <3> QED BY <1>16, <2>1, <3>1, OutsideSame
  <2>2. CASE lock[m] = t
    <3>1. /\ lock'[m] = NoThread /\ nodes'[m].num_keys = nodes[m].num_keys
          /\ nodes'[m].keys = nodes[m].keys /\ nodes'[m].pointers = nodes[m].pointers
      BY <1>7, <1>8, <1>10, <1>14, <2>2
    <3>2. Count(m)' = nodes'[m].num_keys
      BY <3>1, HeldByNoneNext
    <3>3. pc[t] \notin Special
      BY <1>2 DEF Special
    <3>4. Count(m) = nodes[m].num_keys
      BY <2>2, <3>3, HeldBy, PendingPlain
    <3> QED BY <3>1, <3>2, <3>4 DEF SameInner, SameKeys
  <2> QED BY <2>1, <2>2
<1>18. Count(new)' = 1
  BY <1>6, <1>8, <1>10, HeldByNoneNext
<1>19. \A m \in Nodes : nodes'[m].parent = IF m \in {left, right} THEN new ELSE nodes[m].parent
  BY <1>7, <1>8
<1>20. NewRoots(t, left, right, new)
  BY <1>1, <1>2, <1>4, <1>6, <1>8, <1>9, <1>12, <1>15, <1>16, <1>17, <1>18, <1>19 DEF NewRoots
<1> QED BY <1>20

\* A node is split: the halves q and new, whose children are tp.
NodeSplits(t, q, new, c, tp, i) ==
    /\ Steady(t) /\ pc[t] = "node_split" /\ pc'[t] = "into_parent" /\ UNCHANGED root
    /\ frame'[t].left = q /\ frame'[t].right = new
    /\ frame'[t].root = frame[t].root /\ frame'[t].parent = frame[t].parent
    /\ q = frame[t].left /\ q \in Inner /\ new \notin Nodes /\ new # NULL
    /\ Nodes' = Nodes \cup {new} /\ Leaves' = Leaves /\ Inner' = Inner \cup {new}
    /\ \A m \in Nodes \ {q} : SameInner(m)
    /\ c = cut(Order) /\ i \in 0 .. Order - 1
    /\ Count(q) = Order - 1 /\ Count(q)' = c - 1 /\ Count(new)' = Order - c
    /\ \A j \in 0 .. Order : tp[j] = IF j < i + 1 THEN nodes[q].pointers[j]
                                     ELSE IF j = i + 1 THEN frame[t].right
                                     ELSE nodes[q].pointers[j - 1]
    /\ \A j \in 0 .. c - 1 : nodes'[q].pointers[j] = tp[j]
    /\ \A j \in 0 .. Order - c : nodes'[new].pointers[j] = tp[c + j]
    /\ nodes'[q].parent = nodes[q].parent /\ nodes'[new].parent = nodes[q].parent
    /\ \A m \in Nodes \ {q} :
          nodes'[m].parent = IF m \in {tp[c + j] : j \in 0 .. Order - c} THEN new
                             ELSE nodes[m].parent

LEMMA NodeSplitLinks ==
    ASSUME BInv, BInv', NEW t \in Threads, NodeSplit(t)
    PROVE  \E q, new, c, tp, i : NodeSplits(t, q, new, c, tp, i)
<1>1. PICK q, f, c, node, i, key, right :
        /\ q = frame[t].left /\ f = frame[t] /\ c = cut(Order) /\ node = nodes[q]
        /\ i = f.index /\ key = f.key /\ right = f.right
  OBVIOUS
<1>2. PICK new, x, y, tk, tp, half, num :
        /\ nodes' = Append(half, x) /\ new = Len(nodes) + 1
        /\ Adopted(half, q, y, new, Moved(Slice(tp, c, Order + 1)))
        /\ Goto(t, "into_parent", [f EXCEPT !.right = new, !.key = tk[c - 1]])
        /\ NodeSplitInto(x, y, tk, tp, c, node, num, i, key, right)
  <2>1. SplitLocals(t, q, f, c, node, i, key, right)
    BY <1>1 DEF SplitLocals
  <2>2. SplitWrites(t, q, f, c, node, i, key, right)
    BY ONLY BInv, t \in Threads, NodeSplit(t), <2>1, NodeSplitNodes, SMTT(60)
  <2> QED BY <2>2 DEF SplitWrites
<1>3. PICK M : M = Moved(Slice(tp, c, Order + 1))
  OBVIOUS
<1>4. pc[t] = "node_split" /\ lock' = Append(lock, t) /\ UNCHANGED <<root, call>>
  BY DEF NodeSplit, At
<1>5. NodesOK /\ FrameOK(t) /\ LockOK(t) /\ RoomOK(t) /\ frame[t] \in FrameType
  BY ThreadFacts
<1>6. q \in Inner /\ q \in Nodes /\ right \in Nodes
  BY <1>1, <1>4, <1>5 DEF FrameOK, SplitLabels, Leaves, Inner
<1>7. lock[q] = t
  BY <1>1, <1>4, <1>5, <1>6 DEF LockOK, Holds, HoldsLeft
<1>8. Count(q) = Order - 1
  <2>1. Count(q) = Pending(pc[t], frame[t], q, nodes[q].num_keys)
    BY <1>6, <1>7, HeldBy
  <2> QED BY <1>1, <1>4, <2>1 DEF Pending
<1>9. /\ num = Order - 1
      /\ \A j \in 0 .. num : tk[j] = Spliced(node.keys, i, num, key)[j]
      /\ \A j \in 0 .. num + 1 : tp[j] = Spliced(node.pointers, i + 1, num + 1, right)[j]
      /\ \A j \in 0 .. num : tk[j] \in Int
      /\ y \in NodeType /\ y.is_leaf = node.is_leaf /\ y.parent = node.parent
      /\ y.num_keys = c - 1 /\ Copied(y.keys, c - 1, tk, 0) /\ Copied(y.pointers, c, tp, 0)
      /\ x \in NodeType /\ x.is_leaf = FALSE /\ x.parent = node.parent
      /\ x.num_keys = Order - c
      /\ Copied(x.keys, Order - c, tk, c) /\ Copied(x.pointers, Order - c + 1, tp, c)
  BY <1>2 DEF NodeSplitInto
<1>10. /\ num \in Nat /\ num + 1 = Order /\ i \in 0 .. num /\ c \in 1 .. Order
      /\ Order \in Nat /\ c - 1 \in 0 .. num /\ c \in 0 .. Order /\ 0 \in 0 .. Order
      /\ c - 1 \in 0 .. Order - 0 /\ c - 1 + 1 = c /\ Order - c \in 0 .. Order - c
  <2>1. c \in 1 .. Order
    BY <1>1, CutBounds
  <2>2. i \in Slots
    BY <1>1, <1>4, <1>5 DEF RoomOK, SplitLabels
  <2>3. num = Order - 1
    BY <1>9
  <2> QED BY ONLY <2>1, <2>2, <2>3, OrderAssumption DEF Slots
<1>11. /\ half \in Seq(NodeType) /\ DOMAIN half = Nodes /\ half[q] = y
       /\ \A m \in Nodes \ {q} :
             /\ half[m].is_leaf = nodes[m].is_leaf /\ half[m].num_keys = nodes[m].num_keys
             /\ half[m].keys = nodes[m].keys /\ half[m].pointers = nodes[m].pointers
             /\ half[m].parent = IF m \in M THEN new ELSE nodes[m].parent
  BY <1>2, <1>3 DEF Adopted
<1>12. /\ new \in Int \ Nodes /\ Nodes' = Nodes \cup {new}
       /\ nodes'[new] = x /\ \A m \in Nodes : nodes'[m] = half[m]
       /\ \A m \in Nodes : /\ m \in Leaves' <=> m \in Leaves
                           /\ m \in Inner' <=> m \in Inner
       /\ new \notin Leaves' /\ new \in Inner'
  <2>1. \A m \in Nodes : half[m].is_leaf = nodes[m].is_leaf
    BY <1>1, <1>9, <1>11
  <2>2. /\ Len(nodes) + 1 \in Int \ Nodes /\ Nodes' = Nodes \cup {Len(nodes) + 1}
        /\ nodes'[Len(nodes) + 1] = x /\ \A m \in Nodes : nodes'[m] = half[m]
        /\ \A m \in Nodes : /\ m \in Leaves' <=> m \in Leaves
                            /\ m \in Inner' <=> m \in Inner
        /\ Len(nodes) + 1 \in Leaves' <=> x.is_leaf
        /\ Len(nodes) + 1 \in Inner' <=> ~x.is_leaf
    BY <1>2, <1>5, <1>9, <1>11, <2>1, Grown, Zenon
  <2> QED BY <1>2, <1>9, <2>2
<1>13. Leaves' = Leaves /\ Inner' = Inner \cup {new}
  <2>1. (\A m \in Leaves' : m \in Nodes') /\ (\A m \in Leaves : m \in Nodes)
    BY DEF Leaves
  <2>2. (\A m \in Inner' : m \in Nodes') /\ (\A m \in Inner : m \in Nodes)
    BY DEF Inner
  <2> QED BY <1>12, <2>1, <2>2
<1>14. lock'[new] = t /\ \A m \in Nodes : lock'[m] = lock[m]
  <2>1. lock' = Append(lock, t) /\ Nodes' = Nodes \cup {Len(nodes) + 1}
    BY <1>2, <1>4, <1>12
  <2> QED BY <1>2, <1>5, <2>1, GrownLocks DEF NodesOK
<1>15. new \in Nat /\ new \in Nodes' /\ new # q /\ new # NULL /\ q \in Nodes'
  <2>1. Len(nodes) + 1 \in Nat /\ Len(nodes) + 1 # 0
    BY <1>5, LenProperties DEF NodesOK
  <2> QED BY <1>2, <1>6, <1>12, <2>1 DEF NULL
<1>16. /\ Alone(t) /\ pc'[t] = "into_parent"
       /\ frame'[t] = [frame[t] EXCEPT !.right = new, !.key = tk[c - 1]]
  <2>1. Goto(t, "into_parent", [frame[t] EXCEPT !.right = new, !.key = tk[c - 1]])
    BY <1>1, <1>2
  <2>2. PICK g : g = [frame[t] EXCEPT !.right = new, !.key = tk[c - 1]]
    OBVIOUS
  <2>3. Goto(t, "into_parent", g)
    BY <2>1, <2>2
  <2> QED BY <1>4, <2>2, <2>3, GotoAlone
<1>17. /\ frame'[t].left = q /\ frame'[t].root = frame[t].root /\ frame'[t].right = new
       /\ frame'[t].key = tk[c - 1] /\ frame'[t].parent = frame[t].parent
  BY <1>1, <1>5, <1>16 DEF FrameType
<1>18. nodes'[q] = y
       /\ \A m \in Nodes \ {q} :
             /\ nodes'[m].num_keys = nodes[m].num_keys
             /\ nodes'[m].keys = nodes[m].keys /\ nodes'[m].pointers = nodes[m].pointers
             /\ nodes'[m].parent = IF m \in M THEN new ELSE nodes[m].parent
  BY <1>6, <1>11, <1>12
<1>19. Steady(t)
  <2>1. \A m \in Nodes : nodes[m].parent # NULL => nodes'[m].parent # NULL
    <3>1. nodes'[q].parent = nodes[q].parent
      BY <1>1, <1>9, <1>18
    <3> QED BY <1>15, <1>18, <3>1
  <2>2. \A m \in Nodes : lock[m] # t => m # q
    BY <1>7
  <2> QED BY <1>12, <1>16, <1>18, <2>1, <2>2 DEF Steady
<1>20. ASSUME NEW m \in Nodes \ {q}
       PROVE  SameInner(m)
  <2>1. CASE lock[m] # t
    <3>1. lock'[m] # t
      BY <1>14, <2>1
    <3> QED BY <1>19, <2>1, <3>1, OutsideSame
  <2>2. CASE lock[m] = t
    <3>1. lock'[m] = t /\ m \in Nodes' /\ lock'[m] # NoThread
      BY <1>12, <1>14, <2>2, MenuAssumption
    <3>2. /\ nodes'[m].keys = nodes[m].keys /\ nodes'[m].pointers = nodes[m].pointers
          /\ nodes'[m].num_keys = nodes[m].num_keys
      BY <1>18
    <3>3. /\ Pending(pc[t], frame[t], m, nodes[m].num_keys) = nodes[m].num_keys
          /\ Pending(pc'[t], frame'[t], m, nodes'[m].num_keys) = nodes'[m].num_keys
      <4>1. Pending(pc[t], frame[t], m, nodes[m].num_keys) = nodes[m].num_keys
        BY <1>1, <1>4 DEF Pending
      <4>2. Pending(pc'[t], frame'[t], m, nodes'[m].num_keys) = nodes'[m].num_keys
        BY <1>16 DEF Pending
      <4> QED BY <4>1, <4>2
    <3>4. Count(m) = nodes[m].num_keys
      BY <1>4, <2>2, <3>3, HeldBy
    <3>5. Count(m)' = nodes'[m].num_keys
      BY <3>1, <3>2, <3>3, HeldByNext
    <3> QED BY <3>2, <3>4, <3>5 DEF SameInner, SameKeys
  <2> QED BY <2>1, <2>2
<1>21. /\ Count(q)' = c - 1 /\ Count(new)' = Order - c
  <2>1. /\ lock'[q] = t /\ q \in Nodes' /\ lock'[new] = t /\ new \in Nodes'
        /\ pc'[t] = "into_parent" /\ nodes'[q].num_keys = c - 1
        /\ nodes'[new].num_keys = Order - c /\ frame'[t].right = new
    BY <1>7, <1>6, <1>9, <1>12, <1>14, <1>15, <1>16, <1>17, <1>18
  <2>2. Count(q)' = Pending(pc'[t], frame'[t], q, nodes'[q].num_keys)
    BY ONLY BInv', t \in Threads, <2>1, HeldByNext
  <2>3. Count(new)' = Pending(pc'[t], frame'[t], new, nodes'[new].num_keys)
    BY ONLY BInv', t \in Threads, <2>1, HeldByNext
  <2> QED BY <2>1, <2>2, <2>3 DEF Pending
<1>22. M = {tp[c + j] : j \in 0 .. Order - c}
  <2>1. PICK upper : upper = Slice(tp, c, Order + 1)
    OBVIOUS
  <2>2. DOMAIN upper = 0 .. Order - c /\ \A j \in 0 .. Order - c : upper[j] = tp[c + j]
    BY ONLY <1>10, <2>1, SMTT(60) DEF Slice
  <2> QED BY <1>3, <2>1, <2>2 DEF Moved
<1>23. \A j \in 0 .. Order : tp[j] = IF j < i + 1 THEN node.pointers[j]
                                     ELSE IF j = i + 1 THEN right ELSE node.pointers[j - 1]
  <2>1. PICK p : p = node.pointers
    OBVIOUS
  <2>2. \A j \in 0 .. num + 1 : tp[j] = Spliced(p, i + 1, num + 1, right)[j]
    BY <1>9, <2>1
  <2>3. \A j \in 0 .. Order : tp[j] = IF j < i + 1 THEN p[j]
                                     ELSE IF j = i + 1 THEN right ELSE p[j - 1]
    BY ONLY <1>10, <2>2 DEF Spliced
  <2> QED BY <2>1, <2>3
<1>24. /\ \A j \in 0 .. c - 1 : nodes'[q].pointers[j] = tp[j]
       /\ \A j \in 0 .. Order - c : nodes'[new].pointers[j] = tp[c + j]
  <2>1. Copied(y.pointers, c, tp, 0) /\ Copied(x.pointers, Order - c + 1, tp, c)
    BY <1>9
  <2>2. PICK f2, g, b : f2 = y.pointers /\ g = x.pointers /\ b = Order - c + 1
    OBVIOUS
  <2>3. Copied(f2, c, tp, 0) /\ Copied(g, b, tp, c)
    BY <2>1, <2>2
  <2>4. (\A j \in 0 .. c - 1 : f2[j] = tp[0 + j]) /\ \A j \in 0 .. b - 1 : g[j] = tp[c + j]
    BY ONLY <2>3 DEF Copied
  <2>5. (\A j \in 0 .. c - 1 : 0 + j = j) /\ \A j \in 0 .. Order - c : j \in 0 .. b - 1
    BY ONLY <1>10, <2>2
  <2>6. (\A j \in 0 .. c - 1 : f2[j] = tp[j]) /\ \A j \in 0 .. Order - c : g[j] = tp[c + j]
    BY ONLY <2>4, <2>5
  <2> QED BY <1>12, <1>18, <2>2, <2>6
<1>25. \A m \in Nodes \ {q} : nodes'[m].parent = IF m \in {tp[c + j] : j \in 0 .. Order - c}
                                               THEN new ELSE nodes[m].parent
  BY <1>18, <1>22
<1>26. nodes'[q].parent = nodes[q].parent /\ nodes'[new].parent = nodes[q].parent
  BY <1>1, <1>9, <1>12, <1>18
<1>27. /\ frame'[t].left = q /\ frame'[t].right = new
       /\ frame'[t].root = frame[t].root /\ frame'[t].parent = frame[t].parent
       /\ \A j \in 0 .. Order : tp[j] = IF j < i + 1 THEN nodes[q].pointers[j]
                                        ELSE IF j = i + 1 THEN frame[t].right
                                        ELSE nodes[q].pointers[j - 1]
  BY <1>1, <1>17, <1>23
<1>28. c = cut(Order) /\ i \in 0 .. Order - 1 /\ q = frame[t].left
  BY <1>1, <1>9, <1>10
<1>29. NodeSplits(t, q, new, c, tp, i)
  BY <1>4, <1>6, <1>8, <1>12, <1>13, <1>15, <1>16, <1>19, <1>20, <1>21, <1>24, <1>25, <1>26, <1>27,
     <1>28, Zenon DEF NodeSplits
<1> QED BY <1>29

-------------------------------------------------------------------------------
(* Balanced: all leaves are equally deep *)

LEMMA HeightIs ==
    ASSUME BInv, Quiet, NEW l, NEW r, NEW h, Ordered(l, r, h), NEW height,
           height = CHOOSE f : f = [n \in Nodes |-> IF nodes[n].is_leaf THEN 0
                                                     ELSE 1 + f[nodes[n].pointers[0]]]
    PROVE  \A n \in Nodes : height[n] = h[n]
<1>1. PICK first : first = [n \in Nodes |-> nodes[n].pointers[0]]
  OBVIOUS
<1>2. \A n \in Nodes : /\ h[n] \in Nat
                       /\ n \in Leaves <=> nodes[n].is_leaf
                       /\ n \in Inner <=> ~nodes[n].is_leaf
  BY NodeNumbers, SMTT(60) DEF BInv, Ordered, Ghosts, Leaves, Inner
<1>3. \A n \in Leaves : h[n] = 0
  BY DEF Ordered, NodeOrder, LeavesOrder, Chained
<1>4. ASSUME NEW n \in Inner PROVE first[n] \in Nodes /\ h[n] = 1 + h[first[n]]
  <2>1. n \in Nodes /\ Routes(l, r, h, n) /\ Count(n) \in 0 .. Order - 1
    BY CountBounds DEF Ordered, NodeOrder, Inner
  <2>2. 0 \in 0 .. Count(n)
    BY ONLY <2>1, OrderAssumption
  <2>3. first[n] \in Nodes /\ h[n] = h[first[n]] + 1
    BY <1>1, <2>1, <2>2 DEF Routes
  <2>4. h[first[n]] \in Nat
    BY <1>2, <2>3
  <2> QED BY ONLY <2>3, <2>4
<1>5. height = [n \in Nodes |-> IF nodes[n].is_leaf THEN 0 ELSE 1 + height[nodes[n].pointers[0]]]
  <2>1. PICK f : f = [n \in Nodes |-> h[n]]
    OBVIOUS
  <2>2. ASSUME NEW n \in Nodes
        PROVE  f[n] = IF nodes[n].is_leaf THEN 0 ELSE 1 + f[nodes[n].pointers[0]]
    <3>1. CASE n \in Leaves
      BY <1>2, <1>3, <2>1, <3>1
    <3>2. CASE n \in Inner
      BY <1>1, <1>2, <1>4, <2>1, <3>2
    <3> QED BY <3>1, <3>2 DEF Inner
  <2>3. f = [n \in Nodes |-> IF nodes[n].is_leaf THEN 0 ELSE 1 + f[nodes[n].pointers[0]]]
    BY <2>1, <2>2
  <2> QED BY ONLY <2>3, height = CHOOSE f_1 : f_1 = [n \in Nodes |->
                             IF nodes[n].is_leaf THEN 0 ELSE 1 + f_1[nodes[n].pointers[0]]]
<1> DEFINE A == {k \in Nat : \A n \in Nodes : h[n] <= k => height[n] = h[n]}
<1>6. \A n \in Leaves : height[n] = h[n]
  BY <1>2, <1>3, <1>5 DEF Leaves
<1>7. 0 \in A
  <2>1. ASSUME NEW n \in Nodes, h[n] <= 0 PROVE n \in Leaves
    <3>1. CASE n \in Inner
      <4>1. h[n] \in Nat /\ h[n] = 1 + h[first[n]] /\ h[first[n]] \in Nat
        BY <1>2, <1>4, <3>1
      <4> QED BY ONLY <2>1, <4>1
    <3> QED BY <3>1 DEF Inner
  <2> QED BY <1>6, <2>1
<1>8. ASSUME NEW k \in A PROVE k + 1 \in A
  <2>1. ASSUME NEW n \in Inner, h[n] <= k + 1 PROVE height[n] = h[n]
    <3>1. first[n] \in Nodes /\ h[n] = 1 + h[first[n]] /\ n \in Nodes
      BY <1>4, <2>1 DEF Inner
    <3>2. h[first[n]] \in Nat /\ k \in Nat
      BY <1>2, <1>8, <3>1
    <3>3. h[first[n]] <= k
      BY ONLY <2>1, <3>1, <3>2
    <3>4. height[first[n]] = h[first[n]]
      BY <1>8, <3>1, <3>3
    <3>5. height[n] = 1 + height[first[n]]
      BY <1>1, <1>2, <1>5, <2>1, <3>1
    <3> QED BY ONLY <3>1, <3>4, <3>5
  <2>2. \A n \in Nodes : h[n] <= k + 1 => height[n] = h[n]
    BY <1>6, <2>1 DEF Inner
  <2> QED BY <2>2
<1> HIDE DEF A
<1>9. A = Nat
  BY <1>7, <1>8, AllNaturals DEF A
<1> QED BY <1>2, <1>9 DEF A

-------------------------------------------------------------------------------
(* Balanced: all nodes are half full, as long as nothing is deleted *)

Least(n) == IF n \in Leaves THEN Order \div 2 ELSE (Order - 1) \div 2

Enough(n) == Count(n) >= Least(n)

FilledChildren(n) == \A i \in 0 .. Count(n) : Enough(nodes[n].pointers[i])

\* The halves of a node that was split, of which the right one may still be without a parent.
FilledHalves(t) ==
    /\ pc[t] \in HoldsRight => Enough(frame[t].left)
    /\ pc[t] \in HoldsRight \cup SplitLabels => Enough(frame[t].right)

Filled ==
    /\ \A n \in Nodes : nodes[n].parent # NULL => Enough(n)
    /\ \A n \in Inner : FilledChildren(n)
    /\ \A t \in Threads : FilledHalves(t)

EnoughKept == \A n \in Nodes : Enough(n) => Enough(n)'

\* Who is a leaf stays one.
LEMMA LeastKept ==
    ASSUME NEW t \in Threads, Steady(t), NEW n \in Nodes
    PROVE  Least(n)' = Least(n)
BY DEF Steady, Least

LEMMA LeastType == \A n : Least(n) \in Nat
<1>1. Order \div 2 \in Nat /\ (Order - 1) \div 2 \in Nat
  BY ONLY OrderAssumption
<1> QED BY <1>1 DEF Least

LEMMA FilledStep ==
    ASSUME BInv, BInv', NEW t \in Threads, Steady(t), Filled, EnoughKept,
           \A n \in Nodes' : nodes'[n].parent # NULL =>
               (n \in Nodes /\ nodes[n].parent # NULL) \/ Enough(n)',
           \A n \in Inner' : FilledChildren(n)',
           FilledHalves(t)'
    PROVE  Filled'
<1>1. ASSUME NEW n \in Nodes', nodes'[n].parent # NULL PROVE Enough(n)'
  BY <1>1 DEF Filled, EnoughKept
<1>2. ASSUME NEW u \in Threads \ {t} PROVE FilledHalves(u)'
  <2>1. FilledHalves(u) /\ FrameOK(u)
    BY ThreadFacts DEF Filled
  <2>2. PICK left, right : left = frame[u].left /\ right = frame[u].right
    OBVIOUS
  <2>3. pc'[u] = pc[u] /\ frame'[u] = frame[u]
    BY DEF Steady, Alone
  <2>4. frame'[u].left = left /\ frame'[u].right = right
    BY <2>2, <2>3
  <2>5. pc[u] \in HoldsRight => left \in Nodes /\ Enough(left)
    BY <2>1, <2>2 DEF FrameOK, FilledHalves, HoldsRight
  <2>6. pc[u] \in HoldsRight \cup SplitLabels => right \in Nodes /\ Enough(right)
    BY <2>1, <2>2 DEF FrameOK, FilledHalves
  <2>7. /\ pc[u] \in HoldsRight => Enough(left)'
        /\ pc[u] \in HoldsRight \cup SplitLabels => Enough(right)'
    BY <2>5, <2>6 DEF EnoughKept
  <2> QED BY <2>3, <2>4, <2>7 DEF FilledHalves
<1>3. \A n \in Inner' : FilledChildren(n)'
  OBVIOUS
<1>4. \A u \in Threads : FilledHalves(u)'
  BY <1>2
<1> QED BY <1>1, <1>3, <1>4 DEF Filled

LEMMA ChildIsNode ==
    ASSUME OInv, NEW n \in Inner, NEW i \in 0 .. Count(n)
    PROVE  nodes[n].pointers[i] \in Nodes
BY DEF OInv, Ordered, NodeOrder, Routes

\* A node that keeps its keys and pointers keeps its children filled.
LEMMA FilledSame ==
    ASSUME OInv, EnoughKept, NEW n \in Inner, FilledChildren(n), SameInner(n)
    PROVE  FilledChildren(n)'
<1>1. Count(n)' = Count(n) /\ nodes'[n].pointers = nodes[n].pointers
  BY DEF SameInner, SameKeys
<1> SUFFICES ASSUME NEW i \in 0 .. Count(n) PROVE Enough(nodes[n].pointers[i])'
  BY <1>1 DEF FilledChildren
<1>2. PICK m : m = nodes[n].pointers[i]
  OBVIOUS
<1>3. m \in Nodes
  BY <1>2, ChildIsNode
<1>4. Enough(m)'
  BY <1>2, <1>3 DEF FilledChildren, EnoughKept
<1> QED BY <1>1, <1>2, <1>4

\* A step that changes no link between nodes and takes no key away.
LEMMA FilledLinks ==
    ASSUME BInv, BInv', OInv, NEW t \in Threads, Steady(t), Filled, SameLinks, Fuller
    PROVE  /\ EnoughKept
           /\ FilledHalves(t)' => Filled'
<1>1. EnoughKept
  <2> SUFFICES ASSUME NEW n \in Nodes, Enough(n) PROVE Enough(n)'
    BY DEF EnoughKept
  <2>1. Count(n)' = Count(n) \/ Count(n)' = Count(n) + 1
    BY DEF SameLinks, Fuller, SameInner, SameKeys, Inner
  <2>2. Count(n) \in Nat /\ Least(n) \in Nat /\ Least(n)' = Least(n)
    <3>1. Count(n) \in Nat
      BY CountBounds, OrderAssumption
    <3> QED BY <3>1, LeastType, LeastKept
  <2>3. Count(n)' >= Least(n)'
    <3>1. Count(n) >= Least(n)
      BY DEF Enough
    <3> QED BY ONLY <2>1, <2>2, <3>1
  <2> QED BY <2>3 DEF Enough
<1>2. \A n \in Nodes' : nodes'[n].parent # NULL => n \in Nodes /\ nodes[n].parent # NULL
  BY DEF SameLinks, SameParents
<1>3. \A n \in Inner' : FilledChildren(n)'
  BY <1>1, FilledSame DEF Filled, SameLinks
<1> QED BY <1>1, <1>2, <1>3, FilledStep

\* Nobody deletes.
NoDeletes == \A t \in Threads : \A c \in Menu[t] : c.type # OP_DELETE

FromMenu == \A t \in Threads : call[t] \in Menu[t] \cup {NoCall}

\* A thread that does not split keeps no halves.
LEMMA HalvesDone ==
    ASSUME NEW t, pc'[t] \notin HoldsRight \cup SplitLabels
    PROVE  FilledHalves(t)'
BY DEF FilledHalves

\* The halves are kept where they are.
LEMMA HalvesKept ==
    ASSUME BInv, NEW t \in Threads, FilledHalves(t), EnoughKept,
           pc[t] \in HoldsRight \cup SplitLabels, frame'[t].right = frame[t].right,
           pc'[t] \in HoldsRight => pc[t] \in HoldsRight /\ frame'[t].left = frame[t].left
    PROVE  FilledHalves(t)'
<1>1. PICK left, right : left = frame[t].left /\ right = frame[t].right
  OBVIOUS
<1>2. right \in Nodes /\ (pc[t] \in HoldsRight => left \in Nodes)
  BY <1>1, ThreadFacts DEF FrameOK, HoldsRight
<1>3. Enough(right)'
  BY <1>1, <1>2 DEF FilledHalves, EnoughKept
<1>4. pc[t] \in HoldsRight => Enough(left)'
  BY <1>1, <1>2 DEF FilledHalves, EnoughKept
<1>5. /\ frame'[t].right = right
      /\ pc'[t] \in HoldsRight => pc[t] \in HoldsRight /\ frame'[t].left = left
  BY <1>1
<1> QED BY <1>3, <1>4, <1>5 DEF FilledHalves

LEMMA WalksFilled ==
    ASSUME BInv, BInv', OInv, Filled, NEW t \in Threads, Walks(t) \/ Climbs(t)
    PROVE  Filled'
<1>1. QuietTree(t)
  BY WalksQuiet, ClimbsQuiet
<1>2. Steady(t) /\ SameLinks /\ Fuller
  BY <1>1, QuietLinks, KeptLinks
<1>3. EnoughKept /\ (FilledHalves(t)' => Filled')
  BY <1>2, FilledLinks
<1>4. CASE Walks(t)
  BY <1>3, <1>4, WalksQuiet, HalvesDone
<1>5. CASE Climbs(t)
  <2>1. /\ pc[t] \in HoldsRight \cup SplitLabels
        /\ frame'[t].right = frame[t].right
        /\ pc'[t] \in HoldsRight => pc[t] \in HoldsRight /\ frame'[t].left = frame[t].left
    BY <1>5, ClimbsQuiet
  <2> QED BY <1>3, <2>1, HalvesKept DEF Filled
<1> QED BY <1>4, <1>5

LEMMA CountFilled ==
    ASSUME BInv, BInv', OInv, Filled, NEW t \in Threads,
           LeafCount(t) \/ NodeCount(t) \/ RemoveCount(t)
    PROVE  Filled'
<1>1. PICK n, x : Done(t, n, x)
  BY LeafCountDone, NodeCountDone, RemoveCountDone
<1>2. pc'[t] = "put_return" /\ Steady(t) /\ SameLinks /\ Fuller
  BY <1>1, DoneKept, KeptLinks
<1>3. FilledHalves(t)'
  BY <1>2, HalvesDone DEF HoldsRight, SplitLabels
<1> QED BY <1>2, <1>3, FilledLinks

LEMMA LeafWriteFilled ==
    ASSUME BInv, BInv', OInv, Filled, NEW t \in Threads, LeafWrite(t)
    PROVE  Filled'
<1>1. Steady(t) /\ SameLinks /\ Fuller /\ pc'[t] = "leaf_count"
  BY LeafWriteLinks
<1>2. FilledHalves(t)'
  BY <1>1, HalvesDone DEF HoldsRight, SplitLabels
<1> QED BY <1>1, <1>2, FilledLinks

LEMMA LeafLinkFilled ==
    ASSUME BInv, BInv', OInv, Filled, NEW t \in Threads, LeafLink(t)
    PROVE  Filled'
<1>1. /\ Steady(t) /\ SameLinks /\ Fuller
      /\ pc[t] = "leaf_link" /\ pc'[t] = "leaf_cut" /\ frame'[t] = frame[t]
  BY LeafLinkLinks, KeptLinks
<1>2. EnoughKept /\ (FilledHalves(t)' => Filled')
  BY <1>1, FilledLinks
<1>3. FilledHalves(t)'
  BY <1>1, <1>2, HalvesKept DEF HoldsRight, Filled
<1> QED BY <1>2, <1>3

\* The node that is emptied is full.
LEMMA EmptyLinks ==
    ASSUME BInv, BInv', OInv, NEW t \in Threads, NodeEmpty(t)
    PROVE  /\ Steady(t) /\ KeptEntries /\ SameParents
           /\ pc[t] = "node_empty" /\ pc'[t] = "node_split" /\ frame'[t] = frame[t]
<1>1. PICK l, r, h : Ordered(l, r, h)
  BY DEF OInv
<1>2. pc[t] = "node_empty"
  BY DEF NodeEmpty, At
<1>3. nodes[frame[t].left].num_keys = Order - 1
  BY <1>1, <1>2 DEF Ordered, ThreadOrder, SplitOrder
<1> QED BY <1>3, NodeEmptyLinks

LEMMA NodeEmptyFilled ==
    ASSUME BInv, BInv', OInv, Filled, NEW t \in Threads, NodeEmpty(t)
    PROVE  Filled'
<1>1. /\ Steady(t) /\ SameLinks /\ Fuller
      /\ pc[t] = "node_empty" /\ pc'[t] = "node_split" /\ frame'[t] = frame[t]
  BY EmptyLinks, KeptLinks
<1>2. EnoughKept /\ (FilledHalves(t)' => Filled')
  BY <1>1, FilledLinks
<1>3. FilledHalves(t)'
  BY <1>1, <1>2, HalvesKept DEF HoldsRight, SplitLabels, Filled
<1> QED BY <1>2, <1>3

\* The new leaf gets a parent, and is half full.
LEMMA LeafCutFilled ==
    ASSUME BInv, BInv', OInv, Filled, NEW t \in Threads, LeafCut(t)
    PROVE  Filled'
<1>1. PICK left, right : left = frame[t].left /\ right = frame[t].right
  OBVIOUS
<1>2. /\ Steady(t) /\ KeptEntries
      /\ \A m \in Nodes : nodes'[m].parent = IF m = right THEN nodes[left].parent
                                             ELSE nodes[m].parent
      /\ pc[t] = "leaf_cut" /\ pc'[t] = "into_parent"
      /\ frame'[t] = [frame[t] EXCEPT !.key = nodes[right].keys[0]]
  BY <1>1, LeafCutLinks
<1>3. frame'[t].left = left /\ frame'[t].right = right
  BY <1>1, <1>2, ThreadFacts DEF FrameType
<1>4. \A n \in Nodes : Count(n)' = Count(n)
  BY <1>2 DEF KeptEntries, SameEntries, SameInner, SameKeys, Inner
<1>5. EnoughKept
  BY <1>2, <1>4, LeastKept DEF Enough, EnoughKept
<1>6. right \in Nodes /\ Enough(right)'
  <2>1. right \in Nodes
    BY <1>1, <1>2, ThreadFacts DEF FrameOK, HoldsRight
  <2>2. Enough(right)
    BY <1>1, <1>2 DEF Filled, FilledHalves, HoldsRight
  <2> QED BY <1>5, <2>1, <2>2 DEF EnoughKept
<1>7. \A n \in Nodes' : nodes'[n].parent # NULL =>
          (n \in Nodes /\ nodes[n].parent # NULL) \/ Enough(n)'
  BY <1>2, <1>6 DEF KeptEntries
<1>8. \A n \in Inner' : FilledChildren(n)'
  BY <1>2, <1>5, FilledSame DEF Filled, KeptEntries
<1>9. FilledHalves(t)'
  BY <1>1, <1>2, <1>3, <1>5, HalvesKept DEF HoldsRight, Filled
<1> QED BY <1>2, <1>5, <1>7, <1>8, <1>9, FilledStep

\* Node n has one child more, the right half of child i.
NodeGrows(t, n, i, num) ==
    /\ Steady(t) /\ UNCHANGED <<Nodes, Leaves, Inner>> /\ SameParents
    /\ pc[t] = "into_parent" /\ pc'[t] = "node_count" /\ frame'[t] = frame[t]
    /\ n = frame[t].parent /\ n \in Inner /\ i \in 0 .. num /\ num \in Nat
    /\ nodes[frame[t].left].parent = n
    /\ \A m \in Nodes \ {n} : SameInner(m)
    /\ Count(n) = num /\ Count(n)' = num + 1
    /\ \A j \in 0 .. num + 1 :
          nodes'[n].pointers[j] = IF j < i + 1 THEN nodes[n].pointers[j]
                                  ELSE IF j = i + 1 THEN frame[t].right
                                  ELSE nodes[n].pointers[j - 1]

LEMMA NodeWriteLinks ==
    ASSUME BInv, BInv', NEW t \in Threads, NodeWrite(t)
    PROVE  \E n, i, num : NodeGrows(t, n, i, num)
<1>1. PICK n, x, i, num : NodeWrites(t, n, x, i, num)
  BY NodeWriteSeen
<1>2. /\ n = frame[t].parent /\ n \in Inner /\ num = nodes[n].num_keys /\ num \in 0 .. Order - 2
      /\ i \in 0 .. num /\ x.num_keys = num
      /\ pc[t] = "into_parent" /\ nodes[frame[t].left].parent = n
      /\ Changed(t, "node_count", n, x)
  BY <1>1, ChangeSeen, Zenon DEF NodeWrites
<1>3. Inserted(x.pointers, nodes[n].pointers, i + 1, num + 1, frame[t].right)
  BY <1>1, Zenon DEF NodeWrites
<1>4. /\ nodes'[n] = x /\ \A m \in Nodes \ {n} : SameInner(m)
      /\ Steady(t) /\ UNCHANGED <<Nodes, Leaves, Inner>> /\ SameParents
      /\ pc'[t] = "node_count" /\ frame'[t] = frame[t]
      /\ Count(n) = Pending(pc[t], frame[t], n, nodes[n].num_keys)
      /\ Count(n)' = Pending("node_count", frame[t], n, x.num_keys)
  BY <1>2, Zenon DEF Changed
<1>5. Count(n) = num /\ Count(n)' = num + 1
  BY ONLY <1>2, <1>4 DEF Pending
<1>6. num \in Nat /\ \A j \in 0 .. num + 1 : j \in Slots /\ ~(j > num + 1)
  BY ONLY <1>2, OrderAssumption DEF Slots
<1>7. \A j \in 0 .. num + 1 :
          x.pointers[j] = IF j < i + 1 THEN nodes[n].pointers[j]
                          ELSE IF j = i + 1 THEN frame[t].right
                          ELSE nodes[n].pointers[j - 1]
  <2>1. PICK f, g, v : f = x.pointers /\ g = nodes[n].pointers /\ v = frame[t].right
    OBVIOUS
  <2>2. Inserted(f, g, i + 1, num + 1, v)
    BY <1>3, <2>1
  <2>3. \A j \in 0 .. num + 1 : f[j] = IF j < i + 1 THEN g[j] ELSE IF j = i + 1 THEN v ELSE g[j - 1]
    BY ONLY <1>6, <2>2 DEF Inserted
  <2> QED BY <2>1, <2>3
<1>8. NodeGrows(t, n, i, num)
  BY <1>2, <1>4, <1>5, <1>6, <1>7, Zenon DEF NodeGrows
<1> QED BY <1>8

LEMMA NodeWriteFilled ==
    ASSUME BInv, BInv', OInv, Filled, NEW t \in Threads, NodeWrite(t)
    PROVE  Filled'
<1>1. PICK n, i, num : NodeGrows(t, n, i, num)
  BY NodeWriteLinks
<1>2. /\ Steady(t) /\ UNCHANGED <<Nodes, Leaves, Inner>> /\ SameParents
      /\ pc[t] = "into_parent" /\ pc'[t] = "node_count" /\ frame'[t] = frame[t]
      /\ n \in Inner /\ i \in 0 .. num /\ num \in Nat
      /\ \A m \in Nodes \ {n} : SameInner(m)
      /\ Count(n) = num /\ Count(n)' = num + 1
  BY <1>1, Zenon DEF NodeGrows
<1>3. n \in Nodes /\ Inner \subseteq Nodes
  BY <1>2 DEF Inner
<1>4. EnoughKept
  <2> SUFFICES ASSUME NEW m \in Nodes, Enough(m) PROVE Enough(m)'
    BY DEF EnoughKept
  <2>1. Least(m)' = Least(m) /\ Least(m) \in Nat
    BY <1>2, LeastType, LeastKept
  <2>2. CASE m = n
    BY <1>2, <2>1, <2>2 DEF Enough
  <2>3. CASE m # n
    BY <1>2, <2>1, <2>3 DEF Enough, SameInner, SameKeys
  <2> QED BY <2>2, <2>3
<1>5. PICK right : right = frame[t].right
  OBVIOUS
<1>6. FilledHalves(t)'
  BY <1>2, <1>4, HalvesKept DEF HoldsRight, Filled
<1>7. Enough(right)'
  BY <1>2, <1>5, <1>6 DEF FilledHalves, HoldsRight
<1>8. FilledChildren(n)'
  <2> SUFFICES ASSUME NEW j \in 0 .. num + 1 PROVE Enough(nodes[n].pointers[j])'
    BY <1>2 DEF FilledChildren
  <2>1. PICK c : c = nodes'[n].pointers[j]
    OBVIOUS
  <2>2. \A k \in 0 .. num : nodes[n].pointers[k] \in Nodes /\ Enough(nodes[n].pointers[k])
    BY <1>2, ChildIsNode DEF Filled, FilledChildren
  <2>3. c = right \/ \E k \in 0 .. num : c = nodes[n].pointers[k]
    <3>1. c = IF j < i + 1 THEN nodes[n].pointers[j]
              ELSE IF j = i + 1 THEN right ELSE nodes[n].pointers[j - 1]
      BY <1>1, <1>5, <2>1 DEF NodeGrows
    <3>2. /\ j < i + 1 => j \in 0 .. num
          /\ ~(j < i + 1) /\ j # i + 1 => j - 1 \in 0 .. num
      BY ONLY <1>2, j \in 0 .. num + 1
    <3> QED BY <3>1, <3>2
  <2>4. Enough(c)'
    <3>1. c = right \/ (c \in Nodes /\ Enough(c))
      BY <2>2, <2>3
    <3> QED BY <1>4, <1>7, <3>1 DEF EnoughKept
  <2> QED BY <2>1, <2>4
<1>9. \A m \in Inner' : FilledChildren(m)'
  <2>1. ASSUME NEW m \in Inner \ {n} PROVE FilledChildren(m)'
    BY <1>2, <1>3, <1>4, FilledSame DEF Filled
  <2> QED BY <1>2, <1>8, <2>1
<1>10. \A m \in Nodes' : nodes'[m].parent # NULL => m \in Nodes /\ nodes[m].parent # NULL
  BY <1>2 DEF SameParents
<1> QED BY <1>2, <1>4, <1>6, <1>9, <1>10, FilledStep

LEMMA HalvesFull ==
    /\ cut(Order - 1) \in Nat /\ cut(Order - 1) >= Order \div 2
    /\ Order - cut(Order - 1) \in Nat /\ Order - cut(Order - 1) >= Order \div 2
    /\ cut(Order) - 1 \in Nat /\ cut(Order) - 1 >= (Order - 1) \div 2
    /\ Order - cut(Order) \in Nat /\ Order - cut(Order) >= (Order - 1) \div 2
BY ONLY OrderAssumption DEF cut

LEMMA NewRootFilled ==
    ASSUME BInv, BInv', OInv, Filled, NEW t \in Threads, NewRoot(t)
    PROVE  Filled'
<1>1. PICK left, right, new : NewRoots(t, left, right, new)
  BY NewRootLinks
<1>2. /\ Steady(t) /\ pc[t] = "into_parent" /\ pc'[t] = "put_return"
      /\ left = frame[t].left /\ right = frame[t].right /\ left \in Nodes /\ right \in Nodes
      /\ Nodes' = Nodes \cup {new} /\ Inner' = Inner \cup {new}
      /\ \A m \in Nodes : SameInner(m)
      /\ \A m \in Nodes : nodes'[m].parent = IF m \in {left, right} THEN new
                                             ELSE nodes[m].parent
      /\ nodes'[new].parent = NULL /\ Count(new)' = 1
      /\ nodes'[new].pointers[0] = left /\ nodes'[new].pointers[1] = right
  BY <1>1, Zenon DEF NewRoots
<1>3. EnoughKept
  BY <1>2, LeastKept DEF EnoughKept, Enough, SameInner, SameKeys
<1>4. Enough(left)' /\ Enough(right)'
  <2>1. Enough(left) /\ Enough(right)
    BY <1>2 DEF Filled, FilledHalves, HoldsRight
  <2> QED BY <1>2, <1>3, <2>1 DEF EnoughKept
<1>5. \A n \in Nodes' : nodes'[n].parent # NULL =>
          (n \in Nodes /\ nodes[n].parent # NULL) \/ Enough(n)'
  BY <1>2, <1>4
<1>6. FilledChildren(new)'
  <2> SUFFICES ASSUME NEW j \in 0 .. 1 PROVE Enough(nodes[new].pointers[j])'
    BY <1>2 DEF FilledChildren
  <2>1. nodes'[new].pointers[j] \in {left, right}
    BY <1>2
  <2> QED BY <1>4, <2>1
<1>7. \A n \in Inner' : FilledChildren(n)'
  <2>1. ASSUME NEW n \in Inner PROVE FilledChildren(n)'
    BY <1>2, <1>3, FilledSame DEF Filled, Inner
  <2> QED BY <1>2, <1>6, <2>1
<1>8. FilledHalves(t)'
  BY <1>2, HalvesDone DEF HoldsRight, SplitLabels
<1> QED BY <1>2, <1>3, <1>5, <1>7, <1>8, FilledStep

LEMMA LeafSplitFilled ==
    ASSUME BInv, BInv', OInv, Filled, NEW t \in Threads, LeafSplit(t)
    PROVE  Filled'
<1>1. PICK q, new : LeafSplits(t, q, new)
  BY LeafSplitLinks
<1>2. /\ Steady(t) /\ pc'[t] = "leaf_link"
      /\ frame'[t] = [frame[t] EXCEPT !.right = new]
      /\ q = frame[t].left /\ q \in Leaves /\ new \notin Nodes
      /\ Nodes' = Nodes \cup {new} /\ Leaves' = Leaves \cup {new} /\ Inner' = Inner
      /\ \A m \in Nodes \ {q} : SameInner(m)
      /\ SameParents
      /\ Count(q)' = cut(Order - 1) /\ Count(new)' = Order - cut(Order - 1)
  BY <1>1, Zenon DEF LeafSplits
<1>3. Enough(q)' /\ Enough(new)'
  <2>1. q \in Leaves' /\ new \in Leaves'
    BY <1>2
  <2>2. Least(q)' = Order \div 2 /\ Least(new)' = Order \div 2
    BY ONLY <2>1 DEF Least
  <2>3. Count(q)' >= Least(q)' /\ Count(new)' >= Least(new)'
    BY <1>2, <2>2, HalvesFull
  <2> QED BY <2>3 DEF Enough
<1>4. EnoughKept
  BY <1>2, <1>3, LeastKept DEF EnoughKept, Enough, SameInner, SameKeys
<1>5. \A n \in Nodes' : nodes'[n].parent # NULL =>
          (n \in Nodes /\ nodes[n].parent # NULL) \/ Enough(n)'
  BY <1>2, <1>3 DEF SameParents
<1>6. \A n \in Inner' : FilledChildren(n)'
  <2>1. \A n \in Inner : n \in Nodes \ {q}
    BY <1>2 DEF Inner
  <2> QED BY <1>2, <1>4, <2>1, FilledSame DEF Filled
<1>7. FilledHalves(t)'
  <2>1. frame'[t].left = q /\ frame'[t].right = new
    BY <1>2, ThreadFacts DEF FrameType
  <2> QED BY <1>3, <2>1 DEF FilledHalves
<1> QED BY <1>2, <1>4, <1>5, <1>6, <1>7, FilledStep

LEMMA NodeSplitFilled ==
    ASSUME BInv, BInv', OInv, Filled, NEW t \in Threads, NodeSplit(t)
    PROVE  Filled'
<1>1. PICK q, new, c, tp, i : NodeSplits(t, q, new, c, tp, i)
  BY NodeSplitLinks
<1>2. /\ Steady(t) /\ pc[t] = "node_split" /\ pc'[t] = "into_parent"
      /\ frame'[t].left = q /\ frame'[t].right = new
      /\ q \in Inner /\ new \notin Nodes
      /\ Nodes' = Nodes \cup {new} /\ Leaves' = Leaves /\ Inner' = Inner \cup {new}
      /\ \A m \in Nodes \ {q} : SameInner(m)
      /\ c = cut(Order) /\ i \in 0 .. Order - 1
      /\ Count(q) = Order - 1 /\ Count(q)' = c - 1 /\ Count(new)' = Order - c
      /\ \A j \in 0 .. c - 1 : nodes'[q].pointers[j] = tp[j]
      /\ \A j \in 0 .. Order - c : nodes'[new].pointers[j] = tp[c + j]
      /\ nodes'[q].parent = nodes[q].parent
  BY <1>1, Zenon DEF NodeSplits
<1>3. \A m \in Nodes \ {q} :
          nodes'[m].parent = IF m \in {tp[c + j] : j \in 0 .. Order - c} THEN new
                             ELSE nodes[m].parent
  BY <1>1, Zenon DEF NodeSplits
<1>4. c \in 1 .. Order
  BY <1>2, CutBounds
<1>5. Enough(q)' /\ Enough(new)'
  <2>1. q \notin Leaves' /\ new \notin Leaves'
    BY <1>2 DEF Inner, Leaves
  <2>2. Least(q)' = (Order - 1) \div 2 /\ Least(new)' = (Order - 1) \div 2
    BY ONLY <2>1 DEF Least
  <2>3. Count(q)' >= Least(q)' /\ Count(new)' >= Least(new)'
    BY <1>2, <2>2, HalvesFull
  <2> QED BY <2>3 DEF Enough
<1>6. EnoughKept
  BY <1>2, <1>5, LeastKept DEF EnoughKept, Enough, SameInner, SameKeys
<1>7. PICK right : right = frame[t].right
  OBVIOUS
<1>8. right \in Nodes /\ Enough(right)'
  <2>1. right \in Nodes /\ Enough(right)
    BY <1>2, <1>7, ThreadFacts DEF Filled, FilledHalves, FrameOK, SplitLabels
  <2> QED BY <1>6, <2>1 DEF EnoughKept
<1>9. ASSUME NEW j \in 0 .. Order PROVE Enough(tp[j])'
  <2>1. tp[j] = IF j < i + 1 THEN nodes[q].pointers[j]
                ELSE IF j = i + 1 THEN right ELSE nodes[q].pointers[j - 1]
    BY <1>1, <1>7, Zenon DEF NodeSplits
  <2>2. /\ j < i + 1 => j \in 0 .. Order - 1
        /\ ~(j < i + 1) /\ j # i + 1 => j - 1 \in 0 .. Order - 1
    BY ONLY <1>2, <1>9, OrderAssumption
  <2>3. \A k \in 0 .. Order - 1 : nodes[q].pointers[k] \in Nodes /\ Enough(nodes[q].pointers[k])
    BY <1>2, ChildIsNode DEF Filled, FilledChildren
  <2>4. tp[j] = right \/ (tp[j] \in Nodes /\ Enough(tp[j]))
    BY <2>1, <2>2, <2>3
  <2> QED BY <1>6, <1>8, <2>4 DEF EnoughKept
<1>10. FilledChildren(q)'
  <2> SUFFICES ASSUME NEW j \in 0 .. c - 1 PROVE Enough(nodes[q].pointers[j])'
    BY <1>2 DEF FilledChildren
  <2>1. nodes'[q].pointers[j] = tp[j]
    BY <1>2
  <2>2. j \in 0 .. Order
    BY ONLY <1>4, j \in 0 .. c - 1, OrderAssumption
  <2> QED BY <1>9, <2>1, <2>2
<1>11. FilledChildren(new)'
  <2> SUFFICES ASSUME NEW j \in 0 .. Order - c PROVE Enough(nodes[new].pointers[j])'
    BY <1>2 DEF FilledChildren
  <2>1. nodes'[new].pointers[j] = tp[c + j]
    BY <1>2
  <2>2. c + j \in 0 .. Order
    BY ONLY <1>4, j \in 0 .. Order - c, OrderAssumption
  <2> QED BY <1>9, <2>1, <2>2
<1>12. \A n \in Inner' : FilledChildren(n)'
  <2>1. ASSUME NEW n \in Inner \ {q} PROVE FilledChildren(n)'
    BY <1>2, <1>6, FilledSame DEF Filled, Inner
  <2> QED BY <1>2, <1>10, <1>11, <2>1
<1>13. \A n \in Nodes' : nodes'[n].parent # NULL =>
          (n \in Nodes /\ nodes[n].parent # NULL) \/ Enough(n)'
  <2>1. ASSUME NEW n \in Nodes \ {q}, nodes'[n].parent # nodes[n].parent PROVE Enough(n)'
    <3>1. PICK j \in 0 .. Order - c : n = tp[c + j]
      BY <1>3, <2>1
    <3>2. c + j \in 0 .. Order
      BY ONLY <1>4, j \in 0 .. Order - c, OrderAssumption
    <3> QED BY <1>9, <3>1, <3>2
  <2> QED BY <1>2, <1>5, <2>1
<1>14. FilledHalves(t)'
  BY <1>2, <1>5 DEF FilledHalves
<1> QED BY <1>2, <1>6, <1>12, <1>13, <1>14, FilledStep

LEMMA OneLeaf ==
    ASSUME Init
    PROVE  Nodes = {1} /\ nodes[1].is_leaf /\ nodes[1].parent = NULL
<1>1. PICK unwritten \in MallocKeys :
        nodes = <<[MakeNode(TRUE, unwritten) EXCEPT
                      !.num_keys = 1, !.keys[0] = FirstKey, !.pointers[0] = FirstKey]>>
  BY DEF Init
<1>2. PICK x : /\ nodes = <<x>>
               /\ x = [MakeNode(TRUE, unwritten) EXCEPT
                          !.num_keys = 1, !.keys[0] = FirstKey, !.pointers[0] = FirstKey]
  BY <1>1
<1>3. PICK k, p : x = [MakeNode(TRUE, unwritten) EXCEPT !.num_keys = 1, !.keys = k, !.pointers = p]
  BY <1>2
<1>4. x.is_leaf /\ x.parent = NULL
  BY <1>3 DEF MakeNode
<1>5. nodes = <<x>>
  BY <1>2
<1>6. Nodes = {1} /\ nodes[1] = x
  BY <1>5 DEF Nodes
<1> QED BY <1>4, <1>6

LEMMA FilledInit == Init => Filled
<1> SUFFICES ASSUME Init PROVE Filled
  OBVIOUS
<1>1. Nodes = {1} /\ nodes[1].is_leaf /\ nodes[1].parent = NULL
  BY OneLeaf
<1>2. Inner = {}
  BY <1>1 DEF Leaves, Inner
<1>3. \A t \in Threads : FilledHalves(t)
  BY DEF Init, FilledHalves, HoldsRight, SplitLabels
<1> QED BY <1>1, <1>2, <1>3 DEF Filled

LEMMA FilledStutter == Filled /\ UNCHANGED vars => Filled'
<1> SUFFICES ASSUME Filled, UNCHANGED vars PROVE Filled'
  OBVIOUS
<1>1. UNCHANGED <<nodes, lock, pc, frame>>
  BY DEF vars
<1>2. UNCHANGED <<Nodes, Leaves, Inner>>
  BY <1>1 DEF Inner, Leaves, Nodes
<1>3. \A n : Count(n)' = Count(n)
  BY <1>1 DEF Count, Free
<1>4. \A n : Enough(n)' <=> Enough(n)
  BY <1>2, <1>3 DEF Enough, Least
<1>5. \A n : FilledChildren(n)' <=> FilledChildren(n)
  BY <1>1, <1>3, <1>4 DEF FilledChildren
<1>6. \A t : FilledHalves(t)' <=> FilledHalves(t)
  BY <1>1, <1>4 DEF FilledHalves
<1> QED BY <1>1, <1>2, <1>4, <1>5, <1>6 DEF Filled

\* A call is one of the thread's menu.
LEMMA FromMenuNext == FromMenu /\ BInv /\ [Next]_vars => FromMenu'
<1> SUFFICES ASSUME FromMenu, BInv, [Next]_vars PROVE FromMenu'
  OBVIOUS
<1>1. call \in [Threads -> CallType \cup {NoCall}]
  BY DEF BInv
<1>2. CASE UNCHANGED call
  BY <1>2 DEF FromMenu
<1>3. ASSUME NEW t \in Threads, NEW c \in Menu[t] \cup {NoCall}, call' = [call EXCEPT ![t] = c]
      PROVE  FromMenu'
  BY <1>1, <1>3 DEF FromMenu
<1>4. ASSUME NEW t \in Threads, Invoke(t) PROVE FromMenu'
  <2>1. PICK c \in Menu[t] : call' = [call EXCEPT ![t] = c]
    BY <1>4, Zenon DEF Invoke
  <2> QED BY <1>3, <2>1
<1>5. ASSUME NEW t \in Threads, PutReturn(t) \/ GetReturn(t) PROVE FromMenu'
  BY <1>3, <1>5 DEF PutReturn, GetReturn, Return
<1>6. ASSUME NEW t \in Threads, Step(t) PROVE UNCHANGED call \/ PutReturn(t) \/ GetReturn(t)
  <2>1. CASE Descend(t)
    BY <2>1 DEF Descend
  <2>2. CASE InsertIntoLeaf(t)
    BY <2>2 DEF InsertIntoLeaf, LockLeaf, WalkRight, Present, LeafWrite, LeafCount, LeafFull,
                LockParent, LeafSplit, LeafLink, LeafCut
  <2>3. CASE InsertIntoParent(t)
    BY <2>3 DEF InsertIntoParent, NewRoot, FollowParent, FollowLock, NodeWrite, NodeCount,
                NodeFull, NodeEmpty, NodeSplit
  <2>4. CASE Find(t)
    BY <2>4 DEF Find, FindWalk, FindScan, FindRead
  <2>5. CASE Delete(t)
    BY <2>5 DEF Delete, DeleteFind, DeleteAbsent, RemoveEntry, RemoveCount
  <2> QED BY <1>6, <2>1, <2>2, <2>3, <2>4, <2>5 DEF Step
<1>7. CASE Next
  BY <1>2, <1>4, <1>5, <1>6, <1>7 DEF Next
<1> QED BY <1>2, <1>7 DEF vars

\* Without deletions nothing is taken out of a leaf.
LEMMA NothingRemoved ==
    ASSUME NoDeletes, FromMenu, BInv, NEW t \in Threads
    PROVE  ~RemoveEntry(t) /\ ~RemoveCount(t)
<1>1. pc[t] \in {"delete", "remove_count"} => call[t].type = OP_DELETE /\ call[t] # NoCall
  BY ThreadFacts, MenuAssumption, Zenon DEF CallOK, DeleteLabels
<1>2. pc[t] \notin {"delete", "remove_count"}
  BY <1>1, Zenon DEF NoDeletes, FromMenu
<1> QED BY <1>2 DEF RemoveEntry, RemoveCount, At

LEMMA FilledNext == NoDeletes /\ FromMenu /\ BInv /\ OInv /\ Filled /\ [Next]_vars => Filled'
<1> SUFFICES ASSUME NoDeletes, FromMenu, BInv, OInv, Filled, [Next]_vars PROVE Filled'
  OBVIOUS
<1>1. BInv'
  BY NextOK
<1>2. CASE UNCHANGED vars
  BY <1>2, FilledStutter
<1>3. ASSUME NEW t \in Threads, Walks(t) \/ Climbs(t) PROVE Filled'
  BY <1>1, <1>3, WalksFilled
<1>4. ASSUME NEW t \in Threads, Invoke(t) \/ Descend(t) \/ PutReturn(t) \/ Find(t) PROVE Filled'
  BY <1>3, <1>4 DEF Walks
<1>5. ASSUME NEW t \in Threads, LockParent(t) PROVE Filled'
  BY <1>3, <1>5 DEF Walks, Climbs, LockParent, At
<1>6. ASSUME NEW t \in Threads, InsertIntoLeaf(t) PROVE Filled'
  <2>1. CASE LockLeaf(t) \/ WalkRight(t) \/ Present(t) \/ LeafFull(t)
    BY <1>3, <2>1 DEF Walks
  <2> QED BY <1>1, <1>5, <1>6, <2>1, LeafWriteFilled, CountFilled, LeafSplitFilled,
             LeafLinkFilled, LeafCutFilled, Zenon DEF InsertIntoLeaf
<1>7. ASSUME NEW t \in Threads, InsertIntoParent(t) PROVE Filled'
  <2>1. CASE FollowParent(t) \/ FollowLock(t) \/ NodeFull(t)
    BY <1>3, <2>1 DEF Climbs
  <2> QED BY <1>1, <1>7, <2>1, NewRootFilled, NodeWriteFilled, CountFilled, NodeEmptyFilled,
             NodeSplitFilled, Zenon DEF InsertIntoParent
<1>8. ASSUME NEW t \in Threads, Delete(t) PROVE Filled'
  <2>1. DeleteFind(t) \/ DeleteAbsent(t)
    BY <1>8, NothingRemoved DEF Delete
  <2> QED BY <1>3, <2>1 DEF Walks
<1> QED BY <1>2, <1>4, <1>5, <1>6, <1>7, <1>8, Zenon DEF Next, Step

\* In a quiet tree all children of a node are equally high.
LEMMA LevelTree ==
    ASSUME BInv, OInv, Quiet, NEW height,
           height = CHOOSE f : f = [n \in Nodes |-> IF nodes[n].is_leaf THEN 0
                                                    ELSE 1 + f[nodes[n].pointers[0]]],
           NEW n \in Inner, NEW i \in 1 .. nodes[n].num_keys
    PROVE  height[nodes[n].pointers[i]] = height[nodes[n].pointers[0]]
<1>1. PICK l, r, h : Ordered(l, r, h)
  BY DEF OInv
<1>2. \A m \in Nodes : height[m] = h[m]
  BY ONLY BInv, Quiet, <1>1, HeightIs,
          height = CHOOSE f : f = [m \in Nodes |-> IF nodes[m].is_leaf THEN 0
                                                   ELSE 1 + f[nodes[m].pointers[0]]]
<1>3. Routes(l, r, h, n) /\ Count(n) = nodes[n].num_keys /\ nodes[n].num_keys \in 0 .. Order - 1
  BY <1>1, QuietFacts, NodeFields DEF Ordered, NodeOrder, BInv, Inner
<1>4. 0 \in 0 .. Count(n) /\ i \in 0 .. Count(n)
  BY <1>3, OrderAssumption
<1>5. PICK x, y : x = nodes[n].pointers[i] /\ y = nodes[n].pointers[0]
  OBVIOUS
<1>6. x \in Nodes /\ y \in Nodes /\ h[n] = h[x] + 1 /\ h[n] = h[y] + 1
  BY <1>3, <1>4, <1>5 DEF Routes
<1>7. h[x] \in Nat /\ h[y] \in Nat
  BY <1>1, <1>6, NodeNumbers DEF Ordered, Ghosts, BInv
<1>8. h[x] = h[y]
  BY ONLY <1>6, <1>7
<1> QED BY <1>2, <1>5, <1>6, <1>8

\* insert and find of any number of threads (bpt.c 68-72): between calls the tree is balanced,
\* and every node but the root is half full, as long as nobody deletes.  (gps.c and baseline.c
\* never do; a deletion never merges leaves.)
THEOREM StaysBalanced == ASSUME NoDeletes PROVE Spec => []Balanced
<1>1. Init => FromMenu
  BY DEF Init, FromMenu
<1>2. BInv /\ OInv /\ Filled => Balanced
  <2> SUFFICES ASSUME BInv, OInv, Filled, Quiet, NEW n \in Nodes, NEW height,
                      height = CHOOSE f : f = [m \in Nodes |->
                                   IF nodes[m].is_leaf THEN 0 ELSE 1 + f[nodes[m].pointers[0]]]
               PROVE  /\ ~nodes[n].is_leaf =>
                            \A i \in 1 .. nodes[n].num_keys :
                               height[nodes[n].pointers[i]] = height[nodes[n].pointers[0]]
                      /\ nodes[n].parent # NULL =>
                            nodes[n].num_keys >= IF nodes[n].is_leaf THEN Order \div 2
                                                 ELSE (Order - 1) \div 2
    BY DEF Balanced
  <2>1. n \in Leaves <=> nodes[n].is_leaf
    BY DEF Leaves
  <2>2. ~nodes[n].is_leaf => n \in Inner
    BY <2>1 DEF Inner
  <2>3. nodes[n].parent # NULL => Count(n) >= Least(n) /\ Count(n) = nodes[n].num_keys
    BY QuietFacts DEF Filled, Enough
  <2>4. ASSUME ~nodes[n].is_leaf, NEW i \in 1 .. nodes[n].num_keys
        PROVE  height[nodes[n].pointers[i]] = height[nodes[n].pointers[0]]
    BY <2>2, <2>4, LevelTree
  <2> QED BY <2>1, <2>3, <2>4 DEF Least
<1> QED BY <1>1, <1>2, FilledInit, FromMenuNext, FilledNext, TreeInvariance, OrderInvariance, PTL
        DEF Spec

-------------------------------------------------------------------------------
(* ParentLinks: the tree of one thread *)

\* One thread calls the tree, as under gps.c.
OneThread == \E t : Threads = {t}

\* The children of an inner node are its own, and all of them differ.
Own(n) == \A i \in 0 .. Count(n) : nodes[nodes[n].pointers[i]].parent = n

Distinct(n) ==
    \A i, j \in 0 .. Count(n) : nodes[n].pointers[i] = nodes[n].pointers[j] => i = j

NotPointedTo(m) == \A n \in Inner : \A i \in 0 .. Count(n) : nodes[n].pointers[i] # m

\* The root that the thread knows of, or would be given.
Top(t) == IF pc[t] = "idle" THEN root ELSE frame[t].root

\* It is the only node without a parent, but for a new half that is to get one.
OneTop(t) ==
    /\ nodes[Top(t)].parent = NULL
    /\ \A n \in Nodes : nodes[n].parent = NULL =>
          n = Top(t) \/ (pc[t] \in HoldsRight /\ n = frame[t].right)
    /\ pc[t] \in HoldsRight => frame[t].right # Top(t)
    /\ pc[t] \notin {"idle", "put_return"} => frame[t].root = root

\* What a thread that splits nodes knows of their parents.
HalfLinks(t) ==
    /\ pc[t] \in {"leaf_lock_parent", "leaf_split", "leaf_link", "leaf_cut", "into_parent"}
               \cup SplitLabels =>
          frame[t].parent = nodes[frame[t].left].parent
    /\ pc[t] \in {"into_parent", "node_count"} =>
          nodes[frame[t].right].parent = frame[t].parent
    /\ pc[t] \in SplitLabels => nodes[frame[t].right].parent = frame[t].left
    /\ pc[t] \in {"leaf_link", "leaf_cut", "into_parent"} \cup SplitLabels =>
          NotPointedTo(frame[t].right)
    /\ pc[t] # "follow_lock"

LinkedUp(t) ==
    /\ \A n \in Inner : Own(n) /\ Distinct(n)
    /\ OneTop(t)
    /\ HalfLinks(t)

LInv == \A t \in Threads : LinkedUp(t)

\* A step inside a call that keeps the root.
Stays(t) ==
    /\ pc[t] \notin {"idle", "put_return"} /\ pc'[t] # "idle"
    /\ frame'[t].root = frame[t].root /\ UNCHANGED root

\* A node that keeps its keys and pointers, and its children.
LEMMA OwnKept ==
    ASSUME NEW n \in Inner, SameInner(n), Distinct(n),
           \A i \in 0 .. Count(n) : nodes'[nodes[n].pointers[i]].parent = n
    PROVE  Own(n)' /\ Distinct(n)'
BY DEF SameInner, SameKeys, Own, Distinct

LEMMA OwnSame ==
    ASSUME OInv, NEW n \in Inner, SameInner(n), Own(n), Distinct(n), SameParents
    PROVE  Own(n)' /\ Distinct(n)'
<1>1. \A i \in 0 .. Count(n) : nodes'[nodes[n].pointers[i]].parent = n
  BY ChildIsNode DEF Own, SameParents
<1> QED BY <1>1, OwnKept

LEMMA NotPointedSame ==
    ASSUME Inner' = Inner, \A n \in Inner : SameInner(n), NEW m, NotPointedTo(m)
    PROVE  NotPointedTo(m)'
BY DEF NotPointedTo, SameInner, SameKeys

\* Nobody points to a node without a parent.
LEMMA TopNotPointedTo ==
    ASSUME BInv, NEW m, nodes[m].parent = NULL, \A n \in Inner : Own(n)
    PROVE  NotPointedTo(m)
<1>1. \A n \in Inner : n # NULL
  BY NodeNumbers DEF BInv, Inner
<1> QED BY <1>1 DEF NotPointedTo, Own

LEMMA OneTopSame ==
    ASSUME NEW t, OneTop(t), UNCHANGED Nodes, SameParents, Top(t) \in Nodes,
           Top(t)' = Top(t), pc'[t] \notin {"idle", "put_return"} => frame'[t].root = root',
           pc'[t] \in HoldsRight => pc[t] \in HoldsRight /\ frame'[t].right = frame[t].right,
           pc[t] \in HoldsRight /\ pc'[t] \notin HoldsRight => nodes[frame[t].right].parent # NULL
    PROVE  OneTop(t)'
<1>1. PICK top, right : top = Top(t) /\ right = frame[t].right
  OBVIOUS
<1>2. nodes[top].parent = NULL /\ top \in Nodes /\ Top(t)' = top
  BY <1>1 DEF OneTop
<1>3. nodes'[top].parent = NULL
  BY <1>2 DEF SameParents
<1>4. ASSUME NEW n \in Nodes, nodes'[n].parent = NULL
      PROVE  n = top \/ (pc'[t] \in HoldsRight /\ n = frame'[t].right)
  <2>1. nodes[n].parent = NULL
    BY <1>4 DEF SameParents
  <2>2. n = top \/ (pc[t] \in HoldsRight /\ n = right)
    BY <1>1, <2>1 DEF OneTop
  <2> QED BY <1>1, <2>1, <2>2
<1>5. pc'[t] \in HoldsRight => frame'[t].right # top
  BY <1>1 DEF OneTop
<1> QED BY <1>2, <1>3, <1>4, <1>5 DEF OneTop

LEMMA TopIsNode ==
    ASSUME BInv, NEW t \in Threads
    PROVE  Top(t) \in Nodes
BY ThreadFacts DEF Top, FrameOK, NodesOK

\* A step inside a call that changes no link.
LEMMA LinksStay ==
    ASSUME BInv, OInv, NEW t \in Threads, LinkedUp(t), SameLinks, Stays(t), HalfLinks(t)',
           pc'[t] \in HoldsRight => pc[t] \in HoldsRight /\ frame'[t].right = frame[t].right,
           pc[t] \in HoldsRight /\ pc'[t] \notin HoldsRight => nodes[frame[t].right].parent # NULL
    PROVE  LinkedUp(t)'
<1>1. \A n \in Inner : Own(n)' /\ Distinct(n)'
  BY OwnSame DEF LinkedUp, SameLinks
<1>2. Top(t)' = Top(t) /\ (pc'[t] \notin {"idle", "put_return"} => frame'[t].root = root')
  BY DEF LinkedUp, OneTop, Stays, Top
<1>3. OneTop(t) /\ UNCHANGED Nodes /\ SameParents
  BY DEF LinkedUp, SameLinks
<1>4. OneTop(t)'
  BY <1>2, <1>3, TopIsNode, OneTopSame
<1> QED BY <1>1, <1>4 DEF LinkedUp, SameLinks

LEMMA LinksInit == Init => LInv
<1> SUFFICES ASSUME Init, NEW t \in Threads PROVE LinkedUp(t)
  BY DEF LInv
<1>1. /\ Nodes = {1} /\ nodes[1].is_leaf /\ nodes[1].parent = NULL
      /\ root = 1 /\ pc[t] = "idle"
  BY OneLeaf DEF Init
<1>2. Inner = {}
  BY <1>1 DEF Leaves, Inner
<1>3. OneTop(t)
  BY <1>1 DEF OneTop, Top, HoldsRight
<1>4. HalfLinks(t)
  BY <1>1 DEF HalfLinks, SplitLabels
<1> QED BY <1>2, <1>3, <1>4 DEF LinkedUp

LEMMA LinksStutter ==
    ASSUME UNCHANGED vars, NEW t, LinkedUp(t)
    PROVE  LinkedUp(t)'
<1>1. UNCHANGED <<nodes, lock, root, pc, frame>>
  BY DEF vars
<1>2. UNCHANGED <<Nodes, Leaves, Inner>>
  BY <1>1 DEF Inner, Leaves, Nodes
<1>3. \A n : Count(n)' = Count(n)
  BY <1>1 DEF Count, Free
<1>4. \A n \in Inner : Own(n)' /\ Distinct(n)'
  BY <1>1, <1>3 DEF Own, Distinct, LinkedUp
<1>5. \A m : NotPointedTo(m)' <=> NotPointedTo(m)
  BY <1>1, <1>2, <1>3 DEF NotPointedTo
<1>6. HalfLinks(t)'
  BY <1>1, <1>5 DEF HalfLinks, LinkedUp
<1>7. Top(t)' = Top(t)
  BY <1>1 DEF Top
<1>8. OneTop(t)'
  BY <1>1, <1>2, <1>7 DEF OneTop, LinkedUp
<1> QED BY <1>2, <1>4, <1>6, <1>8 DEF LinkedUp

\* A call begins and ends with the root that is kept.
LEMMA CallLinks ==
    ASSUME BInv, BInv', OInv, NEW t \in Threads, LinkedUp(t),
           Invoke(t) \/ PutReturn(t) \/ GetReturn(t)
    PROVE  LinkedUp(t)'
<1>1. Walks(t)
  BY DEF Walks, Find
<1>2. SameLinks /\ UNCHANGED Nodes /\ SameParents
  BY <1>1, WalksQuiet, QuietLinks, KeptLinks DEF SameLinks
<1>3. \A n \in Inner : Own(n)' /\ Distinct(n)'
  BY <1>2, OwnSame DEF LinkedUp, SameLinks
<1>4. pc \in [Threads -> Labels] /\ frame \in [Threads -> FrameType]
  BY DEF BInv
<1>5. /\ Top(t)' = Top(t)
      /\ pc[t] \in {"idle", "put_return", "get_return"} /\ pc'[t] \in {"idle", "descend"}
      /\ pc'[t] # "idle" => frame'[t].root = root'
  <2>1. CASE Invoke(t)
    <3>1. PICK had : frame' = [frame EXCEPT ![t] =
                       [NoFrame EXCEPT !.root = root, !.left = root, !.had = had]]
      BY <2>1, Zenon DEF Invoke, Goto
    <3>2. frame'[t].root = root
      BY <1>4, <3>1 DEF NoFrame
    <3>3. pc[t] = "idle" /\ pc'[t] = "descend" /\ root' = root
      BY <1>4, <2>1 DEF Invoke, Goto, At
    <3> QED BY <3>2, <3>3 DEF Top
  <2>2. CASE PutReturn(t)
    <3>1. pc[t] = "put_return" /\ pc'[t] = "idle" /\ root' = frame[t].root
      BY <1>4, <2>2 DEF PutReturn, Return, Goto, At
    <3> QED BY <3>1 DEF Top
  <2>3. CASE GetReturn(t)
    <3>1. pc[t] = "get_return" /\ pc'[t] = "idle" /\ root' = root
      BY <1>4, <2>3 DEF GetReturn, Return, Goto, At
    <3>2. frame[t].root = root
      BY <3>1 DEF LinkedUp, OneTop
    <3> QED BY <3>1, <3>2 DEF Top
  <2> QED BY <2>1, <2>2, <2>3
<1>6. pc[t] \notin HoldsRight /\ pc'[t] \notin HoldsRight
  BY <1>5 DEF HoldsRight
<1>7. OneTop(t)'
  BY <1>2, <1>5, <1>6, TopIsNode, OneTopSame DEF LinkedUp
<1>8. HalfLinks(t)'
  BY <1>5 DEF HalfLinks, SplitLabels
<1> QED BY <1>2, <1>3, <1>7, <1>8 DEF LinkedUp, SameLinks

\* Where a thread goes without a node of its own to link.
Strolls(t) ==
    \/ Descend(t) \/ LockLeaf(t) \/ WalkRight(t) \/ Present(t) \/ FindWalk(t) \/ FindScan(t)
    \/ FindRead(t) \/ DeleteFind(t) \/ DeleteAbsent(t)

LEMMA StrollsStay ==
    ASSUME BInv, NEW t \in Threads, Strolls(t)
    PROVE  /\ Stays(t)
           /\ pc'[t] \in {"descend", "find_again", "at_leaf", "put_return", "find_read",
                          "get_return", "delete"}
           /\ pc[t] \notin HoldsRight
<1> DEFINE stays(label, f) ==
        /\ Goto(t, label, f) /\ UNCHANGED root /\ f.root = frame[t].root
        /\ pc[t] \notin {"idle", "put_return"} \cup HoldsRight
        /\ label \in {"descend", "find_again", "at_leaf", "put_return", "find_read",
                      "get_return", "delete"}
<1>1. pc \in [Threads -> Labels] /\ frame \in [Threads -> FrameType] /\ frame[t] \in FrameType
  BY DEF BInv
<1>2. ASSUME NEW label, NEW f, stays(label, f)
      PROVE  /\ Stays(t)
             /\ pc'[t] \in {"descend", "find_again", "at_leaf", "put_return", "find_read",
                            "get_return", "delete"}
             /\ pc[t] \notin HoldsRight
  BY <1>1, <1>2 DEF Goto, Stays
<1> USE DEF HoldsRight
<1>3. \A x : [frame[t] EXCEPT !.left = x].root = frame[t].root
  BY ONLY <1>1 DEF FrameType
<1>4. CASE Descend(t) \/ FindWalk(t)
  <2>1. PICK x : Goto(t, pc[t], [frame[t] EXCEPT !.left = x])
    BY <1>4, Zenon DEF Descend, FindWalk
  <2>2. pc[t] \in {"descend", "find_again"} /\ UNCHANGED root
    BY <1>4 DEF Descend, FindWalk, Finding, At
  <2>3. stays(pc[t], [frame[t] EXCEPT !.left = x])
    BY <1>3, <2>1, <2>2
  <2> QED BY <1>2, <2>3
<1>5. CASE LockLeaf(t)
  <2>1. stays("at_leaf", frame[t])
    BY <1>5 DEF LockLeaf, At
  <2> QED BY <1>2, <2>1
<1>6. CASE WalkRight(t)
  <2>1. PICK x : Goto(t, "at_leaf", [frame[t] EXCEPT !.left = x])
    BY <1>6, Zenon DEF WalkRight
  <2>2. stays("at_leaf", [frame[t] EXCEPT !.left = x])
    BY <1>3, <1>6, <2>1 DEF WalkRight, At
  <2> QED BY <1>2, <2>2
<1>7. CASE Present(t) \/ DeleteAbsent(t)
  <2>1. stays("put_return", frame[t])
    BY <1>7 DEF Present, DeleteAbsent, Arrived, ArrivedTo, At
  <2> QED BY <1>2, <2>1
<1>8. Found(t) \in {"get_return", "delete"}
  BY DEF Found
<1>9. CASE FindScan(t)
  <2>1. PICK n, num, i :
           /\ n = frame[t].left /\ num = nodes[n].num_keys
           /\ i = Min({j \in 0 .. num : j = num \/ nodes[n].keys[j] = Key(t)})
    OBVIOUS
  <2>2. PICK label : label = IF i = num THEN Found(t) ELSE "find_read"
    OBVIOUS
  <2>3. Goto(t, label, [frame[t] EXCEPT !.index = i])
    BY <1>9, <2>1, <2>2 DEF FindScan
  <2>4. label \in {"find_read", "get_return", "delete"}
    BY <1>8, <2>2
  <2>5. [frame[t] EXCEPT !.index = i].root = frame[t].root
    BY ONLY <1>1 DEF FrameType
  <2>6. stays(label, [frame[t] EXCEPT !.index = i])
    BY <1>9, <2>3, <2>4, <2>5 DEF FindScan, Finding, At
  <2> QED BY <1>2, <2>6
<1>10. CASE FindRead(t)
  <2>1. PICK x : Goto(t, Found(t), [frame[t] EXCEPT !.hit = x])
    BY <1>10, Zenon DEF FindRead
  <2>2. [frame[t] EXCEPT !.hit = x].root = frame[t].root
    BY ONLY <1>1 DEF FrameType
  <2>3. stays(Found(t), [frame[t] EXCEPT !.hit = x])
    BY <1>8, <1>10, <2>1, <2>2 DEF FindRead, At
  <2> QED BY <1>2, <2>3
<1>11. CASE DeleteFind(t)
  <2>1. PICK x, y : Goto(t, "find_again", [frame[t] EXCEPT !.key_leaf = x, !.left = y])
    BY <1>11, Zenon DEF DeleteFind
  <2>2. [frame[t] EXCEPT !.key_leaf = x, !.left = y].root = frame[t].root
    BY ONLY <1>1 DEF FrameType
  <2>3. stays("find_again", [frame[t] EXCEPT !.key_leaf = x, !.left = y])
    BY <1>11, <2>1, <2>2 DEF DeleteFind, ArrivedTo, At
  <2> QED BY <1>2, <2>3
<1> QED BY <1>4, <1>5, <1>6, <1>7, <1>9, <1>10, <1>11 DEF Strolls

LEMMA StrollLinks ==
    ASSUME BInv, BInv', OInv, NEW t \in Threads, LinkedUp(t), Strolls(t)
    PROVE  LinkedUp(t)'
<1>1. Walks(t)
  BY DEF Strolls, Walks, Find
<1>2. SameLinks
  BY <1>1, WalksQuiet, QuietLinks, KeptLinks
<1>3. HalfLinks(t)'
  BY StrollsStay DEF HalfLinks, SplitLabels
<1>4. pc[t] \notin HoldsRight /\ pc'[t] \notin HoldsRight /\ Stays(t)
  BY StrollsStay DEF HoldsRight
<1> QED BY <1>2, <1>3, <1>4, LinksStay

\* The parent of a leaf that is full is read, and then locked.
LEMMA LeafFullLinks ==
    ASSUME BInv, BInv', OInv, NEW t \in Threads, LinkedUp(t), LeafFull(t)
    PROVE  LinkedUp(t)'
<1>1. Walks(t)
  BY DEF Walks
<1>2. SameLinks /\ nodes' = nodes
  BY <1>1, WalksQuiet, QuietLinks, KeptLinks DEF QuietTree
<1>3. PICK label, p :
        /\ p = nodes[frame[t].left].parent
        /\ label = IF p = NULL THEN "leaf_split" ELSE "leaf_lock_parent"
  OBVIOUS
<1>4. /\ Goto(t, label, [frame[t] EXCEPT !.parent = p]) /\ pc[t] = "at_leaf" /\ UNCHANGED root
      /\ label \in {"leaf_split", "leaf_lock_parent"}
  BY <1>3 DEF LeafFull, Arrived, ArrivedTo, At
<1>5. pc \in [Threads -> Labels] /\ frame \in [Threads -> FrameType] /\ frame[t] \in FrameType
  BY DEF BInv
<1>6. pc'[t] = label /\ frame'[t] = [frame[t] EXCEPT !.parent = p]
  BY <1>4, <1>5 DEF Goto
<1>7. /\ frame'[t].parent = p /\ frame'[t].left = frame[t].left
      /\ frame'[t].root = frame[t].root
  BY ONLY <1>5, <1>6 DEF FrameType
<1>8. Stays(t) /\ pc[t] \notin HoldsRight /\ pc'[t] \notin HoldsRight
  BY <1>4, <1>6, <1>7 DEF Stays, HoldsRight
<1>9. HalfLinks(t)'
  <2>1. frame'[t].parent = nodes'[frame'[t].left].parent
    BY <1>2, <1>3, <1>7
  <2> QED BY <1>4, <1>6, <2>1 DEF HalfLinks, SplitLabels
<1> QED BY <1>2, <1>8, <1>9, LinksStay

LEMMA LockParentLinks ==
    ASSUME BInv, BInv', OInv, NEW t \in Threads, LinkedUp(t), LockParent(t)
    PROVE  LinkedUp(t)'
<1>1. \/ pc[t] = "leaf_lock_parent" /\ Walks(t)
      \/ pc[t] = "node_lock_parent" /\ Climbs(t)
  BY DEF LockParent, Walks, Climbs, At
<1>2. SameLinks /\ nodes' = nodes
  BY <1>1, WalksQuiet, ClimbsQuiet, QuietLinks, KeptLinks DEF QuietTree
<1>3. pc \in [Threads -> Labels] /\ frame \in [Threads -> FrameType]
  BY DEF BInv
<1>4. /\ pc[t] = "leaf_lock_parent" => pc'[t] = "leaf_split"
      /\ pc[t] = "node_lock_parent" => pc'[t] = "node_empty"
      /\ frame'[t] = frame[t] /\ UNCHANGED root
  BY <1>3 DEF LockParent, Goto, At
<1>5. Stays(t) /\ pc[t] \notin HoldsRight /\ pc'[t] \notin HoldsRight
  BY <1>1, <1>4 DEF Stays, HoldsRight
<1>6. HalfLinks(t)'
  <2>1. HalfLinks(t) /\ \A m : NotPointedTo(m) => NotPointedTo(m)'
    BY <1>2, NotPointedSame DEF LinkedUp, SameLinks
  <2> QED BY <1>1, <1>2, <1>4, <2>1 DEF HalfLinks, SplitLabels
<1> QED BY <1>2, <1>5, <1>6, LinksStay

\* Nobody has moved left to another parent.
LEMMA NobodyFollows ==
    ASSUME NEW t, LinkedUp(t)
    PROVE  ~FollowParent(t) /\ ~FollowLock(t)
BY DEF LinkedUp, HalfLinks, FollowParent, FollowLock, At

LEMMA NodeFullLinks ==
    ASSUME BInv, BInv', OInv, NEW t \in Threads, LinkedUp(t), NodeFull(t)
    PROVE  LinkedUp(t)'
<1>1. Climbs(t)
  BY DEF Climbs
<1>2. SameLinks /\ nodes' = nodes /\ frame'[t].right = frame[t].right
  BY <1>1, ClimbsQuiet, QuietLinks, KeptLinks DEF QuietTree
<1>3. PICK label, n, p, i, right :
        /\ right = frame[t].right /\ n = frame[t].parent /\ p = nodes[n].parent
        /\ i = get_left_index(n, frame[t].left)
        /\ label = IF p = NULL THEN "node_empty" ELSE "node_lock_parent"
  OBVIOUS
<1>4. /\ Goto(t, label, [frame[t] EXCEPT !.left = n, !.parent = p, !.index = i])
      /\ pc[t] = "into_parent" /\ frame[t].parent # NULL /\ UNCHANGED root
      /\ label \in {"node_empty", "node_lock_parent"}
  BY <1>3 DEF NodeFull, ParentFound, At
<1>5. pc \in [Threads -> Labels] /\ frame \in [Threads -> FrameType] /\ frame[t] \in FrameType
  BY DEF BInv
<1>6. /\ pc'[t] = label
      /\ frame'[t] = [frame[t] EXCEPT !.left = n, !.parent = p, !.index = i]
  BY <1>4, <1>5 DEF Goto
<1>7. frame'[t].left = n /\ frame'[t].parent = p /\ frame'[t].root = frame[t].root
  BY ONLY <1>5, <1>6 DEF FrameType
<1>8. Stays(t) /\ pc'[t] \notin HoldsRight
  BY <1>4, <1>6, <1>7 DEF Stays, HoldsRight
<1>9. nodes[right].parent = n /\ n # NULL /\ NotPointedTo(right)
  BY <1>3, <1>4 DEF LinkedUp, HalfLinks
<1>10. HalfLinks(t)'
  <2>1. NotPointedTo(right)'
    BY <1>2, <1>9, NotPointedSame DEF SameLinks
  <2>2. frame'[t].right = right
    BY <1>2, <1>3
  <2>3. p = nodes'[n].parent /\ nodes'[right].parent = n
    BY <1>2, <1>3, <1>9
  <2> QED BY <1>4, <1>6, <1>7, <2>1, <2>2, <2>3 DEF HalfLinks, SplitLabels
<1> QED BY <1>2, <1>3, <1>8, <1>9, <1>10, LinksStay

\* An entry is counted, and the call is over.
LEMMA CountLinks ==
    ASSUME BInv, BInv', OInv, NEW t \in Threads, LinkedUp(t),
           LeafCount(t) \/ NodeCount(t) \/ RemoveCount(t)
    PROVE  LinkedUp(t)'
<1>1. PICK n, x : Done(t, n, x)
  BY LeafCountDone, NodeCountDone, RemoveCountDone
<1>2. /\ pc[t] \in {"leaf_count", "node_count", "remove_count"} /\ pc'[t] = "put_return"
      /\ frame'[t] = frame[t] /\ SameLinks /\ UNCHANGED root
  BY <1>1, DoneKept, KeptLinks DEF Done
<1>3. Stays(t) /\ pc'[t] \notin HoldsRight
  BY <1>2 DEF Stays, HoldsRight
<1>4. pc[t] \in HoldsRight => nodes[frame[t].right].parent # NULL
  <2>1. pc[t] \in HoldsRight => pc[t] = "node_count"
    BY <1>2 DEF HoldsRight
  <2> QED BY <2>1, ThreadFacts DEF LinkedUp, HalfLinks, FrameOK
<1>5. HalfLinks(t)'
  BY <1>2 DEF HalfLinks, SplitLabels
<1> QED BY <1>2, <1>3, <1>4, <1>5, LinksStay

LEMMA LeafEntryLinks ==
    ASSUME BInv, BInv', OInv, NEW t \in Threads, LinkedUp(t), LeafWrite(t) \/ RemoveEntry(t)
    PROVE  LinkedUp(t)'
<1>1. /\ SameLinks /\ frame'[t] = frame[t] /\ pc[t] \in {"at_leaf", "delete"}
      /\ pc'[t] \in {"leaf_count", "remove_count"}
  BY LeafWriteLinks, RemoveEntryLinks
<1>2. UNCHANGED root
  BY DEF LeafWrite, RemoveEntry
<1>3. Stays(t) /\ pc[t] \notin HoldsRight /\ pc'[t] \notin HoldsRight
  BY <1>1, <1>2 DEF Stays, HoldsRight
<1>4. HalfLinks(t)'
  BY <1>1 DEF HalfLinks, SplitLabels
<1> QED BY <1>1, <1>3, <1>4, LinksStay

\* The new leaf is linked, or a full node emptied.
LEMMA LinkEmptyLinks ==
    ASSUME BInv, BInv', OInv, NEW t \in Threads, LinkedUp(t), LeafLink(t) \/ NodeEmpty(t)
    PROVE  LinkedUp(t)'
<1>1. /\ SameLinks /\ frame'[t] = frame[t]
      /\ \/ pc[t] = "leaf_link" /\ pc'[t] = "leaf_cut"
         \/ pc[t] = "node_empty" /\ pc'[t] = "node_split"
  BY LeafLinkLinks, EmptyLinks, KeptLinks
<1>2. UNCHANGED root
  BY DEF LeafLink, NodeEmpty
<1>3. Stays(t) /\ (pc'[t] \in HoldsRight <=> pc[t] \in HoldsRight)
  BY <1>1, <1>2 DEF Stays, HoldsRight
<1>4. HalfLinks(t)'
  <2>1. HalfLinks(t) /\ (\A m : NotPointedTo(m) => NotPointedTo(m)')
    BY <1>1, NotPointedSame DEF LinkedUp, SameLinks
  <2>2. \A m \in Nodes : nodes'[m].parent = nodes[m].parent
    BY <1>1 DEF SameLinks, SameParents
  <2>3. /\ frame[t].left \in Nodes
        /\ pc[t] = "node_empty" => frame[t].right \in Nodes
    BY <1>1, ThreadFacts DEF FrameOK, SplitLabels
  <2> QED BY <1>1, <2>1, <2>2, <2>3 DEF HalfLinks, SplitLabels
<1> QED BY <1>1, <1>3, <1>4, LinksStay

LEMMA LeafSplitLinked ==
    ASSUME BInv, BInv', OInv, NEW t \in Threads, LinkedUp(t), LeafSplit(t)
    PROVE  LinkedUp(t)'
<1>1. PICK q, new : LeafSplits(t, q, new)
  BY LeafSplitLinks
<1>2. /\ pc[t] = "leaf_split" /\ pc'[t] = "leaf_link" /\ UNCHANGED root
      /\ frame'[t] = [frame[t] EXCEPT !.right = new]
      /\ q = frame[t].left /\ q \in Leaves /\ new \notin Nodes
      /\ Nodes' = Nodes \cup {new} /\ Leaves' = Leaves \cup {new} /\ Inner' = Inner
      /\ \A m \in Nodes \ {q} : SameInner(m)
      /\ SameParents
  BY <1>1, Zenon DEF LeafSplits
<1>3. \A n \in Inner : SameInner(n) /\ n \in Nodes
  BY <1>2 DEF Inner
<1>4. \A n \in Inner' : Own(n)' /\ Distinct(n)'
  BY <1>2, <1>3, OwnSame DEF LinkedUp
<1>5. frame[t] \in FrameType /\ frame[t].left \in Nodes
  BY <1>2, ThreadFacts DEF Leaves
<1>6. /\ frame'[t].right = new /\ frame'[t].left = frame[t].left
      /\ frame'[t].parent = frame[t].parent /\ frame'[t].root = frame[t].root
  BY ONLY <1>2, <1>5 DEF FrameType
<1>7. PICK top : top = Top(t)
  OBVIOUS
<1>8. /\ top \in Nodes /\ Top(t)' = top /\ nodes[top].parent = NULL /\ frame[t].root = root
      /\ \A n \in Nodes : nodes[n].parent = NULL => n = top
  BY <1>2, <1>6, <1>7, TopIsNode DEF Top, LinkedUp, OneTop, HoldsRight
<1>9. OneTop(t)'
  <2>1. nodes'[top].parent = NULL /\ top # new
    BY <1>2, <1>8 DEF SameParents
  <2>2. \A n \in Nodes' : nodes'[n].parent = NULL => n = top \/ n = new
    BY <1>2, <1>8 DEF SameParents
  <2> QED BY <1>2, <1>6, <1>8, <2>1, <2>2 DEF OneTop, HoldsRight
<1>10. HalfLinks(t)'
  <2>1. frame[t].parent = nodes'[frame[t].left].parent
    BY <1>2, <1>5 DEF LinkedUp, HalfLinks, SameParents
  <2>2. NotPointedTo(new)'
    BY <1>2, <1>3, ChildIsNode DEF NotPointedTo, SameInner, SameKeys
  <2> QED BY <1>2, <1>6, <2>1, <2>2 DEF HalfLinks, SplitLabels
<1> QED BY <1>4, <1>9, <1>10 DEF LinkedUp

\* The new leaf gets the parent of the leaf that was split.
LEMMA LeafCutLinked ==
    ASSUME BInv, BInv', OInv, NEW t \in Threads, LinkedUp(t), LeafCut(t)
    PROVE  LinkedUp(t)'
<1>1. PICK left, right, p :
        /\ left = frame[t].left /\ right = frame[t].right /\ p = nodes[left].parent
  OBVIOUS
<1>2. /\ KeptEntries
      /\ \A m \in Nodes : nodes'[m].parent = IF m = right THEN p ELSE nodes[m].parent
      /\ pc[t] = "leaf_cut" /\ pc'[t] = "into_parent"
      /\ frame'[t] = [frame[t] EXCEPT !.key = nodes[right].keys[0]]
  BY <1>1, LeafCutLinks
<1>3. UNCHANGED <<Nodes, Inner>> /\ \A n \in Inner : SameInner(n)
  BY <1>2 DEF KeptEntries
<1>4. frame[t] \in FrameType /\ left \in Nodes /\ right \in Nodes /\ left # right
  BY <1>1, <1>2, ThreadFacts DEF FrameOK, HoldsRight, LeafLabels, Leaves
<1>5. /\ frame'[t].right = right /\ frame'[t].left = left
      /\ frame'[t].parent = frame[t].parent /\ frame'[t].root = frame[t].root
  BY ONLY <1>1, <1>2, <1>4 DEF FrameType
<1>6. NotPointedTo(right) /\ frame[t].parent = p
  BY <1>1, <1>2 DEF LinkedUp, HalfLinks
<1>7. \A n \in Inner : Own(n)' /\ Distinct(n)'
  <2> SUFFICES ASSUME NEW n \in Inner PROVE Own(n)' /\ Distinct(n)'
    OBVIOUS
  <2>1. \A i \in 0 .. Count(n) : nodes'[nodes[n].pointers[i]].parent = n
    BY <1>2, <1>6, ChildIsNode DEF LinkedUp, Own, NotPointedTo
  <2> QED BY <1>3, <2>1, OwnKept DEF LinkedUp
<1>8. UNCHANGED root
  BY DEF LeafCut
<1>9. PICK top : top = Top(t)
  OBVIOUS
<1>10. /\ top \in Nodes /\ Top(t)' = top /\ nodes[top].parent = NULL /\ frame[t].root = root
       /\ \A n \in Nodes : nodes[n].parent = NULL => n = top \/ n = right
       /\ right # top
  BY <1>1, <1>2, <1>5, <1>9, TopIsNode DEF Top, LinkedUp, OneTop, HoldsRight
<1>11. OneTop(t)'
  <2>1. nodes'[top].parent = NULL
    BY <1>2, <1>10
  <2>2. \A n \in Nodes : nodes'[n].parent = NULL => n = top \/ n = right
    BY <1>2, <1>10
  <2> QED BY <1>2, <1>3, <1>5, <1>8, <1>10, <2>1, <2>2 DEF OneTop, HoldsRight
<1>12. HalfLinks(t)'
  <2>1. NotPointedTo(right)'
    BY <1>3, <1>6, NotPointedSame
  <2>2. nodes'[right].parent = p /\ nodes'[left].parent = p
    BY <1>1, <1>2, <1>4
  <2> QED BY <1>2, <1>5, <1>6, <2>1, <2>2 DEF HalfLinks, SplitLabels
<1> QED BY <1>3, <1>7, <1>11, <1>12 DEF LinkedUp

\* Entries that differ, and one more.
LEMMA InsertedDistinct ==
    ASSUME NEW num \in Nat, NEW i \in 0 .. num, NEW g, NEW x, NEW f,
           \A j \in 0 .. num + 1 : f[j] = IF j < i + 1 THEN g[j]
                                          ELSE IF j = i + 1 THEN x ELSE g[j - 1],
           \A a, b \in 0 .. num : g[a] = g[b] => a = b,
           \A a \in 0 .. num : g[a] # x
    PROVE  \A a, b \in 0 .. num + 1 : f[a] = f[b] => a = b
<1> SUFFICES ASSUME NEW a \in 0 .. num + 1, NEW b \in 0 .. num + 1, f[a] = f[b] PROVE a = b
  OBVIOUS
<1>1. ASSUME NEW j \in 0 .. num + 1
      PROVE  /\ j < i + 1 => j \in 0 .. num
             /\ ~(j < i + 1) /\ j # i + 1 => j - 1 \in 0 .. num
  OBVIOUS
<1>2. CASE a = i + 1 \/ b = i + 1
  BY <1>1, <1>2, SMTT(60)
<1>3. CASE a # i + 1 /\ b # i + 1
  BY <1>1, <1>3, SMTT(60)
<1> QED BY <1>2, <1>3

LEMMA NodeWriteLinked ==
    ASSUME BInv, BInv', OInv, NEW t \in Threads, LinkedUp(t), NodeWrite(t)
    PROVE  LinkedUp(t)'
<1>1. PICK n, i, num : NodeGrows(t, n, i, num)
  BY NodeWriteLinks
<1>2. PICK right, p, p2 :
        /\ right = frame[t].right /\ p = nodes[n].pointers /\ p2 = nodes'[n].pointers
  OBVIOUS
<1>3. /\ UNCHANGED <<Nodes, Inner>> /\ SameParents
      /\ pc[t] = "into_parent" /\ pc'[t] = "node_count" /\ frame'[t] = frame[t]
      /\ n = frame[t].parent /\ n \in Inner /\ i \in 0 .. num /\ num \in Nat
      /\ nodes[frame[t].left].parent = n
      /\ \A m \in Nodes \ {n} : SameInner(m)
      /\ Count(n) = num /\ Count(n)' = num + 1
      /\ \A j \in 0 .. num + 1 :
            p2[j] = IF j < i + 1 THEN p[j] ELSE IF j = i + 1 THEN right ELSE p[j - 1]
  BY <1>1, <1>2, Zenon DEF NodeGrows
<1>4. right \in Nodes /\ nodes[right].parent = n /\ NotPointedTo(right)
  BY <1>2, <1>3, ThreadFacts DEF LinkedUp, HalfLinks, FrameOK, HoldsRight
<1>5. /\ \A a \in 0 .. num : p[a] \in Nodes /\ nodes[p[a]].parent = n /\ p[a] # right
      /\ \A a, b \in 0 .. num : p[a] = p[b] => a = b
  BY <1>2, <1>3, <1>4, ChildIsNode DEF LinkedUp, Own, Distinct, NotPointedTo
<1>6. Distinct(n)'
  <2>1. \A a, b \in 0 .. num + 1 : p2[a] = p2[b] => a = b
    BY <1>3, <1>5, InsertedDistinct
  <2> QED BY <1>2, <1>3, <2>1 DEF Distinct
<1>7. Own(n)'
  <2> SUFFICES ASSUME NEW j \in 0 .. num + 1 PROVE nodes'[p2[j]].parent = n
    BY <1>2, <1>3 DEF Own
  <2>1. p2[j] = right \/ \E a \in 0 .. num : p2[j] = p[a]
    <3>1. /\ j < i + 1 => j \in 0 .. num
          /\ ~(j < i + 1) /\ j # i + 1 => j - 1 \in 0 .. num
      BY ONLY <1>3, j \in 0 .. num + 1
    <3> QED BY <1>3, <3>1
  <2>2. p2[j] \in Nodes /\ nodes[p2[j]].parent = n
    BY <1>4, <1>5, <2>1
  <2> QED BY <1>3, <2>2 DEF SameParents
<1>8. \A m \in Inner : Own(m)' /\ Distinct(m)'
  <2>1. ASSUME NEW m \in Inner \ {n} PROVE Own(m)' /\ Distinct(m)'
    BY <1>3, OwnSame DEF LinkedUp, Inner
  <2> QED BY <1>6, <1>7, <2>1
<1>9. UNCHANGED root
  BY DEF NodeWrite
<1>10. OneTop(t)'
  <2>1. /\ Top(t)' = Top(t) /\ frame'[t].root = root'
        /\ OneTop(t) /\ Top(t) \in Nodes
    BY <1>3, <1>9, TopIsNode DEF Top, LinkedUp, OneTop
  <2>2. pc[t] \in HoldsRight /\ pc'[t] \in HoldsRight
    BY <1>3 DEF HoldsRight
  <2> QED BY <1>3, <2>1, <2>2, OneTopSame
<1>11. HalfLinks(t)'
  <2>1. nodes'[right].parent = n
    BY <1>3, <1>4 DEF SameParents
  <2> QED BY <1>2, <1>3, <2>1 DEF HalfLinks, SplitLabels
<1> QED BY <1>3, <1>8, <1>10, <1>11 DEF LinkedUp

LEMMA NewRootLinked ==
    ASSUME BInv, BInv', OInv, NEW t \in Threads, LinkedUp(t), NewRoot(t)
    PROVE  LinkedUp(t)'
<1>1. PICK left, right, new : NewRoots(t, left, right, new)
  BY NewRootLinks
<1>2. /\ pc[t] = "into_parent" /\ pc'[t] = "put_return" /\ frame[t].parent = NULL
      /\ frame'[t] = [frame[t] EXCEPT !.root = new]
      /\ left = frame[t].left /\ right = frame[t].right /\ left \in Nodes /\ right \in Nodes
      /\ left # right /\ new \notin Nodes /\ new # NULL
      /\ Nodes' = Nodes \cup {new} /\ Inner' = Inner \cup {new}
      /\ \A m \in Nodes : SameInner(m)
      /\ \A m \in Nodes : nodes'[m].parent = IF m \in {left, right} THEN new
                                             ELSE nodes[m].parent
      /\ nodes'[new].parent = NULL /\ Count(new)' = 1
      /\ nodes'[new].pointers[0] = left /\ nodes'[new].pointers[1] = right
  BY <1>1, Zenon DEF NewRoots
<1>3. frame'[t].root = new
  <2>1. frame[t] \in FrameType
    BY ThreadFacts
  <2> QED BY ONLY <1>2, <2>1 DEF FrameType
<1>4. NotPointedTo(left) /\ NotPointedTo(right) /\ nodes[left].parent = NULL
  <2>1. nodes[left].parent = NULL /\ NotPointedTo(right)
    BY <1>2 DEF LinkedUp, HalfLinks
  <2> QED BY <2>1, TopNotPointedTo DEF LinkedUp
<1>5. ASSUME NEW n \in Inner PROVE Own(n)' /\ Distinct(n)'
  <2>1. n \in Nodes
    BY DEF Inner
  <2>2. \A i \in 0 .. Count(n) : nodes'[nodes[n].pointers[i]].parent = n
    BY <1>2, <1>4, ChildIsNode DEF LinkedUp, Own, NotPointedTo
  <2> QED BY <1>2, <2>1, <2>2, OwnKept DEF LinkedUp
<1>6. Own(new)' /\ Distinct(new)'
  <2>1. \A i \in 0 .. 1 : i = 0 \/ i = 1
    OBVIOUS
  <2>2. Own(new)'
    BY <1>2, <2>1 DEF Own
  <2>3. Distinct(new)'
    BY <1>2, <2>1 DEF Distinct
  <2> QED BY <2>2, <2>3
<1>7. OneTop(t)'
  <2>1. left = Top(t)
    BY <1>2, <1>4 DEF LinkedUp, OneTop
  <2>2. \A n \in Nodes : nodes[n].parent = NULL => n \in {left, right}
    BY <1>2, <2>1 DEF LinkedUp, OneTop
  <2>3. \A n \in Nodes' : nodes'[n].parent = NULL => n = new
    BY <1>2, <2>2
  <2>4. Top(t)' = new
    BY <1>2, <1>3 DEF Top
  <2> QED BY <1>2, <2>3, <2>4 DEF OneTop, HoldsRight
<1>8. HalfLinks(t)'
  BY <1>2 DEF HalfLinks, SplitLabels
<1> QED BY <1>2, <1>5, <1>6, <1>7, <1>8 DEF LinkedUp

\* No node is its own child.
LEMMA ChildDiffers ==
    ASSUME BInv, OInv, NEW n \in Inner, NEW i \in 0 .. Count(n)
    PROVE  nodes[n].pointers[i] # n
<1>1. PICK l, r, h : Ordered(l, r, h)
  BY DEF OInv
<1>2. h[n] = h[nodes[n].pointers[i]] + 1
  BY <1>1 DEF Ordered, NodeOrder, Routes
<1>3. h[n] \in Nat
  BY <1>1, NodeNumbers DEF Ordered, Ghosts, BInv, Inner
<1> QED BY <1>2, <1>3

\* The children move to the new node of the half that they are in.
LEMMA NodeSplitLinked ==
    ASSUME BInv, BInv', OInv, NEW t \in Threads, LinkedUp(t), NodeSplit(t)
    PROVE  LinkedUp(t)'
<1>1. PICK q, new, c, tp, i : NodeSplits(t, q, new, c, tp, i)
  BY NodeSplitLinks
<1>2. PICK right, p : right = frame[t].right /\ p = nodes[q].pointers
  OBVIOUS
<1>3. /\ pc[t] = "node_split" /\ pc'[t] = "into_parent" /\ UNCHANGED root
      /\ frame'[t].left = q /\ frame'[t].right = new
      /\ frame'[t].root = frame[t].root /\ frame'[t].parent = frame[t].parent
      /\ q = frame[t].left /\ q \in Inner /\ new \notin Nodes /\ new # NULL
      /\ Nodes' = Nodes \cup {new} /\ Inner' = Inner \cup {new}
      /\ \A m \in Nodes \ {q} : SameInner(m)
  BY <1>1, Zenon DEF NodeSplits
<1>4. /\ c = cut(Order) /\ i \in 0 .. Order - 1
      /\ Count(q) = Order - 1 /\ Count(q)' = c - 1 /\ Count(new)' = Order - c
      /\ \A j \in 0 .. Order : tp[j] = IF j < i + 1 THEN p[j]
                                       ELSE IF j = i + 1 THEN right ELSE p[j - 1]
      /\ \A j \in 0 .. c - 1 : nodes'[q].pointers[j] = tp[j]
      /\ \A j \in 0 .. Order - c : nodes'[new].pointers[j] = tp[c + j]
  BY <1>1, <1>2, Zenon DEF NodeSplits
<1>5. PICK upper : upper = {tp[c + j] : j \in 0 .. Order - c}
  OBVIOUS
<1>6. /\ nodes'[q].parent = nodes[q].parent /\ nodes'[new].parent = nodes[q].parent
      /\ \A m \in Nodes \ {q} : nodes'[m].parent = IF m \in upper THEN new ELSE nodes[m].parent
  BY <1>1, <1>5, Zenon DEF NodeSplits
<1>7. c \in 1 .. Order
  BY <1>4, CutBounds
<1>8. /\ \A j \in 0 .. c - 1 : j \in 0 .. Order
      /\ \A j \in 0 .. Order - c : c + j \in 0 .. Order
      /\ \A j \in 0 .. c - 1, k \in 0 .. Order - c : j # c + k
  BY ONLY <1>7, OrderAssumption
<1>9. right \in Nodes /\ nodes[right].parent = q /\ NotPointedTo(right) /\ right # q
  <2>1. right \in Nodes /\ nodes[right].parent = q /\ NotPointedTo(right)
    BY <1>2, <1>3, ThreadFacts DEF LinkedUp, HalfLinks, FrameOK, SplitLabels
  <2>2. PICK l, r, h : Ordered(l, r, h)
    BY DEF OInv
  <2>3. h[q] = h[right] + 1
    BY <1>2, <1>3, <2>2 DEF Ordered, ThreadOrder, SplitOrder, SplitLabels
  <2>4. h[right] \in Nat
    BY <2>1, <2>2, NodeNumbers DEF Ordered, Ghosts, BInv
  <2> QED BY <2>1, <2>3, <2>4
<1>10. /\ \A a \in 0 .. Order - 1 :
             p[a] \in Nodes /\ nodes[p[a]].parent = q /\ p[a] # right /\ p[a] # q
       /\ \A a, b \in 0 .. Order - 1 : p[a] = p[b] => a = b
  BY <1>2, <1>3, <1>4, <1>9, ChildIsNode, ChildDiffers
     DEF LinkedUp, Own, Distinct, NotPointedTo
<1>11. \A a, b \in 0 .. Order : tp[a] = tp[b] => a = b
  <2>1. PICK num : num = Order - 1
    OBVIOUS
  <2>2. num \in Nat /\ num + 1 = Order
    BY ONLY <2>1, OrderAssumption
  <2>3. /\ i \in 0 .. num
        /\ \A j \in 0 .. num + 1 : tp[j] = IF j < i + 1 THEN p[j]
                                           ELSE IF j = i + 1 THEN right ELSE p[j - 1]
        /\ \A a, b \in 0 .. num : p[a] = p[b] => a = b
        /\ \A a \in 0 .. num : p[a] # right
    BY <1>4, <1>10, <2>1, <2>2
  <2>4. \A a, b \in 0 .. num + 1 : tp[a] = tp[b] => a = b
    BY <2>2, <2>3, InsertedDistinct
  <2> QED BY <2>2, <2>4
<1>12. ASSUME NEW j \in 0 .. Order
       PROVE  tp[j] \in Nodes \ {q} /\ nodes[tp[j]].parent = q
  <2>1. /\ j < i + 1 => j \in 0 .. Order - 1
        /\ ~(j < i + 1) /\ j # i + 1 => j - 1 \in 0 .. Order - 1
    BY ONLY <1>4, j \in 0 .. Order, OrderAssumption
  <2>2. tp[j] = right \/ \E a \in 0 .. Order - 1 : tp[j] = p[a]
    BY <1>4, <2>1
  <2> QED BY <1>9, <1>10, <2>2
<1>13. \A m \in upper : m \in Nodes \ {q} /\ nodes[m].parent = q
  BY <1>5, <1>8, <1>12
<1>14. Own(q)' /\ Distinct(q)'
  <2>1. ASSUME NEW j \in 0 .. c - 1 PROVE nodes'[nodes'[q].pointers[j]].parent = q
    <3>1. tp[j] \notin upper
      BY <1>5, <1>8, <1>11
    <3>2. tp[j] \in Nodes \ {q} /\ nodes[tp[j]].parent = q
      BY <1>8, <1>12
    <3> QED BY <1>4, <1>6, <3>1, <3>2
  <2>2. \A a, b \in 0 .. c - 1 : nodes'[q].pointers[a] = nodes'[q].pointers[b] => a = b
    BY <1>4, <1>8, <1>11
  <2> QED BY <1>4, <2>1, <2>2 DEF Own, Distinct
<1>15. Own(new)' /\ Distinct(new)'
  <2>1. ASSUME NEW j \in 0 .. Order - c PROVE nodes'[nodes'[new].pointers[j]].parent = new
    <3>1. tp[c + j] \in upper
      BY <1>5
    <3> QED BY <1>4, <1>6, <1>13, <3>1
  <2>2. ASSUME NEW a \in 0 .. Order - c, NEW b \in 0 .. Order - c,
               nodes'[new].pointers[a] = nodes'[new].pointers[b]
        PROVE  a = b
    <3>1. c + a = c + b
      BY <1>4, <1>8, <1>11, <2>2
    <3>2. a \in Int /\ b \in Int /\ c \in Int
      BY ONLY <1>7, a \in 0 .. Order - c, b \in 0 .. Order - c, OrderAssumption
    <3> QED BY ONLY <3>1, <3>2
  <2> QED BY <1>4, <2>1, <2>2 DEF Own, Distinct
<1>16. ASSUME NEW n \in Inner \ {q} PROVE Own(n)' /\ Distinct(n)'
  <2>1. ASSUME NEW j \in 0 .. Count(n) PROVE nodes'[nodes[n].pointers[j]].parent = n
    <3>1. PICK m : m = nodes[n].pointers[j]
      OBVIOUS
    <3>2. m \in Nodes /\ nodes[m].parent = n
      BY <3>1, ChildIsNode DEF LinkedUp, Own
    <3> QED BY <1>6, <1>13, <3>1, <3>2
  <2>2. SameInner(n)
    BY <1>3 DEF Inner
  <2> QED BY <2>1, <2>2, OwnKept DEF LinkedUp
<1>17. PICK top : top = Top(t)
  OBVIOUS
<1>18. /\ top \in Nodes /\ Top(t)' = top /\ nodes[top].parent = NULL /\ frame[t].root = root
       /\ \A n \in Nodes : nodes[n].parent = NULL => n = top
  BY <1>3, <1>17, TopIsNode DEF Top, LinkedUp, OneTop, HoldsRight
<1>19. q # NULL
  BY <1>3, NodeNumbers DEF BInv, Inner
<1>20. OneTop(t)'
  <2>1. nodes'[top].parent = NULL /\ top # new
    BY <1>3, <1>6, <1>13, <1>18, <1>19
  <2>2. \A n \in Nodes' : nodes'[n].parent = NULL => n = top \/ n = new
    BY <1>3, <1>6, <1>18
  <2> QED BY <1>3, <1>18, <2>1, <2>2 DEF OneTop, HoldsRight
<1>21. NotPointedTo(new)'
  <2>1. ASSUME NEW n \in Inner \ {q}, NEW j \in 0 .. Count(n)' PROVE nodes'[n].pointers[j] # new
    BY <1>3, <2>1, ChildIsNode DEF SameInner, SameKeys, Inner
  <2>2. \A j \in 0 .. c - 1 : nodes'[q].pointers[j] # new
    BY <1>3, <1>4, <1>8, <1>12
  <2>3. \A j \in 0 .. Order - c : nodes'[new].pointers[j] # new
    BY <1>3, <1>4, <1>8, <1>12
  <2> QED BY <1>3, <1>4, <2>1, <2>2, <2>3 DEF NotPointedTo
<1>22. HalfLinks(t)'
  <2>1. frame[t].parent = nodes[q].parent
    BY <1>3 DEF LinkedUp, HalfLinks, SplitLabels
  <2> QED BY <1>3, <1>6, <1>21, <2>1 DEF HalfLinks, SplitLabels
<1> QED BY <1>3, <1>14, <1>15, <1>16, <1>20, <1>22 DEF LinkedUp

LEMMA LinksNext == OneThread /\ BInv /\ OInv /\ LInv /\ [Next]_vars => LInv'
<1> SUFFICES ASSUME OneThread, BInv, OInv, LInv, [Next]_vars, NEW t \in Threads
             PROVE  LinkedUp(t)'
  BY DEF LInv
<1>1. BInv' /\ LinkedUp(t)
  BY NextOK DEF LInv
<1>2. CASE UNCHANGED vars
  BY <1>1, <1>2, LinksStutter
<1>3. CASE Next
  <2>1. Invoke(t) \/ Step(t)
    BY <1>3 DEF OneThread, Next
  <2>2. CASE Strolls(t)
    BY <1>1, <2>2, StrollLinks
  <2>3. CASE Invoke(t) \/ PutReturn(t) \/ GetReturn(t)
    BY <1>1, <2>3, CallLinks
  <2>4. CASE InsertIntoLeaf(t)
    BY <1>1, <2>2, <2>4, LeafEntryLinks, CountLinks, LeafFullLinks, LockParentLinks,
       LeafSplitLinked, LinkEmptyLinks, LeafCutLinked, Zenon DEF InsertIntoLeaf, Strolls
  <2>5. CASE InsertIntoParent(t)
    BY <1>1, <2>5, NewRootLinked, NobodyFollows, NodeWriteLinked, CountLinks, NodeFullLinks,
       LinkEmptyLinks, NodeSplitLinked, Zenon DEF InsertIntoParent
  <2>6. CASE Find(t)
    BY <2>2, <2>3, <2>6, Zenon DEF Find, Strolls
  <2>7. CASE Delete(t)
    BY <1>1, <2>2, <2>7, LeafEntryLinks, CountLinks, Zenon DEF Delete, Strolls
  <2> QED BY <2>1, <2>2, <2>3, <2>4, <2>5, <2>6, <2>7, Zenon DEF Step, Strolls
<1> QED BY <1>2, <1>3

\* insert and delete (bpt.c), called by one thread: between calls every node is linked to the
\* parent that points to it, and the root that db_put kept is the only node without one.  (With
\* two threads the first to write the root back may undo the other's.)
THEOREM ParentsLinked == ASSUME OneThread PROVE Spec => []ParentLinks
<1>1. BInv /\ LInv => ParentLinks
  <2> SUFFICES ASSUME BInv, LInv, Quiet
               PROVE  /\ \A n \in Nodes \ Leaves : \A i \in 0 .. nodes[n].num_keys :
                            nodes[nodes[n].pointers[i]].parent = n
                      /\ {n \in Nodes : nodes[n].parent = NULL} = {root}
    BY DEF ParentLinks
  <2>1. PICK t \in Threads : LinkedUp(t) /\ pc[t] = "idle"
    BY DEF OneThread, LInv, Quiet, At
  <2>2. \A n \in Nodes \ Leaves : n \in Inner /\ Count(n) = nodes[n].num_keys
    BY QuietFacts DEF Inner
  <2>3. \A n \in Nodes : nodes[n].parent = NULL <=> n = root
    BY <2>1 DEF LinkedUp, OneTop, Top, HoldsRight
  <2>4. root \in Nodes
    BY DEF BInv, NodesOK
  <2> QED BY <2>1, <2>2, <2>3, <2>4 DEF LinkedUp, Own
<1> QED BY <1>1, LinksInit, LinksNext, TreeInvariance, OrderInvariance, PTL DEF Spec

-------------------------------------------------------------------------------
(* What the tree stores, as long as nothing is deleted *)

InLeaf(n) == KeysUpTo(n, Count(n))

\* The keys that count.
Counted == UNION {InLeaf(n) : n \in Leaves}

\* A slot of a leaf that is not counted holds what malloc left there, or a key that a split
\* has moved to another leaf.
Known(n) == \A i \in Slots : nodes[n].keys[i] \in MallocKeys \cup Counted

\* Every key that counts has its record.
Recorded(n) == \A i \in 0 .. Count(n) - 1 : nodes[n].pointers[i] # NULL

\* A leaf that was split and is not cut yet has no key that is not in one of its halves.
Halved(t) ==
    \A q, new : pc[t] \in {"leaf_link", "leaf_cut"} /\ q = frame[t].left /\ new = frame[t].right =>
        /\ nodes[q].num_keys = Order - 1
        /\ KeysUpTo(q, Order - 1) \subseteq InLeaf(q) \cup InLeaf(new)

KInv ==
    /\ \A n \in Leaves : Known(n) /\ Recorded(n)
    /\ \A t \in Threads : Halved(t)

\* A step that leaves the entries of the leaves alone.
SameLeaves == Leaves' = Leaves /\ \A n \in Leaves : SameEntries(n)

LEMMA InLeafSame ==
    ASSUME NEW n, SameKeys(n)
    PROVE  InLeaf(n)' = InLeaf(n) /\ \A num : KeysUpTo(n, num)' = KeysUpTo(n, num)
BY DEF SameKeys, InLeaf, KeysUpTo

LEMMA CountedSame ==
    ASSUME SameLeaves
    PROVE  Counted' = Counted
<1>1. \A n \in Leaves : InLeaf(n)' = InLeaf(n)
  BY InLeafSame DEF SameLeaves, SameEntries
<1> QED BY <1>1 DEF SameLeaves, Counted

LEMMA KnownSame ==
    ASSUME NEW n, SameEntries(n), Counted \subseteq Counted'
    PROVE  (Known(n) => Known(n)') /\ (Recorded(n) => Recorded(n)')
BY DEF SameEntries, SameKeys, Known, Recorded

\* A leaf that is being split, whose halves nobody changes.
LEMMA HalvedSame ==
    ASSUME BInv, NEW u \in Threads, Halved(u),
           \A n \in Leaves : lock[n] = u =>
              SameKeys(n) /\ nodes'[n].num_keys = nodes[n].num_keys,
           pc'[u] \in {"leaf_link", "leaf_cut"} =>
              /\ pc[u] \in {"leaf_link", "leaf_cut"}
              /\ frame'[u].left = frame[u].left /\ frame'[u].right = frame[u].right
    PROVE  Halved(u)'
<1> SUFFICES ASSUME NEW q, NEW new, pc'[u] \in {"leaf_link", "leaf_cut"},
                    q = frame'[u].left, new = frame'[u].right
             PROVE  /\ nodes'[q].num_keys = Order - 1
                    /\ KeysUpTo(q, Order - 1)' \subseteq InLeaf(q)' \cup InLeaf(new)'
  BY DEF Halved
<1>1. q = frame[u].left /\ new = frame[u].right /\ pc[u] \in {"leaf_link", "leaf_cut"}
  OBVIOUS
<1>2. q \in Leaves /\ new \in Leaves
  BY <1>1, ThreadFacts DEF FrameOK, LeafLabels
<1>3. lock[q] = u /\ lock[new] = u
  BY <1>1, <1>2, ThreadFacts DEF LockOK, Holds, HoldsLeft, HoldsRight, Leaves
<1>4. SameKeys(q) /\ SameKeys(new) /\ nodes'[q].num_keys = nodes[q].num_keys
  BY <1>2, <1>3
<1>5. /\ nodes[q].num_keys = Order - 1
      /\ KeysUpTo(q, Order - 1) \subseteq InLeaf(q) \cup InLeaf(new)
  BY <1>1 DEF Halved
<1>6. /\ InLeaf(q)' = InLeaf(q) /\ KeysUpTo(q, Order - 1)' = KeysUpTo(q, Order - 1)
      /\ InLeaf(new)' = InLeaf(new)
  BY <1>4, InLeafSame
<1> QED BY <1>4, <1>5, <1>6

\* What other threads split is not touched.
LEMMA OthersHalved ==
    ASSUME BInv, BInv', NEW t \in Threads, Steady(t), NEW u \in Threads \ {t}, Halved(u)
    PROVE  Halved(u)'
<1>1. pc'[u] = pc[u] /\ frame'[u] = frame[u] /\ u # t
  BY DEF Steady, Alone
<1>2. ASSUME NEW n \in Leaves, lock[n] = u
      PROVE  SameKeys(n) /\ nodes'[n].num_keys = nodes[n].num_keys
  <2>1. n \in Nodes /\ lock[n] # t
    BY <1>1, <1>2 DEF Leaves
  <2>2. lock'[n] = u
    BY <1>2, <2>1, OtherHolder DEF Steady
  <2> QED BY <1>1, <2>1, <2>2, OutsideSame DEF SameInner, Steady
<1> QED BY <1>1, <1>2, HalvedSame

\* A step that changes no entry of a leaf.
LEMMA SameStored ==
    ASSUME BInv, BInv', KInv, NEW t \in Threads, Steady(t), SameLeaves, Halved(t)'
    PROVE  KInv' /\ Counted' = Counted
<1>1. Counted' = Counted
  BY CountedSame
<1>2. \A n \in Leaves' : Known(n)' /\ Recorded(n)'
  BY <1>1, KnownSame DEF KInv, SameLeaves
<1>3. \A u \in Threads \ {t} : Halved(u)'
  BY OthersHalved DEF KInv
<1> QED BY <1>1, <1>2, <1>3 DEF KInv

\* The entries of a leaf that a search or the next insertion may see are those that count.
LEMMA CountIs ==
    ASSUME BInv, NoDeletes, FromMenu, NEW n \in Leaves,
           \A t \in Threads : ~(At(t, "leaf_count") /\ frame[t].left = n),
           \A t \in Threads : ~(pc[t] \in {"leaf_link", "leaf_cut"} /\ frame[t].left = n)
    PROVE  Count(n) = nodes[n].num_keys
<1>1. n \in Nodes /\ n \notin Inner
  BY DEF Leaves, Inner
<1>2. CASE Free(n)
  BY <1>2 DEF Count
<1>3. CASE ~Free(n)
  <2>1. PICK t \in Threads : lock[n] = t
    BY <1>1, <1>3, LockType
  <2>2. Holds(t, n) /\ FrameOK(t)
    BY <1>1, <2>1, ThreadFacts DEF LockOK
  <2>3. pc[t] # "remove_count"
    <3>1. pc[t] = "remove_count" => call[t].type = OP_DELETE /\ call[t] # NoCall
      BY ThreadFacts, MenuAssumption, Zenon DEF CallOK, DeleteLabels
    <3> QED BY <3>1, Zenon DEF NoDeletes, FromMenu
  <2>4. n # frame[t].parent
    BY <1>1, <2>2 DEF FrameOK, Inner, Leaves, NULL, Nodes, BInv, NodesOK
  <2>5. pc[t] = "leaf_count" => n = frame[t].left
    BY <2>2 DEF Holds, HoldsRight, HoldsParent, Deleting, DeleteLabels
  <2>6. pc[t] = "node_split" => n # frame[t].left
    BY <1>1, <2>2 DEF FrameOK, SplitLabels
  <2>7. Count(n) = Pending(pc[t], frame[t], n, nodes[n].num_keys)
    BY <1>1, <2>1, HeldBy
  <2> QED BY <2>3, <2>4, <2>5, <2>6, <2>7 DEF Pending, At
<1> QED BY <1>2, <1>3

LEMMA CountIsWritten ==
    ASSUME BInv, NEW t \in Threads, At(t, "leaf_count")
    PROVE  Count(frame[t].left) = nodes[frame[t].left].num_keys + 1
<1>1. PICK n : n = frame[t].left
  OBVIOUS
<1>2. n \in Nodes /\ Holds(t, n)
  BY <1>1, ThreadFacts DEF At, FrameOK, Holds, HoldsLeft
<1>3. lock[n] = t
  BY <1>2, ThreadFacts DEF LockOK
<1>4. Count(n) = Pending(pc[t], frame[t], n, nodes[n].num_keys)
  BY <1>2, <1>3, HeldBy
<1> QED BY <1>1, <1>4 DEF At, Pending

LEMMA KeysUpToMore ==
    ASSUME NEW n, NEW a \in Nat, NEW b \in Nat, a <= b
    PROVE  KeysUpTo(n, a) \subseteq KeysUpTo(n, b)
BY DEF KeysUpTo

LEMMA StoredIs ==
    ASSUME BInv, NoDeletes, FromMenu, KInv
    PROVE  Stored = Counted
<1> DEFINE seen(n) == nodes[n].num_keys
                        + (IF \E t \in Threads : At(t, "leaf_count") /\ frame[t].left = n
                           THEN 1 ELSE 0)
<1>1. \A n : LeafKeys(n) = KeysUpTo(n, seen(n))
  BY DEF LeafKeys, KeysUpTo
<1>2. ASSUME NEW n \in Leaves
      PROVE  InLeaf(n) \subseteq LeafKeys(n) /\ LeafKeys(n) \subseteq Counted
  <2>1. n \in Nodes /\ nodes[n].num_keys \in 0 .. Order - 1
    BY NodeFields DEF Leaves, BInv
  <2>2. InLeaf(n) \subseteq Counted
    BY DEF Counted
  <2>3. CASE \E t \in Threads : At(t, "leaf_count") /\ frame[t].left = n
    <3>1. Count(n) = nodes[n].num_keys + 1 /\ seen(n) = nodes[n].num_keys + 1
      BY <2>3, CountIsWritten
    <3> QED BY <1>1, <2>2, <3>1 DEF InLeaf
  <2>4. ASSUME NEW t \in Threads, pc[t] \in {"leaf_link", "leaf_cut"}, frame[t].left = n
        PROVE  InLeaf(n) \subseteq LeafKeys(n) /\ LeafKeys(n) \subseteq Counted
    <3>1. PICK new : new = frame[t].right
      OBVIOUS
    <3>2. /\ nodes[n].num_keys = Order - 1
          /\ KeysUpTo(n, Order - 1) \subseteq InLeaf(n) \cup InLeaf(new)
      BY <2>4, <3>1 DEF KInv, Halved
    <3>3. new \in Leaves
      BY <2>4, <3>1, ThreadFacts DEF FrameOK
    <3>4. lock[n] = t
      BY <2>1, <2>4, ThreadFacts DEF LockOK, Holds, HoldsLeft
    <3>5. ~(\E u \in Threads : At(u, "leaf_count") /\ frame[u].left = n)
      <4> SUFFICES ASSUME NEW u \in Threads, At(u, "leaf_count"), frame[u].left = n PROVE FALSE
        OBVIOUS
      <4>1. lock[n] = u
        BY <2>1, ThreadFacts DEF At, LockOK, Holds, HoldsLeft
      <4> QED BY <2>4, <3>4, <4>1 DEF At
    <3>6. LeafKeys(n) = KeysUpTo(n, Order - 1)
      BY <1>1, <2>1, <3>2, <3>5
    <3>7. Count(n) \in Nat /\ Order - 1 \in Nat /\ Count(n) <= Order - 1
      BY <2>1, CountBounds, OrderAssumption
    <3>8. InLeaf(n) \subseteq KeysUpTo(n, Order - 1)
      BY <3>7, KeysUpToMore DEF InLeaf
    <3> QED BY <2>2, <3>2, <3>3, <3>6, <3>8 DEF Counted
  <2>5. CASE /\ \A t \in Threads : ~(At(t, "leaf_count") /\ frame[t].left = n)
             /\ \A t \in Threads : ~(pc[t] \in {"leaf_link", "leaf_cut"} /\ frame[t].left = n)
    <3>1. Count(n) = nodes[n].num_keys /\ seen(n) = nodes[n].num_keys
      BY <2>1, <2>5, CountIs
    <3> QED BY <1>1, <2>2, <3>1 DEF InLeaf
  <2> QED BY <2>3, <2>4, <2>5
<1> QED BY <1>2 DEF Stored, Counted

LEMMA StoredIsNext ==
    ASSUME NoDeletes
    PROVE  (BInv /\ FromMenu /\ KInv => Stored = Counted)'
<1>1. BInv /\ FromMenu /\ KInv => Stored = Counted
  BY StoredIs
<1> QED BY <1>1, PTL

\* Steps of an insertion or a search that store no key.
Rearranges(t) ==
    \/ Walks(t) \/ Climbs(t) \/ LeafCount(t) \/ NodeCount(t) \/ LeafLink(t) \/ LeafCut(t)
    \/ NewRoot(t) \/ NodeWrite(t) \/ NodeEmpty(t) \/ NodeSplit(t)

LEMMA KeptLeaves ==
    ASSUME KeptEntries
    PROVE  SameLeaves
BY DEF KeptEntries, SameLeaves

LEMMA InnerLeaves ==
    ASSUME Leaves' = Leaves, \A m \in Leaves : SameInner(m)
    PROVE  SameLeaves
BY DEF SameLeaves, SameInner, SameEntries, SameKeys

LEMMA NoHalves ==
    ASSUME NEW t, pc'[t] \notin {"leaf_link", "leaf_cut"}
    PROVE  Halved(t)'
BY DEF Halved

LEMMA RearrangesLeaves ==
    ASSUME BInv, BInv', OInv, KInv, NEW t \in Threads, Rearranges(t)
    PROVE  Steady(t) /\ SameLeaves /\ Halved(t)'
<1>1. CASE Walks(t) \/ Climbs(t)
  <2>1. QuietTree(t)
    BY <1>1, WalksQuiet, ClimbsQuiet
  <2>2. pc'[t] \notin {"leaf_link", "leaf_cut"}
    BY <2>1 DEF QuietTree, Special
  <2> QED BY <2>1, <2>2, QuietLinks, KeptLeaves, NoHalves
<1>2. CASE LeafCount(t) \/ NodeCount(t)
  <2>1. PICK n, x : Done(t, n, x)
    BY <1>2, LeafCountDone, NodeCountDone, Zenon
  <2>2. Steady(t) /\ KeptEntries /\ pc'[t] = "put_return"
    BY <2>1, DoneKept, Zenon
  <2> QED BY <2>2, KeptLeaves, NoHalves
<1>3. CASE LeafLink(t)
  <2>1. /\ Steady(t) /\ KeptEntries /\ pc[t] = "leaf_link" /\ frame'[t] = frame[t]
        /\ \A n \in Nodes : nodes'[n].num_keys = nodes[n].num_keys
    BY <1>3, LeafLinkLinks
  <2>2. SameLeaves
    BY <2>1, KeptLeaves
  <2>3. Halved(t)'
    <3>1. \A n \in Leaves : SameKeys(n) /\ nodes'[n].num_keys = nodes[n].num_keys
      BY <2>1, <2>2 DEF SameLeaves, SameEntries, Leaves
    <3> QED BY <2>1, <3>1, HalvedSame DEF KInv
  <2> QED BY <2>1, <2>2, <2>3
<1>4. CASE LeafCut(t)
  <2>1. Steady(t) /\ KeptEntries /\ pc'[t] = "into_parent"
    BY <1>4, LeafCutLinks
  <2> QED BY <2>1, KeptLeaves, NoHalves
<1>5. CASE NewRoot(t)
  <2>1. PICK left, right, new : NewRoots(t, left, right, new)
    BY <1>5, NewRootLinks
  <2>2. /\ Steady(t) /\ Leaves' = Leaves /\ pc'[t] = "put_return"
        /\ \A m \in Nodes : SameInner(m)
    BY <2>1, Zenon DEF NewRoots
  <2>3. \A m \in Leaves : SameInner(m)
    BY <2>2 DEF Leaves
  <2> QED BY <2>2, <2>3, InnerLeaves, NoHalves
<1>6. CASE NodeWrite(t)
  <2>1. PICK n, i, num : NodeGrows(t, n, i, num)
    BY <1>6, NodeWriteLinks
  <2>2. /\ Steady(t) /\ Leaves' = Leaves /\ pc'[t] = "node_count" /\ n \in Inner
        /\ \A m \in Nodes \ {n} : SameInner(m)
    BY <2>1, Zenon DEF NodeGrows
  <2>3. \A m \in Leaves : SameInner(m)
    BY <2>2 DEF Leaves, Inner
  <2> QED BY <2>2, <2>3, InnerLeaves, NoHalves
<1>7. CASE NodeEmpty(t)
  <2>1. Steady(t) /\ KeptEntries /\ pc'[t] = "node_split"
    BY <1>7, EmptyLinks
  <2> QED BY <2>1, KeptLeaves, NoHalves
<1>8. CASE NodeSplit(t)
  <2>1. PICK q, new, c, tp, i : NodeSplits(t, q, new, c, tp, i)
    BY <1>8, NodeSplitLinks
  <2>2. /\ Steady(t) /\ Leaves' = Leaves /\ pc'[t] = "into_parent" /\ q \in Inner
        /\ \A m \in Nodes \ {q} : SameInner(m)
    BY <2>1, Zenon DEF NodeSplits
  <2>3. \A m \in Leaves : SameInner(m)
    BY <2>2 DEF Leaves, Inner
  <2> QED BY <2>2, <2>3, InnerLeaves, NoHalves
<1> QED BY <1>1, <1>2, <1>3, <1>4, <1>5, <1>6, <1>7, <1>8, Zenon DEF Rearranges

\* The entries that were there, and the new one.
InsertedInto(g, f, num, v) ==
    /\ \A j \in 0 .. num : g[j] = v \/ \E m \in 0 .. num - 1 : g[j] = f[m]
    /\ \E j \in 0 .. num : g[j] = v
    /\ \A m \in 0 .. num - 1 : \E j \in 0 .. num : g[j] = f[m]
    /\ \A j \in Slots : g[j] = v \/ \E m \in Slots : g[j] = f[m]

LEMMA InsertedFrom ==
    ASSUME NEW num \in Slots, NEW i \in 0 .. num, NEW f, NEW g, NEW v, Inserted(g, f, i, num, v)
    PROVE  InsertedInto(g, f, num, v)
<1>1. /\ Order - 1 \in Nat /\ Slots = 0 .. Order - 1 /\ num \in Nat /\ num <= Order - 1
      /\ i \in Nat /\ i <= num
  BY OrderAssumption DEF Slots
<1>2. \A j \in Slots :
         g[j] = IF j > num \/ j < i THEN f[j] ELSE IF j = i THEN v ELSE f[j - 1]
  BY DEF Inserted
<1>3. ASSUME NEW j \in 0 .. num PROVE g[j] = v \/ \E m \in 0 .. num - 1 : g[j] = f[m]
  <2>1. j \in Slots /\ j \in Nat /\ j <= num
    BY ONLY <1>1
  <2>2. CASE j < i
    <3>1. j \in 0 .. num - 1
      BY ONLY <1>1, <2>1, <2>2
    <3> QED BY ONLY <1>2, <2>1, <2>2, <3>1
  <2>3. CASE j > i
    <3>1. j - 1 \in 0 .. num - 1
      BY ONLY <1>1, <2>1, <2>3
    <3>2. g[j] = f[j - 1]
      BY ONLY <1>1, <1>2, <2>1, <2>3
    <3> QED BY ONLY <3>1, <3>2
  <2> QED BY ONLY <1>1, <1>2, <2>1, <2>2, <2>3
<1>4. i \in 0 .. num /\ g[i] = v
  BY ONLY <1>1, <1>2
<1>5. ASSUME NEW m \in 0 .. num - 1 PROVE \E j \in 0 .. num : g[j] = f[m]
  <2>1. CASE m < i
    <3>1. m \in 0 .. num /\ g[m] = f[m]
      BY ONLY <1>1, <1>2, <2>1, m \in 0 .. num - 1
    <3> QED BY ONLY <3>1
  <2>2. CASE m >= i
    <3>1. m + 1 \in 0 .. num /\ g[m + 1] = f[m]
      BY ONLY <1>1, <1>2, <2>2, m \in 0 .. num - 1
    <3> QED BY ONLY <3>1
  <2>3. m < i \/ m >= i
    BY ONLY <1>1, m \in 0 .. num - 1
  <2> QED BY ONLY <2>1, <2>2, <2>3
<1>6. ASSUME NEW j \in Slots PROVE g[j] = v \/ \E m \in Slots : g[j] = f[m]
  <2>1. CASE j > num
    BY ONLY <1>2, <2>1, j \in Slots
  <2>2. CASE j <= num
    <3>1. j \in 0 .. num /\ \A m \in 0 .. num - 1 : m \in Slots
      BY ONLY <1>1, <2>2, j \in Slots
    <3> QED BY ONLY <1>3, <3>1
  <2> QED BY ONLY <1>1, <2>1, <2>2, j \in Slots
<1> QED BY ONLY <1>3, <1>4, <1>5, <1>6 DEF InsertedInto

\* A key of a client is no malloc'ed one, and its record is one.
LEMMA KeyIsKey ==
    ASSUME BInv, NEW t \in Threads, pc[t] # "idle"
    PROVE  Key(t) \in Keys /\ Key(t) \in Int /\ Key(t) # NULL
<1>1. call[t] \in CallType
  BY ThreadFacts DEF CallOK
<1>2. Key(t) \in Keys
  BY <1>1 DEF CallType, Key
<1>3. \A k \in Keys : k \in Int /\ k # NULL
  BY KeysAssumption DEF NULL
<1> QED BY <1>2, <1>3

\* A key that is written into a leaf is stored.
LEMMA LeafWriteStored ==
    ASSUME BInv, BInv', KInv, NEW t \in Threads, LeafWrite(t)
    PROVE  KInv' /\ Counted' = Counted \cup {Key(t)}
<1>1. PICK n, x, i, num : LeafWrites(t, n, x, i, num)
  BY LeafWriteSeen
<1>2. /\ n \in Leaves /\ num = nodes[n].num_keys /\ num \in 0 .. Order - 2 /\ x.num_keys = num
      /\ i \in 0 .. num /\ pc[t] = "at_leaf" /\ Changes(t, "leaf_count", n, x)
      /\ Inserted(x.keys, nodes[n].keys, i, num, Key(t))
      /\ Inserted(x.pointers, nodes[n].pointers, i, num, Key(t))
  BY <1>1, Zenon DEF LeafWrites
<1>3. Changed(t, "leaf_count", n, x)
  BY <1>2, ChangeSeen
<1>4. /\ Steady(t) /\ Leaves' = Leaves /\ nodes'[n] = x /\ pc'[t] = "leaf_count"
      /\ \A m \in Nodes \ {n} : SameInner(m)
      /\ Count(n) = Pending("at_leaf", frame[t], n, num)
      /\ Count(n)' = Pending("leaf_count", frame[t], n, num)
  BY <1>2, <1>3, Zenon DEF Changed
<1>5. Count(n) = num /\ Count(n)' = num + 1
  BY <1>4 DEF Pending
<1>6. num \in Slots /\ num \in Nat
  BY <1>2, OrderAssumption DEF Slots
<1>7. PICK key, f, g, p, s : /\ key = Key(t) /\ f = nodes[n].keys /\ g = x.keys
                             /\ p = nodes[n].pointers /\ s = x.pointers
  OBVIOUS
<1>8. InsertedInto(g, f, num, key) /\ InsertedInto(s, p, num, key)
  BY <1>2, <1>6, <1>7, InsertedFrom
<1>9. InLeaf(n) = {f[j] : j \in 0 .. num - 1} /\ InLeaf(n)' = {g[j] : j \in 0 .. num}
  <2>1. InLeaf(n) = {f[j] : j \in 0 .. num - 1}
    BY <1>5, <1>7 DEF InLeaf, KeysUpTo
  <2>2. InLeaf(n)' = {g[j] : j \in 0 .. (num + 1) - 1}
    BY <1>4, <1>5, <1>7 DEF InLeaf, KeysUpTo
  <2>3. (num + 1) - 1 = num
    BY <1>6
  <2> QED BY <2>1, <2>2, <2>3
<1>10. InLeaf(n)' = InLeaf(n) \cup {key}
  BY ONLY <1>8, <1>9 DEF InsertedInto
<1>11. \A m \in Leaves \ {n} : SameEntries(m) /\ InLeaf(m)' = InLeaf(m)
  <2>1. \A m \in Leaves \ {n} : SameInner(m)
    BY <1>4 DEF Leaves
  <2> QED BY <2>1, InLeafSame DEF SameInner, SameEntries, SameKeys
<1>12. Counted' = Counted \cup {key}
  BY <1>2, <1>4, <1>10, <1>11 DEF Counted
<1>13. Known(n)' /\ Recorded(n)'
  <2>1. \A j \in Slots : f[j] \in MallocKeys \cup Counted
    BY <1>2, <1>7 DEF KInv, Known
  <2>2. \A j \in Slots : g[j] \in MallocKeys \cup Counted'
    BY ONLY <1>8, <1>12, <2>1 DEF InsertedInto
  <2>3. \A j \in 0 .. num - 1 : p[j] # NULL
    BY <1>2, <1>5, <1>7 DEF KInv, Recorded
  <2>4. key # NULL
    BY <1>2, <1>7, KeyIsKey
  <2>5. \A j \in 0 .. num : s[j] # NULL
    BY ONLY <1>8, <2>3, <2>4 DEF InsertedInto
  <2>6. nodes'[n].keys = g /\ nodes'[n].pointers = s
    BY <1>4, <1>7
  <2>7. Known(n)'
    BY <2>2, <2>6 DEF Known
  <2>8. Recorded(n)'
    BY <1>5, <1>6, <2>5, <2>6 DEF Recorded
  <2> QED BY <2>7, <2>8
<1>14. \A m \in Leaves' : Known(m)' /\ Recorded(m)'
  BY <1>4, <1>11, <1>12, <1>13, KnownSame DEF KInv
<1>15. \A u \in Threads : Halved(u)'
  <2>1. Halved(t)'
    BY <1>4, NoHalves
  <2>2. \A u \in Threads \ {t} : Halved(u)'
    BY <1>4, OthersHalved DEF KInv
  <2> QED BY <2>1, <2>2
<1> QED BY <1>7, <1>12, <1>14, <1>15 DEF KInv

\* y is node with num entries from those that begin at position a of tk and tp.
HalfOf(y, node, num, tk, tp, a) ==
    /\ y.num_keys = node.num_keys
    /\ \A j \in Slots : y.keys[j] = IF j < num THEN tk[a + j] ELSE node.keys[j]
    /\ \A j \in 0 .. num - 1 : y.pointers[j] = tp[a + j]

LEMMA HalfEntries ==
    ASSUME NEW node \in NodeType, NEW tk, NEW tp,
           \A j \in 0 .. Order - 1 : tk[j] \in Int, \A j \in 0 .. Order - 1 : tp[j] \in Int,
           NEW a \in 0 .. Order, NEW c \in a .. Order, NEW num, num = c - a, num < Order,
           NEW y, y = Written(node, Slice(tk, a, c), Slice(tp, a, c))
    PROVE  HalfOf(y, node, num, tk, tp, a)
<1>1. PICK k, p : k = Slice(tk, a, c) /\ p = Slice(tp, a, c)
  OBVIOUS
<1>2. /\ DOMAIN Slice(tk, a, c) = 0 .. c - a - 1
      /\ \A j \in DOMAIN Slice(tk, a, c) : Slice(tk, a, c)[j] \in Int
      /\ Copied(Slice(tk, a, c), c - a, tk, a)
  BY SliceEntries
<1>3. /\ DOMAIN Slice(tp, a, c) = 0 .. c - a - 1
      /\ \A j \in DOMAIN Slice(tp, a, c) : Slice(tp, a, c)[j] \in Int
      /\ Copied(Slice(tp, a, c), c - a, tp, a)
  BY SliceEntries
<1>4. /\ DOMAIN k = 0 .. num - 1 /\ DOMAIN p = 0 .. num - 1
      /\ (\A j \in DOMAIN k : k[j] \in Int) /\ (\A j \in DOMAIN p : p[j] \in Int)
      /\ Copied(k, num, tk, a) /\ Copied(p, num, tp, a)
  BY <1>1, <1>2, <1>3
<1>5. y = Written(node, k, p)
  BY <1>1
<1>6. /\ y.num_keys = node.num_keys
      /\ \A j \in Slots : y.keys[j] = IF j \in DOMAIN k THEN k[j] ELSE node.keys[j]
      /\ \A j \in Slots :
            y.pointers[j] = IF j \in DOMAIN p THEN p[j] ELSE node.pointers[j]
  <2>1. (\A j \in DOMAIN k : k[j] \in Int) /\ \A j \in DOMAIN p : p[j] \in Int
    BY <1>4
  <2>2. node \in NodeType
    OBVIOUS
  <2> QED BY ONLY <2>1, <2>2, <1>5, WrittenFields, SMTT(60)
<1>7. Order \in Int /\ Order >= 3 /\ num \in Int
  BY OrderAssumption
<1>8. \A j \in 0 .. num - 1 : j \in Slots
  BY ONLY <1>7, num < Order DEF Slots
<1>9. \A j \in Slots : j \in 0 .. num - 1 <=> j < num
  BY ONLY <1>7 DEF Slots
<1>10. \A j \in 0 .. num - 1 : k[j] = tk[a + j] /\ p[j] = tp[a + j]
  BY <1>4 DEF Copied
<1>11. \A j \in Slots : y.keys[j] = IF j < num THEN tk[a + j] ELSE node.keys[j]
  BY ONLY <1>4, <1>6, <1>9, <1>10
<1>12. \A j \in 0 .. num - 1 : y.pointers[j] = tp[a + j]
  BY ONLY <1>4, <1>6, <1>8, <1>10
<1> QED BY <1>6, <1>11, <1>12 DEF HalfOf

\* What a split writes: y is the old leaf, and x the new one, whose other keys are what
\* malloc left there.
LeafHalves(x, y, tk, tp, i, c, node, key) ==
    /\ i \in Slots /\ c = cut(Order - 1)
    /\ Inserted(tk, node.keys, i, Order - 1, key)
    /\ Inserted(tp, node.pointers, i, Order - 1, key)
    /\ y.num_keys = node.num_keys
    /\ \A j \in Slots : y.keys[j] = IF j < c THEN tk[j] ELSE node.keys[j]
    /\ \A j \in 0 .. c - 1 : y.pointers[j] = tp[j]
    /\ \E u \in MallocKeys :
          \A j \in Slots : x.keys[j] = IF j < Order - c THEN tk[c + j] ELSE u
    /\ \A j \in 0 .. Order - c - 1 : x.pointers[j] = tp[c + j]

LEMMA SplicedInserted ==
    ASSUME NEW f, NEW i \in Slots, NEW v, NEW g, g = Spliced(f, i, Order - 1, v)
    PROVE  Inserted(g, f, i, Order - 1, v)
<1>1. Order - 1 \in Nat /\ Slots = 0 .. Order - 1
  BY OrderAssumption DEF Slots
<1> QED BY ONLY <1>1, i \in Slots, g = Spliced(f, i, Order - 1, v) DEF Spliced, Inserted

LEMMA LeafSplitHalves ==
    ASSUME BInv, NEW t \in Threads, LeafSplit(t), NEW q, q = frame[t].left
    PROVE  \E new, x, y, tk, tp, i, c :
              /\ nodes' = Append([nodes EXCEPT ![q] = y], x) /\ new = Len(nodes) + 1
              /\ y \in NodeType /\ y.is_leaf = nodes[q].is_leaf /\ x \in NodeType
              /\ LeafHalves(x, y, tk, tp, i, c, nodes[q], Key(t))
<1>1. PICK node, key, c : node = nodes[q] /\ key = Key(t) /\ c = cut(Order - 1)
  OBVIOUS
<1>2. PICK i : i = InsertionIndex(q, key)
  OBVIOUS
<1>3. PICK tk, tp :
        tk = Spliced(node.keys, i, Order - 1, key) /\ tp = Spliced(node.pointers, i, Order - 1, key)
  OBVIOUS
<1>4. PICK unwritten \in MallocKeys :
        /\ pc[t] = "leaf_split"
        /\ nodes' = Append(
              [nodes EXCEPT ![q] = Written(@, Slice(tk, 0, c), Slice(tp, 0, c))],
              Written([MakeNode(TRUE, unwritten) EXCEPT !.num_keys = Order - c],
                      Slice(tk, c, Order), Slice(tp, c, Order)))
  BY <1>1, <1>2, <1>3 DEF LeafSplit, At
<1>5. PICK base : base = [MakeNode(TRUE, unwritten) EXCEPT !.num_keys = Order - c]
  OBVIOUS
<1>6. PICK x, y : /\ y = Written(node, Slice(tk, 0, c), Slice(tp, 0, c))
                  /\ x = Written(base, Slice(tk, c, Order), Slice(tp, c, Order))
  OBVIOUS
<1>7. q \in Leaves /\ q \in Nodes
  BY <1>4, ThreadFacts DEF FrameOK, LeafLabels, Leaves
<1>8. /\ node \in NodeType /\ node.keys \in [Slots -> Int] /\ node.pointers \in [Slots -> Int]
      /\ key \in Int
  BY <1>1, <1>4, <1>7, NodeFields, KeyFacts DEF BInv
<1>9. i \in Slots /\ i \in 0 .. Order - 1 /\ Order - 1 \in Slots
  BY <1>2, InsertionIndexOK, OrderAssumption DEF Slots
<1>10. (\A j \in 0 .. Order - 1 : tk[j] \in Int) /\ \A j \in 0 .. Order - 1 : tp[j] \in Int
  <2>1. PICK f, g : f = node.keys /\ g = node.pointers
    OBVIOUS
  <2>2. /\ f \in [Slots -> Int] /\ tk = Spliced(f, i, Order - 1, key)
        /\ g \in [Slots -> Int] /\ tp = Spliced(g, i, Order - 1, key)
    BY <1>3, <1>8, <2>1
  <2>3. \A j \in 0 .. Order - 1 : tk[j] \in Int
    BY ONLY <1>8, <1>9, <2>2, SplicedEntries
  <2>4. \A j \in 0 .. Order - 1 : tp[j] \in Int
    BY ONLY <1>8, <1>9, <2>2, SplicedEntries
  <2> QED BY <2>3, <2>4
<1>11. /\ c \in 1 .. Order - 1 /\ c \in 0 .. Order /\ c < Order /\ c = c - 0
       /\ Order \in c .. Order /\ Order - c < Order /\ 0 \in 0 .. Order
       /\ Order - c \in 0 .. Order - 1
  <2>1. c \in 1 .. Order - 1
    BY <1>1, CutBounds
  <2> QED BY ONLY <2>1, OrderAssumption
<1>12. Half(y, node, c, tk, 0) /\ HalfOf(y, node, c, tk, tp, 0)
  <2>1. node \in NodeType
    BY <1>8
  <2> QED BY ONLY <1>6, <1>10, <1>11, <2>1, HalfWritten, HalfEntries
<1>13. /\ base \in NodeType /\ base.is_leaf = TRUE
       /\ base.keys = [j \in Slots |-> unwritten]
  <2>1. PICK made : made = MakeNode(TRUE, unwritten)
    OBVIOUS
  <2>2. unwritten \in Int
    BY KeysAssumption
  <2>3. made \in NodeType /\ made.is_leaf = TRUE /\ made.keys = [j \in Slots |-> unwritten]
    BY <2>1, <2>2, MakeLeafOK DEF MakeNode
  <2>4. base = [made EXCEPT !.num_keys = Order - c]
    BY <1>5, <2>1
  <2> QED BY ONLY <1>11, <2>3, <2>4, Renumbered DEF NodeType
<1>14. Half(x, base, Order - c, tk, c) /\ HalfOf(x, base, Order - c, tk, tp, c)
  <2>1. base \in NodeType
    BY <1>13
  <2> QED BY ONLY <1>6, <1>10, <1>11, <2>1, HalfWritten, HalfEntries
<1>15. /\ Inserted(tk, node.keys, i, Order - 1, key)
       /\ Inserted(tp, node.pointers, i, Order - 1, key)
  BY <1>3, <1>9, SplicedInserted
<1>16. /\ y.num_keys = node.num_keys
       /\ \A j \in Slots : y.keys[j] = IF j < c THEN tk[j] ELSE node.keys[j]
       /\ \A j \in 0 .. c - 1 : y.pointers[j] = tp[j]
  <2>1. /\ \A j \in Slots : 0 + j = j
        /\ \A j \in 0 .. c - 1 : 0 + j = j
    BY <1>11 DEF Slots
  <2> QED BY <1>12, <2>1 DEF HalfOf
<1>17. \A j \in Slots : x.keys[j] = IF j < Order - c THEN tk[c + j] ELSE unwritten
  BY <1>13, <1>14 DEF HalfOf
<1>18. LeafHalves(x, y, tk, tp, i, c, node, key)
  BY <1>1, <1>9, <1>14, <1>15, <1>16, <1>17 DEF LeafHalves, HalfOf
<1>19. y \in NodeType /\ y.is_leaf = node.is_leaf /\ x \in NodeType
  BY <1>12, <1>14 DEF Half
<1>20. nodes' = Append([nodes EXCEPT ![q] = y], x)
  BY <1>1, <1>4, <1>5, <1>6
<1> QED BY <1>1, <1>18, <1>19, <1>20

\* A key that is written while its leaf is split is stored.
LEMMA LeafSplitStored ==
    ASSUME BInv, BInv', OInv, KInv, NEW t \in Threads, LeafSplit(t)
    PROVE  KInv' /\ Counted' = Counted \cup {Key(t)}
<1>1. PICK q, new : LeafSplits(t, q, new)
  BY LeafSplitLinks
<1>2. PICK c : c = cut(Order - 1)
  OBVIOUS
<1>3. /\ Steady(t) /\ pc[t] = "leaf_split" /\ pc'[t] = "leaf_link"
      /\ frame'[t] = [frame[t] EXCEPT !.right = new]
      /\ q = frame[t].left /\ q \in Leaves /\ new \notin Nodes
      /\ Nodes' = Nodes \cup {new} /\ Leaves' = Leaves \cup {new}
      /\ \A m \in Nodes \ {q} : SameInner(m)
      /\ Count(q)' = c /\ Count(new)' = Order - c
  BY <1>1, <1>2, Zenon DEF LeafSplits
<1>4. PICK new2, x, y, tk, tp, i, c2 :
         /\ nodes' = Append([nodes EXCEPT ![q] = y], x) /\ new2 = Len(nodes) + 1
         /\ y \in NodeType /\ y.is_leaf = nodes[q].is_leaf /\ x \in NodeType
         /\ LeafHalves(x, y, tk, tp, i, c2, nodes[q], Key(t))
  BY <1>3, LeafSplitHalves
<1>5. PICK key, f, p : key = Key(t) /\ f = nodes[q].keys /\ p = nodes[q].pointers
  OBVIOUS
<1>6. /\ i \in Slots /\ c2 = c
      /\ Inserted(tk, f, i, Order - 1, key) /\ Inserted(tp, p, i, Order - 1, key)
      /\ y.num_keys = nodes[q].num_keys
      /\ \A j \in Slots : y.keys[j] = IF j < c THEN tk[j] ELSE f[j]
      /\ \A j \in 0 .. c - 1 : y.pointers[j] = tp[j]
      /\ \E u \in MallocKeys :
            \A j \in Slots : x.keys[j] = IF j < Order - c THEN tk[c + j] ELSE u
      /\ \A j \in 0 .. Order - c - 1 : x.pointers[j] = tp[c + j]
  BY <1>2, <1>4, <1>5 DEF LeafHalves
<1>7. q \in Nodes /\ new # q
  BY <1>3 DEF Leaves
<1>8. nodes'[q] = y /\ nodes'[new] = x
  <2>1. PICK half : half = [nodes EXCEPT ![q] = y]
    OBVIOUS
  <2>2. /\ half \in Seq(NodeType) /\ DOMAIN half = Nodes /\ half[q] = y
        /\ \A m \in Nodes \ {q} : half[m] = nodes[m]
    BY <1>4, <1>7, <2>1, UpdateOK, Zenon DEF BInv, NodesOK, Nodes
  <2>3. \A m \in Nodes : half[m].is_leaf = nodes[m].is_leaf
    BY <1>4, <2>2
  <2>4. nodes' = Append(half, x)
    BY <1>4, <2>1
  <2>5. /\ Len(nodes) + 1 \in Int \ Nodes /\ Nodes' = Nodes \cup {Len(nodes) + 1}
        /\ nodes'[Len(nodes) + 1] = x /\ \A m \in Nodes : nodes'[m] = half[m]
    BY <1>4, <2>2, <2>3, <2>4, Grown, Zenon DEF BInv
  <2>6. new = Len(nodes) + 1
    BY <1>3, <2>5
  <2> QED BY <1>7, <2>2, <2>5, <2>6
<1>9. /\ Order \in Int /\ Order >= 3
      /\ Order - 1 \in Nat /\ c \in 1 .. Order - 1 /\ Slots = 0 .. Order - 1
      /\ Order - 1 \in Slots /\ i \in 0 .. Order - 1
  BY <1>2, <1>6, CutBounds, OrderAssumption DEF Slots
<1>10. InsertedInto(tk, f, Order - 1, key) /\ InsertedInto(tp, p, Order - 1, key)
  BY <1>6, <1>9, InsertedFrom
<1>11. Count(q) = Order - 1 /\ nodes[q].num_keys = Order - 1
  <2>1. PICK l, r, h : Ordered(l, r, h)
    BY DEF OInv
  <2>2. nodes[q].num_keys = Order - 1
    BY <1>3, <2>1, OrderFacts DEF WayOrder
  <2>3. Holds(t, q)
    BY <1>3 DEF Holds, HoldsLeft
  <2>4. Count(q) = nodes[q].num_keys
    BY <1>3, <1>7, <2>3, PlainCount DEF Special
  <2> QED BY <2>2, <2>4
<1>12. InLeaf(q) = {f[j] : j \in 0 .. Order - 1 - 1}
  BY <1>5, <1>11 DEF InLeaf, KeysUpTo
<1>13. InLeaf(q)' = {tk[j] : j \in 0 .. c - 1}
  <2>1. InLeaf(q)' = {y.keys[j] : j \in 0 .. c - 1}
    BY <1>3, <1>8 DEF InLeaf, KeysUpTo
  <2>2. \A j \in 0 .. c - 1 : y.keys[j] = tk[j]
    BY ONLY <1>6, <1>9
  <2> QED BY <2>1, <2>2
<1>14. InLeaf(new)' = {tk[c + j] : j \in 0 .. Order - c - 1}
  <2>1. InLeaf(new)' = {x.keys[j] : j \in 0 .. Order - c - 1}
    BY <1>3, <1>8 DEF InLeaf, KeysUpTo
  <2>2. \A j \in 0 .. Order - c - 1 : x.keys[j] = tk[c + j]
    BY ONLY <1>6, <1>9
  <2> QED BY <2>1, <2>2
<1>15. InLeaf(q)' \cup InLeaf(new)' = {tk[j] : j \in 0 .. Order - 1}
  <2>1. \A j \in 0 .. Order - 1 : j \in 0 .. c - 1 \/ (j - c \in 0 .. Order - c - 1 /\ c + (j - c) = j)
    BY ONLY <1>9
  <2>2. \A j \in 0 .. c - 1 : j \in 0 .. Order - 1
    BY ONLY <1>9
  <2>3. \A j \in 0 .. Order - c - 1 : c + j \in 0 .. Order - 1
    BY ONLY <1>9
  <2>4. ASSUME NEW j \in 0 .. Order - 1 PROVE tk[j] \in InLeaf(q)' \cup InLeaf(new)'
    BY <1>13, <1>14, <2>1
  <2> QED BY <1>13, <1>14, <2>2, <2>3, <2>4
<1>16. InLeaf(q)' \cup InLeaf(new)' = InLeaf(q) \cup {key}
  BY ONLY <1>10, <1>12, <1>15 DEF InsertedInto
<1>17. \A m \in Leaves \ {q} : SameEntries(m) /\ InLeaf(m)' = InLeaf(m)
  <2>1. \A m \in Leaves \ {q} : SameInner(m)
    BY <1>3 DEF Leaves
  <2> QED BY <2>1, InLeafSame DEF SameInner, SameEntries, SameKeys
<1>18. new \notin Leaves
  BY <1>3 DEF Leaves
<1>19. Counted' = Counted \cup {key}
  <2>1. Counted = InLeaf(q) \cup UNION {InLeaf(m) : m \in Leaves \ {q}}
    BY <1>3 DEF Counted
  <2>2. Counted' = InLeaf(q)' \cup InLeaf(new)' \cup UNION {InLeaf(m)' : m \in Leaves \ {q}}
    BY <1>3 DEF Counted
  <2>3. UNION {InLeaf(m)' : m \in Leaves \ {q}} = UNION {InLeaf(m) : m \in Leaves \ {q}}
    BY <1>17
  <2> QED BY <1>16, <2>1, <2>2, <2>3
<1>20. Known(q)' /\ Known(new)'
  <2>1. \A j \in Slots : f[j] \in MallocKeys \cup Counted
    BY <1>3, <1>5 DEF KInv, Known
  <2>2. \A j \in Slots : tk[j] \in MallocKeys \cup Counted'
    BY ONLY <1>10, <1>19, <2>1 DEF InsertedInto
  <2>3. \A j \in Slots : y.keys[j] \in MallocKeys \cup Counted'
    BY ONLY <1>6, <1>19, <2>1, <2>2
  <2>4. \A j \in Slots : j < Order - c => c + j \in Slots
    BY ONLY <1>9
  <2>5. \A j \in Slots : x.keys[j] \in MallocKeys \cup Counted'
    BY ONLY <1>6, <2>2, <2>4
  <2> QED BY <1>8, <2>3, <2>5 DEF Known
<1>21. Recorded(q)' /\ Recorded(new)'
  <2>1. \A j \in 0 .. Order - 1 - 1 : p[j] # NULL
    BY <1>3, <1>5, <1>11 DEF KInv, Recorded
  <2>2. key # NULL
    BY <1>3, <1>5, KeyIsKey
  <2>3. \A j \in 0 .. Order - 1 : tp[j] # NULL
    BY ONLY <1>10, <2>1, <2>2 DEF InsertedInto
  <2>4. \A j \in 0 .. c - 1 : y.pointers[j] # NULL
    BY ONLY <1>6, <1>9, <2>3
  <2>5. \A j \in 0 .. Order - c - 1 : x.pointers[j] # NULL
    BY ONLY <1>6, <1>9, <2>3
  <2>6. Recorded(q)'
    BY <1>3, <1>8, <2>4 DEF Recorded
  <2>7. Recorded(new)'
    BY <1>3, <1>8, <2>5 DEF Recorded
  <2> QED BY <2>6, <2>7
<1>22. \A m \in Leaves' : Known(m)' /\ Recorded(m)'
  BY <1>3, <1>17, <1>19, <1>20, <1>21, KnownSame DEF KInv
<1>23. Halved(t)'
  <2>1. frame'[t].left = q /\ frame'[t].right = new
    BY <1>3, ThreadFacts DEF FrameType
  <2>2. nodes'[q].num_keys = Order - 1
    BY <1>6, <1>8, <1>11
  <2>3. KeysUpTo(q, Order - 1)' \subseteq InLeaf(q)' \cup InLeaf(new)'
    <3>1. KeysUpTo(q, Order - 1)' = {y.keys[j] : j \in 0 .. Order - 1 - 1}
      BY <1>8 DEF KeysUpTo
    <3>2. \A j \in 0 .. Order - 1 - 1 : j \in 0 .. Order - 1 /\ j \in Slots
      BY ONLY <1>9
    <3>3. \A j \in 0 .. Order - 1 - 1 : f[j] \in InLeaf(q)' \cup InLeaf(new)'
      BY <1>12, <1>16
    <3>4. \A j \in 0 .. Order - 1 : tk[j] \in InLeaf(q)' \cup InLeaf(new)'
      BY <1>15
    <3> QED BY <1>6, <3>1, <3>2, <3>3, <3>4
  <2> QED BY <2>1, <2>2, <2>3 DEF Halved
<1>24. \A u \in Threads \ {t} : Halved(u)'
  BY <1>3, OthersHalved DEF KInv
<1> QED BY <1>5, <1>19, <1>22, <1>23, <1>24 DEF KInv

\* Without deletions a step stores no key, or it is one of the two that do.
LEMMA StepKinds ==
    ASSUME NoDeletes, FromMenu, BInv, Next
    PROVE  \E t \in Threads : Rearranges(t) \/ LeafWrite(t) \/ LeafSplit(t)
<1>1. PICK t \in Threads : Invoke(t) \/ Step(t)
  BY DEF Next
<1>2. CASE Invoke(t) \/ Descend(t) \/ PutReturn(t) \/ Find(t)
  BY <1>2 DEF Rearranges, Walks
<1>3. LockParent(t) => Rearranges(t)
  BY DEF Rearranges, Walks, Climbs, LockParent, At
<1>4. CASE InsertIntoLeaf(t)
  BY <1>3, <1>4, Zenon DEF InsertIntoLeaf, Rearranges, Walks
<1>5. CASE InsertIntoParent(t)
  BY <1>5, Zenon DEF InsertIntoParent, Rearranges, Climbs
<1>6. CASE Delete(t)
  <2>1. DeleteFind(t) \/ DeleteAbsent(t)
    BY <1>6, NothingRemoved DEF Delete
  <2> QED BY <2>1 DEF Rearranges, Walks
<1> QED BY <1>1, <1>2, <1>4, <1>5, <1>6, Zenon DEF Step

\* The first leaf has one key, and its other slots are what malloc left.
LEMMA FirstLeaf ==
    ASSUME Init
    PROVE  /\ Leaves = {1} /\ Count(1) = 1 /\ nodes[1].num_keys = 1
           /\ nodes[1].keys[0] = FirstKey /\ nodes[1].pointers[0] = FirstKey
           /\ \A i \in Slots : nodes[1].keys[i] \in MallocKeys \cup {FirstKey}
<1>1. PICK unwritten, x :
        /\ unwritten \in MallocKeys /\ nodes = <<x>>
        /\ x = [MakeNode(TRUE, unwritten) EXCEPT
                   !.num_keys = 1, !.keys[0] = FirstKey, !.pointers[0] = FirstKey]
  BY DEF Init
<1>2. nodes[1] = x
  BY <1>1
<1>3. PICK made, k, p : /\ made = MakeNode(TRUE, unwritten)
                        /\ k = [made.keys EXCEPT ![0] = FirstKey]
                        /\ p = [made.pointers EXCEPT ![0] = FirstKey]
  OBVIOUS
<1>4. x = [made EXCEPT !.num_keys = 1, !.keys = k, !.pointers = p]
  BY <1>1, <1>3, Zenon
<1>5. unwritten \in Int
  BY <1>1, KeysAssumption
<1>6. /\ made \in NodeType /\ made.keys = [i \in Slots |-> unwritten]
      /\ made.pointers = [i \in Slots |-> NULL]
  BY <1>3, <1>5, MakeLeafOK DEF MakeNode
<1>7. x.num_keys = 1 /\ x.keys = k /\ x.pointers = p
  BY ONLY <1>4, <1>6 DEF NodeType
<1>8. 0 \in Slots
  BY OrderAssumption DEF Slots
<1>9. /\ k[0] = FirstKey /\ p[0] = FirstKey
      /\ \A i \in Slots : k[i] = unwritten \/ k[i] = FirstKey
  BY ONLY <1>3, <1>6, <1>8
<1>10. Leaves = {1}
  BY OneLeaf DEF Leaves
<1>11. Count(1) = 1
  BY <1>2, <1>7 DEF Init, Count, Free
<1> QED BY <1>1, <1>2, <1>7, <1>9, <1>10, <1>11

LEMMA KInvInit == Init => KInv /\ Counted = {FirstKey}
<1> SUFFICES ASSUME Init PROVE KInv /\ Counted = {FirstKey}
  OBVIOUS
<1>1. /\ Leaves = {1} /\ Count(1) = 1 /\ nodes[1].keys[0] = FirstKey
      /\ nodes[1].pointers[0] = FirstKey
      /\ \A i \in Slots : nodes[1].keys[i] \in MallocKeys \cup {FirstKey}
  BY FirstLeaf
<1>2. \A i \in 0 .. 1 - 1 : i = 0
  OBVIOUS
<1>3. InLeaf(1) = {FirstKey}
  BY <1>1, <1>2 DEF InLeaf, KeysUpTo
<1>4. Counted = {FirstKey}
  BY <1>1, <1>3 DEF Counted
<1>5. FirstKey # NULL
  BY KeysAssumption DEF NULL
<1>6. Known(1)
  BY <1>1, <1>4 DEF Known
<1>7. Recorded(1)
  BY <1>1, <1>2, <1>5 DEF Recorded
<1>8. \A t \in Threads : Halved(t)
  BY DEF Init, Halved
<1> QED BY <1>1, <1>4, <1>6, <1>7, <1>8 DEF KInv

LEMMA KInvStutter ==
    ASSUME KInv, UNCHANGED vars
    PROVE  KInv' /\ Counted' = Counted
<1>1. UNCHANGED <<nodes, lock, pc, frame>>
  BY DEF vars
<1>2. Leaves' = Leaves
  BY <1>1 DEF Leaves, Nodes
<1>3. \A n : Count(n)' = Count(n)
  BY <1>1 DEF Count, Free
<1>4. \A n : SameEntries(n)
  BY <1>1, <1>3 DEF SameEntries, SameKeys
<1>5. Counted' = Counted
  BY <1>2, <1>4, CountedSame DEF SameLeaves
<1>6. \A n \in Leaves' : Known(n)' /\ Recorded(n)'
  BY <1>2, <1>4, <1>5, KnownSame DEF KInv
<1>7. \A n : InLeaf(n)' = InLeaf(n) /\ \A num : KeysUpTo(n, num)' = KeysUpTo(n, num)
  BY <1>4, InLeafSame DEF SameEntries
<1>8. ASSUME NEW t \in Threads PROVE Halved(t)'
  <2>1. Halved(t)
    BY DEF KInv
  <2> QED BY <1>1, <1>7, <2>1 DEF Halved
<1> QED BY <1>5, <1>6, <1>8 DEF KInv

LEMMA KInvNext == NoDeletes /\ FromMenu /\ BInv /\ OInv /\ KInv /\ [Next]_vars => KInv'
<1> SUFFICES ASSUME NoDeletes, FromMenu, BInv, OInv, KInv, [Next]_vars PROVE KInv'
  OBVIOUS
<1>1. BInv'
  BY NextOK
<1>2. CASE UNCHANGED vars
  BY <1>2, KInvStutter
<1>3. CASE Next
  <2>1. PICK t \in Threads : Rearranges(t) \/ LeafWrite(t) \/ LeafSplit(t)
    BY <1>3, StepKinds
  <2>2. CASE Rearranges(t)
    BY <1>1, <2>2, RearrangesLeaves, SameStored
  <2>3. CASE LeafWrite(t)
    BY <1>1, <2>3, LeafWriteStored
  <2>4. CASE LeafSplit(t)
    BY <1>1, <2>4, LeafSplitStored
  <2> QED BY <2>1, <2>2, <2>3, <2>4
<1> QED BY <1>2, <1>3

-------------------------------------------------------------------------------
(* What a search relies on, when nobody else calls the tree *)

\* A search for k that is at q is not past it.
ReadsFrom(q, k) ==
    \A l, r, h : Ghosts(l, r, h) /\ NodeOrder(l, r, h) =>
        r[q] >= 0 /\ IF q \in Leaves THEN Above(r, q, k) ELSE l[q] <= k

LEMMA ReadsRoot ==
    ASSUME BInv, NEW k \in Int, BeforeKeys \in Int, BeforeKeys <= k
    PROVE  ReadsFrom(root, k)
<1> SUFFICES ASSUME NEW l, NEW r, NEW h, Ghosts(l, r, h), NodeOrder(l, r, h)
             PROVE  r[root] >= 0 /\ IF root \in Leaves THEN Above(r, root, k) ELSE l[root] <= k
  BY DEF ReadsFrom
<1>1. l[root] <= BeforeKeys /\ r[root] >= 0
  BY DEF NodeOrder
<1>2. l[root] \in Int
  BY NodeNumbers DEF BInv, NodesOK, Ghosts
<1>3. l[root] <= k
  BY <1>1, <1>2
<1>4. ASSUME root \in Leaves PROVE Above(r, root, k)
  <2>1. Above(r, root, l[root])
    BY <1>1, <1>4 DEF NodeOrder, LeavesOrder, Ascends
  <2> QED BY <1>2, <1>3, <2>1, AboveMore
<1> QED BY <1>1, <1>3, <1>4

LEMMA ReadsChild ==
    ASSUME BInv, NEW n \in Inner, NEW k \in Int, ReadsFrom(n, k)
    PROVE  ReadsFrom(Child(n, k), k)
<1>1. PICK c : c = Child(n, k)
  OBVIOUS
<1> SUFFICES ASSUME NEW l, NEW r, NEW h, Ghosts(l, r, h), NodeOrder(l, r, h)
             PROVE  r[c] >= 0 /\ IF c \in Leaves THEN Above(r, c, k) ELSE l[c] <= k
  BY <1>1 DEF ReadsFrom
<1>2. l[n] <= k
  BY DEF ReadsFrom, Inner
<1>3. Routes(l, r, h, n)
  BY DEF NodeOrder
<1>4. c \in Nodes /\ r[c] >= 0 /\ l[c] <= k
  BY <1>1, <1>2, <1>3, ChildRoute
<1>5. l[c] \in Int
  BY <1>4, NodeNumbers DEF BInv, Ghosts
<1>6. ASSUME c \in Leaves PROVE Above(r, c, k)
  <2>1. Above(r, c, l[c])
    BY <1>4, <1>6 DEF NodeOrder, LeavesOrder, Ascends
  <2> QED BY <1>4, <1>5, <2>1, AboveMore
<1> QED BY <1>4, <1>6

LEMMA ReadsNext ==
    ASSUME BInv, NEW n \in Leaves, lock[n] = NoThread, NEW k \in Int, ReadsFrom(n, k),
           GoesRight(n, k)
    PROVE  ReadsFrom(NextLeaf(n), k)
<1>1. PICK q : q = NextLeaf(n)
  OBVIOUS
<1> SUFFICES ASSUME NEW l, NEW r, NEW h, Ghosts(l, r, h), NodeOrder(l, r, h)
             PROVE  r[q] >= 0 /\ IF q \in Leaves THEN Above(r, q, k) ELSE l[q] <= k
  BY <1>1 DEF ReadsFrom
<1>2. r[n] >= 0 /\ Above(r, n, k)
  BY DEF ReadsFrom
<1>3. LeavesOrder(l, r, h)
  BY DEF NodeOrder
<1>4. Count(n) = nodes[n].num_keys /\ ~Splitting(n)
  BY HeldByNone
<1> QED BY <1>1, <1>2, <1>3, <1>4, GoesOn

\* What a search does not find in the leaf where it ends is in no leaf.
LEMMA ReadsMiss ==
    ASSUME BInv, OInv, NEW n \in Leaves, \A m \in Nodes : lock[m] = NoThread,
           NEW k \in Int, ReadsFrom(n, k), ~GoesRight(n, k),
           k \notin KeysUpTo(n, nodes[n].num_keys)
    PROVE  k \notin Counted
<1>1. PICK l, r, h : Ordered(l, r, h)
  BY DEF OInv
<1>2. /\ Ghosts(l, r, h) /\ NodeOrder(l, r, h) /\ LeavesOrder(l, r, h)
      /\ r[n] >= 0 /\ Above(r, n, k)
  BY <1>1 DEF Ordered, NodeOrder, ReadsFrom
<1>3. \A m \in Leaves : Count(m) = nodes[m].num_keys /\ ~Unlinked(m)
  BY HeldByNone DEF Leaves
<1> SUFFICES ASSUME NEW m \in Leaves, k \in InLeaf(m) PROVE FALSE
  BY DEF Counted
<1>4. m # n
  BY <1>3 DEF InLeaf
<1>5. k \in Contents(m)
  BY DEF Contents, InLeaf
<1>6. /\ m \in Nodes /\ r[m] \in Int /\ r[n] \in Int
      /\ Chained(r, h, m) /\ Ascends(l, r, m)
      /\ (r[m] = r[n] /\ r[n] >= 0 => m = n)
  BY <1>1, LeafFacts
<1>7. r[m] >= 0
  BY <1>3, <1>6 DEF Chained
<1>8. CASE r[m] > r[n]
  BY <1>2, <1>5, <1>8 DEF Above, Below
<1>9. CASE r[m] < r[n]
  <2>1. Above(r, m, k)
    BY <1>5, <1>6, <1>7 DEF Ascends
  <2>2. k < k
    BY <1>2, <1>3, <1>7, <1>9, <2>1, StopsBefore
  <2> QED BY <2>2
<1> QED BY <1>2, <1>4, <1>6, <1>8, <1>9

\* A step that touches neither nodes nor locks, when no lock is held.
LEMMA SameTree ==
    ASSUME UNCHANGED <<nodes, lock, root>>, \A n \in Nodes : lock[n] = NoThread,
           NEW l, NEW r, NEW h
    PROVE  /\ NodeOrder(l, r, h)' <=> NodeOrder(l, r, h)
           /\ \A q, v : Above(r, q, v)' <=> Above(r, q, v)
<1>1. UNCHANGED <<Nodes, Leaves, Inner>>
  BY DEF Inner, Leaves, Nodes
<1>2. \A n \in Nodes : lock[n] = NoThread /\ lock'[n] = NoThread
  OBVIOUS
<1>3. \A n \in Nodes : /\ Count(n)' = Count(n) /\ NextLeaf(n)' = NextLeaf(n)
                       /\ ~Splitting(n) /\ ~Splitting(n)'
                       /\ ~Unlinked(n) /\ ~Unlinked(n)'
                       /\ ~IsRight(n) /\ ~IsRight(n)'
  BY <1>2 DEF Free, Count, NextLeaf, Splitting, Unlinked, IsRight
<1>4. \A n \in Nodes : Contents(n)' = Contents(n)
  BY <1>3 DEF Contents, KeysUpTo
<1>5. \A q, v : Above(r, q, v)' <=> Above(r, q, v)
  <2> TAKE q, v
  <2> QED BY <1>1, <1>4, AboveKept DEF Leaves
<1>6. \A n \in Leaves : /\ Chained(r, h, n)' <=> Chained(r, h, n)
                        /\ Sorted(n)' <=> Sorted(n)
                        /\ Ascends(l, r, n)' <=> Ascends(l, r, n)
  <2> TAKE n \in Leaves
  <2>1. n \in Nodes
    BY DEF Leaves
  <2>2. Chained(r, h, n)' <=> Chained(r, h, n)
    BY <1>3, <2>1 DEF Chained
  <2>3. Sorted(n)' <=> Sorted(n)
    BY <1>3, <2>1 DEF Sorted
  <2>4. Ascends(l, r, n)' <=> Ascends(l, r, n)
    BY <1>4, <1>5, <2>1 DEF Ascends
  <2> QED BY <2>2, <2>3, <2>4
<1>7. LeavesOrder(l, r, h)' <=> LeavesOrder(l, r, h)
  BY <1>1, <1>6 DEF LeavesOrder
<1>8. \A n \in Inner : Routes(l, r, h, n)' <=> Routes(l, r, h, n)
  BY <1>1, <1>3 DEF Routes, Routed, Inner
<1>9. \A n \in Nodes : Leftmost(l, n)' <=> Leftmost(l, n)
  BY <1>3 DEF Leftmost
<1> QED BY <1>1, <1>5, <1>7, <1>8, <1>9 DEF NodeOrder

LEMMA ReadsSame ==
    ASSUME UNCHANGED <<nodes, lock, root>>, \A n \in Nodes : lock[n] = NoThread,
           NEW q, NEW k, ReadsFrom(q, k)
    PROVE  ReadsFrom(q, k)'
<1> SUFFICES ASSUME NEW l, NEW r, NEW h, Ghosts(l, r, h), NodeOrder(l, r, h)'
             PROVE  r[q] >= 0 /\ IF q \in Leaves' THEN Above(r, q, k)' ELSE l[q] <= k
  BY DEF ReadsFrom, Ghosts
<1>1. /\ NodeOrder(l, r, h)' <=> NodeOrder(l, r, h)
      /\ \A v : Above(r, q, v)' <=> Above(r, q, v)
  BY SameTree
<1>2. Leaves' = Leaves
  BY DEF Leaves, Nodes
<1> QED BY <1>1, <1>2 DEF ReadsFrom

\* What a search of db_get relies on where it is.
Reading(t) ==
    /\ \A q, k : pc[t] = "descend" /\ call[t].type = OP_READ /\ q = frame[t].left /\ k = Key(t) =>
          ~frame[t].hit /\ ReadsFrom(q, k)
    /\ \A q, i : pc[t] = "find_read" /\ call[t].type = OP_READ
                    /\ q = frame[t].left /\ i = frame[t].index =>
          q \in Leaves /\ i \in 0 .. nodes[q].num_keys - 1 /\ nodes[q].keys[i] = Key(t)

RInv == \A t \in Threads : Reading(t)

LEMMA ReaderAlone ==
    ASSUME OneThread, BInv, NEW t \in Threads,
           pc[t] \in {"idle", "descend"} \/ (pc[t] = "find_read" /\ call[t].type = OP_READ)
    PROVE  \A n \in Nodes : lock[n] = NoThread
<1> SUFFICES ASSUME NEW n \in Nodes, lock[n] = t PROVE FALSE
  BY LockType DEF OneThread
<1>1. Holds(t, n)
  BY ThreadFacts DEF LockOK
<1>2. ~Deleting(t)
  BY MenuAssumption DEF Deleting, DeleteLabels
<1> QED BY <1>1, <1>2 DEF Holds, HoldsLeft, HoldsRight, HoldsParent

\* Other steps go elsewhere.
LEMMA OtherLabels ==
    ASSUME BInv, NEW t \in Threads, Step(t), ~Descend(t), ~FindWalk(t), ~FindScan(t)
    PROVE  pc'[t] \notin {"descend", "find_read"}
<1>1. ASSUME NEW label, NEW f, Goto(t, label, f), label \notin {"descend", "find_read"}
      PROVE  pc'[t] \notin {"descend", "find_read"}
  BY <1>1 DEF Goto, BInv
<1>2. CASE InsertIntoLeaf(t)
  <2>1. CASE LockLeaf(t) \/ WalkRight(t) \/ Present(t)
    BY <1>1, <2>1 DEF LockLeaf, WalkRight, Present
  <2>2. CASE LeafWrite(t) \/ LeafCount(t) \/ LeafLink(t)
    BY <1>1, <2>2 DEF LeafWrite, LeafCount, LeafLink
  <2>3. CASE LeafFull(t)
    <3>1. \E f : Goto(t, "leaf_split", f) \/ Goto(t, "leaf_lock_parent", f)
      BY <2>3, Zenon DEF LeafFull
    <3> QED BY <1>1, <3>1
  <2>4. CASE LockParent(t)
    <3>1. \E f : Goto(t, "leaf_split", f) \/ Goto(t, "node_empty", f)
      BY <2>4, Zenon DEF LockParent
    <3> QED BY <1>1, <3>1
  <2>5. CASE LeafSplit(t)
    <3>1. \E f : Goto(t, "leaf_link", f)
      BY <2>5, Zenon DEF LeafSplit
    <3> QED BY <1>1, <3>1
  <2>6. CASE LeafCut(t)
    <3>1. \E f : Goto(t, "into_parent", f)
      BY <2>6, Zenon DEF LeafCut
    <3> QED BY <1>1, <3>1
  <2> QED BY <1>2, <2>1, <2>2, <2>3, <2>4, <2>5, <2>6, Zenon DEF InsertIntoLeaf
<1>3. CASE InsertIntoParent(t)
  <2>1. CASE NewRoot(t)
    <3>1. \E f : Goto(t, "put_return", f)
      BY <2>1, Zenon DEF NewRoot
    <3> QED BY <1>1, <3>1
  <2>2. CASE FollowParent(t) \/ FollowLock(t)
    BY <1>1, <2>2 DEF FollowParent, FollowLock
  <2>3. CASE NodeWrite(t) \/ NodeCount(t)
    <3>1. \E f : Goto(t, "node_count", f) \/ Goto(t, "put_return", f)
      BY <2>3, Zenon DEF NodeWrite, NodeCount
    <3> QED BY <1>1, <3>1
  <2>4. CASE NodeFull(t)
    <3>1. \E f : Goto(t, "node_empty", f) \/ Goto(t, "node_lock_parent", f)
      BY <2>4, Zenon DEF NodeFull
    <3> QED BY <1>1, <3>1
  <2>5. CASE NodeEmpty(t) \/ NodeSplit(t)
    <3>1. \E f : Goto(t, "node_split", f) \/ Goto(t, "into_parent", f)
      BY <2>5, Zenon DEF NodeEmpty, NodeSplit
    <3> QED BY <1>1, <3>1
  <2> QED BY <1>3, <2>1, <2>2, <2>3, <2>4, <2>5, Zenon DEF InsertIntoParent
<1>4. CASE PutReturn(t) \/ GetReturn(t)
  BY <1>1, <1>4 DEF PutReturn, GetReturn, Return
<1>5. CASE FindRead(t)
  BY <1>1, <1>5 DEF FindRead, Found
<1>6. CASE Delete(t)
  BY <1>1, <1>6 DEF Delete, DeleteFind, DeleteAbsent, RemoveEntry, RemoveCount
<1> QED BY <1>2, <1>3, <1>4, <1>5, <1>6, Zenon DEF Step, Find

LEMMA InvokeReading ==
    ASSUME BInv, BInv', OneThread, NEW t \in Threads, Invoke(t)
    PROVE  Reading(t)'
<1>1. PICK had \in BOOLEAN :
        /\ pc[t] = "idle"
        /\ Goto(t, "descend", [NoFrame EXCEPT !.root = root, !.left = root, !.had = had])
        /\ UNCHANGED <<nodes, lock, root>>
  BY DEF Invoke, At, Settled
<1>2. pc'[t] = "descend" /\ frame'[t].left = root /\ ~frame'[t].hit
  BY <1>1 DEF Goto, BInv, NoFrame
<1>3. PICK k : k = Key(t)'
  OBVIOUS
<1>4. k \in Int /\ BeforeKeys \in Int /\ BeforeKeys <= k
  <2>1. call'[t] \in CallType \cup {NoCall} /\ call'[t] # NoCall
    <3>1. CallOK(t)'
      BY DEF BInv, ThreadOK
    <3> QED BY <1>2, <3>1, MenuAssumption DEF CallOK
  <2>2. k \in Keys
    BY <1>3, <2>1 DEF Key, CallType
  <2> QED BY <2>2, KeysAssumption, BeforeKeysAssumption
<1>5. ReadsFrom(root, k)
  BY <1>4, ReadsRoot
<1>6. ReadsFrom(root, k)'
  <2>1. PICK q : q = root
    OBVIOUS
  <2>2. ReadsFrom(q, k)'
    BY <1>1, <1>5, <2>1, ReaderAlone, ReadsSame
  <2> QED BY <1>1, <2>1, <2>2
<1> QED BY <1>1, <1>2, <1>3, <1>6 DEF Reading

LEMMA DescendReading ==
    ASSUME BInv, BInv', OneThread, NEW t \in Threads, Reading(t), Descend(t)
    PROVE  Reading(t)'
<1>1. PICK n, k, c : n = frame[t].left /\ k = Key(t) /\ c = Child(n, k)
  OBVIOUS
<1>2. /\ pc[t] \in {"descend", "find_again"} /\ ~nodes[n].is_leaf
      /\ Goto(t, pc[t], [frame[t] EXCEPT !.left = c]) /\ UNCHANGED <<nodes, lock, root, call>>
  BY <1>1 DEF Descend
<1>3. /\ pc'[t] = pc[t] /\ frame'[t].left = c /\ frame'[t].hit = frame[t].hit
      /\ Key(t)' = k /\ call'[t] = call[t]
  BY <1>1, <1>2, ThreadFacts DEF Goto, BInv, FrameType, Key
<1>4. ASSUME pc[t] = "descend", call[t].type = OP_READ
      PROVE  ~frame[t].hit /\ ReadsFrom(c, k)'
  <2>1. n \in Inner /\ k \in Int
    BY <1>1, <1>2, <1>4, ThreadFacts, KeyFacts DEF FrameOK, Inner, Leaves
  <2>2. ~frame[t].hit /\ ReadsFrom(n, k)
    BY <1>1, <1>4 DEF Reading
  <2>3. ReadsFrom(c, k)
    BY <1>1, <2>1, <2>2, ReadsChild
  <2> QED BY <1>2, <1>4, <2>2, <2>3, ReaderAlone, ReadsSame
<1> QED BY <1>2, <1>3, <1>4 DEF Reading

LEMMA FindWalkReading ==
    ASSUME BInv, BInv', OneThread, NEW t \in Threads, Reading(t), FindWalk(t)
    PROVE  Reading(t)'
<1>1. PICK n, k, c : n = frame[t].left /\ k = Key(t) /\ c = NextLeaf(n)
  OBVIOUS
<1>2. /\ Finding(t) /\ nodes[n].is_leaf /\ GoesRight(n, k)
      /\ Goto(t, pc[t], [frame[t] EXCEPT !.left = c]) /\ UNCHANGED <<nodes, lock, root, call>>
  BY <1>1 DEF FindWalk
<1>3. /\ pc'[t] = pc[t] /\ frame'[t].left = c /\ frame'[t].hit = frame[t].hit
      /\ Key(t)' = k /\ call'[t] = call[t]
  BY <1>1, <1>2, ThreadFacts DEF Goto, BInv, FrameType, Key
<1>4. pc[t] # "find_read"
  BY <1>2 DEF Finding, At
<1>5. ASSUME pc[t] = "descend", call[t].type = OP_READ
      PROVE  ~frame[t].hit /\ ReadsFrom(c, k)'
  <2>1. n \in Leaves /\ n \in Nodes /\ k \in Int
    BY <1>1, <1>2, <1>5, ThreadFacts, KeyFacts DEF FrameOK, Leaves
  <2>2. ~frame[t].hit /\ ReadsFrom(n, k)
    BY <1>1, <1>5 DEF Reading
  <2>3. \A m \in Nodes : lock[m] = NoThread
    BY <1>5, ReaderAlone
  <2>4. ReadsFrom(c, k)
    BY <1>1, <1>2, <2>1, <2>2, <2>3, ReadsNext
  <2> QED BY <1>2, <2>2, <2>3, <2>4, ReadsSame
<1> QED BY <1>3, <1>4, <1>5 DEF Reading

\* Where a search compares the keys of its last leaf.
Scans(t, n, num, i) ==
    /\ n = frame[t].left /\ n \in Leaves /\ num = nodes[n].num_keys /\ num \in Nat
    /\ Finding(t) /\ ~GoesRight(n, Key(t)) /\ i \in 0 .. num
    /\ Goto(t, IF i = num THEN Found(t) ELSE "find_read", [frame[t] EXCEPT !.index = i])
    /\ UNCHANGED <<nodes, lock, root, call>>
    /\ i = num => Key(t) \notin KeysUpTo(n, num)
    /\ i # num => nodes[n].keys[i] = Key(t)

LEMMA ScanSeen ==
    ASSUME BInv, NEW t \in Threads, FindScan(t)
    PROVE  \E n, num, i : Scans(t, n, num, i)
<1>1. PICK n, num, k : n = frame[t].left /\ num = nodes[n].num_keys /\ k = Key(t)
  OBVIOUS
<1>2. PICK S : S = {j \in 0 .. num : j = num \/ nodes[n].keys[j] = k}
  OBVIOUS
<1>3. PICK i : i = Min(S)
  OBVIOUS
<1>4. /\ Finding(t) /\ nodes[n].is_leaf /\ ~GoesRight(n, k)
      /\ Goto(t, IF i = num THEN Found(t) ELSE "find_read", [frame[t] EXCEPT !.index = i])
      /\ UNCHANGED <<nodes, lock, root, call>>
  BY <1>1, <1>2, <1>3 DEF FindScan
<1>5. n \in Nodes /\ n \in Leaves
  BY <1>1, <1>4, ThreadFacts DEF Finding, At, FrameOK, Leaves
<1>6. num \in Nat
  BY <1>1, <1>5, NodeFields, OrderAssumption DEF BInv
<1>7. S \in SUBSET Nat /\ num \in S
  BY <1>2, <1>6
<1>8. i \in S /\ \A j \in S : i <= j
  BY <1>3, <1>7, MinLeast
<1>9. i \in 0 .. num /\ (i # num => nodes[n].keys[i] = k)
  BY <1>2, <1>8
<1>10. ASSUME i = num, k \in KeysUpTo(n, num) PROVE FALSE
  <2>1. PICK j \in 0 .. num - 1 : nodes[n].keys[j] = k
    BY <1>10 DEF KeysUpTo
  <2>2. j \in S
    BY <1>2, <1>6, <2>1
  <2> QED BY <1>6, <1>8, <1>10, <2>2
<1> QED BY <1>1, <1>4, <1>5, <1>6, <1>9, <1>10 DEF Scans

LEMMA FindScanReading ==
    ASSUME BInv, BInv', OneThread, NEW t \in Threads, Reading(t), FindScan(t)
    PROVE  Reading(t)'
<1>1. PICK n, num, i : Scans(t, n, num, i)
  BY ScanSeen
<1>2. /\ n = frame[t].left /\ n \in Leaves /\ num = nodes[n].num_keys /\ num \in Nat
      /\ i \in 0 .. num
      /\ Goto(t, IF i = num THEN Found(t) ELSE "find_read", [frame[t] EXCEPT !.index = i])
      /\ UNCHANGED <<nodes, lock, root, call>>
      /\ i # num => nodes[n].keys[i] = Key(t)
  BY <1>1 DEF Scans
<1>3. /\ pc'[t] = IF i = num THEN Found(t) ELSE "find_read"
      /\ frame'[t].left = n /\ frame'[t].index = i
      /\ Key(t)' = Key(t)
  BY <1>2, ThreadFacts DEF Goto, BInv, FrameType, Key
<1>4. pc'[t] # "descend" /\ (pc'[t] = "find_read" => i # num)
  BY <1>3 DEF Found
<1>5. i # num => i \in 0 .. num - 1
  BY <1>2
<1>6. Leaves' = Leaves
  BY <1>2 DEF Leaves, Nodes
<1> QED BY <1>2, <1>3, <1>4, <1>5, <1>6 DEF Reading

\* Nobody searches.
NoReads == \A t \in Threads : \A c \in Menu[t] : c.type # OP_READ

LEMMA NobodyReads ==
    ASSUME NoReads, FromMenu, BInv
    PROVE  RInv
<1> SUFFICES ASSUME NEW t \in Threads, pc[t] \in {"descend", "find_read"}, call[t].type = OP_READ
             PROVE  FALSE
  BY DEF RInv, Reading
<1>1. call[t] # NoCall
  BY ThreadFacts, MenuAssumption DEF CallOK
<1> QED BY <1>1 DEF NoReads, FromMenu

LEMMA NobodyReadsNext ==
    ASSUME NoReads
    PROVE  (FromMenu /\ BInv => RInv)'
<1>1. FromMenu /\ BInv => RInv
  BY NobodyReads
<1> QED BY <1>1, PTL

LEMMA RInvInit == Init => RInv
BY DEF Init, RInv, Reading

LEMMA RInvNext ==
    (OneThread \/ NoReads) /\ FromMenu /\ BInv /\ RInv /\ [Next]_vars => RInv'
<1> SUFFICES ASSUME OneThread \/ NoReads, FromMenu, BInv, RInv, [Next]_vars PROVE RInv'
  OBVIOUS
<1>1. BInv' /\ FromMenu'
  BY NextOK, FromMenuNext
<1>2. CASE NoReads
  BY <1>1, <1>2, NobodyReadsNext
<1>3. ASSUME OneThread, NEW t \in Threads, Invoke(t) \/ Step(t) PROVE RInv'
  <2>1. Reading(t)'
    <3>1. CASE Invoke(t)
      BY <1>1, <1>3, <3>1, InvokeReading
    <3>2. CASE Descend(t)
      BY <1>1, <1>3, <3>2, DescendReading DEF RInv
    <3>3. CASE FindWalk(t)
      BY <1>1, <1>3, <3>3, FindWalkReading DEF RInv
    <3>4. CASE FindScan(t)
      BY <1>1, <1>3, <3>4, FindScanReading DEF RInv
    <3>5. CASE Step(t) /\ ~Descend(t) /\ ~FindWalk(t) /\ ~FindScan(t)
      <4>1. pc'[t] \notin {"descend", "find_read"}
        BY <3>5, OtherLabels
      <4> QED BY <4>1 DEF Reading
    <3> QED BY <1>3, <3>1, <3>2, <3>3, <3>4, <3>5
  <2>2. Threads = {t}
    BY <1>3 DEF OneThread
  <2> QED BY <2>1, <2>2 DEF RInv
<1>4. CASE OneThread /\ UNCHANGED vars
  <2>1. PICK t : Threads = {t}
    BY <1>4 DEF OneThread
  <2>2. UNCHANGED <<nodes, lock, root, pc, call, frame>>
    BY <1>4 DEF vars
  <2>3. Leaves' = Leaves /\ Key(t)' = Key(t)
    BY <2>2 DEF Leaves, Nodes, Key
  <2>4. Reading(t)
    BY <2>1 DEF RInv
  <2>5. ASSUME NEW q, NEW k, pc[t] = "descend", ReadsFrom(q, k) PROVE ReadsFrom(q, k)'
    BY <1>4, <2>1, <2>2, <2>5, ReaderAlone, ReadsSame
  <2>6. Reading(t)'
    BY <2>2, <2>3, <2>4, <2>5 DEF Reading
  <2> QED BY <2>1, <2>6 DEF RInv
<1> QED BY <1>2, <1>3, <1>4 DEF Next

-------------------------------------------------------------------------------
(* The tree is a key-value store *)

\* The labels of a call that is not decided.
Undecided ==
    {"idle", "descend", "at_leaf", "leaf_lock_parent", "leaf_split", "find_read"}

LEMMA ResultIs ==
    ASSUME NEW t
    PROVE  /\ pc[t] \in Undecided => ResultOf(t) = 0
           /\ pc[t] = "get_return" => ResultOf(t) = IF frame[t].hit THEN 2 ELSE 1
           /\ pc[t] \notin Undecided \cup {"get_return"} => ResultOf(t) = 2
           /\ pc'[t] \in Undecided => ResultOf(t)' = 0
           /\ pc'[t] = "get_return" => ResultOf(t)' = IF frame'[t].hit THEN 2 ELSE 1
           /\ pc'[t] \notin Undecided \cup {"get_return"} => ResultOf(t)' = 2
BY DEF ResultOf, Undecided

Results == [t \in Threads |-> ResultOf(t)]

\* A step gives a result to its own thread only.
LEMMA OwnResult ==
    ASSUME NEW t \in Threads, Alone(t), NEW v, ResultOf(t)' = v
    PROVE  Results' = [Results EXCEPT ![t] = v]
<1>1. \A u \in Threads \ {t} : ResultOf(u)' = ResultOf(u)
  BY DEF Alone, ResultOf
<1>2. \A u \in Threads : Results'[u] = [Results EXCEPT ![t] = v][u]
  BY <1>1 DEF Results
<1> QED BY <1>2 DEF Results

LEMMA SameResult ==
    ASSUME NEW t \in Threads, Alone(t), ResultOf(t)' = ResultOf(t)
    PROVE  Results' = Results
<1>1. \A u \in Threads : ResultOf(u)' = ResultOf(u)
  BY DEF Alone, ResultOf
<1> QED BY <1>1 DEF Results

LEMMA GotoLabel ==
    ASSUME BInv, NEW t \in Threads
    PROVE  \A label, f : Goto(t, label, f) => pc'[t] = label
BY DEF Goto, BInv

\* Steps of a call before it is decided, and after.
Unsettling(t) ==
    \/ Descend(t) \/ LockLeaf(t) \/ WalkRight(t) \/ LeafFull(t) \/ LockParent(t) \/ FindWalk(t)
    \/ FollowParent(t) \/ FollowLock(t) \/ NodeFull(t) \/ LeafCount(t) \/ NodeCount(t)
    \/ LeafLink(t) \/ LeafCut(t) \/ NewRoot(t) \/ NodeWrite(t) \/ NodeEmpty(t) \/ NodeSplit(t)

LEMMA UnsettlingResult ==
    ASSUME BInv, NEW t \in Threads, Unsettling(t)
    PROVE  ResultOf(t)' = ResultOf(t) /\ pc[t] # "get_return" /\ UNCHANGED call
<1>1. UNCHANGED call
  <2>1. CASE Descend(t) \/ LockLeaf(t) \/ WalkRight(t) \/ LeafFull(t) \/ LockParent(t) \/ FindWalk(t)
    BY <2>1 DEF Descend, LockLeaf, WalkRight, LeafFull, LockParent, FindWalk
  <2>2. CASE FollowParent(t) \/ FollowLock(t) \/ NodeFull(t) \/ LeafCount(t) \/ NodeCount(t)
    BY <2>2 DEF FollowParent, FollowLock, NodeFull, LeafCount, NodeCount
  <2>3. CASE LeafLink(t) \/ LeafCut(t) \/ NewRoot(t) \/ NodeWrite(t) \/ NodeEmpty(t) \/ NodeSplit(t)
    BY <2>3 DEF LeafLink, LeafCut, NewRoot, NodeWrite, NodeEmpty, NodeSplit
  <2> QED BY <2>1, <2>2, <2>3, Zenon DEF Unsettling
<1>2. CASE Descend(t) \/ FindWalk(t)
  <2>1. pc[t] \in {"descend", "find_again"} /\ \E f : Goto(t, pc[t], f)
    BY <1>2, Zenon DEF Descend, FindWalk, Finding, At
  <2> QED BY <1>1, <2>1, GotoLabel, ResultIs DEF Undecided
<1>3. CASE LockLeaf(t) \/ WalkRight(t)
  <2>1. pc[t] \in {"descend", "at_leaf"} /\ \E f : Goto(t, "at_leaf", f)
    BY <1>3 DEF LockLeaf, WalkRight, At
  <2> QED BY <1>1, <2>1, GotoLabel, ResultIs DEF Undecided
<1>4. CASE LeafFull(t)
  <2>1. pc[t] = "at_leaf" /\ \E f : Goto(t, "leaf_split", f) \/ Goto(t, "leaf_lock_parent", f)
    BY <1>4, Zenon DEF LeafFull, Arrived, ArrivedTo, At
  <2> QED BY <1>1, <2>1, GotoLabel, ResultIs DEF Undecided
<1>5. CASE LockParent(t)
  <2>1. \/ pc[t] = "leaf_lock_parent" /\ \E f : Goto(t, "leaf_split", f)
        \/ pc[t] = "node_lock_parent" /\ \E f : Goto(t, "node_empty", f)
    BY <1>5 DEF LockParent, At
  <2> QED BY <1>1, <2>1, GotoLabel, ResultIs DEF Undecided
<1>6. CASE FollowParent(t) \/ FollowLock(t)
  <2>1. /\ pc[t] \in {"into_parent", "follow_lock"}
        /\ \E f : Goto(t, "into_parent", f) \/ Goto(t, "follow_lock", f)
    BY <1>6 DEF FollowParent, FollowLock, At
  <2> QED BY <1>1, <2>1, GotoLabel, ResultIs DEF Undecided
<1>7. CASE NodeFull(t)
  <2>1. pc[t] = "into_parent" /\ \E f : Goto(t, "node_empty", f) \/ Goto(t, "node_lock_parent", f)
    BY <1>7, Zenon DEF NodeFull, ParentFound, At
  <2> QED BY <1>1, <2>1, GotoLabel, ResultIs DEF Undecided
<1>8. CASE LeafCount(t) \/ NodeCount(t)
  <2>1. pc[t] \in {"leaf_count", "node_count"} /\ \E f : Goto(t, "put_return", f)
    BY <1>8, Zenon DEF LeafCount, NodeCount, At
  <2> QED BY <1>1, <2>1, GotoLabel, ResultIs DEF Undecided
<1>9. CASE LeafLink(t) \/ LeafCut(t)
  <2>1. /\ pc[t] \in {"leaf_link", "leaf_cut"}
        /\ \E f : Goto(t, "leaf_cut", f) \/ Goto(t, "into_parent", f)
    BY <1>9, Zenon DEF LeafLink, LeafCut, At
  <2> QED BY <1>1, <2>1, GotoLabel, ResultIs DEF Undecided
<1>10. CASE NewRoot(t) \/ NodeWrite(t)
  <2>1. pc[t] = "into_parent" /\ \E f : Goto(t, "put_return", f) \/ Goto(t, "node_count", f)
    BY <1>10, Zenon DEF NewRoot, NodeWrite, ParentFound, At
  <2> QED BY <1>1, <2>1, GotoLabel, ResultIs DEF Undecided
<1>11. CASE NodeEmpty(t) \/ NodeSplit(t)
  <2>1. /\ pc[t] \in {"node_empty", "node_split"}
        /\ \E f : Goto(t, "node_split", f) \/ Goto(t, "into_parent", f)
    BY <1>11, Zenon DEF NodeEmpty, NodeSplit, At
  <2> QED BY <1>1, <2>1, GotoLabel, ResultIs DEF Undecided
<1> QED BY <1>1, <1>2, <1>3, <1>4, <1>5, <1>6, <1>7, <1>8, <1>9, <1>10, <1>11, Zenon DEF Unsettling

\* A step that decides a put.
LEMMA PutMaps ==
    ASSUME Stored = Counted, Stored' = Counted', FirstKey \notin Keys,
           NEW t \in Threads, Alone(t), UNCHANGED call,
           call[t] # NoCall, call[t].type = OP_ADD, call[t].key \in Keys,
           pc[t] \in Undecided, pc'[t] \notin Undecided \cup {"get_return"},
           Counted' = Counted \cup {Key(t)}
    PROVE  KV!Put(t)
<1>1. ResultOf(t) = 0 /\ ResultOf(t)' = 2
  BY ResultIs
<1>2. Results' = [Results EXCEPT ![t] = 2] /\ Results[t] = 0
  BY <1>1, OwnResult DEF Results
<1>3. Stored' \ {FirstKey} = (Stored \ {FirstKey}) \cup {call[t].key}
  BY DEF Key
<1>4. KV!Pending(t, OP_ADD)
  BY <1>2 DEF KV!Pending, Results
<1> QED BY <1>2, <1>3, <1>4 DEF KV!Put, Results

LEMMA GetMaps ==
    ASSUME Stored = Counted, Stored' = Counted', FirstKey \notin Keys,
           NEW t \in Threads, Alone(t), UNCHANGED call,
           call[t] # NoCall, call[t].type = OP_READ, call[t].key \in Keys,
           pc[t] \in Undecided, pc'[t] = "get_return",
           Counted' = Counted, frame'[t].hit <=> Key(t) \in Counted
    PROVE  KV!Get(t)
<1>1. ResultOf(t) = 0 /\ ResultOf(t)' = IF frame'[t].hit THEN 2 ELSE 1
  BY ResultIs
<1>2. ResultOf(t)' = IF call[t].key \in Stored \ {FirstKey} THEN 2 ELSE 1
  BY <1>1 DEF Key
<1>3. /\ Results' = [Results EXCEPT ![t] = IF call[t].key \in Stored \ {FirstKey} THEN 2 ELSE 1]
      /\ Results[t] = 0
  BY <1>1, <1>2, OwnResult DEF Results
<1>4. KV!Pending(t, OP_READ)
  BY <1>3 DEF KV!Pending, Results
<1>5. Stored' \ {FirstKey} = Stored \ {FirstKey}
  OBVIOUS
<1> QED BY <1>3, <1>4, <1>5 DEF KV!Get, Results

LEMMA InvokeMaps ==
    ASSUME BInv, Stored' = Stored, NoDeletes, NEW t \in Threads, Alone(t), Invoke(t)
    PROVE  KV!Invoke(t)
<1>1. PICK c \in Menu[t] : call' = [call EXCEPT ![t] = c]
  BY Zenon DEF Invoke
<1>2. pc[t] = "idle" /\ \E f : Goto(t, "descend", f)
  BY Zenon DEF Invoke, At
<1>3. call[t] = NoCall
  BY <1>2, ThreadFacts DEF CallOK
<1>4. c \in CallType /\ c.type # OP_DELETE
  BY <1>1, MenuAssumption DEF NoDeletes
<1>5. PICK type \in {OP_ADD, OP_READ}, key \in Keys : c = [type |-> type, key |-> key]
  BY <1>4 DEF CallType
<1>6. Results' = Results
  BY <1>2, GotoLabel, ResultIs, SameResult DEF Undecided
<1>7. \E type2 \in {OP_ADD, OP_READ}, key2 \in Keys :
         call' = [call EXCEPT ![t] = [type |-> type2, key |-> key2]]
  BY <1>1, <1>5
<1> QED BY <1>3, <1>6, <1>7 DEF KV!Invoke, Results

LEMMA ReturnMaps ==
    ASSUME BInv, Stored' = Stored, NEW t \in Threads, Alone(t), PutReturn(t) \/ GetReturn(t)
    PROVE  KV!Return(t)
<1>1. /\ pc[t] \in {"put_return", "get_return"} /\ Goto(t, "idle", NoFrame)
      /\ call' = [call EXCEPT ![t] = NoCall]
  BY DEF PutReturn, GetReturn, Return, At
<1>2. pc'[t] = "idle"
  BY <1>1 DEF Goto, BInv
<1>3. ResultOf(t) # 0 /\ ResultOf(t)' = 0
  BY <1>1, <1>2, ResultIs DEF Undecided
<1>4. Results' = [Results EXCEPT ![t] = 0] /\ Results[t] # 0
  BY <1>3, OwnResult DEF Results
<1> QED BY <1>1, <1>4 DEF KV!Return, Results

LEMMA UnsettlingMaps ==
    ASSUME BInv, Stored' = Stored, NEW t \in Threads, Alone(t), Unsettling(t)
    PROVE  UNCHANGED KV!vars
<1>1. Results' = Results /\ UNCHANGED call
  BY UnsettlingResult, SameResult
<1> QED BY <1>1 DEF KV!vars, Results

\* The slots that malloc left hold no key of a client.
FreshSlots == MallocKeys \cap Keys = {}

\* A key that seems to be there is there.
LEMMA PresentStored ==
    ASSUME BInv, KInv, FreshSlots, NEW t \in Threads, Present(t)
    PROVE  Key(t) \in Counted
<1>1. PICK n, i : n = frame[t].left /\ i = InsertionIndex(n, Key(t))
  OBVIOUS
<1>2. pc[t] = "at_leaf" /\ nodes[n].keys[i] = Key(t)
  BY <1>1 DEF Present, Arrived, ArrivedTo, At, IsPresent
<1>3. n \in Leaves /\ i \in Slots
  BY <1>1, <1>2, ThreadFacts, InsertionIndexOK DEF FrameOK, LeafLabels
<1>4. Key(t) \in Keys
  BY <1>2, KeyIsKey
<1>5. nodes[n].keys[i] \in MallocKeys \cup Counted
  BY <1>3 DEF KInv, Known
<1> QED BY <1>2, <1>4, <1>5 DEF FreshSlots

\* What a step of a put needs to be the put of a store.
LEMMA CallFacts ==
    ASSUME BInv, NEW t \in Threads, pc[t] # "idle"
    PROVE  call[t] # NoCall /\ call[t].key \in Keys /\ call[t].type \in {OP_ADD, OP_READ, OP_DELETE}
BY ThreadFacts, MenuAssumption DEF CallOK, CallType

LEMMA PutStepMaps ==
    ASSUME BInv, BInv', OInv, KInv, Stored = Counted, Stored' = Counted',
           FirstKey \notin Keys, FreshSlots,
           NEW t \in Threads, Present(t) \/ LeafWrite(t) \/ LeafSplit(t)
    PROVE  KV!Put(t)
<1>1. CASE Present(t)
  <2>1. /\ pc[t] = "at_leaf" /\ call[t].type = OP_ADD /\ UNCHANGED call
        /\ \E f : Goto(t, "put_return", f)
    BY <1>1 DEF Present, Arrived, ArrivedTo, At
  <2>2. Rearranges(t)
    BY <1>1 DEF Rearranges, Walks
  <2>3. Alone(t) /\ Counted' = Counted
    BY <2>2, RearrangesLeaves, SameStored DEF Steady
  <2>4. Counted' = Counted \cup {Key(t)}
    BY <1>1, <2>3, PresentStored
  <2>5. pc'[t] = "put_return"
    BY <2>1, GotoLabel
  <2> QED BY <2>1, <2>3, <2>4, <2>5, CallFacts, PutMaps DEF Undecided
<1>2. CASE LeafWrite(t)
  <2>1. pc[t] = "at_leaf" /\ call[t].type = OP_ADD /\ UNCHANGED call
    BY <1>2 DEF LeafWrite, Arrived, ArrivedTo, At
  <2>2. Alone(t) /\ pc'[t] = "leaf_count"
    BY <1>2, LeafWriteLinks DEF Steady
  <2>3. Counted' = Counted \cup {Key(t)}
    BY <1>2, LeafWriteStored
  <2> QED BY <2>1, <2>2, <2>3, CallFacts, PutMaps DEF Undecided
<1>3. CASE LeafSplit(t)
  <2>1. UNCHANGED call
    BY <1>3 DEF LeafSplit
  <2>2. PICK q, new : LeafSplits(t, q, new)
    BY <1>3, LeafSplitLinks
  <2>3. Alone(t) /\ pc[t] = "leaf_split" /\ pc'[t] = "leaf_link"
    BY <2>2 DEF LeafSplits, Steady
  <2>4. call[t].type = OP_ADD
    BY <2>3, ThreadFacts DEF CallOK, InsertLabels
  <2>5. Counted' = Counted \cup {Key(t)}
    BY <1>3, LeafSplitStored
  <2> QED BY <2>1, <2>3, <2>4, <2>5, CallFacts, PutMaps DEF Undecided
<1> QED BY <1>1, <1>2, <1>3

\* A search is db_get's, and nobody else calls the tree.
LEMMA SearchAlone ==
    ASSUME OneThread \/ NoReads, NoDeletes, FromMenu, BInv, NEW t \in Threads,
           Finding(t) \/ pc[t] = "find_read"
    PROVE  /\ call[t].type = OP_READ /\ pc[t] \in {"descend", "find_read"}
           /\ \A n \in Nodes : lock[n] = NoThread
<1>1. pc[t] \in {"find_again", "descend", "find_read"}
  BY DEF Finding, At
<1>2. call[t] \in Menu[t] /\ call[t] # NoCall
  BY <1>1, CallFacts DEF FromMenu
<1>3. call[t].type # OP_DELETE
  BY <1>2 DEF NoDeletes
<1>4. pc[t] \in {"descend", "find_read"}
  BY <1>1, <1>3, ThreadFacts DEF CallOK, DeleteLabels
<1>5. call[t].type = OP_READ
  <2>1. pc[t] = "descend" => call[t].type = OP_READ
    BY DEF Finding, At
  <2>2. pc[t] = "find_read" => call[t].type # OP_ADD
    BY ThreadFacts DEF CallOK
  <2> QED BY <1>1, <1>3, <1>4, <2>1, <2>2, CallFacts
<1>6. OneThread
  BY <1>2, <1>5 DEF NoReads
<1> QED BY <1>4, <1>5, <1>6, ReaderAlone

LEMMA FindScanMaps ==
    ASSUME OneThread \/ NoReads, NoDeletes, FirstKey \notin Keys, FromMenu, BInv, OInv, RInv,
           Stored = Counted, Stored' = Counted', Counted' = Counted,
           NEW t \in Threads, Alone(t), FindScan(t)
    PROVE  KV!Get(t) \/ UNCHANGED KV!vars
<1>1. PICK n, num, i : Scans(t, n, num, i)
  BY ScanSeen
<1>2. PICK k : k = Key(t)
  OBVIOUS
<1>3. /\ n = frame[t].left /\ n \in Leaves /\ num = nodes[n].num_keys
      /\ Finding(t) /\ ~GoesRight(n, k)
      /\ Goto(t, IF i = num THEN Found(t) ELSE "find_read", [frame[t] EXCEPT !.index = i])
      /\ UNCHANGED call
      /\ i = num => k \notin KeysUpTo(n, num)
  BY <1>1, <1>2 DEF Scans
<1>4. /\ call[t].type = OP_READ /\ pc[t] = "descend"
      /\ \A m \in Nodes : lock[m] = NoThread
  <2>1. pc[t] # "find_read"
    BY <1>3 DEF Finding, At
  <2> QED BY <1>3, <2>1, SearchAlone
<1>5. ~frame[t].hit /\ ReadsFrom(n, k)
  BY <1>2, <1>3, <1>4 DEF RInv, Reading
<1>6. /\ pc'[t] = IF i = num THEN "get_return" ELSE "find_read"
      /\ ~frame'[t].hit
  <2>1. frame'[t] = [frame[t] EXCEPT !.index = i]
    BY <1>3 DEF Goto, BInv
  <2>2. frame'[t].hit = frame[t].hit
    BY <2>1, ThreadFacts DEF FrameType
  <2> QED BY <1>3, <1>4, <1>5, <2>2, GotoLabel DEF Found
<1>7. CASE i = num
  <2>1. k \in Int
    BY <1>2, <1>4, KeyFacts
  <2>2. k \notin Counted
    BY <1>3, <1>4, <1>5, <1>7, <2>1, ReadsMiss
  <2> QED BY <1>2, <1>3, <1>4, <1>6, <1>7, <2>2, CallFacts, GetMaps DEF Undecided
<1>8. CASE i # num
  <2>1. ResultOf(t)' = ResultOf(t)
    BY <1>4, <1>6, <1>8, ResultIs DEF Undecided
  <2> QED BY <1>3, <2>1, SameResult DEF KV!vars, Results
<1> QED BY <1>7, <1>8

LEMMA FindReadMaps ==
    ASSUME OneThread \/ NoReads, NoDeletes, FirstKey \notin Keys, FromMenu, BInv, KInv, RInv,
           Stored = Counted, Stored' = Counted', Counted' = Counted,
           NEW t \in Threads, Alone(t), FindRead(t)
    PROVE  KV!Get(t)
<1>1. PICK n, i : n = frame[t].left /\ i = frame[t].index
  OBVIOUS
<1>2. /\ pc[t] = "find_read" /\ UNCHANGED call
      /\ Goto(t, Found(t), [frame[t] EXCEPT !.hit = nodes[n].pointers[i] # NULL])
  BY <1>1, Zenon DEF FindRead, At
<1>3. call[t].type = OP_READ /\ \A m \in Nodes : lock[m] = NoThread
  BY <1>2, SearchAlone
<1>4. n \in Leaves /\ i \in 0 .. nodes[n].num_keys - 1 /\ nodes[n].keys[i] = Key(t)
  BY <1>1, <1>2, <1>3 DEF RInv, Reading
<1>5. Count(n) = nodes[n].num_keys
  BY <1>3, <1>4, HeldByNone DEF Leaves
<1>6. nodes[n].pointers[i] # NULL /\ Key(t) \in Counted
  <2>1. Recorded(n)
    BY <1>4 DEF KInv
  <2>2. Key(t) \in InLeaf(n)
    BY <1>4, <1>5 DEF InLeaf, KeysUpTo
  <2> QED BY <1>4, <1>5, <2>1, <2>2 DEF Recorded, Counted
<1>7. pc'[t] = "get_return" /\ frame'[t].hit
  <2>1. frame'[t] = [frame[t] EXCEPT !.hit = TRUE]
    BY <1>2, <1>6 DEF Goto, BInv
  <2>2. frame'[t].hit
    BY <2>1, ThreadFacts DEF FrameType
  <2> QED BY <1>2, <1>3, <2>2, GotoLabel DEF Found
<1> QED BY <1>2, <1>3, <1>6, <1>7, CallFacts, GetMaps DEF Undecided

\* What is stored before and after a step.
LEMMA StoredStep ==
    ASSUME NoDeletes, FromMenu, BInv, BInv', OInv, KInv, [Next]_vars
    PROVE  Stored = Counted /\ Stored' = Counted'
<1>1. FromMenu' /\ KInv'
  BY FromMenuNext, KInvNext
<1> QED BY <1>1, StoredIs, StoredIsNext

\* The steps that store no key, by what they mean to the caller.
LEMMA Rearrangements ==
    ASSUME NoDeletes, FromMenu, BInv, NEW t \in Threads, Rearranges(t)
    PROVE  \/ Invoke(t) \/ PutReturn(t) \/ GetReturn(t) \/ Present(t) \/ FindScan(t)
           \/ FindRead(t) \/ Unsettling(t)
<1>1. ~DeleteFind(t) /\ ~DeleteAbsent(t)
  <2>1. pc[t] # "idle" => call[t].type # OP_DELETE
    BY CallFacts DEF FromMenu, NoDeletes
  <2>2. DeleteFind(t) => pc[t] # "idle" /\ call[t].type = OP_DELETE
    BY DEF DeleteFind, ArrivedTo, At
  <2>3. DeleteAbsent(t) => pc[t] = "delete"
    BY DEF DeleteAbsent, At
  <2>4. pc[t] = "delete" => call[t].type = OP_DELETE
    BY ThreadFacts DEF CallOK, DeleteLabels
  <2> QED BY <2>1, <2>2, <2>3, <2>4
<1>2. Find(t) => FindWalk(t) \/ FindScan(t) \/ FindRead(t) \/ GetReturn(t)
  BY Zenon DEF Find
<1>3. CASE Walks(t)
  BY <1>1, <1>2, <1>3, Zenon DEF Walks, Unsettling
<1>4. CASE Climbs(t)
  BY <1>4, Zenon DEF Climbs, Unsettling
<1> QED BY <1>3, <1>4, Zenon DEF Rearranges, Unsettling

\* A step that stores no key is a step of the store, or it decides nothing.
LEMMA RearrangesMaps ==
    ASSUME OneThread \/ NoReads, NoDeletes, FreshSlots, FirstKey \notin Keys,
           FromMenu, BInv, BInv', OInv, KInv, RInv,
           Stored = Counted, Stored' = Counted', NEW t \in Threads, Rearranges(t)
    PROVE  \/ KV!Invoke(t) \/ KV!Put(t) \/ KV!Get(t) \/ KV!Return(t)
           \/ UNCHANGED KV!vars
<1>1. Alone(t) /\ Counted' = Counted
  BY RearrangesLeaves, SameStored DEF Steady
<1>2. Stored' = Stored
  BY <1>1
<1>4. CASE Invoke(t)
  BY <1>1, <1>2, <1>4, InvokeMaps
<1>5. CASE PutReturn(t) \/ GetReturn(t)
  BY <1>1, <1>2, <1>5, ReturnMaps
<1>6. CASE Present(t)
  BY <1>6, PutStepMaps
<1>7. CASE FindScan(t)
  BY <1>1, <1>7, FindScanMaps
<1>8. CASE FindRead(t)
  BY <1>1, <1>8, FindReadMaps
<1>9. CASE Unsettling(t)
  BY <1>1, <1>2, <1>9, UnsettlingMaps
<1> QED BY <1>4, <1>5, <1>6, <1>7, <1>8, <1>9, Rearrangements, Zenon

LEMMA StoreStep ==
    ASSUME OneThread \/ NoReads, NoDeletes, FreshSlots, FirstKey \notin Keys
    PROVE  FromMenu /\ BInv /\ OInv /\ KInv /\ RInv /\ [Next]_vars => [KV!Next]_(KV!vars)
<1> SUFFICES ASSUME FromMenu, BInv, OInv, KInv, RInv, [Next]_vars
             PROVE  KV!Next \/ UNCHANGED KV!vars
  OBVIOUS
<1>1. BInv'
  BY NextOK
<1>2. Stored = Counted /\ Stored' = Counted'
  BY <1>1, StoredStep
<1>3. CASE UNCHANGED vars
  <2>1. Stored' = Stored
    BY <1>2, <1>3, KInvStutter
  <2>2. UNCHANGED <<pc, call, frame>>
    BY <1>3 DEF vars
  <2>3. \A t \in Threads : ResultOf(t)' = ResultOf(t)
    BY <2>2 DEF ResultOf
  <2> QED BY <2>1, <2>2, <2>3 DEF KV!vars
<1>4. CASE Next
  <2>1. PICK t \in Threads : Rearranges(t) \/ LeafWrite(t) \/ LeafSplit(t)
    BY <1>4, StepKinds
  <2>2. CASE Rearranges(t)
    BY <1>1, <1>2, <2>2, RearrangesMaps DEF KV!Next
  <2>3. CASE LeafWrite(t) \/ LeafSplit(t)
    BY <1>1, <1>2, <2>3, PutStepMaps DEF KV!Next
  <2> QED BY <2>1, <2>2, <2>3
<1> QED BY <1>3, <1>4

LEMMA StoreInit ==
    ASSUME NoDeletes
    PROVE  Init => KV!Init
<1> SUFFICES ASSUME Init PROVE KV!Init
  OBVIOUS
<1>1. /\ \A t \in Threads : pc[t] = "idle"
      /\ call = [t \in Threads |-> NoCall]
  BY DEF Init
<1>2. FromMenu
  BY <1>1 DEF FromMenu
<1>3. Stored = {FirstKey}
  BY <1>2, InitOK, KInvInit, StoredIs
<1>4. \A t \in Threads : ResultOf(t) = 0
  BY <1>1, ResultIs DEF Undecided
<1> QED BY <1>1, <1>3, <1>4 DEF KV!Init

\* db_put and db_get of the B+ tree, as long as nobody deletes and what malloc leaves in a
\* node is no key: called by one thread, as under gps.c, or by any number of threads that
\* only put, every call takes effect at one moment between its invocation and its return,
\* and the leaves hold, at every moment, what was put (and the key of init_struct).
THEOREM TreeLinearizable ==
    ASSUME OneThread \/ NoReads, NoDeletes, FreshSlots, FirstKey \notin Keys
    PROVE  Spec => ImplementsKVStore
<1>1. Init => FromMenu
  BY DEF Init, FromMenu
<1>2. Init => KInv
  BY KInvInit
<1>3. NoDeletes
  OBVIOUS
<1>4. OneThread \/ NoReads
  OBVIOUS
<1> QED BY <1>1, <1>2, <1>3, <1>4, StoreInit, StoreStep, KInvNext, RInvInit, RInvNext,
        FromMenuNext, TreeInvariance, OrderInvariance, PTL
        DEF Spec, ImplementsKVStore, KV!Spec

-------------------------------------------------------------------------------
(* No put is lost *)

\* A put that is decided has its key in a leaf.
Kept(t) ==
    pc[t] \notin Undecided \cup {"get_return"} /\ call[t].type = OP_ADD => Key(t) \in Counted

\* A step that stores no key lets no put be decided, unless it finds the key there.
LEMMA RearrangesKeeps ==
    ASSUME NoDeletes, FreshSlots, FromMenu, BInv, KInv, Counted' = Counted,
           NEW t \in Threads, Kept(t), Rearranges(t)
    PROVE  Kept(t)'
<1>1. CASE Present(t)
  <2>1. Key(t) \in Counted
    BY <1>1, PresentStored
  <2>2. Key(t)' = Key(t)
    BY <1>1 DEF Present, Key
  <2> QED BY <2>1, <2>2 DEF Kept
<1>2. CASE Unsettling(t)
  <2>1. ResultOf(t)' = ResultOf(t) /\ pc[t] # "get_return" /\ call'[t] = call[t]
    BY <1>2, UnsettlingResult
  <2>2. Key(t)' = Key(t)
    BY <2>1 DEF Key
  <2> QED BY <2>1, <2>2, ResultIs DEF Kept
<1>3. CASE Invoke(t) \/ PutReturn(t) \/ GetReturn(t)
  <2>1. \E f : Goto(t, "descend", f) \/ Goto(t, "idle", f)
    BY <1>3, Zenon DEF Invoke, PutReturn, GetReturn, Return
  <2>2. pc'[t] \in {"descend", "idle"}
    BY <2>1, GotoLabel
  <2> QED BY <2>2 DEF Kept, Undecided
<1>4. CASE FindScan(t) \/ FindRead(t)
  <2>1. (Finding(t) \/ pc[t] = "find_read") /\ UNCHANGED call
    BY <1>4, Zenon DEF FindScan, FindRead, At
  <2>2. Finding(t) => pc[t] = "find_again" \/ call[t].type = OP_READ
    BY DEF Finding, At
  <2>3. /\ pc[t] = "find_again" => call[t].type = OP_DELETE
        /\ pc[t] = "find_read" => call[t].type # OP_ADD
    BY ThreadFacts DEF CallOK, DeleteLabels
  <2>4. call[t].type # OP_ADD
    BY <2>1, <2>2, <2>3, MenuAssumption
  <2> QED BY <2>1, <2>4 DEF Kept
<1> QED BY <1>1, <1>2, <1>3, <1>4, Rearrangements, Zenon

LEMMA KeptNext ==
    ASSUME NoDeletes, FreshSlots
    PROVE  /\ FromMenu /\ BInv /\ OInv /\ KInv /\ (\A t \in Threads : Kept(t)) /\ [Next]_vars
           => Counted \subseteq Counted' /\ \A t \in Threads : Kept(t)'
<1> SUFFICES ASSUME FromMenu, BInv, OInv, KInv, \A t \in Threads : Kept(t), [Next]_vars
             PROVE  Counted \subseteq Counted' /\ \A t \in Threads : Kept(t)'
  OBVIOUS
<1>1. BInv'
  BY NextOK
<1>2. CASE UNCHANGED vars
  <2>1. Counted' = Counted /\ UNCHANGED <<pc, call>>
    BY <1>2, KInvStutter DEF vars
  <2> QED BY <2>1 DEF Kept, Key
<1>3. CASE Next
  <2>1. PICK t \in Threads : Rearranges(t) \/ LeafWrite(t) \/ LeafSplit(t)
    BY <1>3, StepKinds
  <2>2. CASE Rearranges(t)
    <3>1. Alone(t) /\ Counted' = Counted
      BY <1>1, <2>2, RearrangesLeaves, SameStored DEF Steady
    <3>2. Kept(t)'
      BY <2>2, <3>1, RearrangesKeeps
    <3>3. ASSUME NEW u \in Threads \ {t} PROVE Kept(u)'
      BY <3>1 DEF Alone, Kept, Key
    <3> QED BY <3>1, <3>2, <3>3
  <2>3. CASE LeafWrite(t) \/ LeafSplit(t)
    <3>1. Counted' = Counted \cup {Key(t)}
      BY <1>1, <2>3, LeafWriteStored, LeafSplitStored
    <3>2. Alone(t) /\ UNCHANGED call
      <4>1. CASE LeafWrite(t)
        BY <1>1, <4>1, LeafWriteLinks DEF Steady, LeafWrite
      <4>2. CASE LeafSplit(t)
        <5>1. PICK q, new : LeafSplits(t, q, new)
          BY <1>1, <4>2, LeafSplitLinks
        <5> QED BY <4>2, <5>1 DEF LeafSplits, Steady, LeafSplit
      <4> QED BY <2>3, <4>1, <4>2
    <3>3. \A u \in Threads : Key(u)' = Key(u)
      BY <3>2 DEF Key
    <3>4. ASSUME NEW u \in Threads \ {t} PROVE Kept(u)'
      BY <3>1, <3>2, <3>3 DEF Alone, Kept
    <3> QED BY <3>1, <3>3, <3>4 DEF Kept
  <2> QED BY <2>1, <2>2, <2>3
<1> QED BY <1>2, <1>3

\* As long as nobody deletes and what malloc leaves in a node is no key, a put that is about
\* to return has its key in a leaf, and no key leaves the leaves, whatever splits and shifts
\* other threads have under way (insert_into_leaf and what it calls).
THEOREM PutsAreKept ==
    ASSUME NoDeletes, FreshSlots
    PROVE  Spec => InsertionsKept
<1> DEFINE KeptInv == \A t \in Threads : Kept(t)
           Act == /\ \A t \in Threads :
                        At(t, "put_return") /\ call[t].type = OP_ADD /\ ~Deletable(Key(t)) =>
                            Key(t) \in Stored
                  /\ \A key \in Stored \ Stored' :
                        \E t \in Threads : call[t] = [type |-> OP_DELETE, key |-> key]
<1>1. NoDeletes
  OBVIOUS
<1>2. Init => KeptInv /\ FromMenu
  BY DEF Init, Kept, Undecided, FromMenu
<1>3. FromMenu /\ BInv /\ OInv /\ KInv /\ KeptInv /\ [Next]_vars => KeptInv' /\ [Act]_vars
  <2> SUFFICES ASSUME FromMenu, BInv, OInv, KInv, KeptInv, [Next]_vars
               PROVE  KeptInv' /\ Act
    OBVIOUS
  <2>1. Counted \subseteq Counted' /\ KeptInv'
    BY KeptNext
  <2>2. Stored = Counted /\ Stored' = Counted'
    BY NextOK, StoredStep
  <2>3. \A t \in Threads : At(t, "put_return") /\ call[t].type = OP_ADD => Key(t) \in Stored
    BY <2>2 DEF Kept, Undecided, At
  <2>4. Stored \ Stored' = {}
    BY <2>1, <2>2
  <2> QED BY <2>1, <2>3, <2>4
<1>4. Init => KInv
  BY KInvInit
<1>5. FromMenu /\ BInv /\ [Next]_vars => FromMenu'
  BY FromMenuNext
<1>6. NoDeletes /\ FromMenu /\ BInv /\ OInv /\ KInv /\ [Next]_vars => KInv'
  BY KInvNext
<1> QED BY <1>1, <1>2, <1>3, <1>4, <1>5, <1>6, TreeInvariance, OrderInvariance, PTL
        DEF Spec, InsertionsKept

===============================================================================
