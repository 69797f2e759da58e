------------------------------ MODULE BPlusTree ------------------------------
(***************************************************************************)
(* insert, find and delete of BPT/bpt.c: a B+ tree whose leaves are linked *)
(* to the right, with a lock per node.  An insertion locks its leaf, walks *)
(* right to the leaf that must hold the key, and splits nodes bottom up,   *)
(* holding a node while it waits for its parent; a search takes no lock; a *)
(* deletion locks the leaf like an insertion, searches, and takes the key  *)
(* out of the leaf, which is never merged.  Under gps.c one thread calls   *)
(* each tree, under baseline.c and the benchmark of bpt.c many call one    *)
(* and each of them writes the root back.                                  *)
(*                                                                         *)
(* An action is what a thread does between two accesses of shared memory   *)
(* that another thread can tell apart; the reads of one node by a descent  *)
(* are one step.  global_lock is held only inside single steps (NewRoot,   *)
(* the first insertion) and is left out.                                   *)
(***************************************************************************)
EXTENDS Integers, Sequences, FiniteSetsExt

CONSTANTS
    Threads,
    Keys,        \* the keys that clients use
    FirstKey,    \* the key that init_struct inserts: 0
    Order,       \* the global `order': children of a full node
    MallocKeys,  \* what a key slot of a leaf may hold before it is written
    BeforeKeys,  \* the word before the array of keys, keys[-1]
    Menu,        \* the calls that each thread may make
    OP_ADD, OP_READ, OP_DELETE, NoCall,
    NoThread     \* the holder of a lock that is free

NULL == -1

Slots == 0 .. Order - 1

CallType == [type : {OP_ADD, OP_READ, OP_DELETE}, key : Keys]

ASSUME OrderAssumption == Order \in Nat /\ Order >= 3

ASSUME KeysAssumption ==
    /\ Keys \subseteq Nat /\ FirstKey \in Nat
    /\ MallocKeys \subseteq Int /\ MallocKeys # {}
    /\ BeforeKeys \in Int

\* That word is a part of malloc's own, 0 with glibc, and no key is less than 0.
ASSUME BeforeKeysAssumption == \A k \in Keys \cup {FirstKey} : BeforeKeys <= k

ASSUME MenuAssumption ==
    /\ Menu \in [Threads -> SUBSET CallType]
    /\ OP_ADD # OP_READ /\ OP_DELETE \notin {OP_ADD, OP_READ}
    /\ NoCall \notin CallType /\ NoThread \notin Threads

VARIABLES
    nodes,  \* the nodes that were ever allocated; none is freed
    lock,   \* who holds the lock of each node
    root,   \* db_data->root
    pc,     \* where each thread is
    call,   \* the call each thread is in
    frame   \* its local variables

vars == <<nodes, lock, root, pc, call, frame>>

-------------------------------------------------------------------------------
(* Nodes.  A leaf's pointers are to the records of its keys, which are named *)
(* by the key, and in the last slot to the next leaf; an inner node's are to *)
(* its children.  Only Order - 1 slots of keys belong to the array: the last *)
(* one is the memory behind it, which the test for duplicates may read.      *)

MakeNode(is_leaf, unwritten) ==
    [is_leaf |-> is_leaf, num_keys |-> 0, keys |-> [i \in Slots |-> unwritten],
     pointers |-> [i \in Slots |-> NULL], parent |-> NULL]

\* f with x inserted at position i, up to position last.
Spliced(f, i, last, x) ==
    [j \in 0 .. last |-> IF j < i THEN f[j] ELSE IF j = i THEN x ELSE f[j - 1]]

\* f overwritten by g where g is defined.
Over(f, g) == [j \in DOMAIN f |-> IF j \in DOMAIN g THEN g[j] ELSE f[j]]

\* A node with these entries written over its own.
Written(node, keys, pointers) ==
    [node EXCEPT !.keys = Over(@, keys), !.pointers = Over(@, pointers)]

\* A leaf with num keys, and its pointers behind them cleared.
Cleared(leaf, num) ==
    [leaf EXCEPT
        !.num_keys = num,
        !.pointers = [i \in Slots |-> IF i \in num .. Order - 2 THEN NULL ELSE @[i]]]

\* The entries of f from position i up to, and not including, position j.
Slice(f, i, j) == [s \in 0 .. j - i - 1 |-> f[i + s]]

\* keys[num_keys - 1], also of a leaf that deletions have emptied.
LastKey(n) ==
    LET num == nodes[n].num_keys IN IF num = 0 THEN BeforeKeys ELSE nodes[n].keys[num - 1]

NextLeaf(n) == nodes[n].pointers[Order - 1]

\* The child where a search for key goes.
Child(n, key) ==
    LET num == nodes[n].num_keys
        i == Min({j \in 0 .. num : j = num \/ key < nodes[n].keys[j]})
    IN nodes[n].pointers[i]

\* Mutant of GoesRight: <= for <.
GoesRightOrEqual(n, key) == LastKey(n) <= key /\ NextLeaf(n) # NULL

\* A search or an insertion leaves the leaf for the next one.
GoesRight(n, key) == LastKey(n) < key /\ NextLeaf(n) # NULL

\* insertion_index of insert: the scan does not stop at num_keys.
InsertionIndex(n, key) ==
    Min({i \in Slots : i = Order - 1 \/ nodes[n].keys[i] >= key})

get_left_index(parent, left) ==
    LET num == nodes[parent].num_keys
    IN Min({i \in 0 .. num + 1 : i = num + 1 \/ nodes[parent].pointers[i] = left})

\* Mutant of cut: the smaller half stays on the left.
CutDown(length) == length \div 2

cut(length) == (length + 1) \div 2

-------------------------------------------------------------------------------
NoFrame ==
    [root |-> NULL, left |-> NULL, right |-> NULL, parent |-> NULL, next |-> NULL,
     key_leaf |-> NULL, key |-> NULL, index |-> 0, hit |-> FALSE, had |-> FALSE]

Key(t) == call[t].key

At(t, label) == pc[t] = label

Goto(t, label, locals) ==
    /\ pc' = [pc EXCEPT ![t] = label]
    /\ frame' = [frame EXCEPT ![t] = locals]

Free(n) == lock[n] = NoThread

Nodes == DOMAIN nodes
Leaves == {n \in Nodes : nodes[n].is_leaf}

\* The keys of a leaf, with the one that is written and will be counted next.
LeafKeys(n) ==
    LET uncounted == \E t \in Threads : At(t, "leaf_count") /\ frame[t].left = n
        num == nodes[n].num_keys + (IF uncounted THEN 1 ELSE 0)
    IN {nodes[n].keys[i] : i \in 0 .. num - 1}

Stored == UNION {LeafKeys(n) : n \in Leaves}

\* init_struct: a leaf with the key 0.
Init ==
    /\ \E unwritten \in MallocKeys :
        nodes = <<[MakeNode(TRUE, unwritten) EXCEPT
                      !.num_keys = 1, !.keys[0] = FirstKey, !.pointers[0] = FirstKey]>>
    /\ lock = <<NoThread>>
    /\ root = 1
    /\ pc = [t \in Threads |-> "idle"]
    /\ call = [t \in Threads |-> NoCall]
    /\ frame = [t \in Threads |-> NoFrame]

\* No thread is still inserting the key.
Settled(key) == key \in Stored /\ \A t \in Threads : call[t] # [type |-> OP_ADD, key |-> key]

\* db_put and db_get of baseline.c and do_bench read the root and pass it on.  Whether the key
\* had been inserted before is kept in `had', for the property NoFalseMiss only.
Invoke(t) ==
    /\ At(t, "idle")
    /\ \E c \in Menu[t] :
        /\ call' = [call EXCEPT ![t] = c]
        /\ Goto(t, "descend",
                [NoFrame EXCEPT !.root = root, !.left = root, !.had = Settled(c.key)])
    /\ UNCHANGED <<nodes, lock, root>>

Descend(t) ==
    LET n == frame[t].left IN
    /\ pc[t] \in {"descend", "find_again"}
    /\ ~nodes[n].is_leaf
    /\ Goto(t, pc[t], [frame[t] EXCEPT !.left = Child(n, Key(t))])
    /\ UNCHANGED <<nodes, lock, root, call>>

Return(t) ==
    /\ call' = [call EXCEPT ![t] = NoCall]
    /\ Goto(t, "idle", NoFrame)

-------------------------------------------------------------------------------
(* insert and delete: finding the leaf *)

\* Mutant of LockLeaf: somebody else's lock is ignored.
LockLeafAnyway(t) ==
    LET n == frame[t].left IN
    /\ At(t, "descend") /\ call[t].type # OP_READ
    /\ nodes[n].is_leaf
    /\ lock' = [lock EXCEPT ![n] = t]
    /\ Goto(t, "at_leaf", frame[t])
    /\ UNCHANGED <<nodes, root, call>>

LockLeaf(t) ==
    LET n == frame[t].left IN
    /\ At(t, "descend") /\ call[t].type # OP_READ
    /\ nodes[n].is_leaf
    /\ Free(n)
    /\ lock' = [lock EXCEPT ![n] = t]
    /\ Goto(t, "at_leaf", frame[t])
    /\ UNCHANGED <<nodes, root, call>>

\* The next leaf is locked before the lock of this one is given back.
WalkRight(t) ==
    LET n == frame[t].left
        next == NextLeaf(n) IN
    /\ At(t, "at_leaf")
    /\ GoesRight(n, Key(t))
    /\ Free(next)
    /\ lock' = [lock EXCEPT ![next] = t, ![n] = NoThread]
    /\ Goto(t, "at_leaf", [frame[t] EXCEPT !.left = next])
    /\ UNCHANGED <<nodes, root, call>>

\* The leaf seems to hold the key already.
IsPresent(t) ==
    LET n == frame[t].left IN nodes[n].keys[InsertionIndex(n, Key(t))] = Key(t)

ArrivedTo(t, type) ==
    At(t, "at_leaf") /\ call[t].type = type /\ ~GoesRight(frame[t].left, Key(t))

Arrived(t) == ArrivedTo(t, OP_ADD)

\* Mutant of Present: the early return forgets the lock.
PresentLocked(t) ==
    /\ Arrived(t)
    /\ IsPresent(t)
    /\ Goto(t, "put_return", frame[t])
    /\ UNCHANGED <<nodes, lock, root, call>>

Present(t) ==
    /\ Arrived(t)
    /\ IsPresent(t)
    /\ lock' = [lock EXCEPT ![frame[t].left] = NoThread]
    /\ Goto(t, "put_return", frame[t])
    /\ UNCHANGED <<nodes, root, call>>

\* insert_into_leaf: keys are shifted and the new one is written, ...
LeafWrite(t) ==
    LET n == frame[t].left
        num == nodes[n].num_keys
        i == Min({j \in 0 .. num : j = num \/ nodes[n].keys[j] >= Key(t)}) IN
    /\ Arrived(t)
    /\ ~IsPresent(t) /\ num < Order - 1
    /\ nodes' = [nodes EXCEPT ![n] =
          Written(@, Spliced(@.keys, i, num, Key(t)), Spliced(@.pointers, i, num, Key(t)))]
    /\ Goto(t, "leaf_count", frame[t])
    /\ UNCHANGED <<lock, root, call>>

\* ... and then they are counted.
LeafCount(t) ==
    LET n == frame[t].left IN
    /\ At(t, "leaf_count")
    /\ nodes' = [nodes EXCEPT ![n].num_keys = @ + 1]
    /\ lock' = [lock EXCEPT ![n] = NoThread]
    /\ Goto(t, "put_return", frame[t])
    /\ UNCHANGED <<root, call>>

-------------------------------------------------------------------------------
(* insert_into_leaf_after_splitting *)

\* leaf->parent is read before its lock is waited for.
LeafFull(t) ==
    LET parent == nodes[frame[t].left].parent IN
    /\ Arrived(t)
    /\ ~IsPresent(t) /\ nodes[frame[t].left].num_keys = Order - 1
    /\ Goto(t, IF parent = NULL THEN "leaf_split" ELSE "leaf_lock_parent",
            [frame[t] EXCEPT !.parent = parent])
    /\ UNCHANGED <<nodes, lock, root, call>>

LockParent(t) ==
    LET parent == frame[t].parent IN
    /\ pc[t] \in {"leaf_lock_parent", "node_lock_parent"}
    /\ Free(parent)
    /\ lock' = [lock EXCEPT ![parent] = t]
    /\ Goto(t, IF At(t, "leaf_lock_parent") THEN "leaf_split" ELSE "node_empty", frame[t])
    /\ UNCHANGED <<nodes, root, call>>

\* The lower half of the keys is written back to the leaf, whose num_keys stays
\* for now, and the upper half to a new leaf, which nobody can reach yet.
LeafSplit(t) ==
    LET n == frame[t].left
        i == InsertionIndex(n, Key(t))
        temp_keys == Spliced(nodes[n].keys, i, Order - 1, Key(t))
        temp_pointers == Spliced(nodes[n].pointers, i, Order - 1, Key(t))
        split == cut(Order - 1) IN
    /\ At(t, "leaf_split")
    /\ \E unwritten \in MallocKeys :
        LET new == MakeNode(TRUE, unwritten) IN
        nodes' = Append(
            [nodes EXCEPT ![n] =
                Written(@, Slice(temp_keys, 0, split), Slice(temp_pointers, 0, split))],
            Written([new EXCEPT !.num_keys = Order - split],
                Slice(temp_keys, split, Order), Slice(temp_pointers, split, Order)))
    /\ lock' = Append(lock, t)
    /\ Goto(t, "leaf_link", [frame[t] EXCEPT !.right = Len(nodes) + 1])
    /\ UNCHANGED <<root, call>>

\* Mutant of LeafLink: the new leaf is not linked to its successor.
LeafLinkLast(t) ==
    /\ At(t, "leaf_link")
    /\ nodes' = [nodes EXCEPT ![frame[t].left].pointers[Order - 1] = frame[t].right]
    /\ Goto(t, "leaf_cut", frame[t])
    /\ UNCHANGED <<lock, root, call>>

LeafLink(t) ==
    LET n == frame[t].left
        new == frame[t].right IN
    /\ At(t, "leaf_link")
    /\ nodes' = [nodes EXCEPT
          ![new].pointers[Order - 1] = NextLeaf(n),
          ![n].pointers[Order - 1] = new]
    /\ Goto(t, "leaf_cut", frame[t])
    /\ UNCHANGED <<lock, root, call>>

\* Mutant of LeafCut: the leaf keeps one key too few.
LeafCutShort(t) ==
    LET n == frame[t].left
        new == frame[t].right
        split == cut(Order - 1) IN
    /\ At(t, "leaf_cut")
    /\ nodes' = [nodes EXCEPT
          ![n] = Cleared(@, split - 1),
          ![new].parent = nodes[n].parent]
    /\ Goto(t, "into_parent", [frame[t] EXCEPT !.key = nodes[new].keys[0]])
    /\ UNCHANGED <<lock, root, call>>

\* The leaf is cut, and the new leaf's parent is what leaf->parent is now.
LeafCut(t) ==
    LET n == frame[t].left
        new == frame[t].right
        split == cut(Order - 1) IN
    /\ At(t, "leaf_cut")
    /\ nodes' = [nodes EXCEPT
          ![n] = Cleared(@, split),
          ![new].parent = nodes[n].parent]
    /\ Goto(t, "into_parent", [frame[t] EXCEPT !.key = nodes[new].keys[0]])
    /\ UNCHANGED <<lock, root, call>>

-------------------------------------------------------------------------------
(* insert_into_parent: a node `left' was split, and `right' must be added to *)
(* the node that is left's parent.  The thread holds left and right and, if  *)
(* left had a parent when it was split, that node.                           *)

\* insert_into_new_root
NewRoot(t) ==
    LET left == frame[t].left
        right == frame[t].right
        new == Len(nodes) + 1 IN
    /\ At(t, "into_parent")
    /\ frame[t].parent = NULL
    /\ nodes' = Append(
          [nodes EXCEPT ![left].parent = new, ![right].parent = new],
          [MakeNode(FALSE, NULL) EXCEPT
              !.num_keys = 1, !.keys[0] = frame[t].key,
              !.pointers[0] = left, !.pointers[1] = right])
    /\ lock' = Append([lock EXCEPT ![left] = NoThread, ![right] = NoThread], NoThread)
    /\ Goto(t, "put_return", [frame[t] EXCEPT !.root = new])
    /\ UNCHANGED <<root, call>>

\* left has moved to another parent since: its lock is waited for, ...
FollowParent(t) ==
    LET parent == nodes[frame[t].left].parent IN
    /\ At(t, "into_parent")
    /\ frame[t].parent \notin {NULL, parent}
    /\ Goto(t, "follow_lock", [frame[t] EXCEPT !.next = parent])
    /\ UNCHANGED <<nodes, lock, root, call>>

\* ... taken, and the former parent's given back.
FollowLock(t) ==
    LET next == frame[t].next IN
    /\ At(t, "follow_lock")
    /\ Free(next)
    /\ lock' = [lock EXCEPT ![next] = t, ![frame[t].parent] = NoThread]
    /\ Goto(t, "into_parent", [frame[t] EXCEPT !.parent = next])
    /\ UNCHANGED <<nodes, root, call>>

ParentFound(t) ==
    /\ At(t, "into_parent")
    /\ frame[t].parent # NULL
    /\ frame[t].parent = nodes[frame[t].left].parent

\* If the parent did not point to left, the code would write behind its arrays:
\* the model stops there, and LeftFound says that it does not come to that.
LeftInParent(t) ==
    LET n == frame[t].parent IN get_left_index(n, frame[t].left) <= nodes[n].num_keys

\* Mutant of NodeWrite: the new node is written to the left of the split one.
NodeWriteLeft(t) ==
    LET n == frame[t].parent
        num == nodes[n].num_keys
        left_index == get_left_index(n, frame[t].left) IN
    /\ ParentFound(t) /\ LeftInParent(t)
    /\ num < Order - 1
    /\ nodes' = [nodes EXCEPT ![n] =
          Written(@, Spliced(@.keys, left_index, num, frame[t].key),
                     Spliced(@.pointers, left_index, num + 1, frame[t].right))]
    /\ Goto(t, "node_count", frame[t])
    /\ UNCHANGED <<lock, root, call>>

\* insert_into_node: pointers and keys are shifted and the new ones written, ...
NodeWrite(t) ==
    LET n == frame[t].parent
        num == nodes[n].num_keys
        left_index == get_left_index(n, frame[t].left) IN
    /\ ParentFound(t) /\ LeftInParent(t)
    /\ num < Order - 1
    /\ nodes' = [nodes EXCEPT ![n] =
          Written(@, Spliced(@.keys, left_index, num, frame[t].key),
                     Spliced(@.pointers, left_index + 1, num + 1, frame[t].right))]
    /\ Goto(t, "node_count", frame[t])
    /\ UNCHANGED <<lock, root, call>>

\* ... and then they are counted.
NodeCount(t) ==
    LET n == frame[t].parent IN
    /\ At(t, "node_count")
    /\ nodes' = [nodes EXCEPT ![n].num_keys = @ + 1]
    /\ lock' = [lock EXCEPT ![n] = NoThread, ![frame[t].left] = NoThread,
                            ![frame[t].right] = NoThread]
    /\ Goto(t, "put_return", frame[t])
    /\ UNCHANGED <<root, call>>

-------------------------------------------------------------------------------
(* insert_into_node_after_splitting: the parent becomes the node to split *)

NodeFull(t) ==
    LET n == frame[t].parent
        parent == nodes[n].parent IN
    /\ ParentFound(t) /\ LeftInParent(t)
    /\ nodes[n].num_keys = Order - 1
    /\ lock' = [lock EXCEPT ![frame[t].left] = NoThread, ![frame[t].right] = NoThread]
    /\ Goto(t, IF parent = NULL THEN "node_empty" ELSE "node_lock_parent",
            [frame[t] EXCEPT !.left = n, !.parent = parent,
                             !.index = get_left_index(n, frame[t].left)])
    /\ UNCHANGED <<nodes, root, call>>

\* While num_keys is 0, every descent takes the first child.
NodeEmpty(t) ==
    /\ At(t, "node_empty")
    /\ nodes' = [nodes EXCEPT ![frame[t].left].num_keys = 0]
    /\ Goto(t, "node_split", frame[t])
    /\ UNCHANGED <<lock, root, call>>

\* Mutant of Moved: the loop stops at num_keys instead of after it.
MovedButLast(upper) == {upper[j] : j \in DOMAIN upper \ {Order - cut(Order)}}

\* The children that get the new node as their parent.
Moved(upper) == {upper[j] : j \in DOMAIN upper}

\* Both halves are written and the children in the upper one get the new node
\* as their parent; the key between the halves goes up.
NodeSplit(t) ==
    LET n == frame[t].left
        new == Len(nodes) + 1
        i == frame[t].index
        temp_keys == Spliced(nodes[n].keys, i, Order - 1, frame[t].key)
        temp_pointers == Spliced(nodes[n].pointers, i + 1, Order, frame[t].right)
        split == cut(Order)
        upper == Slice(temp_pointers, split, Order + 1) IN
    /\ At(t, "node_split")
    /\ nodes' = Append(
          [c \in DOMAIN nodes |->
              IF c = n
              THEN Written([nodes[n] EXCEPT !.num_keys = split - 1],
                           Slice(temp_keys, 0, split - 1), Slice(temp_pointers, 0, split))
              ELSE IF c \in Moved(upper) THEN [nodes[c] EXCEPT !.parent = new] ELSE nodes[c]],
          Written([MakeNode(FALSE, NULL) EXCEPT
                      !.num_keys = Order - split, !.parent = nodes[n].parent],
                  Slice(temp_keys, split, Order), upper))
    /\ lock' = Append(lock, t)
    /\ Goto(t, "into_parent", [frame[t] EXCEPT !.right = new, !.key = temp_keys[split - 1]])
    /\ UNCHANGED <<root, call>>

\* db_put writes the root back that insert returned: the new one, or the one
\* that it was called with; do_bench does it with the one that delete returns too.
PutReturn(t) ==
    /\ At(t, "put_return")
    /\ root' = frame[t].root
    /\ Return(t)
    /\ UNCHANGED <<nodes, lock>>

-------------------------------------------------------------------------------
(* find *)

\* In find, for db_get or for a deletion.
Finding(t) == At(t, "find_again") \/ (At(t, "descend") /\ call[t].type = OP_READ)

Found(t) == IF call[t].type = OP_READ THEN "get_return" ELSE "delete"

FindWalk(t) ==
    LET n == frame[t].left IN
    /\ Finding(t)
    /\ nodes[n].is_leaf
    /\ GoesRight(n, Key(t))
    /\ Goto(t, pc[t], [frame[t] EXCEPT !.left = NextLeaf(n)])
    /\ UNCHANGED <<nodes, lock, root, call>>

\* The leaf's keys are compared with the key, ...
FindScan(t) ==
    LET n == frame[t].left
        num == nodes[n].num_keys
        i == Min({j \in 0 .. num : j = num \/ nodes[n].keys[j] = Key(t)}) IN
    /\ Finding(t)
    /\ nodes[n].is_leaf
    /\ ~GoesRight(n, Key(t))
    /\ Goto(t, IF i = num THEN Found(t) ELSE "find_read", [frame[t] EXCEPT !.index = i])
    /\ UNCHANGED <<nodes, lock, root, call>>

\* ... and the pointer to its record is read after that.
FindRead(t) ==
    /\ At(t, "find_read")
    /\ Goto(t, Found(t),
            [frame[t] EXCEPT !.hit = nodes[frame[t].left].pointers[frame[t].index] # NULL])
    /\ UNCHANGED <<nodes, lock, root, call>>

GetReturn(t) ==
    /\ At(t, "get_return")
    /\ Return(t)
    /\ UNCHANGED <<nodes, lock, root>>

-------------------------------------------------------------------------------
(* delete *)

\* The leaf is locked; the record is looked for from the root, without locks.
DeleteFind(t) ==
    /\ ArrivedTo(t, OP_DELETE)
    /\ Goto(t, "find_again",
            [frame[t] EXCEPT !.key_leaf = frame[t].left, !.left = frame[t].root])
    /\ UNCHANGED <<nodes, lock, root, call>>

DeleteAbsent(t) ==
    /\ At(t, "delete")
    /\ ~frame[t].hit
    /\ lock' = [lock EXCEPT ![frame[t].key_leaf] = NoThread]
    /\ Goto(t, "put_return", frame[t])
    /\ UNCHANGED <<nodes, root, call>>

\* f without its entry at position i, for the positions that change.
Without(f, i, num) == [j \in i .. num - 2 |-> f[j + 1]]

\* Where x is among the first num entries of f.
Places(f, num, x) == {i \in 0 .. num - 1 : f[i] = x}

\* remove_entry_from_node: the other entries are shifted, in the locked leaf.  If the
\* key that find found were not there, the loops would run behind the entries: the
\* model stops, and that it does not come to that is that no run finds a deadlock.
RemoveEntry(t) ==
    LET n == frame[t].key_leaf
        num == nodes[n].num_keys
        at == Places(nodes[n].keys, num, Key(t))
        to == Places(nodes[n].pointers, num, Key(t)) IN
    /\ At(t, "delete")
    /\ frame[t].hit
    /\ at # {} /\ to # {}
    /\ nodes' = [nodes EXCEPT ![n] =
          Written(@, Without(@.keys, Min(at), num), Without(@.pointers, Min(to), num))]
    /\ Goto(t, "remove_count", frame[t])
    /\ UNCHANGED <<lock, root, call>>

\* There is one key fewer, and the key slot behind the others keeps what it holds.
RemoveCount(t) ==
    LET n == frame[t].key_leaf
        num == nodes[n].num_keys - 1 IN
    /\ At(t, "remove_count")
    /\ nodes' = [nodes EXCEPT ![n] = Cleared(@, num)]
    /\ lock' = [lock EXCEPT ![n] = NoThread]
    /\ Goto(t, "put_return", frame[t])
    /\ UNCHANGED <<root, call>>

-------------------------------------------------------------------------------
InsertIntoLeaf(t) ==
    \/ LockLeaf(t) \/ WalkRight(t) \/ Present(t) \/ LeafWrite(t) \/ LeafCount(t)
    \/ LeafFull(t) \/ LockParent(t) \/ LeafSplit(t) \/ LeafLink(t) \/ LeafCut(t)

InsertIntoParent(t) ==
    \/ NewRoot(t) \/ FollowParent(t) \/ FollowLock(t) \/ NodeWrite(t) \/ NodeCount(t)
    \/ NodeFull(t) \/ NodeEmpty(t) \/ NodeSplit(t)

Find(t) == FindWalk(t) \/ FindScan(t) \/ FindRead(t) \/ GetReturn(t)

Delete(t) == DeleteFind(t) \/ DeleteAbsent(t) \/ RemoveEntry(t) \/ RemoveCount(t)

Step(t) ==
    \/ Descend(t) \/ InsertIntoLeaf(t) \/ InsertIntoParent(t) \/ PutReturn(t)
    \/ Find(t) \/ Delete(t)

Next == \E t \in Threads : Invoke(t) \/ Step(t)

Spec == Init /\ [][Next]_vars

-------------------------------------------------------------------------------
(* Properties *)

Node == [is_leaf : BOOLEAN, num_keys : 0 .. Order - 1, keys : [Slots -> Int],
         pointers : [Slots -> Int], parent : Nodes \cup {NULL}]

InsertLabels ==
    {"at_leaf", "leaf_count", "leaf_lock_parent", "leaf_split", "leaf_link", "leaf_cut",
     "into_parent", "follow_lock", "node_count", "node_lock_parent", "node_empty",
     "node_split"}

DeleteLabels == {"find_again", "find_read", "delete", "remove_count"}

\* Type invariant; a thread outside the changing part of insert or delete holds no lock.
TypeOK ==
    /\ nodes \in Seq(Node)
    /\ lock \in [Nodes -> Threads \cup {NoThread}]
    /\ root \in Nodes
    /\ pc \in [Threads -> InsertLabels \cup
                 DeleteLabels \cup {"idle", "descend", "put_return", "get_return"}]
    /\ call \in [Threads -> CallType \cup {NoCall}]
    /\ \A n \in Nodes : LET t == lock[n] IN
          t # NoThread => pc[t] \in IF call[t].type = OP_DELETE
                                    THEN DeleteLabels \cup {"at_leaf"}
                                    ELSE InsertLabels

Quiet == \A t \in Threads : At(t, "idle")

\* The leaf where a search for the key that starts at n ends, in a quiet tree.
Reach(start, key) ==
    LET reach[n \in Nodes] ==
            IF ~nodes[n].is_leaf THEN reach[Child(n, key)]
            ELSE IF GoesRight(n, key) THEN reach[NextLeaf(n)] ELSE n
    IN reach[start]

\* No key that is in a leaf gets out of reach of a search, from whichever root was
\* written back last.  (Whether a key that was put is in a leaf is InsertionsKept.)
EveryKeyFound == Quiet => \A key \in Stored : key \in LeafKeys(Reach(root, key))

Deletable(key) == \E t \in Threads : [type |-> OP_DELETE, key |-> key] \in Menu[t]

\* No insertion is lost: a key whose put is about to return is in a leaf, however the
\* leaf was found and split, and a key leaves the leaves only by a deletion of this
\* key.  A key that is deleted at times may be dropped when it is put again, since the
\* test of line 1005 finds what the deletion left behind: of it the first half is not
\* said.
InsertionsKept ==
    [][ /\ \A t \in Threads :
              At(t, "put_return") /\ call[t].type = OP_ADD /\ ~Deletable(Key(t)) =>
                  Key(t) \in Stored
        /\ \A key \in Stored \ Stored' :
              \E t \in Threads : call[t] = [type |-> OP_DELETE, key |-> key] ]_vars

\* The leaves to the right of a leaf.
RightOf(leaf) ==
    LET right[n \in Leaves] ==
            IF NextLeaf(n) = NULL THEN {} ELSE {NextLeaf(n)} \cup right[NextLeaf(n)]
    IN right[leaf]

\* The leftmost leaf below a node, and the leaves to the right of it.
LeavesFrom(start) ==
    LET leftmost[n \in Nodes] == IF nodes[n].is_leaf THEN n ELSE leftmost[nodes[n].pointers[0]]
    IN {leftmost[start]} \cup RightOf(leftmost[start])

\* Insertions and deletions go down without locks and can only go right afterwards:
\* they are never past the leaf of their key, whatever insertions, splits and
\* deletions are under way.  So a deletion, which holds the leaf, finds the key if it
\* is there.  (A search may go past a key that is being written: it would see the
\* last key that is counted, which is less.)
NeverPastKey ==
    \A t \in Threads :
        pc[t] \in {"descend", "at_leaf", "find_again"} /\ call[t].type # OP_READ =>
            \A n \in Leaves :
                lock[n] \in {NoThread, t} /\ Key(t) \in LeafKeys(n) =>
                    n \in LeavesFrom(frame[t].left)

\* The keys of the leaves ascend, within a leaf and along the chain, past leaves
\* that deletions have emptied.
LeavesInOrder ==
    \A n \in Leaves : Free(n) =>
        /\ \A i \in 1 .. nodes[n].num_keys - 1 : nodes[n].keys[i - 1] < nodes[n].keys[i]
        /\ \A m \in RightOf(n) : Free(m) =>
              \A k \in LeafKeys(n), l \in LeafKeys(m) : k < l

\* The parent whose lock was taken is the one that points to the node that was
\* split, although it may have been split itself meanwhile (lines 888-890, `Find
\* the parent's pointer to the left node').
LeftFound == \A t \in Threads : ParentFound(t) => LeftInParent(t)

\* Between the calls of one thread every node is linked to the parent that points
\* to it, and the root that db_put kept is the one without a parent.
ParentLinks ==
    Quiet =>
        /\ \A n \in Nodes \ Leaves : \A i \in 0 .. nodes[n].num_keys :
              nodes[nodes[n].pointers[i]].parent = n
        /\ {n \in Nodes : nodes[n].parent = NULL} = {root}

\* The tree is balanced and its nodes are half full (lines 68-72).
Balanced ==
    LET height[n \in Nodes] == IF nodes[n].is_leaf THEN 0 ELSE 1 + height[nodes[n].pointers[0]]
    IN Quiet => \A n \in Nodes :
        /\ ~nodes[n].is_leaf =>
              \A i \in 1 .. nodes[n].num_keys :
                  height[nodes[n].pointers[i]] = height[nodes[n].pointers[0]]
        /\ nodes[n].parent # NULL =>
              nodes[n].num_keys >= IF nodes[n].is_leaf THEN Order \div 2 ELSE (Order - 1) \div 2

\* The result of a call, as soon as it is decided: 1 is a miss, 2 a hit or a put.
ResultOf(t) ==
    CASE pc[t] \in {"idle", "descend", "at_leaf", "leaf_lock_parent", "leaf_split",
                    "find_read"} -> 0
      [] pc[t] = "get_return" -> IF frame[t].hit THEN 2 ELSE 1
      [] OTHER -> 2

KV == INSTANCE KVStore WITH
    Clients <- Threads,
    store <- Stored \ {FirstKey},
    res <- [t \in Threads |-> ResultOf(t)]

\* Called by one thread, as under gps.c, the tree is a key-value store.
ImplementsKVStore == KV!Spec

\* A search does not miss a key whose insertion had returned when it began
\* (baseline.c 187).
NoFalseMiss ==
    \A t \in Threads : At(t, "get_return") /\ frame[t].had => frame[t].hit
=============================================================================
