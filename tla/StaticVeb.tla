------------------------------ MODULE StaticVeb ------------------------------
(***************************************************************************)
(* The layout of SVEB/staticvebtree.c: a binary tree kept in an array in   *)
(* van Emde Boas order.  A descent keeps the heap number of its node in bf *)
(* (the root is 1, the children of b are 2b and 2b+1), the levels from it  *)
(* down in h, and computes its place in the array, `ad', from the places   *)
(* of its ancestors.  Here a node is its heap number; h and ad are         *)
(* functions of it.                                                        *)
(***************************************************************************)
EXTENDS Integers, Sequences, TLC

CONSTANTS
    MaxDepth,  \* a bound: the deepest tree (40 in the code: myli and anc)
    MAXINT     \* INT_MAX, what an empty slot holds; larger than every key

ASSUME MaxDepthAssumption == MaxDepth \in Nat \ {0}

\* The number of bits: initialize_depth(nn) sets max_dep to Bits[nn].
Bits == [nn \in 1..2^(MaxDepth + 1) |->
            CHOOSE d \in 1..(MaxDepth + 2) : 2^(d-1) <= nn /\ nn < 2^d]

\* init_height(top, bot): the levels top..bot+1 are cut at level me.  A node whose h
\* is me is the root of a bottom tree of bs nodes, below a top tree of ts nodes
\* whose root is at level p.
init_height[top \in 0..MaxDepth, bot \in 0..MaxDepth] ==
    LET me == (top + bot + 1) \div 2
    IN  IF top <= bot + 1 THEN <<>>
        ELSE (me :> [p |-> top, ts |-> 2^(top-me) - 1, bs |-> 2^(me-bot) - 1])
             @@ init_height[top, me] @@ init_height[me, bot]

\* The level information of a tree of d levels.
myli == [d \in 1..MaxDepth |-> init_height[d, 0]]

\* h at node b of a tree of d levels: 1 at the lowest level, 0 below it.
Height(d, b) == d + 1 - Bits[b]

\* Mutant of Address: the bottom trees are numbered by bf itself, not by its last bits.
AddressNoMask == [d \in 1..MaxDepth |->
    LET anc[b \in 1..(2^d - 1)] ==
            IF b = 1 THEN 0
            ELSE LET h == Height(d, b)
                     li == myli[d][h]
                 IN  li.bs * (b - 2) + li.ts + anc[b \div 2^(li.p - h)]
    IN  [b \in 1..(2^d - 1) |-> anc[b]]]

\* anc[h] when the descent is at b: the place of the root of the tree that was cut,
\* then its top tree, then one bottom tree for each that is to the left of b's.
\* ts is a row of ones, so bf & ts is a remainder.
Address == [d \in 1..MaxDepth |->
    LET anc[b \in 1..(2^d - 1)] ==
            IF b = 1 THEN 0
            ELSE LET h == Height(d, b)
                     li == myli[d][h]
                 IN  li.bs * (b % (li.ts + 1)) + li.ts + anc[b \div 2^(li.p - h)]
    IN  [b \in 1..(2^d - 1) |-> anc[b]]]

Ad(n, b) == Address[Bits[n]][b]

\* ad < size && h > 0, the test before every visit.
Inside(n, b) == Height(Bits[n], b) > 0 /\ Ad(n, b) < n

\* search: the last node where the descent went right, or else the root.
Search(arr, n, key) ==
    LET last_right[b \in Nat, last \in Nat] ==
            IF ~Inside(n, b) THEN last
            ELSE IF key < arr[Ad(n, b)] THEN last_right[2*b, last]
            ELSE last_right[2*b + 1, b]
    IN  Ad(n, last_right[1, 1])

\* What a walk adds to what it met when it visits b.
Meet(arr, n, b, met) ==
    IF arr[Ad(n, b)] = MAXINT THEN met ELSE Append(met, arr[Ad(n, b)])

\* test_walk_rec: the values below b in order, empty slots left out.
RECURSIVE Walk(_, _, _)
Walk(arr, n, b) ==
    IF ~Inside(n, b) THEN <<>>
    ELSE Meet(arr, n, b, Walk(arr, n, 2*b)) \o Walk(arr, n, 2*b + 1)

\* test_it_walk: `descent' goes left as far as it can; after a visit it goes on in
\* the right subtree, or climbs until it comes from a left child.  0 is the end,
\* reached when it has climbed to the root from the right.
LeftEnd(n, b) ==
    CHOOSE x \in {b * 2^i : i \in 0..MaxDepth} : Inside(n, x) /\ ~Inside(n, 2*x)

RECURSIVE Climb(_)
Climb(b) ==
    IF b % 2 = 0 THEN b \div 2 ELSE IF b \div 2 <= 1 THEN 0 ELSE Climb(b \div 2)

RECURSIVE ItWalk(_, _, _, _)
ItWalk(arr, n, b, met) ==
    IF b = 0 THEN met
    ELSE ItWalk(arr, n,
                IF Inside(n, 2*b + 1) THEN LeftEnd(n, 2*b + 1) ELSE Climb(b),
                Meet(arr, n, b, met))
=============================================================================
