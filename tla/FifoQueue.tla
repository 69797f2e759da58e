------------------------------ MODULE FifoQueue ------------------------------
(***************************************************************************)
(* What msgq.c promises its callers: one bounded first-in first-out        *)
(* channel per reader.  An operation sent is received once, by the reader  *)
(* it was sent to, in the order of the sends, and nothing is dropped.      *)
(***************************************************************************)
EXTENDS Naturals, Sequences

CONSTANTS
    Readers,     \* one channel, and one thread that receives from it, each
    Operations,  \* what a channel carries
    Capacity,    \* a channel never holds more operations than this
    Unset        \* a reader that holds no operation

VARIABLES
    chan,  \* the operations sent to each reader and not received, oldest first
    hand   \* the operation each reader received last and still works on

vars == <<chan, hand>>

Init ==
    /\ chan = [r \in Readers |-> <<>>]
    /\ hand = [r \in Readers |-> Unset]

Send(r, op) ==
    /\ Len(chan[r]) < Capacity
    /\ chan' = [chan EXCEPT ![r] = Append(@, op)]
    /\ UNCHANGED hand

Receive(r) ==
    /\ hand[r] = Unset
    /\ chan[r] # <<>>
    /\ hand' = [hand EXCEPT ![r] = Head(chan[r])]
    /\ chan' = [chan EXCEPT ![r] = Tail(@)]

Finish(r) ==
    /\ hand[r] # Unset
    /\ hand' = [hand EXCEPT ![r] = Unset]
    /\ UNCHANGED chan

Next ==
    \E r \in Readers :
        \/ \E op \in Operations : Send(r, op)
        \/ Receive(r)
        \/ Finish(r)

Spec == Init /\ [][Next]_vars
==============================================================================
