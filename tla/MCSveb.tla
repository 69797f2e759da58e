------------------------------- MODULE MCSveb --------------------------------
(* Small instances of Sveb for TLC. *)
EXTENDS Sveb

CONSTANTS t1, t2

\* The keys that no insertion has got hold of yet.
Unused == Keys \ (Members \cup {call[t].key : t \in {u \in Threads : pc[u] = "insert"}})

\* The first three keys are inserted in any order; then a thread takes the smallest
\* or the largest key that is left, which makes the longest paths, or reads the
\* first key again.  Two threads are inside at the same time only while the tree
\* holds the keys 1, 2 and 3, when the next insertion may make it grow; otherwise
\* t1 works alone.
FromTheEnds ==
    \A t \in Threads : pc[t] = "idle" /\ pc'[t] # "idle" =>
        /\ pc'[t] = "search" => call'[t].key = 1
        /\ (t = t1 /\ pc[t2] = "idle") \/ Members = {1, 2, 3}
        /\ pc'[t] = "insert" =>
              \/ Cardinality(Members) < 3
              \/ LET unused == Unused IN
                 /\ call'[t].key \in unused
                 /\ \/ \A k \in unused : k <= call'[t].key
                    \/ \A k \in unused : k >= call'[t].key
==============================================================================
