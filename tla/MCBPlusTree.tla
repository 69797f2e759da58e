---------------------------- MODULE MCBPlusTree -----------------------------
(* Small instances of BPlusTree for TLC. *)
EXTENDS BPlusTree

CONSTANTS t1, t2

Puts(keys) == [type : {OP_ADD}, key : keys]
Gets(keys) == [type : {OP_READ}, key : keys]
Deletions(keys) == [type : {OP_DELETE}, key : keys]

\* One thread makes any calls of the store.
AllCalls == [t \in Threads |-> Puts(Keys) \cup Gets(Keys)]

\* Two threads insert, one odd keys and one even ones, which may also delete key 2, or
\* look for key 6 in order to delete it.
OddAndEven ==
    [t \in Threads |-> IF t = t1 THEN Puts({1, 3, 5})
                       ELSE Puts({2, 4}) \cup Deletions({2, 6})]

\* A deletion begins when the five keys are in the leaves, although their insertions
\* may still be under way.
DeleteLate ==
    pc[t2] = "idle" /\ pc'[t2] # "idle" /\ call'[t2].type = OP_DELETE => 1 .. 5 \subseteq Stored

FindAndInsert == [t \in Threads |-> IF t = t1 THEN Puts(Keys) ELSE Gets(Keys)]

\* One thread inserts key 10, the other the keys of the script in their order,
\* the last one after key 10.
Script == <<7, 8, 9, 1, 2, 3, 4, 11>>

Scripted == [t \in Threads |-> Puts(IF t = t1 THEN {10} ELSE Keys \ {10})]

InTurn ==
    pc[t2] = "idle" /\ pc'[t2] # "idle" =>
        \E i \in DOMAIN Script :
            /\ call'[t2].key = Script[i] /\ Script[i] \notin Stored
            /\ \A j \in 1 .. i - 1 : Script[j] \in Stored
            /\ Script[i] = 11 => 10 \in Stored
=============================================================================
