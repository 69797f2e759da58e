------------------------------- MODULE KVStore -------------------------------
(***************************************************************************)
(* What GreenHashTree promises a client: a linearizable key-value store.   *)
(* Each call of db_put or db_get takes effect in one step between its      *)
(* invocation and its return.  The stored values are not told apart:       *)
(* db_get only says whether the key was found.                             *)
(***************************************************************************)
CONSTANTS
    Clients,
    Keys,
    OP_ADD, OP_READ,  \* the two kinds of call, db_put and db_get
    NoCall            \* a client outside db_put and db_get

VARIABLES
    store,  \* the keys that have been put
    call,   \* the call each client has in progress
    res     \* its result: 0 none yet, 1 not found, 2 put or found

vars == <<store, call, res>>

Init ==
    /\ store = {}
    /\ call = [c \in Clients |-> NoCall]
    /\ res = [c \in Clients |-> 0]

Invoke(c) ==
    /\ call[c] = NoCall
    /\ \E type \in {OP_ADD, OP_READ}, k \in Keys :
        call' = [call EXCEPT ![c] = [type |-> type, key |-> k]]
    /\ UNCHANGED <<store, res>>

Pending(c, type) ==
    /\ call[c] # NoCall
    /\ call[c].type = type
    /\ res[c] = 0

Put(c) ==
    /\ Pending(c, OP_ADD)
    /\ store' = store \cup {call[c].key}
    /\ res' = [res EXCEPT ![c] = 2]
    /\ UNCHANGED call

Get(c) ==
    /\ Pending(c, OP_READ)
    /\ res' = [res EXCEPT ![c] = IF call[c].key \in store THEN 2 ELSE 1]
    /\ UNCHANGED <<store, call>>

Return(c) ==
    /\ res[c] # 0
    /\ call' = [call EXCEPT ![c] = NoCall]
    /\ res' = [res EXCEPT ![c] = 0]
    /\ UNCHANGED store

Next == \E c \in Clients : Invoke(c) \/ Put(c) \/ Get(c) \/ Return(c)

Spec == Init /\ [][Next]_vars
==============================================================================
