--------------------------------- MODULE Gps ---------------------------------
(***************************************************************************)
(* GreenHashTree itself, gps.c: a store cut into one substructure per      *)
(* core.  A client hashes its key to a substructure, adds the operation to *)
(* that substructure's queue and spins on its return cell.  The            *)
(* substructure's own thread, the only one to touch it, reads its queue,   *)
(* performs the operation and sets the cell.                               *)
(* The queues and the threads' steps inside them are those of MsgQ.        *)
(***************************************************************************)
EXTENDS MsgQ

CONSTANTS
    Keys,
    Route,     \* hash(key) % numthreads, for each key
    InitKeys,  \* the keys init_struct leaves in a substructure
    OP_ADD,
    OP_READ

Clients == Senders

ASSUME BodiesAssumption == Bodies = [type : {OP_ADD, OP_READ}, key : Keys]

ASSUME TypesAssumption == OP_ADD # OP_READ

ASSUME RouteAssumption == Route \in [Keys -> Subtrees]

ASSUME InitKeysAssumption == InitKeys \subseteq Keys

VARIABLES
    substruct,  \* the keys each substructure holds
    result      \* what its thread is about to store in the cell; 0 not known yet

subvars == <<substruct, result>>
vars    == <<qvars, subvars>>

Init ==
    /\ QInit
    /\ substruct = [s \in Subtrees |-> {}]
    /\ result = [s \in Subtrees |-> 0]

-------------------------------------------------------------------------------
(* The client threads *)

\* Mutant of DbPut: the put goes to some substructure, not to its key's.
DbPutAnywhere(c, k) ==
    /\ \E s \in Subtrees : Call(c, s, [type |-> OP_ADD, key |-> k])
    /\ UNCHANGED subvars

DbPut(c, k) ==
    /\ Call(c, Route[k], [type |-> OP_ADD, key |-> k])
    /\ UNCHANGED subvars

DbGet(c, k) ==
    /\ Call(c, Route[k], [type |-> OP_READ, key |-> k])
    /\ UNCHANGED subvars

QueueAdd(c) ==
    /\ AddStep(c)
    /\ UNCHANGED subvars

\* The cell is set: db_put returns intval, db_get NULL for 1 and intval for 2.
DbReturn(c) ==
    /\ Resume(c)
    /\ UNCHANGED subvars

-------------------------------------------------------------------------------
(* subStructFunc, the substructure threads *)

InitStruct(s) ==
    /\ Start(s)
    /\ substruct' = [substruct EXCEPT ![s] = InitKeys]
    /\ UNCHANGED result

QueueRead(s) ==
    /\ ReadStep(s)
    /\ UNCHANGED subvars

QueueWake(s) ==
    /\ SpuriousWake(s)
    /\ UNCHANGED subvars

\* Thread s has read an operation of this type and not performed it.
Holds(s, type) ==
    /\ pc[s] = "have"
    /\ result[s] = 0
    /\ data[s].body.type = type

\* Mutant of Insert: line 179 does not keep the root that insert_into_struct returns.
InsertForgotten(s) ==
    /\ Holds(s, OP_ADD)
    /\ result' = [result EXCEPT ![s] = 2]
    /\ UNCHANGED <<qvars, substruct>>

Insert(s) ==
    /\ Holds(s, OP_ADD)
    /\ substruct' = [substruct EXCEPT ![s] = @ \cup {data[s].body.key}]
    /\ result' = [result EXCEPT ![s] = 2]
    /\ UNCHANGED qvars

\* Mutant of Search: a search that finds nothing sets no return value.
SearchFoundOnly(s) ==
    /\ Holds(s, OP_READ)
    /\ data[s].body.key \in substruct[s]
    /\ result' = [result EXCEPT ![s] = 2]
    /\ UNCHANGED <<qvars, substruct>>

Search(s) ==
    /\ Holds(s, OP_READ)
    /\ result' = [result EXCEPT ![s] =
                     IF data[s].body.key \in substruct[s] THEN 2 ELSE 1]
    /\ UNCHANGED <<qvars, substruct>>

\* Mutant of Reply: the result of one operation is kept for the next.
ReplyKept(s) ==
    /\ result[s] # 0
    /\ Answer(s, result[s])
    /\ UNCHANGED subvars

Reply(s) ==
    /\ result[s] # 0
    /\ Answer(s, result[s])
    /\ result' = [result EXCEPT ![s] = 0]
    /\ UNCHANGED substruct

-------------------------------------------------------------------------------
SubStructStep(s) ==
    \/ InitStruct(s)
    \/ QueueRead(s)
    \/ Insert(s)
    \/ Search(s)
    \/ Reply(s)

Next ==
    \/ \E c \in Clients :
        \/ \E k \in Keys : DbPut(c, k) \/ DbGet(c, k)
        \/ QueueAdd(c)
        \/ DbReturn(c)
    \/ \E s \in Subtrees : SubStructStep(s) \/ QueueWake(s)

Spec == Init /\ [][Next]_vars

\* As in MsgQ: no thread that can run is starved, nor a client by a mutex.
Fairness ==
    /\ \A c \in Clients :
        /\ WF_vars(QueueAdd(c) \/ DbReturn(c))
        /\ SF_vars(AddLock(c) /\ UNCHANGED subvars)
    /\ \A s \in Subtrees : WF_vars(SubStructStep(s))

FairSpec == Spec /\ Fairness

-------------------------------------------------------------------------------
(* Properties *)

\* Type invariant; a result is only kept while its operation is in hand.
TypeOK ==
    /\ QTypeOK
    /\ substruct \in [Subtrees -> SUBSET Keys]
    /\ result \in [Subtrees -> 0 .. 2]
    /\ \A s \in Subtrees : result[s] # 0 => pc[s] = "have"

\* A key is only ever in the substructure its hash routes it to, so asking that
\* one is asking all of them.
AtHome == \A s \in Subtrees : \A k \in substruct[s] : Route[k] = s \/ k \in InitKeys

\* A call asks the substructure of its key.
RoutedHome ==
    \A c \in Clients : arg[c] # Unset => arg[c].queue = Route[arg[c].op.body.key]

\* Nothing is in a substructure whose thread has not started.
Fresh == \A s \in Subtrees : pc[s] = "idle" => substruct[s] = {}

\* The inductive invariant: that of the queues, and the above.
GInv == IInv /\ TypeOK /\ AtHome /\ RoutedHome /\ Fresh

\* The result of client c's call: in its cell, or about to be stored there.
ResultOf(c) ==
    IF retval[c] # 0 THEN retval[c]
    ELSE IF pc[c] = "sent" /\ data[arg[c].queue] = arg[c].op
    THEN result[arg[c].queue]
    ELSE 0

KV == INSTANCE KVStore WITH
    NoCall <- Unset,
    store <- UNION {substruct[s] : s \in Subtrees},
    call <- [c \in Clients |-> IF arg[c] = Unset THEN Unset ELSE arg[c].op.body],
    res <- [c \in Clients |-> ResultOf(c)]

\* The partitioned store is linearizable: a put or get takes effect when the
\* substructure's thread performs it, whatever the other clients and
\* substructures do; in particular a get finds exactly the keys put before it.
ImplementsKVStore == KV!Spec

\* Every db_put and db_get returns: the spin of gps.c 284-286 and 317-319 ends.
EveryCallReturns == \A c \in Clients : pc[c] # "idle" ~> pc[c] = "idle"
==============================================================================
