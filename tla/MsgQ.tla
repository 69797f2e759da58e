-------------------------------- MODULE MsgQ ---------------------------------
(***************************************************************************)
(* The message queues of msgq.c and the protocol their callers in gps.c    *)
(* follow.  Each substructure thread owns one queue, a ring of `lenght'    *)
(* slots guarded by a mutex and a condition variable, and is its only      *)
(* reader.  A client thread adds an operation to one queue (queue_add) and *)
(* then spins on its return cell o.retval until the reader has set it.     *)
(* Every step between two synchronisation calls is an action of its own.   *)
(***************************************************************************)
EXTENDS Integers, FiniteSets

CONSTANTS
    Senders,   \* the client threads, which call queue_add
    Subtrees,  \* the substructure threads; thread q is the reader of queue q
    Bodies,    \* what an operation asks for (its type and key)
    Lenght,    \* slots of a queue's array; the code has 10000
    IntMax,    \* the largest C int; the counters are ints
    MaxAdds,   \* bound: the calls of queue_add made on one queue in a behaviour
    NoThread,  \* the holder of a free mutex
    Unset      \* a variable, slot or return value that was never written

\* An operation, by the cell its answer goes to (o.retval): every call has a
\* cell of its own, so the cell stands for the caller.
Operation == [caller : Senders, body : Bodies]

\* The arguments of a call of queue_add.
Request == [queue : Subtrees, op : Operation]

Threads == Senders \cup Subtrees

ASSUME LenghtAssumption == Lenght \in Nat \ {0}

ASSUME IntMaxAssumption == IntMax \in Nat \ {0}

ASSUME MaxAddsAssumption == MaxAdds \in Nat

ASSUME ThreadsAssumption ==
    /\ IsFiniteSet(Senders)
    /\ Senders \cap Subtrees = {}
    /\ NoThread \notin Threads

ASSUME UnsetAssumption == Unset \notin Operation \cup Request \cup Bodies

VARIABLES
    array,      \* queue->array of each queue: slot -> operation
    current,    \* queue->current: position of the next read
    lastadded,  \* queue->lastadded: position of the next add
    mutex,      \* the thread that holds queue->mutex, or NoThread
    pc,         \* where each thread is in queue_add or queue_read
    arg,        \* the arguments of each client's call in progress
    data,       \* the operation each reader took and has not answered
    retval,     \* the cell of each client's call in progress; 0 is unanswered
    called      \* history: the calls of queue_add begun on each queue

shared == <<array, current, lastadded>>
qvars  == <<array, current, lastadded, mutex, pc, arg, data, retval, called>>

Slots == 0 .. Lenght - 1

\* x % Lenght as C computes it: the remainder has the sign of x.
Slot(x) == IF x >= 0 THEN x % Lenght ELSE -((-x) % Lenght)

\* x + 1 in a two's-complement int.
Inc(x) == IF x = IntMax THEN -IntMax - 1 ELSE x + 1

Goto(t, label) == pc' = [pc EXCEPT ![t] = label]

Lock(t, q) ==
    /\ mutex[q] = NoThread
    /\ mutex' = [mutex EXCEPT ![q] = t]

Unlock(q) == mutex' = [mutex EXCEPT ![q] = NoThread]

\* queue_init, once per substructure, before any client runs.
QInit ==
    /\ array = [q \in Subtrees |-> [i \in Slots |-> Unset]]
    /\ current = [q \in Subtrees |-> 0]
    /\ lastadded = [q \in Subtrees |-> 0]
    /\ mutex = [q \in Subtrees |-> NoThread]
    /\ pc = [t \in Threads |-> "idle"]
    /\ arg = [t \in Senders |-> Unset]
    /\ data = [q \in Subtrees |-> Unset]
    /\ retval = [t \in Senders |-> 0]
    /\ called = [q \in Subtrees |-> 0]

-------------------------------------------------------------------------------
(* queue_add, on the client's thread *)

\* db_put or db_get has built its operation and calls queue_add.
Call(t, q, b) ==
    /\ pc[t] = "idle"
    /\ called[q] < MaxAdds
    /\ called' = [called EXCEPT ![q] = @ + 1]
    /\ arg' = [arg EXCEPT ![t] = [queue |-> q, op |-> [caller |-> t, body |-> b]]]
    /\ Goto(t, "add_lock")
    /\ UNCHANGED <<shared, mutex, data, retval>>

\* Mutant of AddLock: the lock of line 35 is left out.
AddNoLock(t) ==
    /\ pc[t] = "add_lock"
    /\ mutex' = [mutex EXCEPT ![arg[t].queue] = t]
    /\ Goto(t, "add_store")
    /\ UNCHANGED <<shared, arg, data, retval, called>>

AddLock(t) ==
    /\ pc[t] = "add_lock"
    /\ Lock(t, arg[t].queue)
    /\ Goto(t, "add_store")
    /\ UNCHANGED <<shared, arg, data, retval, called>>

AddStore(t) ==
    LET q == arg[t].queue IN
    /\ pc[t] = "add_store"
    /\ array' = [array EXCEPT ![q][Slot(lastadded[q])] = arg[t].op]
    /\ Goto(t, "add_publish")
    /\ UNCHANGED <<current, lastadded, mutex, arg, data, retval, called>>

\* Mutant of AddPublish: the broadcast of line 44 is left out.
AddPublishSilently(t) ==
    /\ pc[t] = "add_publish"
    /\ lastadded' = [lastadded EXCEPT ![arg[t].queue] = Inc(@)]
    /\ Goto(t, "add_unlock")
    /\ UNCHANGED <<array, current, mutex, arg, data, retval, called>>

AddPublish(t) ==
    /\ pc[t] = "add_publish"
    /\ lastadded' = [lastadded EXCEPT ![arg[t].queue] = Inc(@)]
    /\ Goto(t, "add_broadcast")
    /\ UNCHANGED <<array, current, mutex, arg, data, retval, called>>

\* pthread_cond_broadcast: a reader asleep in pthread_cond_wait goes back to
\* acquiring the mutex.
AddBroadcast(t) ==
    LET q == arg[t].queue IN
    /\ pc[t] = "add_broadcast"
    /\ pc' = [pc EXCEPT ![t] = "add_unlock",
                        ![q] = IF @ = "read_wait" THEN "read_lock" ELSE @]
    /\ UNCHANGED <<shared, mutex, arg, data, retval, called>>

AddUnlock(t) ==
    /\ pc[t] = "add_unlock"
    /\ Unlock(arg[t].queue)
    /\ Goto(t, "sent")
    /\ UNCHANGED <<shared, arg, data, retval, called>>

\* Mutant of Resume: db_put returns without waiting for its answer.
ResumeAtOnce(t) ==
    /\ pc[t] = "sent"
    /\ retval' = [retval EXCEPT ![t] = 0]
    /\ arg' = [arg EXCEPT ![t] = Unset]
    /\ Goto(t, "idle")
    /\ UNCHANGED <<shared, mutex, data, called>>

\* The spin on *o.retval ends and the call returns; the next call has a new cell.
Resume(t) ==
    /\ pc[t] = "sent"
    /\ retval[t] # 0
    /\ retval' = [retval EXCEPT ![t] = 0]
    /\ arg' = [arg EXCEPT ![t] = Unset]
    /\ Goto(t, "idle")
    /\ UNCHANGED <<shared, mutex, data, called>>

-------------------------------------------------------------------------------
(* queue_read, on the substructure's thread *)

\* The substructure thread reaches its loop and calls queue_read.
Start(r) ==
    /\ pc[r] = "idle"
    /\ Goto(r, "read_lock")
    /\ UNCHANGED <<shared, mutex, arg, data, retval, called>>

\* The first acquisition, and the one pthread_cond_wait makes before returning.
ReadLock(r) ==
    /\ pc[r] = "read_lock"
    /\ Lock(r, r)
    /\ Goto(r, "read_test")
    /\ UNCHANGED <<shared, arg, data, retval, called>>

\* Mutant of ReadWait: the loop of lines 56-58 waits before it tests.
ReadWaitFirst(r) ==
    /\ pc[r] = "read_test"
    /\ Unlock(r)
    /\ Goto(r, "read_wait")
    /\ UNCHANGED <<shared, arg, data, retval, called>>

\* Empty: pthread_cond_wait releases the mutex and sleeps in one step.
ReadWait(r) ==
    /\ pc[r] = "read_test"
    /\ current[r] = lastadded[r]
    /\ Unlock(r)
    /\ Goto(r, "read_wait")
    /\ UNCHANGED <<shared, arg, data, retval, called>>

\* POSIX lets pthread_cond_wait return without a broadcast.
SpuriousWake(r) ==
    /\ pc[r] = "read_wait"
    /\ Goto(r, "read_lock")
    /\ UNCHANGED <<shared, mutex, arg, data, retval, called>>

\* Mutant of ReadTake: woken, the reader does not test again (`if' for `while').
ReadTakeUntested(r) ==
    /\ pc[r] = "read_test"
    /\ data' = [data EXCEPT ![r] = array[r][Slot(current[r])]]
    /\ current' = [current EXCEPT ![r] = Inc(@)]
    /\ Goto(r, "read_unlock")
    /\ UNCHANGED <<array, lastadded, mutex, arg, retval, called>>

\* Mutant of ReadTake: line 62, which advances current, is left out.
ReadTakeAgain(r) ==
    /\ pc[r] = "read_test"
    /\ current[r] # lastadded[r]
    /\ data' = [data EXCEPT ![r] = array[r][Slot(current[r])]]
    /\ Goto(r, "read_unlock")
    /\ UNCHANGED <<array, current, lastadded, mutex, arg, retval, called>>

\* Mutant of ReadTake: current is advanced before it is used, not after.
ReadTakeNext(r) ==
    /\ pc[r] = "read_test"
    /\ current[r] # lastadded[r]
    /\ data' = [data EXCEPT ![r] = array[r][Slot(Inc(current[r]))]]
    /\ current' = [current EXCEPT ![r] = Inc(@)]
    /\ Goto(r, "read_unlock")
    /\ UNCHANGED <<array, lastadded, mutex, arg, retval, called>>

ReadTake(r) ==
    /\ pc[r] = "read_test"
    /\ current[r] # lastadded[r]
    /\ data' = [data EXCEPT ![r] = array[r][Slot(current[r])]]
    /\ current' = [current EXCEPT ![r] = Inc(@)]
    /\ Goto(r, "read_unlock")
    /\ UNCHANGED <<array, lastadded, mutex, arg, retval, called>>

ReadUnlock(r) ==
    /\ pc[r] = "read_unlock"
    /\ Unlock(r)
    /\ Goto(r, "have")
    /\ UNCHANGED <<shared, arg, data, retval, called>>

\* *o.retval = v, and back to queue_read.
Answer(r, v) ==
    /\ pc[r] = "have"
    /\ retval' = [retval EXCEPT ![data[r].caller] = v]
    /\ data' = [data EXCEPT ![r] = Unset]
    /\ Goto(r, "read_lock")
    /\ UNCHANGED <<shared, mutex, arg, called>>

-------------------------------------------------------------------------------
AddStep(t) ==
    \/ AddLock(t)
    \/ AddStore(t)
    \/ AddPublish(t)
    \/ AddBroadcast(t)
    \/ AddUnlock(t)

ReadStep(r) ==
    \/ ReadLock(r)
    \/ ReadWait(r)
    \/ ReadTake(r)
    \/ ReadUnlock(r)

QNext ==
    \/ \E t \in Senders :
        \/ \E q \in Subtrees, b \in Bodies : Call(t, q, b)
        \/ AddStep(t)
        \/ Resume(t)
    \/ \E r \in Subtrees :
        \/ Start(r)
        \/ ReadStep(r)
        \/ SpuriousWake(r)
        \/ \E v \in {1, 2} : Answer(r, v)

QSpec == QInit /\ [][QNext]_qvars

\* The scheduler starves no thread that can run, and a client that waits for a
\* mutex which is freed again and again gets it at last, however often the reader
\* and the other clients take it.  The reader needs no such favour: the clients
\* that could overtake it end up waiting for it.  No client has to call and
\* nothing has to wake spuriously.
QFairness ==
    /\ \A t \in Senders : WF_qvars(AddStep(t) \/ Resume(t)) /\ SF_qvars(AddLock(t))
    /\ \A r \in Subtrees :
        WF_qvars(Start(r) \/ ReadStep(r) \/ \E v \in {1, 2} : Answer(r, v))

QFairSpec == QSpec /\ QFairness

-------------------------------------------------------------------------------
(* Properties *)

AddLabels  == {"idle", "add_lock", "add_store", "add_publish", "add_broadcast",
               "add_unlock", "sent"}
ReadLabels == {"idle", "read_lock", "read_test", "read_wait", "read_unlock", "have"}

\* Positions of the operations added to queue q and not read yet.
Backlog(q) == current[q] .. lastadded[q] - 1

\* What is stored for position i of queue q, and whose it is.
At(q, i) == array[q][Slot(i)]
Owner(q, i) == At(q, i).caller

\* Client t is between the publication of its operation and its answer.
Published(t) == pc[t] \in {"add_broadcast", "add_unlock", "sent"} /\ retval[t] = 0

\* Type invariant; arguments, operation in hand and answer exist exactly while
\* the thread is where the code uses them.
QTypeOK ==
    /\ array \in [Subtrees -> [Slots -> Operation \cup {Unset}]]
    /\ current \in [Subtrees -> Int]
    /\ lastadded \in [Subtrees -> Int]
    /\ mutex \in [Subtrees -> Threads \cup {NoThread}]
    /\ pc \in [Threads -> AddLabels \cup ReadLabels]
    /\ arg \in [Senders -> Request \cup {Unset}]
    /\ data \in [Subtrees -> Operation \cup {Unset}]
    /\ retval \in [Senders -> 0 .. 2]
    /\ called \in [Subtrees -> 0 .. MaxAdds]
    /\ \A t \in Senders :
        /\ pc[t] \in AddLabels
        /\ pc[t] # "idle" <=> arg[t] # Unset
        /\ arg[t] # Unset => arg[t].op.caller = t
        /\ retval[t] # 0 => pc[t] = "sent"
    /\ \A r \in Subtrees :
        /\ pc[r] \in ReadLabels
        /\ data[r] # Unset <=> pc[r] \in {"read_unlock", "have"}

\* Thread t is between the lock and the unlock of queue q's mutex.
Inside(t, q) ==
    IF t \in Senders
    THEN /\ pc[t] \in {"add_store", "add_publish", "add_broadcast", "add_unlock"}
         /\ arg[t].queue = q
    ELSE t = q /\ pc[t] \in {"read_test", "read_unlock"}

\* At most one thread is in the critical section of a queue, the one the mutex
\* names (msgq.c locks at 35 and 53, unlocks at 45 and 65 and inside the wait).
MutualExclusion ==
    \A q \in Subtrees, t \in Threads : Inside(t, q) => mutex[q] = t

\* queue_add never tests for a full ring; the slot it is about to overwrite
\* must hold no operation that is still waiting to be read.
NoOverwrite ==
    \A t \in Senders : pc[t] = "add_store" =>
        lastadded[arg[t].queue] - current[arg[t].queue] < Lenght

\* The broadcast comes after the publication and under the mutex, so a reader
\* never sleeps on a queue that has operations, unless the sender of one is
\* about to broadcast.
NoLostWakeup ==
    \A r \in Subtrees : pc[r] = "read_wait" /\ current[r] # lastadded[r] =>
        \E t \in Senders : pc[t] = "add_broadcast" /\ arg[t].queue = r

\* An operation in a queue is there once, and its caller still waits for it.
QueuedOnce ==
    \A q \in Subtrees : \A i \in Backlog(q) :
        /\ At(q, i) \in Operation
        /\ arg[Owner(q, i)] = [queue |-> q, op |-> At(q, i)]
        /\ Published(Owner(q, i))
        /\ \A j \in Backlog(q) : Owner(q, i) = Owner(q, j) => i = j

\* An operation in its reader's hand has left the queue, and its caller still
\* waits for it.
InHandOnce ==
    \A r \in Subtrees : data[r] # Unset =>
        /\ arg[data[r].caller] = [queue |-> r, op |-> data[r]]
        /\ pc[data[r].caller] = "sent" /\ retval[data[r].caller] = 0
        /\ \A i \in Backlog(r) : Owner(r, i) # data[r].caller

\* A call has at most one operation under way, and only while it waits: no
\* return cell is set for a call that has returned, and none is set twice.
OneOperationPerCall == QueuedOnce /\ InHandOnce

\* The pending operations of a queue, oldest first.
Pending(q) == [i \in 1 .. lastadded[q] - current[q] |-> At(q, current[q] + i - 1)]

Fifo == INSTANCE FifoQueue WITH
    Readers <- Subtrees, Operations <- Operation, Capacity <- Lenght,
    chan <- [q \in Subtrees |-> Pending(q)], hand <- data

\* The ring, its two counters and the mutex implement a bounded FIFO channel
\* per reader: each add appends, each read takes the oldest.
ImplementsFifo == Fifo!Spec

\* Every queue_add is answered and its caller goes on (gps.c 284-286 spins until
\* then), whoever else calls, however the readers are woken.
EveryCallAnswered == \A t \in Senders : pc[t] = "add_lock" ~> pc[t] = "idle"

\* What keeps the ring from filling and the counters from overflowing: a caller
\* waits for its answer, so a queue holds at most one operation per client.
CapacityOK ==
    /\ Cardinality(Senders) <= Lenght
    /\ MaxAdds <= IntMax

-------------------------------------------------------------------------------
(* The inductive invariant *)

\* The calls on queue q whose operation is not published yet.
Unpublished(q) ==
    {t \in Senders : /\ pc[t] \in {"add_lock", "add_store", "add_publish"}
                     /\ arg[t].queue = q}

\* The counters count calls, so they stay below the bound on calls.
Counters ==
    \A q \in Subtrees :
        /\ current[q] \in Nat
        /\ lastadded[q] \in Nat
        /\ current[q] <= lastadded[q]
        /\ lastadded[q] + Cardinality(Unpublished(q)) = called[q]

\* An operation is in its slot before its publication.
StoredFirst ==
    \A t \in Senders : pc[t] = "add_publish" =>
        At(arg[t].queue, lastadded[arg[t].queue]) = arg[t].op

IInv ==
    /\ QTypeOK
    /\ MutualExclusion
    /\ Counters
    /\ StoredFirst
    /\ OneOperationPerCall
    /\ NoLostWakeup
==============================================================================
