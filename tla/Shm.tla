--------------------------------- MODULE Shm ---------------------------------
(***************************************************************************)
(* The hash map of SimpleHashMap/shm.c: a fixed table of buckets, a chain  *)
(* of records per bucket, and one reader-writer lock for the whole map.    *)
(* Under gps.c only one thread calls each map; under baseline.c, where     *)
(* db_put and db_get are direct calls, every client thread calls the same  *)
(* one.  Records are never removed or moved, so a record is named by its   *)
(* bucket and its position in the chain.  The values are not told apart.   *)
(***************************************************************************)
EXTENDS Naturals, Sequences, FiniteSets

CONSTANTS
    Threads,   \* the threads that call shm_put and shm_get
    Keys,
    Buckets,   \* 10000000 of them in shmmiddleware.c
    Bucket,    \* simplehash(key) % map->size, for each key
    OP_ADD, OP_READ,
    NoThread,  \* the holder of a lock that no writer holds
    NoCall     \* a thread outside shm_put and shm_get

\* What simdata holds: a copy of EXAMPLEDATA_R, or what malloc returned.
Record == [key : Keys, simdata : {"example", "unwritten"}]

CallType == [type : {OP_ADD, OP_READ}, key : Keys]

ASSUME BucketAssumption == Bucket \in [Keys -> Buckets]

ASSUME OpsAssumption == OP_ADD # OP_READ

ASSUME NamesAssumption == NoThread \notin Threads /\ NoCall \notin CallType

VARIABLES
    table,    \* the chain of each bucket; a bucket that is not `used' has none
    writer,   \* the thread that holds map->lock for writing, or NoThread
    readers,  \* the threads that hold it for reading
    pc,       \* where each thread is
    call,     \* what each thread was asked to do
    record    \* the local pointer `record': a position in the chain, 0 for NULL

vars == <<table, writer, readers, pc, call, record>>

Goto(t, label) == pc' = [pc EXCEPT ![t] = label]

\* The chain of the bucket of thread t's key.
Chain(t) == table[Bucket[call[t].key]]

\* The positions in that chain of records with the key.
Matches(t) == {i \in DOMAIN Chain(t) : Chain(t)[i].key = call[t].key}

SetChain(t, chain) == table' = [table EXCEPT ![Bucket[call[t].key]] = chain]

New(t, simdata) == [key |-> call[t].key, simdata |-> simdata]

\* shm_new
Init ==
    /\ table = [b \in Buckets |-> <<>>]
    /\ writer = NoThread
    /\ readers = {}
    /\ pc = [t \in Threads |-> "idle"]
    /\ call = [t \in Threads |-> NoCall]
    /\ record = [t \in Threads |-> 0]

\* A thread calls shm_put or shm_get.
Call(t, type, k) ==
    /\ pc[t] = "idle"
    /\ call' = [call EXCEPT ![t] = [type |-> type, key |-> k]]
    /\ Goto(t, IF type = OP_ADD THEN "put_lock" ELSE "get_lock")
    /\ UNCHANGED <<table, writer, readers, record>>

\* Every path releases the lock and returns.
Return(t) ==
    /\ call' = [call EXCEPT ![t] = NoCall]
    /\ record' = [record EXCEPT ![t] = 0]
    /\ Goto(t, "idle")

-------------------------------------------------------------------------------
(* shm_put *)

\* Mutant of PutLock: the lock is taken for reading.
PutRdLock(t) ==
    /\ pc[t] = "put_lock"
    /\ writer = NoThread
    /\ readers' = readers \cup {t}
    /\ Goto(t, "put_find")
    /\ UNCHANGED <<table, writer, call, record>>

PutLock(t) ==
    /\ pc[t] = "put_lock"
    /\ writer = NoThread /\ readers = {}
    /\ writer' = t
    /\ Goto(t, "put_find")
    /\ UNCHANGED <<table, readers, call, record>>

\* Mutant of PutFind: only the first record of the chain is compared.
PutFindFirst(t) ==
    /\ pc[t] = "put_find"
    /\ IF 1 \in Matches(t)
       THEN record' = [record EXCEPT ![t] = 1] /\ Goto(t, "put_replace")
       ELSE record' = [record EXCEPT ![t] = Len(Chain(t))] /\ Goto(t, "put_append")
    /\ UNCHANGED <<table, writer, readers, call>>

\* The walk ends at the record with the key, or else at the tail of the chain.
PutFind(t) ==
    /\ pc[t] = "put_find"
    /\ \/ /\ \E i \in Matches(t) :
                /\ \A j \in Matches(t) : i <= j
                /\ record' = [record EXCEPT ![t] = i]
          /\ Goto(t, "put_replace")
       \/ /\ Matches(t) = {}
          /\ record' = [record EXCEPT ![t] = Len(Chain(t))]
          /\ Goto(t, "put_append")
    /\ UNCHANGED <<table, writer, readers, call>>

\* Mutant of PutReplace: the early return forgets the lock.
PutReplaceLocked(t) ==
    /\ pc[t] = "put_replace"
    /\ SetChain(t, [Chain(t) EXCEPT ![record[t]].simdata = "example"])
    /\ Return(t)
    /\ UNCHANGED <<writer, readers>>

PutReplace(t) ==
    /\ pc[t] = "put_replace"
    /\ SetChain(t, [Chain(t) EXCEPT ![record[t]].simdata = "example"])
    /\ Goto(t, "put_unlock")
    /\ UNCHANGED <<writer, readers, call, record>>

\* An unused bucket is filled in place.  Otherwise the new record becomes the
\* successor of the tail that was found, and line 98 writes the simdata of that
\* tail: the new record's stays as malloc returned it.
PutAppend(t) ==
    /\ pc[t] = "put_append"
    /\ SetChain(t,
           IF record[t] = 0
           THEN <<New(t, "example")>>
           ELSE Append([SubSeq(Chain(t), 1, record[t])
                           EXCEPT ![record[t]].simdata = "example"],
                       New(t, "unwritten")))
    /\ Goto(t, "put_unlock")
    /\ UNCHANGED <<writer, readers, call, record>>

PutUnlock(t) ==
    /\ pc[t] = "put_unlock"
    /\ writer' = NoThread
    /\ Return(t)
    /\ UNCHANGED <<table, readers>>

-------------------------------------------------------------------------------
(* shm_get *)

GetLock(t) ==
    /\ pc[t] = "get_lock"
    /\ writer = NoThread
    /\ readers' = readers \cup {t}
    /\ Goto(t, "get_find")
    /\ UNCHANGED <<table, writer, call, record>>

\* Mutant of GetFind: a miss returns without the unlock of line 143.
GetFindLocked(t) ==
    /\ pc[t] = "get_find"
    /\ IF Matches(t) = {}
       THEN Return(t)
       ELSE record' = [record EXCEPT ![t] = 1] /\ Goto(t, "get_copy") /\ UNCHANGED call
    /\ UNCHANGED <<table, writer, readers>>

\* Mutant of GetFind: only the first record of the chain is compared.
GetFindFirst(t) ==
    /\ pc[t] = "get_find"
    /\ IF 1 \in Matches(t)
       THEN record' = [record EXCEPT ![t] = 1] /\ Goto(t, "get_copy")
       ELSE Goto(t, "get_unlock") /\ UNCHANGED record
    /\ UNCHANGED <<table, writer, readers, call>>

GetFind(t) ==
    /\ pc[t] = "get_find"
    /\ \/ /\ \E i \in Matches(t) :
                /\ \A j \in Matches(t) : i <= j
                /\ record' = [record EXCEPT ![t] = i]
          /\ Goto(t, "get_copy")
       \/ /\ Matches(t) = {}
          /\ Goto(t, "get_unlock")
          /\ UNCHANGED record
    /\ UNCHANGED <<table, writer, readers, call>>

\* strcpy(map->EXAMPLEDATA_W, record->simdata); nothing ever reads EXAMPLEDATA_W.
GetCopy(t) ==
    /\ pc[t] = "get_copy"
    /\ Goto(t, "get_unlock")
    /\ UNCHANGED <<table, writer, readers, call, record>>

\* Returns NULL, or the address of the value in the record.
GetUnlock(t) ==
    /\ pc[t] = "get_unlock"
    /\ readers' = readers \ {t}
    /\ Return(t)
    /\ UNCHANGED <<table, writer>>

-------------------------------------------------------------------------------
PutStep(t) ==
    \/ PutLock(t)
    \/ PutFind(t)
    \/ PutReplace(t)
    \/ PutAppend(t)
    \/ PutUnlock(t)

GetStep(t) ==
    \/ GetLock(t)
    \/ GetFind(t)
    \/ GetCopy(t)
    \/ GetUnlock(t)

Next ==
    \E t \in Threads :
        \/ \E type \in {OP_ADD, OP_READ}, k \in Keys : Call(t, type, k)
        \/ PutStep(t)
        \/ GetStep(t)

Spec == Init /\ [][Next]_vars

\* No thread that can run is starved, and a reader gets a lock that is free of
\* writers again and again, which is what the default lock of glibc prefers.  It
\* may keep a writer waiting for as long as readers overlap.
Fairness ==
    \A t \in Threads :
        /\ WF_vars(PutStep(t) \/ GetStep(t))
        /\ SF_vars(GetLock(t))

FairSpec == Spec /\ Fairness

-------------------------------------------------------------------------------
(* Properties *)

PutLabels == {"put_lock", "put_find", "put_replace", "put_append", "put_unlock"}
GetLabels == {"get_lock", "get_find", "get_copy", "get_unlock"}

\* Type invariant; a thread holds the lock exactly between its two calls of it.
TypeOK ==
    /\ table \in [Buckets -> Seq(Record)]
    /\ writer \in Threads \cup {NoThread}
    /\ readers \subseteq Threads
    /\ pc \in [Threads -> {"idle"} \cup PutLabels \cup GetLabels]
    /\ call \in [Threads -> CallType \cup {NoCall}]
    /\ record \in [Threads -> Nat]
    /\ \A t \in Threads :
        /\ call[t] = NoCall <=> pc[t] = "idle"
        /\ call[t] # NoCall => (call[t].type = OP_ADD <=> pc[t] \in PutLabels)
        /\ writer = t <=> pc[t] \in PutLabels \ {"put_lock"}
        /\ t \in readers <=> pc[t] \in GetLabels \ {"get_lock"}

\* A key has one record at most, in its own bucket's chain, although shm_put
\* looks for it and appends it in two steps: or a later shm_put would update one
\* record and shm_get read another.
OneRecordPerKey ==
    \A b \in Buckets : \A i \in DOMAIN table[b] :
        /\ Bucket[table[b][i].key] = b
        /\ \A j \in DOMAIN table[b] : table[b][i].key = table[b][j].key => i = j

\* shm_get returns an address in a record and drops the lock, so no later call
\* may unlink that record or use it for another key.
RecordsStay ==
    [][\A b \in Buckets : \A i \in DOMAIN table[b] :
          i \in DOMAIN table'[b] /\ table'[b][i].key = table[b][i].key]_vars

\* The result of a call, as soon as it is decided: 1 is a miss, 2 a hit or a put.
ResultOf(t) ==
    CASE pc[t] = "put_unlock" -> 2
      [] pc[t] \in {"get_copy", "get_unlock"} -> IF record[t] = 0 THEN 1 ELSE 2
      [] OTHER -> 0

KV == INSTANCE KVStore WITH
    Clients <- Threads,
    store <- UNION {{table[b][i].key : i \in DOMAIN table[b]} : b \in Buckets},
    res <- [t \in Threads |-> ResultOf(t)]

\* Called by many threads the map is a linearizable store: a get finds exactly
\* the keys whose put took effect before it.
ImplementsKVStore == KV!Spec

\* Every shm_get returns: whichever path a writer or a reader took, it gave the
\* lock back.
EveryGetReturns == \A t \in Threads : pc[t] = "get_lock" ~> pc[t] = "idle"

-------------------------------------------------------------------------------
(* The inductive invariant *)

\* What a walk found stays true until the lock is released.
Walked ==
    \A t \in Threads :
        /\ pc[t] \in {"idle", "put_lock", "put_find", "get_lock", "get_find"} =>
              record[t] = 0
        /\ pc[t] \in {"put_replace", "get_copy"} => record[t] \in Matches(t)
        /\ pc[t] = "put_append" => Matches(t) = {} /\ record[t] = Len(Chain(t))

SInv ==
    /\ TypeOK
    /\ OneRecordPerKey
    /\ Walked
    /\ writer # NoThread => readers = {}
==============================================================================
