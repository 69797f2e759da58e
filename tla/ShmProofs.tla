------------------------------ MODULE ShmProofs -------------------------------
(***************************************************************************)
(* Proofs about Shm for any number of threads, keys and buckets, and any   *)
(* bucket function.                                                        *)
(***************************************************************************)
EXTENDS Shm, SequenceTheorems, TLAPS

USE BucketAssumption, OpsAssumption, NamesAssumption

-------------------------------------------------------------------------------
(* What the two writing steps do to a chain *)

\* A thread in a call works on one chain, that of its key.
LEMMA OwnChain ==
    ASSUME TypeOK, NEW t \in Threads, pc[t] # "idle"
    PROVE  /\ call[t] \in CallType /\ call[t].key \in Keys
           /\ Bucket[call[t].key] \in Buckets
           /\ Chain(t) = table[Bucket[call[t].key]]
           /\ Chain(t) \in Seq(Record)
<1>1. call[t] \in CallType
    BY DEF TypeOK
<1>2. call[t].key \in Keys
    BY <1>1 DEF CallType
<1>3. Bucket[call[t].key] \in Buckets
    BY <1>2
<1> QED BY <1>1, <1>2, <1>3 DEF TypeOK, Chain

LEMMA EmptyChain ==
    ASSUME NEW chain \in Seq(Record), Len(chain) = 0
    PROVE  DOMAIN chain = {}
<1>1. DOMAIN chain = 1 .. Len(chain)
    BY LenProperties
<1> QED BY <1>1

\* Writing the data of a record keeps the chain's records and their keys.
LEMMA Rewritten ==
    ASSUME NEW chain \in Seq(Record), NEW i \in DOMAIN chain
    PROVE  LET new == [chain EXCEPT ![i].simdata = "example"] IN
           /\ new \in Seq(Record)
           /\ Len(new) = Len(chain)
           /\ \A j \in DOMAIN chain : new[j].key = chain[j].key
<1>1. chain[i] \in Record
    BY ElementOfSeq
<1> DEFINE rec == [chain[i] EXCEPT !.simdata = "example"]
           new == [chain EXCEPT ![i] = rec]
<1>2. rec \in Record /\ rec.key = chain[i].key
    BY <1>1 DEF Record
<1>3. new \in Seq(Record) /\ Len(new) = Len(chain)
    BY <1>2
<1>4. \A j \in DOMAIN chain : new[j].key = chain[j].key
    BY <1>2
<1>5. new = [chain EXCEPT ![i].simdata = "example"]
    OBVIOUS
<1> HIDE DEF new
<1> QED BY <1>3, <1>4, <1>5

\* shm_put found the key: its chain keeps its records.
LEMMA ReplaceChain ==
    ASSUME SInv, NEW t \in Threads, PutReplace(t)
    PROVE  /\ table' \in [Buckets -> Seq(Record)]
           /\ \A b \in Buckets :
                 /\ Len(table'[b]) = Len(table[b])
                 /\ \A i \in DOMAIN table[b] : table'[b][i].key = table[b][i].key
<1> DEFINE c == Bucket[call[t].key]
           new == [Chain(t) EXCEPT ![record[t]].simdata = "example"]
<1>1. /\ pc[t] = "put_replace"
      /\ table' = [table EXCEPT ![c] = new]
    BY DEF PutReplace, SetChain
<1>2. c \in Buckets /\ Chain(t) = table[c] /\ Chain(t) \in Seq(Record)
    BY <1>1, OwnChain DEF SInv
<1>3. record[t] \in DOMAIN Chain(t)
    BY <1>1 DEF SInv, Walked, Matches
<1>4. /\ new \in Seq(Record) /\ Len(new) = Len(Chain(t))
      /\ \A j \in DOMAIN Chain(t) : new[j].key = Chain(t)[j].key
    BY <1>2, <1>3, Rewritten
<1> HIDE DEF c, new
<1> QED BY <1>1, <1>2, <1>4 DEF SInv, TypeOK

\* shm_put did not find the key: its chain gets one more record, at the end.
LEMMA AppendChain ==
    ASSUME SInv, NEW t \in Threads, PutAppend(t)
    PROVE  /\ table' \in [Buckets -> Seq(Record)]
           /\ \A b \in Buckets :
                 /\ b # Bucket[call[t].key] => table'[b] = table[b]
                 /\ \A i \in DOMAIN table[b] : table'[b][i].key = table[b][i].key
           /\ LET b == Bucket[call[t].key] IN
                 /\ Len(table'[b]) = Len(table[b]) + 1
                 /\ table'[b][Len(table[b]) + 1].key = call[t].key
<1> DEFINE c == Bucket[call[t].key]
           last == record[t]
           old == Chain(t)
           written == [SubSeq(old, 1, last) EXCEPT ![last].simdata = "example"]
           chain == IF last = 0 THEN <<New(t, "example")>>
                    ELSE Append(written, New(t, "unwritten"))
<1>1. /\ pc[t] = "put_append"
      /\ table' = [table EXCEPT ![c] = chain]
    BY DEF PutAppend, SetChain
<1>2. c \in Buckets /\ old = table[c] /\ old \in Seq(Record) /\ call[t].key \in Keys
    BY <1>1, OwnChain DEF SInv
<1>3. last = Len(old)
    BY <1>1 DEF SInv, Walked
<1>4. /\ New(t, "example") \in Record /\ New(t, "unwritten") \in Record
      /\ New(t, "example").key = call[t].key /\ New(t, "unwritten").key = call[t].key
    BY <1>2 DEF New, Record
<1>5. /\ chain \in Seq(Record)
      /\ Len(chain) = Len(old) + 1
      /\ \A i \in DOMAIN old : chain[i].key = old[i].key
      /\ chain[Len(old) + 1].key = call[t].key
    <2>1. CASE last = 0
        <3>1. chain = <<New(t, "example")>>
            BY <2>1
        <3> HIDE DEF chain, old, last
        <3>2. Len(old) = 0 /\ DOMAIN old = {}
            BY <1>2, <1>3, <2>1, EmptyChain
        <3> QED BY <1>4, <3>1, <3>2
    <2>2. CASE last # 0
        <3>1. last \in DOMAIN old /\ SubSeq(old, 1, last) = old
            BY <1>2, <1>3, <2>2
        <3>2. /\ written \in Seq(Record) /\ Len(written) = Len(old)
              /\ \A j \in DOMAIN old : written[j].key = old[j].key
            BY <1>2, <3>1, Rewritten
        <3>3. chain = Append(written, New(t, "unwritten"))
            BY <2>2
        <3> HIDE DEF written, chain, old
        <3> QED BY <1>2, <1>4, <3>2, <3>3
    <2> QED BY <2>1, <2>2
<1> HIDE DEF c, last, old, written, chain
<1>6. table' = [table EXCEPT ![c] = chain] /\ c = Bucket[call[t].key]
    BY <1>1 DEF c
<1> QED BY <1>2, <1>5, <1>6 DEF SInv, TypeOK

-------------------------------------------------------------------------------
(* Invariance *)

LEMMA TypeStep ==
    ASSUME SInv, [Next]_vars
    PROVE  TypeOK'
<1> USE DEF SInv
<1>1. ASSUME NEW t \in Threads, NEW type \in {OP_ADD, OP_READ}, NEW k \in Keys,
             Call(t, type, k)
      PROVE  TypeOK'
    <2>1. [type |-> type, key |-> k] \in CallType
        BY DEF CallType
    <2>2. [type |-> type, key |-> k] # NoCall /\ [type |-> type, key |-> k].type = type
        BY <2>1
    <2> DEFINE new == [type |-> type, key |-> k]
    <2>3. new \in CallType /\ new # NoCall /\ new.type = type
        BY <2>1, <2>2
    <2>4. call' = [call EXCEPT ![t] = new]
        BY <1>1 DEF Call
    <2> HIDE DEF new
    <2> QED BY <1>1, <2>3, <2>4 DEF Call, Goto, TypeOK, PutLabels, GetLabels
<1>2. ASSUME NEW t \in Threads, PutLock(t) PROVE TypeOK'
    BY <1>2 DEF PutLock, Goto, TypeOK, PutLabels, GetLabels
<1>3. ASSUME NEW t \in Threads, PutFind(t) PROVE TypeOK'
    <2>1. Chain(t) \in Seq(Record)
        BY <1>3, OwnChain DEF PutFind
    <2>2. record' \in [Threads -> Nat]
        <3>1. Len(Chain(t)) \in Nat /\ \A i \in Matches(t) : i \in Nat
            BY <2>1 DEF Matches
        <3> QED BY <1>3, <3>1 DEF PutFind, TypeOK
    <2> QED BY <1>3, <2>2 DEF PutFind, Goto, TypeOK, PutLabels, GetLabels
<1>4. ASSUME NEW t \in Threads, PutReplace(t) PROVE TypeOK'
    <2>1. table' \in [Buckets -> Seq(Record)]
        BY <1>4, ReplaceChain
    <2> QED BY <1>4, <2>1 DEF PutReplace, Goto, TypeOK, PutLabels, GetLabels
<1>5. ASSUME NEW t \in Threads, PutAppend(t) PROVE TypeOK'
    <2>1. table' \in [Buckets -> Seq(Record)]
        BY <1>5, AppendChain
    <2> QED BY <1>5, <2>1 DEF PutAppend, Goto, TypeOK, PutLabels, GetLabels
<1>6. ASSUME NEW t \in Threads, PutUnlock(t) PROVE TypeOK'
    BY <1>6 DEF PutUnlock, Return, Goto, TypeOK, PutLabels, GetLabels
<1>7. ASSUME NEW t \in Threads, GetLock(t) PROVE TypeOK'
    BY <1>7 DEF GetLock, Goto, TypeOK, PutLabels, GetLabels
<1>8. ASSUME NEW t \in Threads, GetFind(t) PROVE TypeOK'
    <2>1. Chain(t) \in Seq(Record)
        BY <1>8, OwnChain DEF GetFind
    <2>2. record' \in [Threads -> Nat]
        BY <1>8, <2>1 DEF GetFind, Matches, TypeOK
    <2> QED BY <1>8, <2>2 DEF GetFind, Goto, TypeOK, PutLabels, GetLabels
<1>9. ASSUME NEW t \in Threads, GetCopy(t) PROVE TypeOK'
    BY <1>9 DEF GetCopy, Goto, TypeOK, PutLabels, GetLabels
<1>10. ASSUME NEW t \in Threads, GetUnlock(t) PROVE TypeOK'
    BY <1>10 DEF GetUnlock, Return, Goto, TypeOK, PutLabels, GetLabels
<1>11. CASE UNCHANGED vars
    BY <1>11 DEF vars, TypeOK
<1> QED BY <1>1, <1>2, <1>3, <1>4, <1>5, <1>6, <1>7, <1>8, <1>9, <1>10, <1>11
        DEF Next, PutStep, GetStep

\* A key is where its bucket says, once: shm_put appends a key only when its walk
\* has not met it, and the lock keeps everybody else away in between.
LEMMA OneRecordStep ==
    ASSUME SInv, [Next]_vars
    PROVE  OneRecordPerKey'
<1>1. ASSUME NEW t \in Threads, PutReplace(t) PROVE OneRecordPerKey'
    <2>1. \A b \in Buckets :
             /\ DOMAIN table'[b] = DOMAIN table[b]
             /\ \A i \in DOMAIN table[b] : table'[b][i].key = table[b][i].key
        BY <1>1, ReplaceChain, LenProperties DEF SInv, TypeOK
    <2> QED BY <2>1 DEF SInv, OneRecordPerKey
<1>2. ASSUME NEW t \in Threads, PutAppend(t) PROVE OneRecordPerKey'
    <2> DEFINE c == Bucket[call[t].key]
               n == Len(table[c]) + 1
    <2>1. /\ \A b \in Buckets : b # c => table'[b] = table[b]
          /\ table'[c][n].key = call[t].key
          /\ \A i \in DOMAIN table[c] : table'[c][i].key = table[c][i].key
          /\ DOMAIN table'[c] = DOMAIN table[c] \cup {n}
          /\ c \in Buckets
        <3>1. pc[t] = "put_append"
            BY <1>2 DEF PutAppend
        <3>2. c \in Buckets
            BY <3>1, OwnChain DEF SInv
        <3>3. Len(table'[c]) = n /\ table'[c] \in Seq(Record) /\ table[c] \in Seq(Record)
            BY <1>2, <3>2, AppendChain DEF SInv, TypeOK
        <3>4. /\ DOMAIN table'[c] = 1 .. n /\ DOMAIN table[c] = 1 .. Len(table[c])
              /\ Len(table[c]) \in Nat
            BY <3>3, LenProperties
        <3>5. DOMAIN table'[c] = DOMAIN table[c] \cup {n}
            BY <3>4
        <3> QED BY <1>2, <3>2, <3>5, AppendChain
    <2>2. \A i \in DOMAIN table[c] : table[c][i].key # call[t].key
        BY <1>2 DEF PutAppend, SInv, Walked, Matches, Chain
    <2>3. Bucket[call[t].key] = c
        OBVIOUS
    <2> HIDE DEF c, n
    <2> QED BY <2>1, <2>2, <2>3 DEF SInv, OneRecordPerKey
<1>3. CASE UNCHANGED table
    BY <1>3 DEF SInv, OneRecordPerKey
<1> QED BY <1>1, <1>2, <1>3
        DEF Next, PutStep, GetStep, Call, PutLock, PutFind, PutUnlock,
            GetLock, GetFind, GetCopy, GetUnlock, vars

\* A writer is alone.
LEMMA WriterStep ==
    ASSUME SInv, [Next]_vars
    PROVE  (writer # NoThread => readers = {})'
<1>1. ASSUME NEW t \in Threads, PutLock(t) PROVE (writer # NoThread => readers = {})'
    BY <1>1 DEF PutLock
<1>2. ASSUME NEW t \in Threads, PutUnlock(t) PROVE (writer # NoThread => readers = {})'
    BY <1>2 DEF PutUnlock
<1>3. ASSUME NEW t \in Threads, GetLock(t) PROVE (writer # NoThread => readers = {})'
    BY <1>3 DEF GetLock
<1>4. ASSUME NEW t \in Threads, GetUnlock(t) PROVE (writer # NoThread => readers = {})'
    BY <1>4 DEF GetUnlock, SInv
<1>5. CASE UNCHANGED <<writer, readers>>
    BY <1>5 DEF SInv
<1> QED BY <1>1, <1>2, <1>3, <1>4, <1>5
        DEF Next, PutStep, GetStep, Call, PutFind, PutReplace, PutAppend,
            GetFind, GetCopy, vars

\* While a thread writes, nobody else is between the calls of the lock.
LEMMA Alone ==
    ASSUME SInv, NEW t \in Threads, pc[t] \in PutLabels \ {"put_lock"},
           NEW u \in Threads, u # t
    PROVE  pc[u] \in {"idle", "put_lock", "get_lock"}
<1>1. writer = t /\ readers = {}
    BY DEF SInv, TypeOK
<1> QED BY <1>1 DEF SInv, TypeOK, PutLabels, GetLabels

\* What Walked says of one thread.
WalkedBy(t) ==
    /\ pc[t] \in {"idle", "put_lock", "put_find", "get_lock", "get_find"} => record[t] = 0
    /\ pc[t] \in {"put_replace", "get_copy"} => record[t] \in Matches(t)
    /\ pc[t] = "put_append" => Matches(t) = {} /\ record[t] = Len(Chain(t))

\* What a walk found is only touched by a writer, who is alone.
LEMMA WalkedStep ==
    ASSUME SInv, [Next]_vars
    PROVE  Walked'
<1>1. SUFFICES ASSUME NEW u \in Threads PROVE WalkedBy(u)'
    BY DEF Walked, WalkedBy
<1>2. WalkedBy(u)
    BY DEF SInv, Walked, WalkedBy
<1>3. ASSUME UNCHANGED <<table, pc[u], call[u], record[u]>> PROVE WalkedBy(u)'
    BY <1>2, <1>3 DEF WalkedBy, Matches, Chain
<1>4. ASSUME NEW t \in Threads, NEW type \in {OP_ADD, OP_READ}, NEW k \in Keys,
             Call(t, type, k)
      PROVE  WalkedBy(u)'
    <2>1. CASE t = u
        BY <1>2, <1>4, <2>1 DEF Call, Goto, WalkedBy, SInv, TypeOK
    <2>2. CASE t # u
        BY <1>3, <1>4, <2>2 DEF Call, Goto, SInv, TypeOK
    <2> QED BY <2>1, <2>2
<1>5. ASSUME NEW t \in Threads, PutLock(t) \/ GetLock(t) PROVE WalkedBy(u)'
    <2>1. CASE t = u
        BY <1>2, <1>5, <2>1 DEF PutLock, GetLock, Goto, WalkedBy, SInv, TypeOK
    <2>2. CASE t # u
        BY <1>3, <1>5, <2>2 DEF PutLock, GetLock, Goto, SInv, TypeOK
    <2> QED BY <2>1, <2>2
<1>6. ASSUME NEW t \in Threads, PutFind(t) \/ GetFind(t) PROVE WalkedBy(u)'
    <2>1. CASE t = u
        <3>1. Matches(u)' = Matches(u) /\ Chain(u)' = Chain(u)
            BY <1>6, <2>1 DEF PutFind, GetFind, Matches, Chain
        <3>2. \/ pc'[u] \in {"put_replace", "get_copy"} /\ record'[u] \in Matches(u)
              \/ pc'[u] = "put_append" /\ Matches(u) = {} /\ record'[u] = Len(Chain(u))
              \/ pc'[u] = "get_unlock"
            BY <1>6, <2>1 DEF PutFind, GetFind, Goto, SInv, TypeOK
        <3> QED BY <3>1, <3>2 DEF WalkedBy
    <2>2. CASE t # u
        BY <1>3, <1>6, <2>2 DEF PutFind, GetFind, Goto, SInv, TypeOK
    <2> QED BY <2>1, <2>2
<1>7. ASSUME NEW t \in Threads, PutReplace(t) \/ PutAppend(t) PROVE WalkedBy(u)'
    <2>1. CASE t = u
        BY <1>7, <2>1 DEF PutReplace, PutAppend, Goto, WalkedBy, SInv, TypeOK
    <2>2. CASE t # u
        <3>1. pc[u] \in {"idle", "put_lock", "get_lock"}
            BY <1>7, <2>2, Alone DEF PutReplace, PutAppend, PutLabels
        <3>2. pc'[u] = pc[u] /\ record'[u] = record[u]
            BY <1>7, <2>2 DEF PutReplace, PutAppend, Goto, SInv, TypeOK
        <3> QED BY <1>2, <3>1, <3>2 DEF WalkedBy
    <2> QED BY <2>1, <2>2
<1>8. ASSUME NEW t \in Threads, GetCopy(t) PROVE WalkedBy(u)'
    <2>1. CASE t = u
        BY <1>8, <2>1 DEF GetCopy, Goto, WalkedBy, SInv, TypeOK
    <2>2. CASE t # u
        BY <1>3, <1>8, <2>2 DEF GetCopy, Goto, SInv, TypeOK
    <2> QED BY <2>1, <2>2
<1>9. ASSUME NEW t \in Threads, PutUnlock(t) \/ GetUnlock(t) PROVE WalkedBy(u)'
    <2>1. CASE t = u
        BY <1>9, <2>1 DEF PutUnlock, GetUnlock, Return, Goto, WalkedBy, SInv, TypeOK
    <2>2. CASE t # u
        BY <1>3, <1>9, <2>2 DEF PutUnlock, GetUnlock, Return, Goto, SInv, TypeOK
    <2> QED BY <2>1, <2>2
<1>10. CASE UNCHANGED vars
    BY <1>3, <1>10 DEF vars
<1> QED BY <1>4, <1>5, <1>6, <1>7, <1>8, <1>9, <1>10 DEF Next, PutStep, GetStep

LEMMA InitSInv == Init => SInv
<1> SUFFICES ASSUME Init PROVE SInv
    OBVIOUS
<1>1. \A b \in Buckets : table[b] = <<>> /\ DOMAIN table[b] = {}
    BY DEF Init
<1>2. TypeOK
    <2>1. table \in [Buckets -> Seq(Record)]
        BY EmptySeq DEF Init
    <2> QED BY <2>1 DEF Init, TypeOK, PutLabels, GetLabels
<1>3. OneRecordPerKey
    BY <1>1 DEF OneRecordPerKey
<1>4. Walked
    BY DEF Init, Walked
<1> QED BY <1>2, <1>3, <1>4 DEF SInv, Init

\* SInv is an invariant of the hash map.
THEOREM ShmInvariance == Spec => []SInv
<1>1. SInv /\ [Next]_vars => SInv'
    <2>1. SUFFICES ASSUME SInv, [Next]_vars PROVE SInv'
        OBVIOUS
    <2> QED BY <2>1, TypeStep, OneRecordStep, WalkedStep, WriterStep DEF SInv
<1> QED BY <1>1, InitSInv, PTL DEF Spec

\* Types of the hash map; the lock is held exactly between its two calls.
THEOREM ShmTypeCorrect == Spec => []TypeOK
<1>1. SInv => TypeOK
    BY DEF SInv
<1> QED BY <1>1, ShmInvariance, PTL

\* However many threads put the same key at once, it gets one record.
THEOREM KeysAreUnique == Spec => []OneRecordPerKey
<1>1. SInv => OneRecordPerKey
    BY DEF SInv
<1> QED BY <1>1, ShmInvariance, PTL

\* The address that shm_get returns stays that of its key's record for ever.
THEOREM RecordsDoStay == Spec => RecordsStay
<1> DEFINE Stays ==
        \A b \in Buckets : \A i \in DOMAIN table[b] :
            i \in DOMAIN table'[b] /\ table'[b][i].key = table[b][i].key
<1>1. ASSUME SInv, [Next]_vars PROVE Stays
    <2>1. CASE UNCHANGED table
        BY <2>1
    <2>2. ASSUME NEW t \in Threads, PutReplace(t) PROVE Stays
        BY <1>1, <2>2, ReplaceChain, LenProperties DEF SInv, TypeOK
    <2>3. ASSUME NEW t \in Threads, PutAppend(t) PROVE Stays
        <3>1. SUFFICES ASSUME NEW b \in Buckets, NEW i \in DOMAIN table[b]
                       PROVE  i \in DOMAIN table'[b] /\ table'[b][i].key = table[b][i].key
            OBVIOUS
        <3>2. table[b] \in Seq(Record) /\ table'[b] \in Seq(Record)
            BY <1>1, <2>3, AppendChain DEF SInv, TypeOK
        <3>3. Len(table'[b]) \in {Len(table[b]), Len(table[b]) + 1}
            BY <1>1, <2>3, AppendChain
        <3> QED BY <1>1, <2>3, <3>2, <3>3, AppendChain, LenProperties
    <2> QED BY <1>1, <2>1, <2>2, <2>3
            DEF Next, PutStep, GetStep, Call, PutLock, PutFind, PutUnlock,
                GetLock, GetFind, GetCopy, GetUnlock, vars
<1>2. SInv /\ [Next]_vars => [Stays]_vars
    BY <1>1
<1> QED BY <1>2, ShmInvariance, PTL DEF Spec, RecordsStay

-------------------------------------------------------------------------------
(* The hash map implements the key-value store *)

Store == UNION {{table[b][i].key : i \in DOMAIN table[b]} : b \in Buckets}

LEMMA InStore ==
    \A k : k \in Store <=> \E b \in Buckets : \E i \in DOMAIN table[b] : table[b][i].key = k
BY DEF Store

Results == [u \in Threads |-> ResultOf(u)]

\* A step of one thread changes the result of that thread only.
LEMMA OwnResult ==
    ASSUME NEW t \in Threads, NEW v,
           \A u \in Threads : u # t => pc'[u] = pc[u] /\ record'[u] = record[u],
           ResultOf(t)' = v
    PROVE  Results' = [Results EXCEPT ![t] = v]
<1>1. \A u \in Threads : u # t => ResultOf(u)' = ResultOf(u)
    BY DEF ResultOf
<1>2. \A u \in Threads : Results'[u] = ResultOf(u)'
    BY DEF Results
<1>3. \A u \in Threads : [Results EXCEPT ![t] = v][u] = IF u = t THEN v ELSE ResultOf(u)
    BY DEF Results
<1>4. DOMAIN Results' = Threads /\ DOMAIN [Results EXCEPT ![t] = v] = Threads
    BY DEF Results
<1>5. \A u \in Threads : Results'[u] = [Results EXCEPT ![t] = v][u]
    BY <1>1, <1>2, <1>3
<1>6. Results' = [u \in Threads |-> ResultOf(u)']
    BY DEF Results
<1>7. [Results EXCEPT ![t] = v] = [u \in Threads |-> IF u = t THEN v ELSE ResultOf(u)]
    BY DEF Results
<1> QED BY <1>1, <1>6, <1>7

\* A key is found in its own chain or nowhere.
LEMMA FoundInStore ==
    ASSUME SInv, NEW t \in Threads, pc[t] # "idle"
    PROVE  Matches(t) # {} <=> call[t].key \in Store
<1>1. /\ Bucket[call[t].key] \in Buckets
      /\ Chain(t) = table[Bucket[call[t].key]]
    BY OwnChain DEF SInv
<1>2. \A b \in Buckets : \A i \in DOMAIN table[b] : Bucket[table[b][i].key] = b
    BY DEF SInv, OneRecordPerKey
<1> QED BY <1>1, <1>2, InStore DEF Matches

\* A put takes effect when it writes.
LEMMA PutStepMaps ==
    ASSUME SInv, SInv', NEW t \in Threads, PutReplace(t) \/ PutAppend(t)
    PROVE  KV!Put(t)
<1>1. /\ pc[t] \in {"put_replace", "put_append"}
      /\ pc' = [pc EXCEPT ![t] = "put_unlock"] /\ UNCHANGED <<call, record>>
    BY DEF PutReplace, PutAppend, Goto
<1>2. KV!Pending(t, OP_ADD)
    BY <1>1 DEF KV!Pending, ResultOf, SInv, TypeOK, PutLabels
<1>3. Results' = [Results EXCEPT ![t] = 2]
    <2>1. ResultOf(t)' = 2
        BY <1>1 DEF ResultOf, SInv, TypeOK
    <2>2. \A u \in Threads : u # t => pc'[u] = pc[u] /\ record'[u] = record[u]
        BY <1>1 DEF SInv, TypeOK
    <2> QED BY <2>1, <2>2, OwnResult
<1>4. Store' = Store \cup {call[t].key}
    <2> DEFINE c == Bucket[call[t].key]
    <2>1. c \in Buckets
        BY <1>1, OwnChain DEF SInv
    <2>2. CASE PutReplace(t)
        <3>1. \A b \in Buckets :
                 /\ DOMAIN table'[b] = DOMAIN table[b]
                 /\ \A i \in DOMAIN table[b] : table'[b][i].key = table[b][i].key
            BY <2>2, ReplaceChain, LenProperties DEF SInv, TypeOK
        <3>2. Store' = Store
            BY <3>1 DEF Store
        <3>3. Matches(t) # {}
            BY <2>2 DEF PutReplace, SInv, Walked
        <3> QED BY <1>1, <3>2, <3>3, FoundInStore
    <2>3. CASE PutAppend(t)
        <3> DEFINE n == Len(table[c]) + 1
        <3>1. Len(table'[c]) = n /\ table'[c] \in Seq(Record) /\ table[c] \in Seq(Record)
            BY <2>1, <2>3, AppendChain DEF SInv, TypeOK
        <3>2. /\ DOMAIN table'[c] = 1 .. n /\ DOMAIN table[c] = 1 .. Len(table[c])
              /\ Len(table[c]) \in Nat
            BY <3>1, LenProperties
        <3>3. DOMAIN table'[c] = DOMAIN table[c] \cup {n}
            BY <3>2
        <3>4. /\ \A b \in Buckets : b # c => table'[b] = table[b]
              /\ \A i \in DOMAIN table[c] : table'[c][i].key = table[c][i].key
              /\ table'[c][n].key = call[t].key
            BY <2>1, <2>3, AppendChain
        <3> HIDE DEF c, n
        <3> QED BY <2>1, <3>3, <3>4 DEF Store
    <2> QED BY <2>2, <2>3
<1> QED BY <1>1, <1>2, <1>3, <1>4 DEF KV!Put, Store, Results

\* A get takes effect when its walk ends.
LEMMA GetStepMaps ==
    ASSUME SInv, SInv', NEW t \in Threads, GetFind(t)
    PROVE  KV!Get(t)
<1>1. pc[t] = "get_find" /\ UNCHANGED <<table, call>>
    BY DEF GetFind
<1>2. KV!Pending(t, OP_READ)
    <2>1. call[t] # NoCall /\ call[t].type # OP_ADD /\ ResultOf(t) = 0
        BY <1>1 DEF ResultOf, SInv, TypeOK, PutLabels
    <2>2. call[t].type \in {OP_ADD, OP_READ}
        BY <1>1, OwnChain DEF SInv, CallType
    <2> QED BY <2>1, <2>2 DEF KV!Pending
<1>3. ResultOf(t)' = IF call[t].key \in Store THEN 2 ELSE 1
    <2>1. CASE Matches(t) # {}
        <3>1. pc'[t] = "get_copy" /\ record'[t] \in Matches(t)
            BY <2>1 DEF GetFind, Goto, SInv, TypeOK
        <3>2. record'[t] # 0
            BY <1>1, <3>1, OwnChain, LenProperties DEF Matches, SInv
        <3> QED BY <1>1, <2>1, <3>1, <3>2, FoundInStore DEF ResultOf
    <2>2. CASE Matches(t) = {}
        <3>1. pc'[t] = "get_unlock" /\ record'[t] = 0
            BY <1>1, <2>2 DEF GetFind, Goto, SInv, TypeOK, Walked
        <3> QED BY <1>1, <2>2, <3>1, FoundInStore DEF ResultOf
    <2> QED BY <2>1, <2>2
<1>4. \A u \in Threads : u # t => pc'[u] = pc[u] /\ record'[u] = record[u]
    BY DEF GetFind, Goto, SInv, TypeOK
<1>5. Results' = [Results EXCEPT ![t] = IF call[t].key \in Store THEN 2 ELSE 1]
    BY <1>3, <1>4, OwnResult
<1> QED BY <1>1, <1>2, <1>5 DEF KV!Get, Store, Results

\* A call begins and ends as the abstract one does.
LEMMA CallMaps ==
    ASSUME SInv, NEW t \in Threads, NEW type \in {OP_ADD, OP_READ}, NEW k \in Keys,
           Call(t, type, k)
    PROVE  KV!Invoke(t)
<1>1. /\ call[t] = NoCall
      /\ call' = [call EXCEPT ![t] = [type |-> type, key |-> k]]
      /\ UNCHANGED table
    BY DEF Call, SInv, TypeOK
<1>2. UNCHANGED Results
    <2>1. \A u \in Threads : ResultOf(u)' = ResultOf(u)
        BY DEF Call, Goto, ResultOf, SInv, TypeOK
    <2> QED BY <2>1 DEF Results
<1>3. \E ty \in {OP_ADD, OP_READ}, key \in Keys :
          call' = [call EXCEPT ![t] = [type |-> ty, key |-> key]]
    BY <1>1
<1>4. UNCHANGED Store
    BY <1>1 DEF Store
<1> QED BY <1>1, <1>2, <1>3, <1>4 DEF KV!Invoke, Store, Results

LEMMA ReturnMaps ==
    ASSUME SInv, NEW t \in Threads, PutUnlock(t) \/ GetUnlock(t)
    PROVE  KV!Return(t)
<1>1. /\ pc[t] \in {"put_unlock", "get_unlock"}
      /\ call' = [call EXCEPT ![t] = NoCall] /\ UNCHANGED table
    BY DEF PutUnlock, GetUnlock, Return
<1>2. ResultOf(t) # 0
    BY <1>1 DEF ResultOf
<1>3. Results' = [Results EXCEPT ![t] = 0]
    <2>1. ResultOf(t)' = 0
        BY DEF PutUnlock, GetUnlock, Return, Goto, ResultOf, SInv, TypeOK
    <2>2. \A u \in Threads : u # t => pc'[u] = pc[u] /\ record'[u] = record[u]
        BY DEF PutUnlock, GetUnlock, Return, Goto, SInv, TypeOK
    <2> QED BY <2>1, <2>2, OwnResult
<1> QED BY <1>1, <1>2, <1>3 DEF KV!Return, Results

\* Taking the lock, walking for a put and copying data decide nothing.
LEMMA QuietMaps ==
    ASSUME SInv, NEW t \in Threads,
           PutLock(t) \/ PutFind(t) \/ GetLock(t) \/ GetCopy(t)
    PROVE  UNCHANGED KV!vars
<1>1. UNCHANGED <<table, call>>
    BY DEF PutLock, PutFind, GetLock, GetCopy
<1>2. \A u \in Threads : ResultOf(u)' = ResultOf(u)
    BY DEF PutLock, PutFind, GetLock, GetCopy, Goto, ResultOf, SInv, TypeOK
<1> QED BY <1>1, <1>2 DEF KV!vars

\* Linearizability: called by any number of threads, the hash map is one store
\* whose puts and gets are atomic.
THEOREM ShmLinearizable == Spec => ImplementsKVStore
<1>1. Init => KV!Init
    <2>1. SUFFICES ASSUME Init PROVE KV!Init
        OBVIOUS
    <2>2. /\ \A b \in Buckets : DOMAIN table[b] = {}
          /\ \A t \in Threads : ResultOf(t) = 0
        BY <2>1 DEF Init, ResultOf
    <2> QED BY <2>1, <2>2 DEF Init, KV!Init
<1>2. SInv /\ SInv' /\ [Next]_vars => [KV!Next]_KV!vars
    <2>1. SUFFICES ASSUME SInv, SInv', [Next]_vars PROVE [KV!Next]_KV!vars
        OBVIOUS
    <2>2. ASSUME NEW t \in Threads, PutReplace(t) \/ PutAppend(t) PROVE KV!Put(t)
        BY <2>1, <2>2, PutStepMaps
    <2>3. ASSUME NEW t \in Threads, GetFind(t) PROVE KV!Get(t)
        BY <2>1, <2>3, GetStepMaps
    <2>4. ASSUME NEW t \in Threads, NEW type \in {OP_ADD, OP_READ}, NEW k \in Keys,
                 Call(t, type, k)
          PROVE  KV!Invoke(t)
        BY <2>1, <2>4, CallMaps
    <2>5. ASSUME NEW t \in Threads, PutUnlock(t) \/ GetUnlock(t) PROVE KV!Return(t)
        BY <2>1, <2>5, ReturnMaps
    <2>6. ASSUME NEW t \in Threads,
                 PutLock(t) \/ PutFind(t) \/ GetLock(t) \/ GetCopy(t)
          PROVE  UNCHANGED KV!vars
        BY <2>1, <2>6, QuietMaps
    <2>7. CASE UNCHANGED vars
        BY <2>7 DEF vars, KV!vars, ResultOf
    <2> QED BY <2>1, <2>2, <2>3, <2>4, <2>5, <2>6, <2>7
            DEF Next, PutStep, GetStep, KV!Next
<1> QED BY <1>1, <1>2, ShmInvariance, PTL DEF Spec, ImplementsKVStore, KV!Spec

===============================================================================
