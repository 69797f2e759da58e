------------------------------ MODULE GpsProofs -------------------------------
(***************************************************************************)
(* Proofs about the message queues (MsgQ) and the store on top of them     *)
(* (Gps): first the queues, for any number of clients, queues and slots,   *)
(* and then the store, for any clients, substructures and keys.            *)
(***************************************************************************)
EXTENDS Gps, FiniteSetTheorems, SequenceTheorems, TLAPS

USE LenghtAssumption, IntMaxAssumption, MaxAddsAssumption, ThreadsAssumption,
    UnsetAssumption

-------------------------------------------------------------------------------
(* Slots *)

\* Two positions less than one lap apart have different remainders.
LEMMA RemaindersDiffer ==
    ASSUME NEW L \in Nat \ {0}, NEW i \in Nat, NEW n \in Nat, i < n, n - i < L
    PROVE  i % L # n % L
<1>1. PICK qi \in Int : i = L * qi + (i % L)
    <2>1. i = L * (i \div L) + (i % L) /\ i \div L \in Int
        OBVIOUS
    <2> QED BY <2>1
<1>2. PICK qn \in Int : n = L * qn + (n % L)
    <2>1. n = L * (n \div L) + (n % L) /\ n \div L \in Int
        OBVIOUS
    <2> QED BY <2>1
<1>3. SUFFICES ASSUME i % L = n % L PROVE FALSE
    OBVIOUS
<1>4. i % L \in Int
    OBVIOUS
<1>5. n - i = L * (qn - qi)
    BY <1>1, <1>2, <1>3, <1>4
<1>6. qn - qi >= 1
    <2>1. SUFFICES ASSUME qn - qi <= 0 PROVE FALSE
        OBVIOUS
    <2>2. L * (qn - qi) <= 0
        BY <2>1
    <2> QED BY <2>2, <1>5
<1>7. L * (qn - qi) >= L
    BY <1>6
<1> QED BY <1>5, <1>7

\* A position that did not overflow has a slot of the array, ...
LEMMA SlotOfPosition ==
    ASSUME NEW x \in Nat
    PROVE  Slot(x) = x % Lenght /\ Slot(x) \in Slots
BY DEF Slot, Slots

\* ... and the positions of one lap have different slots.
LEMMA SlotsDiffer ==
    ASSUME NEW i \in Nat, NEW n \in Nat, i < n, n - i < Lenght
    PROVE  Slot(i) # Slot(n)
BY RemaindersDiffer, SlotOfPosition

-------------------------------------------------------------------------------
(* A client that is not waiting leaves a slot free *)

LEMMA BacklogBelowLenght ==
    ASSUME CapacityOK, QTypeOK, Counters, QueuedOnce,
           NEW t \in Senders, ~ Published(t), NEW q \in Subtrees
    PROVE  lastadded[q] - current[q] < Lenght
<1> DEFINE B == Backlog(q)
           O == [i \in B |-> Owner(q, i)]
           W == Senders \ {t}
<1>1. IsFiniteSet(W) /\ Cardinality(W) = Cardinality(Senders) - 1
    BY FS_RemoveElement
<1>2. Cardinality(Senders) \in Nat
    BY FS_CardinalityType
<1>3. current[q] \in Nat /\ lastadded[q] \in Nat /\ current[q] <= lastadded[q]
    BY DEF Counters
<1>4. IsFiniteSet(B) /\ Cardinality(B) = lastadded[q] - current[q]
    <2>1. lastadded[q] - 1 \in Int /\ current[q] \in Int
        BY <1>3
    <2>2. /\ IsFiniteSet(B)
          /\ Cardinality(B) = IF current[q] > lastadded[q] - 1 THEN 0
                              ELSE (lastadded[q] - 1) - current[q] + 1
        BY <2>1, FS_Interval DEF Backlog
    <2> QED BY <1>3, <2>2
<1>5. O \in [B -> W]
    <2>1. ASSUME NEW i \in B PROVE Owner(q, i) \in W
        BY <2>1 DEF QueuedOnce, Owner, Operation
    <2> QED BY <2>1
<1>6. Cardinality(B) <= Cardinality(W)
    <2>1. SUFFICES ASSUME Cardinality(W) < Cardinality(B) PROVE FALSE
        BY <1>1, <1>2, <1>3, <1>4
    <2> HIDE DEF B, O, W
    <2>2. \E i, j \in B : i # j /\ O[i] = O[j]
        BY <1>1, <1>4, <1>5, <2>1, FS_PigeonHole
    <2> USE DEF B, O, W
    <2> QED BY <2>2 DEF QueuedOnce
<1> QED BY <1>1, <1>2, <1>3, <1>4, <1>6 DEF CapacityOK

\* The counters can still count: a call that is not published yet is counted in
\* called, which its bound keeps below the largest int.
LEMMA NoWrap ==
    ASSUME CapacityOK, QTypeOK, Counters, NEW q \in Subtrees, Unpublished(q) # {}
    PROVE  lastadded[q] < IntMax
<1>1. IsFiniteSet(Unpublished(q))
    BY FS_Subset DEF Unpublished
<1>2. Cardinality(Unpublished(q)) \in Nat \ {0}
    BY <1>1, FS_CardinalityType, FS_EmptySet
<1>3. /\ lastadded[q] \in Nat /\ called[q] \in Nat /\ called[q] <= MaxAdds
      /\ lastadded[q] + Cardinality(Unpublished(q)) = called[q]
    BY DEF Counters, QTypeOK
<1> QED BY <1>2, <1>3 DEF CapacityOK

-------------------------------------------------------------------------------
(* Types *)

\* A client inside a call has its arguments, a reader with an operation in hand
\* an operation.
LEMMA ArgType ==
    ASSUME QTypeOK, NEW t \in Senders, pc[t] # "idle"
    PROVE  /\ arg[t].queue \in Subtrees
           /\ arg[t].op \in Operation
           /\ arg[t] = [queue |-> arg[t].queue, op |-> arg[t].op]
           /\ arg[t].op.caller = t
BY DEF QTypeOK, Request

LEMMA DataType ==
    ASSUME QTypeOK, NEW r \in Subtrees, pc[r] \in {"read_unlock", "have"}
    PROVE  data[r] \in Operation /\ data[r].caller \in Senders
BY DEF QTypeOK, Operation

\* Every step keeps the types.
LEMMA TypeStep ==
    ASSUME QTypeOK, Counters, QueuedOnce, InHandOnce, [QNext]_qvars
    PROVE  QTypeOK'
<1>1. ASSUME NEW t \in Senders, NEW q \in Subtrees, NEW b \in Bodies, Call(t, q, b) PROVE QTypeOK'
    <2> DEFINE new == [queue |-> q, op |-> [caller |-> t, body |-> b]]
    <2>1. new \in Request /\ new.op.caller = t
        BY DEF Operation, Request
    <2>2. new # Unset
        BY <2>1, UnsetAssumption
    <2>3. /\ arg' = [arg EXCEPT ![t] = new]
          /\ pc' = [pc EXCEPT ![t] = "add_lock"]
          /\ called' = [called EXCEPT ![q] = @ + 1]
          /\ called[q] < MaxAdds
          /\ UNCHANGED <<array, current, lastadded, mutex, data, retval>>
          /\ pc[t] = "idle"
        BY <1>1 DEF Call, Goto, shared
    <2> HIDE DEF new
    <2>4. called' \in [Subtrees -> 0 .. MaxAdds]
        BY <2>3 DEF QTypeOK
    <2>5. arg' \in [Senders -> Request \cup {Unset}]
        BY <2>1, <2>3 DEF QTypeOK
    <2>6. pc' \in [Threads -> AddLabels \cup ReadLabels]
        BY <2>3 DEF QTypeOK, AddLabels
    <2>7. \A u \in Senders :
            /\ pc'[u] \in AddLabels
            /\ pc'[u] # "idle" <=> arg'[u] # Unset
            /\ arg'[u] # Unset => arg'[u].op.caller = u
            /\ retval'[u] # 0 => pc'[u] = "sent"
        BY <2>1, <2>2, <2>3 DEF QTypeOK, AddLabels, Threads
    <2>8. \A r \in Subtrees : pc'[r] = pc[r]
        BY <2>3 DEF QTypeOK, Threads
    <2> QED BY <2>3, <2>4, <2>5, <2>6, <2>7, <2>8 DEF QTypeOK
<1>2. ASSUME NEW t \in Senders, AddLock(t) PROVE QTypeOK'
    BY <1>2 DEF AddLock, Goto, Lock, Unlock, shared, QTypeOK, AddLabels, ReadLabels, Threads, Operation
<1>3. ASSUME NEW t \in Senders, AddStore(t) PROVE QTypeOK'
    <2>1. pc[t] # "idle"
        BY <1>3 DEF AddStore
    <2>2. arg[t].op \in Operation
        BY <2>1, ArgType
    <2>3. array' \in [Subtrees -> [Slots -> Operation \cup {Unset}]]
        BY <1>3, <2>2 DEF AddStore, QTypeOK
    <2> QED BY <1>3, <2>3 DEF AddStore, Goto, QTypeOK, AddLabels, ReadLabels, Threads
<1>4. ASSUME NEW t \in Senders, AddPublish(t) PROVE QTypeOK'
    <2>1. lastadded' \in [Subtrees -> Int]
        <3>1. \A x \in Int : Inc(x) \in Int
            BY DEF Inc
        <3> QED BY <1>4, <3>1 DEF AddPublish, QTypeOK
    <2>2. /\ pc' = [pc EXCEPT ![t] = "add_broadcast"] /\ pc[t] = "add_publish"
          /\ UNCHANGED <<array, current, mutex, arg, data, retval, called>>
        BY <1>4 DEF AddPublish, Goto
    <2> QED BY <2>1, <2>2 DEF QTypeOK, AddLabels, ReadLabels, Threads
<1>5. ASSUME NEW t \in Senders, AddBroadcast(t) PROVE QTypeOK'
    <2>1. pc[t] = "add_broadcast" /\ arg[t].queue \in Subtrees
        BY <1>5, ArgType DEF AddBroadcast
    <2>2. pc' = [pc EXCEPT ![t] = "add_unlock",
                          ![arg[t].queue] = IF @ = "read_wait" THEN "read_lock" ELSE @]
        BY <1>5 DEF AddBroadcast
    <2>3. pc' \in [Threads -> AddLabels \cup ReadLabels]
        BY <2>2 DEF QTypeOK, AddLabels, ReadLabels, Threads
    <2>4. \A u \in Senders : pc'[u] = IF u = t THEN "add_unlock" ELSE pc[u]
        BY <2>1, <2>2 DEF QTypeOK, Threads
    <2>5. \A r \in Subtrees : pc'[r] = pc[r] \/ (pc[r] = "read_wait" /\ pc'[r] = "read_lock")
        BY <2>1, <2>2 DEF QTypeOK, Threads
    <2>6. UNCHANGED <<array, current, lastadded, mutex, arg, data, retval, called>>
        BY <1>5 DEF AddBroadcast, shared
    <2>7. \A u \in Senders :
            /\ pc'[u] \in AddLabels
            /\ pc'[u] # "idle" <=> arg'[u] # Unset
            /\ arg'[u] # Unset => arg'[u].op.caller = u
            /\ retval'[u] # 0 => pc'[u] = "sent"
        BY <2>1, <2>4, <2>6 DEF QTypeOK, AddLabels
    <2>8. \A r \in Subtrees :
            /\ pc'[r] \in ReadLabels
            /\ data'[r] # Unset <=> pc'[r] \in {"read_unlock", "have"}
        BY <2>5, <2>6 DEF QTypeOK, ReadLabels
    <2> QED BY <2>3, <2>6, <2>7, <2>8 DEF QTypeOK
<1>6. ASSUME NEW t \in Senders, AddUnlock(t) PROVE QTypeOK'
    BY <1>6 DEF AddUnlock, Goto, Lock, Unlock, shared, QTypeOK, AddLabels, ReadLabels, Threads, Operation
<1>7. ASSUME NEW t \in Senders, Resume(t) PROVE QTypeOK'
    BY <1>7 DEF Resume, Goto, Lock, Unlock, shared, QTypeOK, AddLabels, ReadLabels, Threads, Operation
<1>8. ASSUME NEW r \in Subtrees, Start(r) PROVE QTypeOK'
    BY <1>8 DEF Start, Goto, Lock, Unlock, shared, QTypeOK, AddLabels, ReadLabels, Threads, Operation
<1>9. ASSUME NEW r \in Subtrees, ReadLock(r) PROVE QTypeOK'
    BY <1>9 DEF ReadLock, Goto, Lock, Unlock, shared, QTypeOK, AddLabels, ReadLabels, Threads, Operation
<1>10. ASSUME NEW r \in Subtrees, ReadWait(r) PROVE QTypeOK'
    BY <1>10 DEF ReadWait, Goto, Lock, Unlock, shared, QTypeOK, AddLabels, ReadLabels, Threads, Operation
<1>11. ASSUME NEW r \in Subtrees, ReadTake(r) PROVE QTypeOK'
    <2>1. current' \in [Subtrees -> Int]
        BY <1>11 DEF ReadTake, Inc, QTypeOK
    <2>2. current[r] \in Backlog(r)
        BY <1>11 DEF ReadTake, Counters, Backlog
    <2>3. array[r][Slot(current[r])] \in Operation
        BY <2>2 DEF QueuedOnce, At
    <2>4. data' = [data EXCEPT ![r] = array[r][Slot(current[r])]]
        BY <1>11 DEF ReadTake
    <2>5. /\ data' \in [Subtrees -> Operation \cup {Unset}]
          /\ \A s \in Subtrees : data'[s] # Unset <=> data[s] # Unset \/ s = r
        BY <2>3, <2>4, UnsetAssumption DEF QTypeOK
    <2>6. /\ pc' = [pc EXCEPT ![r] = "read_unlock"] /\ pc[r] = "read_test"
          /\ UNCHANGED <<array, lastadded, mutex, arg, retval, called>>
        BY <1>11 DEF ReadTake, Goto
    <2> QED BY <2>1, <2>5, <2>6 DEF QTypeOK, AddLabels, ReadLabels, Threads
<1>12. ASSUME NEW r \in Subtrees, ReadUnlock(r) PROVE QTypeOK'
    BY <1>12 DEF ReadUnlock, Goto, Lock, Unlock, shared, QTypeOK, AddLabels, ReadLabels, Threads, Operation
<1>13. ASSUME NEW r \in Subtrees, SpuriousWake(r) PROVE QTypeOK'
    BY <1>13 DEF SpuriousWake, Goto, Lock, Unlock, shared, QTypeOK, AddLabels, ReadLabels, Threads, Operation
<1>14. ASSUME NEW r \in Subtrees, NEW v \in {1, 2}, Answer(r, v) PROVE QTypeOK'
    <2>1. data[r] \in Operation /\ data[r].caller \in Senders /\ data[r] # Unset
        BY <1>14, DataType DEF Answer
    <2>2. pc[data[r].caller] = "sent" /\ data[r].caller # r
        BY <2>1 DEF InHandOnce
    <2>3. \A u \in Senders : retval'[u] = IF u = data[r].caller THEN v ELSE retval[u]
        BY <1>14, <2>1 DEF Answer, QTypeOK
    <2>4. \A u \in Senders : pc'[u] = pc[u]
        BY <1>14 DEF Answer, Goto, QTypeOK, Threads
    <2>5. retval' \in [Senders -> 0 .. 2]
        BY <1>14, <2>1 DEF Answer, QTypeOK
    <2> QED BY <1>14, <2>1, <2>2, <2>3, <2>4, <2>5 DEF Answer, Goto, shared, QTypeOK, AddLabels, ReadLabels, Threads
<1>15. ASSUME NEW t \in Senders,
              (\E q \in Subtrees, b \in Bodies : Call(t, q, b)) \/ AddStep(t) \/ Resume(t)
       PROVE  QTypeOK'
    BY <1>15, <1>1, <1>2, <1>3, <1>4, <1>5, <1>6, <1>7 DEF AddStep
<1>16. ASSUME NEW r \in Subtrees,
              Start(r) \/ ReadStep(r) \/ SpuriousWake(r) \/ \E v \in {1, 2} : Answer(r, v)
       PROVE  QTypeOK'
    BY <1>16, <1>8, <1>9, <1>10, <1>11, <1>12, <1>13, <1>14 DEF ReadStep
<1>17. CASE UNCHANGED qvars
    BY <1>17 DEF qvars, QTypeOK
<1> QED BY <1>15, <1>16, <1>17 DEF QNext

-------------------------------------------------------------------------------
(* The mutexes *)

\* Every step keeps the critical sections exclusive.
LEMMA MutexStep ==
    ASSUME QTypeOK, MutualExclusion, [QNext]_qvars
    PROVE  MutualExclusion'
<1>1. ASSUME NEW t \in Senders, NEW q \in Subtrees, NEW b \in Bodies, Call(t, q, b) PROVE MutualExclusion'
    BY <1>1, ArgType DEF Call, Goto, Lock, Unlock, shared, MutualExclusion, Inside, QTypeOK, Threads
<1>2. ASSUME NEW t \in Senders, AddLock(t) PROVE MutualExclusion'
    BY <1>2, ArgType DEF AddLock, Goto, Lock, Unlock, shared, MutualExclusion, Inside, QTypeOK, Threads
<1>3. ASSUME NEW t \in Senders, AddStore(t) PROVE MutualExclusion'
    BY <1>3, ArgType DEF AddStore, Goto, Lock, Unlock, shared, MutualExclusion, Inside, QTypeOK, Threads
<1>4. ASSUME NEW t \in Senders, AddPublish(t) PROVE MutualExclusion'
    BY <1>4, ArgType DEF AddPublish, Goto, Lock, Unlock, shared, MutualExclusion, Inside, QTypeOK, Threads
<1>5. ASSUME NEW t \in Senders, AddBroadcast(t) PROVE MutualExclusion'
    BY <1>5, ArgType DEF AddBroadcast, Goto, Lock, Unlock, shared, MutualExclusion, Inside, QTypeOK, Threads
<1>6. ASSUME NEW t \in Senders, AddUnlock(t) PROVE MutualExclusion'
    BY <1>6, ArgType DEF AddUnlock, Goto, Lock, Unlock, shared, MutualExclusion, Inside, QTypeOK, Threads
<1>7. ASSUME NEW t \in Senders, Resume(t) PROVE MutualExclusion'
    BY <1>7, ArgType DEF Resume, Goto, Lock, Unlock, shared, MutualExclusion, Inside, QTypeOK, Threads
<1>8. ASSUME NEW r \in Subtrees, Start(r) PROVE MutualExclusion'
    BY <1>8, ArgType DEF Start, Goto, Lock, Unlock, shared, MutualExclusion, Inside, QTypeOK, Threads
<1>9. ASSUME NEW r \in Subtrees, ReadLock(r) PROVE MutualExclusion'
    BY <1>9, ArgType DEF ReadLock, Goto, Lock, Unlock, shared, MutualExclusion, Inside, QTypeOK, Threads
<1>10. ASSUME NEW r \in Subtrees, ReadWait(r) PROVE MutualExclusion'
    BY <1>10, ArgType DEF ReadWait, Goto, Lock, Unlock, shared, MutualExclusion, Inside, QTypeOK, Threads
<1>11. ASSUME NEW r \in Subtrees, ReadTake(r) PROVE MutualExclusion'
    BY <1>11, ArgType DEF ReadTake, Goto, Lock, Unlock, shared, MutualExclusion, Inside, QTypeOK, Threads
<1>12. ASSUME NEW r \in Subtrees, ReadUnlock(r) PROVE MutualExclusion'
    BY <1>12, ArgType DEF ReadUnlock, Goto, Lock, Unlock, shared, MutualExclusion, Inside, QTypeOK, Threads
<1>13. ASSUME NEW r \in Subtrees, SpuriousWake(r) PROVE MutualExclusion'
    BY <1>13, ArgType DEF SpuriousWake, Goto, Lock, Unlock, shared, MutualExclusion, Inside, QTypeOK, Threads
<1>14. ASSUME NEW r \in Subtrees, NEW v \in {1, 2}, Answer(r, v) PROVE MutualExclusion'
    BY <1>14, ArgType DEF Answer, Goto, Lock, Unlock, shared, MutualExclusion, Inside, QTypeOK, Threads
<1>15. ASSUME NEW t \in Senders,
              (\E q \in Subtrees, b \in Bodies : Call(t, q, b)) \/ AddStep(t) \/ Resume(t)
       PROVE  MutualExclusion'
    BY <1>15, <1>1, <1>2, <1>3, <1>4, <1>5, <1>6, <1>7 DEF AddStep
<1>16. ASSUME NEW r \in Subtrees,
              Start(r) \/ ReadStep(r) \/ SpuriousWake(r) \/ \E v \in {1, 2} : Answer(r, v)
       PROVE  MutualExclusion'
    BY <1>16, <1>8, <1>9, <1>10, <1>11, <1>12, <1>13, <1>14 DEF ReadStep
<1>17. CASE UNCHANGED qvars
    BY <1>17 DEF qvars, MutualExclusion, Inside
<1> QED BY <1>15, <1>16, <1>17 DEF QNext

-------------------------------------------------------------------------------
(* The counters *)

LEMMA UnpublishedFinite ==
    \A q \in Subtrees : /\ IsFiniteSet(Unpublished(q))
                        /\ Cardinality(Unpublished(q)) \in Nat
BY FS_Subset, FS_CardinalityType DEF Unpublished

\* A step that publishes nothing, takes nothing and begins no call.
LEMMA CountersFrame ==
    ASSUME Counters, UNCHANGED <<current, lastadded, called>>,
           \A q \in Subtrees : Unpublished(q)' = Unpublished(q)
    PROVE  Counters'
BY DEF Counters

\* Every step keeps the counters in order.
LEMMA CountersStep ==
    ASSUME CapacityOK, QTypeOK, Counters, [QNext]_qvars
    PROVE  Counters'
<1>1. ASSUME NEW t \in Senders, NEW q \in Subtrees, NEW b \in Bodies, Call(t, q, b) PROVE Counters'
    <2>1. /\ called' = [called EXCEPT ![q] = @ + 1]
          /\ UNCHANGED <<current, lastadded>>
        BY <1>1 DEF Call, shared
    <2>2. t \notin Unpublished(q)
        BY <1>1 DEF Call, Unpublished
    <2>3. Unpublished(q)' = Unpublished(q) \cup {t}
        BY <1>1 DEF Call, Goto, Unpublished, QTypeOK, Threads
    <2>4. \A s \in Subtrees : s # q => Unpublished(s)' = Unpublished(s)
        BY <1>1 DEF Call, Goto, Unpublished, QTypeOK, Threads
    <2>5. Cardinality(Unpublished(q)') = Cardinality(Unpublished(q)) + 1
        <3>1. IsFiniteSet(Unpublished(q)) /\ t \notin Unpublished(q)
            BY <2>2, <2>3, UnpublishedFinite
        <3>2. Cardinality(Unpublished(q) \cup {t}) = Cardinality(Unpublished(q)) + 1
            BY <3>1, FS_AddElement
        <3> QED BY <2>3, <3>2
    <2>6. lastadded'[q] + Cardinality(Unpublished(q)') = called'[q]
        BY <2>1, <2>5, UnpublishedFinite DEF Counters, QTypeOK
    <2>7. \A s \in Subtrees : lastadded'[s] + Cardinality(Unpublished(s)') = called'[s]
        BY <2>1, <2>4, <2>6 DEF Counters, QTypeOK
    <2> QED BY <2>1, <2>7 DEF Counters
<1>2. ASSUME NEW t \in Senders, AddLock(t) PROVE Counters'
    <2>1. UNCHANGED <<current, lastadded, called>>
        BY <1>2 DEF AddLock, shared
    <2>2. \A s \in Subtrees : Unpublished(s)' = Unpublished(s)
        BY <1>2, ArgType DEF AddLock, Goto, shared, Unpublished, QTypeOK, Threads
    <2> QED BY <2>1, <2>2, CountersFrame
<1>3. ASSUME NEW t \in Senders, AddStore(t) PROVE Counters'
    <2>1. UNCHANGED <<current, lastadded, called>>
        BY <1>3 DEF AddStore, shared
    <2>2. \A s \in Subtrees : Unpublished(s)' = Unpublished(s)
        BY <1>3, ArgType DEF AddStore, Goto, shared, Unpublished, QTypeOK, Threads
    <2> QED BY <2>1, <2>2, CountersFrame
<1>4. ASSUME NEW t \in Senders, AddPublish(t) PROVE Counters'
    <2>1. PICK q \in Subtrees : q = arg[t].queue /\ t \in Unpublished(q)
        BY <1>4, ArgType DEF AddPublish, Unpublished
    <2>2. Inc(lastadded[q]) = lastadded[q] + 1 /\ lastadded[q] \in Nat
        BY <2>1, NoWrap DEF Inc, Counters
    <2>3. /\ lastadded' = [lastadded EXCEPT ![q] = lastadded[q] + 1]
          /\ UNCHANGED <<current, called>>
        BY <1>4, <2>1, <2>2 DEF AddPublish
    <2>4. Unpublished(q)' = Unpublished(q) \ {t}
        BY <1>4, <2>1 DEF AddPublish, Goto, Unpublished, QTypeOK, Threads
    <2>5. \A s \in Subtrees : s # q => Unpublished(s)' = Unpublished(s)
        BY <1>4, <2>1 DEF AddPublish, Goto, Unpublished, QTypeOK, Threads
    <2>6. Cardinality(Unpublished(q)') = Cardinality(Unpublished(q)) - 1
        <3>1. IsFiniteSet(Unpublished(q)) /\ t \in Unpublished(q)
            BY <2>1, UnpublishedFinite
        <3>2. Cardinality(Unpublished(q) \ {t}) = Cardinality(Unpublished(q)) - 1
            BY <3>1, FS_RemoveElement
        <3> QED BY <2>4, <3>2
    <2>7. lastadded'[q] + Cardinality(Unpublished(q)') = called'[q]
        BY <2>1, <2>2, <2>3, <2>6, UnpublishedFinite DEF Counters, QTypeOK
    <2>8. \A s \in Subtrees : lastadded'[s] + Cardinality(Unpublished(s)') = called'[s]
        <3>1. SUFFICES ASSUME NEW s \in Subtrees, s # q
                       PROVE  lastadded'[s] + Cardinality(Unpublished(s)') = called'[s]
            BY <2>7
        <3> QED BY <2>3, <2>5, <3>1 DEF Counters, QTypeOK
    <2>9. \A s \in Subtrees : lastadded'[s] \in Nat /\ current'[s] <= lastadded'[s]
        BY <2>1, <2>2, <2>3 DEF Counters, QTypeOK
    <2> QED BY <2>3, <2>8, <2>9 DEF Counters
<1>5. ASSUME NEW t \in Senders, AddBroadcast(t) PROVE Counters'
    <2>1. UNCHANGED <<current, lastadded, called>>
        BY <1>5 DEF AddBroadcast, shared
    <2>2. \A s \in Subtrees : Unpublished(s)' = Unpublished(s)
        BY <1>5, ArgType DEF AddBroadcast, Goto, shared, Unpublished, QTypeOK, Threads
    <2> QED BY <2>1, <2>2, CountersFrame
<1>6. ASSUME NEW t \in Senders, AddUnlock(t) PROVE Counters'
    <2>1. UNCHANGED <<current, lastadded, called>>
        BY <1>6 DEF AddUnlock, shared
    <2>2. \A s \in Subtrees : Unpublished(s)' = Unpublished(s)
        BY <1>6, ArgType DEF AddUnlock, Goto, shared, Unpublished, QTypeOK, Threads
    <2> QED BY <2>1, <2>2, CountersFrame
<1>7. ASSUME NEW t \in Senders, Resume(t) PROVE Counters'
    <2>1. UNCHANGED <<current, lastadded, called>>
        BY <1>7 DEF Resume, shared
    <2>2. \A s \in Subtrees : Unpublished(s)' = Unpublished(s)
        BY <1>7, ArgType DEF Resume, Goto, shared, Unpublished, QTypeOK, Threads
    <2> QED BY <2>1, <2>2, CountersFrame
<1>8. ASSUME NEW r \in Subtrees, Start(r) PROVE Counters'
    <2>1. UNCHANGED <<current, lastadded, called>>
        BY <1>8 DEF Start, shared
    <2>2. \A s \in Subtrees : Unpublished(s)' = Unpublished(s)
        BY <1>8, ArgType DEF Start, Goto, shared, Unpublished, QTypeOK, Threads
    <2> QED BY <2>1, <2>2, CountersFrame
<1>9. ASSUME NEW r \in Subtrees, ReadLock(r) PROVE Counters'
    <2>1. UNCHANGED <<current, lastadded, called>>
        BY <1>9 DEF ReadLock, shared
    <2>2. \A s \in Subtrees : Unpublished(s)' = Unpublished(s)
        BY <1>9, ArgType DEF ReadLock, Goto, shared, Unpublished, QTypeOK, Threads
    <2> QED BY <2>1, <2>2, CountersFrame
<1>10. ASSUME NEW r \in Subtrees, ReadWait(r) PROVE Counters'
    <2>1. UNCHANGED <<current, lastadded, called>>
        BY <1>10 DEF ReadWait, shared
    <2>2. \A s \in Subtrees : Unpublished(s)' = Unpublished(s)
        BY <1>10, ArgType DEF ReadWait, Goto, shared, Unpublished, QTypeOK, Threads
    <2> QED BY <2>1, <2>2, CountersFrame
<1>11. ASSUME NEW r \in Subtrees, ReadTake(r) PROVE Counters'
    <2>1. current[r] < lastadded[r] /\ current[r] \in Nat
        BY <1>11 DEF ReadTake, Counters
    <2>2. lastadded[r] <= IntMax /\ lastadded[r] \in Nat
        BY UnpublishedFinite DEF Counters, QTypeOK, CapacityOK
    <2>3. /\ current' = [current EXCEPT ![r] = current[r] + 1]
          /\ UNCHANGED <<lastadded, called>>
        <3>1. Inc(current[r]) = current[r] + 1
            BY <2>1, <2>2 DEF Inc
        <3> QED BY <1>11, <3>1 DEF ReadTake
    <2>4. \A s \in Subtrees : Unpublished(s)' = Unpublished(s)
        BY <1>11 DEF ReadTake, Goto, Unpublished, QTypeOK, Threads
    <2>5. \A s \in Subtrees : current'[s] \in Nat /\ current'[s] <= lastadded'[s]
        BY <2>1, <2>2, <2>3 DEF Counters, QTypeOK
    <2> QED BY <2>3, <2>4, <2>5 DEF Counters
<1>12. ASSUME NEW r \in Subtrees, ReadUnlock(r) PROVE Counters'
    <2>1. UNCHANGED <<current, lastadded, called>>
        BY <1>12 DEF ReadUnlock, shared
    <2>2. \A s \in Subtrees : Unpublished(s)' = Unpublished(s)
        BY <1>12, ArgType DEF ReadUnlock, Goto, shared, Unpublished, QTypeOK, Threads
    <2> QED BY <2>1, <2>2, CountersFrame
<1>13. ASSUME NEW r \in Subtrees, SpuriousWake(r) PROVE Counters'
    <2>1. UNCHANGED <<current, lastadded, called>>
        BY <1>13 DEF SpuriousWake, shared
    <2>2. \A s \in Subtrees : Unpublished(s)' = Unpublished(s)
        BY <1>13, ArgType DEF SpuriousWake, Goto, shared, Unpublished, QTypeOK, Threads
    <2> QED BY <2>1, <2>2, CountersFrame
<1>14. ASSUME NEW r \in Subtrees, NEW v \in {1, 2}, Answer(r, v) PROVE Counters'
    <2>1. UNCHANGED <<current, lastadded, called>>
        BY <1>14 DEF Answer, shared
    <2>2. \A s \in Subtrees : Unpublished(s)' = Unpublished(s)
        BY <1>14, ArgType DEF Answer, Goto, shared, Unpublished, QTypeOK, Threads
    <2> QED BY <2>1, <2>2, CountersFrame
<1>15. ASSUME NEW t \in Senders,
              (\E q \in Subtrees, b \in Bodies : Call(t, q, b)) \/ AddStep(t) \/ Resume(t)
       PROVE  Counters'
    BY <1>15, <1>1, <1>2, <1>3, <1>4, <1>5, <1>6, <1>7 DEF AddStep
<1>16. ASSUME NEW r \in Subtrees,
              Start(r) \/ ReadStep(r) \/ SpuriousWake(r) \/ \E v \in {1, 2} : Answer(r, v)
       PROVE  Counters'
    BY <1>16, <1>8, <1>9, <1>10, <1>11, <1>12, <1>13, <1>14 DEF ReadStep
<1>17. CASE UNCHANGED qvars
    <2>1. \A s \in Subtrees : Unpublished(s)' = Unpublished(s)
        BY <1>17 DEF qvars, Unpublished
    <2> QED BY <1>17, <2>1, CountersFrame DEF qvars
<1> QED BY <1>15, <1>16, <1>17 DEF QNext

-------------------------------------------------------------------------------
(* The order of store, publication and broadcast *)

\* Every step keeps each operation in its slot before its publication.
LEMMA StoredStep ==
    ASSUME QTypeOK, MutualExclusion, Counters, StoredFirst, [QNext]_qvars
    PROVE  StoredFirst'
<1>1. ASSUME NEW t \in Senders, NEW q \in Subtrees, NEW b \in Bodies, Call(t, q, b) PROVE StoredFirst'
    BY <1>1, ArgType DEF Call, Goto, shared, StoredFirst, At, QTypeOK, Threads
<1>2. ASSUME NEW t \in Senders, AddLock(t) PROVE StoredFirst'
    BY <1>2, ArgType DEF AddLock, Goto, shared, StoredFirst, At, QTypeOK, Threads
<1>3. ASSUME NEW t \in Senders, AddStore(t) PROVE StoredFirst'
    <2>1. PICK q \in Subtrees : q = arg[t].queue
        BY <1>3, ArgType DEF AddStore
    <2>2. lastadded[q] \in Nat /\ Slot(lastadded[q]) \in Slots
        BY SlotOfPosition DEF Counters
    <2>3. /\ pc' = [pc EXCEPT ![t] = "add_publish"] /\ pc[t] = "add_store"
          /\ array' = [array EXCEPT ![q][Slot(lastadded[q])] = arg[t].op]
          /\ UNCHANGED <<lastadded, arg>>
        BY <1>3, <2>1 DEF AddStore, Goto
    <2>4. array'[q][Slot(lastadded[q])] = arg[t].op
        BY <2>2, <2>3 DEF QTypeOK
    <2>5. \A u \in Senders : u # t /\ pc[u] = "add_publish" => arg[u].queue # q
        BY <2>1, <2>3 DEF MutualExclusion, Inside, Threads
    <2>6. \A s \in Subtrees : s # q => array'[s] = array[s]
        BY <2>3 DEF QTypeOK
    <2>7. \A u \in Senders : u # t => pc'[u] = pc[u]
        BY <2>3 DEF QTypeOK, Threads
    <2> QED BY <2>1, <2>3, <2>4, <2>5, <2>6, <2>7, ArgType DEF StoredFirst, At
<1>4. ASSUME NEW t \in Senders, AddPublish(t) PROVE StoredFirst'
    <2>1. PICK q \in Subtrees : q = arg[t].queue
        BY <1>4, ArgType DEF AddPublish
    <2>2. /\ pc' = [pc EXCEPT ![t] = "add_broadcast"] /\ pc[t] = "add_publish"
          /\ lastadded' = [lastadded EXCEPT ![q] = Inc(@)]
          /\ UNCHANGED <<array, arg>>
        BY <1>4, <2>1 DEF AddPublish, Goto
    <2>3. \A u \in Senders : u # t /\ pc[u] = "add_publish" => arg[u].queue # q
        BY <2>1, <2>2 DEF MutualExclusion, Inside, Threads
    <2>4. \A s \in Subtrees : s # q => lastadded'[s] = lastadded[s]
        BY <2>2 DEF QTypeOK
    <2>5. \A u \in Senders : pc'[u] = IF u = t THEN "add_broadcast" ELSE pc[u]
        BY <2>2 DEF QTypeOK, Threads
    <2> QED BY <2>2, <2>3, <2>4, <2>5, ArgType DEF StoredFirst, At
<1>5. ASSUME NEW t \in Senders, AddBroadcast(t) PROVE StoredFirst'
    BY <1>5, ArgType DEF AddBroadcast, Goto, shared, StoredFirst, At, QTypeOK, Threads
<1>6. ASSUME NEW t \in Senders, AddUnlock(t) PROVE StoredFirst'
    BY <1>6, ArgType DEF AddUnlock, Goto, shared, StoredFirst, At, QTypeOK, Threads
<1>7. ASSUME NEW t \in Senders, Resume(t) PROVE StoredFirst'
    BY <1>7, ArgType DEF Resume, Goto, shared, StoredFirst, At, QTypeOK, Threads
<1>8. ASSUME NEW r \in Subtrees, Start(r) PROVE StoredFirst'
    BY <1>8, ArgType DEF Start, Goto, shared, StoredFirst, At, QTypeOK, Threads
<1>9. ASSUME NEW r \in Subtrees, ReadLock(r) PROVE StoredFirst'
    BY <1>9, ArgType DEF ReadLock, Goto, shared, StoredFirst, At, QTypeOK, Threads
<1>10. ASSUME NEW r \in Subtrees, ReadWait(r) PROVE StoredFirst'
    BY <1>10, ArgType DEF ReadWait, Goto, shared, StoredFirst, At, QTypeOK, Threads
<1>11. ASSUME NEW r \in Subtrees, ReadTake(r) PROVE StoredFirst'
    BY <1>11, ArgType DEF ReadTake, Goto, shared, StoredFirst, At, QTypeOK, Threads
<1>12. ASSUME NEW r \in Subtrees, ReadUnlock(r) PROVE StoredFirst'
    BY <1>12, ArgType DEF ReadUnlock, Goto, shared, StoredFirst, At, QTypeOK, Threads
<1>13. ASSUME NEW r \in Subtrees, SpuriousWake(r) PROVE StoredFirst'
    BY <1>13, ArgType DEF SpuriousWake, Goto, shared, StoredFirst, At, QTypeOK, Threads
<1>14. ASSUME NEW r \in Subtrees, NEW v \in {1, 2}, Answer(r, v) PROVE StoredFirst'
    BY <1>14, ArgType DEF Answer, Goto, shared, StoredFirst, At, QTypeOK, Threads
<1>15. ASSUME NEW t \in Senders,
              (\E q \in Subtrees, b \in Bodies : Call(t, q, b)) \/ AddStep(t) \/ Resume(t)
       PROVE  StoredFirst'
    BY <1>15, <1>1, <1>2, <1>3, <1>4, <1>5, <1>6, <1>7 DEF AddStep
<1>16. ASSUME NEW r \in Subtrees,
              Start(r) \/ ReadStep(r) \/ SpuriousWake(r) \/ \E v \in {1, 2} : Answer(r, v)
       PROVE  StoredFirst'
    BY <1>16, <1>8, <1>9, <1>10, <1>11, <1>12, <1>13, <1>14 DEF ReadStep
<1>17. CASE UNCHANGED qvars
    BY <1>17 DEF qvars, StoredFirst, At
<1> QED BY <1>15, <1>16, <1>17 DEF QNext

\* Every step keeps sleeping readers with a backlog about to be woken.
LEMMA WakeupStep ==
    ASSUME QTypeOK, NoLostWakeup, [QNext]_qvars
    PROVE  NoLostWakeup'
<1>1. ASSUME NEW t \in Senders, NEW q \in Subtrees, NEW b \in Bodies, Call(t, q, b) PROVE NoLostWakeup'
    BY <1>1, ArgType DEF Call, Goto, shared, NoLostWakeup, QTypeOK, Threads
<1>2. ASSUME NEW t \in Senders, AddLock(t) PROVE NoLostWakeup'
    BY <1>2, ArgType DEF AddLock, Goto, shared, NoLostWakeup, QTypeOK, Threads
<1>3. ASSUME NEW t \in Senders, AddStore(t) PROVE NoLostWakeup'
    BY <1>3, ArgType DEF AddStore, Goto, shared, NoLostWakeup, QTypeOK, Threads
<1>4. ASSUME NEW t \in Senders, AddPublish(t) PROVE NoLostWakeup'
    BY <1>4, ArgType DEF AddPublish, Goto, shared, NoLostWakeup, QTypeOK, Threads
<1>5. ASSUME NEW t \in Senders, AddBroadcast(t) PROVE NoLostWakeup'
    <2>1. PICK q \in Subtrees : q = arg[t].queue
        BY <1>5, ArgType DEF AddBroadcast
    <2>2. /\ pc' = [pc EXCEPT ![t] = "add_unlock",
                            ![q] = IF @ = "read_wait" THEN "read_lock" ELSE @]
          /\ UNCHANGED <<current, lastadded, arg>>
        BY <1>5, <2>1 DEF AddBroadcast, shared
    <2>3. pc'[q] # "read_wait"
        BY <2>2 DEF QTypeOK, Threads
    <2>4. \A u \in Threads : u # t /\ u # q => pc'[u] = pc[u]
        BY <2>2 DEF QTypeOK
    <2>5. SUFFICES ASSUME NEW r \in Subtrees, r # q, pc[r] = "read_wait",
                          current[r] # lastadded[r]
                   PROVE  \E u \in Senders : pc'[u] = "add_broadcast" /\ arg'[u].queue = r
        BY <2>2, <2>3, <2>4 DEF NoLostWakeup, Threads
    <2>6. PICK u \in Senders : pc[u] = "add_broadcast" /\ arg[u].queue = r
        BY <2>5 DEF NoLostWakeup
    <2>7. u # t /\ u # q
        BY <2>1, <2>5, <2>6
    <2> QED BY <2>2, <2>4, <2>6, <2>7 DEF Threads
<1>6. ASSUME NEW t \in Senders, AddUnlock(t) PROVE NoLostWakeup'
    BY <1>6, ArgType DEF AddUnlock, Goto, shared, NoLostWakeup, QTypeOK, Threads
<1>7. ASSUME NEW t \in Senders, Resume(t) PROVE NoLostWakeup'
    BY <1>7, ArgType DEF Resume, Goto, shared, NoLostWakeup, QTypeOK, Threads
<1>8. ASSUME NEW r \in Subtrees, Start(r) PROVE NoLostWakeup'
    BY <1>8, ArgType DEF Start, Goto, shared, NoLostWakeup, QTypeOK, Threads
<1>9. ASSUME NEW r \in Subtrees, ReadLock(r) PROVE NoLostWakeup'
    BY <1>9, ArgType DEF ReadLock, Goto, shared, NoLostWakeup, QTypeOK, Threads
<1>10. ASSUME NEW r \in Subtrees, ReadWait(r) PROVE NoLostWakeup'
    BY <1>10, ArgType DEF ReadWait, Goto, shared, NoLostWakeup, QTypeOK, Threads
<1>11. ASSUME NEW r \in Subtrees, ReadTake(r) PROVE NoLostWakeup'
    BY <1>11, ArgType DEF ReadTake, Goto, shared, NoLostWakeup, QTypeOK, Threads
<1>12. ASSUME NEW r \in Subtrees, ReadUnlock(r) PROVE NoLostWakeup'
    BY <1>12, ArgType DEF ReadUnlock, Goto, shared, NoLostWakeup, QTypeOK, Threads
<1>13. ASSUME NEW r \in Subtrees, SpuriousWake(r) PROVE NoLostWakeup'
    BY <1>13, ArgType DEF SpuriousWake, Goto, shared, NoLostWakeup, QTypeOK, Threads
<1>14. ASSUME NEW r \in Subtrees, NEW v \in {1, 2}, Answer(r, v) PROVE NoLostWakeup'
    BY <1>14, ArgType DEF Answer, Goto, shared, NoLostWakeup, QTypeOK, Threads
<1>15. ASSUME NEW t \in Senders,
              (\E q \in Subtrees, b \in Bodies : Call(t, q, b)) \/ AddStep(t) \/ Resume(t)
       PROVE  NoLostWakeup'
    BY <1>15, <1>1, <1>2, <1>3, <1>4, <1>5, <1>6, <1>7 DEF AddStep
<1>16. ASSUME NEW r \in Subtrees,
              Start(r) \/ ReadStep(r) \/ SpuriousWake(r) \/ \E v \in {1, 2} : Answer(r, v)
       PROVE  NoLostWakeup'
    BY <1>16, <1>8, <1>9, <1>10, <1>11, <1>12, <1>13, <1>14 DEF ReadStep
<1>17. CASE UNCHANGED qvars
    BY <1>17 DEF qvars, NoLostWakeup
<1> QED BY <1>15, <1>16, <1>17 DEF QNext

-------------------------------------------------------------------------------
(* One operation per call *)

LEMMA QueuedType ==
    ASSUME QueuedOnce, NEW q \in Subtrees, NEW i \in Backlog(q)
    PROVE  At(q, i) \in Operation /\ Owner(q, i) \in Senders
BY DEF QueuedOnce, Owner, Operation

\* A step that leaves the rings and the callers of their operations alone.
LEMMA QueuedFrame ==
    ASSUME QueuedOnce, UNCHANGED shared,
           \A q \in Subtrees : \A i \in Backlog(q) :
               /\ pc'[Owner(q, i)] \in {"add_broadcast", "add_unlock", "sent"}
               /\ retval'[Owner(q, i)] = 0
               /\ arg'[Owner(q, i)] = arg[Owner(q, i)]
    PROVE  QueuedOnce'
<1>1. \A q \in Subtrees : Backlog(q)' = Backlog(q)
    BY DEF shared, Backlog
<1>2. \A q \in Subtrees : \A i \in Backlog(q) :
        At(q, i)' = At(q, i) /\ Owner(q, i)' = Owner(q, i)
    BY DEF shared, At, Owner
<1> QED BY <1>1, <1>2 DEF QueuedOnce, Published

\* A client's own step, when it has no operation in a queue.
LEMMA QueuedOwnStep ==
    ASSUME QTypeOK, QueuedOnce, UNCHANGED shared, NEW t \in Senders,
           ~ Published(t) \/ (Published(t)' /\ arg'[t] = arg[t]),
           \A u \in Senders : u # t =>
               pc'[u] = pc[u] /\ retval'[u] = retval[u] /\ arg'[u] = arg[u]
    PROVE  QueuedOnce'
<1>1. SUFFICES ASSUME NEW q \in Subtrees, NEW i \in Backlog(q)
               PROVE  /\ pc'[Owner(q, i)] \in {"add_broadcast", "add_unlock", "sent"}
                      /\ retval'[Owner(q, i)] = 0
                      /\ arg'[Owner(q, i)] = arg[Owner(q, i)]
    BY QueuedFrame
<1>2. Published(Owner(q, i)) /\ Owner(q, i) \in Senders
    BY QueuedType DEF QueuedOnce
<1> QED BY <1>2 DEF Published

\* What the three steps that touch a ring do to the positions waiting in it.
LEMMA StoreKeepsBacklog ==
    ASSUME CapacityOK, QTypeOK, Counters, QueuedOnce, NEW t \in Senders, AddStore(t)
    PROVE  \A s \in Subtrees : \A i \in Backlog(s) :
               At(s, i)' = At(s, i) /\ Owner(s, i)' = Owner(s, i)
<1>1. PICK q \in Subtrees : q = arg[t].queue
    BY ArgType DEF AddStore
<1>2. /\ array' = [array EXCEPT ![q][Slot(lastadded[q])] = arg[t].op]
      /\ pc[t] = "add_store"
    BY <1>1 DEF AddStore
<1>3. SUFFICES ASSUME NEW s \in Subtrees, NEW i \in Backlog(s)
               PROVE  array'[s][Slot(i)] = array[s][Slot(i)]
    BY DEF At, Owner
<1>4. CASE s # q
    BY <1>2, <1>4 DEF QTypeOK
<1>5. CASE s = q
    <2>1. ~ Published(t)
        BY <1>2 DEF Published
    <2>2. i \in Nat /\ lastadded[q] \in Nat /\ i < lastadded[q] /\ lastadded[q] - i < Lenght
        BY <1>5, <2>1, BacklogBelowLenght DEF Counters, Backlog
    <2>3. Slot(i) # Slot(lastadded[q])
        BY <2>2, SlotsDiffer
    <2> QED BY <1>2, <1>5, <2>3 DEF QTypeOK
<1> QED BY <1>4, <1>5

LEMMA PublishExtendsBacklog ==
    ASSUME CapacityOK, QTypeOK, Counters, NEW t \in Senders, AddPublish(t)
    PROVE  \E q \in Subtrees :
               /\ q = arg[t].queue
               /\ lastadded'[q] = lastadded[q] + 1
               /\ Backlog(q)' = Backlog(q) \cup {lastadded[q]}
               /\ \A s \in Subtrees : s # q => Backlog(s)' = Backlog(s)
<1>1. PICK q \in Subtrees : q = arg[t].queue /\ t \in Unpublished(q)
    BY ArgType DEF AddPublish, Unpublished
<1>2. /\ current[q] \in Nat /\ lastadded[q] \in Nat /\ current[q] <= lastadded[q]
      /\ lastadded[q] < IntMax
    BY <1>1, NoWrap DEF Counters
<1>3. Inc(lastadded[q]) = lastadded[q] + 1
    BY <1>2 DEF Inc
<1>4. lastadded' = [lastadded EXCEPT ![q] = lastadded[q] + 1] /\ current' = current
    BY <1>1, <1>3 DEF AddPublish
<1>5. lastadded'[q] = lastadded[q] + 1
    BY <1>4 DEF QTypeOK
<1>6. Backlog(q)' = Backlog(q) \cup {lastadded[q]}
    BY <1>2, <1>4, <1>5 DEF Backlog
<1>7. \A s \in Subtrees : s # q => Backlog(s)' = Backlog(s)
    BY <1>4 DEF Backlog, QTypeOK
<1> QED BY <1>1, <1>5, <1>6, <1>7

LEMMA TakeShortensBacklog ==
    ASSUME CapacityOK, QTypeOK, Counters, NEW r \in Subtrees, ReadTake(r)
    PROVE  /\ current[r] \in Backlog(r)
           /\ current'[r] = current[r] + 1
           /\ Backlog(r)' = Backlog(r) \ {current[r]}
           /\ \A s \in Subtrees : Backlog(s)' \subseteq Backlog(s)
<1>1. /\ current[r] \in Nat /\ lastadded[r] \in Nat /\ current[r] < lastadded[r]
      /\ lastadded[r] <= IntMax
    <2>1. current[r] # lastadded[r]
        BY DEF ReadTake
    <2>2. called[r] \in 0 .. MaxAdds
        BY DEF QTypeOK
    <2> QED BY <2>1, <2>2, UnpublishedFinite DEF Counters, CapacityOK
<1>2. Inc(current[r]) = current[r] + 1
    BY <1>1 DEF Inc
<1>3. current' = [current EXCEPT ![r] = current[r] + 1] /\ lastadded' = lastadded
    BY <1>2 DEF ReadTake
<1>4. current'[r] = current[r] + 1
    BY <1>3 DEF QTypeOK
<1>5. Backlog(r)' = Backlog(r) \ {current[r]}
    BY <1>1, <1>3, <1>4 DEF Backlog
<1>6. \A s \in Subtrees : s # r => Backlog(s)' = Backlog(s)
    BY <1>3 DEF Backlog, QTypeOK
<1>7. current[r] \in Backlog(r)
    BY <1>1 DEF Backlog
<1> QED BY <1>4, <1>5, <1>6, <1>7

\* Every step keeps the queued operations single and awaited.
LEMMA QueuedStep ==
    ASSUME CapacityOK, QTypeOK, Counters, StoredFirst, QueuedOnce, InHandOnce, [QNext]_qvars
    PROVE  QueuedOnce'
<1>1. ASSUME NEW t \in Senders, NEW q \in Subtrees, NEW b \in Bodies, Call(t, q, b) PROVE QueuedOnce'
    <2>1. UNCHANGED shared
        BY <1>1 DEF Call
    <2>2. \A u \in Senders : u # t =>
            pc'[u] = pc[u] /\ retval'[u] = retval[u] /\ arg'[u] = arg[u]
        BY <1>1, ArgType DEF Call, Goto, QTypeOK, Threads
    <2>3. ~ Published(t) \/ (Published(t)' /\ arg'[t] = arg[t])
        BY <1>1, ArgType DEF Call, Goto, Published, QTypeOK, Threads
    <2> QED BY <2>1, <2>2, <2>3, QueuedOwnStep
<1>2. ASSUME NEW t \in Senders, AddLock(t) PROVE QueuedOnce'
    <2>1. UNCHANGED shared
        BY <1>2 DEF AddLock
    <2>2. \A u \in Senders : u # t =>
            pc'[u] = pc[u] /\ retval'[u] = retval[u] /\ arg'[u] = arg[u]
        BY <1>2, ArgType DEF AddLock, Goto, QTypeOK, Threads
    <2>3. ~ Published(t) \/ (Published(t)' /\ arg'[t] = arg[t])
        BY <1>2, ArgType DEF AddLock, Goto, Published, QTypeOK, Threads
    <2> QED BY <2>1, <2>2, <2>3, QueuedOwnStep
<1>3. ASSUME NEW t \in Senders, AddStore(t) PROVE QueuedOnce'
    <2>1. PICK q \in Subtrees : q = arg[t].queue
        BY <1>3, ArgType DEF AddStore
    <2>2. /\ array' = [array EXCEPT ![q][Slot(lastadded[q])] = arg[t].op]
          /\ pc' = [pc EXCEPT ![t] = "add_publish"] /\ pc[t] = "add_store"
          /\ UNCHANGED <<current, lastadded, arg, retval>>
        BY <1>3, <2>1 DEF AddStore, Goto
    <2>3. \A s \in Subtrees : \A i \in Backlog(s) :
            At(s, i)' = At(s, i) /\ Owner(s, i)' = Owner(s, i)
        BY <1>3, StoreKeepsBacklog
    <2>4. \A s \in Subtrees : Backlog(s)' = Backlog(s)
        BY <2>2 DEF Backlog
    <2>5. \A u \in Senders : Published(u) => Published(u)'
        BY <2>2 DEF Published, QTypeOK, Threads
    <2> QED BY <2>2, <2>3, <2>4, <2>5, QueuedType DEF QueuedOnce
<1>4. ASSUME NEW t \in Senders, AddPublish(t) PROVE QueuedOnce'
    <2>1. PICK q \in Subtrees : /\ q = arg[t].queue
                                /\ Backlog(q)' = Backlog(q) \cup {lastadded[q]}
                                /\ \A s \in Subtrees : s # q => Backlog(s)' = Backlog(s)
        BY <1>4, PublishExtendsBacklog
    <2>2. /\ pc' = [pc EXCEPT ![t] = "add_broadcast"] /\ pc[t] = "add_publish"
          /\ UNCHANGED <<array, current, arg, retval>>
        BY <1>4 DEF AddPublish, Goto
    <2>3. At(q, lastadded[q]) = arg[t].op /\ Owner(q, lastadded[q]) = t
        BY <2>1, <2>2, ArgType DEF StoredFirst, Owner
    <2>4. retval[t] = 0 /\ ~ Published(t)
        BY <2>2 DEF QTypeOK, Published
    <2>5. \A u \in Senders : Published(u) => Published(u)'
        BY <2>2 DEF Published, QTypeOK, Threads
    <2>6. Published(t)'
        BY <2>2, <2>4 DEF Published, QTypeOK, Threads
    <2>7. \A s \in Subtrees, i \in Int : At(s, i)' = At(s, i) /\ Owner(s, i)' = Owner(s, i)
        BY <2>2 DEF At, Owner
    <2>8. \A s \in Subtrees : \A i \in Backlog(s) : i \in Int /\ Owner(s, i) # t
        <3>1. \A s \in Subtrees : Backlog(s) \subseteq Int
            BY DEF Backlog
        <3>2. \A s \in Subtrees : \A i \in Backlog(s) : Owner(s, i) # t
            BY <2>4 DEF QueuedOnce
        <3> QED BY <3>1, <3>2
    <2>9. lastadded[q] \in Int
        BY DEF Counters
    <2>10. arg[t] = [queue |-> q, op |-> arg[t].op] /\ arg[t].op \in Operation
        BY <2>1, <2>2, ArgType
    <2>11. ASSUME NEW s \in Subtrees, NEW i \in Backlog(s)'
           PROVE  /\ At(s, i)' \in Operation
                  /\ arg'[Owner(s, i)'] = [queue |-> s, op |-> At(s, i)']
                  /\ Published(Owner(s, i))'
        <3>1. CASE i \in Backlog(s)
            BY <2>2, <2>5, <2>7, <2>8, <3>1, QueuedType DEF QueuedOnce
        <3>2. CASE s = q /\ i = lastadded[q]
            BY <2>2, <2>3, <2>6, <2>7, <2>9, <2>10, <3>2
        <3> QED BY <2>1, <2>11, <3>1, <3>2
    <2>12. ASSUME NEW s \in Subtrees, NEW i \in Backlog(s)', NEW j \in Backlog(s)',
                  Owner(s, i)' = Owner(s, j)'
           PROVE  i = j
        <3>1. CASE i \in Backlog(s) /\ j \in Backlog(s)
            <4>1. Owner(s, i) = Owner(s, j)
                BY <2>7, <2>8, <2>12, <3>1
            <4> QED BY <3>1, <4>1 DEF QueuedOnce
        <3>2. CASE i \in Backlog(s) /\ s = q /\ j = lastadded[q]
            BY <2>3, <2>7, <2>8, <2>9, <2>12, <3>2
        <3>3. CASE j \in Backlog(s) /\ s = q /\ i = lastadded[q]
            BY <2>3, <2>7, <2>8, <2>9, <2>12, <3>3
        <3>4. CASE i = lastadded[q] /\ j = lastadded[q]
            BY <3>4
        <3> QED BY <2>1, <2>12, <3>1, <3>2, <3>3, <3>4
    <2> QED BY <2>11, <2>12 DEF QueuedOnce
<1>5. ASSUME NEW t \in Senders, AddBroadcast(t) PROVE QueuedOnce'
    <2>1. UNCHANGED shared
        BY <1>5 DEF AddBroadcast
    <2>2. \A u \in Senders : u # t =>
            pc'[u] = pc[u] /\ retval'[u] = retval[u] /\ arg'[u] = arg[u]
        BY <1>5, ArgType DEF AddBroadcast, Goto, QTypeOK, Threads
    <2>3. ~ Published(t) \/ (Published(t)' /\ arg'[t] = arg[t])
        BY <1>5, ArgType DEF AddBroadcast, Goto, Published, QTypeOK, Threads
    <2> QED BY <2>1, <2>2, <2>3, QueuedOwnStep
<1>6. ASSUME NEW t \in Senders, AddUnlock(t) PROVE QueuedOnce'
    <2>1. UNCHANGED shared
        BY <1>6 DEF AddUnlock
    <2>2. \A u \in Senders : u # t =>
            pc'[u] = pc[u] /\ retval'[u] = retval[u] /\ arg'[u] = arg[u]
        BY <1>6, ArgType DEF AddUnlock, Goto, QTypeOK, Threads
    <2>3. ~ Published(t) \/ (Published(t)' /\ arg'[t] = arg[t])
        BY <1>6, ArgType DEF AddUnlock, Goto, Published, QTypeOK, Threads
    <2> QED BY <2>1, <2>2, <2>3, QueuedOwnStep
<1>7. ASSUME NEW t \in Senders, Resume(t) PROVE QueuedOnce'
    <2>1. UNCHANGED shared
        BY <1>7 DEF Resume
    <2>2. \A u \in Senders : u # t =>
            pc'[u] = pc[u] /\ retval'[u] = retval[u] /\ arg'[u] = arg[u]
        BY <1>7, ArgType DEF Resume, Goto, QTypeOK, Threads
    <2>3. ~ Published(t) \/ (Published(t)' /\ arg'[t] = arg[t])
        BY <1>7, ArgType DEF Resume, Goto, Published, QTypeOK, Threads
    <2> QED BY <2>1, <2>2, <2>3, QueuedOwnStep
<1>8. ASSUME NEW r \in Subtrees, Start(r) PROVE QueuedOnce'
    <2>1. UNCHANGED shared /\ UNCHANGED <<arg, retval>>
        BY <1>8 DEF Start
    <2>2. \A u \in Senders : pc'[u] = pc[u]
        BY <1>8 DEF Start, Goto, QTypeOK, Threads
    <2> QED BY <2>1, <2>2, QueuedFrame, QueuedType DEF QueuedOnce, Published
<1>9. ASSUME NEW r \in Subtrees, ReadLock(r) PROVE QueuedOnce'
    <2>1. UNCHANGED shared /\ UNCHANGED <<arg, retval>>
        BY <1>9 DEF ReadLock
    <2>2. \A u \in Senders : pc'[u] = pc[u]
        BY <1>9 DEF ReadLock, Goto, QTypeOK, Threads
    <2> QED BY <2>1, <2>2, QueuedFrame, QueuedType DEF QueuedOnce, Published
<1>10. ASSUME NEW r \in Subtrees, ReadWait(r) PROVE QueuedOnce'
    <2>1. UNCHANGED shared /\ UNCHANGED <<arg, retval>>
        BY <1>10 DEF ReadWait
    <2>2. \A u \in Senders : pc'[u] = pc[u]
        BY <1>10 DEF ReadWait, Goto, QTypeOK, Threads
    <2> QED BY <2>1, <2>2, QueuedFrame, QueuedType DEF QueuedOnce, Published
<1>11. ASSUME NEW r \in Subtrees, ReadTake(r) PROVE QueuedOnce'
    <2>1. \A s \in Subtrees : Backlog(s)' \subseteq Backlog(s)
        BY <1>11, TakeShortensBacklog
    <2>2. \A s \in Subtrees, i \in Int : At(s, i)' = At(s, i) /\ Owner(s, i)' = Owner(s, i)
        BY <1>11 DEF ReadTake, At, Owner
    <2>3. UNCHANGED <<arg, retval>> /\ \A u \in Senders : pc'[u] = pc[u]
        BY <1>11 DEF ReadTake, Goto, QTypeOK, Threads
    <2>4. \A u \in Senders : Published(u) => Published(u)'
        BY <2>3 DEF Published
    <2>5. \A s \in Subtrees : Backlog(s) \subseteq Int
        BY DEF Backlog
    <2> QED BY <2>1, <2>2, <2>3, <2>4, <2>5, QueuedType DEF QueuedOnce
<1>12. ASSUME NEW r \in Subtrees, ReadUnlock(r) PROVE QueuedOnce'
    <2>1. UNCHANGED shared /\ UNCHANGED <<arg, retval>>
        BY <1>12 DEF ReadUnlock
    <2>2. \A u \in Senders : pc'[u] = pc[u]
        BY <1>12 DEF ReadUnlock, Goto, QTypeOK, Threads
    <2> QED BY <2>1, <2>2, QueuedFrame, QueuedType DEF QueuedOnce, Published
<1>13. ASSUME NEW r \in Subtrees, SpuriousWake(r) PROVE QueuedOnce'
    <2>1. UNCHANGED shared /\ UNCHANGED <<arg, retval>>
        BY <1>13 DEF SpuriousWake
    <2>2. \A u \in Senders : pc'[u] = pc[u]
        BY <1>13 DEF SpuriousWake, Goto, QTypeOK, Threads
    <2> QED BY <2>1, <2>2, QueuedFrame, QueuedType DEF QueuedOnce, Published
<1>14. ASSUME NEW r \in Subtrees, NEW v \in {1, 2}, Answer(r, v) PROVE QueuedOnce'
    <2>1. data[r] \in Operation /\ data[r].caller \in Senders /\ data[r] # Unset
        BY <1>14, DataType DEF Answer
    <2>2. UNCHANGED shared /\ UNCHANGED arg
        BY <1>14 DEF Answer
    <2>3. \A u \in Senders : pc'[u] = pc[u] /\ (u # data[r].caller => retval'[u] = retval[u])
        BY <1>14 DEF Answer, Goto, QTypeOK, Threads
    <2>4. ASSUME NEW q \in Subtrees, NEW i \in Backlog(q) PROVE Owner(q, i) # data[r].caller
        <3>1. CASE q = r
            BY <2>1, <3>1 DEF InHandOnce
        <3>2. CASE q # r
            <4>1. arg[Owner(q, i)] = [queue |-> q, op |-> At(q, i)]
                BY DEF QueuedOnce
            <4>2. arg[data[r].caller] = [queue |-> r, op |-> data[r]]
                BY <2>1 DEF InHandOnce
            <4>3. arg[Owner(q, i)].queue = q /\ arg[data[r].caller].queue = r
                BY <4>1, <4>2
            <4> QED BY <3>2, <4>3
        <3> QED BY <3>1, <3>2
    <2> QED BY <2>2, <2>3, <2>4, QueuedFrame, QueuedType DEF QueuedOnce, Published
<1>15. ASSUME NEW t \in Senders,
              (\E q \in Subtrees, b \in Bodies : Call(t, q, b)) \/ AddStep(t) \/ Resume(t)
       PROVE  QueuedOnce'
    BY <1>15, <1>1, <1>2, <1>3, <1>4, <1>5, <1>6, <1>7 DEF AddStep
<1>16. ASSUME NEW r \in Subtrees,
              Start(r) \/ ReadStep(r) \/ SpuriousWake(r) \/ \E v \in {1, 2} : Answer(r, v)
       PROVE  QueuedOnce'
    BY <1>16, <1>8, <1>9, <1>10, <1>11, <1>12, <1>13, <1>14 DEF ReadStep
<1>17. CASE UNCHANGED qvars
    <2>1. UNCHANGED shared /\ UNCHANGED <<arg, retval, pc>>
        BY <1>17 DEF qvars, shared
    <2> QED BY <2>1, QueuedFrame DEF QueuedOnce, Published
<1> QED BY <1>15, <1>16, <1>17 DEF QNext

LEMMA HandType ==
    ASSUME QTypeOK, InHandOnce, NEW r \in Subtrees, data[r] # Unset
    PROVE  /\ data[r].caller \in Senders
           /\ pc[data[r].caller] = "sent" /\ retval[data[r].caller] = 0
<1>1. data[r] \in Operation
    BY DEF QTypeOK
<1>2. data[r].caller \in Senders
    BY <1>1 DEF Operation
<1> QED BY <1>2 DEF InHandOnce

\* A step that leaves the operations in hand and their callers alone and adds
\* to a queue no operation of those callers.
LEMMA InHandFrame ==
    ASSUME QTypeOK, InHandOnce,
           \A r \in Subtrees : data'[r] # Unset =>
               /\ data'[r] = data[r]
               /\ arg'[data[r].caller] = arg[data[r].caller]
               /\ pc'[data[r].caller] = "sent" /\ retval'[data[r].caller] = 0
               /\ \A i \in Backlog(r)' :
                      \/ i \in Backlog(r) /\ Owner(r, i)' = Owner(r, i)
                      \/ Owner(r, i)' # data[r].caller
    PROVE  InHandOnce'
BY DEF InHandOnce

\* A client's own step, when its operation is in no reader's hand.
LEMMA InHandOwnStep ==
    ASSUME QTypeOK, InHandOnce, UNCHANGED shared, UNCHANGED data, NEW t \in Senders,
           pc[t] # "sent" \/ retval[t] # 0,
           \A u \in Senders : u # t =>
               pc'[u] = pc[u] /\ retval'[u] = retval[u] /\ arg'[u] = arg[u]
    PROVE  InHandOnce'
<1>1. \A r \in Subtrees : Backlog(r)' = Backlog(r)
    BY DEF shared, Backlog
<1>2. \A r \in Subtrees : \A i \in Backlog(r) : Owner(r, i)' = Owner(r, i)
    BY DEF shared, At, Owner
<1>3. ASSUME NEW r \in Subtrees, data[r] # Unset
      PROVE  /\ data[r].caller \in Senders \ {t}
             /\ pc[data[r].caller] = "sent" /\ retval[data[r].caller] = 0
    BY <1>3, HandType
<1> QED BY <1>1, <1>2, <1>3, InHandFrame

\* A reader's step that changes neither its queue nor its hand.
LEMMA InHandReadStep ==
    ASSUME QTypeOK, InHandOnce, UNCHANGED shared, UNCHANGED <<arg, data, retval>>,
           \A u \in Senders : pc'[u] = pc[u]
    PROVE  InHandOnce'
<1>1. \A r \in Subtrees : Backlog(r)' = Backlog(r)
    BY DEF shared, Backlog
<1>2. \A r \in Subtrees : \A i \in Backlog(r) : Owner(r, i)' = Owner(r, i)
    BY DEF shared, At, Owner
<1>3. ASSUME NEW r \in Subtrees, data[r] # Unset
      PROVE  /\ data[r].caller \in Senders
             /\ pc[data[r].caller] = "sent" /\ retval[data[r].caller] = 0
    BY <1>3, HandType
<1> QED BY <1>1, <1>2, <1>3, InHandFrame

\* Every step keeps the operations in hand single and awaited.
LEMMA InHandStep ==
    ASSUME CapacityOK, QTypeOK, MutualExclusion, Counters, StoredFirst,
           QueuedOnce, InHandOnce, [QNext]_qvars
    PROVE  InHandOnce'
<1>1. ASSUME NEW t \in Senders, NEW q \in Subtrees, NEW b \in Bodies, Call(t, q, b) PROVE InHandOnce'
    <2>1. UNCHANGED shared /\ UNCHANGED data
        BY <1>1 DEF Call
    <2>2. \A u \in Senders : u # t =>
            pc'[u] = pc[u] /\ retval'[u] = retval[u] /\ arg'[u] = arg[u]
        BY <1>1, ArgType DEF Call, Goto, QTypeOK, Threads
    <2>3. pc[t] # "sent" \/ retval[t] # 0
        BY <1>1 DEF Call
    <2> QED BY <2>1, <2>2, <2>3, InHandOwnStep
<1>2. ASSUME NEW t \in Senders, AddLock(t) PROVE InHandOnce'
    <2>1. UNCHANGED shared /\ UNCHANGED data
        BY <1>2 DEF AddLock
    <2>2. \A u \in Senders : u # t =>
            pc'[u] = pc[u] /\ retval'[u] = retval[u] /\ arg'[u] = arg[u]
        BY <1>2, ArgType DEF AddLock, Goto, QTypeOK, Threads
    <2>3. pc[t] # "sent" \/ retval[t] # 0
        BY <1>2 DEF AddLock
    <2> QED BY <2>1, <2>2, <2>3, InHandOwnStep
<1>3. ASSUME NEW t \in Senders, AddStore(t) PROVE InHandOnce'
    <2>1. /\ UNCHANGED <<current, lastadded, arg, data, retval>>
          /\ pc' = [pc EXCEPT ![t] = "add_publish"] /\ pc[t] = "add_store"
        BY <1>3 DEF AddStore, Goto
    <2>2. \A s \in Subtrees : \A i \in Backlog(s) : Owner(s, i)' = Owner(s, i)
        BY <1>3, StoreKeepsBacklog
    <2>3. \A s \in Subtrees : Backlog(s)' = Backlog(s)
        BY <2>1 DEF Backlog
    <2>4. ASSUME NEW r \in Subtrees, data[r] # Unset
          PROVE  /\ data[r].caller \in Senders
                 /\ pc[data[r].caller] = "sent" /\ retval[data[r].caller] = 0
        BY <2>4, HandType
    <2>5. \A u \in Senders : pc[u] = "sent" => pc'[u] = "sent"
        BY <2>1 DEF QTypeOK, Threads
    <2> QED BY <2>1, <2>2, <2>3, <2>4, <2>5, InHandFrame
<1>4. ASSUME NEW t \in Senders, AddPublish(t) PROVE InHandOnce'
    <2>1. PICK q \in Subtrees : /\ q = arg[t].queue
                                /\ Backlog(q)' = Backlog(q) \cup {lastadded[q]}
                                /\ \A s \in Subtrees : s # q => Backlog(s)' = Backlog(s)
        BY <1>4, PublishExtendsBacklog
    <2>2. /\ UNCHANGED <<array, arg, data, retval>>
          /\ pc' = [pc EXCEPT ![t] = "add_broadcast"] /\ pc[t] = "add_publish"
        BY <1>4 DEF AddPublish, Goto
    <2>3. \A s \in Subtrees, i \in Int : Owner(s, i)' = Owner(s, i)
        BY <2>2 DEF At, Owner
    <2>4. Owner(q, lastadded[q]) = t /\ lastadded[q] \in Int
        <3>1. At(q, lastadded[q]) = arg[t].op
            BY <2>1, <2>2 DEF StoredFirst
        <3>2. lastadded[q] \in Int
            BY DEF QTypeOK
        <3>3. arg[t].op.caller = t
            BY <2>2, ArgType
        <3> QED BY <3>1, <3>2, <3>3 DEF Owner
    <2>5. ASSUME NEW r \in Subtrees, data[r] # Unset
          PROVE  /\ data[r].caller \in Senders
                 /\ pc[data[r].caller] = "sent" /\ retval[data[r].caller] = 0
        BY <2>5, HandType
    <2>6. \A u \in Senders : pc[u] = "sent" => pc'[u] = "sent" /\ u # t
        BY <2>2 DEF QTypeOK, Threads
    <2>7. ASSUME NEW r \in Subtrees, data[r] # Unset, NEW i \in Backlog(r)'
          PROVE  \/ i \in Backlog(r) /\ Owner(r, i)' = Owner(r, i)
                 \/ Owner(r, i)' # data[r].caller
        <3>1. CASE i \in Backlog(r)
            <4>1. i \in Int
                BY <3>1 DEF Backlog
            <4> QED BY <2>3, <3>1, <4>1
        <3>2. CASE r = q /\ i = lastadded[q]
            BY <2>3, <2>4, <2>5, <2>6, <2>7, <3>2
        <3> QED BY <2>1, <2>7, <3>1, <3>2
    <2> QED BY <2>2, <2>5, <2>6, <2>7, InHandFrame
<1>5. ASSUME NEW t \in Senders, AddBroadcast(t) PROVE InHandOnce'
    <2>1. UNCHANGED shared /\ UNCHANGED data
        BY <1>5 DEF AddBroadcast
    <2>2. \A u \in Senders : u # t =>
            pc'[u] = pc[u] /\ retval'[u] = retval[u] /\ arg'[u] = arg[u]
        BY <1>5, ArgType DEF AddBroadcast, Goto, QTypeOK, Threads
    <2>3. pc[t] # "sent" \/ retval[t] # 0
        BY <1>5 DEF AddBroadcast
    <2> QED BY <2>1, <2>2, <2>3, InHandOwnStep
<1>6. ASSUME NEW t \in Senders, AddUnlock(t) PROVE InHandOnce'
    <2>1. UNCHANGED shared /\ UNCHANGED data
        BY <1>6 DEF AddUnlock
    <2>2. \A u \in Senders : u # t =>
            pc'[u] = pc[u] /\ retval'[u] = retval[u] /\ arg'[u] = arg[u]
        BY <1>6, ArgType DEF AddUnlock, Goto, QTypeOK, Threads
    <2>3. pc[t] # "sent" \/ retval[t] # 0
        BY <1>6 DEF AddUnlock
    <2> QED BY <2>1, <2>2, <2>3, InHandOwnStep
<1>7. ASSUME NEW t \in Senders, Resume(t) PROVE InHandOnce'
    <2>1. UNCHANGED shared /\ UNCHANGED data
        BY <1>7 DEF Resume
    <2>2. \A u \in Senders : u # t =>
            pc'[u] = pc[u] /\ retval'[u] = retval[u] /\ arg'[u] = arg[u]
        BY <1>7, ArgType DEF Resume, Goto, QTypeOK, Threads
    <2>3. pc[t] # "sent" \/ retval[t] # 0
        BY <1>7 DEF Resume
    <2> QED BY <2>1, <2>2, <2>3, InHandOwnStep
<1>8. ASSUME NEW r \in Subtrees, Start(r) PROVE InHandOnce'
    <2>1. UNCHANGED shared /\ UNCHANGED <<arg, data, retval>>
        BY <1>8 DEF Start
    <2>2. \A u \in Senders : pc'[u] = pc[u]
        BY <1>8 DEF Start, Goto, QTypeOK, Threads
    <2> QED BY <2>1, <2>2, InHandReadStep
<1>9. ASSUME NEW r \in Subtrees, ReadLock(r) PROVE InHandOnce'
    <2>1. UNCHANGED shared /\ UNCHANGED <<arg, data, retval>>
        BY <1>9 DEF ReadLock
    <2>2. \A u \in Senders : pc'[u] = pc[u]
        BY <1>9 DEF ReadLock, Goto, QTypeOK, Threads
    <2> QED BY <2>1, <2>2, InHandReadStep
<1>10. ASSUME NEW r \in Subtrees, ReadWait(r) PROVE InHandOnce'
    <2>1. UNCHANGED shared /\ UNCHANGED <<arg, data, retval>>
        BY <1>10 DEF ReadWait
    <2>2. \A u \in Senders : pc'[u] = pc[u]
        BY <1>10 DEF ReadWait, Goto, QTypeOK, Threads
    <2> QED BY <2>1, <2>2, InHandReadStep
<1>11. ASSUME NEW r \in Subtrees, ReadTake(r) PROVE InHandOnce'
    <2> DEFINE op == At(r, current[r])
    <2>1. /\ current[r] \in Backlog(r)
          /\ Backlog(r)' = Backlog(r) \ {current[r]}
          /\ \A s \in Subtrees : Backlog(s)' \subseteq Backlog(s)
        BY <1>11, TakeShortensBacklog
    <2>2. /\ op \in Operation /\ op.caller \in Senders
          /\ arg[op.caller] = [queue |-> r, op |-> op]
          /\ Published(op.caller)
        BY <2>1, QueuedType DEF QueuedOnce, Owner
    <2>3. pc[op.caller] = "sent" /\ retval[op.caller] = 0
        <3>1. mutex[r] = r
            BY <1>11 DEF ReadTake, MutualExclusion, Inside, Threads
        <3>2. ~ Inside(op.caller, r)
            BY <2>2, <3>1 DEF MutualExclusion, Threads
        <3> QED BY <2>2, <3>2 DEF Inside, Published
    <2>4. \A i \in Backlog(r) \ {current[r]} : Owner(r, i) # op.caller
        BY <2>1 DEF QueuedOnce, Owner
    <2>5. /\ data' = [data EXCEPT ![r] = op]
          /\ UNCHANGED <<array, arg, retval>>
          /\ \A u \in Senders : pc'[u] = pc[u]
        BY <1>11 DEF ReadTake, Goto, At, QTypeOK, Threads
    <2>6. \A s \in Subtrees, i \in Int : Owner(s, i)' = Owner(s, i)
        BY <2>5 DEF At, Owner
    <2>7. \A s \in Subtrees : Backlog(s) \subseteq Int
        BY DEF Backlog
    <2> HIDE DEF op
    <2>8. ASSUME NEW s \in Subtrees, data'[s] # Unset
          PROVE  /\ arg'[data'[s].caller] = [queue |-> s, op |-> data'[s]]
                 /\ pc'[data'[s].caller] = "sent" /\ retval'[data'[s].caller] = 0
                 /\ \A i \in Backlog(s)' : Owner(s, i)' # data'[s].caller
        <3>1. CASE s = r
            <4>1. data'[s] = op
                BY <2>5, <3>1 DEF QTypeOK
            <4> QED BY <2>1, <2>2, <2>3, <2>4, <2>5, <2>6, <2>7, <3>1, <4>1
        <3>2. CASE s # r
            <4>1. data'[s] = data[s] /\ data[s].caller \in Senders
                BY <2>5, <2>8, <3>2 DEF QTypeOK, Operation
            <4> QED BY <2>1, <2>5, <2>6, <2>7, <2>8, <4>1 DEF InHandOnce
        <3> QED BY <3>1, <3>2
    <2> QED BY <2>8 DEF InHandOnce
<1>12. ASSUME NEW r \in Subtrees, ReadUnlock(r) PROVE InHandOnce'
    <2>1. UNCHANGED shared /\ UNCHANGED <<arg, data, retval>>
        BY <1>12 DEF ReadUnlock
    <2>2. \A u \in Senders : pc'[u] = pc[u]
        BY <1>12 DEF ReadUnlock, Goto, QTypeOK, Threads
    <2> QED BY <2>1, <2>2, InHandReadStep
<1>13. ASSUME NEW r \in Subtrees, SpuriousWake(r) PROVE InHandOnce'
    <2>1. UNCHANGED shared /\ UNCHANGED <<arg, data, retval>>
        BY <1>13 DEF SpuriousWake
    <2>2. \A u \in Senders : pc'[u] = pc[u]
        BY <1>13 DEF SpuriousWake, Goto, QTypeOK, Threads
    <2> QED BY <2>1, <2>2, InHandReadStep
<1>14. ASSUME NEW r \in Subtrees, NEW v \in {1, 2}, Answer(r, v) PROVE InHandOnce'
    <2>1. data[r] \in Operation /\ data[r].caller \in Senders /\ data[r] # Unset
        BY <1>14, DataType DEF Answer
    <2>2. UNCHANGED shared /\ UNCHANGED arg
        BY <1>14 DEF Answer
    <2>3. \A u \in Senders : pc'[u] = pc[u] /\ (u # data[r].caller => retval'[u] = retval[u])
        BY <1>14 DEF Answer, Goto, QTypeOK, Threads
    <2>4. data' = [data EXCEPT ![r] = Unset]
        BY <1>14 DEF Answer
    <2>5. \A s \in Subtrees : data'[s] = IF s = r THEN Unset ELSE data[s]
        BY <2>4 DEF QTypeOK
    <2>6. \A s \in Subtrees : Backlog(s)' = Backlog(s)
        BY <2>2 DEF shared, Backlog
    <2>7. \A s \in Subtrees : \A i \in Backlog(s) : Owner(s, i)' = Owner(s, i)
        BY <2>2 DEF shared, At, Owner
    <2>8. ASSUME NEW s \in Subtrees, data'[s] # Unset
          PROVE  /\ data'[s] = data[s] /\ data[s].caller \in Senders
                 /\ data[s].caller # data[r].caller
                 /\ pc[data[s].caller] = "sent" /\ retval[data[s].caller] = 0
        <3>1. s # r /\ data'[s] = data[s] /\ data[s] # Unset
            BY <2>5, <2>8
        <3>2. arg[data[s].caller] = [queue |-> s, op |-> data[s]]
            BY <3>1 DEF InHandOnce
        <3>3. arg[data[r].caller] = [queue |-> r, op |-> data[r]]
            BY <2>1 DEF InHandOnce
        <3>4. data[s].caller # data[r].caller
            BY <3>1, <3>2, <3>3
        <3> QED BY <3>1, <3>4, HandType
    <2> QED BY <2>2, <2>3, <2>6, <2>7, <2>8, InHandFrame
<1>15. ASSUME NEW t \in Senders,
              (\E q \in Subtrees, b \in Bodies : Call(t, q, b)) \/ AddStep(t) \/ Resume(t)
       PROVE  InHandOnce'
    BY <1>15, <1>1, <1>2, <1>3, <1>4, <1>5, <1>6, <1>7 DEF AddStep
<1>16. ASSUME NEW r \in Subtrees,
              Start(r) \/ ReadStep(r) \/ SpuriousWake(r) \/ \E v \in {1, 2} : Answer(r, v)
       PROVE  InHandOnce'
    BY <1>16, <1>8, <1>9, <1>10, <1>11, <1>12, <1>13, <1>14 DEF ReadStep
<1>17. CASE UNCHANGED qvars
    <2>1. UNCHANGED shared /\ UNCHANGED <<arg, data, retval, pc>>
        BY <1>17 DEF qvars, shared
    <2> QED BY <2>1, InHandReadStep
<1> QED BY <1>15, <1>16, <1>17 DEF QNext

-------------------------------------------------------------------------------
(* Invariance *)

LEMMA InitIInv == QInit => IInv
<1> SUFFICES ASSUME QInit PROVE IInv
    OBVIOUS
<1>1. QTypeOK
    BY DEF QInit, QTypeOK, AddLabels, ReadLabels, Threads
<1>2. \A q \in Subtrees : Unpublished(q) = {}
    BY DEF QInit, Unpublished, Threads
<1>3. Counters
    <2>1. \A q \in Subtrees : Cardinality(Unpublished(q)) = 0
        BY <1>2, FS_EmptySet
    <2> QED BY <2>1 DEF QInit, Counters
<1>4. \A q \in Subtrees : Backlog(q) = {}
    BY DEF QInit, Backlog
<1>5. OneOperationPerCall
    BY <1>4 DEF QInit, OneOperationPerCall, QueuedOnce, InHandOnce
<1> QED BY <1>1, <1>3, <1>5
        DEF QInit, IInv, MutualExclusion, Inside, StoredFirst, NoLostWakeup, Threads

LEMMA IInvStep ==
    ASSUME CapacityOK, IInv, [QNext]_qvars
    PROVE  IInv'
<1> USE DEF IInv, OneOperationPerCall
<1>1. QTypeOK'
    BY TypeStep
<1>2. MutualExclusion'
    BY MutexStep
<1>3. Counters'
    BY CountersStep
<1>4. StoredFirst'
    BY StoredStep
<1>5. QueuedOnce'
    BY QueuedStep
<1>6. InHandOnce'
    BY InHandStep
<1>7. NoLostWakeup'
    BY WakeupStep
<1> QED BY <1>1, <1>2, <1>3, <1>4, <1>5, <1>6, <1>7

\* IInv is an invariant as long as there is a slot for each client and the
\* counters have room for the calls.
THEOREM Invariance ==
    ASSUME CapacityOK
    PROVE  QSpec => []IInv
<1>1. QInit => IInv
    BY InitIInv
<1>2. IInv /\ [QNext]_qvars => IInv'
    BY IInvStep
<1> QED BY <1>1, <1>2, PTL DEF QSpec

\* Types, for any number of clients, queues and slots.
THEOREM TypeCorrect ==
    ASSUME CapacityOK
    PROVE  QSpec => []QTypeOK
<1>1. IInv => QTypeOK
    BY DEF IInv
<1> QED BY <1>1, Invariance, PTL

\* One thread at a time between the lock and the unlock of a queue.
THEOREM ExclusionCorrect ==
    ASSUME CapacityOK
    PROVE  QSpec => []MutualExclusion
<1>1. IInv => MutualExclusion
    BY DEF IInv
<1> QED BY <1>1, Invariance, PTL

\* A queue_add never overwrites an operation that is still to be read, although
\* it never looks for a free slot.
THEOREM NothingOverwritten ==
    ASSUME CapacityOK
    PROVE  QSpec => []NoOverwrite
<1>1. IInv => NoOverwrite
    <2>1. SUFFICES ASSUME IInv, NEW t \in Senders, pc[t] = "add_store"
                   PROVE  lastadded[arg[t].queue] - current[arg[t].queue] < Lenght
        BY DEF NoOverwrite
    <2>2. arg[t].queue \in Subtrees /\ ~ Published(t)
        BY <2>1, ArgType DEF IInv, Published
    <2> QED BY <2>1, <2>2, BacklogBelowLenght DEF IInv, OneOperationPerCall
<1> QED BY <1>1, Invariance, PTL

\* No wakeup is lost: a reader asleep has nothing to read, or is about to be told.
THEOREM WakeupCorrect ==
    ASSUME CapacityOK
    PROVE  QSpec => []NoLostWakeup
<1>1. IInv => NoLostWakeup
    BY DEF IInv
<1> QED BY <1>1, Invariance, PTL

\* An operation is queued once, read once and answered once, while its caller waits.
THEOREM AnsweredOnce ==
    ASSUME CapacityOK
    PROVE  QSpec => []OneOperationPerCall
<1>1. IInv => OneOperationPerCall
    BY DEF IInv
<1> QED BY <1>1, Invariance, PTL

-------------------------------------------------------------------------------
(* The ring implements a bounded FIFO channel *)

\* Pending(q) is the sequence of the operations at the positions of the backlog.
PendingTyped ==
    \A q \in Subtrees :
        /\ Pending(q) \in Seq(Operation)
        /\ Len(Pending(q)) = lastadded[q] - current[q]
        /\ \A i \in 1 .. Len(Pending(q)) : Pending(q)[i] = At(q, current[q] + i - 1)

LEMMA PendingType == Counters /\ QueuedOnce => PendingTyped
<1> SUFFICES ASSUME Counters, QueuedOnce, NEW q \in Subtrees
             PROVE  /\ Pending(q) \in Seq(Operation)
                    /\ Len(Pending(q)) = lastadded[q] - current[q]
                    /\ \A i \in 1 .. Len(Pending(q)) :
                           Pending(q)[i] = At(q, current[q] + i - 1)
    BY DEF PendingTyped
<1> DEFINE n == lastadded[q] - current[q]
<1>1. n \in Nat /\ current[q] \in Nat /\ lastadded[q] \in Nat
    BY DEF Counters
<1>2. ASSUME NEW i \in 1 .. n PROVE At(q, current[q] + i - 1) \in Operation
    <2>1. current[q] + i - 1 \in Backlog(q)
        BY <1>1 DEF Backlog
    <2> QED BY <2>1, QueuedType
<1>3. Pending(q) = [i \in 1 .. n |-> At(q, current[q] + i - 1)]
    BY DEF Pending
<1> HIDE DEF n
<1>4. Pending(q) \in [1 .. n -> Operation]
    BY <1>2, <1>3
<1>5. Pending(q) \in Seq(Operation) /\ Len(Pending(q)) = n
    BY <1>1, <1>4
<1> QED BY <1>3, <1>5 DEF n

LEMMA PendingTypeNext == Counters' /\ QueuedOnce' => PendingTyped'
BY PendingType, PTL

\* A queue whose counters and waiting slots a step leaves alone.
LEMMA PendingFrame ==
    ASSUME Counters, QueuedOnce, Counters', QueuedOnce', NEW q \in Subtrees,
           current'[q] = current[q], lastadded'[q] = lastadded[q],
           \A i \in Backlog(q) : At(q, i)' = At(q, i)
    PROVE  Pending(q)' = Pending(q)
<1> DEFINE s == Pending(q)
           n == lastadded[q] - current[q]
<1>1. n \in Nat /\ current[q] \in Nat /\ lastadded[q] \in Nat
    BY DEF Counters
<1>2. \A i \in 1 .. n : At(q, current[q] + i - 1)' = At(q, current[q] + i - 1)
    <2>1. ASSUME NEW i \in 1 .. n PROVE current[q] + i - 1 \in Backlog(q)
        BY <1>1 DEF Backlog
    <2>2. \A j \in Backlog(q) : array'[q][Slot(j)] = array[q][Slot(j)]
        BY DEF At
    <2> QED BY <2>1, <2>2 DEF At
<1> QED BY <1>1, <1>2 DEF Pending, At

LEMMA PendingSend ==
    ASSUME CapacityOK, IInv, IInv', NEW t \in Senders, AddPublish(t)
    PROVE  \E q \in Subtrees :
               /\ arg[t].op \in Operation
               /\ Len(Pending(q)) < Lenght
               /\ Pending(q)' = Append(Pending(q), arg[t].op)
               /\ \A r \in Subtrees : r # q => Pending(r)' = Pending(r)
<1> USE DEF IInv, OneOperationPerCall
<1>1. PICK q \in Subtrees : /\ q = arg[t].queue
                            /\ lastadded'[q] = lastadded[q] + 1
        BY PublishExtendsBacklog
<1>2. /\ pc[t] = "add_publish" /\ UNCHANGED <<array, current>>
      /\ lastadded' = [lastadded EXCEPT ![q] = Inc(@)]
    BY <1>1 DEF AddPublish
<1>3. At(q, lastadded[q]) = arg[t].op
    BY <1>1, <1>2 DEF StoredFirst
<1>4. arg[t].op \in Operation /\ ~ Published(t)
    BY <1>2, ArgType DEF Published
<1>5. Len(Pending(q)) < Lenght
    BY <1>4, BacklogBelowLenght, PendingType DEF PendingTyped
<1>6. \A r \in Subtrees, i \in Int : At(r, i)' = At(r, i)
    BY <1>2 DEF At
<1>7. \A r \in Subtrees : r # q => Pending(r)' = Pending(r)
    <2>1. \A r \in Subtrees : r # q => lastadded'[r] = lastadded[r]
        BY <1>2 DEF QTypeOK
    <2>2. \A r \in Subtrees : Backlog(r) \subseteq Int
        BY DEF Backlog
    <2> QED BY <1>2, <1>6, <2>1, <2>2, PendingFrame
<1>8. Pending(q)' = Append(Pending(q), arg[t].op)
    <2> DEFINE n == lastadded[q] - current[q]
               a == Append(Pending(q), arg[t].op)
               p == Pending(q)'
    <2>1. n \in Nat /\ current[q] \in Nat /\ lastadded[q] = current[q] + n
        BY DEF Counters
    <2>2. /\ p \in Seq(Operation)
          /\ Len(p) = n + 1
          /\ \A i \in 1 .. n + 1 : p[i] = At(q, current[q] + i - 1)
        <3>1. /\ p \in Seq(Operation)
              /\ Len(p) = lastadded'[q] - current'[q]
              /\ \A i \in 1 .. Len(p) : p[i] = array'[q][Slot(current'[q] + i - 1)]
            BY PendingTypeNext DEF PendingTyped, At
        <3>3. lastadded'[q] - current'[q] = n + 1 /\ current'[q] = current[q]
            BY <1>1, <1>2, <2>1
        <3>4. \A i \in 1 .. n + 1 : p[i] = array[q][Slot(current[q] + i - 1)]
            BY <1>2, <3>1, <3>3
        <3> QED BY <3>1, <3>3, <3>4 DEF At
    <2>3. /\ Pending(q) \in Seq(Operation)
          /\ Len(Pending(q)) = n
          /\ \A i \in 1 .. n : Pending(q)[i] = At(q, current[q] + i - 1)
        BY PendingType DEF PendingTyped
    <2>4. /\ a \in Seq(Operation)
          /\ Len(a) = n + 1
          /\ \A i \in 1 .. n : a[i] = Pending(q)[i]
          /\ a[n + 1] = arg[t].op
        BY <1>4, <2>3, AppendProperties
    <2> HIDE DEF a, p, n
    <2>5. \A i \in 1 .. n + 1 : p[i] = a[i]
        <3>1. ASSUME NEW i \in 1 .. n PROVE p[i] = a[i]
            BY <2>1, <2>2, <2>3, <2>4
        <3>2. p[n + 1] = a[n + 1]
            BY <1>3, <2>1, <2>2, <2>4
        <3>3. \A i \in 1 .. n + 1 : i \in 1 .. n \/ i = n + 1
            BY <2>1
        <3> QED BY <3>1, <3>2, <3>3
    <2>6. p = a
        BY <2>2, <2>4, <2>5, SeqEqual
    <2> QED BY <2>6 DEF p, a
<1> QED BY <1>4, <1>5, <1>7, <1>8

LEMMA PendingReceive ==
    ASSUME CapacityOK, IInv, IInv', NEW r \in Subtrees, ReadTake(r)
    PROVE  /\ Pending(r) # <<>>
           /\ Head(Pending(r)) = At(r, current[r])
           /\ Pending(r)' = Tail(Pending(r))
           /\ \A q \in Subtrees : q # r => Pending(q)' = Pending(q)
<1> USE DEF IInv, OneOperationPerCall
<1> DEFINE n == lastadded[r] - current[r]
           p == Pending(r)
<1>1. /\ current[r] \in Backlog(r) /\ current'[r] = current[r] + 1
      /\ UNCHANGED <<array, lastadded>>
      /\ current' = [current EXCEPT ![r] = Inc(@)]
    BY TakeShortensBacklog DEF ReadTake
<1>2. n \in Nat \ {0} /\ current[r] \in Nat /\ lastadded[r] \in Nat
    BY <1>1 DEF Counters, Backlog
<1>3. /\ p \in Seq(Operation) /\ Len(p) = n
      /\ \A i \in 1 .. n : p[i] = At(r, current[r] + i - 1)
    BY PendingType DEF PendingTyped
<1>4. \A q \in Subtrees, i \in Int : At(q, i)' = At(q, i)
    BY <1>1 DEF At
<1>5. \A q \in Subtrees : q # r => Pending(q)' = Pending(q)
    <2>1. \A q \in Subtrees : q # r => current'[q] = current[q]
        BY <1>1 DEF QTypeOK
    <2>2. \A q \in Subtrees : Backlog(q) \subseteq Int
        BY DEF Backlog
    <2> QED BY <1>1, <1>4, <2>1, <2>2, PendingFrame
<1>6. /\ Pending(r)' \in Seq(Operation)
      /\ Len(Pending(r)') = n - 1
      /\ \A i \in 1 .. n - 1 : Pending(r)'[i] = At(r, current[r] + i)
    <2>1. /\ Pending(r)' \in Seq(Operation)
          /\ Len(Pending(r)') = lastadded'[r] - current'[r]
          /\ \A i \in 1 .. Len(Pending(r)') :
                 Pending(r)'[i] = array'[r][Slot(current'[r] + i - 1)]
        BY PendingTypeNext DEF PendingTyped, At
    <2>2. lastadded'[r] - current'[r] = n - 1
        BY <1>1, <1>2
    <2>3. \A i \in 1 .. n - 1 : current'[r] + i - 1 = current[r] + i
        BY <1>1, <1>2
    <2> QED BY <1>1, <2>1, <2>2, <2>3 DEF At
<1> HIDE DEF n, p
<1>7. p # <<>>
    BY <1>2, <1>3, EmptySeq
<1>8. Head(p) = At(r, current[r])
    <2>1. Head(p) = p[1]
        BY <1>3, <1>7
    <2>2. p[1] = At(r, current[r] + 1 - 1)
        BY <1>2, <1>3
    <2> QED BY <1>2, <2>1, <2>2
<1>9. /\ Tail(p) \in Seq(Operation)
      /\ Len(Tail(p)) = n - 1
      /\ \A i \in 1 .. n - 1 : Tail(p)[i] = p[i + 1]
    BY <1>3, <1>7, HeadTailProperties
<1>10. \A i \in 1 .. n - 1 : Tail(p)[i] = Pending(r)'[i]
    <2>1. ASSUME NEW i \in 1 .. n - 1 PROVE p[i + 1] = At(r, current[r] + i)
        <3>1. i + 1 \in 1 .. n /\ current[r] + (i + 1) - 1 = current[r] + i
            BY <1>2
        <3>2. p[i + 1] = At(r, current[r] + (i + 1) - 1)
            BY <1>3, <3>1
        <3> QED BY <3>1, <3>2
    <2> QED BY <1>6, <1>9, <2>1
<1>11. Pending(r)' = Tail(p)
    BY <1>6, <1>9, <1>10, SeqEqual
<1> QED BY <1>5, <1>7, <1>8, <1>11 DEF p

\* A step that leaves every ring and every hand alone does not move the channels.
LEMMA FifoStutter ==
    ASSUME UNCHANGED shared, UNCHANGED data
    PROVE  UNCHANGED Fifo!vars
<1>1. \A q \in Subtrees : Pending(q)' = Pending(q)
    BY DEF shared, Pending, At
<1> QED BY <1>1 DEF Fifo!vars

\* Every step appends to a channel, takes from one, finishes an operation or
\* leaves the channels as they are.
LEMMA FifoStep ==
    ASSUME CapacityOK, IInv, IInv', [QNext]_qvars
    PROVE  [Fifo!Next]_Fifo!vars
<1>1. ASSUME NEW t \in Senders, NEW q \in Subtrees, NEW b \in Bodies, Call(t, q, b) PROVE [Fifo!Next]_Fifo!vars
    BY <1>1, FifoStutter DEF Call
<1>2. ASSUME NEW t \in Senders, AddLock(t) PROVE [Fifo!Next]_Fifo!vars
    BY <1>2, FifoStutter DEF AddLock
<1>3. ASSUME NEW t \in Senders, AddStore(t) PROVE [Fifo!Next]_Fifo!vars
    <2>1. UNCHANGED <<current, lastadded, data>>
        BY <1>3 DEF AddStore
    <2>2. \A q \in Subtrees : Pending(q)' = Pending(q)
        BY <1>3, <2>1, StoreKeepsBacklog, PendingFrame DEF IInv, OneOperationPerCall
    <2> QED BY <2>1, <2>2 DEF Fifo!vars
<1>4. ASSUME NEW t \in Senders, AddPublish(t) PROVE [Fifo!Next]_Fifo!vars
    <2>1. PICK q \in Subtrees :
            /\ arg[t].op \in Operation
            /\ Len(Pending(q)) < Lenght
            /\ Pending(q)' = Append(Pending(q), arg[t].op)
            /\ \A r \in Subtrees : r # q => Pending(r)' = Pending(r)
        BY <1>4, PendingSend
    <2>2. UNCHANGED data
        BY <1>4 DEF AddPublish
    <2>3. Fifo!Send(q, arg[t].op)
        BY <2>1, <2>2 DEF Fifo!Send
    <2> QED BY <2>1, <2>3 DEF Fifo!Next
<1>5. ASSUME NEW t \in Senders, AddBroadcast(t) PROVE [Fifo!Next]_Fifo!vars
    BY <1>5, FifoStutter DEF AddBroadcast
<1>6. ASSUME NEW t \in Senders, AddUnlock(t) PROVE [Fifo!Next]_Fifo!vars
    BY <1>6, FifoStutter DEF AddUnlock
<1>7. ASSUME NEW t \in Senders, Resume(t) PROVE [Fifo!Next]_Fifo!vars
    BY <1>7, FifoStutter DEF Resume
<1>8. ASSUME NEW r \in Subtrees, Start(r) PROVE [Fifo!Next]_Fifo!vars
    BY <1>8, FifoStutter DEF Start
<1>9. ASSUME NEW r \in Subtrees, ReadLock(r) PROVE [Fifo!Next]_Fifo!vars
    BY <1>9, FifoStutter DEF ReadLock
<1>10. ASSUME NEW r \in Subtrees, ReadWait(r) PROVE [Fifo!Next]_Fifo!vars
    BY <1>10, FifoStutter DEF ReadWait
<1>11. ASSUME NEW r \in Subtrees, ReadTake(r) PROVE [Fifo!Next]_Fifo!vars
    <2>1. /\ Pending(r) # <<>>
          /\ Head(Pending(r)) = At(r, current[r])
          /\ Pending(r)' = Tail(Pending(r))
          /\ \A q \in Subtrees : q # r => Pending(q)' = Pending(q)
        BY <1>11, PendingReceive
    <2>2. data[r] = Unset /\ data' = [data EXCEPT ![r] = At(r, current[r])]
        BY <1>11 DEF ReadTake, At, IInv, QTypeOK
    <2>3. Fifo!Receive(r)
        BY <2>1, <2>2 DEF Fifo!Receive
    <2> QED BY <2>3 DEF Fifo!Next
<1>12. ASSUME NEW r \in Subtrees, ReadUnlock(r) PROVE [Fifo!Next]_Fifo!vars
    BY <1>12, FifoStutter DEF ReadUnlock
<1>13. ASSUME NEW r \in Subtrees, SpuriousWake(r) PROVE [Fifo!Next]_Fifo!vars
    BY <1>13, FifoStutter DEF SpuriousWake
<1>14. ASSUME NEW r \in Subtrees, NEW v \in {1, 2}, Answer(r, v) PROVE [Fifo!Next]_Fifo!vars
    <2>1. UNCHANGED shared /\ data' = [data EXCEPT ![r] = Unset] /\ data[r] # Unset
        BY <1>14 DEF Answer, IInv, QTypeOK
    <2>2. \A q \in Subtrees : Pending(q)' = Pending(q)
        BY <2>1 DEF shared, Pending, At
    <2>3. Fifo!Finish(r)
        BY <2>1, <2>2 DEF Fifo!Finish
    <2> QED BY <2>3 DEF Fifo!Next
<1>15. ASSUME NEW t \in Senders,
              (\E q \in Subtrees, b \in Bodies : Call(t, q, b)) \/ AddStep(t) \/ Resume(t)
       PROVE  [Fifo!Next]_Fifo!vars
    BY <1>15, <1>1, <1>2, <1>3, <1>4, <1>5, <1>6, <1>7 DEF AddStep
<1>16. ASSUME NEW r \in Subtrees,
              Start(r) \/ ReadStep(r) \/ SpuriousWake(r) \/ \E v \in {1, 2} : Answer(r, v)
       PROVE  [Fifo!Next]_Fifo!vars
    BY <1>16, <1>8, <1>9, <1>10, <1>11, <1>12, <1>13, <1>14 DEF ReadStep
<1>17. CASE UNCHANGED qvars
    BY <1>17, FifoStutter DEF qvars, shared
<1> QED BY <1>15, <1>16, <1>17 DEF QNext

\* The message queues implement a bounded FIFO channel per substructure.
THEOREM FifoCorrect ==
    ASSUME CapacityOK
    PROVE  QSpec => ImplementsFifo
<1>1. QInit => Fifo!Init
    <2>1. SUFFICES ASSUME QInit PROVE \A q \in Subtrees : Pending(q) = <<>>
        BY DEF QInit, Fifo!Init
    <2> QED BY <2>1 DEF QInit, Pending
<1>2. IInv /\ IInv' /\ [QNext]_qvars => [Fifo!Next]_Fifo!vars
    BY FifoStep
<1> QED BY <1>1, <1>2, Invariance, PTL DEF QSpec, ImplementsFifo, Fifo!Spec

-------------------------------------------------------------------------------
(* The composition uses the queues as MsgQ says *)

\* Every step of the store is a step of the queues, or leaves them alone.
LEMMA QueueStep ==
    ASSUME TypeOK, [Next]_vars
    PROVE  [QNext]_qvars
<1>1. ASSUME NEW c \in Clients, NEW k \in Keys, DbPut(c, k) \/ DbGet(c, k)
      PROVE  QNext
    <2>1. Route[k] \in Subtrees
        BY RouteAssumption
    <2>2. \A type \in {OP_ADD, OP_READ} : [type |-> type, key |-> k] \in Bodies
        BY BodiesAssumption
    <2> QED BY <1>1, <2>1, <2>2 DEF DbPut, DbGet, QNext, Clients
<1>2. ASSUME NEW c \in Clients, QueueAdd(c) \/ DbReturn(c) PROVE QNext
    BY <1>2 DEF QueueAdd, DbReturn, QNext, Clients
<1>3. ASSUME NEW s \in Subtrees, InitStruct(s) \/ QueueRead(s) \/ QueueWake(s)
      PROVE  QNext
    BY <1>3 DEF InitStruct, QueueRead, QueueWake, QNext
<1>4. ASSUME NEW s \in Subtrees, Insert(s) \/ Search(s) PROVE UNCHANGED qvars
    BY <1>4 DEF Insert, Search
<1>5. ASSUME NEW s \in Subtrees, Reply(s) PROVE QNext
    <2>1. result[s] \in {1, 2}
        BY <1>5 DEF Reply, TypeOK
    <2> QED BY <1>5, <2>1 DEF Reply, QNext
<1>6. CASE UNCHANGED vars
    BY <1>6 DEF vars
<1> QED BY <1>1, <1>2, <1>3, <1>4, <1>5, <1>6 DEF Next, SubStructStep

-------------------------------------------------------------------------------
(* Invariance *)

\* The operation a thread holds is one it was asked for, by a client that waits.
LEMMA Held ==
    ASSUME GInv, NEW s \in Subtrees, data[s] # Unset
    PROVE  /\ data[s] \in Operation /\ data[s].caller \in Clients
           /\ data[s].body.type \in {OP_ADD, OP_READ} /\ data[s].body.key \in Keys
           /\ arg[data[s].caller] = [queue |-> s, op |-> data[s]]
           /\ Route[data[s].body.key] = s
           /\ pc[data[s].caller] = "sent" /\ retval[data[s].caller] = 0
<1>1. data[s] \in Operation
    BY DEF GInv, TypeOK, QTypeOK
<1>2. data[s].caller \in Clients /\ data[s].body \in Bodies
    BY <1>1 DEF Operation, Clients
<1>3. data[s].body.type \in {OP_ADD, OP_READ} /\ data[s].body.key \in Keys
    BY <1>2, BodiesAssumption
<1>4. /\ arg[data[s].caller] = [queue |-> s, op |-> data[s]]
      /\ pc[data[s].caller] = "sent" /\ retval[data[s].caller] = 0
    BY DEF GInv, IInv, OneOperationPerCall, InHandOnce
<1>5. arg[data[s].caller] # Unset
    BY <1>2, <1>4 DEF GInv, IInv, QTypeOK, Clients
<1>6. Route[data[s].body.key] = s
    BY <1>2, <1>4, <1>5 DEF GInv, RoutedHome
<1> QED BY <1>1, <1>2, <1>3, <1>4, <1>6

LEMMA InitGInv == Init => GInv
<1> SUFFICES ASSUME Init PROVE GInv
    OBVIOUS
<1>1. IInv
    BY InitIInv DEF Init
<1>2. TypeOK
    BY <1>1 DEF IInv, Init, TypeOK
<1>3. RoutedHome
    BY DEF Init, QInit, RoutedHome, Clients
<1> QED BY <1>1, <1>2, <1>3 DEF Init, GInv, AtHome, Fresh

\* Types.
LEMMA GpsTypeStep ==
    ASSUME GInv, QTypeOK', [Next]_vars
    PROVE  TypeOK'
<1> USE DEF GInv, TypeOK
<1>1. ASSUME NEW c \in Clients, NEW k \in Keys, DbPut(c, k) \/ DbGet(c, k)
      PROVE  TypeOK'
    BY <1>1 DEF DbPut, DbGet, Call, Goto, subvars, Clients, QTypeOK, Threads
<1>2. ASSUME NEW c \in Clients, QueueAdd(c) PROVE TypeOK'
    <2>1. \A s \in Subtrees : pc[s] = "have" => pc'[s] = "have"
        <3>1. CASE AddBroadcast(c)
            <4>1. pc' = [pc EXCEPT ![c] = "add_unlock",
                            ![arg[c].queue] = IF @ = "read_wait" THEN "read_lock" ELSE @]
                BY <3>1 DEF AddBroadcast
            <4>2. c \in Senders
                BY DEF Clients
            <4> QED BY <4>1, <4>2 DEF QTypeOK, Threads
        <3>2. CASE AddLock(c) \/ AddStore(c) \/ AddPublish(c) \/ AddUnlock(c)
            BY <3>2 DEF AddLock, AddStore, AddPublish, AddUnlock, Goto, Clients, QTypeOK, Threads
        <3> QED BY <1>2, <3>1, <3>2 DEF QueueAdd, AddStep
    <2> QED BY <1>2, <2>1 DEF QueueAdd, subvars
<1>3. ASSUME NEW c \in Clients, DbReturn(c) PROVE TypeOK'
    BY <1>3 DEF DbReturn, Resume, Goto, subvars, Clients, QTypeOK, Threads
<1>4. ASSUME NEW s \in Subtrees, InitStruct(s) PROVE TypeOK'
    BY <1>4, InitKeysAssumption DEF InitStruct, Start, Goto, QTypeOK, Threads
<1>5. ASSUME NEW s \in Subtrees, QueueRead(s) \/ QueueWake(s) PROVE TypeOK'
    <2>1. \A r \in Subtrees : pc[r] = "have" => pc'[r] = "have"
        BY <1>5 DEF QueueRead, QueueWake, ReadStep, ReadLock, ReadWait, ReadTake,
                    ReadUnlock, SpuriousWake, Goto, QTypeOK, Threads
    <2> QED BY <1>5, <2>1 DEF QueueRead, QueueWake, subvars
<1>6. ASSUME NEW s \in Subtrees, Insert(s) PROVE TypeOK'
    <2>1. data[s].body.key \in Keys
        BY <1>6, Held DEF Insert, Holds, QTypeOK
    <2> QED BY <1>6, <2>1 DEF Insert, Holds, qvars
<1>7. ASSUME NEW s \in Subtrees, Search(s) PROVE TypeOK'
    BY <1>7 DEF Search, Holds, qvars
<1>8. ASSUME NEW s \in Subtrees, Reply(s) PROVE TypeOK'
    BY <1>8 DEF Reply, Answer, Goto, QTypeOK, Threads
<1>9. CASE UNCHANGED vars
    BY <1>9 DEF vars, qvars, subvars
<1> QED BY <1>1, <1>2, <1>3, <1>4, <1>5, <1>6, <1>7, <1>8, <1>9 DEF Next, SubStructStep

LEMMA AtHomeStep ==
    ASSUME GInv, [Next]_vars
    PROVE  AtHome'
<1> USE DEF GInv
<1>1. ASSUME NEW s \in Subtrees, InitStruct(s) PROVE AtHome'
    BY <1>1 DEF InitStruct, AtHome, TypeOK
<1>2. ASSUME NEW s \in Subtrees, Insert(s) PROVE AtHome'
    <2>1. Route[data[s].body.key] = s
        BY <1>2, Held DEF Insert, Holds, TypeOK, QTypeOK
    <2>2. substruct' = [substruct EXCEPT ![s] = @ \cup {data[s].body.key}]
        BY <1>2 DEF Insert
    <2> QED BY <2>1, <2>2 DEF AtHome, TypeOK
<1>3. CASE UNCHANGED substruct
    BY <1>3 DEF AtHome
<1> QED BY <1>1, <1>2, <1>3 DEF Next, SubStructStep, DbPut, DbGet, QueueAdd, DbReturn,
                               QueueRead, QueueWake, Search, Reply, subvars, vars

LEMMA RoutedHomeStep ==
    ASSUME GInv, [Next]_vars
    PROVE  RoutedHome'
<1> USE DEF GInv
<1>1. ASSUME NEW c \in Clients, NEW k \in Keys, NEW type \in {OP_ADD, OP_READ},
             Call(c, Route[k], [type |-> type, key |-> k])
      PROVE  RoutedHome'
    <2>1. arg' = [arg EXCEPT ![c] =
                     [queue |-> Route[k],
                      op |-> [caller |-> c, body |-> [type |-> type, key |-> k]]]]
        BY <1>1 DEF Call
    <2> QED BY <2>1 DEF RoutedHome, TypeOK, QTypeOK, Clients
<1>2. ASSUME NEW c \in Clients, Resume(c) PROVE RoutedHome'
    BY <1>2 DEF Resume, RoutedHome, TypeOK, QTypeOK, Clients
<1>3. CASE UNCHANGED arg
    BY <1>3 DEF RoutedHome
<1>4. ASSUME NEW c \in Clients, AddStep(c) PROVE UNCHANGED arg
    BY <1>4 DEF AddStep, AddLock, AddStore, AddPublish, AddBroadcast, AddUnlock
<1>5. ASSUME NEW s \in Subtrees, SubStructStep(s) \/ QueueWake(s) PROVE UNCHANGED arg
    BY <1>5 DEF SubStructStep, InitStruct, Start, QueueRead, ReadStep, ReadLock, ReadWait,
                ReadTake, ReadUnlock, QueueWake, SpuriousWake, Insert, Search, Reply, Answer,
                qvars
<1>6. CASE UNCHANGED vars
    BY <1>3, <1>6 DEF vars, qvars
<1> QED BY <1>1, <1>2, <1>3, <1>4, <1>5, <1>6 DEF Next, DbPut, DbGet, QueueAdd, DbReturn

LEMMA FreshStep ==
    ASSUME GInv, [Next]_vars
    PROVE  Fresh'
<1> USE DEF GInv
<1>1. ASSUME NEW r \in Subtrees, pc'[r] = "idle" PROVE pc[r] = "idle"
    <2>1. ASSUME NEW t \in Senders, AddBroadcast(t) PROVE pc[r] = "idle"
        <3>1. pc' = [pc EXCEPT ![t] = "add_unlock",
                        ![arg[t].queue] = IF @ = "read_wait" THEN "read_lock" ELSE @]
            BY <2>1 DEF AddBroadcast
        <3> QED BY <1>1, <3>1 DEF TypeOK, QTypeOK, Threads
    <2>2. ASSUME NEW t \in Senders,
                 \/ \E q \in Subtrees, b \in Bodies : Call(t, q, b)
                 \/ AddLock(t) \/ AddStore(t) \/ AddPublish(t) \/ AddUnlock(t) \/ Resume(t)
          PROVE  pc[r] = "idle"
        <3>1. PICK label : pc' = [pc EXCEPT ![t] = label]
            BY <2>2 DEF Call, AddLock, AddStore, AddPublish, AddUnlock, Resume, Goto
        <3> QED BY <1>1, <3>1 DEF TypeOK, QTypeOK, Threads
    <2>3. ASSUME NEW s \in Subtrees,
                 Start(s) \/ ReadStep(s) \/ SpuriousWake(s) \/ \E v \in {1, 2} : Answer(s, v)
          PROVE  pc[r] = "idle"
        BY <1>1, <2>3 DEF Start, ReadStep, ReadLock, ReadWait, ReadTake, ReadUnlock,
                          SpuriousWake, Answer, Goto, TypeOK, QTypeOK, Threads
    <2>4. CASE UNCHANGED qvars
        BY <1>1, <2>4 DEF qvars
    <2> QED BY <2>1, <2>2, <2>3, <2>4, QueueStep DEF QNext, AddStep
<1>2. ASSUME NEW s \in Subtrees, InitStruct(s) PROVE Fresh'
    <2>1. pc'[s] # "idle" /\ \A r \in Subtrees : r # s => substruct'[r] = substruct[r]
        BY <1>2 DEF InitStruct, Start, Goto, TypeOK, QTypeOK, Threads
    <2> QED BY <1>1, <2>1 DEF Fresh
<1>3. ASSUME NEW s \in Subtrees, Insert(s) PROVE Fresh'
    BY <1>3 DEF Insert, Holds, Fresh, qvars, TypeOK
<1>4. CASE UNCHANGED substruct
    BY <1>1, <1>4 DEF Fresh
<1> QED BY <1>2, <1>3, <1>4 DEF Next, SubStructStep, DbPut, DbGet, QueueAdd, DbReturn,
                               QueueRead, QueueWake, Search, Reply, subvars, vars

LEMMA GInvStep ==
    ASSUME CapacityOK, GInv, [Next]_vars
    PROVE  GInv'
<1>1. IInv'
    BY QueueStep, IInvStep DEF GInv
<1>2. TypeOK'
    BY <1>1, GpsTypeStep DEF IInv
<1> QED BY <1>1, <1>2, AtHomeStep, RoutedHomeStep, FreshStep DEF GInv

\* GInv is an invariant of the store, as long as a queue has a slot per client
\* and its counters have room for the calls.
THEOREM GpsInvariance ==
    ASSUME CapacityOK
    PROVE  Spec => []GInv
<1>1. Init => GInv
    BY InitGInv
<1>2. GInv /\ [Next]_vars => GInv'
    BY GInvStep
<1> QED BY <1>1, <1>2, PTL DEF Spec

\* The store uses its queues as MsgQ's callers do, so all that is proved of
\* MsgQ holds in the store.
THEOREM UsesQueues ==
    ASSUME CapacityOK
    PROVE  Spec => QSpec
<1>1. Init => QInit
    BY DEF Init
<1>2. GInv /\ [Next]_vars => [QNext]_qvars
    BY QueueStep DEF GInv
<1> QED BY <1>1, <1>2, GpsInvariance, PTL DEF Spec, QSpec

\* Types of the store.
THEOREM GpsTypeCorrect ==
    ASSUME CapacityOK
    PROVE  Spec => []TypeOK
<1>1. GInv => TypeOK
    BY DEF GInv
<1> QED BY <1>1, GpsInvariance, PTL

\* A key is only in the substructure its hash names.
THEOREM KeysStayHome ==
    ASSUME CapacityOK
    PROVE  Spec => []AtHome
<1>1. GInv => AtHome
    BY DEF GInv
<1> QED BY <1>1, GpsInvariance, PTL

-------------------------------------------------------------------------------
(* Linearizability *)

Store == UNION {substruct[s] : s \in Subtrees}
CallOf(c) == IF arg[c] = Unset THEN Unset ELSE arg[c].op.body

\* Where the result of a call is: with the thread that holds its operation,
\* in its cell, or nowhere yet.
ResultsKnown ==
    /\ \A s \in Subtrees, c \in Clients :
        data[s] # Unset /\ data[s].caller = c => ResultOf(c) = result[s]
    /\ \A c \in Clients :
        /\ retval[c] # 0 => ResultOf(c) = retval[c]
        /\ retval[c] = 0 /\ (\A s \in Subtrees : data[s] # Unset => data[s].caller # c)
             => ResultOf(c) = 0

LEMMA ResultsFound == GInv => ResultsKnown
<1> SUFFICES ASSUME GInv PROVE ResultsKnown
    OBVIOUS
<1>1. ASSUME NEW s \in Subtrees, NEW c \in Clients, data[s] # Unset, data[s].caller = c
      PROVE  ResultOf(c) = result[s]
    <2>1. /\ arg[c] = [queue |-> s, op |-> data[s]]
          /\ pc[c] = "sent" /\ retval[c] = 0
        BY <1>1, Held
    <2> QED BY <2>1 DEF ResultOf
<1>2. ASSUME NEW c \in Clients, retval[c] = 0,
             \A s \in Subtrees : data[s] # Unset => data[s].caller # c
      PROVE  ResultOf(c) = 0
    <2>1. CASE pc[c] = "sent"
        <3>1. arg[c].queue \in Subtrees /\ arg[c].op \in Operation /\ arg[c].op.caller = c
            BY <2>1, ArgType DEF GInv, IInv, Clients
        <3>2. data[arg[c].queue] # arg[c].op
            BY <1>2, <3>1
        <3> QED BY <1>2, <3>2 DEF ResultOf
    <2>2. CASE pc[c] # "sent"
        BY <1>2, <2>2 DEF ResultOf
    <2> QED BY <2>1, <2>2
<1> QED BY <1>1, <1>2 DEF ResultsKnown, ResultOf

LEMMA ResultsFoundNext == GInv' => ResultsKnown'
BY ResultsFound, PTL

\* A step that moves no operation and no answer leaves the results as they are.
LEMMA ResultsFrame ==
    ASSUME GInv, GInv', UNCHANGED <<retval, data, result>>, NEW c \in Clients
    PROVE  ResultOf(c)' = ResultOf(c)
<1>1. ResultsKnown /\ ResultsKnown'
    BY ResultsFound, ResultsFoundNext
<1>2. CASE retval[c] # 0
    BY <1>1, <1>2 DEF ResultsKnown
<1>3. CASE retval[c] = 0 /\ \A s \in Subtrees : data[s] # Unset => data[s].caller # c
    BY <1>1, <1>3 DEF ResultsKnown
<1>4. CASE \E s \in Subtrees : data[s] # Unset /\ data[s].caller = c
    <2>1. PICK s \in Subtrees : data[s] # Unset /\ data[s].caller = c
        BY <1>4
    <2>2. ResultOf(c) = result[s]
        BY <1>1, <2>1 DEF ResultsKnown
    <2>3. ResultOf(c)' = result'[s]
        BY <1>1, <2>1 DEF ResultsKnown
    <2> QED BY <2>1, <2>2, <2>3
<1> QED BY <1>2, <1>3, <1>4

\* Two threads never hold operations of the same client.
LEMMA HeldOnce ==
    ASSUME GInv, NEW s \in Subtrees, NEW r \in Subtrees,
           data[s] # Unset, data[r] # Unset, data[s].caller = data[r].caller
    PROVE  s = r
<1>1. arg[data[s].caller] = [queue |-> s, op |-> data[s]]
    BY Held
<1>2. arg[data[r].caller] = [queue |-> r, op |-> data[r]]
    BY Held
<1> QED BY <1>1, <1>2

\* A step of the abstract store, from what happens to its three variables.
LEMMA AbstractStutter ==
    ASSUME Store' = Store, \A c \in Clients : CallOf(c)' = CallOf(c),
           \A c \in Clients : ResultOf(c)' = ResultOf(c)
    PROVE  UNCHANGED KV!vars
BY DEF KV!vars, Store, CallOf

\* A step that moves no call, operation or answer.
LEMMA QuietStep ==
    ASSUME GInv, GInv', UNCHANGED <<substruct, arg, retval, data, result>>
    PROVE  UNCHANGED KV!vars
<1>1. \A c \in Clients : ResultOf(c)' = ResultOf(c)
    BY ResultsFrame
<1> QED BY <1>1, AbstractStutter DEF Store, CallOf

LEMMA InvokeStep ==
    ASSUME GInv, GInv', NEW c \in Clients, NEW k \in Keys, NEW type \in {OP_ADD, OP_READ},
           Call(c, Route[k], [type |-> type, key |-> k]), UNCHANGED subvars
    PROVE  KV!Invoke(c)
<1> DEFINE new == [queue |-> Route[k],
                   op |-> [caller |-> c, body |-> [type |-> type, key |-> k]]]
<1>1. /\ pc[c] = "idle" /\ arg' = [arg EXCEPT ![c] = new]
      /\ UNCHANGED <<retval, data, result, substruct>>
    BY DEF Call, subvars
<1>2. CallOf(c) = Unset
    BY <1>1 DEF CallOf, GInv, IInv, QTypeOK, Clients
<1>3. CallOf(c)' = [type |-> type, key |-> k]
    <2>1. arg'[c] = new
        BY <1>1 DEF GInv, IInv, QTypeOK, Clients
    <2>2. new \in Request
        BY RouteAssumption, BodiesAssumption DEF Request, Operation, Clients
    <2> QED BY <2>1, <2>2 DEF CallOf
<1>4. \A u \in Clients : u # c => CallOf(u)' = CallOf(u)
    BY <1>1 DEF CallOf, GInv, IInv, QTypeOK, Clients
<1>5. \A u \in Clients : ResultOf(u)' = ResultOf(u)
    BY <1>1, ResultsFrame
<1>6. [u \in Clients |-> CallOf(u)]' =
          [[u \in Clients |-> CallOf(u)] EXCEPT ![c] = [type |-> type, key |-> k]]
    BY <1>3, <1>4
<1>7. UNCHANGED <<Store, [u \in Clients |-> ResultOf(u)]>>
    BY <1>1, <1>5 DEF Store
<1>8. [u \in Clients |-> CallOf(u)][c] = Unset
    BY <1>2
<1> QED BY <1>6, <1>7, <1>8 DEF KV!Invoke, CallOf, Store

LEMMA ReturnStep ==
    ASSUME GInv, GInv', NEW c \in Clients, DbReturn(c)
    PROVE  KV!Return(c)
<1>1. /\ retval[c] # 0 /\ UNCHANGED <<data, result, substruct>>
      /\ retval' = [retval EXCEPT ![c] = 0] /\ arg' = [arg EXCEPT ![c] = Unset]
    BY DEF DbReturn, Resume, subvars
<1>2. ResultsKnown /\ ResultsKnown'
    BY ResultsFound, ResultsFoundNext
<1>3. ResultOf(c) # 0
    BY <1>1, <1>2 DEF ResultsKnown
<1>4. \A s \in Subtrees : data[s] # Unset => data[s].caller # c
    BY <1>1, Held
<1>5. retval'[c] = 0 /\ arg'[c] = Unset
    BY <1>1 DEF GInv, IInv, QTypeOK, Clients
<1>6. ResultOf(c)' = 0
    BY <1>1, <1>2, <1>4, <1>5 DEF ResultsKnown
<1>7. ASSUME NEW u \in Clients, u # c PROVE ResultOf(u)' = ResultOf(u) /\ CallOf(u)' = CallOf(u)
    <2>1. retval'[u] = retval[u] /\ arg'[u] = arg[u] /\ pc'[u] = pc[u]
        BY <1>7 DEF DbReturn, Resume, Goto, GInv, IInv, QTypeOK, Clients, Threads
    <2> QED BY <1>1, <2>1 DEF ResultOf, CallOf
<1>8. [u \in Clients |-> CallOf(u)]' = [[u \in Clients |-> CallOf(u)] EXCEPT ![c] = Unset]
    BY <1>5, <1>7 DEF CallOf
<1>9. [u \in Clients |-> ResultOf(u)]' = [[u \in Clients |-> ResultOf(u)] EXCEPT ![c] = 0]
    BY <1>6, <1>7
<1> QED BY <1>1, <1>3, <1>8, <1>9 DEF KV!Return, CallOf

\* The step in which a put or get takes effect, seen from its client.
LEMMA PerformStep ==
    ASSUME GInv, GInv', NEW s \in Subtrees, NEW v \in {1, 2},
           pc[s] = "have", result[s] = 0,
           result' = [result EXCEPT ![s] = v], UNCHANGED qvars
    PROVE  \E c \in Clients :
               /\ c = data[s].caller
               /\ CallOf(c) = data[s].body /\ CallOf(c) # Unset
               /\ ResultOf(c) = 0
               /\ [u \in Clients |-> ResultOf(u)]' =
                      [[u \in Clients |-> ResultOf(u)] EXCEPT ![c] = v]
               /\ UNCHANGED [u \in Clients |-> CallOf(u)]
<1>1. data[s] # Unset
    BY DEF GInv, TypeOK, QTypeOK
<1>2. PICK c \in Clients : c = data[s].caller
    BY <1>1, Held
<1>3. arg[c] = [queue |-> s, op |-> data[s]] /\ data[s].body \in Bodies
    BY <1>1, <1>2, Held DEF Operation
<1>4. CallOf(c) = data[s].body /\ CallOf(c) # Unset
    <2>1. arg[c] # Unset
        BY <1>2, <1>3, <1>1, Held DEF GInv, IInv, QTypeOK, Clients
    <2>2. arg[c].op.body = data[s].body
        BY <1>3
    <2> QED BY <1>3, <2>1, <2>2 DEF CallOf
<1>5. ResultsKnown /\ ResultsKnown'
    BY ResultsFound, ResultsFoundNext
<1>6. UNCHANGED <<data, retval, arg, pc>>
    BY DEF qvars
<1>7. ResultOf(c) = 0
    BY <1>1, <1>2, <1>5 DEF ResultsKnown
<1>8. result'[s] = v /\ \A r \in Subtrees : r # s => result'[r] = result[r]
    BY DEF GInv, TypeOK
<1>9. ResultOf(c)' = v
    BY <1>1, <1>2, <1>5, <1>6, <1>8 DEF ResultsKnown
<1>10. ASSUME NEW u \in Clients, u # c PROVE ResultOf(u)' = ResultOf(u)
    <2>1. CASE \E r \in Subtrees : data[r] # Unset /\ data[r].caller = u
        <3>1. PICK r \in Subtrees : data[r] # Unset /\ data[r].caller = u
            BY <2>1
        <3>2. r # s
            BY <1>2, <1>10, <3>1
        <3> QED BY <1>5, <1>6, <1>8, <3>1, <3>2 DEF ResultsKnown
    <2>2. CASE \A r \in Subtrees : data[r] # Unset => data[r].caller # u
        BY <1>5, <1>6, <2>2 DEF ResultsKnown
    <2> QED BY <2>1, <2>2
<1>11. [u \in Clients |-> ResultOf(u)]' = [[u \in Clients |-> ResultOf(u)] EXCEPT ![c] = v]
    BY <1>9, <1>10
<1>12. UNCHANGED [u \in Clients |-> CallOf(u)]
    BY <1>6 DEF CallOf
<1> QED BY <1>2, <1>4, <1>7, <1>11, <1>12

LEMMA InsertStep ==
    ASSUME GInv, GInv', NEW s \in Subtrees, Insert(s)
    PROVE  \E c \in Clients : KV!Put(c)
<1>1. /\ pc[s] = "have" /\ result[s] = 0 /\ data[s].body.type = OP_ADD
      /\ result' = [result EXCEPT ![s] = 2] /\ UNCHANGED qvars
      /\ substruct' = [substruct EXCEPT ![s] = @ \cup {data[s].body.key}]
    BY DEF Insert, Holds
<1>2. PICK c \in Clients :
          /\ CallOf(c) = data[s].body /\ CallOf(c) # Unset
          /\ ResultOf(c) = 0
          /\ [u \in Clients |-> ResultOf(u)]' =
                 [[u \in Clients |-> ResultOf(u)] EXCEPT ![c] = 2]
          /\ UNCHANGED [u \in Clients |-> CallOf(u)]
    BY <1>1, PerformStep
<1>3. Store' = Store \cup {data[s].body.key}
    BY <1>1 DEF Store, GInv, TypeOK
<1>4. KV!Pending(c, OP_ADD)
    BY <1>1, <1>2 DEF KV!Pending, CallOf
<1> QED BY <1>2, <1>3, <1>4 DEF KV!Put, CallOf, Store

LEMMA SearchStep ==
    ASSUME InitKeys = {}, GInv, GInv', NEW s \in Subtrees, Search(s)
    PROVE  \E c \in Clients : KV!Get(c)
<1>1. PICK v \in {1, 2} : v = IF data[s].body.key \in substruct[s] THEN 2 ELSE 1
    OBVIOUS
<1>2. /\ pc[s] = "have" /\ result[s] = 0 /\ data[s].body.type = OP_READ
      /\ result' = [result EXCEPT ![s] = v] /\ UNCHANGED qvars /\ UNCHANGED substruct
    BY <1>1 DEF Search, Holds
<1>3. data[s].body.key \in substruct[s] <=> data[s].body.key \in Store
    <2>1. Route[data[s].body.key] = s
        BY <1>2, Held DEF GInv, TypeOK, QTypeOK
    <2>2. \A r \in Subtrees : \A k \in substruct[r] : Route[k] = r
        BY DEF GInv, AtHome
    <2> QED BY <2>1, <2>2 DEF Store
<1>4. PICK c \in Clients :
          /\ CallOf(c) = data[s].body /\ CallOf(c) # Unset
          /\ ResultOf(c) = 0
          /\ [u \in Clients |-> ResultOf(u)]' =
                 [[u \in Clients |-> ResultOf(u)] EXCEPT ![c] = v]
          /\ UNCHANGED [u \in Clients |-> CallOf(u)]
    BY <1>1, <1>2, PerformStep
<1>5. KV!Pending(c, OP_READ)
    BY <1>2, <1>4 DEF KV!Pending, CallOf
<1>6. v = IF CallOf(c).key \in Store THEN 2 ELSE 1
    BY <1>1, <1>3, <1>4
<1>7. Store' = Store
    BY <1>2 DEF Store
<1> QED BY <1>4, <1>5, <1>6, <1>7 DEF KV!Get, CallOf, Store

\* Taking an operation from the queue and storing its answer change nothing a
\* client can see: the result moves with the operation.
LEMMA TakeStep ==
    ASSUME GInv, GInv', NEW s \in Subtrees, ReadTake(s), UNCHANGED subvars
    PROVE  UNCHANGED KV!vars
<1>1. /\ data[s] = Unset /\ result[s] = 0
      /\ UNCHANGED <<retval, arg, result, substruct>>
      /\ \A r \in Subtrees : r # s => data'[r] = data[r]
    <2>1. /\ pc[s] = "read_test" /\ data' = [data EXCEPT ![s] = array[s][Slot(current[s])]]
          /\ UNCHANGED <<retval, arg, result, substruct>>
        BY DEF ReadTake, subvars
    <2> QED BY <2>1 DEF GInv, TypeOK, QTypeOK
<1>2. ResultsKnown /\ ResultsKnown'
    BY ResultsFound, ResultsFoundNext
<1>3. ASSUME NEW u \in Clients PROVE ResultOf(u)' = ResultOf(u)
    <2>1. CASE \E r \in Subtrees : data[r] # Unset /\ data[r].caller = u
        <3>1. PICK r \in Subtrees : data[r] # Unset /\ data[r].caller = u
            BY <2>1
        <3>2. data'[r] = data[r]
            BY <1>1, <3>1
        <3> QED BY <1>1, <1>2, <3>1, <3>2 DEF ResultsKnown
    <2>2. CASE retval[u] # 0
        BY <1>1, <1>2, <2>2 DEF ResultsKnown
    <2>3. CASE retval[u] = 0 /\ \A r \in Subtrees : data[r] # Unset => data[r].caller # u
        <3>1. ResultOf(u) = 0
            BY <1>2, <2>3 DEF ResultsKnown
        <3>2. CASE data'[s] # Unset /\ data'[s].caller = u
            <4>1. ResultOf(u)' = result'[s]
                BY <1>2, <3>2 DEF ResultsKnown
            <4> QED BY <1>1, <3>1, <4>1
        <3>3. CASE ~ (data'[s] # Unset /\ data'[s].caller = u)
            <4>1. \A r \in Subtrees : data'[r] # Unset => data'[r].caller # u
                BY <1>1, <2>3, <3>3
            <4>2. ResultOf(u)' = 0
                BY <1>1, <1>2, <2>3, <4>1 DEF ResultsKnown
            <4> QED BY <3>1, <4>2
        <3> QED BY <3>2, <3>3
    <2> QED BY <2>1, <2>2, <2>3
<1> QED BY <1>1, <1>3, AbstractStutter DEF Store, CallOf

LEMMA ReplyStep ==
    ASSUME GInv, GInv', NEW s \in Subtrees, Reply(s)
    PROVE  UNCHANGED KV!vars
<1>1. /\ pc[s] = "have" /\ result[s] # 0
      /\ retval' = [retval EXCEPT ![data[s].caller] = result[s]]
      /\ data' = [data EXCEPT ![s] = Unset] /\ result' = [result EXCEPT ![s] = 0]
      /\ UNCHANGED <<arg, substruct>>
    BY DEF Reply, Answer
<1>2. data[s] # Unset
    BY <1>1 DEF GInv, TypeOK, QTypeOK
<1>3. PICK c \in Clients : c = data[s].caller
    BY <1>2, Held
<1>4. retval'[c] = result[s] /\ \A u \in Clients : u # c => retval'[u] = retval[u]
    BY <1>1, <1>3 DEF GInv, IInv, QTypeOK, Clients
<1>5. /\ data'[s] = Unset
      /\ \A r \in Subtrees : r # s => data'[r] = data[r] /\ result'[r] = result[r]
    BY <1>1 DEF GInv, TypeOK, QTypeOK
<1>6. ResultsKnown /\ ResultsKnown'
    BY ResultsFound, ResultsFoundNext
<1>7. ResultOf(c)' = ResultOf(c)
    BY <1>1, <1>2, <1>3, <1>4, <1>6 DEF ResultsKnown
<1>8. ASSUME NEW u \in Clients, u # c PROVE ResultOf(u)' = ResultOf(u)
    <2>1. CASE \E r \in Subtrees : data[r] # Unset /\ data[r].caller = u
        <3>1. PICK r \in Subtrees : data[r] # Unset /\ data[r].caller = u
            BY <2>1
        <3>2. r # s
            BY <1>3, <1>8, <3>1
        <3> QED BY <1>5, <1>6, <3>1, <3>2 DEF ResultsKnown
    <2>2. CASE retval[u] # 0
        BY <1>4, <1>6, <1>8, <2>2 DEF ResultsKnown
    <2>3. CASE retval[u] = 0 /\ \A r \in Subtrees : data[r] # Unset => data[r].caller # u
        <3>1. \A r \in Subtrees : data'[r] # Unset => data'[r].caller # u
            BY <1>5, <2>3
        <3> QED BY <1>4, <1>6, <1>8, <2>3, <3>1 DEF ResultsKnown
    <2> QED BY <2>1, <2>2, <2>3
<1> QED BY <1>1, <1>7, <1>8, AbstractStutter DEF Store, CallOf

LEMMA KVStep ==
    ASSUME InitKeys = {}, GInv, GInv', [Next]_vars
    PROVE  [KV!Next]_KV!vars
<1>1. ASSUME NEW c \in Clients, NEW k \in Keys, DbPut(c, k) \/ DbGet(c, k)
      PROVE  KV!Invoke(c)
    BY <1>1, InvokeStep DEF DbPut, DbGet
<1>2. ASSUME NEW c \in Clients, QueueAdd(c) PROVE UNCHANGED KV!vars
    BY <1>2, QuietStep DEF QueueAdd, AddStep, AddLock, AddStore, AddPublish, AddBroadcast,
                           AddUnlock, subvars
<1>3. ASSUME NEW c \in Clients, DbReturn(c) PROVE KV!Return(c)
    BY <1>3, ReturnStep
<1>4. ASSUME NEW s \in Subtrees, InitStruct(s) PROVE UNCHANGED KV!vars
    <2>1. substruct' = [substruct EXCEPT ![s] = {}] /\ substruct[s] = {}
        BY <1>4 DEF InitStruct, Start, GInv, Fresh
    <2>2. UNCHANGED substruct
        BY <2>1 DEF GInv, TypeOK
    <2> QED BY <1>4, <2>2, QuietStep DEF InitStruct, Start
<1>5. ASSUME NEW s \in Subtrees, QueueRead(s) PROVE UNCHANGED KV!vars
    <2>1. CASE ReadTake(s)
        BY <1>5, <2>1, TakeStep DEF QueueRead
    <2>2. CASE ReadLock(s) \/ ReadWait(s) \/ ReadUnlock(s)
        BY <1>5, <2>2, QuietStep DEF QueueRead, ReadLock, ReadWait, ReadUnlock, subvars
    <2> QED BY <1>5, <2>1, <2>2 DEF QueueRead, ReadStep
<1>6. ASSUME NEW s \in Subtrees, QueueWake(s) PROVE UNCHANGED KV!vars
    BY <1>6, QuietStep DEF QueueWake, SpuriousWake, subvars
<1>7. ASSUME NEW s \in Subtrees, Insert(s) PROVE \E c \in Clients : KV!Put(c)
    BY <1>7, InsertStep
<1>8. ASSUME NEW s \in Subtrees, Search(s) PROVE \E c \in Clients : KV!Get(c)
    BY <1>8, SearchStep
<1>9. ASSUME NEW s \in Subtrees, Reply(s) PROVE UNCHANGED KV!vars
    BY <1>9, ReplyStep
<1>10. CASE UNCHANGED vars
    BY <1>10, QuietStep DEF vars, qvars, subvars
<1> QED BY <1>1, <1>2, <1>3, <1>4, <1>5, <1>6, <1>7, <1>8, <1>9, <1>10
        DEF Next, SubStructStep, KV!Next

\* Linearizability: with substructures that start empty, GreenHashTree behaves
\* as one store whose puts and gets are atomic, however many clients,
\* substructures and keys there are.
THEOREM Linearizable ==
    ASSUME CapacityOK, InitKeys = {}
    PROVE  Spec => ImplementsKVStore
<1>1. Init => KV!Init
    <2>1. SUFFICES ASSUME Init PROVE KV!Init
        OBVIOUS
    <2>2. /\ \A s \in Subtrees : substruct[s] = {}
          /\ \A c \in Clients : arg[c] = Unset /\ retval[c] = 0 /\ pc[c] # "sent"
        BY <2>1 DEF Init, QInit, Clients, Threads
    <2> QED BY <2>2 DEF KV!Init, ResultOf
<1>2. GInv /\ GInv' /\ [Next]_vars => [KV!Next]_KV!vars
    BY KVStep
<1> QED BY <1>1, <1>2, GpsInvariance, PTL DEF Spec, ImplementsKVStore, KV!Spec

===============================================================================
