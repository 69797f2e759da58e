----------------------------- MODULE BenchProofs -----------------------------
(***************************************************************************)
(* Proofs about the barrier, and about Bench for any number of threads.    *)
(***************************************************************************)
EXTENDS Bench, SumTheorems

USE ThreadsAssumption, IterationsAssumption, RangeAssumption

-------------------------------------------------------------------------------
(* The barrier *)

\* A barrier made for those who take part in it begins in the invariant.
LEMMA BarrierStarts ==
    ASSUME NEW S, IsFiniteSet(S), S # {}, BarrierInit(S, Cardinality(S))
    PROVE  BInv
<1>1. DOMAIN at = S /\ \A p \in S : at[p] = "before"
    BY DEF BarrierInit
<1>2. Cardinality(S) \in Nat /\ Cardinality(S) # 0
    BY FS_CardinalityType, FS_EmptySet
<1>3. Come = {}
    BY <1>1 DEF Come
<1>4. Cardinality(Come) = 0
    BY <1>3, FS_EmptySet
<1> QED BY <1>1, <1>2, <1>4 DEF BarrierInit, BInv, BarrierTypeOK

\* As long as somebody is before the barrier, the count is that of those who have come.
LEMMA CountsThoseCome ==
    ASSUME BInv, NEW p \in DOMAIN at, at[p] = "before"
    PROVE  /\ count = Cardinality(Come) /\ count \in Nat
           /\ \A q \in DOMAIN at : at[q] \in {"woken", "past"} => q \in roused
BY DEF BInv, BarrierTypeOK

\* The last one to come finds that everybody else has come.
LEMMA LastFindsAllCome ==
    ASSUME BInv, NEW p \in DOMAIN at, WaitLast(p)
    PROVE  \A q \in DOMAIN at \ {p} : at[q] \in {"wait", "woken", "past"}
<1> DEFINE others == DOMAIN at \ {p}
<1>1. at[p] = "before" /\ count + 1 >= tripCount
    BY DEF WaitLast
<1>2. Come \subseteq others
    BY <1>1 DEF Come
<1>3. IsFiniteSet(DOMAIN at) /\ tripCount = Cardinality(DOMAIN at)
    BY DEF BInv
<1>4. IsFiniteSet(others) /\ Cardinality(others) = Cardinality(DOMAIN at) - 1
    BY <1>3, FS_RemoveElement
<1>5. Cardinality(others) \in Nat /\ Cardinality(DOMAIN at) \in Nat
    BY <1>3, <1>4, FS_CardinalityType
<1>6. Cardinality(Come) <= Cardinality(others)
    BY <1>2, <1>4, FS_Subset
<1>7. count = Cardinality(Come) /\ count \in Nat
    BY <1>1, CountsThoseCome
<1>8. Cardinality(Come) = Cardinality(others)
  <2> HIDE DEF others
  <2> QED BY ONLY <1>1, <1>3, <1>4, <1>5, <1>6, <1>7
<1>9. Come = others
    BY <1>2, <1>4, <1>8, FS_Subset
<1> QED BY <1>9 DEF Come, BInv, BarrierTypeOK

\* Each of the three steps of pthread_barrier_wait keeps the invariant, and so does a
\* wakeup that the system makes.
LEMMA BarrierStep ==
    ASSUME BInv, NEW p \in DOMAIN at, BarrierWait(p) \/ SpuriousWake(p)
    PROVE  BInv' /\ DOMAIN at' = DOMAIN at
<1>1. CASE WaitLast(p)
  <2>1. /\ DOMAIN at' = DOMAIN at /\ tripCount' = tripCount /\ count' = 0
        /\ roused' = roused
    BY <1>1 DEF WaitLast
  <2>2. \A q \in DOMAIN at : at'[q] \in {"woken", "past"}
    BY <1>1, LastFindsAllCome DEF WaitLast
  <2> QED BY <2>1, <2>2 DEF BInv, BarrierTypeOK
<1>2. CASE WaitCond(p)
  <2>1. /\ DOMAIN at' = DOMAIN at /\ tripCount' = tripCount /\ count' = count + 1
        /\ roused' = roused /\ at[p] = "before"
    BY <1>2 DEF WaitCond
  <2>2. \A q \in DOMAIN at : at'[q] = IF q = p THEN "wait" ELSE at[q]
    BY <1>2 DEF WaitCond
  <2>3. Come' = Come \cup {p} /\ p \notin Come
    BY <2>1, <2>2 DEF Come
  <2>4. IsFiniteSet(Come)
    BY FS_Subset DEF BInv, Come
  <2>5. count' = Cardinality(Come')
    BY <2>1, <2>3, <2>4, CountsThoseCome, FS_AddElement
  <2>6. \A q \in DOMAIN at : at'[q] \in {"woken", "past"} => q \in roused
    BY <2>1, <2>2, CountsThoseCome
  <2>7. count' \in 0..(tripCount' - 1)
    BY <1>2, <2>1 DEF BInv, BarrierTypeOK, WaitCond
  <2> QED BY <2>1, <2>2, <2>5, <2>6, <2>7 DEF BInv, BarrierTypeOK
<1>3. CASE WaitReturn(p) \/ SpuriousWake(p)
  <2>1. /\ DOMAIN at' = DOMAIN at /\ tripCount' = tripCount /\ count' = count
        /\ roused \subseteq roused' /\ roused' \subseteq roused \cup {p}
    BY <1>3 DEF WaitReturn, SpuriousWake
  <2>2. \A q \in DOMAIN at :
          /\ at'[q] = "before" <=> at[q] = "before"
          /\ at[q] \in {"woken", "past"} => at'[q] \in {"woken", "past"}
          /\ at'[q] \in {"woken", "past"} => at[q] \in {"woken", "past"} \/ q \in roused'
          /\ at'[q] \in {"before", "wait", "woken", "past"}
    BY <1>3 DEF WaitReturn, SpuriousWake, BInv, BarrierTypeOK
  <2>3. Come' = Come
    BY <2>1, <2>2 DEF Come
  <2> QED BY <2>1, <2>2, <2>3 DEF BInv, BarrierTypeOK
<1> QED BY <1>1, <1>2, <1>3 DEF BarrierWait

-------------------------------------------------------------------------------
(* The programs *)

\* Who takes part, and as many as the barrier is made for.
LEMMA AsManyAsTrip ==
    ASSUME NEW prog
    PROVE  /\ IsFiniteSet(Participants(prog)) /\ Participants(prog) # {}
           /\ Cardinality(Participants(prog)) = TripCount(prog)
<1>1. IsFiniteSet(Workers) /\ Cardinality(Workers) = threads
    BY FS_Interval DEF Workers
<1>2. 0 \in Workers
    BY DEF Workers
<1>3. IsFiniteSet(Workers \cup {Main}) /\ Cardinality(Workers \cup {Main}) = threads + 1
    BY <1>1, FS_AddElement
<1> QED BY <1>1, <1>2, <1>3 DEF Participants, TripCount

LEMMA AtBarrierStart == Init => AtBarrier
<1> SUFFICES ASSUME Init PROVE AtBarrier
    OBVIOUS
<1>1. BarrierInit(Participants(program), TripCount(program)) /\ main = "create"
    BY DEF Init
<1>2. BInv
    BY <1>1, AsManyAsTrip, BarrierStarts
<1>3. DOMAIN at = Participants(program)
    BY <1>1 DEF BarrierInit
<1> QED BY <1>1, <1>2, <1>3 DEF AtBarrier

LEMMA BarrierUntouched ==
    ASSUME AtBarrier, UNCHANGED <<bvars, program>>,
           main' = "barrier" => main = "barrier" \/ program # "benchmark"
    PROVE  AtBarrier'
<1>1. Come' = Come
    BY DEF Come, bvars
<1>2. BInv'
    BY <1>1 DEF AtBarrier, BInv, BarrierTypeOK, bvars
<1>3. DOMAIN at' = Participants(program')
    BY DEF AtBarrier, bvars
<1> QED BY <1>2, <1>3 DEF AtBarrier

LEMMA AtBarrierStep == AtBarrier /\ [Next]_vars => AtBarrier'
<1> SUFFICES ASSUME AtBarrier, [Next]_vars PROVE AtBarrier'
    OBVIOUS
<1>1. CASE UNCHANGED vars
    BY <1>1, BarrierUntouched DEF vars
<1>2. ASSUME NEW w \in Workers, Begin(w) PROVE AtBarrier'
  <2>1. w \in DOMAIN at
    BY DEF AtBarrier, Participants
  <2>2. BarrierWait(w) /\ UNCHANGED <<program, main>>
    BY <1>2 DEF Begin, mainvars
  <2>3. BInv' /\ DOMAIN at' = DOMAIN at
    BY <2>1, <2>2, BarrierStep DEF AtBarrier
  <2> QED BY <2>2, <2>3 DEF AtBarrier
<1>3. CASE MainBarrier
  <2>1. Main \in DOMAIN at
    BY <1>3 DEF AtBarrier, Participants, MainBarrier
  <2>2. BarrierWait(Main) /\ program' = program /\ main = "barrier"
    BY <1>3 DEF MainBarrier
  <2>3. BInv' /\ DOMAIN at' = DOMAIN at
    BY <2>1, <2>2, BarrierStep DEF AtBarrier
  <2> QED BY <2>2, <2>3 DEF AtBarrier
<1>4. ASSUME NEW w \in Workers, Operate(w) \/ HandOver(w) \/ TestInsert(w) \/ TestEnd(w)
      PROVE  AtBarrier'
  <2>1. UNCHANGED <<bvars, program, main>>
    BY <1>4 DEF Operate, HandOver, TestInsert, TestEnd, mainvars
  <2> QED BY <2>1, BarrierUntouched
<1>5. CASE Create \/ Join \/ Sums \/ SearchAll \/ testseq
  <2>1. UNCHANGED <<bvars, program>>
    BY <1>5 DEF Create, Join, Sums, SearchAll, testseq
  <2>2. main' = "barrier" => program # "benchmark"
    BY <1>5 DEF Create, Join, Sums, SearchAll, testseq
  <2> QED BY <2>1, <2>2, BarrierUntouched
<1>6. CASE Rouse
  <2>1. PICK p \in DOMAIN at : SpuriousWake(p)
    BY <1>6 DEF Rouse
  <2>2. BInv' /\ DOMAIN at' = DOMAIN at
    BY <2>1, BarrierStep DEF AtBarrier
  <2>3. UNCHANGED <<program, main>>
    BY <1>6 DEF Rouse, mainvars
  <2> QED BY <2>2, <2>3 DEF AtBarrier
<1> QED BY <1>1, <1>2, <1>3, <1>4, <1>5, <1>6 DEF Next, MainStep, WorkerStep

-------------------------------------------------------------------------------
(* The parts of testpar, and the turns of benchmark *)

LEMMA Iterations ==
    max_iter \in Nat /\ max_iter * threads <= MAXITER /\ max_iter <= MAXITER
<1>1. threads \in Nat /\ threads >= 1 /\ MAXITER \in Nat
    OBVIOUS
<1>2. MAXITER \div threads \in Nat /\ (MAXITER \div threads) * threads <= MAXITER
    BY ONLY <1>1
<1>3. max_iter \in Nat /\ max_iter * threads <= MAXITER
    BY <1>2 DEF max_iter
<1>4. max_iter * threads = max_iter + max_iter * (threads - 1)
    BY ONLY <1>1, <1>3
<1>5. max_iter * (threads - 1) >= 0
    BY ONLY <1>1, <1>3
<1>6. max_iter * (threads - 1) \in Int
    BY ONLY <1>1, <1>3
<1> QED BY ONLY <1>1, <1>3, <1>4, <1>5, <1>6

\* More times the same is no less.
LEMMA Times ==
    ASSUME NEW m \in Nat, NEW a \in Nat, NEW b \in Nat, a <= b
    PROVE  m * a <= m * b
<1>1. m * b = m * a + m * (b - a)
    OBVIOUS
<1>2. m * (b - a) >= 0
    OBVIOUS
<1> QED BY <1>1, <1>2

\* The part of a worker is one of the keys.
LEMMA PartBounds ==
    ASSUME NEW w \in Workers
    PROVE  start(w) \in Nat /\ end(w) \in Nat /\ start(w) <= end(w) /\ end(w) <= MAXITER
<1>1. w \in Nat /\ w + 1 <= threads /\ threads \in Nat /\ MAXITER \in Nat
    BY DEF Workers
<1>2. start(w) = max_iter * w
    BY DEF start, max_iter
<1>3. start(w) \in Nat
    BY ONLY <1>1, <1>2, Iterations
<1>4. max_iter * (w + 1) <= max_iter * threads
    BY ONLY <1>1, Iterations, Times
<1>5. max_iter * (w + 1) = start(w) + max_iter
    BY ONLY <1>1, <1>2, Iterations
<1>6. max_iter * threads \in Nat
    BY ONLY <1>1, Iterations
<1>7. start(w) + max_iter <= MAXITER
    BY ONLY <1>1, <1>3, <1>4, <1>5, <1>6, Iterations
<1>8. end(w) = MAXITER \/ end(w) = start(w) + max_iter
    BY DEF end, max_iter
<1> QED BY ONLY <1>1, <1>3, <1>7, <1>8, Iterations

\* Every key is in the part of a worker.
LEMMA EveryPart ==
    ASSUME NEW k \in 0..(MAXITER - 1)
    PROVE  \E w \in Workers : k \in start(w)..(end(w) - 1)
<1> DEFINE last == threads - 1
           q == k \div max_iter
<1>1. last \in Workers /\ end(last) = MAXITER /\ start(last) = max_iter * last
    BY DEF Workers, end, start, max_iter
<1>2. CASE k >= max_iter * last
  <2>1. k \in start(last)..(end(last) - 1)
    BY <1>1, <1>2, PartBounds
  <2> QED BY <1>1, <2>1
<1>3. CASE k < max_iter * last
  <2>1. max_iter \in Nat /\ k \in Nat /\ last \in Nat
    BY <1>1, Iterations DEF Workers
  <2>2. max_iter # 0
    <3> HIDE DEF last
    <3> QED BY ONLY <1>3, <2>1
  <2>3. q \in Nat /\ max_iter * q <= k /\ k < max_iter * q + max_iter
    BY ONLY <2>1, <2>2
  <2>4. q < last
    <3> SUFFICES ASSUME last <= q PROVE FALSE
      BY <2>1, <2>3
    <3>1. max_iter * last <= max_iter * q
      <4> HIDE DEF last, q
      <4> QED BY ONLY <2>1, <2>3, last <= q, Times
    <3>2. max_iter * last \in Int /\ max_iter * q \in Int
      <4> HIDE DEF last, q
      <4> QED BY ONLY <2>1, <2>3
    <3> HIDE DEF last, q
    <3> QED BY ONLY <1>3, <2>1, <2>3, <3>1, <3>2
  <2>5. q \in Workers /\ q # threads - 1
    <3> HIDE DEF q
    <3> QED BY <2>3, <2>4 DEF Workers
  <2>6. start(q) = max_iter * q /\ end(q) = start(q) + max_iter
    BY <2>5 DEF start, end, max_iter
  <2>7. k \in start(q)..(end(q) - 1)
    <3> HIDE DEF q
    <3> QED BY <2>1, <2>3, <2>5, <2>6, PartBounds
  <2> QED BY <2>5, <2>7
<1> QED BY <1>1, <1>2, <1>3, Iterations DEF Workers

-------------------------------------------------------------------------------
(* Type correctness *)

LEMMA WorkersFinite == IsFiniteSet(Workers) /\ Cardinality(Workers) = threads
BY FS_Interval DEF Workers

LEMMA BulkType == Bulks \subseteq [0..(MAXITER - 1) -> 1..MAXITER]
BY DEF Bulks, Injection

LEMMA Pool == \A k \in 1..MAX_POOL : p_pool[k] \in 1..3
BY DEF p_pool

\* The loop variable after a turn of main's loops.
LEMMA NextThread ==
    ASSUME n \in Workers
    PROVE  /\ (n + 1) % threads \in Workers
           /\ n + 1 < threads => (n + 1) % threads = n + 1
           /\ n + 1 >= threads => (n + 1) % threads = 0
<1>1. threads \in Nat \ {0} /\ n + 1 \in Nat /\ n + 1 <= threads
    BY DEF Workers
<1>2. ASSUME NEW m \in Nat, NEW p \in Nat \ {0}, m < p PROVE m % p = m
    BY ONLY <1>2
<1>3. ASSUME NEW p \in Nat \ {0} PROVE p % p = 0
    BY ONLY <1>3
<1>4. n + 1 < threads => (n + 1) % threads = n + 1
    BY <1>1, <1>2
<1>5. n + 1 >= threads => (n + 1) % threads = 0
  <2>1. n + 1 >= threads => n + 1 = threads
    BY <1>1
  <2> QED BY <1>1, <1>3, <2>1
<1> QED BY ONLY <1>1, <1>4, <1>5 DEF Workers

LEMMA TypeStart == Init => TypeOK
<1> SUFFICES ASSUME Init PROVE TypeOK
    OBVIOUS
<1>1. BarrierTypeOK
    BY AtBarrierStart DEF AtBarrier, BInv
<1>2. tree \subseteq (1..range \cup 1..MAXITER)
    BY DEF Init, kSubset
<1>3. Zero \in Counts /\ NoArgs \in [counter : Counts, success : Counts]
    BY DEF Zero, NoArgs, Counts
<1> QED BY <1>1, <1>2, <1>3 DEF Init, TypeOK, Workers

\* The sums of benchmark are numbers.
LEMMA SumsType ==
    ASSUME TypeOK, NEW f \in DOMAIN NoArgs, NEW op \in 1..3
    PROVE  /\ \A w \in Workers : args[w][f][op] \in Nat
           /\ SumFunction([w \in Workers |-> args[w][f][op]]) \in Nat
<1> DEFINE F == [w \in Workers |-> args[w][f][op]]
<1>1. f \in {"counter", "success"}
    BY DEF NoArgs
<1>2. ASSUME NEW w \in Workers PROVE args[w][f][op] \in Nat
  <2>1. args[w] \in [counter : Counts, success : Counts]
    BY DEF TypeOK
  <2>2. args[w][f] \in Counts
    BY <1>1, <2>1
  <2> QED BY <2>2 DEF Counts
<1>3. \A w \in Workers : F[w] \in Nat
    BY <1>2
<1>4. SumFunction(F) = SumFunctionOnSet(F, Workers)
    BY DEF SumFunction
<1>5. SumFunctionOnSet(F, Workers) \in Nat
  <2> HIDE DEF F
  <2> QED BY <1>3, WorkersFinite, SumNat
<1> QED BY <1>2, <1>4, <1>5

LEMMA TypeStep == TypeOK /\ Places /\ AtBarrier' /\ [Next]_vars => TypeOK'
<1> SUFFICES ASSUME TypeOK, Places, AtBarrier', [Next]_vars PROVE TypeOK'
    OBVIOUS
<1> USE DEF TypeOK
<1>1. BarrierTypeOK'
    BY DEF AtBarrier, BInv
<1>2. CASE UNCHANGED vars
    BY <1>1, <1>2 DEF vars
<1>3. ASSUME NEW w \in Workers, Begin(w) PROVE TypeOK'
    BY <1>1, <1>3 DEF Begin, mainvars, counts, Goto
<1>4. ASSUME NEW w \in Workers, Operate(w) PROVE TypeOK'
  <2>1. PICK k \in 1..MAX_POOL, key \in 1..range :
          LET op == p_pool[k] IN
          \E effect \in Effects(op, key) :
              /\ tree' = IF op = 1 THEN tree \cup {key} ELSE tree
              /\ counter' = [counter EXCEPT ![w][op] = @ + 1]
              /\ success' = [success EXCEPT ![w][op] = @ + IF effect THEN 1 ELSE 0]
    BY <1>4 DEF Operate
  <2> DEFINE op == p_pool[k]
  <2>2. op \in 1..3
    BY Pool
  <2>3. counter' \in [Workers -> Counts] /\ success' \in [Workers -> Counts]
    <3>1. PICK effect \in Effects(op, key) :
            /\ counter' = [counter EXCEPT ![w][op] = @ + 1]
            /\ success' = [success EXCEPT ![w][op] = @ + IF effect THEN 1 ELSE 0]
      BY <2>1
    <3> HIDE DEF op
    <3> QED BY <2>2, <3>1 DEF Counts
  <2>4. tree' \subseteq (1..range \cup 1..MAXITER)
    BY <2>1
  <2>5. cont' \in [Workers -> 0..MAXITER]
    <3>1. cont[w] < max_iter /\ cont' = [cont EXCEPT ![w] = cont[w] + 1]
      BY <1>4 DEF Operate
    <3> QED BY <3>1, Iterations
  <2>6. UNCHANGED <<pc, args, program, main, n, result, bulk, errors, bvars>>
    BY <1>4 DEF Operate, mainvars
  <2> QED BY <1>1, <2>3, <2>4, <2>5, <2>6
<1>5. ASSUME NEW w \in Workers, HandOver(w) PROVE TypeOK'
    BY <1>1, <1>5 DEF HandOver, mainvars, Goto
<1>6. ASSUME NEW w \in Workers, TestInsert(w) PROVE TypeOK'
  <2>1. /\ start(w) + cont[w] < end(w) /\ cont' = [cont EXCEPT ![w] = cont[w] + 1]
        /\ tree' = tree \cup {bulk[start(w) + cont[w]]}
        /\ UNCHANGED <<pc, counter, success, args, program, main, n, result, bulk, errors>>
    BY <1>6 DEF TestInsert, mainvars, counts
  <2>2. start(w) + cont[w] \in 0..(MAXITER - 1) /\ cont[w] < MAXITER
    BY <2>1, PartBounds
  <2>3. bulk[start(w) + cont[w]] \in 1..MAXITER
    BY <1>6, <2>2, BulkType DEF Places, TestInsert
  <2>4. cont' \in [Workers -> 0..MAXITER]
    <3>1. cont[w] + 1 \in 0..MAXITER
      BY <2>2
    <3> QED BY <2>1, <3>1
  <2>5. tree' \subseteq (1..range \cup 1..MAXITER)
    BY <2>1, <2>3
  <2> QED BY <1>1, <2>1, <2>4, <2>5
<1>7. ASSUME NEW w \in Workers, TestEnd(w) PROVE TypeOK'
    BY <1>1, <1>7 DEF TestEnd, mainvars, counts, Goto
<1>8. ASSUME n \in Workers
      PROVE  /\ (n + 1) % threads \in Workers
             /\ n + 1 < threads => (n + 1) % threads = n + 1
             /\ n + 1 >= threads => (n + 1) % threads = 0
    BY <1>8, NextThread
<1>9. CASE Create
  <2>1. \A w \in Workers : pc'[w] = "off" => main' = "create" /\ n' <= w
    BY <1>8, <1>9 DEF Create, Goto, Workers
  <2> QED BY <1>1, <1>8, <1>9, <2>1 DEF Create, Goto, counts
<1>10. CASE MainBarrier
    BY <1>1, <1>10 DEF MainBarrier, counts
<1>11. CASE Join
    BY <1>1, <1>8, <1>11 DEF Join, counts
<1>12. CASE Sums
  <2>1. DOMAIN NoArgs = {"counter", "success"}
    BY DEF NoArgs
  <2>2. result' = [f \in {"counter", "success"} |->
                      [op \in 1..3 |-> SumFunction([w \in Workers |-> args[w][f][op]])]]
    BY <1>12, <2>1 DEF Sums
  <2>3. \A f \in {"counter", "success"} : result'[f] \in Counts
    BY <2>1, <2>2, SumsType DEF Counts
  <2>4. result' \in [counter : Counts, success : Counts]
    BY <2>2, <2>3
  <2> QED BY <1>1, <1>12, <2>4 DEF Sums, counts
<1>13. CASE SearchAll
  <2>1. bulk \in [0..(MAXITER - 1) -> 1..MAXITER]
    BY <1>13, BulkType DEF SearchAll, Places
  <2> DEFINE unfound == {k \in DOMAIN bulk : bulk[k] \notin tree}
  <2>2. IsFiniteSet(unfound)
    <3>1. unfound \subseteq 0..(MAXITER - 1)
      BY <2>1
    <3>2. IsFiniteSet(0..(MAXITER - 1))
      BY FS_Interval
    <3> HIDE DEF unfound
    <3> QED BY <3>1, <3>2, FS_Subset
  <2>3. errors' \in Nat
    BY <1>13, <2>2, FS_CardinalityType DEF SearchAll
  <2> QED BY <1>1, <1>13, <2>3 DEF SearchAll, counts
<1>14. CASE testseq
  <2>1. PICK values \in Bulks :
          /\ tree' = tree \cup {values[k] : k \in DOMAIN values}
          /\ errors' = errors + Cardinality({k \in DOMAIN values : values[k] \notin tree'})
    BY <1>14 DEF testseq
  <2>2. values \in [0..(MAXITER - 1) -> 1..MAXITER]
    BY BulkType
  <2> DEFINE unfound == {k \in DOMAIN values : values[k] \notin tree'}
  <2>3. unfound = {}
    BY <2>1
  <2>4. tree' \subseteq (1..range \cup 1..MAXITER)
    <3>1. {values[k] : k \in DOMAIN values} \subseteq 1..MAXITER
      BY <2>2
    <3> QED BY <2>1, <3>1
  <2>5. errors' = errors
    <3>1. Cardinality(unfound) = 0
      BY <2>3, FS_EmptySet
    <3>2. errors' = errors + Cardinality(unfound)
      BY <2>1
    <3> HIDE DEF unfound
    <3> QED BY <3>1, <3>2
  <2> HIDE DEF unfound
  <2> QED BY <1>1, <1>14, <2>4, <2>5 DEF testseq, counts
<1>15. CASE Rouse
    BY <1>1, <1>15 DEF Rouse, mainvars, counts
<1> QED BY <1>2, <1>3, <1>4, <1>5, <1>6, <1>7, <1>9, <1>10, <1>11, <1>12, <1>13, <1>14,
           <1>15
        DEF Next, MainStep, WorkerStep

LEMMA PlacesStart == Init => Places
BY AtBarrierStart DEF Init, Places

LEMMA PlacesStep == TypeOK /\ Places /\ AtBarrier' /\ [Next]_vars => Places'
<1> SUFFICES ASSUME TypeOK, Places, AtBarrier', [Next]_vars PROVE Places'
    OBVIOUS
<1>1. CASE UNCHANGED vars
    BY <1>1 DEF vars, Places
<1>2. ASSUME NEW w \in Workers, Begin(w) PROVE Places'
    BY <1>2 DEF Begin, mainvars, Goto, TypeOK, Places
<1>3. ASSUME NEW w \in Workers, Operate(w) \/ HandOver(w) \/ TestInsert(w) \/ TestEnd(w)
      PROVE  Places'
  <2>1. /\ UNCHANGED <<program, main, n, bulk>>
        /\ \A d \in Workers : pc'[d] = pc[d] \/ pc'[d] = "done"
    BY <1>3 DEF Operate, HandOver, TestInsert, TestEnd, mainvars, Goto, TypeOK
  <2> QED BY <2>1 DEF Places
<1>4. CASE Create \/ MainBarrier
    <2>1. /\ UNCHANGED <<program, bulk>> /\ main' \notin {"testseq", "joined", "end"}
          /\ main' \in {"barrier", "join"} => n' = 0
      <3>1. CASE Create
        BY <3>1, NextThread DEF Create, TypeOK, Workers
      <3>2. CASE MainBarrier
        BY <3>2 DEF MainBarrier, Places
      <3> QED BY <1>4, <3>1, <3>2
    <2> QED BY <2>1 DEF Places, Workers
<1>5. CASE Join
  <2>1. /\ UNCHANGED <<program, bulk, pc>> /\ pc[n] = "done" /\ main = "join" /\ n \in 0..(threads - 1)
        /\ main' = IF n + 1 < threads THEN "join" ELSE "joined"
        /\ n + 1 < threads => n' = n + 1
    BY <1>5, NextThread DEF Join, TypeOK, Workers
  <2>2. \A w \in Workers : w < n => pc[w] = "done"
    BY <2>1 DEF Places
  <2> QED BY <2>1, <2>2 DEF Places, Workers
<1>6. CASE Sums \/ SearchAll \/ testseq
    BY <1>6 DEF Sums, SearchAll, testseq, Places
<1>7. CASE Rouse
    BY <1>7 DEF Rouse, mainvars, Places
<1> QED BY <1>1, <1>2, <1>3, <1>4, <1>5, <1>6, <1>7 DEF Next, MainStep, WorkerStep

-------------------------------------------------------------------------------
(* What benchmark counts *)

\* The effective insertions, by worker.
Effective == [w \in Workers |-> success[w][1]]

LEMMA EffectiveType ==
    ASSUME TypeOK
    PROVE  /\ SumFunction(Effective) = SumFunctionOnSet(Effective, Workers)
           /\ \A w \in Workers : Effective[w] \in Nat
           /\ SumFunction(Effective) \in Nat
<1>1. SumFunction(Effective) = SumFunctionOnSet(Effective, Workers)
    BY DEF SumFunction, Effective
<1>2. \A w \in Workers : Effective[w] \in Nat
    BY DEF TypeOK, Counts, Effective
<1>3. SumFunctionOnSet(Effective, Workers) \in Nat
    BY <1>2, WorkersFinite, SumNat
<1> QED BY <1>1, <1>2, <1>3

LEMMA TreeFinite == TypeOK => IsFiniteSet(tree) /\ Cardinality(tree) \in Nat
<1> SUFFICES ASSUME TypeOK PROVE IsFiniteSet(tree) /\ Cardinality(tree) \in Nat
    OBVIOUS
<1>1. IsFiniteSet(1..range \cup 1..MAXITER)
  <2>1. IsFiniteSet(1..range) /\ IsFiniteSet(1..MAXITER)
    BY FS_Interval
  <2> QED BY <2>1, FS_Union
<1>2. IsFiniteSet(tree)
    BY <1>1, FS_Subset DEF TypeOK
<1> QED BY <1>2, FS_CardinalityType

LEMMA CountedStart == Init /\ program = "benchmark" => Counted
<1> SUFFICES ASSUME Init, program = "benchmark" PROVE Counted
    OBVIOUS
<1>1. \A w \in Workers : /\ counter[w][1] = 0 /\ counter[w][2] = 0 /\ counter[w][3] = 0
                         /\ cont[w] = 0 /\ pc[w] = "off" /\ Effective[w] = 0
    BY DEF Init, Zero, Effective
<1>2. main = "create"
    BY DEF Init
<1>3. Cardinality(tree) = num
    BY DEF Init, kSubset
<1>4. SumFunctionOnSet(Effective, Workers) = Cardinality(Workers) * 0
  <2>1. \A w \in Workers : Effective[w] = 0
    BY <1>1
  <2> QED BY <2>1, WorkersFinite, SumConstant
<1>5. SumFunction(Effective) = Cardinality(tree) - num
    BY <1>3, <1>4, WorkersFinite, TypeStart, EffectiveType
<1> QED BY <1>1, <1>2, <1>5, Iterations DEF Counted, Effective

LEMMA CountedKept ==
    ASSUME Counted, UNCHANGED <<counter, success, cont, args, tree>>,
           \A w \in Workers : pc'[w] = "done" => pc[w] = "done",
           main' = "end" => main = "end" /\ result' = result
    PROVE  Counted'
BY DEF Counted

\* One turn of do_bench.
LEMMA OperateStep ==
    ASSUME TypeOK, TypeOK', Counted, NEW w \in Workers, Operate(w)
    PROVE  Counted'
<1>1. PICK k \in 1..MAX_POOL, key \in 1..range :
        LET op == p_pool[k] IN
        \E e \in Effects(op, key) :
            /\ tree' = IF op = 1 THEN tree \cup {key} ELSE tree
            /\ counter' = [counter EXCEPT ![w][op] = @ + 1]
            /\ success' = [success EXCEPT ![w][op] = @ + IF e THEN 1 ELSE 0]
    BY DEF Operate
<1> DEFINE op == p_pool[k]
<1>1a. PICK e \in Effects(op, key) :
        /\ tree' = IF op = 1 THEN tree \cup {key} ELSE tree
        /\ counter' = [counter EXCEPT ![w][op] = @ + 1]
        /\ success' = [success EXCEPT ![w][op] = @ + IF e THEN 1 ELSE 0]
    BY <1>1
<1> DEFINE effect == IF e THEN 1 ELSE 0
<1>2. op \in 1..3 /\ effect \in 0..1
    BY Pool
<1>3. /\ tree' = IF op = 1 THEN tree \cup {key} ELSE tree
      /\ counter' = [counter EXCEPT ![w][op] = @ + 1]
      /\ success' = [success EXCEPT ![w][op] = @ + effect]
    BY <1>1a
<1>4. op = 1 => effect = IF key \notin tree THEN 1 ELSE 0
  <2>1. op = 1 => e \in {key \notin tree}
    BY DEF Effects
  <2>2. op = 1 => (e <=> key \notin tree)
    BY <2>1
  <2> QED BY <2>2
<1>5. counter \in [Workers -> Counts] /\ success \in [Workers -> Counts]
    BY DEF TypeOK
<1>6. /\ cont' = [cont EXCEPT ![w] = cont[w] + 1] /\ cont[w] < max_iter /\ pc[w] = "loop"
      /\ UNCHANGED <<pc, args, main, result>>
    BY DEF Operate, mainvars
<1> HIDE DEF op, effect
<1>7. /\ \A d \in Workers \ {w} : counter'[d] = counter[d] /\ success'[d] = success[d]
      /\ \A o \in 1..3 : counter'[w][o] = IF o = op THEN counter[w][o] + 1 ELSE counter[w][o]
      /\ success'[w][1] = IF 1 = op THEN success[w][1] + effect ELSE success[w][1]
    BY ONLY <1>2, <1>3, <1>5, w \in Workers DEF Counts
<1>8. /\ cont \in [Workers -> 0..MAXITER]
      /\ \A o \in 1..3 : counter[w][o] \in Nat
      /\ success[w][1] \in Nat
    BY DEF TypeOK, Counts
<1>9. /\ cont'[w] = cont[w] + 1 /\ \A d \in Workers \ {w} : cont'[d] = cont[d]
      /\ cont[w] \in Nat
    BY <1>6, <1>8
<1>10. counter'[w][1] + counter'[w][2] + counter'[w][3] = cont'[w]
  <2>1. counter[w][1] + counter[w][2] + counter[w][3] = cont[w]
    BY DEF Counted
  <2>2. /\ counter[w][1] \in Nat /\ counter[w][2] \in Nat /\ counter[w][3] \in Nat
        /\ op = 1 \/ op = 2 \/ op = 3
        /\ counter'[w][1] = IF 1 = op THEN counter[w][1] + 1 ELSE counter[w][1]
        /\ counter'[w][2] = IF 2 = op THEN counter[w][2] + 1 ELSE counter[w][2]
        /\ counter'[w][3] = IF 3 = op THEN counter[w][3] + 1 ELSE counter[w][3]
    BY ONLY <1>2, <1>7, <1>8
  <2> QED BY ONLY <1>9, <2>1, <2>2
<1>11. cont'[w] <= max_iter
    BY <1>6, <1>9, Iterations
<1>12. \A d \in Workers :
        /\ counter'[d][1] + counter'[d][2] + counter'[d][3] = cont'[d]
        /\ cont'[d] <= max_iter
        /\ pc'[d] = "done" =>
              /\ cont'[d] = max_iter
              /\ args'[d] = [counter |-> counter'[d], success |-> success'[d]]
    BY <1>6, <1>7, <1>9, <1>10, <1>11 DEF Counted
\* The insertions that have an effect, and the keys.
<1>13. /\ SumFunction(Effective) = SumFunctionOnSet(Effective, Workers)
       /\ \A d \in Workers : Effective[d] \in Int
       /\ SumFunction(Effective) \in Int
    BY EffectiveType
<1>14. SumFunction(Effective') = SumFunctionOnSet(Effective', Workers)
    BY DEF SumFunction, Effective
<1>15. \A d \in Workers : Effective[d] \in Int /\ Effective'[d] \in Int
    BY <1>13 DEF TypeOK, Counts, Effective
<1>16. /\ \A d \in Workers \ {w} : Effective[d] = Effective'[d]
       /\ Effective'[w] = IF op = 1 THEN Effective[w] + effect ELSE Effective[w]
    BY <1>7 DEF Effective
<1>17. SumFunctionOnSet(Effective', Workers)
          = SumFunctionOnSet(Effective, Workers) + Effective'[w] - Effective[w]
  <2>1. \A d \in Workers \ {w} : Effective[d] = Effective'[d]
    BY <1>16
  <2> QED BY ONLY <1>15, <2>1, w \in Workers, WorkersFinite, SumOneChanges
<1>18. Cardinality(tree') = IF op = 1 THEN Cardinality(tree) + effect ELSE Cardinality(tree)
  <2>1. CASE op = 1 /\ key \notin tree
    <3>1. Cardinality(tree \cup {key}) = Cardinality(tree) + 1
      BY <2>1, TreeFinite, FS_AddElement
    <3> QED BY <1>3, <1>4, <2>1, <3>1
  <2>2. CASE op = 1 /\ key \in tree
    <3>1. tree' = tree
      BY <1>3, <2>2
    <3> QED BY <1>4, <2>2, <3>1, TreeFinite
  <2>3. CASE op # 1
    BY <1>3, <2>3
  <2> QED BY <2>1, <2>2, <2>3
<1>19. SumFunction(Effective') = Cardinality(tree') - num
  <2> DEFINE sum == SumFunction(Effective)
             next == SumFunction(Effective')
             keys == Cardinality(tree)
             mine == Effective[w]
             mineNext == Effective'[w]
  <2>1. sum = keys - num /\ keys \in Nat /\ num \in Nat
    BY TreeFinite DEF Counted, Effective
  <2>2. next = sum + mineNext - mine /\ sum \in Int /\ mine \in Int
    BY <1>13, <1>14, <1>17
  <2>3. mineNext = IF op = 1 THEN mine + effect ELSE mine
    BY <1>16
  <2>4. Cardinality(tree') = IF op = 1 THEN keys + effect ELSE keys
    BY <1>18
  <2>5. next = Cardinality(tree') - num
    <3> HIDE DEF sum, next, keys, mine, mineNext
    <3> QED BY ONLY <1>2, <2>1, <2>2, <2>3, <2>4
  <2> QED BY <2>5
<1>20. main' = "end" =>
          \A f \in DOMAIN NoArgs, o \in 1..3 :
              result'[f][o] = SumFunction([d \in Workers |-> args'[d][f][o]])
  <2>1. main' = main /\ result' = result /\ args' = args
    BY <1>6
  <2>2. main = "end" =>
          \A f \in DOMAIN NoArgs, o \in 1..3 :
              result[f][o] = SumFunction([d \in Workers |-> args[d][f][o]])
    BY DEF Counted
  <2> QED BY ONLY <2>1, <2>2
<1> QED BY <1>12, <1>19, <1>20 DEF Counted, Effective

LEMMA CountedStep ==
    ASSUME TypeOK, TypeOK', Places, program = "benchmark", Counted, [Next]_vars
    PROVE  Counted'
<1>1. CASE UNCHANGED vars
    BY <1>1, CountedKept DEF vars
<1>2. ASSUME NEW w \in Workers, Begin(w) PROVE Counted'
  <2>1. UNCHANGED <<counter, success, cont, args, tree, main, result>>
    BY <1>2 DEF Begin, mainvars, counts
  <2>2. \A d \in Workers : pc'[d] = "done" => pc[d] = "done"
    BY <1>2 DEF Begin, Goto, TypeOK
  <2> QED BY <2>1, <2>2, CountedKept
<1>3. ASSUME NEW w \in Workers, Operate(w) PROVE Counted'
    BY <1>3, OperateStep
<1>4. ASSUME NEW w \in Workers, HandOver(w) PROVE Counted'
  <2>1. /\ UNCHANGED <<counter, success, cont, tree, main, result>>
        /\ pc' = [pc EXCEPT ![w] = "done"] /\ pc[w] = "loop" /\ cont[w] >= max_iter
        /\ args' = [args EXCEPT ![w] = [counter |-> counter[w], success |-> success[w]]]
    BY <1>4 DEF HandOver, mainvars, Goto
  <2>2. /\ \A d \in Workers \ {w} : pc'[d] = pc[d] /\ args'[d] = args[d]
        /\ args'[w] = [counter |-> counter[w], success |-> success[w]]
    BY <2>1 DEF TypeOK
  <2>3. cont[w] = max_iter
    <3>1. cont[w] \in Nat /\ cont[w] <= max_iter
      BY DEF Counted, TypeOK
    <3> QED BY ONLY <2>1, <3>1, Iterations
  <2>4. main # "end"
    BY <2>1 DEF Places
  <2>5. \A d \in Workers :
          /\ counter'[d][1] + counter'[d][2] + counter'[d][3] = cont'[d]
          /\ cont'[d] <= max_iter
          /\ pc'[d] = "done" =>
                /\ cont'[d] = max_iter
                /\ args'[d] = [counter |-> counter'[d], success |-> success'[d]]
    BY <2>1, <2>2, <2>3 DEF Counted
  <2> QED BY <2>1, <2>4, <2>5 DEF Counted
<1>5. CASE Create \/ MainBarrier \/ Join
  <2>1. UNCHANGED <<counter, success, cont, args, tree>> /\ main' # "end"
    BY <1>5 DEF Create, MainBarrier, Join, counts
  <2>2. \A d \in Workers : pc'[d] = "done" => pc[d] = "done"
    BY <1>5 DEF Create, MainBarrier, Join, Goto, TypeOK
  <2> QED BY <2>1, <2>2, CountedKept
<1>6. CASE Sums
  <2>1. /\ UNCHANGED <<counter, success, cont, args, tree, pc>>
        /\ result' = [f \in DOMAIN NoArgs |->
              [op \in 1..3 |-> SumFunction([w \in Workers |-> args[w][f][op]])]]
    BY <1>6 DEF Sums, counts
  <2>2. \A f \in DOMAIN NoArgs, op \in 1..3 :
            result'[f][op] = SumFunction([w \in Workers |-> args'[w][f][op]])
    BY <2>1
  <2> QED BY <2>1, <2>2 DEF Counted
<1>7. ~ (SearchAll \/ testseq) /\ \A w \in Workers : ~ (TestInsert(w) \/ TestEnd(w))
    BY DEF SearchAll, testseq, TestInsert, TestEnd, Places
<1>8. CASE Rouse
    BY <1>8, CountedKept DEF Rouse, mainvars, counts
<1> QED BY <1>1, <1>2, <1>3, <1>4, <1>5, <1>6, <1>7, <1>8 DEF Next, MainStep, WorkerStep

-------------------------------------------------------------------------------
(* What testpar inserts *)

LEMMA InsertedStart == Init => Inserted
<1> SUFFICES ASSUME Init, NEW w \in Workers
             PROVE  /\ start(w) + cont[w] <= end(w)
                    /\ \A k \in start(w)..(start(w) + cont[w] - 1) : bulk[k] \in tree
                    /\ pc[w] = "done" => start(w) + cont[w] = end(w)
    BY DEF Inserted
<1>1. cont[w] = 0 /\ pc[w] = "off"
    BY DEF Init
<1>2. start(w) \in Nat /\ end(w) \in Nat /\ start(w) <= end(w)
    BY PartBounds
<1> QED BY ONLY <1>1, <1>2

LEMMA InsertedKept ==
    ASSUME Inserted, UNCHANGED <<cont, bulk>>, tree \subseteq tree',
           \A w \in Workers : pc'[w] = "done" => pc[w] = "done"
    PROVE  Inserted'
BY DEF Inserted

LEMMA InsertedStep ==
    ASSUME TypeOK, Places, program = "testpar", Inserted, [Next]_vars
    PROVE  Inserted'
<1>1. CASE UNCHANGED vars
    BY <1>1, InsertedKept DEF vars
<1>2. ASSUME NEW w \in Workers, Begin(w) PROVE Inserted'
  <2>1. UNCHANGED <<cont, bulk, tree>>
    BY <1>2 DEF Begin, mainvars
  <2>2. \A d \in Workers : pc'[d] = "done" => pc[d] = "done"
    BY <1>2 DEF Begin, Goto, TypeOK
  <2> QED BY <2>1, <2>2, InsertedKept
<1>3. ASSUME NEW w \in Workers, TestInsert(w) PROVE Inserted'
  <2>1. /\ pc[w] = "loop" /\ start(w) + cont[w] < end(w)
        /\ tree' = tree \cup {bulk[start(w) + cont[w]]}
        /\ cont' = [cont EXCEPT ![w] = cont[w] + 1] /\ UNCHANGED <<pc, bulk>>
    BY <1>3 DEF TestInsert, mainvars
  <2>2. cont'[w] = cont[w] + 1 /\ \A d \in Workers \ {w} : cont'[d] = cont[d]
    BY <2>1 DEF TypeOK
  <2>3. cont[w] \in Nat /\ start(w) \in Nat /\ end(w) \in Nat
    BY PartBounds DEF TypeOK
  <2>4. start(w) + cont'[w] <= end(w)
    BY ONLY <2>1, <2>2, <2>3
  <2>5. \A k \in start(w)..(start(w) + cont[w] - 1) : bulk[k] \in tree
    BY DEF Inserted
  <2>6. \A k \in start(w)..(start(w) + cont'[w] - 1) : bulk[k] \in tree'
    BY ONLY <2>1, <2>2, <2>3, <2>5
  <2>7. \A d \in Workers :
          /\ start(d) + cont'[d] <= end(d)
          /\ \A k \in start(d)..(start(d) + cont'[d] - 1) : bulk[k] \in tree'
          /\ pc'[d] = "done" => start(d) + cont'[d] = end(d)
    BY <2>1, <2>2, <2>4, <2>6 DEF Inserted
  <2> QED BY <2>1, <2>7 DEF Inserted
<1>4. ASSUME NEW w \in Workers, TestEnd(w) PROVE Inserted'
  <2>1. /\ start(w) + cont[w] >= end(w) /\ UNCHANGED <<tree, cont, bulk>>
        /\ \A d \in Workers \ {w} : pc'[d] = pc[d]
    BY <1>4 DEF TestEnd, mainvars, Goto, TypeOK
  <2>2. start(w) + cont[w] = end(w)
    <3>1. cont[w] \in Nat /\ start(w) \in Nat /\ end(w) \in Nat /\ start(w) + cont[w] <= end(w)
      BY PartBounds DEF TypeOK, Inserted
    <3> QED BY ONLY <2>1, <3>1
  <2> QED BY <2>1, <2>2 DEF Inserted
<1>5. CASE Create \/ MainBarrier \/ Join \/ SearchAll \/ testseq
  <2>1. UNCHANGED <<cont, bulk>> /\ tree \subseteq tree'
    BY <1>5 DEF Create, MainBarrier, Join, SearchAll, testseq
  <2>2. \A d \in Workers : pc'[d] = "done" => pc[d] = "done"
    BY <1>5 DEF Create, MainBarrier, Join, SearchAll, testseq, Goto, TypeOK
  <2> QED BY <2>1, <2>2, InsertedKept
<1>6. ~ Sums /\ \A w \in Workers : ~ (Operate(w) \/ HandOver(w))
    BY DEF Sums, Operate, HandOver
<1>7. CASE Rouse
    BY <1>7, InsertedKept DEF Rouse, mainvars
<1> QED BY <1>1, <1>2, <1>3, <1>4, <1>5, <1>6, <1>7 DEF Next, MainStep, WorkerStep

\* Every key is in the part of a worker that has come to its end.
LEMMA AllFound ==
    ASSUME TypeOK, Places, program = "testpar", Inserted, main = "joined"
    PROVE  {k \in DOMAIN bulk : bulk[k] \notin tree} = {}
<1> SUFFICES ASSUME NEW k \in DOMAIN bulk PROVE bulk[k] \in tree
    OBVIOUS
<1>1. k \in 0..(MAXITER - 1)
    BY BulkType DEF Places
<1>2. PICK w \in Workers : k \in start(w)..(end(w) - 1)
    BY <1>1, EveryPart
<1>3. start(w) + cont[w] = end(w)
    BY DEF Places, Inserted
<1>4. k \in start(w)..(start(w) + cont[w] - 1)
  <2>1. start(w) + cont[w] - 1 = end(w) - 1
    <3>1. start(w) \in Nat /\ cont[w] \in Nat /\ end(w) \in Nat
      BY PartBounds DEF TypeOK
    <3> QED BY ONLY <1>3, <3>1
  <2> QED BY ONLY <1>2, <2>1
<1> QED BY <1>4 DEF Inserted

LEMMA ErrorsStep == TypeOK /\ Places /\ Results /\ [Next]_vars => errors' = 0
<1> SUFFICES ASSUME TypeOK, Places, Results, [Next]_vars PROVE errors' = 0
    OBVIOUS
<1>1. CASE SearchAll
  <2> DEFINE unfound == {k \in DOMAIN bulk : bulk[k] \notin tree}
  <2>1. unfound = {}
    BY <1>1, AllFound DEF SearchAll, Results
  <2>2. errors' = Cardinality(unfound)
    BY <1>1 DEF SearchAll
  <2> HIDE DEF unfound
  <2> QED BY <2>1, <2>2, FS_EmptySet
<1>2. CASE testseq
  <2>1. PICK values \in Bulks :
          /\ tree' = tree \cup {values[k] : k \in DOMAIN values}
          /\ errors' = errors + Cardinality({k \in DOMAIN values : values[k] \notin tree'})
    BY <1>2 DEF testseq
  <2> DEFINE unfound == {k \in DOMAIN values : values[k] \notin tree'}
  <2>2. unfound = {}
    BY <2>1
  <2>3. errors' = errors + Cardinality(unfound) /\ errors = 0
    BY <2>1 DEF Results
  <2> HIDE DEF unfound
  <2> QED BY <2>2, <2>3, FS_EmptySet
<1>3. CASE UNCHANGED vars
    BY <1>3 DEF vars, Results
<1>4. CASE Create \/ MainBarrier \/ Join \/ Sums
    BY <1>4 DEF Create, MainBarrier, Join, Sums, Results
<1>5. ASSUME NEW w \in Workers, WorkerStep(w) PROVE errors' = 0
    BY <1>5 DEF WorkerStep, Begin, Operate, HandOver, TestInsert, TestEnd, mainvars, Results
<1>6. CASE Rouse
    BY <1>6 DEF Rouse, mainvars, Results
<1> QED BY <1>1, <1>2, <1>3, <1>4, <1>5, <1>6 DEF Next, MainStep

LEMMA BenchAlways == Spec => [](TypeOK /\ Places /\ Results)
<1>1. Init => TypeOK /\ Places /\ Results
    BY TypeStart, PlacesStart, CountedStart, InsertedStart DEF Init, Results
<1>2. TypeOK /\ Places /\ Results /\ [Next]_vars => (TypeOK /\ Places /\ Results)'
  <2> SUFFICES ASSUME TypeOK, Places, Results, [Next]_vars PROVE (TypeOK /\ Places /\ Results)'
    OBVIOUS
  <2>1. AtBarrier'
    BY AtBarrierStep DEF Places
  <2>2. TypeOK' /\ Places'
    BY <2>1, TypeStep, PlacesStep
  <2>3. program' = program
    BY DEF Next, MainStep, WorkerStep, Create, MainBarrier, Join, Sums, SearchAll, testseq,
           Begin, Operate, HandOver, TestInsert, TestEnd, Rouse, mainvars, vars
  <2>4. program' = "benchmark" => Counted'
    BY <2>2, <2>3, CountedStep DEF Results
  <2>5. program' = "testpar" => Inserted'
    BY <2>3, InsertedStep DEF Results
  <2>6. errors' = 0
    BY ErrorsStep
  <2> QED BY <2>2, <2>4, <2>5, <2>6 DEF Results
<1> QED BY <1>1, <1>2, PTL DEF Spec

\* What benchmark prints: the sums over the workers' hand-overs.
LEMMA SumsAgree ==
    ASSUME TypeOK, Places, Counted, program = "benchmark", main = "end"
    PROVE  /\ result.success[1] = Cardinality(tree) - num
           /\ result.counter[1] + result.counter[2] + result.counter[3] = threads * max_iter
<1> DEFINE handed(o) == [w \in Workers |-> args[w].counter[o]]
           sum(o) == SumFunctionOnSet(handed(o), Workers)
           two == [w \in Workers |-> args[w].counter[1] + args[w].counter[2]]
           all == [w \in Workers |-> max_iter]
<1>1. \A w \in Workers :
        /\ args[w] = [counter |-> counter[w], success |-> success[w]]
        /\ counter[w][1] + counter[w][2] + counter[w][3] = max_iter
    BY DEF Places, Counted
<1>2. \A f \in {"counter", "success"}, o \in 1..3 :
        result[f][o] = SumFunction([w \in Workers |-> args[w][f][o]])
  <2>1. {"counter", "success"} = DOMAIN NoArgs
    BY DEF NoArgs
  <2>2. \A f \in DOMAIN NoArgs, o \in 1..3 :
          result[f][o] = SumFunction([w \in Workers |-> args[w][f][o]])
    BY Zenon DEF Counted
  <2> QED BY ONLY <2>1, <2>2
<1>3. result.success[1] = SumFunction([w \in Workers |-> args[w].success[1]])
  <2>1. result["success"][1] = SumFunction([w \in Workers |-> args[w]["success"][1]])
    <3>1. "success" \in {"counter", "success"} /\ 1 \in 1..3
      OBVIOUS
    <3> QED BY ONLY Zenon, <1>2, <3>1
  <2> QED BY <2>1
<1>4. [w \in Workers |-> args[w].success[1]] = Effective
  <2>1. ASSUME NEW w \in Workers PROVE args[w].success[1] = success[w][1]
    <3>1. args[w] = [counter |-> counter[w], success |-> success[w]]
      BY <1>1
    <3> QED BY ONLY <3>1
  <2> QED BY ONLY <2>1 DEF Effective
<1>5. result.success[1] = Cardinality(tree) - num
    BY <1>3, <1>4 DEF Counted, Effective
<1>6. ASSUME NEW o \in 1..3 PROVE result.counter[o] = sum(o)
  <2>1. result["counter"][o] = SumFunction([w \in Workers |-> args[w]["counter"][o]])
    <3>1. "counter" \in {"counter", "success"}
      OBVIOUS
    <3> QED BY ONLY Zenon, <1>2, <3>1, o \in 1..3
  <2>2. SumFunction(handed(o)) = sum(o)
    BY DEF SumFunction
  <2> QED BY <2>1, <2>2
<1>7. \A w \in Workers, o \in 1..3 : handed(o)[w] = counter[w][o] /\ counter[w][o] \in Int
    BY <1>1 DEF TypeOK, Counts
<1>8. \A w \in Workers : /\ handed(1)[w] \in Int /\ handed(2)[w] \in Int
                         /\ two[w] = handed(1)[w] + handed(2)[w]
    BY <1>7
<1>9. \A w \in Workers : /\ two[w] \in Int /\ handed(3)[w] \in Int
                         /\ all[w] = two[w] + handed(3)[w]
  <2> SUFFICES ASSUME NEW w \in Workers
               PROVE  /\ two[w] \in Int /\ handed(3)[w] \in Int
                      /\ all[w] = two[w] + handed(3)[w]
    OBVIOUS
  <2>1. handed(1)[w] = counter[w][1] /\ handed(2)[w] = counter[w][2] /\ handed(3)[w] = counter[w][3]
    BY <1>7
  <2>2. counter[w][1] \in Int /\ counter[w][2] \in Int /\ counter[w][3] \in Int
    BY <1>7
  <2>3. two[w] = handed(1)[w] + handed(2)[w] /\ all[w] = max_iter
    BY <1>8
  <2>4. counter[w][1] + counter[w][2] + counter[w][3] = max_iter
    BY <1>1
  <2> HIDE DEF handed, two, all
  <2> QED BY ONLY <2>1, <2>2, <2>3, <2>4
<1>10. \A w \in Workers : all[w] = max_iter
    OBVIOUS
<1>11. \A o \in 1..3 : sum(o) \in Int
  <2> SUFFICES ASSUME NEW o \in 1..3 PROVE sum(o) \in Int
    OBVIOUS
  <2>1. \A w \in Workers : handed(o)[w] \in Int
    BY <1>7
  <2> HIDE DEF handed
  <2> QED BY <2>1, WorkersFinite, SumType
<1> HIDE DEF handed, two, all
<1>12. SumFunctionOnSet(two, Workers) = sum(1) + sum(2)
    BY ONLY <1>8, WorkersFinite, SumOfTwo
<1>13. SumFunctionOnSet(all, Workers) = SumFunctionOnSet(two, Workers) + sum(3)
    BY ONLY <1>9, WorkersFinite, SumOfTwo
<1>14. SumFunctionOnSet(all, Workers) = threads * max_iter
  <2>1. max_iter \in Int
    BY Iterations
  <2>2. SumFunctionOnSet(all, Workers) = Cardinality(Workers) * max_iter
    BY ONLY <1>10, <2>1, WorkersFinite, SumConstant
  <2> QED BY <2>2, WorkersFinite
<1>15. result.counter[1] = sum(1) /\ result.counter[2] = sum(2) /\ result.counter[3] = sum(3)
    BY <1>6
<1>16. sum(1) + sum(2) + sum(3) = threads * max_iter
    BY <1>12, <1>13, <1>14
<1> QED BY <1>5, <1>15, <1>16

-------------------------------------------------------------------------------
(* The theorems *)

\* Type correctness of bench.c's programs: no count of the barrier, loop variable or
\* sum leaves its range, and main joins threads that it has created.
THEOREM TypeCorrect == Spec => []TypeOK
<1> QED BY BenchAlways, PTL

\* What benchmark and testpar print of the insertions and of the attempts is true, for
\* every number of threads and iterations: no effective insertion is lost or counted
\* twice in the sums over the threads, and the parts of do_test are all of the keys,
\* what the division leaves over included.
THEOREM ResultsTrue == Spec => []ResultsAgree
<1>1. TypeOK /\ Places /\ Results => ResultsAgree
    BY SumsAgree DEF ResultsAgree, Results, Counted
<1> QED BY <1>1, BenchAlways, PTL

\* No thread begins to measure, and main does not start its clock, before all of
\* them have come to the barrier, unless a spurious wakeup lets it through (barrier.c
\* 36-53, bench.c 184, 502 and 548): for every number of threads, the early ones are
\* among those whom the system has roused.
THEOREM EarlyOnesWereRoused == Spec => []EarlyOnlyRoused
<1>1. AtBarrier => EarlyOnlyRoused
    BY DEF AtBarrier, BInv, EarlyOnlyRoused
<1> QED BY <1>1, AtBarrierStart, AtBarrierStep, PTL DEF Spec
==============================================================================
