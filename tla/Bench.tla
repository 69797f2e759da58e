-------------------------------- MODULE Bench --------------------------------
(***************************************************************************)
(* common/bench.c: the programs that measure and test a tree, here the     *)
(* static one of SVEB/main.c.  benchmark runs random operations on several *)
(* threads and adds up what they attempted and effected; testpar cuts a    *)
(* list of keys into parts that the threads insert, and then searches all; *)
(* testseq, which is called after it, does the same without threads.       *)
(* The tree is the set of its keys: an insertion takes effect in one step, *)
(* as the global lock makes it (how it does is Sveb); what a search or a   *)
(* delete answers is read after the unlock, and may be anything while      *)
(* others insert.  Times are left out.                                     *)
(***************************************************************************)
EXTENDS Barrier, Functions, FiniteSetsExt

CONSTANTS
    threads,    \* how many
    Main,       \* the thread that creates them
    MAXITER,
    MAX_POOL,
    ins, del,   \* the shares of inserts and deletes, in percent
    range,      \* the keys of benchmark are 1..range
    num         \* how many of them initial_add puts into the tree

Workers == 0..(threads - 1)

ASSUME ThreadsAssumption == threads \in Nat \ {0} /\ Main \notin Workers

ASSUME IterationsAssumption == MAXITER \in Nat /\ MAX_POOL \in Nat

ASSUME SharesAssumption == ins \in Nat /\ del \in Nat /\ ins + del <= 100

\* (If num were larger initial_add would look for new keys for ever.)
ASSUME RangeAssumption == range \in Nat \ {0} /\ num \in 0..range

\* prepare_randintp: 1 is an insert, 2 a delete, 3 a search.  Each loop runs while
\* its counter is below a fraction, so a share is rounded up.
Share(percent) == (percent * MAX_POOL + 99) \div 100

p_pool == [k \in 1..MAX_POOL |->
    IF k <= Share(ins) THEN 1 ELSE IF k <= Share(ins) + Share(del) THEN 2 ELSE 3]

\* ceil(MAXITER / threads): the division is one of integers, and rounds down first.
max_iter == MAXITER \div threads

VARIABLES
    program,  \* what main runs: "benchmark", or "testpar" and then testseq
    main,     \* where main is
    n,        \* its loop variable
    tree,     \* the keys
    pc,       \* where each worker is
    cont,     \* its loop variable: operations done, or the place in bulk
    counter, success,  \* what it attempted and effected, by kind of operation
    args,     \* these two, as it hands them over at its end
    result,   \* their sums
    bulk,     \* the keys that testpar inserts
    errors    \* how many of them it does not find

vars == <<program, main, n, tree, pc, cont, counter, success, args, result, bulk,
          errors, bvars>>

Zero == [op \in 1..3 |-> 0]
NoArgs == [counter |-> Zero, success |-> Zero]

\* Mutant of TripCount: testpar's own wait is forgotten.
TripCountThreads(prog) == threads

\* pthread_barrier_init: in testpar main waits as well.
TripCount(prog) == IF prog = "benchmark" THEN threads ELSE threads + 1

Participants(prog) == IF prog = "benchmark" THEN Workers ELSE Workers \cup {Main}

\* randomize_array makes any permutation of 1..MAXITER.
Bulks == Injection(0..(MAXITER - 1), 1..MAXITER)

\* main has filled the tree (initial_add), and prepared the barrier and the threads'
\* arguments.
Init ==
    /\ program \in {"benchmark", "testpar"}
    /\ tree \in IF program = "benchmark" THEN kSubset(num, 1..range) ELSE {{}}
    /\ bulk \in IF program = "benchmark" THEN {<<>>} ELSE Bulks
    /\ BarrierInit(Participants(program), TripCount(program))
    /\ main = "create"
    /\ n = 0
    /\ pc = [w \in Workers |-> "off"]
    /\ cont = [w \in Workers |-> 0]
    /\ counter = [w \in Workers |-> Zero]
    /\ success = [w \in Workers |-> Zero]
    /\ args = [w \in Workers |-> NoArgs]
    /\ result = NoArgs
    /\ errors = 0

Goto(w, label) == pc' = [pc EXCEPT ![w] = label]

mainvars == <<program, main, n, result, bulk, errors>>
counts == <<counter, success, args>>

-------------------------------------------------------------------------------
(* The workers: do_bench and do_test *)

\* A worker that has been created waits at the barrier first.
Begin(w) ==
    /\ pc[w] = "barrier"
    /\ BarrierWait(w)
    /\ IF at'[w] = "past" THEN Goto(w, "loop") ELSE UNCHANGED pc
    /\ UNCHANGED <<tree, cont, counts, mainvars>>

\* What the three operations of the static tree may return.  Its delete is a search,
\* and a search reads val[it] when it has released the lock: a worker that is not the
\* only one may find there what the insertions of others have moved in or away.
Effects(op, key) ==
    IF op = 1 THEN {key \notin tree} ELSE IF threads = 1 THEN {key \in tree} ELSE BOOLEAN

\* One turn of do_bench's loop.
Operate(w) ==
    /\ program = "benchmark" /\ pc[w] = "loop" /\ cont[w] < max_iter
    /\ \E k \in 1..MAX_POOL, key \in 1..range :
        LET op == p_pool[k] IN
        \E effect \in Effects(op, key) :
            /\ tree' = IF op = 1 THEN tree \cup {key} ELSE tree
            /\ counter' = [counter EXCEPT ![w][op] = @ + 1]
            /\ success' = [success EXCEPT ![w][op] = @ + IF effect THEN 1 ELSE 0]
    /\ cont' = [cont EXCEPT ![w] = @ + 1]
    /\ UNCHANGED <<pc, args, mainvars, bvars>>

\* The end of do_bench.
HandOver(w) ==
    /\ program = "benchmark" /\ pc[w] = "loop" /\ cont[w] >= max_iter
    /\ args' = [args EXCEPT ![w] = [counter |-> counter[w], success |-> success[w]]]
    /\ Goto(w, "done")
    /\ UNCHANGED <<tree, cont, counter, success, mainvars, bvars>>

\* The part of worker w; the last one takes the rest.
start(w) == (MAXITER \div threads) * w

\* Mutant of end: it does not.
EndShort(w) == start(w) + MAXITER \div threads

end(w) == IF w = threads - 1 THEN MAXITER ELSE start(w) + MAXITER \div threads

\* One turn of do_test's loop.
TestInsert(w) ==
    /\ program = "testpar" /\ pc[w] = "loop" /\ start(w) + cont[w] < end(w)
    /\ tree' = tree \cup {bulk[start(w) + cont[w]]}
    /\ cont' = [cont EXCEPT ![w] = @ + 1]
    /\ UNCHANGED <<pc, counts, mainvars, bvars>>

TestEnd(w) ==
    /\ program = "testpar" /\ pc[w] = "loop" /\ start(w) + cont[w] >= end(w)
    /\ Goto(w, "done")
    /\ UNCHANGED <<tree, cont, counts, mainvars, bvars>>

WorkerStep(w) == Begin(w) \/ Operate(w) \/ HandOver(w) \/ TestInsert(w) \/ TestEnd(w)

-------------------------------------------------------------------------------
(* main: benchmark, testpar *)

Create ==
    /\ main = "create"
    /\ Goto(n, "barrier")
    /\ n' = (n + 1) % threads
    /\ main' = IF n + 1 < threads THEN "create"
               ELSE IF program = "benchmark" THEN "join" ELSE "barrier"
    /\ UNCHANGED <<program, tree, cont, counts, result, bulk, errors, bvars>>

\* testpar starts its clock at the barrier.
MainBarrier ==
    /\ main = "barrier"
    /\ BarrierWait(Main)
    /\ main' = IF at'[Main] = "past" THEN "join" ELSE "barrier"
    /\ UNCHANGED <<program, n, tree, pc, cont, counts, result, bulk, errors>>

Join ==
    /\ main = "join"
    /\ pc[n] = "done"
    /\ n' = (n + 1) % threads
    /\ main' = IF n + 1 < threads THEN "join" ELSE "joined"
    /\ UNCHANGED <<program, tree, pc, cont, counts, result, bulk, errors, bvars>>

\* benchmark adds up what the threads handed over.
Sums ==
    /\ main = "joined" /\ program = "benchmark"
    /\ result' = [f \in DOMAIN NoArgs |->
            [op \in 1..3 |-> SumFunction([w \in Workers |-> args[w][f][op]])]]
    /\ main' = "end"
    /\ UNCHANGED <<program, n, tree, pc, cont, counts, bulk, errors, bvars>>

\* testpar searches all keys.
SearchAll ==
    /\ main = "joined" /\ program = "testpar"
    /\ errors' = Cardinality({k \in DOMAIN bulk : bulk[k] \notin tree})
    /\ main' = "testseq"
    /\ UNCHANGED <<program, n, tree, pc, cont, counts, result, bulk, bvars>>

\* main alone inserts the keys in another order, and searches them again.
testseq ==
    /\ main = "testseq"
    /\ \E values \in Bulks :
        /\ tree' = tree \cup {values[k] : k \in DOMAIN values}
        /\ errors' = errors + Cardinality({k \in DOMAIN values : values[k] \notin tree'})
    /\ main' = "end"
    /\ UNCHANGED <<program, n, pc, cont, counts, result, bulk, bvars>>

MainStep == Create \/ MainBarrier \/ Join \/ Sums \/ SearchAll \/ testseq

\* A wakeup that the system makes, on which nobody can count.
Rouse ==
    /\ \E p \in DOMAIN at : SpuriousWake(p)
    /\ UNCHANGED <<tree, pc, cont, counts, mainvars>>

Next == MainStep \/ (\E w \in Workers : WorkerStep(w)) \/ Rouse

Spec == Init /\ [][Next]_vars

\* No thread that can run is starved.
Fairness == WF_vars(MainStep) /\ \A w \in Workers : WF_vars(WorkerStep(w))

FairSpec == Spec /\ Fairness

-------------------------------------------------------------------------------
(* Properties *)

Counts == [1..3 -> Nat]

\* Type invariant; main waits for workers that it has created.
TypeOK ==
    /\ BarrierTypeOK
    /\ program \in {"benchmark", "testpar"}
    /\ main \in {"create", "barrier", "join", "joined", "testseq", "end"}
    /\ n \in Workers
    /\ tree \subseteq (1..range \cup 1..MAXITER)
    /\ pc \in [Workers -> {"off", "barrier", "loop", "done"}]
    /\ cont \in [Workers -> 0..MAXITER]
    /\ counter \in [Workers -> Counts] /\ success \in [Workers -> Counts]
    /\ args \in [Workers -> [counter : Counts, success : Counts]]
    /\ result \in [counter : Counts, success : Counts]
    /\ errors \in Nat
    /\ \A w \in Workers : pc[w] = "off" => main = "create" /\ n <= w

\* What is printed of the insertions and of the attempts is true: each key that an
\* insertion added to the tree was counted by one thread as an effective insertion, and
\* by one only; the attempts are all the turns of all the threads; and testpar, whose
\* threads divide the keys among them, finds every key.  (Of the effective searches and
\* deletes of several threads nothing can be said.)
ResultsAgree ==
    /\ program = "benchmark" =>
        SumFunction([w \in Workers |-> success[w][1]]) = Cardinality(tree) - num
    /\ program = "benchmark" /\ main = "end" =>
        /\ result.success[1] = Cardinality(tree) - num
        /\ result.counter[1] + result.counter[2] + result.counter[3] = threads * max_iter
    /\ errors = 0

\* Every program comes to its end: nobody is left behind at the barrier.
Ends == <>(main = "end")

\* The inductive invariant.  Who waits at the barrier ...
AtBarrier ==
    /\ BInv
    /\ DOMAIN at = Participants(program)
    /\ main = "barrier" => program # "benchmark"

\* ... and what main's place in the program says about the workers.
Places ==
    /\ AtBarrier
    /\ main = "barrier" => n = 0
    /\ main = "testseq" => program = "testpar"
    /\ program = "testpar" => bulk \in Bulks
    /\ \A w \in Workers :
          main \in {"joined", "testseq", "end"} \/ (main = "join" /\ w < n) => pc[w] = "done"

\* benchmark: what the workers have counted, what those at their end have handed over,
\* and what the keys in the tree say of it.
Counted ==
    /\ \A w \in Workers :
        /\ counter[w][1] + counter[w][2] + counter[w][3] = cont[w]
        /\ cont[w] <= max_iter
        /\ pc[w] = "done" =>
              /\ cont[w] = max_iter
              /\ args[w] = [counter |-> counter[w], success |-> success[w]]
    /\ SumFunction([w \in Workers |-> success[w][1]]) = Cardinality(tree) - num
    /\ main = "end" =>
          \A f \in DOMAIN NoArgs, op \in 1..3 :
              result[f][op] = SumFunction([w \in Workers |-> args[w][f][op]])

\* testpar: each worker's part is in the tree as far as the worker has come.
Inserted ==
    \A w \in Workers :
        /\ start(w) + cont[w] <= end(w)
        /\ \A k \in start(w)..(start(w) + cont[w] - 1) : bulk[k] \in tree
        /\ pc[w] = "done" => start(w) + cont[w] = end(w)

Results ==
    /\ program = "benchmark" => Counted
    /\ program = "testpar" => Inserted
    /\ errors = 0
==============================================================================
