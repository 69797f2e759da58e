------------------------------- MODULE Barrier -------------------------------
(***************************************************************************)
(* common/barrier.c, the thread barrier that the benchmarks bring along    *)
(* where the system has none.  A barrier is passed once in a benchmark.    *)
(* Its count is only touched under its mutex, so what pthread_barrier_wait *)
(* does up to its wait or its return is one step.                          *)
(***************************************************************************)
EXTENDS Integers, FiniteSets

VARIABLES
    tripCount,
    count,
    at,     \* "before" the barrier, in its "wait", "woken", or "past" it
    roused  \* history: those whom nobody woke, but the system (a spurious wakeup)

bvars == <<tripCount, count, at, roused>>

Waiting == {p \in DOMAIN at : at[p] = "wait"}

\* pthread_barrier_init, for those who will take part.
BarrierInit(threads, n) ==
    /\ tripCount = n
    /\ count = 0
    /\ at = [p \in threads |-> "before"]
    /\ roused = {}

\* Mutant of WaitLast: the count is left as it is.
WaitLastKept(p) ==
    /\ at[p] = "before"
    /\ count + 1 >= tripCount
    /\ count' = count + 1
    /\ at' = [q \in DOMAIN at |->
                 IF q = p THEN "past" ELSE IF at[q] = "wait" THEN "woken" ELSE at[q]]
    /\ UNCHANGED <<tripCount, roused>>

\* Mutant of WaitLast: pthread_cond_signal, which wakes one of them.
WaitLastSignal(p) ==
    /\ at[p] = "before"
    /\ count + 1 >= tripCount
    /\ count' = 0
    /\ \E woken \in IF Waiting = {} THEN {p} ELSE Waiting :
        at' = [at EXCEPT ![woken] = "woken", ![p] = "past"]
    /\ UNCHANGED <<tripCount, roused>>

\* The last one wakes all that wait, and goes on.
WaitLast(p) ==
    /\ at[p] = "before"
    /\ count + 1 >= tripCount
    /\ count' = 0
    /\ at' = [q \in DOMAIN at |->
                 IF q = p THEN "past" ELSE IF at[q] = "wait" THEN "woken" ELSE at[q]]
    /\ UNCHANGED <<tripCount, roused>>

\* pthread_cond_wait, without a loop.
WaitCond(p) ==
    /\ at[p] = "before"
    /\ count + 1 < tripCount
    /\ count' = count + 1
    /\ at' = [at EXCEPT ![p] = "wait"]
    /\ UNCHANGED <<tripCount, roused>>

\* pthread_cond_wait has the mutex again, and returns.
WaitReturn(p) ==
    /\ at[p] = "woken"
    /\ at' = [at EXCEPT ![p] = "past"]
    /\ UNCHANGED <<tripCount, count, roused>>

\* pthread_cond_wait may return unwoken.  There is no loop around it, so that the
\* participant goes on all the same.
SpuriousWake(p) ==
    /\ at[p] = "wait"
    /\ at' = [at EXCEPT ![p] = "woken"]
    /\ roused' = roused \cup {p}
    /\ UNCHANGED <<tripCount, count>>

BarrierWait(p) == WaitLast(p) \/ WaitCond(p) \/ WaitReturn(p)

-------------------------------------------------------------------------------
(* Properties *)

BarrierTypeOK ==
    /\ tripCount \in Nat
    /\ count \in 0..(tripCount - 1)
    /\ \A p \in DOMAIN at : at[p] \in {"before", "wait", "woken", "past"}
    /\ roused \subseteq DOMAIN at

\* Nobody passes the barrier before everybody who takes part has come to it, but for
\* those whom a spurious wakeup has roused: barrier.c 49 waits once, without a loop.
EarlyOnlyRoused ==
    \/ \A p \in DOMAIN at : at[p] # "before"
    \/ \A p \in DOMAIN at : at[p] = "past" => p \in roused

Come == {p \in DOMAIN at : at[p] # "before"}

\* The inductive invariant: until the last one comes the count is that of those who
\* have come, and only the roused are awake; from then on nobody sleeps.
BInv ==
    /\ IsFiniteSet(DOMAIN at) /\ tripCount = Cardinality(DOMAIN at)
    /\ BarrierTypeOK
    /\ \/ /\ count = Cardinality(Come)
          /\ \A p \in DOMAIN at : at[p] \in {"woken", "past"} => p \in roused
       \/ /\ count = 0
          /\ \A p \in DOMAIN at : at[p] \in {"woken", "past"}
==============================================================================
