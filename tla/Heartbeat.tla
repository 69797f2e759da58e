------------------------------ MODULE Heartbeat ------------------------------
(***************************************************************************)
(* The heartbeats of gps.c (the same code is in baseline.c).  db_new makes *)
(* the heart and starts a timer thread that beats it; built with USE_POET, *)
(* db_put and db_get beat it too, once for each job, with a count that     *)
(* they share without a lock; db_free stops and joins the timer thread     *)
(* before it frees the heart.                                              *)
(***************************************************************************)
EXTENDS Integers

CONSTANTS
    Clients,   \* the threads that call db_put and db_get
    USE_HB,    \* the two macros of gps.c 20-22
    USE_POET

\* What the README says may be run: heartbeats alone, or with POET, or neither.
ASSUME MacrosAssumption ==
    USE_HB \in BOOLEAN /\ USE_POET \in BOOLEAN /\ (USE_POET => USE_HB)

VARIABLES
    heart,           \* "none", "live", or "finished" when it has been freed
    stop_heartbeat,
    timer,           \* where the timer thread is
    heartbeatcount,
    job,             \* how far a client has counted its job
    reg              \* the value of heartbeatcount that it adds 1 to

hbvars == <<heart, stop_heartbeat, timer, heartbeatcount, job, reg>>

HbStart ==
    /\ heart = "none"
    /\ stop_heartbeat = FALSE
    /\ timer = "off"
    /\ heartbeatcount = 0
    /\ job = [c \in Clients |-> "none"]
    /\ reg = [c \in Clients |-> 0]

\* hb_poet_init; an environment it cannot work with ends the program.
hb_poet_init ==
    /\ heart' = "live"
    /\ UNCHANGED <<stop_heartbeat, heartbeatcount, job, reg>>

\* db_new, with USE_HB: the timer thread begins when the heart is there.
HbNew ==
    IF USE_HB THEN hb_poet_init /\ timer' = "while" ELSE UNCHANGED hbvars

\* while(!stop_heartbeat)
TimerTest ==
    /\ timer = "while"
    /\ timer' = IF stop_heartbeat THEN "ended" ELSE "beat"
    /\ UNCHANGED <<heart, stop_heartbeat, heartbeatcount, job, reg>>

\* heartbeat_acc, poet_apply_control and usleep.
TimerBeat ==
    /\ timer = "beat"
    /\ timer' = "while"
    /\ UNCHANGED <<heart, stop_heartbeat, heartbeatcount, job, reg>>

\* A job is counted: heartbeatcount += 1 is a load and a store.
JobLoad(c) ==
    /\ job[c] = "none"
    /\ reg' = [reg EXCEPT ![c] = heartbeatcount]
    /\ job' = [job EXCEPT ![c] = "beat"]
    /\ UNCHANGED <<heart, stop_heartbeat, timer, heartbeatcount>>

\* Mutant of JobBeat: the job is counted twice.
JobBeatTwice(c) ==
    /\ job[c] = "beat"
    /\ heartbeatcount' = reg[c] + 2
    /\ job' = [job EXCEPT ![c] = "counted"]
    /\ UNCHANGED <<heart, stop_heartbeat, timer, reg>>

\* The store, heartbeat_acc (its argument is not kept) and poet_apply_control.
JobBeat(c) ==
    /\ job[c] = "beat"
    /\ heartbeatcount' = reg[c] + 1
    /\ job' = [job EXCEPT ![c] = "counted"]
    /\ UNCHANGED <<heart, stop_heartbeat, timer, reg>>

\* db_put or db_get returns.
JobReturn(c) ==
    /\ job[c] = IF USE_POET THEN "counted" ELSE "none"
    /\ job' = [job EXCEPT ![c] = "none"]
    /\ reg' = [reg EXCEPT ![c] = 0]
    /\ UNCHANGED <<heart, stop_heartbeat, timer, heartbeatcount>>

\* db_free, the two steps of it with USE_HB.
FreeStop ==
    /\ stop_heartbeat' = USE_HB
    /\ UNCHANGED <<heart, timer, heartbeatcount, job, reg>>

\* Mutant of FreeJoin: the timer thread is not waited for.
FreeJoinNot ==
    /\ heart' = IF USE_HB THEN "finished" ELSE heart
    /\ UNCHANGED <<stop_heartbeat, timer, heartbeatcount, job, reg>>

\* pthread_join, then hb_poet_finish frees the heart.
FreeJoin ==
    /\ USE_HB => timer = "ended"
    /\ heart' = IF USE_HB THEN "finished" ELSE heart
    /\ UNCHANGED <<stop_heartbeat, timer, heartbeatcount, job, reg>>

-------------------------------------------------------------------------------
(* Properties *)

HbTypeOK ==
    /\ heart \in {"none", "live", "finished"}
    /\ stop_heartbeat \in BOOLEAN
    /\ timer \in {"off", "while", "beat", "ended"}
    /\ heartbeatcount \in Nat
    /\ job \in [Clients -> {"none", "beat", "counted"}]
    /\ reg \in [Clients -> Nat]

\* A heart that is beaten, by the timer thread or for a job, has been made and not
\* yet freed: db_free comes when the clients have ended, and joins the timer thread.
HeartAlive ==
    /\ timer = "beat" => heart = "live"
    /\ \A c \in Clients : job[c] = "beat" => heart = "live"
==============================================================================
