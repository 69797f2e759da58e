----------------------------- MODULE BenchClient -----------------------------
(***************************************************************************)
(* benchmark/bench_client.c: main cuts a trace of queries into one part    *)
(* for each client thread, the clients run their parts against the store   *)
(* over and over until an alarm sets `stop', and main joins them one after *)
(* the other and adds up their counters.  The store is KVStore, which Gps  *)
(* and Shm implement, with the heartbeats of its build.  Times and what is *)
(* printed are left out.                                                   *)
(***************************************************************************)
EXTENDS Heartbeat, FiniteSets, Functions

CONSTANTS
    num_threads,
    num_queries,
    Keys,      \* what bintointhash makes of the trace's keys
    Traces,    \* the contents the trace file may have
    Seconds,   \* duration, as alarm takes it: whole seconds, 0 for no alarm
    MaxRounds, \* a bound: how often a client goes through its part
    OP_ADD, OP_READ, NoCall

ASSUME ThreadsAssumption ==
    num_threads \in Nat \ {0} /\ Clients = 0..(num_threads - 1)

ASSUME SecondsAssumption == Seconds \in Nat

\* bintointhash starts from a variable that is not initialised, and returns -1 at once
\* if it happens to hold UINT64_MAX; otherwise all of it is shifted out.
IntKeys == Keys \cup {-1}

Types == {"put", "get", "del"}

ASSUME TracesAssumption ==
    /\ num_queries \in Nat
    /\ Traces \subseteq [0..(num_queries - 1) -> [type : Types, key : Keys]]

ASSUME OperationsAssumption == OP_ADD # OP_READ

ASSUME NoCallAssumption == NoCall \notin [type : {OP_ADD, OP_READ}, key : IntKeys]

\* The queries of one client; what the division leaves over is never run.
num_ops == num_queries \div num_threads

VARIABLES
    queries,     \* what queries_init read; num_queries of them
    intqueries,  \* each client's converted keys
    stop,
    alarm,       \* "off", "set" or "rung"
    main,        \* where main is
    t,           \* its loop variable: threads created, threads joined
    result,      \* the totals
    tp,          \* the counters of each client
    pc,          \* where each client is
    i,           \* its loop variable
    store, call, res  \* those of KVStore

kvars == <<store, call, res>>
mainvars == <<alarm, main, t, result>>
vars == <<queries, intqueries, stop, tp, pc, i, mainvars, kvars, hbvars>>

KV == INSTANCE KVStore WITH Keys <- IntKeys

Goto(c, label) == pc' = [pc EXCEPT ![c] = label]

NoCounts == [num_puts |-> 0, num_gets |-> 0, num_miss |-> 0, num_hits |-> 0]

\* Query n of client c: tp[c].queries points c * num_ops behind the first.
Query(c, n) == queries[c * num_ops + n]

\* queries_init has read the file.
Init ==
    /\ queries \in Traces
    /\ intqueries = [c \in Clients |-> [n \in 0..(num_ops - 1) |-> -1]]
    /\ stop = FALSE
    /\ alarm = "off"
    /\ main = "db_new"
    /\ t = 0
    /\ result = NoCounts
    /\ tp = [c \in Clients |-> NoCounts]
    /\ pc = [c \in Clients |-> "off"]
    /\ i = [c \in Clients |-> 0]
    /\ KV!Init
    /\ HbStart

-------------------------------------------------------------------------------
(* queries_exec, the client threads *)

\* The keys are converted.
Convert(c) ==
    /\ pc[c] = "convert"
    /\ \E keys \in [0..(num_ops - 1) -> IntKeys] :
        /\ \A n \in DOMAIN keys : keys[n] \in {Query(c, n).key, -1}
        /\ intqueries' = [intqueries EXCEPT ![c] = keys]
    /\ Goto(c, "while")
    /\ UNCHANGED <<queries, stop, tp, i, mainvars, kvars, hbvars>>

\* while (!stop).  A client that MaxRounds holds back waits for the alarm.
While(c) ==
    /\ pc[c] = "while"
    /\ stop \/ tp[c].num_puts + tp[c].num_gets < MaxRounds * num_ops
    /\ i' = [i EXCEPT ![c] = 0]
    /\ Goto(c, IF stop THEN "done" ELSE IF num_ops = 0 THEN "while" ELSE "op")
    /\ UNCHANGED <<queries, intqueries, stop, tp, mainvars, kvars, hbvars>>

\* The client calls db_put or db_get with its i-th key.
DbCall(c, type, label) ==
    /\ KV!Invoke(c)
    /\ call'[c] = [type |-> type, key |-> intqueries[c][i[c]]]
    /\ Goto(c, label)
    /\ UNCHANGED <<queries, intqueries, stop, tp, i, mainvars, hbvars>>

Op(c) ==
    /\ pc[c] = "op"
    /\ \/ Query(c, i[c]).type = "put" /\ DbCall(c, OP_ADD, "put")
       \/ Query(c, i[c]).type = "get" /\ DbCall(c, OP_READ, "get")

\* A query of any other type is reported on stderr.
OpUnknown(c) ==
    /\ pc[c] = "op"
    /\ Query(c, i[c]).type = "del"
    /\ Goto(c, "test")
    /\ UNCHANGED <<queries, intqueries, stop, tp, i, mainvars, kvars, hbvars>>

\* Inside db_put and db_get: the operation takes effect, and is counted.
Perform(c) ==
    /\ KV!Put(c) \/ KV!Get(c)
    /\ UNCHANGED <<queries, intqueries, stop, tp, pc, i, mainvars, hbvars>>

CountJob(c) ==
    /\ USE_POET
    /\ res[c] # 0
    /\ JobLoad(c) \/ JobBeat(c)
    /\ UNCHANGED <<queries, intqueries, stop, tp, pc, i, mainvars, kvars>>

DbReturn(c) ==
    /\ KV!Return(c)
    /\ JobReturn(c)
    /\ UNCHANGED <<queries, intqueries, stop, i, mainvars>>

PutReturns(c) ==
    /\ pc[c] = "put"
    /\ DbReturn(c)
    /\ tp' = [tp EXCEPT ![c].num_puts = @ + 1]
    /\ Goto(c, "test")

\* Mutant of GetMisses: the put that fills the miss is forgotten.
GetMissesOnly(c) ==
    /\ pc[c] = "get"
    /\ res[c] = 1
    /\ DbReturn(c)
    /\ tp' = [tp EXCEPT ![c].num_gets = @ + 1, ![c].num_miss = @ + 1]
    /\ Goto(c, "test")

\* db_get returned NULL.
GetMisses(c) ==
    /\ pc[c] = "get"
    /\ res[c] = 1
    /\ DbReturn(c)
    /\ tp' = [tp EXCEPT ![c].num_gets = @ + 1, ![c].num_miss = @ + 1]
    /\ Goto(c, "miss")

GetHits(c) ==
    /\ pc[c] = "get"
    /\ res[c] = 2
    /\ DbReturn(c)
    /\ tp' = [tp EXCEPT ![c].num_gets = @ + 1, ![c].num_hits = @ + 1]
    /\ Goto(c, "test")

\* The put that follows a miss; num_puts does not count it.
Refill(c) == pc[c] = "miss" /\ DbCall(c, OP_ADD, "refill")

RefillReturns(c) ==
    /\ pc[c] = "refill"
    /\ DbReturn(c)
    /\ Goto(c, "test")
    /\ UNCHANGED tp

\* Mutant of Test: the loop runs one query too far.
TestOneMore(c) ==
    /\ pc[c] = "test"
    /\ i' = [i EXCEPT ![c] = @ + 1]
    /\ Goto(c, IF stop \/ i[c] + 1 > num_ops THEN "while" ELSE "op")
    /\ UNCHANGED <<queries, intqueries, stop, tp, mainvars, kvars, hbvars>>

\* if (stop) break; and the next turn of the loop.
Test(c) ==
    /\ pc[c] = "test"
    /\ i' = [i EXCEPT ![c] = @ + 1]
    /\ Goto(c, IF stop \/ i[c] + 1 >= num_ops THEN "while" ELSE "op")
    /\ UNCHANGED <<queries, intqueries, stop, tp, mainvars, kvars, hbvars>>

ClientStep(c) ==
    \/ Convert(c) \/ While(c) \/ Op(c) \/ OpUnknown(c) \/ Perform(c) \/ CountJob(c)
    \/ PutReturns(c) \/ GetMisses(c) \/ GetHits(c) \/ Refill(c) \/ RefillReturns(c)
    \/ Test(c)

-------------------------------------------------------------------------------
(* main *)

AtMain(label) ==
    /\ main = label
    /\ UNCHANGED <<queries, intqueries, tp, i, kvars>>

DbNew ==
    /\ AtMain("db_new")
    /\ HbNew
    /\ main' = "create"
    /\ UNCHANGED <<stop, alarm, t, result, pc>>

\* One turn of the loop that creates the threads; the last one starts the alarm.
Create ==
    /\ AtMain("create")
    /\ Goto(t, "convert")
    /\ t' = t + 1
    /\ main' = IF t' = num_threads THEN "alarm" ELSE "create"
    /\ UNCHANGED <<stop, alarm, result, hbvars>>

\* Mutant of SetAlarm: t is not reset for the second loop.
SetAlarmKept ==
    /\ AtMain("alarm")
    /\ alarm' = IF Seconds > 0 THEN "set" ELSE "off"
    /\ main' = "join"
    /\ UNCHANGED <<stop, t, result, pc, hbvars>>

\* signal and alarm(duration).
SetAlarm ==
    /\ AtMain("alarm")
    /\ alarm' = IF Seconds > 0 THEN "set" ELSE "off"
    /\ t' = 0
    /\ main' = "join"
    /\ UNCHANGED <<stop, result, pc, hbvars>>

\* Mutant of Join: the totals are taken of thread t without waiting for it.
JoinBusy ==
    /\ AtMain("join")
    /\ result' = [f \in DOMAIN NoCounts |-> result[f] + tp[t][f]]
    /\ t' = t + 1
    /\ main' = IF t' = num_threads THEN "joined" ELSE "join"
    /\ UNCHANGED <<stop, alarm, pc, hbvars>>

\* Mutant of Join: stop is taken back when the first thread has ended.
JoinResets ==
    /\ AtMain("join")
    /\ pc[t] = "done"
    /\ result' = [f \in DOMAIN NoCounts |-> result[f] + tp[t][f]]
    /\ stop' = FALSE
    /\ t' = t + 1
    /\ main' = IF t' = num_threads THEN "joined" ELSE "join"
    /\ UNCHANGED <<alarm, pc, hbvars>>

\* One turn of the loop that joins the threads and adds up their counters.
Join ==
    /\ AtMain("join")
    /\ pc[t] = "done"
    /\ result' = [f \in DOMAIN NoCounts |-> result[f] + tp[t][f]]
    /\ t' = t + 1
    /\ main' = IF t' = num_threads THEN "joined" ELSE "join"
    /\ UNCHANGED <<stop, alarm, pc, hbvars>>

\* stop = 0, and db_free.
DbFree ==
    /\ AtMain("joined")
    /\ stop' = FALSE
    /\ FreeStop
    /\ main' = "free"
    /\ UNCHANGED <<alarm, t, result, pc>>

DbFreed ==
    /\ AtMain("free")
    /\ FreeJoin
    /\ main' = "bye"
    /\ UNCHANGED <<stop, alarm, t, result, pc>>

MainStep == DbNew \/ Create \/ SetAlarm \/ Join \/ DbFree \/ DbFreed

\* SIGALRM: trigger.
Trigger ==
    /\ alarm = "set"
    /\ alarm' = "rung"
    /\ stop' = TRUE
    /\ UNCHANGED <<queries, intqueries, main, t, result, tp, pc, i, kvars, hbvars>>

Timer ==
    /\ TimerTest \/ TimerBeat
    /\ UNCHANGED <<queries, intqueries, stop, mainvars, tp, pc, i, kvars>>

Next ==
    \/ MainStep
    \/ Trigger
    \/ Timer
    \/ \E c \in Clients : ClientStep(c)

Spec == Init /\ [][Next]_vars

\* No thread that can run is starved, and the alarm rings.
Fairness ==
    /\ WF_vars(MainStep) /\ WF_vars(Trigger) /\ WF_vars(Timer)
    /\ \A c \in Clients : WF_vars(ClientStep(c))

FairSpec == Spec /\ Fairness

-------------------------------------------------------------------------------
(* Properties *)

Labels == {"off", "convert", "while", "op", "put", "get", "miss", "refill", "test", "done"}

\* Type invariant; a client is in the store where its loop says so, and main waits
\* for clients that it has created.
TypeOK ==
    /\ HbTypeOK
    /\ queries \in Traces
    /\ intqueries \in [Clients -> [0..(num_ops - 1) -> IntKeys]]
    /\ stop \in BOOLEAN
    /\ alarm \in {"off", "set", "rung"}
    /\ main \in {"db_new", "create", "alarm", "join", "joined", "free", "bye"}
    /\ t \in 0..num_threads
    /\ main \in {"create", "join"} => t < num_threads
    /\ result \in [DOMAIN NoCounts -> Nat]
    /\ tp \in [Clients -> [DOMAIN NoCounts -> Nat]]
    /\ pc \in [Clients -> Labels]
    /\ i \in [Clients -> 0..num_ops]
    /\ store \subseteq IntKeys
    /\ res \in [Clients -> 0..2]
    /\ call \in [Clients -> [type : {OP_ADD, OP_READ}, key : IntKeys] \cup {NoCall}]
    /\ \A c \in Clients : call[c] # NoCall <=> pc[c] \in {"put", "get", "refill"}

\* A client never runs a query of another one, nor one that is not in the trace:
\* two clients in their loops are at different places of it.
OwnQueries ==
    LET Running == {c \in Clients : pc[c] \in {"op", "put", "get", "miss", "refill"}}
        at == [c \in Running |-> c * num_ops + i[c]]
    IN  /\ \A c \in Running : at[c] \in DOMAIN queries
        /\ \A c, d \in Running : c # d => at[c] # at[d]

\* The keys that client c uses.
KeysOf(c) == {intqueries[c][n] : n \in DOMAIN intqueries[c]}

\* The store never forgets a key, so a client misses each of its keys once at most.
MissedOnce == \A c \in Clients : tp[c].num_miss <= Cardinality(KeysOf(c))

\* When main has joined a thread, its counters are final: the totals are the sums of
\* what the threads ended with, and however the alarm cut their loops short, every
\* get among them was a hit or a miss.
TotalsAreFinal ==
    main \in {"joined", "free", "bye"} =>
        /\ \A f \in DOMAIN NoCounts : result[f] = SumFunction([c \in Clients |-> tp[c][f]])
        /\ result.num_gets = result.num_hits + result.num_miss

\* The jobs that client c has had done: a put that fills a miss is counted in num_miss
\* before it is called.
Jobs(c) ==
    tp[c].num_puts + tp[c].num_gets + tp[c].num_miss
        + (IF res[c] # 0 THEN 1 ELSE 0) - (IF pc[c] \in {"miss", "refill"} THEN 1 ELSE 0)

\* heartbeatcount never runs ahead of the jobs the clients have had done (it may fall
\* behind them, and even go back, since its increments are not atomic).
CountsNoMoreThanJobs == heartbeatcount <= SumFunction([c \in Clients |-> Jobs(c)])

\* Once the alarm is set the benchmark comes to its end: every client sees stop, main
\* joins them all, and the timer thread ends.
Ends == alarm = "set" ~> main = "bye"

\* The inductive invariant: what main's place in the program says about the threads and
\* the heart.
Phases ==
    /\ main = "db_new" => t = 0
    /\ \A c \in Clients :
        /\ main = "db_new" \/ (main = "create" /\ c >= t) => pc[c] = "off"
        /\ main \in {"joined", "free", "bye"} \/ (main = "join" /\ c < t) => pc[c] = "done"
        /\ job[c] # "none" => USE_POET
        /\ job[c] # "none" \/ res[c] # 0 => pc[c] \in {"put", "get", "refill"}
        /\ pc[c] \in {"op", "put", "get", "miss", "refill", "test"} => i[c] < num_ops
    /\ USE_HB => heart = IF main = "db_new" THEN "none"
                         ELSE IF main = "bye" THEN "finished" ELSE "live"
    /\ main \in {"db_new", "bye"} => timer \in {"off", "ended"}
    /\ ~USE_HB => timer = "off"

CInv == TypeOK /\ Phases

\* What a client has asked the store, and what the answer can be.
Calls ==
    \A c \in Clients :
        /\ pc[c] \in {"put", "get", "refill"} =>
              call[c] = [type |-> IF pc[c] = "get" THEN OP_READ ELSE OP_ADD,
                         key |-> intqueries[c][i[c]]]
        /\ pc[c] \in {"put", "refill"} => res[c] # 1
        /\ pc[c] \in {"off", "convert"} => tp[c].num_miss = 0
        /\ job[c] # "none" => res[c] # 0

\* The keys that client c has missed, num_miss of them, are in the store, the one that
\* it is filling excepted; and one that it is told it misses is a new one.
Missed(c) ==
    \E M \in SUBSET KeysOf(c) :
        /\ Cardinality(M) = tp[c].num_miss
        /\ IF pc[c] = "miss" \/ (pc[c] = "refill" /\ res[c] = 0)
           THEN M \subseteq store \cup {intqueries[c][i[c]]}
           ELSE M \subseteq store
        /\ pc[c] = "get" /\ res[c] = 1 => intqueries[c][i[c]] \notin M

Misses == \A c \in Clients : Missed(c)

\* The totals are those of the threads that main has joined.
Totals ==
    /\ \A c \in Clients : tp[c].num_gets = tp[c].num_hits + tp[c].num_miss
    /\ main \in {"db_new", "create", "alarm"} => result = NoCounts
    /\ main \in {"join", "joined", "free", "bye"} =>
          \A f \in DOMAIN NoCounts :
              result[f] = SumFunctionOnSet([c \in Clients |-> tp[c][f]], 0..(t - 1))
    /\ main \in {"joined", "free", "bye"} => t = num_threads

\* The jobs of client c that heartbeatcount has been told of.
Counted(c) == Jobs(c) - (IF res[c] # 0 /\ job[c] # "counted" THEN 1 ELSE 0)

\* No value of heartbeatcount that a client has loaded is more than the jobs told.
HeartCounts ==
    /\ heartbeatcount <= SumFunction([c \in Clients |-> Counted(c)])
    /\ \A d \in Clients :
          job[d] = "beat" => reg[d] <= SumFunction([c \in Clients |-> Counted(c)])
==============================================================================
