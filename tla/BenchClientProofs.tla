-------------------------- MODULE BenchClientProofs --------------------------
(***************************************************************************)
(* Proofs about BenchClient, for any number of clients, any trace and any  *)
(* number of rounds.                                                       *)
(***************************************************************************)
EXTENDS BenchClient, SumTheorems

USE ThreadsAssumption, SecondsAssumption, TracesAssumption, MacrosAssumption,
    NoCallAssumption, OperationsAssumption

-------------------------------------------------------------------------------
(* The parts of the trace *)

LEMMA Parts == num_ops \in Nat /\ num_threads * num_ops <= num_queries
<1>1. num_queries \div num_threads \in Nat
    OBVIOUS
<1>2. num_threads * (num_queries \div num_threads) <= num_queries
    OBVIOUS
<1> QED BY <1>1, <1>2 DEF num_ops

\* A larger number of parts holds at least as many queries.
LEMMA MoreParts ==
    ASSUME NEW a \in Nat, NEW b \in Nat, NEW m \in Nat, a <= b
    PROVE  a * m <= b * m
<1>1. b * m = a * m + (b - a) * m
    OBVIOUS
<1>2. (b - a) * m >= 0
    OBVIOUS
<1> QED BY <1>1, <1>2

\* Query n of client c is in the trace, and before all those of the clients after it.
LEMMA InOwnPart ==
    ASSUME NEW c \in Clients, NEW n \in 0..(num_ops - 1)
    PROVE  /\ c * num_ops + n \in 0..(num_queries - 1)
           /\ \A d \in Clients : c < d => c * num_ops + n < d * num_ops
<1>1. num_ops \in Nat /\ c \in Nat /\ c + 1 <= num_threads
    BY Parts
<1>2. c * num_ops + num_ops = (c + 1) * num_ops
    BY <1>1
<1>3. (c + 1) * num_ops <= num_threads * num_ops
    BY <1>1, MoreParts
<1>4. c * num_ops \in Nat
    BY <1>1
<1>5. c * num_ops + n < (c + 1) * num_ops
    BY <1>1, <1>2, <1>4
<1>6. num_threads * num_ops \in Nat
    BY <1>1
<1>7. (c + 1) * num_ops \in Nat
    BY <1>1
<1>8. c * num_ops + n \in 0..(num_queries - 1)
    BY <1>1, <1>3, <1>4, <1>5, <1>6, <1>7, Parts
<1>9. ASSUME NEW d \in Clients, c < d PROVE c * num_ops + n < d * num_ops
  <2>1. (c + 1) * num_ops <= d * num_ops
    BY <1>1, <1>9, MoreParts
  <2>2. d * num_ops \in Nat
    BY <1>1
  <2> QED BY <1>1, <1>4, <1>5, <1>7, <2>1, <2>2
<1> QED BY <1>8, <1>9

\* The clients' places in the trace are their own.
LEMMA PhasesOwnQueries == CInv => OwnQueries
<1> SUFFICES ASSUME CInv PROVE OwnQueries
    OBVIOUS
<1> DEFINE Running == {c \in Clients : pc[c] \in {"op", "put", "get", "miss", "refill"}}
           place == [c \in Running |-> c * num_ops + i[c]]
<1>1. \A c \in Running : i[c] \in 0..(num_ops - 1)
    BY Parts DEF CInv, TypeOK, Phases
<1>2. DOMAIN queries = 0..(num_queries - 1)
    BY DEF CInv, TypeOK
<1>3. \A c \in Running : place[c] \in DOMAIN queries
    BY <1>1, <1>2, InOwnPart
<1>4. ASSUME NEW c \in Running, NEW d \in Running, c < d PROVE place[c] < place[d]
  <2>1. place[c] < d * num_ops
    BY <1>1, <1>4, InOwnPart
  <2>2. d * num_ops <= place[d]
    BY <1>1, Parts
  <2>3. place[c] \in Int /\ d * num_ops \in Int /\ place[d] \in Int
    BY <1>1, Parts
  <2> QED BY <2>1, <2>2, <2>3
<1>5. \A c, d \in Running : c # d => place[c] # place[d]
  <2> SUFFICES ASSUME NEW c \in Running, NEW d \in Running, c # d
               PROVE  place[c] # place[d]
    OBVIOUS
  <2>1. place[c] \in Int /\ place[d] \in Int
    BY <1>1, Parts
  <2>2. c < d \/ d < c
    OBVIOUS
  <2>3. c < d => place[c] < place[d]
    BY <1>4
  <2>4. d < c => place[d] < place[c]
    BY <1>4
  <2> HIDE DEF place
  <2> QED BY <2>1, <2>2, <2>3, <2>4
<1> QED BY <1>3, <1>5 DEF OwnQueries

-------------------------------------------------------------------------------
(* The invariant *)

LEMMA CountsDomain ==
    DOMAIN NoCounts = {"num_puts", "num_gets", "num_miss", "num_hits"}
BY DEF NoCounts

LEMMA CStarts == Init => CInv
<1> SUFFICES ASSUME Init PROVE CInv
    OBVIOUS
<1> USE DEF Init
<1>1. HbTypeOK
    BY DEF HbStart, HbTypeOK
<1>2. NoCounts \in [DOMAIN NoCounts -> Nat]
    BY DEF NoCounts
<1>3. intqueries \in [Clients -> [0..(num_ops - 1) -> IntKeys]]
    BY DEF IntKeys
<1>4. i \in [Clients -> 0..num_ops]
    BY Parts
<1>5. /\ store \subseteq IntKeys /\ res \in [Clients -> 0..2]
      /\ call = [c \in Clients |-> NoCall]
    BY DEF KV!Init
<1>6. tp \in [Clients -> [DOMAIN NoCounts -> Nat]] /\ result \in [DOMAIN NoCounts -> Nat]
    BY <1>2
<1>7. pc \in [Clients -> Labels]
    BY DEF Labels
<1>8. call \in [Clients -> [type : {OP_ADD, OP_READ}, key : IntKeys] \cup {NoCall}]
    BY <1>5
<1>9. \A c \in Clients : call[c] = NoCall /\ pc[c] = "off"
    BY <1>5
<1>10. queries \in Traces /\ stop = FALSE /\ alarm = "off" /\ main = "db_new" /\ t = 0
    OBVIOUS
<1>11. TypeOK
  <2>1. \A c \in Clients : call[c] # NoCall <=> pc[c] \in {"put", "get", "refill"}
    BY <1>9
  <2>2. t \in 0..num_threads /\ (main \in {"create", "join"} => t < num_threads)
    BY <1>10
  <2>3. stop \in BOOLEAN /\ alarm \in {"off", "set", "rung"}
    BY <1>10
  <2>4. main \in {"db_new", "create", "alarm", "join", "joined", "free", "bye"}
    BY <1>10
  <2> QED BY ONLY <1>1, <1>3, <1>4, <1>5, <1>6, <1>7, <1>8, <1>10, <2>1, <2>2, <2>3, <2>4
             DEF TypeOK
<1>12. Phases
  <2>1. \A c \in Clients : pc[c] = "off" /\ job[c] = "none" /\ res[c] = 0
    BY DEF HbStart, KV!Init
  <2>2. main = "db_new" /\ t = 0 /\ heart = "none" /\ timer = "off"
    BY DEF HbStart
  <2> QED BY ONLY <2>1, <2>2 DEF Phases
<1> QED BY <1>11, <1>12 DEF CInv

\* What a step of client c may change of the threads' places, and what it must not.
LEMMA ClientKeepsPhases ==
    ASSUME CInv, NEW c \in Clients, TypeOK',
           UNCHANGED <<main, t, heart, timer>>,
           pc[c] \notin {"off", "done"},
           \A d \in Clients \ {c} : 
                pc'[d] = pc[d] /\ job'[d] = job[d] /\ res'[d] = res[d] /\ i'[d] = i[d],
           pc'[c] # "off",
           job'[c] # "none" => USE_POET,
           job'[c] # "none" \/ res'[c] # 0 => pc'[c] \in {"put", "get", "refill"},
           pc'[c] \in {"op", "put", "get", "miss", "refill", "test"} => i'[c] < num_ops
    PROVE  Phases'
<1>1. main # "db_new" /\ ~(main = "create" /\ c >= t)
    BY DEF CInv, Phases
<1>2. ~(main \in {"joined", "free", "bye"} \/ (main = "join" /\ c < t))
    BY DEF CInv, Phases
<1>3. \A d \in Clients :
        /\ main' = "db_new" \/ (main' = "create" /\ d >= t') => pc'[d] = "off"
        /\ main' \in {"joined", "free", "bye"} \/ (main' = "join" /\ d < t') => pc'[d] = "done"
        /\ job'[d] # "none" => USE_POET
        /\ job'[d] # "none" \/ res'[d] # 0 => pc'[d] \in {"put", "get", "refill"}
        /\ pc'[d] \in {"op", "put", "get", "miss", "refill", "test"} => i'[d] < num_ops
  <2> SUFFICES ASSUME NEW d \in Clients
               PROVE  /\ main' = "db_new" \/ (main' = "create" /\ d >= t') => pc'[d] = "off"
                      /\ main' \in {"joined", "free", "bye"} \/ (main' = "join" /\ d < t')
                            => pc'[d] = "done"
                      /\ job'[d] # "none" => USE_POET
                      /\ job'[d] # "none" \/ res'[d] # 0
                            => pc'[d] \in {"put", "get", "refill"}
                      /\ pc'[d] \in {"op", "put", "get", "miss", "refill", "test"}
                            => i'[d] < num_ops
    OBVIOUS
  <2>1. CASE d = c
    BY <1>1, <1>2, <2>1
  <2>2. CASE d # c
    BY <2>2 DEF CInv, Phases
  <2> QED BY <2>1, <2>2
<1> QED BY <1>3 DEF CInv, Phases

\* The steps of a client inside its loop, outside the store.
LEMMA LoopStep ==
    ASSUME CInv, NEW c \in Clients, Convert(c) \/ While(c) \/ OpUnknown(c) \/ Test(c)
    PROVE  CInv'
<1>1. UNCHANGED <<queries, stop, tp, alarm, main, t, result, store, call, res, hbvars>>
    BY DEF Convert, While, OpUnknown, Test, mainvars, kvars
<1>2. HbTypeOK' /\ UNCHANGED <<heart, timer, job>>
    BY <1>1 DEF CInv, TypeOK, HbTypeOK, hbvars
<1>3. num_ops \in Nat
    BY Parts
<1>4. intqueries' \in [Clients -> [0..(num_ops - 1) -> IntKeys]]
    BY DEF Convert, While, OpUnknown, Test, CInv, TypeOK
<1>5. pc' \in [Clients -> Labels] /\ pc'[c] \in {"while", "done", "op", "test"}
    BY DEF Convert, While, OpUnknown, Test, CInv, TypeOK, Goto, Labels
<1>6. i' \in [Clients -> 0..num_ops]
  <2>1. CASE Test(c)
    BY <1>3, <2>1 DEF Test, CInv, TypeOK, Phases
  <2>2. CASE While(c)
    BY <1>3, <2>2 DEF While, CInv, TypeOK
  <2>3. CASE Convert(c) \/ OpUnknown(c)
    BY <2>3 DEF Convert, OpUnknown, CInv, TypeOK
  <2> QED BY <2>1, <2>2, <2>3
<1>7. \A d \in Clients \ {c} : pc'[d] = pc[d] /\ i'[d] = i[d]
    BY DEF Convert, While, OpUnknown, Test, Goto, CInv, TypeOK
<1>8. /\ pc[c] \in {"convert", "while", "op", "test"}
      /\ call[c] = NoCall /\ job[c] = "none" /\ res[c] = 0
    BY DEF Convert, While, OpUnknown, Test, CInv, TypeOK, Phases
<1>9. pc'[c] \in {"op", "test"} => i'[c] < num_ops
  <2>1. CASE Test(c)
    BY <1>3, <2>1 DEF Test, Goto, CInv, TypeOK
  <2>2. CASE While(c)
    BY <1>3, <2>2 DEF While, Goto, CInv, TypeOK
  <2>3. CASE Convert(c)
    BY <2>3 DEF Convert, Goto, CInv, TypeOK
  <2>4. CASE OpUnknown(c)
    BY <2>4 DEF OpUnknown, Goto, CInv, TypeOK, Phases
  <2> QED BY <2>1, <2>2, <2>3, <2>4
<1>10. \A d \in Clients : call'[d] # NoCall <=> pc'[d] \in {"put", "get", "refill"}
    BY <1>1, <1>5, <1>7, <1>8 DEF CInv, TypeOK
<1>11. TypeOK'
    BY <1>1, <1>2, <1>4, <1>5, <1>6, <1>10 DEF CInv, TypeOK
<1>12. Phases'
    BY <1>1, <1>2, <1>5, <1>7, <1>8, <1>9, <1>11, ClientKeepsPhases
<1> QED BY <1>11, <1>12 DEF CInv

\* A client enters the store.
LEMMA CallStep ==
    ASSUME CInv, NEW c \in Clients, Op(c) \/ Refill(c)
    PROVE  CInv'
<1>1. PICK type \in {OP_ADD, OP_READ}, label \in {"put", "get", "refill"} :
        pc[c] \in {"op", "miss"} /\ DbCall(c, type, label)
    BY DEF Op, Refill
<1>2. /\ UNCHANGED <<queries, intqueries, stop, tp, i, alarm, main, t, result, hbvars>>
      /\ Goto(c, label) /\ KV!Invoke(c)
      /\ call'[c] = [type |-> type, key |-> intqueries[c][i[c]]]
    BY <1>1 DEF DbCall, mainvars
<1>3. HbTypeOK' /\ UNCHANGED <<heart, timer, job>>
    BY <1>2 DEF CInv, TypeOK, HbTypeOK, hbvars
<1>4. UNCHANGED <<store, res>>
    BY <1>2 DEF KV!Invoke
<1>5. i[c] \in 0..(num_ops - 1)
    BY <1>1, Parts DEF CInv, TypeOK, Phases
<1>6. intqueries[c][i[c]] \in IntKeys
  <2>1. intqueries[c] \in [0..(num_ops - 1) -> IntKeys]
    BY DEF CInv, TypeOK
  <2> QED BY <1>5, <2>1
<1>7. /\ call' \in [Clients -> [type : {OP_ADD, OP_READ}, key : IntKeys] \cup {NoCall}]
      /\ \A d \in Clients \ {c} : call'[d] = call[d]
  <2>1. PICK rec : call' = [call EXCEPT ![c] = rec]
    BY <1>2 DEF KV!Invoke
  <2>2. rec = call'[c]
    BY <2>1 DEF CInv, TypeOK
  <2>3. rec \in [type : {OP_ADD, OP_READ}, key : IntKeys]
    BY <1>2, <1>6, <2>2
  <2> QED BY <2>1, <2>3 DEF CInv, TypeOK
<1>8. call'[c] # NoCall
    BY <1>2, <1>6
<1>9. /\ pc' \in [Clients -> Labels] /\ pc'[c] = label
      /\ \A d \in Clients \ {c} : pc'[d] = pc[d]
    BY <1>2 DEF Goto, CInv, TypeOK, Labels
<1>10. \A d \in Clients : call'[d] # NoCall <=> pc'[d] \in {"put", "get", "refill"}
    BY <1>7, <1>8, <1>9 DEF CInv, TypeOK
<1>11. TypeOK'
    BY <1>2, <1>3, <1>4, <1>7, <1>9, <1>10 DEF CInv, TypeOK
<1>12. job[c] = "none" /\ res[c] = 0
    BY <1>1 DEF CInv, TypeOK, Phases
<1>13. i[c] < num_ops
    BY <1>1 DEF CInv, Phases
<1>14. Phases'
  <2>1. job' = job /\ res' = res /\ i' = i /\ UNCHANGED <<main, t, heart, timer>>
    BY <1>2, <1>3, <1>4
  <2>2. pc[c] \notin {"off", "done"} /\ pc'[c] # "off"
    BY <1>1, <1>9
  <2> QED BY <1>9, <1>11, <1>12, <1>13, <2>1, <2>2, ClientKeepsPhases
<1> QED BY <1>11, <1>14 DEF CInv

\* An operation takes effect.
LEMMA PerformStep ==
    ASSUME CInv, NEW c \in Clients, Perform(c)
    PROVE  CInv'
<1>1. UNCHANGED <<queries, intqueries, stop, tp, pc, i, alarm, main, t, result, hbvars>>
    BY DEF Perform, mainvars
<1>2. HbTypeOK' /\ UNCHANGED <<heart, timer, job>>
    BY <1>1 DEF CInv, TypeOK, HbTypeOK, hbvars
<1>3. call[c] \in [type : {OP_ADD, OP_READ}, key : IntKeys] /\ call' = call
    BY DEF Perform, KV!Put, KV!Get, KV!Pending, CInv, TypeOK
<1>4. store' \subseteq IntKeys
    BY <1>3 DEF Perform, KV!Put, KV!Get, CInv, TypeOK
<1>5. PICK r \in 1..2 : res' = [res EXCEPT ![c] = r]
  <2>1. CASE KV!Put(c)
    <3>1. res' = [res EXCEPT ![c] = 2]
      BY <2>1 DEF KV!Put
    <3> QED BY <3>1
  <2>2. CASE KV!Get(c)
    <3>1. res' = [res EXCEPT ![c] = IF call[c].key \in store THEN 2 ELSE 1]
      BY <2>2 DEF KV!Get
    <3>2. CASE call[c].key \in store
      <4>1. res' = [res EXCEPT ![c] = 2]
        BY <3>1, <3>2
      <4> QED BY <4>1
    <3>3. CASE call[c].key \notin store
      <4>1. res' = [res EXCEPT ![c] = 1]
        BY <3>1, <3>3
      <4> QED BY <4>1
    <3> QED BY <3>2, <3>3
  <2> QED BY <2>1, <2>2 DEF Perform
<1>6. TypeOK'
  <2>1. res' \in [Clients -> 0..2]
    BY <1>5 DEF CInv, TypeOK
  <2> QED BY <1>1, <1>2, <1>3, <1>4, <2>1 DEF CInv, TypeOK
<1>7. Phases'
  <2>1. pc[c] \in {"put", "get", "refill"}
    BY <1>3, NoCallAssumption DEF CInv, TypeOK
  <2>2. \A d \in Clients \ {c} : res'[d] = res[d]
    BY <1>5 DEF CInv, TypeOK
  <2>3. \A d \in Clients : res'[d] # 0 => res[d] # 0 \/ d = c
    BY <2>2
  <2> QED BY <1>1, <1>2, <2>1, <2>3 DEF CInv, Phases
<1> QED BY <1>6, <1>7 DEF CInv

\* A job is counted.
LEMMA CountStep ==
    ASSUME CInv, NEW c \in Clients, CountJob(c)
    PROVE  CInv'
<1>1. UNCHANGED <<queries, intqueries, stop, tp, pc, i, alarm, main, t, result, store, call, res>>
    BY DEF CountJob, mainvars, kvars
<1>2. UNCHANGED <<heart, stop_heartbeat, timer>>
    BY DEF CountJob, JobLoad, JobBeat
<1>3. HbTypeOK' /\ \A d \in Clients \ {c} : job'[d] = job[d]
  <2>1. HbTypeOK
    BY DEF CInv, TypeOK
  <2>2. CASE JobLoad(c)
    BY <2>1, <2>2 DEF JobLoad, HbTypeOK
  <2>3. CASE JobBeat(c)
    BY <2>1, <2>3 DEF JobBeat, HbTypeOK
  <2> QED BY <2>2, <2>3 DEF CountJob
<1>4. TypeOK'
    BY <1>1, <1>3 DEF CInv, TypeOK
<1>5. USE_POET /\ pc[c] \in {"put", "get", "refill"}
    BY DEF CountJob, CInv, Phases
<1>6. Phases'
    BY <1>1, <1>2, <1>3, <1>4, <1>5, ClientKeepsPhases DEF CInv, Phases
<1> QED BY <1>4, <1>6 DEF CInv

\* One or two counters of a client go up.
Plus(c, F) == [f \in DOMAIN NoCounts |-> IF f \in F THEN tp[c][f] + 1 ELSE tp[c][f]]

LEMMA OneCounted ==
    ASSUME tp \in [Clients -> [DOMAIN NoCounts -> Nat]], NEW c \in Clients,
           NEW f \in DOMAIN NoCounts, tp' = [tp EXCEPT ![c][f] = @ + 1]
    PROVE  tp' \in [Clients -> [DOMAIN NoCounts -> Nat]] /\ tp'[c] = Plus(c, {f})
<1>1. tp' \in [Clients -> [DOMAIN NoCounts -> Nat]]
    OBVIOUS
<1>2. tp'[c] = [h \in DOMAIN NoCounts |-> IF h \in {f} THEN tp[c][h] + 1 ELSE tp[c][h]]
    BY ONLY tp \in [Clients -> [DOMAIN NoCounts -> Nat]],
            tp' = [tp EXCEPT ![c][f] = @ + 1]
<1> QED BY <1>1, <1>2 DEF Plus

LEMMA TwoCounted ==
    ASSUME tp \in [Clients -> [DOMAIN NoCounts -> Nat]], NEW c \in Clients,
           NEW f \in DOMAIN NoCounts, NEW g \in DOMAIN NoCounts, f # g,
           tp' = [tp EXCEPT ![c][f] = @ + 1, ![c][g] = @ + 1]
    PROVE  tp' \in [Clients -> [DOMAIN NoCounts -> Nat]] /\ tp'[c] = Plus(c, {f, g})
<1>1. tp' \in [Clients -> [DOMAIN NoCounts -> Nat]]
    OBVIOUS
<1>2. tp'[c] = [h \in DOMAIN NoCounts |-> IF h \in {f, g} THEN tp[c][h] + 1 ELSE tp[c][h]]
    BY ONLY tp \in [Clients -> [DOMAIN NoCounts -> Nat]], f # g,
            tp' = [tp EXCEPT ![c][f] = @ + 1, ![c][g] = @ + 1]
<1> QED BY <1>1, <1>2 DEF Plus

LEMMA ReturnsCount ==
    ASSUME CInv, NEW c \in Clients
    PROVE  /\ PutReturns(c) \/ GetMisses(c) \/ GetHits(c) =>
                tp' \in [Clients -> [DOMAIN NoCounts -> Nat]]
           /\ PutReturns(c) => tp'[c] = Plus(c, {"num_puts"})
           /\ GetMisses(c) => tp'[c] = Plus(c, {"num_gets", "num_miss"})
           /\ GetHits(c) => tp'[c] = Plus(c, {"num_gets", "num_hits"})
<1>1. tp \in [Clients -> [DOMAIN NoCounts -> Nat]]
    BY DEF CInv, TypeOK
<1>2. "num_puts" \in DOMAIN NoCounts
    BY CountsDomain
<1>3. "num_gets" \in DOMAIN NoCounts
    BY CountsDomain
<1>4. "num_miss" \in DOMAIN NoCounts
    BY CountsDomain
<1>5. "num_hits" \in DOMAIN NoCounts
    BY CountsDomain
<1>6. ASSUME PutReturns(c)
      PROVE  tp' \in [Clients -> [DOMAIN NoCounts -> Nat]] /\ tp'[c] = Plus(c, {"num_puts"})
  <2>1. tp' = [tp EXCEPT ![c].num_puts = @ + 1]
    BY <1>6 DEF PutReturns
  <2> QED BY <1>1, <1>2, <2>1, OneCounted
<1>7. ASSUME GetMisses(c)
      PROVE  /\ tp' \in [Clients -> [DOMAIN NoCounts -> Nat]]
             /\ tp'[c] = Plus(c, {"num_gets", "num_miss"})
  <2>1. tp' = [tp EXCEPT ![c].num_gets = @ + 1, ![c].num_miss = @ + 1]
    BY <1>7 DEF GetMisses
  <2>2. "num_gets" # "num_miss"
    OBVIOUS
  <2> QED BY <1>1, <1>3, <1>4, <2>1, <2>2, TwoCounted
<1>8. ASSUME GetHits(c)
      PROVE  /\ tp' \in [Clients -> [DOMAIN NoCounts -> Nat]]
             /\ tp'[c] = Plus(c, {"num_gets", "num_hits"})
  <2>1. tp' = [tp EXCEPT ![c].num_gets = @ + 1, ![c].num_hits = @ + 1]
    BY <1>8 DEF GetHits
  <2>2. "num_gets" # "num_hits"
    OBVIOUS
  <2> QED BY <1>1, <1>3, <1>5, <2>1, <2>2, TwoCounted
<1> QED BY <1>6, <1>7, <1>8

\* The same, counter by counter.
LEMMA CountersMove ==
    ASSUME CInv, NEW c \in Clients
    PROVE  /\ PutReturns(c) =>
                /\ tp'[c].num_puts = tp[c].num_puts + 1 /\ tp'[c].num_gets = tp[c].num_gets
                /\ tp'[c].num_miss = tp[c].num_miss /\ tp'[c].num_hits = tp[c].num_hits
           /\ GetMisses(c) =>
                /\ tp'[c].num_puts = tp[c].num_puts /\ tp'[c].num_gets = tp[c].num_gets + 1
                /\ tp'[c].num_miss = tp[c].num_miss + 1 /\ tp'[c].num_hits = tp[c].num_hits
           /\ GetHits(c) =>
                /\ tp'[c].num_puts = tp[c].num_puts /\ tp'[c].num_gets = tp[c].num_gets + 1
                /\ tp'[c].num_miss = tp[c].num_miss /\ tp'[c].num_hits = tp[c].num_hits + 1
<1>1. ASSUME NEW F
      PROVE  \A f \in {"num_puts", "num_gets", "num_miss", "num_hits"} :
                Plus(c, F)[f] = IF f \in F THEN tp[c][f] + 1 ELSE tp[c][f]
    BY ONLY CountsDomain DEF Plus
<1>2. ASSUME PutReturns(c) PROVE tp'[c] = Plus(c, {"num_puts"})
    BY <1>2, ReturnsCount
<1>3. ASSUME GetMisses(c) PROVE tp'[c] = Plus(c, {"num_gets", "num_miss"})
    BY <1>3, ReturnsCount
<1>4. ASSUME GetHits(c) PROVE tp'[c] = Plus(c, {"num_gets", "num_hits"})
    BY <1>4, ReturnsCount
<1>5. \A F : /\ Plus(c, F).num_puts = IF "num_puts" \in F THEN tp[c].num_puts + 1 ELSE tp[c].num_puts
             /\ Plus(c, F).num_gets = IF "num_gets" \in F THEN tp[c].num_gets + 1 ELSE tp[c].num_gets
             /\ Plus(c, F).num_miss = IF "num_miss" \in F THEN tp[c].num_miss + 1 ELSE tp[c].num_miss
             /\ Plus(c, F).num_hits = IF "num_hits" \in F THEN tp[c].num_hits + 1 ELSE tp[c].num_hits
    BY ONLY <1>1
<1> QED BY ONLY <1>2, <1>3, <1>4, <1>5

\* A client comes back from the store.
LEMMA ReturnStep ==
    ASSUME CInv, NEW c \in Clients,
           PutReturns(c) \/ GetMisses(c) \/ GetHits(c) \/ RefillReturns(c)
    PROVE  CInv'
<1>1. PICK label \in {"test", "miss"} :
        pc[c] \in {"put", "get", "refill"} /\ DbReturn(c) /\ Goto(c, label)
    BY DEF PutReturns, GetMisses, GetHits, RefillReturns
<1>2. /\ UNCHANGED <<queries, intqueries, stop, i, alarm, main, t, result>>
      /\ KV!Return(c) /\ JobReturn(c)
    BY <1>1 DEF DbReturn, mainvars
<1>3. /\ UNCHANGED <<heart, timer>> /\ HbTypeOK' /\ job'[c] = "none"
      /\ \A d \in Clients \ {c} : job'[d] = job[d]
    BY <1>2 DEF JobReturn, CInv, TypeOK, HbTypeOK
<1>4. /\ store' = store /\ call' = [call EXCEPT ![c] = NoCall]
      /\ res' = [res EXCEPT ![c] = 0]
    BY <1>2 DEF KV!Return
<1>5. /\ pc' \in [Clients -> Labels] /\ pc'[c] = label
      /\ \A d \in Clients \ {c} : pc'[d] = pc[d]
    BY <1>1 DEF Goto, CInv, TypeOK, Labels
<1>6. /\ call' \in [Clients -> [type : {OP_ADD, OP_READ}, key : IntKeys] \cup {NoCall}]
      /\ res' \in [Clients -> 0..2]
    BY <1>4 DEF CInv, TypeOK
<1>7. \A d \in Clients : call'[d] # NoCall <=> pc'[d] \in {"put", "get", "refill"}
    BY <1>4, <1>5 DEF CInv, TypeOK
<1>8. tp' \in [Clients -> [DOMAIN NoCounts -> Nat]]
  <2>1. CASE RefillReturns(c)
    BY <2>1 DEF RefillReturns, CInv, TypeOK
  <2> QED BY <2>1, ReturnsCount
<1>9. TypeOK'
    BY <1>2, <1>3, <1>4, <1>5, <1>6, <1>7, <1>8 DEF CInv, TypeOK
<1>10. i[c] < num_ops
    BY <1>1 DEF CInv, Phases
<1>11. res'[c] = 0 /\ \A d \in Clients \ {c} : res'[d] = res[d]
    BY <1>4 DEF CInv, TypeOK
<1>12. Phases'
    BY <1>1, <1>2, <1>3, <1>5, <1>9, <1>10, <1>11, ClientKeepsPhases
<1> QED BY <1>9, <1>12 DEF CInv

\* main creates the store: no client is there yet.
LEMMA DbNewStep == CInv /\ DbNew => CInv'
<1> SUFFICES ASSUME CInv, DbNew PROVE CInv'
    OBVIOUS
<1>1. /\ UNCHANGED <<queries, intqueries, tp, i, store, call, res, stop, alarm, t, result, pc>>
      /\ main = "db_new" /\ main' = "create" /\ HbNew
    BY DEF DbNew, AtMain, kvars
<1>2. t = 0 /\ t < num_threads
    BY <1>1 DEF CInv, Phases
<1>3. HbTypeOK' /\ job' = job
    BY <1>1 DEF CInv, TypeOK, HbTypeOK, HbNew, hb_poet_init, hbvars
<1>4. TypeOK'
    BY <1>1, <1>2, <1>3 DEF CInv, TypeOK
<1>5. (USE_HB => heart' = "live") /\ (~USE_HB => timer' = "off")
    BY <1>1 DEF HbNew, hb_poet_init, hbvars, CInv, Phases
<1>6. Phases'
    BY <1>1, <1>2, <1>3, <1>5 DEF CInv, Phases
<1> QED BY <1>4, <1>6 DEF CInv

\* main creates a thread.
LEMMA CreateStep == CInv /\ Create => CInv'
<1> SUFFICES ASSUME CInv, Create PROVE CInv'
    OBVIOUS
<1>1. /\ UNCHANGED <<queries, intqueries, tp, i, store, call, res, stop, alarm, result, hbvars>>
      /\ main = "create" /\ t' = t + 1 /\ pc' = [pc EXCEPT ![t] = "convert"]
      /\ main' = IF t' = num_threads THEN "alarm" ELSE "create"
    BY DEF Create, AtMain, kvars, Goto
<1>2. HbTypeOK' /\ UNCHANGED <<heart, timer, job>>
    BY <1>1 DEF CInv, TypeOK, HbTypeOK, hbvars
<1>3. t \in Clients /\ t + 1 \in 0..num_threads /\ (main' = "create" => t' < num_threads)
    BY <1>1 DEF CInv, TypeOK
<1>4. /\ pc' \in [Clients -> Labels] /\ pc'[t] = "convert" /\ pc[t] = "off"
      /\ \A c \in Clients \ {t} : pc'[c] = pc[c]
    BY <1>1, <1>3 DEF CInv, TypeOK, Phases, Labels
<1>5. \A c \in Clients : call'[c] # NoCall <=> pc'[c] \in {"put", "get", "refill"}
    BY <1>1, <1>4 DEF CInv, TypeOK
<1>6. TypeOK'
  <2>1. main' \in {"create", "alarm"} /\ t' \in 0..num_threads
    BY <1>1, <1>3
  <2> QED BY <1>1, <1>2, <1>3, <1>4, <1>5, <2>1 DEF CInv, TypeOK
<1>7. \A c \in Clients :
        /\ main' = "create" /\ c >= t' => pc'[c] = "off"
        /\ job'[c] # "none" => USE_POET
        /\ job'[c] # "none" \/ res'[c] # 0 => pc'[c] \in {"put", "get", "refill"}
        /\ pc'[c] \in {"op", "put", "get", "miss", "refill", "test"} => i'[c] < num_ops
  <2> SUFFICES ASSUME NEW c \in Clients
               PROVE  /\ main' = "create" /\ c >= t' => pc'[c] = "off"
                      /\ job'[c] # "none" => USE_POET
                      /\ job'[c] # "none" \/ res'[c] # 0
                            => pc'[c] \in {"put", "get", "refill"}
                      /\ pc'[c] \in {"op", "put", "get", "miss", "refill", "test"}
                            => i'[c] < num_ops
    OBVIOUS
  <2>1. CASE c = t
    BY <1>1, <1>2, <1>4, <2>1 DEF CInv, Phases
  <2>2. CASE c # t
    <3>1. pc'[c] = pc[c] /\ (c >= t' => c >= t)
      BY <1>1, <1>3, <1>4, <2>2
    <3> QED BY <1>1, <1>2, <3>1 DEF CInv, Phases
  <2> QED BY <2>1, <2>2
<1>8. Phases'
    BY <1>1, <1>2, <1>7 DEF CInv, Phases
<1> QED BY <1>6, <1>8 DEF CInv

\* main starts the alarm.
LEMMA SetAlarmStep == CInv /\ SetAlarm => CInv'
<1> SUFFICES ASSUME CInv, SetAlarm PROVE CInv'
    OBVIOUS
<1>1. /\ UNCHANGED <<queries, intqueries, tp, i, store, call, res, stop, result, pc, hbvars>>
      /\ main = "alarm" /\ main' = "join" /\ t' = 0 /\ alarm' \in {"off", "set"}
    BY DEF SetAlarm, AtMain, kvars
<1>2. HbTypeOK' /\ UNCHANGED <<heart, timer, job>>
    BY <1>1 DEF CInv, TypeOK, HbTypeOK, hbvars
<1>3. TypeOK'
    BY <1>1, <1>2 DEF CInv, TypeOK
<1>4. Phases'
    BY <1>1, <1>2 DEF CInv, Phases
<1> QED BY <1>3, <1>4 DEF CInv

\* main joins a thread.
LEMMA JoinStep == CInv /\ Join => CInv'
<1> SUFFICES ASSUME CInv, Join PROVE CInv'
    OBVIOUS
<1>1. /\ UNCHANGED <<queries, intqueries, tp, i, store, call, res, stop, alarm, pc, hbvars>>
      /\ main = "join" /\ t' = t + 1 /\ pc[t] = "done"
      /\ main' = IF t' = num_threads THEN "joined" ELSE "join"
      /\ result' = [f \in DOMAIN NoCounts |-> result[f] + tp[t][f]]
    BY DEF Join, AtMain, kvars
<1>2. HbTypeOK' /\ UNCHANGED <<heart, timer, job>>
    BY <1>1 DEF CInv, TypeOK, HbTypeOK, hbvars
<1>3. t \in Clients /\ t + 1 \in 0..num_threads /\ (main' = "join" => t' < num_threads)
    BY <1>1 DEF CInv, TypeOK
<1>4. result' \in [DOMAIN NoCounts -> Nat]
  <2>1. \A f \in DOMAIN NoCounts : result[f] \in Nat /\ tp[t][f] \in Nat
    BY <1>3 DEF CInv, TypeOK
  <2> QED BY <1>1, <2>1
<1>5. TypeOK'
  <2>1. main' \in {"join", "joined"} /\ t' \in 0..num_threads
    BY <1>1, <1>3
  <2> QED BY <1>1, <1>2, <1>3, <1>4, <2>1 DEF CInv, TypeOK
<1>6. \A c \in Clients : c < t' => pc'[c] = "done"
    BY <1>1, <1>3 DEF CInv, Phases
<1>7. main' = "joined" => \A c \in Clients : c < t'
    BY <1>1
<1>8. Phases'
    BY <1>1, <1>2, <1>6, <1>7 DEF CInv, Phases
<1> QED BY <1>5, <1>8 DEF CInv

\* The two steps of db_free.
LEMMA FreeStep == CInv /\ (DbFree \/ DbFreed) => CInv'
<1> SUFFICES ASSUME CInv, DbFree \/ DbFreed PROVE CInv'
    OBVIOUS
<1>1. /\ UNCHANGED <<queries, intqueries, tp, i, store, call, res, alarm, t, result, pc>>
      /\ stop' \in {stop, FALSE}
    BY DEF DbFree, DbFreed, AtMain, kvars
<1>2. HbTypeOK' /\ UNCHANGED <<timer, job>>
    BY DEF CInv, TypeOK, HbTypeOK, DbFree, DbFreed, FreeStop, FreeJoin
<1>3. TypeOK'
  <2>1. main' \in {"free", "bye"} /\ stop' \in BOOLEAN
    BY <1>1 DEF DbFree, DbFreed, CInv, TypeOK
  <2> QED BY <1>1, <1>2, <2>1 DEF CInv, TypeOK
<1>4. Phases'
  <2>1. CASE DbFree
    BY <1>1, <1>2, <2>1 DEF DbFree, AtMain, FreeStop, CInv, Phases
  <2>2. CASE DbFreed
    BY <1>1, <1>2, <2>2 DEF DbFreed, AtMain, FreeJoin, CInv, Phases
  <2> QED BY <2>1, <2>2
<1> QED BY <1>3, <1>4 DEF CInv

\* SIGALRM.
LEMMA TriggerStep == CInv /\ Trigger => CInv'
<1> SUFFICES ASSUME CInv, Trigger PROVE CInv'
    OBVIOUS
<1>1. /\ UNCHANGED <<queries, intqueries, main, t, result, tp, pc, i, store, call, res, hbvars>>
      /\ alarm' = "rung" /\ stop' = TRUE
    BY DEF Trigger, kvars
<1>2. HbTypeOK' /\ UNCHANGED <<heart, timer, job>>
    BY <1>1 DEF CInv, TypeOK, HbTypeOK, hbvars
<1>3. TypeOK'
    BY <1>1, <1>2 DEF CInv, TypeOK
<1>4. Phases'
    BY <1>1, <1>2 DEF CInv, Phases
<1> QED BY <1>3, <1>4 DEF CInv

\* The timer thread: it is not there before db_new, nor after db_free.
LEMMA TimerStep == CInv /\ Timer => CInv'
<1> SUFFICES ASSUME CInv, Timer PROVE CInv'
    OBVIOUS
<1>1. UNCHANGED <<queries, intqueries, stop, alarm, main, t, result, tp, pc, i, store, call, res>>
    BY DEF Timer, mainvars, kvars
<1>2. HbTypeOK' /\ UNCHANGED <<heart, job>>
    BY DEF Timer, TimerTest, TimerBeat, CInv, TypeOK, HbTypeOK
<1>3. TypeOK'
    BY <1>1, <1>2 DEF CInv, TypeOK
<1>4. timer \notin {"off", "ended"}
    BY DEF Timer, TimerTest, TimerBeat
<1>5. main \notin {"db_new", "bye"} /\ USE_HB
    BY <1>4 DEF CInv, Phases
<1>6. Phases'
    BY <1>1, <1>2, <1>5 DEF CInv, Phases
<1> QED BY <1>3, <1>6 DEF CInv

LEMMA CStep == CInv /\ [Next]_vars => CInv'
<1> SUFFICES ASSUME CInv, [Next]_vars PROVE CInv'
    OBVIOUS
<1>1. CASE MainStep
    BY <1>1, DbNewStep, CreateStep, SetAlarmStep, JoinStep, FreeStep DEF MainStep
<1>2. CASE Trigger
    BY <1>2, TriggerStep
<1>3. CASE Timer
    BY <1>3, TimerStep
<1>4. ASSUME NEW c \in Clients, ClientStep(c) PROVE CInv'
    BY <1>4, LoopStep, CallStep, PerformStep, CountStep, ReturnStep DEF ClientStep
<1>5. CASE UNCHANGED vars
  <2>1. /\ UNCHANGED <<queries, intqueries, stop, alarm, main, t, result, tp, pc, i, store>>
        /\ UNCHANGED <<call, res, hbvars>>
    BY <1>5 DEF vars, mainvars, kvars
  <2>2. HbTypeOK' /\ UNCHANGED <<heart, timer, job>>
    BY <2>1 DEF CInv, TypeOK, HbTypeOK, hbvars
  <2> QED BY <2>1, <2>2 DEF CInv, TypeOK, Phases
<1> QED BY <1>1, <1>2, <1>3, <1>4, <1>5 DEF Next

LEMMA CInvAlways == Spec => []CInv
<1>1. Init => CInv
    BY CStarts
<1>2. CInv /\ [Next]_vars => CInv'
    BY CStep
<1> QED BY <1>1, <1>2, PTL DEF Spec

-------------------------------------------------------------------------------
(* What a step leaves alone *)

LEMMA ClientsFinite == IsFiniteSet(Clients)
BY FS_Interval

\* A step of client c is nobody else's, and takes nothing out of the store.
LEMMA OthersKept ==
    ASSUME CInv, NEW c \in Clients, ClientStep(c)
    PROVE  /\ UNCHANGED <<main, t, result>> /\ store \subseteq store'
           /\ \A d \in Clients \ {c} :
                /\ pc'[d] = pc[d] /\ call'[d] = call[d] /\ res'[d] = res[d]
                /\ job'[d] = job[d] /\ reg'[d] = reg[d] /\ tp'[d] = tp[d]
                /\ intqueries'[d] = intqueries[d] /\ i'[d] = i[d]
<1> USE DEF CInv, TypeOK, HbTypeOK, Goto, mainvars, kvars, hbvars
<1>1. CASE Convert(c) \/ While(c) \/ OpUnknown(c) \/ Test(c)
    BY <1>1 DEF Convert, While, OpUnknown, Test
<1>2. CASE Op(c) \/ Refill(c)
    BY <1>2 DEF Op, Refill, DbCall, KV!Invoke
<1>3. CASE Perform(c)
    BY <1>3 DEF Perform, KV!Put, KV!Get
<1>4. CASE CountJob(c)
    BY <1>4 DEF CountJob, JobLoad, JobBeat
<1>5. CASE PutReturns(c) \/ RefillReturns(c)
    BY <1>5 DEF PutReturns, RefillReturns, DbReturn, KV!Return, JobReturn
<1>6. CASE GetMisses(c) \/ GetHits(c)
    BY <1>6 DEF GetMisses, GetHits, DbReturn, KV!Return, JobReturn
<1> QED BY <1>1, <1>2, <1>3, <1>4, <1>5, <1>6 DEF ClientStep

\* The other threads, and a step of nobody, only create clients.
LEMMA ClientsKept ==
    ASSUME CInv, MainStep \/ Trigger \/ Timer \/ UNCHANGED vars
    PROVE  /\ UNCHANGED <<call, res, job, reg, tp, intqueries, i, store, heartbeatcount>>
           /\ \A d \in Clients : pc'[d] = pc[d] \/ (pc[d] = "off" /\ pc'[d] = "convert")
<1> USE DEF CInv, TypeOK, HbTypeOK, Goto, mainvars, kvars, hbvars
<1>1. CASE DbNew
    BY <1>1 DEF DbNew, AtMain, HbNew, hb_poet_init
<1>2. CASE Create
    BY <1>2 DEF Create, AtMain, Phases
<1>3. CASE SetAlarm \/ Join
    BY <1>3 DEF SetAlarm, Join, AtMain
<1>4. CASE DbFree \/ DbFreed
    BY <1>4 DEF DbFree, DbFreed, AtMain, FreeStop, FreeJoin
<1>5. CASE Trigger
    BY <1>5 DEF Trigger
<1>6. CASE Timer
    BY <1>6 DEF Timer, TimerTest, TimerBeat
<1>7. CASE UNCHANGED vars
    BY <1>7 DEF vars
<1> QED BY <1>1, <1>2, <1>3, <1>4, <1>5, <1>6, <1>7 DEF MainStep

-------------------------------------------------------------------------------
(* Calls and their answers *)

LEMMA CallsStart == Init => Calls
BY DEF Init, Calls, KV!Init, HbStart, NoCounts

LEMMA CallsStep == CInv /\ Calls /\ [Next]_vars => Calls'
<1> SUFFICES ASSUME CInv, Calls, [Next]_vars PROVE Calls'
    OBVIOUS
<1>1. CASE MainStep \/ Trigger \/ Timer \/ UNCHANGED vars
    BY <1>1, ClientsKept DEF Calls
<1>2. ASSUME NEW c \in Clients, ClientStep(c) PROVE Calls'
  <2> DEFINE calls(d) ==
        /\ pc[d] \in {"put", "get", "refill"} =>
              call[d] = [type |-> IF pc[d] = "get" THEN OP_READ ELSE OP_ADD,
                         key |-> intqueries[d][i[d]]]
        /\ pc[d] \in {"put", "refill"} => res[d] # 1
        /\ pc[d] \in {"off", "convert"} => tp[d].num_miss = 0
        /\ job[d] # "none" => res[d] # 0
  <2>1. \A d \in Clients \ {c} : calls(d)'
      BY <1>2, OthersKept DEF Calls
  <2>2. calls(c)'
    <3> USE DEF CInv, TypeOK, HbTypeOK, Goto, mainvars, kvars, hbvars
    <3>1. CASE Convert(c) \/ While(c) \/ OpUnknown(c) \/ Test(c)
      <4>1. pc'[c] \in {"while", "done", "op", "test"}
          BY <3>1 DEF Convert, While, OpUnknown, Test
      <4>2. job' = job /\ job[c] = "none"
          BY <3>1 DEF Convert, While, OpUnknown, Test, Phases
      <4> QED BY <4>1, <4>2
    <3>2. CASE Op(c) \/ Refill(c)
      <4>1. PICK type \in {OP_ADD, OP_READ}, label \in {"put", "get", "refill"} :
            /\ DbCall(c, type, label)
            /\ type = IF label = "get" THEN OP_READ ELSE OP_ADD
            /\ pc[c] \in {"op", "miss"}
          BY <3>2 DEF Op, Refill
      <4>2. pc'[c] = label /\ call'[c] = [type |-> type, key |-> intqueries'[c][i'[c]]]
          BY <4>1 DEF DbCall
      <4>3. res' = res /\ job' = job /\ res[c] = 0 /\ job[c] = "none"
          BY <4>1 DEF DbCall, KV!Invoke, Phases
      <4> QED BY <4>1, <4>2, <4>3
    <3>3. CASE Perform(c)
        BY <3>3 DEF Perform, KV!Put, KV!Get, KV!Pending, Calls, Phases
    <3>4. CASE CountJob(c)
        BY <3>4 DEF CountJob, JobLoad, JobBeat, Calls
    <3>5. CASE PutReturns(c) \/ RefillReturns(c) \/ GetMisses(c) \/ GetHits(c)
      <4>1. pc'[c] \in {"test", "miss"} /\ DbReturn(c)
          BY <3>5 DEF PutReturns, RefillReturns, GetMisses, GetHits
      <4>2. job'[c] = "none"
          BY <4>1 DEF DbReturn, JobReturn
      <4> QED BY <4>1, <4>2
    <3> QED BY <1>2, <3>1, <3>2, <3>3, <3>4, <3>5 DEF ClientStep
  <2>3. \A d \in Clients : calls(d)'
      BY <2>1, <2>2
  <2> QED BY <2>3 DEF Calls
<1> QED BY <1>1, <1>2 DEF Next

-------------------------------------------------------------------------------
(* Misses *)

LEMMA KeysFinite ==
    ASSUME CInv, NEW c \in Clients
    PROVE  IsFiniteSet(KeysOf(c)) /\ \A M \in SUBSET KeysOf(c) : IsFiniteSet(M)
<1>1. DOMAIN intqueries[c] = 0..(num_ops - 1) /\ num_ops - 1 \in Int
    BY Parts DEF CInv, TypeOK
<1>2. IsFiniteSet(DOMAIN intqueries[c])
    BY <1>1, FS_Interval
<1>3. intqueries[c] \in Surjection(DOMAIN intqueries[c], KeysOf(c))
    BY <1>1 DEF Surjection, KeysOf, CInv, TypeOK
<1>4. IsFiniteSet(KeysOf(c))
    BY <1>2, <1>3, FS_Surjection
<1> QED BY <1>4, FS_Subset

LEMMA MissesStart == Init => Misses
<1> SUFFICES ASSUME Init, NEW c \in Clients PROVE Missed(c)
    BY DEF Misses
<1>1. tp[c].num_miss = 0 /\ pc[c] = "off"
    BY DEF Init, NoCounts
<1>2. Cardinality({}) = 0
    BY FS_EmptySet
<1> QED BY <1>1, <1>2 DEF Missed

LEMMA MissesStep == CInv /\ Calls /\ Misses /\ [Next]_vars => Misses'
<1> SUFFICES ASSUME CInv, Calls, Misses, [Next]_vars PROVE Misses'
    OBVIOUS
\* A client whose own state stays: what it missed is still in the store.
<1>1. ASSUME NEW d \in Clients, store \subseteq store', tp'[d] = tp[d], i'[d] = i[d],
             intqueries'[d] = intqueries[d], res'[d] = res[d],
             pc'[d] = pc[d] \/ (pc[d] = "off" /\ pc'[d] = "convert")
      PROVE  Missed(d)'
  <2>1. KeysOf(d)' = KeysOf(d)
    BY <1>1 DEF KeysOf
  <2>2. PICK M \in SUBSET KeysOf(d) :
        /\ Cardinality(M) = tp[d].num_miss
        /\ IF pc[d] = "miss" \/ (pc[d] = "refill" /\ res[d] = 0)
           THEN M \subseteq store \cup {intqueries[d][i[d]]}
           ELSE M \subseteq store
        /\ pc[d] = "get" /\ res[d] = 1 => intqueries[d][i[d]] \notin M
    BY DEF Misses, Missed
  <2>3. Cardinality(M) = tp'[d].num_miss
    BY <1>1, <2>2
  <2>4. IF pc'[d] = "miss" \/ (pc'[d] = "refill" /\ res'[d] = 0)
        THEN M \subseteq store' \cup {intqueries'[d][i'[d]]}
        ELSE M \subseteq store'
    BY <1>1, <2>2
  <2>5. pc'[d] = "get" /\ res'[d] = 1 => intqueries'[d][i'[d]] \notin M
    BY <1>1, <2>2
  <2> QED BY <2>1, <2>3, <2>4, <2>5 DEF Missed
<1>2. CASE MainStep \/ Trigger \/ Timer \/ UNCHANGED vars
    BY <1>1, <1>2, ClientsKept DEF Misses
<1>3. ASSUME NEW c \in Clients, ClientStep(c) PROVE Misses'
  <2>1. \A d \in Clients \ {c} : Missed(d)'
    BY <1>1, <1>3, OthersKept
  <2> SUFFICES Missed(c)'
    BY <2>1 DEF Misses
  <2> DEFINE key == intqueries[c][i[c]]
  <2>2. PICK M \in SUBSET KeysOf(c) :
        /\ Cardinality(M) = tp[c].num_miss
        /\ IF pc[c] = "miss" \/ (pc[c] = "refill" /\ res[c] = 0)
           THEN M \subseteq store \cup {key}
           ELSE M \subseteq store
        /\ pc[c] = "get" /\ res[c] = 1 => key \notin M
    BY DEF Misses, Missed
  \* Most of its steps go on with the same keys.
  <2>3. ASSUME KeysOf(c)' = KeysOf(c), tp'[c].num_miss = tp[c].num_miss,
               M \subseteq store', ~ (pc'[c] = "get" /\ res'[c] = 1)
        PROVE  Missed(c)'
    BY <2>2, <2>3 DEF Missed
  <2>4. intqueries' = intqueries => KeysOf(c)' = KeysOf(c)
    BY DEF KeysOf
  <2>5. store \subseteq store'
    BY <1>3, OthersKept
  <2>6. i[c] < num_ops => key \in KeysOf(c)
    <3>1. i[c] < num_ops => i[c] \in DOMAIN intqueries[c]
      BY Parts DEF CInv, TypeOK
    <3> QED BY <3>1 DEF KeysOf
  <2>7. CASE Convert(c)
    <3>1. tp'[c].num_miss = 0 /\ pc'[c] = "while"
      BY <2>7 DEF Convert, Calls, Goto, CInv, TypeOK
    <3>2. Cardinality({}) = 0
      BY FS_EmptySet
    <3> QED BY <3>1, <3>2 DEF Missed
  <2>8. CASE While(c) \/ OpUnknown(c) \/ Test(c)
    <3>1. UNCHANGED <<intqueries, tp, store>> /\ pc[c] \notin {"miss", "refill"}
      BY <2>8 DEF While, OpUnknown, Test, kvars
    <3>2. pc'[c] # "get"
      BY <2>8 DEF While, OpUnknown, Test, Goto, CInv, TypeOK
    <3> QED BY <2>2, <2>3, <2>4, <3>1, <3>2
  <2>9. CASE Op(c)
    <3>1. UNCHANGED <<intqueries, tp, store, res>> /\ pc[c] = "op"
      BY <2>9 DEF Op, DbCall, KV!Invoke
    <3>2. res[c] = 0
      BY <3>1 DEF CInv, Phases
    <3> QED BY <2>2, <2>3, <2>4, <3>1, <3>2
  <2>10. CASE Refill(c)
    <3>1. UNCHANGED <<intqueries, tp, store, res, i>> /\ pc[c] = "miss"
      BY <2>10 DEF Refill, DbCall, KV!Invoke
    <3>2. res[c] = 0 /\ pc'[c] = "refill"
      BY <2>10, <3>1 DEF Refill, DbCall, Goto, CInv, TypeOK, Phases
    <3>3. M \subseteq store' \cup {intqueries'[c][i'[c]]} /\ KeysOf(c)' = KeysOf(c)
      BY <2>2, <2>4, <3>1
    <3> QED BY <2>2, <3>1, <3>2, <3>3 DEF Missed
  <2>11. CASE CountJob(c)
    <3>1. UNCHANGED <<intqueries, tp, store, res, i, pc>> /\ res[c] # 0
      BY <2>11 DEF CountJob, kvars
    <3>2. KeysOf(c)' = KeysOf(c)
      BY <2>4, <3>1
    <3> QED BY <2>2, <3>1, <3>2 DEF Missed
  <2>12. CASE Perform(c)
    <3>1. UNCHANGED <<intqueries, tp, i, pc>> /\ KeysOf(c)' = KeysOf(c)
      BY <2>4, <2>12 DEF Perform
    <3>2. call[c] # NoCall /\ res[c] = 0 /\ pc[c] \in {"put", "get", "refill"}
      BY <2>12 DEF Perform, KV!Put, KV!Get, KV!Pending, CInv, TypeOK
    <3>3. call[c].key = key /\ call[c].type = IF pc[c] = "get" THEN OP_READ ELSE OP_ADD
      <4>1. call[c] = [type |-> IF pc[c] = "get" THEN OP_READ ELSE OP_ADD, key |-> key]
        BY <3>2 DEF Calls
      <4> QED BY <4>1
    <3>4. CASE pc[c] = "get"
      <4>1. res' = [res EXCEPT ![c] = IF key \in store THEN 2 ELSE 1] /\ store' = store
        BY <2>12, <3>3, <3>4 DEF Perform, KV!Put, KV!Get, KV!Pending
      <4>2. res'[c] = 1 => key \notin M
        BY <2>2, <3>4, <4>1 DEF CInv, TypeOK
      <4> QED BY <2>2, <3>1, <3>4, <4>1, <4>2 DEF Missed
    <3>5. CASE pc[c] # "get"
      <4>1. store' = store \cup {key}
        BY <2>12, <3>3, <3>5 DEF Perform, KV!Put, KV!Get, KV!Pending
      <4>2. M \subseteq store'
        BY <2>2, <4>1
      <4> QED BY <2>3, <3>1, <3>5, <4>2
    <3> QED BY <3>4, <3>5
  <2>13. CASE PutReturns(c) \/ GetHits(c) \/ RefillReturns(c)
    <3>1. UNCHANGED <<intqueries, store>> /\ res[c] # 0 /\ pc[c] # "miss"
      BY <2>13 DEF PutReturns, GetHits, RefillReturns, DbReturn, KV!Return
    <3>2. pc'[c] = "test"
      BY <2>13 DEF PutReturns, GetHits, RefillReturns, Goto, CInv, TypeOK
    <3>3. tp'[c].num_miss = tp[c].num_miss
      <4>1. CASE PutReturns(c)
        BY <4>1, CountersMove
      <4>2. CASE GetHits(c)
        BY <4>2, CountersMove
      <4>3. CASE RefillReturns(c)
        BY <4>3 DEF RefillReturns
      <4> QED BY <2>13, <4>1, <4>2, <4>3
    <3> QED BY <2>2, <2>3, <2>4, <3>1, <3>2, <3>3
  <2>14. CASE GetMisses(c)
    <3>1. UNCHANGED <<intqueries, store, i>> /\ res[c] = 1 /\ pc[c] = "get"
      BY <2>14 DEF GetMisses, DbReturn, KV!Return
    <3>2. pc'[c] = "miss"
      BY <2>14 DEF GetMisses, Goto, CInv, TypeOK
    <3>3. tp'[c].num_miss = tp[c].num_miss + 1
      BY <2>14, CountersMove
    <3>4. key \notin M /\ key \in KeysOf(c) /\ M \subseteq store
      BY <2>2, <2>6, <3>1 DEF CInv, Phases
    <3>5. Cardinality(M \cup {key}) = tp'[c].num_miss
      BY <2>2, <3>3, <3>4, KeysFinite, FS_AddElement
    <3>6. M \cup {key} \in SUBSET KeysOf(c)'
      BY <2>2, <2>4, <3>1, <3>4
    <3>7. M \cup {key} \subseteq store' \cup {intqueries'[c][i'[c]]}
      BY <3>1, <3>4
    <3> HIDE DEF key
    <3> QED BY <3>2, <3>5, <3>6, <3>7 DEF Missed
  <2> QED BY <1>3, <2>7, <2>8, <2>9, <2>10, <2>11, <2>12, <2>13, <2>14 DEF ClientStep
<1> QED BY <1>2, <1>3 DEF Next

-------------------------------------------------------------------------------
(* Totals *)

LEMMA CountersType ==
    ASSUME CInv, NEW c \in Clients
    PROVE  /\ tp[c].num_puts \in Nat /\ tp[c].num_gets \in Nat
           /\ tp[c].num_miss \in Nat /\ tp[c].num_hits \in Nat
<1>1. tp[c] \in [{"num_puts", "num_gets", "num_miss", "num_hits"} -> Nat]
    BY CountsDomain DEF CInv, TypeOK
<1> QED BY ONLY <1>1

\* Each get is a hit or a miss.
LEMMA GetsStep ==
    ASSUME CInv, [Next]_vars, \A c \in Clients : tp[c].num_gets = tp[c].num_hits + tp[c].num_miss
    PROVE  \A c \in Clients : tp'[c].num_gets = tp'[c].num_hits + tp'[c].num_miss
<1>1. CASE MainStep \/ Trigger \/ Timer \/ UNCHANGED vars
    BY <1>1, ClientsKept
<1>2. ASSUME NEW c \in Clients, ClientStep(c)
      PROVE  \A d \in Clients : tp'[d].num_gets = tp'[d].num_hits + tp'[d].num_miss
  <2>1. \A d \in Clients \ {c} : tp'[d] = tp[d]
    BY <1>2, OthersKept
  <2>2. CASE PutReturns(c) \/ GetMisses(c) \/ GetHits(c)
    <3>1. tp[c].num_gets \in Nat /\ tp[c].num_hits \in Nat /\ tp[c].num_miss \in Nat
      BY CountersType
    <3>2. tp[c].num_gets = tp[c].num_hits + tp[c].num_miss
      OBVIOUS
    <3>3. CASE PutReturns(c)
      <4>1. /\ tp'[c].num_gets = tp[c].num_gets /\ tp'[c].num_miss = tp[c].num_miss
            /\ tp'[c].num_hits = tp[c].num_hits
        BY <3>3, CountersMove
      <4>2. tp'[c].num_gets = tp'[c].num_hits + tp'[c].num_miss
        BY ONLY <3>1, <3>2, <4>1
      <4> QED BY <2>1, <4>2
    <3>4. CASE GetMisses(c)
      <4>1. /\ tp'[c].num_gets = tp[c].num_gets + 1 /\ tp'[c].num_miss = tp[c].num_miss + 1
            /\ tp'[c].num_hits = tp[c].num_hits
        BY <3>4, CountersMove
      <4>2. tp'[c].num_gets = tp'[c].num_hits + tp'[c].num_miss
        BY ONLY <3>1, <3>2, <4>1
      <4> QED BY <2>1, <4>2
    <3>5. CASE GetHits(c)
      <4>1. /\ tp'[c].num_gets = tp[c].num_gets + 1 /\ tp'[c].num_miss = tp[c].num_miss
            /\ tp'[c].num_hits = tp[c].num_hits + 1
        BY <3>5, CountersMove
      <4>2. tp'[c].num_gets = tp'[c].num_hits + tp'[c].num_miss
        BY ONLY <3>1, <3>2, <4>1
      <4> QED BY <2>1, <4>2
    <3> QED BY <2>2, <3>3, <3>4, <3>5
  <2>3. CASE tp' = tp
    BY <2>3
  <2>4. PutReturns(c) \/ GetMisses(c) \/ GetHits(c) \/ tp' = tp
    BY <1>2 DEF ClientStep, Convert, While, Op, DbCall, OpUnknown, Perform, CountJob,
                Refill, RefillReturns, Test
  <2> QED BY <2>2, <2>3, <2>4
<1> QED BY <1>1, <1>2 DEF Next

\* Counter f of all clients.
Column(f) == [c \in Clients |-> tp[c][f]]

LEMMA ColumnType ==
    ASSUME CInv, NEW f \in DOMAIN NoCounts
    PROVE  Column(f) \in [Clients -> Nat]
BY DEF Column, CInv, TypeOK

LEMMA TotalsStart == Init => Totals
BY DEF Init, Totals, NoCounts

LEMMA TotalsStep == CInv /\ Totals /\ [Next]_vars => Totals'
<1> SUFFICES ASSUME CInv, Totals, [Next]_vars PROVE Totals'
    OBVIOUS
<1>1. \A c \in Clients : tp'[c].num_gets = tp'[c].num_hits + tp'[c].num_miss
    BY GetsStep DEF Totals
\* Where main is in its program, and the totals, are its own.
<1>2. ASSUME UNCHANGED <<main, t, result>>,
             main \in {"join", "joined", "free", "bye"} =>
                 \A c \in 0..(t - 1) : c \in Clients /\ tp'[c] = tp[c]
      PROVE  Totals'
  <2>1. ASSUME main \in {"join", "joined", "free", "bye"}, NEW f \in DOMAIN NoCounts
        PROVE  result[f] = SumFunctionOnSet(Column(f)', 0..(t - 1))
    <3>1. result[f] = SumFunctionOnSet(Column(f), 0..(t - 1))
      BY <2>1 DEF Totals, Column
    <3>2. \A c \in 0..(t - 1) : Column(f)[c] \in Int /\ Column(f)[c] = Column(f)'[c]
      <4>1. Column(f) \in [Clients -> Nat]
        BY ColumnType
      <4>2. \A c \in Clients : Column(f)[c] = tp[c][f] /\ Column(f)'[c] = tp'[c][f]
        BY DEF Column
      <4> QED BY <1>2, <2>1, <4>1, <4>2
    <3>3. IsFiniteSet(0..(t - 1))
      BY FS_Interval DEF CInv, TypeOK
    <3>4. SumFunctionOnSet(Column(f), 0..(t - 1)) = SumFunctionOnSet(Column(f)', 0..(t - 1))
      BY <3>2, <3>3, SumSame
    <3> QED BY <3>1, <3>4
  <2>2. main' \in {"db_new", "create", "alarm"} => result' = NoCounts
    BY <1>2 DEF Totals
  <2>3. main' \in {"joined", "free", "bye"} => t' = num_threads
    BY <1>2 DEF Totals
  <2>4. main' \in {"join", "joined", "free", "bye"} =>
          \A f \in DOMAIN NoCounts : result'[f] = SumFunctionOnSet(Column(f)', 0..(t' - 1))
    BY <1>2, <2>1
  <2> QED BY <1>1, <2>2, <2>3, <2>4 DEF Totals, Column
\* The clients that main has joined have ended.
<1>3. ASSUME NEW c \in Clients, ClientStep(c) PROVE Totals'
  <2>1. UNCHANGED <<main, t, result>> /\ \A d \in Clients \ {c} : tp'[d] = tp[d]
    BY <1>3, OthersKept
  <2>2. pc[c] # "done"
    BY <1>3 DEF ClientStep, Convert, While, Op, OpUnknown, Perform, CountJob, PutReturns,
                GetMisses, GetHits, Refill, RefillReturns, Test, KV!Put, KV!Get, KV!Pending,
                CInv, TypeOK, Phases
  <2>3. main \in {"join", "joined", "free", "bye"} => main = "join" /\ t <= c
    BY <2>2 DEF CInv, TypeOK, Phases
  <2>4. main \in {"join", "joined", "free", "bye"} =>
            \A d \in 0..(t - 1) : d \in Clients /\ tp'[d] = tp[d]
    <3>1. t \in 0..num_threads
      BY DEF CInv, TypeOK
    <3>2. t <= c => \A d \in 0..(t - 1) : d \in Clients \ {c}
      BY <3>1
    <3> QED BY <2>1, <2>3, <3>2
  <2> QED BY <1>2, <2>1, <2>4
<1>4. CASE Trigger \/ Timer \/ UNCHANGED vars
  <2>1. UNCHANGED <<main, t, result, tp>>
    BY <1>4 DEF Trigger, Timer, vars, mainvars
  <2>2. \A c \in 0..(t - 1) : c \in Clients
    BY DEF CInv, TypeOK
  <2> QED BY <1>2, <2>1, <2>2
<1>5. CASE DbNew \/ Create
  <2>1. main' \in {"create", "alarm"} /\ main \in {"db_new", "create"} /\ result' = result
    BY <1>5 DEF DbNew, Create, AtMain
  <2> QED BY <1>1, <2>1 DEF Totals
<1>6. CASE SetAlarm
  <2>1. main = "alarm" /\ main' = "join" /\ t' = 0 /\ result' = result
    BY <1>6 DEF SetAlarm, AtMain
  <2>2. result' = NoCounts /\ 0..(t' - 1) = {}
    BY <2>1 DEF Totals
  <2>3. \A f \in DOMAIN NoCounts : result'[f] = 0
    BY <2>2 DEF NoCounts
  <2>4. \A f : SumFunctionOnSet(Column(f)', 0..(t' - 1)) = 0
    BY <2>2, SumEmpty
  <2> QED BY <1>1, <2>1, <2>3, <2>4 DEF Totals, Column
<1>7. CASE Join
  <2>1. /\ main = "join" /\ t' = t + 1 /\ tp' = tp /\ t < num_threads
        /\ main' = IF t' = num_threads THEN "joined" ELSE "join"
        /\ \A f \in DOMAIN NoCounts : result'[f] = result[f] + tp[t][f]
    BY <1>7 DEF Join, AtMain, CInv, TypeOK
  <2>2. ASSUME NEW f \in DOMAIN NoCounts
        PROVE  result'[f] = SumFunctionOnSet(Column(f)', 0..(t' - 1))
    <3>1. t \in Clients /\ 0..(t' - 1) = 0..(t - 1) \cup {t} /\ t \notin 0..(t - 1)
      BY <2>1 DEF CInv, TypeOK
    <3>2. Column(f)' = Column(f) /\ Column(f)[t] = tp[t][f]
      BY <2>1, <3>1 DEF Column
    <3>3. result[f] = SumFunctionOnSet(Column(f), 0..(t - 1))
      BY <2>1 DEF Totals, Column
    <3>4. Column(f)[t] \in Int /\ \A c \in 0..(t - 1) : Column(f)[c] \in Int
      <4>1. Column(f) \in [Clients -> Nat] /\ 0..(t - 1) \subseteq Clients
        BY <3>1, ColumnType
      <4> QED BY <3>1, <4>1
    <3>5. IsFiniteSet(0..(t - 1))
      BY <3>1, FS_Interval
    <3>6. SumFunctionOnSet(Column(f), 0..(t - 1) \cup {t})
            = SumFunctionOnSet(Column(f), 0..(t - 1)) + Column(f)[t]
      <4> DEFINE joined == 0..(t - 1)
      <4>1. IsFiniteSet(joined) /\ t \notin joined /\ \A c \in joined : Column(f)[c] \in Int
        BY <3>1, <3>4, <3>5
      <4> HIDE DEF joined
      <4>2. SumFunctionOnSet(Column(f), joined \cup {t})
              = SumFunctionOnSet(Column(f), joined) + Column(f)[t]
        BY <3>4, <4>1, SumAddElement
      <4> QED BY <4>2 DEF joined
    <3> QED BY <2>1, <3>1, <3>2, <3>3, <3>6
  <2>3. /\ main' \in {"join", "joined"}
        /\ main' \in {"joined", "free", "bye"} => t' = num_threads
    BY <2>1
  <2> QED BY <1>1, <2>2, <2>3 DEF Totals, Column
<1>8. CASE DbFree \/ DbFreed
  <2>1. /\ main \in {"joined", "free"} /\ main' \in {"free", "bye"}
        /\ UNCHANGED <<t, result, tp>>
    BY <1>8 DEF DbFree, DbFreed, AtMain
  <2> QED BY <1>1, <2>1 DEF Totals
<1> QED BY <1>3, <1>4, <1>5, <1>6, <1>7, <1>8 DEF Next, MainStep

LEMMA TotalsAreSums == CInv /\ Totals => TotalsAreFinal
<1> SUFFICES ASSUME CInv, Totals, main \in {"joined", "free", "bye"}
             PROVE  /\ \A f \in DOMAIN NoCounts : result[f] = SumFunction(Column(f))
                    /\ result.num_gets = result.num_hits + result.num_miss
    BY DEF TotalsAreFinal, Column
<1>1. \A f : SumFunction(Column(f)) = SumFunctionOnSet(Column(f), Clients)
    BY DEF SumFunction, Column
<1>2. 0..(t - 1) = Clients
    BY DEF Totals
<1>3. \A f \in DOMAIN NoCounts : result[f] = SumFunctionOnSet(Column(f), Clients)
    BY <1>2 DEF Totals, Column
<1>4. SumFunctionOnSet(Column("num_gets"), Clients)
        = SumFunctionOnSet(Column("num_hits"), Clients)
            + SumFunctionOnSet(Column("num_miss"), Clients)
  <2>1. \A f \in DOMAIN NoCounts : \A c \in Clients : Column(f)[c] \in Int
    BY ColumnType
  <2>2. \A c \in Clients :
            Column("num_gets")[c] = Column("num_hits")[c] + Column("num_miss")[c]
    BY DEF Totals, Column
  <2>3. \A c \in Clients :
            /\ Column("num_hits")[c] \in Int
            /\ Column("num_miss")[c] \in Int
            /\ Column("num_gets")[c] = Column("num_hits")[c] + Column("num_miss")[c]
    BY <2>1, <2>2, CountsDomain
  <2> QED BY <2>3, ClientsFinite, SumOfTwo
<1> QED BY <1>1, <1>3, <1>4, CountsDomain

-------------------------------------------------------------------------------
(* The count of the heartbeats *)

LEMMA JobsType ==
    ASSUME CInv, NEW c \in Clients
    PROVE  Jobs(c) \in Int /\ Counted(c) \in Int /\ Counted(c) <= Jobs(c)
<1>1. /\ tp[c].num_puts \in Nat /\ tp[c].num_gets \in Nat /\ tp[c].num_miss \in Nat
    BY CountersType
<1>2. Jobs(c) \in Int
    BY ONLY <1>1 DEF Jobs
<1> QED BY ONLY <1>2 DEF Counted

\* The jobs told of, by client.
Told == [c \in Clients |-> Counted(c)]

LEMMA ToldSum ==
    ASSUME CInv
    PROVE  /\ SumFunction(Told) = SumFunctionOnSet(Told, Clients)
           /\ SumFunction(Told) \in Int /\ \A c \in Clients : Told[c] \in Int
<1>1. SumFunction(Told) = SumFunctionOnSet(Told, Clients)
    BY DEF SumFunction, Told
<1>2. \A c \in Clients : Told[c] \in Int
    BY JobsType DEF Told
<1> QED BY <1>1, <1>2, ClientsFinite, SumType

\* What a client has told of never gets less, and a step of it that adds a job tells of one.
LEMMA ToldGrows ==
    ASSUME CInv, Calls, NEW c \in Clients, ClientStep(c)
    PROVE  /\ Counted(c)' >= Counted(c)
           /\ CountJob(c) /\ JobBeat(c) => Counted(c)' = Counted(c) + 1
<1>1. /\ tp[c].num_puts \in Nat /\ tp[c].num_gets \in Nat /\ tp[c].num_miss \in Nat
    BY CountersType
<1>2. Counted(c) \in Int
    BY JobsType
<1> DEFINE puts == tp[c].num_puts
           gets == tp[c].num_gets
           miss == tp[c].num_miss
           done == IF res[c] # 0 THEN 1 ELSE 0
           ahead == IF pc[c] \in {"miss", "refill"} THEN 1 ELSE 0
           untold == IF res[c] # 0 /\ job[c] # "counted" THEN 1 ELSE 0
<1>3. /\ Counted(c) = (puts + gets + miss + (done - ahead)) - untold
      /\ Counted(c)' = (puts' + gets' + miss' + (done' - ahead')) - untold'
  <2>1. Counted(c) = (puts + gets + miss + (done - ahead)) - untold
    BY ONLY Zenon DEF Counted, Jobs
  <2>2. Counted(c)' = (puts' + gets' + miss' + (done' - ahead')) - untold'
    BY ONLY Zenon DEF Counted, Jobs
  <2> QED BY <2>1, <2>2
<1>4. puts \in Nat /\ gets \in Nat /\ miss \in Nat
    BY <1>1
<1>5. done \in 0..1 /\ ahead \in 0..1 /\ untold \in 0..1
    OBVIOUS
<1> USE DEF CInv, TypeOK, HbTypeOK, Goto, kvars, hbvars
<1>6. CASE Convert(c) \/ While(c) \/ OpUnknown(c) \/ Test(c) \/ Op(c) \/ Refill(c)
  <2>1. UNCHANGED <<tp, res, job>>
    BY <1>6 DEF Convert, While, OpUnknown, Test, Op, Refill, DbCall, KV!Invoke
  <2>2. ahead' = ahead
    BY <1>6 DEF Convert, While, OpUnknown, Test, Op, Refill, DbCall
  <2>3. ~ CountJob(c)
    BY <1>6, <2>1 DEF CountJob, JobLoad, JobBeat
  <2>4. UNCHANGED <<puts, gets, miss, done, ahead, untold>>
    BY <2>1, <2>2
  <2> HIDE DEF puts, gets, miss, done, ahead, untold
  <2> QED BY <1>2, <1>3, <2>3, <2>4
<1>7. CASE Perform(c)
  <2>1. UNCHANGED <<tp, job, pc>> /\ res[c] = 0 /\ res'[c] # 0
    BY <1>7 DEF Perform, KV!Put, KV!Get, KV!Pending
  <2>2. job[c] = "none"
    BY <2>1 DEF Calls
  <2>3. /\ UNCHANGED <<puts, gets, miss, ahead>>
        /\ done = 0 /\ done' = 1 /\ untold = 0 /\ untold' = 1
    BY <2>1, <2>2
  <2>4. ~ CountJob(c)
    BY <2>1 DEF CountJob
  <2> HIDE DEF puts, gets, miss, done, ahead, untold
  <2> QED BY <1>3, <1>4, <1>5, <2>3, <2>4
<1>8. CASE CountJob(c)
  <2>1. UNCHANGED <<tp, res, pc>> /\ res[c] # 0
    BY <1>8 DEF CountJob
  <2>2. /\ UNCHANGED <<puts, gets, miss, done, ahead>>
    BY <2>1
  <2>3. CASE JobLoad(c)
    <3>1. job[c] # "counted" /\ job'[c] # "counted" /\ ~ JobBeat(c)
      BY <2>3 DEF JobLoad, JobBeat
    <3>2. untold' = untold
      BY <2>1, <3>1
    <3> HIDE DEF puts, gets, miss, done, ahead, untold
    <3> QED BY <1>3, <1>4, <1>5, <2>2, <3>1, <3>2
  <2>4. CASE JobBeat(c)
    <3>1. job[c] # "counted" /\ job'[c] = "counted"
      BY <2>4 DEF JobBeat
    <3>2. untold = 1 /\ untold' = 0
      BY <2>1, <3>1
    <3> HIDE DEF puts, gets, miss, done, ahead, untold
    <3> QED BY <1>3, <1>4, <1>5, <2>2, <3>2
  <2> QED BY <1>8, <2>3, <2>4 DEF CountJob
<1>9. CASE PutReturns(c) \/ GetMisses(c) \/ GetHits(c) \/ RefillReturns(c)
  <2>1. res[c] # 0 /\ res'[c] = 0
    BY <1>9 DEF PutReturns, GetMisses, GetHits, RefillReturns, DbReturn, KV!Return
  <2>2. done = 1 /\ done' = 0 /\ untold' = 0 /\ ~ CountJob(c)
    BY <2>1 DEF CountJob, kvars
  <2>3. CASE PutReturns(c)
    <3>1. puts' = puts + 1 /\ gets' = gets /\ miss' = miss
      BY <2>3, CountersMove
    <3>2. ahead = 0 /\ ahead' = 0
      BY <2>3 DEF PutReturns
    <3> HIDE DEF puts, gets, miss, done, ahead, untold
    <3> QED BY <1>3, <1>4, <1>5, <2>2, <3>1, <3>2
  <2>4. CASE GetMisses(c)
    <3>1. puts' = puts /\ gets' = gets + 1 /\ miss' = miss + 1
      BY <2>4, CountersMove
    <3>2. ahead = 0 /\ ahead' = 1
      BY <2>4 DEF GetMisses
    <3> HIDE DEF puts, gets, miss, done, ahead, untold
    <3> QED BY <1>3, <1>4, <1>5, <2>2, <3>1, <3>2
  <2>5. CASE GetHits(c)
    <3>1. puts' = puts /\ gets' = gets + 1 /\ miss' = miss
      BY <2>5, CountersMove
    <3>2. ahead = 0 /\ ahead' = 0
      BY <2>5 DEF GetHits
    <3> HIDE DEF puts, gets, miss, done, ahead, untold
    <3> QED BY <1>3, <1>4, <1>5, <2>2, <3>1, <3>2
  <2>6. CASE RefillReturns(c)
    <3>1. puts' = puts /\ gets' = gets /\ miss' = miss
      BY <2>6 DEF RefillReturns
    <3>2. ahead = 1 /\ ahead' = 0
      BY <2>6 DEF RefillReturns
    <3> HIDE DEF puts, gets, miss, done, ahead, untold
    <3> QED BY <1>3, <1>4, <1>5, <2>2, <3>1, <3>2
  <2> QED BY <1>9, <2>3, <2>4, <2>5, <2>6
<1> QED BY <1>6, <1>7, <1>8, <1>9 DEF ClientStep

LEMMA HeartCountsStart == Init => HeartCounts
<1> SUFFICES ASSUME Init PROVE HeartCounts
    OBVIOUS
<1>1. CInv
    BY CStarts
<1>2. heartbeatcount = 0 /\ \A c \in Clients : job[c] = "none" /\ Told[c] = 0
    BY DEF Init, HbStart, KV!Init, NoCounts, Told, Counted, Jobs
<1>3. SumFunctionOnSet(Told, Clients) = Cardinality(Clients) * 0
    BY <1>2, ClientsFinite, SumConstant
<1>4. Cardinality(Clients) \in Nat
    BY ClientsFinite, FS_CardinalityType
<1>5. SumFunction(Told) = 0
    BY <1>1, <1>3, <1>4, ToldSum
<1> QED BY <1>2, <1>5 DEF HeartCounts, Told

\* The sum after a step.
LEMMA ToldSumNext ==
    ASSUME CInv'
    PROVE  /\ SumFunction(Told') = SumFunctionOnSet(Told', Clients)
           /\ SumFunction(Told') \in Int /\ \A c \in Clients : Told'[c] \in Int
<1>1. SumFunction(Told') = SumFunctionOnSet(Told', Clients)
    BY DEF SumFunction, Told
<1>2. ASSUME NEW c \in Clients PROVE Told'[c] \in Int
  <2>1. tp'[c] \in [{"num_puts", "num_gets", "num_miss", "num_hits"} -> Nat]
    BY CountsDomain DEF CInv, TypeOK
  <2>2. tp'[c].num_puts \in Nat /\ tp'[c].num_gets \in Nat /\ tp'[c].num_miss \in Nat
    BY ONLY <2>1
  <2>3. Counted(c)' \in Int
    BY ONLY <2>2 DEF Counted, Jobs
  <2> QED BY <2>3 DEF Told
<1> QED BY <1>1, <1>2, ClientsFinite, SumType

LEMMA HeartCountsStep == CInv /\ CInv' /\ Calls /\ HeartCounts /\ [Next]_vars => HeartCounts'
<1> SUFFICES ASSUME CInv, CInv', Calls, HeartCounts, [Next]_vars PROVE HeartCounts'
    OBVIOUS
<1> DEFINE sum == SumFunction(Told)
           next == SumFunction(Told')
<1>1. /\ sum = SumFunctionOnSet(Told, Clients) /\ sum \in Int
      /\ \A c \in Clients : Told[c] \in Int
    BY ToldSum
<1>2. /\ next = SumFunctionOnSet(Told', Clients) /\ next \in Int
      /\ \A c \in Clients : Told'[c] \in Int
    BY ToldSumNext
<1>3. heartbeatcount <= sum /\ \A d \in Clients : job[d] = "beat" => reg[d] <= sum
    BY DEF HeartCounts, Told
<1>4. /\ heartbeatcount \in Int /\ heartbeatcount' \in Int
      /\ \A d \in Clients : reg[d] \in Int /\ reg'[d] \in Int
    BY DEF CInv, TypeOK, HbTypeOK
<1>5. SUFFICES heartbeatcount' <= next /\ \A d \in Clients : job'[d] = "beat" => reg'[d] <= next
    BY DEF HeartCounts, Told
<1>6. CASE MainStep \/ Trigger \/ Timer \/ UNCHANGED vars
  <2>1. /\ UNCHANGED <<call, res, job, reg, tp, heartbeatcount>>
        /\ \A d \in Clients : pc'[d] = pc[d] \/ (pc[d] = "off" /\ pc'[d] = "convert")
    BY <1>6, ClientsKept
  <2>2. ASSUME NEW d \in Clients PROVE Told'[d] = Told[d]
    <3>1. pc'[d] \in {"miss", "refill"} <=> pc[d] \in {"miss", "refill"}
      BY <2>1
    <3>2. UNCHANGED <<tp, res, job>>
      BY <2>1
    <3>3. Counted(d)' = Counted(d)
      BY ONLY <3>1, <3>2 DEF Counted, Jobs
    <3> QED BY <3>3 DEF Told
  <2>3. next = sum
    BY <1>1, <1>2, <2>2, ClientsFinite, SumSame
  <2> QED BY <1>3, <2>1, <2>3
<1>7. ASSUME NEW c \in Clients, ClientStep(c)
      PROVE  heartbeatcount' <= next /\ \A d \in Clients : job'[d] = "beat" => reg'[d] <= next
  <2>1. \A d \in Clients \ {c} :
          pc'[d] = pc[d] /\ res'[d] = res[d] /\ job'[d] = job[d] /\ reg'[d] = reg[d] /\ tp'[d] = tp[d]
    BY <1>7, OthersKept
  <2>2. ASSUME NEW d \in Clients \ {c} PROVE Told[d] = Told'[d]
    <3>1. Counted(d)' = Counted(d)
      BY ONLY <2>1, d \in Clients \ {c} DEF Counted, Jobs
    <3> QED BY <3>1 DEF Told
  <2>3. /\ Told'[c] >= Told[c]
        /\ CountJob(c) /\ JobBeat(c) => Told'[c] = Told[c] + 1
    BY <1>7, ToldGrows DEF Told
  <2>4. next = sum + Told'[c] - Told[c]
    <3>1. \A d \in Clients : Told[d] \in Int /\ Told'[d] \in Int
      BY <1>1, <1>2
    <3>2. \A d \in Clients \ {c} : Told[d] = Told'[d]
      BY <2>2
    <3>3. SumFunctionOnSet(Told', Clients)
            = SumFunctionOnSet(Told, Clients) + Told'[c] - Told[c]
      BY ONLY <3>1, <3>2, c \in Clients, ClientsFinite, SumOneChanges
    <3> QED BY <1>1, <1>2, <3>3
  <2>5. sum <= next /\ (CountJob(c) /\ JobBeat(c) => next = sum + 1)
    <3> DEFINE a == Told[c]
               b == Told'[c]
    <3>1. a \in Int /\ b \in Int
      BY <1>1, <1>2
    <3>2. sum \in Int /\ next = sum + b - a /\ b >= a
          /\ (CountJob(c) /\ JobBeat(c) => b = a + 1)
      BY <1>1, <2>3, <2>4
    <3> HIDE DEF a, b, sum, next
    <3> QED BY ONLY <3>1, <3>2
  <2> HIDE DEF sum, next
  <2>6. ASSUME NEW d \in Clients \ {c}, job'[d] = "beat" PROVE reg'[d] <= next
    <3>1. reg'[d] = reg[d] /\ reg[d] <= sum
      BY <1>3, <2>1, <2>6
    <3> QED BY <1>1, <1>2, <1>4, <2>5, <3>1
  <2>7. CASE CountJob(c) /\ JobLoad(c)
    <3>1. heartbeatcount' = heartbeatcount /\ reg'[c] = heartbeatcount
      BY <2>7 DEF JobLoad, CInv, TypeOK, HbTypeOK
    <3>2. heartbeatcount <= next
      BY <1>1, <1>2, <1>3, <1>4, <2>5
    <3> QED BY <2>6, <3>1, <3>2
  <2>8. CASE CountJob(c) /\ JobBeat(c)
    <3>1. job[c] = "beat" /\ heartbeatcount' = reg[c] + 1 /\ job'[c] = "counted"
      BY <2>8 DEF JobBeat, CInv, TypeOK, HbTypeOK
    <3>2. reg[c] <= sum /\ next = sum + 1
      BY <1>3, <2>5, <2>8, <3>1
    <3>3. heartbeatcount' <= next
      BY <1>1, <1>2, <1>4, <3>1, <3>2
    <3> QED BY <2>6, <3>1, <3>3
  <2>9. CASE ~CountJob(c)
    <3>1. /\ heartbeatcount' = heartbeatcount
          /\ (job'[c] = job[c] /\ reg'[c] = reg[c]) \/ job'[c] = "none"
      <4> USE DEF CInv, TypeOK, HbTypeOK, hbvars
      <4>1. CASE Convert(c) \/ While(c) \/ OpUnknown(c) \/ Test(c)
        BY <4>1 DEF Convert, While, OpUnknown, Test
      <4>2. CASE Op(c) \/ Refill(c)
        BY <4>2 DEF Op, Refill, DbCall
      <4>3. CASE Perform(c)
        BY <4>3 DEF Perform
      <4>4. CASE PutReturns(c) \/ GetMisses(c) \/ GetHits(c) \/ RefillReturns(c)
        <5>1. JobReturn(c)
          BY <4>4 DEF PutReturns, GetMisses, GetHits, RefillReturns, DbReturn
        <5> QED BY <5>1 DEF JobReturn
      <4> QED BY <1>7, <2>9, <4>1, <4>2, <4>3, <4>4 DEF ClientStep
    <3>2. heartbeatcount' <= next
      BY <1>1, <1>2, <1>3, <1>4, <2>5, <3>1
    <3>3. job'[c] = "beat" => reg'[c] <= next
      <4> SUFFICES ASSUME job'[c] = "beat" PROVE reg'[c] <= next
        OBVIOUS
      <4>1. reg'[c] = reg[c] /\ reg[c] <= sum
        BY <1>3, <3>1
      <4> QED BY <1>1, <1>2, <1>4, <2>5, <4>1
    <3> QED BY <2>6, <3>2, <3>3
  <2>10. CountJob(c) => JobLoad(c) \/ JobBeat(c)
    BY DEF CountJob
  <2> QED BY <2>7, <2>8, <2>9, <2>10
<1> QED BY <1>6, <1>7 DEF Next

LEMMA BenchAlways == Spec => [](CInv /\ Calls /\ Misses /\ Totals /\ HeartCounts)
<1>1. Init => CInv /\ Calls /\ Misses /\ Totals /\ HeartCounts
    BY CStarts, CallsStart, MissesStart, TotalsStart, HeartCountsStart
<1>2. CInv /\ Calls /\ Misses /\ Totals /\ HeartCounts /\ [Next]_vars
        => (CInv /\ Calls /\ Misses /\ Totals /\ HeartCounts)'
    BY CStep, CallsStep, MissesStep, TotalsStep, HeartCountsStep
<1> QED BY <1>1, <1>2, PTL DEF Spec

-------------------------------------------------------------------------------
(* The theorems *)

\* Type correctness: a client is in the store exactly where queries_exec calls it, and
\* main of bench_client.c waits for threads that it has created.
THEOREM TypeCorrect == Spec => []TypeOK
<1>1. CInv => TypeOK
    BY DEF CInv
<1> QED BY <1>1, CInvAlways, PTL

\* No thread beats a heart that db_new has not made or db_free has freed: the clients
\* have ended when main calls db_free, which joins the timer thread first.
THEOREM HeartStaysAlive == Spec => []HeartAlive
<1>1. CInv => HeartAlive
  <2> SUFFICES ASSUME CInv PROVE HeartAlive
    OBVIOUS
  <2>1. timer = "beat" => heart = "live"
    BY DEF CInv, Phases
  <2>2. ASSUME NEW c \in Clients, job[c] = "beat" PROVE heart = "live"
    <3>1. USE_HB /\ pc[c] \in {"put", "get", "refill"}
      BY <2>2 DEF CInv, Phases
    <3>2. main \notin {"db_new", "bye"}
      BY <3>1 DEF CInv, Phases
    <3> QED BY <3>1, <3>2 DEF CInv, Phases
  <2> QED BY <2>1, <2>2 DEF HeartAlive
<1> QED BY <1>1, CInvAlways, PTL

\* The division of the trace in main of bench_client.c gives every client queries of
\* its own, inside the trace.
THEOREM ClientsRunTheirOwn == Spec => []OwnQueries
<1>1. CInv => OwnQueries
    BY PhasesOwnQueries
<1> QED BY <1>1, CInvAlways, PTL

\* A client never misses more often than it has keys: what it or anyone has put is
\* never forgotten, and a miss of queries_exec is followed by its put before the next
\* get of that client.
THEOREM MissesOnceOnly == Spec => []MissedOnce
<1>1. CInv /\ Misses => MissedOnce
  <2> SUFFICES ASSUME CInv, Misses, NEW c \in Clients
               PROVE  tp[c].num_miss <= Cardinality(KeysOf(c))
    BY DEF MissedOnce
  <2>1. PICK M \in SUBSET KeysOf(c) : Cardinality(M) = tp[c].num_miss
    BY DEF Misses, Missed
  <2> QED BY <2>1, KeysFinite, FS_Subset
<1> QED BY <1>1, BenchAlways, PTL

\* What main of bench_client.c prints is the sum of what every client ended with, and
\* its gets are its hits and misses, wherever the alarm cut the loops.
THEOREM TotalsFinal == Spec => []TotalsAreFinal
<1>1. CInv /\ Totals => TotalsAreFinal
    BY TotalsAreSums
<1> QED BY <1>1, BenchAlways, PTL

\* heartbeatcount, which the clients increment without a lock, loses jobs and never
\* makes them up.
THEOREM CountsBounded == Spec => []CountsNoMoreThanJobs
<1>1. CInv /\ HeartCounts => CountsNoMoreThanJobs
  <2> SUFFICES ASSUME CInv, HeartCounts PROVE CountsNoMoreThanJobs
    OBVIOUS
  <2> DEFINE all == [c \in Clients |-> Jobs(c)]
             told == SumFunctionOnSet(Told, Clients)
             jobs == SumFunctionOnSet(all, Clients)
  <2>1. \A c \in Clients : Told[c] \in Int /\ all[c] \in Int /\ Told[c] <= all[c]
    BY JobsType DEF Told
  <2>2. told <= jobs
    BY <2>1, ClientsFinite, SumMonotonic
  <2>3. told \in Int /\ heartbeatcount <= told
    BY ToldSum DEF HeartCounts, Told
  <2>4. \A c \in Clients : all[c] \in Int
    BY <2>1
  <2>5. jobs \in Int
    BY <2>4, ClientsFinite, SumType
  <2>6. SumFunction(all) = jobs
    BY DEF SumFunction
  <2>7. heartbeatcount \in Int
    BY DEF CInv, TypeOK, HbTypeOK
  <2>8. heartbeatcount <= jobs
    <3> HIDE DEF told, jobs
    <3> QED BY ONLY <2>2, <2>3, <2>5, <2>7
  <2> HIDE DEF jobs
  <2> QED BY <2>6, <2>8 DEF CountsNoMoreThanJobs
<1> QED BY <1>1, BenchAlways, PTL
==============================================================================
