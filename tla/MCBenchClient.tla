---------------------------- MODULE MCBenchClient ----------------------------
(* Small instances of BenchClient for TLC. *)
EXTENDS BenchClient

MCClients == 0..(num_threads - 1)

\* The types of the queries: two for each client and one left over, which no client runs.
MCTypes == {<<"get", "put", "get", "get", "get">>, <<"del", "get", "put", "put", "get">>}

MCTraces == {[n \in 0..4 |-> [type |-> types[n + 1], key |-> 1]] : types \in MCTypes}
==============================================================================
