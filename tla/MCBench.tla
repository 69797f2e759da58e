------------------------------- MODULE MCBench -------------------------------
(* Small instances of Bench for TLC. *)
EXTENDS Bench
==============================================================================
