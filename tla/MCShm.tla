-------------------------------- MODULE MCShm --------------------------------
(* Small instances of Shm for TLC. *)
EXTENDS Shm

CONSTANTS t1, t2, t3

\* Two buckets: the even keys collide.
MCBucket == [k \in Keys |-> k % 2]
==============================================================================
