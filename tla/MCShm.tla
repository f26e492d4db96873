------------------------------- MODULE MCShm -------------------------------
(* Two processes, two names and two regions of memory, with the fairness of *)
(* a scheduler that runs every runnable process.                             *)
EXTENDS Shm
=============================================================================
