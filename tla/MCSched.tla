------------------------------ MODULE MCSched ------------------------------
(* Two processors and two threads besides the idle ones.                     *)
EXTENDS Sched
=============================================================================
