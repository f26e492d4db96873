------------------------------ MODULE MCBdev ------------------------------
(* Two threads and one page of two blocks, each of which holds one of two    *)
(* values.                                                                   *)
EXTENDS Bdev
=============================================================================
