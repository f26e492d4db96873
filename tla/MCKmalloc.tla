----------------------------- MODULE MCKmalloc -----------------------------
(* Model-checking instance of Kmalloc. *)
EXTENDS Kmalloc

Sizes == <<1, 2>>

=============================================================================
