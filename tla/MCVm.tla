-------------------------------- MODULE MCVm --------------------------------
(* Model-checking instances of Vm. *)
EXTENDS Vm, TLC

Sbrks == {1, 2, -2}

Symmetry == Permutations(Procs)

=============================================================================
