---------------------------- MODULE SharedRegions ----------------------------
(***************************************************************************)
(* What named shared memory promises to the processes that use it, with    *)
(* every operation one atomic step: a name stands for at most one region,  *)
(* a region lives as long as it has users, and its lock has one owner.     *)
(***************************************************************************)
EXTENDS Integers

CONSTANTS Names, Procs, NULL

VARIABLE region   \* for each name NULL, or its flag, users and lock owner

Region == [persist : BOOLEAN, users : Nat, owner : Procs \cup {NULL}]

Exists(n) == region[n] # NULL

Create(n, keep) ==
  /\ ~Exists(n)
  /\ region' = [region EXCEPT ![n] = [persist |-> keep, users |-> 0,
                                      owner |-> NULL]]

Destroy(n) ==
  /\ Exists(n) /\ region[n].users = 0
  /\ region' = [region EXCEPT ![n] = NULL]

Attach(n) ==
  /\ Exists(n)
  /\ region' = [region EXCEPT ![n].users = @ + 1]

Detach(n) ==
  /\ Exists(n) /\ region[n].users > 0
  /\ region' = [region EXCEPT ![n].users = @ - 1]

(* The last user of a default region exits. *)
LastExit(n) ==
  /\ Exists(n) /\ region[n].users = 1 /\ ~region[n].persist
  /\ region' = [region EXCEPT ![n] = NULL]

Lock(n, p) ==
  /\ Exists(n) /\ region[n].owner \in {NULL, p}
  /\ region' = [region EXCEPT ![n].owner = p]

Unlock(n) ==
  /\ Exists(n) /\ region[n].owner # NULL
  /\ region' = [region EXCEPT ![n].owner = NULL]

Init == region = [n \in Names |-> NULL]

Next ==
  \E n \in Names :
    \/ \E keep \in BOOLEAN : Create(n, keep)
    \/ Destroy(n) \/ Attach(n) \/ Detach(n) \/ LastExit(n)
    \/ \E p \in Procs : Lock(n, p)
    \/ Unlock(n)

Spec == Init /\ [][Next]_region
=============================================================================
