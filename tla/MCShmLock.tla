----------------------------- MODULE MCShmLock -----------------------------
(***************************************************************************)
(* The lock run of Shm begins when the processes are up and have done      *)
(* their mapping: p1 maps both regions, p2 and p3 one each.                *)
(***************************************************************************)
EXTENDS Shm, TLC

CONSTANTS p1, p2, p3, a, b, c1, c2, r1, r2, r3, r4

LockInit ==
  /\ ctable  = {c1, c2}
  /\ name    = (c1 :> a @@ c2 :> b)
  /\ persist = {} /\ empty = {}
  /\ refcnt  = [c \in Ctxs |-> 2]
  /\ lock_by = [c \in Ctxs |-> NULL]
  /\ rmap    = (c1 :> {r1, r3} @@ c2 :> {r2, r4})
  /\ as      = (r1 :> p1 @@ r2 :> p1 @@ r3 :> p2 @@ r4 :> p3)
  /\ store   = (r1 :> c1 @@ r2 :> c2 @@ r3 :> c1 @@ r4 :> c2)
  /\ waiters = <<>>
  /\ pc      = [p \in Procs |-> "run"]
  /\ lctx    = [p \in Procs |-> NULL]
  /\ lmr     = [p \in Procs |-> NULL]
  /\ todo    = [p \in Procs |-> {}]
  /\ child   = [p \in Procs |-> NULL]
  /\ torn    = {}

LockSpec ==
  /\ LockInit /\ [][Next]_vars
  /\ \A p \in Procs : WF_vars(torn = {} /\ Continue(p))
=============================================================================
