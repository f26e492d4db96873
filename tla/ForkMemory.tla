----------------------------- MODULE ForkMemory -----------------------------
(***************************************************************************)
(* What the memory of processes promises: a process sees what it last      *)
(* wrote, zeros where it never wrote, and after a fork what its parent had *)
(* written by then; a shared page is one and the same for everybody.       *)
(***************************************************************************)
CONSTANTS Procs, VPages, Vals, SharedPages

VARIABLES dom,   \* the private pages of a process; none when there is none
          mem,   \* what a process sees in a page
          store  \* the contents of the shared pages

Zeros == [v \in VPages |-> 0]

Init ==
  /\ dom = [p \in Procs |-> {}]
  /\ mem = [p \in Procs |-> Zeros]
  /\ store = [o \in SharedPages |-> 0]

Create(p) ==
  /\ dom[p] = {}
  /\ dom' = [dom EXCEPT ![p] = dom'[p]]
  /\ dom'[p] \in (SUBSET VPages) \ {{}}
  /\ UNCHANGED <<mem, store>>

Resize(p) ==
  /\ dom[p] # {}
  /\ dom' = [dom EXCEPT ![p] = dom'[p]]
  /\ dom'[p] \in (SUBSET VPages) \ {{}}
  /\ mem' = [mem EXCEPT ![p] = [v \in VPages |-> IF v \in dom'[p] THEN @[v] ELSE 0]]
  /\ UNCHANGED store

Write(p) ==
  /\ \E v \in dom[p], x \in Vals : mem' = [mem EXCEPT ![p][v] = x]
  /\ UNCHANGED <<dom, store>>

WriteShared ==
  /\ \E o \in SharedPages, x \in Vals : store' = [store EXCEPT ![o] = x]
  /\ UNCHANGED <<dom, mem>>

Fork(p, q) ==
  /\ dom[p] # {} /\ dom[q] = {}
  /\ dom' = [dom EXCEPT ![q] = dom[p]]
  /\ mem' = [mem EXCEPT ![q] = mem[p]]
  /\ UNCHANGED store

Exit(p) ==
  /\ dom' = [dom EXCEPT ![p] = {}]
  /\ mem' = [mem EXCEPT ![p] = Zeros]
  /\ UNCHANGED store

Next ==
  \/ WriteShared
  \/ \E p \in Procs : \/ Create(p) \/ Resize(p) \/ Write(p) \/ Exit(p)
                      \/ \E q \in Procs : Fork(p, q)

Spec == Init /\ [][Next]_<<dom, mem, store>>

=============================================================================
