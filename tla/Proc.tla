-------------------------------- MODULE Proc --------------------------------
(***************************************************************************)
(* The life of processes: proc_spawn, proc_fork, proc_wait and proc_exit   *)
(* of kernel/proc.c, the system calls in front of them, and the program of *)
(* the initial process, user/init.c.                                       *)
(*                                                                         *)
(* A process is its pid.  A section under ptable_lock is one step; the     *)
(* parts of fork, spawn and exit outside the lock are steps of their own.  *)
(* A spawn or fork that fails frees the new struct proc before anybody     *)
(* can see it and is left out.                                             *)
(***************************************************************************)
EXTENDS Integers, Sequences, FiniteSets, SequencesExt

CONSTANTS MaxPid,        \* bound: pids are 0..MaxPid
          Statuses,      \* the values that exit is called with
          STATUS_ALIVE,
          NULL

ASSUME ProcAssumption == MaxPid \in Nat /\ NULL \notin 0..MaxPid

Procs == 0..MaxPid

INIT == 0   \* the first pid: proc_exit gives orphans to getProcByPID(0)

VARIABLES
  pid_allocator,
  mem,          \* struct proc: "none", "live" or "freed"
  ptable,
  children,     \* proc.children
  exit_status,  \* proc.exit_status
  wait_cv,      \* the threads that sleep on proc.wait_cv
  pc,
  target,       \* the child that a wait has chosen, that a fork is making
  any,          \* processes whose wait asked for ANY_CHILD
  off           \* the machine is shut down

vars == <<pid_allocator, mem, ptable, children, exit_status, wait_cv, pc,
          target, any, off>>

-----------------------------------------------------------------------------
(* proc_spawn and proc_fork *)

(* proc_init, and the child is linked in the parent's list.  That list has *)
(* no lock, but only INIT's is touched by another process, and user/init.c *)
(* spawns one child before there is any other.                             *)
proc_fork(p) ==
  LET q == pid_allocator IN
  /\ pc[p] = "run" /\ q \in Procs
  /\ p = INIT => q = 1
  /\ pid_allocator' = q + 1
  /\ mem' = [mem EXCEPT ![q] = "live"]
  /\ exit_status' = [exit_status EXCEPT ![q] = STATUS_ALIVE]
  /\ children' = [children EXCEPT ![p] = Append(@, q), ![q] = <<>>]
  /\ target' = [target EXCEPT ![p] = q]
  /\ pc' = [pc EXCEPT ![p] = "fork"]
  /\ UNCHANGED <<ptable, wait_cv, any, off>>

(* Under the lock the child enters the process table; then it may run. *)
ForkDone(p) ==
  /\ pc[p] = "fork"
  /\ ptable' = ptable \cup {target[p]}
  /\ pc' = [pc EXCEPT ![p] = "run", ![target[p]] = "run"]
  /\ target' = [target EXCEPT ![p] = NULL]
  /\ UNCHANGED <<pid_allocator, mem, children, exit_status, wait_cv, any, off>>

-----------------------------------------------------------------------------
(* proc_wait *)

(* The loop and what follows it, for the child at place i of the list:     *)
(* sleep, or take the child off the list and free it.                      *)
TryReap(p, i) ==
  LET c == children[p][i] IN
  \/ /\ exit_status[c] = STATUS_ALIVE
     /\ wait_cv' = [wait_cv EXCEPT ![c] = Append(@, p)]
     /\ target' = [target EXCEPT ![p] = c]
     /\ pc' = [pc EXCEPT ![p] = "wait"]
     /\ UNCHANGED <<mem, children>>
  \/ /\ exit_status[c] # STATUS_ALIVE
     /\ children' = [children EXCEPT ![p] = RemoveAt(@, i)]
     /\ mem' = [mem EXCEPT ![c] = "freed"]
     /\ target' = [target EXCEPT ![p] = NULL]
     /\ pc' = [pc EXCEPT ![p] = "run"]
     /\ UNCHANGED wait_cv

(* Wait for a given child, or for any: then the loop takes the last one.   *)
(* INIT only ever asks for any.                                            *)
proc_wait(p, anyChild) ==
  /\ pc[p] = "run"
  /\ p = INIT => anyChild
  /\ \E i \in 1..Len(children[p]) :
       /\ anyChild => i = Len(children[p])
       /\ TryReap(p, i)
  /\ any' = IF anyChild THEN any \cup {p} ELSE any \ {p}
  /\ UNCHANGED <<pid_allocator, ptable, exit_status, off>>

WaitWake(p) ==
  /\ pc[p] = "wait" /\ ~Contains(wait_cv[target[p]], p)
  /\ \E i \in 1..Len(children[p]) :
       children[p][i] = target[p] /\ TryReap(p, i)
  /\ UNCHANGED <<pid_allocator, ptable, exit_status, any, off>>

-----------------------------------------------------------------------------
(* proc_exit *)

(* The system call of process 1 (the shell) shuts the machine down. *)
sys_exit(p) ==
  /\ pc[p] = "run" /\ p # INIT
  /\ IF p = 1 THEN off' = TRUE /\ UNCHANGED pc
     ELSE pc' = [pc EXCEPT ![p] = "exit"] /\ UNCHANGED off
  /\ UNCHANGED <<pid_allocator, mem, ptable, children, exit_status, wait_cv,
                 target, any>>

(* An invalid access ends a process without that test. *)
handle_page_fault(p) ==
  /\ pc[p] = "run" /\ p # INIT
  /\ pc' = [pc EXCEPT ![p] = "exit"]
  /\ UNCHANGED <<pid_allocator, mem, ptable, children, exit_status, wait_cv,
                 target, any, off>>

(* The members of S, in the order in which they are in the list s. *)
InListOrder(s, S) ==
  {f \in [1..Cardinality(S) -> S] :
     \A i, j \in 1..Cardinality(S) : i < j =>
       \E a, b \in 1..Len(s) : a < b /\ s[a] = f[i] /\ s[b] = f[j]}

(* Variant: living children are forgotten. *)
proc_exitOrphans(p, status) ==
  LET living == {c \in ToSet(children[p]) : exit_status[c] = STATUS_ALIVE}
      zombies == ToSet(children[p]) \ living
  IN
  /\ pc[p] = "exit"
  /\ ptable' = ptable \ {p}
  /\ children' = [children EXCEPT ![p] = <<>>]
  /\ mem' = [c \in Procs |-> IF c \in zombies THEN "freed" ELSE mem[c]]
  /\ exit_status' = [exit_status EXCEPT ![p] = status]
  /\ wait_cv' = [wait_cv EXCEPT ![p] = IF @ = <<>> THEN @ ELSE Tail(@)]
  /\ pc' = [pc EXCEPT ![p] = "dead"]
  /\ UNCHANGED <<pid_allocator, target, any, off>>

(* Variant: the parent is not signalled. *)
proc_exitSilent(p, status) ==
  LET living == {c \in ToSet(children[p]) : exit_status[c] = STATUS_ALIVE}
      zombies == ToSet(children[p]) \ living
  IN
  /\ pc[p] = "exit"
  /\ ptable' = ptable \ {p}
  /\ \E orphans \in InListOrder(children[p], living) :
       children' = [children EXCEPT ![p] = <<>>, ![INIT] = @ \o orphans]
  /\ mem' = [c \in Procs |-> IF c \in zombies THEN "freed" ELSE mem[c]]
  /\ exit_status' = [exit_status EXCEPT ![p] = status]
  /\ pc' = [pc EXCEPT ![p] = "dead"]
  /\ UNCHANGED <<pid_allocator, wait_cv, target, any, off>>

(* The section under ptable_lock: living children go to the end of INIT's  *)
(* list one by one, dead ones are freed, the status is set and a waiting   *)
(* parent signalled.  INIT may be asleep on a child it had before.         *)
proc_exit(p, status) ==
  LET living == {c \in ToSet(children[p]) : exit_status[c] = STATUS_ALIVE}
      zombies == ToSet(children[p]) \ living
  IN
  /\ pc[p] = "exit"
  /\ ptable' = ptable \ {p}
  /\ \E orphans \in InListOrder(children[p], living) :
       children' = [children EXCEPT ![p] = <<>>, ![INIT] = @ \o orphans]
  /\ mem' = [c \in Procs |-> IF c \in zombies THEN "freed" ELSE mem[c]]
  /\ exit_status' = [exit_status EXCEPT ![p] = status]
  /\ wait_cv' = [wait_cv EXCEPT ![p] = IF @ = <<>> THEN @ ELSE Tail(@)]
  /\ pc' = [pc EXCEPT ![p] = "dead"]
  /\ UNCHANGED <<pid_allocator, target, any, off>>

-----------------------------------------------------------------------------

(* kernel_init has spawned init. *)
Init ==
  /\ pid_allocator = 1
  /\ mem = [p \in Procs |-> IF p = INIT THEN "live" ELSE "none"]
  /\ ptable = {INIT}
  /\ children = [p \in Procs |-> <<>>]
  /\ exit_status = [p \in Procs |-> STATUS_ALIVE]
  /\ wait_cv = [p \in Procs |-> <<>>]
  /\ pc = [p \in Procs |-> IF p = INIT THEN "run" ELSE "none"]
  /\ target = [p \in Procs |-> NULL]
  /\ any = {}
  /\ off = FALSE

Call(p) ==
  \/ proc_fork(p)
  \/ \E anyChild \in BOOLEAN : proc_wait(p, anyChild)
  \/ sys_exit(p) \/ handle_page_fault(p)

Continue(p) ==
  \/ ForkDone(p) \/ WaitWake(p)
  \/ \E status \in Statuses : proc_exit(p, status)

Next == ~off /\ \E p \in Procs : Call(p) \/ Continue(p)

Spec == Init /\ [][Next]_vars

(* A call under way goes on when its thread can run.  Nobody has to call,  *)
(* but INIT, which has spawned the shell, waits for ever.                  *)
FairSpec == /\ Spec
            /\ \A p \in Procs : WF_vars(~off /\ Continue(p))
            /\ WF_vars(~off /\ proc_wait(INIT, TRUE))

-----------------------------------------------------------------------------
(* Properties *)

(* The variables have the shapes of the C fields. *)
TypeOK ==
  /\ pid_allocator \in 1..(MaxPid + 1)
  /\ mem \in [Procs -> {"none", "live", "freed"}]
  /\ ptable \subseteq Procs
  /\ children \in [Procs -> Seq(Procs)]
  /\ exit_status \in [Procs -> Statuses \cup {STATUS_ALIVE}]
  /\ wait_cv \in [Procs -> Seq(Procs)]
  /\ pc \in [Procs -> {"none", "run", "fork", "wait", "exit", "dead"}]
  /\ target \in [Procs -> Procs \cup {NULL}]
  /\ any \subseteq Procs /\ off \in BOOLEAN

Places(c) == {x \in Procs \X (1..MaxPid) :
                x[2] <= Len(children[x[1]]) /\ children[x[1]][x[2]] = c}

(* Every struct proc but that of INIT is, from its creation until it is    *)
(* freed, linked exactly once, in the list of a process that has not       *)
(* finished: there is always somebody to free it, and never two, though    *)
(* parents exit, zombies are freed and orphans move.                       *)
OneParent ==
  \A c \in Procs \ {INIT} :
    IF mem[c] = "live"
    THEN \E p \in Procs, i \in 1..MaxPid :
           Places(c) = {<<p, i>>} /\ pc[p] # "dead" /\ mem[p] = "live"
    ELSE Places(c) = {}

(* Memory of a process that has not finished is not freed: not under its   *)
(* own feet, and not while its parent sleeps on its wait_cv.               *)
FreedDead ==
  /\ \A c \in Procs : mem[c] = "freed" => pc[c] = "dead" /\ c \notin ptable
  /\ \A p \in Procs : pc[p] = "wait" =>
       mem[target[p]] = "live" /\ Contains(children[p], target[p])

(* The family tree through fork, wait, exit and adoption in any order, the *)
(* waits of INIT for what it has adopted among them: one living parent for *)
(* each process, and no memory freed that is in use.                       *)
FamilySound == TypeOK /\ OneParent /\ FreedDead

(* A wait that has chosen its child returns when the child has exited with *)
(* a status other than STATUS_ALIVE, whether the exit came before the      *)
(* wait, while it slept, or in between.                                    *)
WaitReturns ==
  \A p \in Procs :
    (pc[p] = "wait" /\ exit_status[target[p]] # STATUS_ALIVE)
      ~> (pc[p] # "wait" \/ off)

-----------------------------------------------------------------------------
(* What documentation says and the code does not do *)

(* Wait for a process to change state: whatever status it exits with. *)
AnyStatus ==
  \A p \in Procs :
    (pc[p] = "wait" /\ pc[target[p]] = "dead") ~> (pc[p] # "wait" \/ off)

(* If pid is -1, wait for any child process. *)
AnyChild ==
  \A p \in Procs :
    (pc[p] = "wait" /\ p \in any
       /\ \E c \in ToSet(children[p]) : exit_status[c] # STATUS_ALIVE)
      ~> (pc[p] # "wait" \/ off)

(* init "just waits for all processes to terminate": an orphan that has    *)
(* exited is reaped.  It is not while INIT sleeps on the child that was    *)
(* last when it called, the shell to begin with.                           *)
OrphansReaped ==
  \A c \in Procs :
    (pc[c] = "dead" /\ Contains(children[INIT], c)) ~> (mem[c] = "freed" \/ off)

=============================================================================
