-------------------------------- MODULE Sched --------------------------------
(***************************************************************************)
(* Threads, the scheduler, and the locks built on it: kernel/sched.c,      *)
(* kernel/thread.c, kernel/synch.c, the timer handler of kernel/timer.c,   *)
(* and intr_set_level and cpu_switch_thread of arch/x86_64/kernel.         *)
(*                                                                         *)
(* The threads share one sleeplock, whose spinlock lk is also the lock     *)
(* that they pass to condvar_wait.  A CPU has interrupts off while its     *)
(* thread holds or spins for a spinlock.  What a thread does in one go     *)
(* under sched_lock is one step, except that a context switch leaves the   *)
(* lock to the thread it switches to.  The idle thread of a CPU is denoted *)
(* by the CPU itself.                                                      *)
(***************************************************************************)
EXTENDS Naturals, FiniteSets, Sequences

CONSTANTS CPUs, Threads, NULL

ASSUME SchedAssumption ==
  /\ IsFiniteSet(CPUs) /\ CPUs # {}
  /\ IsFiniteSet(Threads)
  /\ CPUs \cap Threads = {}
  /\ NULL \notin CPUs \cup Threads

All == Threads \cup CPUs

VARIABLES
  running,       \* cpu->thread
  intr,          \* the interrupt flag of each CPU
  num_disabled,  \* cpu->num_disabled
  intr_enabled,  \* cpu->intr_enabled
  sched_lock,    \* sched_lock.holder, NULL when the lock is free
  ready_queue,
  state,         \* thread.state; "none" before creation, "freed" after
  lk,            \* sleeplock.lk.holder
  waiters,       \* sleeplock.waiters
  holder,        \* sleeplock.holder
  pc, ret,       \* where a thread is, and where an interrupt returns to
  tgt,           \* the thread that sched_ready is called with
  prev           \* the thread that swtch returns

intrvars == <<intr, num_disabled, intr_enabled>>
vars == <<running, intr, num_disabled, intr_enabled, sched_lock, ready_queue,
          state, lk, waiters, holder, pc, ret, tgt, prev>>

States == {"none", "READY", "RUNNING", "SLEEPING", "ZOMBIE", "freed"}

PCs == {"none", "new", "run", "cs", "acquire", "test", "sleep", "wake",
        "release", "signal", "ready", "unlock", "tick", "resume", "exit",
        "gone"}

-----------------------------------------------------------------------------
(* intr_set_level *)

IntrOff(c) ==
  /\ intr' = [intr EXCEPT ![c] = FALSE]
  /\ num_disabled' = [num_disabled EXCEPT ![c] = @ + 1]
  /\ intr_enabled' = IF num_disabled[c] = 0
                     THEN [intr_enabled EXCEPT ![c] = intr[c]]
                     ELSE intr_enabled

IntrOn(c) ==
  /\ num_disabled' = [num_disabled EXCEPT ![c] = IF @ > 0 THEN @ - 1 ELSE @]
  /\ intr' = [intr EXCEPT ![c] = \/ num_disabled[c] = 0
                                 \/ num_disabled[c] = 1 /\ intr_enabled[c]]
  /\ UNCHANGED intr_enabled

At(c, at) == pc[running[c]] = at

Goto(c, to) == pc' = [pc EXCEPT ![running[c]] = to]

-----------------------------------------------------------------------------
(* sched *)

(* The head of the queue q, or else the idle thread, runs on c in place of *)
(* the current thread, which is left in state s.  sched_lock stays taken.  *)
sched(c, q, s) ==
  LET t == running[c]
      u == IF q = <<>> THEN c ELSE Head(q)
  IN  /\ sched_lock' = t
      /\ ready_queue' = IF q = <<>> THEN q ELSE Tail(q)
      /\ state' = [state EXCEPT ![t] = s, ![u] = "RUNNING"]
      /\ running' = [running EXCEPT ![c] = u]
      /\ prev' = [prev EXCEPT ![u] = t]
      /\ intr_enabled' = [intr_enabled EXCEPT ![c] = TRUE]

(* The thread that was switched to goes on after the swtch that it called  *)
(* long ago, lets sched_lock go, and frees the thread it follows if that   *)
(* one has exited.                                                         *)
Resume(c) ==
  LET t == running[c] IN
  /\ At(c, "resume")
  /\ sched_lock' = NULL
  /\ IntrOn(c)
  /\ state' = IF state[prev[t]] = "ZOMBIE"
              THEN [state EXCEPT ![prev[t]] = "freed"] ELSE state
  /\ Goto(c, ret[t])
  /\ UNCHANGED <<running, ready_queue, lk, waiters, holder, ret, tgt, prev>>

(* A thread that runs for the first time enters at thread_start. *)
thread_start(c) ==
  /\ At(c, "new")
  /\ sched_lock' = NULL
  /\ IntrOn(c)
  /\ Goto(c, "run")
  /\ UNCHANGED <<running, ready_queue, state, lk, waiters, holder, ret, tgt,
                 prev>>

(* sched_ready, for a new thread or one that condvar_signal wakes. *)
sched_ready(c) ==
  LET t == running[c] IN
  /\ At(c, "ready") /\ sched_lock = NULL
  /\ state' = [state EXCEPT ![tgt[t]] = "READY"]
  /\ ready_queue' = Append(ready_queue, tgt[t])
  /\ IntrOn(c)
  /\ Goto(c, IF lk = t THEN "unlock" ELSE "run")
  /\ tgt' = [tgt EXCEPT ![t] = NULL]
  /\ UNCHANGED <<running, sched_lock, lk, waiters, holder, ret, prev>>

-----------------------------------------------------------------------------
(* thread_create and thread_start_context, thread_exit *)

thread_create(c, u) ==
  /\ At(c, "run") /\ pc[u] = "none"
  /\ pc' = [pc EXCEPT ![running[c]] = "ready", ![u] = "new"]
  /\ tgt' = [tgt EXCEPT ![running[c]] = u]
  /\ IntrOff(c)
  /\ UNCHANGED <<running, sched_lock, ready_queue, state, lk, waiters, holder,
                 ret, prev>>

thread_exit(c) ==
  /\ At(c, "run") /\ running[c] # c
  /\ IntrOff(c)
  /\ Goto(c, "exit")
  /\ UNCHANGED <<running, sched_lock, ready_queue, state, lk, waiters, holder,
                 ret, tgt, prev>>

SchedZombie(c) ==
  /\ At(c, "exit") /\ sched_lock = NULL
  /\ sched(c, ready_queue, "ZOMBIE")
  /\ Goto(c, "gone")
  /\ UNCHANGED <<intr, num_disabled, lk, waiters, holder, ret, tgt>>

-----------------------------------------------------------------------------
(* The timer: sched_sched(READY, NULL) in the handler *)

(* The hardware clears the interrupt flag when it enters the handler. *)
timer_trap_handler(c) ==
  LET t == running[c] IN
  /\ intr[c]
  /\ intr' = [intr EXCEPT ![c] = FALSE]
  /\ num_disabled' = [num_disabled EXCEPT ![c] = 1]
  /\ intr_enabled' = [intr_enabled EXCEPT ![c] = FALSE]
  /\ ret' = [ret EXCEPT ![t] = pc[t]]
  /\ Goto(c, "tick")
  /\ UNCHANGED <<running, sched_lock, ready_queue, state, lk, waiters, holder,
                 tgt, prev>>

(* Nobody else to run: return from the interrupt, which restores the flag. *)
TickReturn(c) ==
  /\ At(c, "tick") /\ sched_lock = NULL /\ ready_queue = <<>>
  /\ num_disabled' = [num_disabled EXCEPT ![c] = @ - 1]
  /\ intr' = [intr EXCEPT ![c] = TRUE]
  /\ Goto(c, ret[running[c]])
  /\ UNCHANGED <<running, intr_enabled, sched_lock, ready_queue, state, lk,
                 waiters, holder, ret, tgt, prev>>

(* Variant: the preempted thread is in no list. *)
SchedReadyLost(c) ==
  /\ At(c, "tick") /\ sched_lock = NULL /\ ready_queue # <<>>
  /\ sched(c, ready_queue, "READY")
  /\ Goto(c, "resume")
  /\ UNCHANGED <<intr, num_disabled, lk, waiters, holder, ret, tgt>>

SchedReady(c) ==
  /\ At(c, "tick") /\ sched_lock = NULL /\ ready_queue # <<>>
  /\ sched(c, IF running[c] = c THEN ready_queue
              ELSE Append(ready_queue, running[c]), "READY")
  /\ Goto(c, "resume")
  /\ UNCHANGED <<intr, num_disabled, lk, waiters, holder, ret, tgt>>

-----------------------------------------------------------------------------
(* spinlock_acquire(&lock->lk): interrupts off, then spin. *)

sleeplock_acquire(c) ==
  /\ At(c, "run") /\ running[c] # c
  /\ IntrOff(c)
  /\ Goto(c, "acquire")
  /\ UNCHANGED <<running, sched_lock, ready_queue, state, lk, waiters, holder,
                 ret, tgt, prev>>

sleeplock_release(c) ==
  /\ At(c, "cs")
  /\ IntrOff(c)
  /\ Goto(c, "release")
  /\ UNCHANGED <<running, sched_lock, ready_queue, state, lk, waiters, holder,
                 ret, tgt, prev>>

(* condvar_wait takes the lock again when its thread has been woken. *)
WaitReacquire(c) ==
  /\ At(c, "wake")
  /\ IntrOff(c)
  /\ Goto(c, "acquire")
  /\ UNCHANGED <<running, sched_lock, ready_queue, state, lk, waiters, holder,
                 ret, tgt, prev>>

spinlock_acquire(c) ==
  /\ pc[running[c]] \in {"acquire", "release"} /\ lk = NULL
  /\ lk' = running[c]
  /\ Goto(c, IF At(c, "acquire") THEN "test" ELSE "signal")
  /\ UNCHANGED <<running, intrvars, sched_lock, ready_queue, state, waiters,
                 holder, ret, tgt, prev>>

-----------------------------------------------------------------------------
(* Under lk *)

TakeSleeplock(c) ==
  /\ At(c, "test") /\ holder = NULL
  /\ holder' = running[c]
  /\ lk' = NULL
  /\ IntrOn(c)
  /\ Goto(c, "cs")
  /\ UNCHANGED <<running, sched_lock, ready_queue, state, waiters, ret, tgt,
                 prev>>

(* Variant: the caller's lock is let go before sched_lock is taken. *)
condvar_waitEarly(c) ==
  /\ At(c, "test") /\ holder # NULL
  /\ waiters' = Append(waiters, running[c])
  /\ lk' = NULL
  /\ Goto(c, "sleep")
  /\ IntrOff(c)
  /\ UNCHANGED <<running, sched_lock, ready_queue, state, holder, ret,
                 tgt, prev>>

condvar_wait(c) ==
  /\ At(c, "test") /\ holder # NULL
  /\ waiters' = Append(waiters, running[c])
  /\ IntrOff(c)
  /\ Goto(c, "sleep")
  /\ UNCHANGED <<running, sched_lock, ready_queue, state, lk, holder, ret,
                 tgt, prev>>

(* Variant: the caller's lock is not released. *)
SchedSleepHolding(c) ==
  /\ At(c, "sleep") /\ sched_lock = NULL
  /\ sched(c, ready_queue, "SLEEPING")
  /\ pc' = [pc EXCEPT ![running[c]] = "resume"]
  /\ ret' = [ret EXCEPT ![running[c]] = "wake"]
  /\ UNCHANGED <<intr, num_disabled, lk, waiters, holder, tgt>>

(* sched_sched(SLEEPING, lk): sched_lock first, then lk is released. *)
SchedSleep(c) ==
  /\ At(c, "sleep") /\ sched_lock = NULL
  /\ lk' = NULL
  /\ num_disabled' = [num_disabled EXCEPT ![c] = @ - 1]
  /\ sched(c, ready_queue, "SLEEPING")
  /\ pc' = [pc EXCEPT ![running[c]] = "resume"]
  /\ ret' = [ret EXCEPT ![running[c]] = "wake"]
  /\ UNCHANGED <<intr, waiters, holder, tgt>>

(* Variant: nobody is woken. *)
condvar_signalForgot(c) ==
  /\ At(c, "signal") /\ waiters # <<>>
  /\ holder' = NULL
  /\ Goto(c, "unlock")
  /\ UNCHANGED <<running, intrvars, sched_lock, ready_queue, state, lk,
                 waiters, ret, tgt, prev>>

(* condvar_signal in sleeplock_release, with and without a waiter. *)
condvar_signal(c) ==
  /\ At(c, "signal") /\ waiters # <<>>
  /\ holder' = NULL
  /\ waiters' = Tail(waiters)
  /\ tgt' = [tgt EXCEPT ![running[c]] = Head(waiters)]
  /\ IntrOff(c)
  /\ Goto(c, "ready")
  /\ UNCHANGED <<running, sched_lock, ready_queue, state, lk, ret, prev>>

SignalNone(c) ==
  /\ At(c, "signal") /\ waiters = <<>>
  /\ holder' = NULL
  /\ Goto(c, "unlock")
  /\ UNCHANGED <<running, intrvars, sched_lock, ready_queue, state, lk,
                 waiters, ret, tgt, prev>>

spinlock_release(c) ==
  /\ At(c, "unlock")
  /\ lk' = NULL
  /\ IntrOn(c)
  /\ Goto(c, "run")
  /\ UNCHANGED <<running, sched_lock, ready_queue, state, waiters, holder, ret,
                 tgt, prev>>

-----------------------------------------------------------------------------

Init ==
  /\ running = [c \in CPUs |-> c]
  /\ intr = [c \in CPUs |-> TRUE]
  /\ num_disabled = [c \in CPUs |-> 0]
  /\ intr_enabled = [c \in CPUs |-> FALSE]
  /\ sched_lock = NULL /\ ready_queue = <<>>
  /\ state = [t \in All |-> IF t \in CPUs THEN "RUNNING" ELSE "none"]
  /\ lk = NULL /\ waiters = <<>> /\ holder = NULL
  /\ pc = [t \in All |-> IF t \in CPUs THEN "run" ELSE "none"]
  /\ ret = [t \in All |-> "run"]
  /\ tgt = [t \in All |-> NULL]
  /\ prev = [t \in All |-> NULL]

(* What a thread may choose to do. *)
Choose(c) ==
  \/ \E u \in Threads : thread_create(c, u)
  \/ thread_exit(c) \/ sleeplock_acquire(c)

(* The code that a thread is in the middle of (a critical section ends),   *)
(* and the rest of the timer handler.                                      *)
Continue(c) ==
  \/ thread_start(c) \/ sched_ready(c) \/ SchedZombie(c)
  \/ sleeplock_release(c) \/ WaitReacquire(c) \/ spinlock_acquire(c)
  \/ TakeSleeplock(c) \/ condvar_wait(c) \/ SchedSleep(c)
  \/ condvar_signal(c) \/ SignalNone(c) \/ spinlock_release(c)

Handler(c) == Resume(c) \/ TickReturn(c) \/ SchedReady(c)

Next ==
  \E c \in CPUs :
    Choose(c) \/ Continue(c) \/ Handler(c) \/ timer_trap_handler(c)

Spec == Init /\ [][Next]_vars

(* A CPU executes instructions of its thread between two interrupts, and   *)
(* one that spins sees the lock free in the end (the bus is fair); a timer *)
(* interrupt stays pending until interrupts are on.                        *)
FairSpec ==
  /\ Spec
  /\ \A c \in CPUs : /\ SF_vars(Continue(c))
                     /\ SF_vars(Handler(c))
                     /\ SF_vars(timer_trap_handler(c))

-----------------------------------------------------------------------------
(* Properties *)

(* Every variable has the shape of the C field that it stands for, and     *)
(* interrupts are never disabled more than twice at once.                  *)
TypeOK ==
  /\ running \in [CPUs -> All]
  /\ intr \in [CPUs -> BOOLEAN]
  /\ num_disabled \in [CPUs -> 0..2]
  /\ intr_enabled \in [CPUs -> BOOLEAN]
  /\ sched_lock \in All \cup {NULL}
  /\ ready_queue \in Seq(Threads)
  /\ state \in [All -> States]
  /\ lk \in Threads \cup {NULL}
  /\ waiters \in Seq(Threads)
  /\ holder \in Threads \cup {NULL}
  /\ pc \in [All -> PCs]
  /\ ret \in [All -> {"run", "cs", "wake"}]
  /\ tgt \in [All -> Threads \cup {NULL}]
  /\ prev \in [All -> All \cup {NULL}]

(* A thread has one list node, for the ready queue and for wait queues:    *)
(* it is linked in at most one list, once.                                 *)
OneList ==
  LET lists == ready_queue \o waiters IN
  \A i, j \in 1..Len(lists) : lists[i] = lists[j] => i = j

(* Whatever is taken from the ready queue is READY, as sched asserts, runs *)
(* nowhere, and has a saved context to go on from; nothing runs twice.     *)
ReadySound ==
  /\ \A t \in {ready_queue[i] : i \in 1..Len(ready_queue)} :
       /\ state[t] = "READY" /\ pc[t] \in {"new", "resume"}
       /\ \A c \in CPUs : running[c] # t
  /\ \A c, d \in CPUs : running[c] = running[d] => c = d
  /\ \A c \in CPUs : state[running[c]] = "RUNNING"

(* How many spinlocks a thread holds or spins for. *)
Spinlocks(t) ==
  CASE pc[t] \in {"run", "cs", "wake"} -> 0
    [] pc[t] = "sleep" -> 2
    [] pc[t] = "ready" -> IF lk = t THEN 2 ELSE 1
    [] OTHER -> 1

(* The per-CPU count of intr_set_level, though a context switch hands it   *)
(* to another thread than the one that raised it, is the number of         *)
(* spinlocks of the thread on the CPU, and interrupts are on exactly when  *)
(* it has none.                                                            *)
IntrCounted ==
  \A c \in CPUs :
    /\ num_disabled[c] = Spinlocks(running[c])
    /\ intr[c] = (num_disabled[c] = 0)

(* The holder of a spinlock is on a CPU: nobody spins for a lock whose     *)
(* holder was preempted or sleeps.                                         *)
SpinHolderRuns ==
  /\ lk # NULL => \E c \in CPUs : running[c] = lk
  /\ sched_lock # NULL =>
       \E c \in CPUs : pc[running[c]] \in {"resume", "new"}

(* A thread that sleeplock_acquire has returned to is the holder until it  *)
(* calls sleeplock_release: one thread at most.                            *)
Owns(t) == \/ pc[t] \in {"cs", "release"}
           \/ pc[t] \in {"tick", "resume"} /\ ret[t] = "cs"

OneOwner == \A t \in All : Owns(t) => holder = t

(* While the sleeplock is free and threads wait for it, some thread is on  *)
(* its way to take it: a wakeup is never lost.                             *)
Coming(t) ==
  \/ pc[t] \in {"acquire", "test", "wake"}
  \/ pc[t] \in {"tick", "resume"} /\ ret[t] = "wake" /\ state[t] # "SLEEPING"
  \/ pc[t] = "ready" /\ lk = t

NoLostWakeup ==
  (waiters # <<>> /\ holder = NULL) => \E t \in Threads : Coming(t)

(* Scheduling over two CPUs loses no thread: each is on one list at most,  *)
(* what sched takes from the ready queue can run, and a thread that goes   *)
(* to sleep on a condition variable is seen by whoever frees the lock.     *)
ListsSound == TypeOK /\ OneList /\ ReadySound /\ NoLostWakeup

(* Locks stay exclusive through preemption and context switches: the       *)
(* interrupt count goes with the spinlocks, a spinlock is held by a thread *)
(* on a CPU, a sleeplock by the thread it was granted to.                  *)
LocksSound == IntrCounted /\ SpinHolderRuns /\ OneOwner

(* A thread that is ready gets a CPU. *)
ReadyRuns == \A t \in Threads : state[t] = "READY" ~> state[t] = "RUNNING"

(* A free sleeplock that threads wait for is taken. *)
FreeTaken == (waiters # <<>> /\ holder = NULL) ~> holder # NULL

-----------------------------------------------------------------------------
(* What a comment says and the code does not do *)

(* sched returns the descheduled thread if it needs to be reclaimed: a     *)
(* zombie is reclaimed by the thread that runs after it.                   *)
Reclaimed ==
  \A t \in Threads : state[t] = "ZOMBIE" =>
    \E c \in CPUs : /\ pc[running[c]] \in {"resume", "new"}
                    /\ prev[running[c]] = t

=============================================================================
