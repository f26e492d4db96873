----------------------------- MODULE SchedProofs -----------------------------
(***************************************************************************)
(* Proofs about Sched for any number of CPUs and threads.                  *)
(***************************************************************************)
EXTENDS Sched, SequenceTheorems, TLAPS

-----------------------------------------------------------------------------
(* The inductive invariant *)

(* The idle thread of a CPU runs there only, never exits and never touches *)
(* the sleeplock; while another thread runs it waits in swtch.             *)
IdleSound ==
  \A c \in CPUs :
    /\ pc[c] \in {"run", "tick", "resume", "ready"} /\ ret[c] = "run"
    /\ \A d \in CPUs : running[d] = c => d = c
    /\ running[c] # c => pc[c] = "resume"

(* One CPU per thread; a thread that runs nowhere is before its creation,  *)
(* at a point where swtch can take it up, or gone.                         *)
CpuSound ==
  /\ \A c, d \in CPUs : running[c] = running[d] => c = d
  /\ \A c \in CPUs : /\ state[running[c]] = "RUNNING"
                     /\ pc[running[c]] \notin {"none", "gone"}
  /\ \A t \in Threads : (\A c \in CPUs : running[c] # t) =>
       pc[t] \in {"none", "new", "resume", "gone"}
  /\ \A t \in Threads : pc[t] = "none" => state[t] = "none"

(* sched_lock is taken exactly while one thread, just switched to, has not *)
(* come out of the switch; that thread knows whom it follows.              *)
Switched(c) == pc[running[c]] \in {"resume", "new"}

SwitchSound ==
  /\ sched_lock = NULL => \A c \in CPUs : ~Switched(c)
  /\ sched_lock # NULL => \E c \in CPUs : Switched(c)
  /\ \A c, d \in CPUs : Switched(c) /\ Switched(d) => c = d
  /\ \A c \in CPUs : Switched(c) => prev[running[c]] \in All

(* Who holds lk, told by the program counters. *)
UnderLk == {"test", "signal", "unlock", "sleep"}

LkSound ==
  /\ \A t \in All : pc[t] \in UnderLk => lk = t
  /\ lk # NULL => pc[lk] \in UnderLk \cup {"ready"}

(* The level that the last spinlock_release restores: interrupts on,       *)
(* except in the handler, which returns by restoring the flag itself.      *)
LevelSound ==
  \A c \in CPUs :
    num_disabled[c] > 0 /\ pc[running[c]] # "tick" => intr_enabled[c]

(* IntrCounted, in two parts. *)
CountSound == \A c \in CPUs : num_disabled[c] = Spinlocks(running[c])

FlagSound == \A c \in CPUs : intr[c] = (num_disabled[c] = 0)

(* The sleeplock is the thread's until it has been signalled away. *)
OwnerSound ==
  /\ OneOwner
  /\ \A t \in All : pc[t] = "signal" => holder = t

(* The ready queue, the wait queue and the arguments of sched_ready are    *)
(* told apart by the states of the threads in them.                        *)
Waiting(t) == pc[t] = "resume" /\ ret[t] = "wake" /\ state[t] = "SLEEPING"

QueuesSound ==
  /\ \A i \in 1..Len(ready_queue) :
       /\ state[ready_queue[i]] = "READY"
       /\ pc[ready_queue[i]] \in {"new", "resume"}
  /\ \A i, j \in 1..Len(ready_queue) : ready_queue[i] = ready_queue[j] => i = j
  /\ \A i \in 1..Len(waiters) : pc[waiters[i]] = "sleep" \/ Waiting(waiters[i])
  /\ \A i, j \in 1..Len(waiters) : waiters[i] = waiters[j] => i = j

TargetSound ==
  /\ \A t \in All : pc[t] = "ready" =>
       /\ tgt[t] \in Threads
       /\ IF lk = t THEN Waiting(tgt[t])
          ELSE pc[tgt[t]] = "new" /\ state[tgt[t]] = "none"
       /\ \A i \in 1..Len(waiters) : waiters[i] # tgt[t]
  /\ \A t, u \in All :
       pc[t] = "ready" /\ pc[u] = "ready" /\ tgt[t] = tgt[u] => t = u

Inv ==
  /\ TypeOK
  /\ IdleSound /\ CpuSound /\ SwitchSound /\ LkSound /\ LevelSound
  /\ CountSound /\ FlagSound
  /\ OwnerSound /\ QueuesSound /\ TargetSound /\ NoLostWakeup

-----------------------------------------------------------------------------
(* intr_set_level *)

(* Turning interrupts off and on keeps the types, and the flag tells       *)
(* whether the count is zero.                                              *)
LEMMA IntrOffSets ==
  ASSUME TypeOK, NEW c \in CPUs, IntrOff(c), num_disabled[c] < 2
  PROVE  /\ intr' \in [CPUs -> BOOLEAN]
         /\ num_disabled' \in [CPUs -> 0..2]
         /\ intr_enabled' \in [CPUs -> BOOLEAN]
<1>1. intr' \in [CPUs -> BOOLEAN]
  BY DEF TypeOK, IntrOff
<1>2. num_disabled' \in [CPUs -> 0..2]
  BY DEF TypeOK, IntrOff
<1>3. intr_enabled' \in [CPUs -> BOOLEAN]
  <2>1. CASE num_disabled[c] = 0
    BY <2>1 DEF TypeOK, IntrOff
  <2>2. CASE num_disabled[c] # 0
    BY <2>2 DEF TypeOK, IntrOff
  <2> QED
    BY <2>1, <2>2
<1> QED
  BY <1>1, <1>2, <1>3

(* intr_set_level(off) keeps the flag with the count. *)
LEMMA IntrOffCounts ==
  ASSUME TypeOK, FlagSound, NEW c \in CPUs, IntrOff(c), num_disabled[c] < 2
  PROVE  \A d \in CPUs : intr'[d] = (num_disabled'[d] = 0)
<1> SUFFICES ASSUME NEW d \in CPUs PROVE intr'[d] = (num_disabled'[d] = 0)
  OBVIOUS
<1>1. CASE d = c
  <2>1. intr'[d] = FALSE /\ num_disabled'[d] # 0
    BY <1>1 DEF TypeOK, IntrOff
  <2> QED
    BY <2>1
<1>2. CASE d # c
  <2>1. intr'[d] = intr[d] /\ num_disabled'[d] = num_disabled[d]
    BY <1>2 DEF TypeOK, IntrOff
  <2>2. intr[d] = (num_disabled[d] = 0)
    BY DEF FlagSound
  <2> QED
    BY <2>1, <2>2
<1> QED
  BY <1>1, <1>2

(* intr_set_level(on) keeps the types. *)
LEMMA IntrOnSets ==
  ASSUME TypeOK, NEW c \in CPUs, IntrOn(c)
  PROVE  /\ intr' \in [CPUs -> BOOLEAN]
         /\ num_disabled' \in [CPUs -> 0..2]
         /\ intr_enabled' \in [CPUs -> BOOLEAN]
<1>1. intr' \in [CPUs -> BOOLEAN]
  BY DEF TypeOK, IntrOn
<1>2. num_disabled' \in [CPUs -> 0..2]
  BY DEF TypeOK, IntrOn
<1>3. intr_enabled' \in [CPUs -> BOOLEAN]
  BY DEF TypeOK, IntrOn
<1> QED
  BY <1>1, <1>2, <1>3

(* intr_set_level(on), undoing an earlier off, keeps the flag with the     *)
(* count.                                                                  *)
LEMMA IntrOnCounts ==
  ASSUME TypeOK, FlagSound, NEW c \in CPUs, IntrOn(c),
         num_disabled[c] > 0, num_disabled[c] = 1 => intr_enabled[c]
  PROVE  \A d \in CPUs : intr'[d] = (num_disabled'[d] = 0)
<1> SUFFICES ASSUME NEW d \in CPUs PROVE intr'[d] = (num_disabled'[d] = 0)
  OBVIOUS
<1>1. CASE d = c
  <2>1. num_disabled'[d] = num_disabled[c] - 1 /\ num_disabled[c] \in 0..2
    BY <1>1 DEF TypeOK, IntrOn
  <2>5. num_disabled[c] # 0
    OBVIOUS
  <2>2. intr'[d] = \/ num_disabled[c] = 0
                   \/ num_disabled[c] = 1 /\ intr_enabled[c]
    BY <1>1 DEF TypeOK, IntrOn
  <2>3. num_disabled'[d] = 0 <=> num_disabled[c] = 1
    BY <2>1
  <2>4. intr'[d] = (num_disabled[c] = 1)
    BY <2>2, <2>5
  <2> QED
    BY <2>3, <2>4
<1>2. CASE d # c
  <2>1. intr'[d] = intr[d] /\ num_disabled'[d] = num_disabled[d]
    BY <1>2 DEF TypeOK, IntrOn
  <2>2. intr[d] = (num_disabled[d] = 0)
    BY DEF FlagSound
  <2> QED
    BY <2>1, <2>2
<1> QED
  BY <1>1, <1>2

-----------------------------------------------------------------------------
(* sched *)

(* The thread that sched takes up is ready, runs nowhere and is in no wait *)
(* queue; it is the idle thread when the ready queue is empty.             *)
LEMMA NextThread ==
  ASSUME Inv, NEW c \in CPUs, running[c] # c \/ ready_queue # <<>>,
         NEW u, u = IF ready_queue = <<>> THEN c ELSE Head(ready_queue)
  PROVE  /\ u \in All /\ u # running[c]
         /\ pc[u] \in {"new", "resume"}
         /\ u \in CPUs => u = c /\ ready_queue = <<>>
         /\ u \in Threads => state[u] = "READY" /\ ready_queue # <<>>
         /\ \A d \in CPUs : running[d] # u
<1> USE SchedAssumption DEF Inv, All, TypeOK
<1>1. CASE ready_queue = <<>>
  BY <1>1 DEF IdleSound
<1>2. CASE ready_queue # <<>>
  <2>1. 1 \in 1..Len(ready_queue) /\ u = ready_queue[1] /\ u \in Threads
    BY <1>2
  <2>2. state[u] = "READY" /\ pc[u] \in {"new", "resume"}
    BY <2>1 DEF QueuesSound
  <2> QED
    BY <1>2, <2>1, <2>2 DEF CpuSound
<1> QED
  BY <1>1, <1>2

-----------------------------------------------------------------------------
(* The initial states, and one lemma per action *)

(* The inductive invariant holds at the start. *)
LEMMA InitInv == Init => Inv
<1>1. Init => TypeOK
  BY SchedAssumption DEF Init, All, TypeOK, States, PCs
<1>2. Init => IdleSound
  BY SchedAssumption DEF Init, All, TypeOK, IdleSound
<1>3. Init => CpuSound
  BY SchedAssumption DEF Init, All, TypeOK, CpuSound
<1>4. Init => SwitchSound
  BY SchedAssumption DEF Init, All, TypeOK, SwitchSound, Switched
<1>5. Init => LkSound
  BY SchedAssumption DEF Init, All, TypeOK, LkSound, UnderLk
<1>6. Init => LevelSound
  BY SchedAssumption DEF Init, All, TypeOK, LevelSound
<1>7. Init => CountSound
  BY SchedAssumption DEF Init, All, TypeOK, CountSound, Spinlocks
<1>8. Init => FlagSound
  <2> SUFFICES ASSUME Init, NEW c \in CPUs
               PROVE  intr[c] = (num_disabled[c] = 0)
    BY DEF FlagSound
  <2>1. intr[c] = TRUE /\ num_disabled[c] = 0
    BY DEF Init
  <2> QED
    BY <2>1
<1>9. Init => OwnerSound
  BY SchedAssumption DEF Init, All, TypeOK, OwnerSound, OneOwner, Owns
<1>10. Init => QueuesSound
  BY SchedAssumption DEF Init, All, TypeOK, QueuesSound, Waiting
<1>11. Init => TargetSound
  BY SchedAssumption DEF Init, All, TypeOK, TargetSound, Waiting
<1>12. Init => NoLostWakeup
  BY SchedAssumption DEF Init, All, TypeOK, NoLostWakeup, Coming
<1> QED
  BY <1>1, <1>2, <1>3, <1>4, <1>5, <1>6, <1>7, <1>8, <1>9, <1>10, <1>11, <1>12
     DEF Inv

(* thread_create keeps the inductive invariant. *)
LEMMA thread_createInv ==
  ASSUME Inv, NEW c \in CPUs, NEW u \in Threads, thread_create(c, u)
  PROVE  Inv'
<1> USE SchedAssumption DEF Inv, All, At, Goto, TypeOK, thread_create
<1>1. num_disabled[c] < 2 /\ pc[running[c]] # "tick"
  BY DEF CountSound, Spinlocks, LkSound, UnderLk
<1>2. TypeOK'
  BY IntrOffSets, <1>1 DEF States, PCs
<1>3. IdleSound'
  BY DEF IdleSound, IntrOff
<1>4. CpuSound'
  BY DEF CpuSound, IntrOff
<1>5. SwitchSound'
  BY DEF SwitchSound, Switched, CpuSound, IntrOff
<1>6. LkSound'
  BY DEF LkSound, UnderLk, IntrOff
<1>7. LevelSound'
  BY <1>1 DEF LevelSound, CpuSound, FlagSound, IntrOff
<1>8. CountSound'
  BY DEF CountSound, Spinlocks, CpuSound, LkSound, UnderLk, IntrOff
<1>9. FlagSound'
  BY IntrOffCounts, <1>1 DEF FlagSound
<1>10. OwnerSound'
  BY DEF OwnerSound, OneOwner, Owns, IntrOff
<1>11. QueuesSound'
  BY DEF QueuesSound, Waiting, CpuSound, IntrOff
<1>12. TargetSound'
  BY DEF TargetSound, Waiting, CpuSound, QueuesSound, LkSound, UnderLk,
     IntrOff
<1>13. NoLostWakeup'
  BY DEF NoLostWakeup, Coming, IntrOff
<1> QED
  BY <1>2, <1>3, <1>4, <1>5, <1>6, <1>7, <1>8, <1>9, <1>10, <1>11, <1>12,
     <1>13

(* thread_exit keeps the inductive invariant. *)
LEMMA thread_exitInv ==
  ASSUME Inv, NEW c \in CPUs, thread_exit(c)
  PROVE  Inv'
<1> USE SchedAssumption DEF Inv, All, At, Goto, TypeOK, thread_exit
<1>1. num_disabled[c] < 2 /\ pc[running[c]] # "tick"
  BY DEF CountSound, Spinlocks, LkSound, UnderLk
<1>2. TypeOK'
  BY IntrOffSets, <1>1 DEF States, PCs
<1>3. IdleSound'
  BY DEF IdleSound, IntrOff
<1>4. CpuSound'
  BY DEF CpuSound, IntrOff
<1>5. SwitchSound'
  BY DEF SwitchSound, Switched, IntrOff
<1>6. LkSound'
  BY DEF LkSound, UnderLk, IntrOff
<1>7. LevelSound'
  BY <1>1 DEF LevelSound, CpuSound, FlagSound, IntrOff
<1>8. CountSound'
  BY DEF CountSound, Spinlocks, CpuSound, IntrOff
<1>9. FlagSound'
  BY IntrOffCounts, <1>1 DEF FlagSound
<1>10. OwnerSound'
  BY DEF OwnerSound, OneOwner, Owns, IntrOff
<1>11. QueuesSound'
  BY DEF QueuesSound, Waiting, IntrOff
<1>12. TargetSound'
  BY DEF TargetSound, Waiting, IntrOff
<1>13. NoLostWakeup'
  BY DEF NoLostWakeup, Coming, IntrOff
<1> QED
  BY <1>2, <1>3, <1>4, <1>5, <1>6, <1>7, <1>8, <1>9, <1>10, <1>11, <1>12,
     <1>13

(* sleeplock_acquire keeps the inductive invariant. *)
LEMMA sleeplock_acquireInv ==
  ASSUME Inv, NEW c \in CPUs, sleeplock_acquire(c)
  PROVE  Inv'
<1> USE SchedAssumption DEF Inv, All, At, Goto, TypeOK, sleeplock_acquire
<1>1. num_disabled[c] < 2 /\ pc[running[c]] # "tick"
  BY DEF CountSound, Spinlocks, LkSound, UnderLk
<1>2. TypeOK'
  BY IntrOffSets, <1>1 DEF States, PCs
<1>3. IdleSound'
  BY DEF IdleSound, IntrOff
<1>4. CpuSound'
  BY DEF CpuSound, IntrOff
<1>5. SwitchSound'
  BY DEF SwitchSound, Switched, IntrOff
<1>6. LkSound'
  BY DEF LkSound, UnderLk, IntrOff
<1>7. LevelSound'
  BY <1>1 DEF LevelSound, CpuSound, FlagSound, IntrOff
<1>8. CountSound'
  BY DEF CountSound, Spinlocks, CpuSound, IntrOff
<1>9. FlagSound'
  BY IntrOffCounts, <1>1 DEF FlagSound
<1>10. OwnerSound'
  BY DEF OwnerSound, OneOwner, Owns, IntrOff
<1>11. QueuesSound'
  BY DEF QueuesSound, Waiting, IntrOff
<1>12. TargetSound'
  BY DEF TargetSound, Waiting, IntrOff
<1>13. NoLostWakeup'
  BY DEF NoLostWakeup, Coming, IntrOff
<1> QED
  BY <1>2, <1>3, <1>4, <1>5, <1>6, <1>7, <1>8, <1>9, <1>10, <1>11, <1>12,
     <1>13

(* thread_start keeps the inductive invariant. *)
LEMMA thread_startInv ==
  ASSUME Inv, NEW c \in CPUs, thread_start(c)
  PROVE  Inv'
<1> USE SchedAssumption DEF Inv, All, At, Goto, TypeOK, thread_start
<1>1. num_disabled[c] > 0 /\ (num_disabled[c] = 1 => intr_enabled[c])
  BY DEF CountSound, Spinlocks, LevelSound
<1>2. TypeOK'
  BY IntrOnSets DEF States, PCs
<1>3. IdleSound'
  BY DEF IdleSound, IntrOn
<1>4. CpuSound'
  BY DEF CpuSound, IntrOn
<1>5. SwitchSound'
  BY DEF SwitchSound, Switched, IntrOn
<1>6. LkSound'
  BY DEF LkSound, UnderLk, IntrOn
<1>7. LevelSound'
  BY DEF LevelSound, CpuSound, IntrOn
<1>8. CountSound'
  BY DEF CountSound, Spinlocks, CpuSound, IntrOn
<1>9. FlagSound'
  BY IntrOnCounts, <1>1 DEF FlagSound
<1>10. OwnerSound'
  BY DEF OwnerSound, OneOwner, Owns, IntrOn
<1>11. QueuesSound'
  BY DEF QueuesSound, Waiting, CpuSound, IntrOn
<1>12. TargetSound'
  BY DEF TargetSound, Waiting, CpuSound, IntrOn
<1>13. NoLostWakeup'
  BY DEF NoLostWakeup, Coming, IntrOn
<1> QED
  BY <1>2, <1>3, <1>4, <1>5, <1>6, <1>7, <1>8, <1>9, <1>10, <1>11, <1>12,
     <1>13

(* sched_ready keeps the inductive invariant. *)
LEMMA sched_readyInv ==
  ASSUME Inv, NEW c \in CPUs, sched_ready(c)
  PROVE  Inv'
<1> USE SchedAssumption DEF Inv, All, At, Goto, TypeOK, sched_ready
<1>1. num_disabled[c] > 0 /\ (num_disabled[c] = 1 => intr_enabled[c])
  BY DEF CountSound, Spinlocks, LevelSound
<1>2. /\ tgt[running[c]] \in Threads
      /\ state[tgt[running[c]]] \in {"none", "SLEEPING"}
      /\ pc[tgt[running[c]]] \in {"new", "resume"}
  BY DEF TargetSound, Waiting
<1>3. TypeOK'
  BY IntrOnSets, <1>2 DEF States, PCs
<1>4. IdleSound'
  BY DEF IdleSound, IntrOn
<1>5. CpuSound'
  BY <1>2 DEF CpuSound, IntrOn
<1>6. SwitchSound'
  BY DEF SwitchSound, Switched, IntrOn
<1>7. LkSound'
  BY DEF LkSound, UnderLk, IntrOn
<1>8. LevelSound'
  BY DEF LevelSound, CpuSound, IntrOn
<1>9. CountSound'
  BY DEF CountSound, Spinlocks, CpuSound, IntrOn
<1>10. FlagSound'
  BY IntrOnCounts, <1>1 DEF FlagSound
<1>11. OwnerSound'
  BY DEF OwnerSound, OneOwner, Owns, IntrOn
<1>12. QueuesSound'
  <2> DEFINE t == tgt[running[c]]
  <2>1. /\ ready_queue' = Append(ready_queue, t)
        /\ state' = [state EXCEPT ![t] = "READY"]
        /\ pc' = [pc EXCEPT ![running[c]] = IF lk = running[c] THEN "unlock"
                                           ELSE "run"]
        /\ pc[running[c]] = "ready"
        /\ waiters' = waiters /\ ret' = ret
    OBVIOUS
  <2>2. /\ t \in Threads /\ t # running[c]
        /\ state[t] # "READY" /\ pc[t] \in {"new", "resume"}
        /\ \A i \in 1..Len(waiters) : waiters[i] # t
    BY <1>2 DEF TargetSound
  <2> HIDE DEF t
  <2>3. /\ Len(ready_queue') = Len(ready_queue) + 1
        /\ ready_queue'[Len(ready_queue) + 1] = t
        /\ \A i \in 1..Len(ready_queue) : ready_queue'[i] = ready_queue[i]
    BY <2>1, <2>2
  <2>4. \A i \in 1..Len(ready_queue) :
          /\ ready_queue[i] \in Threads /\ ready_queue[i] # t
          /\ ready_queue[i] # running[c]
    BY <2>1, <2>2 DEF QueuesSound
  <2>5. \A i \in 1..Len(ready_queue') :
          i \in 1..Len(ready_queue) \/ i = Len(ready_queue) + 1
    BY <2>3
  <2>6. \A i \in 1..Len(ready_queue') :
          /\ state'[ready_queue'[i]] = "READY"
          /\ pc'[ready_queue'[i]] \in {"new", "resume"}
    BY <2>1, <2>2, <2>3, <2>4, <2>5 DEF QueuesSound
  <2>7. \A i, j \in 1..Len(ready_queue') :
          ready_queue'[i] = ready_queue'[j] => i = j
    BY <2>3, <2>4, <2>5 DEF QueuesSound
  <2>8. \A i \in 1..Len(waiters) :
          waiters[i] \in Threads /\ waiters[i] # running[c]
    BY <2>1 DEF QueuesSound, Waiting
  <2>9. \A i \in 1..Len(waiters) :
          pc'[waiters[i]] = "sleep" \/ Waiting(waiters[i])'
    BY <2>1, <2>2, <2>8 DEF QueuesSound, Waiting
  <2> QED
    BY <2>1, <2>6, <2>7, <2>9 DEF QueuesSound
<1>13. TargetSound'
  BY <1>2 DEF TargetSound, Waiting, LkSound, UnderLk, IntrOn
<1>14. NoLostWakeup'
  BY <1>2 DEF NoLostWakeup, Coming, TargetSound, Waiting, IntrOn
<1> QED
  BY <1>3, <1>4, <1>5, <1>6, <1>7, <1>8, <1>9, <1>10, <1>11, <1>12, <1>13,
     <1>14

(* SchedZombie keeps the inductive invariant. *)
LEMMA SchedZombieInv ==
  ASSUME Inv, NEW c \in CPUs, SchedZombie(c)
  PROVE  Inv'
<1> USE SchedAssumption DEF Inv, All, At, Goto, TypeOK, SchedZombie
<1> DEFINE u == IF ready_queue = <<>> THEN c ELSE Head(ready_queue)
<1>1. running[c] # c \/ ready_queue # <<>>
  BY DEF IdleSound
<1>2. /\ u \in All /\ u # running[c]
      /\ pc[u] \in {"new", "resume"}
      /\ u \in CPUs => u = c /\ ready_queue = <<>>
      /\ u \in Threads => state[u] = "READY" /\ ready_queue # <<>>
      /\ \A d \in CPUs : running[d] # u
  BY <1>1, NextThread
<1>3. /\ sched_lock' = running[c]
      /\ state' = [state EXCEPT ![running[c]] = "ZOMBIE", ![u] = "RUNNING"]
      /\ running' = [running EXCEPT ![c] = u]
      /\ prev' = [prev EXCEPT ![u] = running[c]]
      /\ intr_enabled' = [intr_enabled EXCEPT ![c] = TRUE]
  BY DEF sched
<1> HIDE DEF u
<1>4. TypeOK'
  <2>1. ready_queue' \in Seq(Threads)
    BY DEF sched
  <2> QED
    BY <1>2, <1>3, <2>1 DEF States, PCs
<1>5. IdleSound'
  BY <1>2, <1>3 DEF IdleSound
<1>6. CpuSound'
  BY <1>2, <1>3 DEF CpuSound
<1>7. SwitchSound'
  BY <1>2, <1>3 DEF SwitchSound, Switched
<1>8. LkSound'
  BY <1>2, <1>3 DEF LkSound, UnderLk
<1>9. LevelSound'
  BY <1>2, <1>3 DEF LevelSound, CpuSound
<1>10. CountSound'
  BY <1>2, <1>3 DEF CountSound, Spinlocks, CpuSound
<1>11. FlagSound'
  BY <1>2, <1>3 DEF FlagSound
<1>12. OwnerSound'
  BY <1>2, <1>3 DEF OwnerSound, OneOwner, Owns
<1>13. QueuesSound'
  BY <1>2, <1>3 DEF QueuesSound, Waiting, sched
<1>14. TargetSound'
  BY <1>2, <1>3 DEF TargetSound, Waiting, CpuSound
<1>15. NoLostWakeup'
  BY <1>2, <1>3 DEF NoLostWakeup, Coming
<1> QED
  BY <1>4, <1>5, <1>6, <1>7, <1>8, <1>9, <1>10, <1>11, <1>12, <1>13, <1>14,
     <1>15

(* sleeplock_release keeps the inductive invariant. *)
LEMMA sleeplock_releaseInv ==
  ASSUME Inv, NEW c \in CPUs, sleeplock_release(c)
  PROVE  Inv'
<1> USE SchedAssumption DEF Inv, All, At, Goto, TypeOK, sleeplock_release
<1>1. num_disabled[c] < 2 /\ pc[running[c]] # "tick"
  BY DEF CountSound, Spinlocks, LkSound, UnderLk
<1>2. TypeOK'
  BY IntrOffSets, <1>1 DEF States, PCs
<1>3. IdleSound'
  BY DEF IdleSound, IntrOff
<1>4. CpuSound'
  BY DEF CpuSound, IntrOff
<1>5. SwitchSound'
  BY DEF SwitchSound, Switched, IntrOff
<1>6. LkSound'
  BY DEF LkSound, UnderLk, IntrOff
<1>7. LevelSound'
  BY <1>1 DEF LevelSound, CpuSound, FlagSound, IntrOff
<1>8. CountSound'
  BY DEF CountSound, Spinlocks, CpuSound, IntrOff
<1>9. FlagSound'
  BY IntrOffCounts, <1>1 DEF FlagSound
<1>10. OwnerSound'
  BY DEF OwnerSound, OneOwner, Owns, IntrOff
<1>11. QueuesSound'
  BY DEF QueuesSound, Waiting, IntrOff
<1>12. TargetSound'
  BY DEF TargetSound, Waiting, IntrOff
<1>13. NoLostWakeup'
  BY DEF NoLostWakeup, Coming, IntrOff
<1> QED
  BY <1>2, <1>3, <1>4, <1>5, <1>6, <1>7, <1>8, <1>9, <1>10, <1>11, <1>12,
     <1>13

(* WaitReacquire keeps the inductive invariant. *)
LEMMA WaitReacquireInv ==
  ASSUME Inv, NEW c \in CPUs, WaitReacquire(c)
  PROVE  Inv'
<1> USE SchedAssumption DEF Inv, All, At, Goto, TypeOK, WaitReacquire
<1>1. num_disabled[c] < 2 /\ pc[running[c]] # "tick"
  BY DEF CountSound, Spinlocks, LkSound, UnderLk
<1>2. TypeOK'
  BY IntrOffSets, <1>1 DEF States, PCs
<1>3. IdleSound'
  BY DEF IdleSound, IntrOff
<1>4. CpuSound'
  BY DEF CpuSound, IntrOff
<1>5. SwitchSound'
  BY DEF SwitchSound, Switched, IntrOff
<1>6. LkSound'
  BY DEF LkSound, UnderLk, IntrOff
<1>7. LevelSound'
  BY <1>1 DEF LevelSound, CpuSound, FlagSound, IntrOff
<1>8. CountSound'
  BY DEF CountSound, Spinlocks, CpuSound, IntrOff
<1>9. FlagSound'
  BY IntrOffCounts, <1>1 DEF FlagSound
<1>10. OwnerSound'
  BY DEF OwnerSound, OneOwner, Owns, IntrOff
<1>11. QueuesSound'
  BY DEF QueuesSound, Waiting, IntrOff
<1>12. TargetSound'
  BY DEF TargetSound, Waiting, IntrOff
<1>13. NoLostWakeup'
  BY DEF NoLostWakeup, Coming, IntrOff
<1> QED
  BY <1>2, <1>3, <1>4, <1>5, <1>6, <1>7, <1>8, <1>9, <1>10, <1>11, <1>12,
     <1>13

(* spinlock_acquire keeps the inductive invariant. *)
LEMMA spinlock_acquireInv ==
  ASSUME Inv, NEW c \in CPUs, spinlock_acquire(c)
  PROVE  Inv'
<1> USE SchedAssumption DEF Inv, All, At, Goto, TypeOK, spinlock_acquire
<1>1. TypeOK'
  BY DEF States, PCs, IdleSound, intrvars
<1>2. IdleSound'
  BY DEF IdleSound, intrvars
<1>3. CpuSound'
  BY DEF CpuSound, intrvars
<1>4. SwitchSound'
  BY DEF SwitchSound, Switched, intrvars
<1>5. LkSound'
  BY DEF LkSound, UnderLk, intrvars
<1>6. LevelSound'
  BY DEF LevelSound, CpuSound, intrvars
<1>7. CountSound'
  BY DEF CountSound, Spinlocks, CpuSound, intrvars
<1>8. FlagSound'
  BY DEF FlagSound, intrvars
<1>9. OwnerSound'
  BY DEF OwnerSound, OneOwner, Owns, intrvars
<1>10. QueuesSound'
  BY DEF QueuesSound, Waiting, intrvars
<1>11. TargetSound'
  BY DEF TargetSound, Waiting, intrvars
<1>12. NoLostWakeup'
  BY DEF NoLostWakeup, Coming, intrvars
<1> QED
  BY <1>1, <1>2, <1>3, <1>4, <1>5, <1>6, <1>7, <1>8, <1>9, <1>10, <1>11, <1>12

(* TakeSleeplock keeps the inductive invariant. *)
LEMMA TakeSleeplockInv ==
  ASSUME Inv, NEW c \in CPUs, TakeSleeplock(c)
  PROVE  Inv'
<1> USE SchedAssumption DEF Inv, All, At, Goto, TypeOK, TakeSleeplock
<1>1. num_disabled[c] > 0 /\ (num_disabled[c] = 1 => intr_enabled[c])
  BY DEF CountSound, Spinlocks, LevelSound
<1>2. TypeOK'
  BY IntrOnSets DEF States, PCs, IdleSound
<1>3. IdleSound'
  BY DEF IdleSound, IntrOn
<1>4. CpuSound'
  BY DEF CpuSound, IntrOn
<1>5. SwitchSound'
  BY DEF SwitchSound, Switched, IntrOn
<1>6. LkSound'
  BY DEF LkSound, UnderLk, IntrOn
<1>7. LevelSound'
  BY DEF LevelSound, CpuSound, IntrOn
<1>8. CountSound'
  BY DEF CountSound, Spinlocks, CpuSound, LkSound, UnderLk, IntrOn
<1>9. FlagSound'
  BY IntrOnCounts, <1>1 DEF FlagSound
<1>10. OwnerSound'
  BY DEF OwnerSound, OneOwner, Owns, IntrOn
<1>11. QueuesSound'
  BY DEF QueuesSound, Waiting, IntrOn
<1>12. TargetSound'
  BY DEF TargetSound, Waiting, LkSound, UnderLk, IntrOn
<1>13. NoLostWakeup'
  <2>1. holder' # NULL
    OBVIOUS
  <2> QED
    BY <2>1 DEF NoLostWakeup
<1> QED
  BY <1>2, <1>3, <1>4, <1>5, <1>6, <1>7, <1>8, <1>9, <1>10, <1>11, <1>12,
     <1>13

(* condvar_wait keeps the inductive invariant. *)
LEMMA condvar_waitInv ==
  ASSUME Inv, NEW c \in CPUs, condvar_wait(c)
  PROVE  Inv'
<1> USE SchedAssumption DEF Inv, All, At, Goto, TypeOK, condvar_wait
<1>1. num_disabled[c] < 2 /\ pc[running[c]] # "tick"
  BY DEF CountSound, Spinlocks, LkSound, UnderLk
<1>2. TypeOK'
  <2>1. running[c] \in Threads
    BY DEF IdleSound
  <2> QED
    BY <1>1, <2>1, IntrOffSets DEF PCs
<1>3. IdleSound'
  BY DEF IdleSound, IntrOff
<1>4. CpuSound'
  BY DEF CpuSound, IntrOff
<1>5. SwitchSound'
  BY DEF SwitchSound, Switched, IntrOff
<1>6. LkSound'
  BY DEF LkSound, UnderLk, IntrOff
<1>7. LevelSound'
  BY <1>1 DEF LevelSound, CpuSound, FlagSound, IntrOff
<1>8. CountSound'
  BY DEF CountSound, Spinlocks, CpuSound, IntrOff
<1>9. FlagSound'
  BY IntrOffCounts, <1>1 DEF FlagSound
<1>10. OwnerSound'
  BY DEF OwnerSound, OneOwner, Owns, IntrOff
<1>11. QueuesSound'
  BY DEF QueuesSound, Waiting, IntrOff
<1>12. TargetSound'
  BY DEF TargetSound, Waiting, IntrOff
<1>13. NoLostWakeup'
  BY DEF NoLostWakeup, Coming, IntrOff
<1> QED
  BY <1>2, <1>3, <1>4, <1>5, <1>6, <1>7, <1>8, <1>9, <1>10, <1>11, <1>12,
     <1>13

(* SchedSleep keeps the inductive invariant. *)
LEMMA SchedSleepInv ==
  ASSUME Inv, NEW c \in CPUs, SchedSleep(c)
  PROVE  Inv'
<1> USE SchedAssumption DEF Inv, All, At, Goto, TypeOK, SchedSleep
<1> DEFINE u == IF ready_queue = <<>> THEN c ELSE Head(ready_queue)
<1>1. running[c] # c \/ ready_queue # <<>>
  BY DEF IdleSound
<1>2. /\ u \in All /\ u # running[c]
      /\ pc[u] \in {"new", "resume"}
      /\ u \in CPUs => u = c /\ ready_queue = <<>>
      /\ u \in Threads => state[u] = "READY" /\ ready_queue # <<>>
      /\ \A d \in CPUs : running[d] # u
  BY <1>1, NextThread
<1>3. /\ sched_lock' = running[c]
      /\ state' = [state EXCEPT ![running[c]] = "SLEEPING", ![u] = "RUNNING"]
      /\ running' = [running EXCEPT ![c] = u]
      /\ prev' = [prev EXCEPT ![u] = running[c]]
      /\ intr_enabled' = [intr_enabled EXCEPT ![c] = TRUE]
  BY DEF sched
<1> HIDE DEF u
<1>4. TypeOK'
  <2>1. ready_queue' \in Seq(Threads)
    BY DEF sched
  <2>2. num_disabled[c] = 2
    BY DEF CountSound, Spinlocks
  <2> QED
    <3>1. num_disabled' \in [CPUs -> 0..2]
      BY <2>2
    <3> QED
      BY <1>2, <1>3, <2>1, <3>1 DEF States, PCs
<1>5. IdleSound'
  BY <1>2, <1>3 DEF IdleSound
<1>6. CpuSound'
  BY <1>2, <1>3 DEF CpuSound
<1>7. SwitchSound'
  BY <1>2, <1>3 DEF SwitchSound, Switched, CpuSound
<1>8. LkSound'
  BY <1>2, <1>3 DEF LkSound, UnderLk
<1>9. LevelSound'
  BY <1>2, <1>3 DEF LevelSound, CpuSound
<1>10. CountSound'
  BY <1>2, <1>3 DEF CountSound, Spinlocks, CpuSound, LkSound, UnderLk
<1>11. FlagSound'
  BY <1>2, <1>3 DEF FlagSound, CountSound, Spinlocks
<1>12. OwnerSound'
  BY <1>2, <1>3 DEF OwnerSound, OneOwner, Owns
<1>13. QueuesSound'
  BY <1>2, <1>3 DEF QueuesSound, Waiting, sched
<1>14. TargetSound'
  BY <1>2, <1>3 DEF TargetSound, Waiting, LkSound, UnderLk, CpuSound
<1>15. NoLostWakeup'
  BY <1>2, <1>3 DEF NoLostWakeup, Coming, LkSound, UnderLk
<1> QED
  BY <1>4, <1>5, <1>6, <1>7, <1>8, <1>9, <1>10, <1>11, <1>12, <1>13, <1>14,
     <1>15

(* condvar_signal keeps the inductive invariant. *)
LEMMA condvar_signalInv ==
  ASSUME Inv, NEW c \in CPUs, condvar_signal(c)
  PROVE  Inv'
<1> USE SchedAssumption DEF Inv, All, At, Goto, TypeOK, condvar_signal
<1>1. num_disabled[c] < 2 /\ pc[running[c]] # "tick"
  <2>1. pc[running[c]] = "signal"
    OBVIOUS
  <2>2. Spinlocks(running[c]) = 1
    BY <2>1 DEF Spinlocks
  <2> QED
    BY <2>1, <2>2 DEF CountSound
<1>2. TypeOK'
  BY IntrOffSets, <1>1 DEF States, PCs
<1>3. IdleSound'
  BY DEF IdleSound, IntrOff
<1>4. CpuSound'
  BY DEF CpuSound, IntrOff
<1>5. SwitchSound'
  BY DEF SwitchSound, Switched, IntrOff
<1>6. LkSound'
  BY DEF LkSound, UnderLk, IntrOff
<1>7. LevelSound'
  <2>1. num_disabled[c] = 1
    BY DEF CountSound, Spinlocks
  <2> QED
    BY <1>1, <2>1 DEF LevelSound, CpuSound, IntrOff
<1>8. CountSound'
  <2>1. pc[running[c]] = "signal" /\ lk = running[c] /\ lk' = lk
    BY DEF LkSound, UnderLk
  <2>2. num_disabled[c] = 1
    BY <2>1 DEF CountSound, Spinlocks
  <2>3. num_disabled' = [num_disabled EXCEPT ![c] = 2]
    BY <2>2 DEF IntrOff
  <2>4. Spinlocks(running[c])' = 2
    BY <2>1 DEF Spinlocks
  <2>5. \A d \in CPUs \ {c} : Spinlocks(running[d])' = Spinlocks(running[d])
    BY <2>1 DEF Spinlocks, CpuSound
  <2> QED
    BY <2>3, <2>4, <2>5 DEF CountSound
<1>9. FlagSound'
  BY IntrOffCounts, <1>1 DEF FlagSound
<1>10. OwnerSound'
  BY DEF OwnerSound, OneOwner, Owns, IntrOff
<1>11. QueuesSound'
  BY DEF QueuesSound, Waiting, IntrOff
<1>12. TargetSound'
  BY DEF TargetSound, Waiting, QueuesSound, LkSound, UnderLk, IntrOff
<1>13. NoLostWakeup'
  BY DEF NoLostWakeup, Coming, LkSound, UnderLk, IdleSound, IntrOff
<1> QED
  BY <1>2, <1>3, <1>4, <1>5, <1>6, <1>7, <1>8, <1>9, <1>10, <1>11, <1>12,
     <1>13

(* SignalNone keeps the inductive invariant. *)
LEMMA SignalNoneInv ==
  ASSUME Inv, NEW c \in CPUs, SignalNone(c)
  PROVE  Inv'
<1> USE SchedAssumption DEF Inv, All, At, Goto, TypeOK, SignalNone
<1>1. TypeOK'
  BY DEF States, PCs, intrvars
<1>2. IdleSound'
  BY DEF IdleSound, intrvars
<1>3. CpuSound'
  BY DEF CpuSound, intrvars
<1>4. SwitchSound'
  BY DEF SwitchSound, Switched, intrvars
<1>5. LkSound'
  BY DEF LkSound, UnderLk, intrvars
<1>6. LevelSound'
  BY DEF LevelSound, CpuSound, intrvars
<1>7. CountSound'
  BY DEF CountSound, Spinlocks, CpuSound, intrvars
<1>8. FlagSound'
  BY DEF FlagSound, intrvars
<1>9. OwnerSound'
  BY DEF OwnerSound, OneOwner, Owns, intrvars
<1>10. QueuesSound'
  BY DEF QueuesSound, Waiting, intrvars
<1>11. TargetSound'
  BY DEF TargetSound, Waiting, intrvars
<1>12. NoLostWakeup'
  BY DEF NoLostWakeup, Coming, intrvars
<1> QED
  BY <1>1, <1>2, <1>3, <1>4, <1>5, <1>6, <1>7, <1>8, <1>9, <1>10, <1>11, <1>12

(* spinlock_release keeps the inductive invariant. *)
LEMMA spinlock_releaseInv ==
  ASSUME Inv, NEW c \in CPUs, spinlock_release(c)
  PROVE  Inv'
<1> USE SchedAssumption DEF Inv, All, At, Goto, TypeOK, spinlock_release
<1>1. num_disabled[c] > 0 /\ (num_disabled[c] = 1 => intr_enabled[c])
  BY DEF CountSound, Spinlocks, LevelSound
<1>2. TypeOK'
  BY IntrOnSets DEF States, PCs
<1>3. IdleSound'
  BY DEF IdleSound, IntrOn
<1>4. CpuSound'
  BY DEF CpuSound, IntrOn
<1>5. SwitchSound'
  BY DEF SwitchSound, Switched, IntrOn
<1>6. LkSound'
  BY DEF LkSound, UnderLk, IntrOn
<1>7. LevelSound'
  BY DEF LevelSound, CpuSound, IntrOn
<1>8. CountSound'
  BY DEF CountSound, Spinlocks, CpuSound, LkSound, UnderLk, IntrOn
<1>9. FlagSound'
  BY IntrOnCounts, <1>1 DEF FlagSound
<1>10. OwnerSound'
  BY DEF OwnerSound, OneOwner, Owns, IntrOn
<1>11. QueuesSound'
  BY DEF QueuesSound, Waiting, IntrOn
<1>12. TargetSound'
  BY DEF TargetSound, Waiting, LkSound, UnderLk, IntrOn
<1>13. NoLostWakeup'
  BY DEF NoLostWakeup, Coming, LkSound, UnderLk, IntrOn
<1> QED
  BY <1>2, <1>3, <1>4, <1>5, <1>6, <1>7, <1>8, <1>9, <1>10, <1>11, <1>12,
     <1>13

(* Resume keeps the inductive invariant. *)
LEMMA ResumeInv ==
  ASSUME Inv, NEW c \in CPUs, Resume(c)
  PROVE  Inv'
<1> USE SchedAssumption DEF Inv, All, At, Goto, TypeOK, Resume
<1>1. num_disabled[c] > 0 /\ (num_disabled[c] = 1 => intr_enabled[c])
  BY DEF CountSound, Spinlocks, LevelSound
<1>2. TypeOK'
  BY IntrOnSets DEF States, PCs
<1>3. IdleSound'
  BY DEF IdleSound, IntrOn
<1>4. CpuSound'
  BY DEF CpuSound, IntrOn
<1>5. SwitchSound'
  BY DEF SwitchSound, Switched, IntrOn
<1>6. LkSound'
  BY DEF LkSound, UnderLk, IntrOn
<1>7. LevelSound'
  BY DEF LevelSound, CpuSound, IntrOn
<1>8. CountSound'
  BY DEF CountSound, Spinlocks, CpuSound, IntrOn
<1>9. FlagSound'
  BY IntrOnCounts, <1>1 DEF FlagSound
<1>10. OwnerSound'
  BY DEF OwnerSound, OneOwner, Owns, IntrOn
<1>11. QueuesSound'
  BY DEF QueuesSound, Waiting, CpuSound, IntrOn
<1>12. TargetSound'
  <2>1. CASE state[prev[running[c]]] = "ZOMBIE"
    <3>1. prev[running[c]] \in All /\ ret[running[c]] # "ready"
      BY DEF SwitchSound, Switched
    <3>2. \A t \in All : pc'[t] = "ready" =>
            /\ pc[t] = "ready" /\ tgt[t] \in Threads
            /\ tgt[t] # prev[running[c]] /\ tgt[t] # running[c]
      BY <2>1, <3>1 DEF TargetSound, Waiting, CpuSound
    <3>3. \A t \in All : pc'[t] = "ready" =>
            pc'[tgt[t]] = pc[tgt[t]] /\ state'[tgt[t]] = state[tgt[t]]
      BY <2>1, <3>1, <3>2
    <3> QED
      BY <3>2, <3>3 DEF TargetSound, Waiting
  <2>2. CASE state[prev[running[c]]] # "ZOMBIE"
    BY <2>2 DEF TargetSound, Waiting, CpuSound
  <2> QED
    BY <2>1, <2>2
<1>13. NoLostWakeup'
  BY DEF NoLostWakeup, Coming, IntrOn
<1> QED
  BY <1>2, <1>3, <1>4, <1>5, <1>6, <1>7, <1>8, <1>9, <1>10, <1>11, <1>12,
     <1>13

(* TickReturn keeps the inductive invariant. *)
LEMMA TickReturnInv ==
  ASSUME Inv, NEW c \in CPUs, TickReturn(c)
  PROVE  Inv'
<1> USE SchedAssumption DEF Inv, All, At, Goto, TypeOK, TickReturn
<1>1. TypeOK'
  <2>1. num_disabled[c] = 1
    BY DEF CountSound, Spinlocks
  <2> QED
    BY <2>1 DEF States, PCs
<1>2. IdleSound'
  BY DEF IdleSound
<1>3. CpuSound'
  BY DEF CpuSound
<1>4. SwitchSound'
  BY DEF SwitchSound, Switched
<1>5. LkSound'
  BY DEF LkSound, UnderLk
<1>6. LevelSound'
  BY DEF LevelSound, CpuSound, CountSound, Spinlocks
<1>7. CountSound'
  BY DEF CountSound, Spinlocks, CpuSound
<1>8. FlagSound'
  <2> SUFFICES ASSUME NEW d \in CPUs PROVE intr'[d] = (num_disabled'[d] = 0)
    BY DEF FlagSound
  <2>1. num_disabled[c] = 1
    BY DEF CountSound, Spinlocks
  <2>2. CASE d = c
    <3>1. intr'[d] = TRUE /\ num_disabled'[d] = 0
      BY <2>1, <2>2
    <3> QED
      BY <3>1
  <2>3. CASE d # c
    <3>1. intr'[d] = intr[d] /\ num_disabled'[d] = num_disabled[d]
      BY <2>3
    <3> QED
      BY <3>1 DEF FlagSound
  <2> QED
    BY <2>2, <2>3
<1>9. OwnerSound'
  BY DEF OwnerSound, OneOwner, Owns
<1>10. QueuesSound'
  BY DEF QueuesSound, Waiting
<1>11. TargetSound'
  BY DEF TargetSound, Waiting
<1>12. NoLostWakeup'
  BY DEF NoLostWakeup, Coming
<1> QED
  BY <1>1, <1>2, <1>3, <1>4, <1>5, <1>6, <1>7, <1>8, <1>9, <1>10, <1>11, <1>12

(* SchedReady keeps the inductive invariant. *)
LEMMA SchedReadyInv ==
  ASSUME Inv, NEW c \in CPUs, SchedReady(c)
  PROVE  Inv'
<1> USE SchedAssumption DEF Inv, All, At, Goto, TypeOK, SchedReady
<1> DEFINE u == IF ready_queue = <<>> THEN c ELSE Head(ready_queue)
<1>1. running[c] # c \/ ready_queue # <<>>
  BY DEF IdleSound
<1>2. /\ u \in All /\ u # running[c]
      /\ pc[u] \in {"new", "resume"}
      /\ u \in CPUs => u = c /\ ready_queue = <<>>
      /\ u \in Threads => state[u] = "READY" /\ ready_queue # <<>>
      /\ \A d \in CPUs : running[d] # u
  BY <1>1, NextThread
<1>3. /\ sched_lock' = running[c]
      /\ state' = [state EXCEPT ![running[c]] = "READY", ![u] = "RUNNING"]
      /\ running' = [running EXCEPT ![c] = u]
      /\ prev' = [prev EXCEPT ![u] = running[c]]
      /\ intr_enabled' = [intr_enabled EXCEPT ![c] = TRUE]
  <2> DEFINE q == IF running[c] = c THEN ready_queue
                  ELSE Append(ready_queue, running[c])
  <2>1. q # <<>> /\ Head(q) = Head(ready_queue)
    <3>1. running[c] = c \/ running[c] \in Threads
      BY DEF IdleSound
    <3> QED
      BY <3>1
  <2>2. sched(c, q, "READY")
    OBVIOUS
  <2> HIDE DEF q
  <2> QED
    BY <2>1, <2>2 DEF sched
<1> HIDE DEF u
<1>4. TypeOK'
  <2>1. ready_queue' \in Seq(Threads)
    <3>1. running[c] = c \/ running[c] \in Threads
      BY DEF IdleSound
    <3> QED
      BY <3>1 DEF sched
  <2> QED
    BY <1>2, <1>3, <2>1 DEF States, PCs
<1>5. IdleSound'
  BY <1>2, <1>3 DEF IdleSound
<1>6. CpuSound'
  BY <1>2, <1>3 DEF CpuSound
<1>7. SwitchSound'
  BY <1>2, <1>3 DEF SwitchSound, Switched, CpuSound
<1>8. LkSound'
  BY <1>2, <1>3 DEF LkSound, UnderLk
<1>9. LevelSound'
  BY <1>2, <1>3 DEF LevelSound, CpuSound
<1>10. CountSound'
  BY <1>2, <1>3 DEF CountSound, Spinlocks, CpuSound
<1>11. FlagSound'
  BY <1>2, <1>3 DEF FlagSound
<1>12. OwnerSound'
  BY <1>2, <1>3 DEF OwnerSound, OneOwner, Owns
<1>13. QueuesSound'
  <2> DEFINE q == IF running[c] = c THEN ready_queue
                  ELSE Append(ready_queue, running[c])
  <2>1. running[c] = c \/ running[c] \in Threads
    BY DEF IdleSound
  <2>2. /\ q \in Seq(Threads) /\ q # <<>> /\ q[1] = u
        /\ ready_queue' = Tail(q)
    BY <2>1 DEF sched, u
  <2>3. \A i \in 1..Len(q) :
          \/ i \in 1..Len(ready_queue) /\ q[i] = ready_queue[i]
          \/ i = Len(ready_queue) + 1 /\ q[i] = running[c] /\ running[c] # c
    BY <2>1
  <2>4. \A i \in 1..Len(ready_queue) :
          /\ ready_queue[i] \in Threads /\ ready_queue[i] # running[c]
          /\ state[ready_queue[i]] = "READY"
          /\ pc[ready_queue[i]] \in {"new", "resume"}
    BY DEF QueuesSound, CpuSound
  <2>5. \A i, j \in 1..Len(q) : q[i] = q[j] => i = j
    BY <2>3, <2>4 DEF QueuesSound
  <2>6. \A i \in 1..Len(q) : q[i] # u =>
          state'[q[i]] = "READY" /\ pc'[q[i]] \in {"new", "resume"}
    BY <1>2, <1>3, <2>3, <2>4
  <2> HIDE DEF q
  <2>7. \A i \in 1..Len(ready_queue') :
          i + 1 \in 1..Len(q) /\ ready_queue'[i] = q[i + 1] /\ q[i + 1] # u
    BY <2>2, <2>5
  <2>8. \A i \in 1..Len(waiters) :
          /\ waiters[i] \in Threads
          /\ waiters[i] # running[c] /\ waiters[i] # u
    BY <1>2 DEF QueuesSound, Waiting
  <2>9. \A i \in 1..Len(waiters) :
          pc'[waiters[i]] = "sleep" \/ Waiting(waiters[i])'
    BY <1>2, <1>3, <2>8 DEF QueuesSound, Waiting
  <2>10. \A i, j \in 1..Len(ready_queue') :
          ready_queue'[i] = ready_queue'[j] => i = j
    BY <2>5, <2>7
  <2>11. \A i \in 1..Len(ready_queue') :
           /\ state'[ready_queue'[i]] = "READY"
           /\ pc'[ready_queue'[i]] \in {"new", "resume"}
    <3> TAKE i \in 1..Len(ready_queue')
    <3> DEFINE j == i + 1
    <3>1. j \in 1..Len(q) /\ ready_queue'[i] = q[j] /\ q[j] # u
      BY <2>7
    <3> HIDE DEF j
    <3> QED
      BY <2>6, <3>1
  <2>12. waiters' = waiters
    OBVIOUS
  <2>13. \A i, j \in 1..Len(waiters') : waiters'[i] = waiters'[j] => i = j
    BY <2>12 DEF QueuesSound
  <2>14. \A i \in 1..Len(waiters') :
           pc'[waiters'[i]] = "sleep" \/ Waiting(waiters[i])'
    BY <2>9, <2>12
  <2> QED
    BY <2>10, <2>11, <2>13, <2>14, Zenon DEF QueuesSound
<1>14. TargetSound'
  BY <1>2, <1>3 DEF TargetSound, Waiting, CpuSound
<1>15. NoLostWakeup'
  BY <1>2, <1>3 DEF NoLostWakeup, Coming
<1> QED
  BY <1>4, <1>5, <1>6, <1>7, <1>8, <1>9, <1>10, <1>11, <1>12, <1>13, <1>14,
     <1>15

(* timer_trap_handler keeps the inductive invariant. *)
LEMMA timer_trap_handlerInv ==
  ASSUME Inv, NEW c \in CPUs, timer_trap_handler(c)
  PROVE  Inv'
<1> USE SchedAssumption DEF Inv, All, At, Goto, TypeOK, timer_trap_handler
<1>1. pc[running[c]] \in {"run", "cs", "wake"}
  <2>1. intr[c] = (num_disabled[c] = 0)
    BY DEF FlagSound
  <2>2. num_disabled[c] = 0
    BY <2>1
  <2> QED
    BY <2>2 DEF CountSound, Spinlocks
<1>2. TypeOK'
  BY <1>1 DEF States, PCs
<1>3. IdleSound'
  BY <1>1 DEF IdleSound
<1>4. CpuSound'
  BY <1>1 DEF CpuSound
<1>5. SwitchSound'
  BY <1>1 DEF SwitchSound, Switched
<1>6. LkSound'
  BY <1>1 DEF LkSound, UnderLk
<1>7. LevelSound'
  BY <1>1 DEF LevelSound, CpuSound
<1>8. CountSound'
  BY <1>1 DEF CountSound, Spinlocks, CpuSound
<1>9. FlagSound'
  <2> SUFFICES ASSUME NEW d \in CPUs PROVE intr'[d] = (num_disabled'[d] = 0)
    BY DEF FlagSound
  <2>2. CASE d = c
    <3>1. intr'[d] = FALSE /\ num_disabled'[d] # 0
      BY <2>2
    <3> QED
      BY <3>1
  <2>3. CASE d # c
    <3>1. intr'[d] = intr[d] /\ num_disabled'[d] = num_disabled[d]
      BY <2>3
    <3> QED
      BY <3>1 DEF FlagSound
  <2> QED
    BY <2>2, <2>3
<1>10. OwnerSound'
  BY <1>1 DEF OwnerSound, OneOwner, Owns
<1>11. QueuesSound'
  BY <1>1 DEF QueuesSound, Waiting
<1>12. TargetSound'
  BY <1>1 DEF TargetSound, Waiting
<1>13. NoLostWakeup'
  <2>1. \A t \in Threads : Coming(t) => Coming(t)'
    BY <1>1 DEF Coming, CpuSound
  <2> QED
    BY <2>1 DEF NoLostWakeup
<1> QED
  BY <1>2, <1>3, <1>4, <1>5, <1>6, <1>7, <1>8, <1>9, <1>10, <1>11, <1>12,
     <1>13

-----------------------------------------------------------------------------
(* The invariant, and what follows from it *)

(* Every step keeps the inductive invariant. *)
LEMMA NextInv == Inv /\ [Next]_vars => Inv'
<1> SUFFICES ASSUME Inv, [Next]_vars PROVE Inv'
  OBVIOUS
<1>1. CASE UNCHANGED vars
  BY <1>1 DEF vars, Inv, TypeOK, IdleSound, CpuSound, SwitchSound, Switched,
     LkSound, LevelSound, CountSound, Spinlocks, FlagSound, OwnerSound,
     OneOwner, Owns, QueuesSound, Waiting, TargetSound, NoLostWakeup, Coming
<1>2. CASE Next
  <2>1. PICK c \in CPUs :
          Choose(c) \/ Continue(c) \/ Handler(c) \/ timer_trap_handler(c)
    BY <1>2 DEF Next
  <2>2. CASE Choose(c)
    BY <2>2, thread_createInv, thread_exitInv, sleeplock_acquireInv DEF Choose
  <2>3. CASE Continue(c)
    BY <2>3, thread_startInv, sched_readyInv, SchedZombieInv,
       sleeplock_releaseInv, WaitReacquireInv, spinlock_acquireInv,
       TakeSleeplockInv, condvar_waitInv, SchedSleepInv, condvar_signalInv,
       SignalNoneInv, spinlock_releaseInv
       DEF Continue
  <2>4. CASE Handler(c)
    BY <2>4, ResumeInv, TickReturnInv, SchedReadyInv DEF Handler
  <2>5. CASE timer_trap_handler(c)
    BY <2>5, timer_trap_handlerInv
  <2> QED
    BY <2>1, <2>2, <2>3, <2>4, <2>5
<1> QED
  BY <1>1, <1>2

(* The inductive invariant holds in every state. *)
THEOREM Invariance == Spec => []Inv
<1> QED
  BY InitInv, NextInv, PTL DEF Spec

(* A thread is linked once in the ready queue and the wait queue together: *)
(* their members are told apart by their states.                           *)
LEMMA InvOneList == Inv => OneList
<1> SUFFICES ASSUME Inv PROVE OneList
  OBVIOUS
<1> DEFINE lists == ready_queue \o waiters
<1>1. ready_queue \in Seq(Threads) /\ waiters \in Seq(Threads)
  BY DEF Inv, TypeOK
<1>2. \A i \in 1..Len(ready_queue), j \in 1..Len(waiters) :
        ready_queue[i] # waiters[j]
  BY DEF Inv, QueuesSound, Waiting
<1>3. /\ Len(lists) = Len(ready_queue) + Len(waiters)
      /\ \A i \in 1..Len(lists) :
           lists[i] = IF i <= Len(ready_queue) THEN ready_queue[i]
                      ELSE waiters[i - Len(ready_queue)]
  BY <1>1
<1> HIDE DEF lists
<1>4. \A i, j \in 1..Len(lists) : lists[i] = lists[j] => i = j
  BY <1>1, <1>2, <1>3 DEF Inv, QueuesSound
<1> QED
  BY <1>4 DEF OneList, lists

(* What sched takes from the ready queue is READY and runs nowhere. *)
LEMMA InvReadySound == Inv => ReadySound
BY DEF Inv, QueuesSound, CpuSound, ReadySound

(* A spinlock's holder runs: one that runs nowhere is at a point where it  *)
(* holds none.                                                             *)
LEMMA InvSpinHolderRuns == Inv => SpinHolderRuns
<1> SUFFICES ASSUME Inv PROVE SpinHolderRuns
  OBVIOUS
<1>1. lk # NULL => \E c \in CPUs : running[c] = lk
  BY DEF Inv, TypeOK, LkSound, UnderLk, CpuSound
<1>2. sched_lock # NULL => \E c \in CPUs : pc[running[c]] \in {"resume", "new"}
  BY DEF Inv, SwitchSound, Switched
<1> QED
  BY <1>1, <1>2 DEF SpinHolderRuns

(* For any number of CPUs and threads: a thread is linked in at most one   *)
(* list, once; what sched takes from the ready queue is READY and runs     *)
(* nowhere; and while the sleeplock is free and threads wait for it, some  *)
(* thread is on its way to take it.                                        *)
THEOREM Lists == Spec => []ListsSound
<1>1. Inv => ListsSound
  BY InvOneList, InvReadySound DEF Inv, ListsSound
<1> QED
  BY <1>1, Invariance, PTL

(* For any number of CPUs and threads: the count of interrupt-disables     *)
(* goes with the spinlocks that a thread holds, the holder of a spinlock   *)
(* is on a CPU, and the sleeplock has one owner, through every preemption  *)
(* and context switch.                                                     *)
THEOREM Locks == Spec => []LocksSound
<1>1. Inv => LocksSound
  BY InvSpinHolderRuns DEF Inv, LocksSound, IntrCounted, CountSound,
     FlagSound, OwnerSound
<1> QED
  BY <1>1, Invariance, PTL

=============================================================================
