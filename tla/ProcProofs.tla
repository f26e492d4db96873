----------------------------- MODULE ProcProofs -----------------------------
(***************************************************************************)
(* Proofs about Proc: for any number of processes and any exit statuses.   *)
(***************************************************************************)
EXTENDS Proc, FunctionTheorems, FiniteSetTheorems, SequenceTheorems, TLAPS

-----------------------------------------------------------------------------
(* The inductive invariant *)

(* No struct proc is linked twice, in one list or in two. *)
LinkedOnce ==
  \A p, q \in Procs :
    \A i \in 1..Len(children[p]), j \in 1..Len(children[q]) :
      children[p][i] = children[q][j] => p = q /\ i = j

(* What is linked is allocated. *)
LinkedLive ==
  \A p \in Procs : \A i \in 1..Len(children[p]) :
    mem[children[p][i]] = "live" /\ children[p][i] # INIT

(* What is allocated is linked. *)
HasParent ==
  \A c \in Procs \ {INIT} : mem[c] = "live" =>
    \E p \in Procs : Contains(children[p], c)

(* A process has children only while it runs, and INIT runs for ever. *)
ParentsRun ==
  /\ pc[INIT] \in {"run", "fork", "wait"} /\ mem[INIT] = "live"
  /\ \A p \in Procs : pc[p] \in {"none", "dead"} => children[p] = <<>>

(* How far a process is in its life. *)
LivesSound ==
  \A p \in Procs :
    /\ p >= pid_allocator => mem[p] = "none"
    /\ mem[p] = "none" => pc[p] = "none"
    /\ mem[p] = "freed" => pc[p] = "dead"
    /\ exit_status[p] # STATUS_ALIVE => pc[p] = "dead"
    /\ p \in ptable => pc[p] \notin {"none", "dead"}

(* The child that a fork makes and the one that a wait waits for are still *)
(* in the list of the caller.                                              *)
TargetsLinked ==
  \A p \in Procs :
    /\ pc[p] \in {"fork", "wait"} =>
         target[p] \in Procs /\ Contains(children[p], target[p])
    /\ pc[p] = "fork" => pc[target[p]] = "none"

Inv == /\ TypeOK /\ LinkedOnce /\ LinkedLive /\ HasParent /\ ParentsRun
       /\ LivesSound /\ TargetsLinked

-----------------------------------------------------------------------------
(* Lists *)

(* A list without the node at place i. *)
LEMMA RemoveAtIs ==
  ASSUME NEW S, NEW s \in Seq(S), NEW i \in 1..Len(s)
  PROVE  /\ RemoveAt(s, i) \in Seq(S) /\ Len(RemoveAt(s, i)) = Len(s) - 1
         /\ \A j \in 1..(Len(s) - 1) :
              RemoveAt(s, i)[j] = IF j < i THEN s[j] ELSE s[j + 1]
<1> DEFINE a == SubSeq(s, 1, i - 1)
           b == SubSeq(s, i + 1, Len(s))
<1>1. Len(s) \in Nat
  OBVIOUS
<1>2. /\ a \in Seq(S) /\ Len(a) = i - 1
      /\ \A j \in 1..(i - 1) : a[j] = s[j]
  BY <1>1
<1>3. /\ b \in Seq(S) /\ Len(b) = Len(s) - i
      /\ \A j \in 1..(Len(s) - i) : b[j] = s[i + j]
  BY <1>1
<1> HIDE DEF a, b
<1>4. /\ a \o b \in Seq(S) /\ Len(a \o b) = Len(a) + Len(b)
      /\ \A j \in 1..(Len(a) + Len(b)) :
           (a \o b)[j] = IF j <= Len(a) THEN a[j] ELSE b[j - Len(a)]
  BY <1>2, <1>3, ConcatProperties
<1>5. RemoveAt(s, i) = a \o b
  BY DEF RemoveAt, a, b
<1>6. Len(a) + Len(b) = Len(s) - 1
  BY <1>1, <1>2, <1>3
<1>7. ASSUME NEW j \in 1..(Len(s) - 1)
      PROVE  (a \o b)[j] = IF j < i THEN s[j] ELSE s[j + 1]
  <2>1. CASE j < i
    BY <1>1, <1>2, <1>4, <1>6, <2>1
  <2>2. CASE ~(j < i)
    <3>1. /\ j - (i - 1) \in 1..(Len(s) - i) /\ i + (j - (i - 1)) = j + 1
          /\ ~(j <= i - 1)
      BY <1>1, <2>2
    <3>2. (a \o b)[j] = b[j - (i - 1)]
      BY <1>2, <1>4, <1>6, <3>1
    <3> QED
      BY <1>3, <2>2, <3>1, <3>2
  <2> QED
    BY <2>1, <2>2
<1> QED
  BY <1>4, <1>5, <1>6, <1>7

(* The members of a finite set in the order of a list without repetition. *)
LEMMA InListOrderIs ==
  ASSUME NEW S, IsFiniteSet(S), NEW P, NEW s \in Seq(P),
         \A a, b \in 1..Len(s) : s[a] = s[b] => a = b,
         NEW f \in InListOrder(s, S)
  PROVE  /\ f \in Seq(S)
         /\ \A i, j \in 1..Len(f) : f[i] = f[j] => i = j
         /\ \A x \in S : \E i \in 1..Len(f) : f[i] = x
<1>1. PICK n \in Nat : n = Cardinality(S)
  BY FS_CardinalityType
<1>2. /\ f \in [1..n -> S]
      /\ \A i, j \in 1..n : i < j =>
           \E a, b \in 1..Len(s) : a < b /\ s[a] = f[i] /\ s[b] = f[j]
  BY <1>1 DEF InListOrder
<1>3. \A i, j \in 1..n : i < j => f[i] # f[j]
  <2> SUFFICES ASSUME NEW i \in 1..n, NEW j \in 1..n, i < j, f[i] = f[j]
               PROVE  FALSE
    OBVIOUS
  <2>1. PICK a \in 1..Len(s), b \in 1..Len(s) :
          a < b /\ s[a] = f[i] /\ s[b] = f[j]
    BY <1>2
  <2>2. a = b
    BY <2>1
  <2> QED
    BY <2>1, <2>2
<1>4. \A i, j \in 1..n : f[i] = f[j] => i = j
  <2> SUFFICES ASSUME NEW i \in 1..n, NEW j \in 1..n, f[i] = f[j], i # j
               PROVE  FALSE
    OBVIOUS
  <2>1. i < j \/ j < i
    OBVIOUS
  <2> QED
    BY <1>3, <2>1
<1>5. f \in Injection(1..n, S)
  BY <1>2, <1>4 DEF Injection, IsInjective
<1>6. Cardinality(1..n) = n
  BY <1>1, FS_Interval
<1>7. f \in Surjection(1..n, S)
  BY <1>1, <1>5, <1>6, FS_Injection
<1>8. \A x \in S : \E i \in 1..n : f[i] = x
  BY <1>7 DEF Surjection
<1>9. f \in Seq(S) /\ Len(f) = n
  BY <1>1, <1>2
<1> QED
  BY <1>4, <1>8, <1>9

(* The lists of children are lists of processes. *)
LEMMA ChildrenType ==
  ASSUME TypeOK, NEW p \in Procs
  PROVE  /\ children[p] \in Seq(Procs) /\ Len(children[p]) \in Nat
         /\ \A i \in 1..Len(children[p]) : children[p][i] \in Procs
<1>1. children[p] \in Seq(Procs)
  BY DEF TypeOK
<1> QED
  BY <1>1

-----------------------------------------------------------------------------
(* Steps *)

(* The inductive invariant holds at the start. *)
LEMMA InitInv == Init => Inv
<1> SUFFICES ASSUME Init PROVE Inv
  OBVIOUS
<1> USE ProcAssumption DEF Init, Procs, INIT
<1>1. TypeOK
  <2>1. /\ pid_allocator \in 1..(MaxPid + 1) /\ ptable \subseteq Procs
        /\ any \subseteq Procs /\ off \in BOOLEAN
    <3>1. 1 \in 1..(MaxPid + 1) /\ 0 \in 0..MaxPid
      OBVIOUS
    <3> QED
      BY <3>1
  <2>2. <<>> \in Seq(Procs)
    OBVIOUS
  <2> HIDE DEF Procs
  <2>3. /\ mem \in [Procs -> {"none", "live", "freed"}]
        /\ children \in [Procs -> Seq(Procs)]
        /\ exit_status \in [Procs -> Statuses \cup {STATUS_ALIVE}]
        /\ wait_cv \in [Procs -> Seq(Procs)]
        /\ pc \in [Procs -> {"none", "run", "fork", "wait", "exit", "dead"}]
        /\ target \in [Procs -> Procs \cup {NULL}]
    BY <2>2
  <2> QED
    BY <2>1, <2>3 DEF TypeOK
<1>2. LinkedOnce /\ LinkedLive
  BY DEF LinkedOnce, LinkedLive
<1>3. HasParent /\ ParentsRun /\ LivesSound
  BY DEF HasParent, ParentsRun, LivesSound
<1>4. TargetsLinked
  BY DEF TargetsLinked
<1> QED
  BY <1>1, <1>2, <1>3, <1>4 DEF Inv

(* proc_fork keeps the inductive invariant. *)
LEMMA proc_forkInv ==
  ASSUME Inv, NEW p \in Procs, proc_fork(p)
  PROVE  Inv'
<1>1. PICK q \in Procs : q = pid_allocator
  BY DEF proc_fork
<1>2. /\ pc[p] = "run" /\ pid_allocator' = q + 1
      /\ mem' = [mem EXCEPT ![q] = "live"]
      /\ exit_status' = [exit_status EXCEPT ![q] = STATUS_ALIVE]
      /\ children' = [children EXCEPT ![p] = Append(@, q), ![q] = <<>>]
      /\ target' = [target EXCEPT ![p] = q]
      /\ pc' = [pc EXCEPT ![p] = "fork"]
      /\ UNCHANGED <<ptable, wait_cv, any, off>>
  BY <1>1 DEF proc_fork
<1>3. /\ q \in 1..MaxPid /\ mem[q] = "none" /\ pc[q] = "none" /\ p # q
      /\ q # INIT /\ MaxPid \in Nat /\ Procs = 0..MaxPid /\ INIT = 0
  BY <1>1, <1>2, ProcAssumption DEF Inv, TypeOK, LivesSound, Procs, INIT
<1>4. /\ children \in [Procs -> Seq(Procs)] /\ children[q] = <<>>
      /\ children[p] \in Seq(Procs)
  BY <1>3 DEF Inv, TypeOK, ParentsRun
<1>5. /\ children' \in [Procs -> Seq(Procs)] /\ children'[q] = <<>>
      /\ Len(children'[p]) = Len(children[p]) + 1
      /\ children'[p][Len(children[p]) + 1] = q
      /\ \A i \in 1..Len(children[p]) : children'[p][i] = children[p][i]
      /\ \A r \in Procs : r # p => children'[r] = children[r]
  <2>1. /\ DOMAIN children = Procs
        /\ children'[p] = Append(children[p], q) /\ children'[q] = <<>>
        /\ \A r \in Procs : r # p => children'[r] = children[r]
        /\ DOMAIN children' = Procs
    BY <1>2, <1>3, <1>4
  <2>2. /\ Append(children[p], q) \in Seq(Procs)
        /\ Len(Append(children[p], q)) = Len(children[p]) + 1
        /\ Append(children[p], q)[Len(children[p]) + 1] = q
        /\ \A i \in 1..Len(children[p]) :
             Append(children[p], q)[i] = children[p][i]
    BY <1>4, AppendProperties
  <2>3. \A r \in Procs : children'[r] \in Seq(Procs)
    BY <1>4, <2>1, <2>2
  <2>4. children' = [r \in Procs |-> children'[r]]
    BY <1>2, <1>4
  <2> QED
    BY <2>1, <2>2, <2>3, <2>4
<1>6. \A r \in Procs : \A i \in 1..Len(children[r]) :
        children[r][i] \in Procs /\ children[r][i] # q
  BY <1>3, ChildrenType DEF Inv, LinkedLive
<1>7. \A r \in Procs : \A i \in 1..Len(children'[r]) :
        \/ /\ i \in 1..Len(children[r])
           /\ children'[r][i] = children[r][i]
        \/ r = p /\ i = Len(children[p]) + 1 /\ children'[r][i] = q
  <2> TAKE r \in Procs
  <2>1. CASE r # p
    BY <1>5, <2>1
  <2>2. CASE r = p
    <3>1. Len(children[p]) \in Nat
      BY <1>4
    <3> SUFFICES ASSUME NEW i \in 1..Len(children'[p])
                 PROVE  \/ /\ i \in 1..Len(children[p])
                           /\ children'[p][i] = children[p][i]
                        \/ /\ i = Len(children[p]) + 1
                           /\ children'[p][i] = q
      BY <2>2
    <3>2. i \in 1..Len(children[p]) \/ i = Len(children[p]) + 1
      BY <1>5, <3>1
    <3> QED
      BY <1>5, <3>2
  <2> QED
    BY <2>1, <2>2
<1>8. \A r \in Procs :
        /\ mem'[r] = IF r = q THEN "live" ELSE mem[r]
        /\ exit_status'[r] = IF r = q THEN STATUS_ALIVE ELSE exit_status[r]
        /\ target'[r] = IF r = p THEN q ELSE target[r]
        /\ pc'[r] = IF r = p THEN "fork" ELSE pc[r]
  BY <1>2 DEF Inv, TypeOK
<1>9. TypeOK'
  <2>1. /\ mem' \in [Procs -> {"none", "live", "freed"}]
        /\ exit_status' \in [Procs -> Statuses \cup {STATUS_ALIVE}]
        /\ target' \in [Procs -> Procs \cup {NULL}]
        /\ pc' \in [Procs -> {"none", "run", "fork", "wait", "exit", "dead"}]
    BY <1>2 DEF Inv, TypeOK
  <2>2. pid_allocator' \in 1..(MaxPid + 1)
    BY <1>2, <1>3
  <2> QED
    BY <1>2, <1>5, <2>1, <2>2 DEF Inv, TypeOK
<1>10. LinkedOnce'
  <2> SUFFICES ASSUME NEW r \in Procs, NEW t \in Procs,
                      NEW i \in 1..Len(children'[r]),
                      NEW j \in 1..Len(children'[t]),
                      children'[r][i] = children'[t][j]
               PROVE  r = t /\ i = j
    BY DEF LinkedOnce
  <2> DEFINE Kept(s, k) == /\ k \in 1..Len(children[s])
                           /\ children'[s][k] = children[s][k]
             Added(s, k) == /\ s = p /\ k = Len(children[p]) + 1
                            /\ children'[s][k] = q
  <2>1. Kept(r, i) \/ Added(r, i)
    BY <1>7
  <2>2. Kept(t, j) \/ Added(t, j)
    BY <1>7
  <2>3. CASE Kept(r, i) /\ Kept(t, j)
    <3>1. children[r][i] = children[t][j]
      BY <2>3
    <3> QED
      BY <2>3, <3>1 DEF Inv, LinkedOnce
  <2>4. CASE Added(r, i) /\ Added(t, j)
    BY <2>4
  <2>5. CASE Kept(r, i) /\ Added(t, j)
    BY <1>6, <2>5
  <2>6. CASE Added(r, i) /\ Kept(t, j)
    BY <1>6, <2>6
  <2> QED
    BY <2>1, <2>2, <2>3, <2>4, <2>5, <2>6
<1>11. LinkedLive'
  <2> SUFFICES ASSUME NEW r \in Procs, NEW i \in 1..Len(children'[r])
               PROVE  /\ mem'[children'[r][i]] = "live"
                      /\ children'[r][i] # INIT
    BY DEF LinkedLive
  <2>1. CASE i \in 1..Len(children[r]) /\ children'[r][i] = children[r][i]
    BY <1>6, <1>8, <2>1 DEF Inv, LinkedLive
  <2>2. CASE children'[r][i] = q
    BY <1>3, <1>8, <2>2
  <2> QED
    BY <1>7, <2>1, <2>2
<1>12. \A r, c \in Procs :
         Contains(children[r], c) => Contains(children'[r], c)
  <2> SUFFICES ASSUME NEW r \in Procs, NEW c \in Procs,
                      Contains(children[r], c)
               PROVE  Contains(children'[r], c)
    OBVIOUS
  <2>1. PICK i \in 1..Len(children[r]) : children[r][i] = c
    BY DEF Contains
  <2>2. i \in 1..Len(children'[r]) /\ children'[r][i] = c
    <3>1. CASE r # p
      BY <1>5, <2>1, <3>1
    <3>2. CASE r = p
      <4>1. Len(children[p]) \in Nat
        BY <1>4
      <4> QED
        BY <1>5, <2>1, <3>2, <4>1
    <3> QED
      BY <3>1, <3>2
  <2> QED
    BY <2>2 DEF Contains
<1>13. Contains(children'[p], q)
  <2>1. Len(children[p]) + 1 \in 1..Len(children'[p])
    BY <1>4, <1>5
  <2> QED
    BY <1>5, <2>1 DEF Contains
<1>14. HasParent'
  BY <1>8, <1>12, <1>13 DEF Inv, HasParent
<1>15. ParentsRun'
  <2>1. INIT \in Procs
    BY <1>3
  <2> QED
    <3>1. pc'[INIT] \in {"run", "fork", "wait"} /\ mem'[INIT] = "live"
      BY <1>3, <1>8, <2>1 DEF Inv, ParentsRun
    <3>2. \A r \in Procs : pc'[r] \in {"none", "dead"} => children'[r] = <<>>
      BY <1>5, <1>8 DEF Inv, ParentsRun
    <3> QED
      BY <3>1, <3>2 DEF ParentsRun
<1>16. LivesSound'
  BY <1>1, <1>2, <1>3, <1>8 DEF Inv, LivesSound
<1>17. TargetsLinked'
  <2> SUFFICES ASSUME NEW r \in Procs
               PROVE  /\ pc'[r] \in {"fork", "wait"} =>
                           /\ target'[r] \in Procs
                           /\ Contains(children'[r], target'[r])
                      /\ pc'[r] = "fork" => pc'[target'[r]] = "none"
    BY DEF TargetsLinked
  <2>1. CASE r = p
    BY <1>3, <1>8, <1>13, <2>1
  <2>2. CASE r # p
    <3> SUFFICES ASSUME pc[r] \in {"fork", "wait"}
                 PROVE  /\ target'[r] \in Procs
                        /\ Contains(children'[r], target'[r])
                        /\ pc'[r] = "fork" => pc'[target'[r]] = "none"
      BY <1>8, <2>2
    <3>1. /\ target'[r] = target[r] /\ target[r] \in Procs /\ pc'[r] = pc[r]
          /\ Contains(children[r], target[r])
          /\ pc[r] = "fork" => pc[target[r]] = "none"
      BY <1>8, <2>2 DEF Inv, TargetsLinked
    <3>2. pc[r] = "fork" => pc'[target[r]] = "none"
      BY <1>2, <1>8, <3>1
    <3> QED
      BY <1>12, <3>1, <3>2
  <2> QED
    BY <2>1, <2>2
<1> QED
  BY <1>9, <1>10, <1>11, <1>14, <1>15, <1>16, <1>17 DEF Inv

(* ForkDone keeps the inductive invariant. *)
LEMMA ForkDoneInv ==
  ASSUME Inv, NEW p \in Procs, ForkDone(p)
  PROVE  Inv'
<1> USE DEF ForkDone
<1>1. PICK c \in Procs : c = target[p] /\ pc[c] = "none" /\ c # INIT
  BY DEF Inv, TargetsLinked, ParentsRun
<1>2. p # c /\ \A q \in Procs : pc[q] = "fork" /\ target[q] = c => q = p
  BY <1>1 DEF Inv, TargetsLinked, LinkedOnce, Contains
<1>3. mem[c] = "live"
  BY <1>1 DEF Inv, TargetsLinked, LinkedLive, Contains
<1>4. TypeOK'
  BY <1>1 DEF Inv, TypeOK
<1>5. LinkedOnce' /\ LinkedLive' /\ HasParent'
  BY DEF Inv, LinkedOnce, LinkedLive, HasParent
<1>6. ParentsRun'
  <2>1. INIT \in Procs
    BY ProcAssumption DEF Procs, INIT
  <2>2. /\ UNCHANGED <<mem, children>> /\ pc[p] = "fork"
        /\ \A q \in Procs : pc'[q] = IF q \in {p, c} THEN "run" ELSE pc[q]
    BY <1>1 DEF Inv, TypeOK
  <2> HIDE DEF ForkDone
  <2> QED
    BY <1>1, <2>1, <2>2 DEF Inv, ParentsRun
<1>7. LivesSound'
  BY <1>1, <1>2, <1>3 DEF Inv, TypeOK, LivesSound
<1>8. TargetsLinked'
  BY <1>1, <1>2 DEF Inv, TypeOK, TargetsLinked
<1> QED
  BY <1>4, <1>5, <1>6, <1>7, <1>8 DEF Inv

(* A wait that sleeps keeps the inductive invariant. *)
LEMMA SleepInv ==
  ASSUME Inv, NEW p \in Procs, NEW i \in 1..Len(children[p]),
         pc[p] \in {"run", "wait"},
         wait_cv' = [wait_cv EXCEPT ![children[p][i]] = Append(@, p)],
         target' = [target EXCEPT ![p] = children[p][i]],
         pc' = [pc EXCEPT ![p] = "wait"], any' \subseteq Procs,
         UNCHANGED <<mem, children, pid_allocator, ptable, exit_status, off>>
  PROVE  Inv'
<1>1. PICK c \in Procs : c = children[p][i]
  BY ChildrenType DEF Inv
<1>2. /\ UNCHANGED <<mem, children, pid_allocator, ptable, exit_status, off>>
      /\ \A q \in Procs : /\ pc'[q] = IF q = p THEN "wait" ELSE pc[q]
                          /\ target'[q] = IF q = p THEN c ELSE target[q]
  BY <1>1 DEF Inv, TypeOK
<1>3. TypeOK'
  <2>1. /\ target' \in [Procs -> Procs \cup {NULL}]
        /\ pc' \in [Procs -> {"none", "run", "fork", "wait", "exit", "dead"}]
    BY <1>1 DEF Inv, TypeOK
  <2>2. wait_cv[c] \in Seq(Procs) /\ wait_cv \in [Procs -> Seq(Procs)]
    BY DEF Inv, TypeOK
  <2>3. Append(wait_cv[c], p) \in Seq(Procs)
    BY <2>2
  <2>4. wait_cv' \in [Procs -> Seq(Procs)]
    BY <1>1, <2>2, <2>3
  <2> QED
    BY <1>2, <2>1, <2>4 DEF Inv, TypeOK
<1>4. LinkedOnce' /\ LinkedLive' /\ HasParent'
  BY <1>2 DEF Inv, LinkedOnce, LinkedLive, HasParent
<1>5. ParentsRun'
  BY <1>2, ProcAssumption DEF Inv, ParentsRun, Procs, INIT
<1>6. LivesSound'
  BY <1>2 DEF Inv, LivesSound
<1>7. Contains(children[p], c)
  BY <1>1 DEF Contains
<1>8. TargetsLinked'
  <2> SUFFICES ASSUME NEW r \in Procs
               PROVE  /\ pc'[r] \in {"fork", "wait"} =>
                           /\ target'[r] \in Procs
                           /\ Contains(children'[r], target'[r])
                      /\ pc'[r] = "fork" => pc'[target'[r]] = "none"
    BY DEF TargetsLinked
  <2>1. CASE r = p
    BY <1>2, <1>7, <2>1
  <2>2. CASE r # p
    BY <1>2, <2>2 DEF Inv, TargetsLinked
  <2> QED
    BY <2>1, <2>2
<1> QED
  BY <1>3, <1>4, <1>5, <1>6, <1>8 DEF Inv

(* A wait that frees its child keeps the inductive invariant. *)
LEMMA ReapInv ==
  ASSUME Inv, NEW p \in Procs, NEW i \in 1..Len(children[p]),
         pc[p] \in {"run", "wait"},
         exit_status[children[p][i]] # STATUS_ALIVE,
         children' = [children EXCEPT ![p] = RemoveAt(@, i)],
         mem' = [mem EXCEPT ![children[p][i]] = "freed"],
         target' = [target EXCEPT ![p] = NULL],
         pc' = [pc EXCEPT ![p] = "run"], any' \subseteq Procs,
         UNCHANGED <<wait_cv, pid_allocator, ptable, exit_status, off>>
  PROVE  Inv'
<1>1. PICK c \in Procs : c = children[p][i]
  BY ChildrenType DEF Inv
<1>2. /\ UNCHANGED <<wait_cv, pid_allocator, ptable, exit_status, off>>
      /\ pc[c] = "dead" /\ mem[c] = "live" /\ c # INIT
      /\ \A q \in Procs : /\ pc'[q] = IF q = p THEN "run" ELSE pc[q]
                          /\ target'[q] = IF q = p THEN NULL ELSE target[q]
                          /\ mem'[q] = IF q = c THEN "freed" ELSE mem[q]
  BY <1>1 DEF Inv, TypeOK, LivesSound, LinkedLive
<1>3. PICK n \in Nat : n = Len(children[p])
  BY ChildrenType DEF Inv
<1>4. /\ RemoveAt(children[p], i) \in Seq(Procs)
      /\ Len(RemoveAt(children[p], i)) = n - 1
      /\ \A j \in 1..(n - 1) : RemoveAt(children[p], i)[j] =
           IF j < i THEN children[p][j] ELSE children[p][j + 1]
  BY <1>3, RemoveAtIs, ChildrenType DEF Inv
<1>5. /\ children' \in [Procs -> Seq(Procs)]
      /\ \A r \in Procs : r # p => children'[r] = children[r]
      /\ children'[p] = RemoveAt(children[p], i)
  BY <1>4 DEF Inv, TypeOK
(* Where the nodes of the new lists were. *)
<1>6. \A r \in Procs : \A j \in 1..Len(children'[r]) :
        IF r = p /\ j >= i
        THEN /\ j + 1 \in 1..Len(children[r])
             /\ children'[r][j] = children[r][j + 1]
        ELSE /\ j \in 1..Len(children[r]) /\ children'[r][j] = children[r][j]
             /\ r = p => j # i
  <2> TAKE r \in Procs
  <2>1. CASE r # p
    BY <1>5, <2>1
  <2>2. CASE r = p
    <3> SUFFICES ASSUME NEW j \in 1..(n - 1)
                 PROVE  IF j >= i
                        THEN /\ j + 1 \in 1..n
                             /\ children'[p][j] = children[p][j + 1]
                        ELSE /\ j \in 1..n /\ j # i
                             /\ children'[p][j] = children[p][j]
      BY <1>3, <1>4, <1>5, <2>2
    <3>1. (j >= i <=> ~(j < i)) /\ j + 1 \in 1..n /\ j \in 1..n
      BY <1>3
    <3> QED
      BY <1>4, <1>5, <3>1
  <2> QED
    BY <2>1, <2>2
(* Where the old nodes are. *)
<1>7. \A r \in Procs : \A j \in 1..Len(children[r]) :
        children[r][j] # c => Contains(children'[r], children[r][j])
  <2> SUFFICES ASSUME NEW r \in Procs, NEW j \in 1..Len(children[r]),
                      children[r][j] # c
               PROVE  Contains(children'[r], children[r][j])
    OBVIOUS
  <2>1. CASE r # p
    BY <1>5, <2>1 DEF Contains
  <2>2. CASE r = p
    <3>1. j \in 1..n /\ j # i /\ n = Len(children[p]) /\ i \in 1..n
      BY <1>1, <1>3, <2>2
    <3>2. CASE j < i
      <4>1. j \in 1..(n - 1)
        BY <3>1, <3>2
      <4> QED
        BY <1>4, <1>5, <2>2, <3>2, <4>1 DEF Contains
    <3>3. CASE j > i
      <4>1. PICK k \in 1..(n - 1) : k = j - 1
        BY <3>1, <3>3
      <4>2. ~(k < i) /\ k + 1 = j
        BY <3>1, <3>3, <4>1
      <4>3. children'[p][k] = children[p][j]
        BY <1>4, <1>5, <4>2
      <4> QED
        BY <1>4, <1>5, <2>2, <4>3 DEF Contains
    <3> QED
      BY <3>1, <3>2, <3>3
  <2> QED
    BY <2>1, <2>2
(* The child is not in the new lists. *)
<1>8. \A r \in Procs : \A j \in 1..Len(children'[r]) :
        /\ children'[r][j] # c
        /\ \E k \in 1..Len(children[r]) : children'[r][j] = children[r][k]
  <2> SUFFICES ASSUME NEW r \in Procs, NEW j \in 1..Len(children'[r])
               PROVE  \E k \in 1..Len(children[r]) :
                        /\ children'[r][j] = children[r][k]
                        /\ ~(r = p /\ k = i)
    BY <1>1 DEF Inv, LinkedOnce
  <2>1. CASE r = p /\ j >= i
    <3>1. j + 1 # i
      BY <1>3, <2>1
    <3> QED
      BY <1>6, <2>1, <3>1
  <2>2. CASE ~(r = p /\ j >= i)
    BY <1>6, <2>2
  <2> QED
    BY <2>1, <2>2
<1>9. TypeOK'
  <2>1. /\ target' \in [Procs -> Procs \cup {NULL}]
        /\ pc' \in [Procs -> {"none", "run", "fork", "wait", "exit", "dead"}]
        /\ mem' \in [Procs -> {"none", "live", "freed"}]
    BY <1>1 DEF Inv, TypeOK
  <2> QED
    BY <1>2, <1>5, <2>1 DEF Inv, TypeOK
<1>10. LinkedOnce'
  <2> SUFFICES ASSUME NEW q \in Procs, NEW r \in Procs,
                      NEW j \in 1..Len(children'[q]),
                      NEW k \in 1..Len(children'[r]),
                      children'[q][j] = children'[r][k]
               PROVE  q = r /\ j = k
    BY DEF LinkedOnce
  <2> DEFINE Old(s, m) == IF s = p /\ m >= i THEN m + 1 ELSE m
  <2>1. /\ Old(q, j) \in 1..Len(children[q])
        /\ Old(r, k) \in 1..Len(children[r])
        /\ children'[q][j] = children[q][Old(q, j)]
        /\ children'[r][k] = children[r][Old(r, k)]
    <3> SUFFICES ASSUME NEW s \in Procs, NEW m \in 1..Len(children'[s])
                 PROVE  /\ Old(s, m) \in 1..Len(children[s])
                        /\ children'[s][m] = children[s][Old(s, m)]
      OBVIOUS
    <3>1. CASE s = p /\ m >= i
      BY <1>6, <3>1
    <3>2. CASE ~(s = p /\ m >= i)
      BY <1>6, <3>2
    <3> QED
      BY <3>1, <3>2
  <2>2. q = r /\ Old(q, j) = Old(r, k)
    <3> HIDE DEF Old
    <3> QED
      BY <2>1 DEF Inv, LinkedOnce
  <2>3. j \in Nat /\ k \in Nat
    BY <1>9, ChildrenType
  <2> QED
    BY <1>3, <2>2, <2>3
<1>11. LinkedLive'
  <2> SUFFICES ASSUME NEW r \in Procs, NEW j \in 1..Len(children'[r])
               PROVE  /\ mem'[children'[r][j]] = "live"
                      /\ children'[r][j] # INIT
    BY DEF LinkedLive
  <2>1. PICK k \in 1..Len(children[r]) : children'[r][j] = children[r][k]
    BY <1>8
  <2>2. children[r][k] \in Procs /\ children[r][k] # c
    BY <1>8, <2>1, ChildrenType DEF Inv
  <2> QED
    BY <1>2, <2>1, <2>2 DEF Inv, LinkedLive
<1>12. HasParent'
  <2> SUFFICES ASSUME NEW d \in Procs \ {INIT}, mem'[d] = "live"
               PROVE  \E q \in Procs : Contains(children'[q], d)
    BY DEF HasParent
  <2>1. d # c /\ mem[d] = "live"
    BY <1>2
  <2>2. PICK q \in Procs : Contains(children[q], d)
    BY <2>1 DEF Inv, HasParent
  <2>3. PICK j \in 1..Len(children[q]) : children[q][j] = d
    BY <2>2 DEF Contains
  <2> QED
    BY <1>7, <2>1, <2>3
<1>13. ParentsRun'
  <2>1. INIT \in Procs
    BY ProcAssumption DEF Procs, INIT
  <2>2. pc'[INIT] \in {"run", "fork", "wait"} /\ mem'[INIT] = "live"
    BY <1>2, <2>1 DEF Inv, ParentsRun
  <2>3. \A r \in Procs : pc'[r] \in {"none", "dead"} => children'[r] = <<>>
    BY <1>2, <1>5 DEF Inv, ParentsRun
  <2> QED
    BY <2>2, <2>3 DEF ParentsRun
<1>14. LivesSound'
  BY <1>2 DEF Inv, LivesSound
<1>15. TargetsLinked'
  <2> SUFFICES ASSUME NEW r \in Procs, r # p, pc[r] \in {"fork", "wait"}
               PROVE  /\ target'[r] \in Procs
                      /\ Contains(children'[r], target'[r])
                      /\ pc'[r] = "fork" => pc'[target'[r]] = "none"
    BY <1>2 DEF TargetsLinked
  <2>1. /\ target'[r] = target[r] /\ target[r] \in Procs /\ pc'[r] = pc[r]
        /\ Contains(children[r], target[r])
        /\ pc[r] = "fork" => pc[target[r]] = "none"
    BY <1>2 DEF Inv, TargetsLinked
  <2>2. Contains(children'[r], target'[r])
    BY <1>5, <2>1
  <2>3. pc[r] = "fork" => pc'[target[r]] = "none"
    BY <1>2, <2>1
  <2> QED
    BY <2>1, <2>2, <2>3
<1> QED
  BY <1>9, <1>10, <1>11, <1>12, <1>13, <1>14, <1>15 DEF Inv

(* proc_exit keeps the inductive invariant. *)
LEMMA proc_exitInv ==
  ASSUME Inv, NEW p \in Procs, NEW status \in Statuses, proc_exit(p, status)
  PROVE  Inv'
<1> DEFINE living == {c \in ToSet(children[p]) : exit_status[c] = STATUS_ALIVE}
           zombies == ToSet(children[p]) \ living
<1>0. PICK orphans \in InListOrder(children[p], living) :
        children' = [children EXCEPT ![p] = <<>>, ![INIT] = @ \o orphans]
  BY DEF proc_exit
<1>1. /\ pc[p] = "exit" /\ ptable' = ptable \ {p}
      /\ children' = [children EXCEPT ![p] = <<>>, ![INIT] = @ \o orphans]
      /\ mem' = [c \in Procs |-> IF c \in zombies THEN "freed" ELSE mem[c]]
      /\ exit_status' = [exit_status EXCEPT ![p] = status]
      /\ wait_cv' = [wait_cv EXCEPT ![p] = IF @ = <<>> THEN @ ELSE Tail(@)]
      /\ pc' = [pc EXCEPT ![p] = "dead"]
      /\ UNCHANGED <<pid_allocator, target, any, off>>
  BY <1>0 DEF proc_exit
<1>2. INIT \in Procs /\ p # INIT /\ IsFiniteSet(Procs)
  <2>1. MaxPid \in Int /\ 0 \in Int /\ 0 \in 0..MaxPid
    BY ProcAssumption
  <2>2. IsFiniteSet(Procs)
    BY <2>1, FS_Interval DEF Procs
  <2>3. INIT \in Procs /\ p # INIT
    BY <1>1, <2>1 DEF Inv, ParentsRun, Procs, INIT
  <2> QED
    BY <2>2, <2>3
<1>3. \A c : c \in ToSet(children[p]) <=>
               \E i \in 1..Len(children[p]) : children[p][i] = c
  <2>1. DOMAIN children[p] = 1..Len(children[p])
    BY ChildrenType DEF Inv
  <2> QED
    BY <2>1 DEF ToSet
<1>4. living \subseteq Procs /\ IsFiniteSet(living)
  <2>1. living \subseteq Procs
    BY <1>3, ChildrenType DEF Inv
  <2> QED
    BY <1>2, <2>1, FS_Subset
<1>5. /\ orphans \in Seq(living)
      /\ \A i, j \in 1..Len(orphans) : orphans[i] = orphans[j] => i = j
      /\ \A c \in living : \E i \in 1..Len(orphans) : orphans[i] = c
  <2>1. /\ children[p] \in Seq(Procs)
        /\ \A a, b \in 1..Len(children[p]) :
             children[p][a] = children[p][b] => a = b
    BY ChildrenType DEF Inv, LinkedOnce
  <2> HIDE DEF living
  <2> QED
    BY <1>0, <1>4, <2>1, InListOrderIs
<1>6. /\ orphans \in Seq(Procs) /\ Len(orphans) \in Nat
      /\ \A i \in 1..Len(orphans) : orphans[i] \in living
  <2> HIDE DEF living
  <2> QED
    BY <1>4, <1>5
<1>7. /\ children[INIT] \in Seq(Procs) /\ Len(children[INIT]) \in Nat
  BY <1>2, ChildrenType DEF Inv
<1>8. /\ children[INIT] \o orphans \in Seq(Procs)
      /\ Len(children[INIT] \o orphans) = Len(children[INIT]) + Len(orphans)
      /\ \A i \in 1..(Len(children[INIT]) + Len(orphans)) :
           (children[INIT] \o orphans)[i] =
             IF i <= Len(children[INIT]) THEN children[INIT][i]
             ELSE orphans[i - Len(children[INIT])]
  BY <1>6, <1>7, ConcatProperties
<1>9. /\ children' \in [Procs -> Seq(Procs)] /\ children'[p] = <<>>
      /\ children'[INIT] = children[INIT] \o orphans
      /\ \A r \in Procs \ {p, INIT} : children'[r] = children[r]
  <2>1. children \in [Procs -> Seq(Procs)]
    BY DEF Inv, TypeOK
  <2>2. /\ children'[p] = <<>> /\ children'[INIT] = children[INIT] \o orphans
        /\ \A r \in Procs \ {p, INIT} : children'[r] = children[r]
    BY <1>1, <1>2, <2>1
  <2>3. ASSUME NEW r \in Procs PROVE children'[r] \in Seq(Procs)
    <3>1. CASE r = INIT
      BY <1>8, <2>2, <3>1
    <3>2. CASE r = p
      <4>1. <<>> \in Seq(Procs)
        OBVIOUS
      <4> QED
        BY <2>2, <3>2, <4>1
    <3>3. CASE r \in Procs \ {p, INIT}
      BY <2>1, <2>2, <3>3
    <3> QED
      BY <3>1, <3>2, <3>3
  <2>4. children' = [r \in Procs |-> children'[r]]
    BY <1>1, <2>1
  <2> QED
    BY <2>2, <2>3, <2>4
<1>10. \A r \in Procs :
         /\ mem'[r] = IF r \in zombies THEN "freed" ELSE mem[r]
         /\ exit_status'[r] = IF r = p THEN status ELSE exit_status[r]
         /\ pc'[r] = IF r = p THEN "dead" ELSE pc[r]
         /\ target'[r] = target[r]
  BY <1>1 DEF Inv, TypeOK
(* Where the nodes of the new lists were: the orphans in the list of p. *)
<1>11. \A r \in Procs : \A i \in 1..Len(children'[r]) :
         /\ r # p
         /\ \/ i \in 1..Len(children[r]) /\ children'[r][i] = children[r][i]
            \/ /\ r = INIT /\ i > Len(children[INIT])
               /\ i - Len(children[INIT]) \in 1..Len(orphans)
               /\ children'[r][i] = orphans[i - Len(children[INIT])]
               /\ children'[r][i] \in living
  <2> SUFFICES ASSUME NEW r \in Procs, NEW i \in 1..Len(children'[r])
               PROVE  /\ r # p
                      /\ \/ /\ i \in 1..Len(children[r])
                            /\ children'[r][i] = children[r][i]
                         \/ /\ r = INIT /\ i > Len(children[INIT])
                            /\ i - Len(children[INIT]) \in 1..Len(orphans)
                            /\ children'[r][i]
                                 = orphans[i - Len(children[INIT])]
                            /\ children'[r][i] \in living
    OBVIOUS
  <2>1. CASE r = p
    BY <1>9, <2>1
  <2>2. CASE r \in Procs \ {p, INIT}
    BY <1>9, <2>2
  <2>3. CASE r = INIT
    <3>1. i \in 1..(Len(children[INIT]) + Len(orphans))
      BY <1>8, <1>9, <2>3
    <3>2. CASE i <= Len(children[INIT])
      <4>1. i \in 1..Len(children[INIT])
        BY <1>7, <3>1, <3>2
      <4>2. children'[INIT][i] = children[INIT][i]
        BY <1>8, <1>9, <3>1, <3>2
      <4> QED
        BY <1>2, <2>3, <4>1, <4>2
    <3>3. CASE i > Len(children[INIT])
      <4>1. /\ i - Len(children[INIT]) \in 1..Len(orphans)
            /\ ~(i <= Len(children[INIT]))
        BY <1>6, <1>7, <3>1, <3>3
      <4>2. children'[INIT][i] = orphans[i - Len(children[INIT])]
        BY <1>8, <1>9, <3>1, <4>1
      <4>3. orphans[i - Len(children[INIT])] \in living
        BY <1>6, <4>1
      <4> QED
        BY <1>2, <2>3, <3>3, <4>1, <4>2, <4>3
    <3> QED
      BY <1>7, <3>1, <3>2, <3>3
  <2> QED
    BY <2>1, <2>2, <2>3
(* Where the old nodes are. *)
<1>12. \A r, c \in Procs : Contains(children[r], c) =>
         \/ r # p /\ Contains(children'[r], c)
         \/ r = p /\ c \in living /\ Contains(children'[INIT], c)
         \/ r = p /\ c \in zombies
  <2> SUFFICES ASSUME NEW r \in Procs, NEW c \in Procs,
                      Contains(children[r], c)
               PROVE  \/ r # p /\ Contains(children'[r], c)
                      \/ r = p /\ c \in living /\ Contains(children'[INIT], c)
                      \/ r = p /\ c \in zombies
    OBVIOUS
  <2>1. PICK i \in 1..Len(children[r]) : children[r][i] = c
    BY DEF Contains
  <2>2. CASE r \in Procs \ {p, INIT}
    BY <1>9, <2>2
  <2>3. CASE r = INIT
    <3>1. /\ i \in 1..(Len(children[INIT]) + Len(orphans))
          /\ i <= Len(children[INIT])
      BY <1>6, <1>7, <2>1, <2>3
    <3>2. children'[INIT][i] = c /\ i \in 1..Len(children'[INIT])
      BY <1>8, <1>9, <2>1, <2>3, <3>1
    <3> QED
      BY <1>2, <2>3, <3>2 DEF Contains
  <2>4. CASE r = p /\ c \in living
    <3>1. PICK j \in 1..Len(orphans) : orphans[j] = c
      BY <1>5, <2>4
    <3>2. PICK k \in Nat : k = Len(children[INIT]) + j
      BY <1>6, <1>7
    <3>3. /\ k \in 1..(Len(children[INIT]) + Len(orphans))
          /\ ~(k <= Len(children[INIT])) /\ k - Len(children[INIT]) = j
      BY <1>6, <1>7, <3>2
    <3>4. children'[INIT][k] = c /\ k \in 1..Len(children'[INIT])
      BY <1>8, <1>9, <3>1, <3>3
    <3> QED
      BY <2>4, <3>4 DEF Contains
  <2>5. CASE r = p /\ c \notin living
    BY <1>3, <2>1, <2>5
  <2> QED
    BY <2>2, <2>3, <2>4, <2>5
<1> HIDE DEF living, zombies
<1>13. \A c \in zombies : pc[c] = "dead" /\ c \in Procs /\ c # INIT /\ c # p
  <2>1. \A c \in zombies : /\ exit_status[c] # STATUS_ALIVE
                           /\ \E i \in 1..Len(children[p]) : children[p][i] = c
    BY <1>3 DEF living, zombies
  <2>2. \A c \in zombies : c \in Procs /\ c # INIT
    BY <2>1, ChildrenType DEF Inv, LinkedLive
  <2>3. \A c \in zombies : pc[c] = "dead"
    BY <2>1, <2>2 DEF Inv, LivesSound
  <2> QED
    BY <1>1, <2>2, <2>3
<1>14. \A c \in zombies \cup living :
         \E i \in 1..Len(children[p]) : children[p][i] = c
  BY <1>3 DEF living, zombies
<1>15. TypeOK'
  <2>1. wait_cv \in [Procs -> Seq(Procs)] /\ wait_cv[p] \in Seq(Procs)
    BY DEF Inv, TypeOK
  <2>2. wait_cv[p] # <<>> => Tail(wait_cv[p]) \in Seq(Procs)
    BY <2>1
  <2>3. wait_cv' \in [Procs -> Seq(Procs)]
    BY <1>1, <2>1, <2>2
  <2>4. /\ exit_status' \in [Procs -> Statuses \cup {STATUS_ALIVE}]
        /\ pc' \in [Procs -> {"none", "run", "fork", "wait", "exit", "dead"}]
        /\ ptable' \subseteq Procs
    BY <1>1 DEF Inv, TypeOK
  <2>5. \A c \in Procs : mem[c] \in {"none", "live", "freed"}
    BY DEF Inv, TypeOK
  <2>6. mem' \in [Procs -> {"none", "live", "freed"}]
    BY <1>1, <2>5
  <2> QED
    BY <1>1, <1>9, <2>3, <2>4, <2>6 DEF Inv, TypeOK
<1>16. LinkedOnce'
  <2> SUFFICES ASSUME NEW q \in Procs, NEW r \in Procs,
                      NEW i \in 1..Len(children'[q]),
                      NEW j \in 1..Len(children'[r]),
                      children'[q][i] = children'[r][j]
               PROVE  q = r /\ i = j
    BY DEF LinkedOnce
  <2> DEFINE Kept(s, k) == /\ s # p /\ k \in 1..Len(children[s])
                           /\ children'[s][k] = children[s][k]
             Moved(s, k) == /\ s = INIT /\ k > Len(children[INIT])
                            /\ k - Len(children[INIT]) \in 1..Len(orphans)
                            /\ children'[s][k]
                                 = orphans[k - Len(children[INIT])]
                            /\ children'[s][k] \in living
  <2>1. Kept(q, i) \/ Moved(q, i)
    BY <1>11
  <2>2. Kept(r, j) \/ Moved(r, j)
    BY <1>11
  <2>3. CASE Kept(q, i) /\ Kept(r, j)
    <3>1. children[q][i] = children[r][j]
      BY <2>3
    <3> QED
      BY <2>3, <3>1 DEF Inv, LinkedOnce
  <2>4. CASE Moved(q, i) /\ Moved(r, j)
    <3>1. i - Len(children[INIT]) = j - Len(children[INIT])
      BY <1>5, <2>4
    <3>2. i \in Nat /\ j \in Nat
      BY <1>15, ChildrenType
    <3> QED
      BY <1>7, <2>4, <3>1, <3>2
  <2>5. CASE Kept(q, i) /\ Moved(r, j)
    BY <1>14, <2>5 DEF Inv, LinkedOnce
  <2>6. CASE Moved(q, i) /\ Kept(r, j)
    BY <1>14, <2>6 DEF Inv, LinkedOnce
  <2> QED
    BY <2>1, <2>2, <2>3, <2>4, <2>5, <2>6
<1>17. LinkedLive'
  <2> SUFFICES ASSUME NEW r \in Procs, NEW i \in 1..Len(children'[r])
               PROVE  /\ mem'[children'[r][i]] = "live"
                      /\ children'[r][i] # INIT
    BY DEF LinkedLive
  <2>1. PICK c \in Procs : c = children'[r][i]
    BY <1>15, ChildrenType, <1>9
  <2>2. mem[c] = "live" /\ c # INIT /\ c \notin zombies
    <3>1. CASE /\ r # p /\ i \in 1..Len(children[r])
               /\ children'[r][i] = children[r][i]
      <4>1. c \notin zombies
        BY <1>14, <2>1, <3>1 DEF Inv, LinkedOnce
      <4> QED
        BY <2>1, <3>1, <4>1 DEF Inv, LinkedLive
    <3>2. CASE c \in living
      <4>1. c \notin zombies
        BY <3>2 DEF zombies
      <4> QED
        BY <1>14, <3>2, <4>1 DEF Inv, LinkedLive
    <3> QED
      BY <1>11, <2>1, <3>1, <3>2
  <2> QED
    BY <1>10, <2>1, <2>2
<1>18. HasParent'
  <2> SUFFICES ASSUME NEW c \in Procs \ {INIT}, mem'[c] = "live"
               PROVE  \E q \in Procs : Contains(children'[q], c)
    BY DEF HasParent
  <2>1. mem[c] = "live" /\ c \notin zombies
    BY <1>10
  <2>2. PICK q \in Procs : Contains(children[q], c)
    BY <2>1 DEF Inv, HasParent
  <2> QED
    BY <1>2, <1>12, <2>1, <2>2
<1>19. ParentsRun'
  <2>1. pc'[INIT] \in {"run", "fork", "wait"} /\ mem'[INIT] = "live"
    BY <1>2, <1>10, <1>13 DEF Inv, ParentsRun
  <2>2. \A r \in Procs : pc'[r] \in {"none", "dead"} => children'[r] = <<>>
    <3> SUFFICES ASSUME NEW r \in Procs, pc'[r] \in {"none", "dead"}
                 PROVE  children'[r] = <<>>
      OBVIOUS
    <3>1. r # INIT
      BY <2>1
    <3> QED
      BY <1>9, <1>10, <3>1 DEF Inv, ParentsRun
  <2> QED
    BY <2>1, <2>2 DEF ParentsRun
<1>20. LivesSound'
  <2> SUFFICES ASSUME NEW r \in Procs
               PROVE  /\ r >= pid_allocator => mem'[r] = "none"
                      /\ mem'[r] = "none" => pc'[r] = "none"
                      /\ mem'[r] = "freed" => pc'[r] = "dead"
                      /\ exit_status'[r] # STATUS_ALIVE => pc'[r] = "dead"
                      /\ r \in ptable' => pc'[r] \notin {"none", "dead"}
    BY <1>1 DEF LivesSound
  <2>1. /\ r >= pid_allocator => mem[r] = "none"
        /\ mem[r] = "none" => pc[r] = "none"
        /\ mem[r] = "freed" => pc[r] = "dead"
        /\ exit_status[r] # STATUS_ALIVE => pc[r] = "dead"
        /\ r \in ptable => pc[r] \notin {"none", "dead"}
    BY DEF Inv, LivesSound
  <2>2. CASE r \in zombies
    BY <1>1, <1>10, <1>13, <2>1, <2>2
  <2>3. CASE r \notin zombies
    BY <1>1, <1>10, <2>1, <2>3
  <2> QED
    BY <2>2, <2>3
<1>21. TargetsLinked'
  <2> SUFFICES ASSUME NEW r \in Procs, r # p, pc[r] \in {"fork", "wait"}
               PROVE  /\ target'[r] \in Procs
                      /\ Contains(children'[r], target'[r])
                      /\ pc'[r] = "fork" => pc'[target'[r]] = "none"
    BY <1>10 DEF TargetsLinked
  <2>1. /\ target'[r] = target[r] /\ target[r] \in Procs /\ pc'[r] = pc[r]
        /\ Contains(children[r], target[r])
        /\ pc[r] = "fork" => pc[target[r]] = "none"
    BY <1>10 DEF Inv, TargetsLinked
  <2>2. Contains(children'[r], target'[r])
    BY <1>12, <2>1
  <2>3. pc[r] = "fork" => pc'[target[r]] = "none"
    BY <1>1, <1>10, <2>1
  <2> QED
    BY <2>1, <2>2, <2>3
<1> QED
  BY <1>15, <1>16, <1>17, <1>18, <1>19, <1>20, <1>21 DEF Inv

(* A process that is on its way out, or shuts the machine down, keeps it. *)
LEMMA LeaveInv ==
  ASSUME Inv, NEW p \in Procs, sys_exit(p) \/ handle_page_fault(p)
  PROVE  Inv'
<1>1. /\ pc[p] = "run" /\ p # INIT /\ off' \in BOOLEAN
      /\ pc' = pc \/ pc' = [pc EXCEPT ![p] = "exit"]
      /\ UNCHANGED <<pid_allocator, mem, ptable, children, exit_status,
                     wait_cv, target, any>>
  BY DEF sys_exit, handle_page_fault, Inv, TypeOK
<1>2. \A r \in Procs : pc'[r] = pc[r] \/ (r = p /\ pc'[r] = "exit")
  BY <1>1 DEF Inv, TypeOK
<1>3. TypeOK'
  BY <1>1 DEF Inv, TypeOK
<1>4. LinkedOnce' /\ LinkedLive' /\ HasParent'
  BY <1>1 DEF Inv, LinkedOnce, LinkedLive, HasParent
<1>5. ParentsRun'
  BY <1>1, <1>2, ProcAssumption DEF Inv, ParentsRun, Procs, INIT
<1>6. LivesSound'
  BY <1>1, <1>2 DEF Inv, LivesSound
<1>7. TargetsLinked'
  <2> SUFFICES ASSUME NEW r \in Procs, r # p, pc[r] \in {"fork", "wait"}
               PROVE  /\ target[r] \in Procs
                      /\ Contains(children[r], target[r])
                      /\ pc[r] = "fork" => pc'[target[r]] = "none"
    BY <1>1, <1>2 DEF TargetsLinked
  <2>1. /\ target[r] \in Procs /\ Contains(children[r], target[r])
        /\ pc[r] = "fork" => pc[target[r]] = "none"
    BY DEF Inv, TargetsLinked
  <2> QED
    BY <1>1, <1>2, <2>1
<1> QED
  BY <1>3, <1>4, <1>5, <1>6, <1>7 DEF Inv

(* Every step keeps the inductive invariant. *)
LEMMA NextInv == Inv /\ [Next]_vars => Inv'
<1> SUFFICES ASSUME Inv, [Next]_vars PROVE Inv'
  OBVIOUS
<1>1. CASE UNCHANGED vars
  BY <1>1 DEF vars, Inv, TypeOK, LinkedOnce, LinkedLive, HasParent,
              ParentsRun, LivesSound, TargetsLinked
<1>2. ASSUME NEW p \in Procs, NEW i \in 1..Len(children[p]), TryReap(p, i),
             pc[p] \in {"run", "wait"}, any' \subseteq Procs,
             UNCHANGED <<pid_allocator, ptable, exit_status, off>>
      PROVE  Inv'
  <2>1. CASE exit_status[children[p][i]] = STATUS_ALIVE
    BY <1>2, <2>1, SleepInv DEF TryReap
  <2>2. CASE exit_status[children[p][i]] # STATUS_ALIVE
    BY <1>2, <2>2, ReapInv DEF TryReap
  <2> QED
    BY <2>1, <2>2
<1>3. ASSUME NEW p \in Procs, NEW anyChild \in BOOLEAN, proc_wait(p, anyChild)
      PROVE  Inv'
  <2>1. any' \subseteq Procs
    BY <1>3 DEF proc_wait, Inv, TypeOK
  <2> QED
    BY <1>2, <1>3, <2>1 DEF proc_wait
<1>4. ASSUME NEW p \in Procs, WaitWake(p)
      PROVE  Inv'
  <2>1. any' \subseteq Procs
    BY <1>4 DEF WaitWake, Inv, TypeOK
  <2> QED
    BY <1>2, <1>4, <2>1 DEF WaitWake
<1>5. CASE Next
  BY <1>3, <1>4, <1>5, proc_forkInv, ForkDoneInv, proc_exitInv, LeaveInv
     DEF Next, Call, Continue
<1> QED
  BY <1>1, <1>5

(* The inductive invariant holds in every state. *)
THEOREM Invariance == Spec => []Inv
<1> QED
  BY InitInv, NextInv, PTL DEF Spec

-----------------------------------------------------------------------------
(* What follows *)

(* No list is longer than there are pids. *)
LEMMA ListsBounded ==
  ASSUME Inv, NEW p \in Procs
  PROVE  Len(children[p]) <= MaxPid
<1>1. PICK n \in Nat : n = Len(children[p])
  BY ChildrenType DEF Inv
<1>2. MaxPid \in Nat
  BY ProcAssumption
<1>3. \A i \in 1..n : children[p][i] \in 1..MaxPid
  <2>1. \A i \in 1..n : children[p][i] \in Procs /\ children[p][i] # INIT
    BY <1>1, ChildrenType DEF Inv, LinkedLive
  <2> QED
    BY <1>2, <2>1 DEF Procs, INIT
<1>4. PICK f \in [1..n -> 1..MaxPid] : \A i \in 1..n : f[i] = children[p][i]
  <2>1. [i \in 1..n |-> children[p][i]] \in [1..n -> 1..MaxPid]
    BY <1>3
  <2> QED
    BY <2>1
<1>5. f \in Injection(1..n, 1..MaxPid)
  BY <1>1, <1>4 DEF Inv, LinkedOnce, Injection, IsInjective
<1>6. /\ Cardinality(1..n) = n /\ Cardinality(1..MaxPid) = MaxPid
      /\ IsFiniteSet(1..MaxPid)
  <2>1. \A m \in Nat : IsFiniteSet(1..m) /\ Cardinality(1..m) = m
    BY FS_Interval
  <2> QED
    BY <1>2, <2>1
<1> QED
  BY <1>1, <1>5, <1>6, FS_Injection

(* Every struct proc but INIT's has one parent, from its creation to its   *)
(* end.                                                                    *)
LEMMA InvOneParent == Inv => OneParent
<1> SUFFICES ASSUME Inv, NEW c \in Procs \ {INIT}
             PROVE  IF mem[c] = "live"
                    THEN \E p \in Procs, i \in 1..MaxPid :
                           /\ Places(c) = {<<p, i>>}
                           /\ pc[p] # "dead" /\ mem[p] = "live"
                    ELSE Places(c) = {}
  BY DEF OneParent
<1>1. \A x \in Places(c) : \E p \in Procs : \E i \in 1..Len(children[p]) :
        x = <<p, i>> /\ children[p][i] = c
  <2> SUFFICES ASSUME NEW x \in Places(c)
               PROVE  \E p \in Procs : \E i \in 1..Len(children[p]) :
                        x = <<p, i>> /\ children[p][i] = c
    OBVIOUS
  <2>1. PICK p \in Procs, i \in 1..MaxPid :
          x = <<p, i>> /\ i <= Len(children[p]) /\ children[p][i] = c
    BY DEF Places
  <2>2. i \in 1..Len(children[p])
    BY <2>1, ChildrenType DEF Inv
  <2> QED
    BY <2>1, <2>2
<1>2. ASSUME NEW p \in Procs, NEW i \in 1..Len(children[p]), children[p][i] = c
      PROVE  i \in 1..MaxPid /\ Places(c) = {<<p, i>>}
  <2>1. i \in 1..MaxPid /\ i <= Len(children[p])
    BY ListsBounded, ChildrenType, ProcAssumption DEF Inv
  <2>2. <<p, i>> \in Places(c)
    BY <1>2, <2>1 DEF Places
  <2>3. \A x \in Places(c) : x = <<p, i>>
    BY <1>1, <1>2 DEF Inv, LinkedOnce
  <2> QED
    BY <2>1, <2>2, <2>3
<1>3. CASE mem[c] = "live"
  <2>1. PICK p \in Procs : Contains(children[p], c)
    BY <1>3 DEF Inv, HasParent
  <2>2. PICK i \in 1..Len(children[p]) : children[p][i] = c
    BY <2>1 DEF Contains
  <2>3. pc[p] \notin {"none", "dead"}
    <3>1. children[p] # <<>>
      BY <2>2
    <3> QED
      BY <3>1 DEF Inv, ParentsRun
  <2>4. mem[p] = "live"
    BY <2>3 DEF Inv, LivesSound, TypeOK
  <2> QED
    BY <1>2, <1>3, <2>2, <2>3, <2>4
<1>4. CASE mem[c] # "live"
  BY <1>1, <1>4 DEF Inv, LinkedLive
<1> QED
  BY <1>3, <1>4

(* Nothing is freed that still runs or is waited for. *)
LEMMA InvFreedDead == Inv => FreedDead
<1> SUFFICES ASSUME Inv PROVE FreedDead
  OBVIOUS
<1>1. \A c \in Procs : mem[c] = "freed" => pc[c] = "dead" /\ c \notin ptable
  BY DEF Inv, LivesSound
<1>2. ASSUME NEW p \in Procs, pc[p] = "wait"
      PROVE  mem[target[p]] = "live" /\ Contains(children[p], target[p])
  <2>1. Contains(children[p], target[p])
    BY <1>2 DEF Inv, TargetsLinked
  <2>2. PICK i \in 1..Len(children[p]) : children[p][i] = target[p]
    BY <2>1 DEF Contains
  <2> QED
    BY <2>1, <2>2 DEF Inv, LinkedLive
<1> QED
  BY <1>1, <1>2 DEF FreedDead

(* For any number of processes, and whatever they exit with: through fork, *)
(* wait, exit and adoption in any order every struct proc but INIT's is    *)
(* linked once, in the list of a process that has not finished, until it   *)
(* is freed, and none is freed that runs or is waited for.                 *)
THEOREM Family == Spec => []FamilySound
<1>1. Inv => FamilySound
  BY InvOneParent, InvFreedDead DEF FamilySound, Inv
<1> QED
  BY <1>1, Invariance, PTL

=============================================================================
