------------------------------ MODULE ShmProofs ------------------------------
(***************************************************************************)
(* Proofs about Shm for any number of processes, names, contexts and       *)
(* memregions: the invariants and action properties of shmms, then what    *)
(* the calls leave behind, and that shmms implements SharedRegions.        *)
(***************************************************************************)
EXTENDS Shm, FiniteSetTheorems, TLAPS

-----------------------------------------------------------------------------
(* The inductive invariant.  Besides the properties themselves it says     *)
(* what a process's local variables are worth at each point of its call.   *)

(* A process that unmaps a region, or looks for its node, owns it. *)
UnmapLocals ==
  \A p \in Procs : pc[p] \in Unmapping \cup {"find"} =>
    lmr[p] \in Regs /\ as[lmr[p]] = p /\ store[lmr[p]] = lctx[p]

(* A process that waits for a region lock keeps its mapping meanwhile. *)
LockLocals == \A p \in Procs : pc[p] = "lock" => Mapped(lctx[p], p)

(* A fork builds a process that nobody else sees. *)
ForkLocals ==
  /\ \A p \in Procs : pc[p] = "fork" =>
       child[p] \in Procs /\ pc[child[p]] = "embryo"
  /\ \A p, q \in Procs :
       (pc[p] = "fork" /\ pc[q] = "fork" /\ child[p] = child[q]) => p = q

(* The regions still to visit are there, and not yet being unmapped. *)
Visiting == {"fork", "exit", "find", "exit1", "exit2"}

TodoLocals ==
  \A p \in Procs : pc[p] \in Visiting =>
    \A r \in todo[p] : as[r] = p /\ (pc[p] \in {"find", "exit1"} => lmr[p] # r)

Core ==
  /\ RefcntExact /\ NoDangling /\ RmapExact /\ UniqueNames
  /\ UnmapLocals /\ LockLocals /\ ForkLocals /\ TodoLocals

Inv == TypeOK /\ Core

-----------------------------------------------------------------------------
(* What the reference count says about the users of a context *)

LEMMA FiniteUsers ==
  ASSUME TypeOK, NEW c \in Ctxs
  PROVE  IsFiniteSet(rmap[c]) /\ IsFiniteSet(Pending(c))
<1>1. rmap[c] \subseteq Regs /\ Pending(c) \subseteq Procs
  BY DEF TypeOK, Pending
<1> QED
  BY <1>1, FS_Subset, ShmAssumption

(* A context without references has neither nodes nor pending unmaps. *)
LEMMA NoUsers ==
  ASSUME Inv, NEW c \in ctable, refcnt[c] = 0
  PROVE  rmap[c] = {} /\ Pending(c) = {}
<1>1. c \in Ctxs /\ TypeOK
  BY DEF Inv, TypeOK
<1>2. IsFiniteSet(rmap[c]) /\ IsFiniteSet(Pending(c))
  BY <1>1, FiniteUsers
<1>3. Cardinality(rmap[c]) \in Nat /\ Cardinality(Pending(c)) \in Nat
  BY <1>2, FS_CardinalityType
<1>4. refcnt[c] = Cardinality(rmap[c]) + Cardinality(Pending(c))
  BY DEF Inv, Core, RefcntExact
<1>5. Cardinality(rmap[c]) = 0 /\ Cardinality(Pending(c)) = 0
  BY <1>3, <1>4
<1> QED
  BY <1>2, <1>5, FS_EmptySet

(* An unmap under way is counted. *)
LEMMA PendingCounted ==
  ASSUME Inv, NEW p \in Procs, pc[p] \in Leaving
  PROVE  refcnt[lctx[p]] > 0
<1>1. PICK c \in ctable : c = lctx[p]
  BY DEF Inv, Core, NoDangling
<1>2. c \in Ctxs /\ TypeOK
  BY DEF Inv, TypeOK
<1>3. refcnt[c] \in Nat
  BY <1>2 DEF TypeOK
<1>4. p \in Pending(c)
  BY <1>1 DEF Pending
<1>5. refcnt[c] # 0
  BY <1>4, NoUsers
<1> QED
  BY <1>1, <1>3, <1>5

(* If an unmap under way holds the only reference, it is the only user. *)
LEMMA LastUser ==
  ASSUME Inv, NEW c \in ctable, refcnt[c] = 1, NEW p \in Pending(c)
  PROVE  rmap[c] = {} /\ Pending(c) = {p}
<1>1. c \in Ctxs /\ TypeOK
  BY DEF Inv, TypeOK
<1>2. IsFiniteSet(rmap[c]) /\ IsFiniteSet(Pending(c))
  BY <1>1, FiniteUsers
<1>3. /\ IsFiniteSet(Pending(c) \ {p})
      /\ Cardinality(Pending(c) \ {p}) = Cardinality(Pending(c)) - 1
  BY <1>2, FS_RemoveElement
<1>4. /\ Cardinality(rmap[c]) \in Nat
      /\ Cardinality(Pending(c)) \in Nat
      /\ Cardinality(Pending(c) \ {p}) \in Nat
  BY <1>2, <1>3, FS_CardinalityType
<1>5. refcnt[c] = Cardinality(rmap[c]) + Cardinality(Pending(c))
  BY DEF Inv, Core, RefcntExact
<1>6. Cardinality(rmap[c]) = 0 /\ Cardinality(Pending(c) \ {p}) = 0
  BY <1>3, <1>4, <1>5
<1>7. rmap[c] = {} /\ Pending(c) \ {p} = {}
  BY <1>2, <1>3, <1>6, FS_EmptySet
<1> QED
  BY <1>7

(* Membership in a reverse map. *)
LEMMA RmapMember ==
  ASSUME RmapExact, NEW c \in Ctxs, NEW r \in Regs
  PROVE  r \in rmap[c] <=>
           /\ as[r] # NULL /\ store[r] = c
           /\ \A q \in Procs : pc[q] \in Unmapping => lmr[q] # r
BY DEF RmapExact

(* A step keeps reverse maps exact if it does so region by region. *)
LEMMA RmapPointwise ==
  ASSUME rmap' \in [Ctxs -> SUBSET Regs],
         \A d \in Ctxs, s \in Regs :
           s \in rmap'[d] <=>
             /\ as'[s] # NULL /\ store'[s] = d
             /\ \A q \in Procs : pc'[q] \in Unmapping => lmr'[q] # s
  PROVE  RmapExact'
BY DEF RmapExact

(* A context with no nodes, none of whose regions is being unmapped, is    *)
(* reached from no memregion and from no sleeping or walking process.      *)
LEMMA Unreachable ==
  ASSUME Inv, NEW c \in Ctxs, rmap[c] = {},
         \A q \in Procs : pc[q] \in Unmapping => lctx[q] # c
  PROVE  /\ \A r \in Regs : as[r] # NULL => store[r] # c
         /\ \A q \in Procs : pc[q] \in {"lock", "find"} => lctx[q] # c
<1>1. ASSUME NEW r \in Regs, as[r] # NULL, store[r] = c PROVE FALSE
  <2>1. \A q \in Procs : pc[q] \in Unmapping => lmr[q] # r
    BY <1>1 DEF Inv, Core, UnmapLocals
  <2>2. r \in rmap[c]
    BY <1>1, <2>1, RmapMember DEF Inv, Core
  <2> QED
    BY <2>2
<1>2. ASSUME NEW q \in Procs, pc[q] = "lock" PROVE lctx[q] # c
  BY <1>2 DEF Inv, Core, LockLocals, Mapped
<1>3. ASSUME NEW q \in Procs, pc[q] = "find" PROVE lctx[q] # c
  <2>1. lmr[q] \in Regs /\ as[lmr[q]] = q /\ store[lmr[q]] = lctx[q]
    BY <1>3 DEF Inv, Core, UnmapLocals
  <2> QED
    BY <1>1, <2>1, ShmAssumption
<1> QED
  BY <1>1, <1>2, <1>3

-----------------------------------------------------------------------------
(* Types *)

(* Taking or waiting for a region lock keeps the types of what it writes. *)
LEMMA TryLockType ==
  ASSUME TypeOK, NEW p \in Procs, NEW c \in Ctxs \cup {NULL}, TryLock(p, c)
  PROVE  /\ lock_by' \in [Ctxs -> Procs \cup {NULL}]
         /\ waiters' \in Seq(Procs)
         /\ pc' \in [Procs -> PCs]
         /\ lctx' \in [Procs -> Ctxs \cup {NULL}]
<1>1. lock_by' = lock_by \/ lock_by' = [lock_by EXCEPT ![c] = p]
  BY DEF TryLock
<1>2. waiters' = waiters \/ waiters' = Append(waiters, p)
  BY DEF TryLock
<1>3. \/ pc' = [pc EXCEPT ![p] = "run"] /\ lctx' = [lctx EXCEPT ![p] = NULL]
      \/ pc' = [pc EXCEPT ![p] = "lock"] /\ lctx' = [lctx EXCEPT ![p] = c]
  BY DEF TryLock
<1>4. lock_by' \in [Ctxs -> Procs \cup {NULL}]
  BY <1>1 DEF TypeOK
<1>5. waiters' \in Seq(Procs)
  <2>1. Append(waiters, p) \in Seq(Procs) /\ waiters \in Seq(Procs)
    BY DEF TypeOK
  <2> QED
    BY <1>2, <2>1
<1>6. pc' \in [Procs -> PCs] /\ lctx' \in [Procs -> Ctxs \cup {NULL}]
  <2> "run" \in PCs /\ "lock" \in PCs
    BY DEF PCs
  <2>1. pc' \in [Procs -> PCs]
    BY <1>3 DEF TypeOK
  <2>2. lctx' = [lctx EXCEPT ![p] = NULL] => lctx' \in [Procs -> Ctxs \cup {NULL}]
    BY DEF TypeOK
  <2>3. lctx' = [lctx EXCEPT ![p] = c] => lctx' \in [Procs -> Ctxs \cup {NULL}]
    BY DEF TypeOK
  <2> QED
    BY <1>3, <2>1, <2>2, <2>3
<1> QED
  BY <1>4, <1>5, <1>6

(* Freeing a context keeps the types of what it writes. *)
LEMMA FreeContextType ==
  ASSUME TypeOK, NEW c, FreeContext(c)
  PROVE  /\ ctable' \subseteq Ctxs
         /\ name' \in [Ctxs -> Names \cup {NULL}]
         /\ persist' \subseteq Ctxs /\ empty' \subseteq Ctxs
         /\ lock_by' \in [Ctxs -> Procs \cup {NULL}]
BY DEF FreeContext, TypeOK

(* A system call keeps the types. *)
LEMMA CallType ==
  ASSUME TypeOK, NEW p \in Procs, Call(p)
  PROVE  TypeOK'
<1> USE DEF TypeOK
<1>1. ASSUME NEW n \in Names, NEW keep \in BOOLEAN, NEW zero \in BOOLEAN,
             createSharedRegion(p, n, keep, zero)
      PROVE  TypeOK'
  <2>1. PICK c \in Ctxs :
          /\ ctable'  = ctable \cup {c}
          /\ name'    = [name EXCEPT ![c] = n]
          /\ persist' = IF keep THEN persist \cup {c} ELSE persist \ {c}
          /\ empty'   = IF zero THEN empty \cup {c} ELSE empty \ {c}
          /\ refcnt'  = [refcnt EXCEPT ![c] = 0]
          /\ lock_by' = [lock_by EXCEPT ![c] = NULL]
          /\ rmap'    = [rmap EXCEPT ![c] = {}]
    BY <1>1 DEF createSharedRegion
  <2>2. UNCHANGED <<as, store, waiters, pc, lctx, lmr, todo, child, torn>>
    BY <1>1 DEF createSharedRegion, regvars, procvars
  <2>3. /\ ctable' \subseteq Ctxs /\ persist' \subseteq Ctxs
        /\ empty' \subseteq Ctxs
    BY <2>1
  <2>4. /\ name' \in [Ctxs -> Names \cup {NULL}]
        /\ lock_by' \in [Ctxs -> Procs \cup {NULL}]
    BY <2>1
  <2>5. refcnt' \in [Ctxs -> Nat] /\ rmap' \in [Ctxs -> SUBSET Regs]
    BY <2>1
  <2> QED
    BY <2>2, <2>3, <2>4, <2>5
<1>2. ASSUME NEW n \in Names, destroySharedRegion(p, n) PROVE TypeOK'
  <2>1. UNCHANGED <<refcnt, rmap, as, store, waiters, pc, lctx, lmr, todo,
                    child, torn>>
    BY <1>2 DEF destroySharedRegion, regvars, procvars
  <2>2. \E c \in ctable : FreeContext(c)
    BY <1>2 DEF destroySharedRegion, ByName
  <2> QED
    BY <2>1, <2>2, FreeContextType
<1>3. ASSUME NEW n \in Names, createMapping(p, n) PROVE TypeOK'
  <2>1. UNCHANGED <<ctable, name, persist, empty, lock_by, waiters, pc, lctx, lmr,
                    todo, child>>
    BY <1>3 DEF createMapping, procvars
  <2>2. PICK c \in Ctxs, r \in Regs : AddRef(c, p, r)
    BY <1>3 DEF createMapping, ByName, RegionsOf
  <2>3. as' \in [Regs -> Procs \cup {NULL}]
        /\ store' \in [Regs -> Ctxs \cup {NULL}]
    BY <2>2 DEF AddRef
  <2>4. rmap' \in [Ctxs -> SUBSET Regs] /\ refcnt' \in [Ctxs -> Nat]
    BY <2>2 DEF AddRef
  <2>5. torn' \subseteq Ctxs
    BY <2>2 DEF AddRef, Touch
  <2> QED
    BY <2>1, <2>3, <2>4, <2>5
<1>4. ASSUME NEW n \in Names, destroyMapping(p, n) PROVE TypeOK'
  <2>1. UNCHANGED <<ctable, name, persist, empty, refcnt, lock_by, as, store,
                    waiters, todo, child>>
    BY <1>4 DEF destroyMapping, regvars
  <2>2. PICK c \in Ctxs, r \in Regs :
          /\ rmap' = [rmap EXCEPT ![c] = @ \ {r}]
          /\ lctx' = [lctx EXCEPT ![p] = c]
          /\ lmr'  = [lmr EXCEPT ![p] = r]
          /\ Touch(c)
    BY <1>4 DEF destroyMapping, getContextByHandle, ByName,
       find_remove_rmapping
  <2>3. pc' \in [Procs -> PCs]
    BY <1>4 DEF destroyMapping, PCs
  <2>4. rmap' \in [Ctxs -> SUBSET Regs] /\ torn' \subseteq Ctxs
    BY <2>2 DEF Touch
  <2> QED
    BY <2>1, <2>2, <2>3, <2>4
<1>5. ASSUME NEW n \in Names, FailedLookup(p, n) PROVE TypeOK'
  BY <1>5 DEF FailedLookup, Touch, ByName, ctxvars, regvars, procvars
<1>6. ASSUME NEW n \in Names, lockRegion(p, n) PROVE TypeOK'
  <2>1. UNCHANGED <<ctable, name, persist, empty, refcnt, rmap, as, store, lmr,
                    todo, child>>
    BY <1>6 DEF lockRegion, regvars
  <2>2. PICK c \in Ctxs : TryLock(p, c) /\ Touch(c)
    BY <1>6 DEF lockRegion, getContextByHandle, ByName
  <2>3. torn' \subseteq Ctxs
    BY <2>2 DEF Touch
  <2> QED
    BY <2>1, <2>2, <2>3, TryLockType
<1>7. ASSUME NEW n \in Names, unlockRegion(p, n) PROVE TypeOK'
  <2>1. UNCHANGED <<ctable, name, persist, empty, refcnt, rmap, as, store, pc, lctx,
                    lmr, todo, child>>
    BY <1>7 DEF unlockRegion, regvars, procvars
  <2>2. PICK c \in Ctxs : lock_by' = [lock_by EXCEPT ![c] = NULL] /\ Touch(c)
    BY <1>7 DEF unlockRegion, getContextByHandle, ByName
  <2>3. waiters' \in Seq(Procs)
    BY <1>7 DEF unlockRegion
  <2>4. lock_by' \in [Ctxs -> Procs \cup {NULL}] /\ torn' \subseteq Ctxs
    BY <2>2 DEF Touch
  <2> QED
    BY <2>1, <2>3, <2>4
<1>8. ASSUME NEW q \in Procs, Spawn(p, q) PROVE TypeOK'
  BY <1>8 DEF Spawn, ctxvars, regvars, PCs
<1>9. ASSUME NEW q \in Procs, ForkBegin(p, q) PROVE TypeOK'
  BY <1>9 DEF ForkBegin, RegionsOf, ctxvars, regvars, PCs
<1>10. CASE ExitBegin(p)
  BY <1>10 DEF ExitBegin, RegionsOf, ctxvars, regvars, PCs
<1> QED
  BY <1>1, <1>2, <1>3, <1>4, <1>5, <1>6, <1>7, <1>8, <1>9, <1>10 DEF Call

(* The regions that a fork or an exit visits have a live context. *)
LEMMA TodoRegs ==
  ASSUME Inv, NEW p \in Procs, pc[p] \in Visiting, NEW r \in todo[p]
  PROVE  r \in Regs /\ as[r] = p /\ p # NULL /\ store[r] \in ctable
<1>1. r \in Regs
  BY DEF Inv, TypeOK
<1>2. as[r] = p
  BY DEF Inv, Core, TodoLocals
<1>3. p # NULL
  BY ShmAssumption
<1>4. store[r] \in ctable
  BY <1>1, <1>2, <1>3 DEF Inv, Core, NoDangling
<1> QED
  BY <1>1, <1>2, <1>3, <1>4

(* So does the kernel when it goes on with a call. *)
LEMMA ContinueType ==
  ASSUME Inv, NEW p \in Procs, Continue(p)
  PROVE  TypeOK'
<1> TypeOK
  BY DEF Inv, Core
<1> USE DEF TypeOK
<1>1. ASSUME NEW at, NEW next \in PCs, UnmapRegion(p, at, next) PROVE TypeOK'
  BY <1>1 DEF UnmapRegion, ctxvars
<1>2. ASSUME NEW at \in Leaving, NEW next \in PCs, NEW force,
             DropRef(p, at, next, force)
      PROVE  TypeOK'
  <2>1. UNCHANGED <<rmap, as, store, waiters, lmr, todo, child, torn>>
    BY <1>2 DEF DropRef, regvars
  <2>2. pc' \in [Procs -> PCs] /\ lctx' \in [Procs -> Ctxs \cup {NULL}]
    BY <1>2 DEF DropRef
  <2>3. FreeContext(lctx[p]) \/ UNCHANGED <<ctable, name, persist, empty, lock_by>>
    BY <1>2 DEF DropRef
  <2>4. refcnt' = [refcnt EXCEPT ![lctx[p]] = @ - 1] /\ pc[p] \in Leaving
    BY <1>2 DEF DropRef
  <2>5. lctx[p] \in Ctxs
    BY <2>4 DEF Inv, Core, NoDangling
  <2>6. refcnt[lctx[p]] > 0
    BY <2>4, PendingCounted
  <2>7. refcnt' \in [Ctxs -> Nat]
    BY <2>4, <2>5, <2>6
  <2> QED
    BY <2>1, <2>2, <2>3, <2>7, FreeContextType
<1>3. CASE UnmapStep(p) \/ ExitStep(p)
  BY <1>3, <1>1 DEF UnmapStep, ExitStep, PCs
<1>4. CASE UnmapUnref(p) \/ ExitUnref(p)
  BY <1>4, <1>2 DEF UnmapUnref, ExitUnref, PCs, Leaving
<1>5. CASE LockWake(p)
  <2>1. UNCHANGED <<ctable, name, persist, empty, refcnt, rmap, as, store, lmr,
                    todo, child, torn>>
    BY <1>5 DEF LockWake, regvars
  <2>2. TryLock(p, lctx[p]) /\ lctx[p] \in Ctxs \cup {NULL}
    BY <1>5 DEF LockWake
  <2> QED
    BY <2>1, <2>2, TryLockType
<1>6. CASE ForkCopy(p)
  <2>1. UNCHANGED <<ctable, name, persist, empty, lock_by, waiters, pc, lctx, lmr,
                    child>>
    BY <1>6 DEF ForkCopy
  <2>2. PICK r \in Regs, s \in Regs :
          store[r] \in Ctxs /\ AddRef(store[r], child[p], s)
    <3>1. PICK r \in todo[p], s \in Regs : AddRef(store[r], child[p], s)
      BY <1>6 DEF ForkCopy, RegionsOf
    <3>2. r \in Regs /\ store[r] \in Ctxs
      BY <1>6, TodoRegs DEF ForkCopy, Visiting
    <3> QED BY <3>1, <3>2
  <2>3. as' \in [Regs -> Procs \cup {NULL}]
        /\ store' \in [Regs -> Ctxs \cup {NULL}]
    BY <2>2 DEF AddRef
  <2>4. rmap' \in [Ctxs -> SUBSET Regs] /\ refcnt' \in [Ctxs -> Nat]
    BY <2>2 DEF AddRef
  <2>5. torn' \subseteq Ctxs
    BY <2>2 DEF AddRef, Touch
  <2>6. todo' \in [Procs -> SUBSET Regs]
    BY <1>6 DEF ForkCopy
  <2> QED
    BY <2>1, <2>3, <2>4, <2>5, <2>6
<1>7. CASE ForkCopyLost(p) \/ ForkAborted(p) \/ ExitDone(p)
  <2>1. CASE ForkCopyLost(p)
    BY <2>1 DEF ForkCopyLost, ctxvars, regvars, PCs
  <2>2. CASE ForkAborted(p)
    BY <2>2 DEF ForkAborted, ctxvars, regvars, PCs
  <2>3. CASE ExitDone(p)
    BY <2>3 DEF ExitDone, ctxvars, regvars, PCs
  <2> QED
    BY <1>7, <2>1, <2>2, <2>3
<1>8. CASE ForkDone(p)
  BY <1>8 DEF ForkDone, ctxvars, regvars, PCs
<1>9. CASE ForkFail(p)
  BY <1>9 DEF ForkFail, ctxvars, regvars, RegionsOf, PCs
<1>10. CASE UnmapAllFind(p)
  <2>1. UNCHANGED <<ctxvars, as, store, waiters, child>>
    BY <1>10 DEF UnmapAllFind, regvars
  <2>2. PICK r \in todo[p] : lctx' = [lctx EXCEPT ![p] = store[r]]
                             /\ Touch(store[r])
    BY <1>10 DEF UnmapAllFind
  <2>3. store[r] \in Ctxs
    BY <1>10, TodoRegs DEF UnmapAllFind, Visiting
  <2>4. torn' \subseteq Ctxs /\ lctx' \in [Procs -> Ctxs \cup {NULL}]
    BY <2>2, <2>3 DEF Touch
  <2>5. /\ todo' \in [Procs -> SUBSET Regs]
        /\ lmr' \in [Procs -> Regs \cup {NULL}]
        /\ pc' \in [Procs -> PCs]
    BY <1>10 DEF UnmapAllFind, PCs
  <2> QED
    BY <2>1, <2>4, <2>5 DEF ctxvars
<1>11. CASE UnmapAllRemove(p)
  <2>1. UNCHANGED <<ctable, name, persist, empty, refcnt, lock_by, as, store,
                    waiters, lctx, lmr, todo, child, torn>>
    BY <1>11 DEF UnmapAllRemove, regvars
  <2>2. \/ rmap' = [rmap EXCEPT ![lctx[p]] = @ \ {lmr[p]}]
        \/ rmap' = [rmap EXCEPT ![lctx[p]] = @]
    BY <1>11 DEF UnmapAllRemove
  <2>3. \E at \in PCs : pc' = [pc EXCEPT ![p] = at]
    BY <1>11 DEF UnmapAllRemove, PCs
  <2>4. rmap' \in [Ctxs -> SUBSET Regs]
    <3>1. CASE rmap' = [rmap EXCEPT ![lctx[p]] = @ \ {lmr[p]}]
      BY <3>1
    <3>2. CASE rmap' = [rmap EXCEPT ![lctx[p]] = @]
      BY <3>2
    <3> QED
      BY <2>2, <3>1, <3>2
  <2>5. pc' \in [Procs -> PCs]
    BY <2>3
  <2> QED
    BY <2>1, <2>4, <2>5
<1> QED
  BY <1>3, <1>4, <1>5, <1>6, <1>7, <1>8, <1>9, <1>10, <1>11 DEF Continue

(* Every step of every process leaves the variables with their types. *)
LEMMA TypeNext == Inv /\ [Next]_vars => TypeOK'
<1>1. TypeOK /\ UNCHANGED vars => TypeOK'
  BY DEF TypeOK, vars
<1> QED
  BY <1>1, CallType, ContinueType DEF Next, Inv, Core

-----------------------------------------------------------------------------
(* Steps that leave the tables alone *)

(* A process that a step does not concern. *)
Same(q) ==
  /\ pc'[q] = pc[q] /\ lctx'[q] = lctx[q] /\ lmr'[q] = lmr[q]
  /\ todo'[q] = todo[q]

(* A process that a step takes to a state outside an unmap, with local     *)
(* variables that are good there.                                          *)
Fresh(q) ==
  /\ pc[q] \notin Leaving /\ pc'[q] \notin Leaving
  /\ pc'[q] = "lock" => lctx'[q] \in ctable /\ Mapped(lctx'[q], q)
  /\ pc'[q] = "find" =>
       lmr'[q] \in Regs /\ as[lmr'[q]] = q /\ store[lmr'[q]] = lctx'[q]
  /\ pc'[q] \in Visiting =>
       \A r \in todo'[q] : as[r] = q /\ (pc'[q] = "find" => lmr'[q] # r)

(* A step that leaves contexts, nodes and regions alone, and only moves a  *)
(* process between places whose locals fit, keeps the core invariant.      *)
LEMMA QuietStep ==
  ASSUME Inv, UNCHANGED <<ctable, name, refcnt, rmap, as, store>>,
         \A q \in Procs : Same(q) \/ Fresh(q)
  PROVE  /\ RefcntExact' /\ NoDangling' /\ RmapExact' /\ UniqueNames'
         /\ UnmapLocals' /\ LockLocals' /\ TodoLocals'
<1>1. \A q \in Procs :
        /\ pc'[q] \in Leaving <=> pc[q] \in Leaving
        /\ pc'[q] \in Unmapping <=> pc[q] \in Unmapping
        /\ pc[q] \in Leaving => lctx'[q] = lctx[q] /\ lmr'[q] = lmr[q]
  BY DEF Same, Fresh, Leaving
<1>2. \A c : Pending(c)' = Pending(c)
  BY <1>1 DEF Pending
<1>3. RefcntExact'
  BY <1>2 DEF Inv, Core, RefcntExact
<1>4. RmapExact'
  <2>1. \A q \in Procs : pc[q] \in Unmapping => lmr'[q] = lmr[q]
    BY <1>1 DEF Leaving
  <2>2. \A r \in Regs : (\A q \in Procs : pc'[q] \in Unmapping => lmr'[q] # r)
                   <=> (\A q \in Procs : pc[q] \in Unmapping => lmr[q] # r)
    BY <1>1, <2>1
  <2> QED
    BY <2>2 DEF Inv, Core, RmapExact
<1>5. UniqueNames'
  BY DEF Inv, Core, UniqueNames
<1>6. UnmapLocals'
  <2> SUFFICES ASSUME NEW q \in Procs, pc'[q] \in Unmapping \cup {"find"}
               PROVE  /\ lmr'[q] \in Regs /\ as[lmr'[q]] = q
                      /\ store[lmr'[q]] = lctx'[q]
    BY DEF UnmapLocals
  <2>1. CASE Same(q)
    BY <2>1 DEF Same, Inv, Core, UnmapLocals
  <2>2. CASE Fresh(q)
    BY <2>2 DEF Fresh, Leaving
  <2> QED
    BY <2>1, <2>2
<1>7. LockLocals'
  <2> SUFFICES ASSUME NEW q \in Procs, pc'[q] = "lock"
               PROVE  Mapped(lctx'[q], q)
    BY DEF LockLocals, Mapped
  <2>1. CASE Same(q)
    BY <2>1 DEF Same, Inv, Core, LockLocals
  <2> QED
    BY <2>1 DEF Fresh
<1>8. TodoLocals'
  <2> SUFFICES ASSUME NEW q \in Procs, pc'[q] \in Visiting, NEW r \in todo'[q]
               PROVE  as[r] = q /\ (pc'[q] \in {"find", "exit1"} => lmr'[q] # r)
    BY DEF TodoLocals
  <2>1. CASE Same(q)
    BY <2>1 DEF Same, Inv, Core, TodoLocals
  <2>2. CASE Fresh(q)
    BY <2>2 DEF Fresh, Leaving, Unmapping
  <2> QED
    BY <2>1, <2>2
<1>9. NoDangling'
  <2>1. ASSUME NEW q \in Procs, pc'[q] \in {"lock", "find"} \cup Leaving
        PROVE  lctx'[q] \in ctable
    <3>1. CASE Same(q)
      BY <2>1, <3>1 DEF Same, Inv, Core, NoDangling
    <3>2. CASE Fresh(q) /\ pc'[q] = "find"
      <4>1. /\ lmr'[q] \in Regs /\ as[lmr'[q]] = q
            /\ store[lmr'[q]] = lctx'[q]
        BY <3>2 DEF Fresh
      <4> QED
        BY <4>1, ShmAssumption DEF Inv, Core, NoDangling
    <3>3. CASE Fresh(q) /\ pc'[q] = "lock"
      BY <3>3 DEF Fresh
    <3>4. Fresh(q) => pc'[q] \notin Leaving
      BY DEF Fresh
    <3> QED
      BY <2>1, <3>1, <3>2, <3>3, <3>4
  <2> QED
    BY <2>1 DEF Inv, Core, NoDangling
<1> QED
  BY <1>3, <1>4, <1>5, <1>6, <1>7, <1>8, <1>9

(* Only fork itself and the processes that it builds concern ForkLocals. *)
LEMMA ForkQuiet ==
  ASSUME ForkLocals, NEW p \in Procs, pc[p] # "embryo",
         \A q \in Procs \ {p} : pc'[q] = pc[q] /\ child'[q] = child[q],
         pc'[p] = "fork" => pc[p] = "fork" /\ child'[p] = child[p]
  PROVE  ForkLocals'
<1>1. \A q \in Procs : pc'[q] = "fork" => pc[q] = "fork" /\ child'[q] = child[q]
  OBVIOUS
<1>2. ASSUME NEW q \in Procs, pc'[q] = "fork"
      PROVE  child'[q] \in Procs /\ pc'[child'[q]] = "embryo"
  <2>1. child[q] \in Procs /\ pc[child[q]] = "embryo"
    BY <1>1, <1>2 DEF ForkLocals
  <2> QED
    BY <1>1, <1>2, <2>1
<1> QED
  BY <1>1, <1>2 DEF ForkLocals

(* The quiet system calls. *)
LEMMA QuietCall ==
  ASSUME Inv, NEW p \in Procs,
         \/ \E n \in Names :
              FailedLookup(p, n) \/ lockRegion(p, n) \/ unlockRegion(p, n)
         \/ \E q \in Procs : Spawn(p, q) \/ ForkBegin(p, q)
         \/ ExitBegin(p)
  PROVE  Core'
<1> TypeOK /\ ForkLocals
  BY DEF Inv, Core
<1> USE DEF TypeOK
<1>1. ASSUME NEW n \in Names, FailedLookup(p, n) \/ unlockRegion(p, n)
      PROVE  Core'
  <2>1. /\ UNCHANGED <<ctable, name, refcnt, rmap, as, store>>
        /\ UNCHANGED <<pc, lctx, lmr, todo, child>>
    BY <1>1 DEF FailedLookup, unlockRegion, ctxvars, regvars, procvars
  <2>2. \A r \in Procs : Same(r)
    BY <2>1 DEF Same
  <2>3. ForkLocals'
    BY <2>1 DEF ForkLocals
  <2> QED
    BY <2>1, <2>2, <2>3, QuietStep DEF Core
<1>2. ASSUME NEW n \in Names, lockRegion(p, n) PROVE Core'
  <2>1. UNCHANGED <<ctable, name, refcnt, rmap, as, store, lmr, todo, child>>
    BY <1>2 DEF lockRegion, regvars
  <2>2. PICK c \in ctable : Mapped(c, p) /\ TryLock(p, c)
    BY <1>2 DEF lockRegion, getContextByHandle, ByName
  <2>3. \/ /\ pc' = [pc EXCEPT ![p] = "run"]
           /\ lctx' = [lctx EXCEPT ![p] = NULL]
        \/ /\ pc' = [pc EXCEPT ![p] = "lock"]
           /\ lctx' = [lctx EXCEPT ![p] = c]
    BY <2>2 DEF TryLock
  <2>4. pc[p] = "run"
    BY <1>2 DEF lockRegion
  <2>5. Fresh(p)
    <3>1. pc'[p] = "run" \/ (pc'[p] = "lock" /\ lctx'[p] = c)
      BY <2>3
    <3> QED
      BY <2>2, <2>4, <3>1 DEF Fresh, Leaving, Unmapping, Visiting
  <2>6. \A r \in Procs \ {p} : Same(r)
    BY <2>1, <2>3 DEF Same
  <2>7. pc'[p] # "fork" /\ \A r \in Procs \ {p} : pc'[r] = pc[r]
    BY <2>3
  <2>8. ForkLocals'
    BY <2>1, <2>4, <2>7, ForkQuiet
  <2> QED
    BY <2>1, <2>5, <2>6, <2>8, QuietStep DEF Core
<1>3. ASSUME NEW q \in Procs, Spawn(p, q) PROVE Core'
  <2>1. /\ UNCHANGED <<ctable, name, refcnt, rmap, as, store, lctx, lmr>>
        /\ UNCHANGED <<todo, child>>
        /\ pc' = [pc EXCEPT ![q] = "run"]
        /\ pc[q] = "unborn"
    BY <1>3 DEF Spawn, ctxvars, regvars
  <2>2. Fresh(q)
    BY <2>1 DEF Fresh, Leaving, Unmapping, Visiting
  <2>3. \A r \in Procs \ {q} : Same(r)
    BY <2>1 DEF Same
  <2>4. ForkLocals'
    BY <2>1, ForkQuiet
  <2> QED
    BY <2>1, <2>2, <2>3, <2>4, QuietStep DEF Core
<1>4. ASSUME NEW q \in Procs, ForkBegin(p, q) PROVE Core'
  <2>1. /\ UNCHANGED <<ctable, name, refcnt, rmap, as, store, lctx, lmr>>
        /\ pc' = [pc EXCEPT ![p] = "fork", ![q] = "embryo"]
        /\ child' = [child EXCEPT ![p] = q]
        /\ todo' = [todo EXCEPT ![p] = RegionsOf(p)]
        /\ pc[p] = "run" /\ pc[q] = "unborn"
    BY <1>4 DEF ForkBegin, ctxvars, regvars
  <2>2. p # q /\ pc'[p] = "fork" /\ pc'[q] = "embryo"
    BY <2>1
  <2>3. Fresh(p)
    BY <2>1, <2>2 DEF Fresh, Leaving, Unmapping, RegionsOf
  <2>4. Fresh(q)
    BY <2>1, <2>2 DEF Fresh, Leaving, Unmapping, Visiting
  <2>5. \A r \in Procs \ {p, q} : Same(r)
    BY <2>1 DEF Same
  <2>6. ForkLocals'
    <3>1. ASSUME NEW r \in Procs, pc'[r] = "fork"
          PROVE  /\ child'[r] \in Procs /\ pc'[child'[r]] = "embryo"
                 /\ r # p => (pc[r] = "fork" /\ child'[r] = child[r]
                               /\ child[r] # q)
      <4>1. CASE r = p
        BY <2>1, <2>2, <4>1
      <4>2. CASE r # p
        <5>1. pc[r] = "fork" /\ child'[r] = child[r]
          BY <2>1, <2>2, <3>1, <4>2
        <5>2. child[r] \in Procs /\ pc[child[r]] = "embryo"
          BY <5>1 DEF ForkLocals
        <5>3. child[r] # p /\ child[r] # q
          BY <2>1, <5>2
        <5> QED
          BY <2>1, <5>1, <5>2, <5>3
      <4> QED
        BY <4>1, <4>2
    <3>2. child'[p] = q
      BY <2>1
    <3>3. ASSUME NEW r \in Procs, NEW s \in Procs, pc'[r] = "fork",
                 pc'[s] = "fork", child'[r] = child'[s]
          PROVE  r = s
      <4>1. CASE r = p \/ s = p
        BY <3>1, <3>2, <3>3, <4>1
      <4>2. CASE r # p /\ s # p
        BY <3>1, <3>3, <4>2 DEF ForkLocals
      <4> QED
        BY <4>1, <4>2
    <3> QED
      BY <3>1, <3>3 DEF ForkLocals
  <2> QED
    BY <2>1, <2>3, <2>4, <2>5, <2>6, QuietStep DEF Core
<1>5. CASE ExitBegin(p)
  <2>1. /\ UNCHANGED <<ctable, name, refcnt, rmap, as, store, lctx, lmr>>
        /\ pc' = [pc EXCEPT ![p] = "exit"]
        /\ todo' = [todo EXCEPT ![p] = RegionsOf(p)]
        /\ pc[p] = "run" /\ child' = child
    BY <1>5 DEF ExitBegin, ctxvars, regvars
  <2>2. Fresh(p)
    BY <2>1 DEF Fresh, Leaving, Unmapping, RegionsOf
  <2>3. \A r \in Procs \ {p} : Same(r)
    BY <2>1 DEF Same
  <2>4. ForkLocals'
    BY <2>1, ForkQuiet
  <2> QED
    BY <2>1, <2>2, <2>3, <2>4, QuietStep DEF Core
<1> QED
  BY <1>1, <1>2, <1>3, <1>4, <1>5

(* The quiet steps of the kernel. *)
LEMMA QuietContinue ==
  ASSUME Inv, NEW p \in Procs,
         \/ LockWake(p) \/ ForkCopyLost(p) \/ ForkDone(p) \/ ForkFail(p)
         \/ ForkAborted(p) \/ UnmapAllFind(p) \/ ExitDone(p)
  PROVE  Core'
<1> TypeOK /\ ForkLocals
  BY DEF Inv, Core
<1> USE DEF TypeOK
<1>1. CASE LockWake(p)
  <2>1. UNCHANGED <<ctable, name, refcnt, rmap, as, store, lmr, todo, child>>
    BY <1>1 DEF LockWake, regvars
  <2>2. pc[p] = "lock" /\ TryLock(p, lctx[p])
    BY <1>1 DEF LockWake
  <2>3. \/ /\ pc' = [pc EXCEPT ![p] = "run"]
           /\ lctx' = [lctx EXCEPT ![p] = NULL]
        \/ /\ pc' = [pc EXCEPT ![p] = "lock"]
           /\ lctx' = [lctx EXCEPT ![p] = lctx[p]]
    BY <2>2 DEF TryLock
  <2>4. lctx[p] \in ctable /\ Mapped(lctx[p], p)
    BY <2>2 DEF Inv, Core, NoDangling, LockLocals
  <2>5. Fresh(p)
    <3>1. pc'[p] = "run" \/ (pc'[p] = "lock" /\ lctx'[p] = lctx[p])
      BY <2>3
    <3> QED
      BY <2>2, <2>4, <3>1 DEF Fresh, Leaving, Unmapping, Visiting
  <2>6. \A r \in Procs \ {p} : Same(r)
    BY <2>1, <2>3 DEF Same
  <2>7. pc'[p] # "fork" /\ \A r \in Procs \ {p} : pc'[r] = pc[r]
    BY <2>3
  <2>8. ForkLocals'
    BY <2>1, <2>2, <2>7, ForkQuiet
  <2> QED
    BY <2>1, <2>5, <2>6, <2>8, QuietStep DEF Core
<1>2. CASE ForkCopyLost(p)
  <2>1. /\ UNCHANGED <<ctable, name, refcnt, rmap, as, store, lctx, lmr>>
        /\ UNCHANGED <<pc, child>> /\ pc[p] = "fork"
    BY <1>2 DEF ForkCopyLost, ctxvars, regvars
  <2>2. PICK r \in todo[p] : todo' = [todo EXCEPT ![p] = @ \ {r}]
    BY <1>2 DEF ForkCopyLost
  <2>3. \A s \in todo'[p] : as[s] = p
    BY <2>1, <2>2 DEF Inv, Core, TodoLocals, Visiting
  <2>4. Fresh(p)
    BY <2>1, <2>3 DEF Fresh, Leaving, Unmapping
  <2>5. \A s \in Procs \ {p} : Same(s)
    BY <2>1, <2>2 DEF Same
  <2>6. ForkLocals'
    BY <2>1 DEF ForkLocals
  <2> QED
    BY <2>1, <2>4, <2>5, <2>6, QuietStep DEF Core
<1>3. ASSUME ForkDone(p) \/ ForkFail(p) PROVE Core'
  <2> DEFINE ch == child[p]
  <2>1. /\ UNCHANGED <<ctable, name, refcnt, rmap, as, store, lctx, lmr>>
        /\ pc[p] = "fork"
    BY <1>3 DEF ForkDone, ForkFail, ctxvars, regvars
  <2>2. ch \in Procs /\ pc[ch] = "embryo" /\ ch # p
    BY <2>1 DEF ForkLocals
  <2>3. \/ /\ pc' = [pc EXCEPT ![p] = "run", ![ch] = "run"]
           /\ todo' = todo
           /\ child' = [child EXCEPT ![p] = NULL]
        \/ /\ pc' = [pc EXCEPT ![p] = "abort", ![ch] = "exit"]
           /\ todo' = [todo EXCEPT ![p] = {}, ![ch] = RegionsOf(ch)]
           /\ child' = child
    BY <1>3 DEF ForkDone, ForkFail
  <2>4. /\ pc'[p] \in {"run", "abort"}
        /\ pc'[ch] = "run" \/ (pc'[ch] = "exit" /\ todo'[ch] = RegionsOf(ch))
    BY <2>2, <2>3
  <2>5. Fresh(p)
    BY <2>1, <2>4 DEF Fresh, Leaving, Unmapping, Visiting
  <2>6. Fresh(ch)
    BY <2>2, <2>4 DEF Fresh, Leaving, Unmapping, Visiting, RegionsOf
  <2>7. \A r \in Procs \ {p, ch} :
          /\ pc'[r] = pc[r] /\ child'[r] = child[r] /\ todo'[r] = todo[r]
    BY <2>2, <2>3
  <2>8. \A r \in Procs \ {p, ch} : Same(r)
    BY <2>1, <2>7 DEF Same
  <2>9. ForkLocals'
    <3>1. ASSUME NEW r \in Procs, pc'[r] = "fork"
          PROVE  /\ child'[r] \in Procs /\ pc'[child'[r]] = "embryo"
                 /\ pc[r] = "fork" /\ child'[r] = child[r]
      <4>1. r # p /\ r # ch
        BY <2>4, <3>1
      <4>2. pc[r] = "fork" /\ child'[r] = child[r]
        BY <2>7, <3>1, <4>1
      <4>3. child[r] \in Procs /\ pc[child[r]] = "embryo" /\ child[r] # ch
        BY <2>1, <4>1, <4>2 DEF ForkLocals
      <4>4. child[r] # p
        BY <2>1, <4>3
      <4> QED
        BY <2>7, <4>2, <4>3, <4>4
    <3> QED
      BY <3>1 DEF ForkLocals
  <2> QED
    BY <2>1, <2>5, <2>6, <2>8, <2>9, QuietStep DEF Core
<1>4. CASE ForkAborted(p) \/ ExitDone(p)
  <2>1. /\ UNCHANGED <<ctable, name, refcnt, rmap, as, store, lctx, lmr, todo>>
        /\ pc[p] \in {"abort", "exit"}
    BY <1>4 DEF ForkAborted, ExitDone, ctxvars, regvars
  <2>2. PICK at \in {"run", "dead"} : pc' = [pc EXCEPT ![p] = at]
    BY <1>4 DEF ForkAborted, ExitDone
  <2>3. child' = child \/ child' = [child EXCEPT ![p] = NULL]
    BY <1>4 DEF ForkAborted, ExitDone
  <2>4. Fresh(p)
    BY <2>1, <2>2 DEF Fresh, Leaving, Unmapping, Visiting
  <2>5. \A r \in Procs \ {p} : Same(r)
    BY <2>1, <2>2 DEF Same
  <2>6. /\ \A r \in Procs \ {p} : pc'[r] = pc[r] /\ child'[r] = child[r]
        /\ pc'[p] # "fork"
    BY <2>2, <2>3
  <2>7. ForkLocals'
    BY <2>1, <2>6, ForkQuiet
  <2> QED
    BY <2>1, <2>4, <2>5, <2>7, QuietStep DEF Core
<1>5. CASE UnmapAllFind(p)
  <2>1. /\ UNCHANGED <<ctable, name, refcnt, rmap, as, store, child>>
        /\ pc[p] = "exit" /\ pc' = [pc EXCEPT ![p] = "find"]
    BY <1>5 DEF UnmapAllFind, ctxvars, regvars
  <2>2. PICK r \in todo[p] :
          /\ todo' = [todo EXCEPT ![p] = @ \ {r}]
          /\ lmr' = [lmr EXCEPT ![p] = r]
          /\ lctx' = [lctx EXCEPT ![p] = store[r]]
    BY <1>5 DEF UnmapAllFind
  <2>3. r \in Regs /\ \A s \in todo[p] : as[s] = p
    BY <2>1 DEF Inv, Core, TodoLocals, Visiting
  <2>4. /\ pc'[p] = "find" /\ lmr'[p] = r /\ lctx'[p] = store[r]
        /\ todo'[p] = todo[p] \ {r}
    BY <2>1, <2>2
  <2>5. Fresh(p)
    BY <2>1, <2>3, <2>4 DEF Fresh, Leaving, Unmapping
  <2>6. \A s \in Procs \ {p} : Same(s)
    BY <2>1, <2>2 DEF Same
  <2>7. ForkLocals'
    BY <2>1, ForkQuiet
  <2> QED
    BY <2>1, <2>5, <2>6, <2>7, QuietStep DEF Core
<1> QED
  BY <1>1, <1>2, <1>3, <1>4, <1>5

-----------------------------------------------------------------------------
(* Steps that change the tables *)

(* createSharedRegion puts a clean context in the table. *)
LEMMA CreateKeeps ==
  ASSUME Inv, NEW p \in Procs, NEW n \in Names, NEW keep \in BOOLEAN, NEW zero \in BOOLEAN,
         createSharedRegion(p, n, keep, zero)
  PROVE  Core'
<1> TypeOK
  BY DEF Inv
<1>1. PICK c \in Ctxs \ ctable :
        /\ ctable' = ctable \cup {c}
        /\ name' = [name EXCEPT ![c] = n]
        /\ refcnt' = [refcnt EXCEPT ![c] = 0]
        /\ rmap' = [rmap EXCEPT ![c] = {}]
  BY DEF createSharedRegion
<1>2. UNCHANGED <<as, store, pc, lctx, lmr, todo, child>> /\ ByName(n) = {}
  BY DEF createSharedRegion, regvars, procvars
<1>3. rmap[c] = {} /\ rmap' = rmap
  BY <1>1 DEF Inv, Core, NoDangling, TypeOK
<1>4. \A d : Pending(d)' = Pending(d)
  BY <1>2 DEF Pending
<1>5. RefcntExact'
  <2>1. Pending(c) = {}
    BY <1>1 DEF Inv, Core, NoDangling, Pending
  <2>2. refcnt'[c] = Cardinality(rmap[c]) + Cardinality(Pending(c))
    BY <1>1, <1>3, <2>1, FS_EmptySet DEF TypeOK
  <2>3. \A d \in ctable : refcnt'[d] = refcnt[d]
    BY <1>1 DEF TypeOK
  <2> QED
    BY <1>1, <1>3, <1>4, <2>2, <2>3 DEF Inv, Core, RefcntExact
<1>6. NoDangling'
  BY <1>1, <1>2, <1>3 DEF Inv, Core, NoDangling
<1>7. RmapExact'
  BY <1>2, <1>3 DEF Inv, Core, RmapExact
<1>8. UniqueNames'
  <2>1. \A d \in ctable : name'[d] = name[d] /\ name[d] # n
    BY <1>1, <1>2 DEF ByName, TypeOK
  <2>2. name'[c] = n
    BY <1>1 DEF TypeOK
  <2> QED
    BY <1>1, <2>1, <2>2 DEF Inv, Core, UniqueNames
<1>9. UnmapLocals' /\ ForkLocals'
  BY <1>2 DEF Inv, Core, UnmapLocals, ForkLocals
<1>10. LockLocals'
  <2>1. LockLocals
    BY DEF Inv, Core
  <2> QED
    BY <1>2, <1>3, <2>1 DEF LockLocals, Mapped
<1>11. TodoLocals'
  <2>1. TodoLocals
    BY DEF Inv, Core
  <2> QED
    BY <1>2, <2>1 DEF TodoLocals
<1> QED
  BY <1>5, <1>6, <1>7, <1>8, <1>9, <1>10, <1>11 DEF Core

(* destroySharedRegion frees a context that nobody can reach. *)
LEMMA DestroyKeeps ==
  ASSUME Inv, NEW p \in Procs, NEW n \in Names, destroySharedRegion(p, n)
  PROVE  Core'
<1> TypeOK
  BY DEF Inv
<1>1. PICK c \in ctable : refcnt[c] = 0 /\ FreeContext(c)
  BY DEF destroySharedRegion, ByName
<1>2. UNCHANGED <<refcnt, rmap, as, store, pc, lctx, lmr, todo, child>>
  BY DEF destroySharedRegion, regvars, procvars
<1>3. c \in Ctxs /\ ctable' = ctable \ {c}
      /\ \A d \in ctable' : name'[d] = name[d]
  BY <1>1 DEF FreeContext, TypeOK
<1>4. rmap[c] = {} /\ Pending(c) = {}
  BY <1>1, NoUsers
<1>5. \A q \in Procs : pc[q] \in Leaving => lctx[q] # c
  BY <1>4 DEF Pending
<1>6. /\ \A r \in Regs : as[r] # NULL => store[r] # c
      /\ \A q \in Procs : pc[q] \in {"lock", "find"} => lctx[q] # c
  BY <1>3, <1>4, <1>5, Unreachable DEF Leaving
<1>7. NoDangling'
  BY <1>2, <1>3, <1>4, <1>5, <1>6 DEF Inv, Core, NoDangling
<1>8. RefcntExact'
  BY <1>2, <1>3 DEF Inv, Core, RefcntExact, Pending
<1>9. RmapExact'
  BY <1>2 DEF Inv, Core, RmapExact
<1>10. UniqueNames'
  BY <1>3 DEF Inv, Core, UniqueNames
<1>11. UnmapLocals' /\ ForkLocals'
  BY <1>2 DEF Inv, Core, UnmapLocals, ForkLocals
<1>12. LockLocals' /\ TodoLocals'
  BY <1>2 DEF Inv, Core, LockLocals, TodoLocals, Mapped
<1> QED
  BY <1>7, <1>8, <1>9, <1>10, <1>11, <1>12 DEF Core

(* A new mapping: createMapping, and each region that a fork copies. *)
LEMMA AddRefKeeps ==
  ASSUME Inv, NEW c \in ctable, NEW q \in Procs, NEW r \in Regs,
         as[r] = NULL, AddRef(c, q, r),
         UNCHANGED <<ctable, name, pc, lctx, lmr, child>>,
         \A s \in Procs : todo'[s] \subseteq todo[s]
  PROVE  Core'
<1> TypeOK /\ RmapExact /\ c \in Ctxs
  BY DEF Inv, Core, TypeOK
<1>1. /\ as' = [as EXCEPT ![r] = q]
      /\ store' = [store EXCEPT ![r] = c]
      /\ rmap' = [rmap EXCEPT ![c] = @ \cup {r}]
      /\ refcnt' = [refcnt EXCEPT ![c] = @ + 1]
  BY DEF AddRef
<1>2. /\ as'[r] = q /\ store'[r] = c /\ q # NULL
      /\ \A s \in Regs \ {r} : as'[s] = as[s] /\ store'[s] = store[s]
  BY <1>1, ShmAssumption DEF TypeOK
<1>3. /\ rmap'[c] = rmap[c] \cup {r} /\ refcnt'[c] = refcnt[c] + 1
      /\ \A d \in Ctxs \ {c} : rmap'[d] = rmap[d] /\ refcnt'[d] = refcnt[d]
  BY <1>1 DEF TypeOK
<1>4. \A d \in Ctxs : r \notin rmap[d]
  BY RmapMember
<1>5. \A d : Pending(d)' = Pending(d)
  BY DEF Pending
<1>6. \A s \in Procs : pc[s] \in Unmapping \cup {"find"} => lmr[s] # r
  <2>1. UnmapLocals
    BY DEF Inv, Core
  <2> QED
    BY <2>1, ShmAssumption DEF UnmapLocals
<1>7. RefcntExact'
  <2>1. Cardinality(rmap[c] \cup {r}) = Cardinality(rmap[c]) + 1
    BY <1>4, FiniteUsers, FS_AddElement
  <2>2. /\ Cardinality(rmap[c]) \in Nat
        /\ Cardinality(Pending(c)) \in Nat
    BY FiniteUsers, FS_CardinalityType
  <2>3. refcnt'[c] = Cardinality(rmap'[c]) + Cardinality(Pending(c))
    BY <1>3, <2>1, <2>2 DEF Inv, Core, RefcntExact
  <2>4. \A d \in ctable \ {c} :
          refcnt'[d] = Cardinality(rmap'[d]) + Cardinality(Pending(d))
    BY <1>3 DEF Inv, Core, RefcntExact, TypeOK
  <2> QED
    BY <1>5, <2>3, <2>4 DEF RefcntExact
<1>8. NoDangling'
  <2>1. \A s \in Regs : as'[s] # NULL => store'[s] \in ctable
    BY <1>2 DEF Inv, Core, NoDangling
  <2>2. \A d \in Ctxs \ ctable : rmap'[d] = {}
    BY <1>3 DEF Inv, Core, NoDangling
  <2> QED
    BY <2>1, <2>2 DEF Inv, Core, NoDangling
<1>9. RmapExact'
  <2> SUFFICES ASSUME NEW d \in Ctxs, NEW s \in Regs
               PROVE  s \in rmap'[d] <=>
                        /\ as'[s] # NULL /\ store'[s] = d
                        /\ \A t \in Procs : pc[t] \in Unmapping => lmr[t] # s
    <3>1. rmap' \in [Ctxs -> SUBSET Regs]
      BY <1>1 DEF TypeOK
    <3> QED
      BY <3>1, RmapPointwise
  <2>1. CASE s = r
    BY <1>2, <1>3, <1>4, <1>6, <2>1
  <2>2. CASE s # r
    <3>1. s \in rmap'[d] <=> s \in rmap[d]
      BY <1>3, <2>2
    <3>2. s \in rmap[d] <=>
            /\ as[s] # NULL /\ store[s] = d
            /\ \A t \in Procs : pc[t] \in Unmapping => lmr[t] # s
      BY RmapMember
    <3>3. as'[s] = as[s] /\ store'[s] = store[s]
      BY <1>2, <2>2
    <3> QED
      BY <3>1, <3>2, <3>3
  <2> QED
    BY <2>1, <2>2
<1>10. UniqueNames' /\ ForkLocals'
  BY DEF Inv, Core, UniqueNames, ForkLocals
<1>11. UnmapLocals'
  BY <1>2, <1>6 DEF Inv, Core, UnmapLocals
<1>12. LockLocals'
  <2> SUFFICES ASSUME NEW s \in Procs, pc[s] = "lock"
               PROVE  \E t \in rmap'[lctx[s]] : as'[t] = s
    BY DEF LockLocals, Mapped
  <2>1. PICK t \in rmap[lctx[s]] : as[t] = s
    BY DEF Inv, Core, LockLocals, Mapped
  <2>2. lctx[s] \in Ctxs
    BY DEF Inv, Core, NoDangling, TypeOK
  <2>3. t \in Regs /\ t # r /\ t \in rmap'[lctx[s]]
    BY <1>3, <1>4, <2>1, <2>2 DEF TypeOK
  <2> QED
    BY <1>2, <2>1, <2>3
<1>13. TodoLocals'
  <2> SUFFICES ASSUME NEW s \in Procs, pc[s] \in Visiting, NEW t \in todo'[s]
               PROVE  as'[t] = s /\ (pc[s] \in {"find", "exit1"} => lmr[s] # t)
    BY DEF TodoLocals
  <2>1. t \in todo[s] /\ t \in Regs
    BY DEF TypeOK
  <2>2. as[t] = s /\ (pc[s] \in {"find", "exit1"} => lmr[s] # t)
    BY <2>1 DEF Inv, Core, TodoLocals
  <2> QED
    BY <1>2, <2>1, <2>2, ShmAssumption
<1> QED
  BY <1>7, <1>8, <1>9, <1>10, <1>11, <1>12, <1>13 DEF Core

(* A node leaves the reverse map: destroyMapping, unmapAll. *)
LEMMA RemoveNodeKeeps ==
  ASSUME Inv, NEW p \in Procs, NEW c \in ctable, NEW r \in rmap[c], as[r] = p,
         NEW at \in Unmapping, pc[p] \in {"run", "find"},
         at = "exit1" => \A t \in todo[p] : as[t] = p /\ t # r,
         rmap' = [rmap EXCEPT ![c] = @ \ {r}],
         pc' = [pc EXCEPT ![p] = at],
         lctx' = [lctx EXCEPT ![p] = c],
         lmr' = [lmr EXCEPT ![p] = r],
         UNCHANGED <<ctable, name, refcnt, as, store, todo, child>>
  PROVE  Core'
<1> TypeOK /\ RmapExact /\ c \in Ctxs /\ r \in Regs
  BY DEF Inv, Core, TypeOK
<1>1. /\ pc'[p] = at /\ lctx'[p] = c /\ lmr'[p] = r
      /\ \A q \in Procs \ {p} : pc'[q] = pc[q] /\ lctx'[q] = lctx[q]
                               /\ lmr'[q] = lmr[q]
  BY DEF TypeOK
<1>2. /\ rmap'[c] = rmap[c] \ {r}
      /\ \A d \in Ctxs \ {c} : rmap'[d] = rmap[d]
  BY DEF TypeOK
<1>3. /\ store[r] = c /\ p # NULL
      /\ \A q \in Procs : pc[q] \in Unmapping => lmr[q] # r
  BY RmapMember, ShmAssumption
<1>4. pc[p] \notin Leaving /\ pc[p] \notin {"embryo", "fork"}
  BY DEF Leaving, Unmapping
<1>5. /\ Pending(c)' = Pending(c) \cup {p} /\ p \notin Pending(c)
      /\ \A d \in Ctxs \ {c} : Pending(d)' = Pending(d)
  BY <1>1, <1>4 DEF Pending, Leaving
<1>6. RefcntExact'
  <2>1. Cardinality(rmap[c] \ {r}) = Cardinality(rmap[c]) - 1
    BY FiniteUsers, FS_RemoveElement
  <2>2. Cardinality(Pending(c) \cup {p}) = Cardinality(Pending(c)) + 1
    BY <1>5, FiniteUsers, FS_AddElement
  <2>3. Cardinality(rmap[c]) \in Nat /\ Cardinality(Pending(c)) \in Nat
    BY FiniteUsers, FS_CardinalityType
  <2>4. refcnt[c] = Cardinality(rmap'[c]) + Cardinality(Pending(c)')
    <3>1. refcnt[c] = Cardinality(rmap[c]) + Cardinality(Pending(c))
      BY DEF Inv, Core, RefcntExact
    <3>2. refcnt[c] = Cardinality(rmap[c] \ {r}) + Cardinality(Pending(c) \cup {p})
      BY <2>1, <2>2, <2>3, <3>1
    <3> QED
      BY <1>2, <1>5, <3>2
  <2>5. \A d \in ctable \ {c} :
          refcnt[d] = Cardinality(rmap'[d]) + Cardinality(Pending(d)')
    BY <1>2, <1>5 DEF Inv, Core, RefcntExact, TypeOK
  <2> QED
    BY <2>4, <2>5 DEF RefcntExact
<1>7. NoDangling'
  <2>1. \A q \in Procs : pc'[q] \in {"lock", "find"} \cup Leaving
                          => lctx'[q] \in ctable
    BY <1>1 DEF Inv, Core, NoDangling
  <2>2. \A d \in Ctxs \ ctable : rmap'[d] = {}
    BY <1>2 DEF Inv, Core, NoDangling
  <2> QED
    BY <2>1, <2>2 DEF Inv, Core, NoDangling
<1>8. RmapExact'
  <2> SUFFICES ASSUME NEW d \in Ctxs, NEW s \in Regs
               PROVE  s \in rmap'[d] <=>
                        /\ as'[s] # NULL /\ store'[s] = d
                        /\ \A q \in Procs : pc'[q] \in Unmapping => lmr'[q] # s
    <3>1. rmap' \in [Ctxs -> SUBSET Regs]
      BY DEF TypeOK
    <3> QED
      BY <3>1, RmapPointwise
  <2>1. CASE s = r
    <3>1. r \in rmap[d] => d = c
      BY <1>3, RmapMember
    <3>2. s \notin rmap'[d]
      BY <1>2, <2>1, <3>1
    <3> QED
      BY <1>1, <2>1, <3>2
  <2>2. CASE s # r
    <3>1. s \in rmap'[d] <=> s \in rmap[d]
      BY <1>2, <2>2
    <3>2. (\A q \in Procs : pc'[q] \in Unmapping => lmr'[q] # s)
            <=> (\A q \in Procs : pc[q] \in Unmapping => lmr[q] # s)
      BY <1>1, <1>4, <2>2 DEF Leaving
    <3>3. s \in rmap[d] <=>
            /\ as[s] # NULL /\ store[s] = d
            /\ \A q \in Procs : pc[q] \in Unmapping => lmr[q] # s
      BY RmapMember
    <3> QED
      BY <3>1, <3>2, <3>3
  <2> QED
    BY <2>1, <2>2
<1>9. UniqueNames'
  BY DEF Inv, Core, UniqueNames
<1>10. UnmapLocals'
  <2> SUFFICES ASSUME NEW s \in Procs, pc'[s] \in Unmapping \cup {"find"}
               PROVE  /\ lmr'[s] \in Regs /\ as[lmr'[s]] = s
                      /\ store[lmr'[s]] = lctx'[s]
    BY DEF UnmapLocals
  <2>1. CASE s = p
    BY <1>1, <1>3, <2>1
  <2>2. CASE s # p
    <3>1. UnmapLocals
      BY DEF Inv, Core
    <3>2. pc[s] \in Unmapping \cup {"find"} /\ lmr'[s] = lmr[s] /\ lctx'[s] = lctx[s]
      BY <1>1, <2>2
    <3> QED
      BY <3>1, <3>2 DEF UnmapLocals
  <2> QED
    BY <2>1, <2>2
<1>11. LockLocals'
  <2> SUFFICES ASSUME NEW s \in Procs, pc'[s] = "lock"
               PROVE  \E t \in rmap'[lctx'[s]] : as[t] = s
    BY DEF LockLocals, Mapped
  <2>1. s # p /\ pc[s] = "lock" /\ lctx'[s] = lctx[s]
    BY <1>1 DEF Unmapping
  <2>2. PICK t \in rmap[lctx[s]] : as[t] = s
    BY <2>1 DEF Inv, Core, LockLocals, Mapped
  <2>3. lctx[s] \in Ctxs
    BY <2>1 DEF Inv, Core, NoDangling, TypeOK
  <2>4. t # r /\ t \in rmap'[lctx[s]]
    BY <1>2, <2>1, <2>2, <2>3
  <2> QED
    BY <2>1, <2>2, <2>4
<1>12. ForkLocals'
  BY <1>1, <1>4, ForkQuiet DEF Inv, Core, Unmapping
<1>13. TodoLocals'
  <2> SUFFICES ASSUME NEW s \in Procs, pc'[s] \in Visiting, NEW t \in todo[s]
               PROVE  as[t] = s /\ (pc'[s] \in {"find", "exit1"} => lmr'[s] # t)
    BY DEF TodoLocals
  <2>1. CASE s = p
    <3>1. at = "exit1"
      BY <1>1, <2>1 DEF Visiting, Unmapping
    <3>2. as[t] = p /\ t # r
      BY <2>1, <3>1
    <3> QED
      BY <1>1, <2>1, <3>2
  <2>2. CASE s # p
    <3>1. pc'[s] = pc[s] /\ lmr'[s] = lmr[s]
      BY <1>1, <2>2
    <3>2. pc[s] \in Visiting => as[t] = s /\ (pc[s] \in {"find", "exit1"} => lmr[s] # t)
      BY DEF Inv, Core, TodoLocals
    <3> QED
      BY <3>1, <3>2
  <2> QED
    BY <2>1, <2>2
<1> QED
  BY <1>6, <1>7, <1>8, <1>9, <1>10, <1>11, <1>12, <1>13 DEF Core

(* The memregion is freed once its node is gone. *)
LEMMA UnmapRegionKeeps ==
  ASSUME Inv, NEW p \in Procs, NEW at, NEW next,
         <<at, next>> \in {<<"unmap1", "unmap2">>, <<"exit1", "exit2">>},
         UnmapRegion(p, at, next)
  PROVE  Core'
<1> TypeOK /\ RmapExact
  BY DEF Inv, Core
<1> DEFINE r == lmr[p]
<1>1. /\ as' = [as EXCEPT ![r] = NULL] /\ store' = [store EXCEPT ![r] = NULL]
      /\ lmr' = [lmr EXCEPT ![p] = NULL] /\ pc' = [pc EXCEPT ![p] = next]
      /\ UNCHANGED <<ctable, name, refcnt, rmap, lctx, todo, child>>
      /\ pc[p] = at
  BY DEF UnmapRegion, ctxvars
<1>2. pc[p] \in Unmapping /\ next \in {"unmap2", "exit2"}
      /\ (next = "exit2" => pc[p] = "exit1")
  BY <1>1 DEF Unmapping
<1>3. /\ r \in Regs /\ as[r] = p /\ p # NULL
      /\ \A q \in Procs : pc[q] \in Unmapping \cup {"find"} =>
           (q # p => lmr[q] # r)
  <2>1. \A q \in Procs : pc[q] \in Unmapping \cup {"find"} =>
          lmr[q] \in Regs /\ as[lmr[q]] = q
    BY DEF Inv, Core, UnmapLocals
  <2>2. r \in Regs /\ as[r] = p
    BY <1>2, <2>1
  <2>3. ASSUME NEW q \in Procs, pc[q] \in Unmapping \cup {"find"}, q # p
        PROVE  lmr[q] # r
    BY <2>1, <2>2, <2>3
  <2>4. p # NULL
    BY ShmAssumption
  <2> QED
    BY <2>2, <2>3, <2>4
<1>4. /\ as'[r] = NULL
      /\ \A s \in Regs \ {r} : as'[s] = as[s] /\ store'[s] = store[s]
  BY <1>1, <1>3 DEF TypeOK
<1>5. /\ pc'[p] = next
      /\ \A q \in Procs \ {p} : pc'[q] = pc[q] /\ lmr'[q] = lmr[q]
  BY <1>1 DEF TypeOK
<1>6. /\ next \in Leaving /\ next \notin Unmapping /\ pc[p] \in Leaving
      /\ next \notin {"lock", "find", "fork"} /\ pc[p] \notin {"embryo"}
  BY <1>2 DEF Leaving, Unmapping
<1>7. ASSUME NEW d \in Ctxs PROVE r \notin rmap[d]
  <2>1. r \in rmap[d] => \A q \in Procs : pc[q] \in Unmapping => lmr[q] # r
    BY <1>3, RmapMember
  <2> QED
    BY <1>2, <2>1
<1>8. \A c : Pending(c)' = Pending(c)
  BY <1>1, <1>5, <1>6 DEF Pending
<1>9. RefcntExact' /\ UniqueNames'
  BY <1>1, <1>8 DEF Inv, Core, RefcntExact, UniqueNames
<1>10. NoDangling'
  <2>1. \A s \in Regs : as'[s] # NULL => store'[s] \in ctable
    BY <1>4 DEF Inv, Core, NoDangling
  <2>2. \A q \in Procs : pc'[q] \in {"lock", "find"} \cup Leaving
                          => pc[q] \in {"lock", "find"} \cup Leaving
    BY <1>5, <1>6
  <2> QED
    BY <1>1, <2>1, <2>2 DEF Inv, Core, NoDangling
<1>11. RmapExact'
  <2> SUFFICES ASSUME NEW d \in Ctxs, NEW s \in Regs
               PROVE  s \in rmap[d] <=>
                        /\ as'[s] # NULL /\ store'[s] = d
                        /\ \A q \in Procs : pc'[q] \in Unmapping => lmr'[q] # s
    BY <1>1, RmapPointwise DEF TypeOK
  <2>1. CASE s = r
    BY <1>4, <1>7, <2>1
  <2>2. CASE s # r
    <3>1. (\A q \in Procs : pc'[q] \in Unmapping => lmr'[q] # s)
            <=> (\A q \in Procs : pc[q] \in Unmapping => lmr[q] # s)
      BY <1>5, <1>6, <2>2
    <3>2. s \in rmap[d] <=>
            /\ as[s] # NULL /\ store[s] = d
            /\ \A q \in Procs : pc[q] \in Unmapping => lmr[q] # s
      BY RmapMember
    <3>3. as'[s] = as[s] /\ store'[s] = store[s]
      BY <1>4, <2>2
    <3> QED
      BY <3>1, <3>2, <3>3
  <2> QED
    BY <2>1, <2>2
<1>12. UnmapLocals'
  <2> SUFFICES ASSUME NEW s \in Procs, pc'[s] \in Unmapping \cup {"find"}
               PROVE  /\ lmr'[s] \in Regs /\ as'[lmr'[s]] = s
                      /\ store'[lmr'[s]] = lctx[s]
    BY <1>1 DEF UnmapLocals
  <2>1. s # p /\ pc[s] \in Unmapping \cup {"find"} /\ lmr'[s] = lmr[s]
    BY <1>5, <1>6
  <2>2. lmr[s] \in Regs /\ as[lmr[s]] = s /\ store[lmr[s]] = lctx[s]
    BY <2>1 DEF Inv, Core, UnmapLocals
  <2> QED
    BY <1>3, <1>4, <2>1, <2>2
<1>13. LockLocals'
  <2> SUFFICES ASSUME NEW s \in Procs, pc'[s] = "lock"
               PROVE  \E t \in rmap[lctx[s]] : as'[t] = s
    BY <1>1 DEF LockLocals, Mapped
  <2>1. s # p /\ pc[s] = "lock"
    BY <1>5, <1>6
  <2>2. PICK t \in rmap[lctx[s]] : as[t] = s
    BY <2>1 DEF Inv, Core, LockLocals, Mapped
  <2>3. lctx[s] \in Ctxs
    BY <2>1 DEF Inv, Core, NoDangling, TypeOK
  <2>4. t \in Regs /\ t # r
    BY <1>7, <2>2, <2>3 DEF TypeOK
  <2> QED
    BY <1>4, <2>2, <2>4
<1>14. ForkLocals'
  BY <1>1, <1>5, <1>6, ForkQuiet DEF Inv, Core
<1>15. TodoLocals'
  <2> SUFFICES ASSUME NEW s \in Procs, pc'[s] \in Visiting, NEW t \in todo[s]
               PROVE  as'[t] = s /\ (pc'[s] \in {"find", "exit1"} => lmr'[s] # t)
    BY <1>1 DEF TodoLocals
  <2>1. t \in Regs
    BY DEF TypeOK
  <2>2. CASE s = p
    <3>1. pc[p] = "exit1" /\ pc'[p] = "exit2"
      BY <1>2, <1>5, <2>2 DEF Visiting
    <3>2. as[t] = p /\ t # r
      BY <2>2, <3>1 DEF Inv, Core, TodoLocals, Visiting
    <3> QED
      BY <1>4, <2>1, <2>2, <3>1, <3>2
  <2>3. CASE s # p
    <3>1. as[t] = s /\ (pc[s] \in {"find", "exit1"} => lmr[s] # t)
      BY <1>5, <2>3 DEF Inv, Core, TodoLocals
    <3> QED
      BY <1>3, <1>4, <1>5, <2>1, <2>3, <3>1
  <2> QED
    BY <2>2, <2>3
<1> QED
  BY <1>9, <1>10, <1>11, <1>12, <1>13, <1>14, <1>15 DEF Core

(* The reference is dropped, and perhaps the context freed. *)
LEMMA DropRefKeeps ==
  ASSUME Inv, NEW p \in Procs, NEW at, NEW next, NEW force \in BOOLEAN,
         <<at, next>> \in {<<"unmap2", "run">>, <<"exit2", "exit">>},
         DropRef(p, at, next, force)
  PROVE  Core'
<1> TypeOK /\ RmapExact
  BY DEF Inv, Core
<1>0. PICK c : c = lctx[p]
  OBVIOUS
<1>1. /\ refcnt' = [refcnt EXCEPT ![c] = @ - 1]
      /\ lctx' = [lctx EXCEPT ![p] = NULL] /\ pc' = [pc EXCEPT ![p] = next]
      /\ UNCHANGED <<rmap, as, store, lmr, todo, child>>
      /\ pc[p] = at
  BY <1>0 DEF DropRef, regvars
<1>2. /\ pc[p] \in Leaving /\ pc[p] \notin Unmapping /\ pc[p] # "embryo"
      /\ next \notin Leaving /\ next \notin Unmapping
      /\ next \notin {"lock", "find", "fork", "exit1"}
      /\ next \in Visiting => pc[p] \in Visiting
  BY <1>1 DEF Leaving, Unmapping, Visiting
<1>3. c \in ctable /\ c \in Ctxs
  BY <1>0, <1>2 DEF Inv, Core, NoDangling, TypeOK
<1>4. /\ refcnt'[c] = refcnt[c] - 1
      /\ \A d \in Ctxs \ {c} : refcnt'[d] = refcnt[d]
  BY <1>1, <1>3 DEF TypeOK
<1>5. /\ pc'[p] = next
      /\ \A q \in Procs \ {p} : pc'[q] = pc[q] /\ lctx'[q] = lctx[q]
  BY <1>1 DEF TypeOK
<1>6. /\ Pending(c)' = Pending(c) \ {p} /\ p \in Pending(c)
      /\ \A d \in Ctxs \ {c} : Pending(d)' = Pending(d)
  BY <1>0, <1>2, <1>5 DEF Pending
<1>7. \/ UNCHANGED <<ctable, name>>
      \/ /\ refcnt[c] = 1 /\ ctable' = ctable \ {c}
         /\ name' = [name EXCEPT ![c] = NULL]
  BY <1>0 DEF DropRef, FreeContext
<1>8. /\ ctable' \subseteq ctable
      /\ \A d \in ctable' : name'[d] = name[d]
  BY <1>3, <1>7 DEF TypeOK
<1>9. RefcntExact'
  <2>1. Cardinality(Pending(c) \ {p}) = Cardinality(Pending(c)) - 1
    BY <1>3, <1>6, FiniteUsers, FS_RemoveElement
  <2>2. Cardinality(rmap[c]) \in Nat /\ Cardinality(Pending(c)) \in Nat
    BY <1>3, FiniteUsers, FS_CardinalityType
  <2>3. refcnt[c] = Cardinality(rmap[c]) + Cardinality(Pending(c))
    BY <1>3 DEF Inv, Core, RefcntExact
  <2>4. refcnt[c] - 1 = Cardinality(rmap[c]) + Cardinality(Pending(c) \ {p})
    BY <2>1, <2>2, <2>3
  <2>5. refcnt'[c] = Cardinality(rmap'[c]) + Cardinality(Pending(c)')
    BY <1>1, <1>4, <1>6, <2>4
  <2>6. \A d \in ctable \ {c} :
          refcnt'[d] = Cardinality(rmap'[d]) + Cardinality(Pending(d)')
    BY <1>1, <1>4, <1>6 DEF Inv, Core, RefcntExact, TypeOK
  <2> QED
    BY <1>8, <2>5, <2>6 DEF RefcntExact
<1>10. NoDangling'
  <2>1. \A q \in Procs : pc'[q] \in {"lock", "find"} \cup Leaving
                          => /\ pc[q] \in {"lock", "find"} \cup Leaving
                             /\ q # p /\ lctx'[q] = lctx[q]
    BY <1>2, <1>5
  <2>2. CASE UNCHANGED <<ctable, name>>
    <3>1. \A q \in Procs : pc'[q] \in {"lock", "find"} \cup Leaving
                            => lctx'[q] \in ctable
      BY <2>1 DEF Inv, Core, NoDangling
    <3> QED
      BY <1>1, <2>2, <3>1 DEF Inv, Core, NoDangling
  <2>3. CASE refcnt[c] = 1 /\ ctable' = ctable \ {c}
    <3>1. rmap[c] = {} /\ Pending(c) = {p}
      BY <1>3, <1>6, <2>3, LastUser
    <3>2. \A q \in Procs \ {p} : pc[q] \in Leaving => lctx[q] # c
      BY <3>1 DEF Pending
    <3>3. \A q \in Procs : pc[q] \in Unmapping => lctx[q] # c
      BY <1>2, <3>2 DEF Leaving
    <3>4. /\ \A r \in Regs : as[r] # NULL => store[r] # c
          /\ \A q \in Procs : pc[q] \in {"lock", "find"} => lctx[q] # c
      BY <1>3, <3>1, <3>3, Unreachable
    <3>5. \A r \in Regs : as'[r] # NULL => store'[r] \in ctable'
      BY <1>1, <2>3, <3>4 DEF Inv, Core, NoDangling
    <3>6. \A q \in Procs : pc'[q] \in {"lock", "find"} \cup Leaving
                            => lctx'[q] \in ctable'
      BY <2>1, <2>3, <3>2, <3>4 DEF Inv, Core, NoDangling
    <3>7. \A d \in Ctxs \ ctable' : rmap'[d] = {}
      BY <1>1, <2>3, <3>1 DEF Inv, Core, NoDangling
    <3> QED
      BY <3>5, <3>6, <3>7 DEF NoDangling
  <2> QED
    BY <1>7, <2>2, <2>3
<1>11. RmapExact'
  <2>1. \A q \in Procs : pc'[q] \in Unmapping <=> pc[q] \in Unmapping
    BY <1>2, <1>5
  <2> QED
    BY <1>1, <2>1 DEF RmapExact
<1>12. UniqueNames'
  BY <1>8 DEF Inv, Core, UniqueNames
<1>13. UnmapLocals'
  <2> SUFFICES ASSUME NEW s \in Procs, pc'[s] \in Unmapping \cup {"find"}
               PROVE  /\ lmr[s] \in Regs /\ as[lmr[s]] = s
                      /\ store[lmr[s]] = lctx'[s]
    BY <1>1 DEF UnmapLocals
  <2>1. s # p /\ pc[s] \in Unmapping \cup {"find"} /\ lctx'[s] = lctx[s]
    BY <1>2, <1>5
  <2> QED
    BY <2>1 DEF Inv, Core, UnmapLocals
<1>14. LockLocals'
  <2> SUFFICES ASSUME NEW s \in Procs, pc'[s] = "lock"
               PROVE  Mapped(lctx'[s], s)
    BY <1>1 DEF LockLocals, Mapped
  <2>1. pc[s] = "lock" /\ lctx'[s] = lctx[s]
    BY <1>2, <1>5
  <2> QED
    BY <2>1 DEF Inv, Core, LockLocals
<1>15. ForkLocals'
  BY <1>1, <1>2, <1>5, ForkQuiet DEF Inv, Core
<1>16. TodoLocals'
  <2> SUFFICES ASSUME NEW s \in Procs, pc'[s] \in Visiting, NEW t \in todo[s]
               PROVE  as[t] = s /\ (pc'[s] \in {"find", "exit1"} => lmr[s] # t)
    BY <1>1 DEF TodoLocals
  <2>1. pc[s] \in Visiting /\ (pc'[s] \in {"find", "exit1"} => pc[s] = pc'[s])
    BY <1>2, <1>5
  <2>2. pc[s] \in Visiting =>
          as[t] = s /\ (pc[s] \in {"find", "exit1"} => lmr[s] # t)
    BY DEF Inv, Core, TodoLocals
  <2> QED
    BY <2>1, <2>2
<1> QED
  BY <1>9, <1>10, <1>11, <1>12, <1>13, <1>14, <1>15, <1>16 DEF Core

-----------------------------------------------------------------------------
(* The invariant *)

(* No process has made a call yet. *)
LEMMA InitInv == Init => Inv
<1> SUFFICES ASSUME Init PROVE Inv
  OBVIOUS
<1> USE DEF Init
<1>1. PICK init \in Procs :
        pc = [p \in Procs |-> IF p = init THEN "run" ELSE "unborn"]
  OBVIOUS
<1>2. \A p \in Procs : pc[p] \in {"run", "unborn"}
  BY <1>1
<1>3. pc \in [Procs -> PCs]
  BY <1>1 DEF PCs
<1>4. waiters \in Seq(Procs)
  OBVIOUS
<1>5. TypeOK
  BY <1>3, <1>4 DEF TypeOK
<1>6. RefcntExact /\ UniqueNames
  BY DEF RefcntExact, UniqueNames
<1>7. NoDangling
  BY <1>2 DEF NoDangling, Leaving, Unmapping
<1>8. RmapExact
  BY DEF RmapExact
<1>9. UnmapLocals /\ LockLocals
  BY <1>2 DEF UnmapLocals, LockLocals, Unmapping
<1>10. ForkLocals /\ TodoLocals
  BY <1>2 DEF ForkLocals, TodoLocals, Visiting
<1> QED
  BY <1>5, <1>6, <1>7, <1>8, <1>9, <1>10 DEF Inv, Core

(* The beginning of a system call, whichever it is, keeps the core. *)
LEMMA CallCore ==
  ASSUME Inv, NEW p \in Procs, Call(p)
  PROVE  Core'
<1>1. ASSUME NEW n \in Names, createMapping(p, n) PROVE Core'
  <2>1. PICK c \in ByName(n), r \in RegionsOf(NULL) : AddRef(c, p, r)
    BY <1>1 DEF createMapping
  <2>2. c \in ctable /\ r \in Regs /\ as[r] = NULL
    BY DEF ByName, RegionsOf
  <2>3. UNCHANGED <<ctable, name, pc, lctx, lmr, child, todo>>
    BY <1>1 DEF createMapping, procvars
  <2> QED
    BY <2>1, <2>2, <2>3, AddRefKeeps
<1>2. ASSUME NEW n \in Names, destroyMapping(p, n) PROVE Core'
  <2>1. PICK c \in ctable : \E r \in rmap[c] :
          /\ as[r] = p
          /\ rmap' = [rmap EXCEPT ![c] = @ \ {r}]
          /\ lctx' = [lctx EXCEPT ![p] = c]
          /\ lmr' = [lmr EXCEPT ![p] = r]
    BY <1>2 DEF destroyMapping, getContextByHandle, ByName,
       find_remove_rmapping
  <2>2. /\ pc[p] = "run" /\ pc' = [pc EXCEPT ![p] = "unmap1"]
        /\ UNCHANGED <<ctable, name, refcnt, as, store, todo, child>>
    BY <1>2 DEF destroyMapping, regvars
  <2> QED
    BY <2>1, <2>2, RemoveNodeKeeps DEF Unmapping
<1>3. ASSUME NEW n \in Names,
             FailedLookup(p, n) \/ lockRegion(p, n) \/ unlockRegion(p, n)
      PROVE  Core'
  BY <1>3, QuietCall
<1> QED
  BY <1>1, <1>2, <1>3, CreateKeeps, DestroyKeeps, QuietCall DEF Call

(* The rest of a call that is under way keeps the core. *)
LEMMA ContinueCore ==
  ASSUME Inv, NEW p \in Procs, Continue(p)
  PROVE  Core'
<1> TypeOK
  BY DEF Inv
<1>1. CASE UnmapStep(p) \/ ExitStep(p)
  BY <1>1, UnmapRegionKeeps DEF UnmapStep, ExitStep
<1>2. CASE UnmapUnref(p) \/ ExitUnref(p)
  <2>1. UnmapUnref(p) => DropRef(p, "unmap2", "run", FALSE)
    BY DEF UnmapUnref
  <2>2. ExitUnref(p) => DropRef(p, "exit2", "exit", TRUE)
    BY DEF ExitUnref
  <2>3. CASE UnmapUnref(p)
    BY <2>1, <2>3, DropRefKeeps
  <2>4. CASE ExitUnref(p)
    BY <2>2, <2>4, DropRefKeeps
  <2> QED
    BY <1>2, <2>3, <2>4
<1>3. CASE ForkCopy(p)
  <2>1. PICK r \in todo[p], s \in RegionsOf(NULL) :
          /\ AddRef(store[r], child[p], s)
          /\ todo' = [todo EXCEPT ![p] = @ \ {r}]
    BY <1>3 DEF ForkCopy
  <2>2. /\ UNCHANGED <<ctable, name, pc, lctx, lmr, child>> /\ pc[p] = "fork"
        /\ s \in Regs /\ as[s] = NULL
    BY <1>3 DEF ForkCopy, RegionsOf
  <2>3. store[r] \in ctable
    BY <2>2, TodoRegs DEF Visiting
  <2>4. child[p] \in Procs
    BY <2>2 DEF Inv, Core, ForkLocals
  <2>5. \A q \in Procs : todo'[q] \subseteq todo[q]
    BY <2>1 DEF TypeOK
  <2> QED
    BY <2>1, <2>2, <2>3, <2>4, <2>5, AddRefKeeps
<1>4. CASE UnmapAllRemove(p)
  <2>0. PICK c, r : c = lctx[p] /\ r = lmr[p]
    OBVIOUS
  <2>1. /\ pc[p] = "find"
        /\ UNCHANGED <<ctable, name, refcnt, as, store, lctx, lmr, todo, child>>
        /\ IF r \in find_remove_rmapping(c, p)
           THEN /\ rmap' = [rmap EXCEPT ![c] = @ \ {r}]
                /\ pc' = [pc EXCEPT ![p] = "exit1"]
           ELSE /\ rmap' = [rmap EXCEPT ![c] = @]
                /\ pc' = [pc EXCEPT ![p] = "exit"]
    BY <2>0, <1>4 DEF UnmapAllRemove, regvars
  <2>2. c \in ctable /\ c \in Ctxs
    BY <2>0, <2>1 DEF Inv, Core, NoDangling, TypeOK
  <2>3. r \in Regs /\ as[r] = p /\ store[r] = c
    BY <2>0, <2>1 DEF Inv, Core, UnmapLocals
  <2>4. \A q \in Procs : pc[q] \in Unmapping => lmr[q] # r
    <3>1. pc[p] \notin Unmapping
      BY <2>1 DEF Unmapping
    <3> QED
      BY <2>0, <2>3, <3>1 DEF Inv, Core, UnmapLocals
  <2>5. r \in rmap[c]
    BY <2>2, <2>3, <2>4, RmapMember, ShmAssumption DEF Inv, Core
  <2>7. \A t \in todo[p] : as[t] = p /\ t # r
    BY <2>0, <2>1 DEF Inv, Core, TodoLocals, Visiting
  <2>8. lctx' = [lctx EXCEPT ![p] = c] /\ lmr' = [lmr EXCEPT ![p] = r]
    BY <2>0, <2>1 DEF TypeOK
  <2>9. "exit1" \in Unmapping /\ pc[p] \in {"run", "find"}
    BY <2>1 DEF Unmapping
  <2>10. CASE r \in find_remove_rmapping(c, p)
    <3>1. /\ rmap' = [rmap EXCEPT ![c] = @ \ {r}]
          /\ pc' = [pc EXCEPT ![p] = "exit1"]
          /\ UNCHANGED <<ctable, name, refcnt, as, store, todo, child>>
      BY <2>1, <2>10
    <3> QED
      BY <2>2, <2>3, <2>5, <2>7, <2>8, <2>9, <3>1, RemoveNodeKeeps
  (* Nothing found: a quiet step. *)
  <2>11. CASE r \notin find_remove_rmapping(c, p)
    <3>1. rmap' = rmap /\ pc' = [pc EXCEPT ![p] = "exit"]
      BY <2>1, <2>2, <2>11 DEF TypeOK
    <3>2. Fresh(p)
      BY <2>1, <2>7, <3>1 DEF Fresh, Leaving, Unmapping, TypeOK
    <3>3. \A s \in Procs \ {p} : Same(s)
      BY <2>1, <3>1 DEF Same, TypeOK
    <3>4. ForkLocals /\ pc'[p] # "fork"
          /\ \A s \in Procs \ {p} : pc'[s] = pc[s]
      BY <2>1, <3>1 DEF Inv, Core, TypeOK
    <3>5. ForkLocals'
      BY <2>1, <3>4, ForkQuiet
    <3> QED
      BY <2>1, <3>1, <3>2, <3>3, <3>5, QuietStep DEF Inv, Core
  <2> QED
    BY <2>10, <2>11
<1> QED
  BY <1>1, <1>2, <1>3, <1>4, QuietContinue DEF Continue

(* The invariant is inductive: one case for each group of actions. *)
LEMMA NextInv == Inv /\ [Next]_vars => Inv'
<1> SUFFICES ASSUME Inv, [Next]_vars PROVE Inv'
  OBVIOUS
<1>1. CASE UNCHANGED vars
  <2>1. TypeOK'
    BY <1>1 DEF Inv, TypeOK, vars
  <2>2. RefcntExact' /\ NoDangling'
    BY <1>1 DEF Inv, Core, RefcntExact, NoDangling, Pending, vars
  <2>3. RmapExact' /\ UniqueNames'
    BY <1>1 DEF Inv, Core, RmapExact, UniqueNames, vars
  <2>4. UnmapLocals' /\ ForkLocals'
    BY <1>1 DEF Inv, Core, UnmapLocals, ForkLocals, vars
  <2>5. LockLocals' /\ TodoLocals'
    BY <1>1 DEF Inv, Core, LockLocals, TodoLocals, Mapped, vars
  <2> QED
    BY <2>1, <2>2, <2>3, <2>4, <2>5 DEF Inv, Core
<1>2. CASE Next
  BY <1>2, TypeNext, CallCore, ContinueCore DEF Next, Inv
<1> QED
  BY <1>1, <1>2

(* The inductive invariant holds in every reachable state: of shmms.c with *)
(* any number of processes, regions and mappings.                          *)
THEOREM Invariant == Spec => []Inv
BY InitInv, NextInv, PTL DEF Spec

(* Every variable of the model keeps its type. *)
THEOREM TypeCorrect == Spec => []TypeOK
<1>1. Inv => TypeOK
  BY DEF Inv
<1> QED
  BY <1>1, Invariant, PTL

(* The reference count of a context is exact in every interleaving of      *)
(* maps, unmaps, forks and exits.                                          *)
THEOREM RefcntCorrect == Spec => []RefcntExact
<1>1. Inv => RefcntExact
  BY DEF Inv, Core
<1> QED
  BY <1>1, Invariant, PTL

(* No freed context is reachable. *)
THEOREM NoUseAfterFree == Spec => []NoDangling
<1>1. Inv => NoDangling
  BY DEF Inv, Core
<1> QED
  BY <1>1, Invariant, PTL

(* The reverse map and the memregions agree. *)
THEOREM RmapCorrect == Spec => []RmapExact
<1>1. Inv => RmapExact
  BY DEF Inv, Core
<1> QED
  BY <1>1, Invariant, PTL

(* A name has one region. *)
THEOREM NamesUnique == Spec => []UniqueNames
<1>1. Inv => UniqueNames
  BY DEF Inv, Core
<1> QED
  BY <1>1, Invariant, PTL

-----------------------------------------------------------------------------
(* Action properties *)

(* A step keeps the lock of every context that it leaves in the table, or  *)
(* its owner gives the lock up.                                            *)
LEMMA LockStep ==
  ASSUME Inv, [Next]_vars, NEW c \in ctable \cap ctable',
         lock_by[c] # NULL, lock_by'[c] # lock_by[c]
  PROVE  /\ lock_by'[c] = NULL /\ pc[lock_by[c]] = "run"
         /\ Mapped(c, lock_by[c])
<1> TypeOK /\ c \in Ctxs
  BY DEF Inv, TypeOK
<1>1. ASSUME NEW p \in Procs, NEW n \in Names, NEW keep \in BOOLEAN, NEW zero \in BOOLEAN,
             createSharedRegion(p, n, keep, zero)
      PROVE  FALSE
  <2>1. PICK d \in Ctxs \ ctable : lock_by' = [lock_by EXCEPT ![d] = NULL]
    BY <1>1 DEF createSharedRegion
  <2> QED
    BY <2>1 DEF TypeOK
<1>2. ASSUME NEW d, FreeContext(d) PROVE FALSE
  BY <1>2 DEF FreeContext, TypeOK
<1>3. ASSUME NEW p \in Procs, NEW d \in Ctxs, TryLock(p, d) PROVE FALSE
  BY <1>3 DEF TryLock, TypeOK
<1>4. ASSUME NEW p \in Procs, NEW n \in Names, unlockRegion(p, n)
      PROVE  /\ lock_by'[c] = NULL /\ pc[lock_by[c]] = "run"
             /\ Mapped(c, lock_by[c])
  <2>1. PICK d \in Ctxs : /\ Mapped(d, p) /\ lock_by[d] = p
                          /\ lock_by' = [lock_by EXCEPT ![d] = NULL]
    BY <1>4 DEF unlockRegion, getContextByHandle, ByName, TypeOK
  <2>2. pc[p] = "run"
    BY <1>4 DEF unlockRegion
  <2>3. c = d /\ lock_by'[c] = NULL
    BY <2>1 DEF TypeOK
  <2> QED
    BY <2>1, <2>2, <2>3
<1>5. ASSUME NEW p \in Procs, Call(p), lock_by' # lock_by
      PROVE  \/ \E n \in Names, keep, zero \in BOOLEAN : createSharedRegion(p, n, keep, zero)
             \/ \E d : FreeContext(d)
             \/ \E d \in Ctxs : TryLock(p, d)
             \/ \E n \in Names : unlockRegion(p, n)
  <2>1. ASSUME NEW n \in Names, destroySharedRegion(p, n)
        PROVE  \E d : FreeContext(d)
    BY <2>1 DEF destroySharedRegion
  <2>2. ASSUME NEW n \in Names, lockRegion(p, n)
        PROVE  \E d \in Ctxs : TryLock(p, d)
    BY <2>2 DEF lockRegion, getContextByHandle, ByName, TypeOK
  <2>3. ASSUME NEW n \in Names,
               createMapping(p, n) \/ destroyMapping(p, n) \/ FailedLookup(p, n)
        PROVE  lock_by' = lock_by
    BY <2>3 DEF createMapping, destroyMapping, FailedLookup, ctxvars
  <2>4. ASSUME \/ \E q \in Procs : Spawn(p, q) \/ ForkBegin(p, q)
               \/ ExitBegin(p)
        PROVE  lock_by' = lock_by
    BY <2>4 DEF Spawn, ForkBegin, ExitBegin, ctxvars
  <2> QED
    BY <1>5, <2>1, <2>2, <2>3, <2>4 DEF Call
<1>6. ASSUME NEW p \in Procs, Continue(p), lock_by' # lock_by
      PROVE  (\E d : FreeContext(d)) \/ (\E d \in Ctxs : TryLock(p, d))
  <2>1. CASE LockWake(p)
    <3>1. lctx[p] \in Ctxs /\ TryLock(p, lctx[p])
      BY <2>1 DEF LockWake, Inv, Core, NoDangling, TypeOK
    <3> QED
      BY <3>1
  <2>2. CASE UnmapUnref(p) \/ ExitUnref(p)
    <3>1. \/ FreeContext(lctx[p])
          \/ UNCHANGED <<ctable, name, persist, empty, lock_by>>
      BY <2>2 DEF UnmapUnref, ExitUnref, DropRef
    <3> QED
      BY <1>6, <3>1
  <2>3. CASE UnmapStep(p) \/ ExitStep(p)
    BY <1>6, <2>3 DEF UnmapStep, ExitStep, UnmapRegion, ctxvars
  <2>4. CASE \/ ForkCopy(p) \/ ForkCopyLost(p) \/ ForkDone(p) \/ ForkFail(p)
             \/ ForkAborted(p)
    BY <1>6, <2>4 DEF ForkCopy, ForkCopyLost, ForkDone, ForkFail, ForkAborted,
                      ctxvars
  <2>5. CASE UnmapAllFind(p) \/ UnmapAllRemove(p) \/ ExitDone(p)
    BY <1>6, <2>5 DEF UnmapAllFind, UnmapAllRemove, ExitDone, ctxvars
  <2> QED
    BY <1>6, <2>1, <2>2, <2>3, <2>4, <2>5 DEF Continue
<1>7. lock_by' # lock_by /\ ~UNCHANGED vars
  BY DEF vars
<1> QED
  BY <1>1, <1>2, <1>3, <1>4, <1>5, <1>6, <1>7 DEF Next

(* The lock of a region passes from its owner to nobody, and only in a     *)
(* call of unlockRegion that the owner makes on a region it maps.          *)
THEOREM LockOwnership == Spec => LockKept
<1>1. Inv /\ [Next]_vars =>
        [\A c \in ctable \cap ctable' :
           (lock_by[c] # NULL /\ lock_by'[c] # lock_by[c]) =>
             /\ lock_by'[c] = NULL
             /\ pc[lock_by[c]] = "run"
             /\ Mapped(c, lock_by[c])]_vars
  BY LockStep
<1> QED
  BY <1>1, Invariant, PTL DEF Spec, LockKept

(* A step takes a context out of the table only without users, and a       *)
(* persistent one only if no unmap is under way either.                    *)
LEMMA RegionStep ==
  ASSUME Inv, [Next]_vars, NEW c \in ctable \ ctable'
  PROVE  /\ rmap[c] = {}
         /\ Pending(c) # {} => (c \notin persist /\ Cardinality(Pending(c)) = 1)
<1>1. ASSUME NEW p \in Procs, NEW n \in Names, destroySharedRegion(p, n)
      PROVE  rmap[c] = {} /\ Pending(c) = {}
  <2>1. refcnt[c] = 0
    BY <1>1 DEF destroySharedRegion, FreeContext, ByName
  <2> QED
    BY <2>1, NoUsers
<1>2. ASSUME NEW p \in Procs, UnmapUnref(p) \/ ExitUnref(p)
      PROVE  /\ rmap[c] = {} /\ c \notin persist
             /\ Cardinality(Pending(c)) = 1
  <2>1. pc[p] \in Leaving
    BY <1>2 DEF UnmapUnref, ExitUnref, DropRef, Leaving
  <2>2. refcnt[c] = 1 /\ c \notin persist /\ c = lctx[p]
    BY <1>2 DEF UnmapUnref, ExitUnref, DropRef, FreeContext
  <2>3. p \in Pending(c)
    BY <2>1, <2>2 DEF Pending
  <2>4. rmap[c] = {} /\ Pending(c) = {p}
    BY <2>2, <2>3, LastUser
  <2> QED
    BY <2>2, <2>4, FS_Singleton
<1>3. ASSUME NEW p \in Procs, Call(p)
      PROVE  \E n \in Names : destroySharedRegion(p, n)
  <2>1. ASSUME NEW n \in Names, NEW keep \in BOOLEAN, NEW zero \in BOOLEAN,
               createSharedRegion(p, n, keep, zero)
        PROVE  FALSE
    BY <2>1 DEF createSharedRegion
  <2>2. ASSUME NEW n \in Names,
               \/ createMapping(p, n) \/ destroyMapping(p, n)
               \/ FailedLookup(p, n) \/ lockRegion(p, n) \/ unlockRegion(p, n)
        PROVE  FALSE
    BY <2>2 DEF createMapping, destroyMapping, FailedLookup, lockRegion,
                unlockRegion, ctxvars
  <2>3. ASSUME \/ \E q \in Procs : Spawn(p, q) \/ ForkBegin(p, q)
               \/ ExitBegin(p)
        PROVE  FALSE
    BY <2>3 DEF Spawn, ForkBegin, ExitBegin, ctxvars
  <2> QED
    BY <1>3, <2>1, <2>2, <2>3 DEF Call
<1>4. ASSUME NEW p \in Procs, Continue(p)
      PROVE  UnmapUnref(p) \/ ExitUnref(p)
  <2>1. CASE LockWake(p) \/ UnmapStep(p) \/ ExitStep(p)
    BY <2>1 DEF LockWake, UnmapStep, ExitStep, UnmapRegion, ctxvars
  <2>2. CASE \/ ForkCopy(p) \/ ForkCopyLost(p) \/ ForkDone(p) \/ ForkFail(p)
             \/ ForkAborted(p)
    BY <2>2 DEF ForkCopy, ForkCopyLost, ForkDone, ForkFail, ForkAborted, ctxvars
  <2>3. CASE UnmapAllFind(p) \/ UnmapAllRemove(p) \/ ExitDone(p)
    BY <2>3 DEF UnmapAllFind, UnmapAllRemove, ExitDone, ctxvars
  <2> QED
    BY <1>4, <2>1, <2>2, <2>3 DEF Continue
<1>5. ~UNCHANGED vars
  BY DEF vars
<1> QED
  BY <1>1, <1>2, <1>3, <1>4, <1>5 DEF Next

(* A region goes away only without users, and a persistent one never with  *)
(* the exit of its last user.                                              *)
THEOREM RegionLifetime == Spec => RegionKept
<1>1. Inv /\ [Next]_vars =>
        [\A c \in ctable \ ctable' :
           /\ rmap[c] = {}
           /\ Pending(c) # {} => /\ c \notin persist
                                 /\ Cardinality(Pending(c)) = 1]_vars
  BY RegionStep
<1> QED
  BY <1>1, Invariant, PTL DEF Spec, RegionKept

-----------------------------------------------------------------------------
(* A second inductive invariant, on top of Inv *)

(* A region belongs to a process that is alive, but for one whose mapping  *)
(* has no byte; a process that exits has still to visit it, or is about to *)
(* free it.                                                                *)
Exiting == {"exit", "find", "exit1", "exit2"}

OwnersSound ==
  \A r \in Regs, p \in Procs : as[r] = p =>
    /\ pc[p] # "unborn"
    /\ store[r] \notin empty =>
         /\ pc[p] # "dead"
         /\ pc[p] \in Exiting =>
              r \in todo[p] \/ (pc[p] \in {"find", "exit1"} /\ lmr[p] = r)

(* A context in the table has a name. *)
NamesSound == \A c \in ctable : name[c] \in Names

Calls == OwnersSound /\ NamesSound /\ QueueSound

(* Nothing is mapped and nobody waits at first. *)
LEMMA InitCalls == Init => Calls
<1>1. Init => OwnersSound
  BY ShmAssumption DEF Init, OwnersSound
<1>2. Init => NamesSound /\ QueueSound
  BY DEF Init, NamesSound, QueueSound
<1> QED
  BY <1>1, <1>2 DEF Calls

(* The context of a region stays without a byte, or with some, for as long *)
(* as the region is there.                                                 *)
EmptyKept ==
  \A r \in Regs, q \in Procs : as[r] = q /\ as'[r] = q =>
    store'[r] = store[r] /\ (store[r] \in empty => store[r] \in empty')

LEMMA EmptyCall ==
  ASSUME Inv, Inv', NEW p \in Procs, Call(p)
  PROVE  EmptyKept
<1> TypeOK
  BY DEF Inv
<1> SUFFICES ASSUME NEW r \in Regs, as[r] \in Procs, as'[r] = as[r]
             PROVE  /\ store'[r] = store[r]
                    /\ store[r] \in empty => store[r] \in empty'
  BY DEF EmptyKept
<1>1. store[r] \in ctable /\ store'[r] \in ctable' /\ as[r] # NULL
  BY ShmAssumption DEF Inv, Core, NoDangling
<1>2. ASSUME NEW n \in Names, NEW keep \in BOOLEAN, NEW zero \in BOOLEAN,
             createSharedRegion(p, n, keep, zero)
      PROVE  store' = store /\ (store[r] \in empty => store[r] \in empty')
  BY <1>1, <1>2 DEF createSharedRegion, regvars
<1>3. ASSUME NEW n \in Names, destroySharedRegion(p, n)
      PROVE  store' = store /\ (store[r] \in empty => store[r] \in empty')
  BY <1>1, <1>3 DEF destroySharedRegion, FreeContext, regvars
<1>4. ASSUME NEW n \in Names, createMapping(p, n)
      PROVE  store'[r] = store[r] /\ empty' = empty
  BY <1>1, <1>4 DEF createMapping, AddRef, RegionsOf, TypeOK
<1>5. ASSUME NEW n \in Names,
             \/ destroyMapping(p, n) \/ FailedLookup(p, n)
             \/ lockRegion(p, n) \/ unlockRegion(p, n)
      PROVE  store' = store /\ empty' = empty
  BY <1>5 DEF destroyMapping, FailedLookup, lockRegion, unlockRegion, regvars,
     ctxvars
<1>6. ASSUME \/ \E q \in Procs : Spawn(p, q) \/ ForkBegin(p, q)
             \/ ExitBegin(p)
      PROVE  store' = store /\ empty' = empty
  BY <1>6 DEF Spawn, ForkBegin, ExitBegin, regvars, ctxvars
<1> QED
  BY <1>2, <1>3, <1>4, <1>5, <1>6 DEF Call

LEMMA EmptyContinue ==
  ASSUME Inv, Inv', NEW p \in Procs, Continue(p)
  PROVE  EmptyKept
<1> TypeOK
  BY DEF Inv
<1> SUFFICES ASSUME NEW r \in Regs, as[r] \in Procs, as'[r] = as[r]
             PROVE  /\ store'[r] = store[r]
                    /\ store[r] \in empty => store[r] \in empty'
  BY DEF EmptyKept
<1>1. store[r] \in ctable /\ store'[r] \in ctable' /\ as[r] # NULL
  BY ShmAssumption DEF Inv, Core, NoDangling
<1>2. CASE UnmapUnref(p) \/ ExitUnref(p)
  <2>1. /\ store' = store
        /\ FreeContext(lctx[p]) \/ UNCHANGED <<ctable, empty>>
    BY <1>2 DEF UnmapUnref, ExitUnref, DropRef, regvars
  <2> QED
    BY <1>1, <2>1 DEF FreeContext
<1>3. CASE ForkCopy(p)
  BY <1>1, <1>3 DEF ForkCopy, AddRef, RegionsOf, TypeOK
<1>4. CASE UnmapStep(p) \/ ExitStep(p)
  <2>1. /\ as' = [as EXCEPT ![lmr[p]] = NULL] /\ empty' = empty
        /\ store' = [store EXCEPT ![lmr[p]] = NULL]
    BY <1>4 DEF UnmapStep, ExitStep, UnmapRegion, ctxvars
  <2> QED
    BY <1>1, <2>1 DEF TypeOK
<1>5. CASE LockWake(p) \/ UnmapAllFind(p) \/ UnmapAllRemove(p) \/ ExitDone(p)
  BY <1>5 DEF LockWake, UnmapAllFind, UnmapAllRemove, ExitDone, regvars,
     ctxvars
<1>6. CASE ForkCopyLost(p) \/ ForkDone(p) \/ ForkFail(p) \/ ForkAborted(p)
  BY <1>6 DEF ForkCopyLost, ForkDone, ForkFail, ForkAborted, regvars, ctxvars
<1> QED
  BY <1>2, <1>3, <1>4, <1>5, <1>6 DEF Continue

(* What a process that has not gone has still to do about its regions. *)
Owned(r, q) ==
  /\ pc[q] # "dead"
  /\ pc[q] \in Exiting =>
       r \in todo[q] \/ (pc[q] \in {"find", "exit1"} /\ lmr[q] = r)

(* A step that gives nobody a region keeps the owners if it keeps that. *)
LEMMA OwnersKeep ==
  ASSUME OwnersSound, EmptyKept,
         \A q \in Procs : pc[q] # "unborn" => pc'[q] # "unborn",
         \A r \in Regs, q \in Procs : as'[r] = q => as[r] = q,
         \A r \in Regs, q \in Procs :
           (as[r] = q /\ store[r] \notin empty /\ Owned(r, q)) => Owned(r, q)'
  PROVE  OwnersSound'
<1> SUFFICES ASSUME NEW r \in Regs, NEW q \in Procs, as'[r] = q
             PROVE  pc'[q] # "unborn" /\ (store'[r] \notin empty' => Owned(r, q)')
  BY DEF OwnersSound, Owned
<1>1. as[r] = q
  OBVIOUS
<1>2. pc[q] # "unborn" /\ (store[r] \notin empty => Owned(r, q))
  BY <1>1 DEF OwnersSound, Owned
<1>3. store'[r] \notin empty' => store[r] \notin empty
  BY <1>1 DEF EmptyKept
<1> QED
  BY <1>1, <1>2, <1>3

(* A process that goes on, and does not exit, keeps its regions. *)
LEMMA OwnersMove ==
  ASSUME TypeOK, OwnersSound, EmptyKept, NEW p \in Procs, NEW to,
         to \notin {"dead", "unborn"} \cup Exiting,
         pc' = [pc EXCEPT ![p] = to], as' = as, todo' = todo,
         \A q \in Procs \ {p} : lmr'[q] = lmr[q]
  PROVE  OwnersSound'
<1>1. pc'[p] = to /\ \A q \in Procs \ {p} : pc'[q] = pc[q]
  BY DEF TypeOK
<1>2. \A q \in Procs : pc[q] # "unborn" => pc'[q] # "unborn"
  BY <1>1
<1>3. \A r \in Regs, q \in Procs : Owned(r, q) => Owned(r, q)'
  BY <1>1 DEF Owned
<1> QED
  BY <1>2, <1>3, OwnersKeep

(* lockRegion appends only a process that is not in the queue. *)
LEMMA TryLockQueue ==
  ASSUME TypeOK, QueueSound, NEW p \in Procs, NEW c, TryLock(p, c), ~Asleep(p)
  PROVE  QueueSound'
<1>1. CASE waiters' = waiters /\ pc' = [pc EXCEPT ![p] = "run"]
  BY <1>1 DEF QueueSound, Asleep, TypeOK
<1>2. CASE waiters' = Append(waiters, p) /\ pc' = [pc EXCEPT ![p] = "lock"]
  <2>1. /\ Len(waiters') = Len(waiters) + 1 /\ waiters'[Len(waiters) + 1] = p
        /\ \A i \in 1..Len(waiters) :
             waiters'[i] = waiters[i] /\ waiters[i] # p /\ waiters[i] \in Procs
        /\ Len(waiters) \in Nat
    BY <1>2 DEF Asleep, TypeOK
  <2>2. \A i \in 1..Len(waiters') :
          i \in 1..Len(waiters) \/ i = Len(waiters) + 1
    BY <2>1
  <2>3. \A i \in 1..Len(waiters') : pc'[waiters'[i]] = "lock"
    <3>1. pc'[p] = "lock" /\ \A q \in Procs \ {p} : pc'[q] = pc[q]
      BY <1>2 DEF TypeOK
    <3> QED
      BY <2>1, <2>2, <3>1 DEF QueueSound
  <2>4. \A i, j \in 1..Len(waiters') : waiters'[i] = waiters'[j] => i = j
    BY <2>1, <2>2 DEF QueueSound
  <2> QED
    BY <2>3, <2>4 DEF QueueSound
<1> QED
  BY <1>1, <1>2 DEF TryLock

(* The beginning of a call keeps the second invariant. *)
LEMMA CallCalls ==
  ASSUME Inv, Inv', Calls, NEW p \in Procs, Call(p)
  PROVE  Calls'
<1> TypeOK /\ EmptyKept
  BY EmptyCall DEF Inv
<1> USE DEF Calls
<1>1. ASSUME NEW n \in Names, NEW keep \in BOOLEAN, NEW zero \in BOOLEAN,
             createSharedRegion(p, n, keep, zero)
      PROVE  Calls'
  <2>1. OwnersSound' /\ QueueSound'
    BY <1>1 DEF createSharedRegion, regvars, procvars, OwnersSound, QueueSound,
       EmptyKept
  <2>2. NamesSound'
    BY <1>1 DEF createSharedRegion, NamesSound, TypeOK
  <2> QED
    BY <2>1, <2>2
<1>2. ASSUME NEW n \in Names, destroySharedRegion(p, n) PROVE Calls'
  <2>1. OwnersSound' /\ QueueSound'
    BY <1>2 DEF destroySharedRegion, regvars, procvars, OwnersSound,
       QueueSound, EmptyKept
  <2>2. NamesSound'
    BY <1>2 DEF destroySharedRegion, FreeContext, NamesSound, TypeOK
  <2> QED
    BY <2>1, <2>2
<1>3. ASSUME NEW n \in Names, createMapping(p, n) PROVE Calls'
  <2>1. OwnersSound'
    <3>1. PICK r \in Regs : as' = [as EXCEPT ![r] = p]
      BY <1>3 DEF createMapping, AddRef, RegionsOf
    <3>2. UNCHANGED <<pc, lmr, todo>> /\ pc[p] = "run"
      BY <1>3 DEF createMapping, procvars
    <3>3. "run" \notin {"dead", "unborn"} \cup Exiting
      BY DEF Exiting
    <3> QED
      <4> SUFFICES ASSUME NEW x \in Regs, NEW q \in Procs, as'[x] = q
                   PROVE  /\ pc[q] # "unborn"
                          /\ store'[x] \notin empty' =>
                               /\ pc[q] # "dead"
                               /\ pc[q] \in Exiting =>
                                    \/ x \in todo[q]
                                    \/ /\ pc[q] \in {"find", "exit1"}
                                       /\ lmr[q] = x
        BY <3>2 DEF OwnersSound
      <4>1. CASE x = r
        BY <3>1, <3>2, <3>3, <4>1 DEF TypeOK
      <4>2. CASE x # r
        BY <3>1, <4>2 DEF OwnersSound, TypeOK, EmptyKept
      <4> QED
        BY <4>1, <4>2
  <2>2. NamesSound' /\ QueueSound'
    BY <1>3 DEF createMapping, procvars, NamesSound, QueueSound
  <2> QED
    BY <2>1, <2>2
<1>4. ASSUME NEW n \in Names, destroyMapping(p, n) PROVE Calls'
  <2>1. OwnersSound'
    <3>1. /\ pc' = [pc EXCEPT ![p] = "unmap1"] /\ as' = as /\ todo' = todo
          /\ \A q \in Procs \ {p} : lmr'[q] = lmr[q]
      BY <1>4 DEF destroyMapping, regvars, TypeOK
    <3> QED
      BY <3>1, OwnersMove DEF Exiting
  <2>2. NamesSound' /\ QueueSound'
    BY <1>4 DEF destroyMapping, NamesSound, QueueSound, TypeOK
  <2> QED
    BY <2>1, <2>2
<1>5. ASSUME NEW n \in Names, FailedLookup(p, n) PROVE Calls'
  BY <1>5 DEF FailedLookup, ctxvars, regvars, procvars, OwnersSound,
     NamesSound, QueueSound, EmptyKept
<1>6. ASSUME NEW n \in Names, lockRegion(p, n) PROVE Calls'
  <2>1. PICK c \in Ctxs : TryLock(p, c)
    BY <1>6 DEF lockRegion, getContextByHandle, ByName, TypeOK
  <2>2. OwnersSound'
    <3>1. PICK to \in {"run", "lock"} : pc' = [pc EXCEPT ![p] = to]
      BY <2>1 DEF TryLock
    <3>2. UNCHANGED <<as, todo, lmr>>
      BY <1>6 DEF lockRegion, regvars
    <3> QED
      BY <3>1, <3>2, OwnersMove DEF Exiting
  <2>3. NamesSound'
    BY <1>6 DEF lockRegion, NamesSound
  <2>4. QueueSound'
    <3>1. ~Asleep(p)
      BY <1>6 DEF lockRegion, Asleep, QueueSound
    <3> QED
      BY <2>1, <3>1, TryLockQueue
  <2> QED
    BY <2>2, <2>3, <2>4
<1>7. ASSUME NEW n \in Names, unlockRegion(p, n) PROVE Calls'
  <2>1. OwnersSound' /\ NamesSound'
    BY <1>7 DEF unlockRegion, regvars, procvars, OwnersSound, NamesSound,
       EmptyKept
  <2>2. QueueSound'
    BY <1>7 DEF unlockRegion, procvars, QueueSound, TypeOK
  <2> QED
    BY <2>1, <2>2
<1>8. ASSUME NEW q \in Procs, Spawn(p, q) PROVE Calls'
  <2>1. OwnersSound'
    BY <1>8 DEF Spawn, regvars, OwnersSound, TypeOK, Exiting, EmptyKept
  <2>2. NamesSound' /\ QueueSound'
    BY <1>8 DEF Spawn, ctxvars, NamesSound, QueueSound, TypeOK
  <2> QED
    BY <2>1, <2>2
<1>9. ASSUME NEW q \in Procs, ForkBegin(p, q) PROVE Calls'
  <2>1. OwnersSound'
    BY <1>9 DEF ForkBegin, regvars, OwnersSound, TypeOK, Exiting, EmptyKept
  <2>2. NamesSound' /\ QueueSound'
    BY <1>9 DEF ForkBegin, ctxvars, NamesSound, QueueSound, TypeOK
  <2> QED
    BY <2>1, <2>2
<1>10. CASE ExitBegin(p)
  <2>1. OwnersSound'
    BY <1>10 DEF ExitBegin, RegionsOf, regvars, OwnersSound, TypeOK, Exiting,
       EmptyKept
  <2>2. NamesSound' /\ QueueSound'
    BY <1>10 DEF ExitBegin, ctxvars, NamesSound, QueueSound, TypeOK
  <2> QED
    BY <2>1, <2>2
<1> QED
  BY <1>1, <1>2, <1>3, <1>4, <1>5, <1>6, <1>7, <1>8, <1>9, <1>10 DEF Call

(* The rest of a call keeps the second invariant. *)
LEMMA ContinueCalls ==
  ASSUME Inv, Inv', Calls, NEW p \in Procs, Continue(p)
  PROVE  Calls'
<1> TypeOK /\ EmptyKept
  BY EmptyContinue DEF Inv
<1> USE DEF Calls
<1>1. ASSUME NEW at, NEW next,
             <<at, next>> \in {<<"unmap1", "unmap2">>, <<"exit1", "exit2">>},
             UnmapRegion(p, at, next)
      PROVE  Calls'
  <2>1. /\ pc[p] \in Unmapping /\ lmr[p] \in Regs
        /\ pc' = [pc EXCEPT ![p] = next]
        /\ next \in {"unmap2", "exit2"} /\ (next = "exit2" <=> pc[p] = "exit1")
        /\ as' = [as EXCEPT ![lmr[p]] = NULL] /\ as[lmr[p]] = p
        /\ lmr'   = [lmr EXCEPT ![p] = NULL]
        /\ UNCHANGED <<todo, ctable, name, waiters>>
    BY <1>1 DEF UnmapRegion, ctxvars, Inv, Core, UnmapLocals, Unmapping
  <2>2. OwnersSound'
    <3> SUFFICES ASSUME NEW r \in Regs, NEW q \in Procs, as'[r] = q
                 PROVE  /\ pc'[q] # "unborn"
                        /\ store'[r] \notin empty' =>
                             /\ pc'[q] # "dead"
                             /\ pc'[q] \in Exiting =>
                                  \/ r \in todo[q]
                                  \/ /\ pc'[q] \in {"find", "exit1"}
                                     /\ lmr'[q] = r
      BY <2>1 DEF OwnersSound
    <3>1. /\ as[r] = q /\ r # lmr[p]
          /\ store'[r] \notin empty' => store[r] \notin empty
      BY <2>1, ShmAssumption DEF TypeOK, EmptyKept
    <3>2. CASE q = p
      <4>1. pc'[p] = next
        BY <2>1 DEF TypeOK
      <4>2. CASE pc[p] = "exit1"
        <5>1. store'[r] \notin empty' => r \in todo[p]
          BY <3>1, <3>2, <4>2 DEF OwnersSound, Exiting
        <5> QED
          BY <2>1, <3>2, <4>1, <5>1
      <4>3. CASE pc[p] = "unmap1"
        BY <2>1, <3>2, <4>1, <4>3 DEF Exiting
      <4> QED
        BY <2>1, <4>2, <4>3 DEF Unmapping
    <3>3. CASE q # p
      BY <2>1, <3>1, <3>3 DEF OwnersSound, TypeOK
    <3> QED
      BY <3>2, <3>3
  <2>3. NamesSound' /\ QueueSound'
    BY <2>1 DEF NamesSound, QueueSound, TypeOK, Unmapping
  <2> QED
    BY <2>2, <2>3
<1>2. ASSUME NEW at, NEW next, NEW force \in BOOLEAN,
             <<at, next>> \in {<<"unmap2", "run">>, <<"exit2", "exit">>},
             DropRef(p, at, next, force)
      PROVE  Calls'
  <2>1. /\ pc[p] \in {"unmap2", "exit2"} /\ pc' = [pc EXCEPT ![p] = next]
        /\ next \in {"run", "exit"} /\ (next = "exit" <=> pc[p] = "exit2")
        /\ UNCHANGED <<todo, as, lmr, waiters>>
        /\ ctable' \subseteq ctable /\ \A c \in ctable' : name'[c] = name[c]
    BY <1>2 DEF DropRef, FreeContext, regvars, TypeOK
  <2>2. OwnersSound'
    BY <2>1 DEF OwnersSound, TypeOK, Exiting, EmptyKept
  <2>3. NamesSound' /\ QueueSound'
    BY <2>1 DEF NamesSound, QueueSound, TypeOK
  <2> QED
    BY <2>2, <2>3
<1>3. CASE LockWake(p)
  <2>1. OwnersSound'
    <3>1. PICK to \in {"run", "lock"} : pc' = [pc EXCEPT ![p] = to]
      BY <1>3 DEF LockWake, TryLock
    <3>2. UNCHANGED <<as, todo, lmr>>
      BY <1>3 DEF LockWake, regvars
    <3> QED
      BY <3>1, <3>2, OwnersMove DEF Exiting
  <2>2. NamesSound'
    BY <1>3 DEF LockWake, NamesSound
  <2>3. QueueSound'
    BY <1>3, TryLockQueue DEF LockWake
  <2> QED
    BY <2>1, <2>2, <2>3
<1>4. CASE ForkCopy(p)
  <2>1. child[p] \in Procs /\ pc[child[p]] = "embryo"
    BY <1>4 DEF ForkCopy, Inv, Core, ForkLocals
  <2>2. PICK r \in todo[p], s \in Regs :
          /\ as' = [as EXCEPT ![s] = child[p]]
          /\ todo' = [todo EXCEPT ![p] = @ \ {r}]
    BY <1>4 DEF ForkCopy, AddRef, RegionsOf
  <2>3. OwnersSound'
    <3>1. pc' = pc /\ lmr' = lmr /\ pc[p] = "fork"
      BY <1>4 DEF ForkCopy
    <3> SUFFICES ASSUME NEW x \in Regs, NEW q \in Procs, as'[x] = q
                 PROVE  /\ pc[q] # "unborn"
                        /\ store'[x] \notin empty' =>
                             /\ pc[q] # "dead"
                             /\ pc[q] \in Exiting =>
                                  \/ x \in todo'[q]
                                  \/ /\ pc[q] \in {"find", "exit1"}
                                     /\ lmr[q] = x
      BY <3>1 DEF OwnersSound
    <3>2. CASE x = s
      BY <2>1, <2>2, <3>2 DEF TypeOK, Exiting
    <3>3. CASE x # s
      <4>1. as[x] = q
        BY <2>2, <3>3 DEF TypeOK
      <4>2. CASE q = p
        BY <3>1, <4>2 DEF Exiting
      <4>3. CASE q # p
        BY <2>2, <4>1, <4>3 DEF OwnersSound, TypeOK, EmptyKept
      <4> QED
        BY <4>2, <4>3
    <3> QED
      BY <3>2, <3>3
  <2>4. NamesSound' /\ QueueSound'
    BY <1>4 DEF ForkCopy, NamesSound, QueueSound
  <2> QED
    BY <2>3, <2>4
<1>5. CASE ForkCopyLost(p)
  <2>1. OwnersSound'
    BY <1>5 DEF ForkCopyLost, regvars, OwnersSound, TypeOK, Exiting, EmptyKept
  <2>2. NamesSound' /\ QueueSound'
    BY <1>5 DEF ForkCopyLost, ctxvars, NamesSound, QueueSound
  <2> QED
    BY <2>1, <2>2
<1>6. CASE ForkDone(p)
  <2>1. child[p] \in Procs /\ pc[child[p]] = "embryo"
    BY <1>6 DEF ForkDone, Inv, Core, ForkLocals
  <2>2. OwnersSound'
    <3>1. /\ pc' = [pc EXCEPT ![p] = "run", ![child[p]] = "run"]
          /\ UNCHANGED <<as, todo, lmr>>
      BY <1>6 DEF ForkDone, regvars
    <3>2. \A q \in Procs : pc'[q] = pc[q] \/ pc'[q] = "run"
      BY <2>1, <3>1 DEF TypeOK
    <3>3. "run" \notin {"dead", "unborn"} \cup Exiting
      BY DEF Exiting
    <3> QED
      BY <3>1, <3>2, <3>3 DEF OwnersSound, EmptyKept
  <2>3. NamesSound' /\ QueueSound'
    BY <1>6, <2>1 DEF ForkDone, ctxvars, NamesSound, QueueSound, TypeOK
  <2> QED
    BY <2>2, <2>3
<1>7. CASE ForkFail(p)
  <2>1. child[p] \in Procs /\ pc[child[p]] = "embryo"
    BY <1>7 DEF ForkFail, Inv, Core, ForkLocals
  <2>2. OwnersSound'
    BY <1>7, <2>1 DEF ForkFail, RegionsOf, regvars, OwnersSound, TypeOK,
       Exiting, EmptyKept
  <2>3. NamesSound' /\ QueueSound'
    BY <1>7, <2>1 DEF ForkFail, ctxvars, NamesSound, QueueSound, TypeOK
  <2> QED
    BY <2>2, <2>3
<1>8. CASE ForkAborted(p)
  <2>1. OwnersSound'
    BY <1>8 DEF ForkAborted, regvars, OwnersSound, TypeOK, Exiting, EmptyKept
  <2>2. NamesSound' /\ QueueSound'
    BY <1>8 DEF ForkAborted, ctxvars, NamesSound, QueueSound, TypeOK
  <2> QED
    BY <2>1, <2>2
<1>9. CASE UnmapAllFind(p)
  <2>1. OwnersSound'
    <3>1. PICK r \in todo[p] : /\ todo' = [todo EXCEPT ![p] = @ \ {r}]
                              /\ lmr' = [lmr EXCEPT ![p] = r]
      BY <1>9 DEF UnmapAllFind
    <3>2. pc[p] = "exit" /\ pc' = [pc EXCEPT ![p] = "find"] /\ as' = as
      BY <1>9 DEF UnmapAllFind, regvars
    <3>3. \A q \in Procs \ {p} :
            pc'[q] = pc[q] /\ todo'[q] = todo[q] /\ lmr'[q] = lmr[q]
      BY <3>1, <3>2 DEF TypeOK
    <3>4. pc'[p] = "find" /\ todo'[p] = todo[p] \ {r} /\ lmr'[p] = r
      BY <3>1, <3>2 DEF TypeOK
    <3>5. \A q \in Procs : pc[q] # "unborn" => pc'[q] # "unborn"
      BY <3>2, <3>3, <3>4
    <3>6. \A x \in Regs, q \in Procs : Owned(x, q) => Owned(x, q)'
      BY <3>2, <3>3, <3>4 DEF Owned, Exiting
    <3> QED
      BY <3>2, <3>5, <3>6, OwnersKeep
  <2>2. NamesSound' /\ QueueSound'
    BY <1>9 DEF UnmapAllFind, ctxvars, NamesSound, QueueSound, TypeOK
  <2> QED
    BY <2>1, <2>2
<1>10. CASE UnmapAllRemove(p)
  <2>1. lmr[p] \in Regs /\ as[lmr[p]] = p /\ store[lmr[p]] = lctx[p]
    BY <1>10 DEF UnmapAllRemove, Inv, Core, UnmapLocals
  <2>2. lctx[p] \in Ctxs /\ pc[p] \notin Unmapping
    BY <1>10 DEF UnmapAllRemove, Inv, Core, NoDangling, TypeOK, Unmapping
  <2>3. \A q \in Procs : pc[q] \in Unmapping => lmr[q] # lmr[p]
    BY <2>1, <2>2 DEF Inv, Core, UnmapLocals
  <2>4. lmr[p] \in rmap[lctx[p]]
    BY <2>1, <2>2, <2>3, RmapMember, ShmAssumption DEF Inv, Core
  <2>5. lctx[p] \notin empty => lmr[p] \in find_remove_rmapping(lctx[p], p)
    BY <2>1, <2>4 DEF find_remove_rmapping
  <2>6. OwnersSound'
    <3>1. PICK to \in {"exit", "exit1"} :
            /\ pc' = [pc EXCEPT ![p] = to] /\ pc[p] = "find"
            /\ lctx[p] \notin empty => to = "exit1"
            /\ UNCHANGED <<as, lmr, todo>>
      BY <1>10, <2>5 DEF UnmapAllRemove, regvars
    <3>2. pc'[p] = to /\ \A q \in Procs \ {p} : pc'[q] = pc[q]
      BY <3>1 DEF TypeOK
    <3>3. \A q \in Procs : pc[q] # "unborn" => pc'[q] # "unborn"
      BY <3>1, <3>2
    <3>4. \A r \in Regs, q \in Procs :
            (as[r] = q /\ store[r] \notin empty /\ Owned(r, q)) => Owned(r, q)'
      BY <2>1, <3>1, <3>2 DEF Owned, Exiting
    <3> QED
      BY <3>1, <3>3, <3>4, OwnersKeep
  <2>7. NamesSound' /\ QueueSound'
    BY <1>10, <2>4 DEF UnmapAllRemove, NamesSound, QueueSound, TypeOK
  <2> QED
    BY <2>6, <2>7
<1>11. CASE ExitDone(p)
  <2>1. OwnersSound'
    BY <1>11 DEF ExitDone, regvars, OwnersSound, TypeOK, Exiting, EmptyKept
  <2>2. NamesSound' /\ QueueSound'
    BY <1>11 DEF ExitDone, ctxvars, NamesSound, QueueSound, TypeOK
  <2> QED
    BY <2>1, <2>2
<1>12. CASE UnmapStep(p) \/ ExitStep(p)
  BY <1>1, <1>12 DEF UnmapStep, ExitStep
<1>13. CASE UnmapUnref(p) \/ ExitUnref(p)
  BY <1>2, <1>13 DEF UnmapUnref, ExitUnref
<1> QED
  BY <1>3, <1>4, <1>5, <1>6, <1>7, <1>8, <1>9, <1>10, <1>11, <1>12, <1>13 DEF
     Continue

(* The second invariant is inductive, given the first. *)
LEMMA NextCalls == Inv /\ Calls /\ [Next]_vars => Calls'
<1> SUFFICES ASSUME Inv, Calls, [Next]_vars PROVE Calls'
  OBVIOUS
<1>1. CASE UNCHANGED vars
  BY <1>1 DEF vars, Calls, OwnersSound, NamesSound, QueueSound
<1>2. CASE Next
  BY <1>2, NextInv, CallCalls, ContinueCalls DEF Next
<1> QED
  BY <1>1, <1>2

(* Both invariants hold in every reachable state. *)
THEOREM CallsInvariant == Spec => [](Inv /\ Calls)
<1>1. Init => Inv /\ Calls
  BY InitInv, InitCalls
<1>2. Inv /\ Calls /\ [Next]_vars => (Inv /\ Calls)'
  BY NextInv, NextCalls
<1> QED
  BY <1>1, <1>2, PTL DEF Spec

(* Calls that fail, sleep or end in any order leave nothing wrong behind:  *)
(* with any number of processes, names stay unique, a process that is gone *)
(* is named by no wait queue and by no memregion or node but those of      *)
(* mappings without a byte, and only sleeping lockers are in the queue,    *)
(* each once.                                                              *)
THEOREM CallsCorrect == Spec => []CallsSound
<1>1. Inv /\ Calls => CallsSound
  <2> SUFFICES ASSUME Inv, Calls PROVE DeadLeaveNothing
    BY DEF Inv, Core, Calls, CallsSound
  <2> SUFFICES ASSUME NEW p \in Procs, pc[p] \in {"dead", "unborn"}
               PROVE  /\ \A r \in RegionsOf(p) : store[r] \in empty
                      /\ \A c \in Ctxs \ empty : ~Mapped(c, p)
                      /\ ~Asleep(p)
    BY DEF DeadLeaveNothing
  <2>1. \A r \in Regs : as[r] = p => store[r] \in empty
    BY DEF Calls, OwnersSound
  <2>2. \A c \in Ctxs : \A r \in rmap[c] : r \in Regs /\ store[r] = c
    <3>1. \A c \in Ctxs : rmap[c] \subseteq Regs
      BY DEF Inv, TypeOK
    <3> QED
      BY <3>1, RmapMember DEF Inv, Core
  <2>3. ~Asleep(p)
    BY DEF Asleep, Calls, QueueSound
  <2>4. \A c \in Ctxs : Mapped(c, p) => c \in empty
    BY <2>1, <2>2 DEF Mapped
  <2>5. \A r \in RegionsOf(p) : store[r] \in empty
    BY <2>1 DEF RegionsOf
  <2> QED
    BY <2>3, <2>4, <2>5
<1> QED
  BY <1>1, CallsInvariant, PTL

-----------------------------------------------------------------------------
(* shmms implements SharedRegions.  The contexts of the table are seen by  *)
(* their names, which are unique.                                          *)

(* What SharedRegions sees of a context. *)
Seen(c) == [persist |-> c \in persist, users |-> refcnt[c],
            owner |-> lock_by[c]]

(* The region of a name in use is what is seen of its one context. *)
LEMMA SeenAs ==
  ASSUME UniqueNames, NEW c \in ctable
  PROVE  RegionOf(name[c]) = Seen(c)
<1>1. ByName(name[c]) = {c}
  BY DEF ByName, UniqueNames
<1>2. (CHOOSE d \in {c} : TRUE) = c
  OBVIOUS
<1> QED
  BY <1>1, <1>2, Zenon DEF RegionOf, Seen

(* The same after a step. *)
LEMMA SeenAsNext ==
  ASSUME UniqueNames', NEW c \in ctable'
  PROVE  RegionOf(name[c])' = Seen(c)'
<1>1. ByName(name[c])' = {c}
  BY DEF ByName, UniqueNames
<1>2. (CHOOSE d \in {c} : TRUE) = c
  OBVIOUS
<1> QED
  BY <1>1, <1>2, Zenon DEF RegionOf, Seen

(* A name that is not in use has no region. *)
LEMMA SeenNone ==
  ASSUME NEW n
  PROVE  /\ ByName(n) = {} => RegionOf(n) = NULL
         /\ ByName(n)' = {} => RegionOf(n)' = NULL
BY DEF RegionOf

(* A name sees no step that leaves its contexts alone. *)
LEMMA SeenFrame ==
  ASSUME NEW m, ByName(m)' = ByName(m),
         \A c \in ByName(m) : Seen(c)' = Seen(c)
  PROVE  RegionOf(m)' = RegionOf(m)
<1>1. CASE ByName(m) = {}
  BY <1>1 DEF RegionOf
<1>2. CASE ByName(m) # {}
  <2>1. PICK c : c = CHOOSE d \in ByName(m) : TRUE
    OBVIOUS
  <2>2. c \in ByName(m)
    BY <1>2, <2>1
  <2>3. RegionOf(m) = Seen(c)
    BY <1>2, <2>1, Zenon DEF RegionOf, Seen
  <2>4. RegionOf(m)' = Seen(c)'
    BY <1>2, <2>1, Zenon DEF RegionOf, Seen
  <2> QED
    BY <2>2, <2>3, <2>4
<1> QED
  BY <1>1, <1>2

(* What is seen of a context is a region. *)
LEMMA SeenSome ==
  ASSUME TypeOK, NEW c \in ctable
  PROVE  Seen(c) # NULL
<1>1. Seen(c) \in [persist : BOOLEAN, users : Nat, owner : Procs \cup {NULL}]
  BY DEF Seen, TypeOK
<1> QED
  BY <1>1, NullAssumption

(* A step that changes only the context c leaves the other names alone. *)
LEMMA OtherNames ==
  ASSUME TypeOK, NEW c \in Ctxs, NEW n,
         c \in ctable => name[c] = n,
         c \in ctable' => name'[c] = n,
         ctable' \ {c} = ctable \ {c},
         \A d \in Ctxs \ {c} :
           /\ name'[d] = name[d] /\ refcnt'[d] = refcnt[d]
           /\ lock_by'[d] = lock_by[d] /\ (d \in persist' <=> d \in persist),
         NEW m \in Names, m # n
  PROVE  RegionOf(m)' = RegionOf(m)
<1>1. ByName(m)' = ByName(m) /\ c \notin ByName(m) /\ ByName(m) \subseteq Ctxs
  BY DEF ByName, TypeOK
<1>2. ASSUME NEW d \in ByName(m) PROVE Seen(d)' = Seen(d)
  <2>1. (d \in persist') = (d \in persist)
    BY <1>1
  <2>2. refcnt'[d] = refcnt[d] /\ lock_by'[d] = lock_by[d]
    BY <1>1
  <2> QED
    BY <2>1, <2>2, Zenon DEF Seen
<1> QED
  BY <1>1, <1>2, SeenFrame

(* A step that touches nothing of a context in the table is unseen. *)
LEMMA Unseen ==
  ASSUME ctable' = ctable, name' = name, persist' = persist,
         refcnt' = refcnt, lock_by' = lock_by
  PROVE  UNCHANGED [n \in Names |-> RegionOf(n)]
BY DEF RegionOf, ByName

(* createSharedRegion is Create. *)
LEMMA CreateAbs ==
  ASSUME Inv, Inv', NEW p \in Procs, NEW n \in Names, NEW keep \in BOOLEAN, NEW zero \in BOOLEAN,
         createSharedRegion(p, n, keep, zero)
  PROVE  Abs!Create(n, keep)
<1>1. PICK c \in Ctxs \ ctable :
        /\ ctable'  = ctable \cup {c}
        /\ name'    = [name EXCEPT ![c] = n]
        /\ persist' = IF keep THEN persist \cup {c} ELSE persist \ {c}
        /\ refcnt'  = [refcnt EXCEPT ![c] = 0]
        /\ lock_by' = [lock_by EXCEPT ![c] = NULL]
  BY DEF createSharedRegion
<1>2. TypeOK /\ UniqueNames'
  BY DEF Inv, Core
<1>3. RegionOf(n) = NULL
  BY SeenNone DEF createSharedRegion
<1>4. c \in ctable' /\ name'[c] = n /\ refcnt'[c] = 0 /\ lock_by'[c] = NULL
  BY <1>1, <1>2 DEF TypeOK
<1>5. (c \in persist') = keep
  BY <1>1
<1>6. Seen(c)' = [persist |-> keep, users |-> 0, owner |-> NULL]
  BY <1>4, <1>5, Zenon DEF Seen
<1>7. RegionOf(n)' = [persist |-> keep, users |-> 0, owner |-> NULL]
  BY <1>2, <1>4, <1>6, SeenAsNext
<1>8. \A m \in Names : m # n => RegionOf(m)' = RegionOf(m)
  BY <1>1, <1>2, <1>4, OtherNames DEF TypeOK
<1> QED
  BY <1>3, <1>7, <1>8 DEF Abs!Create, Abs!Exists

(* A region that goes away, seen by name. *)
LEMMA FreedAbs ==
  ASSUME TypeOK, UniqueNames, NEW c \in ctable, FreeContext(c),
         \A d \in Ctxs \ {c} : refcnt'[d] = refcnt[d]
  PROVE  /\ RegionOf(name[c]) = Seen(c)
         /\ \A m \in Names :
              RegionOf(m)' = IF m = name[c] THEN NULL ELSE RegionOf(m)
<1>1. c \in Ctxs /\ c \notin ctable'
  BY DEF TypeOK, FreeContext
<1>2. ByName(name[c]) = {c}
  BY DEF ByName, UniqueNames
<1> DEFINE n == name[c]
<1>3. \A d \in ctable' : d \in ctable /\ d # c /\ name'[d] = name[d]
  BY DEF FreeContext, TypeOK
<1> HIDE DEF n
<1>4. {d \in ctable' : name'[d] = n} = {}
  BY <1>2, <1>3 DEF n, ByName
<1>6. ASSUME NEW m \in Names, m = n PROVE RegionOf(m)' = NULL
  <2>1. ByName(m)' = {}
    BY <1>4, <1>6 DEF ByName
  <2> QED
    BY <2>1, SeenNone
<1>7. ASSUME NEW m \in Names, m # n PROVE RegionOf(m)' = RegionOf(m)
  BY <1>1, <1>7, OtherNames DEF FreeContext, TypeOK, n
<1> QED
  BY <1>6, <1>7, SeenAs DEF n

(* A region that changes, seen by name. *)
LEMMA ChangedAbs ==
  ASSUME TypeOK, UniqueNames, UniqueNames', NEW c \in ctable,
         ctable' = ctable, name' = name, persist' = persist,
         \A d \in Ctxs \ {c} :
           refcnt'[d] = refcnt[d] /\ lock_by'[d] = lock_by[d]
  PROVE  /\ RegionOf(name[c]) = Seen(c)
         /\ \A m \in Names :
              RegionOf(m)' = IF m = name[c] THEN Seen(c)' ELSE RegionOf(m)
<1>1. c \in Ctxs /\ c \in ctable'
  BY DEF TypeOK
<1>2. RegionOf(name[c])' = Seen(c)'
  BY <1>1, SeenAsNext
<1>3. ASSUME NEW m \in Names, m = name[c] PROVE RegionOf(m)' = Seen(c)'
  BY <1>2, <1>3
<1>4. ASSUME NEW m \in Names, m # name[c] PROVE RegionOf(m)' = RegionOf(m)
  BY <1>1, <1>4, OtherNames
<1> QED
  BY <1>3, <1>4, SeenAs

(* destroySharedRegion is Destroy. *)
LEMMA DestroyAbs ==
  ASSUME Inv, Calls, NEW p \in Procs, NEW n \in Names,
         destroySharedRegion(p, n)
  PROVE  Abs!Destroy(n)
<1>1. PICK c \in ctable : name[c] = n /\ refcnt[c] = 0 /\ FreeContext(c)
  BY DEF destroySharedRegion, ByName
<1>2. TypeOK /\ UniqueNames /\ refcnt' = refcnt
  BY DEF Inv, Core, destroySharedRegion
<1>3. /\ RegionOf(n) = Seen(c)
      /\ \A m \in Names : RegionOf(m)' = IF m = n THEN NULL ELSE RegionOf(m)
  BY <1>1, <1>2, FreedAbs
<1>4. Seen(c) # NULL /\ Seen(c).users = 0
  BY <1>1, <1>2, SeenSome DEF Seen
<1> QED
  BY <1>3, <1>4 DEF Abs!Destroy, Abs!Exists

(* createMapping and addContextRef are Attach. *)
LEMMA AttachAbs ==
  ASSUME Inv, Inv', Calls, NEW c \in ctable, NEW p, NEW r, AddRef(c, p, r),
         UNCHANGED <<ctable, name, persist, empty, lock_by>>
  PROVE  \E n \in Names : Abs!Attach(n)
<1>1. TypeOK /\ UniqueNames /\ UniqueNames' /\ name[c] \in Names
  BY DEF Inv, Core, Calls, NamesSound
<1>2. PICK n \in Names : n = name[c]
  BY <1>1
<1>3. /\ refcnt'[c] = refcnt[c] + 1 /\ refcnt[c] \in Nat
      /\ \A d \in Ctxs \ {c} : refcnt'[d] = refcnt[d]
  BY <1>1 DEF AddRef, TypeOK
<1>4. /\ RegionOf(n) = Seen(c)
      /\ \A m \in Names :
           RegionOf(m)' = IF m = n THEN Seen(c)' ELSE RegionOf(m)
  BY <1>1, <1>2, <1>3, ChangedAbs
<1>5. Seen(c) # NULL
  BY <1>1, SeenSome
<1>6. Seen(c)' = [Seen(c) EXCEPT !.users = @ + 1]
  BY <1>3 DEF Seen
<1>7. Abs!Attach(n)
  BY <1>4, <1>5, <1>6 DEF Abs!Attach, Abs!Exists
<1> QED
  BY <1>7

(* The second half of an unmap is Detach, or LastExit when it frees. *)
LEMMA DetachAbs ==
  ASSUME Inv, Inv', Calls, NEW p \in Procs, NEW at \in Leaving, NEW next,
         NEW force, DropRef(p, at, next, force)
  PROVE  \E n \in Names : Abs!Detach(n) \/ Abs!LastExit(n)
<1>1. PICK c \in ctable : c = lctx[p]
  BY DEF DropRef, Inv, Core, NoDangling
<1>2. TypeOK /\ UniqueNames /\ UniqueNames' /\ name[c] \in Names
  BY DEF Inv, Core, Calls, NamesSound
<1>3. PICK n \in Names : n = name[c]
  BY <1>2
<1>4. refcnt[c] > 0 /\ refcnt[c] \in Nat
  BY <1>1, <1>2, PendingCounted DEF DropRef, TypeOK
<1>5. /\ refcnt'[c] = refcnt[c] - 1
      /\ \A d \in Ctxs \ {c} : refcnt'[d] = refcnt[d]
  BY <1>1, <1>2 DEF DropRef, TypeOK
<1>6. Seen(c) # NULL /\ Seen(c).users = refcnt[c]
  BY <1>2, SeenSome DEF Seen
<1>7. CASE refcnt[c] = 1 /\ c \notin persist /\ FreeContext(c)
  <2>1. /\ RegionOf(n) = Seen(c)
        /\ \A m \in Names : RegionOf(m)' = IF m = n THEN NULL ELSE RegionOf(m)
    BY <1>2, <1>3, <1>5, <1>7, FreedAbs
  <2>2. ~Seen(c).persist
    <3>1. Seen(c).persist = (c \in persist)
      BY DEF Seen
    <3> QED
      BY <1>7, <3>1
  <2>3. Abs!LastExit(n)
    BY <1>6, <1>7, <2>1, <2>2 DEF Abs!LastExit, Abs!Exists
  <2> QED
    BY <2>3
<1>8. CASE UNCHANGED <<ctable, name, persist, empty, lock_by>>
  <2>1. /\ RegionOf(n) = Seen(c)
        /\ \A m \in Names :
             RegionOf(m)' = IF m = n THEN Seen(c)' ELSE RegionOf(m)
    BY <1>2, <1>3, <1>5, <1>8, ChangedAbs
  <2>2. Seen(c)' = [Seen(c) EXCEPT !.users = @ - 1]
    BY <1>5, <1>8 DEF Seen
  <2>3. Abs!Detach(n)
    BY <1>4, <1>6, <2>1, <2>2 DEF Abs!Detach, Abs!Exists
  <2> QED
    BY <2>3
<1> QED
  BY <1>1, <1>7, <1>8 DEF DropRef

(* The loop of lockRegion is Lock, or nothing that is seen. *)
LEMMA LockAbs ==
  ASSUME Inv, Inv', Calls, NEW p \in Procs, NEW c \in ctable, TryLock(p, c),
         UNCHANGED <<ctable, name, persist, empty, refcnt>>
  PROVE  \/ \E n \in Names : Abs!Lock(n, p)
         \/ UNCHANGED [n \in Names |-> RegionOf(n)]
<1>1. TypeOK /\ UniqueNames /\ UniqueNames' /\ name[c] \in Names
  BY DEF Inv, Core, Calls, NamesSound
<1>2. PICK n \in Names : n = name[c]
  BY <1>1
<1>3. CASE UNCHANGED lock_by
  BY <1>3, Unseen
<1>4. CASE lock_by[c] \in {NULL, p} /\ lock_by' = [lock_by EXCEPT ![c] = p]
  <2>1. lock_by'[c] = p /\ \A d \in Ctxs \ {c} : lock_by'[d] = lock_by[d]
    BY <1>1, <1>4 DEF TypeOK
  <2>2. /\ RegionOf(n) = Seen(c)
        /\ \A m \in Names :
             RegionOf(m)' = IF m = n THEN Seen(c)' ELSE RegionOf(m)
    BY <1>1, <1>2, <2>1, ChangedAbs
  <2>3. Seen(c)' = [Seen(c) EXCEPT !.owner = p]
    BY <2>1 DEF Seen
  <2>4. Seen(c) # NULL /\ Seen(c).owner \in {NULL, p}
    BY <1>1, <1>4, SeenSome DEF Seen
  <2>5. Abs!Lock(n, p)
    BY <2>2, <2>3, <2>4 DEF Abs!Lock, Abs!Exists
  <2> QED
    BY <2>5
<1> QED
  BY <1>3, <1>4 DEF TryLock

(* unlockRegion is Unlock. *)
LEMMA UnlockAbs ==
  ASSUME Inv, Inv', Calls, NEW p \in Procs, NEW n \in Names, unlockRegion(p, n)
  PROVE  Abs!Unlock(n)
<1>1. PICK c \in ctable : /\ name[c] = n /\ lock_by[c] = p
                         /\ lock_by' = [lock_by EXCEPT ![c] = NULL]
  BY DEF unlockRegion, getContextByHandle, ByName
<1>2. /\ TypeOK /\ UniqueNames /\ UniqueNames'
      /\ UNCHANGED <<ctable, name, persist, empty, refcnt>>
  BY DEF Inv, Core, unlockRegion
<1>3. lock_by'[c] = NULL /\ \A d \in Ctxs \ {c} : lock_by'[d] = lock_by[d]
  BY <1>1, <1>2 DEF TypeOK
<1>4. /\ RegionOf(n) = Seen(c)
      /\ \A m \in Names :
           RegionOf(m)' = IF m = n THEN Seen(c)' ELSE RegionOf(m)
  BY <1>1, <1>2, <1>3, ChangedAbs
<1>5. Seen(c)' = [Seen(c) EXCEPT !.owner = NULL]
  BY <1>2, <1>3 DEF Seen
<1>6. Seen(c) # NULL /\ Seen(c).owner # NULL
  BY <1>1, <1>2, SeenSome, ShmAssumption DEF Seen
<1> QED
  BY <1>4, <1>5, <1>6 DEF Abs!Unlock, Abs!Exists

(* Every other step of a call is unseen. *)
LEMMA CallAbs ==
  ASSUME Inv, Inv', Calls, NEW p \in Procs, Call(p)
  PROVE  Abs!Next \/ UNCHANGED [n \in Names |-> RegionOf(n)]
<1>1. ASSUME NEW n \in Names, NEW keep \in BOOLEAN, NEW zero \in BOOLEAN,
             createSharedRegion(p, n, keep, zero)
      PROVE  Abs!Next
  BY <1>1, CreateAbs DEF Abs!Next
<1>2. ASSUME NEW n \in Names, destroySharedRegion(p, n) PROVE Abs!Next
  BY <1>2, DestroyAbs DEF Abs!Next
<1>3. ASSUME NEW n \in Names, createMapping(p, n) PROVE Abs!Next
  <2>1. PICK c \in ctable : \E r : AddRef(c, p, r)
    BY <1>3 DEF createMapping, ByName
  <2>2. UNCHANGED <<ctable, name, persist, empty, lock_by>>
    BY <1>3 DEF createMapping
  <2> QED
    BY <2>1, <2>2, AttachAbs DEF Abs!Next
<1>4. ASSUME NEW n \in Names, destroyMapping(p, n) \/ FailedLookup(p, n)
      PROVE  UNCHANGED [m \in Names |-> RegionOf(m)]
  BY <1>4, Unseen DEF destroyMapping, FailedLookup, ctxvars
<1>5. ASSUME NEW n \in Names, lockRegion(p, n)
      PROVE  Abs!Next \/ UNCHANGED [m \in Names |-> RegionOf(m)]
  <2>1. PICK c \in ctable : TryLock(p, c)
    BY <1>5 DEF lockRegion, getContextByHandle, ByName
  <2>2. UNCHANGED <<ctable, name, persist, empty, refcnt>>
    BY <1>5 DEF lockRegion
  <2> QED
    BY <2>1, <2>2, LockAbs DEF Abs!Next
<1>6. ASSUME NEW n \in Names, unlockRegion(p, n) PROVE Abs!Next
  BY <1>6, UnlockAbs DEF Abs!Next
<1>7. ASSUME NEW q \in Procs, Spawn(p, q) \/ ForkBegin(p, q)
      PROVE  UNCHANGED [m \in Names |-> RegionOf(m)]
  BY <1>7, Unseen DEF Spawn, ForkBegin, ctxvars
<1>8. CASE ExitBegin(p)
  BY <1>8, Unseen DEF ExitBegin, ctxvars
<1> QED
  BY <1>1, <1>2, <1>3, <1>4, <1>5, <1>6, <1>7, <1>8 DEF Call

(* So is every other step of the rest of a call. *)
LEMMA ContinueAbs ==
  ASSUME Inv, Inv', Calls, NEW p \in Procs, Continue(p)
  PROVE  Abs!Next \/ UNCHANGED [n \in Names |-> RegionOf(n)]
<1>1. CASE UnmapUnref(p) \/ ExitUnref(p)
  <2>1. PICK at \in Leaving :
           \E next, force : DropRef(p, at, next, force)
    BY <1>1 DEF UnmapUnref, ExitUnref, Leaving
  <2> QED
    BY <2>1, DetachAbs DEF Abs!Next
<1>2. CASE LockWake(p)
  <2>1. lctx[p] \in ctable /\ TryLock(p, lctx[p])
    BY <1>2 DEF LockWake, Inv, Core, NoDangling
  <2>2. UNCHANGED <<ctable, name, persist, empty, refcnt>>
    BY <1>2 DEF LockWake
  <2> QED
    BY <2>1, <2>2, LockAbs DEF Abs!Next
<1>3. CASE ForkCopy(p)
  <2>1. PICK r \in todo[p] : \E s : AddRef(store[r], child[p], s)
    BY <1>3 DEF ForkCopy
  <2>2. store[r] \in ctable
    BY <1>3, TodoRegs DEF ForkCopy, Visiting
  <2>3. UNCHANGED <<ctable, name, persist, empty, lock_by>>
    BY <1>3 DEF ForkCopy
  <2> QED
    BY <2>1, <2>2, <2>3, AttachAbs DEF Abs!Next
<1>4. CASE \/ UnmapStep(p) \/ ExitStep(p) \/ UnmapAllFind(p)
           \/ UnmapAllRemove(p) \/ ExitDone(p)
  BY <1>4, Unseen DEF UnmapStep, ExitStep, UnmapRegion, UnmapAllFind,
     UnmapAllRemove, ExitDone, ctxvars
<1>5. CASE \/ ForkCopyLost(p) \/ ForkDone(p) \/ ForkFail(p)
           \/ ForkAborted(p)
  BY <1>5, Unseen DEF ForkCopyLost, ForkDone, ForkFail, ForkAborted, ctxvars
<1> QED
  BY <1>1, <1>2, <1>3, <1>4, <1>5 DEF Continue

(* The split, interruptible operations of shmms.c implement the atomic     *)
(* ones of SharedRegions, with any number of processes and regions.        *)
THEOREM Refinement == Spec => Implements
<1>1. Init => Abs!Init
  BY SeenNone DEF Init, Abs!Init, ByName
<1>2. Inv /\ Inv' /\ Calls /\ [Next]_vars
        => [Abs!Next]_([n \in Names |-> RegionOf(n)])
  <2> SUFFICES ASSUME Inv, Inv', Calls, [Next]_vars
               PROVE  Abs!Next \/ UNCHANGED [n \in Names |-> RegionOf(n)]
    OBVIOUS
  <2>1. CASE UNCHANGED vars
    BY <2>1, Unseen DEF vars
  <2>2. CASE Next
    BY <2>2, CallAbs, ContinueAbs DEF Next
  <2> QED
    BY <2>1, <2>2
<1> QED
  BY <1>1, <1>2, CallsInvariant, PTL DEF Spec, Implements, Abs!Spec

=============================================================================
