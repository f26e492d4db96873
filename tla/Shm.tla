--------------------------------- MODULE Shm ---------------------------------
(***************************************************************************)
(* Named shared memory: kernel/fs/shmms.c, together with the parts of      *)
(* kernel/mm/vm.c (as_destroy, as_copy_as, memregion_copy_internal,        *)
(* memregion_unmap) and kernel/proc.c (fork, exit) that call into it.      *)
(*                                                                         *)
(* A process of the kernel has one thread and one address space, so a      *)
(* member of Procs stands for all three.  A section of code that runs      *)
(* under ctable_lock without sleeping is one step.  destroyMapping and     *)
(* unmapAll leave the lock between removing the reverse mapping and        *)
(* dropping the reference, so each of them is several steps.               *)
(*                                                                         *)
(* unmapAll walks and edits a region's rmap list WITHOUT ctable_lock (its  *)
(* caller holds only its own as_lock).  The walk is therefore a window of  *)
(* two steps (pc "find"), and any access to the same list in the window    *)
(* puts the context in torn.  What a torn list leads to is undefined; the  *)
(* model describes no step after one.                                      *)
(***************************************************************************)
EXTENDS Integers, FiniteSets, Sequences

CONSTANTS Procs,   \* processes, over the whole run: a pid is not reused
          Names,   \* region names
          Ctxs,    \* objects of ctx_allocator
          Regs,    \* objects of memregion_allocator
          NULL

ASSUME ShmAssumption ==
  /\ IsFiniteSet(Procs)
  /\ IsFiniteSet(Regs)
  /\ NULL \notin Procs \cup Ctxs \cup Regs \cup Names

VARIABLES
  ctable,    \* contexts linked in the context table
  name,      \* smemcontext.name
  persist,   \* the contexts with RS_PERSIST in smemcontext.flag
  empty,     \* the contexts whose mappings have no byte (size * PG_SIZE = 0)
  refcnt,    \* smemcontext.refcnt
  lock_by,   \* smemcontext.lock_by, NULL for -1
  rmap,      \* smemcontext.store->rmap.regions: the memregions of its nodes
  as,        \* memregion.as, NULL while the memregion is not allocated
  store,     \* the context behind memregion.store
  waiters,   \* wait_cv.waiters: one queue for all the regions
  pc,        \* where each process is
  lctx,      \* the context pointer a process keeps in a local variable
  lmr,       \* the memregion pointer a process keeps in a local variable
  todo,      \* regions a fork or an exit has still to visit
  child,     \* the process that a fork is building
  torn       \* contexts whose rmap list was accessed during an unlocked walk

ctxvars  == <<ctable, name, persist, empty, refcnt, lock_by, rmap>>
regvars  == <<as, store>>
procvars == <<pc, lctx, lmr, todo, child>>
vars     == <<ctable, name, persist, empty, refcnt, lock_by, rmap, as, store,
              waiters, pc, lctx, lmr, todo, child, torn>>

PCs == {"unborn", "embryo", "run", "unmap1", "unmap2", "lock", "fork",
        "abort", "exit", "find", "exit1", "exit2", "dead"}

-----------------------------------------------------------------------------

RegionsOf(p) == {r \in Regs : as[r] = p}

Mapped(c, p) == \E r \in rmap[c] : as[r] = p

(* Contexts that getContextByHandle finds: by name only (REG_ANY), or only *)
(* if the calling address space maps it (REG_MAPPED).                      *)
ByName(n)           == {c \in ctable : name[c] = n}
getContextByHandle(n, p) == {c \in ByName(n) : Mapped(c, p)}

(* Some process is inside the unlocked walk of c's rmap list. *)
Walked(c) == \E q \in Procs : pc[q] = "find" /\ lctx[q] = c

(* An access to c's rmap list by a process that holds ctable_lock. *)
Touch(c) == torn' = IF Walked(c) THEN torn \cup {c} ELSE torn

-----------------------------------------------------------------------------
(* createSharedRegion, destroySharedRegion *)

(* Any size is taken; a mapping of none, or of one whose product with the *)
(* page size is zero in an int, starts and ends at one address.            *)
createSharedRegion(p, n, keep, zero) ==
  /\ pc[p] = "run"
  /\ ByName(n) = {}
  /\ \E c \in Ctxs \ ctable :
       /\ ctable'  = ctable \cup {c}
       /\ name'    = [name EXCEPT ![c] = n]
       /\ persist' = IF keep THEN persist \cup {c} ELSE persist \ {c}
       /\ empty'   = IF zero THEN empty \cup {c} ELSE empty \ {c}
       /\ refcnt'  = [refcnt EXCEPT ![c] = 0]
       /\ lock_by' = [lock_by EXCEPT ![c] = NULL]
       /\ rmap'    = [rmap EXCEPT ![c] = {}]
  /\ UNCHANGED <<regvars, waiters, procvars, torn>>

(* destroySharedRegion_Internal past its checks: unlink and free.  Nothing *)
(* of a freed context keeps its value.                                     *)
FreeContext(c) ==
  /\ ctable'  = ctable \ {c}
  /\ name'    = [name EXCEPT ![c] = NULL]
  /\ persist' = persist \ {c}
  /\ empty'   = empty \ {c}
  /\ lock_by' = [lock_by EXCEPT ![c] = NULL]

(* Variant: a mapped region is destroyed too. *)
destroySharedRegionMapped(p, n) ==
  /\ pc[p] = "run"
  /\ \E c \in ByName(n) : FreeContext(c)
  /\ UNCHANGED <<refcnt, rmap, regvars, waiters, procvars, torn>>

(* The call forces the destruction of a persistent region (the force flag  *)
(* is the region's own RS_PERSIST bit), so only mappings stop it.          *)
destroySharedRegion(p, n) ==
  /\ pc[p] = "run"
  /\ \E c \in ByName(n) :
       refcnt[c] = 0 /\ FreeContext(c)
  /\ UNCHANGED <<refcnt, rmap, regvars, waiters, procvars, torn>>

-----------------------------------------------------------------------------
(* createMapping, destroyMapping.  The ways they fail (no such region, no  *)
(* memory) leave the tables as they were.                                  *)

(* Variant: the node is appended and not counted. *)
AddRefUncounted(c, p, r) ==
  /\ as'     = [as EXCEPT ![r] = p]
  /\ store'  = [store EXCEPT ![r] = c]
  /\ rmap'   = [rmap EXCEPT ![c] = @ \cup {r}]
  /\ UNCHANGED refcnt
  /\ Touch(c)

(* createMapping_Internal: a node for region r of address space p. *)
AddRef(c, p, r) ==
  /\ as'     = [as EXCEPT ![r] = p]
  /\ store'  = [store EXCEPT ![r] = c]
  /\ rmap'   = [rmap EXCEPT ![c] = @ \cup {r}]
  /\ refcnt' = [refcnt EXCEPT ![c] = @ + 1]
  /\ Touch(c)

createMapping(p, n) ==
  /\ pc[p] = "run"
  /\ \E c \in ByName(n), r \in RegionsOf(NULL) : AddRef(c, p, r)
  /\ UNCHANGED <<ctable, name, persist, empty, lock_by, waiters, procvars>>

(* The nodes that find_remove_rmapping can find for an address space: with *)
(* an address start <= vaddr < end of the mapping.                         *)
find_remove_rmapping(c, p) ==
  {r \in rmap[c] : as[r] = p /\ c \notin empty}

(* Variant: the reference is dropped here and in destroyMapping_Internal. *)
destroyMappingTwice(p, n) ==
  /\ pc[p] = "run"
  /\ \E c \in getContextByHandle(n, p) : \E r \in find_remove_rmapping(c, p) :
       /\ rmap' = [rmap EXCEPT ![c] = @ \ {r}]
       /\ refcnt' = [refcnt EXCEPT ![c] = @ - 1]
       /\ lctx' = [lctx EXCEPT ![p] = c]
       /\ lmr'  = [lmr EXCEPT ![p] = r]
       /\ Touch(c)
  /\ pc' = [pc EXCEPT ![p] = "unmap1"]
  /\ UNCHANGED <<ctable, name, persist, empty, lock_by, regvars, waiters, todo,
                 child>>

(* Variant: the node stays on the list. *)
destroyMappingLeak(p, n) ==
  /\ pc[p] = "run"
  /\ \E c \in getContextByHandle(n, p) : \E r \in find_remove_rmapping(c, p) :
       /\ lctx' = [lctx EXCEPT ![p] = c]
       /\ lmr'  = [lmr EXCEPT ![p] = r]
       /\ Touch(c)
  /\ pc' = [pc EXCEPT ![p] = "unmap1"]
  /\ UNCHANGED <<ctxvars, regvars, waiters, todo, child>>

(* Remove the node under the lock, then let the lock go. *)
destroyMapping(p, n) ==
  /\ pc[p] = "run"
  /\ \E c \in getContextByHandle(n, p) : \E r \in find_remove_rmapping(c, p) :
       /\ rmap' = [rmap EXCEPT ![c] = @ \ {r}]
       /\ lctx' = [lctx EXCEPT ![p] = c]
       /\ lmr'  = [lmr EXCEPT ![p] = r]
       /\ Touch(c)
  /\ pc' = [pc EXCEPT ![p] = "unmap1"]
  /\ UNCHANGED <<ctable, name, persist, empty, refcnt, lock_by, regvars,
                 waiters, todo, child>>

(* destroyMapping_Internal up to memregion_unmap, which frees the region. *)
UnmapRegion(p, at, next) ==
  /\ pc[p] = at
  /\ as'    = [as EXCEPT ![lmr[p]] = NULL]
  /\ store' = [store EXCEPT ![lmr[p]] = NULL]
  /\ lmr'   = [lmr EXCEPT ![p] = NULL]
  /\ pc'    = [pc EXCEPT ![p] = next]
  /\ UNCHANGED <<ctxvars, waiters, lctx, todo, child, torn>>

(* Variants: the context is freed while others map it; although it is      *)
(* persistent.                                                             *)
DropRefShared(p, at, next, force) ==
  LET c == lctx[p] IN
  /\ pc[p] = at
  /\ refcnt' = [refcnt EXCEPT ![c] = @ - 1]
  /\ IF c \notin persist /\ force
     THEN FreeContext(c)
     ELSE UNCHANGED <<ctable, name, persist, empty, lock_by>>
  /\ lctx' = [lctx EXCEPT ![p] = NULL]
  /\ pc' = [pc EXCEPT ![p] = next]
  /\ UNCHANGED <<rmap, regvars, waiters, lmr, todo, child, torn>>

DropRefPersist(p, at, next, force) ==
  LET c == lctx[p] IN
  /\ pc[p] = at
  /\ refcnt' = [refcnt EXCEPT ![c] = @ - 1]
  /\ IF refcnt[c] = 1 /\ force
     THEN FreeContext(c)
     ELSE UNCHANGED <<ctable, name, persist, empty, lock_by>>
  /\ lctx' = [lctx EXCEPT ![p] = NULL]
  /\ pc' = [pc EXCEPT ![p] = next]
  /\ UNCHANGED <<rmap, regvars, waiters, lmr, todo, child, torn>>

(* The rest of destroyMapping_Internal: back under the lock, drop the      *)
(* reference; an exiting process also frees a default region it was the    *)
(* last user of.                                                           *)
DropRef(p, at, next, force) ==
  LET c == lctx[p] IN
  /\ pc[p] = at
  /\ refcnt' = [refcnt EXCEPT ![c] = @ - 1]
  /\ IF refcnt[c] = 1 /\ c \notin persist /\ force
     THEN FreeContext(c)
     ELSE UNCHANGED <<ctable, name, persist, empty, lock_by>>
  /\ lctx' = [lctx EXCEPT ![p] = NULL]
  /\ pc' = [pc EXCEPT ![p] = next]
  /\ UNCHANGED <<rmap, regvars, waiters, lmr, todo, child, torn>>

UnmapStep(p) == UnmapRegion(p, "unmap1", "unmap2")
UnmapUnref(p) == DropRef(p, "unmap2", "run", FALSE)

(* destroyMapping, lockRegion and unlockRegion that return an error (not   *)
(* mapped, no mapping at the address, not the owner) after walking the     *)
(* list.                                                                   *)
FailedLookup(p, n) ==
  /\ pc[p] = "run"
  /\ \E c \in ByName(n) : Touch(c)
  /\ UNCHANGED <<ctxvars, regvars, waiters, procvars>>

-----------------------------------------------------------------------------
(* lockRegion, unlockRegion *)

(* The loop of lockRegion: take a free (or one's own) lock or sleep. *)
TryLock(p, c) ==
  \/ /\ lock_by[c] \in {NULL, p}
     /\ lock_by' = [lock_by EXCEPT ![c] = p]
     /\ lctx' = [lctx EXCEPT ![p] = NULL]
     /\ pc' = [pc EXCEPT ![p] = "run"]
     /\ UNCHANGED waiters
  \/ /\ lock_by[c] \notin {NULL, p}
     /\ waiters' = Append(waiters, p)
     /\ lctx' = [lctx EXCEPT ![p] = c]
     /\ pc' = [pc EXCEPT ![p] = "lock"]
     /\ UNCHANGED lock_by

lockRegion(p, n) ==
  /\ pc[p] = "run"
  /\ \E c \in getContextByHandle(n, p) :
       TryLock(p, c) /\ Touch(c)
  /\ UNCHANGED <<ctable, name, persist, empty, refcnt, rmap, regvars, lmr,
                 todo, child>>

Asleep(p) == \E i \in 1..Len(waiters) : waiters[i] = p

(* Variant: a woken sleeper does not test the lock again. *)
LockWakeOnce(p) ==
  /\ pc[p] = "lock"
  /\ ~Asleep(p)
  /\ lock_by' = [lock_by EXCEPT ![lctx[p]] = p]
  /\ lctx' = [lctx EXCEPT ![p] = NULL]
  /\ pc' = [pc EXCEPT ![p] = "run"]
  /\ UNCHANGED <<ctable, name, persist, empty, refcnt, rmap, regvars, waiters,
                 lmr, todo, child, torn>>

(* A signalled sleeper has the lock again and goes round the loop with the *)
(* context pointer it looked up before it slept.                           *)
LockWake(p) ==
  /\ pc[p] = "lock"
  /\ ~Asleep(p)
  /\ TryLock(p, lctx[p])
  /\ UNCHANGED <<ctable, name, persist, empty, refcnt, rmap, regvars, lmr,
                 todo, child, torn>>

(* condvar_signal wakes the head of the one queue, whichever region it     *)
(* waits for.                                                              *)
unlockRegion(p, n) ==
  /\ pc[p] = "run"
  /\ \E c \in getContextByHandle(n, p) :
       /\ lock_by[c] = p
       /\ lock_by' = [lock_by EXCEPT ![c] = NULL]
       /\ Touch(c)
  /\ waiters' = IF waiters = <<>> THEN waiters ELSE Tail(waiters)
  /\ UNCHANGED <<ctable, name, persist, empty, refcnt, rmap, regvars,
                 procvars>>

-----------------------------------------------------------------------------
(* proc_fork: as_copy_as visits the parent's regions; a shared one is      *)
(* mapped in the child and addContextRef counts it.                        *)

(* proc_spawn: a new process with an address space of its own. *)
Spawn(p, q) ==
  /\ pc[p] = "run" /\ pc[q] = "unborn"
  /\ pc' = [pc EXCEPT ![q] = "run"]
  /\ UNCHANGED <<ctxvars, regvars, waiters, lctx, lmr, todo, child, torn>>

ForkBegin(p, q) ==
  /\ pc[p] = "run" /\ pc[q] = "unborn"
  /\ pc'    = [pc EXCEPT ![p] = "fork", ![q] = "embryo"]
  /\ child' = [child EXCEPT ![p] = q]
  /\ todo'  = [todo EXCEPT ![p] = RegionsOf(p)]
  /\ UNCHANGED <<ctxvars, regvars, waiters, lctx, lmr, torn>>

ForkCopy(p) ==
  /\ pc[p] = "fork"
  /\ \E r \in todo[p], s \in RegionsOf(NULL) :
       /\ AddRef(store[r], child[p], s)
       /\ todo' = [todo EXCEPT ![p] = @ \ {r}]
  /\ UNCHANGED <<ctable, name, persist, empty, lock_by, waiters, pc, lctx, lmr,
                 child>>

(* No memory for the node: addContextRef unmaps the child's region, prints *)
(* a message and lets the fork go on.                                      *)
ForkCopyLost(p) ==
  /\ pc[p] = "fork"
  /\ \E r \in todo[p] : todo' = [todo EXCEPT ![p] = @ \ {r}]
  /\ UNCHANGED <<ctxvars, regvars, waiters, pc, lctx, lmr, child, torn>>

ForkDone(p) ==
  /\ pc[p] = "fork" /\ todo[p] = {}
  /\ pc'    = [pc EXCEPT ![p] = "run", ![child[p]] = "run"]
  /\ child' = [child EXCEPT ![p] = NULL]
  /\ UNCHANGED <<ctxvars, regvars, waiters, lctx, lmr, todo, torn>>

(* No memory for a region, a page table or the thread: the parent destroys *)
(* the child's address space, as the exit of the child would.              *)
ForkFail(p) ==
  /\ pc[p] = "fork"
  /\ pc'   = [pc EXCEPT ![p] = "abort", ![child[p]] = "exit"]
  /\ todo' = [todo EXCEPT ![p] = {}, ![child[p]] = RegionsOf(child[p])]
  /\ UNCHANGED <<ctxvars, regvars, waiters, lctx, lmr, child, torn>>

ForkAborted(p) ==
  /\ pc[p] = "abort" /\ pc[child[p]] = "dead"
  /\ pc'    = [pc EXCEPT ![p] = "run"]
  /\ child' = [child EXCEPT ![p] = NULL]
  /\ UNCHANGED <<ctxvars, regvars, waiters, lctx, lmr, todo, torn>>

-----------------------------------------------------------------------------
(* proc_exit: as_destroy visits every region; unmapAll for a shared one. *)

ExitBegin(p) ==
  /\ pc[p] = "run"
  /\ pc'   = [pc EXCEPT ![p] = "exit"]
  /\ todo' = [todo EXCEPT ![p] = RegionsOf(p)]
  /\ UNCHANGED <<ctxvars, regvars, waiters, lctx, lmr, child, torn>>

(* unmapAll enters find_remove_rmapping without ctable_lock. *)
UnmapAllFind(p) ==
  /\ pc[p] = "exit"
  /\ \E r \in todo[p] :
       /\ todo' = [todo EXCEPT ![p] = @ \ {r}]
       /\ lmr'  = [lmr EXCEPT ![p] = r]
       /\ lctx' = [lctx EXCEPT ![p] = store[r]]
       /\ Touch(store[r])
  /\ pc' = [pc EXCEPT ![p] = "find"]
  /\ UNCHANGED <<ctxvars, regvars, waiters, child>>

(* ... and leaves it, with the node removed or with nothing found: then    *)
(* as_destroy goes on and the region stays.                                *)
UnmapAllRemove(p) ==
  LET found == lmr[p] \in find_remove_rmapping(lctx[p], p) IN
  /\ pc[p] = "find"
  /\ rmap' = [rmap EXCEPT ![lctx[p]] = IF found THEN @ \ {lmr[p]} ELSE @]
  /\ pc' = [pc EXCEPT ![p] = IF found THEN "exit1" ELSE "exit"]
  /\ UNCHANGED <<ctable, name, persist, empty, refcnt, lock_by, regvars,
                 waiters, lctx, lmr, todo, child, torn>>

ExitStep(p) == UnmapRegion(p, "exit1", "exit2")

(* Variant: an exit waits for the other users of the region. *)
ExitUnrefWaits(p) ==
  /\ pc[p] = "exit2" /\ refcnt[lctx[p]] = 1
  /\ DropRef(p, "exit2", "exit", TRUE)

ExitUnref(p) == DropRef(p, "exit2", "exit", TRUE)

(* Variant: the loop of as_destroy stops early. *)
ExitDoneEarly(p) ==
  /\ pc[p] = "exit"
  /\ pc' = [pc EXCEPT ![p] = "dead"]
  /\ UNCHANGED <<ctxvars, regvars, waiters, lctx, lmr, todo, child, torn>>

ExitDone(p) ==
  /\ pc[p] = "exit" /\ todo[p] = {}
  /\ pc' = [pc EXCEPT ![p] = "dead"]
  /\ UNCHANGED <<ctxvars, regvars, waiters, lctx, lmr, todo, child, torn>>

-----------------------------------------------------------------------------

Init ==
  /\ ctable = {}
  /\ name    = [c \in Ctxs |-> NULL]
  /\ persist = {} /\ empty = {}
  /\ refcnt  = [c \in Ctxs |-> 0]
  /\ lock_by = [c \in Ctxs |-> NULL]
  /\ rmap    = [c \in Ctxs |-> {}]
  /\ as      = [r \in Regs |-> NULL]
  /\ store   = [r \in Regs |-> NULL]
  /\ waiters = <<>>
  /\ \E init \in Procs :
       pc = [p \in Procs |-> IF p = init THEN "run" ELSE "unborn"]
  /\ lctx    = [p \in Procs |-> NULL]
  /\ lmr     = [p \in Procs |-> NULL]
  /\ todo    = [p \in Procs |-> {}]
  /\ child   = [p \in Procs |-> NULL]
  /\ torn    = {}

(* The system calls a process chooses to make. *)
Call(p) ==
  \/ \E n \in Names :
       \/ \E keep, zero \in BOOLEAN : createSharedRegion(p, n, keep, zero)
       \/ destroySharedRegion(p, n)
       \/ createMapping(p, n)
       \/ destroyMapping(p, n)
       \/ FailedLookup(p, n)
       \/ lockRegion(p, n)
       \/ unlockRegion(p, n)
  \/ \E q \in Procs : Spawn(p, q) \/ ForkBegin(p, q)
  \/ ExitBegin(p)

(* The kernel going on with a call that is under way. *)
Continue(p) ==
  \/ UnmapStep(p) \/ UnmapUnref(p) \/ LockWake(p)
  \/ ForkCopy(p) \/ ForkCopyLost(p) \/ ForkDone(p) \/ ForkFail(p)
  \/ ForkAborted(p)
  \/ UnmapAllFind(p) \/ UnmapAllRemove(p) \/ ExitStep(p) \/ ExitUnref(p)
  \/ ExitDone(p)

Next == torn = {} /\ \E p \in Procs : Call(p) \/ Continue(p)

Spec == Init /\ [][Next]_vars

(* A runnable thread is scheduled again (timer, round robin), so a call    *)
(* under way goes on; no process is obliged to make a call.                *)
FairSpec == Spec /\ \A p \in Procs : WF_vars(torn = {} /\ Continue(p))

-----------------------------------------------------------------------------
(* Properties *)

(* Every variable has the shape of the C field that it stands for; refcnt, *)
(* an int that only calls in pairs keep above zero, never goes below it.   *)
TypeOK ==
  /\ ctable \subseteq Ctxs
  /\ name \in [Ctxs -> Names \cup {NULL}]
  /\ persist \subseteq Ctxs /\ empty \subseteq Ctxs
  /\ refcnt \in [Ctxs -> Nat]
  /\ lock_by \in [Ctxs -> Procs \cup {NULL}]
  /\ rmap \in [Ctxs -> SUBSET Regs]
  /\ as \in [Regs -> Procs \cup {NULL}]
  /\ store \in [Regs -> Ctxs \cup {NULL}]
  /\ waiters \in Seq(Procs)
  /\ pc \in [Procs -> PCs]
  /\ lctx \in [Procs -> Ctxs \cup {NULL}]
  /\ lmr \in [Procs -> Regs \cup {NULL}]
  /\ todo \in [Procs -> SUBSET Regs]
  /\ child \in [Procs -> Procs \cup {NULL}]
  /\ torn \subseteq Ctxs

(* Where a process has removed its node and not yet dropped the reference  *)
(* the node stood for; Unmapping while the memregion is still allocated.   *)
Unmapping == {"unmap1", "exit1"}
Leaving   == Unmapping \cup {"unmap2", "exit2"}

Pending(c) == {p \in Procs : pc[p] \in Leaving /\ lctx[p] = c}

(* refcnt, which decides when a context is freed, counts exactly the nodes *)
(* of the reverse map plus the unmaps that are between their two locked    *)
(* sections, whatever maps, unmaps, forks and exits overlap.               *)
RefcntExact ==
  \A c \in ctable :
    refcnt[c] = Cardinality(rmap[c]) + Cardinality(Pending(c))

(* No freed context is reachable: not from a memregion (unmapAll and       *)
(* addContextRef follow region->store->info), not from the local variable  *)
(* of a process that sleeps in lockRegion or is between the two halves of  *)
(* an unmap; and a context is freed with an empty reverse map, as the      *)
(* kassert of rmap_destroy demands.                                        *)
NoDangling ==
  /\ \A r \in Regs : as[r] # NULL => store[r] \in ctable
  /\ \A p \in Procs :
       pc[p] \in {"lock", "find"} \cup Leaving => lctx[p] \in ctable
  /\ \A c \in Ctxs \ ctable : rmap[c] = {}

(* The reverse map of a context holds exactly its allocated memregions,    *)
(* but for those whose unmap is under way: an unmap and an exit that look  *)
(* for a node find the one of their region, if its mapping has an address  *)
(* at all, and no node outlives its region.                                *)
RmapExact ==
  \A c \in Ctxs :
    rmap[c] = {r \in Regs :
                 /\ as[r] # NULL /\ store[r] = c
                 /\ \A p \in Procs : pc[p] \in Unmapping => lmr[p] # r}

(* createSharedRegion never makes a second region of a name. *)
UniqueNames == \A c, d \in ctable : name[c] = name[d] => c = d

(* A process that is gone (its struct proc, with the address space inside, *)
(* may be freed by its parent) is named by no memregion and by no reverse  *)
(* map node but those of mappings without a byte, which nothing ever       *)
(* finds, and its thread is in no wait queue.                              *)
DeadLeaveNothing ==
  \A p \in Procs : pc[p] \in {"dead", "unborn"} =>
    /\ \A r \in RegionsOf(p) : store[r] \in empty
    /\ \A c \in Ctxs \ empty : ~Mapped(c, p)
    /\ ~Asleep(p)

(* The wait queue holds exactly sleeping lockers, each once: a thread has  *)
(* one list node, and a second append would corrupt the list.              *)
QueueSound ==
  /\ \A i \in 1..Len(waiters) : pc[waiters[i]] = "lock"
  /\ \A i, j \in 1..Len(waiters) : waiters[i] = waiters[j] => i = j

(* Calls that fail, sleep or end in any order leave nothing wrong behind:  *)
(* names stay unique, a dead process is named by no region that has a byte *)
(* and the one queue of all waiters holds sleeping lockers only.           *)
CallsSound == UniqueNames /\ DeadLeaveNothing /\ QueueSound

(* A held region lock changes hands only when its owner, in a call of its  *)
(* own, unlocks a region it still maps: no waiter ever takes it over, on   *)
(* whatever stale context pointer it wakes up with.                        *)
LockKept ==
  [][\A c \in ctable \cap ctable' :
       (lock_by[c] # NULL /\ lock_by'[c] # lock_by[c]) =>
         /\ lock_by'[c] = NULL
         /\ pc[lock_by[c]] = "run"
         /\ Mapped(c, lock_by[c])]_vars

(* A region goes away only without users; a persistent one only by a call  *)
(* of destroySharedRegion, never because its last user exits.              *)
RegionKept ==
  [][\A c \in ctable \ ctable' :
       /\ rmap[c] = {}
       /\ Pending(c) # {} => /\ c \notin persist
                             /\ Cardinality(Pending(c)) = 1]_vars

(* Exit and unmap, once begun, run to their end. *)
CallsReturn ==
  \A p \in Procs :
    /\ pc[p] = "exit" ~> (pc[p] = "dead" \/ torn # {})
    /\ pc[p] = "unmap1" ~> (pc[p] = "run" \/ torn # {})
    /\ pc[p] = "fork" ~> (pc[p] = "run" \/ torn # {})

(* The context of a name, as SharedRegions sees it. *)
RegionOf(n) ==
  IF ByName(n) = {} THEN NULL
  ELSE LET c == CHOOSE d \in ByName(n) : TRUE
       IN  [persist |-> c \in persist, users |-> refcnt[c],
            owner |-> lock_by[c]]

(* A name that has no region is told from one that has. *)
ASSUME NullAssumption ==
  NULL \notin [persist : BOOLEAN, users : Nat, owner : Procs \cup {NULL}]

Abs == INSTANCE SharedRegions WITH region <- [n \in Names |-> RegionOf(n)]

(* The split, interruptible operations of shmms.c look like the atomic     *)
(* ones of SharedRegions: a reference dropped late is a user that leaves   *)
(* late.                                                                   *)
Implements == Abs!Spec

-----------------------------------------------------------------------------
(* What documentation, comments and tests say and the code does not do *)

(* The design has the ctable spinlock coordinate all the operations; an    *)
(* exit walks the rmap list without it (unmapAll).                         *)
NoRace == torn = {}

(* forgot-destroy-test expects that a default region a process created and *)
(* did not destroy is gone once every process has terminated.              *)
DefaultGone ==
  (\A p \in Procs : pc[p] \in {"dead", "unborn"})
    => ctable \subseteq persist

(* The size of a region can be any: an exit unmaps a region of every size. *)
AnySize ==
  \A p \in Procs : pc[p] = "dead" => RegionsOf(p) = {}

(* lockRegion returns with the lock: a free region goes to a process that  *)
(* waits for it, provided threads that can run do run.                     *)
FreeLockGranted ==
  \A p \in Procs, c \in Ctxs :
    (pc[p] = "lock" /\ lctx[p] = c /\ lock_by[c] = NULL)
      ~> (pc[p] # "lock" \/ lock_by[c] # NULL \/ torn # {})

(* Fork makes a process identical to its parent: the child maps every      *)
(* shared region that its parent maps.                                     *)
ForkIdentical ==
  [][\A p \in Procs : (pc[p] = "fork" /\ pc'[p] = "run") =>
       \A c \in Ctxs : Mapped(c, p) => Mapped(c, child[p])]_vars

=============================================================================
