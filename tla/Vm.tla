--------------------------------- MODULE Vm ---------------------------------
(***************************************************************************)
(* Address spaces, page tables, page faults and copy on write:             *)
(* kernel/mm/vm.c, kernel/pgfault.c, arch/x86_64/kernel/mm/vpmap.c, and    *)
(* the layout that proc.c gives a process: code and data from page 0, the  *)
(* heap behind it, the stack at the top.  Addresses are pages.             *)
(*                                                                         *)
(* A process has one thread, so that only its own steps, and its exit,     *)
(* touch its address space; what two processes meet in are the frames.     *)
(* Their counts change under pmem_lock and are read by handleCOW under the *)
(* lock of the page, which a process that exits or forks does not take:    *)
(* the handler is split at every such point.                               *)
(***************************************************************************)
EXTENDS Integers, FiniteSets, Sequences, FiniteSetsExt, SequencesExt

CONSTANTS Procs,
          Frames,        \* physical pages for user memory, as numbers
          N_PTE, N_PDE,  \* entries of a page table and of the page directory
          CodePages, StackPages,
          Stores, StorePages,  \* shared regions, and the pages of each
          SbrkSizes,     \* the increments that sbrk is called with
          LowEnd,        \* bound: a heap that ends there grows no more, and shared
                         \* regions end before it
          Touched,       \* bound: the pages that processes access
          Vals, NULL

ASSUME VmAssumption ==
  /\ IsFiniteSet(Procs) /\ IsFiniteSet(Stores)
  /\ Frames \subseteq Nat /\ IsFiniteSet(Frames)
  /\ {N_PTE, N_PDE, CodePages, StackPages, StorePages, LowEnd} \subseteq Nat \ {0}
  /\ CodePages + StackPages + 1 < N_PTE * N_PDE /\ LowEnd < N_PTE * N_PDE
  /\ SbrkSizes \subseteq Int /\ \A z \in SbrkSizes : LowEnd + z <= N_PTE * N_PDE
  /\ 0 \in Vals /\ Touched \subseteq 0..(N_PTE * N_PDE - 1)
  /\ NULL \notin Procs \cup Frames \cup Stores \cup [f : Frames, w : BOOLEAN]

VPages == 0..(N_PTE * N_PDE - 1)
USTACK_UPPERBOUND == N_PTE * N_PDE - 1  \* the last page is left out, as there
USTACK_LOWERBOUND == USTACK_UPPERBOUND - StackPages

VARIABLES
  regions,   \* as->regions, in list order; empty without a process
  pt,        \* the page table: frame and write permission of a page
  refcnt,    \* page->refcnt; a frame without references is free
  content,
  cached,    \* store->cached_pages
  lock,      \* the holder of page->lock
  pc, fault, \* where a process is; the fault handleCOW handles
  cp,        \* the frame handleCOW looked up and has locked
  panicked,
  overlaid   \* history: a zeroed page has been mapped over a present one, or
             \* the heap has grown over part of another region

vars == <<regions, pt, refcnt, content, cached, lock, pc, fault, cp, panicked,
          overlaid>>

PTX(v) == v % N_PTE
PDX(v) == v \div N_PTE

None == -1
NoFault == [v |-> 0, user |-> TRUE]
Goto(p, to) == pc' = [pc EXCEPT ![p] = to]
Return(p) ==
  /\ pc' = [pc EXCEPT ![p] = "run"]
  /\ fault' = [fault EXCEPT ![p] = NoFault]
Alive(p) == regions[p] # <<>>

-----------------------------------------------------------------------------
(* Regions of an address space *)

Region(a, b, perm, s, heap) ==
  [start |-> a, end |-> b, perm |-> perm, store |-> s, heap |-> heap]

Inside(r) == r.start..(r.end - 1)

(* The first region that holds all of the range, or none. *)
as_find_memregion(p, addr, size) ==
  LET R == {i \in DOMAIN regions[p] :
              addr >= regions[p][i].start /\ addr + size <= regions[p][i].end}
  IN  IF R = {} THEN None ELSE Min(R)

(* First fit, between regions in list order and then below the stack. *)
find_free_vaddr(rs, size) ==
  LET After(i) == IF i = 1 THEN 0 ELSE rs[i - 1].end
      Fits == {i \in DOMAIN rs : After(i) + size < rs[i].start}
      last == After(Len(rs) + 1)
  IN  IF Fits # {} THEN After(Min(Fits))
      ELSE IF last + size < USTACK_LOWERBOUND - size THEN last
      ELSE None

memregion_allocated(rs, a, b) ==
  \E i \in DOMAIN rs : a < rs[i].end /\ b > rs[i].start

(* list_append_ordered with memregion_comparator *)
Linked(rs, r) ==
  LET Later == {i \in DOMAIN rs : rs[i].start >= r.end}
  IN  InsertAt(rs, IF Later = {} THEN Len(rs) + 1 ELSE Min(Later), r)

-----------------------------------------------------------------------------
(* Page tables *)

(* The entries that unmap_pd and its callers clear for start..end. *)
Cleared(start, end) ==
  LET Tables == PDX(start)..((IF PDX(start) < PDX(end) THEN N_PDE ELSE PDX(end) + 1) - 1)
      First(d) == IF d = PDX(start) THEN PTX(start) ELSE 0
      Limit(d) == IF First(d) < PTX(end) THEN N_PTE ELSE PTX(end) + 1
  IN  {v \in VPages : /\ PDX(v) \in Tables
                      /\ PTX(v) \in First(PDX(v))..(Limit(PDX(v)) - 1)}

Mapped(p, f) == {v \in VPages : pt[p][v] # NULL /\ pt[p][v].f = f}

Free == {f \in Frames : refcnt[f] = 0}

(* Some free frame.  No property tells frames apart, so there is one       *)
(* choice: where there is one, a frame numbered like the page it is for.   *)
pmem_alloc(v) ==
  LET Like == {f \in Free : f % Cardinality(VPages) = v}
  IN  Min(IF Like # {} THEN Like ELSE Free)

(* Counts and contents once the frames have cnt references; what is in a   *)
(* free frame does not matter.                                             *)
SetCounts(cnt) ==
  /\ refcnt' = cnt
  /\ content' = [f \in Frames |-> IF cnt[f] = 0 THEN 0 ELSE content[f]]

(* clear_pte on the pages of S *)
ClearPtes(p, S) ==
  /\ pt' = [pt EXCEPT ![p] = [v \in VPages |-> IF v \in S THEN NULL ELSE pt[p][v]]]
  /\ SetCounts([f \in Frames |-> refcnt[f] - Cardinality(Mapped(p, f) \cap S)])

Pte(f, w) == [f |-> f, w |-> w]

-----------------------------------------------------------------------------
(* Processes: proc_spawn, proc_fork, proc_exit *)

(* Code and data are paged in, the stack has its top page. *)
proc_spawn(p) ==
  LET code  == Region(0, CodePages, "URW", NULL, FALSE)
      h     == find_free_vaddr(<<code>>, 0)
      heap  == Region(h, h, "URW", NULL, TRUE)
      stack == Region(USTACK_LOWERBOUND, USTACK_UPPERBOUND, "URW", NULL, FALSE)
      In    == 0..(CodePages - 1) \cup {USTACK_UPPERBOUND - 1}
  IN
  /\ ~Alive(p) /\ pc[p] = "run"
  /\ Free # {}
  /\ regions' = [regions EXCEPT ![p] = Linked(Linked(<<code>>, heap), stack)]
  /\ LET At == [v \in In |-> pmem_alloc(v)]
         New == {At[v] : v \in In}
     IN
     /\ Cardinality(New) = Cardinality(In)
     /\ pt' = [pt EXCEPT ![p] = [v \in VPages |->
                 IF v \in In THEN Pte(At[v], TRUE) ELSE NULL]]
     /\ refcnt' = [f \in Frames |-> IF f \in New THEN 1 ELSE refcnt[f]]
     /\ lock' = [f \in Frames |-> IF f \in New THEN NULL ELSE lock[f]]
  /\ UNCHANGED <<content, cached, pc, fault, cp, panicked>>

(* as_copy_as: a shared region is mapped again and faults its pages in; a  *)
(* private one is made read-only and its frames are shared.                *)
PrivateOf(rs) == UNION {Inside(rs[i]) : i \in {j \in DOMAIN rs : rs[j].store = NULL}}
SharedOf(rs)  == UNION {Inside(rs[i]) : i \in {j \in DOMAIN rs : rs[j].store # NULL}}

(* Variant: the parent keeps its write permission. *)
ReadOnlyChild(p, S) == pt[p]

ReadOnly(p, S) ==
  [v \in VPages |-> IF v \in S /\ pt[p][v] # NULL THEN [pt[p][v] EXCEPT !.w = FALSE]
                    ELSE pt[p][v]]

(* vpmap_cow_copy of the regions of p into q *)
vpmap_cow_copy(p, q, S) ==
  /\ pt' = [pt EXCEPT ![p] = ReadOnly(p, S),
                      ![q] = [v \in VPages |-> IF v \in S THEN ReadOnly(p, S)[v] ELSE NULL]]
  /\ refcnt' = [f \in Frames |-> refcnt[f] + Cardinality(Mapped(p, f) \cap S)]

proc_fork(p, q) ==
  /\ Alive(p) /\ pc[p] = "run" /\ ~Alive(q) /\ pc[q] = "run"
  /\ regions' = [regions EXCEPT ![q] = regions[p]]
  /\ vpmap_cow_copy(p, q, PrivateOf(regions[p]))
  /\ UNCHANGED <<content, cached, lock, pc, fault, cp, panicked>>

(* A fork that runs out of memory: some regions have been made read-only,  *)
(* and what the child got is given back.                                   *)
proc_forkFails(p) ==
  /\ Alive(p) /\ pc[p] = "run"
  /\ \E i \in DOMAIN regions[p] :
       pt' = [pt EXCEPT ![p] = ReadOnly(p, PrivateOf(SubSeq(regions[p], 1, i)))]
  /\ UNCHANGED <<regions, refcnt, content, cached, lock, pc, fault, cp, panicked>>

(* vpmap_destroy clears every user page; the regions go with it. *)
as_destroy(p) ==
  /\ ClearPtes(p, Cleared(0, USTACK_UPPERBOUND))
  /\ regions' = [regions EXCEPT ![p] = <<>>]
  /\ Return(p)
  /\ UNCHANGED <<cached, lock, cp, panicked>>

proc_exit(p) == Alive(p) /\ pc[p] = "run" /\ as_destroy(p)

-----------------------------------------------------------------------------
(* Shared regions: as_map_memregion at ADDR_ANYWHERE, memregion_unmap *)

as_map_memregion(p, s) ==
  LET rs == regions[p]
      a  == find_free_vaddr(rs, StorePages)
  IN
  /\ Alive(p) /\ pc[p] = "run"
  /\ \A i \in DOMAIN rs : rs[i].store # s
  /\ a # None /\ ~memregion_allocated(rs, a, a + StorePages)
  /\ a + StorePages <= LowEnd
  /\ regions' = [regions EXCEPT ![p] =
                   Linked(rs, Region(a, a + StorePages, "URW", s, FALSE))]
  /\ UNCHANGED <<pt, refcnt, content, cached, lock, pc, fault, cp, panicked>>

memregion_unmap(p, i) ==
  LET r == regions[p][i] IN
  /\ Alive(p) /\ pc[p] = "run" /\ r.store # NULL
  /\ ClearPtes(p, Cleared(r.start, r.end))
  /\ regions' = [regions EXCEPT ![p] = RemoveAt(@, i)]
  /\ UNCHANGED <<cached, lock, pc, fault, cp, panicked>>

HeapOf(p) == CHOOSE i \in DOMAIN regions[p] : regions[p][i].heap

(* The range a..b-1 has pages of a region that does not hold all of it. *)
Straddles(rs, a, b) ==
  \E i \in DOMAIN rs : /\ memregion_allocated(<<rs[i]>>, a, b)
                       /\ ~(a >= rs[i].start /\ b <= rs[i].end)

(* Variant: the extension is not compared with the other regions. *)
memregion_extendBlind(p, size) ==
  LET h == HeapOf(p)
      r == regions[p][h]
  IN
  /\ Alive(p) /\ pc[p] = "run"
  /\ size > 0 => r.end < LowEnd
  /\ regions' = [regions EXCEPT ![p][h].end = IF r.end - r.start >= -size THEN @ + size ELSE @]
  /\ overlaid' = (size > 0 /\ Straddles(regions[p], r.end, r.end + size))
  /\ UNCHANGED <<pt, refcnt, content, cached, lock, pc, fault, cp, panicked>>

(* sbrk.  The extension conflicts with a region that holds all of it; a    *)
(* heap that shrinks keeps its pages.                                      *)
memregion_extend(p, size) ==
  LET h == HeapOf(p)
      r == regions[p][h]
  IN
  /\ Alive(p) /\ pc[p] = "run"
  /\ size > 0 => r.end < LowEnd
  /\ size > 0 => as_find_memregion(p, r.end, size) \in {None, h}
  /\ regions' = [regions EXCEPT ![p][h].end = IF r.end - r.start >= -size THEN @ + size ELSE @]
  /\ overlaid' = (size > 0 /\ Straddles(regions[p], r.end, r.end + size))
  /\ UNCHANGED <<pt, refcnt, content, cached, lock, pc, fault, cp, panicked>>

-----------------------------------------------------------------------------
(* Accesses, and the faults they take *)

Write(p, v, x) ==
  /\ Alive(p) /\ pc[p] = "run"
  /\ pt[p][v] # NULL /\ pt[p][v].w
  /\ content' = [content EXCEPT ![pt[p][v].f] = x]
  /\ UNCHANGED <<regions, pt, refcnt, cached, lock, pc, fault, cp, panicked>>

(* setup_page: a zeroed frame for a page of the stack or the heap; any     *)
(* other access, and a lack of memory, ends the process, and the kernel    *)
(* when it is the kernel's access.                                         *)
setup_page(p, v, user) ==
  LET r == regions[p][as_find_memregion(p, v, 1)]
      grows == r.end = USTACK_UPPERBOUND \/ r.heap
  IN
  \/ /\ ~user
     /\ panicked' = TRUE
     /\ UNCHANGED <<regions, pt, refcnt, content, cached, lock, pc, fault, cp>>
  \/ /\ user /\ grows /\ Free # {}
     /\ pt' = [pt EXCEPT ![p][v] = Pte(pmem_alloc(v), TRUE)]
     /\ refcnt' = [refcnt EXCEPT ![pmem_alloc(v)] = 1]
     /\ lock' = [lock EXCEPT ![pmem_alloc(v)] = NULL]
     /\ Return(p)
     /\ UNCHANGED <<regions, content, cached, cp, panicked>>
  \/ user /\ (~grows \/ Free = {}) /\ as_destroy(p)

(* The page of a shared region comes from the page cache or is allocated,  *)
(* with one reference of the cache and one of this mapping.                *)
CachedAt(p, v) ==
  LET r == regions[p][as_find_memregion(p, v, 1)] IN <<r.store, v - r.start>>

handleSharedRegion(p, v) ==
  LET o == CachedAt(p, v)
      f == IF cached[o] # NULL THEN cached[o] ELSE pmem_alloc(v)
  IN
  /\ cached' = [cached EXCEPT ![o] = f]
  /\ pt' = [pt EXCEPT ![p][v] = Pte(f, TRUE)]
  /\ refcnt' = [refcnt EXCEPT ![f] = IF cached[o] = NULL THEN 2 ELSE @ + 1]
  /\ lock' = [lock EXCEPT ![f] = IF cached[o] = NULL THEN NULL ELSE @]
  /\ UNCHANGED <<regions, content, pc, fault, cp, panicked>>

(* The handler as far as the lock that handleCOW waits for: until then it  *)
(* touches what is the process's own, or what pmem_lock and pgcache_lock   *)
(* make atomic.                                                            *)
handle_page_fault(p, v, write, user) ==
  LET i == as_find_memregion(p, v, 1)
      shared == regions[p][i].store # NULL
      served == shared /\ (cached[CachedAt(p, v)] # NULL \/ Free # {})
      cow    == pt[p][v] # NULL /\ write
  IN
  \/ i = None /\ as_destroy(p)
  \/ i # None /\ served /\ handleSharedRegion(p, v)
  \/ /\ i # None /\ ~served /\ cow
     /\ fault' = [fault EXCEPT ![p] = [v |-> v, user |-> user]]
     /\ Goto(p, "cow")
     /\ UNCHANGED <<regions, pt, refcnt, content, cached, lock, cp, panicked>>
  \/ i # None /\ ~served /\ ~cow /\ setup_page(p, v, user)

(* user: the access is the process's own, not one of a system call, which  *)
(* checks that its buffer lies in a region.                                *)
Fault(p, v, write, user) ==
  /\ Alive(p) /\ pc[p] = "run"
  /\ ~(pt[p][v] # NULL /\ (write => pt[p][v].w))
  /\ ~user => as_find_memregion(p, v, 1) # None
  /\ handle_page_fault(p, v, write, user)

(* handleCOW under the lock of the page: the last user gets the frame,     *)
(* another maps a copy, if there is a frame for it.  The count may change  *)
(* between the lock and the test: as if the lock were taken later.         *)
LastUser(p, f) ==
  /\ pt' = [pt EXCEPT ![p][fault[p].v].w = TRUE]
  /\ Goto(p, "unlock")
  /\ lock' = [lock EXCEPT ![f] = p]
  /\ UNCHANGED <<refcnt, content>>

CopyFrame(p, f) ==
  LET new == pmem_alloc(fault[p].v) IN
  /\ pt' = [pt EXCEPT ![p][fault[p].v] = Pte(new, TRUE)]
  /\ refcnt' = [refcnt EXCEPT ![new] = 1]
  /\ content' = [content EXCEPT ![new] = content[f]]
  /\ lock' = [lock EXCEPT ![new] = NULL, ![f] = p]
  /\ Goto(p, "mapped")

handleCOW(p) ==
  LET f == pt[p][fault[p].v].f IN
  /\ pc[p] = "cow" /\ lock[f] = NULL
  /\ cp' = [cp EXCEPT ![p] = f]
  /\ \/ refcnt[f] = 1 /\ LastUser(p, f)
     \/ refcnt[f] # 1 /\ Free # {} /\ CopyFrame(p, f)
     \/ /\ refcnt[f] # 1 /\ Free = {}
        /\ lock' = [lock EXCEPT ![f] = p]
        /\ Goto(p, "failed")
        /\ UNCHANGED <<pt, refcnt, content>>
  /\ UNCHANGED <<regions, cached, fault, panicked>>

(* Variant: the reference to the replaced frame is kept. *)
CowDropKeep(p) ==
  /\ pc[p] = "mapped"
  /\ Goto(p, "unlock")
  /\ UNCHANGED <<regions, pt, refcnt, content, cached, lock, fault, cp, panicked>>

(* Then the old frame loses this process's reference ... *)
CowDrop(p) ==
  /\ pc[p] = "mapped"
  /\ SetCounts([refcnt EXCEPT ![cp[p]] = @ - 1])
  /\ Goto(p, "unlock")
  /\ UNCHANGED <<regions, pt, cached, lock, fault, cp, panicked>>

(* Variant: after a copy the lock of the old frame is kept. *)
CowUnlockKeep(p) ==
  /\ pc[p] \in {"unlock", "failed"}
  /\ cp' = [cp EXCEPT ![p] = NULL]
  /\ Return(p)
  /\ UNCHANGED <<regions, pt, refcnt, content, cached, lock, panicked>>

(* ... and its lock is released, which asserts that it is held: a frame    *)
(* that CowDrop freed may have been allocated and its lock made anew.      *)
CowUnlock(p) ==
  LET f == cp[p] IN
  /\ pc[p] \in {"unlock", "failed"}
  /\ \/ /\ lock[f] = p
        /\ lock' = [lock EXCEPT ![f] = NULL]
        /\ UNCHANGED panicked
     \/ lock[f] # p /\ panicked' = TRUE /\ UNCHANGED lock
  /\ cp' = [cp EXCEPT ![p] = NULL]
  /\ \/ pc[p] = "failed" /\ Goto(p, "setup") /\ UNCHANGED fault
     \/ pc[p] = "unlock" /\ Return(p)
  /\ UNCHANGED <<regions, pt, refcnt, content, cached>>

(* No memory for a copy: the handler goes on as if there were no page, and *)
(* a frame that has become free meanwhile takes the place of the page,     *)
(* whose contents and reference are lost.                                  *)
AfterCOW(p) ==
  /\ pc[p] = "setup"
  /\ setup_page(p, fault[p].v, fault[p].user)
  /\ overlaid' = (Alive(p)' /\ ~panicked')

-----------------------------------------------------------------------------
SharedPages == Stores \X (0..(StorePages - 1))

Init ==
  /\ regions = [p \in Procs |-> <<>>]
  /\ pt = [p \in Procs |-> [v \in VPages |-> NULL]]
  /\ refcnt = [f \in Frames |-> 0]
  /\ content = [f \in Frames |-> 0]
  /\ cached = [o \in SharedPages |-> NULL]
  /\ lock = [f \in Frames |-> NULL]
  /\ pc = [p \in Procs |-> "run"]
  /\ fault = [p \in Procs |-> NoFault]
  /\ cp = [p \in Procs |-> NULL]
  /\ panicked = FALSE
  /\ overlaid = FALSE

Step(p) ==
  \/ AfterCOW(p)
  \/ (handleCOW(p) \/ CowDrop(p) \/ CowUnlock(p)) /\ UNCHANGED overlaid

Call(p) ==
  \/ proc_spawn(p) \/ proc_exit(p) \/ proc_forkFails(p)
  \/ \E q \in Procs \ {p} : proc_fork(p, q)
  \/ \E s \in Stores : as_map_memregion(p, s)
  \/ \E i \in DOMAIN regions[p] : memregion_unmap(p, i)

Access(p) ==
  \E v \in Touched : \/ \E x \in Vals : Write(p, v, x)
                     \/ \E write, user \in BOOLEAN : Fault(p, v, write, user)

(* A page is still mapped that no region holds any more. *)
LeftBehind(p) ==
  \E v \in VPages : /\ pt[p][v] # NULL
                    /\ \A i \in DOMAIN regions[p] : v \notin Inside(regions[p][i])

(* Nothing is said of what comes after a panic, an overlaid page or region *)
(* or a page left behind.                                                  *)
Next ==
  /\ ~panicked /\ ~overlaid
  /\ \A p \in Procs : ~LeftBehind(p)
  /\ \E p \in Procs : \/ Step(p)
                      \/ (Call(p) \/ Access(p)) /\ UNCHANGED overlaid
                      \/ \E size \in SbrkSizes : memregion_extend(p, size)

Spec == Init /\ [][Next]_vars

-----------------------------------------------------------------------------
(* Properties *)

(* Every variable has its type. *)
TypeOK ==
  /\ \A p \in Procs : \A i \in DOMAIN regions[p] :
       regions[p][i].start \in VPages /\ regions[p][i].end \in VPages
  /\ pt \in [Procs -> [VPages -> [f : Frames, w : BOOLEAN] \cup {NULL}]]
  /\ refcnt \in [Frames -> Nat]
  /\ content \in [Frames -> Vals]
  /\ cached \in [SharedPages -> Frames \cup {NULL}]
  /\ lock \in [Frames -> Procs \cup {NULL}]
  /\ cp \in [Procs -> Frames \cup {NULL}]
  /\ panicked \in BOOLEAN /\ overlaid \in BOOLEAN

(* References to f: page table entries, the page cache, the frame that     *)
(* handleCOW has replaced and not dropped.                                 *)
Users(f) ==
  Cardinality({m \in Procs \X VPages : pt[m[1]][m[2]] # NULL /\ pt[m[1]][m[2]].f = f})
  + Cardinality({o \in SharedPages : cached[o] = f})
  + Cardinality({p \in Procs : pc[p] = "mapped" /\ cp[p] = f})

(* A frame is counted as often as it is used, through forks, faults, exits *)
(* and unmappings in any order: it is never freed while it is mapped, and  *)
(* never lost, unless a page is overlaid.                                  *)
RefcntExact == overlaid \/ \A f \in Frames : refcnt[f] = Users(f)

(* A private page that a process may write is nobody else's frame: the     *)
(* decision of handleCOW on a count that others change is still right when *)
(* it takes effect.                                                        *)
WritableAlone ==
  \A p \in Procs : \A v \in PrivateOf(regions[p]) \ SharedOf(regions[p]) :
    pt[p][v] # NULL /\ pt[p][v].w => Users(pt[p][v].f) = 1

(* A mapped page of a shared region is the page of the page cache, so that *)
(* all processes see one memory.                                           *)
SharedSeen ==
  \A p \in Procs : \A i \in DOMAIN regions[p] :
    LET r == regions[p][i] IN
    r.store # NULL =>
      \A v \in Inside(r) :
        pt[p][v] # NULL => pt[p][v].f = cached[<<r.store, v - r.start>>]

(* The regions of an address space are in order of address and disjoint,   *)
(* as find_free_vaddr takes for granted, through mappings, unmappings and  *)
(* a heap that grows and shrinks; but for an extension across the bounds   *)
(* of a region.                                                            *)
Apart ==
  \A p \in Procs : \A i, j \in DOMAIN regions[p] :
    i < j => regions[p][i].end <= regions[p][j].start

RegionsApart == overlaid \/ Apart

(* What a process sees in its private pages and in the shared ones. *)
MemView == [p \in Procs |-> [v \in VPages |->
  IF pt[p][v] # NULL /\ v \in PrivateOf(regions[p]) \ SharedOf(regions[p])
  THEN content[pt[p][v].f] ELSE 0]]
StoreView == [o \in SharedPages |->
  IF cached[o] = NULL THEN 0 ELSE content[cached[o]]]

Memory == INSTANCE ForkMemory WITH
  dom <- [p \in Procs |-> PrivateOf(regions[p])], mem <- MemView, store <- StoreView

(* Copy on write and paging on demand give each process a memory of its    *)
(* own and copy it at a fork; to overlay a page is to write zeros to it.   *)
Implements == Memory!Spec

(* The lock of a page is held by a process that is in handleCOW for that   *)
(* page and waits for nothing: who waits for the lock waits in vain never. *)
LockHeld ==
  \A f \in Frames : lock[f] # NULL =>
    pc[lock[f]] \in {"mapped", "unlock", "failed"} /\ cp[lock[f]] = f

(* Copy on write over page faults of processes that share frames: a page   *)
(* that may be written is its process's own or the shared region's, and    *)
(* the page lock that orders the decisions is always given back.           *)
CowSound == TypeOK /\ WritableAlone /\ SharedSeen /\ LockHeld

(* vm.h: memregion_extend refuses an extension that overlaps with other    *)
(* regions.  It does not hold for one that no region holds completely.     *)
OverlapRefused == Apart

(* unmap_pages unmaps up to the end of a region, exclusive, and pages go   *)
(* with their region.  It does not hold: unmap_pd misses those of a region *)
(* that ends with a page table, and a heap that shrinks keeps its pages.   *)
PagesGo == \A p \in Procs : ~LeftBehind(p)

(* What sleeplock_release asserts and handle_page_fault takes for granted. *)
NoPanic == ~panicked

=============================================================================
