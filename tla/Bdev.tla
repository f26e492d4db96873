-------------------------------- MODULE Bdev --------------------------------
(***************************************************************************)
(* Blocks of a disk in the page cache: kernel/bdev.c, kernel/bdevms.c,     *)
(* kernel/mm/pgcache.c, and the driver kernel/drivers/ide.c with the       *)
(* interrupt that completes its requests.                                  *)
(*                                                                         *)
(* A thread that waits for a request is the request: it has one bio, and   *)
(* the bdev_request that links it in the queue lies on its stack.  A       *)
(* section under queue_lock, bio->lock or page->lock is one step.  The     *)
(* interrupt handler keeps ide->lock through three of them.  A call that   *)
(* returns for want of memory and changes nothing is left out.             *)
(***************************************************************************)
EXTENDS Integers, FiniteSets, Sequences

CONSTANTS Threads,
          NBlks,             \* blocks of the device
          N_BLKS_PER_PAGE,
          Vals,              \* contents of a block
          NULL

ASSUME BdevAssumption ==
  /\ IsFiniteSet(Threads)
  /\ NBlks \in Nat \ {0} /\ N_BLKS_PER_PAGE \in Nat \ {0}
  /\ NULL \notin Threads

Blks == 0..(NBlks - 1)

VARIABLES
  cached,        \* bdev->store->cached_pages
  pgcache_lock,  \* its holder while a page is being filled
  headers,       \* the blocks whose blk_header is allocated
  ref, dirty,    \* blk_header.ref, the DIRTY bit of blk_header.state
  lock,          \* the holder of blk_header.lock
  page_dirty,    \* pages with PAGE_DIRTY_BIT
  data,          \* contents of the cached pages
  request_queue,
  bio,           \* operation and blocks of a thread's bio, or NULL
  status,        \* bio.status
  cv,            \* threads that sleep on their bio's cv
  ide_status,    \* ide->status
  trap,          \* where the interrupt handler is; it has ide->lock then
  tbio,          \* the bio that the interrupt handler has popped
  cmd, irq,      \* the command the disk executes; its interrupt is pending
  disk,
  pc, cur,       \* where a thread is, and the block it works on
  panicked

cachevars == <<cached, pgcache_lock>>
bhvars    == <<headers, ref, dirty, lock, page_dirty>>
biovars   == <<request_queue, bio, status, cv>>
idevars   == <<ide_status, trap, tbio, cmd, irq, disk>>
vars == <<cached, pgcache_lock, headers, ref, dirty, lock, page_dirty, data,
          request_queue, bio, status, cv, ide_status, trap, tbio, cmd, irq,
          disk, pc, cur, panicked>>

PageOf(b) == b \div N_BLKS_PER_PAGE
PageBlks(b) == {c \in Blks : PageOf(c) = PageOf(b)}

Goto(t, to) == pc' = [pc EXCEPT ![t] = to]

Return(t) == Goto(t, "idle") /\ cur' = [cur EXCEPT ![t] = 0]

-----------------------------------------------------------------------------
(* Getting a block: bdev_get_blk, bdev_get_blk_unlocked *)

(* pgcache_get_page under pgcache_lock: the page is there, or it is read.  *)
(* The lock is kept during the read.                                       *)
pgcache_get_page(t, b) ==
  /\ pc[t] = "idle" /\ pgcache_lock = NULL
  /\ cur' = [cur EXCEPT ![t] = b]
  /\ \/ /\ PageOf(b) \in cached
        /\ Goto(t, "headers")
        /\ UNCHANGED <<pgcache_lock, bio>>
     \/ /\ PageOf(b) \notin cached
        /\ pgcache_lock' = t
        /\ bio' = [bio EXCEPT ![t] = [op |-> "READ", blks |-> PageBlks(b)]]
        /\ Goto(t, "request")
  /\ UNCHANGED <<cached, bhvars, data, request_queue, status, cv, idevars,
                 panicked>>

(* Under page->lock: make the headers of the page if there are none, and   *)
(* take a reference.                                                       *)
bdev_get_blk_unlocked(t) ==
  LET b    == cur[t]
      new  == IF headers \cap PageBlks(b) = {} THEN PageBlks(b) ELSE {}
      ref0 == [c \in Blks |-> IF c \in new THEN 0 ELSE ref[c]]
  IN
  /\ pc[t] = "headers"
  /\ headers' = headers \cup new
  /\ dirty' = dirty \ new
  /\ IF b \in headers'
     THEN /\ ref' = [ref0 EXCEPT ![b] = @ + 1]
          /\ Goto(t, "got")
          /\ UNCHANGED panicked
     ELSE /\ panicked' = TRUE
          /\ UNCHANGED <<ref, pc>>
  /\ UNCHANGED <<cachevars, lock, page_dirty, data, biovars, idevars, cur>>

(* No memory for one of the headers: the ones before it stay. *)
HeadersFail(t) ==
  /\ pc[t] = "headers" /\ headers \cap PageBlks(cur[t]) = {}
  /\ \E first \in PageBlks(cur[t]) :
       LET new == {c \in PageBlks(cur[t]) : c < first} IN
       /\ headers' = headers \cup new
       /\ dirty' = dirty \ new
       /\ ref' = [c \in Blks |-> IF c \in new THEN 0 ELSE ref[c]]
  /\ Return(t)
  /\ UNCHANGED <<cachevars, lock, page_dirty, data, biovars, idevars, panicked>>

(* bdev_get_blk goes on to the lock of the header. *)
bdev_get_blk(t) ==
  /\ pc[t] = "got" /\ lock[cur[t]] = NULL
  /\ lock' = [lock EXCEPT ![cur[t]] = t]
  /\ Goto(t, "held")
  /\ UNCHANGED <<cachevars, headers, ref, dirty, page_dirty, data, biovars,
                 idevars, cur, panicked>>

-----------------------------------------------------------------------------
(* Using a block, with its lock held *)

(* The file system writes to the buffer and calls bdev_set_blk_dirty. *)
bdev_set_blk_dirty(t, v) ==
  /\ pc[t] = "held"
  /\ data' = [data EXCEPT ![cur[t]] = v]
  /\ dirty' = dirty \cup {cur[t]}
  /\ page_dirty' = page_dirty \cup {PageOf(cur[t])}
  /\ UNCHANGED <<cachevars, headers, ref, lock, biovars, idevars, pc, cur,
                 panicked>>

(* bdev_write_blk prepares its bio; WriteDone is the rest of it. *)
bdev_write_blk(t) ==
  /\ pc[t] = "held"
  /\ bio' = [bio EXCEPT ![t] = [op |-> "WRITE", blks |-> {cur[t]}]]
  /\ Goto(t, "request")
  /\ UNCHANGED <<cachevars, bhvars, data, request_queue, status, cv, idevars,
                 cur, panicked>>

bdev_release_blk(t) ==
  /\ pc[t] = "held"
  /\ lock' = [lock EXCEPT ![cur[t]] = NULL]
  /\ Goto(t, "release")
  /\ UNCHANGED <<cachevars, headers, ref, dirty, page_dirty, data, biovars,
                 idevars, cur, panicked>>

(* Variant: the last reference to a block frees the headers of the page. *)
bdev_release_blk_unlockedOne(t) ==
  LET b == cur[t] IN
  /\ pc[t] \in {"got", "release"}
  /\ ref' = [ref EXCEPT ![b] = @ - 1]
  /\ IF ref'[b] = 0 /\ PageOf(b) \notin page_dirty
     THEN headers' = headers \ PageBlks(b)
     ELSE UNCHANGED headers
  /\ Return(t)
  /\ UNCHANGED <<cachevars, dirty, lock, page_dirty, data, biovars, idevars,
                 panicked>>

(* Variant: the headers of a dirty page are freed too. *)
bdev_release_blk_unlockedDirty(t) ==
  LET b == cur[t] IN
  /\ pc[t] \in {"got", "release"}
  /\ ref' = [ref EXCEPT ![b] = @ - 1]
  /\ IF \A c \in PageBlks(b) \cap headers : ref'[c] = 0
     THEN headers' = headers \ PageBlks(b)
     ELSE UNCHANGED headers
  /\ Return(t)
  /\ UNCHANGED <<cachevars, dirty, lock, page_dirty, data, biovars, idevars,
                 panicked>>

(* Under page->lock: the last reference to a page that is clean frees the  *)
(* headers of all its blocks.                                              *)
bdev_release_blk_unlocked(t) ==
  LET b == cur[t] IN
  /\ pc[t] \in {"got", "release"}
  /\ ref' = [ref EXCEPT ![b] = @ - 1]
  /\ IF /\ \A c \in PageBlks(b) \cap headers : ref'[c] = 0
        /\ PageOf(b) \notin page_dirty
     THEN headers' = headers \ PageBlks(b)
     ELSE UNCHANGED headers
  /\ Return(t)
  /\ UNCHANGED <<cachevars, dirty, lock, page_dirty, data, biovars, idevars,
                 panicked>>

-----------------------------------------------------------------------------
(* bdev_make_request *)

bdev_make_request(t) ==
  /\ pc[t] = "request"
  /\ status' = [status EXCEPT ![t] = "PENDING"]
  /\ request_queue' = Append(request_queue, t)
  /\ Goto(t, "handler")
  /\ UNCHANGED <<cachevars, bhvars, data, bio, cv, idevars, cur, panicked>>

(* The command that a bio asks for, with the data of a write. *)
Command(t) ==
  [op |-> bio[t].op, blks |-> bio[t].blks,
   vals |-> IF bio[t].op = "WRITE" THEN [b \in bio[t].blks |-> data[b]]
            ELSE <<>>]

(* ide_wait has seen the disk ready. *)
ide_issue_cmd(t) ==
  /\ cmd = NULL
  /\ cmd' = Command(t)
  /\ ide_status' = "BUSY"

ide_request_handler(t) ==
  /\ pc[t] = "handler" /\ trap = "no"
  /\ IF ide_status = "IDLE" /\ request_queue # <<>>
     THEN ide_issue_cmd(Head(request_queue))
     ELSE UNCHANGED <<cmd, ide_status>>
  /\ Goto(t, "wait")
  /\ UNCHANGED <<cachevars, bhvars, data, biovars, trap, tbio, irq, disk, cur,
                 panicked>>

Sleep(t) ==
  /\ pc[t] = "wait" /\ t \notin cv /\ status[t] = "PENDING"
  /\ cv' = cv \cup {t}
  /\ UNCHANGED <<cachevars, bhvars, data, request_queue, bio, status, idevars,
                 pc, cur, panicked>>

Completed(t) == pc[t] = "wait" /\ t \notin cv /\ status[t] = "COMPLETE"

(* fillpage returns: the page enters the cache, unless there is no memory  *)
(* for a node of the radix tree; pgcache_lock is released.                 *)
FillDone(t) ==
  /\ Completed(t) /\ bio[t].op = "READ"
  /\ bio' = [bio EXCEPT ![t] = NULL]
  /\ pgcache_lock' = NULL
  /\ \/ /\ cached' = cached \cup {PageOf(cur[t])}
        /\ Goto(t, "headers") /\ UNCHANGED cur
     \/ UNCHANGED cached /\ Return(t)
  /\ UNCHANGED <<bhvars, data, request_queue, status, cv, idevars, panicked>>

WriteDone(t) ==
  /\ Completed(t) /\ bio[t].op = "WRITE"
  /\ bio' = [bio EXCEPT ![t] = NULL]
  /\ dirty' = dirty \ {cur[t]}
  /\ Goto(t, "held")
  /\ UNCHANGED <<cachevars, headers, ref, lock, page_dirty, data,
                 request_queue, status, cv, idevars, cur, panicked>>

-----------------------------------------------------------------------------
(* The disk and its interrupt *)

(* External: the disk executes its command. *)
DiskDone ==
  /\ cmd # NULL
  /\ disk' = [b \in Blks |-> IF cmd.op = "WRITE" /\ b \in cmd.blks
                             THEN cmd.vals[b] ELSE disk[b]]
  /\ cmd' = NULL
  /\ irq' = TRUE
  /\ UNCHANGED <<cachevars, bhvars, data, biovars, ide_status, trap, tbio, pc,
                 cur, panicked>>

(* The first request is the active one: take it off, and its data in. *)
TrapPop ==
  LET t == Head(request_queue) IN
  /\ irq /\ trap = "no" /\ ide_status = "BUSY"
  /\ irq' = FALSE
  /\ trap' = "complete" /\ tbio' = t
  /\ request_queue' = Tail(request_queue)
  /\ data' = [b \in Blks |-> IF bio[t].op = "READ" /\ b \in bio[t].blks
                             THEN disk[b] ELSE data[b]]
  /\ UNCHANGED <<cachevars, bhvars, bio, status, cv, ide_status, cmd, disk, pc,
                 cur, panicked>>

(* Variant: the waiting thread is not signalled. *)
TrapCompleteSilent ==
  /\ trap = "complete"
  /\ status' = [status EXCEPT ![tbio] = "COMPLETE"]
  /\ trap' = "next" /\ tbio' = NULL
  /\ UNCHANGED <<cachevars, bhvars, data, request_queue, bio, cv, ide_status,
                 cmd, irq, disk, pc, cur, panicked>>

TrapComplete ==
  /\ trap = "complete"
  /\ status' = [status EXCEPT ![tbio] = "COMPLETE"]
  /\ cv' = cv \ {tbio}
  /\ trap' = "next" /\ tbio' = NULL
  /\ UNCHANGED <<cachevars, bhvars, data, request_queue, bio, ide_status, cmd,
                 irq, disk, pc, cur, panicked>>

(* Variant: the next request is left to the next caller. *)
TrapNextIdle ==
  /\ trap = "next"
  /\ ide_status' = "IDLE"
  /\ trap' = "no"
  /\ UNCHANGED <<cachevars, bhvars, data, biovars, cmd, tbio, irq, disk, pc,
                 cur, panicked>>

TrapNext ==
  /\ trap = "next"
  /\ IF request_queue # <<>>
     THEN ide_issue_cmd(Head(request_queue))
     ELSE ide_status' = "IDLE" /\ UNCHANGED cmd
  /\ trap' = "no"
  /\ UNCHANGED <<cachevars, bhvars, data, biovars, tbio, irq, disk, pc, cur,
                 panicked>>

ide_trap_handler == TrapPop \/ TrapComplete \/ TrapNext

-----------------------------------------------------------------------------

Init ==
  /\ cached = {} /\ pgcache_lock = NULL
  /\ headers = {} /\ ref = [b \in Blks |-> 0] /\ dirty = {}
  /\ lock = [b \in Blks |-> NULL] /\ page_dirty = {}
  /\ \E v \in Vals : data = [b \in Blks |-> v]
  /\ \E v \in Vals : disk = [b \in Blks |-> v]
  /\ request_queue = <<>>
  /\ bio = [t \in Threads |-> NULL]
  /\ status = [t \in Threads |-> "COMPLETE"]
  /\ cv = {}
  /\ ide_status = "IDLE" /\ trap = "no" /\ tbio = NULL
  /\ cmd = NULL /\ irq = FALSE
  /\ pc = [t \in Threads |-> "idle"]
  /\ cur = [t \in Threads |-> 0]
  /\ panicked = FALSE

Call(t) ==
  \/ \E b \in Blks : pgcache_get_page(t, b)
  \/ \E v \in Vals : bdev_set_blk_dirty(t, v)
  \/ bdev_write_blk(t) \/ bdev_release_blk(t)

Continue(t) ==
  \/ bdev_get_blk_unlocked(t) \/ HeadersFail(t)
  \/ bdev_get_blk(t) \/ bdev_release_blk_unlocked(t)
  \/ bdev_make_request(t) \/ Sleep(t) \/ FillDone(t) \/ WriteDone(t)

Next ==
  /\ ~panicked
  /\ \/ \E t \in Threads : Call(t) \/ Continue(t) \/ ide_request_handler(t)
     \/ DiskDone \/ ide_trap_handler

Spec == Init /\ [][Next]_vars

(* Threads that can run do so, a CPU that spins for ide->lock gets it in   *)
(* the end, and the disk executes its commands.  Nobody has to call.       *)
FairSpec ==
  /\ Spec
  /\ \A t \in Threads : /\ WF_vars(~panicked /\ Continue(t))
                        /\ SF_vars(~panicked /\ ide_request_handler(t))
  /\ WF_vars(~panicked /\ DiskDone) /\ WF_vars(~panicked /\ ide_trap_handler)

-----------------------------------------------------------------------------
(* Properties *)

(* The variables have the shapes of the C fields; a reference count, an    *)
(* unsigned int, never passes below zero (the kassert of                   *)
(* bdev_release_blk_unlocked).                                             *)
TypeOK ==
  /\ cached \subseteq {PageOf(b) : b \in Blks}
  /\ pgcache_lock \in Threads \cup {NULL}
  /\ headers \subseteq Blks /\ dirty \subseteq Blks
  /\ ref \in [Blks -> Nat]
  /\ lock \in [Blks -> Threads \cup {NULL}]
  /\ page_dirty \subseteq cached
  /\ data \in [Blks -> Vals] /\ disk \in [Blks -> Vals]
  /\ request_queue \in Seq(Threads)
  /\ bio \in [Threads -> [op : {"READ", "WRITE"}, blks : SUBSET Blks]
                           \cup {NULL}]
  /\ status \in [Threads -> {"PENDING", "COMPLETE"}]
  /\ cv \subseteq Threads
  /\ ide_status \in {"IDLE", "BUSY"}
  /\ trap \in {"no", "complete", "next"}
  /\ tbio \in Threads \cup {NULL}
  /\ irq \in BOOLEAN /\ panicked \in BOOLEAN
  /\ pc \in [Threads -> {"idle", "headers", "got", "held", "release",
                         "request", "handler", "wait"}]
  /\ cur \in [Threads -> Blks]

InRequest(t) == pc[t] \in {"request", "handler", "wait"}

(* The threads that have a reference to the header of b. *)
Users(b) ==
  {t \in Threads : /\ cur[t] = b
                   /\ \/ pc[t] \in {"got", "held", "release"}
                      \/ InRequest(t) /\ bio[t].op = "WRITE"}

(* Headers are freed page by page, so one block's count decides on the     *)
(* headers of others: a header in use is never freed, and its count is the *)
(* number of its users.                                                    *)
HeadersKept ==
  \A b \in Blks :
    /\ Users(b) # {} => b \in headers
    /\ b \in headers => ref[b] = Cardinality(Users(b))
    /\ lock[b] # NULL => lock[b] \in Users(b)

(* A cached block that is not marked dirty is what the disk holds, through *)
(* fills, writes under way, and headers freed and made again: no change is *)
(* forgotten.                                                              *)
CleanOnDisk ==
  \A b \in Blks :
    (PageOf(b) \in cached /\ ~(b \in headers /\ b \in dirty))
      => data[b] = disk[b]

(* The interrupt handler takes the first request of the queue for the one  *)
(* that the disk has finished.  So it is, and its data are what the thread *)
(* asked to write; an idle driver has no command and no interrupt pending. *)
ActiveFirst ==
  /\ (ide_status = "BUSY" /\ trap = "no") =>
       /\ request_queue # <<>>
       /\ irq \/ cmd = Command(Head(request_queue))
  /\ (ide_status = "IDLE" \/ trap # "no") => cmd = NULL /\ ~irq

(* A bdev_request lies on the stack of bdev_make_request: it is linked,    *)
(* and its bio used by the interrupt handler, only while that call waits.  *)
QueueLive ==
  /\ \A i \in 1..Len(request_queue) :
       LET t == request_queue[i] IN
       /\ pc[t] \in {"handler", "wait"} /\ status[t] = "PENDING"
       /\ \A j \in 1..Len(request_queue) : request_queue[j] = t => i = j
  /\ tbio # NULL => pc[tbio] \in {"handler", "wait"} /\ status[tbio] = "PENDING"

(* Requests do not wait for an idle disk, unless the thread that will      *)
(* start one is on its way.                                                *)
NotStalled ==
  (ide_status = "IDLE" /\ request_queue # <<>>) =>
    \E t \in Threads : pc[t] = "handler"

(* The request queue between the threads and the interrupt handler: its    *)
(* first element is what the disk works on, all of it lies on stacks that  *)
(* are still there, and it never waits for a disk that nobody will start.  *)
RequestQueue == TypeOK /\ ActiveFirst /\ QueueLive /\ NotStalled

(* A request is answered: "it returns only when the request is completed", *)
(* and it does return, unless the kernel panics.                           *)
RequestsComplete ==
  \A t \in Threads : InRequest(t) ~> (~InRequest(t) \/ panicked)

-----------------------------------------------------------------------------
(* What documentation says and the code does not do *)

(* bdev_get_blk returns NULL when memory cannot be allocated.  But headers *)
(* made before the failure stay, and the next call finds the list of the   *)
(* page not empty and its block not in it.                                 *)
NoPanic == ~panicked

=============================================================================
