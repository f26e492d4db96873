# The MappedMemory kernel in TLA+

MappedMemory is a small teaching kernel (osv, x86-64, C) to which named shared
memory regions were added.  This directory holds TLA+ models of the kernel from
the page allocator to the file system, the TLC configurations that check them on
small instances, and TLAPS proofs for instances of every size.  `PROJECT.json`
relates every definition to the lines it stands for.

## Inventory

The kernel runs on several CPUs (the Makefile starts two) and is preempted by
the timer wherever no spinlock is held.  A process has one thread and one
address space; its calls interleave with those of all the others.

| part | state | operations | meets |
|---|---|---|---|
| shared memory (`kernel/fs/shmms.c`, `mm/rmap.c`) | table of contexts (name, flag, reference count, lock owner), a reverse map list per region, one wait queue | create, destroy, map, unmap, lock, unlock, `addContextRef` (fork), `unmapAll` (exit) | address spaces, processes, condvars |
| threads and scheduler (`sched.c`, `thread.c`, `timer.c`, `swtch.S`) | ready queue, thread states, CPU's current thread | create, exit, ready, switch, timer tick | spinlocks, interrupt level |
| synchronisation (`synch.c`, `intr_set_level`) | holder of a spinlock, of a sleeplock, wait queues, per-CPU count | acquire, release, wait, signal | scheduler |
| processes (`proc.c`, `user/init.c`) | process table, children lists, exit status, wait queue per process | spawn, fork, wait, exit, adoption | threads, address spaces, descriptors |
| pipes (`pipe.c`) | ring, offsets, counts of readers and writers, two wait queues | allocate, read, write, close, count up and down | descriptors, condvars |
| descriptors, system calls (`syscall.c`, `fs.c`) | file table per process, reference count per file | open, read, write, dup, close, fork, exit | pipes, files |
| address spaces (`mm/vm.c`) | list of regions per process | map, extend, copy, unmap | page tables, shared memory |
| page faults, copy on write (`pgfault.c`, `vpmap.c`) | page table entries, page reference counts, page locks | fault, copy, take over | physical memory |
| physical memory (`mm/pmem.c`) | boot bitmap, buddy free lists, page reference counts | allocate, free, split, merge, count | everything |
| objects (`mm/kmalloc.c`) | object caches, slabs on lists, size classes | create, destroy, allocate, free | physical memory |
| page cache (`memstore.c`, `filems.c`, `bdevms.c`, `radix_tree.c`) | pages per store in a radix tree | get page, insert, remove | block devices, VFS |
| block devices (`bdev.c`, `drivers/ide.c`) | request queue, block table | submit, interrupt, complete | condvars, interrupts |
| journal (`fs/jbd.c`) | open transaction, log on disk; switched off | begin, write, end, recover | block devices |
| VFS (`fs/fs.c`, directories in `sfs.c`) | inode cache with references, locks and link counts, directory entries, cleanup list | walk, open, close, link, unlink, mkdir, rmdir, chdir | SFS, radix tree |
| SFS (`fs/sfs/sfs.c`, `tools/mkfs.c`) | bitmaps, inodes, direct and indirect blocks | read, write, create, delete, make image | block devices |
| console, traps, boot, user programs | device registers, input ring | | |

What is hard to test here: operations that leave their lock in the middle
(unmap, close, fork, exit, copy on write); a lock and an interrupt count that
one thread takes and another gives back (context switch); wakeups that go to one
thread out of a queue; counts that decide when memory is freed; memory that runs
out in the middle of a tree, a slab, a file or a fork; locks on inodes taken in
two orders; and an exit that meets any of them.  `PROJECT.json` lists these
places line by line under `hazards`.

What makes each part correct: reference counts agree with the references
(shared memory, pages, files, inodes, pipes); nothing is freed in use, and freed
once; reverse maps agree with the address spaces; a lock has one owner; a wakeup
is not lost and a thread is in one list; whoever can run runs; bytes leave a
pipe in the order they came; a dead process leaves nothing behind, and is freed
by one parent; pages, objects and disk blocks are owned once; a process sees its
own memory, and a file its own words; names and link counts agree.

## Modules

| module | models | state and actions |
|---|---|---|
| `Shm` | `shmms.c` and the calls into it from `vm.c`, `proc.c`, `syscall.c` | a variable per field of `smemcontext` and `memregion`; an action per section under `ctable_lock` |
| `SharedRegions` | what the regions promise, every operation atomic | one record per name: flag, users, owner |
| `ShmProofs` | theorems about `Shm` | |
| `Sched` | `sched.c`, `thread.c`, `synch.c`, timer, interrupt level, context switch | CPUs, threads and one sleeplock; a step is what one thread does under one spinlock |
| `SchedProofs` | theorems about `Sched` | |
| `Pipe` | `pipe.c`, the descriptors that refer to a pipe | ring with offsets modulo `SIZE_T`, counts modulo `UINT64`, descriptors per process, three sections of a close |
| `ByteChannel` | what a pipe promises: a bounded fifo | one sequence |
| `PipeProofs` | theorems about `Pipe` | |
| `Proc` | `proc_fork`, `proc_spawn`, `proc_wait`, `proc_exit`, the program of `init` | process table, children lists, statuses, wait queues |
| `ProcProofs` | theorems about `Proc` | |
| `Bdev` | `bdev.c`, `bdevms.c`, `pgcache.c`, `drivers/ide.c` | block headers with counts and locks, cached pages, request queue, driver status, the disk and its pending interrupt; the interrupt handler in three steps |
| `BdevProofs` | theorems about `Bdev` | |
| `Pmem` | `mm/pmem.c` | boot bitmap, free lists by order, page structures; an action per operation under `pmem_lock` |
| `Kmalloc` | `mm/kmalloc.c`, on top of `Pmem` (which it extends) | caches and slabs with their addresses in bytes; an action per operation under a cache's lock |
| `Vm` | `mm/vm.c`, `pgfault.c`, `vpmap.c` | regions, page tables, frames with counts and locks; `handleCOW` in three steps |
| `VmProofs` | theorems about `Vm` | |
| `ForkMemory` | what the memory of processes promises | domain and contents per process, contents of shared pages |
| `Vfs` | `fs/fs.c`, directories of `sfs.c`, file calls of `syscall.c` | disk and cached inodes, a step between two acquisitions of an inode lock |
| `VfsProofs` | theorems about `Vfs` | |
| `Sfs` | data path of `sfs.c`, `mkfs.c` | bitmaps, blocks, inodes on disk and in memory; a step per block |
| `SfsProofs` | theorems about `Sfs` | |
| `FileContents` | what files promise | a sequence of words per file |
| `RadixTree` | `radix_tree.c` | nodes with slots, counts and parents; a step per round of a loop |
| `PageCache` | `pgcache.c`, `memstore.c`, `bdevms.c`, `filems.c`, on top of `RadixTree` (which it extends) | pages, what each was filled with, the store's life |
| `IndexMap` | what a radix tree promises | a partial map |
| `MC*` | instances for TLC | symmetry and sets of calls, and in `MCShmLock` an initial state |

Names are those of the C code.  An action that has no name of its own in C,
being the second half of a function, is named for what it does (`UnmapUnref`
is the part of `destroyMapping` after the lock has been taken again).
Definitions marked "Variant" are wrong versions of an operation, used only to
show that a property would notice; no specification contains them.

**Shm.**  `destroyMapping` unlinks the node of the reverse map under
`ctable_lock`, unmaps the region without it, and takes it again to drop the
reference (`unmap1`, `unmap2`); an exit does the same for each region (`find`,
`exit1`, `exit2`); a fork copies region after region (`ForkCopy`) and may run
out of memory in two places (`ForkFail`, which gives up, and `ForkCopyLost`,
which does not).  `unmapAll` walks the list without the lock, a data race; the
model marks a context as torn when its list is used by somebody else during
such a walk, and stops there, since nothing can be said of a list after that.
Of a region's size the model keeps whether its mappings have a byte (`empty`):
`find_remove_rmapping` looks for an address below the end of a mapping, so that
the mapping of an empty region is never found, by an unmap or by an exit.
Processes are not reused: what the node that stays is worth to a later process
whose `struct proc` has the same address is not modelled.
Everything that is checked and proved about `Shm` is about behaviours up to a
first such access, and `NoRace` is refuted (Departures).

**Sched.**  All threads use one sleeplock, whose inner spinlock is also the
lock they hand to `condvar_wait`, so the model has the same three locks as any
use of a sleeplock in the kernel: `lk`, `sched_lock` and the sleeplock itself.
The idle thread of a CPU has the CPU's name.  Other device interrupts are left
out.

**Pipe.**  One pipe that is made and one file that is half made per behaviour.  `fd_reader` is the descriptor *number* of
the read end in the process that made the pipe, and the counts go up and down
by comparing numbers, as in the code.  When memory is used after `kfree` the
model sets `misuse` and stops.  Calls that fail on an argument check change
nothing and are left out.  `sys_pipe` has three failures that do change
something (`sys_pipeFail`): with one descriptor left, its file stays without
operations (`unset`); without memory for the second file, or for the pipe, the
files are freed and their descriptors stay (`stale`).  The first use of a freed
file, and the first call of an operation that is not there, end a behaviour as
`misuse` (`UseBroken`): from there on the file may have been given to somebody
else.

**Proc.**  Process 0 is init: it spawns the shell (process 1), then calls
`wait(-1, NULL)` for ever.  User text is linked at address 0 (`src/Makefile:96`),
so that `sys_wait` takes NULL for a valid buffer, and `proc_wait` then stores no
status.  Each of these waits chooses the child that is last in init's list at
that time: the shell at first, adopted processes later.  `exit` of process 1 shuts the machine down (`off`), but a page fault ends it like any
other process.

**Bdev.**  Threads get blocks, with or without the header's lock, change them,
write them and release them.  A thread stands for its bio and for the
`bdev_request` on its stack.  The disk is external: it executes one command at a
time and raises one interrupt for it.  Journalling is off in this version of the
kernel (`sfs.c`, mount), so nothing calls `bdev_write_blk` while it runs; the
model lets any thread that holds a block's lock call it, as its interface says.

**Pmem, Kmalloc.**  Memory starts with the bitmap allocator, `pmem_init` turns
what it left into free blocks, and object caches then live on pages of the buddy
allocator, the descriptors of caches being objects themselves.  `held` and
`objs` are what the callers own, so that counts and lists can be compared with
it.  Callers free only what they hold.

**Vm.**  Addresses are pages, and the page table has two levels of the four,
which is where its loops differ.  `handleCOW` takes the page lock, decides on the
count, maps the copy (`mapped`), drops its reference (`unlock`) and releases;
exits and forks of other processes, which do not take that lock, run in between.
Accesses are those of user programs and of system calls on user memory.  Four
things end a behaviour, since what follows is another program's memory: a panic,
a zeroed page mapped over a present one, a heap laid over another region
(`overlaid`), and a page that stays mapped outside every region (`LeftBehind`).

**Vfs.**  A thread is in at most one call, with the inode references it holds in
`curr`, `ino`, `src` and `drop`.  The inode cache is `ref`, `valid`, `nlink` and
`dirty`.  `fs_find_inode` looks a name up without the directory's lock, and the
model splits it where another thread may come in between: after the entry is
found, after its inode number is read (`ReadEntry`), and after the reference is
taken (`Take`).  A name is stored as `Cut` leaves it, 27 characters in the code,
and compared in full.  Of a write the model keeps what it does to the inode's
dirty flag, which stays set when the inode cannot be saved; the size and the data
are in `Sfs`.  A lack of memory may make any lookup or creation fail; where the
code does not handle that or an assertion fails (`NameMissed`, `MadeUnseen`,
`ReferenceLost`) the behaviour ends with `ended`.  The cleanup thread is never
started in the code, so nothing takes from `cleanup`.  Bytes that a program
writes into a directory it has opened for writing are not modelled.

**Sfs.**  `mkfs` makes inodes and appends to them, the kernel mounts the image
and writes, reads and deletes.  Any step that needs a block may fail.  The data
of a file is its words; `View` is what a reader finds in the middle of a write.
`NoLeak` is void after a failure, which may leave blocks that are marked and in
no file; that no block has two owners holds after failures too.  In
`FileContents` a write puts any words anywhere in its own file: the refinement
says that files keep apart and that nothing changes but by a write, not where a
write puts which word.

**RadixTree, PageCache.**  All users of a tree call it with a lock of their own
held, so one call is under way at a time, and its loops are taken round by round
because a node can fail to be allocated in each.  An index is removed only when
it is there: for one that is not `radix_tree_remove` returns NULL, or, having no
test against the largest index, takes another leaf (`radix_tree.h:61` promises
NULL); nothing in the kernel calls it so.  A page that was taken out of the cache
is freed (`Return`); `pgcache_remove_page` leaves that to its caller, and it has
none.

## Runs

| run | instance | shows |
|---|---|---|
| `shm` | 2 processes, 2 names, 2 contexts, 2 memregions, regions empty or not | counts, reverse maps, names and lifetimes of regions (`RefcntExact`, `NoDangling`, `RmapExact`, `LockKept`, `RegionKept`); `CallsSound` = `UniqueNames`, `DeadLeaveNothing`, `QueueSound`; `Implements`: the split operations look like the atomic ones of `SharedRegions`; `CallsReturn`: exit, unmap and fork come to their end |
| `shm_lock` | 3 processes that map two regions | refutes `FreeLockGranted` |
| `sched` | 2 CPUs, 2 threads and the idle threads | no deadlock; `ListsSound` = `OneList`, `ReadySound`, `NoLostWakeup`; `LocksSound` = `IntrCounted`, `SpinHolderRuns`, `OneOwner`; `ReadyRuns`, `FreeTaken` |
| `pipe_data` | 3 processes, 2 descriptors, 2 byte values, a pipe of 2 bytes, offsets modulo 4, blocks of 1 and 2 | `Implements`: a fifo channel across wrap-around; `NotBothAsleep` |
| `pipe_refs` | 2 processes, 3 descriptors, dup, pipe calls that fail while no descriptor is broken | `CountsSound` = `RefExact`, `CountsSum`, `FreedUnused` |
| `proc` | pids 0 to 4, two exit statuses, one of them `STATUS_ALIVE` | `FamilySound` = `OneParent`, `FreedDead`; `WaitReturns` |
| `bdev` | 2 threads, 2 blocks of one page, 2 contents | `HeadersKept`, `CleanOnDisk`; `RequestQueue` = `ActiveFirst`, `QueueLive`, `NotStalled`; `RequestsComplete` |
| `kmalloc` | 12 pages of 4 bytes, blocks of up to 4 pages, size classes 1 and 2, a cache of size 3 | `PagesSound` = `Partition` (no page lost or owned twice), `RefcntHeld`; `FailsOnlyWhenFull`: free buddies always merge; `ObjectsApart`, for objects of 1, 2 and 3 bytes; `SlabsSound` = `FreeFindsOwner`, `SlotsExact` |
| `vm` | 2 processes, 4 frames, 2 page tables of 3 entries, one shared page, sbrk of 1, 2 and -2 | `RefcntExact`; `CowSound` = `WritableAlone`, `SharedSeen`, `LockHeld`: copy on write against forks and exits; `RegionsApart`; `Implements`: each process has the memory of `ForkMemory` |
| `vfs` | 2 threads, 3 inodes, directories of 2 entries, 2 names and a longer one that is cut to one of them, paths of up to 2 names | `RefsExact`; `DirsSound` = `LinksExact`, `NamesUnique`; `CleanupSound`; `CycleHasLink`: a deadlock needs a link |
| `sfs` | 2 files, 7 blocks of 2 words, 1 direct and 2 indirect addresses, 2 bitmap blocks, 2 calls of 3 words | `BlocksExact` = `BlocksOwned`, `NoLeak`; `InodesSound` = `SavedInode`, `NoHole`; `Implements`: files are sequences of words of their own |
| `pgcache` | nodes of 2 slots, 5 nodes, 3 pages, indexes 0, 1, 2, 5 and 6 | `TreeKept` = `TreeSound`, `RemoveSound`: the tree is well formed at every step; `PagesFound` = `PagesExact`, `RightPage`, `NoPanic`; `Implements`: a partial map |

`=` gives the parts that an invariant is the conjunction of.  The type invariant
of a module, `TypeOK`, is one more part of one of them; `shm` checks it by
itself.

**Bounds.**  Two processes suffice for a call that runs in the gap of an unmap,
an exit or a fork of another; what a third would add to the counts and reverse
maps is covered by the proofs, which hold for any number.  Two contexts and two
names allow a name to be taken again after a destroy, and the reuse of freed
objects is in the model since allocation picks any free one.  Two threads on two
CPUs with the two idle threads spin, sleep, are preempted and are woken in every
order.  A pipe of two bytes has the states empty, partly full and full, and with
offsets modulo 4 each offset wraps after two blocks.  In
`pipe_refs` a pipe call fails in each of its three ways, while no descriptor is
left of an earlier failure (`MaxBroken`); the pipe has one byte, whose wrapping
`pipe_data` is about.  Five pids give a
parent and two children of it, or a chain of three, besides init and the shell,
so that init adopts one process or two, in either order with its waits.  Two
threads give the disk one request under way and one being submitted, and
two blocks of one page share the fate of their headers.  Twelve pages of which the first four are taken at boot leave blocks at bounds
that are no powers of two, three orders, and slabs of one, two and three pages.
Four frames for two processes of at least two pages each make memory run out in
every place.  A shared page directly behind an empty heap is what an sbrk of 1
runs into and one of 2 runs over; -2 shrinks a heap of two pages and is too much
for one.  In `vfs` one thread works with files and the other with directories,
on paths that meet in `/a` and `/a/b`, and on one long name; with three inodes
and two entries a directory, both run out.  In `sfs` the largest file takes the whole disk, so
that two files compete for its last blocks.  Indexes of one to three digits make
the tree grow by none, one or two levels at once, and five nodes of the seven of
a full tree make allocation fail in every place.  Where a run has symmetry it
permutes processes, names and objects, which no definition tells apart; runs
with liveness have none.

Deadlock is checked in `sched`.  In the other modules a behaviour may end: all
processes have exited and pids are used up, the machine is off, the kernel has
panicked, memory is full and nobody frees any, a bound on calls is reached, or
(`vfs`) a link and an unlink wait for each other, which is the departure
`NoDeadlock`.

`NotBothAsleep` is checked for calls that ask for at least one byte.  A read of
0 bytes on an empty pipe sleeps like any other, takes a wakeup, and passes none
on; with such calls a reader and a writer can come to sleep both.

**Fairness.**  `FairSpec` of `Shm`, `Pipe` and `Proc` is weak fairness for the
continuation of a call that is under way and not asleep.  It stands for what
`Sched` shows: a thread that is ready gets a CPU (`ReadyRuns`), and a spinlock's
holder is running (`SpinHolderRuns`).  No process has to make a call, and none
has to stop making them; `Proc` adds weak fairness for the waits of init, whose
program is a loop of nothing else.  `Sched` itself assumes strong fairness for a CPU to go
on with its thread, for the interrupt that returns, and for the timer: a CPU
does not stop, a spinlock that is free again and again is got in the end by a
CPU that spins for it (the test-and-set loop of `spinlock_acquire` has no queue,
so this is the hardware's fairness), and the timer interrupt comes again and
again.  `Bdev` assumes the same of its threads, strong fairness for the CPU that
spins for `ide->lock`, and that the disk executes every command it is given.

## Proofs

The theorems hold for every value of the constants that the assumption of the
module admits.  Every one of them rests on an inductive invariant `Inv`, proved
with one lemma per action; TLC has checked every part of it on the instance of
the run first.

| theorem | statement |
|---|---|
| `ShmProofs!Invariant` | `Spec => []Inv` |
| `ShmProofs!TypeCorrect` | `Spec => []TypeOK`: no reference count goes below zero |
| `ShmProofs!RefcntCorrect` | `Spec => []RefcntExact` |
| `ShmProofs!NoUseAfterFree` | `Spec => []NoDangling` |
| `ShmProofs!RmapCorrect` | `Spec => []RmapExact` |
| `ShmProofs!NamesUnique` | `Spec => []UniqueNames` |
| `ShmProofs!LockOwnership` | `Spec => LockKept` |
| `ShmProofs!RegionLifetime` | `Spec => RegionKept` |
| `ShmProofs!CallsInvariant` | `Spec => [](Inv /\ Calls)` |
| `ShmProofs!CallsCorrect` | `Spec => []CallsSound` |
| `ShmProofs!Refinement` | `Spec => Implements`: `Shm` implements `SharedRegions` |
| `SchedProofs!Invariance` | `Spec => []Inv` |
| `SchedProofs!Lists` | `Spec => []ListsSound` |
| `SchedProofs!Locks` | `Spec => []LocksSound` |
| `BdevProofs!Invariance` | `Spec => []Inv` |
| `BdevProofs!Headers` | `Spec => []HeadersKept` |
| `BdevProofs!Clean` | `Spec => []CleanOnDisk` |
| `BdevProofs!Queue` | `Spec => []RequestQueue` |
| `PipeProofs!Invariance` | `Spec => []Inv` |
| `PipeProofs!CountsCorrect` | `Spec => []CountsSound` |
| `PipeProofs!NobodyStuck` | `0 \notin Counts` implies `Spec => []NotBothAsleep` |
| `PipeProofs!Refinement` | `Spec => Implements`: `Pipe` implements `ByteChannel` |
| `ProcProofs!Invariance` | `Spec => []Inv` |
| `ProcProofs!Family` | `Spec => []FamilySound` |
| `SfsProofs!Invariance` | `Spec => []Inv` |
| `SfsProofs!Blocks` | `Spec => []BlocksExact` |
| `SfsProofs!Inodes` | `Spec => []InodesSound` |
| `SfsProofs!Refinement` | `Spec => Implements`: `Sfs` implements `FileContents` |
| `VmProofs!Invariance` | `Spec => []Inv` |
| `VmProofs!References` | `Spec => []RefcntExact` |
| `VmProofs!CopyOnWrite` | `Spec => []CowSound` |
| `VmProofs!Regions` | `Spec => []RegionsApart` |
| `VmProofs!Refinement` | `StackSpared` implies `Spec => Implements`: `Vm` implements `ForkMemory` |
| `VfsProofs!Invariance` | `Spec => []IInv` |
| `VfsProofs!References` | `Spec => []RefsExact` |
| `VfsProofs!Directories` | `Spec => []DirsSound` |
| `VfsProofs!Cleanup` | `Spec => []CleanupSound` |
| `VfsProofs!Cycles` | `Spec => []CycleHasLink` |

**Shm** (any finite sets of processes and memregions, any names and contexts;
NULL is none of them, `ShmAssumption`, nor a record of the abstract table,
`NullAssumption`).  None of the properties is inductive alone.  `TypeOK` needs
`RefcntExact`, since a count is lowered on the strength of an unmap begun long
before; `RefcntExact` needs `RmapExact`, to know that the node an unmap removes
was there; `NoDangling` needs the count to be exact, since a context is freed
when it is 0 or when an exit takes it to 0; and all of them need to know what
the local variables of a process in the middle of a call are worth.  So
`Inv == TypeOK /\ Core`, where `Core` adds `UnmapLocals` (a process that unmaps,
or looks for a node, owns the memregion in its local variable, and its context
is the one it remembers), `LockLocals` (a process that waits for a region lock
still maps the region), `ForkLocals` (a fork builds an embryo that is nobody
else's) and `TodoLocals` (regions that a fork or an exit has yet to visit are
still there).  The lemmas before the actions say what a count tells about users
(`NoUsers`, `LastUser`), how it changes when one node or one pending unmap comes
or goes, and that a context without users is reachable from nowhere
(`Unreachable`).  The two action properties follow with a case per action that
changes `lock_by` or `ctable`.  A second invariant, `Calls`, comes on top of
`Inv`: a memregion of a region that is not empty has a living owner, who has yet
to visit it if it exits;
contexts have names; the queue holds lockers, each once.  The refinement then
has a case per action: one step of `SharedRegions` for the step that links or
unlinks a node, takes or gives back a lock or changes the table, a stutter for
the others.

**Sched** (any finite sets of CPUs and threads, at least one CPU).  `Inv` says
what each CPU runs and in which state (`IdleSound`, `CpuSound`), that
`sched_lock` is held exactly while one thread comes out of a switch
(`SwitchSound`), who holds the sleeplock's spinlock (`LkSound`), how many
interrupt disables that makes and which level the last release restores
(`CountSound`, `FlagSound`, `LevelSound`), who owns the sleeplock, and which
lists every thread is in (`QueuesSound`, `TargetSound`).  The lists need the
locks: a thread is put on one only under its lock, by a thread that has taken
it off the other; the locks need the lists: what `sched` switches to must be at
a point where the count of disables fits.

**Bdev** (any finite set of threads, any number of blocks and of blocks per
page).  `CleanOnDisk` needs to know that a request in flight has its block
locked, or its page under `pgcache_lock` (`BioSound`, `LockSound`), that what
the interrupt handler takes for done is the request the disk has executed
(`ActiveFirst`, `IrqSound`, `DoneSound`, `PoppedSound`), and that a header is
freed only with a page that no dirty block is in (`DirtySound`, `CachedSound`).

**Pipe** (any finite sets of processes and descriptors, of which 0 is one; any
ring that divides the word and is smaller; a word of the counts that is greater
than the number of all descriptors; any calls).  `Counted` and `Held` are the
descriptors that the two kinds of counts count, in the middle of closes, forks
and exits, and beside descriptors that a failed pipe call has left; `Inv` says that the counts are their cardinalities, the sum of
`readers` and `writers` modulo the word, since `kpipe_ref_decrease` may take
either below zero.  `NotBothAsleep` needs in addition that a waiter whose
condition holds has been left a wakeup (`WakeSound`), which is true when every
call asks for at least one byte: the hypothesis of `NobodyStuck`.  The
refinement rests on arithmetic modulo the word and modulo the ring (`Wrap`,
`Congruent`, `SlotDistance`): the slot of an offset does not change where the
offset wraps.

**Proc** (any number of pids, any statuses).  `OneParent` is split into
`LinkedOnce`, `LinkedLive` and `HasParent`; they need `ParentsRun` (a process
that is dead or not yet there has no children) and `TargetsLinked` (the child
that a fork makes, or that a wait sleeps on, is still in the caller's list, in
init's too, which others append to while it sleeps).
That no list is longer than `MaxPid`, which `Places` takes for granted, is the
pigeonhole principle.

**Sfs** (any inode numbers, any sizes of a block, of an inode, of a bitmap block
and of the disk, none of them 0; words are positive, so that they differ from
the zeros of a fresh block).  `Inv` adds to `BlocksExact` what each inode's
operation remembers (`OpSound`), where its inode is saved (`Saved`), that every
word below its size or behind which a write has already put words has a block
(`HoleFree`), that while nothing has failed no other block is named (`Exact`),
and how far a deletion has come (`Deletes`: `AtAddr`, `AtEntry`, `AtEnd`).
`NoLeak` needs the last two: a deleted inode is cleared with all its addresses,
so the loop of `sfs_delete_inode` must have met every one of them, which it does
as long as blocks are named up to the size and no further.  A block is found
under an offset by a division and two cases (`PlaceOf`, `FirstBlk`); that the
two are inverse is arithmetic on which the lemmas on reading back what a write
has put into a block rest, and with them the refinement.

**Vm** (any finite sets of processes, frames and shared regions, any number of
page tables and of their entries; code, stack and one page more fit into the
address space and a heap at the bound `LowEnd` may grow by any of the increments
without leaving it, which in the kernel are 2^47 bytes; `NULL` is none of the
values, `VmAssumption`).  `Inv` is about two kinds of states, since an overlaid
page ends a behaviour: up to there `Good` holds, in which every frame is counted
exactly (`Counted`), a writable private page has count one (`CountedAlone`), a
shared page is never read-only (`SharedWritable`) and a handler still has the
page it was called for (`Handler`).  `CowSound` needs the counts: `handleCOW`
takes a frame over because its count is one, and the count is what tells it that
no other page table has it.  The counts need `Handler`: `CowDrop` gives back a
reference that only the handler's own `cp` stands for.  And they need
`RegionsSound` and `RegionsApart`, since only of sorted and disjoint regions it
can be said that a page is private or shared and never both (`PrivateShared`).
The counts themselves are sums of three cardinalities (`Count`); the lemmas say
how each changes when one entry comes, goes or is replaced.

The refinement needs more than `Good`, `Extra`: a free frame holds zeros, a
frame of the page cache is one page of one shared region and no private page,
and the regions have their `Shape` (code, heap, shared regions, stack).  Each
action is one step of `ForkMemory` or a stutter: a fork shares the frames of the
private pages and so copies what is seen in them, `handleCOW` changes the frame
of a page and not its contents, a fault brings zeros in.  `StackSpared` is the
one hypothesis: what is cleared for a shared region is below the stack.  It holds
when the shared regions are in the first page table and the stack is in another
(`SparedIs`), as in the run; in the kernel the stack is at the other end of 2^47
bytes, under another entry of the top table.  Without it the refinement is false:
`unmap_pd` clears every later table of a directory when a range reaches into a
second one, and TLC finds the cleared stack where one directory has both.

**Vfs** (any finite set of threads, at least one inode, one slot of a directory
and one name, and any calls of the seven kinds with paths of these names,
any cut that leaves a cut name alone, `VfsAssumption`).  The invariant `IInv` is
about two kinds of states, since a shortage of memory that the code does not
handle and an assertion that fails (`ended`) end a behaviour: up to there `Inv`
holds, and in the last state what the properties claim of it.
`Inv` says what a call has in hand at each of its points (`CallsSound`), which
inode locks that makes (`LocksSound`), that what it has in hand exists, is of
the right kind and, where a name was looked up under the directory's lock, is
still under that name (`PlacesSound`); that entries are in directories and lead
to inodes that are there, counted, and no two directories are in each other
(`DiskSound`, `EntriesUnique`); that a loaded inode has the link count of the
disk (`CacheSound`); that an open file is loaded (`FileLoaded`), so that a write
marks an inode that a release will look at; and that what is
`Unsettled`, without a link or not saved, is loaded and referred to, by the
cleanup list if by nobody else (`Unlinks`).  `RefsExact` needs the shape of the calls:
references are counted as the set of places that hold an inode, and every step
moves a reference from one place to another, adds one or drops one
(`HoldersMoved`).  `LinksExact` needs the entry that was looked up to be still
there, so that `sfs_unlink` clears the one that the count is lowered for.
`CleanupSound` needs exact references: an inode goes on the list when its count
says that nobody else has it, the list among them, and so never twice.  `CycleHasLink` needs that the calls other than
`fs_link` hold a directory and ask for what is in it, that this is still so
while they wait, and that no two directories are in each other; after a removal
the directory and the inode taken out of it differ (`Apart`).

Only model-checked: `Kmalloc` with `Pmem`, `RadixTree` with `PageCache` and its
refinement of `IndexMap`, and everything with `~>`.  Liveness under fairness is
out of the prover's reach.  What the tree of `RadixTree` maps is defined by
recursion over its levels, and the buddy system and the tree compute with `2^k`
and `WIDTH^level`, about which the provers know nothing; facts about either for
every level need induction over data.

## Departures

Places where the code does something other than its documents, comments or
assertions say.  The first has a run of its own; the others are formulas of the
modules that TLC refutes in the instances given, by default that of the module's
run.

- `FreeLockGranted` (`shm_lock`): one wait queue for all regions and one signal
  per unlock; the signal may go to a process that waits for another region.
- `NoRace` (`Shm`): `unmapAll` walks and edits a reverse map list without
  `ctable_lock`, where `lab4design.md:57` says "spinLock for ctable will be used
  to coordinate synchronization".
- `FreedOnce` (`Pipe`, 2 processes): the last reader and the last writer that
  close together both find the counts 0 and both free the pipe (`pipe.c:74`).
  `FreedOnce` fails too when a pipe call has failed half way
  (`syscall.c:579-601`): a read or the last close of the descriptor it leaves
  calls through a NULL `f_ops` (`fs.c:766`), and a descriptor of a freed file may
  come to be one of whatever file is allocated next.  What is checked and proved
  about `Pipe` holds up to there.
- `Reclaimed` (one CPU, two threads): a thread that runs for the first time does
  not free the zombie it replaces.
- `EofSeen`, `DeafSeen` (`FairSpec` of `Pipe`, 2 processes, a pipe of 1 byte,
  counts of 1): the close of the last writer wakes no reader, that of the last
  reader no writer; both sleep on.
- `CountsExact` (`PipeRefs.cfg`): after a dup, a close takes one off the count of
  the wrong end; only the sum stays right (`CountsSum`), and it is the sum that
  decides when the pipe is freed.
- `ReadServed` (`FairSpec` of `Pipe`, 3 processes, a pipe of 2 bytes, blocks of 1
  and 2): a write of two bytes signals one reader; if it reads one byte, the
  other reader sleeps on beside the second.
- `DefaultGone` (`MCShm.cfg`): a default region that nobody maps when its last
  process exits stays for ever (`forgot-destroy-test.c` expects it gone).
- `ForkIdentical` (`MCShm.cfg`): a fork that finds no memory for a reverse map
  node succeeds without the region.
- `AnySize` (`MCShm.cfg`): `createSharedRegion` takes any size (`syscall.c:653`,
  `usyscall.h:279`), and a mapping of no bytes (size 0, or a product with the
  page size that is 0 in an int, `shmms.c:239`) is missed by
  `find_remove_rmapping`: neither unmap nor exit removes it, and a dead process
  keeps its node and its reference.
- `AnyStatus` (`FairSpec` of `Proc`): a child that exits with the value of
  `STATUS_ALIVE` is never seen dead.
- `AnyChild`: `wait(-1)` waits for the youngest child only.
- `OrphansReaped`: init, which "just waits for all processes to terminate"
  (`user/init.c`), sleeps on the child that was last in its list when it called
  `wait`, the shell to begin with; a process that it adopts meanwhile is not
  reaped while that one lives.
- `NoPanic` (`MCBdev.cfg`): when memory runs out while the headers of a page are
  made, those made stay; the next call for one of the others panics, where the
  interface promises NULL.
- `OverlapRefused` (`Vm`): `memregion_extend` compares an extension only with a
  region that holds all of it; one that reaches beyond a region passes, where
  `vm.h` promises `ERR_VM_BOUND`.
- `PagesGo` (`Vm`): a heap that shrinks keeps its pages mapped; and `unmap_pd`
  clears the rest of a page table when a range ends in the same table, and
  misses the range when it ends exactly with the table (`vpmap.c:39` says "end
  exclusive").
- `NoPanic` (`Vm`): a system call that touches a page of heap or stack that the
  program has not touched yet panics the kernel.  The history variable
  `overlaid` records another: when `handleCOW` finds no memory, the fault goes on
  to `setup_page`, which may map a zeroed page over the one that is there.
- `handleCOW` drops its reference, which may free the page, and then releases the
  page's lock.
- `EntryKept` (`Vfs`, `RaceCalls`): `fs_find_inode` looks a name up without the
  lock that `fs.h` asks for; it may return another name's file.
- `CleanupFinal` (`Vfs`): the cleanup thread asserts that what it is given is
  dirty or without links (`fs.c:515`).  A link that has read an entry before it
  was removed takes the inode up again when it is already on the list, and gives
  it a name; and a file that was left dirty by a write, which goes to the list
  with its links (`fs.c:445`), is found and saved by others.
- `OneEntry` (`Vfs`): a name of more than 27 characters (paths give up to 63,
  `fs.c:14`) is cut when it is stored (`sfs.c:585`) and compared over 28 when it
  is looked up (`sfs.c:623`, `sfs.c:695`), so that it is never found: `mkdir` of
  it makes a new entry every time.
- `RemovedEmpty` (`Vfs`): a file can be made in a directory that has been
  removed meanwhile.
- `NoDeadlock` (`Vfs`): a link locks file, then directory; an unlink of the same
  name directory, then file.
- `ShortageHandled` (`Vfs`): `search_dir` returns 0 for want of memory as it does
  for a name that is not there, so that a name is made twice or an assertion
  fails; `unlink_inode_in_dir` keeps a reference when it finds no memory; and the
  assertion of `fs_open_file` that a file just made is found (`fs.c:716`) fails
  for want of memory and for a name that was cut.
- The cleanup thread is never started: files without a name are never deleted,
  and `sfs_delete_inode` is never called.  `chdir` accepts a regular file.
- `NoPanic` (`Sfs`): a write beyond the largest size fails the assertion of
  `get_data_block` instead of writing less.
- `InBounds` (`Sfs`): `sfs_delete_inode` runs past `i_addrs` or an indirect block
  when a file has two indirect blocks, or when it is called again after a
  failure.
- `FreesAll` (`Sfs`): blocks that a failed write has allocated beyond the size of
  the file are not freed by `sfs_delete_inode`, as `sfs.c:793` says they are.
- `get_data_block` releases the indirect block twice when `sfs.c:792` finds no
  memory (not modelled: `Sfs` has no buffer references).  `proc_load` never
  closes the file it loads (not modelled).
- `bitmap_find` (`pmem.c:279`) returns the number of set bits it has passed, which
  is the index of the free range only as long as the bitmap has no gap; so it is
  at boot, and `Pmem` computes it as the code does.
- `EmptyTrue` (`PageCache`): `radix_tree_empty` is false of a tree whose leaves
  have all been removed, when a level was added that no leaf lies below.
- `NothingLost` (`PageCache`): `memstore_free` frees neither the cached pages nor
  the nodes; the pages of a shared region are lost when it is destroyed.

## Plan

The parts of the kernel that keep state are modelled, and `Shm`, `Sched`,
`Bdev`, `Pipe`, `Proc`, `Sfs`, `Vm` and `Vfs` are proved.  What is left is
`Kmalloc` and `PageCache`, which need lemmas on powers.  No module has a RECURSIVE
operator.

## Not modelled

Boot, processor start, interrupt controller programming, device registers of
console, UART and CGA, the contents of ELF files, and the user programs other than init: sequential set-up or pure I/O.  The journal:
`sfs.c:893` mounts without one, every `jbd_` function then returns at once, and
recovery is an empty function, so that no execution of the kernel has journal
state and there is no crash recovery to check.  The table of superblocks and the
list of file system types are filled once at boot.  The console's input ring is
three indexes under one lock.  Contents of
shared pages and sizes of regions, other than none, are not part of `Shm`: reads
and writes to a mapped region never enter the kernel.  Lists are sets or sequences; their
pointers are not modelled.
