-------------------------------- MODULE Pipe --------------------------------
(***************************************************************************)
(* A pipe and the descriptors that refer to it: kernel/pipe.c, the system  *)
(* calls pipe, read, write, dup and close (kernel/syscall.c), the file     *)
(* table loops of proc_fork and proc_exit (kernel/proc.c), and the         *)
(* reference count of struct file (kernel/fs/fs.c).                        *)
(*                                                                         *)
(* A section under pipe_lock or f_lock is one step.  A close is three      *)
(* sections, of which other processes run in between: the pipe's count,    *)
(* the file's count, kpipe_close.  One pipe is made in a behaviour;        *)
(* descriptors of other files are left out.  A pipe call that fails may    *)
(* leave descriptors of a file that is not set up, or has been freed; the  *)
(* behaviour ends with the first use of one, when anything may happen.     *)
(***************************************************************************)
EXTENDS Integers, FiniteSets, Sequences

CONSTANTS Procs,
          Fds,       \* 0..PROC_MAX_FILE-1
          Bytes,
          PIPE_SZ,
          SIZE_T,    \* 2^64, the number of values of read_ofs, write_ofs
          UINT64,    \* 2^64, the number of values of readers, writers
          Counts,    \* the byte counts that reads and writes ask for
          DupAllowed,  \* whether processes use dup
          MaxBroken, \* pipe calls fail while fewer descriptors are broken
          NULL

ASSUME PipeAssumption ==
  /\ IsFiniteSet(Procs) /\ IsFiniteSet(Fds) /\ Fds \subseteq Nat /\ 0 \in Fds
  /\ PIPE_SZ \in Nat \ {0} /\ SIZE_T \in Nat /\ UINT64 \in Nat
  /\ SIZE_T % PIPE_SZ = 0 /\ SIZE_T > PIPE_SZ
  /\ UINT64 > Cardinality(Procs \X Fds)
  /\ Counts \subseteq Nat
  /\ DupAllowed \in BOOLEAN /\ MaxBroken \in Nat
  /\ NULL \notin Procs \cup {"R", "W", "unset", "stale"}

(* The two struct file of a pipe, named for their oflag, and the one that  *)
(* a failed pipe call leaves: f_ops and kpipe are NULL, oflag FS_RDONLY.   *)
(* One such file is made in a behaviour.                                   *)
Ends == {"R", "W"}
Files == Ends \cup {"unset"}

VARIABLES
  alive,      \* processes that have been made
  files,      \* proc.files: a file, NULL, or "stale": a file that was freed
  f_ref,      \* file.f_ref
  mem,        \* the kpipe: "none", "live" or "freed"
  fd_reader,  \* kpipe.fd_reader
  readers, writers,     \* kpipe.readers, kpipe.writers: uint64_t
  buffer, read_ofs, write_ofs,
  notempty, full,       \* the wait queues of the two condvars
  pc,
  cur,        \* the descriptor that a close, a fork or an exit is at, else 0
  count, data,          \* what a read, a write under way was asked for
  child,      \* the process that a fork is building
  misuse      \* a freed kpipe or file, or one not set up, was used

fdvars   == <<alive, files, f_ref>>
refvars  == <<mem, fd_reader, readers, writers>>
bufvars  == <<buffer, read_ofs, write_ofs>>
waitvars == <<notempty, full, count, data>>
vars == <<alive, files, f_ref, mem, fd_reader, readers, writers, buffer,
          read_ofs, write_ofs, notempty, full, count, data, pc, cur, child,
          misuse>>

PCs == {"run", "read", "write", "close", "kclose", "fork", "exit", "dead"}

-----------------------------------------------------------------------------
(* The ring: offsets grow without a modulo and wrap with the word. *)

Used == (write_ofs - read_ofs) % SIZE_T

Contents == [i \in 1..Used |-> buffer[((read_ofs + i - 1) % SIZE_T) % PIPE_SZ]]

Least(x, y) == IF x < y THEN x ELSE y

Pop(queue) == IF queue = <<>> THEN queue ELSE Tail(queue)

Asleep(p) ==
  \E i \in 1..Len(notempty \o full) : (notempty \o full)[i] = p

(* alloc_fd: the lowest free descriptor. *)
alloc_fd(p) ==
  {i \in Fds : files[p][i] = NULL /\ \A j \in Fds : j < i => files[p][j] # NULL}

-----------------------------------------------------------------------------
(* kpipe_ref_increase, kpipe_ref_decrease: the number of the descriptor    *)
(* decides which count it is; a file that is not set up has no kpipe.      *)

kpipe_ref_increase(f, fd) ==
  IF f \notin Ends THEN UNCHANGED <<readers, writers>>
  ELSE IF fd = fd_reader
  THEN readers' = (readers + 1) % UINT64 /\ UNCHANGED writers
  ELSE writers' = (writers + 1) % UINT64 /\ UNCHANGED readers

kpipe_ref_decrease(f, fd) ==
  IF f \notin Ends THEN UNCHANGED <<readers, writers>>
  ELSE IF fd = fd_reader
  THEN readers' = (readers - 1) % UINT64 /\ UNCHANGED writers
  ELSE writers' = (writers - 1) % UINT64 /\ UNCHANGED readers

(* The second alloc_fd, when the first has returned r. *)
alloc_second(p, r) ==
  {w \in Fds : /\ w > r /\ files[p][w] = NULL
               /\ \A j \in Fds : (r < j /\ j < w) => files[p][j] # NULL}

(* sys_pipe with kpipe_init: two files, one kpipe. *)
sys_pipe(p) ==
  /\ pc[p] = "run" /\ mem = "none"
  /\ \E r \in alloc_fd(p) : \E w \in alloc_second(p, r) :
       /\ files' = [files EXCEPT ![p][r] = "R", ![p][w] = "W"]
       /\ fd_reader' = r
  /\ f_ref' = [f_ref EXCEPT !["R"] = 1, !["W"] = 1]
  /\ mem' = "live"
  /\ readers' = 1 /\ writers' = 1
  /\ UNCHANGED <<alive, bufvars, waitvars, pc, cur, child, misuse>>

(* The failures of sys_pipe that leave something: there is one descriptor  *)
(* only, and its file stays as it is; the second file cannot be had, and   *)
(* the first is freed; the kpipe cannot be had, and both are freed.  The   *)
(* descriptors stay installed.                                             *)
Broken == {d \in Procs \X Fds : files[d[1]][d[2]] \in {"unset", "stale"}}

sys_pipeFail(p) ==
  /\ pc[p] = "run" /\ Cardinality(Broken) < MaxBroken
  /\ \E r \in alloc_fd(p) :
       \/ /\ alloc_second(p, r) = {} /\ f_ref["unset"] = 0
          /\ files' = [files EXCEPT ![p][r] = "unset"]
          /\ f_ref' = [f_ref EXCEPT !["unset"] = 1]
       \/ /\ alloc_second(p, r) # {}
          /\ files' = [files EXCEPT ![p][r] = "stale"]
          /\ UNCHANGED f_ref
       \/ /\ \E w \in alloc_second(p, r) :
               files' = [files EXCEPT ![p][r] = "stale", ![p][w] = "stale"]
          /\ UNCHANGED f_ref
  /\ UNCHANGED <<alive, refvars, bufvars, waitvars, pc, cur, child, misuse>>

-----------------------------------------------------------------------------
(* sys_read and kpipe_read *)

(* Variant: nobody is told of the room. *)
TryReadSilent(p, n) ==
  \/ /\ Used = 0 /\ writers = 0     \* end of file
     /\ pc' = [pc EXCEPT ![p] = "run"]
     /\ count' = [count EXCEPT ![p] = 0]
     /\ UNCHANGED <<bufvars, notempty, full, data>>
  \/ /\ Used = 0 /\ writers # 0
     /\ notempty' = Append(notempty, p)
     /\ pc' = [pc EXCEPT ![p] = "read"]
     /\ count' = [count EXCEPT ![p] = n]
     /\ UNCHANGED <<bufvars, full, data>>
  \/ /\ Used # 0
     /\ LET k == Least(n, Used) IN
        /\ read_ofs' = (read_ofs + k) % SIZE_T
        /\ full' = full
     /\ pc' = [pc EXCEPT ![p] = "run"]
     /\ count' = [count EXCEPT ![p] = 0]
     /\ UNCHANGED <<buffer, write_ofs, notempty, data>>

TryRead(p, n) ==
  \/ /\ Used = 0 /\ writers = 0     \* end of file
     /\ pc' = [pc EXCEPT ![p] = "run"]
     /\ count' = [count EXCEPT ![p] = 0]
     /\ UNCHANGED <<bufvars, notempty, full, data>>
  \/ /\ Used = 0 /\ writers # 0
     /\ notempty' = Append(notempty, p)
     /\ pc' = [pc EXCEPT ![p] = "read"]
     /\ count' = [count EXCEPT ![p] = n]
     /\ UNCHANGED <<bufvars, full, data>>
  \/ /\ Used # 0
     /\ LET k == Least(n, Used) IN
        /\ read_ofs' = (read_ofs + k) % SIZE_T
        /\ full' = IF k > 0 THEN Pop(full) ELSE full
     /\ pc' = [pc EXCEPT ![p] = "run"]
     /\ count' = [count EXCEPT ![p] = 0]
     /\ UNCHANGED <<buffer, write_ofs, notempty, data>>

sys_read(p, n) ==
  /\ pc[p] = "run"
  /\ \E fd \in Fds : files[p][fd] = "R"
  /\ TryRead(p, n)
  /\ UNCHANGED <<fdvars, refvars, cur, child, misuse>>

ReadWake(p) ==
  /\ pc[p] = "read" /\ ~Asleep(p)
  /\ TryRead(p, count[p])
  /\ UNCHANGED <<fdvars, refvars, cur, child, misuse>>

-----------------------------------------------------------------------------
(* sys_write and kpipe_write: as much of the block as there is room for *)

(* Variant: the bytes go in at the read end. *)
TryWriteLow(p, block) ==
  \/ /\ Used = PIPE_SZ
     /\ full' = Append(full, p)
     /\ pc' = [pc EXCEPT ![p] = "write"]
     /\ data' = [data EXCEPT ![p] = block]
     /\ UNCHANGED <<bufvars, notempty, count>>
  \/ /\ Used # PIPE_SZ
     /\ LET k == Least(Len(block), PIPE_SZ - Used) IN
        /\ buffer' = [i \in 0..(PIPE_SZ - 1) |->
                        LET j == (i - read_ofs) % PIPE_SZ   \* byte j of block
                        IN  IF j < k THEN block[j + 1] ELSE buffer[i]]
        /\ write_ofs' = (write_ofs + k) % SIZE_T
        /\ notempty' = IF k > 0 THEN Pop(notempty) ELSE notempty
     /\ pc' = [pc EXCEPT ![p] = "run"]
     /\ data' = [data EXCEPT ![p] = <<>>]
     /\ UNCHANGED <<read_ofs, full, count>>

TryWrite(p, block) ==
  \/ /\ Used = PIPE_SZ
     /\ full' = Append(full, p)
     /\ pc' = [pc EXCEPT ![p] = "write"]
     /\ data' = [data EXCEPT ![p] = block]
     /\ UNCHANGED <<bufvars, notempty, count>>
  \/ /\ Used # PIPE_SZ
     /\ LET k == Least(Len(block), PIPE_SZ - Used) IN
        /\ buffer' = [i \in 0..(PIPE_SZ - 1) |->
                        LET j == (i - write_ofs) % PIPE_SZ   \* byte j of block
                        IN  IF j < k THEN block[j + 1] ELSE buffer[i]]
        /\ write_ofs' = (write_ofs + k) % SIZE_T
        /\ notempty' = IF k > 0 THEN Pop(notempty) ELSE notempty
     /\ pc' = [pc EXCEPT ![p] = "run"]
     /\ data' = [data EXCEPT ![p] = <<>>]
     /\ UNCHANGED <<read_ofs, full, count>>

(* Without readers the call fails at once. *)
sys_write(p, block) ==
  /\ pc[p] = "run"
  /\ \E fd \in Fds : files[p][fd] = "W"
  /\ readers # 0
  /\ TryWrite(p, block)
  /\ UNCHANGED <<fdvars, refvars, cur, child, misuse>>

(* A woken writer does not look at readers again. *)
WriteWake(p) ==
  /\ pc[p] = "write" /\ ~Asleep(p)
  /\ TryWrite(p, data[p])
  /\ UNCHANGED <<fdvars, refvars, cur, child, misuse>>

-----------------------------------------------------------------------------
(* dup, fork.  The two counts are raised one after the other; the caller's *)
(* own descriptor keeps the file alive in between, so this is one step.    *)

sys_dup(p, fd) ==
  /\ DupAllowed
  /\ pc[p] = "run" /\ files[p][fd] \in Files
  /\ kpipe_ref_increase(files[p][fd], fd)
  /\ \E i \in alloc_fd(p) : files' = [files EXCEPT ![p][i] = files[p][fd]]
  /\ f_ref' = [f_ref EXCEPT ![files[p][fd]] = @ + 1]
  /\ UNCHANGED <<alive, mem, fd_reader, bufvars, waitvars, pc, cur, child,
                 misuse>>

proc_fork(p, q) ==
  /\ pc[p] = "run" /\ q \notin alive
  /\ alive' = alive \cup {q}
  /\ child' = [child EXCEPT ![p] = q]
  /\ pc' = [pc EXCEPT ![p] = "fork"]
  /\ UNCHANGED <<files, f_ref, refvars, bufvars, waitvars, cur, misuse>>

(* The lowest descriptor of p from cur on that is open. *)
NextOpen(p) ==
  {i \in Fds : /\ i >= cur[p] /\ files[p][i] # NULL
               /\ \A j \in Fds : (cur[p] <= j /\ j < i) => files[p][j] = NULL}

ForkFile(p) ==
  /\ pc[p] = "fork"
  /\ \E i \in NextOpen(p) :
       /\ files[p][i] # "stale"
       /\ kpipe_ref_increase(files[p][i], i)
       /\ files' = [files EXCEPT ![child[p]][i] = files[p][i]]
       /\ f_ref' = [f_ref EXCEPT ![files[p][i]] = @ + 1]
       /\ cur' = [cur EXCEPT ![p] = i + 1]
  /\ UNCHANGED <<alive, mem, fd_reader, bufvars, waitvars, pc, child,
                 misuse>>

(* The child starts to run. *)
ForkDone(p) ==
  /\ pc[p] = "fork" /\ NextOpen(p) = {}
  /\ pc' = [pc EXCEPT ![p] = "run", ![child[p]] = "run"]
  /\ child' = [child EXCEPT ![p] = NULL]
  /\ cur' = [cur EXCEPT ![p] = 0]
  /\ UNCHANGED <<fdvars, refvars, bufvars, waitvars, misuse>>

-----------------------------------------------------------------------------
(* close and exit *)

sys_close(p, fd) ==
  /\ pc[p] = "run" /\ files[p][fd] \in Files
  /\ kpipe_ref_decrease(files[p][fd], fd)
  /\ cur' = [cur EXCEPT ![p] = fd]
  /\ pc' = [pc EXCEPT ![p] = "close"]
  /\ UNCHANGED <<fdvars, mem, fd_reader, bufvars, waitvars, child, misuse>>

proc_exit(p) ==
  /\ pc[p] = "run"
  /\ child' = [child EXCEPT ![p] = p]    \* marks the loop of an exit
  /\ pc' = [pc EXCEPT ![p] = "exit"]
  /\ UNCHANGED <<fdvars, refvars, bufvars, waitvars, cur, misuse>>

ExitFile(p) ==
  /\ pc[p] = "exit"
  /\ \E i \in NextOpen(p) :
       /\ files[p][i] # "stale"
       /\ kpipe_ref_decrease(files[p][i], i)
       /\ cur' = [cur EXCEPT ![p] = i]
  /\ pc' = [pc EXCEPT ![p] = "close"]
  /\ UNCHANGED <<fdvars, mem, fd_reader, bufvars, waitvars, child, misuse>>

ExitDone(p) ==
  /\ pc[p] = "exit" /\ NextOpen(p) = {}
  /\ pc' = [pc EXCEPT ![p] = "dead"]
  /\ UNCHANGED <<fdvars, refvars, bufvars, waitvars, cur, child, misuse>>

(* The end of a close: the descriptor is free, and the loop goes on. *)
Closed(p) ==
  /\ files' = [files EXCEPT ![p][cur[p]] = NULL]
  /\ pc' = [pc EXCEPT ![p] = IF child[p] = p THEN "exit" ELSE "run"]
  /\ cur' = [cur EXCEPT ![p] = 0]

fs_close_file(p) ==
  LET f == files[p][cur[p]] IN
  /\ pc[p] = "close"
  /\ f_ref' = [f_ref EXCEPT ![f] = @ - 1]
  /\ \/ f_ref[f] > 1 /\ Closed(p)
     \/ /\ f_ref[f] = 1
        /\ pc' = [pc EXCEPT ![p] = "kclose"]
        /\ UNCHANGED <<files, cur>>
  /\ UNCHANGED <<alive, refvars, bufvars, waitvars, child, misuse>>

(* Variant: one end without users is enough. *)
kpipe_closeEither(p) ==
  /\ pc[p] = "kclose" /\ files[p][cur[p]] \in Ends
  /\ Closed(p)
  /\ mem' = IF readers = 0 \/ writers = 0 THEN "freed" ELSE mem
  /\ misuse' = (mem = "freed")
  /\ UNCHANGED <<alive, f_ref, fd_reader, readers, writers, bufvars, waitvars,
                 child>>

(* The file's last reference is gone: free the pipe if both counts are 0.  *)
(* A second process that comes here finds the kpipe freed.                 *)
kpipe_close(p) ==
  /\ pc[p] = "kclose" /\ files[p][cur[p]] \in Ends
  /\ Closed(p)
  /\ mem' = IF readers = 0 /\ writers = 0 THEN "freed" ELSE mem
  /\ misuse' = (mem = "freed")
  /\ UNCHANGED <<alive, f_ref, fd_reader, readers, writers, bufvars, waitvars,
                 child>>

(* What sys_pipeFail has left is used: a freed file by a read, a write, a  *)
(* dup or a close, a fork or an exit; the missing f_ops of the file that   *)
(* is not set up by a read or its last close.                              *)
UseBroken(p) ==
  /\ \/ pc[p] = "run" /\ \E fd \in Fds : files[p][fd] \in {"stale", "unset"}
     \/ /\ pc[p] \in {"fork", "exit"}
        /\ \E i \in NextOpen(p) : files[p][i] = "stale"
     \/ pc[p] = "kclose" /\ files[p][cur[p]] = "unset"
  /\ misuse' = TRUE
  /\ UNCHANGED <<fdvars, refvars, bufvars, waitvars, pc, cur, child>>

-----------------------------------------------------------------------------

Init ==
  /\ \E p \in Procs :
       /\ alive = {p}
       /\ pc = [q \in Procs |-> IF q = p THEN "run" ELSE "dead"]
  /\ files = [p \in Procs |-> [fd \in Fds |-> NULL]]
  /\ f_ref = [f \in Files |-> 0]
  /\ mem = "none" /\ fd_reader = 0
  /\ readers = 0 /\ writers = 0
  /\ \E b \in Bytes : buffer = [i \in 0..(PIPE_SZ - 1) |-> b]
  /\ read_ofs = 0 /\ write_ofs = 0
  /\ notempty = <<>> /\ full = <<>>
  /\ cur = [p \in Procs |-> 0]
  /\ count = [p \in Procs |-> 0]
  /\ data = [p \in Procs |-> <<>>]
  /\ child = [p \in Procs |-> NULL]
  /\ misuse = FALSE

Blocks == UNION {[1..n -> Bytes] : n \in Counts}

Call(p) ==
  \/ sys_pipe(p) \/ sys_pipeFail(p)
  \/ \E n \in Counts : sys_read(p, n)
  \/ \E block \in Blocks : sys_write(p, block)
  \/ \E fd \in Fds : sys_dup(p, fd) \/ sys_close(p, fd)
  \/ \E q \in Procs : proc_fork(p, q)
  \/ proc_exit(p)

Continue(p) ==
  \/ ReadWake(p) \/ WriteWake(p)
  \/ ForkFile(p) \/ ForkDone(p) \/ ExitFile(p) \/ ExitDone(p)
  \/ fs_close_file(p) \/ kpipe_close(p)

Next == ~misuse /\ \E p \in Procs : Call(p) \/ Continue(p) \/ UseBroken(p)

Spec == Init /\ [][Next]_vars

(* A call under way goes on when its thread can run; nobody has to call. *)
FairSpec == Spec /\ \A p \in Procs : WF_vars(~misuse /\ Continue(p))

-----------------------------------------------------------------------------
(* Properties *)

(* The variables have the shapes of the C fields; the ring never holds     *)
(* more than PIPE_SZ bytes.                                                *)
TypeOK ==
  /\ alive \subseteq Procs
  /\ files \in [Procs -> [Fds -> Files \cup {"stale", NULL}]]
  /\ f_ref \in [Files -> Nat]
  /\ mem \in {"none", "live", "freed"} /\ fd_reader \in Fds
  /\ readers \in 0..(UINT64 - 1) /\ writers \in 0..(UINT64 - 1)
  /\ buffer \in [0..(PIPE_SZ - 1) -> Bytes]
  /\ read_ofs \in 0..(SIZE_T - 1) /\ write_ofs \in 0..(SIZE_T - 1)
  /\ Used <= PIPE_SZ
  /\ notempty \in Seq(Procs) /\ full \in Seq(Procs)
  /\ count \in [Procs -> Nat] /\ data \in [Procs -> Seq(Bytes)]
  /\ pc \in [Procs -> PCs]
  /\ cur \in [Procs -> Nat]
  /\ child \in [Procs -> Procs \cup {NULL}]
  /\ misuse \in BOOLEAN

(* Descriptors, of all the processes, that refer to file f; some of them   *)
(* are on the way out and have given up the pipe's or the file's count.    *)
Open(f) == {d \in Procs \X Fds : files[d[1]][d[2]] = f}
Past(at, f) == {p \in Procs : pc[p] \in at /\ files[p][cur[p]] = f}

(* f_ref counts the descriptors of a file exactly, so the file is freed by *)
(* the last close and by no other; a file that is not set up too.          *)
RefExact ==
  \A f \in Files :
    f_ref[f] = Cardinality(Open(f)) - Cardinality(Past({"kclose"}, f))

(* However descriptors are duplicated and closed, the two counts of a pipe *)
(* together count its descriptors (modulo the word), and none of those     *)
(* that failed pipe calls leave, ...                                       *)
CountsSum ==
  mem # "none" =>
    (readers + writers) % UINT64 =
      (Cardinality(Open("R") \cup Open("W"))
         - Cardinality(Past({"close", "kclose"}, "R"))
         - Cardinality(Past({"close", "kclose"}, "W"))) % UINT64

(* ... so that a pipe is never freed while a descriptor is open or a       *)
(* process sleeps in one of its queues.                                    *)
FreedUnused ==
  mem = "freed" =>
    /\ \A p \in Procs, fd \in Fds :
         files[p][fd] \in Ends =>
           pc[p] \in {"close", "kclose"} /\ cur[p] = fd
    /\ notempty = <<>> /\ full = <<>>

(* The counts of files and of the pipe: each file is freed by its last     *)
(* close, and the pipe after its last descriptor, never before, however    *)
(* forks, dups, closes and exits interleave, and pipe calls fail.          *)
CountsSound == TypeOK /\ RefExact /\ CountsSum /\ FreedUnused

(* Readers wait for bytes and writers for room: not both at once, unless a *)
(* process of either kind has been woken. So it is for calls that ask for  *)
(* at least one byte (Counts without 0): a call with count 0 may take a    *)
(* wakeup and pass none on.                                                *)
NotBothAsleep ==
  (notempty # <<>> /\ full # <<>>) =>
    \E p \in Procs : pc[p] \in {"read", "write"} /\ ~Asleep(p)

(* Used by the refinement. *)
Channel == INSTANCE ByteChannel WITH q <- Contents, Capacity <- PIPE_SZ

(* The ring with its wrapping offsets is a bounded fifo channel, for       *)
(* whatever number of readers and writers: no byte is lost, repeated or    *)
(* reordered, and a block goes in in one piece.                            *)
Implements == Channel!Spec

-----------------------------------------------------------------------------
(* What documentation says and the code does not do *)

(* "Decrements the appropriate reader/writer count": readers counts the    *)
(* descriptors of the read end.                                            *)
CountsExact ==
  mem = "live" =>
    readers = Cardinality(Open("R")) - Cardinality(Past({"close", "kclose"}, "R"))

(* A read from a pipe with no open write descriptors returns: the data, or *)
(* end of file.                                                            *)
EofSeen ==
  \A p \in Procs : (pc[p] = "read" /\ Open("W") = {}) ~> pc[p] # "read"

(* A write to a pipe with no open read descriptors returns an error. *)
DeafSeen ==
  \A p \in Procs : (pc[p] = "write" /\ Open("R") = {}) ~> pc[p] # "write"

(* A read blocks until there are bytes to read: bytes that stay in the     *)
(* pipe go to a reader that waits.                                         *)
ReadServed ==
  \A p \in Procs : (pc[p] = "read" /\ Used # 0) ~> (pc[p] # "read" \/ Used = 0)

(* A pipe is deallocated when appropriate: no process uses it, or frees it *)
(* again, after it has been freed.                                         *)
FreedOnce == ~misuse

=============================================================================
