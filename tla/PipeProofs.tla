----------------------------- MODULE PipeProofs -----------------------------
(***************************************************************************)
(* Proofs about Pipe: for any number of processes and descriptors, any     *)
(* size of the ring that divides the word, and any word.                   *)
(***************************************************************************)
EXTENDS Pipe, FunctionTheorems, FiniteSetTheorems, SequenceTheorems, TLAPS

-----------------------------------------------------------------------------
(* Arithmetic of a word *)

(* Every integer has a quotient and a remainder. *)
LEMMA DivMod ==
  ASSUME NEW n \in Nat \ {0}, NEW x \in Int
  PROVE  \E q \in Int, r \in 0..(n - 1) : x = n * q + r /\ x % n = r
<1>1. PICK q \in Int : q = x \div n
  OBVIOUS
<1>2. PICK r \in 0..(n - 1) : r = x % n
  OBVIOUS
<1>3. x = n * q + r
  BY <1>1, <1>2
<1> QED
  BY <1>2, <1>3

(* The remainder is the only one. *)
LEMMA Residue ==
  ASSUME NEW n \in Nat \ {0}, NEW x \in Int, NEW q \in Int,
         NEW r \in 0..(n - 1), x = n * q + r
  PROVE  x % n = r
OBVIOUS

(* Multiples of the modulus do not count. *)
LEMMA Congruent ==
  ASSUME NEW n \in Nat \ {0}, NEW x \in Int, NEW m \in Int
  PROVE  (x + n * m) % n = x % n
<1>1. PICK q \in Int, r \in 0..(n - 1) : x = n * q + r /\ x % n = r
  BY DivMod
<1>2. x + n * m = n * (q + m) + r
  BY <1>1
<1>3. q + m \in Int /\ n * m \in Int /\ x + n * m \in Int
  OBVIOUS
<1> QED
  BY <1>1, <1>2, <1>3, Residue

(* A value that leaves the range once comes back by one modulus. *)
LEMMA Wrap ==
  ASSUME NEW n \in Nat \ {0}, NEW x \in Int, -n <= x, x < 2 * n
  PROVE  x % n = IF x < 0 THEN x + n ELSE IF x < n THEN x ELSE x - n
<1>1. CASE x < 0
  <2>1. x + n \in 0..(n - 1) /\ x = n * (-1) + (x + n)
    BY <1>1
  <2> QED
    BY <1>1, <2>1, Residue
<1>2. CASE 0 <= x /\ x < n
  BY <1>2
<1>3. CASE x >= n
  <2>1. x - n \in 0..(n - 1) /\ x = n * 1 + (x - n)
    BY <1>3
  <2> QED
    BY <1>3, <2>1, Residue
<1> QED
  BY <1>1, <1>2, <1>3

-----------------------------------------------------------------------------
(* The inductive invariant *)

(* The descriptors that kpipe.readers and kpipe.writers count, and those   *)
(* that f_ref counts: all that are open but the one that its process is    *)
(* closing and has counted down already.                                   *)
Closing(p, fd) == pc[p] \in {"close", "kclose"} /\ cur[p] = fd
Dropped(p, fd) == pc[p] = "kclose" /\ cur[p] = fd

Counted == {d \in Procs \X Fds : /\ files[d[1]][d[2]] \in Ends
                                 /\ ~Closing(d[1], d[2])}
Held(f) == {d \in Procs \X Fds : /\ files[d[1]][d[2]] = f
                                 /\ ~Dropped(d[1], d[2])}

(* What a process has between its steps. *)
ProcsSound ==
  \A p \in Procs :
    /\ pc[p] # "dead" => p \in alive
    /\ p \notin alive => \A fd \in Fds : files[p][fd] = NULL
    /\ pc[p] \in {"read", "write"} => \E fd \in Fds : files[p][fd] \in Ends
    /\ pc[p] \in {"close", "kclose"} =>
         cur[p] \in Fds /\ files[p][cur[p]] \in Files

(* The child that a fork builds runs nowhere and is built by nobody else,  *)
(* and its descriptors from cur on are free.                               *)
ForksSound ==
  \A p \in Procs : pc[p] = "fork" =>
    /\ child[p] \in alive /\ pc[child[p]] = "dead"
    /\ \A fd \in Fds : fd >= cur[p] => files[child[p]][fd] = NULL
    /\ \A q \in Procs : pc[q] = "fork" /\ child[q] = child[p] => q = p

RefSound == \A f \in Files : f_ref[f] = Cardinality(Held(f))

(* The sum of the counts, each of which may have wrapped. *)
SumSound ==
  mem # "none" =>
    \/ readers + writers = Cardinality(Counted)
    \/ readers + writers = Cardinality(Counted) + UINT64

MemSound ==
  /\ mem = "none" => \A p \in Procs, fd \in Fds : files[p][fd] \notin Ends
  /\ mem = "freed" => Counted = {}

In(queue, p) == \E i \in 1..Len(queue) : queue[i] = p

(* A process is in the queue that it waits in, once. *)
QueuesSound ==
  /\ \A i \in 1..Len(notempty) : pc[notempty[i]] = "read"
  /\ \A i \in 1..Len(full) : pc[full[i]] = "write"
  /\ \A i, j \in 1..Len(notempty) : notempty[i] = notempty[j] => i = j
  /\ \A i, j \in 1..Len(full) : full[i] = full[j] => i = j

Inv == /\ TypeOK /\ ProcsSound /\ ForksSound /\ RefSound /\ SumSound
       /\ MemSound /\ QueuesSound

AskedSound ==
  \A p \in Procs :
    /\ pc[p] = "read" => count[p] \in Counts
    /\ pc[p] = "write" => Len(data[p]) \in Counts

(* Writers that wait while the pipe is empty, and readers that wait while  *)
(* it is full, have been left a wakeup.                                    *)
WakeSound ==
  /\ full # <<>> /\ Used = 0 =>
       \E p \in Procs : pc[p] = "write" /\ ~Asleep(p)
  /\ notempty # <<>> /\ Used = PIPE_SZ =>
       \E p \in Procs : pc[p] = "read" /\ ~Asleep(p)

-----------------------------------------------------------------------------
(* The counts *)

(* kpipe_ref_increase and kpipe_ref_decrease change the sum by one, modulo *)
(* the word.                                                               *)
LEMMA Increase ==
  ASSUME TypeOK, NEW fd \in Fds, NEW f \in Ends, kpipe_ref_increase(f, fd),
         NEW N \in Nat, N + 1 < UINT64,
         readers + writers = N \/ readers + writers = N + UINT64
  PROVE  /\ readers' \in 0..(UINT64 - 1) /\ writers' \in 0..(UINT64 - 1)
         /\ \/ readers' + writers' = N + 1
            \/ readers' + writers' = N + 1 + UINT64
<1>1. /\ UINT64 \in Nat \ {0}
      /\ readers \in 0..(UINT64 - 1) /\ writers \in 0..(UINT64 - 1)
  BY PipeAssumption DEF TypeOK
<1>2. \A x \in 0..(UINT64 - 1) :
        (x + 1) % UINT64 = IF x + 1 < UINT64 THEN x + 1 ELSE 0
  <2> TAKE x \in 0..(UINT64 - 1)
  <2>1. PICK y \in Int : y = x + 1
    OBVIOUS
  <2>2. -UINT64 <= y /\ y < 2 * UINT64
    BY <1>1, <2>1
  <2>3. y % UINT64 = IF y < 0 THEN y + UINT64
                     ELSE IF y < UINT64 THEN y ELSE y - UINT64
    BY <1>1, <2>2, Wrap
  <2> QED
    BY <1>1, <2>1, <2>3
<1>3. \/ /\ readers' = IF readers + 1 < UINT64 THEN readers + 1 ELSE 0
         /\ writers' = writers
      \/ /\ writers' = IF writers + 1 < UINT64 THEN writers + 1 ELSE 0
         /\ readers' = readers
  BY <1>1, <1>2 DEF kpipe_ref_increase
<1> QED
  BY <1>1, <1>3

(* The same for a descriptor that is closed. *)
LEMMA Decrease ==
  ASSUME TypeOK, NEW fd \in Fds, NEW f \in Ends, kpipe_ref_decrease(f, fd),
         NEW N \in Nat, N + 1 < UINT64,
         \/ readers + writers = N + 1
         \/ readers + writers = N + 1 + UINT64
  PROVE  /\ readers' \in 0..(UINT64 - 1) /\ writers' \in 0..(UINT64 - 1)
         /\ readers' + writers' = N \/ readers' + writers' = N + UINT64
<1>1. /\ UINT64 \in Nat \ {0}
      /\ readers \in 0..(UINT64 - 1) /\ writers \in 0..(UINT64 - 1)
  BY PipeAssumption DEF TypeOK
<1>2. \A x \in 0..(UINT64 - 1) :
        (x - 1) % UINT64 = IF x > 0 THEN x - 1 ELSE UINT64 - 1
  <2> TAKE x \in 0..(UINT64 - 1)
  <2>1. PICK y \in Int : y = x - 1
    OBVIOUS
  <2>2. -UINT64 <= y /\ y < 2 * UINT64
    BY <1>1, <2>1
  <2>3. y % UINT64 = IF y < 0 THEN y + UINT64
                     ELSE IF y < UINT64 THEN y ELSE y - UINT64
    BY <1>1, <2>2, Wrap
  <2> QED
    BY <1>1, <2>1, <2>3
<1>3. \/ /\ readers' = IF readers > 0 THEN readers - 1 ELSE UINT64 - 1
         /\ writers' = writers
      \/ /\ writers' = IF writers > 0 THEN writers - 1 ELSE UINT64 - 1
         /\ readers' = readers
  BY <1>1, <1>2 DEF kpipe_ref_decrease
<1> QED
  BY <1>1, <1>3

(* A descriptor of a process is a pair. *)
LEMMA Pairs ==
  ASSUME NEW d \in Procs \X Fds
  PROVE  \E q \in Procs, j \in Fds : d = <<q, j>>
OBVIOUS

(* The sets of descriptors are finite and smaller than the word. *)
LEMMA FiniteCounts ==
  /\ IsFiniteSet(Counted) /\ Cardinality(Counted) \in Nat
  /\ Cardinality(Counted) < UINT64
  /\ \A f : IsFiniteSet(Held(f)) /\ Cardinality(Held(f)) \in Nat
  /\ UINT64 > 0
<1>1. IsFiniteSet(Procs \X Fds)
  BY PipeAssumption, FS_Product
<1>2. Counted \subseteq Procs \X Fds /\ \A f : Held(f) \subseteq Procs \X Fds
  BY DEF Counted, Held
<1>3. /\ IsFiniteSet(Counted) /\ \A f : IsFiniteSet(Held(f))
      /\ Cardinality(Counted) <= Cardinality(Procs \X Fds)
  BY <1>1, <1>2, FS_Subset
<1>4. Cardinality(Procs \X Fds) \in Nat /\ Cardinality(Counted) \in Nat
  BY <1>1, <1>3, FS_CardinalityType
<1> QED
  BY <1>3, <1>4, FS_CardinalityType, PipeAssumption

(* What tells whether two such sets are the same. *)
LEMMA SameDescriptors ==
  /\ \A f : (\A q \in Procs, j \in Fds :
              files'[q][j] = f /\ ~Dropped(q, j)' <=>
                files[q][j] = f /\ ~Dropped(q, j)) => Held(f)' = Held(f)
  /\ (\A q \in Procs, j \in Fds :
        files'[q][j] \in Ends /\ ~Closing(q, j)' <=>
          files[q][j] \in Ends /\ ~Closing(q, j)) => Counted' = Counted
BY DEF Held, Counted

(* NULL and a freed file are no file, and the ends are files. *)
LEMMA FilesAre ==
  /\ NULL \notin Files /\ "stale" \notin Files /\ NULL \notin Ends
  /\ Ends \subseteq Files /\ Files = Ends \cup {"unset"}
  /\ "R" \in Ends /\ "W" \in Ends /\ "unset" \notin Ends
  /\ "stale" \notin Ends /\ NULL # "stale" /\ NULL # "unset"
BY PipeAssumption DEF Files, Ends

(* A step that opens, closes and counts no descriptor. *)
LEMMA CountFrame ==
  ASSUME UNCHANGED <<files, f_ref, mem, readers, writers>>,
         RefSound, SumSound, MemSound,
         \A p \in Procs, fd \in Fds :
           /\ Closing(p, fd)' <=> Closing(p, fd)
           /\ Dropped(p, fd)' <=> Dropped(p, fd)
  PROVE  RefSound' /\ SumSound' /\ MemSound'
<1>1. Counted' = Counted
  BY DEF Counted
<1>2. \A f \in Files : Held(f)' = Held(f)
  BY DEF Held
<1>3. RefSound'
  BY <1>2 DEF RefSound
<1> QED
  BY <1>1, <1>3 DEF SumSound, MemSound

-----------------------------------------------------------------------------
(* The ring *)

(* A remainder of the word, for a value that leaves its range once. *)
LEMMA WrapSize ==
  ASSUME NEW x \in Int, -SIZE_T <= x, x < 2 * SIZE_T
  PROVE  x % SIZE_T = IF x < 0 THEN x + SIZE_T
                      ELSE IF x < SIZE_T THEN x ELSE x - SIZE_T
<1>1. SIZE_T \in Nat \ {0}
  BY PipeAssumption
<1> QED
  BY <1>1, Wrap

(* The offsets are words and the ring is smaller than the word. *)
LEMMA SizeType ==
  ASSUME TypeOK
  PROVE  /\ SIZE_T \in Nat \ {0} /\ PIPE_SZ \in Nat \ {0} /\ PIPE_SZ < SIZE_T
         /\ read_ofs \in 0..(SIZE_T - 1) /\ write_ofs \in 0..(SIZE_T - 1)
         /\ Used <= PIPE_SZ
BY PipeAssumption DEF TypeOK

(* What the offsets, which wrap with the word, say of the bytes in it. *)
LEMMA UsedIs ==
  ASSUME TypeOK
  PROVE  /\ Used = IF write_ofs >= read_ofs THEN write_ofs - read_ofs
                   ELSE write_ofs - read_ofs + SIZE_T
         /\ Used \in 0..PIPE_SZ
<1>1. /\ write_ofs - read_ofs \in Int /\ -SIZE_T <= write_ofs - read_ofs
      /\ write_ofs - read_ofs < 2 * SIZE_T
  BY SizeType
<1>2. Used = IF write_ofs - read_ofs < 0 THEN write_ofs - read_ofs + SIZE_T
             ELSE IF write_ofs - read_ofs < SIZE_T THEN write_ofs - read_ofs
             ELSE write_ofs - read_ofs - SIZE_T
  BY <1>1, WrapSize DEF Used
<1> QED
  BY <1>2, SizeType

(* What a read of k bytes does to the offsets and to what they hold. *)
LEMMA ReadRing ==
  ASSUME TypeOK, NEW k \in 0..Used, write_ofs' = write_ofs,
         read_ofs' = (read_ofs + k) % SIZE_T
  PROVE  /\ read_ofs' \in 0..(SIZE_T - 1) /\ Used' = Used - k
         /\ read_ofs' = IF read_ofs + k < SIZE_T THEN read_ofs + k
                        ELSE read_ofs + k - SIZE_T
<1>1. /\ k \in 0..PIPE_SZ /\ read_ofs + k \in Int
      /\ -SIZE_T <= read_ofs + k /\ read_ofs + k < 2 * SIZE_T
  BY UsedIs, SizeType
<1>2. read_ofs' = IF read_ofs + k < SIZE_T THEN read_ofs + k
                  ELSE read_ofs + k - SIZE_T
  <2>1. PICK y \in Int : y = read_ofs + k
    BY <1>1
  <2>2. y % SIZE_T = IF y < 0 THEN y + SIZE_T
                     ELSE IF y < SIZE_T THEN y ELSE y - SIZE_T
    BY <1>1, <2>1, WrapSize
  <2> QED
    BY <1>1, <2>1, <2>2, SizeType
<1>3. /\ read_ofs' \in 0..(SIZE_T - 1)
      /\ read_ofs' = IF read_ofs + k < SIZE_T THEN read_ofs + k
                     ELSE read_ofs + k - SIZE_T
  BY <1>1, <1>2, SizeType
<1>4. /\ write_ofs - read_ofs' \in Int /\ -SIZE_T <= write_ofs - read_ofs'
      /\ write_ofs - read_ofs' < 2 * SIZE_T
  BY <1>3, SizeType
<1>5. Used' = IF write_ofs - read_ofs' < 0
              THEN write_ofs - read_ofs' + SIZE_T
              ELSE IF write_ofs - read_ofs' < SIZE_T
              THEN write_ofs - read_ofs' ELSE write_ofs - read_ofs' - SIZE_T
  BY <1>4, WrapSize DEF Used
<1> QED
  BY <1>1, <1>3, <1>5, UsedIs, SizeType

(* What a write of k bytes does to them. *)
LEMMA WriteRing ==
  ASSUME TypeOK, NEW k \in 0..(PIPE_SZ - Used), read_ofs' = read_ofs,
         write_ofs' = (write_ofs + k) % SIZE_T
  PROVE  /\ write_ofs' \in 0..(SIZE_T - 1) /\ Used' = Used + k
         /\ write_ofs' = IF write_ofs + k < SIZE_T THEN write_ofs + k
                         ELSE write_ofs + k - SIZE_T
<1>1. /\ k \in 0..PIPE_SZ /\ write_ofs + k \in Int
      /\ -SIZE_T <= write_ofs + k /\ write_ofs + k < 2 * SIZE_T
  BY UsedIs, SizeType
<1>2. write_ofs' = IF write_ofs + k < SIZE_T THEN write_ofs + k
                  ELSE write_ofs + k - SIZE_T
  <2>1. PICK y \in Int : y = write_ofs + k
    BY <1>1
  <2>2. y % SIZE_T = IF y < 0 THEN y + SIZE_T
                     ELSE IF y < SIZE_T THEN y ELSE y - SIZE_T
    BY <1>1, <2>1, WrapSize
  <2> QED
    BY <1>1, <2>1, <2>2, SizeType
<1>3. /\ write_ofs' \in 0..(SIZE_T - 1)
      /\ write_ofs' = IF write_ofs + k < SIZE_T THEN write_ofs + k
                      ELSE write_ofs + k - SIZE_T
  BY <1>1, <1>2, SizeType
<1>4. /\ write_ofs' - read_ofs \in Int /\ -SIZE_T <= write_ofs' - read_ofs
      /\ write_ofs' - read_ofs < 2 * SIZE_T
  BY <1>3, SizeType
<1>5. Used' = IF write_ofs' - read_ofs < 0
              THEN write_ofs' - read_ofs + SIZE_T
              ELSE IF write_ofs' - read_ofs < SIZE_T
              THEN write_ofs' - read_ofs ELSE write_ofs' - read_ofs - SIZE_T
  BY <1>4, WrapSize DEF Used
<1>6. Used' = IF write_ofs' >= read_ofs THEN write_ofs' - read_ofs
              ELSE write_ofs' - read_ofs + SIZE_T
  BY <1>3, <1>5, SizeType
<1>7. k <= PIPE_SZ - Used
  BY UsedIs, SizeType
<1> QED
  BY <1>1, <1>3, <1>6, <1>7, UsedIs, SizeType

(* Least. *)
LEMMA LeastIs ==
  ASSUME NEW x \in Nat, NEW y \in Nat
  PROVE  /\ Least(x, y) \in 0..y /\ Least(x, y) \in 0..x
         /\ x > 0 /\ y > 0 => Least(x, y) > 0
BY DEF Least

-----------------------------------------------------------------------------
(* Forks under way *)

(* A step of a process that is not being built and does not fork. *)
LEMMA ForksFrame ==
  ASSUME TypeOK, ForksSound, UNCHANGED <<alive, child>>,
         NEW p \in Procs, pc[p] # "dead", pc'[p] # "fork",
         \A q \in Procs : q # p => pc'[q] = pc[q] /\ cur'[q] = cur[q],
         \A q \in Procs, j \in Fds : q # p => files'[q][j] = files[q][j]
  PROVE  ForksSound'
<1> SUFFICES ASSUME NEW r \in Procs, pc'[r] = "fork"
             PROVE  /\ child[r] \in alive /\ pc'[child[r]] = "dead"
                    /\ \A fd \in Fds : fd >= cur'[r] =>
                         files'[child[r]][fd] = NULL
                    /\ \A u \in Procs :
                         pc'[u] = "fork" /\ child[u] = child[r] => u = r
  BY DEF ForksSound
<1>1. r # p /\ pc[r] = "fork" /\ cur'[r] = cur[r]
  OBVIOUS
<1>2. /\ child[r] \in alive /\ pc[child[r]] = "dead"
      /\ \A fd \in Fds : fd >= cur[r] => files[child[r]][fd] = NULL
      /\ \A u \in Procs : pc[u] = "fork" /\ child[u] = child[r] => u = r
  BY <1>1 DEF ForksSound
<1>3. child[r] \in Procs /\ child[r] # p
  BY <1>2 DEF TypeOK
<1> QED
  BY <1>1, <1>2, <1>3

-----------------------------------------------------------------------------
(* The queues *)

(* A step that keeps the queues, and the processes in them, where they are. *)
LEMMA QueueFrame ==
  ASSUME TypeOK, QueuesSound, UNCHANGED <<notempty, full>>,
         \A q \in Procs : pc[q] \in {"read", "write"} => pc'[q] = pc[q]
  PROVE  QueuesSound'
<1>1. notempty \in Seq(Procs) /\ full \in Seq(Procs)
  BY DEF TypeOK
<1>2. /\ \A i \in 1..Len(notempty) : notempty[i] \in Procs
      /\ \A i \in 1..Len(full) : full[i] \in Procs
  BY <1>1
<1> QED
  BY <1>2 DEF QueuesSound

(* Being in one of two queues. *)
LEMMA InBoth ==
  ASSUME NEW ne \in Seq(Procs), NEW fu \in Seq(Procs), NEW p \in Procs
  PROVE  (\E i \in 1..Len(ne \o fu) : (ne \o fu)[i] = p)
           <=> In(ne, p) \/ In(fu, p)
<1> DEFINE both == ne \o fu
<1>1. /\ Len(both) = Len(ne) + Len(fu)
      /\ \A i \in 1..Len(both) :
           \/ i \in 1..Len(ne) /\ both[i] = ne[i]
           \/ i - Len(ne) \in 1..Len(fu) /\ both[i] = fu[i - Len(ne)]
      /\ \A i \in 1..Len(ne) : both[i] = ne[i]
      /\ \A i \in 1..Len(fu) : both[Len(ne) + i] = fu[i]
      /\ Len(ne) \in Nat /\ Len(fu) \in Nat
  OBVIOUS
<1> HIDE DEF both
<1>2. (\E i \in 1..Len(both) : both[i] = p) => In(ne, p) \/ In(fu, p)
  BY <1>1 DEF In
<1>3. In(ne, p) => \E i \in 1..Len(both) : both[i] = p
  <2>1. \A i \in 1..Len(ne) : i \in 1..Len(both)
    BY <1>1
  <2> QED
    BY <1>1, <2>1 DEF In
<1>4. In(fu, p) => \E i \in 1..Len(both) : both[i] = p
  <2>1. \A i \in 1..Len(fu) : Len(ne) + i \in 1..Len(both)
    BY <1>1
  <2> QED
    BY <1>1, <2>1 DEF In
<1> QED
  BY <1>2, <1>3, <1>4 DEF both

(* A process that does not wait is in neither queue. *)
LEMMA NotQueued ==
  ASSUME TypeOK, QueuesSound, NEW p \in Procs,
         pc[p] \notin {"read", "write"} \/ ~Asleep(p)
  PROVE  ~In(notempty, p) /\ ~In(full, p)
<1>1. CASE pc[p] \notin {"read", "write"}
  BY <1>1 DEF QueuesSound, In
<1>2. CASE ~Asleep(p)
  <2>1. notempty \in Seq(Procs) /\ full \in Seq(Procs)
    BY DEF TypeOK
  <2> QED
    BY <1>2, <2>1, InBoth DEF Asleep
<1> QED
  BY <1>1, <1>2

(* The process at the head of a queue is taken out. *)
LEMMA PopIs ==
  ASSUME NEW queue \in Seq(Procs),
         \A i, j \in 1..Len(queue) : queue[i] = queue[j] => i = j
  PROVE  /\ Pop(queue) \in Seq(Procs)
         /\ \A p \in Procs : In(Pop(queue), p) => In(queue, p)
         /\ \A i, j \in 1..Len(Pop(queue)) :
              Pop(queue)[i] = Pop(queue)[j] => i = j
         /\ queue # <<>> => Head(queue) \in Procs /\ In(queue, Head(queue))
                            /\ ~In(Pop(queue), Head(queue))
<1>1. CASE queue = <<>>
  BY <1>1 DEF Pop
<1>2. CASE queue # <<>>
  <2>1. /\ Pop(queue) \in Seq(Procs) /\ Len(Pop(queue)) = Len(queue) - 1
        /\ \A i \in 1..Len(Pop(queue)) :
             Pop(queue)[i] = queue[i + 1] /\ i + 1 \in 1..Len(queue)
        /\ Head(queue) = queue[1] /\ 1 \in 1..Len(queue)
        /\ Len(queue) \in Nat
    BY <1>2 DEF Pop
  <2>2. \A i, j \in 1..Len(Pop(queue)) :
          Pop(queue)[i] = Pop(queue)[j] => i = j
    BY <2>1
  <2>3. \A i \in 1..Len(Pop(queue)) : Pop(queue)[i] # Head(queue)
    BY <2>1
  <2> QED
    BY <2>1, <2>2, <2>3 DEF In
<1> QED
  BY <1>1, <1>2

(* A process that is not in it is put last. *)
LEMMA AppendIs ==
  ASSUME NEW queue \in Seq(Procs), NEW p \in Procs, ~In(queue, p),
         \A i, j \in 1..Len(queue) : queue[i] = queue[j] => i = j
  PROVE  /\ Append(queue, p) \in Seq(Procs)
         /\ \A q \in Procs : In(Append(queue, p), q) <=> In(queue, q) \/ q = p
         /\ \A i, j \in 1..Len(Append(queue, p)) :
              Append(queue, p)[i] = Append(queue, p)[j] => i = j
<1> DEFINE longer == Append(queue, p)
<1>1. /\ longer \in Seq(Procs) /\ Len(longer) = Len(queue) + 1
      /\ longer[Len(queue) + 1] = p /\ Len(queue) \in Nat
      /\ \A i \in 1..Len(queue) : longer[i] = queue[i]
  OBVIOUS
<1> HIDE DEF longer
<1>2. \A q \in Procs : In(longer, q) <=> In(queue, q) \/ q = p
  <2>1. \A i \in 1..Len(longer) : i \in 1..Len(queue) \/ i = Len(queue) + 1
    BY <1>1
  <2>2. Len(queue) + 1 \in 1..Len(longer)
    BY <1>1
  <2>3. \A i \in 1..Len(queue) : i \in 1..Len(longer)
    BY <1>1
  <2> QED
    BY <1>1, <2>1, <2>2, <2>3 DEF In
<1>3. \A i, j \in 1..Len(longer) : longer[i] = longer[j] => i = j
  BY <1>1 DEF In
<1> QED
  BY <1>1, <1>2, <1>3 DEF longer

(* The queues, said without their order. *)
LEMMA QueuesIn ==
  ASSUME QueuesSound, NEW q \in Procs
  PROVE  /\ In(notempty, q) => pc[q] = "read"
         /\ In(full, q) => pc[q] = "write"
BY DEF QueuesSound, In

-----------------------------------------------------------------------------
(* The initial states, and one lemma per action *)

(* The inductive invariant holds at the start. *)
LEMMA InitInv == Init => Inv
<1> SUFFICES ASSUME Init PROVE Inv
  OBVIOUS
<1> USE PipeAssumption DEF Init
<1>1. TypeOK
  <2>1. Used = 0
    <3>1. 0 % SIZE_T = 0
      BY WrapSize
    <3> QED
      BY <3>1 DEF Used
  <2>2. UINT64 > 0
    BY FiniteCounts
  <2>3. alive \subseteq Procs /\ pc \in [Procs -> PCs]
    BY DEF PCs
  <2>4. /\ notempty \in Seq(Procs) /\ full \in Seq(Procs)
        /\ data \in [Procs -> Seq(Bytes)]
    OBVIOUS
  <2>5. /\ files \in [Procs -> [Fds -> Files \cup {"stale", NULL}]]
        /\ f_ref \in [Files -> Nat] /\ buffer \in [0..(PIPE_SZ - 1) -> Bytes]
    OBVIOUS
  <2>6. misuse \in BOOLEAN
    OBVIOUS
  <2> QED
    BY <2>1, <2>2, <2>3, <2>4, <2>5, <2>6 DEF TypeOK
<1>2. ProcsSound
  BY DEF ProcsSound
<1>3. ForksSound
  BY DEF ForksSound
<1>4. \A f \in Files : Held(f) = {}
  BY FilesAre DEF Held
<1>5. RefSound
  BY <1>4, FS_EmptySet DEF RefSound
<1>6. SumSound /\ MemSound
  BY FilesAre DEF SumSound, MemSound
<1>7. QueuesSound
  BY DEF QueuesSound
<1> QED
  BY <1>1, <1>2, <1>3, <1>5, <1>6, <1>7 DEF Inv

(* proc_fork keeps the inductive invariant. *)
LEMMA proc_forkInv ==
  ASSUME Inv, NEW p \in Procs, NEW q \in Procs,
         proc_fork(p, q)
  PROVE  Inv'
<1> USE PipeAssumption DEF Inv, fdvars, refvars, bufvars, waitvars,
        proc_fork
<1>1. TypeOK'
  <2>1. Used' = Used
    BY DEF Used
  <2> QED
    BY <2>1 DEF TypeOK, PCs
<1>2. ProcsSound'
  BY DEF TypeOK, ProcsSound
<1>3. ForksSound'
  <2>1. q # p /\ pc[q] = "dead" /\ \A fd \in Fds : files[q][fd] = NULL
    BY DEF ProcsSound
  <2>2. \A r \in Procs : /\ pc'[r] = IF r = p THEN "fork" ELSE pc[r]
                         /\ child'[r] = IF r = p THEN q ELSE child[r]
    BY DEF TypeOK
  <2>3. /\ alive' = alive \cup {q} /\ q \notin alive /\ pc[p] = "run"
        /\ UNCHANGED <<files, cur>>
    OBVIOUS
  <2>4. child \in [Procs -> Procs \cup {NULL}] /\ alive \subseteq Procs
    BY DEF TypeOK
  <2> HIDE DEF proc_fork
  <2> SUFFICES ASSUME NEW r \in Procs, pc'[r] = "fork"
               PROVE  /\ child'[r] \in alive' /\ pc'[child'[r]] = "dead"
                      /\ \A fd \in Fds : fd >= cur'[r] =>
                           files'[child'[r]][fd] = NULL
                      /\ \A u \in Procs :
                           pc'[u] = "fork" /\ child'[u] = child'[r] => u = r
    BY DEF ForksSound
  <2>5. CASE r = p
    BY <2>1, <2>2, <2>3, <2>5 DEF ForksSound
  <2>6. CASE r # p
    <3>1. child'[r] = child[r] /\ child[r] \in alive /\ pc[child[r]] = "dead"
      BY <2>2, <2>6 DEF ForksSound
    <3>2. child[r] \in Procs /\ child[r] # p
      BY <2>3, <2>4, <3>1
    <3> QED
      BY <2>1, <2>2, <2>3, <2>6, <3>1, <3>2 DEF ForksSound
  <2> QED
    BY <2>5, <2>6
<1>4. RefSound' /\ SumSound' /\ MemSound'
  <2>1. \A r \in Procs, fd \in Fds :
          /\ Closing(r, fd)' <=> Closing(r, fd)
          /\ Dropped(r, fd)' <=> Dropped(r, fd)
    BY DEF TypeOK, Closing, Dropped
  <2> QED
    BY <2>1, CountFrame
<1>5. QueuesSound'
  BY QueueFrame DEF TypeOK, ForksSound
<1> QED
  BY <1>1, <1>2, <1>3, <1>4, <1>5

(* ForkDone keeps the inductive invariant. *)
LEMMA ForkDoneInv ==
  ASSUME Inv, NEW p \in Procs,
         ForkDone(p)
  PROVE  Inv'
<1> USE PipeAssumption DEF Inv, fdvars, refvars, bufvars, waitvars,
        ForkDone
<1>a. PICK c \in Procs :
        /\ c = child[p] /\ c # p /\ pc[p] = "fork" /\ pc[c] = "dead"
        /\ c \in alive /\ pc' \in [Procs -> PCs]
        /\ \A q \in Procs :
             pc'[q] = IF q = p \/ q = c THEN "run" ELSE pc[q]
  BY DEF TypeOK, ForksSound, PCs
<1>b. UNCHANGED <<alive, files>> /\ p \in alive
  BY <1>a DEF ProcsSound
<1>1. TypeOK'
  <2>1. Used' = Used
    BY DEF Used
  <2>2. child' \in [Procs -> Procs \cup {NULL}] /\ cur' \in [Procs -> Nat]
    BY DEF TypeOK
  <2> QED
    BY <1>a, <2>1, <2>2 DEF TypeOK, PCs
<1>2. ProcsSound'
  BY <1>a, <1>b DEF ProcsSound
<1>3. ForksSound'
  <2>1. \A q \in Procs : q # p => child'[q] = child[q] /\ cur'[q] = cur[q]
    BY DEF TypeOK
  <2>2. child \in [Procs -> Procs \cup {NULL}] /\ alive \subseteq Procs
    BY DEF TypeOK
  <2> HIDE DEF ForkDone
  <2>3. ASSUME NEW r \in Procs, pc'[r] = "fork"
        PROVE  /\ r # p /\ pc[r] = "fork" /\ child'[r] = child[r]
               /\ child[r] \in Procs /\ child[r] # c /\ child[r] # p
               /\ pc'[child[r]] = pc[child[r]]
    <3>1. r # p /\ pc[r] = "fork" /\ child'[r] = child[r]
      BY <1>a, <2>1, <2>3
    <3>2. child[r] \in alive /\ pc[child[r]] = "dead" /\ child[r] # c
      BY <1>a, <3>1 DEF ForksSound
    <3> QED
      BY <1>a, <2>2, <3>1, <3>2
  <2> SUFFICES ASSUME NEW r \in Procs, pc'[r] = "fork"
               PROVE  /\ child'[r] \in alive' /\ pc'[child'[r]] = "dead"
                      /\ \A fd \in Fds : fd >= cur'[r] =>
                           files'[child'[r]][fd] = NULL
                      /\ \A u \in Procs :
                           pc'[u] = "fork" /\ child'[u] = child'[r] => u = r
    BY DEF ForksSound
  <2>4. /\ child[r] \in alive /\ pc[child[r]] = "dead"
        /\ \A fd \in Fds : fd >= cur[r] => files[child[r]][fd] = NULL
        /\ \A u \in Procs : pc[u] = "fork" /\ child[u] = child[r] => u = r
    BY <2>3 DEF ForksSound
  <2> QED
    BY <1>b, <2>1, <2>3, <2>4
<1>4. RefSound' /\ SumSound' /\ MemSound'
  <2>1. \A q \in Procs, fd \in Fds :
          /\ Closing(q, fd)' <=> Closing(q, fd)
          /\ Dropped(q, fd)' <=> Dropped(q, fd)
    <3>1. \A q \in Procs : q # p => cur'[q] = cur[q]
      BY DEF TypeOK
    <3> QED
      BY <1>a, <3>1 DEF Closing, Dropped
  <2> QED
    BY <2>1, CountFrame
<1>5. QueuesSound'
  BY <1>a, QueueFrame
<1> QED
  BY <1>1, <1>2, <1>3, <1>4, <1>5

(* proc_exit keeps the inductive invariant. *)
LEMMA proc_exitInv ==
  ASSUME Inv, NEW p \in Procs,
         proc_exit(p)
  PROVE  Inv'
<1> USE PipeAssumption DEF Inv, fdvars, refvars, bufvars, waitvars,
        proc_exit
<1>1. TypeOK'
  <2>1. Used' = Used
    BY DEF Used
  <2> QED
    BY <2>1 DEF TypeOK, PCs
<1>2. ProcsSound'
  BY DEF TypeOK, ProcsSound
<1>3. ForksSound'
  BY DEF TypeOK, ProcsSound, ForksSound
<1>4. RefSound' /\ SumSound' /\ MemSound'
  <2>1. \A q \in Procs, fd \in Fds :
          /\ Closing(q, fd)' <=> Closing(q, fd)
          /\ Dropped(q, fd)' <=> Dropped(q, fd)
    BY DEF TypeOK, Closing, Dropped
  <2> QED
    BY <2>1, CountFrame
<1>5. QueuesSound'
  BY QueueFrame DEF TypeOK, ForksSound
<1> QED
  BY <1>1, <1>2, <1>3, <1>4, <1>5

(* ExitDone keeps the inductive invariant. *)
LEMMA ExitDoneInv ==
  ASSUME Inv, NEW p \in Procs,
         ExitDone(p)
  PROVE  Inv'
<1> USE PipeAssumption DEF Inv, fdvars, refvars, bufvars, waitvars,
        ExitDone
<1>1. TypeOK'
  <2>1. Used' = Used
    BY DEF Used
  <2> QED
    BY <2>1 DEF TypeOK, PCs
<1>2. ProcsSound'
  BY DEF TypeOK, ProcsSound
<1>3. ForksSound'
  BY DEF TypeOK, ProcsSound, ForksSound
<1>4. RefSound' /\ SumSound' /\ MemSound'
  <2>1. \A q \in Procs, fd \in Fds :
          /\ Closing(q, fd)' <=> Closing(q, fd)
          /\ Dropped(q, fd)' <=> Dropped(q, fd)
    BY DEF TypeOK, Closing, Dropped
  <2> QED
    BY <2>1, CountFrame
<1>5. QueuesSound'
  BY QueueFrame DEF TypeOK, ForksSound
<1> QED
  BY <1>1, <1>2, <1>3, <1>4, <1>5

(* The first section of a close: the pipe's count goes down.  A file that  *)
(* is not set up has no pipe.                                              *)
LEMMA CloseBegins ==
  ASSUME Inv, NEW p \in Procs, NEW i \in Fds,
         pc[p] \in {"run", "exit"}, files[p][i] \in Files,
         kpipe_ref_decrease(files[p][i], i),
         cur' = [cur EXCEPT ![p] = i], pc' = [pc EXCEPT ![p] = "close"],
         UNCHANGED <<alive, files, f_ref, mem, fd_reader, buffer, read_ofs,
                     write_ofs, notempty, full, count, data, child, misuse>>
  PROVE  Inv'
<1> USE PipeAssumption DEF Inv
<1>a. Counted' = Counted \ {<<p, i>>}
  BY DEF Counted, Closing, TypeOK, ProcsSound
<1>b. /\ readers' \in 0..(UINT64 - 1) /\ writers' \in 0..(UINT64 - 1)
      /\ SumSound'
  <2>1. CASE files[p][i] \notin Ends
    <3>1. <<p, i>> \notin Counted
      BY <2>1 DEF Counted
    <3>2. Counted' = Counted /\ UNCHANGED <<readers, writers>>
      BY <1>a, <2>1, <3>1 DEF kpipe_ref_decrease
    <3> QED
      BY <3>2 DEF SumSound, TypeOK
  <2>2. CASE files[p][i] \in Ends
    <3>1. <<p, i>> \in Counted
      BY <2>2 DEF Counted, Closing, TypeOK
    <3>2. /\ Cardinality(Counted') = Cardinality(Counted) - 1
          /\ Cardinality(Counted) \in Nat /\ Cardinality(Counted) < UINT64
          /\ Cardinality(Counted) > 0
      <4>1. /\ IsFiniteSet(Counted') /\ IsFiniteSet(Counted)
            /\ Cardinality(Counted') = Cardinality(Counted) - 1
        BY <1>a, <3>1, FiniteCounts, FS_RemoveElement
      <4>2. Cardinality(Counted') \in Nat
        BY <4>1, FS_CardinalityType
      <4> QED
        BY <4>1, <4>2, FiniteCounts
    <3>3. mem # "none"
      BY <2>2 DEF MemSound
    <3>4. PICK N \in Nat : N = Cardinality(Counted) - 1
      BY <3>2
    <3>5. /\ readers' \in 0..(UINT64 - 1) /\ writers' \in 0..(UINT64 - 1)
          /\ readers' + writers' = N \/ readers' + writers' = N + UINT64
      BY <2>2, <3>2, <3>3, <3>4, Decrease DEF SumSound
    <3> QED
      BY <3>2, <3>4, <3>5 DEF SumSound
  <2> QED
    BY <2>1, <2>2
<1>1. TypeOK'
  <2>1. Used' = Used
    BY DEF Used
  <2> QED
    BY <1>b, <2>1 DEF TypeOK, PCs
<1>2. ProcsSound'
  BY DEF TypeOK, ProcsSound
<1>3. ForksSound'
  BY DEF TypeOK, ProcsSound, ForksSound
<1>4. RefSound' /\ SumSound' /\ MemSound'
  <2>1. \A f \in Files : Held(f)' = Held(f)
    BY DEF TypeOK, Held, Dropped
  <2>2. RefSound'
    BY <2>1 DEF RefSound
  <2>3. MemSound'
    BY <1>a DEF MemSound
  <2> QED
    BY <1>b, <2>2, <2>3
<1>5. QueuesSound'
  BY QueueFrame DEF TypeOK
<1> QED
  BY <1>1, <1>2, <1>3, <1>4, <1>5

(* sys_close keeps the inductive invariant. *)
LEMMA sys_closeInv ==
  ASSUME Inv, NEW p \in Procs, NEW fd \in Fds,
         sys_close(p, fd)
  PROVE  Inv'
BY CloseBegins DEF sys_close, fdvars, bufvars, waitvars

(* ExitFile keeps the inductive invariant. *)
LEMMA ExitFileInv ==
  ASSUME Inv, NEW p \in Procs,
         ExitFile(p)
  PROVE  Inv'
<1>1. PICK i \in NextOpen(p) :
        /\ files[p][i] # "stale" /\ kpipe_ref_decrease(files[p][i], i)
        /\ cur' = [cur EXCEPT ![p] = i]
  BY DEF ExitFile
<1>2. i \in Fds /\ files[p][i] \in Files
  BY <1>1 DEF NextOpen, Inv, TypeOK
<1> QED
  BY <1>1, <1>2, CloseBegins DEF ExitFile, fdvars, bufvars, waitvars

(* A descriptor of a file is copied, to the same process or to a child. *)
LEMMA Copied ==
  ASSUME Inv, NEW p \in Procs, NEW c \in Procs, NEW fd \in Fds, NEW i \in Fds,
         pc[p] \in {"run", "fork"}, c \in alive,
         files[p][fd] \in Files, files[c][i] = NULL,
         kpipe_ref_increase(files[p][fd], fd),
         files' = [files EXCEPT ![c][i] = files[p][fd]],
         f_ref' = [f_ref EXCEPT ![files[p][fd]] = @ + 1],
         UNCHANGED <<alive, mem, fd_reader, buffer, read_ofs, write_ofs,
                     notempty, full, count, data, pc, child, misuse>>,
         \A q \in Procs : q # p => cur'[q] = cur[q],
         cur' \in [Procs -> Nat], pc[c] \in {"run", "dead"},
         \A q \in Procs : pc[q] = "fork" /\ child[q] = c =>
           q = p /\ cur'[p] > i,
         cur'[p] >= cur[p]
  PROVE  Inv'
<1> USE PipeAssumption DEF Inv
<1>b. NULL \notin Files /\ Ends \subseteq Files
  BY DEF Files, Ends
<1>c. \A q \in Procs, j \in Fds :
        files'[q][j] = IF q = c /\ j = i THEN files[p][fd] ELSE files[q][j]
  <2>1. files \in [Procs -> [Fds -> Files \cup {"stale", NULL}]]
    BY DEF TypeOK
  <2> QED
    BY <2>1
<1>d. /\ readers' \in 0..(UINT64 - 1) /\ writers' \in 0..(UINT64 - 1)
      /\ SumSound' /\ MemSound'
  <2>0. <<c, i>> \notin Counted
    BY <1>b DEF Counted
  <2>1. CASE files[p][fd] \notin Ends
    <3>1. Counted' = Counted /\ UNCHANGED <<readers, writers>>
      BY <1>b, <1>c, <2>0, <2>1 DEF Counted, Closing, kpipe_ref_increase
    <3> QED
      BY <1>c, <2>1, <3>1 DEF SumSound, MemSound, TypeOK
  <2>2. CASE files[p][fd] \in Ends
    <3>1. <<p, fd>> \in Counted
      BY <2>2 DEF Counted, Closing
    <3>2. Counted' = Counted \cup {<<c, i>>}
      BY <1>b, <1>c, <2>2 DEF Counted, Closing
    <3>3. /\ Cardinality(Counted') = Cardinality(Counted) + 1
          /\ Cardinality(Counted) \in Nat
      BY <2>0, <3>2, FiniteCounts, FS_AddElement
    <3>4. Cardinality(Counted') < UINT64
      <4>1. IsFiniteSet(Procs \X Fds) /\ Counted' \subseteq Procs \X Fds
        BY FS_Product DEF Counted
      <4>2. Cardinality(Counted') <= Cardinality(Procs \X Fds)
        BY <4>1, FS_Subset
      <4>3. Cardinality(Procs \X Fds) \in Nat
        BY <4>1, FS_CardinalityType
      <4> QED
        BY <3>3, <4>2, <4>3
    <3>5. mem # "none" /\ mem # "freed"
      BY <2>2, <3>1 DEF MemSound
    <3>6. PICK N \in Nat : N = Cardinality(Counted)
      BY <3>3
    <3>7. /\ readers' \in 0..(UINT64 - 1) /\ writers' \in 0..(UINT64 - 1)
          /\ \/ readers' + writers' = N + 1
             \/ readers' + writers' = N + 1 + UINT64
      BY <2>2, <3>3, <3>4, <3>5, <3>6, Increase DEF SumSound
    <3> QED
      BY <3>3, <3>5, <3>6, <3>7 DEF SumSound, MemSound
  <2> QED
    BY <2>1, <2>2
<1>1. TypeOK'
  <2>1. Used' = Used
    BY DEF Used
  <2>2. files' \in [Procs -> [Fds -> Files \cup {"stale", NULL}]]
    BY <1>b DEF TypeOK
  <2>3. f_ref' \in [Files -> Nat]
    BY <1>b DEF TypeOK
  <2> QED
    BY <1>d, <2>1, <2>2, <2>3 DEF TypeOK
<1>2. ProcsSound'
  BY <1>b, <1>c DEF ProcsSound
<1>3. ForksSound'
  <2> SUFFICES ASSUME NEW r \in Procs, pc[r] = "fork"
               PROVE  /\ child[r] \in alive /\ pc[child[r]] = "dead"
                      /\ \A j \in Fds : j >= cur'[r] =>
                           files'[child[r]][j] = NULL
                      /\ \A u \in Procs :
                           pc[u] = "fork" /\ child[u] = child[r] => u = r
    BY DEF ForksSound
  <2>1. /\ child[r] \in alive /\ pc[child[r]] = "dead"
        /\ \A j \in Fds : j >= cur[r] => files[child[r]][j] = NULL
        /\ \A u \in Procs : pc[u] = "fork" /\ child[u] = child[r] => u = r
    BY DEF ForksSound
  <2>2. /\ child[r] \in Procs /\ cur \in [Procs -> Nat]
        /\ Fds \subseteq Nat
    BY <2>1 DEF TypeOK
  <2>3. ASSUME NEW j \in Fds, j >= cur'[r]
        PROVE  files'[child[r]][j] = NULL
    <3>1. j >= cur[r]
      BY <2>2, <2>3
    <3>2. files[child[r]][j] = NULL
      BY <2>1, <3>1
    <3>3. ~(child[r] = c /\ j = i)
      BY <2>2, <2>3
    <3> QED
      BY <1>c, <2>2, <3>2, <3>3
  <2> QED
    BY <2>1, <2>3
<1>4. RefSound' /\ SumSound' /\ MemSound'
  <2>0. PICK g \in Files : g = files[p][fd]
    BY <1>b
  <2>1. Held(g)' = Held(g) \cup {<<c, i>>} /\ <<c, i>> \notin Held(g)
    BY <1>b, <1>c, <2>0 DEF Held, Dropped
  <2>2. \A f \in Files : f # g => Held(f)' = Held(f)
    BY <1>b, <1>c, <2>0 DEF Held, Dropped
  <2>3. Cardinality(Held(g)') = Cardinality(Held(g)) + 1
    <3>1. IsFiniteSet(Held(g))
      BY FiniteCounts
    <3>2. Cardinality(Held(g) \cup {<<c, i>>}) = Cardinality(Held(g)) + 1
      BY <2>1, <3>1, FS_AddElement
    <3> QED
      BY <2>1, <3>2
  <2>4. /\ f_ref'[g] = f_ref[g] + 1
        /\ \A f \in Files : f # g => f_ref'[f] = f_ref[f]
    BY <2>0 DEF TypeOK
  <2>6. RefSound'
    <3> SUFFICES ASSUME NEW f \in Files PROVE f_ref'[f] = Cardinality(Held(f)')
      BY DEF RefSound
    <3>1. CASE f = g
      <4>1. f_ref[g] = Cardinality(Held(g))
        BY DEF RefSound
      <4> QED
        BY <2>3, <2>4, <3>1, <4>1
    <3>2. CASE f # g
      <4>1. f_ref[f] = Cardinality(Held(f))
        BY DEF RefSound
      <4> QED
        BY <2>2, <2>4, <3>2, <4>1
    <3> QED
      BY <3>1, <3>2
  <2> QED
    BY <1>d, <2>6
<1>5. QueuesSound'
  BY QueueFrame DEF TypeOK
<1> QED
  BY <1>1, <1>2, <1>3, <1>4, <1>5

(* sys_dup keeps the inductive invariant. *)
LEMMA sys_dupInv ==
  ASSUME Inv, NEW p \in Procs, NEW fd \in Fds,
         sys_dup(p, fd)
  PROVE  Inv'
<1>1. PICK i \in alloc_fd(p) : files' = [files EXCEPT ![p][i] = files[p][fd]]
  BY DEF sys_dup
<1>2. p \in alive /\ \A q \in Procs : pc[q] = "fork" => child[q] # p
  BY DEF sys_dup, Inv, ProcsSound, ForksSound
<1>3. i \in Fds /\ files[p][i] = NULL
  BY <1>1 DEF alloc_fd
<1>4. cur' = cur /\ cur \in [Procs -> Nat] /\ cur[p] >= cur[p]
  BY DEF sys_dup, Inv, TypeOK
<1>5. /\ pc[p] = "run" /\ files[p][fd] \in Files
      /\ kpipe_ref_increase(files[p][fd], fd)
      /\ f_ref' = [f_ref EXCEPT ![files[p][fd]] = @ + 1]
      /\ UNCHANGED <<alive, mem, fd_reader, buffer, read_ofs, write_ofs,
                     notempty, full, count, data, pc, child, misuse>>
  BY DEF sys_dup, bufvars, waitvars
<1> QED
  BY <1>1, <1>2, <1>3, <1>4, <1>5, Copied

(* ForkFile keeps the inductive invariant. *)
LEMMA ForkFileInv ==
  ASSUME Inv, NEW p \in Procs,
         ForkFile(p)
  PROVE  Inv'
<1>1. PICK i \in NextOpen(p) :
        /\ files[p][i] # "stale" /\ kpipe_ref_increase(files[p][i], i)
        /\ files' = [files EXCEPT ![child[p]][i] = files[p][i]]
        /\ f_ref' = [f_ref EXCEPT ![files[p][i]] = @ + 1]
        /\ cur' = [cur EXCEPT ![p] = i + 1]
  BY DEF ForkFile
<1>0. /\ pc[p] = "fork"
      /\ UNCHANGED <<alive, mem, fd_reader, buffer, read_ofs, write_ofs,
                     notempty, full, count, data, pc, child, misuse>>
  BY DEF ForkFile, bufvars, waitvars
<1>2. PICK c \in Procs : c = child[p]
  BY <1>0 DEF Inv, ForksSound, TypeOK
<1>3. /\ c \in alive /\ pc[c] = "dead"
      /\ \A q \in Procs : pc[q] = "fork" /\ child[q] = c => q = p
      /\ \A j \in Fds : j >= cur[p] => files[c][j] = NULL
  BY <1>0, <1>2 DEF Inv, ForksSound
<1>4. /\ i \in Fds /\ i >= cur[p] /\ i \in Nat /\ files[p][i] \in Files
      /\ files[c][i] = NULL
  <2>1. i \in Fds /\ i >= cur[p] /\ files[p][i] # NULL /\ i \in Nat
    BY <1>1, PipeAssumption DEF NextOpen
  <2>2. files[p][i] \in Files \cup {"stale", NULL}
    BY <2>1 DEF Inv, TypeOK
  <2> QED
    BY <1>1, <1>3, <2>1, <2>2
<1>5. /\ cur' \in [Procs -> Nat] /\ cur'[p] = i + 1 /\ cur[p] \in Nat
      /\ \A q \in Procs : q # p => cur'[q] = cur[q]
  BY <1>1, <1>4 DEF Inv, TypeOK
<1>6. cur'[p] > i /\ cur'[p] >= cur[p]
  BY <1>4, <1>5
<1> QED
  BY <1>0, <1>1, <1>2, <1>3, <1>4, <1>5, <1>6, Copied

(* fs_close_file keeps the inductive invariant. *)
LEMMA fs_close_fileInv ==
  ASSUME Inv, NEW p \in Procs,
         fs_close_file(p)
  PROVE  Inv'
<1> USE PipeAssumption DEF Inv, fdvars, refvars, bufvars, waitvars,
        fs_close_file
<1>a. PICK i \in Fds, g \in Files : i = cur[p] /\ g = files[p][i]
  BY DEF ProcsSound, TypeOK, Files
<1>b. /\ pc[p] = "close"
      /\ f_ref' = [f_ref EXCEPT ![g] = @ - 1] /\ f_ref[g] > 0
      /\ \/ /\ files' = [files EXCEPT ![p][i] = NULL]
            /\ cur' = [cur EXCEPT ![p] = 0]
            /\ \/ pc' = [pc EXCEPT ![p] = "exit"]
               \/ pc' = [pc EXCEPT ![p] = "run"]
         \/ files' = files /\ cur' = cur /\ pc' = [pc EXCEPT ![p] = "kclose"]
      /\ UNCHANGED <<alive, mem, fd_reader, readers, writers, buffer, read_ofs,
                     write_ofs, notempty, full, count, data, child, misuse>>
  <2>1. /\ f_ref' = [f_ref EXCEPT ![g] = @ - 1] /\ f_ref[g] \in Nat
        /\ \/ f_ref[g] > 1 /\ Closed(p)
           \/ /\ f_ref[g] = 1 /\ pc' = [pc EXCEPT ![p] = "kclose"]
              /\ UNCHANGED <<files, cur>>
    BY <1>a DEF TypeOK
  <2>2. Closed(p) =>
          /\ files' = [files EXCEPT ![p][i] = NULL]
          /\ cur' = [cur EXCEPT ![p] = 0]
          /\ \/ pc' = [pc EXCEPT ![p] = "exit"]
             \/ pc' = [pc EXCEPT ![p] = "run"]
    <3> HIDE DEF fs_close_file
    <3> QED
      BY <1>a DEF Closed
  <2>3. f_ref[g] > 0
    BY <2>1
  <2> QED
    BY <2>1, <2>2, <2>3
<1> HIDE DEF fs_close_file
<1>e. /\ files \in [Procs -> [Fds -> Files \cup {"stale", NULL}]]
      /\ pc \in [Procs -> PCs] /\ cur \in [Procs -> Nat]
  BY DEF TypeOK
<1>c. \/ /\ pc'[p] \in {"exit", "run"}
         /\ \A q \in Procs, j \in Fds :
              files'[q][j] = IF q = p /\ j = i THEN NULL ELSE files[q][j]
      \/ files' = files /\ pc'[p] = "kclose" /\ cur'[p] = i
  <2>1. CASE files' = files /\ cur' = cur /\ pc' = [pc EXCEPT ![p] = "kclose"]
    BY <1>a, <1>e, <2>1
  <2>2. CASE /\ files' = [files EXCEPT ![p][i] = NULL]
             /\ cur' = [cur EXCEPT ![p] = 0]
             /\ \/ pc' = [pc EXCEPT ![p] = "exit"]
                \/ pc' = [pc EXCEPT ![p] = "run"]
    BY <1>a, <1>e, <2>2
  <2> QED
    BY <1>b, <2>1, <2>2
<1>d. \A q \in Procs : q # p => pc'[q] = pc[q] /\ cur'[q] = cur[q]
  BY <1>b, <1>e
<1>1. TypeOK'
  <2>1. Used' = Used
    BY <1>b DEF Used
  <2>2. files' \in [Procs -> [Fds -> Files \cup {"stale", NULL}]]
    BY <1>b, <1>e
  <2>3. f_ref' \in [Files -> Nat]
    <3>1. f_ref \in [Files -> Nat]
      BY DEF TypeOK
    <3>2. f_ref' = [f_ref EXCEPT ![g] = @ - 1] /\ f_ref[g] > 0
      BY <1>b
    <3>3. f_ref[g] - 1 \in Nat
      BY <3>1, <3>2
    <3> QED
      BY <3>1, <3>2, <3>3
  <2>4. pc' \in [Procs -> PCs] /\ cur' \in [Procs -> Nat]
    BY <1>b, <1>e DEF PCs
  <2> QED
    BY <1>b, <2>1, <2>2, <2>3, <2>4 DEF TypeOK
<1>2. ProcsSound'
  BY <1>a, <1>b, <1>c, <1>d DEF ProcsSound
<1>3. ForksSound'
  BY <1>b, <1>c, <1>d, ForksFrame
<1>4. RefSound' /\ SumSound' /\ MemSound'
  <2>1. Held(g)' = Held(g) \ {<<p, i>>} /\ <<p, i>> \in Held(g)
    <3>1. <<p, i>> \in Held(g) /\ NULL # g
      BY <1>a, <1>b, FilesAre DEF Held, Dropped
    <3>2. CASE files' = files /\ pc'[p] = "kclose" /\ cur'[p] = i
      BY <1>a, <1>b, <1>d, <3>1, <3>2 DEF Held, Dropped
    <3>3. CASE /\ pc'[p] \in {"exit", "run"}
               /\ \A q \in Procs, j \in Fds :
                    files'[q][j] = IF q = p /\ j = i THEN NULL ELSE files[q][j]
      BY <1>a, <1>b, <1>d, <3>1, <3>3 DEF Held, Dropped
    <3> QED
      BY <1>c, <3>1, <3>2, <3>3
  <2>2. \A f \in Files : f # g => Held(f)' = Held(f)
    <3> TAKE f \in Files
    <3>1. ASSUME f # g, NEW q \in Procs, NEW j \in Fds
          PROVE  files'[q][j] = f /\ ~Dropped(q, j)' <=>
                   files[q][j] = f /\ ~Dropped(q, j)
      BY <1>a, <1>b, <1>c, <1>d, <3>1, FilesAre DEF Dropped
    <3> QED
      BY <3>1, SameDescriptors
  <2>3. Cardinality(Held(g)') = Cardinality(Held(g)) - 1
    <3>1. IsFiniteSet(Held(g))
      BY FiniteCounts
    <3>2. Cardinality(Held(g) \ {<<p, i>>}) = Cardinality(Held(g)) - 1
      BY <2>1, <3>1, FS_RemoveElement
    <3> QED
      BY <2>1, <3>2
  <2>4. /\ f_ref'[g] = f_ref[g] - 1
        /\ \A f \in Files : f # g => f_ref'[f] = f_ref[f]
    BY <1>b DEF TypeOK
  <2>5. RefSound'
    <3> SUFFICES ASSUME NEW f \in Files PROVE f_ref'[f] = Cardinality(Held(f)')
      BY DEF RefSound
    <3>1. f_ref[f] = Cardinality(Held(f)) /\ f_ref[g] = Cardinality(Held(g))
      BY DEF RefSound
    <3>2. CASE f = g
      BY <2>3, <2>4, <3>1, <3>2
    <3>3. CASE f # g
      BY <2>2, <2>4, <3>1, <3>3
    <3> QED
      BY <3>2, <3>3
  <2>6. Counted' = Counted
    <3>1. \A q \in Procs, j \in Fds :
            files'[q][j] \in Ends /\ ~Closing(q, j)' <=>
              files[q][j] \in Ends /\ ~Closing(q, j)
      BY <1>a, <1>b, <1>c, <1>d, FilesAre DEF Closing
    <3> QED
      BY <3>1, SameDescriptors
  <2>7. UNCHANGED <<mem, readers, writers>>
    BY <1>b
  <2>8. MemSound'
    BY <1>a, <1>c, <2>6, <2>7, FilesAre DEF MemSound
  <2> QED
    BY <2>5, <2>6, <2>7, <2>8 DEF SumSound
<1>5. QueuesSound'
  BY <1>b, QueueFrame DEF TypeOK
<1> QED
  BY <1>1, <1>2, <1>3, <1>4, <1>5

(* kpipe_close keeps the inductive invariant. *)
LEMMA kpipe_closeInv ==
  ASSUME Inv, NEW p \in Procs,
         kpipe_close(p)
  PROVE  Inv'
<1> USE PipeAssumption DEF Inv, fdvars, refvars, bufvars, waitvars,
        kpipe_close
<1>a. PICK i \in Fds, g \in Files : i = cur[p] /\ g = files[p][i]
  BY DEF ProcsSound, TypeOK, Files
<1>b. /\ pc[p] = "kclose"
      /\ files' = [files EXCEPT ![p][i] = NULL]
      /\ cur' = [cur EXCEPT ![p] = 0]
      /\ \/ pc' = [pc EXCEPT ![p] = "exit"]
         \/ pc' = [pc EXCEPT ![p] = "run"]
      /\ mem' = IF readers = 0 /\ writers = 0 THEN "freed" ELSE mem
      /\ UNCHANGED <<alive, f_ref, fd_reader, readers, writers, buffer,
                     read_ofs, write_ofs, notempty, full, count, data, child>>
  BY <1>a DEF Closed, TypeOK
<1>c. /\ pc'[p] \in {"exit", "run"}
      /\ \A q \in Procs, j \in Fds :
           files'[q][j] = IF q = p /\ j = i THEN NULL ELSE files[q][j]
  BY <1>b DEF TypeOK
<1>d. \A q \in Procs : q # p => pc'[q] = pc[q] /\ cur'[q] = cur[q]
  BY <1>b DEF TypeOK
<1>1. TypeOK'
  <2>1. Used' = Used
    BY DEF Used
  <2>2. files' \in [Procs -> [Fds -> Files \cup {"stale", NULL}]]
    BY <1>b DEF TypeOK
  <2>3. misuse' \in BOOLEAN
    OBVIOUS
  <2>4. pc' \in [Procs -> PCs] /\ cur' \in [Procs -> Nat]
    BY <1>b DEF TypeOK, PCs
  <2>5. mem' \in {"none", "live", "freed"}
    BY <1>b DEF TypeOK
  <2> QED
    BY <1>b, <2>1, <2>2, <2>3, <2>4, <2>5 DEF TypeOK
<1>2. ProcsSound'
  BY <1>b, <1>c, <1>d DEF ProcsSound
<1>3. ForksSound'
  BY <1>b, <1>c, <1>d, ForksFrame
<1>4. RefSound' /\ SumSound' /\ MemSound'
  <2>1. NULL \notin Files
    BY FilesAre
  <2>2. \A f \in Files : Held(f)' = Held(f)
    BY <1>a, <1>b, <1>c, <1>d, <2>1 DEF Held, Dropped
  <2>3. RefSound'
    BY <1>b, <2>2 DEF RefSound
  <2>4. Counted' = Counted
    <3>1. \A q \in Procs, j \in Fds :
            files'[q][j] \in Ends /\ ~Closing(q, j)' <=>
              files[q][j] \in Ends /\ ~Closing(q, j)
      BY <1>a, <1>b, <1>c, <1>d, FilesAre DEF Closing
    <3> QED
      BY <3>1, SameDescriptors
  <2>5. mem # "none"
    BY <1>a, <2>1 DEF MemSound
  <2>6. SumSound'
    BY <1>b, <2>4, <2>5 DEF SumSound
  <2>7. readers = 0 /\ writers = 0 => Counted = {}
    BY <2>5, FiniteCounts, FS_EmptySet DEF SumSound
  <2>8. MemSound'
    BY <1>b, <2>4, <2>5, <2>7 DEF MemSound
  <2> QED
    BY <2>3, <2>6, <2>8
<1>5. QueuesSound'
  BY <1>b, QueueFrame DEF TypeOK
<1> QED
  BY <1>1, <1>2, <1>3, <1>4, <1>5

(* sys_pipe keeps the inductive invariant. *)
LEMMA sys_pipeInv ==
  ASSUME Inv, NEW p \in Procs,
         sys_pipe(p)
  PROVE  Inv'
<1> USE PipeAssumption DEF Inv, fdvars, refvars, bufvars, waitvars,
        sys_pipe
<1>a. PICK r \in Fds, w \in Fds :
        /\ pc[p] = "run" /\ mem = "none" /\ r # w
        /\ files' = [files EXCEPT ![p][r] = "R", ![p][w] = "W"]
        /\ fd_reader' = r /\ mem' = "live" /\ readers' = 1 /\ writers' = 1
        /\ UNCHANGED <<alive, pc, cur, child, notempty, full>>
        /\ files[p][r] = NULL /\ files[p][w] = NULL
  BY DEF alloc_fd, alloc_second
<1>b. \A q \in Procs, j \in Fds :
        files'[q][j] = IF q = p /\ j = r THEN "R"
                       ELSE IF q = p /\ j = w THEN "W" ELSE files[q][j]
  BY <1>a DEF TypeOK
<1>e. /\ NULL \notin Files /\ "R" \in Ends /\ "W" \in Ends
      /\ \A q \in Procs, j \in Fds : files[q][j] \notin Ends
  BY <1>a DEF MemSound, Ends, Files
<1>c. Counted' = {<<p, r>>, <<p, w>>}
  <2> HIDE DEF sys_pipe, Inv
  <2>1. <<p, r>> \in Counted' /\ <<p, w>> \in Counted'
    <3>1. files'[p][r] \in Ends /\ files'[p][w] \in Ends /\ pc'[p] = "run"
      BY <1>a, <1>b, <1>e
    <3> QED
      BY <3>1 DEF Counted, Closing
  <2>2. ASSUME NEW d \in Counted' PROVE d = <<p, r>> \/ d = <<p, w>>
    <3>1. PICK q \in Procs, j \in Fds : d = <<q, j>> /\ files'[q][j] \in Ends
      <4>1. d \in Procs \X Fds /\ files'[d[1]][d[2]] \in Ends
        BY DEF Counted
      <4>2. PICK q \in Procs, j \in Fds : d = <<q, j>>
        BY <4>1, Pairs
      <4> QED
        BY <4>1, <4>2
    <3>2. q = p /\ (j = r \/ j = w)
      BY <1>b, <1>e, <3>1
    <3> QED
      BY <3>1, <3>2
  <2> QED
    BY <2>1, <2>2
<1>d. Cardinality(Counted') = 2 /\ 2 < UINT64
  <2>1. Cardinality(Counted') = 2
    <3>1. <<p, r>> # <<p, w>> /\ Counted' = {<<p, r>>} \cup {<<p, w>>}
      BY <1>a, <1>c
    <3>2. IsFiniteSet({<<p, r>>}) /\ Cardinality({<<p, r>>}) = 1
      BY FS_Singleton
    <3>3. <<p, w>> \notin {<<p, r>>}
      BY <3>1
    <3>4. Cardinality({<<p, r>>} \cup {<<p, w>>}) = 1 + 1
      <4> DEFINE a == <<p, r>>
                 z == <<p, w>>
      <4>1. z \notin {a} /\ IsFiniteSet({a}) /\ Cardinality({a}) = 1
        BY <3>2, <3>3
      <4> HIDE DEF a, z
      <4>2. Cardinality({a} \cup {z}) = IF z \in {a} THEN Cardinality({a})
                                       ELSE Cardinality({a}) + 1
        BY <4>1, FS_AddElement
      <4>3. Cardinality({a} \cup {z}) = 1 + 1
        BY <4>1, <4>2
      <4> QED
        BY <4>3 DEF a, z
    <3> QED
      BY <3>1, <3>4
  <2>2. IsFiniteSet(Procs \X Fds) /\ Counted' \subseteq Procs \X Fds
    BY FS_Product DEF Counted
  <2>3. Cardinality(Counted') <= Cardinality(Procs \X Fds)
    BY <2>2, FS_Subset
  <2>4. Cardinality(Procs \X Fds) \in Nat
    BY <2>2, FS_CardinalityType
  <2> QED
    BY <2>1, <2>3, <2>4
<1>1. TypeOK'
  <2>1. Used' = Used
    BY DEF Used
  <2>2. files' \in [Procs -> [Fds -> Files \cup {"stale", NULL}]]
    BY <1>a DEF TypeOK, Files, Ends
  <2>3. f_ref' \in [Files -> Nat]
    BY DEF TypeOK
  <2>4. fd_reader' \in Fds /\ mem' \in {"none", "live", "freed"}
    BY <1>a
  <2>5. readers' \in 0..(UINT64 - 1) /\ writers' \in 0..(UINT64 - 1)
    BY <1>d
  <2> QED
    BY <1>a, <2>1, <2>2, <2>3, <2>4, <2>5 DEF TypeOK
<1>2. ProcsSound'
  <2>1. p \in alive /\ \A q \in Procs : pc[q] \in {"close", "kclose"} => q # p
    BY <1>a DEF ProcsSound
  <2> QED
    <3> SUFFICES ASSUME NEW q \in Procs
                 PROVE  /\ pc[q] # "dead" => q \in alive
                        /\ q \notin alive => \A j \in Fds : files'[q][j] = NULL
                        /\ pc[q] \in {"read", "write"} =>
                             \E j \in Fds : files'[q][j] \in Ends
                        /\ pc[q] \in {"close", "kclose"} =>
                             cur[q] \in Fds /\ files'[q][cur[q]] \in Files
      BY <1>a DEF ProcsSound
    <3>1. pc[q] \notin {"read", "write"}
      BY <1>e DEF ProcsSound
    <3>2. q # p => \A j \in Fds : files'[q][j] = files[q][j]
      BY <1>b
    <3> QED
      BY <1>a, <2>1, <3>1, <3>2 DEF ProcsSound
<1>3. ForksSound'
  <2>1. \A q \in Procs, j \in Fds : q # p => files'[q][j] = files[q][j]
    BY <1>b, <1>e
  <2> HIDE DEF sys_pipe
  <2> QED
    BY <1>a, <2>1, ForksFrame
<1>4. RefSound' /\ SumSound' /\ MemSound'
  <2>0. Held("unset")' = Held("unset")
    <3> HIDE DEF sys_pipe, Inv
    <3>1. \A q \in Procs, j \in Fds :
            files'[q][j] = "unset" <=> files[q][j] = "unset"
      <4> TAKE q \in Procs, j \in Fds
      <4>1. CASE q = p /\ j = r
        BY <1>a, <1>b, <4>1, FilesAre
      <4>2. CASE q = p /\ j = w
        BY <1>a, <1>b, <4>2, FilesAre
      <4> QED
        BY <1>b, <4>1, <4>2
    <3>2. \A q \in Procs, j \in Fds : Dropped(q, j)' <=> Dropped(q, j)
      BY <1>a DEF Dropped
    <3> QED
      BY <3>1, <3>2, SameDescriptors
  <2>1. Held("R")' = {<<p, r>>} /\ Held("W")' = {<<p, w>>}
    <3> HIDE DEF sys_pipe, Inv
    <3>1. <<p, r>> \in Held("R")' /\ <<p, w>> \in Held("W")'
      <4>1. files'[p][r] = "R" /\ files'[p][w] = "W" /\ pc'[p] = "run"
        BY <1>a, <1>b
      <4> QED
        BY <4>1 DEF Held, Dropped
    <3>2. ASSUME NEW d \in Held("R")' PROVE d = <<p, r>>
      <4>1. PICK q \in Procs, j \in Fds : d = <<q, j>> /\ files'[q][j] = "R"
        <5>1. d \in Procs \X Fds /\ files'[d[1]][d[2]] = "R"
          BY DEF Held
        <5>2. PICK q \in Procs, j \in Fds : d = <<q, j>>
          BY <5>1, Pairs
        <5> QED
          BY <5>1, <5>2
      <4>2. q = p /\ j = r
        BY <1>a, <1>b, <1>e, <4>1
      <4> QED
        BY <4>1, <4>2
    <3>3. ASSUME NEW d \in Held("W")' PROVE d = <<p, w>>
      <4>1. PICK q \in Procs, j \in Fds : d = <<q, j>> /\ files'[q][j] = "W"
        <5>1. d \in Procs \X Fds /\ files'[d[1]][d[2]] = "W"
          BY DEF Held
        <5>2. PICK q \in Procs, j \in Fds : d = <<q, j>>
          BY <5>1, Pairs
        <5> QED
          BY <5>1, <5>2
      <4>2. q = p /\ j = w
        BY <1>a, <1>b, <1>e, <4>1
      <4> QED
        BY <4>1, <4>2
    <3> QED
      BY <3>1, <3>2, <3>3
  <2>2. RefSound'
    <3>1. f_ref'["R"] = 1 /\ f_ref'["W"] = 1 /\ f_ref'["unset"] = f_ref["unset"]
      BY DEF TypeOK, Files, Ends
    <3>2. f_ref["unset"] = Cardinality(Held("unset"))
      BY DEF RefSound, Files
    <3>3. Cardinality({<<p, r>>}) = 1 /\ Cardinality({<<p, w>>}) = 1
      BY FS_Singleton
    <3> HIDE DEF sys_pipe, Inv
    <3> QED
      BY <2>0, <2>1, <3>1, <3>2, <3>3 DEF RefSound, Files, Ends
  <2>3. SumSound' /\ MemSound'
    BY <1>a, <1>c, <1>d DEF SumSound, MemSound
  <2> QED
    BY <2>2, <2>3
<1>5. QueuesSound'
  BY <1>a, QueueFrame
<1> QED
  BY <1>1, <1>2, <1>3, <1>4, <1>5

(* A process that runs changes its own table, and no descriptor of an end  *)
(* of the pipe.                                                            *)
LEMMA Breaks ==
  ASSUME Inv, NEW p \in Procs, pc[p] = "run",
         files' \in [Procs -> [Fds -> Files \cup {"stale", NULL}]],
         \A q \in Procs, j \in Fds :
           /\ q # p => files'[q][j] = files[q][j]
           /\ files'[q][j] \in Ends <=> files[q][j] \in Ends,
         f_ref' \in [Files -> Nat], RefSound',
         UNCHANGED <<alive, mem, fd_reader, readers, writers, buffer, read_ofs,
                     write_ofs, notempty, full, count, data, pc, cur, child,
                     misuse>>
  PROVE  Inv'
<1> USE PipeAssumption DEF Inv
<1>1. TypeOK'
  <2>1. Used' = Used
    BY DEF Used
  <2> QED
    BY <2>1 DEF TypeOK
<1>2. ProcsSound'
  <2>1. p \in alive /\ pc[p] \notin {"close", "kclose", "read", "write"}
    BY DEF ProcsSound
  <2> QED
    <3> SUFFICES ASSUME NEW q \in Procs
                 PROVE  /\ pc[q] # "dead" => q \in alive
                        /\ q \notin alive => \A j \in Fds : files'[q][j] = NULL
                        /\ pc[q] \in {"read", "write"} =>
                             \E j \in Fds : files'[q][j] \in Ends
                        /\ pc[q] \in {"close", "kclose"} =>
                             cur[q] \in Fds /\ files'[q][cur[q]] \in Files
      BY DEF ProcsSound
    <3>1. q # p => \A j \in Fds : files'[q][j] = files[q][j]
      OBVIOUS
    <3> QED
      BY <2>1, <3>1 DEF ProcsSound
<1>3. ForksSound'
  BY ForksFrame
<1>4. SumSound' /\ MemSound'
  <2>1. Counted' = Counted
    BY DEF Counted, Closing
  <2> QED
    BY <2>1 DEF SumSound, MemSound
<1>5. QueuesSound'
  BY QueueFrame
<1> QED
  BY <1>1, <1>2, <1>3, <1>4, <1>5

(* sys_pipeFail keeps the inductive invariant. *)
LEMMA sys_pipeFailInv ==
  ASSUME Inv, NEW p \in Procs,
         sys_pipeFail(p)
  PROVE  Inv'
<1> USE PipeAssumption
<1>0. /\ pc[p] = "run" /\ files \in [Procs -> [Fds -> Files \cup {"stale", NULL}]]
      /\ f_ref \in [Files -> Nat] /\ RefSound
      /\ "unset" \in Files /\ NULL \notin Files /\ "stale" \notin Files
  BY DEF sys_pipeFail, Inv, TypeOK, Files, Ends
<1>1. UNCHANGED <<alive, mem, fd_reader, readers, writers, buffer, read_ofs,
                  write_ofs, notempty, full, count, data, pc, cur, child,
                  misuse>>
  BY DEF sys_pipeFail, refvars, bufvars, waitvars
<1>2. PICK r \in Fds :
        /\ files[p][r] = NULL
        /\ \/ /\ files' = [files EXCEPT ![p][r] = "unset"]
              /\ f_ref["unset"] = 0
              /\ f_ref' = [f_ref EXCEPT !["unset"] = 1]
           \/ files' = [files EXCEPT ![p][r] = "stale"] /\ f_ref' = f_ref
           \/ \E w \in Fds :
                /\ files[p][w] = NULL
                /\ files' = [files EXCEPT ![p][r] = "stale",
                                          ![p][w] = "stale"]
                /\ f_ref' = f_ref
  BY DEF sys_pipeFail, alloc_fd, alloc_second
<1>3. CASE /\ files' = [files EXCEPT ![p][r] = "unset"]
           /\ f_ref["unset"] = 0
           /\ f_ref' = [f_ref EXCEPT !["unset"] = 1]
  <2>1. /\ files' \in [Procs -> [Fds -> Files \cup {"stale", NULL}]]
        /\ f_ref' \in [Files -> Nat]
        /\ \A q \in Procs, j \in Fds :
             files'[q][j] = IF q = p /\ (j = r \/ j = r) THEN "unset"
                            ELSE files[q][j]
    BY <1>0, <1>3
  <2>2. Held("unset") = {}
    <3>1. IsFiniteSet(Held("unset")) /\ Cardinality(Held("unset")) = 0
      BY <1>0, <1>3, FiniteCounts DEF RefSound
    <3> QED
      BY <3>1, FS_EmptySet
  <2>3. Held("unset")' = {<<p, r>>}
    <3>1. <<p, r>> \in Held("unset")'
      BY <1>0, <1>1, <2>1 DEF Held, Dropped
    <3>2. ASSUME NEW d \in Held("unset")' PROVE d = <<p, r>>
      <4>1. d \in Procs \X Fds /\ files'[d[1]][d[2]] = "unset"
            /\ ~Dropped(d[1], d[2])'
        BY DEF Held
      <4>2. PICK q \in Procs, j \in Fds : d = <<q, j>>
        BY <4>1, Pairs
      <4>3. files'[q][j] = "unset" /\ ~Dropped(q, j)
        BY <1>1, <4>1, <4>2 DEF Dropped
      <4>4. files[q][j] # "unset"
        <5>1. <<q, j>> \notin Held("unset")
          BY <2>2
        <5> QED
          BY <4>3, <5>1 DEF Held
      <4> QED
        BY <2>1, <4>2, <4>3, <4>4
    <3> QED
      BY <3>1, <3>2
  <2>4. \A f \in Files : f # "unset" => Held(f)' = Held(f)
    <3>1. \A f \in Files, q \in Procs, j \in Fds :
            f # "unset" => (files'[q][j] = f <=> files[q][j] = f)
      BY <1>0, <1>2, <2>1
    <3>2. \A q \in Procs, j \in Fds : Dropped(q, j)' <=> Dropped(q, j)
      BY <1>1 DEF Dropped
    <3> QED
      BY <3>1, <3>2, SameDescriptors
  <2>5. RefSound'
    <3>1. Cardinality({<<p, r>>}) = 1
      BY FS_Singleton
    <3>2. f_ref'["unset"] = 1 /\ \A f \in Files : f # "unset" => f_ref'[f] = f_ref[f]
      BY <1>0, <1>3
    <3> QED
      BY <1>0, <2>3, <2>4, <3>1, <3>2 DEF RefSound
  <2>6. \A q \in Procs, j \in Fds :
          /\ q # p => files'[q][j] = files[q][j]
          /\ files'[q][j] \in Ends <=> files[q][j] \in Ends
    BY <1>2, <2>1, FilesAre
  <2> QED
    BY <1>0, <1>1, <2>1, <2>5, <2>6, Breaks
<1>4. ASSUME NEW w \in Fds, files[p][w] = NULL,
             files' \in [Procs -> [Fds -> Files \cup {"stale", NULL}]],
             \A q \in Procs, j \in Fds :
               files'[q][j] = IF q = p /\ (j = r \/ j = w) THEN "stale"
                              ELSE files[q][j],
             f_ref' = f_ref
      PROVE  Inv'
  <2>1. \A f \in Files, q \in Procs, j \in Fds :
          files'[q][j] = f <=> files[q][j] = f
    BY <1>0, <1>2, <1>4
  <2>2. \A f \in Files : Held(f)' = Held(f)
    <3>1. \A q \in Procs, j \in Fds : Dropped(q, j)' <=> Dropped(q, j)
      BY <1>1 DEF Dropped
    <3> QED
      BY <2>1, <3>1, SameDescriptors
  <2>3. RefSound'
    BY <1>0, <1>4, <2>2 DEF RefSound
  <2>4. \A q \in Procs, j \in Fds :
          /\ q # p => files'[q][j] = files[q][j]
          /\ files'[q][j] \in Ends <=> files[q][j] \in Ends
    BY <1>2, <1>4, FilesAre
  <2> QED
    BY <1>0, <1>1, <1>4, <2>3, <2>4, Breaks
<1>5. CASE files' = [files EXCEPT ![p][r] = "stale"] /\ f_ref' = f_ref
  <2>1. /\ files' \in [Procs -> [Fds -> Files \cup {"stale", NULL}]]
        /\ \A q \in Procs, j \in Fds :
             files'[q][j] = IF q = p /\ (j = r \/ j = r) THEN "stale"
                            ELSE files[q][j]
    BY <1>0, <1>5
  <2> QED
    BY <1>2, <1>4, <1>5, <2>1
<1>6. CASE \E w \in Fds :
             /\ files[p][w] = NULL
             /\ files' = [files EXCEPT ![p][r] = "stale", ![p][w] = "stale"]
             /\ f_ref' = f_ref
  <2>1. PICK w \in Fds :
          /\ files[p][w] = NULL
          /\ files' = [files EXCEPT ![p][r] = "stale", ![p][w] = "stale"]
          /\ f_ref' = f_ref
    BY <1>6
  <2>2. /\ files' \in [Procs -> [Fds -> Files \cup {"stale", NULL}]]
        /\ \A q \in Procs, j \in Fds :
             files'[q][j] = IF q = p /\ (j = r \/ j = w) THEN "stale"
                            ELSE files[q][j]
    BY <1>0, <2>1
  <2> QED
    BY <1>4, <2>1, <2>2
<1> QED
  BY <1>2, <1>3, <1>5, <1>6

(* A read, from its first look at the ring or from a wakeup. *)
LEMMA TryReadInv ==
  ASSUME Inv, NEW p \in Procs, NEW n \in Nat, TryRead(p, n),
         pc[p] \in {"run", "read"}, ~In(notempty, p), ~In(full, p),
         \E fd \in Fds : files[p][fd] \in Ends,
         UNCHANGED <<fdvars, refvars, cur, child, misuse>>
  PROVE  Inv'
<1> USE DEF Inv, fdvars, refvars, bufvars
<1>1. /\ pc' \in [Procs -> PCs] /\ pc'[p] \in {"run", "read"}
      /\ \A q \in Procs : q # p => pc'[q] = pc[q]
      /\ count' \in [Procs -> Nat] /\ UNCHANGED <<buffer, write_ofs, data>>
  <2>1. /\ \/ pc' = [pc EXCEPT ![p] = "run"]
           \/ pc' = [pc EXCEPT ![p] = "read"]
        /\ \/ count' = [count EXCEPT ![p] = 0]
           \/ count' = [count EXCEPT ![p] = n]
        /\ UNCHANGED <<buffer, write_ofs, data>>
    BY DEF TryRead
  <2>2. pc \in [Procs -> PCs] /\ count \in [Procs -> Nat]
    BY DEF TypeOK
  <2>3. /\ pc' \in [Procs -> PCs] /\ pc'[p] \in {"run", "read"}
        /\ \A q \in Procs : q # p => pc'[q] = pc[q]
    BY <2>1, <2>2 DEF PCs
  <2> QED
    BY <2>1, <2>2, <2>3
<1>2. notempty \in Seq(Procs) /\ full \in Seq(Procs)
  BY DEF TypeOK
<1>3. /\ notempty' \in Seq(Procs) /\ full' \in Seq(Procs)
      /\ QueuesSound'
      /\ read_ofs' \in 0..(SIZE_T - 1) /\ Used' <= PIPE_SZ
  <2>1. CASE /\ UNCHANGED <<bufvars, notempty, full>>
    <3>1. \A q \in Procs : In(notempty, q) \/ In(full, q) => pc'[q] = pc[q]
      BY <1>1
    <3>2. QueuesSound'
      BY <1>2, <2>1, <3>1 DEF QueuesSound, In
    <3>3. Used' = Used
      BY <2>1 DEF Used
    <3> QED
      BY <2>1, <3>2, <3>3 DEF TypeOK
  <2>2. CASE /\ notempty' = Append(notempty, p) /\ pc'[p] = "read"
             /\ UNCHANGED <<bufvars, full>>
    <3>1. /\ notempty' \in Seq(Procs)
          /\ \A q \in Procs : In(notempty', q) <=> In(notempty, q) \/ q = p
          /\ \A i, j \in 1..Len(notempty') :
               notempty'[i] = notempty'[j] => i = j
      BY <1>2, <2>2, AppendIs DEF QueuesSound
    <3>2. \A q \in Procs : In(notempty', q) => pc'[q] = "read"
      BY <1>1, <2>2, <3>1, QueuesIn
    <3>3. \A q \in Procs : In(full, q) => pc'[q] = "write"
      BY <1>1, QueuesIn
    <3>4. QueuesSound'
      BY <1>2, <2>2, <3>1, <3>2, <3>3 DEF QueuesSound, In
    <3>5. Used' = Used
      BY <2>2 DEF Used
    <3> QED
      BY <1>2, <2>2, <3>1, <3>4, <3>5 DEF TypeOK
  <2>3. CASE /\ read_ofs' = (read_ofs + Least(n, Used)) % SIZE_T
             /\ full' = Pop(full) \/ full' = full
             /\ UNCHANGED <<buffer, write_ofs, notempty>>
    <3>1. /\ full' \in Seq(Procs)
          /\ \A q \in Procs : In(full', q) => In(full, q)
          /\ \A i, j \in 1..Len(full') : full'[i] = full'[j] => i = j
      BY <1>2, <2>3, PopIs DEF QueuesSound
    <3>2. \A q \in Procs : In(full', q) => pc'[q] = "write"
      BY <1>1, <3>1, QueuesIn
    <3>3. \A q \in Procs : In(notempty, q) => pc'[q] = "read"
      BY <1>1, QueuesIn
    <3>4. QueuesSound'
      BY <1>2, <2>3, <3>1, <3>2, <3>3 DEF QueuesSound, In
    <3>5. Least(n, Used) \in 0..Used /\ Used \in 0..PIPE_SZ
      BY UsedIs, LeastIs
    <3>6. read_ofs' \in 0..(SIZE_T - 1) /\ Used' = Used - Least(n, Used)
      BY <2>3, <3>5, ReadRing
    <3>7. Used' <= PIPE_SZ
      BY <3>5, <3>6, SizeType
    <3> QED
      BY <1>2, <2>3, <3>1, <3>4, <3>6, <3>7
  <2> QED
    BY <2>1, <2>2, <2>3 DEF TryRead, TypeOK
<1>4. TypeOK'
  BY <1>1, <1>3 DEF TypeOK
<1>5. ProcsSound'
  BY <1>1 DEF ProcsSound
<1>6. ForksSound'
  BY <1>1, ForksFrame
<1>7. RefSound' /\ SumSound' /\ MemSound'
  <2>1. \A q \in Procs, fd \in Fds :
          /\ Closing(q, fd)' <=> Closing(q, fd)
          /\ Dropped(q, fd)' <=> Dropped(q, fd)
    BY <1>1 DEF Closing, Dropped
  <2> QED
    BY <2>1, CountFrame
<1> QED
  BY <1>3, <1>4, <1>5, <1>6, <1>7

(* A write, from its first look at the ring or from a wakeup. *)
LEMMA TryWriteInv ==
  ASSUME Inv, NEW p \in Procs, NEW block \in Seq(Bytes), TryWrite(p, block),
         pc[p] \in {"run", "write"}, ~In(notempty, p), ~In(full, p),
         \E fd \in Fds : files[p][fd] \in Ends,
         UNCHANGED <<fdvars, refvars, cur, child, misuse>>
  PROVE  Inv'
<1> USE DEF Inv, fdvars, refvars, bufvars
<1>1. /\ pc' \in [Procs -> PCs] /\ pc'[p] \in {"run", "write"}
      /\ \A q \in Procs : q # p => pc'[q] = pc[q]
      /\ UNCHANGED <<read_ofs, count>>
  BY DEF TryWrite, TypeOK, PCs
<1>2. notempty \in Seq(Procs) /\ full \in Seq(Procs)
  BY DEF TypeOK
<1>3. data' \in [Procs -> Seq(Bytes)]
  <2>1. <<>> \in Seq(Bytes)
    OBVIOUS
  <2> QED
    BY <2>1 DEF TryWrite, TypeOK
<1>4. /\ notempty' \in Seq(Procs) /\ full' \in Seq(Procs)
      /\ QueuesSound' /\ buffer' \in [0..(PIPE_SZ - 1) -> Bytes]
      /\ write_ofs' \in 0..(SIZE_T - 1) /\ Used' <= PIPE_SZ
  <2>1. CASE /\ full' = Append(full, p) /\ pc'[p] = "write"
             /\ UNCHANGED <<bufvars, notempty>>
    <3>1. /\ full' \in Seq(Procs)
          /\ \A q \in Procs : In(full', q) <=> In(full, q) \/ q = p
          /\ \A i, j \in 1..Len(full') : full'[i] = full'[j] => i = j
      BY <1>2, <2>1, AppendIs DEF QueuesSound
    <3>2. \A q \in Procs : In(full', q) => pc'[q] = "write"
      BY <1>1, <2>1, <3>1, QueuesIn
    <3>3. \A q \in Procs : In(notempty, q) => pc'[q] = "read"
      BY <1>1, QueuesIn
    <3>4. QueuesSound'
      BY <1>2, <2>1, <3>1, <3>2, <3>3 DEF QueuesSound, In
    <3>5. Used' = Used
      BY <2>1 DEF Used
    <3> QED
      BY <1>2, <2>1, <3>1, <3>4, <3>5 DEF TypeOK
  <2>2. CASE /\ Used # PIPE_SZ
             /\ LET k == Least(Len(block), PIPE_SZ - Used) IN
                /\ buffer' = [i \in 0..(PIPE_SZ - 1) |->
                                LET j == (i - write_ofs) % PIPE_SZ
                                IN  IF j < k THEN block[j + 1] ELSE buffer[i]]
                /\ write_ofs' = (write_ofs + k) % SIZE_T
                /\ notempty' = IF k > 0 THEN Pop(notempty) ELSE notempty
             /\ UNCHANGED full
    <3>1. /\ notempty' \in Seq(Procs)
          /\ \A q \in Procs : In(notempty', q) => In(notempty, q)
          /\ \A i, j \in 1..Len(notempty') :
               notempty'[i] = notempty'[j] => i = j
      <4>1. notempty' = Pop(notempty) \/ notempty' = notempty
        BY <2>2
      <4> QED
        BY <1>2, <4>1, PopIs DEF QueuesSound
    <3>2. \A q \in Procs : In(notempty', q) => pc'[q] = "read"
      BY <1>1, <3>1, QueuesIn
    <3>3. \A q \in Procs : In(full, q) => pc'[q] = "write"
      BY <1>1, QueuesIn
    <3>4. QueuesSound'
      BY <1>2, <2>2, <3>1, <3>2, <3>3 DEF QueuesSound, In
    <3>5. PICK k \in Nat : k = Least(Len(block), PIPE_SZ - Used)
      <4>1. Len(block) \in Nat /\ PIPE_SZ - Used \in Nat
        BY UsedIs, SizeType
      <4> QED
        BY <4>1, LeastIs
    <3>6. /\ k \in 0..(PIPE_SZ - Used) /\ k <= Len(block)
          /\ Used \in 0..PIPE_SZ /\ Len(block) \in Nat
      <4>1. PIPE_SZ - Used \in Nat /\ Len(block) \in Nat /\ Used \in 0..PIPE_SZ
        BY UsedIs, SizeType
      <4> QED
        BY <3>5, <4>1, LeastIs
    <3>7. write_ofs' \in 0..(SIZE_T - 1) /\ Used' = Used + k
      BY <1>1, <2>2, <3>5, <3>6, WriteRing
    <3>8. Used' <= PIPE_SZ
      BY <3>6, <3>7, SizeType
    <3>9. buffer' \in [0..(PIPE_SZ - 1) -> Bytes]
      <4>1. ASSUME NEW i \in 0..(PIPE_SZ - 1) PROVE buffer'[i] \in Bytes
        <5>1. PICK j \in 0..(PIPE_SZ - 1) : j = (i - write_ofs) % PIPE_SZ
          BY SizeType
        <5>2. j < k => j + 1 \in 1..Len(block)
          BY <3>6, <5>1
        <5>3. buffer'[i] = IF j < k THEN block[j + 1] ELSE buffer[i]
          BY <2>2, <3>5, <5>1
        <5>4. buffer[i] \in Bytes
          BY DEF TypeOK
        <5>5. \A l \in 1..Len(block) : block[l] \in Bytes
          OBVIOUS
        <5> QED
          BY <5>2, <5>3, <5>4, <5>5
      <4>2. buffer' = [i \in 0..(PIPE_SZ - 1) |-> buffer'[i]]
        BY <2>2
      <4> QED
        BY <4>1, <4>2
    <3> QED
      BY <1>2, <2>2, <3>1, <3>4, <3>7, <3>8, <3>9
  <2> QED
    BY <2>1, <2>2 DEF TryWrite, TypeOK
<1>5. TypeOK'
  BY <1>1, <1>3, <1>4 DEF TypeOK
<1>6. ProcsSound'
  BY <1>1 DEF ProcsSound
<1>7. ForksSound'
  BY <1>1, ForksFrame
<1>8. RefSound' /\ SumSound' /\ MemSound'
  <2>1. \A q \in Procs, fd \in Fds :
          /\ Closing(q, fd)' <=> Closing(q, fd)
          /\ Dropped(q, fd)' <=> Dropped(q, fd)
    BY <1>1 DEF Closing, Dropped
  <2> QED
    BY <2>1, CountFrame
<1> QED
  BY <1>4, <1>5, <1>6, <1>7, <1>8

-----------------------------------------------------------------------------
(* Every step *)

(* The four calls that look at the ring: what TryReadInv and TryWriteInv   *)
(* ask for.                                                                *)
LEMMA ReadStep ==
  ASSUME Inv, NEW p \in Procs,
         (\E n \in Counts : sys_read(p, n)) \/ ReadWake(p)
  PROVE  \E n \in Nat :
           /\ TryRead(p, n) /\ pc[p] \in {"run", "read"}
           /\ ~In(notempty, p) /\ ~In(full, p)
           /\ \E fd \in Fds : files[p][fd] \in Ends
           /\ UNCHANGED <<fdvars, refvars, cur, child, misuse>>
           /\ (pc[p] = "run" => n \in Counts)
           /\ (pc[p] = "read" => n = count[p])
<1>1. CASE \E n \in Counts : sys_read(p, n)
  <2>1. PICK n \in Counts : sys_read(p, n)
    BY <1>1
  <2>2. n \in Nat
    BY PipeAssumption
  <2>3. ~In(notempty, p) /\ ~In(full, p)
    BY <2>1, NotQueued DEF sys_read, Inv
  <2>4. \E fd \in Fds : files[p][fd] \in Ends
    BY <2>1 DEF sys_read, Ends
  <2> QED
    BY <2>1, <2>2, <2>3, <2>4 DEF sys_read
<1>2. CASE ReadWake(p)
  <2>1. count[p] \in Nat
    BY DEF Inv, TypeOK
  <2>2. ~In(notempty, p) /\ ~In(full, p)
    BY <1>2, NotQueued DEF ReadWake, Inv
  <2>3. \E fd \in Fds : files[p][fd] \in Ends
    BY <1>2 DEF ReadWake, Inv, ProcsSound
  <2> QED
    BY <1>2, <2>1, <2>2, <2>3 DEF ReadWake
<1> QED
  BY <1>1, <1>2

(* The same for a write. *)
LEMMA WriteStep ==
  ASSUME Inv, NEW p \in Procs,
         (\E block \in Blocks : sys_write(p, block)) \/ WriteWake(p)
  PROVE  \E block \in Seq(Bytes) :
           /\ TryWrite(p, block) /\ pc[p] \in {"run", "write"}
           /\ ~In(notempty, p) /\ ~In(full, p)
           /\ \E fd \in Fds : files[p][fd] \in Ends
           /\ UNCHANGED <<fdvars, refvars, cur, child, misuse>>
           /\ pc[p] = "run" => Len(block) \in Counts
           /\ pc[p] = "write" => block = data[p]
<1>1. CASE \E block \in Blocks : sys_write(p, block)
  <2>1. PICK block \in Blocks : sys_write(p, block)
    BY <1>1
  <2>2. block \in Seq(Bytes) /\ Len(block) \in Counts
    <3>1. PICK n \in Counts : block \in [1..n -> Bytes]
      BY DEF Blocks
    <3>2. n \in Nat
      BY PipeAssumption
    <3> QED
      BY <3>1, <3>2
  <2>3. ~In(notempty, p) /\ ~In(full, p)
    BY <2>1, NotQueued DEF sys_write, Inv
  <2>4. \E fd \in Fds : files[p][fd] \in Ends
    BY <2>1 DEF sys_write, Ends
  <2> QED
    BY <2>1, <2>2, <2>3, <2>4 DEF sys_write
<1>2. CASE WriteWake(p)
  <2>1. data[p] \in Seq(Bytes)
    BY DEF Inv, TypeOK
  <2>2. ~In(notempty, p) /\ ~In(full, p)
    BY <1>2, NotQueued DEF WriteWake, Inv
  <2>3. \E fd \in Fds : files[p][fd] \in Ends
    BY <1>2 DEF WriteWake, Inv, ProcsSound
  <2> QED
    BY <1>2, <2>1, <2>2, <2>3 DEF WriteWake
<1> QED
  BY <1>1, <1>2

(* Every step keeps the inductive invariant. *)
LEMMA NextInv == Inv /\ [Next]_vars => Inv'
<1> SUFFICES ASSUME Inv, [Next]_vars PROVE Inv'
  OBVIOUS
<1>1. ASSUME NEW p \in Procs,
             (\E n \in Counts : sys_read(p, n)) \/ ReadWake(p)
      PROVE  Inv'
  BY <1>1, ReadStep, TryReadInv
<1>2. ASSUME NEW p \in Procs,
             (\E block \in Blocks : sys_write(p, block)) \/ WriteWake(p)
      PROVE  Inv'
  BY <1>2, WriteStep, TryWriteInv
<1>3. ASSUME NEW p \in Procs, Call(p) PROVE Inv'
  BY <1>1, <1>2, <1>3, sys_pipeInv, sys_pipeFailInv, sys_dupInv, sys_closeInv, proc_forkInv,
     proc_exitInv DEF Call
<1>4. ASSUME NEW p \in Procs, Continue(p) PROVE Inv'
  BY <1>1, <1>2, <1>4, ForkFileInv, ForkDoneInv, ExitFileInv, ExitDoneInv,
     fs_close_fileInv, kpipe_closeInv DEF Continue
<1>5. ASSUME UNCHANGED <<alive, files, f_ref, mem, fd_reader, readers, writers,
                         buffer, read_ofs, write_ofs, notempty, full, count,
                         data, pc, cur, child>>,
             misuse' \in BOOLEAN
      PROVE  Inv'
  <2> USE <1>5 DEF Inv
  <2>1. Used' = Used
    BY DEF Used
  <2>2. TypeOK'
    BY <2>1 DEF TypeOK
  <2>3. ProcsSound' /\ ForksSound'
    BY DEF ProcsSound, ForksSound
  <2>4. RefSound' /\ SumSound' /\ MemSound'
    BY CountFrame DEF Closing, Dropped
  <2>5. QueuesSound'
    BY DEF QueuesSound
  <2> QED
    BY <2>2, <2>3, <2>4, <2>5
<1>6. ASSUME NEW p \in Procs, UseBroken(p) PROVE Inv'
  BY <1>5, <1>6 DEF UseBroken, fdvars, refvars, bufvars, waitvars
<1>7. CASE UNCHANGED vars
  BY <1>5, <1>7 DEF vars, Inv, TypeOK
<1> QED
  BY <1>3, <1>4, <1>6, <1>7 DEF Next

(* The inductive invariant holds in every state. *)
THEOREM Invariance == Spec => []Inv
BY InitInv, NextInv, PTL DEF Spec

-----------------------------------------------------------------------------
(* The counts are exact *)

(* A process closes one descriptor at a time, so there are as many of      *)
(* those as of processes that close.                                       *)
LEMMA OnePerProcess ==
  ASSUME NEW S \in SUBSET Procs, \A p \in S : cur[p] \in Fds
  PROVE  LET T == {<<p, cur[p]>> : p \in S} IN
         /\ IsFiniteSet(S) /\ IsFiniteSet(T)
         /\ Cardinality(T) = Cardinality(S)
<1> DEFINE T == {<<p, cur[p]>> : p \in S}
           g == [p \in S |-> <<p, cur[p]>>]
<1>1. IsFiniteSet(S)
  BY PipeAssumption, FS_Subset
<1>2. g \in Bijection(S, T)
  <2>1. g \in [S -> T]
    OBVIOUS
  <2>2. \A p, q \in S : g[p] = g[q] => p = q
    OBVIOUS
  <2>3. \A t \in T : \E p \in S : g[p] = t
    OBVIOUS
  <2> QED
    BY <2>1, <2>2, <2>3 DEF Bijection, Injection, Surjection, IsInjective
<1>3. ExistsBijection(S, T)
  BY <1>2 DEF ExistsBijection
<1> QED
  BY <1>1, <1>3, FS_Bijection

(* What f_ref counts is what is open, but for a close under way. *)
LEMMA InvRefExact == Inv => RefExact
<1> SUFFICES ASSUME Inv, NEW f \in Files
             PROVE  f_ref[f] = Cardinality(Open(f))
                                 - Cardinality(Past({"kclose"}, f))
  BY DEF RefExact
<1> DEFINE S == Past({"kclose"}, f)
           T == {<<p, cur[p]>> : p \in S}
<1>1. /\ S \in SUBSET Procs
      /\ \A p \in S :
           cur[p] \in Fds /\ files[p][cur[p]] = f /\ pc[p] = "kclose"
  BY DEF Inv, ProcsSound, Past
<1>2. IsFiniteSet(T) /\ Cardinality(T) = Cardinality(S)
  BY <1>1, OnePerProcess
<1>3. Open(f) = Held(f) \cup T /\ Held(f) \cap T = {}
  <2>1. T \subseteq Open(f) /\ Held(f) \cap T = {}
    BY <1>1 DEF Open, Held, Dropped
  <2>2. Held(f) \subseteq Open(f)
    BY DEF Open, Held
  <2>3. ASSUME NEW d \in Open(f), d \notin Held(f) PROVE d \in T
    <3>1. PICK q \in Procs, j \in Fds : d = <<q, j>>
      BY Pairs DEF Open
    <3>2. files[q][j] = f /\ pc[q] = "kclose" /\ cur[q] = j
      BY <2>3, <3>1 DEF Open, Held, Dropped
    <3> QED
      BY <3>1, <3>2 DEF Past
  <2> QED
    BY <2>1, <2>2, <2>3
<1> HIDE DEF S, T
<1>4. Cardinality(Open(f)) = Cardinality(Held(f)) + Cardinality(T)
  <2>1. IsFiniteSet(Held(f)) /\ Cardinality(Held(f)) \in Nat
    BY FiniteCounts
  <2>2. Cardinality(T) \in Nat /\ Cardinality({}) = 0
    BY <1>2, FS_CardinalityType, FS_EmptySet
  <2>3. Cardinality(Held(f) \cup T) =
          Cardinality(Held(f)) + Cardinality(T) - Cardinality(Held(f) \cap T)
    BY <1>2, <2>1, FS_Union
  <2>4. Cardinality(Held(f) \cap T) = 0 /\ Open(f) = Held(f) \cup T
    BY <1>3, <2>2
  <2> QED
    BY <2>1, <2>2, <2>3, <2>4
<1>5. Cardinality(T) \in Nat /\ Cardinality(Held(f)) \in Nat
  BY <1>2, FS_CardinalityType, FiniteCounts
<1> QED
  BY <1>2, <1>4, <1>5 DEF Inv, RefSound, S

(* Once no close is under way, kpipe.readers and kpipe.writers add up to   *)
(* the open descriptors.                                                   *)
LEMMA InvCountsSum == Inv => CountsSum
<1> SUFFICES ASSUME Inv, mem # "none" PROVE CountsSum
  BY DEF CountsSum
<1> DEFINE R == Past({"close", "kclose"}, "R")
           W == Past({"close", "kclose"}, "W")
           T == {<<p, cur[p]>> : p \in R \cup W}
           All == Open("R") \cup Open("W")
<1>1. /\ R \cup W \in SUBSET Procs /\ R \cap W = {}
      /\ \A p \in R \cup W :
           cur[p] \in Fds /\ files[p][cur[p]] \in Ends
           /\ pc[p] \in {"close", "kclose"}
  BY DEF Inv, ProcsSound, Past, Ends
<1>2. IsFiniteSet(T) /\ IsFiniteSet(R \cup W)
      /\ Cardinality(T) = Cardinality(R \cup W)
  BY <1>1, OnePerProcess
<1>3. All = Counted \cup T /\ Counted \cap T = {}
  <2>1. T \subseteq All /\ Counted \cap T = {}
    BY <1>1 DEF Open, Counted, Closing, Ends
  <2>2. Counted \subseteq All
    BY DEF Open, Counted, Ends
  <2>3. ASSUME NEW d \in All, d \notin Counted PROVE d \in T
    <3>1. PICK q \in Procs, j \in Fds : d = <<q, j>>
      BY Pairs DEF Open
    <3>2. /\ files[q][j] \in Ends /\ pc[q] \in {"close", "kclose"}
          /\ cur[q] = j
      BY <2>3, <3>1 DEF Open, Counted, Closing, Ends
    <3> QED
      BY <3>1, <3>2 DEF Past, Ends
  <2> QED
    BY <2>1, <2>2, <2>3
<1> HIDE DEF R, W, T, All
<1>4. IsFiniteSet(R) /\ IsFiniteSet(W)
  BY <1>2, FS_Subset
<1>5. /\ Cardinality(R) \in Nat /\ Cardinality(W) \in Nat
      /\ Cardinality(T) = Cardinality(R) + Cardinality(W)
  <2>1. Cardinality(R \cup W) =
          Cardinality(R) + Cardinality(W) - Cardinality(R \cap W)
    BY <1>4, FS_Union
  <2>2. Cardinality(R) \in Nat /\ Cardinality(W) \in Nat /\ Cardinality({}) = 0
    BY <1>4, FS_CardinalityType, FS_EmptySet
  <2>3. Cardinality(R \cap W) = 0
    BY <1>1, <2>2
  <2> QED
    BY <1>2, <2>1, <2>2, <2>3
<1>6. /\ Cardinality(All) = Cardinality(Counted) + Cardinality(T)
      /\ Cardinality(Counted) \in Nat /\ Cardinality(Counted) < UINT64
  <2>1. /\ IsFiniteSet(Counted) /\ Cardinality(Counted) \in Nat
        /\ Cardinality(Counted) < UINT64
    BY FiniteCounts
  <2>2. Cardinality(T) \in Nat /\ Cardinality({}) = 0
    BY <1>5, FS_EmptySet
  <2>3. Cardinality(Counted \cup T) =
          Cardinality(Counted) + Cardinality(T) - Cardinality(Counted \cap T)
    BY <1>2, <2>1, FS_Union
  <2>4. Cardinality(Counted \cap T) = 0 /\ All = Counted \cup T
    BY <1>3, <2>2
  <2> QED
    BY <2>1, <2>2, <2>3, <2>4
<1>7. PICK N \in Nat : N = Cardinality(Counted)
  BY <1>6
<1>8. Cardinality(All) - Cardinality(R) - Cardinality(W) = N
  BY <1>5, <1>6, <1>7
<1>9. N % UINT64 = N /\ (readers + writers) % UINT64 = N
  <2>1. UINT64 \in Nat \ {0} /\ N < UINT64
    BY <1>6, <1>7, PipeAssumption
  <2>2. N % UINT64 = N
    BY <2>1
  <2>3. PICK x \in Int : x = readers + writers
    BY DEF Inv, TypeOK
  <2>4. x = N \/ x = N + UINT64
    BY <1>7, <2>3 DEF Inv, SumSound
  <2>5. x % UINT64 = N
    <3>1. CASE x = N
      BY <2>2, <3>1
    <3>2. CASE x = N + UINT64
      <4>1. x = UINT64 * 1 + N /\ N \in 0..(UINT64 - 1)
        BY <2>1, <3>2
      <4> QED
        BY <2>1, <4>1, Residue
    <3> QED
      BY <2>4, <3>1, <3>2
  <2> QED
    BY <2>2, <2>3, <2>5
<1> QED
  BY <1>8, <1>9 DEF CountsSum, All, R, W

(* When the pipe is freed no descriptor is left but the one being closed. *)
LEMMA InvFreedUnused == Inv => FreedUnused
<1> SUFFICES ASSUME Inv, mem = "freed" PROVE FreedUnused
  BY DEF FreedUnused
<1>1. ASSUME NEW p \in Procs, NEW fd \in Fds, files[p][fd] \in Ends
      PROVE  pc[p] \in {"close", "kclose"} /\ cur[p] = fd
  <2>1. <<p, fd>> \notin Counted
    BY DEF Inv, MemSound
  <2> QED
    BY <1>1, <2>1 DEF Counted, Closing
<1>2. \A p \in Procs : pc[p] \notin {"read", "write"}
  BY <1>1 DEF Inv, ProcsSound
<1>3. notempty \in Seq(Procs) /\ full \in Seq(Procs)
  BY DEF Inv, TypeOK
<1>4. notempty = <<>>
  <2> SUFFICES ASSUME notempty # <<>> PROVE FALSE
    OBVIOUS
  <2>1. 1 \in 1..Len(notempty) /\ notempty[1] \in Procs
    BY <1>3
  <2> QED
    BY <1>2, <2>1 DEF Inv, QueuesSound
<1>5. full = <<>>
  <2> SUFFICES ASSUME full # <<>> PROVE FALSE
    OBVIOUS
  <2>1. 1 \in 1..Len(full) /\ full[1] \in Procs
    BY <1>3
  <2> QED
    BY <1>2, <2>1 DEF Inv, QueuesSound
<1> QED
  BY <1>1, <1>4, <1>5 DEF FreedUnused

(* With any number of processes and descriptors: f_ref counts the          *)
(* descriptors of a file exactly, the two counts of a pipe together count  *)
(* its descriptors, and the pipe is never freed while one is open or a     *)
(* process sleeps in its queues, however forks, dups, closes and exits     *)
(* interleave and pipe calls fail, up to the first use of a broken         *)
(* descriptor.                                                             *)
THEOREM CountsCorrect == Spec => []CountsSound
<1>1. Inv => CountsSound
  BY InvRefExact, InvCountsSum, InvFreedUnused DEF Inv, CountsSound
<1> QED
  BY <1>1, Invariance, PTL

-----------------------------------------------------------------------------
(* Wakeups *)

Wakes == AskedSound /\ WakeSound /\ NotBothAsleep

(* A step that leaves the ring and the queues, and those who wait, alone. *)
LEMMA WakesFrame ==
  ASSUME Wakes, UNCHANGED <<read_ofs, write_ofs, notempty, full, count, data>>,
         \A q \in Procs : /\ pc[q] \in {"read", "write"} => pc'[q] = pc[q]
                          /\ pc'[q] \in {"read", "write"} => pc'[q] = pc[q]
  PROVE  Wakes'
<1>1. Used' = Used /\ \A q \in Procs : Asleep(q)' <=> Asleep(q)
  BY DEF Used, Asleep
<1>2. AskedSound'
  BY DEF Wakes, AskedSound
<1>3. WakeSound'
  BY <1>1 DEF Wakes, WakeSound
<1>4. NotBothAsleep'
  BY <1>1 DEF Wakes, NotBothAsleep
<1> QED
  BY <1>2, <1>3, <1>4 DEF Wakes

(* The step of a reader.  Room that it makes wakes the first writer; when  *)
(* it finds the pipe empty, writers that wait were left a wakeup before.   *)
LEMMA TryReadWakes ==
  ASSUME Inv, Wakes, 0 \notin Counts,
         NEW p \in Procs, NEW n \in Counts, TryRead(p, n),
         pc[p] \in {"run", "read"}, ~In(notempty, p), ~In(full, p)
  PROVE  Wakes'
<1>1. /\ \A q \in Procs : q # p => /\ pc'[q] = pc[q]
                                   /\ count'[q] = count[q]
      /\ data' = data /\ pc'[p] \in {"run", "read"}
      /\ pc'[p] = "read" => count'[p] \in Counts
  <2>1. /\ \/ pc' = [pc EXCEPT ![p] = "run"]
           \/ /\ pc' = [pc EXCEPT ![p] = "read"]
              /\ count' = [count EXCEPT ![p] = n]
        /\ \/ count' = [count EXCEPT ![p] = 0]
           \/ count' = [count EXCEPT ![p] = n]
        /\ data' = data
    BY DEF TryRead
  <2>2. pc \in [Procs -> PCs] /\ count \in [Procs -> Nat]
    BY DEF Inv, TypeOK
  <2> QED
    BY <2>1, <2>2
<1>2. /\ notempty \in Seq(Procs) /\ full \in Seq(Procs)
      /\ \A i, j \in 1..Len(full) : full[i] = full[j] => i = j
      /\ \A q \in Procs : In(full, q) => pc[q] = "write"
      /\ \A q \in Procs : In(notempty, q) => pc[q] = "read"
  BY QueuesIn DEF Inv, TypeOK, QueuesSound
<1>3. Used \in 0..PIPE_SZ /\ PIPE_SZ \in Nat /\ PIPE_SZ > 0
  BY UsedIs, SizeType DEF Inv
<1>4. \A q \in Procs : ~Asleep(q) => ~In(notempty, q) /\ ~In(full, q)
  BY <1>2, InBoth DEF Asleep
<1>5. /\ Used' < PIPE_SZ /\ notempty' \in Seq(Procs) /\ full' \in Seq(Procs)
      /\ full' # <<>> => \E q \in Procs :
           q # p /\ pc[q] = "write" /\ ~In(notempty', q) /\ ~In(full', q)
  <2>1. CASE /\ Used = 0 /\ UNCHANGED <<bufvars, full>>
             /\ notempty' = notempty \/ notempty' = Append(notempty, p)
    <3>1. Used' = 0
      BY <2>1 DEF Used, bufvars
    <3>2. /\ notempty' \in Seq(Procs)
          /\ \A q \in Procs : q # p /\ In(notempty', q) => In(notempty, q)
      <4>1. CASE notempty' = notempty
        BY <1>2, <4>1
      <4>2. CASE notempty' = Append(notempty, p)
        BY <1>2, <4>2, AppendIs DEF Inv, QueuesSound
      <4> QED
        BY <2>1, <4>1, <4>2
    <3>3. full # <<>> => \E q \in Procs : pc[q] = "write" /\ ~Asleep(q)
      BY <2>1 DEF Wakes, WakeSound
    <3> QED
      BY <1>2, <1>3, <1>4, <2>1, <3>1, <3>2, <3>3
  <2>2. CASE /\ Used # 0
             /\ LET k == Least(n, Used) IN
                /\ read_ofs' = (read_ofs + k) % SIZE_T
                /\ full' = IF k > 0 THEN Pop(full) ELSE full
             /\ UNCHANGED <<write_ofs, notempty>>
    <3>1. PICK k \in 0..Used : k = Least(n, Used) /\ k > 0
      <4>1. n \in Nat /\ n > 0 /\ Used \in Nat /\ Used > 0
        BY <1>3, <2>2, PipeAssumption
      <4> QED
        BY <4>1, LeastIs
    <3>2. Used' = Used - k
      BY <2>2, <3>1, ReadRing DEF Inv
    <3>3. full' = Pop(full)
      BY <2>2, <3>1
    <3>4. /\ full' \in Seq(Procs)
          /\ full # <<>> => Head(full) \in Procs /\ In(full, Head(full))
                            /\ ~In(full', Head(full))
      BY <1>2, <3>3, PopIs
    <3>5. full' # <<>> => full # <<>>
      BY <3>3 DEF Pop
    <3>6. full # <<>> => /\ pc[Head(full)] = "write"
                         /\ Head(full) # p /\ ~In(notempty, Head(full))
      BY <1>2, <3>4
    <3>7. Used' < PIPE_SZ
      BY <1>3, <3>1, <3>2
    <3> QED
      BY <1>2, <2>2, <3>4, <3>5, <3>6, <3>7
  <2> QED
    BY <2>1, <2>2 DEF TryRead, bufvars
<1>6. full' # <<>> => \E q \in Procs : pc'[q] = "write" /\ ~Asleep(q)'
  BY <1>1, <1>5, InBoth DEF Asleep
<1>7. AskedSound'
  BY <1>1 DEF Wakes, AskedSound
<1>8. WakeSound'
  BY <1>3, <1>5, <1>6 DEF WakeSound
<1>9. NotBothAsleep'
  BY <1>6 DEF NotBothAsleep
<1> QED
  BY <1>7, <1>8, <1>9 DEF Wakes

(* The step of a writer, likewise. *)
LEMMA TryWriteWakes ==
  ASSUME Inv, Wakes, 0 \notin Counts,
         NEW p \in Procs, NEW block \in Seq(Bytes), Len(block) \in Counts,
         TryWrite(p, block),
         pc[p] \in {"run", "write"}, ~In(notempty, p), ~In(full, p)
  PROVE  Wakes'
<1>1. /\ \A q \in Procs : q # p => pc'[q] = pc[q] /\ data'[q] = data[q]
      /\ count' = count /\ pc'[p] \in {"run", "write"}
      /\ pc'[p] = "write" => data'[p] = block
  <2>1. /\ \/ pc' = [pc EXCEPT ![p] = "run"]
           \/ /\ pc' = [pc EXCEPT ![p] = "write"]
              /\ data' = [data EXCEPT ![p] = block]
        /\ \/ data' = [data EXCEPT ![p] = <<>>]
           \/ data' = [data EXCEPT ![p] = block]
        /\ count' = count
    BY DEF TryWrite
  <2>2. pc \in [Procs -> PCs] /\ data \in [Procs -> Seq(Bytes)]
    BY DEF Inv, TypeOK
  <2> QED
    BY <2>1, <2>2
<1>2. /\ notempty \in Seq(Procs) /\ full \in Seq(Procs)
      /\ \A i, j \in 1..Len(notempty) : notempty[i] = notempty[j] => i = j
      /\ \A q \in Procs : In(full, q) => pc[q] = "write"
      /\ \A q \in Procs : In(notempty, q) => pc[q] = "read"
  BY QueuesIn DEF Inv, TypeOK, QueuesSound
<1>3. Used \in 0..PIPE_SZ /\ PIPE_SZ \in Nat /\ PIPE_SZ > 0
  BY UsedIs, SizeType DEF Inv
<1>4. \A q \in Procs : ~Asleep(q) => ~In(notempty, q) /\ ~In(full, q)
  BY <1>2, InBoth DEF Asleep
<1>5. /\ Used' > 0 /\ notempty' \in Seq(Procs) /\ full' \in Seq(Procs)
      /\ notempty' # <<>> => \E q \in Procs :
           q # p /\ pc[q] = "read" /\ ~In(notempty', q) /\ ~In(full', q)
  <2>1. CASE /\ Used = PIPE_SZ /\ UNCHANGED <<bufvars, notempty>>
             /\ full' = Append(full, p)
    <3>1. Used' = PIPE_SZ
      BY <2>1 DEF Used, bufvars
    <3>2. /\ full' \in Seq(Procs)
          /\ \A q \in Procs : q # p /\ In(full', q) => In(full, q)
      BY <1>2, <2>1, AppendIs DEF Inv, QueuesSound
    <3>3. notempty # <<>> => \E q \in Procs : pc[q] = "read" /\ ~Asleep(q)
      BY <2>1 DEF Wakes, WakeSound
    <3> QED
      BY <1>2, <1>3, <1>4, <2>1, <3>1, <3>2, <3>3
  <2>2. CASE /\ Used # PIPE_SZ
             /\ LET k == Least(Len(block), PIPE_SZ - Used) IN
                /\ write_ofs' = (write_ofs + k) % SIZE_T
                /\ notempty' = IF k > 0 THEN Pop(notempty) ELSE notempty
             /\ UNCHANGED <<read_ofs, full>>
    <3>1. PICK k \in 0..(PIPE_SZ - Used) :
            k = Least(Len(block), PIPE_SZ - Used) /\ k > 0
      <4>1. /\ Len(block) \in Nat /\ Len(block) > 0
            /\ PIPE_SZ - Used \in Nat /\ PIPE_SZ - Used > 0
        BY <1>3, <2>2, PipeAssumption
      <4> QED
        BY <4>1, LeastIs
    <3>2. Used' = Used + k
      BY <2>2, <3>1, WriteRing DEF Inv
    <3>3. notempty' = Pop(notempty)
      BY <2>2, <3>1
    <3>4. /\ notempty' \in Seq(Procs)
          /\ notempty # <<>> =>
               /\ Head(notempty) \in Procs /\ In(notempty, Head(notempty))
               /\ ~In(notempty', Head(notempty))
      BY <1>2, <3>3, PopIs
    <3>5. notempty' # <<>> => notempty # <<>>
      BY <3>3 DEF Pop
    <3>6. notempty # <<>> =>
            /\ pc[Head(notempty)] = "read"
            /\ Head(notempty) # p /\ ~In(full, Head(notempty))
      BY <1>2, <3>4
    <3>7. Used' > 0
      BY <1>3, <3>1, <3>2
    <3> QED
      BY <1>2, <2>2, <3>4, <3>5, <3>6, <3>7
  <2> QED
    BY <2>1, <2>2 DEF TryWrite, bufvars
<1>6. notempty' # <<>> => \E q \in Procs : pc'[q] = "read" /\ ~Asleep(q)'
  BY <1>1, <1>5, InBoth DEF Asleep
<1>7. AskedSound'
  BY <1>1 DEF Wakes, AskedSound
<1>8. WakeSound'
  BY <1>3, <1>5, <1>6 DEF WakeSound
<1>9. NotBothAsleep'
  BY <1>6 DEF NotBothAsleep
<1> QED
  BY <1>7, <1>8, <1>9 DEF Wakes

(* Every step leaves a wakeup to those who could otherwise sleep for ever. *)
LEMMA NextWakes ==
  ASSUME 0 \notin Counts
  PROVE  Inv /\ Wakes /\ [Next]_vars => Wakes'
<1> SUFFICES ASSUME Inv, Wakes, [Next]_vars PROVE Wakes'
  OBVIOUS
<1>1. ASSUME NEW p \in Procs,
             (\E n \in Counts : sys_read(p, n)) \/ ReadWake(p)
      PROVE  Wakes'
  <2>1. PICK n \in Nat :
          /\ TryRead(p, n) /\ pc[p] \in {"run", "read"}
          /\ ~In(notempty, p) /\ ~In(full, p)
          /\ (pc[p] = "run" => n \in Counts)
          /\ (pc[p] = "read" => n = count[p])
    BY <1>1, ReadStep
  <2>2. n \in Counts
    BY <2>1 DEF Wakes, AskedSound
  <2> QED
    BY <2>1, <2>2, TryReadWakes
<1>2. ASSUME NEW p \in Procs,
             (\E block \in Blocks : sys_write(p, block)) \/ WriteWake(p)
      PROVE  Wakes'
  <2>1. PICK block \in Seq(Bytes) :
          /\ TryWrite(p, block) /\ pc[p] \in {"run", "write"}
          /\ ~In(notempty, p) /\ ~In(full, p)
          /\ pc[p] = "run" => Len(block) \in Counts
          /\ pc[p] = "write" => block = data[p]
    BY <1>2, WriteStep
  <2>2. Len(block) \in Counts
    BY <2>1 DEF Wakes, AskedSound
  <2> QED
    BY <2>1, <2>2, TryWriteWakes
<1>3. ASSUME NEW p \in Procs,
             \/ sys_pipe(p) \/ sys_pipeFail(p) \/ proc_exit(p) \/ UseBroken(p)
             \/ \E fd \in Fds : sys_dup(p, fd) \/ sys_close(p, fd)
             \/ \E q \in Procs : proc_fork(p, q)
             \/ ForkFile(p) \/ ForkDone(p) \/ ExitFile(p) \/ ExitDone(p)
             \/ fs_close_file(p) \/ kpipe_close(p)
      PROVE  Wakes'
  <2>1. UNCHANGED <<read_ofs, write_ofs, notempty, full, count, data>>
    BY <1>3 DEF sys_pipe, sys_pipeFail, UseBroken, proc_exit, sys_dup,
       sys_close, proc_fork, ForkFile,
       ForkDone, ExitFile, ExitDone, fs_close_file, kpipe_close, bufvars,
       waitvars
  <2>2. pc \in [Procs -> PCs] /\ child \in [Procs -> Procs \cup {NULL}]
    BY DEF Inv, TypeOK
  <2>3. pc[p] = "fork" => pc[child[p]] = "dead"
    BY DEF Inv, ForksSound
  <2>4. CASE ForkDone(p)
    BY <2>1, <2>2, <2>3, <2>4, WakesFrame DEF ForkDone
  <2>5. CASE pc' = pc
    BY <2>1, <2>5, WakesFrame
  <2>6. CASE /\ pc[p] \notin {"read", "write"}
             /\ \E s \in PCs \ {"read", "write"} : pc' = [pc EXCEPT ![p] = s]
    BY <2>1, <2>2, <2>6, WakesFrame
  <2>7. ForkDone(p) \/ pc' = pc
        \/ /\ pc[p] \notin {"read", "write"}
           /\ \E s \in PCs \ {"read", "write"} : pc' = [pc EXCEPT ![p] = s]
    BY <1>3 DEF sys_pipe, sys_pipeFail, UseBroken, proc_exit, sys_dup,
       sys_close, proc_fork, ForkFile,
       ExitFile, ExitDone, fs_close_file, kpipe_close, Closed, PCs
  <2> QED
    BY <2>4, <2>5, <2>6, <2>7
<1>4. CASE UNCHANGED vars
  BY <1>4, WakesFrame DEF vars
<1> QED
  BY <1>1, <1>2, <1>3, <1>4 DEF Next, Call, Continue

(* Readers and writers never all sleep with nobody woken, for any number   *)
(* of them and any size of the ring, when every call asks for at least one *)
(* byte.                                                                   *)
THEOREM NobodyStuck ==
  ASSUME 0 \notin Counts
  PROVE  Spec => []NotBothAsleep
<1>1. Init => Wakes
  BY DEF Init, Wakes, AskedSound, WakeSound, NotBothAsleep
<1>2. Wakes => NotBothAsleep
  BY DEF Wakes
<1> QED
  BY <1>1, <1>2, NextWakes, InitInv, NextInv, PTL DEF Spec

-----------------------------------------------------------------------------
(* The ring is a channel *)

(* The word is a multiple of the ring, so a wrapped offset has its slot. *)
LEMMA WordMultiple ==
  \E m \in Int : SIZE_T = PIPE_SZ * m
<1>1. PICK m \in Int, r \in 0..(PIPE_SZ - 1) :
        SIZE_T = PIPE_SZ * m + r /\ SIZE_T % PIPE_SZ = r
  BY PipeAssumption, DivMod
<1>2. r = 0 /\ PIPE_SZ \in Int
  BY <1>1, PipeAssumption
<1>3. SIZE_T = PIPE_SZ * m
  BY <1>1, <1>2
<1> QED
  BY <1>3

(* The slot of an offset does not change when the offset wraps. *)
LEMMA SlotWraps ==
  ASSUME NEW x \in Int
  PROVE  (x - SIZE_T) % PIPE_SZ = x % PIPE_SZ
<1>1. PICK m \in Int : SIZE_T = PIPE_SZ * m
  BY WordMultiple
<1>2. PIPE_SZ \in Nat \ {0}
  BY PipeAssumption
<1>3. PICK l \in Int : l = -m
  BY <1>1
<1>4. (x + PIPE_SZ * l) % PIPE_SZ = x % PIPE_SZ
  BY <1>2, <1>3, Congruent
<1>5. x - SIZE_T = x + PIPE_SZ * l
  BY <1>1, <1>2, <1>3
<1> QED
  BY <1>4, <1>5

(* Where the bytes of the pipe lie. *)
InSlots ==
  /\ Contents \in Seq(Bytes) /\ Len(Contents) = Used
  /\ \A i \in 1..Used : Contents[i] = buffer[(read_ofs + i - 1) % PIPE_SZ]

(* Where the bytes of the pipe lie. *)
LEMMA ContentsIs == TypeOK => InSlots
<1> SUFFICES ASSUME TypeOK PROVE InSlots
  OBVIOUS
<1>1. /\ read_ofs \in 0..(SIZE_T - 1) /\ Used \in 0..PIPE_SZ
      /\ PIPE_SZ < SIZE_T /\ PIPE_SZ \in Nat \ {0} /\ SIZE_T \in Nat
  BY UsedIs, SizeType
<1>2. ASSUME NEW i \in 1..Used
      PROVE  /\ ((read_ofs + i - 1) % SIZE_T) % PIPE_SZ
                  = (read_ofs + i - 1) % PIPE_SZ
             /\ (read_ofs + i - 1) % PIPE_SZ \in 0..(PIPE_SZ - 1)
  <2>1. PICK x \in Int : x = read_ofs + i - 1
    BY <1>1
  <2>2. 0 <= x /\ x < 2 * SIZE_T /\ -SIZE_T <= x
    BY <1>1, <2>1
  <2>3. x % SIZE_T = IF x < SIZE_T THEN x ELSE x - SIZE_T
    BY <2>2, WrapSize
  <2>4. (x % SIZE_T) % PIPE_SZ = x % PIPE_SZ
    BY <2>3, SlotWraps
  <2>5. x % PIPE_SZ \in 0..(PIPE_SZ - 1)
    BY <1>1
  <2> QED
    BY <2>1, <2>4, <2>5
<1>3. \A i \in 1..Used :
        /\ Contents[i] = buffer[(read_ofs + i - 1) % PIPE_SZ]
        /\ Contents[i] \in Bytes
  BY <1>2 DEF Contents, TypeOK
<1>4. Contents \in [1..Used -> Bytes]
  BY <1>3 DEF Contents
<1> QED
  BY <1>1, <1>3, <1>4 DEF InSlots

(* How far a slot is from the write end. *)
LEMMA SlotDistance ==
  ASSUME TypeOK, NEW i \in 1..PIPE_SZ
  PROVE  /\ (((read_ofs + i - 1) % PIPE_SZ) - write_ofs) % PIPE_SZ
              = IF i <= Used THEN i - 1 - Used + PIPE_SZ ELSE i - 1 - Used
         /\ (read_ofs + i - 1) % PIPE_SZ \in 0..(PIPE_SZ - 1)
<1>1. /\ read_ofs \in Nat /\ write_ofs \in Nat /\ Used \in 0..PIPE_SZ
      /\ PIPE_SZ \in Nat \ {0} /\ i \in Int /\ SIZE_T \in Nat
  BY UsedIs, SizeType
<1>2. PICK x \in Int : x = read_ofs + i - 1
  BY <1>1
<1>3. PICK q \in Int, s \in 0..(PIPE_SZ - 1) :
        x = PIPE_SZ * q + s /\ x % PIPE_SZ = s
  BY <1>1, DivMod
<1>4. PICK b \in Int : write_ofs = read_ofs + Used + PIPE_SZ * b
  <2>1. PICK m \in Int : SIZE_T = PIPE_SZ * m
    BY WordMultiple
  <2>2. CASE write_ofs >= read_ofs
    <3>1. write_ofs = read_ofs + Used + PIPE_SZ * 0
      BY <1>1, <2>2, UsedIs
    <3> QED
      BY <3>1
  <2>3. CASE write_ofs < read_ofs
    <3>1. PICK l \in Int : l = -m
      BY <2>1
    <3>2. PIPE_SZ * l = -SIZE_T
      BY <1>1, <2>1, <3>1
    <3>3. Used = write_ofs - read_ofs + SIZE_T
      BY <1>1, <2>3, UsedIs
    <3>4. write_ofs = read_ofs + Used + PIPE_SZ * l
      BY <1>1, <3>2, <3>3
    <3> QED
      BY <3>4
  <2> QED
    BY <1>1, <2>2, <2>3
<1>5. PICK y \in Int : y = i - 1 - Used
  BY <1>1
<1>6. PICK c \in Int : c = 0 - q - b
  <2>1. q \in Int /\ b \in Int
    BY <1>3, <1>4
  <2>2. PICK d \in Int : d = 0 - q
    BY <2>1
  <2>3. d - b \in Int /\ d - b = 0 - q - b
    BY <2>1, <2>2
  <2> QED
    BY <2>3
<1>7. s - write_ofs = y + PIPE_SZ * c
  <2>1. PIPE_SZ * c = 0 - PIPE_SZ * q - PIPE_SZ * b
    BY <1>1, <1>6
  <2> QED
    BY <1>1, <1>2, <1>3, <1>4, <1>5, <2>1
<1>8. (s - write_ofs) % PIPE_SZ = y % PIPE_SZ
  BY <1>1, <1>7, Congruent
<1>9. y % PIPE_SZ = IF y < 0 THEN y + PIPE_SZ
                    ELSE IF y < PIPE_SZ THEN y ELSE y - PIPE_SZ
  <2>1. -PIPE_SZ <= y /\ y < 2 * PIPE_SZ
    BY <1>1, <1>5
  <2> QED
    BY <1>1, <2>1, Wrap
<1>10. y % PIPE_SZ = IF i <= Used THEN i - 1 - Used + PIPE_SZ ELSE i - 1 - Used
  BY <1>1, <1>5, <1>9
<1> QED
  BY <1>2, <1>3, <1>8, <1>10

(* A read takes the oldest bytes out. *)
LEMMA ReadGets ==
  ASSUME Inv, TypeOK', NEW p \in Procs, NEW n \in Nat, TryRead(p, n)
  PROVE  [Channel!Next]_Contents
<1>1. CASE UNCHANGED bufvars
  BY <1>1 DEF bufvars, Contents, Used
<1>2. CASE /\ Used # 0
           /\ read_ofs' = (read_ofs + Least(n, Used)) % SIZE_T
           /\ UNCHANGED <<buffer, write_ofs>>
  <2>1. /\ Used \in Nat /\ PIPE_SZ \in Nat \ {0} /\ SIZE_T \in Nat
        /\ read_ofs \in Nat
    BY UsedIs, SizeType DEF Inv
  <2>2. PICK k \in 0..Used : k = Least(n, Used)
    BY <2>1, LeastIs
  <2>3. /\ Used' = Used - k
        /\ read_ofs' = IF read_ofs + k < SIZE_T THEN read_ofs + k
                       ELSE read_ofs + k - SIZE_T
    BY <1>2, <2>2, ReadRing DEF Inv
  <2>4. /\ Contents \in Seq(Bytes) /\ Len(Contents) = Used
        /\ \A i \in 1..Used :
             Contents[i] = buffer[(read_ofs + i - 1) % PIPE_SZ]
    BY ContentsIs DEF Inv, InSlots
  <2>5. /\ Contents' \in Seq(Bytes) /\ Len(Contents') = Used'
        /\ \A i \in 1..Used' :
             Contents'[i] = buffer'[(read_ofs' + i - 1) % PIPE_SZ]
    <3>1. InSlots'
      BY ContentsIs, PTL
    <3> QED
      BY <3>1 DEF InSlots
  <2>6. ASSUME NEW i \in 1..(Used - k)
        PROVE  Contents'[i] = Contents[k + i]
    <3>1. PICK x \in Int : x = read_ofs + k + i - 1
      BY <2>1, <2>2
    <3>2. (x - SIZE_T) % PIPE_SZ = x % PIPE_SZ
      BY SlotWraps
    <3>3. (read_ofs' + i - 1) % PIPE_SZ = x % PIPE_SZ
      <4>1. read_ofs' + i - 1 = x \/ read_ofs' + i - 1 = x - SIZE_T
        BY <2>1, <2>2, <2>3, <3>1
      <4> QED
        BY <3>2, <4>1
    <3>4. k + i \in 1..Used /\ read_ofs + (k + i) - 1 = x
      BY <2>1, <2>2, <3>1
    <3> QED
      BY <1>2, <2>3, <2>4, <2>5, <3>3, <3>4
  <2>7. CASE k = 0
    <3>1. Contents' = Contents
      BY <2>1, <2>3, <2>4, <2>5, <2>6, <2>7, SeqEqual
    <3> QED
      BY <3>1
  <2>8. CASE k > 0
    <3> DEFINE rest == SubSeq(Contents, k + 1, Len(Contents))
    <3>1. /\ rest \in Seq(Bytes) /\ Len(rest) = Used - k
          /\ \A i \in 1..(Used - k) : rest[i] = Contents[k + i]
      <4>1. \A i \in (k + 1)..Len(Contents) : Contents[i] \in Bytes
        BY <2>1, <2>2, <2>4
      <4>2. rest \in Seq(Bytes)
        BY <2>1, <2>2, <2>4, <4>1, SubSeqProperties
      <4>3. /\ Len(rest) = Used - k
            /\ \A i \in 1..(Used - k) : rest[i] = Contents[k + i]
        BY <2>1, <2>2, <2>4, SubSeqProperties
      <4> QED
        BY <4>2, <4>3
    <3> HIDE DEF rest
    <3>2. Contents' = rest
      BY <2>3, <2>5, <2>6, <3>1, SeqEqual
    <3>3. k \in 1..Len(Contents)
      BY <2>1, <2>2, <2>4, <2>8
    <3>4. Channel!Get
      BY <3>2, <3>3 DEF Channel!Get, rest
    <3> QED
      BY <3>4 DEF Channel!Next
  <2> QED
    BY <2>1, <2>2, <2>7, <2>8
<1> QED
  BY <1>1, <1>2 DEF TryRead, bufvars

(* A write puts its bytes in at the other end, in one piece. *)
LEMMA WritePuts ==
  ASSUME Inv, TypeOK', NEW p \in Procs, NEW block \in Seq(Bytes),
         TryWrite(p, block)
  PROVE  [Channel!Next]_Contents
<1>1. CASE UNCHANGED bufvars
  BY <1>1 DEF bufvars, Contents, Used
<1>2. CASE /\ Used # PIPE_SZ
           /\ LET k == Least(Len(block), PIPE_SZ - Used) IN
              /\ buffer' = [i \in 0..(PIPE_SZ - 1) |->
                              LET j == (i - write_ofs) % PIPE_SZ
                              IN  IF j < k THEN block[j + 1] ELSE buffer[i]]
              /\ write_ofs' = (write_ofs + k) % SIZE_T
           /\ UNCHANGED read_ofs
  <2>1. /\ Used \in 0..PIPE_SZ /\ PIPE_SZ \in Nat \ {0} /\ SIZE_T \in Nat
        /\ read_ofs \in Nat /\ Len(block) \in Nat /\ PIPE_SZ - Used \in Nat
    BY UsedIs, SizeType DEF Inv
  <2>2. PICK k \in 0..(PIPE_SZ - Used) :
          k = Least(Len(block), PIPE_SZ - Used) /\ k <= Len(block)
    BY <2>1, LeastIs
  <2>3. Used' = Used + k
    BY <1>2, <2>2, WriteRing DEF Inv
  <2>4. /\ Contents \in Seq(Bytes) /\ Len(Contents) = Used
        /\ \A i \in 1..Used :
             Contents[i] = buffer[(read_ofs + i - 1) % PIPE_SZ]
    BY ContentsIs DEF Inv, InSlots
  <2>5. /\ Contents' \in Seq(Bytes) /\ Len(Contents') = Used'
        /\ \A i \in 1..Used' :
             Contents'[i] = buffer'[(read_ofs' + i - 1) % PIPE_SZ]
    <3>1. InSlots'
      BY ContentsIs, PTL
    <3> QED
      BY <3>1 DEF InSlots
  <2>6. ASSUME NEW i \in 1..(Used + k)
        PROVE  Contents'[i] = IF i <= Used THEN Contents[i]
                              ELSE block[i - Used]
    <3>1. i \in 1..PIPE_SZ
      BY <2>1, <2>2
    <3>2. PICK s \in 0..(PIPE_SZ - 1) : s = (read_ofs + i - 1) % PIPE_SZ
      BY <3>1, SlotDistance DEF Inv
    <3>3. (s - write_ofs) % PIPE_SZ = IF i <= Used THEN i - 1 - Used + PIPE_SZ
                                      ELSE i - 1 - Used
      BY <3>1, <3>2, SlotDistance DEF Inv
    <3>4. Contents'[i] = buffer'[s]
      BY <1>2, <2>3, <2>5, <3>2
    <3>5. buffer'[s] = IF (s - write_ofs) % PIPE_SZ < k
                       THEN block[((s - write_ofs) % PIPE_SZ) + 1] ELSE buffer[s]
      BY <1>2, <2>2
    <3>6. CASE i <= Used
      <4>1. ~((s - write_ofs) % PIPE_SZ < k)
        BY <2>1, <2>2, <3>3, <3>6
      <4>2. i \in 1..Used
        BY <2>1, <3>1, <3>6
      <4> QED
        BY <2>4, <3>2, <3>4, <3>5, <3>6, <4>1, <4>2
    <3>7. CASE i > Used
      <4>1. /\ (s - write_ofs) % PIPE_SZ < k
            /\ ((s - write_ofs) % PIPE_SZ) + 1 = i - Used
        BY <2>1, <2>2, <3>1, <3>3, <3>7
      <4>2. ~(i <= Used)
        BY <2>1, <3>1, <3>7
      <4> QED
        BY <3>4, <3>5, <4>1, <4>2
    <3> QED
      BY <2>1, <3>1, <3>6, <3>7
  <2>7. CASE k = 0
    <3>1. Contents' = Contents
      BY <2>1, <2>3, <2>4, <2>5, <2>6, <2>7, SeqEqual
    <3> QED
      BY <3>1
  <2>8. CASE k > 0
    <3> DEFINE part == [i \in 1..k |-> block[i]]
               longer == Contents \o part
    <3>1. /\ part \in Seq(Bytes) /\ Len(part) = k /\ part \in [1..k -> Bytes]
          /\ \A i \in 1..k : part[i] = block[i]
      <4>1. k \in Nat /\ \A i \in 1..k : i \in 1..Len(block)
        BY <2>1, <2>2
      <4>2. \A i \in 1..k : block[i] \in Bytes
        BY <4>1
      <4> QED
        BY <4>1, <4>2
    <3> HIDE DEF part
    <3>2. /\ longer \in Seq(Bytes) /\ Len(longer) = Used + k
          /\ \A i \in 1..(Used + k) :
               longer[i] = IF i <= Used THEN Contents[i] ELSE part[i - Used]
      <4>1. Contents \in Seq(Bytes) /\ Len(Contents) = Used
        BY <2>4
      <4>2. /\ longer \in Seq(Bytes)
            /\ Len(longer) = Len(Contents) + Len(part)
            /\ \A i \in 1..(Len(Contents) + Len(part)) :
                 longer[i] = IF i <= Len(Contents) THEN Contents[i]
                             ELSE part[i - Len(Contents)]
        BY <3>1, <4>1, ConcatProperties
      <4> QED
        BY <3>1, <4>1, <4>2
    <3> HIDE DEF longer
    <3>3. \A i \in 1..(Used + k) : i > Used => i - Used \in 1..k
      BY <2>1, <2>2
    <3>4. \A i \in 1..(Used + k) : Contents'[i] = longer[i]
      BY <2>1, <2>2, <2>6, <3>1, <3>2, <3>3
    <3>5. Contents' = longer
      BY <2>3, <2>5, <3>2, <3>4, SeqEqual
    <3>6. k \in 1..PIPE_SZ /\ Len(Contents') <= PIPE_SZ
      BY <2>1, <2>2, <2>3, <2>5, <2>8
    <3>7. Channel!Put
      BY <3>1, <3>5, <3>6 DEF Channel!Put, longer
    <3> QED
      BY <3>7 DEF Channel!Next
  <2> QED
    BY <2>1, <2>2, <2>7, <2>8
<1> QED
  BY <1>1, <1>2 DEF TryWrite, bufvars

(* Every step is a step of the channel or leaves its contents alone. *)
LEMMA NextChannel == Inv /\ Inv' /\ [Next]_vars => [Channel!Next]_Contents
<1> SUFFICES ASSUME Inv, Inv', [Next]_vars PROVE [Channel!Next]_Contents
  OBVIOUS
<1>1. ASSUME NEW p \in Procs,
             (\E n \in Counts : sys_read(p, n)) \/ ReadWake(p)
      PROVE  [Channel!Next]_Contents
  <2>1. PICK n \in Nat : TryRead(p, n)
    BY <1>1, ReadStep
  <2> QED
    BY <2>1, ReadGets DEF Inv
<1>2. ASSUME NEW p \in Procs,
             (\E block \in Blocks : sys_write(p, block)) \/ WriteWake(p)
      PROVE  [Channel!Next]_Contents
  <2>1. PICK block \in Seq(Bytes) : TryWrite(p, block)
    BY <1>2, WriteStep
  <2> QED
    BY <2>1, WritePuts DEF Inv
<1>3. ASSUME NEW p \in Procs,
             \/ sys_pipe(p) \/ sys_pipeFail(p) \/ proc_exit(p) \/ UseBroken(p)
             \/ \E fd \in Fds : sys_dup(p, fd) \/ sys_close(p, fd)
             \/ \E q \in Procs : proc_fork(p, q)
             \/ ForkFile(p) \/ ForkDone(p) \/ ExitFile(p) \/ ExitDone(p)
             \/ fs_close_file(p) \/ kpipe_close(p)
      PROVE  UNCHANGED Contents
  <2>1. UNCHANGED bufvars
    BY <1>3 DEF sys_pipe, sys_pipeFail, UseBroken, proc_exit, sys_dup,
       sys_close, proc_fork, ForkFile,
       ForkDone, ExitFile, ExitDone, fs_close_file, kpipe_close
  <2> QED
    BY <2>1 DEF bufvars, Contents, Used
<1>4. CASE UNCHANGED vars
  BY <1>4 DEF vars, Contents, Used
<1> QED
  BY <1>1, <1>2, <1>3, <1>4 DEF Next, Call, Continue

(* The pipe implements ByteChannel, a bounded fifo of bytes, for any size  *)
(* of the ring that divides the word, and any number of processes: no byte *)
(* is lost, repeated or reordered, also where the offsets wrap.            *)
THEOREM Refinement == Spec => Implements
<1>1. Init => Channel!Init
  <2> SUFFICES ASSUME Init PROVE Contents = <<>>
    BY DEF Channel!Init
  <2>1. Used = 0
    <3>1. 0 % SIZE_T = 0
      BY WrapSize, PipeAssumption
    <3> QED
      BY <3>1 DEF Init, Used
  <2> QED
    BY <2>1 DEF Contents
<1> QED
  BY <1>1, NextChannel, Invariance, PTL DEF Spec, Implements, Channel!Spec

=============================================================================
