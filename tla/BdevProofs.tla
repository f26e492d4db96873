----------------------------- MODULE BdevProofs -----------------------------
(***************************************************************************)
(* Proofs about Bdev for any number of threads, blocks and pages.          *)
(***************************************************************************)
EXTENDS Bdev, FiniteSetTheorems, SequenceTheorems, TLAPS

-----------------------------------------------------------------------------
(* The inductive invariant *)

Writing(t) == InRequest(t) /\ bio[t].op = "WRITE"

(* A request reads the whole page that its thread fills under pgcache_lock *)
(* or writes the block whose lock its thread has.                          *)
BioSound ==
  \A t \in Threads : InRequest(t) =>
    \/ /\ bio[t] = [op |-> "READ", blks |-> PageBlks(cur[t])]
       /\ pgcache_lock = t /\ PageOf(cur[t]) \notin cached
    \/ bio[t] = [op |-> "WRITE", blks |-> {cur[t]}] /\ lock[cur[t]] = t

(* The lock of a header is its holder's while it uses the block. *)
LockSound ==
  /\ \A t \in Threads : pc[t] = "held" => lock[cur[t]] = t
  /\ \A b \in Blks : lock[b] # NULL =>
       cur[lock[b]] = b /\ (pc[lock[b]] = "held" \/ Writing(lock[b]))

(* Whoever is past the page cache works on a cached page. *)
CachedSound ==
  \A t \in Threads :
    pc[t] \in {"headers", "got", "held", "release"} \/ Writing(t) =>
      PageOf(cur[t]) \in cached

(* A page with a dirty block is marked. *)
DirtySound == \A b \in headers \cap dirty : PageOf(b) \in page_dirty

(* The handler's request is off the queue. *)
PoppedSound == \A i \in 1..Len(request_queue) : request_queue[i] # tbio

(* An interrupt means that the disk has no command; what a thread asked to *)
(* write is then on the disk.                                              *)
IrqSound ==
  irq => /\ cmd = NULL
         /\ LET t == Head(request_queue) IN
            bio[t].op = "WRITE" => \A b \in bio[t].blks : data[b] = disk[b]

(* A request that the interrupt handler has taken off has its blocks on    *)
(* the disk and in memory alike.                                           *)
Done(t) == /\ pc[t] \in {"handler", "wait"}
           /\ status[t] = "COMPLETE" \/ tbio = t

DoneSound ==
  \A t \in Threads : Done(t) => \A b \in bio[t].blks : data[b] = disk[b]

Inv ==
  /\ TypeOK /\ BioSound /\ LockSound /\ CachedSound /\ HeadersKept
  /\ DirtySound /\ CleanOnDisk /\ QueueLive /\ PoppedSound /\ ActiveFirst
  /\ IrqSound /\ DoneSound /\ NotStalled

-----------------------------------------------------------------------------
(* The queue *)

(* The first request is a thread that waits, and not the handler's. *)
LEMMA HeadLive ==
  ASSUME Inv, request_queue # <<>>
  PROVE  /\ Head(request_queue) \in Threads /\ Head(request_queue) # tbio
         /\ pc[Head(request_queue)] \in {"handler", "wait"}
         /\ status[Head(request_queue)] = "PENDING"
<1>1. /\ 1 \in 1..Len(request_queue) /\ Head(request_queue) = request_queue[1]
      /\ request_queue[1] \in Threads
  BY DEF Inv, TypeOK
<1> QED
  BY <1>1 DEF Inv, QueueLive, PoppedSound

(* An interrupt or a command belongs to the first request. *)
LEMMA BusyQueue ==
  ASSUME Inv, irq \/ cmd # NULL
  PROVE  ide_status = "BUSY" /\ trap = "no" /\ request_queue # <<>>
BY DEF Inv, TypeOK, ActiveFirst

(* The blocks that a request transfers are blocks of the device. *)
LEMMA BioBlks ==
  ASSUME Inv, NEW t \in Threads, InRequest(t)
  PROVE  bio[t].op \in {"READ", "WRITE"} /\ bio[t].blks \subseteq Blks
<1>1. cur[t] \in Blks /\ PageBlks(cur[t]) \subseteq Blks
  BY DEF Inv, TypeOK, PageBlks
<1>2. CASE bio[t] = [op |-> "READ", blks |-> PageBlks(cur[t])]
  BY <1>1, <1>2
<1>3. CASE bio[t] = [op |-> "WRITE", blks |-> {cur[t]}]
  BY <1>1, <1>3
<1> QED
  BY <1>2, <1>3 DEF Inv, BioSound

(* A step that keeps the queue and the threads in it keeps the queue sound. *)
LEMMA QueueFrame ==
  ASSUME Inv, request_queue' = request_queue, tbio' = tbio,
         \A u \in Threads :
           pc[u] \in {"handler", "wait"} /\ status[u] = "PENDING" =>
             pc'[u] \in {"handler", "wait"} /\ status'[u] = "PENDING"
  PROVE  QueueLive' /\ PoppedSound'
<1>1. \A i \in 1..Len(request_queue) : request_queue[i] \in Threads
  BY DEF Inv, TypeOK
<1>2. tbio # NULL => tbio \in Threads
  BY DEF Inv, TypeOK
<1> QED
  BY <1>1, <1>2 DEF Inv, QueueLive, PoppedSound

-----------------------------------------------------------------------------
(* The initial states, and one lemma per action *)

(* The inductive invariant holds at the start. *)
LEMMA InitInv == Init => Inv
<1> SUFFICES ASSUME Init PROVE Inv
  OBVIOUS
<1> USE BdevAssumption DEF Init
<1>1. TypeOK
  <2>1. 0 \in Blks
    BY DEF Blks
  <2>2. irq \in BOOLEAN /\ panicked \in BOOLEAN
    OBVIOUS
  <2>3. data \in [Blks -> Vals] /\ disk \in [Blks -> Vals]
    OBVIOUS
  <2>4. request_queue \in Seq(Threads)
    OBVIOUS
  <2> QED
    BY <2>1, <2>2, <2>3, <2>4 DEF TypeOK
<1>2. BioSound
  BY DEF BioSound, InRequest
<1>3. LockSound
  BY DEF LockSound, Writing, InRequest
<1>4. CachedSound
  BY DEF CachedSound, Writing, InRequest
<1>5. HeadersKept
  <2>1. \A b \in Blks : Users(b) = {}
    BY DEF Users, InRequest
  <2> QED
    BY <2>1 DEF HeadersKept
<1>6. DirtySound
  BY DEF DirtySound
<1>7. CleanOnDisk
  BY DEF CleanOnDisk
<1>8. QueueLive
  BY DEF QueueLive
<1>9. PoppedSound
  BY DEF PoppedSound
<1>10. ActiveFirst
  BY DEF ActiveFirst, Command
<1>11. IrqSound
  BY DEF IrqSound
<1>12. DoneSound
  BY DEF DoneSound, Done
<1>13. NotStalled
  BY DEF NotStalled
<1> QED
  BY <1>1, <1>2, <1>3, <1>4, <1>5, <1>6, <1>7, <1>8, <1>9, <1>10, <1>11,
     <1>12, <1>13 DEF Inv

(* pgcache_get_page keeps the inductive invariant. *)
LEMMA pgcache_get_pageInv ==
  ASSUME Inv, NEW t \in Threads, NEW b \in Blks, pgcache_get_page(t, b)
  PROVE  Inv'
<1> USE BdevAssumption DEF Inv, TypeOK, Goto, Return, Completed, cachevars,
        bhvars, biovars, idevars, pgcache_get_page
<1>1. request_queue # <<>> =>
        Head(request_queue) \in Threads /\ Head(request_queue) # t
  BY HeadLive
<1>2. TypeOK'
  <2>1. PageBlks(b) \subseteq Blks
    BY DEF PageBlks
  <2>2. [op |-> "READ", blks |-> PageBlks(b)]
          \in [op : {"READ", "WRITE"}, blks : SUBSET Blks]
    BY <2>1
  <2>3. bio' \in [Threads -> [op : {"READ", "WRITE"}, blks : SUBSET Blks]
                            \cup {NULL}]
    BY <2>2
  <2>4. /\ pgcache_lock' \in Threads \cup {NULL}
        /\ cur' \in [Threads -> Blks]
        /\ pc' \in [Threads -> {"idle", "headers", "got", "held", "release",
                                "request", "handler", "wait"}]
    OBVIOUS
  <2> QED
    BY <2>3, <2>4
<1>3. BioSound'
  <2>1. CASE bio' = bio /\ pgcache_lock' = pgcache_lock
    BY <2>1 DEF BioSound, InRequest
  <2>2. CASE /\ pgcache_lock' = t /\ PageOf(b) \notin cached
             /\ bio' = [bio EXCEPT
                          ![t] = [op |-> "READ", blks |-> PageBlks(b)]]
    <3>1. \A u \in Threads : InRequest(u) => u # t /\ pgcache_lock # u
      BY DEF InRequest
    <3>2. \A u \in Threads \ {t} : InRequest(u)' => InRequest(u)
      BY DEF InRequest
    <3> QED
      BY <2>2, <3>1, <3>2 DEF BioSound
  <2> QED
    BY <2>1, <2>2
<1>4. LockSound'
  BY DEF LockSound, Writing, InRequest
<1>5. CachedSound'
  BY DEF CachedSound, Writing, InRequest
<1>6. HeadersKept'
  <2>1. \A d \in Blks : Users(d)' = Users(d)
    BY DEF Users, InRequest
  <2> QED
    BY <2>1 DEF HeadersKept
<1>7. DirtySound'
  BY DEF DirtySound
<1>8. CleanOnDisk'
  BY DEF CleanOnDisk
<1>9. QueueLive' /\ PoppedSound'
  BY QueueFrame
<1>10. ActiveFirst'
  <2>1. request_queue # <<>> =>
          Command(Head(request_queue))' = Command(Head(request_queue))
    BY <1>1 DEF Command
  <2> QED
    BY <2>1 DEF ActiveFirst
<1>11. IrqSound'
  BY <1>1, BusyQueue DEF IrqSound
<1>12. DoneSound'
  BY DEF DoneSound, Done
<1>13. NotStalled'
  BY DEF NotStalled
<1> QED
  BY <1>2, <1>3, <1>4, <1>5, <1>6, <1>7, <1>8, <1>9, <1>10, <1>11, <1>12,
     <1>13

(* bdev_get_blk_unlocked keeps the inductive invariant. *)
LEMMA bdev_get_blk_unlockedInv ==
  ASSUME Inv, NEW t \in Threads, bdev_get_blk_unlocked(t)
  PROVE  Inv'
<1> USE BdevAssumption DEF Inv, TypeOK, Goto, Return, Completed, cachevars,
        bhvars, biovars, idevars, bdev_get_blk_unlocked
<1> DEFINE new == IF headers \cap PageBlks(cur[t]) = {} THEN PageBlks(cur[t])
                  ELSE {}
<1>a. /\ new \subseteq Blks /\ cur[t] \in Blks
      /\ headers' = headers \cup new /\ dirty' = dirty \ new
      /\ pc[t] = "headers" /\ \A c \in new : c \notin headers
  BY DEF PageBlks
<1>b. \/ /\ cur[t] \in headers'
         /\ ref' = [[c \in Blks |-> IF c \in new THEN 0 ELSE ref[c]]
                     EXCEPT ![cur[t]] = @ + 1]
         /\ pc' = [pc EXCEPT ![t] = "got"] /\ panicked' = panicked
      \/ /\ cur[t] \notin headers' /\ headers' = headers
         /\ ref' = ref /\ pc' = pc /\ panicked' = TRUE
  BY DEF PageBlks
<1>1. TypeOK'
  <2>1. ref' \in [Blks -> Nat]
    <3>1. [c \in Blks |-> IF c \in new THEN 0 ELSE ref[c]] \in [Blks -> Nat]
      OBVIOUS
    <3>2. CASE ref' = [[c \in Blks |-> IF c \in new THEN 0 ELSE ref[c]]
                        EXCEPT ![cur[t]] = @ + 1]
      BY <1>a, <3>1, <3>2
    <3>3. CASE ref' = ref
      BY <3>3
    <3> QED
      BY <1>b, <3>2, <3>3
  <2>3. panicked' \in BOOLEAN
    BY <1>b
  <2>2. pc' \in [Threads -> {"idle", "headers", "got", "held", "release",
                            "request", "handler", "wait"}]
    BY <1>b
  <2> QED
    BY <1>a, <2>1, <2>2, <2>3
<1>2. BioSound'
  BY DEF BioSound, InRequest
<1>3. LockSound'
  <2>1. pc[t] = "headers" /\ (pc' = [pc EXCEPT ![t] = "got"] \/ pc' = pc)
    BY <1>a, <1>b
  <2>2. UNCHANGED <<lock, cur, bio>>
    OBVIOUS
  <2>3. \A u \in Threads : (Writing(u)' <=> Writing(u)) /\ cur'[u] = cur[u]
    BY <2>1, <2>2 DEF Writing, InRequest
  <2>4. \A u \in Threads : pc'[u] = "held" <=> pc[u] = "held"
    BY <2>1
  <2> QED
    BY <2>2, <2>3, <2>4 DEF LockSound
<1>4. CachedSound'
  BY DEF CachedSound, Writing, InRequest
<1>5. HeadersKept'
  <2>1. ASSUME NEW b \in Blks, b \in new PROVE Users(b) = {}
    BY <1>a, <2>1 DEF HeadersKept
  <2>2. CASE cur[t] \notin headers'
    <3>1. \A b \in Blks : Users(b)' = Users(b)
      BY <1>b, <2>2 DEF Users, InRequest
    <3> QED
      BY <1>b, <2>2, <3>1 DEF HeadersKept
  <2>3. CASE cur[t] \in headers'
    <3> SUFFICES ASSUME NEW b \in Blks
                 PROVE  /\ Users(b)' # {} => b \in headers'
                        /\ b \in headers' => ref'[b] = Cardinality(Users(b)')
                        /\ lock'[b] # NULL => lock'[b] \in Users(b)'
      BY DEF HeadersKept
    <3>1. IsFiniteSet(Users(b)) /\ Cardinality({}) = 0
      BY FS_Subset, FS_EmptySet DEF Users
    <3>2. b \in headers' =>
            Cardinality(Users(b)) = IF b \in new THEN 0 ELSE ref[b]
      BY <1>a, <2>1, <3>1 DEF HeadersKept
    <3>3. CASE b = cur[t]
      <4>1. Users(b)' = Users(b) \cup {t} /\ t \notin Users(b)
        BY <1>a, <1>b, <2>3, <3>3 DEF Users, InRequest
      <4>2. Cardinality(Users(b)') = Cardinality(Users(b)) + 1
        <5>1. Cardinality(Users(b) \cup {t}) = Cardinality(Users(b)) + 1
          BY <3>1, <4>1, FS_AddElement
        <5> QED
          BY <4>1, <5>1
      <4>3. ref'[b] = (IF b \in new THEN 0 ELSE ref[b]) + 1
        BY <1>b, <2>3, <3>3
      <4>4. lock'[b] # NULL => lock'[b] \in Users(b)
        BY DEF HeadersKept
      <4> QED
        BY <2>3, <3>2, <3>3, <4>1, <4>2, <4>3, <4>4
    <3>4. CASE b # cur[t]
      <4>1. Users(b)' = Users(b)
        BY <1>a, <1>b, <2>3, <3>4 DEF Users, InRequest
      <4>2. ref'[b] = IF b \in new THEN 0 ELSE ref[b]
        BY <1>b, <2>3, <3>4
      <4> QED
        BY <1>a, <3>2, <4>1, <4>2 DEF HeadersKept
    <3> QED
      BY <3>3, <3>4
  <2> QED
    BY <2>2, <2>3
<1>6. DirtySound'
  BY DEF DirtySound
<1>7. CleanOnDisk'
  BY DEF CleanOnDisk, PageBlks
<1>8. QueueLive' /\ PoppedSound'
  BY QueueFrame
<1>9. ActiveFirst'
  BY DEF ActiveFirst, Command
<1>10. IrqSound'
  BY DEF IrqSound
<1>11. DoneSound'
  BY DEF DoneSound, Done
<1>12. NotStalled'
  BY DEF NotStalled
<1> QED
  BY <1>1, <1>2, <1>3, <1>4, <1>5, <1>6, <1>7, <1>8, <1>9, <1>10, <1>11, <1>12

(* HeadersFail keeps the inductive invariant. *)
LEMMA HeadersFailInv ==
  ASSUME Inv, NEW t \in Threads, HeadersFail(t)
  PROVE  Inv'
<1> USE BdevAssumption DEF Inv, TypeOK, Goto, Return, Completed, cachevars,
        bhvars, biovars, idevars, HeadersFail
<1>1. TypeOK'
  <2>1. 0 \in Blks
    BY DEF Blks
  <2>2. \A c \in PageBlks(cur[t]) : c \in Blks
    BY DEF PageBlks
  <2>3. /\ headers' \subseteq Blks /\ dirty' \subseteq Blks
        /\ ref' \in [Blks -> Nat]
    BY <2>2
  <2> QED
    BY <2>1, <2>3
<1>2. BioSound'
  BY DEF BioSound, InRequest
<1>3. LockSound'
  BY DEF LockSound, Writing, InRequest
<1>4. CachedSound'
  BY DEF CachedSound, Writing, InRequest
<1>5. HeadersKept'
  <2>1. \A b \in Blks : Users(b)' = Users(b)
    BY DEF Users, InRequest
  <2>2. PICK new \in SUBSET PageBlks(cur[t]) :
          /\ headers' = headers \cup new
          /\ ref' = [c \in Blks |-> IF c \in new THEN 0 ELSE ref[c]]
    OBVIOUS
  <2>3. ASSUME NEW b \in Blks
        PROVE  b \in headers' => ref'[b] = Cardinality(Users(b))
    <3>1. CASE b \in new
      <4>1. b \notin headers
        BY <2>2, <3>1
      <4>2. Users(b) = {}
        BY <4>1 DEF HeadersKept
      <4> QED
        BY <2>2, <3>1, <4>2, FS_EmptySet
    <3>2. CASE b \notin new
      BY <2>2, <3>2 DEF HeadersKept
    <3> QED
      BY <3>1, <3>2
  <2> QED
    BY <2>1, <2>2, <2>3 DEF HeadersKept
<1>6. DirtySound'
  BY DEF DirtySound
<1>7. CleanOnDisk'
  BY DEF CleanOnDisk
<1>8. QueueLive' /\ PoppedSound'
  BY QueueFrame
<1>9. ActiveFirst'
  BY DEF ActiveFirst, Command
<1>10. IrqSound'
  BY DEF IrqSound
<1>11. DoneSound'
  BY DEF DoneSound, Done
<1>12. NotStalled'
  BY DEF NotStalled
<1> QED
  BY <1>1, <1>2, <1>3, <1>4, <1>5, <1>6, <1>7, <1>8, <1>9, <1>10, <1>11, <1>12

(* bdev_get_blk keeps the inductive invariant. *)
LEMMA bdev_get_blkInv ==
  ASSUME Inv, NEW t \in Threads, bdev_get_blk(t)
  PROVE  Inv'
<1> USE BdevAssumption DEF Inv, TypeOK, Goto, Return, Completed, cachevars,
        bhvars, biovars, idevars, bdev_get_blk
<1>1. TypeOK'
  BY DEF TypeOK
<1>2. BioSound'
  BY DEF BioSound, InRequest
<1>3. LockSound'
  BY DEF LockSound, Writing, InRequest
<1>4. CachedSound'
  BY DEF CachedSound, Writing, InRequest
<1>5. HeadersKept'
  <2>1. \A b \in Blks : Users(b)' = Users(b)
    BY DEF Users, InRequest
  <2>2. t \in Users(cur[t])
    BY DEF Users
  <2> QED
    BY <2>1, <2>2 DEF HeadersKept
<1>6. DirtySound'
  BY DEF DirtySound
<1>7. CleanOnDisk'
  BY DEF CleanOnDisk
<1>8. QueueLive' /\ PoppedSound'
  BY QueueFrame
<1>9. ActiveFirst'
  BY DEF ActiveFirst, Command
<1>10. IrqSound'
  BY DEF IrqSound
<1>11. DoneSound'
  BY DEF DoneSound, Done
<1>12. NotStalled'
  BY DEF NotStalled
<1> QED
  BY <1>1, <1>2, <1>3, <1>4, <1>5, <1>6, <1>7, <1>8, <1>9, <1>10, <1>11, <1>12

(* bdev_set_blk_dirty keeps the inductive invariant. *)
LEMMA bdev_set_blk_dirtyInv ==
  ASSUME Inv, NEW t \in Threads, NEW v \in Vals, bdev_set_blk_dirty(t, v)
  PROVE  Inv'
<1> USE BdevAssumption DEF Inv, TypeOK, Goto, Return, Completed, cachevars,
        bhvars, biovars, idevars, bdev_set_blk_dirty
<1>1. request_queue # <<>> =>
        /\ Head(request_queue) \in Threads
        /\ bio[Head(request_queue)].op = "WRITE" =>
             cur[t] \notin bio[Head(request_queue)].blks
  <2> SUFFICES ASSUME request_queue # <<>>, NEW h, h = Head(request_queue)
               PROVE  /\ h \in Threads
                      /\ bio[h].op = "WRITE" => cur[t] \notin bio[h].blks
    OBVIOUS
  <2>1. h \in Threads /\ pc[h] \in {"handler", "wait"}
    BY HeadLive
  <2>2. bio[h].op = "WRITE" => bio[h].blks = {cur[h]} /\ lock[cur[h]] = h
    BY <2>1 DEF BioSound, InRequest
  <2>3. lock[cur[t]] = t /\ h # t
    BY <2>1 DEF LockSound
  <2> QED
    BY <2>1, <2>2, <2>3
<1>2. TypeOK'
  BY DEF TypeOK, CachedSound
<1>3. BioSound'
  BY DEF BioSound, InRequest
<1>4. LockSound'
  BY DEF LockSound, Writing, InRequest
<1>5. CachedSound'
  BY DEF CachedSound, Writing, InRequest
<1>6. HeadersKept'
  <2>1. \A b \in Blks : Users(b)' = Users(b)
    BY DEF Users, InRequest
  <2> QED
    BY <2>1 DEF HeadersKept
<1>7. DirtySound'
  BY DEF DirtySound
<1>8. CleanOnDisk'
  BY DEF CleanOnDisk, HeadersKept, Users
<1>9. QueueLive' /\ PoppedSound'
  BY QueueFrame
<1>10. ActiveFirst'
  <2>1. request_queue # <<>> =>
          Command(Head(request_queue))' = Command(Head(request_queue))
    BY <1>1 DEF Command
  <2> QED
    BY <2>1 DEF ActiveFirst
<1>11. IrqSound'
  BY <1>1, BusyQueue DEF IrqSound
<1>12. DoneSound'
  BY DEF DoneSound, Done, BioSound, InRequest, LockSound, CachedSound,
     PageBlks
<1>13. NotStalled'
  BY DEF NotStalled
<1> QED
  BY <1>2, <1>3, <1>4, <1>5, <1>6, <1>7, <1>8, <1>9, <1>10, <1>11, <1>12,
     <1>13

(* bdev_write_blk keeps the inductive invariant. *)
LEMMA bdev_write_blkInv ==
  ASSUME Inv, NEW t \in Threads, bdev_write_blk(t)
  PROVE  Inv'
<1> USE BdevAssumption DEF Inv, TypeOK, Goto, Return, Completed, cachevars,
        bhvars, biovars, idevars, bdev_write_blk
<1>1. request_queue # <<>> =>
        Head(request_queue) \in Threads /\ Head(request_queue) # t
  BY HeadLive
<1>2. TypeOK'
  BY DEF TypeOK
<1>3. BioSound'
  BY DEF BioSound, InRequest, LockSound
<1>4. LockSound'
  BY DEF LockSound, Writing, InRequest
<1>5. CachedSound'
  BY DEF CachedSound, Writing, InRequest, CachedSound
<1>6. HeadersKept'
  <2>1. \A b \in Blks : Users(b)' = Users(b)
    BY DEF Users, InRequest
  <2> QED
    BY <2>1 DEF HeadersKept
<1>7. DirtySound'
  BY DEF DirtySound
<1>8. CleanOnDisk'
  BY DEF CleanOnDisk
<1>9. QueueLive' /\ PoppedSound'
  BY QueueFrame
<1>10. ActiveFirst'
  <2>1. request_queue # <<>> =>
          Command(Head(request_queue))' = Command(Head(request_queue))
    BY <1>1 DEF Command
  <2> QED
    BY <2>1 DEF ActiveFirst
<1>11. IrqSound'
  BY <1>1, BusyQueue DEF IrqSound
<1>12. DoneSound'
  BY DEF DoneSound, Done
<1>13. NotStalled'
  BY DEF NotStalled
<1> QED
  BY <1>2, <1>3, <1>4, <1>5, <1>6, <1>7, <1>8, <1>9, <1>10, <1>11, <1>12,
     <1>13

(* bdev_release_blk keeps the inductive invariant. *)
LEMMA bdev_release_blkInv ==
  ASSUME Inv, NEW t \in Threads, bdev_release_blk(t)
  PROVE  Inv'
<1> USE BdevAssumption DEF Inv, TypeOK, Goto, Return, Completed, cachevars,
        bhvars, biovars, idevars, bdev_release_blk
<1>1. TypeOK'
  BY DEF TypeOK
<1>2. BioSound'
  BY DEF BioSound, InRequest, LockSound
<1>3. LockSound'
  BY DEF LockSound, Writing, InRequest
<1>4. CachedSound'
  BY DEF CachedSound, Writing, InRequest
<1>5. HeadersKept'
  <2>1. \A b \in Blks : Users(b)' = Users(b)
    BY DEF Users, InRequest
  <2> QED
    BY <2>1 DEF HeadersKept
<1>6. DirtySound'
  BY DEF DirtySound
<1>7. CleanOnDisk'
  BY DEF CleanOnDisk
<1>8. QueueLive' /\ PoppedSound'
  BY QueueFrame
<1>9. ActiveFirst'
  BY DEF ActiveFirst, Command
<1>10. IrqSound'
  BY DEF IrqSound
<1>11. DoneSound'
  BY DEF DoneSound, Done
<1>12. NotStalled'
  BY DEF NotStalled
<1> QED
  BY <1>1, <1>2, <1>3, <1>4, <1>5, <1>6, <1>7, <1>8, <1>9, <1>10, <1>11, <1>12

(* bdev_release_blk_unlocked keeps the inductive invariant. *)
LEMMA bdev_release_blk_unlockedInv ==
  ASSUME Inv, NEW t \in Threads, bdev_release_blk_unlocked(t)
  PROVE  Inv'
<1> USE BdevAssumption DEF Inv, TypeOK, Goto, Return, Completed, cachevars,
        bhvars, biovars, idevars, bdev_release_blk_unlocked
<1>a. /\ cur[t] \in headers /\ t \in Users(cur[t])
      /\ ref[cur[t]] = Cardinality(Users(cur[t]))
  <2>1. t \in Users(cur[t])
    BY DEF Users
  <2> QED
    BY <2>1 DEF HeadersKept
<1>b. \A b \in Blks : IsFiniteSet(Users(b)) /\ Cardinality(Users(b)) \in Nat
  BY FS_Subset, FS_CardinalityType DEF Users
<1>c. /\ IsFiniteSet(Users(cur[t]) \ {t})
      /\ Cardinality(Users(cur[t]) \ {t}) = Cardinality(Users(cur[t])) - 1
      /\ Cardinality(Users(cur[t]) \ {t}) \in Nat
  BY <1>a, <1>b, FS_RemoveElement, FS_CardinalityType
<1>d. /\ ref'[cur[t]] = Cardinality(Users(cur[t]) \ {t})
      /\ ref' \in [Blks -> Nat]
      /\ \A b \in Blks : b # cur[t] => ref'[b] = ref[b]
  BY <1>a, <1>b, <1>c
<1>1. TypeOK'
  <2>1. 0 \in Blks
    BY DEF Blks
  <2> QED
    BY <1>d, <2>1
<1>2. BioSound'
  BY DEF BioSound, InRequest
<1>3. LockSound'
  BY DEF LockSound, Writing, InRequest
<1>4. CachedSound'
  BY DEF CachedSound, Writing, InRequest
<1>5. HeadersKept'
  <2>1. \A b \in Blks : Users(b)' = Users(b) \ {t}
    BY DEF Users, InRequest
  <2>2. \A b \in Blks : b # cur[t] => Users(b) \ {t} = Users(b)
    BY DEF Users
  <2>3. \A b \in Blks : b \in headers => ref'[b] = Cardinality(Users(b)')
    <3>1. \A b \in Blks :
            b \in headers => ref'[b] = Cardinality(Users(b) \ {t})
      <4> TAKE b \in Blks
      <4>1. CASE b = cur[t]
        BY <1>d, <4>1
      <4>2. CASE b # cur[t]
        <5>1. b \in headers => ref[b] = Cardinality(Users(b))
          BY DEF HeadersKept
        <5>2. Users(b) \ {t} = Users(b) /\ ref'[b] = ref[b]
          BY <1>d, <2>2, <4>2
        <5> QED
          BY <5>1, <5>2
      <4> QED
        BY <4>1, <4>2
    <3> QED
      BY <2>1, <3>1, Zenon
  <2>4. \A b \in Blks : b \in headers /\ b \notin headers' => ref'[b] = 0
    BY DEF PageBlks
  <2>5. \A b \in Blks : b \in headers /\ b \notin headers' => Users(b)' = {}
    <3> TAKE b \in Blks
    <3> HAVE b \in headers /\ b \notin headers'
    <3>1. IsFiniteSet(Users(b)') /\ Cardinality(Users(b)') = 0
      BY <1>b, <2>1, <2>3, <2>4, FS_Subset
    <3> QED
      BY <3>1, FS_EmptySet
  <2>6. \A b \in Blks : lock'[b] # NULL => lock'[b] \in Users(b)'
    <3>1. \A b \in Blks : lock[b] # NULL => lock[b] # t /\ lock[b] \in Users(b)
      BY DEF HeadersKept, LockSound, Writing, InRequest
    <3> QED
      BY <2>1, <3>1
  <2>7. headers' \subseteq headers
    OBVIOUS
  <2>8. \A b \in Blks : Users(b)' # {} => b \in headers'
    BY <2>1, <2>5 DEF HeadersKept
  <2> QED
    BY <2>3, <2>6, <2>7, <2>8 DEF HeadersKept
<1>6. DirtySound'
  BY DEF DirtySound
<1>7. CleanOnDisk'
  BY DEF CleanOnDisk, DirtySound, PageBlks
<1>8. QueueLive' /\ PoppedSound'
  BY QueueFrame
<1>9. ActiveFirst'
  BY DEF ActiveFirst, Command
<1>10. IrqSound'
  BY DEF IrqSound
<1>11. DoneSound'
  BY DEF DoneSound, Done
<1>12. NotStalled'
  BY DEF NotStalled
<1> QED
  BY <1>1, <1>2, <1>3, <1>4, <1>5, <1>6, <1>7, <1>8, <1>9, <1>10, <1>11, <1>12

(* bdev_make_request keeps the inductive invariant. *)
LEMMA bdev_make_requestInv ==
  ASSUME Inv, NEW t \in Threads, bdev_make_request(t)
  PROVE  Inv'
<1> USE BdevAssumption DEF Inv, TypeOK, Goto, Return, Completed, cachevars,
        bhvars, biovars, idevars, bdev_make_request
<1>1. TypeOK'
  BY DEF TypeOK
<1>2. BioSound'
  BY DEF BioSound, InRequest
<1>3. LockSound'
  BY DEF LockSound, Writing, InRequest
<1>4. CachedSound'
  BY DEF CachedSound, Writing, InRequest
<1>5. HeadersKept'
  <2>1. \A b \in Blks : Users(b)' = Users(b)
    BY DEF Users, InRequest
  <2> QED
    BY <2>1 DEF HeadersKept
<1>6. DirtySound'
  BY DEF DirtySound
<1>7. CleanOnDisk'
  BY DEF CleanOnDisk
<1>8. QueueLive'
  <2>1. /\ Len(request_queue') = Len(request_queue) + 1
        /\ request_queue'[Len(request_queue) + 1] = t
        /\ \A i \in 1..Len(request_queue) :
             /\ request_queue'[i] = request_queue[i]
             /\ request_queue[i] \in Threads /\ request_queue[i] # t
        /\ Len(request_queue) \in Nat
    <3>1. \A i \in 1..Len(request_queue) :
            request_queue[i] \in Threads /\ request_queue[i] # t
      BY DEF QueueLive
    <3> QED
      BY <3>1
  <2>2. \A i \in 1..Len(request_queue') :
          i \in 1..Len(request_queue) \/ i = Len(request_queue) + 1
    BY <2>1
  <2>3. \A u \in Threads : u # t => pc'[u] = pc[u] /\ status'[u] = status[u]
    OBVIOUS
  <2>4. pc'[t] = "handler" /\ status'[t] = "PENDING"
    OBVIOUS
  <2>5. tbio # NULL => tbio # t
    BY DEF QueueLive
  <2>6. \A i \in 1..Len(request_queue') :
          /\ pc'[request_queue'[i]] \in {"handler", "wait"}
          /\ status'[request_queue'[i]] = "PENDING"
    BY <2>1, <2>2, <2>3, <2>4 DEF QueueLive
  <2>7. \A i, j \in 1..Len(request_queue') :
          request_queue'[j] = request_queue'[i] => i = j
    BY <2>1, <2>2 DEF QueueLive
  <2>8. tbio' = tbio
    OBVIOUS
  <2>9. tbio' # NULL =>
          pc'[tbio'] \in {"handler", "wait"} /\ status'[tbio'] = "PENDING"
    BY <2>3, <2>5, <2>8 DEF QueueLive
  <2> QED
    BY <2>6, <2>7, <2>9 DEF QueueLive
<1>9. PoppedSound'
  BY DEF PoppedSound, QueueLive
<1>10. ActiveFirst'
  <2>1. request_queue # <<>> =>
          /\ request_queue' # <<>>
          /\ Head(request_queue') = Head(request_queue)
    OBVIOUS
  <2>2. \A u \in Threads : Command(u)' = Command(u)
    BY DEF Command
  <2> QED
    BY <2>1, <2>2, HeadLive DEF ActiveFirst
<1>11. IrqSound'
  BY DEF IrqSound, ActiveFirst
<1>12. DoneSound'
  BY DEF DoneSound, Done, QueueLive
<1>13. NotStalled'
  BY DEF NotStalled
<1> QED
  BY <1>1, <1>2, <1>3, <1>4, <1>5, <1>6, <1>7, <1>8, <1>9, <1>10, <1>11,
     <1>12, <1>13

(* ide_request_handler keeps the inductive invariant. *)
LEMMA ide_request_handlerInv ==
  ASSUME Inv, NEW t \in Threads, ide_request_handler(t)
  PROVE  Inv'
<1> USE BdevAssumption DEF Inv, TypeOK, Goto, Return, Completed, cachevars,
        bhvars, biovars, idevars, ide_request_handler
<1>1. TypeOK'
  BY DEF ide_issue_cmd
<1>2. BioSound'
  BY DEF BioSound, InRequest
<1>3. LockSound'
  BY DEF LockSound, Writing, InRequest
<1>4. CachedSound'
  BY DEF CachedSound, Writing, InRequest
<1>5. HeadersKept'
  <2>1. \A b \in Blks : Users(b)' = Users(b)
    BY DEF Users, InRequest
  <2> QED
    BY <2>1 DEF HeadersKept
<1>6. DirtySound'
  BY DEF DirtySound
<1>7. CleanOnDisk'
  BY DEF CleanOnDisk
<1>8. QueueLive' /\ PoppedSound'
  BY QueueFrame
<1>9. ActiveFirst'
  BY DEF ActiveFirst, Command, ide_issue_cmd
<1>10. IrqSound'
  BY DEF IrqSound, ActiveFirst
<1>11. DoneSound'
  BY DEF DoneSound, Done
<1>12. NotStalled'
  BY DEF NotStalled, ide_issue_cmd
<1> QED
  BY <1>1, <1>2, <1>3, <1>4, <1>5, <1>6, <1>7, <1>8, <1>9, <1>10, <1>11, <1>12

(* Sleep keeps the inductive invariant. *)
LEMMA SleepInv ==
  ASSUME Inv, NEW t \in Threads, Sleep(t)
  PROVE  Inv'
<1> USE BdevAssumption DEF Inv, TypeOK, Goto, Return, Completed, cachevars,
        bhvars, biovars, idevars, Sleep
<1>1. TypeOK'
  BY DEF TypeOK
<1>2. BioSound'
  BY DEF BioSound, InRequest
<1>3. LockSound'
  BY DEF LockSound, Writing, InRequest
<1>4. CachedSound'
  BY DEF CachedSound, Writing, InRequest
<1>5. HeadersKept'
  <2>1. \A b \in Blks : Users(b)' = Users(b)
    BY DEF Users, InRequest
  <2> QED
    BY <2>1 DEF HeadersKept
<1>6. DirtySound'
  BY DEF DirtySound
<1>7. CleanOnDisk'
  BY DEF CleanOnDisk
<1>8. QueueLive' /\ PoppedSound'
  BY QueueFrame
<1>9. ActiveFirst'
  BY DEF ActiveFirst, Command
<1>10. IrqSound'
  BY DEF IrqSound
<1>11. DoneSound'
  BY DEF DoneSound, Done
<1>12. NotStalled'
  BY DEF NotStalled
<1> QED
  BY <1>1, <1>2, <1>3, <1>4, <1>5, <1>6, <1>7, <1>8, <1>9, <1>10, <1>11, <1>12

(* FillDone keeps the inductive invariant. *)
LEMMA FillDoneInv ==
  ASSUME Inv, NEW t \in Threads, FillDone(t)
  PROVE  Inv'
<1> USE BdevAssumption DEF Inv, TypeOK, Goto, Return, Completed, cachevars,
        bhvars, biovars, idevars, FillDone
<1>1. request_queue # <<>> =>
        Head(request_queue) \in Threads /\ Head(request_queue) # t
  BY HeadLive
<1>2. TypeOK'
  <2>1. 0 \in Blks
    BY DEF Blks
  <2> QED
    BY <2>1
<1>3. BioSound'
  <2>1. pgcache_lock = t
    BY DEF BioSound, InRequest
  <2>2. \A u \in Threads : u # t =>
          /\ InRequest(u)' <=> InRequest(u)
          /\ bio'[u] = bio[u] /\ cur'[u] = cur[u]
    BY DEF InRequest
  <2>3. ~InRequest(t)'
    BY DEF InRequest
  <2>4. \A u \in Threads : u # t /\ InRequest(u) =>
          /\ bio[u] = [op |-> "WRITE", blks |-> {cur[u]}]
          /\ lock[cur[u]] = u
    BY <2>1 DEF BioSound
  <2>5. lock' = lock
    OBVIOUS
  <2> HIDE DEF FillDone, Inv
  <2> QED
    BY <2>2, <2>3, <2>4, <2>5 DEF BioSound
<1>4. LockSound'
  <2>1. ~Writing(t) /\ pc[t] # "held" /\ pc'[t] # "held"
    BY DEF Writing
  <2>2. \A u \in Threads : u # t =>
          /\ Writing(u)' <=> Writing(u)
          /\ cur'[u] = cur[u] /\ pc'[u] = pc[u]
    BY DEF Writing, InRequest
  <2>3. \A b \in Blks : lock[b] # NULL => lock[b] \in Threads /\ lock[b] # t
    BY <2>1 DEF LockSound
  <2>4. lock' = lock
    OBVIOUS
  <2> QED
    BY <2>1, <2>2, <2>3, <2>4 DEF LockSound
<1>5. CachedSound'
  BY DEF CachedSound, Writing, InRequest
<1>6. HeadersKept'
  <2>1. \A b \in Blks : Users(b)' = Users(b)
    BY DEF Users, InRequest
  <2> QED
    BY <2>1 DEF HeadersKept
<1>7. DirtySound'
  BY DEF DirtySound
<1>8. CleanOnDisk'
  <2>1. bio[t] = [op |-> "READ", blks |-> PageBlks(cur[t])]
    BY DEF BioSound, InRequest
  <2>2. \A b \in PageBlks(cur[t]) : data[b] = disk[b]
    BY <2>1 DEF DoneSound, Done
  <2>3. \A b \in Blks : PageOf(b) \in cached' =>
          PageOf(b) \in cached \/ b \in PageBlks(cur[t])
    BY DEF PageBlks
  <2> QED
    BY <2>2, <2>3 DEF CleanOnDisk
<1>9. QueueLive' /\ PoppedSound'
  BY QueueFrame
<1>10. ActiveFirst'
  <2>1. request_queue # <<>> =>
          Command(Head(request_queue))' = Command(Head(request_queue))
    BY <1>1 DEF Command
  <2> QED
    BY <2>1 DEF ActiveFirst
<1>11. IrqSound'
  BY <1>1, BusyQueue DEF IrqSound
<1>12. DoneSound'
  BY DEF DoneSound, Done
<1>13. NotStalled'
  BY DEF NotStalled
<1> QED
  BY <1>2, <1>3, <1>4, <1>5, <1>6, <1>7, <1>8, <1>9, <1>10, <1>11, <1>12,
     <1>13

(* WriteDone keeps the inductive invariant. *)
LEMMA WriteDoneInv ==
  ASSUME Inv, NEW t \in Threads, WriteDone(t)
  PROVE  Inv'
<1> USE BdevAssumption DEF Inv, TypeOK, Goto, Return, Completed, cachevars,
        bhvars, biovars, idevars, WriteDone
<1>1. request_queue # <<>> =>
        Head(request_queue) \in Threads /\ Head(request_queue) # t
  BY HeadLive
<1>2. TypeOK'
  BY DEF TypeOK
<1>3. BioSound'
  BY DEF BioSound, InRequest
<1>4. LockSound'
  BY DEF LockSound, Writing, InRequest, BioSound
<1>5. CachedSound'
  BY DEF CachedSound, Writing, InRequest
<1>6. HeadersKept'
  <2>1. \A b \in Blks : Users(b)' = Users(b)
    BY DEF Users, InRequest
  <2> QED
    BY <2>1 DEF HeadersKept
<1>7. DirtySound'
  BY DEF DirtySound
<1>8. CleanOnDisk'
  BY DEF CleanOnDisk, DoneSound, Done, BioSound, InRequest
<1>9. QueueLive' /\ PoppedSound'
  BY QueueFrame
<1>10. ActiveFirst'
  <2>1. request_queue # <<>> =>
          Command(Head(request_queue))' = Command(Head(request_queue))
    BY <1>1 DEF Command
  <2> QED
    BY <2>1 DEF ActiveFirst
<1>11. IrqSound'
  BY <1>1, BusyQueue DEF IrqSound
<1>12. DoneSound'
  BY DEF DoneSound, Done
<1>13. NotStalled'
  BY DEF NotStalled
<1> QED
  BY <1>2, <1>3, <1>4, <1>5, <1>6, <1>7, <1>8, <1>9, <1>10, <1>11, <1>12,
     <1>13

(* DiskDone keeps the inductive invariant. *)
LEMMA DiskDoneInv ==
  ASSUME Inv, DiskDone
  PROVE  Inv'
<1> USE BdevAssumption DEF Inv, TypeOK, Goto, Return, Completed, cachevars,
        bhvars, biovars, idevars, DiskDone
<1>1. /\ request_queue # <<>> /\ ~irq /\ cmd = Command(Head(request_queue))
      /\ Head(request_queue) \in Threads
  BY BusyQueue, HeadLive DEF ActiveFirst, IrqSound
<1>2. \A b \in Blks : disk'[b] = disk[b] \/ disk'[b] = data[b]
  BY <1>1 DEF Command
<1>3. TypeOK'
  <2>1. disk' \in [Blks -> Vals]
    BY <1>1, <1>2 DEF Command
  <2> QED
    BY <2>1
<1>4. BioSound'
  BY DEF BioSound, InRequest
<1>5. LockSound'
  BY DEF LockSound, Writing, InRequest
<1>6. CachedSound'
  BY DEF CachedSound, Writing, InRequest
<1>7. HeadersKept'
  <2>1. \A b \in Blks : Users(b)' = Users(b)
    BY DEF Users, InRequest
  <2> QED
    BY <2>1 DEF HeadersKept
<1>8. DirtySound'
  BY DEF DirtySound
<1>9. CleanOnDisk'
  BY <1>1, <1>2 DEF CleanOnDisk
<1>10. QueueLive' /\ PoppedSound'
  BY QueueFrame
<1>11. ActiveFirst'
  BY DEF ActiveFirst, Command
<1>12. IrqSound'
  <2> SUFFICES ASSUME NEW h, h = Head(request_queue), bio[h].op = "WRITE",
                      NEW b \in bio[h].blks
               PROVE  data[b] = disk'[b]
    BY <1>1 DEF IrqSound
  <2>1. h \in Threads /\ InRequest(h)
    BY <1>1, HeadLive DEF InRequest
  <2>2. b \in Blks
    BY <2>1 DEF BioSound
  <2>3. cmd.op = "WRITE" /\ cmd.blks = bio[h].blks /\ cmd.vals[b] = data[b]
    BY <1>1 DEF Command
  <2> QED
    BY <2>2, <2>3
<1>13. DoneSound'
  <2> SUFFICES ASSUME NEW t \in Threads, Done(t), NEW b \in bio[t].blks
               PROVE  data[b] = disk'[b]
    BY DEF DoneSound, Done
  <2>1. b \in Blks /\ data[b] = disk[b]
    <3>1. InRequest(t) /\ data[b] = disk[b]
      BY DEF DoneSound, Done, InRequest
    <3>2. bio[t].blks \subseteq Blks
      BY <3>1, BioBlks
    <3> QED
      BY <3>1, <3>2
  <2> QED
    BY <1>2, <2>1
<1>14. NotStalled'
  BY DEF NotStalled
<1> QED
  BY <1>3, <1>4, <1>5, <1>6, <1>7, <1>8, <1>9, <1>10, <1>11, <1>12, <1>13,
     <1>14

(* TrapPop keeps the inductive invariant. *)
LEMMA TrapPopInv ==
  ASSUME Inv, TrapPop
  PROVE  Inv'
<1> USE BdevAssumption DEF Inv, TypeOK, Goto, Return, Completed, cachevars,
        bhvars, biovars, idevars, TrapPop
<1>a. request_queue # <<>> /\ trap = "no" /\ ide_status = "BUSY"
  BY DEF ActiveFirst
<1>b. PICK h \in Threads : h = Head(request_queue)
  BY <1>a, HeadLive
<1>c. h # tbio /\ pc[h] \in {"handler", "wait"} /\ status[h] = "PENDING"
  BY <1>a, <1>b, HeadLive
<1>d. data' = [b \in Blks |-> IF bio[h].op = "READ" /\ b \in bio[h].blks
                             THEN disk[b] ELSE data[b]]
  BY <1>b
<1>e. /\ Len(request_queue') = Len(request_queue) - 1
      /\ request_queue[1] = h /\ 1 \in 1..Len(request_queue)
      /\ \A i \in 1..Len(request_queue') :
           /\ request_queue'[i] = request_queue[i + 1]
           /\ i + 1 \in 1..Len(request_queue) /\ request_queue[i + 1] # h
  <2>1. /\ Len(request_queue') = Len(request_queue) - 1
        /\ request_queue[1] = h /\ 1 \in 1..Len(request_queue)
        /\ \A i \in 1..Len(request_queue') :
             /\ request_queue'[i] = request_queue[i + 1]
             /\ i + 1 \in 1..Len(request_queue) /\ i + 1 # 1
    BY <1>a, <1>b
  <2> QED
    BY <2>1 DEF QueueLive
<1>1. TypeOK'
  <2>1. data' \in [Blks -> Vals]
    BY <1>d
  <2>2. request_queue' \in Seq(Threads) /\ tbio' \in Threads
    BY <1>a, <1>b
  <2>3. irq' \in BOOLEAN
    OBVIOUS
  <2> QED
    BY <2>1, <2>2, <2>3
<1>2. BioSound'
  BY DEF BioSound, InRequest
<1>3. LockSound'
  BY DEF LockSound, Writing, InRequest
<1>4. CachedSound'
  BY DEF CachedSound, Writing, InRequest
<1>5. HeadersKept'
  <2>1. \A b \in Blks : Users(b)' = Users(b)
    BY DEF Users, InRequest
  <2> QED
    BY <2>1 DEF HeadersKept
<1>6. DirtySound'
  BY DEF DirtySound
<1>7. CleanOnDisk'
  BY DEF CleanOnDisk
<1>8. QueueLive'
  BY DEF QueueLive, ActiveFirst
<1>9. PoppedSound'
  <2>1. tbio' = h
    BY <1>b
  <2> QED
    BY <1>e, <2>1 DEF PoppedSound
<1>10. ActiveFirst'
  BY DEF ActiveFirst, Command, IrqSound
<1>11. IrqSound'
  BY DEF IrqSound
<1>12. DoneSound'
  <2> SUFFICES ASSUME NEW t \in Threads, Done(t)', NEW b \in bio[t].blks
               PROVE  data'[b] = disk[b]
    BY DEF DoneSound
  <2>1. InRequest(t) /\ tbio' = h /\ UNCHANGED <<pc, status>>
    BY <1>b DEF Done, InRequest
  <2>2. b \in Blks
    BY <2>1, BioBlks
  <2>3. CASE t = h
    <3>1. bio[h].op = "READ" \/ (bio[h].op = "WRITE" /\ data[b] = disk[b])
      <4>1. bio[t].op \in {"READ", "WRITE"}
        BY <2>1, BioBlks
      <4>2. irq /\ t = Head(request_queue)
        BY <1>b, <2>3
      <4> QED
        BY <2>3, <4>1, <4>2 DEF IrqSound
    <3> QED
      BY <1>d, <2>2, <2>3, <3>1
  <2>4. CASE t # h
    <3>1. Done(t)
      BY <2>1, <2>4 DEF Done
    <3>2. data[b] = disk[b]
      BY <3>1 DEF DoneSound
    <3> QED
      BY <1>d, <2>2, <3>2
  <2> QED
    BY <2>3, <2>4
<1>13. NotStalled'
  BY DEF NotStalled
<1> QED
  BY <1>1, <1>2, <1>3, <1>4, <1>5, <1>6, <1>7, <1>8, <1>9, <1>10, <1>11,
     <1>12, <1>13

(* TrapComplete keeps the inductive invariant. *)
LEMMA TrapCompleteInv ==
  ASSUME Inv, TrapComplete
  PROVE  Inv'
<1> USE BdevAssumption DEF Inv, TypeOK, Goto, Return, Completed, cachevars,
        bhvars, biovars, idevars, TrapComplete
<1>1. TypeOK'
  BY DEF TypeOK
<1>2. BioSound'
  BY DEF BioSound, InRequest
<1>3. LockSound'
  BY DEF LockSound, Writing, InRequest
<1>4. CachedSound'
  BY DEF CachedSound, Writing, InRequest
<1>5. HeadersKept'
  <2>1. \A b \in Blks : Users(b)' = Users(b)
    BY DEF Users, InRequest
  <2> QED
    BY <2>1 DEF HeadersKept
<1>6. DirtySound'
  BY DEF DirtySound
<1>7. CleanOnDisk'
  BY DEF CleanOnDisk
<1>8. QueueLive'
  <2>1. \A i \in 1..Len(request_queue) :
          request_queue[i] \in Threads /\ request_queue[i] # tbio
    <3>1. \A i \in 1..Len(request_queue) : request_queue[i] \in Threads
      OBVIOUS
    <3> QED
      BY <3>1 DEF PoppedSound
  <2>2. \A u \in Threads : u # tbio => status'[u] = status[u]
    OBVIOUS
  <2>3. tbio' = NULL /\ UNCHANGED <<request_queue, pc>>
    OBVIOUS
  <2> QED
    BY <2>1, <2>2, <2>3 DEF QueueLive
<1>9. PoppedSound'
  BY DEF PoppedSound
<1>10. ActiveFirst'
  BY DEF ActiveFirst, Command
<1>11. IrqSound'
  BY DEF IrqSound
<1>12. DoneSound'
  BY DEF DoneSound, Done
<1>13. NotStalled'
  BY DEF NotStalled
<1> QED
  BY <1>1, <1>2, <1>3, <1>4, <1>5, <1>6, <1>7, <1>8, <1>9, <1>10, <1>11,
     <1>12, <1>13

(* TrapNext keeps the inductive invariant. *)
LEMMA TrapNextInv ==
  ASSUME Inv, TrapNext
  PROVE  Inv'
<1> USE BdevAssumption DEF Inv, TypeOK, Goto, Return, Completed, cachevars,
        bhvars, biovars, idevars, TrapNext
<1>1. TypeOK'
  BY DEF ide_issue_cmd
<1>2. BioSound'
  BY DEF BioSound, InRequest
<1>3. LockSound'
  BY DEF LockSound, Writing, InRequest
<1>4. CachedSound'
  BY DEF CachedSound, Writing, InRequest
<1>5. HeadersKept'
  <2>1. \A b \in Blks : Users(b)' = Users(b)
    BY DEF Users, InRequest
  <2> QED
    BY <2>1 DEF HeadersKept
<1>6. DirtySound'
  BY DEF DirtySound
<1>7. CleanOnDisk'
  BY DEF CleanOnDisk
<1>8. QueueLive' /\ PoppedSound'
  BY QueueFrame
<1>9. ActiveFirst'
  BY DEF ActiveFirst, Command, ide_issue_cmd
<1>10. IrqSound'
  BY DEF IrqSound, ActiveFirst
<1>11. DoneSound'
  BY DEF DoneSound, Done
<1>12. NotStalled'
  BY DEF NotStalled, ide_issue_cmd
<1> QED
  BY <1>1, <1>2, <1>3, <1>4, <1>5, <1>6, <1>7, <1>8, <1>9, <1>10, <1>11, <1>12

-----------------------------------------------------------------------------
(* Every step *)

(* Every step keeps the inductive invariant. *)
LEMMA NextInv == Inv /\ [Next]_vars => Inv'
<1> SUFFICES ASSUME Inv, [Next]_vars PROVE Inv'
  OBVIOUS
<1>1. ASSUME NEW t \in Threads, Call(t) PROVE Inv'
  BY <1>1, pgcache_get_pageInv, bdev_set_blk_dirtyInv, bdev_write_blkInv,
     bdev_release_blkInv DEF Call
<1>2. ASSUME NEW t \in Threads, Continue(t) PROVE Inv'
  BY <1>2, bdev_get_blk_unlockedInv, HeadersFailInv, bdev_get_blkInv,
     bdev_release_blk_unlockedInv, bdev_make_requestInv, SleepInv,
     FillDoneInv, WriteDoneInv DEF Continue
<1>3. ASSUME NEW t \in Threads, ide_request_handler(t) PROVE Inv'
  BY <1>3, ide_request_handlerInv
<1>4. CASE DiskDone
  BY <1>4, DiskDoneInv
<1>5. CASE ide_trap_handler
  BY <1>5, TrapPopInv, TrapCompleteInv, TrapNextInv DEF ide_trap_handler
<1>6. CASE UNCHANGED vars
  <2> USE <1>6 DEF vars, Inv, Writing, InRequest, Users
  <2>1. TypeOK'
    BY DEF TypeOK
  <2>2. BioSound' /\ LockSound' /\ CachedSound'
    BY DEF BioSound, LockSound, CachedSound
  <2>3. HeadersKept' /\ DirtySound' /\ CleanOnDisk'
    <3>1. \A b \in Blks : Users(b)' = Users(b)
      OBVIOUS
    <3>2. HeadersKept'
      <4> HIDE DEF Users
      <4> QED
        BY <3>1 DEF HeadersKept
    <3> QED
      BY <3>2 DEF DirtySound, CleanOnDisk
  <2>4. QueueLive' /\ PoppedSound' /\ NotStalled'
    BY DEF QueueLive, PoppedSound, NotStalled
  <2>5. ActiveFirst' /\ IrqSound' /\ DoneSound'
    BY DEF ActiveFirst, Command, IrqSound, DoneSound, Done
  <2> QED
    BY <2>1, <2>2, <2>3, <2>4, <2>5
<1> QED
  BY <1>1, <1>2, <1>3, <1>4, <1>5, <1>6 DEF Next

(* The inductive invariant holds in every state: what the threads, the     *)
(* cache, the headers, the queue and the driver keep true between them.    *)
THEOREM Invariance == Spec => []Inv
BY InitInv, NextInv, PTL DEF Spec

(* bdev_release_blk_unlocked never frees the header of a block that some   *)
(* thread still uses, and its count is exact, with any number of threads,  *)
(* blocks, and blocks to a page.                                           *)
THEOREM Headers == Spec => []HeadersKept
<1>1. Inv => HeadersKept
  BY DEF Inv
<1> QED
  BY <1>1, Invariance, PTL

(* A block in the cache that is not marked dirty is the one on the disk:   *)
(* bdev_write_blk and the fills of the cache lose no change.               *)
THEOREM Clean == Spec => []CleanOnDisk
<1>1. Inv => CleanOnDisk
  BY DEF Inv
<1> QED
  BY <1>1, Invariance, PTL

(* The interrupt handler of the driver always finds the request that the   *)
(* disk has finished first in the queue, on a stack that is still there,   *)
(* and no request waits for an idle disk that nobody will start.           *)
THEOREM Queue == Spec => []RequestQueue
<1>1. Inv => RequestQueue
  BY DEF Inv, RequestQueue
<1> QED
  BY <1>1, Invariance, PTL

=============================================================================
