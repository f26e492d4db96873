--------------------------------- MODULE Sfs ---------------------------------
(* The data path of the simple file system (kernel/fs/sfs/sfs.c): the two    *)
(* bitmaps, the block addresses of an inode with their indirect blocks, and  *)
(* the loops of write_data, read_data and sfs_delete_inode over them, on an  *)
(* image that tools/mkfs.c makes.  Names, links and references are Vfs.      *)
(*                                                                           *)
(* A word is the unit of data: a block holds B of them and an indirect block *)
(* B block numbers.  i_lock makes one operation on a file at a time, which   *)
(* op[f] records; operations on different files interleave at every block    *)
(* they allocate, write or free.  Each of those is one step: the buffer of   *)
(* the bitmap block is locked from the search of a free bit until the new    *)
(* block is zeroed.                                                          *)
EXTENDS Integers, Sequences, FiniteSets, FiniteSetsExt

CONSTANTS
  Files,        \* inode numbers
  B,            \* words of a block, block numbers of an indirect block
  NDIRECT, NINDIRECT,
  s_data_start, \* number of the first data block
  BMAP,         \* bits of a bitmap block
  s_size,       \* number of data blocks
  Input,        \* words of the files given to mkfs
  Vals,         \* what processes write
  Counts,       \* how many words a call reads or writes
  MaxCalls      \* bound: calls of sfs_write and of sfs_delete_inode

ASSUME SfsAssumption ==
  /\ {B, NDIRECT, NINDIRECT, s_data_start, BMAP, s_size} \subseteq Nat \ {0}
  /\ Files \subseteq Nat
  /\ Input \cup Vals \subseteq Nat \ {0} /\ Counts \subseteq Nat \ {0} /\ MaxCalls \in Nat

VARIABLES
  mounted,    \* FALSE while mkfs makes the image
  inodes,     \* the inode bitmap
  bmap,       \* the data block bitmap: the set bits of each of its blocks
  blk,        \* contents of the data blocks
  dino,       \* on-disk inodes
  ino,        \* in-memory inodes: size and block addresses
  dirty,      \* in-memory inodes that could not be written
  unlinked,   \* inodes without a link, which only sfs_delete_inode may touch
  pos,        \* f_pos of the file opened on each inode
  op,         \* the operation that holds each inode
  calls,      \* bound: calls of sfs_write and sfs_delete_inode so far
  failed,     \* history: some call found no memory or no free block
  panicked,   \* a kassert failed
  overrun     \* sfs_delete_inode read past an array

vars == <<mounted, inodes, bmap, blk, dino, ino, dirty, unlinked, pos, op,
          calls, failed, panicked, overrun>>

MAX_FILE_SIZE == (NDIRECT + NINDIRECT * B) * B
DataBlks == s_data_start..(s_data_start + s_size - 1)
Addrs == 0..(NDIRECT + NINDIRECT - 1)
NewInode == [size |-> 0, addrs |-> [a \in Addrs |-> 0]]
ZeroBlk == [w \in 0..(B - 1) |-> 0]
Idle == [k |-> "idle"]

(***************************************************************************)
(* The data block bitmap: several blocks of BMAP bits, the last of which   *)
(* may be used in part.                                                    *)
(***************************************************************************)
BmapBlks == 0..((s_size - 1) \div BMAP)

\* bmap_alloc_element searches the first elements of a bitmap block in order.
bmap_alloc_element(set, size) == {i \in 0..(size - 1) : i \notin set}

FreeIn(k) == bmap_alloc_element(bmap[k], Min({BMAP, s_size - k * BMAP}))

CanAlloc == \E k \in BmapBlks : FreeIn(k) # {}

Found == LET k == Min({j \in BmapBlks : FreeIn(j) # {}})
         IN  [bb |-> k, ix |-> Min(FreeIn(k))]

BlkOf(e) == s_data_start + BMAP * e.bb + e.ix

\* The first free block is marked and zeroed; contents is what the caller
\* makes of the other blocks in the same step.
alloc_data_block(contents) ==
  /\ CanAlloc
  /\ bmap' = [bmap EXCEPT ![Found.bb] = @ \cup {Found.ix}]
  /\ blk' = [contents EXCEPT ![BlkOf(Found)] = ZeroBlk]

free_data_block(b) ==
  bmap' = [bmap EXCEPT ![(b - s_data_start) \div BMAP] =
                          @ \ {(b - s_data_start) % BMAP}]

(***************************************************************************)
(* Where the word at an offset lives.                                      *)
(***************************************************************************)
BlkIndex(ofs) == ofs \div B
IsDirect(ofs) == BlkIndex(ofs) < NDIRECT

AddrIndex(ofs) ==
  IF IsDirect(ofs) THEN BlkIndex(ofs) ELSE NDIRECT + (BlkIndex(ofs) - NDIRECT) \div B

IndirOfs(ofs) == (BlkIndex(ofs) - NDIRECT) % B

\* The block of an offset of a file, 0 when none is allocated.
DataBlk(n, ofs) ==
  LET b == n.addrs[AddrIndex(ofs)]
  IN  IF IsDirect(ofs) \/ b = 0 THEN b ELSE blk[b][IndirOfs(ofs)]

Chunk(ofs, left) == Min({B - (ofs % B), left})

Stored(b, ofs, n, x) ==
  [blk EXCEPT ![b] = [w \in 0..(B - 1) |->
     IF w >= ofs % B /\ w < (ofs % B) + n THEN x ELSE @[w]]]

(***************************************************************************)
(* mkfs: a program of the host that makes the image before the kernel      *)
(* starts, one file after the other.  It exits at the first error, and     *)
(* then there is no image.                                                 *)
(***************************************************************************)
alloc_inode ==
  LET f == Min(Files \ inodes) IN
  /\ ~mounted
  /\ Files # inodes
  /\ \A g \in Files : op[g] = Idle
  /\ inodes' = inodes \cup {f}
  /\ dino' = [dino EXCEPT ![f] = NewInode]
  /\ UNCHANGED <<mounted, bmap, blk, ino, dirty, unlinked, pos, op, calls,
                 failed, panicked, overrun>>

inode_append(f, x, size) ==
  /\ ~mounted
  /\ \A g \in Files : op[g] = Idle
  /\ f \in inodes /\ f = Max(inodes)
  /\ dino[f].size + size <= MAX_FILE_SIZE
  /\ op' = [op EXCEPT ![f] = [k |-> "mkfs", x |-> x, left |-> size]]
  /\ UNCHANGED <<mounted, inodes, bmap, blk, dino, ino, dirty, unlinked, pos,
                 calls, failed, panicked, overrun>>

\* get_data_block of mkfs, one allocation at a time: the block of the end of
\* the file or, before it, the indirect block that will name it.
mkfs_get_data_block(f) ==
  LET n == dino[f]
      a == AddrIndex(n.size)
      new == BlkOf(Found)
  IN
  /\ op[f].k = "mkfs"
  /\ DataBlk(n, n.size) = 0
  /\ IF n.addrs[a] = 0
     THEN /\ alloc_data_block(blk)
          /\ dino' = [dino EXCEPT ![f].addrs[a] = new]
     ELSE /\ alloc_data_block([blk EXCEPT ![n.addrs[a]][IndirOfs(n.size)] = new])
          /\ UNCHANGED dino
  /\ UNCHANGED <<mounted, inodes, ino, dirty, unlinked, pos, op, calls,
                 failed, panicked, overrun>>

\* One round of the loop of inode_append.
AppendBlk(f) ==
  LET n == dino[f]
      s == Chunk(n.size, op[f].left)
      b == DataBlk(n, n.size)
  IN
  /\ op[f].k = "mkfs"
  /\ b # 0
  /\ blk' = Stored(b, n.size, s, op[f].x)
  /\ dino' = [dino EXCEPT ![f].size = @ + s]
  /\ op' = [op EXCEPT ![f] = IF s = op[f].left THEN Idle
                             ELSE [op[f] EXCEPT !.left = @ - s]]
  /\ UNCHANGED <<mounted, inodes, bmap, ino, dirty, unlinked, pos, calls,
                 failed, panicked, overrun>>

\* mkfs has written its last file; the kernel mounts the image and its inodes
\* are read.
sfs_read_inode ==
  /\ ~mounted
  /\ \A f \in Files : op[f] = Idle
  /\ mounted' = TRUE
  /\ ino' = dino
  /\ UNCHANGED <<inodes, bmap, blk, dino, dirty, unlinked, pos, op, calls,
                 failed, panicked, overrun>>

(***************************************************************************)
(* Creating, opening, reading and writing.                                 *)
(***************************************************************************)
Running == mounted /\ ~panicked /\ ~overrun

Ready(f) == Running /\ f \in inodes \ unlinked /\ op[f] = Idle

\* alloc_disk_inode takes the first free inode and clears it; when the block
\* of the inode cannot be had the bitmap is as before.
alloc_disk_inode ==
  LET f == Min(Files \ inodes) IN
  /\ Running
  /\ Files # inodes
  /\ inodes' = inodes \cup {f}
  /\ dino' = [dino EXCEPT ![f] = NewInode]
  /\ ino' = [ino EXCEPT ![f] = NewInode]
  /\ UNCHANGED <<mounted, bmap, blk, dirty, unlinked, pos, op, calls, failed,
                 panicked, overrun>>

\* A file opened anew starts at its beginning.
Open(f) ==
  /\ Ready(f)
  /\ pos[f] # 0
  /\ pos' = [pos EXCEPT ![f] = 0]
  /\ UNCHANGED <<mounted, inodes, bmap, blk, dino, ino, dirty, unlinked, op,
                 calls, failed, panicked, overrun>>

\* The words read_data can return: all it was asked for up to the end of the
\* file, or fewer when a block is missing or cannot be had.
read_data(f, count, ofs) ==
  LET n == ino[f]
      all == Min({count, n.size - ofs})
      ends == {e \in ofs..(ofs + all) :
                 /\ (e = ofs + all) \/ (e = ofs) \/ (e % B = 0)
                 /\ \A o \in ofs..(e - 1) : DataBlk(n, o) # 0}
  IN  {[i \in 1..(e - ofs) |-> blk[DataBlk(n, ofs + i - 1)][(ofs + i - 1) % B]] : e \in ends}

sfs_read(f, count) ==
  /\ Ready(f)
  /\ \E s \in read_data(f, count, pos[f]) :
       s # <<>> /\ pos' = [pos EXCEPT ![f] = @ + Len(s)]
  /\ UNCHANGED <<mounted, inodes, bmap, blk, dino, ino, dirty, unlinked, op,
                 calls, failed, panicked, overrun>>

sfs_write(f, x, count) ==
  /\ Ready(f)
  /\ calls < MaxCalls
  /\ calls' = calls + 1
  /\ op' = [op EXCEPT ![f] = [k |-> "write", ofs |-> pos[f], left |-> count, x |-> x]]
  /\ UNCHANGED <<mounted, inodes, bmap, blk, dino, ino, dirty, unlinked, pos,
                 failed, panicked, overrun>>

InLoop(f) == Running /\ op[f].k = "write" /\ op[f].left > 0

\* get_data_block asserts that the offset is one a file can have.
PastEnd(f) ==
  /\ InLoop(f)
  /\ op[f].ofs >= MAX_FILE_SIZE
  /\ panicked' = TRUE
  /\ UNCHANGED <<mounted, inodes, bmap, blk, dino, ino, dirty, unlinked, pos,
                 op, calls, failed, overrun>>

\* get_data_block, first half: an address of the inode, direct or indirect,
\* gets its block.  The block of the disk inode is referenced by then, so
\* sfs_write_inode cannot fail.
AllocAddr(f) ==
  LET n == ino[f]
      a == AddrIndex(op[f].ofs)
  IN
  /\ InLoop(f) /\ op[f].ofs < MAX_FILE_SIZE
  /\ n.addrs[a] = 0
  /\ alloc_data_block(blk)
  /\ ino' = [ino EXCEPT ![f].addrs[a] = BlkOf(Found)]
  /\ dino' = [dino EXCEPT ![f] = ino'[f]]
  /\ dirty' = dirty \ {f}
  /\ UNCHANGED <<mounted, inodes, unlinked, pos, op, calls, failed, panicked, overrun>>

\* get_data_block, second half: an entry of the indirect block.
AllocIndir(f) ==
  LET a == ino[f].addrs[AddrIndex(op[f].ofs)] IN
  /\ InLoop(f) /\ op[f].ofs < MAX_FILE_SIZE
  /\ ~IsDirect(op[f].ofs) /\ a # 0
  /\ blk[a][IndirOfs(op[f].ofs)] = 0
  /\ alloc_data_block([blk EXCEPT ![a][IndirOfs(op[f].ofs)] = BlkOf(Found)])
  /\ UNCHANGED <<mounted, inodes, dino, ino, dirty, unlinked, pos, op, calls,
                 failed, panicked, overrun>>

\* One round of the loop of write_data, once get_data_block has the block.
write_data(f) ==
  LET b == DataBlk(ino[f], op[f].ofs)
      s == Chunk(op[f].ofs, op[f].left)
  IN
  /\ InLoop(f) /\ op[f].ofs < MAX_FILE_SIZE
  /\ b # 0
  /\ blk' = Stored(b, op[f].ofs, s, op[f].x)
  /\ op' = [op EXCEPT ![f].ofs = @ + s, ![f].left = @ - s]
  /\ UNCHANGED <<mounted, inodes, bmap, dino, ino, dirty, unlinked, pos, calls,
                 failed, panicked, overrun>>

(* Variant: the words of the block that could not be had are counted. *)
GiveUpCounted(f) ==
  /\ InLoop(f) /\ op[f].ofs < MAX_FILE_SIZE
  /\ op' = [op EXCEPT ![f].ofs = @ + Chunk(@, op[f].left), ![f].left = 0]
  /\ failed' = TRUE
  /\ UNCHANGED <<mounted, inodes, bmap, blk, dino, ino, dirty, unlinked, pos,
                 calls, panicked, overrun>>

\* get_data_block fails: no memory for a buffer, or no free block.  What it
\* has allocated stays.
GiveUp(f) ==
  /\ InLoop(f) /\ op[f].ofs < MAX_FILE_SIZE
  /\ op' = [op EXCEPT ![f].left = 0]
  /\ failed' = TRUE
  /\ UNCHANGED <<mounted, inodes, bmap, blk, dino, ino, dirty, unlinked, pos,
                 calls, panicked, overrun>>

(* Variant: the size of the file stays what it was. *)
WriteEndShort(f, saved) ==
  /\ Running /\ op[f].k = "write" /\ op[f].left = 0 /\ saved
  /\ pos' = [pos EXCEPT ![f] = op[f].ofs]
  /\ op' = [op EXCEPT ![f] = Idle]
  /\ UNCHANGED <<mounted, inodes, bmap, blk, dino, ino, dirty, unlinked, calls,
                 failed, panicked, overrun>>

\* The end of write_data and of sfs_write: the new size is in the inode, and
\* on disk unless there is no memory for the block of the inode.
WriteEnd(f, saved) ==
  LET grows == op[f].ofs > ino[f].size IN
  /\ Running /\ op[f].k = "write" /\ op[f].left = 0
  /\ ~grows => saved
  /\ ino' = [ino EXCEPT ![f].size = IF grows THEN op[f].ofs ELSE @]
  /\ dino' = IF grows /\ saved THEN [dino EXCEPT ![f] = ino'[f]] ELSE dino
  /\ dirty' = IF ~grows THEN dirty ELSE IF saved THEN dirty \ {f} ELSE dirty \cup {f}
  /\ pos' = [pos EXCEPT ![f] = op[f].ofs]
  /\ op' = [op EXCEPT ![f] = Idle]
  /\ UNCHANGED <<mounted, inodes, bmap, blk, unlinked, calls, failed, panicked, overrun>>

(***************************************************************************)
(* Deleting an inode that has no link and no user left.                    *)
(***************************************************************************)
sfs_delete_inode(f) ==
  /\ Running /\ f \in inodes /\ op[f] = Idle
  /\ calls < MaxCalls
  /\ calls' = calls + 1
  /\ unlinked' = unlinked \cup {f}
  /\ op' = [op EXCEPT ![f] = [k |-> "delete", size |-> 0, index |-> 0, indir |-> -1]]
  /\ UNCHANGED <<mounted, inodes, bmap, blk, dino, ino, dirty, pos,
                 failed, panicked, overrun>>

Deleting(f) == Running /\ op[f].k = "delete" /\ op[f].size < ino[f].size

\* The loop over i_addrs has run past its last element, or the loop over an
\* indirect block past its last entry: neither tests for it.
Overrun(f) ==
  /\ Deleting(f)
  /\ ~(op[f].index \in Addrs /\ op[f].indir < B)
  /\ overrun' = TRUE
  /\ UNCHANGED <<mounted, inodes, bmap, blk, dino, ino, dirty, unlinked, pos,
                 op, calls, failed, panicked>>

\* An address that is 0 was freed by an earlier call; its size is not counted.
DeleteSkip(f) ==
  /\ Deleting(f) /\ op[f].index \in Addrs /\ op[f].indir = -1
  /\ ino[f].addrs[op[f].index] = 0
  /\ op' = [op EXCEPT ![f].index = @ + 1]
  /\ UNCHANGED <<mounted, inodes, bmap, blk, dino, ino, dirty, unlinked, pos,
                 calls, failed, panicked, overrun>>

DeleteDirect(f) ==
  LET a == op[f].index IN
  /\ Deleting(f) /\ a < NDIRECT
  /\ ino[f].addrs[a] # 0
  /\ free_data_block(ino[f].addrs[a])
  /\ ino' = [ino EXCEPT ![f].addrs[a] = 0]
  /\ op' = [op EXCEPT ![f].size = @ + B, ![f].index = @ + 1]
  /\ UNCHANGED <<mounted, inodes, blk, dino, dirty, unlinked, pos, calls,
                 failed, panicked, overrun>>

DeleteEnter(f) ==
  LET a == op[f].index IN
  /\ Deleting(f) /\ a \in Addrs /\ a >= NDIRECT /\ op[f].indir = -1
  /\ ino[f].addrs[a] # 0
  /\ op' = [op EXCEPT ![f].indir = 0]
  /\ UNCHANGED <<mounted, inodes, bmap, blk, dino, ino, dirty, unlinked, pos,
                 calls, failed, panicked, overrun>>

\* One round of the loop over an indirect block.
DeleteEntry(f) ==
  LET b == ino[f].addrs[op[f].index]
      e == blk[b][op[f].indir]
  IN
  /\ Deleting(f) /\ op[f].indir \in 0..(B - 1)
  /\ IF e = 0 THEN UNCHANGED bmap ELSE free_data_block(e)
  /\ blk' = [blk EXCEPT ![b][op[f].indir] = 0]
  /\ op' = [op EXCEPT ![f].indir = @ + 1, ![f].size = @ + B]
  /\ UNCHANGED <<mounted, inodes, dino, ino, dirty, unlinked, pos, calls,
                 failed, panicked, overrun>>

(* Variant: the indirect block itself is kept. *)
DeleteIndirKeep(f) ==
  LET a == op[f].index IN
  /\ Running /\ op[f].k = "delete" /\ op[f].indir >= 0 /\ op[f].size >= ino[f].size
  /\ ino' = [ino EXCEPT ![f].addrs[a] = 0]
  /\ op' = [op EXCEPT ![f].indir = -1, ![f].index = @ + 1]
  /\ UNCHANGED <<mounted, inodes, bmap, blk, dino, dirty, unlinked, pos, calls,
                 failed, panicked, overrun>>

\* The loop over an indirect block ends with the size; the block itself goes.
DeleteIndir(f) ==
  LET a == op[f].index IN
  /\ Running /\ op[f].k = "delete" /\ op[f].indir >= 0 /\ op[f].size >= ino[f].size
  /\ free_data_block(ino[f].addrs[a])
  /\ ino' = [ino EXCEPT ![f].addrs[a] = 0]
  /\ op' = [op EXCEPT ![f].indir = -1, ![f].index = @ + 1]
  /\ UNCHANGED <<mounted, inodes, blk, dino, dirty, unlinked, pos, calls,
                 failed, panicked, overrun>>

\* A block of the bitmap, or the indirect block, cannot be had: the call
\* returns, from the loop over an indirect block with the buffer of that block
\* still locked.  From elsewhere it may be called again.
DeleteFail(f) ==
  /\ Running /\ op[f].k = "delete"
  /\ op' = [op EXCEPT ![f] = IF @.indir >= 0 /\ @.size < ino[f].size
                                  THEN [k |-> "stuck"] ELSE Idle]
  /\ failed' = TRUE
  /\ UNCHANGED <<mounted, inodes, bmap, blk, dino, ino, dirty, unlinked, pos,
                 calls, panicked, overrun>>

\* The disk inode keeps what it held; alloc_disk_inode clears it.
free_disk_inode(f) ==
  /\ Running /\ op[f].k = "delete" /\ op[f].indir = -1 /\ op[f].size >= ino[f].size
  /\ inodes' = inodes \ {f}
  /\ unlinked' = unlinked \ {f}
  /\ dirty' = dirty \ {f}
  /\ pos' = [pos EXCEPT ![f] = 0]
  /\ op' = [op EXCEPT ![f] = Idle]
  /\ ino' = [ino EXCEPT ![f] = NewInode]
  /\ UNCHANGED <<mounted, bmap, blk, dino, calls, failed, panicked, overrun>>

-----------------------------------------------------------------------------
Init ==
  /\ mounted = FALSE
  /\ inodes = {}
  /\ bmap = [k \in BmapBlks |-> {}]
  /\ blk = [b \in DataBlks |-> ZeroBlk]
  /\ dino = [f \in Files |-> NewInode]
  /\ ino = dino
  /\ dirty = {} /\ unlinked = {}
  /\ pos = [f \in Files |-> 0]
  /\ op = [f \in Files |-> Idle]
  /\ calls = 0
  /\ failed = FALSE /\ panicked = FALSE /\ overrun = FALSE

Next ==
  \/ alloc_inode \/ sfs_read_inode \/ alloc_disk_inode
  \/ \E f \in Files :
       \/ mkfs_get_data_block(f) \/ AppendBlk(f)
       \/ \E n \in Counts :
            \/ \E x \in Input : inode_append(f, x, n)
            \/ \E x \in Vals : sfs_write(f, x, n)
            \/ sfs_read(f, n)
       \/ Open(f)
       \/ PastEnd(f) \/ AllocAddr(f) \/ AllocIndir(f) \/ write_data(f) \/ GiveUp(f)
       \/ \E saved \in BOOLEAN : WriteEnd(f, saved)
       \/ sfs_delete_inode(f) \/ DeleteSkip(f) \/ DeleteDirect(f) \/ DeleteEnter(f)
       \/ DeleteEntry(f) \/ DeleteIndir(f) \/ DeleteFail(f) \/ Overrun(f)
       \/ free_disk_inode(f)

Spec == Init /\ [][Next]_vars

-----------------------------------------------------------------------------
(* Type invariant; every block number in an inode or in an indirect block is
   0 or the number of a data block. *)
OpType ==
  {Idle, [k |-> "stuck"]}
  \cup [k : {"mkfs"}, x : Input, left : Nat]
  \cup [k : {"write"}, ofs : Nat, left : Nat, x : Vals]
  \cup [k : {"delete"}, size : Nat, index : Nat, indir : -1..B]

InodeType == [size : 0..MAX_FILE_SIZE, addrs : [Addrs -> DataBlks \cup {0}]]

TypeOK ==
  /\ mounted \in BOOLEAN /\ failed \in BOOLEAN /\ panicked \in BOOLEAN /\ overrun \in BOOLEAN
  /\ inodes \subseteq Files /\ dirty \subseteq inodes /\ unlinked \subseteq inodes
  /\ bmap \in [BmapBlks -> SUBSET (0..(BMAP - 1))]
  /\ blk \in [DataBlks -> [0..(B - 1) -> Nat]]
  /\ dino \in [Files -> InodeType] /\ ino \in [Files -> InodeType]
  /\ pos \in [Files -> 0..MAX_FILE_SIZE]
  /\ op \in [Files -> OpType]
  /\ calls \in 0..MaxCalls

\* The inode that counts: mkfs works on the disk, the kernel in memory.
Node(f) == IF mounted THEN ino[f] ELSE dino[f]

\* Every place that names a block: a slot of an inode or of an indirect block.
Places ==
  {<<f, a, -1>> : f \in inodes, a \in Addrs}
  \cup {<<f, a, j>> : f \in inodes, a \in NDIRECT..(NDIRECT + NINDIRECT - 1), j \in 0..(B - 1)}

NamedAt(p) ==
  LET a == Node(p[1]).addrs[p[2]]
  IN  IF p[3] = -1 THEN a ELSE IF a = 0 THEN 0 ELSE blk[a][p[3]]

Used == {p \in Places : NamedAt(p) # 0}

Marked == UNION {{BlkOf([bb |-> k, ix |-> i]) : i \in bmap[k]} : k \in BmapBlks}

(* alloc_data_block, get_data_block and sfs_delete_inode: a data block is
   named in at most one place of one file and is marked in the bitmap while
   it is, whatever other files allocate and free in between. *)
BlocksOwned ==
  /\ \A p \in Used : NamedAt(p) \in Marked
  /\ \A p, q \in Used : NamedAt(p) = NamedAt(q) => p = q

(* write_data and sfs_delete_inode: as long as no call has failed half way
   the bitmap marks no block that no file names, so that deleting a file
   gives back all of its blocks, the indirect ones too. *)
NoLeak == failed \/ Marked = {NamedAt(p) : p \in Used}

(* sfs_write_inode: the inode on disk is the one in memory, but for a file
   whose last size could not be written and one that is being deleted. *)
SavedInode ==
  \A f \in inodes \ (dirty \cup unlinked) : mounted => dino[f] = ino[f]

(* get_data_block leaves no hole: every word below the size of a file has a
   block, so that read_data ends at the end of the file only. *)
NoHole ==
  \A f \in inodes \ unlinked : \A o \in 0..(Node(f).size - 1) : DataBlk(Node(f), o) # 0

(* The blocks of a file system: one owner each, through every failure of an
   allocation, and, until a call has failed half way, none that is marked and
   owned by nobody. *)
BlocksExact == BlocksOwned /\ NoLeak

(* The inode of a file: saved to disk, and its size never ahead of the blocks
   that it names, though a write may stop half way. *)
InodesSound == TypeOK /\ SavedInode /\ NoHole

\* What a reader finds in a file, the words of a write in progress included.
View(f) ==
  LET n == Node(f)
      end == IF op[f].k = "write" THEN Max({n.size, op[f].ofs}) ELSE n.size
  IN  IF f \in inodes \ unlinked
      THEN [i \in 1..end |-> blk[DataBlk(n, i - 1)][(i - 1) % B]]
      ELSE <<>>

Contents == INSTANCE FileContents WITH Vals <- Input \cup Vals, contents <- [f \in Files |-> View(f)]

(* mkfs, sfs_write and sfs_delete_inode implement files that are sequences of
   words of their own: a step of a write puts one of the words that processes
   write in a run of places without a gap before it, and changes no word of
   another file, through every allocation of that file. *)
Implements == Contents!Spec

(* The assertion of get_data_block that no offset passes the largest size of
   a file.  It does not hold: a write that reaches that size goes on. *)
NoPanic == ~panicked

(* The loops of sfs_delete_inode stay within i_addrs and within an indirect
   block.  It does not hold: a file that uses two indirect blocks, or one whose
   deletion failed half way and is tried again, runs past them. *)
InBounds == ~overrun

(* The comment of get_data_block that sfs_delete_inode frees the blocks a
   failed write leaves.  It does not hold: it frees up to the size only. *)
FreesAll == (\A f \in Files : op[f] = Idle) => Marked = {NamedAt(p) : p \in Used}
=============================================================================
