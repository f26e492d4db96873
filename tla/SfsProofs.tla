----------------------------- MODULE SfsProofs ------------------------------
(***************************************************************************)
(* Proofs about Sfs: for any files, any geometry of the disk and of its    *)
(* inodes, and any sizes of reads and writes.                              *)
(***************************************************************************)
EXTENDS Sfs, NaturalsInduction, WellFoundedInduction, TLAPS

-----------------------------------------------------------------------------
(* The inductive invariant *)

(* The place that names the block of an offset, and the number of the      *)
(* first block of a file that a place leads to.                            *)
PlaceOf(f, o) == <<f, AddrIndex(o), IF IsDirect(o) THEN -1 ELSE IndirOfs(o)>>

FirstBlk(p) ==
  IF p[2] < NDIRECT THEN p[2]
  ELSE NDIRECT + (p[2] - NDIRECT) * B + (IF p[3] = -1 THEN 0 ELSE p[3])

Names == \A p \in Places : NamedAt(p) \in DataBlks \cup {0}

(* Which operation may hold an inode, and what it remembers. *)
OpSound(f) ==
  /\ f \notin inodes => op[f] = Idle /\ pos[f] = 0
  /\ f \in unlinked => mounted /\ op[f].k \in {"idle", "stuck", "delete"}
  /\ op[f].k \in {"stuck", "delete"} => f \in unlinked
  /\ op[f].k = "mkfs" =>
       ~mounted /\ op[f].left > 0 /\ dino[f].size + op[f].left <= MAX_FILE_SIZE
  /\ op[f].k = "write" => mounted /\ op[f].ofs <= MAX_FILE_SIZE
  /\ f \in inodes \ unlinked => pos[f] <= Node(f).size
  /\ op[f].k = "delete" /\ op[f].indir >= 0 =>
       /\ op[f].index \in NDIRECT..(NDIRECT + NINDIRECT - 1)
       /\ ino[f].addrs[op[f].index] # 0

Saved(f) == f \in inodes \ (dirty \cup unlinked) /\ mounted => dino[f] = ino[f]

(* The words of a file, those of a write in progress included, have their  *)
(* blocks.                                                                 *)
End(f) ==
  IF op[f].k = "write" /\ op[f].ofs > Node(f).size THEN op[f].ofs ELSE Node(f).size

HoleFree(f) ==
  f \in inodes \ unlinked =>
    \A o \in 0..(End(f) - 1) : NamedAt(PlaceOf(f, o)) # 0

(* As long as no call has failed there are no others: a block has been     *)
(* allocated only for a word that is there or about to be written.         *)
Asked(f, o) ==
  \/ o < End(f)
  \/ op[f].k = "mkfs" /\ o <= Node(f).size
  \/ op[f].k = "write" /\ op[f].left > 0 /\ o <= op[f].ofs

Exact(f) ==
  ~failed => \A p \in Used : p[1] = f => Asked(f, FirstBlk(p) * B)

(* How far sfs_delete_inode has come, as long as no call has failed: it    *)
(* frees the direct blocks and then those of the first indirect block.     *)
AddrsGone(f, n) == \A a \in Addrs : a < n => ino[f].addrs[a] = 0

AtAddr(f) ==
  /\ op[f].indir = -1 /\ op[f].index <= NDIRECT
  /\ op[f].size = op[f].index * B
  /\ AddrsGone(f, op[f].index)
  /\ \A a \in op[f].index..NDIRECT : a * B < ino[f].size => ino[f].addrs[a] # 0

AtEntry(f) ==
  /\ op[f].indir >= 0 /\ op[f].index = NDIRECT
  /\ op[f].size = (NDIRECT + op[f].indir) * B
  /\ AddrsGone(f, NDIRECT)
  /\ \A j \in 0..(op[f].indir - 1) : NamedAt(<<f, NDIRECT, j>>) = 0

AtEnd(f) ==
  /\ op[f].indir = -1 /\ op[f].size >= ino[f].size
  /\ AddrsGone(f, NDIRECT + NINDIRECT)

Deletes(f) ==
  ~failed /\ f \in unlinked =>
    op[f].k = "delete" /\ (AtAddr(f) \/ AtEntry(f) \/ AtEnd(f))

FileInv(f) == OpSound(f) /\ Saved(f) /\ HoleFree(f) /\ Exact(f) /\ Deletes(f)

Inv == /\ TypeOK /\ Names /\ BlocksOwned /\ NoLeak
       /\ \A f \in Files : FileInv(f)

-----------------------------------------------------------------------------
(* Arithmetic *)

LEMMA DivMod ==
  ASSUME NEW x \in Nat, NEW n \in Nat \ {0}
  PROVE  /\ x \div n \in Nat /\ x % n \in 0..(n - 1)
         /\ x = (x \div n) * n + (x % n)
OBVIOUS

LEMMA DivModIs ==
  ASSUME NEW n \in Nat \ {0}, NEW q \in Nat, NEW r \in 0..(n - 1)
  PROVE  (q * n + r) \div n = q /\ (q * n + r) % n = r
OBVIOUS

LEMMA TimesMono ==
  ASSUME NEW x \in Nat, NEW y \in Nat, x <= y, NEW n \in Nat
  PROVE  x * n <= y * n /\ x * n \in Nat /\ y * n \in Nat
<1>1. PICK d \in Nat : y = x + d
  <2>1. y - x \in Nat /\ y = x + (y - x)
    OBVIOUS
  <2> QED
    BY <2>1
<1>2. y * n = x * n + d * n /\ d * n \in Nat /\ x * n \in Nat
  BY <1>1
<1> QED
  BY <1>2

LEMMA DivBelow ==
  ASSUME NEW x \in Nat, NEW m \in Nat, NEW n \in Nat \ {0}, x < m * n
  PROVE  x \div n < m
<1>1. x \div n \in Nat /\ x % n \in 0..(n - 1) /\ x = (x \div n) * n + (x % n)
  BY DivMod
<1>2. ASSUME m <= x \div n PROVE FALSE
  <2>1. m * n <= (x \div n) * n /\ (x \div n) * n \in Nat /\ m * n \in Nat
    BY <1>1, <1>2, TimesMono
  <2> QED
    BY <1>1, <2>1
<1> QED
  BY <1>1, <1>2

(* The rest of a block does not pass a multiple of the block. *)
LEMMA RoundUp ==
  ASSUME NEW x \in Nat, NEW m \in Nat, NEW n \in Nat \ {0}, x < m * n
  PROVE  x + (n - (x % n)) <= m * n
<1>1. x \div n \in Nat /\ x % n \in 0..(n - 1) /\ x = (x \div n) * n + (x % n)
  BY DivMod
<1>2. x \div n + 1 <= m
  BY <1>1, DivBelow
<1>3. /\ (x \div n + 1) * n <= m * n /\ (x \div n + 1) * n \in Nat
      /\ m * n \in Nat
  BY <1>1, <1>2, TimesMono
<1>4. (x \div n + 1) * n = (x \div n) * n + n
  BY <1>1
<1>5. (x \div n) * n \in Nat
  BY <1>1
<1> QED
  BY <1>1, <1>3, <1>4, <1>5

(* Offsets up to the end of a block are in the block. *)
LEMMA SameBlk ==
  ASSUME NEW x \in Nat, NEW n \in Nat \ {0}, NEW y \in Nat,
         x <= y, y < x + (n - (x % n))
  PROVE  y \div n = x \div n /\ y % n = (x % n) + (y - x)
<1>1. x \div n \in Nat /\ x % n \in 0..(n - 1) /\ x = (x \div n) * n + (x % n)
  BY DivMod
<1>2. (x \div n) * n \in Nat
  BY <1>1
<1>3. PICK r \in 0..(n - 1) : r = (x % n) + (y - x)
  BY <1>1
<1>4. PICK q \in Nat : q = x \div n
  BY <1>1
<1>5. y = q * n + r
  BY <1>1, <1>2, <1>3, <1>4
<1>6. (q * n + r) \div n = q /\ (q * n + r) % n = r
  BY DivModIs
<1> QED
  BY <1>3, <1>4, <1>5, <1>6

LEMMA MinIn ==
  ASSUME NEW S, S \subseteq Nat, S # {}
  PROVE  Min(S) \in S
<1>1. \E x \in S : \A y \in S : ~(<<y, x>> \in OpToRel(<, Nat))
  BY NatLessThanWellFounded, WFMin
<1>2. PICK x \in S : \A y \in S : ~(<<y, x>> \in OpToRel(<, Nat))
  BY <1>1
<1>3. \A y \in S : x <= y
  <2> TAKE y \in S
  <2>1. x \in Nat /\ y \in Nat
    OBVIOUS
  <2>2. ~(y < x)
    BY <1>2, <2>1 DEF OpToRel
  <2> QED
    BY <2>1, <2>2
<1> QED
  BY <1>3 DEF Min

LEMMA MinOfTwo ==
  ASSUME NEW x \in Int, NEW y \in Int
  PROVE  /\ Min({x, y}) \in Int
         /\ Min({x, y}) = IF x <= y THEN x ELSE y
<1>1. CASE x <= y
  BY <1>1 DEF Min
<1>2. CASE ~(x <= y)
  BY <1>2 DEF Min
<1> QED
  BY <1>1, <1>2

-----------------------------------------------------------------------------
(* The bitmap *)

LEMMA BmapIs ==
  ASSUME bmap \in [BmapBlks -> SUBSET (0..(BMAP - 1))], NEW b
  PROVE  b \in Marked <=> \E k \in BmapBlks : \E i \in bmap[k] :
                            b = s_data_start + k * BMAP + i
<1>1. \A k \in BmapBlks : \A i \in bmap[k] :
        BlkOf([bb |-> k, ix |-> i]) = s_data_start + k * BMAP + i
  BY SfsAssumption DEF BlkOf, BmapBlks
<1>2. b \in Marked <=> \E k \in BmapBlks :
        b \in {BlkOf([bb |-> k, ix |-> i]) : i \in bmap[k]}
  BY DEF Marked
<1> QED
  BY <1>1, <1>2

(* A data block has one bit. *)
LEMMA BitIs ==
  ASSUME NEW b \in DataBlks
  PROVE  /\ (b - s_data_start) \div BMAP \in BmapBlks
         /\ (b - s_data_start) % BMAP \in 0..(BMAP - 1)
         /\ b = s_data_start + ((b - s_data_start) \div BMAP) * BMAP
                + ((b - s_data_start) % BMAP)
         /\ \A k \in BmapBlks, i \in 0..(BMAP - 1) :
              b = s_data_start + k * BMAP + i =>
                k = (b - s_data_start) \div BMAP /\ i = (b - s_data_start) % BMAP
<1> USE SfsAssumption
<1>1. PICK x \in Nat : x = b - s_data_start /\ x <= s_size - 1
  BY DEF DataBlks
<1>2. x \div BMAP \in Nat /\ x % BMAP \in 0..(BMAP - 1)
      /\ x = (x \div BMAP) * BMAP + (x % BMAP)
  BY DivMod
<1>3. x \div BMAP <= (s_size - 1) \div BMAP /\ (s_size - 1) \div BMAP \in Nat
  <2>1. PICK y \in Nat : y = s_size - 1
    OBVIOUS
  <2>2. y \div BMAP \in Nat /\ y % BMAP \in 0..(BMAP - 1)
        /\ y = (y \div BMAP) * BMAP + (y % BMAP)
    BY DivMod
  <2>3. (y \div BMAP + 1) * BMAP = (y \div BMAP) * BMAP + BMAP
        /\ (y \div BMAP) * BMAP \in Nat
    BY <2>2
  <2>4. x < (y \div BMAP + 1) * BMAP
    BY <1>1, <2>1, <2>2, <2>3
  <2>5. x \div BMAP < y \div BMAP + 1
    BY <2>2, <2>4, DivBelow
  <2> QED
    BY <1>2, <2>1, <2>2, <2>5
<1>4. ASSUME NEW k \in BmapBlks, NEW i \in 0..(BMAP - 1),
             b = s_data_start + k * BMAP + i
      PROVE  k = x \div BMAP /\ i = x % BMAP
  <2>1. k \in Nat /\ k * BMAP \in Nat
    BY DEF BmapBlks
  <2>2. x = k * BMAP + i
    BY <1>1, <1>4, <2>1
  <2> QED
    BY <2>1, <2>2, DivModIs
<1>5. (x \div BMAP) * BMAP \in Nat
  BY <1>2
<1>b. b = s_data_start + x /\ s_data_start \in Nat
  BY <1>1 DEF DataBlks
<1>6. b = s_data_start + (x \div BMAP) * BMAP + (x % BMAP)
  <2>1. PICK y \in Nat, r \in Nat : y = (x \div BMAP) * BMAP /\ r = x % BMAP
    BY <1>2, <1>5
  <2>2. x = y + r
    BY <1>2, <2>1
  <2>3. b = s_data_start + y + r
    BY <1>b, <2>2
  <2> QED
    BY <2>1, <2>3
<1>7. x \div BMAP \in BmapBlks
  BY <1>2, <1>3 DEF BmapBlks
<1> QED
  BY <1>1, <1>2, <1>4, <1>6, <1>7

(* alloc_data_block takes a block that was not marked. *)
LEMMA AllocIs ==
  ASSUME TypeOK, CanAlloc,
         bmap' = [bmap EXCEPT ![Found.bb] = @ \cup {Found.ix}]
  PROVE  /\ bmap' \in [BmapBlks -> SUBSET (0..(BMAP - 1))]
         /\ BlkOf(Found) \in DataBlks /\ BlkOf(Found) \notin Marked
         /\ Marked' = Marked \cup {BlkOf(Found)}
<1> USE SfsAssumption
<1>1. bmap \in [BmapBlks -> SUBSET (0..(BMAP - 1))]
  BY DEF TypeOK
<1>2. \A k \in BmapBlks :
        /\ k \in Nat /\ k * BMAP \in Nat /\ FreeIn(k) \subseteq Nat
        /\ \A i \in FreeIn(k) : /\ i \in 0..(BMAP - 1) /\ i \notin bmap[k]
                                /\ i + k * BMAP < s_size
  <2> SUFFICES ASSUME NEW k \in BmapBlks
               PROVE  /\ k \in Nat /\ k * BMAP \in Nat /\ FreeIn(k) \subseteq Nat
                      /\ \A i \in FreeIn(k) :
                           /\ i \in 0..(BMAP - 1) /\ i \notin bmap[k]
                           /\ i + k * BMAP < s_size
    OBVIOUS
  <2>1. k \in Nat /\ k * BMAP \in Nat
    BY DEF BmapBlks
  <2>a. PICK d \in Int : d = s_size - k * BMAP
    BY <2>1
  <2>2. PICK m \in Int : /\ m = Min({BMAP, d})
                         /\ m <= BMAP /\ m <= d
    BY MinOfTwo
  <2>3. FreeIn(k) = {i \in 0..(m - 1) : i \notin bmap[k]}
    BY <2>a, <2>2 DEF FreeIn, bmap_alloc_element
  <2>4. \A i \in 0..(m - 1) : i \in 0..(BMAP - 1) /\ i + k * BMAP < s_size
    BY <2>1, <2>a, <2>2
  <2> QED
    BY <2>1, <2>3, <2>4
<1>3. /\ Found.bb \in BmapBlks /\ Found.ix \in FreeIn(Found.bb)
  <2> DEFINE K == {j \in BmapBlks : FreeIn(j) # {}}
  <2>1. K # {} /\ K \subseteq Nat
    BY <1>2 DEF CanAlloc
  <2>2. Min(K) \in K
    BY <2>1, MinIn
  <2>3. Min(FreeIn(Min(K))) \in FreeIn(Min(K))
    BY <1>2, <2>2, MinIn
  <2>4. Found.bb = Min(K) /\ Found.ix = Min(FreeIn(Min(K)))
    BY DEF Found
  <2> HIDE DEF K
  <2> QED
    BY <2>2, <2>3, <2>4 DEF K
<1>4. PICK k \in BmapBlks, i \in FreeIn(Found.bb) : k = Found.bb /\ i = Found.ix
  BY <1>3
<1>5. PICK b : b = BlkOf(Found)
  OBVIOUS
<1>6. b = s_data_start + k * BMAP + i
  BY <1>2, <1>4, <1>5 DEF BlkOf
<1>a. /\ k * BMAP \in Nat /\ i \in 0..(BMAP - 1) /\ i \notin bmap[k]
      /\ i + k * BMAP < s_size
  BY <1>2, <1>4
<1>7. b \in DataBlks
  BY <1>6, <1>a DEF DataBlks
<1>8. \A l \in BmapBlks, j \in 0..(BMAP - 1) :
        b = s_data_start + l * BMAP + j => l = k /\ j = i
  BY <1>6, <1>7, <1>a, BitIs
<1>9. b \notin Marked
  <2>1. \A l \in BmapBlks : bmap[l] \subseteq 0..(BMAP - 1)
    BY <1>1
  <2>2. i \notin bmap[k]
    BY <1>a
  <2> QED
    BY <1>1, <1>8, <2>1, <2>2, BmapIs
<1>10. bmap' \in [BmapBlks -> SUBSET (0..(BMAP - 1))]
  BY <1>1, <1>4, <1>a
<1>11. \A c : c \in Marked' <=> \E l \in BmapBlks : \E j \in bmap'[l] :
                                  c = s_data_start + l * BMAP + j
  <2>1. \A l \in BmapBlks : \A j \in bmap'[l] :
          BlkOf([bb |-> l, ix |-> j]) = s_data_start + l * BMAP + j
    BY <1>10 DEF BlkOf, BmapBlks
  <2> QED
    BY <2>1 DEF Marked, BlkOf
<1>12. \A l \in BmapBlks : bmap'[l] = IF l = k THEN bmap[k] \cup {i} ELSE bmap[l]
  BY <1>1, <1>4
<1>13. \A c : c \in Marked' <=> c \in Marked \/ c = b
  BY <1>1, <1>6, <1>11, <1>12, BmapIs
<1> QED
  BY <1>5, <1>7, <1>9, <1>10, <1>13

(* free_data_block clears the bit of its block and no other. *)
LEMMA FreeIs ==
  ASSUME TypeOK, NEW b \in DataBlks, free_data_block(b)
  PROVE  /\ bmap' \in [BmapBlks -> SUBSET (0..(BMAP - 1))]
         /\ Marked' = Marked \ {b}
<1> USE SfsAssumption
<1>1. bmap \in [BmapBlks -> SUBSET (0..(BMAP - 1))]
  BY DEF TypeOK
<1>2. PICK k \in BmapBlks, i \in 0..(BMAP - 1) :
        /\ k = (b - s_data_start) \div BMAP /\ i = (b - s_data_start) % BMAP
        /\ b = s_data_start + k * BMAP + i
        /\ \A l \in BmapBlks, j \in 0..(BMAP - 1) :
             b = s_data_start + l * BMAP + j => l = k /\ j = i
  BY BitIs
<1>3. bmap' = [bmap EXCEPT ![k] = @ \ {i}]
  BY <1>2 DEF free_data_block
<1>4. bmap' \in [BmapBlks -> SUBSET (0..(BMAP - 1))]
  BY <1>1, <1>3
<1>5. \A c : c \in Marked' <=> \E l \in BmapBlks : \E j \in bmap'[l] :
                                 c = s_data_start + l * BMAP + j
  <2>1. \A l \in BmapBlks : \A j \in bmap'[l] :
          BlkOf([bb |-> l, ix |-> j]) = s_data_start + l * BMAP + j
    BY <1>4 DEF BlkOf, BmapBlks
  <2> QED
    BY <2>1 DEF Marked, BlkOf
<1>6. \A l \in BmapBlks : bmap'[l] = IF l = k THEN bmap[k] \ {i} ELSE bmap[l]
  BY <1>1, <1>3
<1>7. \A c : c \in Marked' <=> c \in Marked /\ c # b
  <2> TAKE c
  <2>1. ASSUME c \in Marked, c # b PROVE c \in Marked'
    <3>1. PICK l \in BmapBlks, j \in 0..(BMAP - 1) :
            j \in bmap[l] /\ c = s_data_start + l * BMAP + j
      BY <1>1, <2>1, BmapIs
    <3>2. j \in bmap'[l]
      BY <1>2, <1>6, <2>1, <3>1
    <3> QED
      BY <1>5, <3>1, <3>2
  <2>2. ASSUME c \in Marked' PROVE c \in Marked /\ c # b
    <3>1. PICK l \in BmapBlks, j \in 0..(BMAP - 1) :
            j \in bmap'[l] /\ c = s_data_start + l * BMAP + j
      BY <1>4, <1>5, <2>2
    <3>2. j \in bmap[l] /\ ~(l = k /\ j = i) /\ j \in 0..(BMAP - 1)
      BY <1>1, <1>6, <3>1
    <3> QED
      BY <1>1, <1>2, <3>1, <3>2, BmapIs
  <2> QED
    BY <2>1, <2>2
<1> QED
  BY <1>4, <1>7

LEMMA MarkedSame == ASSUME bmap' = bmap PROVE Marked' = Marked
BY DEF Marked, BlkOf

-----------------------------------------------------------------------------
(* Places *)

LEMMA PlacesAre ==
  ASSUME NEW p
  PROVE  p \in Places <=>
           \E f \in inodes, a \in Addrs, j \in -1..(B - 1) :
             p = <<f, a, j>> /\ (j = -1 \/ a >= NDIRECT)
BY SfsAssumption DEF Places, Addrs

LEMMA PlaceParts ==
  ASSUME NEW p \in Places
  PROVE  /\ p = <<p[1], p[2], p[3]>>
         /\ p[1] \in inodes /\ p[2] \in Addrs /\ p[3] \in -1..(B - 1)
         /\ p[3] # -1 => p[2] >= NDIRECT
BY PlacesAre

LEMMA NodeType ==
  ASSUME TypeOK, NEW f \in Files
  PROVE  /\ Node(f) \in InodeType
         /\ Node(f).size \in 0..MAX_FILE_SIZE
         /\ Node(f).addrs \in [Addrs -> DataBlks \cup {0}]
<1>1. Node(f) \in InodeType
  BY DEF TypeOK, Node
<1> QED
  BY <1>1 DEF InodeType

LEMMA NamedIs ==
  ASSUME NEW f, NEW a, NEW j
  PROVE  NamedAt(<<f, a, j>>) = IF j = -1 THEN Node(f).addrs[a]
                                ELSE IF Node(f).addrs[a] = 0 THEN 0
                                ELSE blk[Node(f).addrs[a]][j]
BY DEF NamedAt

LEMMA MaxSize ==
  /\ MAX_FILE_SIZE \in Nat /\ MAX_FILE_SIZE = (NDIRECT + NINDIRECT * B) * B
  /\ NDIRECT + NINDIRECT * B \in Nat /\ NINDIRECT * B \in Nat
BY SfsAssumption DEF MAX_FILE_SIZE

(* The place of an offset. *)
LEMMA OffsetIs ==
  ASSUME NEW o \in 0..(MAX_FILE_SIZE - 1)
  PROVE  /\ BlkIndex(o) \in Nat /\ BlkIndex(o) * B \in Nat /\ BlkIndex(o) * B <= o
         /\ AddrIndex(o) \in Addrs
         /\ IF IsDirect(o) THEN AddrIndex(o) = BlkIndex(o) /\ AddrIndex(o) < NDIRECT
            ELSE /\ AddrIndex(o) >= NDIRECT /\ IndirOfs(o) \in 0..(B - 1)
                 /\ (AddrIndex(o) - NDIRECT) * B \in Nat
                 /\ BlkIndex(o) = NDIRECT + (AddrIndex(o) - NDIRECT) * B + IndirOfs(o)
<1> USE SfsAssumption
<1>0. PICK m \in Nat : m = NDIRECT + NINDIRECT * B /\ MAX_FILE_SIZE = m * B
  BY MaxSize
<1>a. o \in Nat /\ o < m * B
  BY <1>0, MaxSize
<1>1. PICK i \in Nat, e \in 0..(B - 1) :
        i = o \div B /\ e = o % B /\ o = i * B + e
  <2>1. o \div B \in Nat /\ o % B \in 0..(B - 1) /\ o = (o \div B) * B + (o % B)
    BY <1>a, DivMod
  <2> QED
    BY <2>1
<1>2. i = BlkIndex(o)
  BY <1>1 DEF BlkIndex
<1>3. i < NDIRECT + NINDIRECT * B
  BY <1>0, <1>a, <1>1, DivBelow
<1>4. i * B \in Nat /\ i * B <= o
  <2>1. i * B \in Nat
    OBVIOUS
  <2> QED
    BY <1>1, <2>1
<1>5. CASE IsDirect(o)
  BY <1>2, <1>4, <1>5 DEF IsDirect, AddrIndex, Addrs
<1>6. CASE ~IsDirect(o)
  <2>1. PICK d \in Nat : d = i - NDIRECT
    BY <1>2, <1>6 DEF IsDirect
  <2>2. d < NINDIRECT * B
    BY <1>3, <2>1, MaxSize
  <2>3. PICK q \in Nat, r \in 0..(B - 1) :
          q = d \div B /\ r = d % B /\ d = q * B + r
    <3>1. d \div B \in Nat /\ d % B \in 0..(B - 1) /\ d = (d \div B) * B + (d % B)
      BY DivMod
    <3> QED
      BY <3>1
  <2>4. q < NINDIRECT
    BY <2>2, <2>3, DivBelow
  <2>5. AddrIndex(o) = NDIRECT + q /\ IndirOfs(o) = r
    BY <1>2, <1>6, <2>1, <2>3 DEF AddrIndex, IndirOfs
  <2>6. q * B \in Nat /\ i = NDIRECT + q * B + r
    <3>1. PICK y \in Nat : y = q * B
      OBVIOUS
    <3>2. i = NDIRECT + y + r
      BY <2>1, <2>3, <3>1
    <3> QED
      BY <3>1, <3>2
  <2>7. AddrIndex(o) - NDIRECT = q
    BY <2>5
  <2> QED
    BY <1>2, <1>4, <1>6, <2>4, <2>5, <2>6, <2>7 DEF Addrs
<1> QED
  BY <1>5, <1>6

LEMMA PlaceOfIs ==
  ASSUME NEW f \in inodes, NEW o \in 0..(MAX_FILE_SIZE - 1)
  PROVE  /\ PlaceOf(f, o) \in Places /\ PlaceOf(f, o)[1] = f
         /\ FirstBlk(PlaceOf(f, o)) * B \in Nat /\ FirstBlk(PlaceOf(f, o)) * B <= o
         /\ NamedAt(PlaceOf(f, o)) = DataBlk(Node(f), o)
<1> USE SfsAssumption
<1>1. PICK a \in Addrs, j \in -1..(B - 1) :
        /\ PlaceOf(f, o) = <<f, a, j>> /\ (j = -1 \/ a >= NDIRECT)
        /\ a = AddrIndex(o)
        /\ IF IsDirect(o) THEN j = -1 /\ a < NDIRECT /\ a = BlkIndex(o)
           ELSE /\ a >= NDIRECT /\ j = IndirOfs(o) /\ j >= 0
                /\ BlkIndex(o) = NDIRECT + (a - NDIRECT) * B + j
  BY OffsetIs DEF PlaceOf
<1>2. <<f, a, j>> \in Places
  BY <1>1, PlacesAre
<1>3. FirstBlk(<<f, a, j>>) = BlkIndex(o)
  <2>2. CASE IsDirect(o)
    BY <1>1, <2>2 DEF FirstBlk
  <2>3. CASE ~IsDirect(o)
    <3>1. ~(a < NDIRECT) /\ j # -1
      BY <1>1, <2>3 DEF Addrs
    <3>2. FirstBlk(<<f, a, j>>) = NDIRECT + (a - NDIRECT) * B + j
      BY <3>1 DEF FirstBlk
    <3> QED
      BY <1>1, <2>3, <3>2
  <2> QED
    BY <2>2, <2>3
<1>4. NamedAt(<<f, a, j>>) = DataBlk(Node(f), o)
  BY <1>1, NamedIs DEF DataBlk
<1> QED
  BY <1>1, <1>2, <1>3, <1>4, OffsetIs

(* The address on the way to the block of an offset. *)
LEMMA AddrOfIs ==
  ASSUME NEW f \in inodes, NEW o \in 0..(MAX_FILE_SIZE - 1)
  PROVE  /\ <<f, AddrIndex(o), -1>> \in Places
         /\ FirstBlk(<<f, AddrIndex(o), -1>>) * B \in Nat
         /\ FirstBlk(<<f, AddrIndex(o), -1>>) * B <= o
         /\ NamedAt(<<f, AddrIndex(o), -1>>) = Node(f).addrs[AddrIndex(o)]
<1> USE SfsAssumption
<1>1. PICK a \in Addrs : a = AddrIndex(o)
  BY OffsetIs
<1>2. <<f, a, -1>> \in Places
  <2>1. -1 \in -1..(B - 1)
    OBVIOUS
  <2> QED
    BY <2>1, PlacesAre
<1>3. PICK n \in Nat : n = FirstBlk(<<f, a, -1>>) /\ n <= BlkIndex(o)
  <2>1. CASE IsDirect(o)
    BY <1>1, <2>1, OffsetIs DEF FirstBlk
  <2>2. CASE ~IsDirect(o)
    <3>1. PICK q \in Nat : q = (a - NDIRECT) * B
      BY <1>1, <2>2, OffsetIs
    <3>2. /\ a >= NDIRECT /\ BlkIndex(o) = NDIRECT + q + IndirOfs(o)
          /\ IndirOfs(o) \in 0..(B - 1)
      BY <1>1, <2>2, <3>1, OffsetIs
    <3>3. FirstBlk(<<f, a, -1>>) = NDIRECT + q
      BY <3>1, <3>2 DEF FirstBlk, Addrs
    <3> QED
      BY <3>2, <3>3
  <2> QED
    BY <2>1, <2>2
<1>4. n * B <= BlkIndex(o) * B /\ n * B \in Nat /\ BlkIndex(o) * B \in Nat
  BY <1>3, OffsetIs, TimesMono
<1> QED
  BY <1>1, <1>2, <1>3, <1>4, OffsetIs, NamedIs

LEMMA FirstBlkNat ==
  ASSUME NEW p \in Places
  PROVE  FirstBlk(p) \in Nat /\ FirstBlk(p) * B \in Nat
<1> USE SfsAssumption
<1>1. p[2] \in Nat /\ p[3] \in -1..(B - 1)
  BY PlaceParts DEF Addrs
<1>2. CASE p[2] < NDIRECT
  BY <1>1, <1>2 DEF FirstBlk
<1>3. CASE ~(p[2] < NDIRECT)
  <2>1. PICK d \in Nat : d = p[2] - NDIRECT
    BY <1>1, <1>3
  <2>2. d * B \in Nat
    OBVIOUS
  <2>3. FirstBlk(p) \in Nat
    BY <1>1, <1>3, <2>1, <2>2 DEF FirstBlk
  <2> QED
    BY <2>3
<1> QED
  BY <1>2, <1>3

-----------------------------------------------------------------------------
(* Blocks and their names *)

(* A step that changes neither names nor marks. *)
LEMMA NamesKept ==
  ASSUME Names, BlocksOwned, NoLeak, inodes' = inodes, Marked' = Marked,
         failed => failed', \A p \in Places : NamedAt(p)' = NamedAt(p)
  PROVE  Names' /\ BlocksOwned' /\ NoLeak'
<1>1. Places' = Places
  BY DEF Places, Addrs
<1>2. Used' = Used
  BY <1>1 DEF Used
<1>3. Names'
  BY <1>1 DEF Names, DataBlks
<1>4. Used \subseteq Places
  BY DEF Used
<1>5. BlocksOwned'
  BY <1>2, <1>4 DEF BlocksOwned
<1>6. NoLeak'
  <2>1. {NamedAt(p)' : p \in Used'} = {NamedAt(p) : p \in Used}
    BY <1>2, <1>4
  <2> QED
    BY <2>1 DEF NoLeak
<1> QED
  BY <1>3, <1>5, <1>6

(* A step that names an allocated block in a free place. *)
LEMMA NameNew ==
  ASSUME Names, BlocksOwned, NoLeak, inodes' = inodes,
         NEW b \in DataBlks, b \notin Marked, Marked' = Marked \cup {b},
         failed => failed',
         NEW q \in Places, NamedAt(q) = 0, NamedAt(q)' = b,
         \A p \in Places : p # q => NamedAt(p)' = NamedAt(p)
  PROVE  Names' /\ BlocksOwned' /\ NoLeak'
<1>1. Places' = Places
  BY DEF Places, Addrs
<1>2. b # 0
  BY SfsAssumption DEF DataBlks
<1>3. Used' = Used \cup {q} /\ q \notin Used /\ Used \subseteq Places
  BY <1>1, <1>2 DEF Used
<1>4. Names'
  BY <1>1 DEF Names, DataBlks
<1>5. \A p \in Used : NamedAt(p)' = NamedAt(p) /\ NamedAt(p) \in Marked
  BY <1>3 DEF BlocksOwned
<1>6. BlocksOwned'
  <2>1. \A p \in Used' : NamedAt(p)' \in Marked'
    BY <1>3, <1>5
  <2>2. ASSUME NEW p \in Used', NEW r \in Used', NamedAt(p)' = NamedAt(r)'
        PROVE  p = r
    <3>1. CASE p = q \/ r = q
      BY <1>3, <1>5, <2>2, <3>1
    <3>2. CASE p # q /\ r # q
      BY <1>3, <1>5, <2>2, <3>2 DEF BlocksOwned
    <3> QED
      BY <3>1, <3>2
  <2> QED
    BY <2>1, <2>2 DEF BlocksOwned
<1>7. NoLeak'
  <2>1. {NamedAt(p)' : p \in Used'} = {NamedAt(p) : p \in Used} \cup {b}
    BY <1>3, <1>5
  <2> QED
    BY <2>1 DEF NoLeak
<1> QED
  BY <1>4, <1>6, <1>7

(* A step that frees the block of a place. *)
LEMMA NameGone ==
  ASSUME Names, BlocksOwned, NoLeak, inodes' = inodes,
         NEW q \in Used, Marked' = Marked \ {NamedAt(q)}, NamedAt(q)' = 0,
         \A p \in Places : NamedAt(p)' \in {NamedAt(p), 0},
         failed => failed',
         ~failed => \A p \in Places : p # q => NamedAt(p)' = NamedAt(p)
  PROVE  Names' /\ BlocksOwned' /\ NoLeak'
<1>1. Places' = Places
  BY DEF Places, Addrs
<1>2. Used' \subseteq Used \ {q} /\ Used \subseteq Places
  BY <1>1 DEF Used
<1>3. Names'
  BY <1>1 DEF Names, DataBlks
<1>4. \A p \in Used' : NamedAt(p)' = NamedAt(p)
  BY <1>1 DEF Used
<1>5. \A p \in Used \ {q} : NamedAt(p) # NamedAt(q)
  BY DEF BlocksOwned
<1>6. BlocksOwned'
  BY <1>2, <1>4, <1>5 DEF BlocksOwned
<1>7. ASSUME ~failed PROVE Marked' = {NamedAt(p)' : p \in Used'}
  <2>1. Used' = Used \ {q}
    BY <1>1, <1>7 DEF Used
  <2>2. {NamedAt(p)' : p \in Used'} = {NamedAt(p) : p \in Used \ {q}}
    BY <1>4, <2>1
  <2>3. {NamedAt(p) : p \in Used \ {q}} = {NamedAt(p) : p \in Used} \ {NamedAt(q)}
    BY <1>5
  <2> QED
    BY <1>7, <2>2, <2>3 DEF NoLeak
<1> QED
  BY <1>3, <1>6, <1>7 DEF NoLeak

(* No address and no entry changes. *)
LEMMA SameNames ==
  ASSUME TypeOK, blk' = blk, \A g \in Files : Node(g)'.addrs = Node(g).addrs
  PROVE  \A p \in Places : NamedAt(p)' = NamedAt(p)
<1> SUFFICES ASSUME NEW p \in Places PROVE NamedAt(p)' = NamedAt(p)
  OBVIOUS
<1>1. p[1] \in Files
  BY PlaceParts DEF TypeOK
<1>2. Node(p[1])'.addrs = Node(p[1]).addrs
  BY <1>1
<1> QED
  BY <1>2 DEF NamedAt

(* A write to the block of a word changes no entry of an indirect block.   *)
LEMMA StoredNames ==
  ASSUME TypeOK, BlocksOwned, NEW f \in inodes, NEW o \in 0..(MAX_FILE_SIZE - 1),
         NEW n, NEW x, DataBlk(Node(f), o) # 0,
         blk' = Stored(DataBlk(Node(f), o), o, n, x),
         \A g \in Files : Node(g)'.addrs = Node(g).addrs
  PROVE  \A p \in Places : NamedAt(p)' = NamedAt(p)
<1> SUFFICES ASSUME NEW p \in Places PROVE NamedAt(p)' = NamedAt(p)
  OBVIOUS
<1>1. p = <<p[1], p[2], p[3]>> /\ p[1] \in inodes /\ p[2] \in Addrs
      /\ p[3] \in -1..(B - 1) /\ (p[3] # -1 => p[2] >= NDIRECT)
      /\ p[1] \in Files
  BY PlaceParts DEF TypeOK
<1>2. Node(p[1])'.addrs = Node(p[1]).addrs
  BY <1>1
<1>3. CASE p[3] = -1 \/ Node(p[1]).addrs[p[2]] = 0
  BY <1>2, <1>3 DEF NamedAt
<1>4. CASE p[3] # -1 /\ Node(p[1]).addrs[p[2]] # 0
  <2>1. PICK q \in Places : q = <<p[1], p[2], -1>>
    <3>1. -1 \in -1..(B - 1)
      BY SfsAssumption
    <3> QED
      BY <1>1, <3>1, PlacesAre
  <2>2. NamedAt(q) = Node(p[1]).addrs[p[2]] /\ q \in Used
    BY <1>4, <2>1, NamedIs DEF Used
  <2>3. PlaceOf(f, o) \in Used /\ NamedAt(PlaceOf(f, o)) = DataBlk(Node(f), o)
    BY PlaceOfIs DEF Used
  <2>4. PlaceOf(f, o) # q
    BY <1>1, <1>4, <2>1, OffsetIs, SfsAssumption DEF PlaceOf, Addrs
  <2>5. NamedAt(q) # DataBlk(Node(f), o)
    BY <2>2, <2>3, <2>4 DEF BlocksOwned
  <2>6. Node(p[1]).addrs[p[2]] \in DataBlks
    BY <1>1, <1>4, NodeType
  <2>7. blk'[Node(p[1]).addrs[p[2]]] = blk[Node(p[1]).addrs[p[2]]]
    BY <2>2, <2>5, <2>6 DEF Stored, TypeOK
  <2> QED
    BY <1>2, <1>4, <2>7 DEF NamedAt
<1> QED
  BY <1>3, <1>4

LEMMA FoundIs ==
  ASSUME TypeOK, NEW c, alloc_data_block(c)
  PROVE  /\ bmap' \in [BmapBlks -> SUBSET (0..(BMAP - 1))]
         /\ BlkOf(Found) \in DataBlks /\ BlkOf(Found) \notin Marked
         /\ Marked' = Marked \cup {BlkOf(Found)}
         /\ blk' = [c EXCEPT ![BlkOf(Found)] = ZeroBlk]
BY AllocIs DEF alloc_data_block

LEMMA ZeroBlkIs ==
  /\ ZeroBlk \in [0..(B - 1) -> Nat]
  /\ \A j \in -1..(B - 1) : j # -1 => ZeroBlk[j] = 0
BY SfsAssumption DEF ZeroBlk

(* An address that is not 0 names a block of its own. *)
LEMMA AddrOwned ==
  ASSUME TypeOK, BlocksOwned, NEW f \in inodes, NEW a \in Addrs,
         Node(f).addrs[a] # 0
  PROVE  /\ <<f, a, -1>> \in Used /\ NamedAt(<<f, a, -1>>) = Node(f).addrs[a]
         /\ Node(f).addrs[a] \in DataBlks /\ Node(f).addrs[a] \in Marked
<1>1. <<f, a, -1>> \in Places
  <2>1. -1 \in -1..(B - 1)
    BY SfsAssumption
  <2> QED
    BY <2>1, PlacesAre
<1>2. NamedAt(<<f, a, -1>>) = Node(f).addrs[a]
  BY NamedIs
<1>3. <<f, a, -1>> \in Used
  BY <1>1, <1>2 DEF Used
<1>4. Node(f).addrs[a] \in DataBlks
  BY NodeType DEF TypeOK
<1> QED
  BY <1>2, <1>3, <1>4 DEF BlocksOwned

(* An address of an inode gets a block, which names nothing yet. *)
LEMMA AllocAddrNames ==
  ASSUME TypeOK, Names, BlocksOwned, NoLeak, NEW f \in inodes, NEW a \in Addrs,
         Node(f).addrs[a] = 0, alloc_data_block(blk),
         UNCHANGED <<inodes, failed>>,
         \A g \in Files : Node(g)'.addrs =
           IF g = f THEN [Node(f).addrs EXCEPT ![a] = BlkOf(Found)]
           ELSE Node(g).addrs
  PROVE  /\ Names' /\ BlocksOwned' /\ NoLeak'
         /\ NamedAt(<<f, a, -1>>)' = BlkOf(Found)
         /\ \A p \in Places : p # <<f, a, -1>> => NamedAt(p)' = NamedAt(p)
         /\ blk' \in [DataBlks -> [0..(B - 1) -> Nat]]
<1>0. PICK b \in DataBlks : b = BlkOf(Found)
  BY FoundIs
<1>1. b \notin Marked /\ Marked' = Marked \cup {b} /\ blk' = [blk EXCEPT ![b] = ZeroBlk]
  BY <1>0, FoundIs
<1>2. blk \in [DataBlks -> [0..(B - 1) -> Nat]] /\ inodes \subseteq Files
  BY DEF TypeOK
<1>3. PICK q \in Places : q = <<f, a, -1>>
  <2>1. -1 \in -1..(B - 1)
    BY SfsAssumption
  <2> QED
    BY <2>1, PlacesAre
<1>4. NamedAt(q) = 0
  BY <1>3, NamedIs
<1>5. Node(f)'.addrs[a] = b
  BY <1>0, <1>2, NodeType
<1>6. NamedAt(q)' = b
  BY <1>3, <1>5 DEF NamedAt
<1>7. ASSUME NEW p \in Places, p # q PROVE NamedAt(p)' = NamedAt(p)
  <2>1. PICK g \in inodes, c \in Addrs, j \in -1..(B - 1) : p = <<g, c, j>>
    BY PlacesAre
  <2>2. g \in Files /\ Node(g).addrs \in [Addrs -> DataBlks \cup {0}]
    BY <1>2, NodeType
  <2>3. CASE g = f /\ c = a
    <3>1. j # -1
      BY <1>3, <1>7, <2>1, <2>3
    <3>2. NamedAt(p) = 0
      BY <2>1, <2>3, <3>1, NamedIs
    <3>3. blk'[b][j] = 0
      BY <1>1, <1>2, <3>1, ZeroBlkIs
    <3>4. NamedAt(p)' = 0
      BY <1>5, <2>1, <2>3, <3>1, <3>3 DEF NamedAt
    <3> QED
      BY <3>2, <3>4
  <2>4. CASE ~(g = f /\ c = a)
    <3>1. Node(g)'.addrs[c] = Node(g).addrs[c]
      BY <2>2, <2>4
    <3>2. CASE j = -1 \/ Node(g).addrs[c] = 0
      BY <2>1, <3>1, <3>2 DEF NamedAt
    <3>3. CASE j # -1 /\ Node(g).addrs[c] # 0
      <4>1. Node(g).addrs[c] # b /\ Node(g).addrs[c] \in DataBlks
        BY <1>1, <3>3, AddrOwned
      <4>2. blk'[Node(g).addrs[c]] = blk[Node(g).addrs[c]]
        BY <1>1, <1>2, <4>1
      <4> QED
        BY <2>1, <3>1, <3>3, <4>2 DEF NamedAt
    <3> QED
      BY <3>2, <3>3
  <2> QED
    BY <2>3, <2>4
<1>8. Names' /\ BlocksOwned' /\ NoLeak'
  BY <1>1, <1>4, <1>6, <1>7, NameNew
<1>9. blk' \in [DataBlks -> [0..(B - 1) -> Nat]]
  BY <1>1, <1>2, ZeroBlkIs
<1> QED
  BY <1>0, <1>3, <1>6, <1>7, <1>8, <1>9

(* An entry of an indirect block gets a block. *)
LEMMA AllocEntryNames ==
  ASSUME TypeOK, Names, BlocksOwned, NoLeak, NEW f \in inodes, NEW a \in Addrs,
         a >= NDIRECT, NEW j \in 0..(B - 1), NEW d \in DataBlks,
         d = Node(f).addrs[a], blk[d][j] = 0,
         alloc_data_block([blk EXCEPT ![d][j] = BlkOf(Found)]),
         UNCHANGED <<inodes, failed>>,
         \A g \in Files : Node(g)'.addrs = Node(g).addrs
  PROVE  /\ Names' /\ BlocksOwned' /\ NoLeak'
         /\ NamedAt(<<f, a, j>>)' = BlkOf(Found)
         /\ \A p \in Places : p # <<f, a, j>> => NamedAt(p)' = NamedAt(p)
         /\ blk' \in [DataBlks -> [0..(B - 1) -> Nat]]
<1>0. PICK b \in DataBlks : b = BlkOf(Found)
  BY FoundIs
<1>1. /\ b \notin Marked /\ Marked' = Marked \cup {b}
      /\ blk' = [[blk EXCEPT ![d][j] = b] EXCEPT ![b] = ZeroBlk]
  BY <1>0, FoundIs
<1>2. blk \in [DataBlks -> [0..(B - 1) -> Nat]] /\ inodes \subseteq Files
      /\ b \in Nat
  BY SfsAssumption DEF TypeOK, DataBlks
<1>3. j # -1 /\ j \in -1..(B - 1) /\ d # 0 /\ b # 0
  BY SfsAssumption DEF DataBlks
<1>4. PICK q \in Places : q = <<f, a, j>>
  BY <1>3, PlacesAre
<1>5. NamedAt(q) = 0
  BY <1>3, <1>4, NamedIs
<1>6. d # b /\ d = NamedAt(<<f, a, -1>>) /\ <<f, a, -1>> \in Used
  BY <1>1, <1>3, AddrOwned
<1>7. /\ blk' \in [DataBlks -> [0..(B - 1) -> Nat]]
      /\ blk'[d] = [blk[d] EXCEPT ![j] = b]
      /\ \A e \in DataBlks : e # b /\ e # d => blk'[e] = blk[e]
  BY <1>1, <1>2, <1>6, ZeroBlkIs
<1>8. blk'[d][j] = b
  BY <1>2, <1>7
<1>9. Node(f)'.addrs[a] = d
  BY <1>2
<1>10. NamedAt(q)' = b
  BY <1>3, <1>4, <1>8, <1>9 DEF NamedAt
<1>11. ASSUME NEW p \in Places, p # q PROVE NamedAt(p)' = NamedAt(p)
  <2>1. PICK g \in inodes, c \in Addrs, i \in -1..(B - 1) : p = <<g, c, i>>
    BY PlacesAre
  <2>2. Node(g)'.addrs[c] = Node(g).addrs[c]
    BY <1>2
  <2>3. CASE i = -1 \/ Node(g).addrs[c] = 0
    BY <2>1, <2>2, <2>3 DEF NamedAt
  <2>4. CASE i # -1 /\ Node(g).addrs[c] # 0
    <3>1. PICK e \in DataBlks : /\ e = Node(g).addrs[c] /\ e # b
                                /\ <<g, c, -1>> \in Used /\ NamedAt(<<g, c, -1>>) = e
      BY <1>1, <2>4, AddrOwned
    <3>2. blk'[e][i] = blk[e][i]
      <4>1. CASE e # d
        BY <1>7, <3>1, <4>1
      <4>2. CASE e = d
        <5>1. <<g, c, -1>> = <<f, a, -1>>
          BY <1>6, <3>1, <4>2 DEF BlocksOwned
        <5>2. i # j /\ i \in 0..(B - 1)
          BY <1>4, <1>11, <2>1, <2>4, <5>1, SfsAssumption
        <5>3. blk[d] \in [0..(B - 1) -> Nat]
          BY <1>2
        <5>4. [blk[d] EXCEPT ![j] = b][i] = blk[d][i]
          BY <5>2, <5>3
        <5>5. blk'[d] = [blk[d] EXCEPT ![j] = b]
          BY <1>7
        <5> QED
          BY <4>2, <5>4, <5>5
      <4> QED
        BY <4>1, <4>2
    <3> QED
      BY <2>1, <2>2, <2>4, <3>1, <3>2 DEF NamedAt
  <2> QED
    BY <2>3, <2>4
<1>12. Names' /\ BlocksOwned' /\ NoLeak'
  BY <1>1, <1>5, <1>10, <1>11, NameNew
<1> QED
  BY <1>0, <1>4, <1>7, <1>10, <1>11, <1>12

-----------------------------------------------------------------------------
(* Files *)

LEMMA OpIs ==
  ASSUME TypeOK, NEW f \in Files
  PROVE  /\ op[f].k \in {"idle", "stuck", "mkfs", "write", "delete"}
         /\ op[f].k = "idle" <=> op[f] = Idle
         /\ op[f].k = "stuck" <=> op[f] = [k |-> "stuck"]
         /\ op[f].k = "mkfs" <=> op[f] \in [k : {"mkfs"}, x : Input, left : Nat]
         /\ op[f].k = "write" <=>
              op[f] \in [k : {"write"}, ofs : Nat, left : Nat, x : Vals]
         /\ op[f].k = "delete" <=>
              op[f] \in [k : {"delete"}, size : Nat, index : Nat, indir : -1..B]
<1>1. op[f] \in OpType
  BY DEF TypeOK
<1> QED
  BY <1>1 DEF OpType, Idle

LEMMA EndIs ==
  ASSUME TypeOK, NEW f \in Files, OpSound(f)
  PROVE  End(f) \in 0..MAX_FILE_SIZE
<1>1. op[f].k = "write" => op[f].ofs \in 0..MAX_FILE_SIZE
  <2>1. op[f].k = "write" => op[f].ofs \in Nat
    BY OpIs
  <2> QED
    BY <2>1, MaxSize DEF OpSound
<1> QED
  BY <1>1, NodeType DEF End

(* A step of another file. *)
LEMMA OtherFile ==
  ASSUME TypeOK, NEW g \in Files, FileInv(g), UNCHANGED mounted,
         failed => failed',
         \A p \in Places : p[1] = g => NamedAt(p)' = NamedAt(p),
         g \in inodes' <=> g \in inodes, g \in unlinked' <=> g \in unlinked,
         g \in dirty' <=> g \in dirty,
         op'[g] = op[g], ino'[g] = ino[g], dino'[g] = dino[g], pos'[g] = pos[g]
  PROVE  FileInv(g)'
<1>1. Node(g)' = Node(g) /\ End(g)' = End(g)
  BY DEF Node, End
<1>2. \A p : p[1] = g => (p \in Places' <=> p \in Places)
  BY DEF Places, Addrs
<1>3. \A p : p[1] = g => (p \in Used' <=> p \in Used)
  BY <1>2 DEF Used
<1>4. OpSound(g)' /\ Saved(g)'
  BY <1>1 DEF FileInv, OpSound, Saved, MAX_FILE_SIZE
<1>5. HoleFree(g)'
  <2> SUFFICES ASSUME g \in inodes \ unlinked, NEW o \in 0..(End(g) - 1)
               PROVE  NamedAt(PlaceOf(g, o))' # 0
    BY <1>1 DEF HoleFree, PlaceOf, AddrIndex, IsDirect, BlkIndex, IndirOfs
  <2>1. o \in 0..(MAX_FILE_SIZE - 1)
    BY MaxSize, EndIs DEF FileInv
  <2>2. PlaceOf(g, o) \in Places /\ PlaceOf(g, o)[1] = g
    BY <2>1, PlaceOfIs
  <2> QED
    BY <2>2 DEF FileInv, HoleFree
<1>6. Exact(g)'
  BY <1>1, <1>3 DEF FileInv, Exact, Asked, FirstBlk
<1>7. Deletes(g)'
  <2>1. unlinked \subseteq inodes
    BY DEF TypeOK
  <2>2. ASSUME g \in unlinked, op[g].k = "delete", op[g].indir >= 0
        PROVE  \A j \in 0..(op[g].indir - 1) :
                 NamedAt(<<g, NDIRECT, j>>)' = NamedAt(<<g, NDIRECT, j>>)
    <3> TAKE j \in 0..(op[g].indir - 1)
    <3>1. op[g].indir \in -1..B
      BY <2>2 DEF TypeOK, OpType, Idle
    <3>2. NDIRECT \in Addrs /\ j \in -1..(B - 1) /\ NDIRECT >= NDIRECT
      BY <3>1, SfsAssumption DEF Addrs
    <3>3. <<g, NDIRECT, j>> \in Places
      BY <2>1, <2>2, <3>2, PlacesAre
    <3> QED
      BY <3>3
  <2> QED
    BY <2>2 DEF FileInv, Deletes, AtAddr, AtEntry, AtEnd, AddrsGone, Addrs
<1> QED
  BY <1>4, <1>5, <1>6, <1>7 DEF FileInv

(* A step of a file that changes no name. *)
LEMMA SameFile ==
  ASSUME TypeOK, TypeOK', NEW f \in Files, FileInv(f), UNCHANGED inodes,
         failed => failed', \A p \in Places : NamedAt(p)' = NamedAt(p),
         OpSound(f)', Saved(f)', Deletes(f)',
         f \in inodes \ unlinked' =>
           \A o \in 0..(End(f)' - 1) : /\ o \in 0..(MAX_FILE_SIZE - 1)
                                       /\ NamedAt(PlaceOf(f, o)) # 0,
         ~failed' => \A o \in Nat : Asked(f, o) => Asked(f, o)'
  PROVE  FileInv(f)'
<1>1. Places' = Places
  BY DEF Places, Addrs
<1>2. Used' = Used /\ Used \subseteq Places
  BY <1>1 DEF Used
<1>3. HoleFree(f)'
  <2> SUFFICES ASSUME f \in inodes \ unlinked', NEW o \in 0..(End(f)' - 1)
               PROVE  NamedAt(PlaceOf(f, o))' # 0
    BY DEF HoleFree, PlaceOf, AddrIndex, IsDirect, BlkIndex, IndirOfs
  <2>1. PlaceOf(f, o) \in Places
    BY PlaceOfIs
  <2> QED
    BY <2>1
<1>4. Exact(f)'
  <2> SUFFICES ASSUME ~failed', NEW p \in Used, p[1] = f
               PROVE  Asked(f, FirstBlk(p) * B)'
    BY <1>2 DEF Exact
  <2>1. Asked(f, FirstBlk(p) * B)
    BY DEF FileInv, Exact
  <2>2. FirstBlk(p) * B \in Nat
    BY <1>2, FirstBlkNat
  <2> QED
    BY <2>1, <2>2 DEF FirstBlk, Asked
<1> QED
  BY <1>3, <1>4 DEF FileInv

(* An action on one file that changes no name and no mark. *)
LEMMA QuietStep ==
  ASSUME Inv, TypeOK', NEW f \in Files, UNCHANGED <<blk, bmap, inodes, mounted>>,
         failed => failed',
         Node(f)'.addrs = Node(f).addrs,
         \A g \in Files \ {f} :
           /\ g \in unlinked' <=> g \in unlinked
           /\ g \in dirty' <=> g \in dirty
           /\ op'[g] = op[g] /\ ino'[g] = ino[g] /\ dino'[g] = dino[g]
           /\ pos'[g] = pos[g],
         OpSound(f)', Saved(f)', Deletes(f)',
         f \in inodes \ unlinked' => f \in inodes \ unlinked /\ End(f)' \in 0..End(f),
         ~failed' => \A o \in Nat : Asked(f, o) => Asked(f, o)'
  PROVE  Inv'
<1>1. TypeOK /\ Names /\ BlocksOwned /\ NoLeak /\ \A g \in Files : FileInv(g)
  BY DEF Inv
<1>a. \A g \in Files : Node(g)'.addrs = Node(g).addrs
  BY DEF Node
<1>2. \A p \in Places : NamedAt(p)' = NamedAt(p)
  BY <1>1, <1>a, SameNames
<1>3. Names' /\ BlocksOwned' /\ NoLeak'
  BY <1>1, <1>2, MarkedSame, NamesKept
<1>4. FileInv(f)'
  <2>1. ASSUME f \in inodes \ unlinked', NEW o \in 0..(End(f)' - 1)
        PROVE  o \in 0..(MAX_FILE_SIZE - 1) /\ NamedAt(PlaceOf(f, o)) # 0
    <3>1. End(f) \in 0..MAX_FILE_SIZE /\ HoleFree(f)
      BY <1>1, EndIs DEF FileInv
    <3>2. o \in 0..(End(f) - 1) /\ o \in 0..(MAX_FILE_SIZE - 1)
      BY <2>1, <3>1, MaxSize
    <3> QED
      BY <2>1, <3>1, <3>2 DEF HoleFree
  <2> QED
    BY <1>1, <1>2, <2>1, SameFile
<1>5. \A g \in Files \ {f} : FileInv(g)'
  BY <1>1, <1>2, OtherFile
<1> QED
  BY <1>3, <1>4, <1>5 DEF Inv

-----------------------------------------------------------------------------
(* Actions that change no name *)

LEMMA inode_appendInv ==
  ASSUME Inv, NEW f \in Files, NEW x \in Input, NEW n \in Counts,
         inode_append(f, x, n)
  PROVE  Inv'
<1> USE DEF inode_append
<1>0. TypeOK /\ FileInv(f) /\ n \in Nat /\ n > 0
  BY SfsAssumption DEF Inv
<1>a. op'[f] = [k |-> "mkfs", x |-> x, left |-> n]
  BY <1>0 DEF TypeOK
<1>1. /\ TypeOK /\ FileInv(f) /\ f \in inodes /\ op[f] = Idle /\ n \in Nat /\ n > 0
      /\ op'[f] = [k |-> "mkfs", x |-> x, left |-> n]
  BY <1>0, <1>a
<1>2. TypeOK'
  BY <1>1 DEF TypeOK, OpType, InodeType, MAX_FILE_SIZE, DataBlks, Addrs, BmapBlks
<1>3. Node(f)' = Node(f) /\ End(f)' = End(f) /\ End(f) \in Nat
  <2>1. Node(f)' = Node(f)
    BY DEF Node
  <2>2. End(f) = Node(f).size /\ End(f)' = Node(f).size
    BY <1>1, <2>1 DEF End, Idle
  <2> QED
    BY <1>1, <2>1, <2>2, NodeType
<1>4. OpSound(f)' /\ Saved(f)' /\ Deletes(f)'
  BY <1>1, <1>3 DEF FileInv, OpSound, Saved, Deletes, MAX_FILE_SIZE, Idle
<1>5. \A o \in Nat : Asked(f, o) => Asked(f, o)'
  BY <1>1, <1>3 DEF Asked, Idle
<1> QED
  BY <1>1, <1>2, <1>3, <1>4, <1>5, QuietStep DEF TypeOK

LEMMA OpenInv == ASSUME Inv, NEW f \in Files, Open(f) PROVE Inv'
<1> USE DEF Open
<1>1. TypeOK /\ FileInv(f)
  BY DEF Inv
<1>2. TypeOK'
  BY <1>1, MaxSize DEF TypeOK, OpType, InodeType, MAX_FILE_SIZE, DataBlks, Addrs, BmapBlks
<1>3. Node(f)' = Node(f) /\ End(f)' = End(f) /\ End(f) \in Nat
  BY <1>1, EndIs DEF Node, End, FileInv
<1>4. Node(f).size \in Nat /\ pos'[f] = 0
  BY <1>1, NodeType DEF TypeOK
<1>5. OpSound(f)' /\ Saved(f)' /\ Deletes(f)'
  BY <1>1, <1>3, <1>4 DEF FileInv, OpSound, Saved, Deletes, MAX_FILE_SIZE,
     AtAddr, AtEntry, AtEnd, AddrsGone, Ready
<1>6. \A o \in Nat : Asked(f, o) => Asked(f, o)'
  BY <1>3 DEF Asked
<1>7. \A g \in Files \ {f} : pos'[g] = pos[g]
  BY <1>1 DEF TypeOK
<1> QED
  BY <1>1, <1>2, <1>3, <1>5, <1>6, <1>7, QuietStep

LEMMA sfs_readInv ==
  ASSUME Inv, NEW f \in Files, NEW n \in Counts, sfs_read(f, n) PROVE Inv'
<1> USE DEF sfs_read, Ready, Running
<1>1. TypeOK /\ FileInv(f) /\ n \in Nat /\ f \in inodes \ unlinked /\ mounted
  BY SfsAssumption DEF Inv
<1>2. /\ Node(f) = ino[f] /\ pos[f] \in Nat /\ ino[f].size \in 0..MAX_FILE_SIZE
      /\ pos[f] <= ino[f].size
  <2>1. Node(f) = ino[f]
    BY <1>1 DEF Node
  <2> QED
    BY <1>1, <2>1, NodeType DEF TypeOK, FileInv, OpSound
<1>3. PICK s \in read_data(f, n, pos[f]) : pos' = [pos EXCEPT ![f] = @ + Len(s)]
  OBVIOUS
<1>4. Len(s) \in Nat /\ pos[f] + Len(s) <= ino[f].size
  <2>1. PICK d \in Int : d = ino[f].size - pos[f]
    BY <1>2, MaxSize
  <2>2. Min({n, d}) \in Int /\ Min({n, d}) <= d
    BY <1>1, <2>1, MinOfTwo
  <2>3. PICK e \in pos[f]..(pos[f] + Min({n, d})) :
          s = [i \in 1..(e - pos[f]) |->
                 blk[DataBlk(ino[f], pos[f] + i - 1)][(pos[f] + i - 1) % B]]
    BY <2>1 DEF read_data
  <2>4. PICK l \in Nat : l = e - pos[f] /\ pos[f] + l <= ino[f].size
    BY <1>2, <2>1, <2>2, <2>3, MaxSize
  <2>5. Len(s) = l
    BY <2>3, <2>4
  <2> QED
    BY <2>4, <2>5
<1>5. pos'[f] = pos[f] + Len(s) /\ pos'[f] \in 0..MAX_FILE_SIZE /\ pos'[f] <= ino[f].size
  BY <1>1, <1>2, <1>3, <1>4, MaxSize DEF TypeOK
<1>6. TypeOK'
  BY <1>1, <1>3, <1>5
     DEF TypeOK, OpType, InodeType, MAX_FILE_SIZE, DataBlks, Addrs, BmapBlks
<1>7. Node(f)' = Node(f) /\ End(f)' = End(f) /\ End(f) \in Nat
  BY <1>1, EndIs DEF Node, End, FileInv
<1>8. OpSound(f)' /\ Saved(f)' /\ Deletes(f)'
  BY <1>1, <1>2, <1>5, <1>7 DEF FileInv, OpSound, Saved, Deletes, MAX_FILE_SIZE
<1>9. \A o \in Nat : Asked(f, o) => Asked(f, o)'
  BY <1>7 DEF Asked
<1>10. \A g \in Files \ {f} : pos'[g] = pos[g]
  BY <1>1, <1>3 DEF TypeOK
<1> QED
  BY <1>1, <1>6, <1>7, <1>8, <1>9, <1>10, QuietStep

LEMMA sfs_writeInv ==
  ASSUME Inv, NEW f \in Files, NEW x \in Vals, NEW n \in Counts, sfs_write(f, x, n)
  PROVE  Inv'
<1> USE DEF sfs_write, Ready, Running
<1>1. /\ TypeOK /\ FileInv(f) /\ n \in Nat /\ f \in inodes \ unlinked /\ mounted
      /\ op[f] = Idle
  BY SfsAssumption DEF Inv
<1>2. /\ Node(f) = ino[f] /\ pos[f] \in Nat /\ ino[f].size \in Nat
      /\ pos[f] <= ino[f].size /\ pos[f] <= MAX_FILE_SIZE
  <2>1. Node(f) = ino[f]
    BY <1>1 DEF Node
  <2> QED
    BY <1>1, <2>1, NodeType, MaxSize DEF TypeOK, FileInv, OpSound
<1>3. op'[f] = [k |-> "write", ofs |-> pos[f], left |-> n, x |-> x]
  BY <1>1 DEF TypeOK
<1>4. TypeOK'
  <2>1. op' \in [Files -> OpType]
    BY <1>1, <1>2 DEF TypeOK, OpType
  <2>2. calls' \in 0..MaxCalls
    BY <1>1, SfsAssumption DEF TypeOK
  <2> QED
    BY <1>1, <2>1, <2>2
       DEF TypeOK, OpType, InodeType, MAX_FILE_SIZE, DataBlks, Addrs, BmapBlks
<1>5. Node(f)' = Node(f) /\ End(f)' = End(f) /\ End(f) \in Nat
  <2>1. Node(f)' = Node(f)
    BY DEF Node
  <2> QED
    BY <1>1, <1>2, <1>3, <2>1, EndIs DEF End, FileInv, Idle
<1>6. OpSound(f)' /\ Saved(f)' /\ Deletes(f)'
  BY <1>1, <1>2, <1>3, <1>5 DEF FileInv, OpSound, Saved, Deletes, MAX_FILE_SIZE
<1>7. \A o \in Nat : Asked(f, o) => Asked(f, o)'
  BY <1>1, <1>5 DEF Asked, Idle
<1>8. \A g \in Files \ {f} : op'[g] = op[g]
  BY <1>1 DEF TypeOK
<1> QED
  BY <1>1, <1>4, <1>5, <1>6, <1>7, <1>8, QuietStep

LEMMA PastEndInv == ASSUME Inv, NEW f \in Files, PastEnd(f) PROVE Inv'
<1> USE DEF PastEnd
<1>1. TypeOK /\ FileInv(f)
  BY DEF Inv
<1>2. TypeOK'
  BY <1>1 DEF TypeOK, OpType, InodeType, MAX_FILE_SIZE, DataBlks, Addrs, BmapBlks
<1>3. Node(f)' = Node(f) /\ End(f)' = End(f) /\ End(f) \in Nat
  BY <1>1, EndIs DEF Node, End, FileInv
<1>4. OpSound(f)' /\ Saved(f)' /\ Deletes(f)'
  BY <1>1, <1>3 DEF FileInv, OpSound, Saved, Deletes, MAX_FILE_SIZE,
     AtAddr, AtEntry, AtEnd, AddrsGone, InLoop, NamedAt, Node, Addrs
<1>5. \A o \in Nat : Asked(f, o) => Asked(f, o)'
  BY <1>3 DEF Asked
<1> QED
  BY <1>1, <1>2, <1>3, <1>4, <1>5, QuietStep

LEMMA OverrunInv == ASSUME Inv, NEW f \in Files, Overrun(f) PROVE Inv'
<1> USE DEF Overrun
<1>1. TypeOK /\ FileInv(f)
  BY DEF Inv
<1>2. TypeOK'
  BY <1>1 DEF TypeOK, OpType, InodeType, MAX_FILE_SIZE, DataBlks, Addrs, BmapBlks
<1>3. Node(f)' = Node(f) /\ End(f)' = End(f) /\ End(f) \in Nat
  BY <1>1, EndIs DEF Node, End, FileInv
<1>4. OpSound(f)' /\ Saved(f)' /\ Deletes(f)'
  BY <1>1, <1>3 DEF FileInv, OpSound, Saved, Deletes, MAX_FILE_SIZE,
     AtAddr, AtEntry, AtEnd, AddrsGone, NamedAt, Node, Addrs
<1>5. \A o \in Nat : Asked(f, o) => Asked(f, o)'
  BY <1>3 DEF Asked
<1> QED
  BY <1>1, <1>2, <1>3, <1>4, <1>5, QuietStep

LEMMA GiveUpInv == ASSUME Inv, NEW f \in Files, GiveUp(f) PROVE Inv'
<1> USE DEF GiveUp, InLoop, Running
<1>1. TypeOK /\ FileInv(f) /\ mounted /\ op[f].k = "write"
  BY DEF Inv
<1>2. /\ op[f] \in [k : {"write"}, ofs : Nat, left : Nat, x : Vals]
      /\ op'[f] = [op[f] EXCEPT !.left = 0]
  BY <1>1, OpIs DEF TypeOK
<1>3. op'[f].k = "write" /\ op'[f].ofs = op[f].ofs
  BY <1>2
<1>4. TypeOK'
  <2>1. op' \in [Files -> OpType]
    BY <1>1, <1>2 DEF TypeOK, OpType
  <2> QED
    BY <1>1, <2>1
       DEF TypeOK, OpType, InodeType, MAX_FILE_SIZE, DataBlks, Addrs, BmapBlks
<1>5. Node(f)' = Node(f) /\ End(f)' = End(f) /\ End(f) \in Nat
  <2>1. Node(f)' = Node(f)
    BY DEF Node
  <2> QED
    BY <1>1, <1>3, <2>1, EndIs DEF End, FileInv
<1>6. OpSound(f)' /\ Saved(f)' /\ Deletes(f)'
  BY <1>1, <1>3, <1>5 DEF FileInv, OpSound, Saved, Deletes, MAX_FILE_SIZE, Idle
<1> QED
  BY <1>1, <1>4, <1>5, <1>6, QuietStep DEF TypeOK

LEMMA WriteEndInv ==
  ASSUME Inv, NEW f \in Files, NEW saved \in BOOLEAN, WriteEnd(f, saved)
  PROVE  Inv'
<1> USE DEF WriteEnd, Running
<1>1. TypeOK /\ FileInv(f) /\ mounted /\ op[f].k = "write" /\ op[f].left = 0
  BY DEF Inv
<1>2. op[f].ofs \in 0..MAX_FILE_SIZE /\ f \in inodes \ unlinked
  <2>1. op[f].ofs \in Nat /\ op[f] # Idle
    BY <1>1, OpIs DEF Idle
  <2> QED
    BY <1>1, <2>1, MaxSize DEF FileInv, OpSound
<1>3. PICK size : size = IF op[f].ofs > ino[f].size THEN op[f].ofs ELSE ino[f].size
  OBVIOUS
<1>a. ino[f] \in InodeType /\ ino[f].size \in 0..MAX_FILE_SIZE
  BY <1>1 DEF TypeOK, InodeType
<1>b. size \in 0..MAX_FILE_SIZE /\ op[f].ofs <= size
  BY <1>2, <1>3, <1>a, MaxSize
<1>c. ino' = [ino EXCEPT ![f].size = size]
  BY <1>3
<1>4. /\ ino'[f] = [ino[f] EXCEPT !.size = size] /\ ino'[f] \in InodeType
      /\ ino'[f].size = size /\ ino'[f].addrs = ino[f].addrs
      /\ \A g \in Files \ {f} : ino'[g] = ino[g]
      /\ ino' \in [Files -> InodeType]
  <2>1. ino \in [Files -> InodeType]
    BY <1>1 DEF TypeOK
  <2>2. ino'[f] = [ino[f] EXCEPT !.size = size]
    BY <1>c, <2>1
  <2>3. /\ ino'[f] \in InodeType
        /\ ino'[f].size = size /\ ino'[f].addrs = ino[f].addrs
    BY <1>a, <1>b, <2>2 DEF InodeType
  <2>4. \A g \in Files \ {f} : ino'[g] = ino[g]
    BY <1>c, <2>1
  <2>5. ino' = [g \in Files |-> ino'[g]]
    BY <1>c, <2>1
  <2> QED
    BY <2>1, <2>2, <2>3, <2>4, <2>5
<1>5. op'[f] = Idle /\ pos'[f] = op[f].ofs
  BY <1>1 DEF TypeOK
<1>6. /\ dino' \in [Files -> InodeType] /\ \A g \in Files \ {f} : dino'[g] = dino[g]
      /\ dirty' \subseteq inodes
      /\ \A g \in Files \ {f} : g \in dirty' <=> g \in dirty
  BY <1>1, <1>2, <1>4 DEF TypeOK
<1>7. TypeOK'
  <2>1. op' \in [Files -> OpType] /\ pos' \in [Files -> 0..MAX_FILE_SIZE]
    BY <1>1, <1>2 DEF TypeOK, OpType
  <2> QED
    BY <1>1, <1>4, <1>6, <2>1
       DEF TypeOK, OpType, InodeType, MAX_FILE_SIZE, DataBlks, Addrs, BmapBlks
<1>8. Node(f) = ino[f] /\ Node(f)' = ino'[f]
  BY <1>1 DEF Node
<1>9. End(f) = size /\ End(f)' = size
  BY <1>1, <1>3, <1>4, <1>5, <1>8 DEF End, Idle
<1>10. Saved(f)' /\ (f \notin dirty => dino[f] = ino[f])
  <2>1. f \notin dirty => dino[f] = ino[f]
    BY <1>1, <1>2 DEF FileInv, Saved
  <2>2. CASE op[f].ofs > ino[f].size
    <3>1. saved => dino'[f] = ino'[f]
      BY <1>1, <2>2 DEF TypeOK
    <3>2. ~saved => f \in dirty'
      BY <2>2
    <3> QED
      BY <2>1, <3>1, <3>2 DEF Saved
  <2>3. CASE ~(op[f].ofs > ino[f].size)
    <3>1. ino'[f] = ino[f]
      BY <1>1, <2>3 DEF TypeOK, InodeType
    <3> QED
      BY <1>1, <1>2, <2>1, <2>3, <3>1 DEF Saved
  <2> QED
    BY <2>1, <2>2, <2>3
<1>11. OpSound(f)' /\ Deletes(f)'
  BY <1>1, <1>2, <1>b, <1>4, <1>5, <1>8 DEF FileInv, OpSound, Deletes, Idle
<1>12. \A o \in Nat : Asked(f, o) => Asked(f, o)'
  BY <1>1, <1>9 DEF Asked
<1>13. Node(f)'.addrs = Node(f).addrs
  BY <1>4, <1>8
<1>14. \A g \in Files \ {f} : op'[g] = op[g] /\ pos'[g] = pos[g]
  BY <1>1 DEF TypeOK
<1>15. size \in Nat
  BY <1>b, MaxSize
<1> QED
  BY <1>1, <1>2, <1>4, <1>6, <1>7, <1>9, <1>10, <1>11, <1>12, <1>13, <1>14, <1>15,
     QuietStep

(* The first word of a direct block and that of the first indirect one. *)
LEMMA AddrAt == ASSUME NEW a \in 0..NDIRECT PROVE AddrIndex(a * B) = a
<1> USE SfsAssumption
<1>1. a \in Nat /\ 0 \in 0..(B - 1) /\ a * B \in Nat
  OBVIOUS
<1>2. (a * B + 0) \div B = a
  BY <1>1, DivModIs
<1>3. BlkIndex(a * B) = a
  BY <1>1, <1>2 DEF BlkIndex
<1>4. (0 * B + 0) \div B = 0 /\ 0 * B + 0 = 0
  BY <1>1, DivModIs
<1>5. CASE a < NDIRECT
  BY <1>3, <1>5 DEF AddrIndex, IsDirect
<1>6. CASE a = NDIRECT
  <2>1. a - NDIRECT = 0 /\ 0 \div B = 0
    BY <1>4, <1>6
  <2> QED
    BY <1>3, <1>6, <2>1 DEF AddrIndex, IsDirect
<1> QED
  BY <1>1, <1>5, <1>6

LEMMA sfs_delete_inodeInv ==
  ASSUME Inv, NEW f \in Files, sfs_delete_inode(f) PROVE Inv'
<1> USE DEF sfs_delete_inode, Running
<1>1. TypeOK /\ FileInv(f) /\ mounted /\ op[f] = Idle /\ f \in inodes
  BY DEF Inv
<1>2. op'[f] = [k |-> "delete", size |-> 0, index |-> 0, indir |-> -1]
  BY <1>1 DEF TypeOK
<1>3. TypeOK'
  <2>1. op' \in [Files -> OpType]
    BY <1>1, SfsAssumption DEF TypeOK, OpType
  <2>2. calls' \in 0..MaxCalls /\ unlinked' \subseteq inodes
    BY <1>1, SfsAssumption DEF TypeOK
  <2> QED
    BY <1>1, <2>1, <2>2
       DEF TypeOK, OpType, InodeType, MAX_FILE_SIZE, DataBlks, Addrs, BmapBlks
<1>4. /\ Node(f)' = Node(f) /\ Node(f) = ino[f] /\ ino[f].size \in 0..MAX_FILE_SIZE
      /\ End(f) = ino[f].size /\ End(f)' = ino[f].size
  <2>1. Node(f)' = Node(f) /\ Node(f) = ino[f]
    BY <1>1 DEF Node
  <2> QED
    BY <1>1, <1>2, <2>1, NodeType DEF End, Idle
<1>5. OpSound(f)' /\ Saved(f)'
  BY <1>1, <1>2, <1>4 DEF FileInv, OpSound, Saved
<1>6. ASSUME ~failed PROVE AtAddr(f)'
  <2>1. f \notin unlinked
    BY <1>1, <1>6 DEF FileInv, Deletes, Idle
  <2>2. ASSUME NEW a \in 0..NDIRECT, a * B < ino[f].size PROVE ino[f].addrs[a] # 0
    <3>1. a * B \in 0..(ino[f].size - 1) /\ a * B \in 0..(MAX_FILE_SIZE - 1)
      BY <1>4, <2>2, MaxSize, SfsAssumption
    <3>2. NamedAt(PlaceOf(f, a * B)) # 0
      BY <1>1, <1>4, <2>1, <3>1 DEF FileInv, HoleFree
    <3>3. DataBlk(ino[f], a * B) # 0
      BY <1>1, <1>4, <3>1, <3>2, PlaceOfIs
    <3> QED
      BY <3>3, AddrAt DEF DataBlk
  <2>3. 0 * B = 0 /\ NDIRECT \in Nat
    BY SfsAssumption
  <2> QED
    BY <1>2, <2>2, <2>3 DEF AtAddr, AddrsGone, Addrs
<1>7. Deletes(f)'
  BY <1>2, <1>6 DEF Deletes
<1>8. \A o \in Nat : Asked(f, o) => Asked(f, o)'
  BY <1>1, <1>2, <1>4 DEF Asked, Idle
<1>9. \A g \in Files \ {f} : op'[g] = op[g] /\ (g \in unlinked' <=> g \in unlinked)
  BY <1>1 DEF TypeOK
<1> QED
  BY <1>1, <1>3, <1>4, <1>5, <1>7, <1>8, <1>9, QuietStep

LEMMA DeletingIs ==
  ASSUME TypeOK, NEW f \in Files, OpSound(f), Running, op[f].k = "delete"
  PROVE  /\ op[f] \in [k : {"delete"}, size : Nat, index : Nat, indir : -1..B]
         /\ mounted /\ f \in unlinked /\ f \in inodes
         /\ Node(f) = ino[f] /\ ino[f] \in InodeType
         /\ ino[f].size \in 0..MAX_FILE_SIZE /\ ino[f].size \in Nat
         /\ ino[f].addrs \in [Addrs -> DataBlks \cup {0}]
         /\ End(f) = ino[f].size
<1>1. mounted /\ f \in unlinked /\ f \in inodes
  BY DEF OpSound, Running, TypeOK
<1>2. Node(f) = ino[f]
  BY <1>1 DEF Node
<1> QED
  BY <1>1, <1>2, NodeType, OpIs, MaxSize DEF End

LEMMA DeleteSkipInv == ASSUME Inv, NEW f \in Files, DeleteSkip(f) PROVE Inv'
<1> USE DEF DeleteSkip, Deleting
<1>1. TypeOK /\ FileInv(f) /\ OpSound(f)
  BY DEF Inv, FileInv
<1>2. /\ op[f] \in [k : {"delete"}, size : Nat, index : Nat, indir : -1..B]
      /\ op[f].k = "delete" /\ op[f].indir = -1 /\ mounted
      /\ f \in unlinked /\ f \in inodes
      /\ Node(f) = ino[f] /\ End(f) = ino[f].size /\ ino[f].size \in Nat
  BY <1>1, DeletingIs
<1>3. op'[f] = [op[f] EXCEPT !.index = @ + 1]
  BY <1>1 DEF TypeOK
<1>4. /\ op'[f] \in [k : {"delete"}, size : Nat, index : Nat, indir : -1..B]
      /\ op'[f].k = "delete" /\ op'[f].indir = -1
  BY <1>2, <1>3
<1>5. TypeOK'
  <2>1. op' \in [Files -> OpType]
    BY <1>1, <1>3, <1>4 DEF TypeOK, OpType
  <2> QED
    BY <1>1, <2>1
       DEF TypeOK, OpType, InodeType, MAX_FILE_SIZE, DataBlks, Addrs, BmapBlks
<1>6. Node(f)' = Node(f) /\ End(f)' = End(f)
  BY <1>2, <1>4 DEF Node, End
<1>7. OpSound(f)' /\ Saved(f)'
  BY <1>1, <1>2, <1>4, <1>6 DEF FileInv, OpSound, Saved
<1>8. failed
  <2> SUFFICES ASSUME ~failed PROVE FALSE
    OBVIOUS
  <2>1. AtAddr(f)
    BY <1>1, <1>2 DEF FileInv, Deletes, AtEntry, AtEnd
  <2>2. op[f].index \in op[f].index..NDIRECT
    BY <1>2, <2>1, SfsAssumption DEF AtAddr
  <2> QED
    BY <2>1, <2>2 DEF AtAddr
<1>9. Deletes(f)'
  BY <1>8 DEF Deletes
<1>10. \A g \in Files \ {f} : op'[g] = op[g]
  BY <1>1 DEF TypeOK
<1>11. f \in unlinked'
  BY <1>2
<1> QED
  BY <1>1, <1>5, <1>6, <1>7, <1>8, <1>9, <1>10, <1>11, QuietStep

LEMMA DeleteEnterInv == ASSUME Inv, NEW f \in Files, DeleteEnter(f) PROVE Inv'
<1> USE DEF DeleteEnter, Deleting
<1>1. TypeOK /\ FileInv(f) /\ OpSound(f)
  BY DEF Inv, FileInv
<1>2. /\ op[f] \in [k : {"delete"}, size : Nat, index : Nat, indir : -1..B]
      /\ op[f].k = "delete" /\ op[f].indir = -1 /\ mounted
      /\ f \in unlinked /\ f \in inodes
      /\ Node(f) = ino[f] /\ End(f) = ino[f].size /\ ino[f].size \in Nat
  BY <1>1, DeletingIs
<1>3. op'[f] = [op[f] EXCEPT !.indir = 0]
  BY <1>1 DEF TypeOK
<1>4. /\ op'[f] \in [k : {"delete"}, size : Nat, index : Nat, indir : -1..B]
      /\ op'[f].k = "delete" /\ op'[f].indir = 0 /\ op'[f].size = op[f].size
      /\ op'[f].index = op[f].index
  BY <1>2, <1>3, SfsAssumption
<1>5. TypeOK'
  <2>1. op' \in [Files -> OpType]
    BY <1>1, <1>3, <1>4 DEF TypeOK, OpType
  <2> QED
    BY <1>1, <2>1
       DEF TypeOK, OpType, InodeType, MAX_FILE_SIZE, DataBlks, Addrs, BmapBlks
<1>6. Node(f)' = Node(f) /\ End(f)' = End(f)
  BY <1>2, <1>4 DEF Node, End
<1>7. OpSound(f)' /\ Saved(f)'
  BY <1>1, <1>2, <1>4, <1>6, SfsAssumption DEF FileInv, OpSound, Saved, Addrs
<1>8. ASSUME ~failed PROVE AtEntry(f)'
  <2>1. AtAddr(f)
    BY <1>1, <1>2, <1>8 DEF FileInv, Deletes, AtEntry, AtEnd
  <2>2. op[f].index = NDIRECT
    BY <1>2, <2>1, SfsAssumption DEF AtAddr
  <2>3. NDIRECT + 0 = NDIRECT
    BY SfsAssumption
  <2> QED
    BY <1>4, <2>1, <2>2, <2>3 DEF AtAddr, AtEntry, AddrsGone, Addrs
<1>9. Deletes(f)'
  BY <1>4, <1>8 DEF Deletes
<1>10. \A g \in Files \ {f} : op'[g] = op[g]
  BY <1>1 DEF TypeOK
<1>11. f \in unlinked' /\ \A o \in Nat : Asked(f, o) => Asked(f, o)'
  BY <1>2, <1>4, <1>6 DEF Asked
<1> QED
  BY <1>1, <1>5, <1>6, <1>7, <1>9, <1>10, <1>11, QuietStep

LEMMA DeleteFailInv == ASSUME Inv, NEW f \in Files, DeleteFail(f) PROVE Inv'
<1> USE DEF DeleteFail
<1>1. TypeOK /\ FileInv(f) /\ OpSound(f)
  BY DEF Inv, FileInv
<1>2. mounted /\ f \in unlinked
  BY <1>1, DeletingIs
<1>3. op'[f] \in {Idle, [k |-> "stuck"]}
  BY <1>1 DEF TypeOK
<1>4. TypeOK'
  <2>1. op' \in [Files -> OpType]
    BY <1>1, <1>3 DEF TypeOK, OpType
  <2> QED
    BY <1>1, <2>1
       DEF TypeOK, OpType, InodeType, MAX_FILE_SIZE, DataBlks, Addrs, BmapBlks
<1>5. Node(f)' = Node(f)
  BY DEF Node
<1>6. OpSound(f)' /\ Saved(f)' /\ Deletes(f)'
  BY <1>1, <1>2, <1>3, <1>5 DEF FileInv, OpSound, Saved, Deletes, TypeOK, Idle
<1>7. \A g \in Files \ {f} : op'[g] = op[g]
  BY <1>1 DEF TypeOK
<1>8. f \in unlinked' /\ failed'
  BY <1>2
<1> QED
  BY <1>1, <1>4, <1>5, <1>6, <1>7, <1>8, QuietStep

-----------------------------------------------------------------------------
(* Writing a block *)

LEMMA ChunkIs ==
  ASSUME NEW o \in 0..(MAX_FILE_SIZE - 1), NEW left \in Nat \ {0}
  PROVE  /\ Chunk(o, left) \in 1..left /\ o + Chunk(o, left) <= MAX_FILE_SIZE
         /\ \A w \in o..(o + Chunk(o, left) - 1) :
              BlkIndex(w) = BlkIndex(o) /\ w % B = (o % B) + (w - o)
<1> USE SfsAssumption
<1>1. PICK r \in 0..(B - 1) : r = o % B
  BY MaxSize
<1>2. PICK d \in Nat : d = B - r /\ d > 0
  OBVIOUS
<1>3. PICK s \in Nat : s = Chunk(o, left) /\ s \in 1..left /\ s <= d
  BY <1>1, <1>2, MinOfTwo DEF Chunk
<1>4. PICK m \in Nat : MAX_FILE_SIZE = m * B
  BY MaxSize
<1>5. o \in Nat /\ o < m * B
  BY <1>4, MaxSize
<1>6. o + (B - (o % B)) <= m * B
  BY <1>5, RoundUp
<1>7. o + s <= MAX_FILE_SIZE
  BY <1>1, <1>2, <1>3, <1>4, <1>5, <1>6, MaxSize
<1>8. ASSUME NEW w \in o..(o + s - 1)
      PROVE  BlkIndex(w) = BlkIndex(o) /\ w % B = (o % B) + (w - o)
  <2>1. w \in Nat /\ o <= w /\ w < o + (B - (o % B))
    BY <1>1, <1>2, <1>3, <1>5
  <2> QED
    BY <1>5, <2>1, SameBlk DEF BlkIndex
<1> QED
  BY <1>3, <1>7, <1>8

LEMMA SamePlace ==
  ASSUME NEW f, NEW o, NEW w, BlkIndex(w) = BlkIndex(o)
  PROVE  PlaceOf(f, w) = PlaceOf(f, o)
BY DEF PlaceOf, AddrIndex, IsDirect, IndirOfs

LEMMA StoredType ==
  ASSUME TypeOK, NEW b \in DataBlks, NEW o, NEW n, NEW x \in Nat,
         blk' = Stored(b, o, n, x)
  PROVE  /\ blk' \in [DataBlks -> [0..(B - 1) -> Nat]]
         /\ blk'[b] = [w \in 0..(B - 1) |->
              IF w >= o % B /\ w < (o % B) + n THEN x ELSE blk[b][w]]
         /\ \A c \in DataBlks : c # b => blk'[c] = blk[c]
<1>1. blk \in [DataBlks -> [0..(B - 1) -> Nat]]
  BY DEF TypeOK
<1>2. PICK y : y = [w \in 0..(B - 1) |->
                      IF w >= o % B /\ w < (o % B) + n THEN x ELSE blk[b][w]]
  OBVIOUS
<1>3. blk' = [blk EXCEPT ![b] = y]
  BY <1>1, <1>2 DEF Stored
<1>4. y \in [0..(B - 1) -> Nat]
  BY <1>1, <1>2
<1> QED
  BY <1>1, <1>2, <1>3, <1>4

(* A write of a chunk at the end of what is written, or before it. *)
LEMMA StoreStep ==
  ASSUME Inv, TypeOK', NEW f \in Files, f \in inodes \ unlinked,
         NEW o \in 0..(MAX_FILE_SIZE - 1), NEW left \in Nat \ {0}, NEW x,
         DataBlk(Node(f), o) # 0,
         blk' = Stored(DataBlk(Node(f), o), o, Chunk(o, left), x),
         UNCHANGED <<bmap, inodes, mounted, failed, unlinked>>,
         Node(f)'.addrs = Node(f).addrs,
         \A g \in Files \ {f} :
           /\ g \in dirty' <=> g \in dirty
           /\ op'[g] = op[g] /\ ino'[g] = ino[g] /\ dino'[g] = dino[g]
           /\ pos'[g] = pos[g],
         OpSound(f)', Saved(f)',
         End(f)' = End(f) \/ End(f)' = o + Chunk(o, left), o <= End(f),
         ~failed' => \A y \in Nat : Asked(f, y) => Asked(f, y)'
  PROVE  Inv'
<1>1. TypeOK /\ Names /\ BlocksOwned /\ NoLeak /\ \A g \in Files : FileInv(g)
  BY DEF Inv
<1>2. \A g \in Files : Node(g)'.addrs = Node(g).addrs
  BY DEF Node
<1>3. \A p \in Places : NamedAt(p)' = NamedAt(p)
  BY <1>1, <1>2, StoredNames
<1>4. Names' /\ BlocksOwned' /\ NoLeak'
  BY <1>1, <1>3, MarkedSame, NamesKept
<1>5. Deletes(f)'
  BY DEF Deletes
<1>6. ASSUME NEW w \in 0..(End(f)' - 1)
      PROVE  w \in 0..(MAX_FILE_SIZE - 1) /\ NamedAt(PlaceOf(f, w)) # 0
  <2>1. End(f) \in 0..MAX_FILE_SIZE /\ HoleFree(f)
    BY <1>1, EndIs DEF FileInv
  <2>2. Chunk(o, left) \in Nat /\ o + Chunk(o, left) <= MAX_FILE_SIZE
    BY ChunkIs
  <2>3. w \in 0..(MAX_FILE_SIZE - 1)
    BY <1>6, <2>1, <2>2, MaxSize
  <2>4. CASE w < End(f)
    BY <2>1, <2>3, <2>4, MaxSize DEF HoleFree
  <2>5. CASE ~(w < End(f))
    <3>1. w \in o..(o + Chunk(o, left) - 1)
      BY <1>6, <2>1, <2>2, <2>3, <2>5, MaxSize
    <3>2. PlaceOf(f, w) = PlaceOf(f, o)
      BY <3>1, ChunkIs, SamePlace
    <3> QED
      BY <2>3, <3>2, PlaceOfIs
  <2> QED
    BY <2>3, <2>4, <2>5
<1>7. FileInv(f)'
  BY <1>1, <1>3, <1>5, <1>6, SameFile
<1>8. \A g \in Files \ {f} : FileInv(g)'
  BY <1>1, <1>3, OtherFile
<1> QED
  BY <1>4, <1>7, <1>8 DEF Inv

LEMMA AppendBlkInv == ASSUME Inv, NEW f \in Files, AppendBlk(f) PROVE Inv'
<1> USE DEF AppendBlk
<1>1. TypeOK /\ FileInv(f) /\ OpSound(f) /\ op[f].k = "mkfs"
  BY DEF Inv, FileInv
<1>2. op[f] \in [k : {"mkfs"}, x : Input, left : Nat]
  BY <1>1, OpIs
<1>3. PICK o \in 0..(MAX_FILE_SIZE - 1), left \in Nat \ {0} :
        /\ o = dino[f].size /\ left = op[f].left /\ o + left <= MAX_FILE_SIZE
  BY <1>1, <1>2, MaxSize DEF OpSound, TypeOK, InodeType
<1>4. /\ ~mounted /\ f \in inodes \ unlinked /\ Node(f) = dino[f] /\ f \in inodes
      /\ End(f) = o /\ dino[f] \in InodeType
  <2>1. ~mounted /\ f \in inodes \ unlinked
    BY <1>1 DEF OpSound, Idle
  <2>2. Node(f) = dino[f]
    BY <2>1 DEF Node
  <2> QED
    BY <1>1, <1>3, <2>1, <2>2 DEF End, TypeOK
<1>5. PICK s \in 1..left : s = Chunk(o, left) /\ o + s <= MAX_FILE_SIZE
  BY ChunkIs
<1>6. dino' = [dino EXCEPT ![f].size = o + s]
  BY <1>3, <1>5
<1>7. /\ dino'[f] = [dino[f] EXCEPT !.size = o + s]
      /\ dino'[f] \in InodeType /\ dino'[f].size = o + s
      /\ dino'[f].addrs = dino[f].addrs
  <2>1. dino'[f] = [dino[f] EXCEPT !.size = o + s]
    BY <1>1, <1>6 DEF TypeOK
  <2>2. o + s \in 0..MAX_FILE_SIZE
    BY <1>5, MaxSize
  <2> QED
    BY <1>4, <2>1, <2>2 DEF InodeType
<1>8. op'[f] = IF s = left THEN Idle ELSE [op[f] EXCEPT !.left = left - s]
  <2>0. op' = [op EXCEPT ![f] = IF s = op[f].left THEN Idle
                               ELSE [op[f] EXCEPT !.left = @ - s]]
    BY <1>3, <1>5
  <2>1. op'[f] = IF s = op[f].left THEN Idle ELSE [op[f] EXCEPT !.left = @ - s]
    <3> HIDE DEF AppendBlk
    <3> QED
      BY <1>1, <2>0 DEF TypeOK
  <2>2. [op[f] EXCEPT !.left = @ - s] = [op[f] EXCEPT !.left = op[f].left - s]
    BY <1>2
  <2> QED
    BY <1>3, <2>1, <2>2
<1>9. /\ op'[f] \in OpType
      /\ op'[f] = Idle \/ (op'[f].k = "mkfs" /\ op'[f].left = left - s /\ s < left)
  <2>1. CASE s = left
    BY <1>8, <2>1 DEF OpType
  <2>2. CASE s # left
    <3>1. op'[f] = [op[f] EXCEPT !.left = left - s] /\ left - s \in Nat /\ s < left
      BY <1>8, <2>2
    <3>2. /\ op'[f] \in [k : {"mkfs"}, x : Input, left : Nat]
          /\ op'[f].k = "mkfs" /\ op'[f].left = left - s
      BY <1>2, <3>1
    <3> QED
      BY <3>1, <3>2 DEF OpType
  <2> QED
    BY <2>1, <2>2
<1>10. DataBlk(Node(f), o) # 0 /\ DataBlk(Node(f), o) \in DataBlks
  <2>1. PlaceOf(f, o) \in Places /\ NamedAt(PlaceOf(f, o)) = DataBlk(Node(f), o)
    BY <1>4, PlaceOfIs
  <2> QED
    BY <1>3, <1>4, <2>1 DEF Inv, Names
<1>11. blk' = Stored(DataBlk(Node(f), o), o, Chunk(o, left), op[f].x)
  BY <1>3, <1>4
<1>12. TypeOK'
  <2>1. op[f].x \in Nat
    BY <1>2, SfsAssumption
  <2>2. blk' \in [DataBlks -> [0..(B - 1) -> Nat]]
    BY <1>1, <1>10, <1>11, <2>1, StoredType
  <2>3. op' \in [Files -> OpType]
    <3>1. op' = [op EXCEPT ![f] = op'[f]]
      BY <1>1 DEF TypeOK
    <3> QED
      BY <1>1, <1>9, <3>1 DEF TypeOK
  <2>4. dino' \in [Files -> InodeType]
    <3>1. dino' = [dino EXCEPT ![f] = dino'[f]]
      BY <1>1, <1>6, <1>7 DEF TypeOK
    <3> QED
      BY <1>1, <1>7, <3>1 DEF TypeOK
  <2> QED
    BY <1>1, <2>2, <2>3, <2>4
       DEF TypeOK, OpType, InodeType, MAX_FILE_SIZE, DataBlks, Addrs, BmapBlks
<1>13. Node(f)' = dino'[f] /\ End(f)' = o + s
  <2>1. Node(f)' = dino'[f]
    BY <1>4 DEF Node
  <2>2. op'[f].k # "write"
    BY <1>9 DEF Idle
  <2> QED
    BY <1>7, <2>1, <2>2 DEF End
<1>14. OpSound(f)' /\ Saved(f)'
  <2>1. pos[f] <= o
    BY <1>1, <1>3, <1>4 DEF OpSound
  <2>2. pos[f] <= o + s
    BY <1>1, <2>1, MaxSize DEF TypeOK
  <2>3. Saved(f)'
    BY <1>4 DEF Saved
  <2>4. OpSound(f)'
    BY <1>3, <1>4, <1>5, <1>7, <1>9, <1>13, <2>2, MaxSize
       DEF OpSound, Idle, MAX_FILE_SIZE
  <2> QED
    BY <2>3, <2>4
<1>15. \A y \in Nat : Asked(f, y) => Asked(f, y)'
  BY <1>1, <1>3, <1>4, <1>5, <1>13, MaxSize DEF Asked
<1>16. \A g \in Files \ {f} : op'[g] = op[g] /\ dino'[g] = dino[g]
  BY <1>1 DEF TypeOK
<1>17. Node(f)'.addrs = Node(f).addrs /\ o <= End(f)
  BY <1>4, <1>7, <1>13, MaxSize
<1>18. UNCHANGED <<bmap, inodes, mounted, failed, unlinked, ino, pos, dirty>>
  OBVIOUS
<1> HIDE DEF AppendBlk
<1> QED
  BY <1>4, <1>5, <1>10, <1>11, <1>12, <1>13, <1>14, <1>15, <1>16, <1>17, <1>18,
     StoreStep

LEMMA write_dataInv == ASSUME Inv, NEW f \in Files, write_data(f) PROVE Inv'
<1> USE DEF write_data, InLoop, Running
<1>1. TypeOK /\ FileInv(f) /\ OpSound(f) /\ op[f].k = "write" /\ mounted
  BY DEF Inv, FileInv
<1>2. op[f] \in [k : {"write"}, ofs : Nat, left : Nat, x : Vals]
  BY <1>1, OpIs
<1>3. PICK o \in 0..(MAX_FILE_SIZE - 1), left \in Nat \ {0} :
        o = op[f].ofs /\ left = op[f].left
  BY <1>2, MaxSize
<1>4. /\ f \in inodes \ unlinked /\ Node(f) = ino[f] /\ f \in inodes
      /\ ino[f].size \in Nat
      /\ End(f) = IF o > ino[f].size THEN o ELSE ino[f].size
  <2>1. f \in inodes \ unlinked
    BY <1>1 DEF OpSound, Idle
  <2>2. Node(f) = ino[f]
    BY <1>1 DEF Node
  <2> QED
    BY <1>1, <1>3, <2>1, <2>2, NodeType, MaxSize DEF End
<1>5. PICK s \in 1..left : s = Chunk(o, left) /\ o + s <= MAX_FILE_SIZE
  BY ChunkIs
<1>6. op'[f] = [op[f] EXCEPT !.ofs = o + s, !.left = left - s]
  BY <1>1, <1>3, <1>5 DEF TypeOK
<1>7. /\ op'[f] \in [k : {"write"}, ofs : Nat, left : Nat, x : Vals]
      /\ op'[f].k = "write" /\ op'[f].ofs = o + s /\ op'[f].left = left - s
  <2>1. o + s \in Nat /\ left - s \in Nat
    BY <1>5, MaxSize
  <2> QED
    BY <1>2, <1>6, <2>1
<1>8. DataBlk(Node(f), o) # 0 /\ DataBlk(Node(f), o) \in DataBlks
  <2>1. PlaceOf(f, o) \in Places /\ NamedAt(PlaceOf(f, o)) = DataBlk(Node(f), o)
    BY <1>4, PlaceOfIs
  <2> QED
    BY <1>3, <1>4, <2>1 DEF Inv, Names
<1>9. blk' = Stored(DataBlk(Node(f), o), o, Chunk(o, left), op[f].x)
  BY <1>3, <1>4
<1>10. TypeOK'
  <2>1. op[f].x \in Nat
    BY <1>2, SfsAssumption
  <2>2. blk' \in [DataBlks -> [0..(B - 1) -> Nat]]
    BY <1>1, <1>8, <1>9, <2>1, StoredType
  <2>3. op' \in [Files -> OpType]
    <3>1. op' = [op EXCEPT ![f] = op'[f]]
      BY <1>1 DEF TypeOK
    <3> QED
      BY <1>1, <1>7, <3>1 DEF TypeOK, OpType
  <2> QED
    BY <1>1, <2>2, <2>3
       DEF TypeOK, OpType, InodeType, MAX_FILE_SIZE, DataBlks, Addrs, BmapBlks
<1>11. Node(f)' = Node(f) /\ End(f)' = IF o + s > ino[f].size THEN o + s ELSE ino[f].size
  <2>1. Node(f)' = Node(f)
    BY DEF Node
  <2> QED
    BY <1>4, <1>7, <2>1 DEF End
<1>12. End(f)' \in {End(f), o + s} /\ o <= End(f) /\ End(f) <= End(f)'
       /\ o < End(f)' /\ End(f) \in Nat /\ End(f)' \in Nat
  BY <1>4, <1>5, <1>11, MaxSize
<1>13. OpSound(f)' /\ Saved(f)'
  <2>1. Saved(f)'
    BY <1>1 DEF Saved, FileInv
  <2>2. OpSound(f)'
    BY <1>1, <1>4, <1>5, <1>7, <1>11 DEF OpSound, MAX_FILE_SIZE
  <2> QED
    BY <2>1, <2>2
<1>14. \A y \in Nat : Asked(f, y) => Asked(f, y)'
  BY <1>1, <1>3, <1>12, MaxSize DEF Asked
<1>15. \A g \in Files \ {f} : op'[g] = op[g]
  BY <1>1 DEF TypeOK
<1>16. UNCHANGED <<bmap, inodes, mounted, failed, unlinked, ino, dino, pos, dirty>>
  OBVIOUS
<1> HIDE DEF write_data
<1> QED
  BY <1>4, <1>5, <1>8, <1>9, <1>10, <1>11, <1>12, <1>13, <1>14, <1>15, <1>16,
     StoreStep

-----------------------------------------------------------------------------
(* Allocating *)

(* A block for a place that the operation on a file asks for. *)
LEMMA AllocFile ==
  ASSUME TypeOK, NEW f \in Files, FileInv(f), NEW q \in Places, q[1] = f,
         NamedAt(q)' # 0, \A p \in Places : p # q => NamedAt(p)' = NamedAt(p),
         UNCHANGED <<inodes, unlinked, failed, mounted>>, op'[f] = op[f],
         Node(f)'.size = Node(f).size,
         Asked(f, FirstBlk(q) * B)
  PROVE  HoleFree(f)' /\ Exact(f)'
<1>1. End(f)' = End(f)
  BY DEF End
<1>2. HoleFree(f)'
  <2> SUFFICES ASSUME f \in inodes \ unlinked, NEW o \in 0..(End(f) - 1)
               PROVE  NamedAt(PlaceOf(f, o))' # 0
    BY <1>1 DEF HoleFree, PlaceOf, AddrIndex, IsDirect, BlkIndex, IndirOfs
  <2>1. o \in 0..(MAX_FILE_SIZE - 1)
    BY MaxSize, EndIs DEF FileInv
  <2>2. PlaceOf(f, o) \in Places
    BY <2>1, PlaceOfIs
  <2> QED
    BY <2>2 DEF FileInv, HoleFree
<1>3. Places' = Places
  BY DEF Places, Addrs
<1>4. \A p \in Used' : p \in Used \/ p = q
  BY <1>3 DEF Used
<1>5. Exact(f)'
  <2> SUFFICES ASSUME ~failed, NEW p \in Used', p[1] = f
               PROVE  Asked(f, FirstBlk(p) * B)'
    BY DEF Exact
  <2>1. Asked(f, FirstBlk(p) * B)
    BY <1>4 DEF FileInv, Exact
  <2> QED
    BY <1>1, <2>1 DEF Asked, FirstBlk
<1> QED
  BY <1>2, <1>5

LEMMA AllocStep ==
  ASSUME Inv, TypeOK', Names', BlocksOwned', NoLeak',
         NEW f \in Files, NEW q \in Places, q[1] = f, NamedAt(q)' # 0,
         \A p \in Places : p # q => NamedAt(p)' = NamedAt(p),
         UNCHANGED <<inodes, unlinked, failed, mounted, op, pos>>,
         Node(f)'.size = Node(f).size, Asked(f, FirstBlk(q) * B),
         \A g \in Files \ {f} : /\ g \in dirty' <=> g \in dirty
                                /\ ino'[g] = ino[g] /\ dino'[g] = dino[g],
         OpSound(f)', Saved(f)', f \notin unlinked
  PROVE  Inv'
<1>1. TypeOK /\ \A g \in Files : FileInv(g)
  BY DEF Inv
<1>2. HoleFree(f)' /\ Exact(f)'
  BY <1>1, AllocFile
<1>3. FileInv(f)'
  BY <1>2 DEF FileInv, Deletes
<1>4. \A g \in Files \ {f} : FileInv(g)'
  BY <1>1, OtherFile
<1> QED
  BY <1>3, <1>4 DEF Inv

LEMMA mkfs_get_data_blockInv ==
  ASSUME Inv, NEW f \in Files, mkfs_get_data_block(f) PROVE Inv'
<1> USE DEF mkfs_get_data_block
<1>1. /\ TypeOK /\ FileInv(f) /\ OpSound(f) /\ op[f].k = "mkfs"
      /\ Names /\ BlocksOwned /\ NoLeak
  BY DEF Inv, FileInv
<1>2. op[f] \in [k : {"mkfs"}, x : Input, left : Nat]
  BY <1>1, OpIs
<1>3. PICK o \in 0..(MAX_FILE_SIZE - 1) : o = dino[f].size
  BY <1>1, <1>2, MaxSize DEF OpSound, TypeOK, InodeType
<1>4. /\ ~mounted /\ f \notin unlinked /\ Node(f) = dino[f] /\ f \in inodes
      /\ dino[f] \in InodeType
  <2>1. ~mounted /\ f \notin unlinked /\ f \in inodes
    BY <1>1 DEF OpSound, Idle
  <2> QED
    BY <1>1, <2>1 DEF Node, TypeOK
<1>5. PICK a \in Addrs : a = AddrIndex(o)
  BY OffsetIs
<1>6. CASE dino[f].addrs[a] = 0
  <2>1. /\ alloc_data_block(blk)
        /\ dino' = [dino EXCEPT ![f].addrs[a] = BlkOf(Found)]
    BY <1>3, <1>5, <1>6
  <2>2. BlkOf(Found) \in DataBlks
    BY <1>1, <2>1, FoundIs
  <2>3. dino'[f] = [dino[f] EXCEPT !.addrs[a] = BlkOf(Found)]
    BY <1>1, <2>1 DEF TypeOK
  <2>4. /\ dino'[f] \in InodeType /\ dino'[f].size = dino[f].size
        /\ dino'[f].addrs = [dino[f].addrs EXCEPT ![a] = BlkOf(Found)]
        /\ \A g \in Files \ {f} : dino'[g] = dino[g]
    <3>1. \A g \in Files \ {f} : dino'[g] = dino[g]
      BY <1>1, <2>1 DEF TypeOK
    <3> QED
      BY <1>4, <2>2, <2>3, <3>1 DEF InodeType
  <2>5. Node(f)' = dino'[f] /\ \A g \in Files \ {f} : Node(g)' = Node(g)
    BY <1>4, <2>4 DEF Node
  <2>6. \A g \in Files : Node(g)'.addrs =
           IF g = f THEN [Node(f).addrs EXCEPT ![a] = BlkOf(Found)] ELSE Node(g).addrs
    BY <1>4, <2>4, <2>5
  <2>7. Node(f).addrs[a] = 0 /\ UNCHANGED <<inodes, failed>>
    BY <1>4, <1>6
  <2>8. /\ Names' /\ BlocksOwned' /\ NoLeak'
        /\ NamedAt(<<f, a, -1>>)' = BlkOf(Found)
        /\ \A p \in Places : p # <<f, a, -1>> => NamedAt(p)' = NamedAt(p)
        /\ blk' \in [DataBlks -> [0..(B - 1) -> Nat]]
    BY <1>1, <1>4, <2>1, <2>6, <2>7, AllocAddrNames
  <2>9. TypeOK'
    <3>1. dino' \in [Files -> InodeType]
      <4>1. dino' = [dino EXCEPT ![f] = dino'[f]]
        BY <1>1, <2>1, <2>3 DEF TypeOK
      <4> QED
        BY <1>1, <2>4, <4>1 DEF TypeOK
    <3>2. bmap' \in [BmapBlks -> SUBSET (0..(BMAP - 1))]
      BY <1>1, <2>1, FoundIs
    <3> QED
      BY <1>1, <2>8, <3>1, <3>2
         DEF TypeOK, OpType, InodeType, MAX_FILE_SIZE, DataBlks, Addrs, BmapBlks
  <2>10. OpSound(f)' /\ Saved(f)'
    BY <1>1, <1>4, <2>4, <2>5 DEF OpSound, Saved, MAX_FILE_SIZE
  <2>11. PICK q \in Places : q = <<f, a, -1>> /\ FirstBlk(q) * B <= o
    BY <1>4, <1>5, AddrOfIs
  <2>12. q[1] = f /\ NamedAt(q)' # 0
    BY <2>2, <2>8, <2>11, SfsAssumption DEF DataBlks
  <2>13. Asked(f, FirstBlk(q) * B)
    BY <1>1, <1>3, <1>4, <2>11 DEF Asked
  <2>14. Node(f)'.size = Node(f).size
    BY <1>4, <2>4, <2>5
  <2>15. UNCHANGED <<inodes, unlinked, failed, mounted, op, pos, dirty, ino>>
    OBVIOUS
  <2> HIDE DEF mkfs_get_data_block
  <2> QED
    BY <1>4, <2>4, <2>8, <2>9, <2>10, <2>11, <2>12, <2>13, <2>14, <2>15, AllocStep
<1>7. CASE dino[f].addrs[a] # 0
  <2>1. PICK d \in DataBlks : d = dino[f].addrs[a] /\ d = Node(f).addrs[a]
    BY <1>4, <1>7 DEF InodeType
  <2>2. ~IsDirect(o) /\ blk[d][IndirOfs(o)] = 0
    BY <1>3, <1>5, <1>7, <2>1 DEF DataBlk
  <2>3. PICK j \in 0..(B - 1) : j = IndirOfs(o) /\ a >= NDIRECT
    BY <1>5, <2>2, OffsetIs
  <2>4. /\ alloc_data_block([blk EXCEPT ![d][j] = BlkOf(Found)])
        /\ dino' = dino
    BY <1>3, <1>5, <1>7, <2>1, <2>3
  <2>5. \A g \in Files : Node(g)' = Node(g)
    BY <2>4 DEF Node
  <2>6. BlkOf(Found) \in DataBlks /\ BlkOf(Found) # 0
    BY <1>1, <2>4, FoundIs, SfsAssumption DEF DataBlks
  <2>7. UNCHANGED <<inodes, unlinked, failed, mounted, op, pos, dirty, ino, dino>>
    BY <2>4
  <2>8. blk[d][j] = 0 /\ \A g \in Files : Node(g)'.addrs = Node(g).addrs
    BY <2>2, <2>3, <2>5
  <2>9. /\ Names' /\ BlocksOwned' /\ NoLeak'
        /\ NamedAt(<<f, a, j>>)' = BlkOf(Found)
        /\ \A p \in Places : p # <<f, a, j>> => NamedAt(p)' = NamedAt(p)
        /\ blk' \in [DataBlks -> [0..(B - 1) -> Nat]]
    BY <1>1, <1>4, <2>1, <2>3, <2>4, <2>7, <2>8, AllocEntryNames
  <2>10. TypeOK'
    <3>1. bmap' \in [BmapBlks -> SUBSET (0..(BMAP - 1))]
      BY <1>1, <2>4, FoundIs
    <3> QED
      BY <1>1, <2>4, <2>9, <3>1
         DEF TypeOK, OpType, InodeType, MAX_FILE_SIZE, DataBlks, Addrs, BmapBlks
  <2>11. OpSound(f)' /\ Saved(f)'
    BY <1>1, <1>4, <2>5, <2>7 DEF OpSound, Saved, MAX_FILE_SIZE
  <2>12. PICK q \in Places : /\ q = PlaceOf(f, o) /\ q = <<f, a, j>>
                             /\ FirstBlk(q) * B <= o
    BY <1>4, <1>5, <2>2, <2>3, PlaceOfIs DEF PlaceOf
  <2>13. q[1] = f /\ NamedAt(q)' # 0
    BY <2>6, <2>9, <2>12
  <2>14. Asked(f, FirstBlk(q) * B)
    BY <1>1, <1>3, <1>4, <2>12 DEF Asked
  <2>15. Node(f)'.size = Node(f).size
    BY <2>5
  <2> HIDE DEF mkfs_get_data_block
  <2> QED
    BY <1>4, <2>7, <2>9, <2>10, <2>11, <2>12, <2>13, <2>14, <2>15, AllocStep
<1> QED
  BY <1>6, <1>7

LEMMA AllocAddrInv == ASSUME Inv, NEW f \in Files, AllocAddr(f) PROVE Inv'
<1> USE DEF AllocAddr, InLoop, Running
<1>1. /\ TypeOK /\ FileInv(f) /\ OpSound(f) /\ op[f].k = "write" /\ mounted
      /\ Names /\ BlocksOwned /\ NoLeak
  BY DEF Inv, FileInv
<1>2. op[f] \in [k : {"write"}, ofs : Nat, left : Nat, x : Vals]
  BY <1>1, OpIs
<1>3. PICK o \in 0..(MAX_FILE_SIZE - 1) : o = op[f].ofs
  BY <1>2, MaxSize
<1>4. /\ f \notin unlinked /\ Node(f) = ino[f] /\ f \in inodes
      /\ ino[f] \in InodeType
  <2>1. f \notin unlinked /\ f \in inodes
    BY <1>1 DEF OpSound, Idle
  <2> QED
    BY <1>1, <2>1 DEF Node, TypeOK
<1>5. PICK a \in Addrs : a = AddrIndex(o)
  BY OffsetIs
<1>6. /\ alloc_data_block(blk) /\ Node(f).addrs[a] = 0
      /\ ino' = [ino EXCEPT ![f].addrs[a] = BlkOf(Found)]
  BY <1>3, <1>4, <1>5
<1>7. BlkOf(Found) \in DataBlks
  BY <1>1, <1>6, FoundIs
<1>8. ino'[f] = [ino[f] EXCEPT !.addrs[a] = BlkOf(Found)]
  BY <1>1, <1>6 DEF TypeOK
<1>9. /\ ino'[f] \in InodeType /\ ino'[f].size = ino[f].size
      /\ ino'[f].addrs = [ino[f].addrs EXCEPT ![a] = BlkOf(Found)]
      /\ \A g \in Files \ {f} : ino'[g] = ino[g]
  <2>1. \A g \in Files \ {f} : ino'[g] = ino[g]
    BY <1>1, <1>6 DEF TypeOK
  <2> QED
    BY <1>4, <1>7, <1>8, <2>1 DEF InodeType
<1>10. dino'[f] = ino'[f] /\ \A g \in Files \ {f} : dino'[g] = dino[g]
  BY <1>1 DEF TypeOK
<1>11. Node(f)' = ino'[f] /\ \A g \in Files \ {f} : Node(g)' = Node(g)
  BY <1>1, <1>9 DEF Node
<1>12. \A g \in Files : Node(g)'.addrs =
         IF g = f THEN [Node(f).addrs EXCEPT ![a] = BlkOf(Found)] ELSE Node(g).addrs
  BY <1>4, <1>9, <1>11
<1>13. UNCHANGED <<inodes, unlinked, failed, mounted, op, pos>>
  OBVIOUS
<1>14. /\ Names' /\ BlocksOwned' /\ NoLeak'
       /\ NamedAt(<<f, a, -1>>)' = BlkOf(Found)
       /\ \A p \in Places : p # <<f, a, -1>> => NamedAt(p)' = NamedAt(p)
       /\ blk' \in [DataBlks -> [0..(B - 1) -> Nat]]
  BY <1>1, <1>4, <1>6, <1>12, <1>13, AllocAddrNames
<1>15. TypeOK'
  <2>1. ino' \in [Files -> InodeType] /\ dino' \in [Files -> InodeType]
    <3>1. ino' = [ino EXCEPT ![f] = ino'[f]]
      BY <1>1, <1>6, <1>8 DEF TypeOK
    <3> QED
      BY <1>1, <1>9, <3>1 DEF TypeOK
  <2>2. bmap' \in [BmapBlks -> SUBSET (0..(BMAP - 1))]
    BY <1>1, <1>6, FoundIs
  <2> QED
    BY <1>1, <1>14, <2>1, <2>2
       DEF TypeOK, OpType, InodeType, MAX_FILE_SIZE, DataBlks, Addrs, BmapBlks
<1>16. OpSound(f)' /\ Saved(f)'
  BY <1>1, <1>4, <1>9, <1>10, <1>11 DEF OpSound, Saved, MAX_FILE_SIZE
<1>17. PICK q \in Places : q = <<f, a, -1>> /\ FirstBlk(q) * B <= o
  BY <1>4, <1>5, AddrOfIs
<1>18. q[1] = f /\ NamedAt(q)' # 0
  BY <1>7, <1>14, <1>17, SfsAssumption DEF DataBlks
<1>19. Asked(f, FirstBlk(q) * B)
  BY <1>1, <1>3, <1>17 DEF Asked
<1>20. Node(f)'.size = Node(f).size
  BY <1>4, <1>9, <1>11
<1>21. \A g \in Files \ {f} : g \in dirty' <=> g \in dirty
  OBVIOUS
<1> HIDE DEF AllocAddr
<1> QED
  BY <1>4, <1>9, <1>10, <1>13, <1>14, <1>15, <1>16, <1>17, <1>18, <1>19, <1>20,
     <1>21, AllocStep

LEMMA AllocIndirInv == ASSUME Inv, NEW f \in Files, AllocIndir(f) PROVE Inv'
<1> USE DEF AllocIndir, InLoop, Running
<1>1. /\ TypeOK /\ FileInv(f) /\ OpSound(f) /\ op[f].k = "write" /\ mounted
      /\ Names /\ BlocksOwned /\ NoLeak
  BY DEF Inv, FileInv
<1>2. op[f] \in [k : {"write"}, ofs : Nat, left : Nat, x : Vals]
  BY <1>1, OpIs
<1>3. PICK o \in 0..(MAX_FILE_SIZE - 1) : o = op[f].ofs
  BY <1>2, MaxSize
<1>4. /\ f \notin unlinked /\ Node(f) = ino[f] /\ f \in inodes
      /\ ino[f] \in InodeType
  <2>1. f \notin unlinked /\ f \in inodes
    BY <1>1 DEF OpSound, Idle
  <2> QED
    BY <1>1, <2>1 DEF Node, TypeOK
<1>5. PICK a \in Addrs : a = AddrIndex(o)
  BY OffsetIs
<1>6. PICK d \in DataBlks : d = ino[f].addrs[a] /\ d = Node(f).addrs[a]
  BY <1>3, <1>4, <1>5 DEF InodeType
<1>7. PICK j \in 0..(B - 1) : j = IndirOfs(o) /\ a >= NDIRECT /\ ~IsDirect(o)
  BY <1>3, <1>5, OffsetIs
<1>8. alloc_data_block([blk EXCEPT ![d][j] = BlkOf(Found)]) /\ blk[d][j] = 0
  BY <1>3, <1>5, <1>6, <1>7
<1>9. \A g \in Files : Node(g)' = Node(g)
  BY DEF Node
<1>10. BlkOf(Found) \in DataBlks /\ BlkOf(Found) # 0
  BY <1>1, <1>8, FoundIs, SfsAssumption DEF DataBlks
<1>11. UNCHANGED <<inodes, unlinked, failed, mounted, op, pos, dirty, ino, dino>>
  OBVIOUS
<1>12. \A g \in Files : Node(g)'.addrs = Node(g).addrs
  BY <1>9
<1>13. /\ Names' /\ BlocksOwned' /\ NoLeak'
       /\ NamedAt(<<f, a, j>>)' = BlkOf(Found)
       /\ \A p \in Places : p # <<f, a, j>> => NamedAt(p)' = NamedAt(p)
       /\ blk' \in [DataBlks -> [0..(B - 1) -> Nat]]
  BY <1>1, <1>4, <1>6, <1>7, <1>8, <1>11, <1>12, AllocEntryNames
<1>14. TypeOK'
  <2>1. bmap' \in [BmapBlks -> SUBSET (0..(BMAP - 1))]
    BY <1>1, <1>8, FoundIs
  <2> QED
    BY <1>1, <1>13, <2>1
       DEF TypeOK, OpType, InodeType, MAX_FILE_SIZE, DataBlks, Addrs, BmapBlks
<1>15. OpSound(f)' /\ Saved(f)'
  BY <1>1, <1>4, <1>9 DEF OpSound, Saved, MAX_FILE_SIZE, FileInv
<1>16. PICK q \in Places : /\ q = PlaceOf(f, o) /\ q = <<f, a, j>>
                           /\ FirstBlk(q) * B <= o
  BY <1>4, <1>5, <1>7, PlaceOfIs DEF PlaceOf
<1>17. q[1] = f /\ NamedAt(q)' # 0
  BY <1>10, <1>13, <1>16
<1>18. Asked(f, FirstBlk(q) * B)
  BY <1>1, <1>3, <1>16 DEF Asked
<1>19. Node(f)'.size = Node(f).size
  BY <1>9
<1> HIDE DEF AllocIndir
<1> QED
  BY <1>4, <1>11, <1>13, <1>14, <1>15, <1>16, <1>17, <1>18, <1>19, AllocStep

-----------------------------------------------------------------------------
(* Freeing *)

(* A step of sfs_delete_inode: names go, and those of its file only. *)
LEMMA FreeStep ==
  ASSUME Inv, TypeOK', NEW f \in Files, f \in unlinked,
         UNCHANGED <<inodes, unlinked, mounted, failed, dino, dirty, pos>>,
         Names', BlocksOwned', NoLeak',
         op[f].k = "delete", op'[f].k = "delete", Node(f)'.size = Node(f).size,
         \A p \in Places : NamedAt(p)' \in {NamedAt(p), 0},
         \A p \in Places : p[1] # f => NamedAt(p)' = NamedAt(p),
         \A g \in Files \ {f} : op'[g] = op[g] /\ ino'[g] = ino[g],
         OpSound(f)', Deletes(f)'
  PROVE  Inv'
<1>1. TypeOK /\ \A g \in Files : FileInv(g)
  BY DEF Inv
<1>2. \A g \in Files \ {f} : FileInv(g)'
  BY <1>1, OtherFile
<1>3. Saved(f)' /\ HoleFree(f)'
  BY DEF Saved, HoleFree
<1>4. Exact(f)'
  <2>1. Places' = Places
    BY DEF Places, Addrs
  <2>2. Used' \subseteq Used
    BY <2>1 DEF Used
  <2>3. End(f)' = End(f)
    BY DEF End
  <2>4. Exact(f)
    BY <1>1 DEF FileInv
  <2> QED
    BY <2>2, <2>3, <2>4 DEF Exact, Asked, FirstBlk
<1> QED
  BY <1>2, <1>3, <1>4 DEF Inv, FileInv

(* An address becomes 0: with it go the names in its block. *)
LEMMA AddrGone ==
  ASSUME TypeOK, Names, BlocksOwned, NoLeak, mounted, NEW f \in inodes, NEW a \in Addrs,
         ino[f].addrs[a] # 0, free_data_block(ino[f].addrs[a]),
         ino' = [ino EXCEPT ![f].addrs[a] = 0],
         UNCHANGED <<inodes, failed, mounted, blk>>,
         ~failed => \A j \in 0..(B - 1) : a >= NDIRECT => NamedAt(<<f, a, j>>) = 0
  PROVE  /\ Names' /\ BlocksOwned' /\ NoLeak'
         /\ bmap' \in [BmapBlks -> SUBSET (0..(BMAP - 1))]
         /\ ino' \in [Files -> InodeType]
         /\ ino'[f].size = ino[f].size
         /\ ino'[f].addrs = [ino[f].addrs EXCEPT ![a] = 0]
         /\ \A g \in Files \ {f} : ino'[g] = ino[g]
         /\ \A p \in Places : NamedAt(p)' \in {NamedAt(p), 0}
         /\ \A p \in Places : p[1] # f => NamedAt(p)' = NamedAt(p)
<1>1. f \in Files /\ ino[f] \in InodeType /\ Node(f) = ino[f]
  BY DEF TypeOK, Node
<1>2. PICK b \in DataBlks : b = ino[f].addrs[a]
  BY <1>1 DEF InodeType
<1>3. /\ bmap' \in [BmapBlks -> SUBSET (0..(BMAP - 1))]
      /\ Marked' = Marked \ {b}
  BY <1>2, FreeIs
<1>4. ino'[f] = [ino[f] EXCEPT !.addrs[a] = 0]
  BY <1>1 DEF TypeOK
<1>5. /\ ino'[f] \in InodeType /\ ino'[f].size = ino[f].size
      /\ ino'[f].addrs = [ino[f].addrs EXCEPT ![a] = 0]
  BY <1>1, <1>4 DEF InodeType
<1>6. \A g \in Files \ {f} : ino'[g] = ino[g]
  BY DEF TypeOK
<1>7. ino' \in [Files -> InodeType]
  <2>1. ino' = [ino EXCEPT ![f] = ino'[f]]
    BY <1>1, <1>4 DEF TypeOK
  <2> QED
    BY <1>5, <2>1 DEF TypeOK
<1>8. Node(f)' = ino'[f] /\ \A g \in Files \ {f} : Node(g)' = Node(g)
  BY <1>6 DEF Node
<1>9. PICK q \in Used : q = <<f, a, -1>> /\ NamedAt(q) = b
  BY <1>1, <1>2, AddrOwned
<1>10. ino'[f].addrs[a] = 0
  BY <1>1, <1>5 DEF InodeType
<1>11. \A j : NamedAt(<<f, a, j>>)' = 0
  BY <1>8, <1>10 DEF NamedAt
<1>12. ASSUME NEW p \in Places, ~(p[1] = f /\ p[2] = a) PROVE NamedAt(p)' = NamedAt(p)
  <2>1. p[1] \in Files /\ p[2] \in Addrs
    BY PlaceParts DEF TypeOK
  <2>2. Node(p[1])'.addrs[p[2]] = Node(p[1]).addrs[p[2]]
    <3>1. CASE p[1] = f
      BY <1>1, <1>5, <1>8, <1>12, <2>1, <3>1 DEF InodeType
    <3>2. CASE p[1] # f
      BY <1>8, <2>1, <3>2
    <3> QED
      BY <3>1, <3>2
  <2> QED
    BY <2>2 DEF NamedAt
<1>13. ASSUME NEW p \in Places, p[1] = f, p[2] = a PROVE NamedAt(p)' = 0
  <2>1. p = <<f, a, p[3]>>
    BY <1>13, PlaceParts
  <2> QED
    BY <1>11, <2>1
<1>14. \A p \in Places : NamedAt(p)' \in {NamedAt(p), 0}
  BY <1>12, <1>13
<1>15. ASSUME ~failed, NEW p \in Places, p # q PROVE NamedAt(p)' = NamedAt(p)
  <2>1. CASE ~(p[1] = f /\ p[2] = a)
    BY <1>12, <2>1
  <2>2. CASE p[1] = f /\ p[2] = a
    <3>1. p = <<f, a, p[3]>> /\ p[3] \in -1..(B - 1) /\ (p[3] # -1 => a >= NDIRECT)
      BY <2>2, PlaceParts
    <3>2. p[3] \in 0..(B - 1) /\ a >= NDIRECT
      BY <1>9, <1>15, <3>1, SfsAssumption
    <3>3. NamedAt(p) = 0
      BY <1>15, <3>1, <3>2
    <3> QED
      BY <1>13, <2>2, <3>3
  <2> QED
    BY <2>1, <2>2
<1>16. NamedAt(q)' = 0
  BY <1>9, <1>11
<1>17. Names' /\ BlocksOwned' /\ NoLeak'
  BY <1>3, <1>9, <1>14, <1>15, <1>16, NameGone
<1> QED
  BY <1>3, <1>5, <1>6, <1>7, <1>12, <1>14, <1>17

LEMMA DeleteDirectInv == ASSUME Inv, NEW f \in Files, DeleteDirect(f) PROVE Inv'
<1> USE DEF DeleteDirect, Deleting
<1>1. TypeOK /\ FileInv(f) /\ OpSound(f) /\ Names /\ BlocksOwned /\ NoLeak
  BY DEF Inv, FileInv
<1>2. /\ op[f] \in [k : {"delete"}, size : Nat, index : Nat, indir : -1..B]
      /\ op[f].k = "delete" /\ mounted /\ f \in unlinked /\ f \in inodes
      /\ Node(f) = ino[f] /\ ino[f].size \in Nat
      /\ ino[f].addrs \in [Addrs -> DataBlks \cup {0}]
  BY <1>1, DeletingIs
<1>3. PICK a \in Addrs : a = op[f].index /\ a < NDIRECT /\ a \in Nat
  BY <1>2, SfsAssumption DEF Addrs
<1>4. op[f].indir = -1
  BY <1>1, <1>2, <1>3, SfsAssumption DEF OpSound
<1>5. op'[f] = [op[f] EXCEPT !.size = op[f].size + B, !.index = a + 1]
  BY <1>1, <1>3 DEF TypeOK
<1>6. /\ op'[f] \in [k : {"delete"}, size : Nat, index : Nat, indir : -1..B]
      /\ op'[f].k = "delete" /\ op'[f].indir = -1
      /\ op'[f].size = op[f].size + B /\ op'[f].index = a + 1
  <2>1. op[f].size + B \in Nat /\ a + 1 \in Nat
    BY <1>2, <1>3, SfsAssumption
  <2>2. PICK z \in [k : {"delete"}, size : Nat, index : Nat, indir : -1..B] : z = op[f]
    BY <1>2
  <2>3. PICK m \in Nat, i \in Nat : m = op[f].size + B /\ i = a + 1
    BY <2>1
  <2>4. op'[f] = [z EXCEPT !.size = m, !.index = i]
    BY <1>5, <2>2, <2>3
  <2> HIDE DEF DeleteDirect
  <2>5. /\ op'[f] \in [k : {"delete"}, size : Nat, index : Nat, indir : -1..B]
        /\ op'[f].k = z.k /\ op'[f].indir = z.indir /\ op'[f].size = m /\ op'[f].index = i
    BY <2>4
  <2> QED
    BY <1>2, <1>4, <2>2, <2>3, <2>5
<1>7. /\ ino[f].addrs[a] # 0 /\ free_data_block(ino[f].addrs[a])
      /\ ino' = [ino EXCEPT ![f].addrs[a] = 0] /\ ~(a >= NDIRECT)
      /\ UNCHANGED <<inodes, failed, mounted, blk, unlinked, dino, dirty, pos>>
  BY <1>3, SfsAssumption
<1>8. /\ Names' /\ BlocksOwned' /\ NoLeak'
      /\ bmap' \in [BmapBlks -> SUBSET (0..(BMAP - 1))]
      /\ ino' \in [Files -> InodeType] /\ ino'[f].size = ino[f].size
      /\ ino'[f].addrs = [ino[f].addrs EXCEPT ![a] = 0]
      /\ \A g \in Files \ {f} : ino'[g] = ino[g]
      /\ \A p \in Places : NamedAt(p)' \in {NamedAt(p), 0}
      /\ \A p \in Places : p[1] # f => NamedAt(p)' = NamedAt(p)
  <2> HIDE DEF DeleteDirect
  <2> QED
    BY <1>1, <1>2, <1>7, AddrGone
<1>9. \A g \in Files \ {f} : op'[g] = op[g]
  BY <1>1 DEF TypeOK
<1>10. TypeOK'
  <2>1. op' \in [Files -> OpType]
    <3>1. op' = [op EXCEPT ![f] = op'[f]]
      BY <1>1 DEF TypeOK
    <3> QED
      BY <1>1, <1>6, <3>1 DEF TypeOK, OpType
  <2> QED
    BY <1>1, <1>8, <2>1
       DEF TypeOK, OpType, InodeType, MAX_FILE_SIZE, DataBlks, Addrs, BmapBlks
<1>11. OpSound(f)' /\ Node(f)'.size = Node(f).size
  <2>1. f \in unlinked' /\ f \in inodes' /\ mounted'
    BY <1>2
  <2>2. Node(f)' = ino'[f]
    BY <2>1 DEF Node
  <2> QED
    BY <1>2, <1>6, <1>8, <2>1, <2>2 DEF OpSound
<1>12. ASSUME ~failed PROVE AtAddr(f)'
  <2>1. AtAddr(f)
    BY <1>1, <1>2, <1>3, <1>4, <1>12 DEF FileInv, Deletes, AtEntry, AtEnd
  <2>2. op'[f].size = op'[f].index * B
    <3>1. op[f].size = a * B
      BY <1>3, <2>1 DEF AtAddr
    <3>2. a * B + B = (a + 1) * B
      BY SfsAssumption, <1>3
    <3> QED
      BY <1>6, <3>1, <3>2
  <2>3. ASSUME NEW c \in Addrs, c < a + 1 PROVE ino'[f].addrs[c] = 0
    <3>1. CASE c = a
      BY <1>2, <1>8, <3>1
    <3>2. CASE c < a
      BY <1>2, <1>3, <1>8, <2>1, <3>2 DEF AtAddr, AddrsGone, Addrs
    <3> QED
      BY <1>3, <2>3, <3>1, <3>2, SfsAssumption DEF Addrs
  <2>4. ASSUME NEW c \in (a + 1)..NDIRECT, c * B < ino[f].size
        PROVE  ino'[f].addrs[c] # 0
    <3>1. c \in Addrs /\ c # a /\ c \in a..NDIRECT
      BY <1>3, SfsAssumption DEF Addrs
    <3> QED
      BY <1>2, <1>3, <1>8, <2>1, <2>4, <3>1 DEF AtAddr
  <2>5. a + 1 <= NDIRECT
    BY <1>3, SfsAssumption
  <2> QED
    BY <1>6, <1>8, <2>2, <2>3, <2>4, <2>5 DEF AtAddr, AddrsGone, Addrs
<1>13. Deletes(f)'
  BY <1>6, <1>7, <1>12 DEF Deletes
<1> HIDE DEF DeleteDirect
<1> QED
  BY <1>2, <1>6, <1>7, <1>8, <1>9, <1>10, <1>11, <1>13, FreeStep

LEMMA DeleteEntryInv == ASSUME Inv, NEW f \in Files, DeleteEntry(f) PROVE Inv'
<1> USE DEF DeleteEntry, Deleting
<1>1. TypeOK /\ FileInv(f) /\ OpSound(f) /\ Names /\ BlocksOwned /\ NoLeak
  BY DEF Inv, FileInv
<1>2. /\ op[f] \in [k : {"delete"}, size : Nat, index : Nat, indir : -1..B]
      /\ op[f].k = "delete" /\ mounted /\ f \in unlinked /\ f \in inodes
      /\ Node(f) = ino[f] /\ ino[f].size \in Nat
      /\ ino[f].addrs \in [Addrs -> DataBlks \cup {0}]
  BY <1>1, DeletingIs
<1>3. PICK a \in Addrs, j \in 0..(B - 1) :
        /\ a = op[f].index /\ a >= NDIRECT /\ ino[f].addrs[a] # 0
        /\ j = op[f].indir
  <2>1. op[f].index \in NDIRECT..(NDIRECT + NINDIRECT - 1) /\ ino[f].addrs[op[f].index] # 0
    BY <1>1, <1>2, SfsAssumption DEF OpSound
  <2> QED
    BY <2>1, SfsAssumption DEF Addrs
<1>4. PICK b \in DataBlks : /\ b = ino[f].addrs[a] /\ <<f, a, -1>> \in Used
                            /\ NamedAt(<<f, a, -1>>) = b
  BY <1>1, <1>2, <1>3, AddrOwned
<1>5. blk' = [blk EXCEPT ![b][j] = 0] /\ blk \in [DataBlks -> [0..(B - 1) -> Nat]]
  BY <1>1, <1>3, <1>4 DEF TypeOK
<1>6. /\ blk' \in [DataBlks -> [0..(B - 1) -> Nat]]
      /\ blk'[b] = [blk[b] EXCEPT ![j] = 0]
      /\ \A c \in DataBlks : c # b => blk'[c] = blk[c]
  <2> HIDE DEF DeleteEntry, Deleting
  <2>1. PICK y \in [0..(B - 1) -> Nat] : y = [blk[b] EXCEPT ![j] = 0]
    BY <1>5
  <2>2. blk' = [blk EXCEPT ![b] = y]
    BY <1>5, <2>1
  <2> QED
    BY <1>5, <2>1, <2>2
<1>7. blk'[b][j] = 0 /\ \A i \in 0..(B - 1) : i # j => blk'[b][i] = blk[b][i]
  <2> HIDE DEF DeleteEntry, Deleting
  <2>1. blk[b] \in [0..(B - 1) -> Nat]
    BY <1>5
  <2> QED
    BY <1>6, <2>1
<1>8. op'[f] = [op[f] EXCEPT !.indir = j + 1, !.size = op[f].size + B]
  BY <1>1, <1>3 DEF TypeOK
<1>9. /\ op'[f] \in [k : {"delete"}, size : Nat, index : Nat, indir : -1..B]
      /\ op'[f].k = "delete" /\ op'[f].indir = j + 1
      /\ op'[f].size = op[f].size + B /\ op'[f].index = a
  <2>1. PICK z \in [k : {"delete"}, size : Nat, index : Nat, indir : -1..B] : z = op[f]
    BY <1>2
  <2>2. PICK m \in Nat, i \in -1..B : m = op[f].size + B /\ i = j + 1
    BY <1>2, SfsAssumption
  <2>3. op'[f] = [z EXCEPT !.indir = i, !.size = m]
    BY <1>8, <2>1, <2>2
  <2> HIDE DEF DeleteEntry
  <2>4. /\ op'[f] \in [k : {"delete"}, size : Nat, index : Nat, indir : -1..B]
        /\ op'[f].k = z.k /\ op'[f].indir = i /\ op'[f].size = m /\ op'[f].index = z.index
    BY <2>3
  <2> QED
    BY <1>2, <1>3, <2>1, <2>2, <2>4
<1>10. /\ UNCHANGED <<inodes, failed, mounted, ino, unlinked, dino, dirty, pos>>
       /\ IF blk[b][j] = 0 THEN bmap' = bmap ELSE free_data_block(blk[b][j])
  BY <1>3, <1>4
<1>11. \A g \in Files \ {f} : op'[g] = op[g]
  BY <1>1 DEF TypeOK
<1> HIDE DEF DeleteEntry
<1>12. \A g \in Files : Node(g)' = Node(g)
  BY <1>10 DEF Node
<1>13. PICK q \in Places : q = <<f, a, j>>
  <2>1. j \in -1..(B - 1)
    BY SfsAssumption
  <2> QED
    BY <1>2, <1>3, <2>1, PlacesAre
<1>14. NamedAt(q) = blk[b][j] /\ NamedAt(q)' = 0
  <2>1. j # -1 /\ b # 0
    BY SfsAssumption DEF DataBlks
  <2> QED
    BY <1>2, <1>4, <1>7, <1>12, <1>13, <2>1 DEF NamedAt
<1>15. ASSUME NEW p \in Places, p # q PROVE NamedAt(p)' = NamedAt(p)
  <2>1. PICK g \in inodes, c \in Addrs, i \in -1..(B - 1) : p = <<g, c, i>>
    BY PlacesAre
  <2>2. g \in Files /\ Node(g)'.addrs = Node(g).addrs
    BY <1>1, <1>12 DEF TypeOK
  <2>3. CASE i = -1 \/ Node(g).addrs[c] = 0
    BY <2>1, <2>2, <2>3 DEF NamedAt
  <2>4. CASE i # -1 /\ Node(g).addrs[c] # 0
    <3>1. PICK d \in DataBlks : /\ d = Node(g).addrs[c] /\ <<g, c, -1>> \in Used
                                /\ NamedAt(<<g, c, -1>>) = d
      BY <1>1, <2>4, AddrOwned
    <3>2. blk'[d][i] = blk[d][i]
      <4>1. CASE d # b
        BY <1>6, <4>1
      <4>2. CASE d = b
        <5>1. <<g, c, -1>> = <<f, a, -1>>
          BY <1>1, <1>4, <3>1, <4>2 DEF BlocksOwned
        <5>2. i # j /\ i \in 0..(B - 1)
          BY <1>13, <1>15, <2>1, <2>4, <5>1, SfsAssumption
        <5> QED
          BY <1>7, <4>2, <5>2
      <4> QED
        BY <4>1, <4>2
    <3> QED
      BY <2>1, <2>2, <2>4, <3>1, <3>2 DEF NamedAt
  <2> QED
    BY <2>3, <2>4
<1>16. \A p \in Places : NamedAt(p)' \in {NamedAt(p), 0}
  BY <1>14, <1>15
<1>17. \A p \in Places : p[1] # f => NamedAt(p)' = NamedAt(p)
  BY <1>13, <1>15
<1>18. /\ Names' /\ BlocksOwned' /\ NoLeak'
       /\ bmap' \in [BmapBlks -> SUBSET (0..(BMAP - 1))]
  <2>1. CASE blk[b][j] = 0
    <3>1. \A p \in Places : NamedAt(p)' = NamedAt(p)
      BY <1>14, <1>15, <2>1
    <3> QED
      BY <1>1, <1>10, <2>1, <3>1, MarkedSame, NamesKept DEF TypeOK, BmapBlks
  <2>2. CASE blk[b][j] # 0
    <3>1. NamedAt(q) \in DataBlks /\ q \in Used
      BY <1>1, <1>14, <2>2 DEF Names, Used
    <3>2. /\ bmap' \in [BmapBlks -> SUBSET (0..(BMAP - 1))]
          /\ Marked' = Marked \ {NamedAt(q)}
      BY <1>1, <1>10, <1>14, <2>2, <3>1, FreeIs
    <3> QED
      BY <1>1, <1>10, <1>14, <1>15, <1>16, <3>1, <3>2, NameGone
  <2> QED
    BY <2>1, <2>2
<1>19. TypeOK'
  <2>1. op' \in [Files -> OpType]
    <3>1. op' = [op EXCEPT ![f] = op'[f]]
      BY <1>1 DEF TypeOK, DeleteEntry
    <3> QED
      BY <1>1, <1>9, <3>1 DEF TypeOK, OpType
  <2>2. UNCHANGED <<panicked, overrun, calls>>
    BY DEF DeleteEntry
  <2> QED
    BY <1>1, <1>6, <1>10, <1>18, <2>1, <2>2
       DEF TypeOK, OpType, InodeType, MAX_FILE_SIZE, DataBlks, Addrs, BmapBlks
<1>20. OpSound(f)'
  <2>1. a \in NDIRECT..(NDIRECT + NINDIRECT - 1)
    BY <1>3, SfsAssumption DEF Addrs
  <2> QED
    BY <1>2, <1>3, <1>9, <1>10, <1>12, <2>1 DEF OpSound
<1>21. ASSUME ~failed PROVE AtEntry(f)'
  <2>1. AtEntry(f) /\ a = NDIRECT
    BY <1>1, <1>2, <1>3, <1>21, SfsAssumption DEF FileInv, Deletes, AtAddr, AtEntry, AtEnd
  <2>2. op'[f].size = (NDIRECT + op'[f].indir) * B
    <3>1. op[f].size = (NDIRECT + j) * B
      BY <1>3, <2>1 DEF AtEntry
    <3>2. (NDIRECT + j) * B + B = (NDIRECT + (j + 1)) * B
      BY SfsAssumption
    <3> QED
      BY <1>9, <3>1, <3>2
  <2>3. ASSUME NEW i \in 0..(j + 1 - 1) PROVE NamedAt(<<f, NDIRECT, i>>)' = 0
    <3>1. CASE i = j
      BY <1>13, <1>14, <2>1, <3>1
    <3>2. CASE i # j
      <4>1. i \in 0..(j - 1) /\ i \in -1..(B - 1)
        BY <3>2, SfsAssumption
      <4>2. <<f, NDIRECT, i>> \in Places
        BY <1>2, <1>3, <2>1, <4>1, PlacesAre
      <4>3. <<f, NDIRECT, i>> # q
        BY <1>13, <3>2
      <4> QED
        BY <1>3, <1>15, <2>1, <4>1, <4>2, <4>3 DEF AtEntry
    <3> QED
      BY <3>1, <3>2
  <2>4. op'[f].indir >= 0
    BY <1>9, SfsAssumption
  <2> QED
    BY <1>9, <1>10, <2>1, <2>2, <2>3, <2>4 DEF AtEntry, AddrsGone, Addrs
<1>22. Deletes(f)'
  BY <1>9, <1>10, <1>21 DEF Deletes
<1>23. Node(f)'.size = Node(f).size
  BY <1>12
<1> QED
  BY <1>2, <1>9, <1>10, <1>11, <1>16, <1>17, <1>18, <1>19, <1>20, <1>22, <1>23, FreeStep

(* While no call has failed, a file that is being deleted names no block   *)
(* past its size.                                                          *)
LEMMA PastSize ==
  ASSUME Inv, NEW f \in Files, Running, op[f].k = "delete", ~failed,
         NEW p \in Places, p[1] = f, NEW n \in Nat, ino[f].size <= n * B,
         n <= FirstBlk(p)
  PROVE  NamedAt(p) = 0
<1> SUFFICES ASSUME NamedAt(p) # 0 PROVE FALSE
  OBVIOUS
<1>1. TypeOK /\ OpSound(f) /\ Exact(f)
  BY DEF Inv, FileInv
<1>2. End(f) = ino[f].size /\ ino[f].size \in Nat
  BY <1>1, DeletingIs
<1>3. Asked(f, FirstBlk(p) * B)
  BY <1>1 DEF Exact, Used
<1>4. FirstBlk(p) * B < ino[f].size
  BY <1>2, <1>3 DEF Asked
<1>5. FirstBlk(p) \in Nat
  BY FirstBlkNat
<1>6. n * B <= FirstBlk(p) * B /\ n * B \in Nat /\ FirstBlk(p) * B \in Nat
  BY <1>5, TimesMono, SfsAssumption
<1> QED
  BY <1>2, <1>4, <1>6

LEMMA DeleteIndirInv == ASSUME Inv, NEW f \in Files, DeleteIndir(f) PROVE Inv'
<1> USE DEF DeleteIndir
<1>1. /\ TypeOK /\ FileInv(f) /\ OpSound(f) /\ Names /\ BlocksOwned /\ NoLeak
      /\ Running
  BY DEF Inv, FileInv
<1>2. /\ op[f] \in [k : {"delete"}, size : Nat, index : Nat, indir : -1..B]
      /\ op[f].k = "delete" /\ mounted /\ f \in unlinked /\ f \in inodes
      /\ Node(f) = ino[f] /\ ino[f].size \in Nat
      /\ ino[f].addrs \in [Addrs -> DataBlks \cup {0}]
  BY <1>1, DeletingIs
<1>3. PICK a \in Addrs : /\ a = op[f].index /\ a >= NDIRECT /\ a \in Nat
                         /\ ino[f].addrs[a] # 0
  <2>1. op[f].index \in NDIRECT..(NDIRECT + NINDIRECT - 1) /\ ino[f].addrs[op[f].index] # 0
    BY <1>1, <1>2, SfsAssumption DEF OpSound
  <2> QED
    BY <1>2, <2>1, SfsAssumption DEF Addrs
<1>4. op'[f] = [op[f] EXCEPT !.indir = -1, !.index = a + 1]
  BY <1>1, <1>3 DEF TypeOK
<1>5. /\ op'[f] \in [k : {"delete"}, size : Nat, index : Nat, indir : -1..B]
      /\ op'[f].k = "delete" /\ op'[f].indir = -1 /\ op'[f].size = op[f].size
  <2>1. PICK z \in [k : {"delete"}, size : Nat, index : Nat, indir : -1..B] : z = op[f]
    BY <1>2
  <2>2. PICK m \in Nat, i \in -1..B : m = a + 1 /\ i = -1
    BY <1>3, SfsAssumption
  <2>3. op'[f] = [z EXCEPT !.indir = i, !.index = m]
    BY <1>4, <2>1, <2>2
  <2> HIDE DEF DeleteIndir
  <2>4. /\ op'[f] \in [k : {"delete"}, size : Nat, index : Nat, indir : -1..B]
        /\ op'[f].k = z.k /\ op'[f].indir = i /\ op'[f].size = z.size
    BY <2>3
  <2> QED
    BY <1>2, <2>1, <2>2, <2>4
<1>6. /\ free_data_block(ino[f].addrs[a]) /\ ino' = [ino EXCEPT ![f].addrs[a] = 0]
      /\ UNCHANGED <<inodes, failed, mounted, blk, unlinked, dino, dirty, pos>>
      /\ op[f].indir >= 0 /\ op[f].size >= ino[f].size
  BY <1>3
<1>7. \A g \in Files \ {f} : op'[g] = op[g]
  BY <1>1 DEF TypeOK
<1>8. op' = [op EXCEPT ![f] = op'[f]] /\ UNCHANGED <<panicked, overrun, calls>>
  BY <1>1 DEF TypeOK
<1> HIDE DEF DeleteIndir
<1>9. ASSUME ~failed
      PROVE  \E i \in 0..B :
                /\ AtEntry(f) /\ a = NDIRECT /\ i = op[f].indir
                /\ NDIRECT + i \in Nat /\ ino[f].size <= (NDIRECT + i) * B
  <2>1. AtEntry(f)
    BY <1>1, <1>2, <1>6, <1>9, SfsAssumption DEF FileInv, Deletes, AtAddr, AtEnd
  <2> QED
    BY <1>2, <1>3, <1>6, <2>1, SfsAssumption DEF AtEntry
<1>10. ASSUME ~failed, NEW j \in 0..(B - 1) PROVE NamedAt(<<f, a, j>>) = 0
  <2>1. PICK i \in 0..B : /\ AtEntry(f) /\ a = NDIRECT /\ i = op[f].indir
                          /\ NDIRECT + i \in Nat /\ ino[f].size <= (NDIRECT + i) * B
    BY <1>9, <1>10
  <2>2. CASE j < i
    <3>1. j \in 0..(i - 1)
      BY <2>2, SfsAssumption
    <3> QED
      BY <2>1, <3>1 DEF AtEntry
  <2>3. CASE ~(j < i)
    <3>1. PICK p \in Places : p = <<f, a, j>>
      <4>1. j \in -1..(B - 1)
        BY SfsAssumption
      <4> QED
        BY <1>2, <1>3, <4>1, PlacesAre
    <3>2. FirstBlk(p) = NDIRECT + j
      <4>1. (a - NDIRECT) * B = 0 /\ ~(a < NDIRECT) /\ j # -1
        BY <2>1, SfsAssumption
      <4> QED
        BY <3>1, <4>1, SfsAssumption DEF FirstBlk
    <3>3. NDIRECT + i <= FirstBlk(p) /\ p[1] = f
      BY <2>3, <3>1, <3>2, SfsAssumption
    <3> QED
      BY <1>1, <1>2, <1>10, <2>1, <3>1, <3>3, PastSize
  <2> QED
    BY <2>2, <2>3
<1>11. /\ Names' /\ BlocksOwned' /\ NoLeak'
       /\ bmap' \in [BmapBlks -> SUBSET (0..(BMAP - 1))]
       /\ ino' \in [Files -> InodeType] /\ ino'[f].size = ino[f].size
       /\ ino'[f].addrs = [ino[f].addrs EXCEPT ![a] = 0]
       /\ \A g \in Files \ {f} : ino'[g] = ino[g]
       /\ \A p \in Places : NamedAt(p)' \in {NamedAt(p), 0}
       /\ \A p \in Places : p[1] # f => NamedAt(p)' = NamedAt(p)
  <2>1. ~failed => \A j \in 0..(B - 1) : a >= NDIRECT => NamedAt(<<f, a, j>>) = 0
    BY <1>10
  <2>2. UNCHANGED <<inodes, failed, mounted, blk>>
    BY <1>6
  <2> QED
    BY <1>1, <1>2, <1>3, <1>6, <2>1, <2>2, AddrGone
<1>12. TypeOK'
  <2>1. op' \in [Files -> OpType]
    BY <1>1, <1>5, <1>8 DEF TypeOK, OpType
  <2> QED
    BY <1>1, <1>6, <1>8, <1>11, <2>1
       DEF TypeOK, OpType, InodeType, MAX_FILE_SIZE, DataBlks, Addrs, BmapBlks
<1>13. OpSound(f)' /\ Node(f)'.size = Node(f).size
  <2>1. Node(f)' = ino'[f]
    BY <1>2, <1>6 DEF Node
  <2> QED
    BY <1>2, <1>5, <1>6, <1>11, <2>1 DEF OpSound
<1>14. ASSUME ~failed PROVE AtEnd(f)'
  <2>1. PICK i \in 0..B : /\ AtEntry(f) /\ a = NDIRECT /\ i = op[f].indir
                          /\ NDIRECT + i \in Nat /\ ino[f].size <= (NDIRECT + i) * B
    BY <1>9, <1>14
  <2>2. ASSUME NEW c \in Addrs PROVE ino'[f].addrs[c] = 0
    <3>1. CASE c = a
      BY <1>2, <1>11, <3>1
    <3>2. CASE c < a
      BY <1>2, <1>11, <2>1, <3>2, SfsAssumption DEF AtEntry, AddrsGone
    <3>3. CASE a < c
      <4>1. PICK p \in Places : p = <<f, c, -1>>
        <5>1. -1 \in -1..(B - 1)
          BY SfsAssumption
        <5> QED
          BY <1>2, <5>1, PlacesAre
      <4>2. PICK m \in Nat : m = c - NDIRECT /\ 1 <= m
        BY <2>1, <3>3, SfsAssumption DEF Addrs
      <4>3. 1 * B <= m * B /\ m * B \in Nat /\ 1 * B = B
        BY <4>2, TimesMono, SfsAssumption
      <4>4. FirstBlk(p) = NDIRECT + m * B
        BY <2>1, <3>3, <4>1, <4>2, <4>3, SfsAssumption DEF FirstBlk, Addrs
      <4>5. NDIRECT + i <= FirstBlk(p) /\ p[1] = f
        BY <4>1, <4>3, <4>4, SfsAssumption
      <4>6. NamedAt(p) = 0
        BY <1>1, <1>2, <1>14, <2>1, <4>1, <4>5, PastSize
      <4> QED
        <5>1. ino[f].addrs[c] = 0
          BY <1>2, <4>1, <4>6, NamedIs
        <5>2. c # a
          BY <3>3, SfsAssumption DEF Addrs
        <5> QED
          BY <1>2, <1>11, <5>1, <5>2
    <3> QED
      BY <1>3, <3>1, <3>2, <3>3, SfsAssumption DEF Addrs
  <2> QED
    BY <1>5, <1>6, <1>11, <2>2 DEF AtEnd, AddrsGone, Addrs
<1>15. Deletes(f)'
  BY <1>5, <1>6, <1>14 DEF Deletes
<1> QED
  BY <1>2, <1>5, <1>6, <1>7, <1>11, <1>12, <1>13, <1>15, FreeStep

-----------------------------------------------------------------------------
(* Making and freeing inodes *)

LEMMA PlacesChange ==
  ASSUME Names, BlocksOwned, NoLeak, Marked' = Marked, UNCHANGED failed,
         \A p \in Places' : NamedAt(p)' = IF p \in Places THEN NamedAt(p) ELSE 0,
         ~failed => Used \subseteq Places'
  PROVE  Names' /\ BlocksOwned' /\ NoLeak'
<1>1. Names'
  BY DEF Names, DataBlks
<1>2. \A p \in Used' : p \in Used /\ NamedAt(p)' = NamedAt(p)
  BY DEF Used
<1>3. BlocksOwned'
  BY <1>2 DEF BlocksOwned
<1>4. ASSUME ~failed PROVE {NamedAt(p)' : p \in Used'} = {NamedAt(p) : p \in Used}
  <2>1. Used \subseteq Used'
    BY <1>4 DEF Used
  <2>2. Used' = Used
    BY <1>2, <2>1
  <2> QED
    BY <1>2, <2>2
<1> QED
  BY <1>1, <1>3, <1>4 DEF NoLeak

(* An inode is taken, which is a new one then, or given back, which names  *)
(* nothing unless a call has failed.                                       *)
LEMMA InodeStep ==
  ASSUME Inv, TypeOK', NEW f \in Files, UNCHANGED <<mounted, bmap, blk, failed>>,
         \A g \in Files \ {f} :
           /\ g \in inodes' <=> g \in inodes
           /\ g \in unlinked' <=> g \in unlinked
           /\ g \in dirty' <=> g \in dirty
           /\ op'[g] = op[g] /\ ino'[g] = ino[g] /\ dino'[g] = dino[g]
           /\ pos'[g] = pos[g],
         op'[f] = Idle, pos'[f] = 0, f \notin unlinked',
         f \in inodes' => /\ f \notin inodes /\ Node(f)' = NewInode
                          /\ mounted => dino'[f] = ino'[f],
         ~failed => \A p \in Places : p[1] = f => NamedAt(p) = 0
  PROVE  Inv'
<1>1. TypeOK /\ Names /\ BlocksOwned /\ NoLeak /\ \A g \in Files : FileInv(g)
  BY DEF Inv
<1>2. inodes \subseteq Files /\ inodes' \subseteq Files
  BY <1>1 DEF TypeOK
<1>3. \A p : p \in Places' <=>
        \E g \in inodes', a \in Addrs, j \in -1..(B - 1) :
          p = <<g, a, j>> /\ (j = -1 \/ a >= NDIRECT)
  BY SfsAssumption DEF Places, Addrs
<1>4. \A p \in Places : p[1] # f => p \in Places'
  BY <1>2, <1>3, PlacesAre
<1>5. ASSUME NEW p \in Places', p[1] # f
      PROVE  p \in Places /\ NamedAt(p)' = NamedAt(p)
  <2>1. p[1] \in Files \ {f} /\ p \in Places
    BY <1>2, <1>3, <1>5, PlacesAre
  <2>2. Node(p[1])' = Node(p[1])
    BY <2>1 DEF Node
  <2> QED
    BY <2>1, <2>2 DEF NamedAt
<1>6. ASSUME NEW p \in Places', p[1] = f PROVE p \notin Places /\ NamedAt(p)' = 0
  <2>1. PICK a \in Addrs, j \in -1..(B - 1) : p = <<f, a, j>> /\ f \in inodes'
    BY <1>3, <1>6
  <2>2. p \notin Places
    BY <2>1, PlaceParts
  <2>3. Node(f)'.addrs[a] = 0
    BY <2>1 DEF NewInode
  <2> QED
    BY <2>1, <2>2, <2>3 DEF NamedAt
<1>7. Names' /\ BlocksOwned' /\ NoLeak'
  <2>1. \A p \in Places' : NamedAt(p)' = IF p \in Places THEN NamedAt(p) ELSE 0
    BY <1>5, <1>6
  <2>2. ~failed => Used \subseteq Places'
    BY <1>4 DEF Used
  <2> QED
    BY <1>1, <2>1, <2>2, MarkedSame, PlacesChange
<1>8. \A g \in Files \ {f} : FileInv(g)'
  <2> TAKE g \in Files \ {f}
  <2>1. \A p \in Places : p[1] = g => NamedAt(p)' = NamedAt(p)
    BY <1>4, <1>5
  <2> QED
    BY <1>1, <2>1, OtherFile
<1>9. FileInv(f)'
  <2>1. f \in inodes' => Node(f)'.size = 0 /\ End(f)' = 0
    BY DEF NewInode, End, Idle
  <2>2. OpSound(f)' /\ Saved(f)' /\ HoleFree(f)' /\ Deletes(f)'
    BY <2>1 DEF OpSound, Saved, HoleFree, Deletes, Idle
  <2>3. Exact(f)'
    BY <1>6 DEF Exact, Used
  <2> QED
    BY <2>2, <2>3 DEF FileInv
<1> QED
  BY <1>7, <1>8, <1>9 DEF Inv

LEMMA NewInodeType == NewInode \in InodeType
<1>1. 0 \in 0..MAX_FILE_SIZE
  BY MaxSize
<1> QED
  BY <1>1 DEF NewInode, InodeType

LEMMA alloc_inodeInv == ASSUME Inv, alloc_inode PROVE Inv'
<1>1. PICK f \in Files \ inodes : f = Min(Files \ inodes)
  <2>1. Files \ inodes \subseteq Nat /\ Files \ inodes # {}
    BY SfsAssumption DEF alloc_inode, Inv, TypeOK
  <2> QED
    BY <2>1, MinIn
<1>2. /\ TypeOK /\ FileInv(f) /\ ~mounted
      /\ UNCHANGED <<mounted, bmap, blk, ino, dirty, unlinked, pos, op, calls,
                     failed, panicked, overrun>>
      /\ inodes' = inodes \cup {f} /\ dino' = [dino EXCEPT ![f] = NewInode]
  BY <1>1 DEF alloc_inode, Inv
<1>3. TypeOK'
  <2>1. inodes' \subseteq Files /\ dirty \subseteq inodes' /\ unlinked \subseteq inodes'
    BY <1>2 DEF TypeOK
  <2>2. dino' \in [Files -> InodeType]
    BY <1>2, NewInodeType DEF TypeOK
  <2> QED
    BY <1>2, <2>1, <2>2
       DEF TypeOK, OpType, InodeType, MAX_FILE_SIZE, DataBlks, Addrs, BmapBlks
<1>4. op'[f] = Idle /\ pos'[f] = 0 /\ f \notin unlinked'
  BY <1>2 DEF FileInv, OpSound, TypeOK
<1>5. Node(f)' = NewInode
  BY <1>2 DEF Node, TypeOK, NewInode
<1>6. \A g \in Files \ {f} : dino'[g] = dino[g] /\ (g \in inodes' <=> g \in inodes)
  BY <1>2 DEF TypeOK
<1>7. \A p \in Places : p[1] # f
  BY PlaceParts
<1> QED
  BY <1>2, <1>3, <1>4, <1>5, <1>6, <1>7, InodeStep

LEMMA alloc_disk_inodeInv == ASSUME Inv, alloc_disk_inode PROVE Inv'
<1>1. PICK f \in Files \ inodes : f = Min(Files \ inodes)
  <2>1. Files \ inodes \subseteq Nat /\ Files \ inodes # {}
    BY SfsAssumption DEF alloc_disk_inode, Inv, TypeOK
  <2> QED
    BY <2>1, MinIn
<1>2. /\ TypeOK /\ FileInv(f) /\ mounted
      /\ UNCHANGED <<mounted, bmap, blk, dirty, unlinked, pos, op, calls,
                     failed, panicked, overrun>>
      /\ inodes' = inodes \cup {f} /\ dino' = [dino EXCEPT ![f] = NewInode]
      /\ ino' = [ino EXCEPT ![f] = NewInode]
  BY <1>1 DEF alloc_disk_inode, Inv, Running
<1>3. TypeOK'
  <2>1. inodes' \subseteq Files /\ dirty \subseteq inodes' /\ unlinked \subseteq inodes'
    BY <1>2 DEF TypeOK
  <2>2. dino' \in [Files -> InodeType] /\ ino' \in [Files -> InodeType]
    BY <1>2, NewInodeType DEF TypeOK
  <2> QED
    BY <1>2, <2>1, <2>2
       DEF TypeOK, OpType, InodeType, MAX_FILE_SIZE, DataBlks, Addrs, BmapBlks
<1>4. op'[f] = Idle /\ pos'[f] = 0 /\ f \notin unlinked'
  BY <1>2 DEF FileInv, OpSound, TypeOK
<1>5. dino'[f] = NewInode /\ ino'[f] = NewInode
  BY <1>2 DEF TypeOK
<1>6. Node(f)' = NewInode
  BY <1>2, <1>5 DEF Node, NewInode
<1>7. \A g \in Files \ {f} : /\ dino'[g] = dino[g] /\ ino'[g] = ino[g]
                             /\ g \in inodes' <=> g \in inodes
  BY <1>2 DEF TypeOK
<1>8. \A p \in Places : p[1] # f
  BY PlaceParts
<1> QED
  BY <1>2, <1>3, <1>4, <1>5, <1>6, <1>7, <1>8, InodeStep

(* When sfs_delete_inode reaches its end and no call has failed the file   *)
(* names nothing: its last blocks went, or it never had them.              *)
LEMMA free_disk_inodeInv == ASSUME Inv, NEW f \in Files, free_disk_inode(f) PROVE Inv'
<1> USE DEF free_disk_inode
<1>1. /\ TypeOK /\ FileInv(f) /\ OpSound(f) /\ Names /\ BlocksOwned /\ NoLeak
      /\ Running
  BY DEF Inv, FileInv
<1>2. /\ op[f] \in [k : {"delete"}, size : Nat, index : Nat, indir : -1..B]
      /\ op[f].k = "delete" /\ mounted /\ f \in unlinked /\ f \in inodes
      /\ Node(f) = ino[f] /\ ino[f].size \in Nat
      /\ op[f].indir = -1 /\ op[f].size >= ino[f].size
  BY <1>1, DeletingIs
<1>3. TypeOK'
  <2>1. /\ inodes' \subseteq Files /\ dirty' \subseteq inodes' /\ unlinked' \subseteq inodes'
        /\ ino' \in [Files -> InodeType]
    BY <1>1, NewInodeType DEF TypeOK
  <2>2. op' \in [Files -> OpType] /\ pos' \in [Files -> 0..MAX_FILE_SIZE]
    BY <1>1, MaxSize DEF TypeOK, OpType
  <2> QED
    BY <1>1, <2>1, <2>2
       DEF TypeOK, OpType, InodeType, MAX_FILE_SIZE, DataBlks, Addrs, BmapBlks
<1>4. op'[f] = Idle /\ pos'[f] = 0 /\ f \notin unlinked' /\ f \notin inodes'
  BY <1>1 DEF TypeOK
<1>5. \A g \in Files \ {f} : op'[g] = op[g] /\ ino'[g] = ino[g] /\ pos'[g] = pos[g]
  BY <1>1 DEF TypeOK
<1>6. \A g \in Files \ {f} : /\ g \in inodes' <=> g \in inodes
                             /\ g \in unlinked' <=> g \in unlinked
                             /\ g \in dirty' <=> g \in dirty
  OBVIOUS
<1>7. UNCHANGED <<mounted, bmap, blk, failed, dino>>
  OBVIOUS
<1> HIDE DEF free_disk_inode
<1>8. ASSUME ~failed, NEW p \in Places, p[1] = f PROVE NamedAt(p) = 0
  <2>1. /\ p = <<f, p[2], p[3]>> /\ p[2] \in Addrs /\ p[3] \in -1..(B - 1)
        /\ p[3] # -1 => p[2] >= NDIRECT
    BY <1>8, PlaceParts
  <2>2. CASE ino[f].addrs[p[2]] = 0
    BY <1>2, <1>8, <2>2 DEF NamedAt
  <2>3. CASE ino[f].addrs[p[2]] # 0
    <3>1. AtAddr(f)
      BY <1>1, <1>2, <1>8, <2>1, <2>3, SfsAssumption
         DEF FileInv, Deletes, AtEntry, AtEnd, AddrsGone, Addrs
    <3>2. PICK n \in Nat : n = op[f].index /\ n <= NDIRECT /\ ino[f].size <= n * B
      BY <1>2, <3>1 DEF AtAddr
    <3>3. n <= p[2]
      BY <2>1, <2>3, <3>1, <3>2, SfsAssumption DEF AtAddr, AddrsGone, Addrs
    <3>4. n <= FirstBlk(p)
      <4>1. CASE p[2] < NDIRECT
        BY <3>3, <4>1 DEF FirstBlk
      <4>2. CASE ~(p[2] < NDIRECT)
        <5>1. PICK d \in Nat : d = p[2] - NDIRECT
          BY <2>1, <4>2, SfsAssumption DEF Addrs
        <5>2. PICK y \in Nat : y = d * B
          BY SfsAssumption
        <5>3. FirstBlk(p) = NDIRECT + y + (IF p[3] = -1 THEN 0 ELSE p[3])
          BY <4>2, <5>1, <5>2 DEF FirstBlk
        <5> QED
          BY <2>1, <3>2, <5>3, SfsAssumption
      <4> QED
        BY <4>1, <4>2
    <3> QED
      BY <1>1, <1>2, <1>8, <3>2, <3>4, PastSize
  <2> QED
    BY <2>2, <2>3
<1> QED
  BY <1>3, <1>4, <1>5, <1>6, <1>7, <1>8, InodeStep

LEMMA sfs_read_inodeInv == ASSUME Inv, sfs_read_inode PROVE Inv'
<1> USE DEF sfs_read_inode
<1>1. TypeOK /\ Names /\ BlocksOwned /\ NoLeak /\ \A g \in Files : FileInv(g)
  BY DEF Inv
<1>2. TypeOK'
  BY <1>1 DEF TypeOK, OpType, InodeType, MAX_FILE_SIZE, DataBlks, Addrs, BmapBlks
<1>3. \A g \in Files : Node(g)' = Node(g)
  BY DEF Node
<1>4. \A p \in Places : NamedAt(p)' = NamedAt(p)
  BY <1>1, <1>3, SameNames
<1>5. Names' /\ BlocksOwned' /\ NoLeak'
  BY <1>1, <1>4, MarkedSame, NamesKept
<1>6. ASSUME NEW f \in Files PROVE FileInv(f)'
  <2>1. op[f] = Idle /\ f \notin unlinked /\ FileInv(f)
    BY <1>1 DEF FileInv, OpSound
  <2>2. End(f)' = End(f)
    BY <1>3 DEF End
  <2>3. Node(f)' = Node(f)
    BY <1>3
  <2>4. OpSound(f)' /\ Saved(f)' /\ Deletes(f)'
    BY <2>1, <2>3 DEF FileInv, OpSound, Saved, Deletes, Idle
  <2>5. f \in inodes \ unlinked' => \A o \in 0..(End(f)' - 1) :
          o \in 0..(MAX_FILE_SIZE - 1) /\ NamedAt(PlaceOf(f, o)) # 0
    <3>1. End(f) \in 0..MAX_FILE_SIZE
      BY <1>1, <2>1, EndIs DEF FileInv
    <3> QED
      BY <2>1, <2>2, <3>1, MaxSize DEF FileInv, HoleFree
  <2>6. \A o \in Nat : Asked(f, o) => Asked(f, o)'
    BY <2>2, <2>3 DEF Asked
  <2> QED
    BY <1>1, <1>2, <1>4, <2>1, <2>4, <2>5, <2>6, SameFile
<1> QED
  BY <1>2, <1>5, <1>6 DEF Inv

-----------------------------------------------------------------------------
(* The invariants *)

LEMMA InitInv == Init => Inv
<1> SUFFICES ASSUME Init PROVE Inv
  OBVIOUS
<1> USE DEF Init
<1>1. TypeOK
  <2>1. 0 \in 0..MAX_FILE_SIZE /\ 0 \in 0..MaxCalls
    BY MaxSize, SfsAssumption
  <2>2. blk \in [DataBlks -> [0..(B - 1) -> Nat]]
    BY ZeroBlkIs
  <2> QED
    BY <2>1, <2>2, NewInodeType DEF TypeOK, OpType
<1>2. Places = {} /\ Used = {}
  BY DEF Places, Used
<1>3. Marked = {}
  BY DEF Marked
<1>4. Names /\ BlocksOwned /\ NoLeak
  BY <1>2, <1>3 DEF Names, BlocksOwned, NoLeak
<1>5. ASSUME NEW f \in Files PROVE FileInv(f)
  BY <1>2 DEF FileInv, OpSound, Saved, HoleFree, Exact, Deletes, Idle
<1> QED
  BY <1>1, <1>4, <1>5 DEF Inv

LEMMA StutterInv == ASSUME Inv, UNCHANGED vars PROVE Inv'
<1>1. TypeOK /\ Names /\ BlocksOwned /\ NoLeak /\ \A g \in Files : FileInv(g)
  BY DEF Inv
<1>2. UNCHANGED <<mounted, inodes, bmap, blk, dino, ino, dirty, unlinked, pos, op,
                  calls, failed, panicked, overrun>>
  BY DEF vars
<1>3. TypeOK'
  BY <1>1, <1>2 DEF TypeOK, OpType, InodeType, MAX_FILE_SIZE, DataBlks, Addrs, BmapBlks
<1>4. \A g \in Files : Node(g)' = Node(g)
  BY <1>2 DEF Node
<1>5. \A p \in Places : NamedAt(p)' = NamedAt(p)
  BY <1>1, <1>2, <1>4, SameNames
<1>6. Names' /\ BlocksOwned' /\ NoLeak'
  BY <1>1, <1>2, <1>5, MarkedSame, NamesKept
<1>7. \A g \in Files : FileInv(g)'
  BY <1>1, <1>2, <1>5, OtherFile
<1> QED
  BY <1>3, <1>6, <1>7 DEF Inv

(* Every step of mkfs and of the data path of the file system. *)
LEMMA NextInv == Inv /\ [Next]_vars => Inv'
<1> SUFFICES ASSUME Inv, [Next]_vars PROVE Inv'
  OBVIOUS
<1>1. CASE alloc_inode \/ sfs_read_inode \/ alloc_disk_inode
  BY <1>1, alloc_inodeInv, sfs_read_inodeInv, alloc_disk_inodeInv
<1>2. ASSUME NEW f \in Files, mkfs_get_data_block(f) \/ AppendBlk(f) PROVE Inv'
  BY <1>2, mkfs_get_data_blockInv, AppendBlkInv
<1>3. ASSUME NEW f \in Files, NEW n \in Counts,
             \/ \E x \in Input : inode_append(f, x, n)
             \/ \E x \in Vals : sfs_write(f, x, n)
             \/ sfs_read(f, n)
      PROVE  Inv'
  BY <1>3, inode_appendInv, sfs_writeInv, sfs_readInv
<1>4. ASSUME NEW f \in Files,
             \/ Open(f) \/ PastEnd(f) \/ AllocAddr(f) \/ AllocIndir(f)
             \/ write_data(f) \/ GiveUp(f) \/ \E saved \in BOOLEAN : WriteEnd(f, saved)
      PROVE  Inv'
  BY <1>4, OpenInv, PastEndInv, AllocAddrInv, AllocIndirInv, write_dataInv, GiveUpInv,
     WriteEndInv
<1>5. ASSUME NEW f \in Files,
             \/ sfs_delete_inode(f) \/ DeleteSkip(f) \/ DeleteDirect(f) \/ DeleteEnter(f)
             \/ DeleteEntry(f) \/ DeleteIndir(f) \/ DeleteFail(f) \/ Overrun(f)
             \/ free_disk_inode(f)
      PROVE  Inv'
  BY <1>5, sfs_delete_inodeInv, DeleteSkipInv, DeleteDirectInv, DeleteEnterInv,
     DeleteEntryInv, DeleteIndirInv, DeleteFailInv, OverrunInv, free_disk_inodeInv
<1>6. CASE UNCHANGED vars
  BY <1>6, StutterInv
<1> QED
  BY <1>1, <1>2, <1>3, <1>4, <1>5, <1>6 DEF Next

(* The inductive invariant: every step of mkfs, of get_data_block, of      *)
(* write_data and of sfs_delete_inode keeps the bitmap, the names and each *)
(* file as the invariant says.                                             *)
THEOREM Invariance == Spec => []Inv
BY InitInv, NextInv, PTL DEF Spec

(* alloc_data_block, get_data_block and sfs_delete_inode, for any number   *)
(* of files, blocks and bitmap blocks: a data block has at most one name   *)
(* and is marked while it has it, whatever fails, and as long as nothing   *)
(* has failed half way every marked block has a name.                      *)
THEOREM Blocks == Spec => []BlocksExact
<1>1. Inv => BlocksExact
  BY DEF Inv, BlocksExact
<1> QED
  BY <1>1, Invariance, PTL

(* write_data and sfs_write_inode: the size of a file is never ahead of    *)
(* the blocks that its inode names, and the inode on disk is the one in    *)
(* memory but for the cases that the code itself reports.                  *)
THEOREM Inodes == Spec => []InodesSound
<1>1. ASSUME Inv PROVE InodesSound
  <2>1. TypeOK /\ \A f \in Files : FileInv(f)
    BY <1>1 DEF Inv
  <2>2. SavedInode
    BY <2>1 DEF SavedInode, FileInv, Saved, TypeOK
  <2>3. NoHole
    <3> SUFFICES ASSUME NEW f \in inodes \ unlinked, NEW o \in 0..(Node(f).size - 1)
                 PROVE  DataBlk(Node(f), o) # 0
      BY DEF NoHole
    <3>1. f \in Files /\ f \in inodes /\ OpSound(f) /\ HoleFree(f)
      BY <2>1 DEF TypeOK, FileInv
    <3>2. Node(f).size \in 0..MAX_FILE_SIZE
      BY <2>1, <3>1, NodeType
    <3>3. o \in 0..(MAX_FILE_SIZE - 1)
      BY <3>2, MaxSize
    <3>4. o \in 0..(End(f) - 1)
      <4>1. op[f].k = "write" => op[f].ofs \in Nat
        BY <2>1, <3>1, OpIs
      <4> QED
        BY <3>2, <4>1, MaxSize DEF End
    <3> QED
      BY <3>1, <3>3, <3>4, PlaceOfIs DEF HoleFree
  <2> QED
    BY <2>1, <2>2, <2>3 DEF InodesSound
<1> QED
  BY <1>1, Invariance, PTL

-----------------------------------------------------------------------------
(* Files are sequences of words *)

Word(f, o) == blk[DataBlk(Node(f), o)][o % B]

Live(f) == f \in inodes \ unlinked

LEMMA MaxOfTwo ==
  ASSUME NEW x \in Int, NEW y \in Int
  PROVE  Max({x, y}) = IF y > x THEN y ELSE x
<1>1. CASE x <= y
  BY <1>1 DEF Max
<1>2. CASE ~(x <= y)
  BY <1>2 DEF Max
<1> QED
  BY <1>1, <1>2

LEMMA ViewIs ==
  ASSUME TypeOK, NEW f \in Files
  PROVE  View(f) = IF Live(f) THEN [i \in 1..End(f) |-> Word(f, i - 1)] ELSE <<>>
<1>1. Node(f).size \in Int /\ (op[f].k = "write" => op[f].ofs \in Int)
  BY NodeType, OpIs, MaxSize
<1>2. op[f].k = "write" => Max({Node(f).size, op[f].ofs}) = End(f)
  BY <1>1, MaxOfTwo DEF End
<1>3. op[f].k # "write" => Node(f).size = End(f)
  BY DEF End
<1> QED
  BY <1>2, <1>3 DEF View, Live, Word

LEMMA ViewIsNext ==
  ASSUME TypeOK', NEW f \in Files
  PROVE  View(f)' = IF Live(f)' THEN [i \in 1..End(f)' |-> Word(f, i - 1)'] ELSE <<>>
<1>1. Node(f)'.size \in Int /\ (op'[f].k = "write" => op'[f].ofs \in Int)
  <2>1. Node(f)' \in InodeType'
    BY DEF TypeOK, Node
  <2>2. op'[f] \in OpType'
    BY DEF TypeOK
  <2> QED
    BY <2>1, <2>2, MaxSize DEF InodeType, OpType, Idle
<1>2. op'[f].k = "write" => Max({Node(f)'.size, op'[f].ofs}) = End(f)'
  BY <1>1, MaxOfTwo DEF End
<1>3. op'[f].k # "write" => Node(f)'.size = End(f)'
  BY DEF End
<1> QED
  BY <1>2, <1>3 DEF View, Live, Word

(* The same words at both ends of a step. *)
LEMMA ViewKept ==
  ASSUME TypeOK, TypeOK', NEW f \in Files, Live(f)' <=> Live(f),
         Live(f) => End(f)' = End(f) /\ \A o \in 0..(End(f) - 1) : Word(f, o)' = Word(f, o)
  PROVE  View(f)' = View(f)
<1>1. CASE ~Live(f)
  BY <1>1, ViewIs, ViewIsNext
<1>2. CASE Live(f)
  <2>1. End(f) \in Nat
    BY NodeType, OpIs, MaxSize DEF End
  <2>2. \A i \in 1..End(f) : Word(f, i - 1)' = Word(f, i - 1)
    BY <1>2, <2>1
  <2>3. [i \in 1..End(f)' |-> Word(f, i - 1)'] = [i \in 1..End(f) |-> Word(f, i - 1)]
    BY <1>2, <2>2
  <2> QED
    BY <1>2, <2>3, ViewIs, ViewIsNext
<1> QED
  BY <1>1, <1>2

(* No address and no block changes, and no file ends elsewhere. *)
LEMMA StillView ==
  ASSUME TypeOK, TypeOK', NEW f \in Files, blk' = blk, Live(f)' <=> Live(f),
         Live(f) => End(f)' = End(f) /\ Node(f)'.addrs = Node(f).addrs
  PROVE  View(f)' = View(f)
<1>1. ASSUME Live(f), NEW o PROVE Word(f, o)' = Word(f, o)
  <2>1. DataBlk(Node(f), o)' = DataBlk(Node(f), o)
    BY <1>1 DEF DataBlk, AddrIndex, IsDirect, BlkIndex, IndirOfs
  <2> QED
    BY <2>1 DEF Word
<1> QED
  BY <1>1, ViewKept

LEMMA NamedPlace ==
  ASSUME NEW f, NEW o \in 0..(MAX_FILE_SIZE - 1)
  PROVE  /\ NamedAt(PlaceOf(f, o)) = DataBlk(Node(f), o)
         /\ NamedAt(PlaceOf(f, o))' = DataBlk(Node(f), o)'
<1>1. ~IsDirect(o) => IndirOfs(o) # -1
  BY OffsetIs, SfsAssumption
<1> QED
  BY <1>1 DEF NamedAt, PlaceOf, DataBlk, AddrIndex, IsDirect, BlkIndex, IndirOfs

(* A word whose place still names its block, and whose block is as before. *)
LEMMA WordKept ==
  ASSUME Inv, NEW f \in Files, Live(f), NEW o \in 0..(End(f) - 1),
         NamedAt(PlaceOf(f, o))' = NamedAt(PlaceOf(f, o)),
         blk'[NamedAt(PlaceOf(f, o))] = blk[NamedAt(PlaceOf(f, o))]
  PROVE  Word(f, o)' = Word(f, o)
<1>1. o \in 0..(MAX_FILE_SIZE - 1)
  BY EndIs, MaxSize DEF Inv, FileInv
<1> QED
  BY <1>1, NamedPlace DEF Word

(* The block of a word has one name, which is that of no indirect block. *)
LEMMA WordOwned ==
  ASSUME Inv, NEW f \in Files, Live(f), NEW o \in 0..(End(f) - 1)
  PROVE  /\ o \in 0..(MAX_FILE_SIZE - 1) /\ o \in Nat
         /\ PlaceOf(f, o) \in Used /\ PlaceOf(f, o)[1] = f
         /\ NamedAt(PlaceOf(f, o)) \in DataBlks
         /\ NamedAt(PlaceOf(f, o)) \in Marked
         /\ \A q \in Used : NamedAt(q) = NamedAt(PlaceOf(f, o)) => q = PlaceOf(f, o)
         /\ \A g, a : a >= NDIRECT /\ a \in Addrs => PlaceOf(f, o) # <<g, a, -1>>
<1>1. TypeOK /\ Names /\ BlocksOwned /\ OpSound(f) /\ HoleFree(f) /\ f \in inodes
  BY DEF Inv, FileInv, Live
<1>2. o \in 0..(MAX_FILE_SIZE - 1) /\ o \in Nat
  BY <1>1, EndIs, MaxSize
<1>3. PlaceOf(f, o) \in Used /\ PlaceOf(f, o)[1] = f
  BY <1>1, <1>2, PlaceOfIs DEF HoleFree, Live, Used
<1>4. ASSUME NEW g, NEW a \in Addrs, a >= NDIRECT PROVE PlaceOf(f, o) # <<g, a, -1>>
  BY <1>2, <1>4, OffsetIs, SfsAssumption DEF PlaceOf, Addrs
<1> QED
  BY <1>1, <1>2, <1>3, <1>4 DEF Names, BlocksOwned, Used

LEMMA BlkInjective ==
  ASSUME NEW f, NEW o \in 0..(MAX_FILE_SIZE - 1), NEW w \in 0..(MAX_FILE_SIZE - 1),
         PlaceOf(f, w) = PlaceOf(f, o)
  PROVE  BlkIndex(w) = BlkIndex(o)
<1>1. AddrIndex(w) = AddrIndex(o)
  BY DEF PlaceOf
<1>2. IsDirect(w) <=> IsDirect(o)
  BY OffsetIs, SfsAssumption DEF PlaceOf, Addrs
<1>3. CASE IsDirect(o)
  BY <1>1, <1>2, <1>3, OffsetIs
<1>4. CASE ~IsDirect(o)
  <2>1. IndirOfs(w) = IndirOfs(o)
    BY <1>2, <1>4 DEF PlaceOf
  <2> QED
    BY <1>1, <1>2, <1>4, <2>1, OffsetIs
<1> QED
  BY <1>3, <1>4

LEMMA PutStep ==
  ASSUME NEW f \in Files, \A g \in Files \ {f} : View(g)' = View(g),
         NEW ofs \in 0..Len(View(f)), NEW n \in 1..Len(View(f)'),
         NEW x \in Input \cup Vals, View(f)' = Contents!Replaced(View(f), ofs, n, x)
  PROVE  Contents!Next
BY DEF Contents!Next, Contents!Put

LEMMA RemoveStep ==
  ASSUME NEW f \in Files, \A g \in Files \ {f} : View(g)' = View(g), View(f)' = <<>>
  PROVE  Contents!Next
BY DEF Contents!Next, Contents!Remove

(* A chunk that write_data or inode_append copies into a block replaces    *)
(* those words of the file, or adds them at its end, and no others.        *)
LEMMA StoreView ==
  ASSUME Inv, TypeOK', NEW f \in Files, Live(f),
         NEW o \in 0..(MAX_FILE_SIZE - 1), NEW left \in Nat \ {0},
         NEW x \in Input \cup Vals, DataBlk(Node(f), o) # 0,
         blk' = Stored(DataBlk(Node(f), o), o, Chunk(o, left), x),
         UNCHANGED <<inodes, unlinked>>,
         \A g \in Files : Node(g)'.addrs = Node(g).addrs,
         o <= End(f),
         End(f)' = IF o + Chunk(o, left) > End(f) THEN o + Chunk(o, left) ELSE End(f),
         \A g \in Files \ {f} : End(g)' = End(g)
  PROVE  Contents!Next
<1>1. TypeOK /\ BlocksOwned /\ Names /\ OpSound(f) /\ f \in inodes
  BY DEF Inv, FileInv, Live
<1>2. PICK s \in 1..left : s = Chunk(o, left) /\ o + s <= MAX_FILE_SIZE
  BY ChunkIs
<1>3. \A w \in o..(o + s - 1) : BlkIndex(w) = BlkIndex(o) /\ w % B = (o % B) + (w - o)
  BY <1>2, ChunkIs
<1>4. PICK d \in DataBlks : /\ d = DataBlk(Node(f), o) /\ d = NamedAt(PlaceOf(f, o))
                            /\ PlaceOf(f, o) \in Used /\ PlaceOf(f, o)[1] = f
  BY <1>1, PlaceOfIs DEF Used, Names
<1>5. x \in Nat /\ o \in Nat /\ o % B \in 0..(B - 1)
  BY SfsAssumption, MaxSize
<1>6. /\ blk'[d] = [w \in 0..(B - 1) |->
           IF w >= o % B /\ w < (o % B) + s THEN x ELSE blk[d][w]]
      /\ \A c \in DataBlks : c # d => blk'[c] = blk[c]
  BY <1>1, <1>2, <1>4, <1>5, StoredType
<1>7. \A p \in Places : NamedAt(p)' = NamedAt(p)
  BY <1>1, StoredNames
<1>8. \A g \in Files : Live(g)' <=> Live(g)
  BY DEF Live
<1>9. ASSUME NEW g \in Files, Live(g), NEW w \in 0..(End(g) - 1),
             ~(g = f /\ w \in o..(o + s - 1))
      PROVE  Word(g, w)' = Word(g, w)
  <2>1. /\ w \in 0..(MAX_FILE_SIZE - 1) /\ w \in Nat
        /\ PlaceOf(g, w) \in Used /\ PlaceOf(g, w)[1] = g
        /\ NamedAt(PlaceOf(g, w)) \in DataBlks
        /\ NamedAt(PlaceOf(g, w))' = NamedAt(PlaceOf(g, w))
    BY <1>7, <1>9, WordOwned DEF Used
  <2>2. CASE PlaceOf(g, w) # PlaceOf(f, o)
    <3>1. NamedAt(PlaceOf(g, w)) # d
      BY <1>1, <1>4, <2>1, <2>2 DEF BlocksOwned
    <3> QED
      BY <1>6, <1>9, <2>1, <3>1, WordKept
  <2>3. CASE PlaceOf(g, w) = PlaceOf(f, o)
    <3>1. g = f /\ w \notin o..(o + s - 1)
      BY <1>4, <1>9, <2>1, <2>3
    <3>2. w \div B = o \div B
      BY <2>1, <2>3, <3>1, BlkInjective DEF BlkIndex
    <3>3. PICK i \in Nat, r \in 0..(B - 1), e \in 0..(B - 1) :
            /\ r = w % B /\ e = o % B /\ w = i * B + r /\ o = i * B + e
      <4>1. w \div B \in Nat /\ w % B \in 0..(B - 1) /\ w = (w \div B) * B + (w % B)
        BY <2>1, DivMod, SfsAssumption
      <4>2. o % B \in 0..(B - 1) /\ o = (o \div B) * B + (o % B)
        BY <1>5, DivMod, SfsAssumption
      <4> QED
        BY <3>2, <4>1, <4>2
    <3>4. ~(r >= e /\ r < e + s)
      <4>1. PICK y \in Nat : y = i * B
        BY SfsAssumption
      <4>2. w = y + r /\ o = y + e
        BY <3>3, <4>1
      <4> QED
        BY <3>1, <4>2, SfsAssumption
    <3>5. blk'[d][r] = blk[d][r]
      BY <1>6, <3>3, <3>4
    <3>6. DataBlk(Node(g), w) = d /\ DataBlk(Node(g), w)' = d
      BY <1>4, <2>1, <2>3, NamedPlace
    <3> QED
      BY <3>3, <3>5, <3>6 DEF Word
  <2> QED
    BY <2>2, <2>3
<1>10. ASSUME NEW w \in o..(o + s - 1) PROVE Word(f, w)' = x
  <2>1. w \in 0..(MAX_FILE_SIZE - 1)
    BY <1>2, <1>5, MaxSize
  <2>2. PlaceOf(f, w) = PlaceOf(f, o)
    BY <1>3, SamePlace
  <2>3. DataBlk(Node(f), w)' = d
    BY <1>4, <1>7, <2>1, <2>2, NamedPlace DEF Used
  <2>4. PICK r \in 0..(B - 1) : r = w % B /\ r >= o % B /\ r < (o % B) + s
    <3>1. w % B \in 0..(B - 1)
      BY <2>1, MaxSize, SfsAssumption
    <3>2. w % B = (o % B) + (w - o)
      BY <1>3
    <3>3. w - o >= 0 /\ w - o < s
      BY <1>2, <1>5
    <3> QED
      BY <1>5, <3>1, <3>2, <3>3
  <2>5. blk'[d][r] = x
    BY <1>6, <2>4
  <2> QED
    BY <2>3, <2>4, <2>5 DEF Word
<1>11. ASSUME NEW g \in Files \ {f} PROVE View(g)' = View(g)
  BY <1>1, <1>8, <1>9, ViewKept
<1>12. PICK e \in Nat, z \in Nat :
         /\ e = End(f) /\ z = End(f)' /\ o <= e /\ e <= MAX_FILE_SIZE
         /\ z = IF o + s > e THEN o + s ELSE e
  BY <1>1, <1>2, <1>5, EndIs, MaxSize
<1>13. View(f) = [i \in 1..e |-> Word(f, i - 1)] /\ View(f)' = [i \in 1..z |-> Word(f, i - 1)']
  BY <1>1, <1>8, <1>12, ViewIs, ViewIsNext
<1>14. Len(View(f)) = e /\ Len(View(f)') = z /\ \A i \in 1..e : View(f)[i] = Word(f, i - 1)
  BY <1>13
<1>15. View(f)' = Contents!Replaced(View(f), o, s, x)
  <2>1. ASSUME NEW i \in 1..z
        PROVE  Word(f, i - 1)' = IF i > o /\ i <= o + s THEN x ELSE View(f)[i]
    <3>1. CASE i > o /\ i <= o + s
      <4>1. i - 1 \in o..(o + s - 1)
        BY <1>5, <3>1
      <4> QED
        BY <1>10, <3>1, <4>1
    <3>2. CASE ~(i > o /\ i <= o + s)
      <4>1. i \in 1..e /\ i - 1 \in 0..(e - 1) /\ i - 1 \notin o..(o + s - 1)
        BY <1>5, <1>12, <3>2
      <4>2. Word(f, i - 1)' = Word(f, i - 1)
        BY <1>9, <1>12, <4>1
      <4> QED
        BY <1>14, <3>2, <4>1, <4>2
    <3> QED
      BY <3>1, <3>2
  <2>2. [i \in 1..z |-> Word(f, i - 1)'] =
          [i \in 1..z |-> IF i > o /\ i <= o + s THEN x ELSE View(f)[i]]
    BY <2>1
  <2>3. z = IF o + s > Len(View(f)) THEN o + s ELSE Len(View(f))
    BY <1>12, <1>14
  <2> QED
    BY <1>13, <2>2, <2>3 DEF Contents!Replaced
<1>16. o \in 0..Len(View(f)) /\ s \in 1..Len(View(f)')
  BY <1>5, <1>12, <1>14
<1> QED
  BY <1>11, <1>15, <1>16, PutStep

LEMMA write_dataView ==
  ASSUME Inv, Inv', NEW f \in Files, write_data(f) PROVE Contents!Next
<1> USE DEF write_data, InLoop, Running
<1>1. TypeOK /\ TypeOK' /\ OpSound(f) /\ op[f].k = "write" /\ mounted
  BY DEF Inv, FileInv
<1>2. op[f] \in [k : {"write"}, ofs : Nat, left : Nat, x : Vals]
  BY <1>1, OpIs
<1>3. PICK o \in 0..(MAX_FILE_SIZE - 1), left \in Nat \ {0} :
        o = op[f].ofs /\ left = op[f].left
  BY <1>2, MaxSize
<1>4. Live(f) /\ Node(f) = ino[f] /\ ino[f].size \in Nat
  BY <1>1, NodeType, MaxSize DEF OpSound, Idle, Node, Live
<1>5. PICK s \in 1..left : s = Chunk(o, left)
  BY ChunkIs
<1>6. op'[f] = [op[f] EXCEPT !.ofs = o + s, !.left = left - s]
  BY <1>1, <1>3, <1>5 DEF TypeOK
<1>7. op'[f].k = "write" /\ op'[f].ofs = o + s
  BY <1>2, <1>6
<1>8. \A g \in Files : Node(g)' = Node(g)
  BY DEF Node
<1>9. /\ o <= End(f)
      /\ End(f)' = IF o + s > End(f) THEN o + s ELSE End(f)
  BY <1>1, <1>3, <1>4, <1>5, <1>7, <1>8, MaxSize DEF End
<1>10. \A g \in Files \ {f} : End(g)' = End(g)
  BY <1>1, <1>8 DEF TypeOK, End
<1>11. blk' = Stored(DataBlk(Node(f), o), o, Chunk(o, left), op[f].x)
  BY <1>3, <1>4
<1>12. DataBlk(Node(f), o) # 0 /\ UNCHANGED <<inodes, unlinked>> /\ op[f].x \in Input \cup Vals
  BY <1>2, <1>3, <1>4
<1>13. \A g \in Files : Node(g)'.addrs = Node(g).addrs
  BY <1>8
<1> HIDE DEF write_data
<1> QED
  BY <1>1, <1>4, <1>5, <1>9, <1>10, <1>11, <1>12, <1>13, StoreView

LEMMA AppendBlkView ==
  ASSUME Inv, Inv', NEW f \in Files, AppendBlk(f) PROVE Contents!Next
<1> USE DEF AppendBlk
<1>1. TypeOK /\ TypeOK' /\ OpSound(f) /\ op[f].k = "mkfs"
  BY DEF Inv, FileInv
<1>2. op[f] \in [k : {"mkfs"}, x : Input, left : Nat]
  BY <1>1, OpIs
<1>3. PICK o \in 0..(MAX_FILE_SIZE - 1), left \in Nat \ {0} :
        o = dino[f].size /\ left = op[f].left
  BY <1>1, <1>2, MaxSize DEF OpSound, TypeOK, InodeType
<1>4. Live(f) /\ ~mounted /\ Node(f) = dino[f] /\ End(f) = o
  <2>1. Live(f) /\ ~mounted
    BY <1>1 DEF OpSound, Idle, Live
  <2> QED
    BY <1>1, <1>3, <2>1 DEF Node, End
<1>5. PICK s \in 1..left : s = Chunk(o, left)
  BY ChunkIs
<1>6. dino' = [dino EXCEPT ![f].size = o + s]
  BY <1>3, <1>5
<1>7. /\ dino'[f] = [dino[f] EXCEPT !.size = o + s]
      /\ \A g \in Files \ {f} : dino'[g] = dino[g] /\ op'[g] = op[g]
      /\ dino[f] \in InodeType
  BY <1>1, <1>6 DEF TypeOK
<1>8. dino'[f].size = o + s /\ dino'[f].addrs = dino[f].addrs
  BY <1>7 DEF InodeType
<1>9. op'[f].k # "write"
  <2>1. op'[f] = Idle \/ op'[f] = [op[f] EXCEPT !.left = @ - s]
    BY <1>1, <1>3, <1>5 DEF TypeOK
  <2>2. [op[f] EXCEPT !.left = @ - s].k = "mkfs"
    BY <1>2
  <2> QED
    BY <2>1, <2>2 DEF Idle
<1>10. Node(f)' = dino'[f] /\ \A g \in Files \ {f} : Node(g)' = Node(g)
  BY <1>4, <1>7 DEF Node
<1>11. /\ o <= End(f)
       /\ End(f)' = IF o + s > End(f) THEN o + s ELSE End(f)
  <2>1. End(f)' = o + s
    BY <1>8, <1>9, <1>10 DEF End
  <2> QED
    BY <1>4, <2>1, MaxSize
<1>12. \A g \in Files \ {f} : End(g)' = End(g)
  BY <1>7, <1>10 DEF End
<1>13. blk' = Stored(DataBlk(Node(f), o), o, Chunk(o, left), op[f].x)
  BY <1>3, <1>4
<1>14. DataBlk(Node(f), o) # 0 /\ UNCHANGED <<inodes, unlinked>> /\ op[f].x \in Input \cup Vals
  BY <1>2, <1>3, <1>4
<1>15. \A g \in Files : Node(g)'.addrs = Node(g).addrs
  BY <1>4, <1>8, <1>10
<1> HIDE DEF AppendBlk
<1> QED
  BY <1>1, <1>4, <1>5, <1>11, <1>12, <1>13, <1>14, <1>15, StoreView

(* A step that touches one name, which is no word's, and beside fresh      *)
(* blocks only an indirect block.                                          *)
LEMMA BlockView ==
  ASSUME Inv, TypeOK', NEW q, NEW d,
         NamedAt(q) = 0 \/ ~Live(q[1]),
         \A p \in Places : p # q => NamedAt(p)' = NamedAt(p),
         \A c \in DataBlks : c \in Marked /\ c # d => blk'[c] = blk[c],
         d = 0 \/ \E g \in inodes, a \in Addrs :
                    a >= NDIRECT /\ <<g, a, -1>> \in Used /\ NamedAt(<<g, a, -1>>) = d,
         UNCHANGED <<inodes, unlinked>>,
         \A g \in Files : Live(g) => End(g)' = End(g)
  PROVE  \A g \in Files : View(g)' = View(g)
<1> TAKE g \in Files
<1>1. TypeOK /\ (Live(g)' <=> Live(g))
  BY DEF Inv, Live
<1>2. ASSUME Live(g), NEW o \in 0..(End(g) - 1) PROVE Word(g, o)' = Word(g, o)
  <2>1. /\ PlaceOf(g, o) \in Used /\ PlaceOf(g, o)[1] = g
        /\ NamedAt(PlaceOf(g, o)) \in DataBlks /\ NamedAt(PlaceOf(g, o)) \in Marked
        /\ \A p \in Used : NamedAt(p) = NamedAt(PlaceOf(g, o)) => p = PlaceOf(g, o)
        /\ \A h, a : a >= NDIRECT /\ a \in Addrs => PlaceOf(g, o) # <<h, a, -1>>
    BY <1>2, WordOwned
  <2>2. PlaceOf(g, o) # q /\ PlaceOf(g, o) \in Places
    BY <1>2, <2>1 DEF Used
  <2>3. NamedAt(PlaceOf(g, o)) # d
    <3>1. 0 \notin DataBlks
      BY SfsAssumption DEF DataBlks
    <3> QED
      BY <2>1, <3>1
  <2> QED
    BY <1>2, <2>1, <2>2, <2>3, WordKept
<1> QED
  BY <1>1, <1>2, ViewKept

LEMMA AllocAddrView ==
  ASSUME Inv, TypeOK', NEW f \in inodes, NEW a \in Addrs, Node(f).addrs[a] = 0,
         alloc_data_block(blk), UNCHANGED <<inodes, unlinked, failed, op>>,
         \A g \in Files : Node(g)'.size = Node(g).size,
         \A g \in Files : Node(g)'.addrs =
           IF g = f THEN [Node(f).addrs EXCEPT ![a] = BlkOf(Found)] ELSE Node(g).addrs
  PROVE  \A g \in Files : View(g)' = View(g)
<1>1. TypeOK /\ Names /\ BlocksOwned /\ NoLeak
  BY DEF Inv
<1>2. \A p \in Places : p # <<f, a, -1>> => NamedAt(p)' = NamedAt(p)
  BY <1>1, AllocAddrNames
<1>3. NamedAt(<<f, a, -1>>) = 0
  BY NamedIs
<1>4. \A c \in DataBlks : c \in Marked /\ c # 0 => blk'[c] = blk[c]
  <2>1. BlkOf(Found) \notin Marked /\ blk' = [blk EXCEPT ![BlkOf(Found)] = ZeroBlk]
    BY <1>1, FoundIs
  <2> QED
    BY <1>1, <2>1 DEF TypeOK
<1>5. \A g \in Files : End(g)' = End(g)
  BY DEF End
<1>6. PICK q, d : q = <<f, a, -1>> /\ d = 0
  OBVIOUS
<1> QED
  BY <1>2, <1>3, <1>4, <1>5, <1>6, BlockView

LEMMA AllocEntryView ==
  ASSUME Inv, TypeOK', NEW f \in inodes, NEW a \in Addrs, a >= NDIRECT,
         NEW j \in 0..(B - 1), NEW d \in DataBlks, d = Node(f).addrs[a], blk[d][j] = 0,
         alloc_data_block([blk EXCEPT ![d][j] = BlkOf(Found)]),
         UNCHANGED <<inodes, unlinked, failed, op>>,
         \A g \in Files : Node(g)' = Node(g)
  PROVE  \A g \in Files : View(g)' = View(g)
<1>1. TypeOK /\ Names /\ BlocksOwned /\ NoLeak
  BY DEF Inv
<1>2. \A g \in Files : Node(g)'.addrs = Node(g).addrs
  OBVIOUS
<1>3. \A p \in Places : p # <<f, a, j>> => NamedAt(p)' = NamedAt(p)
  <2>1. UNCHANGED <<inodes, failed>>
    OBVIOUS
  <2> QED
    BY <1>1, <1>2, <2>1, AllocEntryNames, ZenonT(60)
<1>4. d # 0 /\ j # -1
  BY SfsAssumption DEF DataBlks
<1>5. NamedAt(<<f, a, j>>) = 0
  BY <1>4, NamedIs
<1>6. \A c \in DataBlks : c \in Marked /\ c # d => blk'[c] = blk[c]
  <2>1. /\ BlkOf(Found) \notin Marked
        /\ blk' = [[blk EXCEPT ![d][j] = BlkOf(Found)] EXCEPT ![BlkOf(Found)] = ZeroBlk]
    BY <1>1, FoundIs
  <2> QED
    BY <1>1, <2>1 DEF TypeOK
<1>7. <<f, a, -1>> \in Used /\ NamedAt(<<f, a, -1>>) = d
  BY <1>1, <1>4, AddrOwned
<1>8. \A g \in Files : End(g)' = End(g)
  BY DEF End
<1> QED
  BY <1>3, <1>5, <1>6, <1>7, <1>8, BlockView

LEMMA GetBlockView ==
  ASSUME Inv, Inv', NEW f \in Files,
         mkfs_get_data_block(f) \/ AllocAddr(f) \/ AllocIndir(f)
  PROVE  \A g \in Files : View(g)' = View(g)
<1>1. TypeOK /\ TypeOK' /\ OpSound(f)
  BY DEF Inv, FileInv
<1>2. CASE mkfs_get_data_block(f)
  <2> USE DEF mkfs_get_data_block
  <2>1. op[f].k = "mkfs" /\ op[f] \in [k : {"mkfs"}, x : Input, left : Nat]
    BY <1>1, <1>2, OpIs
  <2>2. PICK o \in 0..(MAX_FILE_SIZE - 1) : o = dino[f].size
    BY <1>1, <2>1, MaxSize DEF OpSound, TypeOK, InodeType
  <2>3. f \in inodes /\ ~mounted /\ Node(f) = dino[f] /\ dino[f] \in InodeType
    BY <1>1, <2>1 DEF OpSound, Idle, Node, TypeOK
  <2>4. PICK a \in Addrs : a = AddrIndex(o)
    BY OffsetIs
  <2>5. CASE dino[f].addrs[a] = 0
    <3>1. /\ alloc_data_block(blk) /\ UNCHANGED <<inodes, unlinked, failed, op, mounted>>
          /\ dino' = [dino EXCEPT ![f].addrs[a] = BlkOf(Found)]
      BY <1>2, <2>2, <2>4, <2>5
    <3>2. dino'[f] = [dino[f] EXCEPT !.addrs[a] = BlkOf(Found)]
          /\ \A g \in Files \ {f} : dino'[g] = dino[g]
      BY <1>1, <3>1 DEF TypeOK
    <3>3. /\ dino'[f].size = dino[f].size
          /\ dino'[f].addrs = [dino[f].addrs EXCEPT ![a] = BlkOf(Found)]
      BY <2>3, <3>2 DEF InodeType
    <3>4. \A g \in Files : Node(g) = dino[g] /\ Node(g)' = dino'[g]
      BY <2>3, <3>1 DEF Node
    <3>5. \A g \in Files : Node(g)'.size = Node(g).size
      <4> TAKE g \in Files
      <4>1. CASE g = f
        BY <4>1, <3>2, <3>3, <3>4
      <4>2. CASE g # f
        BY <4>2, <3>2, <3>3, <3>4
      <4> QED
        BY <4>1, <4>2
    <3>6. \A g \in Files : Node(g)'.addrs =
            IF g = f THEN [Node(f).addrs EXCEPT ![a] = BlkOf(Found)] ELSE Node(g).addrs
      <4> TAKE g \in Files
      <4>1. CASE g = f
        BY <4>1, <3>2, <3>3, <3>4
      <4>2. CASE g # f
        BY <4>2, <3>2, <3>3, <3>4
      <4> QED
        BY <4>1, <4>2
    <3> HIDE DEF mkfs_get_data_block
    <3> QED
      BY <1>1, <2>3, <2>5, <3>1, <3>5, <3>6, AllocAddrView
  <2>6. CASE dino[f].addrs[a] # 0
    <3>1. PICK d \in DataBlks : d = dino[f].addrs[a] /\ d = Node(f).addrs[a]
      BY <2>3, <2>6 DEF InodeType
    <3>2. ~IsDirect(o) /\ blk[d][IndirOfs(o)] = 0
      BY <1>2, <2>2, <2>4, <2>6, <3>1 DEF DataBlk
    <3>3. PICK j \in 0..(B - 1) : j = IndirOfs(o) /\ a >= NDIRECT
      BY <2>4, <3>2, OffsetIs
    <3>4. /\ alloc_data_block([blk EXCEPT ![d][j] = BlkOf(Found)]) /\ dino' = dino
          /\ blk[d][j] = 0 /\ UNCHANGED <<inodes, unlinked, failed, op, mounted, ino>>
      BY <1>2, <2>2, <2>4, <2>6, <3>1, <3>2, <3>3
    <3>5. \A g \in Files : Node(g)' = Node(g)
      BY <3>4 DEF Node
    <3> HIDE DEF mkfs_get_data_block
    <3> QED
      BY <1>1, <2>3, <3>1, <3>3, <3>4, <3>5, AllocEntryView
  <2> QED
    BY <2>5, <2>6
<1>3. ASSUME AllocAddr(f) \/ AllocIndir(f)
      PROVE  \E o \in 0..(MAX_FILE_SIZE - 1), a \in Addrs :
               /\ o = op[f].ofs /\ a = AddrIndex(o) /\ f \in inodes /\ mounted
               /\ Node(f) = ino[f] /\ ino[f] \in InodeType
  <2>1. /\ op[f].k = "write" /\ op[f].ofs < MAX_FILE_SIZE /\ mounted
        /\ op[f] \in [k : {"write"}, ofs : Nat, left : Nat, x : Vals]
    BY <1>1, <1>3, OpIs DEF AllocAddr, AllocIndir, InLoop, Running
  <2>2. op[f].ofs \in 0..(MAX_FILE_SIZE - 1)
    BY <2>1, MaxSize
  <2>3. f \in inodes /\ Node(f) = ino[f] /\ ino[f] \in InodeType
    BY <1>1, <2>1 DEF OpSound, Idle, Node, TypeOK
  <2> QED
    BY <2>1, <2>2, <2>3, OffsetIs
<1>4. CASE AllocAddr(f)
  <2> USE DEF AllocAddr, InLoop, Running
  <2>1. PICK o \in 0..(MAX_FILE_SIZE - 1), a \in Addrs :
          /\ o = op[f].ofs /\ a = AddrIndex(o) /\ f \in inodes /\ mounted
          /\ Node(f) = ino[f] /\ ino[f] \in InodeType
    BY <1>3, <1>4
  <2>2. /\ alloc_data_block(blk) /\ UNCHANGED <<inodes, unlinked, failed, op, mounted>>
        /\ ino' = [ino EXCEPT ![f].addrs[a] = BlkOf(Found)] /\ Node(f).addrs[a] = 0
    BY <1>4, <2>1
  <2>3. ino'[f] = [ino[f] EXCEPT !.addrs[a] = BlkOf(Found)]
        /\ \A g \in Files \ {f} : ino'[g] = ino[g]
    BY <1>1, <2>2 DEF TypeOK
  <2>4. /\ ino'[f].size = ino[f].size
        /\ ino'[f].addrs = [ino[f].addrs EXCEPT ![a] = BlkOf(Found)]
    BY <2>1, <2>3 DEF InodeType
  <2>5. \A g \in Files : Node(g) = ino[g] /\ Node(g)' = ino'[g]
    BY <2>1, <2>2 DEF Node
  <2>6. \A g \in Files : Node(g)'.size = Node(g).size
    <3> TAKE g \in Files
    <3>1. CASE g = f
      BY <3>1, <2>3, <2>4, <2>5
    <3>2. CASE g # f
      BY <3>2, <2>3, <2>4, <2>5
    <3> QED
      BY <3>1, <3>2
  <2>7. \A g \in Files : Node(g)'.addrs =
          IF g = f THEN [Node(f).addrs EXCEPT ![a] = BlkOf(Found)] ELSE Node(g).addrs
    <3> TAKE g \in Files
    <3>1. CASE g = f
      BY <3>1, <2>3, <2>4, <2>5
    <3>2. CASE g # f
      BY <3>2, <2>3, <2>4, <2>5
    <3> QED
      BY <3>1, <3>2
  <2> HIDE DEF AllocAddr
  <2> QED
    BY <1>1, <2>1, <2>2, <2>6, <2>7, AllocAddrView
<1>5. CASE AllocIndir(f)
  <2> USE DEF AllocIndir, InLoop, Running
  <2>1. PICK o \in 0..(MAX_FILE_SIZE - 1), a \in Addrs :
          /\ o = op[f].ofs /\ a = AddrIndex(o) /\ f \in inodes /\ mounted
          /\ Node(f) = ino[f] /\ ino[f] \in InodeType
    BY <1>3, <1>5
  <2>2. PICK d \in DataBlks : d = ino[f].addrs[a] /\ d = Node(f).addrs[a]
    BY <1>5, <2>1 DEF InodeType
  <2>3. PICK j \in 0..(B - 1) : j = IndirOfs(o) /\ a >= NDIRECT
    BY <1>5, <2>1, OffsetIs
  <2>4. /\ alloc_data_block([blk EXCEPT ![d][j] = BlkOf(Found)]) /\ blk[d][j] = 0
        /\ UNCHANGED <<inodes, unlinked, failed, op>>
    BY <1>5, <2>1, <2>2, <2>3
  <2>5. \A g \in Files : Node(g)' = Node(g)
    BY <1>5 DEF Node
  <2> HIDE DEF AllocIndir
  <2> QED
    BY <1>1, <2>1, <2>2, <2>3, <2>4, <2>5, AllocEntryView
<1> QED
  BY <1>2, <1>4, <1>5

(* The steps that neither write nor allocate nor free. *)
LEMMA QuietView ==
  ASSUME Inv, Inv', NEW f \in Files,
         \/ \E n \in Counts : \/ \E x \in Input : inode_append(f, x, n)
                              \/ \E x \in Vals : sfs_write(f, x, n)
                              \/ sfs_read(f, n)
         \/ Open(f) \/ PastEnd(f) \/ GiveUp(f) \/ Overrun(f)
         \/ DeleteSkip(f) \/ DeleteEnter(f) \/ DeleteFail(f)
  PROVE  \A g \in Files : View(g)' = View(g)
<1>1. TypeOK /\ TypeOK' /\ OpSound(f)
  BY DEF Inv, FileInv
<1>2. UNCHANGED <<blk, inodes, unlinked, mounted, ino, dino>>
  BY DEF inode_append, sfs_write, sfs_read, Open, PastEnd, GiveUp, Overrun, DeleteSkip,
     DeleteEnter, DeleteFail
<1>3. \A g \in Files : Node(g)' = Node(g) /\ (Live(g)' <=> Live(g))
  BY <1>2 DEF Node, Live
<1>4. \A g \in Files \ {f} : op'[g] = op[g]
  BY <1>1 DEF inode_append, sfs_write, sfs_read, Open, PastEnd, GiveUp, Overrun,
     DeleteSkip, DeleteEnter, DeleteFail, TypeOK
<1>5. Live(f) => End(f)' = End(f)
  <2>1. CASE \E n \in Counts : \E x \in Input : inode_append(f, x, n)
    <3>1. op[f] = Idle /\ op'[f].k = "mkfs"
      BY <1>1, <2>1 DEF inode_append, TypeOK
    <3> QED
      BY <1>3, <3>1 DEF End, Idle
  <2>2. CASE \E n \in Counts : \E x \in Vals : sfs_write(f, x, n)
    <3>1. /\ op[f] = Idle /\ op'[f].k = "write" /\ op'[f].ofs = pos[f]
          /\ f \in inodes \ unlinked
      BY <1>1, <2>2 DEF sfs_write, Ready, TypeOK
    <3>2. pos[f] <= Node(f).size /\ pos[f] \in Nat /\ Node(f).size \in Nat
      BY <1>1, <3>1, NodeType, MaxSize DEF OpSound, TypeOK
    <3> QED
      BY <1>3, <3>1, <3>2 DEF End, Idle
  <2>3. CASE \/ \E n \in Counts : sfs_read(f, n)
             \/ Open(f) \/ PastEnd(f) \/ Overrun(f)
    <3>1. op' = op
      BY <2>3 DEF sfs_read, Open, PastEnd, Overrun
    <3> QED
      BY <1>3, <3>1 DEF End
  <2>4. CASE GiveUp(f)
    <3>1. op[f] \in [k : {"write"}, ofs : Nat, left : Nat, x : Vals]
      BY <1>1, <2>4, OpIs DEF GiveUp, InLoop
    <3>2. op'[f] = [op[f] EXCEPT !.left = 0]
      BY <1>1, <2>4 DEF GiveUp, TypeOK
    <3>3. op'[f].k = op[f].k /\ op'[f].ofs = op[f].ofs
      BY <3>1, <3>2
    <3> QED
      BY <1>3, <3>3 DEF End
  <2>5. CASE DeleteSkip(f) \/ DeleteEnter(f) \/ DeleteFail(f)
    BY <1>1, <2>5 DEF DeleteSkip, DeleteEnter, DeleteFail, Deleting, OpSound, Live
  <2> QED
    BY <2>1, <2>2, <2>3, <2>4, <2>5
<1>6. \A g \in Files : Live(g) => End(g)' = End(g)
  BY <1>3, <1>4, <1>5 DEF End
<1> QED
  BY <1>1, <1>2, <1>3, <1>6, StillView

(* The end of sfs_write: the words written are in the file already. *)
LEMMA WriteEndView ==
  ASSUME Inv, Inv', NEW f \in Files, NEW saved \in BOOLEAN, WriteEnd(f, saved)
  PROVE  \A g \in Files : View(g)' = View(g)
<1> USE DEF WriteEnd, Running
<1>1. TypeOK /\ TypeOK' /\ mounted /\ mounted' /\ op[f].k = "write"
  BY DEF Inv
<1>2. op[f] \in [k : {"write"}, ofs : Nat, left : Nat, x : Vals] /\ ino[f] \in InodeType
  BY <1>1, OpIs DEF TypeOK
<1>3. /\ ino'[f] = [ino[f] EXCEPT !.size = IF op[f].ofs > ino[f].size THEN op[f].ofs
                                           ELSE ino[f].size]
      /\ \A g \in Files \ {f} : ino'[g] = ino[g] /\ op'[g] = op[g]
      /\ op'[f] = Idle
  BY <1>1 DEF TypeOK
<1>4. /\ ino'[f].size = IF op[f].ofs > ino[f].size THEN op[f].ofs ELSE ino[f].size
      /\ ino'[f].addrs = ino[f].addrs
  BY <1>2, <1>3 DEF InodeType
<1>5. \A g \in Files : Node(g) = ino[g] /\ Node(g)' = ino'[g]
  BY <1>1 DEF Node
<1>6. ASSUME NEW g \in Files PROVE End(g)' = End(g) /\ Node(g)'.addrs = Node(g).addrs
  <2>1. CASE g = f
    <3> HIDE DEF WriteEnd, Running
    <3>1. Node(f) = ino[f] /\ Node(f)' = ino'[f] /\ op'[f].k # "write"
      BY <1>3, <1>5 DEF Idle
    <3>2. End(f)' = ino'[f].size
      BY <3>1 DEF End
    <3>3. End(f) = IF op[f].ofs > ino[f].size THEN op[f].ofs ELSE ino[f].size
      BY <1>1, <3>1 DEF End
    <3> QED
      BY <1>4, <2>1, <3>1, <3>2, <3>3
  <2>2. CASE g # f
    BY <1>3, <1>5, <2>2 DEF End
  <2> QED
    BY <2>1, <2>2
<1>7. blk' = blk /\ \A g \in Files : Live(g)' <=> Live(g)
  BY DEF Live
<1> HIDE DEF WriteEnd
<1> QED
  BY <1>1, <1>6, <1>7, StillView

(* The kernel finds the files as mkfs has left them. *)
LEMMA sfs_read_inodeView ==
  ASSUME Inv, Inv', sfs_read_inode PROVE \A g \in Files : View(g)' = View(g)
<1>1. TypeOK /\ TypeOK'
  BY DEF Inv
<1>2. \A g \in Files : Node(g)' = Node(g)
  BY DEF Node, sfs_read_inode
<1>3. \A g \in Files : End(g)' = End(g) /\ (Live(g)' <=> Live(g))
  BY <1>2 DEF End, Live, sfs_read_inode
<1>4. blk' = blk
  BY DEF sfs_read_inode
<1> QED
  BY <1>1, <1>2, <1>3, <1>4, StillView

(* A step on an inode that is no file, or a file without words. *)
LEMMA InodeView ==
  ASSUME TypeOK, TypeOK', NEW f \in Files, blk' = blk, UNCHANGED mounted, ~Live(f),
         Live(f)' => End(f)' = 0,
         \A g \in Files \ {f} :
           /\ op'[g] = op[g] /\ ino'[g] = ino[g] /\ dino'[g] = dino[g]
           /\ Live(g)' <=> Live(g)
  PROVE  \A g \in Files : View(g)' = View(g)
<1> TAKE g \in Files
<1>1. CASE g # f
  <2>1. Node(g)' = Node(g)
    BY <1>1 DEF Node
  <2>2. End(g)' = End(g)
    BY <1>1, <2>1 DEF End
  <2> QED
    BY <1>1, <2>1, <2>2, StillView
<1>2. CASE g = f
  <2>1. View(f) = <<>>
    BY ViewIs
  <2>2. [i \in 1..0 |-> Word(f, i - 1)'] = <<>>
    OBVIOUS
  <2> QED
    BY <1>2, <2>1, <2>2, ViewIsNext
<1> QED
  BY <1>1, <1>2

LEMMA DeleteView ==
  ASSUME Inv, Inv', NEW f \in Files,
         DeleteDirect(f) \/ DeleteIndir(f) \/ free_disk_inode(f)
  PROVE  \A g \in Files : View(g)' = View(g)
<1> USE DEF DeleteDirect, DeleteIndir, free_disk_inode
<1>1. TypeOK /\ TypeOK' /\ OpSound(f) /\ op[f].k = "delete"
  BY DEF Inv, FileInv, Deleting
<1>2. ~Live(f) /\ blk' = blk /\ UNCHANGED mounted
  BY <1>1 DEF OpSound, Live
<1>3. ~Live(f)'
  BY <1>1 DEF OpSound, Live
<1>4. \A g \in Files \ {f} : op'[g] = op[g] /\ ino'[g] = ino[g] /\ dino'[g] = dino[g]
  BY <1>1 DEF TypeOK
<1>5. \A g \in Files \ {f} : Live(g)' <=> Live(g)
  BY DEF Live
<1> HIDE DEF DeleteDirect, DeleteIndir, free_disk_inode
<1> QED
  BY <1>1, <1>2, <1>3, <1>4, <1>5, InodeView

LEMMA AllocInodeView ==
  ASSUME Inv, Inv', alloc_inode \/ alloc_disk_inode
  PROVE  \A g \in Files : View(g)' = View(g)
<1>1. TypeOK /\ TypeOK'
  BY DEF Inv
<1>2. PICK f \in Files \ inodes : f = Min(Files \ inodes)
  <2>1. Files \ inodes \subseteq Nat /\ Files \ inodes # {}
    BY <1>1, SfsAssumption DEF alloc_inode, alloc_disk_inode, TypeOK
  <2> QED
    BY <2>1, MinIn
<1>3. /\ UNCHANGED <<mounted, blk, unlinked, op>> /\ inodes' = inodes \cup {f}
      /\ dino' = [dino EXCEPT ![f] = NewInode]
      /\ \/ mounted /\ ino' = [ino EXCEPT ![f] = NewInode]
         \/ ~mounted /\ ino' = ino
  <2>1. CASE alloc_inode
    BY <1>2, <2>1 DEF alloc_inode
  <2>2. CASE alloc_disk_inode
    BY <1>2, <2>2 DEF alloc_disk_inode, Running
  <2> QED
    BY <2>1, <2>2
<1>4. op[f] = Idle
  BY <1>2 DEF Inv, FileInv, OpSound
<1>5. Node(f)' = NewInode
  BY <1>1, <1>3 DEF Node, TypeOK, NewInode
<1>6. ~Live(f) /\ End(f)' = 0
  BY <1>3, <1>4, <1>5 DEF Live, End, NewInode, Idle
<1>7. \A g \in Files \ {f} : /\ op'[g] = op[g] /\ ino'[g] = ino[g] /\ dino'[g] = dino[g]
                             /\ Live(g)' <=> Live(g)
  BY <1>1, <1>3 DEF TypeOK, Live
<1> QED
  BY <1>1, <1>3, <1>6, <1>7, InodeView

LEMMA DeleteEntryView ==
  ASSUME Inv, Inv', NEW f \in Files, DeleteEntry(f)
  PROVE  \A g \in Files : View(g)' = View(g)
<1>1. TypeOK /\ TypeOK' /\ OpSound(f) /\ BlocksOwned /\ Running /\ op[f].k = "delete"
  BY DEF Inv, FileInv, DeleteEntry, Deleting
<1>2. mounted /\ f \in unlinked /\ f \in inodes /\ Node(f) = ino[f]
  BY <1>1, DeletingIs
<1>3. PICK a \in Addrs, j \in 0..(B - 1) :
        a = op[f].index /\ a >= NDIRECT /\ ino[f].addrs[a] # 0 /\ j = op[f].indir
  <2>1. op[f].indir \in 0..(B - 1)
    BY DEF DeleteEntry
  <2>2. op[f].index \in NDIRECT..(NDIRECT + NINDIRECT - 1) /\ ino[f].addrs[op[f].index] # 0
    BY <1>1, <2>1, SfsAssumption DEF OpSound
  <2> QED
    BY <2>1, <2>2, SfsAssumption DEF Addrs
<1>4. PICK d \in DataBlks : /\ d = ino[f].addrs[a] /\ <<f, a, -1>> \in Used
                            /\ NamedAt(<<f, a, -1>>) = d
  BY <1>1, <1>2, <1>3, AddrOwned
<1>5. /\ blk' = [blk EXCEPT ![d][j] = 0]
      /\ UNCHANGED <<inodes, unlinked, mounted, ino, dino>>
      /\ \A g \in Files \ {f} : op'[g] = op[g]
  BY <1>1, <1>3, <1>4 DEF DeleteEntry, TypeOK
<1>6. \A g \in Files : Node(g)' = Node(g)
  BY <1>5 DEF Node
<1>7. \A c \in DataBlks : c # d => blk'[c] = blk[c]
  BY <1>1, <1>5 DEF TypeOK
<1>8. ASSUME NEW g \in Files PROVE View(g)' = View(g)
  <2>1. Live(g)' <=> Live(g)
    BY <1>5 DEF Live
  <2>2. ASSUME Live(g) PROVE End(g)' = End(g)
    <3>1. g # f
      BY <1>2, <2>2 DEF Live
    <3> QED
      BY <1>5, <1>6, <3>1 DEF End
  <2>3. ASSUME Live(g), NEW o \in 0..(End(g) - 1) PROVE Word(g, o)' = Word(g, o)
    <3>1. PICK p \in Used :
            /\ p = PlaceOf(g, o) /\ p[1] = g /\ NamedAt(p) \in DataBlks
            /\ \A q \in Used : NamedAt(q) = NamedAt(p) => q = p
            /\ \A h, c : c >= NDIRECT /\ c \in Addrs => p # <<h, c, -1>>
      BY <2>3, WordOwned
    <3>2. NamedAt(p) # d
      BY <1>3, <1>4, <3>1
    <3>3. NamedAt(p)' = NamedAt(p)
      <4>1. /\ p = <<p[1], p[2], p[3]>> /\ p[2] \in Addrs /\ p[1] \in inodes
        BY PlaceParts DEF Used
      <4>2. CASE Node(g).addrs[p[2]] = d
        <5>1. <<g, p[2], -1>> = <<f, a, -1>>
          <6>1. d # 0
            BY SfsAssumption DEF DataBlks
          <6>2. <<g, p[2], -1>> \in Used /\ NamedAt(<<g, p[2], -1>>) = d
            BY <1>1, <3>1, <4>1, <4>2, <6>1, AddrOwned
          <6> QED
            BY <1>1, <1>4, <6>2 DEF BlocksOwned
        <5> QED
          BY <1>2, <2>3, <5>1 DEF Live
      <4>3. CASE Node(g).addrs[p[2]] # d
        <5>1. Node(g).addrs[p[2]] \in DataBlks \cup {0}
          BY <1>1, <4>1, NodeType
        <5>2. Node(g)' = Node(g)
          BY <1>6
        <5> QED
          BY <1>7, <3>1, <4>3, <5>1, <5>2 DEF NamedAt
      <4> QED
        BY <4>2, <4>3
    <3> QED
      BY <1>7, <2>3, <3>1, <3>2, <3>3, WordKept
  <2> QED
    BY <1>1, <2>1, <2>2, <2>3, ViewKept
<1> QED
  BY <1>8

LEMMA sfs_delete_inodeView ==
  ASSUME Inv, Inv', NEW f \in Files, sfs_delete_inode(f) PROVE Contents!Next
<1> USE DEF sfs_delete_inode
<1>1. TypeOK /\ TypeOK'
  BY DEF Inv
<1>2. View(f)' = <<>>
  <2>1. ~Live(f)'
    BY DEF Live
  <2> QED
    BY <1>1, <2>1, ViewIsNext
<1>3. ASSUME NEW g \in Files \ {f} PROVE View(g)' = View(g)
  <2>1. Node(g)' = Node(g) /\ op'[g] = op[g] /\ (Live(g)' <=> Live(g))
    BY <1>1 DEF Node, TypeOK, Live
  <2>2. End(g)' = End(g)
    BY <2>1 DEF End
  <2> QED
    BY <1>1, <2>1, <2>2, StillView
<1> QED
  BY <1>2, <1>3, RemoveStep

(* Every step writes words of one file, removes one file, or leaves all    *)
(* files as they are.                                                      *)
LEMMA NextContents ==
  Inv /\ Inv' /\ [Next]_vars => [Contents!Next]_[f \in Files |-> View(f)]
<1> SUFFICES ASSUME Inv, Inv', [Next]_vars
             PROVE  [Contents!Next]_[f \in Files |-> View(f)]
  OBVIOUS
<1>1. ASSUME \A g \in Files : View(g)' = View(g)
      PROVE  [Contents!Next]_[f \in Files |-> View(f)]
  BY <1>1
<1>2. CASE alloc_inode \/ sfs_read_inode \/ alloc_disk_inode
  BY <1>1, <1>2, AllocInodeView, sfs_read_inodeView
<1>3. ASSUME NEW f \in Files, mkfs_get_data_block(f) \/ AllocAddr(f) \/ AllocIndir(f)
      PROVE  [Contents!Next]_[g \in Files |-> View(g)]
  BY <1>1, <1>3, GetBlockView
<1>4. ASSUME NEW f \in Files, AppendBlk(f) \/ write_data(f) \/ sfs_delete_inode(f)
      PROVE  [Contents!Next]_[g \in Files |-> View(g)]
  BY <1>4, AppendBlkView, write_dataView, sfs_delete_inodeView
<1>5. ASSUME NEW f \in Files,
             \/ \E n \in Counts : \/ \E x \in Input : inode_append(f, x, n)
                                  \/ \E x \in Vals : sfs_write(f, x, n)
                                  \/ sfs_read(f, n)
             \/ Open(f) \/ PastEnd(f) \/ GiveUp(f) \/ Overrun(f)
             \/ DeleteSkip(f) \/ DeleteEnter(f) \/ DeleteFail(f)
      PROVE  [Contents!Next]_[g \in Files |-> View(g)]
  BY <1>1, <1>5, QuietView
<1>6. ASSUME NEW f \in Files, \E saved \in BOOLEAN : WriteEnd(f, saved)
      PROVE  [Contents!Next]_[g \in Files |-> View(g)]
  BY <1>1, <1>6, WriteEndView
<1>7. ASSUME NEW f \in Files,
             \/ DeleteDirect(f) \/ DeleteIndir(f) \/ free_disk_inode(f) \/ DeleteEntry(f)
      PROVE  [Contents!Next]_[g \in Files |-> View(g)]
  BY <1>1, <1>7, DeleteView, DeleteEntryView
<1>8. CASE UNCHANGED vars
  BY <1>8 DEF vars, View, Node, DataBlk
<1> QED
  BY <1>2, <1>3, <1>4, <1>5, <1>6, <1>7, <1>8 DEF Next

(* The data path implements FileContents, for any geometry and any files:  *)
(* what a reader finds in a file changes only by runs of words that        *)
(* write_data or inode_append store in it without a gap, and by            *)
(* sfs_delete_inode of that very file, through every allocation, failure   *)
(* and deletion of the others.                                             *)
THEOREM Refinement == Spec => Implements
<1>1. Init => Contents!Init
  <2> SUFFICES ASSUME Init PROVE \A f \in Files : View(f) = <<>>
    BY DEF Contents!Init
  <2> QED
    BY DEF Init, View
<1> QED
  BY <1>1, NextContents, Invariance, PTL DEF Spec, Implements, Contents!Spec

=============================================================================
