-------------------------------- MODULE Pmem --------------------------------
(***************************************************************************)
(* Physical memory: kernel/mm/pmem.c.  Until pmem_init runs, a bitmap and  *)
(* first fit; from then on a binary buddy allocator over the page          *)
(* structures of pagemap.  Every operation runs under pmem_lock and is one *)
(* step.  A page is its index in pagemap; held is what the callers own.    *)
(*                                                                         *)
(* The recursions of find_freeblock and merge_block are written out: a     *)
(* search stops at the first order with a free block, a merge at the first *)
(* order whose buddy is not a free block of that order.                    *)
(***************************************************************************)
EXTENDS Integers, FiniteSets, Sequences

LOCAL INSTANCE FiniteSetsExt
LOCAL INSTANCE Functions

CONSTANTS MAX_ORDER,
          NPages,         \* pmemconfig.pmem_end / pg_size
          PmemStart,      \* pmemconfig.pmem_start / pg_size
          BitmapPages, PagemapPages,  \* what bitmap and pagemap take
          BootPages,      \* the pages that vpmap_init allocates
          MaxRef,         \* bound: references to a page
          MaxHeld         \* bound: blocks that callers hold at once

ASSUME PmemAssumption ==
  /\ MAX_ORDER \in Nat /\ NPages \in Nat /\ MaxRef \in Nat \ {0} /\ MaxHeld \in Nat
  /\ PmemStart \in Nat \ {0} /\ PmemStart < NPages
  /\ BitmapPages \in Nat \ {0} /\ PagemapPages \in Nat \ {0}
  /\ BootPages \in Nat
  /\ PmemStart + BitmapPages + BootPages + PagemapPages <= NPages

Pages  == 0..(NPages - 1)
Orders == 0..MAX_ORDER

VARIABLES
  bitmap,               \* indices that are set in the boot allocator's bitmap
  bitmap_contig_start,
  pagemap_initialized,
  refcnt, order,        \* struct page
  freeblocks,           \* the free lists, of first pages
  held                  \* references that callers hold on the block at a page

pmvars == <<bitmap, bitmap_contig_start, pagemap_initialized, refcnt, order,
            freeblocks, held>>

bitmap_end == NPages - PmemStart

Block(p, k) == p..(p + 2^k - 1)

FreeBlocks == {<<p, k>> \in Pages \X Orders : p \in Range(freeblocks[k])}

-----------------------------------------------------------------------------
(* The boot allocator *)

(* The loop counts the set bits it has passed and returns that count, once *)
(* n bits in a row are free.                                               *)
bitmap_find(n) ==
  LET Ends == {i \in (n - 1)..(bitmap_end - 1) :
                 \A j \in (i - n + 1)..i : j \notin bitmap}
  IN  IF Ends = {} THEN -1
      ELSE Cardinality({j \in bitmap : j < Min(Ends)})

bitmap_alloc(i, n) ==
  /\ i..(i + n - 1) \cap bitmap = {}     \* kassert
  /\ bitmap' = bitmap \cup i..(i + n - 1)
  /\ bitmap_contig_start' = Max({bitmap_contig_start, i + n})

(* Before pmem_init: vpmap_init takes pages for the kernel's page tables. *)
BootAlloc ==
  /\ ~pagemap_initialized
  /\ Cardinality(bitmap) < BitmapPages + BootPages
  /\ bitmap_find(1) # -1
  /\ bitmap_alloc(bitmap_find(1), 1)
  /\ held' = [held EXCEPT ![PmemStart + bitmap_find(1)] = 1]
  /\ UNCHANGED <<pagemap_initialized, refcnt, order, freeblocks>>

-----------------------------------------------------------------------------
(* From the bitmap to free lists *)

get_max_page_order(start, end) ==
  Max({0} \cup {k \in Orders : start % 2^k = 0 /\ start + 2^k <= end})

(* The blocks that freeblocks_init inserts, in its order, when the bits of *)
(* bits are set: each free range is cut up from its start.                 *)
InitialBlocks(bits, contig) ==
  LET RangeEnd(i) == IF i >= contig THEN bitmap_end
                     ELSE Min({contig} \cup {j \in bits : j > i})
      cut[i \in 0..(2 * NPages)] ==
        IF i >= bitmap_end THEN <<>>
        ELSE IF i \in bits /\ i < contig THEN cut[i + 1]
        ELSE LET p == PmemStart + i
                 k == get_max_page_order(p, PmemStart + RangeEnd(i))
             IN  <<<<p, k>>>> \o cut[i + 2^k]
  IN  cut[0]

(* pagemap is allocated, the bitmap's own pages are freed, and the bitmap  *)
(* is turned into page structures and free lists.                          *)
pmem_init ==
  LET i      == bitmap_find(PagemapPages)
      contig == Max({bitmap_contig_start, i + PagemapPages})
      bits   == (bitmap \cup i..(i + PagemapPages - 1)) \ 0..(BitmapPages - 1)
      blocks == InitialBlocks(bits, contig)
  IN
  /\ ~pagemap_initialized
  /\ Cardinality(bitmap) = BitmapPages + BootPages
  /\ i # -1
  /\ bitmap' = bits
  /\ bitmap_contig_start' = contig
  /\ refcnt' = [p \in Pages |->
                  IF p < PmemStart \/ p - PmemStart \in bits THEN 1 ELSE 0]
  /\ order' = [p \in Pages |->
                 IF \E b \in Range(blocks) : b[1] = p
                 THEN (CHOOSE b \in Range(blocks) : b[1] = p)[2] ELSE 0]
  /\ freeblocks' = [k \in Orders |->
       LET of == SelectSeq(blocks, LAMBDA b : b[2] = k)
       IN  [j \in 1..Len(of) |-> of[j][1]]]
  /\ pagemap_initialized' = TRUE
  /\ UNCHANGED held

-----------------------------------------------------------------------------
(* The buddy allocator *)

get_min_page_order(n) == Min({k \in Orders : 2^k >= n})

(* The orders that can serve a request of order k. *)
Serving(k) == {j \in k..MAX_ORDER : freeblocks[j] # <<>>}

(* The page that find_freeblock finds for order k. *)
find_freeblock(k) == Head(freeblocks[Min(Serving(k))])

CanAlloc(n) == pagemap_initialized /\ Serving(get_min_page_order(n)) # {}
AllocPage(n) == find_freeblock(get_min_page_order(n))

(* The upper half of every block that is split goes back, of its order. *)
Split(p, k) ==
  LET s     == Min(Serving(k))
      Upper == [j \in k..(s - 1) |-> p + 2^j]
  IN
  /\ freeblocks' = [j \in Orders |->
       IF j = s THEN Tail(freeblocks[j])
       ELSE IF j \in k..(s - 1) THEN Append(freeblocks[j], Upper[j])
       ELSE freeblocks[j]]
  /\ order' = [q \in Pages |->
       IF q = p THEN k
       ELSE IF q \in Range(Upper) THEN CHOOSE j \in DOMAIN Upper : Upper[j] = q
       ELSE order[q]]
  /\ refcnt' = [q \in Pages |->
       IF q = p THEN 1 ELSE IF q \in Range(Upper) THEN 0 ELSE refcnt[q]]

(* pmem_nalloc_internal; a request that finds no block changes nothing. *)
TakeBlock(n) ==
  /\ CanAlloc(n)
  /\ Split(AllocPage(n), get_min_page_order(n))
  /\ UNCHANGED <<bitmap, bitmap_contig_start, pagemap_initialized>>

find_buddy(p, k) == IF (p \div 2^k) % 2 = 1 THEN p - 2^k ELSE p + 2^k

(* The block of order k that p is in, and whether merge_block may join it  *)
(* with its buddy.                                                         *)
Enclosing(p, k) == p - (p % 2^k)

(* Variants: a smaller free block is taken for the buddy; nothing merges. *)
MergeableSplit(p, k) ==
  LET b == find_buddy(Enclosing(p, k), k)
  IN  b < NPages /\ refcnt[b] = 0

MergeableNever(p, k) == FALSE

Mergeable(p, k) ==
  LET b == find_buddy(Enclosing(p, k), k)
  IN  b < NPages /\ refcnt[b] = 0 /\ order[b] = k

(* pmem_nfree_internal of the block at p: merge, then insert the result. *)
FreeBlock(p) ==
  LET m == Min({k \in order[p]..MAX_ORDER : k = MAX_ORDER \/ ~Mergeable(p, k)})
      b == Enclosing(p, m)
  IN
  /\ freeblocks' = [k \in Orders |->
       IF k \in order[p]..(m - 1)
       THEN SelectSeq(freeblocks[k],
                      LAMBDA q : q # find_buddy(Enclosing(p, k), k))
       ELSE IF k = m THEN Append(freeblocks[k], b)
       ELSE freeblocks[k]]
  /\ order' = [q \in Pages |->
       LET Joined == {k \in (order[p] + 1)..m : q = Enclosing(p, k)}
       IN  IF Joined = {} THEN order[q] ELSE Max(Joined)]
  /\ refcnt' = [refcnt EXCEPT ![p] = 0]
  /\ UNCHANGED <<bitmap, bitmap_contig_start, pagemap_initialized>>

-----------------------------------------------------------------------------
(* What the callers do.  pmem_nfree is for a block with one reference;     *)
(* pages are shared one at a time.                                         *)

Reserved == {p \in Pages : p < PmemStart \/ p - PmemStart \in bitmap}

pmem_nalloc(n) ==
  /\ Cardinality({p \in Pages \ Reserved : held[p] > 0}) < MaxHeld
  /\ TakeBlock(n)
  /\ held' = [held EXCEPT ![AllocPage(n)] = 1]

pmem_nfree(p) ==
  /\ pagemap_initialized /\ held[p] = 1 /\ p \notin Reserved
  /\ FreeBlock(p)
  /\ held' = [held EXCEPT ![p] = 0]

pmem_inc_refcnt(p) ==
  /\ pagemap_initialized /\ held[p] \in 1..(MaxRef - 1) /\ p \notin Reserved
  /\ order[p] = 0
  /\ refcnt' = [refcnt EXCEPT ![p] = @ + 1]
  /\ held' = [held EXCEPT ![p] = @ + 1]
  /\ UNCHANGED <<bitmap, bitmap_contig_start, pagemap_initialized, order,
                 freeblocks>>

pmem_dec_refcnt(p) ==
  /\ pagemap_initialized /\ held[p] > 0 /\ p \notin Reserved /\ order[p] = 0
  /\ held' = [held EXCEPT ![p] = @ - 1]
  /\ \/ refcnt[p] = 1 /\ FreeBlock(p)
     \/ /\ refcnt[p] > 1
        /\ refcnt' = [refcnt EXCEPT ![p] = @ - 1]
        /\ UNCHANGED <<bitmap, bitmap_contig_start, pagemap_initialized, order,
                       freeblocks>>

-----------------------------------------------------------------------------
Init ==
  /\ bitmap = 0..(BitmapPages - 1)
  /\ bitmap_contig_start = BitmapPages
  /\ pagemap_initialized = FALSE
  /\ refcnt = [p \in Pages |-> 0]
  /\ order = [p \in Pages |-> 0]
  /\ freeblocks = [k \in Orders |-> <<>>]
  /\ held = [p \in Pages |-> 0]

Next ==
  \/ BootAlloc
  \/ pmem_init
  \/ \E n \in 1..2^MAX_ORDER : pmem_nalloc(n)
  \/ \E p \in Pages : pmem_nfree(p) \/ pmem_inc_refcnt(p) \/ pmem_dec_refcnt(p)

Spec == Init /\ [][Next]_pmvars

=============================================================================
