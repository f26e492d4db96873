------------------------------ MODULE Kmalloc ------------------------------
(***************************************************************************)
(* The kernel's object allocators, kernel/mm/kmalloc.c, on top of Pmem.  A *)
(* slab is named by its first page, an object and a kmem_cache by their    *)
(* byte address; the free list kept in a slab's index array is a sequence. *)
(* An operation runs under the lock of its cache, in which pmem_lock is    *)
(* nested, and is one step.                                                *)
(***************************************************************************)
EXTENDS Pmem

LOCAL INSTANCE Functions
LOCAL INSTANCE FiniteSetsExt

CONSTANTS pg_size,
          SLAB_SIZE, INT_SIZE, CACHE_SIZE,  \* sizeof slab, int, kmem_cache
          MIN_OBJS_PER_SLAB,
          KmallocSizes,                     \* the sizes of kmalloc_allocators
          CacheSizes,         \* what kmem_cache_create is called with
          MaxObjs             \* bound: objects that callers hold at once

ASSUME KmallocAssumption ==
  /\ pg_size \in Nat \ {0} /\ SLAB_SIZE \in Nat /\ INT_SIZE \in Nat \ {0}
  /\ CACHE_SIZE \in Nat \ {0} /\ MIN_OBJS_PER_SLAB \in Nat \ {0}
  /\ MaxObjs \in Nat
  /\ KmallocSizes \in Seq(Nat \ {0})
  /\ \A i, j \in DOMAIN KmallocSizes : i < j => KmallocSizes[i] < KmallocSizes[j]

None == -1
allocator_cache == 0          \* the address of the static cache of caches
Addrs == 0..(NPages * pg_size - 1)

VARIABLES
  cache,               \* the caches that exist: obj_size and lists of slabs
  slabs,               \* the slabs that exist
  page_slab,           \* page->slab
  page_cache,          \* page->kmem_cache
  kmalloc_allocators,  \* the caches of the first size classes
  objs                 \* the objects callers hold, and the cache of each

kmvars == <<cache, slabs, page_slab, page_cache, kmalloc_allocators, objs>>
allvars == <<pmvars, kmvars>>

-----------------------------------------------------------------------------
(* Geometry of a slab: header, index array, objects *)

DivUp(a, b) == (a + b - 1) \div b

n_pages(size) ==
  DivUp(SLAB_SIZE + (size + INT_SIZE) * MIN_OBJS_PER_SLAB, pg_size)

(* Variant: the index array is not counted. *)
n_objsNoIndex(size) ==
  (n_pages(size) * pg_size - SLAB_SIZE) \div size

n_objs(size) ==
  (n_pages(size) * pg_size - SLAB_SIZE) \div (size + INT_SIZE)

objs_start(s, size) == s * pg_size + SLAB_SIZE + n_objs(size) * INT_SIZE

ObjAddr(s, size, i) == objs_start(s, size) + size * i

-----------------------------------------------------------------------------
(* kmem_cache_alloc takes a slot of the first slab on the free list, or of *)
(* a slab it makes.                                                        *)

NewSlab(c) ==
  [cache |-> c, free |-> [i \in 1..n_objs(cache[c].obj_size) |-> i - 1]]

SlabSource(c) ==
  IF cache[c].free # <<>> THEN Head(cache[c].free)
  ELSE AllocPage(n_pages(cache[c].obj_size))

SlabFound(c) ==
  IF cache[c].free # <<>> THEN slabs[Head(cache[c].free)] ELSE NewSlab(c)

CanAllocObj(c) == cache[c].free # <<>> \/ CanAlloc(n_pages(cache[c].obj_size))

AllocObj(c) ==
  ObjAddr(SlabSource(c), cache[c].obj_size, Head(SlabFound(c).free))

(* The pages of a slab are linked to it and to its cache. *)
slab_create(c, s) ==
  LET pages == s..(s + n_pages(cache[c].obj_size) - 1) IN
  /\ TakeBlock(n_pages(cache[c].obj_size))
  /\ page_slab' = [p \in Pages |-> IF p \in pages THEN s ELSE page_slab[p]]
  /\ page_cache' = [p \in Pages |-> IF p \in pages THEN c ELSE page_cache[p]]

(* The lists of cache c once slab s gives away its first free slot. *)
ListsAfterAlloc(c, s) ==
  LET more == Len(SlabFound(c).free) > 1
      rest == IF cache[c].free = <<>> THEN <<>> ELSE Tail(cache[c].free)
  IN  [cache[c] EXCEPT !.free = IF more THEN <<s>> \o rest ELSE rest,
                       !.full = IF more THEN @ ELSE Append(@, s)]

(* created: caches that the caller makes out of the object, none or one. *)
kmem_cache_alloc(c, created) ==
  LET s == SlabSource(c) IN
  /\ CanAllocObj(c)
  /\ slabs' = [q \in DOMAIN slabs \cup {s} |->
       IF q = s THEN [SlabFound(c) EXCEPT !.free = Tail(@)] ELSE slabs[q]]
  /\ cache' = [q \in DOMAIN cache \cup DOMAIN created |->
       IF q = c THEN ListsAfterAlloc(c, s)
       ELSE IF q \in DOMAIN created THEN created[q] ELSE cache[q]]
  /\ \/ /\ cache[c].free = <<>>
        /\ slab_create(c, s)
        /\ UNCHANGED held
     \/ /\ cache[c].free # <<>>
        /\ UNCHANGED <<pmvars, page_slab, page_cache>>

EmptyCache(size) == [obj_size |-> size, full |-> <<>>, free |-> <<>>]
NoCaches == [q \in {} |-> EmptyCache(0)]

Ready == Len(kmalloc_allocators) = Len(KmallocSizes)

(* One turn of the loop in kmalloc_init. *)
kmalloc_init ==
  LET size == KmallocSizes[Len(kmalloc_allocators) + 1]
      a    == AllocObj(allocator_cache)
  IN
  /\ pagemap_initialized /\ ~Ready
  /\ kmem_cache_alloc(allocator_cache, [q \in {a} |-> EmptyCache(size)])
  /\ kmalloc_allocators' = Append(kmalloc_allocators, a)
  /\ UNCHANGED objs

kmem_cache_create(size) ==
  LET a == AllocObj(allocator_cache) IN
  /\ Ready
  /\ kmem_cache_alloc(allocator_cache, [q \in {a} |-> EmptyCache(size)])
  /\ UNCHANGED <<kmalloc_allocators, objs>>

CallerAlloc(c) ==
  /\ Cardinality(DOMAIN objs) < MaxObjs
  /\ kmem_cache_alloc(c, NoCaches)
  /\ objs' = [a \in DOMAIN objs \cup {AllocObj(c)} |->
                IF a = AllocObj(c) THEN c ELSE objs[a]]
  /\ UNCHANGED kmalloc_allocators

(* The size class of a request: the first that is big enough. *)
SizeClass(size) ==
  kmalloc_allocators[Min({i \in DOMAIN KmallocSizes : KmallocSizes[i] >= size})]

kmalloc(size) ==
  /\ Ready
  /\ size > 0 /\ \E i \in DOMAIN KmallocSizes : KmallocSizes[i] >= size
  /\ CallerAlloc(SizeClass(size))

-----------------------------------------------------------------------------
(* Variant: the slab is moved whether it was full or not. *)
ReleasedStays(c, a, gone) ==
  LET s    == page_slab[a \div pg_size]
      i    == (a - objs_start(s, cache[slabs[s].cache].obj_size)) \div cache[c].obj_size
  IN
  /\ slabs' = [slabs EXCEPT ![s].free = <<i>> \o @]
  /\ cache' = [q \in DOMAIN cache \ gone |->
       IF q = c
       THEN [cache[q] EXCEPT !.full = SelectSeq(@, LAMBDA r : r # s),
                             !.free = Append(@, s)]
       ELSE cache[q]]

(* The slot goes back to the slab its page is linked to; a slab that was   *)
(* full moves to the end of the free list.                                 *)
Released(c, a, gone) ==
  LET s    == page_slab[a \div pg_size]
      i    == (a - objs_start(s, cache[slabs[s].cache].obj_size)) \div cache[c].obj_size
      full == slabs[s].free = <<>>
  IN
  /\ slabs' = [slabs EXCEPT ![s].free = <<i>> \o @]
  /\ cache' = [q \in DOMAIN cache \ gone |->
       IF q = c /\ full
       THEN [cache[q] EXCEPT !.full = SelectSeq(@, LAMBDA r : r # s),
                             !.free = Append(@, s)]
       ELSE cache[q]]

kmem_cache_free(c, a) ==
  /\ Released(c, a, {})
  /\ objs' = [b \in DOMAIN objs \ {a} |-> objs[b]]
  /\ UNCHANGED <<pmvars, page_slab, page_cache, kmalloc_allocators>>

(* The cache comes from the page of the object. *)
kfree(a) ==
  /\ objs[a] \in Range(kmalloc_allocators)
  /\ kmem_cache_free(page_cache[a \div pg_size], a)

(* slab_list_destroy frees the slabs of a cache, one pmem_nfree after the  *)
(* other; the caller has freed the objects first.  The last step frees the *)
(* cache itself.                                                           *)
slab_destroy(c) ==
  LET s == Head(cache[c].free) IN
  /\ c \notin Range(kmalloc_allocators) \cup {allocator_cache}
  /\ \A a \in DOMAIN objs : objs[a] # c
  /\ cache[c].free # <<>>
  /\ FreeBlock(s)
  /\ slabs' = [q \in DOMAIN slabs \ {s} |-> slabs[q]]
  /\ cache' = [cache EXCEPT ![c].free = Tail(@)]
  /\ UNCHANGED <<held, page_slab, page_cache, kmalloc_allocators, objs>>

kmem_cache_destroy(c) ==
  /\ c \notin Range(kmalloc_allocators) \cup {allocator_cache}
  /\ \A a \in DOMAIN objs : objs[a] # c
  /\ cache[c].free = <<>> /\ cache[c].full = <<>>
  /\ Released(allocator_cache, c, {c})
  /\ UNCHANGED <<pmvars, page_slab, page_cache, kmalloc_allocators, objs>>

-----------------------------------------------------------------------------
KmInit ==
  /\ Init
  /\ cache = [q \in {allocator_cache} |-> EmptyCache(CACHE_SIZE)]
  /\ slabs = [q \in {} |-> [cache |-> 0, free |-> <<>>]]
  /\ page_slab = [p \in Pages |-> None]
  /\ page_cache = [p \in Pages |-> None]
  /\ kmalloc_allocators = <<>>
  /\ objs = [a \in {} |-> 0]

KmNext ==
  \/ Next /\ (pagemap_initialized => Ready) /\ UNCHANGED kmvars
  \/ kmalloc_init
  \/ \E size \in CacheSizes : kmem_cache_create(size)
  \/ \E size \in 1..(KmallocSizes[Len(KmallocSizes)] + 1) : kmalloc(size)
  \/ \E c \in DOMAIN cache \ (Range(kmalloc_allocators) \cup {allocator_cache}) :
       \/ CallerAlloc(c)
       \/ slab_destroy(c)
       \/ kmem_cache_destroy(c)
       \/ \E a \in DOMAIN objs : objs[a] = c /\ kmem_cache_free(c, a)
  \/ \E a \in DOMAIN objs : kfree(a)

KmSpec == KmInit /\ [][KmNext]_allvars

-----------------------------------------------------------------------------
(* Properties *)

SlabPages(s) == s..(s + n_pages(cache[slabs[s].cache].obj_size) - 1)
ObjBytes(a, c) == a..(a + cache[c].obj_size - 1)

(* Every variable has its type. *)
TypeOK ==
  /\ bitmap \subseteq 0..(bitmap_end - 1)
  /\ bitmap_contig_start \in 0..bitmap_end
  /\ pagemap_initialized \in BOOLEAN
  /\ refcnt \in [Pages -> 0..MaxRef]
  /\ order \in [Pages -> Orders]
  /\ \A k \in Orders : Range(freeblocks[k]) \subseteq Pages
  /\ held \in [Pages -> 0..MaxRef]
  /\ DOMAIN cache \subseteq Addrs /\ DOMAIN objs \subseteq Addrs
  /\ DOMAIN slabs \subseteq Pages
  /\ page_slab \in [Pages -> Pages \cup {None}]

(* The blocks that are in use: held by a caller, or a slab. *)
UsedBlocks ==
  {<<p, order[p]>> : p \in {q \in Pages \ Reserved : held[q] > 0} \cup DOMAIN slabs}

(* Splitting and merging neither lose nor duplicate a page: free blocks,   *)
(* blocks in use and the reserved pages are disjoint and make up memory,   *)
(* and every block lies at a multiple of its size.                         *)
Partition ==
  pagemap_initialized =>
    LET All == FreeBlocks \cup UsedBlocks IN
    /\ FreeBlocks \cap UsedBlocks = {}
    /\ \A b \in All : b[1] % 2^b[2] = 0
    /\ \A b, d \in All : b # d => Block(b[1], b[2]) \cap Block(d[1], d[2]) = {}
    /\ UNION {Block(b[1], b[2]) : b \in All} = Pages \ Reserved
    /\ \A k \in Orders : Len(freeblocks[k]) = Cardinality(Range(freeblocks[k]))

(* Memory does not fragment further than the blocks in use force it to: a  *)
(* request fails only when no aligned run of pages of its size is free.    *)
FailsOnlyWhenFull ==
  pagemap_initialized =>
    \A k \in Orders :
      (\E p \in Pages :
         /\ p % 2^k = 0 /\ Block(p, k) \subseteq Pages
         /\ \A q \in Block(p, k) : \E b \in FreeBlocks : q \in Block(b[1], b[2]))
      => Serving(k) # {}

(* A page has as many references as its users hold, and no page on a free  *)
(* list has one: the count frees a page with its last user, never before.  *)
RefcntHeld ==
  pagemap_initialized =>
    /\ \A p \in Pages \ Reserved : held[p] > 0 => refcnt[p] = held[p]
    /\ \A s \in DOMAIN slabs : refcnt[s] = 1 /\ held[s] = 0
    /\ \A b \in FreeBlocks : refcnt[b[1]] = 0 /\ order[b[1]] = b[2]

(* Pages through splits, merges, shared references and the end of the      *)
(* boot-time bitmap: each has one owner, and the count of its users.       *)
PagesSound == Partition /\ RefcntHeld

(* The objects in use, and the caches, which are objects themselves. *)
Live == [a \in DOMAIN objs \cup (DOMAIN cache \ {allocator_cache}) |->
           IF a \in DOMAIN objs THEN objs[a] ELSE allocator_cache]

(* Two objects never share a byte, and none lies on the header or index    *)
(* array of a slab or outside the slab's pages.                            *)
ObjectsApart ==
  \A a \in DOMAIN Live :
    LET s == page_slab[a \div pg_size] IN
    /\ \A b \in DOMAIN Live : b # a => ObjBytes(a, Live[a]) \cap ObjBytes(b, Live[b]) = {}
    /\ ObjBytes(a, Live[a]) \subseteq
         (s * pg_size + SLAB_SIZE + n_objs(cache[Live[a]].obj_size) * INT_SIZE)
           ..((s + n_pages(cache[Live[a]].obj_size)) * pg_size - 1)

(* What a page of an object is linked to is the slab and the cache that    *)
(* the object came from, so that freeing it returns it there, whichever    *)
(* page of the slab it begins in and whatever the page was before.         *)
FreeFindsOwner ==
  \A a \in DOMAIN Live :
    LET p == a \div pg_size IN
    /\ page_slab[p] \in DOMAIN slabs
    /\ p \in SlabPages(page_slab[p])
    /\ page_cache[p] = Live[a]
    /\ slabs[page_slab[p]].cache = Live[a]

(* A slot is free or in use, and not both; a slab is on the one list of    *)
(* its cache that its free slots call for.                                 *)
SlotsExact ==
  \A s \in DOMAIN slabs :
    LET c    == slabs[s].cache
        size == cache[c].obj_size
        used == {i \in 0..(n_objs(size) - 1) :
                   LET a == ObjAddr(s, size, i) IN a \in DOMAIN Live /\ Live[a] = c}
    IN
    /\ c \in DOMAIN cache
    /\ Range(slabs[s].free) = (0..(n_objs(size) - 1)) \ used
    /\ Len(slabs[s].free) = n_objs(size) - Cardinality(used)
    /\ IF slabs[s].free = <<>>
       THEN s \in Range(cache[c].full) /\ s \notin Range(cache[c].free)
       ELSE s \in Range(cache[c].free) /\ s \notin Range(cache[c].full)

(* Slabs, their free slots and the links from pages back to them agree, so *)
(* that kfree, which has nothing but an address, returns the object to the *)
(* slab and slot that it came from.                                        *)
SlabsSound == TypeOK /\ FreeFindsOwner /\ SlotsExact

=============================================================================
