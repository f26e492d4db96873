------------------------------ MODULE PageCache ------------------------------
(* The page cache of a memory store (kernel/mm/pgcache.c, memstore.c,        *)
(* kernel/bdevms.c, kernel/fs/filems.c) on its radix tree: a page is looked  *)
(* up, allocated, filled from the store and entered, all with pgcache_lock   *)
(* held, and given back when any of it fails.                                *)
EXTENDS RadixTree

VARIABLES
  store,     \* "none", "bare" (memstore without its info), "live", or "lost":
             \* freed, and what was cached in it is nobody's
  pages,     \* pages that are allocated
  content,   \* what each allocated page was filled with: the index of its data
  panicked

vars == <<radixVars, store, pages, content, panicked>>

Free == call = NoCall /\ ~panicked

\* memstore_alloc: the store of a device, of an inode or of a region.
memstore_alloc ==
  /\ Free /\ store = "none"
  /\ store' = "bare"
  /\ UNCHANGED <<radixVars, pages, content, panicked>>

\* bdevms_alloc and filems_alloc: the info of the store, or the store goes.
bdevms_alloc(ok) ==
  /\ Free /\ store = "bare"
  /\ store' = IF ok THEN "live" ELSE "none"
  /\ UNCHANGED <<radixVars, pages, content, panicked>>

\* A device, an inode or a shared region goes, with its store; memstore_free
\* frees neither the pages nor the nodes of the tree.
memstore_free ==
  /\ Free /\ store = "live"
  /\ store' = IF height = 0 THEN "none" ELSE "lost"
  /\ UNCHANGED <<radixVars, pages, content, panicked>>

\* pgcache_get_page of a page that is not cached, up to the fill.
pgcache_get_page(i) ==
  \* any free page would do
  LET p == Min(Leaves \ pages) IN
  /\ Free /\ store = "live"
  /\ radix_tree_lookup(i) = NULL
  /\ pages # Leaves
  /\ pages' = pages \cup {p}
  /\ call' = [k |-> "fill", index |-> i, leaf |-> p]
  /\ UNCHANGED <<height, root_node, live, node, store, content, panicked>>

\* fillpage reads the page of the store the offset lies in.
fillpage ==
  /\ call.k = "fill"
  /\ content' = [content EXCEPT ![call.leaf] = call.index]
  /\ call' = [k |-> "insert", pc |-> "levels", index |-> call.index, leaf |-> call.leaf,
              node |-> NULL, level |-> 0]
  /\ UNCHANGED <<height, root_node, live, node, store, pages, panicked>>

fillpageFails ==
  /\ call.k = "fill"
  /\ pages' = pages \ {call.leaf}
  /\ call' = NoCall
  /\ UNCHANGED <<height, root_node, live, node, store, content, panicked>>

(* Variant: the page of an insertion that failed is forgotten. *)
ReturnLeak ==
  /\ call.k = "ret"
  /\ pages' = IF call.err = "REMOVED" THEN pages \ {call.leaf} ELSE pages
  /\ panicked' = (call.err = "NODE_EXIST")
  /\ call' = NoCall
  /\ UNCHANGED <<height, root_node, live, node, store, content>>

\* The tree has returned: an insertion that failed gives the page back, and
\* one that finds a leaf panics.  pgcache_remove_page drops the leaf and frees
\* nothing; nobody calls it yet, and its caller, who must have the page, is
\* assumed to free it with the removal.
Return ==
  /\ call.k = "ret"
  /\ pages' = IF call.err \in {"ALLOC", "REMOVED"} THEN pages \ {call.leaf} ELSE pages
  /\ content' = [p \in Leaves |-> IF p \in pages' THEN content[p] ELSE -1]
  /\ panicked' = (call.err = "NODE_EXIST")
  /\ call' = NoCall
  /\ UNCHANGED <<height, root_node, live, node, store>>

\* pgcache_remove_page, of a page that is cached.
pgcache_remove_page(i) ==
  /\ Free /\ store = "live"
  /\ radix_tree_lookup(i) # NULL
  /\ call' = RemoveCall(i)
  /\ UNCHANGED <<height, root_node, live, node, store, pages, content, panicked>>

Init ==
  /\ radix_tree_construct
  /\ store = "none"
  /\ pages = {}
  /\ content = [p \in Leaves |-> -1]
  /\ panicked = FALSE

Next ==
  \/ memstore_alloc \/ memstore_free
  \/ \E ok \in BOOLEAN : bdevms_alloc(ok)
  \/ \E i \in Indexes : pgcache_get_page(i) \/ pgcache_remove_page(i)
  \/ fillpage \/ fillpageFails \/ Return
  \/ RadixStep /\ UNCHANGED <<store, pages, content, panicked>>

Spec == Init /\ [][Next]_vars

-----------------------------------------------------------------------------
CallType ==
  {NoCall}
  \cup [k : {"fill"}, index : Indexes, leaf : Leaves]
  \cup [k : {"insert"}, pc : {"levels", "path"}, index : Indexes, leaf : Leaves,
        node : live \cup {NULL}, level : Nat]
  \cup [k : {"remove"}, index : Indexes, node : Nodes \cup {NULL}, level : Nat, leaf : Leaves]
  \cup [k : {"ret"}, index : Indexes, leaf : Leaves,
        err : {"OK", "ALLOC", "NODE_EXIST", "REMOVED"}]

(* Type invariant. *)
TypeOK ==
  /\ height \in Nat
  /\ root_node \in live \cup {NULL} \/ call.k = "remove"
  /\ live \subseteq Nodes
  /\ node \in [Nodes -> [count : 0..WIDTH, parent : Nodes \cup {NULL},
                         slots : [Slots -> Nodes \cup Leaves \cup {NULL}]]]
  /\ call \in CallType
  /\ store \in {"none", "bare", "live", "lost"}
  /\ pages \subseteq Leaves
  /\ content \in [Leaves -> Indexes \cup {-1}]
  /\ panicked \in BOOLEAN

Cached == {i \in Indexes : radix_tree_lookup(i) # NULL}

(* pgcache_get_page: every allocated page is cached at one index or in the
   hands of the call in progress; no failure of a fill or of a node leaks it,
   and no page is freed while it is cached. *)
PagesExact ==
  LET held == IF call = NoCall THEN {} ELSE {call.leaf} IN
  /\ {radix_tree_lookup(i) : i \in Cached} \subseteq pages
  /\ pages = {radix_tree_lookup(i) : i \in Cached}
              \cup {p \in held : ~(call.k = "ret" /\ call.err = "OK")}

(* pgcache_get_page: the page found at an index was filled from that index,
   whatever the tree has been through since. *)
RightPage == \A i \in Cached : content[radix_tree_lookup(i)] = i

(* pgcache_get_page: the insertion after a failed lookup never finds a leaf in
   its way ("node should not exist"). *)
NoPanic == ~panicked

(* The tree under insertions and removals, each of several steps and some
   given up half way: its links and counts agree, and a removal ends above the
   root. *)
TreeKept == TypeOK /\ TreeSound /\ RemoveSound

(* pgcache_get_page: a page is found at the index it was filled from and at no
   other, a page that is found nowhere is given back, and nobody panics. *)
PagesFound == PagesExact /\ RightPage /\ NoPanic

Map == INSTANCE IndexMap WITH map <- [i \in Indexes |-> radix_tree_lookup(i)]

(* The tree and the cache around it implement a partial map: growing the tree
   moves no leaf, removing one touches no other, and a cached page stays until
   it is removed. *)
Implements == Map!Spec

(* radix_tree_empty is true of a tree without a leaf.  It does not hold: a
   first index beyond the first node leaves nodes nothing ever removes. *)
EmptyTrue == call = NoCall /\ Cached = {} => height = 0

(* memstore.h: memstore_free frees the store.  It does not hold that the pages
   cached in it go too: those of a shared region stay allocated. *)
NothingLost == store # "lost"
=============================================================================
