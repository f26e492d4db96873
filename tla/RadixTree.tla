------------------------------ MODULE RadixTree ------------------------------
(* kernel/radix_tree.c: the index behind the page caches, the inode cache,   *)
(* the superblock table and the trap table.  Its nodes are objects of a      *)
(* cache of their own and may fail to be allocated at every level.  Each     *)
(* user calls it with a lock of its own held, so one call runs at a time;    *)
(* its loops are taken one round per step.                                   *)
EXTENDS Integers, Sequences, FiniteSets, FiniteSetsExt

CONSTANTS
  WIDTH,      \* RADIX_TREE_WIDTH: slots of a node
  Nodes,      \* memory for nodes: positive numbers
  Leaves,     \* leaves: positive numbers apart from the nodes
  Indexes     \* indexes used by the callers

ASSUME RadixAssumption ==
  /\ WIDTH \in Nat \ {0, 1}
  /\ Indexes \subseteq Nat
  /\ Nodes \cup Leaves \subseteq Nat \ {0} /\ Nodes \cap Leaves = {}

VARIABLES height, root_node,
          live,     \* nodes that are allocated
          node,     \* count, parent and slots of each node
          call      \* the call in progress

radixVars == <<height, root_node, live, node, call>>

NULL == 0
Slots == 0..(WIDTH - 1)
NewNode == [count |-> 0, parent |-> NULL, slots |-> [s \in Slots |-> NULL]]
NoCall == [k |-> "none"]

max_index == IF height = 0 THEN -1 ELSE WIDTH ^ height - 1

level_index(index, level) == (index \div (WIDTH ^ level)) % WIDTH

\* The node created next; any free one would do.
NewId == Min(Nodes \ live)
CanCreate == live # Nodes

(* Variant: the child does not learn its parent. *)
add_childOneWay(n, p, s, child, is_node) ==
  [n EXCEPT ![p].slots[s] = child, ![p].count = @ + 1]

\* Child at slot s of p.  The slot is known to be free.
add_child(n, p, s, child, is_node) ==
  LET linked == [n EXCEPT ![p].slots[s] = child, ![p].count = @ + 1]
  IN  IF is_node THEN [linked EXCEPT ![child].parent = p] ELSE linked

\* The parent of a leaf, without allocating: NULL when the path breaks off.
find_parent(index) ==
  LET at[l \in 0..(height - 1)] ==
        IF l = height - 1 THEN root_node
        ELSE LET above == at[l + 1]
             IN  IF above = NULL THEN NULL ELSE node[above].slots[level_index(index, l + 1)]
  IN  IF height = 0 THEN root_node ELSE at[0]

radix_tree_lookup(index) ==
  LET p == IF index > max_index THEN NULL ELSE find_parent(index)
  IN  IF p = NULL THEN NULL ELSE node[p].slots[level_index(index, 0)]

(***************************************************************************)
(* radix_tree_insert.                                                      *)
(***************************************************************************)
Inserting(pc) == call.k = "insert" /\ call.pc = pc

\* The old root is always the first child of the new one.
add_level ==
  LET grown == [node EXCEPT ![NewId] = NewNode] IN
  /\ Inserting("levels") /\ call.index > max_index
  /\ CanCreate
  /\ live' = live \cup {NewId}
  /\ node' = IF root_node = NULL THEN grown
             ELSE add_child(grown, NewId, 0, root_node, TRUE)
  /\ root_node' = NewId
  /\ height' = height + 1
  /\ UNCHANGED call

EnterPath ==
  /\ Inserting("levels") /\ call.index <= max_index
  /\ call' = [call EXCEPT !.pc = "path", !.node = root_node, !.level = height - 1]
  /\ UNCHANGED <<height, root_node, live, node>>

\* One round of radix_tree_find_parent with alloc.
Descend ==
  LET s == level_index(call.index, call.level)
      child == node[call.node].slots[s]
  IN
  /\ Inserting("path") /\ call.level > 0
  /\ IF child # NULL
     THEN /\ call' = [call EXCEPT !.node = child, !.level = @ - 1]
          /\ UNCHANGED <<live, node>>
     ELSE /\ CanCreate
          /\ live' = live \cup {NewId}
          /\ node' = add_child([node EXCEPT ![NewId] = NewNode], call.node, s, NewId, TRUE)
          /\ call' = [call EXCEPT !.node = NewId, !.level = @ - 1]
  /\ UNCHANGED <<height, root_node>>

\* No memory for a node: what was added so far stays.
CreateFails ==
  /\ call.k = "insert"
  /\ Inserting("levels") => call.index > max_index
  /\ Inserting("path") =>
       call.level > 0 /\ node[call.node].slots[level_index(call.index, call.level)] = NULL
  /\ call' = [k |-> "ret", index |-> call.index, leaf |-> call.leaf, err |-> "ALLOC"]
  /\ UNCHANGED <<height, root_node, live, node>>

AddLeaf ==
  LET s == level_index(call.index, 0) IN
  /\ Inserting("path") /\ call.level = 0
  /\ IF node[call.node].slots[s] # NULL
     THEN /\ call' = [k |-> "ret", index |-> call.index, leaf |-> call.leaf, err |-> "NODE_EXIST"]
          /\ UNCHANGED node
     ELSE /\ call' = [k |-> "ret", index |-> call.index, leaf |-> call.leaf, err |-> "OK"]
          /\ node' = add_child(node, call.node, s, call.leaf, FALSE)
  /\ UNCHANGED <<height, root_node, live>>

(***************************************************************************)
(* radix_tree_remove, of an index that has a leaf: a precondition, which   *)
(* the callers in trap.c and fs.c establish.  For another index within the *)
(* reach of the tree the code returns NULL; beyond it, where               *)
(* radix_tree_remove has no test of max_index, it would take the leaf of   *)
(* an index that shares the low digits.                                    *)
(***************************************************************************)
RemoveCall(index) ==
  [k |-> "remove", index |-> index, node |-> find_parent(index), level |-> 0,
   leaf |-> radix_tree_lookup(index)]

(* Variant: a node is freed as soon as its first slot is empty. *)
RemoveLevelEarly ==
  LET n == call.node
      s == level_index(call.index, call.level)
      left == [node[n] EXCEPT !.count = @ - 1, !.slots[s] = NULL]
  IN
  /\ call.k = "remove" /\ call.level < height
  /\ node' = [node EXCEPT ![n] = IF left.slots[0] = NULL THEN NewNode ELSE left]
  /\ IF left.slots[0] = NULL
     THEN /\ live' = live \ {n}
          /\ call' = [call EXCEPT !.node = left.parent, !.level = @ + 1]
     ELSE /\ live' = live
          /\ call' = [k |-> "ret", index |-> call.index, leaf |-> call.leaf, err |-> "REMOVED"]
  /\ UNCHANGED <<height, root_node>>

\* One round of the loop: the slot is emptied, an empty node is freed (a free
\* node is shown as a new one: nothing reads it until it is created again).
RemoveLevel ==
  LET n == call.node
      s == level_index(call.index, call.level)
      left == [node[n] EXCEPT !.count = @ - 1, !.slots[s] = NULL]
  IN
  /\ call.k = "remove" /\ call.level < height
  /\ node' = [node EXCEPT ![n] = IF left.count = 0 THEN NewNode ELSE left]
  /\ IF left.count = 0
     THEN /\ live' = live \ {n}
          /\ call' = [call EXCEPT !.node = left.parent, !.level = @ + 1]
     ELSE /\ live' = live
          /\ call' = [k |-> "ret", index |-> call.index, leaf |-> call.leaf, err |-> "REMOVED"]
  /\ UNCHANGED <<height, root_node>>

RemoveRoot ==
  /\ call.k = "remove" /\ call.level = height
  /\ root_node' = NULL
  /\ height' = 0
  /\ call' = [k |-> "ret", index |-> call.index, leaf |-> call.leaf, err |-> "REMOVED"]
  /\ UNCHANGED <<live, node>>

radix_tree_construct ==
  /\ height = 0 /\ root_node = NULL
  /\ live = {}
  /\ node = [n \in Nodes |-> NewNode]
  /\ call = NoCall

RadixStep ==
  \/ add_level \/ EnterPath \/ Descend \/ CreateFails \/ AddLeaf
  \/ RemoveLevel \/ RemoveRoot

-----------------------------------------------------------------------------
\* The nodes of each level of the tree, the root's first.
LevelNodes ==
  LET at[l \in 0..(height - 1)] ==
        IF l = height - 1 THEN {root_node}
        ELSE UNION {{node[n].slots[s] : s \in Slots} \ {NULL} : n \in at[l + 1]}
  IN  at

Filled(n) == {s \in Slots : node[n].slots[s] # NULL}

(* add_child, add_level and remove: between calls, and while one is adding
   nodes, the live nodes are those of the tree, each knows its parent and
   counts its children, so that no node is lost and none is freed while it
   is in use. *)
TreeSound ==
  call.k # "remove" =>
    /\ live = IF height = 0 THEN {} ELSE UNION {LevelNodes[l] : l \in 0..(height - 1)}
    /\ \A n \in live : node[n].count = Cardinality(Filled(n))
    /\ \A l \in 1..(height - 1) : \A n \in LevelNodes[l] : \A s \in Filled(n) :
         node[node[n].slots[s]].parent = n

(* The assertions of radix_tree_remove: on its way up it meets live nodes with
   the slot it came from still set, and ends above the root. *)
RemoveSound ==
  call.k = "remove" =>
    IF call.level = height THEN call.node = NULL
    ELSE /\ call.node \in live
         /\ node[call.node].slots[level_index(call.index, call.level)] # NULL
         /\ node[call.node].count > 0
=============================================================================
