------------------------------ MODULE IndexMap ------------------------------
(* What a radix tree promises: a partial map from indexes to leaves.  A leaf *)
(* is put at an index that has none and stays there until it is removed.     *)
EXTENDS Naturals

CONSTANTS Indexes, Leaves, NULL

VARIABLE map

Insert(i) == /\ map[i] = NULL
             /\ \E x \in Leaves : map' = [map EXCEPT ![i] = x]

Remove(i) == /\ map[i] # NULL
             /\ map' = [map EXCEPT ![i] = NULL]

Init == map = [i \in Indexes |-> NULL]

Next == \E i \in Indexes : Insert(i) \/ Remove(i)

Spec == Init /\ [][Next]_map
=============================================================================
