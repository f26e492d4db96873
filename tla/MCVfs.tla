------------------------------- MODULE MCVfs --------------------------------
(* Model-checking instances of Vfs. *)
EXTENDS Vfs, TLC

CONSTANTS a, b, long, t1, t2

Root == [abs |-> TRUE, names |-> <<>>]
A    == [abs |-> FALSE, names |-> <<a>>]
AB   == [abs |-> TRUE, names |-> <<a, b>>]
B    == [abs |-> FALSE, names |-> <<b>>]
L    == [abs |-> TRUE, names |-> <<long>>]

(* Of the long name b is kept. *)
CutLong == [n \in Names |-> IF n = long THEN b ELSE n]

One(op, p) == [op |-> op, path |-> p, path2 |-> NoPath]
Two(p, q)  == [op |-> "link", path |-> p, path2 |-> q]

(* One process works with files, the other with directories. *)
WalkCalls ==
  t1 :> {One("creat", A), One("creat", AB), One("creat", L), One("open", Root), One("unlink", AB),
         One("unlink", A), Two(A, A), Two(A, L), Two(AB, Root)}
  @@
  t2 :> {One("mkdir", A), One("mkdir", L), One("rmdir", A), One("rmdir", B), One("rmdir", Root),
         One("mkdir", Root), One("chdir", A), One("chdir", Root), One("unlink", AB),
         Two(A, AB)}

(* Names in one directory come and go while a link looks for one of them. *)
RaceCalls ==
  t1 :> {Two(A, AB)} @@ t2 :> {One("creat", A), One("creat", B), One("unlink", A)}

=============================================================================
