---------------------------- MODULE FileContents ----------------------------
(* What the data path of a file system promises: each existing file is a     *)
(* sequence of words of its own, a write replaces or appends a run of words  *)
(* without leaving a gap and touches no other file, and a removed file has   *)
(* no words.  Where a write starts, which word it writes and how many it     *)
(* achieves are left open.                                                   *)
EXTENDS Naturals, Sequences

CONSTANTS Files, Vals

VARIABLE contents     \* contents[f]: the words of f, <<>> when it is empty

Replaced(s, ofs, n, x) ==
  [i \in 1..(IF ofs + n > Len(s) THEN ofs + n ELSE Len(s)) |->
     IF i > ofs /\ i <= ofs + n THEN x ELSE s[i]]

Put(old, new, f) ==
  \E ofs \in 0..Len(old[f]), n \in 1..Len(new[f]), x \in Vals :
     new[f] = Replaced(old[f], ofs, n, x)

Remove(new, f) == new[f] = <<>>

Init == contents = [f \in Files |-> <<>>]

Next ==
  LET old == contents
      new == contents'
  IN  \E f \in Files :
        /\ \A g \in Files \ {f} : new[g] = old[g]
        /\ Put(old, new, f) \/ Remove(new, f)

Spec == Init /\ [][Next]_contents
=============================================================================
