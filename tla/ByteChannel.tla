----------------------------- MODULE ByteChannel -----------------------------
(***************************************************************************)
(* What a pipe promises: a bounded first-in first-out channel of bytes.  A *)
(* write puts a block of bytes in at one end in one piece, a read takes    *)
(* some bytes out at the other.                                            *)
(***************************************************************************)
EXTENDS Naturals, Sequences

CONSTANTS Bytes, Capacity

VARIABLE q   \* the bytes written and not yet read, the oldest first

Put ==
  \E n \in 1..Capacity : \E block \in [1..n -> Bytes] :
    q' = q \o block /\ Len(q') <= Capacity

Get == \E n \in 1..Len(q) : q' = SubSeq(q, n + 1, Len(q))

Init == q = <<>>
Next == Put \/ Get
Spec == Init /\ [][Next]_q
=============================================================================
