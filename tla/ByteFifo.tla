------------------------------ MODULE ByteFifo ------------------------------
(***************************************************************************)
(* What Buffer promises TcpConnection and the user's callbacks: a queue of *)
(* bytes without a capacity.                                               *)
(***************************************************************************)
EXTENDS Naturals, Sequences

CONSTANT Byte

VARIABLES content,  \* the bytes put and not taken, oldest first
          io        \* the bytes the last put wrote or the last read returned

vars == <<content, io>>

Init == content = <<>> /\ io = <<>>

Put ==
  /\ io' \in Seq(Byte)
  /\ content' = content \o io'

Take(n) ==
  /\ io' = SubSeq(content, 1, n)
  /\ content' = SubSeq(content, n + 1, Len(content))

Drop(n) ==
  /\ content' = SubSeq(content, n + 1, Len(content))
  /\ UNCHANGED io

Next ==
  \/ Put
  \/ \E n \in 0..Len(content) : Take(n) \/ Drop(n)

Spec == Init /\ [][Next]_vars

=============================================================================
