----------------------------- MODULE BufferProps ----------------------------
(***************************************************************************)
(* What must hold of Buffer.                                               *)
(***************************************************************************)
EXTENDS Buffer

(* The assertion in put (Buffer.h:129): whatever the history of the         *)
(* indices, checkSpace(len) leaves room for len bytes.                      *)
PutFits ==
  \A len \in 0..MaxLen :
    LET b == checkSpace(len) IN len <= b.size - b.put

(* An emptied buffer has all its room back.  readFD never makes room, so a  *)
(* buffer that drifted towards its end would stop reading.                  *)
EmptyIsReset ==
  getIndex = putIndex => getIndex = BUFFER_RESERVED_LEN

(* checkSpace moves the content when it can, so that a long-lived buffer    *)
(* only grows to less than twice what it then holds, however far getIndex_  *)
(* has moved.                                                               *)
GrowthIsBounded ==
  [][size' > size => size' - BUFFER_RESERVED_LEN < 2 * (putIndex' - getIndex')]_vars

(* Moves, resizes and index arithmetic keep every byte and their order: a   *)
(* Buffer is a FIFO of bytes.                                               *)
Fifo == INSTANCE ByteFifo WITH content <- Content

IsFifo == Fifo!Spec

=============================================================================
