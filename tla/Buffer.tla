------------------------------- MODULE Buffer -------------------------------
(***************************************************************************)
(* Buffer (Buffer.h, Buffer.cpp): a vector of bytes with a read and a write *)
(* index.  Indices are the code's, from 0; store[i] is buffer_[i].  The     *)
(* code's indices are unsigned: that no subtraction here goes below zero is *)
(* part of TypeOK, and the reason why Nat does for size_t.                  *)
(***************************************************************************)
EXTENDS Naturals, Sequences

CONSTANTS
  Byte,                 \* the values of a byte
  Zero,                 \* the byte vector::resize fills with
  BUFFER_RESERVED_LEN,
  BUFFER_INIT_LEN,
  MaxLen,               \* bound: bytes in one put or one readv
  MaxSize               \* bound: buffer_.size()

ASSUME BufferAssumption ==
  /\ Zero \in Byte
  /\ BUFFER_RESERVED_LEN \in Nat
  /\ BUFFER_INIT_LEN \in Nat
  /\ MaxLen \in Nat
  /\ MaxSize \in Nat

VARIABLES
  getIndex,   \* getIndex_
  putIndex,   \* putIndex_
  size,       \* buffer_.size()
  store,      \* buffer_
  io          \* the bytes the last call wrote or returned

vars == <<getIndex, putIndex, size, store, io>>

readableBytes == putIndex - getIndex
writeableBytes == size - putIndex

(* The bytes between the two indices, as a sequence. *)
Content == [i \in 1..readableBytes |-> store[getIndex + i - 1]]

TypeOK ==
  /\ getIndex \in Nat /\ putIndex \in Nat /\ size \in Nat
  /\ BUFFER_RESERVED_LEN <= getIndex
  /\ getIndex <= putIndex
  /\ putIndex <= size
  /\ store \in [0..size - 1 -> Byte]
  /\ io \in Seq(Byte)

Init ==
  /\ getIndex = BUFFER_RESERVED_LEN
  /\ putIndex = BUFFER_RESERVED_LEN
  /\ size = BUFFER_INIT_LEN + BUFFER_RESERVED_LEN
  /\ store = [i \in 0..size - 1 |-> Zero]
  /\ io = <<>>

-----------------------------------------------------------------------------
(* checkSpace(len): the indices, size and bytes it leaves.  A buffer that   *)
(* has the room is left alone; one whose free bytes before getIndex_ make   *)
(* up the room has its content moved down; another is resized.              *)

Layout == [get |-> getIndex, put |-> putIndex, size |-> size, bytes |-> store]

(* Mutant: the last byte of the content is not moved. *)
MovedShort ==
  [get   |-> BUFFER_RESERVED_LEN,
   put   |-> BUFFER_RESERVED_LEN + readableBytes,
   size  |-> size,
   bytes |-> [i \in 0..size - 1 |->
                IF i \in BUFFER_RESERVED_LEN..BUFFER_RESERVED_LEN + readableBytes - 2
                  THEN store[getIndex + i - BUFFER_RESERVED_LEN]
                  ELSE store[i]]]

Moved ==
  [get   |-> BUFFER_RESERVED_LEN,
   put   |-> BUFFER_RESERVED_LEN + readableBytes,
   size  |-> size,
   bytes |-> [i \in 0..size - 1 |->
                IF i \in BUFFER_RESERVED_LEN..BUFFER_RESERVED_LEN + readableBytes - 1
                  THEN store[getIndex + i - BUFFER_RESERVED_LEN]
                  ELSE store[i]]]

Resized(len) ==
  [Layout EXCEPT
     !.size  = len + putIndex,
     !.bytes = [i \in 0..len + putIndex - 1 |-> IF i < size THEN store[i] ELSE Zero]]

(* Mutant: the reserved bytes are counted as free. *)
checkSpaceReserved(len) ==
  IF len <= writeableBytes THEN Layout
  ELSE IF getIndex + writeableBytes >= len THEN Moved
  ELSE Resized(len)

(* Mutant: the content is never moved. *)
checkSpaceResize(len) ==
  IF len <= writeableBytes THEN Layout ELSE Resized(len)

checkSpace(len) ==
  IF len <= writeableBytes THEN Layout
  ELSE IF getIndex - BUFFER_RESERVED_LEN + writeableBytes >= len THEN Moved
  ELSE Resized(len)

(* put, and putString and putInt* that call it: the assertion that          *)
(* checkSpace made the room is PutFits of BufferProps.                      *)
put(data) ==
  LET b == checkSpace(Len(data)) IN
  /\ b.size <= MaxSize
  /\ getIndex' = b.get
  /\ putIndex' = b.put + Len(data)
  /\ size' = b.size
  /\ store' = [i \in 0..b.size - 1 |->
                 IF i \in b.put..b.put + Len(data) - 1
                   THEN data[i - b.put + 1]
                   ELSE b.bytes[i]]
  /\ io' = data

(* readFD with avail in the socket's receive queue: one readv into the      *)
(* bytes after putIndex_, with no checkSpace; what does not fit stays.  An  *)
(* error or the end of the stream changes nothing.                          *)
readFD(avail) ==
  LET n == IF Len(avail) <= writeableBytes THEN Len(avail) ELSE writeableBytes IN
  /\ putIndex' = putIndex + n
  /\ store' = [i \in 0..size - 1 |->
                 IF i \in putIndex..putIndex + n - 1
                   THEN avail[i - putIndex + 1]
                   ELSE store[i]]
  /\ io' = SubSeq(avail, 1, n)
  /\ UNCHANGED <<getIndex, size>>

(* Mutant: the indices of an emptied buffer stay where they are. *)
MoveGetNoReset(newIndex) ==
  /\ getIndex' = newIndex
  /\ UNCHANGED <<putIndex, size, store>>

(* Every reader ends this way: the read index moves, and both indices go    *)
(* back to the start when the buffer is empty.                              *)
MoveGet(newIndex) ==
  /\ IF newIndex = putIndex
       THEN getIndex' = BUFFER_RESERVED_LEN /\ putIndex' = BUFFER_RESERVED_LEN
       ELSE getIndex' = newIndex /\ UNCHANGED putIndex
  /\ UNCHANGED <<size, store>>

(* get, getAsInt*, getAsString and getAllAsString; the assertion they start *)
(* with is the caller's duty.                                               *)
get(len) ==
  /\ len <= readableBytes
  /\ io' = SubSeq(Content, 1, len)
  /\ MoveGet(getIndex + len)

(* setGetIndex, as handleWrite (index + bytes sent) and setGetIndexOffset   *)
(* of a parsed request call it: not below the current index.  A new index   *)
(* past the content is refused.                                             *)
setGetIndex(newIndex) ==
  /\ getIndex <= newIndex
  /\ newIndex <= putIndex
  /\ MoveGet(newIndex)
  /\ UNCHANGED io

(* setPutIndex, called by nobody, is the same code: it moves getIndex_. *)
setPutIndex(newIndex) ==
  /\ getIndex <= newIndex
  /\ newIndex <= putIndex
  /\ MoveGet(newIndex)
  /\ UNCHANGED io

Data == UNION {[1..n -> Byte] : n \in 0..MaxLen}

Next ==
  \/ \E data \in Data : put(data)
  \/ \E avail \in Data : readFD(avail)
  \/ \E len \in 0..readableBytes : get(len)
  \/ \E newIndex \in getIndex..putIndex : setGetIndex(newIndex)
  \/ \E newIndex \in getIndex..putIndex : setPutIndex(newIndex)

Spec == Init /\ [][Next]_vars

=============================================================================
