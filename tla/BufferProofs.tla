---------------------------- MODULE BufferProofs ----------------------------
(***************************************************************************)
(* Proofs about Buffer, for any reserved length, initial length and bytes. *)
(***************************************************************************)
EXTENDS BufferProps, SequenceTheorems, TLAPS

IInv == TypeOK /\ EmptyIsReset

(* What checkSpace promises: a well-formed buffer with room for len bytes   *)
(* and the same content.                                                    *)
LEMMA CheckSpaceMakesRoom ==
  ASSUME TypeOK, NEW len \in Nat
  PROVE  LET b == checkSpace(len) IN
         /\ b.get \in Nat /\ b.put \in Nat /\ b.size \in Nat
         /\ BUFFER_RESERVED_LEN <= b.get
         /\ b.put - b.get = putIndex - getIndex
         /\ b.put + len <= b.size
         /\ b.bytes \in [0..b.size - 1 -> Byte]
         /\ \A i \in 0..readableBytes - 1 : b.bytes[b.get + i] = store[getIndex + i]
<1> USE BufferAssumption DEF TypeOK, readableBytes, writeableBytes
<1>1. CASE len <= writeableBytes
  BY <1>1 DEF checkSpace, Layout
<1>2. CASE /\ ~(len <= writeableBytes)
           /\ getIndex - BUFFER_RESERVED_LEN + writeableBytes >= len
  <2> DEFINE moved == [i \in 0..size - 1 |->
                IF i \in BUFFER_RESERVED_LEN..BUFFER_RESERVED_LEN + readableBytes - 1
                  THEN store[getIndex + i - BUFFER_RESERVED_LEN]
                  ELSE store[i]]
  <2>1. checkSpace(len) = Moved
    BY <1>2 DEF checkSpace
  <2>2. /\ Moved.get = BUFFER_RESERVED_LEN
        /\ Moved.put = BUFFER_RESERVED_LEN + readableBytes
        /\ Moved.size = size
        /\ Moved.bytes = moved
    BY DEF Moved
  <2>3. moved \in [0..size - 1 -> Byte]
    OBVIOUS
  <2>4. ASSUME NEW i \in 0..readableBytes - 1
        PROVE  moved[BUFFER_RESERVED_LEN + i] = store[getIndex + i]
    OBVIOUS
  <2>5. BUFFER_RESERVED_LEN + readableBytes + len <= size
    BY <1>2
  <2>6. QED
    BY <2>1, <2>2, <2>3, <2>4, <2>5
<1>3. CASE /\ ~(len <= writeableBytes)
           /\ ~(getIndex - BUFFER_RESERVED_LEN + writeableBytes >= len)
  <2> DEFINE grown == [i \in 0..len + putIndex - 1 |-> IF i < size THEN store[i] ELSE Zero]
  <2>1. checkSpace(len) = Resized(len)
    BY <1>3 DEF checkSpace
  <2>2. /\ Resized(len).get = getIndex
        /\ Resized(len).put = putIndex
        /\ Resized(len).size = len + putIndex
        /\ Resized(len).bytes = grown
    BY DEF Resized, Layout
  <2>3. grown \in [0..len + putIndex - 1 -> Byte]
    OBVIOUS
  <2>4. ASSUME NEW i \in 0..readableBytes - 1
        PROVE  grown[getIndex + i] = store[getIndex + i]
    BY <1>3
  <2>5. QED
    BY <2>1, <2>2, <2>3, <2>4
<1>4. QED
  BY <1>1, <1>2, <1>3

(* The bytes between the indices are a sequence of readableBytes bytes. *)
ContentOK ==
  /\ Content \in Seq(Byte)
  /\ Len(Content) = readableBytes
  /\ readableBytes \in Nat
  /\ \A i \in 1..readableBytes : Content[i] = store[getIndex + i - 1]

LEMMA ContentType == TypeOK => ContentOK
<1> SUFFICES ASSUME TypeOK PROVE ContentOK
  OBVIOUS
<1>1. readableBytes \in Nat
  BY BufferAssumption DEF TypeOK, readableBytes
<1>2. \A i \in 1..readableBytes : store[getIndex + i - 1] \in Byte
  BY BufferAssumption DEF TypeOK, readableBytes
<1>3. Content \in [1..readableBytes -> Byte]
  BY <1>2 DEF Content
<1>4. Content \in Seq(Byte) /\ Len(Content) = readableBytes
  BY <1>1, <1>3
<1>5. QED
  BY <1>1, <1>4 DEF Content, ContentOK

LEMMA DataType ==
  ASSUME NEW data \in Data
  PROVE  /\ data \in Seq(Byte)
         /\ Len(data) \in Nat
         /\ Len(data) <= MaxLen
         /\ \A i \in 1..Len(data) : data[i] \in Byte
<1>1. PICK n \in 0..MaxLen : data \in [1..n -> Byte]
  BY DEF Data
<1>2. n \in Nat /\ n <= MaxLen
  BY BufferAssumption
<1>3. data \in Seq(Byte) /\ Len(data) = n
  BY <1>1, <1>2
<1>4. QED
  BY <1>1, <1>2, <1>3

(* What a concatenation holds at each position. *)
LEMMA ConcatBytes ==
  ASSUME NEW s \in Seq(Byte), NEW t \in Seq(Byte), NEW n \in Nat, Len(s) = n
  PROVE  /\ s \o t \in Seq(Byte)
         /\ Len(s \o t) = n + Len(t)
         /\ \A i \in 1..n + Len(t) :
              (s \o t)[i] = IF i <= n THEN s[i] ELSE t[i - n]
  BY ConcatProperties

(* A sequence that holds s and then t is their concatenation. *)
LEMMA ConcatByPosition ==
  ASSUME NEW s \in Seq(Byte), NEW t \in Seq(Byte), NEW u \in Seq(Byte), NEW n \in Nat,
         Len(s) = n, Len(u) = n + Len(t),
         \A i \in 1..n : u[i] = s[i],
         \A i \in 1..Len(t) : u[n + i] = t[i]
  PROVE  u = s \o t
<1> DEFINE len == Len(t)
<1>1. /\ s \o t \in Seq(Byte)
      /\ Len(s \o t) = n + len
      /\ \A i \in 1..n + len :
           (s \o t)[i] = IF i <= n THEN s[i] ELSE t[i - n]
  BY ConcatBytes, Zenon
<1>2. len \in Nat
  BY LenProperties
<1> HIDE DEF len
<1>3. ASSUME NEW i \in 1..n + len PROVE u[i] = (s \o t)[i]
  <2>1. CASE i <= n
    <3>1. i \in 1..n
      BY <2>1
    <3>2. QED
      BY <1>1, <2>1, <3>1
  <2>2. CASE ~(i <= n)
    <3>1. i - n \in 1..len /\ n + (i - n) = i
      BY <1>2, <2>2
    <3>2. u[i] = t[i - n]
      BY <3>1 DEF len
    <3>3. QED
      BY <1>1, <2>2, <3>2
  <2>3. QED
    BY <2>1, <2>2
<1>4. QED
  BY <1>1, <1>3, SeqEqual DEF len

(* A step that keeps the content, now from position g, and writes data      *)
(* behind it, from position p.                                              *)
Appended(data, g, p, sz) ==
  /\ BUFFER_RESERVED_LEN <= g /\ p = g + readableBytes /\ p + Len(data) <= sz
  /\ getIndex' = g /\ putIndex' = p + Len(data) /\ size' = sz /\ io' = data
  /\ store' \in [0..sz - 1 -> Byte]
  /\ \A i \in 0..readableBytes - 1 : store'[g + i] = store[getIndex + i]
  /\ \A j \in p..p + Len(data) - 1 : store'[j] = data[j - p + 1]

LEMMA WriteAppends ==
  ASSUME TypeOK, NEW data \in Seq(Byte), NEW g \in Nat, NEW p \in Nat, NEW sz \in Nat,
         Appended(data, g, p, sz)
  PROVE  TypeOK' /\ Content' = Content \o data
<1> DEFINE len == Len(data)
           n == readableBytes
<1>1. len \in Nat /\ n \in Nat
  BY LenProperties, ContentType DEF ContentOK
<1>2. TypeOK'
  BY <1>1, BufferAssumption DEF Appended, TypeOK
<1>3. /\ Content \in Seq(Byte) /\ Len(Content) = n
      /\ \A i \in 1..n : Content[i] = store[getIndex + i - 1]
  BY ContentType DEF ContentOK
<1>4. readableBytes' = n + len
  BY <1>1 DEF Appended, readableBytes, TypeOK
<1>5. /\ Content' \in Seq(Byte) /\ Len(Content') = n + len
      /\ \A i \in 1..n + len : Content'[i] = store'[g + i - 1]
  <2>1. ContentOK'
    BY <1>2, ContentType, PTL
  <2>2. QED
    BY <1>4, <2>1 DEF ContentOK, Appended
<1> HIDE DEF len, n
<1>6. ASSUME NEW i \in 1..n PROVE Content'[i] = Content[i]
  <2>1. i - 1 \in 0..n - 1 /\ i \in 1..n + len
    BY <1>1
  <2>2. g + (i - 1) = g + i - 1 /\ getIndex + (i - 1) = getIndex + i - 1
    BY <1>1 DEF TypeOK
  <2>3. store'[g + (i - 1)] = store[getIndex + (i - 1)]
    BY <2>1 DEF Appended, n
  <2>4. QED
    BY <1>3, <1>5, <2>1, <2>2, <2>3
<1>7. ASSUME NEW i \in 1..len PROVE Content'[n + i] = data[i]
  <2>1. n + i \in 1..n + len
    BY <1>1
  <2>2. p = g + n
    BY DEF Appended, n
  <2>3. LET j == g + (n + i) - 1 IN j \in p..p + len - 1 /\ j - p + 1 = i
    BY <1>1, <2>2
  <2>4. store'[g + (n + i) - 1] = data[i]
    BY <2>3 DEF Appended, len
  <2>5. QED
    BY <1>5, <2>1, <2>4
<1>8. Content' = Content \o data
  BY <1>1, <1>3, <1>5, <1>6, <1>7, ConcatByPosition DEF len
<1>9. QED
  BY <1>2, <1>8

(* put appends its bytes, whether checkSpace moved, resized or did nothing. *)
LEMMA PutAppends ==
  ASSUME TypeOK, NEW data \in Data, put(data)
  PROVE  TypeOK' /\ Content' = Content \o data /\ io' = data /\ data \in Seq(Byte)
<1> DEFINE len == Len(data)
           b == checkSpace(len)
<1>1. len \in Nat /\ data \in Seq(Byte) /\ \A i \in 1..len : data[i] \in Byte
  BY DataType
<1>2. /\ b.get \in Nat /\ b.put \in Nat /\ b.size \in Nat
      /\ BUFFER_RESERVED_LEN <= b.get
      /\ b.put - b.get = putIndex - getIndex
      /\ b.put + len <= b.size
      /\ b.bytes \in [0..b.size - 1 -> Byte]
      /\ \A i \in 0..readableBytes - 1 : b.bytes[b.get + i] = store[getIndex + i]
  BY <1>1, CheckSpaceMakesRoom
<1>3. /\ getIndex' = b.get
      /\ putIndex' = b.put + len
      /\ size' = b.size
      /\ store' = [i \in 0..b.size - 1 |->
                     IF i \in b.put..b.put + len - 1
                       THEN data[i - b.put + 1] ELSE b.bytes[i]]
      /\ io' = data
  BY DEF put
<1> HIDE DEF b, len
<1>4. b.put = b.get + readableBytes /\ readableBytes \in Nat
  BY <1>2, ContentType DEF readableBytes, TypeOK, ContentOK
<1>5. store' \in [0..b.size - 1 -> Byte]
  <2>1. ASSUME NEW i \in 0..b.size - 1, i \in b.put..b.put + len - 1
        PROVE  data[i - b.put + 1] \in Byte
    <3>1. b.put \in Nat /\ b.size \in Nat /\ len \in Nat
      BY <1>1, <1>2
    <3>2. i - b.put + 1 \in 1..len
      BY <2>1, <3>1
    <3>3. QED
      BY <1>1, <3>2
  <2>2. QED
    BY <1>2, <1>3, <2>1
<1>6. ASSUME NEW i \in 0..readableBytes - 1
      PROVE  store'[b.get + i] = store[getIndex + i]
  <2>a. /\ len \in Nat /\ b.get \in Nat /\ b.put \in Nat /\ b.size \in Nat
        /\ b.put + len <= b.size
    BY <1>1, <1>2
  <2>1. b.get + i \in 0..b.size - 1 /\ b.get + i \notin b.put..b.put + len - 1
    BY <1>4, <2>a
  <2>2. store'[b.get + i] = b.bytes[b.get + i]
    BY <1>3, <2>1
  <2>3. QED
    BY <1>2, <2>2
<1>7. ASSUME NEW j \in b.put..b.put + len - 1
      PROVE  store'[j] = data[j - b.put + 1]
  <2>1. j \in 0..b.size - 1
    BY <1>1, <1>2
  <2>2. QED
    BY <1>3, <2>1
<1>8. Appended(data, b.get, b.put, b.size)
  BY <1>2, <1>3, <1>4, <1>5, <1>6, <1>7 DEF Appended, len
<1>9. QED
  BY <1>1, <1>2, <1>3, <1>8, WriteAppends

(* readFD appends as much of what the socket has as there is room for. *)
LEMMA ReadAppends ==
  ASSUME TypeOK, NEW avail \in Data, readFD(avail)
  PROVE  TypeOK' /\ Content' = Content \o io' /\ io' \in Seq(Byte)
<1> DEFINE n == IF Len(avail) <= writeableBytes THEN Len(avail) ELSE writeableBytes
           data == SubSeq(avail, 1, n)
<1>1. /\ avail \in Seq(Byte) /\ Len(avail) \in Nat
      /\ \A i \in 1..Len(avail) : avail[i] \in Byte
  BY DataType
<1>2. /\ n \in Nat /\ n <= Len(avail) /\ putIndex + n <= size
      /\ readableBytes \in Nat /\ putIndex = getIndex + readableBytes
  BY <1>1 DEF TypeOK, writeableBytes, readableBytes
<1>3. /\ putIndex' = putIndex + n
      /\ store' = [i \in 0..size - 1 |->
                     IF i \in putIndex..putIndex + n - 1
                       THEN avail[i - putIndex + 1] ELSE store[i]]
      /\ io' = data
      /\ getIndex' = getIndex /\ size' = size
  BY DEF readFD
<1> HIDE DEF n
<1>4. /\ data \in Seq(Byte) /\ Len(data) = n
      /\ \A i \in 1..n : data[i] = avail[i]
  <2>1. \A i \in 1..n : avail[i] \in Byte
    BY <1>1, <1>2
  <2>2. /\ Len(data) = IF 1 <= n THEN n - 1 + 1 ELSE 0
        /\ data \in Seq(Byte)
        /\ \A i \in 1..n - 1 + 1 : data[i] = avail[1 + i - 1]
    BY <1>2, <2>1, SubSeqProperties
  <2>3. n - 1 + 1 = n /\ \A i \in 1..n : 1 + i - 1 = i
    BY <1>2
  <2>4. QED
    BY <1>2, <2>2, <2>3
<1> HIDE DEF data
<1>5. store' \in [0..size - 1 -> Byte]
  <2>1. ASSUME NEW i \in putIndex..putIndex + n - 1
        PROVE  avail[i - putIndex + 1] \in Byte
    <3>1. i - putIndex + 1 \in 1..Len(avail)
      BY <1>1, <1>2 DEF TypeOK
    <3>2. QED
      BY <1>1, <3>1
  <2>2. QED
    BY <1>3, <2>1 DEF TypeOK
<1>6. ASSUME NEW i \in 0..readableBytes - 1
      PROVE  store'[getIndex + i] = store[getIndex + i]
  <2>1. getIndex + i \in 0..size - 1 /\ getIndex + i \notin putIndex..putIndex + n - 1
    BY <1>2 DEF TypeOK
  <2>2. QED
    BY <1>3, <2>1
<1>7. ASSUME NEW j \in putIndex..putIndex + n - 1
      PROVE  store'[j] = data[j - putIndex + 1]
  <2>1. j \in 0..size - 1 /\ j - putIndex + 1 \in 1..n
    BY <1>2 DEF TypeOK
  <2>2. QED
    BY <1>3, <1>4, <2>1
<1>8. BUFFER_RESERVED_LEN <= getIndex /\ getIndex \in Nat /\ putIndex \in Nat /\ size \in Nat
  BY DEF TypeOK
<1>9. Appended(data, getIndex, putIndex, size)
  BY <1>2, <1>3, <1>4, <1>5, <1>6, <1>7, <1>8 DEF Appended
<1>10. QED
  BY <1>3, <1>4, <1>8, <1>9, WriteAppends

(* Moving the read index forward drops the bytes it passes. *)
LEMMA MoveGetDrops ==
  ASSUME TypeOK, NEW newIndex \in getIndex..putIndex, MoveGet(newIndex),
         io' \in Seq(Byte)
  PROVE  /\ TypeOK'
         /\ EmptyIsReset'
         /\ Content' = SubSeq(Content, newIndex - getIndex + 1, Len(Content))
<1> DEFINE n == newIndex - getIndex
           rest == SubSeq(Content, n + 1, Len(Content))
<1>1. TypeOK' /\ EmptyIsReset'
  BY BufferAssumption DEF TypeOK, MoveGet, EmptyIsReset
<1>2. /\ Content \in Seq(Byte) /\ Len(Content) = readableBytes /\ readableBytes \in Nat
      /\ \A i \in 1..readableBytes : Content[i] = store[getIndex + i - 1]
  BY ContentType DEF ContentOK
<1>3. n \in 0..readableBytes
  BY DEF TypeOK, readableBytes
<1>4. readableBytes' = readableBytes - n
  BY BufferAssumption DEF TypeOK, readableBytes, MoveGet
<1>5. /\ Content' \in Seq(Byte) /\ Len(Content') = readableBytes'
      /\ \A i \in 1..readableBytes' : Content'[i] = store'[getIndex' + i - 1]
  <2>1. ContentOK'
    BY <1>1, ContentType, PTL
  <2>2. QED
    BY <2>1 DEF ContentOK
<1>6. /\ rest \in Seq(Byte)
      /\ Len(rest) = readableBytes - n
      /\ \A i \in 1..readableBytes - n : rest[i] = Content[n + i]
  <2> HIDE DEF n
  <2>1. \A i \in n + 1..readableBytes : Content[i] \in Byte
    BY <1>2, <1>3, ElementOfSeq
  <2>2. /\ rest \in Seq(Byte)
        /\ Len(rest) = IF n + 1 <= readableBytes THEN readableBytes - (n + 1) + 1 ELSE 0
        /\ \A i \in 1..readableBytes - (n + 1) + 1 : rest[i] = Content[n + 1 + i - 1]
    BY <1>2, <1>3, <2>1, SubSeqProperties
  <2>3. /\ readableBytes - (n + 1) + 1 = readableBytes - n
        /\ \A i \in 1..readableBytes - n : n + 1 + i - 1 = n + i
        /\ ~(n + 1 <= readableBytes) => readableBytes - n = 0
    BY <1>2, <1>3
  <2>4. QED
    BY <2>2, <2>3
<1>7. ASSUME NEW i \in 1..readableBytes - n
      PROVE  Content'[i] = rest[i]
  <2>1. newIndex # putIndex
    BY <1>2, <1>3 DEF TypeOK, readableBytes
  <2>2. getIndex' = newIndex /\ store' = store
    BY <2>1 DEF MoveGet
  <2>3. /\ n + i \in 1..readableBytes
        /\ getIndex + (n + i) - 1 = newIndex + i - 1
    BY <1>2, <1>3 DEF TypeOK
  <2>4. Content[n + i] = store[getIndex + (n + i) - 1]
    BY <1>2, <2>3
  <2>5. Content'[i] = store[newIndex + i - 1]
    BY <1>4, <1>5, <2>2
  <2>6. QED
    BY <1>6, <2>3, <2>4, <2>5
<1>8. Content' = rest
  BY <1>4, <1>5, <1>6, <1>7, SeqEqual
<1>9. QED
  BY <1>1, <1>8

LEMMA GetTakes ==
  ASSUME TypeOK, NEW len \in 0..readableBytes, get(len)
  PROVE  /\ TypeOK'
         /\ EmptyIsReset'
         /\ Content' = SubSeq(Content, len + 1, Len(Content))
         /\ io' = SubSeq(Content, 1, len)
<1>1. getIndex + len \in getIndex..putIndex /\ getIndex + len - getIndex = len
  BY DEF TypeOK, readableBytes
<1>2. MoveGet(getIndex + len) /\ io' = SubSeq(Content, 1, len)
  BY DEF get
<1>3. io' \in Seq(Byte)
  <2>1. /\ Content \in Seq(Byte) /\ Len(Content) = readableBytes
        /\ readableBytes \in Nat
    BY ContentType DEF ContentOK
  <2>2. \A i \in 1..len : Content[i] \in Byte
    BY <2>1, ElementOfSeq
  <2>3. QED
    BY <1>2, <2>1, <2>2, SubSeqProperties
<1> DEFINE newIndex == getIndex + len
<1> HIDE DEF newIndex
<1>4. /\ TypeOK' /\ EmptyIsReset'
      /\ Content' = SubSeq(Content, newIndex - getIndex + 1, Len(Content))
  BY <1>1, <1>2, <1>3, MoveGetDrops DEF newIndex
<1>5. newIndex - getIndex = len
  BY DEF newIndex, TypeOK, readableBytes
<1>6. QED
  BY <1>2, <1>4, <1>5

(* setGetIndex and setPutIndex are the same code. *)
LEMMA SetIndexDrops ==
  ASSUME TypeOK, NEW newIndex \in getIndex..putIndex,
         setGetIndex(newIndex) \/ setPutIndex(newIndex)
  PROVE  /\ TypeOK'
         /\ EmptyIsReset'
         /\ Content' = SubSeq(Content, newIndex - getIndex + 1, Len(Content))
         /\ io' = io
<1>1. MoveGet(newIndex) /\ io' = io
  BY DEF setGetIndex, setPutIndex
<1>2. io' \in Seq(Byte)
  BY <1>1 DEF TypeOK
<1>3. QED
  BY <1>1, <1>2, MoveGetDrops

-----------------------------------------------------------------------------
(* TypeOK is inductive once an emptied buffer is known to be at the start.  *)
THEOREM InductiveInvariant == Spec => []IInv
<1>1. Init => IInv
  <2> SUFFICES ASSUME Init PROVE IInv
    OBVIOUS
  <2>1. store \in [0..size - 1 -> Byte]
    BY BufferAssumption DEF Init
  <2>2. QED
    BY <2>1, BufferAssumption DEF Init, IInv, TypeOK, EmptyIsReset
<1>2. IInv /\ [Next]_vars => IInv'
  <2> SUFFICES ASSUME IInv, [Next]_vars PROVE IInv'
    OBVIOUS
  <2> USE DEF IInv
  <2>1. ASSUME NEW data \in Data, put(data) PROVE IInv'
    <3>1. TypeOK'
      BY <2>1, PutAppends
    <3>2. EmptyIsReset'
      <4>1. Len(data) \in Nat
        BY DataType
      <4>2. /\ checkSpace(Len(data)).get \in Nat
            /\ checkSpace(Len(data)).put \in Nat
            /\ checkSpace(Len(data)).put - checkSpace(Len(data)).get = putIndex - getIndex
        <5> DEFINE b == checkSpace(Len(data))
        <5>1. b.get \in Nat /\ b.put \in Nat /\ b.put - b.get = putIndex - getIndex
          BY <4>1, CheckSpaceMakesRoom
        <5>2. QED
          BY <5>1
      <4>3. getIndex = putIndex => checkSpace(Len(data)).get = BUFFER_RESERVED_LEN
        BY <4>1, BufferAssumption
           DEF checkSpace, Layout, Moved, Resized, EmptyIsReset, readableBytes, TypeOK
      <4>4. /\ getIndex' = checkSpace(Len(data)).get
            /\ putIndex' = checkSpace(Len(data)).put + Len(data)
        BY <2>1 DEF put
      <4>5. QED
        BY <4>1, <4>2, <4>3, <4>4 DEF EmptyIsReset, TypeOK
    <3>3. QED
      BY <3>1, <3>2
  <2>2. ASSUME NEW avail \in Data, readFD(avail) PROVE IInv'
    <3>1. TypeOK'
      BY <2>2, ReadAppends
    <3>2. EmptyIsReset'
      BY <2>2, <3>1, DataType, BufferAssumption DEF readFD, EmptyIsReset, TypeOK, writeableBytes
    <3>3. QED
      BY <3>1, <3>2
  <2>3. ASSUME NEW len \in 0..readableBytes, get(len) PROVE IInv'
    BY <2>3, GetTakes
  <2>4. ASSUME NEW newIndex \in getIndex..putIndex,
               setGetIndex(newIndex) \/ setPutIndex(newIndex)
        PROVE  IInv'
    BY <2>4, SetIndexDrops
  <2>5. CASE UNCHANGED vars
    BY <2>5 DEF vars, TypeOK, EmptyIsReset
  <2>6. QED
    BY <2>1, <2>2, <2>3, <2>4, <2>5 DEF Next
<1>3. QED
  BY <1>1, <1>2, PTL DEF Spec

(* The indices keep their order and stay inside the vector, from the        *)
(* reserved bytes to its end, so that no unsigned subtraction of the code   *)
(* wraps.                                                                   *)
THEOREM TypeCorrect == Spec => []TypeOK
<1>1. IInv => TypeOK
  BY DEF IInv
<1>2. QED
  BY <1>1, InductiveInvariant, PTL

(* An emptied buffer has all its room back. *)
THEOREM EmptiedBufferIsReset == Spec => []EmptyIsReset
<1>1. IInv => EmptyIsReset
  BY DEF IInv
<1>2. QED
  BY <1>1, InductiveInvariant, PTL

(* The assertion in put never fails. *)
THEOREM PutNeverOverflows == Spec => []PutFits
<1>1. IInv => PutFits
  <2> SUFFICES ASSUME TypeOK, NEW len \in 0..MaxLen
               PROVE  len <= checkSpace(len).size - checkSpace(len).put
    BY DEF IInv, PutFits
  <2>1. len \in Nat
    BY BufferAssumption
  <2>2. /\ checkSpace(len).put \in Nat /\ checkSpace(len).size \in Nat
        /\ checkSpace(len).put + len <= checkSpace(len).size
    <3> DEFINE b == checkSpace(len)
    <3>1. b.put \in Nat /\ b.size \in Nat /\ b.put + len <= b.size
      BY <2>1, CheckSpaceMakesRoom
    <3>2. QED
      BY <3>1
  <2>3. QED
    BY <2>1, <2>2
<1>2. QED
  BY <1>1, InductiveInvariant, PTL

(* A Buffer is a FIFO of bytes: put appends all its bytes, a read returns   *)
(* the oldest ones and nothing else moves, whatever checkSpace does.        *)
THEOREM BufferIsFifo == Spec => IsFifo
<1>1. Init => Fifo!Init
  <2> SUFFICES ASSUME Init PROVE Fifo!Init
    OBVIOUS
  <2>1. Content = <<>>
    BY BufferAssumption DEF Init, Content, readableBytes
  <2>2. QED
    BY <2>1 DEF Init, Fifo!Init
<1>2. IInv /\ [Next]_vars => [Fifo!Next]_(Fifo!vars)
  <2> SUFFICES ASSUME TypeOK, [Next]_vars PROVE [Fifo!Next]_(Fifo!vars)
    BY DEF IInv
  <2>0. Len(Content) = readableBytes
    BY ContentType DEF ContentOK
  <2>1. ASSUME NEW data \in Data, put(data) PROVE Fifo!Put
    BY <2>1, PutAppends DEF Fifo!Put
  <2>2. ASSUME NEW avail \in Data, readFD(avail) PROVE Fifo!Put
    BY <2>2, ReadAppends DEF Fifo!Put
  <2>3. ASSUME NEW len \in 0..readableBytes, get(len) PROVE Fifo!Take(len)
    BY <2>3, GetTakes DEF Fifo!Take
  <2>4. ASSUME NEW newIndex \in getIndex..putIndex,
               setGetIndex(newIndex) \/ setPutIndex(newIndex)
        PROVE  /\ newIndex - getIndex \in 0..readableBytes
               /\ Fifo!Drop(newIndex - getIndex)
    BY <2>4, SetIndexDrops DEF Fifo!Drop, TypeOK, readableBytes
  <2>5. CASE UNCHANGED vars
    BY <2>5 DEF vars, Fifo!vars, Content, readableBytes
  <2>6. QED
    BY <2>0, <2>1, <2>2, <2>3, <2>4, <2>5 DEF Next, Fifo!Next
<1>3. QED
  BY <1>1, <1>2, InductiveInvariant, PTL DEF Spec, IsFifo, Fifo!Spec

(* Only put enlarges the vector, and to less than twice what it then holds. *)
THEOREM BufferGrowsWithContent == Spec => GrowthIsBounded
<1> DEFINE Bounded == size' > size =>
             size' - BUFFER_RESERVED_LEN < 2 * (putIndex' - getIndex')
<1>1. IInv /\ [Next]_vars => [Bounded]_vars
  <2> SUFFICES ASSUME TypeOK, [Next]_vars PROVE Bounded
    BY DEF IInv
  <2>1. ASSUME NEW data \in Data, put(data) PROVE Bounded
    <3> DEFINE len == Len(data)
    <3>1. len \in Nat
      BY DataType
    <3>2. /\ size' = checkSpace(len).size
          /\ getIndex' = checkSpace(len).get
          /\ putIndex' = checkSpace(len).put + len
      BY <2>1 DEF put
    <3> HIDE DEF len
    <3>3. CASE checkSpace(len) = Layout \/ checkSpace(len) = Moved
      BY <3>2, <3>3 DEF Layout, Moved, TypeOK
    <3>4. CASE /\ checkSpace(len) = Resized(len)
               /\ ~(getIndex - BUFFER_RESERVED_LEN + writeableBytes >= len)
      <4>1. /\ size' = len + putIndex
            /\ getIndex' = getIndex
            /\ putIndex' = putIndex + len
        BY <3>2, <3>4 DEF Resized, Layout
      <4>2. getIndex - BUFFER_RESERVED_LEN < len
        BY <3>1, <3>4, BufferAssumption DEF TypeOK, writeableBytes
      <4>3. QED
        BY <3>1, <4>1, <4>2, BufferAssumption DEF TypeOK
    <3>5. QED
      BY <3>3, <3>4 DEF checkSpace
  <2>2. ASSUME NEW avail \in Data, readFD(avail) PROVE UNCHANGED size
    BY <2>2 DEF readFD
  <2>3. ASSUME NEW len \in 0..readableBytes, get(len) PROVE UNCHANGED size
    BY <2>3 DEF get, MoveGet
  <2>4. ASSUME NEW newIndex \in getIndex..putIndex,
               setGetIndex(newIndex) \/ setPutIndex(newIndex)
        PROVE  UNCHANGED size
    BY <2>4 DEF setGetIndex, setPutIndex, MoveGet
  <2>5. UNCHANGED size => Bounded
    BY DEF TypeOK
  <2>6. QED
    BY <2>1, <2>2, <2>3, <2>4, <2>5 DEF Next, vars
<1>2. QED
  BY <1>1, InductiveInvariant, PTL DEF Spec, GrowthIsBounded

=============================================================================
