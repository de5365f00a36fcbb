---------------------------- MODULE ExamplesProofs ---------------------------
(***************************************************************************)
(* Theorems about Examples: the streams, for any lengths of the puzzles,   *)
(* requests and messages, any room and window and any number of messages.  *)
(***************************************************************************)
EXTENDS ExamplesProps, SequenceTheorems, FiniteSetTheorems, TLAPS

-----------------------------------------------------------------------------
(* Induction over the natural numbers: if m were the first that S misses,   *)
(* n |-> n + 1 would map the members of S below m one to one to fewer.      *)
LEMMA Induction ==
  ASSUME NEW S \in SUBSET Nat, 0 \in S, \A n \in S : n + 1 \in S
  PROVE  S = Nat
<1>1. SUFFICES ASSUME NEW m \in Nat, m \notin S PROVE FALSE
  OBVIOUS
<1> DEFINE D == {n \in 0..m : n \in S}
           f == [n \in D |-> n + 1]
<1>2. IsFiniteSet(0..m)
  BY FS_Interval
<1>3. IsFiniteSet(D)
  BY <1>2, FS_Subset
<1>4. 0 \in D
  BY <1>1
<1>5. IsFiniteSet(D \ {0}) /\ Cardinality(D \ {0}) = Cardinality(D) - 1
  BY <1>3, <1>4, FS_RemoveElement
<1>6. Cardinality(D) \in Nat
  BY <1>3, FS_CardinalityType
<1>7. \A n \in D : n + 1 \in D \ {0}
  <2> TAKE n \in D
  <2>1. n + 1 \in S
    OBVIOUS
  <2>2. n + 1 # m + 1 /\ n # m
    BY <1>1
  <2> QED
    BY <2>1, <2>2
<1>8. f \in [D -> D \ {0}]
  BY <1>7
<1> HIDE DEF D
<1>9. \E x, y \in D : x # y /\ f[x] = f[y]
  <2>1. Cardinality(D \ {0}) < Cardinality(D)
    BY <1>5, <1>6
  <2> HIDE DEF f
  <2> QED
    BY <1>3, <1>5, <1>8, <2>1, FS_PigeonHole
<1>10. PICK x, y \in D : x # y /\ x + 1 = y + 1
  BY <1>9
<1>11. x \in Nat /\ y \in Nat
  BY DEF D
<1> QED
  BY <1>10, <1>11

(* The function of which FlattenSeq takes the last value. *)
Joins(f, seqs) == f = [i \in 1..Len(seqs) |-> IF i = 1 THEN seqs[i] ELSE f[i-1] \o seqs[i]]

LEMMA FlattenIsLast ==
  ASSUME NEW seqs, Len(seqs) # 0
  PROVE  FlattenSeq(seqs) = (CHOOSE f : Joins(f, seqs))[Len(seqs)]
BY DEF FlattenSeq, Joins

LEMMA FlattenEmpty == FlattenSeq(<<>>) = <<>>
BY DEF FlattenSeq

LEMMA JoinsStep ==
  ASSUME NEW seqs, NEW f, Joins(f, seqs), NEW i \in 1..Len(seqs)
  PROVE  f[i] = IF i = 1 THEN seqs[i] ELSE f[i-1] \o seqs[i]
<1> DEFINE h == [k \in 1..Len(seqs) |-> IF k = 1 THEN seqs[k] ELSE f[k-1] \o seqs[k]]
<1>1. h[i] = IF i = 1 THEN seqs[i] ELSE f[i-1] \o seqs[i]
  OBVIOUS
<1>2. f = h
  BY DEF Joins
<1> HIDE DEF h
<1> QED
  BY <1>1, <1>2

(* There is such a function. *)
LEMMA JoinsExists ==
  ASSUME NEW T, NEW seqs \in Seq(T)
  PROVE  \E f : Joins(f, seqs)
<1> DEFINE H(f, n) == f = [i \in 1..n |-> IF i = 1 THEN seqs[i] ELSE f[i-1] \o seqs[i]]
           P == {n \in Nat : n <= Len(seqs) => \E f : H(f, n)}
<1>1. 0 \in P
  <2>1. H([i \in {} |-> 0], 0)
    OBVIOUS
  <2> HIDE DEF H
  <2> QED
    BY <2>1
<1>2. ASSUME NEW n \in P PROVE n + 1 \in P
  <2> HIDE DEF H
  <2>1. SUFFICES ASSUME n + 1 <= Len(seqs) PROVE \E f : H(f, n+1)
    OBVIOUS
  <2>2. PICK f : H(f, n)
    <3>1. n <= Len(seqs)
      BY <2>1
    <3> QED
      BY <3>1
  <2> USE DEF H
  <2> DEFINE fi(i) == IF i = 1 THEN seqs[i] ELSE f[i-1] \o seqs[i]
             g == [i \in 1..(n+1) |-> fi(i)]
             fn == [i \in 1..n |-> fi(i)]
  <2>3. \A i \in 1..n : g[i] = f[i]
    <3>1. f = fn
      BY <2>2
    <3>2. \A i \in 1..n : fn[i] = fi(i) /\ g[i] = fi(i)
      OBVIOUS
    <3> HIDE DEF fn, fi, g
    <3> QED
      BY <3>1, <3>2
  <2> HIDE DEF g
  <2>4. \A i \in 1..(n+1) : fi(i) = IF i = 1 THEN seqs[i] ELSE g[i-1] \o seqs[i]
    BY <2>3
  <2>5. g = [i \in 1..(n+1) |-> IF i = 1 THEN seqs[i] ELSE g[i-1] \o seqs[i]]
    <3>1. g = [i \in 1..(n+1) |-> fi(i)]
      BY DEF g
    <3> HIDE DEF fi
    <3> QED
      BY ONLY <2>4, <3>1
  <2> QED
    BY <2>5
<1>3. P = Nat
  <2> HIDE DEF P
  <2>1. P \in SUBSET Nat
    BY DEF P
  <2> QED
    BY <1>1, <1>2, <2>1, Induction
<1>4. \E f : H(f, Len(seqs))
  <2> HIDE DEF H
  <2>1. Len(seqs) \in P
    <3> HIDE DEF P
    <3> QED
      BY <1>3
  <2> QED
    BY <2>1
<1> QED
  BY <1>4 DEF Joins

(* An element more leaves the others' values as they are. *)
LEMMA JoinsAppend ==
  ASSUME NEW T, NEW seqs \in Seq(T), NEW s \in T,
         NEW f, Joins(f, seqs), NEW g, Joins(g, Append(seqs, s))
  PROVE  \A i \in 1..Len(seqs) : f[i] = g[i]
<1> DEFINE t == Append(seqs, s)
           P == {n \in Nat : n \in 1..Len(seqs) => f[n] = g[n]}
<1>1. 1..Len(seqs) \subseteq 1..Len(t) /\ \A i \in 1..Len(seqs) : t[i] = seqs[i]
  BY AppendProperties
<1>2. Joins(g, t)
  OBVIOUS
<1> HIDE DEF t
<1>3. 0 \in P
  OBVIOUS
<1>4. ASSUME NEW n \in P PROVE n + 1 \in P
  <2>1. SUFFICES ASSUME n + 1 \in 1..Len(seqs) PROVE f[n+1] = g[n+1]
    OBVIOUS
  <2>2. f[n+1] = IF n + 1 = 1 THEN seqs[n+1] ELSE f[n+1-1] \o seqs[n+1]
    BY <2>1, JoinsStep
  <2>3. g[n+1] = IF n + 1 = 1 THEN t[n+1] ELSE g[n+1-1] \o t[n+1]
    BY <1>1, <1>2, <2>1, JoinsStep
  <2>4. n + 1 # 1 => f[n] = g[n]
    BY <2>1
  <2>5. n + 1 - 1 = n
    OBVIOUS
  <2> QED
    BY <1>1, <2>1, <2>2, <2>3, <2>4, <2>5
<1> HIDE DEF P
<1>5. P = Nat
  <2>1. P \in SUBSET Nat
    BY DEF P
  <2> QED
    BY <1>3, <1>4, <2>1, Induction
<1> QED
  BY <1>5 DEF P

LEMMA JoinsChosen ==
  ASSUME NEW T, NEW seqs \in Seq(T), Len(seqs) # 0
  PROVE  \E f : Joins(f, seqs) /\ FlattenSeq(seqs) = f[Len(seqs)]
<1> DEFINE f == CHOOSE f : Joins(f, seqs)
<1>1. Joins(f, seqs)
  BY JoinsExists
<1> QED
  BY <1>1, FlattenIsLast

LEMMA FlattenType ==
  ASSUME NEW T, NEW seqs \in Seq(Seq(T))
  PROVE  FlattenSeq(seqs) \in Seq(T)
<1>1. CASE Len(seqs) = 0
  <2>1. seqs = <<>>
    BY <1>1
  <2>2. <<>> \in Seq(T)
    OBVIOUS
  <2>3. FlattenSeq(seqs) = <<>>
    BY <2>1, FlattenEmpty, Zenon
  <2> QED
    BY <2>2, <2>3, Zenon
<1>2. CASE Len(seqs) # 0
  <2>1. PICK f : Joins(f, seqs) /\ FlattenSeq(seqs) = f[Len(seqs)]
    BY <1>2, JoinsChosen
  <2> DEFINE P == {n \in Nat : n \in 1..Len(seqs) => f[n] \in Seq(T)}
  <2>2. 0 \in P
    OBVIOUS
  <2>3. ASSUME NEW n \in P PROVE n + 1 \in P
    <3>1. SUFFICES ASSUME n + 1 \in 1..Len(seqs) PROVE f[n+1] \in Seq(T)
      OBVIOUS
    <3>2. f[n+1] = IF n + 1 = 1 THEN seqs[n+1] ELSE f[n+1-1] \o seqs[n+1]
      BY <2>1, <3>1, JoinsStep
    <3>3. n + 1 # 1 => f[n] \in Seq(T)
      BY <3>1
    <3>4. seqs[n+1] \in Seq(T)
      BY <3>1
    <3>5. n + 1 - 1 = n
      OBVIOUS
    <3> QED
      BY <3>2, <3>3, <3>4, <3>5, ConcatProperties
  <2> HIDE DEF P
  <2>4. P = Nat
    <3>1. P \in SUBSET Nat
      BY DEF P
    <3> QED
      BY <2>2, <2>3, <3>1, Induction
  <2>5. Len(seqs) \in Nat /\ Len(seqs) \in 1..Len(seqs)
    BY <1>2
  <2> QED
    BY <2>1, <2>4, <2>5 DEF P
<1> QED
  BY <1>1, <1>2

LEMMA FlattenAppend ==
  ASSUME NEW T, NEW seqs \in Seq(Seq(T)), NEW s \in Seq(T)
  PROVE  FlattenSeq(Append(seqs, s)) = FlattenSeq(seqs) \o s
<1> DEFINE t == Append(seqs, s)
<1>1. /\ t \in Seq(Seq(T)) /\ Len(t) = Len(seqs) + 1 /\ Len(t) # 0
      /\ \A i \in 1..Len(seqs) : t[i] = seqs[i]
      /\ t[Len(t)] = s
  BY AppendProperties
<1> HIDE DEF t
<1>2. PICK g : Joins(g, t) /\ FlattenSeq(t) = g[Len(t)]
  BY <1>1, JoinsChosen
<1>3. g[Len(t)] = IF Len(t) = 1 THEN s ELSE g[Len(seqs)] \o s
  <2>1. Len(t) \in 1..Len(t) /\ Len(t) - 1 = Len(seqs)
    BY <1>1
  <2> QED
    BY <1>1, <1>2, <2>1, JoinsStep
<1>4. CASE Len(seqs) = 0
  <2>1. seqs = <<>>
    BY <1>4
  <2> QED
    BY <1>1, <1>2, <1>3, <1>4, <2>1, FlattenEmpty, ConcatEmptySeq DEF t
<1>5. CASE Len(seqs) # 0
  <2>1. PICK f : Joins(f, seqs) /\ FlattenSeq(seqs) = f[Len(seqs)]
    BY <1>5, JoinsChosen
  <2>2. f[Len(seqs)] = g[Len(seqs)]
    <3>1. \A i \in 1..Len(seqs) : f[i] = g[i]
      BY <1>2, <2>1, JoinsAppend DEF t
    <3>2. Len(seqs) \in 1..Len(seqs)
      BY <1>5
    <3> QED
      BY <3>1, <3>2
  <2> QED
    BY <1>1, <1>2, <1>3, <1>5, <2>1, <2>2 DEF t
<1> QED
  BY <1>4, <1>5

-----------------------------------------------------------------------------
(* The messages. *)

Byte == Nat \X Nat

EndOfLine == <<CR, LF>>

LEMMA EndOfLineType == /\ EndOfLine \in Seq(Byte) /\ Len(EndOfLine) = 2
                       /\ EndOfLine[1] = CR /\ EndOfLine[2] = LF
  BY DEF EndOfLine, CR, LF, Byte

LEMMA BytesType ==
  ASSUME NEW s \in Seq(Byte), NEW t \in Seq(Byte)
  PROVE  s \o t \in Seq(Byte) /\ Len(s \o t) = Len(s) + Len(t)
  BY ConcatProperties

LEMMA BytesAssociative ==
  ASSUME NEW s \in Seq(Byte), NEW t \in Seq(Byte), NEW u \in Seq(Byte)
  PROVE  (s \o t) \o u = s \o (t \o u)
  BY ConcatAssociative

Own(i) == [j \in 1..script[i] |-> <<i, j>>]

LEMMA OwnType ==
  ASSUME script \in Seq(Nat), NEW i \in 1..Len(script)
  PROVE  /\ Own(i) \in Seq(Byte) /\ Len(Own(i)) = script[i] /\ script[i] \in Nat
         /\ \A j \in 1..script[i] : Own(i)[j] = <<i, j>>
<1>1. i \in Nat /\ script[i] \in Nat
  BY LenProperties
<1>2. Own(i) \in [1..script[i] -> Byte]
  BY <1>1 DEF Own, Byte
<1>3. Own(i) \in Seq(Byte) /\ Len(Own(i)) = script[i]
  <2> DEFINE n == script[i]
             o == Own(i)
  <2>1. n \in Nat /\ o \in [1..n -> Byte]
    BY <1>1, <1>2
  <2> HIDE DEF n, o
  <2>2. o \in Seq(Byte) /\ Len(o) = n
    BY <2>1
  <2>3. QED
    BY <2>2 DEF n, o
<1>4. \A j \in 1..script[i] : Own(i)[j] = <<i, j>>
  BY DEF Own
<1>5. QED
  BY <1>1, <1>3, <1>4

LEMMA MessageIs ==
  ASSUME script \in Seq(Nat), NEW i \in 1..Len(script)
  PROVE  /\ Message(i) \in Seq(Byte)
         /\ Message(i) = IF program = "sudoku" THEN Own(i) \o EndOfLine ELSE Own(i)
<1>1. Own(i) \in Seq(Byte)
  BY OwnType
<1>2. Message(i) = Own(i) \o IF program = "sudoku" THEN EndOfLine ELSE <<>>
  BY DEF Message, Own, EndOfLine
<1>3. Own(i) \o <<>> = Own(i)
  BY <1>1, ConcatEmptySeq
<1>4. Own(i) \o EndOfLine \in Seq(Byte)
  BY <1>1, EndOfLineType, ConcatProperties
<1>5. QED
  BY <1>1, <1>2, <1>3, <1>4

LEMMA MessagesNext ==
  ASSUME script \in Seq(Nat), NEW n \in Nat, n <= Len(script)
  PROVE  /\ Messages(n) \in Seq(Byte)
         /\ Messages(0) = <<>>
         /\ n < Len(script) => Messages(n + 1) = Messages(n) \o Message(n + 1)
<1> DEFINE upto(k) == [i \in 1..k |-> Message(i)]
<1>1. Len(script) \in Nat
  BY LenProperties
<1>2. ASSUME NEW k \in Nat, k <= Len(script)
      PROVE  upto(k) \in Seq(Seq(Byte)) /\ Len(upto(k)) = k
  <2>1. \A i \in 1..k : Message(i) \in Seq(Byte)
    BY <1>1, <1>2, MessageIs
  <2>2. QED
    BY <2>1
<1>3. Messages(n) \in Seq(Byte)
  BY <1>2, FlattenType DEF Messages
<1>4. Messages(0) = <<>>
  <2>1. upto(0) = <<>>
    OBVIOUS
  <2>2. QED
    BY <2>1, FlattenEmpty DEF Messages
<1>5. ASSUME n < Len(script)
      PROVE  Messages(n + 1) = Messages(n) \o Message(n + 1)
  <2>1. upto(n) \in Seq(Seq(Byte)) /\ Len(upto(n)) = n
    BY <1>2
  <2>2. Message(n + 1) \in Seq(Byte)
    BY <1>1, <1>5, MessageIs
  <2>3. upto(n + 1) \in Seq(Seq(Byte)) /\ Len(upto(n + 1)) = n + 1
    BY <1>1, <1>2, <1>5
  <2>4. upto(n + 1) = Append(upto(n), Message(n + 1))
    <3> DEFINE r == Append(upto(n), Message(n + 1))
    <3>1. /\ r \in Seq(Seq(Byte)) /\ Len(r) = n + 1
          /\ \A i \in 1..n : r[i] = upto(n)[i]
          /\ r[n + 1] = Message(n + 1)
      BY <2>1, <2>2, AppendProperties
    <3>2. \A i \in 1..n + 1 : upto(n + 1)[i] = Message(i)
      OBVIOUS
    <3>3. \A i \in 1..n : upto(n)[i] = Message(i)
      OBVIOUS
    <3>4. \A i \in 1..n + 1 : upto(n + 1)[i] = r[i]
      <4> HIDE DEF upto, r
      <4> TAKE i \in 1..n + 1
      <4>1. CASE i \in 1..n
        BY <3>1, <3>2, <3>3, <4>1
      <4>2. CASE i = n + 1
        BY <3>1, <3>2, <4>2
      <4>3. QED
        BY <4>1, <4>2
    <3> HIDE DEF upto, r
    <3>5. QED
      BY <2>3, <3>1, <3>4, SeqEqual DEF r
  <2>5. FlattenSeq(Append(upto(n), Message(n + 1))) = FlattenSeq(upto(n)) \o Message(n + 1)
    BY <2>1, <2>2, FlattenAppend
  <2>6. QED
    BY <2>4, <2>5 DEF Messages
<1>6. QED
  BY <1>3, <1>4, <1>5

(* Of what was sent, the messages from one on begin with this one.          *)
LEMMA MessagesBegin ==
  ASSUME script \in Seq(Nat), NEW a \in Nat, NEW n \in Nat, a < n, n <= Len(script)
  PROVE  \E rest \in Seq(Byte) :
           Messages(n) = Messages(a) \o (Message(a + 1) \o rest)
<1> DEFINE first == Messages(a) \o Message(a + 1)
           From(k) == \E rest \in Seq(Byte) : Messages(k) = first \o rest
           P == {d \in Nat : a + 1 + d <= Len(script) => From(a + 1 + d)}
<1>1. Len(script) \in Nat /\ a <= Len(script) /\ a < Len(script) /\ a + 1 \in 1..Len(script)
  BY LenProperties
<1>2. Messages(a) \in Seq(Byte) /\ Message(a + 1) \in Seq(Byte) /\ first \in Seq(Byte)
  <2>1. Messages(a) \in Seq(Byte)
    BY <1>1, MessagesNext
  <2>2. Message(a + 1) \in Seq(Byte)
    BY <1>1, MessageIs
  <2>3. QED
    BY <2>1, <2>2, BytesType
<1>3. Messages(a + 1) = first
  BY <1>1, MessagesNext
<1> HIDE DEF first
<1>4. From(a + 1)
  <2>1. Messages(a + 1) = first \o <<>>
    BY <1>2, <1>3, ConcatEmptySeq
  <2>2. <<>> \in Seq(Byte)
    BY EmptySeq
  <2>3. QED
    BY <2>1, <2>2
<1>5. ASSUME NEW k \in Nat, k < Len(script), From(k) PROVE From(k + 1)
  <2>1. PICK rest \in Seq(Byte) : Messages(k) = first \o rest
    BY <1>5
  <2>2. Message(k + 1) \in Seq(Byte)
    BY <1>1, <1>5, MessageIs
  <2>3. Messages(k + 1) = Messages(k) \o Message(k + 1)
    <3>1. k <= Len(script) /\ k < Len(script)
      BY <1>1, <1>5
    <3>2. QED
      BY <3>1, MessagesNext
  <2>4. (first \o rest) \o Message(k + 1) = first \o (rest \o Message(k + 1))
    BY <1>2, <2>2, BytesAssociative
  <2>5. rest \o Message(k + 1) \in Seq(Byte)
    BY <2>2, BytesType
  <2>6. Messages(k + 1) = first \o (rest \o Message(k + 1))
    BY <2>1, <2>3, <2>4
  <2>7. QED
    BY <2>5, <2>6
<1> HIDE DEF From
<1>6. 0 \in P
  BY <1>4
<1>7. ASSUME NEW d \in P PROVE d + 1 \in P
  <2>1. SUFFICES ASSUME a + 1 + (d + 1) <= Len(script) PROVE From(a + 1 + (d + 1))
    OBVIOUS
  <2>2. a + 1 + d \in Nat /\ a + 1 + d < Len(script) /\ a + 1 + (d + 1) = (a + 1 + d) + 1
    BY <1>1, <2>1
  <2>3. From(a + 1 + d)
    BY <2>2
  <2>4. QED
    BY <1>5, <2>2, <2>3
<1>8. P = Nat
  <2>1. P \in SUBSET Nat
    OBVIOUS
  <2> HIDE DEF P
  <2>2. QED
    BY <1>6, <1>7, <2>1, Induction
<1>9. From(n)
  <2>1. n - (a + 1) \in P /\ a + 1 + (n - (a + 1)) = n
    <3> HIDE DEF P
    <3>1. QED
      BY <1>1, <1>8
  <2>2. QED
    BY <2>1
<1>10. PICK rest \in Seq(Byte) : Messages(n) = first \o rest
  BY <1>9 DEF From
<1>11. (Messages(a) \o Message(a + 1)) \o rest = Messages(a) \o (Message(a + 1) \o rest)
  BY <1>2, BytesAssociative
<1>12. QED
  BY <1>10, <1>11 DEF first

-----------------------------------------------------------------------------
(* Buffers and the lines in them. *)

LEMMA LeastElement ==
  ASSUME NEW S \in SUBSET Nat, S # {}
  PROVE  \E n \in S : \A m \in S : n <= m
<1> DEFINE P == {n \in Nat : \A m \in S : n <= m}
<1>1. SUFFICES ASSUME \A n \in S : \E m \in S : ~(n <= m) PROVE FALSE
  OBVIOUS
<1>2. 0 \in P
  OBVIOUS
<1>3. ASSUME NEW n \in P PROVE n + 1 \in P
  <2>1. n \notin S
    BY <1>1
  <2>2. \A m \in S : n <= m /\ m # n /\ m \in Nat
    BY <2>1
  <2>3. QED
    BY <2>2
<1>4. P = Nat
  <2>1. P \in SUBSET Nat
    OBVIOUS
  <2> HIDE DEF P
  <2>2. QED
    BY <1>2, <1>3, <2>1, Induction
<1>5. PICK x \in S : TRUE
  OBVIOUS
<1>6. x + 1 \in P
  <2> HIDE DEF P
  <2>1. QED
    BY <1>4
<1>7. QED
  BY <1>6

LEMMA Split ==
  ASSUME NEW s \in Seq(Byte), NEW n \in 0..Len(s)
  PROVE  /\ SubSeq(s, 1, n) \in Seq(Byte) /\ Len(SubSeq(s, 1, n)) = n
         /\ \A i \in 1..n : SubSeq(s, 1, n)[i] = s[i]
         /\ SubSeq(s, n + 1, Len(s)) \in Seq(Byte)
         /\ Len(SubSeq(s, n + 1, Len(s))) = Len(s) - n
         /\ s = SubSeq(s, 1, n) \o SubSeq(s, n + 1, Len(s))
<1>1. Len(s) \in Nat /\ n \in Nat /\ n <= Len(s)
  BY LenProperties
<1>2. \A i \in 1..n : s[i] \in Byte
  BY <1>1, ElementOfSeq
<1>3. \A i \in n + 1..Len(s) : s[i] \in Byte
  BY <1>1, ElementOfSeq
<1>4. /\ SubSeq(s, 1, n) \in Seq(Byte) /\ Len(SubSeq(s, 1, n)) = n
      /\ \A i \in 1..n : SubSeq(s, 1, n)[i] = s[i]
  BY <1>1, <1>2, SubSeqProperties
<1>5. /\ SubSeq(s, n + 1, Len(s)) \in Seq(Byte)
      /\ Len(SubSeq(s, n + 1, Len(s))) = Len(s) - n
  BY <1>1, <1>3, SubSeqProperties
<1>6. s = SubSeq(s, 1, n) \o SubSeq(s, n + 1, Len(s))
  <2>1. 1 \in 1..Len(s) + 1 /\ n \in 1 - 1..Len(s) /\ Len(s) \in n..Len(s)
    BY <1>1
  <2>2. SubSeq(s, 1, n) \o SubSeq(s, n + 1, Len(s)) = SubSeq(s, 1, Len(s))
    BY <2>1, ConcatAdjacentSubSeq
  <2>3. SubSeq(s, 1, Len(s)) = s
    BY SubSeqFull
  <2>4. QED
    BY <2>2, <2>3
<1>7. QED
  BY <1>4, <1>5, <1>6

LEMMA ConcatAt ==
  ASSUME NEW s \in Seq(Byte), NEW t \in Seq(Byte)
  PROVE  /\ s \o t \in Seq(Byte) /\ Len(s \o t) = Len(s) + Len(t)
         /\ \A i \in 1..Len(s) : (s \o t)[i] = s[i]
         /\ \A i \in 1..Len(t) : (s \o t)[Len(s) + i] = t[i]
<1>1. Len(s) \in Nat /\ Len(t) \in Nat
  BY LenProperties
<1>2. QED
  BY <1>1, ConcatProperties

LEMMA LineEnds ==
  ASSUME NEW s \in Seq(Byte)
  PROVE  /\ s \o EndOfLine \in Seq(Byte) /\ Len(s \o EndOfLine) = Len(s) + 2
         /\ \A i \in 1..Len(s) : (s \o EndOfLine)[i] = s[i]
         /\ (s \o EndOfLine)[Len(s) + 1] = CR /\ (s \o EndOfLine)[Len(s) + 2] = LF
<1>1. /\ EndOfLine \in Seq(Byte) /\ Len(EndOfLine) = 2
      /\ EndOfLine[1] = CR /\ EndOfLine[2] = LF
      /\ 1 \in 1..2 /\ 2 \in 1..2
  BY EndOfLineType
<1>2. /\ s \o EndOfLine \in Seq(Byte) /\ Len(s \o EndOfLine) = Len(s) + Len(EndOfLine)
      /\ \A i \in 1..Len(s) : (s \o EndOfLine)[i] = s[i]
      /\ \A i \in 1..Len(EndOfLine) : (s \o EndOfLine)[Len(s) + i] = EndOfLine[i]
  <2>1. EndOfLine \in Seq(Byte)
    BY <1>1
  <2>2. QED
    BY <2>1, ConcatAt
<1>3. QED
  BY <1>1, <1>2

LEMMA BytesCancel ==
  ASSUME NEW s \in Seq(Byte), NEW t \in Seq(Byte), NEW u \in Seq(Byte), s \o t = s \o u
  PROVE  t = u
  BY ConcatSimplifications, Zenon

(* findCRLF finds the first one. *)
LEMMA FoundCRLF ==
  ASSUME NEW buf \in Seq(Byte), findCRLF(buf) # 0
  PROVE  /\ findCRLF(buf) \in 1..Len(buf) - 1
         /\ buf[findCRLF(buf)] = CR /\ buf[findCRLF(buf) + 1] = LF
         /\ \A j \in 1..Len(buf) - 1 :
              buf[j] = CR /\ buf[j + 1] = LF => findCRLF(buf) <= j
<1> DEFINE ends == {i \in 1..Len(buf) - 1 : buf[i] = CR /\ buf[i + 1] = LF}
           First(i) == i \in ends /\ \A j \in ends : i <= j
<1>1. ends # {} /\ findCRLF(buf) = CHOOSE i \in ends : \A j \in ends : i <= j
  BY DEF findCRLF
<1>2. ends \in SUBSET Nat
  BY LenProperties
<1> HIDE DEF ends
<1>3. \E i \in ends : \A j \in ends : i <= j
  BY <1>1, <1>2, LeastElement
<1>4. findCRLF(buf) \in ends /\ \A j \in ends : findCRLF(buf) <= j
  BY <1>1, <1>3
<1>5. QED
  BY <1>4 DEF ends

(* The line it ends, itself, and what comes after. *)
LEMMA CutLine ==
  ASSUME NEW buf \in Seq(Byte), NEW c \in 1..Len(buf) - 1, buf[c] = CR, buf[c + 1] = LF
  PROVE  /\ SubSeq(buf, 1, c - 1) \in Seq(Byte) /\ Len(SubSeq(buf, 1, c - 1)) = c - 1
         /\ SubSeq(buf, c + 2, Len(buf)) \in Seq(Byte)
         /\ Len(SubSeq(buf, c + 2, Len(buf))) = Len(buf) - (c + 1)
         /\ SubSeq(buf, 1, c + 1) = SubSeq(buf, 1, c - 1) \o EndOfLine
         /\ buf = (SubSeq(buf, 1, c - 1) \o EndOfLine) \o SubSeq(buf, c + 2, Len(buf))
<1>1. Len(buf) \in Nat /\ c \in Nat /\ c - 1 \in 0..Len(buf) /\ c + 1 \in 0..Len(buf)
  BY LenProperties
<1>2. SubSeq(buf, 1, c - 1) \in Seq(Byte) /\ Len(SubSeq(buf, 1, c - 1)) = c - 1
      /\ \A i \in 1..c - 1 : SubSeq(buf, 1, c - 1)[i] = buf[i]
  BY <1>1, Split
<1>3. /\ SubSeq(buf, 1, c + 1) \in Seq(Byte) /\ Len(SubSeq(buf, 1, c + 1)) = c + 1
      /\ \A i \in 1..c + 1 : SubSeq(buf, 1, c + 1)[i] = buf[i]
      /\ SubSeq(buf, (c + 1) + 1, Len(buf)) \in Seq(Byte)
      /\ Len(SubSeq(buf, (c + 1) + 1, Len(buf))) = Len(buf) - (c + 1)
      /\ buf = SubSeq(buf, 1, c + 1) \o SubSeq(buf, (c + 1) + 1, Len(buf))
  BY <1>1, Split
<1>4. (c + 1) + 1 = c + 2
  BY <1>1
<1>5. SubSeq(buf, 1, c + 1) = SubSeq(buf, 1, c - 1) \o EndOfLine
  <2> DEFINE l == SubSeq(buf, 1, c - 1)
             r == SubSeq(buf, 1, c + 1)
             t == l \o EndOfLine
  <2>1. l \in Seq(Byte) /\ Len(l) = c - 1 /\ \A i \in 1..c - 1 : l[i] = buf[i]
    BY <1>2
  <2>2. r \in Seq(Byte) /\ Len(r) = c + 1 /\ \A i \in 1..c + 1 : r[i] = buf[i]
    BY <1>3
  <2> HIDE DEF l, r
  <2>3. /\ t \in Seq(Byte) /\ Len(t) = (c - 1) + 2
        /\ \A i \in 1..c - 1 : t[i] = l[i]
        /\ t[(c - 1) + 1] = CR /\ t[(c - 1) + 2] = LF
    BY <2>1, LineEnds
  <2> HIDE DEF t
  <2>4. Len(t) = c + 1 /\ t[c] = CR /\ t[c + 1] = LF
    <3>1. (c - 1) + 2 = c + 1 /\ (c - 1) + 1 = c
      BY <1>1
    <3>2. QED
      BY <2>3, <3>1
  <2>5. ASSUME NEW i \in 1..c + 1 PROVE r[i] = t[i]
    <3>1. CASE i \in 1..c - 1
      BY <2>1, <2>2, <2>3, <3>1
    <3>2. CASE i = c \/ i = c + 1
      BY <2>2, <2>4, <3>2
    <3>3. QED
      BY <1>1, <3>1, <3>2
  <2>6. QED
    BY <2>2, <2>3, <2>4, <2>5, SeqEqual DEF l, r, t
<1>6. QED
  BY <1>2, <1>3, <1>4, <1>5

(* In a stream of requests that begins with request number i, a buffer that *)
(* has some of it finds the end of this request and no other, and keeps all *)
(* that comes behind it.                                                    *)
LEMMA FirstRequest ==
  ASSUME script \in Seq(Nat), program = "sudoku", NEW i \in 1..Len(script),
         NEW buf \in Seq(Byte), NEW tail \in Seq(Byte), NEW rest \in Seq(Byte),
         buf \o tail = Message(i) \o rest, findCRLF(buf) # 0
  PROVE  /\ findCRLF(buf) = script[i] + 1
         /\ SubSeq(buf, 1, findCRLF(buf) - 1) = Own(i)
         /\ SubSeq(buf, findCRLF(buf) + 2, Len(buf)) \o tail = rest
<1> DEFINE c == findCRLF(buf)
           L == script[i]
           T == Message(i) \o rest
           last == SubSeq(buf, c + 2, Len(buf))
<1>1. /\ Own(i) \in Seq(Byte) /\ Len(Own(i)) = L /\ L \in Nat
      /\ \A j \in 1..L : Own(i)[j] = <<i, j>>
      /\ i \in Nat \ {0}
  BY OwnType, LenProperties
<1>2. Message(i) = Own(i) \o EndOfLine /\ Message(i) \in Seq(Byte)
  BY MessageIs
<1>3. /\ c \in 1..Len(buf) - 1 /\ buf[c] = CR /\ buf[c + 1] = LF
      /\ \A j \in 1..Len(buf) - 1 : buf[j] = CR /\ buf[j + 1] = LF => c <= j
  BY FoundCRLF
<1>4. Len(buf) \in Nat /\ Len(rest) \in Nat
  BY LenProperties
<1> HIDE DEF c, L
<1>5. /\ Len(Message(i)) = L + 2
      /\ \A j \in 1..L : Message(i)[j] = <<i, j>>
      /\ Message(i)[L + 1] = CR /\ Message(i)[L + 2] = LF
  BY <1>1, <1>2, LineEnds
<1>6. \A j \in 1..L + 2 : T[j] = Message(i)[j]
  BY <1>1, <1>2, <1>4, <1>5, ConcatProperties
<1>7. \A j \in 1..Len(buf) : T[j] = buf[j]
  <2>1. \A j \in 1..Len(buf) : (buf \o tail)[j] = buf[j]
    BY <1>4, LenProperties, ConcatProperties
  <2>2. QED
    BY <2>1
<1> HIDE DEF T
<1>8. c = L + 1
  <2>1. c \notin 1..L
    <3>1. \A j \in 1..L : <<i, j>> # CR
      BY <1>1 DEF CR
    <3>2. ASSUME c \in 1..L PROVE FALSE
      <4>1. c \in 1..Len(buf) /\ c \in 1..L + 2
        BY <1>1, <1>3, <1>4, <3>2
      <4>2. buf[c] = Message(i)[c]
        BY <1>6, <1>7, <4>1
      <4>3. Message(i)[c] = <<i, c>>
        BY <1>5, <3>2
      <4>4. QED
        BY <1>3, <3>1, <3>2, <4>2, <4>3
    <3>3. QED
      BY <3>2
  <2>2. ASSUME c > L + 1 PROVE FALSE
    <3>1. L + 1 \in 1..Len(buf) - 1 /\ L + 1 \in 1..Len(buf) /\ L + 2 \in 1..Len(buf)
      BY <1>1, <1>3, <1>4, <2>2
    <3>2. buf[L + 1] = CR /\ buf[L + 2] = LF
      <4>1. L + 1 \in 1..L + 2 /\ L + 2 \in 1..L + 2
        BY <1>1
      <4>2. QED
        BY <1>5, <1>6, <1>7, <3>1, <4>1
    <3>3. (L + 1) + 1 = L + 2
      BY <1>1
    <3>4. c <= L + 1
      BY <1>3, <3>1, <3>2, <3>3
    <3>5. QED
      BY <1>1, <1>3, <1>4, <2>2, <3>4
  <2>3. QED
    BY <1>1, <1>3, <1>4, <2>1, <2>2
<1>9. /\ SubSeq(buf, 1, c - 1) \in Seq(Byte) /\ Len(SubSeq(buf, 1, c - 1)) = c - 1
      /\ last \in Seq(Byte)
      /\ buf = (SubSeq(buf, 1, c - 1) \o EndOfLine) \o last
  BY <1>3, CutLine
<1> HIDE DEF last
<1>10. SubSeq(buf, 1, c - 1) = Own(i)
  <2>1. \A j \in 1..L : SubSeq(buf, 1, c - 1)[j] = buf[j]
    <3>1. c - 1 \in 0..Len(buf) /\ c - 1 = L
      BY <1>1, <1>3, <1>4, <1>8
    <3>2. QED
      BY <3>1, Split
  <2>2. ASSUME NEW j \in 1..L PROVE buf[j] = Own(i)[j]
    <3>1. j \in 1..Len(buf) /\ j \in 1..L + 2
      BY <1>1, <1>3, <1>4, <1>8
    <3>2. buf[j] = Message(i)[j]
      BY <1>6, <1>7, <3>1
    <3>3. QED
      BY <1>1, <1>5, <3>2
  <2>3. Len(SubSeq(buf, 1, c - 1)) = L
    BY <1>1, <1>8, <1>9
  <2>4. QED
    BY <1>1, <1>9, <2>1, <2>2, <2>3, SeqEqual
<1>11. last \o tail = rest
  <2>1. buf = Message(i) \o last
    BY <1>2, <1>9, <1>10
  <2>2. (Message(i) \o last) \o tail = Message(i) \o (last \o tail)
    BY <1>2, <1>9, BytesAssociative
  <2>3. Message(i) \o (last \o tail) = Message(i) \o rest
    BY <2>1, <2>2
  <2>4. last \o tail \in Seq(Byte)
    BY <1>9, BytesType
  <2>5. QED
    BY <1>2, <2>3, <2>4, BytesCancel
<1>12. QED
  BY <1>8, <1>10, <1>11 DEF c, L, last

-----------------------------------------------------------------------------
(* Types and counts: the streams are bytes, what the kernels hold fits, and *)
(* no closure is queued for which no send was called.                       *)

BytesOK ==
  /\ c2s \in Seq(Byte) /\ s2c \in Seq(Byte)
  /\ input \in Seq(Byte) /\ cinput \in Seq(Byte)
  /\ program = "sudoku" => answers \in Seq(Seq(Byte)) /\ received \in Seq(Seq(Byte))
  /\ program # "sudoku" => answers \in Seq(Byte) /\ received \in Seq(Byte)

CountsOK ==
  /\ cpc = "connect" => sends = 0 /\ tasks = 0 /\ waiting = 0
  /\ program \in Threads => tasks <= sends
  /\ program = "chargen" => tasks <= 1 /\ (tasks > 0 => waiting = 0)
  /\ program \in {"sudoku", "echo"} => tasks = 0

Typed == TypeOK /\ BytesOK /\ CountsOK

LEMMA ScriptType ==
  ASSUME TypeOK
  PROVE  /\ script \in Seq(Nat) /\ Len(script) \in Nat /\ Len(script) <= MaxReqs
         /\ DOMAIN script = 1..Len(script) /\ sends \in Nat /\ sends <= Len(script)
         /\ tasks \in Nat
<1>1. Sizes \cup {Length} \subseteq Nat /\ script \in Seq(Sizes \cup {Length})
  BY ExamplesAssumption DEF TypeOK
<1>2. script \in Seq(Nat)
  BY <1>1, SeqMonotonic
<1>3. Len(script) \in Nat /\ DOMAIN script = 1..Len(script)
  BY <1>2, LenProperties
<1>4. QED
  BY <1>2, <1>3, ExamplesAssumption DEF TypeOK

LEMMA InitTyped == Init => Typed
<1> SUFFICES ASSUME Init PROVE Typed
  OBVIOUS
<1>1. script \in Seq(Sizes \cup {Length}) /\ Len(script) \in 1..MaxReqs
  <2>1. CASE program = "sudoku"
    <3>1. script \in SeqOf(Sizes, MaxReqs) /\ script # <<>>
      BY <2>1 DEF Init, Scripts
    <3>2. PICK m \in 0..MaxReqs : script \in [1..m -> Sizes]
      BY <3>1 DEF SeqOf
    <3>3. script \in Seq(Sizes) /\ Len(script) = m /\ MaxReqs \in Nat
      BY <3>2, ExamplesAssumption
    <3>4. Len(script) # 0
      BY <3>1, <3>3, EmptySeq
    <3>5. script \in Seq(Sizes \cup {Length})
      BY <3>3, SeqMonotonic
    <3>6. QED
      BY <3>3, <3>4, <3>5
  <2>2. CASE program # "sudoku"
    <3> DEFINE n == IF program = "echo" THEN 1 ELSE MaxReqs
    <3>1. n \in 1..MaxReqs /\ script = [i \in 1..n |-> Length]
      BY <2>2, ExamplesAssumption DEF Init, Scripts
    <3> HIDE DEF n
    <3>2. n \in Nat /\ script \in [1..n -> Sizes \cup {Length}]
      BY <3>1
    <3>3. script \in Seq(Sizes \cup {Length}) /\ Len(script) = n
      BY <3>2
    <3>4. QED
      BY <3>1, <3>3
  <2>3. QED
    BY <2>1, <2>2
<1>2. <<>> \in Seq(Byte) /\ <<>> \in Seq(Seq(Byte)) /\ Len(<<>>) = 0
  BY EmptySeq
<1>3. TypeOK
  <2>1. Len(script) \in Nat /\ sends \in 0..Len(script) /\ tasks \in 0..MaxReqs
    BY <1>1, ExamplesAssumption DEF Init
  <2>2. waiting \in 0..Len(c2s) /\ Len(c2s) - waiting <= Window /\ used \in Len(input)..Room
    BY <1>2, ExamplesAssumption DEF Init
  <2>3. QED
    BY <1>1, <2>1, <2>2 DEF Init, TypeOK
<1>4. BytesOK
  BY <1>2 DEF Init, BytesOK
<1>5. CountsOK
  BY DEF Init, CountsOK
<1>6. QED
  BY <1>3, <1>4, <1>5 DEF Typed

(* What sendInloop does to the bytes on their way. *)
LEMMA SendTyped ==
  ASSUME Typed, NEW bytes \in Seq(Byte), sendInloop(bytes)
  PROVE  /\ c2s' \in Seq(Byte)
         /\ waiting' \in 0..Len(c2s') /\ Len(c2s') - waiting' <= Window
         /\ waiting = 0 /\ Accepted(Len(bytes)) = Len(bytes) => waiting' = 0
         /\ program # "chargen" => c2s' = c2s \o bytes
<1> DEFINE L == Len(bytes)
           n == Accepted(L)
           again == program = "chargen" /\ n < L
           part == IF again THEN SubSeq(bytes, 1, n) ELSE <<>>
           w == IF again THEN L ELSE L - n
<1>1. /\ c2s \in Seq(Byte) /\ Len(c2s) \in Nat /\ L \in Nat
      /\ waiting \in 0..Len(c2s) /\ Len(c2s) - waiting <= Window
      /\ Window \in Nat
  BY LenProperties, ExamplesAssumption DEF Typed, TypeOK, BytesOK
<1>2. n \in 0..L /\ Len(c2s) - waiting + n <= Window
  BY <1>1 DEF Accepted, Free, Least
<1>3. c2s' = (c2s \o part) \o bytes /\ waiting' = waiting + w
  BY DEF sendInloop
<1>4. part \in Seq(Byte) /\ Len(part) = IF again THEN n ELSE 0
  <2>1. SubSeq(bytes, 1, n) \in Seq(Byte) /\ Len(SubSeq(bytes, 1, n)) = n
    BY <1>2, Split
  <2>2. <<>> \in Seq(Byte) /\ Len(<<>>) = 0
    BY EmptySeq
  <2>3. QED
    BY <2>1, <2>2
<1>5. c2s' \in Seq(Byte) /\ Len(c2s') = Len(c2s) + Len(part) + L
  <2> HIDE DEF part
  <2>1. c2s \o part \in Seq(Byte) /\ Len(c2s \o part) = Len(c2s) + Len(part)
    BY <1>1, <1>4, BytesType
  <2>2. QED
    BY <1>3, <2>1, BytesType
<1>6. waiting' \in 0..Len(c2s') /\ Len(c2s') - waiting' <= Window
  <2> HIDE DEF part, n, L
  <2>1. CASE again
    BY <1>1, <1>2, <1>3, <1>4, <1>5, <2>1
  <2>2. CASE ~again
    BY <1>1, <1>2, <1>3, <1>4, <1>5, <2>2
  <2>3. QED
    BY <2>1, <2>2
<1>7. waiting = 0 /\ n = L => waiting' = 0
  <2> HIDE DEF n, L
  <2>1. QED
    BY <1>1, <1>3
<1>8. program # "chargen" => c2s' = c2s \o bytes
  <2>1. c2s \o <<>> = c2s
    BY <1>1, ConcatEmptySeq
  <2>2. QED
    BY <1>3, <2>1
<1>9. QED
  BY <1>5, <1>6, <1>7, <1>8

LEMMA AllMessages ==
  ASSUME TypeOK
  PROVE  FlattenSeq([i \in DOMAIN script |-> Message(i)]) = Messages(Len(script))
  BY ScriptType DEF Messages

LEMMA MessageType ==
  ASSUME TypeOK, NEW i \in 1..Len(script)
  PROVE  Message(i) \in Seq(Byte)
  BY ScriptType, MessageIs

(* The steps in which the client calls sendInloop. *)
LEMMA SendingTyped ==
  ASSUME Typed,
         \/ sudokuOnConnect \/ echoOnConnect \/ chargenOnConnect
         \/ onWriteComplete \/ runSend
  PROVE  Typed'
<1>1. /\ script \in Seq(Nat) /\ Len(script) \in Nat /\ Len(script) >= 1
      /\ Len(script) <= MaxReqs /\ sends \in Nat /\ sends <= Len(script) /\ tasks \in Nat
      /\ MaxReqs \in Nat /\ TypeOK
  BY ScriptType, ExamplesAssumption DEF Typed, TypeOK
<1>2. ASSUME NEW bytes \in Seq(Byte), sendInloop(bytes),
             UNCHANGED <<program, script, s2c, serverVars, cinput, received>>,
             sends' \in 0..Len(script), tasks' \in 0..MaxReqs, cpc' = "poll",
             program \in Threads => tasks' <= sends',
             program = "chargen" => tasks' <= 1 /\ (tasks' > 0 => waiting' = 0),
             program \in {"sudoku", "echo"} => tasks' = 0
      PROVE  Typed'
  <2>1. c2s' \in Seq(Byte) /\ waiting' \in 0..Len(c2s') /\ Len(c2s') - waiting' <= Window
    BY <1>2, SendTyped
  <2>2. TypeOK'
    BY <1>2, <2>1 DEF Typed, TypeOK, serverVars
  <2>3. BytesOK'
    BY <1>2, <2>1 DEF Typed, BytesOK, serverVars
  <2>4. CountsOK'
    BY <1>2 DEF CountsOK
  <2>5. QED
    BY <2>2, <2>3, <2>4 DEF Typed
<1>3. CASE sudokuOnConnect
  <2>1. Messages(Len(script)) \in Seq(Byte)
    BY <1>1, MessagesNext
  <2>2. sendInloop(Messages(Len(script)))
    BY <1>1, <1>3, AllMessages DEF sudokuOnConnect
  <2>3. tasks = 0 /\ program = "sudoku" /\ program \notin Threads
    BY <1>3 DEF sudokuOnConnect, Typed, CountsOK, Threads
  <2>4. sends' \in 0..Len(script) /\ tasks' \in 0..MaxReqs /\ tasks' = 0
    BY <1>1, <1>3, <2>3 DEF sudokuOnConnect
  <2>5. QED
    BY <1>2, <1>3, <2>1, <2>2, <2>3, <2>4 DEF sudokuOnConnect
<1>4. CASE echoOnConnect
  <2>1. Message(1) \in Seq(Byte)
    BY <1>1, MessageType
  <2>2. tasks = 0 /\ program = "echo" /\ program \notin Threads
    BY <1>4 DEF echoOnConnect, Typed, CountsOK, Threads
  <2>3. sends' \in 0..Len(script) /\ tasks' \in 0..MaxReqs /\ tasks' = 0
    BY <1>1, <1>4, <2>2 DEF echoOnConnect
  <2>4. QED
    BY <1>2, <1>4, <2>1, <2>2, <2>3 DEF echoOnConnect
<1>5. CASE chargenOnConnect
  <2>1. Message(1) \in Seq(Byte)
    BY <1>1, MessageType
  <2>2. waiting = 0 /\ program = "chargen" /\ program \notin Threads \cup {"sudoku", "echo"}
    BY <1>5 DEF chargenOnConnect, Typed, CountsOK, Threads
  <2>3. tasks' \in {0, 1} /\ (tasks' > 0 => Accepted(Len(Message(1))) = Len(Message(1)))
    BY <1>5 DEF chargenOnConnect, Told
  <2>4. tasks' > 0 => waiting' = 0
    BY <1>5, <2>1, <2>2, <2>3, SendTyped DEF chargenOnConnect
  <2>5. sends' \in 0..Len(script) /\ tasks' \in 0..MaxReqs /\ tasks' <= 1
    BY <1>1, <1>5, <2>3 DEF chargenOnConnect
  <2>6. QED
    BY <1>2, <1>5, <2>1, <2>2, <2>4, <2>5 DEF chargenOnConnect
<1>6. CASE onWriteComplete
  <2> DEFINE next == Message(sends + 1)
  <2>1. next \in Seq(Byte)
    BY <1>1, <1>6, MessageType DEF onWriteComplete
  <2>2. /\ program = "chargen" /\ program \notin Threads \cup {"sudoku", "echo"}
        /\ tasks = 1 /\ waiting = 0 /\ cpc = "poll"
    BY <1>1, <1>6 DEF onWriteComplete, Typed, CountsOK, Threads
  <2>3. tasks' \in {0, 1} /\ (tasks' > 0 => Accepted(Len(next)) = Len(next))
    BY <1>6, <2>2 DEF onWriteComplete, Told
  <2>4. sendInloop(next)
    BY <1>6 DEF onWriteComplete
  <2> HIDE DEF next
  <2>5. tasks' > 0 => waiting' = 0
    BY <2>1, <2>2, <2>3, <2>4, SendTyped
  <2>6. sends' \in 0..Len(script) /\ tasks' \in 0..MaxReqs /\ tasks' <= 1
    BY <1>1, <1>6, <2>3 DEF onWriteComplete
  <2>7. QED
    BY <1>2, <1>6, <2>1, <2>2, <2>4, <2>5, <2>6 DEF onWriteComplete
<1>7. CASE runSend
  <2>1. /\ program \in Threads /\ program \notin {"chargen", "sudoku", "echo"}
        /\ tasks > 0 /\ tasks <= sends /\ tasks' = tasks - 1 /\ cpc = "poll"
    BY <1>7 DEF runSend, Typed, CountsOK, Threads
  <2>2. PICK bytes \in Found : sendInloop(bytes)
    BY <1>7 DEF runSend
  <2>3. bytes \in Seq(Byte)
    <3>1. Message(sends) \in Seq(Byte) /\ Message(sends - tasks + 1) \in Seq(Byte)
      BY <1>1, <2>1, MessageType
    <3>2. Garbage \in Seq(Byte)
      <4>1. Length \in Nat /\ <<0, 4>> \in Byte
        BY ExamplesAssumption DEF Byte
      <4>2. Garbage \in [1..Length -> Byte]
        BY <4>1 DEF Garbage
      <4>3. QED
        BY <4>1, <4>2
    <3>3. QED
      BY <3>1, <3>2 DEF Found
  <2>4. sends' \in 0..Len(script) /\ tasks' \in 0..MaxReqs /\ tasks' <= sends'
    BY <1>1, <1>7, <2>1 DEF runSend
  <2>5. QED
    BY <1>2, <1>7, <2>1, <2>2, <2>3, <2>4 DEF runSend
<1>8. QED
  BY <1>3, <1>4, <1>5, <1>6, <1>7

(* The client's other steps. *)
LEMMA ClientTyped ==
  ASSUME Typed,
         \/ handleWrite
         \/ discardConnect \/ echoConnect \/ clientOnConnect
         \/ discardSend \/ echoSend \/ lineSend
         \/ \E n \in 1..Len(s2c) : clientRead(n)
         \/ echoClientOnMessage \/ clientRecvEcho \/ clientOnMessage
         \/ response \/ clientReturns \/ handleWriteError \/ clientClose
  PROVE  Typed'
<1>1. /\ script \in Seq(Nat) /\ Len(script) \in Nat /\ Len(script) >= 1
      /\ Len(script) <= MaxReqs /\ sends \in Nat /\ sends <= Len(script) /\ tasks \in Nat
      /\ MaxReqs \in Nat /\ Window \in Nat
  BY ScriptType, ExamplesAssumption DEF Typed, TypeOK
<1>2. /\ Len(c2s) \in Nat /\ waiting \in 0..Len(c2s) /\ Len(c2s) - waiting <= Window
      /\ Len(s2c) \in Nat
  BY LenProperties DEF Typed, TypeOK, BytesOK
<1>3. CASE handleWrite
  <2>1. /\ cpc = "poll" /\ waiting > 0
        /\ waiting' = waiting - Least(Free, waiting)
        /\ tasks' = tasks + Told(waiting' = 0)
        /\ UNCHANGED <<program, script, sends, c2s, s2c, serverVars, cpc, cinput, received>>
        /\ Free > 0
    BY <1>3 DEF handleWrite
  <2>2. waiting' \in 0..Len(c2s) /\ Len(c2s) - waiting' <= Window
    BY <1>1, <1>2, <2>1 DEF Free, Least
  <2>3. \/ tasks' = tasks
        \/ program = "chargen" /\ tasks = 0 /\ tasks' = 1 /\ waiting' = 0
    BY <1>1, <2>1 DEF Told, Typed, CountsOK
  <2>4. program = "chargen" => tasks' <= 1 /\ (tasks' > 0 => waiting' = 0)
    BY <1>1, <2>1, <2>3 DEF Typed, CountsOK
  <2>5. program # "chargen" => tasks' = tasks
    BY <2>3
  <2>10. tasks' \in 0..MaxReqs
    BY <1>1, <2>3 DEF Typed, TypeOK
  <2>6. TypeOK'
    BY <2>1, <2>2, <2>10 DEF Typed, TypeOK, serverVars
  <2>7. BytesOK'
    BY <2>1 DEF Typed, BytesOK, serverVars
  <2>8. CountsOK'
    BY <2>1, <2>4, <2>5 DEF Typed, CountsOK, Threads
  <2>9. QED
    BY <2>6, <2>7, <2>8 DEF Typed
<1>4. CASE discardConnect \/ echoConnect \/ clientOnConnect
  <2>1. /\ cpc' \in {"poll", "failed"} /\ program \in Threads
        /\ UNCHANGED <<program, script, sends, tasks, c2s, waiting, s2c, serverVars, cinput,
                       received>>
    BY <1>4 DEF discardConnect, echoConnect, clientOnConnect, threadConnect, Threads
  <2>2. QED
    BY <2>1 DEF Typed, TypeOK, BytesOK, CountsOK, serverVars
<1>5. CASE discardSend \/ echoSend \/ lineSend
  <2>1. /\ program \in Threads /\ cpc \in {"poll", "onMessage"} /\ sends < Len(script)
        /\ sends' = sends + 1 /\ tasks' = tasks + 1
        /\ UNCHANGED <<program, script, c2s, waiting, s2c, serverVars, cpc, cinput, received>>
    BY <1>5 DEF discardSend, echoSend, lineSend, threadSend, Threads
  <2>2. /\ program \notin {"chargen", "sudoku", "echo"}
        /\ tasks' <= sends' /\ sends' \in 0..Len(script) /\ tasks' \in 0..MaxReqs
    BY <1>1, <2>1 DEF Typed, CountsOK, Threads
  <2>3. TypeOK'
    BY <2>1, <2>2 DEF Typed, TypeOK, serverVars
  <2>4. BytesOK'
    BY <2>1 DEF Typed, BytesOK, serverVars
  <2>5. CountsOK'
    BY <2>1, <2>2 DEF CountsOK
  <2>6. QED
    BY <2>3, <2>4, <2>5 DEF Typed
<1>6. ASSUME NEW n \in 1..Len(s2c), clientRead(n) PROVE Typed'
  <2>1. /\ cinput' = cinput \o SubSeq(s2c, 1, n)
        /\ s2c' = SubSeq(s2c, n + 1, Len(s2c)) /\ cpc' = "onMessage"
        /\ UNCHANGED <<program, script, sends, tasks, c2s, waiting, serverVars, received>>
    BY <1>6 DEF clientRead
  <2>2. SubSeq(s2c, 1, n) \in Seq(Byte) /\ SubSeq(s2c, n + 1, Len(s2c)) \in Seq(Byte)
    <3>1. s2c \in Seq(Byte) /\ n \in 0..Len(s2c)
      BY <1>2 DEF Typed, BytesOK
    <3>2. QED
      BY <3>1, Split
  <2>3. cinput' \in Seq(Byte) /\ s2c' \in Seq(Byte)
    BY <2>1, <2>2, BytesType DEF Typed, BytesOK
  <2>4. TypeOK'
    BY <2>1 DEF Typed, TypeOK, serverVars
  <2>5. BytesOK'
    BY <2>1, <2>3 DEF Typed, BytesOK, serverVars
  <2>6. CountsOK'
    BY <2>1 DEF Typed, CountsOK
  <2>7. QED
    BY <2>4, <2>5, <2>6 DEF Typed
<1>7. CASE echoClientOnMessage \/ clientRecvEcho \/ clientOnMessage
  <2>1. /\ program # "sudoku" /\ received' = received \o cinput /\ cinput' = <<>>
        /\ cpc' = "poll"
        /\ UNCHANGED <<program, script, sends, tasks, c2s, waiting, s2c, serverVars>>
    BY <1>7 DEF echoClientOnMessage, clientRecvEcho, clientOnMessage, TakeEcho
  <2>2. received' \in Seq(Byte) /\ cinput' \in Seq(Byte)
    BY <2>1, BytesType, EmptySeq DEF Typed, BytesOK
  <2>3. TypeOK'
    BY <2>1 DEF Typed, TypeOK, serverVars
  <2>4. BytesOK'
    BY <2>1, <2>2 DEF Typed, BytesOK, serverVars
  <2>5. CountsOK'
    BY <2>1 DEF Typed, CountsOK
  <2>6. QED
    BY <2>3, <2>4, <2>5 DEF Typed
<1>8. CASE response
  <2> DEFINE c == findCRLF(cinput)
             line == SubSeq(cinput, 1, c - 1)
             rest == SubSeq(cinput, c + 2, Len(cinput))
  <2>1. /\ program = "sudoku" /\ c # 0 /\ cpc = "onMessage"
        /\ received' = Append(received, line) /\ cinput' = rest
        /\ UNCHANGED <<program, script, sends, tasks, c2s, waiting, s2c, serverVars, cpc>>
    BY <1>8 DEF response
  <2>2. line \in Seq(Byte) /\ rest \in Seq(Byte)
    <3>1. cinput \in Seq(Byte)
      BY DEF Typed, BytesOK
    <3>2. c \in 1..Len(cinput) - 1 /\ cinput[c] = CR /\ cinput[c + 1] = LF
      BY <2>1, <3>1, FoundCRLF
    <3> HIDE DEF c
    <3>3. QED
      BY <3>1, <3>2, CutLine
  <2> HIDE DEF c, line, rest
  <2>3. received' \in Seq(Seq(Byte)) /\ cinput' \in Seq(Byte)
    BY <2>1, <2>2, AppendProperties DEF Typed, BytesOK
  <2>4. TypeOK'
    BY <2>1 DEF Typed, TypeOK, serverVars
  <2>5. BytesOK'
    BY <2>1, <2>3 DEF Typed, BytesOK, serverVars
  <2>6. CountsOK'
    BY <2>1 DEF Typed, CountsOK
  <2>7. QED
    BY <2>4, <2>5, <2>6 DEF Typed
<1>9. CASE clientReturns \/ handleWriteError \/ clientClose
  <2>1. /\ cpc \in {"poll", "onMessage"} /\ cpc' \in {"poll", "failed", "closed"}
        /\ UNCHANGED <<program, script, sends, tasks, c2s, waiting, s2c, serverVars, cinput,
                       received>>
    BY <1>9 DEF clientReturns, handleWriteError, clientClose
  <2>2. QED
    BY <2>1 DEF Typed, TypeOK, BytesOK, CountsOK, serverVars
<1>10. QED
  BY <1>3, <1>4, <1>5, <1>6, <1>7, <1>8, <1>9

(* What a CRLF cuts off the server's buffer. *)
LEMMA Cut ==
  ASSUME Typed, findCRLF(input) # 0
  PROVE  /\ SubSeq(input, 1, findCRLF(input) - 1) \in Seq(Byte)
         /\ SubSeq(input, findCRLF(input) + 2, Len(input)) \in Seq(Byte)
         /\ Len(SubSeq(input, findCRLF(input) + 2, Len(input))) <= Len(input)
<1> DEFINE c == findCRLF(input)
<1>1. input \in Seq(Byte) /\ Len(input) \in Nat
  BY LenProperties DEF Typed, BytesOK
<1>2. c \in 1..Len(input) - 1 /\ input[c] = CR /\ input[c + 1] = LF
  BY <1>1, FoundCRLF
<1> HIDE DEF c
<1>3. /\ SubSeq(input, 1, c - 1) \in Seq(Byte)
      /\ SubSeq(input, c + 2, Len(input)) \in Seq(Byte)
      /\ Len(SubSeq(input, c + 2, Len(input))) = Len(input) - (c + 1)
  BY <1>1, <1>2, CutLine
<1>4. Len(input) - (c + 1) <= Len(input)
  BY <1>1, <1>2
<1>5. QED
  BY <1>3, <1>4 DEF c

(* The server's steps. *)
LEMMA ServerTyped ==
  ASSUME Typed, ServerStep
  PROVE  Typed'
<1>1. /\ input \in Seq(Byte) /\ Len(input) \in Nat /\ used \in Len(input)..Room
      /\ used \in Nat /\ Room \in Nat
      /\ c2s \in Seq(Byte) /\ Len(c2s) \in Nat /\ waiting \in 0..Len(c2s)
      /\ Len(c2s) - waiting <= Window /\ Window \in Nat
  BY LenProperties, ExamplesAssumption DEF Typed, TypeOK, BytesOK
<1>2. ASSUME NEW n \in 1..Room, serverRead(n) PROVE Typed'
  <2>1. /\ n \in 1..Len(c2s) - waiting /\ used + n <= Room
        /\ input' = input \o SubSeq(c2s, 1, n) /\ used' = used + n
        /\ c2s' = SubSeq(c2s, n + 1, Len(c2s)) /\ spc' = "onMessage"
        /\ UNCHANGED <<program, script, s2c, clientVars, answers>>
    BY <1>2 DEF serverRead
  <2>2. n \in 0..Len(c2s)
    BY <1>1, <2>1
  <2>3. /\ SubSeq(c2s, 1, n) \in Seq(Byte) /\ Len(SubSeq(c2s, 1, n)) = n
        /\ c2s' \in Seq(Byte) /\ Len(c2s') = Len(c2s) - n
    BY <1>1, <2>1, <2>2, Split
  <2>4. input' \in Seq(Byte) /\ Len(input') = Len(input) + n
    BY <1>1, <2>1, <2>3, BytesType
  <2>5. waiting \in 0..Len(c2s') /\ Len(c2s') - waiting <= Window
    BY <1>1, <2>1, <2>2, <2>3
  <2>6. used' \in Len(input')..Room /\ input' # <<>>
    <3>1. Len(input') # 0
      BY <1>1, <2>1, <2>4
    <3>2. input' # <<>>
      BY <3>1, EmptySeq
    <3>3. used' \in Len(input')..Room
      BY <1>1, <2>1, <2>4
    <3>4. QED
      BY <3>2, <3>3
  <2>7. TypeOK'
    BY <2>1, <2>5, <2>6 DEF Typed, TypeOK, clientVars
  <2>8. BytesOK'
    BY <2>1, <2>3, <2>4 DEF Typed, BytesOK, clientVars
  <2>9. CountsOK'
    BY <2>1 DEF Typed, CountsOK, clientVars
  <2>10. QED
    BY <2>7, <2>8, <2>9 DEF Typed
<1>3. CASE serverReadNothing \/ onMessageReturns
  <2>1. /\ spc' \in {"poll", "closed"}
        /\ UNCHANGED <<program, script, c2s, clientVars, input, used, answers>>
        /\ UNCHANGED s2c \/ \E n \in 0..Len(s2c) : s2c' = SubSeq(s2c, 1, n)
    BY <1>3 DEF serverReadNothing, onMessageReturns
  <2>2. s2c' \in Seq(Byte)
    BY <2>1, Split DEF Typed, BytesOK
  <2>3. TypeOK'
    BY <2>1 DEF Typed, TypeOK, clientVars
  <2>4. BytesOK'
    BY <2>1, <2>2 DEF Typed, BytesOK, clientVars
  <2>5. CountsOK'
    BY <2>1 DEF Typed, CountsOK, clientVars
  <2>6. QED
    BY <2>3, <2>4, <2>5 DEF Typed
<1>4. CASE \/ echoOnMessage \/ serverMessageEcho \/ serverOnMessage
           \/ chargenOnMessage \/ serverMessageDiscard
  <2>1. /\ program # "sudoku" /\ TakeAll
        /\ UNCHANGED <<program, script, c2s, clientVars>>
        /\ s2c' = s2c \o input \/ UNCHANGED s2c
    BY <1>4 DEF echoOnMessage, serverMessageEcho, serverOnMessage, chargenOnMessage,
                serverMessageDiscard, SendBack, Discard, Threads
  <2>2. /\ answers' = answers \o input /\ input' = <<>> /\ used' = 0 /\ spc' = "poll"
    BY <2>1 DEF TakeAll
  <2>3. answers' \in Seq(Byte) /\ input' \in Seq(Byte) /\ Len(input') = 0
    BY <1>1, <2>1, <2>2, BytesType, EmptySeq DEF Typed, BytesOK
  <2>4. s2c' \in Seq(Byte)
    BY <1>1, <2>1, BytesType DEF Typed, BytesOK
  <2>5. used' \in Len(input')..Room
    BY <1>1, <2>2, <2>3
  <2>6. TypeOK'
    BY <2>1, <2>2, <2>5 DEF Typed, TypeOK, clientVars
  <2>7. BytesOK'
    BY <2>1, <2>3, <2>4 DEF Typed, BytesOK, clientVars
  <2>8. CountsOK'
    BY <2>1 DEF Typed, CountsOK, clientVars
  <2>9. QED
    BY <2>6, <2>7, <2>8 DEF Typed
<1>5. CASE solveSudoku \/ badLength
  <2> DEFINE c == findCRLF(input)
             req == SubSeq(input, 1, c - 1)
             rest == SubSeq(input, c + 2, Len(input))
  <2>1. /\ HasRequest /\ Take(c)
        /\ \E a \in {req, ErrorLength} :
             s2c' = (s2c \o a) \o EndOfLine /\ answers' = Append(answers, a)
        /\ UNCHANGED <<program, script, c2s, spc, clientVars>>
    BY <1>5 DEF solveSudoku, badLength, EndOfLine
  <2>2. req \in Seq(Byte) /\ rest \in Seq(Byte) /\ Len(rest) <= Len(input) /\ Len(rest) \in Nat
    BY <2>1, Cut, LenProperties DEF HasRequest
  <2>3. ErrorLength \in Seq(Byte)
    <3>1. <<0, 3>> \in Byte
      BY DEF Byte
    <3>2. QED
      BY <3>1 DEF ErrorLength
  <2>4. /\ program = "sudoku" /\ input' = rest
        /\ used' = IF input' = <<>> THEN 0 ELSE used
    BY <2>1 DEF HasRequest, Take
  <2> HIDE DEF c, req, rest
  <2>5. PICK a \in Seq(Byte) : s2c' = (s2c \o a) \o EndOfLine /\ answers' = Append(answers, a)
    BY <2>1, <2>2, <2>3
  <2>6. s2c' \in Seq(Byte)
    <3>1. s2c \o a \in Seq(Byte)
      BY BytesType DEF Typed, BytesOK
    <3>2. QED
      BY <2>5, <3>1, EndOfLineType, BytesType
  <2>7. answers' \in Seq(Seq(Byte))
    BY <2>4, <2>5, AppendProperties DEF Typed, BytesOK
  <2>8. used' \in Len(input')..Room /\ (input' = <<>> => used' = 0)
    <3>1. CASE input' = <<>>
      BY <1>1, <2>4, <3>1, EmptySeq
    <3>2. CASE input' # <<>>
      BY <1>1, <2>2, <2>4, <3>2
    <3>3. QED
      BY <3>1, <3>2
  <2>9. TypeOK'
    BY <2>1, <2>8 DEF Typed, TypeOK, clientVars
  <2>10. BytesOK'
    BY <2>1, <2>2, <2>4, <2>6, <2>7 DEF Typed, BytesOK, clientVars
  <2>11. CountsOK'
    BY <2>1 DEF Typed, CountsOK, clientVars
  <2>12. QED
    BY <2>9, <2>10, <2>11 DEF Typed
<1>6. QED
  BY <1>2, <1>3, <1>4, <1>5 DEF ServerStep

LEMMA TypedStep == Typed /\ [Next]_vars => Typed'
<1> SUFFICES ASSUME Typed, [Next]_vars PROVE Typed'
  OBVIOUS
<1>1. CASE ServerStep
  BY <1>1, ServerTyped
<1>2. CASE Over \/ UNCHANGED vars
  <2>1. UNCHANGED vars
    BY <1>2 DEF Over
  <2>2. QED
    BY <2>1 DEF Typed, TypeOK, BytesOK, CountsOK, vars
<1>3. QED
  BY <1>1, <1>2, SendingTyped, ClientTyped DEF Next, ClientStep

(* The rooms, the windows and the counts are never exceeded: what is in a   *)
(* buffer ends behind its reader and before its room, and the kernels never *)
(* hold more than they may.                                                 *)
THEOREM TypeCorrect == Spec => []TypeOK
<1>1. Typed => TypeOK
  BY DEF Typed
<1>2. QED
  BY <1>1, InitTyped, TypedStep, PTL DEF Spec

-----------------------------------------------------------------------------
(* The replies. *)

(* What the server has answered is what the client took, what it holds, what *)
(* is on its way and what a server that has closed has lost.                *)
RepliesWhole ==
  \E lost \in Seq(Byte) :
    /\ spc # "closed" => lost = <<>>
    /\ Replies(answers) = (Replies(received) \o cinput) \o (s2c \o lost)

(* A response that is added to the replies, and what is left of them when   *)
(* the client has read, or taken, some.                                     *)
LEMMA ReplyAdded ==
  ASSUME NEW p \in Seq(Byte), NEW w \in Seq(Byte), NEW a \in Seq(Byte)
  PROVE  (p \o w) \o (a \o EndOfLine) = p \o ((w \o a) \o EndOfLine)
<1>1. EndOfLine \in Seq(Byte)
  BY EndOfLineType
<1> HIDE DEF EndOfLine
<1>2. a \o EndOfLine \in Seq(Byte)
  BY <1>1, BytesType
<1>3. (w \o a) \o EndOfLine = w \o (a \o EndOfLine)
  BY <1>1, BytesAssociative
<1>4. (p \o w) \o (a \o EndOfLine) = p \o (w \o (a \o EndOfLine))
  BY <1>2, BytesAssociative
<1>5. QED
  BY <1>3, <1>4

LEMMA ReplyTaken ==
  ASSUME NEW r \in Seq(Byte), NEW l \in Seq(Byte), NEW t \in Seq(Byte)
  PROVE  r \o (l \o t) = (r \o l) \o t
<1>1. (r \o l) \o t = r \o (l \o t)
  BY BytesAssociative
<1>2. QED
  BY <1>1

LEMMA BytesPrefix ==
  ASSUME NEW p \in Seq(Byte), NEW l \in Seq(Byte)
  PROVE  IsPrefix(p, p \o l)
<1>1. /\ p \o l \in Seq(Byte) /\ Len(p) \in Nat /\ Len(l) \in Nat
      /\ Len(p \o l) = Len(p) + Len(l)
      /\ \A i \in 1..Len(p) : (p \o l)[i] = p[i]
  BY ConcatProperties, LenProperties
<1>2. Len(p) <= Len(p \o l) /\ Len(p) \in 0..Len(p \o l) /\ Len(p) \in 0..Len(p)
  BY <1>1
<1> DEFINE whole == p \o l
<1> HIDE DEF whole
<1>3. /\ SubSeq(whole, 1, Len(p)) \in Seq(Byte) /\ Len(SubSeq(whole, 1, Len(p))) = Len(p)
      /\ \A i \in 1..Len(p) : SubSeq(whole, 1, Len(p))[i] = whole[i]
  BY <1>1, <1>2, Split DEF whole
<1>4. /\ SubSeq(p, 1, Len(p)) \in Seq(Byte) /\ Len(SubSeq(p, 1, Len(p))) = Len(p)
      /\ \A i \in 1..Len(p) : SubSeq(p, 1, Len(p))[i] = p[i]
  BY <1>2, Split
<1>5. SubSeq(p, 1, Len(p)) = SubSeq(whole, 1, Len(p))
  BY <1>1, <1>3, <1>4, SeqEqual DEF whole
<1>6. QED
  BY <1>2, <1>5 DEF IsPrefix, whole

LEMMA RepliesNext ==
  ASSUME program = "sudoku", NEW all \in Seq(Seq(Byte)), NEW a \in Seq(Byte)
  PROVE  /\ Replies(all) \in Seq(Byte)
         /\ Replies(Append(all, a)) = Replies(all) \o (a \o EndOfLine)
<1> DEFINE ended(s) == [i \in DOMAIN s |-> s[i] \o EndOfLine]
           more == Append(all, a)
<1>1. ASSUME NEW s \in Seq(Seq(Byte))
      PROVE  /\ Replies(s) = FlattenSeq(ended(s))
             /\ ended(s) \in Seq(Seq(Byte)) /\ Len(ended(s)) = Len(s)
             /\ \A i \in 1..Len(s) : ended(s)[i] = s[i] \o EndOfLine
  <2>1. DOMAIN s = 1..Len(s) /\ Len(s) \in Nat
    BY LenProperties
  <2>2. \A i \in 1..Len(s) : s[i] \o EndOfLine \in Seq(Byte)
    BY EndOfLineType, BytesType
  <2>3. ended(s) \in [1..Len(s) -> Seq(Byte)]
    BY <2>1, <2>2
  <2>4. ended(s) \in Seq(Seq(Byte)) /\ Len(ended(s)) = Len(s)
    BY <2>1, <2>3
  <2>5. \A i \in 1..Len(s) : ended(s)[i] = s[i] \o EndOfLine
    BY <2>1
  <2>6. Replies(s) = FlattenSeq(ended(s))
    BY DEF Replies, EndOfLine
  <2>7. QED
    BY <2>4, <2>5, <2>6
<1>2. Replies(all) \in Seq(Byte)
  BY <1>1, FlattenType
<1>3. /\ more \in Seq(Seq(Byte)) /\ Len(more) = Len(all) + 1 /\ Len(all) \in Nat
      /\ \A i \in 1..Len(all) : more[i] = all[i]
      /\ more[Len(all) + 1] = a
  BY AppendProperties, LenProperties
<1>4. a \o EndOfLine \in Seq(Byte)
  BY EndOfLineType, BytesType
<1>5. ended(more) = Append(ended(all), a \o EndOfLine)
  <2> DEFINE l == ended(more)
             r == Append(ended(all), a \o EndOfLine)
  <2>1. /\ l \in Seq(Seq(Byte)) /\ Len(l) = Len(all) + 1
        /\ \A i \in 1..Len(all) + 1 : l[i] = more[i] \o EndOfLine
    <3> HIDE DEF more, ended
    <3>1. /\ ended(more) \in Seq(Seq(Byte)) /\ Len(ended(more)) = Len(more)
          /\ \A i \in 1..Len(more) : ended(more)[i] = more[i] \o EndOfLine
      BY <1>1, <1>3
    <3>2. QED
      BY <1>3, <3>1
  <2>2. /\ ended(all) \in Seq(Seq(Byte)) /\ Len(ended(all)) = Len(all)
        /\ \A i \in 1..Len(all) : ended(all)[i] = all[i] \o EndOfLine
    BY <1>1
  <2> HIDE DEF ended, l
  <2>3. /\ r \in Seq(Seq(Byte)) /\ Len(r) = Len(all) + 1
        /\ \A i \in 1..Len(all) : r[i] = ended(all)[i]
        /\ r[Len(all) + 1] = a \o EndOfLine
    BY <1>4, <2>2, AppendProperties
  <2> HIDE DEF more, r
  <2>4. \A i \in 1..Len(all) + 1 : l[i] = r[i]
    <3> TAKE i \in 1..Len(all) + 1
    <3>1. CASE i \in 1..Len(all)
      BY <1>3, <2>1, <2>2, <2>3, <3>1
    <3>2. CASE i = Len(all) + 1
      BY <1>3, <2>1, <2>3, <3>2
    <3>3. QED
      BY <1>3, <3>1, <3>2
  <2>5. QED
    BY <2>1, <2>3, <2>4, SeqEqual DEF l, r
<1>6. FlattenSeq(Append(ended(all), a \o EndOfLine)) = FlattenSeq(ended(all)) \o (a \o EndOfLine)
  <2>1. ended(all) \in Seq(Seq(Byte))
    BY <1>1
  <2> HIDE DEF ended
  <2>2. QED
    BY <1>4, <2>1, FlattenAppend
<1>7. Replies(more) = Replies(all) \o (a \o EndOfLine)
  <2> HIDE DEF ended, more
  <2>1. Replies(more) = FlattenSeq(ended(more)) /\ Replies(all) = FlattenSeq(ended(all))
    BY <1>1, <1>3
  <2>2. QED
    BY <1>5, <1>6, <2>1
<1>8. QED
  BY <1>2, <1>7

LEMMA RepliesType ==
  ASSUME Typed
  PROVE  Replies(answers) \in Seq(Byte) /\ Replies(received) \in Seq(Byte)
<1>1. CASE program = "sudoku"
  <2>1. answers \in Seq(Seq(Byte)) /\ received \in Seq(Seq(Byte)) /\ <<>> \in Seq(Byte)
    BY <1>1, EmptySeq DEF Typed, BytesOK
  <2>2. QED
    BY <1>1, <2>1, RepliesNext
<1>2. CASE program # "sudoku"
  BY <1>2, EmptySeq DEF Typed, BytesOK, Replies
<1>3. QED
  BY <1>1, <1>2

(* The programs whose replies are what they answer, byte for byte. *)
LEMMA EchoReplies ==
  ASSUME program \in Echoing, NEW all
  PROVE  Replies(all) = all
  BY DEF Replies, Echoing

LEMMA RepliesStep ==
  ASSUME Typed, RepliesWhole, [Next]_vars
  PROVE  RepliesWhole'
<1> DEFINE Whole(ans, rec, ci, way) == Replies(ans) = (Replies(rec) \o ci) \o way
<1>1. /\ input \in Seq(Byte) /\ c2s \in Seq(Byte) /\ s2c \in Seq(Byte) /\ cinput \in Seq(Byte)
      /\ Replies(answers) \in Seq(Byte) /\ Replies(received) \in Seq(Byte)
      /\ Replies(received) \o cinput \in Seq(Byte)
  BY RepliesType, BytesType DEF Typed, BytesOK
<1>2. PICK lost \in Seq(Byte) :
        /\ spc # "closed" => lost = <<>>
        /\ Whole(answers, received, cinput, s2c \o lost)
  BY DEF RepliesWhole
<1>21. s2c \o lost \in Seq(Byte) /\ (spc # "closed" => s2c \o lost = s2c)
  BY <1>1, <1>2, BytesType, ConcatEmptySeq
<1>25. Replies(answers) = (Replies(received) \o cinput) \o (s2c \o lost)
  BY <1>2, Zenon
<1>24. ASSUME spc # "closed"
       PROVE  /\ Replies(answers) = (Replies(received) \o cinput) \o s2c
              /\ Whole(answers, received, cinput, s2c)
  <2>1. s2c \o lost = s2c
    BY <1>21, <1>24
  <2>2. QED
    BY <1>25, <2>1, Zenon
<1>3. ASSUME UNCHANGED program, NEW l \in Seq(Byte), spc' # "closed" => l = <<>>,
             Whole(answers', received', cinput', s2c' \o l)
      PROVE  RepliesWhole'
  BY <1>3 DEF RepliesWhole, Replies
<1> HIDE DEF Whole
<1>22. ASSUME UNCHANGED program, s2c' \in Seq(Byte), Whole(answers', received', cinput', s2c')
      PROVE  RepliesWhole'
  <2>1. <<>> \in Seq(Byte) /\ s2c' \o <<>> = s2c'
    BY <1>22, EmptySeq, ConcatEmptySeq
  <2>2. QED
    BY <1>3, <1>22, <2>1
<1>4. ASSUME UNCHANGED <<program, spc, answers, received, cinput, s2c>>
      PROVE  RepliesWhole'
  BY <1>2, <1>3, <1>4
<1>5. CASE \/ sudokuOnConnect \/ echoOnConnect \/ chargenOnConnect
           \/ onWriteComplete \/ runSend \/ handleWrite
  <2>1. UNCHANGED <<program, spc, answers, received, cinput, s2c>>
    BY <1>5 DEF sudokuOnConnect, echoOnConnect, chargenOnConnect, onWriteComplete, runSend,
                handleWrite, serverVars
  <2>2. QED
    BY <1>4, <2>1
<1>6. CASE \/ discardConnect \/ echoConnect \/ clientOnConnect
           \/ discardSend \/ echoSend \/ lineSend \/ clientReturns
           \/ handleWriteError \/ clientClose
  <2>1. UNCHANGED <<program, spc, answers, received, cinput, s2c>>
    BY <1>6 DEF discardConnect, echoConnect, clientOnConnect, threadConnect, discardSend,
                echoSend, lineSend, threadSend, clientReturns, handleWriteError, clientClose,
                serverVars
  <2>2. QED
    BY <1>4, <2>1
<1>7. CASE (\E n \in 1..Room : serverRead(n)) \/ onMessageReturns
  <2>1. UNCHANGED <<program, answers, received, cinput, s2c>> /\ spc # "closed"
    BY <1>7 DEF serverRead, onMessageReturns, clientVars
  <2>2. Whole(answers', received', cinput', s2c') /\ s2c' \in Seq(Byte) /\ UNCHANGED program
    BY <1>1, <1>24, <2>1
  <2>3. QED
    BY <1>22, <2>2
<1>23. CASE serverReadNothing
  <2>1. /\ UNCHANGED <<program, answers, received, cinput>> /\ spc = "poll" /\ spc' = "closed"
        /\ \E n \in 0..Len(s2c) : s2c' = SubSeq(s2c, 1, n)
    BY <1>23 DEF serverReadNothing, clientVars
  <2>2. PICK n \in 0..Len(s2c) : s2c' = SubSeq(s2c, 1, n)
    BY <2>1
  <2> DEFINE gone == SubSeq(s2c, n + 1, Len(s2c))
  <2>3. gone \in Seq(Byte) /\ s2c = s2c' \o gone
    BY <1>1, <2>2, Split
  <2> HIDE DEF gone
  <2>4. Whole(answers', received', cinput', s2c' \o gone)
    <3>1. Whole(answers, received, cinput, s2c)
      BY <1>24, <2>1
    <3>2. QED
      BY <2>1, <2>3, <3>1
  <2>5. QED
    BY <1>3, <2>1, <2>3, <2>4
<1>8. CASE Over \/ UNCHANGED vars
  <2>1. UNCHANGED <<program, spc, answers, received, cinput, s2c>>
    BY <1>8 DEF Over, vars
  <2>2. QED
    BY <1>4, <2>1
<1>9. CASE echoOnMessage \/ serverMessageEcho \/ serverOnMessage
  <2>1. /\ program \in Echoing /\ answers' = answers \o input /\ s2c' = s2c \o input
        /\ UNCHANGED <<program, received, cinput>> /\ spc # "closed"
    BY <1>9 DEF echoOnMessage, serverMessageEcho, serverOnMessage, SendBack, TakeAll,
                clientVars, Echoing
  <2>2. answers = (received \o cinput) \o s2c
    BY <1>24, <2>1, EchoReplies DEF Whole
  <2>3. received \o cinput \in Seq(Byte) /\ s2c' \in Seq(Byte)
    BY <1>1, <2>1, EchoReplies, BytesType
  <2>4. ((received \o cinput) \o s2c) \o input = (received \o cinput) \o (s2c \o input)
    <3>1. received \o cinput \in Seq(Byte) /\ s2c \in Seq(Byte) /\ input \in Seq(Byte)
      BY <1>1, <2>3
    <3>2. QED
      BY <3>1, BytesAssociative
  <2>5. Whole(answers', received', cinput', s2c')
    BY <2>1, <2>2, <2>4, EchoReplies DEF Whole
  <2>6. QED
    BY <1>22, <2>1, <2>3, <2>5
<1>10. CASE chargenOnMessage \/ serverMessageDiscard
  <2>1. /\ program \notin Echoing \cup {"sudoku"} /\ spc # "closed"
        /\ UNCHANGED <<program, received, cinput, s2c>>
    BY <1>10 DEF chargenOnMessage, serverMessageDiscard, Discard, TakeAll, clientVars, Echoing
  <2>2. QED
    BY <1>1, <1>22, <1>24, <2>1 DEF Whole, Replies
<1>11. CASE solveSudoku \/ badLength
  <2> DEFINE c == findCRLF(input)
             req == SubSeq(input, 1, c - 1)
  <2>1. /\ HasRequest /\ spc # "closed"
        /\ \E a \in {req, ErrorLength} :
             s2c' = (s2c \o a) \o EndOfLine /\ answers' = Append(answers, a)
        /\ UNCHANGED <<program, received, cinput>>
    BY <1>11 DEF solveSudoku, badLength, EndOfLine, clientVars, HasRequest
  <2>2. req \in Seq(Byte) /\ program = "sudoku"
    BY <2>1, Cut DEF HasRequest
  <2>3. ErrorLength \in Seq(Byte)
    <3>1. <<0, 3>> \in Byte
      BY DEF Byte
    <3>2. QED
      BY <3>1 DEF ErrorLength
  <2> HIDE DEF c, req
  <2>4. PICK a \in Seq(Byte) : s2c' = (s2c \o a) \o EndOfLine /\ answers' = Append(answers, a)
    BY <2>1, <2>2, <2>3
  <2>5. answers \in Seq(Seq(Byte))
    BY <2>2 DEF Typed, BytesOK
  <2>6. Replies(answers') = Replies(answers) \o (a \o EndOfLine)
    BY <2>2, <2>4, <2>5, RepliesNext
  <2>7. (Replies(received) \o cinput) \o ((s2c \o a) \o EndOfLine)
          = ((Replies(received) \o cinput) \o s2c) \o (a \o EndOfLine)
    <3>1. Replies(received) \o cinput \in Seq(Byte) /\ s2c \in Seq(Byte) /\ a \in Seq(Byte)
      BY <1>1
    <3>2. QED
      BY <3>1, ReplyAdded, Zenon
  <2>8. Whole(answers', received', cinput', s2c')
    BY <1>24, <2>1, <2>4, <2>6, <2>7 DEF Whole
  <2>9. s2c' \in Seq(Byte)
    BY <1>1, <2>4, EndOfLineType, BytesType
  <2>10. QED
    BY <1>22, <2>1, <2>8, <2>9
<1>12. ASSUME NEW n \in 1..Len(s2c), clientRead(n) PROVE RepliesWhole'
  <2> DEFINE first == SubSeq(s2c, 1, n)
             rest == SubSeq(s2c, n + 1, Len(s2c))
  <2>1. cinput' = cinput \o first /\ s2c' = rest /\ UNCHANGED <<program, spc, answers, received>>
    BY <1>12 DEF clientRead, serverVars
  <2>2. first \in Seq(Byte) /\ rest \in Seq(Byte) /\ s2c = first \o rest
    <3>1. n \in 0..Len(s2c)
      BY <1>1, LenProperties
    <3>2. QED
      BY <1>1, <3>1, Split
  <2> HIDE DEF first, rest
  <2>3. Replies(answers) = (Replies(received) \o (cinput \o first)) \o (rest \o lost)
    <3> DEFINE p == Replies(received) \o cinput
               left == rest \o lost
    <3>1. p \in Seq(Byte) /\ first \in Seq(Byte) /\ left \in Seq(Byte)
      BY <1>1, <2>2, BytesType
    <3>7. s2c \o lost = first \o left
      <4>1. (first \o rest) \o lost = first \o (rest \o lost)
        BY <1>2, <2>2, BytesAssociative
      <4>2. QED
        BY <2>2, <4>1
    <3>2. Replies(received) \in Seq(Byte) /\ cinput \in Seq(Byte) /\ first \in Seq(Byte)
      BY <1>1, <2>2
    <3>3. p \o first = Replies(received) \o (cinput \o first)
      BY <3>2, BytesAssociative, Zenon
    <3> HIDE DEF p, left
    <3>4. p \o (first \o left) = (p \o first) \o left
      BY <3>1, ReplyTaken, Zenon
    <3>5. QED
      BY <1>25, <3>3, <3>4, <3>7 DEF p, left
  <2>4. Whole(answers', received', cinput', s2c' \o lost)
    BY <2>1, <2>3 DEF Whole
  <2>5. QED
    BY <1>2, <1>3, <2>1, <2>4
<1>13. CASE echoClientOnMessage \/ clientRecvEcho \/ clientOnMessage
  <2>1. /\ program \in Echoing /\ received' = received \o cinput /\ cinput' = <<>>
        /\ UNCHANGED <<program, spc, answers, s2c>>
    BY <1>13 DEF echoClientOnMessage, clientRecvEcho, clientOnMessage, TakeEcho, serverVars,
                 Echoing
  <2>2. received \o cinput \in Seq(Byte)
    BY <1>1, <2>1, EchoReplies
  <2>3. (received \o cinput) \o <<>> = received \o cinput
    BY <2>2, ConcatEmptySeq
  <2>4. Whole(answers', received', cinput', s2c' \o lost)
    BY <1>2, <2>1, <2>3, EchoReplies DEF Whole
  <2>5. QED
    BY <1>2, <1>3, <2>1, <2>4
<1>14. CASE response
  <2> DEFINE c == findCRLF(cinput)
             line == SubSeq(cinput, 1, c - 1)
             rest == SubSeq(cinput, c + 2, Len(cinput))
  <2>1. /\ program = "sudoku" /\ c # 0
        /\ received' = Append(received, line) /\ cinput' = rest
        /\ UNCHANGED <<program, spc, answers, s2c>>
    BY <1>14 DEF response, serverVars
  <2>2. line \in Seq(Byte) /\ rest \in Seq(Byte) /\ cinput = (line \o EndOfLine) \o rest
    <3>1. c \in 1..Len(cinput) - 1 /\ cinput[c] = CR /\ cinput[c + 1] = LF
      BY <1>1, <2>1, FoundCRLF
    <3> HIDE DEF c
    <3>2. QED
      BY <1>1, <3>1, CutLine
  <2> HIDE DEF c, line, rest
  <2>3. Replies(received') = Replies(received) \o (line \o EndOfLine)
    BY <2>1, <2>2, RepliesNext DEF Typed, BytesOK
  <2>4. line \o EndOfLine \in Seq(Byte)
    BY <2>2, EndOfLineType, BytesType
  <2>5. Replies(answers) = ((Replies(received) \o (line \o EndOfLine)) \o rest) \o (s2c \o lost)
    <3>1. /\ Replies(received) \in Seq(Byte) /\ line \o EndOfLine \in Seq(Byte)
          /\ rest \in Seq(Byte)
      BY <1>1, <2>2, <2>4
    <3>2. Replies(received) \o ((line \o EndOfLine) \o rest)
            = (Replies(received) \o (line \o EndOfLine)) \o rest
      BY <3>1, ReplyTaken, Zenon
    <3>3. QED
      BY <1>2, <2>2, <3>2 DEF Whole
  <2>6. Whole(answers', received', cinput', s2c' \o lost)
    BY <2>1, <2>3, <2>5 DEF Whole
  <2>7. QED
    BY <1>2, <1>3, <2>1, <2>6
<1>15. QED
  BY <1>5, <1>6, <1>7, <1>8, <1>9, <1>10, <1>11, <1>12, <1>13, <1>14, <1>23
     DEF Next, ClientStep, ServerStep

-----------------------------------------------------------------------------
(* The requests. *)

(* The messages of number 1 to g, as the server has them: what it took or   *)
(* answered, what it holds and what is on its way.                          *)
Asked(g, all, held, way) ==
  program \notin {"chargen", "lineThread"} =>
    Messages(g) =
      (IF program = "sudoku" THEN Messages(Len(all)) ELSE all) \o held \o way

RequestsWhole == Asked(Gone, answers, input, c2s)

(* There is no answer without a request. *)
AnswersOK == program = "sudoku" => Len(answers) <= sends

RequestsOK == RequestsWhole /\ AnswersOK /\ AnswersMatch

LEMMA AskedKept ==
  ASSUME UNCHANGED <<program, script>>, Asked(Gone', answers', input', c2s')
  PROVE  RequestsWhole'
<1> DEFINE M(p, s, n) ==
             FlattenSeq([i \in 1..n |-> [j \in 1..s[i] |-> <<i, j>>]
                                          \o IF p = "sudoku" THEN <<CR, LF>> ELSE <<>>])
           F(p, s, g, all, held, way) ==
             p \notin {"chargen", "lineThread"} =>
               M(p, s, g) = (IF p = "sudoku" THEN M(p, s, Len(all)) ELSE all) \o held \o way
<1>1. F(program, script, Gone', answers', input', c2s')
  BY DEF Asked, Messages, Message
<1>2. F(program', script', Gone', answers', input', c2s') => RequestsWhole'
  BY DEF RequestsWhole, Asked, Messages, Message
<1> HIDE DEF F
<1>3. QED
  BY <1>1, <1>2

LEMMA MatchKept ==
  ASSUME UNCHANGED <<program, script, answers>>, AnswersMatch
  PROVE  AnswersMatch'
  BY DEF AnswersMatch, Good

(* Chargen's bytes are doubled, and the line thread's overwritten. *)
LEMMA NothingAsked ==
  ASSUME program \in {"chargen", "lineThread"}, UNCHANGED program
  PROVE  RequestsOK'
  BY DEF RequestsOK, RequestsWhole, Asked, AnswersOK, AnswersMatch

LEMMA RequestsKept ==
  ASSUME RequestsOK, UNCHANGED <<program, script, answers, input, c2s>>,
         Gone' = Gone, sends \in Nat, sends' \in Nat, sends <= sends', Len(answers) \in Nat
  PROVE  RequestsOK'
<1>1. RequestsWhole'
  BY AskedKept DEF RequestsOK, RequestsWhole
<1>2. AnswersMatch'
  BY MatchKept DEF RequestsOK
<1>3. AnswersOK'
  BY DEF RequestsOK, AnswersOK
<1>4. QED
  BY <1>1, <1>2, <1>3 DEF RequestsOK

LEMMA GoneType ==
  ASSUME Typed
  PROVE  /\ Gone \in Nat /\ Gone <= Len(script) /\ sends \in Nat /\ tasks \in Nat
         /\ Len(script) \in Nat /\ script \in Seq(Nat) /\ sends <= Len(script)
         /\ Len(answers) \in Nat
<1>1. /\ script \in Seq(Nat) /\ Len(script) \in Nat /\ sends \in Nat /\ sends <= Len(script)
      /\ tasks \in Nat
  BY ScriptType DEF Typed
<1>2. program \in Threads => tasks <= sends
  BY DEF Typed, CountsOK
<1>3. Gone \in Nat /\ Gone <= Len(script)
  BY <1>1, <1>2 DEF Gone
<1>4. Len(answers) \in Nat
  <2>1. answers \in Seq(Seq(Byte)) \/ answers \in Seq(Byte)
    BY DEF Typed, BytesOK
  <2>2. QED
    BY <2>1, LenProperties
<1>5. QED
  BY <1>1, <1>3, <1>4

Done == IF program = "sudoku" THEN Messages(Len(answers)) ELSE answers

LEMMA DoneType ==
  ASSUME Typed, RequestsOK
  PROVE  /\ Done \in Seq(Byte) /\ input \in Seq(Byte) /\ c2s \in Seq(Byte)
         /\ Done \o input \in Seq(Byte)
         /\ program \notin {"chargen", "lineThread"} => Messages(Gone) = (Done \o input) \o c2s
<1>1. input \in Seq(Byte) /\ c2s \in Seq(Byte)
  BY DEF Typed, BytesOK
<1>2. Done \in Seq(Byte)
  <2>1. CASE program = "sudoku"
    <3>1. Len(answers) \in Nat /\ Len(answers) <= Len(script) /\ script \in Seq(Nat)
      BY <2>1, GoneType DEF RequestsOK, AnswersOK
    <3>2. Messages(Len(answers)) \in Seq(Byte)
      BY <3>1, MessagesNext
    <3>3. QED
      BY <2>1, <3>2 DEF Done
  <2>2. CASE program # "sudoku"
    BY <2>2 DEF Done, Typed, BytesOK
  <2>3. QED
    BY <2>1, <2>2
<1>3. Done \o input \in Seq(Byte)
  BY <1>1, <1>2, BytesType
<1>4. QED
  BY <1>1, <1>2, <1>3 DEF RequestsOK, RequestsWhole, Asked, Done

(* The next bytes are sent. *)
LEMMA RequestsSent ==
  ASSUME Typed, RequestsOK, program \notin {"chargen", "lineThread"},
         NEW bytes \in Seq(Byte), sendInloop(bytes),
         UNCHANGED <<program, script, answers, input>>,
         Messages(Gone') = Messages(Gone) \o bytes, sends' \in Nat, sends <= sends'
  PROVE  RequestsOK'
<1> DEFINE p == Done \o input
<1>1. p \in Seq(Byte) /\ c2s \in Seq(Byte) /\ bytes \in Seq(Byte)
  BY DoneType
<1>2. Messages(Gone) = p \o c2s
  BY DoneType
<1>3. c2s' = c2s \o bytes
  BY SendTyped
<1> HIDE DEF p
<1>4. (p \o c2s) \o bytes = p \o (c2s \o bytes)
  BY <1>1, BytesAssociative
<1>5. Messages(Gone') = p \o c2s'
  BY <1>2, <1>3, <1>4
<1>6. Asked(Gone', answers', input', c2s')
  BY <1>5 DEF Asked, p, Done
<1>7. RequestsWhole'
  BY <1>6, AskedKept
<1>8. AnswersMatch'
  BY MatchKept DEF RequestsOK
<1>9. AnswersOK'
  BY GoneType DEF RequestsOK, AnswersOK
<1>10. QED
  BY <1>7, <1>8, <1>9 DEF RequestsOK

(* The server reads. *)
LEMMA RequestsRead ==
  ASSUME Typed, RequestsOK, NEW n \in 1..Room, serverRead(n)
  PROVE  RequestsOK'
<1> DEFINE first == SubSeq(c2s, 1, n)
           rest == SubSeq(c2s, n + 1, Len(c2s))
           p == Done \o input
<1>1. /\ input' = input \o first /\ c2s' = rest /\ n \in 1..Len(c2s) - waiting
      /\ UNCHANGED <<program, script, answers, sends, tasks>>
  BY DEF serverRead, clientVars
<1>2. c2s \in Seq(Byte) /\ n \in 0..Len(c2s)
  <2>1. c2s \in Seq(Byte) /\ Len(c2s) \in Nat /\ waiting \in 0..Len(c2s)
    BY LenProperties DEF Typed, TypeOK, BytesOK
  <2>2. QED
    BY <1>1, <2>1
<1>3. first \in Seq(Byte) /\ rest \in Seq(Byte) /\ c2s = first \o rest
  BY <1>2, Split
<1> HIDE DEF first, rest
<1>4. Done \in Seq(Byte) /\ input \in Seq(Byte) /\ first \in Seq(Byte)
  BY <1>3, DoneType
<1>5. p \o first = Done \o (input \o first)
  BY <1>4, BytesAssociative, Zenon
<1>6. p \in Seq(Byte) /\ first \in Seq(Byte) /\ rest \in Seq(Byte)
  BY <1>3, DoneType
<1>7. program \notin {"chargen", "lineThread"} => Messages(Gone) = p \o (first \o rest)
  BY <1>3, DoneType
<1> HIDE DEF p
<1>8. p \o (first \o rest) = (p \o first) \o rest
  BY <1>6, ReplyTaken, Zenon
<1>9. Gone' = Gone
  BY <1>1 DEF Gone
<1>10. Asked(Gone', answers', input', c2s')
  BY <1>1, <1>5, <1>7, <1>8, <1>9 DEF Asked, Done
<1>11. RequestsWhole'
  BY <1>1, <1>10, AskedKept
<1>12. AnswersMatch'
  BY <1>1, MatchKept DEF RequestsOK
<1>13. AnswersOK'
  BY <1>1 DEF RequestsOK, AnswersOK
<1>14. QED
  BY <1>11, <1>12, <1>13 DEF RequestsOK

(* A server that is not Sudoku's takes all it holds. *)
LEMMA RequestsTaken ==
  ASSUME Typed, RequestsOK, TakeAll, program # "sudoku", Gone' = Gone,
         UNCHANGED <<program, script, c2s>>
  PROVE  RequestsOK'
<1> DEFINE p == Done \o input
<1>1. p \in Seq(Byte) /\ (program \notin {"chargen", "lineThread"} => Messages(Gone) = p \o c2s)
  BY DoneType
<1>2. answers' = p /\ input' = <<>>
  BY DEF TakeAll, Done
<1> HIDE DEF p
<1>3. p \o <<>> = p
  BY <1>1, ConcatEmptySeq
<1>4. Asked(Gone', answers', input', c2s')
  BY <1>1, <1>2, <1>3 DEF Asked
<1>5. RequestsWhole'
  BY <1>4, AskedKept
<1>6. QED
  BY <1>5 DEF RequestsOK, AnswersOK, AnswersMatch

(* The server finds a request: it is the next one, and whole. *)
LEMMA RequestFound ==
  ASSUME Typed, RequestsOK, HasRequest
  PROVE  LET a == Len(answers)
             c == findCRLF(input)
             left == SubSeq(input, c + 2, Len(input)) IN
         /\ a \in Nat /\ a < sends /\ c - 1 = script[a + 1]
         /\ SubSeq(input, 1, c - 1) = Own(a + 1) /\ Len(SubSeq(input, 1, c - 1)) = c - 1
         /\ Messages(sends) = (Messages(a + 1) \o left) \o c2s
<1> DEFINE a == Len(answers)
           c == findCRLF(input)
           left == SubSeq(input, c + 2, Len(input))
           done == Messages(a)
           m == Message(a + 1)
<1>1. /\ program = "sudoku" /\ c # 0 /\ input \in Seq(Byte) /\ c2s \in Seq(Byte)
      /\ Len(input) \in Nat /\ Len(input) > 0
  <2>1. input \in Seq(Byte) /\ c2s \in Seq(Byte)
    BY DEF Typed, BytesOK
  <2>2. kCell \in Nat /\ Len(input) \in Nat
    BY <2>1, LenProperties, ExamplesAssumption
  <2>3. QED
    BY <2>1, <2>2 DEF HasRequest
<1>2. /\ a \in Nat /\ a <= sends /\ sends \in Nat /\ sends <= Len(script)
      /\ script \in Seq(Nat) /\ Len(script) \in Nat
  BY <1>1, GoneType DEF RequestsOK, AnswersOK
<1>3. done \in Seq(Byte) /\ Messages(sends) = (done \o input) \o c2s
  <2>1. Done = done /\ Gone = sends
    BY <1>1 DEF Done, Gone, Threads
  <2>2. QED
    BY <1>1, <2>1, DoneType
<1> HIDE DEF c, done, left, a
<1>4. input \o c2s \in Seq(Byte) /\ Len(input \o c2s) = Len(input) + Len(c2s)
  BY <1>1, BytesType
<1>5. Messages(sends) = done \o (input \o c2s)
  BY <1>1, <1>3, BytesAssociative
<1>6. a < sends
  <2>1. SUFFICES ASSUME a = sends PROVE FALSE
    BY <1>2
  <2>2. done = done \o (input \o c2s)
    BY <1>5, <2>1 DEF done, a
  <2>3. done \o <<>> = done /\ <<>> \in Seq(Byte) /\ Len(<<>>) = 0
    BY <1>3, ConcatEmptySeq, EmptySeq
  <2>4. input \o c2s = <<>>
    BY <1>3, <1>4, <2>2, <2>3, BytesCancel
  <2>5. Len(c2s) \in Nat
    BY <1>1, LenProperties
  <2>6. QED
    BY <1>1, <1>4, <2>3, <2>4, <2>5
<1>7. a + 1 \in 1..Len(script)
  BY <1>2, <1>6
<1>8. PICK rest \in Seq(Byte) : Messages(sends) = done \o (m \o rest)
  BY <1>2, <1>6, MessagesBegin DEF done
<1>9. m \in Seq(Byte)
  BY <1>2, <1>7, MessageIs
<1>10. Messages(a + 1) = done \o m
  <2>1. a <= Len(script) /\ a < Len(script)
    BY <1>2, <1>6
  <2>2. QED
    BY <1>2, <2>1, MessagesNext DEF done
<1> HIDE DEF m
<1>11. m \o rest \in Seq(Byte)
  BY <1>9, BytesType
<1>12. input \o c2s = m \o rest
  BY <1>3, <1>4, <1>5, <1>8, <1>11, BytesCancel
<1>13. /\ c = script[a + 1] + 1 /\ SubSeq(input, 1, c - 1) = Own(a + 1)
       /\ left \o c2s = rest
  BY <1>1, <1>2, <1>7, <1>12, FirstRequest DEF c, m, left
<1>14. /\ c - 1 = script[a + 1] /\ Len(Own(a + 1)) = c - 1
  BY <1>2, <1>7, <1>13, OwnType
<1>15. left \in Seq(Byte) /\ Messages(a + 1) \in Seq(Byte)
  <2>1. left \in Seq(Byte)
    BY <1>1, Cut DEF left, c
  <2>2. QED
    BY <1>3, <1>9, <1>10, <2>1, BytesType
<1>16. done \o (m \o rest) = (done \o m) \o rest
  BY <1>3, <1>8, <1>9, ReplyTaken
<1>17. Messages(sends) = Messages(a + 1) \o (left \o c2s)
  BY <1>8, <1>10, <1>13, <1>16
<1>18. Messages(a + 1) \o (left \o c2s) = (Messages(a + 1) \o left) \o c2s
  BY <1>1, <1>15, ReplyTaken
<1>19. QED
  BY <1>2, <1>6, <1>13, <1>14, <1>17, <1>18 DEF a, c, left

LEMMA RequestsAnswered ==
  ASSUME Typed, RequestsOK, solveSudoku \/ badLength
  PROVE  RequestsOK'
<1> DEFINE a == Len(answers)
           c == findCRLF(input)
           req == SubSeq(input, 1, c - 1)
           left == SubSeq(input, c + 2, Len(input))
           ans == IF script[a + 1] = kCell THEN req ELSE ErrorLength
<1>1. HasRequest /\ program = "sudoku"
  BY DEF solveSudoku, badLength, HasRequest
<1>2. /\ a \in Nat /\ a < sends /\ c - 1 = script[a + 1]
      /\ req = Own(a + 1) /\ Len(req) = c - 1
      /\ Messages(sends) = (Messages(a + 1) \o left) \o c2s
  BY <1>1, RequestFound
<1>3. /\ answers' = Append(answers, ans) /\ input' = left
      /\ UNCHANGED <<program, script, sends, tasks, c2s>>
  <2> HIDE DEF a
  <2>1. CASE solveSudoku
    BY <1>2, <2>1 DEF solveSudoku, Take, clientVars
  <2>2. CASE badLength
    BY <1>2, <2>2 DEF badLength, Take, clientVars
  <2>3. QED
    BY <2>1, <2>2
<1>4. answers \in Seq(Seq(Byte)) /\ ans \in Seq(Byte)
  <2>1. answers \in Seq(Seq(Byte)) /\ input \in Seq(Byte)
    BY <1>1 DEF Typed, BytesOK
  <2>2. req \in Seq(Byte)
    BY <1>1, Cut DEF HasRequest
  <2>3. ErrorLength \in Seq(Byte)
    <3>1. <<0, 3>> \in Byte
      BY DEF Byte
    <3>2. QED
      BY <3>1 DEF ErrorLength
  <2>4. QED
    BY <2>1, <2>2, <2>3
<1> HIDE DEF c, req, left, ans
<1>5. /\ Len(answers') = a + 1 /\ DOMAIN answers' = 1..a + 1 /\ DOMAIN answers = 1..a
      /\ \A i \in 1..a : answers'[i] = answers[i]
      /\ answers'[a + 1] = ans
  <2>1. /\ Append(answers, ans) \in Seq(Seq(Byte)) /\ Len(Append(answers, ans)) = a + 1
        /\ \A i \in 1..a : Append(answers, ans)[i] = answers[i]
        /\ Append(answers, ans)[a + 1] = ans
    BY <1>4, AppendProperties
  <2>2. DOMAIN Append(answers, ans) = 1..a + 1 /\ DOMAIN answers = 1..a
    BY <1>4, <2>1, LenProperties
  <2>3. QED
    BY <1>3, <2>1, <2>2
<1>6. RequestsWhole'
  <2>1. Gone' = sends
    BY <1>1, <1>3 DEF Gone, Threads
  <2>2. Messages(sends) = (Messages(Len(answers')) \o input') \o c2s'
    BY <1>2, <1>3, <1>5
  <2>3. Asked(Gone', answers', input', c2s')
    BY <1>1, <2>1, <2>2 DEF Asked
  <2>4. QED
    BY <1>3, <2>3, AskedKept
<1>7. AnswersOK'
  <2>1. sends \in Nat
    BY GoneType
  <2>2. QED
    BY <1>2, <1>3, <1>5, <2>1 DEF AnswersOK
<1>8. AnswersMatch'
  <2> DEFINE Expected(i) == IF script[i] = kCell THEN [j \in 1..kCell |-> <<i, j>>]
                            ELSE ErrorLength
  <2>1. \A i \in 1..a : answers[i] = Expected(i)
    BY <1>1, <1>5 DEF RequestsOK, AnswersMatch, Good
  <2>2. ans = Expected(a + 1)
    BY <1>2 DEF ans, Own
  <2> HIDE DEF Expected
  <2>3. \A i \in 1..a + 1 : answers'[i] = Expected(i)
    BY <1>2, <1>5, <2>1, <2>2
  <2>4. QED
    BY <1>3, <1>5, <2>3 DEF AnswersMatch, Good, Expected
<1>9. QED
  BY <1>6, <1>7, <1>8 DEF RequestsOK

LEMMA RequestsStep ==
  ASSUME Typed, Typed', RequestsOK, [Next]_vars
  PROVE  RequestsOK'
<1>1. /\ Gone \in Nat /\ Gone <= Len(script) /\ sends \in Nat /\ tasks \in Nat
      /\ Len(script) \in Nat /\ script \in Seq(Nat) /\ sends <= Len(script)
      /\ Len(answers) \in Nat
  BY GoneType
<1>2. CASE sudokuOnConnect
  <2> DEFINE bytes == FlattenSeq([i \in DOMAIN script |-> Message(i)])
  <2>1. /\ program = "sudoku" /\ cpc = "connect" /\ sends' = Len(script) /\ sendInloop(bytes)
        /\ UNCHANGED <<program, script, tasks, answers, input>>
    BY <1>2 DEF sudokuOnConnect, serverVars
  <2>2. bytes = Messages(Len(script))
    BY AllMessages DEF Typed
  <2>3. sends = 0 /\ Gone = 0 /\ Gone' = Len(script)
    BY <2>1 DEF Typed, CountsOK, Gone, Threads
  <2>4. bytes \in Seq(Byte) /\ Messages(0) = <<>>
    BY <1>1, <2>2, MessagesNext
  <2> HIDE DEF bytes
  <2>5. <<>> \o bytes = bytes
    BY <2>4, ConcatEmptySeq
  <2>6. Messages(Gone') = Messages(Gone) \o bytes
    BY <2>2, <2>3, <2>4, <2>5
  <2>7. program \notin {"chargen", "lineThread"} /\ sends' \in Nat /\ sends <= sends'
    BY <1>1, <2>1
  <2>8. QED
    BY <2>1, <2>4, <2>6, <2>7, RequestsSent
<1>3. CASE echoOnConnect
  <2>1. /\ program = "echo" /\ cpc = "connect" /\ sends' = 1 /\ sendInloop(Message(1))
        /\ UNCHANGED <<program, script, tasks, answers, input>>
    BY <1>3 DEF echoOnConnect, serverVars
  <2>2. sends = 0 /\ Gone = 0 /\ Gone' = 1
    BY <2>1 DEF Typed, CountsOK, Gone, Threads
  <2>3. 0 \in Nat /\ 0 <= Len(script) /\ 0 < Len(script) /\ 1 \in 1..Len(script)
    BY <1>1, ExamplesAssumption DEF Typed, TypeOK
  <2>4. Message(1) \in Seq(Byte)
    BY <1>1, <2>3, MessageIs
  <2>5. Messages(0 + 1) = Messages(0) \o Message(0 + 1)
    BY <1>1, <2>3, MessagesNext
  <2>6. Messages(Gone') = Messages(Gone) \o Message(1)
    BY <2>2, <2>5
  <2>7. program \notin {"chargen", "lineThread"} /\ sends' \in Nat /\ sends <= sends'
    BY <2>1, <2>2
  <2>8. QED
    BY <2>1, <2>4, <2>6, <2>7, RequestsSent
<1>4. CASE runSend /\ program # "lineThread"
  <2> DEFINE next == Message(sends - tasks + 1)
  <2>1. /\ program \in Threads /\ sendInloop(next) /\ tasks > 0 /\ tasks' = tasks - 1
        /\ UNCHANGED <<program, script, sends, answers, input>>
    BY <1>4 DEF runSend, Found, serverVars
  <2>2. /\ Gone = sends - tasks /\ Gone' = sends - (tasks - 1) /\ tasks <= sends
    BY <2>1 DEF Gone, Typed, CountsOK
  <2>3. /\ Gone' = Gone + 1 /\ next = Message(Gone + 1) /\ Gone < Len(script)
        /\ Gone + 1 \in 1..Len(script)
    BY <1>1, <2>1, <2>2
  <2>4. next \in Seq(Byte)
    BY <1>1, <2>3, MessageIs
  <2>5. Messages(Gone + 1) = Messages(Gone) \o Message(Gone + 1)
    BY <1>1, <2>3, MessagesNext
  <2>6. program \notin {"chargen", "lineThread"} /\ sends' \in Nat /\ sends <= sends'
    BY <1>1, <1>4, <2>1 DEF Threads
  <2>7. Messages(Gone') = Messages(Gone) \o next
    BY <2>3, <2>5
  <2> HIDE DEF next
  <2>8. QED
    BY <2>1, <2>4, <2>6, <2>7, RequestsSent
<1>5. CASE \/ chargenOnConnect \/ onWriteComplete
           \/ runSend /\ program = "lineThread"
           \/ chargenOnMessage \/ serverOnMessage
  <2>1. program \in {"chargen", "lineThread"} /\ UNCHANGED program
    BY <1>5 DEF chargenOnConnect, onWriteComplete, runSend, chargenOnMessage, serverOnMessage,
                SendBack, Discard
  <2>2. QED
    BY <2>1, NothingAsked
<1>6. ASSUME UNCHANGED <<program, script, sends, tasks, answers, input, c2s>>
      PROVE  RequestsOK'
  <2>1. Gone' = Gone /\ sends' \in Nat /\ sends <= sends'
    BY <1>1, <1>6 DEF Gone
  <2>2. QED
    BY <1>1, <1>6, <2>1, RequestsKept
<1>7. CASE \/ discardConnect \/ echoConnect \/ clientOnConnect
           \/ serverReadNothing \/ onMessageReturns
           \/ response \/ clientReturns \/ handleWriteError \/ clientClose
           \/ Over \/ UNCHANGED vars
  <2>1. UNCHANGED <<program, script, sends, tasks, answers, input, c2s>>
    BY <1>7 DEF discardConnect, echoConnect, clientOnConnect, threadConnect, serverReadNothing,
                onMessageReturns, response, clientReturns, handleWriteError, clientClose, Over,
                vars, clientVars, serverVars
  <2>2. QED
    BY <1>6, <2>1
<1>8. CASE \/ echoClientOnMessage \/ clientRecvEcho \/ clientOnMessage
           \/ \E n \in 1..Len(s2c) : clientRead(n)
  <2>1. UNCHANGED <<program, script, sends, tasks, answers, input, c2s>>
    BY <1>8 DEF echoClientOnMessage, clientRecvEcho, clientOnMessage, TakeEcho, clientRead,
                serverVars
  <2>2. QED
    BY <1>6, <2>1
<1>9. CASE handleWrite
  <2>1. CASE program = "chargen"
    BY <1>9, <2>1, NothingAsked DEF handleWrite
  <2>2. CASE program # "chargen"
    <3>1. UNCHANGED <<program, script, sends, tasks, answers, input, c2s>>
      BY <1>1, <1>9, <2>2 DEF handleWrite, Told, serverVars
    <3>2. QED
      BY <1>6, <3>1
  <2>3. QED
    BY <2>1, <2>2
<1>10. CASE discardSend \/ echoSend \/ lineSend
  <2>1. /\ program \in Threads /\ sends' = sends + 1 /\ tasks' = tasks + 1
        /\ UNCHANGED <<program, script, answers, input, c2s>>
    BY <1>10 DEF discardSend, echoSend, lineSend, threadSend, Threads, serverVars
  <2>2. Gone' = Gone
    BY <1>1, <2>1 DEF Gone
  <2>3. sends' \in Nat /\ sends <= sends'
    BY <1>1, <2>1
  <2>4. QED
    BY <1>1, <2>1, <2>2, <2>3, RequestsKept
<1>11. CASE \E n \in 1..Room : serverRead(n)
  BY <1>11, RequestsRead
<1>12. CASE echoOnMessage \/ serverMessageEcho \/ serverMessageDiscard
  <2>1. /\ TakeAll /\ program # "sudoku"
        /\ UNCHANGED <<program, script, c2s, sends, tasks>>
    BY <1>12 DEF echoOnMessage, serverMessageEcho, serverMessageDiscard, SendBack, Discard,
                 clientVars
  <2>2. Gone' = Gone
    BY <2>1 DEF Gone
  <2>3. QED
    BY <2>1, <2>2, RequestsTaken
<1>13. CASE solveSudoku \/ badLength
  BY <1>13, RequestsAnswered
<1>14. QED
  BY <1>2, <1>3, <1>4, <1>5, <1>7, <1>8, <1>9, <1>10, <1>11, <1>12, <1>13
     DEF Next, ClientStep, ServerStep

LEMMA InitWhole == Init => RequestsOK /\ RepliesWhole
<1> SUFFICES ASSUME Init PROVE RequestsOK /\ RepliesWhole
  OBVIOUS
<1>1. Typed
  BY InitTyped
<1>2. <<>> \in Seq(Byte) /\ <<>> \o <<>> = <<>> /\ Len(<<>>) = 0
  BY EmptySeq, ConcatEmptySeq
<1>3. /\ sends = 0 /\ tasks = 0 /\ answers = <<>> /\ received = <<>>
      /\ input = <<>> /\ cinput = <<>> /\ c2s = <<>> /\ s2c = <<>>
  BY DEF Init
<1>4. Gone = 0 /\ Messages(0) = <<>>
  <2>1. Messages(0) = <<>>
    <3>1. script \in Seq(Nat) /\ 0 \in Nat /\ 0 <= Len(script)
      BY <1>1, GoneType
    <3>2. QED
      BY <3>1, MessagesNext
  <2>2. QED
    BY <1>3, <2>1 DEF Gone
<1>5. RequestsWhole
  BY <1>2, <1>3, <1>4 DEF RequestsWhole, Asked
<1>6. AnswersOK /\ AnswersMatch
  BY <1>2, <1>3 DEF AnswersOK, AnswersMatch
<1>7. RepliesWhole
  <2>1. Replies(answers) \in Seq(Byte) /\ Replies(received) = Replies(answers)
    BY <1>1, <1>3, RepliesType
  <2> DEFINE r == Replies(answers)
  <2> HIDE DEF r
  <2>2. (r \o <<>>) \o <<>> = r
    BY <2>1, ConcatEmptySeq DEF r
  <2>3. QED
    BY <1>2, <1>3, <2>1, <2>2 DEF RepliesWhole, r
<1>8. QED
  BY <1>5, <1>6, <1>7 DEF RequestsOK

(* The streams of all the examples but the generator: what the server took, *)
(* holds and has to come are the requests in their order, and what the      *)
(* client took, holds and has to come are the replies, however TCP cuts     *)
(* them.  The line thread's own bytes are overwritten, and only their echo  *)
(* is whole.  Of the replies of a server that has closed only the last can  *)
(* be lost.                                                                 *)
THEOREM StreamsStayWhole == Spec => []StreamsAreWhole
<1>1. Init => Typed /\ RequestsOK /\ RepliesWhole
  BY InitTyped, InitWhole
<1>2. Typed /\ RequestsOK /\ RepliesWhole /\ [Next]_vars
        => (Typed /\ RequestsOK /\ RepliesWhole)'
  BY TypedStep, RequestsStep, RepliesStep
<1>3. Typed /\ RequestsOK /\ RepliesWhole => StreamsAreWhole
  <2> SUFFICES ASSUME Typed, RequestsOK, RepliesWhole PROVE StreamsAreWhole
    OBVIOUS
  <2> DEFINE came == Replies(received) \o cinput \o s2c
  <2>1. /\ came \in Seq(Byte) /\ Replies(received) \o cinput \in Seq(Byte)
        /\ s2c \in Seq(Byte)
    BY RepliesType, BytesType DEF Typed, BytesOK
  <2>2. PICK lost \in Seq(Byte) :
          /\ spc # "closed" => lost = <<>>
          /\ Replies(answers) = (Replies(received) \o cinput) \o (s2c \o lost)
    BY DEF RepliesWhole
  <2>3. Replies(answers) = came \o lost
    BY <2>1, <2>2, BytesAssociative
  <2> HIDE DEF came
  <2>4. spc # "closed" => Replies(answers) = came
    BY <2>1, <2>2, <2>3, ConcatEmptySeq
  <2>5. IsPrefix(came, Replies(answers))
    BY <2>1, <2>3, BytesPrefix
  <2>6. QED
    BY <2>4, <2>5 DEF RequestsOK, RequestsWhole, Asked, StreamsAreWhole, came
<1>4. QED
  BY <1>1, <1>2, <1>3, PTL DEF Spec

(* sodokuServer::onMessage answers the i-th request with the i-th answer:   *)
(* the request's own cells, if it has as many as a puzzle, or the error.    *)
THEOREM AnswersStayMatched == Spec => []AnswersMatch
<1>1. Init => Typed /\ RequestsOK
  BY InitTyped, InitWhole
<1>2. Typed /\ RequestsOK /\ [Next]_vars => (Typed /\ RequestsOK)'
  BY TypedStep, RequestsStep
<1>3. RequestsOK => AnswersMatch
  BY DEF RequestsOK
<1>4. QED
  BY <1>1, <1>2, <1>3, PTL DEF Spec

=============================================================================
