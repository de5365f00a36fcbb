------------------------ MODULE TcpConnectionProofs -------------------------
(***************************************************************************)
(* Theorems about TcpConnection, for any threads, message length, kernel   *)
(* and input room, high water mark and bounds.                             *)
(***************************************************************************)
EXTENDS TcpConnectionProps, SequenceTheorems, TLAPS

-----------------------------------------------------------------------------
(* The operators the actions are built from. *)

(* A message has MsgLen bytes. *)
LEMMA BytesType ==
  ASSUME NEW m \in Messages
  PROVE  Bytes(m) \in Seq(Byte) /\ Len(Bytes(m)) = MsgLen
<1>1. MsgLen \in Nat
  BY ConnectionAssumption
<1>2. Bytes(m) \in [1..MsgLen -> Byte]
  BY DEF Bytes, Byte, Messages
<1>3. QED
  BY <1>1, <1>2

(* What is left of a sequence after its first n elements, and what was      *)
(* taken.                                                                   *)
LEMMA SplitType ==
  ASSUME NEW s \in Seq(Byte), NEW n \in 0..Len(s)
  PROVE  /\ Unsent(s, n) \in Seq(Byte) /\ Len(Unsent(s, n)) = Len(s) - n
         /\ SubSeq(s, 1, n) \in Seq(Byte) /\ Len(SubSeq(s, 1, n)) = n
<1>1. Len(s) \in Nat /\ n \in Nat /\ n <= Len(s)
  BY LenProperties
<1>2. \A i \in n + 1..Len(s) : s[i] \in Byte
  BY <1>1, ElementOfSeq
<1>3. \A i \in 1..n : s[i] \in Byte
  BY <1>1, ElementOfSeq
<1>4. QED
  BY <1>1, <1>2, <1>3, SubSeqProperties DEF Unsent

(* The kernel accepts some of the bytes and does not overflow. *)
LEMMA AcceptedType ==
  ASSUME NEW len \in Nat, inflight \in 0..SockRoom
  PROVE  /\ Accepted(len) \in 0..len
         /\ inflight + Accepted(len) \in 0..SockRoom
  BY ConnectionAssumption DEF Accepted, Least

(* Appending bytes or a closure keeps a sequence's type. *)
LEMMA AppendType ==
  ASSUME NEW S, NEW s \in Seq(S), NEW e \in S
  PROVE  Append(s, e) \in Seq(S) /\ Len(Append(s, e)) = Len(s) + 1
  BY AppendProperties

LEMMA ConcatType ==
  ASSUME NEW S, NEW s \in Seq(S), NEW t \in Seq(S)
  PROVE  s \o t \in Seq(S) /\ Len(s \o t) = Len(s) + Len(t)
  BY ConcatProperties

-----------------------------------------------------------------------------
(* What sendInloop may do to the state, seen from outside. *)

LEMMA SendTypes ==
  ASSUME TypeOK, NEW m \in Messages, sendInloop(m)
  PROVE  /\ output' \in Seq(Byte)
         /\ sent' \in Seq(Byte) /\ Len(sent) <= Len(sent')
         /\ taken' \in Seq(Messages)
         /\ uevents' \subseteq {"in", "out"}
         /\ queue' \in {queue, Append(queue, <<"complete">>), Append(queue, <<"highWater">>)}
         /\ inflight' \in 0..SockRoom
         /\ sockErr' \in BOOLEAN
         /\ fault' \in {fault, "SIGPIPE"}
<1> USE ConnectionAssumption
<1> DEFINE n == Accepted(MsgLen)
<1>1. Bytes(m) \in Seq(Byte) /\ Len(Bytes(m)) = MsgLen
  BY BytesType
<1>2. n \in 0..MsgLen /\ inflight + n \in 0..SockRoom
  BY AcceptedType DEF TypeOK
<1>3. /\ output \o Bytes(m) \in Seq(Byte)
      /\ output \o Unsent(Bytes(m), n) \in Seq(Byte)
      /\ sent \o SubSeq(Bytes(m), 1, n) \in Seq(Byte)
      /\ Len(sent) <= Len(sent \o SubSeq(Bytes(m), 1, n))
  <2>1. /\ Unsent(Bytes(m), n) \in Seq(Byte)
        /\ SubSeq(Bytes(m), 1, n) \in Seq(Byte) /\ Len(SubSeq(Bytes(m), 1, n)) = n
    BY <1>1, <1>2, SplitType
  <2>2. Len(sent) \in Nat /\ n \in Nat
    BY <1>2, LenProperties DEF TypeOK
  <2>3. output \in Seq(Byte) /\ sent \in Seq(Byte)
    BY DEF TypeOK
  <2>4. QED
    BY <1>1, <2>1, <2>2, <2>3, ConcatType
<1>4. Append(taken, m) \in Seq(Messages)
  BY AppendType DEF TypeOK
<1>5. Len(sent) <= Len(sent)
  BY LenProperties DEF TypeOK
<1> HIDE DEF n
<1>6. CASE SendBehind(m)
  BY <1>3, <1>4, <1>5, <1>6 DEF SendBehind, Store, enableWrite, Push, sndq, TypeOK
<1>7. CASE SendRefused(m)
  BY <1>3, <1>4, <1>5, <1>7 DEF SendRefused, Store, enableWrite, TypeOK
<1>8. CASE SendTaken(m)
  BY <1>2, <1>3, <1>4, <1>8
     DEF SendTaken, Store, enableWrite, Push, TellComplete, TypeOK, n
<1>9. QED
  BY <1>6, <1>7, <1>8 DEF sendInloop

-----------------------------------------------------------------------------
(* Types.  A closure that runs a send must be for a message its thread has  *)
(* passed to send: with a sender that reuses its bytes the closure sends    *)
(* the latest one, and there has to be one.                                 *)

Issued(t) == sends[t] > 0

QueuedOK(q) ==
  \A i \in DOMAIN q : \A m \in Messages : q[i] = <<"send", m>> => Issued(m[1])

IssuedOK ==
  /\ \A t \in Threads : pc[t] = "queue" => Issued(t)
  /\ QueuedOK(queue)
  /\ QueuedOK(batch)

LEMMA PushOK ==
  ASSUME NEW q \in Seq(Task), NEW task \in Task, QueuedOK(q),
         \A m \in Messages : task = <<"send", m>> => Issued(m[1])
  PROVE  Append(q, task) \in Seq(Task) /\ QueuedOK(Append(q, task))
<1> DEFINE r == Append(q, task)
<1>1. /\ r \in Seq(Task) /\ Len(r) = Len(q) + 1
      /\ \A i \in 1..Len(q) : r[i] = q[i]
      /\ r[Len(q) + 1] = task
  BY AppendProperties
<1>2. Len(q) \in Nat /\ DOMAIN q = 1..Len(q) /\ DOMAIN r = 1..Len(q) + 1
  BY <1>1, LenProperties
<1> HIDE DEF r
<1>3. ASSUME NEW i \in DOMAIN r, NEW m \in Messages, r[i] = <<"send", m>>
      PROVE  Issued(m[1])
  <2>1. CASE i \in DOMAIN q
    BY <1>1, <1>2, <1>3, <2>1 DEF QueuedOK
  <2>2. CASE i = Len(q) + 1
    BY <1>1, <1>3, <2>2
  <2>3. QED
    BY <1>2, <2>1, <2>2
<1>4. QED
  BY <1>1, <1>3 DEF QueuedOK, r

LEMMA PopOK ==
  ASSUME NEW q \in Seq(Task), q # <<>>, QueuedOK(q)
  PROVE  /\ Head(q) \in Task /\ Tail(q) \in Seq(Task) /\ QueuedOK(Tail(q))
         /\ \A m \in Messages : Head(q) = <<"send", m>> => Issued(m[1])
<1>1. /\ Head(q) \in Task /\ Tail(q) \in Seq(Task) /\ Len(Tail(q)) = Len(q) - 1
      /\ Head(q) = q[1]
      /\ \A i \in 1..Len(q) - 1 : Tail(q)[i] = q[i + 1]
  BY HeadTailProperties
<1>2. Len(q) \in Nat /\ Len(q) > 0 /\ DOMAIN q = 1..Len(q) /\ DOMAIN Tail(q) = 1..Len(q) - 1
  BY <1>1, LenProperties, EmptySeq
<1>3. ASSUME NEW i \in DOMAIN Tail(q), NEW m \in Messages, Tail(q)[i] = <<"send", m>>
      PROVE  Issued(m[1])
  <2>1. i + 1 \in DOMAIN q /\ q[i + 1] = <<"send", m>>
    BY <1>1, <1>2, <1>3
  <2>2. QED
    BY <2>1 DEF QueuedOK
<1>4. 1 \in DOMAIN q
  BY <1>2
<1>5. QED
  BY <1>1, <1>3, <1>4 DEF QueuedOK

(* Steps that leave the queues alone. *)
LEMMA QueuesKept ==
  ASSUME IssuedOK, UNCHANGED <<queue, batch, pc>>,
         \A t \in Threads : Issued(t) => Issued(t)'
  PROVE  IssuedOK'
  BY DEF IssuedOK, QueuedOK, Issued, Messages

(* Steps that at most push a closure other than a send. *)
LEMMA Told ==
  ASSUME TypeOK, IssuedOK, UNCHANGED <<batch, pc>>,
         \A t \in Threads : Issued(t) => Issued(t)',
         queue' \in {queue, Append(queue, <<"close">>), Append(queue, <<"complete">>),
                     Append(queue, <<"highWater">>)}
  PROVE  queue' \in Seq(Task) /\ IssuedOK'
<1>1. QueuedOK(queue) /\ queue \in Seq(Task)
  BY DEF IssuedOK, TypeOK
<1>2. queue' \in Seq(Task) /\ QueuedOK(queue')
  <2>1. CASE queue' = queue
    BY <1>1, <2>1
  <2>2. ASSUME NEW task \in {<<"close">>, <<"complete">>, <<"highWater">>},
               queue' = Append(queue, task)
        PROVE  queue' \in Seq(Task) /\ QueuedOK(queue')
    <3>1. task \in Task /\ \A m \in Messages : task # <<"send", m>>
      BY DEF Task
    <3>2. QED
      BY <1>1, <2>2, <3>1, PushOK
  <2>3. QED
    BY <2>1, <2>2
<1>3. QED
  BY <1>2 DEF IssuedOK, QueuedOK, Issued, Messages

-----------------------------------------------------------------------------
(* Every step keeps the types; the steps that send come first. *)

LEMMA SendHereTyped == TypeOK /\ IssuedOK /\ sendHere => TypeOK' /\ IssuedOK'
<1> SUFFICES ASSUME TypeOK, IssuedOK, sendHere PROVE TypeOK' /\ IssuedOK'
  OBVIOUS
<1> DEFINE m == <<Loop, sends'[Loop]>>
<1>1. /\ Loop \in Threads /\ sends[Loop] \in 0..MaxSends /\ sends[Loop] < MaxSends
      /\ MaxSends \in Nat
      /\ sends' = [sends EXCEPT ![Loop] = @ + 1]
      /\ sends \in [Threads -> 0..MaxSends]
  BY ConnectionAssumption DEF sendHere, TypeOK, Threads
<1>2. sends'[Loop] = sends[Loop] + 1 /\ sends' \in [Threads -> 0..MaxSends]
  BY <1>1
<1>3. m \in Messages
  BY <1>1, <1>2 DEF Messages
<1>4. sendInloop(m)
      /\ UNCHANGED <<state, inbuf, refs, batch, phase, aevents, pc, closes, peer, reported>>
  BY DEF sendHere
<1> HIDE DEF m
<1>5. \A t \in Threads : Issued(t) => Issued(t)'
  BY <1>1, <1>2 DEF Issued
<1>6. queue' \in Seq(Task) /\ IssuedOK'
  <2>1. UNCHANGED <<batch, pc>>
    BY <1>4
  <2>2. QED
    BY <1>3, <1>4, <1>5, <2>1, SendTypes, Told
<1>7. /\ output' \in Seq(Byte) /\ sent' \in Seq(Byte) /\ Len(sent) <= Len(sent')
      /\ taken' \in Seq(Messages) /\ uevents' \subseteq {"in", "out"}
      /\ inflight' \in 0..SockRoom /\ sockErr' \in BOOLEAN /\ fault' \in {fault, "SIGPIPE"}
  BY <1>3, <1>4, SendTypes
<1>8. Len(sent) \in Nat /\ Len(sent') \in Nat
  BY <1>7, LenProperties DEF TypeOK
<1>9. reported' \in 0..Len(sent')
  BY <1>4, <1>7, <1>8 DEF TypeOK
<1>10. fault' \in Faults
  BY <1>7 DEF TypeOK, Faults
<1>11. QED
  <2>1. /\ UNCHANGED <<state, input, room, mapped, held, batch, phase, aevents>>
        /\ UNCHANGED <<pc, closes, rcvq, arrived, fin, reset>>
    BY <1>4 DEF inbuf, refs, peer
  <2>2. TypeOK'
    BY <1>2, <1>6, <1>7, <1>9, <1>10, <2>1 DEF TypeOK
  <2>3. QED
    BY <1>6, <2>2

LEMMA RunSendTyped == TypeOK /\ IssuedOK /\ RunSend => TypeOK' /\ IssuedOK'
<1> SUFFICES ASSUME TypeOK, IssuedOK, NEW m \in Messages,
                    RunTask(<<"send", m>>),
                    sendInloop(IF SenderKeepsBuffer THEN m ELSE <<m[1], sends[m[1]]>>),
                    UNCHANGED <<state, inbuf, refs, phase, aevents, callers, peer, reported>>
             PROVE  TypeOK' /\ IssuedOK'
  BY DEF RunSend
<1> DEFINE mm == IF SenderKeepsBuffer THEN m ELSE <<m[1], sends[m[1]]>>
<1>1. batch \in Seq(Task) /\ batch # <<>> /\ QueuedOK(batch) /\ batch' = Tail(batch)
      /\ <<"send", m>> = Head(batch)
  BY DEF RunTask, TypeOK, IssuedOK
<1>2. batch' \in Seq(Task) /\ QueuedOK(batch') /\ Issued(m[1])
  BY <1>1, PopOK
<1>3. mm \in Messages
  BY <1>2 DEF Messages, Issued, TypeOK
<1>4. UNCHANGED <<pc, sends, closes>>
  BY DEF callers
<1>5. sendInloop(mm)
  OBVIOUS
<1> HIDE DEF mm
<1>6. queue' \in Seq(Task) /\ QueuedOK(queue')
  <2>1. queue \in Seq(Task) /\ QueuedOK(queue)
    BY DEF TypeOK, IssuedOK
  <2>2. queue' \in {queue, Append(queue, <<"complete">>), Append(queue, <<"highWater">>)}
    BY <1>3, <1>5, SendTypes
  <2>3. ASSUME NEW task \in {<<"complete">>, <<"highWater">>}, queue' = Append(queue, task)
        PROVE  queue' \in Seq(Task) /\ QueuedOK(queue')
    <3>1. task \in Task /\ \A x \in Messages : task # <<"send", x>>
      BY DEF Task
    <3>2. QED
      BY <2>1, <2>3, <3>1, PushOK
  <2>4. QED
    BY <2>1, <2>2, <2>3
<1>7. IssuedOK'
  BY <1>2, <1>4, <1>6 DEF IssuedOK, QueuedOK, Issued
<1>8. /\ output' \in Seq(Byte) /\ sent' \in Seq(Byte) /\ Len(sent) <= Len(sent')
      /\ taken' \in Seq(Messages) /\ uevents' \subseteq {"in", "out"}
      /\ inflight' \in 0..SockRoom /\ sockErr' \in BOOLEAN /\ fault' \in {fault, "SIGPIPE"}
  BY <1>3, <1>5, SendTypes
<1>9. Len(sent) \in Nat /\ Len(sent') \in Nat
  BY <1>8, LenProperties DEF TypeOK
<1>10. reported' \in 0..Len(sent')
  <2>1. reported' = reported /\ reported \in 0..Len(sent)
    BY DEF TypeOK
  <2>2. QED
    BY <1>8, <1>9, <2>1
<1>11. fault' \in Faults
  BY <1>8 DEF TypeOK, Faults
<1>12. QED
  <2>1. /\ UNCHANGED <<state, input, room, mapped, held, phase, aevents>>
        /\ UNCHANGED <<rcvq, arrived, fin, reset>>
    BY DEF inbuf, refs, peer
  <2>2. TypeOK'
    BY <1>2, <1>4, <1>6, <1>8, <1>10, <1>11, <2>1 DEF TypeOK
  <2>3. QED
    BY <1>7, <2>2

LEMMA UserStepTyped == TypeOK /\ IssuedOK /\ UserStep => TypeOK' /\ IssuedOK'
<1> SUFFICES ASSUME TypeOK, IssuedOK, UserStep PROVE TypeOK' /\ IssuedOK'
  OBVIOUS
<1> USE ConnectionAssumption
<1>1. ASSUME NEW t \in Others, send(t) PROVE TypeOK' /\ IssuedOK'
  <2>1. /\ t \in Threads /\ sends' = [sends EXCEPT ![t] = @ + 1]
        /\ sends[t] < MaxSends /\ sends \in [Threads -> 0..MaxSends]
        /\ pc' = [pc EXCEPT ![t] = "queue"] /\ pc \in [Threads -> {"idle", "queue"}]
    BY <1>1 DEF send, Threads, TypeOK
  <2>2. sends' \in [Threads -> 0..MaxSends] /\ pc' \in [Threads -> {"idle", "queue"}]
    BY <2>1
  <2>3. \A u \in Threads : Issued(u) => Issued(u)'
    BY <2>1, <2>2 DEF Issued
  <2>4. Issued(t)'
    BY <2>1, <2>2 DEF Issued
  <2>5. UNCHANGED <<conn, inbuf, refs, loop, closes, sndq, peer, fault, reported>>
    BY <1>1 DEF send
  <2>6. IssuedOK'
    BY <2>1, <2>3, <2>4, <2>5 DEF IssuedOK, QueuedOK, Issued, Messages, loop
  <2>7. TypeOK'
    BY <2>2, <2>5 DEF TypeOK, conn, inbuf, refs, loop, sndq, peer
  <2>8. QED
    BY <2>6, <2>7
<1>2. ASSUME NEW t \in Others, sendQueue(t) PROVE TypeOK' /\ IssuedOK'
  <2> DEFINE m == <<t, sends[t]>>
  <2>1. t \in Threads /\ pc[t] = "queue" /\ pc' = [pc EXCEPT ![t] = "idle"]
        /\ queue' = Append(queue, <<"send", m>>)
        /\ UNCHANGED <<conn, inbuf, refs, batch, phase, aevents, sends, closes, sndq, peer,
                       fault, reported>>
    BY <1>2 DEF sendQueue, Threads, Push
  <2>2. Issued(t) /\ m \in Messages
    BY <2>1 DEF IssuedOK, Issued, TypeOK, Messages
  <2>3. <<"send", m>> \in Task /\ \A x \in Messages : <<"send", m>> = <<"send", x>> => Issued(x[1])
    BY <2>2 DEF Task
  <2>4. queue' \in Seq(Task) /\ QueuedOK(queue')
    BY <2>1, <2>3, PushOK DEF TypeOK, IssuedOK
  <2>5. pc' \in [Threads -> {"idle", "queue"}] /\ \A u \in Threads : pc'[u] = "queue" => pc[u] = "queue"
    BY <2>1 DEF TypeOK
  <2>6. IssuedOK'
    BY <2>1, <2>4, <2>5 DEF IssuedOK, QueuedOK, Issued
  <2>7. TypeOK'
    BY <2>1, <2>4, <2>5 DEF TypeOK, conn, inbuf, refs, sndq, peer
  <2>8. QED
    BY <2>6, <2>7
<1>3. ASSUME NEW t \in Others, activeClose(t) PROVE TypeOK' /\ IssuedOK'
  <2>1. /\ queue' = Append(queue, <<"close">>) /\ closes' = closes + 1 /\ closes < MaxCloses
        /\ UNCHANGED <<conn, inbuf, refs, batch, phase, aevents, pc, sends, sndq, peer,
                       fault, reported>>
    BY <1>3 DEF activeClose, Push
  <2>2. queue' \in Seq(Task) /\ IssuedOK'
    <3>1. \A u \in Threads : Issued(u) => Issued(u)'
      BY <2>1 DEF Issued
    <3>2. QED
      BY <2>1, <3>1, Told
  <2>3. QED
    BY <2>1, <2>2 DEF TypeOK, conn, inbuf, refs, sndq, peer
<1>4. ASSUME NEW t \in Threads, Release(t) PROVE TypeOK' /\ IssuedOK'
  <2>1. held' \subseteq Threads
        /\ UNCHANGED <<conn, inbuf, mapped, loop, callers, sndq, peer, fault, reported>>
    BY <1>4 DEF Release, TypeOK
  <2>2. IssuedOK'
    BY <2>1, QueuesKept DEF loop, callers, Issued
  <2>3. QED
    BY <2>1, <2>2 DEF TypeOK, conn, inbuf, loop, callers, sndq, peer
<1>5. CASE sendHere
  BY <1>5, SendHereTyped
<1>6. CASE activeCloseHere
  <2>1. /\ state' \in {"disconnecting", "disconnect"}
        /\ uevents' \subseteq {"in", "out"} /\ fault' \in {fault, "removeChannel", "none"}
        /\ closes' = closes + 1 /\ closes < MaxCloses
        /\ UNCHANGED <<output, taken, inbuf, refs, loop, pc, sends, sndq, peer, reported>>
    BY <1>6 DEF activeCloseHere, activeCloseInloop, enableWrite, disableAll, Disable, TypeOK
  <2>2. IssuedOK'
    BY <2>1, QueuesKept DEF loop, Issued
  <2>3. closes' \in 0..MaxCloses /\ fault' \in Faults
    BY <2>1, ConnectionAssumption DEF TypeOK, Faults
  <2>4. TypeOK'
    BY <2>1, <2>3 DEF TypeOK, inbuf, refs, loop, sndq, peer
  <2>5. QED
    BY <2>2, <2>4
<1>7. QED
  BY <1>1, <1>2, <1>3, <1>4, <1>5, <1>6 DEF UserStep

LEMMA PeerStepTyped == TypeOK /\ IssuedOK /\ PeerStep => TypeOK' /\ IssuedOK'
<1> SUFFICES ASSUME TypeOK, IssuedOK, PeerStep PROVE TypeOK' /\ IssuedOK'
  OBVIOUS
<1>1. UNCHANGED <<conn, inbuf, refs, loop, callers, sent, fault, reported>>
  BY DEF PeerStep, PeerSends, PeerReads, PeerCloses, PeerResets, sndq
<1>2. IssuedOK'
  BY <1>1, QueuesKept DEF loop, callers, Issued
<1> DEFINE P == /\ arrived' \in 0..MaxRecv /\ rcvq' \in 0..arrived'
                /\ inflight' \in 0..SockRoom /\ {fin', reset', sockErr'} \subseteq BOOLEAN
<1>3. ASSUME PeerSends PROVE arrived' \in 0..MaxRecv /\ rcvq' \in 0..arrived'
  <2>1. arrived' = arrived + 1 /\ arrived < MaxRecv /\ rcvq' = rcvq + 1
    BY <1>3 DEF PeerSends
  <2>2. arrived \in Nat /\ MaxRecv \in Nat /\ rcvq \in 0..arrived
    BY ConnectionAssumption DEF TypeOK
  <2>3. QED
    BY <2>1, <2>2
<1>4. P
  <2> USE ConnectionAssumption DEF TypeOK, sndq, peer
  <2>1. CASE PeerSends
    BY <1>3, <2>1 DEF PeerSends
  <2>2. CASE PeerReads
    <3>1. inflight' = inflight - 1 /\ inflight > 0 /\ inflight \in 0..SockRoom
          /\ UNCHANGED <<arrived, rcvq, fin, reset, sockErr>>
      BY <2>2 DEF PeerReads
    <3>2. inflight' \in 0..SockRoom
      BY <3>1
    <3>3. QED
      BY <3>1, <3>2
  <2>3. CASE PeerCloses
    BY <2>3 DEF PeerCloses
  <2>4. CASE PeerResets
    BY <2>4 DEF PeerResets
  <2>5. QED
    BY <2>1, <2>2, <2>3, <2>4 DEF PeerStep
<1>5. QED
  BY <1>1, <1>2, <1>4 DEF TypeOK, conn, inbuf, refs, loop, callers

(* Steps of the loop that neither send nor move the queues. *)
Quiet == NoRead \/ handleRead \/ handleReadError \/ handleClose \/ onMessageReturns
         \/ onDisConnectReturns \/ NoWrite \/ handleWriteError \/ UseFreed \/ Poll \/ CallbackReturns \/ EndTasks

LEMMA QuietTyped == TypeOK /\ IssuedOK /\ Quiet => TypeOK' /\ IssuedOK'
<1> SUFFICES ASSUME TypeOK, IssuedOK, Quiet PROVE TypeOK' /\ IssuedOK'
  OBVIOUS
<1>1. UNCHANGED <<output, taken, queue, batch, callers, inflight, sent, reported, held>>
  BY DEF Quiet, NoRead, handleRead, handleReadError, handleClose, removeConnect,
         onMessageReturns, onDisConnectReturns, NoWrite, handleWriteError, UseFreed, Poll, CallbackReturns,
         EndTasks, conn, loop, sndq, refs
<1>2. IssuedOK'
  BY <1>1, QueuesKept DEF callers, Issued
<1> DEFINE P == /\ state' \in {"connected", "disconnecting", "disconnect"}
                /\ uevents' \subseteq {"in", "out"} /\ aevents' \subseteq {"in", "out"}
                /\ input' \in Nat /\ room' \in 0..InputRoom /\ mapped' \in BOOLEAN
                /\ phase' \in {"poll", "before", "onMessage", "onDisConnect", "write",
                               "after", "tasks", "callback"}
                /\ arrived' \in 0..MaxRecv /\ rcvq' \in 0..arrived'
                /\ {fin', reset', sockErr'} \subseteq BOOLEAN
                /\ fault' \in Faults
<1>3. P
  <2> USE ConnectionAssumption DEF TypeOK, conn, inbuf, refs, loop, sndq, peer
  <2>1. CASE NoRead
    BY <2>1 DEF NoRead
  <2>2. CASE handleRead
    <3>1. PICK n \in Nat : /\ n <= rcvq /\ n <= room
                           /\ rcvq' = rcvq - n /\ input' = input + n /\ room' = room - n
      BY <2>2 DEF handleRead, Least
    <3>2. rcvq \in Nat /\ arrived \in Nat /\ rcvq <= arrived /\ room \in Nat /\ room <= InputRoom
      OBVIOUS
    <3>3. /\ phase' = "onMessage"
          /\ UNCHANGED <<conn, refs, aevents, sndq, arrived, fin, reset, fault>>
      BY <2>2 DEF handleRead
    <3>4. rcvq' \in 0..arrived /\ room' \in 0..InputRoom /\ input' \in Nat
      BY <3>1, <3>2
    <3>5. QED
      BY <3>3, <3>4
  <2>3. CASE handleReadError
    BY <2>3 DEF handleReadError
  <2>4. CASE handleClose
    BY <2>4 DEF handleClose, removeConnect, Faults
  <2>5. CASE onMessageReturns
    <3>1. /\ input' \in 0..input /\ input \in Nat /\ room \in 0..InputRoom
          /\ room' \in {room, InputRoom} /\ InputRoom \in Nat
      BY <2>5 DEF onMessageReturns
    <3>2. input' \in Nat /\ room' \in 0..InputRoom
      BY <3>1
    <3>3. /\ phase' = "write"
          /\ UNCHANGED <<conn, refs, aevents, sndq, peer, fault>>
      BY <2>5 DEF onMessageReturns
    <3>4. QED
      BY <3>2, <3>3
  <2>6. CASE NoWrite \/ onDisConnectReturns
    BY <2>6 DEF NoWrite, onDisConnectReturns
  <2>7. CASE handleWriteError
    BY <2>7 DEF handleWriteError, Faults
  <2>8. CASE UseFreed
    BY <2>8 DEF UseFreed, Faults
  <2>9. CASE Poll
    BY <2>9 DEF Poll, Ready
  <2>10. CASE CallbackReturns
    BY <2>10 DEF CallbackReturns
  <2>11. CASE EndTasks
    BY <2>11 DEF EndTasks
  <2>12. QED
    BY <2>1, <2>2, <2>3, <2>4, <2>5, <2>6, <2>7, <2>8, <2>9, <2>10, <2>11 DEF Quiet
<1>4. QED
  BY <1>1, <1>2, <1>3 DEF TypeOK, callers

LEMMA LoopStepTyped == TypeOK /\ IssuedOK /\ LoopStep => TypeOK' /\ IssuedOK'
<1> SUFFICES ASSUME TypeOK, IssuedOK, LoopStep PROVE TypeOK' /\ IssuedOK'
  OBVIOUS
<1>1. CASE Quiet
  BY <1>1, QuietTyped
<1>2. CASE RunSend
  BY <1>2, RunSendTyped
<1>3. CASE handleWrite
  <2> DEFINE n == Accepted(Len(output))
  <2>1. output \in Seq(Byte) /\ Len(output) \in Nat /\ sent \in Seq(Byte) /\ Len(sent) \in Nat
    BY LenProperties DEF TypeOK
  <2>2. n \in 0..Len(output) /\ inflight + n \in 0..SockRoom
    BY <2>1, AcceptedType DEF TypeOK
  <2>3. /\ Unsent(output, n) \in Seq(Byte) /\ SubSeq(output, 1, n) \in Seq(Byte)
        /\ Len(SubSeq(output, 1, n)) = n
    BY <2>1, <2>2, SplitType
  <2>4. /\ inflight' = inflight + n
        /\ sent' = sent \o SubSeq(output, 1, n)
        /\ output' = Unsent(output, n)
        /\ uevents' \in {uevents, uevents \ {"out"}}
        /\ fault' \in {fault, "removeChannel", "none"}
        /\ queue' \in {queue, Append(queue, <<"complete">>)}
        /\ phase' = "after"
        /\ UNCHANGED <<state, taken, inbuf, refs, batch, aevents, callers, sockErr, peer, reported>>
    BY <1>3 DEF handleWrite, disableWrite, Disable, TellComplete, Push
  <2> HIDE DEF n
  <2>5. sent' \in Seq(Byte) /\ Len(sent) <= Len(sent')
    BY <2>1, <2>2, <2>3, <2>4, ConcatType
  <2>6. reported' \in 0..Len(sent')
    BY <2>1, <2>4, <2>5, LenProperties DEF TypeOK
  <2>7. queue' \in Seq(Task) /\ IssuedOK'
    <3>1. UNCHANGED <<batch, pc>> /\ \A t \in Threads : Issued(t) => Issued(t)'
      BY <2>4 DEF callers, Issued
    <3>2. QED
      BY <2>4, <3>1, Told
  <2>8. QED
    BY <2>2, <2>3, <2>4, <2>5, <2>6, <2>7 DEF TypeOK, Faults, inbuf, refs, callers, peer
<1>4. CASE handleTask
  <2>1. /\ batch' = queue /\ queue' = <<>> /\ phase' = "tasks"
        /\ UNCHANGED <<conn, inbuf, refs, aevents, callers, sndq, peer, fault, reported>>
    BY <1>4 DEF handleTask
  <2>2. queue' \in Seq(Task) /\ QueuedOK(queue')
    <3>1. DOMAIN <<>> = {}
      OBVIOUS
    <3>2. QED
      BY <2>1, <3>1 DEF QueuedOK
  <2>3. IssuedOK'
    BY <2>1, <2>2 DEF IssuedOK, QueuedOK, Issued, callers
  <2>4. QED
    BY <2>1, <2>2, <2>3 DEF TypeOK, conn, inbuf, refs, callers, sndq, peer
<1>5. ASSUME NEW task, RunTask(task), UNCHANGED <<queue, pc, sends>>
      PROVE  batch' \in Seq(Task) /\ IssuedOK'
  <2>1. batch' \in Seq(Task) /\ QueuedOK(batch')
    BY <1>5, PopOK DEF RunTask, TypeOK, IssuedOK
  <2>2. QED
    BY <1>5, <2>1 DEF IssuedOK, QueuedOK, Issued
<1>6. CASE RunClose
  <2>1. /\ state' \in {"disconnecting", "disconnect"}
        /\ uevents' \subseteq {"in", "out"} /\ fault' \in {fault, "removeChannel", "none"}
        /\ UNCHANGED <<output, taken, inbuf, refs, queue, phase, aevents, callers, sndq, peer,
                       reported>>
    BY <1>6 DEF RunClose, activeCloseInloop, enableWrite, disableAll, Disable, TypeOK
  <2>2. batch' \in Seq(Task) /\ IssuedOK'
    BY <1>5, <1>6, <2>1 DEF RunClose, callers
  <2>3. QED
    BY <2>1, <2>2 DEF TypeOK, Faults, inbuf, refs, callers, sndq, peer
<1>7. CASE RunCallback
  <2>1. /\ reported' \in {reported, Len(sent)} /\ phase' = "callback"
        /\ UNCHANGED <<conn, inbuf, refs, queue, aevents, callers, sndq, peer, fault>>
    BY <1>7 DEF RunCallback
  <2>2. batch' \in Seq(Task) /\ IssuedOK'
    BY <1>5, <1>7, <2>1 DEF RunCallback, callers
  <2>3. reported' \in 0..Len(sent)
    BY <2>1, LenProperties DEF TypeOK
  <2>4. QED
    BY <2>1, <2>2, <2>3 DEF TypeOK, conn, inbuf, refs, callers, sndq, peer
<1>8. QED
  BY <1>1, <1>2, <1>3, <1>4, <1>6, <1>7 DEF LoopStep, HandleEvent, RunTasks, Quiet

LEMMA TypedStep == TypeOK /\ IssuedOK /\ [Next]_vars => TypeOK' /\ IssuedOK'
<1>1. ASSUME TypeOK, IssuedOK, UNCHANGED vars PROVE TypeOK' /\ IssuedOK'
  <2>1. IssuedOK'
    BY <1>1, QueuesKept DEF vars, loop, callers, Issued
  <2>2. QED
    BY <1>1, <2>1 DEF TypeOK, vars, conn, inbuf, refs, loop, callers, sndq, peer
<1>2. QED
  BY <1>1, UserStepTyped, LoopStepTyped, PeerStepTyped DEF Next

LEMMA InitTyped == Init => TypeOK /\ IssuedOK
<1> SUFFICES ASSUME Init PROVE TypeOK /\ IssuedOK
  OBVIOUS
<1> USE ConnectionAssumption DEF Init
<1>1. <<>> \in Seq(Byte) /\ <<>> \in Seq(Messages) /\ <<>> \in Seq(Task)
      /\ Len(<<>>) = 0 /\ DOMAIN <<>> = {}
  BY EmptySeq
<1>2. /\ [t \in Threads |-> "idle"] \in [Threads -> {"idle", "queue"}]
      /\ [t \in Threads |-> 0] \in [Threads -> 0..MaxSends]
  OBVIOUS
<1>3. TypeOK
  <2>1. /\ output \in Seq(Byte) /\ sent \in Seq(Byte) /\ taken \in Seq(Messages)
        /\ queue \in Seq(Task) /\ batch \in Seq(Task)
        /\ reported \in 0..Len(sent)
    BY <1>1
  <2>2. /\ input \in Nat /\ room \in 0..InputRoom /\ closes \in 0..MaxCloses
        /\ inflight \in 0..SockRoom /\ arrived \in 0..MaxRecv /\ rcvq \in 0..arrived
    OBVIOUS
  <2>3. /\ {fin, reset, sockErr} \subseteq BOOLEAN /\ fault \in Faults
        /\ uevents \subseteq {"in", "out"} /\ aevents \subseteq {"in", "out"}
        /\ held \subseteq Threads
    BY DEF Faults
  <2>4. QED
    BY <1>2, <2>1, <2>2, <2>3 DEF TypeOK
<1>4. IssuedOK
  BY <1>1 DEF IssuedOK, QueuedOK
<1>5. QED
  BY <1>3, <1>4

(* Every variable keeps its type: no send goes through without a message    *)
(* behind it, the kernel's buffer and inputBuffer_ never get more than they *)
(* have room for.                                                           *)
THEOREM TypeCorrect == Spec => []TypeOK
<1>1. Spec => [](TypeOK /\ IssuedOK)
  BY InitTyped, TypedStep, PTL DEF Spec
<1>2. QED
  BY <1>1, PTL

-----------------------------------------------------------------------------
(* Closing.  A connection that has left connsMap_ does not watch for input, *)
(* and an input event is not kept from before it left.                      *)

Registered ==
  /\ ~mapped => "in" \notin uevents
  /\ phase = "before" /\ "in" \in aevents => mapped

LEMMA RegisteredStep ==
  ASSUME Registered, RemovedOnce, [Next]_vars
  PROVE  Registered' /\ RemovedOnce'
<1> DEFINE P == Registered' /\ RemovedOnce'
<1> USE DEF Registered, RemovedOnce, conn, inbuf, refs, loop, sndq
<1>1. ASSUME NEW m, sendInloop(m), UNCHANGED <<refs, phase, aevents>> PROVE P
  <2>1. uevents' \in {uevents, uevents \cup {"out"}}
    BY <1>1 DEF sendInloop, SendBehind, SendRefused, SendTaken, Store, enableWrite
  <2>2. fault' \in {fault, "SIGPIPE"}
    BY <1>1 DEF sendInloop, SendBehind, SendRefused, SendTaken
  <2>3. QED
    BY <1>1, <2>1, <2>2
<1>2. ASSUME activeCloseInloop, UNCHANGED <<refs, phase, aevents>> PROVE P
  BY <1>2 DEF activeCloseInloop, enableWrite, disableAll, Disable
<1>3. ASSUME UNCHANGED <<uevents, mapped, fault, aevents>>, phase' # "before" \/ UNCHANGED phase
      PROVE  P
  BY <1>3
<1>4. ASSUME NEW t \in Others, send(t) \/ sendQueue(t) \/ activeClose(t) PROVE P
  BY <1>3, <1>4 DEF send, sendQueue, activeClose
<1>5. ASSUME NEW t \in Threads, Release(t) PROVE P
  BY <1>3, <1>5 DEF Release
<1>6. CASE sendHere
  BY <1>1, <1>6 DEF sendHere
<1>7. CASE activeCloseHere
  BY <1>2, <1>7 DEF activeCloseHere
<1>8. CASE Poll
  BY <1>8 DEF Poll, Ready
<1>9. CASE NoRead \/ handleRead \/ handleReadError \/ onMessageReturns \/ NoWrite
           \/ onDisConnectReturns
  BY <1>3, <1>9 DEF NoRead, handleRead, handleReadError, onMessageReturns, NoWrite,
                    onDisConnectReturns
<1>10. CASE handleClose
  BY <1>10 DEF handleClose, Reading, At, removeConnect
<1>11. CASE handleWrite
  BY <1>11 DEF handleWrite, disableWrite, Disable
<1>12. CASE handleWriteError \/ UseFreed
  BY <1>12 DEF handleWriteError, UseFreed
<1>13. CASE handleTask \/ RunCallback \/ CallbackReturns \/ EndTasks
  BY <1>3, <1>13 DEF handleTask, RunCallback, CallbackReturns, EndTasks
<1>14. CASE RunSend
  BY <1>1, <1>14 DEF RunSend
<1>15. CASE RunClose
  BY <1>2, <1>15 DEF RunClose
<1>16. CASE PeerStep
  BY <1>3, <1>16 DEF PeerStep, PeerSends, PeerReads, PeerCloses, PeerResets
<1>17. CASE UNCHANGED vars
  BY <1>3, <1>17 DEF vars
<1>18. QED
  BY <1>4, <1>5, <1>6, <1>7, <1>8, <1>9, <1>10, <1>11, <1>12, <1>13, <1>14, <1>15,
     <1>16, <1>17
  DEF Next, UserStep, LoopStep, HandleEvent, RunTasks

(* TcpClient::removeConnect always finds the connection: handleClose runs   *)
(* at most once, however the closes, sends and events of a connection are   *)
(* ordered.                                                                 *)
THEOREM RemovedAtMostOnce == Spec => []RemovedOnce
<1>1. Init => Registered /\ RemovedOnce
  BY DEF Init, Registered, RemovedOnce
<1>2. QED
  BY <1>1, RegisteredStep, PTL DEF Spec

-----------------------------------------------------------------------------
(* Writing.  outputBuffer_ and the interest in EPOLLOUT change together.    *)

LEMMA SendInterest ==
  ASSUME TypeOK, NEW m \in Messages, sendInloop(m)
  PROVE  /\ \/ UNCHANGED <<output, uevents>>
            \/ output' # <<>> /\ uevents' = uevents \cup {"out"}
         /\ OutputNearMark => OutputNearMark'
<1> DEFINE n == Accepted(MsgLen)
           b == Bytes(m)
<1>1. b \in Seq(Byte) /\ Len(b) = MsgLen /\ MsgLen \in Nat /\ MsgLen > 0
  BY BytesType, ConnectionAssumption
<1>2. n \in 0..MsgLen
  BY <1>1, AcceptedType DEF TypeOK
<1>3. Unsent(b, n) \in Seq(Byte) /\ Len(Unsent(b, n)) = MsgLen - n
  BY <1>1, <1>2, SplitType
<1>4. output \in Seq(Byte) /\ Len(output) \in Nat /\ HighWaterMark \in Nat
  BY LenProperties, ConnectionAssumption DEF TypeOK
<1>5. \A s \in Seq(Byte) : Len(s) > 0 => s # <<>>
  BY EmptySeq
<1>6. ASSUME NEW s \in Seq(Byte), Len(s) > 0, Len(s) <= MsgLen, Store(m, s),
             output = <<>> \/ (s = b /\ ~Unaffordable(MsgLen))
      PROVE  /\ output' # <<>> /\ uevents' = uevents \cup {"out"}
             /\ OutputNearMark'
  <2>1. output' = output \o s /\ uevents' = uevents \cup {"out"}
    BY <1>6 DEF Store, enableWrite
  <2>2. output' \in Seq(Byte) /\ Len(output') = Len(output) + Len(s)
    BY <1>4, <2>1, ConcatType
  <2>3. Len(s) \in Nat
    BY LenProperties
  <2>4. output' # <<>>
    BY <1>4, <1>5, <1>6, <2>2, <2>3
  <2>5. CASE output = <<>>
    <3>1. Len(output) = 0
      BY <2>5, EmptySeq
    <3>2. Len(output') <= MsgLen
      BY <1>1, <1>6, <2>2, <2>3, <3>1
    <3>3. QED
      BY <2>1, <2>4, <3>2 DEF OutputNearMark
  <2>6. CASE s = b /\ ~Unaffordable(MsgLen)
    <3>1. HighWaterMark > 0 => Len(output') <= HighWaterMark
      BY <1>1, <1>4, <2>2, <2>6 DEF Unaffordable
    <3>2. QED
      BY <2>1, <2>4, <3>1 DEF OutputNearMark
  <2>7. QED
    BY <1>6, <2>5, <2>6
<1>7. ASSUME UNCHANGED <<output, uevents>>
      PROVE  OutputNearMark => OutputNearMark'
  BY <1>7 DEF OutputNearMark
<1> HIDE DEF n, b
<1>8. CASE SendBehind(m)
  <2>1. CASE Store(m, b) /\ ~Unaffordable(MsgLen)
    BY <1>1, <1>6, <2>1
  <2>2. QED
    BY <1>7, <1>8, <2>1 DEF SendBehind, b
<1>9. CASE SendRefused(m)
  <2>1. CASE Store(m, b) /\ output = <<>>
    BY <1>1, <1>6, <2>1
  <2>2. QED
    BY <1>7, <1>9, <2>1 DEF SendRefused, b
<1>10. CASE SendTaken(m)
  <2>1. CASE Store(m, b) /\ output = <<>>
    BY <1>1, <1>6, <2>1
  <2>2. CASE Store(m, Unsent(b, n)) /\ output = <<>> /\ n < MsgLen
    <3>1. Len(Unsent(b, n)) > 0 /\ Len(Unsent(b, n)) <= MsgLen
      BY <1>1, <1>2, <1>3, <2>2
    <3>2. QED
      BY <1>3, <1>6, <2>2, <3>1
  <2>3. QED
    BY <1>7, <1>10, <2>1, <2>2 DEF SendTaken, b, n
<1>11. QED
  BY <1>8, <1>9, <1>10 DEF sendInloop

(* The send a closure makes is of a message. *)
LEMMA RunSendMessage ==
  ASSUME TypeOK, IssuedOK, RunSend
  PROVE  \E m \in Messages : sendInloop(m) /\ UNCHANGED <<state, refs, callers, reported>>
<1>1. PICK m \in Messages :
        /\ RunTask(<<"send", m>>)
        /\ sendInloop(IF SenderKeepsBuffer THEN m ELSE <<m[1], sends[m[1]]>>)
        /\ UNCHANGED <<state, inbuf, refs, phase, aevents, callers, peer, reported>>
  BY DEF RunSend
<1>2. Issued(m[1])
  BY <1>1, PopOK DEF RunTask, TypeOK, IssuedOK
<1>3. <<m[1], sends[m[1]]>> \in Messages
  BY <1>2 DEF Messages, Issued, TypeOK
<1>4. QED
  BY <1>1, <1>3

LEMMA SendHereMessage ==
  ASSUME TypeOK, sendHere
  PROVE  \E m \in Messages : sendInloop(m) /\ UNCHANGED <<state, refs, reported>>
<1>1. /\ sends' = [sends EXCEPT ![Loop] = @ + 1] /\ sends[Loop] < MaxSends
      /\ sendInloop(<<Loop, sends'[Loop]>>) /\ UNCHANGED <<state, refs, reported>>
  BY DEF sendHere
<1>2. <<Loop, sends'[Loop]>> \in Messages
  BY <1>1, ConnectionAssumption DEF Messages, TypeOK, Threads
<1>3. QED
  BY <1>1, <1>2

LEMMA WritingStep ==
  ASSUME TypeOK, IssuedOK, WriteInterest, OutputNearMark, [Next]_vars
  PROVE  WriteInterest' /\ OutputNearMark'
<1> DEFINE P == WriteInterest' /\ OutputNearMark'
<1> USE DEF refs, conn
<1>1. ASSUME NEW m \in Messages, sendInloop(m), UNCHANGED refs PROVE P
  <2>1. OutputNearMark'
    BY <1>1, SendInterest
  <2>2. \/ UNCHANGED <<output, uevents>>
        \/ output' # <<>> /\ uevents' = uevents \cup {"out"}
    BY <1>1, SendInterest
  <2>3. QED
    BY <1>1, <2>1, <2>2 DEF WriteInterest
<1>2. ASSUME activeCloseInloop, UNCHANGED <<output, refs>> PROVE P
  BY <1>2 DEF activeCloseInloop, enableWrite, disableAll, Disable, WriteInterest,
              OutputNearMark
<1>3. ASSUME UNCHANGED <<output, uevents, mapped>> PROVE P
  BY <1>3 DEF WriteInterest, OutputNearMark
<1>4. ASSUME NEW t \in Others, send(t) \/ sendQueue(t) \/ activeClose(t) PROVE P
  BY <1>3, <1>4 DEF send, sendQueue, activeClose
<1>5. ASSUME NEW t \in Threads, Release(t) PROVE P
  BY <1>3, <1>5 DEF Release
<1>6. CASE sendHere
  BY <1>1, <1>6, SendHereMessage
<1>7. CASE activeCloseHere
  BY <1>2, <1>7 DEF activeCloseHere
<1>8. CASE Poll \/ NoRead \/ handleRead \/ handleReadError \/ onMessageReturns \/ NoWrite
           \/ onDisConnectReturns \/ handleWriteError \/ UseFreed
  BY <1>3, <1>8 DEF Poll, NoRead, handleRead, handleReadError, onMessageReturns, NoWrite,
                    onDisConnectReturns, handleWriteError, UseFreed
<1>9. CASE handleClose
  BY <1>9 DEF handleClose, removeConnect, WriteInterest, OutputNearMark
<1>10. CASE handleWrite
  <2> DEFINE n == Accepted(Len(output))
  <2>1. output \in Seq(Byte) /\ Len(output) \in Nat
    BY LenProperties DEF TypeOK
  <2>2. n \in 0..Len(output)
    BY <2>1, AcceptedType DEF TypeOK
  <2>3. output' = Unsent(output, n) /\ UNCHANGED mapped
        /\ \/ n = Len(output) /\ uevents' = uevents \ {"out"}
           \/ n < Len(output) /\ UNCHANGED uevents
    BY <1>10 DEF handleWrite, disableWrite, Disable
  <2> HIDE DEF n
  <2>4. output' \in Seq(Byte) /\ Len(output') = Len(output) - n
    BY <2>1, <2>2, <2>3, SplitType
  <2>5. n = Len(output) => output' = <<>>
    BY <2>1, <2>4, EmptySeq
  <2>6. n < Len(output) => output' # <<>> /\ output # <<>>
    BY <2>1, <2>2, <2>4, EmptySeq
  <2>7. WriteInterest'
    BY <2>3, <2>5, <2>6 DEF WriteInterest
  <2>8. OutputNearMark'
    BY <2>1, <2>2, <2>4, ConnectionAssumption DEF OutputNearMark
  <2>9. QED
    BY <2>7, <2>8
<1>11. CASE handleTask \/ RunCallback \/ CallbackReturns \/ EndTasks
  BY <1>3, <1>11 DEF handleTask, RunCallback, CallbackReturns, EndTasks
<1>12. CASE RunSend
  BY <1>1, <1>12, RunSendMessage
<1>13. CASE RunClose
  BY <1>2, <1>13 DEF RunClose
<1>14. CASE PeerStep
  BY <1>3, <1>14 DEF PeerStep, PeerSends, PeerReads, PeerCloses, PeerResets
<1>15. CASE UNCHANGED vars
  BY <1>3, <1>15 DEF vars
<1>16. QED
  BY <1>4, <1>5, <1>6, <1>7, <1>8, <1>9, <1>10, <1>11, <1>12, <1>13, <1>14, <1>15
  DEF Next, UserStep, LoopStep, HandleEvent, RunTasks

LEMMA WritingInvariant == Spec => [](WriteInterest /\ OutputNearMark)
<1>1. Init => WriteInterest /\ OutputNearMark
  <2>1. Len(<<>>) = 0
    BY EmptySeq
  <2>2. QED
    BY <2>1, ConnectionAssumption DEF Init, WriteInterest, OutputNearMark
<1>2. QED
  BY <1>1, InitTyped, TypedStep, WritingStep, PTL DEF Spec

(* EPOLLOUT is watched exactly while bytes wait, so they leave and the loop *)
(* does not spin, through sends, closes and partial writes of any length.   *)
THEOREM WritabilityWatched == Spec => []WriteInterest
  BY WritingInvariant, PTL

(* outputBuffer_ holds at most the high water mark or one message.          *)
THEOREM MarkHolds == Spec => []OutputNearMark
  BY WritingInvariant, PTL

-----------------------------------------------------------------------------
(* Order.  A message of thread t is numbered by sends[t].  Those taken come *)
(* before those in batch, those before the ones in queue, and those before  *)
(* the one a thread inside send is about to queue; the loop's thread queues *)
(* none.                                                                    *)

SendAt(q, i, m) == i \in DOMAIN q /\ q[i] = <<"send", m>>

Earlier(m, n) == m[1] = n[1] => m[2] < n[2]

Passed(m, sd, p) == m[2] <= sd[m[1]] /\ (p[m[1]] = "queue" => m[2] < sd[m[1]])

InOrder(tk) == \A i, j \in DOMAIN tk : i < j => Earlier(tk[i], tk[j])

Waiting(q, tk, sd, p) ==
  \A i \in Nat, m \in Messages :
    SendAt(q, i, m) =>
      m[1] # Loop /\ Passed(m, sd, p) /\ \A k \in DOMAIN tk : Earlier(tk[k], m)

Sorted(q) ==
  \A i, j \in Nat, m, n \in Messages :
    SendAt(q, i, m) /\ SendAt(q, j, n) /\ i < j => Earlier(m, n)

Ahead(q, r) ==
  \A i, j \in Nat, m, n \in Messages :
    SendAt(q, i, m) /\ SendAt(r, j, n) => Earlier(m, n)

Order(tk, bt, qu, sd, p) ==
  /\ tk \in Seq(Messages) /\ bt \in Seq(Task) /\ qu \in Seq(Task)
  /\ sd \in [Threads -> Nat] /\ p \in [Threads -> {"idle", "queue"}]
  /\ p[Loop] = "idle"
  /\ InOrder(tk)
  /\ \A k \in DOMAIN tk : Passed(tk[k], sd, p)
  /\ Waiting(bt, tk, sd, p) /\ Waiting(qu, tk, sd, p)
  /\ Sorted(bt) /\ Sorted(qu) /\ Ahead(bt, qu)

LEMMA SendAtAppend ==
  ASSUME NEW q \in Seq(Task), NEW task \in Task
  PROVE  /\ \A i, m : SendAt(Append(q, task), i, m) <=>
                        SendAt(q, i, m) \/ (i = Len(q) + 1 /\ task = <<"send", m>>)
         /\ \A i, m : SendAt(q, i, m) => i \in Nat /\ i < Len(q) + 1
<1> DEFINE r == Append(q, task)
<1>1. /\ Len(r) = Len(q) + 1
      /\ \A i \in 1..Len(q) : r[i] = q[i]
      /\ r[Len(q) + 1] = task
      /\ r \in Seq(Task)
  BY AppendProperties
<1>2. Len(q) \in Nat /\ DOMAIN q = 1..Len(q) /\ DOMAIN r = 1..Len(q) + 1
  BY <1>1, LenProperties
<1> HIDE DEF r
<1>3. ASSUME NEW i, NEW m
      PROVE  SendAt(r, i, m) <=> SendAt(q, i, m) \/ (i = Len(q) + 1 /\ task = <<"send", m>>)
  <2>1. CASE i \in 1..Len(q)
    <3>1. i \in DOMAIN q /\ i \in DOMAIN r /\ r[i] = q[i] /\ i # Len(q) + 1
      BY <1>1, <1>2, <2>1
    <3>2. QED
      BY <3>1 DEF SendAt
  <2>2. CASE i = Len(q) + 1
    <3>1. i \notin DOMAIN q /\ i \in DOMAIN r /\ r[i] = task
      BY <1>1, <1>2, <2>2
    <3>2. QED
      BY <2>2, <3>1 DEF SendAt
  <2>3. CASE i \notin 1..Len(q) /\ i # Len(q) + 1
    <3>1. i \notin DOMAIN q /\ i \notin DOMAIN r
      BY <1>2, <2>3
    <3>2. QED
      BY <2>3, <3>1 DEF SendAt
  <2>4. QED
    BY <2>1, <2>2, <2>3
<1>4. QED
  BY <1>2, <1>3 DEF SendAt, r

LEMMA SendAtTail ==
  ASSUME NEW q \in Seq(Task), q # <<>>
  PROVE  /\ \A i \in Nat : \A m : SendAt(Tail(q), i, m) => i > 0 /\ SendAt(q, i + 1, m)
         /\ \A m : Head(q) = <<"send", m>> => SendAt(q, 1, m)
         /\ Tail(q) \in Seq(Task)
<1> DEFINE r == Tail(q)
<1>1. /\ r \in Seq(Task) /\ Len(r) = Len(q) - 1 /\ Head(q) = q[1]
      /\ \A i \in 1..Len(r) : r[i] = q[i + 1]
  BY HeadTailProperties
<1>2. /\ Len(q) \in Nat /\ Len(q) > 0 /\ DOMAIN q = 1..Len(q)
      /\ DOMAIN r = 1..Len(q) - 1
  BY <1>1, LenProperties, EmptySeq
<1> HIDE DEF r
<1>3. ASSUME NEW i \in Nat, NEW m, SendAt(r, i, m) PROVE i > 0 /\ SendAt(q, i + 1, m)
  <2>1. i \in 1..Len(q) - 1
    BY <1>2, <1>3 DEF SendAt
  <2>2. i > 0 /\ i + 1 \in DOMAIN q /\ i \in 1..Len(r)
    BY <1>1, <1>2, <2>1
  <2>3. QED
    BY <1>1, <1>3, <2>2 DEF SendAt
<1>4. 1 \in DOMAIN q
  BY <1>2
<1>5. QED
  BY <1>1, <1>3, <1>4 DEF SendAt, r

LEMMA TakeInOrder ==
  ASSUME NEW tk \in Seq(Messages), NEW m \in Messages, InOrder(tk),
         \A k \in DOMAIN tk : Earlier(tk[k], m)
  PROVE  /\ Append(tk, m) \in Seq(Messages) /\ InOrder(Append(tk, m))
         /\ \A k \in DOMAIN Append(tk, m) :
              Append(tk, m)[k] = m \/ \E i \in DOMAIN tk : Append(tk, m)[k] = tk[i]
<1> DEFINE r == Append(tk, m)
<1>1. /\ r \in Seq(Messages) /\ Len(r) = Len(tk) + 1
      /\ \A i \in 1..Len(tk) : r[i] = tk[i]
      /\ r[Len(tk) + 1] = m
  BY AppendProperties
<1>2. Len(tk) \in Nat /\ DOMAIN tk = 1..Len(tk) /\ DOMAIN r = 1..Len(tk) + 1
  BY <1>1, LenProperties
<1> HIDE DEF r
<1>3. ASSUME NEW i \in DOMAIN r, NEW j \in DOMAIN r, i < j PROVE Earlier(r[i], r[j])
  <2>1. i \in DOMAIN tk /\ r[i] = tk[i]
    BY <1>1, <1>2, <1>3
  <2>2. CASE j = Len(tk) + 1
    BY <1>1, <2>1, <2>2
  <2>3. CASE j \in DOMAIN tk
    <3>1. r[j] = tk[j]
      BY <1>1, <1>2, <2>3
    <3>2. QED
      BY <1>3, <2>1, <2>3, <3>1 DEF InOrder
  <2>4. QED
    BY <1>2, <2>2, <2>3
<1>4. ASSUME NEW k \in DOMAIN r PROVE r[k] = m \/ \E i \in DOMAIN tk : r[k] = tk[i]
  <2>1. k = Len(tk) + 1 \/ k \in 1..Len(tk)
    BY <1>2
  <2>2. QED
    BY <1>1, <1>2, <2>1
<1>5. QED
  BY <1>1, <1>3, <1>4 DEF InOrder, r

(* A closure that is no send changes nothing. *)
LEMMA OrderPush ==
  ASSUME NEW tk, NEW bt, NEW qu, NEW sd, NEW p, Order(tk, bt, qu, sd, p),
         NEW task \in {<<"close">>, <<"complete">>, <<"highWater">>}
  PROVE  Order(tk, bt, Append(qu, task), sd, p)
<1>1. qu \in Seq(Task) /\ task \in Task /\ \A m : task # <<"send", m>>
  BY DEF Order, Task
<1>2. Append(qu, task) \in Seq(Task)
  BY <1>1, AppendType
<1>3. \A i, m : SendAt(Append(qu, task), i, m) <=> SendAt(qu, i, m)
  BY <1>1, SendAtAppend
<1>4. QED
  BY <1>2, <1>3 DEF Order, Waiting, Sorted, Ahead

(* The loop's thread sends in place: the message is newer than all it sent, *)
(* and none of its own waits.                                               *)
LEMMA OrderHere ==
  ASSUME NEW tk, NEW bt, NEW qu, NEW sd, NEW p, Order(tk, bt, qu, sd, p),
         NEW sd2, sd2 = [sd EXCEPT ![Loop] = @ + 1], <<Loop, sd2[Loop]>> \in Messages
  PROVE  /\ Order(tk, bt, qu, sd2, p)
         /\ Order(Append(tk, <<Loop, sd2[Loop]>>), bt, qu, sd2, p)
<1> DEFINE m == <<Loop, sd2[Loop]>>
<1>1. /\ sd2 \in [Threads -> Nat] /\ Loop \in Threads
      /\ sd2[Loop] > sd[Loop] /\ \A t \in Threads : sd[t] <= sd2[t]
      /\ sd \in [Threads -> Nat]
  BY DEF Order, Threads
<1>2. \A x \in Messages : Passed(x, sd, p) => Passed(x, sd2, p)
  <2>1. ASSUME NEW x \in Messages, Passed(x, sd, p) PROVE Passed(x, sd2, p)
    <3>1. x[1] \in Threads /\ x[2] \in Nat
      BY ConnectionAssumption DEF Messages
    <3>2. QED
      BY <1>1, <2>1, <3>1 DEF Passed
  <2>2. QED
    BY <2>1
<1>3. tk \in Seq(Messages) /\ InOrder(tk) /\ \A k \in DOMAIN tk : tk[k] \in Messages
  BY LenProperties, ElementOfSeq DEF Order
<1>4. Order(tk, bt, qu, sd2, p)
  BY <1>1, <1>2, <1>3 DEF Order, Waiting
<1>5. \A k \in DOMAIN tk : Earlier(tk[k], m)
  <2>1. ASSUME NEW k \in DOMAIN tk, tk[k][1] = Loop PROVE tk[k][2] < sd2[Loop]
    <3>1. tk[k][2] <= sd[Loop] /\ tk[k][2] \in Nat
      BY <1>3, <2>1, ConnectionAssumption DEF Order, Passed, Messages
    <3>2. QED
      BY <1>1, <3>1
  <2>2. QED
    BY <2>1 DEF Earlier
<1>6. Passed(m, sd2, p)
  BY <1>1 DEF Passed, Order
<1>7. ASSUME NEW q, Waiting(q, tk, sd2, p) PROVE Waiting(q, Append(tk, m), sd2, p)
  <2>1. \A k \in DOMAIN Append(tk, m) :
          Append(tk, m)[k] = m \/ \E i \in DOMAIN tk : Append(tk, m)[k] = tk[i]
    BY <1>3, <1>5, TakeInOrder
  <2>2. \A x \in Messages : x[1] # Loop => Earlier(m, x)
    BY DEF Earlier
  <2>3. QED
    BY <1>7, <2>1, <2>2 DEF Waiting
<1>8. /\ Append(tk, m) \in Seq(Messages) /\ InOrder(Append(tk, m))
      /\ \A k \in DOMAIN Append(tk, m) : Passed(Append(tk, m)[k], sd2, p)
  <2>1. /\ Append(tk, m) \in Seq(Messages) /\ InOrder(Append(tk, m))
        /\ \A k \in DOMAIN Append(tk, m) :
             Append(tk, m)[k] = m \/ \E i \in DOMAIN tk : Append(tk, m)[k] = tk[i]
    BY <1>3, <1>5, TakeInOrder
  <2>2. \A k \in DOMAIN tk : Passed(tk[k], sd2, p)
    BY <1>4 DEF Order
  <2> HIDE DEF m
  <2>3. QED
    BY <1>6, <2>1, <2>2
<1> HIDE DEF m
<1>9. Order(Append(tk, m), bt, qu, sd2, p)
  BY <1>4, <1>7, <1>8 DEF Order
<1>10. QED
  BY <1>4, <1>9 DEF m

(* The first closure of batch is taken out, and its message, if it has one  *)
(* and the kernel or outputBuffer_ gets it, comes after those taken.        *)
LEMMA OrderRun ==
  ASSUME NEW tk, NEW bt, NEW qu, NEW sd, NEW p, Order(tk, bt, qu, sd, p), bt # <<>>
  PROVE  /\ Order(tk, Tail(bt), qu, sd, p)
         /\ \A m \in Messages :
              Head(bt) = <<"send", m>> => Order(Append(tk, m), Tail(bt), qu, sd, p)
<1>1. /\ tk \in Seq(Messages) /\ bt \in Seq(Task) /\ InOrder(tk)
      /\ Waiting(bt, tk, sd, p) /\ Waiting(qu, tk, sd, p)
      /\ Sorted(bt) /\ Sorted(qu) /\ Ahead(bt, qu)
      /\ \A k \in DOMAIN tk : Passed(tk[k], sd, p)
  BY DEF Order
<1>2. /\ \A i \in Nat : \A m : SendAt(Tail(bt), i, m) => i > 0 /\ SendAt(bt, i + 1, m)
      /\ \A m : Head(bt) = <<"send", m>> => SendAt(bt, 1, m)
      /\ Tail(bt) \in Seq(Task)
  BY <1>1, SendAtTail
<1>3. \A i, j \in Nat : i + 1 \in Nat /\ (i < j => i + 1 < j + 1) /\ (i > 0 => 1 < i + 1)
  OBVIOUS
<1>4. Waiting(Tail(bt), tk, sd, p)
  BY <1>1, <1>2, <1>3 DEF Waiting
<1>5. Sorted(Tail(bt))
  BY <1>1, <1>2, <1>3 DEF Sorted
<1>6. Ahead(Tail(bt), qu)
  BY <1>1, <1>2, <1>3 DEF Ahead
<1>7. Order(tk, Tail(bt), qu, sd, p)
  BY <1>2, <1>4, <1>5, <1>6 DEF Order
<1>8. ASSUME NEW m \in Messages, Head(bt) = <<"send", m>>
      PROVE  Order(Append(tk, m), Tail(bt), qu, sd, p)
  <2>1. SendAt(bt, 1, m)
    BY <1>2, <1>8
  <2>2. Passed(m, sd, p) /\ \A k \in DOMAIN tk : Earlier(tk[k], m)
    BY <1>1, <2>1 DEF Waiting
  <2>3. /\ Append(tk, m) \in Seq(Messages) /\ InOrder(Append(tk, m))
        /\ \A k \in DOMAIN Append(tk, m) :
             Append(tk, m)[k] = m \/ \E i \in DOMAIN tk : Append(tk, m)[k] = tk[i]
    BY <1>1, <2>2, TakeInOrder
  <2>4. \A k \in DOMAIN Append(tk, m) : Passed(Append(tk, m)[k], sd, p)
    BY <1>1, <2>2, <2>3
  <2>5. ASSUME NEW q, Waiting(q, tk, sd, p),
               \A i \in Nat, x \in Messages : SendAt(q, i, x) => Earlier(m, x)
        PROVE  Waiting(q, Append(tk, m), sd, p)
    BY <2>3, <2>5 DEF Waiting
  <2>6. Waiting(Tail(bt), Append(tk, m), sd, p)
    <3>1. \A i \in Nat, x \in Messages : SendAt(Tail(bt), i, x) => Earlier(m, x)
      BY <1>1, <1>2, <1>3, <2>1 DEF Sorted
    <3>2. QED
      BY <1>4, <2>5, <3>1
  <2>7. Waiting(qu, Append(tk, m), sd, p)
    <3>1. \A i \in Nat, x \in Messages : SendAt(qu, i, x) => Earlier(m, x)
      BY <1>1, <2>1 DEF Ahead
    <3>2. QED
      BY <1>1, <2>5, <3>1
  <2>8. QED
    BY <1>7, <2>3, <2>4, <2>6, <2>7 DEF Order
<1>9. QED
  BY <1>7, <1>8

(* handleTask swaps the queues. *)
LEMMA OrderSwap ==
  ASSUME NEW tk, NEW bt, NEW qu, NEW sd, NEW p, Order(tk, bt, qu, sd, p)
  PROVE  Order(tk, qu, <<>>, sd, p)
<1>1. <<>> \in Seq(Task) /\ \A i, m : ~SendAt(<<>>, i, m)
  BY EmptySeq DEF SendAt
<1>2. QED
  BY <1>1 DEF Order, Waiting, Sorted, Ahead

(* A thread passes the test of state_ ... *)
LEMMA OrderSend ==
  ASSUME NEW tk, NEW bt, NEW qu, NEW sd, NEW p, Order(tk, bt, qu, sd, p),
         NEW t \in Others, NEW sd2, NEW p2,
         sd2 = [sd EXCEPT ![t] = @ + 1], p2 = [p EXCEPT ![t] = "queue"]
  PROVE  Order(tk, bt, qu, sd2, p2)
<1>1. /\ sd \in [Threads -> Nat] /\ p \in [Threads -> {"idle", "queue"}]
      /\ t \in Threads /\ t # Loop /\ tk \in Seq(Messages)
  BY ConnectionAssumption DEF Order, Threads
<1>2. /\ sd2 \in [Threads -> Nat] /\ p2 \in [Threads -> {"idle", "queue"}]
      /\ p2[Loop] = p[Loop]
  BY <1>1
<1>3. ASSUME NEW m \in Messages, Passed(m, sd, p) PROVE Passed(m, sd2, p2)
  <2>1. m[1] \in Threads /\ m[2] \in Nat
    BY ConnectionAssumption DEF Messages
  <2>2. CASE m[1] = t
    BY <1>1, <1>3, <2>1, <2>2 DEF Passed
  <2>3. CASE m[1] # t
    <3>1. sd2[m[1]] = sd[m[1]] /\ p2[m[1]] = p[m[1]]
      BY <1>1, <2>1, <2>3
    <3>2. QED
      BY <1>3, <3>1 DEF Passed
  <2>4. QED
    BY <2>2, <2>3
<1>4. \A k \in DOMAIN tk : tk[k] \in Messages
  BY <1>1, LenProperties, ElementOfSeq
<1>5. QED
  BY <1>2, <1>3, <1>4 DEF Order, Waiting

(* ... and queues. *)
LEMMA OrderQueue ==
  ASSUME NEW tk, NEW bt, NEW qu, NEW sd, NEW p, Order(tk, bt, qu, sd, p),
         NEW t \in Others, p[t] = "queue", <<t, sd[t]>> \in Messages,
         NEW p2, p2 = [p EXCEPT ![t] = "idle"]
  PROVE  Order(tk, bt, Append(qu, <<"send", <<t, sd[t]>>>>), sd, p2)
<1> DEFINE m == <<t, sd[t]>>
           q == Append(qu, <<"send", m>>)
<1>1. /\ sd \in [Threads -> Nat] /\ p \in [Threads -> {"idle", "queue"}]
      /\ t \in Threads /\ t # Loop /\ tk \in Seq(Messages) /\ qu \in Seq(Task)
      /\ Waiting(bt, tk, sd, p) /\ Waiting(qu, tk, sd, p)
      /\ Sorted(bt) /\ Sorted(qu) /\ Ahead(bt, qu)
      /\ \A k \in DOMAIN tk : Passed(tk[k], sd, p)
  BY ConnectionAssumption DEF Order, Threads
<1>2. p2 \in [Threads -> {"idle", "queue"}] /\ p2[Loop] = p[Loop]
      /\ \A u \in Threads : p2[u] = "queue" => p[u] = "queue"
  BY <1>1
<1>3. \A x \in Messages : Passed(x, sd, p) => Passed(x, sd, p2)
  BY <1>2 DEF Passed, Messages
<1>4. \A x \in Messages : Passed(x, sd, p) => Earlier(x, m)
  BY DEF Passed, Earlier
<1>5. m[1] # Loop /\ Passed(m, sd, p2)
  BY <1>1 DEF Passed
<1>6. <<"send", m>> \in Task
  BY DEF Task
<1>7. /\ q \in Seq(Task)
      /\ \A i, x : SendAt(q, i, x) <=>
           SendAt(qu, i, x) \/ (i = Len(qu) + 1 /\ <<"send", m>> = <<"send", x>>)
      /\ \A i, x : SendAt(qu, i, x) => i \in Nat /\ i < Len(qu) + 1
  BY <1>1, <1>6, SendAtAppend, AppendType
<1>8. \A x : <<"send", m>> = <<"send", x>> => x = m
  OBVIOUS
<1>9. \A k \in DOMAIN tk : tk[k] \in Messages
  BY <1>1, LenProperties, ElementOfSeq
<1> HIDE DEF m, q
<1>10. Waiting(bt, tk, sd, p2)
  BY <1>1, <1>3 DEF Waiting
<1>11. Waiting(q, tk, sd, p2)
  BY <1>1, <1>3, <1>4, <1>5, <1>7, <1>8, <1>9 DEF Waiting
<1>12. Sorted(q)
  <2>1. ASSUME NEW i \in Nat, NEW j \in Nat, NEW x \in Messages, NEW y \in Messages,
               SendAt(q, i, x), SendAt(q, j, y), i < j
        PROVE  Earlier(x, y)
    <3>1. Len(qu) \in Nat
      BY <1>1, LenProperties
    <3>2. SendAt(qu, i, x)
      BY <1>7, <2>1, <3>1
    <3>3. Passed(x, sd, p)
      BY <1>1, <3>2 DEF Waiting
    <3>4. QED
      BY <1>1, <1>4, <1>7, <1>8, <2>1, <3>2, <3>3 DEF Sorted
  <2>2. QED
    BY <2>1 DEF Sorted
<1>13. Ahead(bt, q)
  <2>1. ASSUME NEW i \in Nat, NEW j \in Nat, NEW x \in Messages, NEW y \in Messages,
               SendAt(bt, i, x), SendAt(q, j, y)
        PROVE  Earlier(x, y)
    <3>1. Passed(x, sd, p)
      BY <1>1, <2>1 DEF Waiting
    <3>2. QED
      BY <1>1, <1>4, <1>7, <1>8, <2>1, <3>1 DEF Ahead
  <2>2. QED
    BY <2>1 DEF Ahead
<1>14. Order(tk, bt, q, sd, p2)
  BY <1>2, <1>3, <1>7, <1>9, <1>10, <1>11, <1>12, <1>13 DEF Order
<1>15. QED
  BY <1>14 DEF q, m

LEMMA SendTakes ==
  ASSUME NEW m, sendInloop(m)
  PROVE  /\ taken' \in {taken, Append(taken, m)}
         /\ queue' \in {queue, Append(queue, <<"complete">>), Append(queue, <<"highWater">>)}
  BY DEF sendInloop, SendBehind, SendRefused, SendTaken, Store, Push, TellComplete, sndq

OrderOK == Order(taken, batch, queue, sends, pc)

(* A step that takes no message and queues at most a closure that is no     *)
(* send keeps the order.                                                    *)
LEMMA OrderKept ==
  ASSUME NEW tk, NEW bt, NEW qu, NEW sd, NEW p, Order(tk, bt, qu, sd, p),
         NEW qu2, qu2 \in {qu, Append(qu, <<"close">>), Append(qu, <<"complete">>),
                           Append(qu, <<"highWater">>)}
  PROVE  Order(tk, bt, qu2, sd, p)
<1>1. CASE qu2 = qu
  BY <1>1
<1>2. CASE qu2 = Append(qu, <<"close">>)
  <2>1. Order(tk, bt, Append(qu, <<"close">>), sd, p)
    BY OrderPush
  <2>2. QED
    BY <1>2, <2>1
<1>3. CASE qu2 = Append(qu, <<"complete">>)
  <2>1. Order(tk, bt, Append(qu, <<"complete">>), sd, p)
    BY OrderPush
  <2>2. QED
    BY <1>3, <2>1
<1>4. CASE qu2 = Append(qu, <<"highWater">>)
  <2>1. Order(tk, bt, Append(qu, <<"highWater">>), sd, p)
    BY OrderPush
  <2>2. QED
    BY <1>4, <2>1
<1>5. QED
  BY <1>1, <1>2, <1>3, <1>4

(* What the steps that take no message leave alone. *)
LEMMA QuietFrame ==
  ASSUME Quiet \/ PeerStep \/ (\E t \in Threads : Release(t)) \/ activeCloseHere
         \/ UNCHANGED vars
  PROVE  UNCHANGED <<taken, batch, queue, sends, pc, output, sent, reported>>
<1>1. CASE Quiet
  <2>1. ASSUME NoRead \/ handleRead \/ handleReadError \/ handleClose \/ onMessageReturns
               \/ onDisConnectReturns \/ NoWrite
        PROVE  UNCHANGED <<taken, batch, queue, sends, pc, output, sent, reported>>
    BY <2>1 DEF NoRead, handleRead, handleReadError, handleClose, onMessageReturns,
                onDisConnectReturns, NoWrite, conn, callers, sndq
  <2>2. ASSUME handleWriteError \/ UseFreed \/ Poll \/ CallbackReturns \/ EndTasks
        PROVE  UNCHANGED <<taken, batch, queue, sends, pc, output, sent, reported>>
    BY <2>2 DEF handleWriteError, UseFreed, Poll, CallbackReturns, EndTasks, conn, loop, callers, sndq
  <2>3. QED
    BY <1>1, <2>1, <2>2 DEF Quiet
<1>2. CASE PeerStep
  BY <1>2 DEF PeerStep, PeerSends, PeerReads, PeerCloses, PeerResets, conn, loop, callers, sndq
<1>3. ASSUME NEW t \in Threads, Release(t)
      PROVE  UNCHANGED <<taken, batch, queue, sends, pc, output, sent, reported>>
  BY <1>3 DEF Release, conn, loop, callers, sndq
<1>4. CASE activeCloseHere
  BY <1>4 DEF activeCloseHere, loop, sndq
<1>5. CASE UNCHANGED vars
  BY <1>5 DEF vars, conn, loop, callers, sndq
<1>6. QED
  BY <1>1, <1>2, <1>3, <1>4, <1>5

LEMMA OrderStep ==
  ASSUME SenderKeepsBuffer, TypeOK, IssuedOK, OrderOK, [Next]_vars
  PROVE  OrderOK'
<1> DEFINE P == Order(taken', batch', queue', sends', pc')
<1> SUFFICES P
  BY DEF OrderOK, Order, Waiting, Sorted, Ahead, InOrder, Passed, Earlier, SendAt
<1>1. Order(taken, batch, queue, sends, pc)
  BY DEF OrderOK
<1>2. ASSUME UNCHANGED <<taken, batch, sends, pc>>,
             queue' \in {queue, Append(queue, <<"close">>), Append(queue, <<"complete">>)}
      PROVE  P
  <2>1. Order(taken, batch, queue', sends, pc)
    BY <1>1, <1>2, OrderKept
  <2>2. QED
    BY <1>2, <2>1
<1>3. ASSUME NEW t \in Others, send(t) PROVE P
  <2>1. /\ sends' = [sends EXCEPT ![t] = @ + 1] /\ pc' = [pc EXCEPT ![t] = "queue"]
        /\ UNCHANGED <<taken, batch, queue>>
    BY <1>3 DEF send, conn, loop
  <2>2. Order(taken, batch, queue, sends', pc')
    BY <1>1, <2>1, OrderSend
  <2>3. QED
    BY <2>1, <2>2
<1>4. ASSUME NEW t \in Others, sendQueue(t) PROVE P
  <2>1. /\ pc[t] = "queue" /\ pc' = [pc EXCEPT ![t] = "idle"]
        /\ queue' = Append(queue, <<"send", <<t, sends[t]>>>>)
        /\ UNCHANGED <<taken, batch, sends>>
    BY <1>4 DEF sendQueue, Push, conn
  <2>2. <<t, sends[t]>> \in Messages
    BY <2>1 DEF IssuedOK, Issued, TypeOK, Messages, Threads
  <2>3. Order(taken, batch, Append(queue, <<"send", <<t, sends[t]>>>>), sends, pc')
    BY <1>1, <2>1, <2>2, OrderQueue
  <2>4. QED
    BY <2>1, <2>3
<1>5. ASSUME NEW t \in Others, activeClose(t) PROVE P
  <2>1. UNCHANGED <<taken, batch, sends, pc>> /\ queue' = Append(queue, <<"close">>)
    BY <1>5 DEF activeClose, Push, conn
  <2>2. QED
    BY <1>2, <2>1
<1>6. ASSUME NEW m \in Messages, NEW bt, NEW sd,
             sendInloop(m), batch' = bt, sends' = sd, pc' = pc,
             Order(taken, bt, queue, sd, pc), Order(Append(taken, m), bt, queue, sd, pc)
      PROVE  P
  <2>1. /\ taken' = taken \/ taken' = Append(taken, m)
        /\ queue' \in {queue, Append(queue, <<"close">>), Append(queue, <<"complete">>),
                       Append(queue, <<"highWater">>)}
    BY <1>6, SendTakes
  <2>2. Order(taken', bt, queue, sd, pc)
    BY <1>6, <2>1
  <2>3. Order(taken', bt, queue', sd, pc)
    BY <2>1, <2>2, OrderKept
  <2>4. QED
    BY <1>6, <2>3
<1>7. CASE sendHere
  <2> DEFINE m == <<Loop, sends'[Loop]>>
  <2>1. /\ sends' = [sends EXCEPT ![Loop] = @ + 1] /\ sends[Loop] < MaxSends
        /\ sendInloop(m) /\ UNCHANGED <<batch, pc>>
    BY <1>7 DEF sendHere
  <2>2. m \in Messages
    <3>1. /\ Loop \in Threads /\ sends \in [Threads -> 0..MaxSends] /\ MaxSends \in Nat
      BY ConnectionAssumption DEF TypeOK, Threads
    <3>2. sends'[Loop] \in 1..MaxSends
      BY <2>1, <3>1
    <3>3. QED
      BY <3>1, <3>2 DEF Messages
  <2>3. Order(taken, batch, queue, sends', pc) /\ Order(Append(taken, m), batch, queue, sends', pc)
    BY <1>1, <2>1, <2>2, OrderHere
  <2> HIDE DEF m
  <2>4. QED
    BY <1>6, <2>1, <2>2, <2>3
<1>8. CASE RunSend
  <2>1. PICK m \in Messages :
          /\ RunTask(<<"send", m>>)
          /\ sendInloop(IF SenderKeepsBuffer THEN m ELSE <<m[1], sends[m[1]]>>)
          /\ UNCHANGED callers
    BY <1>8 DEF RunSend
  <2>2. sendInloop(m)
    BY <2>1
  <2>3. /\ batch # <<>> /\ Head(batch) = <<"send", m>> /\ batch' = Tail(batch)
        /\ UNCHANGED <<sends, pc>>
    BY <2>1 DEF RunTask, callers
  <2>4. /\ Order(taken, Tail(batch), queue, sends, pc)
        /\ Order(Append(taken, m), Tail(batch), queue, sends, pc)
    BY <1>1, <2>3, OrderRun
  <2>5. QED
    BY <1>6, <2>2, <2>3, <2>4
<1>9. CASE RunClose \/ RunCallback
  <2>1. batch # <<>> /\ batch' = Tail(batch) /\ UNCHANGED <<taken, queue, sends, pc>>
    BY <1>9 DEF RunClose, RunCallback, RunTask, conn, callers
  <2>2. Order(taken, Tail(batch), queue, sends, pc)
    BY <1>1, <2>1, OrderRun
  <2>3. QED
    BY <2>1, <2>2
<1>10. CASE handleTask
  <2>1. batch' = queue /\ queue' = <<>> /\ UNCHANGED <<taken, sends, pc>>
    BY <1>10 DEF handleTask, conn, callers
  <2>2. Order(taken, queue, <<>>, sends, pc)
    BY <1>1, OrderSwap
  <2>3. QED
    BY <2>1, <2>2
<1>11. CASE handleWrite
  <2>1. queue' \in {queue, Append(queue, <<"complete">>)} /\ UNCHANGED <<taken, batch, sends, pc>>
    BY <1>11 DEF handleWrite, TellComplete, Push, callers
  <2>2. QED
    BY <1>2, <2>1
<1>12. CASE Quiet \/ PeerStep \/ (\E t \in Threads : Release(t)) \/ activeCloseHere
            \/ UNCHANGED vars
  <2>1. UNCHANGED <<taken, batch, queue, sends, pc>>
    BY <1>12, QuietFrame
  <2>2. QED
    BY <1>2, <2>1
<1>13. QED
  BY <1>3, <1>4, <1>5, <1>7, <1>8, <1>9, <1>10, <1>11, <1>12
     DEF Next, UserStep, LoopStep, HandleEvent, RunTasks, Quiet

(* With senders that leave their bytes alone until the closure has run, the *)
(* messages of a thread are taken in the order it sent them, and each once, *)
(* for any number of threads: no swap of the closure queue and no send in   *)
(* place overtakes.                                                         *)
THEOREM SendersKeepOrder ==
  ASSUME SenderKeepsBuffer
  PROVE  Spec => []SenderOrder
<1>1. Init => OrderOK
  <2> SUFFICES ASSUME Init PROVE OrderOK
    OBVIOUS
  <2>1. <<>> \in Seq(Messages) /\ <<>> \in Seq(Task) /\ DOMAIN <<>> = {}
        /\ \A i, m : ~SendAt(<<>>, i, m)
    BY EmptySeq DEF SendAt
  <2>2. /\ sends \in [Threads -> Nat] /\ pc \in [Threads -> {"idle", "queue"}]
        /\ pc[Loop] = "idle"
    BY DEF Init, Threads
  <2>3. taken = <<>> /\ batch = <<>> /\ queue = <<>>
    BY DEF Init
  <2>4. QED
    BY <2>1, <2>2, <2>3 DEF OrderOK, Order, InOrder, Waiting, Sorted, Ahead
<1>2. TypeOK /\ IssuedOK /\ OrderOK /\ [Next]_vars => OrderOK'
  BY OrderStep
<1>3. OrderOK => SenderOrder
  BY DEF OrderOK, Order, InOrder, Earlier, SenderOrder
<1>4. QED
  BY <1>1, <1>2, <1>3, InitTyped, TypedStep, PTL DEF Spec

-----------------------------------------------------------------------------
(* Completion.  Without a high water mark, bytes that have all left since   *)
(* the last report have a report on its way; batch is in use only while     *)
(* handleTask runs, so that its swap drops none.                            *)

Has(q) == \E i \in DOMAIN q : q[i] = <<"complete">>

Owed == output = <<>> /\ reported < Len(sent) => Has(queue) \/ Has(batch)

BatchInUse == phase \in {"tasks", "callback"} \/ batch = <<>>

LEMMA HasAppend ==
  ASSUME NEW q \in Seq(Task), NEW task \in Task
  PROVE  /\ Has(q) => Has(Append(q, task))
         /\ Has(Append(q, <<"complete">>))
<1>1. <<"complete">> \in Task
  BY DEF Task
<1>2. ASSUME NEW x \in Task
      PROVE  /\ Has(q) => Has(Append(q, x))
             /\ x = <<"complete">> => Has(Append(q, x))
  <2>1. /\ Len(q) \in Nat /\ DOMAIN q = 1..Len(q) /\ DOMAIN Append(q, x) = 1..Len(q) + 1
        /\ \A i \in 1..Len(q) : Append(q, x)[i] = q[i]
        /\ Append(q, x)[Len(q) + 1] = x
    BY AppendProperties, LenProperties
  <2>2. QED
    BY <2>1 DEF Has
<1>3. QED
  BY <1>1, <1>2

LEMMA HasTail ==
  ASSUME NEW q \in Seq(Task), q # <<>>, Head(q) # <<"complete">>, Has(q)
  PROVE  Has(Tail(q))
<1>1. PICK i \in DOMAIN q : q[i] = <<"complete">>
  BY DEF Has
<1>2. /\ Len(q) \in Nat /\ DOMAIN q = 1..Len(q) /\ Head(q) = q[1]
      /\ Tail(q) \in Seq(Task) /\ Len(Tail(q)) = Len(q) - 1
      /\ \A j \in 1..Len(Tail(q)) : Tail(q)[j] = q[j + 1]
  BY HeadTailProperties, LenProperties, EmptySeq
<1>3. DOMAIN Tail(q) = 1..Len(q) - 1
  BY <1>2, LenProperties
<1>4. i - 1 \in 1..Len(q) - 1
  BY <1>1, <1>2
<1>5. Tail(q)[i - 1] = <<"complete">>
  BY <1>1, <1>2, <1>4
<1>6. QED
  BY <1>3, <1>4, <1>5 DEF Has

LEMMA HasConcat ==
  ASSUME NEW q \in Seq(Task), NEW r \in Seq(Task), Has(q) \/ Has(r)
  PROVE  \E i \in DOMAIN (q \o r) : (q \o r)[i] = <<"complete">>
<1>1. /\ Len(q) \in Nat /\ DOMAIN q = 1..Len(q) /\ Len(r) \in Nat /\ DOMAIN r = 1..Len(r)
      /\ q \o r \in Seq(Task) /\ Len(q \o r) = Len(q) + Len(r)
      /\ \A i \in 1..Len(q) + Len(r) :
           (q \o r)[i] = IF i <= Len(q) THEN q[i] ELSE r[i - Len(q)]
  BY ConcatProperties, LenProperties
<1>2. DOMAIN (q \o r) = 1..Len(q) + Len(r)
  BY <1>1, LenProperties
<1>3. CASE Has(q)
  <2>1. PICK i \in 1..Len(q) : q[i] = <<"complete">>
    BY <1>1, <1>3 DEF Has
  <2>2. i \in 1..Len(q) + Len(r) /\ (q \o r)[i] = <<"complete">>
    BY <1>1, <2>1
  <2>3. QED
    BY <1>2, <2>2
<1>4. CASE Has(r)
  <2>1. PICK i \in 1..Len(r) : r[i] = <<"complete">>
    BY <1>1, <1>4 DEF Has
  <2>2. i + Len(q) \in 1..Len(q) + Len(r) /\ (q \o r)[i + Len(q)] = <<"complete">>
    BY <1>1, <2>1
  <2>3. QED
    BY <1>2, <2>2
<1>5. QED
  BY <1>3, <1>4

(* A send leaves bytes waiting, or sends none, or has completion reported.  *)
LEMMA SendOwes ==
  ASSUME HighWaterMark = 0, TypeOK, NEW m \in Messages, sendInloop(m)
  PROVE  \/ output' # <<>>
         \/ UNCHANGED <<output, sent, queue>>
         \/ queue' = Append(queue, <<"complete">>)
<1> DEFINE n == Accepted(MsgLen)
           b == Bytes(m)
<1>1. b \in Seq(Byte) /\ Len(b) = MsgLen /\ MsgLen \in Nat /\ MsgLen > 0
  BY BytesType, ConnectionAssumption
<1>2. n \in 0..MsgLen
  BY <1>1, AcceptedType DEF TypeOK
<1>3. Unsent(b, n) \in Seq(Byte) /\ Len(Unsent(b, n)) = MsgLen - n
  BY <1>1, <1>2, SplitType
<1>4. output \in Seq(Byte) /\ Len(output) \in Nat
  BY LenProperties DEF TypeOK
<1>5. ASSUME NEW s \in Seq(Byte), Len(s) > 0, Store(m, s) PROVE output' # <<>>
  <2>1. output' = output \o s /\ Len(s) \in Nat
    BY <1>5, LenProperties DEF Store
  <2>2. output' \in Seq(Byte) /\ Len(output') = Len(output) + Len(s)
    BY <1>4, <2>1, ConcatType
  <2>3. Len(output') > 0
    BY <1>4, <1>5, <2>1, <2>2
  <2>4. QED
    BY <2>2, <2>3, EmptySeq
<1>6. ~Unaffordable(MsgLen) /\ ~(HighWaterMark > 0)
  BY DEF Unaffordable
<1> HIDE DEF n, b
<1>7. Store(m, b) => output' # <<>>
  BY <1>1, <1>5
<1>8. Store(m, Unsent(b, n)) /\ n < MsgLen => output' # <<>>
  <2>1. n < MsgLen => Len(Unsent(b, n)) > 0
    BY <1>1, <1>2, <1>3
  <2>2. QED
    BY <1>3, <1>5, <2>1
<1>9. CASE SendBehind(m)
  BY <1>6, <1>7, <1>9 DEF SendBehind, b
<1>10. CASE SendRefused(m)
  BY <1>7, <1>10 DEF SendRefused, b
<1>11. CASE SendTaken(m)
  BY <1>6, <1>8, <1>11 DEF SendTaken, TellComplete, Push, b, n
<1>12. QED
  BY <1>9, <1>10, <1>11 DEF sendInloop

LEMMA OwedStep ==
  ASSUME HighWaterMark = 0, TypeOK, IssuedOK, Owed, BatchInUse, [Next]_vars
  PROVE  Owed' /\ BatchInUse'
<1>1. queue \in Seq(Task) /\ batch \in Seq(Task)
  BY DEF TypeOK
<1>2. ASSUME NEW task \in Task, queue' = Append(queue, task)
      PROVE  Has(queue) => Has(queue)'
  <2>1. Has(queue) => Has(Append(queue, task))
    BY <1>1, HasAppend
  <2>2. QED
    BY <1>2, <2>1 DEF Has
<1>3. ASSUME queue' = Append(queue, <<"complete">>) PROVE Has(queue)'
  <2>1. Has(Append(queue, <<"complete">>))
    BY <1>1, HasAppend DEF Task
  <2>2. QED
    BY <1>3, <2>1 DEF Has
<1>4. ASSUME queue' = queue PROVE Has(queue) => Has(queue)'
  BY <1>4 DEF Has
<1>5. ASSUME batch' = batch PROVE Has(batch) => Has(batch)'
  BY <1>5 DEF Has
<1>6. ASSUME batch # <<>>, batch' = Tail(batch), Head(batch) # <<"complete">>
      PROVE  Has(batch) => Has(batch)'
  <2>1. Has(batch) => Has(Tail(batch))
    BY <1>1, <1>6, HasTail
  <2>2. QED
    BY <1>6, <2>1 DEF Has
<1>7. ASSUME UNCHANGED <<output, sent, reported>>, Has(queue) => Has(queue)',
             Has(batch) => Has(batch)'
      PROVE  Owed'
  BY <1>7 DEF Owed
<1>8. ASSUME UNCHANGED <<batch, phase>> PROVE BatchInUse'
  BY <1>8 DEF BatchInUse
<1>9. ASSUME NEW m \in Messages, sendInloop(m), UNCHANGED reported,
             Has(batch) => Has(batch)'
      PROVE  Owed'
  <2>1. CASE output' # <<>>
    BY <2>1 DEF Owed
  <2>2. CASE UNCHANGED <<output, sent, queue>>
    BY <1>4, <1>7, <1>9, <2>2
  <2>3. CASE queue' = Append(queue, <<"complete">>)
    BY <1>3, <2>3 DEF Owed
  <2>4. QED
    BY <1>9, <2>1, <2>2, <2>3, SendOwes
<1>10. ASSUME UNCHANGED <<queue, batch, output, sent, reported>>
       PROVE  Owed'
  BY <1>4, <1>5, <1>7, <1>10
<1>11. ASSUME NEW t \in Others, send(t) \/ sendQueue(t) \/ activeClose(t)
       PROVE  Owed' /\ BatchInUse'
  <2>1. UNCHANGED <<output, sent, reported, batch, phase>>
    BY <1>11 DEF send, sendQueue, activeClose, conn, loop, sndq
  <2>2. queue' = queue \/ \E task \in Task : queue' = Append(queue, task)
    <3>1. CASE send(t)
      BY <3>1 DEF send, loop
    <3>2. CASE sendQueue(t)
      <4>1. <<t, sends[t]>> \in Messages /\ queue' = Append(queue, <<"send", <<t, sends[t]>>>>)
        BY <3>2 DEF sendQueue, Push, IssuedOK, Issued, TypeOK, Messages, Threads
      <4>2. QED
        BY <4>1 DEF Task
    <3>3. CASE activeClose(t)
      BY <3>3 DEF activeClose, Push, Task
    <3>4. QED
      BY <1>11, <3>1, <3>2, <3>3
  <2>3. Has(queue) => Has(queue)'
    BY <1>2, <1>4, <2>2
  <2>4. QED
    BY <1>5, <1>7, <1>8, <2>1, <2>3
<1>12. CASE sendHere
  <2>1. UNCHANGED <<reported, batch, phase>>
    BY <1>12 DEF sendHere
  <2>2. PICK m \in Messages : sendInloop(m)
    BY <1>12, SendHereMessage
  <2>3. Owed'
    BY <1>5, <1>9, <2>1, <2>2
  <2>4. QED
    BY <1>8, <2>1, <2>3
<1>13. CASE RunSend
  <2>1. UNCHANGED <<reported, phase>> /\ phase = "tasks" /\ batch # <<>> /\ batch' = Tail(batch)
        /\ Head(batch) # <<"complete">>
    BY <1>13 DEF RunSend, RunTask, At
  <2>2. PICK m \in Messages : sendInloop(m)
    BY <1>13, RunSendMessage
  <2>3. Owed'
    BY <1>6, <1>9, <2>1, <2>2
  <2>4. QED
    BY <2>1, <2>3 DEF BatchInUse
<1>14. CASE RunClose
  <2>1. /\ UNCHANGED <<output, sent, reported, queue, phase>> /\ phase = "tasks"
        /\ batch # <<>> /\ batch' = Tail(batch) /\ Head(batch) # <<"complete">>
    BY <1>14 DEF RunClose, RunTask, At, sndq
  <2>2. QED
    BY <1>4, <1>6, <1>7, <2>1 DEF BatchInUse
<1>15. CASE RunCallback
  <2>1. /\ UNCHANGED <<output, sent, queue>> /\ phase' = "callback"
        /\ batch # <<>> /\ batch' = Tail(batch)
    BY <1>15 DEF RunCallback, RunTask, conn, sndq
  <2>2. CASE reported' = Len(sent)
    <3>1. reported' = Len(sent') /\ Len(sent') \in Nat
      BY <2>1, <2>2, LenProperties DEF TypeOK
    <3>2. QED
      BY <2>1, <3>1 DEF Owed, BatchInUse
  <2>3. CASE UNCHANGED reported /\ Head(batch) = <<"highWater">>
    BY <1>4, <1>6, <1>7, <2>1, <2>3 DEF BatchInUse
  <2>4. QED
    BY <1>15, <2>2, <2>3 DEF RunCallback, RunTask
<1>16. CASE handleTask
  <2>1. /\ UNCHANGED <<output, sent, reported>> /\ phase = "after" /\ phase' = "tasks"
        /\ batch' = queue
    BY <1>16 DEF handleTask, At, conn, sndq
  <2>2. batch = <<>> /\ DOMAIN <<>> = {}
    BY <2>1, EmptySeq DEF BatchInUse
  <2>3. ~Has(batch)
    BY <2>2 DEF Has
  <2>4. Has(queue) => Has(batch)'
    BY <2>1 DEF Has
  <2>5. QED
    BY <2>1, <2>3, <2>4 DEF Owed, BatchInUse
<1>17. CASE handleWrite
  <2> DEFINE n == Accepted(Len(output))
  <2>1. output \in Seq(Byte) /\ Len(output) \in Nat
    BY LenProperties DEF TypeOK
  <2>2. n \in 0..Len(output)
    BY <2>1, AcceptedType DEF TypeOK
  <2>3. /\ output' = Unsent(output, n) /\ UNCHANGED batch
        /\ phase' = "after" /\ phase = "write"
        /\ \/ n = Len(output) /\ queue' = Append(queue, <<"complete">>)
           \/ n < Len(output)
    BY <1>17 DEF handleWrite, TellComplete, Push, At
  <2> HIDE DEF n
  <2>4. output' \in Seq(Byte) /\ Len(output') = Len(output) - n
    BY <2>1, <2>2, <2>3, SplitType
  <2>5. n < Len(output) => output' # <<>>
    BY <2>1, <2>2, <2>4, EmptySeq
  <2>6. Owed'
    BY <1>3, <2>3, <2>5 DEF Owed
  <2>7. QED
    BY <2>3, <2>6 DEF BatchInUse
<1>18. CASE Quiet \/ PeerStep \/ (\E t \in Threads : Release(t)) \/ activeCloseHere
            \/ UNCHANGED vars
  <2>1. UNCHANGED <<queue, batch, output, sent, reported>>
    BY <1>18, QuietFrame
  <2>2. phase \in {"tasks", "callback"} /\ batch # <<>> => phase' \in {"tasks", "callback"}
    <3>1. CASE Quiet
      BY <3>1 DEF Quiet, NoRead, handleRead, handleReadError, handleClose, onMessageReturns,
                  onDisConnectReturns, NoWrite, handleWriteError, UseFreed, Poll,
                  CallbackReturns, EndTasks, Reading, At, loop
    <3>2. CASE PeerStep
      BY <3>2 DEF PeerStep, PeerSends, PeerReads, PeerCloses, PeerResets, loop
    <3>3. ASSUME NEW t \in Threads, Release(t) PROVE UNCHANGED phase
      BY <3>3 DEF Release, loop
    <3>4. CASE activeCloseHere
      BY <3>4 DEF activeCloseHere, loop
    <3>5. CASE UNCHANGED vars
      BY <3>5 DEF vars, loop
    <3>6. QED
      BY <1>18, <3>1, <3>2, <3>3, <3>4, <3>5
  <2>3. BatchInUse'
    BY <2>1, <2>2 DEF BatchInUse
  <2>4. QED
    BY <1>10, <2>1, <2>3
<1>19. QED
  BY <1>11, <1>12, <1>13, <1>14, <1>15, <1>16, <1>17, <1>18
     DEF Next, UserStep, LoopStep, HandleEvent, RunTasks, Quiet

(* When no high water callback is set, bytes that have all been handed to   *)
(* the kernel are reported to the user: no branch of sendInloop, handleWrite*)
(* or handleTask loses the report, whatever is queued in between.           *)
THEOREM CompletionNeverLost ==
  ASSUME HighWaterMark = 0
  PROVE  Spec => []CompletionIsReported
<1>1. Init => Owed /\ BatchInUse
  <2> SUFFICES ASSUME Init PROVE Owed /\ BatchInUse
    OBVIOUS
  <2>1. reported = 0 /\ Len(sent) = 0 /\ batch = <<>>
    BY EmptySeq DEF Init
  <2>2. QED
    BY <2>1 DEF Owed, BatchInUse
<1>2. TypeOK /\ IssuedOK /\ Owed /\ BatchInUse /\ [Next]_vars => Owed' /\ BatchInUse'
  BY OwedStep
<1>3. TypeOK /\ Owed => CompletionIsReported
  <2> SUFFICES ASSUME TypeOK, Owed, output = <<>>, reported < Len(sent)
               PROVE  \E i \in DOMAIN (queue \o batch) : (queue \o batch)[i] = <<"complete">>
    BY DEF CompletionIsReported
  <2>1. queue \in Seq(Task) /\ batch \in Seq(Task)
    BY DEF TypeOK
  <2>2. Has(queue) \/ Has(batch)
    BY DEF Owed
  <2>3. QED
    BY <2>1, <2>2, HasConcat
<1>4. QED
  BY <1>1, <1>2, <1>3, InitTyped, TypedStep, PTL DEF Spec

-----------------------------------------------------------------------------
(* The stream, when no high water callback is set.                          *)

(* The message taken behind a whole stream leaves it whole.                 *)
LEMMA WholeAppend ==
  ASSUME NEW s \in Seq(Byte), NEW ms \in Seq(Messages), NEW m \in Messages, Whole(s, ms)
  PROVE  Whole(s \o Bytes(m), Append(ms, m))
<1> DEFINE b == Bytes(m)
           r == s \o b
           ns == Append(ms, m)
           L == Len(ms)
<1>1. MsgLen \in Nat /\ L \in Nat /\ DOMAIN ms = 1..L
  BY ConnectionAssumption, LenProperties
<1>2. /\ ns \in Seq(Messages) /\ Len(ns) = L + 1
      /\ \A k \in 1..L : ns[k] = ms[k]
      /\ ns[L + 1] = m
  BY AppendProperties
<1>3. DOMAIN ns = 1..L + 1
  BY <1>1, <1>2, LenProperties
<1>4. b \in Seq(Byte) /\ Len(b) = MsgLen
  BY BytesType
<1>5. Len(s) = L * MsgLen
  BY DEF Whole
<1>6. /\ Len(r) = Len(s) + MsgLen
      /\ \A p \in 1..Len(s) + MsgLen : r[p] = IF p <= Len(s) THEN s[p] ELSE b[p - Len(s)]
  BY <1>4, ConcatProperties
<1> HIDE DEF b, r, ns, L
<1>7. Len(r) = Len(ns) * MsgLen
  BY <1>1, <1>2, <1>5, <1>6
<1>8. ASSUME NEW k \in 1..L, NEW i \in 1..MsgLen
      PROVE  r[(k - 1) * MsgLen + i] = Bytes(ns[k])[i]
  <2> DEFINE p == (k - 1) * MsgLen + i
  <2>1. (k - 1) * MsgLen \in Nat /\ (k - 1) * MsgLen <= (L - 1) * MsgLen
    BY <1>1
  <2>2. (L - 1) * MsgLen = L * MsgLen - MsgLen
    BY <1>1
  <2>3. p \in 1..Len(s)
    BY <1>1, <1>5, <2>1, <2>2
  <2>4. s[p] = Bytes(ms[k])[i]
    BY <1>1 DEF Whole
  <2> HIDE DEF p
  <2>5. r[p] = s[p]
    BY <1>1, <1>6, <2>3
  <2>6. QED
    BY <1>2, <2>4, <2>5 DEF p
<1>9. ASSUME NEW i \in 1..MsgLen
      PROVE  r[((L + 1) - 1) * MsgLen + i] = Bytes(ns[L + 1])[i]
  <2>1. (L + 1) - 1 = L
    BY <1>1
  <2>2. Len(s) \in Nat
    BY LenProperties
  <2>3. r[Len(s) + i] = b[i]
    BY <1>1, <1>6, <2>2
  <2>4. QED
    BY <1>2, <1>5, <2>1, <2>3 DEF b
<1>10. \A k \in DOMAIN ns, i \in 1..MsgLen : r[(k - 1) * MsgLen + i] = Bytes(ns[k])[i]
  <2> TAKE k \in DOMAIN ns, i \in 1..MsgLen
  <2>1. k \in 1..L \/ k = L + 1
    BY <1>1, <1>3
  <2>2. QED
    BY <1>8, <1>9, <2>1
<1>11. QED
  BY <1>7, <1>10 DEF Whole, r, ns, b

(* What is sent of a buffer and what is left of it make the buffer.         *)
LEMMA SplitJoins ==
  ASSUME NEW s \in Seq(Byte), NEW n \in 0..Len(s)
  PROVE  SubSeq(s, 1, n) \o Unsent(s, n) = s
<1>1. Len(s) \in Nat
  BY LenProperties
<1>2. SubSeq(s, 1, n) \o SubSeq(s, n + 1, Len(s)) = SubSeq(s, 1, Len(s))
  <2>1. 1 \in 1..Len(s) + 1 /\ n \in 1 - 1..Len(s) /\ Len(s) \in n..Len(s)
    BY <1>1
  <2>2. QED
    BY <2>1, ConcatAdjacentSubSeq
<1>3. SubSeq(s, 1, Len(s)) = s
  BY SubSeqFull
<1>4. QED
  BY <1>2, <1>3 DEF Unsent

(* A send puts the message behind all that was taken before, or nothing.    *)
LEMMA SendExtends ==
  ASSUME HighWaterMark = 0, TypeOK, NEW m \in Messages, sendInloop(m)
  PROVE  \/ UNCHANGED <<output, sent, taken>>
         \/ /\ sent' \o output' = (sent \o output) \o Bytes(m)
            /\ taken' = Append(taken, m)
<1> DEFINE n == Accepted(MsgLen)
           b == Bytes(m)
           first == SubSeq(b, 1, n)
<1>1. b \in Seq(Byte) /\ Len(b) = MsgLen /\ MsgLen \in Nat
  BY BytesType, ConnectionAssumption
<1>2. n \in 0..MsgLen
  BY <1>1, AcceptedType DEF TypeOK
<1>3. Unsent(b, n) \in Seq(Byte) /\ first \in Seq(Byte)
  BY <1>1, <1>2, SplitType
<1>4. output \in Seq(Byte) /\ sent \in Seq(Byte)
  BY DEF TypeOK
<1>5. first \o Unsent(b, n) = b
  BY <1>1, <1>2, SplitJoins
<1>6. n = MsgLen => first = b
  <2>1. SubSeq(b, 1, Len(b)) = b
    BY <1>1, SubSeqFull
  <2>2. QED
    BY <1>1, <2>1
<1>7. ~Unaffordable(MsgLen) /\ ~(HighWaterMark > 0)
  BY DEF Unaffordable
<1> HIDE DEF n, b, first
<1>8. ASSUME UNCHANGED sent, Store(m, b)
      PROVE  sent' \o output' = (sent \o output) \o b /\ taken' = Append(taken, m)
  <2>1. (sent \o output) \o b = sent \o (output \o b)
    BY <1>1, <1>4, ConcatAssociative
  <2>2. QED
    BY <1>8, <2>1 DEF Store
<1>9. CASE SendBehind(m)
  BY <1>7, <1>8, <1>9 DEF SendBehind, sndq, b
<1>10. CASE SendRefused(m)
  BY <1>8, <1>10 DEF SendRefused, b
<1>11. CASE SendTaken(m)
  <2>1. output = <<>> /\ sent' = sent \o first
    BY <1>11 DEF SendTaken, n, b, first
  <2>2. sent \o output = sent
    BY <1>4, <2>1, ConcatEmptySeq
  <2>3. CASE n = MsgLen /\ taken' = Append(taken, m) /\ UNCHANGED output
    <3>1. sent' \in Seq(Byte)
      BY <1>3, <1>4, <2>1, ConcatType
    <3>2. sent' \o output' = sent'
      BY <2>1, <2>3, <3>1, ConcatEmptySeq
    <3>3. QED
      BY <1>6, <2>1, <2>2, <2>3, <3>2 DEF b
  <2>4. CASE Store(m, Unsent(b, n))
    <3>1. output' = Unsent(b, n) /\ taken' = Append(taken, m)
      BY <1>3, <2>1, <2>4, ConcatEmptySeq DEF Store
    <3>2. (sent \o first) \o Unsent(b, n) = sent \o (first \o Unsent(b, n))
      BY <1>3, <1>4, ConcatAssociative
    <3>3. QED
      BY <1>5, <2>1, <2>2, <3>1, <3>2 DEF b
  <2>5. QED
    BY <1>7, <1>11, <2>3, <2>4 DEF SendTaken, n, b
<1>12. QED
  BY <1>9, <1>10, <1>11 DEF sendInloop

LEMMA WholeStep ==
  ASSUME HighWaterMark = 0, TypeOK, IssuedOK, StreamIsWhole, [Next]_vars
  PROVE  StreamIsWhole'
<1>1. ASSUME UNCHANGED <<output, sent, taken>> PROVE StreamIsWhole'
  BY <1>1 DEF StreamIsWhole, Whole, Bytes
<1>2. ASSUME NEW m \in Messages, sendInloop(m) PROVE StreamIsWhole'
  <2>1. CASE UNCHANGED <<output, sent, taken>>
    BY <1>1, <2>1
  <2>2. CASE sent' \o output' = (sent \o output) \o Bytes(m) /\ taken' = Append(taken, m)
    <3>1. sent \o output \in Seq(Byte) /\ taken \in Seq(Messages)
      BY ConcatType DEF TypeOK
    <3>2. Whole((sent \o output) \o Bytes(m), Append(taken, m))
      BY <3>1, WholeAppend DEF StreamIsWhole
    <3>3. QED
      BY <2>2, <3>2 DEF StreamIsWhole, Whole, Bytes
  <2>3. QED
    BY <1>2, <2>1, <2>2, SendExtends
<1>3. CASE handleWrite
  <2> DEFINE n == Accepted(Len(output))
             first == SubSeq(output, 1, n)
  <2>1. output \in Seq(Byte) /\ sent \in Seq(Byte) /\ Len(output) \in Nat
    BY LenProperties DEF TypeOK
  <2>2. n \in 0..Len(output)
    BY <2>1, AcceptedType DEF TypeOK
  <2>3. Unsent(output, n) \in Seq(Byte) /\ first \in Seq(Byte)
    BY <2>1, <2>2, SplitType
  <2>4. first \o Unsent(output, n) = output
    BY <2>1, <2>2, SplitJoins
  <2>5. sent' = sent \o first /\ output' = Unsent(output, n) /\ UNCHANGED taken
    BY <1>3 DEF handleWrite
  <2> HIDE DEF n, first
  <2>6. sent' \o output' = sent \o output
    <3>1. (sent \o first) \o Unsent(output, n) = sent \o (first \o Unsent(output, n))
      BY <2>1, <2>3, ConcatAssociative
    <3>2. QED
      BY <2>4, <2>5, <3>1
  <2>7. QED
    BY <2>5, <2>6 DEF StreamIsWhole
<1>4. ASSUME NEW t \in Others, send(t) \/ sendQueue(t) \/ activeClose(t)
      PROVE  UNCHANGED <<output, sent, taken>>
  BY <1>4 DEF send, sendQueue, activeClose, conn, sndq
<1>5. CASE RunClose \/ RunCallback \/ handleTask
  <2>1. UNCHANGED <<output, sent, taken>>
    BY <1>5 DEF RunClose, RunCallback, handleTask, conn, sndq
  <2>2. QED
    BY <1>1, <2>1
<1>6. CASE sendHere
  BY <1>2, <1>6, SendHereMessage
<1>7. CASE RunSend
  BY <1>2, <1>7, RunSendMessage
<1>8. CASE Quiet \/ PeerStep \/ (\E t \in Threads : Release(t)) \/ activeCloseHere
           \/ UNCHANGED vars
  BY <1>1, <1>8, QuietFrame
<1>9. QED
  BY <1>1, <1>3, <1>4, <1>5, <1>6, <1>7, <1>8
     DEF Next, UserStep, LoopStep, HandleEvent, RunTasks, Quiet

(* When no high water callback is set, what has left and what waits is      *)
(* always the messages taken, whole and in their order, whatever the kernel *)
(* accepts of each send and whoever sends, closes or resets in between      *)
(* (with a callback set it is not: run TcpConnection_partial).              *)
THEOREM StreamStaysWhole ==
  ASSUME HighWaterMark = 0
  PROVE  Spec => []StreamIsWhole
<1>1. Init => StreamIsWhole
  <2> SUFFICES ASSUME Init PROVE StreamIsWhole
    OBVIOUS
  <2>1. sent = <<>> /\ output = <<>> /\ taken = <<>>
    BY DEF Init
  <2>2. sent \o output = <<>>
    BY <2>1, ConcatEmptySeq, EmptySeq
  <2>3. Len(<<>>) = 0 /\ DOMAIN <<>> = {} /\ 0 * MsgLen = 0
    BY ConnectionAssumption
  <2>4. QED
    BY <2>1, <2>2, <2>3 DEF StreamIsWhole, Whole
<1>2. TypeOK /\ IssuedOK /\ StreamIsWhole /\ [Next]_vars => StreamIsWhole'
  BY WholeStep
<1>3. QED
  BY <1>1, <1>2, InitTyped, TypedStep, PTL DEF Spec


-----------------------------------------------------------------------------
(* Faults.  Until the stream ends or activeClose is called twice, reading   *)
(* is enabled, or the one close has run and nothing but writing is.         *)

NoClose(q)  == \A i \in DOMAIN q : q[i] # <<"close">>
OneClose(q) == \A i, j \in DOMAIN q : q[i] = <<"close">> /\ q[j] = <<"close">> => i = j

CloseOK(n, qu, bt, m, events) ==
  /\ n = 0 => NoClose(qu) /\ NoClose(bt)
  /\ n <= 1 => OneClose(qu) /\ OneClose(bt) /\ (NoClose(qu) \/ NoClose(bt))
  /\ m /\ n <= 1 => "in" \in events \/ (n = 1 /\ NoClose(qu) /\ NoClose(bt))

(* A write event that was reported still finds bytes, room for them and,    *)
(* before the stream's end, EPOLLOUT enabled.                               *)
WriteOK ==
  /\ phase \in {"before", "onMessage", "onDisConnect", "write"} /\ "out" \in aevents =>
       /\ output # <<>>
       /\ inflight < SockRoom \/ reset
       /\ mapped => "out" \in uevents
  /\ sockErr => reset

Closing == CloseOK(closes, queue, batch, mapped, uevents)

LEMMA CloseAppend ==
  ASSUME NEW q \in Seq(Task), NEW task \in Task
  PROVE  /\ task # <<"close">> /\ NoClose(q) => NoClose(Append(q, task))
         /\ task # <<"close">> /\ OneClose(q) => OneClose(Append(q, task))
         /\ NoClose(q) => OneClose(Append(q, task))
<1> DEFINE r == Append(q, task)
<1>1. /\ Len(q) \in Nat /\ DOMAIN q = 1..Len(q) /\ DOMAIN r = 1..Len(q) + 1
      /\ \A i \in 1..Len(q) : r[i] = q[i]
      /\ r[Len(q) + 1] = task
  BY AppendProperties, LenProperties
<1> HIDE DEF r
<1>2. \A i \in DOMAIN r :
        \/ i \in DOMAIN q /\ r[i] = q[i]
        \/ i = Len(q) + 1 /\ r[i] = task
  BY <1>1
<1>3. task # <<"close">> /\ NoClose(q) => NoClose(r)
  BY <1>2 DEF NoClose
<1>4. task # <<"close">> /\ OneClose(q) => OneClose(r)
  BY <1>2 DEF OneClose
<1>5. NoClose(q) => OneClose(r)
  BY <1>2 DEF NoClose, OneClose
<1>6. QED
  BY <1>3, <1>4, <1>5 DEF r

LEMMA CloseTail ==
  ASSUME NEW q \in Seq(Task), q # <<>>
  PROVE  /\ NoClose(q) => NoClose(Tail(q))
         /\ OneClose(q) => OneClose(Tail(q))
         /\ OneClose(q) /\ Head(q) = <<"close">> => NoClose(Tail(q))
<1>1. /\ Len(q) \in Nat /\ Len(q) > 0 /\ DOMAIN q = 1..Len(q) /\ Head(q) = q[1]
      /\ Tail(q) \in Seq(Task) /\ Len(Tail(q)) = Len(q) - 1
      /\ \A i \in 1..Len(q) - 1 : Tail(q)[i] = q[i + 1]
  BY HeadTailProperties, LenProperties, EmptySeq
<1>2. DOMAIN Tail(q) = 1..Len(q) - 1
  BY <1>1, LenProperties
<1>3. QED
  BY <1>1, <1>2 DEF NoClose, OneClose

(* The closures of a step that queues no close, or runs something else. *)
LEMMA CloseKept ==
  ASSUME NEW n, NEW qu, NEW bt, NEW m, NEW ue, NEW qu2, NEW bt2, NEW m2, NEW ue2,
         CloseOK(n, qu, bt, m, ue),
         NoClose(qu) => NoClose(qu2), OneClose(qu) => OneClose(qu2),
         NoClose(bt) => NoClose(bt2), OneClose(bt) => OneClose(bt2),
         m2 => m /\ ("in" \in ue => "in" \in ue2)
  PROVE  CloseOK(n, qu2, bt2, m2, ue2)
  BY DEF CloseOK

LEMMA SendCauses ==
  ASSUME TypeOK, NEW m \in Messages, sendInloop(m), sockErr => reset
  PROVE  /\ fault' = fault \/ (fault' = "SIGPIPE" /\ reset)
         /\ sockErr' => sockErr
         /\ output # <<>> => UNCHANGED inflight /\ output' # <<>>
         /\ uevents \subseteq uevents'
         /\ NoClose(queue) => NoClose(queue)'
         /\ OneClose(queue) => OneClose(queue)'
<1>1. fault' = fault \/ (fault' = "SIGPIPE" /\ reset)
  BY DEF sendInloop, SendBehind, SendRefused, SendTaken, Refusal
<1>2. sockErr' => sockErr
  BY DEF sendInloop, SendBehind, SendRefused, SendTaken, sndq
<1>3. uevents \subseteq uevents' /\ (output' = output \/ output' # <<>>)
  BY SendInterest
<1>4. output # <<>> => UNCHANGED inflight
  BY DEF sendInloop, SendBehind, SendRefused, SendTaken, sndq
<1>5. queue' = queue \/ \E task \in {<<"complete">>, <<"highWater">>} : queue' = Append(queue, task)
  BY SendTakes
<1>6. ASSUME NEW task \in {<<"complete">>, <<"highWater">>}, queue' = Append(queue, task)
      PROVE  /\ NoClose(queue) => NoClose(queue)'
             /\ OneClose(queue) => OneClose(queue)'
  <2>1. queue \in Seq(Task) /\ task \in Task /\ task # <<"close">>
    BY DEF TypeOK, Task
  <2>2. /\ NoClose(queue) => NoClose(Append(queue, task))
        /\ OneClose(queue) => OneClose(Append(queue, task))
    BY <2>1, CloseAppend
  <2>3. QED
    BY <1>6, <2>2 DEF NoClose, OneClose
<1>7. ASSUME queue' = queue
      PROVE  /\ NoClose(queue) => NoClose(queue)'
             /\ OneClose(queue) => OneClose(queue)'
  BY <1>7 DEF NoClose, OneClose
<1>8. QED
  BY <1>1, <1>2, <1>3, <1>4, <1>5, <1>6, <1>7

LEMMA ClosingStep ==
  ASSUME TypeOK, IssuedOK, WriteOK, Closing, [Next]_vars
  PROVE  Closing'
<1> DEFINE P == CloseOK(closes', queue', batch', mapped', uevents')
<1> SUFFICES P
  BY DEF Closing, CloseOK, NoClose, OneClose
<1>1. CloseOK(closes, queue, batch, mapped, uevents)
  BY DEF Closing
<1>2. queue \in Seq(Task) /\ batch \in Seq(Task) /\ closes \in Nat
  BY ConnectionAssumption DEF TypeOK
<1> HIDE DEF P
<1>3. ASSUME UNCHANGED closes,
             NoClose(queue) => NoClose(queue)', OneClose(queue) => OneClose(queue)',
             batch' = batch \/ (batch # <<>> /\ batch' = Tail(batch)),
             mapped' => mapped /\ ("in" \in uevents => "in" \in uevents')
      PROVE  P
  <2>1. NoClose(queue) => NoClose(queue') 
    BY <1>3 DEF NoClose
  <2>2. OneClose(queue) => OneClose(queue')
    BY <1>3 DEF OneClose
  <2>3. (NoClose(batch) => NoClose(batch')) /\ (OneClose(batch) => OneClose(batch'))
    BY <1>2, <1>3, CloseTail
  <2>4. CloseOK(closes, queue', batch', mapped', uevents')
    BY <1>1, <1>3, <2>1, <2>2, <2>3, CloseKept
  <2>5. QED
    BY <1>3, <2>4 DEF P
<1>4. ASSUME NEW task \in Task, task # <<"close">>, queue' = Append(queue, task),
             UNCHANGED <<closes, batch>>,
             mapped' => mapped /\ ("in" \in uevents => "in" \in uevents')
      PROVE  P
  <2>1. /\ NoClose(queue) => NoClose(Append(queue, task))
        /\ OneClose(queue) => OneClose(Append(queue, task))
    BY <1>2, <1>4, CloseAppend
  <2>2. (NoClose(queue) => NoClose(queue)') /\ (OneClose(queue) => OneClose(queue)')
    BY <1>4, <2>1 DEF NoClose, OneClose
  <2>3. QED
    BY <1>3, <1>4, <2>2
<1>5. ASSUME UNCHANGED <<closes, queue, batch>>,
             mapped' => mapped /\ ("in" \in uevents => "in" \in uevents')
      PROVE  P
  <2>1. (NoClose(queue) => NoClose(queue)') /\ (OneClose(queue) => OneClose(queue)')
    BY <1>5 DEF NoClose, OneClose
  <2>2. QED
    BY <1>3, <1>5, <2>1
<1>6. ASSUME NEW t \in Others, send(t) PROVE P
  BY <1>5, <1>6 DEF send, conn, refs, loop
<1>7. ASSUME NEW t \in Others, sendQueue(t) PROVE P
  <2>1. /\ queue' = Append(queue, <<"send", <<t, sends[t]>>>>)
        /\ UNCHANGED <<closes, batch, mapped, uevents>>
    BY <1>7 DEF sendQueue, Push, conn, refs
  <2>2. <<t, sends[t]>> \in Messages
    BY <1>7 DEF sendQueue, IssuedOK, Issued, TypeOK, Messages, Threads
  <2>3. <<"send", <<t, sends[t]>>>> \in Task /\ <<"send", <<t, sends[t]>>>> # <<"close">>
    BY <2>2 DEF Task
  <2>4. QED
    BY <1>4, <2>1, <2>3
<1>8. ASSUME NEW t \in Others, activeClose(t) PROVE P
  <2>1. /\ queue' = Append(queue, <<"close">>) /\ closes' = closes + 1
        /\ UNCHANGED <<batch, mapped, uevents>>
    BY <1>8 DEF activeClose, Push, conn, refs
  <2>2. CASE closes = 0
    <3>1. NoClose(queue) /\ NoClose(batch) /\ OneClose(batch)
      BY <1>1, <2>2 DEF CloseOK
    <3>2. OneClose(Append(queue, <<"close">>))
      BY <1>2, <3>1, CloseAppend DEF Task
    <3>3. mapped => "in" \in uevents
      BY <1>1, <2>2 DEF CloseOK
    <3>4. QED
      BY <2>1, <2>2, <3>1, <3>2, <3>3 DEF P, CloseOK
  <2>3. CASE closes # 0
    BY <1>2, <2>1, <2>3 DEF P, CloseOK
  <2>4. QED
    BY <2>2, <2>3
<1>9. ASSUME NEW t \in Threads, Release(t) PROVE P
  BY <1>5, <1>9 DEF Release, conn, loop, callers
<1>10. CASE sendHere
  <2>1. UNCHANGED <<closes, batch, mapped>>
    BY <1>10 DEF sendHere, refs
  <2>2. PICK m \in Messages : sendInloop(m)
    BY <1>10, SendHereMessage
  <2>3. /\ uevents \subseteq uevents'
        /\ NoClose(queue) => NoClose(queue)'
        /\ OneClose(queue) => OneClose(queue)'
    BY <2>2, SendCauses DEF WriteOK
  <2>4. QED
    BY <1>3, <2>1, <2>3
<1>11. CASE RunSend
  <2>1. UNCHANGED <<closes, mapped>> /\ batch # <<>> /\ batch' = Tail(batch)
    BY <1>11 DEF RunSend, RunTask, refs, callers
  <2>2. PICK m \in Messages : sendInloop(m)
    BY <1>11, RunSendMessage
  <2>3. /\ uevents \subseteq uevents'
        /\ NoClose(queue) => NoClose(queue)'
        /\ OneClose(queue) => OneClose(queue)'
    BY <2>2, SendCauses DEF WriteOK
  <2>4. QED
    BY <1>3, <2>1, <2>3
<1>12. CASE activeCloseHere
  <2>1. UNCHANGED <<queue, batch, mapped>> /\ closes' = closes + 1
    BY <1>12 DEF activeCloseHere, loop, refs
  <2>2. CASE closes = 0
    <3>1. NoClose(queue) /\ NoClose(batch) /\ OneClose(queue) /\ OneClose(batch)
      BY <1>1, <2>2 DEF CloseOK
    <3>2. QED
      BY <2>1, <2>2, <3>1 DEF P, CloseOK
  <2>3. CASE closes # 0
    BY <1>2, <2>1, <2>3 DEF P, CloseOK
  <2>4. QED
    BY <2>2, <2>3
<1>13. CASE RunClose
  <2>1. /\ UNCHANGED <<queue, closes, mapped>>
        /\ batch # <<>> /\ Head(batch) = <<"close">> /\ batch' = Tail(batch)
    BY <1>13 DEF RunClose, RunTask, refs, callers
  <2>2. /\ NoClose(batch) => NoClose(Tail(batch))
        /\ OneClose(batch) => OneClose(Tail(batch))
        /\ OneClose(batch) /\ Head(batch) = <<"close">> => NoClose(Tail(batch))
    BY <1>2, <2>1, CloseTail
  <2>3. ~NoClose(batch)
    <3>1. 1 \in DOMAIN batch /\ batch[1] = <<"close">>
      BY <1>2, <2>1, HeadTailProperties, LenProperties, EmptySeq
    <3>2. QED
      BY <3>1 DEF NoClose
  <2>4. CASE closes > 1
    BY <1>2, <2>1, <2>4 DEF P, CloseOK
  <2>5. CASE closes <= 1
    <3>1. closes = 1 /\ OneClose(queue) /\ NoClose(queue) /\ OneClose(batch)
      BY <1>1, <1>2, <2>3, <2>5 DEF CloseOK
    <3>2. QED
      BY <2>1, <2>2, <3>1 DEF P, CloseOK
  <2>6. QED
    BY <1>2, <2>4, <2>5
<1>14. CASE handleWrite
  <2>1. /\ UNCHANGED <<closes, batch, mapped>> /\ uevents' \in {uevents, uevents \ {"out"}}
        /\ queue' \in {queue, Append(queue, <<"complete">>)}
    BY <1>14 DEF handleWrite, disableWrite, Disable, TellComplete, Push, refs, callers
  <2>2. CASE queue' = queue
    BY <1>5, <2>1, <2>2
  <2>3. CASE queue' = Append(queue, <<"complete">>)
    BY <1>4, <2>1, <2>3 DEF Task
  <2>4. QED
    BY <2>1, <2>2, <2>3
<1>15. CASE handleTask
  <2>1. batch' = queue /\ queue' = <<>> /\ UNCHANGED <<closes, mapped, uevents>>
    BY <1>15 DEF handleTask, conn, refs, callers
  <2>2. NoClose(queue') /\ OneClose(queue')
    BY <2>1, EmptySeq DEF NoClose, OneClose
  <2>3. QED
    BY <1>1, <2>1, <2>2 DEF P, CloseOK
<1>16. CASE RunCallback
  <2>1. UNCHANGED <<closes, queue, mapped, uevents>> /\ batch # <<>> /\ batch' = Tail(batch)
    BY <1>16 DEF RunCallback, RunTask, conn, refs, callers
  <2>2. (NoClose(queue) => NoClose(queue)') /\ (OneClose(queue) => OneClose(queue)')
    BY <2>1 DEF NoClose, OneClose
  <2>3. QED
    BY <1>3, <2>1, <2>2
<1>17. CASE handleClose
  <2>1. UNCHANGED <<closes, queue, batch>> /\ ~mapped'
    BY <1>17 DEF handleClose, removeConnect, callers
  <2>2. QED
    BY <1>5, <2>1
<1>18. CASE NoRead \/ handleRead \/ handleReadError \/ onMessageReturns \/ NoWrite
            \/ onDisConnectReturns
  BY <1>5, <1>18 DEF NoRead, handleRead, handleReadError, onMessageReturns, NoWrite,
                     onDisConnectReturns, conn, refs, callers
<1>19. CASE handleWriteError \/ UseFreed \/ Poll \/ CallbackReturns \/ EndTasks
  BY <1>5, <1>19 DEF handleWriteError, UseFreed, Poll, CallbackReturns, EndTasks, conn, refs,
                     loop, callers
<1>20. CASE PeerStep
  BY <1>5, <1>20 DEF PeerStep, PeerSends, PeerReads, PeerCloses, PeerResets, conn, refs, loop,
                     callers
<1>21. CASE UNCHANGED vars
  BY <1>5, <1>21 DEF vars, conn, refs, loop, callers
<1>22. QED
  BY <1>6, <1>7, <1>8, <1>9, <1>10, <1>11, <1>12, <1>13, <1>14, <1>15, <1>16, <1>17, <1>18,
     <1>19, <1>20, <1>21
  DEF Next, UserStep, LoopStep, HandleEvent, RunTasks

LEMMA WriteStep ==
  ASSUME TypeOK, IssuedOK, WriteOK, WriteInterest, [Next]_vars
  PROVE  WriteOK'
<1> USE DEF conn, refs, loop, sndq, peer, callers
<1>1. ASSUME phase' \notin {"before", "onMessage", "onDisConnect", "write"}, sockErr' => reset'
      PROVE  WriteOK'
  BY <1>1 DEF WriteOK
<1>2. ASSUME UNCHANGED <<output, inflight, uevents, aevents>>, phase' = phase,
             mapped' => mapped, reset => reset', sockErr' => reset'
      PROVE  WriteOK'
  BY <1>2 DEF WriteOK
<1>3. ASSUME UNCHANGED <<output, inflight, aevents>>,
             phase \in {"before", "onMessage", "onDisConnect"},
             mapped' => mapped /\ UNCHANGED uevents, UNCHANGED reset, sockErr' => sockErr
      PROVE  WriteOK'
  BY <1>3 DEF WriteOK
<1>4. ASSUME NEW t \in Others, send(t) \/ sendQueue(t) \/ activeClose(t) PROVE WriteOK'
  BY <1>2, <1>4 DEF send, sendQueue, activeClose, WriteOK
<1>5. ASSUME NEW t \in Threads, Release(t) PROVE WriteOK'
  BY <1>2, <1>5 DEF Release, WriteOK
<1>6. CASE sendHere
  <2>1. UNCHANGED <<phase, aevents, mapped, reset>> /\ phase # "write"
    BY <1>6 DEF sendHere, UserCode, At
  <2>2. PICK m \in Messages : sendInloop(m)
    BY <1>6, SendHereMessage
  <2>3. /\ sockErr' => sockErr
        /\ output # <<>> => UNCHANGED inflight /\ output' # <<>>
        /\ uevents \subseteq uevents'
    BY <2>2, SendCauses DEF WriteOK
  <2>4. QED
    BY <2>1, <2>3 DEF WriteOK
<1>7. CASE activeCloseHere
  <2>1. UNCHANGED <<phase, aevents, mapped, reset, inflight, sockErr, output>>
    BY <1>7 DEF activeCloseHere
  <2>2. output # <<>> => uevents \subseteq uevents'
    BY <1>7 DEF activeCloseHere, activeCloseInloop, enableWrite
  <2>3. QED
    BY <2>1, <2>2 DEF WriteOK
<1>8. CASE Poll
  <2>1. UNCHANGED <<output, uevents, mapped, inflight, reset, sockErr>> /\ aevents' = Ready
    BY <1>8 DEF Poll
  <2>2. "out" \in Ready => "out" \in uevents /\ output # <<>> /\ (inflight < SockRoom \/ reset)
    BY DEF Ready, Writable, WriteInterest
  <2>3. QED
    BY <2>1, <2>2 DEF WriteOK
<1>9. CASE NoRead \/ handleRead \/ handleReadError
  BY <1>9 DEF NoRead, handleRead, handleReadError, Reading, At, WriteOK
<1>10. CASE onMessageReturns \/ onDisConnectReturns
  BY <1>10 DEF onMessageReturns, onDisConnectReturns, At, WriteOK
<1>11. CASE handleClose
  BY <1>11 DEF handleClose, removeConnect, Reading, At, WriteOK
<1>12. CASE NoWrite \/ handleWrite
  <2>1. phase' = "after" /\ sockErr' = sockErr /\ reset' = reset
    BY <1>12 DEF NoWrite, handleWrite
  <2>2. QED
    BY <1>1, <2>1 DEF WriteOK
<1>13. CASE handleWriteError \/ UseFreed
  BY <1>2, <1>13 DEF handleWriteError, UseFreed, WriteOK
<1>14. CASE handleTask \/ RunCallback \/ CallbackReturns \/ EndTasks
  BY <1>1, <1>14 DEF handleTask, RunCallback, CallbackReturns, EndTasks, WriteOK
<1>15. CASE RunSend
  <2>1. UNCHANGED <<phase, reset>> /\ phase = "tasks"
    BY <1>15 DEF RunSend, RunTask, At
  <2>2. PICK m \in Messages : sendInloop(m)
    BY <1>15, RunSendMessage
  <2>3. sockErr' => sockErr
    BY <2>2, SendCauses DEF WriteOK
  <2>4. QED
    BY <1>1, <2>1, <2>3 DEF WriteOK
<1>16. CASE RunClose
  <2>1. UNCHANGED <<phase, reset, sockErr>> /\ phase = "tasks"
    BY <1>16 DEF RunClose, RunTask, At
  <2>2. QED
    BY <1>1, <2>1 DEF WriteOK
<1>17. CASE PeerStep
  <2>1. UNCHANGED <<output, uevents, aevents, phase, mapped>>
    BY <1>17 DEF PeerStep, PeerSends, PeerReads, PeerCloses, PeerResets
  <2>2. reset' \/ UNCHANGED <<reset, sockErr>>
    BY <1>17 DEF PeerStep, PeerSends, PeerReads, PeerCloses, PeerResets
  <2>3. inflight \in Nat /\ SockRoom \in Nat /\ (inflight' = inflight \/ inflight' = inflight - 1)
    BY <1>17, ConnectionAssumption
    DEF PeerStep, PeerSends, PeerReads, PeerCloses, PeerResets, TypeOK
  <2>4. inflight < SockRoom => inflight' < SockRoom
    BY <2>3
  <2>5. QED
    BY <2>1, <2>2, <2>4 DEF WriteOK
<1>18. CASE UNCHANGED vars
  BY <1>2, <1>18 DEF vars, WriteOK
<1>19. QED
  BY <1>4, <1>5, <1>6, <1>7, <1>8, <1>9, <1>10, <1>11, <1>12, <1>13, <1>14, <1>15, <1>16,
     <1>17, <1>18
  DEF Next, UserStep, LoopStep, HandleEvent, RunTasks

LEMMA CauseStep ==
  ASSUME TypeOK, IssuedOK, WriteOK, Closing, FaultNeedsCause, [Next]_vars
  PROVE  FaultNeedsCause'
<1> USE DEF conn, refs, loop, sndq, peer, callers
<1>1. closes \in Nat
  BY ConnectionAssumption DEF TypeOK
<1>2. ASSUME fault' = "none" PROVE FaultNeedsCause'
  BY <1>2 DEF FaultNeedsCause
<1>3. ASSUME UNCHANGED fault, Running \/ UNCHANGED vars PROVE FaultNeedsCause'
  BY <1>3 DEF FaultNeedsCause, Running, vars
<1>4. ASSUME NEW t \in Others, send(t) \/ sendQueue(t) \/ activeClose(t) PROVE FaultNeedsCause'
  BY <1>3, <1>4 DEF send, sendQueue, activeClose, Caller
<1>5. ASSUME NEW t \in Threads, Release(t) PROVE FaultNeedsCause'
  BY <1>3, <1>5 DEF Release
<1>6. ASSUME NEW m \in Messages, sendInloop(m), Running, UNCHANGED reset
      PROVE  FaultNeedsCause'
  <2>1. fault' = "none" \/ (fault' = "SIGPIPE" /\ reset)
    BY <1>6, SendCauses DEF WriteOK, Running
  <2>2. QED
    BY <2>1 DEF FaultNeedsCause
<1>7. CASE sendHere
  <2>1. Running /\ UNCHANGED reset
    BY <1>7 DEF sendHere, UserCode, At
  <2>2. QED
    BY <1>6, <1>7, <2>1, SendHereMessage
<1>8. CASE RunSend
  <2>1. Running /\ UNCHANGED reset
    BY <1>8 DEF RunSend, RunTask, At
  <2>2. QED
    BY <1>6, <1>8, <2>1, RunSendMessage
<1>9. CASE activeCloseHere
  <2>1. /\ closes' = closes + 1 /\ UNCHANGED mapped
        /\ fault' = "none" \/ (fault' = "removeChannel" /\ uevents = {})
    BY <1>9 DEF activeCloseHere, activeCloseInloop, disableAll, Disable, UserCode, At, Running
  <2>2. mapped /\ closes = 0 => uevents # {}
    BY <1>1 DEF Closing, CloseOK
  <2>3. QED
    BY <1>1, <2>1, <2>2 DEF FaultNeedsCause
<1>10. CASE RunClose
  <2>1. /\ UNCHANGED <<closes, mapped>> /\ batch # <<>> /\ Head(batch) = <<"close">>
        /\ fault' = "none" \/ (fault' = "removeChannel" /\ uevents = {})
    BY <1>10 DEF RunClose, RunTask, activeCloseInloop, disableAll, Disable, At, Running
  <2>2. ~NoClose(batch)
    <3>1. batch \in Seq(Task)
      BY DEF TypeOK
    <3>2. 1 \in DOMAIN batch /\ batch[1] = <<"close">>
      BY <2>1, <3>1, HeadTailProperties, LenProperties, EmptySeq
    <3>3. QED
      BY <3>2 DEF NoClose
  <2>3. mapped /\ closes <= 1 => uevents # {}
    BY <1>1, <2>2 DEF Closing, CloseOK
  <2>4. QED
    BY <1>1, <2>1, <2>3 DEF FaultNeedsCause
<1>11. CASE handleWrite
  <2>1. /\ UNCHANGED mapped /\ (mapped => uevents # {})
        /\ fault' = "none" \/ (fault' = "removeChannel" /\ uevents = {})
    BY <1>11 DEF handleWrite, disableWrite, Disable, At, Running, WriteOK
  <2>2. QED
    BY <2>1 DEF FaultNeedsCause
<1>12. CASE handleWriteError
  <2>1. UNCHANGED reset /\ fault' \in {"SIGPIPE", "handleWrite"}
    BY <1>12 DEF handleWriteError
  <2>2. Refusal # "none" /\ (inflight < SockRoom \/ reset) /\ (sockErr => reset)
    BY <1>12 DEF handleWriteError, At, WriteOK
  <2>3. reset
    <3>1. SockRoom \in Nat /\ inflight \in Nat
      BY ConnectionAssumption DEF TypeOK
    <3>2. QED
      BY <2>2, <3>1 DEF Refusal
  <2>4. QED
    BY <2>1, <2>3 DEF FaultNeedsCause
<1>13. CASE UseFreed
  BY <1>13 DEF UseFreed, FaultNeedsCause
<1>14. CASE handleClose
  <2>1. ~mapped' /\ fault' \in {"none", "removeChannel", "removeConnect"}
    BY <1>14 DEF handleClose, removeConnect
  <2>2. QED
    BY <2>1 DEF FaultNeedsCause
<1>15. CASE Poll \/ NoRead \/ handleRead \/ handleReadError \/ onMessageReturns \/ NoWrite
            \/ onDisConnectReturns
  <2>1. Running /\ UNCHANGED fault
    BY <1>15 DEF Poll, NoRead, handleRead, handleReadError, onMessageReturns, NoWrite,
                 onDisConnectReturns, Reading, At
  <2>2. QED
    BY <1>3, <2>1
<1>16. CASE handleTask \/ RunCallback \/ CallbackReturns \/ EndTasks
  <2>1. Running /\ UNCHANGED fault
    BY <1>16 DEF handleTask, RunCallback, RunTask, CallbackReturns, EndTasks, At
  <2>2. QED
    BY <1>3, <2>1
<1>17. CASE PeerStep
  <2>1. Running /\ UNCHANGED fault
    BY <1>17 DEF PeerStep, PeerSends, PeerReads, PeerCloses, PeerResets
  <2>2. QED
    BY <1>3, <2>1
<1>18. CASE UNCHANGED vars
  <2>1. UNCHANGED fault
    BY <1>18 DEF vars
  <2>2. QED
    BY <1>3, <1>18, <2>1
<1>19. QED
  BY <1>4, <1>5, <1>7, <1>8, <1>9, <1>10, <1>11, <1>12, <1>13, <1>14, <1>15, <1>16, <1>17, <1>18
  DEF Next, UserStep, LoopStep, HandleEvent, RunTasks

(* The assertion in removeChannel does not fail before the stream has ended *)
(* or activeClose has been called twice, and handleWrite's not without a    *)
(* reset: for any sends, events and partial writes.                         *)
THEOREM FaultsNeedCauses == Spec => []FaultNeedsCause
<1> DEFINE I == WriteOK /\ Closing /\ FaultNeedsCause
<1>1. Init => I
  <2> SUFFICES ASSUME Init PROVE I
    OBVIOUS
  <2>1. NoClose(<<>>) /\ OneClose(<<>>)
    BY EmptySeq DEF NoClose, OneClose
  <2>2. WriteOK /\ FaultNeedsCause
    BY DEF Init, WriteOK, FaultNeedsCause
  <2>3. Closing
    BY <2>1 DEF Init, Closing, CloseOK
  <2>4. QED
    BY <2>2, <2>3
<1>2. TypeOK /\ IssuedOK /\ WriteInterest /\ I /\ [Next]_vars => I'
  BY WriteStep, ClosingStep, CauseStep
<1>3. Spec => []WriteInterest
  BY WritabilityWatched
<1>4. QED
  BY <1>1, <1>2, <1>3, InitTyped, TypedStep, PTL DEF Spec
====
