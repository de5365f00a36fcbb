---------------------------- MODULE TcpConnection ---------------------------
(***************************************************************************)
(* One established TcpConnection of a TcpClient (TcpConnection.h/.cpp with *)
(* its Channel, the EPoller entry and connsMap_), from onConnectEstablish  *)
(* on: the loop's thread that runs its handlers and the closures queued    *)
(* for it, user code on that thread and on others, and the peer.           *)
(*                                                                         *)
(* The EventLoop is seen as EventLoop shows it: closures run on one thread *)
(* in the order they were queued, in batches between two polls.  A handler *)
(* or closure is one step up to the user callback it makes; other threads  *)
(* reach the connection only through state_, its reference count and the   *)
(* closure queue.                                                          *)
(***************************************************************************)
EXTENDS Naturals, Sequences, FiniteSets

CONSTANTS
  Loop,              \* the thread of the connection's EventLoop
  Others,            \* user threads that were given the connPtr
  MsgLen,            \* bytes in one message passed to send
  HighWaterMark,     \* highWaterMark_; 0 when no callback is set
  InputRoom,         \* bytes an empty inputBuffer_ has room for
  SockRoom,          \* bytes the kernel's send buffer holds
  SenderKeepsBuffer, \* a thread leaves the bytes it passed to send alone
  MaxSends,          \* bound: messages a thread sends
  MaxCloses,         \* bound: calls of activeClose
  MaxRecv            \* bound: bytes the peer sends

ASSUME ConnectionAssumption ==
  /\ Loop \notin Others
  /\ MsgLen \in Nat \ {0}
  /\ InputRoom \in Nat \ {0}
  /\ SockRoom \in Nat \ {0}
  /\ {HighWaterMark, MaxSends, MaxCloses, MaxRecv} \subseteq Nat
  /\ SenderKeepsBuffer \in BOOLEAN

VARIABLES
  state,     \* state_
  uevents,   \* uevents_ of the channel; every change of it ends in update(),
             \* so this is also the entry of ueventMap_, {} when there is none
  output,    \* outputBuffer_
  input,     \* bytes in inputBuffer_
  room,      \* writeableBytes() of inputBuffer_
  mapped,    \* connsMap_ holds the connection
  held,      \* the threads whose user code keeps a connPtr
  queue,     \* taskqueue_ of the loop, the closures of this connection
  batch,     \* those swapped out by handleTask and not run yet
  phase,     \* where the loop's thread is
  aevents,   \* aevents_ of the channel
  pc,        \* per thread: "queue" between send's check and queueInloop
  sends,     \* per thread: messages passed to send
  closes,    \* calls of activeClose
  inflight,  \* bytes in the kernel's send buffer
  rcvq,      \* bytes in the kernel's receive queue
  arrived,   \* bytes the peer has sent
  fin,       \* the peer has closed its side
  reset,     \* the peer has reset the connection
  sockErr,   \* the reset has not been reported to the program yet
  fault,     \* what stopped the program, if anything
  sent,      \* history: the bytes the kernel accepted
  taken,     \* history: the messages sendInloop took
  reported   \* history: bytes of sent when onWriteComplete_ last ran

conn == <<state, uevents, output, taken>>
inbuf == <<input, room>>
refs == <<mapped, held>>
loop == <<queue, batch, phase, aevents>>
callers == <<pc, sends, closes>>
sndq == <<inflight, sent, sockErr>>
peer == <<rcvq, arrived, fin, reset>>
vars == <<conn, inbuf, refs, loop, callers, sndq, peer, fault, reported>>

Threads == Others \cup {Loop}
Messages == Threads \X (1..MaxSends)
Byte == Threads \X (1..MaxSends) \X (1..MsgLen)
Bytes(m) == [i \in 1..MsgLen |-> <<m[1], m[2], i>>]

Task == {<<"send", m>> : m \in Messages} \cup
        {<<"close">>, <<"complete">>, <<"highWater">>}

Faults == {"none",
           "removeChannel",  \* the assertion in EPoller::removeChannel
           "removeConnect",  \* the assertion in TcpClient::removeConnect
           "handleWrite",    \* the assertion on sendedLen in handleWrite
           "SIGPIPE",        \* a send after the peer's reset was reported
           "freed"}          \* Channel::handleEvent of a deleted channel

TypeOK ==
  /\ state \in {"connected", "disconnecting", "disconnect"}
  /\ uevents \subseteq {"in", "out"} /\ aevents \subseteq {"in", "out"}
  /\ output \in Seq(Byte) /\ sent \in Seq(Byte)
  /\ taken \in Seq(Messages)
  /\ input \in Nat /\ room \in 0..InputRoom
  /\ mapped \in BOOLEAN
  /\ held \subseteq Threads
  /\ queue \in Seq(Task) /\ batch \in Seq(Task)
  /\ phase \in {"poll", "before", "onMessage", "onDisConnect", "write", "after", "tasks",
               "callback"}
  /\ pc \in [Threads -> {"idle", "queue"}]
  /\ sends \in [Threads -> 0..MaxSends]
  /\ closes \in 0..MaxCloses
  /\ inflight \in 0..SockRoom
  /\ arrived \in 0..MaxRecv /\ rcvq \in 0..arrived
  /\ {fin, reset, sockErr} \subseteq BOOLEAN
  /\ fault \in Faults
  /\ reported \in 0..Len(sent)

(* onConnectEstablish has run: constructed, in connsMap_, callbacks set,    *)
(* reading enabled, and passed to the user's onConnect_, who may have kept  *)
(* the connPtr and handed it to other threads.                              *)
Init ==
  /\ state = "connected"
  /\ uevents = {"in"} /\ aevents = {}
  /\ output = <<>> /\ sent = <<>> /\ taken = <<>> /\ reported = 0
  /\ input = 0 /\ room = InputRoom
  /\ mapped = TRUE
  /\ held \in SUBSET Threads
  /\ queue = <<>> /\ batch = <<>> /\ phase = "poll"
  /\ pc = [t \in Threads |-> "idle"]
  /\ sends = [t \in Threads |-> 0]
  /\ closes = 0
  /\ inflight = 0 /\ rcvq = 0 /\ arrived = 0
  /\ fin = FALSE /\ reset = FALSE /\ sockErr = FALSE
  /\ fault = "none"

(* A shared_ptr to the connection exists: in connsMap_, with the user, in a *)
(* closure, or as the argument of a callback that is running.               *)
Referenced ==
  \/ mapped
  \/ held # {}
  \/ queue \o batch # <<>>
  \/ phase \in {"onMessage", "callback"}

(* The first fault stops the program. *)
Running == fault = "none"

(* The loop's thread is at a place. *)
At(place) == Running /\ phase = place

-----------------------------------------------------------------------------
(* Channel: every change of uevents_ ends in update().  disableAll and      *)
(* disableWrite reach removeChannel when no event is left, and its          *)
(* assertion fails when the descriptor has no entry already.                *)

(* Mutants: the wrong mask, and no mask at all. *)
enableBoth == uevents' = uevents \cup {"in", "out"}
enableNothing == uevents' = uevents

enableWrite == uevents' = uevents \cup {"out"}

Disable(events) ==
  /\ uevents' = uevents \ events
  /\ fault' = IF uevents = {} THEN "removeChannel" ELSE "none"

(* Mutant: reading is disabled as well. *)
disableWriteToo == Disable({"in", "out"})

disableWrite == Disable({"out"})
disableAll == Disable({"in", "out"})

(* ::send(len bytes): the bytes accepted, or the reason for -1.             *)
Least(a, b) == IF a < b THEN a ELSE b
Accepted(len) == Least(len, SockRoom - inflight)
Refusal ==
  IF sockErr THEN "ECONNRESET"
  ELSE IF reset THEN "SIGPIPE"
  ELSE IF inflight = SockRoom THEN "EWOULDBLOCK"
  ELSE "none"

(* Mutant: a closure jumps the queue. *)
PushFirst(task) == queue' = <<task>> \o queue

Push(task) == queue' = Append(queue, task)

(* Mutant: nobody is told. *)
TellNobody == UNCHANGED queue

(* onWriteComplete_ is queued, not called. *)
TellComplete == Push(<<"complete">>)

(* Mutant: one byte too many is dropped. *)
UnsentLess(bytes, n) == SubSeq(bytes, n + 2, Len(bytes))

(* What is left of bytes when the kernel took n. *)
Unsent(bytes, n) == SubSeq(bytes, n + 1, Len(bytes))

-----------------------------------------------------------------------------
(* sendInloop(m): what it does to output_, the channel, the socket and the  *)
(* closure queue.  It looks at none of state_, mapped or fin.               *)

(* Mutant: the bytes that wait already are not counted. *)
UnaffordableAlone(len) == HighWaterMark > 0 /\ len > HighWaterMark

Unaffordable(len) == HighWaterMark > 0 /\ len + Len(output) > HighWaterMark

Store(m, bytes) ==
  /\ output' = output \o bytes
  /\ enableWrite
  /\ taken' = Append(taken, m)

(* Behind bytes that wait already. *)
SendBehind(m) ==
  /\ output # <<>>
  /\ \/ /\ Unaffordable(MsgLen)
        /\ Push(<<"highWater">>)
        /\ UNCHANGED <<output, uevents, taken>>
     \/ /\ ~Unaffordable(MsgLen)
        /\ Store(m, Bytes(m))
        /\ UNCHANGED queue
  /\ UNCHANGED <<sndq, fault>>

(* The kernel refuses: a full buffer has the message stored, high water or  *)
(* not; a pending error is reported and the message is dropped.             *)
SendRefused(m) ==
  /\ output = <<>>
  /\ \/ /\ Refusal = "EWOULDBLOCK"
        /\ Store(m, Bytes(m))
        /\ UNCHANGED <<sockErr, fault>>
     \/ /\ Refusal = "ECONNRESET"
        /\ sockErr' = FALSE
        /\ UNCHANGED <<output, uevents, taken, fault>>
     \/ /\ Refusal = "SIGPIPE"
        /\ fault' = "SIGPIPE"
        /\ UNCHANGED <<output, uevents, taken, sockErr>>
  /\ UNCHANGED <<inflight, sent, queue>>

(* The kernel takes n bytes, all of them or the first few.                  *)
SendTaken(m) ==
  LET n == Accepted(MsgLen) IN
  /\ output = <<>>
  /\ Refusal = "none"
  /\ inflight' = inflight + n
  /\ sent' = sent \o SubSeq(Bytes(m), 1, n)
  /\ \/ /\ n = MsgLen
        /\ TellComplete
        /\ taken' = Append(taken, m)
        /\ UNCHANGED <<output, uevents>>
     \/ /\ n < MsgLen /\ Unaffordable(MsgLen)
        /\ Push(<<"highWater">>)
        /\ taken' = Append(taken, m)
        /\ UNCHANGED <<output, uevents>>
     \/ /\ n < MsgLen /\ HighWaterMark > 0 /\ ~Unaffordable(MsgLen)
        /\ Store(m, Bytes(m))
        /\ UNCHANGED queue
     \/ /\ n < MsgLen /\ HighWaterMark = 0
        /\ Store(m, Unsent(Bytes(m), n))
        /\ UNCHANGED queue
  /\ UNCHANGED <<sockErr, fault>>

sendInloop(m) == SendBehind(m) \/ SendRefused(m) \/ SendTaken(m)

(* Mutant: outputBuffer_ is not looked at. *)
activeCloseAtOnce ==
  /\ state' = "disconnect"
  /\ disableAll

(* activeCloseInloop, whatever state_ is. *)
activeCloseInloop ==
  \/ /\ output # <<>>
     /\ state' = "disconnecting"
     /\ enableWrite
     /\ UNCHANGED fault
  \/ /\ output = <<>>
     /\ state' = "disconnect"
     /\ disableAll

-----------------------------------------------------------------------------
(* Calls made by other threads.  send reads state_ and then queues, with    *)
(* whatever the loop does in between.                                       *)

Caller(t) == Running /\ t \in held \cap Others /\ pc[t] = "idle"

send(t) ==
  /\ Caller(t)
  /\ sends[t] < MaxSends
  /\ state = "connected"
  /\ sends' = [sends EXCEPT ![t] = @ + 1]
  /\ pc' = [pc EXCEPT ![t] = "queue"]
  /\ UNCHANGED <<conn, inbuf, refs, loop, closes, sndq, peer, fault, reported>>

sendQueue(t) ==
  /\ Running
  /\ pc[t] = "queue"
  /\ Push(<<"send", <<t, sends[t]>>>>)
  /\ pc' = [pc EXCEPT ![t] = "idle"]
  /\ UNCHANGED <<conn, inbuf, refs, batch, phase, aevents, sends, closes, sndq, peer,
                 fault, reported>>

activeClose(t) ==
  /\ Caller(t)
  /\ closes < MaxCloses
  /\ closes' = closes + 1
  /\ Push(<<"close">>)
  /\ UNCHANGED <<conn, inbuf, refs, batch, phase, aevents, pc, sends, sndq, peer,
                 fault, reported>>

-----------------------------------------------------------------------------
(* User code on the loop's thread: the callbacks of this connection, which  *)
(* are passed the connPtr, but for onDisConnect_, and those of the loop's   *)
(* other channels, which may have kept it.  Its calls are not queued.       *)

UserCode ==
  \/ At("onMessage") \/ At("callback")
  \/ (At("before") \/ At("onDisConnect") \/ At("after")) /\ Loop \in held

sendHere ==
  /\ UserCode
  /\ sends[Loop] < MaxSends
  /\ state = "connected"
  /\ sends' = [sends EXCEPT ![Loop] = @ + 1]
  /\ sendInloop(<<Loop, sends'[Loop]>>)
  /\ UNCHANGED <<state, inbuf, refs, batch, phase, aevents, pc, closes, peer, reported>>

activeCloseHere ==
  /\ UserCode
  /\ closes < MaxCloses
  /\ closes' = closes + 1
  /\ activeCloseInloop
  /\ UNCHANGED <<output, taken, inbuf, refs, loop, pc, sends, sndq, peer, reported>>

(* A user's connPtr goes away. *)
Release(t) ==
  /\ Running
  /\ t \in held
  /\ pc[t] = "idle"
  /\ t = Loop => UserCode
  /\ held' = held \ {t}
  /\ UNCHANGED <<conn, inbuf, mapped, loop, callers, sndq, peer, fault, reported>>

-----------------------------------------------------------------------------
(* The loop. *)

Readable == rcvq > 0 \/ fin \/ reset
Writable == inflight < SockRoom \/ reset
Ready == {e \in uevents : (e = "in" /\ Readable) \/ (e = "out" /\ Writable)}

(* poll_->wait returns: for this connection's events, for its closures, or  *)
(* for another channel.  Once nothing refers to the connection, its         *)
(* destructor has closed the descriptor and epoll has forgotten it.         *)
Poll ==
  /\ At("poll")
  /\ Referenced
  /\ \/ Ready # {}
     \/ queue # <<>>
     \/ Loop \in held
  /\ aevents' = Ready
  /\ phase' = IF Ready = {} THEN "after" ELSE "before"
  /\ UNCHANGED <<conn, inbuf, refs, queue, batch, callers, sndq, peer, fault, reported>>

(* Channel::handleEvent uses the channel before, and again after, the read  *)
(* handler; the connection that owns it may be gone.                        *)
UseFreed ==
  /\ At("before") \/ At("write")
  /\ ~Referenced
  /\ fault' = "freed"
  /\ UNCHANGED <<conn, inbuf, refs, loop, callers, sndq, peer, reported>>

Reading == At("before") /\ Referenced /\ "in" \in aevents

NoRead ==
  /\ At("before") /\ Referenced /\ "in" \notin aevents
  /\ phase' = "write"
  /\ UNCHANGED <<conn, inbuf, refs, queue, batch, aevents, callers, sndq, peer, fault,
                 reported>>

(* handleRead with n > 0: onMessageRead_ is called.                         *)
handleRead ==
  LET n == Least(rcvq, room) IN
  /\ Reading
  /\ n > 0
  /\ rcvq' = rcvq - n
  /\ input' = input + n
  /\ room' = room - n
  /\ phase' = "onMessage"
  /\ UNCHANGED <<conn, refs, queue, batch, aevents, callers, sndq, arrived, fin, reset,
                 fault, reported>>

(* n < 0: the error is printed. *)
handleReadError ==
  /\ Reading
  /\ room > 0 /\ rcvq = 0
  /\ sockErr
  /\ sockErr' = FALSE
  /\ phase' = "write"
  /\ UNCHANGED <<conn, inbuf, refs, queue, batch, aevents, callers, inflight, sent, peer,
                 fault, reported>>

(* n = 0: the end of the stream, or an inputBuffer_ without room, for which *)
(* readv is asked for no bytes and returns 0 at once.  handleClose and      *)
(* TcpClient::removeConnect follow, which ends in the user's onDisConnect_. *)
EndOfRead == room = 0 \/ (rcvq = 0 /\ ~sockErr /\ (fin \/ reset))

removeConnect ==
  /\ mapped' = FALSE
  /\ UNCHANGED held

handleClose ==
  /\ Reading
  /\ EndOfRead
  /\ state' = "disconnect"
  /\ uevents' = {}
  /\ fault' = IF uevents = {} THEN "removeChannel"
              ELSE IF ~mapped THEN "removeConnect" ELSE "none"
  /\ removeConnect
  /\ phase' = "onDisConnect"
  /\ UNCHANGED <<output, taken, inbuf, queue, batch, aevents, callers, sndq, peer,
                 reported>>

onDisConnectReturns ==
  /\ At("onDisConnect")
  /\ phase' = "write"
  /\ UNCHANGED <<conn, inbuf, refs, queue, batch, aevents, callers, sndq, peer, fault,
                 reported>>

(* onMessageRead_ returns, having read some or all of inputBuffer_.  The    *)
(* room comes back only when nothing is left (Buffer: EmptyIsReset).        *)
onMessageReturns ==
  /\ At("onMessage")
  /\ input' \in 0..input
  /\ room' = IF input' = 0 THEN InputRoom ELSE room
  /\ phase' = "write"
  /\ UNCHANGED <<conn, refs, queue, batch, aevents, callers, sndq, peer, fault, reported>>

NoWrite ==
  /\ At("write") /\ Referenced /\ "out" \notin aevents
  /\ phase' = "after"
  /\ UNCHANGED <<conn, inbuf, refs, queue, batch, aevents, callers, sndq, peer, fault,
                 reported>>

(* handleWrite: one send of the whole output_. *)
handleWrite ==
  LET n == Accepted(Len(output)) IN
  /\ At("write") /\ Referenced /\ "out" \in aevents
  /\ Refusal = "none"
  /\ inflight' = inflight + n
  /\ sent' = sent \o SubSeq(output, 1, n)
  /\ output' = Unsent(output, n)
  /\ \/ /\ n = Len(output)
        /\ disableWrite
        /\ TellComplete
     \/ /\ n < Len(output)
        /\ UNCHANGED <<uevents, fault, queue>>
  /\ phase' = "after"
  /\ UNCHANGED <<state, taken, inbuf, refs, batch, aevents, callers, sockErr, peer, reported>>

handleWriteError ==
  /\ At("write") /\ Referenced /\ "out" \in aevents
  /\ Refusal # "none"
  /\ fault' = IF Refusal = "SIGPIPE" THEN "SIGPIPE" ELSE "handleWrite"
  /\ UNCHANGED <<conn, inbuf, refs, loop, callers, sndq, peer, reported>>

(* handleTask: the swap, the closures one by one, the end. *)
handleTask ==
  /\ At("after")
  /\ batch' = queue
  /\ queue' = <<>>
  /\ phase' = "tasks"
  /\ UNCHANGED <<conn, inbuf, refs, aevents, callers, sndq, peer, fault, reported>>

RunTask(task) ==
  /\ At("tasks")
  /\ batch # <<>> /\ task = Head(batch)
  /\ batch' = Tail(batch)

(* sendInloop(data, len): data is a pointer, read when the closure runs.    *)
RunSend ==
  \E m \in Messages :
    /\ RunTask(<<"send", m>>)
    /\ sendInloop(IF SenderKeepsBuffer THEN m ELSE <<m[1], sends[m[1]]>>)
    /\ UNCHANGED <<state, inbuf, refs, phase, aevents, callers, peer, reported>>

RunClose ==
  /\ RunTask(<<"close">>)
  /\ activeCloseInloop
  /\ UNCHANGED <<output, taken, inbuf, refs, queue, phase, aevents, callers, sndq, peer,
                 reported>>

RunCallback ==
  /\ \/ RunTask(<<"complete">>) /\ reported' = Len(sent)
     \/ RunTask(<<"highWater">>) /\ UNCHANGED reported
  /\ phase' = "callback"
  /\ UNCHANGED <<conn, inbuf, refs, queue, aevents, callers, sndq, peer, fault>>

CallbackReturns ==
  /\ At("callback")
  /\ phase' = "tasks"
  /\ UNCHANGED <<conn, inbuf, refs, queue, batch, aevents, callers, sndq, peer, fault,
                 reported>>

EndTasks ==
  /\ At("tasks")
  /\ batch = <<>>
  /\ phase' = "poll"
  /\ UNCHANGED <<conn, inbuf, refs, queue, batch, aevents, callers, sndq, peer, fault,
                 reported>>

-----------------------------------------------------------------------------
(* The peer and the network. *)

PeerSends ==
  /\ Running
  /\ ~fin /\ ~reset
  /\ arrived < MaxRecv
  /\ arrived' = arrived + 1
  /\ rcvq' = rcvq + 1
  /\ UNCHANGED <<conn, inbuf, refs, loop, callers, sndq, fin, reset, fault, reported>>

PeerReads ==
  /\ Running
  /\ inflight > 0
  /\ inflight' = inflight - 1
  /\ UNCHANGED <<conn, inbuf, refs, loop, callers, sent, sockErr, peer, fault, reported>>

PeerCloses ==
  /\ Running
  /\ ~fin /\ ~reset
  /\ fin' = TRUE
  /\ UNCHANGED <<conn, inbuf, refs, loop, callers, sndq, rcvq, arrived, reset, fault,
                 reported>>

PeerResets ==
  /\ Running
  /\ ~reset
  /\ reset' = TRUE
  /\ sockErr' = TRUE
  /\ UNCHANGED <<conn, inbuf, refs, loop, callers, inflight, sent, rcvq, arrived, fin,
                 fault, reported>>

UserStep ==
  \/ \E t \in Others : send(t) \/ sendQueue(t) \/ activeClose(t)
  \/ \E t \in Threads : Release(t)
  \/ sendHere
  \/ activeCloseHere

HandleEvent ==
  \/ NoRead
  \/ handleRead
  \/ handleReadError
  \/ handleClose
  \/ onDisConnectReturns
  \/ onMessageReturns
  \/ NoWrite
  \/ handleWrite
  \/ handleWriteError
  \/ UseFreed

RunTasks ==
  \/ handleTask
  \/ RunSend
  \/ RunClose
  \/ RunCallback
  \/ CallbackReturns
  \/ EndTasks

LoopStep == Poll \/ HandleEvent \/ RunTasks

PeerStep == PeerSends \/ PeerReads \/ PeerCloses \/ PeerResets

Next == UserStep \/ LoopStep \/ PeerStep

Spec == Init /\ [][Next]_vars

(* Fairness: the loop's thread is scheduled and its callbacks return; a     *)
(* thread inside send reaches queueInloop; the peer keeps reading.          *)
FairSpec ==
  /\ Spec
  /\ WF_vars(LoopStep)
  /\ \A t \in Others : WF_vars(sendQueue(t))
  /\ WF_vars(PeerReads)

=============================================================================
