------------------------------- MODULE Examples ------------------------------
(***************************************************************************)
(* The repository's own programs over one TCP connection: the server and   *)
(* the client of hahs_example/sudoku, /echo, /chargen and /discard, and of *)
(* net_test/test_TcpClient.                                                *)
(*                                                                         *)
(* TCP delivers bytes, in pieces that end anywhere; the callbacks of both  *)
(* sides have to find their messages in inputBuffer_, and a generator has  *)
(* to be told when to go on.  A byte is its message's number and its place *)
(* in it; a puzzle, which the server gives back, and the id before it,     *)
(* which is copied into the response, are the same to it.  What the        *)
(* server's send does is module TcpConnection: its bytes leave in their    *)
(* order.  The client's is here as far as onWriteComplete_ needs it.       *)
(***************************************************************************)
EXTENDS Naturals, Sequences, SequencesExt

CONSTANTS
  kCell,     \* the length of a puzzle
  Sizes,     \* the lengths of the requests the Sudoku client may send
  Length,    \* the length of the one message each other client has
  MaxReqs,   \* bound: messages the client sends
  Room,      \* bytes an empty inputBuffer_ of the server has room for
  Window     \* bytes of the client's that the kernels hold

ASSUME ExamplesAssumption ==
  /\ kCell \in Nat \ {0}
  /\ Sizes \subseteq Nat \ {0}
  /\ Length \in Nat \ {0}
  /\ MaxReqs \in Nat \ {0}
  /\ Room \in Nat \ {0}
  /\ Window \in Nat \ {0}

VARIABLES
  program,   \* which example runs
  script,    \* the lengths of the client's messages
  sends,     \* how many of them it has called send with
  tasks,     \* the closures in its loop's queue
  c2s,       \* its bytes on their way, those in its outputBuffer_ last
  waiting,   \* how many of them are in outputBuffer_
  s2c,       \* the server's bytes on their way
  input,     \* what the server's inputBuffer_ holds
  used,      \* how far its putIndex_ is from where it started
  spc,       \* where the server is: in poll, in onMessage, or closed
  cpc,       \* where the client is: to connect, in poll or onMessage, closed
  cinput,    \* what the client's inputBuffer_ holds
  answers,   \* history: what the server answered, or the bytes it took
  received   \* history: what the client took

vars == <<program, script, sends, tasks, c2s, waiting, s2c, input, used, spc,
          cpc, cinput, answers, received>>
clientVars == <<sends, tasks, waiting, cpc, cinput, received>>
serverVars == <<input, used, spc, answers>>

Threads  == {"discardThread", "echoThread", "lineThread"}
Echoing  == {"echo", "echoThread", "lineThread"}
Programs == {"sudoku", "echo", "chargen"} \cup Threads

CR == <<0, 1>>
LF == <<0, 2>>

(* Message number i: so many bytes of its own, and the end of the line of a *)
(* Sudoku request.                                                          *)
Message(i) ==
  [j \in 1..script[i] |-> <<i, j>>] \o IF program = "sudoku" THEN <<CR, LF>> ELSE <<>>

Least(m, n) == IF m < n THEN m ELSE n

(* Buffer::findCRLF: where the first CRLF begins, 0 if there is none. *)
findCRLF(buf) ==
  LET ends == {i \in 1..Len(buf) - 1 : buf[i] = CR /\ buf[i + 1] = LF}
  IN  IF ends = {} THEN 0 ELSE CHOOSE i \in ends : \A j \in ends : i <= j

TypeOK ==
  /\ program \in Programs
  /\ script \in Seq(Sizes \cup {Length}) /\ Len(script) \in 1..MaxReqs
  /\ sends \in 0..Len(script)
  /\ tasks \in 0..MaxReqs
  /\ waiting \in 0..Len(c2s) /\ Len(c2s) - waiting <= Window
  /\ used \in Len(input)..Room
  /\ input = <<>> => used = 0
  /\ spc \in {"poll", "onMessage", "closed"}
  /\ cpc \in {"connect", "failed", "poll", "onMessage", "closed"}

(* What the clients send: the Sudoku client any requests, good and bad;     *)
(* echo's one message; chargen's and the threads' the same one for ever.    *)
Scripts(name) ==
  IF name = "sudoku" THEN SeqOf(Sizes, MaxReqs) \ {<<>>}
  ELSE {[i \in 1..(IF name = "echo" THEN 1 ELSE MaxReqs) |-> Length]}

(* Each example sets the callbacks that it has: only chargen's client has   *)
(* an onWriteComplete_ and a high water mark.                               *)
Init ==
  /\ program \in Programs
  /\ script \in Scripts(program)
  /\ sends = 0 /\ tasks = 0
  /\ c2s = <<>> /\ waiting = 0 /\ s2c = <<>>
  /\ input = <<>> /\ used = 0 /\ spc = "poll"
  /\ cpc = "connect" /\ cinput = <<>>
  /\ answers = <<>> /\ received = <<>>

-----------------------------------------------------------------------------
(* The client sends. *)

Free == Window - (Len(c2s) - waiting)

(* What the kernel takes of so many bytes: nothing while others wait. *)
Accepted(size) == IF waiting > 0 THEN 0 ELSE Least(Free, size)

(* sendInloop: what the kernel does not take waits in outputBuffer_, and    *)
(* with chargen's mark, which one message never reaches, all of the message *)
(* does.                                                                    *)
sendInloop(bytes) ==
  LET n == Accepted(Len(bytes))
      again == program = "chargen" /\ n < Len(bytes) IN
  /\ c2s' = c2s \o (IF again THEN SubSeq(bytes, 1, n) ELSE <<>>) \o bytes
  /\ waiting' = waiting + IF again THEN Len(bytes) ELSE Len(bytes) - n

(* onWriteComplete_ is queued: all of size bytes have left. *)
Told(done) == IF program = "chargen" /\ done THEN 1 ELSE 0

(* Mutant: handleWrite tells nobody that the last byte has left. *)
handleWriteSilently ==
  /\ cpc = "poll"
  /\ waiting > 0 /\ Free > 0
  /\ waiting' = waiting - Least(Free, waiting)
  /\ UNCHANGED <<program, script, sends, tasks, c2s, s2c, serverVars, cpc,
                 cinput, received>>

handleWrite ==
  /\ cpc = "poll"
  /\ waiting > 0 /\ Free > 0
  /\ waiting' = waiting - Least(Free, waiting)
  /\ tasks' = tasks + Told(waiting' = 0)
  /\ UNCHANGED <<program, script, sends, c2s, s2c, serverVars, cpc, cinput,
                 received>>

(* The server has reset the connection: the assertion in handleWrite ends   *)
(* a client that has bytes waiting.                                         *)
handleWriteError ==
  /\ spc = "closed"
  /\ cpc = "poll"
  /\ waiting > 0
  /\ cpc' = "failed"
  /\ UNCHANGED <<program, script, sends, tasks, c2s, waiting, s2c, serverVars,
                 cinput, received>>

(* sudokuClient::onConnect sends all requests with one call. *)
sudokuOnConnect ==
  /\ program = "sudoku"
  /\ cpc = "connect"
  /\ sends' = Len(script)
  /\ sendInloop(FlattenSeq([i \in DOMAIN script |-> Message(i)]))
  /\ cpc' = "poll"
  /\ UNCHANGED <<program, script, tasks, s2c, serverVars, cinput, received>>

(* EchoClient::onConnect sends its one message. *)
echoOnConnect ==
  /\ program = "echo"
  /\ cpc = "connect"
  /\ sends' = 1
  /\ sendInloop(Message(1))
  /\ cpc' = "poll"
  /\ UNCHANGED <<program, script, tasks, s2c, serverVars, cinput, received>>

(* ChargenClient::onConnect sends the message that has it told of its end.  *)
chargenOnConnect ==
  /\ program = "chargen"
  /\ cpc = "connect"
  /\ sends' = 1
  /\ sendInloop(Message(1))
  /\ tasks' = Told(Accepted(Len(Message(1))) = Len(Message(1)))
  /\ cpc' = "poll"
  /\ UNCHANGED <<program, script, s2c, serverVars, cinput, received>>

(* ChargenClient::onWriteComplete, which handleTask calls, sends the next.  *)
onWriteComplete ==
  LET next == Message(sends + 1) IN
  /\ program = "chargen"
  /\ cpc = "poll"
  /\ tasks > 0
  /\ sends < Len(script)
  /\ sends' = sends + 1
  /\ sendInloop(next)
  /\ tasks' = tasks - 1 + Told(Accepted(Len(next)) = Len(next))
  /\ UNCHANGED <<program, script, s2c, serverVars, cpc, cinput, received>>

(* clientDiscardThread and clientEchoThread connect a socket that            *)
(* connectNonblocking makes non-blocking: a connect that is in progress is  *)
(* an error to them, and the thread ends.                                   *)
threadConnect(name) ==
  /\ program = name
  /\ cpc = "connect"
  /\ cpc' \in {"poll", "failed"}
  /\ UNCHANGED <<program, script, sends, tasks, c2s, waiting, s2c, serverVars,
                 cinput, received>>

discardConnect == threadConnect("discardThread")
echoConnect    == threadConnect("echoThread")

(* A turn of the thread's while(1): send hands the message to the loop. *)
threadSend(name) ==
  /\ program = name
  /\ cpc \in {"poll", "onMessage"}
  /\ sends < Len(script)
  /\ sends' = sends + 1
  /\ tasks' = tasks + 1
  /\ UNCHANGED <<program, script, c2s, waiting, s2c, serverVars, cpc, cinput,
                 received>>

discardSend == threadSend("discardThread")
echoSend    == threadSend("echoThread")

(* test_TcpClient: clientOnConnect starts a thread, which sends its file     *)
(* line by line.                                                            *)
clientOnConnect ==
  /\ program = "lineThread"
  /\ cpc = "connect"
  /\ cpc' = "poll"
  /\ UNCHANGED <<program, script, sends, tasks, c2s, waiting, s2c, serverVars,
                 cinput, received>>

lineSend == threadSend("lineThread")

(* What a closure finds where its bytes were: the examples' threads keep    *)
(* their one message; test_TcpClient's reads the next line into the same    *)
(* string, and leaves it at the end of the file.                            *)
Garbage == [j \in 1..Length |-> <<0, 4>>]
Found ==
  IF program = "lineThread" THEN {Message(sends), Garbage}
  ELSE {Message(sends - tasks + 1)}

runSend ==
  /\ program \in Threads
  /\ cpc = "poll"
  /\ tasks > 0
  /\ \E bytes \in Found : sendInloop(bytes)
  /\ tasks' = tasks - 1
  /\ UNCHANGED <<program, script, sends, s2c, serverVars, cpc, cinput, received>>

-----------------------------------------------------------------------------
(* The server. *)

(* handleRead: readFD takes as much as is there and fits behind putIndex_,  *)
(* and calls onMessage.                                                     *)
serverRead(n) ==
  /\ spc = "poll"
  /\ n \in 1..Len(c2s) - waiting
  /\ used + n <= Room
  /\ input' = input \o SubSeq(c2s, 1, n)
  /\ used' = used + n
  /\ c2s' = SubSeq(c2s, n + 1, Len(c2s))
  /\ spc' = "onMessage"
  /\ UNCHANGED <<program, script, s2c, clientVars, answers>>

(* Mutant: off by one, the last byte of room is never read into.            *)
serverReadNothingEarly ==
  /\ spc = "poll"
  /\ Len(c2s) > waiting
  /\ used >= Room - 1
  /\ spc' = "closed"
  /\ \E n \in 0..Len(s2c) : s2c' = SubSeq(s2c, 1, n)
  /\ UNCHANGED <<program, script, c2s, clientVars, input, used, answers>>

(* There is no room behind putIndex_: readv returns 0, and the server takes *)
(* the client to have closed.  handleClose has the connection deleted, with *)
(* its outputBuffer_, and ~Socket closes a descriptor that has bytes to be  *)
(* read, which resets the connection: the client still gets some of what    *)
(* was on its way.                                                          *)
serverReadNothing ==
  /\ spc = "poll"
  /\ Len(c2s) > waiting
  /\ used = Room
  /\ spc' = "closed"
  /\ \E n \in 0..Len(s2c) : s2c' = SubSeq(s2c, 1, n)
  /\ UNCHANGED <<program, script, c2s, clientVars, input, used, answers>>

(* getAllAsString empties the buffer and resets it; so does the end of the  *)
(* callback that called it.                                                 *)
TakeAll ==
  /\ spc = "onMessage"
  /\ answers' = answers \o input
  /\ input' = <<>>
  /\ used' = 0
  /\ spc' = "poll"

SendBack ==
  /\ TakeAll
  /\ s2c' = s2c \o input
  /\ UNCHANGED <<program, script, c2s, clientVars>>

Discard ==
  /\ TakeAll
  /\ UNCHANGED <<program, script, c2s, s2c, clientVars>>

(* EchoServer::onMessage, ChargenServer::onMessage, the two callbacks of    *)
(* the discard example and the one of test_TcpClient, whose connection is   *)
(* connected.                                                               *)
echoOnMessage        == program = "echo" /\ SendBack
serverMessageEcho    == program = "echoThread" /\ SendBack
serverOnMessage      == program = "lineThread" /\ SendBack
chargenOnMessage     == program = "chargen" /\ Discard
serverMessageDiscard == program = "discardThread" /\ Discard

(* Mutant: the CRLF stays in the buffer. *)
TakeNoCRLF(crlf) ==
  /\ input' = SubSeq(input, crlf, Len(input))
  /\ UNCHANGED used

(* setGetIndexOffset(req.size() + 2), and the reset of an emptied buffer. *)
Take(crlf) ==
  /\ input' = SubSeq(input, crlf + 2, Len(input))
  /\ used' = IF input' = <<>> THEN 0 ELSE used

(* sodokuServer::onMessage: while(readableBytes() >= kCell + 2), and a CRLF *)
(* is found.                                                                *)
HasRequest ==
  /\ program = "sudoku"
  /\ spc = "onMessage"
  /\ Len(input) >= kCell + 2
  /\ findCRLF(input) # 0

(* Mutant: the length is not looked at. *)
solveSudokuAny ==
  LET crlf == findCRLF(input)
      req == SubSeq(input, 1, crlf - 1) IN
  /\ HasRequest
  /\ Take(crlf)
  /\ s2c' = s2c \o req \o <<CR, LF>>
  /\ answers' = Append(answers, req)
  /\ UNCHANGED <<program, script, c2s, spc, clientVars>>

(* A request of the right length: the result is sent. *)
solveSudoku ==
  LET crlf == findCRLF(input)
      req == SubSeq(input, 1, crlf - 1) IN
  /\ HasRequest
  /\ Len(req) = kCell
  /\ Take(crlf)
  /\ s2c' = s2c \o req \o <<CR, LF>>
  /\ answers' = Append(answers, req)
  /\ UNCHANGED <<program, script, c2s, spc, clientVars>>

(* What is said of every bad request: one byte stands for the text. *)
ErrorLength == <<<<0, 3>>>>

badLength ==
  LET crlf == findCRLF(input) IN
  /\ HasRequest
  /\ crlf - 1 # kCell
  /\ Take(crlf)
  /\ s2c' = s2c \o ErrorLength \o <<CR, LF>>
  /\ answers' = Append(answers, ErrorLength)
  /\ UNCHANGED <<program, script, c2s, spc, clientVars>>

(* Too few bytes for a request, or no CRLF: onMessage returns. *)
onMessageReturns ==
  /\ program = "sudoku"
  /\ spc = "onMessage"
  /\ ~HasRequest
  /\ spc' = "poll"
  /\ UNCHANGED <<program, script, c2s, s2c, clientVars, input, used, answers>>

-----------------------------------------------------------------------------
(* The client reads. *)

clientRead(n) ==
  /\ cpc = "poll"
  /\ n \in 1..Len(s2c)
  /\ cinput' = cinput \o SubSeq(s2c, 1, n)
  /\ s2c' = SubSeq(s2c, n + 1, Len(s2c))
  /\ cpc' = "onMessage"
  /\ UNCHANGED <<program, script, sends, tasks, c2s, waiting, serverVars, received>>

(* After the reset there is nothing more to read, and the client closes.    *)
clientClose ==
  /\ spc = "closed"
  /\ cpc = "poll"
  /\ s2c = <<>> /\ waiting = 0
  /\ cpc' = "closed"
  /\ UNCHANGED <<program, script, sends, tasks, c2s, waiting, s2c, serverVars,
                 cinput, received>>

(* EchoClient::onMessage and the like take all there is. *)
TakeEcho ==
  /\ cpc = "onMessage"
  /\ received' = received \o cinput
  /\ cinput' = <<>>
  /\ cpc' = "poll"
  /\ UNCHANGED <<program, script, sends, tasks, c2s, waiting, s2c, serverVars>>

echoClientOnMessage == program = "echo" /\ TakeEcho
clientRecvEcho      == program = "echoThread" /\ TakeEcho
clientOnMessage     == program = "lineThread" /\ TakeEcho

(* sudokuClient::onMessage: while(readableBytes() > 0) with a CRLF in the   *)
(* buffer.                                                                  *)
response ==
  LET crlf == findCRLF(cinput) IN
  /\ program = "sudoku"
  /\ cpc = "onMessage"
  /\ crlf # 0
  /\ received' = Append(received, SubSeq(cinput, 1, crlf - 1))
  /\ cinput' = SubSeq(cinput, crlf + 2, Len(cinput))
  /\ UNCHANGED <<program, script, sends, tasks, c2s, waiting, s2c, serverVars, cpc>>

(* The loop has no end but an empty buffer: with a part of a response in it *)
(* the client stays in the loop, and never reads the rest.                  *)
Spinning ==
  /\ program = "sudoku"
  /\ cpc = "onMessage"
  /\ cinput # <<>>
  /\ findCRLF(cinput) = 0

(* Mutant: if where the client has while. *)
clientReturnsSoon ==
  /\ program = "sudoku"
  /\ cpc = "onMessage"
  /\ cpc' = "poll"
  /\ UNCHANGED <<program, script, sends, tasks, c2s, waiting, s2c, serverVars,
                 cinput, received>>

clientReturns ==
  /\ program = "sudoku"
  /\ cpc = "onMessage"
  /\ cinput = <<>>
  /\ cpc' = "poll"
  /\ UNCHANGED <<program, script, sends, tasks, c2s, waiting, s2c, serverVars,
                 cinput, received>>

-----------------------------------------------------------------------------
ServerStep ==
  \/ \E n \in 1..Room : serverRead(n)
  \/ serverReadNothing
  \/ echoOnMessage \/ serverMessageEcho \/ serverOnMessage
  \/ chargenOnMessage \/ serverMessageDiscard
  \/ solveSudoku \/ badLength \/ onMessageReturns

ClientStep ==
  \/ handleWrite \/ handleWriteError \/ onWriteComplete \/ runSend
  \/ (\E n \in 1..Len(s2c) : clientRead(n)) \/ clientClose
  \/ echoClientOnMessage \/ clientRecvEcho \/ clientOnMessage \/ response \/ clientReturns

(* All that was sent is read, or one of them reads no more. *)
Over ==
  /\ c2s = <<>> \/ spc = "closed" \/ Spinning
  /\ UNCHANGED vars

Next ==
  \/ sudokuOnConnect \/ echoOnConnect \/ chargenOnConnect
  \/ discardConnect \/ echoConnect \/ clientOnConnect
  \/ discardSend \/ echoSend \/ lineSend
  \/ ServerStep \/ ClientStep
  \/ Over

Spec == Init /\ [][Next]_vars

(* Fairness: both loops keep running and the network delivers.  Nobody has  *)
(* to connect, and no thread has to send.                                   *)
FairSpec == Spec /\ WF_vars(ServerStep) /\ WF_vars(ClientStep)

=============================================================================
