----------------------------- MODULE ExamplesProps ---------------------------
(***************************************************************************)
(* What must hold of the example programs.                                 *)
(***************************************************************************)
EXTENDS Examples

(* The messages that are on their way or beyond: a thread's send only has   *)
(* its message queued.                                                      *)
Gone == IF program \in Threads THEN sends - tasks ELSE sends

Messages(n) == FlattenSeq([i \in 1..n |-> Message(i)])

Replies(all) ==
  IF program = "sudoku"
    THEN FlattenSeq([i \in DOMAIN all |-> all[i] \o <<CR, LF>>])
  ELSE IF program \in Echoing THEN all ELSE <<>>

(* Wherever TCP cuts the streams and sends are partial, nothing is lost,    *)
(* doubled or cut at a wrong place.  What the server took, holds and has to *)
(* come are, byte for byte, the messages in their order, and the same is    *)
(* true of its replies: the Sudoku requests and responses between CRLFs,    *)
(* the echo as it is.  A server that has closed may have lost the last of   *)
(* its replies, but none of those before them.  Chargen's high water mark   *)
(* doubles bytes, and the line thread overwrites its own: what it wanted to *)
(* send is not what it does, but the echo is whole.                         *)
StreamsAreWhole ==
  program # "chargen" =>
    /\ program # "lineThread" =>
         Messages(Gone) =
           (IF program = "sudoku" THEN Messages(Len(answers)) ELSE answers)
             \o input \o c2s
    /\ LET came == Replies(received) \o cinput \o s2c IN
         IF spc = "closed" THEN IsPrefix(came, Replies(answers))
         ELSE Replies(answers) = came

Good(i) == script[i] = kCell

(* A Sudoku request gets its own answer, its result or the error, in the    *)
(* order of the requests: the client has nothing else to tell an error's    *)
(* request by.                                                              *)
AnswersMatch ==
  program = "sudoku" =>
    \A i \in DOMAIN answers :
      answers[i] = IF Good(i) THEN [j \in 1..kCell |-> <<i, j>>] ELSE ErrorLength

(* The requests that were sent do not fit the server's inputBuffer_         *)
(* together, and the server, which does not move its content down, has      *)
(* taken that for the end of the connection.                                *)
Overrun == spc = "closed" /\ Len(Messages(sends)) > Room

(* The client is stuck in its callback, with a part of a response, the rest *)
(* of which is on its way or lost.                                          *)
Stuck == Spinning /\ (s2c # <<>> \/ spc = "closed")

(* A good request is answered (the list at example_sudoku.cpp:59), unless   *)
(* the requests overrun the buffer or the client is stuck before it has     *)
(* left: no cut of what fits the buffer makes the server close.             *)
GoodIsAnswered ==
  \A i \in 1..MaxReqs :
    program = "sudoku" /\ sends >= i /\ Good(i)
      ~> Len(answers) >= i \/ Overrun \/ Stuck

(* How many answers there are, the echo of one message being one. *)
Answers(all) == IF program = "sudoku" THEN Len(all) ELSE Len(all) \div Length

(* What was answered is found by the client, unless a read has ended within *)
(* a Sudoku response, or the server has closed over an overrun, which loses *)
(* answers that are on their way.                                           *)
AnswerIsFound ==
  \A i \in 1..MaxReqs :
    program \in {"sudoku"} \cup Echoing /\ Answers(answers) >= i
      ~> Answers(received) >= i \/ Overrun \/ Stuck

(* The generator never stalls: each of its messages, sent whole or in       *)
(* parts, is followed by the next one.                                      *)
GeneratorGoesOn ==
  \A i \in 1..MaxReqs :
    program = "chargen" /\ sends = i ~> sends > i \/ i = Len(script)

=============================================================================
