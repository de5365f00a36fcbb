------------------------- MODULE TcpConnectionProps -------------------------
(***************************************************************************)
(* What must hold of TcpConnection.                                        *)
(***************************************************************************)
EXTENDS TcpConnection

(* The stream is these messages in this order: of MsgLen bytes each, the    *)
(* i-th byte of the k-th message has its one place, and there are no other. *)
Whole(stream, messages) ==
  /\ Len(stream) = Len(messages) * MsgLen
  /\ \A k \in DOMAIN messages, i \in 1..MsgLen :
       stream[(k - 1) * MsgLen + i] = Bytes(messages[k])[i]

(* What the kernel got and what waits in outputBuffer_ is, byte for byte,   *)
(* the messages sendInloop took, whole and in the order it took them: the   *)
(* partial sends, the refusals and handleWrite's resumptions neither lose   *)
(* nor repeat nor reorder a byte.                                           *)
StreamIsWhole == Whole(sent \o output, taken)

(* The messages of one thread are taken in the order it sent them, whatever *)
(* the other threads and the loop do, and none is taken twice.              *)
SenderOrder ==
  \A i, j \in DOMAIN taken :
    i < j /\ taken[i][1] = taken[j][1] => taken[i][2] < taken[j][2]

(* Writability is watched exactly while bytes wait: without it they would   *)
(* never leave, and with nothing to write it would make the loop spin       *)
(* (TcpConnection.cpp:258).  After handleClose the rest is abandoned.       *)
WriteInterest ==
  /\ output # <<>> /\ mapped => "out" \in uevents
  /\ "out" \in uevents => output # <<>>

(* TcpClient::removeConnect finds the connection in connsMap_: no order of  *)
(* reads, queued closes and re-registrations has handleClose run twice,     *)
(* though it does not look at state_.                                       *)
RemovedOnce == fault # "removeConnect"

(* Once everything has left, the user has been told, or is about to be:     *)
(* onWriteComplete_ ran after the last byte, or waits in the loop's queue.  *)
CompletionIsReported ==
  output = <<>> /\ reported < Len(sent) =>
    \E i \in DOMAIN (queue \o batch) : (queue \o batch)[i] = <<"complete">>

(* What the high water mark does bound: outputBuffer_ never holds more than *)
(* the mark, or one message that found it empty.                            *)
OutputNearMark ==
  HighWaterMark > 0 => Len(output) <= HighWaterMark \/ Len(output) <= MsgLen

(* What it takes to fail an assertion.  The one in removeChannel takes the  *)
(* end of the stream or a second activeClose: one, with its closure, the    *)
(* sends that register the descriptor again and the writes that take it out *)
(* of the poller, deregisters nothing twice.  The one in handleWrite takes  *)
(* a reset: writability is never reported to a connection whose kernel      *)
(* buffer is full again.                                                    *)
FaultNeedsCause ==
  /\ fault = "removeChannel" => closes > 1 \/ ~mapped
  /\ fault = "handleWrite" => reset

(* Bytes that wait in outputBuffer_ leave it, unless the peer is gone.      *)
OutputLeaves ==
  output # <<>> ~> output = <<>> \/ ~mapped \/ reset \/ fault # "none"

=============================================================================
