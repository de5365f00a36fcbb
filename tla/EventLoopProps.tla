--------------------------- MODULE EventLoopProps ---------------------------
(***************************************************************************)
(* What must hold of EventLoop.                                            *)
(***************************************************************************)
EXTENDS EventLoop

Waking == \E t \in Threads : pc[t] = "wake"

(* A loop blocked in poll_->wait with closures in taskqueue_, or after      *)
(* running_ was cleared, is about to be woken: the eventfd is readable, or  *)
(* a thread that queued or stopped is on its way to write it.  This is what *)
(* the order of push_back or store and wakeup, and handleTask's place after *)
(* the dispatch, are for, and it must survive coalesced and overflowing     *)
(* eventfd writes (the question asked at EventLoop.cpp:128).                *)
NoLostWakeup ==
  lpc = "wait" /\ (taskqueue # <<>> \/ ~running) => wakeups > 0 \/ Waking

Executor == INSTANCE TaskExecutor WITH
              pending <- batch \o taskqueue,
              current <- IF current \in Tasks THEN current ELSE None,
              closed  <- lpc = "exit"

(* Seen by the threads that queue closures, the loop is a TaskExecutor:     *)
(* closures run one at a time, in the order they were queued, each once.    *)
ExecutorSafety == Executor!Safety

(* And a queued closure is run unless the loop ends first, with no help     *)
(* from the poll's timeout, whatever threads queue or descriptors do.       *)
ExecutorSpec == Executor!Spec

(* A descriptor with an event has its handler called, unless the loop ends  *)
(* first, even when closures queue closures for ever: handleTask runs the   *)
(* closures it swapped out and goes back to poll.                           *)
IoIsServed ==
  \A fd \in Fds : fd \in readable ~> current = fd \/ lpc = "exit"

(* Once loop() runs, a stop() ends it. *)
StopEndsLoop == ~running /\ lpc # "init" ~> lpc = "exit"

=============================================================================
