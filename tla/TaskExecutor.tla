---------------------------- MODULE TaskExecutor ----------------------------
(***************************************************************************)
(* What EventLoop promises the threads that hand it closures, with no      *)
(* mutex, eventfd or poll in sight: every task queued is run by one        *)
(* thread, one at a time, exactly once and in the order it was queued,     *)
(* until the executor is closed.                                           *)
(***************************************************************************)
EXTENDS Sequences

CONSTANTS Tasks,    \* the closures a thread may queue
          None      \* "no task is being run"

VARIABLES pending,  \* tasks queued and not started, oldest first
          current,  \* the task being run
          closed    \* the executor runs no task any more

vars == <<pending, current, closed>>

Init ==
  /\ pending = <<>>
  /\ current = None
  /\ closed = FALSE

Queue(task) ==
  /\ pending' = Append(pending, task)
  /\ UNCHANGED <<current, closed>>

Start ==
  /\ ~closed
  /\ current = None
  /\ pending # <<>>
  /\ current' = Head(pending)
  /\ pending' = Tail(pending)
  /\ UNCHANGED closed

Finish ==
  /\ current # None
  /\ current' = None
  /\ UNCHANGED <<pending, closed>>

Close ==
  /\ current = None
  /\ closed' = TRUE
  /\ UNCHANGED <<pending, current>>

Next ==
  \/ \E task \in Tasks : Queue(task)
  \/ Start
  \/ Finish
  \/ Close

Safety == Init /\ [][Next]_vars

Spec == Safety /\ WF_vars(Start) /\ WF_vars(Finish)

=============================================================================
