------------------------ MODULE EventLoopThreadProps ------------------------
(***************************************************************************)
(* What must hold of EventLoopThread, Thread and CountDownLatch.           *)
(***************************************************************************)
EXTENDS EventLoopThread

(* Thread::start's handshake.  When it returns, tid_ is known (the          *)
(* assertion of Thread.cpp:124).  And the objects the new thread uses on    *)
(* its way to its function, the latch and the EventLoopThread's mutex and   *)
(* condition, outlive that use, though the owner destroys them as soon as   *)
(* start() or startLoop() has returned (the comments at Thread.cpp:52-55;   *)
(* test_tcpClinet.cpp:90 does it).                                          *)
HandshakeHolds == fault \notin {"tid", "freed"}

(* startLoop returns once the new thread has built its EventLoop            *)
(* (EventLoopThread.cpp:31), and the pointer is good until the owner, or a  *)
(* closure it queued, has told the loop to stop.                            *)
ReturnedLoopIsBuilt ==
  HasLoop => loop /\ (alive \/ stopped)

(* startLoop hands the loop out before its thread has come to loop(): the   *)
(* owner may queue and stop before, while and after it does.  The loop      *)
(* never sleeps in poll on a closure, or on a stop that loop() has not      *)
(* overwritten, unless the owner is on its way to wake it.                  *)
OwnerIsHeard ==
  lpc = "wait" /\ (taskqueue # <<>> \/ ~running) =>
    wakeups > 0 \/ pc[Owner] = "wake"

(* startLoop returns, if pthread_create made a thread: no order of latch,   *)
(* mutexes and spurious wakeups leaves the owner asleep.                    *)
StartReturns ==
  tpc = "created" ~> opc = "up" \/ fault # "none"

-----------------------------------------------------------------------------
(* What the code says of itself and does not do. *)

(* EventLoop.h:33: stop() ends the loop and its thread exits.  A stop()     *)
(* that comes as soon as startLoop has returned finds the thread still on   *)
(* its way to loop(), which sets running_ again.                            *)
StopEndsThread == stopped ~> tpc = "done" \/ fault # "none"

=============================================================================
