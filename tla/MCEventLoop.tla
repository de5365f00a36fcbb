----------------------------- MODULE MCEventLoop ----------------------------
(* Instances of EventLoop for TLC. *)
EXTENDS EventLoopProps

CONSTANTS t1, t2, job1, job2

=============================================================================
