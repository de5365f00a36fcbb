------------------------- MODULE MCEventLoopThread --------------------------
(* Instances of EventLoopThread for TLC. *)
EXTENDS EventLoopThreadProps

CONSTANTS job1

=============================================================================
