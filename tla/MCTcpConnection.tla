--------------------------- MODULE MCTcpConnection --------------------------
(* Instances of TcpConnection for TLC. *)
EXTENDS TcpConnectionProps

CONSTANT t1

=============================================================================
