------------------------------ MODULE MCBuffer ------------------------------
(* Instances of Buffer for TLC. *)
EXTENDS BufferProps

CONSTANTS x, y

=============================================================================
