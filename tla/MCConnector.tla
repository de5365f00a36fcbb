----------------------------- MODULE MCConnector ----------------------------
(* Instances of Connector for TLC. *)
EXTENDS ConnectorProps

CONSTANTS c1, c2, c3

=============================================================================
