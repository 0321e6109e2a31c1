---------------------------- MODULE MCPacedSend ----------------------------
(* Instances of PacedSend for TLC. *)
EXTENDS PacedSend

=============================================================================
