------------------------------- MODULE MCPipe -------------------------------
(* Instances of Pipe for TLC. *)
EXTENDS Pipe

CONSTANTS p1, p2

MCProcs == {p1, p2}
MCBytes == {0, 1}
=============================================================================
