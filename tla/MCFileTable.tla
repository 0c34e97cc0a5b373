---------------------------- MODULE MCFileTable ----------------------------
(* Instances of FileTable for TLC. *)
EXTENDS FileTable, TLC

CONSTANTS p1, p2, pi1, n1

MCProcs == {p1, p2}
MCPipes == {pi1}
MCNodes == {n1}
=============================================================================
