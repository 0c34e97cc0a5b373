---------------------------- MODULE MCBlockCache ----------------------------
(* Instances of BlockCache for TLC. *)
EXTENDS BlockCache

CONSTANTS p1, p2

MCProcs == {p1, p2}
MCData == {0, 1}
=============================================================================
