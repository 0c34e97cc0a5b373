------------------------------- MODULE MCCow --------------------------------
(* Instances of Cow for TLC. *)
EXTENDS Cow, TLC

CONSTANTS p1, p2, g1, g2, g3

MCProcs == {p1, p2}
MCPages == {g1, g2, g3}
MCData == {"a"}
Symmetry == Permutations(MCPages)

(* The count of a free page is set before it is read. *)
View == <<free, [g \in Pages \ free |-> refcnt[g]], mem, pteVars, top, vma, state, panic>>
=============================================================================
