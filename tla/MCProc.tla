------------------------------- MODULE MCProc -------------------------------
(* Instances of Proc for TLC. *)
EXTENDS Proc, TLC

MCSigs == {2}

(* What is pending for a ZOMBIE is never looked at. *)
View ==
  <<state, pid, parent, chan, [p \in {q \in Slots : state[q] # "ZOMBIE"} |-> sig_pending[p]], pc,
    callVars, owners, nextpid, schedVars>>
=============================================================================
