------------------------------ MODULE MCEasyFs ------------------------------
(* Instances of EasyFs for TLC: an image with one file of one block. *)
EXTENDS EasyFs

MCInject == <<[name |-> "a", blocks |-> 1]>>
MCPaths == {<<"a">>, <<"d">>, <<"d", "a">>}
=============================================================================
