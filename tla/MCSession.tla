------------------------------ MODULE MCSession ------------------------------
(* Instances of Session for TLC; the bound is given in the configurations. *)
EXTENDS Session
=============================================================================
