------------------------------ MODULE MCPppLink ------------------------------
(* An instance of PppLink for TLC: the gateway's frames are those it sends. *)
EXTENDS PppLink

NoFrames == {}
=============================================================================
