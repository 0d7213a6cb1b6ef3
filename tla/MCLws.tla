------------------------------- MODULE MCLws -------------------------------
(* Instances of Lws for TLC; the constants are given in the .cfg file. *)
EXTENDS Lws
=============================================================================
