------------------------------ MODULE MCService -----------------------------
(* Instances of Service for TLC; the constants are given in the .cfg files. *)
EXTENDS Service, TLC
=============================================================================
