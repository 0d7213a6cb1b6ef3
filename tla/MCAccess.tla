------------------------------ MODULE MCAccess ------------------------------
(* Instances of Access for TLC; the constants are given in the .cfg file. *)
EXTENDS Access
=============================================================================
