------------------------------ MODULE MCXTunnel -----------------------------
(* Instances of XTunnel for TLC; the constants are given in the .cfg files. *)
EXTENDS XTunnel, TLC

\* The request tasks are interchangeable.
ReqSymmetry == Permutations(Req)
=============================================================================
