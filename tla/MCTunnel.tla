------------------------------ MODULE MCTunnel ------------------------------
(* Instances of Tunnel for TLC; the constants are given in the .cfg files.  *)
EXTENDS Tunnel, TLC

\* The request tasks are interchangeable.
ReqSymmetry == Permutations(Req)
=============================================================================
