------------------------------ MODULE MCTunMgr ------------------------------
(* Instances of TunMgr for TLC; the constants are given in the .cfg files.  *)
EXTENDS TunMgr, TLC

\* The request tasks are interchangeable.
ReqSymmetry == Permutations(Req)
=============================================================================
