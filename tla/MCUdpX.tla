------------------------------- MODULE MCUdpX -------------------------------
(* Instances of UdpX for TLC; the constants are given in the .cfg file. *)
EXTENDS UdpX
=============================================================================
