------------------------------- MODULE MCLaunch -------------------------------
(* Launch with small bounds.                                               *)
EXTENDS Launch
=============================================================================
