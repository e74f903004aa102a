------------------------------ MODULE MCProtocol ------------------------------
(* Protocol with small bounds.                                             *)
EXTENDS Protocol
=============================================================================
