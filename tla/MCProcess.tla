------------------------------- MODULE MCProcess -------------------------------
(* Process with two threads.                                               *)
EXTENDS Process
=============================================================================
