------------------------------- MODULE MCClient -------------------------------
(* Client with programs that use a part of the interfaces each.            *)
EXTENDS Client

BotOf(multi, realtime, uses) ==
  [role |-> "agent", multi |-> multi, realtime |-> realtime, uses |-> uses]

ObserverOf(realtime, uses) ==
  [role |-> "observer", multi |-> FALSE, realtime |-> realtime, uses |-> uses]

MCPrograms ==
  {BotOf(FALSE, FALSE, {"data", "info", "query", "restart"}),
   BotOf(FALSE, FALSE, {"raw", "layer", "hand"}),
   BotOf(FALSE, FALSE, {"raw", "load", "restart"}),
   BotOf(TRUE, FALSE, {"raw", "debug", "camera"}),
   BotOf(TRUE, TRUE, {"raw", "layer"}),
   ObserverOf(FALSE, {"data", "info", "layer"}),
   ObserverOf(TRUE, {"layer", "hand", "debug"})}
=============================================================================
