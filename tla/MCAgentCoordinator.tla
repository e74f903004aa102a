-------------------------- MODULE MCAgentCoordinator --------------------------
(* AgentCoordinator with one agent, and with two in each mode of Update.   *)
EXTENDS AgentCoordinator

Mode(n, threads, realtime, keeps, loops) ==
  [agents |-> n, multiplayer |-> n > 1, multiThreaded |-> threads,
   realtime |-> realtime, keepsUpdating |-> keeps, maxLoops |-> loops]

MCSettings == {Mode(1, FALSE, FALSE, FALSE, 4), Mode(2, FALSE, FALSE, FALSE, 3),
               Mode(2, TRUE, FALSE, TRUE, 3), Mode(2, FALSE, TRUE, TRUE, 2)}

MCInTurns == {Mode(2, FALSE, FALSE, FALSE, 3)}
=============================================================================
