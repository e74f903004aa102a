-------------------------- MODULE MCReplayCoordinator --------------------------
(* ReplayCoordinator for the runs.                                         *)
EXTENDS ReplayCoordinator
=============================================================================
