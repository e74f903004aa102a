----------------------------- MODULE MCUnitEvents -----------------------------
(* UnitEvents with one unit of each kind.                                  *)
EXTENDS UnitEvents

MCAlliance == [t \in Tags |-> IF t = "own" THEN "Self"
                              ELSE IF t = "enemy" THEN "Enemy" ELSE "Neutral"]
=============================================================================
