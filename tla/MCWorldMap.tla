----------------------------- MODULE MCWorldMap -----------------------------
(* WorldMap for model checking: five tiles in three zones.                  *)
EXTENDS WorldMap

FirstTile == [m \in Monster |-> 0]
=============================================================================
