---------------------------- MODULE MCZoneCard ----------------------------
(* Grounds below, at, and far above the aerodrome, for TLC.                 *)
EXTENDS ZoneCard

MCGround == {-200, 70, 99, 100, 101, 105, 340, 345, 349, 355, 600, 1101, 2000}
=============================================================================
