---------------------------- MODULE MCDipulZones ----------------------------
(* Zone lookups and single requests over one DiPUL token, for TLC.  No      *)
(* symmetry: the run checks liveness.                                       *)
EXTENDS DipulZones

CONSTANTS l1, s1, s2, z1, z2
=============================================================================
