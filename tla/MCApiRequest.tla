---------------------------- MODULE MCApiRequest ----------------------------
(* Two requests over one gateway, for TLC.  No symmetry: the run checks     *)
(* liveness.                                                                *)
EXTENDS ApiRequest

CONSTANTS r1, r2

MCCall == {r1, r2} \X {"locate", "weather"}
=============================================================================
