----------------------------- MODULE MCFetchAll -----------------------------
(* Concurrent requests over one result cache, for TLC.  No symmetry: the    *)
(* run checks liveness.                                                     *)
EXTENDS FetchAll

CONSTANTS k1, k2, r1, r2
=============================================================================
