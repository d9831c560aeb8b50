--------------------------- MODULE MCLiveTraffic ---------------------------
(* Concurrent traffic lookups and tracks over one token cache, for TLC.  No *)
(* symmetry: the run checks liveness.                                       *)
EXTENDS LiveTraffic

CONSTANTS t1, t2, b1, b2

\* Two of one box, of two, and one of a box next to a track.
MCWants == {[t \in {t1, t2} |-> IF t = t1 THEN b1 ELSE w] : w \in {b1, b2, Nothing}}
=============================================================================
