---------------------------- MODULE MCCloudBase ----------------------------
(* Concurrent lookups of the cloud base, for TLC.  The reports: clear; fog  *)
(* with a vertical visibility and a runway visual range below its           *)
(* visibility; and layers of every kind.  A period and the groups that are  *)
(* not read have the least values of their report.                          *)
EXTENDS CloudBase

CONSTANTS c1, c2, a1

G(s, v) == [sort |-> s, value |-> v]

MCReport ==
    {{},
     {G("visibility", 4), G("RVR", 3), G("sector", 2), G("VV", 0), G("FEW", 0), G("period", 1)},
     {G("visibility", 9), G("visibility", 5), G("BKN", 3), G("OVC", 6), G("FEW", 1), G("period", 2)}}
=============================================================================
