------------------------------ MODULE MCGateway ------------------------------
(* Concurrent gateway calls over one cooldown, for TLC.                     *)
EXTENDS Gateway, TLC

CONSTANTS c1, c2, c3, c4

MCSymmetry == Permutations({c1, c2, c3, c4})
=============================================================================
