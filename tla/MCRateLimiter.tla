---------------------------- MODULE MCRateLimiter ----------------------------
(* Requests of a few addresses against the cleaner of the limiters, for TLC.*)
EXTENDS RateLimiter, TLC

CONSTANTS a1, r1, r2, r3, r4, r5

MCSymmetry == Permutations({r1, r2, r3, r4, r5})
=============================================================================
