------------------------------ MODULE CtrHeight ------------------------------
(***************************************************************************)
(* The general-clearance height limit in a DFS control zone: the ground    *)
(* elevation and its accuracy (dipul_extra.go), ctrMaxAGL and the part of  *)
(* enrichZones that applies it to one area (zoneenrich.go), and what the   *)
(* JSON API makes of it (apiv1.go).                                        *)
(*                                                                         *)
(* Heights are integers, in tenths of a metre.                             *)
(***************************************************************************)
EXTENDS Integers

CONSTANTS
    Zone,        \* zone numbers in the names of areas (1 to 4); 0: no number
    Aerodrome,   \* aerodrome elevations
    Ground,      \* terrain heights the elevation service reports
    Rmse,        \* accuracies it states; 0: none that parses
    None

ASSUME HeightAssumption ==
    /\ Zone \subseteq Nat /\ Aerodrome \subseteq Int /\ Ground \subseteq Int
    /\ Rmse \subseteq Nat
    /\ None \notin Int \cup [maxAGL : Int, aerodrome : Int]
    /\ None \notin [maxAGL : Int, clearance : BOOLEAN]

m == 10                 \* one metre
DefaultRmse == 3 * m    \* FetchGroundElevation's RMSE if none is stated

VARIABLES
    zone,      \* the zone number in the area's name
    nfl,       \* its legal reference is NfL 2026-1-3960
    match,     \* which field found its ED-318 zone: "id", "name" or "none"
    amsl,      \* that zone's floor is given AMSL
    floor,     \* and how high it is
    terrain,   \* how high the ground really is
    ground,    \* FetchGroundElevation's height, or None
    rmse,      \* and accuracy
    phase,
    attached,  \* what enrichZones adds to the area, or None
    limit      \* ctr_height_limit of the JSON API, or None

input == <<zone, nfl, match, amsl, floor>>
vars == <<input, terrain, ground, rmse, phase, attached, limit>>

\* ctrCeilingAboveAerodrome
Limited == {2, 3, 4}
N(z) == CASE z = 2 -> 25 * m [] z = 3 -> 45 * m [] OTHER -> 100 * m

TypeOK ==
    /\ zone \in Zone /\ nfl \in BOOLEAN /\ match \in {"id", "name", "none"}
    /\ amsl \in BOOLEAN /\ floor \in Int /\ terrain \in Int
    /\ ground \in Int \cup {None} /\ rmse \in Nat
    /\ phase \in {"asking", "measured", "enriched", "answered"}
    /\ attached \in [maxAGL : Int, aerodrome : Int] \cup {None}
    /\ limit \in [maxAGL : Int, clearance : BOOLEAN] \cup {None}

\* DiPUL puts the floor of a zone at the aerodrome's elevation plus N(zone).
Init ==
    /\ zone \in Zone /\ nfl \in BOOLEAN /\ match \in {"id", "name", "none"}
    /\ amsl \in BOOLEAN
    /\ \E a \in Aerodrome : floor = a + N(zone)
    /\ terrain = 0 /\ ground = None /\ rmse = 0
    /\ phase = "asking"
    /\ attached = None /\ limit = None

----------------------------------------------------------------------------
Higher(a, b) == IF a > b THEN a ELSE b
Lower(a, b) == IF a < b THEN a ELSE b

\* math.Floor, to whole metres.
WholeMetres(h) == (h \div m) * m

\* Mutants of ctrMaxAGL: the accuracy is ignored; zone 4 has no 50 m above ground.
ctrMaxAGLExact(z, floorAMSL, groundMSL, r) ==
    WholeMetres(
          IF z = 4
          THEN IF groundMSL < floorAMSL - N(z) THEN 100 * m ELSE Higher(floorAMSL - groundMSL, 50 * m)
          ELSE Higher(Lower(N(z), floorAMSL - groundMSL), 0))
ctrMaxAGLNoFifty(z, floorAMSL, groundMSL, r) ==
    LET g == groundMSL + r
    IN  WholeMetres(
          IF z = 4
          THEN IF g < floorAMSL - N(z) THEN 100 * m ELSE Higher(floorAMSL - g, 0)
          ELSE Higher(Lower(N(z), floorAMSL - g), 0))

\* ctrMaxAGL, for a zone with a limit.
ctrMaxAGL(z, floorAMSL, groundMSL, r) ==
    LET g == groundMSL + r
    IN  WholeMetres(
          IF z = 4
          THEN IF g < floorAMSL - N(z) THEN 100 * m ELSE Higher(floorAMSL - g, 50 * m)
          ELSE Higher(Lower(N(z), floorAMSL - g), 0))

\* FetchGroundElevation succeeds.  The ground is within the accuracy stated, or
\* within the default.
Measure ==
    /\ phase = "asking"
    /\ \E g \in Ground, s \in Rmse :
         /\ ground' = g
         /\ rmse' = IF s > 0 THEN s ELSE DefaultRmse
    /\ \E d \in -rmse'..rmse' : terrain' = ground' + d
    /\ phase' = "measured"
    /\ UNCHANGED <<input, attached, limit>>

\* It fails: no value, or one that is not metres above sea level.
MeasureFails ==
    /\ phase = "asking"
    /\ phase' = "measured"
    /\ UNCHANGED <<input, terrain, ground, rmse, attached, limit>>

\* Mutant of Enrich: a control zone is told by its name alone.
EnrichByName ==
    /\ phase = "measured"
    /\ attached' = IF match # "none" /\ ground # None /\ amsl /\ zone \in Limited
                   THEN [maxAGL |-> ctrMaxAGL(zone, floor, ground, rmse),
                         aerodrome |-> floor - N(zone)]
                   ELSE None
    /\ phase' = "enriched"
    /\ UNCHANGED <<input, terrain, ground, rmse, limit>>

\* enrichZones, for one area of a zone.
Enrich ==
    /\ phase = "measured"
    /\ attached' = IF match # "none" /\ ground # None /\ amsl /\ nfl /\ zone \in Limited
                   THEN [maxAGL |-> ctrMaxAGL(zone, floor, ground, rmse),
                         aerodrome |-> floor - N(zone)]
                   ELSE None
    /\ phase' = "enriched"
    /\ UNCHANGED <<input, terrain, ground, rmse, limit>>

\* ctrHeightLimit.
Answer ==
    /\ phase = "enriched"
    /\ limit' = IF attached = None THEN None
                ELSE [maxAGL |-> Higher(attached.maxAGL, 0), clearance |-> attached.maxAGL > 0]
    /\ phase' = "answered"
    /\ UNCHANGED <<input, terrain, ground, rmse, attached>>

Next == Measure \/ MeasureFails \/ Enrich \/ Answer

Spec == Init /\ [][Next]_vars

----------------------------------------------------------------------------
\* What NfL 2026-1-3960 permits above ground that is h high (zoneenrich.go:30-33).
Permitted(z, aerodrome, h) ==
    IF z = 4
    THEN IF h < aerodrome THEN 100 * m ELSE Higher(aerodrome + 100 * m - h, 50 * m)
    ELSE Lower(N(z), aerodrome + N(z) - h)

\* No pilot is told a height the rule does not permit, wherever within its accuracy
\* the ground really is ("to stay on the safe side"), the case distinction of zone 4
\* at the aerodrome's elevation included.  A limit of 0 is no clearance.
NeverTooHigh ==
    limit # None /\ limit.clearance => limit.maxAGL <= Permitted(zone, floor - N(zone), terrain)

\* Nor is anything given away but the accuracy, on both sides, and the rounding.
NoNeedlessCaution ==
    limit # None => Permitted(zone, floor - N(zone), terrain) - limit.maxAGL < 2 * rmse + m
=============================================================================
