------------------------------ MODULE ZoneCard ------------------------------
(***************************************************************************)
(* What a pilot is told about one area of a zone: the height limit of      *)
(* CtrHeight, and the rule in plain language that ZoneRule (zonerules.go)  *)
(* derives on its own from the same fields, with the limit in words.  The  *)
(* page and the JSON API show both.                                        *)
(*                                                                         *)
(* enrichZones compares the legal reference as it is, ZoneRule without the *)
(* white space around it; each looks for the zone number in the name.      *)
(***************************************************************************)
EXTENDS CtrHeight

VARIABLES
    legalReference,   \* what DiPUL states, as one of the cases ZoneRule tells apart
    card              \* the area in the answer, or None

Reference == {"nflCTR2026", "nflCTR2026 padded", "paragraph21h", "paragraph21h unknown",
              "NfL", "paragraph17", "none"}

CardTypeOK ==
    /\ TypeOK
    /\ legalReference \in Reference
    /\ card = None \/ card.ctrZone \in 0..4

CardInit ==
    /\ Init
    /\ legalReference \in Reference
    /\ nfl = (legalReference = "nflCTR2026")
    /\ card = None

----------------------------------------------------------------------------
\* The law behind the reference; a control zone under another NfL needs a clearance
\* like one under paragraph 21h (3) no. 9.
RuleOf(reference) ==
    CASE reference \in {"nflCTR2026", "nflCTR2026 padded"} -> "ctrDFS"
      [] reference \in {"paragraph21h", "NfL"} -> "paragraph21h"
      [] reference = "paragraph17" -> "paragraph17"
      [] OTHER -> None

\* The zone whose height rule is quoted, 0 if none is.
CTRZone == IF RuleOf(legalReference) = "ctrDFS" /\ zone \in 1..4 THEN zone ELSE 0

\* ctrLocalText: the limit in words, if enrichZones found one.
ctrLocalText ==
    IF attached = None THEN "nothing"
    ELSE IF attached.maxAGL <= 0 THEN "no clearance" ELSE attached.maxAGL

\* ZoneRule.
ZoneRule ==
    [rule       |-> RuleOf(legalReference),
     ctrZone    |-> CTRZone,
     conditions |-> CTRZone > 1,
     local      |-> IF CTRZone > 1 THEN ctrLocalText ELSE "nothing"]

\* The area in the answer of buildAPIResponse: its rule and its limit.
Show ==
    /\ Answer
    /\ card' = ZoneRule
    /\ UNCHANGED legalReference

CardNext == ((Measure \/ MeasureFails \/ Enrich) /\ UNCHANGED <<legalReference, card>>) \/ Show

CardSpec == CardInit /\ [][CardNext]_<<vars, legalReference, card>>

----------------------------------------------------------------------------
\* A limit never stands alone, or next to another rule than the one it comes from: the
\* area's rule is the general clearance of the control zones, quoted for the same zone
\* with its conditions, and its words name the limit, or that there is no clearance.  The
\* words name none where the answer has no limit.  Two files decide this on their own.
LimitIsExplained ==
    card # None =>
        IF limit = None THEN card.local = "nothing"
        ELSE /\ card.rule = "ctrDFS" /\ card.ctrZone = zone /\ card.conditions
             /\ card.local = IF limit.clearance THEN limit.maxAGL ELSE "no clearance"
=============================================================================
