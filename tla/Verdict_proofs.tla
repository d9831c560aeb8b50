--------------------------- MODULE Verdict_proofs ---------------------------
(***************************************************************************)
(* Proofs about the verdict, for any forecast with any number of           *)
(* altitudes in any order, any Kp and any zones: the dew point message is  *)
(* about the worst altitude, a verdict against flying has a reason, the    *)
(* airspace of the verdict is that of the zones listed with it, and        *)
(* airspace nobody looked at is called unknown.                            *)
(***************************************************************************)
EXTENDS Verdict, TLAPS

\* Humidity entries that can be judged, and those the loop has warned about so far.
Judged == {h \in Measured : fc.spread[h] # None}
Seen == {h \in Judged \ todo : Warned(h)}
Bad == {h \in Measured : ~TempOK(fc.temp[h])}

\* The loop invariant of the scan: worst is the worst of what it has warned about.
WorstSoFar ==
    /\ worst = None <=> Seen = {}
    /\ critical <=> \E h \in Seen : Crit(h)
    /\ worst # None =>
         /\ worst \in Seen
         /\ Crit(worst) <=> critical
         /\ \A h \in Seen : (Crit(h) <=> critical) => fc.spread[worst] <= fc.spread[h]

\* And the verdict it keeps up with its warnings.
Scanning ==
    phase = "dew" =>
        /\ fc # None /\ todo \subseteq Judged
        /\ WorstSoFar
        /\ flyable <=> Bad = {} /\ Seen = {}
        /\ warnings = IF Bad = {} THEN {} ELSE {"temp"}

Fetched == phase = "fetched" => worst = None /\ ~critical /\ warnings = {}

Assessed == phase = "assessed" /\ fc # None => (flyable <=> warnings = {})

Evaluated ==
    phase \in {"evaluated", "answered"} =>
        /\ red <=> Zones \cap RedCodes # {}
        /\ orange <=> Zones \cap OrangeCodes # {}
        /\ flyable <=> weatherFlyable /\ ~red /\ ~orange
        /\ fc # None => (weatherFlyable <=> warnings = {})

Built ==
    phase = "answered" =>
        /\ reasons = {} <=> warnings = {} /\ ~red /\ ~orange
        /\ airspace = IF zones = None THEN "unknown" ELSE IF red THEN "red"
                      ELSE IF orange THEN "orange" ELSE "none"
        /\ "airspace" \in notices <=> zones = None

Inv == TypeOK /\ Fetched /\ Scanning /\ Assessed /\ Evaluated /\ Built

----------------------------------------------------------------------------
\* The two switches over type codes give every code the same severity.
LEMMA Severity ==
    ASSUME NEW z
    PROVE  /\ zoneSeverity(z) = "red" <=> z \in RedCodes
           /\ zoneSeverity(z) = "orange" <=> z \in OrangeCodes
           /\ zoneSeverity(z) # "info" <=> z \in RedCodes \cup OrangeCodes
<1>1. CASE z \in RedCodes
  BY <1>1 DEF zoneSeverity, RedCodes, OrangeCodes
<1>2. CASE z \in OrangeCodes
  BY <1>2 DEF zoneSeverity, RedCodes, OrangeCodes
<1>3. CASE z \notin RedCodes \cup OrangeCodes
  <2>1. zoneSeverity(z) = "info"
    BY <1>3 DEF zoneSeverity, RedCodes, OrangeCodes
  <2> QED BY <1>3, <2>1
<1> QED BY <1>1, <1>2, <1>3

\* What can be judged has a temperature and a spread.
LEMMA JudgedTyped ==
    ASSUME TypeOK, fc # None, NEW h \in Judged
    PROVE  h \in Height /\ h # None /\ fc.temp[h] \in Int /\ fc.spread[h] \in Nat
<1>1. fc \in Forecast
  BY DEF TypeOK
<1>2. /\ fc.temp \in [Height -> Temp \cup {None}]
      /\ fc.spread \in [Height -> Spread \cup {None}]
  BY <1>1 DEF Forecast
<1>3. h \in Height /\ fc.temp[h] # None /\ fc.spread[h] # None
  BY DEF Judged, Measured
<1>4. fc.temp[h] \in Temp /\ fc.spread[h] \in Spread
  BY <1>2, <1>3
<1>5. Height \subseteq Nat /\ Temp \subseteq Int /\ Spread \subseteq Nat /\ None \notin Int
  BY VerdictAssumption DEF VerdictAssumption
<1>6. fc.temp[h] \in Int /\ fc.spread[h] \in Nat
  BY <1>4, <1>5
<1>7. h \in Int
  BY <1>3, <1>5
<1> QED BY <1>3, <1>5, <1>6, <1>7

----------------------------------------------------------------------------
LEMMA InvInit == Init => Inv
<1> SUFFICES ASSUME Init PROVE Inv
  OBVIOUS
<1>1. TypeOK
  BY DEF Init, TypeOK
<1> QED BY <1>1 DEF Init, Inv, Fetched, Scanning, Assessed, Evaluated, Built

\* Each step is typed.
LEMMA TypeStep == ASSUME Inv, [Next]_vars PROVE TypeOK'
<1> USE DEF Inv, TypeOK, input, dew, assessment, evaluation, answer
<1>1. CASE AssessNothing BY <1>1 DEF AssessNothing
<1>2. CASE AssessTemperature
  <2>1. todo' \subseteq Height
    BY <1>2 DEF AssessTemperature, Measured
  <2>2. warnings' \subseteq Topic /\ flyable' \in BOOLEAN
    BY <1>2 DEF AssessTemperature, Topic
  <2> QED BY <1>2, <2>1, <2>2 DEF AssessTemperature
<1>3. ASSUME NEW h \in Height, AssessDewPoint(h) PROVE TypeOK'
  <2>1. flyable' \in BOOLEAN /\ critical' \in BOOLEAN /\ worst' \in Height \cup {None}
    BY <1>3 DEF AssessDewPoint
  <2> QED BY <1>3, <2>1 DEF AssessDewPoint
<1>4. CASE AssessRest
  <2>1. Bans \subseteq Topic
    BY DEF Bans, Topic
  <2>2. warnings' \subseteq Topic /\ flyable' \in BOOLEAN
    BY <1>4, <2>1 DEF AssessRest, Topic
  <2> QED BY <1>4, <2>2 DEF AssessRest
<1>5. CASE Evaluate BY <1>5 DEF Evaluate
<1>6. CASE BuildVerdict
  <2>1. airspace' \in {"none", "unknown", "red", "orange"}
    BY <1>6 DEF BuildVerdict
  <2>2. reasons' \subseteq Topic /\ notices' \subseteq {"precip", "airspace"}
    BY <1>6 DEF BuildVerdict, Topic
  <2> QED BY <1>6, <2>1, <2>2 DEF BuildVerdict
<1>7. CASE UNCHANGED vars BY <1>7 DEF vars
<1> QED BY <1>1, <1>2, <1>3, <1>4, <1>5, <1>6, <1>7 DEF Next

\* The scan starts with nothing seen.
LEMMA ScanStarts == ASSUME Inv, AssessTemperature PROVE Scanning'
<1> USE DEF AssessTemperature, input, answer, evaluation
<1>1. fc' = fc /\ fc # None /\ worst' = None /\ ~critical'
  BY DEF Inv, Fetched
<1>2. todo' = Judged' /\ Bad' = Bad
  BY <1>1 DEF Judged, Measured, Bad
<1>3. Seen' = {}
  BY <1>2 DEF Seen
<1>4. WorstSoFar'
  BY <1>1, <1>3 DEF WorstSoFar
<1>5. /\ flyable' <=> Bad = {}
      /\ warnings' = IF Bad = {} THEN {} ELSE {"temp"}
  BY DEF Bad
<1>6. todo' \subseteq Judged'
  BY <1>2
<1> QED BY <1>1, <1>2, <1>3, <1>4, <1>5, <1>6 DEF Scanning

\* One entry more: it is promoted if and only if it is worse than the worst so far.
LEMMA ScanGoesOn ==
    ASSUME Inv, NEW h \in Height, AssessDewPoint(h)
    PROVE  Scanning'
<1> USE DEF AssessDewPoint, input, answer, evaluation
<1>1. /\ fc' = fc /\ fc # None /\ h \in todo /\ todo \subseteq Judged
      /\ todo' = todo \ {h} /\ warnings' = warnings /\ phase' = "dew"
      /\ WorstSoFar /\ (flyable <=> Bad = {} /\ Seen = {})
      /\ warnings = IF Bad = {} THEN {} ELSE {"temp"}
  BY DEF Inv, Scanning
<1>2. Judged' = Judged /\ Bad' = Bad /\ Measured' = Measured
  BY <1>1 DEF Judged, Measured, Bad
<1>3. \A g : (Warned(g)' <=> Warned(g)) /\ (Crit(g)' <=> Crit(g))
  BY <1>1 DEF Warned, Crit
<1>4. CASE ~Warned(h)
  <2>1. UNCHANGED <<flyable, worst, critical>>
    BY <1>4
  <2>2. Seen' = Seen
    BY <1>1, <1>2, <1>3, <1>4 DEF Seen
  <2>3. WorstSoFar'
    BY <1>1, <1>3, <2>1, <2>2 DEF WorstSoFar
  <2> QED BY <1>1, <1>2, <2>1, <2>2, <2>3 DEF Scanning
<1>5. CASE Warned(h)
  <2>1. /\ ~flyable' /\ worst' = (IF Promotes(h) THEN h ELSE worst)
        /\ critical' <=> critical \/ Crit(h)
    BY <1>5
  <2>2. Seen' = Seen \cup {h}
    BY <1>1, <1>2, <1>3, <1>5 DEF Seen
  <2>3. /\ h \in Judged /\ h # None
        /\ \A g \in Seen \cup {h} : fc.spread[g] \in Nat /\ g # None
    BY <1>1, JudgedTyped DEF Inv, Seen
  <2>4. WorstSoFar'
    <3>1. CASE Promotes(h)
      <4>1. worst' = h
        BY <2>1, <3>1
      <4>2. \A g \in Seen : Crit(g) => critical
        BY <1>1 DEF WorstSoFar
      <4>3. Crit(h) <=> critical'
        BY <1>1, <2>1, <3>1 DEF Promotes, WorstSoFar
      <4>4. \A g \in Seen : (Crit(g) <=> critical') => fc.spread[h] <= fc.spread[g]
        <5> SUFFICES ASSUME NEW g \in Seen, Crit(g) <=> critical'
                     PROVE  fc.spread[h] <= fc.spread[g]
          OBVIOUS
        <5>1. worst # None /\ worst \in Seen /\ (Crit(worst) <=> critical)
          BY <1>1 DEF WorstSoFar
        <5>2. ~(Crit(h) /\ ~Crit(worst))
          BY <4>2, <4>3, <5>1
        <5>3. Crit(g) <=> critical
          BY <2>1, <4>2, <5>1, <5>2
        <5>4. fc.spread[worst] <= fc.spread[g]
          BY <1>1, <5>1, <5>3 DEF WorstSoFar
        <5>5. fc.spread[h] < fc.spread[worst]
          BY <3>1, <5>1, <5>2 DEF Promotes
        <5> QED BY <2>3, <5>1, <5>4, <5>5
      <4> QED BY <1>1, <1>3, <2>1, <2>2, <2>3, <4>1, <4>3, <4>4 DEF WorstSoFar
    <3>2. CASE ~Promotes(h)
      <4>1. worst' = worst /\ worst # None /\ worst \in Seen
        BY <1>1, <2>1, <3>2 DEF Promotes, WorstSoFar
      <4>2. critical' <=> critical
        BY <1>1, <2>1, <3>2, <4>1 DEF Promotes, WorstSoFar
      <4>3. (Crit(h) <=> critical) => fc.spread[worst] <= fc.spread[h]
        <5>1. Crit(worst) <=> critical
          BY <1>1, <4>1 DEF WorstSoFar
        <5>2. ASSUME Crit(h) <=> critical PROVE ~(fc.spread[h] < fc.spread[worst])
          <6>1. Crit(h) = Crit(worst)
            BY <5>1, <5>2 DEF Crit, DewCrit
          <6> QED BY <3>2, <6>1 DEF Promotes
        <5> QED BY <2>3, <4>1, <5>2
      <4>4. \A g \in Seen \cup {h} : (Crit(g) <=> critical) => fc.spread[worst] <= fc.spread[g]
        BY <1>1, <4>1, <4>3 DEF WorstSoFar
      <4> QED BY <1>1, <1>3, <2>1, <2>2, <4>1, <4>2, <4>4 DEF WorstSoFar
    <3> QED BY <3>1, <3>2
  <2>5. Seen' # {}
    BY <2>2
  <2> QED BY <1>1, <1>2, <2>1, <2>4, <2>5 DEF Scanning
<1> QED BY <1>4, <1>5

\* Everything that bans flying leaves a warning.
LEMMA RestAssessed == ASSUME Inv, AssessRest PROVE Assessed'
<1> USE DEF AssessRest, input, dew, answer, evaluation
<1>1. /\ flyable <=> Bad = {} /\ Seen = {}
      /\ worst = None <=> Seen = {}
      /\ warnings = {} <=> Bad = {}
  BY DEF Inv, Scanning, WorstSoFar
<1>2. flyable' <=> flyable /\ Bans = {}
  OBVIOUS
<1>3. warnings' = {} <=> warnings = {} /\ Bans = {} /\ worst = None
  OBVIOUS
<1> QED BY <1>1, <1>2, <1>3 DEF Assessed

LEMMA EvaluateEvaluates == ASSUME Inv, Evaluate PROVE Evaluated'
<1> USE DEF Evaluate, input, dew, answer
<1>1. Zones' = Zones /\ fc' = fc /\ warnings' = warnings
  BY DEF Zones
<1>2. fc # None => (flyable <=> warnings = {})
  BY DEF Inv, Assessed
<1>3. /\ weatherFlyable' = flyable
      /\ red' <=> Zones \cap RedCodes # {}
      /\ orange' <=> Zones \cap OrangeCodes # {}
      /\ flyable' <=> flyable /\ ~red' /\ ~orange'
  OBVIOUS
<1> QED BY <1>1, <1>2, <1>3 DEF Evaluated

LEMMA VerdictBuilt == ASSUME Inv, BuildVerdict PROVE Built' /\ Evaluated'
<1> USE DEF BuildVerdict, input, dew, assessment, evaluation
<1>1. Evaluated'
  BY DEF Inv, Evaluated, Zones
<1>2. reasons' = {} <=> warnings = {} /\ ~red /\ ~orange
  OBVIOUS
<1>3. airspace' = IF zones = None THEN "unknown" ELSE IF red THEN "red"
                  ELSE IF orange THEN "orange" ELSE "none"
  OBVIOUS
<1>4. "airspace" \in notices' <=> zones = None
  OBVIOUS
<1> QED BY <1>1, <1>2, <1>3, <1>4 DEF Built

LEMMA InvNext == Inv /\ [Next]_vars => Inv'
<1> SUFFICES ASSUME Inv, [Next]_vars PROVE Inv'
  OBVIOUS
<1> USE TypeStep DEF Inv, Fetched, Scanning, Assessed, Evaluated, Built
<1>1. CASE AssessNothing BY <1>1 DEF AssessNothing, input
<1>2. CASE AssessTemperature
  BY <1>2, ScanStarts DEF AssessTemperature
<1>3. ASSUME NEW h \in Height, AssessDewPoint(h) PROVE Inv'
  <2>1. Scanning'
    BY <1>3, ScanGoesOn
  <2> QED BY <1>3, <2>1 DEF AssessDewPoint
<1>4. CASE AssessRest
  <2>1. Assessed'
    BY <1>4, RestAssessed
  <2> QED BY <1>4, <2>1 DEF AssessRest
<1>5. CASE Evaluate
  <2>1. Evaluated'
    BY <1>5, EvaluateEvaluates
  <2> QED BY <1>5, <2>1 DEF Evaluate
<1>6. CASE BuildVerdict
  <2>1. Built' /\ Evaluated'
    BY <1>6, VerdictBuilt
  <2> QED BY <1>6, <2>1 DEF BuildVerdict
<1>7. CASE UNCHANGED vars
  <2>1. UNCHANGED <<fc, kp, zones, phase, todo, worst, critical, flyable, warnings,
                    weatherFlyable, red, orange, airspace, reasons, notices>>
    BY <1>7 DEF vars, input, dew, assessment, evaluation, answer
  <2>2. Seen' = Seen /\ Judged' = Judged /\ Bad' = Bad /\ Zones' = Zones
    BY <2>1 DEF Seen, Judged, Bad, Measured, Warned, Zones
  <2>3. WorstSoFar' <=> WorstSoFar
    BY <2>1, <2>2 DEF WorstSoFar, Crit
  <2> QED BY <2>1, <2>2, <2>3
<1> QED BY <1>1, <1>2, <1>3, <1>4, <1>5, <1>6, <1>7 DEF Next

\* The inductive invariant of the stages from Assess to the verdict.
THEOREM Invariance == Spec => []Inv
BY InvInit, InvNext, PTL DEF Spec

----------------------------------------------------------------------------
LEMMA InvWorst == Inv => WorstIsWorst
<1> SUFFICES ASSUME Inv, phase = "dew", todo = {} PROVE WorstIsWorst
  BY DEF WorstIsWorst
<1>1. Seen = {h \in Measured : fc.spread[h] # None /\ Warned(h)}
  BY DEF Seen, Judged
<1>2. WorstSoFar /\ critical \in BOOLEAN
  BY DEF Inv, Scanning, TypeOK
<1>3. critical = (\E h \in Seen : Crit(h)) /\ (worst = None) = (Seen = {})
  BY <1>2 DEF WorstSoFar
<1>4. worst # None =>
         /\ Crit(worst) = critical
         /\ \A h \in Seen : Crit(h) = critical => fc.spread[worst] <= fc.spread[h]
  BY <1>2 DEF WorstSoFar, Crit, DewCrit
<1> QED BY <1>1, <1>3, <1>4 DEF WorstIsWorst

LEMMA InvAnswer ==
    Inv => ReasonsExplain /\ AirspaceMatchesZones /\ AirspaceOverridesWeather /\ UnknownIsTold
<1> SUFFICES ASSUME Inv, Answered
             PROVE  ReasonsExplain /\ AirspaceMatchesZones /\ AirspaceOverridesWeather /\ UnknownIsTold
  BY DEF ReasonsExplain, AirspaceMatchesZones, AirspaceOverridesWeather, UnknownIsTold
<1>1. /\ red <=> \E z \in Zones : zoneSeverity(z) = "red"
      /\ orange <=> \E z \in Zones : zoneSeverity(z) = "orange"
      /\ (red \/ orange) <=> \E z \in Zones : zoneSeverity(z) # "info"
  BY Severity DEF Inv, Evaluated, Answered
<1>2. ReasonsExplain
  BY DEF Inv, Evaluated, Built, Answered, ReasonsExplain, TypeOK
<1>3. AirspaceMatchesZones
  BY <1>1 DEF Inv, Built, Answered, AirspaceMatchesZones, Zones
<1>4. AirspaceOverridesWeather
  BY <1>1 DEF Inv, Evaluated, Answered, AirspaceOverridesWeather
<1>5. UnknownIsTold
  BY DEF Inv, Built, Answered, UnknownIsTold
<1> QED BY <1>2, <1>3, <1>4, <1>5

----------------------------------------------------------------------------
\* Type correctness, for any forecast, index and zones.
THEOREM TypeCorrect == Spec => []TypeOK
<1>1. Inv => TypeOK
  BY DEF Inv
<1> QED BY <1>1, Invariance, PTL

\* The dew point message is about the worst of any number of altitudes, in any order
\* (assess.go:131-139).
THEOREM WorstTheorem == Spec => []WorstIsWorst
BY InvWorst, Invariance, PTL

\* With a forecast, a verdict against flying has a reason, and only such a verdict has.
THEOREM ReasonsTheorem == Spec => []ReasonsExplain
BY InvAnswer, Invariance, PTL

\* The verdict's airspace is the worst severity among the zones in the same answer.
THEOREM AirspaceTheorem == Spec => []AirspaceMatchesZones
BY InvAnswer, Invariance, PTL

\* No weather is good enough for restricted or controlled airspace.
THEOREM OverrideTheorem == Spec => []AirspaceOverridesWeather
BY InvAnswer, Invariance, PTL

\* An empty list of zones is only taken for free airspace when DiPUL has answered.
THEOREM UnknownTheorem == Spec => []UnknownIsTold
BY InvAnswer, Invariance, PTL
=============================================================================
