------------------------------- MODULE Verdict -------------------------------
(***************************************************************************)
(* From fetched data to the verdict a pilot reads: assessment.Assess over  *)
(* the first forecast, evaluate's airspace override, and the verdict of    *)
(* the JSON API (assess.go, results.go, apiv1.go).                         *)
(*                                                                         *)
(* Temperatures are whole degrees, wind speeds whole metres per second, Kp *)
(* whole numbers.  A humidity entry is given by the spread it yields, the  *)
(* temperature less the dew point (round2 and dewPoint are not modelled).  *)
(* Entries come in any order; messages are reduced to what they are about, *)
(* and notices that do not touch the verdict are left out.                 *)
(***************************************************************************)
EXTENDS Integers, FiniteSets

CONSTANTS
    Height,     \* altitudes of the forecast, in metres
    Temp,       \* temperatures
    Spread,     \* temperature less dew point
    Speed,      \* wind and gust speeds
    Kp,         \* Kp indices; a failed source leaves 0
    ZoneSets,   \* sets of the type codes of zones
    None        \* no entry

ASSUME VerdictAssumption ==
    /\ IsFiniteSet(Height) /\ Height \subseteq Nat
    /\ Temp \subseteq Int /\ Spread \subseteq Nat /\ Speed \subseteq Nat /\ Kp \subseteq Nat
    /\ None \notin Int

Forecast == [temp : [Height -> Temp \cup {None}],
             spread : [Height -> Spread \cup {None}],
             wind : [Height -> Speed \cup {None}],
             gust : Speed \cup {0}, rain : BOOLEAN]

VARIABLES
    fc,        \* the first forecast, or None
    kp,        \* the Kp index
    zones,     \* type codes of the zones, or None when DiPUL failed
    phase,
    todo,      \* humidity entries not scanned yet
    worst,     \* the altitude of the dew point message so far, or None
    critical,  \* DewPointCritical
    flyable,   \* Assessment.Flyable
    warnings,  \* what the warning texts of the assessment are about
    weatherFlyable, red, orange,  \* the evaluation
    airspace, reasons, notices  \* of the API's verdict

input == <<fc, kp, zones>>
dew == <<todo, worst, critical>>
assessment == <<flyable, warnings>>
evaluation == <<weatherFlyable, red, orange>>
answer == <<airspace, reasons, notices>>
vars == <<input, phase, dew, assessment, evaluation, answer>>

Topic == {"temp", "dew", "wind", "gust", "freezing", "kp", "red", "orange"}

TypeOK ==
    /\ fc = None \/ fc \in Forecast
    /\ kp \in Kp /\ (zones = None \/ zones \in ZoneSets)
    /\ phase \in {"fetched", "dew", "scanned", "assessed", "evaluated", "answered"}
    /\ todo \subseteq Height /\ worst \in Height \cup {None} /\ critical \in BOOLEAN
    /\ flyable \in BOOLEAN /\ warnings \subseteq Topic
    /\ weatherFlyable \in BOOLEAN /\ red \in BOOLEAN /\ orange \in BOOLEAN
    /\ airspace \in {"none", "unknown", "red", "orange"} /\ reasons \subseteq Topic
    /\ notices \subseteq {"precip", "airspace"}

\* A gust is only looked for in the entry at 10 m.
Init ==
    /\ fc \in {f \in Forecast : 10 \notin Height \/ f.wind[10] = None => f.gust = 0} \cup {None}
    /\ kp \in Kp /\ zones \in ZoneSets \cup {None}
    /\ phase = "fetched"
    /\ todo = {} /\ worst = None /\ critical = FALSE
    /\ flyable = TRUE /\ warnings = {}
    /\ weatherFlyable = TRUE /\ red = FALSE /\ orange = FALSE
    /\ airspace = "none" /\ reasons = {} /\ notices = {}

----------------------------------------------------------------------------
TempOK(t) == -20 <= t /\ t <= 50

\* The two tiers of the dew point, of temperature t and spread d.
DewWarn(t, d) == t < 3 /\ d < 2
DewCrit(t, d) == -10 <= t /\ t <= 0 /\ d < 1

Warned(h) == DewWarn(fc.temp[h], fc.spread[h]) \/ DewCrit(fc.temp[h], fc.spread[h])
Crit(h) == DewCrit(fc.temp[h], fc.spread[h])

Measured == {h \in Height : fc.temp[h] # None}

\* Without a forecast nothing can be assessed, and nothing is said about it.
AssessNothing ==
    /\ phase = "fetched" /\ fc = None
    /\ phase' = "assessed"
    /\ flyable' = FALSE
    /\ UNCHANGED <<input, dew, warnings, evaluation, answer>>

\* The temperatures; humidity without a temperature at its height is skipped.
AssessTemperature ==
    /\ phase = "fetched" /\ fc # None
    /\ LET bad == {h \in Measured : ~TempOK(fc.temp[h])}
       IN  /\ flyable' = (bad = {})
           /\ warnings' = IF bad = {} THEN {} ELSE {"temp"}
    /\ todo' = {h \in Measured : fc.spread[h] # None}
    /\ phase' = "dew"
    /\ UNCHANGED <<input, worst, critical, evaluation, answer>>

\* Mutants of Promotes: the first entry is never taken; the tier is not compared.
PromotesNeverFirst(h) ==
    /\ worst # None
    /\ \/ Crit(h) /\ ~Crit(worst)
       \/ Crit(h) = Crit(worst) /\ fc.spread[h] < fc.spread[worst]
PromotesBySpread(h) == worst = None \/ fc.spread[h] < fc.spread[worst]

\* Critical beats warning; within a tier the smaller spread wins.
Promotes(h) ==
    \/ worst = None
    \/ Crit(h) /\ ~Crit(worst)
    \/ Crit(h) = Crit(worst) /\ fc.spread[h] < fc.spread[worst]

\* One round of the loop over the humidity entries.
AssessDewPoint(h) ==
    /\ phase = "dew" /\ h \in todo
    /\ todo' = todo \ {h}
    /\ IF Warned(h)
       THEN /\ flyable' = FALSE
            /\ worst' = IF Promotes(h) THEN h ELSE worst
            /\ critical' = (critical \/ Crit(h))
       ELSE UNCHANGED <<flyable, worst, critical>>
    /\ UNCHANGED <<input, phase, warnings, evaluation, answer>>

\* Temperature at the lowest altitude that has one.
Surface == fc.temp[CHOOSE h \in Measured : \A g \in Measured : h <= g]

\* Rain on ground that is no warmer than zero degrees.
Freezing == Measured # {} /\ fc.rain /\ Surface <= 0

\* Rain on warmer ground is only mentioned (snow, which is too, is left out).
Drizzle == fc # None /\ Measured # {} /\ fc.rain /\ ~Freezing

\* What the rest of the assessment warns about, and what bans flying by itself.
Bans ==
    (IF \E h \in Height : fc.wind[h] # None /\ fc.wind[h] > 12 THEN {"wind"} ELSE {})
    \cup (IF fc.gust > 12 THEN {"gust"} ELSE {})
    \cup (IF Freezing THEN {"freezing"} ELSE {})
    \cup (IF kp > 4 THEN {"kp"} ELSE {})

\* The dew point's message, then wind, gust, precipitation and Kp.
AssessRest ==
    /\ phase = "dew" /\ todo = {}
    /\ flyable' = (flyable /\ Bans = {})
    /\ warnings' = warnings \cup Bans \cup (IF worst # None THEN {"dew"} ELSE {})
    /\ phase' = "assessed"
    /\ UNCHANGED <<input, dew, evaluation, answer>>

\* Mutant of OrangeCodes: the new code of control zones is missing.
OrangeCodesOld == {"CONTROL_ZONE", "AIRPORT", "AIRFIELD_LAW", "MILITARY"}

\* The two switches over type codes, kept apart in the code as well.
RedCodes == {"FLIGHT_RESTRICTION", "U_NFZ"}
OrangeCodes == {"CONTROL_ZONE", "U_CTR", "AIRPORT", "AIRFIELD_LAW", "MILITARY"}

zoneSeverity(code) ==
    CASE code \in {"FLIGHT_RESTRICTION", "U_NFZ"} -> "red"
      [] code \in {"CONTROL_ZONE", "U_CTR", "AIRPORT", "AIRFIELD_LAW", "MILITARY"} -> "orange"
      [] OTHER -> "info"

\* What a failed DiPUL leaves in the result: no zones.
Zones == IF zones = None THEN {} ELSE zones

\* Mutant of Evaluate: controlled airspace does not override the weather.
EvaluateRedOnly ==
    /\ phase = "assessed"
    /\ weatherFlyable' = flyable
    /\ red' = (Zones \cap RedCodes # {})
    /\ orange' = (Zones \cap OrangeCodes # {})
    /\ flyable' = (flyable /\ ~red')
    /\ phase' = "evaluated"
    /\ UNCHANGED <<input, dew, warnings, answer>>

\* evaluate: restricted or controlled airspace overrides the weather.
Evaluate ==
    /\ phase = "assessed"
    /\ weatherFlyable' = flyable
    /\ red' = (Zones \cap RedCodes # {})
    /\ orange' = (Zones \cap OrangeCodes # {})
    /\ flyable' = (flyable /\ ~red' /\ ~orange')
    /\ phase' = "evaluated"
    /\ UNCHANGED <<input, dew, warnings, answer>>

\* Mutant of BuildVerdict: no zones is taken for free airspace.
BuildVerdictNoZones ==
    /\ phase = "evaluated"
    /\ airspace' = IF red THEN "red" ELSE IF orange THEN "orange" ELSE "none"
    /\ reasons' = warnings \cup (IF red THEN {"red"} ELSE {})
                           \cup (IF orange THEN {"orange"} ELSE {})
    /\ notices' = (IF Drizzle THEN {"precip"} ELSE {})
                  \cup (IF zones = None THEN {"airspace"} ELSE {})
    /\ phase' = "answered"
    /\ UNCHANGED <<input, dew, assessment, evaluation>>

\* buildAPIResponse, the verdict.
BuildVerdict ==
    /\ phase = "evaluated"
    /\ airspace' = CASE zones = None -> "unknown"
                     [] zones # None /\ red -> "red"
                     [] zones # None /\ ~red /\ orange -> "orange"
                     [] OTHER -> "none"
    /\ reasons' = warnings \cup (IF red THEN {"red"} ELSE {})
                           \cup (IF orange THEN {"orange"} ELSE {})
    /\ notices' = (IF Drizzle THEN {"precip"} ELSE {})
                  \cup (IF zones = None THEN {"airspace"} ELSE {})
    /\ phase' = "answered"
    /\ UNCHANGED <<input, dew, assessment, evaluation>>

Next ==
    \/ AssessNothing \/ AssessTemperature
    \/ \E h \in Height : AssessDewPoint(h)
    \/ AssessRest \/ Evaluate \/ BuildVerdict

Spec == Init /\ [][Next]_vars

Answered == phase = "answered"

----------------------------------------------------------------------------
\* The dew point message names the worst altitude, in whatever order the forecast
\* lists its entries: a critical one if there is any, and none closer to the dew
\* point in its tier (assess.go:131-139).
WorstIsWorst ==
    phase = "dew" /\ todo = {} =>
        LET W == {h \in Measured : fc.spread[h] # None /\ Warned(h)}
        IN  /\ (worst = None) = (W = {})
            /\ critical = (\E h \in W : Crit(h))
            /\ worst # None =>
                 /\ Crit(worst) = critical
                 /\ \A h \in W : Crit(h) = critical => fc.spread[worst] <= fc.spread[h]

\* With a forecast, a verdict against flying always comes with a reason and a
\* reason always with that verdict, though five conditions set the one and six
\* places in two packages write the other.  Without a forecast there is no reason.
ReasonsExplain == Answered /\ fc # None => (flyable = (reasons = {}))

\* The airspace of the verdict is the worst severity in the list of zones the same
\* response carries: the two switches over the type codes agree.
AirspaceMatchesZones ==
    Answered /\ zones # None =>
        airspace = IF \E z \in zones : zoneSeverity(z) = "red" THEN "red"
                   ELSE IF \E z \in zones : zoneSeverity(z) = "orange" THEN "orange"
                   ELSE "none"

\* Nobody is told to fly in airspace nobody looked at without being told so: an
\* empty list of zones stands for free airspace only when DiPUL answered, and the
\* verdict and the notices of one answer agree on whether it did.
UnknownIsTold ==
    Answered =>
        /\ (airspace = "unknown") = (zones = None)
        /\ ("airspace" \in notices) = (airspace = "unknown")

\* Nobody is told to fly in restricted or controlled airspace, whatever the weather.
AirspaceOverridesWeather ==
    Answered /\ (\E z \in Zones : zoneSeverity(z) # "info") => ~flyable
=============================================================================
