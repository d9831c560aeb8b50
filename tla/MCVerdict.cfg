\* Two altitudes, every limit of the assessment, every kind of zone.
CONSTANTS
    None = None
    Height = {2, 10}
    Temp <- MCTemp
    Spread = {0, 1, 2}
    Speed = {12, 13}
    Kp = {4, 5}
    ZoneSets <- MCZoneSets
SPECIFICATION Spec
INVARIANTS ReasonsExplain WorstIsWorst AirspaceMatchesZones AirspaceOverridesWeather UnknownIsTold
\* The answer is given.
CHECK_DEADLOCK FALSE
