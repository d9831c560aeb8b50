\* An aerodrome at 10 m, and grounds around every threshold.
CONSTANTS
    None = None
    Zone = {0, 1, 2, 3, 4}
    Aerodrome = {100}
    Ground <- MCGround
    Rmse = {0, 5}
SPECIFICATION CardSpec
INVARIANTS NeverTooHigh NoNeedlessCaution LimitIsExplained
\* The answer is given.
CHECK_DEADLOCK FALSE
