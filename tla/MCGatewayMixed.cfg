\* 429s that ask for different waits: none stated, and the longest.
CONSTANTS
    c1 = c1
    c2 = c2
    c3 = c3
    c4 = c4
    Call = {c1, c2, c3, c4}
    RetryAfters = {0, 3}
    DefaultCooldown = 1
    MaxCooldown = 3
    MaxTime = 7
SPECIFICATION Spec
PROPERTIES BackOffTogether
SYMMETRY MCSymmetry
\* The clock stops at MaxTime.
CHECK_DEADLOCK FALSE
