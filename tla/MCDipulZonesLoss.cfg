\* A detail that fails.
CONSTANTS
    l1 = l1
    s1 = s1
    s2 = s2
    z1 = z1
    z2 = z2
    Lookup = {l1}
    Single = {s1}
    Nobody = Nobody
    Code = {z1, z2}
    MaxTokens = 3
    MaxExpiry = 1
SPECIFICATION Spec
INVARIANTS LossIsReported
\* The calls end.
CHECK_DEADLOCK FALSE
