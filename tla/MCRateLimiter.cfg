\* Five requests of one address: as many as it takes to empty a bucket that is being
\* forgotten and the one after it twice.
CONSTANTS
    a1 = a1
    r1 = r1
    r2 = r2
    r3 = r3
    r4 = r4
    r5 = r5
    Addr = {a1}
    Req = {r1, r2, r3, r4, r5}
    NoBucket = NoBucket
    Burst = 1
    IdleCutoff = 5
    Interval = 2
    Delay = 1
    Lag = 1
    LastCall = 6
    MaxTime = 9
SPECIFICATION Spec
INVARIANTS AtMostOneExtraBurst AddressesAreForgotten
PROPERTIES IdleBucketsAreFull
SYMMETRY MCSymmetry
\* The clock stops at MaxTime.
CHECK_DEADLOCK FALSE
