\* Two calls over a list with or without the airport they look for, good for two ticks.
CONSTANTS
    c1 = c1
    c2 = c2
    a1 = a1
    Caller = {c1, c2}
    Nobody = Nobody
    Airport = {a1}
    Report <- MCReport
    None = None
    Timeout = 2
    Validity = 2
    MaxTime = 7
SPECIFICATION FairSpec
INVARIANTS WorstIsTold WaitBounded
PROPERTIES OneDownload EveryCallReturns
\* The calls end.
CHECK_DEADLOCK FALSE
