\* Two waits: the default, when the gateway sends none, and one beyond the clamp.
CONSTANTS
    r1 = r1
    r2 = r2
    Req = {r1, r2}
    Call <- MCCall
    RetryAfters = {0, 3}
    DefaultCooldown = 1
    MaxCooldown = 2
    DefaultHint = 1
    MaxTime = 3
SPECIFICATION FairRequestSpec
INVARIANTS CoordinatesNeedNoGateway HeedingKeepsOut
PROPERTIES RefusedOnlyAfter429 SilenceCutOnlyBySpread EveryRequestAnswered
\* The clock stops at MaxTime.
CHECK_DEADLOCK FALSE
