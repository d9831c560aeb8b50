\* Two requests, for the same or different positions, over a cache with one place;
\* long enough for the oldest answer the cache can give.
CONSTANTS
    k1 = k1
    k2 = k2
    r1 = r1
    r2 = r2
    Key = {k1, k2}
    Req = {r1, r2}
    Obj = {r1, r2}
    Source = {"utm", "traffic"}
    NoEntry = NoEntry
    NoObj = NoObj
    MaxSize = 1
    TTL = 1
    CleanupInterval = 2
    Lag = 1
    FetchMax = 1
    MaxTime = 5
SPECIFICATION FairSpec
INVARIANTS CapacityBound ResidencyBound CachedIsComplete AnswersAreFresh
PROPERTIES PublishedNeverWritten KeepsPromise EveryRequestAnswered
\* The clock stops at MaxTime.
CHECK_DEADLOCK FALSE
