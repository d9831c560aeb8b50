\* Two calls that come within two ticks; tokens that are not cached at all or for one or
\* two ticks; time for a call to last as long as it may, and one tick more.
CONSTANTS
    t1 = t1
    t2 = t2
    b1 = b1
    b2 = b2
    Thread = {t1, t2}
    Box = {b1, b2}
    Nobody = Nobody
    Nothing = Nothing
    Lifetimes = {2, 4}
    Margin = 2
    Jitters = {0, 1}
    Backoff = 2
    Latency = 1
    SendMax = 1
    CacheMax = 1
    TTL = 1
    MaxTokens = 4
    MaxTime = 7
    LastCall = 2
    Wants <- MCWants
SPECIFICATION FairLiveSpec
INVARIANTS RetryUsesFreshToken PauseExcludesToken CachedTokenHasLife
PROPERTIES PausesAfterFailure UsesCacheProperly EveryLookupEnds
\* The calls end.
CHECK_DEADLOCK FALSE
