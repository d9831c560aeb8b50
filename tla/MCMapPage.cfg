\* Two clicks, three intervals, one group of several layers and one of one.
CONSTANTS
    p1 = p1
    p2 = p2
    parks = parks
    homes = homes
    ctr = ctr
    Point = {p1, p2}
    Layer = {parks, homes, ctr}
    World <- MCWorld
    Groups = 2
    Nowhere = Nowhere
    MaxClicks = 2
    MaxTimers = 3
    MaxPolls = 2
SPECIFICATION PageFairSpec
INVARIANTS PollersBounded EveryReadableZoneOnce
PROPERTIES VisibleTabRefreshes LoadingEnds
\* A tab may stay hidden.
CHECK_DEADLOCK FALSE
