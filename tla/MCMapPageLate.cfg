\* Two clicks, and the answers in any order.
CONSTANTS
    p1 = p1
    p2 = p2
    parks = parks
    homes = homes
    ctr = ctr
    Point = {p1, p2}
    Layer = {parks, homes, ctr}
    World <- MCWorld
    Groups = 2
    Nowhere = Nowhere
    MaxClicks = 2
    MaxTimers = 3
    MaxPolls = 2
SPECIFICATION PageSpec
INVARIANT PopupTellsItsPoint
CHECK_DEADLOCK FALSE
