------------------------------ MODULE MapPage ------------------------------
(***************************************************************************)
(* The map of the results page (templates/results.html) in the browser,    *)
(* and the server's part of a click on it: the poller of live traffic,     *)
(* which several handlers start and stop; and the popup with the zones of  *)
(* the point clicked, whose answers FetchZoneInfo (wms.go) merges from one *)
(* request per group of layers and parses out of plain text.               *)
(*                                                                         *)
(* A feature is a layer and whether the map server has any value for it    *)
(* besides its geometry; a line of its text is one of the kinds that       *)
(* parseWMSPlainText tells apart.  The features of an answer are a set: two *)
(* with the same id would be one.                                          *)
(***************************************************************************)
EXTENDS Integers, Sequences, FiniteSets

CONSTANTS
    Point,      \* points one may click on
    Layer,      \* layers of the map server
    World,      \* what the map server may hold: per point and group, features
    Groups,     \* number of zoneInfoLayerGroups
    Nowhere,    \* no popup
    MaxClicks,  \* bound of the clicks
    MaxTimers,  \* bound of the timers started
    MaxPolls    \* bound of the polls in flight

Feature == [layer : Layer, readable : BOOLEAN]

\* No layer is in two groups (zoneInfoLayerGroups).
ASSUME MapAssumption ==
    /\ World \subseteq [Point -> [1..Groups -> Seq(Feature)]]
    /\ \E group \in [Layer -> 1..Groups] :
         \A w \in World, p \in Point, g \in 1..Groups :
           \A i \in DOMAIN w[p][g] : group[w[p][g][i].layer] = g
    /\ Groups \in Nat \ {0} /\ Nowhere \notin Point
    /\ MaxClicks \in Nat /\ MaxTimers \in Nat \ {0} /\ MaxPolls \in Nat

VARIABLES
    world,         \* what the map server holds
    visible,       \* document.visibilityState
    openedHidden,  \* the page was loaded in a background tab
    timers,        \* the intervals that run
    trafficTimer,  \* the latest one, the only one that can be cleared
    polls,         \* requests for traffic in flight
    asked,         \* the points of the clicks, in order
    pending,       \* clicks whose zones the server is looking up
    answers,       \* its answers in flight
    popup          \* where it is, and what it shows, an answer for which point

pollVars == <<visible, openedHidden, timers, trafficTimer, polls>>
clickVars == <<asked, pending, answers, popup>>
pageVars == <<world, pollVars, clickVars>>

Outcome == {"ok", "failed", "exception"}
Shown == {"nothing", "loading", "none", "error", "zones"}

PageTypeOK ==
    /\ world \in World
    /\ visible \in BOOLEAN /\ openedHidden \in BOOLEAN
    /\ timers \subseteq 1..MaxTimers /\ trafficTimer \in 1..MaxTimers
    /\ polls \in 0..MaxPolls
    /\ asked \in Seq(Point)
    /\ pending \subseteq 1..Len(asked)
    /\ \A a \in answers : a.click \in 1..Len(asked)
    /\ popup.at \in Point \cup {Nowhere} /\ popup.of \in Point \cup {Nowhere}
    /\ popup.shows \in Shown

PageInit ==
    /\ world \in World
    /\ visible \in BOOLEAN /\ openedHidden = ~visible
    /\ timers = {1} /\ trafficTimer = 1 /\ polls = 0
    /\ asked = <<>> /\ pending = {} /\ answers = {}
    /\ popup = [at |-> Nowhere, of |-> Nowhere, shows |-> "nothing"]

----------------------------------------------------------------------------
(* The poller.                                                             *)

\* fetchTraffic.
Poll == polls < MaxPolls /\ polls' = polls + 1

\* An interval fires; in a hidden tab fetchTraffic returns at once.
Fire(i) ==
    /\ i \in timers /\ visible
    /\ Poll
    /\ UNCHANGED <<world, visible, openedHidden, timers, trafficTimer, clickVars>>

\* It is answered, or fails: renderTraffic, or nothing.
PollEnds ==
    /\ polls > 0 /\ polls' = polls - 1
    /\ UNCHANGED <<world, visible, openedHidden, timers, trafficTimer, clickVars>>

\* Mutant of HideTab: the interval is not cleared.
HideRunning ==
    /\ visible /\ visible' = FALSE
    /\ UNCHANGED <<world, openedHidden, timers, trafficTimer, polls, clickVars>>

\* visibilitychange to hidden.
HideTab ==
    /\ visible /\ visible' = FALSE
    /\ timers' = timers \ {trafficTimer}
    /\ UNCHANGED <<world, openedHidden, trafficTimer, polls, clickVars>>

\* Mutant of ShowTab: the refresh on return, but no new interval.
ShowOnce ==
    /\ ~visible /\ trafficTimer < MaxTimers /\ visible' = TRUE
    /\ trafficTimer' = trafficTimer + 1
    /\ Poll
    /\ UNCHANGED <<world, openedHidden, timers, clickVars>>

\* visibilitychange to visible: an immediate refresh and a new interval.
ShowTab ==
    /\ ~visible /\ trafficTimer < MaxTimers /\ visible' = TRUE
    /\ trafficTimer' = trafficTimer + 1
    /\ timers' = timers \cup {trafficTimer'}
    /\ Poll
    /\ UNCHANGED <<world, openedHidden, clickVars>>

----------------------------------------------------------------------------
(* The answer to a click.                                                  *)

\* The map server's text for some features: a header per layer, and each feature
\* between two separators, its geometry first; or the sentence that there are none.
Header(features, i) ==
    IF i > 1 /\ features[i - 1].layer = features[i].layer THEN <<>>
    ELSE <<[kind |-> "header", layer |-> features[i].layer]>>

Block(feature) ==
    <<[kind |-> "separator"], [kind |-> "geom"],
      [kind |-> IF feature.readable THEN "value" ELSE "null"], [kind |-> "separator"]>>

Texts(features) ==
    LET text[i \in 0..Len(features)] ==
          IF i = 0 THEN <<>>
          ELSE text[i - 1] \o Header(features, i) \o Block(features[i])
    IN  text

PlainText(features) ==
    IF features = <<>> THEN <<[kind |-> "noFeatures"]>> ELSE Texts(features)[Len(features)]

\* A ServiceException comes with status 200.
ServiceException == <<[kind |-> "xml"]>>

\* A separator closes the block that the one before it opened.
Closes(text, i) ==
    /\ text[i].kind = "separator"
    /\ Cardinality({j \in 1..i : text[j].kind = "separator"}) % 2 = 0

\* The values of the block that separator i closes, without its geometry and nulls.
props(text, i) ==
    {k \in 1..i - 1 : /\ text[k].kind = "value"
                      /\ \A j \in k..i - 1 : text[j].kind # "separator"}

\* The layer of the last header before line i.
currentLayer(text, i) ==
    LET headers == {k \in 1..i : text[k].kind = "header"}
    IN  text[CHOOSE k \in headers : \A j \in headers : j <= k].layer

\* Each block with a value is a feature; its id is its layer and a running number.
parseWMSPlainText(text) ==
    LET features == {i \in DOMAIN text : Closes(text, i) /\ props(text, i) # {}}
    IN  {[layer |-> currentLayer(text, i),
          featureIdx |-> Cardinality({j \in features : j < i})] : i \in features}

\* What a group's answer yields, for all that a group may hold.
Reading == [held \in UNION {{w[p][g] : g \in 1..Groups} : w \in World, p \in Point} |->
              parseWMSPlainText(PlainText(held))]

\* One group's part of the answer.
GroupFeatures(p, outcome, g) ==
    CASE outcome[g] = "ok" -> Reading[world[p][g]]
      [] outcome[g] = "exception" -> parseWMSPlainText(ServiceException)
      [] outcome[g] = "failed" -> {}

ZoneInfo(p, outcome) ==
    LET fs == UNION {GroupFeatures(p, outcome, g) : g \in 1..Groups}
    IN  [shows |-> IF fs = {} THEN "none" ELSE "zones", features |-> fs]

\* Mutant of FetchZoneInfo: one failed group fails all.
FetchZoneInfoAllOrNothing(p, outcome) ==
    IF \E g \in 1..Groups : outcome[g] = "failed"
    THEN [shows |-> "error", features |-> {}]
    ELSE ZoneInfo(p, outcome)

\* FetchZoneInfo: what the groups that answered hold; an error if none did.
FetchZoneInfo(p, outcome) ==
    IF \A g \in 1..Groups : outcome[g] = "failed"
    THEN [shows |-> "error", features |-> {}]
    ELSE ZoneInfo(p, outcome)

Click(p) ==
    /\ Len(asked) < MaxClicks
    /\ asked' = Append(asked, p)
    /\ pending' = pending \cup {Len(asked')}
    /\ popup' = [at |-> p, of |-> Nowhere, shows |-> "loading"]
    /\ UNCHANGED <<world, pollVars, answers>>

\* ZoneInfoHandler, for the n-th click.
AnswerClick(n) ==
    /\ n \in pending
    /\ pending' = pending \ {n}
    /\ \E outcome \in [1..Groups -> Outcome] :
         answers' = answers \cup
           {[click |-> n, outcome |-> outcome, answer |-> FetchZoneInfo(asked[n], outcome)]}
    /\ UNCHANGED <<world, pollVars, asked, popup>>

\* Mutant of Receive: nothing catches an answer that is an error.
ReceiveUncaught(a) ==
    /\ answers' = answers \ {a}
    /\ popup' = IF a.answer.shows = "error" THEN popup
                ELSE [popup EXCEPT !.of = asked[a.click], !.shows = a.answer.shows]
    /\ UNCHANGED <<world, pollVars, asked, pending>>

\* An answer arrives, in whatever order, and becomes the content of the one popup.
Receive(a) ==
    /\ answers' = answers \ {a}
    /\ popup' = [popup EXCEPT !.of = asked[a.click], !.shows = a.answer.shows]
    /\ UNCHANGED <<world, pollVars, asked, pending>>

PageNext ==
    \/ HideTab \/ ShowTab \/ PollEnds
    \/ \E i \in timers : Fire(i)
    \/ \E p \in Point : Click(p)
    \/ \E n \in pending : AnswerClick(n)
    \/ \E a \in answers : Receive(a)

PageSpec == PageInit /\ [][PageNext]_pageVars

\* Intervals fire, and requests are answered or time out.  Nobody has to click, or to
\* look at the page.
PageFairSpec ==
    /\ PageSpec
    /\ WF_pageVars(\E i \in timers : Fire(i))
    /\ WF_pageVars(PollEnds)
    /\ WF_pageVars(\E n \in pending : AnswerClick(n))
    /\ WF_pageVars(\E a \in answers : Receive(a))

----------------------------------------------------------------------------
\* However often the tab is hidden and shown, one interval polls, as every start follows
\* a stop; but the one that was started in a hidden tab is never stopped (a second poll
\* every 15 seconds for as long as the page is open).  A hidden tab has only that one.
PollersBounded ==
    LET leaked == IF openedHidden THEN 1 ELSE 0
    IN  Cardinality(timers) <= IF visible THEN 1 + leaked ELSE leaked

\* A tab that stays visible asks for traffic again and again, after any number of changes
\* ("resume when visible", results.html:1020).
VisibleTabRefreshes == <>[]visible => []<><<\E i \in timers : Fire(i)>>_pageVars

\* An answer holds each zone of every group that was answered properly, once, with its own
\* layer and an id of its own, whatever the other groups did ("one layer whose render query
\* fails" takes no other zone with it, wms.go:12-18); it is an error only if all failed.
EveryReadableZoneOnce ==
    \A a \in answers :
        LET fs == a.answer.features
            held(g) == world[asked[a.click]][g]
            readable(l) == UNION {{<<g, i>> : i \in {j \in DOMAIN held(g) :
                                     held(g)[j] = [layer |-> l, readable |-> TRUE]}} :
                                  g \in {h \in 1..Groups : a.outcome[h] = "ok"}}
        IN  /\ (a.answer.shows = "error") = (\A g \in 1..Groups : a.outcome[g] = "failed")
            /\ \A l \in Layer :
                 Cardinality({f \in fs : f.layer = l}) = Cardinality(readable(l))

\* No popup stays at "Loading": each click is answered by zones, by none, or by an error.
LoadingEnds == popup.shows = "loading" ~> popup.shows # "loading"

\* The popup of a point shows the zones of that point ("zone(s) at this point",
\* results.html:1136).
PopupTellsItsPoint == popup.of # Nowhere => popup.of = popup.at
=============================================================================
