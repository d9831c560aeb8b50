----------------------------- MODULE CloudBase -----------------------------
(***************************************************************************)
(* Cloud base and visibility from the airport whose name contains the city *)
(* (metar.go): FetchCloudBase called by many requests over one cached list *)
(* of airports.  getAirportList holds its mutex across the download, so    *)
(* the callers queue behind it, and a download that failed is not          *)
(* remembered.  What the JSON API makes of the result is in apiv1.go.      *)
(*                                                                         *)
(* A METAR or TAF is the set of its groups that the two parsers look at,   *)
(* must not be taken in by, or might be expected to look at.               *)
(***************************************************************************)
EXTENDS Integers, FiniteSets, FiniteSetsExt

CONSTANTS
    Caller,     \* concurrent calls of FetchCloudBase
    Nobody,     \* the mutex is free
    Airport,    \* the airports the site may list
    Report,     \* what a METAR or a TAF may hold, see Group
    None,       \* no airport, not available
    Timeout,    \* of the http.Client (8 s)
    Validity,   \* how long the list is good (4 h)
    MaxTime     \* bound of the clock

\* FEW017 and BKN003 are layers, VV001 is the vertical visibility of an obscured sky,
\* 4000 a visibility, 1500SW one in a sector, R07/0600 a runway visual range (RVR),
\* 1318/1418 a period.
Group == [sort : {"FEW", "BKN", "OVC", "VV", "visibility", "sector", "RVR", "period"},
          value : Nat]

\* Ceiling and visibility of a METAR or a TAF, -1 where it is silent.
Reading == [base : Nat \cup {-1}, visibility : Nat \cup {-1}]
Silent == [base |-> -1, visibility |-> -1]

ASSUME CloudBaseAssumption ==
    /\ IsFiniteSet(Caller) /\ IsFiniteSet(Airport) /\ Nobody \notin Caller
    /\ Report \subseteq SUBSET Group /\ \A t \in Report : IsFiniteSet(t)
    /\ Timeout \in Nat /\ Validity \in Nat \ {0} /\ MaxTime \in Nat
    /\ None \notin Airport \cup Reading \cup [metar : Reading \cup {None}, taf : Reading \cup {None}]

VARIABLES
    now,
    page,     \* what the site reports for each airport: its METAR and its TAF
    mu,       \* who holds airportCache.mu
    list,     \* airportCache.data, empty when nil: then expires is 0
    expires,  \* airportCache.expires
    pc,       \* where each call is
    city,     \* the airports whose name contains its city
    begun,    \* when it was made
    sentAt,   \* when its last request went out
    airport,  \* the airport it chose
    result    \* the METAR and TAF readings it returns

cacheVars == <<list, expires>>
vars == <<now, page, mu, cacheVars, pc, city, begun, sentAt, airport, result>>

TypeOK ==
    /\ now \in Nat /\ page \in [Airport -> [metar : Report, taf : Report]]
    /\ mu \in Caller \cup {Nobody}
    /\ list \in SUBSET Airport /\ expires \in Nat
    /\ pc \in [Caller -> {"idle", "waiting", "downloading", "reading", "returned"}]
    /\ city \in [Caller -> SUBSET Airport]
    /\ begun \in [Caller -> Nat] /\ sentAt \in [Caller -> Nat]
    /\ airport \in [Caller -> Airport \cup {None}]
    /\ result \in [Caller -> [metar : Reading, taf : Reading]]

Init ==
    /\ now = 0 /\ page \in [Airport -> [metar : Report, taf : Report]]
    /\ mu = Nobody /\ list = {} /\ expires = 0
    /\ pc = [c \in Caller |-> "idle"]
    /\ city \in [Caller -> SUBSET Airport]
    /\ begun = [c \in Caller |-> 0] /\ sentAt = [c \in Caller |-> 0]
    /\ airport = [c \in Caller |-> None]
    /\ result = [c \in Caller |-> [metar |-> Silent, taf |-> Silent]]

----------------------------------------------------------------------------
\* Least value of the groups of text with one of these sorts; -1 if there is none.
Lowest(text, sorts) ==
    LET found == {g.value : g \in {h \in text : h.sort \in sorts}}
    IN  IF found = {} THEN -1 ELSE Min(found)

parseCloudBase(text) == Lowest(text, {"BKN", "OVC"})

\* Mutant of parseVisibility: periods are not stripped first.
parseVisibilityUnstripped(text) == Lowest(text, {"visibility", "RVR", "period"})

\* Every number of four digits that stands alone, once the periods are stripped: the
\* slash in front of a runway visual range is no part of a word, the letters behind a
\* visibility in a sector are.
parseVisibility(text) == Lowest(text, {"visibility", "RVR"})

Read(text) == [base |-> parseCloudBase(text), visibility |-> parseVisibility(text)]

Goto(c, l) == pc' = [pc EXCEPT ![c] = l]

Fresh == now < expires

\* findAirport, given the list: any match, as the walk over a Go map has no order.
\* Whoever has an airport asks for its page.
Choose(c, names) ==
    IF names \cap city[c] = {}
    THEN Goto(c, "returned") /\ UNCHANGED <<airport, sentAt>>
    ELSE /\ \E a \in names \cap city[c] : airport' = [airport EXCEPT ![c] = a]
         /\ sentAt' = [sentAt EXCEPT ![c] = now]
         /\ Goto(c, "reading")

\* A call waits for the mutex, unless it has no city.
Arrive(c) ==
    /\ pc[c] = "idle"
    /\ begun' = [begun EXCEPT ![c] = now]
    /\ \/ Goto(c, "waiting")
       \/ city[c] = {} /\ Goto(c, "returned")
    /\ UNCHANGED <<now, page, mu, cacheVars, city, sentAt, airport, result>>

\* The list at hand is good.
Lookup(c) ==
    /\ pc[c] = "waiting" /\ mu = Nobody /\ Fresh
    /\ Choose(c, list)
    /\ UNCHANGED <<now, page, mu, cacheVars, city, begun, result>>

\* Mutant of Download: whoever had to wait does not look at the list again.
DownloadUnchecked(c) ==
    /\ pc[c] = "waiting" /\ mu = Nobody /\ (Fresh => begun[c] < now)
    /\ mu' = c
    /\ sentAt' = [sentAt EXCEPT ![c] = now]
    /\ Goto(c, "downloading")
    /\ UNCHANGED <<now, page, cacheVars, city, begun, airport, result>>

\* There is no list, or it has expired.
Download(c) ==
    /\ pc[c] = "waiting" /\ mu = Nobody /\ ~Fresh
    /\ mu' = c
    /\ sentAt' = [sentAt EXCEPT ![c] = now]
    /\ Goto(c, "downloading")
    /\ UNCHANGED <<now, page, cacheVars, city, begun, airport, result>>

\* Mutant of DownloadFails: the error path forgets to unlock.
DownloadFailsLocked(c) ==
    /\ pc[c] = "downloading"
    /\ Goto(c, "returned")
    /\ UNCHANGED <<now, page, mu, cacheVars, city, begun, sentAt, airport, result>>

\* Nothing is remembered: the next in the queue tries again.
DownloadFails(c) ==
    /\ pc[c] = "downloading"
    /\ mu' = Nobody
    /\ Goto(c, "returned")
    /\ UNCHANGED <<now, page, cacheVars, city, begun, sentAt, airport, result>>

\* A page with no airport in it is remembered like any other.
DownloadEnds(c) ==
    /\ pc[c] = "downloading"
    /\ \E names \in SUBSET Airport : list' = names /\ Choose(c, names)
    /\ expires' = now + Validity
    /\ mu' = Nobody
    /\ UNCHANGED <<now, page, city, begun, result>>

PageFails(c) ==
    /\ pc[c] = "reading"
    /\ Goto(c, "returned")
    /\ UNCHANGED <<now, page, mu, cacheVars, city, begun, sentAt, airport, result>>

\* extractSection and the two parsers, on the METAR and on the TAF.
PageArrives(c) ==
    /\ pc[c] = "reading"
    /\ result' = [result EXCEPT ![c] =
         [metar |-> Read(page[airport[c]].metar), taf |-> Read(page[airport[c]].taf)]]
    /\ Goto(c, "returned")
    /\ UNCHANGED <<now, page, mu, cacheVars, city, begun, sentAt, airport>>

\* The clock waits for whoever can have the mutex, and for a request that has
\* used up its time.
Tick ==
    /\ now < MaxTime
    /\ \A c \in Caller :
         /\ pc[c] = "waiting" => mu # Nobody
         /\ pc[c] \in {"downloading", "reading"} => now < sentAt[c] + Timeout
    /\ now' = now + 1
    /\ UNCHANGED <<page, mu, cacheVars, pc, city, begun, sentAt, airport, result>>

Step(c) ==
    \/ Arrive(c) \/ Lookup(c)
    \/ Download(c) \/ DownloadFails(c) \/ DownloadEnds(c)
    \/ PageFails(c) \/ PageArrives(c)

Next == Tick \/ \E c \in Caller : Step(c)

Spec == Init /\ [][Next]_vars

\* http.Client timeouts end both requests; a call that can take a step takes one.
FairSpec == Spec /\ \A c \in Caller : WF_vars(Step(c))

----------------------------------------------------------------------------
Available(r) == r.taf.base >= 0
MetarAvailable(r) == r.metar.base >= 0 \/ r.metar.visibility >= 0

\* cloud_base of the JSON API.
CloudBaseOf(r) ==
    IF ~Available(r) /\ ~MetarAvailable(r) THEN None
    ELSE [metar |-> IF MetarAvailable(r) THEN r.metar ELSE None,
          taf |-> IF Available(r) THEN r.taf ELSE None]

\* The reading tells the lowest ceiling and the lowest visibility the text states, and
\* neither when it states none.  A runway visual range counts as a visibility, so what
\* is told is never better than the worst visibility; a vertical visibility does not
\* count as a ceiling, nor a visibility in a sector as one.
Faithful(reading, text) ==
    LET ceilings == {g \in text : g.sort \in {"BKN", "OVC"}}
        visibilities == {g \in text : g.sort \in {"visibility", "RVR"}}
    IN  /\ \A g \in ceilings : 0 <= reading.base /\ reading.base <= g.value
        /\ reading.base # -1 => \E g \in ceilings : g.value = reading.base
        /\ \A g \in visibilities : 0 <= reading.visibility /\ reading.visibility <= g.value
        /\ reading.visibility # -1 => \E g \in visibilities : g.value = reading.visibility

\* A caller that got a page is told the worst ceiling and the worst visibility of the
\* airport it chose, as far as the API says that they are available, and of a METAR or
\* TAF with a ceiling the API never says that it is not ("ungünstigster Wert",
\* docs/api-v1.md:110).
WorstIsTold ==
    \A c \in Caller : result[c] # [metar |-> Silent, taf |-> Silent] =>
        LET told == CloudBaseOf(result[c])
            reports == page[airport[c]]
            ceiling(text) == \E g \in text : g.sort \in {"BKN", "OVC"}
        IN  /\ ceiling(reports.metar) \/ ceiling(reports.taf) => told # None
            /\ told # None =>
                 /\ IF told.metar = None THEN ~ceiling(reports.metar)
                    ELSE Faithful(told.metar, reports.metar)
                 /\ IF told.taf = None THEN ~ceiling(reports.taf)
                    ELSE Faithful(told.taf, reports.taf)

\* However many callers queue behind downloads that fail one after the other, none is
\* held up longer than by each of them once, and by its own two requests.
Waiting(c) == pc[c] \in {"waiting", "downloading", "reading"}

WaitBounded ==
    \A c \in Caller : Waiting(c) => now - begun[c] <= (Cardinality(Caller) + 1) * Timeout

\* A list is replaced only once it has expired, and by one that is good: a caller that
\* waited while somebody else downloaded it does not download it again.
OneDownload == [][list' # list => ~Fresh /\ Fresh']_vars

\* Every call returns, though the mutex is held across a download.
EveryCallReturns == \A c \in Caller : pc[c] = "waiting" ~> pc[c] = "returned"
=============================================================================
