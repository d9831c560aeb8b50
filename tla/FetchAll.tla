------------------------------ MODULE FetchAll ------------------------------
(***************************************************************************)
(* ResultsHandler.fetchAll (results.go) run by many requests at once over  *)
(* one ResultCache: a lookup, a parallel fetch of every source joined by a *)
(* WaitGroup, the enrichment of the zones, and the store into the cache;   *)
(* or a hit, topped up with live traffic on a copy when the cached result  *)
(* has none.                                                               *)
(*                                                                         *)
(* heap is the Go heap as far as it matters: heap[o] is the allFetched     *)
(* struct that request o allocated (each allocates at most one), and the   *)
(* cache and the responses hold pointers into it.  What a source returned  *)
(* is abstracted to whether it succeeded.                                  *)
(*                                                                         *)
(* FetchMax bounds one round of fetching: every call to a provider runs    *)
(* under an http.Client timeout, so wg.Wait returns.  The clock therefore  *)
(* does not pass a fetch that has used up its time.                        *)
(***************************************************************************)
EXTENDS ResultCache

CONSTANTS
    Req,       \* the requests of one behaviour
    Source,    \* the goroutines of one fetch
    NoObj,     \* the nil pointer
    FetchMax   \* how long a fetch, or a top-up, may take

Phase == {"idle", "fetching", "joined", "topup", "answered"}
Outcome == {"none", "ok", "failed"}
Object == [key : Key, begun : Nat, hasTraffic : BOOLEAN,
           result : [Source -> Outcome], enriched : BOOLEAN]

ASSUME FetchAssumption ==
    /\ Obj = Req
    /\ IsFiniteSet(Req)
    /\ IsFiniteSet(Source)
    /\ {"utm", "traffic"} \subseteq Source
    /\ NoObj \notin Obj \cup Object \cup [key : Key, traffic : BOOLEAN]
    /\ FetchMax \in Nat

VARIABLES
    phase,       \* where request r is in fetchAll
    key, wants,  \* its cache key, and whether it asked for live traffic
    since,       \* when its lookup was
    running,     \* its goroutines that have not called wg.Done yet
    wg,          \* its WaitGroup's counter
    heap,        \* the allFetched structs
    answer,      \* the struct returned to it
    answeredAt   \* and when

reqVars == <<phase, key, wants, since, running, wg, heap, answer, answeredAt>>
vars == <<now, entries, sweepAt, reqVars>>

\* A WaitGroup's counter that becomes negative would panic.
TypeOK ==
    /\ CacheTypeOK
    /\ phase \in [Req -> Phase]
    /\ key \in [Req -> Key]
    /\ wants \in [Req -> BOOLEAN]
    /\ since \in [Req -> Nat]
    /\ running \in [Req -> SUBSET Source]
    /\ wg \in [Req -> Nat]
    /\ heap \in [Req -> Object \cup {NoObj}]
    /\ answer \in [Req -> Req \cup {NoObj}]
    /\ answeredAt \in [Req -> Nat]

Init ==
    /\ CacheInit
    /\ phase = [r \in Req |-> "idle"]
    /\ key \in [Req -> Key]
    /\ wants \in [Req -> BOOLEAN]
    /\ since = [r \in Req |-> 0]
    /\ running = [r \in Req |-> {}]
    /\ wg = [r \in Req |-> 0]
    /\ heap = [r \in Req |-> NoObj]
    /\ answer = [r \in Req |-> NoObj]
    /\ answeredAt = [r \in Req |-> 0]

----------------------------------------------------------------------------
Reply(r, o) ==
    /\ phase' = [phase EXCEPT ![r] = "answered"]
    /\ answer' = [answer EXCEPT ![r] = o]
    /\ answeredAt' = [answeredAt EXCEPT ![r] = now]

\* Struct h once the goroutine of source s has written its result.
Written(h, s, res) == [h EXCEPT !.result[s] = res]

\* Mutant of ToppedUp: the flag is not set.
ToppedUpUnmarked(h, res) == Written(h, "traffic", res)

\* The copy h once it has been topped up: traffic, errs[4] and trafficFetched.
ToppedUp(h, res) == [Written(h, "traffic", res) EXCEPT !.hasTraffic = TRUE]

\* The goroutines a fetch starts: OpenSky only when traffic is wanted.
Goroutines(w) == IF w THEN Source ELSE Source \ {"traffic"}

\* The cached struct lacks the traffic this request wants.
NeedsTopUp(r) == wants[r] /\ ~heap[entries[key[r]].data].hasTraffic

\* fetchAll: a hit is returned as it is.
ServeHit(r) ==
    /\ phase[r] = "idle"
    /\ Hit(key[r])
    /\ ~NeedsTopUp(r)
    /\ since' = [since EXCEPT ![r] = now]
    /\ Reply(r, entries[key[r]].data)
    /\ UNCHANGED <<now, entries, sweepAt, key, wants, running, wg, heap>>

\* fetchAll: a hit without traffic is copied, and the copy is topped up.
StartTopUp(r) ==
    /\ phase[r] = "idle"
    /\ Hit(key[r])
    /\ NeedsTopUp(r)
    /\ heap' = [heap EXCEPT ![r] = heap[entries[key[r]].data]]
    /\ phase' = [phase EXCEPT ![r] = "topup"]
    /\ since' = [since EXCEPT ![r] = now]
    /\ UNCHANGED <<now, entries, sweepAt, key, wants, running, wg, answer, answeredAt>>

\* FetchNearbyTraffic returned: the copy is completed and is the answer.  It is
\* not cached.
FinishTopUp(r) ==
    /\ phase[r] = "topup"
    /\ \E res \in {"ok", "failed"} : heap' = [heap EXCEPT ![r] = ToppedUp(@, res)]
    /\ Reply(r, r)
    /\ UNCHANGED <<now, entries, sweepAt, key, wants, since, running, wg>>

\* A miss allocates the struct, adds to the WaitGroup and starts the goroutines.
StartFetch(r) ==
    /\ phase[r] = "idle"
    /\ ~Hit(key[r])
    /\ heap' = [heap EXCEPT ![r] = [key |-> key[r], begun |-> now,
                                    hasTraffic |-> wants[r],
                                    result |-> [s \in Source |-> "none"],
                                    enriched |-> FALSE]]
    /\ wg' = [wg EXCEPT ![r] = Cardinality(Goroutines(wants[r]))]
    /\ running' = [running EXCEPT ![r] = Goroutines(wants[r])]
    /\ phase' = [phase EXCEPT ![r] = "fetching"]
    /\ since' = [since EXCEPT ![r] = now]
    /\ UNCHANGED <<now, entries, sweepAt, key, wants, answer, answeredAt>>

\* Mutant of SourceDone: a source that fails returns before wg.Done.
SourceDoneUnlessFailed(r, s) ==
    /\ s \in running[r]
    /\ \E res \in {"ok", "failed"} :
         /\ heap' = [heap EXCEPT ![r] = Written(@, s, res)]
         /\ wg' = IF res = "ok" THEN [wg EXCEPT ![r] = @ - 1] ELSE wg
    /\ running' = [running EXCEPT ![r] = @ \ {s}]
    /\ UNCHANGED <<now, entries, sweepAt, phase, key, wants, since, answer, answeredAt>>

\* A goroutine writes its result into the shared struct and calls wg.Done.
SourceDone(r, s) ==
    /\ s \in running[r]
    /\ \E res \in {"ok", "failed"} : heap' = [heap EXCEPT ![r] = Written(@, s, res)]
    /\ running' = [running EXCEPT ![r] = @ \ {s}]
    /\ wg' = [wg EXCEPT ![r] = @ - 1]
    /\ UNCHANGED <<now, entries, sweepAt, phase, key, wants, since, answer, answeredAt>>

\* Mutant of Join: nobody waits for the goroutines.
JoinWithoutWait(r) ==
    /\ phase[r] = "fetching"
    /\ heap' = [heap EXCEPT ![r].enriched = TRUE]
    /\ phase' = [phase EXCEPT ![r] = "joined"]
    /\ UNCHANGED <<now, entries, sweepAt, key, wants, since, running, wg, answer, answeredAt>>

\* wg.Wait returns; enrichZones then rewrites the struct's zones in place.
Join(r) ==
    /\ phase[r] = "fetching"
    /\ wg[r] = 0
    /\ heap' = [heap EXCEPT ![r].enriched = TRUE]
    /\ phase' = [phase EXCEPT ![r] = "joined"]
    /\ UNCHANGED <<now, entries, sweepAt, key, wants, since, running, wg, answer, answeredAt>>

\* Mutant of StoreAndReturn: the struct is cached before enrichZones has run.
StoreBeforeJoin(r) ==
    /\ phase[r] \in {"fetching", "joined"}
    /\ IF heap[r].result["utm"] = "ok" THEN Set(key[r], r) ELSE UNCHANGED entries
    /\ Reply(r, r)
    /\ UNCHANGED <<now, sweepAt, key, wants, since, running, wg, heap>>

\* The struct is cached if the weather forecast succeeded, and returned.
StoreAndReturn(r) ==
    /\ phase[r] = "joined"
    /\ IF heap[r].result["utm"] = "ok" THEN Set(key[r], r) ELSE UNCHANGED entries
    /\ Reply(r, r)
    /\ UNCHANGED <<now, sweepAt, key, wants, since, running, wg, heap>>

\* The clock passes neither an overdue sweeper nor a timed-out fetch.
Tick ==
    /\ CacheTick
    /\ \A r \in Req : phase[r] \in {"fetching", "joined", "topup"} => now < since[r] + FetchMax
    /\ UNCHANGED <<entries, sweepAt, reqVars>>

Step(r) ==
    \/ ServeHit(r)
    \/ StartTopUp(r)
    \/ FinishTopUp(r)
    \/ StartFetch(r)
    \/ \E s \in Source : SourceDone(r, s)
    \/ Join(r)
    \/ StoreAndReturn(r)

Next ==
    \/ Tick
    \/ Sweep /\ UNCHANGED reqVars
    \/ \E r \in Req : Step(r)

Spec == Init /\ [][Next]_vars

\* Every provider call ends (http.Client timeouts) and the runtime schedules the
\* goroutine that waits for it, so a request that can take a step takes one.
FairSpec == Spec /\ \A r \in Req : WF_vars(Step(r))

----------------------------------------------------------------------------
\* The pointers another goroutine may hold: in the cache or already returned.
Published == {entries[k].data : k \in Resident}
                \cup ({answer[r] : r \in Req} \ {NoObj})

\* Nobody writes to a struct that the cache or a response already points to:
\* not a goroutine the WaitGroup forgot, not enrichZones, not a traffic top-up
\* ("so the shared cache entry is never mutated", results.go).
PublishedNeverWritten ==
    [][\A o \in Published : heap'[o] = heap[o]]_vars

\* What is in the cache is finished: every goroutine of that fetch is done, its
\* zones are enriched, the forecast succeeded, and it is the position it is
\* filed under (fetchAll stores out only after Wait and the forecast check).
CachedIsComplete ==
    \A k \in Resident :
        LET o == entries[k].data
        IN  /\ heap[o] # NoObj /\ heap[o].key = k
            /\ running[o] = {}
            /\ heap[o].enriched /\ heap[o].result["utm"] = "ok"

\* A reader never gets readings older than the TTL plus one fetch (the entry is
\* dated when the fetch ends) plus one top-up.
AnswerBound == TTL + 2 * FetchMax

AnswersAreFresh ==
    \A r \in Req : phase[r] = "answered" =>
        answeredAt[r] - heap[answer[r]].begun <= AnswerBound

\* Whoever asked for traffic gets a result whose traffic was really looked up,
\* whatever mix of callers filled the cache (results.go, trafficFetched).
AnswersCarryTraffic ==
    \A r \in Req : phase[r] = "answered" /\ wants[r] =>
        /\ heap[answer[r]].hasTraffic
        /\ heap[answer[r]].result["traffic"] # "none"

\* Every request is answered: no WaitGroup is waited on for ever, and the
\* sweeper and the other requests hold nobody up.
EveryRequestAnswered == \A r \in Req : <>(phase[r] = "answered")

----------------------------------------------------------------------------
Asked(r) == IF phase[r] = "idle" THEN NoObj ELSE [key |-> key[r], traffic |-> wants[r]]

Answered(r) ==
    IF answer[r] = NoObj THEN NoObj
    ELSE [key |-> heap[answer[r]].key, traffic |-> heap[answer[r]].hasTraffic,
          begun |-> heap[answer[r]].begun]

Promise == INSTANCE FreshAnswers WITH
    NoAnswer <- NoObj, Bound <- AnswerBound, clock <- now,
    asked <- [r \in Req |-> Asked(r)], answered <- [r \in Req |-> Answered(r)]

\* The cache, the copies and the goroutines implement the promise made to the
\* visitor: a fresh reading of the position asked for, with the traffic asked for.
KeepsPromise == Promise!PromiseSpec
=============================================================================
