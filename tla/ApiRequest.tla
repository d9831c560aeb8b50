----------------------------- MODULE ApiRequest -----------------------------
(***************************************************************************)
(* A request from its arrival to its answer, on the JSON API (apiauth.go,  *)
(* apiv1.go) and on the HTML page (results.go): the rejections, the        *)
(* location it names, the fetch, and which failure becomes which answer.   *)
(* Requests share the gateway's cooldown: each makes up to two gateway     *)
(* calls, one for its location and, on a cache miss, one for OpenWeather.  *)
(* The cache and the other sources (FetchAll) are reduced to their outcome.*)
(*                                                                         *)
(* An answer is named by its error code; the page shows the same errors.   *)
(***************************************************************************)
EXTENDS Gateway

CONSTANTS
    Req,         \* the requests
    DefaultHint  \* the Retry-After told when the gateway sent none (5 s)

ASSUME RequestAssumption ==
    /\ Call = Req \X {"locate", "weather"}
    /\ DefaultHint \in Nat \ {0} /\ DefaultCooldown <= DefaultHint

VARIABLES
    route,   \* "api" or "page"
    query,   \* what the request holds
    stage,   \* how far it is
    place,   \* its location: by name, or as bare coordinates
    answer,  \* how it was answered
    hint,    \* the Retry-After header of the answer, 0 if none
    toldAt   \* when that wait was told, 0 if none

requestVars == <<route, query, stage, place, answer, hint, toldAt>>
allVars == <<vars, requestVars>>

\* "half": one coordinate and no address.  "coords": as parameters of their own,
\* or pasted into the address.
Query == {"stranger", "method", "wrong coords", "half", "nothing", "too long",
          "coords", "address"}
Stage == {"arrived", "locating", "located", "fetching", "done"}
Answer == {"none", "verdict", "not_found", "method_not_allowed", "redirect",
           "invalid_coordinates", "location_missing", "address_missing",
           "address_too_long", "address_not_found", "rate_limited",
           "geocoder_unavailable", "weather_unavailable"}

RequestTypeOK ==
    /\ TypeOK
    /\ route \in [Req -> {"api", "page"}] /\ query \in [Req -> Query]
    /\ stage \in [Req -> Stage] /\ place \in [Req -> {"none", "named", "raw"}]
    /\ answer \in [Req -> Answer] /\ hint \in [Req -> Nat]
    /\ toldAt \in [Req -> Nat]

\* The page knows no strangers: it asks for no secret.
RequestInit ==
    /\ Init
    /\ route \in [Req -> {"api", "page"}] /\ query \in [Req -> Query]
    /\ \A r \in Req : query[r] = "stranger" => route[r] = "api"
    /\ stage = [r \in Req |-> "arrived"] /\ place = [r \in Req |-> "none"]
    /\ answer = [r \in Req |-> "none"] /\ hint = [r \in Req |-> 0]
    /\ toldAt = [r \in Req |-> 0]

----------------------------------------------------------------------------
\* APIAuth: an unknown caller learns nothing.
Admitted(q) == q # "stranger"

\* The parameters the API turns down.  One coordinate is taken for coordinates.
ApiRejection(q) ==
    CASE q = "method" -> "method_not_allowed"
      [] q \in {"wrong coords", "half"} -> "invalid_coordinates"
      [] q = "nothing" -> "location_missing"
      [] q = "too long" -> "address_too_long"
      [] OTHER -> "none"

\* The forms the page turns down.  One coordinate is taken for a missing address.
PageRejection(q) ==
    CASE q = "method" -> "redirect"
      [] q = "wrong coords" -> "invalid_coordinates"
      [] q \in {"half", "nothing"} -> "address_missing"
      [] q = "too long" -> "address_too_long"
      [] OTHER -> "none"

Rejection(r) ==
    IF ~Admitted(query[r]) THEN "not_found"
    ELSE IF route[r] = "api" THEN ApiRejection(query[r]) ELSE PageRejection(query[r])

Reach(r, s) == stage' = [stage EXCEPT ![r] = s]

Reply(r, a, h) ==
    /\ Reach(r, "done")
    /\ answer' = [answer EXCEPT ![r] = a]
    /\ hint' = [hint EXCEPT ![r] = h]
    /\ toldAt' = [toldAt EXCEPT ![r] = IF h = 0 THEN 0 ELSE now]

Reject(r) ==
    /\ stage[r] = "arrived" /\ Rejection(r) # "none"
    /\ Reply(r, Rejection(r), 0)
    /\ UNCHANGED <<vars, route, query, place>>

Accept(r) ==
    /\ stage[r] = "arrived" /\ Rejection(r) = "none"
    /\ Reach(r, "locating")
    /\ UNCHANGED <<vars, route, query, place, answer, hint, toldAt>>

\* A gateway call runs while its request waits for it.
CallAllowed(c) ==
    stage[c[1]] = IF c[2] = "locate" THEN "locating" ELSE "fetching"

Calling(c) == CallAllowed(c) /\ CallStep(c) /\ UNCHANGED requestVars

Ended(c) == state[c] \in {"ok", "failed", "gaveUp", "refused"}

\* An answer of the geocoder is an item, none, or unreadable.
Geocoded(c) == IF state[c] = "ok" THEN {"item", "empty", "unreadable"} ELSE {"error"}

\* Mutant of ResolveCoords: a geocoder that fails fails the request.
ResolveCoordsStrict(r) ==
    /\ stage[r] = "locating" /\ query[r] = "coords"
    /\ Ended(<<r, "locate">>)
    /\ \E g \in Geocoded(<<r, "locate">>) :
         IF g = "item"
         THEN /\ Reach(r, "located")
              /\ place' = [place EXCEPT ![r] = "named"]
              /\ UNCHANGED <<answer, hint, toldAt>>
         ELSE Reply(r, "geocoder_unavailable", 0) /\ UNCHANGED place
    /\ UNCHANGED <<vars, route, query>>

\* resolveCoords: whatever the geocoder does, there is a location.
ResolveCoords(r) ==
    /\ stage[r] = "locating" /\ query[r] = "coords"
    /\ Ended(<<r, "locate">>)
    /\ \E g \in Geocoded(<<r, "locate">>) :
         place' = [place EXCEPT ![r] = IF g = "item" THEN "named" ELSE "raw"]
    /\ Reach(r, "located")
    /\ UNCHANGED <<vars, route, query, answer, hint, toldAt>>

\* Mutant of Hint: the API always tells the constant.
HintConstant(r) == IF route[r] = "page" THEN 0 ELSE DefaultHint

\* The Retry-After the API tells: the gateway's own to whoever met the 429, a
\* constant to whoever was refused in the cooldown.  The page tells none.
Hint(r) ==
    LET c == <<r, "locate">>
    IN  IF route[r] = "page" THEN 0
        ELSE IF state[c] = "gaveUp" /\ retryAfter[c] > 0 THEN retryAfter[c]
        ELSE DefaultHint

\* Mutant of ResolveAddress: a refused call is not taken for a rate limit.
ResolveAddressDeaf(r) ==
    /\ stage[r] = "locating" /\ query[r] = "address"
    /\ Ended(<<r, "locate">>) /\ state[<<r, "locate">>] # "refused"
    /\ \/ /\ "item" \in Geocoded(<<r, "locate">>)
          /\ Reach(r, "located")
          /\ place' = [place EXCEPT ![r] = "named"]
          /\ UNCHANGED <<answer, hint, toldAt>>
       \/ /\ state[<<r, "locate">>] # "ok"
          /\ Reply(r, "rate_limited", Hint(r))
          /\ UNCHANGED place
    /\ UNCHANGED <<vars, route, query>>

\* resolveAddress: an address has to be found.
ResolveAddress(r) ==
    /\ stage[r] = "locating" /\ query[r] = "address"
    /\ Ended(<<r, "locate">>)
    /\ \/ /\ "item" \in Geocoded(<<r, "locate">>)
          /\ Reach(r, "located")
          /\ place' = [place EXCEPT ![r] = "named"]
          /\ UNCHANGED <<answer, hint, toldAt>>
       \/ /\ "empty" \in Geocoded(<<r, "locate">>)
          /\ Reply(r, "address_not_found", 0)
          /\ UNCHANGED place
       \/ /\ "unreadable" \in Geocoded(<<r, "locate">>) \/ state[<<r, "locate">>] = "failed"
          /\ Reply(r, "geocoder_unavailable", 0)
          /\ UNCHANGED place
       \/ /\ state[<<r, "locate">>] \in {"gaveUp", "refused"}
          /\ Reply(r, "rate_limited", Hint(r))
          /\ UNCHANGED place
    /\ UNCHANGED <<vars, route, query>>

\* fetchFn finds the position in the cache, where every result has a forecast, or
\* fetches it, OpenWeather included.
Lookup(r) ==
    /\ stage[r] = "located"
    /\ Reply(r, "verdict", 0) \/ (Reach(r, "fetching") /\ UNCHANGED <<answer, hint, toldAt>>)
    /\ UNCHANGED <<vars, route, query, place>>

\* The fetch is over.  Only the forecast of the DFS is indispensable.
Judge(r) ==
    /\ stage[r] = "fetching" /\ Ended(<<r, "weather">>)
    /\ \E a \in {"verdict", "weather_unavailable"} : Reply(r, a, 0)
    /\ UNCHANGED <<vars, route, query, place>>

Step(r) ==
    \/ Reject(r) \/ Accept(r) \/ ResolveCoords(r) \/ ResolveAddress(r)
    \/ Lookup(r) \/ Judge(r)
    \/ Calling(<<r, "locate">>) \/ Calling(<<r, "weather">>)

RequestNext ==
    \/ Tick /\ UNCHANGED requestVars
    \/ \E r \in Req : Step(r)

RequestSpec == RequestInit /\ [][RequestNext]_allVars

\* The gateway client has a timeout, and net/http runs every handler.
FairRequestSpec == RequestSpec /\ \A r \in Req : WF_allVars(Step(r))

----------------------------------------------------------------------------
\* Coordinates are answered whatever the gateway does to this request and to the
\* others: no cooldown and no geocoder stands between them and a verdict
\* ("A geocoder failure is non-fatal"), only a missing forecast does.
CoordinatesNeedNoGateway ==
    \A r \in Req : stage[r] = "done" /\ query[r] = "coords" =>
        answer[r] \in {"verdict", "weather_unavailable"} /\ place[r] # "none"

\* A caller who waits as long as it was told (a limit is reached: "Retry-After
\* (Sekunden) beachten", docs/api-v1.md:138) finds the cooldown over, at whatever later
\* time it looks, unless somebody met a 429 after its answer; or unless the deadline was
\* not its own, because another call stored a later one or because it was refused and
\* told a constant: then what is left is at most the clamp less what it waited.
HeedingKeepsOut ==
    \A r \in Req :
        /\ answer[r] = "rate_limited" /\ route[r] = "api"
        /\ now >= toldAt[r] + hint[r] /\ Remaining > 0
        => \/ last429 > toldAt[r]
           \/ <<r, "locate">> \notin setter /\ Remaining <= MaxCooldown - hint[r]

\* Every request is answered, the ones refused in a cooldown at once.
EveryRequestAnswered == \A r \in Req : <>(stage[r] = "done")
=============================================================================
