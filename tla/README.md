# Verification of drohnenwetter

drohnenwetter is a Go web server that tells a drone pilot whether it is safe and
legal to fly at a position: it asks several providers in parallel, judges weather
and airspace, and answers as an HTML page or as JSON. This directory holds TLA+
models of its stateful and its safety-relevant parts, the TLC runs that check
them on small instances, and TLAPS proofs about all of them. Paths below are
relative to `src/go/` unless they begin with `src/`.

Run a model with `tlc -config MCFetchAll.cfg MCFetchAll.tla`. The file names go
together; `MCGatewayMixed.cfg` belongs to `MCGateway.tla`, `MCDipulZonesLoss.cfg` and
`MCMapPageLate.cfg` to the module they begin with. Check proofs with
`tlapm FetchAll_proofs.tla`.

## 1. The system

    browser ──> nginx ──> rateLimitMiddleware ──> handlers ──┬─> resultCache
                          (limiters, cleaner)                 └─> fetchAll ──> 8 goroutines
                                                                    │
            ┌───────────────┬──────────────┬────────────────┬───────┴──────┐
         gatewayGet      OpenSky         DiPUL          DWD forecast,   airport list,
       (one cooldown)  token, traffic   one token       elevation, Kp   TAF/METAR
                           cache

| component | state | operations | interacts with | what is hard | what makes it correct |
|---|---|---|---|---|---|
| Result cache (`handler/cache.go`) | map key → (pointer, time), RWMutex | get, set, sweep | fetchAll shares the pointers with every reader | lazy expiry against the sweep, eviction at capacity | bounded in size and time; loses only what it must; shows what was stored |
| Result pipeline (`handler/results.go`, fetchAll) | one `allFetched` per request, its WaitGroup | hit, top-up on a copy, fetch, join, enrich, store | cache, all providers | eight goroutines and one struct; shared pointers; concurrent misses | published results are finished and never written again; answers are fresh and carry what was asked for; everyone is answered |
| Gateway client (`api/client.go`) | one atomic cooldown deadline | gatewayGet, doRequestWith, setGatewayCooldown | geocoding and OpenWeather share it | check and send are apart; late 429s | bounded lockout, no refusal without cause, no more of a silence is cut than waits differ |
| OpenSky token (`api/opensky.go`) | token, expiry, pause, mutex | getOpenskyToken, invalidate, openskyGet | tracks and traffic | mutex held over HTTP; late 401s; lifetimes below the margin | a retry is fresh, a pause is kept, everybody ends |
| OpenSky traffic cache (`api/opensky.go`) | map box → list, mutex | cachedTraffic, storeTraffic | fetchAll and the live endpoint | lookup and store are apart; the map may be full | bounded, current, gives up no more than it must |
| DiPUL client (`api/dipul.go`, `dipul_extra.go`) | token, expiry, mutex | getToken, invalidate, FetchAllZoneDetails, withDipulToken | zone lookup, elevation, ED-318 zones | two tenants, one retry after a 401, parallel details | a rejected token stays dead, no token is wasted, no zone is lost unnoticed |
| HTTP rate limiter (`cmd/drohnenwetter/main.go`) | sync.Map of token buckets | getLimiter, Allow, cleanLimiters | every request | the cleaner decides under a mutex and deletes without it | the bucket bounds what is served; addresses are forgotten |
| Assessment and verdict (`assessment/assess.go`, evaluate, apiv1 verdict) | one assessment per request | Assess, evaluate, buildAPIResponse | fetched data | flyable and its reasons are written in many places of three packages | they agree; airspace overrides weather |
| Height limit in control zones (`handler/zoneenrich.go`, `apiv1.go`) | none | FetchGroundElevation, ctrMaxAGL, enrichZones, ctrHeightLimit | elevation and zones | case distinction, minimum, maximum, rounding under a measurement error | never above the permitted height |
| Zone rules (`handler/zonerules.go`) | none | ZoneRule, ctrLocalText | the areas `enrichZones` wrote to | decides on its own what is a control zone with a clearance | rule and limit of one area belong together |
| JSON API (`handler/apiv1.go`, `apiauth.go`) | API keys, request ids | ServeHTTP, APIAuth | fetchAll, verdict | which failure becomes which status; one cooldown for all requests | every request gets one answer, coordinates never depend on the gateway, and a client that heeds the wait it is told finds the cooldown over, or knows how much is left |
| HTML page (`handler/results.go`) | none | ServeHTTP, resolveCoords | fetchAll, evaluate, gateway client | the same as the JSON API, with checks of its own | the same |
| Geocoding, weather, Kp (`api/geocode.go`, `weather.go`) | none | one request each | gateway client | errors | |
| Airport list, cloud base (`api/metar.go`) | list, time, mutex | getAirportList, findAirport, parseCloudBase, parseVisibility | fetchAll | mutex held over a download that may fail; periods and runway visual ranges that look like visibilities | nobody waits without bound, a good list is not fetched again, the worst value is told |
| Track and traffic endpoints (`handler/track.go`, `traffic.go`) | none | FetchTrack, FetchNearbyTraffic | OpenSky token and traffic cache | they share the token's mutex and its pause | what the token and the cache promise holds for both together |
| Zone information on a click (`api/wms.go`, `handler/zoneinfo.go`) | none | FetchZoneInfo, parseWMSPlainText | map server, browser | parallel groups, some of which fail; a parser that toggles at separators | every zone of the groups that answered, once |
| Browser (`src/go/templates/results.html`, `static/sw.js`) | poller timer, popup | start, stop, click | live endpoint, zone information | late answers, several starts | a visible tab polls and a hidden one does not; the popup belongs to its point |
| Zone labels, start-up, nginx | tables, configuration | | | | |

Everything above shares one process and no persistent storage: a restart loses
the caches, the tokens and the limiters and nothing else, so crash recovery is no
topic. Every provider call runs under an `http.Client` timeout.

## 2. Modules

| module | models | state and actions |
|---|---|---|
| `ResultCache` | `cache.go` | `entries`, `sweepAt`, a clock. `Set`, `Sweep` and the read `Hit` are one step each because the code runs each under the mutex. An entry holds a pointer. |
| `FetchAll` (extends `ResultCache`) | `fetchAll` | Per request a phase, its running goroutines, its WaitGroup; `heap[o]` is the struct request `o` allocated. One action per step between two points where others can run: `ServeHit`, `StartTopUp`/`FinishTopUp`, `StartFetch`, `SourceDone`, `Join` (with `enrichZones`), `StoreAndReturn`. |
| `FreshAnswers` | the promise of the pipeline | A request asks, time passes, it is answered with a reading of its position, with the traffic asked for, no older than a bound. No cache, no goroutines. `FetchAll!KeepsPromise` is the refinement. |
| `Gateway` | `gatewayGet`, `doRequestWith`, the cooldown | Check (`Refuse`, `Send`), answer (`Receive`, `Receive429`) and `Record` are separate steps, as they are separated by a request or another goroutine. `owed`, `last429` and `setter` (whose deadline is stored) are history. |
| `ApiRequest` (extends `Gateway`) | `APIAuth`, both `ServeHTTP`, `resolveCoords`, `resolveAddress`, geocoding | Per request a route, what it holds, a stage, its location and its answer. `Reject` and `Accept` are the checks, `Calling` one step of a gateway call (for the location, then for OpenWeather), `ResolveCoords`/`ResolveAddress` what becomes of its outcome, `Lookup` and `Judge` the fetch and the verdict, reduced to what `FetchAll` and `Verdict` say of them. `Hint` is the Retry-After told; when it was told (`toldAt`) is history. |
| `OpenSkyToken` | token and pause | The mutex is a variable; `Authenticate` and its three outcomes are separate because the mutex is held across the request. Tokens are numbered; `lifeEnds` (the server's own view of expiry) and `failedAt` are history. |
| `TrafficCache` | the ten-second cache, as a promise | `Hit`, `Miss`, then `Store` or `Fail` after a request of bounded duration, under separate locks. Which live lists a full map gives up is a choice (`Kept`), as map iteration is. It has no run: `LiveTraffic` implements it, and the proofs are about it. |
| `LiveTraffic` (extends `OpenSkyToken`) | `FetchNearbyTraffic`, `FetchTrack`, the cache around `openskyGet` | `Get` is a step of `OpenSkyToken`; the cache is looked up before and written after. The duration of an `openskyGet` is not assumed: it follows from the timeouts of the requests in it and of the ones it queues behind (`GetMax`). `UsesCacheProperly` is the refinement of `TrafficCache`. |
| `DipulZones` | token, zone lookup, single requests | Two tenants, one retry after a 401, one goroutine per code whose results are taken one at a time (`Take`). A 401 among them makes the lookup wait for the mutex before it takes the next (`DetailUnauthorized`, then `DropForDetail`). `rejected` is history. The time to expiry is an event (`Expire`). |
| `RateLimiter` | limiters and cleaner | `Arrive`, `LoadOrStore`, `Touch`, `Allow` are separate; so are `Inspect` (under the bucket's mutex) and `Delete` (without). `allowance` is what a bucket that is never forgotten would hold. |
| `Verdict` | `Assess`, `evaluate`, verdict and notices of the JSON API | The loop over humidity entries is one action per entry, in any order; the rest is one action per stage. Messages are reduced to what they are about. |
| `CtrHeight` | elevation and height limit | Tenths of a metre. `terrain` is how high the ground really is, within the stated accuracy of what was measured. |
| `ZoneCard` (extends `CtrHeight`) | `ZoneRule`, `ctrLocalText`, an area in the answer | The kinds of legal reference `ZoneRule` tells apart; `Show` computes the rule and the limit of one area, as `buildAPIResponse` does one after the other. |
| `CloudBase` | `metar.go`, `cloud_base` of the JSON API | A call waits for the mutex, downloads or finds the list, picks an airport and reads its page; each airport has a METAR and a TAF of its own. A report is the set of its groups, with those the parsers read and those they do not. `DownloadFails` and `PageFails` are errors and timeouts. |
| `MapPage` | `results.html` (poller, clicks), `zoneinfo.go`, `wms.go` | Timers are numbered as they are started, and only the last one can be cleared. A click is answered from one request per group, each of which is answered, fails or yields a ServiceException; answers arrive in any order. `parseWMSPlainText` works on kinds of lines. |

An `MC` module extends each of them for TLC, except `ResultCache`, `OpenSkyToken`,
`TrafficCache` and `CtrHeight`, which are checked inside the module that extends or
implements them. Constants that stand for durations
and sizes name the value in the code; the ordering between them that matters is
an `ASSUME` of the module. In each module an operator marked *Mutant of ...* is a
plausible bug of the definition below it; substituting it breaks the property it
belongs to, which shows that the property depends on that definition.

## 3. What the runs show

All runs are exhaustive for their bounds. Clocks stop at `MaxTime`, calls end and a
tab may stay hidden, so `CHECK_DEADLOCK FALSE` is set everywhere: the bounded
behaviours end.

| run | bounds | states | result |
|---|---|---|---|
| `fetch_all` | 2 requests, 2 positions, 1 place, 2 sources, TTL 1, sweep every 2, late by 1, 5 ticks | 395 000 | `CapacityBound`, `ResidencyBound`, `CachedIsComplete`, `AnswersAreFresh`, `PublishedNeverWritten`, `KeepsPromise` (refinement of `FreshAnswers`, which includes that traffic is there when asked for) and `EveryRequestAnswered` hold. Two sources are the two that the code treats differently from the others, forecast and traffic. One place makes every second store evict; five ticks let an entry expire, be swept late and be stored again. More requests are covered by the proofs. |
| `api_request` | 2 requests on any route with anything in them, so up to 4 gateway calls, 429s that state no wait and ones that ask for 3, default 1, clamp 2, the constant told to clients 1, 3 ticks | 917 000 | `CoordinatesNeedNoGateway`, `HeedingKeepsOut`, `RefusedOnlyAfter429`, `SilenceCutOnlyBySpread`, `EveryRequestAnswered` hold. Default and clamp are two waits that differ, so a shorter one is stored over a longer one and a client that was refused is told less than what is left. Three ticks let a cooldown be set, cut short, end, and be set again after an answer. |
| `gateway_mixed` | 4 calls, 429s without a wait and with the longest, clamp 3, 7 ticks | – | `BackOffTogether` is violated, see 6. |
| `live_traffic` | 2 calls that come within 2 ticks: two of one box, of two, or one and a track; room for 1 list; lifetimes below and above margin and jitter; every request takes up to a tick; 7 ticks, one more than the longest call | 607 000 | `RetryUsesFreshToken`, `PauseExcludesToken`, `CachedTokenHasLife`, `PausesAfterFailure`, `UsesCacheProperly` (refinement of `TrafficCache`), `EveryLookupEnds` hold. |
| `dipul_zones` | a lookup of up to 2 codes and 2 single requests, 3 tokens, 1 expiry | 589 000 | `DeadTokenStaysDead`, `NoTokenWasted`, `EveryCallEnds` hold. |
| `dipul_zones_loss` | a lookup and a single request | – | `LossIsReported` is violated, see 6. |
| `rate_limiter` | 5 requests of one address, burst 1, cutoff 5, cleaner every 2, delays 1; calls within 6 ticks of 9 | 1 310 000 (symmetry) | `IdleBucketsAreFull`, `AtMostOneExtraBurst`, `AddressesAreForgotten` hold. Five requests empty a bucket that is being forgotten and the one after it, twice; with fewer, the bound of `AtMostOneExtraBurst` is not reached. |
| `verdict` | 2 altitudes; temperatures at each limit of the assessment (-20, -10, 0, 2, 50) and on the sides of it; spreads at both limits (1, 2) and below; winds and Kp on both sides of their limits; each zone code | 12 504 000 | `ReasonsExplain`, `WorstIsWorst`, `AirspaceMatchesZones`, `AirspaceOverridesWeather`, `UnknownIsTold` hold. |
| `zone_card` | aerodrome at 10 m, grounds around each threshold, accuracy 0.5 m and the default, each kind of legal reference | 590 000 | `NeverTooHigh`, `NoNeedlessCaution`, `LimitIsExplained` hold. |
| `cloud_base` | 2 calls, a list with or without their airport that is good for 2 ticks, timeout 2, 7 ticks; METAR and TAF each clear, in fog (a vertical visibility, a runway visual range below the visibility, a sector, a period) or with several layers and visibilities | 307 000 | `WorstIsTold`, `WaitBounded`, `OneDownload`, `EveryCallReturns` hold. Groups that are not to be read have the least values of their report. Seven ticks are one more than the longest wait; the list expires within them. |
| `map_page` | 2 clicks on 2 points, 3 timers, 2 polls in flight, a group of two layers and one of one with up to 2 features each | 222 000 | `PollersBounded`, `EveryReadableZoneOnce`, `VisibleTabRefreshes`, `LoadingEnds` hold. Three timers are the one of the load and two after a hidden phase. |
| `map_click_late` | the same | – | `PopupTellsItsPoint` is violated, see 6. |

### Fairness

Weak fairness of each request's or call's own steps, and nothing else, is assumed
by the liveness properties (`FairSpec`; `FairRequestSpec` in `ApiRequest`,
`FairLiveSpec` in `LiveTraffic`). Every provider call ends because its
`http.Client` has a timeout, so a request that waits for an answer eventually
takes its next step (the answer or an error), and the Go runtime schedules a
runnable goroutine. No fairness is assumed for the choice of an outcome, for the
sweeper or the cleaner, for the clock, or for which waiter gets a mutex; each call
takes a mutex a bounded number of times, so weak fairness is enough.

`MapPage` assumes that a running interval fires while the tab is visible, that the
server answers, and that answers and polls arrive or fail (the proxy and the
browser time out). Nothing is assumed of the user: no click, no hiding, no showing.

### Time

Clocks stop where the code sets a bound: `FetchMax`, `Latency`, `SendMax` and
`Timeout` are client timeouts, and time does not pass while a goroutine that waits
for nothing could run. `GetMax` is derived: an `openskyGet` waits for the
authentications of all others and its own, twice, and for its two requests.
`Lag` and `Delay` bound how late the runtime
wakes a sleeping goroutine or how long a request is between two adjacent
statements. They are assumptions about the machine, not about the code;
`ResidencyBound`, `AddressesAreForgotten`, `IdleBucketsAreFull` and
`AtMostOneExtraBurst` state their bounds in terms of them. `RateLimiter` assumes that
an idle bucket has the time to refill and to earn back what a race gave away
(`IdleCutoff >= 2 * Burst + 3 * Delay`), which in the code is 10 minutes against
two. `LastCall` bounds when calls come, so that the last ones can run to their end
before the clock stops.

The burst bound counts `Burst + Delay`: a request that
still holds the forgotten bucket may wait `Delay` before it takes a token, and the
bucket refills meanwhile. With three requests the extra is never more than `Burst`;
five show that this would not be the bound.

## 4. What is proved

The proofs hold for every value of the constants that satisfies the named
assumptions of the modules: any number of requests, keys, sources, any timing
constants.

* `FetchAll_proofs`: `IInv` says of every struct which request may still write to
  it and in which phase: a WaitGroup's counter is the number of its running
  goroutines, what is cached or answered is finished, and dates of cache entries
  and structs are ordered. `CachedIsComplete` alone is not inductive, because that
  a struct is complete when it is stored depends on the counter. One lemma per
  action. Theorems: `TypeCorrect`, `CachedIsCompleteTheorem`, `FreshnessTheorem`,
  `TrafficTheorem`, `ImmutabilityTheorem`, and `RefinementTheorem` (each step is a
  step of `FreshAnswers` or a stutter).
  Before that, of the cache alone (`CacheSpec`): `CacheInv` is type correctness, the
  capacity bound, and three facts about time: no entry is dated in the future, none
  outlived its expiry at the last sweep, and the clock has not passed the next sweep by
  more than `Lag`. The residency bound alone is not inductive: it says nothing about
  when the next sweep comes. Capacity rests on `SetKeepsCapacity`: at capacity the
  victim is a resident, so removing one and adding at most one does not grow the
  map. Theorems: `CapacityTheorem`, `ResidencyTheorem`, `SetIsVisibleTheorem` (what
  `set` stores is what the next `get` returns) and `OldestTheorem` (a live entry is
  given up only at capacity, and then an oldest one).
* `ApiRequest_proofs`: `Inv` ties the deadline to the call that stored it and to the time
  of the last recorded 429 (`Deadline`), and what is still owed to one of the waits
  counted from that same time (`Asked`), because a 429 that is recorded later stores a
  later deadline or cuts an earlier one. Theorems about the gateway: `LockoutTheorem`,
  `RefusalTheorem`, and `SpreadTheorem`, for any waits in any order: when a call goes
  out, what is owed exceeds what was stored by the difference of two waits at most. (If
  all waits are equal, nothing is cut; run `gateway_mixed` shows what happens otherwise.)
  `RequestsUseGateway` carries all of it over to whole requests. `RequestInv` adds, of
  each request, how far one that has coordinates may have come without a location
  (`Answering`; `CoordinatesNeedNoGateway` alone says nothing about the stages before the
  answer), and that whoever met a 429 was told at least what it stored (`Telling`).
  Theorems: `RequestTypeCorrect`, `CoordinatesTheorem`, and `HeedingTheorem`. They rest on
  `RequestAssumption`: the constant told to clients is no shorter than the default
  cooldown, both 5 s in the code.
* `LiveTraffic_proofs`: of the token, that only the holder of the mutex asks
  for one, and only while there is none and no pause (`Exclusion`), that tokens around
  were issued, so a new one is new to everybody (`Issued`), that what a retry dropped from
  the cache has not come back (`Fresh`), and how expiry and pause are dated (`Times`). The properties themselves say nothing about a
  call between its check and its answer, and are not inductive. `LiveImplementsToken`
  shows that nearby traffic and tracks together take only steps of `OpenSkyToken`.
  Theorems: `TypeCorrect`, `FreshRetryTheorem`, `PauseTheorem`, `LifeTheorem`,
  `BackOffTheorem`, all of `LiveSpec`.
  Then of the cache alone (`Cache!Spec`): `CacheInv` adds to the size bound that a waiting
  request is no older than `FetchMax` and that a stored list therefore expires no later
  than `TTL + FetchMax` after it was asked for; the age of an answer alone is not
  inductive, since a hit answers with what somebody else stored. Theorems: `SizeTheorem`,
  `CurrencyTheorem`, `DropsTheorem` (a live list is given up only by a full map, and one
  at most).
  Last, that the calls of `LiveTraffic` use the cache as `TrafficCache` allows:
  `UsesCacheTheorem`. Its one difficult step is the clock, which `TrafficCache` stops while
  a request has lasted `FetchMax`; so it has to be shown that an `openskyGet` ends in time,
  although it queues behind others that authenticate under the mutex, and may do so
  twice. `GetsInTime` measures what is left of it: the ticks of authentication that any
  call can still cost (`Work`, a set, each element of which is used up once) and its own
  requests. A tick that passes while a call waits for the mutex takes one from `Work`,
  because somebody is authenticating; and nothing adds to it. With the theorems above,
  `LiveSizeTheorem` and `LiveCurrencyTheorem` follow for the composed system.
* `DipulZones_proofs`: the same kind of invariant with two tenants: `Exclusion`,
  `Issued` (tokens around were issued, and the cached one was never rejected),
  `OneRetry`. Theorems: `TypeCorrect`, `DeadTokenTheorem`, `NoWasteTheorem`.
* `Verdict_proofs`: one part of the invariant per stage. `Scanning` is the loop
  invariant of the dew point: the worst altitude so far is the worst of the ones
  seen, in whatever order they come. `Assessed`, `Evaluated` and `Built` say what each
  stage has made of `flyable` and of the warnings. Theorems: `TypeCorrect`,
  `WorstTheorem`, `ReasonsTheorem`, `AirspaceTheorem`, `OverrideTheorem`,
  `UnknownTheorem`, for any number of altitudes, any forecasts and any zones.
* `Page_proofs`, the card of an area: `LimitAgainstRule` compares `ctrMaxAGL` with the rule of NfL
  2026-1-3960 by integer arithmetic; the invariant carries the measurement to the
  answer. `CardInv` adds that a limit is attached only to an area of the general
  clearance, which `ZoneRule` then decides in the same way. Theorems: `TypeCorrect`,
  `NeverTooHighTheorem`, `NoNeedlessCautionTheorem`, for the card too
  (`CardNeverTooHigh`, `CardNoNeedlessCaution`, by `CardImplementsLimit`), and
  `LimitIsExplainedTheorem`.
  Then the map (`PageSpec`): `PageInv` says which intervals run (`Pollers`) and that each
  answer is what `FetchZoneInfo` makes of some outcome of its groups (`Answers`). The bound
  on the pollers is not inductive: it does not say that the interval the page would clear
  is one that runs, nor that the one started in a hidden tab is not the latest once the
  tab was shown. That an answer holds every zone once is a fact about the text of any number of
  features, and is proved without an induction theorem: `OneByOne` takes the least element
  of the set of features that a statement fails for. `TextsExist` shows in that way that
  the recursive function `Texts` exists, `TextHasEnds` where each feature's block ends in
  the text, `CountSeparators` that there are an even number of separators before each
  block, so `parseWMSPlainText` closes exactly those blocks (`ClosesAtEnds`), with the
  values and the layer of their feature (`PropsOfBlock`, `LayerOfBlock`). `ParserCounts` then
  counts them, and `AnswerCounts` joins the groups: ids of different groups differ because
  no layer is in two of them (`MapAssumption`, from `zoneInfoLayerGroups`). Theorems:
  `PageTypeCorrect`, `PollersTheorem`, `ZonesTheorem`.
* `RateLimiter_proofs`: `Debts` keeps account of the current bucket of an address and of
  the one forgotten while requests still held it: what the address may still be served
  is no less than what both have together, less one burst, less what the old bucket
  has refilled since its holders came. The bound itself is not inductive, since it does
  not say what the old bucket can still serve. `Earned` says that the debt is paid back in
  the time the address is not seen. It is needed for the cleaner: when it finds an
  address idle, nothing is owed, so dropping its bucket starts no second debt (this is
  what the assumption `IdleCutoff >= 2 * Burst + 3 * Delay` is for). `Visited` ties
  `lastSeen` to the cleaner's rounds, and gives the bound on how long an address is kept.
  Theorems: `TypeCorrect`, `DebtTheorem`, `ForgottenTheorem`, `IdleTheorem`.
* `CloudBase_proofs`: a caller in the queue has waited for at most one timeout per call
  that has left it (`QueueInv`, over the set `Past`), plus the time of the download that
  runs. A call leaves the queue once, so `Past` cannot outgrow the callers: that is
  `WaitTheorem`. `WorstTheorem` says what reaches the client of an airport's
  METAR and TAF: each value told is that of a group the parser is to read, none of those
  is lower, and a report with a ceiling is not called unavailable; `MinIsLeast` gets the minimum of any set of numbers, however
  large, from the well-foundedness of the naturals. `OneDownloadTheorem`: nobody downloads
  a list that has become good while he waited for the mutex. Theorem also: `TypeCorrect`.

Every invariant, action property and refinement that a passing run checks is stated by one
of these theorems. Only model-checked is liveness:
`EveryRequestAnswered`, `EveryCallEnds`, `EveryLookupEnds`, `EveryCallReturns`,
`VisibleTabRefreshes`, `LoadingEnds`. It rests on fairness, hence on `ENABLED`, which is out
of the prover's reach.

## 5. What is abstracted and what is not modelled

Payloads (what a provider returned) are outcomes; a list of aircraft is the time
it was asked for; coordinates are keys. Temperatures, speeds and the Kp index are
whole numbers, and a humidity entry is the spread it yields, so `dewPoint` and
`round2` are not modelled. Matching an area to its ED-318 zone by id and then by
name is reduced to its outcome. Logging and wording are left out.

In `ApiRequest` what a request holds is one of the cases the two handlers tell
apart (`Query`); one coordinate together with an address is not among them.
A server without `GATEWAY_BASE_URL` is not modelled: all its gateway calls fail.

In `CloudBase` a report has no visibility in words (`CAVOK`), and the run has one
airport. In `Verdict` snow is left out, which only
changes a notice, and in `MapPage` the order of zones in the popup and the limit of 50
features that a request for a group sets (`api/wms.go:140`).

Not modelled: request ids, features and the request log of the API (no
state another request reads), the rendering of the page, weather and Kp clients
(one stateless request each), zone labels (tables of texts), the matching of the
address entered in the browser, trails and overlays on the map, the service worker,
start-up and nginx. The write timeout of the server is not modelled either: a
request that takes longer than 30 s is computed to its end, and its answer is lost.

## 6. Where code and documentation differ

Shown by a run:

* `gateway_mixed`: `setGatewayCooldown` stores the latest deadline, not the
  furthest (`api/client.go:128`). A long Retry-After followed by a short one of a
  call that was in flight ends the pause early, unlike the comment at
  `client.go:73-75`. `SilenceCutOnlyBySpread` bounds by how much.
* `dipul_zones_loss`: `FetchAllZoneDetails` skips a zone whose detail failed and
  reports no error (`api/dipul.go:225-235`), so `sources.dipul` is `ok` where
  `src/docs/api-v1.md:120-121` says failures are listed there.
* `map_click_late`: the popup shows whichever answer came last, at the point of the
  last click (`templates/results.html:1165-1186`), under the words "zone(s) at this
  point" (`:1136`). A slow answer for the first click replaces the zones of the second.

Met while reading and modelling, without a run of their own:

* `cleanLimiters` decides under the mutex and deletes after it
  (`cmd/drohnenwetter/main.go:52-57`). A returning address may get a second
  bucket, unlike `src/README.en.md:26`. `AtMostOneExtraBurst` bounds the damage.
* A call refused in the cooldown carries no remaining time, so the JSON API
  answers `Retry-After: 5` though up to 120 s may remain (`api/client.go:149`,
  `handler/apiv1.go:278`; `src/docs/api-v1.md:138` asks clients to heed it).
  `HeedingKeepsOut` bounds what is left for such a client, and shows that one that met the
  429 itself comes back too early only if another call stored a deadline after it.
* A token answer without a token starts no pause (`api/opensky.go:94`), unlike the
  comment at `opensky.go:67`.
* Concurrent misses of one box each ask OpenSky (`api/opensky.go:327`), unlike the
  comment at `opensky.go:318-319`.
* With DiPUL unreachable `flyable` may be true with airspace `unknown`
  (`handler/results.go:190`); `src/docs/api-v1.md:103` calls it weather and airspace.
* An empty forecast gives `flyable` = false without a reason
  (`assessment/assess.go:76`, `src/docs/api-v1.md:106`); a Kp index that could
  not be fetched counts as calm.
* A result fetched without a city is cached and served to requests with one: no cloud
  base for the rest of the TTL (`handler/results.go:127`).
* A TAF with a visibility and no ceiling is not told to API clients
  (`handler/apiv1.go:495-497`, `src/docs/api-v1.md:110`), and a METAR that says CAVOK
  and nothing else is "not available" (`api/metar.go:229-234`).
* A vertical visibility (`VV001`), the ceiling of an obscured sky, is not told, nor is the
  visibility in a sector (`1500SW`), while a runway visual range (`R07/0600`) is told as a
  visibility (`api/metar.go:54`, `:60`); `src/docs/api-v1.md:110` promises the worst value
  of cloud base and visibility. `WorstIsTold` is about the groups the parsers read.
* A list without airports is kept for four hours like any other (`api/metar.go:109`).
* A page opened in a background tab starts a timer that nothing can clear
  (`templates/results.html:1018`): from then on it polls twice. `PollersBounded` says
  it is no more than that.
* If a group of layers fails, or answers with a ServiceException, its zones are missing
  from the popup without a word, which may then read "No restricted zones at this
  point" (`api/wms.go:107-116`, `templates/results.html:1176`).
* The text of the limit says ±3 m whatever the accuracy was
  (`handler/zonerules.go:169`), and an area without a rule loses a legal basis that is
  only linked in English (`handler/apiv1.go:520`).

## 7. Plan

Done in this order, the part every answer passes through first: `ResultCache`,
`FreshAnswers`, `FetchAll` with their proofs; `Gateway`, `OpenSkyToken`,
`TrafficCache`, `DipulZones`, `RateLimiter` (shared state under concurrency);
`Verdict`, `CtrHeight` (what the pilot reads); `ApiRequest` (both handlers over
the gateway) with the wait its clients are told; `LiveTraffic` (token and cache
composed); `ZoneCard`, `CloudBase`, `MapPage`; and proofs of all of them.

Left:

1. Composition of `DipulZones` with `Verdict`: a lost zone and a flyable verdict
   in one behaviour.
2. An abstract limiter that `RateLimiter` implements up to one burst.
3. The write timeout of the server against the waits that `WaitTheorem` and
   `UsesCacheTheorem` bound.
