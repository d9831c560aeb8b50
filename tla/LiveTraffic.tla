---------------------------- MODULE LiveTraffic ----------------------------
(***************************************************************************)
(* Both functions of opensky.go that the handlers call: FetchNearbyTraffic *)
(* and FetchTrack.  Their requests go through openskyGet (OpenSkyToken),   *)
(* so they share the token, its pause and its mutex; nearby traffic looks  *)
(* into the ten-second cache before, and stores its list after.            *)
(*                                                                         *)
(* TrafficCache takes the duration of one openskyGet as given.  Here it    *)
(* follows from the timeouts of the requests in it: the wait for a mutex   *)
(* that others hold while they authenticate, twice; and its own requests.  *)
(***************************************************************************)
EXTENDS OpenSkyToken

CONSTANTS
    Box,       \* bounding boxes, the cache's keys
    Nothing,   \* no entry, no answer; the "box" of a track
    CacheMax,  \* trafficCacheMax (256)
    TTL,       \* trafficCacheTTL (10 s)
    SendMax,   \* openskyTimeout (5 s)
    Wants,     \* which call may ask about what
    LastCall   \* bound of the time when calls come

ASSUME LiveAssumption ==
    /\ IsFiniteSet(Box) /\ Box # {} /\ IsFiniteSet(Thread)
    /\ CacheMax \in Nat \ {0} /\ TTL \in Nat /\ SendMax \in Nat /\ LastCall \in Nat
    /\ Wants \subseteq [Thread -> Box \cup {Nothing}]
    /\ Nothing \notin [asked : Nat, expires : Nat] \cup Nat \cup Box

VARIABLES
    m,       \* trafficCache.m
    state,   \* where each call is, openskyGet being one place
    box,     \* the box it asks about, Nothing for a track
    sentAt,  \* when it called openskyGet
    sendAt,  \* when its present request to OpenSky went out, 0 if there is none
    body,    \* openskyGet returned something that can be parsed
    answer   \* when the list it returned was asked for

listVars == <<m, state, box, sentAt, answer>>
getVars == <<sendAt, body>>
allVars == <<vars, listVars, getVars>>

Tracks == {t \in Thread : box[t] = Nothing}

LiveTypeOK ==
    /\ TypeOK
    /\ m \in [Box -> [asked : Nat, expires : Nat] \cup {Nothing}]
    /\ state \in [Thread -> {"idle", "asking", "returned", "failed"}]
    /\ box \in [Thread -> Box \cup {Nothing}]
    /\ sentAt \in [Thread -> Nat] /\ sendAt \in [Thread -> Nat]
    /\ body \in [Thread -> BOOLEAN]
    /\ answer \in [Thread -> Nat \cup {Nothing}]

LiveInit ==
    /\ Init
    /\ m = [b \in Box |-> Nothing]
    /\ state = [t \in Thread |-> "idle"]
    /\ box \in Wants
    /\ sentAt = [t \in Thread |-> 0] /\ sendAt = [t \in Thread |-> 0]
    /\ body = [t \in Thread |-> FALSE]
    /\ answer = [t \in Thread |-> Nothing]

----------------------------------------------------------------------------
\* The longest an openskyGet takes: every call authenticates at most twice, one at a
\* time, and it sends at most two requests of its own.
GetMax == 2 * Cardinality(Thread) * Latency + 2 * SendMax

\* What the cache sees of a call: to it a track is one that never comes.
CacheState == [t \in Thread |-> IF t \in Tracks THEN "idle" ELSE state[t]]
CacheSentAt == [t \in Thread |-> IF t \in Tracks THEN 0 ELSE sentAt[t]]
CacheBox == [t \in Thread |-> IF t \in Tracks THEN CHOOSE b \in Box : TRUE ELSE box[t]]

\* The cache as it is specified on its own.
Cache == INSTANCE TrafficCache WITH
    Call <- Thread, FetchMax <- GetMax,
    state <- CacheState, sentAt <- CacheSentAt, box <- CacheBox

Stored == {b \in Box : m[b] # Nothing}

\* time.Now().After(expires): an entry is still good at its expiry.
Live == {b \in Stored : now <= m[b].expires}

End(t, how) == state' = [state EXCEPT ![t] = how]

\* cachedTraffic finds a live list.
Hit(t) ==
    /\ state[t] = "idle" /\ now <= LastCall /\ box[t] \in Live
    /\ End(t, "returned")
    /\ answer' = [answer EXCEPT ![t] = m[box[t]].asked]
    /\ UNCHANGED <<vars, m, box, sentAt, getVars>>

\* It finds none, dropping an expired one; a track does not look.
Miss(t) ==
    /\ state[t] = "idle" /\ now <= LastCall /\ box[t] \notin Live
    /\ m' = IF t \in Tracks THEN m ELSE [m EXCEPT ![box[t]] = Nothing]
    /\ state' = [state EXCEPT ![t] = "asking"]
    /\ sentAt' = [sentAt EXCEPT ![t] = now]
    /\ UNCHANGED <<vars, box, answer, getVars>>

\* A step of openskyGet.  Only a request that is answered yields a body, and that may
\* be an error or no JSON.
Get(t) ==
    /\ state[t] = "asking"
    /\ CallStep(t)
    /\ sendAt' = [sendAt EXCEPT ![t] = IF pc'[t] = "send" THEN now ELSE 0]
    /\ IF Served(t) THEN \E ok \in BOOLEAN : body' = [body EXCEPT ![t] = ok]
       ELSE UNCHANGED body
    /\ UNCHANGED listVars

\* openskyGet has returned.
Fail(t) ==
    /\ state[t] = "asking" /\ pc[t] = "done" /\ ~body[t]
    /\ End(t, "failed")
    /\ UNCHANGED <<vars, m, box, sentAt, answer, getVars>>

ReturnTrack(t) ==
    /\ state[t] = "asking" /\ pc[t] = "done" /\ body[t] /\ t \in Tracks
    /\ End(t, "returned")
    /\ UNCHANGED <<vars, m, box, sentAt, answer, getVars>>

\* What storeTraffic leaves in a full map: the live entries, and of those as many
\* (which ones is the map's choice) as leave room for one more.
Kept == IF Cardinality(Stored) < CacheMax THEN {Stored}
        ELSE {K \in SUBSET Live : IF Cardinality(Live) < CacheMax THEN K = Live
                                  ELSE Cardinality(K) = CacheMax - 1}

\* storeTraffic dates the list from now, not from when it was asked for.
Store(t) ==
    /\ state[t] = "asking" /\ pc[t] = "done" /\ body[t] /\ t \notin Tracks
    /\ \E K \in Kept :
         m' = [b \in Box |->
                 IF b = box[t] THEN [asked |-> sentAt[t], expires |-> now + TTL]
                 ELSE IF b \in K THEN m[b] ELSE Nothing]
    /\ End(t, "returned")
    /\ answer' = [answer EXCEPT ![t] = sentAt[t]]
    /\ UNCHANGED <<vars, box, sentAt, getVars>>

\* Time passes only while every call that runs waits: for an answer, or for the mutex
\* held during one.  No request outlasts its timeout.
Waiting(t) ==
    \/ state[t] # "asking"
    \/ pc[t] = "auth"
    \/ pc[t] = "send" /\ now < sendAt[t] + SendMax
    \/ pc[t] \in {"start", "unauthorized"} /\ mu # Nobody

LiveTick ==
    /\ \A t \in Thread : Waiting(t)
    /\ Tick
    /\ UNCHANGED <<listVars, getVars>>

LiveStep(t) == Get(t) \/ Fail(t) \/ ReturnTrack(t) \/ Store(t)

LiveNext == LiveTick \/ \E t \in Thread : Hit(t) \/ Miss(t) \/ LiveStep(t)

LiveSpec == LiveInit /\ [][LiveNext]_allVars

\* http.Client timeouts end every request, so whoever holds the lock lets go of it;
\* a call that can take a step takes one.
FairLiveSpec ==
    /\ LiveSpec
    /\ \A t \in Thread : WF_allVars(LiveStep(t))

----------------------------------------------------------------------------
\* Whatever the calls do with the token, the traffic cache sees calls as it expects them
\* (TrafficCache), none of them longer than GetMax.  So all that is proved of it holds
\* here: its size is bounded, it gives up no more than it must, and no list shown is older
\* than TTL + GetMax.
UsesCacheProperly == Cache!Spec

\* Every call ends: the mutex held across HTTP starves nobody for ever.
EveryLookupEnds == \A t \in Thread : state[t] = "asking" ~> state[t] \in {"returned", "failed"}
=============================================================================
