---------------------------- MODULE TrafficCache ----------------------------
(***************************************************************************)
(* Live traffic around a position (opensky.go): FetchNearbyTraffic called  *)
(* by many requests over the ten-second cache of cachedTraffic and         *)
(* storeTraffic.  The lookup and the store each run under the mutex; the   *)
(* request to OpenSky between them does not.  That request is a single     *)
(* state here; LiveTraffic has its steps, and implements this module.      *)
(*                                                                         *)
(* A list of aircraft is abstracted to the time it was asked for.          *)
(***************************************************************************)
EXTENDS Integers, FiniteSets

CONSTANTS
    Box,         \* bounding boxes, the cache's keys
    Call,        \* the calls of one behaviour
    Nothing,     \* no entry, no answer
    CacheMax,    \* trafficCacheMax (256)
    TTL,         \* trafficCacheTTL (10 s)
    FetchMax,    \* bound of one openskyGet
    MaxTime      \* bound of the clock

Entry == [asked : Nat, expires : Nat]

\* What the theorems assume of the constants.
TrafficAssumption ==
    /\ IsFiniteSet(Box)
    /\ CacheMax \in Nat \ {0}
    /\ TTL \in Nat /\ FetchMax \in Nat /\ MaxTime \in Nat
    /\ Nothing \notin Entry \cup Nat

VARIABLES
    now,
    m,       \* trafficCache.m
    state,   \* where each call is
    box,     \* the box it asks about
    sentAt,  \* when it asked OpenSky
    answer   \* when the list it returned was asked for

vars == <<now, m, state, box, sentAt, answer>>

TypeOK ==
    /\ now \in Nat
    /\ m \in [Box -> Entry \cup {Nothing}]
    /\ state \in [Call -> {"idle", "asking", "returned", "failed"}]
    /\ box \in [Call -> Box]
    /\ sentAt \in [Call -> Nat]
    /\ answer \in [Call -> Nat \cup {Nothing}]

Init ==
    /\ now = 0
    /\ m = [b \in Box |-> Nothing]
    /\ state = [c \in Call |-> "idle"]
    /\ box \in [Call -> Box]
    /\ sentAt = [c \in Call |-> 0]
    /\ answer = [c \in Call |-> Nothing]

----------------------------------------------------------------------------
Stored == {b \in Box : m[b] # Nothing}

\* time.Now().After(expires): an entry is still good at its expiry.
Live == {b \in Stored : now <= m[b].expires}

Return(c, asked) ==
    /\ state' = [state EXCEPT ![c] = "returned"]
    /\ answer' = [answer EXCEPT ![c] = asked]

\* cachedTraffic finds a live list.
Hit(c) ==
    /\ state[c] = "idle"
    /\ box[c] \in Live
    /\ Return(c, m[box[c]].asked)
    /\ UNCHANGED <<now, m, box, sentAt>>

\* cachedTraffic finds none, dropping an expired one, and the call asks OpenSky.
Miss(c) ==
    /\ state[c] = "idle"
    /\ box[c] \notin Live
    /\ m' = [m EXCEPT ![box[c]] = Nothing]
    /\ state' = [state EXCEPT ![c] = "asking"]
    /\ sentAt' = [sentAt EXCEPT ![c] = now]
    /\ UNCHANGED <<now, box, answer>>

\* openskyGet fails, or its answer cannot be parsed.
Fail(c) ==
    /\ state[c] = "asking"
    /\ state' = [state EXCEPT ![c] = "failed"]
    /\ UNCHANGED <<now, m, box, sentAt, answer>>

\* What storeTraffic leaves in a full map: the live entries, and of those as many
\* (which ones is the map's choice) as leave room for one more.
Kept == IF Cardinality(Stored) < CacheMax THEN {Stored}
        ELSE {K \in SUBSET Live : IF Cardinality(Live) < CacheMax THEN K = Live
                                  ELSE Cardinality(K) = CacheMax - 1}

\* openskyGet succeeds; storeTraffic dates the list from now, not from sentAt.
Store(c) ==
    /\ state[c] = "asking"
    /\ \E K \in Kept :
         m' = [b \in Box |->
                 IF b = box[c] THEN [asked |-> sentAt[c], expires |-> now + TTL]
                 ELSE IF b \in K THEN m[b] ELSE Nothing]
    /\ Return(c, sentAt[c])
    /\ UNCHANGED <<now, box, sentAt>>

\* The clock does not pass a request that has timed out.
Tick ==
    /\ now < MaxTime
    /\ \A c \in Call : state[c] = "asking" => now < sentAt[c] + FetchMax
    /\ now' = now + 1
    /\ UNCHANGED <<m, state, box, sentAt, answer>>

Next == Tick \/ \E c \in Call : Hit(c) \/ Miss(c) \/ Fail(c) \/ Store(c)

Spec == Init /\ [][Next]_vars

----------------------------------------------------------------------------
\* The map never outgrows trafficCacheMax, with any number of positions on screen.
MapBounded == Cardinality(Stored) <= CacheMax

\* No visitor is shown aircraft where they were longer ago than the TTL and one
\* request: the TTL starts when the answer is stored, whoever asked for it.
AnswersAreCurrent ==
    [][\A c \in Call : answer'[c] # answer[c] => now - answer'[c] <= TTL + FetchMax]_vars

\* A live list is given up only to a full map, and then no more than one is.
DropsNoMoreThanNeeded ==
    [][/\ (Live \ Stored' # {} => Cardinality(Stored) >= CacheMax)
       /\ Cardinality(Live \ Stored') <= 1]_vars
=============================================================================
