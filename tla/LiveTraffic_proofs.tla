------------------------- MODULE LiveTraffic_proofs -------------------------
(***************************************************************************)
(* Proofs about the OpenSky token and the traffic cache, for any number of *)
(* calls, lifetimes, jitters and timeouts.  Of the token: retries are      *)
(* fresh, a pause and a usable token exclude each other, cached tokens     *)
(* have life left, and the pause is kept; first over its own               *)
(* specification, which the calls of LiveTraffic implement.  Of the cache: *)
(* it is bounded, current and gives up no more than it must; first over    *)
(* its own specification, which those calls implement too, because an      *)
(* openskyGet ends within GetMax, whatever it queues behind.               *)
(***************************************************************************)
EXTENDS LiveTraffic, FiniteSetTheorems, TLAPS

\* Whoever is in getOpenskyToken has the mutex; whoever authenticates found neither a
\* token nor a pause, has been at it for no longer than its timeout, and both are still
\* so, for only the holder of the mutex could have changed it.
Exclusion ==
    \A t \in Thread :
        /\ pc[t] \in {"locked", "auth"} => mu = t
        /\ pc[t] = "auth" => /\ ~Cached /\ ~Resting
                             /\ authAt[t] <= now /\ now <= authAt[t] + Latency

\* Tokens around were issued, so a new one differs from all that were rejected.
Issued ==
    /\ token <= issued
    /\ \A t \in Thread : tok[t] <= issued /\ rejected[t] <= issued

\* A call that was sent back has dropped the rejected token from the cache, and it has
\* not come back.
Fresh ==
    \A t \in Thread :
        /\ pc[t] = "unauthorized" => tries[t] = 0
        /\ tries[t] = 1 /\ rejected[t] # 0 =>
               token # rejected[t] /\ (pc[t] = "send" => tok[t] # rejected[t])

\* What the expiry in the cache leaves of the server's, and what the pause measures from.
Times ==
    /\ token # 0 => lifeEnds >= expires + Margin - Latency
    /\ failedAt # -1 => retryAfter = failedAt + Backoff

Inv == TypeOK /\ Exclusion /\ Issued /\ Fresh /\ PauseExcludesToken /\ Times

LEMMA InvInit == Init => Inv
<1> SUFFICES ASSUME Init PROVE Inv
  OBVIOUS
<1>1. 0 \in Token
  BY TokenAssumption DEF Token, TokenAssumption
<1>2. TypeOK
  <2>1. /\ pc \in [Thread -> PC] /\ tok \in [Thread -> Token] /\ tries \in [Thread -> 0..1]
        /\ rejected \in [Thread -> Token] /\ authAt \in [Thread -> Nat]
    BY <1>1 DEF Init, PC
  <2> QED BY <1>1, <2>1 DEF Init, TypeOK
<1>3. Exclusion /\ Issued /\ Fresh /\ PauseExcludesToken /\ Times
  BY DEF Init, Exclusion, Issued, Fresh, PauseExcludesToken, Times, Resting, Cached
<1> QED BY <1>2, <1>3 DEF Inv

----------------------------------------------------------------------------
\* Type correctness of each step.
LEMMA TypeStep ==
    ASSUME Inv, [Next]_vars
    PROVE  TypeOK'
<1> USE DEF Inv, TypeOK, Goto, cacheVars, ghostVars, callVars
<1>0. 0 \in Token /\ now \in Nat
  BY TokenAssumption DEF Token, TokenAssumption
<1>1. CASE Tick BY <1>1 DEF Tick
<1>2. ASSUME NEW t \in Thread, Lock(t) PROVE TypeOK' BY <1>2 DEF Lock, PC
<1>3. ASSUME NEW t \in Thread, UseCached(t) PROVE TypeOK'
  BY <1>3 DEF UseCached, ReturnToken, PC
<1>4. ASSUME NEW t \in Thread, GoAnonymous(t) PROVE TypeOK'
  BY <1>0, <1>4 DEF GoAnonymous, ReturnToken, PC
<1>5. ASSUME NEW t \in Thread, Authenticate(t) PROVE TypeOK' BY <1>5 DEF Authenticate, PC
<1>6. ASSUME NEW t \in Thread, AuthFails(t) PROVE TypeOK'
  BY <1>0, <1>6, TokenAssumption DEF AuthFails, ReturnToken, PC, TokenAssumption
<1>7. ASSUME NEW t \in Thread, AuthIsGarbage(t) PROVE TypeOK'
  BY <1>0, <1>7 DEF AuthIsGarbage, Return, PC
<1>8. ASSUME NEW t \in Thread, AuthGrants(t) PROVE TypeOK'
  <2>1. issued + 1 \in Token
    BY <1>8, TokenAssumption DEF AuthGrants, Token, TokenAssumption
  <2>2. token' \in Token /\ expires' \in Nat /\ lifeEnds' \in Nat
    BY <1>0, <1>8, <2>1, TokenAssumption DEF AuthGrants, TokenAssumption
  <2> QED BY <1>8, <2>1, <2>2 DEF AuthGrants, ReturnToken, PC
<1>9. ASSUME NEW t \in Thread, Served(t) PROVE TypeOK'
  BY <1>0, <1>9 DEF Served, Return, PC
<1>10. ASSUME NEW t \in Thread, Unauthorized(t) PROVE TypeOK'
  BY <1>0, <1>10 DEF Unauthorized, Return, PC
<1>11. ASSUME NEW t \in Thread, Invalidate(t) PROVE TypeOK'
  BY <1>0, <1>11 DEF Invalidate, Fresh, PC
<1>12. CASE UNCHANGED vars BY <1>12 DEF vars
<1> QED
  BY <1>1, <1>2, <1>3, <1>4, <1>5, <1>6, <1>7, <1>8, <1>9, <1>10, <1>11, <1>12 DEF Next, CallStep

\* The steps that leave the cache, the pause and their ghosts alone, and give nobody the
\* mutex who is not in getOpenskyToken.
LEMMA InvQuiet ==
    ASSUME Inv, NEW t \in Thread,
           \/ Lock(t) \/ UseCached(t) \/ GoAnonymous(t) \/ Authenticate(t)
           \/ AuthIsGarbage(t) \/ Served(t) \/ Unauthorized(t)
    PROVE  Exclusion' /\ Issued' /\ Fresh' /\ PauseExcludesToken' /\ Times'
<1> USE DEF Inv, TypeOK, Goto, cacheVars, ghostVars
<1>1. UNCHANGED <<now, creds, cacheVars, ghostVars>>
  BY DEF Lock, UseCached, GoAnonymous, Authenticate, AuthIsGarbage, Served, Unauthorized
<1>2. Cached' = Cached /\ Resting' = Resting
  BY <1>1 DEF Cached, Resting
<1>3. PauseExcludesToken' /\ Times'
  BY <1>1, <1>2 DEF PauseExcludesToken, Times
<1>4. Exclusion'
  <2>1. CASE Lock(t)
    BY <1>1, <1>2, <2>1, TokenAssumption DEF Lock, Exclusion, TokenAssumption
  <2>2. CASE UseCached(t) \/ GoAnonymous(t)
    BY <1>1, <1>2, <2>2 DEF UseCached, GoAnonymous, ReturnToken, Exclusion
  <2>3. CASE Authenticate(t)
    BY <1>1, <1>2, <2>3, TokenAssumption DEF Authenticate, Exclusion, TokenAssumption
  <2>4. CASE AuthIsGarbage(t)
    BY <1>1, <1>2, <2>4 DEF AuthIsGarbage, Return, Exclusion
  <2>5. CASE Served(t) \/ Unauthorized(t)
    BY <1>1, <1>2, <2>5 DEF Served, Unauthorized, Return, Exclusion
  <2> QED BY <2>1, <2>2, <2>3, <2>4, <2>5
<1>5. Issued'
  BY <1>1, TokenAssumption
     DEF Lock, UseCached, GoAnonymous, Authenticate, AuthIsGarbage, Served, Unauthorized,
         ReturnToken, Return, Issued, Token, TokenAssumption
<1>6. Fresh'
  <2>1. CASE Lock(t) \/ Authenticate(t)
    BY <1>1, <2>1 DEF Lock, Authenticate, Fresh
  <2>2. CASE UseCached(t) \/ GoAnonymous(t)
    BY <1>1, <2>2 DEF UseCached, GoAnonymous, ReturnToken, Fresh
  <2>3. CASE AuthIsGarbage(t) \/ Served(t)
    BY <1>1, <2>3 DEF AuthIsGarbage, Served, Return, Fresh
  <2>4. CASE Unauthorized(t)
    BY <1>1, <2>4 DEF Unauthorized, Return, Fresh
  <2> QED BY <2>1, <2>2, <2>3, <2>4
<1> QED BY <1>3, <1>4, <1>5, <1>6

\* A failed authentication: the pause starts, and no token is usable.
LEMMA InvAuthFails ==
    ASSUME Inv, NEW t \in Thread, AuthFails(t)
    PROVE  Exclusion' /\ Issued' /\ Fresh' /\ PauseExcludesToken' /\ Times'
<1> USE DEF Inv, TypeOK, Goto, AuthFails, ReturnToken
<1>1. pc[t] = "auth" /\ mu = t /\ ~Cached
  BY DEF Exclusion
<1>2. Cached' = Cached
  BY DEF Cached
<1>3. Exclusion'
  BY <1>1 DEF Exclusion
<1>4. Issued'
  BY TokenAssumption DEF Issued, Token, TokenAssumption
<1>5. Fresh' /\ Times' /\ PauseExcludesToken'
  BY <1>1, <1>2 DEF Fresh, Times, PauseExcludesToken
<1> QED BY <1>3, <1>4, <1>5

\* A new token: nobody has seen its number, there is no pause, and its life is measured
\* from before it was asked for.
LEMMA InvAuthGrants ==
    ASSUME Inv, NEW t \in Thread, AuthGrants(t)
    PROVE  Exclusion' /\ Issued' /\ Fresh' /\ PauseExcludesToken' /\ Times'
<1> USE DEF Inv, TypeOK, Goto
<1>1. /\ mu = t /\ ~Resting /\ authAt[t] <= now /\ now <= authAt[t] + Latency
      /\ issued \in Nat /\ issued' = issued + 1
  BY TokenAssumption DEF Exclusion, AuthGrants, Token, TokenAssumption
<1>2. token' \in {token, issued + 1}
  BY DEF AuthGrants
<1>3. Exclusion'
  BY <1>1 DEF AuthGrants, ReturnToken, Exclusion
<1>4. Issued'
  BY <1>1, <1>2 DEF AuthGrants, ReturnToken, Issued, Token
<1>5. Fresh'
  <2>1. \A s \in Thread : rejected[s] # issued + 1
    BY <1>1 DEF Issued, Token
  <2> QED BY <1>2, <2>1 DEF AuthGrants, ReturnToken, Fresh
<1>6. PauseExcludesToken'
  BY <1>1 DEF AuthGrants, PauseExcludesToken, Resting
<1>7. Times'
  <2>1. PICK life \in Lifetimes, j \in Jitters :
           LET ttl == life - Margin - j
           IN  IF ttl <= 0 THEN UNCHANGED <<token, expires, lifeEnds>>
               ELSE /\ token' = issued + 1 /\ expires' = now + ttl
                    /\ lifeEnds' = authAt[t] + life
    BY DEF AuthGrants
  <2>2. life \in Nat /\ j \in Nat /\ Margin \in Nat /\ Latency \in Nat
    BY TokenAssumption DEF TokenAssumption
  <2>3. token' # 0 => lifeEnds' >= expires' + Margin - Latency
    BY <1>1, <2>1, <2>2 DEF Times
  <2> QED BY <2>3 DEF AuthGrants, Times
<1> QED BY <1>3, <1>4, <1>5, <1>6, <1>7

LEMMA InvInvalidate ==
    ASSUME Inv, NEW t \in Thread, Invalidate(t)
    PROVE  Exclusion' /\ Issued' /\ Fresh' /\ PauseExcludesToken' /\ Times'
<1> USE DEF Inv, TypeOK, Goto, Invalidate
<1>1. ~Cached' /\ Resting' = Resting
  BY DEF Cached, Resting
<1>2. Exclusion'
  BY <1>1 DEF Exclusion
<1>3. Issued'
  BY TokenAssumption DEF Issued, Token, TokenAssumption
<1>4. Fresh'
  BY DEF Fresh
<1>5. PauseExcludesToken' /\ Times'
  BY <1>1 DEF PauseExcludesToken, Times
<1> QED BY <1>2, <1>3, <1>4, <1>5

\* Time only ends pauses and tokens, and waits for a request that is due.
LEMMA InvTick ==
    ASSUME Inv, Tick
    PROVE  Exclusion' /\ Issued' /\ Fresh' /\ PauseExcludesToken' /\ Times'
<1> USE DEF Inv, TypeOK, Tick, cacheVars, callVars, ghostVars
<1>1. (Cached' => Cached) /\ (Resting' => Resting)
  BY DEF Cached, Resting
<1>2. Exclusion'
  BY <1>1, TokenAssumption DEF Exclusion, TokenAssumption
<1>3. Issued' /\ Fresh' /\ Times'
  BY DEF Issued, Fresh, Times
<1> QED BY <1>1, <1>2, <1>3 DEF PauseExcludesToken

LEMMA InvNext == Inv /\ [Next]_vars => Inv'
<1> SUFFICES ASSUME Inv, [Next]_vars PROVE Inv'
  OBVIOUS
<1>1. CASE Tick BY <1>1, InvTick, TypeStep DEF Inv
<1>2. ASSUME NEW t \in Thread, CallStep(t) PROVE Inv'
  BY <1>2, InvQuiet, InvAuthFails, InvAuthGrants, InvInvalidate, TypeStep DEF CallStep, Inv
<1>3. CASE UNCHANGED vars
  <2>1. Cached' = Cached /\ Resting' = Resting
    BY <1>3 DEF vars, cacheVars, Cached, Resting
  <2> QED BY <1>3, <2>1, TypeStep
          DEF vars, cacheVars, callVars, ghostVars, Inv, Exclusion, Issued, Fresh,
              PauseExcludesToken, Times
<1> QED BY <1>1, <1>2, <1>3 DEF Next

\* The inductive invariant of the OpenSky token: only the holder of the mutex asks for
\* one, and no cached token has been rejected before (getOpenskyToken).
THEOREM Invariance == Spec => []Inv
BY InvInit, InvNext, PTL DEF Spec

----------------------------------------------------------------------------
LEMMA InvImplies == Inv => TypeOK /\ RetryUsesFreshToken /\ PauseExcludesToken /\ CachedTokenHasLife
<1> SUFFICES ASSUME Inv PROVE RetryUsesFreshToken /\ CachedTokenHasLife
  BY DEF Inv
<1>1. RetryUsesFreshToken
  BY DEF Inv, Fresh, RetryUsesFreshToken
<1>2. CachedTokenHasLife
  BY TokenAssumption DEF Inv, TypeOK, Times, Cached, CachedTokenHasLife, TokenAssumption
<1> QED BY <1>1, <1>2

LEMMA InvStepPauses ==
    Inv /\ [Next]_vars =>
        [\A t \in Thread : pc[t] # "auth" /\ pc'[t] = "auth" =>
            failedAt = -1 \/ now >= failedAt + Backoff]_vars
<1> SUFFICES ASSUME Inv, Next, NEW t \in Thread, pc[t] # "auth", pc'[t] = "auth"
             PROVE  failedAt = -1 \/ now >= failedAt + Backoff
  OBVIOUS
<1>1. PICK s \in Thread : Authenticate(s)
  BY DEF Next, CallStep, Tick, callVars, Inv, TypeOK, Goto, Lock, UseCached, GoAnonymous, AuthFails,
         AuthIsGarbage, AuthGrants, Served, Unauthorized, Invalidate, ReturnToken, Return
<1> QED
  BY <1>1, TokenAssumption DEF Authenticate, Resting, Inv, TypeOK, Times, TokenAssumption

----------------------------------------------------------------------------
\* Nearby traffic and tracks use the token as its own specification says: every step of
\* FetchNearbyTraffic and FetchTrack is one of openskyGet or leaves the token alone.
THEOREM LiveImplementsToken == LiveSpec => Spec
<1>1. LiveInit => Init
  BY DEF LiveInit
<1>2. [LiveNext]_allVars => [Next]_vars
  BY DEF LiveNext, LiveTick, LiveStep, Hit, Miss, Get, Fail, ReturnTrack, Store, Next, allVars
<1> QED BY <1>1, <1>2, PTL DEF LiveSpec, Spec

\* Type correctness of the token cache and its calls, a retry once at most included.
THEOREM TypeCorrect == LiveSpec => []TypeOK
BY InvImplies, Invariance, LiveImplementsToken, PTL

\* The retry of a call never carries the token just rejected (openskyGet, invalidate).
THEOREM FreshRetryTheorem == LiveSpec => []RetryUsesFreshToken
BY InvImplies, Invariance, LiveImplementsToken, PTL

\* While authentication rests there is no token a call could have had.
THEOREM PauseTheorem == LiveSpec => []PauseExcludesToken
BY InvImplies, Invariance, LiveImplementsToken, PTL

\* A cached token is good for the margin at least, less one authentication request.
THEOREM LifeTheorem == LiveSpec => []CachedTokenHasLife
BY InvImplies, Invariance, LiveImplementsToken, PTL

\* After a failed authentication nobody asks the server again before the pause is over.
THEOREM BackOffTheorem == LiveSpec => PausesAfterFailure
BY InvStepPauses, Invariance, LiveImplementsToken, PTL DEF PausesAfterFailure, Spec

----------------------------------------------------------------------------
\* Adding an element makes a finite set larger by at most one.
LEMMA AddOne ==
    ASSUME NEW S, IsFiniteSet(S), NEW x, NEW T, T \subseteq S \cup {x}
    PROVE  Cardinality(T) <= Cardinality(S) + 1
  <1>1. Cardinality(S) \in Nat
    BY FS_CardinalityType
  <1>2. /\ IsFiniteSet(S \cup {x})
        /\ Cardinality(S \cup {x}) <= Cardinality(S) + 1
    BY <1>1, FS_AddElement
  <1>3. /\ Cardinality(T) <= Cardinality(S \cup {x})
        /\ Cardinality(T) \in Nat /\ Cardinality(S \cup {x}) \in Nat
    BY <1>2, FS_Subset, FS_CardinalityType
  <1>4. QED
    BY <1>1, <1>2, <1>3

\* TrafficCache counts with its own instance of the standard module.
LEMMA SameSize ==
    /\ \A S : Cache!IsFiniteSet(S) <=> IsFiniteSet(S)
    /\ \A S : Cache!Cardinality(S) = Cardinality(S)
<1>1. \A S : Cache!IsFiniteSet(S) <=> IsFiniteSet(S)
  BY DEF Cache!IsFiniteSet, IsFiniteSet
<1>2. \A S : Cache!Cardinality(S) = Cardinality(S)
  BY DEF Cache!Cardinality, Cardinality
<1> QED BY <1>1, <1>2

\* What TrafficCache assumes of its constants.
LEMMA CacheAssumption ==
    /\ IsFiniteSet(Box) /\ CacheMax \in Nat \ {0}
    /\ TTL \in Nat /\ GetMax \in Nat /\ MaxTime \in Nat
    /\ Nothing \notin Cache!Entry /\ Nothing \notin Nat
<1>1. Cardinality(Thread) \in Nat
  BY LiveAssumption, FS_CardinalityType
<1>2. Latency \in Nat /\ SendMax \in Nat
  BY LiveAssumption, TokenAssumption
<1>3. GetMax \in Nat
  BY <1>1, <1>2 DEF GetMax
<1> QED BY <1>3, LiveAssumption, TokenAssumption DEF Cache!Entry

LookupsInTime ==
    \A c \in Thread : CacheState[c] = "asking" => CacheSentAt[c] <= now /\ now <= CacheSentAt[c] + GetMax

ListsExpire ==
    \A b \in Cache!Stored : m[b].expires <= m[b].asked + TTL + GetMax

CacheInv == Cache!TypeOK /\ Cache!MapBounded /\ LookupsInTime /\ ListsExpire

----------------------------------------------------------------------------
\* A map with fewer lists holds no more.
LEMMA FewerLists ==
    ASSUME Cache!MapBounded, Cache!Stored' \subseteq Cache!Stored
    PROVE  Cache!MapBounded'
  <1>1. IsFiniteSet(Cache!Stored)
    BY FS_Subset, CacheAssumption DEF Cache!Stored
  <1>2. /\ Cardinality(Cache!Stored') <= Cardinality(Cache!Stored)
        /\ Cardinality(Cache!Stored') \in Nat /\ Cardinality(Cache!Stored) \in Nat
    BY <1>1, FS_Subset, FS_CardinalityType
  <1>3. QED
    BY <1>2, SameSize, CacheAssumption DEF Cache!MapBounded

\* What storeTraffic keeps leaves room for one more.
LEMMA KeptLeavesRoom ==
    ASSUME Cache!TypeOK, NEW K \in Cache!Kept
    PROVE  K \subseteq Cache!Stored /\ Cardinality(K) < CacheMax
  <1>1. IsFiniteSet(Cache!Stored) /\ Cache!Live \subseteq Cache!Stored
    BY FS_Subset, CacheAssumption DEF Cache!Stored, Cache!Live
  <1>2. Cardinality(Cache!Stored) \in Nat /\ IsFiniteSet(Cache!Live) /\ Cardinality(Cache!Live) \in Nat
    BY <1>1, FS_Subset, FS_CardinalityType
  <1>3. QED
    BY <1>1, <1>2, SameSize, CacheAssumption DEF Cache!Kept

\* The map after storeTraffic, entry by entry.
LEMMA StoreEffect ==
    ASSUME Cache!TypeOK, NEW c \in Thread, Cache!Store(c)
    PROVE  \E K \in Cache!Kept :
             /\ m'[CacheBox[c]] = [asked |-> CacheSentAt[c], expires |-> now + TTL]
             /\ \A b \in Box \ {CacheBox[c]} : m'[b] = IF b \in K THEN m[b] ELSE Nothing
             /\ m' \in [Box -> Cache!Entry \cup {Nothing}]
  <1>1. PICK K \in Cache!Kept :
           m' = [b \in Box |->
                   IF b = CacheBox[c] THEN [asked |-> CacheSentAt[c], expires |-> now + TTL]
                   ELSE IF b \in K THEN m[b] ELSE Nothing]
    BY DEF Cache!Store
  <1>2. [asked |-> CacheSentAt[c], expires |-> now + TTL] \in Cache!Entry
    BY CacheAssumption DEF Cache!TypeOK, Cache!Entry
  <1>3. QED
    BY <1>1, <1>2 DEF Cache!TypeOK

----------------------------------------------------------------------------
LEMMA CacheInvInit == Cache!Init => CacheInv
  <1> SUFFICES ASSUME Cache!Init PROVE CacheInv
    OBVIOUS
  <1>1. Cache!TypeOK
    BY CacheAssumption DEF Cache!Init, Cache!TypeOK
  <1>2. Cache!Stored = {}
    BY DEF Cache!Init, Cache!Stored
  <1>3. Cache!MapBounded
    BY <1>2, FS_EmptySet, SameSize, CacheAssumption DEF Cache!MapBounded
  <1>4. LookupsInTime /\ ListsExpire
    BY <1>2 DEF Cache!Init, LookupsInTime, ListsExpire
  <1>5. QED
    BY <1>1, <1>3, <1>4 DEF CacheInv

LEMMA CacheHit == ASSUME CacheInv, NEW c \in Thread, Cache!Hit(c) PROVE CacheInv'
  <1>1. m[CacheBox[c]] \in Cache!Entry
    BY DEF CacheInv, Cache!TypeOK, Cache!Hit, Cache!Live, Cache!Stored
  <1>2. Cache!TypeOK'
    BY <1>1 DEF CacheInv, Cache!TypeOK, Cache!Hit, Cache!Return, Cache!Entry
  <1>3. Cache!Stored' = Cache!Stored
    BY DEF Cache!Hit, Cache!Stored
  <1>4. Cache!MapBounded' /\ ListsExpire'
    BY <1>3 DEF CacheInv, Cache!MapBounded, ListsExpire, Cache!Hit
  <1>5. LookupsInTime'
    BY DEF CacheInv, Cache!TypeOK, LookupsInTime, Cache!Hit, Cache!Return
  <1>6. QED
    BY <1>2, <1>4, <1>5 DEF CacheInv

LEMMA CacheMiss == ASSUME CacheInv, NEW c \in Thread, Cache!Miss(c) PROVE CacheInv'
  <1>1. Cache!TypeOK'
    BY DEF CacheInv, Cache!TypeOK, Cache!Miss
  <1>2. Cache!Stored' \subseteq Cache!Stored /\ \A b \in Cache!Stored' : m'[b] = m[b]
    BY DEF CacheInv, Cache!TypeOK, Cache!Miss, Cache!Stored
  <1>3. Cache!MapBounded'
    BY <1>2, FewerLists DEF CacheInv
  <1>4. ListsExpire'
    BY <1>2 DEF CacheInv, ListsExpire
  <1>5. LookupsInTime'
    BY CacheAssumption DEF CacheInv, Cache!TypeOK, LookupsInTime, Cache!Miss
  <1>6. QED
    BY <1>1, <1>3, <1>4, <1>5 DEF CacheInv

LEMMA CacheFail == ASSUME CacheInv, NEW c \in Thread, Cache!Fail(c) PROVE CacheInv'
  <1>1. Cache!TypeOK'
    BY DEF CacheInv, Cache!TypeOK, Cache!Fail
  <1>2. Cache!Stored' = Cache!Stored
    BY DEF Cache!Fail, Cache!Stored
  <1>3. Cache!MapBounded' /\ ListsExpire'
    BY <1>2 DEF CacheInv, Cache!MapBounded, ListsExpire, Cache!Fail
  <1>4. LookupsInTime'
    BY DEF CacheInv, Cache!TypeOK, LookupsInTime, Cache!Fail
  <1>5. QED
    BY <1>1, <1>3, <1>4 DEF CacheInv

LEMMA CacheStore == ASSUME CacheInv, NEW c \in Thread, Cache!Store(c) PROVE CacheInv'
  <1>1. PICK K \in Cache!Kept :
           /\ m'[CacheBox[c]] = [asked |-> CacheSentAt[c], expires |-> now + TTL]
           /\ \A b \in Box \ {CacheBox[c]} : m'[b] = IF b \in K THEN m[b] ELSE Nothing
           /\ m' \in [Box -> Cache!Entry \cup {Nothing}]
    BY StoreEffect DEF CacheInv
  <1>2. Cache!TypeOK'
    BY <1>1 DEF CacheInv, Cache!TypeOK, Cache!Store, Cache!Return
  <1>3. K \subseteq Cache!Stored /\ Cardinality(K) < CacheMax
    BY KeptLeavesRoom DEF CacheInv
  <1>4. Cache!Stored' \subseteq K \cup {CacheBox[c]}
    BY <1>1 DEF Cache!Stored
  <1>5. Cache!MapBounded'
    <2>1. IsFiniteSet(K)
      BY <1>3, FS_Subset, CacheAssumption DEF CacheInv, Cache!Stored
    <2>2. IsFiniteSet(K \cup {CacheBox[c]})
      BY <2>1, FS_AddElement
    <2>3. Cardinality(K) \in Nat /\ Cardinality(Cache!Stored') \in Nat
      BY <1>4, <2>1, <2>2, FS_Subset, FS_CardinalityType
    <2>4. Cardinality(Cache!Stored') <= Cardinality(K) + 1
      BY <1>4, <2>1, AddOne
    <2>5. QED
      BY <1>3, <2>3, <2>4, SameSize, CacheAssumption DEF CacheInv, Cache!MapBounded
  <1>6. ListsExpire'
    <2>1. now <= CacheSentAt[c] + GetMax
      BY DEF CacheInv, LookupsInTime, Cache!Store
    <2>2. now + TTL <= CacheSentAt[c] + TTL + GetMax
      BY <2>1, CacheAssumption DEF CacheInv, Cache!TypeOK
    <2>3. \A b \in Cache!Stored' \ {CacheBox[c]} : b \in Cache!Stored /\ m'[b] = m[b]
      BY <1>1, <1>3, <1>4 DEF Cache!Stored
    <2>4. QED
      BY <1>1, <2>2, <2>3 DEF CacheInv, ListsExpire
  <1>7. LookupsInTime'
    BY DEF CacheInv, Cache!TypeOK, LookupsInTime, Cache!Store, Cache!Return
  <1>8. QED
    BY <1>2, <1>5, <1>6, <1>7 DEF CacheInv

LEMMA CacheTick == ASSUME CacheInv, Cache!Tick PROVE CacheInv'
  <1>1. Cache!TypeOK'
    BY DEF CacheInv, Cache!TypeOK, Cache!Tick
  <1>2. Cache!Stored' = Cache!Stored
    BY DEF Cache!Tick, Cache!Stored
  <1>3. Cache!MapBounded' /\ ListsExpire'
    BY <1>2 DEF CacheInv, Cache!MapBounded, ListsExpire, Cache!Tick
  <1>4. LookupsInTime'
    BY CacheAssumption DEF CacheInv, Cache!TypeOK, LookupsInTime, Cache!Tick
  <1>5. QED
    BY <1>1, <1>3, <1>4 DEF CacheInv

LEMMA CacheInvInductive == CacheInv /\ [Cache!Next]_(Cache!vars) => CacheInv'
  <1> SUFFICES ASSUME CacheInv, [Cache!Next]_(Cache!vars) PROVE CacheInv'
    OBVIOUS
  <1>1. CASE Cache!Tick
    BY <1>1, CacheTick
  <1>2. ASSUME NEW c \in Thread, Cache!Hit(c) PROVE CacheInv'
    BY <1>2, CacheHit
  <1>3. ASSUME NEW c \in Thread, Cache!Miss(c) PROVE CacheInv'
    BY <1>3, CacheMiss
  <1>4. ASSUME NEW c \in Thread, Cache!Fail(c) PROVE CacheInv'
    BY <1>4, CacheFail
  <1>5. ASSUME NEW c \in Thread, Cache!Store(c) PROVE CacheInv'
    BY <1>5, CacheStore
  <1>6. CASE UNCHANGED Cache!vars
    <2>1. Cache!Stored' = Cache!Stored
      BY <1>6 DEF Cache!vars, Cache!Stored
    <2>2. QED
      BY <1>6, <2>1
         DEF Cache!vars, CacheInv, Cache!TypeOK, Cache!MapBounded, LookupsInTime, ListsExpire
  <1>7. QED
    BY <1>1, <1>2, <1>3, <1>4, <1>5, <1>6 DEF Cache!Next

\* The invariant holds of every behaviour.
THEOREM CacheInvariance == Cache!Spec => []CacheInv
  BY CacheInvInit, CacheInvInductive, PTL DEF Cache!Spec

\* Type correctness, for any boxes and any number of calls (opensky.go:170-178).
THEOREM CacheTypeCorrect == Cache!Spec => []Cache!TypeOK
  <1>1. CacheInv => Cache!TypeOK
    BY DEF CacheInv
  <1>2. QED
    BY <1>1, CacheInvariance, PTL

\* The map never outgrows trafficCacheMax (opensky.go, storeTraffic).
THEOREM SizeTheorem == Cache!Spec => []Cache!MapBounded
  <1>1. CacheInv => Cache!MapBounded
    BY DEF CacheInv
  <1>2. QED
    BY <1>1, CacheInvariance, PTL

\* No list is returned longer than the TTL and one request after it was asked
\* for, from the cache or fresh (opensky.go, FetchNearbyTraffic).
THEOREM CurrencyTheorem == Cache!Spec => Cache!AnswersAreCurrent
  <1>1. CacheInv /\ [Cache!Next]_(Cache!vars) =>
          [\A c \in Thread : answer'[c] # answer[c] => now - answer'[c] <= TTL + GetMax]_(Cache!vars)
    <2> SUFFICES ASSUME CacheInv, Cache!Next, NEW c \in Thread, answer'[c] # answer[c]
                 PROVE  now - answer'[c] <= TTL + GetMax
      OBVIOUS
    <2>1. PICK d \in Thread : Cache!Hit(d) \/ Cache!Store(d)
      BY DEF Cache!Next, Cache!Tick, Cache!Miss, Cache!Fail
    <2>2. d = c
      BY <2>1 DEF CacheInv, Cache!TypeOK, Cache!Hit, Cache!Store, Cache!Return
    <2>3. CASE Cache!Hit(c)
      <3>1. /\ CacheBox[c] \in Cache!Stored /\ m[CacheBox[c]] \in Cache!Entry /\ now <= m[CacheBox[c]].expires
            /\ answer'[c] = m[CacheBox[c]].asked
        BY <2>3 DEF CacheInv, Cache!TypeOK, Cache!Hit, Cache!Return, Cache!Live, Cache!Stored
      <3>2. m[CacheBox[c]].expires <= m[CacheBox[c]].asked + TTL + GetMax
        BY <3>1 DEF CacheInv, ListsExpire
      <3>3. QED
        BY <3>1, <3>2, CacheAssumption DEF CacheInv, Cache!TypeOK, Cache!Entry
    <2>4. CASE Cache!Store(c)
      <3>1. answer'[c] = CacheSentAt[c] /\ now <= CacheSentAt[c] + GetMax
        BY <2>4 DEF CacheInv, Cache!TypeOK, Cache!Store, Cache!Return, LookupsInTime
      <3>2. QED
        BY <3>1, CacheAssumption DEF CacheInv, Cache!TypeOK
    <2>5. QED
      BY <2>1, <2>2, <2>3, <2>4
  <1>2. QED
    BY <1>1, CacheInvariance, PTL DEF Cache!Spec, Cache!AnswersAreCurrent

\* A live list is given up only to a full map, and then no more than one (opensky.go,
\* storeTraffic), whichever lists the map's iteration comes upon first.
THEOREM DropsTheorem == Cache!Spec => Cache!DropsNoMoreThanNeeded
  <1>1. CacheInv /\ [Cache!Next]_(Cache!vars) =>
          [/\ (Cache!Live \ Cache!Stored' # {} => Cache!Cardinality(Cache!Stored) >= CacheMax)
           /\ Cache!Cardinality(Cache!Live \ Cache!Stored') <= 1]_(Cache!vars)
    <2> SUFFICES ASSUME CacheInv, Cache!Next
                 PROVE  /\ (Cache!Live \ Cache!Stored' # {} => Cardinality(Cache!Stored) >= CacheMax)
                        /\ Cardinality(Cache!Live \ Cache!Stored') <= 1
      BY SameSize
    <2>1. ASSUME Cache!Live \ Cache!Stored' = {}
          PROVE  /\ (Cache!Live \ Cache!Stored' # {} => Cardinality(Cache!Stored) >= CacheMax)
                 /\ Cardinality(Cache!Live \ Cache!Stored') <= 1
      BY <2>1, FS_EmptySet
    <2>2. ASSUME Cache!Stored' = Cache!Stored PROVE Cache!Live \ Cache!Stored' = {}
      BY <2>2 DEF Cache!Live
    <2>3. CASE Cache!Tick
      BY <2>1, <2>2, <2>3 DEF Cache!Tick, Cache!Stored
    <2>4. ASSUME NEW c \in Thread, Cache!Hit(c) \/ Cache!Fail(c)
          PROVE  Cache!Stored' = Cache!Stored
      BY <2>4 DEF Cache!Hit, Cache!Fail, Cache!Stored
    <2>5. ASSUME NEW c \in Thread, Cache!Miss(c)
          PROVE  Cache!Live \ Cache!Stored' = {}
      BY <2>5 DEF CacheInv, Cache!TypeOK, Cache!Miss, Cache!Live, Cache!Stored
    <2>6. ASSUME NEW c \in Thread, Cache!Store(c)
          PROVE  /\ (Cache!Live \ Cache!Stored' # {} => Cardinality(Cache!Stored) >= CacheMax)
                 /\ Cardinality(Cache!Live \ Cache!Stored') <= 1
      <3>1. PICK K \in Cache!Kept :
               /\ m'[CacheBox[c]] = [asked |-> CacheSentAt[c], expires |-> now + TTL]
               /\ \A b \in Box \ {CacheBox[c]} : m'[b] = IF b \in K THEN m[b] ELSE Nothing
               /\ m' \in [Box -> Cache!Entry \cup {Nothing}]
        BY <2>6, StoreEffect DEF CacheInv
      <3>2. [asked |-> CacheSentAt[c], expires |-> now + TTL] # Nothing
        BY CacheAssumption DEF CacheInv, Cache!TypeOK, Cache!Entry
      <3>3. K \cap Cache!Stored \subseteq Cache!Stored'
        BY <3>1, <3>2 DEF Cache!Stored
      <3>4. IsFiniteSet(Cache!Stored) /\ Cache!Live \subseteq Cache!Stored
        BY FS_Subset, CacheAssumption DEF CacheInv, Cache!Stored, Cache!Live
      <3>5. /\ IsFiniteSet(Cache!Live)
            /\ Cardinality(Cache!Live) \in Nat /\ Cardinality(Cache!Stored) \in Nat
            /\ Cardinality(Cache!Live) <= Cardinality(Cache!Stored)
        BY <3>4, FS_Subset, FS_CardinalityType
      <3>6. Cardinality(Cache!Stored) <= CacheMax /\ CacheMax \in Nat \ {0}
        BY SameSize, CacheAssumption DEF CacheInv, Cache!MapBounded
      <3>7. CASE K = Cache!Stored \/ K = Cache!Live
        <4>1. Cache!Live \ Cache!Stored' = {}
          BY <3>3, <3>4, <3>7
        <4>2. QED
          BY <2>1, <4>1
      <3>8. CASE /\ Cardinality(Cache!Stored) >= CacheMax
                 /\ K \subseteq Cache!Live /\ Cardinality(K) = CacheMax - 1
        <4>1. /\ IsFiniteSet(Cache!Live \ K)
              /\ Cardinality(Cache!Live \ K) = Cardinality(Cache!Live) - Cardinality(Cache!Live \cap K)
          BY <3>5, FS_Difference
        <4>2. Cache!Live \cap K = K
          BY <3>8
        <4>3. Cardinality(Cache!Live \ K) <= 1
          BY <3>5, <3>6, <3>8, <4>1, <4>2
        <4>4. Cache!Live \ Cache!Stored' \subseteq Cache!Live \ K
          BY <3>3, <3>4, <3>8
        <4>5. /\ Cardinality(Cache!Live \ Cache!Stored') <= Cardinality(Cache!Live \ K)
              /\ Cardinality(Cache!Live \ Cache!Stored') \in Nat /\ Cardinality(Cache!Live \ K) \in Nat
          BY <4>1, <4>4, FS_Subset, FS_CardinalityType
        <4>6. QED
          BY <3>8, <4>3, <4>5
      <3>9. QED
        BY <3>1, <3>5, <3>6, <3>7, <3>8, SameSize DEF Cache!Kept
    <2>7. QED
      BY <2>1, <2>2, <2>3, <2>4, <2>5, <2>6 DEF Cache!Next
  <1>2. QED
    BY <1>1, CacheInvariance, PTL DEF Cache!Spec, Cache!DropsNoMoreThanNeeded

----------------------------------------------------------------------------
(* How long an openskyGet takes.  Whoever waits for the mutex waits for an *)
(* authentication, and all calls together have only so much of it left;    *)
(* the rest of the time its own requests run.                              *)

\* What t may still spend on authentications, and on requests of its own.
AuthWork(t) ==
    (IF pc[t] # "done" /\ tries[t] = 0 THEN Latency ELSE 0)
      + (IF pc[t] \in {"start", "locked"} THEN Latency
         ELSE IF pc[t] = "auth" THEN authAt[t] + Latency - now ELSE 0)
SendWork(t) ==
    (IF pc[t] # "done" /\ tries[t] = 0 THEN SendMax ELSE 0)
      + (IF pc[t] \in {"start", "locked", "auth"} THEN SendMax
         ELSE IF pc[t] = "send" THEN sendAt[t] + SendMax - now ELSE 0)

\* The ticks of authentication that all calls have left.
Work == {w \in Thread \X (1..2 * Latency) : w[2] <= AuthWork(w[1])}

Stages ==
    /\ mu # Nobody => pc[mu] \in {"locked", "auth"}
    /\ \A t \in Thread :
         /\ state[t] = "idle" => pc[t] = "start" /\ tries[t] = 0
         /\ pc[t] \notin {"start", "done"} => state[t] = "asking"
         /\ pc[t] = "send" => sendAt[t] <= now /\ now <= sendAt[t] + SendMax

GetsInTime ==
    \A t \in Thread : state[t] = "asking" =>
        sentAt[t] <= now /\ now - sentAt[t] + Cardinality(Work) + SendWork(t) <= GetMax

LiveInv == Inv /\ LiveTypeOK /\ Stages /\ GetsInTime

LEMMA Numbers ==
    /\ Latency \in Nat /\ SendMax \in Nat /\ IsFiniteSet(Thread) /\ Nobody \notin Thread
    /\ Cardinality(Thread) \in Nat
  BY LiveAssumption, TokenAssumption, FS_CardinalityType

LEMMA AuthWorkTyped ==
    ASSUME Inv, NEW t \in Thread
    PROVE  AuthWork(t) \in Int /\ 0 <= AuthWork(t) /\ AuthWork(t) <= 2 * Latency
<1>1. /\ authAt[t] \in Nat /\ now \in Nat
      /\ pc[t] = "auth" => authAt[t] <= now /\ now <= authAt[t] + Latency
  BY DEF Inv, TypeOK, Exclusion
<1> QED BY <1>1, Numbers DEF AuthWork

LEMMA SendWorkTyped ==
    ASSUME LiveInv, NEW t \in Thread
    PROVE  SendWork(t) \in Int /\ 0 <= SendWork(t) /\ SendWork(t) <= 2 * SendMax
<1>1. /\ sendAt[t] \in Nat /\ now \in Nat
      /\ pc[t] = "send" => sendAt[t] <= now /\ now <= sendAt[t] + SendMax
  BY DEF LiveInv, LiveTypeOK, Stages, Inv, TypeOK
<1> QED BY <1>1, Numbers DEF SendWork

\* Twice the timeout for every call is enough.
LEMMA WorkBounded ==
    /\ IsFiniteSet(Work) /\ Cardinality(Work) \in Nat
    /\ Cardinality(Work) + 2 * SendMax <= GetMax
<1> DEFINE All == Thread \X (1..2 * Latency)
<1>1. 2 * Latency \in Nat
  BY Numbers
<1>2. IsFiniteSet(1..2 * Latency) /\ Cardinality(1..2 * Latency) = 2 * Latency
  BY <1>1, FS_Interval
<1>3. IsFiniteSet(All) /\ Cardinality(All) = Cardinality(Thread) * (2 * Latency)
  <2>1. IsFiniteSet(Thread)
    BY Numbers
  <2> DEFINE S == 1..2 * Latency
  <2>2. IsFiniteSet(S) /\ Cardinality(S) = 2 * Latency
    BY <1>2
  <2> HIDE DEF S
  <2>3. IsFiniteSet(Thread \X S) /\ Cardinality(Thread \X S) = Cardinality(Thread) * Cardinality(S)
    BY <2>1, <2>2, FS_Product, Zenon
  <2> QED BY <2>2, <2>3 DEF S
<1>4. Work \subseteq All
  BY DEF Work
<1>5. /\ IsFiniteSet(Work) /\ Cardinality(Work) \in Nat
      /\ Cardinality(Work) <= Cardinality(All)
  BY <1>3, <1>4, FS_Subset, FS_CardinalityType
<1>6. Cardinality(Thread) * (2 * Latency) = 2 * Cardinality(Thread) * Latency
  BY Numbers
<1> QED BY <1>3, <1>5, <1>6, Numbers DEF GetMax

\* A step of openskyGet leaves no more to do than there was.
LEMMA CallStepWork ==
    ASSUME Inv, Stages, NEW t \in Thread, CallStep(t)
    PROVE  /\ now' = now
           /\ \A s \in Thread \ {t} : /\ pc'[s] = pc[s] /\ tries'[s] = tries[s]
                                      /\ authAt'[s] = authAt[s]
           /\ AuthWork(t)' <= AuthWork(t)
           /\ pc'[t] = "send" => pc[t] \in {"locked", "auth"} /\ tries'[t] = tries[t]
           /\ pc'[t] = "unauthorized" => pc[t] = "send" /\ tries[t] = 0 /\ tries'[t] = 0
           /\ pc'[t] \in {"locked", "auth"} =>
                pc[t] \in {"start", "locked", "auth"} /\ tries'[t] = tries[t]
           /\ pc'[t] = "start" => pc[t] = "unauthorized" /\ tries[t] = 0 /\ tries'[t] = 1
           /\ pc[t] # "done" /\ pc'[t] \in PC
           /\ mu' # Nobody => pc'[mu'] \in {"locked", "auth"} \/ (mu' = mu /\ mu # t)
<1> USE Numbers DEF Inv, TypeOK, Goto, PC
<1>0. /\ pc[t] \in PC /\ tries[t] \in {0, 1} /\ authAt[t] \in Nat /\ now \in Nat
      /\ pc[t] = "auth" => authAt[t] <= now /\ now <= authAt[t] + Latency
      /\ pc[t] \in {"locked", "auth"} => mu = t
      /\ pc[t] = "unauthorized" => tries[t] = 0
      /\ mu = t => pc[t] \in {"locked", "auth"}
  BY DEF Exclusion, Fresh, Stages
<1>1. CASE Lock(t)
  BY <1>0, <1>1 DEF Lock, AuthWork
<1>2. CASE UseCached(t) \/ GoAnonymous(t)
  BY <1>0, <1>2 DEF UseCached, GoAnonymous, ReturnToken, AuthWork
<1>3. CASE Authenticate(t)
  BY <1>0, <1>3 DEF Authenticate, AuthWork
<1>4. CASE AuthFails(t) \/ AuthGrants(t)
  BY <1>0, <1>4 DEF AuthFails, AuthGrants, ReturnToken, AuthWork
<1>5. CASE AuthIsGarbage(t)
  BY <1>0, <1>5 DEF AuthIsGarbage, Return, AuthWork
<1>6. CASE Served(t)
  BY <1>0, <1>6 DEF Served, Return, AuthWork
<1>7. CASE Unauthorized(t)
  BY <1>0, <1>7 DEF Unauthorized, Return, AuthWork
<1>8. CASE Invalidate(t)
  BY <1>0, <1>8 DEF Invalidate, AuthWork
<1> QED BY <1>1, <1>2, <1>3, <1>4, <1>5, <1>6, <1>7, <1>8 DEF CallStep

\* Nor does any other: work that nobody adds to does not grow.
LEMMA WorkShrinks ==
    ASSUME Inv, \A s \in Thread : AuthWork(s)' <= AuthWork(s) /\ AuthWork(s)' \in Int
    PROVE  Work' \subseteq Work /\ Cardinality(Work') <= Cardinality(Work)
<1>1. ASSUME NEW w \in Work' PROVE w \in Work
  <2>1. w \in Thread \X (1..2 * Latency) /\ w[2] <= AuthWork(w[1])'
    BY <1>1 DEF Work
  <2>2. w[1] \in Thread /\ w[2] \in Int
    BY <2>1, Numbers
  <2>3. AuthWork(w[1]) \in Int
    BY <2>2, AuthWorkTyped
  <2>4. w[2] <= AuthWork(w[1])
    BY <2>1, <2>2, <2>3
  <2> QED BY <2>1, <2>4 DEF Work
<1> QED BY <1>1, WorkBounded, FS_Subset

\* The typing of each step, and the stages of a call.
LEMMA LiveTypeStep == ASSUME LiveInv, LiveNext PROVE Inv' /\ LiveTypeOK'
<1>1. Inv' /\ TypeOK'
  <2>1. [Next]_vars
    BY DEF LiveNext, LiveTick, LiveStep, Hit, Miss, Get, Fail, ReturnTrack, Store, Next
  <2> QED BY <2>1, InvNext DEF LiveInv, Inv
<1> USE Numbers DEF LiveInv, LiveTypeOK, End, getVars, listVars
<1>2. CASE LiveTick
  BY <1>1, <1>2 DEF LiveTick
<1>3. ASSUME NEW t \in Thread, Hit(t) PROVE LiveTypeOK'
  <2>1. box[t] \in Box /\ m[box[t]] # Nothing
    BY <1>3 DEF Hit, Live, Stored
  <2>2. m[box[t]].asked \in Nat
    BY <2>1
  <2> QED BY <1>1, <1>3, <2>2 DEF Hit
<1>4. ASSUME NEW t \in Thread, Miss(t) PROVE LiveTypeOK'
  <2>1. sentAt' \in [Thread -> Nat] /\ state' \in [Thread -> {"idle", "asking", "returned", "failed"}]
    BY <1>4 DEF Miss, Inv, TypeOK
  <2> QED BY <1>1, <1>4, <2>1 DEF Miss
<1>5. ASSUME NEW t \in Thread, Get(t) PROVE LiveTypeOK'
  <2>1. sendAt' \in [Thread -> Nat] /\ body' \in [Thread -> BOOLEAN]
    BY <1>5 DEF Get, Inv, TypeOK
  <2> QED BY <1>1, <1>5, <2>1 DEF Get
<1>6. ASSUME NEW t \in Thread, Fail(t) \/ ReturnTrack(t) PROVE LiveTypeOK'
  BY <1>1, <1>6 DEF Fail, ReturnTrack
<1>7. ASSUME NEW t \in Thread, Store(t) PROVE LiveTypeOK'
  <2>1. now + TTL \in Nat
    BY LiveAssumption DEF Inv, TypeOK
  <2>2. [asked |-> sentAt[t], expires |-> now + TTL] \in [asked : Nat, expires : Nat]
    BY <2>1
  <2>3. m' \in [Box -> [asked : Nat, expires : Nat] \cup {Nothing}]
    <3>1. PICK K \in Kept :
            m' = [b \in Box |->
                    IF b = box[t] THEN [asked |-> sentAt[t], expires |-> now + TTL]
                    ELSE IF b \in K THEN m[b] ELSE Nothing]
      BY <1>7 DEF Store
    <3> QED BY <2>2, <3>1
  <2> QED BY <1>1, <1>7, <2>3 DEF Store
<1> QED BY <1>1, <1>2, <1>3, <1>4, <1>5, <1>6, <1>7 DEF LiveNext, LiveStep

\* What a call of openskyGet may still need, when it takes a step.
LEMMA GetSendWork ==
    ASSUME LiveInv, NEW t \in Thread, Get(t)
    PROVE  /\ SendWork(t)' \in Int /\ SendWork(t)' <= SendWork(t)
           /\ pc'[t] = "send" => sendAt'[t] = now
           /\ \A s \in Thread \ {t} : SendWork(s)' = SendWork(s)
<1>1. CallStep(t) /\ Inv /\ Stages
  BY DEF Get, LiveInv
<1>2. /\ sendAt'[t] = (IF pc'[t] = "send" THEN now ELSE 0)
      /\ \A s \in Thread \ {t} : sendAt'[s] = sendAt[s]
  BY DEF Get, LiveInv, LiveTypeOK
<1>3. /\ now \in Nat /\ tries[t] \in {0, 1} /\ sendAt[t] \in Nat /\ pc[t] \in PC
      /\ pc[t] = "send" => now <= sendAt[t] + SendMax
  BY DEF LiveInv, LiveTypeOK, TypeOK, Stages
<1>4. /\ now' = now
      /\ \A s \in Thread \ {t} : pc'[s] = pc[s] /\ tries'[s] = tries[s]
      /\ pc'[t] = "send" => pc[t] \in {"locked", "auth"} /\ tries'[t] = tries[t]
      /\ pc'[t] = "unauthorized" => pc[t] = "send" /\ tries[t] = 0 /\ tries'[t] = 0
      /\ pc'[t] \in {"locked", "auth"} =>
           pc[t] \in {"start", "locked", "auth"} /\ tries'[t] = tries[t]
      /\ pc'[t] = "start" => pc[t] = "unauthorized" /\ tries[t] = 0 /\ tries'[t] = 1
      /\ pc'[t] \in PC
  BY <1>1, CallStepWork
<1>5. SendWork(t)' \in Int /\ SendWork(t)' <= SendWork(t)
  BY <1>2, <1>3, <1>4, Numbers DEF SendWork, PC
<1>6. \A s \in Thread \ {t} : SendWork(s)' = SendWork(s)
  BY <1>2, <1>4 DEF SendWork
<1> QED BY <1>2, <1>5, <1>6

LEMMA StagesStep == ASSUME LiveInv, LiveNext PROVE Stages'
<1> USE Numbers DEF LiveInv, LiveTypeOK, End, vars, callVars, getVars, listVars
<1>1. CASE LiveTick
  <2>1. /\ now' = now + 1 /\ UNCHANGED <<mu, pc, tries, state, sendAt>>
        /\ \A t \in Thread : pc[t] = "send" /\ state[t] = "asking" => now < sendAt[t] + SendMax
    BY <1>1 DEF LiveTick, Tick, Waiting, callVars
  <2>2. \A t \in Thread : pc[t] = "send" => state[t] = "asking"
    BY DEF Stages
  <2>3. now \in Nat /\ sendAt \in [Thread -> Nat]
    BY DEF TypeOK
  <2> QED BY <2>1, <2>2, <2>3 DEF Stages
<1>2. ASSUME NEW t \in Thread, Hit(t) \/ Miss(t) \/ Fail(t) \/ ReturnTrack(t) \/ Store(t)
      PROVE  Stages'
  <2>1. /\ UNCHANGED <<now, mu, pc, tries, sendAt>>
        /\ state[t] # "idle" => pc[t] = "done"
        /\ \/ state' = [state EXCEPT ![t] = "asking"] \/ state' = [state EXCEPT ![t] = "failed"]
           \/ state' = [state EXCEPT ![t] = "returned"]
    BY <1>2 DEF Hit, Miss, Fail, ReturnTrack, Store
  <2>2. pc[t] \in {"start", "done"}
    BY <1>2, <2>1 DEF Stages
  <2> QED BY <2>1, <2>2 DEF Stages
<1>3. ASSUME NEW t \in Thread, Get(t) PROVE Stages'
  <2>1. CallStep(t) /\ state[t] = "asking" /\ UNCHANGED state
    BY <1>3 DEF Get
  <2>2. /\ now' = now
        /\ \A s \in Thread \ {t} : pc'[s] = pc[s] /\ tries'[s] = tries[s]
        /\ mu' # Nobody => pc'[mu'] \in {"locked", "auth"} \/ (mu' = mu /\ mu # t)
    BY <2>1, CallStepWork
  <2>3. mu' # Nobody => pc'[mu'] \in {"locked", "auth"}
    <3>1. mu \in Thread \cup {Nobody}
      BY DEF TypeOK
    <3> QED BY <2>2, <3>1 DEF Stages
  <2>4. /\ pc'[t] = "send" => sendAt'[t] = now
        /\ \A s \in Thread \ {t} : sendAt'[s] = sendAt[s]
    BY <1>3 DEF Get
  <2>5. now \in Nat
    BY DEF TypeOK
  <2> QED BY <2>1, <2>2, <2>3, <2>4, <2>5 DEF Stages
<1> QED BY <1>1, <1>2, <1>3 DEF LiveNext, LiveStep

\* A tick that passes for a call that asks is one of an authentication, or of its own
\* request.
LEMMA TickWork ==
    ASSUME LiveInv, LiveTick, NEW t \in Thread, state[t] = "asking"
    PROVE  /\ Cardinality(Work') + SendWork(t)' < Cardinality(Work) + SendWork(t)
           /\ SendWork(t)' \in Int /\ Cardinality(Work') \in Nat
<1> USE Numbers
<1>1. /\ now' = now + 1 /\ UNCHANGED <<pc, tries, authAt, sendAt, mu>> /\ now \in Nat
      /\ \A s \in Thread : Waiting(s)
      /\ \A s \in Thread : pc[s] = "auth" => now < authAt[s] + Latency
      /\ \A s \in Thread : authAt[s] \in Nat /\ sendAt[s] \in Nat
  BY DEF LiveTick, Tick, callVars, getVars, LiveInv, LiveTypeOK, TypeOK
<1>2. \A s \in Thread : /\ AuthWork(s) \in Int /\ AuthWork(s)' \in Int
                        /\ AuthWork(s)' = IF pc[s] = "auth" THEN AuthWork(s) - 1 ELSE AuthWork(s)
  BY <1>1 DEF AuthWork
<1>3. Work' \subseteq Work /\ Cardinality(Work') <= Cardinality(Work)
  <2>1. \A s \in Thread : AuthWork(s)' <= AuthWork(s) /\ AuthWork(s)' \in Int
    BY <1>2
  <2> QED BY <2>1, WorkShrinks DEF LiveInv
<1>4. IsFiniteSet(Work) /\ Cardinality(Work) \in Nat /\ Cardinality(Work') \in Nat
  BY <1>3, WorkBounded, FS_Subset, FS_CardinalityType
<1>5. SendWork(t) \in Int /\ SendWork(t)' \in Int
      /\ SendWork(t)' = IF pc[t] = "send" THEN SendWork(t) - 1 ELSE SendWork(t)
  BY <1>1 DEF SendWork
<1>6. CASE pc[t] = "send"
  BY <1>3, <1>4, <1>5, <1>6
<1>7. CASE pc[t] # "send"
  <2>1. PICK h \in Thread : pc[h] = "auth"
    <3>1. pc[t] = "auth" \/ mu # Nobody
      BY <1>1, <1>7 DEF Waiting
    <3>2. CASE mu # Nobody
      <4>1. mu \in Thread /\ pc[mu] \in {"locked", "auth"} /\ state[mu] = "asking"
        BY <3>2 DEF LiveInv, LiveTypeOK, TypeOK, Stages
      <4>2. pc[mu] = "auth"
        BY <1>1, <4>1 DEF Waiting
      <4> QED BY <4>1, <4>2
    <3> QED BY <3>1, <3>2
  <2>2. /\ AuthWork(h) \in Int /\ 1 <= AuthWork(h) /\ AuthWork(h) <= 2 * Latency
        /\ AuthWork(h)' = AuthWork(h) - 1
    <3>1. AuthWork(h) >= authAt[h] + Latency - now
      BY <1>1, <2>1 DEF AuthWork
    <3>2. authAt[h] + Latency - now >= 1
      BY <1>1, <2>1
    <3> QED BY <1>1, <1>2, <2>1, <3>1, <3>2, AuthWorkTyped DEF LiveInv
  <2>3. <<h, AuthWork(h)>> \in Work
    BY <2>2 DEF Work
  <2>4. <<h, AuthWork(h)>> \notin Work'
    BY <2>2 DEF Work
  <2>5. Cardinality(Work') < Cardinality(Work)
    <3>1. Work' \subseteq Work \ {<<h, AuthWork(h)>>}
      BY <1>3, <2>4
    <3>2. /\ IsFiniteSet(Work \ {<<h, AuthWork(h)>>})
          /\ Cardinality(Work \ {<<h, AuthWork(h)>>}) = Cardinality(Work) - 1
      BY <1>4, <2>3, FS_RemoveElement
    <3>3. Cardinality(Work') <= Cardinality(Work \ {<<h, AuthWork(h)>>})
      BY <3>1, <3>2, FS_Subset
    <3> QED BY <1>4, <3>2, <3>3
  <2> QED BY <1>4, <1>5, <1>7, <2>5
<1> QED BY <1>6, <1>7

LEMMA GetsInTimeStep == ASSUME LiveInv, LiveNext PROVE GetsInTime'
<1> USE Numbers
<1>0. /\ Cardinality(Work) \in Nat /\ GetMax \in Nat /\ now \in Nat
      /\ \A t \in Thread : sentAt[t] \in Nat /\ SendWork(t) \in Int
  BY WorkBounded, CacheAssumption, SendWorkTyped DEF LiveInv, LiveTypeOK, TypeOK
<1>1. CASE LiveTick
  <2> SUFFICES ASSUME NEW t \in Thread, state'[t] = "asking"
               PROVE  /\ sentAt'[t] <= now'
                      /\ now' - sentAt'[t] + Cardinality(Work') + SendWork(t)' <= GetMax
    BY DEF GetsInTime
  <2>1. now' = now + 1 /\ state'[t] = state[t] /\ sentAt'[t] = sentAt[t]
    BY <1>1 DEF LiveTick, Tick, listVars
  <2>2. /\ sentAt[t] <= now /\ now - sentAt[t] + Cardinality(Work) + SendWork(t) <= GetMax
    BY <2>1 DEF LiveInv, GetsInTime
  <2>3. /\ Cardinality(Work') + SendWork(t)' < Cardinality(Work) + SendWork(t)
        /\ SendWork(t)' \in Int /\ Cardinality(Work') \in Nat
    BY <1>1, <2>1, TickWork
  <2> QED BY <1>0, <2>1, <2>2, <2>3
<1>2. ASSUME UNCHANGED <<now, pc, tries, authAt, sendAt>>
      PROVE  /\ Cardinality(Work') = Cardinality(Work)
             /\ \A t \in Thread : SendWork(t)' = SendWork(t)
  <2>1. \A s \in Thread : AuthWork(s)' = AuthWork(s)
    BY <1>2 DEF AuthWork
  <2>2. Work' = Work
    BY <2>1 DEF Work
  <2> QED BY <1>2, <2>2 DEF SendWork
<1>3. ASSUME NEW t \in Thread, Miss(t) PROVE GetsInTime'
  <2>1. /\ UNCHANGED <<now, pc, tries, authAt, sendAt>>
        /\ state' = [state EXCEPT ![t] = "asking"] /\ sentAt' = [sentAt EXCEPT ![t] = now]
        /\ pc[t] = "start" /\ tries[t] = 0
    BY <1>3 DEF Miss, vars, callVars, getVars, LiveInv, Stages
  <2>2. SendWork(t) = 2 * SendMax
    BY <2>1 DEF SendWork
  <2>3. now - now + Cardinality(Work) + SendWork(t) <= GetMax
    BY <1>0, <2>2, WorkBounded
  <2> QED BY <1>0, <1>2, <2>1, <2>3 DEF LiveInv, LiveTypeOK, GetsInTime
<1>4. ASSUME NEW t \in Thread, Hit(t) \/ Fail(t) \/ ReturnTrack(t) \/ Store(t)
      PROVE  GetsInTime'
  <2>1. /\ UNCHANGED <<now, pc, tries, authAt, sendAt, sentAt>>
        /\ \A s \in Thread : state'[s] = "asking" => state[s] = "asking"
    BY <1>4 DEF Hit, Fail, ReturnTrack, Store, vars, callVars, getVars, End, LiveInv, LiveTypeOK
  <2> QED BY <1>2, <2>1 DEF LiveInv, GetsInTime
<1>5. ASSUME NEW t \in Thread, Get(t) PROVE GetsInTime'
  <2>1. CallStep(t) /\ UNCHANGED <<state, sentAt>> /\ Inv /\ Stages
    BY <1>5 DEF Get, listVars, LiveInv
  <2>2. /\ now' = now /\ AuthWork(t)' <= AuthWork(t)
        /\ \A s \in Thread \ {t} : pc'[s] = pc[s] /\ tries'[s] = tries[s] /\ authAt'[s] = authAt[s]
    BY <2>1, CallStepWork
  <2>3. \A s \in Thread : AuthWork(s)' \in Int
    <3>1. Inv'
      BY LiveTypeStep
    <3>2. \A s \in Thread : authAt'[s] \in Nat /\ now' \in Nat
      BY <3>1 DEF Inv, TypeOK
    <3> QED BY <3>2 DEF AuthWork
  <2>4. \A s \in Thread \ {t} : AuthWork(s)' = AuthWork(s)
    BY <2>2 DEF AuthWork
  <2>5. \A s \in Thread : AuthWork(s) \in Int
    BY <2>1, AuthWorkTyped
  <2>6. Work' \subseteq Work /\ Cardinality(Work') <= Cardinality(Work)
    BY <2>1, <2>2, <2>3, <2>4, <2>5, WorkShrinks
  <2>7. Cardinality(Work') \in Nat
    BY <2>6, WorkBounded, FS_Subset, FS_CardinalityType
  <2>8. \A s \in Thread : SendWork(s)' \in Int /\ SendWork(s)' <= SendWork(s)
    BY <1>0, <1>5, GetSendWork
  <2> QED BY <1>0, <2>1, <2>2, <2>6, <2>7, <2>8 DEF LiveInv, GetsInTime
<1> QED BY <1>1, <1>3, <1>4, <1>5 DEF LiveNext, LiveStep

LEMMA LiveInvInit == LiveInit => LiveInv
<1> SUFFICES ASSUME LiveInit PROVE LiveInv
  OBVIOUS
<1>1. Inv
  BY InvInit DEF LiveInit
<1>2. LiveTypeOK
  BY <1>1, LiveAssumption DEF LiveInit, LiveTypeOK, Inv
<1>3. Stages /\ GetsInTime
  BY Numbers DEF LiveInit, Init, Stages, GetsInTime
<1> QED BY <1>1, <1>2, <1>3 DEF LiveInv

LEMMA LiveInvNext == LiveInv /\ [LiveNext]_allVars => LiveInv'
<1>1. ASSUME LiveInv, LiveNext PROVE LiveInv'
  BY <1>1, LiveTypeStep, StagesStep, GetsInTimeStep DEF LiveInv
<1>2. ASSUME LiveInv, UNCHANGED allVars PROVE LiveInv'
  <2> USE <1>2 DEF allVars, listVars, getVars, LiveInv
  <2>1. Inv' /\ TypeOK'
    BY InvNext DEF Inv
  <2>2. LiveTypeOK'
    BY <2>1 DEF LiveTypeOK
  <2> USE DEF vars, callVars
  <2>3. Stages'
    BY DEF Stages
  <2>4. Work' = Work /\ \A t \in Thread : SendWork(t)' = SendWork(t)
    BY DEF Work, AuthWork, SendWork
  <2>5. GetsInTime'
    BY <2>4 DEF GetsInTime
  <2> QED BY <2>1, <2>2, <2>3, <2>5
<1> QED BY <1>1, <1>2

\* The inductive invariant of live traffic.
THEOREM LiveInvariance == LiveSpec => []LiveInv
  BY LiveInvInit, LiveInvNext, PTL DEF LiveSpec

----------------------------------------------------------------------------
(* Live traffic implements the cache.                                      *)

LEMMA CacheInitial == LiveInit => Cache!Init
<1> SUFFICES ASSUME LiveInit PROVE Cache!Init
  OBVIOUS
<1>1. box \in [Thread -> Box \cup {Nothing}] /\ (CHOOSE b \in Box : TRUE) \in Box
  BY LiveAssumption DEF LiveInit
<1>2. CacheBox \in [Thread -> Box]
  BY <1>1 DEF CacheBox, Tracks
<1>3. CacheState = [t \in Thread |-> "idle"] /\ CacheSentAt = [t \in Thread |-> 0]
  BY DEF LiveInit, CacheState, CacheSentAt
<1> QED BY <1>2, <1>3 DEF LiveInit, Init, Cache!Init

\* What a step of a call does to what the cache sees of it.
LEMMA CacheView ==
    ASSUME LiveInv, UNCHANGED box, NEW t \in Thread, NEW how,
           state' = [state EXCEPT ![t] = how]
    PROVE  /\ CacheBox' = CacheBox
           /\ CacheState' = IF t \in Tracks THEN CacheState ELSE [CacheState EXCEPT ![t] = how]
           /\ sentAt' = sentAt => CacheSentAt' = CacheSentAt
           /\ \A at : sentAt' = [sentAt EXCEPT ![t] = at] =>
                CacheSentAt' = IF t \in Tracks THEN CacheSentAt ELSE [CacheSentAt EXCEPT ![t] = at]
<1>1. Tracks' = Tracks
  BY DEF Tracks
<1>2. CacheBox' = CacheBox /\ (sentAt' = sentAt => CacheSentAt' = CacheSentAt)
  BY <1>1 DEF CacheBox, CacheSentAt
<1>3. CacheState' = IF t \in Tracks THEN CacheState ELSE [CacheState EXCEPT ![t] = how]
  BY <1>1 DEF CacheState, LiveInv, LiveTypeOK
<1>4. ASSUME NEW at, sentAt' = [sentAt EXCEPT ![t] = at]
      PROVE  CacheSentAt' = IF t \in Tracks THEN CacheSentAt ELSE [CacheSentAt EXCEPT ![t] = at]
  BY <1>1, <1>4 DEF CacheSentAt, LiveInv, LiveTypeOK
<1> QED BY <1>2, <1>3, <1>4

LEMMA CacheSimulates ==
    ASSUME LiveInv, [LiveNext]_allVars
    PROVE  [Cache!Next]_(Cache!vars)
<1> USE DEF LiveInv, LiveTypeOK, End
<1>0. /\ Stored = Cache!Stored /\ Live = Cache!Live
      /\ \A t \in Thread : t \notin Tracks => /\ CacheState[t] = state[t] /\ CacheBox[t] = box[t]
                                            /\ CacheSentAt[t] = sentAt[t] /\ box[t] \in Box
      /\ \A t \in Thread : CacheState[t] = "asking" => state[t] = "asking" /\ t \notin Tracks
      /\ \A t \in Thread : box[t] \in Box => t \notin Tracks
  BY LiveAssumption DEF Stored, Cache!Stored, Live, Cache!Live, CacheState, CacheBox, CacheSentAt, Tracks
<1>1. CASE LiveTick
  <2>1. \A c \in Thread : CacheState[c] = "asking" => now < CacheSentAt[c] + GetMax
    <3> SUFFICES ASSUME NEW c \in Thread, state[c] = "asking" PROVE now < sentAt[c] + GetMax
      BY <1>0
    <3>1. /\ now' - sentAt'[c] + Cardinality(Work') + SendWork(c)' <= GetMax
          /\ now' = now + 1 /\ sentAt'[c] = sentAt[c]
      BY <1>1, GetsInTimeStep DEF LiveNext, LiveTick, Tick, listVars, GetsInTime
    <3>2. Cardinality(Work') \in Nat
      BY <1>1, TickWork
    <3>3. SendWork(c)' \in Int /\ 0 <= SendWork(c)'
      <4>1. Stages' /\ LiveTypeOK' /\ TypeOK'
        BY <1>1, StagesStep, LiveTypeStep DEF LiveNext
      <4>2. /\ sendAt'[c] \in Nat /\ now' \in Nat
            /\ pc'[c] = "send" => sendAt'[c] <= now' /\ now' <= sendAt'[c] + SendMax
        BY <4>1 DEF Stages, TypeOK
      <4> QED BY <4>2, Numbers DEF SendWork
    <3>4. now \in Nat /\ sentAt[c] \in Nat /\ GetMax \in Nat
      BY CacheAssumption DEF TypeOK
    <3> QED BY <3>1, <3>2, <3>3, <3>4
  <2>2. UNCHANGED <<m, CacheState, CacheSentAt, CacheBox, answer>>
    BY <1>1 DEF LiveTick, listVars, CacheState, CacheSentAt, CacheBox, Tracks
  <2> QED BY <1>1, <2>1, <2>2 DEF LiveTick, Tick, Cache!Tick, Cache!Next
<1>2. ASSUME NEW t \in Thread, Hit(t) PROVE Cache!Hit(t)
  <2>1. /\ state[t] = "idle" /\ box[t] \in Live /\ box[t] \in Box
        /\ state' = [state EXCEPT ![t] = "returned"] /\ sentAt' = sentAt
        /\ answer' = [answer EXCEPT ![t] = m[box[t]].asked]
        /\ UNCHANGED <<now, m, box>>
    BY <1>2 DEF Hit, vars, Live, Stored
  <2>2. /\ CacheState' = [CacheState EXCEPT ![t] = "returned"] /\ CacheSentAt' = CacheSentAt
        /\ CacheBox' = CacheBox
    BY <1>0, <2>1, CacheView
  <2> QED BY <1>0, <2>1, <2>2 DEF Cache!Hit, Cache!Return
<1>3. ASSUME NEW t \in Thread, Miss(t) PROVE Cache!Miss(t) \/ UNCHANGED Cache!vars
  <2>1. /\ state[t] = "idle" /\ box[t] \notin Live
        /\ m' = (IF t \in Tracks THEN m ELSE [m EXCEPT ![box[t]] = Nothing])
        /\ state' = [state EXCEPT ![t] = "asking"] /\ sentAt' = [sentAt EXCEPT ![t] = now]
        /\ UNCHANGED <<now, box, answer>>
    BY <1>3 DEF Miss, vars
  <2>2. CASE t \in Tracks
    BY <2>1, <2>2, CacheView DEF Cache!vars
  <2>3. CASE t \notin Tracks
    <3>1. /\ CacheState' = [CacheState EXCEPT ![t] = "asking"]
          /\ CacheSentAt' = [CacheSentAt EXCEPT ![t] = now] /\ CacheBox' = CacheBox
      BY <2>1, <2>3, CacheView
    <3> QED BY <1>0, <2>1, <2>3, <3>1 DEF Cache!Miss
  <2> QED BY <2>2, <2>3
<1>4. ASSUME NEW t \in Thread, Get(t) PROVE UNCHANGED Cache!vars
  <2>1. now' = now /\ UNCHANGED <<m, state, box, sentAt, answer>>
    BY <1>4, CallStepWork DEF Get, listVars
  <2> QED BY <2>1 DEF Cache!vars, CacheState, CacheSentAt, CacheBox, Tracks
<1>5. ASSUME NEW t \in Thread, Fail(t) \/ ReturnTrack(t) PROVE Cache!Fail(t) \/ UNCHANGED Cache!vars
  <2>1. /\ state[t] = "asking" /\ UNCHANGED <<now, m, box, answer>>
        /\ sentAt' = sentAt
        /\ \/ state' = [state EXCEPT ![t] = "failed"]
           \/ state' = [state EXCEPT ![t] = "returned"] /\ t \in Tracks
    BY <1>5 DEF Fail, ReturnTrack, vars
  <2>2. CASE t \in Tracks
    BY <2>1, <2>2, CacheView DEF Cache!vars
  <2>3. CASE t \notin Tracks
    <3>1. /\ CacheState' = [CacheState EXCEPT ![t] = "failed"] /\ CacheSentAt' = CacheSentAt
          /\ CacheBox' = CacheBox
      BY <2>1, <2>3, CacheView
    <3> QED BY <1>0, <2>1, <2>3, <3>1 DEF Cache!Fail
  <2> QED BY <2>2, <2>3
<1>6. ASSUME NEW t \in Thread, Store(t) PROVE Cache!Store(t)
  <2>1. /\ state[t] = "asking" /\ t \notin Tracks
        /\ \E K \in Kept :
              m' = [b \in Box |->
                      IF b = box[t] THEN [asked |-> sentAt[t], expires |-> now + TTL]
                      ELSE IF b \in K THEN m[b] ELSE Nothing]
        /\ state' = [state EXCEPT ![t] = "returned"] /\ sentAt' = sentAt
        /\ answer' = [answer EXCEPT ![t] = sentAt[t]] /\ UNCHANGED <<now, box>>
    BY <1>6 DEF Store, vars
  <2>2. Kept = Cache!Kept
    BY <1>0, SameSize DEF Kept, Cache!Kept
  <2>3. /\ CacheState' = [CacheState EXCEPT ![t] = "returned"] /\ CacheSentAt' = CacheSentAt
        /\ CacheBox' = CacheBox
    BY <2>1, CacheView
  <2>4. \E K \in Cache!Kept :
           m' = [b \in Box |->
                   IF b = CacheBox[t] THEN [asked |-> CacheSentAt[t], expires |-> now + TTL]
                   ELSE IF b \in K THEN m[b] ELSE Nothing]
    <3>1. CacheBox[t] = box[t] /\ CacheSentAt[t] = sentAt[t]
      BY <1>0, <2>1
    <3> QED BY <2>1, <2>2, <3>1
  <2> QED BY <1>0, <2>1, <2>3, <2>4 DEF Cache!Store, Cache!Return
<1>7. CASE UNCHANGED allVars
  BY <1>7 DEF allVars, vars, listVars, Cache!vars, CacheState, CacheSentAt, CacheBox, Tracks
<1> QED BY <1>1, <1>2, <1>3, <1>4, <1>5, <1>6, <1>7 DEF LiveNext, LiveStep, Cache!Next

\* With tracks and nearby traffic over one token, whose mutex is held across requests,
\* the traffic cache is used as TrafficCache specifies, and no openskyGet takes longer
\* than GetMax, which is all that TrafficCache takes as given.
THEOREM UsesCacheTheorem == LiveSpec => UsesCacheProperly
<1>1. LiveInit => Cache!Init
  BY CacheInitial
<1>2. LiveInv /\ [LiveNext]_allVars => [Cache!Next]_(Cache!vars)
  BY CacheSimulates
<1> QED BY <1>1, <1>2, LiveInvariance, PTL DEF LiveSpec, UsesCacheProperly, Cache!Spec

\* So the map never outgrows trafficCacheMax, whatever the calls do with the token.
THEOREM LiveSizeTheorem == LiveSpec => []Cache!MapBounded
  BY UsesCacheTheorem, SizeTheorem, PTL DEF UsesCacheProperly

\* And no visitor sees aircraft where they were longer ago than the TTL and GetMax.
THEOREM LiveCurrencyTheorem == LiveSpec => Cache!AnswersAreCurrent
  BY UsesCacheTheorem, CurrencyTheorem, PTL DEF UsesCacheProperly

=============================================================================
