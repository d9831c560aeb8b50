-------------------------- MODULE ApiRequest_proofs --------------------------
(***************************************************************************)
(* Proofs about the shared cooldown of the gateway client, for any number  *)
(* of concurrent calls and any Retry-After values; then about the requests *)
(* that make the calls, for any number of them on either route.            *)
(***************************************************************************)
EXTENDS ApiRequest, TLAPS

\* The default and the clamp make every wait one between 1 and maxGatewayCooldown.
LEMMA CooldownBounded ==
    ASSUME NEW d \in Nat
    PROVE  Cooldown(d) \in 1..MaxCooldown \cup 1..DefaultCooldown /\ Cooldown(d) <= MaxCooldown
BY GatewayAssumption DEF Cooldown

----------------------------------------------------------------------------
\* The deadline is the one its setter stored, when a 429 was last recorded.
Deadline ==
    until > 0 => \E c \in Call : /\ setter = {c} /\ state[c] = "gaveUp"
                                 /\ until = last429 + Cooldown(retryAfter[c])

\* What calls were asked for is a wait of the gateway.
Asked ==
    /\ \A c \in Call : state[c] \in {"limited", "gaveUp"} => retryAfter[c] \in RetryAfters
    /\ owed > 0 => until > 0 /\ \E d \in RetryAfters : owed <= last429 + Cooldown(d)

\* The inductive invariant: the deadline belongs to a 429 of the past, and so does
\* the silence this process owes.
Inv ==
    /\ TypeOK
    /\ last429 <= now
    /\ until > 0 => last429 >= 0
    /\ Deadline
    /\ Asked

LEMMA InvInit == Init => Inv
BY DEF Init, Inv, TypeOK, State, Deadline, Asked

LEMMA InvRecord == ASSUME Inv, NEW c \in Call, Record(c) PROVE Inv'
<1> DEFINE d == Cooldown(retryAfter[c])
<1>1. d \in Nat /\ d > 0
  BY CooldownBounded, GatewayAssumption DEF Inv, TypeOK
<1>2. retryAfter' = retryAfter /\ retryAfter[c] \in RetryAfters
  BY DEF Record, Inv, Asked
<1>3. until' = now + d /\ last429' = now /\ now' = now /\ setter' = {c}
  BY DEF Record
<1>4. owed' \in Nat /\ (owed' = now + d \/ (owed' = owed /\ now + d <= owed))
  BY <1>1 DEF Record, Inv, TypeOK
<1>5. state' = [state EXCEPT ![c] = "gaveUp"] /\ state[c] = "limited"
  BY DEF Record, Become
<1>6. TypeOK'
  BY <1>1, <1>2, <1>3, <1>4, <1>5, GatewayAssumption DEF Inv, TypeOK, State
<1>7. Deadline'
  BY <1>2, <1>3, <1>5 DEF Inv, TypeOK, Deadline, Cooldown
<1>8. Asked'
  <2>1. \A e \in Call : state'[e] \in {"limited", "gaveUp"} => retryAfter'[e] \in RetryAfters
    BY <1>2, <1>5 DEF Inv, TypeOK, Asked
  <2>2. \E e \in RetryAfters : owed' <= last429' + Cooldown(e)
    <3>1. CASE owed' = now + d
      BY <1>1, <1>2, <1>3, <3>1 DEF Inv, TypeOK
    <3>2. CASE owed' = owed /\ now + d <= owed
      <4>1. PICK e \in RetryAfters : owed <= last429 + Cooldown(e)
        BY <1>1, <3>2 DEF Inv, TypeOK, Asked
      <4>2. Cooldown(e) \in Nat
        BY CooldownBounded, GatewayAssumption
      <4> QED BY <1>3, <3>2, <4>1, <4>2 DEF Inv, TypeOK
    <3> QED BY <1>4, <3>1, <3>2
  <2>3. until' > 0
    BY <1>1, <1>3 DEF Inv, TypeOK
  <2> QED BY <2>1, <2>2, <2>3 DEF Asked, Cooldown
<1> QED BY <1>3, <1>6, <1>7, <1>8 DEF Inv, TypeOK

LEMMA InvNext == Inv /\ [Next]_vars => Inv'
<1> SUFFICES ASSUME Inv, [Next]_vars PROVE Inv'
  OBVIOUS
<1> USE DEF Inv, TypeOK, Deadline, Asked, Cooldown
<1>1. CASE Tick BY <1>1 DEF Tick
<1>2. ASSUME NEW c \in Call, CallStep(c) PROVE Inv'
  <2>1. CASE Refuse(c) BY <2>1 DEF Refuse, Become, State
  <2>2. CASE Send(c) BY <2>2 DEF Send, Become, State
  <2>3. CASE Receive(c) BY <2>3 DEF Receive, Become, State
  <2>4. CASE Receive429(c)
    <3>1. PICK d \in RetryAfters : retryAfter' = [retryAfter EXCEPT ![c] = d]
      BY <2>4 DEF Receive429
    <3>2. d \in Nat
      BY GatewayAssumption
    <3> QED BY <2>4, <3>1, <3>2 DEF Receive429, Become, State
  <2>5. CASE Record(c) BY <2>5, InvRecord
  <2> QED BY <1>2, <2>1, <2>2, <2>3, <2>4, <2>5 DEF CallStep
<1>3. CASE UNCHANGED vars BY <1>3 DEF vars
<1> QED BY <1>1, <1>2, <1>3 DEF Next

\* The deadline is never further from the 429 it belongs to than the clamp.
LEMMA DeadlineClamped == ASSUME Inv, until > 0 PROVE until <= last429 + MaxCooldown
<1>1. PICK c \in Call : until = last429 + Cooldown(retryAfter[c])
  BY DEF Inv, Deadline
<1>2. Cooldown(retryAfter[c]) \in Nat /\ Cooldown(retryAfter[c]) <= MaxCooldown
  BY CooldownBounded, GatewayAssumption DEF Inv, TypeOK
<1> QED BY <1>1, <1>2, GatewayAssumption DEF Inv, TypeOK

\* The deadline and what is owed are those of recorded 429s (setGatewayCooldown).
THEOREM Invariance == Spec => []Inv
BY InvInit, InvNext, PTL DEF Spec

\* The process is never locked out for longer than maxGatewayCooldown.
THEOREM LockoutTheorem == Spec => []LockoutBounded
<1>1. Inv => LockoutBounded
  BY DeadlineClamped, GatewayAssumption DEF Inv, TypeOK, LockoutBounded, Remaining
<1> QED BY <1>1, Invariance, PTL

\* No call is refused unless a 429 was recorded within the longest cooldown.
THEOREM RefusalTheorem == Spec => RefusedOnlyAfter429
<1> DEFINE Justified == \A c \in Call : state[c] # "refused" /\ state'[c] = "refused" =>
                          last429 >= 0 /\ now - last429 < MaxCooldown
<1>1. Inv /\ [Next]_vars => [Justified]_vars
  <2> SUFFICES ASSUME Inv, Next, NEW c \in Call,
                      state[c] # "refused", state'[c] = "refused"
               PROVE  last429 >= 0 /\ now - last429 < MaxCooldown
    BY DEF vars
  <2>1. ~Tick
    BY DEF Tick
  <2>2. PICK e \in Call : CallStep(e)
    BY <2>1 DEF Next
  <2>3. Refuse(e)
    BY <2>2 DEF CallStep, Send, Receive, Receive429, Record, Become, Inv, TypeOK
  <2> QED BY <2>3, DeadlineClamped, GatewayAssumption DEF Refuse, Remaining, Inv, TypeOK
<1> QED BY <1>1, Invariance, PTL DEF Spec, RefusedOnlyAfter429

----------------------------------------------------------------------------
\* A call goes out ahead of the silence a recorded 429 asked for by no more than the
\* difference between two waits, whatever calls stored their deadlines in whatever
\* order (gatewayGet, setGatewayCooldown).
THEOREM SpreadTheorem == Spec => SilenceCutOnlyBySpread
<1> DEFINE Cut == \A c \in Call : state[c] # "sending" /\ state'[c] = "sending" =>
                    \/ now >= owed
                    \/ \E d, e \in RetryAfters : owed - now <= Cooldown(d) - Cooldown(e)
<1>1. Inv /\ [Next]_vars => [Cut]_vars
  <2> SUFFICES ASSUME Inv, Next, NEW c \in Call,
                      state[c] # "sending", state'[c] = "sending", now < owed
               PROVE  \E d, e \in RetryAfters : owed - now <= Cooldown(d) - Cooldown(e)
    BY DEF vars, Inv, TypeOK
  <2>1. ~Tick
    BY DEF Tick
  <2>2. PICK s \in Call : CallStep(s)
    BY <2>1 DEF Next
  <2>3. Send(s)
    BY <2>2 DEF CallStep, Refuse, Receive, Receive429, Record, Become, Inv, TypeOK
  <2>4. until <= now
    BY <2>3 DEF Send, Remaining, Inv, TypeOK
  <2>5. until > 0 /\ \E d \in RetryAfters : owed <= last429 + Cooldown(d)
    BY DEF Inv, TypeOK, Asked
  <2>6. PICK d \in RetryAfters : owed <= last429 + Cooldown(d)
    BY <2>5
  <2>7. PICK e \in RetryAfters : until = last429 + Cooldown(e)
    BY <2>5 DEF Inv, Deadline, Asked
  <2>8. Cooldown(d) \in Nat /\ Cooldown(e) \in Nat
    BY CooldownBounded, GatewayAssumption
  <2>9. owed - now <= Cooldown(d) - Cooldown(e)
    BY <2>4, <2>6, <2>7, <2>8 DEF Inv, TypeOK
  <2> QED BY <2>9
<1> QED BY <1>1, Invariance, PTL DEF Spec, SilenceCutOnlyBySpread

----------------------------------------------------------------------------
\* To the gateway a request is two calls: what the handlers do besides leaves it alone.
LEMMA RequestStepsGateway == [RequestNext]_allVars => [Next]_vars
<1> SUFFICES ASSUME RequestNext PROVE [Next]_vars
  BY DEF allVars
<1>1. CASE Tick /\ UNCHANGED requestVars
  BY <1>1 DEF Next
<1>2. ASSUME NEW r \in Req, Step(r) PROVE [Next]_vars
  <2>1. <<r, "locate">> \in Call /\ <<r, "weather">> \in Call
    BY RequestAssumption DEF RequestAssumption
  <2>2. CASE Calling(<<r, "locate">>) \/ Calling(<<r, "weather">>)
    BY <2>1, <2>2 DEF Calling, Next
  <2>3. CASE Reject(r) \/ Accept(r) \/ ResolveCoords(r) \/ ResolveAddress(r) \/ Lookup(r) \/ Judge(r)
    BY <2>3 DEF Reject, Accept, ResolveCoords, ResolveAddress, Lookup, Judge
  <2> QED BY <1>2, <2>2, <2>3 DEF Step
<1> QED BY <1>1, <1>2 DEF RequestNext

\* So whatever is proved of the gateway holds while requests use it.
THEOREM RequestsUseGateway == RequestSpec => Spec
<1>1. RequestInit => Init
  BY DEF RequestInit
<1> QED BY <1>1, RequestStepsGateway, PTL DEF RequestSpec, Spec

\* A request has its answer when it is done and not before; one that holds coordinates
\* is never turned down, and has a place once they are resolved.
Answering ==
    \A r \in Req :
        /\ stage[r] # "done" => answer[r] = "none"
        /\ query[r] = "coords" =>
             /\ stage[r] \in {"located", "fetching", "done"} => place[r] # "none"
             /\ stage[r] = "done" => answer[r] \in {"verdict", "weather_unavailable"}

\* Whoever met a 429 itself is told a wait no shorter than the cooldown it stored.
Telling ==
    \A r \in Req : answer[r] = "rate_limited" =>
        /\ toldAt[r] <= now
        /\ route[r] = "api" /\ state[<<r, "locate">>] = "gaveUp" =>
             Cooldown(retryAfter[<<r, "locate">>]) <= hint[r]

RequestInv == Inv /\ RequestTypeOK /\ Answering /\ Telling

LEMMA CoordsAccepted == ASSUME NEW r \in Req, query[r] = "coords" PROVE Rejection(r) = "none"
BY DEF Rejection, Admitted, ApiRejection, PageRejection

LEMMA RejectionTyped ==
    ASSUME NEW r \in Req
    PROVE  Rejection(r) \in Answer /\ Rejection(r) # "rate_limited"
<1>1. ApiRejection(query[r]) \in {"method_not_allowed", "invalid_coordinates",
                                  "location_missing", "address_too_long", "none"}
  BY DEF ApiRejection
<1>2. PageRejection(query[r]) \in {"redirect", "invalid_coordinates", "address_missing",
                                   "address_too_long", "none"}
  BY DEF PageRejection
<1> QED BY <1>1, <1>2 DEF Rejection, Answer

LEMMA HintTyped == ASSUME RequestInv, NEW r \in Req PROVE Hint(r) \in Nat
<1>1. <<r, "locate">> \in Call /\ DefaultHint \in Nat
  BY RequestAssumption DEF RequestAssumption
<1>2. retryAfter[<<r, "locate">>] \in Nat
  BY <1>1 DEF RequestInv, Inv, TypeOK
<1> QED BY <1>1, <1>2 DEF Hint

LEMMA HintLongEnough ==
    ASSUME RequestInv, NEW r \in Req, route[r] = "api"
    PROVE  Cooldown(retryAfter[<<r, "locate">>]) <= Hint(r) \/ state[<<r, "locate">>] # "gaveUp"
<1>1. <<r, "locate">> \in Call /\ DefaultHint \in Nat /\ DefaultCooldown <= DefaultHint
  BY RequestAssumption DEF RequestAssumption
<1>2. retryAfter[<<r, "locate">>] \in Nat
  BY <1>1 DEF RequestInv, Inv, TypeOK
<1> QED BY <1>1, <1>2, GatewayAssumption DEF Hint, Cooldown

LEMMA RequestInvInit == RequestInit => RequestInv
<1> SUFFICES ASSUME RequestInit PROVE RequestInv
  OBVIOUS
<1>1. Inv
  BY InvInit DEF RequestInit
<1>2. RequestTypeOK
  BY <1>1 DEF RequestInit, RequestTypeOK, Inv, Stage, Answer
<1>3. Answering
  BY DEF RequestInit, Answering
<1>4. Telling
  BY DEF RequestInit, Telling
<1> QED BY <1>1, <1>2, <1>3, <1>4 DEF RequestInv

\* The answers that tell no wait.
LEMMA ReplyWithoutHint ==
    ASSUME RequestInv, NEW r \in Req, NEW a \in Answer, stage[r] # "done",
           query[r] = "coords" => a \in {"verdict", "weather_unavailable"} /\ place[r] # "none",
           a \notin {"none", "rate_limited"},
           Reply(r, a, 0), UNCHANGED <<vars, route, query, place>>
    PROVE  RequestInv'
<1> USE DEF RequestInv, Reach, Reply, vars
<1>1. Inv'
  BY DEF Inv, TypeOK, Deadline, Asked, Cooldown
<1>2. RequestTypeOK'
  BY <1>1 DEF RequestTypeOK, Stage, Inv, TypeOK
<1>3. Answering'
  BY DEF RequestTypeOK, Answering
<1>4. Telling'
  BY DEF RequestTypeOK, Telling, Cooldown
<1> QED BY <1>1, <1>2, <1>3, <1>4

\* The steps that answer nothing yet.
LEMMA GoingOn ==
    ASSUME RequestInv, NEW r \in Req, NEW s \in Stage \ {"done"}, stage[r] # "done",
           Reach(r, s), NEW p \in {"none", "named", "raw"},
           place' = [place EXCEPT ![r] = p],
           query[r] = "coords" /\ s \in {"located", "fetching"} => p # "none",
           UNCHANGED <<vars, route, query, answer, hint, toldAt>>
    PROVE  RequestInv'
<1> USE DEF RequestInv, Reach, vars
<1>1. Inv'
  BY DEF Inv, TypeOK, Deadline, Asked, Cooldown
<1>2. RequestTypeOK'
  BY <1>1 DEF RequestTypeOK, Inv
<1>3. Answering'
  BY DEF RequestTypeOK, Answering, Stage
<1>4. Telling'
  BY DEF Telling, Cooldown
<1> QED BY <1>1, <1>2, <1>3, <1>4

LEMMA RequestInvAddress == ASSUME RequestInv, NEW r \in Req, ResolveAddress(r) PROVE RequestInv'
<1> USE DEF Reach, Reply
<1>1. /\ stage[r] = "locating" /\ query[r] = "address" /\ UNCHANGED <<vars, route, query>>
  BY DEF ResolveAddress
<1>2. CASE Reach(r, "located") /\ place' = [place EXCEPT ![r] = "named"]
           /\ UNCHANGED <<answer, hint, toldAt>>
  BY <1>1, <1>2, GoingOn DEF Stage
<1>3. CASE \E a \in {"address_not_found", "geocoder_unavailable"} :
             Reply(r, a, 0) /\ UNCHANGED place
  BY <1>1, <1>3, ReplyWithoutHint DEF Answer
<1>4. CASE Reply(r, "rate_limited", Hint(r)) /\ UNCHANGED place
  <2> USE DEF RequestInv, vars
  <2>1. Inv'
    BY <1>1 DEF Inv, TypeOK, Deadline, Asked, Cooldown
  <2>2. Hint(r) \in Nat /\ now \in Nat
    BY HintTyped DEF Inv, TypeOK
  <2>3. RequestTypeOK'
    BY <1>1, <1>4, <2>1, <2>2 DEF RequestTypeOK, Stage, Answer, Inv
  <2>4. Answering'
    BY <1>1, <1>4 DEF RequestTypeOK, Answering
  <2>5. Telling'
    <3> SUFFICES ASSUME NEW q \in Req, answer'[q] = "rate_limited"
                 PROVE  /\ toldAt'[q] <= now'
                        /\ route'[q] = "api" /\ state'[<<q, "locate">>] = "gaveUp" =>
                             Cooldown(retryAfter'[<<q, "locate">>]) <= hint'[q]
      BY DEF Telling, Cooldown
    <3>1. CASE q = r
      BY <1>1, <1>4, <2>2, <3>1, HintLongEnough DEF RequestTypeOK
    <3>2. CASE q # r
      BY <1>1, <1>4, <3>2 DEF RequestTypeOK, Telling
    <3> QED BY <3>1, <3>2
  <2> QED BY <2>1, <2>3, <2>4, <2>5
<1> QED BY <1>2, <1>3, <1>4 DEF ResolveAddress

LEMMA RequestInvStep ==
    ASSUME RequestInv, NEW r \in Req,
           \/ Reject(r) \/ Accept(r) \/ ResolveCoords(r) \/ ResolveAddress(r)
           \/ Lookup(r) \/ Judge(r)
    PROVE  RequestInv'
<1>1. place[r] \in {"none", "named", "raw"} /\ place = [place EXCEPT ![r] = place[r]]
  BY DEF RequestInv, RequestTypeOK
<1>2. CASE Reject(r)
  BY <1>2, RejectionTyped, CoordsAccepted, ReplyWithoutHint DEF Reject
<1>3. CASE Accept(r)
  BY <1>1, <1>3, GoingOn DEF Accept, Stage
<1>4. CASE ResolveCoords(r)
  <2>1. PICK p \in {"named", "raw"} : place' = [place EXCEPT ![r] = p]
    BY <1>4 DEF ResolveCoords
  <2> QED BY <1>4, <2>1, GoingOn DEF ResolveCoords, Stage
<1>5. CASE ResolveAddress(r)
  BY <1>5, RequestInvAddress
<1>6. CASE Lookup(r)
  <2>1. stage[r] = "located" /\ UNCHANGED <<vars, route, query, place>>
    BY <1>6 DEF Lookup
  <2>2. CASE Reply(r, "verdict", 0)
    BY <2>1, <2>2, ReplyWithoutHint DEF Answer, RequestInv, Answering
  <2>3. CASE Reach(r, "fetching") /\ UNCHANGED <<answer, hint, toldAt>>
    <3>1. query[r] = "coords" => place[r] # "none"
      BY <2>1 DEF RequestInv, Answering
    <3> QED BY <1>1, <2>1, <2>3, <3>1, GoingOn DEF Stage
  <2> QED BY <1>6, <2>2, <2>3 DEF Lookup
<1>7. CASE Judge(r)
  <2>1. PICK a \in {"verdict", "weather_unavailable"} : Reply(r, a, 0)
    BY <1>7 DEF Judge
  <2>2. query[r] = "coords" => place[r] # "none"
    BY <1>7 DEF Judge, RequestInv, Answering
  <2> QED BY <1>7, <2>1, <2>2, ReplyWithoutHint DEF Judge, Answer
<1> QED BY <1>2, <1>3, <1>4, <1>5, <1>6, <1>7

\* A gateway call steps while its request waits for it: those that are answered have no
\* call under way.
LEMMA RequestInvCalling ==
    ASSUME RequestInv, NEW c \in Call, Calling(c), Inv'
    PROVE  RequestInv'
<1> USE DEF RequestInv, requestVars
<1>1. UNCHANGED requestVars /\ now' = now
  BY DEF Calling, CallStep, Refuse, Send, Receive, Receive429, Record
<1>2. RequestTypeOK' /\ Answering'
  BY <1>1 DEF RequestTypeOK, Answering, Inv
<1>3. Telling'
  <2> SUFFICES ASSUME NEW r \in Req, answer[r] = "rate_limited"
               PROVE  /\ state'[<<r, "locate">>] = state[<<r, "locate">>]
                      /\ retryAfter'[<<r, "locate">>] = retryAfter[<<r, "locate">>]
    BY <1>1 DEF Telling, Cooldown
  <2>1. stage[r] = "done" /\ <<r, "locate">> \in Call
    BY RequestAssumption DEF Answering, RequestAssumption
  <2>2. c # <<r, "locate">>
    BY <2>1 DEF Calling, CallAllowed
  <2> QED BY <2>1, <2>2 DEF Calling, CallStep, Refuse, Send, Receive, Receive429, Record, Become,
                            Inv, TypeOK
<1> QED BY <1>2, <1>3

LEMMA RequestInvNext == RequestInv /\ [RequestNext]_allVars => RequestInv'
<1> SUFFICES ASSUME RequestInv, [RequestNext]_allVars PROVE RequestInv'
  OBVIOUS
<1>1. Inv'
  BY RequestStepsGateway, InvNext DEF RequestInv
<1>2. CASE Tick /\ UNCHANGED requestVars
  BY <1>1, <1>2 DEF Tick, requestVars, RequestInv, RequestTypeOK, Answering, Telling, Cooldown,
                    Inv, TypeOK
<1>3. ASSUME NEW r \in Req, Step(r) PROVE RequestInv'
  <2>1. <<r, "locate">> \in Call /\ <<r, "weather">> \in Call
    BY RequestAssumption DEF RequestAssumption
  <2> QED BY <1>1, <1>3, <2>1, RequestInvStep, RequestInvCalling DEF Step
<1>4. CASE UNCHANGED allVars
  BY <1>1, <1>4 DEF allVars, vars, requestVars, RequestInv, RequestTypeOK, Answering, Telling,
                    Cooldown, Inv
<1> QED BY <1>2, <1>3, <1>4 DEF RequestNext

\* The inductive invariant of requests and gateway: who has coordinates is answered
\* without a geocoder (resolveCoords), on every path of the handlers.
THEOREM RequestInvariance == RequestSpec => []RequestInv
BY RequestInvInit, RequestInvNext, PTL DEF RequestSpec

\* Type correctness of requests and gateway calls.
THEOREM RequestTypeCorrect == RequestSpec => []RequestTypeOK
<1>1. RequestInv => RequestTypeOK
  BY DEF RequestInv
<1> QED BY <1>1, RequestInvariance, PTL

\* A request with coordinates ends in a verdict, or without a forecast, whatever any
\* number of other requests and the gateway do (resolveCoords).
THEOREM CoordinatesTheorem == RequestSpec => []CoordinatesNeedNoGateway
<1>1. RequestInv => CoordinatesNeedNoGateway
  BY DEF RequestInv, Answering, CoordinatesNeedNoGateway
<1> QED BY <1>1, RequestInvariance, PTL

----------------------------------------------------------------------------
\* Whoever comes back after the wait it was told finds the cooldown over, at any later
\* time, for any waits of the gateway and any number of requests: unless somebody met a
\* 429 after its answer; or the deadline was another's, and then the clamp less what it
\* waited bounds what is left (apiv1.go:277-283, setGatewayCooldown).
THEOREM HeedingTheorem == RequestSpec => []HeedingKeepsOut
<1>1. ASSUME RequestInv PROVE HeedingKeepsOut
  <2> SUFFICES ASSUME NEW r \in Req, answer[r] = "rate_limited", route[r] = "api",
                      now >= toldAt[r] + hint[r], Remaining > 0, ~(last429 > toldAt[r])
               PROVE  <<r, "locate">> \notin setter /\ Remaining <= MaxCooldown - hint[r]
    BY DEF HeedingKeepsOut
  <2>1. /\ now \in Nat /\ until \in Nat /\ last429 \in Int
        /\ toldAt[r] \in Nat /\ hint[r] \in Nat /\ MaxCooldown \in Nat
    BY <1>1, GatewayAssumption DEF RequestInv, RequestTypeOK, Inv, TypeOK
  <2>2. until > now /\ Remaining = until - now /\ last429 <= toldAt[r]
    BY <2>1 DEF Remaining
  <2>3. Remaining <= MaxCooldown - hint[r]
    BY <1>1, <2>1, <2>2, DeadlineClamped DEF RequestInv
  <2>4. PICK c \in Call : setter = {c} /\ state[c] = "gaveUp"
                          /\ until = last429 + Cooldown(retryAfter[c])
    BY <1>1, <2>1, <2>2 DEF RequestInv, Inv, Deadline
  <2>5. c # <<r, "locate">>
    <3> SUFFICES ASSUME c = <<r, "locate">> PROVE FALSE
      OBVIOUS
    <3>1. Cooldown(retryAfter[c]) <= hint[r]
      BY <1>1, <2>4 DEF RequestInv, Telling
    <3>2. Cooldown(retryAfter[c]) \in Nat
      BY <1>1, CooldownBounded, GatewayAssumption DEF RequestInv, Inv, TypeOK
    <3> QED BY <2>1, <2>2, <2>4, <3>1, <3>2
  <2> QED BY <2>3, <2>4, <2>5
<1> QED BY <1>1, RequestInvariance, PTL
=============================================================================
