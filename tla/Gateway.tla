------------------------------- MODULE Gateway -------------------------------
(***************************************************************************)
(* The gateway client of the api package (client.go): concurrent gatewayGet*)
(* calls that share one atomic cooldown deadline.  A call reads the        *)
(* deadline, and only then sends; a 429 is answered by storing a new one.  *)
(* Between the two the other calls run.                                    *)
(*                                                                         *)
(* Each member of Call is one gatewayGet: a geocoding or an OpenWeather    *)
(* request.                                                                *)
(***************************************************************************)
EXTENDS Integers

CONSTANTS
    Call,             \* the gatewayGet calls of one behaviour
    RetryAfters,      \* Retry-After values the gateway sends; 0: none, or unparseable
    DefaultCooldown,  \* defaultGatewayCooldown (5 s)
    MaxCooldown,      \* maxGatewayCooldown (120 s)
    MaxTime           \* bound of the clock

ASSUME GatewayAssumption ==
    /\ RetryAfters \subseteq Nat
    /\ DefaultCooldown \in Nat \ {0} /\ DefaultCooldown <= MaxCooldown
    /\ MaxCooldown \in Nat
    /\ MaxTime \in Nat

VARIABLES
    now,
    until,       \* gatewayCooldownUntil: the deadline, 0 when there is none
    state,       \* where each call is
    retryAfter,  \* the Retry-After its 429 carried
    owed,        \* until when a recorded 429 asked this process to stay away
    last429,     \* when a 429 was last recorded, -1 if never
    setter       \* the call that stored the deadline, if any: a set of at most one

vars == <<now, until, state, retryAfter, owed, last429, setter>>

State == {"idle", "sending", "limited", "ok", "failed", "gaveUp", "refused"}

TypeOK ==
    /\ now \in Nat
    /\ until \in Nat
    /\ state \in [Call -> State]
    /\ retryAfter \in [Call -> Nat]
    /\ owed \in Nat
    /\ last429 \in Nat \cup {-1}
    /\ setter \in SUBSET Call

Init ==
    /\ now = 0
    /\ until = 0
    /\ state = [c \in Call |-> "idle"]
    /\ retryAfter = [c \in Call |-> 0]
    /\ owed = 0
    /\ last429 = -1
    /\ setter = {}

----------------------------------------------------------------------------
\* gatewayCooldownRemaining
Remaining == IF until > now THEN until - now ELSE 0

\* setGatewayCooldown's default and clamp.
Cooldown(d) == IF d = 0 THEN DefaultCooldown
               ELSE IF d > MaxCooldown THEN MaxCooldown ELSE d

Become(c, s) == state' = [state EXCEPT ![c] = s]

\* Mutant of Refuse: the deadline is compared with zero and not with the clock.
RefuseForEver(c) ==
    /\ state[c] = "idle"
    /\ until # 0
    /\ Become(c, "refused")
    /\ UNCHANGED <<now, until, retryAfter, owed, last429, setter>>

\* gatewayGet under an active cooldown: an error, without a request.
Refuse(c) ==
    /\ state[c] = "idle"
    /\ Remaining > 0
    /\ Become(c, "refused")
    /\ UNCHANGED <<now, until, retryAfter, owed, last429, setter>>

\* gatewayGet passes the check and sends.
Send(c) ==
    /\ state[c] = "idle"
    /\ Remaining = 0
    /\ Become(c, "sending")
    /\ UNCHANGED <<now, until, retryAfter, owed, last429, setter>>

\* doRequestWith: 2xx, or an error that is no 429 (401, 5xx, timeout).
Receive(c) ==
    /\ state[c] = "sending"
    /\ Become(c, "ok") \/ Become(c, "failed")
    /\ UNCHANGED <<now, until, retryAfter, owed, last429, setter>>

\* doRequestWith: a 429 becomes a rateLimitError with the parsed Retry-After.
Receive429(c) ==
    /\ state[c] = "sending"
    /\ Become(c, "limited")
    /\ \E d \in RetryAfters : retryAfter' = [retryAfter EXCEPT ![c] = d]
    /\ UNCHANGED <<now, until, owed, last429, setter>>

\* Mutant of Record: only the first 429 of the process sets a deadline.
RecordOnce(c) ==
    /\ state[c] = "limited"
    /\ until' = IF until = 0 THEN now + Cooldown(retryAfter[c]) ELSE until
    /\ Become(c, "gaveUp")
    /\ owed' = IF now + Cooldown(retryAfter[c]) > owed
               THEN now + Cooldown(retryAfter[c]) ELSE owed
    /\ last429' = now /\ setter' = IF until = 0 THEN {c} ELSE setter
    /\ UNCHANGED <<now, retryAfter>>

\* setGatewayCooldown stores the new deadline over whatever is there.
Record(c) ==
    /\ state[c] = "limited"
    /\ until' = now + Cooldown(retryAfter[c])
    /\ Become(c, "gaveUp")
    /\ owed' = IF now + Cooldown(retryAfter[c]) > owed
               THEN now + Cooldown(retryAfter[c]) ELSE owed
    /\ last429' = now /\ setter' = {c}
    /\ UNCHANGED <<now, retryAfter>>

Tick ==
    /\ now < MaxTime
    /\ now' = now + 1
    /\ UNCHANGED <<until, state, retryAfter, owed, last429, setter>>

CallStep(c) == Refuse(c) \/ Send(c) \/ Receive(c) \/ Receive429(c) \/ Record(c)

Next == Tick \/ \E c \in Call : CallStep(c)

Spec == Init /\ [][Next]_vars

----------------------------------------------------------------------------
\* However absurd the Retry-After values and however many calls store one, the
\* process is never locked out for longer than maxGatewayCooldown.
LockoutBounded == Remaining <= MaxCooldown

\* No call is refused for nothing: a 429 was recorded less than the longest
\* cooldown ago, whichever call met it (the deadline is shared and outlives it).
RefusedOnlyAfter429 ==
    [][\A c \in Call : state[c] # "refused" /\ state'[c] = "refused" =>
         last429 >= 0 /\ now - last429 < MaxCooldown]_vars

\* While a recorded 429 still asks for silence no call is sent: "all concurrent
\* requests back off together instead of hammering" (client.go:73-75).  It fails
\* when the 429s ask for different waits: a shorter one is stored over a longer one.
BackOffTogether ==
    [][\A c \in Call : state[c] # "sending" /\ state'[c] = "sending" => now >= owed]_vars

\* What storing one deadline over another can cost, and no more: a call goes out
\* ahead of the silence some 429 asked for by at most the difference between two
\* waits, however many calls met a 429 and in whatever order they recorded it
\* (setGatewayCooldown).  With equal waits that is backing off together.
SilenceCutOnlyBySpread ==
    [][\A c \in Call : state[c] # "sending" /\ state'[c] = "sending" =>
         \/ now >= owed
         \/ \E d, e \in RetryAfters : owed - now <= Cooldown(d) - Cooldown(e)]_vars
=============================================================================
