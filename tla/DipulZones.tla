----------------------------- MODULE DipulZones -----------------------------
(***************************************************************************)
(* The DiPUL client (dipul.go, dipul_extra.go): concurrent calls that      *)
(* share one anonymous token.  A call is either a zone lookup              *)
(* (FetchAllZoneDetails: the type codes, then the detail of every code in  *)
(* parallel) or a single request (withDipulToken: ground elevation, ED-318 *)
(* zones).  Both retry once after a 401; a detail does not.                *)
(*                                                                         *)
(* Tokens are numbered in the order the server issues them, 0 being none.  *)
(* Their half hour of life is abstracted to Expire, which may happen       *)
(* whenever a token is cached.                                             *)
(***************************************************************************)
EXTENDS Integers, FiniteSets

CONSTANTS
    Lookup,     \* concurrent FetchAllZoneDetails calls
    Single,     \* concurrent withDipulToken calls
    Nobody,     \* the mutex is free
    Code,       \* type codes of zones
    MaxTokens,  \* bound of the tokens issued
    MaxExpiry   \* bound of the tokens that expire

Call == Lookup \cup Single

ASSUME DipulAssumption ==
    /\ Lookup \cap Single = {} /\ Nobody \notin Call
    /\ IsFiniteSet(Code)
    /\ MaxTokens \in Nat /\ MaxExpiry \in Nat

VARIABLES
    mu,        \* who holds dipulToken.mu
    token,     \* dipulToken.token
    expired,   \* time.Now() is not before dipulToken.expires
    issued,    \* tokens issued so far
    expiries,  \* tokens that expired so far
    pc,        \* where each call is
    tok,       \* the token it goes out with
    tries,     \* how often it was sent back by a 401
    codes,     \* the codes the count request returned
    pending,   \* the details it has not collected yet
    areas,     \* the zones it returns
    lost,      \* the details that failed
    rejected   \* tokens whose 401 was acted on

tokenVars == <<mu, token, expired>>
limitVars == <<issued, expiries>>
zoneVars == <<codes, pending, areas, lost>>
vars == <<tokenVars, limitVars, pc, tok, tries, zoneVars, rejected>>

Token == 0..MaxTokens
PC == {"start", "locked", "bmv", "bmdv", "send", "unauthorized", "details", "dropping",
       "ok", "error"}

TypeOK ==
    /\ mu \in Call \cup {Nobody} /\ token \in Token /\ expired \in BOOLEAN
    /\ issued \in Token /\ expiries \in 0..MaxExpiry
    /\ pc \in [Call -> PC] /\ tok \in [Call -> Token] /\ tries \in [Call -> 0..1]
    /\ codes \in [Call -> SUBSET Code] /\ pending \in [Call -> SUBSET Code]
    /\ areas \in [Call -> SUBSET Code] /\ lost \in [Call -> SUBSET Code]
    /\ rejected \subseteq Token

Init ==
    /\ mu = Nobody /\ token = 0 /\ expired = FALSE
    /\ issued = 0 /\ expiries = 0
    /\ pc = [c \in Call |-> "start"]
    /\ tok = [c \in Call |-> 0]
    /\ tries = [c \in Call |-> 0]
    /\ codes = [c \in Call |-> {}]
    /\ pending = [c \in Call |-> {}]
    /\ areas = [c \in Call |-> {}]
    /\ lost = [c \in Call |-> {}]
    /\ rejected = {}

----------------------------------------------------------------------------
Usable == token # 0 /\ ~expired

Goto(c, l) == pc' = [pc EXCEPT ![c] = l]

\* getToken returns k to call c and releases the mutex.
ReturnToken(c, k) ==
    /\ tok' = [tok EXCEPT ![c] = k]
    /\ Goto(c, "send")
    /\ mu' = Nobody

\* Mutant of Lock: the token is read and refreshed without the mutex.
LockNothing(c) ==
    /\ pc[c] = "start"
    /\ mu' = c
    /\ Goto(c, "locked")
    /\ UNCHANGED <<token, expired, limitVars, tok, tries, zoneVars, rejected>>

Lock(c) ==
    /\ pc[c] = "start" /\ mu = Nobody
    /\ mu' = c
    /\ Goto(c, "locked")
    /\ UNCHANGED <<token, expired, limitVars, tok, tries, zoneVars, rejected>>

UseCached(c) ==
    /\ pc[c] = "locked" /\ Usable
    /\ ReturnToken(c, token)
    /\ UNCHANGED <<token, expired, limitVars, tries, zoneVars, rejected>>

\* The tenants are tried in turn, the mutex held.
AskFirstTenant(c) ==
    /\ pc[c] = "locked" /\ ~Usable
    /\ Goto(c, "bmv")
    /\ UNCHANGED <<tokenVars, limitVars, tok, tries, zoneVars, rejected>>

\* Mutant of TenantFails: the error path forgets to unlock.
TenantFailsLocked(c) ==
    /\ \/ pc[c] = "bmv" /\ Goto(c, "bmdv")
       \/ pc[c] = "bmdv" /\ Goto(c, "error")
    /\ UNCHANGED <<tokenVars, limitVars, tok, tries, zoneVars, rejected>>

\* An HTTP error, an answer that does not parse, or an empty token.
TenantFails(c) ==
    /\ \/ pc[c] = "bmv" /\ Goto(c, "bmdv") /\ UNCHANGED mu
       \/ pc[c] = "bmdv" /\ Goto(c, "error") /\ mu' = Nobody
    /\ UNCHANGED <<token, expired, limitVars, tok, tries, zoneVars, rejected>>

TenantGrants(c) ==
    /\ pc[c] \in {"bmv", "bmdv"} /\ issued < MaxTokens
    /\ issued' = issued + 1
    /\ token' = issued + 1 /\ expired' = FALSE
    /\ ReturnToken(c, issued + 1)
    /\ UNCHANGED <<expiries, tries, zoneVars, rejected>>

\* The 28 minutes, less the jitter, are over.
Expire ==
    /\ Usable /\ expiries < MaxExpiry
    /\ expired' = TRUE
    /\ expiries' = expiries + 1
    /\ UNCHANGED <<mu, token, issued, pc, tok, tries, zoneVars, rejected>>

\* The request of a single call, or the count request of a lookup, fails for
\* another reason than a 401, or with its second 401.
SendFails(c) ==
    /\ pc[c] = "send"
    /\ Goto(c, "error")
    /\ UNCHANGED <<tokenVars, limitVars, tok, tries, zoneVars, rejected>>

Unauthorized(c) ==
    /\ pc[c] = "send" /\ tries[c] = 0
    /\ Goto(c, "unauthorized")
    /\ UNCHANGED <<tokenVars, limitVars, tok, tries, zoneVars, rejected>>

\* Mutant of Drop: the token stays cached.
DropNothing(c) ==
    /\ mu = Nobody
    /\ token' = token
    /\ rejected' = rejected \cup {tok[c]}

\* invalidateDipulToken clears whatever is cached by now; expires stays.
Drop(c) ==
    /\ mu = Nobody
    /\ token' = 0
    /\ rejected' = rejected \cup {tok[c]}

Invalidate(c) ==
    /\ pc[c] = "unauthorized"
    /\ Drop(c)
    /\ tries' = [tries EXCEPT ![c] = @ + 1]
    /\ Goto(c, "start")
    /\ UNCHANGED <<mu, expired, limitVars, tok, zoneVars>>

SingleAnswered(c) ==
    /\ c \in Single /\ pc[c] = "send"
    /\ Goto(c, "ok")
    /\ UNCHANGED <<tokenVars, limitVars, tok, tries, zoneVars, rejected>>

\* The codes arrive; a goroutine per code asks for its detail.
CodesArrive(c) ==
    /\ c \in Lookup /\ pc[c] = "send"
    /\ \E S \in SUBSET Code :
         /\ codes' = [codes EXCEPT ![c] = S]
         /\ pending' = [pending EXCEPT ![c] = S]
         /\ Goto(c, IF S = {} THEN "ok" ELSE "details")
    /\ UNCHANGED <<tokenVars, limitVars, tok, tries, areas, lost, rejected>>

\* The lookup takes the result for code z off its channel.
Take(c, z) ==
    /\ pc[c] = "details" /\ z \in pending[c]
    /\ pending' = [pending EXCEPT ![c] = @ \ {z}]

\* With the last result it is done.
GoOn(c, rest) == Goto(c, IF rest = {} THEN "ok" ELSE "details")

\* A detail without areas is left out of the answer.
DetailArrives(c, z) ==
    /\ Take(c, z) /\ GoOn(c, pending[c] \ {z})
    /\ \/ areas' = [areas EXCEPT ![c] = @ \cup {z}]
       \/ UNCHANGED areas
    /\ UNCHANGED <<tokenVars, limitVars, tok, tries, codes, lost, rejected>>

\* A failed detail is left out as well.
DetailFails(c, z) ==
    /\ Take(c, z) /\ GoOn(c, pending[c] \ {z})
    /\ lost' = [lost EXCEPT ![c] = @ \cup {z}]
    /\ UNCHANGED <<tokenVars, limitVars, tok, tries, codes, areas, rejected>>

\* After a 401 the lookup first has to drop the cached token.
DetailUnauthorized(c, z) ==
    /\ Take(c, z) /\ Goto(c, "dropping")
    /\ lost' = [lost EXCEPT ![c] = @ \cup {z}]
    /\ UNCHANGED <<tokenVars, limitVars, tok, tries, codes, areas, rejected>>

\* It waits for the mutex, and the other details wait for it.
DropForDetail(c) ==
    /\ pc[c] = "dropping"
    /\ Drop(c)
    /\ GoOn(c, pending[c])
    /\ UNCHANGED <<mu, expired, limitVars, tok, tries, zoneVars>>

CallStep(c) ==
    \/ Lock(c) \/ UseCached(c) \/ AskFirstTenant(c) \/ TenantFails(c) \/ TenantGrants(c)
    \/ SendFails(c) \/ Unauthorized(c) \/ Invalidate(c)
    \/ SingleAnswered(c) \/ CodesArrive(c) \/ DropForDetail(c)
    \/ \E z \in Code : DetailArrives(c, z) \/ DetailFails(c, z) \/ DetailUnauthorized(c, z)

Next == Expire \/ \E c \in Call : CallStep(c)

Spec == Init /\ [][Next]_vars

\* Every request runs under an http.Client timeout and answers on a channel with
\* room for all details, so a call that can take a step takes one.
FairSpec == Spec /\ \A c \in Call : WF_vars(CallStep(c))

----------------------------------------------------------------------------
\* A token is dead once somebody acted on its 401: getToken returns it to no call any
\* more, neither to the one that retries, which must not go out with the same token
\* again, nor to any other, however the lookups, the details and the refills of the
\* cache interleave ("next request will fetch a fresh token", dipul.go:225).
DeadTokenStaysDead ==
    [][\A c \in Call : pc[c] # "send" /\ pc'[c] = "send" => tok'[c] \notin rejected]_vars

\* A token is only ever issued while no usable one exists: calls that find the
\* cache empty at the same moment do not each get their own, the second finds what
\* the first one cached (getToken checks and fills under one lock).
NoTokenWasted == [][issued' # issued => ~Usable]_vars

\* "Faellt eine Nebenquelle aus ..., der Ausfall steht in `sources`"
\* (docs/api-v1.md:120): a lookup that reports no error has lost no zone.
LossIsReported == \A c \in Lookup : pc[c] = "ok" => lost[c] = {}

\* Every call ends, although the mutex is held across two requests and a lookup that
\* collects its details stops at a 401 until it gets the mutex.
EveryCallEnds == \A c \in Call : <>(pc[c] \in {"ok", "error"})
=============================================================================
