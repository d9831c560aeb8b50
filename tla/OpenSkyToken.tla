---------------------------- MODULE OpenSkyToken ----------------------------
(***************************************************************************)
(* The OAuth2 token cache of the OpenSky client and the calls that use it  *)
(* (opensky.go): getOpenskyToken, invalidate, and openskyGet with its one  *)
(* retry after a 401.  The mutex is held across the request to the         *)
(* authentication server, so the calls queue behind it.                    *)
(*                                                                         *)
(* Tokens are numbered in the order the server issues them; 0 is the empty *)
(* string, with which a call goes out anonymously.  The authentication     *)
(* request runs under an http.Client timeout, Latency.                     *)
(***************************************************************************)
EXTENDS Integers, FiniteSets

CONSTANTS
    Thread,     \* concurrent openskyGet calls
    Nobody,     \* the mutex is free
    Lifetimes,  \* expires_in values of the server
    Margin,     \* refreshed this long before expiry (30 s)
    Jitters,    \* the random extra margin (0..29 s)
    Backoff,    \* no authentication for this long after a failed one (5 min)
    Latency,    \* bound of one authentication request (8 s)
    MaxTokens,  \* bound of the tokens issued
    MaxTime     \* bound of the clock

ASSUME TokenAssumption ==
    /\ Nobody \notin Thread
    /\ Lifetimes \subseteq Nat /\ Jitters \subseteq Nat
    /\ Margin \in Nat /\ Backoff \in Nat /\ Latency \in Nat
    /\ MaxTokens \in Nat /\ MaxTime \in Nat

VARIABLES
    now,
    creds,       \* hasOpenskyCreds
    mu,          \* who holds openskyToken.mu
    token,       \* openskyToken.token
    expires,     \* openskyToken.expires
    retryAfter,  \* openskyToken.retryAfter, 0 when zero
    pc,          \* where each call is
    tok,         \* the token it goes out with, 0 while it does not
    tries,       \* how often it was sent back by a 401
    rejected,    \* the token of its first 401, until it ends
    authAt,      \* when it asked the authentication server, 0 if it is not asking
    issued,      \* how many tokens the server has issued: 1..issued
    lifeEnds,    \* when the cached token ends by the server's own reckoning
    failedAt     \* when an authentication last failed, -1 if never

cacheVars == <<token, expires, retryAfter>>
callVars == <<pc, tok, tries, rejected, authAt>>
ghostVars == <<issued, lifeEnds, failedAt>>
vars == <<now, creds, mu, cacheVars, callVars, ghostVars>>

PC == {"start", "locked", "auth", "send", "unauthorized", "done"}
Token == 0..MaxTokens

TypeOK ==
    /\ now \in Nat /\ creds \in BOOLEAN
    /\ mu \in Thread \cup {Nobody}
    /\ token \in Token /\ expires \in Nat /\ retryAfter \in Nat
    /\ pc \in [Thread -> PC]
    /\ tok \in [Thread -> Token]
    /\ tries \in [Thread -> 0..1]
    /\ rejected \in [Thread -> Token]
    /\ authAt \in [Thread -> Nat]
    /\ issued \in Token /\ lifeEnds \in Nat
    /\ failedAt \in Nat \cup {-1}

Init ==
    /\ now = 0 /\ creds \in BOOLEAN /\ mu = Nobody
    /\ token = 0 /\ expires = 0 /\ retryAfter = 0
    /\ pc = [t \in Thread |-> "start"]
    /\ tok = [t \in Thread |-> 0]
    /\ tries = [t \in Thread |-> 0]
    /\ rejected = [t \in Thread |-> 0]
    /\ authAt = [t \in Thread |-> 0]
    /\ issued = 0 /\ lifeEnds = 0
    /\ failedAt = -1

----------------------------------------------------------------------------
\* The cached token may be used.
Cached == token # 0 /\ now < expires

Resting == now < retryAfter

Goto(t, l) == pc' = [pc EXCEPT ![t] = l]

\* getOpenskyToken returns s to call t and releases the mutex.
ReturnToken(t, s) ==
    /\ tok' = [tok EXCEPT ![t] = s]
    /\ authAt' = [authAt EXCEPT ![t] = 0]
    /\ Goto(t, "send")
    /\ mu' = Nobody

\* openskyGet returns.
Return(t) ==
    /\ Goto(t, "done")
    /\ tok' = [tok EXCEPT ![t] = 0]
    /\ rejected' = [rejected EXCEPT ![t] = 0]
    /\ authAt' = [authAt EXCEPT ![t] = 0]

\* getOpenskyToken waits for the mutex.
Lock(t) ==
    /\ pc[t] = "start" /\ mu = Nobody
    /\ mu' = t
    /\ Goto(t, "locked")
    /\ UNCHANGED <<now, creds, cacheVars, tok, tries, rejected, authAt, ghostVars>>

UseCached(t) ==
    /\ pc[t] = "locked" /\ Cached
    /\ ReturnToken(t, token)
    /\ UNCHANGED <<now, creds, cacheVars, tries, rejected, ghostVars>>

\* No credentials, or the authentication failed a short while ago.
GoAnonymous(t) ==
    /\ pc[t] = "locked" /\ ~Cached
    /\ ~creds \/ Resting
    /\ ReturnToken(t, 0)
    /\ UNCHANGED <<now, creds, cacheVars, tries, rejected, ghostVars>>

\* Mutant of Authenticate: the pause after a failure is not looked at.
AuthenticateAnyway(t) ==
    /\ pc[t] = "locked" /\ ~Cached
    /\ creds
    /\ Goto(t, "auth")
    /\ authAt' = [authAt EXCEPT ![t] = now]
    /\ UNCHANGED <<now, creds, mu, cacheVars, tok, tries, rejected, ghostVars>>

Authenticate(t) ==
    /\ pc[t] = "locked" /\ ~Cached
    /\ creds /\ ~Resting
    /\ Goto(t, "auth")
    /\ authAt' = [authAt EXCEPT ![t] = now]
    /\ UNCHANGED <<now, creds, mu, cacheVars, tok, tries, rejected, ghostVars>>

\* Mutant of AuthFails: the pause does not start now.
AuthFailsInThePast(t) ==
    /\ pc[t] = "auth"
    /\ retryAfter' = Backoff
    /\ failedAt' = now
    /\ ReturnToken(t, 0)
    /\ UNCHANGED <<now, creds, token, expires, tries, rejected, issued, lifeEnds>>

\* The server did not answer 2xx: anonymous, and a pause for everybody.
AuthFails(t) ==
    /\ pc[t] = "auth"
    /\ retryAfter' = now + Backoff
    /\ failedAt' = now
    /\ ReturnToken(t, 0)
    /\ UNCHANGED <<now, creds, token, expires, tries, rejected, issued, lifeEnds>>

\* Mutant of AuthIsGarbage: the error path forgets to unlock.
AuthIsGarbageLocked(t) ==
    /\ pc[t] = "auth"
    /\ Return(t)
    /\ UNCHANGED <<now, creds, mu, cacheVars, tries, ghostVars>>

\* 2xx without a token in it: the call fails, and nothing is remembered.
AuthIsGarbage(t) ==
    /\ pc[t] = "auth"
    /\ Return(t) /\ mu' = Nobody
    /\ UNCHANGED <<now, creds, cacheVars, tries, ghostVars>>

\* Mutant of AuthGrants: a token is cached with the expiry of the server.
AuthGrantsNoMargin(t) ==
    /\ pc[t] = "auth" /\ issued < MaxTokens
    /\ \E life \in Lifetimes :
         /\ token' = issued + 1 /\ expires' = now + life
         /\ lifeEnds' = authAt[t] + life
    /\ issued' = issued + 1
    /\ ReturnToken(t, issued + 1)
    /\ UNCHANGED <<now, creds, retryAfter, tries, rejected, failedAt>>

\* A token, cached unless it would be refreshed at once.
AuthGrants(t) ==
    /\ pc[t] = "auth" /\ issued < MaxTokens
    /\ \E life \in Lifetimes, j \in Jitters :
         LET ttl == life - Margin - j
         IN  IF ttl <= 0 THEN UNCHANGED <<token, expires, lifeEnds>>
             ELSE /\ token' = issued + 1 /\ expires' = now + ttl
                  /\ lifeEnds' = authAt[t] + life
    /\ issued' = issued + 1
    /\ ReturnToken(t, issued + 1)
    /\ UNCHANGED <<now, creds, retryAfter, tries, rejected, failedAt>>

\* doRequest: answered, or failed for another reason than a 401.
Served(t) ==
    /\ pc[t] = "send"
    /\ Return(t)
    /\ UNCHANGED <<now, creds, mu, cacheVars, tries, ghostVars>>

\* Mutant of Unauthorized: every 401 is followed by another try.
UnauthorizedAgain(t) ==
    /\ pc[t] = "send"
    /\ IF creds
       THEN /\ Goto(t, "unauthorized")
            /\ rejected' = [rejected EXCEPT ![t] = tok[t]]
            /\ tok' = [tok EXCEPT ![t] = 0]
            /\ UNCHANGED authAt
       ELSE Return(t)
    /\ UNCHANGED <<now, creds, mu, cacheVars, tries, ghostVars>>

\* A 401, which only a first try with credentials survives.
Unauthorized(t) ==
    /\ pc[t] = "send"
    /\ IF creds /\ tries[t] = 0
       THEN /\ Goto(t, "unauthorized")
            /\ rejected' = [rejected EXCEPT ![t] = tok[t]]
            /\ tok' = [tok EXCEPT ![t] = 0]
            /\ UNCHANGED authAt
       ELSE Return(t)
    /\ UNCHANGED <<now, creds, mu, cacheVars, tries, ghostVars>>

\* Mutant of Invalidate: the cache keeps its token.
InvalidateNothing(t) ==
    /\ pc[t] = "unauthorized" /\ mu = Nobody
    /\ tries' = [tries EXCEPT ![t] = @ + 1]
    /\ Goto(t, "start")
    /\ UNCHANGED <<now, creds, mu, cacheVars, tok, rejected, authAt, ghostVars>>

\* invalidate drops whatever token is cached by now, and the call starts over.
Invalidate(t) ==
    /\ pc[t] = "unauthorized" /\ mu = Nobody
    /\ token' = 0 /\ expires' = 0
    /\ tries' = [tries EXCEPT ![t] = @ + 1]
    /\ Goto(t, "start")
    /\ lifeEnds' = 0
    /\ UNCHANGED <<now, creds, mu, retryAfter, tok, rejected, authAt, issued, failedAt>>

\* The clock does not pass an authentication request that has timed out.
Tick ==
    /\ now < MaxTime
    /\ \A t \in Thread : pc[t] = "auth" => now < authAt[t] + Latency
    /\ now' = now + 1
    /\ UNCHANGED <<creds, mu, cacheVars, callVars, ghostVars>>

CallStep(t) ==
    \/ Lock(t) \/ UseCached(t) \/ GoAnonymous(t) \/ Authenticate(t)
    \/ AuthFails(t) \/ AuthIsGarbage(t) \/ AuthGrants(t)
    \/ Served(t) \/ Unauthorized(t) \/ Invalidate(t)

Next == Tick \/ \E t \in Thread : CallStep(t)

Spec == Init /\ [][Next]_vars

----------------------------------------------------------------------------
\* The one retry after a 401 never goes out with the token just rejected, though
\* other calls refill the cache between the 401, invalidate and the retry.
RetryUsesFreshToken ==
    \A t \in Thread : tries[t] = 1 /\ pc[t] = "send" /\ rejected[t] # 0 => tok[t] # rejected[t]

\* The pause after a failed authentication and a usable token exclude each other,
\* so no caller goes out anonymously while another could have had the token.
PauseExcludesToken == Resting => ~Cached

\* A token handed out from the cache is still accepted by the server for at least
\* the margin, less what the authentication request took.
CachedTokenHasLife == Cached => lifeEnds - now > Margin - Latency

\* "Don't hammer the auth server after a recent failure" (opensky.go:67).  A failure
\* is a request the server did not answer with a 2xx: after an answer with no token in
\* it (AuthIsGarbage) the next call asks again at once.
PausesAfterFailure ==
    [][\A t \in Thread : pc[t] # "auth" /\ pc'[t] = "auth" =>
         failedAt = -1 \/ now >= failedAt + Backoff]_vars
=============================================================================
