----------------------------- MODULE RateLimiter -----------------------------
(***************************************************************************)
(* The per-address rate limiting of the HTTP server (main.go): concurrent  *)
(* requests that look their token bucket up in a sync.Map, and the         *)
(* goroutine that removes the buckets of addresses not seen for a while.   *)
(*                                                                         *)
(* One tick refills one token of a bucket of Burst tokens.  The cleaner    *)
(* looks at lastSeen under the bucket's mutex and deletes the entry after  *)
(* it has let go of it.  Delay bounds how long a request is inside         *)
(* getLimiter and Allow, Lag how late a round of the cleaner may end.      *)
(***************************************************************************)
EXTENDS Integers, FiniteSets

CONSTANTS
    Addr,       \* client addresses
    Req,        \* requests of one behaviour
    NoBucket,   \* no entry in the map, no bucket yet
    Burst,      \* tokens of a full bucket (10)
    IdleCutoff, \* an address not seen for longer is forgotten (10 min)
    Interval,   \* period of the cleaner (5 min)
    Delay, Lag, \* see above
    LastCall,   \* bound of the time when requests come
    MaxTime     \* bound of the clock

Bucket == [tokens : 0..Burst, filled : Nat, lastSeen : Int]

\* An idle address has earned two bursts again before it is forgotten (in the code, a
\* hundred tokens' time against bursts of ten).
ASSUME LimiterAssumption ==
    /\ IsFiniteSet(Addr) /\ IsFiniteSet(Req)
    /\ Burst \in Nat \ {0} /\ Interval \in Nat \ {0}
    /\ IdleCutoff \in Nat /\ Delay \in Nat /\ Lag \in Nat
    /\ LastCall \in Nat /\ MaxTime \in Nat
    /\ NoBucket \notin Bucket \cup Req \cup Addr
    /\ IdleCutoff >= 2 * Burst + 3 * Delay

VARIABLES
    now,
    limiters,  \* the sync.Map: each address's bucket, named by its first request
    bucket,    \* the ipLimiters
    pc, addr,  \* where each request is, and its address
    arrived,   \* the time it read on entry
    mine,      \* the bucket LoadOrStore returned
    cutoff,    \* the cleaner's cutoff
    todo,      \* addresses its Range has still to visit
    doomed,    \* the address it is about to delete, or NoBucket
    nextClean, \* the next tick of the cleaner's ticker
    allowance  \* tokens a bucket that is never forgotten would have, per address

reqVars == <<pc, addr, arrived, mine>>
cleanVars == <<cutoff, todo, doomed, nextClean>>
vars == <<now, limiters, bucket, reqVars, cleanVars, allowance>>

TypeOK ==
    /\ now \in Nat
    /\ limiters \in [Addr -> Req \cup {NoBucket}]
    /\ bucket \in [Req -> Bucket \cup {NoBucket}]
    /\ pc \in [Req -> {"idle", "loading", "touching", "asking", "served", "refused"}]
    /\ addr \in [Req -> Addr] /\ arrived \in [Req -> Nat]
    /\ mine \in [Req -> Req \cup {NoBucket}]
    /\ cutoff \in Int /\ todo \subseteq Addr
    /\ doomed \in Addr \cup {NoBucket} /\ nextClean \in Nat
    /\ allowance \in [Addr -> Int]

Init ==
    /\ now = 0
    /\ limiters = [a \in Addr |-> NoBucket]
    /\ bucket = [r \in Req |-> NoBucket]
    /\ pc = [r \in Req |-> "idle"]
    /\ addr \in [Req -> Addr]
    /\ arrived = [r \in Req |-> 0]
    /\ mine = [r \in Req |-> NoBucket]
    /\ cutoff = 0 /\ todo = {} /\ doomed = NoBucket /\ nextClean = Interval
    /\ allowance = [a \in Addr |-> Burst]

----------------------------------------------------------------------------
Goto(r, l) == pc' = [pc EXCEPT ![r] = l]

\* Tokens of bucket b by now: rate.Limiter refills when it is asked.
Tokens(b) == IF bucket[b].tokens + (now - bucket[b].filled) > Burst THEN Burst
             ELSE bucket[b].tokens + (now - bucket[b].filled)

\* getLimiter reads the time.
Arrive(r) ==
    /\ pc[r] = "idle" /\ now <= LastCall
    /\ Goto(r, "loading")
    /\ arrived' = [arrived EXCEPT ![r] = now]
    /\ UNCHANGED <<now, limiters, bucket, addr, mine, cleanVars, allowance>>

\* Mutant of LoadOrStore: a plain Store.
StoreAlways(r) ==
    /\ pc[r] = "loading"
    /\ limiters' = [limiters EXCEPT ![addr[r]] = r]
    /\ bucket' = [bucket EXCEPT ![r] =
                    [tokens |-> Burst, filled |-> now, lastSeen |-> arrived[r]]]
    /\ mine' = [mine EXCEPT ![r] = r]
    /\ Goto(r, "touching")
    /\ UNCHANGED <<now, addr, arrived, cleanVars, allowance>>

\* LoadOrStore of a new, full bucket.
LoadOrStore(r) ==
    /\ pc[r] = "loading"
    /\ IF limiters[addr[r]] = NoBucket
       THEN /\ limiters' = [limiters EXCEPT ![addr[r]] = r]
            /\ bucket' = [bucket EXCEPT ![r] =
                            [tokens |-> Burst, filled |-> now, lastSeen |-> arrived[r]]]
       ELSE UNCHANGED <<limiters, bucket>>
    /\ mine' = [mine EXCEPT ![r] = limiters'[addr[r]]]
    /\ Goto(r, "touching")
    /\ UNCHANGED <<now, addr, arrived, cleanVars, allowance>>

\* Mutant of Touch: lastSeen stays what it was when the bucket was made.
TouchNothing(r) ==
    /\ pc[r] = "touching"
    /\ Goto(r, "asking")
    /\ UNCHANGED <<now, limiters, bucket, addr, arrived, mine, cleanVars, allowance>>

\* lastSeen is set, under the bucket's mutex, to the time read on entry.
Touch(r) ==
    /\ pc[r] = "touching"
    /\ bucket' = [bucket EXCEPT ![mine[r]].lastSeen = arrived[r]]
    /\ Goto(r, "asking")
    /\ UNCHANGED <<now, limiters, addr, arrived, mine, cleanVars, allowance>>

\* Allow takes a token, or the request is answered with a 429.
Allow(r) ==
    /\ pc[r] = "asking"
    /\ IF Tokens(mine[r]) > 0
       THEN /\ bucket' = [bucket EXCEPT ![mine[r]].tokens = Tokens(mine[r]) - 1,
                                        ![mine[r]].filled = now]
            /\ allowance' = [allowance EXCEPT ![addr[r]] = @ - 1]
            /\ Goto(r, "served")
       ELSE Goto(r, "refused") /\ UNCHANGED <<bucket, allowance>>
    /\ UNCHANGED <<now, limiters, addr, arrived, mine, cleanVars>>

\* A tick of the ticker starts a Range over the addresses in the map; a tick
\* missed while one ran would be dropped.
StartCleaning ==
    /\ todo = {} /\ doomed = NoBucket /\ now >= nextClean
    /\ cutoff' = now - IdleCutoff
    /\ todo' = {a \in Addr : limiters[a] # NoBucket}
    /\ nextClean' = nextClean + Interval
    /\ UNCHANGED <<now, limiters, bucket, reqVars, doomed, allowance>>

\* The bucket's lastSeen is compared under its mutex.
Inspect(a) ==
    /\ doomed = NoBucket /\ a \in todo
    /\ todo' = todo \ {a}
    /\ doomed' = IF bucket[limiters[a]].lastSeen < cutoff THEN a ELSE NoBucket
    /\ UNCHANGED <<now, limiters, bucket, reqVars, cutoff, nextClean, allowance>>

\* Mutant of Delete: the entry stays in the map.
DeleteNothing ==
    /\ doomed # NoBucket
    /\ doomed' = NoBucket
    /\ UNCHANGED <<now, limiters, bucket, reqVars, cutoff, todo, nextClean, allowance>>

\* The entry is deleted whatever happened to it since.
Delete ==
    /\ doomed # NoBucket
    /\ limiters' = [limiters EXCEPT ![doomed] = NoBucket]
    /\ doomed' = NoBucket
    /\ UNCHANGED <<now, bucket, reqVars, cutoff, todo, nextClean, allowance>>

\* Time passes, but neither a request nor the cleaner dawdles for ever.
Tick ==
    /\ now < MaxTime
    /\ \A r \in Req : pc[r] \in {"loading", "touching", "asking"} => now < arrived[r] + Delay
    /\ now < nextClean + Lag
    /\ todo # {} \/ doomed # NoBucket => now < nextClean - Interval + Lag
    /\ now' = now + 1
    /\ allowance' = [a \in Addr |-> IF allowance[a] < Burst THEN allowance[a] + 1 ELSE Burst]
    /\ UNCHANGED <<limiters, bucket, reqVars, cleanVars>>

Next ==
    \/ Tick
    \/ \E r \in Req : Arrive(r) \/ LoadOrStore(r) \/ Touch(r) \/ Allow(r)
    \/ StartCleaning \/ (\E a \in Addr : Inspect(a)) \/ Delete

Spec == Init /\ [][Next]_vars

----------------------------------------------------------------------------
\* A bucket the cleaner judges idle is full at the moment of that judgement, although
\* requests write lastSeen in any order and take their token after they have written it.
\* What may happen to it before it is deleted is AtMostOneExtraBurst.
IdleBucketsAreFull ==
    [][doomed = NoBucket /\ doomed' # NoBucket => Tokens(limiters[doomed']) = Burst]_vars

\* A race of the cleaner with an address that comes back costs one burst, and what the
\* forgotten bucket refills for requests that still hold it, and no more: by the time
\* the cleaner can forget the next bucket, the debt is earned again.
AtMostOneExtraBurst == \A a \in Addr : allowance[a] >= -(Burst + Delay)

\* The map gives back every address: none stays for longer than the cutoff, a
\* period of the cleaner and the delays after it was last seen.
AddressesAreForgotten ==
    \A a \in Addr : limiters[a] # NoBucket =>
        now - bucket[limiters[a]].lastSeen <= IdleCutoff + Interval + Lag
=============================================================================
