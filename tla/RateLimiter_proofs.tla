------------------------- MODULE RateLimiter_proofs -------------------------
(***************************************************************************)
(* Proofs about the rate limiting, for any addresses and requests, bursts, *)
(* cutoffs, periods and delays.                                            *)
(*                                                                         *)
(* A bucket that is forgotten while requests still hold it serves beside   *)
(* its successor.  Debts accounts for both: what the address has left is   *)
(* no less than what the two buckets have together, minus one burst, minus *)
(* what the old one has refilled since its holders arrived.  Earned says   *)
(* how the debt shrinks with the time the address has not been seen, so    *)
(* that a bucket which is judged idle finds none.                          *)
(***************************************************************************)
EXTENDS RateLimiter, TLAPS

\* In getLimiter or Allow, and with a bucket in hand.
Inside(r) == pc[r] \in {"loading", "touching", "asking"}
Holds(r) == pc[r] \in {"touching", "asking"}

\* Requests of a whose bucket the map has forgotten.
Old(a) == {r \in Req : Holds(r) /\ addr[r] = a /\ mine[r] # limiters[a]}

Cleaning == todo # {} \/ doomed # NoBucket

\* Every bucket in the map or in hand was made by a request of its own address, and is
\* not made again.
Buckets ==
    /\ \A a \in Addr : limiters[a] # NoBucket =>
         /\ bucket[limiters[a]] \in Bucket /\ addr[limiters[a]] = a
         /\ pc[limiters[a]] \notin {"idle", "loading"}
    /\ \A r \in Req : Holds(r) =>
         /\ mine[r] \in Req /\ bucket[mine[r]] \in Bucket /\ addr[mine[r]] = addr[r]
         /\ pc[mine[r]] \notin {"idle", "loading"}

Cleaner ==
    /\ \A a \in Addr : a \in todo \/ doomed = a => limiters[a] # NoBucket
    /\ doomed \notin todo
    /\ nextClean - Interval <= now /\ now <= nextClean + Lag
    /\ Cleaning => /\ now <= nextClean - Interval + Lag
                   /\ nextClean - Interval - IdleCutoff <= cutoff
                   /\ cutoff <= now - IdleCutoff

\* lastSeen lies behind by the delay of whoever wrote it.
Seen ==
    \A r \in Req : Inside(r) =>
        /\ arrived[r] <= now /\ now <= arrived[r] + Delay
        /\ pc[r] = "asking" => bucket[mine[r]].lastSeen >= arrived[r] - Delay
        /\ Holds(r) /\ mine[r] # limiters[addr[r]] /\ limiters[addr[r]] # NoBucket =>
             bucket[limiters[addr[r]]].lastSeen >= arrived[r] - Delay

Filled ==
    \A b \in Req : bucket[b] # NoBucket =>
        bucket[b].filled <= now /\ bucket[b].filled <= bucket[b].lastSeen + 2 * Delay

\* What the present round of the cleaner, or the one before it, has left.
Visited ==
    \A a \in Addr : limiters[a] # NoBucket =>
        bucket[limiters[a]].lastSeen >=
            nextClean - Interval - IdleCutoff - (IF a \in todo \/ doomed = a THEN Interval ELSE 0)

\* What a's next request finds.
Current(a) == IF limiters[a] = NoBucket THEN Burst ELSE Tokens(limiters[a])

Debt(a) ==
    /\ allowance[a] <= Burst
    /\ allowance[a] >= Current(a) - Burst - Delay
    /\ \A r \in Old(a) :
         /\ allowance[a] >= Current(a) + Tokens(mine[r]) - Burst - (now - arrived[r])
         /\ \A s \in Old(a) : mine[s] = mine[r]
    /\ doomed = a => allowance[a] >= Current(a) /\ Old(a) = {}

Debts == \A a \in Addr : Debt(a)

Earned ==
    \A a \in Addr : limiters[a] # NoBucket =>
        \/ allowance[a] = Burst
        \/ allowance[a] >= now - bucket[limiters[a]].lastSeen - Burst - 3 * Delay

Inv == TypeOK /\ Buckets /\ Cleaner /\ Seen /\ Filled /\ Visited /\ Debts /\ Earned

----------------------------------------------------------------------------
(* What the operations do to the buckets.                                  *)

LEMMA ConstantTypes ==
    /\ Burst \in Nat \ {0} /\ Interval \in Nat \ {0} /\ IdleCutoff \in Nat
    /\ Delay \in Nat /\ Lag \in Nat /\ LastCall \in Nat /\ MaxTime \in Nat
    /\ IdleCutoff >= 2 * Burst + 3 * Delay
    /\ NoBucket \notin Bucket /\ NoBucket \notin Req /\ NoBucket \notin Addr
  BY LimiterAssumption DEF LimiterAssumption

LEMMA BucketFields ==
    ASSUME NEW b \in Bucket
    PROVE  /\ b.tokens \in 0..Burst /\ b.filled \in Nat /\ b.lastSeen \in Int /\ b # NoBucket
  BY ConstantTypes DEF Bucket

\* A bucket holds no more than Burst, and nothing negative.
LEMMA TokensTyped ==
    ASSUME TypeOK, Filled, NEW b \in Req, bucket[b] \in Bucket
    PROVE  /\ Tokens(b) \in Int /\ 0 <= Tokens(b) /\ Tokens(b) <= Burst
  BY ConstantTypes, BucketFields DEF TypeOK, Filled, Tokens

\* A tick refills one token at most.
LEMMA TokensTick ==
    ASSUME TypeOK, Filled, NEW b \in Req, bucket[b] \in Bucket,
           now' = now + 1, UNCHANGED bucket
    PROVE  /\ Tokens(b)' \in Int /\ Tokens(b)' <= Tokens(b) + 1 /\ Tokens(b)' <= Burst
           /\ 0 <= Tokens(b)'
  BY ConstantTypes, BucketFields DEF TypeOK, Filled, Tokens

LEMMA TokensSame ==
    ASSUME NEW b \in Req, UNCHANGED now, bucket'[b].tokens = bucket[b].tokens,
           bucket'[b].filled = bucket[b].filled
    PROVE  Tokens(b)' = Tokens(b)
  BY DEF Tokens

LEMMA CreateEffect ==
    ASSUME TypeOK, NEW r \in Req, LoadOrStore(r), limiters[addr[r]] = NoBucket
    PROVE  /\ limiters'[addr[r]] = r /\ mine'[r] = r
           /\ \A a \in Addr \ {addr[r]} : limiters'[a] = limiters[a]
           /\ \A b \in Req \ {r} : bucket'[b] = bucket[b] /\ mine'[b] = mine[b]
           /\ bucket'[r] \in Bucket /\ bucket'[r].tokens = Burst /\ bucket'[r].filled = now
           /\ bucket'[r].lastSeen = arrived[r]
<1>1. /\ limiters' = [limiters EXCEPT ![addr[r]] = r]
      /\ bucket' = [bucket EXCEPT ![r] =
                      [tokens |-> Burst, filled |-> now, lastSeen |-> arrived[r]]]
  BY DEF LoadOrStore
<1>2. mine' = [mine EXCEPT ![r] = r]
  BY <1>1 DEF LoadOrStore, TypeOK
<1>3. [tokens |-> Burst, filled |-> now, lastSeen |-> arrived[r]] \in Bucket
  BY ConstantTypes DEF TypeOK, Bucket
<1> QED BY <1>1, <1>2, <1>3 DEF TypeOK

LEMMA JoinEffect ==
    ASSUME TypeOK, NEW r \in Req, LoadOrStore(r), limiters[addr[r]] # NoBucket
    PROVE  /\ UNCHANGED <<limiters, bucket>> /\ mine'[r] = limiters[addr[r]]
           /\ \A b \in Req \ {r} : mine'[b] = mine[b]
  BY DEF LoadOrStore, TypeOK

LEMMA TouchEffect ==
    ASSUME TypeOK, Buckets, NEW r \in Req, Touch(r)
    PROVE  /\ mine[r] \in Req /\ bucket'[mine[r]] \in Bucket
           /\ bucket'[mine[r]].tokens = bucket[mine[r]].tokens
           /\ bucket'[mine[r]].filled = bucket[mine[r]].filled
           /\ bucket'[mine[r]].lastSeen = arrived[r]
           /\ \A b \in Req \ {mine[r]} : bucket'[b] = bucket[b]
           /\ bucket' \in [Req -> Bucket \cup {NoBucket}]
<1>1. mine[r] \in Req /\ bucket[mine[r]] \in Bucket
  BY DEF Touch, Buckets, Holds
<1>2. bucket' = [bucket EXCEPT ![mine[r]] = [bucket[mine[r]] EXCEPT !.lastSeen = arrived[r]]]
  BY DEF Touch
<1>3. /\ [bucket[mine[r]] EXCEPT !.lastSeen = arrived[r]] \in Bucket
      /\ [bucket[mine[r]] EXCEPT !.lastSeen = arrived[r]].tokens = bucket[mine[r]].tokens
      /\ [bucket[mine[r]] EXCEPT !.lastSeen = arrived[r]].filled = bucket[mine[r]].filled
      /\ [bucket[mine[r]] EXCEPT !.lastSeen = arrived[r]].lastSeen = arrived[r]
  BY <1>1 DEF TypeOK, Bucket
<1> HIDE DEF Bucket
<1>4. /\ bucket'[mine[r]] = [bucket[mine[r]] EXCEPT !.lastSeen = arrived[r]]
      /\ \A b \in Req \ {mine[r]} : bucket'[b] = bucket[b]
  BY <1>1, <1>2 DEF TypeOK
<1>5. bucket' \in [Req -> Bucket \cup {NoBucket}]
  BY <1>1, <1>2, <1>3 DEF TypeOK
<1> QED BY <1>1, <1>3, <1>4, <1>5

LEMMA AllowEffect ==
    ASSUME TypeOK, Buckets, Filled, NEW r \in Req, Allow(r), Tokens(mine[r]) > 0
    PROVE  /\ mine[r] \in Req /\ bucket'[mine[r]] \in Bucket
           /\ bucket'[mine[r]].tokens = Tokens(mine[r]) - 1
           /\ bucket'[mine[r]].filled = now
           /\ bucket'[mine[r]].lastSeen = bucket[mine[r]].lastSeen
           /\ \A b \in Req \ {mine[r]} : bucket'[b] = bucket[b]
           /\ bucket' \in [Req -> Bucket \cup {NoBucket}]
           /\ Tokens(mine[r])' = Tokens(mine[r]) - 1
           /\ allowance'[addr[r]] = allowance[addr[r]] - 1
           /\ \A a \in Addr \ {addr[r]} : allowance'[a] = allowance[a]
           /\ allowance' \in [Addr -> Int]
           /\ pc'[r] = "served" /\ \A s \in Req \ {r} : pc'[s] = pc[s]
<1>1. mine[r] \in Req /\ bucket[mine[r]] \in Bucket
  BY DEF Allow, Buckets, Holds
<1>2. Tokens(mine[r]) - 1 \in 0..Burst /\ Tokens(mine[r]) \in Int
  BY <1>1, ConstantTypes, TokensTyped
<1> DEFINE new == [bucket[mine[r]] EXCEPT !.tokens = Tokens(mine[r]) - 1, !.filled = now]
<1>3. new \in Bucket /\ new.tokens = Tokens(mine[r]) - 1 /\ new.filled = now
      /\ new.lastSeen = bucket[mine[r]].lastSeen
  BY <1>1, <1>2 DEF TypeOK, Bucket
<1>4. bucket' = [bucket EXCEPT ![mine[r]] = new]
  <2>1. bucket' = [bucket EXCEPT ![mine[r]].tokens = Tokens(mine[r]) - 1,
                                 ![mine[r]].filled = now]
    BY DEF Allow
  <2> QED BY <1>1, <2>1 DEF TypeOK, Bucket
<1>5. /\ bucket'[mine[r]] = new /\ \A b \in Req \ {mine[r]} : bucket'[b] = bucket[b]
      /\ bucket' \in [Req -> Bucket \cup {NoBucket}]
  <2> HIDE DEF new
  <2> QED BY <1>1, <1>3, <1>4 DEF TypeOK
<1>6. Tokens(mine[r])' = Tokens(mine[r]) - 1
  <2>1. mine' = mine /\ now' = now /\ now \in Nat
    BY DEF Allow, TypeOK
  <2> HIDE DEF new
  <2>2. bucket'[mine[r]].tokens + (now - bucket'[mine[r]].filled) = Tokens(mine[r]) - 1
    BY <1>2, <1>3, <1>5, <2>1
  <2> QED BY <1>2, <2>1, <2>2, ConstantTypes DEF Tokens
<1>7. /\ allowance'[addr[r]] = allowance[addr[r]] - 1
      /\ \A a \in Addr \ {addr[r]} : allowance'[a] = allowance[a]
      /\ allowance' \in [Addr -> Int]
      /\ pc'[r] = "served" /\ \A s \in Req \ {r} : pc'[s] = pc[s]
  BY DEF Allow, TypeOK, Goto
<1> QED BY <1>1, <1>3, <1>5, <1>6, <1>7

----------------------------------------------------------------------------
(* Every step keeps the invariant.                                         *)

LEMMA InvInit == Init => Inv
<1> SUFFICES ASSUME Init PROVE Inv
  OBVIOUS
<1> USE ConstantTypes
<1>1. TypeOK
  BY DEF Init, TypeOK
<1>2. Buckets /\ Cleaner /\ Seen /\ Filled /\ Visited /\ Earned
  BY DEF Init, Buckets, Holds, Inside, Cleaner, Cleaning, Seen, Filled, Visited, Earned
<1>3. Debts
  BY DEF Init, Debts, Debt, Old, Holds, Current
<1> QED BY <1>1, <1>2, <1>3 DEF Inv

\* Type correctness of each step.
LEMMA TypeStep == ASSUME Inv, [Next]_vars PROVE TypeOK'
<1> USE ConstantTypes DEF Inv, TypeOK, Goto, reqVars, cleanVars
<1>1. CASE Tick
  BY <1>1 DEF Tick
<1>2. ASSUME NEW r \in Req, Arrive(r) PROVE TypeOK'
  BY <1>2 DEF Arrive
<1>3. ASSUME NEW r \in Req, LoadOrStore(r) PROVE TypeOK'
  <2>1. [tokens |-> Burst, filled |-> now, lastSeen |-> arrived[r]] \in Bucket
    BY DEF Bucket
  <2>2. limiters' \in [Addr -> Req \cup {NoBucket}] /\ bucket' \in [Req -> Bucket \cup {NoBucket}]
    BY <1>3, <2>1 DEF LoadOrStore
  <2> QED BY <1>3, <2>2 DEF LoadOrStore
<1>4. ASSUME NEW r \in Req, Touch(r) PROVE TypeOK'
  BY <1>4, TouchEffect DEF Touch
<1>5. ASSUME NEW r \in Req, Allow(r) PROVE TypeOK'
  <2>1. CASE Tokens(mine[r]) > 0
    BY <1>5, <2>1, AllowEffect DEF Allow
  <2>2. CASE ~(Tokens(mine[r]) > 0)
    BY <1>5, <2>2 DEF Allow
  <2> QED BY <2>1, <2>2
<1>6. CASE StartCleaning
  BY <1>6 DEF StartCleaning
<1>7. ASSUME NEW a \in Addr, Inspect(a) PROVE TypeOK'
  BY <1>7 DEF Inspect
<1>8. CASE Delete
  BY <1>8 DEF Delete
<1>9. CASE UNCHANGED vars
  BY <1>9 DEF vars
<1> QED BY <1>1, <1>2, <1>3, <1>4, <1>5, <1>6, <1>7, <1>8, <1>9 DEF Next

LEMMA BucketsStep == ASSUME Inv, Next PROVE Buckets'
<1> USE ConstantTypes DEF Inv, TypeOK, Buckets, Holds, Goto, reqVars, cleanVars
<1>1. CASE Tick \/ StartCleaning
  BY <1>1 DEF Tick, StartCleaning
<1>2. ASSUME NEW r \in Req, Arrive(r) PROVE Buckets'
  BY <1>2 DEF Arrive
<1>3. ASSUME NEW r \in Req, LoadOrStore(r) PROVE Buckets'
  <2>1. pc[r] = "loading" /\ pc' = [pc EXCEPT ![r] = "touching"] /\ UNCHANGED addr
    BY <1>3 DEF LoadOrStore
  <2>2. CASE limiters[addr[r]] = NoBucket
    BY <1>3, <2>1, <2>2, CreateEffect
  <2>3. CASE limiters[addr[r]] # NoBucket
    BY <1>3, <2>1, <2>3, JoinEffect
  <2> QED BY <2>2, <2>3
<1>4. ASSUME NEW r \in Req, Touch(r) PROVE Buckets'
  <2>1. pc' = [pc EXCEPT ![r] = "asking"] /\ pc[r] = "touching"
        /\ UNCHANGED <<addr, mine, limiters>>
    BY <1>4 DEF Touch
  <2> QED BY <1>4, <2>1, TouchEffect
<1>5. ASSUME NEW r \in Req, Allow(r) PROVE Buckets'
  <2>1. pc[r] = "asking" /\ UNCHANGED <<addr, mine, limiters>>
    BY <1>5 DEF Allow
  <2>2. CASE Tokens(mine[r]) > 0
    BY <1>5, <2>1, <2>2, AllowEffect
  <2>3. CASE ~(Tokens(mine[r]) > 0)
    BY <1>5, <2>1, <2>3 DEF Allow
  <2> QED BY <2>2, <2>3
<1>6. ASSUME NEW a \in Addr, Inspect(a) PROVE Buckets'
  BY <1>6 DEF Inspect
<1>7. CASE Delete
  BY <1>7 DEF Delete
<1> QED BY <1>1, <1>2, <1>3, <1>4, <1>5, <1>6, <1>7 DEF Next

\* A round of the cleaner begins late by its lag at the most, and looks back from then.
LEMMA CleanerStep == ASSUME Inv, Next PROVE Cleaner'
<1> USE ConstantTypes DEF Inv, TypeOK, Cleaner, Cleaning, Goto, reqVars, cleanVars
<1>1. CASE Tick
  BY <1>1 DEF Tick
<1>2. ASSUME NEW r \in Req, Arrive(r) \/ Touch(r) \/ Allow(r) PROVE Cleaner'
  BY <1>2 DEF Arrive, Touch, Allow
<1>3. ASSUME NEW r \in Req, LoadOrStore(r) PROVE Cleaner'
  BY <1>3 DEF LoadOrStore
<1>4. CASE StartCleaning
  BY <1>4 DEF StartCleaning
<1>5. ASSUME NEW a \in Addr, Inspect(a) PROVE Cleaner'
  BY <1>5 DEF Inspect
<1>6. CASE Delete
  BY <1>6 DEF Delete
<1> QED BY <1>1, <1>2, <1>3, <1>4, <1>5, <1>6 DEF Next

LEMMA FilledStep == ASSUME Inv, Next PROVE Filled'
<1> USE ConstantTypes DEF Inv, TypeOK, Filled, Goto, reqVars, cleanVars
<1>1. CASE Tick
  BY <1>1, BucketFields DEF Tick
<1>2. ASSUME UNCHANGED <<now, bucket>> PROVE Filled'
  BY <1>2
<1>3. ASSUME NEW r \in Req, LoadOrStore(r), limiters[addr[r]] = NoBucket PROVE Filled'
  <2>1. arrived[r] <= now /\ now <= arrived[r] + Delay
    BY <1>3 DEF Seen, Inside, LoadOrStore
  <2>2. now' = now
    BY <1>3 DEF LoadOrStore
  <2> QED BY <1>3, <2>1, <2>2, CreateEffect
<1>4. ASSUME NEW r \in Req, Touch(r) PROVE Filled'
  <2>1. arrived[r] <= now /\ now <= arrived[r] + Delay /\ now' = now
    BY <1>4 DEF Seen, Inside, Touch
  <2>2. bucket[mine[r]] \in Bucket /\ mine[r] \in Req
    BY <1>4 DEF Buckets, Holds, Touch
  <2> QED BY <1>4, <2>1, <2>2, TouchEffect, BucketFields
<1>5. ASSUME NEW r \in Req, Allow(r), Tokens(mine[r]) > 0 PROVE Filled'
  <2>1. /\ now' = now /\ now <= arrived[r] + Delay
        /\ bucket[mine[r]].lastSeen >= arrived[r] - Delay
    BY <1>5 DEF Seen, Inside, Allow
  <2>2. mine[r] \in Req /\ bucket[mine[r]].lastSeen \in Int
    BY <1>5, BucketFields DEF Buckets, Holds, Allow
  <2> QED BY <1>5, <2>1, <2>2, AllowEffect
<1>6. \/ Tick \/ UNCHANGED <<now, bucket>>
      \/ \E r \in Req : \/ LoadOrStore(r) /\ limiters[addr[r]] = NoBucket
                        \/ Touch(r)
                        \/ Allow(r) /\ Tokens(mine[r]) > 0
  BY DEF Next, Arrive, LoadOrStore, Touch, Allow, StartCleaning, Inspect, Delete
<1> QED BY <1>1, <1>2, <1>3, <1>4, <1>5, <1>6

\* The steps, with those apart that write to a bucket.
LEMMA StepKinds ==
    ASSUME Next
    PROVE  \/ Tick \/ StartCleaning \/ Delete
           \/ \E a \in Addr : Inspect(a)
           \/ \E r \in Req : \/ Arrive(r) \/ Touch(r)
                             \/ LoadOrStore(r) /\ limiters[addr[r]] = NoBucket
                             \/ LoadOrStore(r) /\ limiters[addr[r]] # NoBucket
                             \/ Allow(r) /\ Tokens(mine[r]) > 0
                             \/ Allow(r) /\ ~(Tokens(mine[r]) > 0)
  BY DEF Next

\* What a request that is inside makes of lastSeen is not older than the delay.
LEMMA SeenStep == ASSUME Inv, Next PROVE Seen'
<1> USE ConstantTypes DEF Inv, TypeOK, Seen, Inside, Holds, Goto, reqVars, cleanVars
<1> SUFFICES ASSUME NEW s \in Req, Inside(s)'
             PROVE  /\ arrived'[s] <= now' /\ now' <= arrived'[s] + Delay
                    /\ pc'[s] = "asking" => bucket'[mine'[s]].lastSeen >= arrived'[s] - Delay
                    /\ Holds(s)' /\ mine'[s] # limiters'[addr'[s]]
                                 /\ limiters'[addr'[s]] # NoBucket =>
                         bucket'[limiters'[addr'[s]]].lastSeen >= arrived'[s] - Delay
  OBVIOUS
<1>1. CASE Tick
  BY <1>1 DEF Tick
<1>2. CASE StartCleaning \/ \E a \in Addr : Inspect(a)
  BY <1>2 DEF StartCleaning, Inspect
<1>3. CASE Delete
  BY <1>3 DEF Delete
<1>4. ASSUME NEW r \in Req, Arrive(r) PROVE Seen'
  BY <1>4 DEF Arrive
<1>5. ASSUME NEW r \in Req, LoadOrStore(r), limiters[addr[r]] = NoBucket PROVE Seen'
  <2>1. /\ pc[r] = "loading" /\ pc' = [pc EXCEPT ![r] = "touching"]
        /\ UNCHANGED <<now, addr, arrived>>
        /\ now <= arrived[r] + Delay
    BY <1>5 DEF LoadOrStore
  <2>2. \A q \in Req : Holds(q) => mine[q] \in Req \ {r}
    BY <2>1 DEF Buckets
  <2>3. \A a \in Addr : limiters[a] # r
    BY <2>1 DEF Buckets
  <2> QED BY <1>5, <2>1, <2>2, <2>3, CreateEffect
<1>6. ASSUME NEW r \in Req, LoadOrStore(r), limiters[addr[r]] # NoBucket PROVE Seen'
  <2>1. /\ pc[r] = "loading" /\ pc' = [pc EXCEPT ![r] = "touching"]
        /\ UNCHANGED <<now, addr, arrived>>
    BY <1>6 DEF LoadOrStore
  <2> QED BY <1>6, <2>1, JoinEffect
<1>7. ASSUME NEW r \in Req, Touch(r) PROVE Seen'
  <2>1. /\ pc[r] = "touching" /\ pc' = [pc EXCEPT ![r] = "asking"]
        /\ UNCHANGED <<now, addr, arrived, mine, limiters>>
        /\ now <= arrived[r] + Delay
    BY <1>7 DEF Touch
  <2>2. \A q \in Req : Holds(q) => mine[q] \in Req
    BY DEF Buckets
  <2> QED BY <1>7, <2>1, <2>2, TouchEffect
<1>8. ASSUME NEW r \in Req, Allow(r), Tokens(mine[r]) > 0 PROVE Seen'
  <2>1. UNCHANGED <<now, addr, arrived, mine, limiters>>
    BY <1>8 DEF Allow
  <2>2. \A q \in Req : Holds(q) => mine[q] \in Req
    BY DEF Buckets
  <2>3. \A b \in Req : bucket'[b].lastSeen = bucket[b].lastSeen
    BY <1>8, AllowEffect
  <2> QED BY <1>8, <2>1, <2>2, <2>3, AllowEffect
<1>9. ASSUME NEW r \in Req, Allow(r), ~(Tokens(mine[r]) > 0) PROVE Seen'
  BY <1>9 DEF Allow
<1> QED BY <1>1, <1>2, <1>3, <1>4, <1>5, <1>6, <1>7, <1>8, <1>9, StepKinds

\* An entry is made, and touched, by requests of the present: only the cleaner's visits
\* tell how old it may be.
LEMMA VisitedStep == ASSUME Inv, Next PROVE Visited'
<1> USE ConstantTypes DEF Inv, TypeOK, Goto, reqVars, cleanVars
<1> DEFINE Left(a) == nextClean - Interval - IdleCutoff
                        - (IF a \in todo \/ doomed = a THEN Interval ELSE 0)
<1>1. CASE Tick
  BY <1>1 DEF Tick, Visited
<1>2. ASSUME NEW r \in Req, Arrive(r) \/ (LoadOrStore(r) /\ limiters[addr[r]] # NoBucket)
                            \/ (Allow(r) /\ ~(Tokens(mine[r]) > 0))
      PROVE  Visited'
  BY <1>2, JoinEffect DEF Arrive, LoadOrStore, Allow, Visited
<1>3. ASSUME NEW r \in Req, Allow(r), Tokens(mine[r]) > 0 PROVE Visited'
  <2>1. UNCHANGED <<limiters, cleanVars>>
    BY <1>3 DEF Allow
  <2>2. \A b \in Req : bucket'[b].lastSeen = bucket[b].lastSeen
    BY <1>3, AllowEffect
  <2> QED BY <2>1, <2>2 DEF Visited
<1>4. ASSUME NEW r \in Req, arrived[r] <= now, now <= arrived[r] + Delay, NEW a \in Addr
      PROVE  arrived[r] >= Left(a)
  BY <1>4 DEF Cleaner
<1>5. ASSUME NEW r \in Req, Touch(r) PROVE Visited'
  <2>1. /\ arrived[r] <= now /\ now <= arrived[r] + Delay
        /\ UNCHANGED <<limiters, cleanVars>>
    BY <1>5 DEF Touch, Seen, Inside
  <2>2. \A a \in Addr : arrived[r] >= Left(a)
    BY <1>4, <2>1
  <2> QED BY <1>5, <2>1, <2>2, TouchEffect DEF Visited
<1>6. ASSUME NEW r \in Req, LoadOrStore(r), limiters[addr[r]] = NoBucket PROVE Visited'
  <2>1. /\ arrived[r] <= now /\ now <= arrived[r] + Delay /\ pc[r] = "loading"
        /\ UNCHANGED cleanVars
    BY <1>6 DEF LoadOrStore, Seen, Inside
  <2>2. \A a \in Addr : arrived[r] >= Left(a)
    BY <1>4, <2>1
  <2>3. \A a \in Addr : limiters[a] # r
    BY <2>1 DEF Buckets
  <2> QED BY <1>6, <2>1, <2>2, <2>3, CreateEffect DEF Visited
<1>7. CASE StartCleaning
  <2> SUFFICES ASSUME NEW a \in Addr, limiters[a] # NoBucket
               PROVE  bucket[limiters[a]].lastSeen >= Left(a)'
    BY <1>7 DEF StartCleaning, Visited
  <2>1. bucket[limiters[a]].lastSeen \in Int
    BY BucketFields DEF Buckets
  <2>2. bucket[limiters[a]].lastSeen >= nextClean - Interval - IdleCutoff
    <3>1. Left(a) = nextClean - Interval - IdleCutoff
      BY <1>7 DEF StartCleaning
    <3>2. bucket[limiters[a]].lastSeen >= Left(a)
      BY DEF Visited
    <3> QED BY <3>1, <3>2
  <2>3. nextClean' = nextClean + Interval /\ a \in todo'
    BY <1>7 DEF StartCleaning
  <2> QED BY <2>1, <2>2, <2>3
<1>8. ASSUME NEW a \in Addr, Inspect(a) PROVE Visited'
  <2>1. /\ limiters[a] # NoBucket /\ nextClean - Interval - IdleCutoff <= cutoff
        /\ bucket[limiters[a]].lastSeen \in Int
    BY <1>8, BucketFields DEF Inspect, Cleaner, Cleaning, Buckets
  <2>2. /\ UNCHANGED <<limiters, bucket, nextClean>> /\ doomed = NoBucket
        /\ todo' = todo \ {a} /\ (doomed' = a \/ doomed' = NoBucket)
        /\ doomed' # a => ~(bucket[limiters[a]].lastSeen < cutoff)
    BY <1>8 DEF Inspect
  <2>3. ASSUME NEW b \in Addr, limiters[b] # NoBucket
        PROVE  bucket[limiters[b]].lastSeen >= Left(b)'
    <3>1. bucket[limiters[b]].lastSeen >= Left(b)
      BY <2>3 DEF Visited
    <3>2. CASE b # a \/ doomed' = a
      BY <1>8, <2>2, <3>1, <3>2 DEF Inspect
    <3>3. CASE b = a /\ doomed' # a
      <4>1. bucket[limiters[b]].lastSeen >= cutoff
        BY <2>1, <2>2, <3>3
      <4>2. Left(b)' = nextClean - Interval - IdleCutoff
        BY <2>2, <3>3
      <4> QED BY <2>1, <3>3, <4>1, <4>2
    <3> QED BY <3>2, <3>3
  <2> QED BY <2>2, <2>3 DEF Visited
<1>9. CASE Delete
  BY <1>9 DEF Delete, Visited
<1> QED BY <1>1, <1>2, <1>3, <1>5, <1>6, <1>7, <1>8, <1>9, StepKinds

\* A bucket that the cleaner finds idle is full, and its address owes nothing: nobody can
\* still hold the bucket before it.
LEMMA IdleIsEven ==
    ASSUME Inv, NEW a \in Addr, Inspect(a), doomed' # NoBucket
    PROVE  /\ doomed' = a /\ limiters[a] # NoBucket
           /\ Tokens(limiters[a]) = Burst /\ allowance[a] = Burst
           /\ Old(a) = {}
<1> USE ConstantTypes
<1> DEFINE b == limiters[a]
<1>1. /\ doomed' = a /\ b # NoBucket /\ b \in Req /\ bucket[b] \in Bucket
      /\ bucket[b].lastSeen < cutoff /\ cutoff <= now - IdleCutoff
  BY DEF Inspect, Inv, TypeOK, Cleaner, Cleaning, Buckets
<1>2. /\ now \in Int /\ cutoff \in Int /\ allowance[a] \in Int
      /\ bucket[b].tokens \in 0..Burst /\ bucket[b].filled \in Int /\ bucket[b].lastSeen \in Int
  BY <1>1, BucketFields DEF Inv, TypeOK
<1>3. now - bucket[b].lastSeen > IdleCutoff
  <2> HIDE DEF b
  <2> QED BY <1>1, <1>2
<1>4. allowance[a] = Burst
  <2>1. \/ allowance[a] = Burst
        \/ allowance[a] >= now - bucket[b].lastSeen - Burst - 3 * Delay
    BY <1>1 DEF Inv, Earned
  <2>2. allowance[a] <= Burst
    BY DEF Inv, Debts, Debt
  <2> HIDE DEF b
  <2> QED BY <1>2, <1>3, <2>1, <2>2
<1>5. Tokens(b) = Burst
  <2>1. bucket[b].filled <= bucket[b].lastSeen + 2 * Delay
    BY <1>1, BucketFields DEF Inv, Filled
  <2> HIDE DEF b
  <2>2. bucket[b].tokens + (now - bucket[b].filled) > Burst
    BY <1>2, <1>3, <2>1
  <2> QED BY <2>2 DEF Tokens
<1>6. ASSUME NEW r \in Old(a) PROVE FALSE
  <2>1. bucket[b].lastSeen >= arrived[r] - Delay /\ now <= arrived[r] + Delay
        /\ arrived[r] \in Int
    BY <1>1, <1>6 DEF Old, Holds, Inside, Inv, TypeOK, Seen
  <2> HIDE DEF b
  <2> QED BY <1>2, <1>3, <2>1
<1> QED BY <1>1, <1>4, <1>5, <1>6

\* What is current is a bucket's filling, before and after a step.
LEMMA CurrentTyped ==
    ASSUME Inv, NEW a \in Addr
    PROVE  Current(a) \in Int /\ 0 <= Current(a) /\ Current(a) <= Burst
<1>1. limiters[a] # NoBucket => limiters[a] \in Req /\ bucket[limiters[a]] \in Bucket
  BY DEF Inv, TypeOK, Buckets
<1> QED BY <1>1, ConstantTypes, TokensTyped DEF Inv, Current

LEMMA CurrentTypedNext ==
    ASSUME Inv, Next, NEW a \in Addr
    PROVE  Current(a)' \in Int /\ 0 <= Current(a)' /\ Current(a)' <= Burst
<1>1. TypeOK' /\ Filled' /\ Buckets'
  BY TypeStep, FilledStep, BucketsStep
<1>2. limiters'[a] # NoBucket => limiters'[a] \in Req /\ bucket'[limiters'[a]] \in Bucket
  BY <1>1 DEF TypeOK, Buckets
<1>3. CASE limiters'[a] = NoBucket
  BY <1>3, ConstantTypes DEF Current
<1>4. CASE limiters'[a] # NoBucket
  <2>1. /\ bucket'[limiters'[a]].tokens \in 0..Burst /\ bucket'[limiters'[a]].filled \in Int
        /\ bucket'[limiters'[a]].filled <= now' /\ now' \in Int
    BY <1>1, <1>2, <1>4, BucketFields DEF TypeOK, Filled
  <2> QED BY <1>4, <2>1, ConstantTypes DEF Current, Tokens
<1> QED BY <1>3, <1>4

\* Time pays back what an address owes; a request that takes a token leaves it owing no
\* more than Debts allows, and has left its mark on lastSeen.
LEMMA EarnedStep == ASSUME Inv, Next, Debts' PROVE Earned'
<1> USE ConstantTypes
<1> DEFINE Due(a) == now - bucket[limiters[a]].lastSeen - Burst - 3 * Delay
<1>1. ASSUME NEW a \in Addr, limiters'[a] # NoBucket, now' = now,
             bucket'[limiters'[a]].lastSeen \in Int,
             bucket'[limiters'[a]].lastSeen >= now - 2 * Delay
      PROVE  allowance'[a] >= Due(a)'
  <2>1. allowance'[a] >= Current(a)' - Burst - Delay
    BY DEF Debts, Debt
  <2>2. Current(a)' \in Int /\ 0 <= Current(a)'
    BY CurrentTypedNext
  <2>3. allowance'[a] \in Int /\ now \in Int
    BY TypeStep DEF TypeOK, Inv
  <2> QED BY <1>1, <2>1, <2>2, <2>3
<1> USE DEF Inv, TypeOK, Goto, reqVars, cleanVars
<1>2. CASE Tick
  <2> SUFFICES ASSUME NEW a \in Addr, limiters[a] # NoBucket
               PROVE  allowance'[a] = Burst \/ allowance'[a] >= Due(a)'
    BY <1>2 DEF Tick, Earned
  <2>1. /\ now' = now + 1 /\ UNCHANGED <<limiters, bucket>>
        /\ allowance'[a] = IF allowance[a] < Burst THEN allowance[a] + 1 ELSE Burst
    BY <1>2 DEF Tick
  <2>2. bucket[limiters[a]].lastSeen \in Int
    BY BucketFields DEF Buckets
  <2>3. allowance[a] = Burst \/ allowance[a] >= Due(a)
    BY DEF Earned
  <2> QED BY <2>1, <2>2, <2>3
<1>3. ASSUME NEW r \in Req, \/ Arrive(r) \/ (LoadOrStore(r) /\ limiters[addr[r]] # NoBucket)
                            \/ (Allow(r) /\ ~(Tokens(mine[r]) > 0))
      PROVE  Earned'
  BY <1>3, JoinEffect DEF Arrive, LoadOrStore, Allow, Earned
<1>4. ASSUME NEW r \in Req, LoadOrStore(r), limiters[addr[r]] = NoBucket PROVE Earned'
  <2>1. /\ now <= arrived[r] + Delay /\ pc[r] = "loading" /\ UNCHANGED <<now, allowance>>
    BY <1>4 DEF LoadOrStore, Seen, Inside
  <2>2. \A a \in Addr \ {addr[r]} : limiters'[a] = limiters[a] /\ limiters[a] # r
    BY <1>4, <2>1, CreateEffect DEF Buckets
  <2> SUFFICES ASSUME NEW a \in Addr, limiters'[a] # NoBucket
               PROVE  allowance'[a] = Burst \/ allowance'[a] >= Due(a)'
    BY DEF Earned
  <2>3. CASE a = addr[r]
    <3>1. limiters'[a] = r /\ bucket'[r].lastSeen = arrived[r]
      BY <1>4, <2>3, CreateEffect
    <3>2. bucket'[limiters'[a]].lastSeen \in Int
          /\ bucket'[limiters'[a]].lastSeen >= now - 2 * Delay
      BY <2>1, <3>1
    <3> QED BY <1>1, <2>1, <3>2
  <2>4. CASE a # addr[r]
    <3>1. limiters'[a] = limiters[a] /\ bucket'[limiters[a]] = bucket[limiters[a]]
      BY <1>4, <2>2, <2>4, CreateEffect
    <3> QED BY <2>1, <3>1 DEF Earned
  <2> QED BY <2>3, <2>4
<1>5. ASSUME NEW r \in Req, Touch(r) PROVE Earned'
  <2>1. now <= arrived[r] + Delay /\ UNCHANGED <<now, limiters, allowance>>
    BY <1>5 DEF Touch, Seen, Inside
  <2> SUFFICES ASSUME NEW a \in Addr, limiters[a] # NoBucket
               PROVE  allowance'[a] = Burst \/ allowance'[a] >= Due(a)'
    BY <2>1 DEF Earned
  <2>2. CASE limiters[a] = mine[r]
    <3>1. bucket'[limiters[a]].lastSeen = arrived[r]
      BY <1>5, <2>2, TouchEffect
    <3> QED BY <1>1, <2>1, <3>1
  <2>3. CASE limiters[a] # mine[r]
    <3>1. bucket'[limiters[a]] = bucket[limiters[a]]
      BY <1>5, <2>3, TouchEffect
    <3> QED BY <2>1, <3>1 DEF Earned
  <2> QED BY <2>2, <2>3
<1>6. ASSUME NEW r \in Req, Allow(r), Tokens(mine[r]) > 0 PROVE Earned'
  <2>1. UNCHANGED <<now, limiters>> /\ pc[r] = "asking"
    BY <1>6 DEF Allow
  <2>2. \A b \in Req : bucket'[b].lastSeen = bucket[b].lastSeen
    BY <1>6, AllowEffect
  <2> SUFFICES ASSUME NEW a \in Addr, limiters[a] # NoBucket
               PROVE  allowance'[a] = Burst \/ allowance'[a] >= Due(a)'
    BY <2>1 DEF Earned
  <2>3. limiters[a] \in Req /\ bucket[limiters[a]].lastSeen \in Int
    BY BucketFields DEF Buckets
  <2>4. CASE a = addr[r]
    <3>1. bucket[limiters[a]].lastSeen >= now - 2 * Delay
      <4>1. now <= arrived[r] + Delay /\ bucket[limiters[a]].lastSeen >= arrived[r] - Delay
        BY <2>1, <2>4 DEF Seen, Inside, Holds
      <4> QED BY <2>3, <4>1
    <3> QED BY <1>1, <2>1, <2>2, <2>3, <3>1
  <2>5. CASE a # addr[r]
    BY <1>6, <2>1, <2>2, <2>3, <2>5, AllowEffect DEF Earned
  <2> QED BY <2>4, <2>5
<1>7. CASE StartCleaning \/ \E a \in Addr : Inspect(a)
  BY <1>7 DEF StartCleaning, Inspect, Earned
<1>8. CASE Delete
  BY <1>8 DEF Delete, Earned
<1> QED BY <1>2, <1>3, <1>4, <1>5, <1>6, <1>7, <1>8, StepKinds

\* Requests of other addresses hold other buckets.
LEMMA Apart ==
    ASSUME Inv, NEW r \in Req, Holds(r), NEW a \in Addr, a # addr[r]
    PROVE  /\ limiters[a] # mine[r]
           /\ \A s \in Old(a) : mine[s] # mine[r] /\ s # r
  BY ConstantTypes DEF Inv, TypeOK, Buckets, Old

\* What an address owes is told by its allowance, its current bucket and the old one.
LEMMA DebtKept ==
    ASSUME NEW a \in Addr, Debt(a), now' = now, allowance'[a] = allowance[a],
           Current(a)' = Current(a), doomed' = a => doomed = a,
           \A s \in Old(a)' : /\ s \in Old(a) /\ mine'[s] = mine[s] /\ arrived'[s] = arrived[s]
                              /\ Tokens(mine[s])' = Tokens(mine[s])
    PROVE  Debt(a)'
<1>1. Old(a)' \subseteq Old(a)
  OBVIOUS
<1>2. ASSUME NEW s \in Old(a)'
      PROVE  /\ allowance'[a] >= Current(a)' + Tokens(mine[s])' - Burst - (now' - arrived'[s])
             /\ \A q \in Old(a)' : mine'[q] = mine'[s]
  BY <1>2 DEF Debt
<1>3. doomed' = a => allowance'[a] >= Current(a)' /\ Old(a)' = {}
  BY <1>1 DEF Debt
<1>4. allowance'[a] <= Burst /\ allowance'[a] >= Current(a)' - Burst - Delay
  BY DEF Debt
<1> QED BY <1>2, <1>3, <1>4 DEF Debt

\* A tick: every bucket gains at most a token, the allowance gains one or is full.
LEMMA DebtTick == ASSUME Inv, Tick, NEW a \in Addr PROVE Debt(a)'
<1> USE ConstantTypes
<1>1. /\ now' = now + 1 /\ UNCHANGED <<limiters, bucket, pc, addr, mine, arrived, doomed>>
      /\ allowance'[a] = IF allowance[a] < Burst THEN allowance[a] + 1 ELSE Burst
      /\ allowance[a] \in Int /\ now \in Int
  BY DEF Tick, Inv, TypeOK, reqVars, cleanVars
<1>2. Old(a)' = Old(a)
  BY <1>1 DEF Old, Holds
<1>3. Debt(a) /\ TypeOK /\ Filled /\ Current(a) \in Int
  BY CurrentTyped DEF Inv, Debts
<1>4. /\ Current(a)' \in Int /\ Current(a)' <= Burst
      /\ Current(a)' <= Current(a) + 1
  <2>1. CASE limiters[a] = NoBucket
    BY <1>1, <2>1 DEF Current
  <2>2. CASE limiters[a] # NoBucket
    <3>1. limiters[a] \in Req /\ bucket[limiters[a]] \in Bucket
      BY <2>2 DEF Inv, TypeOK, Buckets
    <3> QED BY <1>1, <1>3, <2>2, <3>1, TokensTick DEF Current
  <2> QED BY <2>1, <2>2
<1>5. ASSUME NEW s \in Old(a)
      PROVE  /\ Tokens(mine[s])' \in Int /\ Tokens(mine[s])' <= Burst
             /\ Tokens(mine[s])' <= Tokens(mine[s]) + 1
             /\ Tokens(mine[s]) \in Int /\ arrived[s] \in Int /\ arrived[s] <= now
  <2>1. s \in Req /\ mine[s] \in Req /\ bucket[mine[s]] \in Bucket
    BY <1>5 DEF Old, Inv, Buckets
  <2>2. /\ Tokens(mine[s]) \in Int /\ arrived[s] \in Int /\ arrived[s] <= now
    BY <1>3, <1>5, <2>1, TokensTyped DEF Old, Inv, TypeOK, Seen, Holds, Inside
  <2>3. \A b \in Req : bucket[b] \in Bucket =>
          Tokens(b)' \in Int /\ Tokens(b)' <= Tokens(b) + 1 /\ Tokens(b)' <= Burst
    BY <1>1, <1>3, TokensTick
  <2> QED BY <1>1, <2>1, <2>2, <2>3
<1>6. ASSUME NEW s \in Old(a)
      PROVE  allowance'[a] >= Current(a)' + Tokens(mine[s])' - Burst - (now' - arrived'[s])
  <2>1. allowance[a] >= Current(a) + Tokens(mine[s]) - Burst - (now - arrived[s])
    BY <1>3, <1>6 DEF Debt
  <2>2. arrived'[s] = arrived[s]
    BY <1>1
  <2> QED BY <1>1, <1>3, <1>4, <1>5, <1>6, <2>1, <2>2
<1>7. \A s, q \in Old(a)' : mine'[q] = mine'[s]
  BY <1>1, <1>2, <1>3 DEF Debt
<1>8. /\ allowance'[a] <= Burst /\ allowance'[a] >= Current(a)' - Burst - Delay
      /\ doomed' = a => allowance'[a] >= Current(a)' /\ Old(a)' = {}
  BY <1>1, <1>2, <1>3, <1>4 DEF Debt
<1> QED BY <1>2, <1>6, <1>7, <1>8 DEF Debt

\* A token taken from the current bucket, or from the one before it.
LEMMA DebtAllow ==
    ASSUME Inv, NEW r \in Req, Allow(r), Tokens(mine[r]) > 0, NEW a \in Addr
    PROVE  Debt(a)'
<1> USE ConstantTypes
<1>1. /\ pc[r] = "asking" /\ Holds(r) /\ TypeOK /\ Buckets /\ Filled /\ Debt(a)
      /\ UNCHANGED <<now, limiters, addr, mine, arrived, doomed>>
  BY DEF Allow, Inv, Debts, Holds, cleanVars
<1>2. /\ pc'[r] = "served" /\ \A s \in Req \ {r} : pc'[s] = pc[s]
      /\ Tokens(mine[r])' = Tokens(mine[r]) - 1 /\ mine[r] \in Req
      /\ \A b \in Req \ {mine[r]} : bucket'[b] = bucket[b]
  BY <1>1, AllowEffect
<1>3. \A s \in Old(a)' : s \in Old(a) /\ s # r
  BY <1>1, <1>2 DEF Old, Holds
<1>4. \A b \in Req \ {mine[r]} : Tokens(b)' = Tokens(b)
  BY <1>1, <1>2 DEF Tokens
<1>5. CASE a # addr[r]
  <2>1. allowance'[a] = allowance[a]
    BY <1>1, <1>5, AllowEffect
  <2>2. Current(a)' = Current(a)
    BY <1>1, <1>4, <1>5, Apart DEF Current, TypeOK
  <2>3. \A s \in Old(a)' : Tokens(mine[s])' = Tokens(mine[s])
    <3>1. ASSUME NEW s \in Old(a) PROVE mine'[s] = mine[s] /\ mine[s] \in Req \ {mine[r]}
      BY <1>1, <1>5, <3>1, Apart DEF Old, Buckets
    <3> QED BY <1>3, <1>4, <3>1
  <2> QED BY <1>1, <1>3, <2>1, <2>2, <2>3, DebtKept
<1>6. CASE a = addr[r]
  <2>1. allowance'[a] = allowance[a] - 1 /\ allowance[a] \in Int
    BY <1>1, <1>6, AllowEffect DEF TypeOK
  <2>2. /\ Current(a) \in Int /\ 0 <= Current(a) /\ Current(a) <= Burst
        /\ Tokens(mine[r]) \in Int
    BY <1>1, CurrentTyped, TokensTyped DEF Buckets
  <2>3. ASSUME NEW s \in Old(a)
        PROVE  Tokens(mine[s]) \in Int /\ arrived[s] \in Int /\ now \in Int
               /\ now - arrived[s] <= Delay
    BY <1>1, <2>3, TokensTyped DEF Old, Buckets, Holds, Inside, Inv, Seen, TypeOK
  <2>4. CASE mine[r] = limiters[a]
    <3>1. Current(a) = Tokens(mine[r]) /\ Current(a)' = Current(a) - 1
      BY <1>1, <1>2, <2>4 DEF Current
    <3>2. ASSUME NEW s \in Old(a)' PROVE Tokens(mine[s])' = Tokens(mine[s])
      <4>1. mine'[s] = mine[s] /\ mine[s] \in Req \ {mine[r]}
        BY <1>1, <1>3, <2>4, <3>2 DEF Old, Buckets
      <4> QED BY <1>4, <4>1
    <3>3. ASSUME NEW s \in Old(a)'
          PROVE  /\ allowance'[a] >= Current(a)' + Tokens(mine[s])' - Burst - (now' - arrived'[s])
                 /\ \A q \in Old(a)' : mine'[q] = mine'[s]
      <4>1. s \in Old(a) /\ \A q \in Old(a) : mine[q] = mine[s]
        BY <1>1, <1>3, <3>3 DEF Debt
      <4>2. allowance[a] >= Current(a) + Tokens(mine[s]) - Burst - (now - arrived[s])
        BY <1>1, <4>1 DEF Debt
      <4>3. now' = now /\ arrived'[s] = arrived[s] /\ Tokens(mine[s])' = Tokens(mine[s])
        BY <1>1, <3>2, <3>3
      <4>4. allowance'[a] >= Current(a)' + Tokens(mine[s])' - Burst - (now' - arrived'[s])
        BY <2>1, <2>2, <2>3, <3>1, <4>1, <4>2, <4>3
      <4> QED BY <1>1, <1>3, <4>1, <4>4
    <3>4. /\ allowance'[a] <= Burst /\ allowance'[a] >= Current(a)' - Burst - Delay
          /\ doomed' = a => allowance'[a] >= Current(a)' /\ Old(a)' = {}
      BY <1>1, <1>3, <2>1, <2>2, <3>1 DEF Debt
    <3> QED BY <3>3, <3>4 DEF Debt
  <2>5. CASE mine[r] # limiters[a]
    <3>1. r \in Old(a) /\ doomed # a
      BY <1>1, <1>6, <2>5 DEF Old, Debt
    <3>2. Current(a)' = Current(a)
      BY <1>1, <1>4, <2>5 DEF Current, TypeOK
    <3>3. allowance[a] >= Current(a) + Tokens(mine[r]) - Burst - (now - arrived[r])
          /\ \A s \in Old(a) : mine[s] = mine[r]
      BY <1>1, <3>1 DEF Debt
    <3>4. ASSUME NEW s \in Old(a)'
          PROVE  /\ allowance'[a] >= Current(a)' + Tokens(mine[s])' - Burst - (now' - arrived'[s])
                 /\ \A q \in Old(a)' : mine'[q] = mine'[s]
      <4>1. s \in Old(a) /\ mine[s] = mine[r] /\ mine'[s] = mine[s] /\ mine'[r] = mine[r]
            /\ \A q \in Old(a)' : mine'[q] = mine[q] /\ q \in Old(a)
        BY <1>1, <1>3, <3>3, <3>4
      <4>2. allowance[a] >= Current(a) + Tokens(mine[s]) - Burst - (now - arrived[s])
        BY <1>1, <4>1 DEF Debt
      <4>3. now' = now /\ arrived'[s] = arrived[s]
            /\ Tokens(mine[s])' = Tokens(mine[s]) - 1
        BY <1>1, <1>2, <4>1 DEF Tokens
      <4>4. allowance'[a] >= Current(a)' + Tokens(mine[s])' - Burst - (now' - arrived'[s])
        BY <2>1, <2>2, <2>3, <3>2, <4>1, <4>2, <4>3
      <4> QED BY <3>3, <4>1, <4>4
    <3>5. /\ allowance'[a] <= Burst /\ allowance'[a] >= Current(a)' - Burst - Delay
      BY <1>1, <2>1, <2>2, <2>3, <3>1, <3>2, <3>3 DEF Debt
    <3> QED BY <1>1, <3>1, <3>4, <3>5 DEF Debt
  <2> QED BY <2>4, <2>5
<1> QED BY <1>5, <1>6

\* A bucket made anew is as full as the address was granted before.
LEMMA DebtCreate ==
    ASSUME Inv, NEW r \in Req, LoadOrStore(r), limiters[addr[r]] = NoBucket, NEW a \in Addr
    PROVE  Debt(a)'
<1> USE ConstantTypes
<1>1. /\ pc[r] = "loading" /\ pc' = [pc EXCEPT ![r] = "touching"]
      /\ UNCHANGED <<now, addr, arrived, doomed, allowance>>
      /\ TypeOK /\ Buckets /\ Debt(a)
  BY DEF LoadOrStore, Goto, Inv, Debts, cleanVars
<1>2. /\ limiters'[addr[r]] = r /\ mine'[r] = r
      /\ \A b \in Addr \ {addr[r]} : limiters'[b] = limiters[b]
      /\ \A b \in Req \ {r} : bucket'[b] = bucket[b] /\ mine'[b] = mine[b]
      /\ bucket'[r].tokens = Burst /\ bucket'[r].filled = now
  BY <1>1, CreateEffect
<1>3. \A s \in Req : Holds(s) => mine[s] \in Req \ {r} /\ s # r
  BY <1>1 DEF Buckets, Holds
<1>4. \A b \in Req \ {r} : Tokens(b)' = Tokens(b)
  BY <1>1, <1>2 DEF Tokens
<1>5. Tokens(r)' = Burst
  BY <1>1, <1>2 DEF Tokens, TypeOK
<1>6. \A s \in Old(a)' : s \in Req \ {r} /\ Holds(s) /\ addr[s] = a
                         /\ mine'[s] = mine[s] /\ mine[s] \in Req \ {r}
  <2> SUFFICES ASSUME NEW s \in Old(a)'
               PROVE  s \in Req \ {r} /\ Holds(s) /\ addr[s] = a
                      /\ mine'[s] = mine[s] /\ mine[s] \in Req \ {r}
    OBVIOUS
  <2>1. s \in Req /\ Holds(s)' /\ addr[s] = a /\ mine'[s] # limiters'[a]
    BY <1>1 DEF Old
  <2>2. s # r
    BY <1>2, <2>1
  <2>3. Holds(s)
    BY <1>1, <2>1, <2>2 DEF Holds, TypeOK
  <2> QED BY <1>2, <1>3, <2>1, <2>2, <2>3
<1>7. \A s \in Old(a)' : s \in Old(a)
  BY <1>1, <1>2, <1>6 DEF Old
<1>8. Current(a)' = Current(a)
  <2>1. CASE a = addr[r]
    BY <1>2, <1>5, <2>1 DEF Current
  <2>2. CASE a # addr[r]
    <3>1. limiters'[a] = limiters[a] /\ limiters[a] # r
      BY <1>1, <1>2, <2>2 DEF Buckets
    <3> QED BY <1>1, <1>4, <3>1 DEF Current, TypeOK
  <2> QED BY <2>1, <2>2
<1>9. \A s \in Old(a)' : Tokens(mine[s])' = Tokens(mine[s])
  BY <1>4, <1>6
<1> QED BY <1>1, <1>6, <1>7, <1>8, <1>9, DebtKept

\* The bucket that the cleaner forgets becomes the old one, and there was none before it.
LEMMA DebtDelete == ASSUME Inv, Delete, NEW a \in Addr PROVE Debt(a)'
<1> USE ConstantTypes
<1>1. /\ UNCHANGED <<now, bucket, pc, addr, arrived, mine, allowance>>
      /\ limiters' = [limiters EXCEPT ![doomed] = NoBucket] /\ doomed' = NoBucket
      /\ doomed \in Addr /\ TypeOK /\ Buckets /\ Debt(a)
  BY DEF Delete, Inv, TypeOK, Debts, reqVars
<1>2. \A b \in Req : Tokens(b)' = Tokens(b)
  BY <1>1 DEF Tokens
<1>3. \A s \in Old(a)' : mine'[s] = mine[s] /\ mine[s] \in Req /\ arrived'[s] = arrived[s]
                         /\ s \in Req /\ Holds(s) /\ addr[s] = a
  BY <1>1 DEF Old, Holds, Buckets
<1>4. CASE a # doomed
  <2>1. limiters'[a] = limiters[a]
    BY <1>1, <1>4 DEF TypeOK
  <2>2. Current(a)' = Current(a)
    BY <1>1, <1>2, <2>1 DEF Current, TypeOK
  <2>3. \A s \in Old(a)' : s \in Old(a)
    BY <1>1, <2>1 DEF Old, Holds
  <2>4. \A s \in Old(a)' : Tokens(mine[s])' = Tokens(mine[s])
    BY <1>2, <1>3
  <2> QED BY <1>1, <1>3, <2>2, <2>3, <2>4, DebtKept
<1>5. CASE a = doomed
  <2>1. /\ limiters'[a] = NoBucket /\ Current(a)' = Burst /\ limiters[a] # NoBucket
        /\ allowance[a] >= Current(a) /\ Old(a) = {} /\ allowance[a] <= Burst
        /\ allowance[a] \in Int /\ now \in Int
    BY <1>1, <1>5 DEF TypeOK, Current, Debt, Inv, Cleaner
  <2>2. ASSUME NEW s \in Old(a)'
        PROVE  mine[s] = limiters[a] /\ arrived[s] \in Int /\ arrived[s] <= now
    <3>1. s \notin Old(a)
      BY <2>1
    <3> QED BY <1>3, <2>2, <3>1 DEF Old, Inv, Seen, Inside, Holds, TypeOK
  <2>3. Current(a) = Tokens(limiters[a]) /\ Current(a) \in Int /\ 0 <= Current(a)
    BY <2>1, CurrentTyped DEF Current
  <2>4. ASSUME NEW s \in Old(a)'
        PROVE  /\ allowance'[a] >= Current(a)' + Tokens(mine[s])' - Burst - (now' - arrived'[s])
               /\ \A q \in Old(a)' : mine'[q] = mine'[s]
    <3>1. mine[s] = limiters[a] /\ Tokens(mine[s])' = Current(a) /\ arrived'[s] = arrived[s]
      BY <1>2, <1>3, <2>2, <2>3
    <3>2. allowance'[a] >= Current(a)' + Tokens(mine[s])' - Burst - (now' - arrived'[s])
      BY <1>1, <2>1, <2>2, <2>3, <3>1
    <3>3. \A q \in Old(a)' : mine'[q] = mine'[s]
      BY <1>3, <2>2
    <3> QED BY <3>2, <3>3
  <2>5. allowance'[a] <= Burst /\ allowance'[a] >= Current(a)' - Burst - Delay
    BY <1>1, <2>1, <2>3
  <2>6. doomed' # a
    BY <1>1
  <2> QED BY <2>4, <2>5, <2>6 DEF Debt
<1> QED BY <1>4, <1>5

\* What forgetting costs an address stays accounted for.
LEMMA DebtsStep == ASSUME Inv, Next PROVE Debts'
<1> USE ConstantTypes
<1> SUFFICES ASSUME NEW a \in Addr PROVE Debt(a)'
  BY DEF Debts
<1>1. /\ TypeOK /\ Buckets /\ Debt(a)
      /\ \A s \in Old(a) : s \in Req /\ mine[s] \in Req
      /\ limiters[a] # NoBucket => limiters[a] \in Req
  BY DEF Inv, Debts, Old, Buckets, TypeOK
<1>2. CASE Tick
  BY <1>2, DebtTick
<1>3. ASSUME UNCHANGED <<now, limiters, addr, doomed, allowance>>,
             \A b \in Req : Tokens(b)' = Tokens(b),
             \A s \in Req : Holds(s)' /\ mine'[s] # limiters'[addr[s]] =>
                  Holds(s) /\ mine'[s] = mine[s] /\ arrived'[s] = arrived[s]
      PROVE  Debt(a)'
  <2>1. Current(a)' = Current(a)
    BY <1>1, <1>3 DEF Current
  <2>2. \A s \in Old(a)' : s \in Old(a) /\ mine'[s] = mine[s] /\ arrived'[s] = arrived[s]
    BY <1>3 DEF Old
  <2>3. \A s \in Old(a)' : Tokens(mine[s])' = Tokens(mine[s])
    BY <1>1, <1>3, <2>2
  <2> QED BY <1>1, <1>3, <2>1, <2>2, <2>3, DebtKept
<1>4. ASSUME NEW r \in Req, Arrive(r) PROVE Debt(a)'
  <2>1. \A b \in Req : Tokens(b)' = Tokens(b)
    BY <1>4 DEF Arrive, Tokens
  <2>2. /\ UNCHANGED <<now, limiters, addr, doomed, allowance, mine>>
        /\ pc' = [pc EXCEPT ![r] = "loading"] /\ \A s \in Req \ {r} : arrived'[s] = arrived[s]
    BY <1>1, <1>4 DEF Arrive, Goto, TypeOK, cleanVars
  <2>3. \A s \in Req : Holds(s)' => Holds(s) /\ s # r
    BY <1>1, <2>2 DEF Holds, TypeOK
  <2> QED BY <1>3, <2>1, <2>2, <2>3
<1>5. ASSUME NEW r \in Req, LoadOrStore(r), limiters[addr[r]] # NoBucket PROVE Debt(a)'
  <2>1. /\ UNCHANGED <<now, limiters, bucket, addr, arrived, doomed, allowance>>
        /\ mine'[r] = limiters'[addr[r]] /\ \A s \in Req \ {r} : mine'[s] = mine[s]
        /\ pc' = [pc EXCEPT ![r] = "touching"]
    BY <1>1, <1>5, JoinEffect DEF LoadOrStore, Goto, cleanVars
  <2>2. \A b \in Req : Tokens(b)' = Tokens(b)
    BY <2>1 DEF Tokens
  <2>3. \A s \in Req \ {r} : Holds(s)' => Holds(s)
    BY <1>1, <2>1 DEF Holds, TypeOK
  <2> QED BY <1>3, <2>1, <2>2, <2>3
<1>6. ASSUME NEW r \in Req, Touch(r) PROVE Debt(a)'
  <2>1. /\ UNCHANGED <<now, limiters, addr, arrived, mine, doomed, allowance>>
        /\ pc[r] = "touching" /\ pc' = [pc EXCEPT ![r] = "asking"]
    BY <1>6 DEF Touch, Goto, cleanVars
  <2>2. \A b \in Req : bucket'[b].tokens = bucket[b].tokens /\ bucket'[b].filled = bucket[b].filled
    BY <1>1, <1>6, TouchEffect
  <2>3. \A b \in Req : Tokens(b)' = Tokens(b)
    BY <2>1, <2>2, TokensSame
  <2>4. \A s \in Req : Holds(s)' => Holds(s)
    BY <1>1, <2>1 DEF Holds, TypeOK
  <2> QED BY <1>3, <2>1, <2>3, <2>4
<1>7. ASSUME NEW r \in Req, Allow(r), ~(Tokens(mine[r]) > 0) PROVE Debt(a)'
  <2>1. /\ UNCHANGED <<now, limiters, bucket, addr, arrived, mine, doomed, allowance>>
        /\ pc' = [pc EXCEPT ![r] = "refused"]
    BY <1>7 DEF Allow, Goto, cleanVars
  <2>2. \A b \in Req : Tokens(b)' = Tokens(b)
    BY <2>1 DEF Tokens
  <2>3. \A s \in Req : Holds(s)' => Holds(s)
    BY <1>1, <2>1 DEF Holds, TypeOK
  <2> QED BY <1>3, <2>1, <2>2, <2>3
<1>8. CASE StartCleaning
  <2>1. UNCHANGED <<now, limiters, bucket, reqVars, doomed, allowance>>
    BY <1>8 DEF StartCleaning
  <2> QED BY <1>3, <2>1 DEF Tokens, Holds, reqVars
<1>9. ASSUME NEW b \in Addr, Inspect(b) PROVE Debt(a)'
  <2>1. UNCHANGED <<now, limiters, bucket, pc, addr, arrived, mine, allowance>>
    BY <1>9 DEF Inspect, reqVars
  <2>2. /\ Current(a)' = Current(a) /\ Old(a)' = Old(a)
        /\ \A s \in Req : Tokens(s)' = Tokens(s)
    BY <2>1 DEF Current, Tokens, Old, Holds
  <2>3. CASE doomed' # a
    BY <1>1, <2>1, <2>2, <2>3, DebtKept
  <2>4. CASE doomed' = a
    <3>1. a # NoBucket
      OBVIOUS
    <3>2. a = b /\ Old(a) = {} /\ allowance[a] = Burst
      BY <1>9, <2>4, <3>1, IdleIsEven
    <3>3. Current(a) \in Int /\ Current(a) <= Burst
      BY CurrentTyped
    <3> QED BY <2>1, <2>2, <3>2, <3>3 DEF Debt
  <2> QED BY <2>3, <2>4
<1> QED BY <1>2, <1>4, <1>5, <1>6, <1>7, <1>8, <1>9, DebtAllow, DebtCreate, DebtDelete, StepKinds

----------------------------------------------------------------------------
(* The results.                                                            *)

LEMMA InvStep == ASSUME Inv, [Next]_vars PROVE Inv'
<1>1. CASE Next
  BY <1>1, TypeStep, BucketsStep, CleanerStep, SeenStep, FilledStep, VisitedStep, DebtsStep,
     EarnedStep DEF Inv
<1>2. CASE UNCHANGED vars
  <2> USE <1>2 DEF vars, reqVars, cleanVars
  <2>1. TypeOK' /\ Buckets' /\ Cleaner'
    BY DEF Inv, TypeOK, Buckets, Holds, Cleaner, Cleaning
  <2>2. Seen' /\ Filled' /\ Visited' /\ Earned'
    BY DEF Inv, Seen, Inside, Holds, Filled, Visited, Earned
  <2>3. Debts'
    BY DEF Inv, Debts, Debt, Old, Holds, Current, Tokens
  <2> QED BY <2>1, <2>2, <2>3 DEF Inv
<1> QED BY <1>1, <1>2

\* The inductive invariant of the rate limiting.
THEOREM Invariance == Spec => []Inv
  BY InvInit, InvStep, PTL DEF Spec

\* Every reachable state of the rate limiting is well typed.
THEOREM TypeCorrect == Spec => []TypeOK
<1>1. Inv => TypeOK
  BY DEF Inv
<1> QED BY <1>1, Invariance, PTL

\* However requests and the cleaner interleave in getLimiter, LoadOrStore and Range, an
\* address is served no more than one burst, and a delay's refill, beyond what one bucket
\* that is never forgotten would have allowed it.
THEOREM DebtTheorem == Spec => []AtMostOneExtraBurst
<1>1. ASSUME Inv PROVE AtMostOneExtraBurst
  <2> SUFFICES ASSUME NEW a \in Addr PROVE allowance[a] >= -(Burst + Delay)
    BY DEF AtMostOneExtraBurst
  <2>1. /\ allowance[a] >= Current(a) - Burst - Delay /\ allowance[a] \in Int
        /\ Current(a) \in Int /\ 0 <= Current(a)
    BY <1>1, CurrentTyped DEF Inv, Debts, Debt, TypeOK
  <2> QED BY <2>1, ConstantTypes
<1> QED BY <1>1, Invariance, PTL

\* The map gives every address back: the cleaner, which visits each entry once a period,
\* deletes it in the first round that finds it idle.
THEOREM ForgottenTheorem == Spec => []AddressesAreForgotten
<1>1. ASSUME Inv PROVE AddressesAreForgotten
  <2> SUFFICES ASSUME NEW a \in Addr, limiters[a] # NoBucket
               PROVE  now - bucket[limiters[a]].lastSeen <= IdleCutoff + Interval + Lag
    BY DEF AddressesAreForgotten
  <2> DEFINE last == bucket[limiters[a]].lastSeen
  <2>1. last \in Int /\ now \in Int /\ nextClean \in Int
    BY <1>1, BucketFields DEF Inv, TypeOK, Buckets
  <2>2. now <= nextClean + Lag /\ (Cleaning => now <= nextClean - Interval + Lag)
    BY <1>1 DEF Inv, Cleaner
  <2>3. last >= nextClean - Interval - IdleCutoff
                  - (IF a \in todo \/ doomed = a THEN Interval ELSE 0)
    BY <1>1 DEF Inv, Visited
  <2> HIDE DEF last
  <2>4. CASE a \in todo \/ doomed = a
    <3>1. Cleaning
      BY <2>4, ConstantTypes DEF Cleaning
    <3> QED BY <2>1, <2>2, <2>3, <2>4, <3>1, ConstantTypes DEF last
  <2>5. CASE ~(a \in todo \/ doomed = a)
    BY <2>1, <2>2, <2>3, <2>5, ConstantTypes DEF last
  <2> QED BY <2>4, <2>5
<1> QED BY <1>1, Invariance, PTL

\* Only Inspect chooses an address to forget, and at that moment it finds the bucket full
\* (cleanLimiters).
THEOREM IdleTheorem == Spec => IdleBucketsAreFull
<1>1. ASSUME Inv, [Next]_vars, doomed = NoBucket, doomed' # NoBucket
      PROVE  Tokens(limiters[doomed']) = Burst
  <2>1. PICK a \in Addr : Inspect(a)
    BY <1>1, ConstantTypes
       DEF Next, vars, cleanVars, Tick, Arrive, LoadOrStore, Touch, Allow, StartCleaning, Delete
  <2> QED BY <1>1, <2>1, IdleIsEven
<1>2. Inv /\ [Next]_vars =>
        [doomed = NoBucket /\ doomed' # NoBucket => Tokens(limiters[doomed']) = Burst]_vars
  BY <1>1
<1> QED BY <1>2, Invariance, PTL DEF Spec, IdleBucketsAreFull

=============================================================================
