---------------------------- MODULE ResultCache ----------------------------
(***************************************************************************)
(* The in-memory result cache of the handler package (cache.go): a map     *)
(* from rounded coordinates to a pointer and a creation time, guarded by   *)
(* one RWMutex, with lazy expiry in get, eviction of the oldest entry in   *)
(* set, and a goroutine that sweeps expired entries.                       *)
(*                                                                         *)
(* get, set and one round of the sweep each run under the mutex, so each   *)
(* is one step.  An entry holds a POINTER (a member of Obj): what it       *)
(* points to lives in the module that uses the cache.                      *)
(*                                                                         *)
(* Time is an integer clock.  Lag bounds how late the Go runtime runs the  *)
(* sweeper once its sleep is over; MaxTime bounds the clock for TLC.       *)
(***************************************************************************)
EXTENDS Integers, FiniteSets

CONSTANTS
    Key,              \* cache keys: coordinates rounded to three decimals
    Obj,              \* the objects an entry may point to
    NoEntry,          \* "no entry under this key"
    MaxSize,          \* newResultCache's maxSize (1000)
    TTL,              \* newResultCache's ttl (5 minutes)
    CleanupInterval,  \* startCleanup's interval (1 minute)
    Lag,              \* how late the sweeper may wake up
    MaxTime           \* bound of the clock

Entry == [data : Obj, createdAt : Nat]

ASSUME CacheAssumption ==
    /\ IsFiniteSet(Key)
    /\ MaxSize \in Nat \ {0}
    /\ TTL \in Nat
    /\ CleanupInterval \in Nat \ {0}
    /\ Lag \in Nat
    /\ MaxTime \in Nat
    /\ NoEntry \notin Entry

VARIABLES
    now,      \* the wall clock
    entries,  \* resultCache.entries
    sweepAt   \* when the sleep of the sweeper ends

cacheVars == <<now, entries, sweepAt>>

CacheTypeOK ==
    /\ now \in Nat
    /\ entries \in [Key -> Entry \cup {NoEntry}]
    /\ sweepAt \in Nat

CacheInit ==
    /\ now = 0
    /\ entries = [k \in Key |-> NoEntry]
    /\ sweepAt = CleanupInterval

----------------------------------------------------------------------------
Resident == {k \in Key : entries[k] # NoEntry}

\* time.Since(createdAt) > ttl: an entry is still served at exactly its TTL.
Expired(k) == now - entries[k].createdAt > TTL

\* Mutant of Hit: get forgets the expiry.
HitExpired(k) == k \in Resident

\* get(key) finds an entry it may return.
Hit(k) == k \in Resident /\ ~Expired(k)

Oldest == {k \in Resident :
             \A j \in Resident : entries[k].createdAt <= entries[j].createdAt}

\* Mutant of Victims: an off-by-one in the capacity check.
VictimsTooLate == IF Cardinality(Resident) > MaxSize THEN {{k} : k \in Oldest} ELSE {{}}

\* What set removes first.  The walk over a Go map has no order, so among
\* equally old entries any may be the victim.  The key being set is not
\* exempt, and is not looked for: at capacity a refresh evicts too.
Victims == IF Cardinality(Resident) >= MaxSize THEN {{k} : k \in Oldest} ELSE {{}}

Set(k, d) ==
    \E gone \in Victims :
        entries' = [j \in Key |->
                      IF j = k THEN [data |-> d, createdAt |-> now]
                      ELSE IF j \in gone THEN NoEntry ELSE entries[j]]

\* Mutant of Sweep: what has just expired is left to the next round.
SweepLater ==
    /\ now >= sweepAt
    /\ entries' = [k \in Key |->
                     IF k \in Resident /\ now - entries[k].createdAt > TTL + CleanupInterval
                     THEN NoEntry ELSE entries[k]]
    /\ sweepAt' = now + CleanupInterval
    /\ UNCHANGED now

\* One round of startCleanup; the next sleep starts when the round is over.
Sweep ==
    /\ now >= sweepAt
    /\ entries' = [k \in Key |->
                     IF k \in Resident /\ Expired(k) THEN NoEntry ELSE entries[k]]
    /\ sweepAt' = now + CleanupInterval
    /\ UNCHANGED now

\* Time passes, but not past the moment the sweeper is overdue.
CacheTick ==
    /\ now < MaxTime
    /\ now < sweepAt + Lag
    /\ now' = now + 1

CacheNext ==
    \/ CacheTick /\ UNCHANGED <<entries, sweepAt>>
    \/ Sweep
    \/ \E k \in Key, d \in Obj : Set(k, d) /\ UNCHANGED <<now, sweepAt>>

CacheSpec == CacheInit /\ [][CacheNext]_cacheVars

----------------------------------------------------------------------------
\* The map never holds more than maxSize entries, although set grows it
\* without knowing whether the key is already there (cache.go, set).
CapacityBound == Cardinality(Resident) <= MaxSize

\* No result outlives its expiry by more than one period of the sweeper, so
\* the memory of positions nobody asks for again is given back (cache.go,
\* startCleanup: the sweep and the lazy expiry of get must agree on "expired").
ResidencyBound ==
    \A k \in Resident : now - entries[k].createdAt <= TTL + CleanupInterval + Lag

\* A result a reader could still be served disappears for one reason only: the
\* cache is full and no other entry is older.  The sweeper racing the readers
\* never takes it, and set never picks a younger victim than it must.
OnlyOldestIsLost ==
    [][\A k \in Key :
         Hit(k) /\ k \notin Resident' =>
            /\ Cardinality(Resident) >= MaxSize
            /\ \A j \in Resident : entries[k].createdAt <= entries[j].createdAt]_cacheVars

\* What set stores can be read by the get that follows, also at capacity, also
\* when its own key was the one evicted, and with the object just stored.
SetIsVisible ==
    [][\A k \in Key, d \in Obj :
         Set(k, d) /\ now' = now => Hit(k)' /\ entries'[k].data = d]_cacheVars
=============================================================================
