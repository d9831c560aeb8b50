--------------------------- MODULE FetchAll_proofs ---------------------------
(***************************************************************************)
(* The result cache on its own, for every capacity, TTL, interval and lag; *)
(* then the concurrent result pipeline over it, for every number of        *)
(* requests, keys and sources and every TTL and fetch time.                *)
(***************************************************************************)
EXTENDS FetchAll, FiniteSetTheorems, TLAPS

(* The result cache.                                                       *)

(***************************************************************************)
(* The strengthening: the last round of the sweep ended at                 *)
(* sweepAt - CleanupInterval and left nothing older than the TTL behind.   *)
(* What was stored since is younger, so every entry is bounded from below  *)
(* by a quantity only the next round moves.                                *)
(***************************************************************************)
SweepClock ==
    /\ sweepAt - CleanupInterval <= now
    /\ now <= sweepAt + Lag
    /\ \A k \in Resident : /\ entries[k].createdAt <= now
                           /\ sweepAt - CleanupInterval - TTL <= entries[k].createdAt

CacheInv == CacheTypeOK /\ SweepClock /\ CapacityBound

-----------------------------------------------------------------------------
\* set replaces one entry and removes at most one other.
LEMMA SetTyped ==
    ASSUME CacheTypeOK, NEW k \in Key, NEW d \in Obj, Set(k, d)
    PROVE  /\ entries' \in [Key -> Entry \cup {NoEntry}]
           /\ entries'[k] = [data |-> d, createdAt |-> now]
           /\ \A j \in Key \ {k} : entries'[j] \in {NoEntry, entries[j]}
  <1>1. PICK gone \in Victims :
           entries' = [j \in Key |->
                         IF j = k THEN [data |-> d, createdAt |-> now]
                         ELSE IF j \in gone THEN NoEntry ELSE entries[j]]
    BY DEF Set
  <1>2. [data |-> d, createdAt |-> now] \in Entry
    BY DEF CacheTypeOK, Entry
  <1>3. QED
    BY <1>1, <1>2 DEF CacheTypeOK

\* The entry just set is resident, everything else that is resident was.
LEMMA SetResident ==
    ASSUME CacheTypeOK, NEW k \in Key, NEW d \in Obj, Set(k, d)
    PROVE  /\ k \in Resident'
           /\ Resident' \subseteq Resident \cup {k}
           /\ \A j \in Resident' \ {k} : entries'[j] = entries[j]
  <1>1. /\ entries'[k] = [data |-> d, createdAt |-> now]
        /\ \A j \in Key \ {k} : entries'[j] \in {NoEntry, entries[j]}
    BY SetTyped
  <1>2. [data |-> d, createdAt |-> now] \in Entry
    BY DEF CacheTypeOK, Entry
  <1>3. entries'[k] # NoEntry
    BY <1>1, <1>2, CacheAssumption DEF CacheAssumption
  <1>4. QED
    BY <1>1, <1>3 DEF Resident

\* Adding an element makes a finite set larger by at most one.
LEMMA AddOne ==
    ASSUME NEW S, IsFiniteSet(S), NEW x, NEW T, T \subseteq S \cup {x}
    PROVE  /\ Cardinality(T) \in Nat /\ Cardinality(S) \in Nat
           /\ Cardinality(T) <= Cardinality(S) + 1
  <1>1. Cardinality(S) \in Nat
    BY FS_CardinalityType
  <1>2. /\ IsFiniteSet(S \cup {x})
        /\ Cardinality(S \cup {x}) <= Cardinality(S) + 1
    BY <1>1, FS_AddElement
  <1>3. Cardinality(T) <= Cardinality(S \cup {x})
    BY <1>2, FS_Subset
  <1>4. Cardinality(T) \in Nat /\ Cardinality(S \cup {x}) \in Nat
    BY <1>2, FS_Subset, FS_CardinalityType
  <1>5. QED
    BY <1>1, <1>2, <1>3, <1>4

LEMMA ResidentFinite == IsFiniteSet(Resident) /\ Cardinality(Resident) \in Nat
  <1>1. Resident \subseteq Key
    BY DEF Resident
  <1>2. QED
    BY <1>1, CacheAssumption, FS_Subset, FS_CardinalityType DEF CacheAssumption

LEMMA SetKeepsCapacity ==
    ASSUME CacheTypeOK, CapacityBound, NEW k \in Key, NEW d \in Obj, Set(k, d)
    PROVE  CapacityBound'
  <1>1. PICK gone \in Victims :
           entries' = [j \in Key |->
                         IF j = k THEN [data |-> d, createdAt |-> now]
                         ELSE IF j \in gone THEN NoEntry ELSE entries[j]]
    BY DEF Set
  <1>2. IsFiniteSet(Resident) /\ Cardinality(Resident) \in Nat
    BY ResidentFinite
  <1>3. Resident' \subseteq (Resident \ gone) \cup {k}
    BY <1>1 DEF Resident
  <1>4. CASE gone = {} /\ Cardinality(Resident) < MaxSize
    <2>1. Resident' \subseteq Resident \cup {k}
      BY <1>3
    <2>2. /\ Cardinality(Resident') \in Nat
          /\ Cardinality(Resident') <= Cardinality(Resident) + 1
      BY <1>2, <2>1, AddOne
    <2>3. QED
      BY <1>2, <1>4, <2>2, CacheAssumption DEF CapacityBound, CacheAssumption
  <1>5. CASE \E v \in Resident : gone = {v}
    <2>1. PICK v \in Resident : gone = {v}
      BY <1>5
    <2>2. /\ IsFiniteSet(Resident \ {v})
          /\ Cardinality(Resident \ {v}) = Cardinality(Resident) - 1
      BY <1>2, <2>1, FS_RemoveElement
    <2>3. Resident' \subseteq (Resident \ {v}) \cup {k}
      BY <1>3, <2>1
    <2>4. /\ Cardinality(Resident') \in Nat
          /\ Cardinality(Resident') <= Cardinality(Resident \ {v}) + 1
      BY <2>2, <2>3, AddOne
    <2>5. QED
      BY <1>2, <2>2, <2>4, CacheAssumption DEF CapacityBound, CacheAssumption
  <1>6. \/ gone = {} /\ Cardinality(Resident) < MaxSize
        \/ \E v \in Resident : gone = {v}
    BY <1>2, CacheAssumption DEF Victims, Oldest, CacheAssumption
  <1>7. QED
    BY <1>4, <1>5, <1>6

-----------------------------------------------------------------------------
LEMMA InvInit == CacheInit => CacheInv
  <1> SUFFICES ASSUME CacheInit PROVE CacheInv
    OBVIOUS
  <1>1. CacheTypeOK
    BY CacheAssumption DEF CacheInit, CacheTypeOK, CacheAssumption
  <1>2. Resident = {}
    BY DEF CacheInit, Resident
  <1>3. SweepClock
    BY <1>2, CacheAssumption DEF CacheInit, SweepClock, CacheAssumption
  <1>4. CapacityBound
    BY <1>2, FS_EmptySet, CacheAssumption DEF CapacityBound, CacheAssumption
  <1>5. QED
    BY <1>1, <1>3, <1>4 DEF CacheInv

LEMMA InvSet ==
    ASSUME CacheInv, NEW k \in Key, NEW d \in Obj, Set(k, d), UNCHANGED <<now, sweepAt>>
    PROVE  CacheInv'
  <1>1. CacheTypeOK'
    BY SetTyped DEF CacheInv, CacheTypeOK
  <1>2. SweepClock'
    <2>1. \A j \in Resident' \ {k} : j \in Resident /\ entries'[j] = entries[j]
      BY SetResident DEF CacheInv
    <2>2. entries'[k] = [data |-> d, createdAt |-> now]
      BY SetTyped DEF CacheInv
    <2>3. entries'[k].createdAt = now
      BY <2>2
    <2>4. QED
      BY <2>1, <2>3, CacheAssumption DEF CacheInv, CacheTypeOK, SweepClock, CacheAssumption
  <1>3. CapacityBound'
    BY SetKeepsCapacity DEF CacheInv
  <1>4. QED
    BY <1>1, <1>2, <1>3 DEF CacheInv

LEMMA InvSweep == ASSUME CacheInv, Sweep PROVE CacheInv'
  <1>1. CacheTypeOK'
    BY CacheAssumption DEF CacheInv, CacheTypeOK, Sweep, CacheAssumption
  <1>2. \A k \in Resident' : /\ k \in Resident /\ ~Expired(k)
                             /\ entries'[k] = entries[k]
    BY DEF Sweep, Resident
  <1>3. SweepClock'
    <2>1. now' = now /\ sweepAt' = now + CleanupInterval
      BY DEF Sweep
    <2>2. \A k \in Resident : entries[k].createdAt \in Nat
      BY DEF CacheInv, CacheTypeOK, Entry, Resident
    <2>3. \A k \in Resident' : /\ entries'[k].createdAt <= now
                               /\ now - TTL <= entries'[k].createdAt
      BY <1>2, <2>2, CacheAssumption
         DEF CacheInv, CacheTypeOK, SweepClock, Expired, CacheAssumption
    <2>4. QED
      BY <2>1, <2>3, CacheAssumption DEF CacheInv, CacheTypeOK, SweepClock, CacheAssumption
  <1>4. CapacityBound'
    <2>1. Resident' \subseteq Resident
      BY <1>2
    <2>2. Cardinality(Resident') <= Cardinality(Resident) /\ Cardinality(Resident') \in Nat
      BY <2>1, ResidentFinite, FS_Subset, FS_CardinalityType
    <2>3. QED
      BY <2>2, ResidentFinite, CacheAssumption DEF CacheInv, CapacityBound, CacheAssumption
  <1>5. QED
    BY <1>1, <1>3, <1>4 DEF CacheInv

LEMMA InvTick ==
    ASSUME CacheInv, CacheTick, UNCHANGED <<entries, sweepAt>>
    PROVE  CacheInv'
  <1>1. CacheTypeOK'
    BY DEF CacheInv, CacheTypeOK, CacheTick
  <1>2. Resident' = Resident /\ \A k \in Resident : entries[k].createdAt \in Nat
    BY DEF Resident, CacheInv, CacheTypeOK, Entry
  <1>3. SweepClock'
    BY <1>2, CacheAssumption
       DEF CacheInv, CacheTypeOK, SweepClock, CacheTick, CacheAssumption
  <1>4. CapacityBound'
    BY <1>2 DEF CacheInv, CapacityBound
  <1>5. QED
    BY <1>1, <1>3, <1>4 DEF CacheInv

LEMMA InvStutter == ASSUME CacheInv, UNCHANGED cacheVars PROVE CacheInv'
  BY DEF CacheInv, cacheVars, CacheTypeOK, SweepClock, CapacityBound, Resident

\* The inductive invariant of the cache: its size, and the dates of its entries against
\* the clock of the sweeper (startCleanup).
THEOREM CacheInvariant == CacheSpec => []CacheInv
  <1>1. CacheInit => CacheInv
    BY InvInit
  <1>2. CacheInv /\ [CacheNext]_cacheVars => CacheInv'
    BY InvSet, InvSweep, InvTick, InvStutter DEF CacheNext
  <1>3. QED
    BY <1>1, <1>2, PTL DEF CacheSpec

-----------------------------------------------------------------------------
\* The map never outgrows maxSize, whatever is set in whatever order.
THEOREM CapacityTheorem == CacheSpec => []CapacityBound
  <1>1. CacheInv => CapacityBound
    BY DEF CacheInv
  <1>2. QED
    BY <1>1, CacheInvariant, PTL

\* No entry is kept longer than its TTL plus one period of the sweeper.
LEMMA InvImpliesResidency == CacheInv => ResidencyBound
  <1> SUFFICES ASSUME CacheInv, NEW k \in Resident
               PROVE  now - entries[k].createdAt <= TTL + CleanupInterval + Lag
    BY DEF ResidencyBound
  <1>1. entries[k].createdAt \in Nat
    BY DEF CacheInv, CacheTypeOK, Entry, Resident
  <1>2. QED
    BY <1>1, CacheAssumption DEF CacheInv, CacheTypeOK, SweepClock, CacheAssumption

\* No entry stays longer than its TTL, one period of the sweeper and its lag
\* (startCleanup).
THEOREM ResidencyTheorem == CacheSpec => []ResidencyBound
  BY CacheInvariant, InvImpliesResidency, PTL

\* The entry a set has stored is the one the next get finds, whatever was
\* evicted to make room for it, its own former entry included.
THEOREM SetIsVisibleTheorem == CacheSpec => SetIsVisible
  <1>1. ASSUME CacheInv, NEW k \in Key, NEW d \in Obj, Set(k, d), now' = now
        PROVE  Hit(k)' /\ entries'[k].data = d
    <2>1. k \in Resident' /\ entries'[k] = [data |-> d, createdAt |-> now]
      BY <1>1, SetTyped, SetResident DEF CacheInv
    <2>2. now' - entries'[k].createdAt = 0
      BY <1>1, <2>1 DEF CacheInv, CacheTypeOK
    <2>3. ~Expired(k)'
      BY <2>2, CacheAssumption DEF Expired, CacheAssumption
    <2>4. QED
      BY <2>1, <2>3 DEF Hit
  <1>2. CacheInv => [\A k \in Key, d \in Obj :
                       Set(k, d) /\ now' = now => Hit(k)' /\ entries'[k].data = d]_cacheVars
    BY <1>1
  <1>3. QED
    BY <1>2, CacheInvariant, PTL DEF SetIsVisible

\* A live result is given up only at capacity, and then an oldest one: set removes one
\* entry of Oldest at most, and the sweep and the lazy expiry only take what is expired.
THEOREM OldestTheorem == CacheSpec => OnlyOldestIsLost
  <1>1. ASSUME CacheInv, [CacheNext]_cacheVars, NEW k \in Key, Hit(k), k \notin Resident'
        PROVE  /\ Cardinality(Resident) >= MaxSize
               /\ \A j \in Resident : entries[k].createdAt <= entries[j].createdAt
    <2>1. k \in Resident /\ entries[k] # NoEntry /\ ~Expired(k) /\ entries'[k] = NoEntry
      BY <1>1 DEF Hit, Resident
    <2>2. PICK j \in Key, d \in Obj : Set(j, d)
      BY <1>1, <2>1 DEF CacheNext, cacheVars, Sweep
    <2>3. k # j
      BY <1>1, <2>2, SetResident DEF CacheInv
    <2>4. PICK gone \in Victims :
             entries' = [i \in Key |->
                           IF i = j THEN [data |-> d, createdAt |-> now]
                           ELSE IF i \in gone THEN NoEntry ELSE entries[i]]
      BY <2>2 DEF Set
    <2>5. k \in gone
      BY <2>1, <2>3, <2>4
    <2>6. Cardinality(Resident) >= MaxSize /\ k \in Oldest
      BY <2>4, <2>5 DEF Victims
    <2>7. QED
      BY <2>6 DEF Oldest
  <1>2. CacheInv /\ [CacheNext]_cacheVars =>
          [\A k \in Key :
             Hit(k) /\ k \notin Resident' =>
                /\ Cardinality(Resident) >= MaxSize
                /\ \A j \in Resident : entries[k].createdAt <= entries[j].createdAt]_cacheVars
    BY <1>1
  <1>3. QED
    BY <1>2, CacheInvariant, PTL DEF OnlyOldestIsLost, CacheSpec

-----------------------------------------------------------------------------
(* The pipeline.                                                           *)

\* A request that is still fetching has not used up its time.
Busy(r) == phase[r] \in {"fetching", "joined", "topup"}

Clocks ==
    \A r \in Req : Busy(r) => since[r] <= now /\ now <= since[r] + FetchMax

\* The WaitGroup counts the goroutines that have not called Done.
Counted == \A r \in Req : wg[r] = Cardinality(running[r])

\* A struct nobody will write to again.
Finished(o) ==
    /\ phase[o] = "answered"
    /\ heap[o] # NoObj
    /\ running[o] = {}
    /\ heap[o].begun <= now
    /\ heap[o].hasTraffic => heap[o].result["traffic"] # "none"

IdleInv(r) ==
    phase[r] = "idle" => heap[r] = NoObj /\ running[r] = {} /\ answer[r] = NoObj

\* While it is fetched, a struct holds the results of the goroutines that are done.
FetchInv(r) ==
    phase[r] \in {"fetching", "joined"} =>
        /\ heap[r] # NoObj
        /\ heap[r].key = key[r]
        /\ heap[r].begun = since[r]
        /\ heap[r].hasTraffic = wants[r]
        /\ running[r] \subseteq Goroutines(wants[r])
        /\ \A s \in Goroutines(wants[r]) \ running[r] : heap[r].result[s] # "none"
        /\ answer[r] = NoObj
        /\ phase[r] = "joined" => running[r] = {} /\ heap[r].enriched

TopUpInv(r) ==
    phase[r] = "topup" =>
        /\ heap[r] # NoObj
        /\ heap[r].key = key[r]
        /\ heap[r].begun <= since[r]
        /\ since[r] - heap[r].begun <= TTL + FetchMax
        /\ running[r] = {}
        /\ answer[r] = NoObj

AnsweredInv(r) ==
    phase[r] = "answered" =>
        /\ answer[r] \in Req
        /\ running[r] = {}
        /\ Finished(answer[r])
        /\ heap[answer[r]].key = key[r]
        /\ heap[answer[r]].begun <= answeredAt[r]
        /\ answeredAt[r] - heap[answer[r]].begun <= AnswerBound
        /\ wants[r] => heap[answer[r]].hasTraffic

\* What the cache points to is finished and was begun shortly before it was stored.
CachedAt(k, e) ==
    /\ Finished(e.data)
    /\ heap[e.data].key = k
    /\ heap[e.data].enriched
    /\ heap[e.data].result["utm"] = "ok"
    /\ heap[e.data].begun <= e.createdAt
    /\ e.createdAt <= now
    /\ e.createdAt - heap[e.data].begun <= FetchMax

CachedInv == \A k \in Resident : CachedAt(k, entries[k])

RequestInv == \A r \in Req : IdleInv(r) /\ FetchInv(r) /\ TopUpInv(r) /\ AnsweredInv(r)

IInv == TypeOK /\ Clocks /\ Counted /\ RequestInv /\ CachedInv

-----------------------------------------------------------------------------
LEMMA EntryType == ASSUME TypeOK, NEW k \in Resident
                   PROVE  entries[k] \in Entry /\ entries[k].data \in Req
                          /\ entries[k].createdAt \in Nat
  BY FetchAssumption DEF TypeOK, CacheTypeOK, Entry, Resident, FetchAssumption

LEMMA HeapType == ASSUME TypeOK, NEW o \in Req, heap[o] # NoObj
                  PROVE  heap[o] \in Object /\ heap[o].begun \in Nat
                         /\ heap[o].hasTraffic \in BOOLEAN
  BY DEF TypeOK, Object

\* A struct nobody writes to stays finished.
LEMMA StaysFinished ==
    ASSUME NEW o \in Req, Finished(o), TypeOK,
           heap'[o] = heap[o], phase'[o] = phase[o], running'[o] = running[o],
           now' \in Nat, now <= now'
    PROVE  Finished(o)'
  <1>1. heap[o].begun \in Nat /\ now \in Nat
    BY HeapType DEF Finished, TypeOK, CacheTypeOK
  <1>2. QED
    BY <1>1 DEF Finished

LEMMA NoObjOutside == ASSUME NEW d \in Object PROVE d # NoObj
  BY FetchAssumption DEF FetchAssumption

\* What a goroutine's write of its result makes of a struct ...
LEMMA WrittenType ==
    ASSUME NEW h \in Object, NEW s \in Source, NEW res \in Outcome
    PROVE  /\ Written(h, s, res) \in Object
           /\ Written(h, s, res).key = h.key
           /\ Written(h, s, res).begun = h.begun
           /\ Written(h, s, res).enriched = h.enriched
           /\ Written(h, s, res).hasTraffic = h.hasTraffic
           /\ \A q \in Source : Written(h, s, res).result[q] = IF q = s THEN res ELSE h.result[q]
  <1>1. h.result \in [Source -> Outcome]
    BY DEF Object
  <1>2. [h.result EXCEPT ![s] = res] \in [Source -> Outcome]
    BY <1>1
  <1>3. Written(h, s, res) =
          [key |-> h.key, begun |-> h.begun, hasTraffic |-> h.hasTraffic,
           result |-> [h.result EXCEPT ![s] = res], enriched |-> h.enriched]
    BY DEF Object, Written
  <1>4. QED
    BY <1>1, <1>2, <1>3 DEF Object

\* ... and what the top-up makes of the copy.
LEMMA ToppedUpType ==
    ASSUME NEW h \in Object, NEW res \in Outcome
    PROVE  /\ ToppedUp(h, res) \in Object
           /\ ToppedUp(h, res).key = h.key
           /\ ToppedUp(h, res).begun = h.begun
           /\ ToppedUp(h, res).hasTraffic = TRUE
           /\ ToppedUp(h, res).result["traffic"] = res
  <1>1. "traffic" \in Source
    BY FetchAssumption DEF FetchAssumption
  <1>2. /\ Written(h, "traffic", res) \in Object
        /\ Written(h, "traffic", res).key = h.key
        /\ Written(h, "traffic", res).begun = h.begun
        /\ Written(h, "traffic", res).result["traffic"] = res
    BY <1>1, WrittenType
  <1>3. QED
    BY <1>2 DEF Object, ToppedUp

LEMMA InitInv == Init => IInv
  <1> SUFFICES ASSUME Init PROVE IInv
    OBVIOUS
  <1>1. TypeOK
    BY InvInit DEF Init, TypeOK, CacheInv, Phase
  <1>2. Clocks
    BY DEF Init, Clocks, Busy
  <1>3. Counted
    BY FS_EmptySet DEF Init, Counted
  <1>4. RequestInv
    BY DEF Init, RequestInv, IdleInv, FetchInv, TopUpInv, AnsweredInv
  <1>5. CachedInv
    BY DEF Init, CacheInit, CachedInv, Resident
  <1>6. QED
    BY <1>1, <1>2, <1>3, <1>4, <1>5 DEF IInv

-----------------------------------------------------------------------------
\* A hit is recent: at most TTL since it was stored, at most FetchMax before that.
LEMMA HitIsRecent ==
    ASSUME IInv, NEW k \in Key, Hit(k)
    PROVE  LET o == entries[k].data
           IN  /\ o \in Req /\ Finished(o) /\ heap[o] \in Object /\ heap[o].key = k
               /\ heap[o].begun <= now
               /\ now - heap[o].begun <= TTL + FetchMax
  <1>1. k \in Resident /\ now - entries[k].createdAt <= TTL
    BY EntryType, CacheAssumption DEF Hit, Expired, IInv, TypeOK, CacheTypeOK, CacheAssumption
  <1>2. /\ entries[k].data \in Req /\ entries[k].createdAt \in Nat
        /\ Finished(entries[k].data) /\ heap[entries[k].data].key = k
        /\ heap[entries[k].data].begun <= entries[k].createdAt
        /\ entries[k].createdAt <= now
        /\ entries[k].createdAt - heap[entries[k].data].begun <= FetchMax
    BY <1>1, EntryType DEF IInv, CachedInv, CachedAt
  <1>3. heap[entries[k].data] \in Object /\ heap[entries[k].data].begun \in Nat
    BY <1>2, HeapType DEF IInv, Finished
  <1>4. QED
    BY <1>1, <1>2, <1>3, CacheAssumption, FetchAssumption
       DEF IInv, TypeOK, CacheTypeOK, CacheAssumption, FetchAssumption

LEMMA ServeHitInv == ASSUME IInv, NEW r \in Req, ServeHit(r) PROVE IInv'
  <1> DEFINE o == entries[key[r]].data
  <1>1. /\ key[r] \in Key /\ o \in Req /\ Finished(o) /\ heap[o] \in Object
        /\ heap[o].key = key[r] /\ heap[o].begun <= now
        /\ now - heap[o].begun <= TTL + FetchMax
    BY HitIsRecent DEF ServeHit, IInv, TypeOK
  <1>2. /\ phase' = [phase EXCEPT ![r] = "answered"]
        /\ answer' = [answer EXCEPT ![r] = o]
        /\ answeredAt' = [answeredAt EXCEPT ![r] = now]
        /\ since' = [since EXCEPT ![r] = now]
        /\ UNCHANGED <<now, entries, sweepAt, key, wants, running, wg, heap>>
        /\ phase[r] = "idle" /\ (wants[r] => heap[o].hasTraffic)
    BY DEF ServeHit, Reply, NeedsTopUp
  <1>3. TypeOK'
    BY <1>1, <1>2 DEF IInv, TypeOK, CacheTypeOK, Phase
  <1>4. Clocks'
    BY <1>2 DEF IInv, TypeOK, Clocks, Busy
  <1>5. Counted'
    BY <1>2 DEF IInv, Counted
  <1>6. \A p \in Req : Finished(p) => Finished(p)'
    BY <1>2 DEF Finished, IInv, TypeOK
  <1>7. RequestInv'
    <2> SUFFICES ASSUME NEW p \in Req
                 PROVE  (IdleInv(p) /\ FetchInv(p) /\ TopUpInv(p) /\ AnsweredInv(p))'
      BY DEF RequestInv
    <2>1. CASE p # r
      BY <1>2, <1>6, <2>1
         DEF IInv, TypeOK, RequestInv, IdleInv, FetchInv, TopUpInv, AnsweredInv, Goroutines
    <2>2. CASE p = r
      <3>1. running[r] = {} /\ phase'[r] = "answered" /\ answer'[r] = o /\ answeredAt'[r] = now
        BY <1>2 DEF IInv, RequestInv, IdleInv, TypeOK
      <3>2. now - heap[o].begun <= AnswerBound
        BY <1>1, CacheAssumption, FetchAssumption
           DEF IInv, TypeOK, CacheTypeOK, Object, AnswerBound, CacheAssumption, FetchAssumption
      <3>3. QED
        BY <1>1, <1>2, <1>6, <2>2, <3>1, <3>2
           DEF IdleInv, FetchInv, TopUpInv, AnsweredInv
    <2>3. QED
      BY <2>1, <2>2
  <1>8. CachedInv'
    BY <1>2, <1>6, EntryType DEF IInv, CachedInv, CachedAt, Resident
  <1>9. QED
    BY <1>3, <1>4, <1>5, <1>7, <1>8 DEF IInv

\* The steps of a request that is not finished leave every finished struct and
\* every other request alone.
LEMMA OthersUnchanged ==
    ASSUME IInv, NEW r \in Req, phase[r] # "answered",
           NEW p \in Req, p # r,
           phase'[p] = phase[p], heap'[p] = heap[p], running'[p] = running[p],
           since'[p] = since[p], answer'[p] = answer[p], answeredAt'[p] = answeredAt[p],
           UNCHANGED <<now, key, wants>>,
           \A o \in Req : Finished(o) => Finished(o)' /\ heap'[o] = heap[o]
    PROVE  (IdleInv(p) /\ FetchInv(p) /\ TopUpInv(p) /\ AnsweredInv(p))'
  <1>1. IdleInv(p) /\ FetchInv(p) /\ TopUpInv(p) /\ AnsweredInv(p)
    BY DEF IInv, RequestInv
  <1>2. IdleInv(p)' /\ FetchInv(p)' /\ TopUpInv(p)'
    BY <1>1 DEF IdleInv, FetchInv, TopUpInv, Goroutines
  <1>3. AnsweredInv(p)'
    BY <1>1 DEF AnsweredInv
  <1>4. QED
    BY <1>2, <1>3

\* A step that stores nothing keeps the cache sound if it leaves what is finished.
LEMMA CacheKept ==
    ASSUME IInv, UNCHANGED <<now, entries, sweepAt>>,
           \A o \in Req : Finished(o) => Finished(o)' /\ heap'[o] = heap[o]
    PROVE  CachedInv'
  <1>1. Resident' = Resident
    BY DEF Resident
  <1>2. QED
    BY <1>1, EntryType DEF IInv, CachedInv, CachedAt

\* One request r, whose struct is not finished, writes only its own struct.
LEMMA FinishedKept ==
    ASSUME IInv, NEW r \in Req, ~Finished(r), now' = now,
           \A o \in Req \ {r} : /\ heap'[o] = heap[o] /\ phase'[o] = phase[o]
                               /\ running'[o] = running[o]
    PROVE  \A o \in Req : Finished(o) => Finished(o)' /\ heap'[o] = heap[o]
  BY DEF Finished

LEMMA StartTopUpInv == ASSUME IInv, NEW r \in Req, StartTopUp(r) PROVE IInv'
  <1> DEFINE o == entries[key[r]].data
  <1>1. /\ key[r] \in Key /\ o \in Req /\ Finished(o) /\ heap[o] \in Object
        /\ heap[o].key = key[r] /\ heap[o].begun <= now
        /\ now - heap[o].begun <= TTL + FetchMax
    BY HitIsRecent DEF StartTopUp, IInv, TypeOK
  <1>2. /\ heap' = [heap EXCEPT ![r] = heap[o]]
        /\ phase' = [phase EXCEPT ![r] = "topup"]
        /\ since' = [since EXCEPT ![r] = now]
        /\ UNCHANGED <<now, entries, sweepAt, key, wants, running, wg, answer, answeredAt>>
        /\ phase[r] = "idle" /\ running[r] = {} /\ answer[r] = NoObj
    BY DEF StartTopUp, IInv, RequestInv, IdleInv
  <1>3. TypeOK'
    BY <1>1, <1>2 DEF IInv, TypeOK, CacheTypeOK, Phase
  <1>4. Clocks'
    BY <1>2, FetchAssumption DEF IInv, TypeOK, CacheTypeOK, Clocks, Busy, FetchAssumption
  <1>5. Counted'
    BY <1>2 DEF IInv, Counted
  <1>6. \A p \in Req : Finished(p) => Finished(p)' /\ heap'[p] = heap[p]
    BY <1>2, FinishedKept DEF IInv, TypeOK, Finished
  <1>7. RequestInv'
    <2> SUFFICES ASSUME NEW p \in Req
                 PROVE  (IdleInv(p) /\ FetchInv(p) /\ TopUpInv(p) /\ AnsweredInv(p))'
      BY DEF RequestInv
    <2>1. CASE p # r
      BY <1>2, <1>6, <2>1, OthersUnchanged DEF IInv, TypeOK
    <2>2. CASE p = r
      <3>1. phase'[r] = "topup" /\ heap'[r] = heap[o] /\ since'[r] = now
        BY <1>2 DEF IInv, TypeOK
      <3>2. heap[o] # NoObj
        BY <1>1 DEF Finished
      <3>3. QED
        BY <1>1, <1>2, <2>2, <3>1, <3>2 DEF IdleInv, FetchInv, TopUpInv, AnsweredInv
    <2>3. QED
      BY <2>1, <2>2
  <1>8. CachedInv'
    BY <1>2, <1>6, CacheKept
  <1>9. QED
    BY <1>3, <1>4, <1>5, <1>7, <1>8 DEF IInv

LEMMA FinishTopUpInv == ASSUME IInv, NEW r \in Req, FinishTopUp(r) PROVE IInv'
  <1>1. PICK res \in {"ok", "failed"} :
           heap' = [heap EXCEPT ![r] = ToppedUp(@, res)]
    BY DEF FinishTopUp
  <1>2. /\ phase' = [phase EXCEPT ![r] = "answered"]
        /\ answer' = [answer EXCEPT ![r] = r]
        /\ answeredAt' = [answeredAt EXCEPT ![r] = now]
        /\ UNCHANGED <<now, entries, sweepAt, key, wants, since, running, wg>>
        /\ phase[r] = "topup"
    BY DEF FinishTopUp, Reply
  <1>3. /\ heap[r] # NoObj /\ heap[r] \in Object /\ heap[r].begun \in Nat
        /\ heap[r].key = key[r] /\ running[r] = {}
        /\ heap[r].begun <= since[r] /\ since[r] - heap[r].begun <= TTL + FetchMax
        /\ since[r] <= now /\ now <= since[r] + FetchMax
    BY <1>2, HeapType DEF IInv, RequestInv, TopUpInv, Clocks, Busy
  <1>4. /\ heap'[r] \in Object
        /\ heap'[r].begun = heap[r].begun /\ heap'[r].key = key[r]
        /\ heap'[r].hasTraffic /\ heap'[r].result["traffic"] # "none"
        /\ \A p \in Req \ {r} : heap'[p] = heap[p]
    <2>1. heap'[r] = ToppedUp(heap[r], res)
      BY <1>1 DEF IInv, TypeOK
    <2>2. res \in Outcome /\ res # "none"
      BY DEF Outcome
    <2>3. /\ heap'[r] \in Object /\ heap'[r].key = heap[r].key
          /\ heap'[r].begun = heap[r].begun /\ heap'[r].hasTraffic
          /\ heap'[r].result["traffic"] = res
      <3>1. heap[r] \in Object
        BY <1>3
      <3> DEFINE t == ToppedUp(heap[r], res)
      <3>2. /\ t \in Object /\ t.key = heap[r].key /\ t.begun = heap[r].begun
            /\ t.hasTraffic = TRUE /\ t.result["traffic"] = res
        BY <2>2, <3>1, ToppedUpType
      <3>3. heap'[r] = t
        BY <2>1
      <3> HIDE DEF t
      <3> QED BY <3>2, <3>3
    <2>4. \A p \in Req \ {r} : heap'[p] = heap[p]
      BY <1>1 DEF IInv, TypeOK
    <2>5. QED
      BY <1>3, <2>2, <2>3, <2>4
  <1>6. heap'[r] # NoObj
    BY <1>4, NoObjOutside
  <1>7. TypeOK'
    BY <1>1, <1>2, <1>4 DEF IInv, TypeOK, CacheTypeOK, Phase
  <1>8. Clocks'
    BY <1>2 DEF IInv, TypeOK, Clocks, Busy
  <1>9. Counted'
    BY <1>2 DEF IInv, Counted
  <1>10. \A p \in Req : Finished(p) => Finished(p)' /\ heap'[p] = heap[p]
    BY <1>2, <1>4, FinishedKept DEF IInv, TypeOK, Finished
  <1>11. RequestInv'
    <2> SUFFICES ASSUME NEW p \in Req
                 PROVE  (IdleInv(p) /\ FetchInv(p) /\ TopUpInv(p) /\ AnsweredInv(p))'
      BY DEF RequestInv
    <2>1. CASE p # r
      BY <1>2, <1>4, <1>10, <2>1, OthersUnchanged DEF IInv, TypeOK
    <2>2. CASE p = r
      <3>1. phase'[r] = "answered" /\ answer'[r] = r /\ answeredAt'[r] = now
        BY <1>2 DEF IInv, TypeOK
      <3>2. Finished(r)'
        BY <1>2, <1>3, <1>4, <1>6, <3>1 DEF Finished, IInv, TypeOK, CacheTypeOK
      <3>3. now - heap[r].begun <= AnswerBound /\ heap[r].begun <= now
        BY <1>3, CacheAssumption, FetchAssumption
           DEF IInv, TypeOK, CacheTypeOK, AnswerBound, CacheAssumption, FetchAssumption
      <3>4. QED
        BY <1>2, <1>3, <1>4, <2>2, <3>1, <3>2, <3>3
           DEF IdleInv, FetchInv, TopUpInv, AnsweredInv, AnswerBound
    <2>3. QED
      BY <2>1, <2>2
  <1>12. CachedInv'
    BY <1>2, <1>10, CacheKept
  <1>13. QED
    BY <1>7, <1>8, <1>9, <1>11, <1>12 DEF IInv

-----------------------------------------------------------------------------
LEMMA GoroutinesFinite == \A w \in BOOLEAN : /\ Goroutines(w) \subseteq Source
                                              /\ IsFiniteSet(Goroutines(w))
  <1>1. \A w \in BOOLEAN : Goroutines(w) \subseteq Source
    BY DEF Goroutines
  <1>2. QED
    BY <1>1, FS_Subset, FetchAssumption DEF FetchAssumption

LEMMA StartFetchInv == ASSUME IInv, NEW r \in Req, StartFetch(r) PROVE IInv'
  <1> DEFINE h == [key |-> key[r], begun |-> now, hasTraffic |-> wants[r],
                   result |-> [s \in Source |-> "none"], enriched |-> FALSE]
  <1>1. /\ heap' = [heap EXCEPT ![r] = h]
        /\ wg' = [wg EXCEPT ![r] = Cardinality(Goroutines(wants[r]))]
        /\ running' = [running EXCEPT ![r] = Goroutines(wants[r])]
        /\ phase' = [phase EXCEPT ![r] = "fetching"]
        /\ since' = [since EXCEPT ![r] = now]
        /\ UNCHANGED <<now, entries, sweepAt, key, wants, answer, answeredAt>>
        /\ phase[r] = "idle" /\ answer[r] = NoObj
    BY DEF StartFetch, IInv, RequestInv, IdleInv
  <1>2. h \in Object /\ h # NoObj
    <2>1. h \in Object
      BY DEF IInv, TypeOK, CacheTypeOK, Object, Outcome
    <2>2. QED
      BY <2>1, NoObjOutside
  <1>3. wants[r] \in BOOLEAN /\ Goroutines(wants[r]) \subseteq Source
    BY GoroutinesFinite DEF IInv, TypeOK
  <1>4. Cardinality(Goroutines(wants[r])) \in Nat
    <2>1. IsFiniteSet(Goroutines(wants[r]))
      BY <1>3, GoroutinesFinite
    <2>2. QED
      BY <2>1, FS_CardinalityType
  <1>5. TypeOK'
    <2>1. heap' \in [Req -> Object \cup {NoObj}]
      BY <1>1, <1>2 DEF IInv, TypeOK
    <2>2. QED
      BY <1>1, <1>3, <1>4, <2>1 DEF IInv, TypeOK, CacheTypeOK, Phase
  <1>6. Clocks'
    BY <1>1, FetchAssumption DEF IInv, TypeOK, CacheTypeOK, Clocks, Busy, FetchAssumption
  <1>7. Counted'
    BY <1>1 DEF IInv, TypeOK, Counted
  <1>8. \A p \in Req : Finished(p) => Finished(p)' /\ heap'[p] = heap[p]
    BY <1>1, FinishedKept DEF IInv, TypeOK, Finished
  <1>9. RequestInv'
    <2> SUFFICES ASSUME NEW p \in Req
                 PROVE  (IdleInv(p) /\ FetchInv(p) /\ TopUpInv(p) /\ AnsweredInv(p))'
      BY DEF RequestInv
    <2>1. CASE p # r
      BY <1>1, <1>8, <2>1, OthersUnchanged DEF IInv, TypeOK
    <2>2. CASE p = r
      <3>1. /\ phase'[r] = "fetching" /\ heap'[r] = h /\ since'[r] = now
            /\ running'[r] = Goroutines(wants[r])
        BY <1>1 DEF IInv, TypeOK
      <3>2. /\ h.key = key[r] /\ h.begun = now /\ h.hasTraffic = wants[r]
        OBVIOUS
      <3> HIDE DEF h
      <3>3. QED
        BY <1>1, <1>2, <2>2, <3>1, <3>2 DEF IdleInv, FetchInv, TopUpInv, AnsweredInv, Goroutines
    <2>3. QED
      BY <2>1, <2>2
  <1>10. CachedInv'
    BY <1>1, <1>8, CacheKept
  <1>11. QED
    BY <1>5, <1>6, <1>7, <1>9, <1>10 DEF IInv

LEMMA SourceDoneInv ==
    ASSUME IInv, NEW r \in Req, NEW s \in Source, SourceDone(r, s)
    PROVE  IInv'
  <1>1. PICK res \in {"ok", "failed"} : heap' = [heap EXCEPT ![r] = Written(@, s, res)]
    BY DEF SourceDone
  <1>2. /\ s \in running[r]
        /\ running' = [running EXCEPT ![r] = @ \ {s}]
        /\ wg' = [wg EXCEPT ![r] = @ - 1]
        /\ UNCHANGED <<now, entries, sweepAt, phase, key, wants, since, answer, answeredAt>>
    BY DEF SourceDone
  <1>3. phase[r] = "fetching"
    BY <1>2 DEF IInv, TypeOK, Phase, RequestInv, IdleInv, FetchInv, TopUpInv, AnsweredInv
  <1>4. /\ heap[r] # NoObj /\ heap[r] \in Object
        /\ heap[r].key = key[r] /\ heap[r].begun = since[r] /\ heap[r].hasTraffic = wants[r]
        /\ running[r] \subseteq Goroutines(wants[r]) /\ answer[r] = NoObj
        /\ \A q \in Goroutines(wants[r]) \ running[r] : heap[r].result[q] # "none"
    BY <1>3, HeapType DEF IInv, RequestInv, FetchInv
  <1>5. res \in Outcome /\ res # "none"
    BY DEF Outcome
  <1>6. /\ heap'[r] \in Object
        /\ heap'[r].key = key[r] /\ heap'[r].begun = since[r] /\ heap'[r].hasTraffic = wants[r]
        /\ \A q \in Source : heap'[r].result[q] = IF q = s THEN res ELSE heap[r].result[q]
    <2>1. heap'[r] = Written(heap[r], s, res)
      BY <1>1 DEF IInv, TypeOK
    <2>2. QED
      BY <1>4, <1>5, <2>1, WrittenType
  <1>7. heap'[r] # NoObj
    BY <1>6, NoObjOutside
  <1>8. wants[r] \in BOOLEAN /\ Goroutines(wants[r]) \subseteq Source
        /\ IsFiniteSet(running[r])
    <2>1. wants[r] \in BOOLEAN
      BY DEF IInv, TypeOK
    <2>2. Goroutines(wants[r]) \subseteq Source /\ IsFiniteSet(Goroutines(wants[r]))
      BY <2>1, GoroutinesFinite
    <2>3. QED
      BY <1>4, <2>1, <2>2, FS_Subset
  <1>9. TypeOK'
    <2>1. heap' \in [Req -> Object \cup {NoObj}]
      BY <1>1, <1>6 DEF IInv, TypeOK
    <2>2. wg[r] - 1 \in Nat
      <3>1. IsFiniteSet(running[r] \ {s})
        BY <1>8, FS_Subset
      <3>2. Cardinality(running[r] \ {s}) \in Nat
        BY <3>1, FS_CardinalityType
      <3>3. Cardinality(running[r] \ {s}) = Cardinality(running[r]) - 1
        BY <1>2, <1>8, FS_RemoveElement
      <3>4. QED
        BY <3>2, <3>3 DEF IInv, Counted
    <2>3. wg' \in [Req -> Nat] /\ running' \in [Req -> SUBSET Source]
      BY <1>2, <2>2 DEF IInv, TypeOK
    <2>4. QED
      BY <1>2, <2>1, <2>3 DEF IInv, TypeOK, CacheTypeOK
  <1>10. Clocks'
    BY <1>2 DEF IInv, TypeOK, Clocks, Busy
  <1>11. Counted'
    <2>1. Cardinality(running[r] \ {s}) = Cardinality(running[r]) - 1
      BY <1>2, <1>8, FS_RemoveElement
    <2>2. QED
      BY <1>2, <2>1 DEF IInv, TypeOK, Counted
  <1>12. \A p \in Req : Finished(p) => Finished(p)' /\ heap'[p] = heap[p]
    BY <1>1, <1>2, <1>3, FinishedKept DEF IInv, TypeOK, Finished
  <1>13. RequestInv'
    <2> SUFFICES ASSUME NEW p \in Req
                 PROVE  (IdleInv(p) /\ FetchInv(p) /\ TopUpInv(p) /\ AnsweredInv(p))'
      BY DEF RequestInv
    <2>1. CASE p # r
      BY <1>1, <1>2, <1>3, <1>12, <2>1, OthersUnchanged DEF IInv, TypeOK
    <2>2. CASE p = r
      <3>1. running'[r] = running[r] \ {s}
        BY <1>2 DEF IInv, TypeOK
      <3>2. \A q \in Goroutines(wants[r]) \ running'[r] : heap'[r].result[q] # "none"
        BY <1>4, <1>5, <1>6, <1>8, <3>1
      <3>3. FetchInv(r)'
        BY <1>2, <1>3, <1>4, <1>6, <1>7, <3>1, <3>2 DEF FetchInv, Goroutines
      <3>4. QED
        BY <1>2, <1>3, <2>2, <3>3 DEF IdleInv, TopUpInv, AnsweredInv
    <2>3. QED
      BY <2>1, <2>2
  <1>14. CachedInv'
    BY <1>2, <1>12, CacheKept
  <1>15. QED
    BY <1>9, <1>10, <1>11, <1>13, <1>14 DEF IInv

LEMMA JoinInv == ASSUME IInv, NEW r \in Req, Join(r) PROVE IInv'
  <1> DEFINE h == [heap[r] EXCEPT !.enriched = TRUE]
  <1>1. /\ heap' = [heap EXCEPT ![r] = h]
        /\ phase' = [phase EXCEPT ![r] = "joined"]
        /\ UNCHANGED <<now, entries, sweepAt, key, wants, since, running, wg, answer, answeredAt>>
        /\ phase[r] = "fetching" /\ wg[r] = 0
    BY DEF Join, IInv, TypeOK
  <1>2. /\ heap[r] # NoObj /\ heap[r] \in Object
        /\ heap[r].key = key[r] /\ heap[r].begun = since[r] /\ heap[r].hasTraffic = wants[r]
        /\ running[r] \subseteq Goroutines(wants[r]) /\ answer[r] = NoObj
        /\ \A q \in Goroutines(wants[r]) \ running[r] : heap[r].result[q] # "none"
    BY <1>1, HeapType DEF IInv, RequestInv, FetchInv
  <1>3. running[r] = {}
    <2>1. wants[r] \in BOOLEAN
      BY DEF IInv, TypeOK
    <2>2. IsFiniteSet(running[r])
      BY <1>2, <2>1, GoroutinesFinite, FS_Subset
    <2>3. QED
      BY <1>1, <2>2, FS_EmptySet DEF IInv, Counted
  <1>4. /\ h \in Object
        /\ h.key = key[r] /\ h.begun = since[r] /\ h.hasTraffic = wants[r]
        /\ h.enriched = TRUE /\ h.result = heap[r].result
    BY <1>2 DEF Object
  <1>5. h # NoObj
    BY <1>4, NoObjOutside
  <1> HIDE DEF h
  <1>6. TypeOK'
    BY <1>1, <1>4 DEF IInv, TypeOK, CacheTypeOK, Phase
  <1>7. Clocks'
    BY <1>1 DEF IInv, TypeOK, Clocks, Busy
  <1>8. Counted'
    BY <1>1 DEF IInv, Counted
  <1>9. \A p \in Req : Finished(p) => Finished(p)' /\ heap'[p] = heap[p]
    BY <1>1, FinishedKept DEF IInv, TypeOK, Finished
  <1>10. RequestInv'
    <2> SUFFICES ASSUME NEW p \in Req
                 PROVE  (IdleInv(p) /\ FetchInv(p) /\ TopUpInv(p) /\ AnsweredInv(p))'
      BY DEF RequestInv
    <2>1. CASE p # r
      BY <1>1, <1>9, <2>1, OthersUnchanged DEF IInv, TypeOK
    <2>2. CASE p = r
      <3>1. heap'[r] = h /\ phase'[r] = "joined"
        BY <1>1 DEF IInv, TypeOK
      <3>2. QED
        BY <1>1, <1>2, <1>3, <1>4, <1>5, <2>2, <3>1
           DEF IdleInv, FetchInv, TopUpInv, AnsweredInv, Goroutines
    <2>3. QED
      BY <2>1, <2>2
  <1>11. CachedInv'
    BY <1>1, <1>9, CacheKept
  <1>12. QED
    BY <1>6, <1>7, <1>8, <1>10, <1>11 DEF IInv

LEMMA StoreAndReturnInv == ASSUME IInv, NEW r \in Req, StoreAndReturn(r) PROVE IInv'
  <1>1. /\ phase' = [phase EXCEPT ![r] = "answered"]
        /\ answer' = [answer EXCEPT ![r] = r]
        /\ answeredAt' = [answeredAt EXCEPT ![r] = now]
        /\ UNCHANGED <<now, sweepAt, key, wants, since, running, wg, heap>>
        /\ phase[r] = "joined"
    BY DEF StoreAndReturn, Reply
  <1>2. /\ heap[r] # NoObj /\ heap[r].begun \in Nat
        /\ heap[r].key = key[r] /\ heap[r].begun = since[r] /\ heap[r].hasTraffic = wants[r]
        /\ running[r] = {} /\ heap[r].enriched
        /\ \A s \in Goroutines(wants[r]) : heap[r].result[s] # "none"
    BY <1>1, HeapType DEF IInv, RequestInv, FetchInv
  <1>3. since[r] <= now /\ now <= since[r] + FetchMax
    BY <1>1 DEF IInv, Clocks, Busy
  <1>4. heap[r].hasTraffic => heap[r].result["traffic"] # "none"
    BY <1>2, FetchAssumption DEF Goroutines, FetchAssumption
  <1>5. Finished(r)'
    BY <1>1, <1>2, <1>3, <1>4 DEF Finished, IInv, TypeOK
  <1>6. \A p \in Req : Finished(p) => Finished(p)' /\ heap'[p] = heap[p]
    BY <1>1, FinishedKept DEF IInv, TypeOK, Finished
  <1>7. key[r] \in Key /\ r \in Obj /\ CacheTypeOK
    BY FetchAssumption DEF IInv, TypeOK, FetchAssumption
  <1>8. entries' \in [Key -> Entry \cup {NoEntry}]
    BY <1>1, <1>7, SetTyped DEF StoreAndReturn, CacheTypeOK
  <1>9. TypeOK'
    BY <1>1, <1>8 DEF IInv, TypeOK, CacheTypeOK, Phase
  <1>10. Clocks'
    BY <1>1 DEF IInv, TypeOK, Clocks, Busy
  <1>11. Counted'
    BY <1>1 DEF IInv, Counted
  <1>12. RequestInv'
    <2> SUFFICES ASSUME NEW p \in Req
                 PROVE  (IdleInv(p) /\ FetchInv(p) /\ TopUpInv(p) /\ AnsweredInv(p))'
      BY DEF RequestInv
    <2>1. CASE p # r
      BY <1>1, <1>6, <2>1, OthersUnchanged DEF IInv, TypeOK
    <2>2. CASE p = r
      <3>1. phase'[r] = "answered" /\ answer'[r] = r /\ answeredAt'[r] = now
        BY <1>1 DEF IInv, TypeOK
      <3>2. now - heap[r].begun <= AnswerBound
        BY <1>2, <1>3, CacheAssumption, FetchAssumption
           DEF IInv, TypeOK, CacheTypeOK, AnswerBound, CacheAssumption, FetchAssumption
      <3>3. QED
        BY <1>1, <1>2, <1>3, <1>5, <2>2, <3>1, <3>2
           DEF IdleInv, FetchInv, TopUpInv, AnsweredInv, AnswerBound
    <2>3. QED
      BY <2>1, <2>2
  <1>13. CachedInv'
    <2>1. CASE heap[r].result["utm"] # "ok"
      BY <1>1, <1>6, <2>1, CacheKept DEF StoreAndReturn
    <2>2. CASE heap[r].result["utm"] = "ok"
      <3>1. Set(key[r], r)
        BY <2>2 DEF StoreAndReturn
      <3>2. entries'[key[r]] = [data |-> r, createdAt |-> now]
        BY <1>7, <3>1, SetTyped
      <3>3. \A k \in Resident' \ {key[r]} : k \in Resident /\ entries'[k] = entries[k]
        BY <1>7, <3>1, SetResident
      <3>4. ASSUME NEW k \in Resident', k # key[r]
            PROVE  CachedAt(k, entries[k])'
        <4>1. k \in Resident /\ entries'[k] = entries[k]
          BY <3>3, <3>4
        <4>2. entries[k].data \in Req /\ CachedAt(k, entries[k])
          BY <4>1, EntryType DEF IInv, CachedInv
        <4>3. heap' = heap /\ now' = now /\ Finished(entries[k].data)'
          BY <1>1, <1>6, <4>1, <4>2 DEF CachedAt, Finished
        <4>4. QED
          BY <4>1, <4>2, <4>3 DEF CachedAt
      <3>5. now - heap[r].begun <= FetchMax /\ heap[r].begun <= now
        BY <1>2, <1>3, FetchAssumption DEF IInv, TypeOK, CacheTypeOK, FetchAssumption
      <3>6. CachedAt(key[r], entries[key[r]])'
        <4>1. /\ entries'[key[r]].data = r /\ entries'[key[r]].createdAt = now
              /\ key'[r] = key[r] /\ heap' = heap /\ now' = now
          BY <1>1, <3>2
        <4>2. QED
          BY <1>2, <1>5, <2>2, <3>5, <4>1 DEF CachedAt, IInv, TypeOK, CacheTypeOK
      <3>7. key' = key
        BY <1>1
      <3>8. QED
        BY <3>4, <3>6, <3>7 DEF CachedInv
    <2>3. QED
      BY <2>1, <2>2
  <1>14. QED
    BY <1>9, <1>10, <1>11, <1>12, <1>13 DEF IInv

-----------------------------------------------------------------------------
\* The sweeper removes entries and touches no struct.
LEMMA SweepInv == ASSUME IInv, Sweep, UNCHANGED reqVars PROVE IInv'
  <1>1. /\ entries' = [k \in Key |->
                         IF k \in Resident /\ Expired(k) THEN NoEntry ELSE entries[k]]
        /\ sweepAt' = now + CleanupInterval /\ now' = now
        /\ UNCHANGED <<phase, key, wants, since, running, wg, heap, answer, answeredAt>>
    BY DEF Sweep, reqVars
  <1>2. TypeOK'
    BY <1>1, CacheAssumption DEF IInv, TypeOK, CacheTypeOK, CacheAssumption
  <1>3. Clocks' /\ Counted'
    BY <1>1 DEF IInv, Clocks, Busy, Counted
  <1>4. RequestInv'
    BY <1>1 DEF IInv, RequestInv, IdleInv, FetchInv, TopUpInv, AnsweredInv, Finished, Goroutines
  <1>5. \A k \in Resident' : k \in Resident /\ entries'[k] = entries[k]
    BY <1>1 DEF Resident
  <1>6. CachedInv'
    <2>1. \A k \in Resident : CachedAt(k, entries[k]) => CachedAt(k, entries[k])'
                                 \/ entries'[k] # entries[k]
      BY <1>1 DEF CachedAt, Finished
    <2> QED BY <1>5, <2>1 DEF IInv, CachedInv
  <1>7. QED
    BY <1>2, <1>3, <1>4, <1>6 DEF IInv

\* Time passes: nothing that is finished changes, nothing busy runs out of time.
LEMMA TickInv == ASSUME IInv, Tick PROVE IInv'
  <1>1. /\ now' = now + 1 /\ now \in Nat
        /\ UNCHANGED <<entries, sweepAt, phase, key, wants, since, running, wg, heap,
                       answer, answeredAt>>
        /\ \A r \in Req : Busy(r) => now < since[r] + FetchMax
    BY DEF Tick, CacheTick, reqVars, Busy, IInv, TypeOK, CacheTypeOK
  <1>2. TypeOK'
    BY <1>1 DEF IInv, TypeOK, CacheTypeOK
  <1>3. Clocks'
    BY <1>1, FetchAssumption DEF IInv, TypeOK, Clocks, Busy, FetchAssumption
  <1>4. Counted'
    BY <1>1 DEF IInv, Counted
  <1>5. \A o \in Req : Finished(o) => Finished(o)' /\ heap'[o] = heap[o]
    BY <1>1, StaysFinished DEF IInv
  <1>6. RequestInv'
    BY <1>1, <1>5 DEF IInv, RequestInv, IdleInv, FetchInv, TopUpInv, AnsweredInv, Goroutines
  <1>7. CachedInv'
    <2> SUFFICES ASSUME NEW k \in Resident' PROVE CachedAt(k, entries[k])'
      BY DEF CachedInv
    <2>1. /\ k \in Resident /\ entries[k].data \in Req /\ entries[k].createdAt \in Nat
          /\ CachedAt(k, entries[k])
      BY <1>1, EntryType DEF Resident, IInv, CachedInv
    <2>2. Finished(entries[k].data)'
      BY <1>1, <1>5, <2>1 DEF CachedAt, Finished
    <2>3. QED
      BY <1>1, <2>1, <2>2 DEF CachedAt
  <1>8. QED
    BY <1>2, <1>3, <1>4, <1>6, <1>7 DEF IInv

LEMMA StutterInv == ASSUME IInv, UNCHANGED vars PROVE IInv'
  <1>1. UNCHANGED <<now, entries, sweepAt, phase, key, wants, since, running, wg, heap,
                    answer, answeredAt>>
    BY DEF vars, reqVars
  <1>2. TypeOK' /\ Clocks' /\ Counted'
    BY <1>1 DEF IInv, TypeOK, CacheTypeOK, Clocks, Busy, Counted
  <1>3. RequestInv'
    BY <1>1 DEF IInv, RequestInv, IdleInv, FetchInv, TopUpInv, AnsweredInv, Finished, Goroutines
  <1>4. CachedInv'
    BY <1>1 DEF IInv, CachedInv, CachedAt, Finished, Resident
  <1>5. QED
    BY <1>2, <1>3, <1>4 DEF IInv

LEMMA NextInv == IInv /\ [Next]_vars => IInv'
  <1> SUFFICES ASSUME IInv, [Next]_vars PROVE IInv'
    OBVIOUS
  <1>1. CASE Tick
    BY <1>1, TickInv
  <1>2. CASE Sweep /\ UNCHANGED reqVars
    BY <1>2, SweepInv
  <1>3. ASSUME NEW r \in Req, Step(r) PROVE IInv'
    BY <1>3, ServeHitInv, StartTopUpInv, FinishTopUpInv, StartFetchInv, SourceDoneInv,
       JoinInv, StoreAndReturnInv DEF Step
  <1>4. CASE UNCHANGED vars
    BY <1>4, StutterInv
  <1>5. QED
    BY <1>1, <1>2, <1>3, <1>4 DEF Next

\* The inductive invariant of the pipeline.
THEOREM Invariance == Spec => []IInv
  BY InitInv, NextInv, PTL DEF Spec

-----------------------------------------------------------------------------
\* The cache and the requests only ever hold values of their types.
THEOREM TypeCorrect == Spec => []TypeOK
  <1>1. IInv => TypeOK
    BY DEF IInv
  <1>2. QED
    BY <1>1, Invariance, PTL

\* Whatever is cached is a finished struct of that position with a forecast.
THEOREM CachedIsCompleteTheorem == Spec => []CachedIsComplete
  <1>1. IInv => CachedIsComplete
    BY DEF IInv, CachedInv, CachedAt, CachedIsComplete, Finished
  <1>2. QED
    BY <1>1, Invariance, PTL

\* No answer is older than the TTL, one fetch and one top-up together.
THEOREM FreshnessTheorem == Spec => []AnswersAreFresh
  <1>1. IInv => AnswersAreFresh
    BY DEF IInv, RequestInv, AnsweredInv, AnswersAreFresh
  <1>2. QED
    BY <1>1, Invariance, PTL

\* Whoever asked for live traffic gets it, whoever filled the cache.
THEOREM TrafficTheorem == Spec => []AnswersCarryTraffic
  <1>1. IInv => AnswersCarryTraffic
    BY DEF IInv, RequestInv, AnsweredInv, AnswersCarryTraffic, Finished
  <1>2. QED
    BY <1>1, Invariance, PTL

\* No step of any request writes to a struct that is finished.
LEMMA FinishedNeverWritten ==
    ASSUME IInv, [Next]_vars, NEW o \in Req, Finished(o)
    PROVE  heap'[o] = heap[o]
  <1>1. CASE Tick \/ (Sweep /\ UNCHANGED reqVars) \/ UNCHANGED vars
    BY <1>1 DEF Tick, reqVars, vars
  <1>2. ASSUME NEW r \in Req, Step(r) PROVE heap'[o] = heap[o]
    <2>1. CASE o = r
      <3>1. phase[r] = "answered" /\ running[r] = {}
        BY <2>1 DEF Finished
      <3>2. QED
        BY <1>2, <3>1 DEF Step, ServeHit, StartTopUp, FinishTopUp, StartFetch,
                          SourceDone, Join, StoreAndReturn
    <2>2. CASE o # r
      BY <1>2, <2>2 DEF Step, ServeHit, StartTopUp, FinishTopUp, StartFetch, SourceDone,
                        Join, StoreAndReturn, IInv, TypeOK
    <2>3. QED
      BY <2>1, <2>2
  <1>3. QED
    BY <1>1, <1>2 DEF Next

\* The shared structs are immutable: what the cache or a response points to is
\* never written again.
THEOREM ImmutabilityTheorem == Spec => PublishedNeverWritten
  <1>1. ASSUME IInv, [Next]_vars, NEW o \in Published PROVE heap'[o] = heap[o]
    <2>1. o \in Req /\ Finished(o)
      <3>1. CASE \E k \in Resident : o = entries[k].data
        BY <3>1, <1>1, EntryType DEF IInv, CachedInv, CachedAt
      <3>2. CASE \E r \in Req : o = answer[r] /\ o # NoObj
        <4>1. PICK r \in Req : o = answer[r] /\ o # NoObj
          BY <3>2
        <4>2. phase[r] = "answered"
          BY <1>1, <4>1 DEF IInv, TypeOK, Phase, RequestInv, IdleInv, FetchInv, TopUpInv
        <4>3. QED
          BY <1>1, <4>1, <4>2 DEF IInv, RequestInv, AnsweredInv
      <3>3. QED
        BY <3>1, <3>2 DEF Published
    <2>2. QED
      BY <1>1, <2>1, FinishedNeverWritten
  <1>2. IInv /\ [Next]_vars => [\A o \in Published : heap'[o] = heap[o]]_vars
    BY <1>1
  <1>3. QED
    BY <1>2, Invariance, PTL DEF Spec, PublishedNeverWritten

-----------------------------------------------------------------------------
LEMMA PromiseInitially == Init => Promise!PromiseInit
  BY DEF Init, CacheInit, Promise!PromiseInit, Asked, Answered

\* The reading an answered request was given.
LEMMA AnswerIsReading ==
    ASSUME IInv, NEW o \in Req, Finished(o)
    PROVE  /\ heap[o].key \in Key /\ heap[o].hasTraffic \in BOOLEAN
           /\ heap[o].begun \in 0..now
  BY HeapType DEF IInv, TypeOK, CacheTypeOK, Finished, Object

\* The readings already given stay as they are, except that of the request r
\* that takes the step; likewise what was asked.
LEMMA PromiseFrame ==
    ASSUME IInv, [Next]_vars, NEW p \in Req,
           phase'[p] = phase[p], answer'[p] = answer[p], UNCHANGED <<key, wants>>
    PROVE  Asked(p)' = Asked(p) /\ Answered(p)' = Answered(p)
  <1>1. Asked(p)' = Asked(p)
    BY DEF Asked
  <1>2. CASE answer[p] = NoObj
    BY <1>1, <1>2 DEF Answered
  <1>3. CASE answer[p] # NoObj
    <2>1. phase[p] = "answered"
      BY <1>3 DEF IInv, TypeOK, Phase, RequestInv, IdleInv, FetchInv, TopUpInv
    <2>2. answer[p] \in Req /\ Finished(answer[p])
      BY <2>1 DEF IInv, RequestInv, AnsweredInv
    <2>3. heap'[answer[p]] = heap[answer[p]]
      BY <2>2, FinishedNeverWritten
    <2>4. QED
      BY <1>1, <1>3, <2>3 DEF Answered
  <1>4. QED
    BY <1>1, <1>2, <1>3

LEMMA QuestionType ==
    ASSUME IInv, NEW r \in Req
    PROVE  /\ [key |-> key[r], traffic |-> wants[r]] \in Promise!Question
           /\ [key |-> key[r], traffic |-> wants[r]] # NoObj
  BY FetchAssumption DEF IInv, TypeOK, Promise!Question, FetchAssumption

\* A request that leaves "idle" without an answer asks.
LEMMA StepAsks ==
    ASSUME IInv, NEW r \in Req, StartTopUp(r) \/ StartFetch(r)
    PROVE  Promise!AskNext
  <1> DEFINE q == [key |-> key[r], traffic |-> wants[r]]
  <1>1. /\ phase[r] = "idle" /\ phase'[r] # "idle"
        /\ UNCHANGED <<now, key, wants, answer>>
        /\ \A p \in Req \ {r} : phase'[p] = phase[p]
    BY DEF StartTopUp, StartFetch, IInv, TypeOK
  <1>2. \A p \in Req \ {r} : Asked(p)' = Asked(p) /\ Answered(p)' = Answered(p)
    BY <1>1, PromiseFrame DEF Next, Step
  <1>3. Asked(r) = NoObj /\ Asked(r)' = q
    BY <1>1 DEF Asked
  <1>4. Answered(r) = NoObj /\ Answered(r)' = NoObj
    BY <1>1 DEF Answered, IInv, RequestInv, IdleInv
  <1>5. Promise!Ask(r, q)
    BY <1>1, <1>2, <1>3, <1>4 DEF Promise!Ask
  <1>6. QED
    BY <1>5, QuestionType DEF Promise!AskNext

\* A hit asks and is answered at once.
LEMMA StepAsksAndAnswers ==
    ASSUME IInv, IInv', NEW r \in Req, ServeHit(r)
    PROVE  Promise!AskNext
  <1> DEFINE q == [key |-> key[r], traffic |-> wants[r]]
             o == entries[key[r]].data
             d == [key |-> heap[o].key, traffic |-> heap[o].hasTraffic, begun |-> heap[o].begun]
  <1>1. /\ phase[r] = "idle" /\ phase'[r] = "answered" /\ answer'[r] = o
        /\ UNCHANGED <<now, key, wants, heap>>
        /\ \A p \in Req \ {r} : phase'[p] = phase[p] /\ answer'[p] = answer[p]
        /\ wants[r] => heap[o].hasTraffic
    BY DEF ServeHit, Reply, NeedsTopUp, IInv, TypeOK
  <1>2. /\ o \in Req /\ Finished(o) /\ heap[o].key = key[r] /\ heap[o].begun <= now
        /\ now - heap[o].begun <= TTL + FetchMax
    BY HitIsRecent DEF ServeHit, IInv, TypeOK
  <1>3. /\ heap[o].key \in Key /\ heap[o].hasTraffic \in BOOLEAN /\ heap[o].begun \in 0..now
    BY <1>2, AnswerIsReading
  <1>4. \A p \in Req \ {r} : Asked(p)' = Asked(p) /\ Answered(p)' = Answered(p)
    BY <1>1, PromiseFrame DEF Next, Step
  <1>5. Asked(r) = NoObj /\ Asked(r)' = q
    BY <1>1 DEF Asked
  <1>6. Answered(r)' = d
    <2>1. o # NoObj
      BY <1>2, FetchAssumption DEF FetchAssumption
    <2>2. QED
      BY <1>1, <2>1 DEF Answered
  <1>7. Promise!Suitable(d, q, now)
    BY <1>1, <1>2, <1>3, CacheAssumption, FetchAssumption
       DEF Promise!Suitable, AnswerBound, IInv, TypeOK, CacheTypeOK,
           CacheAssumption, FetchAssumption
  <1>8. Promise!AskAndAnswer(r, q, d)
    BY <1>1, <1>4, <1>5, <1>6, <1>7 DEF Promise!AskAndAnswer
  <1>9. d = [key |-> q.key, traffic |-> heap[o].hasTraffic, begun |-> heap[o].begun]
    BY <1>2
  <1>10. QED
    BY <1>3, <1>8, <1>9, QuestionType DEF Promise!AskNext

\* A request that finishes a fetch or a top-up is answered with its own struct.
LEMMA StepAnswers ==
    ASSUME IInv, IInv', NEW r \in Req, FinishTopUp(r) \/ StoreAndReturn(r)
    PROVE  Promise!AnswerNext
  <1> DEFINE q == [key |-> key[r], traffic |-> wants[r]]
             d == [key |-> heap'[r].key, traffic |-> heap'[r].hasTraffic,
                   begun |-> heap'[r].begun]
  <1>1. /\ phase[r] \in {"topup", "joined"} /\ phase'[r] = "answered" /\ answer'[r] = r
        /\ answeredAt'[r] = now
        /\ UNCHANGED <<now, key, wants>>
        /\ \A p \in Req \ {r} : phase'[p] = phase[p] /\ answer'[p] = answer[p]
    BY DEF FinishTopUp, StoreAndReturn, Reply, IInv, TypeOK
  <1>2. answer[r] = NoObj
    BY <1>1 DEF IInv, RequestInv, FetchInv, TopUpInv
  <1>3. /\ Finished(r)' /\ heap'[r].key = key[r] /\ heap'[r].begun <= now
        /\ now - heap'[r].begun <= AnswerBound
        /\ wants[r] => heap'[r].hasTraffic
    BY <1>1 DEF IInv, RequestInv, AnsweredInv
  <1>4. /\ heap'[r] \in Object /\ heap'[r].key \in Key /\ heap'[r].hasTraffic \in BOOLEAN
        /\ heap'[r].begun \in Nat
    BY <1>3 DEF IInv, TypeOK, Finished, Object
  <1>5. \A p \in Req \ {r} : Asked(p)' = Asked(p) /\ Answered(p)' = Answered(p)
    BY <1>1, PromiseFrame DEF Next, Step
  <1>6. Asked(r) = q /\ Asked(r)' = q /\ q # NoObj
    BY <1>1, QuestionType DEF Asked
  <1>7. Answered(r) = NoObj /\ Answered(r)' = d
    BY <1>1, <1>2, FetchAssumption DEF Answered, FetchAssumption
  <1>8. Promise!Suitable(d, q, now)
    BY <1>3, <1>4 DEF Promise!Suitable
  <1>9. Promise!Answer(r, d)
    BY <1>1, <1>5, <1>6, <1>7, <1>8 DEF Promise!Answer
  <1>10. heap'[r].begun \in 0..now
    BY <1>3, <1>4 DEF IInv, TypeOK, CacheTypeOK
  <1>11. QED
    BY <1>4, <1>9, <1>10 DEF Promise!AnswerNext

\* Every other step is invisible to the visitor, or lets time pass.
LEMMA StepIsInvisible ==
    ASSUME IInv,
           \/ Sweep /\ UNCHANGED reqVars
           \/ \E r \in Req, s \in Source : SourceDone(r, s)
           \/ \E r \in Req : Join(r)
           \/ UNCHANGED vars
    PROVE  UNCHANGED Promise!promiseVars
  <1>1. /\ UNCHANGED <<now, key, wants, answer>>
        /\ \A p \in Req : Asked(p)' = Asked(p)
    <2>1. CASE \E r \in Req : Join(r)
      BY <2>1 DEF Join, Asked, IInv, TypeOK
    <2>2. CASE ~\E r \in Req : Join(r)
      BY <2>2 DEF Sweep, SourceDone, Asked, reqVars, vars
    <2>3. QED
      BY <2>1, <2>2
  <1>2. \A p \in Req : Answered(p)' = Answered(p)
    <2> SUFFICES ASSUME NEW p \in Req, answer[p] # NoObj
                 PROVE  Answered(p)' = Answered(p)
      BY <1>1 DEF Answered
    <2>1. phase[p] = "answered"
      BY DEF IInv, TypeOK, Phase, RequestInv, IdleInv, FetchInv, TopUpInv
    <2>2. answer[p] \in Req /\ Finished(answer[p])
      BY <2>1 DEF IInv, RequestInv, AnsweredInv
    <2>3. heap'[answer[p]] = heap[answer[p]]
      BY <2>2, FinishedNeverWritten DEF Next, Step
    <2>4. QED
      BY <1>1, <2>3 DEF Answered
  <1>3. QED
    BY <1>1, <1>2 DEF Promise!promiseVars

LEMMA TickPasses == ASSUME IInv, Tick PROVE Promise!Pass
  BY DEF Tick, CacheTick, reqVars, Promise!Pass, Asked, Answered

LEMMA PromiseStep == IInv /\ IInv' /\ [Next]_vars => [Promise!PromiseNext]_Promise!promiseVars
  <1> SUFFICES ASSUME IInv, IInv', [Next]_vars
               PROVE  [Promise!PromiseNext]_Promise!promiseVars
    OBVIOUS
  <1>1. CASE Tick
    BY <1>1, TickPasses DEF Promise!PromiseNext
  <1>2. CASE (Sweep /\ UNCHANGED reqVars) \/ UNCHANGED vars
    BY <1>2, StepIsInvisible
  <1>3. ASSUME NEW r \in Req, Step(r)
        PROVE  [Promise!PromiseNext]_Promise!promiseVars
    <2>1. CASE ServeHit(r) \/ StartTopUp(r) \/ StartFetch(r)
      BY <2>1, StepAsks, StepAsksAndAnswers DEF Promise!PromiseNext
    <2>2. CASE FinishTopUp(r) \/ StoreAndReturn(r)
      BY <2>2, StepAnswers DEF Promise!PromiseNext
    <2>3. CASE Join(r) \/ \E s \in Source : SourceDone(r, s)
      BY <2>3, StepIsInvisible
    <2>4. QED
      BY <1>3, <2>1, <2>2, <2>3 DEF Step
  <1>4. QED
    BY <1>1, <1>2, <1>3 DEF Next

\* The pipeline implements the promise: whatever the cache, the sweeper, the
\* copies and the other requests do, each visitor is answered with a reading of
\* the position asked for, at most AnswerBound old, with the traffic asked for.
THEOREM RefinementTheorem == Spec => KeepsPromise
  <1>1. Init => Promise!PromiseInit
    BY PromiseInitially
  <1>2. IInv /\ IInv' /\ [Next]_vars => [Promise!PromiseNext]_Promise!promiseVars
    BY PromiseStep
  <1>3. QED
    BY <1>1, <1>2, Invariance, PTL DEF Spec, KeepsPromise, Promise!PromiseSpec
=============================================================================
