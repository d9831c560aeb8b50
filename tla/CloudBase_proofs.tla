-------------------------- MODULE CloudBase_proofs --------------------------
(***************************************************************************)
(* Proofs about the cloud base, for any number of callers, any airports,   *)
(* reports and timeouts: what a reading tells, that nobody downloads the   *)
(* list twice, and how long a caller can be held up.                       *)
(*                                                                         *)
(* The delay is bounded because the callers ahead are used up.  A call     *)
(* that has had the mutex is never in the queue again, so a waiting one    *)
(* has waited for one timeout per call of Past at the most, and for the    *)
(* time the present holder has taken so far.                               *)
(***************************************************************************)
EXTENDS CloudBase, FiniteSetTheorems, TLAPS

\* The calls that have left the queue, or never were in it.
Past == {d \in Caller : pc[d] \notin {"idle", "waiting"}}

\* Who downloads has the mutex, and nobody made the list good meanwhile.
Holder ==
    /\ \A c \in Caller : (mu = c) = (pc[c] = "downloading")
    /\ mu # Nobody => ~Fresh

Requests ==
    \A c \in Caller : pc[c] \in {"downloading", "reading"} =>
        sentAt[c] <= now /\ now <= sentAt[c] + Timeout

QueueInv(c) ==
    pc[c] = "waiting" =>
        IF mu = Nobody THEN now - begun[c] <= Timeout * Cardinality(Past)
        ELSE now - begun[c] <= Timeout * (Cardinality(Past) - 1) + (now - sentAt[mu])

RequestInv(c) ==
    /\ pc[c] = "downloading" => sentAt[c] - begun[c] <= Timeout * (Cardinality(Caller) - 1)
    /\ pc[c] = "reading" => sentAt[c] - begun[c] <= Timeout * Cardinality(Caller)

Delays == \A c \in Caller : QueueInv(c) /\ RequestInv(c)

\* What a call makes of the page of its airport.
Answer(c) == [metar |-> Read(page[airport[c]].metar), taf |-> Read(page[airport[c]].taf)]

\* Who asks for a page has an airport; a result is silent, or was read from its page by a
\* call that does not choose again.
Results ==
    \A c \in Caller :
        /\ pc[c] = "reading" => airport[c] \in Airport
        /\ \/ result[c] = [metar |-> Silent, taf |-> Silent]
           \/ pc[c] = "returned" /\ airport[c] \in Airport /\ result[c] = Answer(c)

Inv == TypeOK /\ Holder /\ Requests /\ Delays /\ Results

----------------------------------------------------------------------------
(* Counting.                                                               *)

\* A timeout more, and timeouts of more calls.
LEMMA Timeouts ==
    ASSUME NEW i \in Int, NEW j \in Int, i <= j
    PROVE  /\ Timeout * i \in Int
           /\ Timeout * i <= Timeout * j
           /\ Timeout * (i + 1) = Timeout * i + Timeout
           /\ Timeout * (i - 1) = Timeout * i - Timeout
<1>1. Timeout \in Nat
  BY CloudBaseAssumption DEF CloudBaseAssumption
<1>2. /\ Timeout * i \in Int /\ Timeout * (i + 1) = Timeout * i + Timeout
      /\ Timeout * (i - 1) = Timeout * i - Timeout
  BY <1>1
<1>3. Timeout * i <= Timeout * j
  <2>1. Timeout * j = Timeout * i + Timeout * (j - i)
    BY <1>1
  <2>2. Timeout * (j - i) >= 0
    BY <1>1
  <2>3. Timeout * j \in Int /\ Timeout * (j - i) \in Int
    BY <1>1
  <2> QED BY <1>2, <2>1, <2>2, <2>3
<1> QED BY <1>2, <1>3

\* The calls of Past are callers; one that is not among them leaves room for itself.
LEMMA PastCounted ==
    /\ IsFiniteSet(Past)
    /\ Cardinality(Past) \in Nat /\ Cardinality(Caller) \in Nat
    /\ Cardinality(Past) <= Cardinality(Caller)
    /\ \A c \in Caller \ Past : Cardinality(Past) <= Cardinality(Caller) - 1
    /\ \A c \in Past : Cardinality(Past) >= 1
<1>1. IsFiniteSet(Caller) /\ Past \subseteq Caller
  BY CloudBaseAssumption DEF CloudBaseAssumption, Past
<1>2. /\ IsFiniteSet(Past) /\ Cardinality(Past) <= Cardinality(Caller)
      /\ Cardinality(Past) \in Nat /\ Cardinality(Caller) \in Nat
  BY <1>1, FS_Subset, FS_CardinalityType
<1>3. ASSUME NEW c \in Caller \ Past PROVE Cardinality(Past) <= Cardinality(Caller) - 1
  <2>1. /\ IsFiniteSet(Caller \ {c}) /\ Cardinality(Caller \ {c}) = Cardinality(Caller) - 1
        /\ Past \subseteq Caller \ {c}
    BY <1>1, FS_RemoveElement
  <2> QED BY <2>1, FS_Subset
<1>4. ASSUME NEW c \in Past PROVE Cardinality(Past) >= 1
  BY <1>2, FS_EmptySet
<1> QED BY <1>2, <1>3, <1>4

\* When c leaves the queue, it is one more.
LEMMA PastGrows ==
    ASSUME NEW c \in Caller, c \notin Past, Past' = Past \cup {c}
    PROVE  Cardinality(Past') = Cardinality(Past) + 1
  BY PastCounted, FS_AddElement

----------------------------------------------------------------------------
(* The two parsers.                                                        *)

\* A set of numbers that is not empty has a least one.
LEMMA MinIsLeast ==
    ASSUME NEW S, S \subseteq Nat, S # {}
    PROVE  Min(S) \in S /\ \A n \in S : Min(S) <= n
<1> DEFINE Less == {p \in Nat \X Nat : p[1] < p[2]}
<1>1. IsWellFoundedOn(Less, Nat)
  BY NatLessThanWellFounded DEF OpToRel
<1>2. PICK x \in S : \A y \in S : ~ (<<y, x>> \in Less)
  <2> HIDE DEF Less
  <2> QED BY <1>1, WFMin
<1>3. ASSUME NEW y \in S PROVE x <= y
  <2>1. x \in Nat /\ y \in Nat /\ <<y, x>> \in Nat \X Nat
    OBVIOUS
  <2>2. y < x => <<y, x>> \in Less
    BY <2>1
  <2>3. ~ (y < x)
    BY <1>2, <2>2
  <2> QED BY <2>1, <2>3
<1> QED BY <1>3 DEF Min

\* Lowest is silent without a group of these sorts, and otherwise tells the least.
LEMMA LowestTells ==
    ASSUME NEW text \in Report, NEW sorts
    PROVE  /\ Lowest(text, sorts) \in Nat \cup {-1}
           /\ \A g \in text : g.sort \in sorts =>
                0 <= Lowest(text, sorts) /\ Lowest(text, sorts) <= g.value
           /\ Lowest(text, sorts) # -1 =>
                \E g \in text : g.sort \in sorts /\ g.value = Lowest(text, sorts)
<1> DEFINE found == {g.value : g \in {h \in text : h.sort \in sorts}}
<1>1. found \subseteq Nat
  BY CloudBaseAssumption DEF CloudBaseAssumption, Group
<1>2. CASE found = {}
  BY <1>2 DEF Lowest
<1>3. CASE found # {}
  <2>1. Lowest(text, sorts) = Min(found)
    BY <1>3 DEF Lowest
  <2>2. Min(found) \in found /\ \A n \in found : Min(found) <= n
    BY <1>1, <1>3, MinIsLeast
  <2> HIDE DEF found
  <2>3. Lowest(text, sorts) \in Nat
    BY <1>1, <2>1, <2>2
  <2> QED BY <2>1, <2>2, <2>3 DEF found
<1> QED BY <1>2, <1>3

LEMMA ReadTyped ==
    ASSUME NEW text \in Report
    PROVE  Read(text) \in Reading
  BY LowestTells DEF Read, parseCloudBase, parseVisibility, Reading

\* A reading tells the least ceiling and the least visibility, and none without one.
LEMMA ReadIsFaithful ==
    ASSUME NEW text \in Report
    PROVE  Faithful(Read(text), text)
<1>1. /\ Read(text).base = Lowest(text, {"BKN", "OVC"})
      /\ Read(text).visibility = Lowest(text, {"visibility", "RVR"})
  BY DEF Read, parseCloudBase, parseVisibility
<1>2. /\ \A g \in {h \in text : h.sort \in {"BKN", "OVC"}} :
           0 <= Read(text).base /\ Read(text).base <= g.value
      /\ Read(text).base # -1 =>
           \E g \in {h \in text : h.sort \in {"BKN", "OVC"}} : g.value = Read(text).base
  BY <1>1, LowestTells
<1>3. /\ \A g \in {h \in text : h.sort \in {"visibility", "RVR"}} :
           0 <= Read(text).visibility /\ Read(text).visibility <= g.value
      /\ Read(text).visibility # -1 =>
           \E g \in {h \in text : h.sort \in {"visibility", "RVR"}} :
               g.value = Read(text).visibility
  BY <1>1, LowestTells
<1> QED BY <1>2, <1>3 DEF Faithful

\* A text with a ceiling is available, as a METAR and as a TAF.
LEMMA CeilingIsRead ==
    ASSUME NEW text \in Report, NEW g \in text, g.sort \in {"BKN", "OVC"}
    PROVE  Read(text).base >= 0
  BY LowestTells DEF Read, parseCloudBase

----------------------------------------------------------------------------
(* Every step keeps the invariant.                                         *)

LEMMA InvInit == Init => Inv
<1> SUFFICES ASSUME Init PROVE Inv
  OBVIOUS
<1>1. TypeOK
  BY CloudBaseAssumption DEF Init, TypeOK, Reading, Silent, CloudBaseAssumption
<1>2. Holder /\ Requests /\ Delays /\ Results
  BY CloudBaseAssumption
     DEF Init, Holder, Requests, Delays, QueueInv, RequestInv, Results, CloudBaseAssumption
<1> QED BY <1>1, <1>2 DEF Inv

\* Type correctness of each step.
LEMMA TypeStep == ASSUME Inv, [Next]_vars PROVE TypeOK'
<1> USE DEF Inv, TypeOK, Goto, cacheVars
<1>1. CASE Tick
  BY <1>1 DEF Tick
<1>2. ASSUME NEW c \in Caller, Arrive(c) PROVE TypeOK'
  BY <1>2 DEF Arrive
<1>3. ASSUME NEW c \in Caller, NEW names \in SUBSET Airport, Choose(c, names)
      PROVE  /\ pc' \in [Caller -> {"idle", "waiting", "downloading", "reading", "returned"}]
             /\ sentAt' \in [Caller -> Nat] /\ airport' \in [Caller -> Airport \cup {None}]
  <2>1. CASE names \cap city[c] = {}
    BY <1>3, <2>1 DEF Choose
  <2>2. CASE names \cap city[c] # {}
    <3>1. PICK a \in names \cap city[c] : airport' = [airport EXCEPT ![c] = a]
      BY <1>3, <2>2 DEF Choose
    <3>2. a \in Airport
      BY <3>1
    <3>3. sentAt' = [sentAt EXCEPT ![c] = now] /\ pc' = [pc EXCEPT ![c] = "reading"]
      BY <1>3, <2>2 DEF Choose
    <3> QED BY <3>1, <3>2, <3>3
  <2> QED BY <2>1, <2>2
<1>4. ASSUME NEW c \in Caller, Lookup(c) PROVE TypeOK'
  BY <1>3, <1>4 DEF Lookup
<1>5. ASSUME NEW c \in Caller, Download(c) PROVE TypeOK'
  BY <1>5 DEF Download
<1>6. ASSUME NEW c \in Caller, DownloadFails(c) \/ PageFails(c) PROVE TypeOK'
  BY <1>6 DEF DownloadFails, PageFails
<1>7. ASSUME NEW c \in Caller, DownloadEnds(c) PROVE TypeOK'
  BY <1>3, <1>7, CloudBaseAssumption DEF DownloadEnds, CloudBaseAssumption
<1>8. ASSUME NEW c \in Caller, PageArrives(c) PROVE TypeOK'
  <2>1. airport[c] \in Airport
    BY <1>8 DEF PageArrives, Results
  <2>2. page[airport[c]].metar \in Report /\ page[airport[c]].taf \in Report
    BY <2>1
  <2>3. Answer(c) \in [metar : Reading, taf : Reading]
    BY <2>2, ReadTyped DEF Answer
  <2> QED BY <1>8, <2>3 DEF PageArrives, Answer
<1>9. CASE UNCHANGED vars
  BY <1>9 DEF vars
<1> QED BY <1>1, <1>2, <1>4, <1>5, <1>6, <1>7, <1>8, <1>9 DEF Next, Step

\* Who has the mutex: it changes hands only with a download.
LEMMA HolderStep == ASSUME Inv, Next PROVE Holder'
<1> USE DEF Inv, TypeOK, Holder, Goto, cacheVars
<1>1. CASE Tick
  BY <1>1 DEF Tick, Fresh
<1>2. ASSUME NEW c \in Caller, Arrive(c) \/ PageFails(c) \/ PageArrives(c) PROVE Holder'
  BY <1>2 DEF Arrive, PageFails, PageArrives, Fresh
<1>3. ASSUME NEW c \in Caller, Lookup(c) PROVE Holder'
  BY <1>3, CloudBaseAssumption DEF Lookup, Choose, Fresh, CloudBaseAssumption
<1>4. ASSUME NEW c \in Caller, Download(c) PROVE Holder'
  BY <1>4, CloudBaseAssumption DEF Download, Fresh, CloudBaseAssumption
<1>5. ASSUME NEW c \in Caller, DownloadFails(c) PROVE Holder'
  BY <1>5, CloudBaseAssumption DEF DownloadFails, CloudBaseAssumption
<1>6. ASSUME NEW c \in Caller, DownloadEnds(c) PROVE Holder'
  BY <1>6, CloudBaseAssumption DEF DownloadEnds, Choose, CloudBaseAssumption
<1> QED BY <1>1, <1>2, <1>3, <1>4, <1>5, <1>6 DEF Next, Step

\* The clock waits for a request that has used up its time.
LEMMA RequestsStep == ASSUME Inv, Next PROVE Requests'
<1> USE CloudBaseAssumption DEF Inv, TypeOK, Requests, Goto, cacheVars, CloudBaseAssumption
<1>1. CASE Tick
  BY <1>1 DEF Tick
<1>2. ASSUME NEW c \in Caller,
             Arrive(c) \/ DownloadFails(c) \/ PageFails(c) \/ PageArrives(c)
      PROVE  Requests'
  BY <1>2 DEF Arrive, DownloadFails, PageFails, PageArrives
<1>3. ASSUME NEW c \in Caller, Lookup(c) \/ DownloadEnds(c) PROVE Requests'
  BY <1>3 DEF Lookup, DownloadEnds, Choose
<1>4. ASSUME NEW c \in Caller, Download(c) PROVE Requests'
  BY <1>4 DEF Download
<1> QED BY <1>1, <1>2, <1>3, <1>4 DEF Next, Step

\* Only a page that arrives makes a result, of the airport its call chose before; the
\* site does not change its pages.
LEMMA ResultsStep == ASSUME Inv, Next PROVE Results'
<1> USE DEF Inv, TypeOK, Results, Goto
<1>1. page' = page
  BY DEF Next, Step, Tick, Arrive, Lookup, Download, DownloadFails, DownloadEnds, PageFails,
         PageArrives
<1>2. \A c \in Caller : airport'[c] = airport[c] => Answer(c)' = Answer(c)
  BY <1>1 DEF Answer, Read, parseCloudBase, parseVisibility, Lowest
<1>3. ASSUME UNCHANGED <<airport, result>>,
             \A c \in Caller : \/ pc'[c] = pc[c]
                               \/ pc'[c] # "reading" /\ pc[c] # "returned"
      PROVE  Results'
  <2> SUFFICES ASSUME NEW c \in Caller
               PROVE  /\ pc'[c] = "reading" => airport'[c] \in Airport
                      /\ \/ result'[c] = [metar |-> Silent, taf |-> Silent]
                         \/ pc'[c] = "returned" /\ airport'[c] \in Airport /\ result'[c] = Answer(c)'
    BY DEF Silent
  <2> QED BY <1>2, <1>3
<1>4. ASSUME NEW d \in Caller, NEW names, Choose(d, names), pc[d] # "returned", UNCHANGED result
      PROVE  Results'
  <2>1. CASE names \cap city[d] = {}
    BY <1>3, <1>4, <2>1 DEF Choose
  <2>2. CASE names \cap city[d] # {}
    <3>1. PICK a \in names \cap city[d] : airport' = [airport EXCEPT ![d] = a]
      BY <1>4, <2>2 DEF Choose
    <3>2. a \in Airport /\ pc' = [pc EXCEPT ![d] = "reading"]
      BY <1>4, <2>2, <3>1 DEF Choose
    <3>3. \A c \in Caller \ {d} : airport'[c] = airport[c] /\ pc'[c] = pc[c]
      BY <3>1, <3>2
    <3> SUFFICES ASSUME NEW c \in Caller
                 PROVE  /\ pc'[c] = "reading" => airport'[c] \in Airport
                        /\ \/ result'[c] = [metar |-> Silent, taf |-> Silent]
                           \/ pc'[c] = "returned" /\ airport'[c] \in Airport /\ result'[c] = Answer(c)'
      BY DEF Silent
    <3>4. CASE c = d
      BY <1>4, <3>1, <3>2, <3>4
    <3>5. CASE c # d
      BY <1>2, <1>4, <3>3, <3>5
    <3> QED BY <3>4, <3>5
  <2> QED BY <2>1, <2>2
<1>5. CASE Tick
  BY <1>3, <1>5 DEF Tick
<1>6. ASSUME NEW d \in Caller, Arrive(d) \/ Download(d) \/ DownloadFails(d) \/ PageFails(d)
      PROVE  Results'
  BY <1>3, <1>6 DEF Arrive, Download, DownloadFails, PageFails
<1>7. ASSUME NEW d \in Caller, Lookup(d) \/ DownloadEnds(d) PROVE Results'
  BY <1>4, <1>7 DEF Lookup, DownloadEnds
<1>8. ASSUME NEW d \in Caller, PageArrives(d) PROVE Results'
  <2>1. /\ airport[d] \in Airport /\ airport' = airport
        /\ pc' = [pc EXCEPT ![d] = "returned"]
        /\ result' = [result EXCEPT ![d] = Answer(d)]
    BY <1>8 DEF PageArrives, Answer
  <2>2. \A c \in Caller : Answer(c)' = Answer(c)
    BY <1>2, <2>1
  <2> QED BY <2>1, <2>2
<1> QED BY <1>5, <1>6, <1>7, <1>8 DEF Next, Step

\* What waits goes on waiting in time: nobody's clock or mutex changed, and the queue ahead
\* was not put back.
LEMMA QueueKeeps ==
    ASSUME Inv, NEW c \in Caller, QueueInv(c), UNCHANGED <<now, mu>>,
           begun'[c] = begun[c], pc'[c] = "waiting" => pc[c] = "waiting",
           mu # Nobody => sentAt'[mu] = sentAt[mu],
           Cardinality(Past') \in Int, Cardinality(Past) <= Cardinality(Past')
    PROVE  QueueInv(c)'
<1> DEFINE p == Cardinality(Past)
           q == Cardinality(Past')
<1>1. p \in Int /\ q \in Int /\ p <= q
  BY PastCounted
<1>2. /\ Timeout * p \in Int /\ Timeout * q \in Int /\ Timeout * p <= Timeout * q
      /\ Timeout * (p - 1) = Timeout * p - Timeout /\ Timeout * (q - 1) = Timeout * q - Timeout
  <2> HIDE DEF p, q
  <2> QED BY <1>1, Timeouts
<1>3. now \in Int /\ begun[c] \in Int /\ Timeout \in Int /\ (mu # Nobody => sentAt[mu] \in Int)
  BY CloudBaseAssumption DEF Inv, TypeOK, CloudBaseAssumption
<1>4. CASE mu = Nobody
  BY <1>2, <1>3, <1>4 DEF QueueInv
<1>5. CASE mu # Nobody
  BY <1>2, <1>3, <1>5 DEF QueueInv
<1> QED BY <1>4, <1>5

\* Whoever stops downloading has used one timeout at the most.
LEMMA QueueMoves ==
    ASSUME Inv, NEW c \in Caller, NEW d \in Caller, pc[d] = "downloading",
           mu' = Nobody, UNCHANGED <<now, begun>>, Past' = Past,
           pc'[c] = "waiting" => pc[c] = "waiting"
    PROVE  QueueInv(c)'
<1> DEFINE p == Cardinality(Past)
<1>1. mu = d /\ mu # Nobody /\ now <= sentAt[d] + Timeout /\ QueueInv(c)
  BY CloudBaseAssumption DEF Inv, Holder, Requests, Delays, CloudBaseAssumption
<1>2. Timeout * p \in Int /\ Timeout * (p - 1) = Timeout * p - Timeout
  <2>1. p \in Int
    BY PastCounted
  <2> HIDE DEF p
  <2> QED BY <2>1, Timeouts
<1>3. now \in Int /\ begun[c] \in Int /\ Timeout \in Int /\ sentAt[d] \in Int
  BY CloudBaseAssumption DEF Inv, TypeOK, CloudBaseAssumption
<1> QED BY <1>1, <1>2, <1>3 DEF QueueInv

\* What is asked for is asked for in time, as long as its call stays where it is.
LEMMA RequestKeeps ==
    ASSUME NEW c \in Caller, RequestInv(c),
           pc'[c] = pc[c] \/ pc'[c] \in {"waiting", "returned"},
           UNCHANGED <<begun[c], sentAt[c]>>
    PROVE  RequestInv(c)'
  BY DEF RequestInv

\* A call has waited less than all the others' timeouts when its turn comes.
LEMMA TurnComes ==
    ASSUME Inv, NEW c \in Caller, pc[c] = "waiting", mu = Nobody
    PROVE  /\ now - begun[c] <= Timeout * (Cardinality(Caller) - 1)
           /\ Timeout * (Cardinality(Caller) - 1) <= Timeout * Cardinality(Caller)
<1> DEFINE p == Cardinality(Past)
           n == Cardinality(Caller)
<1>1. p \in Int /\ n \in Int /\ p <= n - 1 /\ now - begun[c] <= Timeout * p
  BY PastCounted DEF Past, Inv, Delays, QueueInv
<1>2. now - begun[c] \in Int
  BY DEF Inv, TypeOK
<1> HIDE DEF p, n
<1>3. Timeout * p \in Int /\ Timeout * (n - 1) \in Int /\ Timeout * n \in Int
  BY <1>1, Timeouts, SMTT(30)
<1>4. Timeout * p <= Timeout * (n - 1) /\ Timeout * (n - 1) <= Timeout * n
  BY <1>1, Timeouts, SMTT(30)
<1>5. now - begun[c] <= Timeout * (n - 1)
  BY <1>1, <1>2, <1>3, <1>4
<1> QED BY <1>4, <1>5 DEF n

LEMMA DelaysTick == ASSUME Inv, Tick PROVE Delays'
<1> SUFFICES ASSUME NEW c \in Caller PROVE QueueInv(c)' /\ RequestInv(c)'
  BY DEF Delays
<1>1. Past' = Past /\ UNCHANGED <<pc, mu, begun, sentAt>> /\ now' = now + 1
  BY DEF Tick, Past
<1>2. RequestInv(c)'
  BY <1>1, RequestKeeps DEF Inv, Delays
<1>3. QueueInv(c)'
  <2> SUFFICES ASSUME pc[c] = "waiting" PROVE QueueInv(c)'
    BY <1>1 DEF QueueInv
  <2>1. mu \in Caller /\ mu # Nobody
    BY DEF Tick, Inv, TypeOK
  <2>2. Timeout * (Cardinality(Past) - 1) \in Int
    BY PastCounted, Timeouts
  <2>3. now - begun[c] <= Timeout * (Cardinality(Past) - 1) + (now - sentAt[mu])
    BY <2>1 DEF Inv, Delays, QueueInv
  <2>4. now \in Int /\ begun[c] \in Int /\ sentAt[mu] \in Int
    BY <2>1 DEF Inv, TypeOK
  <2>5. now' - begun[c] <= Timeout * (Cardinality(Past) - 1) + (now' - sentAt[mu])
    BY <1>1, <2>2, <2>3, <2>4
  <2> QED BY <1>1, <2>1, <2>5 DEF QueueInv
<1> QED BY <1>2, <1>3

LEMMA DelaysArrive == ASSUME Inv, NEW d \in Caller, Arrive(d) PROVE Delays'
<1> SUFFICES ASSUME NEW c \in Caller PROVE QueueInv(c)' /\ RequestInv(c)'
  BY DEF Delays
<1>1. pc[d] = "idle" /\ UNCHANGED <<now, mu, sentAt>>
  BY DEF Arrive
<1>2. Past' = Past \/ Past' = Past \cup {d}
  BY DEF Arrive, Goto, Past, Inv, TypeOK
<1>3. Cardinality(Past') \in Int /\ Cardinality(Past) <= Cardinality(Past')
  <2>1. d \notin Past /\ Cardinality(Past) \in Nat
    BY <1>1, PastCounted DEF Past
  <2>2. Past' = Past \cup {d} => Cardinality(Past') = Cardinality(Past) + 1
    BY <2>1, PastGrows
  <2> QED BY <1>2, <2>1, <2>2
<1>4. CASE c # d
  <2>1. pc'[c] = pc[c] /\ begun'[c] = begun[c]
    BY <1>4 DEF Arrive, Goto, Inv, TypeOK
  <2> QED BY <1>1, <1>3, <2>1, QueueKeeps, RequestKeeps DEF Inv, Delays
<1>5. CASE c = d
  <2>1. pc'[c] \in {"waiting", "returned"} /\ begun'[c] = now
    BY <1>5 DEF Arrive, Goto, Inv, TypeOK
  <2>2. RequestInv(c)'
    BY <2>1 DEF RequestInv
  <2>3. QueueInv(c)'
    <3> SUFFICES ASSUME pc'[c] = "waiting" PROVE QueueInv(c)'
      BY DEF QueueInv
    <3>1. now' - begun'[c] = 0
      BY <1>1, <2>1 DEF Inv, TypeOK
    <3>2. Timeout * Cardinality(Past') >= 0
      BY <1>3, PastCounted, Timeouts, CloudBaseAssumption DEF CloudBaseAssumption
    <3>3. CASE mu = Nobody
      BY <1>1, <3>1, <3>2, <3>3 DEF QueueInv
    <3>4. CASE mu # Nobody
      <4>1. mu \in Past /\ mu \in Caller /\ sentAt[mu] <= now
        BY <3>4 DEF Inv, TypeOK, Holder, Requests, Past
      <4>2. Cardinality(Past') - 1 >= 0 /\ Cardinality(Past') - 1 \in Int
        BY <1>3, <4>1, PastCounted
      <4>3. Timeout * (Cardinality(Past') - 1) >= 0 /\ Timeout * (Cardinality(Past') - 1) \in Int
        BY <4>2, Timeouts, CloudBaseAssumption DEF CloudBaseAssumption
      <4>4. now - sentAt[mu] >= 0 /\ now - sentAt[mu] \in Int
        BY <4>1 DEF Inv, TypeOK
      <4> QED BY <1>1, <3>1, <3>4, <4>3, <4>4 DEF QueueInv
    <3> QED BY <3>3, <3>4
  <2> QED BY <2>2, <2>3
<1> QED BY <1>4, <1>5

\* A turn that comes while nobody downloads.
LEMMA DelaysTurn ==
    ASSUME Inv, NEW d \in Caller, Lookup(d) \/ Download(d)
    PROVE  Delays'
<1> SUFFICES ASSUME NEW c \in Caller PROVE QueueInv(c)' /\ RequestInv(c)'
  BY DEF Delays
<1>1. /\ pc[d] = "waiting" /\ mu = Nobody /\ UNCHANGED <<now, begun>>
      /\ pc'[d] \in {"downloading", "reading", "returned"}
      /\ \A e \in Caller \ {d} : pc'[e] = pc[e] /\ sentAt'[e] = sentAt[e]
      /\ pc'[d] # "returned" => sentAt'[d] = now
      /\ (pc'[d] = "downloading" /\ mu' = d) \/ (pc'[d] # "downloading" /\ mu' = mu)
  BY DEF Lookup, Choose, Download, Goto, Inv, TypeOK
<1>2. Past' = Past \cup {d} /\ d \notin Past
  BY <1>1 DEF Past
<1>3. /\ Cardinality(Past) \in Int /\ Cardinality(Past') = Cardinality(Past) + 1
  <2>1. Cardinality(Past') = Cardinality(Past) + 1
    BY <1>2, PastGrows
  <2> QED BY <2>1, PastCounted
<1>4. CASE c = d
  <2>1. QueueInv(c)'
    BY <1>1, <1>4 DEF QueueInv
  <2>2. /\ now - begun[c] <= Timeout * (Cardinality(Caller) - 1)
        /\ Timeout * (Cardinality(Caller) - 1) <= Timeout * Cardinality(Caller)
    BY <1>1, <1>4, TurnComes
  <2>3. /\ now - begun[c] \in Int /\ Timeout * (Cardinality(Caller) - 1) \in Int
        /\ Timeout * Cardinality(Caller) \in Int
    <3>1. Cardinality(Caller) \in Int /\ Cardinality(Caller) - 1 \in Int
      BY PastCounted
    <3>2. Timeout * (Cardinality(Caller) - 1) \in Int /\ Timeout * Cardinality(Caller) \in Int
      BY <3>1, CloudBaseAssumption DEF CloudBaseAssumption
    <3> QED BY <3>2 DEF Inv, TypeOK
  <2>4. now - begun[c] <= Timeout * Cardinality(Caller)
    BY <2>2, <2>3
  <2>5. RequestInv(c)'
    BY <1>1, <1>4, <2>2, <2>4 DEF RequestInv
  <2> QED BY <2>1, <2>5
<1>5. CASE c # d
  <2>1. RequestInv(c)'
    BY <1>1, <1>5, RequestKeeps DEF Inv, Delays
  <2>2. CASE mu' = mu
    BY <1>1, <1>3, <1>5, <2>1, <2>2, QueueKeeps DEF Inv, Delays
  <2>3. CASE mu' = d /\ d # Nobody /\ sentAt'[d] = now
    <3> SUFFICES ASSUME pc[c] = "waiting"
                 PROVE  now - begun[c] <= Timeout * (Cardinality(Past') - 1) + (now - now)
      BY <1>1, <1>5, <2>1, <2>3 DEF QueueInv
    <3>1. now - begun[c] <= Timeout * Cardinality(Past)
      BY <1>1 DEF Inv, Delays, QueueInv
    <3>2. Timeout * (Cardinality(Past') - 1) = Timeout * Cardinality(Past)
      BY <1>3
    <3>3. now - begun[c] \in Int /\ Timeout * Cardinality(Past) \in Int /\ now - now = 0
      BY <1>3, Timeouts DEF Inv, TypeOK
    <3> QED BY <3>1, <3>2, <3>3
  <2>4. d # Nobody
    BY CloudBaseAssumption DEF CloudBaseAssumption
  <2> QED BY <1>1, <2>1, <2>2, <2>3, <2>4
<1> QED BY <1>4, <1>5

\* A download that ends, well or not, leaves the mutex to the next.
LEMMA DelaysDownload ==
    ASSUME Inv, NEW d \in Caller, DownloadFails(d) \/ DownloadEnds(d)
    PROVE  Delays'
<1> SUFFICES ASSUME NEW c \in Caller PROVE QueueInv(c)' /\ RequestInv(c)'
  BY DEF Delays
<1>1. /\ pc[d] = "downloading" /\ mu' = Nobody /\ UNCHANGED <<now, begun>>
      /\ pc'[d] \in {"reading", "returned"}
      /\ \A e \in Caller \ {d} : pc'[e] = pc[e] /\ sentAt'[e] = sentAt[e]
      /\ pc'[d] = "reading" => sentAt'[d] = now
  BY DEF DownloadFails, DownloadEnds, Choose, Goto, Inv, TypeOK
<1>2. Past' = Past
  BY <1>1 DEF Past
<1>3. QueueInv(c)'
  BY <1>1, <1>2, QueueMoves
<1>4. CASE c # d
  BY <1>1, <1>3, <1>4, RequestKeeps DEF Inv, Delays
<1>5. CASE c = d
  <2>1. /\ sentAt[c] - begun[c] <= Timeout * (Cardinality(Caller) - 1)
        /\ now <= sentAt[c] + Timeout
    BY <1>1, <1>5 DEF Inv, Delays, RequestInv, Requests
  <2>2. /\ Timeout * (Cardinality(Caller) - 1) = Timeout * Cardinality(Caller) - Timeout
        /\ Timeout * Cardinality(Caller) \in Int
    BY PastCounted, Timeouts
  <2>3. now \in Int /\ sentAt[c] \in Int /\ begun[c] \in Int /\ Timeout \in Int
    BY CloudBaseAssumption DEF Inv, TypeOK, CloudBaseAssumption
  <2>4. now - begun[c] <= Timeout * Cardinality(Caller)
    BY <2>1, <2>2, <2>3
  <2>5. RequestInv(c)'
    BY <1>1, <1>5, <2>4 DEF RequestInv
  <2> QED BY <1>3, <2>5
<1> QED BY <1>4, <1>5

LEMMA DelaysPage ==
    ASSUME Inv, NEW d \in Caller, PageFails(d) \/ PageArrives(d)
    PROVE  Delays'
<1> SUFFICES ASSUME NEW c \in Caller PROVE QueueInv(c)' /\ RequestInv(c)'
  BY DEF Delays
<1>1. /\ pc[d] = "reading" /\ UNCHANGED <<now, mu, begun, sentAt>>
      /\ pc'[d] = "returned" /\ \A e \in Caller \ {d} : pc'[e] = pc[e]
  BY DEF PageFails, PageArrives, Goto, Inv, TypeOK
<1>2. Past' = Past
  BY <1>1 DEF Past
<1>3. pc'[c] = pc[c] \/ pc'[c] = "returned"
  BY <1>1
<1> QED BY <1>1, <1>2, <1>3, PastCounted, QueueKeeps, RequestKeeps DEF Inv, Delays

LEMMA InvStep == Inv /\ [Next]_vars => Inv'
<1> SUFFICES ASSUME Inv, [Next]_vars PROVE Inv'
  OBVIOUS
<1>1. CASE Next
  <2>1. Delays'
    BY <1>1, DelaysTick, DelaysArrive, DelaysTurn, DelaysDownload, DelaysPage DEF Next, Step
  <2> QED BY <1>1, <2>1, TypeStep, HolderStep, RequestsStep, ResultsStep DEF Inv
<1>2. CASE UNCHANGED vars
  <2>1. TypeOK' /\ Holder' /\ Requests'
    BY <1>2, TypeStep DEF vars, cacheVars, Inv, Holder, Fresh, Requests
  <2>2. Delays'
    BY <1>2 DEF vars, cacheVars, Inv, Delays, QueueInv, RequestInv, Past
  <2>3. Results'
    BY <1>2 DEF vars, cacheVars, Inv, Results, Answer, Read, parseCloudBase, parseVisibility,
                Lowest
  <2> QED BY <2>1, <2>2, <2>3 DEF Inv
<1> QED BY <1>1, <1>2

\* The inductive invariant of FetchCloudBase and getAirportList: the mutex is held across
\* the download, and the queue in front of it only ever gets shorter.
THEOREM Invariance == Spec => []Inv
BY InvInit, InvStep, PTL DEF Spec

\* Type correctness: calls, the cached list and the readings (metar.go).
THEOREM TypeCorrect == Spec => []TypeOK
<1>1. Inv => TypeOK
  BY DEF Inv
<1> QED BY <1>1, Invariance, PTL

----------------------------------------------------------------------------
LEMMA InvBoundsWait == Inv => WaitBounded
<1> SUFFICES ASSUME Inv, NEW c \in Caller, Waiting(c)
             PROVE  now - begun[c] <= (Cardinality(Caller) + 1) * Timeout
  BY DEF WaitBounded
<1> DEFINE p == Cardinality(Past)
           n == Cardinality(Caller)
<1>1. p \in Int /\ n \in Int /\ p <= n /\ Timeout \in Nat
  BY PastCounted, CloudBaseAssumption DEF CloudBaseAssumption
<1>2. now \in Int /\ begun[c] \in Int /\ sentAt[c] \in Int
  BY DEF Inv, TypeOK
<1>3. /\ Timeout * p \in Int /\ Timeout * n \in Int /\ Timeout * p <= Timeout * n
      /\ Timeout * (p - 1) = Timeout * p - Timeout /\ Timeout * (n - 1) = Timeout * n - Timeout
      /\ (n + 1) * Timeout = Timeout * n + Timeout
  <2> HIDE DEF p, n
  <2> QED BY <1>1, Timeouts
<1>4. CASE pc[c] = "waiting"
  <2>1. mu # Nobody => mu \in Caller /\ now <= sentAt[mu] + Timeout /\ sentAt[mu] \in Int
    BY DEF Inv, TypeOK, Holder, Requests
  <2>2. QueueInv(c)
    BY DEF Inv, Delays
  <2>3. now - begun[c] <= Timeout * p
    <3>1. CASE mu = Nobody BY <1>4, <2>2, <3>1 DEF QueueInv
    <3>2. CASE mu # Nobody
      <4>1. now - begun[c] <= Timeout * (p - 1) + (now - sentAt[mu])
        BY <1>4, <2>2, <3>2 DEF QueueInv
      <4> HIDE DEF p, n
      <4> QED BY <1>1, <1>2, <1>3, <2>1, <3>2, <4>1
    <3> QED BY <3>1, <3>2
  <2> HIDE DEF p, n
  <2>4. now - begun[c] <= Timeout * n + Timeout
    BY <1>1, <1>2, <1>3, <2>3
  <2> QED BY <1>3, <2>4 DEF n
<1>5. CASE pc[c] \in {"downloading", "reading"}
  <2>1. sentAt[c] - begun[c] <= Timeout * n /\ now <= sentAt[c] + Timeout
    <3>1. RequestInv(c) /\ now <= sentAt[c] + Timeout
      BY <1>5 DEF Inv, Delays, Requests
    <3>2. sentAt[c] - begun[c] <= Timeout * (n - 1) \/ sentAt[c] - begun[c] <= Timeout * n
      BY <1>5, <3>1 DEF RequestInv
    <3> HIDE DEF p, n
    <3> QED BY <1>1, <1>2, <1>3, <3>1, <3>2
  <2> HIDE DEF p, n
  <2>2. now - begun[c] <= Timeout * n + Timeout
    BY <1>1, <1>2, <1>3, <2>1
  <2> QED BY <1>3, <2>2 DEF n
<1> QED BY <1>4, <1>5 DEF Waiting

\* However many calls of FetchCloudBase queue behind failing downloads, none is held up
\* longer than one timeout for each of them and one more (getAirportList, fetchMETAR).
THEOREM WaitTheorem == Spec => []WaitBounded
BY InvBoundsWait, Invariance, PTL

LEMMA InvTellsWorst == Inv => WorstIsTold
<1> SUFFICES ASSUME Inv, NEW c \in Caller, result[c] # [metar |-> Silent, taf |-> Silent]
             PROVE  LET told == CloudBaseOf(result[c])
                        reports == page[airport[c]]
                        ceiling(text) == \E g \in text : g.sort \in {"BKN", "OVC"}
                    IN  /\ ceiling(reports.metar) \/ ceiling(reports.taf) => told # None
                        /\ told # None =>
                             /\ IF told.metar = None THEN ~ceiling(reports.metar)
                                ELSE Faithful(told.metar, reports.metar)
                             /\ IF told.taf = None THEN ~ceiling(reports.taf)
                                ELSE Faithful(told.taf, reports.taf)
  BY DEF WorstIsTold
<1> DEFINE r == result[c]
           reports == page[airport[c]]
           metar == Read(reports.metar)
           taf == Read(reports.taf)
           told == CloudBaseOf(r)
           ceiling(text) == \E g \in text : g.sort \in {"BKN", "OVC"}
<1>1. r = [metar |-> metar, taf |-> taf] /\ reports.metar \in Report /\ reports.taf \in Report
  BY DEF Inv, TypeOK, Results, Answer
<1>2. /\ metar \in Reading /\ taf \in Reading
      /\ Faithful(metar, reports.metar) /\ Faithful(taf, reports.taf)
      /\ ceiling(reports.metar) => metar.base >= 0
      /\ ceiling(reports.taf) => taf.base >= 0
  BY <1>1, ReadTyped, ReadIsFaithful, CeilingIsRead
<1>3. metar # None /\ taf # None
  BY <1>2, CloudBaseAssumption DEF CloudBaseAssumption, Reading
<1>4. Available(r) = (taf.base >= 0)
      /\ MetarAvailable(r) = (metar.base >= 0 \/ metar.visibility >= 0)
  BY <1>1 DEF Available, MetarAvailable
<1>5. told # None =>
        /\ told.metar = IF MetarAvailable(r) THEN metar ELSE None
        /\ told.taf = IF Available(r) THEN taf ELSE None
  BY <1>1 DEF CloudBaseOf
<1>6. ceiling(reports.metar) \/ ceiling(reports.taf) => told # None
  <2>1. ASSUME ceiling(reports.metar) \/ ceiling(reports.taf)
        PROVE  told \in [metar : Reading \cup {None}, taf : Reading \cup {None}]
    <3>1. Available(r) \/ MetarAvailable(r)
      BY <1>2, <1>4, <2>1
    <3>2. told = [metar |-> IF MetarAvailable(r) THEN r.metar ELSE None,
                  taf |-> IF Available(r) THEN r.taf ELSE None]
      BY <3>1 DEF CloudBaseOf
    <3>3. r.metar \in Reading /\ r.taf \in Reading
      BY <1>1, <1>2
    <3> HIDE DEF told, r
    <3> QED BY <3>2, <3>3
  <2> QED BY <2>1, CloudBaseAssumption DEF CloudBaseAssumption
<1> HIDE DEF r, reports, metar, taf, told
<1>7. told # None =>
        /\ IF told.metar = None THEN ~ceiling(reports.metar)
           ELSE Faithful(told.metar, reports.metar)
        /\ IF told.taf = None THEN ~ceiling(reports.taf)
           ELSE Faithful(told.taf, reports.taf)
  BY <1>2, <1>3, <1>4, <1>5
<1> QED BY <1>6, <1>7 DEF r, reports, told

\* Whoever got a page is told the worst ceiling and visibility of the METAR and of the TAF
\* of the airport it chose, a runway visual range counted among the visibilities, and of a
\* report with a ceiling nobody is told that there is none (parseCloudBase,
\* parseVisibility, buildAPIResponse).
THEOREM WorstTheorem == Spec => []WorstIsTold
BY InvTellsWorst, Invariance, PTL

LEMMA StepDownloadsOnce == Inv /\ [Next]_vars => [list' # list => ~Fresh /\ Fresh']_vars
<1> SUFFICES ASSUME Inv, Next, list' # list PROVE ~Fresh /\ Fresh'
  OBVIOUS
<1>1. PICK c \in Caller : DownloadEnds(c)
  BY DEF Next, Step, Tick, cacheVars, Arrive, Lookup, Download, DownloadFails, PageFails,
         PageArrives
<1> QED BY <1>1, CloudBaseAssumption
        DEF Inv, TypeOK, Holder, DownloadEnds, Fresh, CloudBaseAssumption

\* The list is replaced only when it has expired, by one that is good: who queued behind a
\* download that succeeded does not repeat it (getAirportList).
THEOREM OneDownloadTheorem == Spec => OneDownload
BY StepDownloadsOnce, Invariance, PTL DEF OneDownload, Spec
=============================================================================
