---------------------------- MODULE Page_proofs -----------------------------
(***************************************************************************)
(* Proofs about what the results page shows.                               *)
(*                                                                         *)
(* The card of an area, for every zone, aerodrome, ground and accuracy:    *)
(* its control-zone height limit is never above the permitted height, and  *)
(* never further below it than the accuracy and the rounding account for;  *)
(* its words explain the limit.                                            *)
(*                                                                         *)
(* The map, for any number of tab changes and clicks, any layers, groups   *)
(* and features: its pollers do not pile up, and an answer to a click      *)
(* holds each zone once.  The text of the map server is as long as it has  *)
(* features; what holds of all its blocks is proved from the least one     *)
(* that it does not hold of (OneByOne).                                    *)
(***************************************************************************)
EXTENDS ZoneCard, MapPage, FiniteSetTheorems, SequenceTheorems, FunctionTheorems, TLAPS

\* Rounding to whole metres goes down, by less than a metre.
LEMMA WholeMetresBelow ==
    ASSUME NEW h \in Int
    PROVE  /\ WholeMetres(h) \in Int
           /\ WholeMetres(h) <= h /\ h - WholeMetres(h) < m
BY DEF WholeMetres, m

LEMMA CeilingType == \A z \in Zone : N(z) \in Int
BY DEF N, m

\* ctrMaxAGL against the rule, for a ground h somewhere within the accuracy r of
\* the height g that was measured.
LEMMA LimitAgainstRule ==
    ASSUME NEW z \in Limited, NEW a \in Int, NEW g \in Int, NEW r \in Nat, NEW h \in Int,
           g - r <= h, h <= g + r
    PROVE  LET l == ctrMaxAGL(z, a + N(z), g, r)
           IN  /\ l \in Int
               /\ l > 0 => l <= Permitted(z, a, h)
               /\ Permitted(z, a, h) - Higher(l, 0) < 2 * r + m
<1> DEFINE top == IF z = 4
                  THEN IF g + r < a + N(z) - N(z) THEN 100 * m
                       ELSE Higher(a + N(z) - (g + r), 50 * m)
                  ELSE Higher(Lower(N(z), a + N(z) - (g + r)), 0)
           l == WholeMetres(top)
<1>1. N(z) \in Int
  BY DEF N, m
<1>2. l = ctrMaxAGL(z, a + N(z), g, r)
  BY <1>1 DEF ctrMaxAGL, WholeMetres, Higher, Lower, m
<1>3. top \in Int
  BY <1>1 DEF Higher, Lower, m
<1>4. l \in Int /\ l <= top /\ top - l < m
  BY <1>3, WholeMetresBelow
<1>5. l > 0 => top <= Permitted(z, a, h)
  <2>1. CASE z = 4
    BY <2>1, <1>4 DEF Permitted, Higher, N, m
  <2>2. CASE z # 4
    BY <2>2, <1>1, <1>4 DEF Permitted, Higher, Lower
  <2> QED BY <2>1, <2>2
<1>6. Permitted(z, a, h) \in Int /\ Permitted(z, a, h) - top <= 2 * r
  <2>1. CASE z = 4
    BY <2>1 DEF Permitted, Higher, N, m
  <2>2. CASE z # 4
    BY <2>2, <1>1 DEF Permitted, Higher, Lower
  <2> QED BY <2>1, <2>2
<1> HIDE DEF top, l
<1>7. /\ l > 0 => l <= Permitted(z, a, h)
      /\ Permitted(z, a, h) - l < 2 * r + m
  BY <1>3, <1>4, <1>5, <1>6 DEF m
<1>8. Permitted(z, a, h) - Higher(l, 0) < 2 * r + m
  BY <1>4, <1>6, <1>7 DEF Higher, m
<1> QED BY <1>2, <1>4, <1>7, <1>8

----------------------------------------------------------------------------
\* The inductive invariant: what was attached is ctrMaxAGL of a measurement, and
\* the true ground is within the accuracy of it.
Inv ==
    /\ TypeOK
    /\ ground # None => ground - rmse <= terrain /\ terrain <= ground + rmse
    /\ phase = "asking" => ground = None
    /\ attached # None => /\ ground # None /\ zone \in Limited /\ nfl
                          /\ attached.maxAGL = ctrMaxAGL(zone, floor, ground, rmse)
    /\ limit # None => /\ attached # None
                       /\ limit.maxAGL = Higher(attached.maxAGL, 0)
                       /\ limit.clearance = (attached.maxAGL > 0)
    /\ phase \in {"asking", "measured"} => attached = None
    /\ phase # "answered" => limit = None

LEMMA InvInit == Init => Inv
<1> SUFFICES ASSUME Init PROVE Inv
  OBVIOUS
<1>1. floor \in Int
  BY HeightAssumption, CeilingType DEF Init
<1> QED BY <1>1 DEF Init, Inv, TypeOK

LEMMA InvMeasure == ASSUME Inv, Measure PROVE Inv'
<1>1. PICK g \in Ground, s \in Rmse : /\ ground' = g
                                      /\ rmse' = IF s > 0 THEN s ELSE DefaultRmse
  BY DEF Measure
<1>2. g \in Int /\ g # None /\ rmse' \in Nat
  BY <1>1, HeightAssumption DEF DefaultRmse, m
<1>3. terrain' \in Int /\ ground' - rmse' <= terrain' /\ terrain' <= ground' + rmse'
  BY <1>1, <1>2 DEF Measure
<1> QED BY <1>1, <1>2, <1>3 DEF Inv, TypeOK, Measure, input

LEMMA InvEnrich == ASSUME Inv, Enrich PROVE Inv'
<1> USE DEF Inv, TypeOK, Enrich, input
<1>1. CASE attached' = None
  BY <1>1
<1>2. CASE attached' # None
  <2>1. ground \in Int /\ rmse \in Nat /\ zone \in Limited
    BY <1>2
  <2>2. N(zone) \in Int /\ floor - N(zone) \in Int
    BY CeilingType
  <2>3. ctrMaxAGL(zone, floor, ground, rmse) \in Int
    BY <2>1, <2>2, WholeMetresBelow DEF ctrMaxAGL, Higher, Lower, m
  <2> QED BY <1>2, <2>1, <2>2, <2>3
<1> QED BY <1>1, <1>2

LEMMA InvAnswer == ASSUME Inv, Answer PROVE Inv'
<1> USE DEF Inv, TypeOK, Answer, input
<1>1. CASE attached = None
  BY <1>1
<1>2. CASE attached # None
  <2>1. Higher(attached.maxAGL, 0) \in Int /\ attached.maxAGL \in Int
    BY <1>2 DEF Higher
  <2> QED BY <1>2, <2>1
<1> QED BY <1>1, <1>2

LEMMA InvNext == Inv /\ [Next]_vars => Inv'
<1> SUFFICES ASSUME Inv, [Next]_vars PROVE Inv'
  OBVIOUS
<1>1. CASE Measure BY <1>1, InvMeasure
<1>2. CASE MeasureFails BY <1>2 DEF MeasureFails, Inv, TypeOK, input
<1>3. CASE Enrich BY <1>3, InvEnrich
<1>4. CASE Answer BY <1>4, InvAnswer
<1>5. CASE UNCHANGED vars BY <1>5 DEF vars, input, Inv, TypeOK
<1> QED BY <1>1, <1>2, <1>3, <1>4, <1>5 DEF Next

\* The inductive invariant: what is attached to an area comes from the measurement
\* (enrichZones).
THEOREM Invariance == Spec => []Inv
BY InvInit, InvNext, PTL DEF Spec

\* Type correctness, for every value of the constants.
THEOREM TypeCorrect == Spec => []TypeOK
<1>1. Inv => TypeOK
  BY DEF Inv
<1> QED BY <1>1, Invariance, PTL

LEMMA InvImpliesBounds == Inv => NeverTooHigh /\ NoNeedlessCaution
<1> SUFFICES ASSUME Inv, limit # None
             PROVE  /\ limit.clearance => limit.maxAGL <= Permitted(zone, floor - N(zone), terrain)
                    /\ Permitted(zone, floor - N(zone), terrain) - limit.maxAGL < 2 * rmse + m
  BY DEF NeverTooHigh, NoNeedlessCaution
<1> DEFINE a == floor - N(zone)
<1>1. /\ zone \in Limited /\ ground \in Int /\ rmse \in Nat /\ terrain \in Int
      /\ ground - rmse <= terrain /\ terrain <= ground + rmse
  BY DEF Inv, TypeOK
<1>2. a \in Int /\ a + N(zone) = floor
  BY <1>1, CeilingType DEF Inv, TypeOK
<1>3. /\ attached.maxAGL = ctrMaxAGL(zone, a + N(zone), ground, rmse)
      /\ limit.maxAGL = Higher(attached.maxAGL, 0)
      /\ limit.clearance = (attached.maxAGL > 0)
  BY <1>2 DEF Inv
<1> HIDE DEF a
<1>4. /\ attached.maxAGL \in Int
      /\ attached.maxAGL > 0 => attached.maxAGL <= Permitted(zone, a, terrain)
      /\ Permitted(zone, a, terrain) - Higher(attached.maxAGL, 0) < 2 * rmse + m
  BY <1>1, <1>2, <1>3, LimitAgainstRule
<1>5. limit.clearance => limit.maxAGL <= Permitted(zone, a, terrain)
  BY <1>3, <1>4 DEF Higher
<1>6. Permitted(zone, a, terrain) - limit.maxAGL < 2 * rmse + m
  BY <1>3, <1>4
<1> QED BY <1>5, <1>6 DEF a

\* No pilot is told a height above the permitted one (ctrMaxAGL, ctrHeightLimit).
THEOREM NeverTooHighTheorem == Spec => []NeverTooHigh
BY InvImpliesBounds, Invariance, PTL

\* The limit is below the permitted height by less than the accuracy on both sides
\* and a metre of rounding.
THEOREM NoNeedlessCautionTheorem == Spec => []NoNeedlessCaution
BY InvImpliesBounds, Invariance, PTL

----------------------------------------------------------------------------
\* The inductive invariant of the card: nfl is what enrichZones makes of the reference,
\* and a card is only made with the answer.
CardInv ==
    /\ Inv
    /\ nfl = (legalReference = "nflCTR2026")
    /\ phase # "answered" => card = None
    /\ LimitIsExplained

\* ZoneRule and ctrHeightLimit agree on an area they both get from enrichZones.
LEMMA ShowExplains == ASSUME CardInv, Show PROVE LimitIsExplained'
<1>1. CASE attached = None
  BY <1>1 DEF Show, Answer, ZoneRule, ctrLocalText, LimitIsExplained
<1>2. CASE attached # None
  <2>1. zone \in {2, 3, 4} /\ legalReference = "nflCTR2026" /\ attached.maxAGL \in Int
    BY <1>2 DEF CardInv, Inv, TypeOK, Limited
  <2>2. RuleOf(legalReference) = "ctrDFS" /\ CTRZone = zone /\ CTRZone > 1
    BY <2>1 DEF RuleOf, CTRZone
  <2>3. /\ card'.rule = "ctrDFS" /\ card'.ctrZone = zone
        /\ card'.conditions /\ card'.local = ctrLocalText
    BY <2>2 DEF Show, ZoneRule
  <2>4. ctrLocalText = IF attached.maxAGL <= 0 THEN "no clearance" ELSE attached.maxAGL
    BY <1>2 DEF ctrLocalText
  <2> DEFINE h == Higher(attached.maxAGL, 0)
             c == attached.maxAGL > 0
  <2>5. limit' = [maxAGL |-> h, clearance |-> c]
    BY <1>2 DEF Show, Answer
  <2>6. limit' # None /\ limit'.maxAGL = h /\ limit'.clearance = c
    <3>1. h \in Int /\ c \in BOOLEAN
      BY <2>1 DEF Higher
    <3> HIDE DEF h, c
    <3> QED BY <2>5, <3>1, HeightAssumption
  <2>7. zone' = zone
    BY DEF Show, Answer, input
  <2>8. card'.local = IF limit'.clearance THEN limit'.maxAGL ELSE "no clearance"
    <3>1. CASE attached.maxAGL > 0
      <4>1. ~(attached.maxAGL <= 0) /\ h = attached.maxAGL
        BY <2>1, <3>1 DEF Higher
      <4>2. ctrLocalText = attached.maxAGL
        BY <2>4, <4>1, Zenon
      <4>3. c
        BY <3>1
      <4> QED BY <2>3, <2>6, <4>1, <4>2, <4>3
    <3>2. CASE ~(attached.maxAGL > 0)
      <4>1. attached.maxAGL <= 0
        BY <2>1, <3>2
      <4>2. ctrLocalText = "no clearance"
        BY <2>4, <4>1, Zenon
      <4>3. ~c
        BY <3>2
      <4> QED BY <2>3, <2>6, <4>2, <4>3
    <3> QED BY <3>1, <3>2
  <2> QED BY <2>3, <2>6, <2>7, <2>8 DEF LimitIsExplained
<1> QED BY <1>1, <1>2

LEMMA CardInvNext ==
    ASSUME CardInv, [CardNext]_<<vars, legalReference, card>>
    PROVE  CardInv'
<1>1. Inv'
  BY InvNext DEF CardInv, CardNext, Show, Next
<1>2. CASE (Measure \/ MeasureFails \/ Enrich) /\ UNCHANGED <<legalReference, card>>
  <2>1. card = None /\ card' = None /\ nfl' = nfl
    BY <1>2 DEF CardInv, Measure, MeasureFails, Enrich, input
  <2> QED BY <1>1, <1>2, <2>1 DEF CardInv, LimitIsExplained
<1>3. CASE Show
  <2>1. nfl' = nfl /\ legalReference' = legalReference /\ phase' = "answered"
    BY <1>3 DEF Show, Answer, input
  <2> QED BY <1>1, <1>3, <2>1, ShowExplains DEF CardInv
<1>4. CASE UNCHANGED <<vars, legalReference, card>>
  BY <1>1, <1>4 DEF CardInv, LimitIsExplained, vars, input
<1> QED BY <1>2, <1>3, <1>4 DEF CardNext

\* No limit is shown without the rule it comes from, nor in other words than its number
\* (enrichZones and ctrHeightLimit on the one side, ZoneRule on the other).
THEOREM LimitIsExplainedTheorem == CardSpec => []LimitIsExplained
<1>1. CardInit => CardInv
  BY InvInit DEF CardInit, CardInv, LimitIsExplained
<1>2. CardInv => LimitIsExplained
  BY DEF CardInv
<1> QED BY <1>1, <1>2, CardInvNext, PTL DEF CardSpec

\* A step of the card is a step of the height limit, so its bounds hold of the limits
\* that are shown.
THEOREM CardImplementsLimit == CardSpec => Spec
<1>1. CardInit => Init
  BY DEF CardInit
<1>2. [CardNext]_<<vars, legalReference, card>> => [Next]_vars
  BY DEF CardNext, Show, Next
<1> QED BY <1>1, <1>2, PTL DEF CardSpec, Spec

\* No limit in an answer is above the permitted height (ctrMaxAGL, ctrHeightLimit).
THEOREM CardNeverTooHigh == CardSpec => []NeverTooHigh
BY CardImplementsLimit, NeverTooHighTheorem, PTL

\* Nor is it needlessly low (ctrMaxAGL).
THEOREM CardNoNeedlessCaution == CardSpec => []NoNeedlessCaution
BY CardImplementsLimit, NoNeedlessCautionTheorem, PTL

----------------------------------------------------------------------------
(* The text of the map server.                                             *)

\* The lines of the map server's text.
Line ==
    {[kind |-> k] : k \in {"separator", "geom", "value", "null"}}
      \cup {[kind |-> "header", layer |-> l] : l \in Layer}

\* The lines between e[i - 1] and e[i] are the block of feature i, with a header if its
\* layer is another one than the feature before it has.
Shape(features, text, e, i) ==
    /\ e[i] \in {e[i - 1] + 4, e[i - 1] + 5}
    /\ text[e[i] - 3] = [kind |-> "separator"]
    /\ text[e[i] - 2] = [kind |-> "geom"]
    /\ text[e[i] - 1] = [kind |-> IF features[i].readable THEN "value" ELSE "null"]
    /\ text[e[i]] = [kind |-> "separator"]
    /\ IF e[i] = e[i - 1] + 4
       THEN i > 1 /\ features[i - 1].layer = features[i].layer
       ELSE text[e[i] - 4] = [kind |-> "header", layer |-> features[i].layer]

\* e tells where the blocks of the first n features end.
Ends(features, text, e, n) ==
    /\ e \in [0..n -> Nat] /\ e[0] = 0 /\ e[n] = Len(text)
    /\ \A i \in 0..n : e[i] <= Len(text)
    /\ \A i \in 1..n : Shape(features, text, e, i)

----------------------------------------------------------------------------
(* Induction over the features.                                            *)

\* What holds of none and of one more holds of all.
LEMMA OneByOne ==
    ASSUME NEW n \in Nat, NEW S, 0 \in S, \A k \in 1..n : k - 1 \in S => k \in S
    PROVE  0..n \subseteq S
<1> DEFINE Less == {p \in Nat \X Nat : p[1] < p[2]}
           Rest == {k \in 0..n : k \notin S}
<1> SUFFICES ASSUME Rest # {} PROVE FALSE
  OBVIOUS
<1>1. IsWellFoundedOn(Less, Nat)
  BY NatLessThanWellFounded DEF OpToRel
<1>2. PICK k \in Rest : \A j \in Rest : ~ (<<j, k>> \in Less)
  <2>1. Rest \subseteq Nat
    OBVIOUS
  <2> HIDE DEF Less, Rest
  <2> QED BY <1>1, <2>1, WFMin
<1>3. k \in 1..n /\ k \notin S
  OBVIOUS
<1>4. k - 1 \in 0..n /\ <<k - 1, k>> \in Less
  BY <1>3
<1>5. k - 1 \in S
  BY <1>2, <1>4
<1> QED BY <1>3, <1>5

LEMMA HeaderAndBlock ==
    ASSUME NEW features \in Seq(Feature), NEW i \in 1..Len(features)
    PROVE  /\ features[i] \in Feature
           /\ Header(features, i) \in Seq(Line) /\ Block(features[i]) \in Seq(Line)
           /\ Len(Header(features, i)) \in {0, 1} /\ Len(Block(features[i])) = 4
           /\ Len(Header(features, i)) = 0 =>
                i > 1 /\ features[i - 1].layer = features[i].layer
           /\ Len(Header(features, i)) = 1 =>
                Header(features, i)[1] = [kind |-> "header", layer |-> features[i].layer]
           /\ Block(features[i])[1] = [kind |-> "separator"]
           /\ Block(features[i])[2] = [kind |-> "geom"]
           /\ Block(features[i])[3] = [kind |-> IF features[i].readable THEN "value" ELSE "null"]
           /\ Block(features[i])[4] = [kind |-> "separator"]
<1>1. features[i] \in Feature
  OBVIOUS
<1>2. features[i].layer \in Layer
  BY <1>1 DEF Feature
<1>3. [kind |-> "header", layer |-> features[i].layer] \in Line
  BY <1>2 DEF Line
<1>4. /\ [kind |-> "separator"] \in Line /\ [kind |-> "geom"] \in Line
      /\ [kind |-> IF features[i].readable THEN "value" ELSE "null"] \in Line
  BY DEF Line
<1> QED BY <1>1, <1>3, <1>4 DEF Header, Block

\* s, and what the text has of feature k.
More(features, k, s) == s \o Header(features, k) \o Block(features[k])

\* The texts of the first features, as the recursion of Texts defines them.
IsTexts(features, t, n) ==
    /\ t \in [0..n -> Seq(Line)] /\ t[0] = <<>>
    /\ \A i \in 1..n : t[i] = t[i - 1] \o Header(features, i) \o Block(features[i])

LEMMA TextsExist ==
    ASSUME NEW features \in Seq(Feature)
    PROVE  \E t : IsTexts(features, t, Len(features))
<1> DEFINE n == Len(features)
           S == {k \in 0..n : \E t : IsTexts(features, t, k)}
<1>1. n \in Nat
  OBVIOUS
<1>2. 0 \in S
  <2> DEFINE t == [i \in 0..0 |-> <<>>]
  <2>1. IsTexts(features, t, 0)
    BY DEF IsTexts
  <2> QED BY <1>1, <2>1
<1>3. ASSUME NEW k \in 1..n, k - 1 \in S PROVE k \in S
  <2>1. PICK t : IsTexts(features, t, k - 1)
    BY <1>3
  <2> DEFINE last == t[k - 1] \o Header(features, k) \o Block(features[k])
             u == [i \in 0..k |-> IF i = k THEN last ELSE t[i]]
  <2>2. last \in Seq(Line)
    <3>1. t[k - 1] \in Seq(Line)
      BY <2>1 DEF IsTexts
    <3>2. Header(features, k) \in Seq(Line) /\ Block(features[k]) \in Seq(Line)
      BY HeaderAndBlock
    <3> QED BY <3>1, <3>2
  <2>3. \A i \in 0..k - 1 : u[i] = t[i] /\ t[i] \in Seq(Line)
    BY <2>1 DEF IsTexts
  <2>4. u[k] = last
    OBVIOUS
  <2>5. u \in [0..k -> Seq(Line)]
    <3>1. ASSUME NEW i \in 0..k PROVE u[i] \in Seq(Line)
      <4>1. CASE i = k
        BY <4>1, <2>2, <2>4
      <4>2. CASE i # k
        <5>1. i \in 0..k - 1
          BY <4>2
        <5> QED BY <5>1, <2>3
      <4> QED BY <4>1, <4>2
    <3>2. u = [i \in 0..k |-> u[i]]
      OBVIOUS
    <3> HIDE DEF u
    <3> QED BY <3>1, <3>2
  <2>6. u[0] = <<>>
    BY <2>1, <2>3 DEF IsTexts
  <2>7. ASSUME NEW i \in 1..k
        PROVE  u[i] = u[i - 1] \o Header(features, i) \o Block(features[i])
    <3>1. CASE i = k
      <4>1. u[i - 1] = t[k - 1]
        BY <3>1, <2>3
      <4> QED BY <3>1, <4>1, <2>4
    <3>2. CASE i # k
      <4>1. i \in 1..k - 1 /\ u[i] = t[i] /\ u[i - 1] = t[i - 1]
        BY <3>2, <2>3
      <4> QED BY <4>1, <2>1 DEF IsTexts
    <3> QED BY <3>1, <3>2
  <2>8. IsTexts(features, u, k)
    <3> HIDE DEF u
    <3> QED BY <2>5, <2>6, <2>7 DEF IsTexts
  <2> QED BY <2>8
<1> HIDE DEF S, n
<1>4. n \in S
  <2>1. 0..n \subseteq S
    BY <1>1, <1>2, <1>3, OneByOne
  <2> QED BY <1>1, <2>1
<1> QED BY <1>4 DEF S, n

\* Texts is what it is defined to be.
LEMMA TextsDefined ==
    ASSUME NEW features \in Seq(Feature)
    PROVE  IsTexts(features, Texts(features), Len(features))
<1> DEFINE n == Len(features)
           Rec(t) == t = [i \in 0..n |-> IF i = 0 THEN <<>>
                                         ELSE t[i - 1] \o Header(features, i) \o Block(features[i])]
<1>1. n \in Nat
  OBVIOUS
<1>2. PICK t : IsTexts(features, t, n)
  BY TextsExist
<1>3. Rec(t)
  <2> DEFINE u == [i \in 0..n |-> IF i = 0 THEN <<>>
                                  ELSE t[i - 1] \o Header(features, i) \o Block(features[i])]
  <2>1. t \in [0..n -> Seq(Line)]
    BY <1>2 DEF IsTexts
  <2>2. ASSUME NEW i \in 0..n PROVE t[i] = u[i]
    <3>1. CASE i = 0
      BY <3>1, <1>2 DEF IsTexts
    <3>2. CASE i # 0
      <4>1. i \in 1..n
        BY <1>1, <3>2
      <4>2. u[i] = t[i - 1] \o Header(features, i) \o Block(features[i])
        BY <3>2, Zenon
      <4> QED BY <4>1, <4>2, <1>2, Zenon DEF IsTexts
    <3> QED BY <3>1, <3>2
  <2> QED BY <2>1, <2>2
<1>4. Texts(features) = CHOOSE v : Rec(v)
  BY DEF Texts
<1> HIDE DEF Rec
<1>5. Rec(Texts(features))
  BY <1>3, <1>4
<1> DEFINE v == Texts(features)
<1>6. /\ v[0] = <<>> /\ v = [i \in 0..n |-> v[i]]
      /\ \A i \in 1..n : v[i] = v[i - 1] \o Header(features, i) \o Block(features[i])
  <2>1. v = [i \in 0..n |-> IF i = 0 THEN <<>>
                            ELSE v[i - 1] \o Header(features, i) \o Block(features[i])]
    BY <1>5 DEF Rec
  <2> HIDE DEF v
  <2>2. 0 \in 0..n /\ \A i \in 1..n : i \in 0..n /\ i # 0
    BY <1>1
  <2>3. \A i \in 1..n : v[i] = v[i - 1] \o Header(features, i) \o Block(features[i])
    BY <2>1, <2>2, Zenon
  <2> QED BY <2>1, <2>2, <2>3
<1> HIDE DEF v
<1> DEFINE S == {i \in 0..n : v[i] \in Seq(Line)}
<1>7. 0 \in S
  BY <1>1, <1>6
<1>8. ASSUME NEW i \in 1..n, i - 1 \in S PROVE i \in S
  <2>1. v[i - 1] \in Seq(Line)
    BY <1>8
  <2>2. Header(features, i) \in Seq(Line) /\ Block(features[i]) \in Seq(Line)
    BY HeaderAndBlock
  <2>3. v[i - 1] \o Header(features, i) \o Block(features[i]) \in Seq(Line)
    BY <2>1, <2>2, ConcatProperties
  <2>4. v[i] \in Seq(Line)
    BY <1>6, <2>3, Zenon
  <2> QED BY <1>1, <2>4
<1> HIDE DEF S
<1>9. 0..n \subseteq S
  BY <1>1, <1>7, <1>8, OneByOne
<1>10. v \in [0..n -> Seq(Line)]
  BY <1>6, <1>9 DEF S
<1> QED BY <1>6, <1>10 DEF IsTexts, v

LEMMA Joined ==
    ASSUME NEW s \in Seq(Line), NEW b \in Seq(Line)
    PROVE  /\ s \o b \in Seq(Line) /\ Len(s \o b) = Len(s) + Len(b)
           /\ \A j \in 1..Len(s) : (s \o b)[j] = s[j]
           /\ \A j \in 1..Len(b) : (s \o b)[Len(s) + j] = b[j]
<1>1. Len(s) \in Nat /\ Len(b) \in Nat
  OBVIOUS
<1>2. /\ s \o b \in Seq(Line) /\ Len(s \o b) = Len(s) + Len(b)
      /\ \A i \in 1..Len(s) + Len(b) :
           (s \o b)[i] = IF i <= Len(s) THEN s[i] ELSE b[i - Len(s)]
  BY ConcatProperties
<1>3. \A j \in 1..Len(s) : (s \o b)[j] = s[j]
  BY <1>1, <1>2
<1>4. \A j \in 1..Len(b) : (s \o b)[Len(s) + j] = b[j]
  BY <1>1, <1>2
<1> QED BY <1>2, <1>3, <1>4

\* A text with one more block begins with the same lines, and ends with the block.
LEMMA OneMoreBlock ==
    ASSUME NEW features \in Seq(Feature), NEW k \in 1..Len(features), NEW s \in Seq(Line)
    PROVE  LET text == More(features, k, s)
           IN  /\ text \in Seq(Line)
               /\ Len(text) \in {Len(s) + 4, Len(s) + 5}
               /\ \A j \in 1..Len(s) : text[j] = s[j]
               /\ text[Len(text) - 3] = [kind |-> "separator"]
               /\ text[Len(text) - 2] = [kind |-> "geom"]
               /\ text[Len(text) - 1] =
                    [kind |-> IF features[k].readable THEN "value" ELSE "null"]
               /\ text[Len(text)] = [kind |-> "separator"]
               /\ IF Len(text) = Len(s) + 4
                  THEN k > 1 /\ features[k - 1].layer = features[k].layer
                  ELSE text[Len(text) - 4] = [kind |-> "header", layer |-> features[k].layer]
<1> DEFINE h == Header(features, k)
           b == Block(features[k])
           t == s \o h
           text == More(features, k, s)
<1>1. /\ h \in Seq(Line) /\ b \in Seq(Line) /\ Len(h) \in {0, 1} /\ Len(b) = 4
      /\ Len(h) = 0 => k > 1 /\ features[k - 1].layer = features[k].layer
      /\ Len(h) = 1 => h[1] = [kind |-> "header", layer |-> features[k].layer]
      /\ b[1] = [kind |-> "separator"] /\ b[2] = [kind |-> "geom"]
      /\ b[3] = [kind |-> IF features[k].readable THEN "value" ELSE "null"]
      /\ b[4] = [kind |-> "separator"]
  BY HeaderAndBlock
<1>2. text = t \o b
  BY DEF More
<1> HIDE DEF h, b, text
<1>3. /\ t \in Seq(Line) /\ Len(t) = Len(s) + Len(h)
      /\ \A j \in 1..Len(s) : t[j] = s[j]
      /\ \A j \in 1..Len(h) : t[Len(s) + j] = h[j]
  BY <1>1, Joined
<1> HIDE DEF t
<1>4. /\ text \in Seq(Line) /\ Len(text) = Len(t) + Len(b)
      /\ \A j \in 1..Len(t) : text[j] = t[j]
      /\ \A j \in 1..Len(b) : text[Len(t) + j] = b[j]
  <2>1. /\ t \o b \in Seq(Line) /\ Len(t \o b) = Len(t) + Len(b)
        /\ \A j \in 1..Len(t) : (t \o b)[j] = t[j]
        /\ \A j \in 1..Len(b) : (t \o b)[Len(t) + j] = b[j]
    BY <1>1, <1>3, Joined
  <2> QED BY <1>2, <2>1, Zenon
<1>5. Len(s) \in Nat /\ Len(t) \in Nat
  BY <1>3
<1>6. /\ text[Len(text) - 3] = b[1] /\ text[Len(text) - 2] = b[2]
      /\ text[Len(text) - 1] = b[3] /\ text[Len(text)] = b[4]
  <2>1. /\ text[Len(t) + 1] = b[1] /\ text[Len(t) + 2] = b[2]
        /\ text[Len(t) + 3] = b[3] /\ text[Len(t) + 4] = b[4]
    BY <1>1, <1>4
  <2>2. /\ Len(text) - 3 = Len(t) + 1 /\ Len(text) - 2 = Len(t) + 2
        /\ Len(text) - 1 = Len(t) + 3 /\ Len(text) = Len(t) + 4
    BY <1>1, <1>4, <1>5
  <2> QED BY <2>1, <2>2
<1>7. ASSUME NEW j \in 1..Len(s) PROVE text[j] = s[j]
  <2>1. j \in 1..Len(t)
    BY <1>1, <1>3, <1>5
  <2> QED BY <2>1, <1>3, <1>4
<1>8. Len(h) = 1 => text[Len(text) - 4] = h[1]
  <2> SUFFICES ASSUME Len(h) = 1 PROVE text[Len(text) - 4] = h[1]
    OBVIOUS
  <2>1. Len(text) - 4 = Len(s) + 1 /\ Len(s) + 1 \in 1..Len(t)
    BY <1>1, <1>3, <1>4, <1>5
  <2>2. t[Len(s) + 1] = h[1]
    BY <1>3
  <2> QED BY <2>1, <2>2, <1>4
<1>9. Len(text) = Len(s) + Len(h) + 4
  BY <1>1, <1>3, <1>4, <1>5
<1>10. CASE Len(h) = 0
  BY <1>1, <1>4, <1>5, <1>6, <1>7, <1>9, <1>10 DEF text
<1>11. CASE Len(h) = 1
  BY <1>1, <1>4, <1>5, <1>6, <1>7, <1>8, <1>9, <1>11 DEF text
<1> QED BY <1>1, <1>10, <1>11

\* Where the blocks of a text end.
LEMMA TextHasEnds ==
    ASSUME NEW features \in Seq(Feature), features # <<>>
    PROVE  /\ PlainText(features) \in Seq(Line)
           /\ \E e : Ends(features, PlainText(features), e, Len(features))
<1> DEFINE n == Len(features)
           t == Texts(features)
           S == {k \in 0..n : \E e : Ends(features, t[k], e, k)}
<1>1. n \in Nat
  OBVIOUS
<1>2. IsTexts(features, t, n)
  BY TextsDefined
<1> HIDE DEF t
<1>3. 0 \in S
  <2> DEFINE e == [i \in 0..0 |-> 0]
  <2>1. t[0] = <<>> /\ Len(t[0]) = 0
    BY <1>2 DEF IsTexts
  <2>2. Ends(features, t[0], e, 0)
    BY <2>1 DEF Ends
  <2> QED BY <1>1, <2>2
<1>4. ASSUME NEW k \in 1..n, k - 1 \in S PROVE k \in S
  <2>1. PICK e : Ends(features, t[k - 1], e, k - 1)
    BY <1>4
  <2> DEFINE s == t[k - 1]
             text == More(features, k, s)
             f == [i \in 0..k |-> IF i = k THEN Len(text) ELSE e[i]]
  <2>2. s \in Seq(Line) /\ t[k] = text
    <3>1. k - 1 \in 0..n /\ k \in 1..n
      BY <1>1
    <3> QED BY <1>2, <3>1 DEF IsTexts, More
  <2> HIDE DEF s, text
  <2>3. /\ text \in Seq(Line)
        /\ Len(text) \in {Len(s) + 4, Len(s) + 5}
        /\ \A j \in 1..Len(s) : text[j] = s[j]
        /\ text[Len(text) - 3] = [kind |-> "separator"]
        /\ text[Len(text) - 2] = [kind |-> "geom"]
        /\ text[Len(text) - 1] = [kind |-> IF features[k].readable THEN "value" ELSE "null"]
        /\ text[Len(text)] = [kind |-> "separator"]
        /\ IF Len(text) = Len(s) + 4
           THEN k > 1 /\ features[k - 1].layer = features[k].layer
           ELSE text[Len(text) - 4] = [kind |-> "header", layer |-> features[k].layer]
    BY <2>2, OneMoreBlock DEF text
  <2>4. /\ \A i \in 0..k - 1 : f[i] = e[i] /\ e[i] \in Nat /\ e[i] <= Len(s)
        /\ e[0] = 0 /\ e[k - 1] = Len(s) /\ f[k] = Len(text)
        /\ Len(s) \in Nat /\ Len(text) \in Nat
        /\ \A i \in 1..k - 1 : Shape(features, s, e, i)
    BY <2>1, <2>2, <2>3 DEF Ends, s
  <2>5. f = [i \in 0..k |-> f[i]] /\ 0 \in 0..k - 1
    OBVIOUS
  <2> HIDE DEF f
  <2>6. f \in [0..k -> Nat] /\ f[0] = 0 /\ \A i \in 0..k : f[i] <= Len(text)
    <3>1. Len(s) <= Len(text)
      BY <2>3, <2>4
    <3>2. ASSUME NEW i \in 0..k PROVE f[i] \in Nat /\ f[i] <= Len(text)
      <4>1. CASE i = k
        BY <4>1, <2>4
      <4>2. CASE i # k
        <5>1. i \in 0..k - 1
          BY <4>2
        <5> QED BY <5>1, <3>1, <2>4
      <4> QED BY <4>1, <4>2
    <3> QED BY <3>2, <2>4, <2>5
  <2>7. ASSUME NEW i \in 1..k PROVE Shape(features, text, f, i)
    <3>1. CASE i = k
      <4>1. f[i] = Len(text) /\ f[i - 1] = Len(s)
        BY <3>1, <2>4
      <4> QED BY <3>1, <4>1, <2>3 DEF Shape
    <3>2. CASE i # k
      <4>1. /\ i \in 1..k - 1 /\ i - 1 \in 0..k - 1 /\ f[i] = e[i] /\ f[i - 1] = e[i - 1]
            /\ e[i] \in Nat /\ e[i - 1] \in Nat /\ e[i] <= Len(s)
        BY <3>2, <2>4
      <4>2. Shape(features, s, e, i)
        BY <4>1, <2>4
      <4>3. e[i] \in {e[i - 1] + 4, e[i - 1] + 5}
        BY <4>2 DEF Shape
      <4>4. /\ text[e[i] - 3] = s[e[i] - 3] /\ text[e[i] - 2] = s[e[i] - 2]
            /\ text[e[i] - 1] = s[e[i] - 1] /\ text[e[i]] = s[e[i]]
            /\ e[i] # e[i - 1] + 4 => text[e[i] - 4] = s[e[i] - 4]
        <5>1. /\ e[i] - 3 \in 1..Len(s) /\ e[i] - 2 \in 1..Len(s)
              /\ e[i] - 1 \in 1..Len(s) /\ e[i] \in 1..Len(s)
              /\ e[i] # e[i - 1] + 4 => e[i] - 4 \in 1..Len(s)
          <6>1. ASSUME NEW x \in Nat, NEW y \in Nat, NEW l \in Nat,
                       x \in {y + 4, y + 5}, x <= l
                PROVE  /\ x - 3 \in 1..l /\ x - 2 \in 1..l /\ x - 1 \in 1..l /\ x \in 1..l
                       /\ x # y + 4 => x - 4 \in 1..l
            BY <6>1
          <6>2. Len(s) \in Nat
            BY <2>4
          <6> QED BY <4>1, <4>3, <6>1, <6>2
        <5> QED BY <5>1, <2>3
      <4> QED BY <4>1, <4>2, <4>4 DEF Shape
    <3> QED BY <3>1, <3>2
  <2>8. Ends(features, t[k], f, k)
    BY <2>2, <2>4, <2>6, <2>7 DEF Ends
  <2> QED BY <1>1, <2>8
<1> HIDE DEF n, S
<1>5. n \in S
  <2>1. 0..n \subseteq S
    BY <1>1, <1>3, <1>4, OneByOne
  <2> QED BY <1>1, <2>1
<1>6. t[n] \in Seq(Line) /\ \E e : Ends(features, t[n], e, n)
  BY <1>1, <1>2, <1>5 DEF S, IsTexts
<1>7. PlainText(features) = t[n]
  BY DEF PlainText, t, n
<1> QED BY <1>6, <1>7 DEF n

----------------------------------------------------------------------------
(* What parseWMSPlainText finds in such a text.                            *)

Parsed(features, text, e) ==
    /\ features \in Seq(Feature) /\ text \in Seq(Line)
    /\ Ends(features, text, e, Len(features))

LEMMA EndsTyped ==
    ASSUME NEW features, NEW text, NEW e, Parsed(features, text, e)
    PROVE  /\ Len(features) \in Nat /\ Len(text) \in Nat /\ DOMAIN text = 1..Len(text)
           /\ e[0] = 0 /\ e[Len(features)] = Len(text)
           /\ \A i \in 0..Len(features) : e[i] \in Nat /\ e[i] <= Len(text)
           /\ \A i \in 1..Len(features) :
                /\ e[i] \in Nat /\ e[i - 1] \in Nat /\ e[i] <= Len(text)
                /\ (e[i] = e[i - 1] + 4 \/ e[i] = e[i - 1] + 5)
<1>1. /\ Len(features) \in Nat /\ Len(text) \in Nat /\ DOMAIN text = 1..Len(text)
      /\ e \in [0..Len(features) -> Nat] /\ e[0] = 0 /\ e[Len(features)] = Len(text)
      /\ \A i \in 0..Len(features) : e[i] <= Len(text)
  BY DEF Parsed, Ends
<1>2. ASSUME NEW i \in 1..Len(features)
      PROVE  /\ e[i] \in Nat /\ e[i - 1] \in Nat /\ e[i] <= Len(text)
             /\ (e[i] = e[i - 1] + 4 \/ e[i] = e[i - 1] + 5)
  <2>1. i \in 0..Len(features) /\ i - 1 \in 0..Len(features)
    BY <1>1
  <2>2. Shape(features, text, e, i)
    BY DEF Parsed, Ends
  <2>3. e[i] = e[i - 1] + 4 \/ e[i] = e[i - 1] + 5
    BY <2>2 DEF Shape
  <2> QED BY <1>1, <2>1, <2>3
<1> QED BY <1>1, <1>2

\* Which lines of a block are separators, headers and values.
LEMMA LinesOfBlock ==
    ASSUME NEW features, NEW text, NEW e, Parsed(features, text, e),
           NEW i \in 1..Len(features), NEW k \in Nat, e[i - 1] < k, k <= e[i]
    PROVE  /\ (text[k].kind = "separator") <=> (k = e[i] - 3 \/ k = e[i])
           /\ (text[k].kind = "header") <=> (k = e[i] - 4)
           /\ k = e[i] - 4 => text[k].layer = features[i].layer
           /\ (text[k].kind = "value") <=> (k = e[i] - 1 /\ features[i].readable)
<1>1. e[i] \in Nat /\ e[i - 1] \in Nat /\ (e[i] = e[i - 1] + 4 \/ e[i] = e[i - 1] + 5)
  BY EndsTyped
<1>2. Shape(features, text, e, i)
  BY DEF Parsed, Ends
<1>3. \/ k = e[i] - 4 /\ e[i] # e[i - 1] + 4
      \/ k = e[i] - 3 \/ k = e[i] - 2 \/ k = e[i] - 1 \/ k = e[i]
  <2>1. ASSUME NEW x \in Nat, NEW y \in Nat, x = y + 4 \/ x = y + 5, y < k, k <= x
        PROVE  (k = x - 4 /\ x # y + 4) \/ k = x - 3 \/ k = x - 2 \/ k = x - 1 \/ k = x
    BY <2>1
  <2> QED BY <1>1, <2>1
<1>4. CASE k = e[i] - 4 /\ e[i] # e[i - 1] + 4
  <2>1. text[k] = [kind |-> "header", layer |-> features[i].layer]
    BY <1>2, <1>4 DEF Shape
  <2> QED BY <1>1, <1>4, <2>1
<1>5. CASE k = e[i] - 3
  <2>1. text[k] = [kind |-> "separator"]
    BY <1>2, <1>5 DEF Shape
  <2> QED BY <1>1, <1>5, <2>1
<1>6. CASE k = e[i] - 2
  <2>1. text[k] = [kind |-> "geom"]
    BY <1>2, <1>6 DEF Shape
  <2>2. k # e[i] /\ k # e[i] - 3 /\ k # e[i] - 4 /\ k # e[i] - 1
    BY <1>1, <1>6
  <2> QED BY <2>1, <2>2
<1>7. CASE k = e[i] - 1
  <2>1. text[k] = [kind |-> IF features[i].readable THEN "value" ELSE "null"]
    BY <1>2, <1>7 DEF Shape
  <2> QED BY <1>1, <1>7, <2>1
<1>8. CASE k = e[i]
  <2>1. text[k] = [kind |-> "separator"]
    BY <1>2, <1>8 DEF Shape
  <2> QED BY <1>1, <1>8, <2>1
<1> QED BY <1>3, <1>4, <1>5, <1>6, <1>7, <1>8

\* Every line is in a block.
LEMMA BlocksCover ==
    ASSUME NEW features, NEW text, NEW e, Parsed(features, text, e), NEW k \in 1..Len(text)
    PROVE  \E i \in 1..Len(features) : e[i - 1] < k /\ k <= e[i]
<1> DEFINE n == Len(features)
           S == {j \in 0..n : k <= e[j] => \E i \in 1..n : e[i - 1] < k /\ k <= e[i]}
<1>1. n \in Nat /\ e[0] = 0 /\ e[n] = Len(text) /\ Len(text) \in Nat
  BY EndsTyped
<1>2. 0 \in S
  BY <1>1
<1>3. ASSUME NEW j \in 1..n, j - 1 \in S PROVE j \in S
  <2>1. e[j] \in Nat /\ e[j - 1] \in Nat
    BY EndsTyped
  <2> QED BY <1>1, <1>3, <2>1
<1> HIDE DEF S, n
<1>4. n \in S
  <2>1. 0..n \subseteq S
    BY <1>1, <1>2, <1>3, OneByOne
  <2> QED BY <1>1, <2>1
<1> QED BY <1>1, <1>4 DEF S, n

\* Later blocks end later.
LEMMA EndsGrow ==
    ASSUME NEW features, NEW text, NEW e, Parsed(features, text, e),
           NEW i \in 0..Len(features), NEW j \in 0..Len(features), i < j
    PROVE  e[i] < e[j]
<1> DEFINE n == Len(features)
           S == {k \in 0..n : i < k => e[i] < e[k]}
<1>1. n \in Nat /\ i \in Nat
  BY EndsTyped
<1>2. 0 \in S
  BY <1>1
<1>3. ASSUME NEW k \in 1..n, k - 1 \in S PROVE k \in S
  <2>1. /\ e[k] \in Nat /\ e[k - 1] \in Nat /\ e[i] \in Nat
        /\ (e[k] = e[k - 1] + 4 \/ e[k] = e[k - 1] + 5)
    BY EndsTyped
  <2>2. i < k => i = k - 1 \/ i < k - 1
    BY <1>1
  <2> QED BY <1>1, <1>3, <2>1, <2>2
<1> HIDE DEF S, n
<1>4. j \in S
  <2>1. 0..n \subseteq S
    BY <1>1, <1>2, <1>3, OneByOne
  <2> QED BY <2>1 DEF n
<1> QED BY <1>4 DEF S

Separators(text, k) == {j \in 1..k : text[j].kind = "separator"}

\* The separators up to line y, and those after it, up to line x.
LEMMA MoreSeparators ==
    ASSUME NEW text, NEW x \in Nat, NEW y \in Nat, y <= x
    PROVE  Separators(text, x) =
             Separators(text, y) \cup {k \in y + 1..x : text[k].kind = "separator"}
<1>1. 1..x = 1..y \cup y + 1..x
  OBVIOUS
<1> QED BY <1>1 DEF Separators

\* Two separators per block.
LEMMA CountSeparators ==
    ASSUME NEW features, NEW text, NEW e, Parsed(features, text, e),
           NEW i \in 0..Len(features)
    PROVE  IsFiniteSet(Separators(text, e[i])) /\ Cardinality(Separators(text, e[i])) = 2 * i
<1> DEFINE n == Len(features)
           Count(j) == /\ IsFiniteSet(Separators(text, e[j]))
                       /\ Cardinality(Separators(text, e[j])) = 2 * j
           S == {j \in 0..n : Count(j)}
<1>1. n \in Nat /\ e[0] = 0
  BY EndsTyped
<1>2. Count(0)
  BY <1>1, FS_EmptySet DEF Separators
<1>3. ASSUME NEW j \in 1..n, Count(j - 1) PROVE Count(j)
  <2>1. e[j] \in Nat /\ e[j - 1] \in Nat /\ (e[j] = e[j - 1] + 4 \/ e[j] = e[j - 1] + 5)
    BY EndsTyped
  <2> DEFINE old == Separators(text, e[j - 1])
  <2>2. Separators(text, e[j]) = (old \cup {e[j] - 3}) \cup {e[j]}
    <3> DEFINE x == e[j]
               y == e[j - 1]
    <3>1. ASSUME NEW k \in Nat, y < k, k <= x
          PROVE  (text[k].kind = "separator") <=> (k = x - 3 \/ k = x)
      BY <3>1, LinesOfBlock
    <3>2. x \in Nat /\ y \in Nat /\ y <= x - 4
      BY <2>1
    <3> HIDE DEF x, y
    <3>3. {k \in y + 1..x : text[k].kind = "separator"} = {x - 3, x}
      <4>1. \A k \in y + 1..x : text[k].kind = "separator" <=> k \in {x - 3, x}
        BY <3>1, <3>2
      <4>2. {x - 3, x} \subseteq y + 1..x
        BY <3>2
      <4> QED BY <4>1, <4>2
    <3>4. y <= x
      BY <3>2
    <3>5. Separators(text, x) = Separators(text, y) \cup {x - 3, x}
      BY <3>2, <3>3, <3>4, MoreSeparators
    <3> QED BY <3>5 DEF x, y
  <2>3. IsFiniteSet(old) /\ Cardinality(old) = 2 * (j - 1)
    BY <1>3
  <2>4. e[j] - 3 \notin old /\ e[j] \notin old \cup {e[j] - 3}
    BY <2>1 DEF Separators
  <2> HIDE DEF old
  <2>5. /\ IsFiniteSet(old \cup {e[j] - 3})
        /\ Cardinality(old \cup {e[j] - 3}) = 2 * (j - 1) + 1
    BY <2>3, <2>4, FS_AddElement
  <2>6. /\ IsFiniteSet((old \cup {e[j] - 3}) \cup {e[j]})
        /\ Cardinality((old \cup {e[j] - 3}) \cup {e[j]}) = 2 * (j - 1) + 2
    <3>1. 2 * (j - 1) + 1 + 1 = 2 * (j - 1) + 2
      OBVIOUS
    <3> DEFINE more == old \cup {e[j] - 3}
    <3>2. IsFiniteSet(more) /\ Cardinality(more) = 2 * (j - 1) + 1 /\ e[j] \notin more
      BY <2>4, <2>5
    <3> HIDE DEF more
    <3>3. /\ IsFiniteSet(more \cup {e[j]})
          /\ Cardinality(more \cup {e[j]}) = Cardinality(more) + 1
      BY <3>2, FS_AddElement
    <3> QED BY <3>1, <3>2, <3>3 DEF more
  <2>7. 2 * (j - 1) + 2 = 2 * j
    OBVIOUS
  <2> QED BY <2>2, <2>6, <2>7
<1> HIDE DEF Count, n
<1>4. 0..n \subseteq S
  <2>1. 0 \in S
    BY <1>1, <1>2
  <2>2. ASSUME NEW j \in 1..n, j - 1 \in S PROVE j \in S
    BY <1>1, <1>3, <2>2
  <2> HIDE DEF S
  <2> QED BY <1>1, <2>1, <2>2, OneByOne
<1> QED BY <1>4 DEF Count, n

\* A separator closes a block exactly where one ends.
LEMMA ClosesAtEnds ==
    ASSUME NEW features, NEW text, NEW e, Parsed(features, text, e), NEW k \in 1..Len(text)
    PROVE  Closes(text, k) <=> \E i \in 1..Len(features) : k = e[i]
<1>1. PICK i \in 1..Len(features) : e[i - 1] < k /\ k <= e[i]
  BY BlocksCover
<1>2. /\ Len(features) \in Nat /\ k \in Nat
      /\ e[i] \in Nat /\ e[i - 1] \in Nat /\ (e[i] = e[i - 1] + 4 \/ e[i] = e[i - 1] + 5)
  BY EndsTyped
<1>3. /\ IsFiniteSet(Separators(text, e[i]))
      /\ Cardinality(Separators(text, e[i])) = 2 * i
      /\ IsFiniteSet(Separators(text, e[i - 1]))
      /\ Cardinality(Separators(text, e[i - 1])) = 2 * (i - 1)
  BY CountSeparators
<1>4. Closes(text, k) <=> /\ text[k].kind = "separator"
                          /\ Cardinality(Separators(text, k)) % 2 = 0
  BY DEF Closes, Separators
<1>5. CASE k = e[i]
  <2>1. text[k].kind = "separator"
    BY <1>1, <1>2, <1>5, LinesOfBlock
  <2>2. (2 * i) % 2 = 0
    OBVIOUS
  <2> QED BY <1>3, <1>4, <1>5, <2>1, <2>2
<1>6. CASE k = e[i] - 3
  <2>1. Separators(text, k) = Separators(text, e[i - 1]) \cup {k}
    <3> DEFINE y == e[i - 1]
    <3>1. y \in Nat /\ y < k /\ k <= e[i] /\ k # e[i]
      BY <1>1, <1>2, <1>6
    <3>2. {j \in y + 1..k : text[j].kind = "separator"} = {k}
      <4>1. ASSUME NEW j \in y + 1..k PROVE text[j].kind = "separator" <=> j = k
        <5>1. j \in Nat /\ y < j /\ j <= e[i] /\ j # e[i]
          BY <1>2, <3>1
        <5> QED BY <1>6, <5>1, LinesOfBlock
      <4> HIDE DEF y
      <4>2. k \in y + 1..k
        BY <1>2, <3>1
      <4> QED BY <4>1, <4>2
    <3> HIDE DEF y
    <3>3. y <= k
      BY <1>2, <3>1
    <3>4. Separators(text, k) = Separators(text, y) \cup {k}
      BY <1>2, <3>1, <3>2, <3>3, MoreSeparators
    <3> QED BY <3>4 DEF y
  <2>2. k \notin Separators(text, e[i - 1])
    BY <1>1, <1>2 DEF Separators
  <2>3. Cardinality(Separators(text, k)) = 2 * (i - 1) + 1
    BY <1>3, <2>1, <2>2, FS_AddElement
  <2>4. (2 * (i - 1) + 1) % 2 = 1
    OBVIOUS
  <2>5. ~ Closes(text, k)
    BY <1>4, <2>3, <2>4
  <2>6. ASSUME NEW j \in 1..Len(features), k = e[j] PROVE FALSE
    <3>1. e[j - 1] \in Nat /\ j - 1 \in 0..Len(features) /\ i - 1 \in 0..Len(features)
      BY <1>2, EndsTyped
    <3>2. CASE j < i
      <4>1. j = i - 1 \/ j < i - 1
        BY <3>2
      <4>2. e[j] <= e[i - 1]
        <5>1. CASE j = i - 1
          BY <1>2, <5>1
        <5>2. CASE j < i - 1
          <6>1. e[j] < e[i - 1]
            BY <3>1, <5>2, EndsGrow
          <6> QED BY <1>2, <2>6, <6>1
        <5> QED BY <4>1, <5>1, <5>2
      <4> QED BY <1>1, <1>2, <2>6, <4>2
    <3>3. CASE j = i
      BY <1>2, <1>6, <2>6, <3>3
    <3>4. CASE i < j
      <4>1. e[i] < e[j]
        BY <3>4, EndsGrow
      <4> QED BY <1>1, <1>2, <2>6, <4>1
    <3> QED BY <3>2, <3>3, <3>4
  <2> QED BY <2>5, <2>6
<1>7. CASE k # e[i] /\ k # e[i] - 3
  <2>1. text[k].kind # "separator"
    BY <1>1, <1>2, <1>7, LinesOfBlock
  <2>2. ASSUME NEW j \in 1..Len(features), k = e[j] PROVE FALSE
    <3>1. e[j] \in Nat /\ e[j - 1] \in Nat /\ (e[j] = e[j - 1] + 4 \/ e[j] = e[j - 1] + 5)
      BY EndsTyped
    <3>2. text[e[j]] = [kind |-> "separator"]
      BY DEF Parsed, Ends, Shape
    <3> QED BY <2>1, <2>2, <3>2
  <2> QED BY <1>4, <2>1, <2>2
<1> QED BY <1>5, <1>6, <1>7

\* A block has values if its feature is readable: between the geometry and the end.
LEMMA PropsOfBlock ==
    ASSUME NEW features, NEW text, NEW e, Parsed(features, text, e),
           NEW i \in 1..Len(features)
    PROVE  props(text, e[i]) # {} <=> features[i].readable
<1>1. e[i] \in Nat /\ e[i - 1] \in Nat /\ (e[i] = e[i - 1] + 4 \/ e[i] = e[i - 1] + 5)
  BY EndsTyped
<1>2. ASSUME NEW k \in Nat, e[i - 1] < k, k <= e[i]
      PROVE  /\ (text[k].kind = "separator") <=> (k = e[i] - 3 \/ k = e[i])
             /\ (text[k].kind = "value") <=> (k = e[i] - 1 /\ features[i].readable)
  BY <1>2, LinesOfBlock
<1>3. ASSUME features[i].readable PROVE e[i] - 1 \in props(text, e[i])
  <2>1. e[i] - 1 \in 1..e[i] - 1 /\ text[e[i] - 1].kind = "value"
    <3>1. /\ e[i] - 1 \in Nat /\ e[i - 1] < e[i] - 1 /\ e[i] - 1 <= e[i]
          /\ e[i] - 1 \in 1..e[i] - 1
      BY <1>1
    <3> QED BY <1>2, <1>3, <3>1
  <2>2. \A j \in (e[i] - 1)..(e[i] - 1) : text[j].kind # "separator"
    BY <1>1, <2>1
  <2> QED BY <2>1, <2>2 DEF props
<1>4. ASSUME NEW k \in props(text, e[i]) PROVE features[i].readable
  <2>1. /\ k \in 1..e[i] - 1 /\ text[k].kind = "value"
        /\ \A j \in k..e[i] - 1 : text[j].kind # "separator"
    BY DEF props
  <2>2. text[e[i] - 3].kind = "separator"
    <3>1. e[i] - 3 \in Nat /\ e[i - 1] < e[i] - 3 /\ e[i] - 3 <= e[i]
      BY <1>1
    <3> QED BY <1>2, <3>1
  <2>3. ~ (k <= e[i] - 3)
    <3>1. k <= e[i] - 3 => e[i] - 3 \in k..e[i] - 1
      BY <1>1, <2>1
    <3> QED BY <2>1, <2>2, <3>1
  <2>4. k \in Nat /\ e[i - 1] < k /\ k <= e[i]
    <3>1. k \in Nat /\ k <= e[i]
      BY <1>1, <2>1
    <3>2. e[i - 1] < e[i] - 3
      BY <1>1
    <3> QED BY <1>1, <2>3, <3>1, <3>2
  <2> QED BY <1>2, <2>1, <2>4
<1> QED BY <1>3, <1>4

\* k is the last header up to line b.
LastHeader(text, b, k) ==
    /\ k \in 1..b /\ text[k].kind = "header"
    /\ \A j \in 1..b : text[j].kind = "header" => j <= k

LEMMA HeaderOfBlock ==
    ASSUME NEW features, NEW text, NEW e, Parsed(features, text, e),
           NEW i \in 1..Len(features)
    PROVE  \E k : LastHeader(text, e[i], k) /\ text[k].layer = features[i].layer
<1> DEFINE n == Len(features)
           Named(j) == \E k : LastHeader(text, e[j], k) /\ text[k].layer = features[j].layer
           S == {j \in 0..n : j > 0 => Named(j)}
<1>1. n \in Nat
  BY EndsTyped
<1>2. 0 \in S
  BY <1>1
<1>3. ASSUME NEW j \in 1..n, j - 1 \in S PROVE Named(j)
  <2>1. e[j] \in Nat /\ e[j - 1] \in Nat /\ (e[j] = e[j - 1] + 4 \/ e[j] = e[j - 1] + 5)
    BY EndsTyped
  <2>2. ASSUME NEW k \in Nat, e[j - 1] < k, k <= e[j]
        PROVE  /\ (text[k].kind = "header") <=> (k = e[j] - 4)
               /\ k = e[j] - 4 => text[k].layer = features[j].layer
    BY <2>2, LinesOfBlock
  <2>3. CASE e[j] = e[j - 1] + 5
    <3> DEFINE k == e[j] - 4
    <3>1. k \in Nat /\ e[j - 1] < k /\ k <= e[j] /\ k \in 1..e[j]
      BY <2>1, <2>3
    <3>2. text[k].kind = "header" /\ text[k].layer = features[j].layer
      BY <2>2, <3>1
    <3>3. ASSUME NEW i1 \in 1..e[j], text[i1].kind = "header" PROVE i1 <= k
      <4>1. CASE i1 <= e[j - 1]
        BY <2>1, <2>3, <4>1
      <4>2. CASE ~ (i1 <= e[j - 1])
        <5>1. i1 = e[j] - 4
          BY <2>1, <2>2, <3>3, <4>2
        <5> QED BY <2>1, <5>1
      <4> QED BY <4>1, <4>2
    <3> HIDE DEF k
    <3> QED BY <3>1, <3>2, <3>3 DEF LastHeader
  <2>4. CASE e[j] = e[j - 1] + 4
    <3>1. j > 1 /\ features[j - 1].layer = features[j].layer
      BY <2>1, <2>4 DEF Parsed, Ends, Shape
    <3>2. PICK k : LastHeader(text, e[j - 1], k) /\ text[k].layer = features[j - 1].layer
      BY <1>3, <3>1
    <3>3. k \in 1..e[j] /\ text[k].kind = "header"
      BY <2>1, <2>4, <3>2 DEF LastHeader
    <3>4. ASSUME NEW i1 \in 1..e[j], text[i1].kind = "header" PROVE i1 <= k
      <4>1. CASE i1 <= e[j - 1]
        BY <2>1, <3>2, <3>4, <4>1 DEF LastHeader
      <4>2. CASE ~ (i1 <= e[j - 1])
        <5>1. i1 = e[j] - 4
          BY <2>1, <2>2, <3>4, <4>2
        <5> QED BY <2>1, <2>4, <4>2, <5>1
      <4> QED BY <4>1, <4>2
    <3> QED BY <3>1, <3>2, <3>3, <3>4 DEF LastHeader
  <2> QED BY <2>1, <2>3, <2>4
<1> HIDE DEF Named, n
<1>4. 0..n \subseteq S
  <2>1. ASSUME NEW j \in 1..n, j - 1 \in S PROVE j \in S
    BY <1>1, <1>3, <2>1
  <2> HIDE DEF S
  <2> QED BY <1>1, <1>2, <2>1, OneByOne
<1> QED BY <1>4 DEF Named, n

LEMMA LayerOfBlock ==
    ASSUME NEW features, NEW text, NEW e, Parsed(features, text, e),
           NEW i \in 1..Len(features)
    PROVE  currentLayer(text, e[i]) = features[i].layer
<1>1. PICK k : LastHeader(text, e[i], k) /\ text[k].layer = features[i].layer
  BY HeaderOfBlock
<1> DEFINE headers == {j \in 1..e[i] : text[j].kind = "header"}
           last == CHOOSE j \in headers : \A h \in headers : h <= j
<1>2. k \in headers /\ \A h \in headers : h <= k
  BY <1>1 DEF LastHeader
<1>3. last \in headers /\ \A h \in headers : h <= last
  <2> HIDE DEF headers
  <2> QED BY <1>2
<1>4. e[i] \in Nat
  BY EndsTyped
<1>5. last \in Int /\ k \in Int /\ last <= k /\ k <= last
  <2>1. headers \subseteq Int
    BY <1>4
  <2> HIDE DEF headers, last
  <2> QED BY <1>2, <1>3, <2>1
<1>6. currentLayer(text, e[i]) = text[last].layer
  BY DEF currentLayer
<1> HIDE DEF last
<1>7. last = k
  BY <1>5
<1> QED BY <1>1, <1>6, <1>7

\* The readable features of a layer.
Readable(features, l) ==
    {i \in DOMAIN features : features[i] = [layer |-> l, readable |-> TRUE]}

\* What the parser finds: as many features of each layer as there are readable ones, and
\* none of another layer.
LEMMA ParserCounts ==
    ASSUME NEW features, NEW text, NEW e, Parsed(features, text, e), NEW l
    PROVE  LET fs == {f \in parseWMSPlainText(text) : f.layer = l}
           IN  /\ IsFiniteSet(fs)
               /\ Cardinality(fs) = Cardinality(Readable(features, l))
<1> DEFINE n == Len(features)
           ends == {e[i] : i \in {j \in 1..n : features[j].readable}}
           Idx(b) == Cardinality({c \in ends : c < b})
           fs == {f \in parseWMSPlainText(text) : f.layer = l}
           R == Readable(features, l)
           G == [i \in R |-> [layer |-> l, featureIdx |-> Idx(e[i])]]
<1>1. /\ n \in Nat /\ Len(text) \in Nat /\ DOMAIN text = 1..Len(text)
      /\ DOMAIN features = 1..n
      /\ \A i \in 1..n : e[i] \in 1..Len(text) /\ features[i] \in Feature
  <2>1. features \in Seq(Feature)
    BY DEF Parsed
  <2>2. ASSUME NEW i \in 1..n PROVE e[i] \in 1..Len(text)
    <3>1. /\ e[i] \in Nat /\ e[i - 1] \in Nat /\ e[i] <= Len(text)
          /\ (e[i] = e[i - 1] + 4 \/ e[i] = e[i - 1] + 5)
      BY EndsTyped
    <3> QED BY <3>1
  <2> QED BY <2>1, <2>2, EndsTyped
<1>2. {i \in DOMAIN text : Closes(text, i) /\ props(text, i) # {}} = ends
  <2> DEFINE found == {i \in DOMAIN text : Closes(text, i) /\ props(text, i) # {}}
  <2>1. ASSUME NEW k \in found PROVE k \in ends
    <3>1. k \in 1..Len(text) /\ Closes(text, k) /\ props(text, k) # {}
      BY <1>1
    <3>2. PICK i \in 1..n : k = e[i]
      BY <3>1, ClosesAtEnds
    <3>3. features[i].readable
      BY <3>1, <3>2, PropsOfBlock
    <3> QED BY <3>2, <3>3
  <2>2. ASSUME NEW i \in 1..n, features[i].readable PROVE e[i] \in found
    <3>1. Closes(text, e[i])
      BY <1>1, ClosesAtEnds
    <3>2. props(text, e[i]) # {}
      BY <2>2, PropsOfBlock
    <3> QED BY <1>1, <3>1, <3>2
  <2> HIDE DEF found
  <2>3. ends \subseteq found
    BY <2>2
  <2> QED BY <2>1, <2>3 DEF found
<1>3. parseWMSPlainText(text) =
        {[layer |-> currentLayer(text, i), featureIdx |-> Idx(i)] : i \in ends}
  <2> HIDE DEF ends
  <2> QED BY <1>2 DEF parseWMSPlainText
<1>4. \A i \in 1..n : currentLayer(text, e[i]) = features[i].layer
  BY LayerOfBlock
<1>5. ASSUME NEW i \in R PROVE i \in 1..n /\ e[i] \in ends /\ features[i].layer = l
  BY <1>1, <1>5 DEF Readable
<1>6. ASSUME NEW i \in R PROVE G[i] \in fs
  <2>1. i \in 1..n /\ e[i] \in ends /\ features[i].layer = l
    BY <1>5
  <2>2. G[i] = [layer |-> currentLayer(text, e[i]), featureIdx |-> Idx(e[i])]
    BY <1>4, <2>1
  <2> HIDE DEF ends, Idx
  <2>3. G[i] \in parseWMSPlainText(text)
    BY <1>3, <2>1, <2>2
  <2> QED BY <2>3
<1>7. ASSUME NEW f \in fs PROVE \E i \in R : G[i] = f
  <2>1. f \in parseWMSPlainText(text) /\ f.layer = l
    OBVIOUS
  <2>2. PICK b \in ends : f = [layer |-> currentLayer(text, b), featureIdx |-> Idx(b)]
    <3> HIDE DEF ends, Idx
    <3> QED BY <1>3, <2>1
  <2>3. PICK i \in 1..n : features[i].readable /\ b = e[i]
    OBVIOUS
  <2>4. features[i].layer = l
    BY <1>4, <2>1, <2>2, <2>3
  <2>5. features[i] = [layer |-> l, readable |-> TRUE]
    <3>1. features[i] \in Feature
      BY <1>1
    <3> QED BY <2>3, <2>4, <3>1 DEF Feature
  <2>6. i \in R
    BY <1>1, <2>5 DEF Readable
  <2>7. f = [layer |-> l, featureIdx |-> Idx(e[i])]
    BY <2>1, <2>2, <2>3
  <2> QED BY <2>6, <2>7
<1>8. ASSUME NEW i \in R, NEW k \in R, i < k PROVE Idx(e[i]) # Idx(e[k])
  <2> DEFINE A == {c \in ends : c < e[i]}
             B == {c \in ends : c < e[k]}
  <2>1. i \in 1..n /\ k \in 1..n /\ e[i] \in ends /\ ends \subseteq 1..Len(text)
    BY <1>1, <1>5
  <2>2. e[i] < e[k]
    BY <1>1, <1>8, <2>1, EndsGrow
  <2> HIDE DEF ends
  <2>3. A \subseteq B /\ e[i] \in B /\ e[i] \notin A
    <3>1. e[i] \in Nat /\ e[k] \in Nat /\ ends \subseteq Nat
      BY <1>1, <2>1
    <3>2. A \subseteq B
      <4>1. ASSUME NEW c \in Nat, c < e[i] PROVE c < e[k]
        BY <2>2, <3>1, <4>1
      <4> QED BY <3>1, <4>1
    <3>3. e[i] \in B /\ e[i] \notin A
      BY <2>1, <2>2, <3>1
    <3> QED BY <3>2, <3>3
  <2>4. IsFiniteSet(B)
    <3>1. IsFiniteSet(1..Len(text))
      BY <1>1, FS_Interval
    <3>2. B \subseteq 1..Len(text)
      BY <2>1
    <3> QED BY <3>1, <3>2, FS_Subset
  <2> HIDE DEF A, B
  <2>5. Cardinality(A) # Cardinality(B)
    BY <2>3, <2>4, FS_Subset
  <2> QED BY <2>5 DEF A, B
<1>9. IsFiniteSet(R)
  <2>1. R \subseteq 1..n /\ IsFiniteSet(1..n)
    BY <1>1, FS_Interval DEF Readable
  <2> QED BY <2>1, FS_Subset
<1>10. \A i, k \in R : G[i] = G[k] => i = k
  <2> SUFFICES ASSUME NEW i \in R, NEW k \in R, G[i] = G[k] PROVE i = k
    OBVIOUS
  <2>1. Idx(e[i]) = Idx(e[k])
    <3> HIDE DEF Idx
    <3>1. G[i].featureIdx = Idx(e[i]) /\ G[k].featureIdx = Idx(e[k])
      OBVIOUS
    <3> QED BY <3>1
  <2>2. i \in Int /\ k \in Int
    BY <1>1, <1>5
  <2> HIDE DEF Idx, R
  <2>3. ~ (i < k) /\ ~ (k < i)
    BY <1>8, <2>1
  <2> QED BY <2>2, <2>3
<1>11. G \in [R -> fs]
  <2>1. G = [i \in R |-> G[i]]
    OBVIOUS
  <2> HIDE DEF G, R, fs
  <2> QED BY <1>6, <2>1
<1> HIDE DEF G, R, fs
<1>12. G \in Bijection(R, fs)
  BY <1>7, <1>10, <1>11, Fun_IsBij
<1>13. IsFiniteSet(fs) /\ Cardinality(fs) = Cardinality(R)
  BY <1>9, <1>12, FS_Bijection DEF ExistsBijection
<1> QED BY <1>13 DEF fs, R

\* A line that is no separator holds no feature.
LEMMA NothingParsed ==
    ASSUME NEW line, line.kind # "separator"
    PROVE  parseWMSPlainText(<<line>>) = {}
<1> DEFINE text == <<line>>
           found == {i \in DOMAIN text : Closes(text, i) /\ props(text, i) # {}}
<1>1. DOMAIN text = {1} /\ text[1] = line
  OBVIOUS
<1> HIDE DEF text
<1>2. ~ Closes(text, 1)
  BY <1>1 DEF Closes
<1>3. found = {}
  BY <1>1, <1>2
<1> HIDE DEF found
<1>4. parseWMSPlainText(text) = {}
  BY <1>3 DEF parseWMSPlainText, found
<1> QED BY <1>4 DEF text

LEMMA TextParsed ==
    ASSUME NEW features \in Seq(Feature), NEW l
    PROVE  LET fs == {f \in parseWMSPlainText(PlainText(features)) : f.layer = l}
           IN  /\ IsFiniteSet(fs)
               /\ Cardinality(fs) = Cardinality(Readable(features, l))
<1>1. CASE features = <<>>
  <2>1. PlainText(features) = <<[kind |-> "noFeatures"]>>
    BY <1>1 DEF PlainText
  <2>2. parseWMSPlainText(PlainText(features)) = {}
    BY <2>1, NothingParsed
  <2>3. Readable(features, l) = {}
    BY <1>1 DEF Readable
  <2> QED BY <2>2, <2>3, FS_EmptySet
<1>2. CASE features # <<>>
  <2>1. PICK e : Parsed(features, PlainText(features), e)
    BY <1>2, TextHasEnds DEF Parsed
  <2> QED BY <2>1, ParserCounts
<1> QED BY <1>1, <1>2

\* What a group's answer yields, by layer.
LEMMA GroupCounts ==
    ASSUME NEW p \in Point, NEW outcome \in [1..Groups -> Outcome], NEW g \in 1..Groups,
           NEW l, world \in World
    PROVE  LET fs == {f \in GroupFeatures(p, outcome, g) : f.layer = l}
           IN  /\ IsFiniteSet(fs)
               /\ outcome[g] = "ok" => Cardinality(fs) = Cardinality(Readable(world[p][g], l))
               /\ outcome[g] # "ok" => GroupFeatures(p, outcome, g) = {}
<1>1. outcome[g] \in {"ok", "failed", "exception"}
  BY DEF Outcome
<1>2. CASE outcome[g] = "ok"
  <2>1. world[p][g] \in Seq(Feature)
    BY MapAssumption DEF MapAssumption
  <2>2. world[p][g] \in UNION {{w[q][h] : h \in 1..Groups} : w \in World, q \in Point}
    <3> DEFINE mine == {world[p][h] : h \in 1..Groups}
    <3>1. world[p][g] \in mine
      OBVIOUS
    <3>2. mine \in {{w[q][h] : h \in 1..Groups} : w \in World, q \in Point}
      OBVIOUS
    <3> HIDE DEF mine
    <3> QED BY <3>1, <3>2
  <2>3. Reading[world[p][g]] = parseWMSPlainText(PlainText(world[p][g]))
    <3> DEFINE D == UNION {{w[q][h] : h \in 1..Groups} : w \in World, q \in Point}
    <3>1. world[p][g] \in D
      BY <2>2
    <3>2. Reading = [x \in D |-> parseWMSPlainText(PlainText(x))]
      BY DEF Reading
    <3> HIDE DEF D
    <3> QED BY <3>1, <3>2
  <2>4. GroupFeatures(p, outcome, g) = parseWMSPlainText(PlainText(world[p][g]))
    BY <1>2, <2>3 DEF GroupFeatures
  <2> QED BY <1>2, <2>1, <2>4, TextParsed
<1>3. CASE outcome[g] # "ok"
  <2>1. parseWMSPlainText(ServiceException) = {}
    BY NothingParsed DEF ServiceException
  <2>2. GroupFeatures(p, outcome, g) = {}
    BY <1>1, <1>3, <2>1 DEF GroupFeatures
  <2> QED BY <1>3, <2>2, FS_EmptySet
<1> QED BY <1>2, <1>3

\* The readable features of a layer in the groups that were answered.
Held(p, outcome, l) ==
    UNION {{<<g, i>> : i \in Readable(world[p][g], l)} :
           g \in {h \in 1..Groups : outcome[h] = "ok"}}

\* A layer is in one group only, so nothing is found twice, and no two ids are the same.
LEMMA AnswerCounts ==
    ASSUME NEW p \in Point, NEW outcome \in [1..Groups -> Outcome], NEW l \in Layer,
           world \in World
    PROVE  Cardinality({f \in FetchZoneInfo(p, outcome).features : f.layer = l}) =
             Cardinality(Held(p, outcome, l))
<1> DEFINE held(g) == Readable(world[p][g], l)
           found(g) == {f \in GroupFeatures(p, outcome, g) : f.layer = l}
           all == {f \in FetchZoneInfo(p, outcome).features : f.layer = l}
<1>1. PICK group \in [Layer -> 1..Groups] :
         \A w \in World, q \in Point, g \in 1..Groups :
           \A i \in DOMAIN w[q][g] : group[w[q][g][i].layer] = g
  BY MapAssumption DEF MapAssumption
<1> DEFINE h == group[l]
<1>2. h \in 1..Groups
  OBVIOUS
<1>3. ASSUME NEW g \in 1..Groups, g # h PROVE held(g) = {} /\ found(g) = {}
  <2>1. ASSUME NEW i \in held(g) PROVE FALSE
    <3>1. i \in DOMAIN world[p][g] /\ world[p][g][i].layer = l
      BY DEF Readable
    <3> QED BY <1>1, <1>3, <3>1
  <2>2. held(g) = {}
    BY <2>1
  <2> HIDE DEF h
  <2>3. IsFiniteSet(found(g)) /\ (Cardinality(found(g)) = 0 \/ found(g) = {})
    <3>1. /\ IsFiniteSet(found(g))
          /\ outcome[g] = "ok" => Cardinality(found(g)) = Cardinality(held(g))
          /\ outcome[g] # "ok" => GroupFeatures(p, outcome, g) = {}
      BY GroupCounts
    <3>2. outcome[g] # "ok" => found(g) = {}
      BY <3>1
    <3>3. Cardinality(held(g)) = 0
      BY <2>2, FS_EmptySet
    <3> HIDE DEF found, held
    <3> QED BY <3>1, <3>2, <3>3
  <2> QED BY <2>2, <2>3, FS_EmptySet
<1>4. FetchZoneInfo(p, outcome).features = UNION {GroupFeatures(p, outcome, g) : g \in 1..Groups}
  <2>1. CASE \A g \in 1..Groups : outcome[g] = "failed"
    <3>1. \A g \in 1..Groups : GroupFeatures(p, outcome, g) = {}
      BY <2>1, GroupCounts
    <3>2. FetchZoneInfo(p, outcome).features = {}
      BY <2>1 DEF FetchZoneInfo
    <3> QED BY <3>1, <3>2
  <2>2. CASE ~ \A g \in 1..Groups : outcome[g] = "failed"
    BY <2>2 DEF FetchZoneInfo, ZoneInfo
  <2> QED BY <2>1, <2>2
<1> HIDE DEF h
<1>5. all = found(h)
  <2>1. ASSUME NEW f \in all PROVE f \in found(h)
    <3>1. f.layer = l /\ f \in UNION {GroupFeatures(p, outcome, g) : g \in 1..Groups}
      BY <1>4
    <3>2. PICK g \in 1..Groups : f \in GroupFeatures(p, outcome, g)
      BY <3>1
    <3> QED BY <1>3, <3>1, <3>2
  <2>2. ASSUME NEW f \in found(h) PROVE f \in all
    BY <1>2, <1>4
  <2> HIDE DEF all, found
  <2> QED BY <2>1, <2>2
<1>6. CASE outcome[h] # "ok"
  <2>1. found(h) = {}
    BY <1>2, <1>6, GroupCounts
  <2>2. Held(p, outcome, l) = {}
    <3>1. \A x : x \notin Held(p, outcome, l)
      BY <1>3, <1>6, Zenon DEF Held
    <3> QED BY <3>1
  <2> QED BY <1>5, <2>1, <2>2
<1>7. CASE outcome[h] = "ok"
  <2> DEFINE H == Held(p, outcome, l)
             R == held(h)
             G == [i \in R |-> <<h, i>>]
  <2>1. H = {<<h, i>> : i \in R}
    <3>1. ASSUME NEW x \in H PROVE x \in {<<h, i>> : i \in R}
      <4>1. PICK g \in 1..Groups : outcome[g] = "ok" /\ x \in {<<g, i>> : i \in held(g)}
        BY Zenon DEF Held
      <4>2. g = h
        <5>1. held(g) # {}
          BY <4>1
        <5> QED BY <1>3, <5>1
      <4> QED BY <4>1, <4>2
    <3>2. ASSUME NEW i \in R PROVE <<h, i>> \in H
      <4> DEFINE T == {<<h, j>> : j \in R}
      <4>1. T \in {{<<g, j>> : j \in Readable(world[p][g], l)} :
                  g \in {q \in 1..Groups : outcome[q] = "ok"}}
        BY <1>2, <1>7
      <4>2. <<h, i>> \in T
        OBVIOUS
      <4> HIDE DEF T
      <4> QED BY <4>1, <4>2 DEF Held
    <3> HIDE DEF H, R
    <3> QED BY <3>1, <3>2
  <2>2. IsFiniteSet(R)
    <3>1. world[p][h] \in Seq(Feature)
      BY <1>2, MapAssumption DEF MapAssumption
    <3>2. DOMAIN world[p][h] = 1..Len(world[p][h]) /\ Len(world[p][h]) \in Nat
      BY <3>1
    <3>3. IsFiniteSet(DOMAIN world[p][h])
      BY <3>2, FS_Interval
    <3> QED BY <3>3, FS_Subset DEF Readable
  <2> HIDE DEF H, R
  <2>3. G \in [R -> H] /\ \A t \in H : \E i \in R : G[i] = t
    BY <2>1
  <2>4. \A i, k \in R : G[i] = G[k] => i = k
    OBVIOUS
  <2> HIDE DEF G
  <2>5. G \in Bijection(R, H)
    BY <2>3, <2>4, Fun_IsBij
  <2>6. Cardinality(H) = Cardinality(R)
    BY <2>2, <2>5, FS_Bijection DEF ExistsBijection
  <2>7. Cardinality(found(h)) = Cardinality(R)
    BY <1>2, <1>7, GroupCounts DEF R
  <2> QED BY <1>5, <2>6, <2>7 DEF H
<1> QED BY <1>6, <1>7

----------------------------------------------------------------------------
(* The page.                                                               *)

\* The interval that polls is the latest one, and runs while the tab is visible; besides
\* it only the first, if it was started in a hidden tab.
Pollers ==
    /\ timers = (IF openedHidden THEN {1} ELSE {}) \cup (IF visible THEN {trafficTimer} ELSE {})
    /\ openedHidden /\ visible => trafficTimer > 1

Answers ==
    \A a \in answers : \E outcome \in [1..Groups -> Outcome] :
        a = [click |-> a.click, outcome |-> outcome,
             answer |-> FetchZoneInfo(asked[a.click], outcome)]

Popup == popup \in [at : Point \cup {Nowhere}, of : Point \cup {Nowhere}, shows : Shown]

PageInv == PageTypeOK /\ Pollers /\ Answers /\ Popup

LEMMA PageInvInit == PageInit => PageInv
<1> SUFFICES ASSUME PageInit PROVE PageInv
  OBVIOUS
<1>1. timers = {1} /\ trafficTimer = 1 /\ answers = {} /\ MaxTimers \in Nat \ {0}
  BY MapAssumption DEF PageInit, MapAssumption
<1>2. PageTypeOK
  BY MapAssumption, <1>1 DEF PageInit, PageTypeOK, MapAssumption, Shown
<1>3. Pollers
  BY <1>1 DEF PageInit, Pollers
<1>4. Answers /\ Popup
  BY <1>1 DEF PageInit, Answers, Popup, Shown
<1> QED BY <1>2, <1>3, <1>4 DEF PageInv

\* Answers stay what they are.
LEMMA AnswersKept ==
    ASSUME Answers, UNCHANGED <<world, asked>>, answers' \subseteq answers PROVE Answers'
<1> SUFFICES ASSUME NEW a \in answers
             PROVE  \E outcome \in [1..Groups -> Outcome] :
                      a = [click |-> a.click, outcome |-> outcome,
                           answer |-> FetchZoneInfo(asked[a.click], outcome)']
  BY DEF Answers
<1>1. PICK outcome \in [1..Groups -> Outcome] :
         a = [click |-> a.click, outcome |-> outcome,
              answer |-> FetchZoneInfo(asked[a.click], outcome)]
  BY DEF Answers
<1>2. FetchZoneInfo(asked[a.click], outcome)' = FetchZoneInfo(asked[a.click], outcome)
  BY DEF FetchZoneInfo, ZoneInfo, GroupFeatures
<1> QED BY <1>1, <1>2

\* The poller leaves the clicks alone.
LEMMA PollStep ==
    ASSUME PageInv, UNCHANGED <<world, clickVars>>,
           visible' \in BOOLEAN, openedHidden' \in BOOLEAN,
           timers' \subseteq 1..MaxTimers, trafficTimer' \in 1..MaxTimers,
           polls' \in 0..MaxPolls, Pollers'
    PROVE  PageInv'
<1>1. PageTypeOK'
  BY DEF PageInv, PageTypeOK, clickVars
<1>2. Answers' /\ Popup'
  BY AnswersKept DEF PageInv, Popup, clickVars
<1> QED BY <1>1, <1>2 DEF PageInv

LEMMA PagePolls ==
    ASSUME PageInv, HideTab \/ ShowTab \/ PollEnds \/ \E i \in timers : Fire(i)
    PROVE  PageInv'
<1>1. /\ visible \in BOOLEAN /\ openedHidden \in BOOLEAN /\ timers \subseteq 1..MaxTimers
      /\ trafficTimer \in 1..MaxTimers /\ polls \in 0..MaxPolls /\ Pollers
      /\ MaxTimers \in Nat \ {0} /\ MaxPolls \in Nat
  BY MapAssumption DEF PageInv, PageTypeOK, MapAssumption
<1>2. CASE HideTab
  <2>1. Pollers'
    BY <1>1, <1>2 DEF HideTab, Pollers
  <2> QED BY <1>1, <1>2, <2>1, PollStep DEF HideTab
<1>3. CASE ShowTab
  <2>1. Pollers'
    BY <1>1, <1>3 DEF ShowTab, Pollers
  <2>2. trafficTimer' \in 1..MaxTimers /\ timers' \subseteq 1..MaxTimers
    BY <1>1, <1>3 DEF ShowTab
  <2>3. polls' \in 0..MaxPolls
    BY <1>1, <1>3 DEF ShowTab, Poll
  <2> QED BY <1>1, <1>3, <2>1, <2>2, <2>3, PollStep DEF ShowTab
<1>4. CASE PollEnds
  <2>1. Pollers' /\ polls' \in 0..MaxPolls
    BY <1>1, <1>4 DEF PollEnds, Pollers
  <2> QED BY <1>1, <1>4, <2>1, PollStep DEF PollEnds
<1>5. CASE \E i \in timers : Fire(i)
  <2>1. Pollers' /\ polls' \in 0..MaxPolls
    BY <1>1, <1>5 DEF Fire, Pollers, Poll
  <2> QED BY <1>1, <1>5, <2>1, PollStep DEF Fire
<1> QED BY <1>2, <1>3, <1>4, <1>5

LEMMA PollersUnchanged == ASSUME Pollers, UNCHANGED pollVars PROVE Pollers'
BY DEF Pollers, pollVars

LEMMA PageClicks == ASSUME PageInv, NEW p \in Point, Click(p) PROVE PageInv'
<1>1. /\ asked \in Seq(Point) /\ asked' = Append(asked, p) /\ Len(asked) \in Nat
      /\ pending' = pending \cup {Len(asked')} /\ pending \subseteq 1..Len(asked)
      /\ UNCHANGED <<world, answers>> /\ UNCHANGED pollVars
      /\ popup' = [at |-> p, of |-> Nowhere, shows |-> "loading"]
  BY DEF Click, PageInv, PageTypeOK
<1>2. /\ asked' \in Seq(Point) /\ Len(asked') = Len(asked) + 1
      /\ \A n \in 1..Len(asked) : n \in 1..Len(asked') /\ asked'[n] = asked[n]
      /\ Len(asked') \in 1..Len(asked')
  BY <1>1
<1>3. PageTypeOK'
  <2>1. \A a \in answers' : a.click \in 1..Len(asked')
    BY <1>1, <1>2 DEF PageInv, PageTypeOK
  <2> QED BY <1>1, <1>2, <2>1 DEF PageInv, PageTypeOK, pollVars, Shown
<1>4. Answers'
  <2> SUFFICES ASSUME NEW a \in answers
               PROVE  \E outcome \in [1..Groups -> Outcome] :
                        a = [click |-> a.click, outcome |-> outcome,
                             answer |-> FetchZoneInfo(asked[a.click], outcome)']
    BY <1>1 DEF Answers
  <2>1. a.click \in 1..Len(asked)
    BY DEF PageInv, PageTypeOK
  <2>2. asked'[a.click] = asked[a.click]
    BY <1>2, <2>1
  <2>3. PICK outcome \in [1..Groups -> Outcome] :
           a = [click |-> a.click, outcome |-> outcome,
                answer |-> FetchZoneInfo(asked[a.click], outcome)]
    BY DEF PageInv, Answers
  <2>4. FetchZoneInfo(asked[a.click], outcome)' = FetchZoneInfo(asked[a.click], outcome)
    BY <1>1, <2>2 DEF FetchZoneInfo, ZoneInfo, GroupFeatures
  <2> QED BY <2>3, <2>4
<1>5. Popup' /\ Pollers'
  BY <1>1, PollersUnchanged DEF Popup, Shown, PageInv
<1> QED BY <1>3, <1>4, <1>5 DEF PageInv

LEMMA PageAnswers == ASSUME PageInv, NEW n \in pending, AnswerClick(n) PROVE PageInv'
<1>1. /\ pending' = pending \ {n} /\ UNCHANGED <<world, pollVars, asked, popup>>
      /\ n \in 1..Len(asked)
  BY DEF AnswerClick, PageInv, PageTypeOK
<1>2. PICK o \in [1..Groups -> Outcome] :
         answers' = answers \cup
           {[click |-> n, outcome |-> o, answer |-> FetchZoneInfo(asked[n], o)]}
  BY DEF AnswerClick
<1>3. PageTypeOK'
  BY <1>1, <1>2 DEF PageInv, PageTypeOK, pollVars
<1>4. Answers'
  <2>1. \A q, x : FetchZoneInfo(q, x)' = FetchZoneInfo(q, x)
    BY <1>1 DEF FetchZoneInfo, ZoneInfo, GroupFeatures
  <2> QED BY <1>1, <1>2, <2>1 DEF PageInv, Answers
<1>5. Popup' /\ Pollers'
  BY <1>1, PollersUnchanged DEF Popup, PageInv
<1> QED BY <1>3, <1>4, <1>5 DEF PageInv

\* What an answer shows.
LEMMA AnswerShows ==
    ASSUME NEW p, NEW outcome
    PROVE  FetchZoneInfo(p, outcome).shows \in {"none", "error", "zones"}
BY DEF FetchZoneInfo, ZoneInfo

LEMMA PageReceives == ASSUME PageInv, NEW a \in answers, Receive(a) PROVE PageInv'
<1>1. /\ answers' = answers \ {a} /\ UNCHANGED <<world, pollVars, asked, pending>>
      /\ popup' = [popup EXCEPT !.of = asked[a.click], !.shows = a.answer.shows]
      /\ a.click \in 1..Len(asked) /\ asked \in Seq(Point)
  BY DEF Receive, PageInv, PageTypeOK
<1>2. a.answer.shows \in Shown
  <2>1. PICK outcome : a = [click |-> a.click, outcome |-> outcome,
                            answer |-> FetchZoneInfo(asked[a.click], outcome)]
    BY DEF PageInv, Answers
  <2>2. a.answer = FetchZoneInfo(asked[a.click], outcome)
    BY <2>1
  <2> QED BY <2>2, AnswerShows DEF Shown
<1>3. Popup'
  <2>1. asked[a.click] \in Point
    BY <1>1
  <2> QED BY <1>1, <1>2, <2>1 DEF PageInv, Popup
<1>4. PageTypeOK'
  BY <1>1, <1>3 DEF PageInv, PageTypeOK, Popup, pollVars
<1>5. Answers' /\ Pollers'
  BY <1>1, PollersUnchanged, AnswersKept DEF PageInv
<1> QED BY <1>3, <1>4, <1>5 DEF PageInv

LEMMA PageInvNext == PageInv /\ [PageNext]_pageVars => PageInv'
<1> SUFFICES ASSUME PageInv, [PageNext]_pageVars PROVE PageInv'
  OBVIOUS
<1>1. CASE PageNext
  BY <1>1, PagePolls, PageClicks, PageAnswers, PageReceives DEF PageNext
<1>2. CASE UNCHANGED pageVars
  <2>1. PageTypeOK' /\ Pollers' /\ Popup'
    BY <1>2 DEF PageInv, PageTypeOK, Pollers, Popup, pageVars, pollVars, clickVars
  <2>2. Answers'
    BY <1>2, AnswersKept DEF PageInv, pageVars, clickVars
  <2> QED BY <2>1, <2>2 DEF PageInv
<1> QED BY <1>1, <1>2

\* The inductive invariant of the page: which intervals run, and where an answer comes from
\* (results.html, FetchZoneInfo).
THEOREM PageInvariance == PageSpec => []PageInv
BY PageInvInit, PageInvNext, PTL DEF PageSpec

\* Type correctness, for every value of the constants.
THEOREM PageTypeCorrect == PageSpec => []PageTypeOK
<1>1. PageInv => PageTypeOK
  BY DEF PageInv
<1> QED BY <1>1, PageInvariance, PTL

\* One interval polls in a visible tab and none in a hidden one, but for the one that was
\* started in a hidden tab (visibilitychange).
THEOREM PollersTheorem == PageSpec => []PollersBounded
<1>1. PageInv => PollersBounded
  <2> SUFFICES ASSUME PageInv PROVE PollersBounded
    OBVIOUS
  <2>1. /\ Pollers /\ visible \in BOOLEAN /\ openedHidden \in BOOLEAN
        /\ trafficTimer \in Nat
    BY MapAssumption DEF PageInv, PageTypeOK, MapAssumption
  <2>2. /\ IsFiniteSet({}) /\ Cardinality({}) = 0
        /\ \A x : IsFiniteSet({x}) /\ Cardinality({x}) = 1
    BY FS_EmptySet, FS_Singleton
  <2>3. trafficTimer > 1 => Cardinality({1} \cup {trafficTimer}) = 2
    <3> SUFFICES ASSUME trafficTimer > 1 PROVE Cardinality({1} \cup {trafficTimer}) = 2
      OBVIOUS
    <3>1. trafficTimer \notin {1} /\ IsFiniteSet({1}) /\ Cardinality({1}) = 1
      BY <2>1, <2>2
    <3>2. Cardinality({1} \cup {trafficTimer}) = Cardinality({1}) + 1
      BY <3>1, FS_AddElement
    <3> QED BY <3>1, <3>2
  <2>4. CASE openedHidden /\ visible
    BY <2>1, <2>3, <2>4 DEF Pollers, PollersBounded
  <2>5. CASE openedHidden /\ ~visible
    <3>1. timers = {1}
      BY <2>1, <2>5 DEF Pollers
    <3> QED BY <2>2, <2>5, <3>1 DEF PollersBounded
  <2>6. CASE ~openedHidden /\ visible
    <3>1. timers = {trafficTimer}
      BY <2>1, <2>6 DEF Pollers
    <3> QED BY <2>2, <2>6, <3>1 DEF PollersBounded
  <2>7. CASE ~openedHidden /\ ~visible
    <3>1. timers = {}
      BY <2>1, <2>7 DEF Pollers
    <3> QED BY <2>2, <2>7, <3>1 DEF PollersBounded
  <2> QED BY <2>1, <2>4, <2>5, <2>6, <2>7
<1> QED BY <1>1, PageInvariance, PTL

\* An answer holds each zone of the groups that were answered, once, whatever the others
\* did, for any text the map server may send (FetchZoneInfo, parseWMSPlainText).
THEOREM ZonesTheorem == PageSpec => []EveryReadableZoneOnce
<1>1. PageInv => EveryReadableZoneOnce
  <2> SUFFICES ASSUME PageInv, NEW a \in answers
               PROVE  /\ (a.answer.shows = "error") =
                           (\A g \in 1..Groups : a.outcome[g] = "failed")
                      /\ \A l \in Layer :
                           Cardinality({f \in a.answer.features : f.layer = l}) =
                             Cardinality(Held(asked[a.click], a.outcome, l))
    BY DEF EveryReadableZoneOnce, Held, Readable
  <2>1. PICK outcome \in [1..Groups -> Outcome] :
           a = [click |-> a.click, outcome |-> outcome,
                answer |-> FetchZoneInfo(asked[a.click], outcome)]
    BY DEF PageInv, Answers
  <2> DEFINE p == asked[a.click]
  <2>2. a.outcome = outcome /\ a.answer = FetchZoneInfo(p, outcome)
    BY <2>1
  <2>3. p \in Point /\ world \in World
    BY DEF PageInv, PageTypeOK
  <2> HIDE DEF p
  <2>4. (FetchZoneInfo(p, outcome).shows = "error") =
          (\A g \in 1..Groups : outcome[g] = "failed")
    BY DEF FetchZoneInfo, ZoneInfo
  <2>5. \A l \in Layer : Cardinality({f \in FetchZoneInfo(p, outcome).features : f.layer = l}) =
                           Cardinality(Held(p, outcome, l))
    BY <2>3, AnswerCounts
  <2> QED BY <2>2, <2>4, <2>5 DEF p
<1> QED BY <1>1, PageInvariance, PTL
=============================================================================
