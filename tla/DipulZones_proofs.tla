------------------------- MODULE DipulZones_proofs -------------------------
(***************************************************************************)
(* Proofs about the shared DiPUL token, for any number of lookups, single  *)
(* requests, codes and tokens: nobody gets a token after its 401 was acted *)
(* on, and none is issued while a usable one is cached.                    *)
(***************************************************************************)
EXTENDS DipulZones, TLAPS

\* Where a call holds the mutex, and where it holds it across a request.
Holding == {"locked", "bmv", "bmdv"}
Asking == {"bmv", "bmdv"}

\* Whoever is in getToken has the mutex, so no other call fills the cache between its
\* look at the token and the answer of the server.
Exclusion ==
    \A c \in Call : /\ pc[c] \in Holding => mu = c
                    /\ pc[c] \in Asking => ~Usable

\* All tokens around were issued, so the next one is new to everybody; and the cached
\* one was never rejected.
Issued ==
    /\ token <= issued
    /\ \A c \in Call : tok[c] <= issued
    /\ \A k \in rejected : k <= issued
    /\ token = 0 \/ token \notin rejected

\* Only a first 401 sends a call back.
OneRetry == \A c \in Call : pc[c] = "unauthorized" => tries[c] = 0

Inv == TypeOK /\ Exclusion /\ Issued /\ OneRetry

LEMMA InvInit == Init => Inv
<1> SUFFICES ASSUME Init PROVE Inv
  OBVIOUS
<1>1. 0 \in Token /\ 0 \in 0..MaxExpiry
  BY DipulAssumption DEF Token, DipulAssumption
<1>2. TypeOK
  <2>1. /\ pc \in [Call -> PC] /\ tok \in [Call -> Token] /\ tries \in [Call -> 0..1]
    BY <1>1 DEF Init, PC
  <2>2. /\ codes \in [Call -> SUBSET Code] /\ pending \in [Call -> SUBSET Code]
        /\ areas \in [Call -> SUBSET Code] /\ lost \in [Call -> SUBSET Code]
    BY DEF Init
  <2> QED BY <1>1, <2>1, <2>2 DEF Init, TypeOK
<1>3. Exclusion /\ Issued /\ OneRetry
  BY DEF Init, Exclusion, Issued, OneRetry, Holding, Asking
<1> QED BY <1>2, <1>3 DEF Inv

----------------------------------------------------------------------------

\* Steps of call c that read or leave the cache, with the mutex or without it.
LEMMA InvGetToken ==
    ASSUME Inv, NEW c \in Call,
           Lock(c) \/ UseCached(c) \/ AskFirstTenant(c) \/ TenantFails(c)
    PROVE  Inv'
<1> USE DEF Inv, tokenVars, limitVars, zoneVars, Goto
<1>1. CASE Lock(c)
  <2>1. TypeOK' BY <1>1 DEF Lock, TypeOK, PC
  <2>2. Exclusion'
    BY <1>1, DipulAssumption DEF Lock, TypeOK, Exclusion, Holding, Asking, Usable, DipulAssumption
  <2>3. Issued' BY <1>1 DEF Lock, Issued
  <2>4. OneRetry' BY <1>1 DEF Lock, TypeOK, OneRetry
  <2> QED BY <2>1, <2>2, <2>3, <2>4
<1>2. CASE UseCached(c)
  <2>1. TypeOK' BY <1>2 DEF UseCached, ReturnToken, TypeOK, PC
  <2>2. Exclusion'
    BY <1>2 DEF UseCached, ReturnToken, TypeOK, Exclusion, Holding, Asking, Usable
  <2>3. Issued' BY <1>2 DEF UseCached, ReturnToken, Issued, TypeOK
  <2>4. OneRetry' BY <1>2 DEF UseCached, ReturnToken, TypeOK, OneRetry
  <2> QED BY <2>1, <2>2, <2>3, <2>4
<1>3. CASE AskFirstTenant(c)
  <2>1. TypeOK' BY <1>3 DEF AskFirstTenant, TypeOK, PC
  <2>2. Exclusion'
    BY <1>3 DEF AskFirstTenant, TypeOK, Exclusion, Holding, Asking, Usable
  <2>3. Issued' BY <1>3 DEF AskFirstTenant, Issued
  <2>4. OneRetry' BY <1>3 DEF AskFirstTenant, TypeOK, OneRetry
  <2> QED BY <2>1, <2>2, <2>3, <2>4
<1>4. CASE TenantFails(c)
  <2>1. TypeOK' BY <1>4 DEF TenantFails, TypeOK, PC
  <2>2. Exclusion'
    BY <1>4 DEF TenantFails, TypeOK, Exclusion, Holding, Asking, Usable
  <2>3. Issued' BY <1>4 DEF TenantFails, Issued
  <2>4. OneRetry' BY <1>4 DEF TenantFails, TypeOK, OneRetry
  <2> QED BY <2>1, <2>2, <2>3, <2>4
<1> QED BY <1>1, <1>2, <1>3, <1>4

\* A new token has a number nobody has seen.
LEMMA InvTenantGrants ==
    ASSUME Inv, NEW c \in Call, TenantGrants(c)
    PROVE  Inv'
<1> USE DEF Inv, tokenVars, limitVars, zoneVars, Goto
<1>1. issued + 1 \in Token /\ issued \in Nat
  BY DipulAssumption DEF TenantGrants, TypeOK, Token, DipulAssumption
<1>2. TypeOK'
  BY <1>1 DEF TenantGrants, ReturnToken, TypeOK, PC
<1>3. Exclusion'
  BY DEF TenantGrants, ReturnToken, TypeOK, Exclusion, Holding, Asking, Usable
<1>4. Issued'
  <2>1. \A d \in Call : tok'[d] <= issued'
    BY <1>1 DEF TenantGrants, ReturnToken, TypeOK, Issued, Token
  <2>2. \A k \in rejected : k \in Int /\ k <= issued
    BY DEF Issued, TypeOK, Token
  <2> QED BY <1>1, <2>1, <2>2 DEF TenantGrants, ReturnToken, Issued
<1>5. OneRetry'
  BY DEF TenantGrants, ReturnToken, TypeOK, OneRetry
<1> QED BY <1>2, <1>3, <1>4, <1>5

\* Acting on a 401 empties the cache.
LEMMA InvDrop ==
    ASSUME Inv, NEW c \in Call, Drop(c), issued' = issued
    PROVE  /\ token' \in Token /\ rejected' \subseteq Token
           /\ token' <= issued' /\ token' = 0
           /\ \A k \in rejected' : k <= issued'
<1>1. 0 \in Token /\ \A k \in Token : k \in Int
  BY DipulAssumption DEF Token, DipulAssumption
<1>2. token' = 0 /\ rejected' = rejected \cup {tok[c]}
  BY DEF Drop
<1>3. tok[c] \in Token /\ issued \in Token /\ 0 <= issued
  BY DEF Inv, TypeOK, Token
<1> QED BY <1>1, <1>2, <1>3 DEF Inv, TypeOK, Issued

LEMMA InvInvalidate == ASSUME Inv, NEW c \in Call, Invalidate(c) PROVE Inv'
<1> USE DEF Inv, tokenVars, limitVars, zoneVars, Goto
<1>1. /\ token' \in Token /\ rejected' \subseteq Token
      /\ token' <= issued' /\ token' = 0
      /\ \A k \in rejected' : k <= issued'
  BY InvDrop DEF Invalidate
<1>2. TypeOK'
  BY <1>1 DEF Invalidate, TypeOK, PC, OneRetry
<1>3. Exclusion'
  BY <1>1 DEF Invalidate, TypeOK, Exclusion, Holding, Asking, Usable
<1>4. Issued'
  BY <1>1 DEF Invalidate, Issued, TypeOK
<1>5. OneRetry'
  BY DEF Invalidate, TypeOK, OneRetry
<1> QED BY <1>2, <1>3, <1>4, <1>5

\* Steps outside getToken that leave the cache alone.
LEMMA InvRequest ==
    ASSUME Inv, NEW c \in Call,
           SendFails(c) \/ Unauthorized(c) \/ SingleAnswered(c) \/ CodesArrive(c)
    PROVE  Inv'
<1> USE DEF Inv, tokenVars, limitVars, zoneVars, Goto
<1>1. UNCHANGED <<mu, token, expired, issued, expiries, tok, tries, areas, lost, rejected>>
  BY DEF SendFails, Unauthorized, SingleAnswered, CodesArrive
<1>2. \E l \in PC \ Holding : pc' = [pc EXCEPT ![c] = l]
  BY DEF SendFails, Unauthorized, SingleAnswered, CodesArrive, PC, Holding
<1>3. codes' \in [Call -> SUBSET Code] /\ pending' \in [Call -> SUBSET Code]
  BY DEF SendFails, Unauthorized, SingleAnswered, CodesArrive, TypeOK
<1>4. TypeOK'
  BY <1>1, <1>2, <1>3 DEF TypeOK
<1>5. Exclusion'
  BY <1>1, <1>2 DEF TypeOK, Exclusion, Holding, Asking, Usable
<1>6. Issued'
  BY <1>1 DEF Issued
<1>7. OneRetry'
  BY DEF SendFails, Unauthorized, SingleAnswered, CodesArrive, TypeOK, OneRetry
<1> QED BY <1>4, <1>5, <1>6, <1>7

\* Collecting a detail leaves the cache alone.
LEMMA InvDetail ==
    ASSUME Inv, NEW c \in Call, NEW z \in Code,
           DetailArrives(c, z) \/ DetailFails(c, z) \/ DetailUnauthorized(c, z)
    PROVE  Inv'
<1> USE DEF Inv, tokenVars, limitVars, zoneVars, Goto
<1>1. UNCHANGED <<mu, token, expired, issued, expiries, tok, tries, codes, rejected>>
  BY DEF DetailArrives, DetailFails, DetailUnauthorized
<1>2. \E l \in PC \ (Holding \cup {"unauthorized"}) : pc' = [pc EXCEPT ![c] = l]
  BY DEF DetailArrives, DetailFails, DetailUnauthorized, GoOn, PC, Holding
<1>3. /\ pending' \in [Call -> SUBSET Code] /\ areas' \in [Call -> SUBSET Code]
      /\ lost' \in [Call -> SUBSET Code]
  BY DEF DetailArrives, DetailFails, DetailUnauthorized, Take, TypeOK
<1>4. TypeOK' BY <1>1, <1>2, <1>3 DEF TypeOK
<1>5. Exclusion' BY <1>1, <1>2 DEF TypeOK, Exclusion, Holding, Asking, Usable
<1>6. Issued' BY <1>1 DEF Issued
<1>7. OneRetry' BY <1>1, <1>2 DEF TypeOK, OneRetry
<1> QED BY <1>4, <1>5, <1>6, <1>7

\* The 401 of a detail empties the cache under everybody.
LEMMA InvDropForDetail == ASSUME Inv, NEW c \in Call, DropForDetail(c) PROVE Inv'
<1> USE DEF Inv, tokenVars, limitVars, zoneVars, Goto
<1>1. UNCHANGED <<mu, expired, issued, expiries, tok, tries, zoneVars>>
  BY DEF DropForDetail
<1>2. \E l \in PC \ (Holding \cup {"unauthorized"}) : pc' = [pc EXCEPT ![c] = l]
  BY DEF DropForDetail, GoOn, PC, Holding
<1>3. /\ token' \in Token /\ rejected' \subseteq Token
      /\ token' <= issued' /\ token' = 0
      /\ \A k \in rejected' : k <= issued'
  BY <1>1, InvDrop DEF DropForDetail
<1>4. TypeOK' BY <1>1, <1>2, <1>3 DEF TypeOK
<1>5. Exclusion' BY <1>1, <1>2, <1>3 DEF TypeOK, Exclusion, Holding, Asking, Usable
<1>6. Issued' BY <1>1, <1>3 DEF Issued
<1>7. OneRetry' BY <1>1, <1>2 DEF TypeOK, OneRetry
<1> QED BY <1>4, <1>5, <1>6, <1>7

LEMMA InvExpire == ASSUME Inv, Expire PROVE Inv'
<1> USE DEF Inv, zoneVars
<1>1. TypeOK' BY DipulAssumption DEF Expire, TypeOK, DipulAssumption
<1>2. Exclusion' BY DEF Expire, Exclusion, Usable
<1>3. Issued' /\ OneRetry' BY DEF Expire, Issued, OneRetry
<1> QED BY <1>1, <1>2, <1>3

LEMMA InvNext == Inv /\ [Next]_vars => Inv'
<1> SUFFICES ASSUME Inv, [Next]_vars PROVE Inv'
  OBVIOUS
<1>1. CASE Expire BY <1>1, InvExpire
<1>2. ASSUME NEW c \in Call, CallStep(c) PROVE Inv'
  BY <1>2, InvGetToken, InvTenantGrants, InvRequest, InvInvalidate, InvDetail, InvDropForDetail
  DEF CallStep
<1>3. CASE UNCHANGED vars
  BY <1>3 DEF vars, tokenVars, limitVars, zoneVars, Inv, TypeOK, Exclusion, Issued, OneRetry, Usable
<1> QED BY <1>1, <1>2, <1>3 DEF Next

\* The inductive invariant of the DiPUL token: only the holder of the mutex fills the
\* cache, with a token nobody has seen (getToken).
THEOREM Invariance == Spec => []Inv
BY InvInit, InvNext, PTL DEF Spec

\* Type correctness, for any calls, codes and bounds; a call retries once at most.
THEOREM TypeCorrect == Spec => []TypeOK
<1>1. Inv => TypeOK
  BY DEF Inv
<1> QED BY <1>1, Invariance, PTL

----------------------------------------------------------------------------
\* A token whose 401 was acted on is returned by getToken to no call any more, the one
\* that retries included: the cache never holds it again, and the server issues a new
\* one (getToken, invalidateDipulToken).
THEOREM DeadTokenTheorem == Spec => DeadTokenStaysDead
<1> DEFINE Alive == \A c \in Call : pc[c] # "send" /\ pc'[c] = "send" => tok'[c] \notin rejected
<1>1. ASSUME Inv, Next, NEW c \in Call, pc[c] # "send", pc'[c] = "send"
      PROVE  tok'[c] \notin rejected
  <2>1. PICK d \in Call : CallStep(d)
    BY <1>1 DEF Next, Expire
  <2>2. UseCached(d) \/ TenantGrants(d)
    BY <1>1, <2>1 DEF CallStep, Lock, AskFirstTenant, TenantFails, SendFails, Unauthorized,
                      Invalidate, SingleAnswered, CodesArrive, DropForDetail, DetailArrives,
                      DetailFails, DetailUnauthorized, GoOn, Goto, Inv, TypeOK
  <2>3. c = d
    BY <1>1, <2>2 DEF UseCached, TenantGrants, ReturnToken, Goto, Inv, TypeOK
  <2>4. CASE UseCached(d)
    BY <1>1, <2>3, <2>4 DEF UseCached, ReturnToken, Usable, Inv, Issued, TypeOK
  <2>5. CASE TenantGrants(d)
    <3>1. tok'[c] = issued + 1
      BY <1>1, <2>3, <2>5 DEF TenantGrants, ReturnToken, Inv, TypeOK
    <3>2. issued \in Nat /\ \A k \in rejected : k <= issued
      BY <1>1 DEF Inv, TypeOK, Issued, Token
    <3> QED BY <3>1, <3>2
  <2> QED BY <2>2, <2>4, <2>5
<1>2. Inv /\ [Next]_vars => [Alive]_vars
  BY <1>1
<1> QED BY <1>2, Invariance, PTL DEF Spec, DeadTokenStaysDead

\* The server is only asked for a token while there is no usable one.
THEOREM NoWasteTheorem == Spec => NoTokenWasted
<1>1. ASSUME Inv, Next, issued' # issued
      PROVE  ~Usable
  <2>1. PICK c \in Call : TenantGrants(c)
    BY <1>1 DEF Next, CallStep, Expire, Lock, UseCached, AskFirstTenant, TenantFails, SendFails,
                Unauthorized, Invalidate, SingleAnswered, CodesArrive, DropForDetail,
                DetailArrives, DetailFails, DetailUnauthorized, limitVars
  <2> QED BY <1>1, <2>1 DEF TenantGrants, Inv, Exclusion, Asking
<1>2. Inv /\ [Next]_vars => [issued' # issued => ~Usable]_vars
  BY <1>1
<1> QED BY <1>2, Invariance, PTL DEF Spec, NoTokenWasted
=============================================================================
