---------------------------- MODULE FreshAnswers ----------------------------
(***************************************************************************)
(* What the result pipeline promises a visitor, with no cache in it: a     *)
(* request names a position and says whether it wants live air traffic,    *)
(* and is answered once, with a reading of that very position that began   *)
(* at most Bound ago and that carries the traffic if it was asked for.     *)
(***************************************************************************)
EXTENDS Integers

CONSTANTS Req, Key, NoAnswer, Bound

VARIABLES
    clock,
    asked,    \* [Req -> NoAnswer, or what was asked]
    answered  \* [Req -> NoAnswer, or the reading given as the answer]

promiseVars == <<clock, asked, answered>>

Question == [key : Key, traffic : BOOLEAN]
Reading == [key : Key, traffic : BOOLEAN, begun : Nat]

PromiseInit ==
    /\ clock = 0
    /\ asked = [r \in Req |-> NoAnswer]
    /\ answered = [r \in Req |-> NoAnswer]

Pass == clock' = clock + 1 /\ UNCHANGED <<asked, answered>>

\* The reading a reply is made of: of the position asked for, recent enough,
\* and with the traffic if that was asked for.
Suitable(d, q, t) ==
    /\ d.key = q.key
    /\ d.begun <= t /\ t - d.begun <= Bound
    /\ q.traffic => d.traffic

Ask(r, q) ==
    /\ asked[r] = NoAnswer
    /\ asked' = [asked EXCEPT ![r] = q]
    /\ UNCHANGED <<clock, answered>>

Answer(r, d) ==
    /\ asked[r] # NoAnswer /\ answered[r] = NoAnswer
    /\ Suitable(d, asked[r], clock)
    /\ answered' = [answered EXCEPT ![r] = d]
    /\ UNCHANGED <<clock, asked>>

\* A cache hit asks and answers in one step.
AskAndAnswer(r, q, d) ==
    /\ asked[r] = NoAnswer
    /\ Suitable(d, q, clock)
    /\ asked' = [asked EXCEPT ![r] = q]
    /\ answered' = [answered EXCEPT ![r] = d]
    /\ UNCHANGED clock

AskNext ==
    \E r \in Req, q \in Question :
        \/ Ask(r, q)
        \/ \E b \in 0..clock, w \in BOOLEAN :
             AskAndAnswer(r, q, [key |-> q.key, traffic |-> w, begun |-> b])

AnswerNext ==
    \E r \in Req, k \in Key, b \in 0..clock, w \in BOOLEAN :
        Answer(r, [key |-> k, traffic |-> w, begun |-> b])

PromiseNext == Pass \/ AskNext \/ AnswerNext

PromiseSpec == PromiseInit /\ [][PromiseNext]_promiseVars
=============================================================================
