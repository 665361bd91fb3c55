---------------------------- MODULE AccessToken -----------------------------
(***************************************************************************)
(* The cached AMS access token and the data-plane configuration that       *)
(* travels with it (sdk.go: token, fetchToken, applyDP).                   *)
(*                                                                         *)
(* Every control call of the agent (heartbeat, poll, report) asks for the  *)
(* token.  The cache is read and written under tmu, but the grant runs     *)
(* without the lock, so several goroutines may hold grants of different    *)
(* age at once.  Each grant also delivers the platform's current store,    *)
(* which is adopted under dmu.                                             *)
(*                                                                         *)
(* Time is relative: the model keeps how long things still last, and Tick  *)
(* lets one unit pass.  A store is a version number, NoStore where none is *)
(* delivered (an add-on enrolled before delivery existed).                 *)
(***************************************************************************)
EXTENDS Integers

CONSTANTS
    Caller,         \* goroutines that ask for the token
    Lifetimes,      \* expires_in values AMS may answer, in ticks; 0 for none
    DefaultLife,    \* the lifetime assumed of a token that states none (300s)
    Margin,         \* safety margin of the cache (30s)
    Timeout,        \* what a grant may last at most (30s HTTP timeout)
    MaxTries,       \* grants per call (4)
    MaxVersion,     \* bound: changes of the platform's store
    EnvStore        \* is STORE_SPEC set in the environment?

ASSUME TimesAssumption ==
    /\ Lifetimes \subseteq Nat /\ DefaultLife \in Nat \ {0}
    /\ Margin \in Nat /\ Timeout \in Nat /\ Timeout <= Margin
ASSUME CountsAssumption ==
    /\ MaxTries \in Nat \ {0} /\ MaxVersion \in Nat \ {0} /\ EnvStore \in BOOLEAN

VARIABLES
    pc,         \* pc[c]: where the call of c is in token()
    tries,      \* tries[c]: grants that have failed in this call
    age,        \* age[c]: how long the grant of c has been under way
    answer,     \* answer[c]: the grant AMS has issued to c
    left,       \* how long tok counts as valid (tokExp - now), 0 for expired
    real,       \* how long tok is valid for AMS
    store,      \* the store of the data plane in use
    current     \* the platform's store

callVars  == <<pc, tries, age, answer>>
cacheVars == <<left, real>>
vars == <<callVars, cacheVars, store, current>>

\* ttl is the lifetime at the time of the grant, real what is left of it.
NoStore == 0
NoAnswer == [ttl |-> 0, real |-> 0, store |-> NoStore]

Init ==
    /\ pc = [c \in Caller |-> "idle"]
    /\ tries = [c \in Caller |-> 0]
    /\ age = [c \in Caller |-> 0]
    /\ answer = [c \in Caller |-> NoAnswer]
    /\ left = 0 /\ real = 0
    /\ current \in {NoStore, 1}
    /\ store = current

Goto(c, from, to) == pc[c] = from /\ pc' = [pc EXCEPT ![c] = to]

\* token() finds no valid token and starts a grant outside the lock.  (When
\* it finds one, it returns it and nothing changes.)
Call(c) ==
    /\ Goto(c, "idle", "grant")
    /\ left = 0
    /\ UNCHANGED <<tries, age, answer, cacheVars, store, current>>

\* The lifetime fetchToken returns for a stated one.
Life(stated) == IF stated > 0 THEN stated ELSE DefaultLife
Lives == {Life(stated) : stated \in Lifetimes}

\* AMS issues a token: external.  It grants the lifetime it states; one that
\* states none is assumed to grant at least the default.
Issue(c) ==
    /\ Goto(c, "grant", "answered")
    /\ \E ttl \in Lives :
         answer' = [answer EXCEPT ![c] =
                      [ttl |-> ttl, real |-> ttl, store |-> current]]
    /\ UNCHANGED <<tries, age, cacheVars, store, current>>

\* Mutation: one grant more than the loop allows.
FailsOneLater(c) ==
    /\ \/ Goto(c, "grant", IF tries[c] < MaxTries THEN "backoff" ELSE "idle")
       \/ Goto(c, "answered", IF tries[c] < MaxTries THEN "backoff" ELSE "idle")
    /\ tries' = [tries EXCEPT ![c] = IF @ < MaxTries THEN @ + 1 ELSE 0]
    /\ age' = [age EXCEPT ![c] = 0]
    /\ answer' = [answer EXCEPT ![c] = NoAnswer]
    /\ UNCHANGED <<cacheVars, store, current>>

\* No answer, not a 200, or no token in it: try again after a backoff, or
\* give up and go on unauthenticated.
GrantFails(c) ==
    /\ \/ Goto(c, "grant", IF tries[c] + 1 < MaxTries THEN "backoff" ELSE "idle")
       \/ Goto(c, "answered", IF tries[c] + 1 < MaxTries THEN "backoff" ELSE "idle")
    /\ tries' = [tries EXCEPT ![c] = IF @ + 1 < MaxTries THEN @ + 1 ELSE 0]
    /\ age' = [age EXCEPT ![c] = 0]
    /\ answer' = [answer EXCEPT ![c] = NoAnswer]
    /\ UNCHANGED <<cacheVars, store, current>>

Retry(c) ==
    /\ Goto(c, "backoff", "grant")
    /\ UNCHANGED <<tries, age, answer, cacheVars, store, current>>

\* Mutation: only the first delivered store is adopted.
AdoptOnce(c) ==
    /\ Goto(c, "answered", "adopted")
    /\ store' = IF EnvStore \/ store # NoStore THEN store ELSE answer[c].store
    /\ UNCHANGED <<tries, age, answer, cacheVars, current>>

\* fetchToken adopts the store of the answer, if it has one, unless the
\* environment sets it.
Adopt(c) ==
    /\ Goto(c, "answered", "adopted")
    /\ store' = IF EnvStore \/ answer[c].store = NoStore THEN store
                ELSE answer[c].store
    /\ UNCHANGED <<tries, age, answer, cacheVars, current>>

AtLeast0(n) == IF n > 0 THEN n ELSE 0

\* Mutation: no safety margin.
CacheToTheEnd(c) ==
    /\ Goto(c, "adopted", "idle")
    /\ left' = answer[c].ttl
    /\ real' = answer[c].real
    /\ tries' = [tries EXCEPT ![c] = 0]
    /\ age' = [age EXCEPT ![c] = 0]
    /\ answer' = [answer EXCEPT ![c] = NoAnswer]
    /\ UNCHANGED <<store, current>>

\* token() caches the answer until Margin before its end.
Cache(c) ==
    /\ Goto(c, "adopted", "idle")
    /\ left' = AtLeast0(answer[c].ttl - Margin)
    /\ real' = answer[c].real
    /\ tries' = [tries EXCEPT ![c] = 0]
    /\ age' = [age EXCEPT ![c] = 0]
    /\ answer' = [answer EXCEPT ![c] = NoAnswer]
    /\ UNCHANGED <<store, current>>

\* The operator of the platform moves the store: external.
Change ==
    /\ current < MaxVersion
    /\ current' = current + 1
    /\ UNCHANGED <<callVars, cacheVars, store>>

\* A grant under way has Timeout at most; the goroutine that has its answer
\* is not suspended beyond that.
UnderWay(c) == pc[c] \in {"grant", "answered", "adopted"}

Tick ==
    /\ \A c \in Caller : UnderWay(c) => age[c] < Timeout
    /\ age' = [c \in Caller |-> IF UnderWay(c) THEN age[c] + 1 ELSE 0]
    /\ answer' = [c \in Caller |->
                    [answer[c] EXCEPT !.real = AtLeast0(@ - 1)]]
    /\ left' = AtLeast0(left - 1)
    /\ real' = AtLeast0(real - 1)
    /\ UNCHANGED <<pc, tries, store, current>>

Step(c) == Call(c) \/ GrantFails(c) \/ Retry(c) \/ Adopt(c) \/ Cache(c)

Next == Change \/ Tick \/ \E c \in Caller : Issue(c) \/ Step(c)

Spec == Init /\ [][Next]_vars

(* Fairness.  Time passes; heartbeats and polls keep asking; a call makes    *)
(* progress; AMS answers at last, and an answer gets through at last.        *)
FairSpec ==
    /\ Spec
    /\ WF_vars(Tick)
    /\ \A c \in Caller :
         /\ WF_vars(Step(c)) /\ SF_vars(Call(c))
         /\ SF_vars(Issue(c)) /\ SF_vars(Adopt(c))

-----------------------------------------------------------------------------
(* Properties.                                                              *)

Span == {0} \cup UNION {0..ttl : ttl \in Lives}

TypeOK ==
    /\ pc \in [Caller -> {"idle", "grant", "answered", "backoff", "adopted"}]
    /\ tries \in [Caller -> 0..(MaxTries - 1)]
    /\ age \in [Caller -> 0..Timeout]
    /\ answer \in [Caller -> [ttl : Span, real : Span, store : 0..MaxVersion]]
    /\ left \in Span /\ real \in Span
    /\ store \in 0..MaxVersion /\ current \in 0..MaxVersion

\* A token taken from the cache is valid for AMS too: the margin covers the
\* time a grant may take, whichever of several concurrent grants is cached
\* last.
CachedIsValid == left > 0 => real > 0

\* "keeps store/token current" (sdk.go:382): when the platform no longer moves
\* the store, the data plane ends up on its current one and stays there,
\* although grants of different age overlap.
StoreCatchesUp == ~EnvStore => <>[](store = current)

-----------------------------------------------------------------------------
(* The inductive invariant behind CachedIsValid: a grant loses no more life  *)
(* than it is old, so the cache runs out first.                              *)
TokenInv ==
    /\ age \in [Caller -> 0..Timeout]
    /\ answer \in [Caller -> [ttl : Nat, real : Nat, store : Nat]]
    /\ \A c \in Caller : answer[c].ttl <= answer[c].real + age[c]
    /\ \A c \in Caller : ~ UnderWay(c) => answer[c].ttl = 0
    /\ pc \in [Caller -> {"idle", "grant", "answered", "backoff", "adopted"}]
    /\ current \in Nat
    /\ left \in Nat /\ real \in Nat
    /\ left <= real
=============================================================================
