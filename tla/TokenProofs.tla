----------------------------- MODULE TokenProofs ----------------------------
(***************************************************************************)
(* Proof that the cache never hands out a dead token, for any number of    *)
(* goroutines, any lifetimes and every margin that covers the timeout.     *)
(***************************************************************************)
EXTENDS AccessToken, TLAPS

Answer == [ttl : Nat, real : Nat, store : Nat]

LEMMA LivesAreTimes == Lives \subseteq Nat \ {0}
  BY TimesAssumption DEF Lives, Life

LEMMA NoAnswerTyped == NoAnswer \in Answer /\ NoAnswer.ttl = 0 /\ NoAnswer.real = 0
  BY DEF NoAnswer, NoStore, Answer

LEMMA InitTokenInv == Init => TokenInv
<1> SUFFICES ASSUME Init PROVE TokenInv
  OBVIOUS
<1> USE TimesAssumption DEF Init, NoStore
<1>1. age \in [Caller -> 0..Timeout] /\ answer \in [Caller -> Answer]
  BY NoAnswerTyped
<1> QED BY <1>1, NoAnswerTyped DEF TokenInv, Answer

(***************************************************************************)
(* A step of one call: the grant is sent, answered, dropped or cached.     *)
(***************************************************************************)
LEMMA GrantStep ==
  ASSUME TokenInv, NEW c \in Caller,
         Call(c) \/ Issue(c) \/ GrantFails(c) \/ Retry(c) \/ Adopt(c)
  PROVE  TokenInv'
<1> USE TimesAssumption, LivesAreTimes
    DEF TokenInv, Goto, UnderWay, cacheVars, callVars
<1>1. CASE Call(c) \/ Retry(c) \/ Adopt(c)
  BY <1>1 DEF Call, Retry, Adopt
<1>2. CASE Issue(c)
  <2>1. PICK ttl \in Lives :
          answer' = [answer EXCEPT ![c] = [ttl |-> ttl, real |-> ttl, store |-> current]]
    BY <1>2 DEF Issue
  <2>2. [ttl |-> ttl, real |-> ttl, store |-> current] \in Answer
    BY DEF Answer
  <2>3. answer' \in [Caller -> Answer] /\ ttl \in Nat
    BY <2>1, <2>2 DEF Answer
  <2>4. \A d \in Caller : answer'[d].ttl <= answer'[d].real + age'[d]
    BY <1>2, <2>1, <2>3 DEF Issue
  <2>5. \A d \in Caller : ~UnderWay(d)' => answer'[d].ttl = 0
    BY <1>2, <2>1 DEF Issue
  <2> QED BY <1>2, <2>3, <2>4, <2>5 DEF Issue, Answer
<1>3. CASE GrantFails(c)
  <2>1. answer' \in [Caller -> Answer] /\ age' \in [Caller -> 0..Timeout]
    BY <1>3, NoAnswerTyped DEF GrantFails, Answer
  <2>2. pc' \in [Caller -> {"idle", "grant", "answered", "backoff", "adopted"}]
    BY <1>3 DEF GrantFails
  <2>3. \A d \in Caller : answer'[d].ttl <= answer'[d].real + age'[d]
    BY <1>3, NoAnswerTyped DEF GrantFails
  <2>4. \A d \in Caller : ~UnderWay(d)' => answer'[d].ttl = 0
    BY <1>3, NoAnswerTyped DEF GrantFails
  <2> QED BY <1>3, <2>1, <2>2, <2>3, <2>4 DEF GrantFails, Answer
<1> QED BY <1>1, <1>2, <1>3

\* The margin covers the age of the grant: the cache ends with the token or
\* before it.
LEMMA CacheStep ==
  ASSUME TokenInv, NEW c \in Caller, Cache(c)
  PROVE  TokenInv'
<1> USE TimesAssumption DEF TokenInv, Cache, Goto
<1>1. /\ age[c] \in 0..Timeout /\ answer[c] \in Answer
      /\ answer[c].ttl <= answer[c].real + age[c]
  BY DEF Answer
<1>2. left' \in Nat /\ real' \in Nat /\ left' <= real'
  BY <1>1 DEF AtLeast0, Answer
<1>3. answer' \in [Caller -> Answer] /\ age' \in [Caller -> 0..Timeout]
  BY NoAnswerTyped DEF Answer
<1>4. \A d \in Caller : /\ answer'[d].ttl <= answer'[d].real + age'[d]
                        /\ ~UnderWay(d)' => answer'[d].ttl = 0
  BY NoAnswerTyped DEF UnderWay
<1> QED BY <1>2, <1>3, <1>4 DEF Answer

LEMMA TickStep ==
  ASSUME TokenInv, Tick
  PROVE  TokenInv'
<1> USE TimesAssumption DEF TokenInv, Tick, AtLeast0
<1>1. left' \in Nat /\ real' \in Nat /\ left' <= real'
  OBVIOUS
<1>2. ASSUME NEW c \in Caller
      PROVE  /\ age'[c] \in 0..Timeout
             /\ answer'[c] \in Answer
             /\ answer'[c].ttl = answer[c].ttl
             /\ answer'[c].ttl <= answer'[c].real + age'[c]
  <2>1. /\ answer[c] \in Answer
        /\ answer'[c] = [answer[c] EXCEPT !.real = AtLeast0(@ - 1)]
    BY DEF Answer
  <2>2. /\ answer'[c].ttl = answer[c].ttl
        /\ answer'[c].real = AtLeast0(answer[c].real - 1)
        /\ answer'[c] \in Answer
    BY <2>1 DEF Answer
  <2>3. CASE UnderWay(c)
    BY <2>1, <2>2, <2>3 DEF Answer
  <2>4. CASE ~UnderWay(c)
    BY <2>1, <2>2, <2>4 DEF Answer
  <2> QED BY <2>2, <2>3, <2>4
<1>3. age' \in [Caller -> 0..Timeout] /\ answer' \in [Caller -> Answer]
  BY <1>2
<1> QED BY <1>1, <1>2, <1>3 DEF UnderWay, Answer

LEMMA NextTokenInv == TokenInv /\ [Next]_vars => TokenInv'
<1> SUFFICES ASSUME TokenInv, [Next]_vars PROVE TokenInv'
  OBVIOUS
<1>1. CASE Change \/ UNCHANGED vars
  BY <1>1, CountsAssumption
  DEF Change, vars, callVars, cacheVars, TokenInv, UnderWay
<1> QED BY <1>1, GrantStep, CacheStep, TickStep DEF Next, Step

\* A token that token() takes from its cache (sdk.go:322) is still valid for
\* AMS, whichever of several overlapping grants was cached last.
THEOREM CacheIsValid == Spec => []CachedIsValid
<1>1. TokenInv => CachedIsValid
  BY DEF TokenInv, CachedIsValid
<1> QED BY <1>1, InitTokenInv, NextTokenInv, PTL DEF Spec

\* The inductive invariant holds: a grant loses no more life than it is old.
THEOREM TokenInvariant == Spec => []TokenInv
  BY InitTokenInv, NextTokenInv, PTL DEF Spec

(***************************************************************************)
(* Types.  A time is at most one of the lifetimes AMS may answer, a call   *)
(* counts fewer than MaxTries failures, and stores are versions of the     *)
(* platform's.                                                             *)
(***************************************************************************)
LEMMA SpanShrinks ==
  ASSUME NEW n \in Span, NEW k \in Nat
  PROVE  n \in Nat /\ AtLeast0(n - k) \in Span
<1> USE LivesAreTimes
<1>1. CASE n = 0
  BY <1>1 DEF Span, AtLeast0
<1>2. CASE \E ttl \in Lives : n \in 0..ttl
  <2> PICK ttl \in Lives : n \in 0..ttl
    BY <1>2
  <2>1. ttl \in Nat
    OBVIOUS
  <2>2. n \in Nat /\ AtLeast0(n - k) \in 0..ttl
    BY <2>1 DEF AtLeast0
  <2> QED BY <2>2 DEF Span
<1> QED BY <1>1, <1>2 DEF Span

LEMMA LifeIsSpan == \A ttl \in Lives : ttl \in Span
<1> TAKE ttl \in Lives
<1>1. ttl \in 0..ttl
  BY LivesAreTimes
<1> QED BY <1>1 DEF Span

Typed == [ttl : Span, real : Span, store : 0..MaxVersion]

LEMMA NoAnswerIsTyped == NoAnswer \in Typed
  BY CountsAssumption DEF NoAnswer, NoStore, Typed, Span

LEMMA InitTypes == Init => TypeOK
<1> SUFFICES ASSUME Init PROVE TypeOK
  OBVIOUS
<1>1. answer \in [Caller -> Typed]
  BY NoAnswerIsTyped DEF Init
<1>2. 0 \in Span
  BY DEF Span
<1> QED BY <1>1, <1>2, TimesAssumption, CountsAssumption
       DEF Init, NoStore, TypeOK, Typed

LEMMA CallTypes ==
  ASSUME TypeOK, NEW c \in Caller, Issue(c) \/ Step(c)
  PROVE  TypeOK'
<1> USE TimesAssumption, CountsAssumption
    DEF TypeOK, Goto, cacheVars, callVars
<1>1. CASE Call(c) \/ Retry(c)
  BY <1>1 DEF Call, Retry
<1>2. CASE Issue(c)
  <2>1. PICK ttl \in Lives :
          answer' = [answer EXCEPT ![c] = [ttl |-> ttl, real |-> ttl, store |-> current]]
    BY <1>2 DEF Issue
  <2>2. [ttl |-> ttl, real |-> ttl, store |-> current] \in Typed
    BY LifeIsSpan DEF Typed
  <2>3. answer' \in [Caller -> Typed]
    BY <2>1, <2>2 DEF Typed
  <2> QED BY <1>2, <2>3 DEF Issue, Typed
<1>3. CASE GrantFails(c)
  <2>1. answer' \in [Caller -> Typed]
    BY <1>3, NoAnswerIsTyped DEF GrantFails, Typed
  <2>2. tries' \in [Caller -> 0..(MaxTries - 1)] /\ age' \in [Caller -> 0..Timeout]
    BY <1>3 DEF GrantFails
  <2>3. pc' \in [Caller -> {"idle", "grant", "answered", "backoff", "adopted"}]
    BY <1>3 DEF GrantFails
  <2> QED BY <1>3, <2>1, <2>2, <2>3 DEF GrantFails, Typed
<1>4. CASE Adopt(c)
  BY <1>4 DEF Adopt
<1>5. CASE Cache(c)
  <2>1. answer' \in [Caller -> Typed]
    BY <1>5, NoAnswerIsTyped DEF Cache, Typed
  <2>2. left' \in Span /\ real' \in Span
    BY <1>5, SpanShrinks DEF Cache
  <2>3. tries' \in [Caller -> 0..(MaxTries - 1)] /\ age' \in [Caller -> 0..Timeout]
    BY <1>5 DEF Cache
  <2> QED BY <1>5, <2>1, <2>2, <2>3 DEF Cache, Typed
<1> QED BY <1>1, <1>2, <1>3, <1>4, <1>5 DEF Step

LEMMA TickTypes ==
  ASSUME TypeOK, Tick
  PROVE  TypeOK'
<1> USE TimesAssumption DEF TypeOK, Tick
<1>1. left' \in Span /\ real' \in Span
  BY SpanShrinks
<1>2. answer' \in [Caller -> Typed]
  <2> SUFFICES ASSUME NEW c \in Caller PROVE answer'[c] \in Typed
    BY DEF Typed
  <2>1. answer[c] \in Typed /\ AtLeast0(answer[c].real - 1) \in Span
    BY SpanShrinks DEF Typed
  <2>2. answer'[c] = [answer[c] EXCEPT !.real = AtLeast0(@ - 1)]
    OBVIOUS
  <2> QED BY <2>1, <2>2 DEF Typed
<1>3. age' \in [Caller -> 0..Timeout]
  OBVIOUS
<1> QED BY <1>1, <1>2, <1>3 DEF Typed

\* Every variable has its type (sdk.go, token and fetchToken).
THEOREM TokenTypes == Spec => []TypeOK
<1>1. TypeOK /\ [Next]_vars => TypeOK'
  <2> SUFFICES ASSUME TypeOK, [Next]_vars PROVE TypeOK'
    OBVIOUS
  <2>1. CASE Change \/ UNCHANGED vars
    BY <2>1, CountsAssumption DEF Change, vars, callVars, cacheVars, TypeOK
  <2> QED BY <2>1, CallTypes, TickTypes DEF Next
<1> QED BY <1>1, InitTypes, PTL DEF Spec
=============================================================================
