----------------------------- MODULE AgentProofs -----------------------------
(***************************************************************************)
(* Proofs that enrollment spends the setup key only on faults and that     *)
(* results keep their identity, for every number of uses and faults; and   *)
(* what the soft memory limit leaves free, for every size of the container.*)
(***************************************************************************)
EXTENDS Agent, TLAPS, WellFoundedInduction

Inv == Types /\ AgentInv

LEMMA InitInv == Init => Inv
  BY BudgetAssumption DEF Init, Inv, Types, AgentInv, Held, OwnResults, Id,
                          None, Torn

LEMMA AttemptBound == \A left : attempt \in 0..MaxAttempts =>
                        NextAttempt(left) \in 0..MaxAttempts
  BY BudgetAssumption DEF NextAttempt, Least

(***************************************************************************)
(* Enrollment: AMS issues the next identity, and the agent holds it or has *)
(* paid for it with a fault.                                               *)
(***************************************************************************)
LEMMA EnrollStep ==
  ASSUME Inv, Start \/ ReadCredentials \/ Redeem \/ RedeemUnheard \/ EnrollFails
  PROVE  Inv'
<1> USE BudgetAssumption DEF Inv, Types, AgentInv, Held, OwnResults, Id, None,
        Torn, amsVars, loopVars
<1>1. CASE Start
  BY <1>1 DEF Start, Goto
<1>2. CASE ReadCredentials
  BY <1>2 DEF ReadCredentials
<1>3. CASE Redeem
  BY <1>3 DEF Redeem, Goto, Issue
<1>4. CASE RedeemUnheard
  BY <1>4 DEF RedeemUnheard, Issue, Fault, Ended
<1>5. CASE EnrollFails
  BY <1>5 DEF EnrollFails, Ended
<1> QED BY <1>1, <1>2, <1>3, <1>4, <1>5

(***************************************************************************)
(* Saving the credentials: the file is torn in between, and an agent that  *)
(* goes to work without it is on record.                                   *)
(***************************************************************************)
LEMMA SaveStep ==
  ASSUME Inv, Truncate \/ Write \/ PersistFails \/ Kill
  PROVE  Inv'
<1> USE BudgetAssumption DEF Inv, Types, AgentInv, Held, OwnResults, Id, None,
        Torn, amsVars, loopVars
<1>1. CASE Truncate
  BY <1>1 DEF Truncate, Goto
<1>2. CASE Write
  BY <1>2 DEF Write, Goto
<1>3. CASE PersistFails
  BY <1>3 DEF PersistFails, Fault
<1>4. CASE Kill
  BY <1>4 DEF Kill, Fault, Ended
<1> QED BY <1>1, <1>2, <1>3, <1>4

(***************************************************************************)
(* Work: what is pending belongs to the saved identity or to one that was  *)
(* never saved, so it is sent under its own identity or is on record.      *)
(***************************************************************************)
LEMMA WorkStep ==
  ASSUME Inv, Report \/ Flush \/ Stop \/ LoseVolume
  PROVE  Inv'
<1> USE BudgetAssumption DEF Inv, Types, AgentInv, Held, OwnResults, Id, None,
        Torn, amsVars, loopVars
<1>1. CASE Report
  BY <1>1 DEF Report
<1>2. CASE Flush
  <2>1. id \in Id /\ pending' \subseteq pending
    BY <1>2 DEF Flush
  <2>2. attempt' \in 0..MaxAttempts
    BY <1>2, AttemptBound DEF Flush
  <2>3. \A o \in pending : o = id \/ o \in unsaved
    BY <1>2 DEF Flush
  <2>4. sent' \subseteq Id \X Id
    BY <1>2, <2>1 DEF Flush
  <2>5. \A p \in sent' : p[1] = p[2] \/ p[1] \in unsaved'
    BY <1>2, <2>3 DEF Flush
  <2> QED BY <1>2, <2>1, <2>2, <2>4, <2>5 DEF Flush
<1>3. CASE Stop
  BY <1>3 DEF Stop, Ended
<1>4. CASE LoseVolume
  BY <1>4 DEF LoseVolume, Fault
<1> QED BY <1>1, <1>2, <1>3, <1>4

LEMMA NextInv == Inv /\ [Next]_vars => Inv'
<1> SUFFICES ASSUME Inv, [Next]_vars PROVE Inv'
  OBVIOUS
<1>1. CASE UNCHANGED vars
  BY <1>1 DEF Inv, Types, AgentInv, Held, OwnResults, vars, amsVars, loopVars
<1> QED BY <1>1, EnrollStep, SaveStep, WorkStep DEF Next

LEMMA Invariance == Spec => []Inv
  BY InitInv, NextInv, PTL DEF Spec

(***************************************************************************)
(* sdk.go:454-484: beyond the first, every redemption of the setup key     *)
(* makes up for a fault, however often the agent stops and starts.         *)
(***************************************************************************)
THEOREM KeyIsSpentOnFaults == Spec => []KeyBudget
<1>1. Inv => KeyBudget
  BY BudgetAssumption DEF Inv, Types, AgentInv, Held, KeyBudget
<1> QED BY <1>1, Invariance, PTL

(***************************************************************************)
(* sdk.go:465-479: with a use more than there are faults, an agent that    *)
(* comes to enroll finds a use for itself and one for every fault still to *)
(* come, so it is never locked out: the safety half of EventuallyUp.       *)
(***************************************************************************)
KeyLasts == Uses > MaxFaults /\ pc = "enroll" => uses > MaxFaults - faults

THEOREM KeyLastsForEveryFault == Spec => []KeyLasts
<1>1. Inv => KeyLasts
  BY BudgetAssumption DEF Inv, Types, AgentInv, Held, KeyLasts
<1> QED BY <1>1, Invariance, PTL

(***************************************************************************)
(* sdk.go:727-739: a result goes to CBS under the identity its command was *)
(* given to, or that identity was never saved.                             *)
(***************************************************************************)
THEOREM ResultsKeepIdentity == Spec => []OwnResults
<1>1. Inv => OwnResults
  BY DEF Inv, AgentInv
<1> QED BY <1>1, Invariance, PTL

(***************************************************************************)
(* memlimit.go:19-38: a soft limit is set exactly if a cap is known and    *)
(* GOMEMLIMIT is not, it is at least 48 MiB, and in a container of 80 MiB  *)
(* or more it leaves a fifth and at least 32 MiB to the CLI.               *)
(***************************************************************************)
THEOREM SoftLimitFits ==
  ASSUME NEW env \in Env, NoCap \in Nat
  PROVE  /\ SoftLimit(env) = 0 <=> env.gomemlimit \/ Cap(env) = 0
         /\ SoftLimit(env) # 0 =>
              /\ SoftLimit(env) >= 48
              /\ Cap(env) >= 80 => /\ SoftLimit(env) <= Cap(env) - 32
                                   /\ SoftLimit(env) <= Cap(env) - Cap(env) \div 5
<1> DEFINE c == Cap(env)
<1>1. c \in Nat
  BY DEF Env, Cap, CgroupMemLimit
<1> HIDE DEF c
<1>2. c \div 5 \in Nat /\ c \div 5 <= c
  BY <1>1
<1>3. SoftLimit(env) = IF env.gomemlimit \/ c = 0 THEN 0
                       ELSE Greatest(c - Greatest(c \div 5, 32), 48)
  BY DEF SoftLimit, c
<1>4. c >= 80 => c - c \div 5 >= 48
  BY <1>1
<1>5. Greatest(c \div 5, 32) \in Nat /\ Greatest(c \div 5, 32) >= 32
      /\ Greatest(c \div 5, 32) >= c \div 5
  BY <1>2 DEF Greatest
<1>6. c >= 80 => c - Greatest(c \div 5, 32) >= 48
  BY <1>1, <1>2, <1>4 DEF Greatest
<1>7. Greatest(c - Greatest(c \div 5, 32), 48) >= 48
  BY <1>1, <1>5 DEF Greatest
<1>8. c >= 80 => Greatest(c - Greatest(c \div 5, 32), 48)
                   = c - Greatest(c \div 5, 32)
  BY <1>1, <1>5, <1>6 DEF Greatest
<1> QED BY <1>1, <1>2, <1>3, <1>5, <1>7, <1>8 DEF c

(***************************************************************************)
(* Induction over the naturals as a statement about sets, from the least   *)
(* element of a set of naturals, and with it the existence of a sequence   *)
(* that is defined by its first element and a step.                        *)
(***************************************************************************)
LEMMA NatWF ==
  ASSUME NEW T, T \subseteq Nat, T # {}
  PROVE  \E x \in T : \A y \in T : ~(y < x)
<1> DEFINE R == {p \in Nat \X Nat : p[1] < p[2]}
<1>1. IsWellFoundedOn(R, Nat)
  BY NatLessThanWellFounded DEF OpToRel
<1>2. \A x,y \in Nat : y < x => <<y,x>> \in R
  OBVIOUS
<1> HIDE DEF R
<1>3. \E x \in T : \A y \in T : ~(<<y,x>> \in R)
  BY <1>1, WFMin
<1> QED BY <1>2, <1>3

LEMMA SetInd ==
  ASSUME NEW S, 0 \in S, \A n \in Nat : n \in S => n + 1 \in S
  PROVE  Nat \subseteq S
<1> SUFFICES ASSUME ~(Nat \subseteq S) PROVE FALSE
  OBVIOUS
<1> DEFINE T == Nat \ S
<1>1. PICK x \in T : \A y \in T : ~(y < x)
  BY NatWF
<1>2. x # 0 /\ x - 1 \in Nat /\ x - 1 \notin T
  BY <1>1
<1>3. (x - 1) + 1 \in S
  BY <1>2
<1> QED BY <1>1, <1>3

LEMMA Iterates ==
  ASSUME NEW base \in Int, NEW step \in [Int -> Int]
  PROVE  \E f \in [Nat -> Int] :
           f[0] = base /\ \A n \in Nat : f[n + 1] = step[f[n]]
<1> DEFINE Good(g, n) == /\ g \in [0..n -> Int] /\ g[0] = base
                         /\ \A k \in 0..n : k > 0 => g[k] = step[g[k - 1]]
           S == {n \in Nat : \E g \in [0..n -> Int] : Good(g, n)}
<1>1. Nat \subseteq S
  <2>1. 0 \in S
    <3>1. Good([k \in 0..0 |-> base], 0)
      OBVIOUS
    <3> QED BY <3>1
  <2>2. ASSUME NEW n \in Nat, n \in S PROVE n + 1 \in S
    <3> PICK g \in [0..n -> Int] : Good(g, n)
      BY <2>2
    <3> DEFINE h == [k \in 0..(n + 1) |-> IF k = n + 1 THEN step[g[n]] ELSE g[k]]
    <3>1. h \in [0..(n + 1) -> Int] /\ h[0] = base
      OBVIOUS
    <3>2. ASSUME NEW k \in 0..(n + 1), k > 0 PROVE h[k] = step[h[k - 1]]
      <4>1. k - 1 \in 0..n /\ h[k - 1] = g[k - 1]
        BY <3>2
      <4>2. CASE k = n + 1
        BY <4>1, <4>2
      <4>3. CASE k # n + 1
        BY <3>2, <4>1, <4>3
      <4> QED BY <4>2, <4>3
    <3>3. Good(h, n + 1)
      BY <3>1, <3>2
    <3> HIDE DEF Good, h
    <3> QED BY <3>1, <3>3
  <2> QED BY <2>1, <2>2, SetInd
<1>2. ASSUME NEW n \in Nat, NEW m \in Nat, NEW g, NEW h, Good(g, n), Good(h, m)
      PROVE  \A k \in Nat : k <= n /\ k <= m => g[k] = h[k]
  <2> DEFINE T == {k \in Nat : k <= n /\ k <= m => g[k] = h[k]}
  <2>1. 0 \in T
    BY <1>2
  <2>2. ASSUME NEW k \in Nat, k \in T PROVE k + 1 \in T
    <3>1. SUFFICES ASSUME k + 1 <= n, k + 1 <= m PROVE g[k + 1] = h[k + 1]
      OBVIOUS
    <3>2. g[k] = h[k] /\ (k + 1) - 1 = k /\ k + 1 \in 0..n /\ k + 1 \in 0..m /\ k + 1 > 0
      BY <2>2, <3>1
    <3>3. g[k + 1] = step[g[k]] /\ h[k + 1] = step[h[k]]
      BY <1>2, <3>2
    <3> QED BY <3>2, <3>3
  <2>3. Nat \subseteq T
    <3> HIDE DEF T
    <3> QED BY <2>1, <2>2, SetInd
  <2> QED BY <2>3
<1> DEFINE G(n) == CHOOSE g \in [0..n -> Int] : Good(g, n)
           f == [n \in Nat |-> G(n)[n]]
<1>3. ASSUME NEW n \in Nat PROVE Good(G(n), n)
  BY <1>1
<1> HIDE DEF G
<1>4. f \in [Nat -> Int] /\ f[0] = base
  BY <1>3
<1>5. ASSUME NEW n \in Nat PROVE f[n + 1] = step[f[n]]
  <2>1. Good(G(n), n) /\ Good(G(n + 1), n + 1)
    <3> HIDE DEF Good
    <3> QED BY <1>3
  <2>2. G(n)[n] = G(n + 1)[n]
    <3> HIDE DEF Good
    <3> QED BY <1>2, <2>1
  <2>3. G(n + 1)[n + 1] = step[G(n + 1)[(n + 1) - 1]]
    <3>1. n + 1 \in 0..(n + 1) /\ n + 1 > 0
      OBVIOUS
    <3> QED BY <2>1, <3>1
  <2> QED BY <2>2, <2>3
<1> QED BY <1>4, <1>5

(***************************************************************************)
(* The two recursive functions satisfy their equations, and Doubled is the *)
(* power of two that it stands for, as far as max.                         *)
(***************************************************************************)
LEMMA Pow2Unfolds ==
  Pow2[0] = 1 /\ \A n \in Nat : Pow2[n] \in Nat \ {0} /\ Pow2[n + 1] = 2 * Pow2[n]
<1> DEFINE step == [x \in Int |-> 2 * x]
           Eq(d) == d = [n \in Nat |-> IF n = 0 THEN 1 ELSE 2 * d[n - 1]]
<1>1. PICK f \in [Nat -> Int] : f[0] = 1 /\ \A n \in Nat : f[n + 1] = step[f[n]]
  <2>1. step \in [Int -> Int]
    OBVIOUS
  <2> HIDE DEF step
  <2>2. \A b \in Int : \E f \in [Nat -> Int] :
          f[0] = b /\ \A n \in Nat : f[n + 1] = step[f[n]]
    BY <2>1, Iterates
  <2>3. 1 \in Int
    OBVIOUS
  <2> QED BY <2>2, <2>3, Zenon
<1>2. Eq(f)
  <2>1. ASSUME NEW n \in Nat, n # 0 PROVE f[n] = step[f[n - 1]]
    <3>1. n - 1 \in Nat /\ (n - 1) + 1 = n
      BY <2>1
    <3> QED BY <1>1, <3>1
  <2>2. \A n \in Nat \ {0} : f[n - 1] \in Int
    OBVIOUS
  <2> QED BY <1>1, <2>1, <2>2
<1>3. Pow2 = CHOOSE d : Eq(d)
  BY DEF Pow2
<1>4. Eq(Pow2)
  <2> HIDE DEF Eq
  <2> QED BY <1>2, <1>3
<1>5. Pow2[0] = 1
  BY <1>4
<1>6. ASSUME NEW n \in Nat PROVE Pow2[n + 1] = 2 * Pow2[n]
  <2>1. n + 1 \in Nat /\ n + 1 # 0 /\ (n + 1) - 1 = n
    OBVIOUS
  <2> QED BY <1>4, <2>1
<1> DEFINE S == {n \in Nat : Pow2[n] \in Nat \ {0}}
<1>7. Nat \subseteq S
  <2>1. 0 \in S
    BY <1>5
  <2>2. ASSUME NEW n \in Nat, n \in S PROVE n + 1 \in S
    BY <1>6, <2>2
  <2> HIDE DEF S
  <2> QED BY <2>1, <2>2, SetInd
<1> QED BY <1>5, <1>6, <1>7

LEMMA DoubledUnfolds ==
  ASSUME NEW base \in Int, NEW max \in Int
  PROVE  /\ Doubled(base, max)[0] = base
         /\ \A n \in Nat : LET x == Doubled(base, max)[n] IN
              Doubled(base, max)[n + 1] = IF x < max THEN 2 * x ELSE x
<1> DEFINE step == [x \in Int |-> IF x < max THEN 2 * x ELSE x]
           Eq(d) == d = [n \in Nat |-> IF n = 0 THEN base
                                       ELSE IF d[n - 1] < max THEN 2 * d[n - 1] ELSE d[n - 1]]
<1>1. PICK f \in [Nat -> Int] : f[0] = base /\ \A n \in Nat : f[n + 1] = step[f[n]]
  <2>1. step \in [Int -> Int]
    OBVIOUS
  <2> HIDE DEF step
  <2> QED BY <2>1, Iterates
<1>2. Eq(f)
  <2>1. ASSUME NEW n \in Nat, n # 0 PROVE f[n] = step[f[n - 1]]
    <3>1. n - 1 \in Nat /\ (n - 1) + 1 = n
      BY <2>1
    <3> QED BY <1>1, <3>1
  <2>2. \A n \in Nat \ {0} : f[n - 1] \in Int
    OBVIOUS
  <2> QED BY <1>1, <2>1, <2>2
<1>3. Doubled(base, max) = CHOOSE d : Eq(d)
  BY DEF Doubled
<1>4. Eq(Doubled(base, max))
  <2> HIDE DEF Eq
  <2> QED BY <1>2, <1>3
<1> DEFINE D == Doubled(base, max)
<1>5. D = [n \in Nat |-> IF n = 0 THEN base
                         ELSE IF D[n - 1] < max THEN 2 * D[n - 1] ELSE D[n - 1]]
  BY <1>4
<1> HIDE DEF D
<1>6. D[0] = base
  BY <1>5
<1>7. ASSUME NEW n \in Nat PROVE D[n + 1] = IF D[n] < max THEN 2 * D[n] ELSE D[n]
  <2>1. n + 1 \in Nat /\ n + 1 # 0 /\ (n + 1) - 1 = n
    OBVIOUS
  <2> QED BY <1>5, <2>1
<1> QED BY <1>6, <1>7 DEF D

LEMMA DoubledIsPower ==
  ASSUME NEW base \in Nat \ {0}, NEW max \in Nat \ {0}, NEW n \in Nat
  PROVE  /\ Doubled(base, max)[n] \in Nat \ {0}
         /\ Least(Doubled(base, max)[n], max) = Least(base * Pow2[n], max)
<1> DEFINE D == Doubled(base, max)
           Agree(k) == /\ D[k] \in Nat \ {0}
                       /\ D[k] = base * Pow2[k]
                          \/ (D[k] >= max /\ base * Pow2[k] >= max)
           S == {k \in Nat : Agree(k)}
<1>1. D[0] = base /\ \A k \in Nat : D[k + 1] = IF D[k] < max THEN 2 * D[k] ELSE D[k]
  BY DoubledUnfolds
<1> HIDE DEF D
<1>2. Nat \subseteq S
  <2>1. 0 \in S
    BY <1>1, Pow2Unfolds
  <2>2. ASSUME NEW k \in Nat, k \in S PROVE k + 1 \in S
    <3> DEFINE x == base * Pow2[k]
               y == base * Pow2[k + 1]
    <3>1. x \in Nat /\ y = 2 * x
      BY Pow2Unfolds
    <3>2. D[k] \in Nat \ {0} /\ (D[k] = x \/ (D[k] >= max /\ x >= max))
      BY <2>2
    <3>3. D[k + 1] = IF D[k] < max THEN 2 * D[k] ELSE D[k]
      BY <1>1
    <3> HIDE DEF x, y
    <3>4. D[k + 1] \in Nat \ {0} /\ (D[k + 1] = y \/ (D[k + 1] >= max /\ y >= max))
      BY <3>1, <3>2, <3>3
    <3> QED BY <3>4 DEF y
  <2> HIDE DEF S
  <2> QED BY <2>1, <2>2, SetInd
<1>3. Agree(n)
  BY <1>2
<1>4. base * Pow2[n] \in Nat
  BY Pow2Unfolds
<1> QED BY <1>3, <1>4 DEF Least, D

LEMMA RemainderIsLess ==
  ASSUME NEW x \in Nat, NEW y \in Nat \ {0}
  PROVE  x % y \in Nat /\ x % y < y /\ x % y <= x
<1> DEFINE q == x \div y  m == x % y
<1>1. q \in Nat /\ m \in Nat /\ m < y /\ x = y * q + m
  OBVIOUS
<1> HIDE DEF q, m
<1>2. y * q \in Nat
  BY <1>1
<1>3. m <= x
  BY <1>1, <1>2
<1> QED BY <1>1, <1>3 DEF m

(***************************************************************************)
(* outbox.go:146-161: the delay before attempt n is base * 2^n capped at   *)
(* max, plus a jitter of less than a quarter of that, and less than Mask.  *)
(***************************************************************************)
THEOREM BackoffIsPaced ==
  ASSUME NEW n \in Nat, NEW base \in Nat \ {0}, NEW max \in Nat \ {0},
         NEW seed \in Nat
  PROVE  LET due  == Least(base * Pow2[n], max)
             delay == Backoff(n, base, max, seed) IN
           /\ delay \in Nat /\ due <= delay /\ delay < due + Mask
           /\ delay = due \/ 4 * delay < 5 * due
<1> DEFINE due == Least(base * Pow2[n], max)
           span == due \div 4
           draw == Draw(seed, n)
<1>1. due = Least(Doubled(base, max)[n], max) /\ due \in Nat
  BY DoubledIsPower DEF Least
<1>2. span \in Nat /\ 4 * span <= due
  BY <1>1
<1>3. draw \in Nat /\ draw < Mask
  <2> DEFINE z == seed * Multiplier + n * Increment
  <2>1. z \in Nat
    BY PaceAssumption
  <2> HIDE DEF z
  <2>2. z % Mask \in Nat /\ z % Mask < Mask
    BY <2>1, PaceAssumption
  <2> QED BY <2>2 DEF Draw, z
<1>4. Backoff(n, base, max, seed) = IF span <= 0 THEN due ELSE due + (draw % span)
  <2> DEFINE e == Least(Doubled(base, max)[n], max)
  <2>1. Backoff(n, base, max, seed)
          = IF e \div 4 <= 0 THEN e ELSE e + (draw % (e \div 4))
    BY DEF Backoff
  <2>2. e = due
    BY <1>1
  <2> HIDE DEF e, due, draw
  <2> QED BY <2>1, <2>2
<1> HIDE DEF span, draw, due
<1>5. span > 0 => draw % span \in Nat /\ draw % span < span /\ draw % span < Mask
  BY <1>2, <1>3, RemainderIsLess, PaceAssumption
<1> DEFINE jitter == draw % span
           delay  == Backoff(n, base, max, seed)
<1>6. /\ delay \in Nat /\ due <= delay /\ delay < due + Mask
      /\ delay = due \/ 4 * delay < 5 * due
  <2> HIDE DEF jitter, delay
  <2>1. CASE span <= 0
    BY <1>1, <1>4, <2>1, PaceAssumption DEF delay
  <2>2. CASE span > 0
    <3>1. jitter \in Nat /\ jitter < span /\ jitter < Mask
      BY <1>5, <2>2 DEF jitter
    <3>2. delay = due + jitter
      BY <1>2, <1>4, <2>2 DEF delay, jitter
    <3> QED BY <1>1, <1>2, <3>1, <3>2, PaceAssumption
  <2> QED BY <1>2, <2>1, <2>2
<1> QED BY <1>6 DEF due

(***************************************************************************)
(* sdk.go, reportLoop: attempt and delay change together.                  *)
(***************************************************************************)
PacedInv == Inv /\ TypeOK /\ RetryPaced

LEMMA InitPaced == Init => PacedInv
  BY InitInv DEF Init, PacedInv, TypeOK, RetryPaced, Inv

LEMMA NextPaced == PacedInv /\ [Next]_vars => PacedInv'
<1> SUFFICES ASSUME PacedInv, [Next]_vars PROVE PacedInv'
  OBVIOUS
<1>1. Inv'
  BY NextInv DEF PacedInv
<1>2. wait' \in Nat /\ RetryPaced'
  <2>1. CASE Flush
    <3> DEFINE max == Greatest(ReportBase, ReportMax)
    <3>1. attempt' \in Nat /\ id \in Nat
      BY <1>1, <2>1, BudgetAssumption
      DEF Flush, PacedInv, Inv, Types, AgentInv, Id, None
    <3>2. max \in Nat \ {0} /\ ReportBase \in Nat \ {0}
      BY PaceAssumption DEF Greatest
    <3>3. wait' = Backoff(attempt', ReportBase, max, id)
      BY <2>1 DEF Flush
    <3>4. Least(ReportBase * Pow2[attempt'], max) \in Nat
      BY <3>1, <3>2, Pow2Unfolds DEF Least
    <3> HIDE DEF max
    <3>5. /\ wait' \in Nat /\ Least(ReportBase * Pow2[attempt'], max) <= wait'
          /\ wait' < Least(ReportBase * Pow2[attempt'], max) + Mask
          /\ \/ wait' = Least(ReportBase * Pow2[attempt'], max)
             \/ 4 * wait' < 5 * Least(ReportBase * Pow2[attempt'], max)
      BY <3>1, <3>2, <3>3, BackoffIsPaced
    <3> QED BY <3>4, <3>5 DEF RetryPaced, max
  <2>2. CASE UNCHANGED <<attempt, wait>>
    BY <2>2 DEF PacedInv, TypeOK, RetryPaced
  <2>3. CASE wait' = 0
    BY <2>3 DEF RetryPaced
  <2> QED BY <2>1, <2>2, <2>3
      DEF Next, Start, ReadCredentials, Redeem, RedeemUnheard, EnrollFails,
          Truncate, Write, PersistFails, Report, Stop, Kill, LoseVolume, Ended,
          vars, loopVars
<1> QED BY <1>1, <1>2 DEF PacedInv, TypeOK, Inv

\* The delays of reportLoop (sdk.go) are the capped exponential ones, plus less
\* than a quarter and less than Mask, however long the results are refused.
THEOREM RetriesArePaced == Spec => []RetryPaced
<1>1. PacedInv => RetryPaced
  BY DEF PacedInv
<1> QED BY <1>1, InitPaced, NextPaced, PTL DEF Spec

\* Every variable has its type (sdk.go, Run and reportLoop).
THEOREM AgentTypes == Spec => []TypeOK
<1>1. PacedInv => TypeOK
  BY DEF PacedInv
<1> QED BY <1>1, InitPaced, NextPaced, PTL DEF Spec

\* The inductive invariant of enrollment holds: an identity that was issued is
\* held by the agent or was paid for with a fault.
THEOREM AgentInvariant == Spec => []AgentInv
<1>1. Inv => AgentInv
  BY DEF Inv
<1> QED BY <1>1, Invariance, PTL
=============================================================================
