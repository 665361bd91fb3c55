------------------------------- MODULE Limits --------------------------------
(***************************************************************************)
(* Two computations of the agent: how long it waits before it sends a      *)
(* result again (outbox.go, backoff) and the memory it allows itself       *)
(* (memlimit.go).  Sizes are in MiB.                                       *)
(***************************************************************************)
EXTENDS Integers

CONSTANTS
    Mask,           \* the jitter is drawn below it: 2^31, in nanoseconds
    Multiplier,     \* of the generator
    Increment,      \* of the generator
    NoCap           \* cgroup v1: what says "unlimited"

Least(x, y)    == IF x < y THEN x ELSE y
Greatest(x, y) == IF x < y THEN y ELSE x

Draw(seed, attempt) == (seed * Multiplier + attempt * Increment) % Mask

\* Mutation: one doubling too many.
Redoubled(base, max) ==
    LET d[n \in Nat] == IF n = 0 THEN 2 * base
                        ELSE IF d[n - 1] < max THEN 2 * d[n - 1] ELSE d[n - 1]
    IN  d

\* base, doubled as often as attempt says or until it has reached max.
Doubled(base, max) ==
    LET d[n \in Nat] == IF n = 0 THEN base
                        ELSE IF d[n - 1] < max THEN 2 * d[n - 1] ELSE d[n - 1]
    IN  d

Backoff(attempt, base, max, seed) ==
    LET d == Least(Doubled(base, max)[attempt], max)  span == d \div 4
    IN  IF span <= 0 THEN d ELSE d + (Draw(seed, attempt) % span)

\* What the process is told of its memory; 0 for a file or a variable that is
\* absent, "max" or not a positive number.
Env == [gomemlimit : BOOLEAN, override : Nat, v2 : Nat, v1 : Nat]

CgroupMemLimit(env) ==
    IF env.v2 > 0 THEN env.v2 ELSE IF env.v1 < NoCap THEN env.v1 ELSE 0

Cap(env) == IF env.override > 0 THEN env.override ELSE CgroupMemLimit(env)

\* The soft limit that is set, 0 for none.
SoftLimit(env) ==
    IF env.gomemlimit \/ Cap(env) = 0 THEN 0
    ELSE Greatest(Cap(env) - Greatest(Cap(env) \div 5, 32), 48)
=============================================================================
