------------------------------ MODULE Backoffs ------------------------------
(***************************************************************************)
(* The waits between reconnects, computed in two places: by WSPolicy of    *)
(* pkg/execution, which strategies ask, and by reconnectLoop of            *)
(* pkg/clob/ws, for a client made with the policy's ToCLOBConfig.          *)
(*                                                                         *)
(* Durations are whole numbers of a unit; floating point is exact up to    *)
(* the conversion to a Duration.  Multipliers are pairs, numerator first.  *)
(***************************************************************************)
EXTENDS Integers, FiniteSetsExt

CONSTANTS
    Durations,      \* delays a policy may have, 0 for unset
    Multipliers,    \* its multipliers, <<0, 1>> for unset
    Limits,         \* its limits of attempts, negative for unset
    LastAttempt,    \* bound: attempts looked at
    LongestDuration \* the largest Duration

VARIABLE policy     \* a WSPolicy and the processor it is used on

\* A number that is too large for a Duration becomes the largest one on some
\* processors and a negative one on others.
Policies ==
    [enabled : BOOLEAN, base : Durations, cap : Durations, multiplier : Multipliers,
     limit : Limits, saturates : BOOLEAN]

DefaultPolicy ==
    [enabled |-> TRUE, base |-> 2, cap |-> 30, multiplier |-> <<2, 1>>, limit |-> 5,
     saturates |-> FALSE]

\* WSPolicy.withDefaults; normalize of the client's configuration does the
\* same and finds nothing left to do.
WithDefaults(p) ==
    [p EXCEPT
        !.base = IF @ = 0 THEN DefaultPolicy.base ELSE @,
        !.cap = IF @ = 0 THEN DefaultPolicy.cap ELSE @,
        !.multiplier = IF @[1] = 0 THEN DefaultPolicy.multiplier ELSE @,
        !.limit = IF @ < 0 THEN DefaultPolicy.limit ELSE @]

Settled == WithDefaults(policy)

-----------------------------------------------------------------------------
(* WSPolicy.NextReconnectDelay.                                            *)

Continues(n) == Settled.enabled /\ n <= Settled.limit

\* math.Pow
Power(x, n) ==
    LET times[k \in 0 .. LastAttempt] == IF k = 0 THEN 1 ELSE x * times[k - 1]
    IN  times[n]

\* The base multiplied n - 1 times, before it becomes a Duration.
Grown(n) ==
    (Settled.base * Power(Settled.multiplier[1], n - 1)) \div Power(Settled.multiplier[2], n - 1)

Overflows(n) == Grown(n) > LongestDuration

Converted(x) ==
    IF x <= LongestDuration THEN x
    ELSE IF policy.saturates THEN LongestDuration ELSE -LongestDuration - 1

Capped(d) == Min({d, Settled.cap})

NextReconnectDelay(n) ==
    LET d == Capped(Converted(Grown(n)))
    IN  IF d <= 0 THEN Settled.base ELSE d

-----------------------------------------------------------------------------
(* reconnectLoop, for a client with Settled as its configuration.          *)

\* A limit of 0 is none.
Attempts(n) == Settled.enabled /\ (Settled.limit <= 0 \/ n <= Settled.limit)

\* Faulty variant: the delay is only capped where it grew.
NextDelayUncapped(d) ==
    LET grown == Converted((d * Settled.multiplier[1]) \div Settled.multiplier[2])
    IN  IF grown <= 0 THEN d ELSE Capped(grown)

NextDelay(d) ==
    LET grown == Converted((d * Settled.multiplier[1]) \div Settled.multiplier[2])
    IN  Capped(IF grown <= 0 THEN d ELSE grown)

Delay[n \in 1 .. LastAttempt] == IF n = 1 THEN Settled.base ELSE NextDelay(Delay[n - 1])

-----------------------------------------------------------------------------
(* A client made from a policy does what the policy tells the strategy: it *)
(* makes the same attempts, unless the limit is 0, which is no attempt for *)
(* the policy and no limit for the client.  The client waits the base      *)
(* delay first, even one above the cap, then never more than the cap; the  *)
(* policy says more than the cap only if it falls back to the base delay,  *)
(* which it does where the number rounds to 0, or overflows on a processor *)
(* that does not saturate, so that its delays drop.  Otherwise the client  *)
(* waits no longer than the policy says if the multiplier is at least one, *)
(* and just as long if it is whole; with one of at most one neither waits  *)
(* longer than the base delay, but the client may wait longer than the     *)
(* policy says: it never rounds to 0.                                      *)
PolicyIsFollowed ==
    LET base == Settled.base
        cap == Settled.cap
        numerator == Settled.multiplier[1]
        denominator == Settled.multiplier[2]
    IN  \A n \in 1 .. LastAttempt :
            /\ Attempts(n) <=> Settled.enabled /\ (Settled.limit = 0 \/ Continues(n))
            /\ Settled.limit = 0 => ~Continues(n)
            /\ 0 < Delay[n] /\ Delay[n] <= IF n = 1 THEN base ELSE cap
            /\ 0 < NextReconnectDelay(n)
            /\ NextReconnectDelay(n) <= cap \/ NextReconnectDelay(n) = base
            /\ Overflows(n) =>
                   NextReconnectDelay(n) = IF policy.saturates THEN cap ELSE base
            /\ ~Overflows(n) /\ (n > 1 \/ base <= cap) =>
                   /\ numerator >= denominator => Delay[n] <= NextReconnectDelay(n)
                   /\ denominator = 1 => Delay[n] = NextReconnectDelay(n)
                   /\ numerator <= denominator =>
                         NextReconnectDelay(n) <= base /\ Delay[n] <= base
=============================================================================
