---------------------------- MODULE RateLimiter ----------------------------
(***************************************************************************)
(* The token bucket of pkg/transport (ratelimit.go).  Nothing refills it   *)
(* in the background: whoever looks at it adds what the time since the     *)
(* last look is worth.  Wait looks, and sleeps without the lock until a    *)
(* token should be there, and looks again.                                 *)
(*                                                                         *)
(* The unit of time is the time in which the bucket gains one unit, and a  *)
(* token is Interval units, so fractions of tokens are whole numbers.      *)
(***************************************************************************)
EXTENDS Integers

CONSTANTS
    Callers,    \* goroutines that may call Wait
    Capacity,   \* requestsPerSecond, which is also the refill rate
    Interval    \* units of a token

Full == Capacity * Interval

VARIABLES
    tokens,     \* units in the bucket at the last look
    idle,       \* time since lastRefill; Full stands for anything longer
    stopped,    \* Stop has been called
    at,         \* where each caller is in Wait: out, look, sleep
    timer,      \* time its timer still has to run
    excess      \* history: over all periods that end now, the most units
                \* taken in the period less the units it lasted

limiter == <<tokens, idle, stopped>>
vars == <<limiter, at, timer, excess>>

Init ==
    /\ tokens = Full
    /\ idle = 0
    /\ stopped = FALSE
    /\ at = [c \in Callers |-> "out"]
    /\ timer = [c \in Callers |-> 0]
    /\ excess = 0

-----------------------------------------------------------------------------
\* Faulty variant: the bucket overflows.
CapUnchecked(n) == n

Cap(n) == IF n > Full THEN Full ELSE n

\* refillTokens: what the bucket holds after it.
Level == IF stopped THEN tokens ELSE Cap(tokens + idle)

\* refillTokens, and n units are taken.
Take(n) ==
    /\ tokens' = Level - n
    /\ idle' = IF stopped THEN idle ELSE 0
    /\ excess' = excess + n

-----------------------------------------------------------------------------
WaitCalled(c) ==
    /\ at[c] = "out"
    /\ at' = [at EXCEPT ![c] = "look"]
    /\ UNCHANGED <<limiter, timer, excess>>

WaitStopped(c) ==
    /\ at[c] = "look"
    /\ stopped
    /\ at' = [at EXCEPT ![c] = "out"]
    /\ UNCHANGED <<limiter, timer, excess>>

WaitTakes(c) ==
    /\ at[c] = "look"
    /\ ~stopped
    /\ Level >= Interval
    /\ Take(Interval)
    /\ at' = [at EXCEPT ![c] = "out"]
    /\ UNCHANGED <<stopped, timer>>

\* Too little is there; the timer is set to when the rest will have come.
WaitSleeps(c) ==
    /\ at[c] = "look"
    /\ ~stopped
    /\ Level < Interval
    /\ Take(0)
    /\ at' = [at EXCEPT ![c] = "sleep"]
    /\ timer' = [timer EXCEPT ![c] = Interval - Level]
    /\ UNCHANGED stopped

WaitWakes(c) ==
    /\ at[c] = "sleep"
    /\ timer[c] = 0
    /\ at' = [at EXCEPT ![c] = "look"]
    /\ UNCHANGED <<limiter, timer, excess>>

\* The context of the caller is done; only a sleeping Wait notices.
WaitCancelled(c) ==
    /\ at[c] = "sleep"
    /\ at' = [at EXCEPT ![c] = "out"]
    /\ timer' = [timer EXCEPT ![c] = 0]
    /\ UNCHANGED <<limiter, excess>>

\* A stopped bucket still gives out what it holds.
TryAcquire ==
    /\ Level >= Interval
    /\ Take(Interval)
    /\ UNCHANGED <<stopped, at, timer>>

\* A TryAcquire that fails, or Available.
Look == Take(0) /\ UNCHANGED <<stopped, at, timer>>

Stop ==
    /\ stopped' = TRUE
    /\ UNCHANGED <<tokens, idle, at, timer, excess>>

\* One unit of time goes by; a period that begins now has no excess.
Tick ==
    /\ idle' = Cap(idle + 1)
    /\ timer' = [c \in Callers |-> IF timer[c] > 0 THEN timer[c] - 1 ELSE 0]
    /\ excess' = IF excess > 0 THEN excess - 1 ELSE 0
    /\ UNCHANGED <<tokens, stopped, at>>

WaitStep(c) ==
    \/ WaitCalled(c) \/ WaitStopped(c) \/ WaitTakes(c)
    \/ WaitSleeps(c) \/ WaitWakes(c) \/ WaitCancelled(c)

Next ==
    \/ \E c \in Callers : WaitStep(c)
    \/ TryAcquire \/ Look \/ Stop \/ Tick

Spec == Init /\ [][Next]_vars

-----------------------------------------------------------------------------
TypeOK ==
    /\ tokens \in 0 .. Full
    /\ idle \in 0 .. Full
    /\ stopped \in BOOLEAN
    /\ at \in [Callers -> {"out", "look", "sleep"}]
    /\ timer \in [Callers -> 0 .. Interval]
    /\ excess \in Nat

(* The limiter keeps its rate: in no period, whenever it begins and ends,  *)
(* are more tokens handed out than the bucket holds and the length of the  *)
(* period refills, whoever looks at the bucket in between and whatever     *)
(* sleeping callers wake at once.                                          *)
RateBounded == excess <= Full
=============================================================================
