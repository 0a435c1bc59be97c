--------------------------- MODULE TransportCall ---------------------------
(***************************************************************************)
(* Client.Call of pkg/transport (transport.go) with its circuit breaker    *)
(* and its rate limiter: a call that the breaker lets through waits for    *)
(* one token and then tries its request up to MaxRetries + 1 times; the    *)
(* breaker hears of the last error only.  Calls share both parts.          *)
(***************************************************************************)
EXTENDS Integers, FiniteSets

CONSTANTS
    Callers,          \* goroutines that call the client
    MaxFailures, HalfOpenMaxReqs,   \* of the breaker
    Capacity, Interval,             \* of the limiter
    MaxRetries        \* defaultMaxRetries

\* The constructors replace limits that are not positive by defaults.
ASSUME LimitsAssumption ==
    /\ IsFiniteSet(Callers)
    /\ {MaxFailures, HalfOpenMaxReqs, Capacity, Interval} \subseteq Nat \ {0}
    /\ MaxRetries \in Nat

VARIABLES
    \* the breaker
    state, failures, halfOpenReqs, halfOpenSuccess, halfOpenFailure,
    elapsed, running, probes,
    \* the limiter
    tokens, idle, stopped, at, timer, excess,
    \* the calls
    pc,         \* idle, limit, request, backoff, return
    attempt,    \* attempts of doCall's loop that have failed
    outcome,    \* what a call at "return" returns
    ctxDone     \* calls whose context is done

Breaker == INSTANCE CircuitBreaker
Limiter == INSTANCE RateLimiter

breaker == <<state, failures, halfOpenReqs, halfOpenSuccess, halfOpenFailure,
             elapsed, running, probes>>
limiter == <<tokens, idle, stopped, at, timer, excess>>
calls == <<pc, attempt, outcome, ctxDone>>
vars == <<breaker, limiter, calls>>

(* What a call may come to.  "refused" is a status of 400 to 499 other     *)
(* than 429, "throttled" is 429, "server" is 500 and more, "network" an    *)
(* error of the connection, "timeout" one that says it is a timeout,       *)
(* "local" an error before the request is sent or in decoding the reply.   *)
Final == {"ok", "refused", "local"}
Retryable == {"throttled", "server", "network", "timeout"}
Outcomes == Final \cup Retryable \cup {"cancelled"}

Init ==
    /\ Breaker!Init
    /\ Limiter!Init
    /\ pc = [c \in Callers |-> "idle"]
    /\ attempt = [c \in Callers |-> 0]
    /\ outcome = [c \in Callers |-> "ok"]
    /\ ctxDone = {}

-----------------------------------------------------------------------------
CallAt(c, p) == pc[c] = p

CallGoes(c, p) == pc' = [pc EXCEPT ![c] = p]

\* A call that the breaker rejects returns at once and changes nothing.
Call(c) ==
    /\ CallAt(c, "idle")
    /\ Breaker!BeforeRequest(c)
    /\ Limiter!WaitCalled(c)
    /\ CallGoes(c, "limit")
    /\ UNCHANGED <<attempt, outcome, ctxDone>>

GetsToken(c) ==
    /\ CallAt(c, "limit")
    /\ Limiter!WaitTakes(c)
    /\ CallGoes(c, "request")
    /\ UNCHANGED <<breaker, attempt, outcome, ctxDone>>

WaitsForToken(c) ==
    /\ CallAt(c, "limit")
    /\ Limiter!WaitSleeps(c) \/ Limiter!WaitWakes(c)
    /\ UNCHANGED <<breaker, calls>>

\* Faulty variant: a stopped limiter keeps its callers.
GetsNoTokenIfCancelled(c) == c \in ctxDone /\ Limiter!WaitCancelled(c)

\* Wait returns an error.
GetsNoToken(c) ==
    \/ Limiter!WaitStopped(c)
    \/ c \in ctxDone /\ Limiter!WaitCancelled(c)

\* Faulty variant: the error is returned past the breaker.
LimitFailsUnheard(c) ==
    /\ CallAt(c, "limit")
    /\ GetsNoToken(c)
    /\ CallGoes(c, "idle")
    /\ ctxDone' = ctxDone \ {c}
    /\ UNCHANGED <<breaker, attempt, outcome>>

LimitFails(c) ==
    /\ CallAt(c, "limit")
    /\ GetsNoToken(c)
    /\ CallGoes(c, "return")
    /\ outcome' = [outcome EXCEPT ![c] = "cancelled"]
    /\ UNCHANGED <<breaker, attempt, ctxDone>>

\* The reply settles the call, or something fails that is not tried again;
\* with a context that is done, preparing the request is all that can.
RequestEnds(c, o) ==
    /\ CallAt(c, "request")
    /\ o \in IF c \in ctxDone THEN {"local", "cancelled"} ELSE Final
    /\ CallGoes(c, "return")
    /\ outcome' = [outcome EXCEPT ![c] = o]
    /\ UNCHANGED <<breaker, limiter, attempt, ctxDone>>

LastAttempt(c) == attempt[c] >= MaxRetries

\* The attempt fails in a way that is tried again, also with the context.
\* lastErr matters only after the last one: the next attempt replaces it.
AttemptFails(c, o) ==
    /\ CallAt(c, "request")
    /\ (o = "cancelled") <=> (c \in ctxDone)
    /\ IF LastAttempt(c)
         THEN /\ CallGoes(c, "return")
              /\ outcome' = [outcome EXCEPT ![c] = o]
              /\ UNCHANGED attempt
         ELSE /\ CallGoes(c, "backoff")
              /\ attempt' = [attempt EXCEPT ![c] = @ + 1]
              /\ UNCHANGED outcome
    /\ UNCHANGED <<breaker, limiter, ctxDone>>

BackoffEnds(c) ==
    /\ CallAt(c, "backoff")
    /\ CallGoes(c, "request")
    /\ UNCHANGED <<breaker, limiter, attempt, outcome, ctxDone>>

BackoffCancelled(c) ==
    /\ CallAt(c, "backoff")
    /\ c \in ctxDone
    /\ CallGoes(c, "return")
    /\ outcome' = [outcome EXCEPT ![c] = "cancelled"]
    /\ UNCHANGED <<breaker, limiter, attempt, ctxDone>>

\* Faulty variants: errors of the server do not count; every error does.
CountedLocally == {"network", "local"}
CountedAnyError == Outcomes \ {"ok"}

\* shouldCountCircuitBreakerFailure.
Counted == {"server", "network", "local"}

\* What the breaker does not count as a failure it records as a success.
Return(c) ==
    /\ CallAt(c, "return")
    /\ IF outcome[c] \in Counted
         THEN Breaker!RecordFailure(c)
         ELSE Breaker!RecordSuccess(c)
    /\ CallGoes(c, "idle")
    /\ attempt' = [attempt EXCEPT ![c] = 0]
    /\ outcome' = [outcome EXCEPT ![c] = "ok"]
    /\ ctxDone' = ctxDone \ {c}
    /\ UNCHANGED limiter

-----------------------------------------------------------------------------
(* What the application and the clock do meanwhile.                        *)

ContextEnds(c) ==
    /\ pc[c] \in {"limit", "request", "backoff"}
    /\ ctxDone' = ctxDone \cup {c}
    /\ UNCHANGED <<breaker, limiter, pc, attempt, outcome>>

UsesLimiter ==
    /\ Limiter!TryAcquire \/ Limiter!Look
    /\ UNCHANGED <<breaker, calls>>

StopsLimiter == Limiter!Stop /\ UNCHANGED <<breaker, calls>>

ResetsBreaker == Breaker!Reset /\ UNCHANGED <<limiter, calls>>

ResetTimeoutPasses == Breaker!TimePasses /\ UNCHANGED <<limiter, calls>>

TimePasses == Limiter!Tick /\ UNCHANGED <<breaker, calls>>

\* The steps of a call that do not depend on the service or the application.
Proceeds(c) ==
    \/ GetsToken(c) \/ WaitsForToken(c) \/ LimitFails(c)
    \/ BackoffEnds(c) \/ BackoffCancelled(c) \/ Return(c)

Served(c) ==
    \/ \E o \in Final \cup {"cancelled"} : RequestEnds(c, o)
    \/ \E o \in Retryable \cup {"cancelled"} : AttemptFails(c, o)

Next ==
    \/ \E c \in Callers : Call(c) \/ Proceeds(c) \/ Served(c) \/ ContextEnds(c)
    \/ UsesLimiter \/ StopsLimiter \/ ResetsBreaker
    \/ ResetTimeoutPasses \/ TimePasses

Spec == Init /\ [][Next]_vars

(* A call that runs is resumed and its requests end; time goes by; callers *)
(* keep coming as long as the breaker would let one through.               *)
FairSpec ==
    /\ Spec
    /\ WF_vars(TimePasses)
    /\ WF_vars(ResetTimeoutPasses)
    /\ WF_vars(\E c \in Callers : Call(c))
    /\ \A c \in Callers : WF_vars(Proceeds(c) \/ Served(c))

-----------------------------------------------------------------------------
TypeOK ==
    /\ Breaker!TypeOK
    /\ Limiter!TypeOK
    /\ pc \in [Callers -> {"idle", "limit", "request", "backoff", "return"}]
    /\ attempt \in [Callers -> 0 .. MaxRetries]
    /\ outcome \in [Callers -> Outcomes]
    /\ ctxDone \subseteq Callers

(* A client in which no call is under way never rejects them all for good: *)
(* in a half-open period there is a slot left for the next call.  The      *)
(* breaker promises that of the requests it let through; that none of them *)
(* is lost between its answer and its report, on any way out of the wait   *)
(* for a token, the attempts and the backoffs, is up to the calls.         *)
ClientNeverWedged ==
    state = "half-open" /\ (\A c \in Callers : CallAt(c, "idle")) =>
        halfOpenReqs < HalfOpenMaxReqs

(* The tokens that calls obtain, however they wait, wake and are           *)
(* cancelled, never exceed the rate in any period.                         *)
RateBounded == Limiter!RateBounded

\* From some time on the service answers, and nobody interferes.
Recovers ==
    <>[][\/ \E c \in Callers :
               \/ Call(c) \/ Proceeds(c)
               \/ \E o \in {"ok", "refused"} : RequestEnds(c, o)
         \/ ResetTimeoutPasses \/ TimePasses]_vars

(* A service that answers again is used again: the circuit closes for      *)
(* good, although probes keep their half-open slots while they wait for    *)
(* tokens, and whatever the calls of before still have to report.          *)
RecoveryIsNoticed == Recovers => <>[](state = "closed")

\* From some time on every request fails in a way that counts.  A limiter
\* that is stopped would keep the calls from the service.
Dies ==
    /\ []~stopped
    /\ <>[][\/ \E c \in Callers :
                  \/ Call(c) \/ Proceeds(c)
                  \/ \E o \in {"server", "network"} : AttemptFails(c, o)
            \/ ResetTimeoutPasses \/ TimePasses]_vars

(* A service that is down opens the circuit again and again: retries,      *)
(* waits for tokens and older calls never keep the breaker from it.        *)
FailureIsNoticed == Dies => []<>(state = "open")

\* From some time on no call is begun and nobody takes tokens beside calls.
ComesToRest ==
    <>[][\/ \E c \in Callers : Proceeds(c) \/ Served(c) \/ ContextEnds(c)
         \/ StopsLimiter \/ ResetsBreaker
         \/ ResetTimeoutPasses \/ TimePasses]_vars

(* Calls end: with no further calls each one in flight obtains a token or  *)
(* an error and returns, also when the limiter is stopped under it or its  *)
(* context ends, and the breaker gets every slot back.                     *)
CallsEnd == ComesToRest => <>[](running = {})
=============================================================================
