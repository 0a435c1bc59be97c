--------------------------- MODULE CircuitBreaker ---------------------------
(***************************************************************************)
(* The circuit breaker of pkg/transport (circuitbreaker.go): callers ask   *)
(* for admission under the breaker's mutex, run their request without it,  *)
(* and report the outcome under the mutex again.  Between the two any      *)
(* number of other callers, a Reset and the reset timeout may intervene,   *)
(* so a report may reach a breaker whose state is not the one that         *)
(* admitted the request.                                                   *)
(*                                                                         *)
(* Time is kept as the only fact the code asks of it: whether more than    *)
(* resetTimeout has passed since lastFailTime.                             *)
(***************************************************************************)
EXTENDS Integers, FiniteSets

CONSTANTS
    Callers,          \* goroutines that may issue requests, one at a time each
    MaxFailures,      \* CircuitBreakerConfig.MaxFailures
    HalfOpenMaxReqs   \* CircuitBreakerConfig.HalfOpenMaxReqs

\* NewCircuitBreaker replaces a limit that is not positive by a default.
ASSUME ConfigAssumption ==
    /\ MaxFailures \in Nat \ {0}
    /\ HalfOpenMaxReqs \in Nat \ {0}

ASSUME CallersAssumption == IsFiniteSet(Callers)

States == {"closed", "open", "half-open"}

VARIABLES
    state,            \* closed, open or half-open
    failures,         \* consecutive counted failures while closed
    halfOpenReqs,     \* requests admitted in the current half-open period
    halfOpenSuccess,  \* successes recorded in the current half-open period
    halfOpenFailure,  \* failures recorded in the current half-open period
    elapsed,          \* time.Since(lastFailTime) > resetTimeout
    running,          \* callers whose fn is executing
    probes            \* those of them the current half-open period admitted

counters == <<failures, halfOpenReqs, halfOpenSuccess, halfOpenFailure>>
vars == <<state, counters, elapsed, running, probes>>

\* lastFailTime is the zero time, long past.
Init ==
    /\ state = "closed"
    /\ failures = 0
    /\ halfOpenReqs = 0
    /\ halfOpenSuccess = 0
    /\ halfOpenFailure = 0
    /\ elapsed = TRUE
    /\ running = {}
    /\ probes = {}

-----------------------------------------------------------------------------
(* beforeRequest: one disjunct per way a request is let through.  Every    *)
(* other call returns ErrCircuitOpen or ErrTooManyRequests and changes     *)
(* nothing.                                                                *)

AdmitClosed(c) ==
    /\ state = "closed"
    /\ running' = running \cup {c}
    /\ UNCHANGED <<state, counters, elapsed, probes>>

\* Faulty variant: the count of successes is left over from the period before.
NewPeriodKeepsSuccesses ==
    halfOpenReqs' = 1 /\ UNCHANGED halfOpenSuccess /\ halfOpenFailure' = 0

\* A half-open period starts, with the request that found it out counted in.
NewPeriod ==
    /\ halfOpenReqs' = 1
    /\ halfOpenSuccess' = 0
    /\ halfOpenFailure' = 0

\* The timeout has passed; the request is the first probe of a new period.
AdmitFirstProbe(c) ==
    /\ state = "open"
    /\ elapsed
    /\ state' = "half-open"
    /\ NewPeriod
    /\ running' = running \cup {c}
    /\ probes' = {c}
    /\ UNCHANGED <<failures, elapsed>>

SlotFree == halfOpenReqs < HalfOpenMaxReqs

AdmitProbe(c) ==
    /\ state = "half-open"
    /\ SlotFree
    /\ halfOpenReqs' = halfOpenReqs + 1
    /\ running' = running \cup {c}
    /\ probes' = probes \cup {c}
    /\ UNCHANGED <<state, failures, halfOpenSuccess, halfOpenFailure, elapsed>>

BeforeRequest(c) ==
    /\ c \notin running
    /\ AdmitClosed(c) \/ AdmitFirstProbe(c) \/ AdmitProbe(c)

-----------------------------------------------------------------------------
(* afterRequestWithPolicy: the outcome is recorded against the state of    *)
(* the moment, whatever the state that admitted the request.               *)

Returns(c) ==
    /\ c \in running
    /\ running' = running \ {c}
    /\ probes' = probes \ {c}

RecordFailure(c) ==
    /\ Returns(c)
    /\ elapsed' = FALSE
    /\ \/ /\ state = "closed"
          /\ failures' = failures + 1
          /\ state' = IF failures + 1 >= MaxFailures THEN "open" ELSE "closed"
          /\ UNCHANGED halfOpenFailure
       \/ /\ state = "half-open"
          /\ halfOpenFailure' = halfOpenFailure + 1
          /\ state' = "open"
          /\ failures' = MaxFailures
       \/ /\ state = "open"
          /\ UNCHANGED <<state, failures, halfOpenFailure>>
    /\ UNCHANGED <<halfOpenReqs, halfOpenSuccess>>

EnoughSuccesses == halfOpenSuccess + 1 >= HalfOpenMaxReqs

CloseCircuit == state' = "closed" /\ failures' = 0

\* Also what an error that the failure predicate does not count comes to.
RecordSuccess(c) ==
    /\ Returns(c)
    /\ \/ /\ state = "closed"
          /\ failures' = 0
          /\ UNCHANGED <<state, halfOpenSuccess>>
       \/ /\ state = "half-open"
          /\ halfOpenSuccess' = halfOpenSuccess + 1
          /\ IF EnoughSuccesses
               THEN CloseCircuit
               ELSE UNCHANGED <<state, failures>>
       \/ /\ state = "open"
          /\ UNCHANGED <<state, failures, halfOpenSuccess>>
    /\ UNCHANGED <<halfOpenReqs, halfOpenFailure, elapsed>>

\* The manual Reset; requests in flight keep running.
Reset ==
    /\ state' = "closed"
    /\ failures' = 0
    /\ halfOpenReqs' = 0
    /\ halfOpenSuccess' = 0
    /\ halfOpenFailure' = 0
    /\ UNCHANGED <<elapsed, running, probes>>

\* resetTimeout goes by without a recorded failure.
TimePasses ==
    /\ ~elapsed
    /\ elapsed' = TRUE
    /\ UNCHANGED <<state, counters, running, probes>>

Next ==
    \/ \E c \in Callers : BeforeRequest(c) \/ RecordFailure(c) \/ RecordSuccess(c)
    \/ Reset
    \/ TimePasses

Spec == Init /\ [][Next]_vars

-----------------------------------------------------------------------------
(* Type correctness: the counters stay within the configured limits in     *)
(* every state in which the code reads them.                               *)
TypeOK ==
    /\ state \in States
    /\ failures \in 0 .. MaxFailures
    /\ halfOpenReqs \in 0 .. HalfOpenMaxReqs
    /\ halfOpenSuccess \in 0 .. HalfOpenMaxReqs
    /\ halfOpenFailure \in 0 .. 1
    /\ elapsed \in BOOLEAN
    /\ running \subseteq Callers
    /\ probes \subseteq running

(* The breaker is never wedged: in a half-open period in which no request  *)
(* is in flight, beforeRequest has a slot left, so the next caller is let  *)
(* through and the period can still end.  What could go wrong is a slot    *)
(* taken in halfOpenReqs that no outcome ever answers: the half-open state *)
(* has no timeout and would reject every request for good.                 *)
NeverWedged ==
    state = "half-open" /\ running = {} => halfOpenReqs < HalfOpenMaxReqs

(* A recovering service sees at most HalfOpenMaxReqs requests of one       *)
(* half-open period at once, however the outcomes of older requests fall   *)
(* between them.                                                           *)
ProbesBounded ==
    state = "half-open" => Cardinality(probes) <= halfOpenReqs

(* Every slot of the half-open period is answered by a success or is still *)
(* held by a probe in flight.  This is why NeverWedged holds: successes    *)
(* alone cannot fill the period, since the last one closes the circuit.    *)
SlotsAccounted ==
    state = "half-open" =>
        /\ halfOpenReqs <= halfOpenSuccess + Cardinality(probes)
        /\ halfOpenSuccess < HalfOpenMaxReqs
        /\ halfOpenFailure = 0

(* The failure count agrees with the state: below the limit while closed   *)
(* and at the limit while open or half-open.                               *)
FailuresMatchState ==
    (state = "closed") <=> (failures < MaxFailures)
=============================================================================
