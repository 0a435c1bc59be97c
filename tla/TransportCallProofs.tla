------------------------- MODULE TransportCallProofs -------------------------
(* Proofs about TransportCall: its calls stay within the rate, and none is *)
(* lost between the breaker's answer and its report.                       *)
EXTENDS TransportCall, TLAPS

-----------------------------------------------------------------------------
(* Every step of a call is a step of each part or leaves it alone.         *)

LEMMA BreakerSteps == [Next]_vars => [Breaker!Next]_Breaker!vars
  <1> SUFFICES ASSUME [Next]_vars PROVE [Breaker!Next]_Breaker!vars
    OBVIOUS
  <1> USE DEF Breaker!vars, Breaker!counters, breaker
  <1>1. ASSUME NEW c \in Callers, Call(c) PROVE Breaker!Next
    BY <1>1 DEF Call, Breaker!Next
  <1>2. ASSUME NEW c \in Callers, Return(c) PROVE Breaker!Next
    BY <1>2 DEF Return, Breaker!Next
  <1>3. ASSUME NEW c \in Callers, Proceeds(c), ~Return(c)
        PROVE UNCHANGED Breaker!vars
    BY <1>3 DEF Proceeds, GetsToken, WaitsForToken, LimitFails, BackoffEnds,
                BackoffCancelled
  <1>4. ASSUME NEW c \in Callers, Served(c) PROVE UNCHANGED Breaker!vars
    BY <1>4 DEF Served, RequestEnds, AttemptFails
  <1>5. ASSUME NEW c \in Callers, ContextEnds(c) PROVE UNCHANGED Breaker!vars
    BY <1>5 DEF ContextEnds
  <1>6. CASE UsesLimiter \/ StopsLimiter \/ TimePasses
    BY <1>6 DEF UsesLimiter, StopsLimiter, TimePasses
  <1>7. CASE ResetsBreaker \/ ResetTimeoutPasses
    BY <1>7 DEF ResetsBreaker, ResetTimeoutPasses, Breaker!Next
  <1>8. CASE UNCHANGED vars
    BY <1>8 DEF vars
  <1> QED
    BY <1>1, <1>2, <1>3, <1>4, <1>5, <1>6, <1>7, <1>8 DEF Next

LEMMA LimiterSteps == [Next]_vars => [Limiter!Next]_Limiter!vars
  <1> SUFFICES ASSUME [Next]_vars PROVE [Limiter!Next]_Limiter!vars
    OBVIOUS
  <1> USE DEF Limiter!vars, Limiter!limiter, limiter
  <1>1. ASSUME NEW c \in Callers, Call(c) PROVE Limiter!Next
    BY <1>1 DEF Call, Limiter!Next, Limiter!WaitStep
  <1>2. ASSUME NEW c \in Callers, GetsToken(c) \/ WaitsForToken(c) \/ LimitFails(c)
        PROVE Limiter!Next
    BY <1>2 DEF GetsToken, WaitsForToken, LimitFails, GetsNoToken, Limiter!Next,
                Limiter!WaitStep
  <1>3. ASSUME NEW c \in Callers, BackoffEnds(c) \/ BackoffCancelled(c) \/ Return(c)
        PROVE UNCHANGED Limiter!vars
    BY <1>3 DEF BackoffEnds, BackoffCancelled, Return
  <1>4. ASSUME NEW c \in Callers, Served(c) PROVE UNCHANGED Limiter!vars
    BY <1>4 DEF Served, RequestEnds, AttemptFails
  <1>5. ASSUME NEW c \in Callers, ContextEnds(c) PROVE UNCHANGED Limiter!vars
    BY <1>5 DEF ContextEnds
  <1>6. CASE UsesLimiter \/ StopsLimiter \/ TimePasses
    BY <1>6 DEF UsesLimiter, StopsLimiter, TimePasses, Limiter!Next
  <1>7. CASE ResetsBreaker \/ ResetTimeoutPasses
    BY <1>7 DEF ResetsBreaker, ResetTimeoutPasses
  <1>8. CASE UNCHANGED vars
    BY <1>8 DEF vars
  <1> QED
    BY <1>1, <1>2, <1>3, <1>4, <1>5, <1>6, <1>7, <1>8 DEF Next, Proceeds

-----------------------------------------------------------------------------
(* The bucket and the excess share its capacity: a period that took more   *)
(* than time gave back leaves that much less to take.                      *)
Balance ==
    /\ tokens \in 0 .. Limiter!Full
    /\ idle \in 0 .. Limiter!Full
    /\ stopped \in BOOLEAN
    /\ excess \in Nat
    /\ Limiter!Level + excess <= Limiter!Full

LEMMA FullIsPositive == Limiter!Full \in Nat \ {0} /\ Interval <= Limiter!Full
  BY LimitsAssumption, SMT DEF Limiter!Full

LEMMA TakeKeepsBalance ==
    ASSUME Balance, NEW n \in Nat, n <= Limiter!Level, Limiter!Take(n), stopped' = stopped
    PROVE  Balance'
  <1> DEFINE F == Limiter!Full
  <1>1. F \in Nat
    BY FullIsPositive
  <1>2. F' = F
    BY DEF Limiter!Full
  <1> HIDE DEF F
  <1>3. Limiter!Level' <= Limiter!Level - n /\ tokens' \in 0 .. F /\ idle' \in 0 .. F
    BY <1>1, <1>2 DEF Balance, Limiter!Take, Limiter!Level, Limiter!Cap, F
  <1> QED
    BY <1>1, <1>2, <1>3 DEF Balance, Limiter!Take, Limiter!Level, Limiter!Cap, F

LEMMA BalanceStep == Balance /\ [Next]_vars => Balance'
  <1> SUFFICES ASSUME Balance, [Limiter!Next]_Limiter!vars PROVE Balance'
    BY LimiterSteps
  <1>0. Limiter!Full \in Nat /\ Limiter!Full' = Limiter!Full /\ Interval \in Nat
    BY FullIsPositive, LimitsAssumption DEF Limiter!Full
  <1>1. ASSUME NEW c \in Callers, Limiter!WaitTakes(c) PROVE Balance'
    BY <1>0, <1>1, TakeKeepsBalance DEF Limiter!WaitTakes
  <1>2. ASSUME NEW c \in Callers, Limiter!WaitSleeps(c) PROVE Balance'
    <2>1. 0 <= Limiter!Level
      BY <1>0 DEF Balance, Limiter!Level, Limiter!Cap
    <2> QED
      BY <1>2, <2>1, TakeKeepsBalance DEF Limiter!WaitSleeps
  <1>3. CASE Limiter!TryAcquire
    BY <1>0, <1>3, TakeKeepsBalance DEF Limiter!TryAcquire
  <1>4. CASE Limiter!Look
    <2>1. 0 <= Limiter!Level
      BY <1>0 DEF Balance, Limiter!Level, Limiter!Cap
    <2> QED
      BY <1>4, <2>1, TakeKeepsBalance DEF Limiter!Look
  <1>5. CASE Limiter!Stop
    BY <1>0, <1>5 DEF Limiter!Stop, Balance, Limiter!Level, Limiter!Cap
  <1>6. CASE Limiter!Tick
    BY <1>0, <1>6 DEF Limiter!Tick, Balance, Limiter!Level, Limiter!Cap
  <1>7. CASE UNCHANGED <<Limiter!limiter, excess>>
    BY <1>0, <1>7 DEF Limiter!limiter, Balance, Limiter!Level, Limiter!Cap
  <1> QED
    BY <1>1, <1>2, <1>3, <1>4, <1>5, <1>6, <1>7
    DEF Limiter!Next, Limiter!WaitStep, Limiter!WaitCalled, Limiter!WaitStopped,
        Limiter!WaitWakes, Limiter!WaitCancelled, Limiter!vars

(* The balance holds in every reachable state.                             *)
LEMMA BalanceInvariance == Spec => []Balance
  <1>1. Init => Balance
    <2> SUFFICES ASSUME Init PROVE Balance
      OBVIOUS
    <2>1. tokens = Limiter!Full /\ idle = 0 /\ stopped = FALSE /\ excess = 0
      BY DEF Init, Limiter!Init
    <2>2. Limiter!Cap(Limiter!Full + 0) = Limiter!Full
      BY FullIsPositive DEF Limiter!Cap
    <2>3. Limiter!Level = Limiter!Full
      BY <2>1, <2>2 DEF Limiter!Level
    <2>4. stopped \in BOOLEAN
      BY <2>1
    <2>5. tokens \in 0 .. Limiter!Full /\ idle \in 0 .. Limiter!Full
      BY <2>1, FullIsPositive
    <2>6. excess \in Nat /\ Limiter!Level + excess <= Limiter!Full
      BY <2>1, <2>3, FullIsPositive
    <2> QED
      BY <2>4, <2>5, <2>6 DEF Balance
  <1> QED
    BY <1>1, BalanceStep, PTL DEF Spec

(* No interleaving of calls, cancellations, TryAcquire and Stop takes more *)
(* tokens in any period than the rate allows.                              *)
THEOREM RateIsBounded == Spec => []RateBounded
  <1>1. Balance => RateBounded
    BY FullIsPositive DEF Balance, RateBounded, Limiter!RateBounded, Limiter!Level,
                          Limiter!Cap
  <1> QED
    BY <1>1, BalanceInvariance, PTL

-----------------------------------------------------------------------------
(* The breaker inside the client.  What CircuitBreakerProofs proves of any *)
(* breaker holds of this one, since calls obey it.                         *)

Alone == INSTANCE CircuitBreakerProofs

LEMMA FinitelyManyCallers == Alone!IsFiniteSet(Callers)
  BY LimitsAssumption DEF IsFiniteSet, Alone!IsFiniteSet

LEMMA LimitsAreConfig == MaxFailures \in Nat \ {0} /\ HalfOpenMaxReqs \in Nat \ {0}
  BY LimitsAssumption

LEMMA SameBreaker == [Breaker!Next]_Breaker!vars => [Alone!Next]_Alone!vars
  <1> SUFFICES ASSUME [Breaker!Next]_Breaker!vars PROVE [Alone!Next]_Alone!vars
    OBVIOUS
  <1>1. ASSUME NEW c \in Callers, Breaker!BeforeRequest(c) PROVE Alone!BeforeRequest(c)
    BY <1>1 DEF Breaker!BeforeRequest, Breaker!AdmitClosed, Breaker!AdmitFirstProbe,
                Breaker!NewPeriod, Breaker!AdmitProbe, Breaker!SlotFree, Breaker!counters,
                Alone!BeforeRequest, Alone!AdmitClosed, Alone!AdmitFirstProbe,
                Alone!NewPeriod, Alone!AdmitProbe, Alone!SlotFree, Alone!counters
  <1>2. ASSUME NEW c \in Callers, Breaker!RecordFailure(c) PROVE Alone!RecordFailure(c)
    BY <1>2 DEF Breaker!RecordFailure, Breaker!Returns, Alone!RecordFailure, Alone!Returns
  <1>3. ASSUME NEW c \in Callers, Breaker!RecordSuccess(c) PROVE Alone!RecordSuccess(c)
    BY <1>3 DEF Breaker!RecordSuccess, Breaker!Returns, Breaker!EnoughSuccesses,
                Breaker!CloseCircuit, Alone!RecordSuccess, Alone!Returns,
                Alone!EnoughSuccesses, Alone!CloseCircuit
  <1>4. CASE Breaker!Reset
    BY <1>4 DEF Breaker!Reset, Alone!Reset, Alone!Next
  <1>5. CASE Breaker!TimePasses
    BY <1>5 DEF Breaker!TimePasses, Breaker!counters, Alone!TimePasses, Alone!counters,
                Alone!Next
  <1>6. CASE UNCHANGED Breaker!vars
    BY <1>6 DEF Breaker!vars, Breaker!counters, Alone!vars, Alone!counters
  <1> QED
    BY <1>1, <1>2, <1>3, <1>4, <1>5, <1>6 DEF Breaker!Next, Alone!Next

LEMMA BreakerIsAlone == Spec => Alone!Spec
  <1>1. Init => Alone!Init
    BY DEF Init, Breaker!Init, Alone!Init
  <1>2. [Next]_vars => [Alone!Next]_Alone!vars
    BY BreakerSteps, SameBreaker
  <1> QED
    BY <1>1, <1>2, PTL DEF Spec, Alone!Spec

-----------------------------------------------------------------------------
(* The calls that have not returned are those the breaker waits for.       *)

CallsInv ==
    /\ pc \in [Callers -> {"idle", "limit", "request", "backoff", "return"}]
    /\ running = {c \in Callers : pc[c] # "idle"}

LEMMA CallsStep == CallsInv /\ [Next]_vars => CallsInv'
  <1> SUFFICES ASSUME CallsInv, [Next]_vars PROVE CallsInv'
    OBVIOUS
  <1> USE DEF CallsInv, CallAt, CallGoes, breaker, limiter, calls
  <1>1. ASSUME NEW c \in Callers, Call(c) PROVE CallsInv'
    <2>1. running' = running \cup {c}
      BY <1>1 DEF Call, Breaker!BeforeRequest, Breaker!AdmitClosed,
                  Breaker!AdmitFirstProbe, Breaker!AdmitProbe
    <2> QED
      BY <1>1, <2>1 DEF Call
  <1>2. ASSUME NEW c \in Callers, Return(c) PROVE CallsInv'
    <2>1. running' = running \ {c}
      BY <1>2 DEF Return, Breaker!RecordFailure, Breaker!RecordSuccess, Breaker!Returns
    <2> QED
      BY <1>2, <2>1 DEF Return
  <1>3. ASSUME NEW c \in Callers, pc[c] # "idle", UNCHANGED running,
               pc' = pc \/ \E p \in {"request", "backoff", "return"} : CallGoes(c, p)
        PROVE  CallsInv'
    BY <1>3
  <1>4. ASSUME NEW c \in Callers, Proceeds(c), ~Return(c) PROVE CallsInv'
    BY <1>3, <1>4 DEF Proceeds, GetsToken, WaitsForToken, LimitFails, BackoffEnds,
                      BackoffCancelled
  <1>5. ASSUME NEW c \in Callers, Served(c) PROVE CallsInv'
    BY <1>3, <1>5 DEF Served, RequestEnds, AttemptFails
  <1>6. ASSUME NEW c \in Callers, ContextEnds(c) PROVE CallsInv'
    BY <1>6 DEF ContextEnds
  <1>7. CASE UsesLimiter \/ StopsLimiter \/ TimePasses
    BY <1>7 DEF UsesLimiter, StopsLimiter, TimePasses
  <1>8. CASE ResetsBreaker \/ ResetTimeoutPasses
    BY <1>8 DEF ResetsBreaker, Breaker!Reset, ResetTimeoutPasses, Breaker!TimePasses
  <1>9. CASE UNCHANGED vars
    BY <1>9 DEF vars
  <1> QED
    BY <1>1, <1>2, <1>4, <1>5, <1>6, <1>7, <1>8, <1>9 DEF Next

LEMMA CallsInvariance == Spec => []CallsInv
  <1>1. Init => CallsInv
    BY DEF Init, Breaker!Init, CallsInv
  <1> QED
    BY <1>1, CallsStep, PTL DEF Spec

(* No call is lost between the breaker's answer and its report: a client   *)
(* without calls under way has a half-open slot for the next one.          *)
THEOREM ClientIsNeverWedged == Spec => []ClientNeverWedged
  <1>1. Alone!Spec => []Alone!NeverWedged
    BY FinitelyManyCallers, LimitsAreConfig, Alone!NeverWedgedHolds
  <1>2. Alone!NeverWedged /\ CallsInv => ClientNeverWedged
    BY DEF Alone!NeverWedged, CallsInv, ClientNeverWedged, CallAt
  <1> QED
    BY <1>1, <1>2, BreakerIsAlone, CallsInvariance, PTL

-----------------------------------------------------------------------------
(* Types.  A call that has used up its attempts returns, and a timer runs  *)
(* for at most the time one token takes.                                   *)

Typed ==
    /\ at \in [Callers -> {"out", "look", "sleep"}]
    /\ timer \in [Callers -> 0 .. Interval]
    /\ attempt \in [Callers -> 0 .. MaxRetries]
    /\ outcome \in [Callers -> Outcomes]
    /\ ctxDone \subseteq Callers

LEMMA WaitTypes ==
    ASSUME Balance, Typed, NEW c \in Callers, Limiter!WaitStep(c)
    PROVE  /\ at' \in [Callers -> {"out", "look", "sleep"}]
           /\ timer' \in [Callers -> 0 .. Interval]
  <1> USE LimitsAssumption DEF Typed
  <1>1. CASE Limiter!WaitSleeps(c)
    <2>1. Limiter!Level \in 0 .. Interval
      BY <1>1, FullIsPositive DEF Limiter!WaitSleeps, Balance, Limiter!Level, Limiter!Cap
    <2>2. Interval - Limiter!Level \in 0 .. Interval
      BY <2>1
    <2> QED
      BY <1>1, <2>2 DEF Limiter!WaitSleeps
  <1>2. CASE Limiter!WaitCalled(c) \/ Limiter!WaitStopped(c) \/ Limiter!WaitTakes(c)
    BY <1>2 DEF Limiter!WaitCalled, Limiter!WaitStopped, Limiter!WaitTakes
  <1>3. CASE Limiter!WaitWakes(c) \/ Limiter!WaitCancelled(c)
    BY <1>3 DEF Limiter!WaitWakes, Limiter!WaitCancelled
  <1> QED
    BY <1>1, <1>2, <1>3 DEF Limiter!WaitStep

LEMMA TypedStep == Balance /\ Typed /\ [Next]_vars => Typed'
  <1> SUFFICES ASSUME Balance, Typed, [Next]_vars PROVE Typed'
    OBVIOUS
  <1> USE LimitsAssumption DEF limiter, calls
  <1>1. ASSUME NEW c \in Callers, Call(c) PROVE Typed'
    <2>1. Limiter!WaitStep(c) /\ UNCHANGED <<attempt, outcome, ctxDone>>
      BY <1>1 DEF Call, Limiter!WaitStep
    <2> QED
      BY <2>1, WaitTypes DEF Typed
  <1>2. ASSUME NEW c \in Callers, GetsToken(c) \/ WaitsForToken(c) PROVE Typed'
    <2>1. Limiter!WaitStep(c) /\ UNCHANGED <<attempt, outcome, ctxDone>>
      BY <1>2 DEF GetsToken, WaitsForToken, Limiter!WaitStep
    <2> QED
      BY <2>1, WaitTypes DEF Typed
  <1>3. ASSUME NEW c \in Callers, LimitFails(c) PROVE Typed'
    <2>1. Limiter!WaitStep(c) /\ UNCHANGED <<attempt, ctxDone>>
      BY <1>3 DEF LimitFails, GetsNoToken, Limiter!WaitStep
    <2>2. outcome' \in [Callers -> Outcomes]
      BY <1>3 DEF LimitFails, Typed, Outcomes
    <2> QED
      BY <2>1, <2>2, WaitTypes DEF Typed
  <1>4. ASSUME NEW c \in Callers, BackoffEnds(c) \/ BackoffCancelled(c) \/ Return(c)
        PROVE  Typed'
    BY <1>4 DEF BackoffEnds, BackoffCancelled, Return, Typed, Outcomes, Final
  <1>5. ASSUME NEW c \in Callers, NEW o \in Final \cup {"cancelled"}, RequestEnds(c, o)
        PROVE  Typed'
    BY <1>5 DEF RequestEnds, Typed, Outcomes
  <1>6. ASSUME NEW c \in Callers, NEW o \in Retryable \cup {"cancelled"},
               AttemptFails(c, o)
        PROVE  Typed'
    <2>1. CASE LastAttempt(c)
      BY <1>6, <2>1 DEF AttemptFails, Typed, Outcomes
    <2>2. CASE ~LastAttempt(c)
      <3>1. attempt[c] + 1 \in 0 .. MaxRetries
        BY <2>2 DEF LastAttempt, Typed
      <3> QED
        BY <1>6, <2>2, <3>1 DEF AttemptFails, Typed
    <2> QED
      BY <2>1, <2>2
  <1>7. ASSUME NEW c \in Callers, ContextEnds(c) PROVE Typed'
    BY <1>7 DEF ContextEnds, Typed
  <1>8. CASE UsesLimiter \/ StopsLimiter
    BY <1>8 DEF UsesLimiter, StopsLimiter, Limiter!TryAcquire, Limiter!Look,
                Limiter!Stop, Typed
  <1>9. CASE TimePasses
    <2>1. timer' \in [Callers -> 0 .. Interval]
      BY <1>9 DEF TimePasses, Limiter!Tick, Typed
    <2> QED
      BY <1>9, <2>1 DEF TimePasses, Limiter!Tick, Typed
  <1>10. CASE ResetsBreaker \/ ResetTimeoutPasses \/ UNCHANGED vars
    BY <1>10 DEF ResetsBreaker, ResetTimeoutPasses, vars, Typed
  <1> QED
    BY <1>1, <1>2, <1>3, <1>4, <1>5, <1>6, <1>7, <1>8, <1>9, <1>10
    DEF Next, Proceeds, Served

(* Type correctness of calls, limiter and breaker together: a call makes   *)
(* at most MaxRetries + 1 attempts, the counters of the breaker keep to    *)
(* their limits, and the bucket holds no more than it may.                 *)
THEOREM TypeCorrect == Spec => []TypeOK
  <1>1. Init => Typed
    BY LimitsAssumption DEF Init, Limiter!Init, Typed, Outcomes, Final
  <1>2. Alone!Spec => []Alone!TypeOK
    BY FinitelyManyCallers, LimitsAreConfig, Alone!TypeCorrect
  <1>3. Alone!TypeOK => Breaker!TypeOK
    BY DEF Alone!TypeOK, Alone!States, Breaker!TypeOK, Breaker!States
  <1>4. Breaker!TypeOK /\ Balance /\ CallsInv /\ Typed => TypeOK
    BY DEF Balance, CallsInv, Typed, TypeOK, Limiter!TypeOK
  <1> QED
    BY <1>1, <1>2, <1>3, <1>4, TypedStep, BalanceInvariance, BreakerIsAlone,
       CallsInvariance, PTL DEF Spec
=============================================================================
