------------------------ MODULE CircuitBreakerProofs ------------------------
(***************************************************************************)
(* The safety properties of CircuitBreaker for every set of callers and    *)
(* every configuration.  None of them is inductive alone: the types need   *)
(* the counters to be related to the state, and the state to the requests  *)
(* in flight.  IInv is their conjunction.                                  *)
(***************************************************************************)
EXTENDS CircuitBreaker, FiniteSetTheorems, TLAPS

(* The inductive invariant: the types, the count of probes from below and  *)
(* above, and the failure count tied to the state.                         *)
IInv ==
    /\ TypeOK
    /\ SlotsAccounted
    /\ ProbesBounded
    /\ FailuresMatchState

(* Probes are counted by a natural number: they are finitely many, like    *)
(* the callers.                                                            *)
LEMMA ProbesFinite ==
    ASSUME TypeOK
    PROVE  IsFiniteSet(probes) /\ Cardinality(probes) \in Nat
<1>1. probes \subseteq Callers
  BY DEF TypeOK
<1>2. IsFiniteSet(probes)
  BY <1>1, CallersAssumption, FS_Subset
<1> QED
  BY <1>2, FS_CardinalityType

(* A caller that starts a request joins the probes: one more than before,  *)
(* since it was not in flight.                                             *)
LEMMA ProbeJoins ==
    ASSUME TypeOK, NEW c \in Callers, c \notin running
    PROVE  Cardinality(probes \cup {c}) = Cardinality(probes) + 1
<1>1. c \notin probes
  BY DEF TypeOK
<1> QED
  BY <1>1, ProbesFinite, FS_AddElement

(* A request that ends leaves the probes: one less if it was one of them,  *)
(* and the same number if it is a straggler of an earlier period.          *)
LEMMA ProbeLeaves ==
    ASSUME TypeOK, NEW c \in Callers
    PROVE  /\ Cardinality(probes \ {c}) \in Nat
           /\ Cardinality(probes \ {c}) <= Cardinality(probes)
           /\ Cardinality(probes) <= Cardinality(probes \ {c}) + 1
<1>1. IsFiniteSet(probes) /\ Cardinality(probes) \in Nat
  BY ProbesFinite
<1>2. Cardinality(probes \ {c}) =
        IF c \in probes THEN Cardinality(probes) - 1 ELSE Cardinality(probes)
  BY <1>1, FS_RemoveElement
<1>3. IsFiniteSet(probes \ {c})
  BY <1>1, FS_Subset
<1>4. Cardinality(probes \ {c}) \in Nat
  BY <1>3, FS_CardinalityType
<1> QED
  BY <1>1, <1>2, <1>4

(* The invariant holds when NewCircuitBreaker returns.                     *)
LEMMA InitIInv == Init => IInv
<1> SUFFICES ASSUME Init PROVE IInv
  OBVIOUS
<1>1. Cardinality({}) = 0
  BY FS_EmptySet
<1> QED
  BY <1>1, ConfigAssumption
  DEF Init, IInv, TypeOK, States, SlotsAccounted, ProbesBounded, FailuresMatchState

(* An admission preserves the invariant.                                   *)
LEMMA AdmissionKeepsIInv ==
    ASSUME IInv, NEW c \in Callers, BeforeRequest(c)
    PROVE  IInv'
<1> USE ConfigAssumption DEF IInv, TypeOK, States, NewPeriod, SlotFree
<1>1. c \notin running
  BY DEF BeforeRequest
<1>2. CASE AdmitClosed(c)
  BY <1>2 DEF AdmitClosed, counters, SlotsAccounted, ProbesBounded, FailuresMatchState
<1>3. CASE AdmitFirstProbe(c)
  <2>1. Cardinality({c}) = 1
    BY FS_Singleton
  <2>2. TypeOK' /\ FailuresMatchState'
    BY <1>3 DEF AdmitFirstProbe, FailuresMatchState
  <2>3. SlotsAccounted' /\ ProbesBounded'
    BY <1>3, <2>1 DEF AdmitFirstProbe, SlotsAccounted, ProbesBounded
  <2> QED
    BY <2>2, <2>3
<1>4. CASE AdmitProbe(c)
  <2>1. Cardinality(probes') = Cardinality(probes) + 1
    BY <1>1, <1>4, ProbeJoins DEF AdmitProbe
  <2>2. Cardinality(probes) \in Nat
    BY ProbesFinite
  <2>3. TypeOK' /\ FailuresMatchState'
    BY <1>4 DEF AdmitProbe, FailuresMatchState
  <2>4. SlotsAccounted' /\ ProbesBounded'
    BY <1>4, <2>1, <2>2 DEF AdmitProbe, SlotsAccounted, ProbesBounded
  <2> QED
    BY <2>3, <2>4
<1> QED
  BY <1>2, <1>3, <1>4 DEF BeforeRequest

(* A recorded failure preserves the invariant.                             *)
LEMMA FailureKeepsIInv ==
    ASSUME IInv, NEW c \in Callers, RecordFailure(c)
    PROVE  IInv'
<1> USE ConfigAssumption DEF IInv, TypeOK, States, RecordFailure, Returns
<1>1. TypeOK'
  <2>1. state' \in States /\ failures' \in 0 .. MaxFailures
    BY DEF FailuresMatchState
  <2>2. halfOpenFailure' \in 0 .. 1
    BY DEF SlotsAccounted
  <2>3. running' \subseteq Callers /\ probes' \subseteq running'
    OBVIOUS
  <2> QED
    BY <2>1, <2>2, <2>3
<1>2. FailuresMatchState'
  BY DEF FailuresMatchState
<1>3. state' # "half-open"
  OBVIOUS
<1>4. SlotsAccounted' /\ ProbesBounded'
  BY <1>3 DEF SlotsAccounted, ProbesBounded
<1> QED
  BY <1>1, <1>2, <1>4

(* A recorded success preserves the invariant, also when it is the success *)
(* of a straggler: it then counts for a slot it never held, which leaves   *)
(* the half-open period with more answers than it needs, never with fewer. *)
LEMMA SuccessKeepsIInv ==
    ASSUME IInv, NEW c \in Callers, RecordSuccess(c)
    PROVE  IInv'
<1> USE ConfigAssumption DEF IInv, TypeOK, States, RecordSuccess, Returns,
    EnoughSuccesses, CloseCircuit
<1>1. TypeOK'
  BY DEF SlotsAccounted
<1>2. FailuresMatchState'
  BY DEF FailuresMatchState
<1>3. /\ Cardinality(probes') \in Nat
      /\ Cardinality(probes') <= Cardinality(probes)
      /\ Cardinality(probes) <= Cardinality(probes') + 1
  BY ProbeLeaves
<1>4. Cardinality(probes) \in Nat
  BY ProbesFinite
<1>5. SlotsAccounted' /\ ProbesBounded'
  BY <1>3, <1>4 DEF SlotsAccounted, ProbesBounded
<1> QED
  BY <1>1, <1>2, <1>5

(* Every step of the breaker preserves the invariant.                      *)
LEMMA NextIInv == IInv /\ [Next]_vars => IInv'
<1> SUFFICES ASSUME IInv, [Next]_vars PROVE IInv'
  OBVIOUS
<1>1. ASSUME NEW c \in Callers, BeforeRequest(c) PROVE IInv'
  BY <1>1, AdmissionKeepsIInv
<1>2. ASSUME NEW c \in Callers, RecordFailure(c) PROVE IInv'
  BY <1>2, FailureKeepsIInv
<1>3. ASSUME NEW c \in Callers, RecordSuccess(c) PROVE IInv'
  BY <1>3, SuccessKeepsIInv
<1>4. CASE Reset
  BY <1>4, ConfigAssumption
  DEF Reset, IInv, TypeOK, States, SlotsAccounted, ProbesBounded, FailuresMatchState
<1>5. CASE TimePasses
  BY <1>5 DEF TimePasses, counters, IInv, TypeOK, SlotsAccounted, ProbesBounded,
              FailuresMatchState
<1>6. CASE UNCHANGED vars
  BY <1>6 DEF vars, counters, IInv, TypeOK, SlotsAccounted, ProbesBounded,
              FailuresMatchState
<1> QED
  BY <1>1, <1>2, <1>3, <1>4, <1>5, <1>6 DEF Next

(* IInv holds in every reachable state.                                    *)
LEMMA Invariance == Spec => []IInv
  BY InitIInv, NextIInv, PTL DEF Spec

(* The counters keep within the configured limits, for every MaxFailures   *)
(* and HalfOpenMaxReqs and any number of concurrent callers.               *)
THEOREM TypeCorrect == Spec => []TypeOK
<1>1. IInv => TypeOK
  BY DEF IInv
<1> QED
  BY <1>1, Invariance, PTL

(* Every slot of a half-open period is answered or held in flight.         *)
THEOREM SlotsAreAccounted == Spec => []SlotsAccounted
<1>1. IInv => SlotsAccounted
  BY DEF IInv
<1> QED
  BY <1>1, Invariance, PTL

(* At most HalfOpenMaxReqs probes of one period are in flight at once.     *)
THEOREM ProbesAreBounded == Spec => []ProbesBounded
<1>1. IInv => ProbesBounded
  BY DEF IInv
<1> QED
  BY <1>1, Invariance, PTL

(* The circuit is closed exactly while the failure count is below its      *)
(* limit, so a closed breaker never sits on a full count.                  *)
THEOREM FailuresAgreeWithState == Spec => []FailuresMatchState
<1>1. IInv => FailuresMatchState
  BY DEF IInv
<1> QED
  BY <1>1, Invariance, PTL

(* The breaker can always leave a half-open period: with nothing in        *)
(* flight, the successes alone account for the slots taken, and they are   *)
(* fewer than HalfOpenMaxReqs.                                             *)
THEOREM NeverWedgedHolds == Spec => []NeverWedged
<1>1. IInv => NeverWedged
  <2> SUFFICES ASSUME IInv, state = "half-open", running = {}
               PROVE  halfOpenReqs < HalfOpenMaxReqs
    BY DEF NeverWedged
  <2>1. probes = {}
    BY DEF IInv, TypeOK
  <2>2. Cardinality(probes) = 0
    BY <2>1, FS_EmptySet
  <2> QED
    BY <2>2, ConfigAssumption DEF IInv, TypeOK, SlotsAccounted
<1> QED
  BY <1>1, Invariance, PTL
=============================================================================
