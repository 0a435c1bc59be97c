-------------------------- MODULE WsConnectionProofs --------------------------
(* Proofs about WsConnection, for any number of callers, dials and faults. *)
EXTENDS WsConnection, TLAPS

-----------------------------------------------------------------------------
(* The inductive invariant.  The safety properties are not inductive by    *)
(* themselves: they hold because everything that dials or replaces the     *)
(* connection does so between Lock and Unlock of the init mutex, so the    *)
(* invariant says who is inside and what each point inside may rely on.    *)

EnsureInside(s) == epc[s] \in {"dial", "up"}
ReaderInside(n) == rpc[n] \in {"rcClose", "rcDial", "rcUp"}

(* At most one goroutine is inside, and the mutex is held while it is.     *)
OneInside ==
    /\ \A s \in Callers : EnsureInside(s) => initMu
    /\ \A n \in Dials : ReaderInside(n) => initMu
    /\ \A s, t \in Callers : EnsureInside(s) /\ EnsureInside(t) => s = t
    /\ \A n, m \in Dials : ReaderInside(n) /\ ReaderInside(m) => n = m
    /\ \A s \in Callers, n \in Dials : ~(EnsureInside(s) /\ ReaderInside(n))

(* reconnectLoop between cancelGoroutines and createGoroutineContext.      *)
Dropping ==
    \A n \in Dials : rpc[n] = "rcClose" =>
        dials < MaxDials /\ (dials = 0 \/ dials \in cancelled)

Fresh == dials \in Dials /\ dials \notin closed /\ conn = None

(* Whoever dials does so for a new number, and into nothing.               *)
Dialing ==
    /\ \A s \in Callers : epc[s] = "dial" => Fresh
    /\ \A n \in Dials : rpc[n] = "rcDial" => Fresh

Stored == dials \in Dials /\ (dials = conn \/ dials \in closed)

(* The connection just dialed is the current one, or was closed meanwhile. *)
GoingLive ==
    /\ \A s \in Callers : epc[s] = "up" => Stored
    /\ \A n \in Dials : rpc[n] = "rcUp" => Stored

(* closeConn takes the connection out of the client before it closes it.   *)
ConnIsOpen == conn \notin closed

\* Readers of the current context that will read the current connection.
Serves(n) ==
    \/ rpc[n] = "start"
    \/ rctx[n] = dials /\ \/ rpc[n] \in {"check", "get"}
                          \/ rpc[n] = "read" /\ rconn[n] = conn

(* Served of a healthy connection, by a reader that holds the current      *)
(* context.  A reader with an older context may well read the current      *)
(* connection, but not for long.                                           *)
ServedByCurrent ==
    conn # None /\ conn \notin broken /\ ~initMu /\ ~ClosingConn /\ dials \notin cancelled
        => \E n \in Dials : Serves(n)

(* Served of any connection, in the same form: what makes it inductive is  *)
(* that a reader with the current context cannot leave while that is alive *)
(* but by finding the failure.                                             *)
WitnessByCurrent ==
    conn # None /\ ~initMu /\ ~ClosingConn /\ dials \notin cancelled =>
        \/ \E n \in Dials : Serves(n) \/ Reconnecting(n)
        \/ connState = "disconnected"
        \/ closing

(* Close sets the flag before anything else, and it is never unset.        *)
ClosingIsSet == cpc # "idle" => closing

IInv ==
    /\ TypeOK
    /\ OneInside
    /\ InitMutexHasOwner
    /\ Dropping
    /\ Dialing
    /\ GoingLive
    /\ ConnIsOpen
    /\ OldContextsCancelled
    /\ NoConnLeaked
    /\ ServedByCurrent
    /\ WitnessByCurrent
    /\ ClosingIsSet

-----------------------------------------------------------------------------
(* Types, in three parts: the numbers of dials and what is counted, the    *)
(* readLoops, and the rest.                                                *)

USE DEF Dials, None, link, ctxs, readers, pingers, flags, bounds

NumbersOK ==
    /\ conn \in 0 .. dials
    /\ closed \subseteq 1 .. dials
    /\ broken \subseteq 1 .. dials
    /\ dials \in 0 .. MaxDials
    /\ cancelled \subseteq 1 .. dials
    /\ faults \in 0 .. MaxFaults
    /\ calls \in 0 .. MaxCalls

ReadersOK ==
    /\ rpc \in [Dials -> ReaderStates]
    /\ rctx \in [Dials -> 0 .. MaxDials]
    /\ rconn \in [Dials -> 0 .. MaxDials]
    /\ attempt \in [Dials -> Nat]

PlacesOK ==
    /\ initMu \in BOOLEAN
    /\ connState \in {"disconnected", "connecting", "connected", "reconnecting"}
    /\ closing \in BOOLEAN
    /\ done \in BOOLEAN
    /\ ppc \in [Dials -> {"none", "start", "wait", "cancel", "close", "dead"}]
    /\ pctx \in [Dials -> 0 .. MaxDials]
    /\ epc \in [Callers -> {"idle", "lock", "dial", "up"}]
    /\ cpc \in {"idle", "cancel", "close", "state", "shutdown", "returned"}
    /\ dpc \in {"idle", "close", "returned"}

(* A new context needs room below the bound, which reconnectLoop has       *)
(* checked before it took the mutex.                                       *)
LEMMA NumbersStep ==
    ASSUME NumbersOK, Dropping, [Next]_vars
    PROVE  NumbersOK'
<1> USE BoundsAssumption DEF NumbersOK
<1>1. ASSUME NEW s \in Callers, EnsureCall(s) \/ Ensure(s) PROVE NumbersOK'
  <2>1. CASE EnsureCall(s)
    BY <2>1 DEF EnsureCall
  <2>2. CASE EnsureFindsConn(s)
    BY <2>2 DEF EnsureFindsConn
  <2>3. CASE EnsureBegins(s)
    BY <2>3 DEF EnsureBegins, LockInit, RenewContext, CancelGoroutines
  <2>4. CASE EnsureDialed(s)
    BY <2>4 DEF EnsureDialed
  <2>5. CASE EnsureDialFails(s)
    BY <2>5 DEF EnsureDialFails, DialFails, Fault
  <2>6. CASE EnsureGoesLive(s)
    BY <2>6 DEF EnsureGoesLive, GoesLive, ReaderGoes
  <2> QED
    BY <1>1, <2>1, <2>2, <2>3, <2>4, <2>5, <2>6 DEF Ensure
<1>2. ASSUME NEW n \in Dials, Reader(n) \/ ReaderReads(n) PROVE NumbersOK'
  <2>1. CASE ReaderStarts(n) \/ ReaderChecksContext(n) \/ ReaderGetsConn(n) \/
             ReaderReads(n) \/ ReaderFails(n) \/ ReaderExits(n) \/
             ReconnectGoesOn(n) \/ ReconnectGivesUp(n) \/
             ReconnectAnnounces(n)
    BY <2>1 DEF ReaderStarts, ReaderAt, ReaderGoes, ReaderChecksContext,
                ReaderGetsConn, ReaderReads, ReaderFails, ReadFails,
                ReaderExits, ReconnectGoesOn, Exhausted, ReconnectGivesUp,
                ReconnectAnnounces
  <2>2. CASE ReconnectLocks(n)
    BY <2>2 DEF ReconnectLocks, ReaderAt, ReaderGoes, LockInit,
                CancelGoroutines
  <2>3. CASE ReconnectDrops(n)
    BY <2>3 DEF Dropping, ReconnectDrops, ReaderAt, ReaderGoes, DropConn
  <2>4. CASE ReconnectDialed(n)
    BY <2>4 DEF ReconnectDialed, ReaderAt, ReaderGoes
  <2>5. CASE ReconnectDialFails(n)
    BY <2>5 DEF ReconnectDialFails, ReaderAt, ReaderGoes, DialFails, Fault
  <2>6. CASE ReconnectGoesLive(n)
    BY <2>6 DEF ReconnectGoesLive, ReaderAt, GoesLive, HandsOver
  <2> QED
    BY <1>2, <2>1, <2>2, <2>3, <2>4, <2>5, <2>6 DEF Reader
<1>3. ASSUME NEW n \in Dials, Pinger(n) \/ PongOverdue(n) PROVE NumbersOK'
  <2>1. CASE PingerStarts(n) \/ PingerStops(n) \/ PingFails(n)
    BY <2>1 DEF PingerStarts, PingerGoes, PingerStops, PingerTold, PingFails,
                ReadFails
  <2>2. CASE PongOverdue(n)
    BY <2>2 DEF PongOverdue, PingerGoes, Fault
  <2>3. CASE PingerCancels(n)
    BY <2>3 DEF PingerCancels, PingerGoes, CancelGoroutines
  <2>4. CASE PingerDrops(n)
    BY <2>4 DEF PingerDrops, PingerGoes, DropConn
  <2> QED
    BY <1>3, <2>1, <2>2, <2>3, <2>4 DEF Pinger
<1>4. CASE CloseBegins \/ Close \/ DeauthCancels \/ DeauthDrops
  <2>1. CASE CloseBegins \/ CloseReports \/ CloseShutsDown
    BY <2>1 DEF CloseBegins, CloseReports, CloseShutsDown
  <2>2. CASE CloseCancels
    BY <2>2 DEF CloseCancels, CancelGoroutines
  <2>3. CASE CloseDrops
    BY <2>3 DEF CloseDrops, DropConn
  <2>4. CASE DeauthCancels
    BY <2>4 DEF DeauthCancels, CancelGoroutines
  <2>5. CASE DeauthDrops
    BY <2>5 DEF DeauthDrops, DropConn
  <2> QED
    BY <1>4, <2>1, <2>2, <2>3, <2>4, <2>5 DEF Close
<1>5. CASE ConnBreaks
  BY <1>5 DEF ConnBreaks, Fault
<1>6. CASE UNCHANGED vars
  BY <1>6 DEF vars
<1> QED
  BY <1>1, <1>2, <1>3, <1>4, <1>5, <1>6 DEF Next

(* Contexts and connections that readLoops hold are ones there are.        *)
LEMMA ReadersStep ==
    ASSUME NumbersOK, ReadersOK, [Next]_vars
    PROVE  ReadersOK'
<1> USE DEF NumbersOK, ReadersOK, ReaderStates
<1>1. ASSUME NEW s \in Callers, EnsureCall(s) \/ Ensure(s) PROVE ReadersOK'
  <2>1. CASE EnsureCall(s) \/ EnsureFindsConn(s)
    BY <2>1 DEF EnsureCall, EnsureFindsConn
  <2>2. CASE EnsureBegins(s)
    BY <2>2 DEF EnsureBegins, LockInit, RenewContext, CancelGoroutines
  <2>3. CASE EnsureDialed(s)
    BY <2>3 DEF EnsureDialed
  <2>4. CASE EnsureDialFails(s)
    BY <2>4 DEF EnsureDialFails, DialFails, Fault
  <2>5. CASE EnsureGoesLive(s)
    BY <2>5 DEF EnsureGoesLive, GoesLive, ReaderGoes
  <2> QED
    BY <1>1, <2>1, <2>2, <2>3, <2>4, <2>5 DEF Ensure
<1>2. ASSUME NEW n \in Dials, Reader(n) \/ ReaderReads(n) PROVE ReadersOK'
  <2>1. CASE ReaderStarts(n)
    BY <2>1 DEF ReaderStarts, ReaderAt, ReaderGoes
  <2>2. CASE ReaderChecksContext(n)
    BY <2>2 DEF ReaderChecksContext, ReaderAt, ReaderGoes
  <2>3. CASE ReaderGetsConn(n)
    <3>1. conn \in 0 .. MaxDials
      BY BoundsAssumption
    <3>2. rconn' \in [Dials -> 0 .. MaxDials]
      BY <2>3, <3>1 DEF ReaderGetsConn
    <3>3. rpc' \in [Dials -> ReaderStates]
      <4>1. CASE conn # None
        BY <2>3, <4>1 DEF ReaderGetsConn, ReaderGoes
      <4>2. CASE conn = None /\ closing
        BY <2>3, <4>2 DEF ReaderGetsConn, ReaderGoes
      <4>3. CASE conn = None /\ ~closing
        BY <2>3, <4>3 DEF ReaderGetsConn, ReaderGoes
      <4> QED
        BY <4>1, <4>2, <4>3
    <3> QED
      BY <2>3, <3>2, <3>3 DEF ReaderGetsConn
  <2>4. CASE ReaderReads(n)
    BY <2>4 DEF ReaderReads, ReaderAt, ReaderGoes
  <2>5. CASE ReaderFails(n)
    BY <2>5 DEF ReaderFails, ReaderAt, ReaderGoes, ReadFails
  <2>6. CASE ReaderExits(n)
    BY <2>6 DEF ReaderExits, ReaderAt, ReaderGoes
  <2>7. CASE ReconnectGoesOn(n)
    BY <2>7 DEF ReconnectGoesOn, ReaderAt, ReaderGoes, Exhausted
  <2>8. CASE ReconnectGivesUp(n)
    BY <2>8 DEF ReconnectGivesUp, ReaderAt, ReaderGoes, Exhausted
  <2>9. CASE ReconnectAnnounces(n)
    BY <2>9 DEF ReconnectAnnounces, ReaderAt, ReaderGoes
  <2>10. CASE ReconnectLocks(n)
    BY <2>10 DEF ReconnectLocks, ReaderAt, ReaderGoes, LockInit,
                 CancelGoroutines
  <2>11. CASE ReconnectDrops(n)
    BY <2>11 DEF ReconnectDrops, ReaderAt, ReaderGoes, DropConn
  <2>12. CASE ReconnectDialed(n)
    BY <2>12 DEF ReconnectDialed, ReaderAt, ReaderGoes
  <2>13. CASE ReconnectDialFails(n)
    BY <2>13 DEF ReconnectDialFails, ReaderAt, ReaderGoes, DialFails, Fault
  <2>14. CASE ReconnectGoesLive(n)
    BY <2>14 DEF ReconnectGoesLive, ReaderAt, GoesLive, HandsOver
  <2> QED
    BY <1>2, <2>1, <2>2, <2>3, <2>4, <2>5, <2>6, <2>7, <2>8, <2>9, <2>10,
       <2>11, <2>12, <2>13, <2>14 DEF Reader
<1>3. ASSUME NEW n \in Dials, Pinger(n) \/ PongOverdue(n) PROVE ReadersOK'
  BY <1>3 DEF Pinger, PingerStarts, PingerGoes, PingerStops, PingerTold,
              PingFails, ReadFails, PongOverdue, Fault, PingerCancels,
              CancelGoroutines, PingerDrops, DropConn
<1>4. CASE CloseBegins \/ Close \/ DeauthCancels \/ DeauthDrops
  BY <1>4 DEF Close, CloseBegins, CloseCancels, CancelGoroutines, CloseDrops,
              DropConn, CloseReports, CloseShutsDown, DeauthCancels,
              DeauthDrops
<1>5. CASE ConnBreaks
  BY <1>5 DEF ConnBreaks, Fault
<1>6. CASE UNCHANGED vars
  BY <1>6 DEF vars
<1> QED
  BY <1>1, <1>2, <1>3, <1>4, <1>5, <1>6 DEF Next

(* Everybody else stays at a known place.                                  *)
LEMMA PlacesStep ==
    ASSUME NumbersOK, PlacesOK, [Next]_vars
    PROVE  PlacesOK'
<1> USE DEF NumbersOK, PlacesOK
<1>1. ASSUME NEW s \in Callers, EnsureCall(s) \/ Ensure(s) PROVE PlacesOK'
  <2>1. CASE EnsureCall(s) \/ EnsureFindsConn(s)
    BY <2>1 DEF EnsureCall, EnsureFindsConn
  <2>2. CASE EnsureBegins(s)
    BY <2>2 DEF EnsureBegins, LockInit, RenewContext, CancelGoroutines
  <2>3. CASE EnsureDialed(s)
    BY <2>3 DEF EnsureDialed
  <2>4. CASE EnsureDialFails(s)
    BY <2>4 DEF EnsureDialFails, DialFails, Fault
  <2>5. CASE EnsureGoesLive(s)
    BY <2>5 DEF EnsureGoesLive, GoesLive, ReaderGoes
  <2> QED
    BY <1>1, <2>1, <2>2, <2>3, <2>4, <2>5 DEF Ensure
<1>2. ASSUME NEW n \in Dials, Reader(n) \/ ReaderReads(n) PROVE PlacesOK'
  <2>1. CASE ReaderStarts(n) \/ ReaderChecksContext(n) \/ ReaderGetsConn(n) \/
             ReaderReads(n) \/ ReaderFails(n) \/ ReaderExits(n) \/
             ReconnectGoesOn(n) \/ ReconnectGivesUp(n) \/
             ReconnectAnnounces(n)
    BY <2>1 DEF ReaderStarts, ReaderAt, ReaderGoes, ReaderChecksContext,
                ReaderGetsConn, ReaderReads, ReaderFails, ReadFails,
                ReaderExits, ReconnectGoesOn, Exhausted, ReconnectGivesUp,
                ReconnectAnnounces
  <2>2. CASE ReconnectLocks(n) \/ ReconnectDrops(n)
    <3>1. /\ UNCHANGED <<connState, closing, done, ppc, pctx, epc, cpc, dpc>>
          /\ initMu' \in BOOLEAN
      BY <2>2 DEF ReconnectLocks, LockInit, ReconnectDrops
    <3> QED
      BY <3>1
  <2>3. CASE ReconnectDialed(n) \/ ReconnectDialFails(n)
    <3>1. /\ UNCHANGED <<connState, closing, done, ppc, pctx, epc, cpc, dpc>>
          /\ initMu' \in BOOLEAN
      BY <2>3 DEF ReconnectDialed, ReconnectDialFails, DialFails
    <3> QED
      BY <3>1
  <2>4. CASE ReconnectGoesLive(n)
    BY <2>4 DEF ReconnectGoesLive, ReaderAt, GoesLive, HandsOver
  <2> QED
    BY <1>2, <2>1, <2>2, <2>3, <2>4 DEF Reader
<1>3. ASSUME NEW n \in Dials, Pinger(n) \/ PongOverdue(n) PROVE PlacesOK'
  <2>1. CASE PingerStarts(n)
    BY <2>1 DEF PingerStarts, PingerGoes
  <2>2. CASE PingerStops(n) \/ PingFails(n) \/ PongOverdue(n) \/
             PingerCancels(n) \/ PingerDrops(n)
    BY <2>2 DEF PingerStops, PingerGoes, PingerTold, PingFails, ReadFails,
                PongOverdue, Fault, PingerCancels, CancelGoroutines,
                PingerDrops, DropConn
  <2> QED
    BY <1>3, <2>1, <2>2 DEF Pinger
<1>4. CASE CloseBegins \/ Close
  BY <1>4 DEF Close, CloseBegins, CloseCancels, CancelGoroutines, CloseDrops,
              DropConn, CloseReports, CloseShutsDown
<1>5. CASE DeauthCancels \/ DeauthDrops
  BY <1>5 DEF DeauthCancels, DeauthDrops, CancelGoroutines, DropConn
<1>6. CASE ConnBreaks
  BY <1>6 DEF ConnBreaks, Fault
<1>7. CASE UNCHANGED vars
  BY <1>7 DEF vars
<1> QED
  BY <1>1, <1>2, <1>3, <1>4, <1>5, <1>6, <1>7 DEF Next

-----------------------------------------------------------------------------
(* The steps of a readLoop that holds no mutex.                            *)

ReaderOutside(n) ==
    \/ ReaderStarts(n) \/ ReaderChecksContext(n) \/ ReaderGetsConn(n)
    \/ ReaderReads(n) \/ ReaderFails(n) \/ ReaderExits(n)
    \/ ReconnectGoesOn(n) \/ ReconnectGivesUp(n) \/ ReconnectAnnounces(n)

(* Such a step is the reader's own: the connection, the contexts, the      *)
(* mutex and the other readers stay as they are.                           *)
LEMMA OutsideStep ==
    ASSUME TypeOK, NEW n \in Dials, ReaderOutside(n)
    PROVE  /\ UNCHANGED <<conn, closed, broken, dials, cancelled, initMu, epc>>
           /\ rpc[n] # "none"
           /\ ~ReaderInside(n) /\ ~ReaderInside(n)'
           /\ \A m \in Dials \ {n} : rpc'[m] = rpc[m]
<1>1. CASE ReaderStarts(n)
  BY <1>1 DEF TypeOK, ReaderInside, ReaderStarts, ReaderAt, ReaderGoes
<1>2. CASE ReaderChecksContext(n)
  BY <1>2 DEF TypeOK, ReaderInside, ReaderChecksContext, ReaderAt, ReaderGoes
<1>3. CASE ReaderGetsConn(n)
  BY <1>3 DEF TypeOK, ReaderInside, ReaderGetsConn, ReaderAt, ReaderGoes
<1>4. CASE ReaderReads(n)
  BY <1>4 DEF TypeOK, ReaderInside, ReaderReads, ReaderAt, ReaderGoes
<1>5. CASE ReaderFails(n)
  BY <1>5 DEF TypeOK, ReaderInside, ReaderFails, ReaderAt, ReaderGoes,
              ReadFails
<1>6. CASE ReaderExits(n)
  BY <1>6 DEF TypeOK, ReaderInside, ReaderExits, ReaderAt, ReaderGoes
<1>7. CASE ReconnectGoesOn(n)
  BY <1>7 DEF TypeOK, ReaderInside, ReconnectGoesOn, ReaderAt, ReaderGoes,
              Exhausted
<1>8. CASE ReconnectGivesUp(n)
  BY <1>8 DEF TypeOK, ReaderInside, ReconnectGivesUp, ReaderAt, ReaderGoes,
              Exhausted
<1>9. CASE ReconnectAnnounces(n)
  BY <1>9 DEF TypeOK, ReaderInside, ReconnectAnnounces, ReaderAt, ReaderGoes
<1> QED
  BY <1>1, <1>2, <1>3, <1>4, <1>5, <1>6, <1>7, <1>8, <1>9 DEF ReaderOutside

(* The steps of everybody else: they never dial, renew the context or      *)
(* touch the mutex.                                                        *)
Aside ==
    \/ \E n \in Dials : Pinger(n) \/ PongOverdue(n)
    \/ CloseBegins \/ Close \/ DeauthCancels \/ DeauthDrops
    \/ ConnBreaks
    \/ UNCHANGED vars

(* At most they cancel the current context or drop the connection.         *)
LEMMA AsideStep ==
    ASSUME Aside
    PROVE  /\ UNCHANGED <<dials, initMu, epc, rpc>>
           /\ cancelled \subseteq cancelled'
           /\ UNCHANGED <<conn, closed>> \/ DropConn
<1>1. ASSUME NEW n \in Dials, Pinger(n) \/ PongOverdue(n)
      PROVE  /\ UNCHANGED <<dials, initMu, epc, rpc>>
             /\ cancelled \subseteq cancelled'
             /\ UNCHANGED <<conn, closed>> \/ DropConn
  BY <1>1 DEF Pinger, PingerStarts, PingerStops, PingFails, PongOverdue,
              PingerCancels, CancelGoroutines, PingerDrops
<1>2. CASE CloseBegins \/ Close \/ DeauthCancels \/ DeauthDrops
  BY <1>2 DEF Close, CloseBegins, CloseCancels, CancelGoroutines, CloseDrops,
              CloseReports, CloseShutsDown, DeauthCancels, DeauthDrops
<1>3. CASE ConnBreaks \/ UNCHANGED vars
  BY <1>3 DEF ConnBreaks, vars
<1> QED
  BY <1>1, <1>2, <1>3 DEF Aside

-----------------------------------------------------------------------------
(* One lemma per part of the invariant.                                    *)

(* Only LockInit lets a goroutine in, and it waits for the one inside.     *)
LEMMA OneInsideStep ==
    ASSUME TypeOK, OneInside, [Next]_vars
    PROVE  OneInside'
<1> USE DEF TypeOK, OneInside, EnsureInside, ReaderInside
<1>1. ASSUME NEW s \in Callers, EnsureCall(s) \/ Ensure(s) PROVE OneInside'
  <2>1. CASE EnsureCall(s) \/ EnsureFindsConn(s)
    BY <2>1 DEF EnsureCall, EnsureFindsConn
  <2>2. CASE EnsureBegins(s)
    BY <2>2 DEF EnsureBegins, LockInit, RenewContext, CancelGoroutines
  <2>3. CASE EnsureDialed(s)
    BY <2>3 DEF EnsureDialed
  <2>4. CASE EnsureDialFails(s)
    BY <2>4 DEF EnsureDialFails, DialFails, Fault
  <2>5. CASE EnsureGoesLive(s)
    BY <2>5 DEF EnsureGoesLive, GoesLive, ReaderGoes
  <2> QED
    BY <1>1, <2>1, <2>2, <2>3, <2>4, <2>5 DEF Ensure
<1>2. ASSUME NEW n \in Dials, Reader(n) \/ ReaderReads(n) PROVE OneInside'
  <2>1. CASE ReaderOutside(n)
    BY <2>1, OutsideStep
  <2>2. CASE ReconnectLocks(n)
    BY <2>2 DEF ReconnectLocks, ReaderAt, ReaderGoes, LockInit,
                CancelGoroutines
  <2>3. CASE ReconnectDrops(n)
    BY <2>3 DEF ReconnectDrops, ReaderAt, ReaderGoes, DropConn
  <2>4. CASE ReconnectDialed(n)
    BY <2>4 DEF ReconnectDialed, ReaderAt, ReaderGoes
  <2>5. CASE ReconnectDialFails(n)
    BY <2>5 DEF ReconnectDialFails, ReaderAt, ReaderGoes, DialFails, Fault
  <2>6. CASE ReconnectGoesLive(n)
    BY <2>6 DEF ReconnectGoesLive, ReaderAt, GoesLive, HandsOver
  <2> QED
    BY <1>2, <2>1, <2>2, <2>3, <2>4, <2>5, <2>6 DEF Reader, ReaderOutside
<1>3. CASE Aside
  BY <1>3, AsideStep DEF DropConn
<1> QED
  BY <1>1, <1>2, <1>3 DEF Next, Aside

(* Nobody else renews the context while reconnectLoop is at rcClose, and   *)
(* contexts stay cancelled.                                                *)
LEMMA DroppingStep ==
    ASSUME TypeOK, OneInside, Dropping, [Next]_vars
    PROVE  Dropping'
<1> USE DEF TypeOK, OneInside, Dropping, EnsureInside, ReaderInside
<1>1. ASSUME NEW s \in Callers, EnsureCall(s) \/ Ensure(s) PROVE Dropping'
  <2>1. CASE EnsureCall(s) \/ EnsureFindsConn(s)
    BY <2>1 DEF EnsureCall, EnsureFindsConn
  <2>2. CASE EnsureBegins(s)
    BY <2>2 DEF EnsureBegins, LockInit, RenewContext, CancelGoroutines
  <2>3. CASE EnsureDialed(s)
    BY <2>3 DEF EnsureDialed
  <2>4. CASE EnsureDialFails(s)
    BY <2>4 DEF EnsureDialFails, DialFails, Fault
  <2>5. CASE EnsureGoesLive(s)
    BY <2>5 DEF EnsureGoesLive, GoesLive, ReaderGoes
  <2> QED
    BY <1>1, <2>1, <2>2, <2>3, <2>4, <2>5 DEF Ensure
<1>2. ASSUME NEW n \in Dials, Reader(n) \/ ReaderReads(n) PROVE Dropping'
  <2>1. CASE ReaderOutside(n)
    BY <2>1, OutsideStep
  <2>2. CASE ReconnectLocks(n)
    BY <2>2 DEF ReconnectLocks, ReaderAt, ReaderGoes, LockInit,
                CancelGoroutines
  <2>3. CASE ReconnectDrops(n)
    BY <2>3 DEF ReconnectDrops, ReaderAt, ReaderGoes, DropConn
  <2>4. CASE ReconnectDialed(n)
    BY <2>4 DEF ReconnectDialed, ReaderAt, ReaderGoes
  <2>5. CASE ReconnectDialFails(n)
    BY <2>5 DEF ReconnectDialFails, ReaderAt, ReaderGoes, DialFails, Fault
  <2>6. CASE ReconnectGoesLive(n)
    BY <2>6 DEF ReconnectGoesLive, ReaderAt, GoesLive, HandsOver
  <2> QED
    BY <1>2, <2>1, <2>2, <2>3, <2>4, <2>5, <2>6 DEF Reader, ReaderOutside
<1>3. CASE Aside
  BY <1>3, AsideStep DEF DropConn
<1> QED
  BY <1>1, <1>2, <1>3 DEF Next, Aside

(* The number of a new context has not been used.                          *)
LEMMA NextIsFresh ==
    ASSUME TypeOK, dials < MaxDials, dials' = dials + 1,
           closed' \subseteq 1 .. dials, conn' = None
    PROVE  Fresh'
<1>1. dials \in 0 .. MaxDials
  BY DEF TypeOK
<1>2. dials + 1 \in 1 .. MaxDials /\ dials + 1 \notin 1 .. dials
  BY <1>1, BoundsAssumption
<1> QED
  BY <1>2 DEF Fresh

(* Only the one inside stores a connection, so none appears during a dial. *)
LEMMA DialingStep ==
    ASSUME TypeOK, OneInside, Dropping, Dialing, [Next]_vars
    PROVE  Dialing'
<1> USE DEF TypeOK, OneInside, Dropping, Dialing, Fresh, EnsureInside,
            ReaderInside
<1>1. ASSUME NEW s \in Callers, EnsureCall(s) \/ Ensure(s) PROVE Dialing'
  <2>1. CASE EnsureCall(s) \/ EnsureFindsConn(s)
    BY <2>1 DEF EnsureCall, EnsureFindsConn
  <2>2. CASE EnsureBegins(s)
    <3>1. Fresh'
      BY <2>2, NextIsFresh DEF EnsureBegins, LockInit, RenewContext
    <3>2. \A n \in Dials : rpc'[n] # "rcDial"
      BY <2>2 DEF EnsureBegins, LockInit
    <3> QED
      BY <3>1, <3>2
  <2>3. CASE EnsureDialed(s)
    BY <2>3 DEF EnsureDialed
  <2>4. CASE EnsureDialFails(s)
    BY <2>4 DEF EnsureDialFails, DialFails, Fault
  <2>5. CASE EnsureGoesLive(s)
    BY <2>5 DEF EnsureGoesLive, GoesLive, ReaderGoes
  <2> QED
    BY <1>1, <2>1, <2>2, <2>3, <2>4, <2>5 DEF Ensure
<1>2. ASSUME NEW n \in Dials, Reader(n) \/ ReaderReads(n) PROVE Dialing'
  <2>1. CASE ReaderOutside(n)
    BY <2>1, OutsideStep
  <2>2. CASE ReconnectLocks(n)
    BY <2>2 DEF ReconnectLocks, ReaderAt, ReaderGoes, LockInit,
                CancelGoroutines
  <2>3. CASE ReconnectDrops(n)
    <3>1. closed' \subseteq 1 .. dials
      BY <2>3 DEF ReconnectDrops, DropConn
    <3>2. Fresh'
      BY <2>3, <3>1, NextIsFresh DEF ReconnectDrops, ReaderAt, DropConn
    <3>3. \A s \in Callers : epc'[s] # "dial"
      BY <2>3 DEF ReconnectDrops, ReaderAt
    <3> QED
      BY <3>2, <3>3
  <2>4. CASE ReconnectDialed(n)
    BY <2>4 DEF ReconnectDialed, ReaderAt, ReaderGoes
  <2>5. CASE ReconnectDialFails(n)
    BY <2>5 DEF ReconnectDialFails, ReaderAt, ReaderGoes, DialFails, Fault
  <2>6. CASE ReconnectGoesLive(n)
    BY <2>6 DEF ReconnectGoesLive, ReaderAt, GoesLive, HandsOver
  <2> QED
    BY <1>2, <2>1, <2>2, <2>3, <2>4, <2>5, <2>6 DEF Reader, ReaderOutside
<1>3. CASE Aside
  BY <1>3, AsideStep DEF DropConn
<1> QED
  BY <1>1, <1>2, <1>3 DEF Next, Aside

(* What was stored can be closed by others, but not replaced.              *)
LEMMA GoingLiveStep ==
    ASSUME TypeOK, OneInside, Dialing, GoingLive, [Next]_vars
    PROVE  GoingLive'
<1> USE DEF TypeOK, OneInside, Dialing, GoingLive, Fresh, Stored,
            EnsureInside, ReaderInside
<1>1. ASSUME NEW s \in Callers, EnsureCall(s) \/ Ensure(s) PROVE GoingLive'
  <2>1. CASE EnsureCall(s) \/ EnsureFindsConn(s)
    BY <2>1 DEF EnsureCall, EnsureFindsConn
  <2>2. CASE EnsureBegins(s)
    BY <2>2 DEF EnsureBegins, LockInit, RenewContext, CancelGoroutines
  <2>3. CASE EnsureDialed(s)
    BY <2>3 DEF EnsureDialed
  <2>4. CASE EnsureDialFails(s)
    BY <2>4 DEF EnsureDialFails, DialFails, Fault
  <2>5. CASE EnsureGoesLive(s)
    BY <2>5 DEF EnsureGoesLive, GoesLive, ReaderGoes
  <2> QED
    BY <1>1, <2>1, <2>2, <2>3, <2>4, <2>5 DEF Ensure
<1>2. ASSUME NEW n \in Dials, Reader(n) \/ ReaderReads(n) PROVE GoingLive'
  <2>1. CASE ReaderOutside(n)
    BY <2>1, OutsideStep
  <2>2. CASE ReconnectLocks(n)
    BY <2>2 DEF ReconnectLocks, ReaderAt, ReaderGoes, LockInit,
                CancelGoroutines
  <2>3. CASE ReconnectDrops(n)
    BY <2>3 DEF ReconnectDrops, ReaderAt, ReaderGoes, DropConn
  <2>4. CASE ReconnectDialed(n)
    BY <2>4 DEF ReconnectDialed, ReaderAt, ReaderGoes
  <2>5. CASE ReconnectDialFails(n)
    BY <2>5 DEF ReconnectDialFails, ReaderAt, ReaderGoes, DialFails, Fault
  <2>6. CASE ReconnectGoesLive(n)
    BY <2>6 DEF ReconnectGoesLive, ReaderAt, GoesLive, HandsOver
  <2> QED
    BY <1>2, <2>1, <2>2, <2>3, <2>4, <2>5, <2>6 DEF Reader, ReaderOutside
<1>3. CASE Aside
  BY <1>3, AsideStep DEF DropConn
<1> QED
  BY <1>1, <1>2, <1>3 DEF Next, Aside

(* A connection is closed only once it has been taken out.                 *)
LEMMA ConnIsOpenStep ==
    ASSUME TypeOK, Dialing, ConnIsOpen, [Next]_vars
    PROVE  ConnIsOpen'
<1> USE DEF TypeOK, Dialing, ConnIsOpen, Fresh
<1>1. ASSUME NEW s \in Callers, EnsureCall(s) \/ Ensure(s) PROVE ConnIsOpen'
  <2>1. CASE EnsureCall(s) \/ EnsureFindsConn(s)
    BY <2>1 DEF EnsureCall, EnsureFindsConn
  <2>2. CASE EnsureBegins(s)
    BY <2>2 DEF EnsureBegins, LockInit, RenewContext, CancelGoroutines
  <2>3. CASE EnsureDialed(s)
    BY <2>3 DEF EnsureDialed
  <2>4. CASE EnsureDialFails(s)
    BY <2>4 DEF EnsureDialFails, DialFails, Fault
  <2>5. CASE EnsureGoesLive(s)
    BY <2>5 DEF EnsureGoesLive, GoesLive, ReaderGoes
  <2> QED
    BY <1>1, <2>1, <2>2, <2>3, <2>4, <2>5 DEF Ensure
<1>2. ASSUME NEW n \in Dials, Reader(n) \/ ReaderReads(n) PROVE ConnIsOpen'
  <2>1. CASE ReaderOutside(n)
    BY <2>1, OutsideStep
  <2>2. CASE ReconnectLocks(n)
    BY <2>2 DEF ReconnectLocks, ReaderAt, ReaderGoes, LockInit,
                CancelGoroutines
  <2>3. CASE ReconnectDrops(n)
    BY <2>3 DEF ReconnectDrops, ReaderAt, ReaderGoes, DropConn
  <2>4. CASE ReconnectDialed(n)
    BY <2>4 DEF ReconnectDialed, ReaderAt, ReaderGoes
  <2>5. CASE ReconnectDialFails(n)
    BY <2>5 DEF ReconnectDialFails, ReaderAt, ReaderGoes, DialFails, Fault
  <2>6. CASE ReconnectGoesLive(n)
    BY <2>6 DEF ReconnectGoesLive, ReaderAt, GoesLive, HandsOver
  <2> QED
    BY <1>2, <2>1, <2>2, <2>3, <2>4, <2>5, <2>6 DEF Reader, ReaderOutside
<1>3. CASE Aside
  BY <1>3, AsideStep DEF DropConn
<1> QED
  BY <1>1, <1>2, <1>3 DEF Next, Aside

(* Both ways to a new context cancel the old one first.                    *)
LEMMA OldContextsCancelledStep ==
    ASSUME TypeOK, Dropping, OldContextsCancelled, [Next]_vars
    PROVE  OldContextsCancelled'
<1> USE DEF TypeOK, Dropping, OldContextsCancelled
<1>1. ASSUME NEW s \in Callers, EnsureCall(s) \/ Ensure(s) PROVE OldContextsCancelled'
  <2>1. CASE EnsureCall(s) \/ EnsureFindsConn(s)
    BY <2>1 DEF EnsureCall, EnsureFindsConn
  <2>2. CASE EnsureBegins(s)
    BY <2>2 DEF EnsureBegins, LockInit, RenewContext, CancelGoroutines
  <2>3. CASE EnsureDialed(s)
    BY <2>3 DEF EnsureDialed
  <2>4. CASE EnsureDialFails(s)
    BY <2>4 DEF EnsureDialFails, DialFails, Fault
  <2>5. CASE EnsureGoesLive(s)
    BY <2>5 DEF EnsureGoesLive, GoesLive, ReaderGoes
  <2> QED
    BY <1>1, <2>1, <2>2, <2>3, <2>4, <2>5 DEF Ensure
<1>2. ASSUME NEW n \in Dials, Reader(n) \/ ReaderReads(n) PROVE OldContextsCancelled'
  <2>1. CASE ReaderOutside(n)
    BY <2>1, OutsideStep
  <2>2. CASE ReconnectLocks(n)
    BY <2>2 DEF ReconnectLocks, ReaderAt, ReaderGoes, LockInit,
                CancelGoroutines
  <2>3. CASE ReconnectDrops(n)
    BY <2>3 DEF ReconnectDrops, ReaderAt, ReaderGoes, DropConn
  <2>4. CASE ReconnectDialed(n)
    BY <2>4 DEF ReconnectDialed, ReaderAt, ReaderGoes
  <2>5. CASE ReconnectDialFails(n)
    BY <2>5 DEF ReconnectDialFails, ReaderAt, ReaderGoes, DialFails, Fault
  <2>6. CASE ReconnectGoesLive(n)
    BY <2>6 DEF ReconnectGoesLive, ReaderAt, GoesLive, HandsOver
  <2> QED
    BY <1>2, <2>1, <2>2, <2>3, <2>4, <2>5, <2>6 DEF Reader, ReaderOutside
<1>3. CASE Aside
  BY <1>3, AsideStep DEF DropConn
<1> QED
  BY <1>1, <1>2, <1>3 DEF Next, Aside

(* A dial into nothing cannot push out a connection that has a reader.     *)
LEMMA NoConnLeakedStep ==
    ASSUME TypeOK, Dialing, GoingLive, NoConnLeaked, [Next]_vars
    PROVE  NoConnLeaked'
<1> USE DEF TypeOK, Dialing, GoingLive, NoConnLeaked, Fresh, Stored
<1>1. ASSUME NEW s \in Callers, EnsureCall(s) \/ Ensure(s) PROVE NoConnLeaked'
  <2>1. CASE EnsureCall(s) \/ EnsureFindsConn(s)
    BY <2>1 DEF EnsureCall, EnsureFindsConn
  <2>2. CASE EnsureBegins(s)
    BY <2>2 DEF EnsureBegins, LockInit, RenewContext, CancelGoroutines
  <2>3. CASE EnsureDialed(s)
    BY <2>3 DEF EnsureDialed
  <2>4. CASE EnsureDialFails(s)
    BY <2>4 DEF EnsureDialFails, DialFails, Fault
  <2>5. CASE EnsureGoesLive(s)
    BY <2>5 DEF EnsureGoesLive, GoesLive, ReaderGoes
  <2> QED
    BY <1>1, <2>1, <2>2, <2>3, <2>4, <2>5 DEF Ensure
<1>2. ASSUME NEW n \in Dials, Reader(n) \/ ReaderReads(n) PROVE NoConnLeaked'
  <2>1. CASE ReaderOutside(n)
    BY <2>1, OutsideStep
  <2>2. CASE ReconnectLocks(n)
    BY <2>2 DEF ReconnectLocks, ReaderAt, ReaderGoes, LockInit,
                CancelGoroutines
  <2>3. CASE ReconnectDrops(n)
    BY <2>3 DEF ReconnectDrops, ReaderAt, ReaderGoes, DropConn
  <2>4. CASE ReconnectDialed(n)
    BY <2>4 DEF ReconnectDialed, ReaderAt, ReaderGoes
  <2>5. CASE ReconnectDialFails(n)
    BY <2>5 DEF ReconnectDialFails, ReaderAt, ReaderGoes, DialFails, Fault
  <2>6. CASE ReconnectGoesLive(n)
    BY <2>6 DEF ReconnectGoesLive, ReaderAt, GoesLive, HandsOver
  <2> QED
    BY <1>2, <2>1, <2>2, <2>3, <2>4, <2>5, <2>6 DEF Reader, ReaderOutside
<1>3. CASE Aside
  BY <1>3, AsideStep DEF DropConn
<1> QED
  BY <1>1, <1>2, <1>3 DEF Next, Aside

(* The mutex changes hands with the place that it is held at.              *)
LEMMA InitMutexHasOwnerStep ==
    ASSUME TypeOK, InitMutexHasOwner, [Next]_vars
    PROVE  InitMutexHasOwner'
<1> USE DEF TypeOK, InitMutexHasOwner
<1>1. ASSUME NEW s \in Callers, EnsureCall(s) \/ Ensure(s) PROVE InitMutexHasOwner'
  <2>1. CASE EnsureCall(s) \/ EnsureFindsConn(s)
    BY <2>1 DEF EnsureCall, EnsureFindsConn
  <2>2. CASE EnsureBegins(s)
    BY <2>2 DEF EnsureBegins, LockInit
  <2>3. CASE EnsureDialed(s)
    BY <2>3 DEF EnsureDialed
  <2>4. CASE EnsureDialFails(s) \/ EnsureGoesLive(s)
    BY <2>4 DEF EnsureDialFails, DialFails, EnsureGoesLive, GoesLive
  <2> QED
    BY <1>1, <2>1, <2>2, <2>3, <2>4 DEF Ensure
<1>2. ASSUME NEW n \in Dials, Reader(n) \/ ReaderReads(n) PROVE InitMutexHasOwner'
  <2>1. CASE ReaderOutside(n)
    BY <2>1, OutsideStep DEF ReaderInside
  <2>2. CASE ReconnectLocks(n) \/ ReconnectDrops(n) \/ ReconnectDialed(n)
    BY <2>2 DEF ReconnectLocks, ReconnectDrops, ReconnectDialed, ReaderGoes
  <2>3. CASE ReconnectDialFails(n) \/ ReconnectGoesLive(n)
    BY <2>3 DEF ReconnectDialFails, DialFails, ReconnectGoesLive, GoesLive
  <2> QED
    BY <1>2, <2>1, <2>2, <2>3 DEF Reader, ReaderOutside
<1>3. CASE Aside
  BY <1>3, AsideStep
<1> QED
  BY <1>1, <1>2, <1>3 DEF Next, Aside

(* A reader of the current context leaves only when that context is        *)
(* cancelled or its connection fails or is closed.                         *)
LEMMA ServedByCurrentStep ==
    ASSUME TypeOK, OneInside, Dialing, GoingLive, ConnIsOpen, ServedByCurrent,
           [Next]_vars
    PROVE  ServedByCurrent'
<1> USE DEF TypeOK, OneInside, Dialing, GoingLive, ConnIsOpen,
            ServedByCurrent, Fresh, Stored, Serves, ClosingConn, EnsureInside,
            ReaderInside
<1>1. ASSUME NEW s \in Callers, EnsureCall(s) \/ Ensure(s) PROVE ServedByCurrent'
  <2>1. CASE EnsureCall(s)
    BY <2>1 DEF EnsureCall
  <2>2. CASE EnsureFindsConn(s)
    BY <2>2 DEF EnsureFindsConn
  <2>3. CASE EnsureBegins(s)
    BY <2>3 DEF EnsureBegins, LockInit, RenewContext, CancelGoroutines
  <2>4. CASE EnsureDialed(s)
    BY <2>4 DEF EnsureDialed
  <2>5. CASE EnsureDialFails(s)
    BY <2>5 DEF EnsureDialFails, DialFails, Fault
  <2>6. CASE EnsureGoesLive(s)
    BY <2>6 DEF EnsureGoesLive, GoesLive, ReaderGoes
  <2> QED
    BY <1>1, <2>1, <2>2, <2>3, <2>4, <2>5, <2>6 DEF Ensure
<1>2. ASSUME NEW n \in Dials, Reader(n) \/ ReaderReads(n) PROVE ServedByCurrent'
  <2>1. CASE ReaderStarts(n)
    BY <2>1 DEF ReaderStarts, ReaderAt, ReaderGoes
  <2>2. CASE ReaderChecksContext(n)
    BY <2>2 DEF ReaderChecksContext, ReaderAt, ReaderGoes
  <2>3. CASE ReaderGetsConn(n)
    BY <2>3 DEF ReaderGetsConn, ReaderAt, ReaderGoes
  <2>4. CASE ReaderReads(n)
    BY <2>4 DEF ReaderReads, ReaderAt, ReaderGoes
  <2>5. CASE ReaderFails(n)
    <3> SUFFICES ASSUME conn # None, conn \notin broken, ~initMu,
                        ~ClosingConn, dials \notin cancelled
                 PROVE  \E m \in Dials : Serves(m)'
      BY <2>5 DEF ReaderFails
    <3>1. PICK m \in Dials : Serves(m)
      OBVIOUS
    <3>2. rpc[n] = "read" /\ rconn[n] # conn
      BY <2>5 DEF ReaderFails, ReaderAt, ReadFails
    <3>3. m # n
      BY <3>1, <3>2
    <3>4. rpc'[m] = rpc[m]
      BY <2>5, <3>3 DEF ReaderFails, ReaderGoes
    <3>5. UNCHANGED <<rctx, rconn, conn, dials>>
      BY <2>5 DEF ReaderFails
    <3> QED
      BY <3>1, <3>4, <3>5
  <2>6. CASE ReaderExits(n)
    BY <2>6 DEF ReaderExits, ReaderAt, ReaderGoes
  <2>7. CASE ReconnectGoesOn(n)
    BY <2>7 DEF ReconnectGoesOn, ReaderAt, ReaderGoes, Exhausted
  <2>8. CASE ReconnectGivesUp(n)
    BY <2>8 DEF ReconnectGivesUp, ReaderAt, ReaderGoes, Exhausted
  <2>9. CASE ReconnectAnnounces(n)
    BY <2>9 DEF ReconnectAnnounces, ReaderAt, ReaderGoes
  <2>10. CASE ReconnectLocks(n)
    BY <2>10 DEF ReconnectLocks, ReaderAt, ReaderGoes, LockInit,
                 CancelGoroutines
  <2>11. CASE ReconnectDrops(n)
    BY <2>11 DEF ReconnectDrops, ReaderAt, ReaderGoes, DropConn
  <2>12. CASE ReconnectDialed(n)
    BY <2>12 DEF ReconnectDialed, ReaderAt, ReaderGoes
  <2>13. CASE ReconnectDialFails(n)
    BY <2>13 DEF ReconnectDialFails, ReaderAt, ReaderGoes, DialFails, Fault
  <2>14. CASE ReconnectGoesLive(n)
    BY <2>14 DEF ReconnectGoesLive, ReaderAt, GoesLive, HandsOver
  <2> QED
    BY <1>2, <2>1, <2>2, <2>3, <2>4, <2>5, <2>6, <2>7, <2>8, <2>9, <2>10,
       <2>11, <2>12, <2>13, <2>14 DEF Reader
<1>3. ASSUME NEW n \in Dials, Pinger(n) \/ PongOverdue(n) PROVE ServedByCurrent'
  <2>1. CASE PingerStarts(n)
    BY <2>1 DEF PingerStarts, PingerGoes
  <2>2. CASE PingerStops(n)
    BY <2>2 DEF PingerStops, PingerGoes, PingerTold
  <2>3. CASE PingFails(n)
    BY <2>3 DEF PingFails, PingerGoes, ReadFails
  <2>4. CASE PongOverdue(n)
    BY <2>4 DEF PongOverdue, PingerGoes, Fault
  <2>5. CASE PingerCancels(n)
    BY <2>5 DEF PingerCancels, PingerGoes, CancelGoroutines
  <2>6. CASE PingerDrops(n)
    BY <2>6 DEF PingerDrops, PingerGoes, DropConn
  <2> QED
    BY <1>3, <2>1, <2>2, <2>3, <2>4, <2>5, <2>6 DEF Pinger
<1>4. CASE CloseBegins \/ Close \/ DeauthCancels \/ DeauthDrops
  <2>1. CASE CloseBegins
    BY <2>1 DEF CloseBegins
  <2>2. CASE CloseCancels
    BY <2>2 DEF CloseCancels, CancelGoroutines
  <2>3. CASE CloseDrops
    BY <2>3 DEF CloseDrops, DropConn
  <2>4. CASE CloseReports
    BY <2>4 DEF CloseReports
  <2>5. CASE CloseShutsDown
    BY <2>5 DEF CloseShutsDown
  <2>6. CASE DeauthCancels
    BY <2>6 DEF DeauthCancels, CancelGoroutines
  <2>7. CASE DeauthDrops
    BY <2>7 DEF DeauthDrops, DropConn
  <2> QED
    BY <1>4, <2>1, <2>2, <2>3, <2>4, <2>5, <2>6, <2>7 DEF Close
<1>5. CASE ConnBreaks
  BY <1>5 DEF ConnBreaks, Fault
<1>6. CASE UNCHANGED vars
  BY <1>6 DEF vars
<1> QED
  BY <1>1, <1>2, <1>3, <1>4, <1>5, <1>6 DEF Next

(* A reader that leaves with its context alive has found the failure: it   *)
(* reconnects, or it has reported, or the client is closing.               *)
LEMMA WitnessByCurrentStep ==
    ASSUME TypeOK, OneInside, Dialing, GoingLive, ConnIsOpen, WitnessByCurrent,
           [Next]_vars
    PROVE  WitnessByCurrent'
<1> USE DEF TypeOK, OneInside, Dialing, GoingLive, ConnIsOpen,
            WitnessByCurrent, Fresh, Stored, Serves, ClosingConn, EnsureInside,
            ReaderInside, Reconnecting
<1>1. ASSUME NEW s \in Callers, EnsureCall(s) \/ Ensure(s) PROVE WitnessByCurrent'
  <2>1. CASE EnsureCall(s)
    BY <2>1 DEF EnsureCall
  <2>2. CASE EnsureFindsConn(s)
    BY <2>2 DEF EnsureFindsConn
  <2>3. CASE EnsureBegins(s)
    BY <2>3 DEF EnsureBegins, LockInit, RenewContext, CancelGoroutines
  <2>4. CASE EnsureDialed(s)
    BY <2>4 DEF EnsureDialed
  <2>5. CASE EnsureDialFails(s)
    BY <2>5 DEF EnsureDialFails, DialFails, Fault
  <2>6. CASE EnsureGoesLive(s)
    BY <2>6 DEF EnsureGoesLive, GoesLive, ReaderGoes
  <2> QED
    BY <1>1, <2>1, <2>2, <2>3, <2>4, <2>5, <2>6 DEF Ensure
<1>2. ASSUME NEW n \in Dials, Reader(n) \/ ReaderReads(n) PROVE WitnessByCurrent'
  <2>1. CASE ReaderStarts(n)
    BY <2>1 DEF ReaderStarts, ReaderAt, ReaderGoes
  <2>2. CASE ReaderChecksContext(n)
    BY <2>2 DEF ReaderChecksContext, ReaderAt, ReaderGoes
  <2>3. CASE ReaderGetsConn(n)
    BY <2>3 DEF ReaderGetsConn, ReaderAt, ReaderGoes
  <2>4. CASE ReaderReads(n)
    BY <2>4 DEF ReaderReads, ReaderAt, ReaderGoes
  <2>5. CASE ReaderFails(n)
    <3>1. CASE MayReconnect
      <4>1. Reconnecting(n)'
        BY <2>5, <3>1 DEF ReaderFails, ReaderGoes
      <4> QED
        BY <4>1
    <3>2. CASE ~MayReconnect
      <4>1. closing' \/ connState' = "disconnected"
        BY <2>5, <3>2 DEF ReaderFails
      <4> QED
        BY <4>1
    <3> QED
      BY <3>1, <3>2
  <2>6. CASE ReaderExits(n)
    BY <2>6 DEF ReaderExits, ReaderAt, ReaderGoes
  <2>7. CASE ReconnectGoesOn(n)
    BY <2>7 DEF ReconnectGoesOn, ReaderAt, ReaderGoes, Exhausted
  <2>8. CASE ReconnectGivesUp(n)
    BY <2>8 DEF ReconnectGivesUp, ReaderAt, ReaderGoes, Exhausted
  <2>9. CASE ReconnectAnnounces(n)
    BY <2>9 DEF ReconnectAnnounces, ReaderAt, ReaderGoes
  <2>10. CASE ReconnectLocks(n)
    BY <2>10 DEF ReconnectLocks, ReaderAt, ReaderGoes, LockInit,
                 CancelGoroutines
  <2>11. CASE ReconnectDrops(n)
    BY <2>11 DEF ReconnectDrops, ReaderAt, ReaderGoes, DropConn
  <2>12. CASE ReconnectDialed(n)
    BY <2>12 DEF ReconnectDialed, ReaderAt, ReaderGoes
  <2>13. CASE ReconnectDialFails(n)
    BY <2>13 DEF ReconnectDialFails, ReaderAt, ReaderGoes, DialFails, Fault
  <2>14. CASE ReconnectGoesLive(n)
    BY <2>14 DEF ReconnectGoesLive, ReaderAt, GoesLive, HandsOver
  <2> QED
    BY <1>2, <2>1, <2>2, <2>3, <2>4, <2>5, <2>6, <2>7, <2>8, <2>9, <2>10,
       <2>11, <2>12, <2>13, <2>14 DEF Reader
<1>3. ASSUME NEW n \in Dials, Pinger(n) \/ PongOverdue(n) PROVE WitnessByCurrent'
  <2>1. CASE PingerStarts(n)
    BY <2>1 DEF PingerStarts, PingerGoes
  <2>2. CASE PingerStops(n)
    BY <2>2 DEF PingerStops, PingerGoes, PingerTold
  <2>3. CASE PingFails(n)
    BY <2>3 DEF PingFails, PingerGoes, ReadFails
  <2>4. CASE PongOverdue(n)
    BY <2>4 DEF PongOverdue, PingerGoes, Fault
  <2>5. CASE PingerCancels(n)
    BY <2>5 DEF PingerCancels, PingerGoes, CancelGoroutines
  <2>6. CASE PingerDrops(n)
    BY <2>6 DEF PingerDrops, PingerGoes, DropConn
  <2> QED
    BY <1>3, <2>1, <2>2, <2>3, <2>4, <2>5, <2>6 DEF Pinger
<1>4. CASE CloseBegins \/ Close \/ DeauthCancels \/ DeauthDrops
  <2>1. CASE CloseBegins
    BY <2>1 DEF CloseBegins
  <2>2. CASE CloseCancels
    BY <2>2 DEF CloseCancels, CancelGoroutines
  <2>3. CASE CloseDrops
    BY <2>3 DEF CloseDrops, DropConn
  <2>4. CASE CloseReports
    BY <2>4 DEF CloseReports
  <2>5. CASE CloseShutsDown
    BY <2>5 DEF CloseShutsDown
  <2>6. CASE DeauthCancels
    BY <2>6 DEF DeauthCancels, CancelGoroutines
  <2>7. CASE DeauthDrops
    BY <2>7 DEF DeauthDrops, DropConn
  <2> QED
    BY <1>4, <2>1, <2>2, <2>3, <2>4, <2>5, <2>6, <2>7 DEF Close
<1>5. CASE ConnBreaks
  BY <1>5 DEF ConnBreaks, Fault
<1>6. CASE UNCHANGED vars
  BY <1>6 DEF vars
<1> QED
  BY <1>1, <1>2, <1>3, <1>4, <1>5, <1>6 DEF Next

(* The flag stays as Close sets it.                                        *)
LEMMA ClosingIsSetStep ==
    ASSUME ClosingIsSet, [Next]_vars
    PROVE  ClosingIsSet' /\ (closing => closing')
<1> USE DEF ClosingIsSet
<1>1. ASSUME NEW s \in Callers, EnsureCall(s) \/ Ensure(s) PROVE UNCHANGED <<closing, cpc>>
  BY <1>1 DEF EnsureCall, Ensure, EnsureFindsConn, EnsureBegins, EnsureDialed,
              EnsureDialFails, EnsureGoesLive
<1>2. ASSUME NEW n \in Dials, Reader(n) \/ ReaderReads(n) PROVE UNCHANGED <<closing, cpc>>
  BY <1>2 DEF Reader, ReaderStarts, ReaderChecksContext, ReaderGetsConn, ReaderReads,
              ReaderFails, ReaderExits, ReconnectGoesOn, ReconnectGivesUp,
              ReconnectAnnounces, ReconnectLocks, ReconnectDrops, ReconnectDialed,
              ReconnectDialFails, ReconnectGoesLive
<1>3. ASSUME NEW n \in Dials, Pinger(n) \/ PongOverdue(n) PROVE UNCHANGED <<closing, cpc>>
  BY <1>3 DEF Pinger, PingerStarts, PingerStops, PingFails, PongOverdue, PingerCancels,
              PingerDrops
<1>4. CASE CloseBegins
  BY <1>4 DEF CloseBegins
<1>5. CASE Close
  BY <1>5 DEF Close, CloseCancels, CloseDrops, CloseReports, CloseShutsDown
<1>6. CASE DeauthCancels \/ DeauthDrops \/ ConnBreaks \/ UNCHANGED vars
  BY <1>6 DEF DeauthCancels, DeauthDrops, ConnBreaks, vars
<1> QED
  BY <1>1, <1>2, <1>3, <1>4, <1>5, <1>6 DEF Next

-----------------------------------------------------------------------------
(* The invariant, and the properties that follow from it.                  *)

(* The three parts are TypeOK.                                             *)
LEMMA TypeParts == TypeOK <=> NumbersOK /\ ReadersOK /\ PlacesOK
  BY DEF TypeOK, NumbersOK, ReadersOK, PlacesOK

(* The invariant holds when nothing runs.                                  *)
LEMMA InitIInv == Init => IInv
<1> SUFFICES ASSUME Init PROVE IInv
  OBVIOUS
<1> USE DEF Init
<1>1. TypeOK
  <2>1. NumbersOK
    BY BoundsAssumption DEF NumbersOK
  <2>2. ReadersOK
    BY BoundsAssumption DEF ReadersOK, ReaderStates
  <2>3. PlacesOK
    <3>1. pctx \in [Dials -> 0 .. MaxDials]
      BY BoundsAssumption
    <3>2. ppc \in [Dials -> {"none", "start", "wait", "cancel", "close", "dead"}]
      OBVIOUS
    <3>3. epc \in [Callers -> {"idle", "lock", "dial", "up"}]
      OBVIOUS
    <3> QED
      BY <3>1, <3>2, <3>3 DEF PlacesOK
  <2> QED
    BY <2>1, <2>2, <2>3, TypeParts
<1>2. OneInside /\ InitMutexHasOwner /\ Dropping /\ Dialing /\ GoingLive
  BY DEF OneInside, EnsureInside, ReaderInside, InitMutexHasOwner, Dropping, Dialing,
         GoingLive
<1>3. ConnIsOpen /\ OldContextsCancelled /\ NoConnLeaked /\ ServedByCurrent
  BY DEF ConnIsOpen, OldContextsCancelled, NoConnLeaked, ServedByCurrent
<1>4. WitnessByCurrent /\ ClosingIsSet
  BY DEF WitnessByCurrent, ClosingIsSet
<1> QED
  BY <1>1, <1>2, <1>3, <1>4 DEF IInv

(* Every step preserves the invariant.                                     *)
LEMMA NextIInv == IInv /\ [Next]_vars => IInv'
<1> SUFFICES ASSUME IInv, [Next]_vars PROVE IInv'
  OBVIOUS
<1> USE DEF IInv
<1>1. TypeOK'
  <2>1. NumbersOK /\ ReadersOK /\ PlacesOK
    BY TypeParts
  <2>2. NumbersOK' /\ ReadersOK' /\ PlacesOK'
    BY <2>1, NumbersStep, ReadersStep, PlacesStep
  <2> QED
    BY <2>2 DEF TypeOK, NumbersOK, ReadersOK, PlacesOK
<1>2. OneInside' /\ Dropping' /\ Dialing' /\ GoingLive'
  BY OneInsideStep, DroppingStep, DialingStep, GoingLiveStep
<1>3. ConnIsOpen' /\ OldContextsCancelled'
  BY ConnIsOpenStep, OldContextsCancelledStep
<1>4. NoConnLeaked' /\ ServedByCurrent'
  BY NoConnLeakedStep, ServedByCurrentStep
<1>5. InitMutexHasOwner' /\ WitnessByCurrent' /\ ClosingIsSet'
  BY InitMutexHasOwnerStep, WitnessByCurrentStep, ClosingIsSetStep
<1> QED
  BY <1>1, <1>2, <1>3, <1>4, <1>5

(* IInv holds in every reachable state.                                    *)
LEMMA Invariance == Spec => []IInv
  BY InitIInv, NextIInv, PTL DEF Spec

(* Type correctness; in particular the client never dials beyond the next  *)
(* free number and no connection, closed or broken, is one never dialed.   *)
THEOREM TypeCorrect == Spec => []TypeOK
<1>1. IInv => TypeOK
  BY DEF IInv
<1> QED
  BY <1>1, Invariance, PTL

(* No dial ever replaces a connection in use, for any number of callers,   *)
(* reconnectLoops, closes and pong timeouts: the init mutex is enough.     *)
THEOREM EveryDialIsIntoNothing == Spec => []DialsIntoNothing
<1>1. IInv => DialsIntoNothing
  BY DEF IInv, Dialing, Fresh, DialsIntoNothing
<1> QED
  BY <1>1, Invariance, PTL

(* Every connection that ever had a readLoop is the current one or closed. *)
THEOREM NoConnIsLeaked == Spec => []NoConnLeaked
<1>1. IInv => NoConnLeaked
  BY DEF IInv
<1> QED
  BY <1>1, Invariance, PTL

(* Only the newest goroutine context can be alive.                         *)
THEOREM OldContextsAreCancelled == Spec => []OldContextsCancelled
<1>1. IInv => OldContextsCancelled
  BY DEF IInv
<1> QED
  BY <1>1, Invariance, PTL

(* A connection with a live context always has a readLoop that reads it or *)
(* is on its way to, or its failure is being dealt with; also when         *)
(* readLoops read each other's connections and closeConn of one actor      *)
(* meets the reconnect of another.                                         *)
THEOREM ConnIsServed == Spec => []Served
<1>1. IInv => Served
  <2> SUFFICES ASSUME IInv, conn # None, ~initMu, ~ClosingConn, dials \notin cancelled,
                      \A n \in Dials : ~WillRead(n)
               PROVE  /\ conn \in broken
                      /\ \/ \E n \in Dials : Reconnecting(n)
                         \/ connState = "disconnected"
                         \/ closing
    BY DEF Served
  <2>1. \A n \in Dials : ~Serves(n)
    <3>1. \A n \in Dials : Serves(n) => WillRead(n)
      BY DEF Serves, WillRead
    <3> QED
      BY <3>1
  <2>2. conn \in broken
    BY <2>1 DEF IInv, ServedByCurrent
  <2>3. (\E n \in Dials : Reconnecting(n)) \/ connState = "disconnected" \/ closing
    BY <2>1 DEF IInv, WitnessByCurrent
  <2> QED
    BY <2>2, <2>3
<1> QED
  BY <1>1, Invariance, PTL

(* Nobody waits on an init mutex that nobody will unlock, whichever dials  *)
(* fail and whoever else waits.                                            *)
THEOREM MutexHasOwner == Spec => []InitMutexHasOwner
<1>1. IInv => InitMutexHasOwner
  BY DEF IInv
<1> QED
  BY <1>1, Invariance, PTL

-----------------------------------------------------------------------------
(* The channel seen from the network: each step opens a socket in an empty *)
(* place, closes the one there is, or concerns the goroutines only.        *)

(* closeConn is a close, or nothing if there is no connection.             *)
LEMMA DropIsClose == DropConn => Slot!Close \/ UNCHANGED Slot!vars
BY DEF DropConn, Slot!Close, Slot!vars

LEMMA SlotStep ==
    ASSUME IInv, [Next]_vars
    PROVE  [Slot!Next]_(Slot!vars)
<1> USE DEF IInv, Slot!vars, Slot!Next
<1>1. ASSUME NEW s \in Callers, EnsureCall(s) \/ Ensure(s) PROVE [Slot!Next]_(Slot!vars)
  <2>1. CASE EnsureDialed(s)
    <3>1. Fresh /\ conn' = dials /\ UNCHANGED closed
      BY <2>1 DEF EnsureDialed, Dialing
    <3>2. Slot!Open(dials)
      BY <3>1 DEF Fresh, Slot!Open
    <3> QED
      BY <3>1, <3>2 DEF Fresh
  <2>2. CASE EnsureCall(s) \/ EnsureFindsConn(s) \/ EnsureBegins(s) \/
             EnsureDialFails(s) \/ EnsureGoesLive(s)
    BY <2>2 DEF EnsureCall, EnsureFindsConn, EnsureBegins, EnsureDialFails, EnsureGoesLive
  <2> QED
    BY <1>1, <2>1, <2>2 DEF Ensure
<1>2. ASSUME NEW n \in Dials, Reader(n) \/ ReaderReads(n) PROVE [Slot!Next]_(Slot!vars)
  <2>1. CASE ReaderOutside(n)
    BY <2>1, OutsideStep
  <2>2. CASE ReconnectDialed(n)
    <3>1. Fresh /\ conn' = dials /\ UNCHANGED closed
      BY <2>2 DEF ReconnectDialed, ReaderAt, Dialing
    <3>2. Slot!Open(dials)
      BY <3>1 DEF Fresh, Slot!Open
    <3> QED
      BY <3>1, <3>2 DEF Fresh
  <2>3. CASE ReconnectDrops(n)
    BY <2>3, DropIsClose DEF ReconnectDrops
  <2>4. CASE ReconnectLocks(n) \/ ReconnectDialFails(n) \/ ReconnectGoesLive(n)
    BY <2>4 DEF ReconnectLocks, ReconnectDialFails, ReconnectGoesLive
  <2> QED
    BY <1>2, <2>1, <2>2, <2>3, <2>4 DEF Reader, ReaderOutside
<1>3. CASE Aside
  BY <1>3, AsideStep, DropIsClose
<1> QED
  BY <1>1, <1>2, <1>3 DEF Next, Aside

(* The channel implements a place for one socket, for any callers and      *)
(* configuration and however often it reconnects.                          *)
THEOREM SlotIsImplemented == Spec => ImplementsSlot
<1>1. Init => Slot!Init
  BY DEF Init, Slot!Init
<1>2. IInv /\ [Next]_vars => [Slot!Next]_(Slot!vars)
  BY SlotStep
<1> QED
  BY <1>1, <1>2, Invariance, PTL DEF Spec, ImplementsSlot, Slot!Spec

-----------------------------------------------------------------------------
(* Close of a client at rest.                                              *)

(* What Close leaves, from its first step on.                              *)
Final ==
    /\ AtRest
    /\ closing
    /\ cpc # "idle"
    /\ cpc \notin {"cancel", "close"} => conn = None

RestPlaces == {"none", "start", "check", "get", "read", "exit", "dead"}

(* A readLoop of a closing client moves between places of rest.            *)
LEMMA ReaderRests ==
    ASSUME TypeOK, Final, NEW n \in Dials, Reader(n) \/ ReaderReads(n)
    PROVE  /\ rpc' \in [Dials -> RestPlaces]
           /\ UNCHANGED <<conn, initMu, closing, epc, cpc, calls>>
<1> USE DEF TypeOK, RestPlaces, ReaderAt, ReaderGoes
<1>1. rpc \in [Dials -> RestPlaces] /\ closing
  BY DEF Final, AtRest
<1>2. CASE ReaderStarts(n) \/ ReaderReads(n) \/ ReaderExits(n)
  BY <1>1, <1>2 DEF ReaderStarts, ReaderReads, ReaderExits
<1>3. CASE ReaderChecksContext(n)
  BY <1>1, <1>3 DEF ReaderChecksContext
<1>4. CASE ReaderGetsConn(n)
  <2>1. CASE conn # None
    BY <1>1, <1>4, <2>1 DEF ReaderGetsConn
  <2>2. CASE conn = None
    BY <1>1, <1>4, <2>2 DEF ReaderGetsConn
  <2> QED
    BY <2>1, <2>2
<1>5. CASE ReaderFails(n)
  BY <1>1, <1>5 DEF ReaderFails, MayReconnect
<1>6. rpc[n] \in RestPlaces
  BY <1>1
<1>7. ~(\/ ReconnectGoesOn(n) \/ ReconnectGivesUp(n) \/ ReconnectAnnounces(n)
        \/ ReconnectLocks(n) \/ ReconnectDrops(n) \/ ReconnectDialed(n)
        \/ ReconnectDialFails(n) \/ ReconnectGoesLive(n))
  BY <1>6 DEF ReconnectGoesOn, ReconnectGivesUp, ReconnectAnnounces, ReconnectLocks,
              ReconnectDrops, ReconnectDialed, ReconnectDialFails, ReconnectGoesLive
<1> QED
  BY <1>2, <1>3, <1>4, <1>5, <1>7 DEF Reader

(* What the others may do to a client at rest: they do not move its        *)
(* readLoops, and the connection, if they touch it, is dropped.            *)
LEMMA RestIsKept ==
    ASSUME Final, UNCHANGED <<initMu, calls, epc, rpc, closing>>,
           \/ UNCHANGED cpc /\ conn' \in {conn, None}
           \/ cpc' = "close"
           \/ cpc' # "idle" /\ conn' = None
           \/ cpc \notin {"cancel", "close"} /\ UNCHANGED conn /\ cpc' # "idle"
    PROVE  Final'
BY DEF Final, AtRest

LEMMA FinalStep ==
    ASSUME TypeOK, Final, [Next]_vars
    PROVE  Final'
<1>1. ASSUME NEW s \in Callers, EnsureCall(s) \/ Ensure(s) PROVE FALSE
  <2>1. epc[s] = "idle" /\ ~(calls < MaxCalls)
    BY DEF Final, AtRest, TypeOK, NumbersOK
  <2>2. CASE EnsureCall(s)
    BY <2>1, <2>2 DEF EnsureCall
  <2>3. CASE Ensure(s)
    BY <2>1, <2>3 DEF Ensure, EnsureFindsConn, EnsureBegins, EnsureDialed,
                      EnsureDialFails, EnsureGoesLive
  <2> QED
    BY <1>1, <2>2, <2>3
<1>2. ASSUME NEW n \in Dials, Reader(n) \/ ReaderReads(n) PROVE Final'
  BY <1>2, ReaderRests DEF Final, AtRest, RestPlaces
<1>3. ASSUME NEW n \in Dials, Pinger(n) \/ PongOverdue(n) PROVE Final'
  <2>1. /\ UNCHANGED <<initMu, calls, epc, rpc, closing, cpc>>
        /\ conn' \in {conn, None}
    BY <1>3 DEF Pinger, PingerStarts, PingerStops, PingFails, PongOverdue, Fault,
                PingerCancels, CancelGoroutines, PingerDrops, DropConn
  <2> QED
    BY <2>1, RestIsKept
<1>4. CASE CloseBegins
  BY <1>4 DEF CloseBegins, Final
<1>5. CASE Close
  <2>1. UNCHANGED <<initMu, calls, epc, rpc, closing>>
    BY <1>5 DEF Close, CloseCancels, CancelGoroutines, CloseDrops, CloseReports,
                CloseShutsDown
  <2>2. \/ cpc' = "close"
        \/ cpc' # "idle" /\ conn' = None
        \/ cpc \notin {"cancel", "close"} /\ UNCHANGED conn /\ cpc' # "idle"
    BY <1>5 DEF Close, CloseCancels, CloseDrops, DropConn, CloseReports, CloseShutsDown
  <2> QED
    BY <2>1, <2>2, RestIsKept
<1>6. CASE DeauthCancels \/ DeauthDrops \/ ConnBreaks \/ UNCHANGED vars
  <2>1. /\ UNCHANGED <<initMu, calls, epc, rpc, closing, cpc>>
        /\ conn' \in {conn, None}
    BY <1>6 DEF DeauthCancels, CancelGoroutines, DeauthDrops, DropConn, ConnBreaks,
                Fault, vars
  <2> QED
    BY <2>1, RestIsKept
<1> QED
  BY <1>1, <1>2, <1>3, <1>4, <1>5, <1>6 DEF Next

(* Once Close has begun on a client at rest, nobody dials, locks the init  *)
(* mutex or goes to reconnect ever again, and the connection that Close    *)
(* drops is the last.                                                      *)
THEOREM CloseIsFinal == Spec => CloseAtRestIsFinal
<1>1. IInv /\ cpc = "cancel" /\ AtRest => Final
  BY DEF IInv, ClosingIsSet, Final
<1>2. IInv /\ Final /\ [Next]_vars => Final'
  BY FinalStep DEF IInv
<1>3. Final => AtRest /\ (cpc \notin {"cancel", "close"} => conn = None)
  BY DEF Final
<1> QED
  BY <1>1, <1>2, <1>3, Invariance, PTL DEF Spec, CloseAtRestIsFinal
=============================================================================
