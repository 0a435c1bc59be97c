---------------------------- MODULE WsConnection ----------------------------
(***************************************************************************)
(* One channel (market or user) of the WebSocket client of pkg/clob/ws:    *)
(* the connection, the goroutines that serve it and the calls that open    *)
(* and close it (impl.go, lifecycle.go).                                   *)
(*                                                                         *)
(*  - ensureConn is called by every Subscribe and by the constructor; it   *)
(*    dials when there is no connection and starts readLoop and pingLoop.  *)
(*  - readLoop reads until an error, then runs reconnectLoop itself; a     *)
(*    successful reconnect starts a new pair of loops and ends this one.   *)
(*  - pingLoop closes the connection when no pong came in time.            *)
(*  - Deauthenticate and Close close the connection from outside.          *)
(*                                                                         *)
(* Each step is one critical section or one blocking call of the code.     *)
(* The n-th attempt to dial creates the n-th goroutine context and, if it  *)
(* succeeds, connection n, readLoop n and pingLoop n: one number names     *)
(* them all.                                                               *)
(***************************************************************************)
EXTENDS Integers

CONSTANTS
    Callers,       \* goroutines that call ensureConn
    Reconnect,     \* ClientConfig.Reconnect
    ReconnectMax,  \* ClientConfig.ReconnectMax, 0 for no limit
    Ping,          \* ~ClientConfig.DisablePing
    Closes,        \* whether the application calls Close
    Deauths,       \* whether the application calls Deauthenticate
    MaxDials,      \* bound: attempts to dial in one behaviour
    MaxFaults,     \* bound: broken connections, failed dials, pong timeouts
    MaxCalls       \* bound: calls of ensureConn

ASSUME ConfigAssumption ==
    /\ Reconnect \in BOOLEAN
    /\ ReconnectMax \in Nat
    /\ Ping \in BOOLEAN
    /\ Closes \in BOOLEAN
    /\ Deauths \in BOOLEAN

ASSUME BoundsAssumption ==
    /\ MaxDials \in Nat
    /\ MaxFaults \in Nat
    /\ MaxCalls \in Nat

Dials == 1 .. MaxDials
None == 0

VARIABLES
    conn,       \* c.conn, None for nil
    closed,     \* connections on which Close() was called locally
    broken,     \* connections on which reads fail
    dials,      \* attempts to dial so far; the current context is this one
    cancelled,  \* contexts that were cancelled
    initMu,     \* whether marketInitMu (userInitMu) is held
    connState,  \* c.marketState (c.userState)
    closing,    \* c.closing
    done,       \* whether shutdown has closed c.done
    rpc,        \* readLoop n: where it is
    rctx,       \*   its ctx
    rconn,      \*   its conn
    attempt,    \*   attempt of its reconnectLoop
    ppc,        \* pingLoop n: where it is
    pctx,       \*   its ctx
    epc,        \* ensureConn of each caller
    cpc,        \* Close
    dpc,        \* Deauthenticate
    faults,     \* faults so far
    calls       \* calls of ensureConn so far

link == <<conn, closed, broken>>
ctxs == <<dials, cancelled>>
readers == <<rpc, rctx, rconn, attempt>>
pingers == <<ppc, pctx>>
flags == <<closing, done>>
bounds == <<faults, calls>>
vars == <<link, ctxs, initMu, connState, flags, readers, pingers,
          epc, cpc, dpc, bounds>>

\* newClientImpl: nothing is connected and nothing runs.
Init ==
    /\ conn = None
    /\ closed = {}
    /\ broken = {}
    /\ dials = 0
    /\ cancelled = {}
    /\ initMu = FALSE
    /\ connState = "disconnected"
    /\ closing = FALSE
    /\ done = FALSE
    /\ rpc = [n \in Dials |-> "none"]
    /\ rctx = [n \in Dials |-> None]
    /\ rconn = [n \in Dials |-> None]
    /\ attempt = [n \in Dials |-> 0]
    /\ ppc = [n \in Dials |-> "none"]
    /\ pctx = [n \in Dials |-> None]
    /\ epc = [s \in Callers |-> "idle"]
    /\ cpc = "idle"
    /\ dpc = "idle"
    /\ faults = 0
    /\ calls = 0

-----------------------------------------------------------------------------
(* What the operations share.                                              *)

\* cancelGoroutines: cancels the current context only.
CancelGoroutines == cancelled' = cancelled \cup ({dials} \ {None})

\* Faulty variant: the connection is forgotten without being closed.
DropConnOpen == conn' = None /\ UNCHANGED closed

\* The second half of closeConn: take the connection out, then close it.
DropConn ==
    /\ conn' = None
    /\ closed' = closed \cup ({conn} \ {None})

ReadFails(k) == k \in closed \cup broken

ReaderAt(n, here) == rpc[n] = here
ReaderGoes(n, there) == rpc' = [rpc EXCEPT ![n] = there]
PingerGoes(n, there) == ppc' = [ppc EXCEPT ![n] = there]

Fault ==
    /\ faults < MaxFaults
    /\ faults' = faults + 1
    /\ UNCHANGED calls

\* The init mutex of the channel.
LockInit == ~initMu /\ initMu' = TRUE

\* Faulty variant: the error path returns without unlocking.
DialFailsLocked == Fault /\ UNCHANGED initMu

DialFails == Fault /\ initMu' = FALSE

\* After a dial succeeded: go readLoop, go pingLoop, unlock the init mutex.
GoesLive ==
    /\ connState' = "connected"
    /\ ppc' = IF Ping THEN [ppc EXCEPT ![dials] = "start"] ELSE ppc
    /\ initMu' = FALSE

-----------------------------------------------------------------------------
(* ensureConn (ensureMarketConn, ensureUserConn).                          *)

EnsureCall(s) ==
    /\ epc[s] = "idle"
    /\ calls < MaxCalls
    /\ calls' = calls + 1
    /\ epc' = [epc EXCEPT ![s] = "lock"]
    /\ UNCHANGED <<link, ctxs, initMu, connState, flags, readers, pingers,
                   cpc, dpc, faults>>

EnsureFindsConn(s) ==
    /\ epc[s] = "lock"
    /\ ~initMu
    /\ conn # None
    /\ epc' = [epc EXCEPT ![s] = "idle"]
    /\ UNCHANGED <<link, ctxs, initMu, connState, flags, readers, pingers,
                   cpc, dpc, bounds>>

\* Faulty variant: the old goroutines are not told.
RenewContextOnly == dials' = dials + 1 /\ UNCHANGED cancelled

RenewContext == dials' = dials + 1 /\ CancelGoroutines

\* Lock, connecting, cancel the old goroutines, create the new context.
EnsureBegins(s) ==
    /\ epc[s] = "lock"
    /\ LockInit
    /\ conn = None
    /\ dials < MaxDials
    /\ connState' = "connecting"
    /\ RenewContext
    /\ epc' = [epc EXCEPT ![s] = "dial"]
    /\ UNCHANGED <<link, flags, readers, pingers, cpc, dpc, bounds>>

EnsureDialed(s) ==
    /\ epc[s] = "dial"
    /\ conn' = dials
    /\ epc' = [epc EXCEPT ![s] = "up"]
    /\ UNCHANGED <<closed, broken, ctxs, initMu, connState, flags, readers,
                   pingers, cpc, dpc, bounds>>

EnsureDialFails(s) ==
    /\ epc[s] = "dial"
    /\ DialFails
    /\ connState' = "disconnected"
    /\ epc' = [epc EXCEPT ![s] = "idle"]
    /\ UNCHANGED <<link, ctxs, flags, readers, pingers, cpc, dpc>>

EnsureGoesLive(s) ==
    /\ epc[s] = "up"
    /\ GoesLive
    /\ ReaderGoes(dials, "start")
    /\ epc' = [epc EXCEPT ![s] = "idle"]
    /\ UNCHANGED <<link, ctxs, flags, rctx, rconn, attempt, pctx, cpc, dpc, bounds>>

Ensure(s) ==
    \/ EnsureFindsConn(s) \/ EnsureBegins(s)
    \/ EnsureDialed(s) \/ EnsureDialFails(s) \/ EnsureGoesLive(s)

-----------------------------------------------------------------------------
(* readLoop.                                                               *)

\* The goroutine takes the context of the moment it starts to run.
ReaderStarts(n) ==
    /\ ReaderAt(n, "start")
    /\ rctx' = [rctx EXCEPT ![n] = dials]
    /\ ReaderGoes(n, "check")
    /\ UNCHANGED <<link, ctxs, initMu, connState, flags, rconn, attempt, pingers,
                   epc, cpc, dpc, bounds>>

ReaderChecksContext(n) ==
    /\ ReaderAt(n, "check")
    /\ ReaderGoes(n, IF rctx[n] \in cancelled THEN "dead" ELSE "get")
    /\ UNCHANGED <<link, ctxs, initMu, connState, flags, rctx, rconn, attempt,
                   pingers, epc, cpc, dpc, bounds>>

\* getConn; without a connection it sleeps 100ms and looks again.
ReaderGetsConn(n) ==
    /\ ReaderAt(n, "get")
    /\ rconn' = [rconn EXCEPT ![n] = conn]
    /\ ReaderGoes(n, CASE conn # None -> "read"
                       [] conn = None /\ closing -> "exit"
                       [] conn = None /\ ~closing -> "check")
    /\ UNCHANGED <<link, ctxs, initMu, connState, flags, rctx, attempt, pingers,
                   epc, cpc, dpc, bounds>>

\* A message is read and processed.
ReaderReads(n) ==
    /\ ReaderAt(n, "read")
    /\ ~ReadFails(rconn[n])
    /\ ReaderGoes(n, "check")
    /\ UNCHANGED <<link, ctxs, initMu, connState, flags, rctx, rconn, attempt,
                   pingers, epc, cpc, dpc, bounds>>

MayReconnect == ~closing /\ Reconnect

\* ReadMessage returns an error.  The context is not looked at again.
ReaderFails(n) ==
    /\ ReaderAt(n, "read")
    /\ ReadFails(rconn[n])
    /\ attempt' = [attempt EXCEPT ![n] = 0]
    /\ IF MayReconnect
         THEN ReaderGoes(n, "rcCheck") /\ UNCHANGED connState
         ELSE /\ ReaderGoes(n, "exit")
              /\ connState' = IF closing THEN connState ELSE "disconnected"
    /\ UNCHANGED <<link, ctxs, initMu, flags, rctx, rconn, pingers, epc, cpc, dpc,
                   bounds>>

\* Leaves the loop by break: the last reader of a closing client shuts down.
ReaderExits(n) ==
    /\ ReaderAt(n, "exit")
    /\ done' = (done \/ closing)
    /\ ReaderGoes(n, "dead")
    /\ UNCHANGED <<link, ctxs, initMu, connState, closing, rctx, rconn, attempt,
                   pingers, epc, cpc, dpc, bounds>>

-----------------------------------------------------------------------------
(* reconnectLoop, run by the readLoop whose read failed.                   *)

Exhausted(n) == ReconnectMax > 0 /\ attempt[n] >= ReconnectMax

\* The top of the loop.  A closing client returns lastErr, which is nil
\* before the first attempt: readLoop takes that for a success and returns.
ReconnectGoesOn(n) ==
    /\ ReaderAt(n, "rcCheck")
    /\ ~Exhausted(n)
    /\ ReaderGoes(n, CASE ~closing -> "rcAnnounce"
                       [] closing /\ attempt[n] = 0 -> "dead"
                       [] closing /\ attempt[n] > 0 -> "rcFailed")
    /\ UNCHANGED <<link, ctxs, initMu, connState, flags, rctx, rconn, attempt,
                   pingers, epc, cpc, dpc, bounds>>

\* The loop is over: the error goes back to readLoop, which reports it.
ReconnectGivesUp(n) ==
    /\ \/ ReaderAt(n, "rcCheck") /\ Exhausted(n)
       \/ ReaderAt(n, "rcFailed")
    /\ connState' = "disconnected"
    /\ ReaderGoes(n, "exit")
    /\ UNCHANGED <<link, ctxs, initMu, flags, rctx, rconn, attempt, pingers,
                   epc, cpc, dpc, bounds>>

ReconnectAnnounces(n) ==
    /\ ReaderAt(n, "rcAnnounce")
    /\ connState' = "reconnecting"
    /\ ReaderGoes(n, "rcSleep")
    /\ UNCHANGED <<link, ctxs, initMu, flags, rctx, rconn, attempt, pingers,
                   epc, cpc, dpc, bounds>>

\* After the backoff: lock, cancel the current goroutines.
ReconnectLocks(n) ==
    /\ ReaderAt(n, "rcSleep")
    /\ LockInit
    /\ dials < MaxDials
    /\ CancelGoroutines
    /\ ReaderGoes(n, "rcClose")
    /\ UNCHANGED <<link, dials, connState, flags, rctx, rconn, attempt, pingers,
                   epc, cpc, dpc, bounds>>

\* closeConn, whichever connection is there now, and a new context.
ReconnectDrops(n) ==
    /\ ReaderAt(n, "rcClose")
    /\ DropConn
    /\ dials' = dials + 1
    /\ ReaderGoes(n, "rcDial")
    /\ UNCHANGED <<broken, cancelled, initMu, connState, flags, rctx, rconn,
                   attempt, pingers, epc, cpc, dpc, bounds>>

ReconnectDialed(n) ==
    /\ ReaderAt(n, "rcDial")
    /\ conn' = dials
    /\ ReaderGoes(n, "rcUp")
    /\ UNCHANGED <<closed, broken, ctxs, initMu, connState, flags, rctx, rconn,
                   attempt, pingers, epc, cpc, dpc, bounds>>

\* Without a limit only whether there was an attempt matters.
ReconnectDialFails(n) ==
    /\ ReaderAt(n, "rcDial")
    /\ DialFails
    /\ attempt' = [attempt EXCEPT ![n] = IF ReconnectMax = 0 THEN 1 ELSE @ + 1]
    /\ ReaderGoes(n, "rcCheck")
    /\ UNCHANGED <<link, ctxs, connState, flags, rctx, rconn, pingers,
                   epc, cpc, dpc>>

\* Faulty variant: no successor is started.
HandsOverToNobody(n) == ReaderGoes(n, "dead")

HandsOver(n) == rpc' = [rpc EXCEPT ![n] = "dead", ![dials] = "start"]

\* Starts its successors and returns nil; readLoop n returns.
ReconnectGoesLive(n) ==
    /\ ReaderAt(n, "rcUp")
    /\ GoesLive
    /\ HandsOver(n)
    /\ UNCHANGED <<link, ctxs, flags, rctx, rconn, attempt, pctx, epc, cpc, dpc,
                   bounds>>

Reader(n) ==
    \/ ReaderStarts(n) \/ ReaderChecksContext(n) \/ ReaderGetsConn(n)
    \/ ReaderFails(n) \/ ReaderExits(n)
    \/ ReconnectGoesOn(n) \/ ReconnectGivesUp(n) \/ ReconnectAnnounces(n)
    \/ ReconnectLocks(n) \/ ReconnectDrops(n) \/ ReconnectDialed(n)
    \/ ReconnectDialFails(n) \/ ReconnectGoesLive(n)

-----------------------------------------------------------------------------
(* pingLoop.  A select with several cases ready takes any of them, so a    *)
(* tick may still be served after the context was cancelled.               *)

PingerStarts(n) ==
    /\ ppc[n] = "start"
    /\ pctx' = [pctx EXCEPT ![n] = dials]
    /\ PingerGoes(n, "wait")
    /\ UNCHANGED <<link, ctxs, initMu, connState, flags, readers, epc, cpc, dpc,
                   bounds>>

\* Faulty variant: done is not in the select.
PingerToldByContext(n) == pctx[n] \in cancelled

PingerTold(n) == pctx[n] \in cancelled \/ done

PingerStops(n) ==
    /\ ppc[n] = "wait"
    /\ PingerTold(n)
    /\ PingerGoes(n, "dead")
    /\ UNCHANGED <<link, ctxs, initMu, connState, flags, readers, pctx,
                   epc, cpc, dpc, bounds>>

\* A PING that succeeds changes nothing; one that fails ends the loop.
PingFails(n) ==
    /\ ppc[n] = "wait"
    /\ conn = None \/ ReadFails(conn)
    /\ PingerGoes(n, "dead")
    /\ UNCHANGED <<link, ctxs, initMu, connState, flags, readers, pctx,
                   epc, cpc, dpc, bounds>>

\* The last pong is found too old ...
PongOverdue(n) ==
    /\ ppc[n] = "wait"
    /\ Fault
    /\ PingerGoes(n, "cancel")
    /\ UNCHANGED <<link, ctxs, initMu, connState, flags, readers, pctx,
                   epc, cpc, dpc>>

\* ... and closeConn is called: the context current by now is cancelled,
PingerCancels(n) ==
    /\ ppc[n] = "cancel"
    /\ CancelGoroutines
    /\ PingerGoes(n, "close")
    /\ UNCHANGED <<link, dials, initMu, connState, flags, readers, pctx,
                   epc, cpc, dpc, bounds>>

\* and the connection there by now is closed.
PingerDrops(n) ==
    /\ ppc[n] = "close"
    /\ DropConn
    /\ PingerGoes(n, "dead")
    /\ UNCHANGED <<broken, ctxs, initMu, connState, flags, readers, pctx,
                   epc, cpc, dpc, bounds>>

Pinger(n) ==
    PingerStarts(n) \/ PingerStops(n) \/ PingFails(n) \/ PingerCancels(n) \/ PingerDrops(n)

-----------------------------------------------------------------------------
(* Close and Deauthenticate.  What Close does to the subscriptions and     *)
(* streams is in WsSubscriptions.                                          *)

CloseBegins ==
    /\ Closes
    /\ cpc = "idle"
    /\ closing' = TRUE
    /\ cpc' = "cancel"
    /\ UNCHANGED <<link, ctxs, initMu, connState, done, readers, pingers,
                   epc, dpc, bounds>>

CloseCancels ==
    /\ cpc = "cancel"
    /\ CancelGoroutines
    /\ cpc' = "close"
    /\ UNCHANGED <<link, dials, initMu, connState, flags, readers, pingers,
                   epc, dpc, bounds>>

CloseDrops ==
    /\ cpc = "close"
    /\ DropConn
    /\ cpc' = "state"
    /\ UNCHANGED <<broken, ctxs, initMu, connState, flags, readers, pingers,
                   epc, dpc, bounds>>

CloseReports ==
    /\ cpc = "state"
    /\ connState' = "disconnected"
    /\ cpc' = "shutdown"
    /\ UNCHANGED <<link, ctxs, initMu, flags, readers, pingers, epc, dpc, bounds>>

CloseShutsDown ==
    /\ cpc = "shutdown"
    /\ done' = TRUE
    /\ cpc' = "returned"
    /\ UNCHANGED <<link, ctxs, initMu, connState, closing, readers, pingers,
                   epc, dpc, bounds>>

Close == CloseCancels \/ CloseDrops \/ CloseReports \/ CloseShutsDown

DeauthCancels ==
    /\ Deauths
    /\ dpc = "idle"
    /\ CancelGoroutines
    /\ dpc' = "close"
    /\ UNCHANGED <<link, dials, initMu, connState, flags, readers, pingers,
                   epc, cpc, bounds>>

DeauthDrops ==
    /\ dpc = "close"
    /\ DropConn
    /\ dpc' = "returned"
    /\ UNCHANGED <<broken, ctxs, initMu, connState, flags, readers, pingers,
                   epc, cpc, bounds>>

\* The peer or the network ends the connection, or the read deadline passes.
ConnBreaks ==
    /\ conn # None
    /\ conn \notin broken
    /\ Fault
    /\ broken' = broken \cup {conn}
    /\ UNCHANGED <<conn, closed, ctxs, initMu, connState, flags, readers, pingers,
                   epc, cpc, dpc>>

Next ==
    \/ \E s \in Callers : EnsureCall(s) \/ Ensure(s)
    \/ \E n \in Dials : Reader(n) \/ ReaderReads(n) \/ Pinger(n) \/ PongOverdue(n)
    \/ CloseBegins \/ Close
    \/ DeauthCancels \/ DeauthDrops
    \/ ConnBreaks

Spec == Init /\ [][Next]_vars

(* Every goroutine that can run is run; a dial ends; a mutex that is free  *)
(* again and again is obtained (sync.Mutex hands over to a waiter that     *)
(* starves).  No fault, message or call of the application is owed.        *)
FairSpec ==
    /\ Spec
    /\ \A s \in Callers : SF_vars(Ensure(s))
    /\ \A n \in Dials : SF_vars(Reader(n)) /\ WF_vars(Pinger(n))
    /\ WF_vars(Close)
    /\ WF_vars(DeauthDrops)

-----------------------------------------------------------------------------
ReaderStates ==
    {"none", "start", "check", "get", "read", "exit", "dead", "rcCheck",
     "rcAnnounce", "rcSleep", "rcClose", "rcDial", "rcUp", "rcFailed"}

TypeOK ==
    /\ conn \in 0 .. dials
    /\ closed \subseteq 1 .. dials
    /\ broken \subseteq 1 .. dials
    /\ dials \in 0 .. MaxDials
    /\ cancelled \subseteq 1 .. dials
    /\ initMu \in BOOLEAN
    /\ connState \in {"disconnected", "connecting", "connected", "reconnecting"}
    /\ closing \in BOOLEAN
    /\ done \in BOOLEAN
    /\ rpc \in [Dials -> ReaderStates]
    /\ rctx \in [Dials -> 0 .. MaxDials]
    /\ rconn \in [Dials -> 0 .. MaxDials]
    /\ attempt \in [Dials -> Nat]
    /\ ppc \in [Dials -> {"none", "start", "wait", "cancel", "close", "dead"}]
    /\ pctx \in [Dials -> 0 .. MaxDials]
    /\ epc \in [Callers -> {"idle", "lock", "dial", "up"}]
    /\ cpc \in {"idle", "cancel", "close", "state", "shutdown", "returned"}
    /\ dpc \in {"idle", "close", "returned"}
    /\ faults \in 0 .. MaxFaults
    /\ calls \in 0 .. MaxCalls

(* A dial never replaces a connection that is in use: ensureConn looks for *)
(* one and reconnectLoop closes the one there is under the init mutex, and *)
(* nobody stores a connection without it (lifecycle.go:94).                *)
DialsIntoNothing ==
    /\ \A s \in Callers : epc[s] = "dial" => conn = None
    /\ \A n \in Dials : rpc[n] = "rcDial" => conn = None

(* No socket is leaked: every connection that ever served a reader is      *)
(* still the current one or was closed.  An overwritten c.conn would stay  *)
(* open with nobody left to close it.                                      *)
NoConnLeaked ==
    \A k \in Dials : rpc[k] # "none" => k = conn \/ k \in closed

(* "Ensured old pingLoop and readLoop goroutines are properly cleaned up   *)
(* on reconnection" (RELEASE_NOTES.md:14): no context but the newest is    *)
(* left alive, so no loop of an older connection runs on unsignalled, even *)
(* when closeConn of one actor falls into the reconnect of another.        *)
OldContextsCancelled ==
    \A k \in 1 .. dials : k \in cancelled \/ k = dials

ClosingConn ==
    \/ \E n \in Dials : ppc[n] = "close"
    \/ cpc = "close"
    \/ dpc = "close"

WillRead(n) ==
    \/ rpc[n] = "start"
    \/ rpc[n] \in {"check", "get"} /\ rctx[n] \notin cancelled
    \/ rpc[n] = "read" /\ rconn[n] = conn

Reconnecting(n) == rpc[n] \in {"rcCheck", "rcAnnounce", "rcSleep", "rcFailed"}

(* A connection whose context is alive is never left to itself: with no    *)
(* dial under way and nobody about to close it, some readLoop is reading   *)
(* it or on its way to, so that a failure is found out; or it has failed,  *)
(* and somebody is reconnecting, or the client reports that it is          *)
(* disconnected, or is closing.  readLoops hand over to each other, read   *)
(* each other's connections and leave on a cancelled context and on a      *)
(* successful reconnect without looking back, so each of those exits must  *)
(* come with a successor.                                                  *)
Served ==
    conn # None /\ ~initMu /\ ~ClosingConn /\ dials \notin cancelled =>
        \/ \E n \in Dials : WillRead(n)
        \/ /\ conn \in broken
           /\ \/ \E n \in Dials : Reconnecting(n)
              \/ connState = "disconnected"
              \/ closing

(* The init mutex is never left locked: whoever waits for it waits for a   *)
(* goroutine that is about to dial, dialing, or about to unlock.           *)
InitMutexHasOwner ==
    initMu => \/ \E s \in Callers : epc[s] \in {"dial", "up"}
              \/ \E n \in Dials : rpc[n] \in {"rcClose", "rcDial", "rcUp"}

\* The connections of the channel, as the network sees them.
Slot == INSTANCE SocketSlot WITH
            Sockets <- Dials, NoSocket <- None, current <- conn, gone <- closed

(* Whatever Subscribes, reconnectLoops, pong timeouts and closes do at the *)
(* same time, the channel has one socket at most: it opens one only when   *)
(* it has none, closes every one that it gives up, and uses none again.    *)
ImplementsSlot == Slot!Spec

AllDead ==
    /\ conn = None
    /\ \A n \in Dials : rpc[n] \in {"none", "dead"} /\ ppc[n] \in {"none", "dead"}

\* Nobody is dialing or waiting to, and no ensureConn is to come.
AtRest ==
    /\ ~initMu
    /\ calls = MaxCalls
    /\ \A s \in Callers : epc[s] = "idle"
    /\ \A n \in Dials :
          rpc[n] \in {"none", "start", "check", "get", "read", "exit", "dead"}

(* Close of a client at rest is complete: every readLoop and pingLoop ends *)
(* and no connection is left, whichever of them it interrupts and also     *)
(* when a pong timeout, a Deauthenticate or a read error comes between.    *)
CloseAtRestQuiesces == cpc = "cancel" /\ AtRest ~> []AllDead

(* Close of a client at rest is final: from then on nobody dials or goes   *)
(* to reconnect, although readLoops see their connection fail, and once    *)
(* Close has dropped the connection there is never one again.              *)
CloseAtRestIsFinal ==
    [](cpc = "cancel" /\ AtRest =>
           [](AtRest /\ (cpc \notin {"cancel", "close"} => conn = None)))

(* "Close gracefully shuts down all active WebSocket connections"          *)
(* (client.go:26): when nobody subscribes any more, no connection is left  *)
(* after Close, nor comes into being, also if Close meets a reconnectLoop. *)
CloseLeavesNoConn ==
    cpc = "cancel" /\ calls = MaxCalls /\ (\A s \in Callers : epc[s] = "idle")
        ~> [](conn = None)

(* pingLoops never outlive Close, also those of a connection that a        *)
(* reconnectLoop or a late Subscribe opens after it.                       *)
PingersEndAfterClose ==
    cpc = "returned" ~> [](\A n \in Dials : ppc[n] \in {"none", "dead"})

(* A Subscribe that needs a connection is never stuck behind reconnectLoop *)
(* and the other callers on the init mutex (unless the bound on dials is   *)
(* used up, which only the model has).                                     *)
EnsureReturns ==
    \A s \in Callers : epc[s] = "lock" ~> epc[s] = "idle" \/ dials = MaxDials

(* A broken connection is replaced by a healthy one, or the client reports *)
(* that it has given up: it is never left broken and silent (the bound on  *)
(* dials aside, which reconnectLoops that close each other's healthy       *)
(* connections use up).                                                    *)
BrokenIsReplaced ==
    conn # None /\ conn \in broken
        ~> \/ conn # None /\ conn \notin broken
           \/ connState = "disconnected"
           \/ dials = MaxDials

(* "Built-in heartbeat + reconnect behavior for long-running WebSocket     *)
(* sessions" (README.md:45): a connection that pingLoop closed for want of *)
(* a pong does not stay "connected" without a connection for good.         *)
HeartbeatRecovers == conn = None /\ connState = "connected" ~>
                     conn # None \/ connState # "connected"
=============================================================================
