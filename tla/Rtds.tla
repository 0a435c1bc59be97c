-------------------------------- MODULE Rtds --------------------------------
(***************************************************************************)
(* The client of the real-time data service (pkg/rtds): one connection     *)
(* kept up by run, a pingLoop, streams that share a server subscription    *)
(* per key "topic|type", and Close.                                        *)
(*                                                                         *)
(* subscribeRaw and unsubscribeByID hold subMu while they write their      *)
(* frame, so each is one step; resubscribeAll takes its snapshot under     *)
(* subMu and writes it later.  What streams do with messages is in         *)
(* EventStreams.                                                           *)
(*                                                                         *)
(* conn is c.conn and what is behind it: nil, a connection that works, or  *)
(* one whose peer is gone.  A closed connection is nil.                    *)
(***************************************************************************)
EXTENDS Integers, FiniteSets

CONSTANTS
    Keys,           \* topic and type
    Subs,           \* Subscribe... calls, with the filters and credentials each
                    \* sends and the stream it returns
    KeyOf,          \* the key of each
    NoSub,          \* no subscription
    CanClose,       \* streams whose owner closes them
    Requests,       \* Unsubscribe... calls
    TopicOf,        \* the key of each
    Reconnect,      \* config: reconnect
    ReconnectMax,   \* config: consecutive attempts, 0 for no limit
    Closes,         \* whether the application calls Close, once
    MaxBreaks       \* bound: connections that break

ASSUME RtdsAssumption ==
    /\ IsFiniteSet(Subs)
    /\ KeyOf \in [Subs -> Keys]
    /\ TopicOf \in [Requests -> Keys]
    /\ NoSub \notin Subs
    /\ CanClose \subseteq Subs
    /\ Reconnect \in BOOLEAN
    /\ ReconnectMax \in Nat
    /\ MaxBreaks \in Nat

VARIABLES
    conn,       \* c.conn: nil, ok or dead
    run,        \* where the run goroutine is
    attempts,   \* its attempts
    snap,       \* the snapshot resubscribeAll is about to write
    ready,      \* connReady is closed
    done,       \* done is closed
    state,      \* c.state
    pinger,     \* the pingLoop goroutine
    refs,       \* c.subRefs, 0 for a key that is not in the map
    detail,     \* c.subDetails
    subs,       \* c.subs: streams that are open
    asked,      \* the streams each key had since it last had none
    pc,         \* where each Subscribe call or its stream is
    picked,     \* the entry each unsubscribe request has picked
    srv,        \* the subscription of each key in force at the server
    closer,     \* Close
    midDial,    \* whether Close began while run was dialing
    breaks      \* connections broken so far

loop == <<run, attempts, snap>>
signals == <<ready, done>>
book == <<refs, detail, subs, asked>>
calls == <<pc, picked>>
ending == <<closer, midDial>>
vars == <<conn, loop, signals, state, pinger, book, calls, srv, ending, breaks>>

Nothing == [k \in Keys |-> NoSub]

Init ==
    /\ conn = "nil"
    /\ run = "top"
    /\ attempts = 0
    /\ snap = Nothing
    /\ ready = FALSE
    /\ done = FALSE
    /\ state = "disconnected"
    /\ pinger = "idle"
    /\ refs = [k \in Keys |-> 0]
    /\ detail = Nothing
    /\ subs = {}
    /\ asked = [k \in Keys |-> {}]
    /\ pc = [p \in Subs |-> "idle"]
    /\ picked = [r \in Requests |-> "idle"]
    /\ srv = Nothing
    /\ closer = "idle"
    /\ midDial = FALSE
    /\ breaks = 0

closing == closer # "idle"

\* setState.
SetState(s) == state' = s

-----------------------------------------------------------------------------
(* run and connect.                                                        *)

ShouldReconnect == Reconnect /\ (ReconnectMax = 0 \/ attempts < ReconnectMax)

\* Faulty variant: run returns without a word to those who wait.
EndsSilently == run' = "ended" /\ UNCHANGED done

Ends == run' = "ended" /\ done' = TRUE

\* After an error: sleep and try again, or give up.  A limit of 0 needs no
\* count.
Retries ==
    /\ ShouldReconnect
    /\ run' = "sleep"
    /\ attempts' = IF ReconnectMax = 0 THEN 0 ELSE attempts + 1
    /\ UNCHANGED done

GivesUp == ~ShouldReconnect /\ Ends /\ UNCHANGED attempts

\* The loop looks at closing and closes the connection of before.
RunTurns ==
    /\ run = "top"
    /\ \/ closing /\ Ends /\ UNCHANGED conn
       \/ ~closing /\ run' = "dial" /\ conn' = "nil" /\ UNCHANGED done
    /\ srv' = Nothing
    /\ UNCHANGED <<attempts, snap, ready, state, pinger, book, calls, ending, breaks>>

DialFails ==
    /\ run = "dial"
    /\ SetState("disconnected")
    /\ Retries \/ GivesUp
    /\ UNCHANGED <<conn, snap, ready, pinger, book, calls, srv, ending, breaks>>

\* The connection is stored, whether or not the client is closing by now.
DialSucceeds ==
    /\ run = "dial"
    /\ run' = "up"
    /\ conn' = "ok"
    /\ UNCHANGED <<attempts, snap, signals, state, pinger, book, calls, srv, ending, breaks>>

ConnectReports ==
    /\ run = "up"
    /\ run' = "resubscribe"
    /\ attempts' = 0
    /\ ready' = TRUE
    /\ SetState("connected")
    /\ UNCHANGED <<conn, snap, done, pinger, book, calls, srv, ending, breaks>>

\* Faulty variant: only the keys that have a single stream.
SnapshotOfSingles == [k \in Keys |-> IF refs[k] = 1 THEN detail[k] ELSE NoSub]

SnapshotOfDetails == detail

\* resubscribeAll: the snapshot under subMu ...
TakeSnapshot ==
    /\ run = "resubscribe"
    /\ snap' = SnapshotOfDetails
    /\ run' = IF detail = Nothing THEN "read" ELSE "resend"
    /\ UNCHANGED <<conn, attempts, signals, state, pinger, book, calls, srv, ending, breaks>>

\* ... and its frame.  An error is logged.
SendSnapshot ==
    /\ run = "resend"
    /\ srv' = IF conn = "ok"
              THEN [k \in Keys |-> IF snap[k] # NoSub THEN snap[k] ELSE srv[k]]
              ELSE srv
    /\ snap' = Nothing
    /\ run' = "read"
    /\ UNCHANGED <<conn, attempts, signals, state, pinger, book, calls, ending, breaks>>

\* readLoop: there is no connection when it starts, which nothing reports, or
\* the read fails.
ReadFails ==
    /\ run = "read"
    /\ conn # "ok"
    /\ \/ conn = "nil" /\ UNCHANGED state
       \/ SetState("disconnected")
    /\ \/ closing /\ Ends /\ UNCHANGED attempts
       \/ ~closing /\ (Retries \/ GivesUp)
    /\ UNCHANGED <<conn, snap, ready, pinger, book, calls, srv, ending, breaks>>

RunWakes ==
    /\ run = "sleep"
    /\ run' = "top"
    /\ UNCHANGED <<conn, attempts, snap, signals, state, pinger, book, calls, srv, ending,
                   breaks>>

\* The peer goes away.
LinkBreaks ==
    /\ conn = "ok"
    /\ breaks < MaxBreaks
    /\ breaks' = breaks + 1
    /\ conn' = "dead"
    /\ srv' = Nothing
    /\ UNCHANGED <<loop, signals, state, pinger, book, calls, ending>>

-----------------------------------------------------------------------------
(* pingLoop: a failed write only changes the state, and after mu is free.  *)

PingFails ==
    /\ pinger = "idle"
    /\ conn = "dead"
    /\ pinger' = "failed"
    /\ UNCHANGED <<conn, loop, signals, state, book, calls, srv, ending, breaks>>

PingReports ==
    /\ pinger = "failed"
    /\ pinger' = "idle"
    /\ SetState("disconnected")
    /\ UNCHANGED <<conn, loop, signals, book, calls, srv, ending, breaks>>

PingEnds ==
    /\ pinger = "idle"
    /\ done
    /\ pinger' = "ended"
    /\ UNCHANGED <<conn, loop, signals, state, book, calls, srv, ending, breaks>>

-----------------------------------------------------------------------------
(* Subscribe... and subscribeRaw.  Their contexts are not looked at.       *)

Goes(p, there) == pc' = [pc EXCEPT ![p] = there]

SubscribeBegins(p) ==
    /\ pc[p] = "idle"
    /\ Goes(p, "waiting")
    /\ UNCHANGED <<conn, loop, signals, state, pinger, book, picked, srv, ending, breaks>>

OneMore(k) == [refs EXCEPT ![k] = @ + 1]

\* What a new stream may be served: its own subscription, one of those it
\* joins, or the one in a snapshot that the close of all others overtook.
Joined(p) ==
    {p} \cup IF refs[KeyOf[p]] > 0 THEN asked[KeyOf[p]] ELSE {snap[KeyOf[p]]} \ {NoSub}

\* The entry replaces the detail of the key, but only the first one is sent.
Registers(p) ==
    /\ refs' = OneMore(KeyOf[p])
    /\ detail' = [detail EXCEPT ![KeyOf[p]] = p]
    /\ subs' = subs \cup {p}
    /\ asked' = [asked EXCEPT ![KeyOf[p]] = Joined(p)]
    /\ Goes(p, "live")

SubscribeFrame(p) ==
    srv' = IF conn = "ok" THEN [srv EXCEPT ![KeyOf[p]] = p] ELSE srv

\* A write on a dead connection may go into nothing or fail, and one on no
\* connection fails.
Subscribe(p) ==
    /\ pc[p] = "waiting"
    /\ ready
    /\ \/ refs[KeyOf[p]] > 0 /\ Registers(p) /\ UNCHANGED srv
       \/ refs[KeyOf[p]] = 0 /\ conn # "nil" /\ SubscribeFrame(p) /\ Registers(p)
       \/ refs[KeyOf[p]] = 0 /\ conn # "ok" /\ Goes(p, "failed") /\ UNCHANGED <<srv, book>>
    /\ UNCHANGED <<conn, loop, signals, state, pinger, picked, ending, breaks>>

\* The select takes done, though connReady may be closed too.
SubscribeGivesUp(p) ==
    /\ pc[p] = "waiting"
    /\ done
    /\ Goes(p, "failed")
    /\ UNCHANGED <<conn, loop, signals, state, pinger, book, picked, srv, ending, breaks>>

-----------------------------------------------------------------------------
(* unsubscribeByID, called by Stream.Close and by unsubscribeTopic.        *)

\* Faulty variant: off by one, the subscription goes with the last but one.
LastEntryOffByOne(k) == refs[k] <= 2

LastEntry(k) == refs[k] <= 1

UnsubscribeFrame(k) == srv' = IF conn = "ok" THEN [srv EXCEPT ![k] = NoSub] ELSE srv

\* Nothing happens to an entry that is gone.
UnsubscribeByID(p) ==
    LET k == KeyOf[p]
    IN  \/ p \notin subs /\ UNCHANGED <<book, srv>>
        \/ /\ p \in subs
           /\ subs' = subs \ {p}
           /\ UNCHANGED asked
           /\ \/ /\ LastEntry(k)
                 /\ refs' = [refs EXCEPT ![k] = 0]
                 /\ detail' = [detail EXCEPT ![k] = NoSub]
                 /\ UnsubscribeFrame(k)
              \/ /\ ~LastEntry(k)
                 /\ refs' = [refs EXCEPT ![k] = @ - 1]
                 /\ UNCHANGED <<detail, srv>>

CloseStream(p) ==
    /\ p \in CanClose
    /\ pc[p] = "live"
    /\ UnsubscribeByID(p)
    /\ Goes(p, "closed")
    /\ UNCHANGED <<conn, loop, signals, state, pinger, picked, ending, breaks>>

\* unsubscribeTopic: some entry of the key is picked under subMu ...
PickEntry(r) ==
    /\ picked[r] = "idle"
    /\ LET entries == {p \in subs : KeyOf[p] = TopicOf[r]}
       IN  \/ entries = {} /\ picked' = [picked EXCEPT ![r] = "returned"]
           \/ \E p \in entries : picked' = [picked EXCEPT ![r] = p]
    /\ UNCHANGED <<conn, loop, signals, state, pinger, book, pc, srv, ending, breaks>>

\* ... and removed if it is still there.
RemovePicked(r) ==
    /\ picked[r] \in Subs
    /\ UnsubscribeByID(picked[r])
    /\ picked' = [picked EXCEPT ![r] = "returned"]
    /\ UNCHANGED <<conn, loop, signals, state, pinger, pc, ending, breaks>>

-----------------------------------------------------------------------------
(* Close.                                                                  *)

CloseBegins ==
    /\ Closes
    /\ closer = "idle"
    /\ closer' = "state"
    /\ midDial' = (run = "dial")
    /\ UNCHANGED <<conn, loop, signals, state, pinger, book, calls, srv, breaks>>

CloseReports ==
    /\ closer = "state"
    /\ closer' = "conn"
    /\ SetState("disconnected")
    /\ UNCHANGED <<conn, loop, signals, pinger, book, calls, srv, midDial, breaks>>

\* Faulty variant: the connection is left to run.
CloseLeavesConn == UNCHANGED <<conn, srv>>

CloseConn == conn' = "nil" /\ srv' = Nothing

CloseDropsConn ==
    /\ closer = "conn"
    /\ closer' = "subs"
    /\ CloseConn
    /\ UNCHANGED <<loop, signals, state, pinger, book, calls, midDial, breaks>>

CloseAllSubscriptions ==
    /\ closer = "subs"
    /\ closer' = "signal"
    /\ subs' = {}
    /\ refs' = [k \in Keys |-> 0]
    /\ detail' = Nothing
    /\ UNCHANGED <<conn, loop, signals, state, pinger, asked, calls, srv, midDial, breaks>>

CloseSignals ==
    /\ closer = "signal"
    /\ closer' = "returned"
    /\ done' = TRUE
    /\ UNCHANGED <<conn, loop, ready, state, pinger, book, calls, srv, midDial, breaks>>

-----------------------------------------------------------------------------
RunSteps ==
    RunTurns \/ DialFails \/ DialSucceeds \/ ConnectReports \/ TakeSnapshot
    \/ SendSnapshot \/ ReadFails \/ RunWakes

CloseSteps ==
    CloseReports \/ CloseDropsConn \/ CloseAllSubscriptions \/ CloseSignals

Answer(p) == Subscribe(p) \/ SubscribeGivesUp(p)

Next ==
    \/ RunSteps \/ LinkBreaks
    \/ PingFails \/ PingReports \/ PingEnds
    \/ \E p \in Subs : SubscribeBegins(p) \/ Answer(p) \/ CloseStream(p)
    \/ \E r \in Requests : PickEntry(r) \/ RemovePicked(r)
    \/ CloseBegins \/ CloseSteps

\* Goroutines that can run do: run, pingLoop, Close once called, and the
\* Subscribe calls, one of whose channels is ready.
Fairness ==
    /\ WF_vars(RunSteps)
    /\ WF_vars(PingReports) /\ WF_vars(PingEnds)
    /\ WF_vars(CloseSteps)
    /\ \A p \in Subs : WF_vars(Answer(p))

Spec == Init /\ [][Next]_vars
FairSpec == Spec /\ Fairness

-----------------------------------------------------------------------------
TypeOK ==
    /\ conn \in {"nil", "ok", "dead"}
    /\ run \in {"top", "dial", "up", "resubscribe", "resend", "read", "sleep", "ended"}
    /\ attempts \in 0 .. ReconnectMax
    /\ snap \in [Keys -> Subs \cup {NoSub}]
    /\ ready \in BOOLEAN
    /\ done \in BOOLEAN
    /\ state \in {"connected", "disconnected"}
    /\ pinger \in {"idle", "failed", "ended"}
    /\ refs \in [Keys -> Nat]
    /\ detail \in [Keys -> Subs \cup {NoSub}]
    /\ subs \subseteq Subs
    /\ asked \in [Keys -> SUBSET Subs]
    /\ pc \in [Subs -> {"idle", "waiting", "live", "failed", "closed"}]
    /\ picked \in [Requests -> Subs \cup {"idle", "returned"}]
    /\ srv \in [Keys -> Subs \cup {NoSub}]
    /\ closer \in {"idle", "state", "conn", "subs", "signal", "returned"}
    /\ midDial \in BOOLEAN
    /\ breaks \in 0 .. MaxBreaks

Entries(k) == {p \in subs : KeyOf[p] = k}

(* Whatever streams, unsubscribe requests and Close do at the same time,   *)
(* the count of a key is the number of its open streams, and there is a    *)
(* subscription to restore for exactly the keys that are counted.          *)
RefsMatchEntries ==
    \A k \in Keys :
        /\ refs[k] = Cardinality(Entries(k))
        /\ detail[k] = NoSub <=> refs[k] = 0
        /\ detail[k] # NoSub => KeyOf[detail[k]] = k

\* The streams and keys of the client, as its users see them.
Book == INSTANCE SubscriptionBook WITH open <- subs, wanted <- {k \in Keys : refs[k] > 0}

(* The counts implement the promise without counts: a key is subscribed    *)
(* to as long as one of its streams is open, and no longer.                *)
ImplementsBook == Book!Spec

(* Whenever run reads a connection that works, the server serves every     *)
(* open stream, also after reconnects that a subscribe, an unsubscribe or  *)
(* a close of a stream ran into: with its own subscription, or with that   *)
(* of a stream it shares the key with, and never with a forgotten one.  So *)
(* streams of a key that ask for the same get what they ask for.           *)
OpenStreamsServed ==
    run = "read" /\ conn = "ok" => \A p \in subs : srv[KeyOf[p]] \in asked[KeyOf[p]]

(* Close of a client that is not dialing leaves no connection and no open  *)
(* stream, though Subscribe calls may still be under way.                  *)
CloseLeavesNothing == closer = "returned" /\ ~midDial => conn = "nil" /\ subs = {}

(* A Subscribe call that waits for the first connection is told that the   *)
(* wait is over exactly when it is: run has given up or seen the client    *)
(* closing, or Close has returned.  Nobody is left waiting for a run that  *)
(* is no more, nobody is sent away while it goes on.                       *)
DoneMeansOver == done <=> run = "ended" \/ closer = "returned"

(* A Subscribe call that waits for the first connection gets its answer:   *)
(* a connection, or run's or Close's end of the wait.                      *)
SubscribersAnswered == \A p \in Subs : pc[p] = "waiting" ~> pc[p] # "waiting"
=============================================================================
