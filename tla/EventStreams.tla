---------------------------- MODULE EventStreams ----------------------------
(***************************************************************************)
(* How events reach the streams of the two WebSocket clients, pkg/clob/ws  *)
(* (events.go, subscription_manager.go, ConnectionStateStream and          *)
(* setConnState of lifecycle.go) and pkg/rtds (dispatch,                   *)
(* subscription_entry.go, state.go).                                       *)
(*                                                                         *)
(* A goroutine that has something to say works through its jobs: an event  *)
(* read from the connection, or a change of the connection state.  Each    *)
(* takes a snapshot of the registered entries under a lock and sends to    *)
(* them after the unlock, so entries are closed, registered and sent to by *)
(* others in between.  No send blocks: a full buffer costs the message and *)
(* leaves a notice in the error channel, if there is room.                 *)
(*                                                                         *)
(* The clients differ in how an entry is kept from being closed under a    *)
(* send: one of "ws" has a lock, which a sender holds for reading and      *)
(* close for writing; one of "rtds" has an atomic flag that is checked     *)
(* before a send that may then panic and recover.  The variable client     *)
(* says which of them a behaviour is about.                                *)
(***************************************************************************)
EXTENDS Integers, Sequences, FiniteSets

CONSTANTS
    Streams,        \* streams of events and of connection states
    KindOf,         \* the kind of event of each; "state" for the latter
    AssetsOf,       \* the assets or markets each is limited to, {} for all
    Actors,         \* readers and others that change the state
    Jobs,           \* what each of them does, in order: a sequence of
                    \* [kind, assets, state]; a book with both sides is two
                    \* events, a price event one for each change
    CanClose,       \* streams whose owner closes them
    Cap,            \* defaultStreamBuffer
    ErrCap          \* defaultErrBuffer

None == "none"

ASSUME StreamsAssumption ==
    /\ None \notin Streams
    /\ KindOf \in [Streams -> STRING]
    /\ CanClose \subseteq Streams
    /\ Cap \in Nat \ {0}
    /\ ErrCap \in Nat \ {0}

ConnectionStates == {"disconnected", "connecting", "connected", "reconnecting"}

\* Only a change of the state has a state.
ASSUME JobsAssumption ==
    \A a \in Actors : \A i \in 1 .. Len(Jobs[a]) :
        Jobs[a][i].state \in IF Jobs[a][i].kind = "state" THEN ConnectionStates ELSE {None}

VARIABLES
    client,     \* "ws" or "rtds"
    state,      \* the state of the connection
    open,       \* the entries in the client's maps
    entry,      \* each entry: unborn, open, flagged (rtds, closed is set) or
                \* closed (its channels are)
    condemned,  \* entries taken out of the maps in order to close them
    sent,       \* how many sends went into each channel
    last,       \* the state in the last of them
    taken,      \* how many of those the consumer has received
    missed,     \* sends that found the channel full
    told,       \* notices that went into each error channel
    heard,      \* how many of those the consumer has received
    at,         \* the job each actor is at
    pc,         \* where in it
    todo,       \* the entries it still has to send to
    sending,    \* the entry it found open and is about to send to; an actor
                \* of ws holds its lock for reading
    greeting,   \* the first event a state stream is about to be sent
    crossed,    \* state streams for which two deliveries overlapped
    closer,     \* Close of the client
    globals,    \* whether the client's global channels are open (ws)
    panicked    \* a panic that nobody recovered

entries == <<open, entry, condemned>>
channels == <<sent, last, taken, missed, told, heard>>
work == <<at, pc, todo, sending>>
watch == <<state, greeting, crossed>>
ending == <<closer, globals>>
vars == <<client, entries, channels, work, watch, ending, panicked>>

Init ==
    /\ client \in {"ws", "rtds"}
    /\ state = "disconnected"
    /\ open = {}
    /\ entry = [s \in Streams |-> "unborn"]
    /\ condemned = {}
    /\ sent = [s \in Streams |-> 0]
    /\ last = [s \in Streams |-> None]
    /\ taken = [s \in Streams |-> 0]
    /\ missed = [s \in Streams |-> 0]
    /\ told = [s \in Streams |-> 0]
    /\ heard = [s \in Streams |-> 0]
    /\ at = [a \in Actors |-> 1]
    /\ pc = [a \in Actors |-> "idle"]
    /\ todo = [a \in Actors |-> {}]
    /\ sending = [a \in Actors |-> None]
    /\ greeting = [s \in Streams |-> None]
    /\ crossed = {}
    /\ closer = "idle"
    /\ globals = TRUE
    /\ panicked = FALSE

closing == closer # "idle"
Watchers == {s \in Streams : KindOf[s] = "state"}
HasJob(a) == at[a] <= Len(Jobs[a])
Job(a) == Jobs[a][at[a]]

Goes(a, there) == pc' = [pc EXCEPT ![a] = there]

\* The job is done, or there is nobody left to send to.
Proceeds(a, rest) ==
    /\ todo' = [todo EXCEPT ![a] = rest]
    /\ at' = [at EXCEPT ![a] = IF rest = {} THEN @ + 1 ELSE @]
    /\ Goes(a, IF rest = {} THEN "idle" ELSE "send")

-----------------------------------------------------------------------------
(* trySend.                                                                *)

Full(s) == sent[s] - taken[s] >= Cap

Delivers(s, v) ==
    /\ sent' = [sent EXCEPT ![s] = @ + 1]
    /\ last' = [last EXCEPT ![s] = v]
    /\ UNCHANGED <<missed, told>>

\* Faulty variant: the message is dropped as trySendGlobal drops it.
MissesSilently(s) ==
    /\ missed' = [missed EXCEPT ![s] = @ + 1]
    /\ UNCHANGED <<sent, last, told>>

\* A message that is missed leaves a notice if the error channel has room.
Misses(s) ==
    /\ missed' = [missed EXCEPT ![s] = @ + 1]
    /\ told' = [told EXCEPT ![s] = IF told[s] - heard[s] < ErrCap THEN @ + 1 ELSE @]
    /\ UNCHANGED <<sent, last>>

Accepts(s, v) == (~Full(s) /\ Delivers(s, v)) \/ (Full(s) /\ Misses(s))

\* The check, which ws makes with the entry locked ...
CheckEntry(a, s) ==
    /\ s \in todo[a]
    /\ sending[a] = None
    /\ \/ entry[s] # "open" /\ Proceeds(a, todo[a] \ {s}) /\ UNCHANGED sending
       \/ /\ entry[s] = "open"
          /\ sending' = [sending EXCEPT ![a] = s]
          /\ UNCHANGED <<at, pc, todo>>
    /\ UNCHANGED <<client, entries, channels, watch, ending, panicked>>

\* trySendGlobal, and trySend of rtds, have a deferred recover.
Recovers == UNCHANGED panicked

\* ... and the send.  On a channel that was closed meanwhile it panics, and
\* trySend of ws would not recover.
Send(a) ==
    LET s == sending[a]
    IN  /\ s # None
        /\ \/ entry[s] # "closed" /\ Accepts(s, Job(a).state) /\ UNCHANGED panicked
           \/ /\ entry[s] = "closed"
              /\ IF client = "rtds" THEN Recovers ELSE panicked' = TRUE
              /\ UNCHANGED <<sent, last, missed, told>>
        /\ sending' = [sending EXCEPT ![a] = None]
        /\ Proceeds(a, todo[a] \ {s})
        /\ UNCHANGED <<client, entries, taken, heard, watch, ending>>

\* The lock of an entry of ws: close waits for those who are sending.
Locked(s) == client = "ws" /\ \E a \in Actors : sending[a] = s

\* Faulty variant: close does not take the lock.
ClosesUnlocked(s) == TRUE

MayClose(s) == ~Locked(s)

-----------------------------------------------------------------------------
(* Events.                                                                 *)

\* matchesAsset, matchesAnyAsset, matchesMarket; orders go to everybody.
Matches(s, j) ==
    /\ KindOf[s] = j.kind
    /\ \/ j.kind = "order"
       \/ AssetsOf[s] = {}
       \/ j.kind = "trade" /\ j.assets = {}
       \/ AssetsOf[s] \cap j.assets # {}

\* dispatch of ws looks at closing and feeds a global channel first.
TakeEvent(a) ==
    /\ pc[a] = "idle"
    /\ HasJob(a)
    /\ Job(a).kind # "state"
    /\ \/ client = "ws" /\ closing /\ Proceeds(a, {})
       \/ client = "ws" /\ ~closing /\ Goes(a, "global") /\ UNCHANGED <<at, todo>>
       \/ client = "rtds" /\ Goes(a, "snapshot") /\ UNCHANGED <<at, todo>>
    /\ UNCHANGED <<client, entries, channels, sending, watch, ending, panicked>>

\* trySendGlobal: nobody receives from these channels, and shutdown may have
\* closed them by now.
SendGlobal(a) ==
    /\ pc[a] = "global"
    /\ IF globals THEN UNCHANGED panicked ELSE Recovers
    /\ Goes(a, "snapshot")
    /\ UNCHANGED <<client, entries, channels, at, todo, sending, watch, ending>>

Snapshot(a) ==
    /\ pc[a] = "snapshot"
    /\ Job(a).kind # "state"
    /\ Proceeds(a, {s \in open : Matches(s, Job(a))})
    /\ UNCHANGED <<client, entries, channels, sending, watch, ending, panicked>>

-----------------------------------------------------------------------------
(* Connection states.                                                      *)

\* Deliveries of a state that are under way.
Delivering(s) ==
    \/ greeting[s] # None
    \/ \E a \in Actors : s \in todo[a]
    \/ \E a \in Actors : pc[a] = "snapshot" /\ Job(a).kind = "state"

Crosses == crossed' = crossed \cup {s \in Watchers : Delivering(s)}

\* setConnState of ws: the state and the snapshot under stateMu.
SetConnState(a) ==
    /\ client = "ws"
    /\ pc[a] = "idle"
    /\ HasJob(a)
    /\ Job(a).kind = "state"
    /\ state' = Job(a).state
    /\ Crosses
    /\ Proceeds(a, open \cap Watchers)
    /\ UNCHANGED <<client, entries, channels, sending, greeting, ending, panicked>>

\* setState of rtds: the state is stored first ...
SetState(a) ==
    /\ client = "rtds"
    /\ pc[a] = "idle"
    /\ HasJob(a)
    /\ Job(a).kind = "state"
    /\ state' = Job(a).state
    /\ Crosses
    /\ Goes(a, "snapshot")
    /\ UNCHANGED <<client, entries, channels, at, todo, sending, greeting, ending, panicked>>

\* ... and the snapshot follows.
SnapshotWatchers(a) ==
    /\ pc[a] = "snapshot"
    /\ Job(a).kind = "state"
    /\ Proceeds(a, open \cap Watchers)
    /\ UNCHANGED <<client, entries, channels, sending, watch, ending, panicked>>

-----------------------------------------------------------------------------
(* Streams.  Subscribe registers an entry of events; the rest of it is in  *)
(* WsSubscriptions and Rtds.                                               *)

\* Faulty variant: a new stream is told what a new client would be in.
FirstReportFixed == "disconnected"

FirstReport == state

\* ConnectionStateStream registers, reading the state under stateMu (ws) or
\* later (rtds), and greets the stream with it.  Nothing keeps a stream from
\* being registered while the client closes, or after.
Open(s) ==
    /\ entry[s] = "unborn"
    /\ entry' = [entry EXCEPT ![s] = "open"]
    /\ open' = open \cup {s}
    /\ greeting' = [greeting EXCEPT ![s] =
                       CASE s \notin Watchers -> None
                         [] s \in Watchers /\ client = "ws" -> FirstReport
                         [] s \in Watchers /\ client = "rtds" -> "unread"]
    /\ crossed' = crossed \cup {w \in Watchers \cap {s} : Delivering(w)}
    /\ UNCHANGED <<client, state, condemned, channels, work, ending, panicked>>

ReadState(s) ==
    /\ greeting[s] = "unread"
    /\ greeting' = [greeting EXCEPT ![s] = FirstReport]
    /\ UNCHANGED <<client, state, crossed, entries, channels, work, ending, panicked>>

\* The greeting of a stream that its owner or Close has closed is dropped.
Greet(s) ==
    /\ greeting[s] \notin {None, "unread"}
    /\ \/ entry[s] = "closed" /\ UNCHANGED <<sent, last, missed, told>>
       \/ entry[s] # "closed" /\ Accepts(s, greeting[s])
    /\ greeting' = [greeting EXCEPT ![s] = None]
    /\ UNCHANGED <<client, state, crossed, entries, taken, heard, work, ending, panicked>>

\* Stream.Close: ws closes the entry, then removes it; so does a state stream
\* of rtds, but in more steps; an event stream of rtds is removed first.
OwnerCloses(s) ==
    /\ s \in CanClose
    /\ s \in open
    /\ entry[s] = "open"
    /\ CASE client = "ws" ->
                /\ MayClose(s)
                /\ entry' = [entry EXCEPT ![s] = "closed"]
                /\ UNCHANGED <<open, condemned>>
         [] client = "rtds" ->
                /\ open' = IF s \in Watchers THEN open ELSE open \ {s}
                /\ condemned' = condemned \cup {s}
                /\ UNCHANGED entry
    /\ UNCHANGED <<client, channels, work, watch, ending, panicked>>

Forget(s) ==
    /\ s \in open
    /\ entry[s] = "closed"
    /\ open' = open \ {s}
    /\ UNCHANGED <<client, entry, condemned, channels, work, watch, ending, panicked>>

\* close of rtds: the flag, which only one of several closers changes ...
FlagEntry(s) ==
    /\ client = "rtds"
    /\ s \in condemned
    /\ entry[s] = "open"
    /\ entry' = [entry EXCEPT ![s] = "flagged"]
    /\ UNCHANGED <<client, open, condemned, channels, work, watch, ending, panicked>>

\* Faulty variant: the flag is all there is.
ClosesFlagOnly(s) == UNCHANGED entry

Closes(s) == entry' = [entry EXCEPT ![s] = "closed"]

\* ... and the channels; close of ws does both with the entry locked.
CloseChannels(s) ==
    /\ \/ entry[s] = "flagged"
       \/ client = "ws" /\ s \in condemned /\ entry[s] = "open" /\ MayClose(s)
    /\ Closes(s)
    /\ UNCHANGED <<client, open, condemned, channels, work, watch, ending, panicked>>

\* The consumer.
Receive(s) ==
    /\ taken[s] < sent[s]
    /\ taken' = [taken EXCEPT ![s] = @ + 1]
    /\ UNCHANGED <<client, entries, sent, last, missed, told, heard, work, watch, ending,
                   panicked>>

Hear(s) ==
    /\ heard[s] < told[s]
    /\ heard' = [heard EXCEPT ![s] = @ + 1]
    /\ UNCHANGED <<client, entries, sent, last, taken, missed, told, work, watch, ending,
                   panicked>>

-----------------------------------------------------------------------------
(* Close of the client, as far as streams see it.                          *)

CloseBegins ==
    /\ closer = "idle"
    /\ closer' = "streams"
    /\ UNCHANGED <<client, entries, channels, work, watch, globals, panicked>>

\* Faulty variant: the map of the state streams is emptied and forgotten.
CondemnsEvents ==
    /\ condemned' = condemned \cup (open \ Watchers)
    /\ open' = {}

\* Everything is taken out of the maps in order to be closed.
Condemns ==
    /\ condemned' = condemned \cup open
    /\ open' = {}

\* The maps are emptied under their locks.  ws closes the entries one by one
\* before it gives those back: who looks into a map in between waits, and
\* finds it empty.
CloseAllStreams ==
    /\ closer = "streams"
    /\ closer' = "shutdown"
    /\ Condemns
    /\ UNCHANGED <<client, entry, channels, work, watch, globals, panicked>>

EntriesClosed == \A s \in condemned : client = "ws" => entry[s] = "closed"

\* shutdown of ws closes all streams once more ...
ShutsDown ==
    /\ closer = "shutdown"
    /\ EntriesClosed
    /\ closer' = "globals"
    /\ IF client = "ws" THEN Condemns ELSE UNCHANGED <<open, condemned>>
    /\ UNCHANGED <<client, entry, channels, work, watch, globals, panicked>>

\* ... and then the global channels.
CloseGlobals ==
    /\ closer = "globals"
    /\ EntriesClosed
    /\ closer' = "returned"
    /\ globals' = (client # "ws")
    /\ UNCHANGED <<client, entries, channels, work, watch, panicked>>

-----------------------------------------------------------------------------
Act(a) ==
    \/ TakeEvent(a) \/ SendGlobal(a) \/ Snapshot(a)
    \/ SetConnState(a) \/ SetState(a) \/ SnapshotWatchers(a)
    \/ Send(a)
    \/ \E s \in Streams : CheckEntry(a, s)

CloseSteps ==
    \/ CloseAllStreams \/ ShutsDown \/ CloseGlobals
    \/ \E s \in Streams : FlagEntry(s) \/ CloseChannels(s)

Next ==
    \/ \E a \in Actors : Act(a)
    \/ \E s \in Streams :
          \/ Open(s) \/ ReadState(s) \/ Greet(s) \/ OwnerCloses(s) \/ Forget(s)
          \/ Receive(s) \/ Hear(s)
    \/ CloseBegins \/ CloseSteps

\* Close, once called, and the closing of entries go on, and so does a send
\* that has begun: it does not block.
Fairness == WF_vars(CloseSteps) /\ \A a \in Actors : WF_vars(Send(a))

Spec == Init /\ [][Next]_vars
FairSpec == Spec /\ Fairness

-----------------------------------------------------------------------------
TypeOK ==
    /\ client \in {"ws", "rtds"}
    /\ state \in ConnectionStates
    /\ open \subseteq Streams
    /\ entry \in [Streams -> {"unborn", "open", "flagged", "closed"}]
    /\ condemned \subseteq Streams
    /\ sent \in [Streams -> Nat]
    /\ last \in [Streams -> ConnectionStates \cup {None}]
    /\ taken \in [Streams -> Nat]
    /\ missed \in [Streams -> Nat]
    /\ told \in [Streams -> Nat]
    /\ heard \in [Streams -> Nat]
    /\ at \in [Actors -> Nat \ {0}]
    /\ pc \in [Actors -> {"idle", "global", "snapshot", "send"}]
    /\ todo \in [Actors -> SUBSET Streams]
    /\ sending \in [Actors -> Streams \cup {None}]
    /\ greeting \in [Streams -> ConnectionStates \cup {None, "unread"}]
    /\ crossed \subseteq Streams
    /\ closer \in {"idle", "streams", "shutdown", "globals", "returned"}
    /\ globals \in BOOLEAN
    /\ panicked \in BOOLEAN

(* No goroutine dies of a send on a closed channel, whoever closes streams *)
(* and the client at the same time.                                        *)
NeverPanics == ~panicked

(* When Close returns no stream that it could know of is left open: the    *)
(* channels are closed, or (rtds) somebody is at it.  Only streams that    *)
(* were registered after Close emptied the maps remain.                    *)
CloseLetsGo ==
    closer = "returned" =>
        \A s \in Streams \ open :
            entry[s] \in {"open", "flagged"} => client = "rtds" /\ s \in condemned

(* "LaggedError indicates the subscriber missed messages due to            *)
(* backpressure" (stream.go:20): every missed message leaves its notice,   *)
(* as long as no more were missed than the error channel holds; beyond     *)
(* that, notices that nobody receives in time are lost.                    *)
MissesNoticed ==
    \A s \in Streams :
        /\ told[s] <= missed[s]
        /\ told[s] < missed[s] => told[s] >= ErrCap

(* A state stream that missed nothing last reported the state the client   *)
(* is in, unless two transitions, or a transition and the stream's         *)
(* opening, overlapped: sends are made outside the lock.                   *)
LastReportCurrent ==
    \A s \in Watchers \ crossed :
        s \in open /\ entry[s] = "open" /\ ~Delivering(s) /\ missed[s] = 0 =>
            last[s] = state

(* Consumers that range over a stream are let go: Close ends in every      *)
(* stream that was open being closed.                                      *)
CloseReachesStreams ==
    \A s \in Streams : closer = "streams" /\ s \in open ~> entry[s] = "closed"
=============================================================================
