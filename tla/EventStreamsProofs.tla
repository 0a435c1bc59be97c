------------------------- MODULE EventStreamsProofs -------------------------
(***************************************************************************)
(* What a consumer may rely on, for any streams, any goroutines that       *)
(* deliver to them, any jobs and any sizes of the buffers: misses are      *)
(* noticed, a state stream ends up with the state the client is in, nobody *)
(* sends to a channel that is closed without recovering, and Close leaves  *)
(* no stream open that it could know of.                                   *)
(***************************************************************************)
EXTENDS EventStreams, TLAPS

USE DEF entries, channels, work, watch, ending

-----------------------------------------------------------------------------
(* Where the goroutines are.                                               *)

(* A goroutine that is not idle has a job; it is sending as long as there  *)
(* is an entry left, which was registered once; a state stream is only     *)
(* sent states.                                                            *)
WorkInv ==
    \A a \in Actors :
        /\ pc[a] # "idle" => HasJob(a)
        /\ todo[a] # {} => pc[a] = "send"
        /\ pc[a] = "global" => Job(a).kind # "state"
        /\ sending[a] # None => sending[a] \in todo[a]
        /\ \A s \in todo[a] : entry[s] # "unborn" /\ (s \in Watchers => Job(a).kind = "state")

(* Entries in the maps were registered; nobody else is greeted.            *)
EntryInv ==
    \A s \in Streams :
        entry[s] = "unborn" => s \notin open /\ greeting[s] = None

(* The goroutine has a state for the stream that it has not sent yet.      *)
Carries(a, s) ==
    \/ s \in todo[a]
    \/ pc[a] = "snapshot" /\ Job(a).kind = "state"

(* As long as no two deliveries to a state stream have overlapped, there   *)
(* is at most one, and it carries the state the client is in.              *)
OneDelivery ==
    \A s \in Watchers \ crossed : entry[s] # "unborn" =>
        /\ \A a, b \in Actors : Carries(a, s) /\ Carries(b, s) => a = b
        /\ \A a \in Actors : Carries(a, s) => greeting[s] = None /\ Job(a).state = state
        /\ greeting[s] \in {None, "unread", state}

IInv ==
    /\ TypeOK
    /\ WorkInv
    /\ EntryInv
    /\ OneDelivery
    /\ LastReportCurrent

-----------------------------------------------------------------------------
(* Types.                                                                  *)

(* What a job carries: a state if it is one, none otherwise.               *)
LEMMA JobStates ==
    ASSUME TypeOK, NEW a \in Actors, HasJob(a)
    PROVE  Job(a).state \in IF Job(a).kind = "state" THEN ConnectionStates ELSE {None}
BY JobsAssumption DEF TypeOK, HasJob, Job

(* A send, or the miss in its place, keeps counts counts.                  *)
LEMMA AcceptsTypes ==
    ASSUME TypeOK, NEW s \in Streams, NEW v \in ConnectionStates \cup {None}, Accepts(s, v)
    PROVE  /\ sent' \in [Streams -> Nat]
           /\ last' \in [Streams -> ConnectionStates \cup {None}]
           /\ missed' \in [Streams -> Nat]
           /\ told' \in [Streams -> Nat]
BY DEF TypeOK, Accepts, Delivers, Misses

LEMMA ProceedsTypes ==
    ASSUME TypeOK, NEW a \in Actors, NEW rest \in SUBSET Streams, Proceeds(a, rest)
    PROVE  /\ at' \in [Actors -> Nat \ {0}]
           /\ pc' \in [Actors -> {"idle", "global", "snapshot", "send"}]
           /\ todo' \in [Actors -> SUBSET Streams]
BY DEF TypeOK, Proceeds, Goes

(* Every step keeps the types.                                             *)
LEMMA TypeStep ==
    ASSUME TypeOK, WorkInv, [Next]_vars
    PROVE  TypeOK'
<1> USE StreamsAssumption DEF TypeOK
<1>1. ASSUME NEW a \in Actors, TakeEvent(a) PROVE TypeOK'
  <2>1. CASE Proceeds(a, {})
    BY <1>1, <2>1, ProceedsTypes DEF TakeEvent
  <2>2. CASE UNCHANGED <<at, todo>>
    BY <1>1, <2>2 DEF TakeEvent, Goes, Proceeds
  <2> QED
    BY <1>1, <2>1, <2>2 DEF TakeEvent
<1>2. ASSUME NEW a \in Actors, SendGlobal(a) PROVE TypeOK'
  BY <1>2 DEF SendGlobal, Goes, Recovers
<1>3. ASSUME NEW a \in Actors, Snapshot(a) PROVE TypeOK'
  <2>1. {s \in open : Matches(s, Job(a))} \in SUBSET Streams
    OBVIOUS
  <2> QED
    BY <1>3, <2>1, ProceedsTypes DEF Snapshot
<1>4. ASSUME NEW a \in Actors, SetConnState(a) PROVE TypeOK'
  <2>1. open \cap Watchers \in SUBSET Streams
    OBVIOUS
  <2>2. state' \in ConnectionStates /\ crossed' \subseteq Streams
    BY <1>4, JobStates DEF SetConnState, Crosses, Watchers
  <2> QED
    BY <1>4, <2>1, <2>2, ProceedsTypes DEF SetConnState
<1>5. ASSUME NEW a \in Actors, SetState(a) PROVE TypeOK'
  BY <1>5, JobStates DEF SetState, Crosses, Watchers, Goes
<1>6. ASSUME NEW a \in Actors, SnapshotWatchers(a) PROVE TypeOK'
  <2>1. open \cap Watchers \in SUBSET Streams
    OBVIOUS
  <2> QED
    BY <1>6, <2>1, ProceedsTypes DEF SnapshotWatchers
<1>7. ASSUME NEW a \in Actors, Send(a) PROVE TypeOK'
  <2> DEFINE s == sending[a]
  <2>1. s \in Streams /\ s \in todo[a] /\ HasJob(a)
    BY <1>7 DEF Send, WorkInv
  <2>2. Job(a).state \in ConnectionStates \cup {None}
    BY <2>1, JobStates
  <2>3. /\ sent' \in [Streams -> Nat]
        /\ last' \in [Streams -> ConnectionStates \cup {None}]
        /\ missed' \in [Streams -> Nat]
        /\ told' \in [Streams -> Nat]
        /\ panicked' \in BOOLEAN
    <3>1. CASE entry[s] # "closed"
      BY <1>7, <2>1, <2>2, <3>1, AcceptsTypes DEF Send
    <3>2. CASE entry[s] = "closed"
      BY <1>7, <3>2 DEF Send, Recovers
    <3> QED
      BY <3>1, <3>2
  <2>4. Proceeds(a, todo[a] \ {s}) /\ todo[a] \ {s} \in SUBSET Streams
    BY <1>7 DEF Send
  <2>5. sending' \in [Actors -> Streams \cup {None}]
    BY <1>7 DEF Send
  <2> QED
    BY <1>7, <2>3, <2>4, <2>5, ProceedsTypes DEF Send
<1>8. ASSUME NEW a \in Actors, NEW s \in Streams, CheckEntry(a, s) PROVE TypeOK'
  <2>1. CASE Proceeds(a, todo[a] \ {s}) /\ UNCHANGED sending
    <3>1. todo[a] \ {s} \in SUBSET Streams
      OBVIOUS
    <3> QED
      BY <1>8, <2>1, <3>1, ProceedsTypes DEF CheckEntry
  <2>2. CASE UNCHANGED <<at, pc, todo>> /\ sending' = [sending EXCEPT ![a] = s]
    BY <1>8, <2>2 DEF CheckEntry
  <2> QED
    BY <1>8, <2>1, <2>2 DEF CheckEntry
<1>9. ASSUME NEW s \in Streams, Open(s) \/ ReadState(s) PROVE TypeOK'
  <2>1. CASE Open(s)
    <3>1. greeting' \in [Streams -> ConnectionStates \cup {None, "unread"}]
      <4>1. CASE s \notin Watchers
        BY <2>1, <4>1 DEF Open
      <4>2. CASE s \in Watchers /\ client = "ws"
        BY <2>1, <4>2 DEF Open, FirstReport
      <4>3. CASE s \in Watchers /\ client = "rtds"
        BY <2>1, <4>3 DEF Open
      <4> QED
        BY <4>1, <4>2, <4>3
    <3> QED
      BY <2>1, <3>1 DEF Open, Watchers
  <2>2. CASE ReadState(s)
    BY <2>2 DEF ReadState, FirstReport
  <2> QED
    BY <1>9, <2>1, <2>2
<1>10. ASSUME NEW s \in Streams, Greet(s) PROVE TypeOK'
  <2>1. greeting[s] \in ConnectionStates \cup {None}
    BY <1>10 DEF Greet
  <2>2. /\ sent' \in [Streams -> Nat]
        /\ last' \in [Streams -> ConnectionStates \cup {None}]
        /\ missed' \in [Streams -> Nat]
        /\ told' \in [Streams -> Nat]
    BY <1>10, <2>1, AcceptsTypes DEF Greet
  <2> QED
    BY <1>10, <2>2 DEF Greet
<1>11. ASSUME NEW s \in Streams, OwnerCloses(s) \/ Forget(s) \/ Receive(s) \/ Hear(s)
       PROVE  TypeOK'
  <2>1. CASE OwnerCloses(s) /\ client = "ws"
    BY <2>1 DEF OwnerCloses
  <2>2. CASE OwnerCloses(s) /\ client = "rtds"
    BY <2>2 DEF OwnerCloses
  <2>3. CASE Forget(s) \/ Receive(s) \/ Hear(s)
    BY <2>3 DEF Forget, Receive, Hear
  <2> QED
    BY <1>11, <2>1, <2>2, <2>3
<1>12. CASE CloseBegins \/ CloseAllStreams \/ ShutsDown \/ CloseGlobals
  BY <1>12 DEF CloseBegins, CloseAllStreams, ShutsDown, Condemns, CloseGlobals
<1>13. ASSUME NEW s \in Streams, FlagEntry(s) \/ CloseChannels(s) PROVE TypeOK'
  BY <1>13 DEF FlagEntry, CloseChannels, Closes
<1>14. CASE UNCHANGED vars
  BY <1>14 DEF vars
<1> QED
  BY <1>1, <1>2, <1>3, <1>4, <1>5, <1>6, <1>7, <1>8, <1>9, <1>10, <1>11,
     <1>12, <1>13, <1>14 DEF Next, Act, CloseSteps

-----------------------------------------------------------------------------
(* Misses and their notices.                                               *)

(* A miss finds room for its notice or an error channel full of others.    *)
LEMMA NoticedStep ==
    ASSUME TypeOK, MissesNoticed, [Next]_vars
    PROVE  MissesNoticed'
<1>1. ASSUME NEW s \in Streams, NEW v, Accepts(s, v) PROVE MissesNoticed'
  <2>1. CASE Delivers(s, v)
    BY <2>1 DEF Delivers, MissesNoticed
  <2>2. CASE Misses(s)
    BY <2>2, StreamsAssumption DEF Misses, MissesNoticed, TypeOK
  <2> QED
    BY <1>1, <2>1, <2>2 DEF Accepts
<1>2. CASE UNCHANGED <<missed, told>>
  BY <1>2 DEF MissesNoticed
<1>3. ASSUME NEW a \in Actors, Act(a) PROVE MissesNoticed'
  <2>1. CASE Send(a)
    <3>1. sending[a] \in Streams
      BY <2>1 DEF Send, TypeOK
    <3> QED
      BY <1>1, <1>2, <2>1, <3>1 DEF Send
  <2>2. ASSUME NEW s \in Streams, CheckEntry(a, s) PROVE MissesNoticed'
    BY <1>2, <2>2 DEF CheckEntry
  <2>3. CASE \/ TakeEvent(a) \/ SendGlobal(a) \/ Snapshot(a)
             \/ SetConnState(a) \/ SetState(a) \/ SnapshotWatchers(a)
    BY <1>2, <2>3 DEF TakeEvent, SendGlobal, Snapshot, SetConnState, SetState,
                      SnapshotWatchers
  <2> QED
    BY <1>3, <2>1, <2>2, <2>3 DEF Act
<1>4. ASSUME NEW s \in Streams,
             \/ Open(s) \/ ReadState(s) \/ Greet(s) \/ OwnerCloses(s) \/ Forget(s)
             \/ Receive(s) \/ Hear(s)
      PROVE  MissesNoticed'
  BY <1>1, <1>2, <1>4 DEF Open, ReadState, Greet, OwnerCloses, Forget, Receive, Hear
<1>5. CASE CloseBegins \/ CloseSteps
  BY <1>2, <1>5 DEF CloseBegins, CloseSteps, CloseAllStreams, ShutsDown, CloseGlobals, FlagEntry,
                    CloseChannels
<1>6. CASE UNCHANGED vars
  BY <1>2, <1>6 DEF vars
<1> QED
  BY <1>3, <1>4, <1>5, <1>6 DEF Next

-----------------------------------------------------------------------------
(* Places of the goroutines and the entries.                               *)

(* Which client it is does not change.                                     *)
LEMMA SameClient == [Next]_vars => client' = client
BY DEF Next, Act, TakeEvent, SendGlobal, Snapshot, SetConnState, SetState,
       SnapshotWatchers, Send, CheckEntry, Open, ReadState, Greet,
       OwnerCloses, Forget, Receive, Hear, CloseBegins, CloseSteps, CloseAllStreams,
       ShutsDown, CloseGlobals, FlagEntry, CloseChannels, vars

(* An entry is registered once and for all.                                *)
LEMMA EntryStep ==
    ASSUME TypeOK, EntryInv, [Next]_vars
    PROVE  EntryInv' /\ \A s \in Streams : entry[s] # "unborn" => entry'[s] # "unborn"
<1> DEFINE Goal == EntryInv' /\ \A s \in Streams : entry[s] # "unborn" => entry'[s] # "unborn"
<1> USE DEF TypeOK, EntryInv
<1>1. CASE UNCHANGED <<open, entry, greeting>>
  BY <1>1
<1>2. ASSUME NEW a \in Actors, Act(a) PROVE Goal
  BY <1>1, <1>2 DEF Act, TakeEvent, SendGlobal, Snapshot, SetConnState, SetState,
                    SnapshotWatchers, Send, CheckEntry
<1>3. ASSUME NEW s \in Streams, Open(s) PROVE Goal
  <2>1. \A t \in Streams : t # s => greeting'[t] = greeting[t] /\ entry'[t] = entry[t]
    BY <1>3 DEF Open
  <2>2. entry'[s] = "open" /\ open' = open \cup {s}
    BY <1>3 DEF Open
  <2> QED
    BY <2>1, <2>2
<1>4. ASSUME NEW s \in Streams, ReadState(s) \/ Greet(s) PROVE Goal
  BY <1>4 DEF ReadState, Greet, None
<1>5. ASSUME NEW s \in Streams, OwnerCloses(s) PROVE Goal
  <2>1. CASE client = "ws"
    BY <1>5, <2>1 DEF OwnerCloses
  <2>2. CASE client = "rtds"
    BY <1>5, <2>2 DEF OwnerCloses
  <2> QED
    BY <2>1, <2>2
<1>6. ASSUME NEW s \in Streams, Forget(s) \/ Receive(s) \/ Hear(s) PROVE Goal
  BY <1>6 DEF Forget, Receive, Hear
<1>7. CASE CloseAllStreams \/ ShutsDown
  BY <1>7 DEF CloseAllStreams, ShutsDown, Condemns
<1>8. CASE CloseBegins \/ CloseGlobals
  BY <1>1, <1>8 DEF CloseBegins, CloseGlobals
<1>9. ASSUME NEW s \in Streams, FlagEntry(s) \/ CloseChannels(s) PROVE Goal
  BY <1>9 DEF FlagEntry, CloseChannels, Closes
<1>10. CASE UNCHANGED vars
  BY <1>1, <1>10 DEF vars
<1> QED
  BY <1>2, <1>3, <1>4, <1>5, <1>6, <1>7, <1>8, <1>9, <1>10 DEF Next, CloseSteps

(* What WorkInv says of one goroutine.                                     *)
Placed(a) ==
    /\ pc[a] # "idle" => HasJob(a)
    /\ todo[a] # {} => pc[a] = "send"
    /\ pc[a] = "global" => Job(a).kind # "state"
    /\ sending[a] # None => sending[a] \in todo[a]
    /\ \A s \in todo[a] : entry[s] # "unborn" /\ (s \in Watchers => Job(a).kind = "state")

(* A goroutine that goes on to the entries of rest, all of them of its     *)
(* job's kind, or is done.                                                 *)
LEMMA ProceedsPlaced ==
    ASSUME TypeOK, NEW a \in Actors, NEW rest \in SUBSET Streams, Proceeds(a, rest),
           UNCHANGED entry, HasJob(a),
           sending'[a] = None \/ sending'[a] \in rest,
           \A s \in rest : entry[s] # "unborn" /\ (s \in Watchers => Job(a).kind = "state")
    PROVE  Placed(a)'
<1> USE DEF TypeOK, Proceeds, Goes
<1>1. CASE rest = {}
  <2>1. pc'[a] = "idle" /\ todo'[a] = {}
    BY <1>1
  <2> QED
    BY <1>1, <2>1 DEF Placed
<1>2. CASE rest # {}
  <2>1. pc'[a] = "send" /\ todo'[a] = rest /\ at'[a] = at[a]
    BY <1>2
  <2> QED
    BY <1>2, <2>1 DEF Placed, HasJob, Job
<1> QED
  BY <1>1, <1>2

(* Every step keeps the goroutines at their places.                        *)
LEMMA WorkStep ==
    ASSUME TypeOK, WorkInv, EntryInv, [Next]_vars
    PROVE  WorkInv'
<1>w. WorkInv <=> \A a \in Actors : Placed(a)
  BY DEF WorkInv, Placed
<1>v. WorkInv' <=> \A a \in Actors : Placed(a)'
  BY DEF WorkInv, Placed
<1>e. client' = client /\ \A s \in Streams : entry[s] # "unborn" => entry'[s] # "unborn"
  BY EntryStep, SameClient
<1> USE <1>e
<1>1. ASSUME UNCHANGED work PROVE WorkInv'
  BY <1>1, <1>e DEF WorkInv, HasJob, Job, TypeOK
<1>2. ASSUME NEW a \in Actors, Act(a) PROVE WorkInv'
  <2> SUFFICES Placed(a)'
    <3>1. ASSUME NEW b \in Actors, b # a
          PROVE  /\ pc'[b] = pc[b] /\ at'[b] = at[b] /\ todo'[b] = todo[b]
                 /\ sending'[b] = sending[b]
      BY <1>2, <3>1 DEF Act, TakeEvent, SendGlobal, Snapshot, SetConnState, SetState,
                        SnapshotWatchers, Send, CheckEntry, Proceeds,
                        Goes, TypeOK
    <3>2. ASSUME NEW b \in Actors, b # a PROVE Placed(b)'
      BY <1>w, <1>e, <3>1, <3>2 DEF Placed, HasJob, Job, TypeOK
    <3> QED
      BY <1>v, <3>2
  <2>p. Placed(a)
    BY <1>w
  <2>1. CASE TakeEvent(a)
    <3>1. HasJob(a) /\ sending'[a] = None /\ UNCHANGED entry /\ todo[a] = {}
      BY <2>p, <2>1 DEF TakeEvent, Placed, TypeOK
    <3>2. CASE Proceeds(a, {})
      BY <3>1, <3>2, ProceedsPlaced
    <3>3. CASE UNCHANGED <<at, todo>> /\ pc'[a] \in {"global", "snapshot"}
      BY <2>1, <3>1, <3>3 DEF Placed, TakeEvent, HasJob, Job
    <3> QED
      BY <2>1, <3>2, <3>3 DEF TakeEvent, Goes, TypeOK
  <2>2. CASE SendGlobal(a)
    BY <2>p, <2>2 DEF SendGlobal, Goes, Placed, HasJob, Job, TypeOK
  <2>3. CASE Snapshot(a)
    <3> DEFINE rest == {s \in open : Matches(s, Job(a))}
    <3>1. rest \in SUBSET Streams /\ HasJob(a) /\ UNCHANGED entry
      BY <2>p, <2>3 DEF Snapshot, TypeOK, Placed
    <3>2. sending'[a] = None
      BY <2>p, <2>3 DEF Snapshot, Placed, TypeOK
    <3>3. \A s \in rest : entry[s] # "unborn" /\ s \notin Watchers
      BY <2>3, <3>1 DEF Snapshot, Matches, Watchers, EntryInv
    <3> QED
      BY <2>3, <3>1, <3>2, <3>3, ProceedsPlaced DEF Snapshot
  <2>4. CASE SetConnState(a) \/ SnapshotWatchers(a)
    <3> DEFINE rest == open \cap Watchers
    <3>1. rest \in SUBSET Streams /\ HasJob(a) /\ UNCHANGED entry /\ Job(a).kind = "state"
      BY <2>p, <2>4 DEF SetConnState, SnapshotWatchers, TypeOK, Placed
    <3>2. sending'[a] = None
      BY <2>p, <2>4 DEF SetConnState, SnapshotWatchers, Placed, TypeOK
    <3>3. \A s \in rest : entry[s] # "unborn"
      BY <3>1 DEF EntryInv
    <3> QED
      BY <2>4, <3>1, <3>2, <3>3, ProceedsPlaced DEF SetConnState, SnapshotWatchers
  <2>5. CASE SetState(a)
    BY <2>p, <2>5 DEF SetState, Goes, Placed, HasJob, Job, TypeOK
  <2>6. CASE Send(a)
    <3> DEFINE rest == todo[a] \ {sending[a]}
    <3>1. rest \in SUBSET Streams /\ HasJob(a) /\ UNCHANGED entry /\ sending'[a] = None
      BY <2>p, <2>6 DEF Send, TypeOK, Placed
    <3> QED
      BY <2>p, <2>6, <3>1, ProceedsPlaced DEF Send, Placed
  <2>7. ASSUME NEW s \in Streams, CheckEntry(a, s) PROVE Placed(a)'
    <3> DEFINE rest == todo[a] \ {s}
    <3>1. rest \in SUBSET Streams /\ HasJob(a) /\ UNCHANGED entry /\ sending[a] = None
      BY <2>p, <2>7 DEF CheckEntry, TypeOK, Placed
    <3>2. CASE Proceeds(a, rest) /\ UNCHANGED sending
      BY <2>p, <3>1, <3>2, ProceedsPlaced DEF Placed
    <3>3. CASE UNCHANGED <<at, pc, todo>> /\ sending' = [sending EXCEPT ![a] = s]
      BY <2>p, <2>7, <3>1, <3>3 DEF Placed, HasJob, Job, CheckEntry, TypeOK
    <3> QED
      BY <2>7, <3>2, <3>3 DEF CheckEntry
  <2> QED
    BY <1>2, <2>1, <2>2, <2>3, <2>4, <2>5, <2>6, <2>7 DEF Act
<1>3. ASSUME NEW s \in Streams,
             \/ Open(s) \/ ReadState(s) \/ Greet(s) \/ OwnerCloses(s) \/ Forget(s)
             \/ Receive(s) \/ Hear(s)
      PROVE  WorkInv'
  BY <1>1, <1>3 DEF Open, ReadState, Greet, OwnerCloses, Forget, Receive, Hear
<1>4. CASE CloseBegins \/ CloseSteps
  BY <1>1, <1>4 DEF CloseBegins, CloseSteps, CloseAllStreams, ShutsDown, CloseGlobals, FlagEntry,
                    CloseChannels
<1>5. CASE UNCHANGED vars
  BY <1>1, <1>5 DEF vars
<1> QED
  BY <1>2, <1>3, <1>4, <1>5 DEF Next

-----------------------------------------------------------------------------
(* What a state stream reported last.                                      *)

(* What OneDelivery and LastReportCurrent say of one stream.               *)
Reported(s) ==
    /\ \A a, b \in Actors : Carries(a, s) /\ Carries(b, s) => a = b
    /\ \A a \in Actors : Carries(a, s) => greeting[s] = None /\ Job(a).state = state
    /\ greeting[s] \in {None, "unread", state}
    /\ s \in open /\ entry[s] = "open" /\ ~Delivering(s) /\ missed[s] = 0 => last[s] = state

LEMMA DeliveringIs ==
    ASSUME NEW s
    PROVE  Delivering(s) <=> greeting[s] # None \/ \E a \in Actors : Carries(a, s)
BY DEF Delivering, Carries

(* A step that delivers nothing to the stream and changes neither the      *)
(* state nor who carries it.                                               *)
LEMMA QuietReport ==
    ASSUME NEW s \in Streams, Reported(s),
           \A a \in Actors : Carries(a, s)' <=> Carries(a, s),
           \A a \in Actors : Carries(a, s) => at'[a] = at[a],
           greeting'[s] = greeting[s], state' = state,
           missed'[s] = missed[s], last'[s] = last[s],
           s \in open' /\ entry'[s] = "open" => s \in open /\ entry[s] = "open"
    PROVE  Reported(s)'
<1>1. \A a \in Actors : Carries(a, s) => Job(a)' = Job(a)
  BY DEF Job
<1>2. Delivering(s)' <=> Delivering(s)
  BY DEF Delivering, Carries
<1> QED
  BY <1>1, <1>2 DEF Reported

(* The goroutine a is done with the entry t.                               *)
LEMMA SentReport ==
    ASSUME TypeOK, WorkInv, NEW s \in Streams, Reported(s),
           NEW a \in Actors, NEW t \in todo[a], Proceeds(a, todo[a] \ {t}),
           UNCHANGED <<state, greeting, open, entry>>,
           t # s => missed'[s] = missed[s] /\ last'[s] = last[s],
           t = s => entry[s] # "open" \/ missed'[s] > 0 \/ last'[s] = Job(a).state
    PROVE  Reported(s)'
<1> USE DEF TypeOK, Proceeds, Goes
<1>1. pc[a] = "send"
  BY DEF WorkInv
<1>2. pc'[a] \in {"idle", "send"} /\ todo'[a] = todo[a] \ {t}
  OBVIOUS
<1>3. \A b \in Actors : b # a => Carries(b, s)' = Carries(b, s) /\ at'[b] = at[b]
  BY DEF Carries, Job
<1>4. CASE t # s
  <2>1. Carries(a, s)' <=> Carries(a, s)
    BY <1>1, <1>2, <1>4 DEF Carries
  <2>2. Carries(a, s) => at'[a] = at[a]
    BY <1>1, <1>4 DEF Carries
  <2> QED
    BY <1>3, <1>4, <2>1, <2>2, QuietReport
<1>5. CASE t = s
  <2>1. Carries(a, s) /\ ~Carries(a, s)'
    BY <1>2, <1>5 DEF Carries
  <2>2. \A b \in Actors : ~Carries(b, s)'
    BY <1>3, <2>1 DEF Reported
  <2>3. greeting[s] = None /\ Job(a).state = state
    BY <2>1 DEF Reported
  <2> QED
    BY <1>5, <2>2, <2>3 DEF Reported
<1> QED
  BY <1>4, <1>5

(* What a send leaves behind: a miss, or the value sent.                   *)
LEMMA AcceptsReport ==
    ASSUME TypeOK, NEW s \in Streams, NEW v, Accepts(s, v)
    PROVE  /\ missed'[s] > 0 \/ last'[s] = v
           /\ \A t \in Streams : t # s => missed'[t] = missed[t] /\ last'[t] = last[t]
BY DEF TypeOK, Accepts, Delivers, Misses

(* A goroutine that turns to another state, or to the watchers it is to    *)
(* tell, is the only one that carries it, or the stream is crossed.        *)
LEMMA ActReport ==
    ASSUME TypeOK, WorkInv, EntryInv, NEW a \in Actors, Act(a),
           NEW s \in Watchers, s \notin crossed', entry[s] # "unborn", Reported(s)
    PROVE  Reported(s)'
<1> USE DEF TypeOK
<1>a. s \in Streams /\ KindOf[s] = "state"
  BY DEF Watchers
<1>p. /\ pc[a] # "idle" => HasJob(a)
      /\ todo[a] # {} => pc[a] = "send"
      /\ sending[a] # None => sending[a] \in todo[a]
      /\ pc[a] = "global" => Job(a).kind # "state"
  BY DEF WorkInv
<1>o. \A b \in Actors : b # a =>
          /\ pc'[b] = pc[b] /\ at'[b] = at[b] /\ todo'[b] = todo[b]
          /\ Job(b)' = Job(b) /\ (Carries(b, s)' <=> Carries(b, s))
  <2>1. \A b \in Actors : b # a => pc'[b] = pc[b] /\ at'[b] = at[b] /\ todo'[b] = todo[b]
    BY DEF Act, TakeEvent, SendGlobal, Snapshot, SetConnState, SetState, SnapshotWatchers,
           Send, CheckEntry, Proceeds, Goes
  <2> QED
    BY <2>1 DEF Job, Carries
<1>1. CASE TakeEvent(a) \/ SendGlobal(a) \/ Snapshot(a)
  <2>1. Job(a).kind # "state" /\ todo[a] = {}
    BY <1>1, <1>p DEF TakeEvent, SendGlobal, Snapshot
  <2>2. ~Carries(a, s)
    BY <2>1 DEF Carries
  <2>3. ~Carries(a, s)'
    <3>1. CASE Proceeds(a, {})
      BY <3>1 DEF Carries, Proceeds, Goes
    <3>2. CASE Goes(a, "global") /\ UNCHANGED <<at, todo>>
      BY <2>1, <3>2 DEF Carries, Goes
    <3>3. CASE Goes(a, "snapshot") /\ UNCHANGED <<at, todo>>
      BY <2>1, <3>3 DEF Carries, Goes, Job
    <3>4. CASE Snapshot(a)
      <4>1. s \notin todo'[a] /\ pc'[a] \in {"idle", "send"}
        BY <1>a, <2>1, <3>4 DEF Snapshot, Matches, Proceeds, Goes
      <4> QED
        BY <4>1 DEF Carries
    <3> QED
      BY <1>1, <3>1, <3>2, <3>3, <3>4 DEF TakeEvent, SendGlobal
  <2>4. UNCHANGED <<open, entry, missed, last, greeting, state>>
    BY <1>1 DEF TakeEvent, SendGlobal, Snapshot
  <2> QED
    BY <1>a, <1>o, <2>2, <2>3, <2>4, QuietReport
<1>2. CASE SetConnState(a) \/ SnapshotWatchers(a)
  <2>1. greeting[s] = None /\ \A b \in Actors : b # a => ~Carries(b, s)
    <3>1. CASE SetConnState(a)
      <4>1. ~Delivering(s)
        BY <3>1 DEF SetConnState, Crosses
      <4> QED
        BY <4>1, DeliveringIs
    <3>2. CASE SnapshotWatchers(a)
      <4>1. Carries(a, s)
        BY <3>2 DEF SnapshotWatchers, Carries
      <4> QED
        BY <4>1 DEF Reported
    <3> QED
      BY <1>2, <3>1, <3>2
  <2>2. Job(a).state = state'
    <3>1. CASE SetConnState(a)
      BY <3>1 DEF SetConnState
    <3>2. CASE SnapshotWatchers(a)
      <4>1. Carries(a, s)
        BY <3>2 DEF SnapshotWatchers, Carries
      <4> QED
        BY <3>2, <4>1 DEF Reported, SnapshotWatchers
    <3> QED
      BY <1>2, <3>1, <3>2
  <2>3. Proceeds(a, open \cap Watchers) /\ UNCHANGED <<open, entry, greeting>>
    BY <1>2 DEF SetConnState, SnapshotWatchers
  <2>4. CASE s \in open
    <3>1. todo'[a] = open \cap Watchers /\ at'[a] = at[a] /\ s \in todo'[a]
      BY <2>3, <2>4 DEF Proceeds
    <3>2. Carries(a, s)' /\ Job(a)'.state = state'
      BY <2>2, <3>1 DEF Carries, Job
    <3>3. Delivering(s)'
      BY <3>1 DEF Delivering
    <3>4. \A b \in Actors : Carries(b, s)' => b = a
      BY <1>o, <2>1
    <3> QED
      BY <2>1, <2>3, <3>2, <3>3, <3>4 DEF Reported
  <2>5. CASE s \notin open
    <3>1. ~Carries(a, s)'
      BY <2>3, <2>5 DEF Carries, Proceeds, Goes
    <3>2. \A b \in Actors : ~Carries(b, s)'
      BY <1>o, <2>1, <3>1
    <3> QED
      BY <2>1, <2>3, <2>5, <3>2 DEF Reported
  <2> QED
    BY <2>4, <2>5
<1>3. CASE SetState(a)
  <2>1. ~Delivering(s)
    BY <1>3 DEF SetState, Crosses
  <2>2. greeting[s] = None /\ \A b \in Actors : ~Carries(b, s)
    BY <2>1, DeliveringIs
  <2>3. /\ Job(a)' = Job(a) /\ Job(a).state = state' /\ Job(a).kind = "state"
        /\ pc'[a] = "snapshot" /\ UNCHANGED greeting
    BY <1>3 DEF SetState, Job, Goes
  <2>4. Delivering(s)'
    BY <2>3 DEF Delivering
  <2>5. \A b \in Actors : Carries(b, s)' => b = a
    BY <1>o, <2>2
  <2> QED
    BY <2>2, <2>3, <2>4, <2>5 DEF Reported
<1>4. CASE Send(a)
  <2> DEFINE t == sending[a]
  <2>1. t \in todo[a] /\ t \in Streams
    BY <1>4, <1>p DEF Send
  <2>2. Proceeds(a, todo[a] \ {t}) /\ UNCHANGED <<state, greeting, open, entry>>
    BY <1>4 DEF Send
  <2>3. t # s => missed'[s] = missed[s] /\ last'[s] = last[s]
    BY <1>4, <1>a, <2>1, AcceptsReport DEF Send
  <2>4. t = s => entry[s] # "open" \/ missed'[s] > 0 \/ last'[s] = Job(a).state
    BY <1>4, <1>a, <2>1, AcceptsReport DEF Send
  <2> QED
    BY <1>a, <2>1, <2>2, <2>3, <2>4, SentReport
<1>5. ASSUME NEW t \in Streams, CheckEntry(a, t) PROVE Reported(s)'
  <2>1. t \in todo[a] /\ UNCHANGED <<state, greeting, open, entry, missed, last>>
    BY <1>5 DEF CheckEntry
  <2>2. CASE entry[t] # "open" /\ Proceeds(a, todo[a] \ {t})
    BY <1>a, <2>1, <2>2, SentReport
  <2>3. CASE UNCHANGED <<at, pc, todo>>
    <3>1. Carries(a, s)' <=> Carries(a, s)
      BY <2>3 DEF Carries, Job
    <3> QED
      BY <1>a, <1>o, <2>1, <2>3, <3>1, QuietReport
  <2> QED
    BY <1>5, <2>2, <2>3 DEF CheckEntry
<1> QED
  BY <1>1, <1>2, <1>3, <1>4, <1>5 DEF Act

(* A stream that opens is greeted with the state, or is crossed.           *)
LEMMA OpenReport ==
    ASSUME TypeOK, WorkInv, EntryInv, NEW t \in Streams,
           Open(t) \/ ReadState(t) \/ Greet(t),
           NEW s \in Watchers, s \notin crossed', entry'[s] # "unborn",
           entry[s] # "unborn" => Reported(s)
    PROVE  Reported(s)'
<1> USE DEF TypeOK
<1>a. s \in Streams
  BY DEF Watchers
<1>s. state # None /\ state # "unread"
  BY DEF ConnectionStates, None
<1>c. \A b \in Actors : Carries(b, s)' <=> Carries(b, s)
  BY DEF Carries, Job, Open, ReadState, Greet
<1>u. UNCHANGED <<state, at>>
  BY DEF Open, ReadState, Greet
<1>1. CASE t # s
  <2>1. entry[s] # "unborn" /\ greeting'[s] = greeting[s]
    BY <1>1, <1>a DEF Open, ReadState, Greet
  <2>2. missed'[s] = missed[s] /\ last'[s] = last[s]
    BY <1>1, <1>a, AcceptsReport DEF Open, ReadState, Greet
  <2>3. s \in open' /\ entry'[s] = "open" => s \in open /\ entry[s] = "open"
    BY <1>1, <1>a DEF Open, ReadState, Greet
  <2> QED
    BY <1>a, <1>c, <1>u, <2>1, <2>2, <2>3, QuietReport
<1>2. CASE t = s /\ Open(t)
  <2>1. ~Delivering(s)
    BY <1>2 DEF Open
  <2>2. \A b \in Actors : ~Carries(b, s)'
    BY <2>1, <1>c, DeliveringIs
  <2>3. greeting'[s] \in {"unread", state'} /\ greeting'[s] # None
    BY <1>2, <1>s, <1>u DEF Open, FirstReport, None
  <2>4. Delivering(s)'
    BY <2>3 DEF Delivering
  <2> QED
    BY <2>2, <2>3, <2>4 DEF Reported
<1>3. CASE t = s /\ ReadState(t)
  <2>1. greeting[s] = "unread" /\ greeting'[s] = state'
    BY <1>3, <1>u DEF ReadState, FirstReport
  <2>2. entry[s] # "unborn"
    BY <1>a, <2>1 DEF EntryInv, None
  <2>3. \A b \in Actors : ~Carries(b, s)'
    BY <1>c, <2>1, <2>2 DEF Reported, None
  <2>4. Delivering(s)'
    BY <1>s, <1>u, <2>1 DEF Delivering
  <2> QED
    BY <2>1, <2>3, <2>4 DEF Reported
<1>4. CASE t = s /\ Greet(t)
  <2>1. entry[s] # "unborn" /\ greeting[s] # None
    BY <1>4, <1>a DEF Greet, EntryInv
  <2>2. greeting[s] = state /\ greeting'[s] = None
    BY <1>4, <2>1 DEF Greet, Reported
  <2>3. \A b \in Actors : ~Carries(b, s)'
    BY <1>c, <2>1 DEF Reported
  <2>4. entry'[s] # "open" \/ missed'[s] > 0 \/ last'[s] = state'
    BY <1>4, <1>u, <2>2, AcceptsReport DEF Greet
  <2> QED
    BY <2>2, <2>3, <2>4 DEF Reported
<1> QED
  BY <1>1, <1>2, <1>3, <1>4

(* Every step keeps the reports true.                                      *)
LEMMA ReportStep ==
    ASSUME TypeOK, WorkInv, EntryInv, OneDelivery, LastReportCurrent, [Next]_vars
    PROVE  OneDelivery' /\ LastReportCurrent'
<1>w. Watchers' = Watchers
  BY DEF Watchers
<1>u. \A s \in Watchers : entry'[s] = "unborn" => s \notin open'
  BY EntryStep DEF EntryInv, Watchers
<1>r. \A s \in Watchers \ crossed : entry[s] # "unborn" => Reported(s)
  BY DEF OneDelivery, LastReportCurrent, Reported
<1> SUFFICES ASSUME NEW s \in Watchers, s \notin crossed', entry'[s] # "unborn"
             PROVE  Reported(s)'
  BY <1>w, <1>u DEF OneDelivery, LastReportCurrent, Reported
<1>a. s \in Streams
  BY DEF Watchers
<1>1. ASSUME NEW a \in Actors, Act(a) PROVE Reported(s)'
  <2>1. s \notin crossed /\ entry[s] # "unborn"
    BY <1>1 DEF Act, TakeEvent, SendGlobal, Snapshot, SetConnState, SetState, Crosses,
                SnapshotWatchers, Send, CheckEntry
  <2> QED
    BY <1>1, <1>r, <2>1, ActReport
<1>2. ASSUME NEW t \in Streams, Open(t) \/ ReadState(t) \/ Greet(t) PROVE Reported(s)'
  <2>1. s \notin crossed
    BY <1>2 DEF Open, ReadState, Greet
  <2> QED
    BY <1>2, <1>r, <2>1, OpenReport
<1>3. ASSUME UNCHANGED <<work, watch, missed, last>>, entry[s] # "unborn",
             s \in open' /\ entry'[s] = "open" => s \in open /\ entry[s] = "open"
      PROVE  Reported(s)'
  <2>1. \A b \in Actors : Carries(b, s)' <=> Carries(b, s)
    BY <1>3 DEF Carries, Job
  <2> QED
    BY <1>3, <1>a, <1>r, <2>1, QuietReport
<1>4. ASSUME NEW t \in Streams, OwnerCloses(t) PROVE Reported(s)'
  <2>1. CASE client = "ws"
    BY <1>3, <1>4, <1>a, <2>1 DEF OwnerCloses, TypeOK
  <2>2. CASE client = "rtds"
    BY <1>3, <1>4, <1>a, <2>2 DEF OwnerCloses
  <2> QED
    BY <2>1, <2>2 DEF TypeOK
<1>5. ASSUME NEW t \in Streams, Forget(t) \/ Receive(t) \/ Hear(t) PROVE Reported(s)'
  BY <1>3, <1>5 DEF Forget, Receive, Hear
<1>6. ASSUME NEW t \in Streams, FlagEntry(t) \/ CloseChannels(t) PROVE Reported(s)'
  BY <1>3, <1>6, <1>a DEF FlagEntry, CloseChannels, Closes, TypeOK
<1>7. CASE CloseAllStreams \/ ShutsDown
  BY <1>3, <1>7 DEF CloseAllStreams, ShutsDown, Condemns
<1>8. CASE CloseBegins \/ CloseGlobals
  BY <1>3, <1>8 DEF CloseBegins, CloseGlobals
<1>9. CASE UNCHANGED vars
  BY <1>3, <1>9 DEF vars
<1> QED
  BY <1>1, <1>2, <1>4, <1>5, <1>6, <1>7, <1>8, <1>9 DEF Next, CloseSteps

-----------------------------------------------------------------------------
(* Closing.                                                                *)

(* An actor of ws sends to an entry that is open: it holds the lock.       *)
LockInv ==
    client = "ws" => \A a \in Actors : sending[a] # None => entry[sending[a]] = "open"

(* What left the maps without being closed is about to be closed.          *)
CondemnedInv ==
    \A s \in Streams \ open : entry[s] \in {"open", "flagged"} => s \in condemned

(* Close of ws itself waits for what it took out of the maps.              *)
ReturnedInv == client = "ws" /\ closer = "returned" => EntriesClosed

CInv ==
    /\ LockInv
    /\ NeverPanics
    /\ CondemnedInv
    /\ ReturnedInv

(* Goroutines that deliver leave the maps and the entries alone, and only  *)
(* turn to an entry that they find open.                                   *)
LEMMA ActCloses ==
    ASSUME TypeOK, CInv, NEW a \in Actors, Act(a)
    PROVE  CInv'
<1> USE DEF TypeOK
<1>1. UNCHANGED <<client, entries, closer>>
  BY DEF Act, TakeEvent, SendGlobal, Snapshot, SetConnState, SetState, SnapshotWatchers,
         Send, CheckEntry
<1>2. LockInv'
  <2>1. CASE UNCHANGED sending
    BY <1>1, <2>1 DEF CInv, LockInv
  <2>2. CASE Send(a)
    BY <1>1, <2>2 DEF Send, CInv, LockInv
  <2>3. ASSUME NEW s \in Streams, CheckEntry(a, s) PROVE LockInv'
    BY <1>1, <2>3 DEF CheckEntry, CInv, LockInv
  <2> QED
    BY <2>1, <2>2, <2>3 DEF Act, TakeEvent, SendGlobal, Snapshot, SetConnState, SetState,
                            SnapshotWatchers
<1>3. NeverPanics'
  <2>1. CASE UNCHANGED panicked
    BY <2>1 DEF CInv, NeverPanics
  <2>2. CASE SendGlobal(a)
    BY <2>1, <2>2 DEF SendGlobal, Recovers
  <2>3. CASE Send(a)
    <3>1. CASE client = "ws"
      <4>1. entry[sending[a]] # "closed"
        BY <2>3, <3>1 DEF Send, CInv, LockInv
      <4> QED
        BY <2>1, <2>3, <4>1 DEF Send
    <3>2. CASE client = "rtds"
      BY <2>1, <2>3, <3>2 DEF Send, Recovers
    <3> QED
      BY <3>1, <3>2
  <2> QED
    BY <2>1, <2>2, <2>3 DEF Act, TakeEvent, Snapshot, SetConnState, SetState,
                            SnapshotWatchers, CheckEntry
<1>4. CondemnedInv'
  BY <1>1 DEF CInv, CondemnedInv
<1>5. ReturnedInv'
  BY <1>1 DEF CInv, ReturnedInv, EntriesClosed
<1> QED
  BY <1>2, <1>3, <1>4, <1>5 DEF CInv

(* Every step keeps it so: the one that closes an entry of ws waits for    *)
(* its lock, and the one that ends Close for the entries.                  *)
LEMMA CloseStep ==
    ASSUME TypeOK, CInv, [Next]_vars
    PROVE  CInv'
<1> USE DEF TypeOK
<1>1. ASSUME NEW a \in Actors, Act(a) PROVE CInv'
  BY <1>1, ActCloses
<1>2. ASSUME UNCHANGED <<client, entry, sending, closer, panicked>>, client = "rtds",
             condemned \subseteq condemned', open \subseteq open' \cup condemned'
      PROVE  CInv'
  BY <1>2 DEF CInv, LockInv, NeverPanics, CondemnedInv, ReturnedInv
<1>3. ASSUME NEW s \in Streams, Open(s) PROVE CInv'
  <2>1. entry'[s] = "open" /\ open' = open \cup {s} /\ entry[s] = "unborn"
    BY <1>3 DEF Open
  <2>2. \A t \in Streams : t # s => entry'[t] = entry[t]
    BY <1>3 DEF Open
  <2>3. UNCHANGED <<client, condemned, sending, closer, panicked>>
    BY <1>3 DEF Open
  <2>4. LockInv'
    BY <2>1, <2>2, <2>3 DEF CInv, LockInv
  <2>5. CondemnedInv'
    BY <2>1, <2>2, <2>3 DEF CInv, CondemnedInv
  <2>6. ReturnedInv'
    BY <2>1, <2>2, <2>3 DEF CInv, ReturnedInv, EntriesClosed
  <2> QED
    BY <2>3, <2>4, <2>5, <2>6 DEF CInv, NeverPanics
\* An entry changes on its way from open to closed; one of ws that nobody
\* sends to.
<1>4. ASSUME NEW s \in Streams, entry[s] \in {"open", "flagged"},
             UNCHANGED <<client, open, condemned, sending, closer, panicked>>,
             \/ entry' = [entry EXCEPT ![s] = "closed"]
             \/ entry' = [entry EXCEPT ![s] = "flagged"] /\ client = "rtds",
             client = "ws" => \A a \in Actors : sending[a] # s
      PROVE  CInv'
  <2>1. \A t \in Streams : t # s => entry'[t] = entry[t]
    BY <1>4
  <2>2. entry'[s] = "closed" \/ (entry'[s] = "flagged" /\ client = "rtds")
    BY <1>4
  <2>3. LockInv'
    BY <1>4, <2>1 DEF CInv, LockInv
  <2>4. CondemnedInv'
    BY <1>4, <2>1 DEF CInv, CondemnedInv
  <2>5. ReturnedInv'
    BY <1>4, <2>1, <2>2 DEF CInv, ReturnedInv, EntriesClosed
  <2> QED
    BY <1>4, <2>3, <2>4, <2>5 DEF CInv, NeverPanics
<1>5. ASSUME NEW s \in Streams, OwnerCloses(s) PROVE CInv'
  <2>1. CASE client = "ws"
    BY <1>4, <1>5, <2>1 DEF OwnerCloses, MayClose, Locked
  <2>2. CASE client = "rtds"
    BY <1>2, <1>5, <2>2 DEF OwnerCloses
  <2> QED
    BY <2>1, <2>2
<1>6. ASSUME NEW s \in Streams, FlagEntry(s) PROVE CInv'
  BY <1>4, <1>6 DEF FlagEntry
<1>7. ASSUME NEW s \in Streams, CloseChannels(s) PROVE CInv'
  <2>1. client = "ws" => \A a \in Actors : sending[a] # s
    BY <1>7, StreamsAssumption DEF CloseChannels, MayClose, Locked, CInv, LockInv
  <2> QED
    BY <1>4, <1>7, <2>1 DEF CloseChannels, Closes
<1>8. ASSUME NEW s \in Streams, Forget(s) PROVE CInv'
  BY <1>8 DEF Forget, CInv, LockInv, NeverPanics, CondemnedInv, ReturnedInv, EntriesClosed
<1>9. ASSUME NEW s \in Streams, ReadState(s) \/ Greet(s) \/ Receive(s) \/ Hear(s)
      PROVE  CInv'
  BY <1>9 DEF ReadState, Greet, Receive, Hear, CInv, LockInv, NeverPanics, CondemnedInv,
              ReturnedInv, EntriesClosed
<1>10. CASE CloseAllStreams \/ ShutsDown
  BY <1>10 DEF CloseAllStreams, ShutsDown, Condemns, CInv, LockInv, NeverPanics,
               CondemnedInv, ReturnedInv
<1>11. CASE CloseGlobals
  BY <1>11 DEF CloseGlobals, CInv, LockInv, NeverPanics, CondemnedInv, ReturnedInv,
               EntriesClosed
<1>12. CASE CloseBegins \/ UNCHANGED vars
  BY <1>12 DEF CloseBegins, vars, CInv, LockInv, NeverPanics, CondemnedInv, ReturnedInv,
               EntriesClosed
<1> QED
  BY <1>1, <1>3, <1>5, <1>6, <1>7, <1>8, <1>9, <1>10, <1>11, <1>12 DEF Next, CloseSteps
-----------------------------------------------------------------------------
(* No stream is open at first.                                             *)
LEMMA InitIInv == Init => IInv /\ MissesNoticed
<1> SUFFICES ASSUME Init PROVE IInv /\ MissesNoticed
  OBVIOUS
<1> USE DEF Init
<1>1. TypeOK
  <2>1. /\ client \in {"ws", "rtds"} /\ state \in ConnectionStates
        /\ open \subseteq Streams /\ condemned \subseteq Streams /\ crossed \subseteq Streams
        /\ closer \in {"idle", "streams", "globals", "returned"}
        /\ globals \in BOOLEAN /\ panicked \in BOOLEAN
    BY DEF ConnectionStates
  <2>2. /\ entry \in [Streams -> {"unborn", "open", "flagged", "closed"}]
        /\ last \in [Streams -> ConnectionStates \cup {None}]
        /\ greeting \in [Streams -> ConnectionStates \cup {None, "unread"}]
    OBVIOUS
  <2>3. /\ sent \in [Streams -> Nat] /\ taken \in [Streams -> Nat]
        /\ missed \in [Streams -> Nat] /\ told \in [Streams -> Nat]
        /\ heard \in [Streams -> Nat]
    OBVIOUS
  <2>4. /\ at \in [Actors -> Nat \ {0}]
        /\ pc \in [Actors -> {"idle", "global", "snapshot", "send"}]
        /\ todo \in [Actors -> SUBSET Streams]
        /\ sending \in [Actors -> Streams \cup {None}]
    OBVIOUS
  <2> QED
    BY <2>1, <2>2, <2>3, <2>4 DEF TypeOK
<1>2. WorkInv /\ EntryInv
  BY DEF WorkInv, EntryInv
<1>3. OneDelivery /\ LastReportCurrent
  BY DEF OneDelivery, LastReportCurrent, Watchers
<1>4. MissesNoticed
  BY DEF MissesNoticed
<1> QED
  BY <1>1, <1>2, <1>3, <1>4 DEF IInv

(* Every step preserves the invariant.                                     *)
LEMMA NextIInv == IInv /\ [Next]_vars => IInv'
BY TypeStep, WorkStep, EntryStep, ReportStep DEF IInv

(* IInv holds in every reachable state.                                    *)
LEMMA Invariance == Spec => []IInv
<1>1. Init => IInv
  BY InitIInv
<1> QED
  BY <1>1, NextIInv, PTL DEF Spec

(* So does what closing relies on.                                         *)
LEMMA CloseInvariance == Spec => []CInv
<1>1. Init => CInv
  BY DEF Init, CInv, LockInv, NeverPanics, CondemnedInv, ReturnedInv
<1>2. IInv /\ CInv /\ [Next]_vars => CInv'
  BY CloseStep DEF IInv
<1> QED
  BY <1>1, <1>2, Invariance, PTL DEF Spec

(* Type correctness: the counters of the channels are natural numbers, and *)
(* goroutines only work on entries that were registered.                   *)
THEOREM TypeCorrect == Spec => []TypeOK
<1>1. IInv => TypeOK
  BY DEF IInv
<1> QED
  BY <1>1, Invariance, PTL

(* Every message that a full buffer costs leaves its notice, as long as no *)
(* more were missed than the error channel holds.                          *)
THEOREM MissesAreNoticed == Spec => []MissesNoticed
<1>1. Init => MissesNoticed
  BY InitIInv
<1>2. IInv /\ MissesNoticed /\ [Next]_vars => MissesNoticed'
  BY NoticedStep DEF IInv
<1> QED
  BY <1>1, <1>2, Invariance, PTL DEF Spec

(* A state stream that missed nothing last reported the state the client   *)
(* is in, unless two deliveries to it overlapped: the sends are outside    *)
(* the lock.                                                               *)
THEOREM LastReportIsCurrent == Spec => []LastReportCurrent
<1>1. IInv => LastReportCurrent
  BY DEF IInv
<1> QED
  BY <1>1, Invariance, PTL

(* No goroutine dies of a send on a closed channel: those of ws hold the   *)
(* lock that close waits for, the others recover.                          *)
THEOREM NobodyPanics == Spec => []NeverPanics
<1>1. CInv => NeverPanics
  BY DEF CInv
<1> QED
  BY <1>1, CloseInvariance, PTL

(* When Close returns, every stream that was registered before it emptied  *)
(* the maps is closed, or (rtds) is in the hands of one who closes it.     *)
THEOREM CloseLetsEverybodyGo == Spec => []CloseLetsGo
<1>1. IInv /\ CInv => CloseLetsGo
  BY DEF IInv, TypeOK, CInv, CondemnedInv, ReturnedInv, EntriesClosed, CloseLetsGo
<1> QED
  BY <1>1, Invariance, CloseInvariance, PTL
=============================================================================
