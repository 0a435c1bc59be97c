----------------------------- MODULE RtdsProofs -----------------------------
(* Theorems about Rtds, for any keys, streams, requests and limits.        *)
EXTENDS Rtds, FiniteSetTheorems, TLAPS

USE RtdsAssumption DEF RtdsAssumption

(* Counts, attempts and subscriptions start at none.                       *)
LEMMA Zeros == [k \in Keys |-> 0] \in [Keys -> Nat] /\ 0 \in 0 .. ReconnectMax
  OBVIOUS

LEMMA NothingIsTyped == Nothing \in [Keys -> Subs \cup {NoSub}]
  BY DEF Nothing

(* run counts its attempts up to the limit, whether it goes on or not.     *)
LEMMA AttemptsCounted ==
  ASSUME attempts \in 0 .. ReconnectMax, done \in BOOLEAN, Retries \/ GivesUp
  PROVE  attempts' \in 0 .. ReconnectMax /\ run' \in {"sleep", "ended"} /\ done' \in BOOLEAN
  <1>1. CASE Retries
    <2>1. attempts' \in 0 .. ReconnectMax
      BY <1>1 DEF Retries, ShouldReconnect
    <2> QED BY <1>1, <2>1 DEF Retries
  <1>2. CASE GivesUp
    BY <1>2 DEF GivesUp, Ends
  <1> QED BY <1>1, <1>2

(* The types of what the connection and its goroutines keep, and of the    *)
(* book of subscriptions, hold initially and in every step.                *)
LEMMA TypeInit == Init => TypeOK
  <1> SUFFICES ASSUME Init PROVE TypeOK
    OBVIOUS
  <1>1. /\ snap \in [Keys -> Subs \cup {NoSub}]
        /\ detail \in [Keys -> Subs \cup {NoSub}]
        /\ srv \in [Keys -> Subs \cup {NoSub}]
        /\ refs \in [Keys -> Nat]
    BY Zeros, NothingIsTyped DEF Init
  <1>2. /\ pc \in [Subs -> {"idle", "waiting", "live", "failed", "closed"}]
        /\ picked \in [Requests -> Subs \cup {"idle", "returned"}]
    BY DEF Init
  <1>3. attempts \in 0 .. ReconnectMax /\ breaks \in 0 .. MaxBreaks
    BY DEF Init
  <1> QED BY <1>1, <1>2, <1>3 DEF Init, TypeOK

LEMMA TypeNext == TypeOK /\ [Next]_vars => TypeOK'
  <1> SUFFICES ASSUME TypeOK, [Next]_vars PROVE TypeOK'
    OBVIOUS
  <1> USE DEF TypeOK, loop, signals, book, calls, ending
  <1>1. CASE RunTurns
    <2>1. run' \in {"dial", "ended"} /\ conn' \in {"nil", "ok", "dead"} /\ done' \in BOOLEAN
      BY <1>1 DEF RunTurns, Ends
    <2>2. srv' \in [Keys -> Subs \cup {NoSub}]
      BY <1>1, NothingIsTyped DEF RunTurns
    <2> QED BY <1>1, <2>1, <2>2 DEF RunTurns
  <1>2. CASE DialFails
    <2>1. attempts' \in 0 .. ReconnectMax /\ run' \in {"sleep", "ended"} /\ done' \in BOOLEAN
      BY <1>2, AttemptsCounted DEF DialFails
    <2> QED BY <1>2, <2>1 DEF DialFails, SetState
  <1>3. CASE DialSucceeds
    BY <1>3 DEF DialSucceeds
  <1>4. CASE ConnectReports
    BY <1>4, Zeros DEF ConnectReports, SetState
  <1>5. CASE TakeSnapshot
    BY <1>5 DEF TakeSnapshot, SnapshotOfDetails
  <1>6. CASE SendSnapshot
    BY <1>6 DEF SendSnapshot, Nothing
  <1>7. CASE ReadFails
    <2>1. attempts' \in 0 .. ReconnectMax /\ run' \in {"sleep", "ended"} /\ done' \in BOOLEAN
      BY <1>7, AttemptsCounted DEF ReadFails, Ends
    <2> QED BY <1>7, <2>1 DEF ReadFails, SetState
  <1>8. CASE RunWakes
    BY <1>8 DEF RunWakes
  <1>9. CASE LinkBreaks
    BY <1>9 DEF LinkBreaks, Nothing
  <1>10. CASE PingFails \/ PingReports \/ PingEnds
    BY <1>10 DEF PingFails, PingReports, PingEnds, SetState
  <1>11. ASSUME NEW p \in Subs, SubscribeBegins(p) \/ SubscribeGivesUp(p) PROVE TypeOK'
    BY <1>11 DEF SubscribeBegins, SubscribeGivesUp, Goes
  <1>12. ASSUME NEW p \in Subs, Subscribe(p) PROVE TypeOK'
    <2>1. asked' \in [Keys -> SUBSET Subs]
      <3>1. Joined(p) \in SUBSET Subs
        BY DEF Joined
      <3> QED BY <1>12, <3>1 DEF Subscribe, Registers
    <2> QED BY <1>12, <2>1 DEF Subscribe, Registers, OneMore, SubscribeFrame, Goes
  <1>13. ASSUME NEW p \in Subs, CloseStream(p) PROVE TypeOK'
    BY <1>13 DEF CloseStream, UnsubscribeByID, UnsubscribeFrame, LastEntry, Goes
  <1>14. ASSUME NEW r \in Requests, PickEntry(r) PROVE TypeOK'
    BY <1>14 DEF PickEntry
  <1>15. ASSUME NEW r \in Requests, RemovePicked(r) PROVE TypeOK'
    BY <1>15 DEF RemovePicked, UnsubscribeByID, UnsubscribeFrame, LastEntry
  <1>16. CASE CloseBegins
    BY <1>16 DEF CloseBegins
  <1>17. CASE CloseReports
    BY <1>17 DEF CloseReports, SetState
  <1>21. CASE CloseSignals
    BY <1>21 DEF CloseSignals
  <1>20. CASE CloseDropsConn
    BY <1>20, NothingIsTyped DEF CloseDropsConn, CloseConn
  <1>18. CASE CloseAllSubscriptions
    BY <1>18, Zeros, NothingIsTyped DEF CloseAllSubscriptions
  <1>19. CASE UNCHANGED vars
    BY <1>19 DEF vars
  <1> QED
    BY <1>1, <1>2, <1>3, <1>4, <1>5, <1>6, <1>7, <1>8, <1>9, <1>10, <1>11, <1>12, <1>13,
       <1>14, <1>15, <1>16, <1>17, <1>18, <1>19, <1>20, <1>21
       DEF Next, RunSteps, CloseSteps, Answer

(* TypeOK is an invariant of the client.                                   *)
THEOREM TypeCorrect == Spec => []TypeOK
  BY TypeInit, TypeNext, PTL DEF Spec

-----------------------------------------------------------------------------
(* The book of subscriptions.  Counting entries is counting a finite set   *)
(* to which one stream at a time is added.                                 *)
EntriesIn(S, k) == {p \in S : KeyOf[p] = k}

LEMMA EntriesAreFinite ==
  ASSUME NEW S \in SUBSET Subs, NEW k \in Keys
  PROVE  /\ IsFiniteSet(EntriesIn(S, k))
         /\ Cardinality(EntriesIn(S, k)) \in Nat
         /\ Cardinality(EntriesIn(S, k)) = 0 <=> EntriesIn(S, k) = {}
  <1>1. EntriesIn(S, k) \subseteq Subs
    BY DEF EntriesIn
  <1>2. IsFiniteSet(EntriesIn(S, k))
    BY <1>1, FS_Subset
  <1> QED BY <1>2, FS_CardinalityType, FS_EmptySet

LEMMA EntryAdded ==
  ASSUME NEW S \in SUBSET Subs, NEW p \in Subs \ S, NEW k \in Keys
  PROVE  Cardinality(EntriesIn(S \cup {p}, k)) =
             Cardinality(EntriesIn(S, k)) + (IF KeyOf[p] = k THEN 1 ELSE 0)
  <1>1. CASE KeyOf[p] = k
    <2>1. EntriesIn(S \cup {p}, k) = EntriesIn(S, k) \cup {p}
      BY <1>1 DEF EntriesIn
    <2>2. p \notin EntriesIn(S, k)
      BY DEF EntriesIn
    <2>3. IsFiniteSet(EntriesIn(S, k))
      BY EntriesAreFinite
    <2>4. Cardinality(EntriesIn(S, k) \cup {p}) = Cardinality(EntriesIn(S, k)) + 1
      BY <2>2, <2>3, FS_AddElement
    <2> QED BY <1>1, <2>1, <2>4
  <1>2. CASE KeyOf[p] # k
    <2>1. EntriesIn(S \cup {p}, k) = EntriesIn(S, k)
      BY <1>2 DEF EntriesIn
    <2>2. Cardinality(EntriesIn(S, k)) \in Nat
      BY EntriesAreFinite
    <2> QED BY <1>2, <2>1, <2>2
  <1> QED BY <1>1, <1>2

LEMMA EntryRemoved ==
  ASSUME NEW S \in SUBSET Subs, NEW p \in S, NEW k \in Keys
  PROVE  Cardinality(EntriesIn(S, k)) =
             Cardinality(EntriesIn(S \ {p}, k)) + (IF KeyOf[p] = k THEN 1 ELSE 0)
  <1>1. S \ {p} \in SUBSET Subs /\ p \in Subs \ (S \ {p}) /\ (S \ {p}) \cup {p} = S
    OBVIOUS
  <1>2. Cardinality(EntriesIn((S \ {p}) \cup {p}, k)) =
            Cardinality(EntriesIn(S \ {p}, k)) + (IF KeyOf[p] = k THEN 1 ELSE 0)
    BY <1>1, EntryAdded
  <1> QED BY <1>1, <1>2

(* With exact counts, the keys that are counted are those of the streams.  *)
LEMMA CountedKeys ==
  ASSUME NEW S \in SUBSET Subs, NEW count,
         \A k \in Keys : count[k] = Cardinality(EntriesIn(S, k))
  PROVE  {k \in Keys : count[k] > 0} = {KeyOf[p] : p \in S}
  <1>1. ASSUME NEW k \in Keys PROVE count[k] > 0 <=> \E p \in S : KeyOf[p] = k
    <2>1. count[k] \in Nat /\ (count[k] = 0 <=> EntriesIn(S, k) = {})
      BY EntriesAreFinite
    <2>2. EntriesIn(S, k) = {} <=> ~ \E p \in S : KeyOf[p] = k
      BY DEF EntriesIn
    <2> QED BY <2>1, <2>2
  <1>2. \A p \in S : KeyOf[p] \in Keys
    OBVIOUS
  <1> QED BY <1>1, <1>2

(* The inductive invariant: the counts are exact, and a call has no entry  *)
(* before it returned its stream, so every entry is counted once.          *)
Registered == \A p \in subs : pc[p] = "live"

BookInv == TypeOK /\ RefsMatchEntries /\ Registered

LEMMA BookInit == Init => BookInv
  <1> SUFFICES ASSUME Init PROVE BookInv
    OBVIOUS
  <1>1. TypeOK
    BY TypeInit
  <1>2. ASSUME NEW k \in Keys PROVE refs[k] = Cardinality(Entries(k)) /\ detail[k] = NoSub
    <2>1. Entries(k) = {}
      BY DEF Init, Entries
    <2> QED BY <2>1, FS_EmptySet DEF Init, Nothing
  <1>3. RefsMatchEntries
    BY <1>1, <1>2 DEF RefsMatchEntries, Init
  <1> QED BY <1>1, <1>3 DEF BookInv, Registered, Init

(* A new stream is counted.                                                *)
LEMMA RegistersKeepsBook ==
  ASSUME BookInv, TypeOK', NEW p \in Subs, pc[p] = "waiting", Registers(p)
  PROVE  BookInv'
  <1>1. p \notin subs
    BY DEF BookInv, Registered
  <1>2. subs \in SUBSET Subs /\ KeyOf[p] \in Keys
    BY DEF BookInv, TypeOK
  <1>3. ASSUME NEW k \in Keys
        PROVE  /\ refs'[k] = Cardinality(Entries(k)')
               /\ detail'[k] = NoSub <=> refs'[k] = 0
               /\ detail'[k] # NoSub => KeyOf[detail'[k]] = k
    <2>1. Entries(k) = EntriesIn(subs, k) /\ Entries(k)' = EntriesIn(subs \cup {p}, k)
      BY DEF Entries, EntriesIn, Registers
    <2>2. Cardinality(Entries(k)') =
              Cardinality(Entries(k)) + (IF KeyOf[p] = k THEN 1 ELSE 0)
      BY <1>1, <1>2, <2>1, EntryAdded
    <2>3. /\ refs[k] = Cardinality(Entries(k)) /\ refs[k] \in Nat
          /\ detail[k] = NoSub <=> refs[k] = 0
          /\ detail[k] # NoSub => KeyOf[detail[k]] = k
      BY DEF BookInv, RefsMatchEntries, TypeOK
    <2>4. CASE KeyOf[p] = k
      <3>1. refs'[k] = refs[k] + 1 /\ detail'[k] = p
        BY <2>4 DEF Registers, OneMore, BookInv, TypeOK
      <3>2. p # NoSub
        OBVIOUS
      <3> QED BY <2>2, <2>3, <2>4, <3>1, <3>2
    <2>5. CASE KeyOf[p] # k
      <3>1. refs'[k] = refs[k] /\ detail'[k] = detail[k]
        BY <2>5 DEF Registers, OneMore, BookInv, TypeOK
      <3> QED BY <2>2, <2>3, <2>5, <3>1
    <2> QED BY <2>4, <2>5
  <1>4. RefsMatchEntries'
    BY <1>3 DEF RefsMatchEntries
  <1>5. Registered'
    BY DEF Registered, Registers, Goes, BookInv, TypeOK
  <1> QED BY <1>4, <1>5 DEF BookInv

(* A stream that goes is counted out, once; with the last stream of a key  *)
(* goes what would restore its subscription.                               *)
LEMMA UnsubscribeKeepsCounts ==
  ASSUME BookInv, NEW p \in Subs, UnsubscribeByID(p)
  PROVE  RefsMatchEntries' /\ p \notin subs' /\ subs' \subseteq subs
  <1>1. CASE p \notin subs
    BY <1>1 DEF UnsubscribeByID, book, BookInv, RefsMatchEntries, Entries
  <1>2. CASE p \in subs
    <2>1. subs \in SUBSET Subs /\ KeyOf[p] \in Keys /\ subs' = subs \ {p}
      BY <1>2 DEF BookInv, TypeOK, UnsubscribeByID
    <2>2. ASSUME NEW k \in Keys
          PROVE  /\ refs'[k] = Cardinality(Entries(k)')
                 /\ detail'[k] = NoSub <=> refs'[k] = 0
                 /\ detail'[k] # NoSub => KeyOf[detail'[k]] = k
      <3>1. Entries(k) = EntriesIn(subs, k) /\ Entries(k)' = EntriesIn(subs \ {p}, k)
        BY <2>1 DEF Entries, EntriesIn
      <3>2. Cardinality(Entries(k)) =
                Cardinality(Entries(k)') + (IF KeyOf[p] = k THEN 1 ELSE 0)
        BY <1>2, <2>1, <3>1, EntryRemoved
      <3>3. Cardinality(Entries(k)') \in Nat
        BY <2>1, <3>1, EntriesAreFinite
      <3>4. /\ refs[k] = Cardinality(Entries(k)) /\ refs[k] \in Nat
            /\ detail[k] = NoSub <=> refs[k] = 0
            /\ detail[k] # NoSub => KeyOf[detail[k]] = k
        BY DEF BookInv, RefsMatchEntries, TypeOK
      <3>5. CASE KeyOf[p] = k /\ refs[k] <= 1
        <4>1. refs'[k] = 0 /\ detail'[k] = NoSub
          BY <1>2, <3>5 DEF UnsubscribeByID, LastEntry, BookInv, TypeOK
        <4> QED BY <3>2, <3>3, <3>4, <3>5, <4>1
      <3>6. CASE KeyOf[p] = k /\ ~(refs[k] <= 1)
        <4>1. refs'[k] = refs[k] - 1 /\ detail'[k] = detail[k]
          BY <1>2, <3>6 DEF UnsubscribeByID, LastEntry, BookInv, TypeOK
        <4> QED BY <3>2, <3>3, <3>4, <3>6, <4>1
      <3>7. CASE KeyOf[p] # k
        <4>1. refs'[k] = refs[k] /\ detail'[k] = detail[k]
          BY <1>2, <3>7 DEF UnsubscribeByID, BookInv, TypeOK
        <4> QED BY <3>2, <3>3, <3>4, <3>7, <4>1
      <3> QED BY <3>5, <3>6, <3>7
    <2> QED BY <2>1, <2>2 DEF RefsMatchEntries
  <1> QED BY <1>1, <1>2

LEMMA BookNext == BookInv /\ [Next]_vars => BookInv'
  <1> SUFFICES ASSUME BookInv, [Next]_vars PROVE BookInv'
    OBVIOUS
  <1>1. TypeOK /\ TypeOK'
    BY TypeNext DEF BookInv
  <1>2. ASSUME UNCHANGED book, UNCHANGED pc \/ \E p \in Subs \ subs : \E there : Goes(p, there)
        PROVE  BookInv'
    <2>1. RefsMatchEntries'
      BY <1>2 DEF book, BookInv, RefsMatchEntries, Entries
    <2>2. Registered'
      BY <1>1, <1>2 DEF book, BookInv, Registered, Goes, TypeOK
    <2> QED BY <1>1, <2>1, <2>2 DEF BookInv
  <1>3. CASE RunSteps \/ LinkBreaks \/ PingFails \/ PingReports \/ PingEnds
    BY <1>2, <1>3 DEF RunSteps, RunTurns, DialFails, DialSucceeds, ConnectReports,
       TakeSnapshot, SendSnapshot, ReadFails, RunWakes, LinkBreaks, PingFails,
       PingReports, PingEnds, calls
  <1>4. ASSUME NEW p \in Subs, SubscribeBegins(p) \/ SubscribeGivesUp(p) PROVE BookInv'
    <2>1. p \notin subs
      BY <1>4 DEF SubscribeBegins, SubscribeGivesUp, BookInv, Registered
    <2> QED BY <1>2, <1>4, <2>1 DEF SubscribeBegins, SubscribeGivesUp
  <1>5. ASSUME NEW p \in Subs, Subscribe(p) PROVE BookInv'
    <2>1. p \notin subs /\ pc[p] = "waiting"
      BY <1>5 DEF Subscribe, BookInv, Registered
    <2>2. CASE Registers(p)
      BY <1>1, <2>1, <2>2, RegistersKeepsBook
    <2>3. CASE Goes(p, "failed") /\ UNCHANGED book
      BY <1>2, <2>1, <2>3
    <2> QED BY <1>5, <2>2, <2>3 DEF Subscribe
  <1>6. ASSUME NEW p \in Subs, CloseStream(p) PROVE BookInv'
    <2>1. RefsMatchEntries' /\ p \notin subs' /\ subs' \subseteq subs
      BY <1>6, UnsubscribeKeepsCounts DEF CloseStream
    <2>2. Registered'
      BY <1>1, <1>6, <2>1 DEF CloseStream, Goes, BookInv, Registered, TypeOK
    <2> QED BY <1>1, <2>1, <2>2 DEF BookInv
  <1>7. ASSUME NEW r \in Requests, PickEntry(r) PROVE BookInv'
    BY <1>2, <1>7 DEF PickEntry
  <1>8. ASSUME NEW r \in Requests, RemovePicked(r) PROVE BookInv'
    <2>1. RefsMatchEntries' /\ subs' \subseteq subs
      BY <1>8, UnsubscribeKeepsCounts DEF RemovePicked
    <2>2. Registered'
      BY <1>8, <2>1 DEF RemovePicked, BookInv, Registered
    <2> QED BY <1>1, <2>1, <2>2 DEF BookInv
  <1>9. CASE CloseBegins \/ CloseReports \/ CloseDropsConn \/ CloseSignals
    BY <1>2, <1>9 DEF CloseBegins, CloseReports, CloseDropsConn, CloseSignals, calls
  <1>10. CASE CloseAllSubscriptions
    <2>1. ASSUME NEW k \in Keys PROVE Entries(k)' = {} /\ refs'[k] = 0 /\ detail'[k] = NoSub
      BY <1>10 DEF CloseAllSubscriptions, Entries, Nothing
    <2>2. RefsMatchEntries'
      BY <2>1, FS_EmptySet DEF RefsMatchEntries
    <2>3. Registered'
      BY <1>10 DEF CloseAllSubscriptions, Registered
    <2> QED BY <1>1, <2>2, <2>3 DEF BookInv
  <1>11. CASE UNCHANGED vars
    BY <1>2, <1>11 DEF vars, calls
  <1> QED
    BY <1>3, <1>4, <1>5, <1>6, <1>7, <1>8, <1>9, <1>10, <1>11 DEF Next, CloseSteps, Answer

(* The count of a key is the number of its open streams, and what would    *)
(* restore its subscription is there exactly while it is counted, for any  *)
(* streams, unsubscribe requests, reconnects and Close.                    *)
THEOREM RefsAreExact == Spec => []RefsMatchEntries
  <1>1. BookInv => RefsMatchEntries
    BY DEF BookInv
  <1> QED BY BookInit, BookNext, <1>1, PTL DEF Spec

-----------------------------------------------------------------------------
(* The refinement: with exact counts, the keys counted are the keys of the *)
(* open streams before and after every step.                               *)
LEMMA WantedAreKeys ==
  BookInv => {k \in Keys : refs[k] > 0} = {KeyOf[p] : p \in subs}
  BY CountedKeys DEF BookInv, TypeOK, RefsMatchEntries, Entries, EntriesIn

LEMMA WantedAreKeysNext ==
  BookInv' => {k \in Keys : refs'[k] > 0} = {KeyOf[p] : p \in subs'}
  BY CountedKeys DEF BookInv, TypeOK, RefsMatchEntries, Entries, EntriesIn

(* What a step does to the set of streams makes it a step of the book.     *)
LEMMA StreamsDecide ==
  ASSUME BookInv, BookInv',
         \/ subs' = subs \/ subs' = {}
         \/ \E p \in Subs : subs' = subs \cup {p} \/ subs' = subs \ {p}
  PROVE  [Book!Next]_Book!vars
  <1> DEFINE W == {k \in Keys : refs[k] > 0}
  <1>1. W = {KeyOf[p] : p \in subs} /\ W' = {KeyOf[p] : p \in subs'}
    BY WantedAreKeys, WantedAreKeysNext
  <1> HIDE DEF W
  <1>2. CASE subs' = subs
    BY <1>1, <1>2 DEF Book!vars, W
  <1>3. CASE subs' = {}
    <2>1. W' = {}
      BY <1>1, <1>3
    <2> QED BY <1>3, <2>1 DEF Book!Next, Book!ReleaseAll, W
  <1>4. ASSUME NEW p \in Subs, subs' = subs \cup {p} PROVE Book!Open(p)
    <2>1. W' = W \cup {KeyOf[p]}
      BY <1>1, <1>4
    <2> QED BY <1>4, <2>1 DEF Book!Open, W
  <1>5. ASSUME NEW p \in Subs, subs' = subs \ {p} PROVE Book!Release(p)
    BY <1>1, <1>5 DEF Book!Release, Book!KeysOf, W
  <1> QED BY <1>2, <1>3, <1>4, <1>5 DEF Book!Next

LEMMA StreamsChange ==
  ASSUME [Next]_vars
  PROVE  \/ subs' = subs \/ subs' = {}
         \/ \E p \in Subs : subs' = subs \cup {p} \/ subs' = subs \ {p}
  <1> USE DEF book, calls
  <1>1. CASE RunSteps \/ LinkBreaks \/ PingFails \/ PingReports \/ PingEnds
    BY <1>1 DEF RunSteps, RunTurns, DialFails, DialSucceeds, ConnectReports,
       TakeSnapshot, SendSnapshot, ReadFails, RunWakes, LinkBreaks, PingFails,
       PingReports, PingEnds
  <1>2. ASSUME NEW p \in Subs, SubscribeBegins(p) \/ SubscribeGivesUp(p) PROVE subs' = subs
    BY <1>2 DEF SubscribeBegins, SubscribeGivesUp
  <1>3. ASSUME NEW p \in Subs, Subscribe(p) PROVE subs' = subs \/ subs' = subs \cup {p}
    BY <1>3 DEF Subscribe, Registers
  <1>4. ASSUME NEW p \in Subs, UnsubscribeByID(p) PROVE subs' = subs \/ subs' = subs \ {p}
    BY <1>4 DEF UnsubscribeByID
  <1>5. ASSUME NEW p \in Subs, CloseStream(p) PROVE subs' = subs \/ subs' = subs \ {p}
    BY <1>4, <1>5 DEF CloseStream
  <1>6. ASSUME NEW r \in Requests, PickEntry(r) PROVE subs' = subs
    BY <1>6 DEF PickEntry
  <1>7. ASSUME NEW r \in Requests, RemovePicked(r)
        PROVE  \E p \in Subs : subs' = subs \/ subs' = subs \ {p}
    BY <1>4, <1>7 DEF RemovePicked
  <1>8. CASE CloseBegins \/ CloseSteps
    BY <1>8 DEF CloseBegins, CloseSteps, CloseReports, CloseDropsConn,
       CloseAllSubscriptions, CloseSignals
  <1>9. CASE UNCHANGED vars
    BY <1>9 DEF vars
  <1> QED BY <1>1, <1>2, <1>3, <1>5, <1>6, <1>7, <1>8, <1>9 DEF Next, Answer

(* The client implements the book: a key is counted as long as one of its  *)
(* streams is open and no longer, whatever reconnects, unsubscribe         *)
(* requests, closes of streams and Close interleave.                       *)
THEOREM BookIsImplemented == Spec => ImplementsBook
  <1>1. Init => Book!Init
    BY DEF Init, Book!Init
  <1>2. BookInv /\ BookInv' /\ [Next]_vars => [Book!Next]_Book!vars
    BY StreamsChange, StreamsDecide
  <1>3. Spec => []BookInv
    BY BookInit, BookNext, PTL DEF Spec
  <1> QED BY <1>1, <1>2, <1>3, PTL DEF Spec, ImplementsBook, Book!Spec

-----------------------------------------------------------------------------
(* Close.  Once it has begun, run does not dial again, so the connection   *)
(* it drops is the last one; a Subscribe that comes late finds no counted  *)
(* key and no connection, and opens nothing.                               *)
CloseInv ==
    ~midDial =>
        /\ closing => run # "dial"
        /\ closer \in {"subs", "signal", "returned"} => conn = "nil"
        /\ closer \in {"signal", "returned"} => subs = {}

LEMMA CountedHasStream ==
  ASSUME BookInv, NEW k \in Keys
  PROVE  refs[k] > 0 <=> \E p \in subs : KeyOf[p] = k
  BY WantedAreKeys

LEMMA CloseNext == BookInv /\ CloseInv /\ [Next]_vars => CloseInv'
  <1> SUFFICES ASSUME BookInv, CloseInv, [Next]_vars PROVE CloseInv'
    OBVIOUS
  <1> USE DEF CloseInv, closing
  <1>1. CASE RunTurns
    BY <1>1 DEF RunTurns, Ends, book, ending
  <1>2. CASE RunSteps /\ ~RunTurns
    BY <1>2 DEF RunSteps, DialFails, Retries, GivesUp, Ends, DialSucceeds,
       ConnectReports, TakeSnapshot, SendSnapshot, ReadFails, RunWakes, book, ending
  <1>3. CASE LinkBreaks \/ PingFails \/ PingReports \/ PingEnds
    BY <1>3 DEF LinkBreaks, PingFails, PingReports, PingEnds, loop, book, ending
  <1>4. ASSUME NEW p \in Subs, SubscribeBegins(p) \/ SubscribeGivesUp(p) PROVE CloseInv'
    BY <1>4 DEF SubscribeBegins, SubscribeGivesUp, loop, book, ending
  <1>5. ASSUME NEW p \in Subs, Subscribe(p) PROVE CloseInv'
    <2>1. CASE closer \in {"signal", "returned"} /\ ~midDial
      <3>1. ~(refs[KeyOf[p]] > 0) /\ conn = "nil"
        BY <2>1, CountedHasStream DEF BookInv, TypeOK
      <3> QED BY <1>5, <3>1 DEF Subscribe, loop, book, ending
    <2>2. CASE ~(closer \in {"signal", "returned"} /\ ~midDial)
      BY <1>5, <2>2 DEF Subscribe, loop, ending
    <2> QED BY <2>1, <2>2
  <1>6. ASSUME NEW p \in Subs, CloseStream(p) PROVE CloseInv'
    BY <1>6 DEF CloseStream, UnsubscribeByID, loop, book, ending
  <1>7. ASSUME NEW r \in Requests, PickEntry(r) PROVE CloseInv'
    BY <1>7 DEF PickEntry, loop, book, ending
  <1>8. ASSUME NEW r \in Requests, RemovePicked(r) PROVE CloseInv'
    BY <1>8 DEF RemovePicked, UnsubscribeByID, loop, book, ending
  <1>9. CASE CloseBegins
    BY <1>9 DEF CloseBegins, loop, book
  <1>10. CASE CloseReports \/ CloseDropsConn \/ CloseAllSubscriptions \/ CloseSignals
    BY <1>10 DEF CloseReports, CloseDropsConn, CloseConn, CloseAllSubscriptions,
       CloseSignals, loop, book
  <1>11. CASE UNCHANGED vars
    BY <1>11 DEF vars, loop, book, ending
  <1> QED
    BY <1>1, <1>2, <1>3, <1>4, <1>5, <1>6, <1>7, <1>8, <1>9, <1>10, <1>11
       DEF Next, CloseSteps, Answer

(* Close of a client that is not dialing leaves no connection and no open  *)
(* stream, for any number of Subscribe calls under way.                    *)
THEOREM CloseIsComplete == Spec => []CloseLeavesNothing
  <1>1. Init => CloseInv
    BY DEF Init, CloseInv, closing
  <1>2. CloseInv => CloseLeavesNothing
    BY DEF CloseInv, CloseLeavesNothing
  <1> QED BY BookInit, BookNext, CloseNext, <1>1, <1>2, PTL DEF Spec

-----------------------------------------------------------------------------
(* The end of the wait.  run ends in two places and Close in one, each of  *)
(* which closes done; neither starts again.                                *)
LEMMA RetriesEndIfDone ==
  ASSUME Retries \/ GivesUp, done \in BOOLEAN, run # "ended"
  PROVE  \/ run' = "sleep" /\ done' = done
         \/ run' = "ended" /\ done'
  BY DEF Retries, GivesUp, Ends

LEMMA DoneNext == TypeOK /\ DoneMeansOver /\ [Next]_vars => DoneMeansOver'
  <1> SUFFICES ASSUME TypeOK, DoneMeansOver, [Next]_vars PROVE DoneMeansOver'
    OBVIOUS
  <1> USE DEF DoneMeansOver, loop, signals, ending
  <1>t. done \in BOOLEAN
    BY DEF TypeOK
  <1>1. CASE RunTurns
    BY <1>1 DEF RunTurns, Ends
  <1>2. CASE DialFails
    BY <1>t, <1>2, RetriesEndIfDone DEF DialFails
  <1>3. CASE ReadFails
    <2>1. CASE closing /\ Ends
      BY <2>1 DEF Ends
    <2>2. CASE Retries \/ GivesUp
      BY <1>t, <1>3, <2>2, RetriesEndIfDone DEF ReadFails
    <2> QED BY <1>3, <2>1, <2>2 DEF ReadFails
  <1>4. CASE DialSucceeds \/ ConnectReports \/ TakeSnapshot \/ SendSnapshot \/ RunWakes
    BY <1>4 DEF DialSucceeds, ConnectReports, TakeSnapshot, SendSnapshot, RunWakes
  <1>5. CASE LinkBreaks \/ PingFails \/ PingReports \/ PingEnds
    BY <1>5 DEF LinkBreaks, PingFails, PingReports, PingEnds
  <1>6. ASSUME NEW p \in Subs, SubscribeBegins(p) \/ Answer(p) \/ CloseStream(p)
        PROVE  DoneMeansOver'
    BY <1>6 DEF SubscribeBegins, Answer, Subscribe, SubscribeGivesUp, CloseStream
  <1>7. ASSUME NEW r \in Requests, PickEntry(r) \/ RemovePicked(r) PROVE DoneMeansOver'
    BY <1>7 DEF PickEntry, RemovePicked
  <1>8. CASE CloseBegins \/ CloseReports \/ CloseDropsConn \/ CloseAllSubscriptions
    BY <1>8 DEF CloseBegins, CloseReports, CloseDropsConn, CloseAllSubscriptions
  <1>9. CASE CloseSignals \/ UNCHANGED vars
    BY <1>9 DEF CloseSignals, vars
  <1> QED
    BY <1>1, <1>2, <1>3, <1>4, <1>5, <1>6, <1>7, <1>8, <1>9
       DEF Next, RunSteps, CloseSteps

(* done is closed exactly when run has ended or Close has returned: what   *)
(* a Subscribe that waits for the first connection depends on.             *)
THEOREM DoneIsExact == Spec => []DoneMeansOver
  <1>1. Init => DoneMeansOver
    BY DEF Init, DoneMeansOver
  <1> QED BY <1>1, DoneNext, TypeCorrect, PTL DEF Spec

-----------------------------------------------------------------------------
(* Reconnects.  While resubscribeAll writes, an open stream's key is with  *)
(* the server or in the snapshot that is about to be written.              *)
Keyed(f) == \A k \in Keys : f[k] # NoSub => KeyOf[f[k]] = k

ServedInv ==
    /\ Keyed(srv) /\ Keyed(snap)
    /\ conn = "ok" /\ run = "read" => \A p \in subs : srv[KeyOf[p]] # NoSub
    /\ conn = "ok" /\ run = "resend" =>
           \A p \in subs : srv[KeyOf[p]] # NoSub \/ snap[KeyOf[p]] # NoSub

LEMMA OpenHasDetail ==
  ASSUME BookInv, NEW p \in subs
  PROVE  KeyOf[p] \in Keys /\ refs[KeyOf[p]] > 0 /\ detail[KeyOf[p]] # NoSub
  <1>1. KeyOf[p] \in Keys
    BY DEF BookInv, TypeOK
  <1>2. refs[KeyOf[p]] > 0
    BY <1>1, CountedHasStream
  <1>3. detail[KeyOf[p]] # NoSub
    BY <1>1, <1>2 DEF BookInv, RefsMatchEntries
  <1> QED BY <1>1, <1>2, <1>3

LEMMA OpenIsCountedNext ==
  ASSUME BookInv', NEW p \in subs'
  PROVE  refs'[KeyOf[p]] > 0
  <1>1. KeyOf[p] \in Keys
    BY DEF BookInv, TypeOK
  <1> QED BY <1>1, WantedAreKeysNext

LEMMA UnsubscribeKeepsServed ==
  ASSUME BookInv, BookInv', ServedInv, NEW p \in Subs, UnsubscribeByID(p),
         UNCHANGED <<conn, loop>>
  PROVE  ServedInv'
  <1> USE DEF loop, ServedInv, Keyed
  <1>1. CASE UNCHANGED srv /\ subs' \subseteq subs
    BY <1>1
  <1>2. CASE UnsubscribeFrame(KeyOf[p]) /\ refs' = [refs EXCEPT ![KeyOf[p]] = 0]
                                        /\ subs' = subs \ {p}
    <2>1. refs'[KeyOf[p]] = 0 /\ KeyOf[p] \in Keys
      BY <1>2 DEF BookInv, TypeOK
    <2>2. \A q \in subs' : KeyOf[q] # KeyOf[p] /\ KeyOf[q] \in Keys
      BY <2>1, OpenIsCountedNext DEF BookInv, TypeOK
    <2>3. \A k \in Keys \ {KeyOf[p]} : srv'[k] = srv[k]
      BY <1>2 DEF UnsubscribeFrame, BookInv, TypeOK
    <2>4. srv'[KeyOf[p]] \in {NoSub, srv[KeyOf[p]]}
      BY <1>2, <2>1 DEF UnsubscribeFrame, BookInv, TypeOK
    <2> QED BY <1>2, <2>1, <2>2, <2>3, <2>4
  <1> QED BY <1>1, <1>2 DEF UnsubscribeByID, book

LEMMA ServedNext == BookInv /\ BookInv' /\ ServedInv /\ [Next]_vars => ServedInv'
  <1> SUFFICES ASSUME BookInv, BookInv', ServedInv, [Next]_vars PROVE ServedInv'
    OBVIOUS
  <1> USE DEF ServedInv, Keyed
  <1>1. CASE RunTurns \/ DialFails \/ DialSucceeds \/ ConnectReports \/ RunWakes
    BY <1>1 DEF RunTurns, Ends, DialFails, Retries, GivesUp, DialSucceeds, ConnectReports,
       RunWakes, Nothing, book
  <1>2. CASE TakeSnapshot
    <2>1. Keyed(detail)
      BY DEF BookInv, RefsMatchEntries
    <2>2. \A p \in subs : detail[KeyOf[p]] # NoSub /\ KeyOf[p] \in Keys
      BY OpenHasDetail
    <2>3. detail = Nothing => subs = {}
      BY <2>2 DEF Nothing
    <2> QED BY <1>2, <2>1, <2>2, <2>3 DEF TakeSnapshot, SnapshotOfDetails, book
  <1>3. CASE SendSnapshot
    <2>1. \A p \in subs : KeyOf[p] \in Keys
      BY OpenHasDetail
    <2> QED BY <1>3, <2>1 DEF SendSnapshot, Nothing, book
  <1>4. CASE ReadFails
    BY <1>4 DEF ReadFails, Retries, GivesUp, Ends, book
  <1>5. CASE LinkBreaks
    BY <1>5 DEF LinkBreaks, Nothing, loop, book
  <1>6. CASE PingFails \/ PingReports \/ PingEnds
    BY <1>6 DEF PingFails, PingReports, PingEnds, loop, book
  <1>7. ASSUME NEW p \in Subs, SubscribeBegins(p) \/ SubscribeGivesUp(p) PROVE ServedInv'
    BY <1>7 DEF SubscribeBegins, SubscribeGivesUp, loop, book
  <1>8. ASSUME NEW p \in Subs, Subscribe(p) PROVE ServedInv'
    <2>1. KeyOf[p] \in Keys /\ \A q \in subs : KeyOf[q] \in Keys
      BY OpenHasDetail
    <2>2. CASE refs[KeyOf[p]] > 0 /\ Registers(p) /\ UNCHANGED srv
      <3>1. PICK q \in subs : KeyOf[q] = KeyOf[p]
        BY <2>1, <2>2, CountedHasStream
      <3> QED BY <1>8, <2>2, <3>1 DEF Subscribe, Registers, loop
    <2>3. CASE SubscribeFrame(p) /\ Registers(p)
      <3>1. conn = "ok" => srv'[KeyOf[p]] = p /\ p # NoSub
        BY <2>1, <2>3 DEF SubscribeFrame, BookInv, TypeOK
      <3>2. \A k \in Keys \ {KeyOf[p]} : srv'[k] = srv[k]
        BY <2>1, <2>3 DEF SubscribeFrame, BookInv, TypeOK
      <3>3. conn # "ok" => srv' = srv
        BY <2>3 DEF SubscribeFrame
      <3> QED BY <1>8, <2>1, <2>3, <3>1, <3>2, <3>3 DEF Subscribe, Registers, loop
    <2>4. CASE UNCHANGED <<srv, book>>
      BY <1>8, <2>4 DEF Subscribe, loop, book
    <2> QED BY <1>8, <2>2, <2>3, <2>4 DEF Subscribe
  <1>9. ASSUME NEW p \in Subs, CloseStream(p) PROVE ServedInv'
    BY <1>9, UnsubscribeKeepsServed DEF CloseStream
  <1>10. ASSUME NEW r \in Requests, PickEntry(r) PROVE ServedInv'
    BY <1>10 DEF PickEntry, loop, book
  <1>11. ASSUME NEW r \in Requests, RemovePicked(r) PROVE ServedInv'
    BY <1>11, UnsubscribeKeepsServed DEF RemovePicked
  <1>12. CASE CloseBegins \/ CloseReports \/ CloseSignals
    BY <1>12 DEF CloseBegins, CloseReports, CloseSignals, loop, book
  <1>13. CASE CloseDropsConn
    BY <1>13 DEF CloseDropsConn, CloseConn, Nothing, loop, book
  <1>14. CASE CloseAllSubscriptions
    BY <1>14 DEF CloseAllSubscriptions, loop
  <1>15. CASE UNCHANGED vars
    BY <1>15 DEF vars, loop, book
  <1> QED
    BY <1>1, <1>2, <1>3, <1>4, <1>5, <1>6, <1>7, <1>8, <1>9, <1>10, <1>11, <1>12, <1>13,
       <1>14, <1>15
       DEF Next, RunSteps, CloseSteps, Answer

(* What the server and the snapshot have of a key with streams was asked   *)
(* for by one of them, also if all streams of before are gone meanwhile.   *)
AskedInv ==
    /\ conn # "ok" => srv = Nothing
    /\ \A k \in Keys : refs[k] > 0 =>
           /\ detail[k] \in asked[k]
           /\ srv[k] # NoSub => srv[k] \in asked[k]
           /\ snap[k] # NoSub => snap[k] \in asked[k]

LEMMA UnsubscribeKeepsAsked ==
  ASSUME TypeOK, AskedInv, NEW p \in Subs, UnsubscribeByID(p), UNCHANGED <<conn, loop>>
  PROVE  AskedInv'
  <1> USE DEF AskedInv, Nothing, loop
  <1>1. UNCHANGED asked /\ KeyOf[p] \in Keys
    BY DEF UnsubscribeByID, book, TypeOK
  <1>2. \A k \in Keys : refs'[k] > 0 => refs[k] > 0 /\ detail'[k] = detail[k]
    <2>1. CASE UNCHANGED book
      BY <2>1 DEF book
    <2>2. CASE LastEntry(KeyOf[p]) /\ refs' = [refs EXCEPT ![KeyOf[p]] = 0]
               /\ detail' = [detail EXCEPT ![KeyOf[p]] = NoSub]
      BY <1>1, <2>2 DEF TypeOK
    <2>3. CASE ~LastEntry(KeyOf[p]) /\ refs' = [refs EXCEPT ![KeyOf[p]] = @ - 1]
               /\ UNCHANGED detail
      BY <1>1, <2>3 DEF TypeOK, LastEntry
    <2> QED BY <2>1, <2>2, <2>3 DEF UnsubscribeByID
  <1>3. \A k \in Keys : srv'[k] \in {srv[k], NoSub}
    BY <1>1 DEF UnsubscribeByID, UnsubscribeFrame, TypeOK
  <1>4. conn # "ok" => srv' = srv
    BY DEF UnsubscribeByID, UnsubscribeFrame
  <1> QED BY <1>1, <1>2, <1>3, <1>4

LEMMA AskedNext == BookInv /\ AskedInv /\ [Next]_vars => AskedInv'
  <1> SUFFICES ASSUME BookInv, AskedInv, [Next]_vars PROVE AskedInv'
    OBVIOUS
  <1> USE DEF AskedInv, Nothing
  <1>1. CASE RunTurns \/ DialFails \/ DialSucceeds \/ ConnectReports \/ RunWakes
    BY <1>1 DEF RunTurns, Ends, DialFails, Retries, GivesUp, DialSucceeds, ConnectReports,
       RunWakes, book
  <1>2. CASE TakeSnapshot
    BY <1>2 DEF TakeSnapshot, SnapshotOfDetails, book
  <1>3. CASE SendSnapshot
    <2>1. \A k \in Keys : srv'[k] \in {srv[k], snap[k]} /\ snap'[k] = NoSub
      BY <1>3 DEF SendSnapshot, BookInv, TypeOK
    <2>2. conn # "ok" => srv' = srv
      BY <1>3 DEF SendSnapshot
    <2> QED BY <1>3, <2>1, <2>2 DEF SendSnapshot, book
  <1>4. CASE ReadFails
    BY <1>4 DEF ReadFails, Retries, GivesUp, Ends, book
  <1>5. CASE LinkBreaks
    BY <1>5 DEF LinkBreaks, loop, book
  <1>6. CASE PingFails \/ PingReports \/ PingEnds
    BY <1>6 DEF PingFails, PingReports, PingEnds, loop, book
  <1>7. ASSUME NEW p \in Subs, SubscribeBegins(p) \/ SubscribeGivesUp(p) PROVE AskedInv'
    BY <1>7 DEF SubscribeBegins, SubscribeGivesUp, loop, book
  <1>8. ASSUME NEW p \in Subs, Subscribe(p) PROVE AskedInv'
    <2> DEFINE k == KeyOf[p]
    <2>1. k \in Keys /\ p # NoSub
      BY DEF BookInv, TypeOK
    <2>2. UNCHANGED <<conn, snap>>
      BY <1>8 DEF Subscribe, loop
    <2>3. CASE Registers(p)
      <3>1. \A j \in Keys \ {k} : /\ refs'[j] = refs[j] /\ detail'[j] = detail[j]
                                  /\ asked'[j] = asked[j] /\ srv'[j] = srv[j]
        BY <1>8, <2>1, <2>3 DEF Subscribe, SubscribeFrame, Registers, OneMore, BookInv, TypeOK
      <3>2. detail'[k] = p /\ asked'[k] = Joined(p) /\ p \in Joined(p)
        BY <2>1, <2>3 DEF Registers, Joined, BookInv, TypeOK
      <3>3. srv'[k] # NoSub => srv'[k] \in Joined(p)
        <4>1. CASE refs[k] > 0 /\ UNCHANGED srv
          BY <2>1, <4>1 DEF Joined
        <4>2. CASE SubscribeFrame(p)
          BY <2>1, <3>2, <4>2 DEF SubscribeFrame, BookInv, TypeOK
        <4>3. Registers(p) => ~(UNCHANGED book)
          BY <2>1 DEF Registers, OneMore, book, BookInv, TypeOK
        <4> QED BY <1>8, <2>3, <4>1, <4>2, <4>3 DEF Subscribe
      <3>4. snap'[k] # NoSub => snap'[k] \in Joined(p)
        BY <2>1, <2>2 DEF Joined
      <3>5. conn # "ok" => srv' = srv
        BY <1>8 DEF Subscribe, SubscribeFrame
      <3> QED BY <2>1, <2>2, <3>1, <3>2, <3>3, <3>4, <3>5
    <2>4. CASE UNCHANGED <<srv, book>>
      BY <2>2, <2>4 DEF book
    <2> QED BY <1>8, <2>3, <2>4 DEF Subscribe
  <1>9. ASSUME NEW p \in Subs, CloseStream(p) PROVE AskedInv'
    BY <1>9, UnsubscribeKeepsAsked DEF CloseStream, BookInv
  <1>10. ASSUME NEW r \in Requests, PickEntry(r) PROVE AskedInv'
    BY <1>10 DEF PickEntry, loop, book
  <1>11. ASSUME NEW r \in Requests, RemovePicked(r) PROVE AskedInv'
    BY <1>11, UnsubscribeKeepsAsked DEF RemovePicked, BookInv
  <1>12. CASE CloseBegins \/ CloseReports \/ CloseSignals
    BY <1>12 DEF CloseBegins, CloseReports, CloseSignals, loop, book
  <1>13. CASE CloseDropsConn
    BY <1>13 DEF CloseDropsConn, CloseConn, loop, book
  <1>14. CASE CloseAllSubscriptions
    BY <1>14 DEF CloseAllSubscriptions, loop
  <1>15. CASE UNCHANGED vars
    BY <1>15 DEF vars, loop, book
  <1> QED
    BY <1>1, <1>2, <1>3, <1>4, <1>5, <1>6, <1>7, <1>8, <1>9, <1>10, <1>11, <1>12, <1>13,
       <1>14, <1>15
       DEF Next, RunSteps, CloseSteps, Answer

(* Whenever run reads a working connection, every open stream is served,   *)
(* with its own subscription or that of a stream it shares the key with,   *)
(* for any streams, filters, unsubscribe requests and reconnects.          *)
THEOREM StreamsAreServed == Spec => []OpenStreamsServed
  <1>1. Init => ServedInv
    BY DEF Init, ServedInv, Keyed, Nothing
  <1>2. Init => AskedInv
    BY DEF Init, AskedInv, Nothing
  <1>3. BookInv /\ ServedInv /\ AskedInv => OpenStreamsServed
    <2> SUFFICES ASSUME BookInv, ServedInv, AskedInv, run = "read", conn = "ok", NEW p \in subs
                 PROVE  srv[KeyOf[p]] \in asked[KeyOf[p]]
      BY DEF OpenStreamsServed
    <2>1. KeyOf[p] \in Keys /\ refs[KeyOf[p]] > 0
      BY OpenHasDetail
    <2>2. srv[KeyOf[p]] # NoSub
      BY DEF ServedInv
    <2> QED BY <2>1, <2>2 DEF AskedInv
  <1> QED BY BookInit, BookNext, ServedNext, AskedNext, <1>1, <1>2, <1>3, PTL DEF Spec
=============================================================================
