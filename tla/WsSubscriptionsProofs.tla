------------------------ MODULE WsSubscriptionsProofs ------------------------
(***************************************************************************)
(* The reference counts of WsSubscriptions are exact for any number of     *)
(* assets, streams and unsubscribe requests, and any interleaving of their *)
(* steps with failures, reconnects and Close.                              *)
(***************************************************************************)
EXTENDS WsSubscriptions, FiniteSetTheorems, TLAPS

(* An unsubscribe request never reaches the places of a stream: with       *)
(* nothing to unsubscribe it returns at once, so its frame is not empty    *)
(* when it comes to ensureConn.                                            *)
RequestPlaces ==
    \A q \in Requests :
        /\ pc[q] \in {"idle", "ensure", "write", "returned", "failed"}
        /\ pc[q] = "ensure" => frame[q] # {}

IInv ==
    /\ TypeOK
    /\ RequestPlaces
    /\ RefsMatchHolders

USE DEF book, server, resub, ending, trouble, Calls

Holding == {"ensure", "write", "register", "live", "failed", "release", "abandoned"}

-----------------------------------------------------------------------------
(* Counting.                                                               *)

(* Calls are finitely many, so holders and takers can be counted.          *)
LEMMA FiniteCounts ==
    ASSUME NEW a \in Assets
    PROVE  /\ IsFiniteSet(Holders(a)) /\ Cardinality(Holders(a)) \in Nat
           /\ IsFiniteSet(Takers(a)) /\ Cardinality(Takers(a)) \in Nat
<1>1. Holders(a) \subseteq Calls /\ Takers(a) \subseteq Calls
  BY DEF Holders, Takers
<1>2. IsFiniteSet(Holders(a)) /\ IsFiniteSet(Takers(a))
  BY <1>1, CallsAssumption, FS_Subset
<1> QED
  BY <1>2, FS_CardinalityType

(* A step that moves no call into or out of its hold on references, and    *)
(* changes no count, keeps the counts exact.                               *)
LEMMA SameHolds ==
    ASSUME RefsMatchHolders, UNCHANGED refs,
           \A p \in Streams : pc[p] \in Holding <=> pc'[p] \in Holding,
           \A q \in Requests : pc[q] = "idle" <=> pc'[q] = "idle"
    PROVE  RefsMatchHolders'
<1>1. ASSUME NEW a \in Assets PROVE Holders(a)' = Holders(a) /\ Takers(a)' = Takers(a)
  BY DEF Holders, Takers, Holding
<1> QED
  BY <1>1 DEF RefsMatchHolders

-----------------------------------------------------------------------------
(* Types.                                                                  *)

(* Every step keeps the types.  Only RequestPlaces keeps a request from    *)
(* being registered as a stream.                                           *)
LEMMA TypeStep ==
    ASSUME TypeOK, RequestPlaces, [Next]_vars
    PROVE  TypeOK'
<1> USE CallsAssumption, BoundsAssumption DEF TypeOK, Goes
<1>1. ASSUME NEW p \in Calls, AddMarketRefs(p) PROVE TypeOK'
  BY <1>1 DEF AddMarketRefs, OneMore, Referenced
<1>2. ASSUME NEW p \in Calls, EnsureConn(p) PROVE TypeOK'
  BY <1>2 DEF EnsureConn, AfterEnsure, ServerForgets, Fault
<1>3. ASSUME NEW p \in Calls, WriteSubscribe(p) PROVE TypeOK'
  BY <1>3 DEF WriteSubscribe, SubscribeFrame
<1>4. ASSUME NEW p \in Calls, Register(p) PROVE TypeOK'
  BY <1>4 DEF Register, RequestPlaces
<1>5. ASSUME NEW p \in Calls, CloseStream(p) PROVE TypeOK'
  BY <1>5 DEF CloseStream
<1>6. ASSUME NEW p \in Calls, ReleaseStream(p) \/ RequestUnsubscribe(p) PROVE TypeOK'
  BY <1>6 DEF ReleaseStream, RequestUnsubscribe, RemoveMarketRefs, OneLess
<1>7. ASSUME NEW p \in Calls, WriteUnsubscribe(p) PROVE TypeOK'
  BY <1>7 DEF WriteUnsubscribe, UnsubscribeFrame
<1>8. CASE LinkFails
  <2>1. pending' \in Nat /\ faults' \in 0 .. MaxFaults
    BY <1>8 DEF LinkFails, Fault
  <2>2. gaveUp' \in BOOLEAN /\ exiting' \in BOOLEAN
    BY <1>8 DEF LinkFails, Leaves, closing
  <2>3. link' \in {"ok", "dead", "nil"}
    BY <1>8 DEF LinkFails
  <2> QED
    BY <1>8, <2>1, <2>2, <2>3 DEF LinkFails, ServerForgets
<1>9. CASE Reconnected
  <2>1. AnotherFails \in {0, 1}
    BY DEF AnotherFails
  <2>2. pending' \in Nat /\ snapDue' \in 0 .. MaxResubs
    BY <1>9, <2>1 DEF Reconnected, Resubscribes
  <2> QED
    BY <1>9, <2>2 DEF Reconnected, Leaves, closing, ServerForgets
<1>10. CASE ReconnectGivesUp
  <2>1. AnotherFails \in {0, 1}
    BY DEF AnotherFails
  <2>2. pending' \in Nat /\ faults' \in 0 .. MaxFaults
    BY <1>10, <2>1 DEF ReconnectGivesUp, Fault
  <2> QED
    BY <1>10, <2>2 DEF ReconnectGivesUp, Leaves, closing, ServerForgets
<1>11. CASE ReconnectStops
  <2>1. pending' \in Nat
    BY <1>11 DEF ReconnectStops
  <2>2. exiting' \in BOOLEAN
    BY <1>11 DEF ReconnectStops, Leaves, closing
  <2> QED
    BY <1>11, <2>1, <2>2 DEF ReconnectStops
<1>12. CASE Snapshot
  BY <1>12 DEF Snapshot, Referenced
<1>13. ASSUME NEW s \in snaps, WriteResubscribe(s) PROVE TypeOK'
  BY <1>13 DEF WriteResubscribe, SubscribeFrame
<1>14. CASE \/ CloseBegins \/ CloseCleansUp \/ CloseDropsConn \/ CloseAllStreams
            \/ CloseShutsDown \/ ReaderShutsDown
  BY <1>14 DEF CloseBegins, CloseCleansUp, UnsubscribeFrame, CloseDropsConn, Leaves,
               closing, ServerForgets, CloseAllStreams, CloseShutsDown,
               ReaderShutsDown, Shutdown
<1>15. CASE UNCHANGED vars
  BY <1>15 DEF vars
<1> QED
  BY <1>1, <1>2, <1>3, <1>4, <1>5, <1>6, <1>7, <1>8, <1>9, <1>10, <1>11, <1>12,
     <1>13, <1>14, <1>15 DEF Next

-----------------------------------------------------------------------------
(* What the calls hold.                                                    *)

(* The steps that are neither addMarketRefs nor removeMarketRefs.          *)
Quiet ==
    \/ \E p \in Calls :
          EnsureConn(p) \/ WriteSubscribe(p) \/ Register(p) \/ CloseStream(p)
             \/ WriteUnsubscribe(p)
    \/ LinkFails \/ Reconnected \/ ReconnectGivesUp \/ ReconnectStops \/ Snapshot
    \/ \E s \in snaps : WriteResubscribe(s)
    \/ CloseBegins \/ CloseCleansUp \/ CloseDropsConn \/ CloseAllStreams
    \/ CloseShutsDown \/ ReaderShutsDown
    \/ UNCHANGED vars

(* The steps that change no count leave every stream with the references   *)
(* it has: a stream that fails or is abandoned keeps them.                 *)
LEMMA QuietStep ==
    ASSUME TypeOK, RequestPlaces, Quiet
    PROVE  /\ UNCHANGED refs
           /\ \A p \in Streams : pc[p] \in Holding <=> pc'[p] \in Holding
           /\ \A q \in Requests : pc[q] = "idle" <=> pc'[q] = "idle"
           /\ RequestPlaces'
<1> DEFINE Goal == /\ UNCHANGED refs
                   /\ \A p \in Streams : pc[p] \in Holding <=> pc'[p] \in Holding
                   /\ \A q \in Requests : pc[q] = "idle" <=> pc'[q] = "idle"
                   /\ RequestPlaces'
<1> USE CallsAssumption DEF TypeOK, RequestPlaces, Holding, Goes
<1>1. ASSUME NEW p \in Calls, EnsureConn(p) PROVE Goal
  BY <1>1 DEF EnsureConn, AfterEnsure
<1>2. ASSUME NEW p \in Calls, WriteSubscribe(p) PROVE Goal
  BY <1>2 DEF WriteSubscribe
<1>3. ASSUME NEW p \in Calls, Register(p) PROVE Goal
  BY <1>3 DEF Register
<1>4. ASSUME NEW p \in Calls, CloseStream(p) PROVE Goal
  BY <1>4 DEF CloseStream
<1>5. ASSUME NEW p \in Calls, WriteUnsubscribe(p) PROVE Goal
  BY <1>5 DEF WriteUnsubscribe
<1>6. CASE LinkFails \/ Reconnected \/ ReconnectGivesUp \/ ReconnectStops \/ Snapshot
  BY <1>6 DEF LinkFails, Reconnected, ReconnectGivesUp, ReconnectStops, Snapshot
<1>7. ASSUME NEW s \in snaps, WriteResubscribe(s) PROVE Goal
  BY <1>7 DEF WriteResubscribe
<1>8. CASE \/ CloseBegins \/ CloseCleansUp \/ CloseDropsConn \/ CloseAllStreams
           \/ CloseShutsDown \/ ReaderShutsDown
  BY <1>8 DEF CloseBegins, CloseCleansUp, CloseDropsConn, CloseAllStreams,
              CloseShutsDown, ReaderShutsDown
<1>9. CASE UNCHANGED vars
  BY <1>9 DEF vars
<1> QED
  BY <1>1, <1>2, <1>3, <1>4, <1>5, <1>6, <1>7, <1>8, <1>9 DEF Quiet

(* addMarketRefs: the stream joins the holders of its assets, each of      *)
(* which is counted once more.                                             *)
LEMMA AddStep ==
    ASSUME TypeOK, RequestPlaces, RefsMatchHolders, NEW p \in Calls, AddMarketRefs(p)
    PROVE  RequestPlaces' /\ RefsMatchHolders'
<1> USE CallsAssumption DEF TypeOK, Goes, AddMarketRefs
<1>1. RequestPlaces'
  BY DEF RequestPlaces
<1>2. ASSUME NEW a \in Assets
      PROVE  /\ refs'[a] <= Cardinality(Holders(a)')
             /\ Cardinality(Holders(a)') <= refs'[a] + Cardinality(Takers(a)')
  <2>1. Takers(a)' = Takers(a)
    BY DEF Takers
  <2>2. Holders(a)' = IF a \in AssetsOf[p] THEN Holders(a) \cup {p} ELSE Holders(a)
    BY DEF Holders
  <2>3. p \notin Holders(a)
    BY DEF Holders
  <2>4. Cardinality(Holders(a)') =
          IF a \in AssetsOf[p] THEN Cardinality(Holders(a)) + 1
                               ELSE Cardinality(Holders(a))
    <3>1. Cardinality(Holders(a) \cup {p}) = Cardinality(Holders(a)) + 1
      BY <2>3, FiniteCounts, FS_AddElement
    <3> QED
      BY <2>2, <3>1
  <2>5. refs'[a] = IF a \in AssetsOf[p] THEN refs[a] + 1 ELSE refs[a]
    BY DEF OneMore
  <2>6. refs[a] \in Nat
    OBVIOUS
  <2> QED
    BY <2>1, <2>4, <2>5, <2>6, FiniteCounts DEF RefsMatchHolders
<1> QED
  BY <1>1, <1>2 DEF RefsMatchHolders

(* removeMarketRefs for a stream: it leaves the holders.  Its reference    *)
(* may be gone already, taken by a request: then a count of 0 stays 0.     *)
LEMMA ReleaseStep ==
    ASSUME TypeOK, RequestPlaces, RefsMatchHolders, NEW p \in Calls, ReleaseStream(p)
    PROVE  RequestPlaces' /\ RefsMatchHolders'
<1> USE CallsAssumption DEF TypeOK, Goes, ReleaseStream, RemoveMarketRefs
<1>1. RequestPlaces'
  BY DEF RequestPlaces
<1>2. p \in Streams
  BY DEF RequestPlaces
<1>3. ASSUME NEW a \in Assets
      PROVE  /\ refs'[a] <= Cardinality(Holders(a)')
             /\ Cardinality(Holders(a)') <= refs'[a] + Cardinality(Takers(a)')
  <2>1. Takers(a)' = Takers(a)
    BY <1>2 DEF Takers
  <2>2. Holders(a)' = Holders(a) \ {p}
    BY <1>2 DEF Holders
  <2>3. p \in Holders(a) <=> a \in AssetsOf[p]
    BY <1>2 DEF Holders
  <2>4. Cardinality(Holders(a)') =
          IF a \in AssetsOf[p] THEN Cardinality(Holders(a)) - 1
                               ELSE Cardinality(Holders(a))
    <3>1. Cardinality(Holders(a) \ {p}) =
            IF p \in Holders(a) THEN Cardinality(Holders(a)) - 1
                                ELSE Cardinality(Holders(a))
      BY FiniteCounts, FS_RemoveElement
    <3> QED
      BY <2>2, <2>3, <3>1
  <2>5. refs'[a] = IF a \in AssetsOf[p] /\ refs[a] > 0 THEN refs[a] - 1 ELSE refs[a]
    BY DEF OneLess
  <2>6. refs[a] \in Nat
    OBVIOUS
  <2>7. a \in AssetsOf[p] => Cardinality(Holders(a)) >= 1
    <3> SUFFICES ASSUME a \in AssetsOf[p] PROVE Cardinality(Holders(a)) >= 1
      OBVIOUS
    <3>1. Holders(a) # {}
      BY <2>3
    <3> QED
      BY <3>1, FiniteCounts, FS_EmptySet
  <2> QED
    BY <2>1, <2>4, <2>5, <2>6, <2>7, FiniteCounts DEF RefsMatchHolders
<1> QED
  BY <1>1, <1>3 DEF RefsMatchHolders

(* removeMarketRefs for a request: it joins the takers of its assets.      *)
LEMMA RequestStep ==
    ASSUME TypeOK, RequestPlaces, RefsMatchHolders, NEW p \in Calls,
           RequestUnsubscribe(p)
    PROVE  RequestPlaces' /\ RefsMatchHolders'
<1> USE CallsAssumption DEF TypeOK, Goes, RequestUnsubscribe, RemoveMarketRefs
<1>1. RequestPlaces'
  BY DEF RequestPlaces
<1>2. ASSUME NEW a \in Assets
      PROVE  /\ refs'[a] <= Cardinality(Holders(a)')
             /\ Cardinality(Holders(a)') <= refs'[a] + Cardinality(Takers(a)')
  <2>1. Holders(a)' = Holders(a)
    BY DEF Holders
  <2>2. Takers(a)' = IF a \in AssetsOf[p] THEN Takers(a) \cup {p} ELSE Takers(a)
    BY DEF Takers
  <2>3. p \notin Takers(a)
    BY DEF Takers
  <2>4. Cardinality(Takers(a)') =
          IF a \in AssetsOf[p] THEN Cardinality(Takers(a)) + 1
                               ELSE Cardinality(Takers(a))
    <3>1. Cardinality(Takers(a) \cup {p}) = Cardinality(Takers(a)) + 1
      BY <2>3, FiniteCounts, FS_AddElement
    <3> QED
      BY <2>2, <3>1
  <2>5. refs'[a] = IF a \in AssetsOf[p] /\ refs[a] > 0 THEN refs[a] - 1 ELSE refs[a]
    BY DEF OneLess
  <2>6. refs[a] \in Nat
    OBVIOUS
  <2> QED
    BY <2>1, <2>4, <2>5, <2>6, FiniteCounts DEF RefsMatchHolders
<1> QED
  BY <1>1, <1>2 DEF RefsMatchHolders

-----------------------------------------------------------------------------
(* Nobody holds a reference at first.                                      *)
LEMMA InitIInv == Init => IInv
<1> SUFFICES ASSUME Init PROVE IInv
  OBVIOUS
<1> USE CallsAssumption, BoundsAssumption DEF Init
<1>1. TypeOK
  <2>1. refs \in [Assets -> Nat] /\ frame \in [Calls -> SUBSET Assets]
    OBVIOUS
  <2>2. open \subseteq Streams /\ srv \subseteq Assets /\ srvCustom \subseteq srv
    OBVIOUS
  <2>3. snaps \subseteq [assets : SUBSET Assets, custom : BOOLEAN]
    OBVIOUS
  <2>4. snapDue \in 0 .. MaxResubs /\ faults \in 0 .. MaxFaults
    OBVIOUS
  <2>5. gaveUp \in BOOLEAN
    OBVIOUS
  <2> QED
    BY <2>1, <2>2, <2>3, <2>4, <2>5 DEF TypeOK
<1>2. RequestPlaces
  BY DEF RequestPlaces
<1>3. ASSUME NEW a \in Assets PROVE Holders(a) = {} /\ Takers(a) = {}
  BY DEF Holders, Takers
<1>4. RefsMatchHolders
  BY <1>3, FS_EmptySet DEF RefsMatchHolders
<1> QED
  BY <1>1, <1>2, <1>4 DEF IInv

(* Every step preserves the invariant.                                     *)
LEMMA NextIInv == IInv /\ [Next]_vars => IInv'
<1> SUFFICES ASSUME IInv, [Next]_vars PROVE IInv'
  OBVIOUS
<1> USE DEF IInv
<1>1. TypeOK'
  BY TypeStep
<1>2. RequestPlaces' /\ RefsMatchHolders'
  <2>1. CASE Quiet
    BY <2>1, QuietStep, SameHolds
  <2>2. ASSUME NEW p \in Calls, AddMarketRefs(p)
        PROVE  RequestPlaces' /\ RefsMatchHolders'
    BY <2>2, AddStep
  <2>3. ASSUME NEW p \in Calls, ReleaseStream(p)
        PROVE  RequestPlaces' /\ RefsMatchHolders'
    BY <2>3, ReleaseStep
  <2>4. ASSUME NEW p \in Calls, RequestUnsubscribe(p)
        PROVE  RequestPlaces' /\ RefsMatchHolders'
    BY <2>4, RequestStep
  <2> QED
    BY <2>1, <2>2, <2>3, <2>4 DEF Next, Quiet
<1> QED
  BY <1>1, <1>2

(* IInv holds in every reachable state.                                    *)
LEMMA Invariance == Spec => []IInv
  BY InitIInv, NextIInv, PTL DEF Spec

(* Type correctness: no count ever goes below 0, whatever the closes and   *)
(* unsubscribe requests that name an asset nobody holds.                   *)
THEOREM TypeCorrect == Spec => []TypeOK
<1>1. IInv => TypeOK
  BY DEF IInv
<1> QED
  BY <1>1, Invariance, PTL

(* The count of an asset is the number of streams that hold it, less at    *)
(* most one for each unsubscribe request that named it.                    *)
THEOREM RefsAreExact == Spec => []RefsMatchHolders
<1>1. IInv => RefsMatchHolders
  BY DEF IInv
<1> QED
  BY <1>1, Invariance, PTL

-----------------------------------------------------------------------------
(* What is wanted is served.                                               *)

(* A frame names assets of its call.                                       *)
FramesNamed == \A p \in Calls : frame[p] \subseteq AssetsOf[p]

(* Streams that are open have been registered and not closed.              *)
OpenAreLive == \A p \in open : pc[p] = "live"

(* Without a working connection, a readLoop is on its way to reconnect.    *)
BrokenIsDue == closer = "idle" /\ ~gaveUp /\ link # "ok" => pending > 0

(* Nobody has given the asset up, by closing a stream, by a request, by    *)
(* Close or by a readLoop that ran out of attempts.                        *)
Wanted(a) ==
    /\ closer = "idle"
    /\ ~gaveUp
    /\ \A p \in Streams : a \in AssetsOf[p] =>
          pc[p] \in {"idle", "ensure", "write", "register", "live", "failed"}
    /\ \A q \in Requests : a \in AssetsOf[q] => pc[q] = "idle"

(* Something is under way that will ask the server for the asset: a        *)
(* reconnect, its snapshot, the frame of the snapshot, the frame of a      *)
(* stream.                                                                 *)
OnItsWay(a) ==
    \/ pending > 0
    \/ snapDue > 0
    \/ \E s \in snaps : a \in s.assets
    \/ \E p \in Streams : a \in frame[p] /\ pc[p] \in {"ensure", "write"}

WantedIsServed ==
    \A a \in Assets : Wanted(a) /\ refs[a] > 0 => a \in srv \/ OnItsWay(a)

ServedInv ==
    /\ FramesNamed
    /\ OpenAreLive
    /\ BrokenIsDue
    /\ WantedIsServed

(* Places and frames of the calls.                                         *)
LEMMA PlacesStep ==
    ASSUME TypeOK, RequestPlaces, FramesNamed, OpenAreLive, [Next]_vars
    PROVE  FramesNamed' /\ OpenAreLive'
<1> USE CallsAssumption DEF TypeOK, RequestPlaces, FramesNamed, OpenAreLive, Goes
<1>1. ASSUME NEW p \in Calls, AddMarketRefs(p) PROVE FramesNamed' /\ OpenAreLive'
  BY <1>1 DEF AddMarketRefs
<1>2. ASSUME NEW p \in Calls, EnsureConn(p) PROVE FramesNamed' /\ OpenAreLive'
  BY <1>2 DEF EnsureConn, AfterEnsure
<1>3. ASSUME NEW p \in Calls, WriteSubscribe(p) PROVE FramesNamed' /\ OpenAreLive'
  BY <1>3 DEF WriteSubscribe
<1>4. ASSUME NEW p \in Calls, Register(p) PROVE FramesNamed' /\ OpenAreLive'
  BY <1>4 DEF Register
<1>5. ASSUME NEW p \in Calls, CloseStream(p) PROVE FramesNamed' /\ OpenAreLive'
  BY <1>5 DEF CloseStream
<1>6. ASSUME NEW p \in Calls, ReleaseStream(p) \/ RequestUnsubscribe(p)
      PROVE  FramesNamed' /\ OpenAreLive'
  BY <1>6 DEF ReleaseStream, RequestUnsubscribe, RemoveMarketRefs
<1>7. ASSUME NEW p \in Calls, WriteUnsubscribe(p) PROVE FramesNamed' /\ OpenAreLive'
  BY <1>7 DEF WriteUnsubscribe
<1>8. CASE LinkFails \/ Reconnected \/ ReconnectGivesUp \/ ReconnectStops \/ Snapshot
  BY <1>8 DEF LinkFails, Reconnected, ReconnectGivesUp, ReconnectStops, Snapshot
<1>9. ASSUME NEW s \in snaps, WriteResubscribe(s) PROVE FramesNamed' /\ OpenAreLive'
  BY <1>9 DEF WriteResubscribe
<1>10. CASE \/ CloseBegins \/ CloseCleansUp \/ CloseDropsConn \/ CloseAllStreams
            \/ CloseShutsDown \/ ReaderShutsDown
  BY <1>10 DEF CloseBegins, CloseCleansUp, CloseDropsConn, CloseAllStreams,
               CloseShutsDown, ReaderShutsDown, Shutdown
<1>11. CASE UNCHANGED vars
  BY <1>11 DEF vars
<1> QED
  BY <1>1, <1>2, <1>3, <1>4, <1>5, <1>6, <1>7, <1>8, <1>9, <1>10, <1>11 DEF Next

(* A failure leaves a readLoop that reconnects, unless it gives up or the  *)
(* client closes.                                                          *)
LEMMA BrokenStep ==
    ASSUME TypeOK, BrokenIsDue, [Next]_vars
    PROVE  BrokenIsDue'
<1> USE CallsAssumption DEF TypeOK, BrokenIsDue, Goes
<1>1. ASSUME NEW p \in Calls,
             \/ AddMarketRefs(p) \/ EnsureConn(p) \/ WriteSubscribe(p) \/ Register(p)
             \/ CloseStream(p) \/ ReleaseStream(p) \/ RequestUnsubscribe(p)
             \/ WriteUnsubscribe(p)
      PROVE  BrokenIsDue'
  BY <1>1 DEF AddMarketRefs, EnsureConn, WriteSubscribe, Register, CloseStream,
              ReleaseStream, RequestUnsubscribe, RemoveMarketRefs, WriteUnsubscribe
<1>2. CASE LinkFails
  BY <1>2 DEF LinkFails, closing
<1>3. CASE Reconnected
  BY <1>3 DEF Reconnected
<1>4. CASE ReconnectGivesUp \/ ReconnectStops \/ Snapshot
  BY <1>4 DEF ReconnectGivesUp, ReconnectStops, closing, Snapshot
<1>5. ASSUME NEW s \in snaps, WriteResubscribe(s) PROVE BrokenIsDue'
  BY <1>5 DEF WriteResubscribe
<1>6. CASE \/ CloseBegins \/ CloseCleansUp \/ CloseDropsConn \/ CloseAllStreams
           \/ CloseShutsDown \/ ReaderShutsDown
  BY <1>6 DEF CloseBegins, CloseCleansUp, CloseDropsConn, CloseAllStreams,
              CloseShutsDown, ReaderShutsDown
<1>7. CASE UNCHANGED vars
  BY <1>7 DEF vars
<1> QED
  BY <1>1, <1>2, <1>3, <1>4, <1>5, <1>6, <1>7 DEF Next

(* An asset that is wanted after a step was wanted before: no call goes    *)
(* back to a place from which it gave nothing up.                          *)
LEMMA WantedBefore ==
    ASSUME TypeOK, RequestPlaces, [Next]_vars, NEW a \in Assets, Wanted(a)'
    PROVE  Wanted(a)
<1> USE CallsAssumption DEF TypeOK, RequestPlaces, Wanted, Goes
<1>1. ASSUME NEW p \in Calls, AddMarketRefs(p) \/ EnsureConn(p) PROVE Wanted(a)
  <2>1. UNCHANGED <<closer, gaveUp>> /\ \A q \in Calls : q # p => pc'[q] = pc[q]
    BY <1>1 DEF AddMarketRefs, EnsureConn
  <2>2. pc[p] \in {"idle", "ensure"} /\ pc'[p] # "idle" /\ (pc[p] = "idle" => p \in Streams)
    BY <1>1 DEF AddMarketRefs, EnsureConn, AfterEnsure
  <2> QED
    BY <2>1, <2>2
<1>2. ASSUME NEW p \in Calls, WriteSubscribe(p) \/ Register(p) \/ CloseStream(p)
      PROVE  Wanted(a)
  BY <1>2 DEF WriteSubscribe, Register, CloseStream
<1>3. ASSUME NEW p \in Calls, ReleaseStream(p) \/ RequestUnsubscribe(p) PROVE Wanted(a)
  BY <1>3 DEF ReleaseStream, RequestUnsubscribe, RemoveMarketRefs
<1>4. ASSUME NEW p \in Calls, WriteUnsubscribe(p) PROVE Wanted(a)
  BY <1>4 DEF WriteUnsubscribe
<1>5. CASE LinkFails \/ Reconnected \/ ReconnectGivesUp \/ ReconnectStops \/ Snapshot
  BY <1>5 DEF LinkFails, Reconnected, ReconnectGivesUp, ReconnectStops, Snapshot
<1>6. ASSUME NEW s \in snaps, WriteResubscribe(s) PROVE Wanted(a)
  BY <1>6 DEF WriteResubscribe
<1>7. CASE \/ CloseBegins \/ CloseCleansUp \/ CloseDropsConn \/ CloseAllStreams
           \/ CloseShutsDown \/ ReaderShutsDown
  BY <1>7 DEF CloseBegins, CloseCleansUp, CloseDropsConn, CloseAllStreams,
              CloseShutsDown, ReaderShutsDown
<1>8. CASE UNCHANGED vars
  BY <1>8 DEF vars
<1> QED
  BY <1>1, <1>2, <1>3, <1>4, <1>5, <1>6, <1>7, <1>8 DEF Next

(* Each asset that is wanted and counted stays served or on its way.  What *)
(* takes it from the server (a connection that is lost) puts a reconnect   *)
(* under way, and what is under way hands over to the next: the dial to    *)
(* the snapshot, that to its frame, that to the server.                    *)
LEMMA ServedStep ==
    ASSUME TypeOK, RequestPlaces, FramesNamed, BrokenIsDue, WantedIsServed, [Next]_vars
    PROVE  WantedIsServed'
<1> SUFFICES ASSUME NEW a \in Assets, Wanted(a)', refs'[a] > 0
             PROVE  (a \in srv \/ OnItsWay(a))'
  BY DEF WantedIsServed
<1> DEFINE Goal == (a \in srv \/ OnItsWay(a))'
<1>w. Wanted(a)
  BY WantedBefore
<1>d. link # "ok" => pending > 0
  BY <1>w DEF BrokenIsDue, Wanted
<1>s. refs[a] > 0 => a \in srv \/ OnItsWay(a)
  BY <1>w DEF WantedIsServed
<1> USE <1>d, <1>s, CallsAssumption, BoundsAssumption DEF TypeOK, RequestPlaces, Goes, OnItsWay
<1>1. ASSUME NEW p \in Calls, AddMarketRefs(p) PROVE Goal
  <2>1. CASE refs[a] > 0
    <3>1. a \notin frame'[p] /\ p \in Streams /\ pc[p] = "idle"
      BY <1>1, <2>1 DEF AddMarketRefs, Referenced
    <3> QED
      BY <1>1, <2>1, <3>1 DEF AddMarketRefs
  <2>2. CASE refs[a] = 0
    <3>1. a \in AssetsOf[p]
      BY <1>1, <2>2 DEF AddMarketRefs, OneMore
    <3>2. a \in frame'[p] /\ pc'[p] = "ensure" /\ p \in Streams
      BY <1>1, <2>2, <3>1 DEF AddMarketRefs, Referenced
    <3> QED
      BY <3>2
  <2> QED
    BY <2>1, <2>2
<1>2. ASSUME NEW p \in Calls, EnsureConn(p) PROVE Goal
  <2>1. refs[a] > 0 /\ UNCHANGED <<pending, snapDue, snaps, frame>>
    BY <1>2 DEF EnsureConn
  <2>2. CASE link = "nil"
    BY <2>1, <2>2
  <2>3. CASE link # "nil"
    <3>1. UNCHANGED srv /\ pc' = [pc EXCEPT ![p] = AfterEnsure(p)]
      BY <1>2, <2>3 DEF EnsureConn
    <3>2. a \in frame[p] => pc'[p] = "write"
      BY <3>1 DEF AfterEnsure
    <3> QED
      BY <2>1, <3>1, <3>2
  <2> QED
    BY <2>2, <2>3
<1>3. ASSUME NEW p \in Calls, WriteSubscribe(p) PROVE Goal
  <2>1. refs[a] > 0 /\ UNCHANGED <<pending, snapDue, snaps, frame>>
    BY <1>3 DEF WriteSubscribe
  <2>2. CASE link = "ok"
    <3>1. srv' = srv \cup frame[p] /\ pc' = [pc EXCEPT ![p] = "register"]
      BY <1>3, <2>2 DEF WriteSubscribe, SubscribeFrame
    <3> QED
      BY <2>1, <3>1
  <2> QED
    BY <2>1, <2>2
<1>4. ASSUME NEW p \in Calls, Register(p) \/ CloseStream(p) PROVE Goal
  BY <1>4 DEF Register, CloseStream
<1>5. ASSUME NEW p \in Calls, ReleaseStream(p) PROVE Goal
  <2>1. p \in Streams /\ a \notin AssetsOf[p]
    BY <1>5, <1>w DEF ReleaseStream, Wanted
  <2>2. refs'[a] = refs[a]
    BY <1>5, <2>1 DEF ReleaseStream, RemoveMarketRefs, OneLess
  <2>3. /\ UNCHANGED <<pending, snapDue, snaps, srv>>
        /\ \A q \in Streams : q # p => pc'[q] = pc[q] /\ frame'[q] = frame[q]
        /\ pc[p] = "release"
    BY <1>5 DEF ReleaseStream, RemoveMarketRefs
  <2> QED
    BY <2>2, <2>3
<1>6. ASSUME NEW p \in Calls, RequestUnsubscribe(p) PROVE Goal
  <2>1. p \in Requests /\ pc'[p] # "idle"
    BY <1>6 DEF RequestUnsubscribe, RemoveMarketRefs
  <2>2. a \notin AssetsOf[p]
    BY <2>1 DEF Wanted
  <2>3. refs'[a] = refs[a]
    BY <1>6, <2>2 DEF RequestUnsubscribe, RemoveMarketRefs, OneLess
  <2>4. /\ UNCHANGED <<pending, snapDue, snaps, srv>>
        /\ \A q \in Streams : pc'[q] = pc[q] /\ frame'[q] = frame[q]
    BY <1>6, <2>1 DEF RequestUnsubscribe, RemoveMarketRefs
  <2> QED
    BY <2>3, <2>4
<1>7. ASSUME NEW p \in Calls, WriteUnsubscribe(p) PROVE Goal
  <2>1. a \notin AssetsOf[p]
    BY <1>7, <1>w DEF WriteUnsubscribe, Wanted
  <2>2. a \notin frame[p]
    BY <2>1 DEF FramesNamed
  <2>3. a \in srv => a \in srv'
    BY <1>7, <2>2 DEF WriteUnsubscribe, UnsubscribeFrame
  <2>4. UNCHANGED <<refs, pending, snapDue, snaps, frame>>
    BY <1>7 DEF WriteUnsubscribe
  <2>5. \A q \in Streams : pc[q] \in {"ensure", "write"} => pc'[q] = pc[q]
    BY <1>7 DEF WriteUnsubscribe
  <2> QED
    BY <2>3, <2>4, <2>5
<1>8. CASE LinkFails
  <2>1. closer = "idle" /\ ~gaveUp'
    BY <1>w DEF Wanted
  <2>2. pending' = pending + 1
    BY <1>8, <2>1 DEF LinkFails, closing
  <2> QED
    BY <2>2
<1>9. CASE Reconnected
  BY <1>9 DEF Reconnected, Resubscribes
<1>10. CASE ReconnectGivesUp
  BY <1>10 DEF ReconnectGivesUp, Wanted
<1>11. CASE ReconnectStops
  BY <1>11, <1>w DEF ReconnectStops, closing, Wanted
<1>12. CASE Snapshot
  <2>1. refs[a] > 0 /\ UNCHANGED <<pending, srv, frame, pc>>
    BY <1>12 DEF Snapshot
  <2>2. [assets |-> Referenced, custom |-> custom] \in snaps' /\ a \in Referenced
    BY <1>12, <2>1 DEF Snapshot, Referenced
  <2>3. [assets |-> Referenced, custom |-> custom].assets = Referenced
    OBVIOUS
  <2>4. \E s \in snaps' : a \in s.assets
    BY <2>2, <2>3
  <2> QED
    BY <2>4
<1>13. ASSUME NEW s \in snaps, WriteResubscribe(s) PROVE Goal
  <2>1. refs[a] > 0 /\ UNCHANGED <<pending, snapDue, frame, pc>> /\ snaps' = snaps \ {s}
    BY <1>13 DEF WriteResubscribe
  <2>2. CASE link = "ok"
    BY <1>13, <2>1, <2>2 DEF WriteResubscribe, SubscribeFrame
  <2> QED
    BY <2>1, <2>2
<1>14. CASE \/ CloseBegins \/ CloseCleansUp \/ CloseDropsConn \/ CloseAllStreams
            \/ CloseShutsDown \/ ReaderShutsDown
  BY <1>14, <1>w DEF CloseBegins, CloseCleansUp, CloseDropsConn, CloseAllStreams,
                     CloseShutsDown, ReaderShutsDown, Wanted
<1>15. CASE UNCHANGED vars
  BY <1>15 DEF vars
<1> QED
  BY <1>1, <1>2, <1>3, <1>4, <1>5, <1>6, <1>7, <1>8, <1>9, <1>10, <1>11, <1>12,
     <1>13, <1>14, <1>15 DEF Next

(* Nothing is wanted or open at first.                                     *)
LEMMA InitServed == Init => ServedInv
<1> SUFFICES ASSUME Init PROVE ServedInv
  OBVIOUS
<1> USE CallsAssumption DEF Init
<1>1. FramesNamed /\ OpenAreLive /\ BrokenIsDue
  BY DEF FramesNamed, OpenAreLive, BrokenIsDue
<1>2. WantedIsServed
  BY DEF WantedIsServed
<1> QED
  BY <1>1, <1>2 DEF ServedInv

(* When all is settled nothing is on its way, so what an open stream wants *)
(* is served: its count is not 0, because the stream holds it and no       *)
(* request has taken a reference.                                          *)
LEMMA ServedThen == IInv /\ ServedInv => KeptAssetsServed
<1> SUFFICES ASSUME IInv, ServedInv, Settled, ~gaveUp,
                    NEW p \in open, NEW a \in AssetsOf[p], Kept(a, p)
             PROVE  a \in srv
  BY DEF KeptAssetsServed
<1> USE CallsAssumption DEF IInv, ServedInv, TypeOK
<1>1. p \in Streams /\ pc[p] = "live" /\ a \in Assets
  BY DEF OpenAreLive
<1>2. Wanted(a)
  BY <1>1 DEF Wanted, Kept
<1>3. Takers(a) = {} /\ p \in Holders(a)
  BY <1>1, <1>2 DEF Takers, Holders, Wanted
<1>4. Cardinality(Takers(a)) = 0 /\ Cardinality(Holders(a)) # 0
  BY <1>1, <1>3, FiniteCounts, FS_EmptySet
<1>5. refs[a] > 0
  BY <1>1, <1>4, FiniteCounts DEF RefsMatchHolders
<1>6. ~OnItsWay(a)
  BY DEF OnItsWay, Settled
<1> QED
  BY <1>1, <1>2, <1>5, <1>6 DEF WantedIsServed

(* Whenever things have settled, the server sends every asset of an open   *)
(* stream that no other call has given up, for any calls, any number of    *)
(* failures and reconnects and any interleaving of the frames.             *)
THEOREM KeptAssetsAreServed == Spec => []KeptAssetsServed
<1>1. IInv /\ ServedInv /\ [Next]_vars => ServedInv'
  BY PlacesStep, BrokenStep, ServedStep DEF IInv, ServedInv
<1> QED
  BY <1>1, InitServed, Invariance, ServedThen, PTL DEF Spec
=============================================================================
