--------------------------- MODULE WsSubscriptions ---------------------------
(***************************************************************************)
(* The market subscriptions of the WebSocket client of pkg/clob/ws:        *)
(* reference counts per asset, the streams that hold them, and the frames  *)
(* that tell the server (subscriptions.go, resubscribe and                 *)
(* cleanupSubscriptions of lifecycle.go).                                  *)
(*                                                                         *)
(* The counts are changed under subMu; the frame that follows is written   *)
(* later, under another mutex, so frames reach the server in an order of   *)
(* their own.  Each step below is one of those critical sections.          *)
(*                                                                         *)
(* The connection is reduced to what the subscriptions see of it:          *)
(*   ok    there is a connection and it works                              *)
(*   dead  there is one, its reads fail, a readLoop is about to reconnect  *)
(*   nil   there is none                                                   *)
(* with the number of readLoops that are in, or on their way to,           *)
(* reconnectLoop.  WsConnection has the goroutines behind it.              *)
(***************************************************************************)
EXTENDS Integers, FiniteSets

CONSTANTS
    Assets,     \* asset ids
    Streams,    \* Subscribe...Stream calls, with the stream each returns
    Requests,   \* UnsubscribeMarketAssets calls
    AssetsOf,   \* the asset ids each of them names
    Custom,     \* streams that ask for custom features
    CanClose,   \* streams whose owner closes them or cancels their context
    GivesUp,    \* whether a readLoop may end and leave the client without a
                \* connection: reconnectLoop runs out of attempts, or pingLoop
                \* has cancelled the context before the read fails
    Closes,     \* whether the application calls Close on the client
    MaxFaults,  \* bound: broken or dropped connections, failed dials
    MaxResubs   \* bound: reconnectLoops between their dial and their snapshot

Calls == Streams \cup Requests

ASSUME CallsAssumption ==
    /\ IsFiniteSet(Calls)
    /\ Streams \cap Requests = {}
    /\ AssetsOf \in [Calls -> SUBSET Assets]
    /\ Custom \subseteq Streams
    /\ CanClose \subseteq Streams

ASSUME BoundsAssumption == MaxFaults \in Nat /\ MaxResubs \in Nat

VARIABLES
    refs,       \* c.marketRefs, 0 for an asset that is not in the map
    custom,     \* c.customFeatures
    pc,         \* where each call, or the stream it returned, is
    frame,      \* newAssets or toUnsub of each call: what its frame names
    open,       \* streams registered and not closed
    link,       \* the connection: ok, dead or nil
    pending,    \* readLoops that will reconnect
    snapDue,    \* reconnectLoops that dialed and have not resubscribed yet
    snaps,      \* snapshots taken by resubscribe and not written yet
    srv,        \* assets the server sends on the current connection
    srvCustom,  \* those it was asked to send with custom features
    closer,     \* Close of the client
    exiting,    \* whether a readLoop leaves and will find the client closing
    shut,       \* closeOnce: whether shutdown was done
    faults,     \* faults so far
    gaveUp      \* whether a readLoop has left the client without a connection

book == <<refs, custom>>
server == <<srv, srvCustom>>
resub == <<pending, snapDue, snaps>>
ending == <<closer, exiting, shut>>
trouble == <<faults, gaveUp>>
vars == <<book, pc, frame, open, link, resub, server, ending, trouble>>

\* The constructor has connected.
Init ==
    /\ refs = [a \in Assets |-> 0]
    /\ custom = FALSE
    /\ pc = [p \in Calls |-> "idle"]
    /\ frame = [p \in Calls |-> {}]
    /\ open = {}
    /\ link = "ok"
    /\ pending = 0
    /\ snapDue = 0
    /\ snaps = {}
    /\ srv = {}
    /\ srvCustom = {}
    /\ closer = "idle"
    /\ exiting = FALSE
    /\ shut = FALSE
    /\ faults = 0
    /\ gaveUp = FALSE

closing == closer # "idle"
Referenced == {a \in Assets : refs[a] > 0}
Goes(p, there) == pc' = [pc EXCEPT ![p] = there]

Fault ==
    /\ faults < MaxFaults
    /\ faults' = faults + 1

\* A connection is gone, and with it all the server knew.
ServerForgets == srv' = {} /\ srvCustom' = {}

\* The frames, written on a connection that works.
SubscribeFrame(assets, withCustom) ==
    /\ srv' = srv \cup assets
    /\ srvCustom' = IF withCustom THEN srvCustom \cup assets ELSE srvCustom

UnsubscribeFrame(assets) ==
    /\ srv' = srv \ assets
    /\ srvCustom' = srvCustom \ assets

-----------------------------------------------------------------------------
(* subscribeMarketStream.                                                  *)

\* Faulty variant: only the first stream of an asset is counted.
OneMoreIfNew(p) ==
    [a \in Assets |-> IF a \in AssetsOf[p] \ Referenced THEN 1 ELSE refs[a]]

OneMore(p) == [a \in Assets |-> IF a \in AssetsOf[p] THEN refs[a] + 1 ELSE refs[a]]

AddMarketRefs(p) ==
    /\ p \in Streams
    /\ pc[p] = "idle"
    /\ refs' = OneMore(p)
    /\ frame' = [frame EXCEPT ![p] = AssetsOf[p] \ Referenced]
    /\ custom' = (custom \/ p \in Custom)
    /\ Goes(p, "ensure")
    /\ UNCHANGED <<open, link, resub, server, ending, trouble>>

\* A stream that adds no asset sends no frame.
AfterEnsure(p) == IF frame[p] = {} THEN "register" ELSE "write"

\* A call that returns an error does not give its references back.
EnsureConn(p) ==
    /\ pc[p] = "ensure"
    /\ \/ /\ link # "nil"
          /\ Goes(p, AfterEnsure(p))
          /\ UNCHANGED <<link, server, faults>>
       \/ /\ link = "nil"
          /\ link' = "ok"
          /\ ServerForgets
          /\ Goes(p, AfterEnsure(p))
          /\ UNCHANGED faults
       \/ /\ link = "nil"
          /\ Fault
          /\ Goes(p, "failed")
          /\ UNCHANGED <<link, server>>
    /\ UNCHANGED <<book, frame, open, resub, ending, gaveUp>>

\* On a dead connection a write may still succeed, into nothing.
WriteSubscribe(p) ==
    /\ p \in Streams
    /\ pc[p] = "write"
    /\ \/ /\ link = "ok"
          /\ SubscribeFrame(frame[p], p \in Custom)
          /\ Goes(p, "register")
       \/ /\ link = "dead"
          /\ Goes(p, "register")
          /\ UNCHANGED server
       \/ /\ link # "ok"
          /\ Goes(p, "failed")
          /\ UNCHANGED server
    /\ UNCHANGED <<book, frame, open, link, resub, ending, trouble>>

Register(p) ==
    /\ pc[p] = "register"
    /\ open' = open \cup {p}
    /\ Goes(p, "live")
    /\ UNCHANGED <<book, frame, link, resub, server, ending, trouble>>

-----------------------------------------------------------------------------
(* closeMarketStream and the unsubscribe requests.                         *)

\* Stream.Close, or its context is done.  The stream of a closed client is
\* closed already and gives nothing back.
CloseStream(p) ==
    /\ p \in CanClose
    /\ pc[p] = "live"
    /\ open' = open \ {p}
    /\ Goes(p, IF p \in open THEN "release" ELSE "abandoned")
    /\ UNCHANGED <<book, frame, link, resub, server, ending, trouble>>

OneLess(p) ==
    [a \in Assets |-> IF a \in AssetsOf[p] /\ refs[a] > 0 THEN refs[a] - 1 ELSE refs[a]]

\* removeMarketRefs: assets whose last reference goes are to be unsubscribed.
RemoveMarketRefs(p, next, return) ==
    LET last == {a \in AssetsOf[p] : refs[a] = 1}
    IN  /\ refs' = OneLess(p)
        /\ frame' = [frame EXCEPT ![p] = last]
        /\ Goes(p, IF last = {} THEN return ELSE next)
        /\ UNCHANGED <<custom, open, link, resub, server, ending, trouble>>

ReleaseStream(p) ==
    /\ pc[p] = "release"
    /\ RemoveMarketRefs(p, "unsubscribe", "closed")

RequestUnsubscribe(p) ==
    /\ p \in Requests
    /\ pc[p] = "idle"
    /\ RemoveMarketRefs(p, "ensure", "returned")

\* Errors of the write are dropped by the stream; the request returns them.
WriteUnsubscribe(p) ==
    /\ \/ pc[p] = "unsubscribe"
       \/ p \in Requests /\ pc[p] = "write"
    /\ IF link = "ok" THEN UnsubscribeFrame(frame[p]) ELSE UNCHANGED server
    /\ Goes(p, CASE p \in Streams -> "closed"
                 [] p \in Requests /\ link = "ok" -> "returned"
                 [] p \in Requests /\ link # "ok" -> "failed")
    /\ UNCHANGED <<book, frame, open, link, resub, ending, trouble>>

-----------------------------------------------------------------------------
(* The connection.  A readLoop whose read fails reconnects, unless the     *)
(* client is closing.                                                      *)

\* A readLoop ends, which shuts a closing client down.
Leaves == exiting' = (exiting \/ closing)

\* The peer goes away, or pingLoop closes the connection for want of a pong.
LinkFails ==
    /\ link = "ok"
    /\ Fault
    /\ \/ /\ link' \in {"dead", "nil"}
          /\ pending' = IF closing THEN pending ELSE pending + 1
          /\ UNCHANGED gaveUp
       \/ /\ GivesUp
          /\ gaveUp' = TRUE
          /\ link' = "nil"
          /\ UNCHANGED pending
    /\ ServerForgets
    /\ Leaves
    /\ UNCHANGED <<book, pc, frame, open, snapDue, snaps, closer, shut>>

\* reconnectLoop closes the connection there is, which is then the end of
\* another readLoop's if it worked, and dials.
AnotherFails == IF link = "ok" /\ ~closing THEN 1 ELSE 0

\* Faulty variant: the new connection is not told of the subscriptions.
ResubscribesNot == UNCHANGED snapDue

Resubscribes == snapDue' = snapDue + 1

\* Also when the client began to close during the backoff.
Reconnected ==
    /\ pending > 0
    /\ snapDue < MaxResubs
    /\ link' = "ok"
    /\ ServerForgets
    /\ pending' = pending - 1 + AnotherFails
    /\ Resubscribes
    /\ IF link = "ok" THEN Leaves ELSE UNCHANGED exiting
    /\ UNCHANGED <<book, pc, frame, open, snaps, closer, shut, trouble>>

ReconnectGivesUp ==
    /\ GivesUp
    /\ pending > 0
    /\ Fault
    /\ gaveUp' = TRUE
    /\ link' = "nil"
    /\ ServerForgets
    /\ pending' = pending - 1 + AnotherFails
    /\ Leaves
    /\ UNCHANGED <<book, pc, frame, open, snapDue, snaps, closer, shut>>

\* reconnectLoop finds the client closing.  Only after a failed attempt does
\* its readLoop take that for an error and go on to shutdown.
ReconnectStops ==
    /\ closing
    /\ pending > 0
    /\ pending' = pending - 1
    /\ UNCHANGED exiting \/ Leaves
    /\ UNCHANGED <<book, pc, frame, open, link, snapDue, snaps, server, closer, shut,
                   trouble>>

\* resubscribe: the snapshot under subMu ...
Snapshot ==
    /\ snapDue > 0
    /\ snapDue' = snapDue - 1
    /\ snaps' = IF Referenced = {} THEN snaps
                ELSE snaps \cup {[assets |-> Referenced, custom |-> custom]}
    /\ UNCHANGED <<book, pc, frame, open, link, pending, server, ending, trouble>>

\* ... and the frame, on whatever connection there is by then.
WriteResubscribe(s) ==
    /\ s \in snaps
    /\ snaps' = snaps \ {s}
    /\ IF link = "ok" THEN SubscribeFrame(s.assets, s.custom) ELSE UNCHANGED server
    /\ UNCHANGED <<book, pc, frame, open, link, pending, snapDue, ending, trouble>>

-----------------------------------------------------------------------------
(* Close of the client: cleanupSubscriptions, closeConn, closeAllStreams,  *)
(* shutdown, which a readLoop that leaves may have done already.           *)

CloseBegins ==
    /\ Closes
    /\ closer = "idle"
    /\ closer' = "cleanup"
    /\ UNCHANGED <<book, pc, frame, open, link, resub, server, exiting, shut, trouble>>

CloseCleansUp ==
    /\ closer = "cleanup"
    /\ IF link = "ok" THEN UnsubscribeFrame(Referenced) ELSE UNCHANGED server
    /\ closer' = "conn"
    /\ UNCHANGED <<book, pc, frame, open, link, resub, exiting, shut, trouble>>

CloseDropsConn ==
    /\ closer = "conn"
    /\ link' = "nil"
    /\ ServerForgets
    /\ IF link = "ok" THEN Leaves ELSE UNCHANGED exiting
    /\ closer' = "streams"
    /\ UNCHANGED <<book, pc, frame, open, resub, shut, trouble>>

CloseAllStreams ==
    /\ closer = "streams"
    /\ open' = {}
    /\ closer' = "shutdown"
    /\ UNCHANGED <<book, pc, frame, link, resub, server, exiting, shut, trouble>>

\* shutdown closes the streams once more, the first time it is called.
Shutdown ==
    /\ shut' = TRUE
    /\ open' = IF shut THEN open ELSE {}

CloseShutsDown ==
    /\ closer = "shutdown"
    /\ Shutdown
    /\ closer' = "returned"
    /\ UNCHANGED <<book, pc, frame, link, resub, server, exiting, trouble>>

ReaderShutsDown ==
    /\ exiting
    /\ ~shut
    /\ Shutdown
    /\ UNCHANGED <<book, pc, frame, link, resub, server, closer, exiting, trouble>>

Next ==
    \/ \E p \in Calls :
          \/ AddMarketRefs(p) \/ EnsureConn(p) \/ WriteSubscribe(p) \/ Register(p)
          \/ CloseStream(p) \/ ReleaseStream(p) \/ RequestUnsubscribe(p)
          \/ WriteUnsubscribe(p)
    \/ LinkFails \/ Reconnected \/ ReconnectGivesUp \/ ReconnectStops \/ Snapshot
    \/ \E s \in snaps : WriteResubscribe(s)
    \/ CloseBegins \/ CloseCleansUp \/ CloseDropsConn \/ CloseAllStreams
    \/ CloseShutsDown \/ ReaderShutsDown

Spec == Init /\ [][Next]_vars

-----------------------------------------------------------------------------
TypeOK ==
    /\ refs \in [Assets -> Nat]
    /\ custom \in BOOLEAN
    /\ pc \in [Calls -> {"idle", "ensure", "write", "register", "live", "failed",
                         "release", "unsubscribe", "closed", "abandoned", "returned"}]
    /\ frame \in [Calls -> SUBSET Assets]
    /\ open \subseteq Streams
    /\ link \in {"ok", "dead", "nil"}
    /\ pending \in Nat
    /\ snapDue \in 0 .. MaxResubs
    /\ snaps \subseteq [assets : SUBSET Assets, custom : BOOLEAN]
    /\ srv \subseteq Assets
    /\ srvCustom \subseteq srv
    /\ closer \in {"idle", "cleanup", "conn", "streams", "shutdown", "returned"}
    /\ exiting \in BOOLEAN
    /\ shut \in BOOLEAN
    /\ faults \in 0 .. MaxFaults
    /\ gaveUp \in BOOLEAN

\* A stream holds its references from addMarketRefs to removeMarketRefs, and
\* for good when its call fails or the client's Close closes it.
Holders(a) ==
    {p \in Streams : /\ a \in AssetsOf[p]
                     /\ pc[p] \in {"ensure", "write", "register", "live", "failed",
                                   "release", "abandoned"}}

\* Unsubscribe requests that took a reference they did not add.
Takers(a) == {u \in Requests : a \in AssetsOf[u] /\ pc[u] # "idle"}

(* Reference counts are exact, whatever the calls, their failures and the  *)
(* closes interleave: an asset's count is the number of streams that hold  *)
(* it, less at most one for each unsubscribe request that named it.        *)
RefsMatchHolders ==
    \A a \in Assets :
        /\ refs[a] <= Cardinality(Holders(a))
        /\ Cardinality(Holders(a)) <= refs[a] + Cardinality(Takers(a))

\* No frame is on its way and the connection is up.
Settled ==
    /\ link = "ok"
    /\ pending = 0
    /\ snapDue = 0
    /\ snaps = {}
    /\ \A p \in Calls : pc[p] \notin {"ensure", "write", "register", "release", "unsubscribe"}

\* No other call has given the asset up, and Close has not begun.
Kept(a, p) ==
    /\ closer = "idle"
    /\ \A q \in Calls \ {p} :
          a \in AssetsOf[q] =>
              pc[q] \in IF q \in Streams THEN {"idle", "register", "live", "failed"} ELSE {"idle"}

(* "SubscribeOrderbook subscribes to L2 order book snapshots and updates   *)
(* for specific assets" (client.go:31): whenever things have settled, the  *)
(* server sends every asset of an open stream that no other call has given *)
(* up meanwhile, through broken connections, writes into nothing, failed   *)
(* Subscribes and streams that open at the same time.  (Not if a readLoop  *)
(* gave up, and not if an unsubscribe of the same asset is under way: a    *)
(* later subscribe may overtake its frame.)                                *)
KeptAssetsServed ==
    Settled /\ ~gaveUp =>
        \A p \in open : \A a \in AssetsOf[p] : Kept(a, p) => a \in srv
=============================================================================
