--------------------------- MODULE WsUserChannel ---------------------------
(***************************************************************************)
(* Credentials on the user channel of pkg/clob/ws: Authenticate and        *)
(* Deauthenticate set c.apiKey and clear c.lastAuth, subscribes use the    *)
(* one or the other and remember it in c.lastAuth, and resubscribe has     *)
(* nothing but that.  References, frames and the connection are as in      *)
(* WsSubscriptions and are kept small here: frames name all markets of a   *)
(* call, connections do not run out, and Close is left out.                *)
(***************************************************************************)
EXTENDS Naturals, FiniteSets

CONSTANTS
    Markets,        \* condition ids
    UserStreams,    \* calls of subscribeUserStream, with the stream of each
    MarketsOf,      \* the markets of each
    ApiKeys,        \* API keys
    NoKey,          \* none
    MaxSwitches,    \* bound: calls of Authenticate and Deauthenticate
    MaxBreaks,      \* bound: connections that break or fail to open
    MaxResubs       \* bound: reconnectLoops that dialed and have no snapshot yet

VARIABLES
    apiKey,     \* c.apiKey
    lastAuth,   \* c.lastAuth
    setter,     \* Authenticate or Deauthenticate: idle, forget or drop
    switches,   \* calls of them so far
    leftover,   \* replaced keys that a call or a snapshot held at that time
    at,         \* where each stream is
    auth,       \* the key each call has resolved
    naming,     \* the markets the frame of each call names
    userRefs,   \* c.userRefs
    link,       \* the connection: ok, dead or nil
    redials,    \* readLoops that will reconnect
    resubs,     \* reconnectLoops that dialed and have not taken a snapshot
    snaps,      \* snapshots not yet written: markets and key
    served,     \* the key under which the server sends each market
    breaks      \* connections broken so far

creds == <<apiKey, lastAuth, setter, switches, leftover>>
calls == <<at, auth, naming, userRefs>>
conn == <<link, redials, resubs, snaps, served, breaks>>
userVars == <<creds, calls, conn>>

Unserved == [m \in Markets |-> NoKey]

UserInit ==
    /\ apiKey \in ApiKeys \cup {NoKey}
    /\ lastAuth = NoKey
    /\ setter = "idle"
    /\ switches = 0
    /\ leftover = {}
    /\ at = [p \in UserStreams |-> "idle"]
    /\ auth = [p \in UserStreams |-> NoKey]
    /\ naming = [p \in UserStreams |-> {}]
    /\ userRefs = [m \in Markets |-> 0]
    /\ link = "nil"
    /\ redials = 0
    /\ resubs = 0
    /\ snaps = {}
    /\ served = Unserved
    /\ breaks = 0

Moves(p, there) == at' = [at EXCEPT ![p] = there]

\* A call between its key and its frame.
Holds(p) == at[p] \in {"refs", "ensure", "write"}

KeysInHand == {auth[p] : p \in {q \in UserStreams : Holds(q)}} \cup {s.key : s \in snaps}

\* A call or a reconnect is under way.
UnderWay ==
    \/ \E p \in UserStreams : Holds(p) \/ at[p] = "tell"
    \/ redials > 0 \/ resubs > 0 \/ snaps # {}

\* Frames, on a connection that works.
Subscribed(markets, k) ==
    served' = IF link = "ok" THEN [m \in Markets |-> IF m \in markets THEN k ELSE served[m]]
              ELSE served

-----------------------------------------------------------------------------
(* Authenticate and Deauthenticate.                                        *)

\* Faulty variant: lastAuth is kept.
KeepsAuth == UNCHANGED lastAuth

ForgetsAuth == lastAuth' = NoKey

SetApiKey(k) ==
    /\ setter = "idle"
    /\ switches < MaxSwitches
    /\ switches' = switches + 1
    /\ apiKey' = k
    /\ setter' = "forget"
    /\ leftover' = leftover \cup KeysInHand
    /\ UNCHANGED <<lastAuth, calls, conn>>

ForgetLastAuth ==
    /\ setter = "forget"
    /\ ForgetsAuth
    /\ setter' = IF apiKey = NoKey THEN "drop" ELSE "idle"
    /\ UNCHANGED <<apiKey, switches, leftover, calls, conn>>

\* A readLoop that is reading takes this for a failure and reconnects.
DropUserConn ==
    /\ setter = "drop"
    /\ setter' = "idle"
    /\ link' = "nil"
    /\ served' = Unserved
    /\ redials' \in {redials, IF link = "ok" THEN redials + 1 ELSE redials}
    /\ UNCHANGED <<apiKey, lastAuth, switches, leftover, calls, resubs, snaps, breaks>>

-----------------------------------------------------------------------------
(* subscribeUserStream and closeUserStream.                                *)

Resolved == IF apiKey # NoKey THEN apiKey ELSE lastAuth

\* The old key can still be taken from c.lastAuth until that is cleared.
Takes(k) ==
    leftover' = IF setter = "forget" THEN leftover \cup ({k} \ {apiKey, NoKey}) ELSE leftover

ResolveAuth(p) ==
    /\ at[p] = "idle"
    /\ auth' = [auth EXCEPT ![p] = Resolved]
    /\ Moves(p, IF Resolved = NoKey THEN "refused" ELSE "refs")
    /\ Takes(Resolved)
    /\ UNCHANGED <<apiKey, lastAuth, setter, switches, naming, userRefs, conn>>

\* addUserRefs: the frame will name the markets nobody has asked for yet.
AddUserRefs(p) ==
    /\ at[p] = "refs"
    /\ lastAuth' = auth[p]
    /\ naming' = [naming EXCEPT ![p] = {m \in MarketsOf[p] : userRefs[m] = 0}]
    /\ userRefs' = [m \in Markets |-> userRefs[m] + (IF m \in MarketsOf[p] THEN 1 ELSE 0)]
    /\ Moves(p, "ensure")
    /\ UNCHANGED <<apiKey, setter, switches, leftover, auth, conn>>

\* Where it fails, the references stay.
EnsureUserConn(p) ==
    /\ at[p] = "ensure"
    /\ \/ link # "nil" /\ Moves(p, "write") /\ UNCHANGED <<link, served, breaks>>
       \/ link = "nil" /\ link' = "ok" /\ served' = Unserved /\ Moves(p, "write")
          /\ UNCHANGED breaks
       \/ /\ link = "nil" /\ breaks < MaxBreaks
          /\ breaks' = breaks + 1
          /\ Moves(p, "failed")
          /\ UNCHANGED <<link, served>>
    /\ UNCHANGED <<creds, auth, naming, userRefs, redials, resubs, snaps>>

WriteUserFrame(p) ==
    /\ at[p] = "write"
    /\ \/ Subscribed(naming[p], auth[p]) /\ Moves(p, "live")
       \/ link # "ok" /\ naming[p] # {} /\ Moves(p, "failed") /\ UNCHANGED served
    /\ UNCHANGED <<creds, auth, naming, userRefs, link, redials, resubs, snaps, breaks>>

\* removeUserRefs, and the key if there is something to say.
CloseUserStream(p) ==
    /\ at[p] = "live"
    /\ userRefs' = [m \in Markets |-> userRefs[m] - (IF m \in MarketsOf[p] THEN 1 ELSE 0)]
    /\ naming' = [naming EXCEPT ![p] = {m \in MarketsOf[p] : userRefs[m] = 1}]
    /\ auth' = [auth EXCEPT ![p] = Resolved]
    /\ Moves(p, "tell")
    /\ UNCHANGED <<creds, conn>>

\* The unsubscribe frame, if there is a key to put into it.
WriteUnsubscribe(p) ==
    /\ at[p] = "tell"
    /\ IF auth[p] # NoKey THEN Subscribed(naming[p], NoKey) ELSE UNCHANGED served
    /\ Moves(p, "closed")
    /\ UNCHANGED <<creds, auth, naming, userRefs, link, redials, resubs, snaps, breaks>>

-----------------------------------------------------------------------------
(* The connection.                                                         *)

UserLinkBreaks ==
    /\ link = "ok"
    /\ breaks < MaxBreaks
    /\ breaks' = breaks + 1
    /\ link' = "dead"
    /\ served' = Unserved
    /\ redials' = redials + 1
    /\ UNCHANGED <<creds, calls, resubs, snaps>>

\* The new connection; a healthy one in its place is closed, and its
\* readLoop is the next to reconnect.
Redialed ==
    /\ redials > 0 /\ resubs < MaxResubs
    /\ link' = "ok"
    /\ served' = Unserved
    /\ redials' = IF link = "ok" THEN redials ELSE redials - 1
    /\ resubs' = resubs + 1
    /\ UNCHANGED <<creds, calls, snaps, breaks>>

Referenced == {m \in Markets : userRefs[m] > 0}

\* Faulty variant: only markets with one stream.
SnapshotOfSingles == {m \in Markets : userRefs[m] = 1}

SnapshotOfMarkets == Referenced

\* resubscribe: nothing is sent without a key.
UserSnapshot ==
    /\ resubs > 0
    /\ resubs' = resubs - 1
    /\ snaps' = IF Referenced = {} \/ lastAuth = NoKey THEN snaps
                ELSE snaps \cup {[markets |-> SnapshotOfMarkets, key |-> lastAuth]}
    /\ Takes(lastAuth)
    /\ UNCHANGED <<apiKey, lastAuth, setter, switches, calls, link, redials, served, breaks>>

WriteUserSnapshot(s) ==
    /\ snaps' = snaps \ {s}
    /\ Subscribed(s.markets, s.key)
    /\ UNCHANGED <<creds, calls, link, redials, resubs, breaks>>

-----------------------------------------------------------------------------
UserNext ==
    \/ \E k \in ApiKeys \cup {NoKey} : SetApiKey(k)
    \/ ForgetLastAuth \/ DropUserConn
    \/ \E p \in UserStreams :
          \/ ResolveAuth(p) \/ AddUserRefs(p) \/ EnsureUserConn(p) \/ WriteUserFrame(p)
          \/ CloseUserStream(p) \/ WriteUnsubscribe(p)
    \/ UserLinkBreaks \/ Redialed \/ UserSnapshot
    \/ \E s \in snaps : WriteUserSnapshot(s)

UserSpec == UserInit /\ [][UserNext]_userVars

-----------------------------------------------------------------------------
(* "Deauthenticate clears API credentials for private user streams."       *)
(* (client.go:19): once Authenticate or Deauthenticate has returned, the   *)
(* only keys remembered, about to be sent or in the snapshot of a          *)
(* reconnect are the one set last and those that a call or a snapshot had  *)
(* in hand while they were replaced; and without a key the server sends    *)
(* nothing but what those asked for.  Subscriptions sent earlier stay      *)
(* under their old key when another one replaces it.                       *)
KeysAreTheLastSet ==
    setter = "idle" =>
        /\ lastAuth \in {NoKey, apiKey} \cup leftover
        /\ KeysInHand \subseteq ({apiKey} \cup leftover) \ {NoKey}
        /\ apiKey = NoKey => \A m \in Markets : served[m] \in {NoKey} \cup leftover

(* Streams of a client whose key stays the same are served again after     *)
(* every reconnect, while other streams open and connections break, as     *)
(* long as no stream was closed and no call failed: one that fails keeps   *)
(* its references, and later calls for its markets send no frame.          *)
UserStreamsServed ==
    switches = 0 /\ link = "ok" /\ ~UnderWay
        /\ (\A p \in UserStreams : at[p] \notin {"closed", "failed"}) =>
            \A p \in UserStreams : at[p] = "live" =>
                \A m \in MarketsOf[p] : served[m] # NoKey
=============================================================================
