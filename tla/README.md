# TLA+ models of polymarket-go-sdk

A Go SDK for Polymarket: REST clients over a shared HTTP transport, WebSocket
clients for market data and account events, order building and signing, and
small execution and bot layers on top. This directory holds TLA+ models of the
parts of it that keep state, run concurrently or compute something delicate,
TLC configurations that check them on small instances, and theorems that TLAPS
proves for every instance.

Run from this directory, with the CommunityModules and TLAPS libraries on the
path:

    tlc -config CircuitBreaker.cfg MCCircuitBreaker
    tlapm CircuitBreakerProofs.tla

`PROJECT.json` lists every run, theorem and finding, and gives the source lines
of each definition.

## 1. The system

| component | state | operations | interacts with |
|---|---|---|---|
| circuit breaker (`pkg/transport/circuitbreaker.go`) | circuit state, failure count, half-open counters, last failure time, one mutex | Call, CallWithFailurePredicate, Reset | wraps each transport call, on the caller's goroutine |
| rate limiter (`pkg/transport/ratelimit.go`) | tokens, last refill, stopped | Wait, TryAcquire, Stop | inside the breaker, before the request |
| transport call (`pkg/transport/transport.go`) | credentials, base URL | Call, doCall (retry loop with backoff), Clone | breaker, limiter, `net/http` |
| CLOB WebSocket connection (`pkg/clob/ws/impl.go`, `lifecycle.go`) | per channel: connection, goroutine context, init mutex, state, last pong; per client: closing, done | ensureConn, readLoop, reconnectLoop, pingLoop, closeConn, Close, Authenticate, Deauthenticate | subscriptions (ensure, resubscribe), dispatch (messages), gorilla/websocket |
| CLOB WebSocket subscriptions (`subscriptions.go`) | reference counts per asset and market, custom flag, last auth, stream entries | Subscribe...Stream, Stream.Close, Subscribe, Unsubscribe..., resubscribe, cleanupSubscriptions | connection (writeJSON), dispatch (entries) |
| event dispatch and stream buffers (`events.go`, `subscription_manager.go`, `stream.go`) | entry channels, closed flags, global channels | processEvent, dispatch..., trySend, close | readLoop calls it, Close and shutdown close under it |
| connection state stream (`lifecycle.go`) | state subscribers | setConnState, ConnectionStateStream | every loop of the connection |
| RTDS client (`pkg/rtds`) | connection, connReady, done, reference counts and details per topic and type, entries | run, connect, pingLoop, subscribeRaw, unsubscribe..., resubscribeAll, Close | a second WebSocket service, with a simpler loop |
| client derivation and heartbeats (`pkg/clob/impl.go`) | credentials, interval, stop channel of the heartbeat goroutine | With..., PromoteToBuilder, StopHeartbeats | each derived client may start a goroutine |
| metadata caches (`pkg/clob/impl.go`, `impl_market.go`) | tick sizes, fee rates, neg-risk flags, shared by derived clients | TickSize, FeeRate, NegRisk, Set..., InvalidateCaches | order builder and signing read them |
| pagination streams (`pkg/clob/stream.go`) | cursor, output channel | StreamData, StreamDataWithCursor | a fetch function, a consumer, a context |
| pages of lists (`...All` of `pkg/clob` and `pkg/gamma`) | cursor or offset, results so far | one loop each | a list that changes on the server |
| order building (`order_builder*.go`) | the order under construction | Build..., resolveTickSize, resolveMarketPrice | tick size cache, book |
| order placement (`impl_orders.go`, `order_payload.go`) | the caller's order, which signing writes to | CreateOrder, sign, PostOrder, fallback to the other exchange version | caches, transport |
| authentication (`pkg/auth`, `doCall`, `impl_account.go`, `cmd/signer-server`) | headers of a request | BuildL1/L2Headers, builder headers here or from a signing service, CreateOrDeriveAPIKey | transport, the exchange's clock |
| on-chain calls (`pkg/ctf`, `pkg/bridge`) | the account's nonce, at the node | split, merge, redeem, approve, deposit, withdraw | an Ethereum node |
| execution layer (`pkg/execution`) | none | Place, Cancel, Query, Replay, retry and reconnect policies, idempotency keys | CLOB client |
| bot (`pkg/bot`, `cmd/polymarket-bot`) | configuration | scan, plan, risk check, confirm, execute | CLOB client, order builder |
| REST queries, KMS, types, errors, logger, other commands | none that lasts | one request and one reply each | transport |

What is hard in it, and what makes each part correct:

* **Breaker.** Requests run outside the mutex, so an outcome meets a state that
  did not admit it. Correct: counters agree with the state, probes are limited,
  the half-open state can be left, the circuit closes after recovery.
* **Connection.** Up to seven kinds of actors (Subscribes, old and new
  readLoops and pingLoops, a reconnectLoop in its backoff, Close,
  Deauthenticate) share one connection pointer, one context and one mutex that
  only some of them take. Correct: nothing is leaked, each connection has its
  one reader, a broken one is replaced, Close ends everything.
* **Subscriptions.** Counts and frames are changed under different mutexes and
  the server forgets everything with the connection. Correct: counts match
  their holders; when things settle the server sends what open streams want
  and nothing that nobody wants.
* **Dispatch.** Sends race with closes; a slow reader loses messages. Correct:
  no send on a closed channel escapes, order per stream is kept, losses are
  reported.
* **Transport.** Retries repeat requests, waits are cancelled. Correct: the
  limiter never exceeds its rate, attempts are bounded, the breaker sees one
  outcome per call.
* **RTDS.** A run loop that can end while subscribers wait; shared
  subscriptions; Close between the steps of all the others. Correct: the counts
  are those of the open streams, open streams are served after every reconnect,
  Close leaves nothing, nobody waits for ever.
* **Heartbeats, pagination.** Goroutines of derived clients; lists that change
  between two pages, a consumer that leaves. Correct: a promoted client never
  beats again; nothing is skipped silently; a cancelled loop ends.
* **Orders.** The caller's order is written to by each signing; a request is
  repeated by the transport, the fallback and the strategy. Correct: an order is
  taken once, and what the strategy is told is true.
* **Requests.** Headers are made for attempts that happen seconds apart, by
  several signers. Correct: the exchange can verify each attempt.
* **Builder and bot.** Rounding at places that depend on a tick size that may
  be stale. Correct: the order can be filled by the book that was read, at a
  price no worse than needed, and amounts keep the ratio of the price; the bot
  trades only when told.
* **Chain.** Nonces taken by concurrent calls, errors before and after sending.
  Correct: a call repeated after "not sent" never sends twice.

PROJECT.json lists these hazards one by one, at their lines.

## 2. Plan

Most important first. Modules a theorem is stated about have no RECURSIVE
operator.

| order | modules | state |
|---|---|---|
| 1 | `CircuitBreaker`, `MCCircuitBreaker`, `CircuitBreakerProofs` | done |
| 2 | `SocketSlot` (abstract), `WsConnection`, which implements it, `MCWsConnection`, `WsConnectionProofs` | done |
| 3 | `WsSubscriptions`, `MCWsSubscriptions`, `WsSubscriptionsProofs`; `WsUserChannel` for the credentials | done |
| 4 | `RateLimiter`, and `TransportCall`, which composes breaker, limiter and retry loop; `MCTransportCall`, `TransportCallProofs` | done |
| 5 | `SubscriptionBook` (abstract), `Rtds`, which implements it, `MCRtds`, `RtdsProofs` | done |
| 6 | `EventStreams` for both WebSocket clients, `MCEventStreams`, `EventStreamsProofs` | done |
| 7 | `Orders`, `RequestSigning`, `ChainCalls`, `Paging`, `ClobHeartbeats`, `IdempotencyKeys`, `Backoffs`; `SdkParts` and `MCSdkParts` check them in one run, with `WsUserChannel`; `SdkPartsProofs` | done |
| 8 | `OrderBuilder`, and `TradingBot`, which drives it; `MCTrading`, `TradingProofs` | done |
| 9 | the order lifecycle events of `pkg/execution`, batches of orders, mapStream of `pkg/rtds` | not begun |

Runs are kept at two or three actors and two or three faults. Every invariant a
run checks is to be a theorem, where it says more than the shape of its model;
of what is left, the refinements of `SocketSlot` and of `SubscriptionBook`
are proved, and the liveness properties stay with TLC; where one of
them has a safety part that says who will bring it about (a goroutine that holds
the mutex, one that will see a failure, a run that is not over), that part is
stated on its own and proved.

## 3. The models

Constants name the environment (how many callers, which faults, what the
application does); every bound is a constant whose comment says "bound". In
each module the faulty variant of a helper stands before the helper and is
used by nothing: it records a plausible bug that the stated property catches
(`mutants` in PROJECT.json).

### CircuitBreaker

| variable | code | | action | code |
|---|---|---|---|---|
| `state`, `failures`, `halfOpen...` | fields of the same names | | `BeforeRequest` (`AdmitClosed`, `AdmitFirstProbe`, `AdmitProbe`) | beforeRequest, one disjunct per admission |
| `elapsed` | `time.Since(lastFailTime) > resetTimeout` | | `RecordFailure`, `RecordSuccess` | afterRequestWithPolicy |
| `running` | callers inside `fn` | | `Reset` | Reset |
| `probes` | those the current half-open period admitted (history) | | `TimePasses` | the clock |

Time is a Boolean because the code asks one question of it. A rejected call
changes nothing and is a stutter. `RecordSuccess` is also what an error that
`shouldCountCircuitBreakerFailure` does not count comes to.

### WsConnection and SocketSlot

One channel. An attempt to dial gets a number, which also names the context
created for it, the connection it yields and the two loops started for it.

| variable | code |
|---|---|
| `conn`, `closed`, `broken` | `c.conn` / `c.userConn`; connections closed locally; connections whose reads fail |
| `dials`, `cancelled` | the current `marketCtx` / `userCtx` is number `dials`; contexts cancelled |
| `initMu` | `marketInitMu` / `userInitMu` |
| `connState`, `closing`, `done` | `marketState` / `userState`, `closing`, `c.done` closed |
| `rpc`, `rctx`, `rconn`, `attempt` | each readLoop with its local ctx, conn and the attempt of the reconnectLoop it runs |
| `ppc`, `pctx` | each pingLoop and its ctx |
| `epc`, `cpc`, `dpc` | the calls of ensureConn, Close, Deauthenticate |

A step is one critical section or one blocking call. `closeConn` is two steps,
as in the code: cancel the current context, then take out and close the current
connection. A loop takes the context of the moment it first runs. A readLoop
looks at the context at the top of its loop only. A successful ping or message
changes nothing that is modelled. The backoff is a place between two steps; its
length is left out, and so are the read deadline (a broken connection) and the
last pong (`PongOverdue` may happen at any tick). `attempt` counts up to
`ReconnectMax`; without a limit only whether there was an attempt matters to the
code.

`SocketSlot` says what a channel promises of its sockets, without goroutines,
contexts or mutexes: a place for one, which is filled only when it is empty and
emptied only by closing what is in it. `ImplementsSlot` maps the place to `conn`
and the sockets that are gone to `closed`.

The market and the user channel run this same code over separate fields; what
they share, `closing` and `done`, only Close and shutdown set.

### WsSubscriptions

| variable | code | | action | code |
|---|---|---|---|---|
| `refs`, `custom` | `marketRefs`, `customFeatures` | | `AddMarketRefs`, `EnsureConn`, `WriteSubscribe`, `Register` | subscribeMarketStream |
| `pc`, `frame` | where each call is; `newAssets` / `toUnsub` | | `CloseStream`, `ReleaseStream`, `WriteUnsubscribe` | closeMarketStream |
| `open` | entries registered and not closed | | `RequestUnsubscribe` and on | applySubscription, unsubscribe |
| `link` | the connection: ok, dead, nil | | `LinkFails`, `Reconnected`, `ReconnectGivesUp`, `ReconnectStops` | readLoop and reconnectLoop as seen from here |
| `pending`, `snapDue`, `snaps` | readLoops to reconnect, resubscribes to come, snapshots not yet written | | `Snapshot`, `WriteResubscribe` | resubscribe |
| `srv`, `srvCustom` | what the server sends on the current connection (external) | | `CloseBegins` ... `CloseShutsDown`, `ReaderShutsDown` | Close, shutdown |

The connection is the abstraction of WsConnection that the subscriptions see.
A write on a dead connection may succeed into nothing. The server is assumed to
do what frames say and to forget all with the connection. A raw Subscribe
request takes references as a stream does and has no stream to close; it is not
modelled apart.

### RateLimiter and TransportCall

TransportCall instantiates CircuitBreaker and RateLimiter on its own variables;
an action of a call is a conjunction of what it does to each part.

| variable | code | | action | code |
|---|---|---|---|---|
| `tokens`, `idle`, `stopped` | `tokens`, the time since `lastRefill`, `stopped` | | `WaitTakes`, `WaitSleeps`, `WaitWakes`, `WaitCancelled`, `WaitStopped` | Wait, one round of its loop under the lock each |
| `at`, `timer` | where each caller is in Wait | | `TryAcquire`, `Look`, `Stop` | TryAcquire, Available, Stop |
| `excess` | none (history) | | `Call`, `LimitFails`, `Return` | CallWithFailurePredicate around Wait and doCall |
| `pc`, `attempt`, `outcome` | doCall's loop, `lastErr` | | `RequestEnds`, `AttemptFails`, `BackoffEnds`, `BackoffCancelled` | one round of doCall's loop |
| `ctxDone` | contexts that are done | | `ContextEnds`, `TimePasses` | the caller, the clock |

Time runs in units of the bucket, so its arithmetic is exact where the code's is
floating point. `idle` stops at a full bucket, beyond which time makes no
difference; the model therefore needs no bound on time. `excess` is what makes
"in every period" a statement about one state: the largest amount, over all
periods ending now, by which the units taken exceed the period's length. An
outcome is its class: what matters is whether doCall tries again and whether
`shouldCountCircuitBreakerFailure` counts it. The model has a client with both
parts; without one of them the code skips it.

### Rtds and SubscriptionBook

| variable | code | | action | code |
|---|---|---|---|---|
| `conn`, `ready`, `done`, `state` | `c.conn`, `connReady`, `done`, `c.state` | | `DialSucceeds`, `DialFails`, `ConnectReports`, `TakeSnapshot`, `SendSnapshot`, `ReadFails`, `RunWakes` | run, connect, resubscribeAll, readLoop |
| `run`, `attempts`, `snap` | where the run goroutine is; its attempts; its snapshot | | `PingFails`, `PingReports`, `PingEnds` | pingLoop |
| `refs`, `detail`, `subs` | `subRefs`, `subDetails`, `subs` | | `SubscribeBegins`, `Subscribe`, `SubscribeGivesUp` | subscribeRaw |
| `pc`, `picked` | where each call is | | `UnsubscribeByID`, `CloseStream`, `PickEntry`, `RemovePicked` | unsubscribeByID, unsubscribeTopic |
| `srv` | what the server sends (external) | | `CloseBegins` ... `CloseSignals` | Close |
| `asked` | none (history): the streams whose subscription a key was asked for, since its first stream | | | |

subscribeRaw and unsubscribeByID hold `subMu` while they write their frame, so
each is one step; that is why, unlike in `WsSubscriptions`, frames cannot pass
each other. `SubscriptionBook` says what sharing subscriptions promises, without
counts: a key is wanted as long as one of its streams is open. `ImplementsBook`
maps `open` to `subs` and `wanted` to the keys that are counted.

### EventStreams

Both WebSocket clients deliver alike: take a snapshot of the entries under a
lock, send after the unlock, never block. `client` says which of the two
disciplines a behaviour is about: an entry of `ws` has a lock, which a sender
holds for reading from its check (`CheckEntry`) to its `Send` and close for
writing (`Locked`, `MayClose`); one of `rtds` has an atomic flag, and a send that
finds the channel closed recovers (`Recovers`). The model knows of a lock only
who is inside it: that a send of `ws` never meets a closed channel is not in the
action, which would panic, but a property (`NeverPanics`).

Close is three steps, as far as streams see it: the maps are emptied and what
was in them condemned (`CloseAllStreams`), once more in shutdown (`ShutsDown`),
then the global channels are closed; each waits, in `ws`, until the entries
condemned before are closed, and those wait for whoever is sending to them.
Streams are registered at any time, also behind Close: nothing in the code
prevents it. Channels are counters (sent, received, missed, told, heard), and the last state
sent. `crossed` marks state streams for which two deliveries overlapped.

### Orders

One order of a strategy: `Place` begins an attempt of CreateOrder, `NegRisk` and
`FeeRate` are the two lookups of signing (a cache, the service, or a failure),
`Sign` writes to the caller's order, `Answered` and `Unanswered` are the
request, `SendsRunOut` is the retry policy. `posted` is what was signed: two
requests are the same order to the exchange if what was signed is the same. The
exchange takes orders of its version, for the right contract and with the
market's fee, each once; it may migrate to version 2 at any time. Salts and
timestamps are numbers that are handed out once.

### RequestSigning

A signature is the timestamp and the body it was made over. `Attempt` to
`BuilderSignsThere` are the block of doCall that runs for each attempt,
`RequestAnswered` and `RequestLost` the request. A key call (the wallet's
signature of CreateAPIKey and DeriveAPIKey) has its headers from before the
attempts, as in the code, and no timestamp property is claimed of it.

### ChainCalls

`Checked` and `Prepare` are what happens before anything is sent, `Send` gives
the node a transaction under the nonce read in `Prepare`, `WaitMined` and
`WaitEnds` are bind.WaitMined. Two calls may read the same nonce; the node takes
one transaction for it. A receipt without a block number is an error too, after
the transaction was mined. `unheard` marks that the node's answer to a send was
lost.

### Paging, ClobHeartbeats, IdempotencyKeys, Backoffs, WsUserChannel

`Paging` has the three kinds of loops over one list, as `mode`. `ClobHeartbeats`
has the clients derived from one another, with the goroutine of each.
`IdempotencyKeys` builds a key from fields with separators in them and reads it
back; strings are short sequences of the five kinds of characters the code tells
apart. `Backoffs` puts WSPolicy.NextReconnectDelay next to reconnectLoop of a
client that is configured by the policy, over whole units of time. Delays are
computed exactly up to the conversion to a Duration; what a number that is too
large becomes depends on the processor, so a policy comes with either kind
(`saturates`). The two agree only in part: the client rounds down after each
step and the policy once, so with a fraction as multiplier the client waits a
little less; below one the client stops shrinking where the next delay would
round to nothing, so it may then wait longer than the policy says, though never
longer than the base delay; a base above the cap is waited for once by the
client, and by the policy only where its number overflows or rounds to nothing; a
limit of 0 is no attempt for
one and no limit for the other. `PolicyIsFollowed` says for every
policy where they agree and how they differ where they do not.

`WsUserChannel` has the key that each call and reconnect resolved, against
Authenticate and Deauthenticate. `leftover` holds the keys that a call or a
snapshot had in hand while they were replaced: those still reach the server and
`lastAuth`. Connections and counts are kept small; `MaxResubs` bounds the
reconnectLoops that have dialed and not yet taken their snapshot, so two of them
may meet.

`SdkParts` puts these modules side by side for one run; a behaviour is about one
of them (`part`), and the others stay in their initial state.

### OrderBuilder and TradingBot

`ResolveTickSize`, `ResolveMarketPrice` and `Build` are the three places where a
builder reads what others change. An order may be built by Build, which skips
the checks of type, expiration and post-only, or by BuildSignable. An answer
that has only `tick_size`, as `impl_market.go:278` provides for, gives the
builder a minimum of 0 the first time; so a price may be cut to whole units, and
to nothing: an order of shares is then built at no price, and one of USDC divides
by it, which panics (`order_builder.go:325`). Prices are in units of 0.0001, sizes in 0.01,
amounts in 0.000001, so all arithmetic is exact on integers; `Scale` is the
number of places of a tick size. The order of a book's levels, worst first, is
what the exchange sends and the builder relies on without a look
(`order_builder_resolve.go:119`); it is assumed of `Markets`. `TradingBot` is
one run of the command, which ends in the same builder; its decimals of sixteen
places matter only in that they have more places than any tick size.

## 4. What the runs show

Passing runs:

| run | instance | shows |
|---|---|---|
| `circuit_breaker` | 3 callers, 2 failures, 2 probes | `SlotsAccounted` |
| `ws_connection` | pings, Close and Deauthenticate; 1 Subscribe call, 3 dials, 1 fault, fair | `Served`, `CloseAtRestQuiesces`, `PingersEndAfterClose` |
| `ws_connection_live` | no pings, no outside close; 2 callers with 3 calls, 5 dials, 3 faults, fair | `BrokenIsReplaced`, `EnsureReturns`, `ImplementsSlot`, `OldContextsCancelled` |
| `ws_subscriptions` | 2 streams sharing an asset, 1 unsubscribe request, 2 faults, Close | `RefsMatchHolders`, `KeptAssetsServed` |
| `transport_call` | 2 callers, 1 failure, 2 probes, 1 token of 2 units, 1 retry, fair | `RateBounded`, `ClientNeverWedged`, `RecoveryIsNoticed`, `FailureIsNoticed`, `CallsEnd` |
| `rtds` | 2 streams of one key, 1 unsubscribe request, 2 breaks, 1 attempt, Close, fair | `ImplementsBook`, `OpenStreamsServed`, `CloseLeavesNothing`, `SubscribersAnswered` |
| `event_streams` | both clients; a stream of events and one of states, buffers of 1; a reader with 3 jobs, another with 1; fair closes | `NeverPanics`, `MissesNoticed`, `LastReportCurrent`, `CloseLetsGo`, `CloseReachesStreams` |
| `sdk_parts` | lists of 3 items and pages of 2; 4 clients; 2 attempts and 2 sends of an order; fields of 3 characters; 2 user streams, 2 keys; 2 on-chain calls; 2 retries, skews of one; delays from 1 to 40, eight attempts | one property or two of each part |
| `trading` | 3 markets of 2 tick sizes, answers with and without a minimum, every kind of request, 2 changes | `FokCanFill`, `NoWorseThanNeeded`, `AmountsKeepPrice`, `BuildsOnlyWhenTold` |

Three callers let a straggler, a probe and a newcomer meet in the breaker. Three
dials let an old loop, its successor and the next one meet; two faults are what
it takes to break a connection and then fail a dial, and pong timeouts come on
top of them. What the two instances do not have together (two callers and more
faults next to Close, Deauthenticate and pings, so also a closeConn that falls
into another's dial) is covered by the theorems on `Served`,
`OldContextsCancelled` and `ImplementsSlot`, which hold for any bounds. `BrokenIsReplaced` and `EnsureReturns` make an exception for the
bound on dials: two reconnectLoops can keep closing each other's healthy
connections, and use any bound up. Two streams on one asset are what makes a
count pass 1. A token of two units makes fractions of tokens happen, and two
callers of one bucket make a sleeper wake to find its token gone. Buffers of 1
are full after one event. Two attempts of two sends each let an order be lost,
repeated by the transport and repeated by the strategy, on both sides of a
migration. Four clients make a chain of derivations with a promotion in the
middle. Three books differ in tick size, depth and in having a side at all.

`KeptAssetsServed` leaves out assets that another call gives up while a stream
opens, and clients that gave up, because the code does not serve those (below).
`OpenStreamsServed` of Rtds says of streams that share a key that the server has
the subscription of one of them, because the code keeps one for all: it may be
one that has closed meanwhile, but never one from before all were closed.

The cfgs switch the deadlock check off where the system really stops: a client
that is closed, has given up or has used its bounds, a loop that ended, an order
that is built.

Where the code disagrees with its own documentation, a run with one property
finds the disagreement (`findings` in PROJECT.json has the lines):

| run | property | what happens |
|---|---|---|
| `ws_connection_heartbeat` | `HeartbeatRecovers` | after a pong timeout the readLoop leaves on the cancelled context, and the state stays connected |
| `ws_connection_late_close` | `CloseLeavesNoConn` | reconnectLoop looks at `closing` before its backoff and not after (`lifecycle.go:85`), dials after Close (`lifecycle.go:94`) and leaves an open connection behind |
| `trading_bot` | `BuyPlansFit` | the bot's price has more decimal places than the tick size, and the builder refuses it |

The models show more disagreements and limits, which have no run of their own.
In the WebSocket client of the CLOB:

* a readLoop between its context check and its read may read the next
  connection, next to that one's own loop (`impl.go:381`, against the comment at
  `impl.go:400`);
* reconnectLoop closes a healthy connection that a Subscribe opened during its
  backoff (`lifecycle.go:109`), and a closeConn during another actor's dial
  cancels the new connection's context (`lifecycle.go:269`);
* a late unsubscribe frame of a stream that closes silences one that opens on the
  same asset (`subscriptions.go:392`); a connection that ensureConn opens after
  reconnectLoop gave up is not resubscribed (`impl.go:281`); both leave streams
  silent that `client.go:31` promises events;
* a stale resubscribe revives a subscription whose stream was closed
  (`lifecycle.go:165`); an unsubscribe request gives back one reference and
  events go on (`subscriptions.go:228`); a Subscribe under way registers its
  stream after Close (`subscriptions.go:294`), and so does ConnectionStateStream
  (`lifecycle.go:313`): `CloseLetsGo` excepts such streams; no frame is sent for a second
  stream that needs custom features the first did not ask for
  (`subscriptions.go:471`);
* after Authenticate, which forgets the last key used, a reconnect sends nothing
  for the user streams that are open; a Deauthenticate that meets a Subscribe or
  a reconnect leaves the old key in place ("clears API credentials",
  `client.go:19`); a dial that fails keeps its references, and later streams on
  those markets send no frame;
* a heartbeat timeout below the interval drops connections that work; the policy
  of `pkg/execution` corrects such values, the client does not.

In the RTDS client: streams of one topic and type with different filters get
those of the first only, and after a reconnect those of the latest; a pingLoop
may report "disconnected" after run has reconnected; Close during a dial leaves
the new connection open; Subscribe does not look at its context, and without a
limit of attempts it waits for ever for a server that cannot be reached; two
unsubscribe requests on one topic may pick the same stream. Mapped streams
(`mapping.go`) may drop buffered messages when their source is closed.

In the transport and in signing: a success of a request admitted before the
half-open period counts for it (`circuitbreaker.go:190`); cancelled calls and
timeouts are recorded as successes; one token allows up to four requests
(`transport.go:240`); requests for the server's time pass by breaker and
limiter; the signing service signs the body without replacing its quotes, which
the local signer does; the wallet's headers for a key are made once, from the
local clock, before the limiter and all attempts; an error of a signing service
ends the call without a retry.

In orders: version 2 has no expiration, so a GTD order is posted there without
one, and also after a fallback from version 2 to 1; a rejected repetition of an
order whose answer was lost is reported as rejected though the order is in the
book; both versions may take an order if the exchange migrates in between; a fee
that the service sends as text is cached and not used the first time; a failed
neg-risk lookup signs for the plain contract; one bad order fails a batch;
`stream.go:24` says of the channel of a list "Buffered to prevent goroutine leak
if consumer stops receiving", which a buffer of one does not do without a
cancelled context; WithHeartbeatInterval starts a goroutine and leaves the old
client's (`RELEASE_NOTES.md:38`); keys whose fields have ";" may collide.

In the builder and the bot: after an answer that has only `tick_size` orders are
rounded to whole units, so a price may be lost entirely and the builder may panic
(above); a cached tick coarser than the book's rounds a buying
price below the level found; USDC amounts below 0.01 may buy nothing; the bot
takes the first level of a side for the best where the builder takes the last;
its SELL plans have an amount in USDC, which the builder refuses; the number of
open orders is checked before the confirmation and FAK orders never count.

On chain: a receipt's status is not looked at (`ctf/impl.go:232`), so a reverted
transaction is reported like one that was executed; whether a transaction was
sent can be told from an error's text only. In the policies: a limit of 0
allows no attempt (`ws_policy.go:60`), though the client that is configured by it
retries for ever; a base above the cap is waited for once by the client; from about the 35th attempt on, where the
number does not fit into a Duration, the policy answers its base delay on some
processors.

### Fairness

* Transport: the clock goes on, a call that can proceed does, a request ends
  (the HTTP client has a timeout), and callers keep coming. No caller is promised
  a token ahead of others: Wait is not fair, and `CallsEnd` speaks of a time when
  no new call comes. `Recovers` and `Dies` say how the service behaves from some
  time on, and that nobody stops the limiter, takes tokens besides or resets.
* Connection: the Go scheduler runs every goroutine that can run (weak
  fairness); a dial ends. Readers and callers have strong fairness because they
  wait on a mutex: sync.Mutex hands over to a waiter that has waited for a
  millisecond, so one that finds it free again and again obtains it. No
  message, fault, pong timeout or call of the application is owed.
* RTDS: the steps of run and of a Close that has begun go on, and a call whose
  answer is there returns. Breaks, subscribes and closes of the application are
  not owed.
* Event streams: a Close that has begun goes on, and so does a send once the
  entry is found open, since it never blocks; a Close waits for it. No other step
  of a reader and no consumer is owed.
* Pages: the loop's own steps go on; requests end because the HTTP client has a
  timeout. The consumer is owed nothing: `CancelEnds` holds though it left.

## 5. What is proved

For any callers, streams, requests, assets, configuration and bounds. What is
assumed of the constants is in the `ASSUME`s of the modules, which TLC evaluates
in the runs:

* the callers of the breaker and the calls of the subscriptions are finite sets,
  the limits of the breaker and the limiter, the page size and the buffers are
  positive as their constructors make them, the bounds are naturals;
* jobs of a reader that report a state carry one of the four states
  (`JobsAssumption`); a user stream has a set of markets (`UserAssumption`);
* delays are naturals, multipliers fractions of naturals (`BackoffsAssumption`);
* requests to the builder are integers, also negative ones
  (`RequestsAssumption`); tick sizes of markets are positive and their books are
  sorted, worst level first (`MarketsAssumption`).

* **CircuitBreakerProofs.** `TypeOK`, `SlotsAccounted`, `ProbesBounded`,
  `FailuresMatchState`, `NeverWedged`. The invariant is the conjunction of the
  first four: `SlotsAccounted` is needed because the counters alone do not say
  who will answer a slot, and `NeverWedged` follows from it with no probe in
  flight. The cardinality of the probes goes up and down by the library's facts
  on adding to and removing from a finite set.
* **WsConnectionProofs.** `TypeOK`, `DialsIntoNothing`, `NoConnLeaked`,
  `OldContextsCancelled`, `Served`. The inductive invariant first says that at
  most one actor is inside the init mutex (`OneInside`), then what holds at each
  place inside it (the context is cancelled before the drop, no connection
  during the dial, the newest connection before it goes live), then that a
  current connection is open and has an owner. `Served` is not inductive alone:
  a readLoop that is past its context check must be known to hold a live
  context or the current connection, which is what `ServedByCurrent` adds.
  `Served` also says what becomes of a connection that fails, and for that the
  invariant must say that a readLoop never leaves a current connection with a
  live context unless it goes to reconnect, reports the disconnection or sees
  the client closing (`WitnessByCurrent`). `InitMutexHasOwner`: whoever waits for
  the init mutex waits for somebody inside. `ImplementsSlot` is a refinement: a
  dial is into nothing and its socket was never closed, a drop closes what it
  takes out, and every other step stutters. `CloseAtRestIsFinal` is about two
  states of a behaviour: the invariant is that Close at rest has begun, nobody
  is on the way to a dial, and, past Close's own drop, there is no connection;
  each step keeps it because `closing` is set and all ways to the init mutex
  look at it or at calls that are used up.
* **WsSubscriptionsProofs.** `TypeOK`, so counts are never negative, and
  `RefsMatchHolders`. The invariant adds that a request never takes the places
  of a stream. Steps other than addMarketRefs and removeMarketRefs move no call
  into or out of its hold (`QuietStep`); those two change the holders and the
  count of each asset by one together. `KeptAssetsServed` follows from
  `ServedInv`: an asset that is wanted and counted is on the server or on its
  way there, by a reconnect that is due, its snapshot, the snapshot's frame or
  a stream's own frame. The property itself only speaks of settled states; the
  invariant says who will repair each unsettled one, and that each hands over to
  the next.
* **TransportCallProofs.** `RateBounded`: `Balance` says that what the bucket
  holds after a refill and the excess of every period fit into the capacity
  together; a token moves units from one to the other, time gives to the first
  only what it takes from the second. Each step of the client is by construction
  a step of CircuitBreaker or leaves the breaker alone, so the invariant of
  CircuitBreakerProofs holds inside the client (the proof module instantiates it
  on the client's variables), and `ClientNeverWedged` follows once `CallsInv` says that the requests the breaker
  takes to be running are exactly the calls that are under way: a call leaves
  on none of its ways without its report. `TypeOK` of the composition.
* **RtdsProofs.** `TypeOK`; `RefsMatchEntries` (the cardinality of the entries of
  a key goes up and down with its count); `ImplementsBook`, a refinement, which
  follows from it step by step; `CloseLeavesNothing`; `DoneMeansOver`, both ways;
  and `OpenStreamsServed`. Its invariant says what the server has at each place
  of run: nothing before the snapshot is written, what the snapshot had plus what
  was subscribed since after it; and that while a key is counted, its detail, its
  place in the snapshot and the server's subscription are all among what it was
  asked for since its first stream (`AskedInv`). Streams of one key may ask for
  different things.
* **EventStreamsProofs.** `TypeOK`, `MissesNoticed`, `LastReportCurrent`,
  `NeverPanics`, `CloseLetsGo`. A miss
  puts its notice into the error channel or finds it full, step by step
  (`MissesNoticed` is inductive with the types). `LastReportCurrent` needs
  `OneDelivery`: as long as no two deliveries to a state stream have overlapped,
  at most one goroutine still has something for it, and that is the state the
  client is in; the state a new stream is greeted with counts as a delivery.
  `NeverPanics` needs `LockInv`: an entry of `ws` that somebody is about to send
  to is open, because whoever closes it waits for the lock, and the streams of
  `rtds` recover. `CloseLetsGo` needs `CondemnedInv`, that an entry born and no longer
  in the maps is condemned or closed already, and `ReturnedInv`, that a Close
  that has returned saw the condemned ones of `ws` closed.
* **SdkPartsProofs**, part by part:
  * orders: `PlacedOnce` and `ReportsAreTrue`. The invariant relates the orders
    taken to the caller's order as it is now: once an order was taken, salt and
    timestamp are set and never change, version 1 took it with the expiration
    the order still has as long as that version is live, and a client made for
    version 2 has cleared the expiration before it may fall back;
  * requests: `RequestsVerify`, for integers as skews, from what the headers are
    at each stage of an attempt; and `KeyIsFound`, from the fact that an answer
    belongs to the request under way;
  * on-chain calls: `RepeatsAreSafe`. As long as no answer of the node was lost,
    a call that has a transaction is past sending, has kept the nonce and is not
    told that it may be repeated;
  * heartbeats: `PromotionMovesBeats`. Clients are made once, and none that was
    promoted starts a goroutine again, whatever is derived from it;
  * user channel: `KeysAreTheLastSet`. What calls and snapshots have in hand is
    the key that is set or one that was in hand when it was replaced
    (`KeysInv`), `lastAuth` is that too once it has been cleared, and without a
    key the connection is dropped with all that the server knew;
    `UserStreamsServed`, where each market
    of an open stream is served or has someone on the way to ask for it;
  * lists: `NothingSkipped`. An item that was there from the start has been
    taken, is in the page at hand or comes after the cursor, and an insertion
    moves nothing out of the last of these;
  * policies: `PolicyIsFollowed`, for all delays, limits, multipliers, longest
    Durations and numbers of attempts: no policy is left out, a limit of 0, a
    base above the cap and an overflow have clauses of their own. The client's delays lie
    below the policy's where it grows because
    a quotient of a quotient does not exceed the quotient of the product, and
    the cap keeps the order. The attempt to prove an earlier form of it, that
    the client never waits longer than the policy says, showed that this is
    false for multipliers below one (section 3);
  * keys: `KeysReadBack`, for parts of any length. Two separators in the
    canonical form are the two that Canonical put there, so its three parts are
    the three fields; a value starts behind the first "=" and a trimmed one is
    trimmed already;
  * `PartsAreSafe`: all of the above for SdkParts, whose steps are steps of one
    part and none of the others by construction (`PartsAreImplemented`).
* **TradingProofs.** `BuildsOnlyWhenTold`, `NoWorseThanNeeded`, `FokCanFill` and
  `AmountsKeepPrice`. `OrderInv` says what is known at each stage of an order
  (an order that got past its checks is well formed, a price from the book is
  that of the level the walk stopped at, an order that is built has the amounts
  computed from its rounded price); the properties follow from it by lemmas
  about sums over a book (`SumFrom`), about the walk through the levels and
  about rounding. They hold for answers with and without a minimum, so for a
  tick size of 0 as well: an order of USDC whose price was cut to nothing is
  never built, and one of shares gives or takes nothing, which is exact.

Induction, where it is needed (sums over a book, powers, the delays of a client),
is by the least element of a set of naturals (`LeastNatural`, from the library's
theorem that < is well-founded): the library's own induction theorems take
an operator as a parameter, which the provers cannot instantiate. The recursion
is written as recursive functions; that such a function exists is proved by
`SumExists`, `PowerExists` and `ChainExists`.

Only model-checked: the liveness properties (`BrokenIsReplaced`, `EnsureReturns`,
`CloseAtRestQuiesces`, `PingersEndAfterClose`, `RecoveryIsNoticed`,
`FailureIsNoticed`, `CallsEnd`, `SubscribersAnswered`, `CloseReachesStreams`,
`CancelEnds`), since ENABLED and fairness are beyond the prover; and the three
findings. Every invariant and every refinement a passing run checks is a
theorem. Of the liveness properties theorems give the part that is safety:
`InitMutexHasOwner` for `EnsureReturns`, `Served` for `BrokenIsReplaced`,
`CloseAtRestIsFinal` for `CloseAtRestQuiesces`, `ClientNeverWedged` for
`RecoveryIsNoticed`, `DoneMeansOver` for `SubscribersAnswered`, `CloseLetsGo` for
`CloseReachesStreams`.

Proved and not in a run of their own: `InitMutexHasOwner`, `CloseAtRestIsFinal`
and `DoneMeansOver` of these, what stronger properties of the runs imply (`NeverWedged` follows from
`SlotsAccounted`, `NoConnLeaked` from `ImplementsSlot`), and parts of the
inductive invariants.

## 6. What is not modelled

Typed RTDS streams (`mapping.go`), batches of orders, cancels and queries,
lifecycle events, the jitter of RetryPolicy, attribution headers: each is one
request or a pure function. What messages and orders say beyond what the
properties tell apart. REST queries, KMS, formatting, wire types and logging
have no lasting state. Signatures and hashes are out of reach of these tools and
stand for what they were made of. See `components` in PROJECT.json.
