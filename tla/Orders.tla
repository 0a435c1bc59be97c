------------------------------- MODULE Orders -------------------------------
(***************************************************************************)
(* Placing one order (impl_orders.go, order_payload.go and the caches of   *)
(* impl_market.go in pkg/clob; clob_engine.go and retry_policy.go of       *)
(* pkg/execution).  A strategy calls Place until its retry policy tells it *)
(* to stop, each time with the same Order, which signing writes to.  A     *)
(* client talks to one of two versions of the exchange and, told that it   *)
(* is the wrong one, signs and posts once more to the other.               *)
(*                                                                         *)
(* The exchange (external) takes an order of its own version that is       *)
(* signed for the right contract and carries the market's fee, and takes   *)
(* the same order only once.                                               *)
(***************************************************************************)
EXTENDS Integers, FiniteSets

CONSTANTS
    MaxAttempts,     \* attempts of the retry policy
    MaxSends,        \* times the transport sends one request
    MaxCacheChanges  \* bound: changes of the caches by other goroutines

ASSUME OrdersAssumption ==
    /\ MaxAttempts \in Nat \ {0}
    /\ MaxSends \in Nat \ {0}
    /\ MaxCacheChanges \in Nat

VARIABLES
    asked,      \* what the strategy wants
    order,      \* the Order it passes: salt, timestamp, fee, expiration; 0 is unset
    home,       \* the version the client was made for
    base,       \* the one it is talking to
    step,       \* idle, negrisk, fee, sign, post or done
    contract,   \* the contract to sign for
    attempt,    \* attempts begun
    sends,      \* times the request at hand was sent
    posted,     \* the signed order at hand, or the last one
    cache,      \* what the client's cache has: contract and fee
    fresh,      \* salts and timestamps handed out
    outcome     \* what the strategy was told: none, accepted, rejected, invalid or lost

VARIABLES
    market,     \* the contract and the fee of the market
    live,       \* the version of the exchange
    placed,     \* the orders it took
    sent,       \* whether it was sent anything
    lost,       \* whether an answer of it was lost
    cacheChanges    \* changes of the caches by others

caller == <<asked, home, attempt, outcome>>
client == <<order, base, step, contract, sends, posted, fresh>>
exchange == <<live, placed, sent, lost>>
orderVars == <<caller, client, cache, market, exchange, cacheChanges>>

Versions == {"v1", "v2"}
Contracts == {"plain", "negrisk"}
Fees == {0, 1}
Empty == [contract |-> "unknown", fee |-> 0]

\* What can be wrong with an order before anything is sent: no credentials or
\* a funder without its signature type, a post-only market order, a salt of
\* more than 53 bits.
Flaws == {"none", "credentials", "postonly", "salt"}

OrdersInit ==
    /\ asked \in [flaw : Flaws, expires : BOOLEAN]
    /\ order \in [salt : {0, 1}, stamp : {0}, fee : Fees, expires : {asked.expires}]
    /\ market \in [contract : Contracts, fee : Fees]
    /\ order.fee # 0 => order.fee = market.fee
    /\ home \in Versions
    /\ live \in Versions
    /\ base = home
    /\ step = "idle"
    /\ contract = "plain"
    /\ attempt = 0
    /\ sends = 0
    /\ posted = [version |-> "none"]
    /\ cache = Empty
    /\ fresh = 1
    /\ outcome = "none"
    /\ placed = {}
    /\ sent = FALSE
    /\ lost = FALSE
    /\ cacheChanges = 0

-----------------------------------------------------------------------------
(* One call of CreateOrder.                                                *)

Place ==
    /\ step = "idle"
    /\ attempt' = attempt + 1
    /\ base' = home
    /\ step' = "negrisk"
    /\ UNCHANGED <<asked, home, outcome, order, contract, sends, posted, fresh, cache,
                   market, exchange, cacheChanges>>

\* A failed lookup means the plain contract.
NegRisk ==
    /\ step = "negrisk"
    /\ \/ /\ cache.contract # "unknown"
          /\ contract' = cache.contract
          /\ UNCHANGED cache
       \/ /\ cache.contract = "unknown"
          /\ contract' = market.contract
          /\ cache' = [cache EXCEPT !.contract = market.contract]
       \/ /\ cache.contract = "unknown"
          /\ contract' = "plain"
          /\ UNCHANGED cache
    /\ step' = "fee"
    /\ UNCHANGED <<caller, order, base, sends, posted, fresh, market, exchange, cacheChanges>>

\* Only a fee that is not 0 is cached.  The order keeps what was found, but
\* for a fee that the answer has as text: that is cached and not used.
FeeRate ==
    /\ step = "fee"
    /\ \/ order.fee # 0 /\ UNCHANGED <<order, cache>>
       \/ /\ order.fee = 0 /\ cache.fee # 0
          /\ order' = [order EXCEPT !.fee = cache.fee]
          /\ UNCHANGED cache
       \/ /\ order.fee = 0 /\ cache.fee = 0
          /\ order' \in {order, [order EXCEPT !.fee = market.fee]}
          /\ cache' = [cache EXCEPT !.fee = market.fee]
       \/ order.fee = 0 /\ cache.fee = 0 /\ UNCHANGED <<order, cache>>
    /\ step' = "sign"
    /\ UNCHANGED <<caller, base, contract, sends, posted, fresh, market, exchange, cacheChanges>>

\* Faulty variant: what signing fills in is not written to the caller's order.
KeepsNothing(filled) == order

Keeps(filled) == filled

\* Signing fills in the salt; version 2 has a timestamp and no expiration.
Filled ==
    [order EXCEPT
        !.salt = IF @ = 0 THEN fresh + 1 ELSE @,
        !.stamp = IF base = "v2" /\ @ = 0 THEN fresh + 1 ELSE @,
        !.expires = @ /\ base = "v1"]

\* What is signed: the order is the same to the exchange if this is.
Signed(o) ==
    IF base = "v2"
    THEN [version |-> "v2", salt |-> o.salt, contract |-> contract, stamp |-> o.stamp]
    ELSE [version |-> "v1", salt |-> o.salt, contract |-> contract, fee |-> o.fee,
          expires |-> o.expires]

Invalid ==
    /\ step = "sign"
    /\ asked.flaw # "none"
    /\ order' = IF asked.flaw = "credentials" THEN order ELSE Keeps(Filled)
    /\ fresh' = fresh + 1
    /\ outcome' = "invalid"
    /\ step' = "done"
    /\ UNCHANGED <<asked, home, attempt, base, contract, sends, posted, cache, market,
                   exchange, cacheChanges>>

Sign ==
    /\ step = "sign"
    /\ asked.flaw = "none"
    /\ order' = Keeps(Filled)
    /\ posted' = Signed(Filled)
    /\ fresh' = fresh + 1
    /\ sends' = 0
    /\ step' = "post"
    /\ UNCHANGED <<caller, base, contract, cache, market, exchange, cacheChanges>>

-----------------------------------------------------------------------------
(* The request and its answer.                                             *)

\* What the exchange makes of the request.
Answer ==
    CASE posted.version # live -> "mismatch"
      [] /\ posted.version = live
         /\ \/ posted.contract # market.contract
            \/ order.fee # market.fee
            \/ posted \in placed -> "rejected"
      [] OTHER -> "accepted"

Delivered ==
    /\ sent' = TRUE
    /\ placed' = IF Answer = "accepted" THEN placed \cup {posted} ELSE placed

\* Faulty variant: whatever the answer is.
FallsBackAlways(answer) == base = home

FallsBack(answer) == answer = "mismatch" /\ base = home

Answered ==
    /\ step = "post"
    /\ sends < MaxSends
    /\ Delivered
    /\ IF FallsBack(Answer)
       THEN /\ base' = CHOOSE v \in Versions : v # home
            /\ step' = "negrisk"
            /\ UNCHANGED outcome
       ELSE /\ outcome' = IF Answer = "accepted" THEN "accepted" ELSE "rejected"
            /\ step' = "done"
            /\ UNCHANGED base
    /\ UNCHANGED <<asked, home, attempt, order, contract, sends, posted, fresh, cache,
                   market, live, lost, cacheChanges>>

\* The request or its answer is lost; the transport sends it again.
Unanswered ==
    /\ step = "post"
    /\ sends < MaxSends
    /\ sends' = sends + 1
    /\ \/ Delivered /\ lost' = TRUE
       \/ sent' = TRUE /\ UNCHANGED <<placed, lost>>
    /\ UNCHANGED <<caller, order, base, step, contract, posted, fresh, cache, market, live,
                   cacheChanges>>

\* RetryPolicy.Decide, for an error that may be retried.
Retries == attempt < MaxAttempts

SendsRunOut ==
    /\ step = "post"
    /\ sends = MaxSends
    /\ IF Retries
       THEN step' = "idle" /\ UNCHANGED outcome
       ELSE step' = "done" /\ outcome' = "lost"
    /\ UNCHANGED <<asked, home, attempt, order, base, contract, sends, posted, fresh, cache,
                   market, exchange, cacheChanges>>

-----------------------------------------------------------------------------
(* Around the call.                                                        *)

InvalidateCaches ==
    /\ cacheChanges < MaxCacheChanges
    /\ cacheChanges' = cacheChanges + 1
    /\ cache' = Empty
    /\ UNCHANGED <<caller, client, market, exchange>>

\* SetNegRisk and SetFeeRateBps, or a lookup by another user of the cache; a
\* fee of 0 is not stored.
OthersFillCaches ==
    /\ cacheChanges < MaxCacheChanges
    /\ cacheChanges' = cacheChanges + 1
    /\ cache' = market
    /\ UNCHANGED <<caller, client, market, exchange>>

ExchangeMigrates ==
    /\ live = "v1"
    /\ live' = "v2"
    /\ UNCHANGED <<caller, client, cache, market, placed, sent, lost, cacheChanges>>

-----------------------------------------------------------------------------
OrdersNext ==
    \/ Place \/ NegRisk \/ FeeRate \/ Invalid \/ Sign
    \/ Answered \/ Unanswered \/ SendsRunOut
    \/ InvalidateCaches \/ OthersFillCaches \/ ExchangeMigrates

OrdersSpec == OrdersInit /\ [][OrdersNext]_orderVars

-----------------------------------------------------------------------------
(* However often the strategy and the transport repeat an order whose      *)
(* answer was lost, a version of the exchange takes it once: what signing  *)
(* fills in stays in the caller's order.  (Both versions may take it, if   *)
(* the exchange migrates in between.)                                      *)
PlacedOnce == \A p, q \in placed : p.version = q.version => p = q

(* What the strategy is told is true: an order reported accepted was       *)
(* taken, one reported invalid was never sent, and one reported rejected   *)
(* was not taken by either version, unless an answer was lost: then the    *)
(* strategy may be told that an order was rejected which is in the book.   *)
ReportsAreTrue ==
    /\ outcome = "accepted" => posted \in placed
    /\ outcome = "invalid" => ~sent
    /\ outcome = "rejected" /\ ~lost => placed = {}
=============================================================================
