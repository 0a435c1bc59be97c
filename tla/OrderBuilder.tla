---------------------------- MODULE OrderBuilder ----------------------------
(***************************************************************************)
(* Building one order (order_builder.go and order_builder_resolve.go of    *)
(* pkg/clob) while the market changes: the tick size comes from a cache or *)
(* from the server, a market order without a price of its own takes one    *)
(* from the book, then price and amounts are rounded and checked.          *)
(*                                                                         *)
(* Prices and ticks are in units of 0.0001, sizes and amounts of 0.01, the *)
(* amounts of an order of 0.000001.  The book (external) is sorted, with   *)
(* its best level last.                                                    *)
(***************************************************************************)
EXTENDS Integers, Sequences, SequencesExt

CONSTANTS
    Requests,       \* what the application may ask of a builder
    Markets,        \* what the market may be: [tick, bids, asks]
    MaxShifts       \* bound: changes of the market and of the cache

ASSUME BuilderAssumption == MaxShifts \in Nat

ASSUME RequestsAssumption ==
    \A r \in Requests : r.amount \in Int /\ r.price.value \in Int /\ r.tick \in Int

BookLevels == [price : Nat, size : Nat]

ASSUME MarketsAssumption ==
    \A m \in Markets :
        /\ m.tick \in Nat \ {0}
        /\ m.bids \in Seq(BookLevels) /\ m.asks \in Seq(BookLevels)
        /\ \A i, j \in DOMAIN m.bids : i <= j => m.bids[i].price <= m.bids[j].price
        /\ \A i, j \in DOMAIN m.asks : i <= j => m.asks[i].price >= m.asks[j].price

VARIABLES
    request,    \* the fields of the builder
    market,     \* its tick size and its book
    tickCache,  \* the tick size in the client's cache, 0 for none
    shifts,     \* changes so far
    stage,      \* tick, book, price, built, refused or panicked
    tick,       \* the tick size found
    seen,       \* the levels that were read
    price,      \* the price before rounding
    order       \* the price and the amounts of the order built

outside == <<market, tickCache, shifts>>
found == <<tick, seen, price, order>>
builderVars == <<request, outside, stage, found>>

Nothing == [price |-> 0, maker |-> 0, taker |-> 0]

BuilderInit ==
    /\ market \in Markets
    /\ tickCache \in {0} \cup {m.tick : m \in Markets}
    /\ shifts = 0
    /\ tick = 0
    /\ seen = <<>>
    /\ price = 0
    /\ order = Nothing

-----------------------------------------------------------------------------
(* Decimals.                                                               *)

Unit == 10000

\* The decimal places of a tick size.
Scale(t) == Min({k \in 0 .. 4 : t % (10 ^ (4 - k)) = 0})

Truncate(x, step) == x - (x % step)

\* Faulty variant: amounts are cut off at the places of the price.
TruncatedToPrice(x) == Truncate(x, 10 ^ (6 - Scale(tick)))

\* An amount has two places more than the price, six at most.
Truncated(x) == Truncate(x, 10 ^ (4 - Scale(tick)))

\* amount / p, a division in two steps that keeps the numbers small.
Divided(amount, p) ==
    LET scaled == amount * Unit
    IN  (scaled \div p) * Unit + ((scaled % p) * Unit) \div p

InBounds(p) == tick <= p /\ p <= Unit - tick

IsMarket == request.kind \in {"usdc", "shares"}

-----------------------------------------------------------------------------
(* The steps of a builder.                                                 *)

\* What is wrong with the request before anything is looked up.
Malformed ==
    \/ request.side \notin {"BUY", "SELL"}
    \/ request.amount <= 0
    \/ IsMarket /\ request.type \notin {"FAK", "FOK"}
    \/ IsMarket /\ request.postOnly
    \/ request.kind = "usdc" /\ request.side = "SELL"
    \/ ~IsMarket /\ request.price.value <= 0

\* BuildSignable looks at these after Build has made the order.
Signable ==
    request.kind = "signable" =>
        /\ request.expires = (request.type = "GTD")
        /\ request.postOnly => request.type \in {"GTC", "GTD"}

Refused ==
    /\ stage' = "refused"
    /\ UNCHANGED found

\* The fee rate cannot be looked up, or is not the one the request asks for.
FeeRefused == Refused

\* The signature type, the funder and the signer do not give a maker.
MakerRefused == Refused

\* resolveTickSize, given the minimum the client returns.
TickFound(minimum) ==
    IF request.tick # 0 /\ request.tick < minimum
    THEN Refused
    ELSE /\ tick' = IF request.tick # 0 THEN request.tick ELSE minimum
         /\ stage' = IF request.price.value > 0 THEN "price" ELSE "book"
         /\ price' = request.price.value
         /\ UNCHANGED <<seen, order>>

\* The answer fills the cache; if it only has the field tick_size, the builder
\* takes the minimum to be 0.  A lookup that fails leaves the request's own.
ResolveTickSize ==
    /\ stage = "tick"
    /\ \/ Malformed /\ Refused /\ UNCHANGED tickCache
       \/ ~Malformed /\ tickCache # 0 /\ TickFound(tickCache) /\ UNCHANGED tickCache
       \/ /\ ~Malformed /\ tickCache = 0
          /\ tickCache' = market.tick
          /\ \E minimum \in {0, market.tick} : TickFound(minimum)
       \/ /\ ~Malformed /\ tickCache = 0
          /\ IF request.tick # 0 THEN TickFound(request.tick) ELSE Refused
          /\ UNCHANGED tickCache
    /\ UNCHANGED <<request, market, shifts>>

\* The sum of the sequence f from i on.
SumFrom(f, i) ==
    LET sum[j \in 1 .. Len(f) + 1] == IF j > Len(f) THEN 0 ELSE f[j] + sum[j + 1]
    IN  sum[i]

\* A level in the unit of the amount.
Worth(l) == IF request.kind = "usdc" THEN l.size * l.price ELSE l.size * Unit

\* What the levels from i to the best one hold.
Held(levels, i) == SumFrom([j \in DOMAIN levels |-> Worth(levels[j])], i)

\* Faulty variant: the walk starts at the other end.
EnoughFromWorst(levels) ==
    {i \in DOMAIN levels : Held(SubSeq(levels, 1, i), 1) >= request.amount * Unit}

\* The levels at which the walk from the best one has the amount.
Enough(levels) == {i \in DOMAIN levels : Held(levels, i) >= request.amount * Unit}

\* Faulty variant: the walk goes one level too far.
LastLevelOneMore(levels) == Max({Max(Enough(levels) \cup {1}) - 1, 1})

\* The level the walk stops at, the worst one if there is not enough.
LastLevel(levels) == Max(Enough(levels) \cup {1})

Levels == IF request.side = "BUY" THEN market.asks ELSE market.bids

ResolveMarketPrice ==
    /\ stage = "book"
    /\ \/ Refused
       \/ /\ request.price.value = 0
          /\ Levels # <<>>
          /\ Enough(Levels) # {} \/ request.type # "FOK"
          /\ price' = Levels[LastLevel(Levels)].price
          /\ seen' = Levels
          /\ stage' = "price"
          /\ UNCHANGED <<tick, order>>
    /\ UNCHANGED <<request, outside>>

\* A price of the application has no more places than the tick size; one of
\* the book is cut off there.
PriceFits == seen = <<>> => request.price.places <= Scale(tick)

Rounded == Truncate(price, 10 ^ (4 - Scale(tick)))

\* What the order gives and takes.
Amounts ==
    LET cash == Truncated(request.amount * Rounded)
        shares == request.amount * Unit
    IN  CASE request.kind = "usdc" ->
                 [maker |-> request.amount * Unit,
                  taker |-> Truncated(Divided(request.amount, Rounded))]
          [] request.kind # "usdc" /\ request.side = "BUY" -> [maker |-> cash, taker |-> shares]
          [] OTHER -> [maker |-> shares, taker |-> cash]

Accepted == PriceFits /\ InBounds(Rounded)

\* With a tick size of 0 a price from the book may be cut off to nothing.
DividesByZero == request.kind = "usdc" /\ Rounded = 0

Panics == stage' = "panicked" /\ UNCHANGED found

Build ==
    /\ stage = "price"
    /\ \/ ~Accepted /\ Refused
       \/ Accepted /\ FeeRefused
       \/ Accepted /\ DividesByZero /\ Panics
       \/ Accepted /\ ~DividesByZero /\ MakerRefused
       \/ Accepted /\ ~DividesByZero /\ ~Signable /\ Refused
       \/ /\ Accepted
          /\ ~DividesByZero
          /\ Signable
          /\ order' = [price |-> Rounded, maker |-> Amounts.maker, taker |-> Amounts.taker]
          /\ stage' = "built"
          /\ UNCHANGED <<tick, seen, price>>
    /\ UNCHANGED <<request, outside>>

-----------------------------------------------------------------------------
(* Around it.                                                              *)

MarketShifts ==
    /\ shifts < MaxShifts
    /\ shifts' = shifts + 1
    /\ market' \in Markets
    /\ UNCHANGED <<request, tickCache, stage, found>>

\* InvalidateCaches, SetTickSize, or a lookup by another goroutine.
CacheShifts ==
    /\ shifts < MaxShifts
    /\ shifts' = shifts + 1
    /\ tickCache' \in {0} \cup {m.tick : m \in Markets}
    /\ UNCHANGED <<request, market, stage, found>>

BuilderNext ==
    \/ ResolveTickSize \/ ResolveMarketPrice \/ Build
    \/ MarketShifts \/ CacheShifts

-----------------------------------------------------------------------------
\* Shares in the levels that were read at p or better.
SharesAt(p) ==
    LET within(l) == IF request.side = "BUY" THEN l.price <= p ELSE l.price >= p
    IN  SumFrom([j \in DOMAIN seen |-> IF within(seen[j]) THEN seen[j].size * Unit ELSE 0], 1)

OnTick == \A i \in DOMAIN seen : seen[i].price % (10 ^ (4 - Scale(tick))) = 0

(* A fill-or-kill order at a price from the book can be filled by the book *)
(* that was read.  (Not if the tick size in the cache is coarser than the  *)
(* book's: a buying price is then rounded down below the level found.)     *)
FokCanFill ==
    stage = "built" /\ seen # <<>> /\ request.type = "FOK" /\ (OnTick \/ request.side = "SELL")
        => SharesAt(order.price) >= IF request.side = "BUY" THEN order.taker ELSE order.maker

(* The price from the book is no worse than needed: the levels better than *)
(* it do not hold the amount.                                              *)
NoWorseThanNeeded ==
    stage = "built" /\ seen # <<>> =>
        LET better(l) == IF request.side = "BUY" THEN l.price < price ELSE l.price > price
        IN  SumFrom([j \in DOMAIN seen |-> IF better(seen[j]) THEN Worth(seen[j]) ELSE 0], 1)
                < request.amount * Unit

(* Rounding never changes the price of an order whose size is in shares:   *)
(* its amounts are exactly in the ratio of the price.  An order for an     *)
(* amount of USDC gets at most what that buys, and loses less than the     *)
(* hundredth part of the last place of its price.  The price is positive   *)
(* wherever the tick size found is, and wherever shares are bought with    *)
(* it.  (A server that answers with tick_size alone has orders of shares   *)
(* built for a price of nothing.)                                          *)
AmountsKeepPrice ==
    stage = "built" =>
        /\ tick > 0 \/ request.kind = "usdc" => order.price > 0
        /\ IF request.kind # "usdc"
           THEN LET cash == IF request.side = "BUY" THEN order.maker ELSE order.taker
                    shares == IF request.side = "BUY" THEN order.taker ELSE order.maker
                IN  cash = request.amount * order.price /\ shares = request.amount * Unit
           ELSE LET left == Divided(request.amount, order.price) - order.taker
                IN  0 <= left /\ left < 10 ^ (4 - Scale(tick))
=============================================================================
