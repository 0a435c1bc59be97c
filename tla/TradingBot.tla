----------------------------- MODULE TradingBot -----------------------------
(***************************************************************************)
(* The bot (pkg/bot and cmd/polymarket-bot): one run from the scan of the  *)
(* markets to the order, which OrderBuilder builds.  A behaviour is about  *)
(* the bot, or about an application that uses the builder itself.          *)
(*                                                                         *)
(* The bot takes the first level of a side for its best, and works with    *)
(* decimals of sixteen places wherever it divides.                         *)
(***************************************************************************)
EXTENDS OrderBuilder

CONSTANTS
    Tokens,         \* the outcomes that are scanned
    Amount,         \* BOT_DEFAULT_AMOUNT_USDC or the cap of a trade, if that is less
    MaxOpenTrades   \* open orders that stop the bot

ASSUME BotAssumption == Tokens # {} /\ Amount \in Int

VARIABLES
    flags,      \* --execute, --yes and BOT_DRY_RUN
    pc,         \* app, scan, plan, risk, confirm, execute, building or ended
    books,      \* what was read of each token's book
    best,       \* the token the bot chose
    open,       \* open orders of the account
    confirmed   \* whether the user said yes

botVars == <<flags, books, best, open, confirmed>>
tradingVars == <<builderVars, botVars, pc>>

NoRequest == [side |-> "BUY", kind |-> "usdc", amount |-> 0,
              price |-> [value |-> 0, places |-> 0], tick |-> 0,
              type |-> "FAK", expires |-> FALSE, postOnly |-> FALSE]

TradingInit ==
    /\ BuilderInit
    /\ \/ pc = "app" /\ stage = "tick" /\ request \in Requests
       \/ pc = "scan" /\ stage = "waits" /\ request = NoRequest
    /\ flags \in [execute : BOOLEAN, yes : BOOLEAN, env : {"unset", "on", "off"}]
    /\ pc = "app" => flags = [execute |-> FALSE, yes |-> FALSE, env |-> "unset"]
    /\ books = [t \in Tokens |-> market]
    /\ best = CHOOSE t \in Tokens : TRUE
    /\ open \in {0, MaxOpenTrades}
    /\ pc = "app" => open = 0
    /\ confirmed = FALSE

-----------------------------------------------------------------------------
(* Analysis.  Depths are in tens of shares and prices in 0.001 here.       *)

\* An opportunity, or what is left of a book without one.
Analyzed(book) ==
    LET bid == book.bids[1].price \div 10
        ask == book.asks[1].price \div 10
        bidDepth == book.bids[1].size \div 1000
        askDepth == book.asks[1].size \div 1000
    IN  [spread |-> ask - bid, sum |-> bid + ask,
         tilt |-> bidDepth - askDepth, depth |-> bidDepth + askDepth,
         thin |-> bidDepth < 10 \/ askDepth < 10]

Size(x) == IF x < 0 THEN -x ELSE x

\* The filters of ScanOpportunities: spread of 15 bps, 100 shares on either
\* side, imbalance of 0.08.
Passes(o) ==
    /\ o.spread > 0
    /\ o.spread * 20000 >= 15 * o.sum
    /\ ~o.thin
    /\ 100 * Size(o.tilt) >= 8 * o.depth

\* The score of o is that of p or more.
Outranks(o, p) ==
    Size(o.tilt) * o.spread * p.depth * p.sum >= Size(p.tilt) * p.spread * o.depth * o.sum

Confident(o) == Size(o.tilt) * o.spread * 80000 >= o.depth * o.sum

\* slippageGuardPrice, 25 bps from the middle; the one 0.01 it falls back to
\* has two places, all others sixteen.
Guarded(book, side) ==
    LET twice == book.bids[1].price + book.asks[1].price
    IN  [value |-> (twice * (IF side = "BUY" THEN 10025 ELSE 9975)) \div 20000, places |-> 16]

Ends == pc' = "ended"

Step(from) == pc = from /\ UNCHANGED <<outside, found>>

-----------------------------------------------------------------------------
(* The steps of main.                                                      *)

\* The books are read one after the other; whatever they were, they were one
\* of Markets each.
ScanOpportunities ==
    /\ Step("scan")
    /\ books' \in [Tokens -> Markets]
    /\ LET passing == {t \in Tokens : /\ books'[t].bids # <<>> /\ books'[t].asks # <<>>
                                      /\ Passes(Analyzed(books'[t]))}
       IN  \/ passing = {} /\ Ends /\ UNCHANGED best
           \/ /\ best' \in {t \in passing : \A u \in passing :
                                Outranks(Analyzed(books'[t]), Analyzed(books'[u]))}
              /\ pc' = "plan"
    /\ UNCHANGED <<request, stage, flags, open, confirmed>>

Chosen == Analyzed(books[best])

BuildTradePlan ==
    /\ Step("plan")
    /\ IF Confident(Chosen) THEN pc' = "risk" ELSE Ends
    /\ UNCHANGED <<request, stage, botVars>>

\* EvaluateRisk looks at the open orders once; the gates of main follow.
EvaluateRisk ==
    /\ Step("risk")
    /\ \/ Ends
       \/ /\ open < MaxOpenTrades
          /\ flags.execute
          /\ pc' = IF flags.yes THEN "execute" ELSE "confirm"
    /\ UNCHANGED <<request, stage, botVars>>

Confirm ==
    /\ Step("confirm")
    /\ \/ Ends /\ UNCHANGED confirmed
       \/ pc' = "execute" /\ confirmed' = TRUE
    /\ UNCHANGED <<request, stage, flags, books, best, open>>

\* Faulty variant: either of the two settings is enough.
DisabledIfBoth(dryRun) == dryRun /\ ~flags.execute

\* The gate of ExecutePlan, with the settings the engine merged with the
\* environment.
Disabled(dryRun) == dryRun \/ ~flags.execute

DryRun == CASE flags.env = "on" -> TRUE
            [] flags.env = "off" -> FALSE
            [] OTHER -> ~flags.execute

ExecutePlan ==
    /\ Step("execute")
    /\ IF Disabled(DryRun)
       THEN Ends /\ UNCHANGED <<request, stage>>
       ELSE LET side == IF Chosen.tilt > 0 THEN "BUY" ELSE "SELL"
            IN  /\ request' = [NoRequest EXCEPT !.side = side, !.amount = Amount,
                                                !.price = Guarded(books[best], side)]
                /\ stage' = "tick"
                /\ pc' = "building"
    /\ UNCHANGED botVars

OthersTrade ==
    /\ Step(pc)
    /\ pc \in {"scan", "plan", "risk", "confirm", "execute"}
    /\ open = 0
    /\ open' = MaxOpenTrades
    /\ UNCHANGED <<request, stage, flags, books, best, confirmed, pc>>

TradingNext ==
    \/ ScanOpportunities \/ BuildTradePlan \/ EvaluateRisk \/ Confirm \/ ExecutePlan
    \/ OthersTrade
    \/ BuilderNext /\ UNCHANGED <<botVars, pc>>

TradingSpec == TradingInit /\ [][TradingNext]_tradingVars

-----------------------------------------------------------------------------
(* The bot only has an order built that the user asked for: with           *)
(* --execute, confirmed unless --yes was given, and never under            *)
(* BOT_DRY_RUN, which the engine knows of and main does not.               *)
BuildsOnlyWhenTold ==
    pc = "building" => flags.execute /\ (flags.yes \/ confirmed) /\ flags.env # "on"

(* "Use --execute to place a live order."                                  *)
(* (cmd/polymarket-bot/main.go:107): the builder takes the plan the bot    *)
(* makes to buy, if its price is between the tick size and one less that.  *)
BuyPlansFit ==
    pc = "building" /\ stage = "price" /\ request.side = "BUY" /\ InBounds(Rounded) => PriceFits
=============================================================================
