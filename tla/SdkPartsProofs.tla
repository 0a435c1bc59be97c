--------------------------- MODULE SdkPartsProofs ---------------------------
(***************************************************************************)
(* Theorems about the parts of SdkParts, for any number of attempts, calls *)
(* and requests and any values of their constants: orders (Orders),        *)
(* transactions (ChainCalls), signed requests (RequestSigning), heartbeats *)
(* (ClobHeartbeats), the user channel (WsUserChannel), lists (Paging),     *)
(* reconnect policies (Backoffs) and keys (IdempotencyKeys).  Each is      *)
(* about the specification of its part where the part has one;             *)
(* PartsAreImplemented carries it to SdkParts.                             *)
(***************************************************************************)
EXTENDS SdkParts, SequenceTheorems, FiniteSetTheorems, WellFoundedInduction, TLAPS

-----------------------------------------------------------------------------
(* Orders.                                                                 *)

OrderTypes == [salt : Int, stamp : Int, fee : Int, expires : BOOLEAN]

OrderType ==
    /\ order \in OrderTypes
    /\ cache \in [contract : Contracts \cup {"unknown"}, fee : Fees]
    /\ market \in [contract : Contracts, fee : Fees]
    /\ fresh \in Nat
    /\ home \in Versions /\ base \in Versions /\ live \in Versions

LEMMA TypeInit == OrdersInit => OrderType
  <1> SUFFICES ASSUME OrdersInit PROVE OrderType
    OBVIOUS
  <1>1. asked.expires \in BOOLEAN
    BY DEF OrdersInit
  <1>2. order \in OrderTypes
    BY <1>1 DEF OrdersInit, Fees, OrderTypes
  <1> QED BY <1>2 DEF OrdersInit, OrderType, Empty, Fees

(* What signing makes of the order.                                        *)
LEMMA FilledType ==
  ASSUME OrderType
  PROVE  /\ Filled \in OrderTypes
         /\ Filled.salt = IF order.salt = 0 THEN fresh + 1 ELSE order.salt
         /\ Filled.stamp = IF base = "v2" /\ order.stamp = 0 THEN fresh + 1 ELSE order.stamp
         /\ Filled.expires = (order.expires /\ base = "v1")
         /\ fresh + 1 # 0
  <1>1. fresh + 1 \in Int /\ fresh + 1 # 0
    BY DEF OrderType
  <1>2. (order.expires /\ base = "v1") \in BOOLEAN
    OBVIOUS
  <1> QED BY <1>1, <1>2 DEF OrderType, Filled, OrderTypes

(* A step changes the order as a fee lookup or as signing does, or not.    *)
LEMMA OrderStep ==
  ASSUME OrderType, [OrdersNext]_orderVars
  PROVE  \/ order' = order
         \/ FeeRate /\ \E f \in Int : order' = [order EXCEPT !.fee = f]
         \/ (Sign \/ Invalid) /\ order' = Filled
  <1>1. CASE FeeRate
    <2>1. cache.fee \in Int /\ market.fee \in Int
      BY DEF OrderType, Fees
    <2> QED BY <1>1, <2>1 DEF FeeRate
  <1>2. CASE Sign \/ Invalid
    BY <1>2 DEF Sign, Invalid, Keeps
  <1> QED
    BY <1>1, <1>2 DEF OrdersNext, orderVars, client, Place, NegRisk, Answered, Unanswered,
       SendsRunOut, InvalidateCaches, OthersFillCaches, ExchangeMigrates

LEMMA MarketIsKept ==
  [OrdersNext]_orderVars =>
      market' = market /\ home' = home /\ (live' = live \/ (live' = "v2" /\ placed' = placed))
  <1> SUFFICES ASSUME [OrdersNext]_orderVars
               PROVE  /\ market' = market /\ home' = home
                      /\ live' = live \/ (live' = "v2" /\ placed' = placed)
    OBVIOUS
  <1>1. CASE Place \/ NegRisk \/ FeeRate \/ Invalid \/ Sign \/ UNCHANGED orderVars
    BY <1>1 DEF Place, NegRisk, FeeRate, Invalid, Sign, orderVars, caller, exchange
  <1>2. CASE Answered \/ Unanswered \/ SendsRunOut
    BY <1>2 DEF Answered, Unanswered, SendsRunOut, caller, exchange
  <1>3. CASE InvalidateCaches \/ OthersFillCaches
    BY <1>3 DEF InvalidateCaches, OthersFillCaches, caller, exchange
  <1>4. CASE ExchangeMigrates
    BY <1>4 DEF ExchangeMigrates, caller
  <1> QED BY <1>1, <1>2, <1>3, <1>4 DEF OrdersNext

LEMMA TypeNext == OrderType /\ [OrdersNext]_orderVars => OrderType'
  <1> SUFFICES ASSUME OrderType, [OrdersNext]_orderVars PROVE OrderType'
    OBVIOUS
  <1>1. order' \in OrderTypes
    BY OrderStep, FilledType DEF OrderType, OrderTypes
  <1>2. cache' \in [contract : Contracts \cup {"unknown"}, fee : Fees]
    BY DEF OrderType, OrdersNext, orderVars, Empty, Fees, Place, NegRisk, FeeRate, Invalid, Sign,
       Answered, Unanswered, SendsRunOut, InvalidateCaches, OthersFillCaches, ExchangeMigrates
  <1>3. fresh' \in Nat
    <2>1. fresh' = fresh \/ fresh' = fresh + 1
      BY DEF OrdersNext, orderVars, client, Place, NegRisk, FeeRate, Invalid, Sign, Answered,
         Unanswered, SendsRunOut, InvalidateCaches, OthersFillCaches, ExchangeMigrates
    <2> QED BY <2>1 DEF OrderType
  <1>4. base' \in Versions
    BY DEF OrderType, OrdersNext, orderVars, client, Versions, Place, NegRisk, FeeRate, Invalid,
       Sign, Answered, Unanswered, SendsRunOut, InvalidateCaches, OthersFillCaches,
       ExchangeMigrates
  <1> QED BY <1>1, <1>2, <1>3, <1>4, MarketIsKept DEF OrderType, Versions

-----------------------------------------------------------------------------
(* The request at hand is the order as it is, filled in.                   *)
PostInv ==
    step = "post" =>
        /\ posted = Signed(order)
        /\ order.salt # 0
        /\ base = "v2" => order.stamp # 0 /\ ~order.expires

(* A client talks to the other version only after it was told to.          *)
BaseInv ==
    /\ home = "v1" /\ live = "v1" => base = "v1"
    /\ home = "v2" /\ base = "v1" => ~order.expires

V1(o) == [version |-> "v1", salt |-> o.salt, contract |-> market.contract,
          fee |-> market.fee, expires |-> o.expires]
V2(o) == [version |-> "v2", salt |-> o.salt, contract |-> market.contract, stamp |-> o.stamp]

(* What was taken is the order as it is: version 2 has it with its         *)
(* timestamp, version 1 with its expiration as long as that version is     *)
(* the live one, and signing does not change either any more.              *)
BookInv ==
    /\ PlacedOnce
    /\ placed # {} => order.salt # 0
    /\ \A p \in placed : p.version \in Versions
    /\ \A p \in placed : p.version = "v2" => p = V2(order) /\ order.stamp # 0
    /\ live = "v1" => \A p \in placed : p = V1(order)
    /\ home = "v2" /\ live = "v1" /\ placed # {} => ~order.expires

LEMMA PostNext ==
  ASSUME OrderType, PostInv, [OrdersNext]_orderVars
  PROVE  PostInv'
  <1>1. CASE Sign
    <2>1. order' = Filled /\ posted' = Signed(Filled) /\ base' = base /\ contract' = contract
      BY <1>1 DEF Sign, Keeps
    <2>2. posted' = Signed(order)'
      BY <2>1 DEF Signed
    <2>3. /\ order'.salt # 0
          /\ base' = "v2" => order'.stamp # 0 /\ ~order'.expires
      BY <2>1, FilledType DEF OrderTypes
    <2> QED BY <2>2, <2>3 DEF PostInv
  <1>2. CASE Unanswered \/ InvalidateCaches \/ OthersFillCaches \/ ExchangeMigrates
             \/ UNCHANGED orderVars
    <2>1. UNCHANGED <<step, order, posted, base, contract>>
      BY <1>2 DEF Unanswered, InvalidateCaches, OthersFillCaches, ExchangeMigrates, orderVars,
         client
    <2> QED BY <2>1 DEF PostInv, Signed
  <1>3. CASE Place \/ NegRisk \/ FeeRate \/ Invalid \/ Answered \/ SendsRunOut
    <2>1. step' # "post"
      BY <1>3 DEF Place, NegRisk, FeeRate, Invalid, Answered, SendsRunOut
    <2> QED BY <2>1 DEF PostInv
  <1> QED BY <1>1, <1>2, <1>3 DEF OrdersNext

LEMMA BaseNext ==
  ASSUME OrderType, PostInv, BaseInv, [OrdersNext]_orderVars
  PROVE  BaseInv'
  <1>1. ~order.expires => ~order'.expires
    BY OrderStep, FilledType DEF OrderType, OrderTypes
  <1>2. CASE base' = base
    BY <1>1, <1>2, MarketIsKept DEF BaseInv
  <1>3. CASE Place
    BY <1>3, MarketIsKept DEF Place, BaseInv
  <1>4. CASE Answered /\ FallsBack(Answer)
    <2>1. base = home /\ posted.version # live /\ step = "post" /\ order' = order
      BY <1>4 DEF Answered, FallsBack, Answer
    <2>2. posted.version = base
      BY <2>1 DEF PostInv, Signed, OrderType, Versions
    <2>3. home = "v1" => live' # "v1"
      BY <2>1, <2>2, MarketIsKept DEF OrderType, Versions
    <2>4. home = "v2" => ~order'.expires
      BY <2>1 DEF PostInv
    <2> QED BY <2>3, <2>4, MarketIsKept DEF BaseInv
  <1> QED
    BY <1>2, <1>3, <1>4 DEF OrdersNext, orderVars, client, NegRisk, FeeRate, Invalid, Sign,
       Answered, Unanswered, SendsRunOut, InvalidateCaches, OthersFillCaches, ExchangeMigrates

LEMMA TakesTheOrder ==
  ASSUME OrderType, PostInv, step = "post", Answer = "accepted"
  PROVE  /\ posted.version = live /\ base = live
         /\ live = "v1" => posted = V1(order)
         /\ live = "v2" => posted = V2(order)
  <1>1. posted = Signed(order)
    BY DEF PostInv
  <1>2. /\ posted.version = live
        /\ posted.contract = market.contract
        /\ order.fee = market.fee
    BY DEF Answer
  <1>3. posted.version = base
    BY <1>1 DEF Signed, OrderType, Versions
  <1>4. posted.contract = contract
    BY <1>1 DEF Signed
  <1> QED BY <1>1, <1>2, <1>3, <1>4 DEF Signed, V1, V2

LEMMA BookNext ==
  ASSUME OrderType, PostInv, BaseInv, BookInv, [OrdersNext]_orderVars
  PROVE  BookInv'
  <1>1. CASE placed' = placed
    <2>1. placed # {} => order'.salt = order.salt
      BY OrderStep, FilledType DEF BookInv, OrderType, OrderTypes
    <2>2. order.stamp # 0 => order'.stamp = order.stamp
      BY OrderStep, FilledType DEF BookInv, OrderType, OrderTypes
    <2>3. ~order.expires => ~order'.expires
      BY OrderStep, FilledType DEF OrderType, OrderTypes
    <2>4. base = "v1" => order'.expires = order.expires
      <3>1. CASE order' = Filled
        BY <3>1, FilledType DEF OrderType, OrderTypes
      <3> QED BY <3>1, OrderStep DEF OrderType, OrderTypes
    <2>5. live = "v1" /\ placed # {} => order'.expires = order.expires
      <3>1. CASE home = "v1"
        BY <3>1, <2>4 DEF BaseInv
      <3>2. CASE home = "v2"
        <4>1. order' \in OrderTypes /\ order \in OrderTypes
          BY TypeNext DEF OrderType
        <4> QED BY <3>2, <2>3, <4>1 DEF BookInv, OrderTypes
      <3> QED BY <3>1, <3>2 DEF OrderType, Versions
    <2>6. \A p \in placed' : p.version = "v2" => p = V2(order)' /\ order'.stamp # 0
      BY <1>1, <2>1, <2>2, MarketIsKept DEF BookInv, V2
    <2>7. live' = "v1" => \A p \in placed' : p = V1(order)'
      BY <1>1, <2>1, <2>5, MarketIsKept DEF BookInv, V1
    <2>8. home' = "v2" /\ live' = "v1" /\ placed' # {} => ~order'.expires
      BY <1>1, <2>3, MarketIsKept DEF BookInv
    <2> QED BY <1>1, <2>1, <2>6, <2>7, <2>8 DEF BookInv, PlacedOnce
  <1>2. CASE placed' # placed
    <2>1. /\ step = "post" /\ Answer = "accepted" /\ placed' = placed \cup {posted}
          /\ order' = order
      BY <1>2 DEF OrdersNext, orderVars, exchange, Place, NegRisk, FeeRate, Invalid, Sign,
         Answered, Unanswered, SendsRunOut, Delivered, InvalidateCaches, OthersFillCaches,
         ExchangeMigrates
    <2>2. live' = live /\ market' = market /\ home' = home
      BY <1>2, MarketIsKept
    <2>3. order.salt # 0 /\ (base = "v2" => order.stamp # 0)
      BY <2>1 DEF PostInv
    <2>4. posted.version = live /\ base = live
      BY <2>1, TakesTheOrder
    <2>5. CASE live = "v1"
      <3>1. posted = V1(order) /\ \A p \in placed : p = V1(order)
        BY <2>1, <2>5, TakesTheOrder DEF BookInv
      <3>2. V1(order)' = V1(order) /\ V1(order).version = "v1"
        BY <2>1, <2>2 DEF V1
      <3>3. home = "v2" => ~order.expires
        BY <2>4, <2>5 DEF BaseInv
      <3> QED BY <2>1, <2>2, <2>3, <3>1, <3>2, <3>3 DEF BookInv, PlacedOnce, Versions
    <2>6. CASE live = "v2"
      <3>1. posted = V2(order) /\ posted.version = "v2" /\ order.stamp # 0
        BY <2>1, <2>3, <2>4, <2>6, TakesTheOrder
      <3>2. V2(order)' = V2(order)
        BY <2>1, <2>2 DEF V2
      <3>3. \A p \in placed' : p.version = "v2" => p = V2(order)
        BY <2>1, <3>1 DEF BookInv
      <3>4. \A p, q \in placed' : p.version = q.version => p = q
        <4> SUFFICES ASSUME NEW p \in placed', NEW q \in placed', p.version = q.version
                     PROVE  p = q
          OBVIOUS
        <4>1. CASE p.version = "v2"
          BY <3>3, <4>1
        <4>2. CASE p.version # "v2"
          BY <2>1, <3>1, <4>2 DEF BookInv, PlacedOnce
        <4> QED BY <4>1, <4>2
      <3> QED BY <2>1, <2>2, <2>3, <2>6, <3>1, <3>2, <3>3, <3>4 DEF BookInv, PlacedOnce, Versions
    <2> QED BY <2>5, <2>6 DEF OrderType, Versions
  <1> QED BY <1>1, <1>2

(* A version of the exchange takes an order once, however often the        *)
(* strategy and the transport repeat it.                                   *)
THEOREM OrdersArePlacedOnce == OrdersSpec => []PlacedOnce
  <1> DEFINE Inv == OrderType /\ PostInv /\ BaseInv /\ BookInv
  <1>1. OrdersInit => Inv
    BY TypeInit DEF OrdersInit, PostInv, BaseInv, BookInv, PlacedOnce
  <1>2. Inv /\ [OrdersNext]_orderVars => Inv'
    BY TypeNext, PostNext, BaseNext, BookNext
  <1>3. Inv => PlacedOnce
    BY DEF BookInv
  <1> QED BY <1>1, <1>2, <1>3, PTL DEF OrdersSpec

-----------------------------------------------------------------------------
(* What the strategy is told, and what the exchange has at that time.      *)
ReportInv ==
    /\ asked.flaw # "none" => ~sent /\ step # "post"
    /\ step # "done" => outcome = "none"
    /\ outcome = "accepted" => posted \in placed
    /\ outcome = "invalid" => asked.flaw # "none"
    /\ ~lost /\ outcome # "accepted" => placed = {}

LEMMA ReportNext == ReportInv /\ [OrdersNext]_orderVars => ReportInv'
  <1> SUFFICES ASSUME ReportInv, [OrdersNext]_orderVars PROVE ReportInv'
    OBVIOUS
  <1> USE DEF ReportInv
  <1>1. CASE Place \/ NegRisk \/ FeeRate \/ Sign
    BY <1>1 DEF Place, NegRisk, FeeRate, Sign, caller, exchange
  <1>2. CASE Invalid
    BY <1>2 DEF Invalid, exchange
  <1>3. CASE Answered
    BY <1>3 DEF Answered, Delivered, FallsBack
  <1>4. CASE Unanswered
    BY <1>4 DEF Unanswered, Delivered, caller
  <1>5. CASE SendsRunOut
    BY <1>5 DEF SendsRunOut, exchange
  <1>6. CASE InvalidateCaches \/ OthersFillCaches \/ ExchangeMigrates \/ UNCHANGED orderVars
    BY <1>6 DEF InvalidateCaches, OthersFillCaches, ExchangeMigrates, orderVars, caller, client,
       exchange
  <1> QED BY <1>1, <1>2, <1>3, <1>4, <1>5, <1>6 DEF OrdersNext

(* What the strategy is told about its order is true, but for an order     *)
(* reported rejected after an answer was lost.                             *)
THEOREM OrderReportsAreTrue == OrdersSpec => []ReportsAreTrue
  <1>1. OrdersInit => ReportInv
    BY DEF OrdersInit, ReportInv
  <1>2. ReportInv => ReportsAreTrue
    BY DEF ReportInv, ReportsAreTrue
  <1> QED BY <1>1, <1>2, ReportNext, PTL DEF OrdersSpec

-----------------------------------------------------------------------------
(* Transactions.                                                           *)

(* The calls are at steps of theirs, and what they were told belongs to    *)
(* the step.                                                               *)
ToldInv ==
    /\ doing \in [Calls -> {"nothing", "checked", "ready", "waiting", "done"}]
    /\ told \in [Calls -> {"nothing", "unsent", "unsure", "sent", "mined"}]
    /\ \A c \in Calls : doing[c] # "done" => told[c] = "nothing"

(* A call that has sent something has sent it under the nonce it last      *)
(* took, is past sending, and is not told that it can be repeated.         *)
SentOnce(t) ==
    /\ t.nonce = nonce[t.call]
    /\ doing[t.call] \in {"waiting", "done"}
    /\ told[t.call] # "unsent"

SentInv ==
    /\ DOMAIN nonce = Calls
    /\ \A t \in pool \cup mined : t.call \in Calls /\ (~unheard => SentOnce(t))
    /\ \A c \in Calls : told[c] = "mined" => \E t \in mined : t.call = c

LEMMA ToldNext == ToldInv /\ [ChainNext]_chainVars => ToldInv'
  <1> SUFFICES ASSUME ToldInv, [ChainNext]_chainVars PROVE ToldInv'
    OBVIOUS
  <1> USE DEF ToldInv, Does, Returns
  <1>1. ASSUME NEW c \in Calls, Checked(c) PROVE ToldInv'
    BY <1>1 DEF Checked
  <1>2. ASSUME NEW c \in Calls, Prepare(c) PROVE ToldInv'
    BY <1>2 DEF Prepare
  <1>3. ASSUME NEW c \in Calls, Send(c) PROVE ToldInv'
    BY <1>3 DEF Send
  <1>4. ASSUME NEW c \in Calls, WaitMined(c) \/ WaitEnds(c) PROVE ToldInv'
    BY <1>4 DEF WaitMined, WaitEnds, GivesUpWaiting
  <1>5. ASSUME NEW c \in Calls, CallAgain(c) PROVE ToldInv'
    BY <1>5 DEF CallAgain
  <1>6. CASE (\E t \in pool : Mine(t)) \/ UNCHANGED chainVars
    BY <1>6 DEF Mine, chainVars
  <1> QED
    BY <1>1, <1>2, <1>3, <1>4, <1>5, <1>6 DEF ChainNext, CheckContractCall, CheckTransfer

LEMMA SentNext == ToldInv /\ SentInv /\ [ChainNext]_chainVars => SentInv'
  <1> SUFFICES ASSUME ToldInv, SentInv, [ChainNext]_chainVars PROVE SentInv'
    OBVIOUS
  <1> USE DEF ToldInv, SentInv, SentOnce, Does, Returns, tx
  <1>1. ASSUME NEW c \in Calls, Checked(c) PROVE SentInv'
    BY <1>1 DEF Checked
  <1>2. ASSUME NEW c \in Calls, Prepare(c) PROVE SentInv'
    BY <1>2 DEF Prepare
  <1>3. ASSUME NEW c \in Calls, Send(c) PROVE SentInv'
    <2>1. Transaction(c).call = c /\ Transaction(c).nonce = nonce[c]
      BY DEF Transaction
    <2>2. nonce' = nonce /\ mined' = mined /\ doing[c] = "ready"
      BY <1>3 DEF Send
    <2>3. CASE /\ pool' = pool \cup {Transaction(c)}
               /\ doing' = [doing EXCEPT ![c] = "waiting"]
               /\ told' = told /\ unheard' = unheard
      <3>1. told'[c] # "unsent" /\ doing'[c] = "waiting"
        BY <2>2, <2>3
      <3> QED BY <2>1, <2>2, <2>3, <3>1
    <2>4. CASE /\ pool' = pool \cup {Transaction(c)}
               /\ Returns(c, "sent") /\ unheard' = unheard
      <3>1. told'[c] = "sent" /\ doing'[c] = "done"
        BY <2>4
      <3> QED BY <2>1, <2>2, <2>4, <3>1
    <2>5. CASE pool' = pool \cup {Transaction(c)} /\ Returns(c, "unsent") /\ unheard' = TRUE
      BY <2>1, <2>2, <2>5
    <2>6. CASE Returns(c, "unsent") /\ pool' = pool /\ unheard' = unheard
      BY <2>2, <2>6
    <2> QED BY <1>3, <2>3, <2>4, <2>5, <2>6 DEF Send
  <1>4. ASSUME NEW c \in Calls, WaitMined(c) \/ WaitEnds(c) PROVE SentInv'
    BY <1>4 DEF WaitMined, WaitEnds, GivesUpWaiting
  <1>5. ASSUME NEW c \in Calls, CallAgain(c) PROVE SentInv'
    BY <1>5 DEF CallAgain
  <1>6. ASSUME NEW t \in pool, Mine(t) PROVE SentInv'
    <2>1. PICK ok \in BOOLEAN :
              mined' = mined \cup {[call |-> t.call, nonce |-> t.nonce, ok |-> ok]}
      BY <1>6 DEF Mine
    <2>2. \A u \in pool' \cup mined' : \E v \in pool \cup mined :
              u.call = v.call /\ u.nonce = v.nonce
      BY <1>6, <2>1 DEF Mine
    <2> QED BY <1>6, <2>1, <2>2 DEF Mine
  <1>7. CASE UNCHANGED chainVars
    BY <1>7 DEF chainVars
  <1> QED
    BY <1>1, <1>2, <1>3, <1>4, <1>5, <1>6, <1>7 DEF ChainNext, CheckContractCall, CheckTransfer

(* A call that is repeated after errors of checking and sending, and not   *)
(* after one of waiting, has one transaction at most, unless the node's    *)
(* answer to a send was lost, and a call reported mined is in a block.     *)
THEOREM CallsSendOnce == ChainSpec => []RepeatsAreSafe
  <1>1. ChainInit => ToldInv /\ SentInv
    BY DEF ChainInit, ToldInv, SentInv
  <1>2. ToldInv /\ SentInv => RepeatsAreSafe
    BY DEF ToldInv, SentInv, SentOnce, RepeatsAreSafe
  <1> QED BY <1>1, <1>2, ToldNext, SentNext, PTL DEF ChainSpec

-----------------------------------------------------------------------------
(* Signed requests.                                                        *)

(* The skew that matters: a client that asks the exchange has none.        *)
Off == IF setup.serverTime THEN 0 ELSE setup.skew

Messages == [stamp : Int, body : {"unsigned", "plain", "single quotes", "double quotes"}]
Headers == [stamp : Int, own : Messages, builder : Messages]

TradeType ==
    /\ setup \in Setups
    /\ now \in Int /\ began \in Int
    /\ headers \in Headers
    /\ got \in [began : Int, headers : Headers]

Fresh(since, h) == since <= h.stamp - Off /\ h.stamp - Off <= now

(* No attempt is older than what it put into the headers, and the exchange *)
(* gets nothing younger than its clock.                                    *)
FreshInv ==
    /\ began <= now
    /\ stage = "time" => setup.serverTime
    /\ stage \in {"sign", "builder", "send"} => Fresh(began, headers)
    /\ got # NoRequest => Fresh(got.began, got.headers)

SameSigned(h) ==
    setup.builder = "local" \/ (setup.builder = "remote" /\ ~setup.quoted) =>
        h.builder = h.own

(* What the headers are at each stage, and what the exchange got.          *)
SignedInv ==
    /\ stage \in {"builder", "send"} => headers.own = Message(headers.stamp)
    /\ stage = "send" => SameSigned(headers)
    /\ got # NoRequest =>
           /\ got.headers.own = Message(got.headers.stamp)
           /\ SameSigned(got.headers)

(* The inductive invariant of a call that is signed for each attempt.      *)
VerifyInv == setup \in Setups /\ (setup.kind = "trade" => TradeType /\ FreshInv /\ SignedInv)

LEMMA VerifyInit == ASSUME Skews \subseteq Int PROVE SigningInit => VerifyInv
  <1> SUFFICES ASSUME SigningInit PROVE VerifyInv
    OBVIOUS
  <1>1. TradeType
    BY DEF SigningInit, TradeType, NoRequest, NoHeaders, NotSigned, Headers, Messages
  <1>2. FreshInv /\ SignedInv
    BY DEF SigningInit, FreshInv, SignedInv
  <1> QED BY <1>1, <1>2 DEF VerifyInv, TradeType

LEMMA SetupIsKept == [SigningNext]_signingVars => setup' = setup
  BY DEF SigningNext, signingVars, call, verifier, Begin, Attempt, WaitEnded, ServerTime,
     NextAttempt, SignHeaders, BuilderSignsHere, BuilderSignsThere, RequestAnswered, RequestLost, Tick

LEMMA OffIsInt ==
  ASSUME Skews \subseteq Int, setup \in Setups
  PROVE  setup.skew \in Int /\ setup.serverTime \in BOOLEAN /\ Off \in Int
  <1>1. setup.skew \in Skews /\ setup.serverTime \in BOOLEAN
    BY DEF Setups
  <1>2. setup.skew \in Int
    BY <1>1
  <1> QED BY <1>1, <1>2 DEF Off

LEMMA RetryKeeps ==
  NextAttempt => stage' \in {"backoff", "idle", "done"} /\ began' = began
  BY DEF NextAttempt, RetriesRunOut, Fallback

LEMMA TradeTypeNext ==
  ASSUME Skews \subseteq Int, setup.kind = "trade", TradeType, [SigningNext]_signingVars
  PROVE  TradeType'
  <1>1. setup' = setup /\ setup' \in Setups
    BY SetupIsKept DEF TradeType
  <1>2. setup.skew \in Int
    BY OffIsInt DEF TradeType
  <1>3. now' \in Int /\ began' \in Int
    BY RetryKeeps DEF TradeType, SigningNext, signingVars, call, verifier, Begin, Attempt, WaitEnded,
       ServerTime, SignHeaders, BuilderSignsHere, BuilderSignsThere, RequestAnswered, RequestLost, Tick
  <1>4. headers' \in Headers
    <2>1. CASE headers' = headers
      BY <2>1 DEF TradeType
    <2>2. CASE Attempt
      <3>1. Clock \in Int
        BY <1>2 DEF Clock, TradeType
      <3>2. NotSigned \in Messages
        BY DEF NotSigned, Messages
      <3>3. PICK stamp \in Int : headers' = [stamp |-> stamp, own |-> NotSigned, builder |-> NotSigned]
        <4>1. headers' = [NoHeaders EXCEPT !.stamp = IF setup.serverTime THEN 0 ELSE Clock]
          BY <2>2 DEF Attempt, SignsAttempt
        <4>2. (IF setup.serverTime THEN 0 ELSE Clock) \in Int
          BY <3>1
        <4> QED BY <4>1, <4>2 DEF NoHeaders
      <3> QED BY <3>2, <3>3 DEF Headers
    <2>3. CASE ServerTime
      BY <2>3 DEF ServerTime, TradeType, Headers
    <2>4. CASE SignHeaders \/ BuilderSignsHere
      <3>1. headers.stamp \in Int
        BY DEF TradeType, Headers
      <3>2. Message(headers.stamp) \in Messages
        BY <3>1 DEF Message, Body, Messages
      <3> QED BY <2>4, <3>2 DEF SignHeaders, BuilderSignsHere, TradeType, Headers
    <2>5. CASE BuilderSignsThere
      <3>1. HandleSign \in Messages
        BY DEF HandleSign, Messages, TradeType, Headers
      <3> QED BY <2>5, <3>1 DEF BuilderSignsThere, TradeType, Headers
    <2> QED
      BY <2>1, <2>2, <2>3, <2>4, <2>5 DEF SigningNext, signingVars, Begin, WaitEnded,
         RequestAnswered, RequestLost, Tick
  <1>5. got' \in [began : Int, headers : Headers]
    <2>1. CASE Arrives
      BY <2>1 DEF Arrives, TradeType
    <2>2. CASE got' = got
      BY <2>2 DEF TradeType
    <2> QED
      BY <2>1, <2>2 DEF SigningNext, signingVars, verifier, Begin, Attempt, WaitEnded,
         ServerTime, SignHeaders, BuilderSignsHere, BuilderSignsThere, RequestAnswered, RequestLost, Tick
  <1> QED BY <1>1, <1>3, <1>4, <1>5 DEF TradeType

LEMMA FreshNext ==
  ASSUME Skews \subseteq Int, setup.kind = "trade", TradeType, FreshInv,
         [SigningNext]_signingVars
  PROVE  FreshInv'
  <1>1. Off' = Off
    BY SetupIsKept DEF Off
  <1>2. Off \in Int /\ setup.skew \in Int
    BY OffIsInt DEF TradeType
  <1>3. /\ now \in Int /\ began \in Int /\ headers.stamp \in Int
        /\ got.began \in Int /\ got.headers.stamp \in Int
    BY DEF TradeType, Headers
  <1>4. NoRequest' = NoRequest
    BY DEF NoRequest
  <1> USE <1>1, <1>2, <1>3, SetupIsKept DEF FreshInv, Fresh
  <1>5. CASE Begin
    BY <1>5 DEF Begin, verifier
  <1>6. CASE Attempt
    <2>1. /\ headers'.stamp = IF setup.serverTime THEN 0 ELSE now + setup.skew
          /\ stage' = IF setup.serverTime THEN "time" ELSE "sign"
          /\ began' = now /\ now' = now /\ got' = got
      BY <1>6 DEF Attempt, SignsAttempt, verifier, NoHeaders, Clock
    <2>2. CASE setup.serverTime
      BY <2>1, <2>2
    <2>3. CASE ~setup.serverTime
      BY <2>1, <2>3 DEF Off
    <2> QED BY <2>2, <2>3
  <1>7. CASE WaitEnded
    BY <1>7 DEF WaitEnded, call, verifier
  <1>8. CASE ServerTime
    <2>1. now' = now /\ got' = got
      BY <1>8 DEF ServerTime, verifier
    <2>2. CASE stage' = "sign" /\ headers' = [headers EXCEPT !.stamp = now] /\ began' = began
      <3>1. headers'.stamp = now
        BY <2>2 DEF TradeType, Headers
      <3>2. Off = 0
        BY <1>8 DEF ServerTime, Off
      <3> QED BY <2>1, <2>2, <3>1, <3>2
    <2>3. CASE NextAttempt
      BY <2>1, <2>3, RetryKeeps
    <2> QED BY <1>8, <2>2, <2>3 DEF ServerTime, call
  <1>9. CASE SignHeaders \/ BuilderSignsHere \/ BuilderSignsThere
    <2>1. headers'.stamp = headers.stamp
      BY <1>9 DEF SignHeaders, BuilderSignsHere, BuilderSignsThere, TradeType, Headers
    <2> QED BY <1>9, <2>1 DEF SignHeaders, BuilderSignsHere, BuilderSignsThere, call, verifier
  <1>10. CASE RequestAnswered
    <2>1. stage' \in {"done", "idle"}
      BY <1>10 DEF RequestAnswered, Fallback
    <2> QED BY <1>10, <2>1 DEF RequestAnswered, Arrives
  <1>11. CASE RequestLost
    <2>1. CASE Arrives
      BY <1>11, <2>1, RetryKeeps DEF RequestLost, Arrives
    <2>2. CASE got' = got
      BY <1>11, <2>2, RetryKeeps DEF RequestLost
    <2> QED BY <1>11, <2>1, <2>2 DEF RequestLost
  <1>12. CASE Tick
    BY <1>12 DEF Tick, call
  <1>13. CASE UNCHANGED signingVars
    BY <1>13 DEF signingVars, call, verifier
  <1> QED
    BY <1>5, <1>6, <1>7, <1>8, <1>9, <1>10, <1>11, <1>12, <1>13 DEF SigningNext

LEMMA SignedNext ==
  ASSUME setup.kind = "trade", TradeType, SignedInv, [SigningNext]_signingVars
  PROVE  SignedInv'
  <1>1. setup' = setup
    BY SetupIsKept
  <1>2. headers \in Headers
    BY DEF TradeType
  <1> USE <1>1 DEF SignedInv, SameSigned, Message, Body
  <1>3. CASE Begin
    BY <1>3 DEF Begin, verifier
  <1>4. CASE Attempt
    BY <1>4 DEF Attempt, SignsAttempt, verifier
  <1>5. CASE WaitEnded
    BY <1>5 DEF WaitEnded, call, verifier
  <1>6. CASE ServerTime
    BY <1>6, RetryKeeps DEF ServerTime, verifier
  <1>7. CASE SignHeaders
    BY <1>2, <1>7 DEF SignHeaders, call, verifier, Headers
  <1>8. CASE BuilderSignsHere
    BY <1>2, <1>8 DEF BuilderSignsHere, call, verifier, Headers
  <1>9. CASE BuilderSignsThere
    BY <1>2, <1>9 DEF BuilderSignsThere, HandleSign, verifier, Headers
  <1>10. CASE RequestAnswered
    <2>1. stage' \in {"done", "idle"}
      BY <1>10 DEF RequestAnswered, Fallback
    <2> QED BY <1>10, <2>1 DEF RequestAnswered, Arrives
  <1>11. CASE RequestLost
    <2>1. stage' \notin {"builder", "send"} /\ stage = "send"
      BY <1>11, RetryKeeps DEF RequestLost
    <2>2. CASE Arrives
      BY <2>1, <2>2 DEF Arrives
    <2>3. CASE got' = got
      BY <2>1, <2>3 DEF NoRequest
    <2> QED BY <1>11, <2>2, <2>3 DEF RequestLost
  <1>12. CASE Tick
    BY <1>12 DEF Tick, call
  <1>13. CASE UNCHANGED signingVars
    BY <1>13 DEF signingVars, call, verifier
  <1> QED
    BY <1>3, <1>4, <1>5, <1>6, <1>7, <1>8, <1>9, <1>10, <1>11, <1>12, <1>13 DEF SigningNext

LEMMA VerifyNext ==
  ASSUME Skews \subseteq Int, VerifyInv, [SigningNext]_signingVars
  PROVE  VerifyInv'
  BY SetupIsKept, TradeTypeNext, FreshNext, SignedNext DEF VerifyInv

(* What the exchange gets verifies: the timestamp is that of the attempt   *)
(* and everything in the headers was signed over it and the body, however  *)
(* many attempts fail before.                                              *)
THEOREM RequestsAreVerifiable ==
  ASSUME Skews \subseteq Int
  PROVE  SigningSpec => []RequestsVerify
  <1>1. VerifyInv => RequestsVerify
    BY DEF VerifyInv, FreshInv, SignedInv, RequestsVerify, Fresh, SameSigned, Off
  <1>2. SigningInit => VerifyInv
    BY VerifyInit
  <1>3. VerifyInv /\ [SigningNext]_signingVars => VerifyInv'
    BY VerifyNext
  <1> QED BY <1>1, <1>2, <1>3, PTL DEF SigningSpec

-----------------------------------------------------------------------------
(* The inductive invariant of CreateOrDeriveAPIKey: an answer belongs to   *)
(* the request that is under way, and it ends after asking for the key.    *)
KeyInv ==
    setup.kind = "key" =>
        /\ stage \in {"idle", "attempt", "send", "backoff", "done"}
        /\ stage \in {"attempt", "send", "backoff"} => ~answered
        /\ asks \in {"create", "derive"}
        /\ hasKey \in BOOLEAN
        /\ stage = "done" /\ result # "ok" => asks = "derive" /\ (hasKey => ~answered)

LEMMA KeyNext == KeyInv /\ [SigningNext]_signingVars => KeyInv'
  <1> SUFFICES ASSUME KeyInv, [SigningNext]_signingVars PROVE KeyInv'
    OBVIOUS
  <1> USE DEF KeyInv
  <1>1. CASE Begin
    BY <1>1 DEF Begin, verifier
  <1>2. CASE Attempt
    BY <1>2 DEF Attempt, SignsAttempt, verifier
  <1>3. CASE WaitEnded
    BY <1>3 DEF WaitEnded, call, verifier
  <1>4. CASE ServerTime \/ SignHeaders \/ BuilderSignsHere \/ BuilderSignsThere
    BY <1>4 DEF ServerTime, SignHeaders, BuilderSignsHere, BuilderSignsThere, call, verifier, NextAttempt
  <1>5. CASE RequestAnswered
    BY <1>5 DEF RequestAnswered, Arrives, KeyGranted, Fallback
  <1>6. CASE RequestLost
    BY <1>6 DEF RequestLost, Arrives, NextAttempt, RetriesRunOut, Fallback
  <1>7. CASE Tick
    BY <1>7 DEF Tick, call
  <1>8. CASE UNCHANGED signingVars
    BY <1>8 DEF signingVars, call, verifier
  <1> QED
    BY <1>1, <1>2, <1>3, <1>4, <1>5, <1>6, <1>7, <1>8 DEF SigningNext

(* CreateOrDeriveAPIKey fails only if the exchange has no key for the      *)
(* wallet or never answered the last request, for any number of retries.   *)
THEOREM KeyIsAlwaysFound == SigningSpec => []KeyIsFound
  <1>1. SigningInit => KeyInv
    BY DEF SigningInit, KeyInv
  <1>2. KeyInv => KeyIsFound
    BY DEF KeyInv, KeyIsFound
  <1> QED BY <1>1, <1>2, KeyNext, PTL DEF SigningSpec
-----------------------------------------------------------------------------
(* Clients and their heartbeats.                                           *)

(* Clients are made once, with what they are made with, and a client that  *)
(* was promoted never starts a goroutine again.                            *)
BeatInv ==
    /\ beat \in [Clients -> {"none", "on", "stopping", "ended"}]
    /\ DOMAIN promoted = Clients
    /\ \A c, d \in Clients : d \in promoted[c] =>
           /\ c \in made /\ d \in made
           /\ beat[c] # "on"
           /\ d \in authed \cap timed => beat[d] # "none" /\ d \in builder

LEMMA BeatNext == BeatInv /\ [Beats!Next]_beatVars => BeatInv'
  <1> SUFFICES ASSUME BeatInv, [Beats!Next]_beatVars PROVE BeatInv'
    OBVIOUS
  <1> USE DEF BeatInv
  <1>1. ASSUME NEW c \in made, NEW d \in Clients,
               Beats!WithAuth(c, d) \/ Beats!WithHeartbeatInterval(c, d) \/ Beats!Derive(c, d)
        PROVE  BeatInv'
    <2>1. d \notin made /\ made' = made \cup {d} /\ promoted' = promoted
      BY <1>1 DEF Beats!WithAuth, Beats!WithHeartbeatInterval, Beats!Derive, Beats!Makes
    <2>2. /\ beat' \in [Clients -> {"none", "on", "stopping", "ended"}]
          /\ \A e \in Clients : e # d => beat'[e] = beat[e]
      BY <1>1 DEF Beats!WithAuth, Beats!WithHeartbeatInterval, Beats!Derive, Beats!Started
    <2>3. authed' \subseteq authed \cup {d} /\ timed' \subseteq timed \cup {d}
              /\ builder \subseteq builder'
      BY <1>1 DEF Beats!WithAuth, Beats!WithHeartbeatInterval, Beats!Derive, Beats!Copied
    <2> QED BY <2>1, <2>2, <2>3
  <1>2. ASSUME NEW c \in made, NEW d \in Clients, Beats!PromoteToBuilder(c, d)
        PROVE  BeatInv'
    <2>1. /\ d \notin made /\ c # d /\ made' = made \cup {d}
          /\ promoted' = [promoted EXCEPT ![c] = @ \cup {d}]
      BY <1>2 DEF Beats!PromoteToBuilder, Beats!Makes
    <2>2. /\ beat' \in [Clients -> {"none", "on", "stopping", "ended"}]
          /\ c \in Clients => beat'[c] # "on"
          /\ \A e \in Clients : e \notin {c, d} => beat'[e] = beat[e]
          /\ d \in authed' \cap timed' => beat'[d] = "on"
          /\ c \in Clients /\ beat[c] # "none" => beat'[c] # "none"
      <3> DEFINE stopped == Beats!Stopped(c)
      <3>1. /\ stopped \in [Clients -> {"none", "on", "stopping", "ended"}]
            /\ c \in Clients => stopped[c] # "on"
            /\ \A e \in Clients : e # c => stopped[e] = beat[e]
            /\ c \in Clients /\ beat[c] # "none" => stopped[c] # "none"
        BY DEF Beats!Stopped
      <3>2. beat' = IF d \in authed' /\ d \in timed' THEN [stopped EXCEPT ![d] = "on"]
                    ELSE stopped
        BY <1>2 DEF Beats!PromoteToBuilder, Beats!Started
      <3> HIDE DEF stopped
      <3> QED BY <2>1, <3>1, <3>2
    <2>3. authed' \subseteq authed \cup {d} /\ timed' \subseteq timed \cup {d}
              /\ builder' = builder \cup {d}
      BY <1>2 DEF Beats!PromoteToBuilder, Beats!Copied
    <2> SUFFICES ASSUME NEW e \in Clients, NEW f \in Clients, f \in promoted'[e]
                 PROVE  /\ e \in made' /\ f \in made'
                        /\ beat'[e] # "on"
                        /\ f \in authed' \cap timed' => beat'[f] # "none" /\ f \in builder'
      BY <2>1, <2>2
    <2>4. CASE f \in promoted[e]
      BY <2>1, <2>2, <2>3, <2>4
    <2>5. CASE f \notin promoted[e]
      <3>1. e = c /\ f = d
        BY <2>1, <2>5
      <3> QED BY <2>1, <2>2, <2>3, <3>1
    <2> QED BY <2>4, <2>5
  <1>3. ASSUME NEW c \in made, Beats!StopHeartbeats(c) \/ Beats!GoroutineEnds(c)
        PROVE  BeatInv'
    <2>1. /\ made' = made /\ authed' = authed /\ timed' = timed
          /\ builder' = builder /\ promoted' = promoted
      BY <1>3 DEF Beats!StopHeartbeats, Beats!GoroutineEnds, Beats!config
    <2>2. /\ beat' \in [Clients -> {"none", "on", "stopping", "ended"}]
          /\ \A e \in Clients : beat'[e] = "on" => beat[e] = "on"
          /\ \A e \in Clients : beat'[e] = "none" => beat[e] = "none"
      BY <1>3 DEF Beats!StopHeartbeats, Beats!GoroutineEnds, Beats!Stopped
    <2> QED BY <2>1, <2>2
  <1>4. CASE UNCHANGED beatVars
    BY <1>4 DEF beatVars
  <1> QED
    BY <1>1, <1>2, <1>3, <1>4 DEF Beats!Next

(* A client that was promoted sends no heartbeats any more, and those made *)
(* of it do, with builder headers, if they can send any.                   *)
THEOREM PromotionsMoveBeats == Beats!Spec => []PromotionMovesBeats
  <1>1. Beats!Init => BeatInv
    BY DEF Beats!Init, BeatInv
  <1>2. BeatInv => PromotionMovesBeats
    BY DEF BeatInv, PromotionMovesBeats, Beats!PromotionMovesBeats
  <1>3. BeatInv /\ [Beats!Next]_(Beats!vars) => BeatInv'
    BY BeatNext DEF Beats!vars, Beats!config, beatVars
  <1> QED BY <1>1, <1>2, <1>3, PTL DEF Beats!Spec

-----------------------------------------------------------------------------
(* The keys of the user channel.                                           *)

UserTypes ==
    /\ at \in [UserStreams -> {"idle", "refused", "refs", "ensure", "write", "live", "tell",
                               "closed", "failed"}]
    /\ auth \in [UserStreams -> ApiKeys \cup {NoKey}]
    /\ naming \in [UserStreams -> SUBSET Markets]
    /\ apiKey \in ApiKeys \cup {NoKey} /\ lastAuth \in ApiKeys \cup {NoKey}
    /\ setter \in {"idle", "forget", "drop"}
    /\ leftover \subseteq ApiKeys \cup {NoKey}
    /\ switches \in Nat
    /\ link \in {"ok", "dead", "nil"}
    /\ redials \in Nat /\ resubs \in Nat
    /\ snaps \subseteq [markets : SUBSET Markets, key : ApiKeys \cup {NoKey}]
    /\ served \in [Markets -> ApiKeys \cup {NoKey}]

(* What calls and snapshots have in hand is the key that is set, or was    *)
(* in hand when it was replaced.  c.lastAuth may be older until it is      *)
(* cleared, and so may the connection until it is closed.                  *)
KeysInv ==
    /\ User!KeysInHand \subseteq ({apiKey} \cup leftover) \ {NoKey}
    /\ setter # "forget" => lastAuth \in {NoKey, apiKey} \cup leftover
    /\ setter = "drop" => apiKey = NoKey
    /\ setter = "idle" /\ apiKey = NoKey =>
           \A m \in Markets : served[m] \in {NoKey} \cup leftover

LEMMA UserTypesInit == User!UserInit => UserTypes
  <1> SUFFICES ASSUME User!UserInit PROVE UserTypes
    OBVIOUS
  <1>1. /\ at \in [UserStreams -> {"idle", "refused", "refs", "ensure", "write", "live", "tell",
                                   "closed", "failed"}]
        /\ auth \in [UserStreams -> ApiKeys \cup {NoKey}]
        /\ naming \in [UserStreams -> SUBSET Markets]
    BY DEF User!UserInit
  <1>2. served \in [Markets -> ApiKeys \cup {NoKey}]
    BY DEF User!UserInit, User!Unserved
  <1> QED BY <1>1, <1>2 DEF User!UserInit, UserTypes

LEMMA UserTypesNext == UserTypes /\ [User!UserNext]_userVars => UserTypes'
  <1> SUFFICES ASSUME UserTypes, [User!UserNext]_userVars PROVE UserTypes'
    OBVIOUS
  <1> USE DEF UserTypes, User!creds, User!calls, User!conn
  <1>s. \A ms, k : User!Subscribed(ms, k) /\ k \in ApiKeys \cup {NoKey} =>
            served' \in [Markets -> ApiKeys \cup {NoKey}]
    BY DEF User!Subscribed
  <1>u. User!Unserved \in [Markets -> ApiKeys \cup {NoKey}]
    BY DEF User!Unserved
  <1>r. User!Resolved \in ApiKeys \cup {NoKey}
    BY DEF User!Resolved
  <1>k. User!KeysInHand \subseteq ApiKeys \cup {NoKey}
    BY DEF User!KeysInHand, User!Holds
  <1>t. \A k \in ApiKeys \cup {NoKey} : User!Takes(k) => leftover' \subseteq ApiKeys \cup {NoKey}
    BY DEF User!Takes
  <1>1. ASSUME NEW k \in ApiKeys \cup {NoKey}, User!SetApiKey(k) PROVE UserTypes'
    BY <1>1, <1>k DEF User!SetApiKey
  <1>2. CASE User!ForgetLastAuth \/ User!DropUserConn
    BY <1>2, <1>u DEF User!ForgetLastAuth, User!ForgetsAuth, User!DropUserConn
  <1>3. ASSUME NEW p \in UserStreams, User!ResolveAuth(p) PROVE UserTypes'
    BY <1>3, <1>r, <1>t DEF User!ResolveAuth, User!Moves
  <1>4. ASSUME NEW p \in UserStreams, User!AddUserRefs(p) PROVE UserTypes'
    <2>1. naming' \in [UserStreams -> SUBSET Markets]
      BY <1>4, UserAssumption DEF User!AddUserRefs
    <2> QED BY <1>4, <2>1 DEF User!AddUserRefs, User!Moves
  <1>5. ASSUME NEW p \in UserStreams, User!EnsureUserConn(p) PROVE UserTypes'
    BY <1>5, <1>u DEF User!EnsureUserConn, User!Moves
  <1>6. ASSUME NEW p \in UserStreams, User!WriteUserFrame(p) PROVE UserTypes'
    <2>1. served' \in [Markets -> ApiKeys \cup {NoKey}]
      BY <1>6, <1>s DEF User!WriteUserFrame
    <2> QED BY <1>6, <2>1 DEF User!WriteUserFrame, User!Moves
  <1>7. ASSUME NEW p \in UserStreams, User!CloseUserStream(p) PROVE UserTypes'
    <2>1. naming' \in [UserStreams -> SUBSET Markets]
      BY <1>7, UserAssumption DEF User!CloseUserStream
    <2> QED BY <1>7, <1>r, <2>1 DEF User!CloseUserStream, User!Moves
  <1>8. ASSUME NEW p \in UserStreams, User!WriteUnsubscribe(p) PROVE UserTypes'
    <2>1. served' \in [Markets -> ApiKeys \cup {NoKey}]
      BY <1>8, <1>s DEF User!WriteUnsubscribe
    <2> QED BY <1>8, <2>1 DEF User!WriteUnsubscribe, User!Moves
  <1>9. CASE User!UserLinkBreaks \/ User!Redialed
    <2>1. CASE User!UserLinkBreaks
      BY <1>u, <2>1 DEF User!UserLinkBreaks
    <2>2. CASE User!Redialed
      BY <1>u, <2>2 DEF User!Redialed
    <2> QED BY <1>9, <2>1, <2>2
  <1>10. CASE User!UserSnapshot
    <2>1. snaps' \subseteq [markets : SUBSET Markets, key : ApiKeys \cup {NoKey}]
      BY <1>10 DEF User!UserSnapshot, User!SnapshotOfMarkets, User!Referenced
    <2> QED BY <1>10, <1>t, <2>1 DEF User!UserSnapshot
  <1>11. ASSUME NEW s \in snaps, User!WriteUserSnapshot(s) PROVE UserTypes'
    BY <1>11, <1>s DEF User!WriteUserSnapshot
  <1>12. CASE UNCHANGED userVars
    BY <1>12 DEF userVars
  <1> QED
    BY <1>1, <1>2, <1>3, <1>4, <1>5, <1>6, <1>7, <1>8, <1>9, <1>10, <1>11, <1>12
    DEF User!UserNext

(* Steps that put no new key into a hand.                                  *)
LEMMA SameHands ==
  ASSUME KeysInv, setter' = setter, apiKey' = apiKey, leftover \subseteq leftover',
         lastAuth' = lastAuth, User!KeysInHand' \subseteq User!KeysInHand,
         \A m \in Markets : served'[m] \in {served[m], NoKey} \cup User!KeysInHand
  PROVE  KeysInv'
  BY DEF KeysInv

(* What a frame with key k on it makes the server send.                    *)
LEMMA FramesServe ==
  ASSUME NEW ms, NEW k, User!Subscribed(ms, k), UserTypes
  PROVE  \A m \in Markets : served'[m] \in {served[m], k}
  BY DEF User!Subscribed, UserTypes

LEMMA KeysNext == UserTypes /\ KeysInv /\ [User!UserNext]_userVars => KeysInv'
  <1> SUFFICES ASSUME UserTypes, KeysInv, [User!UserNext]_userVars PROVE KeysInv'
    OBVIOUS
  <1> USE DEF User!creds, User!calls, User!conn
  <1>u. \A m \in Markets : User!Unserved[m] = NoKey
    BY DEF User!Unserved
  <1>1. ASSUME NEW k \in ApiKeys \cup {NoKey}, User!SetApiKey(k) PROVE KeysInv'
    <2>1. /\ setter' = "forget" /\ leftover' = leftover \cup User!KeysInHand
          /\ UNCHANGED <<at, auth, snaps>>
      BY <1>1 DEF User!SetApiKey
    <2>2. User!KeysInHand' = User!KeysInHand
      BY <2>1 DEF User!KeysInHand, User!Holds
    <2>3. NoKey \notin User!KeysInHand
      BY DEF KeysInv
    <2> QED BY <2>1, <2>2, <2>3 DEF KeysInv
  <1>2. CASE User!ForgetLastAuth
    <2>1. /\ setter = "forget" /\ lastAuth' = NoKey /\ UNCHANGED <<apiKey, leftover, at, auth, snaps>>
          /\ setter' = IF apiKey = NoKey THEN "drop" ELSE "idle"
      BY <1>2 DEF User!ForgetLastAuth, User!ForgetsAuth
    <2>2. User!KeysInHand' = User!KeysInHand
      BY <2>1 DEF User!KeysInHand, User!Holds
    <2> QED BY <2>1, <2>2 DEF KeysInv
  <1>3. CASE User!DropUserConn
    <2>1. /\ setter = "drop" /\ setter' = "idle" /\ served' = User!Unserved
          /\ UNCHANGED <<apiKey, lastAuth, leftover, at, auth, snaps>>
      BY <1>3 DEF User!DropUserConn
    <2>2. User!KeysInHand' = User!KeysInHand
      BY <2>1 DEF User!KeysInHand, User!Holds
    <2> QED BY <1>u, <2>1, <2>2 DEF KeysInv
  <1>4. ASSUME NEW p \in UserStreams, User!ResolveAuth(p) PROVE KeysInv'
    <2>1. /\ at[p] = "idle" /\ User!Takes(User!Resolved)
          /\ at' = [at EXCEPT ![p] = IF User!Resolved = NoKey THEN "refused" ELSE "refs"]
          /\ auth' = [auth EXCEPT ![p] = User!Resolved]
          /\ UNCHANGED <<apiKey, lastAuth, setter, snaps, served>>
      BY <1>4 DEF User!ResolveAuth, User!Moves
    <2>2. leftover \subseteq leftover'
      BY <2>1 DEF User!Takes
    <2>3. User!Resolved # NoKey => User!Resolved \in {apiKey} \cup leftover'
      BY <2>1 DEF User!Takes, User!Resolved, KeysInv
    <2>4. User!KeysInHand' \subseteq User!KeysInHand \cup ({User!Resolved} \ {NoKey})
      <3>1. \A q \in UserStreams : User!Holds(q)' =>
                \/ q = p /\ auth'[q] = User!Resolved /\ User!Resolved # NoKey
                \/ User!Holds(q) /\ auth'[q] = auth[q]
        BY <2>1 DEF UserTypes, User!Holds
      <3> QED BY <2>1, <3>1 DEF User!KeysInHand
    <2> QED BY <2>1, <2>2, <2>3, <2>4 DEF KeysInv
  <1>5. ASSUME NEW p \in UserStreams, User!AddUserRefs(p) PROVE KeysInv'
    <2>1. /\ at[p] = "refs" /\ at' = [at EXCEPT ![p] = "ensure"] /\ lastAuth' = auth[p]
          /\ UNCHANGED <<apiKey, setter, leftover, auth, snaps, served>>
      BY <1>5 DEF User!AddUserRefs, User!Moves
    <2>2. User!KeysInHand' = User!KeysInHand
      <3>1. \A q \in UserStreams : User!Holds(q)' <=> User!Holds(q)
        BY <2>1 DEF UserTypes, User!Holds
      <3> QED BY <2>1, <3>1 DEF User!KeysInHand
    <2>3. auth[p] \in User!KeysInHand
      BY <2>1 DEF User!KeysInHand, User!Holds
    <2> QED BY <2>1, <2>2, <2>3 DEF KeysInv
  <1>6. ASSUME NEW p \in UserStreams, User!EnsureUserConn(p) PROVE KeysInv'
    <2>1. /\ at[p] = "ensure" /\ UNCHANGED <<apiKey, lastAuth, setter, leftover, auth, snaps>>
          /\ \E there \in {"write", "failed"} : at' = [at EXCEPT ![p] = there]
          /\ served' \in {served, User!Unserved}
      BY <1>6 DEF User!EnsureUserConn, User!Moves
    <2>2. User!KeysInHand' \subseteq User!KeysInHand
      <3>1. \A q \in UserStreams : User!Holds(q)' => User!Holds(q)
        BY <2>1 DEF UserTypes, User!Holds
      <3> QED BY <2>1, <3>1 DEF User!KeysInHand
    <2> QED BY <1>u, <2>1, <2>2, SameHands
  <1>7. ASSUME NEW p \in UserStreams, User!WriteUserFrame(p) PROVE KeysInv'
    <2>1. /\ at[p] = "write" /\ UNCHANGED <<apiKey, lastAuth, setter, leftover, auth, snaps>>
          /\ \E there \in {"live", "failed"} : at' = [at EXCEPT ![p] = there]
          /\ User!Subscribed(naming[p], auth[p]) \/ UNCHANGED served
      BY <1>7 DEF User!WriteUserFrame, User!Moves
    <2>2. User!KeysInHand' \subseteq User!KeysInHand
      <3>1. \A q \in UserStreams : User!Holds(q)' => User!Holds(q)
        BY <2>1 DEF UserTypes, User!Holds
      <3> QED BY <2>1, <3>1 DEF User!KeysInHand
    <2>3. auth[p] \in User!KeysInHand
      BY <2>1 DEF User!KeysInHand, User!Holds
    <2>4. \A m \in Markets : served'[m] \in {served[m], auth[p]}
      BY <2>1, FramesServe
    <2> QED BY <2>1, <2>2, <2>3, <2>4, SameHands
  <1>8. ASSUME NEW p \in UserStreams, User!CloseUserStream(p) PROVE KeysInv'
    <2>1. /\ at[p] = "live" /\ at' = [at EXCEPT ![p] = "tell"]
          /\ \E k : auth' = [auth EXCEPT ![p] = k]
          /\ UNCHANGED <<apiKey, lastAuth, setter, leftover, snaps, served>>
      BY <1>8 DEF User!CloseUserStream, User!Moves
    <2>2. User!KeysInHand' \subseteq User!KeysInHand
      <3>1. \A q \in UserStreams : User!Holds(q)' => User!Holds(q) /\ auth'[q] = auth[q]
        BY <2>1 DEF UserTypes, User!Holds
      <3> QED BY <2>1, <3>1 DEF User!KeysInHand
    <2> QED BY <2>1, <2>2, SameHands
  <1>9. ASSUME NEW p \in UserStreams, User!WriteUnsubscribe(p) PROVE KeysInv'
    <2>1. /\ at[p] = "tell" /\ at' = [at EXCEPT ![p] = "closed"]
          /\ UNCHANGED <<apiKey, lastAuth, setter, leftover, auth, snaps>>
          /\ User!Subscribed(naming[p], NoKey) \/ UNCHANGED served
      BY <1>9 DEF User!WriteUnsubscribe, User!Moves
    <2>2. User!KeysInHand' \subseteq User!KeysInHand
      <3>1. \A q \in UserStreams : User!Holds(q)' => User!Holds(q)
        BY <2>1 DEF UserTypes, User!Holds
      <3> QED BY <2>1, <3>1 DEF User!KeysInHand
    <2>3. \A m \in Markets : served'[m] \in {served[m], NoKey}
      BY <2>1, FramesServe
    <2> QED BY <2>1, <2>2, <2>3, SameHands
  <1>10. CASE User!UserLinkBreaks \/ User!Redialed
    <2>1. /\ UNCHANGED <<apiKey, lastAuth, setter, leftover, at, auth, snaps>>
          /\ served' = User!Unserved
      BY <1>10 DEF User!UserLinkBreaks, User!Redialed
    <2>2. User!KeysInHand' = User!KeysInHand
      BY <2>1 DEF User!KeysInHand, User!Holds
    <2> QED BY <1>u, <2>1, <2>2, SameHands
  <1>11. CASE User!UserSnapshot
    <2>1. /\ User!Takes(lastAuth) /\ UNCHANGED <<apiKey, lastAuth, setter, at, auth, served>>
          /\ \A s \in snaps' : s \in snaps \/ (s.key = lastAuth /\ lastAuth # NoKey)
      BY <1>11 DEF User!UserSnapshot
    <2>2. leftover \subseteq leftover'
      BY <2>1 DEF User!Takes
    <2>3. lastAuth # NoKey => lastAuth \in {apiKey} \cup leftover'
      BY <2>1 DEF User!Takes, KeysInv
    <2>4. User!KeysInHand' \subseteq User!KeysInHand \cup ({lastAuth} \ {NoKey})
      BY <2>1 DEF User!KeysInHand, User!Holds
    <2> QED BY <2>1, <2>2, <2>3, <2>4 DEF KeysInv
  <1>12. ASSUME NEW s \in snaps, User!WriteUserSnapshot(s) PROVE KeysInv'
    <2>1. /\ UNCHANGED <<apiKey, lastAuth, setter, leftover, at, auth>>
          /\ snaps' \subseteq snaps /\ User!Subscribed(s.markets, s.key)
      BY <1>12 DEF User!WriteUserSnapshot
    <2>2. User!KeysInHand' \subseteq User!KeysInHand /\ s.key \in User!KeysInHand
      BY <2>1 DEF User!KeysInHand, User!Holds
    <2>3. \A m \in Markets : served'[m] \in {served[m], s.key}
      BY <2>1, FramesServe
    <2> QED BY <2>1, <2>2, <2>3, SameHands
  <1>13. CASE UNCHANGED userVars
    BY <1>13 DEF userVars, KeysInv, User!KeysInHand, User!Holds
  <1> QED
    BY <1>1, <1>2, <1>3, <1>4, <1>5, <1>6, <1>7, <1>8, <1>9, <1>10, <1>11, <1>12, <1>13
    DEF User!UserNext

(* Once a change of keys is done, only the key set last is remembered or   *)
(* about to be sent, or one that a call or a snapshot had in hand while it *)
(* was replaced; without a key the server sends nothing but for those.     *)
THEOREM KeysAreSetLast == User!UserSpec => []KeysAreTheLastSet
  <1>1. User!UserInit => KeysInv
    BY DEF User!UserInit, KeysInv, User!KeysInHand, User!Holds, User!Unserved
  <1>2. KeysInv => KeysAreTheLastSet
    BY DEF KeysInv, KeysAreTheLastSet, User!KeysAreTheLastSet
  <1>3. [User!UserNext]_(User!userVars) => [User!UserNext]_userVars
    BY DEF User!userVars, User!creds, User!calls, User!conn, userVars
  <1> QED
    BY <1>1, <1>2, <1>3, UserTypesInit, UserTypesNext, KeysNext, PTL DEF User!UserSpec

-----------------------------------------------------------------------------
(* What the user channel serves.                                           *)

(* Nobody changed the keys, closed a stream or failed.                     *)
Undisturbed ==
    switches = 0 /\ \A p \in UserStreams : at[p] \notin {"tell", "closed", "failed"}

(* A market is served, or somebody is still to ask for it.                 *)
Coming(m) ==
    \/ served[m] # NoKey
    \/ \E p \in UserStreams : at[p] \in {"ensure", "write"} /\ m \in naming[p]
    \/ redials > 0 \/ resubs > 0
    \/ \E s \in snaps : m \in s.markets

UserServedInv ==
    Undisturbed =>
        /\ setter = "idle"
        /\ userRefs \in [Markets -> Nat]
        /\ \A p \in UserStreams :
               /\ at[p] \in {"refs", "ensure", "write"} => auth[p] # NoKey
               /\ at[p] \in {"ensure", "write", "live"} =>
                      \A m \in MarketsOf[p] : userRefs[m] > 0
        /\ \A s \in snaps : s.key # NoKey
        /\ \A m \in Markets : userRefs[m] > 0 => lastAuth # NoKey /\ Coming(m)
        /\ link = "dead" => redials > 0
        /\ link = "nil" =>
               /\ redials = 0 /\ resubs = 0 /\ snaps = {} /\ served = User!Unserved
               /\ \A p \in UserStreams : at[p] \notin {"write", "live"}

LEMMA UserServedNext ==
  UserTypes /\ UserServedInv /\ [User!UserNext]_userVars => UserServedInv'
  <1> SUFFICES ASSUME UserTypes, UserServedInv, [User!UserNext]_userVars, Undisturbed'
               PROVE  UserServedInv'
    BY DEF UserServedInv
  <1> USE UserAssumption DEF UserTypes, User!creds, User!calls, User!conn
  <1>0. CASE UNCHANGED userVars
    BY <1>0 DEF userVars, UserServedInv, Undisturbed, Coming
  <1>1. ASSUME NEW k, User!SetApiKey(k) PROVE FALSE
    BY <1>1 DEF User!SetApiKey, Undisturbed
  <1>2. CASE User!ForgetLastAuth \/ User!DropUserConn
    BY <1>2 DEF User!ForgetLastAuth, User!DropUserConn, Undisturbed, UserServedInv
  <1>3. ASSUME NEW p \in UserStreams, User!ResolveAuth(p) PROVE UserServedInv'
    <2>1. Undisturbed
      BY <1>3 DEF User!ResolveAuth, User!Moves, Undisturbed
    <2>2. \A q \in UserStreams \ {p} : at'[q] = at[q] /\ auth'[q] = auth[q]
      BY <1>3 DEF User!ResolveAuth, User!Moves
    <2>3. at[p] = "idle" /\ at'[p] \in {"refused", "refs"} /\ (at'[p] = "refs" => auth'[p] # NoKey)
      BY <1>3 DEF User!ResolveAuth, User!Moves
    <2>4. UNCHANGED <<lastAuth, setter, naming, userRefs, link, redials, resubs, snaps, served>>
      BY <1>3 DEF User!ResolveAuth
    <2>5. \A m \in Markets : Coming(m) => Coming(m)'
      BY <2>2, <2>3, <2>4 DEF Coming
    <2> QED BY <2>1, <2>2, <2>3, <2>4, <2>5 DEF UserServedInv
  <1>4. ASSUME NEW p \in UserStreams, User!AddUserRefs(p) PROVE UserServedInv'
    <2>1. Undisturbed
      BY <1>4 DEF User!AddUserRefs, User!Moves, Undisturbed
    <2>2. \A q \in UserStreams \ {p} : at'[q] = at[q] /\ naming'[q] = naming[q]
      BY <1>4 DEF User!AddUserRefs, User!Moves
    <2>3. /\ at[p] = "refs" /\ at'[p] = "ensure"
          /\ naming'[p] = {m \in MarketsOf[p] : userRefs[m] = 0}
          /\ lastAuth' = auth[p]
      BY <1>4 DEF User!AddUserRefs, User!Moves
    <2>4. UNCHANGED <<auth, setter, link, redials, resubs, snaps, served>>
      BY <1>4 DEF User!AddUserRefs
    <2>5. /\ userRefs' \in [Markets -> Nat]
          /\ \A m \in Markets : userRefs'[m] >= userRefs[m]
          /\ \A m \in MarketsOf[p] : userRefs'[m] > 0
          /\ \A m \in Markets : userRefs'[m] > 0 => userRefs[m] > 0 \/ m \in MarketsOf[p]
      BY <1>4, <2>1 DEF User!AddUserRefs, UserServedInv
    <2>6. \A m \in Markets : Coming(m) => Coming(m)'
      BY <2>2, <2>3, <2>4 DEF Coming
    <2>7. \A m \in MarketsOf[p] : userRefs[m] = 0 => Coming(m)'
      BY <2>3 DEF Coming
    <2>8. \A m \in Markets : userRefs'[m] > 0 => lastAuth' # NoKey /\ Coming(m)'
      BY <2>1, <2>3, <2>5, <2>6, <2>7 DEF UserServedInv
    <2>9. \A q \in UserStreams : at'[q] \in {"ensure", "write", "live"} =>
              \A m \in MarketsOf[q] : userRefs'[m] > 0
      BY <2>1, <2>2, <2>3, <2>5 DEF UserServedInv
    <2> QED BY <2>1, <2>2, <2>3, <2>4, <2>5, <2>8, <2>9 DEF UserServedInv
  <1>5. ASSUME NEW p \in UserStreams, User!EnsureUserConn(p) PROVE UserServedInv'
    <2>1. Undisturbed /\ at[p] = "ensure" /\ at'[p] = "write"
      BY <1>5 DEF User!EnsureUserConn, User!Moves, Undisturbed
    <2>2. \A q \in UserStreams \ {p} : at'[q] = at[q]
      BY <1>5 DEF User!EnsureUserConn, User!Moves
    <2>3. UNCHANGED <<lastAuth, auth, setter, naming, userRefs, redials, resubs, snaps>>
      BY <1>5 DEF User!EnsureUserConn
    <2>4. CASE link # "nil"
      <3>1. UNCHANGED <<link, served>>
        BY <1>5, <2>4 DEF User!EnsureUserConn
      <3>2. \A m \in Markets : Coming(m) => Coming(m)'
        BY <2>1, <2>2, <2>3, <3>1 DEF Coming
      <3> QED BY <2>1, <2>2, <2>3, <2>4, <3>1, <3>2 DEF UserServedInv
    <2>5. CASE link = "nil"
      <3>1. link' = "ok"
        BY <1>5, <2>1, <2>5 DEF User!EnsureUserConn, User!Moves
      <3>2. \A m \in Markets : userRefs[m] > 0 => Coming(m)'
        <4> SUFFICES ASSUME NEW m \in Markets, userRefs[m] > 0 PROVE Coming(m)'
          OBVIOUS
        <4>1. PICK q \in UserStreams : at[q] \in {"ensure", "write"} /\ m \in naming[q]
          BY <2>1, <2>5 DEF UserServedInv, Coming, User!Unserved
        <4> QED BY <2>1, <2>2, <2>3, <4>1 DEF Coming
      <3> QED BY <2>1, <2>2, <2>3, <3>1, <3>2 DEF UserServedInv
    <2> QED BY <2>4, <2>5
  <1>6. ASSUME NEW p \in UserStreams, User!WriteUserFrame(p) PROVE UserServedInv'
    <2>1. Undisturbed /\ at[p] = "write" /\ at'[p] = "live" /\ User!Subscribed(naming[p], auth[p])
      BY <1>6 DEF User!WriteUserFrame, User!Moves, Undisturbed
    <2>2. \A q \in UserStreams \ {p} : at'[q] = at[q]
      BY <1>6 DEF User!WriteUserFrame, User!Moves
    <2>3. UNCHANGED <<lastAuth, auth, setter, naming, userRefs, link, redials, resubs, snaps>>
      BY <1>6 DEF User!WriteUserFrame
    <2>4. \A m \in Markets : Coming(m) => Coming(m)'
      <3> SUFFICES ASSUME NEW m \in Markets, Coming(m) PROVE Coming(m)'
        OBVIOUS
      <3>1. CASE link = "dead"
        BY <2>1, <2>3, <3>1 DEF UserServedInv, Coming
      <3>2. CASE link = "ok"
        <4>1. auth[p] # NoKey
          BY <2>1 DEF UserServedInv
        <4>2. served'[m] = IF m \in naming[p] THEN auth[p] ELSE served[m]
          BY <2>1, <3>2 DEF User!Subscribed
        <4> QED BY <2>2, <2>3, <4>1, <4>2 DEF Coming
      <3>3. link # "nil"
        BY <2>1 DEF UserServedInv
      <3> QED BY <3>1, <3>2, <3>3
    <2> QED BY <2>1, <2>2, <2>3, <2>4 DEF UserServedInv
  <1>7. ASSUME NEW p \in UserStreams, User!CloseUserStream(p) \/ User!WriteUnsubscribe(p)
        PROVE  FALSE
    BY <1>7 DEF User!CloseUserStream, User!WriteUnsubscribe, User!Moves, Undisturbed
  <1>8. CASE User!UserLinkBreaks \/ User!Redialed
    <2>1. Undisturbed /\ link # "nil" /\ link' \in {"ok", "dead"}
      BY <1>8 DEF User!UserLinkBreaks, User!Redialed, Undisturbed, UserServedInv
    <2>2. UNCHANGED <<lastAuth, at, auth, setter, naming, userRefs, snaps>>
      BY <1>8 DEF User!UserLinkBreaks, User!Redialed
    <2>3. redials' > 0 \/ resubs' > 0
      BY <1>8 DEF User!UserLinkBreaks, User!Redialed
    <2>4. link' = "dead" => redials' > 0
      BY <1>8 DEF User!UserLinkBreaks, User!Redialed
    <2>5. \A m \in Markets : Coming(m)'
      BY <2>3 DEF Coming
    <2> QED BY <2>1, <2>2, <2>4, <2>5 DEF UserServedInv
  <1>9. CASE User!UserSnapshot
    <2>1. Undisturbed /\ link # "nil"
      BY <1>9 DEF User!UserSnapshot, Undisturbed, UserServedInv
    <2>2. UNCHANGED <<lastAuth, at, auth, setter, naming, userRefs, link, redials, served>>
      BY <1>9 DEF User!UserSnapshot
    <2> DEFINE taken == [markets |-> User!Referenced, key |-> lastAuth]
    <2>3. snaps' = IF User!Referenced = {} \/ lastAuth = NoKey THEN snaps ELSE snaps \cup {taken}
      BY <1>9 DEF User!UserSnapshot, User!SnapshotOfMarkets
    <2>4. \A s \in snaps' : s \in snaps \/ s.key # NoKey
      BY <2>3
    <2>5. \A m \in Markets : userRefs[m] > 0 => taken \in snaps' /\ m \in taken.markets
      BY <2>1, <2>3 DEF User!Referenced, UserServedInv
    <2>6. \A m \in Markets : userRefs[m] > 0 => Coming(m)'
      BY <2>5 DEF Coming
    <2> HIDE DEF taken
    <2> QED BY <2>1, <2>2, <2>4, <2>6 DEF UserServedInv
  <1>10. ASSUME NEW s \in snaps, User!WriteUserSnapshot(s) PROVE UserServedInv'
    <2>1. Undisturbed /\ link # "nil"
      BY <1>10 DEF User!WriteUserSnapshot, Undisturbed, UserServedInv
    <2>2. UNCHANGED <<lastAuth, at, auth, setter, naming, userRefs, link, redials, resubs>>
              /\ snaps' = snaps \ {s} /\ User!Subscribed(s.markets, s.key)
      BY <1>10 DEF User!WriteUserSnapshot
    <2>3. \A m \in Markets : Coming(m) => Coming(m)'
      <3> SUFFICES ASSUME NEW m \in Markets, Coming(m) PROVE Coming(m)'
        OBVIOUS
      <3>1. CASE link = "dead"
        BY <2>1, <2>2, <3>1 DEF UserServedInv, Coming
      <3>2. CASE link = "ok"
        <4>1. s.key # NoKey
          BY <2>1 DEF UserServedInv
        <4>2. served'[m] = IF m \in s.markets THEN s.key ELSE served[m]
          BY <2>2, <3>2 DEF User!Subscribed
        <4> QED BY <2>2, <4>1, <4>2 DEF Coming
      <3> QED BY <2>1, <3>1, <3>2
    <2> QED BY <2>1, <2>2, <2>3 DEF UserServedInv
  <1> QED
    BY <1>0, <1>1, <1>2, <1>3, <1>4, <1>5, <1>6, <1>7, <1>8, <1>9, <1>10 DEF User!UserNext

(* As long as nobody changes the keys, closes a stream or fails, the       *)
(* server sends every open stream what it asked for whenever the           *)
(* connection works and no call or reconnect is under way.                 *)
THEOREM UserStreamsAreServed == User!UserSpec => []UserStreamsServed
  <1>1. User!UserInit => UserServedInv
    BY DEF User!UserInit, UserServedInv, Undisturbed, Coming, User!Unserved
  <1>2. UserServedInv => UserStreamsServed
    <2> SUFFICES ASSUME UserServedInv, switches = 0, link = "ok", ~User!UnderWay,
                        \A p \in UserStreams : at[p] \notin {"closed", "failed"},
                        NEW p \in UserStreams, at[p] = "live",
                        NEW m \in MarketsOf[p]
                 PROVE  served[m] # NoKey
      BY DEF UserStreamsServed, User!UserStreamsServed
    <2>1. Undisturbed
      BY DEF Undisturbed, User!UnderWay
    <2>2. m \in Markets /\ Coming(m)
      BY <2>1, UserAssumption DEF UserServedInv
    <2>3. ~(redials > 0) /\ ~(resubs > 0) /\ snaps = {} /\ \A q \in UserStreams : ~User!Holds(q)
      BY DEF User!UnderWay
    <2>4. \A q \in UserStreams : at[q] \notin {"ensure", "write"}
      BY <2>3 DEF User!Holds
    <2> QED BY <2>2, <2>3, <2>4 DEF Coming
  <1>3. [User!UserNext]_(User!userVars) => [User!UserNext]_userVars
    BY DEF User!userVars, User!creds, User!calls, User!conn, userVars
  <1> QED
    BY <1>1, <1>2, <1>3, UserTypesInit, UserTypesNext, UserServedNext, PTL DEF User!UserSpec

-----------------------------------------------------------------------------
(* Lists read page by page.                                                *)

Items == Range(Initial) \cup Extra

LeftAt(from) == {list[i] : i \in from + 1 .. Len(list)}
Left == IF cursor \in Nat THEN LeftAt(cursor) ELSE {}

PageTypes ==
    /\ mode \in {"stream", "cursor", "offset"}
    /\ pc \in {"top", "fetch", "items", "send", "ended"}
    /\ list \in Seq(Items) /\ page \in Seq(Items) /\ results \in Seq(Items)
    /\ cursor \in Nat \cup {End, Repeat}

(* An item that was there from the start has been taken, is in the page at *)
(* hand or comes after the cursor.                                         *)
SkipInv ==
    /\ pc \in {"top", "fetch"} => page = <<>>
    /\ pc = "fetch" => cursor \in Nat
    /\ pc = "send" => page # <<>>
    /\ pc # "ended" => failed = "none"
    /\ pc = "ended" /\ failed = "none" => cursor \notin Nat /\ page = <<>>
    /\ failed = "none" /\ ~removed =>
           Range(Initial) \subseteq Range(results) \cup Range(page) \cup Left

LEMMA EndIsNoNat == End \notin Nat /\ Repeat \notin Nat
  BY DEF End, Repeat

LEMMA InitialItems == Initial \in Seq(Items)
  BY PagingAssumption, SeqMonotonic DEF Items

LEMMA RangeIs ==
  ASSUME NEW s \in Seq(Items)
  PROVE  Range(s) = {s[i] : i \in 1 .. Len(s)}
  BY RangeEquality

LEMMA NothingInEmpty == Range(<<>>) = {}
  BY DEF Range

LEMMA RangeOfRest ==
  ASSUME NEW s \in Seq(Items), s # <<>>, NEW r \in Seq(Items)
  PROVE  /\ Append(r, Head(s)) \in Seq(Items) /\ Tail(s) \in Seq(Items)
         /\ Range(r) \cup Range(s) \subseteq Range(Append(r, Head(s))) \cup Range(Tail(s))
  <1>1. /\ Head(s) \in Items /\ Head(s) = s[1]
        /\ Tail(s) \in Seq(Items) /\ Len(Tail(s)) = Len(s) - 1
        /\ \A i \in 1 .. Len(Tail(s)) : Tail(s)[i] = s[i + 1]
        /\ Len(s) \in Nat \ {0}
    BY HeadTailProperties
  <1>2. /\ Append(r, Head(s)) \in Seq(Items) /\ Len(Append(r, Head(s))) = Len(r) + 1
        /\ \A i \in 1 .. Len(r) : Append(r, Head(s))[i] = r[i]
        /\ Append(r, Head(s))[Len(r) + 1] = s[1]
        /\ Len(r) \in Nat
    BY <1>1
  <1>3. Range(r) \cup {s[1]} \subseteq Range(Append(r, Head(s)))
    <2>1. Range(r) \subseteq Range(Append(r, Head(s)))
      <3> SUFFICES ASSUME NEW i \in 1 .. Len(r) PROVE r[i] \in Range(Append(r, Head(s)))
        BY RangeIs
      <3>1. i \in 1 .. Len(Append(r, Head(s))) /\ Append(r, Head(s))[i] = r[i]
        BY <1>2
      <3> QED BY <1>2, <3>1, RangeIs
    <2>2. s[1] \in Range(Append(r, Head(s)))
      <3>1. Len(r) + 1 \in 1 .. Len(Append(r, Head(s)))
        BY <1>2
      <3> QED BY <1>2, <3>1, RangeIs
    <2> QED BY <2>1, <2>2
  <1>4. Range(s) \subseteq {s[1]} \cup Range(Tail(s))
    <2> SUFFICES ASSUME NEW i \in 1 .. Len(s), i # 1 PROVE s[i] \in Range(Tail(s))
      BY RangeIs
    <2>1. i - 1 \in 1 .. Len(Tail(s)) /\ Tail(s)[i - 1] = s[i]
      BY <1>1
    <2> QED BY <1>1, <2>1, RangeIs
  <1> QED BY <1>1, <1>2, <1>3, <1>4

(* A page is a part of the list; what comes after it starts Limit further  *)
(* on, and there is nothing after a page that is not full.                 *)
LEMMA PageSplits ==
  ASSUME list \in Seq(Items), NEW from \in Nat
  PROVE  /\ PageAt(from) \in Seq(Items)
         /\ LeftAt(from) \subseteq Range(PageAt(from)) \cup LeftAt(from + Limit)
         /\ from + Limit >= Len(list) => LeftAt(from + Limit) = {}
         /\ Len(PageAt(from)) < Limit => from + Limit >= Len(list)
  <1> DEFINE last == Min({from + Limit, Len(list)})
  <1> USE PagingAssumption
  <1>1. last = IF from + Limit <= Len(list) THEN from + Limit ELSE Len(list)
    BY DEF Min
  <1>2. last \in Nat /\ last <= Len(list)
    BY <1>1
  <1> HIDE DEF last
  <1>3. \A i \in from + 1 .. last : list[i] \in Items
    BY <1>2
  <1>4. /\ PageAt(from) \in Seq(Items)
        /\ Len(PageAt(from)) = IF from + 1 <= last THEN last - from ELSE 0
        /\ \A i \in 1 .. last - from : PageAt(from)[i] = list[from + i]
    <2>1. /\ SubSeq(list, from + 1, last) \in Seq(Items)
          /\ Len(SubSeq(list, from + 1, last)) =
                 IF from + 1 <= last THEN last - (from + 1) + 1 ELSE 0
          /\ \A i \in 1 .. last - (from + 1) + 1 :
                 SubSeq(list, from + 1, last)[i] = list[from + 1 + i - 1]
      BY <1>2, <1>3, SubSeqProperties
    <2>2. PageAt(from) = SubSeq(list, from + 1, last)
      BY DEF PageAt, last
    <2>3. /\ last - (from + 1) + 1 = last - from
          /\ \A i \in 1 .. last - from : from + 1 + i - 1 = from + i
      BY <1>2
    <2> QED BY <2>1, <2>2, <2>3
  <1>5. LeftAt(from) \subseteq Range(PageAt(from)) \cup LeftAt(from + Limit)
    <2> SUFFICES ASSUME NEW i \in from + 1 .. Len(list), i <= last
                 PROVE  list[i] \in Range(PageAt(from))
      BY <1>1 DEF LeftAt
    <2>1. i - from \in 1 .. last - from /\ i - from \in 1 .. Len(PageAt(from))
      BY <1>2, <1>4
    <2>2. PageAt(from)[i - from] = list[i]
      BY <1>2, <1>4, <2>1
    <2> QED BY <1>4, <2>1, <2>2, RangeIs
  <1>6. from + Limit >= Len(list) => LeftAt(from + Limit) = {}
    BY DEF LeftAt
  <1>7. Len(PageAt(from)) < Limit => from + Limit >= Len(list)
    BY <1>1, <1>4
  <1> QED BY <1>4, <1>5, <1>6, <1>7

(* What is inserted moves nothing out of what is left.                     *)
LEMMA InsertKeeps ==
  ASSUME list \in Seq(Items), NEW i \in 1 .. Len(list) + 1, NEW x \in Items,
         list' = InsertAt(list, i, x), NEW from \in Nat
  PROVE  list' \in Seq(Items) /\ LeftAt(from) \subseteq LeftAt(from)'
  <1> DEFINE before == SubSeq(list, 1, i - 1)
             after == SubSeq(list, i, Len(list))
  <1>1. /\ before \in Seq(Items) /\ Len(before) = i - 1
        /\ \A j \in 1 .. i - 1 : before[j] = list[j]
    OBVIOUS
  <1>2. /\ after \in Seq(Items) /\ Len(after) = Len(list) - i + 1
        /\ \A j \in 1 .. Len(list) - i + 1 : after[j] = list[i + j - 1]
    OBVIOUS
  <1>3. list' = before \o <<x>> \o after
    BY DEF InsertAt
  <1> HIDE DEF before, after
  <1>4. /\ list' \in Seq(Items) /\ Len(list') = Len(list) + 1
        /\ \A j \in 1 .. i - 1 : list'[j] = list[j]
        /\ \A j \in i .. Len(list) : list'[j + 1] = list[j]
    <2>1. /\ before \o <<x>> \in Seq(Items) /\ Len(before \o <<x>>) = i
          /\ \A j \in 1 .. i - 1 : (before \o <<x>>)[j] = list[j]
      BY <1>1
    <2>2. list' \in Seq(Items) /\ Len(list') = Len(list) + 1
      <3>1. list' = (before \o <<x>>) \o after
        BY <1>1, <1>2, <1>3
      <3> DEFINE front == before \o <<x>>
      <3>2. front \in Seq(Items) /\ Len(front) = i
        BY <2>1
      <3> HIDE DEF front
      <3>3. front \o after \in Seq(Items) /\ Len(front \o after) = Len(front) + Len(after)
        BY <1>2, <3>2
      <3>4. i + (Len(list) - i + 1) = Len(list) + 1
        OBVIOUS
      <3>5. list' = front \o after
        BY <3>1 DEF front
      <3> QED BY <1>2, <3>2, <3>3, <3>4, <3>5
    <2>3. \A j \in 1 .. i - 1 : list'[j] = list[j]
      BY <1>2, <1>3, <2>1
    <2>4. ASSUME NEW j \in i .. Len(list) PROVE list'[j + 1] = list[j]
      <3>1. list'[j + 1] = after[j + 1 - i]
        BY <1>2, <1>3, <2>1
      <3>2. i + (j + 1 - i) - 1 = j /\ j + 1 - i \in 1 .. Len(list) - i + 1
        OBVIOUS
      <3> QED BY <1>2, <3>1, <3>2
    <2> QED BY <2>2, <2>3, <2>4
  <1>5. ASSUME NEW j \in from + 1 .. Len(list)
        PROVE  \E k \in from + 1 .. Len(list') : list'[k] = list[j]
    <2>1. CASE j < i
      BY <1>4, <2>1
    <2>2. CASE j >= i
      BY <1>4, <2>2
    <2> QED BY <2>1, <2>2
  <1> QED BY <1>4, <1>5 DEF LeftAt

LEMMA RemoveKeeps ==
  ASSUME list \in Seq(Items), NEW i \in 1 .. Len(list)
  PROVE  RemoveAt(list, i) \in Seq(Items)
  <1>1. SubSeq(list, 1, i - 1) \in Seq(Items) /\ SubSeq(list, i + 1, Len(list)) \in Seq(Items)
    OBVIOUS
  <1> QED BY <1>1 DEF RemoveAt

(* The three shapes a step of a loop takes.                                *)
LEMMA SkipStep ==
  ASSUME PageTypes, SkipInv, NEW from \in Nat, cursor = from, failed' = failed,
         list' = list, removed' = removed, Initial \in Seq(Items),
         cursor' \in Nat \cup {End, Repeat},
         cursor' \in Nat => cursor' = from + Limit,
         cursor' \notin Nat => from + Limit >= Len(list),
         Range(page) \subseteq Range(results),
         Range(results) \cup Range(PageAt(from)) \subseteq Range(results') \cup Range(page')
  PROVE  failed' = "none" /\ ~removed' =>
             Range(Initial) \subseteq Range(results') \cup Range(page') \cup Left'
  <1>1. LeftAt(from) \subseteq Range(PageAt(from)) \cup LeftAt(from + Limit)
    BY PageSplits DEF PageTypes
  <1>2. LeftAt(from + Limit) \subseteq Left'
    <2>1. CASE cursor' \in Nat
      BY <2>1 DEF Left, LeftAt
    <2>2. CASE cursor' \notin Nat
      BY <2>2, PageSplits DEF PageTypes
    <2> QED BY <2>1, <2>2
  <1>3. failed = "none" /\ ~removed =>
            Range(Initial) \subseteq Range(results) \cup Range(page) \cup LeftAt(from)
    BY DEF SkipInv, Left
  <1> QED BY <1>1, <1>2, <1>3

LEMMA SkipNext == PageTypes /\ SkipInv /\ [Next]_vars => (PageTypes /\ SkipInv)'
  <1> SUFFICES ASSUME PageTypes, SkipInv, [Next]_vars PROVE (PageTypes /\ SkipInv)'
    OBVIOUS
  <1> USE DEF server, loop
  <1>s. ASSUME UNCHANGED <<list, removed, cursor, page, results, mode>>,
               pc' \in {"top", "fetch", "items", "send", "ended"},
               pc \in {"top", "fetch"} \/ (pc = "items" /\ pc' # "fetch"),
               pc' = "top" => page = <<>>,
               pc' = "send" => page # <<>>,
               pc' = "fetch" => cursor \in Nat,
               pc' = "ended" /\ failed' = "none" => cursor \notin Nat /\ page = <<>>,
               pc' # "ended" => failed' = "none"
        PROVE  (PageTypes /\ SkipInv)'
    <2>1. failed = "none"
      BY <1>s DEF SkipInv
    <2> QED BY <1>s, <2>1 DEF PageTypes, SkipInv, Left, LeftAt
  <1>1. CASE Top
    BY <1>1, <1>s, EndIsNoNat DEF Top, Ends, PageTypes, SkipInv
  <1>2. CASE FetchFails \/ StreamFetchFails
    <2>1. /\ pc = "fetch" /\ pc' = "ended" /\ failed' # "none"
          /\ UNCHANGED <<list, mode, cursor, page>>
          /\ results' = <<>> \/ results' = results
      BY <1>2 DEF FetchFails, StreamFetchFails, Ends
    <2> QED BY <2>1 DEF PageTypes, SkipInv
  <1>3. CASE CollectPage
    <2>1. /\ pc = "fetch" /\ pc' = "top" /\ cursor \in Nat /\ page = <<>>
          /\ results' = results \o PageAt(cursor)
          /\ UNCHANGED <<list, removed, mode, page, failed>>
      BY <1>3 DEF CollectPage, SkipInv
    <2>2. /\ cursor' \in Nat \cup {End, Repeat}
          /\ cursor' \in Nat => cursor' = cursor + Limit
          /\ cursor' \notin Nat => cursor + Limit >= Len(list)
      <3>1. CASE mode = "cursor"
        BY <1>3, <2>1, <3>1, EndIsNoNat, PagingAssumption DEF CollectPage, CursorAfter, PageTypes
      <3>2. CASE mode = "offset"
        BY <1>3, <2>1, <3>2, EndIsNoNat, PagingAssumption, PageSplits
        DEF CollectPage, StopsAt, PageTypes
      <3> QED BY <1>3, <3>1, <3>2 DEF CollectPage, PageTypes
    <2>3. results' \in Seq(Items) /\ Range(results') = Range(results) \cup Range(PageAt(cursor))
      BY <2>1, PageSplits, RangeConcatenation DEF PageTypes
    <2>4. Range(page) = {}
      BY <2>1, NothingInEmpty
    <2>5. failed' = "none" /\ ~removed' =>
              Range(Initial) \subseteq Range(results') \cup Range(page') \cup Left'
      BY <2>1, <2>2, <2>3, <2>4, InitialItems, SkipStep
    <2> QED BY <2>1, <2>2, <2>3, <2>5 DEF PageTypes, SkipInv
  <1>4. CASE StreamPage
    <2>1. /\ pc = "fetch" /\ pc' = "items" /\ cursor \in Nat /\ page = <<>>
          /\ page' = PageAt(cursor)
          /\ UNCHANGED <<list, removed, mode, results, failed>>
      BY <1>4 DEF StreamPage, SkipInv
    <2>2. /\ cursor' \in Nat \cup {End, Repeat}
          /\ cursor' \in Nat => cursor' = cursor + Limit
          /\ cursor' \notin Nat => cursor + Limit >= Len(list)
      BY <1>4, <2>1, EndIsNoNat, PagingAssumption DEF StreamPage, CursorAfter, PageTypes
    <2>3. page' \in Seq(Items)
      BY <2>1, PageSplits DEF PageTypes
    <2>4. Range(page) = {}
      BY <2>1, NothingInEmpty
    <2>5. failed' = "none" /\ ~removed' =>
              Range(Initial) \subseteq Range(results') \cup Range(page') \cup Left'
      BY <2>1, <2>2, <2>4, InitialItems, SkipStep
    <2> QED BY <2>1, <2>2, <2>3, <2>5 DEF PageTypes, SkipInv
  <1>5. CASE CheckItem
    BY <1>5, <1>s DEF CheckItem, Ends, PageTypes, SkipInv
  <1>6. CASE SendItem
    <2>1. CASE pc' = "ended"
      BY <1>6, <2>1 DEF SendItem, Ends, PageTypes, SkipInv
    <2>2. CASE pc' # "ended"
      <3>1. /\ pc = "send" /\ pc' = "items"
            /\ results' = Append(results, Head(page)) /\ page' = Tail(page)
            /\ UNCHANGED <<list, removed, mode, cursor, failed>>
        BY <1>6, <2>2 DEF SendItem, Ends
      <3>2. page # <<>>
        BY <3>1 DEF SkipInv
      <3>3. /\ results' \in Seq(Items) /\ page' \in Seq(Items)
            /\ Range(results) \cup Range(page) \subseteq Range(results') \cup Range(page')
        BY <3>1, <3>2, RangeOfRest DEF PageTypes
      <3>4. Left' = Left
        BY <3>1 DEF Left, LeftAt
      <3> QED BY <3>1, <3>3, <3>4 DEF PageTypes, SkipInv
    <2> QED BY <2>1, <2>2
  <1>7. CASE ServerInserts
    <2>1. PICK i \in 1 .. Len(list) + 1, x \in Extra : list' = InsertAt(list, i, x)
      BY <1>7 DEF ServerInserts, Change
    <2>2. x \in Items
      BY DEF Items
    <2>3. UNCHANGED <<mode, cursor, pc, page, results, failed, removed>>
      BY <1>7 DEF ServerInserts, Change
    <2>4. list' \in Seq(Items) /\ \A from \in Nat : LeftAt(from) \subseteq LeftAt(from)'
      BY <2>1, <2>2, InsertKeeps DEF PageTypes
    <2>5. Left \subseteq Left'
      BY <2>3, <2>4 DEF Left, LeftAt
    <2> QED BY <2>3, <2>4, <2>5 DEF PageTypes, SkipInv
  <1>8. CASE ServerRemoves
    <2>1. PICK i \in 1 .. Len(list) : list' = RemoveAt(list, i)
      BY <1>8 DEF ServerRemoves, Change
    <2>2. removed' = TRUE /\ UNCHANGED <<mode, cursor, pc, page, results, failed>>
      BY <1>8 DEF ServerRemoves, Change
    <2> QED BY <2>1, <2>2, RemoveKeeps DEF PageTypes, SkipInv
  <1>9. CASE Receive \/ ConsumerLeaves \/ Cancel \/ UNCHANGED vars
    BY <1>9 DEF Receive, ConsumerLeaves, Cancel, vars, PageTypes, SkipInv, Left, LeftAt
  <1> QED
    BY <1>1, <1>2, <1>3, <1>4, <1>5, <1>6, <1>7, <1>8, <1>9 DEF Next, Turns

(* A loop that ends without an error has every item that was there from    *)
(* the start, for any list, size of pages and insertions.                  *)
THEOREM PagesSkipNothing == Spec => []NothingSkipped
  <1>1. Init => PageTypes /\ SkipInv
    <2> SUFFICES ASSUME Init PROVE PageTypes /\ SkipInv
      OBVIOUS
    <2>1. PageTypes
      BY InitialItems DEF Init, PageTypes
    <2>2. Range(Initial) \subseteq Left
      <3>1. Range(Initial) = {Initial[i] : i \in 1 .. Len(Initial)}
        BY InitialItems, RangeIs
      <3> QED BY <3>1 DEF Init, Left, LeftAt
    <2> QED BY <2>1, <2>2 DEF Init, SkipInv
  <1>2. PageTypes /\ SkipInv => NothingSkipped
    BY NothingInEmpty DEF SkipInv, NothingSkipped, Left
  <1> QED BY <1>1, <1>2, SkipNext, PTL DEF Spec

-----------------------------------------------------------------------------
(* Induction, from the well-foundedness of the natural numbers.            *)

LEMMA LeastNatural ==
  ASSUME NEW T \in SUBSET Nat, T # {}
  PROVE  \E n \in T : \A m \in T : n <= m
  <1> DEFINE R == OpToRel(<, Nat)
  <1>1. IsWellFoundedOn(R, Nat)
    BY NatLessThanWellFounded
  <1>2. \A m, n \in Nat : <<m, n>> \in R <=> m < n
    BY DEF OpToRel
  <1> HIDE DEF R
  <1>3. PICK n \in T : \A m \in T : ~(<<m, n>> \in R)
    BY <1>1, WFMin
  <1>4. ASSUME NEW m \in T PROVE n <= m
    <2>1. n \in Nat /\ m \in Nat
      OBVIOUS
    <2>2. ~(m < n)
      BY <1>2, <1>3, <2>1
    <2> QED BY <2>1, <2>2
  <1> QED BY <1>4

(* Induction from a to b, for a property given as the set of its numbers.  *)
LEMMA FromTo ==
  ASSUME NEW a \in Int, NEW b \in Int, NEW S, a \in S,
         \A k \in a .. b - 1 : k \in S => k + 1 \in S
  PROVE  \A k \in a .. b : k \in S
  <1> DEFINE T == {k \in 0 .. b - a : a + k \notin S}
  <1> SUFFICES ASSUME NEW j \in a .. b, j \notin S PROVE FALSE
    OBVIOUS
  <1>1. T \in SUBSET Nat /\ T # {}
    <2>1. j - a \in 0 .. b - a /\ a + (j - a) = j
      OBVIOUS
    <2>2. j - a \in T
      BY <2>1
    <2>3. \A k \in T : k \in Nat
      OBVIOUS
    <2> HIDE DEF T
    <2> QED BY <2>2, <2>3
  <1>2. PICK k \in T : \A m \in T : k <= m
    <2> HIDE DEF T
    <2> QED BY <1>1, LeastNatural
  <1>3. k \in 0 .. b - a /\ a + k \notin S /\ k # 0
    OBVIOUS
  <1>4. k - 1 \in 0 .. b - a /\ ~(k <= k - 1) /\ a + (k - 1) \in a .. b - 1
    BY <1>3
  <1>5. a + (k - 1) \in S
    BY <1>2, <1>4
  <1>6. (a + (k - 1)) + 1 \in S /\ (a + (k - 1)) + 1 = a + k
    BY <1>3, <1>4, <1>5
  <1> QED BY <1>3, <1>6

(* A function from a to b that makes each value from the one before.       *)
Chain(f, a, b, first, g) == \A k \in a .. b : f[k] = IF k = a THEN first ELSE g[f[k - 1]]

LEMMA ChainExists ==
  ASSUME NEW a \in Int, NEW b \in Int, NEW first \in Int, NEW g \in [Int -> Int]
  PROVE  \E f \in [a .. b -> Int] : Chain(f, a, b, first, g)
  <1> DEFINE Starts(n) == \E f \in [a .. n -> Int] : Chain(f, a, n, first, g)
             S == {n \in a .. b : Starts(n)}
  <1>1. CASE b < a
    <2>1. [k \in a .. b |-> first] \in [a .. b -> Int] /\ a .. b = {}
      BY <1>1
    <2> QED BY <2>1 DEF Chain
  <1>2. CASE a <= b
    <2>1. Starts(a)
      <3> DEFINE f == [k \in a .. a |-> first]
      <3>1. f \in [a .. a -> Int] /\ \A k \in a .. a : k = a /\ f[k] = first
        OBVIOUS
      <3> HIDE DEF f
      <3> QED BY <3>1 DEF Chain
    <2>2. ASSUME NEW n \in a .. b - 1, Starts(n) PROVE Starts(n + 1)
      <3>1. PICK f \in [a .. n -> Int] : Chain(f, a, n, first, g)
        BY <2>2
      <3> DEFINE h == [k \in a .. n + 1 |-> IF k = n + 1 THEN g[f[n]] ELSE f[k]]
      <3>2. n \in a .. n /\ n \in Int /\ a <= n
        OBVIOUS
      <3>3. h \in [a .. n + 1 -> Int]
        BY <3>2
      <3>4. ASSUME NEW k \in a .. n + 1 PROVE h[k] = IF k = a THEN first ELSE g[h[k - 1]]
        <4>1. CASE k = n + 1
          <5>1. k - 1 = n /\ k # a /\ n \in a .. n + 1 /\ n # n + 1
            BY <3>2, <4>1
          <5> QED BY <4>1, <5>1
        <4>2. CASE k # n + 1
          <5>1. k \in a .. n /\ h[k] = f[k]
            BY <4>2
          <5>2. k # a => k - 1 \in a .. n /\ k - 1 \in a .. n + 1 /\ k - 1 # n + 1
            BY <5>1
          <5> QED BY <3>1, <5>1, <5>2 DEF Chain
        <4> QED BY <4>1, <4>2
      <3> HIDE DEF h
      <3> QED BY <3>3, <3>4 DEF Chain
    <2> HIDE DEF Starts
    <2>3. \A n \in a .. b : n \in S
      <3>1. a \in S /\ \A n \in a .. b - 1 : n \in S => n + 1 \in S
        BY <1>2, <2>1, <2>2
      <3> HIDE DEF S
      <3> QED BY <3>1, FromTo
    <2>4. Starts(b)
      BY <1>2, <2>3
    <2> QED BY <2>4 DEF Starts
  <1>3. b < a \/ a <= b
    OBVIOUS
  <1> QED BY <1>1, <1>2, <1>3, Zenon

-----------------------------------------------------------------------------
(* Policies for reconnects.                                                *)

LEMMA MinOfTwo ==
  ASSUME NEW x \in Int, NEW y \in Int
  PROVE  Waits!Min({x, y}) = IF x <= y THEN x ELSE y
  BY DEF Waits!Min

LEMMA PowerExists ==
  ASSUME NEW n \in Nat, NEW x \in Nat
  PROVE  \E f : f = [k \in 0 .. n |-> IF k = 0 THEN 1 ELSE x * f[k - 1]]
  <1> DEFINE g == [y \in Int |-> x * y]
  <1>1. g \in [Int -> Int] /\ 0 \in Int /\ n \in Int /\ 1 \in Int
    OBVIOUS
  <1>2. PICK f \in [0 .. n -> Int] : Chain(f, 0, n, 1, g)
    <2> HIDE DEF g
    <2> QED BY <1>1, ChainExists
  <1>3. \A k \in 0 .. n : f[k] = IF k = 0 THEN 1 ELSE g[f[k - 1]]
    BY <1>2 DEF Chain
  <1>4. ASSUME NEW k \in 0 .. n PROVE f[k] = IF k = 0 THEN 1 ELSE x * f[k - 1]
    <2>1. k # 0 => k - 1 \in 0 .. n
      OBVIOUS
    <2>2. \A y \in Int : g[y] = x * y
      OBVIOUS
    <2> HIDE DEF g
    <2> QED BY <1>3, <2>1, <2>2
  <1>5. f = [k \in 0 .. n |-> IF k = 0 THEN 1 ELSE x * f[k - 1]]
    BY <1>4
  <1> QED BY <1>5

LEMMA PowerValues ==
  ASSUME NEW n \in Nat, NEW x \in Nat, NEW f,
         f = [k \in 0 .. n |-> IF k = 0 THEN 1 ELSE x * f[k - 1]]
  PROVE  /\ f[0] = 1
         /\ \A k \in 1 .. n : f[k] = x * f[k - 1]
         /\ \A k \in 0 .. n : f[k] \in Nat
  <1>1. ASSUME NEW k \in 0 .. n PROVE f[k] = IF k = 0 THEN 1 ELSE x * f[k - 1]
    OBVIOUS
  <1>2. f[0] = 1
    BY <1>1
  <1>3. \A k \in 0 .. n : f[k] \in Nat
    <2> DEFINE S == {k \in 0 .. n : f[k] \in Nat}
    <2>1. 0 \in S
      BY <1>2
    <2>2. ASSUME NEW k \in 0 .. n - 1, k \in S PROVE k + 1 \in S
      <3>1. k + 1 \in 0 .. n /\ k + 1 # 0 /\ (k + 1) - 1 = k
        OBVIOUS
      <3>2. f[k + 1] = x * f[k]
        BY <1>1, <3>1
      <3> QED BY <2>2, <3>1, <3>2
    <2>3. \A k \in 0 .. n : k \in S
      <3>1. 0 \in Int /\ n \in Int
        OBVIOUS
      <3> HIDE DEF S
      <3> QED BY <2>1, <2>2, <3>1, FromTo
    <2> QED BY <2>3
  <1> QED BY <1>1, <1>2, <1>3

LEMMA PowerIs ==
  ASSUME NEW x \in Nat
  PROVE  /\ Waits!Power(x, 0) = 1
         /\ \A k \in 1 .. LastAttempt : Waits!Power(x, k) = x * Waits!Power(x, k - 1)
         /\ \A k \in 0 .. LastAttempt : Waits!Power(x, k) \in Nat
  <1> DEFINE times[k \in 0 .. LastAttempt] == IF k = 0 THEN 1 ELSE x * times[k - 1]
  <1>1. \A n : Waits!Power(x, n) = times[n]
    BY DEF Waits!Power
  <1>2. LastAttempt \in Nat
    BY BackoffsAssumption
  <1>3. times = [k \in 0 .. LastAttempt |-> IF k = 0 THEN 1 ELSE x * times[k - 1]]
    BY <1>2, PowerExists
  <1> HIDE DEF times
  <1>4. /\ times[0] = 1
        /\ \A k \in 1 .. LastAttempt : times[k] = x * times[k - 1]
        /\ \A k \in 0 .. LastAttempt : times[k] \in Nat
    BY <1>2, <1>3, PowerValues
  <1> QED BY <1>1, <1>4

(* What a policy has once its unset fields have their defaults.            *)
LEMMA SettledIs ==
  ASSUME policy \in Waits!Policies
  PROVE  /\ Waits!Settled.base \in Nat /\ Waits!Settled.base > 0
         /\ Waits!Settled.cap \in Nat /\ Waits!Settled.cap > 0
         /\ Waits!Settled.multiplier[1] \in Nat /\ Waits!Settled.multiplier[1] > 0
         /\ Waits!Settled.multiplier[2] \in Nat /\ Waits!Settled.multiplier[2] > 0
         /\ Waits!Settled.limit \in Nat
         /\ Waits!Settled.base <= LongestDuration /\ Waits!Settled.cap <= LongestDuration
         /\ LongestDuration \in Nat
  <1>1. /\ policy.base \in 0 .. LongestDuration /\ policy.cap \in 0 .. LongestDuration
        /\ policy.limit \in Int
        /\ policy.multiplier[1] \in Nat /\ policy.multiplier[2] \in Nat \ {0}
        /\ LongestDuration \in Nat /\ LongestDuration >= 30
    BY BackoffsAssumption DEF Waits!Policies
  <1>2. /\ Waits!Settled.base = IF policy.base = 0 THEN 2 ELSE policy.base
        /\ Waits!Settled.cap = IF policy.cap = 0 THEN 30 ELSE policy.cap
        /\ Waits!Settled.multiplier = IF policy.multiplier[1] = 0 THEN <<2, 1>>
                                                                  ELSE policy.multiplier
        /\ Waits!Settled.limit = IF policy.limit < 0 THEN 5 ELSE policy.limit
    BY DEF Waits!Policies, Waits!Settled, Waits!WithDefaults, Waits!DefaultPolicy
  <1> QED BY <1>1, <1>2

(* What becomes of a number.                                               *)
LEMMA ConvertedIs ==
  ASSUME policy \in Waits!Policies, NEW x \in Nat
  PROVE  /\ Waits!Converted(x) \in Int /\ Waits!Converted(x) <= x
         /\ x <= LongestDuration => Waits!Converted(x) = x
         /\ x > LongestDuration =>
                Waits!Converted(x) = IF policy.saturates THEN LongestDuration
                                                         ELSE -LongestDuration - 1
  BY SettledIs DEF Waits!Converted

LEMMA CappedIs ==
  ASSUME policy \in Waits!Policies, NEW d \in Int
  PROVE  Waits!Capped(d) = IF d <= Waits!Settled.cap THEN d ELSE Waits!Settled.cap
  <1>1. Waits!Settled.cap \in Int
    BY SettledIs
  <1> QED BY <1>1, MinOfTwo DEF Waits!Capped

LEMMA NextDelayIs ==
  ASSUME policy \in Waits!Policies, NEW d \in Nat
  PROVE  LET grown == Waits!Converted((d * Waits!Settled.multiplier[1])
                                          \div Waits!Settled.multiplier[2])
             next == IF grown <= 0 THEN d ELSE grown
             cap == Waits!Settled.cap
         IN  /\ grown \in Int
             /\ Waits!NextDelay(d) = IF next <= cap THEN next ELSE cap
             /\ Waits!NextDelay(d) \in Nat
  <1> DEFINE p == Waits!Settled.multiplier[1]
             q == Waits!Settled.multiplier[2]
             cap == Waits!Settled.cap
             product == (d * p) \div q
             grown == Waits!Converted(product)
             next == IF grown <= 0 THEN d ELSE grown
  <1>1. p \in Nat /\ q \in Nat /\ q > 0 /\ cap \in Nat
    BY SettledIs
  <1>2. Waits!NextDelay(d) = Waits!Capped(next)
    BY DEF Waits!NextDelay
  <1> HIDE DEF p, q, cap
  <1>3. product \in Nat
    <2>1. d * p \in Nat
      BY <1>1
    <2> QED BY <1>1, <2>1
  <1> HIDE DEF product
  <1>4. grown \in Int
    BY <1>3, ConvertedIs
  <1> HIDE DEF grown
  <1>5. next \in Nat
    BY <1>4
  <1> HIDE DEF next
  <1>6. Waits!NextDelay(d) = IF next <= cap THEN next ELSE cap
    BY <1>2, <1>5, CappedIs DEF cap
  <1> QED BY <1>1, <1>4, <1>5, <1>6 DEF next, grown, product, p, q, cap

LEMMA DelayIs ==
  ASSUME policy \in Waits!Policies
  PROVE  /\ Waits!Delay[1] = Waits!Settled.base
         /\ \A n \in 1 .. LastAttempt - 1 : Waits!Delay[n + 1] = Waits!NextDelay(Waits!Delay[n])
  <1> DEFINE g == [d \in Int |-> IF d \in Nat THEN Waits!NextDelay(d) ELSE 0]
             first == Waits!Settled.base
  <1>1. LastAttempt \in Nat /\ LastAttempt > 0 /\ first \in Nat
    BY BackoffsAssumption, SettledIs
  <1>2. g \in [Int -> Int]
    <2>1. ASSUME NEW d \in Nat PROVE Waits!NextDelay(d) \in Nat
      BY NextDelayIs
    <2> QED BY <2>1
  <1>3. PICK f \in [1 .. LastAttempt -> Int] : Chain(f, 1, LastAttempt, first, g)
    <2> HIDE DEF g, first
    <2>1. 1 \in Int /\ LastAttempt \in Int /\ first \in Int
      BY <1>1
    <2> QED BY <1>2, <2>1, ChainExists
  <1>a. \A d \in Nat : g[d] = Waits!NextDelay(d) /\ g[d] \in Nat
    <2>1. \A d \in Nat : Waits!NextDelay(d) \in Nat
      BY NextDelayIs
    <2> QED BY <2>1
  <1> HIDE DEF g
  <1>b. \A n \in 1 .. LastAttempt : f[n] \in Nat
    <2> DEFINE S == {n \in 1 .. LastAttempt : f[n] \in Nat}
    <2>1. 1 \in S /\ 1 \in Int /\ LastAttempt \in Int
      BY <1>1, <1>3 DEF Chain
    <2>2. ASSUME NEW n \in 1 .. LastAttempt - 1, n \in S PROVE n + 1 \in S
      <3>1. n + 1 \in 1 .. LastAttempt /\ n + 1 # 1 /\ (n + 1) - 1 = n /\ f[n] \in Nat
        BY <1>1, <2>2
      <3>2. f[n + 1] = g[f[n]]
        BY <1>3, <3>1 DEF Chain
      <3> QED BY <1>a, <3>1, <3>2
    <2>3. \A n \in 1 .. LastAttempt : n \in S
      <3> HIDE DEF S
      <3> QED BY <2>1, <2>2, FromTo
    <2> QED BY <2>3
  <1>4. ASSUME NEW n \in 1 .. LastAttempt
        PROVE  f[n] = IF n = 1 THEN first ELSE Waits!NextDelay(f[n - 1])
    <2>1. n # 1 => n - 1 \in 1 .. LastAttempt /\ f[n - 1] \in Nat
      BY <1>1, <1>b
    <2> QED BY <1>3, <1>a, <2>1 DEF Chain
  <1>5. f = [n \in 1 .. LastAttempt |-> IF n = 1 THEN first ELSE Waits!NextDelay(f[n - 1])]
    BY <1>4
  <1>6. Waits!Delay = [n \in 1 .. LastAttempt |->
                          IF n = 1 THEN first ELSE Waits!NextDelay(Waits!Delay[n - 1])]
    BY <1>5 DEF Waits!Delay
  <1>7. ASSUME NEW n \in 1 .. LastAttempt
        PROVE  Waits!Delay[n] = IF n = 1 THEN first ELSE Waits!NextDelay(Waits!Delay[n - 1])
    BY <1>6
  <1>8. Waits!Delay[1] = first
    <2>1. 1 \in 1 .. LastAttempt
      BY <1>1
    <2> QED BY <1>7, <2>1, Zenon
  <1>9. ASSUME NEW n \in 1 .. LastAttempt - 1
        PROVE  Waits!Delay[n + 1] = Waits!NextDelay(Waits!Delay[n])
    <2>1. n + 1 \in 1 .. LastAttempt /\ n + 1 # 1 /\ (n + 1) - 1 = n
      BY <1>1
    <2>2. Waits!Delay[n + 1] = Waits!NextDelay(Waits!Delay[(n + 1) - 1])
      BY <1>7, <2>1, Zenon
    <2> QED BY <2>1, <2>2
  <1> QED BY <1>8, <1>9

LEMMA QuotientIs ==
  ASSUME NEW x \in Nat, NEW y \in Nat, y > 0
  PROVE  /\ x \div y \in Nat /\ (x \div y) * y <= x
         /\ \A z \in Nat : z * y <= x => z <= x \div y
         /\ \A z \in Nat : x <= z * y => x \div y <= z
  <1> DEFINE q == x \div y
             r == x % y
  <1>1. q \in Nat /\ r \in Nat /\ r < y /\ x = q * y + r
    OBVIOUS
  <1> HIDE DEF q, r
  <1>2. ASSUME NEW z \in Nat, z * y <= x PROVE z <= q
    <2>1. ASSUME q + 1 <= z PROVE FALSE
      <3>1. (q + 1) * y <= z * y
        BY <1>1, <2>1
      <3>2. (q + 1) * y = q * y + y
        BY <1>1
      <3> QED BY <1>1, <1>2, <3>1, <3>2
    <2> QED BY <1>1, <2>1
  <1>3. ASSUME NEW z \in Nat, x <= z * y PROVE q <= z
    <2>1. ASSUME z + 1 <= q PROVE FALSE
      <3>1. (z + 1) * y <= q * y
        BY <1>1, <2>1
      <3>2. (z + 1) * y = z * y + y
        OBVIOUS
      <3> QED BY <1>1, <1>3, <3>1, <3>2
    <2> QED BY <1>1, <2>1
  <1>4. q * y <= x
    BY <1>1
  <1> QED BY <1>1, <1>2, <1>3, <1>4 DEF q

(* The powers of two numbers are ordered as they are.                      *)
LEMMA PowersCompare ==
  ASSUME NEW x \in Nat, NEW y \in Nat, x > 0, y >= x
  PROVE  \A k \in 0 .. LastAttempt :
             /\ Waits!Power(x, k) \in Nat /\ Waits!Power(x, k) > 0
             /\ Waits!Power(y, k) \in Nat /\ Waits!Power(y, k) >= Waits!Power(x, k)
  <1> DEFINE X(k) == Waits!Power(x, k)
             Y(k) == Waits!Power(y, k)
             S == {k \in 0 .. LastAttempt : X(k) > 0 /\ Y(k) >= X(k)}
  <1>1. /\ X(0) = 1 /\ Y(0) = 1
        /\ \A k \in 1 .. LastAttempt : X(k) = x * X(k - 1) /\ Y(k) = y * Y(k - 1)
        /\ \A k \in 0 .. LastAttempt : X(k) \in Nat /\ Y(k) \in Nat
    BY PowerIs
  <1>2. LastAttempt \in Nat
    BY BackoffsAssumption
  <1> HIDE DEF X, Y
  <1>3. 0 \in S
    BY <1>1, <1>2
  <1>4. ASSUME NEW k \in 0 .. LastAttempt - 1, k \in S PROVE k + 1 \in S
    <2>1. /\ k \in 0 .. LastAttempt /\ k + 1 \in 0 .. LastAttempt
          /\ k + 1 \in 1 .. LastAttempt /\ (k + 1) - 1 = k
      BY <1>2
    <2>2. X(k + 1) = x * X(k) /\ Y(k + 1) = y * Y(k)
      BY <1>1, <2>1
    <2>3. X(k) \in Nat /\ Y(k) \in Nat /\ X(k) > 0 /\ Y(k) >= X(k)
      BY <1>1, <1>4, <2>1
    <2>4. x * X(k) > 0 /\ y * X(k) >= x * X(k) /\ y * Y(k) >= y * X(k)
      BY <2>3
    <2>5. x * X(k) \in Nat /\ y * X(k) \in Nat /\ y * Y(k) \in Nat
      BY <2>3
    <2>6. y * Y(k) >= x * X(k)
      BY <2>4, <2>5
    <2> QED BY <2>1, <2>2, <2>4, <2>6
  <1>5. \A k \in 0 .. LastAttempt : k \in S
    <2>1. 0 \in Int /\ LastAttempt \in Int
      BY <1>2
    <2> HIDE DEF S
    <2> QED BY <1>3, <1>4, <2>1, FromTo
  <1> QED BY <1>1, <1>5 DEF X, Y

(* How the delays of the client compare with the base delay and with what  *)
(* the policy computes for attempt n.                                      *)
DelayHolds(n) ==
    LET first == Waits!Settled.base
        cap == Waits!Settled.cap
        p == Waits!Settled.multiplier[1]
        q == Waits!Settled.multiplier[2]
        d == Waits!Delay[n]
        grown == first * Waits!Power(p, n - 1)
    IN  /\ d \in Nat /\ 0 < d
        /\ d <= IF n = 1 THEN first ELSE cap
        /\ p >= q => d * Waits!Power(q, n - 1) <= grown
        /\ q = 1 /\ grown <= LongestDuration =>
               d = IF n = 1 \/ grown <= cap THEN grown ELSE cap
        /\ p <= q => d <= first

LEMMA DelayStep ==
  ASSUME policy \in Waits!Policies, NEW n \in 1 .. LastAttempt - 1, DelayHolds(n)
  PROVE  DelayHolds(n + 1)
  <1> DEFINE b == Waits!Settled.base
             c == Waits!Settled.cap
             p == Waits!Settled.multiplier[1]
             q == Waits!Settled.multiplier[2]
             d == Waits!Delay[n]
             e == Waits!Delay[n + 1]
             P == Waits!Power(p, n - 1)
             Q == Waits!Power(q, n - 1)
             g == (d * p) \div q
             v == Waits!Converted(g)
             next == IF v <= 0 THEN d ELSE v
  <1>0. n \in Nat /\ n > 0 /\ LastAttempt \in Nat /\ n \in 1 .. LastAttempt /\ (n + 1) - 1 = n
        /\ n - 1 \in 0 .. LastAttempt /\ n + 1 # 1
    BY BackoffsAssumption
  <1>1. /\ b \in Nat /\ b > 0 /\ c \in Nat /\ c > 0
        /\ p \in Nat /\ p > 0 /\ q \in Nat /\ q > 0
        /\ LongestDuration \in Nat
    BY SettledIs
  <1>2. P \in Nat /\ Q \in Nat /\ Waits!Power(p, n) = p * P /\ Waits!Power(q, n) = q * Q
    <2> HIDE DEF p, q
    <2> QED BY <1>0, <1>1, PowerIs
  <1>3. /\ d \in Nat /\ 0 < d
        /\ p >= q => d * Q <= b * P
        /\ q = 1 /\ b * P <= LongestDuration =>
               d = IF n = 1 \/ b * P <= c THEN b * P ELSE c
        /\ p <= q => d <= b
    BY DEF DelayHolds
  <1>4. e = IF next <= c THEN next ELSE c
    <2>1. e = Waits!NextDelay(d)
      BY DelayIs
    <2> HIDE DEF d, e
    <2>3. Waits!NextDelay(d) = IF next <= c THEN next ELSE c
      BY <1>3, NextDelayIs
    <2> QED BY <2>1, <2>3
  <1>5. SUFFICES /\ e \in Nat /\ 0 < e /\ e <= c
                 /\ p >= q => e * (q * Q) <= b * (p * P)
                 /\ q = 1 /\ b * (p * P) <= LongestDuration =>
                        e = IF b * (p * P) <= c THEN b * (p * P) ELSE c
                 /\ p <= q => e <= b
    BY <1>0, <1>2 DEF DelayHolds
  <1> HIDE DEF b, c, p, q, d, e, P, Q
  <1>6. d * p \in Nat
    BY <1>1, <1>3
  <1>7. /\ g \in Nat /\ g * q <= d * p
        /\ \A z \in Nat : z * q <= d * p => z <= g
        /\ \A z \in Nat : d * p <= z * q => g <= z
    BY <1>1, <1>6, QuotientIs
  <1>v. v \in Int /\ v <= g /\ (g <= LongestDuration => v = g)
    BY <1>7, ConvertedIs
  <1> HIDE DEF g, v
  <1>8. e \in Nat /\ 0 < e /\ e <= c /\ e <= next /\ next \in Nat /\ (next = d \/ next <= g)
    BY <1>1, <1>3, <1>4, <1>7, <1>v
  <1>9. ASSUME p >= q PROVE e * (q * Q) <= b * (p * P)
    <2>1. d * q <= d * p
      BY <1>1, <1>3, <1>9
    <2>2. d <= g
      BY <1>3, <1>7, <2>1
    <2>3. e <= g
      BY <1>3, <1>7, <1>8, <2>2
    <2>4. e * q <= g * q
      BY <1>1, <1>7, <1>8, <2>3
    <2>5. e * q <= d * p
      <3>1. e * q \in Nat /\ g * q \in Nat
        BY <1>1, <1>7, <1>8
      <3> QED BY <1>6, <1>7, <2>4, <3>1
    <2>6. (e * q) * Q <= (d * p) * Q
      <3>1. e * q \in Nat
        BY <1>1, <1>8
      <3> QED BY <1>2, <1>6, <2>5, <3>1
    <2>7. p * (d * Q) <= p * (b * P)
      <3>1. d * Q \in Nat /\ b * P \in Nat /\ d * Q <= b * P
        BY <1>1, <1>2, <1>3, <1>9
      <3> QED BY <1>1, <3>1
    <2>8. /\ (e * q) * Q = e * (q * Q) /\ (d * p) * Q = p * (d * Q)
          /\ p * (b * P) = b * (p * P)
      BY <1>1, <1>2, <1>3, <1>8
    <2>9. e * (q * Q) \in Nat /\ p * (d * Q) \in Nat /\ b * (p * P) \in Nat
      BY <1>1, <1>2, <1>3, <1>8
    <2> QED BY <2>6, <2>7, <2>8, <2>9
  <1>10. ASSUME q = 1, b * (p * P) <= LongestDuration
         PROVE  e = IF b * (p * P) <= c THEN b * (p * P) ELSE c
    <2>1. g = d * p /\ g > 0
      <3>1. (d * p) * q <= d * p /\ d * p <= (d * p) * q
        BY <1>6, <1>10
      <3>2. d * p <= g /\ g <= d * p
        BY <1>6, <1>7, <3>1
      <3>3. d * p > 0
        BY <1>1, <1>3
      <3> QED BY <1>6, <1>7, <3>2, <3>3
    <2>2. b * P \in Nat /\ b * (p * P) = p * (b * P) /\ p * (b * P) \in Nat
      BY <1>1, <1>2
    <2>3. p * (b * P) >= b * P
      BY <1>1, <2>2
    <2>4. d = IF n = 1 \/ b * P <= c THEN b * P ELSE c
      BY <1>1, <1>3, <1>10, <2>2, <2>3
    <2>5. CASE d = b * P
      <3>1. d * p = b * (p * P) /\ d * p <= LongestDuration
        BY <1>1, <1>10, <2>2, <2>5
      <3>2. v = d * p
        BY <1>v, <2>1, <3>1
      <3> QED BY <1>4, <2>1, <3>1, <3>2
    <2>6. CASE d = c /\ ~(b * P <= c)
      <3>1. c * p >= c /\ c * p \in Nat
        BY <1>1
      <3>2. c <= b * P /\ c * p <= (b * P) * p
        BY <1>1, <2>2, <2>6
      <3>3. v = d * p
        BY <1>1, <1>10, <1>v, <2>1, <2>2, <2>6, <3>1, <3>2
      <3>4. e = c
        BY <1>1, <1>4, <2>1, <2>6, <3>1, <3>3
      <3> QED BY <1>1, <2>2, <2>3, <2>6, <3>4
    <2> QED BY <2>4, <2>5, <2>6
  <1>11. ASSUME p <= q PROVE e <= b
    <2>1. d * p <= d * q
      BY <1>1, <1>3, <1>11
    <2>2. g <= d
      BY <1>3, <1>7, <2>1
    <2> QED BY <1>1, <1>3, <1>7, <1>8, <1>11, <2>2
  <1> QED BY <1>8, <1>9, <1>10, <1>11

LEMMA DelaysHold ==
  ASSUME policy \in Waits!Policies
  PROVE  \A n \in 1 .. LastAttempt : DelayHolds(n)
  <1> DEFINE S == {n \in 1 .. LastAttempt : DelayHolds(n)}
  <1>1. LastAttempt \in Nat /\ LastAttempt > 0
    BY BackoffsAssumption
  <1>2. DelayHolds(1)
    <2> DEFINE b == Waits!Settled.base
               c == Waits!Settled.cap
               p == Waits!Settled.multiplier[1]
               q == Waits!Settled.multiplier[2]
    <2>1. b \in Nat /\ b > 0 /\ c \in Nat /\ p \in Nat /\ q \in Nat
      BY SettledIs
    <2>2. Waits!Delay[1] = b
      BY DelayIs
    <2>3. Waits!Power(p, 1 - 1) = 1 /\ Waits!Power(q, 1 - 1) = 1
      <3> HIDE DEF p, q
      <3>1. 1 - 1 = 0
        OBVIOUS
      <3> QED BY <2>1, <3>1, PowerIs
    <2> HIDE DEF b, c, p, q
    <2> QED BY <2>1, <2>2, <2>3 DEF DelayHolds, b, c, p, q
  <1>3. \A n \in 1 .. LastAttempt : n \in S
    <2>1. 1 \in S /\ 1 \in Int /\ LastAttempt \in Int
      BY <1>1, <1>2
    <2>2. ASSUME NEW n \in 1 .. LastAttempt - 1, n \in S PROVE n + 1 \in S
      <3>1. DelayHolds(n) /\ n + 1 \in 1 .. LastAttempt
        BY <1>1, <2>2
      <3>2. DelayHolds(n + 1)
        BY <3>1, DelayStep
      <3> QED BY <3>1, <3>2
    <2> HIDE DEF S
    <2> QED BY <2>1, <2>2, FromTo
  <1> QED BY <1>3

LEMMA OnePower ==
  \A k \in 0 .. LastAttempt : Waits!Power(1, k) = 1
  <1> DEFINE S == {k \in 0 .. LastAttempt : Waits!Power(1, k) = 1}
  <1>1. LastAttempt \in Nat
    BY BackoffsAssumption
  <1>2. /\ Waits!Power(1, 0) = 1
        /\ \A k \in 1 .. LastAttempt : Waits!Power(1, k) = 1 * Waits!Power(1, k - 1)
    BY PowerIs
  <1>3. 0 \in S /\ 0 \in Int /\ LastAttempt \in Int
    BY <1>1, <1>2
  <1>4. ASSUME NEW k \in 0 .. LastAttempt - 1, k \in S PROVE k + 1 \in S
    <2>1. k + 1 \in 1 .. LastAttempt /\ k + 1 \in 0 .. LastAttempt /\ (k + 1) - 1 = k
      BY <1>1
    <2>2. Waits!Power(1, k + 1) = 1 * Waits!Power(1, k)
      BY <1>2, <2>1
    <2> QED BY <1>4, <2>1, <2>2
  <1>5. \A k \in 0 .. LastAttempt : k \in S
    <2> HIDE DEF S
    <2> QED BY <1>3, <1>4, FromTo
  <1> QED BY <1>5

LEMMA PolicyHolds ==
  ASSUME policy \in Waits!Policies
  PROVE  Waits!PolicyIsFollowed
  <1> DEFINE b == Waits!Settled.base
             c == Waits!Settled.cap
             p == Waits!Settled.multiplier[1]
             q == Waits!Settled.multiplier[2]
             l == Waits!Settled.limit
  <1> SUFFICES ASSUME NEW n \in 1 .. LastAttempt
               PROVE  LET w == Waits!Delay[n]
                          d == Waits!NextReconnectDelay(n)
                      IN  /\ Waits!Attempts(n) <=>
                                 Waits!Settled.enabled /\ (l = 0 \/ Waits!Continues(n))
                          /\ l = 0 => ~Waits!Continues(n)
                          /\ 0 < w /\ w <= IF n = 1 THEN b ELSE c
                          /\ 0 < d /\ (d <= c \/ d = b)
                          /\ Waits!Overflows(n) => d = IF policy.saturates THEN c ELSE b
                          /\ ~Waits!Overflows(n) /\ (n > 1 \/ b <= c) =>
                                 /\ p >= q => w <= d
                                 /\ q = 1 => w = d
                                 /\ p <= q => d <= b /\ w <= b
    BY DEF Waits!PolicyIsFollowed
  <1> DEFINE w == Waits!Delay[n]
             d == Waits!NextReconnectDelay(n)
             P == Waits!Power(p, n - 1)
             Q == Waits!Power(q, n - 1)
             g == Waits!Grown(n)
             e == Waits!Converted(g)
  <1>1. /\ b \in Nat /\ b > 0 /\ c \in Nat /\ c > 0
        /\ p \in Nat /\ p > 0 /\ q \in Nat /\ q > 0 /\ l \in Nat
        /\ n \in Nat /\ n > 0 /\ n - 1 \in 0 .. LastAttempt
        /\ LongestDuration \in Nat /\ c <= LongestDuration
    BY SettledIs, BackoffsAssumption
  <1>2. /\ Waits!Attempts(n) <=> Waits!Settled.enabled /\ (l = 0 \/ Waits!Continues(n))
        /\ l = 0 => ~Waits!Continues(n)
    BY <1>1 DEF Waits!Continues, Waits!Attempts
  <1>3. /\ w \in Nat /\ 0 < w
        /\ w <= IF n = 1 THEN b ELSE c
        /\ p >= q => w * Q <= b * P
        /\ q = 1 /\ b * P <= LongestDuration => w = IF n = 1 \/ b * P <= c THEN b * P ELSE c
        /\ p <= q => w <= b
    <2>1. DelayHolds(n)
      BY DelaysHold
    <2> QED BY <2>1 DEF DelayHolds
  <1>4. /\ P \in Nat /\ Q \in Nat /\ P > 0 /\ Q > 0
        /\ p >= q => P >= Q
        /\ p <= q => P <= Q
        /\ q = 1 => Q = 1
    <2> HIDE DEF p, q
    <2>1. P \in Nat /\ P > 0 /\ Q \in Nat /\ Q > 0
      BY <1>1, PowersCompare
    <2>2. /\ p >= q => P >= Q
          /\ p <= q => P <= Q
      BY <1>1, PowersCompare
    <2>3. q = 1 => Q = 1
      <3>1. Waits!Power(1, n - 1) = 1
        BY <1>1, OnePower
      <3> QED BY <3>1
    <2> QED BY <2>1, <2>2, <2>3
  <1>5. b * P \in Nat /\ b * P > 0 /\ (n = 1 => P = 1)
    <2>1. n = 1 => P = 1
      <3> HIDE DEF p
      <3>1. Waits!Power(p, 0) = 1 /\ 1 - 1 = 0
        BY <1>1, PowerIs
      <3> QED BY <3>1
    <2> QED BY <1>1, <1>4, <2>1
  <1>6. /\ g \in Nat
        /\ \A z \in Nat : z * Q <= b * P => z <= g
        /\ \A z \in Nat : b * P <= z * Q => g <= z
    <2>1. g = (b * P) \div Q
      BY DEF Waits!Grown
    <2> HIDE DEF b, P, Q, g
    <2> QED BY <1>4, <1>5, <2>1, QuotientIs
  <1>7. /\ e \in Int /\ (g <= LongestDuration => e = g)
        /\ g > LongestDuration =>
               e = IF policy.saturates THEN LongestDuration ELSE -LongestDuration - 1
    <2> HIDE DEF g
    <2> QED BY <1>6, ConvertedIs
  <1>8. d = IF Waits!Capped(e) <= 0 THEN b ELSE Waits!Capped(e)
    BY DEF Waits!NextReconnectDelay
  <1>9. Waits!Capped(e) = IF e <= c THEN e ELSE c
    <2> HIDE DEF e
    <2> QED BY <1>7, CappedIs
  <1>o. Waits!Overflows(n) <=> g > LongestDuration
    BY DEF Waits!Overflows
  <1> HIDE DEF b, c, p, q, l, w, d, P, Q, g, e
  <1>10. d \in Nat /\ 0 < d /\ (d <= c \/ d = b)
    BY <1>1, <1>7, <1>8, <1>9
  <1>11. Waits!Overflows(n) => d = IF policy.saturates THEN c ELSE b
    BY <1>1, <1>6, <1>7, <1>8, <1>9, <1>o
  <1> SUFFICES ASSUME ~Waits!Overflows(n), n > 1 \/ b <= c
               PROVE  /\ p >= q => w <= d
                      /\ q = 1 => w = d
                      /\ p <= q => d <= b /\ w <= b
    BY <1>2, <1>3, <1>10, <1>11 DEF w, d
  <1>12. /\ g <= c => d = IF g = 0 THEN b ELSE g
         /\ ~(g <= c) => d = c
         /\ w <= c /\ g <= LongestDuration
    BY <1>1, <1>3, <1>6, <1>7, <1>8, <1>9, <1>o
  <1>13. ASSUME p >= q PROVE w <= d
    <2>1. b * Q <= b * P
      BY <1>1, <1>4, <1>13
    <2>2. w <= g /\ b <= g
      BY <1>1, <1>3, <1>6, <1>13, <2>1
    <2> QED BY <1>1, <1>3, <1>6, <1>12, <2>2
  <1>14. ASSUME q = 1 PROVE w = d
    <2>1. (b * P) * Q = b * P
      BY <1>4, <1>5, <1>14
    <2>2. g = b * P
      BY <1>5, <1>6, <2>1
    <2>3. w = IF n = 1 \/ g <= c THEN g ELSE c
      BY <1>3, <1>12, <1>14, <2>2
    <2>4. n = 1 => g = b
      BY <1>1, <1>5, <2>2
    <2> QED BY <1>1, <1>5, <1>6, <1>12, <2>2, <2>3, <2>4
  <1>15. ASSUME p <= q PROVE d <= b /\ w <= b
    <2>1. b * P <= b * Q
      BY <1>1, <1>4, <1>15
    <2>2. g <= b
      BY <1>1, <1>6, <2>1
    <2> QED BY <1>1, <1>3, <1>6, <1>12, <1>15, <2>2
  <1> QED BY <1>13, <1>14, <1>15

(* A client does what the policy it is made from tells the strategy, with  *)
(* the differences the property names, for any policy: limits of 0, caps   *)
(* below the base delay and numbers that overflow included.                *)
THEOREM PoliciesAreFollowed == PartsSpec => []PolicyIsFollowed
  <1> DEFINE Inv == part = "policies" => policy \in Waits!Policies
  <1>1. PartsInit => Inv
    BY DEF PartsInit
  <1>2. Inv /\ [PartsNext]_partsVars => Inv'
    BY DEF PartsNext, ListsNext, BeatsNext, PlacingNext, UserNext, SendingNext, RequestsNext,
           partsVars, Waits!Policies
  <1>3. Inv => PolicyIsFollowed
    BY PolicyHolds DEF PolicyIsFollowed
  <1> QED BY <1>1, <1>2, <1>3, PTL DEF PartsSpec

-----------------------------------------------------------------------------
(* Idempotency keys.                                                       *)

LEMMA LeastIs ==
  ASSUME NEW S \in SUBSET Int, NEW k \in S, \A n \in S : k <= n
  PROVE  Min(S) = k
  <1>1. \A j \in S : (\A n \in S : j <= n) => j = k
    OBVIOUS
  <1> QED BY <1>1, Zenon DEF Min

LEMMA GreatestIs ==
  ASSUME NEW S \in SUBSET Int, NEW k \in S, \A n \in S : k >= n
  PROVE  Max(S) = k
  <1>1. \A j \in S : (\A n \in S : j >= n) => j = k
    OBVIOUS
  <1> QED BY <1>1, Zenon DEF Max

(* A set of numbers up to n has a greatest one.                            *)
LEMMA GreatestExists ==
  ASSUME NEW n \in Nat, NEW S \in SUBSET (0 .. n), S # {}
  PROVE  \E k \in S : \A i \in S : k >= i
  <1> DEFINE T == {n - i : i \in S}
  <1>1. T \in SUBSET Nat /\ T # {}
    <2>1. \A i \in S : i \in 0 .. n
      OBVIOUS
    <2>2. \A i \in 0 .. n : n - i \in Nat
      OBVIOUS
    <2> QED BY <2>1, <2>2
  <1>2. PICK d \in T : \A e \in T : d <= e
    BY <1>1, LeastNatural
  <1>3. PICK k \in S : d = n - k
    OBVIOUS
  <1>4. ASSUME NEW i \in S PROVE k >= i
    <2>1. n - k <= n - i
      BY <1>2, <1>3
    <2>2. k \in 0 .. n /\ i \in 0 .. n
      OBVIOUS
    <2> QED BY <2>1, <2>2
  <1> QED BY <1>4

Words == Seq(Tokens)

IsBlank(x) == x = " "

\* Where s is not blank.
Kept(s) == {i \in DOMAIN s : s[i] # " "}

LEMMA KeptIs ==
  ASSUME NEW s, NEW i
  PROVE  i \in Kept(s) <=> i \in DOMAIN s /\ ~IsBlank(s[i])
  BY Zenon DEF Kept, IsBlank

LEMMA TrimsToKept ==
  ASSUME NEW s
  PROVE  Trim(s) = IF Kept(s) = {} THEN <<>> ELSE SubSeq(s, Min(Kept(s)), Max(Kept(s)))
  BY Zenon DEF Trim, Kept

\* No blank at either end.
Bare(s) == s # <<>> => ~IsBlank(s[1]) /\ ~IsBlank(s[Len(s)])

LEMMA TrimIs ==
  ASSUME NEW s \in Words
  PROVE  Trim(s) \in Words /\ Bare(Trim(s))
  <1> DEFINE kept == Kept(s)
  <1>0. s \in Seq(Tokens) /\ Len(s) \in Nat /\ DOMAIN s = 1 .. Len(s)
    BY LenProperties DEF Words
  <1>1. CASE kept = {}
    <2>1. Trim(s) = <<>>
      BY <1>1, TrimsToKept
    <2> QED BY <2>1, EmptySeq DEF Bare, Words
  <1>2. CASE kept # {}
    <2>1. kept \in SUBSET (0 .. Len(s)) /\ kept \in SUBSET Nat /\ kept \in SUBSET Int
      BY <1>0, KeptIs
    <2>2. PICK low \in kept : \A i \in kept : low <= i
      BY <1>2, <2>1, LeastNatural
    <2>3. PICK high \in kept : \A i \in kept : high >= i
      BY <1>0, <1>2, <2>1, GreatestExists
    <2>4. Trim(s) = SubSeq(s, low, high)
      <3>1. Min(kept) = low
        BY <2>1, <2>2, LeastIs
      <3>2. Max(kept) = high
        BY <2>1, <2>3, GreatestIs
      <3> QED BY <1>2, <3>1, <3>2, TrimsToKept
    <2>5. /\ low \in 1 .. Len(s) /\ high \in 1 .. Len(s) /\ low <= high
          /\ ~IsBlank(s[low]) /\ ~IsBlank(s[high])
      BY <1>0, <2>1, <2>2, <2>3, KeptIs
    <2> HIDE DEF kept
    <2>6. \A i \in low .. high : s[i] \in Tokens
      BY <1>0, <2>5, ElementOfSeq
    <2>7. /\ SubSeq(s, low, high) \in Seq(Tokens)
          /\ Len(SubSeq(s, low, high)) = high - low + 1
          /\ \A i \in 1 .. high - low + 1 : SubSeq(s, low, high)[i] = s[low + i - 1]
      BY <1>0, <2>5, <2>6, SubSeqProperties
    <2>8. /\ SubSeq(s, low, high)[1] = s[low]
          /\ SubSeq(s, low, high)[high - low + 1] = s[high]
      <3>1. 1 \in 1 .. high - low + 1 /\ low + 1 - 1 = low
        BY <1>0, <2>5
      <3>2. high - low + 1 \in 1 .. high - low + 1 /\ low + (high - low + 1) - 1 = high
        BY <1>0, <2>5
      <3> QED BY <2>7, <3>1, <3>2
    <2> QED BY <2>4, <2>5, <2>7, <2>8 DEF Bare, Words
  <1> QED BY <1>1, <1>2

LEMMA TrimKeeps ==
  ASSUME NEW s \in Words, Bare(s)
  PROVE  Trim(s) = s
  <1> DEFINE kept == Kept(s)
  <1>1. CASE s = <<>>
    <2>1. kept = {}
      BY <1>1, KeptIs
    <2> QED BY <1>1, <2>1, TrimsToKept
  <1>2. CASE s # <<>>
    <2>1. Len(s) \in Nat \ {0} /\ DOMAIN s = 1 .. Len(s)
      BY <1>2, EmptySeq, LenProperties DEF Words
    <2>2. 1 \in kept /\ Len(s) \in kept /\ kept \in SUBSET Int
      BY <1>2, <2>1, KeptIs DEF Bare
    <2>3. \A i \in kept : 1 <= i /\ Len(s) >= i
      BY <2>1, KeptIs
    <2>4. Min(kept) = 1
      BY <2>2, <2>3, LeastIs
    <2>5. Max(kept) = Len(s)
      BY <2>2, <2>3, GreatestIs
    <2>6. Trim(s) = SubSeq(s, 1, Len(s))
      BY <2>2, <2>4, <2>5, TrimsToKept
    <2> QED BY <2>6, SubSeqFull DEF Words
  <1> QED BY <1>1, <1>2

LEMMA LowerIs ==
  ASSUME NEW s \in Words, Bare(s)
  PROVE  Lower(s) \in Words /\ Bare(Lower(s))
  <1>1. Len(s) \in Nat /\ DOMAIN s = 1 .. Len(s) /\ \A i \in 1 .. Len(s) : s[i] \in Tokens
    BY LenProperties, ElementOfSeq DEF Words
  <1>2. Lower(s) = [i \in 1 .. Len(s) |-> IF s[i] = "A" THEN "a" ELSE s[i]]
    BY <1>1 DEF Lower
  <1>3. \A i \in 1 .. Len(s) : (IF s[i] = "A" THEN "a" ELSE s[i]) \in Tokens
    <2>1. "a" \in Tokens
      BY Zenon DEF Tokens
    <2> QED BY <1>1, <2>1
  <1>4. Lower(s) \in [1 .. Len(s) -> Tokens]
    BY <1>2, <1>3
  <1>5. Lower(s) \in Seq(Tokens) /\ Len(Lower(s)) = Len(s)
    BY <1>1, <1>2, <1>4, SeqDef, LenProperties
  <1>6. Bare(Lower(s))
    <2>1. SUFFICES ASSUME Lower(s) # <<>>
                   PROVE  ~IsBlank(Lower(s)[1]) /\ ~IsBlank(Lower(s)[Len(s)])
      BY <1>5 DEF Bare
    <2>2. Len(s) # 0
      BY <1>5, <2>1, EmptySeq
    <2>3. ~IsBlank(s[1]) /\ ~IsBlank(s[Len(s)])
      BY <1>1, <2>2, EmptySeq DEF Bare
    <2>4. ~IsBlank("a")
      BY Zenon DEF IsBlank
    <2> QED BY <1>1, <1>2, <2>2, <2>3, <2>4
  <1> QED BY <1>5, <1>6 DEF Words

LEMMA NormalizedIs ==
  ASSUME input \in [Fields -> Words], NEW f \in Fields
  PROVE  Normalized[f] \in Words /\ Bare(Normalized[f])
  <1>1. input[f] \in Words
    OBVIOUS
  <1>2. Trim(input[f]) \in Words /\ Bare(Trim(input[f]))
    BY <1>1, TrimIs
  <1>3. Lower(Trim(input[f])) \in Words /\ Bare(Lower(Trim(input[f])))
    BY <1>2, LowerIs
  <1> QED BY <1>2, <1>3 DEF Normalized

Alphabet == Tokens \cup Fields

(* The slice of s behind k that reads t is t.                              *)
LEMMA SliceIs ==
  ASSUME NEW s \in Seq(Alphabet), NEW t \in Seq(Alphabet), NEW k \in Nat,
         k + Len(t) <= Len(s),
         \A i \in 1 .. Len(t) : s[k + i] = t[i]
  PROVE  SubSeq(s, k + 1, k + Len(t)) = t
  <1> DEFINE low == k + 1
             high == k + Len(t)
  <1>1. Len(t) \in Nat /\ Len(s) \in Nat
    OBVIOUS
  <1>2. /\ low \in 1 .. Len(s) + 1 /\ high \in 0 .. Len(s) /\ high - low + 1 = Len(t)
        /\ (low <= high \/ Len(t) = 0)
        /\ \A i \in 1 .. Len(t) : low + i - 1 = k + i
    BY <1>1
  <1> HIDE DEF low, high
  <1>3. \A i \in low .. high : s[i] \in Alphabet
    BY <1>1, <1>2, ElementOfSeq
  <1>4. /\ SubSeq(s, low, high) \in Seq(Alphabet)
        /\ Len(SubSeq(s, low, high)) = IF low <= high THEN high - low + 1 ELSE 0
        /\ \A i \in 1 .. high - low + 1 : SubSeq(s, low, high)[i] = s[low + i - 1]
    BY <1>1, <1>2, <1>3, SubSeqProperties
  <1>5. Len(SubSeq(s, low, high)) = Len(t)
    BY <1>2, <1>4
  <1>6. \A i \in 1 .. Len(t) : SubSeq(s, low, high)[i] = t[i]
    BY <1>2, <1>4
  <1>7. SubSeq(s, low, high) = t
    BY <1>4, <1>5, <1>6, SeqEqual
  <1> QED BY <1>7 DEF low, high

Part(f, s) == <<f, "=">> \o s

LEMMA PartIs ==
  ASSUME NEW f \in Fields, NEW s \in Words
  PROVE  /\ Part(f, s) \in Seq(Alphabet) /\ Len(Part(f, s)) = Len(s) + 2
         /\ Part(f, s)[1] = f /\ Part(f, s)[2] = "="
         /\ \A i \in 1 .. Len(s) : Part(f, s)[i + 2] = s[i]
  <1>1. s \in Seq(Alphabet) /\ Len(s) \in Nat
    BY DEF Words, Alphabet
  <1>2. <<f, "=">> \in Seq(Alphabet) /\ Len(<<f, "=">>) = 2
    <2>1. "=" \in Tokens
      BY Zenon DEF Tokens
    <2> QED BY <2>1 DEF Alphabet
  <1>3. /\ Part(f, s) \in Seq(Alphabet)
        /\ Len(Part(f, s)) = 2 + Len(s)
        /\ \A i \in 1 .. 2 + Len(s) : Part(f, s)[i] = IF i <= 2 THEN <<f, "=">>[i] ELSE s[i - 2]
    BY <1>1, <1>2, ConcatProperties DEF Part
  <1>4. Part(f, s)[1] = f /\ Part(f, s)[2] = "="
    BY <1>1, <1>3
  <1>5. ASSUME NEW i \in 1 .. Len(s) PROVE Part(f, s)[i + 2] = s[i]
    <2>1. i + 2 \in 1 .. 2 + Len(s) /\ ~(i + 2 <= 2) /\ i + 2 - 2 = i
      BY <1>1
    <2> QED BY <1>3, <2>1
  <1> QED BY <1>1, <1>3, <1>4, <1>5

LEMMA ValueIs ==
  ASSUME NEW f \in Fields, NEW s \in Words
  PROVE  Value(Part(f, s)) = s
  <1> DEFINE p == Part(f, s)
             eqs == {i \in DOMAIN p : p[i] = "="}
  <1>1. /\ p \in Seq(Alphabet) /\ Len(p) = Len(s) + 2 /\ Len(s) \in Nat
        /\ p[1] = f /\ p[2] = "="
        /\ \A i \in 1 .. Len(s) : p[i + 2] = s[i]
        /\ DOMAIN p = 1 .. Len(p)
    BY PartIs, LenProperties DEF Words
  <1>2. f # "="
    BY DEF Fields
  <1>3. 2 \in eqs /\ eqs \in SUBSET Int /\ \A i \in eqs : 2 <= i
    BY <1>1, <1>2
  <1>4. Min(eqs) = 2
    BY <1>3, LeastIs
  <1>5. Value(p) = SubSeq(p, 2 + 1, Len(p))
    BY <1>4, Zenon DEF Value
  <1> HIDE DEF p
  <1>6. s \in Seq(Alphabet)
    BY DEF Words, Alphabet
  <1>7. 2 + Len(s) = Len(p) /\ \A i \in 1 .. Len(s) : p[2 + i] = s[i]
    <2>1. \A i \in 1 .. Len(s) : 2 + i = i + 2
      BY <1>1
    <2> QED BY <1>1, <2>1
  <1>8. SubSeq(p, 2 + 1, Len(p)) = s
    <2>1. 2 \in Nat /\ 2 + Len(s) <= Len(p)
      BY <1>1, <1>7
    <2> QED BY <1>1, <1>6, <1>7, <2>1, SliceIs
  <1> QED BY <1>5, <1>8 DEF p

Stop == ";"

Joined(p, q, r) == p \o <<Stop>> \o q \o <<Stop>> \o r

Stops(s) == {i \in DOMAIN s : s[i] = Stop}

FirstStop(p) == Len(p) + 1
SecondStop(p, q) == FirstStop(p) + Len(q) + 1
Size(p, q, r) == SecondStop(p, q) + Len(r)

\* s has the three parts, in this order.
HasParts(s, p, q, r) ==
    /\ s \in Seq(Alphabet)
    /\ Len(s) = Size(p, q, r)
    /\ \A i \in 1 .. Len(p) : s[i] = p[i]
    /\ s[FirstStop(p)] = Stop
    /\ \A i \in 1 .. Len(q) : s[FirstStop(p) + i] = q[i]
    /\ s[SecondStop(p, q)] = Stop
    /\ \A i \in 1 .. Len(r) : s[SecondStop(p, q) + i] = r[i]

LEMMA JoinedIs ==
  ASSUME NEW p \in Seq(Alphabet), NEW q \in Seq(Alphabet), NEW r \in Seq(Alphabet)
  PROVE  HasParts(Joined(p, q, r), p, q, r)
  <1> DEFINE first == FirstStop(p)
             second == SecondStop(p, q)
             size == Size(p, q, r)
  <1>0. first = Len(p) + 1 /\ second = first + Len(q) + 1 /\ size = second + Len(r)
    BY DEF FirstStop, SecondStop, Size
  <1> HIDE DEF first, second, size
  <1>1. <<Stop>> \in Seq(Alphabet) /\ Len(<<Stop>>) = 1 /\ <<Stop>>[1] = Stop
    <2>1. Stop \in Alphabet
      BY Zenon DEF Stop, Alphabet, Tokens
    <2> QED BY <2>1
  <1>2. Len(p) \in Nat /\ Len(q) \in Nat /\ Len(r) \in Nat
    OBVIOUS
  <1> DEFINE a == p \o <<Stop>>
             b == a \o q
             c == b \o <<Stop>>
             d == c \o r
  <1>3. /\ a \in Seq(Alphabet) /\ Len(a) = first
        /\ \A i \in 1 .. first : a[i] = IF i <= Len(p) THEN p[i] ELSE <<Stop>>[i - Len(p)]
    BY <1>0, <1>1, <1>2, ConcatProperties
  <1> HIDE DEF a
  <1>4. /\ b \in Seq(Alphabet) /\ Len(b) = second - 1
        /\ \A i \in 1 .. second - 1 : b[i] = IF i <= first THEN a[i] ELSE q[i - first]
    <2>1. first + Len(q) = second - 1
      BY <1>0, <1>2
    <2>2. /\ b \in Seq(Alphabet) /\ Len(b) = Len(a) + Len(q)
          /\ \A i \in 1 .. Len(a) + Len(q) : b[i] = IF i <= Len(a) THEN a[i] ELSE q[i - Len(a)]
      BY <1>3, ConcatProperties
    <2> QED BY <1>3, <2>1, <2>2
  <1> HIDE DEF b
  <1>5. /\ c \in Seq(Alphabet) /\ Len(c) = second
        /\ \A i \in 1 .. second : c[i] = IF i <= second - 1 THEN b[i] ELSE <<Stop>>[i - (second - 1)]
    <2>1. second - 1 + 1 = second
      BY <1>0, <1>2
    <2>2. /\ c \in Seq(Alphabet) /\ Len(c) = Len(b) + Len(<<Stop>>)
          /\ \A i \in 1 .. Len(b) + Len(<<Stop>>) :
                 c[i] = IF i <= Len(b) THEN b[i] ELSE <<Stop>>[i - Len(b)]
      BY <1>1, <1>4, ConcatProperties
    <2> QED BY <1>1, <1>4, <2>1, <2>2
  <1> HIDE DEF c
  <1>6. /\ d \in Seq(Alphabet) /\ Len(d) = size
        /\ \A i \in 1 .. size : d[i] = IF i <= second THEN c[i] ELSE r[i - second]
    <2>1. /\ d \in Seq(Alphabet) /\ Len(d) = Len(c) + Len(r)
          /\ \A i \in 1 .. Len(c) + Len(r) : d[i] = IF i <= Len(c) THEN c[i] ELSE r[i - Len(c)]
      BY <1>5, ConcatProperties
    <2> QED BY <1>0, <1>5, <2>1
  <1> HIDE DEF d
  <1>7. Joined(p, q, r) = d
    BY Zenon DEF Joined, a, b, c, d
  <1>8. /\ \A i \in 1 .. Len(p) : d[i] = p[i]
        /\ d[first] = Stop
    <2>1. ASSUME NEW i \in 1 .. first PROVE d[i] = a[i]
      <3>1. /\ i \in 1 .. second - 1 /\ i \in 1 .. second /\ i \in 1 .. size
            /\ i <= first /\ i <= second - 1 /\ i <= second
        BY <1>0, <1>2
      <3> QED BY <1>4, <1>5, <1>6, <3>1
    <2>2. first \in 1 .. first /\ ~(first <= Len(p)) /\ first - Len(p) = 1
      BY <1>0, <1>2
    <2>3. a[first] = Stop
      BY <1>1, <1>3, <2>2
    <2>4. ASSUME NEW i \in 1 .. Len(p) PROVE a[i] = p[i] /\ i \in 1 .. first
      <3>1. i \in 1 .. first /\ i <= Len(p)
        BY <1>0, <1>2
      <3> QED BY <1>3, <3>1
    <2> QED BY <2>1, <2>2, <2>3, <2>4
  <1>9. ASSUME NEW i \in 1 .. Len(q) PROVE d[first + i] = q[i]
    <2>1. /\ first + i \in 1 .. second - 1 /\ first + i \in 1 .. second /\ first + i \in 1 .. size
          /\ ~(first + i <= first) /\ first + i - first = i
          /\ first + i <= second - 1 /\ first + i <= second
      BY <1>0, <1>2
    <2> DEFINE j == first + i
    <2>3. d[j] = c[j] /\ c[j] = b[j] /\ b[j] = q[j - first]
      <3>1. /\ j \in 1 .. second - 1 /\ j \in 1 .. second /\ j \in 1 .. size
            /\ ~(j <= first) /\ j <= second - 1 /\ j <= second
        BY <2>1
      <3> HIDE DEF j
      <3> QED BY <1>4, <1>5, <1>6, <3>1
    <2>4. j - first = i
      BY <1>0, <1>2
    <2> HIDE DEF j
    <2>5. d[j] = q[i]
      BY <2>3, <2>4
    <2> QED BY <2>5 DEF j
  <1>10. d[second] = Stop
    <2>1. /\ second \in 1 .. second /\ second \in 1 .. size /\ second <= second
          /\ ~(second <= second - 1) /\ second - (second - 1) = 1
      BY <1>0, <1>2
    <2> QED BY <1>1, <1>5, <1>6, <2>1
  <1>11. ASSUME NEW i \in 1 .. Len(r) PROVE d[second + i] = r[i]
    <2>1. second + i \in 1 .. size /\ ~(second + i <= second) /\ second + i - second = i
      BY <1>0, <1>2
    <2> DEFINE j == second + i
    <2>2. d[j] = r[j - second]
      <3>1. j \in 1 .. size /\ ~(j <= second)
        BY <2>1
      <3> HIDE DEF j
      <3> QED BY <1>6, <3>1
    <2>3. j - second = i
      BY <1>0, <1>2
    <2> HIDE DEF j
    <2>4. d[j] = r[i]
      BY <2>2, <2>3
    <2> QED BY <2>4 DEF j
  <1> QED BY <1>6, <1>7, <1>8, <1>9, <1>10, <1>11 DEF first, second, size, HasParts

(* A string with two separators has three parts.                           *)
LEMMA SplitIs ==
  ASSUME NEW p \in Seq(Alphabet), NEW q \in Seq(Alphabet), NEW r \in Seq(Alphabet),
         Cardinality(Stops(Joined(p, q, r))) = 2
  PROVE  Split(Joined(p, q, r), Stop) = {p, q, r}
  <1> DEFINE s == Joined(p, q, r)
             first == FirstStop(p)
             second == SecondStop(p, q)
             size == Size(p, q, r)
  <1>1. /\ Len(p) \in Nat /\ Len(q) \in Nat /\ Len(r) \in Nat
        /\ first = Len(p) + 1 /\ second = first + Len(q) + 1 /\ size = second + Len(r)
    BY DEF FirstStop, SecondStop, Size
  <1>2. /\ s \in Seq(Alphabet) /\ Len(s) = size /\ DOMAIN s = 1 .. size
        /\ \A i \in 1 .. Len(p) : s[i] = p[i]
        /\ s[first] = Stop
        /\ \A i \in 1 .. Len(q) : s[first + i] = q[i]
        /\ s[second] = Stop
        /\ \A i \in 1 .. Len(r) : s[second + i] = r[i]
    <2>1. /\ s \in Seq(Alphabet) /\ Len(s) = size
          /\ \A i \in 1 .. Len(p) : s[i] = p[i]
          /\ s[first] = Stop
          /\ \A i \in 1 .. Len(q) : s[first + i] = q[i]
          /\ s[second] = Stop
          /\ \A i \in 1 .. Len(r) : s[second + i] = r[i]
      <3>1. HasParts(s, p, q, r)
        BY JoinedIs
      <3> HIDE DEF s
      <3> QED BY <3>1 DEF HasParts
    <2>2. DOMAIN s = 1 .. size
      BY <2>1, LenProperties
    <2> QED BY <2>1, <2>2
  <1> HIDE DEF s
  <1>3. Stops(s) = {first, second}
    <2>1. {first, second} \subseteq Stops(s) /\ Stops(s) \subseteq 1 .. size
      BY <1>1, <1>2 DEF Stops
    <2>2. IsFiniteSet(Stops(s))
      <3>1. 1 \in Int /\ size \in Int
        BY <1>1
      <3> HIDE DEF size
      <3>2. IsFiniteSet(1 .. size)
        BY <3>1, FS_Interval
      <3> QED BY <2>1, <3>2, FS_Subset
    <2>3. Cardinality({first, second}) = 2
      <3>1. IsFiniteSet({first}) /\ Cardinality({first}) = 1
        BY FS_Singleton
      <3>2. second \notin {first} /\ {first} \cup {second} = {first, second}
        BY <1>1
      <3> HIDE DEF first, second
      <3>3. Cardinality({first} \cup {second}) = 1 + 1
        BY <3>1, <3>2, FS_AddElement
      <3>4. Cardinality({first, second}) = 1 + 1
        BY <3>2, <3>3, Zenon
      <3>5. 1 + 1 = 2
        OBVIOUS
      <3> QED BY <3>4, <3>5, Zenon
    <2>4. Cardinality(Stops(s)) = 2
      BY DEF s
    <2> QED BY <2>1, <2>2, <2>3, <2>4, FS_Subset
  <1> DEFINE last == size + 1
             ends == {first, second, last}
             Start(e) == Max({0} \cup {i \in ends : i < e}) + 1
  <1>4. Split(s, Stop) = {SubSeq(s, Start(e), e - 1) : e \in ends}
    <2>1. {i \in DOMAIN s : s[i] = Stop} \cup {Len(s) + 1} = ends
      BY <1>2, <1>3 DEF Stops
    <2> QED BY <2>1, Zenon DEF Split
  <1>5. /\ 1 <= first /\ first < second /\ second < last
        /\ first \in Int /\ second \in Int /\ last \in Int /\ size = last - 1
    BY <1>1
  <1>6. Start(first) = 1 /\ Start(second) = first + 1 /\ Start(last) = second + 1
    <2>1. /\ {0} \cup {i \in ends : i < first} = {0}
          /\ {0} \cup {i \in ends : i < second} = {0, first}
          /\ {0} \cup {i \in ends : i < last} = {0, first, second}
      <3> HIDE DEF first, second, size, last
      <3> QED BY <1>5
    <2>2. Max({0}) = 0
      <3>1. 0 \in {0} /\ {0} \in SUBSET Int /\ \A n \in {0} : 0 >= n
        OBVIOUS
      <3> QED BY <3>1, GreatestIs
    <2>3. Max({0, first}) = first
      <3> HIDE DEF first, second, size, last
      <3>1. /\ first \in {0, first} /\ {0, first} \in SUBSET Int
            /\ \A n \in {0, first} : first >= n
        BY <1>5
      <3> QED BY <3>1, GreatestIs
    <2>4. Max({0, first, second}) = second
      <3> HIDE DEF first, second, size, last
      <3>1. /\ second \in {0, first, second} /\ {0, first, second} \in SUBSET Int
            /\ \A n \in {0, first, second} : second >= n
        BY <1>5
      <3> QED BY <3>1, GreatestIs
    <2>5. /\ Start(first) = Max({0}) + 1 /\ Start(second) = Max({0, first}) + 1
          /\ Start(last) = Max({0, first, second}) + 1
      BY <2>1, Zenon
    <2>6. 0 + 1 = 1
      OBVIOUS
    <2> QED BY <2>2, <2>3, <2>4, <2>5, <2>6
  <1>7. SubSeq(s, 1, first - 1) = p
    <2>1. \A i \in 1 .. Len(p) : s[0 + i] = p[i]
      BY <1>1, <1>2
    <2>2. 0 + Len(p) <= Len(s) /\ 0 + 1 = 1 /\ 0 + Len(p) = first - 1
      BY <1>1, <1>2
    <2> QED BY <1>2, <2>1, <2>2, SliceIs
  <1>8. SubSeq(s, first + 1, second - 1) = q
    <2>1. first + Len(q) <= Len(s) /\ first \in Nat /\ first + Len(q) = second - 1
      BY <1>1, <1>2
    <2> QED BY <1>2, <2>1, SliceIs
  <1>9. SubSeq(s, second + 1, last - 1) = r
    <2>1. second + Len(r) <= Len(s) /\ second \in Nat /\ second + Len(r) = last - 1
      BY <1>1, <1>2
    <2> QED BY <1>2, <2>1, SliceIs
  <1>10. {SubSeq(s, Start(e), e - 1) : e \in ends} =
             {SubSeq(s, Start(first), first - 1), SubSeq(s, Start(second), second - 1),
              SubSeq(s, Start(last), last - 1)}
    <2> HIDE DEF first, second, last, Start
    <2> QED OBVIOUS
  <1>11. Split(s, Stop) = {p, q, r}
    <2> HIDE DEF first, second, size, last, Start, ends
    <2> QED BY <1>4, <1>6, <1>7, <1>8, <1>9, <1>10
  <1> QED BY <1>11 DEF s

(* Each part is found by its name.                                         *)
LEMMA KeyIsReadBack ==
  ASSUME input \in [Fields -> Words]
  PROVE  KeysReadBack
  <1> DEFINE P(f) == Part(f, Normalized[f])
  <1>1. Canonical = Joined(P("tenant"), P("strategy"), P("client_order_id"))
    BY Zenon DEF Canonical, Joined, Part, Stop
  <1>2. SUFFICES ASSUME Cardinality(Stops(Canonical)) = 2
                 PROVE  Parsed = Normalized
    BY Zenon DEF KeysReadBack, Readable, Stops, Stop
  <1>3. \A f \in Fields : Normalized[f] \in Words /\ Bare(Normalized[f])
    BY NormalizedIs
  <1>4. /\ \A f \in Fields : P(f) \in Seq(Alphabet) /\ P(f) # <<>> /\ P(f)[1] = f
        /\ \A f \in Fields : Value(P(f)) = Normalized[f]
    <2>1. ASSUME NEW f \in Fields PROVE P(f) \in Seq(Alphabet) /\ P(f) # <<>> /\ P(f)[1] = f
      <3>1. /\ P(f) \in Seq(Alphabet) /\ Len(P(f)) = Len(Normalized[f]) + 2 /\ P(f)[1] = f
            /\ Len(Normalized[f]) \in Nat
        BY <1>3, PartIs, LenProperties DEF Words
      <3> HIDE DEF P
      <3>2. Len(P(f)) # 0
        BY <3>1
      <3> QED BY <3>1, <3>2, EmptySeq
    <2>2. \A f \in Fields : Value(P(f)) = Normalized[f]
      BY <1>3, ValueIs
    <2> QED BY <2>1, <2>2
  <1> HIDE DEF P
  <1>5. /\ "tenant" \in Fields /\ "strategy" \in Fields /\ "client_order_id" \in Fields
        /\ Fields = {"tenant", "strategy", "client_order_id"}
    BY DEF Fields
  <1>6. Split(Canonical, Stop) = {P(f) : f \in Fields}
    <2>1. Split(Canonical, Stop) = {P("tenant"), P("strategy"), P("client_order_id")}
      BY <1>1, <1>2, <1>4, <1>5, SplitIs
    <2> QED BY <1>5, <2>1
  <1>7. ASSUME NEW f \in Fields
        PROVE  (CHOOSE p \in Split(Canonical, Stop) : p # <<>> /\ p[1] = f) = P(f)
    <2>1. \A p \in Split(Canonical, Stop) : p # <<>> /\ p[1] = f <=> p = P(f)
      BY <1>4, <1>6
    <2>2. P(f) \in Split(Canonical, Stop)
      BY <1>6
    <2> QED BY <2>1, <2>2
  <1>8. \A f \in Fields : Trim(Normalized[f]) = Normalized[f]
    BY <1>3, TrimKeeps
  <1>9. Parsed = [f \in Fields |->
                     Trim(Value(CHOOSE p \in Split(Canonical, Stop) : p # <<>> /\ p[1] = f))]
    BY Zenon DEF Parsed, Stop
  <1>10. Parsed = [f \in Fields |-> Normalized[f]]
    <2>1. \A f \in Fields :
              Trim(Value(CHOOSE p \in Split(Canonical, Stop) : p # <<>> /\ p[1] = f))
                  = Normalized[f]
      BY <1>4, <1>7, <1>8
    <2> QED BY <1>9, <2>1, Zenon
  <1>11. Normalized = [f \in Fields |-> Normalized[f]]
    BY Zenon DEF Normalized
  <1> QED BY <1>10, <1>11

(* What is read back from a key is what it was built from, for parts of any *)
(* length.                                                                 *)
THEOREM KeysAreReadBack == PartsSpec => []KeysReadBack
  <1> DEFINE Inv == input \in [Fields -> Words]
  <1>1. PartsInit => Inv
    <2>1. Strings \subseteq Words
      BY SeqDef DEF Strings, Words, KeysAssumption
    <2>2. Plain \in [Fields -> Words]
      <3>1. "a" \in Tokens
        BY Zenon DEF Tokens
      <3> QED BY <3>1 DEF Plain, Words
    <2>3. Inputs \subseteq [Fields -> Words]
      BY <2>1, <2>2 DEF Inputs
    <2> QED BY <2>2, <2>3 DEF PartsInit
  <1>2. Inv /\ [PartsNext]_partsVars => Inv'
    BY DEF PartsNext, ListsNext, BeatsNext, PlacingNext, UserNext, SendingNext, RequestsNext,
           partsVars
  <1>3. Inv => KeysReadBack
    BY KeyIsReadBack
  <1> QED BY <1>1, <1>2, <1>3, PTL DEF PartsSpec

-----------------------------------------------------------------------------
(* The parts together.                                                     *)

(* Each part sees its own steps or none.                                   *)
LEMMA PartsAreImplemented ==
  PartsSpec => Spec /\ OrdersSpec /\ ChainSpec /\ SigningSpec /\ Beats!Spec /\ User!UserSpec
  <1>1. PartsInit => /\ Init /\ OrdersInit /\ ChainInit /\ SigningInit
                     /\ Beats!Init /\ User!UserInit
    BY DEF PartsInit
  <1>2. [PartsNext]_partsVars =>
            /\ [Next]_vars /\ [OrdersNext]_orderVars /\ [ChainNext]_chainVars
            /\ [SigningNext]_signingVars
            /\ [Beats!Next]_beatVars /\ [User!UserNext]_userVars
    BY DEF PartsNext, ListsNext, BeatsNext, PlacingNext, UserNext, SendingNext, RequestsNext,
           partsVars
  <1>3. /\ [Beats!Next]_beatVars => [Beats!Next]_(Beats!vars)
        /\ [User!UserNext]_userVars => [User!UserNext]_(User!userVars)
    BY DEF beatVars, Beats!vars, Beats!config, userVars, User!userVars, User!creds, User!calls,
           User!conn
  <1> QED
    BY <1>1, <1>2, <1>3, PTL
    DEF PartsSpec, Spec, OrdersSpec, ChainSpec, SigningSpec, Beats!Spec, User!UserSpec

(* What the theorems say of the parts holds of every state of SdkParts.    *)
THEOREM PartsAreSafe ==
  ASSUME Skews \subseteq Int
  PROVE  PartsSpec => [](/\ NothingSkipped
                         /\ PlacedOnce /\ ReportsAreTrue
                         /\ RepeatsAreSafe
                         /\ RequestsVerify /\ KeyIsFound
                         /\ PromotionMovesBeats
                         /\ KeysAreTheLastSet /\ UserStreamsServed
                         /\ PolicyIsFollowed /\ KeysReadBack)
  BY PartsAreImplemented, PagesSkipNothing, OrdersArePlacedOnce, OrderReportsAreTrue,
     CallsSendOnce, RequestsAreVerifiable, KeyIsAlwaysFound, PromotionsMoveBeats,
     KeysAreSetLast, UserStreamsAreServed, PoliciesAreFollowed, KeysAreReadBack, PTL

=============================================================================
