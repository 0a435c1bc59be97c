----------------------------- MODULE MCTrading -----------------------------
(* A small instance of TradingBot for TLC: requests of every kind against  *)
(* two books whose tick sizes differ.                                      *)
EXTENDS TradingBot

CONSTANTS t1, t2

Decimal(v, n) == [value |-> v, places |-> n]
Level(p, s) == [price |-> p, size |-> s]

AllRequests ==
    [side : {"BUY", "SELL"}, kind : {"limit", "signable", "usdc", "shares"}, amount : {1, 333, 17000},
     price : {Decimal(0, 0), Decimal(5000, 1), Decimal(5000, 2), Decimal(3330, 3)},
     tick : {0, 100, 500}, type : {"GTC", "GTD", "FAK", "FOK"},
     expires : BOOLEAN, postOnly : BOOLEAN]

\* Market orders with no malformed combinations but the ones of the side.
SomeRequests ==
    {r \in AllRequests :
        /\ r.kind \in {"usdc", "shares"} => r.type \in {"FAK", "FOK"} /\ ~r.expires
        /\ r.kind \in {"limit", "signable"} => r.tick # 500 /\ r.amount # 1
        /\ r.kind = "limit" => r.type = "GTD" /\ ~r.expires /\ ~r.postOnly
        /\ r.expires => r.type = "GTD"
        /\ r.kind = "usdc" => r.amount # 17000
        /\ r.postOnly => r.side = "BUY" /\ r.amount = 333}
    \cup {[r EXCEPT !.side = "HOLD"] : r \in {q \in AllRequests :
              q.kind = "shares" /\ q.amount = 333 /\ q.tick = 0 /\ q.type = "FOK"
              /\ q.price.value = 0 /\ ~q.expires /\ ~q.postOnly}}

TwoMarkets ==
    {[tick |-> 100,
      asks |-> <<Level(5200, 30000), Level(5100, 10000), Level(5000, 10000)>>,
      bids |-> <<Level(4700, 20000), Level(4800, 10000), Level(4900, 5000)>>],
     [tick |-> 10,
      asks |-> <<Level(5230, 10000), Level(5110, 5000), Level(5090, 10000)>>,
      bids |-> <<Level(5010, 15000), Level(5080, 10000)>>],
     [tick |-> 100, asks |-> <<Level(5200, 9000)>>, bids |-> <<>>]}
=============================================================================
