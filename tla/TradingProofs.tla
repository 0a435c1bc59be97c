--------------------------- MODULE TradingProofs ----------------------------
(***************************************************************************)
(* Theorems about TradingBot and the builder it extends, for any requests, *)
(* markets, tokens and bounds.                                             *)
(***************************************************************************)
EXTENDS TradingBot, SequenceTheorems, WellFoundedInduction, TLAPS

(* The bot has an order built after its gates were passed, and only then   *)
(* does the builder work.                                                  *)
GateInv ==
    /\ flags \in [execute : BOOLEAN, yes : BOOLEAN, env : {"unset", "on", "off"}]
    /\ pc \in {"app", "scan", "plan", "risk", "confirm", "execute", "building", "ended"}
    /\ pc = "confirm" => flags.execute
    /\ pc = "execute" => flags.execute /\ (flags.yes \/ confirmed)
    /\ BuildsOnlyWhenTold

LEMMA GateNext == GateInv /\ [TradingNext]_tradingVars => GateInv'
  <1> SUFFICES ASSUME GateInv, [TradingNext]_tradingVars PROVE GateInv'
    OBVIOUS
  <1> USE DEF GateInv, BuildsOnlyWhenTold, botVars, Ends, Step
  <1>1. CASE ScanOpportunities
    BY <1>1 DEF ScanOpportunities
  <1>2. CASE BuildTradePlan
    BY <1>2 DEF BuildTradePlan
  <1>3. CASE EvaluateRisk
    BY <1>3 DEF EvaluateRisk
  <1>4. CASE Confirm
    BY <1>4 DEF Confirm
  <1>5. CASE ExecutePlan
    <2>1. ~Disabled(DryRun) => flags.env # "on"
      BY DEF Disabled, DryRun
    <2> QED BY <1>5, <2>1 DEF ExecutePlan
  <1>6. CASE OthersTrade
    BY <1>6 DEF OthersTrade
  <1>7. CASE UNCHANGED <<botVars, pc>>
    BY <1>7
  <1> QED
    BY <1>1, <1>2, <1>3, <1>4, <1>5, <1>6, <1>7 DEF TradingNext, tradingVars

(* The bot only has an order built that the user asked for.                *)
THEOREM BotObeys == TradingSpec => []BuildsOnlyWhenTold
  <1>1. TradingInit => GateInv
    BY DEF TradingInit, GateInv, BuildsOnlyWhenTold
  <1>2. GateInv => BuildsOnlyWhenTold
    BY DEF GateInv
  <1> QED BY <1>1, <1>2, GateNext, PTL DEF TradingSpec

-----------------------------------------------------------------------------
(* The order that is built.                                                *)

Stages == {"waits", "tick", "book", "price", "built", "refused", "panicked"}

(* The price of a market order is that of the level the walk stopped at.   *)
PriceFound ==
    /\ IsMarket
    /\ \E m \in Markets : seen = IF request.side = "BUY" THEN m.asks ELSE m.bids
    /\ price = seen[LastLevel(seen)].price
    /\ request.type = "FOK" => Enough(seen) # {}

OrderInv ==
    /\ market \in Markets
    /\ tickCache \in {0} \cup {m.tick : m \in Markets}
    /\ books \in [Tokens -> Markets] /\ best \in Tokens
    /\ pc \in {"app", "scan", "plan", "risk", "confirm", "execute", "building", "ended"}
    /\ pc \in {"plan", "risk", "confirm", "execute"} =>
           books[best].bids # <<>> /\ books[best].asks # <<>>
    /\ stage \in Stages
    /\ stage = "waits" <=> pc \notin {"app", "building"}
    /\ request.amount \in Int /\ request.price.value \in Int /\ request.tick \in Int
    /\ stage \in {"book", "price", "built"} => ~Malformed /\ tick \in Int
    /\ stage \in {"waits", "tick", "book"} => seen = <<>>
    /\ stage \in {"price", "built"} =>
           price \in Nat /\ (seen # <<>> => PriceFound)
    /\ stage = "built" =>
           /\ InBounds(Rounded) /\ ~DividesByZero
           /\ order = [price |-> Rounded, maker |-> Amounts.maker, taker |-> Amounts.taker]

(* Every set of natural numbers that is not empty has a least element: how *)
(* induction is used here.                                                 *)
LEMMA LeastNatural ==
  ASSUME NEW T \in SUBSET Nat, T # {}
  PROVE  \E n \in T : \A m \in T : n <= m
  <1> DEFINE R == OpToRel(<, Nat)
  <1>1. IsWellFoundedOn(R, Nat)
    BY NatLessThanWellFounded
  <1>2. \A m, n \in Nat : <<m, n>> \in R <=> m < n
    BY DEF OpToRel
  <1> HIDE DEF R
  <1>3. PICK n \in T : \A m \in T : ~(<<m, n>> \in R)
    BY <1>1, WFMin
  <1>4. ASSUME NEW m \in T PROVE n <= m
    <2>1. n \in Nat /\ m \in Nat
      OBVIOUS
    <2>2. ~(m < n)
      BY <1>2, <1>3, <2>1
    <2> QED BY <2>1, <2>2
  <1> QED BY <1>4

(* Induction up to n, for a property given as the set of its numbers.      *)
LEMMA UpTo ==
  ASSUME NEW n \in Nat, NEW S, 0 \in S,
         \A k \in 0 .. n - 1 : k \in S => k + 1 \in S
  PROVE  \A k \in 0 .. n : k \in S
  <1> DEFINE T == {k \in 0 .. n : k \notin S}
  <1> SUFFICES ASSUME T # {} PROVE FALSE
    OBVIOUS
  <1>1. T \in SUBSET Nat
    OBVIOUS
  <1>2. PICK k \in T : \A m \in T : k <= m
    <2> HIDE DEF T
    <2> QED BY <1>1, LeastNatural
  <1>3. k \in 0 .. n /\ k \notin S /\ k # 0
    OBVIOUS
  <1>4. k - 1 \in 0 .. n - 1 /\ k - 1 \in 0 .. n /\ ~(k <= k - 1)
    BY <1>3
  <1>5. k - 1 \in S
    BY <1>2, <1>4
  <1>6. (k - 1) + 1 \in S /\ (k - 1) + 1 = k
    BY <1>3, <1>4, <1>5
  <1> QED BY <1>3, <1>6

LEMMA MinIs ==
  ASSUME NEW S \in SUBSET Nat, S # {}
  PROVE  Min(S) \in S /\ \A n \in S : Min(S) <= n
  BY LeastNatural DEF Min

LEMMA MaxIs ==
  ASSUME NEW n \in Nat, NEW S \in SUBSET (0 .. n), S # {}
  PROVE  Max(S) \in S /\ \A i \in S : Max(S) >= i
  <1> DEFINE T == {n - i : i \in S}
  <1>1. T \in SUBSET Nat /\ T # {}
    <2>1. \A i \in S : i \in 0 .. n
      OBVIOUS
    <2>2. \A i \in 0 .. n : n - i \in Nat
      OBVIOUS
    <2> QED BY <2>1, <2>2
  <1>2. PICK d \in T : \A e \in T : d <= e
    BY <1>1, LeastNatural
  <1>3. PICK i \in S : d = n - i
    OBVIOUS
  <1>4. ASSUME NEW j \in S PROVE i >= j
    <2>1. n - j \in T
      OBVIOUS
    <2>2. n - i <= n - j
      BY <1>2, <1>3, <2>1
    <2>3. i \in Nat /\ j \in Nat
      OBVIOUS
    <2> QED BY <2>2, <2>3
  <1> QED BY <1>4 DEF Max

(* SumFrom adds up from the end of the sequence.                           *)
LEMMA SumExists ==
  ASSUME NEW n \in Nat, NEW f \in [1 .. n -> Int]
  PROVE  \E s : s = [j \in 1 .. n + 1 |-> IF j > n THEN 0 ELSE f[j] + s[j + 1]]
  <1> DEFINE Sums(k) == \E s \in [n + 1 - k .. n + 1 -> Int] :
                            \A j \in n + 1 - k .. n + 1 :
                                s[j] = IF j > n THEN 0 ELSE f[j] + s[j + 1]
             S == {k \in 0 .. n : Sums(k)}
  <1>0. Sums(0)
    <2>1. WITNESS [j \in n + 1 - 0 .. n + 1 |-> 0] \in [n + 1 - 0 .. n + 1 -> Int]
    <2> QED OBVIOUS
  <1>1. ASSUME NEW k \in 0 .. n - 1, Sums(k) PROVE Sums(k + 1)
    <2>1. PICK s \in [n + 1 - k .. n + 1 -> Int] :
              \A j \in n + 1 - k .. n + 1 : s[j] = IF j > n THEN 0 ELSE f[j] + s[j + 1]
      BY <1>1
    <2> DEFINE m == n - k
               t == [j \in m .. n + 1 |-> IF j = m THEN f[m] + s[m + 1] ELSE s[j]]
    <2>2. m \in 1 .. n /\ n + 1 - (k + 1) = m /\ n + 1 - k = m + 1
      OBVIOUS
    <2> HIDE DEF m
    <2>3. t \in [m .. n + 1 -> Int]
      BY <2>2
    <2>4. \A j \in m .. n + 1 : t[j] = IF j > n THEN 0 ELSE f[j] + t[j + 1]
      <3>1. t[m] = f[m] + t[m + 1]
        BY <2>2
      <3>2. ASSUME NEW j \in m + 1 .. n + 1
            PROVE  t[j] = IF j > n THEN 0 ELSE f[j] + t[j + 1]
        <4>1. t[j] = s[j] /\ (j <= n => t[j + 1] = s[j + 1])
          BY <2>2
        <4>2. s[j] = IF j > n THEN 0 ELSE f[j] + s[j + 1]
          BY <2>1, <2>2
        <4> QED BY <2>2, <4>1, <4>2
      <3>3. m \in Int /\ n + 1 \in Int /\ m <= n
        BY <2>2
      <3>4. ~(m > n) /\ \A j \in m .. n + 1 : j = m \/ j \in m + 1 .. n + 1
        BY <3>3
      <3> HIDE DEF t
      <3> QED BY <3>1, <3>2, <3>4
    <2> HIDE DEF t
    <2> QED BY <2>2, <2>3, <2>4
  <1> HIDE DEF Sums
  <1>2. 0 \in S /\ \A k \in 0 .. n - 1 : k \in S => k + 1 \in S
    BY <1>0, <1>1
  <1>3. Sums(n)
    <2>1. \A k \in 0 .. n : k \in S
      <3> HIDE DEF S
      <3> QED BY <1>2, UpTo
    <2> QED BY <2>1
  <1>4. PICK s \in [1 .. n + 1 -> Int] :
              \A j \in 1 .. n + 1 : s[j] = IF j > n THEN 0 ELSE f[j] + s[j + 1]
    <2>1. n + 1 - n = 1
      OBVIOUS
    <2> QED BY <1>3, <2>1 DEF Sums
  <1>5. s = [j \in 1 .. n + 1 |-> IF j > n THEN 0 ELSE f[j] + s[j + 1]]
    BY <1>4
  <1> QED BY <1>5

LEMMA SumIs ==
  ASSUME NEW f \in Seq(Int)
  PROVE  /\ SumFrom(f, Len(f) + 1) = 0
         /\ \A i \in DOMAIN f : SumFrom(f, i) = f[i] + SumFrom(f, i + 1)
  <1> DEFINE sum[j \in 1 .. Len(f) + 1] == IF j > Len(f) THEN 0 ELSE f[j] + sum[j + 1]
  <1>0. Len(f) \in Nat /\ DOMAIN f = 1 .. Len(f) /\ f \in [1 .. Len(f) -> Int]
    OBVIOUS
  <1>1. \A i : SumFrom(f, i) = sum[i]
    BY DEF SumFrom
  <1>2. sum = [j \in 1 .. Len(f) + 1 |-> IF j > Len(f) THEN 0 ELSE f[j] + sum[j + 1]]
    BY <1>0, SumExists
  <1> HIDE DEF sum
  <1>3. \A j \in 1 .. Len(f) + 1 : sum[j] = IF j > Len(f) THEN 0 ELSE f[j] + sum[j + 1]
    BY <1>2
  <1> QED BY <1>0, <1>1, <1>3

(* Sums compare as their parts do, and are numbers.                        *)
LEMMA SumCompare ==
  ASSUME NEW n \in Nat, NEW f \in [1 .. n -> Int], NEW g \in [1 .. n -> Int],
         NEW a \in Int, NEW b \in Int, NEW i \in 1 .. n + 1,
         \A j \in i .. n : a * f[j] <= b * g[j]
  PROVE  /\ SumFrom(f, i) \in Int /\ SumFrom(g, i) \in Int
         /\ a * SumFrom(f, i) <= b * SumFrom(g, i)
  <1> DEFINE F(j) == SumFrom(f, j)
             G(j) == SumFrom(g, j)
             Holds(j) == F(j) \in Int /\ G(j) \in Int /\ a * F(j) <= b * G(j)
             S == {k \in 0 .. n + 1 - i : Holds(n + 1 - k)}
  <1>0. f \in Seq(Int) /\ g \in Seq(Int) /\ Len(f) = n /\ Len(g) = n
    OBVIOUS
  <1>1. /\ F(n + 1) = 0 /\ G(n + 1) = 0
        /\ \A j \in 1 .. n : F(j) = f[j] + F(j + 1) /\ G(j) = g[j] + G(j + 1)
    BY <1>0, SumIs
  <1> HIDE DEF F, G
  <1>2. Holds(n + 1 - 0)
    BY <1>1
  <1>3. ASSUME NEW k \in 0 .. (n + 1 - i) - 1, Holds(n + 1 - k) PROVE Holds(n + 1 - (k + 1))
    <2> DEFINE j == n - k
    <2>1. j \in i .. n /\ j \in 1 .. n /\ n + 1 - k = j + 1 /\ n + 1 - (k + 1) = j
      OBVIOUS
    <2> HIDE DEF j
    <2>2. F(j) = f[j] + F(j + 1) /\ G(j) = g[j] + G(j + 1)
      BY <1>1, <2>1
    <2>3. /\ a * f[j] <= b * g[j] /\ a * F(j + 1) <= b * G(j + 1)
          /\ f[j] \in Int /\ g[j] \in Int /\ F(j + 1) \in Int /\ G(j + 1) \in Int
      BY <1>3, <2>1
    <2>4. a * F(j) = a * f[j] + a * F(j + 1) /\ b * G(j) = b * g[j] + b * G(j + 1)
      <3>1. \A w, x, y \in Int : w * (x + y) = w * x + w * y
        OBVIOUS
      <3>2. /\ a * (f[j] + F(j + 1)) = a * f[j] + a * F(j + 1)
            /\ b * (g[j] + G(j + 1)) = b * g[j] + b * G(j + 1)
        BY <2>3, <3>1
      <3> QED BY <2>2, <3>2
    <2> HIDE DEF Holds
    <2>5. /\ a * f[j] \in Int /\ a * F(j + 1) \in Int
          /\ b * g[j] \in Int /\ b * G(j + 1) \in Int
      <3>1. \A w, x \in Int : w * x \in Int
        OBVIOUS
      <3>2. a \in Int /\ b \in Int
        OBVIOUS
      <3> QED BY <2>3, <3>1, <3>2
    <2>6. \A w, x, y, z \in Int : w <= y /\ x <= z => w + x <= y + z
      OBVIOUS
    <2>7. a * f[j] + a * F(j + 1) <= b * g[j] + b * G(j + 1)
      BY <2>3, <2>5, <2>6
    <2>8. a * F(j) <= b * G(j)
      BY <2>4, <2>7
    <2>9. F(j) \in Int /\ G(j) \in Int
      BY <2>2, <2>3
    <2>10. Holds(j)
      BY <2>8, <2>9 DEF Holds
    <2> QED BY <2>1, <2>10
  <1> HIDE DEF Holds
  <1>4. \A k \in 0 .. n + 1 - i : k \in S
    <2>1. 0 \in S /\ \A k \in 0 .. (n + 1 - i) - 1 : k \in S => k + 1 \in S
      BY <1>2, <1>3
    <2>2. n + 1 - i \in Nat
      OBVIOUS
    <2> HIDE DEF S
    <2> QED BY <2>1, <2>2, UpTo
  <1>5. n + 1 - i \in 0 .. n + 1 - i /\ n + 1 - (n + 1 - i) = i
    OBVIOUS
  <1> QED BY <1>4, <1>5 DEF Holds, F, G

LEMMA SumKeepsOrder ==
  ASSUME NEW n \in Nat, NEW f \in [1 .. n -> Int], NEW g \in [1 .. n -> Int],
         NEW i \in 1 .. n + 1, \A j \in 1 .. n : f[j] <= g[j]
  PROVE  /\ SumFrom(f, i) \in Int /\ SumFrom(g, i) \in Int
         /\ SumFrom(f, i) <= SumFrom(g, i)
  <1>1. \A j \in i .. n : 1 * f[j] <= 1 * g[j]
    OBVIOUS
  <1>2. /\ SumFrom(f, i) \in Int /\ SumFrom(g, i) \in Int
        /\ 1 * SumFrom(f, i) <= 1 * SumFrom(g, i)
    BY <1>1, 1 \in Int, SumCompare, Zenon
  <1> QED BY <1>2

(* What stands before i only adds to a sum, or takes from it.              *)
LEMMA SumSkips ==
  ASSUME NEW n \in Nat, NEW f \in [1 .. n -> Int], NEW i \in 1 .. n + 1
  PROVE  /\ (\A j \in 1 .. i - 1 : f[j] >= 0) => SumFrom(f, 1) >= SumFrom(f, i)
         /\ (\A j \in 1 .. i - 1 : f[j] = 0) => SumFrom(f, 1) = SumFrom(f, i)
  <1> DEFINE F(j) == SumFrom(f, j)
             Holds(k) == /\ (\A j \in 1 .. k : f[j] >= 0) => F(1) >= F(k + 1)
                         /\ (\A j \in 1 .. k : f[j] = 0) => F(1) = F(k + 1)
             S == {k \in 0 .. n : Holds(k)}
  <1>0. f \in Seq(Int) /\ Len(f) = n
    OBVIOUS
  <1>1. \A j \in 1 .. n : F(j) = f[j] + F(j + 1)
    BY <1>0, SumIs
  <1>2. ASSUME NEW j \in 1 .. n + 1 PROVE F(j) \in Int
    <2>1. \A m \in j .. n : 1 * f[m] <= 1 * f[m]
      BY j \in 1 .. n + 1
    <2> HIDE DEF F
    <2>2. \A g \in [1 .. n -> Int] :
              (\A m \in j .. n : 1 * f[m] <= 1 * g[m]) => SumFrom(f, j) \in Int
      BY 1 \in Int, SumCompare, Zenon
    <2>3. SumFrom(f, j) \in Int
      BY <2>1, <2>2
    <2> QED BY <2>3 DEF F
  <1> HIDE DEF F
  <1>3. Holds(0)
    BY <1>2
  <1>4. ASSUME NEW k \in 0 .. n - 1, Holds(k) PROVE Holds(k + 1)
    <2>1. F(k + 1) = f[k + 1] + F(k + 2) /\ f[k + 1] \in Int
      <3>1. k + 1 \in 1 .. n /\ (k + 1) + 1 = k + 2
        OBVIOUS
      <3>2. F(k + 1) = f[k + 1] + F((k + 1) + 1)
        BY <1>1, <3>1
      <3> QED BY <3>1, <3>2
    <2>2. F(1) \in Int /\ F(k + 1) \in Int /\ F(k + 2) \in Int
      BY <1>2
    <2>3. /\ k + 1 \in 1 .. k + 1 /\ \A j \in 1 .. k : j \in 1 .. k + 1
          /\ (k + 1) + 1 = k + 2
      OBVIOUS
    <2>4. ASSUME \A j \in 1 .. k + 1 : f[j] >= 0 PROVE F(1) >= F(k + 2)
      BY <1>4, <2>1, <2>2, <2>3, <2>4
    <2>5. ASSUME \A j \in 1 .. k + 1 : f[j] = 0 PROVE F(1) = F(k + 2)
      BY <1>4, <2>1, <2>2, <2>3, <2>5
    <2> QED BY <2>3, <2>4, <2>5
  <1> HIDE DEF Holds
  <1>5. \A k \in 0 .. n : k \in S
    <2>1. 0 \in S /\ \A k \in 0 .. n - 1 : k \in S => k + 1 \in S
      BY <1>3, <1>4
    <2> HIDE DEF S
    <2> QED BY <2>1, UpTo
  <1>6. i - 1 \in 0 .. n /\ (i - 1) + 1 = i
    OBVIOUS
  <1>7. Holds(i - 1)
    BY <1>5, <1>6
  <1> QED BY <1>6, <1>7 DEF Holds, F

(* The level the walk stops at is one of the book, and the first with the  *)
(* amount if there is one.                                                 *)
LEMMA LastIs ==
  ASSUME NEW levels \in Seq(BookLevels), levels # <<>>
  PROVE  /\ LastLevel(levels) \in DOMAIN levels
         /\ \A i \in Enough(levels) : i <= LastLevel(levels)
         /\ Enough(levels) # {} => LastLevel(levels) \in Enough(levels)
  <1> DEFINE S == Enough(levels) \cup {1}
  <1>1. Len(levels) \in Nat /\ DOMAIN levels = 1 .. Len(levels) /\ 1 \in DOMAIN levels
    OBVIOUS
  <1>2. S \in SUBSET (0 .. Len(levels)) /\ S # {} /\ S \subseteq 1 .. Len(levels)
    BY <1>1 DEF Enough
  <1>3. LastLevel(levels) = Max(S)
    BY DEF LastLevel
  <1> HIDE DEF S
  <1>4. LastLevel(levels) \in S /\ \A i \in S : LastLevel(levels) >= i
    BY <1>1, <1>2, <1>3, MaxIs
  <1>5. \A i \in S : i \in 1 .. Len(levels)
    BY <1>2
  <1>6. ASSUME Enough(levels) # {}, LastLevel(levels) = 1 PROVE 1 \in Enough(levels)
    <2>1. PICK i \in Enough(levels) : TRUE
      BY <1>6
    <2>2. i \in S
      BY DEF S
    <2>3. i \in 1 .. Len(levels) /\ 1 >= i
      BY <1>4, <1>5, <1>6, <2>2
    <2> QED BY <2>3
  <1> QED BY <1>1, <1>4, <1>5, <1>6 DEF S

(* A step of the builder or of the bot keeps what is known of the order.   *)
LEMMA BuilderNextKeeps ==
  OrderInv /\ BuilderNext /\ UNCHANGED <<botVars, pc>> => OrderInv'
  <1> SUFFICES ASSUME OrderInv, BuilderNext, UNCHANGED <<botVars, pc>> PROVE OrderInv'
    OBVIOUS
  <1> USE DEF botVars, outside, found, Stages
  <1>r. ASSUME Refused, stage \in {"tick", "book", "price"},
               UNCHANGED <<request, market>>, tickCache' \in {0} \cup {m.tick : m \in Markets}
        PROVE  OrderInv'
    BY <1>r DEF Refused, OrderInv
  <1>t. ASSUME NEW minimum \in Int, TickFound(minimum), stage = "tick", ~Malformed,
               UNCHANGED <<request, market>>, tickCache' \in {0} \cup {m.tick : m \in Markets}
        PROVE  OrderInv'
    <2>1. CASE request.tick # 0 /\ request.tick < minimum
      BY <1>r, <1>t, <2>1 DEF TickFound
    <2>2. CASE ~(request.tick # 0 /\ request.tick < minimum)
      <3>1. /\ tick' = IF request.tick # 0 THEN request.tick ELSE minimum
            /\ stage' = IF request.price.value > 0 THEN "price" ELSE "book"
            /\ price' = request.price.value
            /\ UNCHANGED <<seen, order>>
        BY <1>t, <2>2 DEF TickFound
      <3>2. tick' \in Int
        BY <1>t, <2>2, <3>1 DEF OrderInv
      <3>3. ~Malformed'
        BY <1>t DEF Malformed, IsMarket, OrderInv
      <3>4. seen' = <<>> /\ stage' \in {"price", "book"}
        BY <1>t, <3>1 DEF OrderInv
      <3>5. stage' = "price" => price' \in Nat
        BY <3>1 DEF OrderInv
      <3> QED BY <1>t, <3>2, <3>3, <3>4, <3>5 DEF OrderInv
    <2> QED BY <2>1, <2>2
  <1>c. tickCache \in Int /\ market.tick \in Int
    BY MarketsAssumption DEF OrderInv
  <1>1. CASE ResolveTickSize
    <2>1. /\ stage = "tick" /\ UNCHANGED <<request, market>>
          /\ tickCache' \in {0} \cup {m.tick : m \in Markets}
      BY <1>1 DEF ResolveTickSize, OrderInv
    <2>2. CASE Refused
      BY <1>r, <2>1, <2>2
    <2>3. CASE ~Refused
      <3>1. ~Malformed
        BY <1>1, <2>3 DEF ResolveTickSize
      <3>2. \E minimum \in {tickCache, 0, market.tick, request.tick} : TickFound(minimum)
        BY <1>1, <2>3 DEF ResolveTickSize
      <3>3. {tickCache, 0, market.tick, request.tick} \subseteq Int
        BY <1>c DEF OrderInv
      <3> QED BY <1>t, <2>1, <3>1, <3>2, <3>3
    <2> QED BY <2>2, <2>3
  <1>2. CASE ResolveMarketPrice
    <2>1. CASE Refused
      BY <1>2, <1>r, <2>1 DEF ResolveMarketPrice, OrderInv
    <2>2. CASE ~Refused
      <3>1. /\ stage = "book" /\ stage' = "price" /\ Levels # <<>>
            /\ request.price.value = 0
            /\ Enough(Levels) # {} \/ request.type # "FOK"
            /\ price' = Levels[LastLevel(Levels)].price
            /\ seen' = Levels
            /\ UNCHANGED <<tick, order, request, market, tickCache>>
        BY <1>2, <2>2 DEF ResolveMarketPrice
      <3>2. ~Malformed' /\ IsMarket /\ request.amount > 0
        BY <3>1 DEF Malformed, IsMarket, OrderInv
      <3>3. Levels \in Seq(BookLevels)
        BY MarketsAssumption DEF Levels, OrderInv
      <3>4. LastLevel(Levels) \in DOMAIN Levels
        BY <3>1, <3>3, LastIs
      <3>5. price' \in Nat
        <4>1. Levels[LastLevel(Levels)] \in BookLevels
          BY <3>3, <3>4
        <4> QED BY <3>1, <4>1 DEF BookLevels
      <3>6. PriceFound'
        <4>1. Enough(seen)' = Enough(Levels) /\ LastLevel(seen)' = LastLevel(Levels)
          BY <3>1 DEF LastLevel, Enough, Held, Worth
        <4>2. \E m \in Markets : seen' = IF request.side = "BUY" THEN m.asks ELSE m.bids
          BY <3>1 DEF Levels, OrderInv
        <4> QED BY <3>1, <3>2, <4>1, <4>2 DEF PriceFound, IsMarket
      <3> QED BY <3>1, <3>2, <3>5, <3>6 DEF OrderInv
    <2> QED BY <2>1, <2>2
  <1>3. CASE Build
    <2>1. CASE Refused
      BY <1>3, <1>r, <2>1 DEF Build, OrderInv
    <2>p. CASE Panics
      BY <1>3, <2>p DEF Build, Panics, OrderInv
    <2>2. CASE ~Refused /\ ~Panics
      <3>1. /\ stage = "price" /\ stage' = "built" /\ InBounds(Rounded) /\ ~DividesByZero
            /\ order' = [price |-> Rounded, maker |-> Amounts.maker, taker |-> Amounts.taker]
            /\ UNCHANGED <<tick, seen, price, request, market, tickCache>>
        BY <1>3, <2>2 DEF Build, FeeRefused, MakerRefused, Accepted
      <3>2. /\ Rounded' = Rounded /\ Amounts' = Amounts /\ InBounds(Rounded)'
            /\ ~DividesByZero'
        BY <3>1 DEF Rounded, Amounts, Truncated, Truncate, InBounds, DividesByZero
      <3>3. PriceFound' <=> PriceFound
        BY <3>1 DEF PriceFound, IsMarket, LastLevel, Enough, Held, Worth
      <3>4. ~Malformed'
        BY <3>1 DEF Malformed, IsMarket, OrderInv
      <3>5. UNCHANGED <<market, tickCache, botVars, pc>> /\ stage' = "built"
        BY <3>1
      <3>6. order' = [price |-> Rounded', maker |-> Amounts'.maker, taker |-> Amounts'.taker]
        BY <3>1, <3>2
      <3>7. price' \in Nat /\ (seen' # <<>> => PriceFound')
        BY <3>1, <3>3 DEF OrderInv
      <3>8. tick' \in Int /\ pc' \in {"app", "building"}
        BY <3>1 DEF OrderInv
      <3> QED BY <3>1, <3>2, <3>4, <3>5, <3>6, <3>7, <3>8 DEF OrderInv
    <2> QED BY <2>1, <2>p, <2>2
  <1>4. CASE MarketShifts \/ CacheShifts
    <2>1. /\ market' \in Markets /\ tickCache' \in {0} \cup {m.tick : m \in Markets}
          /\ UNCHANGED <<request, stage, tick, seen, price, order>>
      BY <1>4 DEF MarketShifts, CacheShifts, OrderInv
    <2>2. /\ Rounded' = Rounded /\ Amounts' = Amounts /\ InBounds(Rounded)' = InBounds(Rounded)
          /\ Malformed' = Malformed /\ DividesByZero' = DividesByZero
      BY <2>1 DEF Rounded, Amounts, Truncated, InBounds, Malformed, IsMarket, DividesByZero
    <2>3. PriceFound' = PriceFound
      BY <2>1 DEF PriceFound, IsMarket, LastLevel, Enough, Held, Worth
    <2> QED BY <2>1, <2>2, <2>3 DEF OrderInv
  <1> QED
    BY <1>1, <1>2, <1>3, <1>4 DEF BuilderNext

LEMMA BotNextKeeps ==
  ASSUME OrderInv,
         \/ ScanOpportunities \/ BuildTradePlan \/ EvaluateRisk \/ Confirm
         \/ ExecutePlan \/ OthersTrade
  PROVE  OrderInv'
  <1> USE DEF Step, Ends, outside, found, botVars
  <1>k. ASSUME UNCHANGED <<outside, found, request, stage, books, best>>, stage = "waits",
               pc' \in {"plan", "risk", "confirm", "execute", "ended"},
               pc' # "ended" => books[best].bids # <<>> /\ books[best].asks # <<>>
        PROVE  OrderInv'
    BY <1>k DEF OrderInv
  <1>1. CASE ScanOpportunities
    <2>1. /\ stage = "waits" /\ books' \in [Tokens -> Markets]
          /\ UNCHANGED <<outside, found, request, stage>>
      BY <1>1 DEF ScanOpportunities, OrderInv
    <2>2. \/ pc' = "ended" /\ best' = best
          \/ /\ pc' = "plan" /\ best' \in Tokens
             /\ books'[best'].bids # <<>> /\ books'[best'].asks # <<>>
      BY <1>1 DEF ScanOpportunities
    <2> QED BY <2>1, <2>2 DEF OrderInv
  <1>2. CASE BuildTradePlan \/ EvaluateRisk \/ Confirm
    BY <1>2, <1>k DEF BuildTradePlan, EvaluateRisk, Confirm, OrderInv
  <1>3. CASE OthersTrade
    <2>1. stage = "waits" /\ UNCHANGED <<outside, found, request, stage, books, best, pc>>
      BY <1>3 DEF OthersTrade, OrderInv
    <2> QED BY <2>1 DEF OrderInv
  <1>4. CASE ExecutePlan
    <2>1. CASE Disabled(DryRun)
      BY <1>4, <1>k, <2>1 DEF ExecutePlan, OrderInv
    <2>2. CASE ~Disabled(DryRun)
      <3>1. PICK side \in {"BUY", "SELL"} :
                request' = [NoRequest EXCEPT !.side = side, !.amount = Amount,
                                             !.price = Guarded(books[best], side)]
        BY <1>4, <2>2 DEF ExecutePlan
      <3>2. /\ stage = "waits" /\ stage' = "tick" /\ pc' = "building"
            /\ UNCHANGED <<outside, found, books, best>>
        BY <1>4, <2>2 DEF ExecutePlan, OrderInv
      <3>3. Guarded(books[best], side).value \in Int
        <4>1. /\ books[best].bids \in Seq(BookLevels) /\ books[best].bids # <<>>
              /\ books[best].asks \in Seq(BookLevels) /\ books[best].asks # <<>>
          BY <1>4, MarketsAssumption DEF ExecutePlan, OrderInv
        <4>2. books[best].bids[1] \in BookLevels /\ books[best].asks[1] \in BookLevels
          BY <4>1
        <4>3. books[best].bids[1].price \in Int /\ books[best].asks[1].price \in Int
          BY <4>2 DEF BookLevels
        <4> QED BY <4>3 DEF Guarded
      <3>4. /\ request'.amount = Amount /\ request'.tick = 0
            /\ request'.price = Guarded(books[best], side)
        BY <3>1 DEF NoRequest
      <3>5. /\ request'.amount \in Int /\ request'.price.value \in Int
            /\ request'.tick \in Int
        BY <3>3, <3>4, BotAssumption
      <3> QED BY <3>2, <3>5 DEF OrderInv, Stages
    <2> QED BY <2>1, <2>2
  <1> QED BY <1>1, <1>2, <1>3, <1>4

LEMMA OrderIsKnown == TradingSpec => []OrderInv
  <1>1. ASSUME TradingInit PROVE OrderInv
    <2>1. /\ request.amount \in Int /\ request.price.value \in Int /\ request.tick \in Int
      BY <1>1, RequestsAssumption DEF TradingInit, NoRequest
    <2>2. best \in Tokens /\ books \in [Tokens -> Markets]
      BY <1>1, BotAssumption DEF TradingInit, BuilderInit
    <2> QED BY <1>1, <2>1, <2>2 DEF TradingInit, BuilderInit, OrderInv, Stages
  <1>2. ASSUME OrderInv, [TradingNext]_tradingVars PROVE OrderInv'
    <2>1. CASE UNCHANGED tradingVars
      <3>1. /\ Rounded' = Rounded /\ Amounts' = Amounts /\ InBounds(Rounded)' = InBounds(Rounded)
            /\ Malformed' = Malformed /\ DividesByZero' = DividesByZero
        BY <2>1 DEF tradingVars, builderVars, found, outside, Rounded, Amounts, Truncated,
                    Truncate, InBounds, Malformed, IsMarket, DividesByZero
      <3>2. PriceFound' = PriceFound
        BY <2>1 DEF tradingVars, builderVars, found, outside, PriceFound, IsMarket, LastLevel,
                    Enough, Held, Worth
      <3>3. UNCHANGED <<request, market, tickCache, stage, tick, seen, price, order, books,
                        best, pc>>
        BY <2>1 DEF tradingVars, builderVars, found, outside, botVars
      <3>4. /\ stage = "built" =>
                   order' = [price |-> Rounded', maker |-> Amounts'.maker,
                             taker |-> Amounts'.taker]
            /\ stage \in {"price", "built"} => price \in Nat /\ (seen # <<>> => PriceFound')
        BY <1>2, <3>1, <3>2, <3>3 DEF OrderInv
      <3> QED BY <1>2, <3>1, <3>3, <3>4 DEF OrderInv
    <2> QED BY <1>2, <2>1, BuilderNextKeeps, BotNextKeeps DEF TradingNext
  <1> QED BY <1>1, <1>2, PTL DEF TradingSpec

-----------------------------------------------------------------------------
(* Decimals.                                                               *)

Steps == {1, 10, 100, 1000, 10000}

LEMMA ScaleIs ==
  ASSUME NEW t \in Int
  PROVE  10 ^ (4 - Scale(t)) \in Steps
  <1> DEFINE Power(k) == 10 ^ (4 - k)
             S == {k \in 0 .. 4 : t % Power(k) = 0}
  <1>1. /\ Power(0) = 10000 /\ Power(1) = 1000 /\ Power(2) = 100 /\ Power(3) = 10
        /\ Power(4) = 1
    OBVIOUS
  <1>2. Scale(t) = Min(S)
    BY DEF Scale
  <1>3. 10 ^ (4 - Scale(t)) = Power(Scale(t))
    OBVIOUS
  <1> HIDE DEF Power
  <1>4. Scale(t) \in S
    <2>1. S \in SUBSET Nat /\ S # {}
      <3>1. t % 1 = 0
        OBVIOUS
      <3> QED BY <1>1, <3>1
    <2> HIDE DEF S
    <2> QED BY <1>2, <2>1, MinIs
  <1>5. Scale(t) \in {0, 1, 2, 3, 4}
    BY <1>4
  <1> QED BY <1>1, <1>3, <1>5 DEF Steps

(* What is cut off is less than the step it is cut off at, and nothing of  *)
(* a multiple of the step.                                                 *)
LEMMA Truncates ==
  ASSUME NEW x \in Int, NEW step \in Steps
  PROVE  /\ Truncate(x, step) \in Int
         /\ 0 <= x - Truncate(x, step) /\ x - Truncate(x, step) < step
         /\ x >= 0 => Truncate(x, step) >= 0
         /\ \A a \in Int : Truncate(a * Truncate(x, step), step) = a * Truncate(x, step)
  <1> DEFINE y == Truncate(x, step)
             q == x \div step
  <1> USE DEF Steps
  <1>1. /\ q \in Int /\ y = q * step /\ x - y = x % step /\ x % step \in 0 .. step - 1
        /\ x >= 0 => y >= 0
    <2>1. CASE step = 1
      BY <2>1 DEF Truncate
    <2>2. CASE step = 10
      BY <2>2 DEF Truncate
    <2>3. CASE step = 100
      BY <2>3 DEF Truncate
    <2>4. CASE step = 1000
      BY <2>4 DEF Truncate
    <2>5. CASE step = 10000
      BY <2>5 DEF Truncate
    <2> QED BY <2>1, <2>2, <2>3, <2>4, <2>5
  <1>2. ASSUME NEW a \in Int PROVE Truncate(a * y, step) = a * y
    <2> DEFINE z == a * q
    <2>1. z \in Int /\ a * y = z * step
      BY <1>1
    <2> HIDE DEF z
    <2>2. /\ (z * 1) % 1 = 0 /\ (z * 10) % 10 = 0 /\ (z * 100) % 100 = 0
          /\ (z * 1000) % 1000 = 0 /\ (z * 10000) % 10000 = 0
      BY <2>1
    <2>3. (a * y) % step = 0
      BY <2>1, <2>2
    <2> QED BY <1>1, <2>1, <2>3 DEF Truncate
  <1> QED BY <1>1, <1>2

LEMMA DividedIs ==
  ASSUME NEW a \in Nat, NEW p \in Nat, p > 0
  PROVE  Divided(a, p) \in Int /\ p * Divided(a, p) <= a * Unit * Unit
  <1> DEFINE scaled == a * Unit
             q == scaled \div p
             r == scaled % p
             d == (r * Unit) \div p
  <1>1. scaled \in Nat /\ Unit = 10000
    BY DEF Unit
  <1>2. q \in Int /\ r \in Nat /\ p * q + r = scaled
    BY <1>1
  <1>3. r * Unit \in Nat
    BY <1>1, <1>2
  <1>4. d \in Int /\ p * d <= r * Unit
    BY <1>3
  <1>5. Divided(a, p) = q * Unit + d
    BY DEF Divided
  <1> HIDE DEF scaled, q, r, d
  <1>6. p * (q * Unit + d) = (p * q) * Unit + p * d
    BY <1>1, <1>2, <1>4
  <1>7. (p * q) * Unit + r * Unit = scaled * Unit
    BY <1>1, <1>2
  <1> QED BY <1>1, <1>2, <1>4, <1>5, <1>6, <1>7 DEF scaled

(* What is known of the numbers of an order that was built.                *)
LEMMA BuiltIs ==
  ASSUME OrderInv, stage = "built"
  PROVE  /\ request.amount \in Nat /\ request.amount > 0
         /\ price \in Nat /\ Rounded \in Nat /\ Rounded <= price
         /\ tick > 0 \/ request.kind = "usdc" => Rounded > 0
         /\ 10 ^ (4 - Scale(tick)) \in Steps
         /\ \A a \in Int : Truncated(a * Rounded) = a * Rounded
         /\ \A x \in Int : /\ Truncated(x) \in Int
                           /\ 0 <= x - Truncated(x)
                           /\ x - Truncated(x) < 10 ^ (4 - Scale(tick))
         /\ OnTick /\ PriceFound /\ seen # <<>> => Rounded = price
  <1> DEFINE step == 10 ^ (4 - Scale(tick))
  <1>1. /\ request.amount \in Nat /\ request.amount > 0 /\ price \in Nat
        /\ tick \in Int /\ tick <= Rounded
        /\ request.kind = "usdc" => Rounded # 0
    BY DEF OrderInv, Malformed, InBounds, DividesByZero
  <1>2. step \in Steps
    BY <1>1, ScaleIs
  <1>3. Rounded = Truncate(price, step) /\ \A x : Truncated(x) = Truncate(x, step)
    BY DEF Rounded, Truncated
  <1> HIDE DEF step
  <1>a. ASSUME NEW x \in Int
        PROVE  /\ Truncate(x, step) \in Int
               /\ 0 <= x - Truncate(x, step) /\ x - Truncate(x, step) < step
               /\ x >= 0 => Truncate(x, step) >= 0
               /\ \A a \in Int : Truncate(a * Truncate(x, step), step) = a * Truncate(x, step)
    <2>1. step \in Steps
      BY <1>2
    <2> QED BY <2>1, Truncates, Zenon
  <1>4. Rounded \in Int /\ 0 <= price - Rounded /\ Rounded >= 0
    <2>1. /\ Truncate(price, step) \in Int /\ 0 <= price - Truncate(price, step)
          /\ Truncate(price, step) >= 0
      <3>1. price \in Int /\ price >= 0
        BY <1>1
      <3> QED BY <1>a, <3>1, Zenon
    <2> QED BY <1>3, <2>1
  <1>6. ASSUME NEW a \in Int PROVE Truncated(a * Rounded) = a * Rounded
    <2>1. price \in Int
      BY <1>1
    <2>2. Truncate(a * Truncate(price, step), step) = a * Truncate(price, step)
      BY <1>a, <2>1, Zenon
    <2> QED BY <1>3, <2>2, Zenon
  <1>7. ASSUME NEW x \in Int
        PROVE  /\ Truncated(x) \in Int
               /\ 0 <= x - Truncated(x) /\ x - Truncated(x) < step
    <2>1. Truncated(x) = Truncate(x, step)
      BY <1>3
    <2>2. /\ Truncate(x, step) \in Int
          /\ 0 <= x - Truncate(x, step) /\ x - Truncate(x, step) < step
      BY <1>a
    <2> QED BY <2>1, <2>2
  <1>8. ASSUME OnTick, PriceFound, seen # <<>> PROVE Rounded = price
    <2>1. seen \in Seq(BookLevels)
      BY <1>8, MarketsAssumption DEF PriceFound
    <2>2. LastLevel(seen) \in DOMAIN seen
      BY <1>8, <2>1, LastIs
    <2>3. price % step = 0
      BY <1>8, <2>2 DEF OnTick, PriceFound, step
    <2>4. Truncate(price, step) = price
      BY <1>1, <2>3 DEF Truncate
    <2> QED BY <1>3, <2>4, Zenon
  <1>9. /\ Rounded \in Nat /\ Rounded <= price
        /\ tick > 0 \/ request.kind = "usdc" => Rounded > 0
    BY <1>1, <1>4
  <1>10. request.amount \in Nat /\ request.amount > 0 /\ price \in Nat
    BY <1>1
  <1> QED BY <1>2, <1>6, <1>7, <1>8, <1>9, <1>10, Zenon DEF step

(* Rounding does not change the price of an order, or only by what an      *)
(* order for an amount of USDC must lose, whatever the tick size found is. *)
THEOREM RoundingKeepsPrice == TradingSpec => []AmountsKeepPrice
  <1>1. ASSUME OrderInv PROVE AmountsKeepPrice
    <2> SUFFICES ASSUME stage = "built"
                 PROVE  /\ tick > 0 \/ request.kind = "usdc" => order.price > 0
                        /\ IF request.kind # "usdc"
                           THEN LET cash == IF request.side = "BUY" THEN order.maker
                                                                    ELSE order.taker
                                    shares == IF request.side = "BUY" THEN order.taker
                                                                      ELSE order.maker
                                IN  /\ cash = request.amount * order.price
                                    /\ shares = request.amount * Unit
                           ELSE LET left == Divided(request.amount, order.price) - order.taker
                                IN  0 <= left /\ left < 10 ^ (4 - Scale(tick))
      BY DEF AmountsKeepPrice
    <2>1. /\ request.amount \in Nat /\ request.amount > 0 /\ Rounded \in Nat
          /\ tick > 0 \/ request.kind = "usdc" => Rounded > 0
          /\ 10 ^ (4 - Scale(tick)) \in Steps
          /\ \A a \in Int : Truncated(a * Rounded) = a * Rounded
          /\ \A x \in Int : /\ Truncated(x) \in Int
                            /\ 0 <= x - Truncated(x)
                            /\ x - Truncated(x) < 10 ^ (4 - Scale(tick))
      BY <1>1, BuiltIs
    <2>2. order.price = Rounded /\ order.maker = Amounts.maker /\ order.taker = Amounts.taker
      BY <1>1 DEF OrderInv
    <2>3. CASE request.kind # "usdc"
      <3>1. Truncated(request.amount * Rounded) = request.amount * Rounded
        <4>1. request.amount \in Int
          BY <2>1
        <4> QED BY <2>1, <4>1, Zenon
      <3>2. order.price > 0 \/ ~(tick > 0)
        BY <2>1, <2>2, <2>3
      <3>3. CASE request.side = "BUY"
        <4>1. order.maker = request.amount * Rounded /\ order.taker = request.amount * Unit
          BY <2>2, <2>3, <3>1, <3>3 DEF Amounts
        <4> QED BY <2>2, <2>3, <3>2, <3>3, <4>1, Zenon
      <3>4. CASE request.side # "BUY"
        <4>1. order.taker = request.amount * Rounded /\ order.maker = request.amount * Unit
          BY <2>2, <2>3, <3>1, <3>4 DEF Amounts
        <4> QED BY <2>2, <2>3, <3>2, <3>4, <4>1, Zenon
      <3> QED BY <3>3, <3>4
    <2>4. CASE request.kind = "usdc"
      <3>1. Divided(request.amount, Rounded) \in Int
        BY <2>1, <2>4, DividedIs
      <3>2. order.taker = Truncated(Divided(request.amount, Rounded))
        BY <2>2, <2>4 DEF Amounts
      <3> DEFINE D == Divided(request.amount, Rounded)
      <3>3. /\ 0 <= D - Truncated(D)
            /\ D - Truncated(D) < 10 ^ (4 - Scale(tick))
        BY <2>1, <3>1
      <3>4. order.price > 0
        BY <2>1, <2>2, <2>4
      <3> HIDE DEF D
      <3>5. D = Divided(request.amount, order.price) /\ order.taker = Truncated(D)
        BY <2>2, <3>2 DEF D
      <3> QED BY <2>4, <3>3, <3>4, <3>5, Zenon
    <2> QED BY <2>3, <2>4
  <1> QED BY <1>1, OrderIsKnown, PTL

-----------------------------------------------------------------------------
(* The price taken from the book.                                          *)

(* The levels from the one the walk stopped at are at its price or better, *)
(* the ones before it at its price or worse.                               *)
LEMMA BookIs ==
  ASSUME OrderInv, stage \in {"price", "built"}, seen # <<>>
  PROVE  /\ Len(seen) \in Nat /\ DOMAIN seen = 1 .. Len(seen)
         /\ \A i \in DOMAIN seen : seen[i].price \in Nat /\ seen[i].size \in Nat
         /\ LastLevel(seen) \in DOMAIN seen /\ price = seen[LastLevel(seen)].price
         /\ request.side \in {"BUY", "SELL"} /\ request.amount \in Nat /\ request.amount > 0
         /\ \A i \in DOMAIN seen :
                IF request.side = "BUY"
                THEN /\ i <= LastLevel(seen) => seen[i].price >= price
                     /\ LastLevel(seen) <= i => seen[i].price <= price
                ELSE /\ i <= LastLevel(seen) => seen[i].price <= price
                     /\ LastLevel(seen) <= i => seen[i].price >= price
  <1>1. PriceFound /\ ~Malformed /\ request.amount \in Int
    BY DEF OrderInv
  <1>2. PICK m \in Markets : seen = IF request.side = "BUY" THEN m.asks ELSE m.bids
    BY <1>1 DEF PriceFound
  <1>3. seen \in Seq(BookLevels)
    BY <1>2, MarketsAssumption
  <1>4. \A i \in DOMAIN seen : seen[i].price \in Nat /\ seen[i].size \in Nat
    <2>1. \A i \in DOMAIN seen : seen[i] \in BookLevels
      BY <1>3
    <2> QED BY <2>1 DEF BookLevels
  <1>5. LastLevel(seen) \in DOMAIN seen /\ price = seen[LastLevel(seen)].price
    BY <1>1, <1>3, LastIs DEF PriceFound
  <1>6. \A i, j \in DOMAIN seen :
            i <= j => IF request.side = "BUY" THEN seen[i].price >= seen[j].price
                                              ELSE seen[i].price <= seen[j].price
    BY <1>2, MarketsAssumption
  <1>7. request.side \in {"BUY", "SELL"} /\ request.amount \in Nat /\ request.amount > 0
    BY <1>1 DEF Malformed
  <1> QED BY <1>3, <1>4, <1>5, <1>6, <1>7

LEMMA EnoughIs ==
  ASSUME OrderInv, stage \in {"price", "built"}, seen # <<>>
  PROVE  /\ \A i \in Enough(seen) : i <= LastLevel(seen)
         /\ request.type = "FOK" => LastLevel(seen) \in Enough(seen)
  <1>1. PriceFound
    BY DEF OrderInv
  <1>2. seen \in Seq(BookLevels)
    BY <1>1, MarketsAssumption DEF PriceFound
  <1> QED BY <1>1, <1>2, LastIs DEF PriceFound

(* What the levels hold is what they hold one by one.                      *)
LEMMA WorthIs ==
  ASSUME NEW levels, Len(levels) \in Nat, DOMAIN levels = 1 .. Len(levels),
         \A i \in DOMAIN levels : levels[i].price \in Nat /\ levels[i].size \in Nat
  PROVE  LET worth == [j \in DOMAIN levels |-> Worth(levels[j])]
         IN  /\ worth \in [1 .. Len(levels) -> Int]
             /\ \A j \in 1 .. Len(levels) : worth[j] >= 0
             /\ \A i : Held(levels, i) = SumFrom(worth, i)
  <1>1. \A i \in DOMAIN levels : Worth(levels[i]) \in Nat
    BY DEF Worth, Unit
  <1> QED BY <1>1 DEF Held

(* A market order is priced no worse than the book that was read needs.    *)
THEOREM PriceIsNoWorse == TradingSpec => []NoWorseThanNeeded
  <1>1. ASSUME OrderInv PROVE NoWorseThanNeeded
    <2> DEFINE better(l) == IF request.side = "BUY" THEN l.price < price ELSE l.price > price
               worth == [j \in DOMAIN seen |-> Worth(seen[j])]
               kept == [j \in DOMAIN seen |-> IF better(seen[j]) THEN Worth(seen[j]) ELSE 0]
               L == LastLevel(seen)
               n == Len(seen)
    <2> SUFFICES ASSUME stage = "built", seen # <<>>
                 PROVE  SumFrom(kept, 1) < request.amount * Unit
      BY DEF NoWorseThanNeeded
    <2>1. /\ n \in Nat /\ DOMAIN seen = 1 .. n /\ L \in 1 .. n
          /\ \A i \in DOMAIN seen : seen[i].price \in Nat /\ seen[i].size \in Nat
          /\ request.amount \in Nat /\ request.amount > 0
          /\ \A i \in DOMAIN seen : i <= L => ~better(seen[i])
      BY <1>1, BookIs
    <2>2. /\ worth \in [1 .. n -> Int] /\ \A j \in 1 .. n : worth[j] >= 0
          /\ \A i : Held(seen, i) = SumFrom(worth, i)
      BY <2>1, WorthIs
    <2>3. /\ kept \in [1 .. n -> Int]
          /\ \A j \in 1 .. n : kept[j] <= worth[j]
          /\ \A j \in 1 .. L : kept[j] = 0
      <3>1. \A j \in 1 .. n : worth[j] = Worth(seen[j]) /\ worth[j] \in Int
        BY <2>1, <2>2
      <3>2. \A j \in 1 .. n : kept[j] = IF better(seen[j]) THEN worth[j] ELSE 0
        BY <2>1, <3>1
      <3>3. \A j \in 1 .. L : j \in 1 .. n /\ ~better(seen[j])
        BY <2>1
      <3> HIDE DEF better, worth
      <3>4. \A j \in 1 .. n : kept[j] \in Int /\ kept[j] <= worth[j]
        BY <2>2, <3>1, <3>2
      <3>5. kept \in [1 .. n -> Int]
        BY <2>1, <3>4
      <3> QED BY <3>2, <3>3, <3>4, <3>5
    <2> HIDE DEF worth, kept, L, n, better
    <2>4. L + 1 \in 1 .. n + 1 /\ (L + 1) - 1 = L
      BY <2>1
    <2>5. SumFrom(kept, 1) = SumFrom(kept, L + 1)
      BY <2>1, <2>3, <2>4, SumSkips
    <2>6. /\ SumFrom(kept, L + 1) \in Int /\ SumFrom(worth, L + 1) \in Int
          /\ SumFrom(kept, L + 1) <= SumFrom(worth, L + 1)
      BY <2>1, <2>2, <2>3, <2>4, SumKeepsOrder
    <2>7. SumFrom(worth, L + 1) < request.amount * Unit
      <3>1. CASE L + 1 \in DOMAIN seen
        <4>1. L + 1 \notin Enough(seen)
          BY <1>1, <2>1, EnoughIs DEF L
        <4> QED BY <2>1, <2>2, <2>6, <3>1, <4>1 DEF Enough, Unit
      <3>2. CASE L + 1 \notin DOMAIN seen
        <4>1. L + 1 = n + 1 /\ Len(worth) = n /\ worth \in Seq(Int)
          BY <2>1, <2>2, <3>2
        <4>2. SumFrom(worth, L + 1) = 0
          BY <4>1, SumIs
        <4> QED BY <2>1, <4>2 DEF Unit
      <3> QED BY <3>1, <3>2
    <2> QED BY <2>5, <2>6, <2>7, <2>1 DEF Unit
  <1> QED BY <1>1, OrderIsKnown, PTL

(* A fill-or-kill order at a price from the book can be filled by it.      *)
THEOREM FillOrKillCanFill == TradingSpec => []FokCanFill
  <1>1. ASSUME OrderInv PROVE FokCanFill
    <2> DEFINE within(l) == IF request.side = "BUY" THEN l.price <= order.price
                                                    ELSE l.price >= order.price
               worth == [j \in DOMAIN seen |-> Worth(seen[j])]
               shares == [j \in DOMAIN seen |-> IF within(seen[j]) THEN seen[j].size * Unit
                                                                   ELSE 0]
               L == LastLevel(seen)
               n == Len(seen)
               p == order.price
    <2> SUFFICES ASSUME stage = "built", seen # <<>>, request.type = "FOK",
                        OnTick \/ request.side = "SELL"
                 PROVE  SumFrom(shares, 1) >= IF request.side = "BUY" THEN order.taker
                                                                     ELSE order.maker
      BY DEF FokCanFill, SharesAt
    <2>1. /\ n \in Nat /\ DOMAIN seen = 1 .. n /\ L \in 1 .. n
          /\ \A i \in DOMAIN seen : seen[i].price \in Nat /\ seen[i].size \in Nat
          /\ request.side \in {"BUY", "SELL"}
          /\ request.amount \in Nat /\ request.amount > 0
      BY <1>1, BookIs
    <2>2. order.price = Rounded /\ order.maker = Amounts.maker /\ order.taker = Amounts.taker
      BY <1>1 DEF OrderInv
    <2>3. /\ p \in Nat /\ (request.kind = "usdc" => p > 0) /\ price \in Nat /\ p <= price
          /\ OnTick => p = price
      <3>1. PriceFound
        BY <1>1 DEF OrderInv
      <3> QED BY <1>1, <2>2, <3>1, BuiltIs
    <2>4. ASSUME NEW i \in L .. n PROVE within(seen[i])
      <3>1. i \in DOMAIN seen /\ seen[i].price \in Nat /\ L <= i
        BY <2>1
      <3>2. IF request.side = "BUY" THEN seen[i].price <= price ELSE seen[i].price >= price
        BY <1>1, <3>1, BookIs
      <3> QED BY <2>3, <3>1, <3>2
    <2>5. /\ worth \in [1 .. n -> Int]
          /\ \A i : Held(seen, i) = SumFrom(worth, i)
          /\ \A j \in 1 .. n : worth[j] = Worth(seen[j])
      BY <2>1, WorthIs
    <2>6. /\ shares \in [1 .. n -> Int] /\ \A j \in 1 .. n : shares[j] >= 0
          /\ \A j \in L .. n : shares[j] = seen[j].size * Unit
      BY <2>1, <2>4 DEF Unit
    <2> HIDE DEF worth, shares, L, n, p, within
    <2>7. SumFrom(shares, 1) \in Int
      <3>1. 1 \in 1 .. n + 1 /\ \A j \in 1 .. n : shares[j] <= shares[j]
        BY <2>1, <2>6
      <3> QED BY <2>1, <2>6, <3>1, SumKeepsOrder
    <2>8. /\ SumFrom(shares, 1) >= SumFrom(shares, L)
      <3>1. L \in 1 .. n + 1 /\ \A j \in 1 .. L - 1 : shares[j] >= 0
        BY <2>1, <2>6
      <3> QED BY <2>1, <2>6, <3>1, SumSkips
    <2>9. L \in 1 .. n + 1 /\ SumFrom(worth, L) >= request.amount * Unit
      <3>1. L \in Enough(seen)
        BY <1>1, EnoughIs DEF L
      <3> QED BY <2>1, <2>5, <3>1 DEF Enough
    <2>10. CASE request.kind # "usdc"
      <3>1. \A j \in L .. n : 1 * worth[j] <= 1 * shares[j]
        <4> SUFFICES ASSUME NEW j \in L .. n PROVE 1 * worth[j] <= 1 * shares[j]
          OBVIOUS
        <4>1. j \in 1 .. n
          BY <2>1
        <4>2. worth[j] = seen[j].size * Unit
          BY <2>5, <2>10, <4>1 DEF Worth
        <4>3. worth[j] = shares[j] /\ worth[j] \in Int
          BY <2>5, <2>6, <4>1, <4>2
        <4> QED BY <4>3
      <3>2. /\ SumFrom(worth, L) \in Int /\ SumFrom(shares, L) \in Int
            /\ 1 * SumFrom(worth, L) <= 1 * SumFrom(shares, L)
        BY <2>1, <2>5, <2>6, <2>9, <3>1, 1 \in Int, SumCompare, Zenon
      <3>3. request.amount * Unit = IF request.side = "BUY" THEN order.taker ELSE order.maker
        BY <2>1, <2>2, <2>10 DEF Amounts
      <3>4. request.amount * Unit \in Int
        BY <2>1 DEF Unit
      <3> QED BY <2>7, <2>8, <2>9, <3>2, <3>3, <3>4
    <2>11. CASE request.kind = "usdc"
      <3> DEFINE D == Divided(request.amount, p)
                 S == SumFrom(shares, L)
                 W == SumFrom(worth, L)
      <3>1. request.side = "BUY" /\ p = price /\ p > 0
        BY <1>1, <2>3, <2>11 DEF OrderInv, Malformed
      <3>2. ASSUME NEW j \in L .. n PROVE Unit * worth[j] <= p * shares[j]
        <4> DEFINE size == seen[j].size
                   q == seen[j].price
        <4>1. j \in 1 .. n /\ size \in Nat /\ q \in Nat /\ q <= p
          <5>1. j \in DOMAIN seen /\ LastLevel(seen) <= j
            BY <2>1 DEF L
          <5> QED BY <1>1, <2>1, <3>1, <5>1, BookIs
        <4>2. worth[j] = size * q /\ shares[j] = size * Unit
          BY <2>5, <2>6, <2>11, <4>1 DEF Worth
        <4> HIDE DEF size, q
        <4>3. size * q <= size * p
          BY <2>3, <4>1
        <4>4. Unit * (size * q) <= Unit * (size * p)
          BY <2>3, <4>1, <4>3 DEF Unit
        <4>5. p * (size * Unit) = Unit * (size * p)
          BY <2>3, <4>1 DEF Unit
        <4> QED BY <4>2, <4>4, <4>5
      <3>3. W \in Int /\ S \in Int /\ Unit * W <= p * S
        <4>1. Unit \in Int /\ p \in Int
          BY <2>3 DEF Unit
        <4> QED BY <2>1, <2>5, <2>6, <2>9, <3>2, <4>1, SumCompare, Zenon
      <3>4. D \in Int /\ p * D <= request.amount * Unit * Unit
        BY <2>1, <2>3, <3>1, DividedIs
      <3>5. order.taker \in Int /\ order.taker <= D
        <4>1. order.taker = Truncated(D)
          BY <2>2, <2>11 DEF Amounts, p
        <4>2. Truncated(D) \in Int /\ 0 <= D - Truncated(D)
          BY <1>1, <3>4, BuiltIs
        <4> QED BY <3>4, <4>1, <4>2
      <3>6. D <= S
        <4> HIDE DEF D, S, W
        <4>1. request.amount * Unit * Unit <= Unit * W
          BY <2>1, <2>9, <3>3 DEF Unit, W
        <4>2. p * D <= p * S
          BY <2>1, <2>3, <3>1, <3>3, <3>4, <4>1 DEF Unit
        <4>3. ASSUME S + 1 <= D PROVE p * (S + 1) <= p * D
          BY <2>3, <3>1, <3>3, <3>4, <4>3
        <4>4. p * (S + 1) = p * S + p
          BY <2>3, <3>3
        <4> QED BY <2>3, <3>1, <3>3, <3>4, <4>2, <4>3, <4>4
      <3> QED BY <2>7, <2>8, <3>1, <3>3, <3>4, <3>5, <3>6
    <2> QED BY <2>10, <2>11
  <1> QED BY <1>1, OrderIsKnown, PTL

=============================================================================
