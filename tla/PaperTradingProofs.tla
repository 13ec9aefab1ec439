-------------------------- MODULE PaperTradingProofs --------------------------
(***************************************************************************)
(* The account of PaperTrading, for any prices, quantities, barriers, fees *)
(* and limits: the books balance, the account is never overdrawn, it is    *)
(* flat once the daily loss limit was reached, and a backtest enters none  *)
(* past the limit and leaves none by a barrier on the candle of its entry. *)
(***************************************************************************)
EXTENDS PaperTrading, TLAPS

Accounts ==
    [cash : Nat, dayStart : Nat, dayEquity : Int, pnl : Int, entryFees : Int, wins : Nat,
     pos : Position]

\* An account in order: typed, not overdrawn, its books balanced.
Orderly(b) ==
    /\ b \in Accounts
    /\ b.cash = InitialCash * Unit + b.pnl - b.entryFees - b.pos.cost

\* The account's day is the clock's; beyond the limit it holds only cash, too little.
DayOK ==
    /\ broker.dayStart = clock.day
    /\ broker.dayEquity = morning
    /\ reached => ~Open(broker) /\ Beyond(morning, broker.cash)

IInv ==
    /\ TypeOK
    /\ clock.bar <= clock.pass
    /\ Orderly(broker)
    /\ DayOK

-----------------------------------------------------------------------------
(* Money                                                                    *)

\* Products of natural numbers are natural numbers and grow with their factors.
LEMMA NatTimes == \A a, b \in Nat : a * b \in Nat
  OBVIOUS

\* A product grows with its factor.
LEMMA TimesGrows == \A a, b, c \in Nat : a <= b => a * c <= b * c
  OBVIOUS

\* The parameters are natural numbers.
LEMMA Parameters ==
    /\ Scale \in Nat /\ Scale > 0 /\ MaxLoss \in Nat /\ MaxLoss > 0
    /\ InitialCash \in Nat /\ InitialCash > 0
    /\ FeeRate \in Nat /\ FeeRate <= Scale
    /\ Slippage \in Nat /\ Slippage <= Scale
    /\ Scale - Slippage \in Nat /\ Scale - Slippage <= Scale
    /\ Unit \in Nat
<1>1. /\ Scale \in Nat /\ Scale > 0 /\ MaxLoss \in Nat /\ MaxLoss > 0
      /\ InitialCash \in Nat /\ InitialCash > 0
      /\ FeeRate \in 0..Scale /\ Slippage \in 0..Scale
  BY ConfigAssumption
<1>2. Scale * Scale \in Nat /\ (Scale * Scale) * Scale \in Nat
  BY <1>1, NatTimes
<1> QED
  BY <1>1, <1>2 DEF Unit

\* What an entry takes from the cash.
LEMMA EntryMoney ==
    ASSUME NEW q \in Nat, NEW mark \in Nat
    PROVE  /\ EntryPrice(mark) \in Nat
           /\ EntryCost(q, mark) \in Nat
           /\ EntryFee(q, mark) \in Nat
<1>1. EntryPrice(mark) \in Nat
  BY Parameters, NatTimes DEF EntryPrice
<1>2. EntryPrice(mark) * q \in Nat /\ (EntryPrice(mark) * q) * Scale \in Nat
  BY <1>1, Parameters, NatTimes
<1>3. /\ ((EntryPrice(mark) * q) * Scale) * Scale \in Nat
      /\ ((EntryPrice(mark) * q) * Scale) * FeeRate \in Nat
  BY <1>2, Parameters, NatTimes
<1> QED
  BY <1>1, <1>3 DEF EntryCost, EntryFee

\* What an exit brings: the fee is a part of the proceeds.
LEMMA ExitMoney ==
    ASSUME NEW q \in Nat, NEW price \in Nat
    PROVE  /\ Proceeds(q, price) \in Nat
           /\ ExitFee(q, price) \in Nat
           /\ ExitFee(q, price) <= Proceeds(q, price)
<1> DEFINE a == (price * (Scale - Slippage)) * q
<1>1. price * (Scale - Slippage) \in Nat /\ a \in Nat
  BY Parameters, NatTimes
<1>2. a * Scale \in Nat /\ a * FeeRate \in Nat
  BY <1>1, Parameters, NatTimes
<1>3. FeeRate * a <= Scale * a
  BY <1>1, Parameters, TimesGrows
<1>4. FeeRate * a = a * FeeRate /\ Scale * a = a * Scale
  BY <1>1, Parameters
<1> QED
  BY <1>2, <1>3, <1>4 DEF Proceeds, ExitFee

\* A sale at the mark brings no more than the position was worth at it.
LEMMA SaleLoses ==
    ASSUME NEW q \in Nat, NEW mark \in Nat
    PROVE  /\ Value(q, mark) \in Nat
           /\ Proceeds(q, mark * Scale) - ExitFee(q, mark * Scale) <= Value(q, mark)
<1> DEFINE p == mark * Scale
           d == Scale - Slippage
<1>1. /\ p \in Nat /\ d \in Nat /\ d <= Scale
      /\ p * d \in Nat /\ p * Scale \in Nat /\ q * mark \in Nat
  BY Parameters, NatTimes
<1>2. p * d <= p * Scale
  <2>1. d * p <= Scale * p
    BY <1>1, Parameters, TimesGrows
  <2> HIDE DEF p, d
  <2> QED
    BY <2>1, <1>1, Parameters
<1>3. (p * d) * q <= (p * Scale) * q
  BY <1>1, <1>2, TimesGrows
<1>4. ((p * d) * q) * Scale <= ((p * Scale) * q) * Scale
  BY <1>1, <1>3, Parameters, NatTimes, TimesGrows
<1>5. ((p * Scale) * q) * Scale = (q * mark) * ((Scale * Scale) * Scale)
  BY <1>1, Parameters
<1>6. Value(q, mark) \in Nat
  BY <1>1, Parameters, NatTimes DEF Value
<1>7. ExitFee(q, p) \in Nat /\ Proceeds(q, p) \in Nat
  BY <1>1, ExitMoney
<1>8. Proceeds(q, p) <= Value(q, mark)
  BY <1>4, <1>5 DEF Proceeds, Value, Unit
<1> QED
  BY <1>6, <1>7, <1>8

\* Less cash is not less beyond the limit.
LEMMA BeyondGrows ==
    ASSUME NEW a \in Int, NEW b \in Int, NEW c \in Int, b <= c, Beyond(a, c)
    PROVE  Beyond(a, b)
<1>1. a > 0 /\ (a - c) * Scale >= MaxLoss * a
  BY DEF Beyond
<1>2. (a - b) * Scale >= (a - c) * Scale
  <2>1. (c - b) * Scale \in Nat
    BY Parameters, NatTimes
  <2>2. (a - b) * Scale = (a - c) * Scale + (c - b) * Scale
    BY Parameters
  <2> HIDE DEF Beyond
  <2>3. (a - c) * Scale \in Int
    BY Parameters
  <2> QED
    BY <2>1, <2>2, <2>3
<1>3. (a - b) * Scale \in Int /\ (a - c) * Scale \in Int /\ MaxLoss * a \in Int
  BY Parameters
<1> QED
  BY <1>1, <1>2, <1>3 DEF Beyond

-----------------------------------------------------------------------------
(* The operations of the broker                                             *)

\* The fields of an account in order, and what its position is.
LEMMA AccountFields ==
    ASSUME NEW b, Orderly(b)
    PROVE  /\ b = [cash |-> b.cash, dayStart |-> b.dayStart, dayEquity |-> b.dayEquity,
                   pnl |-> b.pnl, entryFees |-> b.entryFees, wins |-> b.wins,
                   pos |-> b.pos]
           /\ b.cash \in Nat /\ b.dayStart \in Nat /\ b.dayEquity \in Int
           /\ b.pnl \in Int /\ b.entryFees \in Int /\ b.wins \in Nat
           /\ b.pos \in Position
           /\ b.pos.qty \in Nat /\ b.pos.cost \in Nat
           /\ b.pos.stop \in Int /\ b.pos.target \in Nat
           /\ ~Open(b) => b.pos = Flat
<1>1. b \in Accounts
  BY DEF Orderly
<1>2. /\ b = [cash |-> b.cash, dayStart |-> b.dayStart, dayEquity |-> b.dayEquity,
              pnl |-> b.pnl, entryFees |-> b.entryFees, wins |-> b.wins,
              pos |-> b.pos]
      /\ b.cash \in Nat /\ b.dayStart \in Nat /\ b.dayEquity \in Int
      /\ b.pnl \in Int /\ b.entryFees \in Int /\ b.wins \in Nat
      /\ b.pos \in Position
  BY <1>1 DEF Accounts
<1>3. CASE b.pos = Flat
  BY <1>2, <1>3 DEF Flat
<1>4. CASE b.pos \in [qty : Quantities, cost : Nat, stop : Int, target : Nat,
                     bar : 1..LastPass]
  BY <1>2, <1>4, MarketAssumption DEF Open
<1> QED
  BY <1>2, <1>3, <1>4 DEF Position

\* The equity at a price is an amount.
LEMMA EquityMoney ==
    ASSUME NEW b, Orderly(b), NEW mark \in Nat
    PROVE  Equity(b, mark) \in Int
<1>1. b.cash \in Nat /\ b.pos.qty \in Nat
  BY AccountFields
<1>2. Value(b.pos.qty, mark) \in Nat
  BY <1>1, SaleLoses
<1> QED
  BY <1>1, <1>2 DEF Equity

\* A new day changes neither cash nor position, and begins at the equity of the mark.
LEMMA RollKeeps ==
    ASSUME NEW b, Orderly(b), NEW day \in Nat, NEW mark \in Nat
    PROVE  LET r == RollDay(b, day, mark)
           IN  /\ Orderly(r)
               /\ r.cash = b.cash /\ r.pos = b.pos
               /\ r.dayStart = day
               /\ b.dayStart = day => r.dayEquity = b.dayEquity
               /\ b.dayStart # day => r.dayEquity = Equity(b, mark)
<1>1. CASE b.dayStart = day
  BY <1>1 DEF RollDay
<1>2. CASE b.dayStart # day
  <2> DEFINE e == Equity(b, mark)
             r == [b EXCEPT !.dayStart = day, !.dayEquity = e]
  <2>1. e \in Int
    BY EquityMoney
  <2>2. RollDay(b, day, mark) = r
    BY <1>2 DEF RollDay
  <2> HIDE DEF e
  <2>3. /\ r \in Accounts
        /\ r.cash = b.cash /\ r.pos = b.pos /\ r.pnl = b.pnl
        /\ r.entryFees = b.entryFees /\ r.dayStart = day /\ r.dayEquity = e
    BY <2>1, AccountFields DEF Orderly, Accounts
  <2>4. Orderly(r)
    BY <2>3 DEF Orderly
  <2> QED
    BY <1>2, <2>2, <2>3, <2>4 DEF e
<1> QED
  BY <1>1, <1>2

\* An exit leaves an account in order and flat, with what the sale brought in cash.
LEMMA CloseKeeps ==
    ASSUME NEW b, Orderly(b), NEW price \in Nat
    PROVE  LET c == CloseLong(b, price)
           IN  /\ Orderly(c)
               /\ ~Open(c)
               /\ c.dayStart = b.dayStart /\ c.dayEquity = b.dayEquity
               /\ ~Open(b) => c = b
               /\ Open(b) => c.cash = b.cash + (Proceeds(b.pos.qty, price)
                                               - ExitFee(b.pos.qty, price))
<1>1. CASE ~Open(b)
  BY <1>1 DEF CloseLong
<1>2. CASE Open(b)
  <2> DEFINE net == Proceeds(b.pos.qty, price) - ExitFee(b.pos.qty, price)
             won == IF net > b.pos.cost THEN 1 ELSE 0
             c   == [b EXCEPT !.cash = @ + net, !.pos = Flat,
                              !.pnl = @ + (net - b.pos.cost), !.wins = @ + won]
  <2>1. net \in Nat
    BY AccountFields, ExitMoney
  <2>2. won \in Nat
    OBVIOUS
  <2>3. CloseLong(b, price) = c
    BY <1>2 DEF CloseLong
  <2> HIDE DEF net, won
  <2>4. Flat \in Position
    BY DEF Position
  <2>5. /\ c.cash = b.cash + net /\ c.pos = Flat /\ c.pnl = b.pnl + (net - b.pos.cost)
        /\ c.entryFees = b.entryFees
        /\ c.dayStart = b.dayStart /\ c.dayEquity = b.dayEquity
    BY AccountFields DEF Orderly, Accounts
  <2>6. c \in Accounts
    <3>1. /\ b.cash + net \in Nat /\ b.pnl + (net - b.pos.cost) \in Int
          /\ b.wins + won \in Nat
      BY <2>1, <2>2, AccountFields
    <3>2. b \in Accounts
      BY DEF Orderly
    <3> QED
      BY <2>4, <3>1, <3>2 DEF Accounts
  <2>7. InitialCash * Unit \in Int
    BY Parameters, NatTimes
  <2>8. c.cash = InitialCash * Unit + c.pnl - c.entryFees - c.pos.cost
    <3> DEFINE start == InitialCash * Unit
    <3>1. b.cash = start + b.pnl - b.entryFees - b.pos.cost
      BY DEF Orderly
    <3>2. c.pos.cost = 0
      BY <2>5 DEF Flat
    <3> HIDE DEF start, c
    <3>3. start \in Int
      BY <2>7 DEF start
    <3>4. c.cash = start + c.pnl - c.entryFees - c.pos.cost
      BY <2>1, <2>5, <3>1, <3>2, <3>3, AccountFields
    <3> QED
      BY <3>4 DEF start
  <2>9. ~Open(c)
    BY <2>5 DEF Open, Flat
  <2> QED
    BY <1>2, <2>3, <2>5, <2>6, <2>8, <2>9 DEF Orderly, net
<1> QED
  BY <1>1, <1>2

\* A candle's prices are amounts.
LEMMA CandlePrices ==
    ASSUME NEW c \in Candles
    PROVE  c.high \in Nat /\ c.low \in Nat /\ c.close \in Nat
  BY MarketAssumption DEF Candles

\* The barriers leave an account in order; a stop that is hit is not below zero.
LEMMA BarriersKeep ==
    ASSUME NEW b, Orderly(b), NEW c \in Candles
    PROVE  LET k == CheckBarriers(b, c)
           IN  /\ Orderly(k)
               /\ k.dayStart = b.dayStart /\ k.dayEquity = b.dayEquity
               /\ ~Open(b) => k = b
<1>1. CASE HitsTarget(b, c)
  <2>1. b.pos.target \in Nat
    BY AccountFields
  <2>2. CheckBarriers(b, c) = CloseLong(b, b.pos.target)
    BY <1>1 DEF CheckBarriers
  <2> QED
    BY <2>1, <2>2, CloseKeeps
<1>2. CASE HitsStop(b, c)
  <2>1. /\ ~HitsTarget(b, c)
        /\ c.low * Scale <= b.pos.stop
    BY <1>2 DEF HitsStop
  <2>2. c.low * Scale \in Nat
    BY CandlePrices, Parameters, NatTimes
  <2>3. b.pos.stop \in Int
    BY AccountFields
  <2>4. b.pos.stop \in Nat
    BY <2>1, <2>2, <2>3
  <2>5. CheckBarriers(b, c) = CloseLong(b, b.pos.stop)
    BY <1>2, <2>1 DEF CheckBarriers
  <2> QED
    BY <2>4, <2>5, CloseKeeps
<1>3. CASE ~Hit(b, c)
  BY <1>3 DEF CheckBarriers, Hit
<1> QED
  BY <1>1, <1>2, <1>3 DEF Hit

\* An entry the account can pay for, into a flat account, leaves it in order.
LEMMA EntryKeeps ==
    ASSUME NEW b, Orderly(b), ~Open(b),
           NEW bar \in 1..LastPass, NEW mark \in Nat,
           NEW wish \in Wishes, wish.action = "buy",
           Affordable(b, wish.qty, mark)
    PROVE  LET o == OpenLong(b, bar, mark, wish.qty, wish.dist)
           IN  /\ Orderly(o)
               /\ o.dayStart = b.dayStart /\ o.dayEquity = b.dayEquity
<1> DEFINE q    == wish.qty
           dist == wish.dist
           cost == EntryCost(q, mark)
           fee  == EntryFee(q, mark)
           stop   == EntryPrice(mark) - dist[1] * Scale
           target == EntryPrice(mark) + dist[2] * Scale
           pos  == [qty |-> q, cost |-> cost, bar |-> bar, stop |-> stop, target |-> target]
           o    == [b EXCEPT !.cash = @ - (cost + fee), !.entryFees = @ + fee, !.pos = pos]
<1>1. q \in Quantities /\ q \in Nat /\ dist[1] \in Nat /\ dist[2] \in Nat
  <2>1. wish.qty \in Quantities /\ wish.dist \in Barriers
    BY DEF Wishes
  <2> QED
    BY <2>1, MarketAssumption
<1>2. cost \in Nat /\ fee \in Nat /\ EntryPrice(mark) \in Nat
  BY <1>1, EntryMoney
<1>3. dist[1] * Scale \in Nat /\ dist[2] * Scale \in Nat
  BY <1>1, Parameters, NatTimes
<1>4. stop \in Int /\ target \in Nat
  <2> HIDE DEF dist
  <2> QED
    BY <1>2, <1>3
<1>5. pos \in Position
  <2> HIDE DEF stop, target, cost, q
  <2> QED
    BY <1>1, <1>2, <1>4 DEF Position
<1>6. cost + fee <= b.cash
  BY DEF Affordable
<1>7. OpenLong(b, bar, mark, wish.qty, wish.dist) = o
  BY DEF OpenLong
<1>8. b \in Accounts
  BY DEF Orderly
<1>9. b.cash - (cost + fee) \in Nat /\ b.entryFees + fee \in Int
  <2> HIDE DEF cost, fee
  <2> QED
    BY <1>2, <1>6, AccountFields
<1>10. pos.cost = cost
  OBVIOUS
<1> HIDE DEF cost, fee, pos
<1>11. /\ o \in Accounts
       /\ o.cash = b.cash - (cost + fee) /\ o.entryFees = b.entryFees + fee
       /\ o.pos = pos /\ o.pnl = b.pnl
       /\ o.dayStart = b.dayStart /\ o.dayEquity = b.dayEquity
  BY <1>5, <1>8, <1>9 DEF Accounts
<1>12. o.cash = InitialCash * Unit + o.pnl - o.entryFees - o.pos.cost
  <2> DEFINE start == InitialCash * Unit
  <2>1. start \in Int
    BY Parameters, NatTimes
  <2>2. b.cash = start + b.pnl - b.entryFees - b.pos.cost
    BY DEF Orderly
  <2>3. b.pos.cost = 0
    BY AccountFields DEF Flat
  <2> HIDE DEF start, o
  <2>4. o.cash = start + o.pnl - o.entryFees - o.pos.cost
    BY <1>2, <1>10, <1>11, <2>1, <2>2, <2>3, AccountFields
  <2> QED
    BY <2>4 DEF start
<1> QED
  BY <1>7, <1>11, <1>12 DEF Orderly

\* The kill switch sells at the mark: what was beyond the limit stays beyond it, in cash.
LEMMA SaleKeepsLoss ==
    ASSUME NEW r, Orderly(r), NEW mark \in Nat, LossReached(r, mark)
    PROVE  LET s == CloseLong(r, mark * Scale)
           IN  /\ ~Open(s)
               /\ Beyond(s.dayEquity, s.cash)
               /\ LossReached(s, mark)
<1> DEFINE s == CloseLong(r, mark * Scale)
<1>1. mark * Scale \in Nat
  BY Parameters, NatTimes
<1>2. /\ Orderly(s) /\ ~Open(s) /\ s.dayEquity = r.dayEquity
      /\ ~Open(r) => s = r
      /\ Open(r) => s.cash = r.cash + (Proceeds(r.pos.qty, mark * Scale)
                                      - ExitFee(r.pos.qty, mark * Scale))
  BY <1>1, CloseKeeps
<1>3. r.pos.qty \in Nat /\ r.cash \in Nat /\ r.dayEquity \in Int
  BY AccountFields
<1>4. /\ Value(r.pos.qty, mark) \in Nat
      /\ Proceeds(r.pos.qty, mark * Scale) - ExitFee(r.pos.qty, mark * Scale)
            <= Value(r.pos.qty, mark)
      /\ Proceeds(r.pos.qty, mark * Scale) \in Nat
      /\ ExitFee(r.pos.qty, mark * Scale) \in Nat
  BY <1>1, <1>3, SaleLoses, ExitMoney
<1>5. s.cash <= Equity(r, mark)
  BY <1>2, <1>3, <1>4 DEF Equity
<1>6. Beyond(r.dayEquity, Equity(r, mark))
  BY DEF LossReached, Beyond
<1> HIDE DEF s
<1>7. s.cash \in Nat /\ s.pos = Flat
  BY <1>2, AccountFields
<1>8. Equity(r, mark) \in Int
  BY EquityMoney
<1>9. Beyond(s.dayEquity, s.cash)
  BY <1>2, <1>3, <1>5, <1>6, <1>7, <1>8, BeyondGrows
<1>10. Value(0, mark) = 0
  BY Parameters DEF Value
<1>11. Equity(s, mark) = s.cash
  BY <1>7, <1>10 DEF Equity, Flat
<1>12. LossReached(s, mark)
  BY <1>9, <1>11 DEF LossReached, Beyond
<1> QED
  BY <1>2, <1>9, <1>12 DEF s

-----------------------------------------------------------------------------
(* The passes                                                               *)

\* After the day was rolled, its equity is that of its first close, and when a close of
\* the day was beyond the limit the broker knows it.
LEMMA RolledDay ==
    ASSUME IInv, NEW c \in Candles, NEW day \in Nat, NEW events, Note(c, day, events)
    PROVE  LET r == RollDay(broker, day, c.close)
           IN  /\ Orderly(r)
               /\ r.dayStart = day
               /\ r.dayEquity = morning'
               /\ reached' => LossReached(r, c.close)
<1> DEFINE r == RollDay(broker, day, c.close)
           now == Equity(broker, c.close)
<1>1. c.close \in Nat
  BY CandlePrices
<1>2. /\ Orderly(broker) /\ broker.dayStart = clock.day /\ broker.dayEquity = morning
      /\ reached => ~Open(broker) /\ Beyond(morning, broker.cash)
  BY DEF IInv, DayOK
<1>3. /\ Orderly(r) /\ r.cash = broker.cash /\ r.pos = broker.pos /\ r.dayStart = day
      /\ broker.dayStart = day => r.dayEquity = broker.dayEquity
      /\ broker.dayStart # day => r.dayEquity = now
  <2> DEFINE mark == c.close
  <2>1. Orderly(broker) /\ mark \in Nat
    BY <1>1, <1>2
  <2> HIDE DEF mark
  <2>2. LET s == RollDay(broker, day, mark)
        IN  /\ Orderly(s) /\ s.cash = broker.cash /\ s.pos = broker.pos /\ s.dayStart = day
            /\ broker.dayStart = day => s.dayEquity = broker.dayEquity
            /\ broker.dayStart # day => s.dayEquity = Equity(broker, mark)
    BY <2>1, RollKeeps
  <2> QED
    BY <2>2 DEF mark
<1>4. /\ clock.day = day => morning' = morning
      /\ clock.day # day => morning' = now
      /\ reached' = ((reached /\ clock.day = day) \/ Beyond(morning', now))
  BY DEF Note
<1>5. r.dayEquity = morning'
  BY <1>2, <1>3, <1>4
<1>6. Equity(r, c.close) = now
  BY <1>3 DEF Equity
<1> HIDE DEF r
<1>7. ASSUME Beyond(morning', now)
      PROVE  LossReached(r, c.close)
  BY <1>5, <1>6, <1>7 DEF LossReached, Beyond
<1>8. ASSUME reached, clock.day = day
      PROVE  Beyond(morning', now)
  <2>1. ~Open(broker) /\ Beyond(morning, broker.cash) /\ morning' = morning
    BY <1>2, <1>4, <1>8
  <2>2. broker.pos = Flat /\ broker.cash \in Nat
    BY <1>2, <2>1, AccountFields
  <2>3. Value(0, c.close) = 0
    BY <1>1, Parameters DEF Value
  <2>4. now = broker.cash
    BY <2>2, <2>3 DEF Equity, Flat
  <2> QED
    BY <2>1, <2>4
<1> QED
  BY <1>3, <1>4, <1>5, <1>7, <1>8 DEF r

\* What a pass has to leave behind for the invariant to hold again.
LEMMA PassKeeps ==
    ASSUME IInv, NEW c \in Candles, NEW day \in Nat, NEW bar \in Nat, NEW events,
           Now(c, day, bar), Note(c, day, events),
           bar <= clock.pass + 1,
           events \subseteq {"kill", "barrier", "buy", "sell"},
           trades' \in Nat,
           Orderly(broker'),
           broker'.dayStart = day,
           broker'.dayEquity = morning',
           reached' => ~Open(broker') /\ Beyond(morning', broker'.cash)
    PROVE  IInv'
<1>1. TypeOK /\ clock \in [pass : 0..LastPass, day : Nat, bar : Nat]
  BY DEF IInv, TypeOK
<1>2. /\ clock.pass < LastPass /\ clock' = [pass |-> clock.pass + 1, day |-> day, bar |-> bar]
      /\ candle' = [high |-> c.high, low |-> c.low]
      /\ loop' = loop
  BY DEF Now
<1>3. did' = events /\ reached' \in BOOLEAN
  BY DEF Note
<1>4. clock' \in [pass : 0..LastPass, day : Nat, bar : Nat] /\ clock'.bar <= clock'.pass
      /\ clock'.day = day
  BY <1>1, <1>2, ConfigAssumption
<1>5. candle' \in [high : Nat, low : Nat]
  BY <1>2, CandlePrices
<1>6. /\ broker' \in [cash : Int, dayStart : Nat, dayEquity : Int,
                      pnl : Int, entryFees : Int, wins : Nat, pos : Position]
      /\ broker'.dayEquity \in Int
  BY DEF Orderly, Accounts
<1>7. TypeOK'
  BY <1>1, <1>2, <1>3, <1>4, <1>5, <1>6 DEF TypeOK
<1>8. DayOK'
  BY <1>4 DEF DayOK
<1>9. Orderly(broker)'
  BY DEF Orderly, Accounts, Position
<1> QED
  BY <1>4, <1>7, <1>8, <1>9 DEF IInv

\* A number a candle may have when the loop may make another pass.
LEMMA NextBar ==
    ASSUME IInv, NEW c \in Candles, NEW day, NEW bar, Now(c, day, bar)
    PROVE  /\ clock.bar \in Nat /\ clock.pass \in Nat /\ clock.day \in Nat
           /\ clock.bar <= clock.pass
           /\ clock.bar + 1 \in 1..LastPass
           /\ clock.bar > 0 => clock.bar \in 1..LastPass
<1>1. clock \in [pass : 0..LastPass, day : Nat, bar : Nat] /\ clock.bar <= clock.pass
  BY DEF IInv, TypeOK
<1>2. clock.pass < LastPass
  BY DEF Now
<1>3. clock.bar \in Nat /\ clock.pass \in 0..LastPass /\ clock.day \in Nat
  BY <1>1
<1> QED
  BY <1>1, <1>2, <1>3, ConfigAssumption

\* A candle of the backtest: with the limit reached, the kill switch sells, no barrier
\* is hit, and the risk agent holds.
LEMMA BacktestKeeps ==
    ASSUME IInv, NEW c \in Candles, NEW day \in Nat, NEW wish \in Wishes,
           Now(c, day, clock.bar + 1), BacktestBar(c, day, wish)
    PROVE  IInv'
<1> DEFINE rolled == RollDay(broker, day, c.close)
           kill   == KillSwitch(rolled, c.close) /\ Open(rolled)
           safe   == IF kill THEN CloseLong(rolled, c.close * Scale) ELSE rolled
           hit    == Hit(safe, c)
           b      == CheckBarriers(safe, c)
           choice == Decide(b, c.close, wish)
           buys   == /\ choice = "buy" /\ ~Open(b) /\ ~KillSwitch(b, c.close)
                     /\ Value(wish.qty, c.close) <= Equity(b, c.close)
                     /\ Affordable(b, wish.qty, c.close)
           sells  == choice = "sell" /\ Open(b)
           events == Events(kill, hit, buys, sells)
<1>1. /\ broker' = IF buys THEN OpenLong(b, clock.bar + 1, c.close, wish.qty, wish.dist)
                   ELSE IF sells THEN CloseLong(b, c.close * Scale) ELSE b
      /\ trades' = trades + Counted(hit, buys, sells)
      /\ Note(c, day, events)
  BY DEF BacktestBar
<1>2. c.close \in Nat /\ c.close * Scale \in Nat
  BY CandlePrices, Parameters, NatTimes
<1>3. /\ Orderly(rolled) /\ rolled.dayStart = day /\ rolled.dayEquity = morning'
      /\ reached' => LossReached(rolled, c.close)
  BY <1>1, RolledDay
<1>4. events \subseteq {"kill", "barrier", "buy", "sell"}
  BY DEF Events
<1>5. trades' \in Nat
  <2>1. trades \in Nat
    BY DEF IInv, TypeOK
  <2> DEFINE n == Counted(hit, buys, sells)
  <2>2. n \in Nat
    BY DEF Counted
  <2>3. trades' = trades + n
    BY <1>1
  <2> HIDE DEF n
  <2> QED
    BY <2>1, <2>2, <2>3
<1>6. clock.bar + 1 \in Nat /\ clock.bar + 1 <= clock.pass + 1
  BY NextBar
<1> HIDE DEF rolled, events
<1>7. /\ Orderly(safe) /\ safe.dayStart = day /\ safe.dayEquity = morning'
      /\ reached' => /\ ~Open(safe)
                     /\ Beyond(safe.dayEquity, safe.cash)
                     /\ LossReached(safe, c.close)
  <2> DEFINE sold == CloseLong(rolled, c.close * Scale)
  <2>1. /\ Orderly(sold) /\ sold.dayStart = day /\ sold.dayEquity = morning'
        /\ ~Open(rolled) => sold = rolled
    BY <1>2, <1>3, CloseKeeps
  <2>2. LossReached(rolled, c.close) =>
            /\ ~Open(sold) /\ Beyond(sold.dayEquity, sold.cash)
            /\ LossReached(sold, c.close)
    BY <1>2, <1>3, SaleKeepsLoss
  <2>3. LossReached(rolled, c.close) => safe = sold
    BY <2>1 DEF KillSwitch
  <2> HIDE DEF sold
  <2>4. safe = sold \/ safe = rolled
    BY DEF sold
  <2> HIDE DEF safe
  <2> QED
    BY <1>3, <2>1, <2>2, <2>3, <2>4
<1> HIDE DEF safe
<1>8. /\ Orderly(b) /\ b.dayStart = day /\ b.dayEquity = morning'
      /\ ~Open(safe) => b = safe
  BY <1>7, BarriersKeep
<1> HIDE DEF b
<1>9. reached' => /\ ~Open(b)
                 /\ Beyond(morning', b.cash)
                 /\ choice = "hold"
  BY <1>7, <1>8 DEF KillSwitch, Decide
<1>10. CASE buys
  <2>1. wish.action = "buy" /\ ~Open(b) /\ Affordable(b, wish.qty, c.close)
    BY <1>10 DEF Decide
  <2>2. clock.bar + 1 \in 1..LastPass
    BY NextBar
  <2>3. broker' = OpenLong(b, clock.bar + 1, c.close, wish.qty, wish.dist)
    BY <1>1, <1>10
  <2>4. /\ Orderly(broker') /\ broker'.dayStart = day /\ broker'.dayEquity = morning'
    BY <1>2, <1>8, <2>1, <2>2, <2>3, EntryKeeps
  <2>5. ~reached'
    BY <1>9, <1>10
  <2> QED
    BY <1>1, <1>4, <1>5, <1>6, <2>4, <2>5, PassKeeps
<1>11. CASE ~buys /\ sells
  <2>1. broker' = CloseLong(b, c.close * Scale)
    BY <1>1, <1>11
  <2>2. /\ Orderly(broker') /\ broker'.dayStart = day /\ broker'.dayEquity = morning'
    BY <1>2, <1>8, <2>1, CloseKeeps
  <2>3. ~reached'
    BY <1>9, <1>11
  <2> QED
    BY <1>1, <1>4, <1>5, <1>6, <2>2, <2>3, PassKeeps
<1>12. CASE ~buys /\ ~sells
  <2>1. broker' = b
    BY <1>1, <1>12
  <2> QED
    BY <1>1, <1>4, <1>5, <1>6, <1>8, <1>9, <2>1, PassKeeps
<1> QED
  BY <1>10, <1>11, <1>12

\* A pass of the trader: with the limit reached, the kill switch sells and ends it.
LEMMA TraderKeeps ==
    ASSUME IInv, NEW c \in Candles, NEW day \in Nat, NEW wish \in Wishes,
           NEW bar \in 1..LastPass, bar <= clock.pass + 1,
           Now(c, day, bar), TraderPass(c, day, bar, wish)
    PROVE  IInv'
<1> DEFINE rolled == RollDay(broker, day, c.close)
           choice == Decide(rolled, c.close, wish)
           kill   == KillSwitch(rolled, c.close)
           hit    == ~kill /\ Hit(rolled, c)
           b      == IF kill THEN CloseLong(rolled, c.close * Scale)
                     ELSE CheckBarriers(rolled, c)
           buys   == /\ ~kill /\ choice = "buy" /\ ~Open(b)
                     /\ Affordable(b, wish.qty, c.close)
           sells  == ~kill /\ choice = "sell" /\ Open(b)
           events == Events(kill /\ Open(rolled), hit, buys, sells)
<1>1. /\ broker' = IF buys THEN OpenLong(b, bar, c.close, wish.qty, wish.dist)
                   ELSE IF sells THEN CloseLong(b, c.close * Scale) ELSE b
      /\ trades' = trades
      /\ Note(c, day, events)
  BY DEF TraderPass
<1>2. c.close \in Nat /\ c.close * Scale \in Nat
  BY CandlePrices, Parameters, NatTimes
<1>3. /\ Orderly(rolled) /\ rolled.dayStart = day /\ rolled.dayEquity = morning'
      /\ reached' => LossReached(rolled, c.close)
  BY <1>1, RolledDay
<1>4. events \subseteq {"kill", "barrier", "buy", "sell"}
  BY DEF Events
<1>5. trades' \in Nat
  BY <1>1 DEF IInv, TypeOK
<1> HIDE DEF rolled, events
<1>6. reached' => kill
  BY <1>3 DEF KillSwitch
<1>7. /\ Orderly(b) /\ b.dayStart = day /\ b.dayEquity = morning'
      /\ reached' => ~Open(b) /\ Beyond(morning', b.cash)
  <2>1. CASE kill
    <3> DEFINE sold == CloseLong(rolled, c.close * Scale)
    <3>1. /\ Orderly(sold) /\ sold.dayStart = day /\ sold.dayEquity = morning'
      BY <1>2, <1>3, CloseKeeps
    <3>2. LossReached(rolled, c.close) =>
              ~Open(sold) /\ Beyond(sold.dayEquity, sold.cash)
      BY <1>2, <1>3, SaleKeepsLoss
    <3>3. b = sold
      BY <2>1
    <3> HIDE DEF sold, b
    <3> QED
      BY <1>3, <3>1, <3>2, <3>3
  <2>2. CASE ~kill
    <3>1. b = CheckBarriers(rolled, c)
      BY <2>2
    <3> HIDE DEF b
    <3> QED
      BY <1>3, <1>6, <2>2, <3>1, BarriersKeep
  <2> QED
    BY <2>1, <2>2
<1> HIDE DEF b
<1>8. bar \in Nat
  OBVIOUS
<1>9. CASE buys
  <2>1. wish.action = "buy" /\ ~Open(b) /\ Affordable(b, wish.qty, c.close)
    BY <1>9 DEF Decide
  <2>2. broker' = OpenLong(b, bar, c.close, wish.qty, wish.dist)
    BY <1>1, <1>9
  <2>3. /\ Orderly(broker') /\ broker'.dayStart = day /\ broker'.dayEquity = morning'
    BY <1>2, <1>7, <2>1, <2>2, EntryKeeps
  <2>4. ~reached'
    BY <1>6, <1>9
  <2> QED
    BY <1>1, <1>4, <1>5, <1>8, <2>3, <2>4, PassKeeps
<1>10. CASE ~buys /\ sells
  <2>1. broker' = CloseLong(b, c.close * Scale)
    BY <1>1, <1>10
  <2>2. /\ Orderly(broker') /\ broker'.dayStart = day /\ broker'.dayEquity = morning'
    BY <1>2, <1>7, <2>1, CloseKeeps
  <2>3. ~reached'
    BY <1>6, <1>10
  <2> QED
    BY <1>1, <1>4, <1>5, <1>8, <2>2, <2>3, PassKeeps
<1>11. CASE ~buys /\ ~sells
  <2>1. broker' = b
    BY <1>1, <1>11
  <2> QED
    BY <1>1, <1>4, <1>5, <1>7, <1>8, <2>1, PassKeeps
<1> QED
  BY <1>9, <1>10, <1>11

-----------------------------------------------------------------------------
(* The invariant                                                            *)

\* A new broker holds the initial cash.
LEMMA InitIInv == Init => IInv
<1> SUFFICES ASSUME Init
             PROVE  IInv
  OBVIOUS
<1> DEFINE start == InitialCash * Unit
<1>1. start \in Nat
  BY Parameters, NatTimes
<1>2. broker = [cash |-> start, pos |-> Flat, dayStart |-> 0, dayEquity |-> 0,
                pnl |-> 0, entryFees |-> 0, wins |-> 0]
  BY DEF Init
<1>3. Flat \in Position /\ Flat.cost = 0
  BY DEF Position, Flat
<1> HIDE DEF start
<1>4. broker \in Accounts
  BY <1>1, <1>2, <1>3 DEF Accounts
<1>5. broker.cash = start + broker.pnl - broker.entryFees - broker.pos.cost
  BY <1>1, <1>2, <1>3
<1>6. Orderly(broker)
  BY <1>4, <1>5 DEF Orderly, start
<1>7. clock = [pass |-> 0, day |-> 0, bar |-> 0] /\ morning = 0 /\ reached = FALSE
  BY DEF Init
<1>8. DayOK
  BY <1>2, <1>7 DEF DayOK
<1>9. TypeOK
  <2>1. broker \in [cash : Int, dayStart : Nat, dayEquity : Int, pnl : Int,
                   entryFees : Int, wins : Nat, pos : Position]
    BY <1>4 DEF Accounts
  <2>2. clock \in [pass : 0..LastPass, day : Nat, bar : Nat]
    BY <1>7, ConfigAssumption
  <2>3. loop \in Loops /\ trades \in Nat /\ did \subseteq {"kill", "barrier", "buy", "sell"}
    BY DEF Init
  <2>4. candle \in [high : Nat, low : Nat]
    BY DEF Init
  <2>5. morning \in Int
    BY <1>7
  <2>6. reached \in BOOLEAN
    BY <1>7, Zenon
  <2> QED
    BY <2>1, <2>2, <2>3, <2>4, <2>5, <2>6 DEF TypeOK
<1> QED
  BY <1>6, <1>7, <1>8, <1>9 DEF IInv

\* Every pass keeps the invariant.
LEMMA NextIInv == IInv /\ [Next]_vars => IInv'
<1> SUFFICES ASSUME IInv, [Next]_vars
             PROVE  IInv'
  OBVIOUS
<1>1. CASE Backtest
  <2>1. PICK c \in Candles, day \in Days, wish \in Wishes :
            Now(c, day, clock.bar + 1) /\ BacktestBar(c, day, wish)
    BY <1>1 DEF Backtest
  <2>2. day \in Nat
    BY <2>1, NextBar DEF Days
  <2> QED
    BY <2>1, <2>2, BacktestKeeps
<1>2. CASE TradeNewCandle
  <2>1. PICK c \in Candles, day \in Days, wish \in Wishes :
            Now(c, day, clock.bar + 1) /\ TraderPass(c, day, clock.bar + 1, wish)
    BY <1>2 DEF TradeNewCandle
  <2>2. day \in Nat /\ clock.bar + 1 \in 1..LastPass /\ clock.bar + 1 <= clock.pass + 1
    BY <2>1, NextBar DEF Days
  <2> QED
    BY <2>1, <2>2, TraderKeeps
<1>3. CASE TradeSameCandle
  <2>1. clock.bar > 0
    BY <1>3 DEF TradeSameCandle
  <2>2. PICK c \in Candles, wish \in Wishes :
            /\ Now(c, clock.day, clock.bar)
            /\ TraderPass(c, clock.day, clock.bar, wish)
    BY <1>3 DEF TradeSameCandle
  <2>3. clock.day \in Nat /\ clock.bar \in 1..LastPass /\ clock.bar <= clock.pass + 1
    BY <2>1, <2>2, NextBar
  <2> QED
    BY <2>2, <2>3, TraderKeeps
<1>4. CASE UNCHANGED vars
  BY <1>4 DEF vars, IInv, TypeOK, DayOK, Orderly, Accounts, Beyond, Open, Position
<1> QED
  BY <1>1, <1>2, <1>3, <1>4 DEF Next

\* What holds of the account, the clock and the day between two passes.
LEMMA Invariant == Spec => []IInv
  BY InitIInv, NextIInv, PTL DEF Spec

\* Every variable stays in its type, at any price and for any number of passes.
THEOREM TypeCorrect == Spec => []TypeOK
<1>1. IInv => TypeOK
  BY DEF IInv
<1> QED
  BY <1>1, Invariant, PTL

\* The fills explain the cash of pkg/paper at every moment.
THEOREM Books == Spec => []BooksBalance
<1>1. IInv => BooksBalance
  BY DEF IInv, Orderly, BooksBalance
<1> QED
  BY <1>1, Invariant, PTL

\* The check of OpenLong keeps the account out of debt, whatever is bought and sold:
\* an exit never costs more than it brings.
THEOREM NeverOverdrawn == Spec => []NoOverdraft
<1>1. IInv => NoOverdraft
  BY DEF IInv, Orderly, Accounts, NoOverdraft
<1> QED
  BY <1>1, Invariant, PTL

\* When a close of the day was beyond the daily loss limit, the kill switch leaves the
\* account flat for the rest of that day, in the backtest and in the trader.
THEOREM FlatOnceBeyond == Spec => []FlatAfterLoss
<1>1. IInv => FlatAfterLoss
  BY DEF IInv, DayOK, FlatAfterLoss
<1> QED
  BY <1>1, Invariant, PTL

-----------------------------------------------------------------------------
(* What a pass does to the position                                         *)

\* The account a has paid the entries b has paid, and holds what b holds or nothing.
Holds(a, b) == a.entryFees = b.entryFees /\ a.pos \in {b.pos, Flat}

\* A position is not younger than the last candle.
EntryOK == Open(broker) => broker.pos.bar <= clock.bar

\* A new day is no fill.
LEMMA RollHolds ==
    ASSUME NEW b, Orderly(b), NEW day \in Nat, NEW mark \in Nat
    PROVE  RollDay(b, day, mark).entryFees = b.entryFees /\ RollDay(b, day, mark).pos = b.pos
<1>1. CASE b.dayStart = day
  BY <1>1 DEF RollDay
<1>2. CASE b.dayStart # day
  <2> DEFINE e == Equity(b, mark)
  <2>1. RollDay(b, day, mark) = [b EXCEPT !.dayStart = day, !.dayEquity = e]
    BY <1>2 DEF RollDay
  <2> HIDE DEF e
  <2> QED
    BY <2>1 DEF Orderly, Accounts
<1> QED
  BY <1>1, <1>2

\* An exit is no entry.
LEMMA CloseHolds ==
    ASSUME NEW b, Orderly(b), NEW price
    PROVE  Holds(CloseLong(b, price), b)
<1>1. CASE ~Open(b)
  BY <1>1 DEF CloseLong, Holds
<1>2. CASE Open(b)
  <2> DEFINE net  == Proceeds(b.pos.qty, price) - ExitFee(b.pos.qty, price)
             cash == b.cash + net
             pnl  == b.pnl + (net - b.pos.cost)
             wins == b.wins + (IF net > b.pos.cost THEN 1 ELSE 0)
  <2>1. CloseLong(b, price) = [b EXCEPT !.cash = cash, !.pos = Flat, !.pnl = pnl, !.wins = wins]
    BY <1>2 DEF CloseLong
  <2> HIDE DEF cash, pnl, wins
  <2> QED
    BY <2>1 DEF Orderly, Accounts, Holds
<1> QED
  BY <1>1, <1>2

\* Nor is a barrier.
LEMMA BarriersHold ==
    ASSUME NEW b, Orderly(b), NEW c
    PROVE  Holds(CheckBarriers(b, c), b)
  BY CloseHolds DEF CheckBarriers, Holds

\* An entry adds its fee and its cost to what was paid, and takes both from the cash.
LEMMA EntryFields ==
    ASSUME NEW b, Orderly(b), NEW bar, NEW q \in Nat, NEW mark \in Nat, NEW dist
    PROVE  LET o == OpenLong(b, bar, mark, q, dist)
           IN  o.pos.bar = bar /\ o.cash + o.pos.cost + (o.entryFees - b.entryFees) = b.cash
<1> DEFINE cost == EntryCost(q, mark)
           fee  == EntryFee(q, mark)
           pos  == [qty |-> q, cost |-> cost, bar |-> bar,
                    stop |-> EntryPrice(mark) - dist[1] * Scale,
                    target |-> EntryPrice(mark) + dist[2] * Scale]
           o    == [b EXCEPT !.cash = @ - (cost + fee), !.entryFees = @ + fee, !.pos = pos]
<1>1. cost \in Nat /\ fee \in Nat
  BY EntryMoney
<1>2. OpenLong(b, bar, mark, q, dist) = o
  BY DEF OpenLong
<1>3. pos.bar = bar /\ pos.cost = cost
  OBVIOUS
<1> HIDE DEF cost, fee, pos
<1>4. o.cash = b.cash - (cost + fee) /\ o.entryFees = b.entryFees + fee /\ o.pos = pos
  BY DEF Orderly, Accounts
<1>5. b.cash \in Nat /\ b.entryFees \in Int
  BY AccountFields
<1> HIDE DEF o
<1>6. o.pos.bar = bar /\ o.cash + o.pos.cost + (o.entryFees - b.entryFees) = b.cash
  BY <1>1, <1>3, <1>4, <1>5
<1> QED
  BY <1>2, <1>6 DEF o

\* A candle of the backtest: the risk agent asks for the loss before the entry, and the
\* barriers only end a position the loop had before this candle.
LEMMA BacktestPass ==
    ASSUME IInv, NEW c \in Candles, NEW day \in Nat, NEW wish \in Wishes,
           Now(c, day, clock.bar + 1), BacktestBar(c, day, wish)
    PROVE  /\ "buy" \in did' =>
                ~Beyond(morning', broker'.cash + broker'.pos.cost
                                    + (broker'.entryFees - broker.entryFees))
           /\ "barrier" \in did' => Open(broker)
           /\ broker'.pos \in {broker.pos, Flat} \/ broker'.pos.bar = clock.bar + 1
<1> DEFINE rolled == RollDay(broker, day, c.close)
           kill   == KillSwitch(rolled, c.close) /\ Open(rolled)
           safe   == IF kill THEN CloseLong(rolled, c.close * Scale) ELSE rolled
           hit    == Hit(safe, c)
           b      == CheckBarriers(safe, c)
           choice == Decide(b, c.close, wish)
           buys   == /\ choice = "buy" /\ ~Open(b) /\ ~KillSwitch(b, c.close)
                     /\ Value(wish.qty, c.close) <= Equity(b, c.close)
                     /\ Affordable(b, wish.qty, c.close)
           sells  == choice = "sell" /\ Open(b)
<1>1. /\ broker' = IF buys THEN OpenLong(b, clock.bar + 1, c.close, wish.qty, wish.dist)
                   ELSE IF sells THEN CloseLong(b, c.close * Scale) ELSE b
      /\ Note(c, day, Events(kill, hit, buys, sells))
  BY DEF BacktestBar
<1>2. c.close \in Nat /\ c.close * Scale \in Nat
  BY CandlePrices, Parameters, NatTimes
<1>3. Orderly(rolled) /\ rolled.dayEquity = morning'
  BY <1>1, RolledDay
<1>4. rolled.entryFees = broker.entryFees /\ rolled.pos = broker.pos
  BY <1>2, RollHolds DEF IInv
<1>5. ("buy" \in did' => buys) /\ ("barrier" \in did' => hit)
  BY <1>1 DEF Note, Events
<1> HIDE DEF rolled
<1>6. /\ Orderly(safe) /\ safe.dayEquity = morning' /\ Holds(safe, rolled)
      /\ Open(safe) => safe = rolled
  BY <1>2, <1>3, CloseKeeps, CloseHolds DEF Holds
<1> HIDE DEF safe
<1>7. Orderly(b) /\ b.dayEquity = morning' /\ Holds(b, safe)
  BY <1>6, BarriersKeep, BarriersHold
<1>8. ASSUME "barrier" \in did'
      PROVE  Open(broker)
  <2>1. Open(safe)
    BY <1>5, <1>8 DEF Hit, HitsTarget, HitsStop
  <2> QED
    BY <1>4, <1>6, <2>1 DEF Open
<1> HIDE DEF b
<1>9. b.entryFees = broker.entryFees /\ b.pos \in {broker.pos, Flat}
  BY <1>4, <1>6, <1>7 DEF Holds
<1>10. CASE buys
  <2>1. wish.qty \in Nat
    BY <1>10, MarketAssumption DEF Decide, Wishes
  <2>2. broker' = OpenLong(b, clock.bar + 1, c.close, wish.qty, wish.dist)
    BY <1>1, <1>10
  <2>3. broker'.pos.bar = clock.bar + 1
    BY <1>2, <1>7, <2>1, <2>2, EntryFields
  <2>4. broker'.cash + broker'.pos.cost + (broker'.entryFees - b.entryFees) = b.cash
    BY <1>2, <1>7, <2>1, <2>2, EntryFields
  <2>5. Equity(b, c.close) = b.cash
    <3>1. b.pos = Flat /\ b.cash \in Nat
      BY <1>7, <1>10, AccountFields
    <3>2. Value(0, c.close) = 0
      BY <1>2, Parameters DEF Value
    <3> QED
      BY <3>1, <3>2 DEF Equity, Flat
  <2>6. ~Beyond(morning', b.cash)
    BY <1>7, <1>10, <2>5 DEF KillSwitch, LossReached, Beyond
  <2> QED
    BY <1>8, <1>9, <2>3, <2>4, <2>6
<1>11. CASE ~buys
  <2>1. Holds(CloseLong(b, c.close * Scale), b)
    BY <1>7, CloseHolds
  <2>2. broker'.pos \in {b.pos, Flat}
    BY <1>1, <1>11, <2>1 DEF Holds
  <2> QED
    BY <1>5, <1>8, <1>9, <1>11, <2>2
<1> QED
  BY <1>10, <1>11

\* A pass of the trader leaves the position, ends it, or enters one on its candle.
LEMMA TraderHolds ==
    ASSUME IInv, NEW c \in Candles, NEW day \in Nat, NEW wish \in Wishes, NEW bar \in 1..LastPass,
           Now(c, day, bar), TraderPass(c, day, bar, wish)
    PROVE  broker'.pos \in {broker.pos, Flat} \/ broker'.pos.bar = bar
<1> DEFINE rolled == RollDay(broker, day, c.close)
           choice == Decide(rolled, c.close, wish)
           kill   == KillSwitch(rolled, c.close)
           b      == IF kill THEN CloseLong(rolled, c.close * Scale)
                     ELSE CheckBarriers(rolled, c)
           buys   == /\ ~kill /\ choice = "buy" /\ ~Open(b)
                     /\ Affordable(b, wish.qty, c.close)
           sells  == ~kill /\ choice = "sell" /\ Open(b)
<1>1. /\ broker' = IF buys THEN OpenLong(b, bar, c.close, wish.qty, wish.dist)
                   ELSE IF sells THEN CloseLong(b, c.close * Scale) ELSE b
      /\ Note(c, day, Events(kill /\ Open(rolled), ~kill /\ Hit(rolled, c), buys, sells))
  BY DEF TraderPass
<1>2. c.close \in Nat /\ c.close * Scale \in Nat
  BY CandlePrices, Parameters, NatTimes
<1>3. Orderly(rolled)
  BY <1>1, RolledDay
<1>4. rolled.pos = broker.pos
  BY <1>2, RollHolds DEF IInv
<1> HIDE DEF rolled
<1>5. Orderly(b) /\ Holds(b, rolled)
  <2>1. CASE kill
    BY <1>2, <1>3, <2>1, CloseKeeps, CloseHolds
  <2>2. CASE ~kill
    BY <1>3, <2>2, BarriersKeep, BarriersHold
  <2> QED
    BY <2>1, <2>2
<1> HIDE DEF b
<1>6. b.pos \in {broker.pos, Flat}
  BY <1>4, <1>5 DEF Holds
<1>7. CASE buys
  <2>1. wish.qty \in Nat
    BY <1>7, MarketAssumption DEF Decide, Wishes
  <2> QED
    BY <1>1, <1>2, <1>5, <1>7, <2>1, EntryFields
<1>8. CASE ~buys
  <2>1. Holds(CloseLong(b, c.close * Scale), b)
    BY <1>5, CloseHolds
  <2> QED
    BY <1>1, <1>6, <1>8, <2>1 DEF Holds
<1> QED
  BY <1>7, <1>8

\* A pass makes no position younger than its candle.
LEMMA PassEntryOK ==
    ASSUME IInv, EntryOK, NEW bar \in Nat, clock'.bar = bar, clock.bar <= bar, clock.bar \in Nat,
           broker'.pos \in {broker.pos, Flat} \/ broker'.pos.bar = bar
    PROVE  EntryOK'
<1>1. CASE broker'.pos = broker.pos
  <2>1. Open(broker) => broker.pos.bar \in Nat
    BY DEF IInv, TypeOK, Position, Open, Flat
  <2> QED
    BY <1>1, <2>1 DEF EntryOK, Open
<1>2. CASE broker'.pos = Flat
  BY <1>2 DEF EntryOK, Open, Flat
<1>3. CASE broker'.pos.bar = bar
  BY <1>3 DEF EntryOK
<1> QED
  BY <1>1, <1>2, <1>3

\* No pass does.
LEMMA NextEntryOK == IInv /\ EntryOK /\ [Next]_vars => EntryOK'
<1> SUFFICES ASSUME IInv, EntryOK, [Next]_vars
             PROVE  EntryOK'
  OBVIOUS
<1>1. CASE Backtest
  <2>1. PICK c \in Candles, day \in Days, wish \in Wishes :
            Now(c, day, clock.bar + 1) /\ BacktestBar(c, day, wish)
    BY <1>1 DEF Backtest
  <2>2. day \in Nat /\ clock.bar \in Nat
    BY <2>1, NextBar DEF Days
  <2>3. broker'.pos \in {broker.pos, Flat} \/ broker'.pos.bar = clock.bar + 1
    BY <2>1, <2>2, BacktestPass
  <2>4. clock'.bar = clock.bar + 1
    BY <2>1 DEF Now
  <2> QED
    BY <2>2, <2>3, <2>4, PassEntryOK
<1>2. CASE TradeNewCandle
  <2>1. PICK c \in Candles, day \in Days, wish \in Wishes :
            Now(c, day, clock.bar + 1) /\ TraderPass(c, day, clock.bar + 1, wish)
    BY <1>2 DEF TradeNewCandle
  <2>2. day \in Nat /\ clock.bar \in Nat /\ clock.bar + 1 \in 1..LastPass
    BY <2>1, NextBar DEF Days
  <2>3. broker'.pos \in {broker.pos, Flat} \/ broker'.pos.bar = clock.bar + 1
    BY <2>1, <2>2, TraderHolds
  <2>4. clock'.bar = clock.bar + 1
    BY <2>1 DEF Now
  <2> QED
    BY <2>2, <2>3, <2>4, PassEntryOK
<1>3. CASE TradeSameCandle
  <2>1. clock.bar > 0
    BY <1>3 DEF TradeSameCandle
  <2>2. PICK c \in Candles, wish \in Wishes :
            /\ Now(c, clock.day, clock.bar)
            /\ TraderPass(c, clock.day, clock.bar, wish)
    BY <1>3 DEF TradeSameCandle
  <2>3. clock.day \in Nat /\ clock.bar \in Nat /\ clock.bar \in 1..LastPass
    BY <2>1, <2>2, NextBar
  <2>4. broker'.pos \in {broker.pos, Flat} \/ broker'.pos.bar = clock.bar
    BY <2>2, <2>3, TraderHolds
  <2>5. clock'.bar = clock.bar
    BY <2>2 DEF Now
  <2> QED
    BY <2>3, <2>4, <2>5, PassEntryOK
<1>4. CASE UNCHANGED vars
  BY <1>4 DEF vars, EntryOK, Open
<1> QED
  BY <1>1, <1>2, <1>3, <1>4 DEF Next

\* What the position has to do with the clock between two passes.
LEMMA EntryInvariant == Spec => []EntryOK
<1>1. Init => EntryOK
  BY DEF Init, EntryOK, Open, Flat
<1> QED
  BY <1>1, NextEntryOK, Invariant, PTL DEF Spec

\* What a pass of the backtest leaves in did.
LEMMA BacktestDoes ==
    ASSUME IInv, EntryOK, loop = "backtest", [Next]_vars
    PROVE  \/ UNCHANGED vars
           \/ /\ "buy" \in did' =>
                   ~Beyond(morning', broker'.cash + broker'.pos.cost
                                       + (broker'.entryFees - broker.entryFees))
              /\ "barrier" \in did' => Open(broker) /\ broker.pos.bar < clock'.bar
<1>1. CASE Backtest
  <2>1. PICK c \in Candles, day \in Days, wish \in Wishes :
            Now(c, day, clock.bar + 1) /\ BacktestBar(c, day, wish)
    BY <1>1 DEF Backtest
  <2>2. day \in Nat /\ clock.bar \in Nat
    BY <2>1, NextBar DEF Days
  <2>3. clock'.bar = clock.bar + 1
    BY <2>1 DEF Now
  <2>4. Open(broker) => broker.pos.bar \in Nat
    BY DEF IInv, TypeOK, Position, Open, Flat
  <2>5. Open(broker) => broker.pos.bar < clock'.bar
    BY <2>2, <2>3, <2>4 DEF EntryOK
  <2> QED
    BY <2>1, <2>2, <2>5, BacktestPass
<1> QED
  BY <1>1 DEF Next, TradeNewCandle, TradeSameCandle

\* The agents of a backtest veto every entry once the day's loss is at the limit.
THEOREM VetoPastLimit == Spec => NoEntryPastLimit
<1>1. IInv /\ EntryOK /\ [Next]_vars =>
        [(loop = "backtest" /\ "buy" \in did') =>
            LET before == broker'.cash + broker'.pos.cost + (broker'.entryFees - broker.entryFees)
            IN  ~Beyond(morning', before)]_vars
  BY BacktestDoes
<1> QED
  BY <1>1, Invariant, EntryInvariant, PTL DEF Spec, NoEntryPastLimit

\* A barrier of a backtest never ends a position on the candle it was entered on.
THEOREM BarriersWaitABar == Spec => ExitAfterEntryBar
<1>1. IInv /\ EntryOK /\ [Next]_vars =>
        [(loop = "backtest" /\ "barrier" \in did') =>
            Open(broker) /\ broker.pos.bar < clock'.bar]_vars
  BY BacktestDoes
<1> QED
  BY <1>1, Invariant, EntryInvariant, PTL DEF Spec, ExitAfterEntryBar
=============================================================================
