----------------------------- MODULE PaperTrading -----------------------------
(***************************************************************************)
(* The paper broker (pkg/paper) under the two loops that drive it: the     *)
(* backtest (pkg/backtest/engine.go), once per closed candle, and the      *)
(* trader (cmd/trader), once per poll, on a last candle that may still be  *)
(* forming.  What the strategies and agents want is any action; how much   *)
(* they buy, and how far the barriers are, comes from small sets.          *)
(*                                                                         *)
(* Fees, slippage and limits are fractions over Scale.  Barriers are       *)
(* prices over Scale and money is over Unit, so every amount is exact.     *)
(***************************************************************************)
EXTENDS Integers

CONSTANTS
    Loops,          \* which of "backtest" and "trader" may run
    Prices,         \* the prices of the market
    Quantities,     \* the quantities a buy may ask for
    Barriers,       \* <<slMult * atr, tpMult * atr>> of an entry
    InitialCash,
    Scale,
    Slippage,       \* SlippageBps, over Scale
    FeeRate,        \* over Scale
    MaxLoss,        \* MaxDailyLoss, over Scale
    LastPass        \* the number of passes through the loop (a bound)

ASSUME LoopAssumption == Loops \subseteq {"backtest", "trader"}
ASSUME MarketAssumption ==
    /\ Prices \subseteq Nat \ {0}
    /\ Quantities \subseteq Nat \ {0}
    /\ Barriers \subseteq Nat \X Nat
ASSUME ConfigAssumption ==
    /\ {InitialCash, Scale, MaxLoss} \subseteq Nat \ {0}
    /\ {Slippage, FeeRate} \subseteq 0..Scale
    /\ LastPass \in Nat

Unit == Scale * Scale * Scale

VARIABLES
    loop,       \* which loop runs
    clock,      \* the passes made, the day and the number of the last candle
    candle,     \* its high and low so far
    broker,     \* Broker, with the sums of its Fills
    trades,     \* the backtest's count of trades
    morning,    \* ghost: the equity at the first close of the day
    reached,    \* ghost: a close of this day was beyond the daily loss limit
    did         \* ghost: what the last pass of the loop did

vars == <<loop, clock, candle, broker, trades, morning, reached, did>>

Flat == [qty |-> 0, cost |-> 0, stop |-> 0, target |-> 0, bar |-> 0]

Init ==
    /\ loop \in Loops
    /\ clock = [pass |-> 0, day |-> 0, bar |-> 0]
    /\ candle = [high |-> 0, low |-> 0]
    /\ broker = [cash |-> InitialCash * Unit, pos |-> Flat, dayStart |-> 0, dayEquity |-> 0,
                 pnl |-> 0, entryFees |-> 0, wins |-> 0]
    /\ trades = 0
    /\ morning = 0
    /\ reached = FALSE
    /\ did = {}

-----------------------------------------------------------------------------
(* Broker                                                                   *)

Open(b)         == b.pos.qty > 0
Value(q, mark)  == q * mark * Unit
Equity(b, mark) == b.cash + Value(b.pos.qty, mark)

\* Mutant: every candle starts a day.
RollEveryBar(b, day, mark) == [b EXCEPT !.dayStart = day, !.dayEquity = Equity(b, mark)]

RollDay(b, day, mark) ==
    IF b.dayStart = day THEN b
    ELSE [b EXCEPT !.dayStart = day, !.dayEquity = Equity(b, mark)]

\* Mutant: the loss of the open position, nothing when there is none.
OpenLossReached(b, mark) ==
    Open(b) /\ (b.dayEquity - Equity(b, mark)) * Scale >= MaxLoss * b.dayEquity

\* DailyLossPct(mark) >= MaxDailyLoss
LossReached(b, mark) ==
    b.dayEquity > 0 /\ (b.dayEquity - Equity(b, mark)) * Scale >= MaxLoss * b.dayEquity

\* OpenExposurePct(mark) >= MaxExposure, which is 1
ExposureReached(b, mark) ==
    Open(b) /\ Equity(b, mark) > 0 /\ Value(b.pos.qty, mark) >= Equity(b, mark)

KillSwitch(b, mark) == LossReached(b, mark) \/ ExposureReached(b, mark)

\* OpenLong with the price after slippage; the fee is on top of the cost.
EntryPrice(mark)  == mark * (Scale + Slippage)
EntryCost(q, mark) == EntryPrice(mark) * q * Scale * Scale
EntryFee(q, mark)  == EntryPrice(mark) * q * Scale * FeeRate

\* Mutant: the fee is not asked for.
CoversCost(b, q, mark) == EntryCost(q, mark) <= b.cash

Affordable(b, q, mark) == EntryCost(q, mark) + EntryFee(q, mark) <= b.cash

OpenLong(b, bar, mark, q, dist) ==
    [b EXCEPT !.cash = @ - (EntryCost(q, mark) + EntryFee(q, mark)),
              !.entryFees = @ + EntryFee(q, mark),
              !.pos = [qty |-> q, cost |-> EntryCost(q, mark), bar |-> bar,
                       stop |-> EntryPrice(mark) - dist[1] * Scale,
                       target |-> EntryPrice(mark) + dist[2] * Scale]]

\* CloseLong at a price over Scale.  PnL is net of the exit's fee, not of the entry's.
Proceeds(q, price) == price * (Scale - Slippage) * q * Scale
ExitFee(q, price)  == price * (Scale - Slippage) * q * FeeRate

\* Mutant: the exit's fee is charged to the PnL only.
CloseForFree(b, price) ==
    LET q   == b.pos.qty
        net == Proceeds(q, price) - ExitFee(q, price)
    IN  [b EXCEPT !.cash = @ + Proceeds(q, price), !.pos = Flat,
                  !.pnl = @ + (net - b.pos.cost),
                  !.wins = @ + (IF net > b.pos.cost THEN 1 ELSE 0)]

\* Mutant: the position keeps its quantity.
CloseKeepsQuantity(b, price) ==
    LET q   == b.pos.qty
        net == Proceeds(q, price) - ExitFee(q, price)
    IN  IF ~Open(b) THEN b
        ELSE [b EXCEPT !.cash = @ + net, !.pos = [Flat EXCEPT !.qty = q],
                       !.pnl = @ + (net - b.pos.cost),
                       !.wins = @ + (IF net > b.pos.cost THEN 1 ELSE 0)]

CloseLong(b, price) ==
    LET q   == b.pos.qty
        net == Proceeds(q, price) - ExitFee(q, price)
    IN  IF ~Open(b) THEN b
        ELSE [b EXCEPT !.cash = @ + net, !.pos = Flat,
                       !.pnl = @ + (net - b.pos.cost),
                       !.wins = @ + (IF net > b.pos.cost THEN 1 ELSE 0)]

\* CheckBarriers: the target before the stop.
HitsTarget(b, c) == Open(b) /\ c.high * Scale >= b.pos.target
HitsStop(b, c)   == Open(b) /\ ~HitsTarget(b, c) /\ c.low * Scale <= b.pos.stop
Hit(b, c)        == HitsTarget(b, c) \/ HitsStop(b, c)

CheckBarriers(b, c) ==
    IF HitsTarget(b, c) THEN CloseLong(b, b.pos.target)
    ELSE IF HitsStop(b, c) THEN CloseLong(b, b.pos.stop) ELSE b

-----------------------------------------------------------------------------
(* The loops                                                                *)

\* What the agents ask for; a buy comes with the quantity and the barriers of the loop.
Wishes ==
    [action : {"buy"}, qty : Quantities, dist : Barriers] \cup
    [action : {"sell", "hold"}, qty : {0}, dist : {<<0, 0>>}]

\* Pipeline.Decide with the limits updateRisk hands to the risk agent.
Decide(b, mark, wish) == IF KillSwitch(b, mark) THEN "hold" ELSE wish.action

\* The daily loss limit, as the configuration states it.
Beyond(before, after) == before > 0 /\ (before - after) * Scale >= MaxLoss * before

\* The ghosts of a pass with candle c.
Note(c, day, events) ==
    /\ morning' = IF clock.day = day THEN morning ELSE Equity(broker, c.close)
    /\ reached' = (\/ reached /\ clock.day = day
                   \/ Beyond(morning', Equity(broker, c.close)))
    /\ did' = events

Events(killed, hit, buys, sells) ==
    (IF killed THEN {"kill"} ELSE {}) \cup (IF hit THEN {"barrier"} ELSE {}) \cup
    (IF buys THEN {"buy"} ELSE {}) \cup (IF sells THEN {"sell"} ELSE {})

\* The backtest counts entries and exits, but not the exits of the kill switch.
Counted(hit, buys, sells) ==
    (IF hit THEN 1 ELSE 0) + (IF buys THEN 1 ELSE 0) + (IF sells THEN 1 ELSE 0)

\* Mutant: the barriers are looked at after the decision.
BarriersLast(c, day, wish) ==
    LET rolled == RollDay(broker, day, c.close)
        kill   == KillSwitch(rolled, c.close) /\ Open(rolled)
        safe   == IF kill THEN CloseLong(rolled, c.close * Scale) ELSE rolled
        buys   == /\ Decide(safe, c.close, wish) = "buy" /\ ~Open(safe)
                  /\ Affordable(safe, wish.qty, c.close)
        b      == IF buys THEN OpenLong(safe, clock.bar + 1, c.close, wish.qty, wish.dist)
                  ELSE safe
    IN  /\ broker' = CheckBarriers(b, c)
        /\ trades' = trades + Counted(Hit(b, c), buys, FALSE)
        /\ Note(c, day, Events(kill, Hit(b, c), buys, FALSE))

\* One candle of backtest.Run: roll, kill switch, barriers, decision.
BacktestBar(c, day, wish) ==
    LET rolled == RollDay(broker, day, c.close)
        kill   == KillSwitch(rolled, c.close) /\ Open(rolled)
        safe   == IF kill THEN CloseLong(rolled, c.close * Scale) ELSE rolled
        hit    == Hit(safe, c)
        b      == CheckBarriers(safe, c)
        choice == Decide(b, c.close, wish)
        buys   == /\ choice = "buy" /\ ~Open(b) /\ ~KillSwitch(b, c.close)
                  /\ Value(wish.qty, c.close) <= Equity(b, c.close)
                  /\ Affordable(b, wish.qty, c.close)
        sells  == choice = "sell" /\ Open(b)
    IN  /\ broker' = IF buys THEN OpenLong(b, clock.bar + 1, c.close, wish.qty, wish.dist)
                     ELSE IF sells THEN CloseLong(b, c.close * Scale) ELSE b
        /\ trades' = trades + Counted(hit, buys, sells)
        /\ Note(c, day, Events(kill, hit, buys, sells))

\* One runOnce of the trader: the decision comes before the kill switch, which ends the
\* pass, and before the barriers.
TraderPass(c, day, bar, wish) ==
    LET rolled == RollDay(broker, day, c.close)
        choice == Decide(rolled, c.close, wish)
        kill   == KillSwitch(rolled, c.close)
        hit    == ~kill /\ Hit(rolled, c)
        b      == IF kill THEN CloseLong(rolled, c.close * Scale) ELSE CheckBarriers(rolled, c)
        buys   == ~kill /\ choice = "buy" /\ ~Open(b) /\ Affordable(b, wish.qty, c.close)
        sells  == ~kill /\ choice = "sell" /\ Open(b)
    IN  /\ broker' = IF buys THEN OpenLong(b, bar, c.close, wish.qty, wish.dist)
                     ELSE IF sells THEN CloseLong(b, c.close * Scale) ELSE b
        /\ UNCHANGED trades
        /\ Note(c, day, Events(kill /\ Open(rolled), hit, buys, sells))

Candles == {c \in [high : Prices, low : Prices, close : Prices] :
                c.low <= c.close /\ c.close <= c.high}

\* The last candle is of this day, has this number and looks like c so far.
Now(c, day, bar) ==
    /\ clock.pass < LastPass
    /\ clock' = [pass |-> clock.pass + 1, day |-> day, bar |-> bar]
    /\ candle' = [high |-> c.high, low |-> c.low]
    /\ UNCHANGED loop

\* The day of a new candle.
Days == {clock.day, clock.day + 1} \ {0}

Backtest ==
    /\ loop = "backtest"
    /\ \E c \in Candles, day \in Days, wish \in Wishes :
            Now(c, day, clock.bar + 1) /\ BacktestBar(c, day, wish)

TradeNewCandle ==
    /\ loop = "trader"
    /\ \E c \in Candles, day \in Days, wish \in Wishes :
            Now(c, day, clock.bar + 1) /\ TraderPass(c, day, clock.bar + 1, wish)

\* The candle that is forming has moved on.
TradeSameCandle ==
    /\ loop = "trader"
    /\ clock.bar > 0
    /\ \E c \in Candles, wish \in Wishes :
            /\ c.high >= candle.high /\ c.low <= candle.low
            /\ Now(c, clock.day, clock.bar) /\ TraderPass(c, clock.day, clock.bar, wish)

Next == Backtest \/ TradeNewCandle \/ TradeSameCandle

Spec == Init /\ [][Next]_vars

-----------------------------------------------------------------------------
(* Properties                                                               *)

Position ==
    {Flat} \cup [qty : Quantities, cost : Nat, stop : Int, target : Nat, bar : 1..LastPass]

TypeOK ==
    /\ loop \in Loops
    /\ clock \in [pass : 0..LastPass, day : Nat, bar : Nat]
    /\ candle \in [high : Nat, low : Nat]
    /\ broker \in [cash : Int, dayStart : Nat, dayEquity : Int,
                   pnl : Int, entryFees : Int, wins : Nat, pos : Position]
    /\ trades \in Nat
    /\ morning \in Int
    /\ reached \in BOOLEAN
    /\ did \subseteq {"kill", "barrier", "buy", "sell"}

\* The fills explain the cash: what was gained in closed positions, less the fees of all
\* entries and the cost of the open one, is the difference to the initial cash.
BooksBalance ==
    broker.cash = InitialCash * Unit + broker.pnl - broker.entryFees - broker.pos.cost

\* The paper account is never overdrawn, fees and slippage included.
NoOverdraft == broker.cash >= 0

\* Once a close of the day was beyond the daily loss limit, the account holds nothing
\* for the rest of the day, although the prices that took it there may come back.
FlatAfterLoss == reached => ~Open(broker)

\* The backtest enters no position when the loss of the day, measured from its first
\* close, is at the limit ("RiskAgent vetoes trades when limits are breached").
NoEntryPastLimit ==
    [][(loop = "backtest" /\ "buy" \in did') =>
        LET before == broker'.cash + broker'.pos.cost + (broker'.entryFees - broker.entryFees)
        IN  ~Beyond(morning', before)]_vars

\* In the backtest no barrier ends a position on the candle it was entered on, whose
\* high and low come from before the entry.
ExitAfterEntryBar ==
    [][(loop = "backtest" /\ "barrier" \in did') =>
        Open(broker) /\ broker.pos.bar < clock'.bar]_vars
=============================================================================
