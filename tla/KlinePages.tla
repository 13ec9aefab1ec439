----------------------------- MODULE KlinePages -----------------------------
(***************************************************************************)
(* Loading a range of candles page by page while the market goes on:       *)
(* FetchKlinesAll (pkg/binance/kline_fetch.go), which fills the hour       *)
(* files, and LoadCandles (pkg/marketdata/binance/load.go), which feeds    *)
(* the trader and the backtest.  Each page is a request of RestClient; an  *)
(* error of one discards the load, so only answered pages are here.        *)
(*                                                                         *)
(* Candle number k opens at k * Frame and closes one unit before the next  *)
(* one opens.  A market is the newest candle at the time of each page.     *)
(***************************************************************************)
EXTENDS Naturals, Sequences, SequencesExt, Sorting

CONSTANTS
    PageLimit,  \* candles per page, as asked for
    MaxPages,   \* the 10000 of FetchKlinesAll
    Frame       \* time units of a candle

ASSUME PagesAssumption == {PageLimit, MaxPages, Frame} \subseteq Nat \ {0}

Open(k)  == k * Frame
Close(k) == (k + 1) * Frame - 1

\* external: the first PageLimit candles that open in [cursor, end].
Served(cursor, end, newest) ==
    LET due == Ascending({k \in 0 .. newest : cursor <= Open(k) /\ Open(k) <= end})
    IN SubSeq(due, 1, IF Len(due) < PageLimit THEN Len(due) ELSE PageLimit)

\* Mutant: the next page starts with the last candle, not behind it.
NextAllRepeats(batch) == Open(Last(batch))

\* Where FetchKlinesAll goes on.
NextAll(batch) == Open(Last(batch)) + 1

\* Where LoadCandles goes on.
NextLoad(batch) == Close(Last(batch)) + 1

\* What is left to ask for, the candles so far, and whether the load is over.
Begun(from) == [cursor |-> from, all |-> <<>>, done |-> FALSE]

\* A page of FetchKlinesAll: an empty or a short one ends the load, and so does a next
\* page that would begin behind the end.
FetchPage(load, end, newest) ==
    LET batch == Served(load.cursor, end, newest)
    IN IF load.done THEN load
       ELSE IF batch = <<>> THEN [load EXCEPT !.done = TRUE]
       ELSE [cursor |-> NextAll(batch),
             all |-> load.all \o batch,
             done |-> Len(batch) < PageLimit \/ NextAll(batch) > end]

FetchKlinesAll(market, from, end) ==
    LET load[n \in 0 .. MaxPages] ==
            IF n = 0 THEN Begun(from) ELSE FetchPage(load[n - 1], end, market[n])
    IN load[MaxPages].all

\* A page of LoadCandles, which does not ask for a page that would begin at the end.
LoadPage(load, end, newest) ==
    LET batch == Served(load.cursor, end, newest)
    IN IF load.done \/ load.cursor >= end THEN load
       ELSE IF batch = <<>> THEN [load EXCEPT !.done = TRUE]
       ELSE [cursor |-> NextLoad(batch),
             all |-> load.all \o batch,
             done |-> Len(batch) < PageLimit]

\* It has no limit of pages: MaxPages is a bound here.
LoadCandles(market, from, end) ==
    LET load[n \in 0 .. MaxPages] ==
            IF n = 0 THEN Begun(from) ELSE LoadPage(load[n - 1], end, market[n])
    IN load[MaxPages].all

\* What a load of [from, end] owes: its candles from the first one on, each once and
\* in order, none left out up to `owed` that existed when the load began.
Whole(all, market, from, end, owed) ==
    LET first == CHOOSE k \in 0 .. from : from <= Open(k) /\ (k = 0 \/ Open(k - 1) < from)
    IN /\ \A i \in DOMAIN all : all[i] = first + i - 1 /\ Open(all[i]) <= end
       /\ \A k \in first .. market[1] : Open(k) <= owed => k < first + Len(all)
=============================================================================
