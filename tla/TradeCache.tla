----------------------------- MODULE TradeCache -----------------------------
(***************************************************************************)
(* Aggregate trades: the hourly files of the current day                   *)
(* (FetchAndCacheCurrentDayAggTrades, pkg/binance/live.go), and how a      *)
(* query is answered (API.AggTrades, internal/market/api.go, and           *)
(* Store.GetAggTrades, internal/store/duckdb.go).                          *)
(*                                                                         *)
(* A trade is named by its instant, <<day, hour, slot>>; the clock is the  *)
(* instant of the newest trade.  Unlike the candles of HourCache, a        *)
(* completed hour is never audited, a fetch is one page of at most Limit   *)
(* trades from the start of an hour, and nothing is merged: a file is what *)
(* one answer held.  A file stores the time of day of a trade; its row     *)
(* remembers the trade it really is, and a reader shows it on the day it   *)
(* supplies.  Temporary files are left out: no reader lists them.          *)
(***************************************************************************)
EXTENDS Naturals, FiniteSets

CONSTANTS
    Procs,         \* imports and queries that may run at once
    LastDay,       \* the clock stops at the end of this day (a bound)
    HoursPerDay,   \* 24 in the code
    SlotsPerHour,  \* trades of an hour, one at each instant
    Limit          \* 1000 in the code

ASSUME TradeAssumption ==
    /\ LastDay \in Nat
    /\ {HoursPerDay, SlotsPerHour, Limit} \subseteq Nat \ {0}

Day   == 0 .. LastDay
Hour  == 0 .. HoursPerDay - 1
Slot  == 0 .. SlotsPerHour - 1
Trade == Day \X Hour \X Slot
Path  == Day \X Hour             \* day=D/current/hour_HH.parquet

VARIABLES
    now,      \* the newest trade of the exchange
    file,     \* file[path]: the trades in it; a missing and an empty file have none
    pc,       \* where each process is
    job,      \* its range of days; of an import: its midnight, its current hour, the
              \* hour of its loop and the path computed for it
    buf,      \* trades fetched for that path
    out       \* the answer: trades, each with the day it is shown on

vars == <<now, file, pc, job, buf, out>>

HourOf(t)    == <<t[1], t[2]>>
Before(a, b) ==
    \/ a[1] < b[1]
    \/ a[1] = b[1] /\ a[2] < b[2]
    \/ a[1] = b[1] /\ a[2] = b[2] /\ a[3] < b[3]

Happened == {t \in Trade : ~Before(now, t)}

\* external: aggTrades answers with the first Limit trades of a window.
FirstOf(window) == {t \in window : Cardinality({u \in window : Before(u, t)}) < Limit}

\* Mutant: the request starts where the hour was a moment ago, not with the hour.
AskedNewest == {t \in Happened : HourOf(t) = HourOf(now) /\ now[3] <= t[3] + 1}

\* fetchCurrentHourAggTrades: from the start of the hour it is NOW.
AskedForCurrent == {t \in Happened : HourOf(t) = HourOf(now)}

\* The window of a completed hour ends with the first instant of the next one.
AskedForHour(d, h) ==
    {t \in Happened :
        \/ HourOf(t) = <<d, h>>
        \/ t[3] = 0 /\ HourOf(t) = IF h + 1 < HoursPerDay THEN <<d, h + 1>> ELSE <<d + 1, 0>>}

\* AggTrade.Parquet and ToAggTrade: the day of a row read is the reader's.
ShownOn(d, trades) == {[day |-> d, trade |-> t] : t \in trades}
AsFetched(trades)  == {[day |-> t[1], trade |-> t] : t \in trades}

NoJob == [from |-> 0, to |-> 0, mid |-> 0, cur |-> 0, hour |-> 0, path |-> <<0, 0>>]

Init ==
    /\ now = <<0, 0, 0>>
    /\ file = [p \in Path |-> {}]
    /\ pc = [p \in Procs |-> "idle"]
    /\ job = [p \in Procs |-> NoJob]
    /\ buf = [p \in Procs |-> {}]
    /\ out = [p \in Procs |-> {}]

-----------------------------------------------------------------------------
(* The import of the current day.                                           *)

\* DownloadAndTransform for today or later: midnight and hour are taken once.
StartImport(p) ==
    /\ pc[p] = "idle"
    /\ pc' = [pc EXCEPT ![p] = "hour"]
    /\ job' = [job EXCEPT ![p] = [NoJob EXCEPT !.mid = now[1], !.cur = now[2]]]
    /\ UNCHANGED <<now, file, buf, out>>

\* Mutant: the loop goes one hour too far.
AdvanceTooFar(p) ==
    LET last == job[p].hour > job[p].cur
    IN /\ job' = [job EXCEPT ![p].hour = IF last THEN @ ELSE @ + 1, ![p].path = <<0, 0>>]
       /\ pc' = [pc EXCEPT ![p] = IF last THEN "imported" ELSE "hour"]

\* The next hour of the loop, or the end of it.
Advance(p) ==
    LET last == job[p].hour = job[p].cur
    IN /\ job' = [job EXCEPT ![p].hour = IF last THEN @ ELSE @ + 1, ![p].path = <<0, 0>>]
       /\ pc' = [pc EXCEPT ![p] = IF last THEN "imported" ELSE "hour"]

\* readHourlyAggTradesParquet, with the midnight of the import as the day.
Cached(p, path) == ShownOn(job[p].mid, file[path])

\* The head of the loop: the path is the one of the day it is NOW, and whatever a
\* completed hour's file holds is taken for the hour, if it can be read.
NextHour(p) ==
    /\ pc[p] = "hour"
    /\ LET path == <<now[1], job[p].hour>>
       IN \/ /\ job[p].hour < job[p].cur /\ file[path] # {}
             /\ out' = [out EXCEPT ![p] = @ \cup Cached(p, path)]
             /\ Advance(p)
          \/ /\ job' = [job EXCEPT ![p].path = path]
             /\ pc' = [pc EXCEPT ![p] = "fetch"]
             /\ UNCHANGED out
    /\ UNCHANGED <<now, file, buf>>

\* The request to the exchange.  An empty answer is written for the current hour only.
Fetch(p) ==
    /\ pc[p] = "fetch"
    /\ LET open == job[p].hour = job[p].cur
           got  == FirstOf(IF open THEN AskedForCurrent
                                   ELSE AskedForHour(job[p].mid, job[p].hour))
       IN /\ out' = [out EXCEPT ![p] = @ \cup AsFetched(got)]
          /\ IF open \/ got # {}
             THEN /\ buf' = [buf EXCEPT ![p] = got]
                  /\ pc' = [pc EXCEPT ![p] = "write"]
                  /\ UNCHANGED job
             ELSE Advance(p) /\ UNCHANGED buf
    /\ UNCHANGED <<now, file>>

\* A failed request is logged and the hour left out of the answer.
FetchFails(p) ==
    /\ pc[p] = "fetch"
    /\ Advance(p)
    /\ UNCHANGED <<now, file, buf, out>>

\* writeHourlyAggTradesParquet: a temporary file takes the place of the old one, or
\* the failure is logged.
Write(p) ==
    /\ pc[p] = "write"
    /\ \/ file' = [file EXCEPT ![job[p].path] = buf[p]]
       \/ UNCHANGED file
    /\ buf' = [buf EXCEPT ![p] = {}]
    /\ Advance(p)
    /\ UNCHANGED <<now, out>>

-----------------------------------------------------------------------------
(* A query for the days from .. to.                                         *)

\* API.AggTrades: a range that ends today is asked from the exchange; otherwise the
\* imports of its days come first (as processes of their own; their errors are
\* logged) and the store is read.
Ask(p) ==
    /\ pc[p] = "idle"
    /\ \E from, to \in Day :
        /\ from <= to
        /\ job' = [job EXCEPT ![p] = [NoJob EXCEPT !.from = from, !.to = to]]
        /\ pc' = [pc EXCEPT ![p] = IF to = now[1] THEN "direct" ELSE "history"]
    /\ UNCHANGED <<now, file, buf, out>>

Direct(p) ==
    /\ pc[p] = "direct"
    /\ \/ /\ out' = [out EXCEPT ![p] =
                        AsFetched(FirstOf({t \in Happened : t[1] \in job[p].from .. job[p].to}))]
          /\ pc' = [pc EXCEPT ![p] = "answered"]
       \/ /\ pc' = [pc EXCEPT ![p] = "failed"]
          /\ UNCHANGED out
    /\ UNCHANGED <<now, file, job, buf>>

\* aggTradesFromParquet: what the daily files of the range hold, as far as the
\* archive had them (module DayImport).
DailyRows(from, to, days) == AsFetched({t \in Trade : t[1] \in days \cap (from .. to)})

\* aggTradesFromHourlyParquet: every hour file of the day it is NOW, shown on it.
HourlyRows(from, to) ==
    IF now[1] \in from .. to
    THEN ShownOn(now[1], UNION {file[<<now[1], h>>] : h \in Hour}) ELSE {}

\* GetAggTrades: an error of the daily files is logged and leaves them out ...
ReadHistory(p) ==
    /\ pc[p] = "history"
    /\ \E days \in SUBSET {d \in Day : d < now[1]} :
        out' = [out EXCEPT ![p] = DailyRows(job[p].from, job[p].to, days)]
    /\ pc' = [pc EXCEPT ![p] = IF job[p].to = now[1] THEN "hourly" ELSE "answered"]
    /\ UNCHANGED <<now, file, job, buf>>

\* ... while one of the hour files is the answer.
ReadHourly(p) ==
    /\ pc[p] = "hourly"
    /\ \/ /\ out' = [out EXCEPT ![p] = @ \cup HourlyRows(job[p].from, job[p].to)]
          /\ pc' = [pc EXCEPT ![p] = "answered"]
       \/ /\ pc' = [pc EXCEPT ![p] = "failed"]
          /\ UNCHANGED out
    /\ UNCHANGED <<now, file, job, buf>>

\* The caller takes the answer or the error.
Finish(p) ==
    /\ pc[p] \in {"imported", "answered", "failed"}
    /\ pc' = [pc EXCEPT ![p] = "idle"]
    /\ job' = [job EXCEPT ![p] = NoJob]
    /\ out' = [out EXCEPT ![p] = {}]
    /\ UNCHANGED <<now, file, buf>>

-----------------------------------------------------------------------------
\* The server stops: only the files are left.
Crash ==
    /\ \E p \in Procs : pc[p] # "idle"
    /\ pc' = [p \in Procs |-> "idle"]
    /\ job' = [p \in Procs |-> NoJob]
    /\ buf' = [p \in Procs |-> {}]
    /\ out' = [p \in Procs |-> {}]
    /\ UNCHANGED <<now, file>>

\* The next trade.
Tick ==
    /\ \E t \in Trade :
        /\ Before(now, t)
        /\ \A u \in Trade : Before(now, u) => ~Before(u, t)
        /\ now' = t
    /\ UNCHANGED <<file, pc, job, buf, out>>

Step(p) ==
    \/ NextHour(p) \/ Fetch(p) \/ FetchFails(p) \/ Write(p)
    \/ Direct(p) \/ ReadHistory(p) \/ ReadHourly(p) \/ Finish(p)

Next ==
    \/ \E p \in Procs : StartImport(p) \/ Ask(p) \/ Step(p)
    \/ Crash \/ Tick

Spec == Init /\ [][Next]_vars

-----------------------------------------------------------------------------
TypeOK ==
    /\ now \in Trade
    /\ file \in [Path -> SUBSET Trade]
    /\ pc \in [Procs -> {"idle", "hour", "fetch", "write", "imported",
                         "direct", "history", "hourly", "answered", "failed"}]
    /\ job \in [Procs -> [from : Day, to : Day, mid : Day, cur : Hour, hour : Hour,
                          path : Path]]
    /\ \A p \in Procs : job[p].hour <= job[p].cur
    /\ buf \in [Procs -> SUBSET Trade]
    /\ out \in [Procs -> SUBSET [day : Day, trade : Trade]]

\* What is missing in front of a trade: an earlier one of its hour.
HasNoHole(trades) ==
    \A t \in trades : \A s \in Slot : s < t[3] => <<t[1], t[2], s>> \in trades

\* An answer, even of a request during which hours and days went by, requests
\* failed, the server was restarted and other imports replaced the files, never
\* lacks a trade in front of one of the same hour that it has: what a page of Limit
\* trades or a file of an hour that was still open lacks is at the end of the hour.
AnswerHasNoHoles ==
    \A p \in Procs : \A d \in Day : HasNoHole({r.trade : r \in {o \in out[p] : o.day = d}})

\* The file of an hour ("an hourly parquet file for the given hour") holds trades of
\* that hour, or of the first instant after it, whose file it was made for.
HourFileHoldsItsHour ==
    \A p \in Path : \A t \in file[p] :
        HourOf(t) = p \/ (t[3] = 0 /\ t[2] = (p[2] + 1) % HoursPerDay)
=============================================================================
