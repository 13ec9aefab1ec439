----------------------------- MODULE ChartMath -----------------------------
(***************************************************************************)
(* The series and the viewport of the terminal's chart                     *)
(* (cmd/predictions/chart.go, fdp_chart.go and tab_charts.go): what a      *)
(* load, a drag and a live update do to them.  When these happen is in     *)
(* module Terminal.                                                        *)
(*                                                                         *)
(* A candle is [open, from]: its number and the answer it came with.       *)
(* Times are integers, so the rounding of a view to milliseconds is exact; *)
(* a drag is the shift its pixels make.                                    *)
(***************************************************************************)
EXTENDS Integers, FiniteSets, SequencesExt

CONSTANTS
    Bar,          \* time units of a candle
    VisibleBars,  \* 72 in scrollKlineViewToEnd
    MaxKlines     \* 500 in mergeKlineTail

ASSUME ChartAssumption == {Bar, VisibleBars, MaxKlines} \subseteq Nat \ {0}

OpenTime(k)  == k.open * Bar
CloseTime(k) == (k.open + 1) * Bar - 1

-----------------------------------------------------------------------------
\* fdpCandlesToKlines: the server's candles by time, those of one time as it sent them.
FdpKlines(candles) ==
    LET Before(i) == {j \in DOMAIN candles :
                         \/ OpenTime(candles[j]) < OpenTime(candles[i])
                         \/ OpenTime(candles[j]) = OpenTime(candles[i]) /\ j < i}
    IN [n \in DOMAIN candles |->
            candles[CHOOSE i \in DOMAIN candles : Cardinality(Before(i)) = n - 1]]

\* fetchChartKlines: the server's candles, or the exchange's when the server fails, is
\* not configured or has none.
ChartKlines(candles, exchange) ==
    IF candles # <<>> THEN FdpKlines(candles) ELSE exchange

-----------------------------------------------------------------------------
\* klineTimeRange: what syncKlineChart makes the range of the data.
TimeRange(klines) == [min |-> OpenTime(Head(klines)), max |-> CloseTime(Last(klines))]

\* scrollKlineViewToEnd
ScrollToEnd(klines) ==
    LET end   == CloseTime(Last(klines))
        start == end - VisibleBars * Bar
        min   == OpenTime(Head(klines))
    IN [min |-> IF start < min THEN min ELSE start, max |-> end]

\* syncKlineChart: the data is replaced; the view is the caller's, whatever the data is.
Sync(klines, view) == [klines |-> klines, view |-> view]

\* applyKlines of a load that does not restore a view.
Loaded(klines) == Sync(klines, ScrollToEnd(klines))

\* panChartViewByDX: the view is held back at both ends of the data.
Pan(chart, shift) ==
    LET data == TimeRange(chart.klines)
        span == chart.view.max - chart.view.min
        left == chart.view.min + shift
        \* no further left than the data, then no further right
        kept == IF left < data.min THEN data.min ELSE left
        min  == IF kept + span > data.max THEN data.max - span ELSE kept
        view == [min |-> IF min < data.min THEN data.min ELSE min,
                 max |-> IF min + span > data.max THEN data.max ELSE min + span]
    IN IF span <= 0 \/ shift = 0 \/ view.max <= view.min THEN chart
       ELSE [chart EXCEPT !.view = view]

\* Mutant: a candle the series already has is appended again.
AppendAgain(klines, k) == Append(klines, k)

\* One candle of the tail: it takes the place of the last one or follows it.
PutTail(klines, k) ==
    IF Last(klines).open = k.open THEN Append(Front(klines), k)
    ELSE IF Last(klines).open < k.open THEN Append(klines, k)
    ELSE klines

\* mergeKlineTail, of a series that is not empty.
MergeTail(klines, tail) ==
    LET merged[n \in 0 .. Len(tail)] ==
            IF n = 0 THEN klines ELSE PutTail(merged[n - 1], tail[n])
        out == merged[Len(tail)]
    IN IF Len(out) > MaxKlines THEN SubSeq(out, Len(out) - MaxKlines + 1, Len(out)) ELSE out

\* chartAtLiveEdge: within 2 % of the end of the data.
AtLiveEdge(chart) ==
    LET data == TimeRange(chart.klines)
    IN data.max <= data.min \/ 50 * (data.max - chart.view.max) <= data.max - data.min

\* applyLive: the view is kept, or scrolled when it was at the end.
ApplyLive(chart, tail) ==
    LET klines == MergeTail(chart.klines, tail)
    IN Sync(klines, IF AtLiveEdge(chart) THEN ScrollToEnd(klines) ELSE chart.view)

\* maxEmptyBarsInView: missing bars between two candles of the view, for "gaps".
MaxEmptyBars(chart) ==
    LET seen == {i \in DOMAIN chart.klines :
                    LET t == OpenTime(chart.klines[i])
                    IN chart.view.min <= t /\ t <= chart.view.max}
        holes == {chart.klines[i + 1].open - chart.klines[i].open - 1 :
                     i \in {j \in seen : j + 1 \in seen}}
    IN CHOOSE h \in holes \cup {0} : \A g \in holes : g <= h
=============================================================================
