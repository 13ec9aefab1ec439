----------------------------- MODULE Algorithms -----------------------------
(***************************************************************************)
(* The pure algorithms of KlinePages, ChartMath, PredictionRows and Labels *)
(* against what they owe: a state is one input, and nothing follows it.    *)
(***************************************************************************)
EXTENDS KlinePages, ChartMath, PredictionRows, Labels

CONSTANTS
    LastCandle, \* candles are numbered 0 .. LastCandle
    LastDay,    \* days of predictions
    Bounds,     \* bounds of an import and of a query
    Exports,    \* the sets of files an import may find, each a set of rows
    Polled,     \* what the poller may have stored of a day, counted from its start
    Size,       \* bars of a study
    Bars,       \* what a bar may be
    MaxFolds,
    MaxHold     \* bars of an embargo at most

\* A load fits into the pages it may take.
ASSUME CandleAssumption == LastCandle \in Nat /\ LastCandle < MaxPages * PageLimit

Instants == 0 .. (LastDay + 1) * DayLength - 1

ASSUME PredictionAssumption ==
    /\ LastDay \in Nat /\ Bounds \subseteq Nat
    /\ \A files \in Exports : \A f \in files : f \subseteq Instants
    /\ \A p \in Polled : p \subseteq 0 .. DayLength - 1

ASSUME StudyAssumption == {Size, MaxFolds, MaxHold} \subseteq Nat

VARIABLE input

None == [kind |-> "none"]

-----------------------------------------------------------------------------
\* The newest candle while the pages of a load are fetched.
Markets == {m \in [1 .. MaxPages -> 0 .. LastCandle] :
               \A a, b \in 1 .. MaxPages : a <= b => m[a] <= m[b]}

Load(market, from, end) == [kind |-> "load", market |-> market, from |-> from, end |-> end]

\* A load has every candle of its range that existed when it began, each once and in
\* order, however many opened while it went on and wherever the pages end: no border of
\* two pages repeats a candle or skips one.  Only LoadCandles may leave out a candle
\* that opens at the very end of its range.
PagesAreWhole ==
    input.kind = "load" =>
        LET all   == FetchKlinesAll(input.market, input.from, input.end)
            most  == LoadCandles(input.market, input.from, input.end)
        IN /\ Whole(all, input.market, input.from, input.end, input.end)
           /\ input.from < input.end =>
                Whole(most, input.market, input.from, input.end, input.end - 1)

-----------------------------------------------------------------------------
\* A series has some of the candles; a tail is the last two of the market when it was
\* asked for, or the only one.
Series == {[i \in 1 .. Cardinality(c) |-> [open |-> Ascending(c)[i], from |-> "load"]] :
              c \in (SUBSET (0 .. LastCandle)) \ {{}}}
Tails == {<<[open |-> 0, from |-> "live"]>>} \cup
         {<<[open |-> k, from |-> "live"], [open |-> k + 1, from |-> "live"]>> :
             k \in 0 .. LastCandle + 1}

Live(klines, fdp, shift, tail) ==
    [kind |-> "live", klines |-> klines, fdp |-> fdp, shift |-> shift, tail |-> tail]

HasNoGap(klines) == Last(klines).open - Head(klines).open = Len(klines) - 1

\* After a load, a drag and a live update the series still ascends, has every candle it
\* had but the oldest ones when it is full, and ends with the newest candle as the update
\* told it, even if the server sent the candles newest first; a series without a gap has
\* none in view as long as updates join on; the drag kept the view inside the data and as
\* wide as it was; and the update left a view of the past where it was and one at the end
\* at the end.
TailIsMerged ==
    input.kind = "live" =>
        LET before == Loaded(ChartKlines(IF input.fdp THEN Reverse(input.klines) ELSE <<>>,
                                         input.klines))
            panned == Pan(before, input.shift)
            after  == ApplyLive(panned, input.tail)
            data   == TimeRange(panned.klines)
            newest == Last(input.tail)
        IN /\ \A i \in 1 .. Len(after.klines) - 1 :
                after.klines[i].open < after.klines[i + 1].open
           /\ \A i \in DOMAIN input.klines :
                \/ \E j \in DOMAIN after.klines : after.klines[j].open = input.klines[i].open
                \/ Len(after.klines) = MaxKlines /\ input.klines[i].open < Head(after.klines).open
           /\ Last(input.klines).open <= newest.open => Last(after.klines) = newest
           /\ HasNoGap(input.klines) /\ Head(input.tail).open <= Last(input.klines).open + 1
                => MaxEmptyBars(after) = 0
           /\ panned.view.max - panned.view.min = before.view.max - before.view.min
           /\ data.min <= panned.view.min /\ panned.view.max <= data.max
           /\ IF AtLiveEdge(panned) THEN after.view.max = CloseTime(Last(after.klines))
                                    ELSE after.view = panned.view

-----------------------------------------------------------------------------
\* An export and the kind it is of, what is imported of it, and a query on day `today`,
\* whose polled rows are in its current files and in its daily file.
Ask(source, files, since, until, from, to, today, polled) ==
    [kind |-> "ask", source |-> source, files |-> files, since |-> since, until |-> until,
     from |-> from, to |-> to, today |-> today, polled |-> polled]

Days == 0 .. LastDay

\* What is imported and asked for again is there: of past days the prices of the import,
\* or the last one of each window if it resamples, of today what was polled, in order and
\* each row once, although today's rows are in two files and the import may bring rows of
\* today as well; and a query that is refused would have had nothing to bring.
PredictionsComeBack ==
    input.kind = "ask" =>
        LET start  == input.today * DayLength
            polled == {start + t : t \in input.polled}
            stored == [d \in Days |-> IF d = input.today THEN polled ELSE {}]
            daily  == WriteByDay(stored, ImportFromPath(input.source, input.files,
                                                        input.since, input.until))
            taken  == Within(UNION input.files, input.since, input.until)
            kept   == IF input.source = "hf" THEN taken ELSE
                      {t \in taken : \A u \in taken : u \div Window = t \div Window => u <= t}
            owed   == {t \in kept : t < start} \cup polled
        IN IF Refused(daily, input.from, input.to, input.today) THEN owed = {}
           ELSE GetPredictions(daily, stored, input.from, input.to, input.today)
                    = Ascending(Within(owed, input.from, input.to))

-----------------------------------------------------------------------------
Study(bars, folds, hold, embargo) ==
    [kind |-> "study", bars |-> bars, folds |-> folds, hold |-> hold, embargo |-> embargo]

\* With an embargo of at least the holding time (both are 24 by default), no bar of a
\* test changes the label of a bar trained on, no bar trained on changes the label of a
\* bar tested, and every bar is tested exactly once.
FoldsAreApart ==
    input.kind = "study" =>
        LET InTest(f)  == Test(Size, input.folds, f)
            InTrain(f) == Train(Size, input.folds, f, input.embargo)
            Folds      == 0 .. input.folds - 1
            Same(i, j) == \A b \in Bars :
                LabelAt([input.bars EXCEPT ![j] = b], Size, i, input.hold)
                    = LabelAt(input.bars, Size, i, input.hold)
        IN /\ \A f \in Folds : \A i \in InTrain(f), j \in InTest(f) : Same(i, j) /\ Same(j, i)
           /\ \A i \in Indices(Size) : \E f \in Folds : \A g \in Folds : i \in InTest(g) <=> g = f

-----------------------------------------------------------------------------
NoInput == input = None

TakeInput ==
    /\ input = None
    /\ \/ \E market \in Markets, from, end \in 0 .. Open(LastCandle) :
             from <= end /\ input' = Load(market, from, end)
       \/ \E klines \in Series, fdp \in BOOLEAN, tail \in Tails,
             shift \in -Bar * (LastCandle + 1) .. Bar * (LastCandle + 1) :
             input' = Live(klines, fdp, shift, tail)
       \/ \E source \in {"hf", "polydata"}, files \in Exports, polled \in Polled,
             since, until, from, to \in Bounds, today \in Days :
             input' = Ask(source, files, since, until, from, to, today, polled)
       \/ \E bars \in [Indices(Size) -> Bars], folds \in 2 .. MaxFolds,
             hold, embargo \in 1 .. MaxHold :
             hold <= embargo /\ input' = Study(bars, folds, hold, embargo)

InputSpec == NoInput /\ [][TakeInput]_input
=============================================================================
