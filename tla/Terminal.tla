------------------------------ MODULE Terminal ------------------------------
(***************************************************************************)
(* The terminal program cmd/predictions: a table of predictions and a      *)
(* chart of candles behind two tabs.  Update handles one message at a      *)
(* time; the commands it returns (requests and timers) run beside it and   *)
(* answer with a message of their own, in any order and after any delay.   *)
(*                                                                         *)
(* Requests in flight carry the market and frame they asked for; the       *)
(* answers (binanceKlinesMsg, chartLiveMsg) do not, so the handlers below  *)
(* use that label for the candles they store and never to choose what to   *)
(* do.  Candles are represented by the labels of the requests that         *)
(* delivered them; the viewport, prices and texts are left out (the        *)
(* arithmetic of the viewport is in ChartMath).                            *)
(***************************************************************************)
EXTENDS Naturals, FiniteSets

CONSTANTS
    NumMarkets,  \* len(chartMarkets)
    NumFrames,   \* len(chartFrames), from the finest to the coarsest
    MaxTicks,    \* bound: timers of one kind that run at the same time
    MaxAsked     \* bound: chart requests of one kind and label in flight

ASSUME TerminalAssumption ==
    /\ NumMarkets \in Nat \ {0}
    /\ NumFrames \in Nat \ {0}
    /\ MaxTicks \in Nat \ {0}
    /\ MaxAsked \in Nat \ {0}

VARIABLES
    tab,         \* "predictions" or "charts"
    fetching,    \* predictionsModel.fetching
    market, frame, loading, failed, focused, dragging, restore,
                 \* chartsModel: marketIdx, frameIdx, loading, errText # "",
                 \* focused, drag.active, restoreViewAfterLoad
    klines,      \* labels of the requests the chart's candles came from
    fetches,     \* table requests in flight
    asked,       \* chart loads in flight, by label
    live,        \* live updates in flight, by label
    predTicks, chartTicks, dragTicks,
                 \* timers running, by kind
    overlapped   \* history: the label changed while a chart request was in
                 \* flight, and no full load has come in alone since

tableVars == <<fetching, fetches, predTicks>>
shownVars == <<market, frame, loading, failed, focused, restore, klines>>
vars == <<tab, tableVars, shownVars, dragging, dragTicks, asked, live,
          chartTicks, overlapped>>

Labels == (0 .. NumMarkets - 1) \X (0 .. NumFrames - 1)

Label == <<market, frame>>

InFlight(box) == {l \in Labels : box[l] > 0}

Quiet == InFlight(asked) \cup InFlight(live) = {}

\* Messages taken out of, and commands put into, the set of running commands.
Plus(box, l) == [box EXCEPT ![l] = @ + 1]

Less(box, l) == [box EXCEPT ![l] = @ - 1]

Room(box, l) == box[l] < MaxAsked

-----------------------------------------------------------------------------
\* newRootModel, Init: the table is being fetched and its timer runs; the
\* chart counts as loading although nothing has been asked for it yet.
Init ==
    /\ tab = "predictions"
    /\ fetching = TRUE /\ fetches = 1 /\ predTicks = 1
    /\ market = 0 /\ frame = IF NumFrames > 1 THEN 1 ELSE 0
    /\ loading = TRUE /\ failed = FALSE /\ focused = FALSE /\ restore = FALSE
    /\ klines = {}
    /\ dragging = FALSE /\ dragTicks = 0
    /\ asked = [l \in Labels |-> 0] /\ live = [l \in Labels |-> 0]
    /\ chartTicks = 0
    /\ overlapped = FALSE

-----------------------------------------------------------------------------
\* The predictions tab.

\* Mutant: the key does not look whether a refresh is under way.
RefreshKeyAlways ==
    /\ tab = "predictions" /\ fetches < 2
    /\ fetching' = TRUE
    /\ fetches' = fetches + 1
    /\ UNCHANGED <<tab, predTicks, shownVars, dragging, dragTicks, asked, live,
                   chartTicks, overlapped>>

\* Key "r": a refresh unless one is already under way.
RefreshKey ==
    /\ tab = "predictions"
    /\ ~fetching
    /\ fetching' = TRUE
    /\ fetches' = fetches + 1
    /\ UNCHANGED <<tab, predTicks, shownVars, dragging, dragTicks, asked, live,
                   chartTicks, overlapped>>

\* Keys "+" and "-": the new interval starts a timer of its own; the timer
\* that already runs goes on.
IntervalKey ==
    /\ tab = "predictions"
    /\ predTicks < MaxTicks
    /\ predTicks' = predTicks + 1
    /\ UNCHANGED <<tab, fetching, fetches, shownVars, dragging, dragTicks, asked,
                   live, chartTicks, overlapped>>

\* predictionsTickMsg: the handler starts the next timer itself, and a request
\* unless one is under way.  On the other tab the message is dropped.
PredictionsTick ==
    /\ predTicks > 0
    /\ IF tab = "predictions"
       THEN /\ fetching' = TRUE
            /\ fetches' = IF fetching THEN fetches ELSE fetches + 1
            /\ UNCHANGED predTicks
       ELSE /\ predTicks' = predTicks - 1
            /\ UNCHANGED <<fetching, fetches>>
    /\ UNCHANGED <<tab, shownVars, dragging, dragTicks, asked, live, chartTicks,
                   overlapped>>

\* fetchMsg, delivered to the table whichever tab is shown.
TableAnswer ==
    /\ fetches > 0
    /\ fetches' = fetches - 1
    /\ fetching' = FALSE
    /\ UNCHANGED <<tab, predTicks, shownVars, dragging, dragTicks, asked, live,
                   chartTicks, overlapped>>

-----------------------------------------------------------------------------
\* switchTab

\* Mutant: no timer is started for the chart.
OpenChartsQuietly ==
    /\ tab = "predictions"
    /\ Room(asked, Label)
    /\ tab' = "charts"
    /\ dragging' = FALSE
    /\ focused' = TRUE
    /\ asked' = Plus(asked, Label)
    /\ UNCHANGED <<tableVars, market, frame, loading, failed, restore, klines,
                   dragTicks, live, chartTicks, overlapped>>

\* To the charts: resize ends a drag, the chart is focused, a load and a timer
\* start.
OpenCharts ==
    /\ tab = "predictions"
    /\ Room(asked, Label) /\ chartTicks < MaxTicks
    /\ tab' = "charts"
    /\ dragging' = FALSE
    /\ focused' = TRUE
    /\ asked' = Plus(asked, Label)
    /\ chartTicks' = chartTicks + 1
    /\ UNCHANGED <<tableVars, market, frame, loading, failed, restore, klines,
                   dragTicks, live, overlapped>>

\* To the predictions: neither a request nor a timer is started.
OpenPredictions ==
    /\ tab = "charts"
    /\ tab' = "predictions"
    /\ focused' = FALSE
    /\ UNCHANGED <<tableVars, market, frame, loading, failed, restore, klines,
                   dragging, dragTicks, asked, live, chartTicks, overlapped>>

\* Key "tab": an unfocused chart is focused first, a focused one is left.
TabKey ==
    \/ OpenCharts
    \/ /\ tab = "charts"
       /\ focused' = ~focused
       /\ tab' = IF focused THEN "predictions" ELSE tab
       /\ UNCHANGED <<tableVars, market, frame, loading, failed, restore, klines,
                      dragging, dragTicks, asked, live, chartTicks, overlapped>>

\* Mutant: a click beside the names is taken for a tab.
TabClickAnywhere ==
    \/ OpenCharts \/ OpenPredictions
    \/ /\ tab' = "none"
       /\ UNCHANGED <<tableVars, shownVars, dragging, dragTicks, asked, live,
                      chartTicks, overlapped>>

\* A click on the name of a tab.
TabClick == OpenCharts \/ OpenPredictions

\* WindowSizeMsg: both tabs are resized, a drag ends, and a chart without
\* candles that is still loading is asked for again.
Resize ==
    /\ Room(asked, Label)
    /\ dragging' = FALSE
    /\ asked' = IF tab = "charts" /\ loading /\ klines = {}
                THEN Plus(asked, Label) ELSE asked
    /\ UNCHANGED <<tab, tableVars, shownVars, dragTicks, live, chartTicks,
                   overlapped>>

-----------------------------------------------------------------------------
\* Keys and mouse on the charts tab.

\* frameUp and frameDown, over the list of frames as a ring.
FrameUp == IF frame = 0 THEN NumFrames - 1 ELSE frame - 1

FrameDown == (frame + 1) % NumFrames

\* A load of another label while older requests are still in flight.
AskFor(m, f) ==
    /\ Room(asked, <<m, f>>)
    /\ market' = m /\ frame' = f
    /\ asked' = Plus(asked, <<m, f>>)
    /\ overlapped' = (overlapped \/ (<<m, f>> # Label /\ ~Quiet))

Load(m, f) ==
    /\ tab = "charts"
    /\ AskFor(m, f)
    /\ loading' = TRUE
    /\ UNCHANGED <<tab, tableVars, failed, restore, klines, dragging, dragTicks,
                   live, chartTicks>>

FrameKey ==
    /\ klines = {} => focused
    /\ \E f \in {FrameUp, FrameDown} : Load(market, f)
    /\ focused' = TRUE

MarketKey == Load((market + 1) % NumMarkets, frame) /\ UNCHANGED focused

NextFrameKey == Load(market, FrameDown) /\ UNCHANGED focused

\* Keys "r" and "s": there is one source only.
ReloadKey == Load(market, frame) /\ UNCHANGED focused

\* chartWheel: a zoom, unless the candles in view are too far apart; then the
\* next finer or coarser frame is asked for, the view is kept for it, and the
\* chart does not count as loading.
Zoom ==
    /\ tab = "charts" /\ klines # {}
    /\ focused' = TRUE
    /\ UNCHANGED <<tab, tableVars, market, frame, loading, failed, restore, klines,
                   dragging, dragTicks, asked, live, chartTicks, overlapped>>

WheelFrame(f) ==
    /\ AskFor(market, f)
    /\ restore' = TRUE

WheelSparse ==
    /\ tab = "charts" /\ klines # {}
    /\ focused' = TRUE
    /\ \/ frame > 0 /\ WheelFrame(frame - 1)
       \/ frame < NumFrames - 1 /\ WheelFrame(frame + 1)
       \/ /\ frame \in {0, NumFrames - 1}
          /\ restore' = FALSE
          /\ UNCHANGED <<market, frame, asked, overlapped>>
    /\ UNCHANGED <<tab, tableVars, loading, failed, klines, dragging, dragTicks,
                   live, chartTicks>>

Press ==
    /\ tab = "charts" /\ klines # {}
    /\ dragTicks < MaxTicks
    /\ dragging' = TRUE
    /\ focused' = TRUE
    /\ dragTicks' = dragTicks + 1
    /\ UNCHANGED <<tab, tableVars, market, frame, loading, failed, restore, klines,
                   asked, live, chartTicks, overlapped>>

\* A release reaches the chart only while its tab is shown.
Release ==
    /\ tab = "charts" /\ klines # {}
    /\ dragging
    /\ dragging' = FALSE
    /\ UNCHANGED <<tab, tableVars, shownVars, dragTicks, asked, live, chartTicks,
                   overlapped>>

-----------------------------------------------------------------------------
\* Timers and answers of the chart.

\* chartDragTickMsg is handled on either tab and goes on while the drag does.
DragTick ==
    /\ dragTicks > 0
    /\ dragTicks' = IF dragging THEN dragTicks ELSE dragTicks - 1
    /\ UNCHANGED <<tab, tableVars, shownVars, dragging, asked, live, chartTicks,
                   overlapped>>

\* Mutant: while the chart loads the message is not followed by a timer.
ChartsTickPauses ==
    /\ chartTicks > 0
    /\ IF tab = "charts" /\ ~loading
       THEN /\ UNCHANGED chartTicks
            /\ IF ~failed
               THEN Room(live, Label) /\ live' = Plus(live, Label)
               ELSE UNCHANGED live
       ELSE chartTicks' = chartTicks - 1 /\ UNCHANGED live
    /\ UNCHANGED <<tab, tableVars, shownVars, dragging, dragTicks, asked,
                   overlapped>>

\* chartsTickMsg: the next timer, and a live update unless the chart loads or
\* shows an error.  On the other tab the message is dropped.
ChartsTick ==
    /\ chartTicks > 0
    /\ IF tab = "charts"
       THEN /\ UNCHANGED chartTicks
            /\ IF ~loading /\ ~failed
               THEN Room(live, Label) /\ live' = Plus(live, Label)
               ELSE UNCHANGED live
       ELSE chartTicks' = chartTicks - 1 /\ UNCHANGED live
    /\ UNCHANGED <<tab, tableVars, shownVars, dragging, dragTicks, asked,
                   overlapped>>

\* Mutant: an error leaves the chart loading.
LoadFailsLoading ==
    /\ failed' = TRUE
    /\ UNCHANGED <<loading, focused, restore, klines, overlapped>>

LoadFails ==
    /\ loading' = FALSE
    /\ failed' = TRUE
    /\ UNCHANGED <<focused, restore, klines, overlapped>>

\* Mutant: a load is merged into the candles that are there.
LoadMerges(l) ==
    /\ loading' = FALSE
    /\ failed' = FALSE
    /\ restore' = FALSE
    /\ klines' \in {klines, klines \cup {l}}
    /\ focused' = TRUE
    /\ overlapped' = (overlapped /\ ~(l = Label /\ Quiet'))

\* applyKlines stores the candles, which may be none, whatever is asked for by
\* now.
LoadSucceeds(l) ==
    /\ loading' = FALSE
    /\ failed' = FALSE
    /\ restore' = FALSE
    /\ klines' \in {{}, {l}}
    /\ focused' = TRUE
    /\ overlapped' = (overlapped /\ ~(l = Label /\ Quiet'))

\* binanceKlinesMsg
KlinesAnswer(l) ==
    /\ asked[l] > 0
    /\ asked' = Less(asked, l)
    /\ UNCHANGED live
    /\ LoadFails \/ LoadSucceeds(l)
    /\ UNCHANGED <<tab, tableVars, market, frame, dragging, dragTicks, chartTicks>>

\* chartLiveMsg: an error, an empty answer, an empty chart and a drag leave the
\* candles alone; else mergeKlineTail replaces or appends the newest ones, or
\* skips them where they are older than the chart's last.
LiveAnswer(l) ==
    /\ live[l] > 0
    /\ live' = Less(live, l)
    /\ klines' \in {klines} \cup
                   (IF klines = {} \/ dragging THEN {} ELSE {klines \cup {l}})
    /\ UNCHANGED <<tab, tableVars, market, frame, loading, failed, focused, restore,
                   dragging, dragTicks, asked, chartTicks, overlapped>>

-----------------------------------------------------------------------------
User ==
    \/ RefreshKey \/ IntervalKey
    \/ TabKey \/ TabClick \/ Resize
    \/ FrameKey \/ MarketKey \/ NextFrameKey \/ ReloadKey
    \/ Zoom \/ WheelSparse \/ Press \/ Release

Timers == PredictionsTick \/ ChartsTick \/ DragTick
Answers == TableAnswer \/ \E l \in Labels : KlinesAnswer(l) \/ LiveAnswer(l)

Next == User \/ Timers \/ Answers

\* The chart's timer fires, and every load answers, at the latest with the error
\* of its timeout (cfg.timeout); the user owes nothing, and nothing is assumed of
\* the table or of live updates.
Fairness ==
    /\ WF_vars(ChartsTick)
    /\ \A l \in Labels : WF_vars(KlinesAnswer(l))

Spec == Init /\ [][Next]_vars
FairSpec == Spec /\ Fairness

-----------------------------------------------------------------------------
TypeOK ==
    /\ tab \in {"predictions", "charts"}
    /\ {fetching, loading, failed, focused, dragging, restore, overlapped}
           \subseteq BOOLEAN
    /\ market \in 0 .. NumMarkets - 1 /\ frame \in 0 .. NumFrames - 1
    /\ klines \subseteq Labels
    /\ fetches \in Nat /\ predTicks \in Nat /\ chartTicks \in Nat /\ dragTicks \in Nat
    /\ asked \in [Labels -> Nat] /\ live \in [Labels -> Nat]

\* The flag that keeps a second table request from being sent agrees with the
\* requests in flight: the key, every timer chain and an answer that arrives on
\* the other tab all go through it, and never do two run at once.
OneTableRequest == fetches = IF fetching THEN 1 ELSE 0

\* While the chart is shown a timer runs for it: leaving the tab drops timers
\* only after coming back would have started another.
ChartsTimerRuns == tab = "charts" => chartTicks > 0

\* When no change of market or frame overtook a request, the candles on the
\* screen are those of the market and frame written above them, whatever order
\* loads, live updates, errors, drags and tab changes came in.
ShownIsLabelled ==
    tab = "charts" /\ ~loading /\ ~failed /\ InFlight(asked) = {} /\ ~overlapped
        => klines \subseteq {Label}

\* A chart that is shown without an error is asked for live candles again and
\* again.
ChartIsFollowed ==
    []<>(tab = "charts" /\ ~loading /\ ~failed => InFlight(live) # {})

\* Loading ends: with candles or with an error.
LoadingEnds == (tab = "charts" /\ loading) ~> ~loading

\* main.go, flag "refresh": "TUI predictions table refresh interval".  While the
\* table is shown a timer runs for its next refresh.
TableIsRefreshed == tab = "predictions" => predTicks > 0
=============================================================================
