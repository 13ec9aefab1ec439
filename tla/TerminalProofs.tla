--------------------------- MODULE TerminalProofs ---------------------------
(***************************************************************************)
(* Proofs about Terminal, for any number of markets and frames and any     *)
(* number of timers and requests at the same time.                         *)
(***************************************************************************)
EXTENDS Terminal, TLAPS

Boxes == [Labels -> Nat]

\* Unless a change of the label overtook a request, all requests in flight are for the
\* label, and what is shown is of it, or is about to be replaced, or an error is shown.
LabelOK ==
    ~overlapped =>
        /\ \A l \in Labels : asked[l] > 0 \/ live[l] > 0 => l = Label
        /\ klines \subseteq {Label} \/ failed \/ InFlight(asked) # {}

IInv ==
    /\ TypeOK
    /\ OneTableRequest
    /\ ChartsTimerRuns
    /\ LabelOK

-----------------------------------------------------------------------------
(* Labels and the requests that carry them.                                 *)

\* There is a market and a frame.
LEMMA Bounds ==
    /\ NumMarkets \in Nat /\ NumMarkets > 0
    /\ NumFrames \in Nat /\ NumFrames > 0
  BY TerminalAssumption

\* The ring of frames, and of markets, stays within its list.
LEMMA Rings ==
    ASSUME TypeOK
    PROVE  /\ FrameUp \in 0 .. NumFrames - 1
           /\ FrameDown \in 0 .. NumFrames - 1
           /\ (market + 1) % NumMarkets \in 0 .. NumMarkets - 1
  BY Bounds DEF TypeOK, FrameUp, FrameDown

\* A request put into a box, and one taken out.
LEMMA OneMore ==
    ASSUME NEW box \in Boxes, NEW l \in Labels
    PROVE  /\ Plus(box, l) \in Boxes
           /\ InFlight(Plus(box, l)) = InFlight(box) \cup {l}
<1>1. Plus(box, l) \in Boxes
  BY DEF Plus, Boxes
<1>2. \A k \in Labels : Plus(box, l)[k] = IF k = l THEN box[k] + 1 ELSE box[k]
  BY DEF Plus, Boxes
<1>3. \A k \in Labels : Plus(box, l)[k] > 0 <=> box[k] > 0 \/ k = l
  BY <1>2 DEF Boxes
<1> QED
  BY <1>1, <1>3 DEF InFlight

\* The same for one taken out.
LEMMA OneLess ==
    ASSUME NEW box \in Boxes, NEW l \in Labels, box[l] > 0
    PROVE  /\ Less(box, l) \in Boxes
           /\ InFlight(Less(box, l)) \subseteq InFlight(box)
<1>1. \A k \in Labels : Less(box, l)[k] = IF k = l THEN box[k] - 1 ELSE box[k]
  BY DEF Less, Boxes
<1>2. \A k \in Labels : Less(box, l)[k] \in Nat /\ (Less(box, l)[k] > 0 => box[k] > 0)
  BY <1>1 DEF Boxes
<1>3. Less(box, l) \in Boxes
  BY <1>2 DEF Less, Boxes
<1> QED
  BY <1>2, <1>3 DEF InFlight

\* What LabelOK says of requests, in terms of InFlight.
LEMMA Asked ==
    LabelOK <=> (~overlapped =>
                    /\ InFlight(asked) \cup InFlight(live) \subseteq {Label}
                    /\ klines \subseteq {Label} \/ failed \/ InFlight(asked) # {})
  BY DEF LabelOK, InFlight

-----------------------------------------------------------------------------
(* The actions.                                                             *)

\* In the beginning nothing of the chart is in flight and the table asks once.
LEMMA InitIInv == Init => IInv
<1> SUFFICES ASSUME Init
             PROVE  IInv
  OBVIOUS
<1>1. asked \in Boxes /\ live \in Boxes /\ \A l \in Labels : asked[l] = 0 /\ live[l] = 0
  BY DEF Init, Boxes
<1>2. market \in 0 .. NumMarkets - 1 /\ frame \in 0 .. NumFrames - 1
  BY Bounds DEF Init
<1>3. {fetching, loading, failed, focused, dragging, restore, overlapped} \subseteq BOOLEAN
  BY Zenon DEF Init
<1>4. TypeOK
  BY <1>1, <1>2, <1>3 DEF Init, TypeOK, Boxes
<1>5. LabelOK
  BY <1>1 DEF Init, LabelOK
<1> QED
  BY <1>4, <1>5 DEF Init, IInv, OneTableRequest, ChartsTimerRuns

\* Actions of the table, of timers and of the mouse leave what LabelOK is about.
LEMMA SameLabel ==
    ASSUME LabelOK, UNCHANGED <<overlapped, asked, live, market, frame, klines, failed>>
    PROVE  LabelOK'
  BY DEF LabelOK, Label, InFlight

\* The table: each key, timer and answer keeps the flag and the request together.
LEMMA TableKeeps ==
    ASSUME IInv, RefreshKey \/ IntervalKey \/ PredictionsTick \/ TableAnswer
    PROVE  IInv'
<1>1. UNCHANGED <<tab, shownVars, dragging, dragTicks, asked, live, chartTicks, overlapped>>
  BY DEF RefreshKey, IntervalKey, PredictionsTick, TableAnswer
<1>2. LabelOK' /\ ChartsTimerRuns'
  BY <1>1, SameLabel DEF IInv, ChartsTimerRuns, shownVars
<1>3. OneTableRequest' /\ fetching' \in BOOLEAN /\ fetches' \in Nat /\ predTicks' \in Nat
  <2>1. /\ fetching \in BOOLEAN /\ predTicks \in Nat
        /\ fetches = IF fetching THEN 1 ELSE 0
    BY DEF IInv, TypeOK, OneTableRequest
  <2>2. CASE RefreshKey
    BY <2>1, <2>2 DEF RefreshKey, OneTableRequest
  <2>3. CASE IntervalKey
    BY <2>1, <2>3 DEF IntervalKey, OneTableRequest
  <2>4. CASE PredictionsTick
    <3>1. fetches' = IF fetching' THEN 1 ELSE 0
      BY <2>1, <2>4 DEF PredictionsTick
    <3>2. fetching' \in BOOLEAN
      BY <2>1, <2>4, Zenon DEF PredictionsTick
    <3>3. predTicks' \in Nat
      BY <2>1, <2>4 DEF PredictionsTick
    <3> QED
      BY <3>1, <3>2, <3>3 DEF OneTableRequest
  <2>5. CASE TableAnswer
    <3>1. fetches' = 0
      BY <2>1, <2>5 DEF TableAnswer
    <3>2. fetching' = FALSE /\ predTicks' = predTicks
      BY <2>5 DEF TableAnswer
    <3> QED
      BY <2>1, <3>1, <3>2 DEF OneTableRequest
  <2> QED
    BY <2>2, <2>3, <2>4, <2>5
<1>4. TypeOK'
  BY <1>1, <1>3 DEF IInv, TypeOK, shownVars
<1> QED
  BY <1>2, <1>3, <1>4 DEF IInv

\* A request for the label that is shown.
LEMMA AskAgain ==
    ASSUME IInv, asked' = Plus(asked, Label) \/ UNCHANGED asked,
           UNCHANGED <<overlapped, live, market, frame, klines, failed>>
    PROVE  LabelOK' /\ asked' \in Boxes
<1>1. Label \in Labels /\ asked \in Boxes
  BY DEF IInv, TypeOK, Label, Labels, Boxes
<1>2. CASE asked' = Plus(asked, Label)
  <2>1. /\ InFlight(Plus(asked, Label)) = InFlight(asked) \cup {Label}
        /\ asked' \in Boxes
    BY <1>1, <1>2, OneMore
  <2>2. InFlight(asked') = InFlight(asked) \cup {Label}
    BY <1>2, <2>1
  <2> QED
    BY <2>1, <2>2 DEF IInv, LabelOK, InFlight, Label
<1>3. CASE UNCHANGED asked
  BY <1>1, <1>3, SameLabel DEF IInv
<1> QED
  BY <1>2, <1>3

\* The charts tab is opened together with a timer and a load of the label.
LEMMA OpenChartsKeeps ==
    ASSUME IInv, OpenCharts
    PROVE  IInv'
<1>1. LabelOK' /\ asked' \in Boxes
  BY AskAgain DEF OpenCharts
<1>2. ChartsTimerRuns' /\ chartTicks' \in Nat
  BY DEF IInv, TypeOK, OpenCharts, ChartsTimerRuns
<1>3. TypeOK'
  BY <1>1, <1>2 DEF IInv, TypeOK, OpenCharts, tableVars, Boxes
<1> QED
  BY <1>1, <1>2, <1>3 DEF IInv, OpenCharts, OneTableRequest, tableVars

\* The tab key and a click on the other tab.
LEMMA LeaveKeeps ==
    ASSUME IInv, OpenPredictions \/ TabKey
    PROVE  IInv'
<1>1. CASE OpenCharts
  BY <1>1, OpenChartsKeeps
<1>2. CASE ~OpenCharts
  <2>1. /\ tab = "charts" /\ tab' \in {"charts", "predictions"} /\ focused' \in BOOLEAN
        /\ UNCHANGED <<tableVars, market, frame, loading, failed, restore, klines,
                       dragging, dragTicks, asked, live, chartTicks, overlapped>>
    BY <1>2 DEF OpenPredictions, TabKey, IInv, TypeOK
  <2>2. LabelOK'
    BY <2>1, SameLabel DEF IInv
  <2>3. TypeOK' /\ OneTableRequest' /\ ChartsTimerRuns'
    BY <2>1 DEF IInv, TypeOK, OneTableRequest, ChartsTimerRuns, tableVars
  <2> QED
    BY <2>2, <2>3 DEF IInv
<1> QED
  BY <1>1, <1>2

\* A new size asks for the label at most.
LEMMA ResizeKeeps ==
    ASSUME IInv, Resize
    PROVE  IInv'
<1>1. LabelOK' /\ asked' \in Boxes
  BY AskAgain DEF Resize, shownVars
<1>2. TypeOK' /\ OneTableRequest' /\ ChartsTimerRuns'
  BY <1>1 DEF IInv, TypeOK, Resize, OneTableRequest, ChartsTimerRuns, tableVars, shownVars, Boxes
<1> QED
  BY <1>1, <1>2 DEF IInv

\* A request for any label: only a change with nothing in flight leaves the history as
\* it is, and then nothing else is in flight.
LEMMA AskForKeeps ==
    ASSUME IInv, NEW m \in 0 .. NumMarkets - 1, NEW f \in 0 .. NumFrames - 1, AskFor(m, f),
           UNCHANGED <<live, klines, failed>>
    PROVE  /\ LabelOK' /\ asked' \in Boxes
           /\ market' \in 0 .. NumMarkets - 1 /\ frame' \in 0 .. NumFrames - 1
           /\ overlapped' \in BOOLEAN
<1> DEFINE l == <<m, f>>
<1>1. l \in Labels /\ asked \in Boxes
  BY DEF IInv, TypeOK, Labels, Boxes
<1>2. Label' = l /\ asked' = Plus(asked, l)
  BY DEF AskFor, Label
<1>3. InFlight(asked') = InFlight(asked) \cup {l} /\ asked' \in Boxes
  BY <1>1, <1>2, OneMore
<1>4. overlapped' = (overlapped \/ (l # Label /\ ~Quiet))
  BY DEF AskFor
<1>5. ASSUME ~overlapped'
      PROVE  InFlight(asked) \cup InFlight(live) \subseteq {l}
  <2>1. ~overlapped /\ (l = Label \/ Quiet)
    BY <1>4, <1>5
  <2> QED
    BY <2>1, Asked DEF IInv, Quiet
<1>6. ASSUME ~overlapped'
      PROVE  InFlight(asked') \cup InFlight(live') \subseteq {l} /\ InFlight(asked') # {}
  BY <1>3, <1>5, <1>6
<1>7. LabelOK'
  BY <1>2, <1>6 DEF LabelOK, InFlight
<1> QED
  BY <1>3, <1>4, <1>7 DEF AskFor, IInv, TypeOK

\* A load of any label.
LEMMA LoadKeeps ==
    ASSUME IInv, NEW m \in 0 .. NumMarkets - 1, NEW f \in 0 .. NumFrames - 1, Load(m, f),
           focused' \in BOOLEAN
    PROVE  IInv'
<1>1. /\ LabelOK' /\ asked' \in Boxes
      /\ market' \in 0 .. NumMarkets - 1 /\ frame' \in 0 .. NumFrames - 1
      /\ overlapped' \in BOOLEAN
  BY AskForKeeps DEF Load
<1>2. TypeOK' /\ OneTableRequest' /\ ChartsTimerRuns'
  BY <1>1 DEF IInv, TypeOK, Load, OneTableRequest, ChartsTimerRuns, tableVars, Boxes
<1> QED
  BY <1>1, <1>2 DEF IInv

\* The keys of the chart load labels within the lists.
LEMMA KeysKeep ==
    ASSUME IInv, FrameKey \/ MarketKey \/ NextFrameKey \/ ReloadKey
    PROVE  IInv'
<1>1. PICK m \in 0 .. NumMarkets - 1, f \in 0 .. NumFrames - 1 : Load(m, f)
  BY Rings DEF FrameKey, MarketKey, NextFrameKey, ReloadKey, IInv, TypeOK
<1>2. focused' \in BOOLEAN
  BY DEF FrameKey, MarketKey, NextFrameKey, ReloadKey, IInv, TypeOK
<1> QED
  BY <1>1, <1>2, LoadKeeps

\* The wheel asks for a neighbouring frame, if there is one.
LEMMA WheelSparseKeeps ==
    ASSUME IInv, WheelSparse
    PROVE  IInv'
<1>1. /\ focused' = TRUE /\ restore' \in BOOLEAN
      /\ UNCHANGED <<tab, tableVars, loading, failed, klines, dragging, dragTicks,
                     live, chartTicks>>
  BY DEF WheelSparse, WheelFrame
<1>2. /\ LabelOK' /\ asked' \in Boxes
      /\ market' \in 0 .. NumMarkets - 1 /\ frame' \in 0 .. NumFrames - 1
      /\ overlapped' \in BOOLEAN
  <2>1. CASE UNCHANGED <<market, frame, asked, overlapped>>
    BY <1>1, <2>1, SameLabel DEF IInv, TypeOK, Boxes
  <2>2. CASE \E f \in 0 .. NumFrames - 1 : AskFor(market, f)
    BY <1>1, <2>2, AskForKeeps DEF IInv, TypeOK
  <2>3. frame > 0 => frame - 1 \in 0 .. NumFrames - 1
    BY Bounds DEF IInv, TypeOK
  <2>4. frame < NumFrames - 1 => frame + 1 \in 0 .. NumFrames - 1
    BY Bounds DEF IInv, TypeOK
  <2> QED
    BY <2>1, <2>2, <2>3, <2>4 DEF WheelSparse, WheelFrame
<1>3. TypeOK' /\ OneTableRequest' /\ ChartsTimerRuns'
  BY <1>1, <1>2 DEF IInv, TypeOK, OneTableRequest, ChartsTimerRuns, tableVars, Boxes
<1> QED
  BY <1>2, <1>3 DEF IInv

\* Zooms, drags and the timer of a drag leave requests and candles alone.
LEMMA MouseKeeps ==
    ASSUME IInv, Zoom \/ Press \/ Release \/ DragTick
    PROVE  IInv'
<1>1. UNCHANGED <<tab, tableVars, market, frame, loading, failed, restore, klines, asked,
                  live, chartTicks, overlapped>>
  BY DEF Zoom, Press, Release, DragTick, shownVars
<1>2. LabelOK'
  BY <1>1, SameLabel DEF IInv
<1>3. focused' \in BOOLEAN /\ dragging' \in BOOLEAN /\ dragTicks' \in Nat
  <2>1. focused \in BOOLEAN /\ dragging \in BOOLEAN /\ dragTicks \in Nat
    BY DEF IInv, TypeOK
  <2>2. CASE Zoom
    BY <2>1, <2>2 DEF Zoom
  <2>3. CASE Press
    BY <2>1, <2>3 DEF Press
  <2>4. CASE Release
    BY <2>1, <2>4 DEF Release, shownVars
  <2>5. CASE DragTick
    BY <2>1, <2>5 DEF DragTick, shownVars
  <2> QED
    BY <2>2, <2>3, <2>4, <2>5
<1>4. TypeOK' /\ OneTableRequest' /\ ChartsTimerRuns'
  BY <1>1, <1>3 DEF IInv, TypeOK, OneTableRequest, ChartsTimerRuns, tableVars
<1> QED
  BY <1>2, <1>4 DEF IInv

\* The chart's timer goes on while the chart is shown and asks for its label.
LEMMA ChartsTickKeeps ==
    ASSUME IInv, ChartsTick
    PROVE  IInv'
<1>1. Label \in Labels /\ live \in Boxes
  BY DEF IInv, TypeOK, Label, Labels, Boxes
<1>2. UNCHANGED <<tab, tableVars, shownVars, dragging, dragTicks, asked, overlapped>>
  BY DEF ChartsTick
<1>3. live' \in Boxes /\ InFlight(live') \subseteq InFlight(live) \cup {Label}
  <2>1. CASE live' = Plus(live, Label)
    BY <1>1, <2>1, OneMore
  <2>2. CASE UNCHANGED live
    BY <1>1, <2>2
  <2> QED
    BY <2>1, <2>2 DEF ChartsTick
<1>4. LabelOK'
  BY <1>2, <1>3 DEF IInv, LabelOK, InFlight, Label, shownVars
<1>5. ChartsTimerRuns' /\ chartTicks' \in Nat
  BY DEF IInv, TypeOK, ChartsTick, ChartsTimerRuns
<1>6. TypeOK' /\ OneTableRequest'
  BY <1>2, <1>3, <1>5 DEF IInv, TypeOK, OneTableRequest, tableVars, shownVars, Boxes
<1> QED
  BY <1>4, <1>5, <1>6 DEF IInv

\* A load answers: it ends the history only when it comes in alone and for the label.
LEMMA KlinesAnswerKeeps ==
    ASSUME IInv, NEW l \in Labels, KlinesAnswer(l)
    PROVE  IInv'
<1>1. /\ asked \in Boxes /\ asked[l] > 0 /\ asked' = Less(asked, l)
      /\ UNCHANGED <<live, tab, tableVars, market, frame, dragging, dragTicks, chartTicks>>
  BY DEF KlinesAnswer, IInv, TypeOK, Boxes
<1>2. asked' \in Boxes /\ InFlight(asked') \subseteq InFlight(asked)
  BY <1>1, OneLess
<1>3. CASE LoadFails
  <2>1. LabelOK'
    BY <1>1, <1>2, <1>3 DEF LoadFails, IInv, LabelOK, InFlight, Label
  <2>2. TypeOK' /\ OneTableRequest' /\ ChartsTimerRuns'
    BY <1>1, <1>2, <1>3 DEF LoadFails, IInv, TypeOK, OneTableRequest, ChartsTimerRuns,
       tableVars, Boxes
  <2> QED
    BY <2>1, <2>2 DEF IInv
<1>4. CASE LoadSucceeds(l)
  <2>1. /\ klines' \in {{}, {l}}
        /\ overlapped' = (overlapped /\ ~(l = Label /\ Quiet'))
    BY <1>4 DEF LoadSucceeds
  <2>2. ASSUME ~overlapped'
        PROVE  /\ l = Label
               /\ InFlight(asked') \cup InFlight(live') \subseteq {Label}
    <3>1. CASE ~overlapped
      BY <1>1, <1>2, <3>1, Asked DEF IInv, LabelOK
    <3>2. CASE overlapped
      <4>1. l = Label /\ Quiet'
        BY <2>1, <2>2, <3>2
      <4> QED
        BY <4>1 DEF Quiet
    <3> QED
      BY <3>1, <3>2
  <2>3. LabelOK'
    BY <1>1, <2>1, <2>2 DEF LabelOK, InFlight, Label
  <2>4. overlapped' \in BOOLEAN
    BY <2>1 DEF IInv, TypeOK
  <2>5. TypeOK' /\ OneTableRequest' /\ ChartsTimerRuns'
    BY <1>1, <1>2, <1>4, <2>1, <2>4 DEF LoadSucceeds, IInv, TypeOK, OneTableRequest,
       ChartsTimerRuns, tableVars, Boxes
  <2> QED
    BY <2>3, <2>5 DEF IInv
<1> QED
  BY <1>3, <1>4 DEF KlinesAnswer

\* A live update adds candles of the label unless the label changed meanwhile.
LEMMA LiveAnswerKeeps ==
    ASSUME IInv, NEW l \in Labels, LiveAnswer(l)
    PROVE  IInv'
<1>1. /\ live \in Boxes /\ live[l] > 0 /\ live' = Less(live, l)
      /\ klines' = klines \/ klines' = klines \cup {l}
      /\ UNCHANGED <<tab, tableVars, market, frame, loading, failed, focused, restore,
                     dragging, dragTicks, asked, chartTicks, overlapped>>
  BY DEF LiveAnswer, IInv, TypeOK, Boxes
<1>2. live' \in Boxes /\ InFlight(live') \subseteq InFlight(live)
  BY <1>1, OneLess
<1>3. ~overlapped => l = Label
  BY <1>1 DEF IInv, LabelOK
<1>4. LabelOK'
  BY <1>1, <1>2, <1>3 DEF IInv, LabelOK, InFlight, Label
<1>5. TypeOK' /\ OneTableRequest' /\ ChartsTimerRuns'
  BY <1>1, <1>2 DEF IInv, TypeOK, OneTableRequest, ChartsTimerRuns, tableVars, Boxes
<1> QED
  BY <1>4, <1>5 DEF IInv

\* Every step keeps the invariant.
LEMMA NextIInv == IInv /\ [Next]_vars => IInv'
<1> SUFFICES ASSUME IInv, [Next]_vars
             PROVE  IInv'
  OBVIOUS
<1>1. CASE UNCHANGED vars
  <2>1. LabelOK'
    BY <1>1, SameLabel DEF vars, shownVars, IInv
  <2> QED
    BY <1>1, <2>1 DEF vars, tableVars, shownVars, IInv, TypeOK, OneTableRequest, ChartsTimerRuns
<1>2. CASE User
  BY <1>2, TableKeeps, LeaveKeeps, OpenChartsKeeps, ResizeKeeps, KeysKeep, WheelSparseKeeps,
     MouseKeeps DEF User, TabClick
<1>3. CASE Timers
  BY <1>3, TableKeeps, ChartsTickKeeps, MouseKeeps DEF Timers
<1>4. CASE Answers
  BY <1>4, TableKeeps, KlinesAnswerKeeps, LiveAnswerKeeps DEF Answers
<1> QED
  BY <1>1, <1>2, <1>3, <1>4 DEF Next

\* So it holds in every state.
LEMMA Invariance == Spec => []IInv
  BY InitIInv, NextIInv, PTL DEF Spec

-----------------------------------------------------------------------------
(* The theorems.                                                            *)

\* The program keeps the types of its state, and the frame and market within their lists.
THEOREM TypeCorrect == Spec => []TypeOK
<1>1. IInv => TypeOK
  BY DEF IInv
<1> QED
  BY <1>1, Invariance, PTL

\* However keys, timers and answers fall, at most one request of the table is under way.
THEOREM OneRequest == Spec => []OneTableRequest
<1>1. IInv => OneTableRequest
  BY DEF IInv
<1> QED
  BY <1>1, Invariance, PTL

\* The chart that is shown never loses its timer.
THEOREM ChartIsTimed == Spec => []ChartsTimerRuns
<1>1. IInv => ChartsTimerRuns
  BY DEF IInv
<1> QED
  BY <1>1, Invariance, PTL

\* Candles are those of the label written above them, unless a change overtook a request.
THEOREM Labelled == Spec => []ShownIsLabelled
<1>1. IInv => ShownIsLabelled
  BY Asked DEF IInv, ShownIsLabelled
<1> QED
  BY <1>1, Invariance, PTL
=============================================================================
