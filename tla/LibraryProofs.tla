---------------------------- MODULE LibraryProofs ----------------------------
(***************************************************************************)
(* Proofs about the parts that keep no files: the REST client (module      *)
(* RestClient) and the pure algorithms (module Algorithms).                *)
(*                                                                         *)
(* RestClient: for any limits, pauses and answers, a rate limit error that *)
(* is returned has the body that printing it reads; for the margins and    *)
(* pauses of limits.go and requests that weigh at most 25, the exchange    *)
(* never counts more than the cap.                                         *)
(*                                                                         *)
(* Algorithms: pages, series, predictions and folds owe what they owe for  *)
(* every input and every value of the constants.  Where an algorithm goes  *)
(* on step by step the proof is by induction, in the form that a set of    *)
(* counterexamples would have a smallest one (lemma Least).                *)
(***************************************************************************)
EXTENDS RestClient, Algorithms, FiniteSetTheorems, SequenceTheorems, WellFoundedInduction, TLAPS

\* A pause is only made while another attempt is left, so that the loop never runs out
\* with the refusal it kept.
IInv ==
    /\ attempt \in 0 .. MaxAttempts - 1
    /\ pc = "retry" => attempt < MaxAttempts - 1
    /\ LimitErrorHasBody

\* An answer without a body is never returned as a refusal.
LEMMA RefusalHasBody ==
    ASSUME NEW status \in {OK, RateLimited, IPBanned, Forbidden, OtherStatus},
           NEW body \in BOOLEAN
    PROVE  ReplyTo(status, body).kind = "limit" => ReplyTo(status, body).body
<1>1. CASE ~body
  BY <1>1 DEF ReplyTo, Reply
<1>2. CASE body
  BY <1>2 DEF ReplyTo, Reply, Retryable, OK, RateLimited, IPBanned, Forbidden, OtherStatus
<1> QED
  BY <1>1, <1>2

\* The first attempt has number 0 and nothing is returned yet.
LEMMA InitIInv == Init => IInv
  BY RestAssumption DEF Init, IInv, LimitErrorHasBody, NoReply

\* Every step keeps the invariant; a retry is the only one that counts.
LEMMA NextIInv == IInv /\ [Next]_vars => IInv'
<1> SUFFICES ASSUME IInv, [Next]_vars
             PROVE  IInv'
  OBVIOUS
<1>1. CASE UNCHANGED vars
  BY <1>1 DEF vars, IInv, LimitErrorHasBody
<1>2. CASE Call
  BY <1>2 DEF Call, IInv, LimitErrorHasBody
<1>3. CASE Guard
  BY <1>3 DEF Guard, Sleep, CutShort, Answered, Reply, Pass, IInv, LimitErrorHasBody
<1>4. CASE Send
  BY <1>4 DEF Send, Answered, Reply, IInv, LimitErrorHasBody
<1>5. CASE LoseAnswer
  BY <1>5 DEF LoseAnswer, Answered, Reply, IInv, LimitErrorHasBody
<1>6. CASE Retry
  <2>1. attempt < MaxAttempts - 1
    BY <1>6 DEF Retry, IInv
  <2>2. attempt + 1 \in 0 .. MaxAttempts - 1 /\ attempt + 1 < MaxAttempts
    BY <2>1, RestAssumption DEF IInv
  <2> QED
    BY <1>6, <2>2 DEF Retry, Sleep, CutShort, Answered, Reply, Pass, IInv, LimitErrorHasBody
<1>7. ASSUME NEW status \in {OK, RateLimited, IPBanned, Forbidden, OtherStatus},
             NEW body \in BOOLEAN, Answer(status, body)
      PROVE  IInv'
  <2>1. CASE IsRetried(status)
    BY <1>7, <2>1 DEF Answer, IsRetried, IInv, LimitErrorHasBody
  <2>2. CASE ~IsRetried(status)
    <3>1. /\ reply' = ReplyTo(status, body) /\ pc' = "answered"
          /\ UNCHANGED attempt
      BY <1>7, <2>2 DEF Answer, Answered
    <3> QED
      BY <3>1, RefusalHasBody DEF IInv, LimitErrorHasBody
  <2> QED
    BY <2>1, <2>2
<1>8. CASE Return
  BY <1>8, RestAssumption DEF Return, NoReply, IInv, LimitErrorHasBody
<1>9. CASE Rest
  BY <1>9 DEF Rest, IInv, LimitErrorHasBody
<1>10. CASE Cancel
  BY <1>10 DEF Cancel, IInv, LimitErrorHasBody
<1> QED
  BY <1>1, <1>2, <1>3, <1>4, <1>5, <1>6, <1>7, <1>8, <1>9, <1>10 DEF Next, Request

\* Whatever the exchange answers and whenever the caller leaves: a rate limit error that
\* GetCast returns can be printed (RateLimitError.Error reads its API).
THEOREM ErrorIsPrintable == Spec => []LimitErrorHasBody
<1>1. IInv => LimitErrorHasBody
  BY DEF IInv
<1> QED
  BY InitIInv, NextIInv, <1>1, PTL DEF Spec

-----------------------------------------------------------------------------
\* limits.go: weightLimitPerMinute and the branches of waitIfHeavy.
CodeLimits ==
    /\ Cap = 6000
    /\ Margins = <<50, 200, 500>>
    /\ Delays = <<15, 5, 1>>

\* Small requests, and other programs that stay below the first margin themselves.
SmallRequests == Cost <= 25 /\ Others < 5500

\* What weight w is reached by second s at the earliest: nothing slows a program down
\* below 5500; from there each request takes a second, from 5800 five and from 5950
\* fifteen, which is more than the rest of the minute.
InTime(w, s) ==
    \/ w <= 5524
    \/ w <= 5824 /\ 25 * s >= w - 5524
    \/ w <= 5974 /\ s >= 12 /\ 5 * (s - 12) >= w - 5824
    \/ w <= 5999 /\ s >= 53

\* The limiter knows the weight, or the minute has just begun.
Known == weight = Others \/ used >= weight

Typed ==
    /\ attempt \in Nat /\ wait \in Nat
    /\ used \in Nat /\ weight \in Nat
    /\ second \in 0 .. 59
    /\ lost \in BOOLEAN

\* The invariant: the weight is never ahead of the clock, not even with the request
\* that waitIfHeavy has let through.
WeightInv ==
    /\ Typed
    /\ ~lost => /\ InTime(weight, second)
                /\ pc # "sent" => Known
                /\ pc = "send" => InTime(weight + Cost, second)

\* Time never makes a weight too early ...
LEMMA LaterIsInTime ==
    ASSUME NEW w \in Nat, NEW s \in Nat, NEW d \in Nat, InTime(w, s)
    PROVE  InTime(w, s + d)
  BY DEF InTime

\* ... and a smaller weight is in time whenever a larger one is.
LEMMA LessIsInTime ==
    ASSUME NEW w \in Nat, NEW v \in Nat, v <= w, NEW s \in Nat, InTime(w, s)
    PROVE  InTime(v, s)
  BY DEF InTime

\* waitIfHeavy with the margins of the code: the closest margin decides.
LEMMA HeavyWaitIs ==
    ASSUME CodeLimits, used \in Nat
    PROVE  HeavyWait = IF used >= 5950 THEN 15
                       ELSE IF used >= 5800 THEN 5
                       ELSE IF used >= 5500 THEN 1 ELSE 0
<1> DEFINE near == {i \in 1 .. Len(Margins) : used + Margins[i] >= Cap}
           first == CHOOSE i \in near : \A j \in near : i <= j
<1>1. /\ Cap = 6000 /\ Len(Margins) = 3
      /\ Margins[1] = 50 /\ Margins[2] = 200 /\ Margins[3] = 500
      /\ Delays[1] = 15 /\ Delays[2] = 5 /\ Delays[3] = 1
  BY DEF CodeLimits
<1>2. /\ near \subseteq 1 .. 3
      /\ 1 \in near <=> used >= 5950
      /\ 2 \in near <=> used >= 5800
      /\ 3 \in near <=> used >= 5500
  BY <1>1
<1>3. HeavyWait = IF near = {} THEN 0 ELSE Delays[first]
  BY DEF HeavyWait
<1>4. CASE used >= 5950
  <2>1. 1 \in near /\ \A j \in near : 1 <= j
    BY <1>2, <1>4
  <2>2. first \in near /\ first <= 1
    BY <2>1
  <2>3. first = 1
    BY <1>2, <2>2
  <2> QED
    BY <1>1, <1>3, <1>4, <2>1, <2>3
<1>5. CASE used < 5950 /\ used >= 5800
  <2>1. 2 \in near /\ \A j \in near : 2 <= j
    BY <1>2, <1>5
  <2>2. first \in near /\ first <= 2 /\ first >= 2
    BY <2>1
  <2>3. first = 2
    BY <1>2, <2>2
  <2> QED
    BY <1>1, <1>3, <1>5, <2>1, <2>3
<1>6. CASE used < 5800 /\ used >= 5500
  <2>1. 3 \in near /\ \A j \in near : 3 <= j
    BY <1>2, <1>6
  <2>2. first \in near /\ first <= 3 /\ first >= 3
    BY <2>1
  <2>3. first = 3
    BY <1>2, <2>2
  <2> QED
    BY <1>1, <1>3, <1>6, <2>1, <2>3
<1>7. CASE used < 5500
  <2>1. near = {}
    BY <1>2, <1>7
  <2> QED
    BY <1>3, <1>7, <2>1
<1> QED
  BY <1>4, <1>5, <1>6, <1>7

\* The heart of it: after the pause of waitIfHeavy there is room for one more request,
\* unless the pause has reached the next minute.
LEMMA RoomForOneMore ==
    ASSUME CodeLimits, SmallRequests, RestAssumption, Typed, Known,
           InTime(weight, second), second + HeavyWait < 60
    PROVE  InTime(weight + Cost, second + HeavyWait)
<1>0. Cost \in Nat /\ Cost <= 25 /\ Others \in Nat /\ Others < 5500
  BY DEF SmallRequests, RestAssumption
<1>1. used \in Nat /\ weight \in Nat /\ second \in 0 .. 59
  BY DEF Typed
<1>2. HeavyWait = IF used >= 5950 THEN 15
                  ELSE IF used >= 5800 THEN 5
                  ELSE IF used >= 5500 THEN 1 ELSE 0
  BY <1>1, HeavyWaitIs
<1>3. HeavyWait \in Nat
  BY <1>2
<1>4. CASE weight < 5500
  BY <1>0, <1>1, <1>4 DEF InTime
<1>5. CASE weight >= 5500
  <2>1. used >= weight
    BY <1>0, <1>5 DEF Known
  <2>2. CASE weight < 5800
    <3>1. HeavyWait >= 1
      BY <1>1, <1>2, <1>5, <2>1
    <3>2. InTime(weight + Cost, second + 1)
      BY <1>0, <1>1, <1>5, <2>2 DEF InTime
    <3>3. PICK d \in Nat : HeavyWait = 1 + d
      BY <1>3, <3>1
    <3>4. second + HeavyWait = (second + 1) + d
      BY <1>1, <3>3
    <3>5. InTime(weight + Cost, (second + 1) + d)
      <4>1. weight + Cost \in Nat /\ second + 1 \in Nat
        BY <1>0, <1>1
      <4> QED
        BY <3>2, <4>1, LaterIsInTime
    <3> QED
      BY <3>4, <3>5
  <2>3. CASE weight >= 5800 /\ weight < 5950
    <3>1. HeavyWait >= 5
      BY <1>1, <1>2, <2>1, <2>3
    <3>2. InTime(weight + Cost, second + 5)
      BY <1>0, <1>1, <2>3 DEF InTime
    <3>3. PICK d \in Nat : HeavyWait = 5 + d
      BY <1>3, <3>1
    <3>4. second + HeavyWait = (second + 5) + d
      BY <1>1, <3>3
    <3>5. InTime(weight + Cost, (second + 5) + d)
      <4>1. weight + Cost \in Nat /\ second + 5 \in Nat
        BY <1>0, <1>1
      <4> QED
        BY <3>2, <4>1, LaterIsInTime
    <3> QED
      BY <3>4, <3>5
  <2>4. CASE weight >= 5950
    <3>1. HeavyWait = 15
      BY <1>1, <1>2, <2>1, <2>4
    <3>2. InTime(weight + Cost, second + 15)
      BY <1>0, <1>1, <2>4, <3>1 DEF InTime
    <3> QED
      BY <3>1, <3>2
  <2> QED
    BY <1>1, <1>5, <2>2, <2>3, <2>4
<1> QED
  BY <1>1, <1>4, <1>5

\* A weight that is in time leaves the exchange nothing to refuse.
LEMMA InTimeIsUnderCap ==
    ASSUME CodeLimits, WeightInv
    PROVE  WeightStaysUnderCap
<1>1. Cap = 6000
  BY DEF CodeLimits
<1>2. weight \in Nat /\ (~lost => InTime(weight, second))
  BY DEF WeightInv, Typed
<1> QED
  BY <1>1, <1>2 DEF WeightStaysUnderCap, InTime

\* Time passes: the minute begins again, or goes on.
LEMMA PassIs ==
    ASSUME NEW d \in Nat, second \in 0 .. 59, NEW w, NEW l, Pass(d, w, l)
    PROVE  /\ second' \in 0 .. 59
           /\ \/ weight' = Others /\ lost' = FALSE
              \/ /\ second + d < 60 /\ second' = second + d
                 /\ weight' = w /\ lost' = l
<1>1. /\ second' = (second + d) % 60
      /\ IF second + d >= 60 THEN weight' = Others /\ lost' = FALSE
                             ELSE weight' = w /\ lost' = l
  BY DEF Pass, Minute
<1>2. second' \in 0 .. 59
  BY <1>1
<1>3. CASE second + d >= 60
  BY <1>1, <1>2, <1>3
<1>4. CASE second + d < 60
  <2>1. second' = second + d
    BY <1>1, <1>4
  <2> QED
    BY <1>1, <1>2, <1>4, <2>1
<1>5. second + d >= 60 \/ second + d < 60
  OBVIOUS
<1> QED
  BY <1>3, <1>4, <1>5

\* A pause keeps what is known of the weight, whatever step it belongs to.
LEMMA PassKeeps ==
    ASSUME WeightInv, SmallRequests, RestAssumption,
           NEW d \in Nat, Pass(d, weight, lost)
    PROVE  /\ second' \in 0 .. 59 /\ weight' \in Nat /\ lost' \in BOOLEAN
           /\ ~lost' => InTime(weight', second')
           /\ weight' = Others \/ (weight' = weight /\ (~lost' => ~lost))
<1>1. /\ weight \in Nat /\ second \in 0 .. 59 /\ lost \in BOOLEAN
      /\ ~lost => InTime(weight, second)
  BY DEF WeightInv, Typed
<1>2. Others \in Nat /\ Others < 5500
  BY DEF SmallRequests, RestAssumption
<1>3. /\ second' \in 0 .. 59
      /\ \/ weight' = Others /\ lost' = FALSE
         \/ /\ second + d < 60 /\ second' = second + d
            /\ weight' = weight /\ lost' = lost
  BY <1>1, PassIs
<1>4. CASE weight' = Others /\ lost' = FALSE
  <2>1. weight' \in Nat /\ InTime(weight', second')
    BY <1>2, <1>4 DEF InTime
  <2> QED
    BY <1>3, <1>4, <2>1
<1>5. CASE second' = second + d /\ weight' = weight /\ lost' = lost
  <2>1. ~lost => InTime(weight, second + d)
    <3>1. second \in Nat
      BY <1>1
    <3> QED
      BY <1>1, <3>1, LaterIsInTime
  <2>2. ~lost' => InTime(weight', second')
    BY <1>5, <2>1
  <2> QED
    BY <1>1, <1>3, <1>5, <2>2
<1> QED
  BY <1>3, <1>4, <1>5

\* The pause before the next attempt is a number of seconds.
LEMMA RetryWaitIsNat ==
    ASSUME attempt \in Nat, NEW status, NEW after \in Nat
    PROVE  RetryWait(status, after) \in Nat
<1>1. Backoff \in Nat
  <2>1. Len(Backoffs) = 5
    BY DEF Backoffs
  <2>2. \A i \in 1 .. 5 : Backoffs[i] \in Nat
    BY DEF Backoffs
  <2>3. CASE attempt < 5
    <3>1. attempt + 1 \in 1 .. 5
      BY <2>3
    <3> QED
      BY <2>1, <2>2, <2>3, <3>1 DEF Backoff
  <2>4. CASE ~(attempt < 5)
    BY <2>1, <2>4 DEF Backoff
  <2> QED
    BY <2>3, <2>4
<1> QED
  BY <1>1 DEF RetryWait, IPBanned, RateLimited, Forbidden

\* The first minute begins with the weight of the others.
LEMMA InitWeight ==
    ASSUME SmallRequests, Init
    PROVE  WeightInv
<1>1. Others \in Nat /\ Others < 5500
  BY RestAssumption DEF SmallRequests
<1>2. Typed
  <2>1. attempt = 0 /\ wait = 0 /\ used = 0 /\ weight = Others /\ second = 0 /\ lost = FALSE
    BY DEF Init
  <2>2. lost \in BOOLEAN
    BY <2>1
  <2> QED
    BY <1>1, <2>1, <2>2 DEF Typed
<1>3. InTime(weight, second) /\ Known /\ pc = "idle"
  BY <1>1 DEF Init, InTime, Known
<1> QED
  BY <1>2, <1>3 DEF WeightInv

\* A step that leaves the weight, the clock and what is known of them alone keeps the
\* invariant, unless it lets a request through or takes one back.
LEMMA StandsStill ==
    ASSUME WeightInv, attempt' \in Nat, wait' \in Nat,
           UNCHANGED <<used, weight, second>>,
           lost' \in BOOLEAN, lost' \/ lost' = lost,
           pc' # "send", lost' \/ pc # "sent" \/ pc' = "sent"
    PROVE  WeightInv'
<1>1. Typed'
  BY DEF WeightInv, Typed
<1>2. ASSUME ~lost'
      PROVE  /\ InTime(weight, second)'
             /\ (pc # "sent" => Known)'
             /\ (pc = "send" => InTime(weight + Cost, second))'
  <2>1. ~lost /\ (pc # "sent" \/ pc' = "sent")
    BY <1>2
  <2>2. InTime(weight, second) /\ (pc # "sent" => Known)
    BY <2>1 DEF WeightInv
  <2>3. InTime(weight', second') /\ (pc # "sent" => Known')
    BY <2>2 DEF Known
  <2>4. pc' # "sent" => Known'
    BY <2>1, <2>3
  <2> QED
    BY <2>3, <2>4
<1> QED
  BY <1>1, <1>2 DEF WeightInv

\* A step that only lets time pass keeps the invariant; the request it may belong to is
\* still to be guarded, or over.
LEMMA PassesBy ==
    ASSUME WeightInv, SmallRequests, NEW d \in Nat, Pass(d, weight, lost),
           attempt' \in Nat, wait' \in Nat, used' = used,
           pc # "sent", pc' \notin {"send", "sent"}
    PROVE  WeightInv'
<1>1. /\ second' \in 0 .. 59 /\ weight' \in Nat /\ lost' \in BOOLEAN
      /\ ~lost' => InTime(weight', second')
      /\ weight' = Others \/ (weight' = weight /\ (~lost' => ~lost))
  BY RestAssumption, PassKeeps
<1>2. Typed'
  BY <1>1 DEF WeightInv, Typed
<1>3. ~lost' => Known'
  <2>1. CASE weight' = Others
    BY <2>1 DEF Known
  <2>2. CASE weight' = weight /\ (~lost' => ~lost)
    BY <2>2 DEF Known, WeightInv
  <2> QED
    BY <1>1, <2>1, <2>2
<1> QED
  BY <1>1, <1>2, <1>3 DEF WeightInv

\* Every step keeps the weight in time.
LEMMA NextWeight ==
    ASSUME CodeLimits, SmallRequests, WeightInv, [Next]_vars
    PROVE  WeightInv'
<1>0. /\ attempt \in Nat /\ wait \in Nat /\ used \in Nat /\ weight \in Nat
      /\ second \in 0 .. 59 /\ lost \in BOOLEAN /\ Typed
      /\ Cost \in Nat /\ Others \in Nat
  BY RestAssumption DEF WeightInv, Typed
<1>1. CASE UNCHANGED vars
  BY <1>1 DEF vars, WeightInv, Typed, Known
<1>2. CASE Call
  <2>1. pc # "sent" /\ pc' # "send"
    BY <1>2 DEF Call
  <2> QED
    BY <1>0, <1>2, <2>1, StandsStill DEF Call
<1>3. CASE Guard
  <2>1. HeavyWait \in Nat
    BY <1>0, HeavyWaitIs
  <2>2. CASE pc' = "send" /\ Sleep(HeavyWait) /\ UNCHANGED reply
    <3>1. Pass(HeavyWait, weight, lost) /\ pc = "guard" /\ used' = used
          /\ attempt' = attempt /\ wait' = wait
      BY <1>3, <2>2 DEF Guard, Sleep
    <3>2. /\ second' \in 0 .. 59 /\ weight' \in Nat /\ lost' \in BOOLEAN
          /\ ~lost' => InTime(weight', second')
          /\ weight' = Others \/ (weight' = weight /\ (~lost' => ~lost))
      BY <2>1, <3>1, RestAssumption, PassKeeps
    <3>3. Typed'
      BY <1>0, <3>1, <3>2 DEF Typed
    <3>4. ~lost' => Known'
      <4>1. CASE weight' = Others
        BY <4>1 DEF Known
      <4>2. CASE weight' = weight /\ (~lost' => ~lost)
        BY <3>1, <4>2 DEF Known, WeightInv
      <4> QED
        BY <3>2, <4>1, <4>2
    <3>5. ~lost' => InTime(weight' + Cost, second')
      <4>1. CASE weight' = Others
        <5>1. weight' + Cost <= 5524 /\ weight' + Cost \in Nat
          BY <1>0, <4>1 DEF SmallRequests
        <5> QED
          BY <5>1 DEF InTime
      <4>2. CASE weight' # Others
        <5>1. /\ second + HeavyWait < 60 /\ second' = second + HeavyWait
              /\ weight' = weight /\ lost' = lost
          BY <1>0, <2>1, <3>1, <4>2, PassIs
        <5>2. ~lost => Known /\ InTime(weight, second)
          BY <3>1 DEF WeightInv
        <5>3. ~lost => InTime(weight + Cost, second + HeavyWait)
          BY <1>0, <5>1, <5>2, RestAssumption, RoomForOneMore
        <5> QED
          BY <5>1, <5>3
      <4> QED
        BY <4>1, <4>2
    <3> QED
      BY <3>2, <3>3, <3>4, <3>5 DEF WeightInv
  <2>3. CASE CutShort(HeavyWait) /\ UNCHANGED <<weight, second, lost>>
    <3>1. pc # "sent" /\ pc' = "answered"
      BY <1>3, <2>3 DEF Guard, CutShort, Answered
    <3> QED
      BY <1>0, <1>3, <2>3, <3>1, StandsStill DEF Guard
  <2> QED
    BY <1>3, <2>2, <2>3 DEF Guard
<1>4. CASE Send
  <2>1. CASE weight' = weight + Cost /\ pc' = "sent"
    <3>1. /\ pc = "send" /\ lost' = lost /\ second' = second /\ used' = used
          /\ attempt' = attempt /\ wait' = wait
      BY <1>4 DEF Send
    <3>2. weight' \in Nat
      BY <1>0, <2>1
    <3>3. Typed'
      BY <1>0, <3>1, <3>2 DEF Typed
    <3>4. ~lost' => InTime(weight', second')
      BY <2>1, <3>1 DEF WeightInv
    <3> QED
      BY <2>1, <3>3, <3>4 DEF WeightInv
  <2>2. CASE Answered(Reply("transport", FALSE)) /\ UNCHANGED weight
    <3>1. pc # "sent" /\ pc' = "answered"
      BY <1>4, <2>2 DEF Send, Answered
    <3> QED
      BY <1>0, <1>4, <2>2, <3>1, StandsStill DEF Send
  <2> QED
    BY <1>4, <2>1, <2>2 DEF Send
<1>5. CASE LoseAnswer
  <2>1. pc' = "answered" /\ lost' = TRUE
    BY <1>5 DEF LoseAnswer, Answered
  <2> QED
    BY <1>0, <1>5, <2>1, StandsStill DEF LoseAnswer
<1>6. CASE Retry
  <2>1. pc = "retry" /\ wait' = 0 /\ used' = used
    BY <1>6 DEF Retry
  <2>2. CASE Sleep(wait) /\ attempt' = attempt + 1 /\ pc' \in {"guard", "answered"}
    BY <1>0, <2>1, <2>2, PassesBy DEF Sleep
  <2>3. CASE CutShort(wait) /\ UNCHANGED <<attempt, weight, second, lost>>
    <3>1. pc' = "answered"
      BY <2>3 DEF CutShort, Answered
    <3> QED
      BY <1>0, <2>1, <2>3, <3>1, StandsStill
  <2> QED
    BY <1>6, <2>2, <2>3 DEF Retry, Answered
<1>7. ASSUME NEW status \in {OK, RateLimited, IPBanned, Forbidden, OtherStatus},
             NEW body \in BOOLEAN, Answer(status, body)
      PROVE  WeightInv'
  <2>1. PICK d \in Latencies : Pass(d, weight, lost)
    BY <1>7 DEF Answer
  <2>2. d \in Nat
    BY RestAssumption
  <2>3. used' = weight /\ attempt' = attempt /\ pc' \in {"retry", "answered"}
    BY <1>7 DEF Answer, UpdateFromHeaders, Answered
  <2>4. wait' \in Nat
    <3>1. CASE IsRetried(status)
      <4>1. PICK after \in RetryAfters : wait' = RetryWait(status, after)
        BY <1>7, <3>1 DEF Answer
      <4>2. after \in Nat
        BY RestAssumption
      <4> QED
        BY <1>0, <4>1, <4>2, RetryWaitIsNat
    <3>2. CASE ~IsRetried(status)
      BY <1>0, <1>7, <3>2 DEF Answer
    <3> QED
      BY <3>1, <3>2
  <2>5. /\ second' \in 0 .. 59 /\ weight' \in Nat /\ lost' \in BOOLEAN
        /\ ~lost' => InTime(weight', second')
        /\ weight' = Others \/ (weight' = weight /\ (~lost' => ~lost))
    BY <2>1, <2>2, RestAssumption, PassKeeps
  <2>6. Typed'
    BY <1>0, <2>3, <2>4, <2>5 DEF Typed
  <2>7. Known'
    BY <1>0, <2>3, <2>5 DEF Known
  <2> QED
    BY <2>3, <2>5, <2>6, <2>7 DEF WeightInv
<1>8. CASE Return
  <2>1. pc # "sent" /\ pc' = "idle" /\ attempt' = 0 /\ wait' = 0
    BY <1>8 DEF Return
  <2> QED
    BY <1>0, <1>8, <2>1, StandsStill DEF Return
<1>9. CASE Rest
  BY <1>0, <1>9, PassesBy DEF Rest
<1>10. CASE Cancel
  <2>1. CASE pc # "send"
    BY <1>0, <1>10, <2>1, StandsStill DEF Cancel
  <2>2. CASE pc = "send"
    BY <1>10, <2>2 DEF Cancel, WeightInv, Typed, Known
  <2> QED
    BY <2>1, <2>2
<1> QED
  BY <1>1, <1>2, <1>3, <1>4, <1>5, <1>6, <1>7, <1>8, <1>9, <1>10 DEF Next, Request

\* One request after the other, of a weight of at most 25: with the margins and pauses of
\* waitIfHeavy the exchange never counts more than the cap, whatever it answers, however
\* the requests fall into the minute and whoever leaves, as long as no answer is lost.
THEOREM PausesKeepTheCap ==
    CodeLimits /\ SmallRequests => (Spec => []WeightStaysUnderCap)
<1> SUFFICES ASSUME CodeLimits, SmallRequests
             PROVE  Spec => []WeightStaysUnderCap
  OBVIOUS
<1>1. Init => WeightInv
  BY InitWeight
<1>2. WeightInv /\ [Next]_vars => WeightInv'
  BY NextWeight
<1>3. WeightInv => WeightStaysUnderCap
  BY InTimeIsUnderCap
<1> QED
  BY <1>1, <1>2, <1>3, PTL DEF Spec

-----------------------------------------------------------------------------
\* What the inputs of each kind are.
LoadOK ==
    input.kind = "load" =>
        input.market \in Markets /\ input.from \in Nat /\ input.end \in Nat

LiveOK ==
    input.kind = "live" =>
        /\ input.klines \in Series /\ input.fdp \in BOOLEAN
        /\ input.shift \in Int /\ input.tail \in Tails

AskOK ==
    input.kind = "ask" =>
        /\ input.files \in Exports /\ input.polled \in Polled /\ input.today \in Days
        /\ {input.since, input.until, input.from, input.to} \subseteq Nat

StudyOK ==
    input.kind = "study" =>
        /\ input.bars \in [Indices(Size) -> Bars] /\ input.folds \in Nat /\ input.folds >= 2
        /\ input.hold \in Nat /\ input.embargo \in Nat /\ input.hold <= input.embargo

\* What every input is.
InputOK == LoadOK /\ LiveOK /\ AskOK /\ StudyOK

\* Every input is one of its kind.
LEMMA InputsOK == InputSpec => []InputOK
<1>1. NoInput => InputOK
  BY DEF NoInput, InputOK, LoadOK, LiveOK, AskOK, StudyOK, None
<1>2. ASSUME InputOK, [TakeInput]_input
      PROVE  InputOK'
  <2>1. CASE UNCHANGED input
    BY <1>2, <2>1 DEF InputOK, LoadOK, LiveOK, AskOK, StudyOK
  <2>2. ASSUME NEW market \in Markets, NEW from \in 0 .. Open(LastCandle),
               NEW end \in 0 .. Open(LastCandle), input' = Load(market, from, end)
        PROVE  InputOK'
    BY <2>2 DEF InputOK, LoadOK, LiveOK, AskOK, StudyOK, Load, Markets
  <2>3. ASSUME NEW klines \in Series, NEW fdp \in BOOLEAN, NEW tail \in Tails,
               NEW shift \in -Bar * (LastCandle + 1) .. Bar * (LastCandle + 1),
               input' = Live(klines, fdp, shift, tail)
        PROVE  InputOK'
    <3>1. shift \in Int
      BY <2>3, ChartAssumption, CandleAssumption
    <3> QED
      BY <2>3, <3>1 DEF InputOK, LoadOK, LiveOK, AskOK, StudyOK, Live
  <2>4. ASSUME NEW source \in {"hf", "polydata"}, NEW files \in Exports, NEW p \in Polled,
               NEW since \in Bounds, NEW until \in Bounds, NEW from \in Bounds, NEW to \in Bounds,
               NEW today \in Days,
               input' = Ask(source, files, since, until, from, to, today, p)
        PROVE  InputOK'
    BY <2>4, PredictionAssumption DEF InputOK, LoadOK, LiveOK, AskOK, StudyOK, Ask
  <2>5. ASSUME NEW bars \in [Indices(Size) -> Bars], NEW folds \in 2 .. MaxFolds,
               NEW hold \in 1 .. MaxHold, NEW embargo \in 1 .. MaxHold,
               hold <= embargo, input' = Study(bars, folds, hold, embargo)
        PROVE  InputOK'
    BY <2>5, StudyAssumption DEF InputOK, LoadOK, LiveOK, AskOK, StudyOK, Study
  <2> QED
    BY <1>2, <2>1, <2>2, <2>3, <2>4, <2>5 DEF TakeInput
<1> QED
  BY <1>1, <1>2, PTL DEF InputSpec

-----------------------------------------------------------------------------
\* Induction, in the form the proofs below take it: a set of numbers that is not empty
\* has a smallest one.
LEMMA Least == ASSUME NEW S \in SUBSET Nat, S # {} PROVE \E m \in S : \A n \in S : m <= n
<1> DEFINE R == OpToRel(<, Nat)
<1>1. IsWellFoundedOn(R, Nat)
  BY NatLessThanWellFounded
<1>2. \A m, n \in Nat : n < m => <<n, m>> \in R
  BY DEF OpToRel
<1> HIDE DEF R
<1>3. PICK m \in S : \A n \in S : ~ (<<n, m>> \in R)
  BY <1>1, WFMin, Zenon
<1>4. ASSUME NEW n \in S PROVE m <= n
  <2>1. ~(n < m)
    BY <1>2, <1>3
  <2> QED
    BY <2>1
<1> QED
  BY <1>4

\* A product grows with its factor.
LEMMA Product == ASSUME NEW a \in Nat, NEW b \in Nat, NEW c \in Nat, a <= b
                 PROVE  a * c <= b * c /\ a * c \in Nat
<1>1. PICK d \in Nat : b = a + d
  <2>1. b - a \in Nat /\ b = a + (b - a)
    OBVIOUS
  <2> QED
    BY <2>1
<1>2. b * c = a * c + d * c
  BY <1>1
<1>3. d * c >= 0 /\ d * c \in Nat /\ a * c \in Nat
  OBVIOUS
<1> QED
  BY <1>2, <1>3

\* N steps of F from x0 on.
Iterations(N, X, x0, F) ==
    {g \in [0 .. N -> X] : g[0] = x0 /\ \A n \in 1 .. N : g[n] = F[g[n - 1]][n]}

\* A step that leads from X to X can be taken again and again.
LEMMA Repeated ==
    ASSUME NEW N \in Nat, NEW X, NEW x0 \in X, NEW F \in [X -> [1 .. N -> X]]
    PROVE  Iterations(N, X, x0, F) # {}
<1> DEFINE Good(m, g) == /\ g \in [0 .. m -> X] /\ g[0] = x0
                         /\ \A n \in 1 .. m : g[n] = F[g[n - 1]][n]
           Bad == {m \in 0 .. N : ~ \E g : Good(m, g)}
<1>0. \A m \in 0 .. N : m \notin Bad <=> \E g : Good(m, g)
  OBVIOUS
<1>1. ASSUME Bad # {} PROVE FALSE
  <2>1. PICK m \in 0 .. N : m \in Bad /\ \A k \in Bad : m <= k
    <3>1. Bad \in SUBSET Nat /\ Bad \subseteq 0 .. N
      OBVIOUS
    <3> HIDE DEF Bad
    <3> QED
      BY <1>1, <3>1, Least
  <2>2. m # 0
    <3>1. Good(0, [k \in 0 .. 0 |-> x0])
      OBVIOUS
    <3> HIDE DEF Good, Bad
    <3> QED
      BY <3>1, <1>0, <2>1
  <2>3. m - 1 \in 0 .. N /\ m \in 1 .. N /\ m - 1 \notin Bad
    <3> HIDE DEF Bad
    <3> QED
      BY <2>1, <2>2
  <2>4. PICK g : Good(m - 1, g)
    <3> HIDE DEF Bad, Good
    <3> QED
      BY <2>3, <1>0
  <2> DEFINE h == [k \in 0 .. m |-> IF k = m THEN F[g[m - 1]][m] ELSE g[k]]
  <2>5. g[m - 1] \in X /\ F[g[m - 1]][m] \in X
    BY <2>3, <2>4
  <2>6. h \in [0 .. m -> X]
    BY <2>3, <2>4, <2>5
  <2>7. h[0] = x0
    BY <2>3, <2>4
  <2>8. ASSUME NEW n \in 1 .. m
        PROVE  h[n] = F[h[n - 1]][n]
    <3>1. n - 1 \in 0 .. m /\ n - 1 # m /\ h[n - 1] = g[n - 1]
      BY <2>3
    <3>2. CASE n = m
      BY <3>1, <3>2
    <3>3. CASE n # m
      <4>1. n \in 1 .. m - 1 /\ h[n] = g[n]
        BY <2>3, <3>3
      <4> QED
        BY <4>1, <3>1, <2>4
    <3> QED
      BY <3>2, <3>3
  <2>9. Good(m, h)
    BY <2>6, <2>7, <2>8
  <2> QED
    BY <2>9, <2>1
<1>2. N \in 0 .. N /\ N \notin Bad
  <2>1. N \in 0 .. N
    OBVIOUS
  <2> HIDE DEF Bad
  <2> QED
    BY <1>1, <2>1
<1>3. PICK g : Good(N, g)
  BY <1>2
<1> QED
  BY <1>3 DEF Iterations

\* A larger number of a set has a higher rank in it.
LEMMA RankGrows ==
    ASSUME NEW S \in SUBSET Nat, IsFiniteSet(S), NEW x \in S, NEW y \in S, x < y
    PROVE  Rank(S, x) \in Nat /\ Rank(S, y) \in Nat /\ Rank(S, x) < Rank(S, y)
<1> DEFINE Below(z) == {n \in S : n < z}
<1>1. \A z \in S : IsFiniteSet(Below(z)) /\ Cardinality(Below(z)) \in Nat
  <2>1. \A z \in S : Below(z) \in SUBSET S
    OBVIOUS
  <2> HIDE DEF Below
  <2> QED
    BY <2>1, FS_Subset, FS_CardinalityType
<1>2. x \notin Below(x) /\ Below(x) \cup {x} \in SUBSET Below(y)
  <2>1. x \in Nat /\ y \in Nat /\ \A n \in S : n \in Nat
    OBVIOUS
  <2>2. ASSUME NEW n \in Below(x) \cup {x}
        PROVE  n \in Below(y)
    <3>1. n \in S /\ n <= x
      BY <2>1
    <3> QED
      BY <2>1, <3>1
  <2>3. x \notin Below(x)
    BY <2>1
  <2> QED
    BY <2>2, <2>3
<1>3. Rank(S, x) = Cardinality(Below(x)) /\ Rank(S, y) = Cardinality(Below(y))
  BY DEF Rank
<1> HIDE DEF Below
<1>4. Cardinality(Below(x) \cup {x}) = Cardinality(Below(x)) + 1
  BY <1>1, <1>2, FS_AddElement
<1>5. Cardinality(Below(x) \cup {x}) <= Cardinality(Below(y))
  BY <1>1, <1>2, FS_Subset
<1> QED
  BY <1>1, <1>3, <1>4, <1>5

\* Two numbers of a set have different ranks.
LEMMA RankIsUnique ==
    ASSUME NEW S \in SUBSET Nat, IsFiniteSet(S), NEW x \in S, NEW y \in S,
           Rank(S, x) = Rank(S, y)
    PROVE  x = y
<1>1. ASSUME x < y PROVE FALSE
  BY <1>1, RankGrows
<1>2. ASSUME y < x PROVE FALSE
  BY <1>2, RankGrows
<1> QED
  BY <1>1, <1>2

\* Every rank below the number of its members is taken.
LEMMA RankIsTaken ==
    ASSUME NEW S \in SUBSET Nat, IsFiniteSet(S), NEW r \in Nat, r < Cardinality(S)
    PROVE  \E x \in S : Rank(S, x) = r
<1> DEFINE Taken(q) == \E x \in S : Rank(S, x) = q
           Free == {q \in Nat : q < Cardinality(S) /\ ~Taken(q)}
<1>0. Cardinality(S) \in Nat
  BY FS_CardinalityType
<1>1. ASSUME Free # {} PROVE FALSE
  <2>1. PICK q \in Free : \A p \in Free : q <= p
    <3>1. Free \in SUBSET Nat
      OBVIOUS
    <3> HIDE DEF Free
    <3> QED
      BY <1>1, <3>1, Least
  <2>2. q \in Nat /\ q < Cardinality(S) /\ ~Taken(q)
    BY <2>1
  <2>3. CASE q = 0
    <3>1. S # {}
      BY <2>2, <2>3, FS_EmptySet
    <3>2. PICK x \in S : \A y \in S : x <= y
      BY <3>1, Least
    <3>3. {y \in S : y < x} = {}
      <4>1. ASSUME NEW y \in S PROVE ~ (y < x)
        BY <3>2
      <4> QED
        BY <4>1
    <3>4. Rank(S, x) = 0
      BY <3>3, FS_EmptySet DEF Rank
    <3> QED
      BY <2>2, <2>3, <3>4
  <2>4. CASE q # 0
    <3>1. q - 1 \in Nat /\ q - 1 < Cardinality(S) /\ ~ (q <= q - 1)
      BY <1>0, <2>2, <2>4
    <3>2. PICK x \in S : Rank(S, x) = q - 1
      BY <2>1, <3>1
    <3> DEFINE low  == {y \in S : y < x} \cup {x}
               high == S \ low
    <3>3. {y \in S : y < x} \in SUBSET S /\ x \notin {y \in S : y < x}
      OBVIOUS
    <3>4. IsFiniteSet({y \in S : y < x})
      BY <3>3, FS_Subset
    <3>5. Cardinality(low) = q
      <4>1. Cardinality(low) = Cardinality({y \in S : y < x}) + 1
        BY <3>3, <3>4, FS_AddElement
      <4> QED
        BY <4>1, <3>1, <3>2 DEF Rank
    <3>6. high # {} /\ high \in SUBSET Nat /\ high \in SUBSET S
      <4>1. low \in SUBSET S
        OBVIOUS
      <4>2. low # S
        BY <3>5, <2>2, <1>0
      <4> QED
        BY <4>1, <4>2
    <3>7. PICK y \in high : \A z \in high : y <= z
      <4> HIDE DEF high
      <4> QED
        BY <3>6, Least
    <3>8. {z \in S : z < y} = low
      <4>1. ASSUME NEW z \in S, z < y
            PROVE  z \in low
        BY <4>1, <3>6, <3>7
      <4>2. ASSUME NEW z \in low
            PROVE  z \in S /\ z < y
        <5>1. z \in S /\ z \in Nat /\ z <= x
          OBVIOUS
        <5>2. y \in Nat /\ y \in S /\ y \notin low
          BY <3>6, <3>7
        <5>3. x < y
          BY <5>2
        <5> QED
          BY <5>1, <5>2, <5>3
      <4> QED
        BY <4>1, <4>2
    <3>9. Rank(S, y) = q /\ y \in S
      BY <3>5, <3>8, <3>6 DEF Rank
    <3> QED
      BY <3>9, <2>2
  <2> QED
    BY <2>3, <2>4
<1>2. r \notin Free
  <2> HIDE DEF Free
  <2> QED
    BY <1>1
<1> QED
  BY <1>2

\* What stands where in the sequence of a set.
LEMMA AscendingIs ==
    ASSUME NEW S \in SUBSET Nat, IsFiniteSet(S)
    PROVE  /\ Cardinality(S) \in Nat /\ Ascending(S) \in Seq(Nat)
           /\ Len(Ascending(S)) = Cardinality(S)
           /\ \A i \in 1 .. Cardinality(S) :
                 Ascending(S)[i] \in S /\ Rank(S, Ascending(S)[i]) = i - 1
<1>1. Cardinality(S) \in Nat
  BY FS_CardinalityType
<1>2. Ascending(S) = [i \in 1 .. Cardinality(S) |-> CHOOSE x \in S : Rank(S, x) = i - 1]
  BY DEF Ascending
<1>3. ASSUME NEW i \in 1 .. Cardinality(S)
      PROVE  /\ (CHOOSE x \in S : Rank(S, x) = i - 1) \in S
             /\ Rank(S, CHOOSE x \in S : Rank(S, x) = i - 1) = i - 1
  <2>1. \E x \in S : Rank(S, x) = i - 1
    <3>1. i - 1 \in Nat /\ i - 1 < Cardinality(S)
      BY <1>1
    <3> QED
      BY <3>1, RankIsTaken
  <2> QED
    BY <2>1
<1>4. \A i \in 1 .. Cardinality(S) :
        Ascending(S)[i] \in S /\ Rank(S, Ascending(S)[i]) = i - 1
  BY <1>2, <1>3
<1>5. Ascending(S) \in Seq(Nat) /\ Len(Ascending(S)) = Cardinality(S)
  <2>1. PICK c \in Nat : c = Cardinality(S)
    BY <1>1
  <2>2. Ascending(S) \in [1 .. c -> Nat]
    BY <2>1, <1>2, <1>3
  <2> QED
    BY <2>1, <2>2
<1> QED
  BY <1>1, <1>4, <1>5

\* A number that stands at a rank stands at that place of the sequence.
LEMMA AscendingAt ==
    ASSUME NEW S \in SUBSET Nat, IsFiniteSet(S), NEW i \in 1 .. Cardinality(S),
           NEW x \in S, Rank(S, x) = i - 1
    PROVE  Ascending(S)[i] = x
<1>1. Ascending(S)[i] \in S /\ Rank(S, Ascending(S)[i]) = i - 1
  BY AscendingIs
<1> QED
  BY <1>1, RankIsUnique

\* No number makes the empty sequence.
LEMMA AscendingEmpty == Ascending({}) = <<>>
<1>1. {} \in SUBSET Nat /\ IsFiniteSet({}) /\ Cardinality({}) = 0
  BY FS_EmptySet
<1>2. Ascending({}) \in Seq(Nat) /\ Len(Ascending({})) = 0
  BY <1>1, AscendingIs
<1> QED
  BY <1>2, EmptySeq

\* The sequence of an interval counts it up.
LEMMA AscendingInterval ==
    ASSUME NEW d \in Nat, NEW m \in Nat
    PROVE  Ascending(d .. d + m - 1) = [i \in 1 .. m |-> d + i - 1]
<1> DEFINE S == d .. d + m - 1
<1>1. Cardinality(S) = m
  BY FS_Interval
<1>2. ASSUME NEW x \in S
      PROVE  Rank(S, x) = x - d
  <2>1. {y \in S : y < x} = d .. x - 1
    OBVIOUS
  <2>2. Cardinality(d .. x - 1) = x - d
    <3>1. x \in Int /\ d <= x /\ d \in Int /\ x - 1 \in Int
      OBVIOUS
    <3> HIDE DEF S
    <3>2. Cardinality(d .. x - 1) = IF d > x - 1 THEN 0 ELSE (x - 1) - d + 1
      BY <3>1, FS_Interval
    <3> QED
      BY <3>1, <3>2
  <2> QED
    BY <2>1, <2>2 DEF Rank
<1>3. ASSUME NEW i \in 1 .. m
      PROVE  (CHOOSE x \in S : Rank(S, x) = i - 1) = d + i - 1
  <2>1. d + i - 1 \in S /\ Rank(S, d + i - 1) = i - 1
    BY <1>2
  <2>2. \A x \in S : Rank(S, x) = i - 1 => x = d + i - 1
    BY <1>2
  <2> HIDE DEF S
  <2> QED
    BY <2>1, <2>2
<1>4. Ascending(S) = [i \in 1 .. Cardinality(S) |-> CHOOSE x \in S : Rank(S, x) = i - 1]
  BY DEF Ascending
<1> HIDE DEF S
<1> QED
  BY <1>1, <1>3, <1>4 DEF S

\* Two sets, one below the other, are sorted one after the other.
LEMMA AscendingJoins ==
    ASSUME NEW A \in SUBSET Nat, IsFiniteSet(A), NEW B \in SUBSET Nat, IsFiniteSet(B),
           \A a \in A, b \in B : a < b
    PROVE  Ascending(A) \o Ascending(B) = Ascending(A \cup B)
<1> DEFINE S == A \cup B
<1>1. S \in SUBSET Nat /\ IsFiniteSet(S) /\ A \cap B = {}
  <2>1. A \cap B = {}
    BY \A n \in Nat : ~ (n < n)
  <2>2. IsFiniteSet(S)
    BY FS_Union
  <2> QED
    BY <2>1, <2>2
<1>2. PICK n \in Nat : n = Cardinality(A)
  BY FS_CardinalityType
<1>3. PICK m \in Nat : m = Cardinality(B)
  BY FS_CardinalityType
<1>4. Cardinality(S) = n + m
  <2>1. Cardinality(A \cup B) = Cardinality(A) + Cardinality(B) - Cardinality(A \cap B)
    BY FS_Union
  <2>2. Cardinality(A \cap B) = 0
    BY <1>1, FS_EmptySet
  <2> QED
    BY <2>1, <2>2, <1>2, <1>3
<1>5. ASSUME NEW x \in A PROVE Rank(S, x) = Rank(A, x)
  <2>1. {y \in S : y < x} = {y \in A : y < x}
    <3>1. ASSUME NEW b \in B PROVE ~ (b < x)
      <4>1. x < b /\ x \in Nat /\ b \in Nat
        OBVIOUS
      <4> QED
        BY <4>1
    <3> QED
      BY <3>1
  <2> QED
    BY <2>1 DEF Rank
<1>6. ASSUME NEW x \in B PROVE Rank(S, x) = n + Rank(B, x)
  <2> DEFINE low == {y \in B : y < x}
  <2>1. {y \in S : y < x} = A \cup low
    OBVIOUS
  <2>2. low \in SUBSET B /\ A \cap low = {}
    BY <1>1
  <2> HIDE DEF low
  <2>3. IsFiniteSet(low) /\ Cardinality(low) \in Nat
    BY <2>2, FS_Subset, FS_CardinalityType
  <2>4. Cardinality(A \cup low) = n + Cardinality(low)
    <3>1. Cardinality(A \cup low) =
            Cardinality(A) + Cardinality(low) - Cardinality(A \cap low)
      BY <2>3, FS_Union
    <3>2. Cardinality(A \cap low) = 0
      BY <2>2, FS_EmptySet
    <3> QED
      BY <3>1, <3>2, <1>2, <2>3
  <2> QED
    BY <2>1, <2>4 DEF Rank, low
<1>7. /\ Ascending(A) \in Seq(Nat) /\ Len(Ascending(A)) = n
      /\ \A i \in 1 .. n : Ascending(A)[i] \in A /\ Rank(A, Ascending(A)[i]) = i - 1
  BY <1>2, AscendingIs
<1>8. /\ Ascending(B) \in Seq(Nat) /\ Len(Ascending(B)) = m
      /\ \A i \in 1 .. m : Ascending(B)[i] \in B /\ Rank(B, Ascending(B)[i]) = i - 1
  BY <1>3, AscendingIs
<1>9. Ascending(S) \in Seq(Nat) /\ Len(Ascending(S)) = n + m
  <2> HIDE DEF S
  <2> QED
    BY <1>1, <1>4, AscendingIs
<1> DEFINE joined == Ascending(A) \o Ascending(B)
<1>10. /\ joined \in Seq(Nat) /\ Len(joined) = n + m
       /\ \A i \in 1 .. n + m :
            joined[i] = IF i <= n THEN Ascending(A)[i] ELSE Ascending(B)[i - n]
  BY <1>7, <1>8, ConcatProperties
<1> HIDE DEF joined
<1>11. ASSUME NEW i \in 1 .. n + m
       PROVE  joined[i] = Ascending(S)[i]
  <2>1. CASE i <= n
    <3>1. i \in 1 .. n /\ joined[i] = Ascending(A)[i]
      BY <2>1, <1>10
    <3>2. Ascending(A)[i] \in A /\ Rank(S, Ascending(A)[i]) = i - 1
      BY <3>1, <1>5, <1>7
    <3>3. Ascending(A)[i] \in S
      BY <3>2
    <3> HIDE DEF S
    <3>4. Ascending(S)[i] = Ascending(A)[i]
      BY <3>2, <3>3, <1>1, <1>4, AscendingAt
    <3> QED
      BY <3>1, <3>4
  <2>2. CASE ~ (i <= n)
    <3>1. i - n \in 1 .. m /\ joined[i] = Ascending(B)[i - n]
      BY <2>2, <1>10
    <3>2. Ascending(B)[i - n] \in B /\ Rank(B, Ascending(B)[i - n]) = (i - n) - 1
      BY <3>1, <1>8
    <3>3. Rank(S, Ascending(B)[i - n]) = n + ((i - n) - 1)
      BY <3>2, <1>6
    <3>4. Rank(S, Ascending(B)[i - n]) = i - 1
      BY <3>3
    <3>5. Ascending(B)[i - n] \in S
      BY <3>2
    <3> HIDE DEF S
    <3>6. Ascending(S)[i] = Ascending(B)[i - n]
      <4>1. i \in 1 .. Cardinality(S)
        BY <1>4
      <4>2. PICK b \in S : b = Ascending(B)[i - n]
        BY <3>5
      <4>3. Rank(S, b) = i - 1
        BY <4>2, <3>4
      <4>4. Ascending(S)[i] = b
        BY <4>1, <4>3, <1>1, AscendingAt
      <4> QED
        BY <4>2, <4>4
    <3> QED
      BY <3>1, <3>6
  <2> QED
    BY <2>1, <2>2
<1> HIDE DEF S
<1>12. joined = Ascending(S)
  <2>1. joined \in [1 .. n + m -> Nat] /\ Ascending(S) \in [1 .. n + m -> Nat]
    BY <1>9, <1>10, LenProperties
  <2> QED
    BY <2>1, <1>11
<1> QED
  BY <1>12 DEF joined, S

-----------------------------------------------------------------------------
\* Candles that are due from d on, without a hole, are an interval.
LEMMA FromOn ==
    ASSUME NEW d \in Nat, NEW top \in Nat, NEW S \in SUBSET (d .. top),
           \A j, k \in Nat : d <= j /\ j <= k /\ k \in S => j \in S
    PROVE  \E m \in Nat : S = d .. d + m - 1
<1> DEFINE T == {n \in Nat : d <= n /\ n \notin S}
<1>1. T \in SUBSET Nat /\ (d + top + 1) \in T
  OBVIOUS
<1>2. PICK n \in T : \A k \in T : n <= k
  <2> HIDE DEF T
  <2> QED
    BY <1>1, Least
<1>3. n - d \in Nat
  OBVIOUS
<1>4. S = d .. d + (n - d) - 1
  <2>1. ASSUME NEW k \in S PROVE k \in d .. n - 1
    <3>1. k \in Nat /\ d <= k /\ n \in Nat /\ d <= n /\ n \notin S
      OBVIOUS
    <3>2. ~ (n <= k)
      BY <3>1
    <3> QED
      BY <3>1, <3>2
  <2>2. ASSUME NEW k \in d .. n - 1 PROVE k \in S
    <3>1. k \in Nat /\ d <= k /\ ~ (n <= k)
      OBVIOUS
    <3>2. k \notin T
      BY <1>2, <3>1
    <3> QED
      BY <3>1, <3>2
  <2>3. d + (n - d) - 1 = n - 1
    OBVIOUS
  <2>4. S = d .. n - 1
    BY <2>1, <2>2
  <2> QED
    BY <2>3, <2>4
<1> QED
  BY <1>3, <1>4

\* Frame by frame: a candle opens behind another one, or behind the end of it, exactly
\* when its number is higher.
LEMMA OpensBehind ==
    ASSUME NEW j \in Nat, NEW k \in Nat
    PROVE  /\ Open(j) \in Nat /\ Close(j) \in Nat
           /\ Open(j) + 1 <= Open(k) <=> j + 1 <= k
           /\ Close(j) + 1 <= Open(k) <=> j + 1 <= k
<1> USE PagesAssumption
<1>1. \A a, b \in Nat : a <= b => Open(a) <= Open(b) /\ Open(a) \in Nat
  <2> SUFFICES ASSUME NEW a \in Nat, NEW b \in Nat, a <= b
               PROVE  a * Frame <= b * Frame /\ a * Frame \in Nat
    BY DEF Open
  <2> QED
    BY Product
<1>2. Close(j) + 1 = Open(j + 1) /\ Open(j + 1) = Open(j) + Frame
  BY DEF Close, Open
<1>3. Open(j) \in Nat /\ Open(k) \in Nat /\ Open(j + 1) \in Nat
  BY <1>1
<1>4. CASE j + 1 <= k
  BY <1>1, <1>2, <1>3, <1>4 DEF Close
<1>5. CASE ~ (j + 1 <= k)
  BY <1>1, <1>2, <1>3, <1>5 DEF Close
<1> QED
  BY <1>4, <1>5

\* Answers of the exchange from the next due candle d on.
LEMMA ServedIs ==
    ASSUME NEW cursor \in Nat, NEW end \in Nat, NEW newest \in Nat, NEW d \in Nat,
           \A k \in Nat : cursor <= Open(k) <=> d <= k
    PROVE  \E m \in Nat :
               /\ m <= PageLimit
               /\ Served(cursor, end, newest) = [i \in 1 .. m |-> d + i - 1]
               /\ \A i \in 1 .. m : Open(d + i - 1) <= end /\ d + i - 1 <= newest
               /\ m < PageLimit =>
                    \A k \in Nat : k <= newest /\ Open(k) <= end => k < d + m
<1> USE PagesAssumption
<1> DEFINE S == {k \in 0 .. newest : cursor <= Open(k) /\ Open(k) <= end}
<1>1. \A j, k \in Nat : j <= k => Open(j) <= Open(k)
  <2> SUFFICES ASSUME NEW j \in Nat, NEW k \in Nat, j <= k
               PROVE  j * Frame <= k * Frame
    BY DEF Open
  <2>1. k - j \in Nat /\ k = j + (k - j)
    OBVIOUS
  <2>2. k * Frame = j * Frame + (k - j) * Frame
    OBVIOUS
  <2>3. (k - j) * Frame >= 0
    BY <2>1
  <2>4. j * Frame \in Nat
    OBVIOUS
  <2> QED
    BY <2>2, <2>3, <2>4
<1>2. \A k \in Nat : Open(k) \in Nat
  BY DEF Open
<1>3. S \in SUBSET (d .. newest)
  OBVIOUS
<1>4. \A j, k \in Nat : d <= j /\ j <= k /\ k \in S => j \in S
  BY <1>1, <1>2
<1>5. PICK n \in Nat : S = d .. d + n - 1
  <2> HIDE DEF S
  <2> QED
    BY <1>3, <1>4, FromOn
<1> DEFINE m == IF n < PageLimit THEN n ELSE PageLimit
           due == Ascending(S)
<1>6. due = [i \in 1 .. n |-> d + i - 1]
  BY <1>5, AscendingInterval
<1>7. Served(cursor, end, newest) =
        SubSeq(due, 1, IF Len(due) < PageLimit THEN Len(due) ELSE PageLimit)
  BY DEF Served
<1> HIDE DEF due
<1>8. due \in Seq(Nat) /\ Len(due) = n
  BY <1>6
<1>9. Served(cursor, end, newest) = SubSeq(due, 1, m)
  BY <1>7, <1>8
<1>10. SubSeq(due, 1, m) = [i \in 1 .. m |-> d + i - 1]
  <2>1. m \in Nat /\ m <= n
    OBVIOUS
  <2>2. \A i \in 1 .. m : due[i] \in Nat /\ due[i] = d + i - 1
    BY <1>6, <2>1
  <2>3. /\ SubSeq(due, 1, m) \in Seq(Nat)
        /\ Len(SubSeq(due, 1, m)) = IF 1 <= m THEN m - 1 + 1 ELSE 0
        /\ \A i \in 1 .. m - 1 + 1 : SubSeq(due, 1, m)[i] = due[1 + i - 1]
    BY <2>1, <2>2, SubSeqProperties
  <2> HIDE DEF m
  <2>4. Len(SubSeq(due, 1, m)) = m
    BY <2>1, <2>3
  <2>4a. SubSeq(due, 1, m) \in [1 .. m -> Nat]
    BY <2>3, <2>4, LenProperties
  <2>5. \A i \in 1 .. m : SubSeq(due, 1, m)[i] = d + i - 1
    BY <2>1, <2>2, <2>3
  <2> QED
    BY <2>4a, <2>5
<1>11. \A i \in 1 .. m : Open(d + i - 1) <= end /\ d + i - 1 <= newest
  <2> SUFFICES ASSUME NEW i \in 1 .. m
               PROVE  Open(d + i - 1) <= end /\ d + i - 1 <= newest
    OBVIOUS
  <2>1. d + i - 1 \in S
    BY <1>5
  <2> QED
    BY <2>1
<1>12. ASSUME m < PageLimit, NEW k \in Nat, k <= newest, Open(k) <= end
       PROVE  k < d + m
  <2>1. m = n
    BY <1>12
  <2>2. CASE k < d
    BY <2>2, <2>1
  <2>3. CASE d <= k
    <3>1. k \in S
      BY <2>3, <1>12
    <3> QED
      BY <3>1, <2>1, <1>5
  <2> QED
    BY <2>2, <2>3
<1> QED
  <2>1. m \in Nat /\ m <= PageLimit
    OBVIOUS
  <2> HIDE DEF m
  <2> QED
    BY <2>1, <1>9, <1>10, <1>11, <1>12

\* What holds of a load after any of its pages: it has the candles from `first` on, and
\* goes on with the one behind them.
Reached(load, first, end) ==
    /\ load.cursor \in Nat /\ load.all \in Seq(Nat) /\ load.done \in BOOLEAN
    /\ \A i \in 1 .. Len(load.all) :
          load.all[i] = first + i - 1 /\ load.all[i] <= LastCandle /\ Open(load.all[i]) <= end
    /\ \A k \in Nat : load.cursor <= Open(k) <=> first + Len(load.all) <= k

\* Nothing is owed any more.
Paid(load, first, newest, owed) ==
    \A k \in first .. newest : Open(k) <= owed => k < first + Len(load.all)

\* After n pages a load that is not over has n full ones, or its next page would begin
\* at the end.
FetchInv(load, first, end, oldest, n) ==
    /\ Reached(load, first, end)
    /\ load.done => Paid(load, first, oldest, end)
    /\ ~load.done => Len(load.all) = n * PageLimit

\* The same of LoadCandles, which is also over when its next page would begin at the end.
LoadInv(load, first, end, oldest, n) ==
    /\ Reached(load, first, end)
    /\ load.done => Paid(load, first, oldest, end)
    /\ ~load.done => Len(load.all) = n * PageLimit \/ load.cursor >= end

\* A page that is full goes on; a page that is not leaves nothing behind.
LEMMA PageIsJoined ==
    ASSUME NEW load, NEW first \in Nat, NEW end \in Nat, NEW newest \in 0 .. LastCandle,
           Reached(load, first, end), NEW batch, batch = Served(load.cursor, end, newest)
    PROVE  /\ batch \in Seq(Nat) /\ load.all \o batch \in Seq(Nat)
           /\ Len(load.all \o batch) = Len(load.all) + Len(batch)
           /\ Len(batch) \in Nat /\ Len(batch) <= PageLimit
           /\ \A i \in 1 .. Len(load.all \o batch) :
                 /\ (load.all \o batch)[i] = first + i - 1
                 /\ (load.all \o batch)[i] <= LastCandle
                 /\ Open((load.all \o batch)[i]) <= end
           /\ batch # <<>> => Last(batch) = first + Len(load.all) + Len(batch) - 1
           /\ Len(batch) < PageLimit =>
                 \A k \in Nat : k <= newest /\ Open(k) <= end
                     => k < first + Len(load.all) + Len(batch)
<1>1. load.all \in Seq(Nat) /\ Len(load.all) \in Nat /\ newest \in Nat
  BY CandleAssumption DEF Reached
<1>2. PICK old \in Nat : old = Len(load.all)
  BY <1>1
<1>3. PICK d \in Nat : d = first + old
  OBVIOUS
<1>4. PICK m \in Nat :
        /\ m <= PageLimit
        /\ batch = [i \in 1 .. m |-> d + i - 1]
        /\ \A i \in 1 .. m : Open(d + i - 1) <= end /\ d + i - 1 <= newest
        /\ m < PageLimit => \A k \in Nat : k <= newest /\ Open(k) <= end => k < d + m
  <2>1. load.cursor \in Nat /\ \A k \in Nat : load.cursor <= Open(k) <=> d <= k
    BY <1>2, <1>3 DEF Reached
  <2> QED
    BY <1>1, <2>1, ServedIs
<1>5. batch \in Seq(Nat) /\ Len(batch) = m
  BY <1>4
<1>6. /\ load.all \o batch \in Seq(Nat)
      /\ Len(load.all \o batch) = old + m
      /\ \A i \in 1 .. old + m :
            (load.all \o batch)[i] = IF i <= old THEN load.all[i] ELSE batch[i - old]
  BY <1>1, <1>2, <1>5, ConcatProperties
<1>7. ASSUME NEW i \in 1 .. old + m
      PROVE  /\ (load.all \o batch)[i] = first + i - 1
             /\ (load.all \o batch)[i] <= LastCandle
             /\ Open((load.all \o batch)[i]) <= end
  <2>1. CASE i <= old
    <3>1. i \in 1 .. old
      BY <2>1
    <3>2. (load.all \o batch)[i] = load.all[i]
      BY <2>1, <1>6
    <3>3. load.all[i] = first + i - 1 /\ load.all[i] <= LastCandle /\ Open(load.all[i]) <= end
      BY <3>1, <1>2 DEF Reached
    <3> QED
      BY <3>2, <3>3
  <2>2. CASE ~ (i <= old)
    <3>1. i - old \in 1 .. m
      BY <2>2
    <3>2. (load.all \o batch)[i] = d + (i - old) - 1
      BY <3>1, <2>2, <1>4, <1>6
    <3>3. Open(d + (i - old) - 1) <= end /\ d + (i - old) - 1 <= newest
      BY <3>1, <1>4
    <3>4. d + (i - old) - 1 = first + i - 1 /\ first + i - 1 <= LastCandle
      BY <3>3, <1>3, CandleAssumption
    <3> QED
      BY <3>2, <3>3, <3>4
  <2> QED
    BY <2>1, <2>2
<1>8. batch # <<>> => Last(batch) = d + m - 1
  <2>1. batch # <<>> => m \in 1 .. m
    BY <1>4, <1>5
  <2> QED
    BY <2>1, <1>4, <1>5 DEF Last
<1> QED
  BY <1>2, <1>3, <1>4, <1>5, <1>6, <1>7, <1>8

\* A page of FetchKlinesAll keeps what holds, and ends the load only when all is in.
LEMMA FetchPageStep ==
    ASSUME NEW load, NEW first \in Nat, NEW end \in Nat, NEW newest \in 0 .. LastCandle,
           NEW oldest \in 0 .. newest, NEW n \in Nat,
           FetchInv(load, first, end, oldest, n),
           NEW next, next = FetchPage(load, end, newest)
    PROVE  FetchInv(next, first, end, oldest, n + 1)
<1> USE DEF FetchInv
<1> DEFINE batch == Served(load.cursor, end, newest)
<1>0. next = IF load.done THEN load
             ELSE IF batch = <<>> THEN [load EXCEPT !.done = TRUE]
             ELSE [cursor |-> NextAll(batch),
                   all |-> load.all \o batch,
                   done |-> Len(batch) < PageLimit \/ NextAll(batch) > end]
  BY DEF FetchPage
<1> HIDE DEF batch
<1>1. /\ batch \in Seq(Nat) /\ load.all \o batch \in Seq(Nat)
      /\ Len(load.all \o batch) = Len(load.all) + Len(batch)
      /\ Len(batch) \in Nat /\ Len(batch) <= PageLimit
      /\ \A i \in 1 .. Len(load.all \o batch) :
            /\ (load.all \o batch)[i] = first + i - 1
            /\ (load.all \o batch)[i] <= LastCandle
            /\ Open((load.all \o batch)[i]) <= end
      /\ batch # <<>> => Last(batch) = first + Len(load.all) + Len(batch) - 1
      /\ Len(batch) < PageLimit =>
            \A k \in Nat : k <= newest /\ Open(k) <= end
                => k < first + Len(load.all) + Len(batch)
  BY PageIsJoined DEF batch
<1>2. Len(load.all) \in Nat /\ LastCandle \in Nat /\ PageLimit \in Nat
  BY PagesAssumption, CandleAssumption DEF Reached
<1>3. CASE load.done
  BY <1>3, <1>0
<1>4. CASE ~load.done /\ batch = <<>>
  <2>1. next = [load EXCEPT !.done = TRUE]
    BY <1>4, <1>0
  <2>2. Len(batch) = 0 /\ PageLimit > 0
    BY <1>4, PagesAssumption
  <2>3. Paid(load, first, oldest, end)
    BY <2>2, <1>1, <1>2 DEF Paid
  <2> QED
    BY <2>1, <2>3 DEF Reached, Paid
<1>5. CASE ~load.done /\ batch # <<>>
  <2>1. /\ next.cursor = NextAll(batch) /\ next.all = load.all \o batch
        /\ next.done = (Len(batch) < PageLimit \/ NextAll(batch) > end)
    BY <1>5, <1>0
  <2>2. Len(batch) > 0
    BY <1>1, <1>5, EmptySeq
  <2> DEFINE last == first + Len(load.all) + Len(batch) - 1
  <2>3. last \in Nat /\ Last(batch) = last
    BY <1>1, <1>2, <2>2, <1>5
  <2>5. first + Len(next.all) = last + 1
    BY <2>1, <1>1, <1>2
  <2> HIDE DEF last
  <2>4. NextAll(batch) = Open(last) + 1 /\ Open(last) \in Nat
    BY <2>3, OpensBehind DEF NextAll
  <2>6. Reached(next, first, end)
    <3>1. ASSUME NEW k \in Nat
          PROVE  next.cursor <= Open(k) <=> first + Len(next.all) <= k
      <4>1. Open(last) + 1 <= Open(k) <=> last + 1 <= k
        BY <2>3, OpensBehind
      <4> QED
        BY <4>1, <2>1, <2>4, <2>5
    <3>2. next.cursor \in Nat /\ next.all \in Seq(Nat) /\ next.done \in BOOLEAN
      BY <2>1, <2>4, <1>1
    <3>3. \A i \in 1 .. Len(next.all) : /\ next.all[i] = first + i - 1
                                        /\ next.all[i] <= LastCandle
                                        /\ Open(next.all[i]) <= end
      BY <2>1, <1>1
    <3> QED
      BY <3>1, <3>2, <3>3 DEF Reached
  <2>7. ASSUME next.done PROVE Paid(next, first, oldest, end)
    <3>1. CASE Len(batch) < PageLimit
      BY <3>1, <1>1, <1>2, <2>1 DEF Paid
    <3>2. CASE NextAll(batch) > end
      <4> SUFFICES ASSUME NEW k \in first .. oldest, Open(k) <= end
                   PROVE  k < last + 1
        BY <2>5 DEF Paid
      <4>1. k \in Nat /\ Open(k) \in Nat
        BY OpensBehind
      <4>2. ~ (Open(last) + 1 <= Open(k))
        BY <4>1, <3>2, <2>4
      <4>3. ~ (last + 1 <= k)
        BY <4>1, <4>2, <2>3, OpensBehind
      <4> QED
        BY <4>1, <4>3, <2>3
    <3> QED
      BY <2>7, <2>1, <3>1, <3>2
  <2>8. ASSUME ~next.done PROVE Len(next.all) = (n + 1) * PageLimit
    <3>1. ~ (Len(batch) < PageLimit)
      BY <2>8, <2>1
    <3>2. Len(batch) = PageLimit
      BY <3>1, <1>1, <1>2
    <3>3. Len(load.all) = n * PageLimit
      BY <1>5
    <3>4. (n + 1) * PageLimit = n * PageLimit + PageLimit
      BY <1>2
    <3> QED
      BY <3>2, <3>3, <3>4, <2>1, <1>1
  <2> QED
    BY <2>6, <2>7, <2>8
<1> QED
  BY <1>3, <1>4, <1>5

\* A page of LoadCandles keeps what holds; it ends the load only when all is in, or asks
\* for no more when the next page would begin at the end.
LEMMA LoadPageStep ==
    ASSUME NEW load, NEW first \in Nat, NEW end \in Nat, NEW newest \in 0 .. LastCandle,
           NEW oldest \in 0 .. newest, NEW n \in Nat,
           LoadInv(load, first, end, oldest, n),
           NEW next, next = LoadPage(load, end, newest)
    PROVE  LoadInv(next, first, end, oldest, n + 1)
<1> USE DEF LoadInv
<1> DEFINE batch == Served(load.cursor, end, newest)
<1>0. next = IF load.done \/ load.cursor >= end THEN load
             ELSE IF batch = <<>> THEN [load EXCEPT !.done = TRUE]
             ELSE [cursor |-> NextLoad(batch),
                   all |-> load.all \o batch,
                   done |-> Len(batch) < PageLimit]
  BY DEF LoadPage
<1> HIDE DEF batch
<1>1. /\ batch \in Seq(Nat) /\ load.all \o batch \in Seq(Nat)
      /\ Len(load.all \o batch) = Len(load.all) + Len(batch)
      /\ Len(batch) \in Nat /\ Len(batch) <= PageLimit
      /\ \A i \in 1 .. Len(load.all \o batch) :
            /\ (load.all \o batch)[i] = first + i - 1
            /\ (load.all \o batch)[i] <= LastCandle
            /\ Open((load.all \o batch)[i]) <= end
      /\ batch # <<>> => Last(batch) = first + Len(load.all) + Len(batch) - 1
      /\ Len(batch) < PageLimit =>
            \A k \in Nat : k <= newest /\ Open(k) <= end
                => k < first + Len(load.all) + Len(batch)
  BY PageIsJoined DEF batch
<1>2. Len(load.all) \in Nat /\ LastCandle \in Nat /\ PageLimit \in Nat
  BY PagesAssumption, CandleAssumption DEF Reached
<1>3. CASE load.done \/ load.cursor >= end
  BY <1>3, <1>0
<1>4. CASE ~(load.done \/ load.cursor >= end) /\ batch = <<>>
  <2>1. next = [load EXCEPT !.done = TRUE]
    BY <1>4, <1>0
  <2>2. Len(batch) = 0 /\ PageLimit > 0
    BY <1>4, PagesAssumption
  <2>3. Paid(load, first, oldest, end)
    BY <2>2, <1>1, <1>2 DEF Paid
  <2> QED
    BY <2>1, <2>3 DEF Reached, Paid
<1>5. CASE ~(load.done \/ load.cursor >= end) /\ batch # <<>>
  <2>1. /\ next.cursor = NextLoad(batch) /\ next.all = load.all \o batch
        /\ next.done = (Len(batch) < PageLimit)
    BY <1>5, <1>0
  <2>2. Len(batch) > 0
    BY <1>1, <1>5, EmptySeq
  <2> DEFINE last == first + Len(load.all) + Len(batch) - 1
  <2>3. last \in Nat /\ Last(batch) = last
    BY <1>1, <1>2, <2>2, <1>5
  <2>4. first + Len(next.all) = last + 1
    BY <2>1, <1>1, <1>2
  <2> HIDE DEF last
  <2>5. NextLoad(batch) = Close(last) + 1 /\ Close(last) \in Nat
    BY <2>3, OpensBehind DEF NextLoad
  <2>6. Reached(next, first, end)
    <3>1. ASSUME NEW k \in Nat
          PROVE  next.cursor <= Open(k) <=> first + Len(next.all) <= k
      <4>1. Close(last) + 1 <= Open(k) <=> last + 1 <= k
        BY <2>3, OpensBehind
      <4> QED
        BY <4>1, <2>1, <2>4, <2>5
    <3>2. next.cursor \in Nat /\ next.all \in Seq(Nat) /\ next.done \in BOOLEAN
      BY <2>1, <2>5, <1>1
    <3>3. \A i \in 1 .. Len(next.all) : /\ next.all[i] = first + i - 1
                                        /\ next.all[i] <= LastCandle
                                        /\ Open(next.all[i]) <= end
      BY <2>1, <1>1
    <3> QED
      BY <3>1, <3>2, <3>3 DEF Reached
  <2>7. ASSUME next.done PROVE Paid(next, first, oldest, end)
    <3>1. first + Len(next.all) = first + Len(load.all) + Len(batch)
      BY <2>1, <1>1, <1>2
    <3> SUFFICES ASSUME NEW k \in first .. oldest, Open(k) <= end
                 PROVE  k < first + Len(next.all)
      BY DEF Paid
    <3>2. k \in Nat /\ k <= newest
      OBVIOUS
    <3> QED
      BY <3>1, <3>2, <2>7, <2>1, <1>1
  <2>8. ASSUME ~next.done PROVE Len(next.all) = (n + 1) * PageLimit
    <3>1. ~ (Len(batch) < PageLimit)
      BY <2>8, <2>1
    <3>2. Len(batch) = PageLimit
      BY <3>1, <1>1, <1>2
    <3>3. Len(load.all) = n * PageLimit
      BY <1>5
    <3>4. (n + 1) * PageLimit = n * PageLimit + PageLimit
      BY <1>2
    <3> QED
      BY <3>2, <3>3, <3>4, <2>1, <1>1
  <2> QED
    BY <2>6, <2>7, <2>8
<1> QED
  BY <1>3, <1>4, <1>5

\* What a load is between two pages.
States == [cursor : Nat, all : Seq(Nat), done : BOOLEAN]

\* Of every instant there is a first candle that opens then or later.
LEMMA FirstDue ==
    ASSUME NEW cursor \in Nat
    PROVE  \E d \in 0 .. cursor : /\ \A k \in Nat : cursor <= Open(k) <=> d <= k
                                 /\ (d = 0 \/ Open(d - 1) < cursor)
<1> DEFINE S == {k \in Nat : cursor <= Open(k)}
<1>1. cursor \in S /\ S \in SUBSET Nat
  <2>1. 1 * cursor <= Frame * cursor /\ 1 * cursor = cursor /\ Frame * cursor = cursor * Frame
    BY PagesAssumption, Product
  <2> QED
    BY <2>1 DEF Open
<1>2. PICK d \in S : \A k \in S : d <= k
  <2> HIDE DEF S
  <2> QED
    BY <1>1, Least
<1>3. d \in Nat /\ d \in 0 .. cursor
  <2> d <= cursor
    BY <1>1, <1>2
  <2> QED
    OBVIOUS
<1>4. ASSUME NEW k \in Nat, d <= k
      PROVE  cursor <= Open(k)
  <2>1. Open(d) <= Open(k) /\ Open(d) \in Nat /\ Open(k) \in Nat
    BY <1>3, <1>4, Product, PagesAssumption DEF Open
  <2> QED
    BY <2>1
<1>5. \A k \in Nat : cursor <= Open(k) => d <= k
  BY <1>2
<1>6. ASSUME d # 0
      PROVE  Open(d - 1) < cursor
  <2>1. d - 1 \in Nat /\ ~ (d <= d - 1)
    BY <1>3, <1>6
  <2>2. ~ (cursor <= Open(d - 1)) /\ Open(d - 1) \in Nat
    BY <2>1, <1>5, OpensBehind
  <2> QED
    BY <2>2
<1> QED
  BY <1>3, <1>4, <1>5, <1>6

\* An answer is a sequence of candles.
LEMMA ServedIsSeq ==
    ASSUME NEW cursor \in Nat, NEW end \in Nat, NEW newest \in Nat
    PROVE  Served(cursor, end, newest) \in Seq(Nat)
<1>1. PICK d \in Nat : \A k \in Nat : cursor <= Open(k) <=> d <= k
  <2>1. PICK d \in 0 .. cursor : \A k \in Nat : cursor <= Open(k) <=> d <= k
    BY FirstDue
  <2> QED
    BY <2>1
<1>2. PICK m \in Nat :
        /\ m <= PageLimit
        /\ Served(cursor, end, newest) = [i \in 1 .. m |-> d + i - 1]
        /\ \A i \in 1 .. m : Open(d + i - 1) <= end /\ d + i - 1 <= newest
        /\ m < PageLimit => \A k \in Nat : k <= newest /\ Open(k) <= end => k < d + m
  BY <1>1, ServedIs
<1> QED
  BY <1>2

\* A page leads from one such state to another.
LEMMA StepsAreStates ==
    ASSUME NEW load \in States, NEW end \in Nat, NEW newest \in Nat
    PROVE  FetchPage(load, end, newest) \in States /\ LoadPage(load, end, newest) \in States
<1> DEFINE batch == Served(load.cursor, end, newest)
<1>0. load.cursor \in Nat /\ load.all \in Seq(Nat) /\ [load EXCEPT !.done = TRUE] \in States
  BY DEF States
<1>1. batch \in Seq(Nat)
  BY <1>0, ServedIsSeq
<1>5. FetchPage(load, end, newest) =
        IF load.done THEN load
        ELSE IF batch = <<>> THEN [load EXCEPT !.done = TRUE]
        ELSE [cursor |-> NextAll(batch), all |-> load.all \o batch,
              done |-> Len(batch) < PageLimit \/ NextAll(batch) > end]
  BY DEF FetchPage
<1>6. LoadPage(load, end, newest) =
        IF load.done \/ load.cursor >= end THEN load
        ELSE IF batch = <<>> THEN [load EXCEPT !.done = TRUE]
        ELSE [cursor |-> NextLoad(batch), all |-> load.all \o batch,
              done |-> Len(batch) < PageLimit]
  BY DEF LoadPage
<1> HIDE DEF batch
<1>2. load.all \o batch \in Seq(Nat) /\ Len(batch) \in Nat
  BY <1>0, <1>1, ConcatProperties
<1>3. batch # <<>> => NextAll(batch) \in Nat /\ NextLoad(batch) \in Nat
  <2>1. batch # <<>> => Last(batch) \in Nat
    BY <1>1, EmptySeq DEF Last
  <2>2. ASSUME Last(batch) \in Nat
        PROVE  Open(Last(batch)) \in Nat /\ Close(Last(batch)) \in Nat
    BY <2>2, OpensBehind
  <2> QED
    BY <2>1, <2>2 DEF NextAll, NextLoad
<1>4. batch # <<>> =>
        /\ [cursor |-> NextAll(batch), all |-> load.all \o batch,
            done |-> Len(batch) < PageLimit \/ NextAll(batch) > end] \in States
        /\ [cursor |-> NextLoad(batch), all |-> load.all \o batch,
            done |-> Len(batch) < PageLimit] \in States
  BY <1>2, <1>3 DEF States
<1> QED
  BY <1>0, <1>4, <1>5, <1>6, Zenon

\* g is the load of FetchKlinesAll after each of its pages.
FetchPages(g, market, from, end) ==
    /\ g[0] = Begun(from)
    /\ \A n \in 1 .. MaxPages : g[n] = FetchPage(g[n - 1], end, market[n])
    /\ FetchKlinesAll(market, from, end) = g[MaxPages].all

\* FetchKlinesAll takes its pages one after the other.
LEMMA FetchRuns ==
    ASSUME NEW market \in Markets, NEW from \in Nat, NEW end \in Nat
    PROVE  \E g : FetchPages(g, market, from, end)
<1> DEFINE Is(g) == g = [n \in 0 .. MaxPages |->
                            IF n = 0 THEN Begun(from) ELSE FetchPage(g[n - 1], end, market[n])]
<1>1. \A n \in 1 .. MaxPages : market[n] \in Nat
  BY CandleAssumption DEF Markets
<1>2. MaxPages \in Nat /\ Begun(from) \in States
  BY PagesAssumption DEF Begun, States
<1>3. \E g : Is(g)
  <2> DEFINE F == [s \in States |-> [n \in 1 .. MaxPages |-> FetchPage(s, end, market[n])]]
  <2>1. F \in [States -> [1 .. MaxPages -> States]]
    BY <1>1, StepsAreStates
  <2>2. PICK g \in [0 .. MaxPages -> States] :
          g[0] = Begun(from) /\ \A n \in 1 .. MaxPages : g[n] = F[g[n - 1]][n]
    <3> HIDE DEF F
    <3>1. Iterations(MaxPages, States, Begun(from), F) # {}
      BY <1>2, <2>1, Repeated
    <3> QED
      BY <3>1 DEF Iterations
  <2>3. ASSUME NEW n \in 1 .. MaxPages
        PROVE  g[n] = FetchPage(g[n - 1], end, market[n])
    <3>1. g[n - 1] \in States
      BY <1>2
    <3> QED
      BY <2>2, <3>1
  <2>4. \A n \in 0 .. MaxPages :
          g[n] = IF n = 0 THEN Begun(from) ELSE FetchPage(g[n - 1], end, market[n])
    BY <2>2, <2>3, <1>2
  <2>5. Is(g)
    BY <2>4
  <2> QED
    BY <2>5
<1> DEFINE g == CHOOSE g : Is(g)
<1>4. Is(g)
  BY <1>3
<1>5. FetchKlinesAll(market, from, end) = g[MaxPages].all
  BY DEF FetchKlinesAll
<1> HIDE DEF g
<1> QED
  BY <1>2, <1>4, <1>5 DEF FetchPages

\* g is the load of LoadCandles after each of its pages.
LoadPages(g, market, from, end) ==
    /\ g[0] = Begun(from)
    /\ \A n \in 1 .. MaxPages : g[n] = LoadPage(g[n - 1], end, market[n])
    /\ LoadCandles(market, from, end) = g[MaxPages].all

\* LoadCandles takes its pages one after the other.
LEMMA LoadRuns ==
    ASSUME NEW market \in Markets, NEW from \in Nat, NEW end \in Nat
    PROVE  \E g : LoadPages(g, market, from, end)
<1> DEFINE Is(g) == g = [n \in 0 .. MaxPages |->
                            IF n = 0 THEN Begun(from) ELSE LoadPage(g[n - 1], end, market[n])]
<1>1. \A n \in 1 .. MaxPages : market[n] \in Nat
  BY CandleAssumption DEF Markets
<1>2. MaxPages \in Nat /\ Begun(from) \in States
  BY PagesAssumption DEF Begun, States
<1>3. \E g : Is(g)
  <2> DEFINE F == [s \in States |-> [n \in 1 .. MaxPages |-> LoadPage(s, end, market[n])]]
  <2>1. F \in [States -> [1 .. MaxPages -> States]]
    BY <1>1, StepsAreStates
  <2>2. PICK g \in [0 .. MaxPages -> States] :
          g[0] = Begun(from) /\ \A n \in 1 .. MaxPages : g[n] = F[g[n - 1]][n]
    <3> HIDE DEF F
    <3>1. Iterations(MaxPages, States, Begun(from), F) # {}
      BY <1>2, <2>1, Repeated
    <3> QED
      BY <3>1 DEF Iterations
  <2>3. ASSUME NEW n \in 1 .. MaxPages
        PROVE  g[n] = LoadPage(g[n - 1], end, market[n])
    <3>1. g[n - 1] \in States
      BY <1>2
    <3> QED
      BY <2>2, <3>1
  <2>4. \A n \in 0 .. MaxPages :
          g[n] = IF n = 0 THEN Begun(from) ELSE LoadPage(g[n - 1], end, market[n])
    BY <2>2, <2>3, <1>2
  <2>5. Is(g)
    BY <2>4
  <2> QED
    BY <2>5
<1> DEFINE g == CHOOSE g : Is(g)
<1>4. Is(g)
  BY <1>3
<1>5. LoadCandles(market, from, end) = g[MaxPages].all
  BY DEF LoadCandles
<1> HIDE DEF g
<1> QED
  BY <1>2, <1>4, <1>5 DEF LoadPages

\* The first candle of a load is the one its result counts from.
LEMMA FirstOf ==
    ASSUME NEW from \in Nat
    PROVE  LET first == CHOOSE k \in 0 .. from : from <= Open(k) /\ (k = 0 \/ Open(k - 1) < from)
           IN first \in Nat /\ \A k \in Nat : from <= Open(k) <=> first <= k
<1> DEFINE Is(k) == from <= Open(k) /\ (k = 0 \/ Open(k - 1) < from)
           first == CHOOSE k \in 0 .. from : Is(k)
<1>1. \E k \in 0 .. from : Is(k)
  <2>1. PICK d \in 0 .. from : /\ \A k \in Nat : from <= Open(k) <=> d <= k
                              /\ (d = 0 \/ Open(d - 1) < from)
    BY FirstDue
  <2>2. Is(d)
    BY <2>1
  <2> QED
    BY <2>2
<1>2. first \in 0 .. from /\ Is(first)
  BY <1>1
<1> HIDE DEF first
<1>3. ASSUME NEW k \in Nat
      PROVE  from <= Open(k) <=> first <= k
  <2>1. first \in Nat /\ Open(first) \in Nat /\ Open(k) \in Nat
    BY <1>2, OpensBehind
  <2>2. CASE first <= k
    <3>1. Open(first) <= Open(k)
      BY <2>1, <2>2, Product, PagesAssumption DEF Open
    <3> QED
      BY <2>1, <2>2, <3>1, <1>2
  <2>3. CASE ~ (first <= k)
    <3>1. first # 0 /\ first - 1 \in Nat /\ k <= first - 1
      BY <2>1, <2>3
    <3>2. Open(k) <= Open(first - 1) /\ Open(first - 1) \in Nat
      BY <3>1, OpensBehind, Product, PagesAssumption DEF Open
    <3>3. Open(first - 1) < from
      BY <3>1, <1>2
    <3> QED
      BY <2>1, <2>3, <3>2, <3>3
  <2> QED
    BY <2>2, <2>3
<1> QED
  BY <1>2, <1>3 DEF first

\* Pages begin at nothing.
LEMMA BegunReached ==
    ASSUME NEW from \in Nat, NEW end \in Nat, NEW first \in Nat,
           \A k \in Nat : from <= Open(k) <=> first <= k
    PROVE  Reached(Begun(from), first, end) /\ Len(Begun(from).all) = 0 /\ ~Begun(from).done
  BY DEF Begun, Reached

\* All pages together are as many as the market can fill.
LEMMA AllPages ==
    ASSUME NEW load, NEW first \in Nat, NEW end \in Nat, NEW oldest \in 0 .. LastCandle,
           Reached(load, first, end), Len(load.all) = MaxPages * PageLimit
    PROVE  Paid(load, first, oldest, end)
<1>1. LastCandle \in Nat /\ MaxPages * PageLimit \in Nat /\ LastCandle < MaxPages * PageLimit
  BY PagesAssumption, CandleAssumption
<1>2. PICK n \in Nat : n = MaxPages * PageLimit
  BY <1>1
<1> QED
  BY <1>1, <1>2 DEF Paid

\* FetchKlinesAll returns what its range owes.
LEMMA FetchedWhole ==
    ASSUME NEW market \in Markets, NEW from \in Nat, NEW end \in Nat
    PROVE  Whole(FetchKlinesAll(market, from, end), market, from, end, end)
<1> DEFINE first == CHOOSE k \in 0 .. from : from <= Open(k) /\ (k = 0 \/ Open(k - 1) < from)
<1>1. first \in Nat /\ \A k \in Nat : from <= Open(k) <=> first <= k
  BY FirstOf
<1>2. PICK g : FetchPages(g, market, from, end)
  BY FetchRuns
<1>3. /\ MaxPages \in Nat /\ MaxPages > 0 /\ PageLimit \in Nat
      /\ \A n \in 1 .. MaxPages : market[n] \in 0 .. LastCandle /\ market[1] \in 0 .. market[n]
  BY PagesAssumption, CandleAssumption DEF Markets
<1>4. Whole(g[MaxPages].all, market, from, end, end) <=>
        /\ \A i \in DOMAIN g[MaxPages].all :
              g[MaxPages].all[i] = first + i - 1 /\ Open(g[MaxPages].all[i]) <= end
        /\ \A k \in first .. market[1] : Open(k) <= end => k < first + Len(g[MaxPages].all)
  BY DEF Whole
<1> HIDE DEF first
<1> DEFINE Inv(n) == FetchInv(g[n], first, end, market[1], n)
           Bad == {n \in 0 .. MaxPages : ~Inv(n)}
<1>5. Inv(0)
  <2>1. 0 * PageLimit = 0
    BY <1>3
  <2>2. g[0] = Begun(from)
    BY <1>2 DEF FetchPages
  <2>3. Reached(g[0], first, end) /\ Len(g[0].all) = 0 /\ ~g[0].done
    BY <1>1, <2>2, BegunReached
  <2> QED
    BY <2>1, <2>3 DEF FetchInv
<1>6. ASSUME NEW n \in 1 .. MaxPages, Inv(n - 1)
      PROVE  Inv(n)
  <2>1. PICK k \in Nat : k = n - 1 /\ k + 1 = n
    <3>1. n - 1 \in Nat /\ (n - 1) + 1 = n
      BY <1>3
    <3> QED
      BY <3>1
  <2>2. g[n] = FetchPage(g[k], end, market[n])
    BY <1>2, <2>1 DEF FetchPages
  <2>3. market[n] \in 0 .. LastCandle /\ market[1] \in 0 .. market[n]
    BY <1>3
  <2>4. FetchInv(g[k], first, end, market[1], k)
    BY <1>6, <2>1
  <2>5. FetchInv(g[n], first, end, market[1], k + 1)
    BY <1>1, <2>2, <2>3, <2>4, FetchPageStep
  <2> QED
    BY <2>1, <2>5
<1> HIDE DEF Inv
<1>7. Inv(MaxPages)
  <2>1. Bad \in SUBSET Nat
    OBVIOUS
  <2>2. ASSUME Bad # {} PROVE FALSE
    <3>1. PICK n \in Bad : \A k \in Bad : n <= k
      <4> HIDE DEF Bad
      <4> QED
        BY <2>1, <2>2, Least
    <3>2. n \in 1 .. MaxPages /\ n - 1 \in 0 .. MaxPages /\ ~ (n <= n - 1)
      BY <1>3, <1>5, <3>1
    <3>3. Inv(n - 1)
      BY <3>1, <3>2
    <3> QED
      BY <3>1, <3>2, <3>3, <1>6
  <2> QED
    BY <1>3, <2>2
<1>8. Reached(g[MaxPages], first, end) /\ Paid(g[MaxPages], first, market[1], end)
  BY <1>1, <1>3, <1>7, AllPages DEF Inv, FetchInv
<1>9. DOMAIN g[MaxPages].all = 1 .. Len(g[MaxPages].all)
  BY <1>8, LenProperties DEF Reached
<1>10. Whole(g[MaxPages].all, market, from, end, end)
  BY <1>4, <1>8, <1>9 DEF Reached, Paid
<1> QED
  BY <1>2, <1>10 DEF FetchPages

\* LoadCandles returns what its range owes, but for a candle at its very end.
LEMMA LoadedWhole ==
    ASSUME NEW market \in Markets, NEW from \in Nat, NEW end \in Nat, from < end
    PROVE  Whole(LoadCandles(market, from, end), market, from, end, end - 1)
<1> DEFINE first == CHOOSE k \in 0 .. from : from <= Open(k) /\ (k = 0 \/ Open(k - 1) < from)
<1>1. first \in Nat /\ \A k \in Nat : from <= Open(k) <=> first <= k
  BY FirstOf
<1>2. PICK g : LoadPages(g, market, from, end)
  BY LoadRuns
<1>3. /\ MaxPages \in Nat /\ MaxPages > 0 /\ PageLimit \in Nat
      /\ \A n \in 1 .. MaxPages : market[n] \in 0 .. LastCandle /\ market[1] \in 0 .. market[n]
  BY PagesAssumption, CandleAssumption DEF Markets
<1>4. Whole(g[MaxPages].all, market, from, end, end - 1) <=>
        /\ \A i \in DOMAIN g[MaxPages].all :
              g[MaxPages].all[i] = first + i - 1 /\ Open(g[MaxPages].all[i]) <= end
        /\ \A k \in first .. market[1] : Open(k) <= end - 1 => k < first + Len(g[MaxPages].all)
  BY DEF Whole
<1> HIDE DEF first
<1> DEFINE Inv(n) == LoadInv(g[n], first, end, market[1], n)
           Bad == {n \in 0 .. MaxPages : ~Inv(n)}
<1>5. Inv(0)
  <2>1. 0 * PageLimit = 0
    BY <1>3
  <2>2. g[0] = Begun(from)
    BY <1>2 DEF LoadPages
  <2>3. Reached(g[0], first, end) /\ Len(g[0].all) = 0 /\ ~g[0].done
    BY <1>1, <2>2, BegunReached
  <2> QED
    BY <2>1, <2>3 DEF LoadInv
<1>6. ASSUME NEW n \in 1 .. MaxPages, Inv(n - 1)
      PROVE  Inv(n)
  <2>1. PICK k \in Nat : k = n - 1 /\ k + 1 = n
    <3>1. n - 1 \in Nat /\ (n - 1) + 1 = n
      BY <1>3
    <3> QED
      BY <3>1
  <2>2. g[n] = LoadPage(g[k], end, market[n])
    BY <1>2, <2>1 DEF LoadPages
  <2>3. market[n] \in 0 .. LastCandle /\ market[1] \in 0 .. market[n]
    BY <1>3
  <2>4. LoadInv(g[k], first, end, market[1], k)
    BY <1>6, <2>1
  <2>5. LoadInv(g[n], first, end, market[1], k + 1)
    BY <1>1, <2>2, <2>3, <2>4, LoadPageStep
  <2> QED
    BY <2>1, <2>5
<1> HIDE DEF Inv
<1>7. Inv(MaxPages)
  <2>1. Bad \in SUBSET Nat
    OBVIOUS
  <2>2. ASSUME Bad # {} PROVE FALSE
    <3>1. PICK n \in Bad : \A k \in Bad : n <= k
      <4> HIDE DEF Bad
      <4> QED
        BY <2>1, <2>2, Least
    <3>2. n \in 1 .. MaxPages /\ n - 1 \in 0 .. MaxPages /\ ~ (n <= n - 1)
      BY <1>3, <1>5, <3>1
    <3>3. Inv(n - 1)
      BY <3>1, <3>2
    <3> QED
      BY <3>1, <3>2, <3>3, <1>6
  <2> QED
    BY <1>3, <2>2
<1>8. Reached(g[MaxPages], first, end)
  BY <1>7 DEF Inv, LoadInv
<1>9. ASSUME NEW k \in first .. market[1], Open(k) <= end - 1
      PROVE  k < first + Len(g[MaxPages].all)
  <2>1. k \in Nat /\ Open(k) \in Nat
    BY <1>1, <1>3, OpensBehind
  <2>2. CASE g[MaxPages].done
    <3>1. Paid(g[MaxPages], first, market[1], end)
      BY <2>2, <1>7 DEF Inv, LoadInv
    <3>2. Open(k) <= end
      BY <2>1, <1>9
    <3> QED
      BY <3>1, <3>2 DEF Paid
  <2>3. CASE Len(g[MaxPages].all) = MaxPages * PageLimit
    <3>1. Paid(g[MaxPages], first, market[1], end)
      BY <2>3, <1>1, <1>3, <1>8, AllPages
    <3>2. Open(k) <= end
      BY <2>1, <1>9
    <3> QED
      BY <3>1, <3>2 DEF Paid
  <2>4. CASE g[MaxPages].cursor >= end
    <3>1. g[MaxPages].cursor \in Nat /\ Len(g[MaxPages].all) \in Nat
      BY <1>8 DEF Reached
    <3>2. ~ (g[MaxPages].cursor <= Open(k))
      BY <3>1, <2>1, <2>4, <1>9
    <3>3. g[MaxPages].cursor <= Open(k) <=> first + Len(g[MaxPages].all) <= k
      BY <2>1, <1>8 DEF Reached
    <3> QED
      BY <3>1, <3>2, <3>3, <2>1, <1>1
  <2> QED
    BY <1>7, <2>2, <2>3, <2>4 DEF Inv, LoadInv
<1>10. DOMAIN g[MaxPages].all = 1 .. Len(g[MaxPages].all)
  BY <1>8, LenProperties DEF Reached
<1>11. Whole(g[MaxPages].all, market, from, end, end - 1)
  BY <1>4, <1>8, <1>9, <1>10 DEF Reached
<1> QED
  BY <1>2, <1>11 DEF LoadPages

\* A load has every candle of its range that existed when it began, each once and in
\* order, for any page length, number of pages and growth of the market.
THEOREM PagesWhole == InputSpec => []PagesAreWhole
<1>1. ASSUME InputOK, input.kind = "load"
      PROVE  PagesAreWhole
  <2> DEFINE market == input.market
             from   == input.from
             end    == input.end
  <2>1. market \in Markets /\ from \in Nat /\ end \in Nat
    BY <1>1 DEF InputOK, LoadOK
  <2> HIDE DEF market, from, end
  <2>2. Whole(FetchKlinesAll(market, from, end), market, from, end, end)
    BY <2>1, FetchedWhole
  <2>3. from < end => Whole(LoadCandles(market, from, end), market, from, end, end - 1)
    BY <2>1, LoadedWhole
  <2> QED
    BY <2>2, <2>3 DEF PagesAreWhole, market, from, end
<1>2. InputOK => PagesAreWhole
  BY <1>1 DEF PagesAreWhole
<1> QED
  BY <1>2, InputsOK, PTL

-----------------------------------------------------------------------------
\* The candles of a chart.
Candle == [open : Nat, from : {"load", "live"}]

\* A series of a chart: not empty, the oldest candle first, each once.
Sorted(s) ==
    /\ s \in Seq(Candle) /\ Len(s) > 0
    /\ \A i, j \in 1 .. Len(s) : i < j => s[i].open < s[j].open

\* A series without a hole counts on.
Dense(s) == \A i \in 1 .. Len(s) : s[i].open = s[1].open + i - 1

\* The ends of a series.
LEMMA LastIs ==
    ASSUME NEW s, Sorted(s)
    PROVE  /\ Len(s) \in Nat /\ DOMAIN s = 1 .. Len(s)
           /\ Last(s) = s[Len(s)] /\ Head(s) = s[1]
           /\ \A i \in 1 .. Len(s) : s[i] \in Candle /\ s[i].open \in Nat
           /\ s[Len(s)] \in Candle /\ s[1] \in Candle
           /\ \A i \in 1 .. Len(s) : s[1].open <= s[i].open /\ s[i].open <= s[Len(s)].open
<1>1. Len(s) \in Nat /\ DOMAIN s = 1 .. Len(s) /\ s \in [1 .. Len(s) -> Candle] /\ Len(s) > 0
  BY LenProperties DEF Sorted
<1>2. Last(s) = s[Len(s)] /\ Head(s) = s[1]
  BY DEF Sorted, Last
<1>3. \A i \in 1 .. Len(s) : s[i] \in Candle /\ s[i].open \in Nat
  BY <1>1 DEF Candle
<1>4. ASSUME NEW i \in 1 .. Len(s)
      PROVE  s[1].open <= s[i].open /\ s[i].open <= s[Len(s)].open
  <2>1. 1 \in 1 .. Len(s) /\ Len(s) \in 1 .. Len(s) /\ i \in Nat
    BY <1>1
  <2>2. i # 1 => s[1].open < s[i].open
    BY <1>1, <2>1 DEF Sorted
  <2>3. ASSUME i # Len(s) PROVE s[i].open < s[Len(s)].open
    <3>0. PICK n \in Nat : n = Len(s)
      BY <1>1
    <3>1. i < Len(s)
      <4>1. i \in 1 .. n /\ i # n
        BY <2>3, <3>0
      <4>2. i < n
        BY <4>1
      <4> QED
        BY <3>0, <4>2
    <3> QED
      BY <2>1, <3>1 DEF Sorted
  <2> QED
    BY <2>1, <2>2, <2>3, <1>3
<1> QED
  BY <1>1, <1>2, <1>3, <1>4

\* Every candle of s is in t, perhaps as a later answer told it.
Carries(t, s) == \A i \in 1 .. Len(s) : \E j \in 1 .. Len(t) : t[j].open = s[i].open

\* A candle of the tail that is not older than the series becomes the last one.
LEMMA PutKeeps ==
    ASSUME NEW s, Sorted(s), NEW k \in Candle, NEW t, t = PutTail(s, k)
    PROVE  /\ Sorted(t) /\ Carries(t, s)
           /\ Last(s).open <= k.open => Last(t) = k
           /\ Last(s).open <= Last(t).open /\ k.open <= Last(t).open
           /\ Last(s).open > k.open => Last(t) = Last(s)
           /\ Dense(s) /\ k.open <= Last(s).open + 1 => Dense(t)
<1>1. /\ Len(s) \in Nat /\ Len(s) > 0 /\ DOMAIN s = 1 .. Len(s) /\ s \in Seq(Candle)
      /\ Last(s) = s[Len(s)] /\ s[Len(s)] \in Candle
      /\ \A i \in 1 .. Len(s) : s[i] \in Candle /\ s[i].open \in Nat
      /\ \A i \in 1 .. Len(s) : s[1].open <= s[i].open /\ s[i].open <= s[Len(s)].open
      /\ \A i, j \in 1 .. Len(s) : i < j => s[i].open < s[j].open
  BY LastIs DEF Sorted
<1>2. PICK n \in Nat : n = Len(s) /\ n > 0
  BY <1>1
<1>3. k.open \in Nat
  BY DEF Candle
<1>4. CASE Last(s).open = k.open
  <2>1. t = Append(SubSeq(s, 1, n - 1), k)
    BY <1>2, <1>4 DEF PutTail, Front
  <2> DEFINE f == SubSeq(s, 1, n - 1)
  <2>2. /\ f \in Seq(Candle) /\ Len(f) = n - 1
        /\ \A i \in 1 .. n - 1 : f[i] = s[i]
    <3>1. \A i \in 1 .. n - 1 : s[i] \in Candle
      BY <1>1, <1>2
    <3>2. n - 1 \in Int /\ 1 \in Int
      OBVIOUS
    <3>3. /\ f \in Seq(Candle) /\ Len(f) = IF 1 <= n - 1 THEN n - 1 - 1 + 1 ELSE 0
          /\ \A i \in 1 .. n - 1 - 1 + 1 : f[i] = s[1 + i - 1]
      BY <3>1, <3>2, SubSeqProperties
    <3> HIDE DEF f
    <3>4. Len(f) = n - 1
      BY <3>3, <1>2
    <3>5. \A i \in 1 .. n - 1 : f[i] = s[i]
      BY <3>3
    <3> QED
      BY <3>3, <3>4, <3>5
  <2> HIDE DEF f
  <2>3. /\ t \in Seq(Candle) /\ Len(t) = n /\ t[n] = k
        /\ \A i \in 1 .. n - 1 : t[i] = s[i]
    <3>1. /\ Append(f, k) \in Seq(Candle) /\ Len(Append(f, k)) = Len(f) + 1
          /\ \A i \in 1 .. Len(f) : Append(f, k)[i] = f[i]
          /\ Append(f, k)[Len(f) + 1] = k
      BY <2>2, AppendProperties
    <3>2. Len(f) + 1 = n
      BY <2>2
    <3>3. t = Append(f, k)
      BY <2>1 DEF f
    <3> QED
      BY <2>2, <3>1, <3>2, <3>3
  <2>4. \A i \in 1 .. n : t[i].open = s[i].open
    <3>1. s[n].open = k.open
      BY <1>1, <1>2, <1>4
    <3> QED
      BY <2>3, <3>1
  <2>5. Sorted(t)
    BY <2>3, <2>4, <1>1, <1>2 DEF Sorted
  <2>6. Last(t) = k
    BY <2>3 DEF Last
  <2>7. Dense(s) => Dense(t)
    BY <2>3, <2>4, <1>2 DEF Dense
  <2>8. Carries(t, s)
    BY <2>3, <2>4, <1>2 DEF Carries
  <2> QED
    BY <2>3, <2>5, <2>6, <2>7, <2>8, <1>2, <1>3, <1>4
<1>5. CASE Last(s).open < k.open
  <2>1. t = Append(s, k)
    BY <1>1, <1>3, <1>5 DEF PutTail, Candle
  <2>2. /\ t \in Seq(Candle) /\ Len(t) = n + 1 /\ t[n + 1] = k
        /\ \A i \in 1 .. n : t[i] = s[i]
    BY <2>1, <1>1, <1>2, AppendProperties
  <2>3. Sorted(t)
    <3>1. ASSUME NEW i \in 1 .. n + 1, NEW j \in 1 .. n + 1, i < j
          PROVE  t[i].open < t[j].open
      <4>1. i \in 1 .. n /\ t[i] = s[i]
        BY <2>2, <3>1
      <4>2. CASE j = n + 1
        <5>1. s[i].open <= s[n].open /\ s[n].open < k.open /\ s[i].open \in Nat /\ s[n].open \in Nat
          BY <4>1, <1>1, <1>2, <1>5
        <5> QED
          BY <4>1, <4>2, <5>1, <2>2, <1>3
      <4>3. CASE j # n + 1
        <5>1. j \in 1 .. n
          BY <4>3
        <5> QED
          BY <4>1, <5>1, <3>1, <2>2, <1>1, <1>2
      <4> QED
        BY <4>2, <4>3
    <3> QED
      BY <3>1, <2>2 DEF Sorted
  <2>4. Last(t) = k
    BY <2>2 DEF Last
  <2>5. ASSUME Dense(s), k.open <= Last(s).open + 1 PROVE Dense(t)
    <3>1. k.open = s[n].open + 1
      BY <2>5, <1>1, <1>2, <1>3, <1>5
    <3>2. s[n].open = s[1].open + n - 1 /\ s[1].open \in Nat
      BY <2>5, <1>1, <1>2 DEF Dense
    <3>3. ASSUME NEW i \in 1 .. n + 1 PROVE t[i].open = t[1].open + i - 1
      <4>1. t[1] = s[1]
        BY <2>2, <1>2
      <4>2. CASE i = n + 1
        BY <4>1, <4>2, <3>1, <3>2, <2>2
      <4>3. CASE i # n + 1
        <5>1. i \in 1 .. n /\ t[i] = s[i]
          BY <4>3, <2>2
        <5> QED
          BY <4>1, <5>1, <2>5, <1>2 DEF Dense
      <4> QED
        BY <4>2, <4>3
    <3> QED
      BY <3>3, <2>2 DEF Dense
  <2>6. \A i \in 1 .. n : \E j \in 1 .. n + 1 : t[j].open = s[i].open
    <3>1. \A i \in 1 .. n : i \in 1 .. n + 1 /\ t[i].open = s[i].open
      BY <2>2
    <3> QED
      BY <3>1
  <2>7. Last(s).open \in Nat
    BY <1>1 DEF Candle
  <2>8. Carries(t, s)
    BY <2>2, <2>6, <1>2 DEF Carries
  <2> QED
    BY <2>2, <2>3, <2>4, <2>5, <2>7, <2>8, <1>2, <1>3, <1>5
<1>6. CASE ~ (Last(s).open <= k.open)
  <2>1. Last(s).open \in Nat
    BY <1>1 DEF Candle
  <2>2. t = s
    BY <2>1, <1>3, <1>6 DEF PutTail
  <2>3. Carries(t, s)
    BY <2>2 DEF Carries
  <2> QED
    BY <2>1, <2>2, <2>3, <1>3, <1>6
<1>7. Last(s).open \in Nat
  BY <1>1 DEF Candle
<1> QED
  BY <1>3, <1>4, <1>5, <1>6, <1>7

\* The oldest candles go when there are too many.
LEMMA TrimKeeps ==
    ASSUME NEW s, Sorted(s),
           NEW t, t = IF Len(s) > MaxKlines THEN SubSeq(s, Len(s) - MaxKlines + 1, Len(s)) ELSE s
    PROVE  /\ Sorted(t) /\ Last(t) = Last(s) /\ (Dense(s) => Dense(t))
           /\ \A i \in 1 .. Len(s) :
                 \/ \E j \in 1 .. Len(t) : t[j].open = s[i].open
                 \/ Len(t) = MaxKlines /\ s[i].open < Head(t).open
<1>1. /\ Len(s) \in Nat /\ Len(s) > 0 /\ s \in Seq(Candle) /\ Last(s) = s[Len(s)]
      /\ \A i \in 1 .. Len(s) : s[i] \in Candle /\ s[i].open \in Nat
      /\ \A i, j \in 1 .. Len(s) : i < j => s[i].open < s[j].open
  BY LastIs DEF Sorted
<1>2. MaxKlines \in Nat /\ MaxKlines > 0
  BY ChartAssumption
<1>3. CASE ~ (Len(s) > MaxKlines)
  BY <1>3
<1>4. CASE Len(s) > MaxKlines
  <2>1. PICK n \in Nat : n = Len(s)
    BY <1>1
  <2>2. PICK d \in Nat : d = n - MaxKlines /\ d > 0
    <3>1. n - MaxKlines \in Nat /\ n - MaxKlines > 0
      BY <1>2, <1>4, <2>1
    <3> QED
      BY <3>1
  <2>3. t = SubSeq(s, d + 1, n)
    BY <1>4, <2>1, <2>2
  <2>4. /\ t \in Seq(Candle) /\ Len(t) = IF d + 1 <= n THEN n - (d + 1) + 1 ELSE 0
        /\ \A i \in 1 .. n - (d + 1) + 1 : t[i] = s[d + 1 + i - 1]
    <3>1. \A i \in d + 1 .. n : s[i] \in Candle
      BY <1>1, <2>1
    <3>2. d + 1 \in Int /\ n \in Int
      OBVIOUS
    <3> DEFINE f == SubSeq(s, d + 1, n)
    <3>3. /\ f \in Seq(Candle) /\ Len(f) = IF d + 1 <= n THEN n - (d + 1) + 1 ELSE 0
          /\ \A i \in 1 .. n - (d + 1) + 1 : f[i] = s[d + 1 + i - 1]
      BY <3>1, <3>2, SubSeqProperties
    <3>4. t = f
      BY <2>3
    <3> HIDE DEF f
    <3> QED
      BY <3>3, <3>4
  <2>5. /\ Len(t) = MaxKlines
        /\ \A i \in 1 .. MaxKlines : t[i] = s[d + i] /\ d + i \in 1 .. n
    <3>1. n - (d + 1) + 1 = MaxKlines /\ d + 1 <= n
      BY <1>2, <2>2
    <3>2. Len(t) = MaxKlines
      BY <2>4, <3>1
    <3>3. ASSUME NEW i \in 1 .. MaxKlines
          PROVE  t[i] = s[d + i] /\ d + i \in 1 .. n
      <4>1. d + 1 + i - 1 = d + i /\ d + i \in 1 .. n
        BY <1>2, <2>2
      <4> QED
        BY <4>1, <3>1, <2>4
    <3> QED
      BY <3>2, <3>3
  <2>6. Sorted(t)
    <3>1. ASSUME NEW i \in 1 .. MaxKlines, NEW j \in 1 .. MaxKlines, i < j
          PROVE  t[i].open < t[j].open
      <4>1. d + i < d + j /\ d + i \in 1 .. Len(s) /\ d + j \in 1 .. Len(s)
        BY <1>2, <2>1, <2>5, <3>1
      <4> QED
        BY <4>1, <1>1, <2>5
    <3> QED
      BY <3>1, <1>2, <2>4, <2>5 DEF Sorted
  <2>7. Last(t) = Last(s)
    <3>1. MaxKlines \in 1 .. MaxKlines /\ d + MaxKlines = n
      BY <1>2, <2>2
    <3> QED
      BY <3>1, <1>1, <2>1, <2>5 DEF Last
  <2>8. ASSUME Dense(s) PROVE Dense(t)
    <3>1. ASSUME NEW i \in 1 .. MaxKlines PROVE t[i].open = t[1].open + i - 1
      <4>1. 1 \in 1 .. MaxKlines /\ s[1].open \in Nat
        BY <1>1, <1>2
      <4>2. s[d + i].open = s[1].open + (d + i) - 1 /\ s[d + 1].open = s[1].open + (d + 1) - 1
        BY <4>1, <2>1, <2>5, <2>8 DEF Dense
      <4>3. t[i] = s[d + i] /\ t[1] = s[d + 1]
        BY <4>1, <2>5
      <4>4. PICK a \in Nat : a = s[1].open
        BY <4>1
      <4>5. t[i].open = a + (d + i) - 1 /\ t[1].open = a + (d + 1) - 1
        BY <4>2, <4>3, <4>4
      <4>6. a + (d + i) - 1 = (a + (d + 1) - 1) + i - 1
        OBVIOUS
      <4> QED
        BY <4>5, <4>6
    <3> QED
      BY <3>1, <2>5 DEF Dense
  <2>9. ASSUME NEW i \in 1 .. Len(s)
        PROVE  \/ \E j \in 1 .. Len(t) : t[j].open = s[i].open
               \/ Len(t) = MaxKlines /\ s[i].open < Head(t).open
    <3>1. CASE i <= d
      <4>1. Head(t) = t[1]
        BY <2>6, LastIs
      <4>2. t[1] = s[d + 1] /\ d + 1 \in 1 .. Len(s) /\ i < d + 1
        BY <1>2, <2>1, <2>5, <3>1
      <4>3. s[i].open < s[d + 1].open
        BY <4>2, <1>1
      <4> QED
        BY <4>1, <4>2, <4>3, <2>5
    <3>2. CASE ~ (i <= d)
      <4>1. i - d \in 1 .. MaxKlines /\ d + (i - d) = i
        BY <3>2, <1>2, <2>1, <2>2
      <4>2. t[i - d] = s[i]
        BY <4>1, <2>5
      <4> QED
        BY <4>1, <4>2, <2>5
    <3> QED
      BY <3>1, <3>2
  <2> QED
    BY <2>6, <2>7, <2>8, <2>9
<1> QED
  BY <1>3, <1>4

\* Without a hole from the first to the last a series counts on.
LEMMA NoGapIsDense ==
    ASSUME NEW s, Sorted(s), HasNoGap(s)
    PROVE  Dense(s)
<1>1. /\ Len(s) \in Nat /\ Len(s) > 0 /\ Last(s) = s[Len(s)] /\ Head(s) = s[1]
      /\ \A i \in 1 .. Len(s) : s[i].open \in Nat
      /\ \A i, j \in 1 .. Len(s) : i < j => s[i].open < s[j].open
  BY LastIs DEF Sorted
<1>2. PICK n \in Nat : n = Len(s) /\ n > 0
  BY <1>1
<1>3. s[n].open - s[1].open = n - 1
  BY <1>1, <1>2 DEF HasNoGap
<1> DEFINE Low  == {i \in 1 .. n : ~ (s[i].open >= s[1].open + i - 1)}
           High == {i \in 0 .. n - 1 : ~ (s[n - i].open <= s[n].open - i)}
<1>4. Low = {}
  <2>1. ASSUME Low # {} PROVE FALSE
    <3>1. PICK i \in Low : \A k \in Low : i <= k
      <4>1. Low \in SUBSET Nat
        OBVIOUS
      <4> HIDE DEF Low
      <4> QED
        BY <2>1, <4>1, Least
    <3>2. i \in 1 .. n /\ i # 1
      BY <1>1, <1>2
    <3>3. i - 1 \in 1 .. n /\ ~ (i <= i - 1) /\ i - 1 < i
      BY <3>2
    <3>4. i - 1 \notin Low
      BY <3>1, <3>3
    <3>5. s[i - 1].open >= s[1].open + (i - 1) - 1
      BY <3>3, <3>4
    <3>6. /\ s[i - 1].open < s[i].open
          /\ s[i - 1].open \in Nat /\ s[i].open \in Nat /\ s[1].open \in Nat
      BY <1>1, <1>2, <3>2, <3>3
    <3>7. s[i].open >= s[1].open + i - 1
      BY <3>2, <3>5, <3>6
    <3> QED
      BY <3>1, <3>7
  <2> QED
    BY <2>1
<1>5. High = {}
  <2>1. ASSUME High # {} PROVE FALSE
    <3>1. PICK i \in High : \A k \in High : i <= k
      <4>1. High \in SUBSET Nat
        OBVIOUS
      <4> HIDE DEF High
      <4> QED
        BY <2>1, <4>1, Least
    <3>2. i \in 0 .. n - 1 /\ i # 0
      BY <1>1, <1>2
    <3>3. /\ i - 1 \in 0 .. n - 1 /\ ~ (i <= i - 1)
          /\ n - i \in 1 .. n /\ n - (i - 1) \in 1 .. n /\ n - i < n - (i - 1)
      BY <3>2
    <3>4. i - 1 \notin High
      BY <3>1, <3>3
    <3>5. s[n - (i - 1)].open <= s[n].open - (i - 1)
      BY <3>3, <3>4
    <3>6. /\ s[n - i].open < s[n - (i - 1)].open /\ s[n - i].open \in Nat
          /\ s[n - (i - 1)].open \in Nat /\ s[n].open \in Nat
      BY <1>1, <1>2, <3>2, <3>3
    <3>7. s[n - i].open <= s[n].open - i
      BY <3>2, <3>5, <3>6
    <3> QED
      BY <3>1, <3>7
  <2> QED
    BY <2>1
<1>6. ASSUME NEW i \in 1 .. n PROVE s[i].open = s[1].open + i - 1
  <2>1. s[i].open >= s[1].open + i - 1
    BY <1>4
  <2>2. n - i \in 0 .. n - 1 /\ n - (n - i) = i
    OBVIOUS
  <2>3. s[i].open <= s[n].open - (n - i)
    BY <1>5, <2>2
  <2>4. s[i].open \in Nat /\ s[1].open \in Nat /\ s[n].open \in Nat
    BY <1>1, <1>2
  <2> QED
    BY <1>3, <2>1, <2>3, <2>4
<1> QED
  BY <1>2, <1>6 DEF Dense

\* In a series without a hole no window has one.
LEMMA DenseHasNoHole ==
    ASSUME NEW chart, Sorted(chart.klines), Dense(chart.klines)
    PROVE  MaxEmptyBars(chart) = 0
<1> DEFINE s == chart.klines
           seen == {i \in DOMAIN s :
                       chart.view.min <= OpenTime(s[i]) /\ OpenTime(s[i]) <= chart.view.max}
           holes == {s[i + 1].open - s[i].open - 1 : i \in {j \in seen : j + 1 \in seen}}
<1>1. MaxEmptyBars(chart) = CHOOSE h \in holes \cup {0} : \A g \in holes : g <= h
  BY Zenon DEF MaxEmptyBars
<1>2. /\ DOMAIN s = 1 .. Len(s) /\ Len(s) \in Nat /\ \A i \in 1 .. Len(s) : s[i].open \in Nat
  BY LastIs
<1>3. \A g \in holes : g = 0
  <2> SUFFICES ASSUME NEW i \in DOMAIN s, i + 1 \in DOMAIN s
               PROVE  s[i + 1].open - s[i].open - 1 = 0
    OBVIOUS
  <2>1. s[i].open = s[1].open + i - 1 /\ s[i + 1].open = s[1].open + (i + 1) - 1
    BY <1>2 DEF Dense
  <2>2. 1 \in 1 .. Len(s) /\ s[1].open \in Nat /\ i \in Nat
    BY <1>2
  <2> QED
    BY <2>1, <2>2
<1> HIDE DEF holes
<1>4. 0 \in holes \cup {0} /\ \A g \in holes : g <= 0
  BY <1>3
<1>5. \A h \in holes \cup {0} : h = 0
  BY <1>3
<1> QED
  BY <1>1, <1>4, <1>5

\* The end of mergeKlineTail: what is left when there are too many candles.
Trimmed(s) == IF Len(s) > MaxKlines THEN SubSeq(s, Len(s) - MaxKlines + 1, Len(s)) ELSE s

\* A tail is one candle or two, the second right behind the first.
LEMMA TailIs ==
    ASSUME NEW tail \in Tails
    PROVE  /\ Len(tail) \in {1, 2} /\ tail[1] \in Candle /\ Head(tail) = tail[1]
           /\ Last(tail) = tail[Len(tail)]
           /\ Len(tail) = 2 => tail[2] \in Candle /\ tail[2].open = tail[1].open + 1
<1>1. CASE tail = <<[open |-> 0, from |-> "live"]>>
  <2>1. Len(tail) = 1 /\ tail[1] = [open |-> 0, from |-> "live"]
    BY <1>1
  <2>2. Head(tail) = tail[1] /\ Last(tail) = tail[Len(tail)]
    BY <1>1 DEF Last
  <2> QED
    BY <2>1, <2>2 DEF Candle
<1>2. ASSUME NEW k \in 0 .. LastCandle + 1,
             tail = <<[open |-> k, from |-> "live"], [open |-> k + 1, from |-> "live"]>>
      PROVE  /\ Len(tail) = 2 /\ tail[1] \in Candle /\ tail[2] \in Candle
             /\ tail[2].open = tail[1].open + 1
             /\ Head(tail) = tail[1] /\ Last(tail) = tail[Len(tail)]
  <2>1. k \in Nat /\ k + 1 \in Nat
    BY CandleAssumption
  <2>2. /\ Len(tail) = 2 /\ tail[1] = [open |-> k, from |-> "live"]
        /\ tail[2] = [open |-> k + 1, from |-> "live"]
    BY <1>2
  <2>3. Head(tail) = tail[1] /\ Last(tail) = tail[Len(tail)]
    BY <1>2 DEF Last
  <2> QED
    BY <2>1, <2>2, <2>3 DEF Candle
<1> QED
  BY <1>1, <1>2 DEF Tails

\* mergeKlineTail puts the candles of the tail one after the other, then trims.
LEMMA MergeIs ==
    ASSUME NEW s, NEW tail \in Tails
    PROVE  MergeTail(s, tail) = Trimmed(IF Len(tail) = 1 THEN PutTail(s, tail[1])
                                        ELSE PutTail(PutTail(s, tail[1]), tail[2]))
<1> DEFINE Is(m) == m = [n \in 0 .. Len(tail) |->
                            IF n = 0 THEN s ELSE PutTail(m[n - 1], tail[n])]
           one == PutTail(s, tail[1])
           two == PutTail(one, tail[2])
<1>1. Len(tail) \in {1, 2}
  BY TailIs
<1>2. \E m : Is(m)
  <2> DEFINE m == [n \in 0 .. Len(tail) |-> IF n = 0 THEN s ELSE IF n = 1 THEN one ELSE two]
  <2>1. ASSUME NEW n \in 0 .. Len(tail)
        PROVE  m[n] = IF n = 0 THEN s ELSE PutTail(m[n - 1], tail[n])
    <3>1. CASE n = 0
      BY <3>1
    <3>2. CASE n = 1
      <4>1. m[1] = one /\ m[0] = s
        BY <1>1
      <4> HIDE DEF m
      <4> QED
        BY <3>2, <4>1
    <3>3. CASE n = 2 /\ Len(tail) = 2
      <4>1. m[2] = two /\ m[1] = one
        BY <3>3
      <4> HIDE DEF m
      <4> QED
        BY <3>3, <4>1
    <3> QED
      BY <1>1, <3>1, <3>2, <3>3
  <2>2. m = [n \in 0 .. Len(tail) |-> m[n]]
    OBVIOUS
  <2>3. Is(m)
    <3> HIDE DEF m
    <3> QED
      BY <2>1, <2>2
  <2> HIDE DEF m
  <2> QED
    BY <2>3
<1> DEFINE merged == CHOOSE m : Is(m)
<1>3. Is(merged)
  BY <1>2
<1>4. MergeTail(s, tail) = Trimmed(merged[Len(tail)])
  BY Zenon DEF MergeTail, Trimmed
<1> HIDE DEF merged
<1>5. merged[0] = s /\ merged[1] = one /\ (Len(tail) = 2 => merged[2] = two)
  <2>1. \A n \in 0 .. Len(tail) :
          merged[n] = IF n = 0 THEN s ELSE PutTail(merged[n - 1], tail[n])
    BY <1>3
  <2>2. merged[0] = s
    BY <2>1, <1>1
  <2>3. merged[1] = PutTail(merged[0], tail[1])
    BY <2>1, <1>1
  <2>4. Len(tail) = 2 => merged[2] = PutTail(merged[1], tail[2])
    BY <2>1, <1>1
  <2> QED
    BY <2>2, <2>3, <2>4
<1> QED
  BY <1>1, <1>4, <1>5

\* What a live update makes of a series.
LEMMA MergeKeeps ==
    ASSUME NEW s, Sorted(s), NEW tail \in Tails, NEW t, t = MergeTail(s, tail)
    PROVE  /\ Sorted(t)
           /\ \A i \in 1 .. Len(s) :
                 \/ \E j \in 1 .. Len(t) : t[j].open = s[i].open
                 \/ Len(t) = MaxKlines /\ s[i].open < Head(t).open
           /\ Last(s).open <= Last(tail).open => Last(t) = Last(tail)
           /\ Dense(s) /\ Head(tail).open <= Last(s).open + 1 => Dense(t)
<1>1. /\ Len(tail) \in {1, 2} /\ tail[1] \in Candle /\ Head(tail) = tail[1]
      /\ Last(tail) = tail[Len(tail)]
      /\ Len(tail) = 2 => tail[2] \in Candle /\ tail[2].open = tail[1].open + 1
  BY TailIs
<1>0. PICK one : one = PutTail(s, tail[1])
  OBVIOUS
<1>2. /\ Sorted(one) /\ Carries(one, s)
      /\ Last(s).open <= tail[1].open => Last(one) = tail[1]
      /\ tail[1].open <= Last(one).open
      /\ Last(s).open > tail[1].open => Last(one) = Last(s)
      /\ Dense(s) /\ tail[1].open <= Last(s).open + 1 => Dense(one)
  <2>1. PICK k \in Candle : k = tail[1]
    BY <1>1
  <2>2. one = PutTail(s, k)
    BY <1>0, <2>1
  <2> QED
    BY <2>1, <2>2, PutKeeps
<1>3. PICK u : /\ t = Trimmed(u) /\ Sorted(u) /\ Carries(u, s)
               /\ Last(s).open <= Last(tail).open => Last(u) = Last(tail)
               /\ Dense(s) /\ Head(tail).open <= Last(s).open + 1 => Dense(u)
  <2>1. CASE Len(tail) = 1
    <3>1. t = Trimmed(one)
      BY <1>0, <2>1, MergeIs
    <3> QED
      BY <1>1, <1>2, <2>1, <3>1
  <2>2. CASE Len(tail) = 2
    <3>0. PICK two : two = PutTail(one, tail[2])
      OBVIOUS
    <3>1. t = Trimmed(two)
      BY <1>0, <2>2, <3>0, MergeIs
    <3>2. /\ Sorted(two) /\ Carries(two, one)
          /\ Last(one).open <= tail[2].open => Last(two) = tail[2]
          /\ Dense(one) /\ tail[2].open <= Last(one).open + 1 => Dense(two)
      <4>1. PICK k \in Candle : k = tail[2]
        BY <1>1, <2>2
      <4>2. two = PutTail(one, k)
        BY <3>0, <4>1
      <4> QED
        BY <1>2, <4>1, <4>2, PutKeeps
    <3>3. tail[1].open \in Nat /\ Last(s).open \in Nat /\ Last(one).open \in Nat
      <4>1. \A k \in Candle : k.open \in Nat
        BY DEF Candle
      <4>2. Last(s) \in Candle /\ Last(one) \in Candle
        BY <1>2, LastIs
      <4> QED
        BY <1>1, <4>1, <4>2
    <3>4. Last(s).open <= tail[2].open => Last(one).open <= tail[2].open
      BY <1>1, <1>2, <2>2, <3>3
    <3>5. tail[2].open <= Last(one).open + 1
      BY <1>1, <1>2, <2>2, <3>3
    <3>6. Carries(two, s)
      <4> SUFFICES ASSUME NEW i \in 1 .. Len(s)
                   PROVE  \E j \in 1 .. Len(two) : two[j].open = s[i].open
        BY DEF Carries
      <4>1. PICK j \in 1 .. Len(one) : one[j].open = s[i].open
        BY <1>2 DEF Carries
      <4>2. PICK l \in 1 .. Len(two) : two[l].open = one[j].open
        BY <3>2 DEF Carries
      <4> QED
        BY <4>1, <4>2
    <3>7. Last(s).open <= Last(tail).open => Last(two) = Last(tail)
      BY <1>1, <2>2, <3>2, <3>4
    <3>8. Dense(s) /\ Head(tail).open <= Last(s).open + 1 => Dense(two)
      BY <1>1, <1>2, <3>2, <3>5
    <3> QED
      BY <3>1, <3>2, <3>6, <3>7, <3>8
  <2> QED
    BY <1>1, <2>1, <2>2
<1>4. /\ Sorted(t) /\ Last(t) = Last(u) /\ (Dense(u) => Dense(t))
      /\ \A i \in 1 .. Len(u) :
            \/ \E j \in 1 .. Len(t) : t[j].open = u[i].open
            \/ Len(t) = MaxKlines /\ u[i].open < Head(t).open
  <2>1. t = IF Len(u) > MaxKlines THEN SubSeq(u, Len(u) - MaxKlines + 1, Len(u)) ELSE u
    BY <1>3 DEF Trimmed
  <2> QED
    BY <1>3, <2>1, TrimKeeps
<1>5. ASSUME NEW i \in 1 .. Len(s)
      PROVE  \/ \E j \in 1 .. Len(t) : t[j].open = s[i].open
             \/ Len(t) = MaxKlines /\ s[i].open < Head(t).open
  <2>1. PICK j \in 1 .. Len(u) : u[j].open = s[i].open
    BY <1>3 DEF Carries
  <2> QED
    BY <1>4, <2>1
<1> QED
  BY <1>3, <1>4, <1>5

\* A later candle opens later.
LEMMA TimeGrows ==
    ASSUME NEW j \in Candle, NEW k \in Candle
    PROVE  /\ OpenTime(j) \in Nat
           /\ OpenTime(j) < OpenTime(k) <=> j.open < k.open
           /\ OpenTime(j) = OpenTime(k) <=> j.open = k.open
           /\ j.open <= k.open => OpenTime(j) <= CloseTime(k)
           /\ CloseTime(j) \in Nat
<1>1. j.open \in Nat /\ k.open \in Nat /\ Bar \in Nat /\ Bar > 0
  BY ChartAssumption DEF Candle
<1>2. ASSUME NEW a \in Nat, NEW b \in Nat, a < b
      PROVE  a * Bar < b * Bar /\ a * Bar \in Nat /\ b * Bar \in Nat
  <2>1. a + 1 <= b /\ a + 1 \in Nat
    BY <1>2
  <2>2. (a + 1) * Bar <= b * Bar
    BY <1>1, <2>1, Product
  <2>3. (a + 1) * Bar = a * Bar + Bar /\ a * Bar \in Nat /\ b * Bar \in Nat
    BY <1>1
  <2> QED
    BY <1>1, <2>2, <2>3
<1>3. \A a, b \in Nat : a < b => a * Bar < b * Bar
  BY <1>2
<1>4. PICK a \in Nat, b \in Nat : a = j.open /\ b = k.open
  BY <1>1
<1>5. PICK p \in Nat, q \in Nat : p = a * Bar /\ q = b * Bar
  BY <1>1
<1>6. (a + 1) * Bar = p + Bar /\ (b + 1) * Bar = q + Bar
  BY <1>1, <1>5
<1>7. /\ OpenTime(j) = p /\ OpenTime(k) = q
      /\ CloseTime(j) = p + Bar - 1 /\ CloseTime(k) = q + Bar - 1
  <2>1. OpenTime(j) = a * Bar /\ OpenTime(k) = b * Bar
    BY <1>4 DEF OpenTime
  <2>2. CloseTime(j) = (a + 1) * Bar - 1 /\ CloseTime(k) = (b + 1) * Bar - 1
    BY <1>4 DEF CloseTime
  <2> QED
    BY <1>1, <1>5, <1>6, <2>1, <2>2
<1>8. (a < b => p < q) /\ (b < a => q < p) /\ (a = b => p = q)
  BY <1>3, <1>5
<1>9. a < b \/ a = b \/ b < a
  OBVIOUS
<1> QED
  BY <1>1, <1>4, <1>7, <1>8, <1>9

\* A series that comes newest first is turned round.
LEMMA TurnedRound ==
    ASSUME NEW s, Sorted(s)
    PROVE  FdpKlines(Reverse(s)) = s /\ Reverse(s) # <<>>
<1>1. /\ Len(s) \in Nat /\ Len(s) > 0 /\ s \in [1 .. Len(s) -> Candle]
      /\ \A i \in 1 .. Len(s) : s[i] \in Candle /\ s[i].open \in Nat
      /\ \A i, j \in 1 .. Len(s) : i < j => s[i].open < s[j].open
  BY LastIs, LenProperties DEF Sorted
<1>2. PICK n \in Nat : n = Len(s) /\ n > 0
  BY <1>1
<1> DEFINE c == Reverse(s)
           Before(i) == {j \in DOMAIN c : \/ OpenTime(c[j]) < OpenTime(c[i])
                                          \/ OpenTime(c[j]) = OpenTime(c[i]) /\ j < i}
<1>3. FdpKlines(c) = [m \in DOMAIN c |-> c[CHOOSE i \in DOMAIN c : Cardinality(Before(i)) = m - 1]]
  BY Zenon DEF FdpKlines
<1>4. DOMAIN c = 1 .. n /\ \A i \in 1 .. n : n - i + 1 \in 1 .. n /\ c[i] = s[n - i + 1]
  BY <1>2 DEF Reverse
<1>5. c # <<>>
  BY <1>2, <1>4
<1> HIDE DEF c
<1>6. ASSUME NEW i \in 1 .. n, NEW j \in 1 .. n
      PROVE  j \in Before(i) <=> i < j
  <2>1. c[i] \in Candle /\ c[j] \in Candle
    BY <1>1, <1>2, <1>4
  <2>2. c[j].open < c[i].open <=> i < j
    <3>1. n - i + 1 \in 1 .. n /\ n - j + 1 \in 1 .. n
      BY <1>4
    <3>2. PICK a \in 1 .. n, b \in 1 .. n : a = n - i + 1 /\ b = n - j + 1
      BY <3>1
    <3>3. (i < j <=> b < a) /\ (a < b \/ a = b \/ b < a)
      BY <3>2
    <3>4. c[i] = s[a] /\ c[j] = s[b]
      BY <1>4, <3>2
    <3>5. /\ s[a].open \in Nat /\ s[b].open \in Nat
          /\ b < a => s[b].open < s[a].open
          /\ a < b => s[a].open < s[b].open
      BY <1>1, <1>2
    <3> QED
      BY <3>3, <3>4, <3>5
  <2>3. c[j].open = c[i].open => i = j
    <3>1. ~ (c[j].open < c[i].open) /\ ~ (c[i].open < c[j].open) => i = j
      <4>1. c[i].open < c[j].open <=> j < i
        <5>1. n - i + 1 \in 1 .. n /\ n - j + 1 \in 1 .. n
          BY <1>4
        <5>2. PICK a \in 1 .. n, b \in 1 .. n : a = n - i + 1 /\ b = n - j + 1
          BY <5>1
        <5>3. (j < i <=> a < b) /\ (a < b \/ a = b \/ b < a)
          BY <5>2
        <5>4. c[i] = s[a] /\ c[j] = s[b]
          BY <1>4, <5>2
        <5>5. /\ s[a].open \in Nat /\ s[b].open \in Nat
              /\ b < a => s[b].open < s[a].open
              /\ a < b => s[a].open < s[b].open
          BY <1>1, <1>2
        <5> QED
          BY <5>3, <5>4, <5>5
      <4> QED
        BY <2>2, <4>1
    <3>2. c[i].open \in Nat /\ c[j].open \in Nat
      BY <2>1 DEF Candle
    <3> QED
      BY <3>1, <3>2
  <2>4. OpenTime(c[j]) < OpenTime(c[i]) <=> c[j].open < c[i].open
    BY <2>1, TimeGrows
  <2>5. OpenTime(c[j]) = OpenTime(c[i]) <=> c[j].open = c[i].open
    BY <2>1, TimeGrows
  <2> QED
    BY <1>4, <2>2, <2>3, <2>4, <2>5
<1>7. ASSUME NEW i \in 1 .. n
      PROVE  Cardinality(Before(i)) = n - i
  <2>1. Before(i) = i + 1 .. n
    <3>1. Before(i) \subseteq 1 .. n
      BY <1>4
    <3> HIDE DEF Before
    <3>2. \A j \in 1 .. n : j \in Before(i) <=> j \in i + 1 .. n
      BY <1>6
    <3>3. i + 1 .. n \subseteq 1 .. n
      OBVIOUS
    <3> QED
      BY <3>1, <3>2, <3>3
  <2>2. i + 1 \in Int /\ n \in Int
    OBVIOUS
  <2>3. Cardinality(i + 1 .. n) = IF i + 1 > n THEN 0 ELSE n - (i + 1) + 1
    BY <2>2, FS_Interval
  <2> HIDE DEF Before
  <2> QED
    BY <2>1, <2>3
<1> HIDE DEF Before
<1>8. ASSUME NEW m \in 1 .. n
      PROVE  c[CHOOSE i \in DOMAIN c : Cardinality(Before(i)) = m - 1] = s[m]
  <2> DEFINE i == CHOOSE i \in DOMAIN c : Cardinality(Before(i)) = m - 1
  <2>1. n - m + 1 \in 1 .. n /\ n - (n - m + 1) = m - 1
    OBVIOUS
  <2>2. \E k \in DOMAIN c : Cardinality(Before(k)) = m - 1
    BY <1>4, <1>7, <2>1
  <2>3. i \in 1 .. n /\ Cardinality(Before(i)) = m - 1
    BY <1>4, <2>2
  <2> HIDE DEF i
  <2>4. n - i = m - 1
    BY <1>7, <2>3
  <2>5. n - i + 1 = m
    BY <2>3, <2>4
  <2>6. c[i] = s[m]
    BY <1>4, <2>3, <2>5
  <2> QED
    BY <2>6 DEF i
<1>9. FdpKlines(c) = s
  BY <1>1, <1>2, <1>3, <1>4, <1>8
<1> QED
  BY <1>5, <1>9 DEF c

\* The series of the inputs.
LEMMA SeriesAreSorted ==
    ASSUME NEW s \in Series
    PROVE  Sorted(s)
<1>1. PICK c \in (SUBSET (0 .. LastCandle)) \ {{}} :
          s = [i \in 1 .. Cardinality(c) |-> [open |-> Ascending(c)[i], from |-> "load"]]
  BY DEF Series
<1>2. c \in SUBSET Nat /\ IsFiniteSet(c) /\ c # {}
  <2>1. IsFiniteSet(0 .. LastCandle)
    BY CandleAssumption, FS_Interval
  <2>2. c \subseteq 0 .. LastCandle /\ c # {} /\ 0 .. LastCandle \subseteq Nat
    BY <1>1, CandleAssumption
  <2>3. IsFiniteSet(c)
    BY <2>1, <2>2, FS_Subset
  <2> QED
    BY <2>2, <2>3
<1>3. PICK n \in Nat : n = Cardinality(c)
  BY <1>2, FS_CardinalityType
<1>4. n > 0
  BY <1>2, <1>3, FS_EmptySet
<1>5. \A i \in 1 .. n : Ascending(c)[i] \in c /\ Rank(c, Ascending(c)[i]) = i - 1
  BY <1>2, <1>3, AscendingIs
<1>6. \A i \in 1 .. n : s[i] = [open |-> Ascending(c)[i], from |-> "load"] /\ s[i] \in Candle
  BY <1>1, <1>2, <1>3, <1>5 DEF Candle
<1>7. s \in Seq(Candle) /\ Len(s) = n
  <2>1. s \in [1 .. n -> Candle]
    BY <1>1, <1>3, <1>6
  <2> QED
    BY <2>1
<1>8. ASSUME NEW i \in 1 .. n, NEW j \in 1 .. n, i < j
      PROVE  s[i].open < s[j].open
  <2> DEFINE x == Ascending(c)[i]
             y == Ascending(c)[j]
  <2>1. x \in c /\ y \in c /\ Rank(c, x) = i - 1 /\ Rank(c, y) = j - 1
    BY <1>5
  <2>2. s[i].open = x /\ s[j].open = y
    <3>1. s[i] = [open |-> x, from |-> "load"] /\ s[j] = [open |-> y, from |-> "load"]
      BY <1>6
    <3> HIDE DEF x, y
    <3> QED
      BY <3>1
  <2> HIDE DEF x, y
  <2>3. x \in Nat /\ y \in Nat
    BY <1>2, <2>1
  <2>4. x # y
    BY <2>1, <1>8
  <2>5. ~ (y < x)
    <3>1. y < x => Rank(c, y) < Rank(c, x)
      BY <1>2, <2>1, RankGrows
    <3> QED
      BY <3>1, <2>1, <1>8
  <2> QED
    BY <2>2, <2>3, <2>4, <2>5
<1> QED
  BY <1>4, <1>7, <1>8 DEF Sorted

\* A drag keeps the width of a view that lies in the data, and keeps it there.
LEMMA PanStays ==
    ASSUME NEW s, Sorted(s), NEW shift \in Int, NEW chart, chart = Loaded(s),
           NEW panned, panned = Pan(chart, shift)
    PROVE  /\ panned.klines = s
           /\ panned.view.max - panned.view.min = chart.view.max - chart.view.min
           /\ TimeRange(s).min <= panned.view.min /\ panned.view.max <= TimeRange(s).max
<1> DEFINE a == OpenTime(Head(s))
           b == CloseTime(Last(s))
           w == VisibleBars * Bar
           x == IF b - w < a THEN a ELSE b - w
<1>1. a \in Nat /\ b \in Nat /\ a <= b
  <2>1. Head(s) \in Candle /\ Last(s) \in Candle /\ Head(s).open <= Last(s).open
    <3>1. Head(s) = s[1] /\ Last(s) = s[Len(s)] /\ s[1] \in Candle /\ s[Len(s)] \in Candle
      BY LastIs
    <3>2. s[1].open <= s[Len(s)].open
      BY LastIs DEF Sorted
    <3> QED
      BY <3>1, <3>2
  <2> QED
    BY <2>1, TimeGrows
<1>2. w \in Nat
  BY ChartAssumption
<1>3. chart = [klines |-> s, view |-> [min |-> x, max |-> b]]
  BY DEF Loaded, Sync, ScrollToEnd
<1>4. TimeRange(s) = [min |-> a, max |-> b]
  BY DEF TimeRange
<1> DEFINE span == b - x
           left == x + shift
           kept == IF left < a THEN a ELSE left
           min  == IF kept + span > b THEN b - span ELSE kept
           view == [min |-> IF min < a THEN a ELSE min,
                    max |-> IF min + span > b THEN b ELSE min + span]
<1>5. panned = IF span <= 0 \/ shift = 0 \/ view.max <= view.min THEN chart
               ELSE [chart EXCEPT !.view = view]
  <2>1. chart.klines = s /\ chart.view.min = x /\ chart.view.max = b
    BY <1>3
  <2>2. TimeRange(chart.klines).min = a /\ TimeRange(chart.klines).max = b
    BY <1>4, <2>1
  <2> HIDE DEF x, a, b
  <2> QED
    BY <2>1, <2>2 DEF Pan
<1> HIDE DEF a, b, w
<1>6. x \in Int /\ a <= x /\ x <= b
  BY <1>1, <1>2
<1> HIDE DEF x
<1>7. min >= a /\ min + span <= b /\ min \in Int /\ span \in Int
  BY <1>1, <1>6
<1>8. view.min = min /\ view.max = min + span
  BY <1>1, <1>7
<1> HIDE DEF view, min
<1>9. CASE panned = chart
  BY <1>1, <1>3, <1>4, <1>6, <1>9
<1>10. CASE panned = [chart EXCEPT !.view = view]
  <2>1. /\ panned.klines = s /\ panned.view = view
        /\ chart.klines = s /\ chart.view.min = x /\ chart.view.max = b
    BY <1>3, <1>10
  <2> QED
    BY <1>4, <1>6, <1>7, <1>8, <2>1
<1>11. panned = chart \/ panned = [chart EXCEPT !.view = view]
  BY <1>5
<1> QED
  BY <1>9, <1>10, <1>11

\* A live update leaves the series ascending, complete and up to date and the view where
\* it belongs, for any series, drag and tail.
THEOREM TailMerged == InputSpec => []TailIsMerged
<1>1. ASSUME InputOK, input.kind = "live"
      PROVE  TailIsMerged
  <2> DEFINE s      == input.klines
             before == Loaded(ChartKlines(IF input.fdp THEN Reverse(s) ELSE <<>>, s))
             panned == Pan(before, input.shift)
             after  == ApplyLive(panned, input.tail)
             data   == TimeRange(panned.klines)
             newest == Last(input.tail)
  <2>1. s \in Series /\ input.fdp \in BOOLEAN /\ input.shift \in Int /\ input.tail \in Tails
    BY <1>1 DEF InputOK, LiveOK
  <2>2. Sorted(s)
    BY <2>1, SeriesAreSorted
  <2>3. before = Loaded(s)
    <3> HIDE DEF s
    <3>1. FdpKlines(Reverse(s)) = s /\ Reverse(s) # <<>>
      BY <2>2, TurnedRound
    <3>2. ChartKlines(IF input.fdp THEN Reverse(s) ELSE <<>>, s) = s
      BY <2>1, <3>1 DEF ChartKlines
    <3> QED
      BY <3>2
  <2> DEFINE shift == input.shift
             tail  == input.tail
  <2>4. /\ panned.klines = s
        /\ panned.view.max - panned.view.min = before.view.max - before.view.min
        /\ TimeRange(s).min <= panned.view.min /\ panned.view.max <= TimeRange(s).max
    <3> HIDE DEF s, before, shift
    <3>1. panned = Pan(before, shift)
      BY DEF shift
    <3>2. shift \in Int
      BY <2>1 DEF shift
    <3> HIDE DEF panned
    <3> QED
      BY <2>2, <2>3, <3>1, <3>2, PanStays
  <2> DEFINE t == MergeTail(s, tail)
  <2>5. after.klines = t /\ after.view = IF AtLiveEdge(panned) THEN ScrollToEnd(t) ELSE panned.view
    <3> HIDE DEF s, panned
    <3> QED
      BY <2>4 DEF ApplyLive, Sync
  <2>6. /\ Sorted(t)
        /\ \A i \in 1 .. Len(s) :
              \/ \E j \in 1 .. Len(t) : t[j].open = s[i].open
              \/ Len(t) = MaxKlines /\ s[i].open < Head(t).open
        /\ Last(s).open <= newest.open => Last(t) = newest
        /\ Dense(s) /\ Head(tail).open <= Last(s).open + 1 => Dense(t)
    <3> HIDE DEF s, tail
    <3>1. tail \in Tails /\ newest = Last(tail)
      BY <2>1 DEF tail
    <3> HIDE DEF newest
    <3> QED
      BY <2>2, <3>1, MergeKeeps
  <2>7. DOMAIN s = 1 .. Len(s) /\ DOMAIN t = 1 .. Len(t) /\ Len(t) \in Nat
    <3> HIDE DEF s, t
    <3> QED
      BY <2>2, <2>6, LastIs
  <2>8. HasNoGap(s) /\ Head(tail).open <= Last(s).open + 1 => MaxEmptyBars(after) = 0
    <3> HIDE DEF s, t, after, tail
    <3> QED
      BY <2>2, <2>5, <2>6, NoGapIsDense, DenseHasNoHole
  <2>9. TailIsMerged <=>
          /\ \A i \in 1 .. Len(after.klines) - 1 :
                after.klines[i].open < after.klines[i + 1].open
          /\ \A i \in DOMAIN s :
                \/ \E j \in DOMAIN after.klines : after.klines[j].open = s[i].open
                \/ Len(after.klines) = MaxKlines /\ s[i].open < Head(after.klines).open
          /\ Last(s).open <= newest.open => Last(after.klines) = newest
          /\ HasNoGap(s) /\ Head(tail).open <= Last(s).open + 1
                => MaxEmptyBars(after) = 0
          /\ panned.view.max - panned.view.min = before.view.max - before.view.min
          /\ data.min <= panned.view.min /\ panned.view.max <= data.max
          /\ IF AtLiveEdge(panned) THEN after.view.max = CloseTime(Last(after.klines))
                                   ELSE after.view = panned.view
    BY <1>1, Zenon DEF TailIsMerged
  <2>10. \A i \in 1 .. Len(t) - 1 : t[i].open < t[i + 1].open
    <3> HIDE DEF t
    <3>1. PICK n \in Nat : n = Len(t)
      BY <2>7
    <3>2. \A i \in 1 .. n - 1 : i \in 1 .. n /\ i + 1 \in 1 .. n /\ i < i + 1
      OBVIOUS
    <3> QED
      BY <2>6, <3>1, <3>2 DEF Sorted
  <2>11. IF AtLiveEdge(panned) THEN after.view.max = CloseTime(Last(after.klines))
                               ELSE after.view = panned.view
    <3> HIDE DEF t, after, panned
    <3> QED
      BY <2>5 DEF ScrollToEnd
  <2>12. data = TimeRange(s)
    BY <2>4
  <2> HIDE DEF s, before, panned, after, data, newest, tail, t
  <2> QED
    BY <2>4, <2>5, <2>6, <2>7, <2>8, <2>9, <2>10, <2>11, <2>12
<1>2. InputOK => TailIsMerged
  BY <1>1 DEF TailIsMerged
<1> QED
  BY <1>2, InputsOK, PTL

-----------------------------------------------------------------------------
\* The instants there are lie in the days there are.
LEMMA DaysHaveAll ==
    ASSUME NEW t \in Instants
    PROVE  t \in Nat /\ InDay(t) \in Days
<1> USE PredictionAssumption, RowAssumption
<1>1. t \in Nat /\ t < (LastDay + 1) * DayLength
  <2>1. (LastDay + 1) * DayLength \in Nat
    OBVIOUS
  <2> QED
    BY <2>1 DEF Instants
<1> DEFINE d == t \div DayLength
<1>2. d \in Nat /\ d * DayLength <= t
  BY <1>1
<1> HIDE DEF d
<1>3. d < LastDay + 1
  <2>1. ASSUME LastDay + 1 <= d PROVE FALSE
    <3>1. (LastDay + 1) * DayLength <= d * DayLength
      BY <2>1, <1>2, Product
    <3> QED
      BY <3>1, <1>1, <1>2
  <2> QED
    BY <2>1, <1>2
<1> QED
  BY <1>1, <1>2, <1>3 DEF InDay, Days, d

\* Windows are told apart by their number.
LEMMA SameWindow ==
    ASSUME NEW t \in Nat, NEW u \in Nat
    PROVE  WindowStart(u) = WindowStart(t) <=> u \div Window = t \div Window
<1> USE RowAssumption
<1> DEFINE a == u \div Window
           b == t \div Window
<1>1. a \in Nat /\ b \in Nat
  OBVIOUS
<1>2. WindowStart(u) = a * Window /\ WindowStart(t) = b * Window
  BY DEF WindowStart
<1> HIDE DEF a, b
<1>3. ASSUME a + 1 <= b PROVE a * Window # b * Window
  <2>1. (a + 1) * Window <= b * Window /\ (a + 1) * Window = a * Window + Window
    BY <1>1, <1>3, Product
  <2> QED
    BY <2>1, <1>1, Product
<1>4. ASSUME b + 1 <= a PROVE a * Window # b * Window
  <2>1. (b + 1) * Window <= a * Window /\ (b + 1) * Window = b * Window + Window
    BY <1>1, <1>4, Product
  <2> QED
    BY <2>1, <1>1, Product
<1>5. a * Window = b * Window <=> a = b
  BY <1>1, <1>3, <1>4
<1> QED
  BY <1>2, <1>5 DEF a, b

\* What an import brings: the rows of the export in its range, or the last of each window.
Kept(source, files, since, until) ==
    LET taken == Within(UNION files, since, until)
    IN IF source = "hf" THEN taken
       ELSE {t \in taken : \A u \in taken : u \div Window = t \div Window => u <= t}

\* An import takes what Kept says, all of it rows of the days there are.
LEMMA ImportedIs ==
    ASSUME NEW source, NEW files \in Exports, NEW since \in Nat, NEW until \in Nat
    PROVE  /\ ImportFromPath(source, files, since, until) = Kept(source, files, since, until)
           /\ Kept(source, files, since, until) \in SUBSET Instants
<1> DEFINE rows  == UNION files
           taken == Within(rows, since, until)
<1>1. rows \in SUBSET Instants
  BY PredictionAssumption
<1>2. taken \in SUBSET Instants /\ \A t \in taken : t \in Nat
  BY <1>1, DaysHaveAll DEF Within
<1>3. CASE source = "hf"
  <2>1. ImportFiles(files, since, until) = taken
    BY DEF ImportFiles, Within
  <2> QED
    BY <1>2, <1>3, <2>1 DEF ImportFromPath, Kept
<1>4. CASE source # "hf"
  <2> HIDE DEF taken
  <2>1. ImportRows(rows, since, until) = ResampleLast(taken)
    BY DEF ImportRows, taken
  <2>2. ResampleLast(taken) =
          {t \in taken : \A u \in taken : u \div Window = t \div Window => u <= t}
    BY <1>2, SameWindow DEF ResampleLast
  <2> QED
    BY <1>2, <1>4, <2>1, <2>2 DEF ImportFromPath, Kept, taken
<1> QED
  BY <1>3, <1>4

\* The files before the import, what they hold together, and what is owed of both.
Stored(today, polled)     == [d \in Days |-> IF d = today THEN polled ELSE {}]

\* What a query owes of today and of the days before.
Owed(kept, today, polled) == {t \in kept : t < today * DayLength} \cup polled

\* The rows of all daily files.
AllRows(daily) == UNION {daily[d] : d \in DOMAIN daily}

\* What lies in the days of the files is what was polled today and what was imported.
LEMMA FilesHaveAll ==
    ASSUME NEW polled, NEW rows \in SUBSET Instants, NEW today \in Days,
           NEW daily, daily = WriteByDay(Stored(today, polled), rows)
    PROVE  AllRows(daily) = polled \cup rows
<1> DEFINE stored == Stored(today, polled)
<1>1. daily = [d \in Days |-> stored[d] \cup {t \in rows : InDay(t) = d}]
  BY DEF WriteByDay, Stored
<1> USE DEF Stored
<1>2. \A t \in rows : InDay(t) \in Days
  BY DaysHaveAll
<1>3. ASSUME NEW t \in polled \cup rows
      PROVE  \E d \in Days : t \in daily[d]
  <2>1. CASE t \in polled
    BY <1>1, <2>1
  <2>2. CASE t \in rows
    BY <1>1, <1>2, <2>2
  <2> QED
    BY <2>1, <2>2
<1>4. ASSUME NEW d \in Days, NEW t \in daily[d]
      PROVE  t \in polled \cup rows
  BY <1>1
<1>5. DOMAIN daily = Days
  BY <1>1
<1> QED
  BY <1>3, <1>4, <1>5 DEF AllRows

\* A query finds its rows before today in the daily files and the others in the current
\* ones, whatever else lies in the daily files of today and behind it.
LEMMA QueryIs ==
    ASSUME NEW kept \in SUBSET Instants, NEW today \in Days, NEW from \in Nat, NEW to \in Nat,
           NEW polled \in SUBSET (today * DayLength .. today * DayLength + DayLength - 1),
           NEW daily, AllRows(daily) = polled \cup kept,
           NEW hourly, hourly[today] = polled
    PROVE  GetPredictions(daily, hourly, from, to, today) =
             Ascending(Within(Owed(kept, today, polled), from, to))
<1> DEFINE start == today * DayLength
           owed  == Owed(kept, today, polled)
           A == {t \in kept : t < start /\ from <= t /\ t < to}
           B == {t \in polled : from <= t /\ t < to}
<1>1. start \in Nat /\ DayLength \in Nat
  BY PredictionAssumption, RowAssumption DEF Days
<1>2. \A t \in kept : t \in Nat
  BY DaysHaveAll
<1>3. \A t \in polled : t \in Nat /\ start <= t
  BY <1>1
<1>4. GetPredictions(daily, hourly, from, to, today) =
        IF to <= from THEN <<>>
        ELSE Ascending(Within(polled \cup kept, from, IF to <= start THEN to ELSE start))
               \o Ascending(Within(polled, IF from < start THEN start ELSE from, to))
  BY DEF GetPredictions, FromDaily, FromHourly, Selected, Past, Present, AllRows
<1> HIDE DEF start
<1>5. Within(polled \cup kept, from, IF to <= start THEN to ELSE start) = A
  <2>1. PICK past \in Nat : /\ past = IF to <= start THEN to ELSE start
                           /\ \A t \in Nat : t < past <=> t < to /\ t < start
    <3>1. CASE to <= start
      BY <3>1, <1>1
    <3>2. CASE ~ (to <= start)
      BY <3>2, <1>1
    <3> QED
      BY <3>1, <3>2
  <2>2. ASSUME NEW t \in polled \cup kept
        PROVE  t < past <=> t \in kept /\ t < start /\ t < to
    BY <1>1, <1>2, <1>3, <2>1
  <2>3. Within(polled \cup kept, from, past) = A
    BY <2>2 DEF Within
  <2> QED
    BY <2>1, <2>3
<1>6. Within(polled, IF from < start THEN start ELSE from, to) = B
  <2>1. PICK now \in Nat : /\ now = IF from < start THEN start ELSE from
                          /\ \A t \in Nat : now <= t <=> from <= t /\ start <= t
    <3>1. CASE from < start
      BY <3>1, <1>1
    <3>2. CASE ~ (from < start)
      BY <3>2, <1>1
    <3> QED
      BY <3>1, <3>2
  <2>2. ASSUME NEW t \in polled
        PROVE  now <= t <=> from <= t
    BY <1>3, <2>1
  <2>3. Within(polled, now, to) = B
    BY <2>2 DEF Within
  <2> QED
    BY <2>1, <2>3
<1>7. Within(owed, from, to) = A \cup B
  BY <1>2, <1>3 DEF Within, Owed, start
<1>8. CASE to <= from
  <2>1. ASSUME NEW t \in A \cup B PROVE FALSE
    <3>1. t \in Nat /\ from <= t /\ t < to
      BY <1>2, <1>3
    <3> QED
      BY <3>1, <1>8
  <2>2. A \cup B = {}
    BY <2>1
  <2> QED
    BY <2>2, <1>4, <1>7, <1>8, AscendingEmpty DEF start
<1>9. CASE ~ (to <= from)
  <2>1. A \in SUBSET Nat /\ B \in SUBSET Nat /\ \A a \in A, b \in B : a < b
    <3>1. \A a \in A : a \in Nat /\ a < start
      BY <1>2
    <3>2. \A b \in B : b \in Nat /\ start <= b
      BY <1>3
    <3> HIDE DEF A, B
    <3> QED
      BY <1>1, <3>1, <3>2
  <2>2. IsFiniteSet(A)
    <3>1. (LastDay + 1) * DayLength - 1 \in Int /\ 0 \in Int
      BY PredictionAssumption, RowAssumption
    <3>2. IsFiniteSet(Instants)
      BY <3>1, FS_Interval DEF Instants
    <3> QED
      BY <3>2, FS_Subset
  <2>3. IsFiniteSet(B)
    <3>1. start + DayLength - 1 \in Int /\ start \in Int
      BY <1>1
    <3>2. IsFiniteSet(start .. start + DayLength - 1)
      BY <3>1, FS_Interval
    <3>3. B \in SUBSET (start .. start + DayLength - 1)
      BY DEF start
    <3> HIDE DEF B
    <3> QED
      BY <3>2, <3>3, FS_Subset
  <2> HIDE DEF A, B
  <2>4. Ascending(A) \o Ascending(B) = Ascending(A \cup B)
    BY <2>1, <2>2, <2>3, AscendingJoins
  <2> QED
    BY <2>4, <1>4, <1>5, <1>6, <1>7, <1>9 DEF start
<1> QED
  BY <1>8, <1>9

\* What is imported and asked for again is there, in order and each row once, for any
\* export, bounds and polled rows.
THEOREM PredictionsBack == InputSpec => []PredictionsComeBack
<1>1. ASSUME InputOK, input.kind = "ask"
      PROVE  PredictionsComeBack
  <2> DEFINE today  == input.today
             files  == input.files
             since  == input.since
             until  == input.until
             from   == input.from
             to     == input.to
             source == input.source
             start  == today * DayLength
             polled == {start + t : t \in input.polled}
             stored == [d \in Days |-> IF d = today THEN polled ELSE {}]
             rows   == ImportFromPath(source, files, since, until)
             daily  == WriteByDay(stored, rows)
             taken  == Within(UNION files, since, until)
             kept   == IF source = "hf" THEN taken ELSE
                       {t \in taken : \A u \in taken : u \div Window = t \div Window => u <= t}
  <2>1. /\ files \in Exports /\ today \in Days
        /\ since \in Nat /\ until \in Nat /\ from \in Nat /\ to \in Nat
    BY <1>1 DEF InputOK, AskOK
  <2>2. polled \in SUBSET (start .. start + DayLength - 1)
    <3>1. start \in Nat /\ DayLength \in Nat
      BY <2>1, PredictionAssumption, RowAssumption DEF Days
    <3>2. input.polled \in SUBSET (0 .. DayLength - 1)
      BY <1>1, PredictionAssumption DEF InputOK, AskOK
    <3> HIDE DEF start
    <3> QED
      BY <3>1, <3>2
  <2>3. rows = Kept(source, files, since, until) /\ rows \in SUBSET Instants
    BY <2>1, ImportedIs
  <2>4. kept = Kept(source, files, since, until)
    BY DEF Kept
  <2>5. PredictionsComeBack <=>
          IF Refused(daily, from, to, today) THEN Owed(kept, today, polled) = {}
          ELSE GetPredictions(daily, stored, from, to, today)
                 = Ascending(Within(Owed(kept, today, polled), from, to))
    BY <1>1 DEF PredictionsComeBack, Owed
  <2>6. stored[today] = polled
    BY <2>1
  <2> HIDE DEF today, files, since, until, from, to, source, polled, rows, kept
  <2>7. AllRows(daily) = polled \cup kept
    <3>1. stored = Stored(today, polled)
      BY DEF Stored
    <3>2. daily = WriteByDay(stored, rows)
      OBVIOUS
    <3> HIDE DEF stored, daily
    <3>3. AllRows(daily) = polled \cup rows
      BY <2>1, <2>3, <3>1, <3>2, FilesHaveAll
    <3> QED
      BY <3>3, <2>3, <2>4
  <2>8. kept \in SUBSET Instants
    BY <2>3, <2>4
  <2> HIDE DEF stored, daily
  <2>9. GetPredictions(daily, stored, from, to, today)
             = Ascending(Within(Owed(kept, today, polled), from, to))
    BY <2>1, <2>2, <2>6, <2>7, <2>8, QueryIs
  <2>10. Refused(daily, from, to, today) => Owed(kept, today, polled) = {}
    <3> SUFFICES ASSUME Refused(daily, from, to, today)
                 PROVE  Owed(kept, today, polled) = {}
      OBVIOUS
    <3>1. AllRows(daily) = {}
      BY DEF Refused, AllRows
    <3> QED
      BY <2>7, <3>1 DEF Owed
  <2> QED
    BY <2>5, <2>9, <2>10
<1>2. InputOK => PredictionsComeBack
  BY <1>1 DEF PredictionsComeBack
<1> QED
  BY <1>2, InputsOK, PTL

-----------------------------------------------------------------------------
\* A label depends on its own bar and on the bars it looks ahead to, and on no other.
LEMMA LabelLooksAhead ==
    ASSUME Size \in Nat, NEW bars, NEW other, NEW hold \in Nat,
           NEW i \in Indices(Size), NEW j \in Indices(Size), i # j,
           \A k \in Indices(Size) : k # j => other[k] = bars[k],
           j \notin BarsAhead(Size, i, hold)
    PROVE  LabelAt(other, Size, i, hold) = LabelAt(bars, Size, i, hold)
<1> DEFINE ahead == BarsAhead(Size, i, hold)
           Up(k) == 2 * bars[k].high >= 2 * bars[i].close + TPHalves * bars[i].atr
           Down(k) == 2 * bars[k].low <= 2 * bars[i].close - SLHalves * bars[i].atr
           OUp(k) == 2 * other[k].high >= 2 * other[i].close + TPHalves * other[i].atr
           ODown(k) == 2 * other[k].low <= 2 * other[i].close - SLHalves * other[i].atr
           hits == {k \in ahead : Up(k) \/ Down(k)}
           ohits == {k \in ahead : OUp(k) \/ ODown(k)}
           first == CHOOSE k \in hits : \A l \in hits : k <= l
<1>1. other[i] = bars[i]
  OBVIOUS
<1>2. \A k \in ahead : other[k] = bars[k]
  BY DEF BarsAhead
<1>3. \A k \in ahead : (OUp(k) <=> Up(k)) /\ (ODown(k) <=> Down(k))
  BY <1>1, <1>2
<1>4. ohits = hits
  BY <1>3
<1>5. hits # {} => (OUp(first) <=> Up(first))
  <2>1. hits \in SUBSET Nat
    BY DEF BarsAhead, Indices
  <2>2. hits # {} => first \in hits
    <3> HIDE DEF hits
    <3> QED
      BY <2>1, Least
  <2> QED
    BY <2>2, <1>3
<1>6. LabelAt(bars, Size, i, hold) =
        IF hold < 1 \/ bars[i].close <= 0 \/ bars[i].atr <= 0 \/ hits = {} THEN "none"
        ELSE IF Up(first) THEN "up" ELSE "down"
  BY Zenon DEF LabelAt
<1>7. LabelAt(other, Size, i, hold) =
        IF hold < 1 \/ other[i].close <= 0 \/ other[i].atr <= 0 \/ ohits = {} THEN "none"
        ELSE IF OUp(CHOOSE k \in ohits : \A l \in ohits : k <= l) THEN "up" ELSE "down"
  BY Zenon DEF LabelAt
<1>8. (CHOOSE k \in ohits : \A l \in ohits : k <= l) = first
  BY <1>4, Zenon
<1> HIDE DEF hits, ohits, first, Up, Down, OUp, ODown
<1>9. CASE hits = {}
  BY <1>9, <1>1, <1>4, <1>6, <1>7, Zenon
<1>10. CASE hits # {}
  <2>1. LabelAt(other, Size, i, hold) =
          IF hold < 1 \/ bars[i].close <= 0 \/ bars[i].atr <= 0 THEN "none"
          ELSE IF OUp(first) THEN "up" ELSE "down"
    BY <1>10, <1>1, <1>4, <1>7, <1>8
  <2>2. LabelAt(bars, Size, i, hold) =
          IF hold < 1 \/ bars[i].close <= 0 \/ bars[i].atr <= 0 THEN "none"
          ELSE IF Up(first) THEN "up" ELSE "down"
    BY <1>10, <1>6
  <2> QED
    BY <1>10, <2>1, <2>2, <1>5
<1> QED
  BY <1>9, <1>10

LEMMA TestedOnce ==
    ASSUME NEW folds \in Nat, folds >= 2, NEW i \in Indices(Size), Size \in Nat
    PROVE  \E f \in 0 .. folds - 1 : \A g \in 0 .. folds - 1 :
               i \in Test(Size, folds, g) <=> g = f
<1> DEFINE c == Size \div folds
           last == folds - 1
<1>0. i \in Nat /\ i < Size /\ c \in Nat /\ last \in Nat
  BY DEF Indices
<1>1. \A g \in 0 .. last : i \in Test(Size, folds, g) <=>
          g * c <= i /\ (g # last => i < g * c + c)
  BY <1>0 DEF Test, FoldStart, FoldEnd, Indices
<1> HIDE DEF c
<1>2. CASE last * c <= i
  <2>1. last \in 0 .. last /\ i \in Test(Size, folds, last)
    BY <1>0, <1>1, <1>2
  <2>2. ASSUME NEW g \in 0 .. last, g # last, i \in Test(Size, folds, g)
        PROVE  FALSE
    <3>1. i < g * c + c
      BY <2>2, <1>1
    <3>2. (g + 1) * c = g * c + c
      BY <1>0
    <3>3. (g + 1) * c <= last * c
      BY <1>0, <2>2, Product
    <3> QED
      BY <3>1, <3>2, <3>3, <1>2, <1>0
  <2> QED
    BY <2>1, <2>2
<1>3. CASE ~ (last * c <= i)
  <2>1. c > 0
    BY <1>0, <1>3
  <2> DEFINE f == i \div c
  <2>2. f \in Nat /\ f * c <= i /\ i < f * c + c
    BY <2>1, <1>0
  <2> HIDE DEF f
  <2>3. f < last
    <3>1. ASSUME last <= f PROVE FALSE
      BY <3>1, <2>2, <1>0, <1>3, Product
    <3> QED
      BY <3>1, <2>2, <1>0
  <2>4. i \in Test(Size, folds, f)
    BY <2>2, <2>3, <1>1, <1>0
  <2>5. ASSUME NEW g \in 0 .. last, i \in Test(Size, folds, g)
        PROVE  g = f
    <3>1. g * c <= i /\ g \in Nat
      BY <2>5, <1>1
    <3>2. ASSUME f + 1 <= g PROVE FALSE
      <4>1. (f + 1) * c <= g * c
        BY <3>2, <3>1, <2>2, <1>0, Product
      <4>2. (f + 1) * c = f * c + c
        BY <2>2, <1>0
      <4> QED
        BY <4>1, <4>2, <3>1, <2>2, <1>0
    <3>3. ASSUME g + 1 <= f PROVE FALSE
      <4>1. (g + 1) * c <= f * c
        BY <3>3, <3>1, <2>2, <1>0, Product
      <4>2. (g + 1) * c = g * c + c
        BY <3>1, <1>0
      <4>3. g # last => i < g * c + c
        BY <2>5, <1>1
      <4> QED
        BY <4>1, <4>2, <4>3, <3>1, <2>2, <2>3, <1>0, <3>3
    <3> QED
      BY <3>1, <3>2, <3>3, <2>2
  <2>6. f \in 0 .. last
    BY <2>2, <2>3, <1>0
  <2>7. \A g \in 0 .. last : i \in Test(Size, folds, g) <=> g = f
    BY <2>4, <2>5
  <2> QED
    BY <2>6, <2>7
<1> QED
  BY <1>2, <1>3

\* A bar trained on is further from the test than a label reaches.
LEMMA TrainedApart ==
    ASSUME Size \in Nat, NEW folds \in Nat, folds >= 2,
           NEW hold \in Nat, NEW embargo \in Nat, hold <= embargo,
           NEW f \in 0 .. folds - 1,
           NEW i \in Train(Size, folds, f, embargo), NEW j \in Test(Size, folds, f)
    PROVE  /\ i \in Indices(Size) /\ j \in Indices(Size) /\ i # j
           /\ j \notin BarsAhead(Size, i, hold) /\ i \notin BarsAhead(Size, j, hold)
<1>1. f \in Nat /\ Size \div folds \in Nat
  OBVIOUS
<1>2. FoldStart(Size, folds, f) \in Nat
  BY <1>1 DEF FoldStart
<1>3. FoldEnd(Size, folds, f) \in Nat
  BY <1>1, <1>2 DEF FoldEnd
<1>4. i \in Indices(Size) /\ j \in Indices(Size)
  BY DEF Train, Test
<1>5. i + hold < j \/ j + hold < i
  BY <1>2, <1>3, <1>4 DEF Train, Test, Indices
<1>6. i \in Nat /\ j \in Nat
  BY <1>4 DEF Indices
<1>7. i # j /\ j \notin BarsAhead(Size, i, hold) /\ i \notin BarsAhead(Size, j, hold)
  BY <1>5, <1>6 DEF BarsAhead
<1> QED
  BY <1>4, <1>7

\* With an embargo of at least the holding time no bar of a test touches a label of the
\* training and no bar of the training a label of the test, and every bar is tested once.
THEOREM FoldsApart == InputSpec => []FoldsAreApart
<1>1. ASSUME InputOK, input.kind = "study"
      PROVE  FoldsAreApart
  <2> DEFINE bars    == input.bars
             folds   == input.folds
             hold    == input.hold
             embargo == input.embargo
  <2>1. /\ Size \in Nat /\ folds \in Nat /\ folds >= 2
        /\ hold \in Nat /\ embargo \in Nat /\ hold <= embargo
        /\ bars \in [Indices(Size) -> Bars]
    BY <1>1, StudyAssumption DEF InputOK, StudyOK
  <2> HIDE DEF bars, folds, hold, embargo
  <2>2. ASSUME NEW f \in 0 .. folds - 1, NEW i \in Train(Size, folds, f, embargo),
               NEW j \in Test(Size, folds, f), NEW b \in Bars
        PROVE  /\ LabelAt([bars EXCEPT ![j] = b], Size, i, hold) = LabelAt(bars, Size, i, hold)
               /\ LabelAt([bars EXCEPT ![i] = b], Size, j, hold) = LabelAt(bars, Size, j, hold)
    <3>1. /\ i \in Indices(Size) /\ j \in Indices(Size) /\ i # j
          /\ j \notin BarsAhead(Size, i, hold) /\ i \notin BarsAhead(Size, j, hold)
      BY <2>1, TrainedApart
    <3> DEFINE tested == [bars EXCEPT ![j] = b]
               trained == [bars EXCEPT ![i] = b]
    <3>2. \A k \in Indices(Size) : k # j => tested[k] = bars[k]
      BY <2>1
    <3>3. \A k \in Indices(Size) : k # i => trained[k] = bars[k]
      BY <2>1
    <3> HIDE DEF tested, trained
    <3>4. LabelAt(tested, Size, i, hold) = LabelAt(bars, Size, i, hold)
      BY <2>1, <3>1, <3>2, LabelLooksAhead
    <3>5. LabelAt(trained, Size, j, hold) = LabelAt(bars, Size, j, hold)
      BY <2>1, <3>1, <3>3, LabelLooksAhead
    <3> QED
      BY <3>4, <3>5 DEF tested, trained
  <2>3. ASSUME NEW i \in Indices(Size)
        PROVE  \E f \in 0 .. folds - 1 : \A g \in 0 .. folds - 1 :
                   i \in Test(Size, folds, g) <=> g = f
    BY <2>1, TestedOnce
  <2> QED
    BY <2>2, <2>3, Zenon DEF FoldsAreApart, bars, folds, hold, embargo
<1>2. InputOK => FoldsAreApart
  BY <1>1 DEF FoldsAreApart
<1> QED
  BY <1>2, InputsOK, PTL
=============================================================================
