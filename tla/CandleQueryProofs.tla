-------------------------- MODULE CandleQueryProofs --------------------------
(***************************************************************************)
(* Proofs about CandleQuery, for any requests, ranges, archive, calendar   *)
(* and size of the semaphore: no request is answered after a failed        *)
(* repair, every answer has the candles its audits vouch for, and nothing  *)
(* that is there is repaired.                                              *)
(***************************************************************************)
EXTENDS CandleQuery, FiniteSetTheorems, TLAPS

Time == Opens(0, Midnight(LastDay + 1))

-----------------------------------------------------------------------------
(* Multiples of a number.                                                   *)

\* Quotients and remainders are integers, and remainders small.
LEMMA DivInt ==
    ASSUME NEW n \in Int, NEW d \in Nat, d > 0
    PROVE  n \div d \in Int /\ n % d \in Nat /\ n % d < d
<1>1. n \div d \in Int
  OBVIOUS
<1>2. n % d \in Nat /\ n % d < d
  OBVIOUS
<1> QED
  BY <1>1, <1>2

\* The quotient of a number below k * d is below k ...
LEMMA DivBelow ==
    ASSUME NEW n \in Int, NEW d \in Nat, d > 0, NEW k \in Int, n < k * d
    PROVE  n \div d < k
  OBVIOUS

\* ... and that of a number from k * d on is not.
LEMMA DivFrom ==
    ASSUME NEW n \in Int, NEW d \in Nat, d > 0, NEW k \in Int, k * d <= n
    PROVE  k <= n \div d
  OBVIOUS

\* Division with remainder.
LEMMA Euclid ==
    ASSUME NEW n \in Int, NEW d \in Nat, d > 0
    PROVE  n = (n \div d) * d + (n % d)
  OBVIOUS

\* The remainder of a multiple and a small number is that number.
LEMMA Remainder ==
    ASSUME NEW k \in Int, NEW d \in Nat, d > 0, NEW r \in Nat, r < d
    PROVE  (k * d + r) % d = r
  OBVIOUS

\* n is a multiple of d.
Multiple(n, d) == \E k \in Int : n = k * d

\* Multiples are the numbers without a remainder.
LEMMA MultipleMod ==
    ASSUME NEW n \in Int, NEW d \in Nat, d > 0
    PROVE  n % d = 0 <=> Multiple(n, d)
<1>1. ASSUME n % d = 0 PROVE Multiple(n, d)
  <2>1. n = (n \div d) * d + (n % d)
    BY Euclid
  <2>2. n \div d \in Int /\ (n \div d) * d \in Int
    BY DivInt
  <2> QED
    BY <1>1, <2>1, <2>2 DEF Multiple
<1>2. ASSUME Multiple(n, d) PROVE n % d = 0
  <2>1. PICK k \in Int : n = k * d
    BY <1>2 DEF Multiple
  <2>2. (k * d + 0) % d = 0
    BY Remainder
  <2>3. k * d + 0 = n
    BY <2>1
  <2> QED
    BY <2>2, <2>3
<1> QED
  BY <1>1, <1>2

\* Sums and differences of multiples are multiples.
LEMMA MultipleSum ==
    ASSUME NEW d \in Nat, NEW m \in Int, NEW n \in Int, Multiple(m, d), Multiple(n, d)
    PROVE  Multiple(m + n, d) /\ Multiple(m - n, d)
<1>1. PICK j \in Int : m = j * d
  BY DEF Multiple
<1>2. PICK k \in Int : n = k * d
  BY DEF Multiple
<1>3. j + k \in Int /\ j - k \in Int
  OBVIOUS
<1>4. (j + k) * d = j * d + k * d /\ (j - k) * d = j * d - k * d
  OBVIOUS
<1> QED
  BY <1>1, <1>2, <1>3, <1>4 DEF Multiple

\* Two different multiples are at least d apart.
LEMMA MultipleApart ==
    ASSUME NEW d \in Nat, d > 0, NEW m \in Int, NEW n \in Int,
           Multiple(m, d), Multiple(n, d), m < n
    PROVE  m + d <= n
<1>1. PICK j \in Int : m = j * d
  BY DEF Multiple
<1>2. PICK k \in Int : n = k * d
  BY DEF Multiple
<1>3. j < k
  <2> SUFFICES ASSUME k <= j PROVE FALSE
    OBVIOUS
  <2>1. k * d <= j * d
    OBVIOUS
  <2> QED
    BY <1>1, <1>2, <2>1
<1>4. j + 1 <= k
  BY <1>3
<1>5. (j + 1) * d <= k * d
  BY <1>4
<1>6. (j + 1) * d = j * d + d
  OBVIOUS
<1> QED
  BY <1>1, <1>2, <1>5, <1>6

-----------------------------------------------------------------------------
(* The calendar.                                                            *)

\* Candles, hours and days have a length, and are made of the smaller ones.
LEMMA Calendar ==
    /\ Frame \in Nat /\ Frame > 0
    /\ HourMs \in Nat /\ HourMs > 0
    /\ DayMs \in Nat /\ DayMs > 0
    /\ FramesPerHour \in Nat /\ FramesPerHour > 0
    /\ HoursPerDay \in Nat /\ HoursPerDay > 0
    /\ LastDay \in Nat
<1>1. /\ Frame \in Nat /\ Frame > 0 /\ FramesPerHour \in Nat /\ FramesPerHour > 0
      /\ HoursPerDay \in Nat /\ HoursPerDay > 0 /\ LastDay \in Nat
  BY SizeAssumption
<1>2. \A a, b \in Nat : a > 0 /\ b > 0 => a * b \in Nat /\ a * b > 0
  OBVIOUS
<1>3. HourMs \in Nat /\ HourMs > 0
  BY <1>1, <1>2 DEF HourMs
<1>4. DayMs \in Nat /\ DayMs > 0
  BY <1>1, <1>2, <1>3 DEF DayMs
<1> QED
  BY <1>1, <1>3, <1>4

\* Days follow one another.
LEMMA Midnights ==
    /\ Midnight(0) = 0
    /\ \A d \in Int : Midnight(d) \in Int /\ Midnight(d + 1) = Midnight(d) + DayMs
    /\ \A d, e \in Int : d < e => Midnight(d) + DayMs <= Midnight(e)
    /\ \A d, e \in Int : d <= e => Midnight(d) <= Midnight(e)
    /\ \A d \in Int : Multiple(Midnight(d), Frame)
<1> DEFINE D == DayMs
<1>0. D \in Nat /\ D > 0
  BY Calendar
<1>d. DayMs = D
  OBVIOUS
<1> HIDE DEF D
<1>1. 0 * D = 0
  BY <1>0
<1>2. \A d \in Int : d * D \in Int /\ (d + 1) * D = d * D + D
  BY <1>0
<1>3. \A d, e \in Int : d <= e => d * D <= e * D
  BY <1>0
<1>4. \A d, e \in Int : d < e => d * D + D <= e * D
  <2> SUFFICES ASSUME NEW d \in Int, NEW e \in Int, d < e PROVE d * D + D <= e * D
    OBVIOUS
  <2>1. (d + 1) * D <= e * D
    BY <1>3
  <2> QED
    BY <1>2, <2>1
<1>5. ASSUME NEW d \in Int PROVE Multiple(d * D, Frame)
  <2>1. D = HoursPerDay * (FramesPerHour * Frame)
    BY <1>d DEF DayMs, HourMs
  <2>2. \A a, b, c, e \in Int : a * (b * (c * e)) = (a * (b * c)) * e /\ a * (b * c) \in Int
    OBVIOUS
  <2>3. d * D = (d * (HoursPerDay * FramesPerHour)) * Frame /\ d * (HoursPerDay * FramesPerHour) \in Int
    BY <2>1, <2>2, Calendar
  <2> QED
    BY <2>3 DEF Multiple
<1> QED
  BY <1>0, <1>1, <1>2, <1>3, <1>4, <1>5, <1>d DEF Midnight

\* An instant is in its day, and in no other one.
LEMMA InDay ==
    ASSUME NEW t \in Int
    PROVE  /\ DayOf(t) \in Int
           /\ Midnight(DayOf(t)) <= t
           /\ t < Midnight(DayOf(t)) + DayMs
           /\ \A d \in Int : Midnight(d) <= t => d <= DayOf(t)
           /\ \A d \in Int : t < Midnight(d) => DayOf(t) < d
           /\ \A d \in Int : Midnight(d) <= t /\ t < Midnight(d) + DayMs => DayOf(t) = d
<1> DEFINE D == DayMs
           k == t \div D
<1>0. D \in Nat /\ D > 0 /\ k \in Int
  BY Calendar, DivInt
<1>d. DayMs = D /\ DayOf(t) = k
  BY DEF DayOf
<1>1. \A d \in Int : d * D <= t => d <= k
  BY <1>0, DivFrom
<1>2. \A d \in Int : t < d * D => k < d
  BY <1>0, DivBelow
<1>m. \A d \in Int : Midnight(d) = d * D
  BY DEF Midnight
<1> HIDE DEF D, k
<1>3. k * D <= t
  <2>1. k * D \in Int
    BY <1>0
  <2> QED
    BY <1>0, <1>2, <2>1
<1>4. t < (k + 1) * D
  <2>1. k + 1 \in Int /\ (k + 1) * D \in Int
    BY <1>0
  <2> QED
    BY <1>0, <1>1, <2>1
<1>5. \A d \in Int : (d + 1) * D = d * D + D /\ d * D \in Int
  BY <1>0
<1>6. ASSUME NEW d \in Int, d * D <= t, t < d * D + D PROVE k = d
  <2>1. d <= k
    BY <1>1, <1>6
  <2>2. t < (d + 1) * D
    BY <1>5, <1>6
  <2>3. k < d + 1
    BY <1>2, <2>2
  <2> QED
    BY <1>0, <2>1, <2>3
<1> QED
  BY <1>0, <1>1, <1>2, <1>3, <1>4, <1>5, <1>6, <1>d, <1>m

\* Days grow with the instant.
LEMMA DayGrows ==
    ASSUME NEW s \in Int, NEW t \in Int, s <= t
    PROVE  DayOf(s) <= DayOf(t)
  BY InDay, Midnights

\* An hour starts on a candle, and hours follow one another within their day.
LEMMA Hours ==
    ASSUME NEW d \in Int
    PROVE  /\ \A h \in Int : HourStart(d, h) \in Int /\ Multiple(HourStart(d, h), Frame)
           /\ \A h \in Int : HourStart(d, h + 1) = HourStart(d, h) + HourMs
           /\ \A g, h \in Int : g < h => HourStart(d, g) + HourMs <= HourStart(d, h)
           /\ HourStart(d, 0) = Midnight(d)
           /\ HourStart(d, HoursPerDay) = Midnight(d) + DayMs
           /\ Multiple(HourMs, Frame)
<1> DEFINE H == HourMs
           m == Midnight(d)
<1>0. H \in Nat /\ H > 0 /\ m \in Int /\ Multiple(m, Frame) /\ FramesPerHour \in Int /\ Frame \in Nat
  <2>1. H \in Nat /\ H > 0 /\ FramesPerHour \in Int /\ Frame \in Nat
    BY Calendar
  <2>2. m \in Int /\ Multiple(m, Frame)
    BY Midnights
  <2> QED
    BY <2>1, <2>2
<1>1. H = FramesPerHour * Frame /\ DayMs = HoursPerDay * H /\ \A h \in Int : HourStart(d, h) = m + h * H
  BY DEF HourMs, DayMs, HourStart
<1>2. HoursPerDay \in Int /\ HourMs = H /\ Midnight(d) = m
  BY Calendar
<1> HIDE DEF H, m
<1>3. \A h \in Int : h * H \in Int /\ (h + 1) * H = h * H + H /\ 0 * H = 0
  BY <1>0
<1>4. \A g, h \in Int : g <= h => g * H <= h * H
  BY <1>0
<1>5. ASSUME NEW h \in Int PROVE Multiple(h * H, Frame)
  <2>1. \A a, b, c \in Int : a * (b * c) = (a * b) * c /\ a * b \in Int
    OBVIOUS
  <2>2. h * H = h * (FramesPerHour * Frame)
    BY <1>1
  <2>3. h \in Int /\ FramesPerHour \in Int /\ Frame \in Int
    BY <1>0
  <2>4. h * (FramesPerHour * Frame) = (h * FramesPerHour) * Frame /\ h * FramesPerHour \in Int
    BY <2>1, <2>3
  <2> QED
    BY <2>2, <2>4 DEF Multiple
<1>6. \A h \in Int : Multiple(m + h * H, Frame)
  BY <1>0, <1>3, <1>5, MultipleSum
<1>7. ASSUME NEW g \in Int, NEW h \in Int, g < h PROVE g * H + H <= h * H
  <2>1. (g + 1) * H <= h * H
    BY <1>4, <1>7
  <2> QED
    BY <1>3, <2>1
<1>8. Multiple(H, Frame)
  BY <1>0, <1>1 DEF Multiple
<1>9. \A h \in Int : HourStart(d, h) \in Int /\ Multiple(HourStart(d, h), Frame)
  BY <1>0, <1>1, <1>3, <1>6
<1>10. \A h \in Int : HourStart(d, h + 1) = HourStart(d, h) + H
  BY <1>0, <1>1, <1>3
<1>11. \A g, h \in Int : g < h => HourStart(d, g) + H <= HourStart(d, h)
  BY <1>0, <1>1, <1>3, <1>7
<1>12. HourStart(d, 0) = m /\ HourStart(d, HoursPerDay) = m + DayMs
  BY <1>0, <1>1, <1>2, <1>3
<1> QED
  BY <1>2, <1>8, <1>9, <1>10, <1>11, <1>12

\* An instant is in its hour, and in no other hour of its day.
LEMMA InHour ==
    ASSUME NEW t \in Int
    PROVE  /\ HourIn(t) \in Hour
           /\ HourStart(DayOf(t), HourIn(t)) <= t
           /\ t < HourStart(DayOf(t), HourIn(t)) + HourMs
           /\ \A h \in Hour : HourStart(DayOf(t), h) <= t => h <= HourIn(t)
           /\ \A h \in Hour : t < HourStart(DayOf(t), h) + HourMs => HourIn(t) <= h
<1> DEFINE H == HourMs
           D == DayMs
           m == Midnight(DayOf(t))
           r == t % D
           k == r \div H
<1>0. H \in Nat /\ H > 0 /\ D \in Nat /\ D > 0 /\ HoursPerDay \in Nat /\ HoursPerDay > 0
  BY Calendar
<1>1. r \in Nat /\ r < D /\ m \in Int /\ t = m + r
  <2>1. t = (t \div D) * D + (t % D)
    BY <1>0, Euclid
  <2>2. r \in Nat /\ r < D
    BY <1>0, DivInt
  <2>3. (t \div D) * D = m
    BY DEF Midnight, DayOf
  <2>4. m \in Int
    BY InDay, Midnights
  <2> QED
    BY <2>1, <2>2, <2>3, <2>4
<1>2. D = HoursPerDay * H /\ HourIn(t) = k /\ HourMs = H /\ \A h \in Int : HourStart(DayOf(t), h) = m + h * H
  BY DEF HourMs, DayMs, HourStart, HourIn
<1> HIDE DEF r, H, D, m
<1>3. k \in Int /\ k < HoursPerDay
  BY <1>0, <1>1, <1>2, DivInt, DivBelow
<1>4. k >= 0
  <2>1. 0 * H <= r
    BY <1>0, <1>1
  <2> QED
    BY <1>0, <1>1, <2>1, DivFrom
<1>5. \A h \in Int : h * H <= r => h <= k
  BY <1>0, <1>1, DivFrom
<1>6. \A h \in Int : r < h * H => k < h
  BY <1>0, <1>1, DivBelow
<1> HIDE DEF k
<1>7. \A h \in Int : (h + 1) * H = h * H + H /\ h * H \in Int
  BY <1>0
<1>8. k * H <= r
  BY <1>1, <1>3, <1>6, <1>7
<1>9. r < (k + 1) * H
  BY <1>1, <1>3, <1>5, <1>7
<1>10. k \in Hour
  BY <1>0, <1>3, <1>4 DEF Hour
<1>11. Hour \subseteq Int
  BY DEF Hour
<1>12. m + k * H <= t /\ t < (m + k * H) + H
  BY <1>0, <1>1, <1>3, <1>7, <1>8, <1>9
<1>13. ASSUME NEW h \in Hour, m + h * H <= t PROVE h <= k
  <2>1. h * H <= r
    BY <1>1, <1>7, <1>11, <1>13
  <2> QED
    BY <1>5, <1>11, <2>1
<1>14. ASSUME NEW h \in Hour, t < (m + h * H) + H PROVE k <= h
  <2>1. r < (h + 1) * H
    BY <1>1, <1>0, <1>7, <1>11, <1>14
  <2>2. k < h + 1
    BY <1>6, <1>11, <2>1
  <2> QED
    BY <1>3, <1>11, <2>2
<1> QED
  BY <1>2, <1>3, <1>10, <1>11, <1>12, <1>13, <1>14

\* An hour lies within its day.
LEMMA HourSpan ==
    ASSUME NEW d \in Int, NEW h \in Hour
    PROVE  /\ HourStart(d, h) \in Int /\ HourStart(d, h) + HourMs \in Int
           /\ Midnight(d) \in Int /\ Midnight(d) <= HourStart(d, h)
           /\ HourStart(d, h) + HourMs <= Midnight(d) + DayMs
<1>1. h \in Int /\ h < HoursPerDay /\ HoursPerDay \in Int /\ HourMs \in Nat /\ 0 <= h /\ 0 \in Int
  BY Calendar DEF Hour
<1>2. /\ HourStart(d, h) \in Int /\ HourStart(d, h) + HourMs <= Midnight(d) + DayMs
      /\ HourStart(d, 0) = Midnight(d) /\ Midnight(d) \in Int
      /\ 0 < h => HourStart(d, 0) + HourMs <= HourStart(d, h)
  <2>1. HourStart(d, h) + HourMs <= HourStart(d, HoursPerDay) /\ HourStart(d, h) \in Int
    BY <1>1, Hours
  <2>2. HourStart(d, HoursPerDay) = Midnight(d) + DayMs /\ HourStart(d, 0) = Midnight(d)
    BY Hours
  <2>3. 0 < h => HourStart(d, 0) + HourMs <= HourStart(d, h)
    BY <1>1, Hours
  <2> QED
    BY <2>1, <2>2, <2>3, Midnights
<1>3. CASE h = 0
  BY <1>1, <1>2, <1>3
<1>4. CASE 0 < h
  BY <1>1, <1>2, <1>4
<1> QED
  BY <1>1, <1>3, <1>4

\* An instant of an hour is in that hour, and in its day.
LEMMA OfHour ==
    ASSUME NEW d \in Int, NEW h \in Hour, NEW c \in Int,
           HourStart(d, h) <= c, c < HourStart(d, h) + HourMs
    PROVE  DayOf(c) = d /\ HourIn(c) = h
<1>1. Midnight(d) <= c /\ c < Midnight(d) + DayMs
  <2>1. DayMs \in Int
    BY Calendar
  <2> QED
    BY <2>1, HourSpan
<1>2. DayOf(c) = d
  BY <1>1, InDay
<1>3. HourIn(c) \in Hour /\ h <= HourIn(c) /\ HourIn(c) <= h
  BY <1>2, InHour
<1>4. HourIn(c) \in Int /\ h \in Int
  BY <1>3 DEF Hour
<1> QED
  BY <1>2, <1>3, <1>4

\* Candles are the multiples of Frame.
LEMMA OpensMultiple ==
    ASSUME NEW a \in Int, NEW b \in Int
    PROVE  \A t : t \in Opens(a, b) <=> t \in Int /\ a <= t /\ t < b /\ Multiple(t, Frame)
<1>1. Frame \in Nat /\ Frame > 0
  BY Calendar
<1>2. \A t \in Int : t % Frame = 0 <=> Multiple(t, Frame)
  BY <1>1, MultipleMod
<1>3. \A t : t \in a..(b - 1) <=> t \in Int /\ a <= t /\ t < b
  OBVIOUS
<1> QED
  BY <1>2, <1>3 DEF Opens

\* The instants of the model are those of its days.
LEMMA TimeParts ==
    /\ \A t : t \in Time <=> t \in Nat /\ t < Midnight(LastDay + 1) /\ Multiple(t, Frame)
    /\ \A t \in Time : t \in Nat /\ DayOf(t) \in Day
    /\ 0 \in Time /\ 0 \in Day
    /\ Midnight(FirstDay) \in Time
<1>1. LastDay \in Nat /\ FirstDay \in Nat /\ FirstDay <= LastDay /\ DayMs \in Nat /\ DayMs > 0
  BY SizeAssumption, Calendar
<1>2. Midnight(LastDay + 1) \in Int
  BY <1>1, Midnights
<1>3. \A t : t \in Time <=> t \in Nat /\ t < Midnight(LastDay + 1) /\ Multiple(t, Frame)
  BY <1>2, OpensMultiple DEF Time
<1>4. ASSUME NEW t \in Time PROVE t \in Nat /\ DayOf(t) \in Day
  <2>1. t \in Nat /\ t < Midnight(LastDay + 1)
    BY <1>3
  <2>2. DayOf(t) \in Int /\ DayOf(t) < LastDay + 1
    BY <1>1, <2>1, InDay
  <2>3. 0 <= DayOf(t)
    BY <2>1, InDay, Midnights
  <2> QED
    BY <1>1, <2>1, <2>2, <2>3 DEF Day
<1>5. Midnight(FirstDay) \in Time
  <2>1. Midnight(FirstDay) \in Int /\ Multiple(Midnight(FirstDay), Frame)
    <3>1. FirstDay \in Int
      BY <1>1
    <3> QED
      BY <3>1, Midnights
  <2>0. 0 <= Midnight(FirstDay)
    <3>1. 0 \in Int /\ FirstDay \in Int /\ 0 <= FirstDay
      BY <1>1
    <3>2. Midnight(0) <= Midnight(FirstDay)
      BY <3>1, Midnights
    <3> QED
      BY <3>2, Midnights
  <2>2. Midnight(FirstDay) + DayMs <= Midnight(LastDay + 1)
    BY <1>1, Midnights
  <2> QED
    BY <1>1, <1>2, <1>3, <2>0, <2>1, <2>2
<1>6. 0 \in Time
  <2>1. Midnight(0) = 0 /\ Multiple(Midnight(0), Frame) /\ Midnight(0) + DayMs <= Midnight(LastDay + 1)
    BY <1>1, Midnights
  <2> QED
    BY <1>1, <1>2, <1>3, <2>1
<1>7. 0 \in Day
  BY <1>1 DEF Day
<1> QED
  BY <1>3, <1>4, <1>5, <1>6, <1>7

\* The candles of an hour that the clock is in: fewer than the hour has are closed.
LEMMA OpenCandle ==
    ASSUME NEW t \in Int
    PROVE  /\ (t % HourMs) \div Frame \in Nat
           /\ (t % HourMs) \div Frame + 1 <= FramesPerHour
<1>0. /\ HourMs \in Nat /\ HourMs > 0 /\ HourMs = FramesPerHour * Frame
      /\ FramesPerHour \in Nat /\ Frame \in Nat /\ Frame > 0
  BY Calendar DEF HourMs
<1>1. t % HourMs \in Nat /\ t % HourMs < HourMs
  BY <1>0, DivInt
<1>2. (t % HourMs) \div Frame \in Int /\ (t % HourMs) \div Frame < FramesPerHour
  BY <1>0, <1>1, DivBelow, DivInt
<1>3. 0 * Frame <= t % HourMs
  BY <1>0, <1>1
<1>4. 0 <= (t % HourMs) \div Frame
  BY <1>0, <1>1, <1>3, DivFrom
<1> QED
  BY <1>0, <1>2, <1>4

-----------------------------------------------------------------------------
(* Types.                                                                   *)

Requests == [pc : Phases, from : Nat, to : Nat, days : SUBSET Day, built : Time,
             own : SUBSET Day, failed : BOOLEAN, gone : BOOLEAN, out : SUBSET Int, read : Day]

Files == [state : {"missing", "unreadable", "readable"}, rows : SUBSET Int]

\* Daily files have only rows of their day, hour files not more than their hour has.
PartitionsOK ==
    /\ dayFile \in [Day -> Files]
    /\ \A d \in Day : dayFile[d].rows \subseteq Opens(Midnight(d), Midnight(d + 1))
    /\ hourFile \in [Day -> [Hour -> 0..FramesPerHour]]

\* Only candles are on record as lost.
FilesOK ==
    /\ PartitionsOK
    /\ others \in 0..MaxOthers
    /\ lost \in [Queries -> SUBSET Time]

Typed ==
    /\ now \in Time
    /\ archive \in Archives
    /\ FilesOK
    /\ query \in [Queries -> Requests]

\* What files lose is on record for a request that is about to read them, and stays so.
Remembered ==
    \A q \in Queries :
        /\ query[q].pc \in {"read", "answered"} => lost[q] \subseteq lost'[q]
        /\ query[q].pc = "read" => Taken \subseteq lost'[q]

\* What a step does to files, as far as the requests depend on it.
FileStep == FilesOK' /\ Remembered

\* Types hold at the start.
LEMMA InitTyped ==
    Init => Typed
<1> SUFFICES ASSUME Init PROVE Typed
  OBVIOUS
<1>1. now \in Time /\ archive \in Archives
  BY TimeParts DEF Init
<1>2. NoQuery \in Requests
  BY TimeParts DEF NoQuery, Requests, Phases
<1>3. query \in [Queries -> Requests]
  BY <1>2 DEF Init
<1>4. FilesOK
  <2>1. dayFile \in [Day -> Files]
    BY DEF Init, Missing, Files
  <2>2. \A d \in Day : dayFile[d].rows = {}
    BY DEF Init, Missing
  <2>3. hourFile \in [Day -> [Hour -> 0..FramesPerHour]]
    BY Calendar DEF Init
  <2>4. others \in 0..MaxOthers /\ lost \in [Queries -> SUBSET Time]
    BY SizeAssumption DEF Init
  <2> QED
    BY <2>1, <2>2, <2>3, <2>4 DEF FilesOK, PartitionsOK
<1> QED
  BY <1>1, <1>3, <1>4 DEF Typed

\* A set of candles without a hole.
Run(S) == \A b \in S, e \in S : b < e => e - Frame \in S /\ b <= e - Frame

\* The candles of an hour's file open in it, and are a run.
LEMMA HourRowsRun ==
    ASSUME PartitionsOK, NEW d \in Day, NEW h \in Hour
    PROVE  /\ HourRows(d, h) \subseteq Opens(HourStart(d, h), HourStart(d, h) + HourMs)
           /\ Run(HourRows(d, h))
<1> DEFINE s == HourStart(d, h)
           n == hourFile[d][h]
<1>0. /\ Frame \in Nat /\ Frame > 0 /\ HourMs \in Nat /\ HourMs = FramesPerHour * Frame
      /\ FramesPerHour \in Nat
  BY Calendar DEF HourMs
<1>1. s \in Int /\ Multiple(s, Frame)
  BY Hours DEF Day, Hour
<1>2. n \in Int /\ n <= FramesPerHour
  BY <1>0 DEF PartitionsOK
<1>3. HourRows(d, h) = {s + i * Frame : i \in 0..(n - 1)}
  BY DEF HourRows, RowsAsOf
<1> HIDE DEF s, n
<1>4. ASSUME NEW i \in 0..(n - 1) PROVE s + i * Frame \in Opens(s, s + HourMs)
  <2>1. i \in Int /\ 0 <= i /\ i + 1 <= FramesPerHour
    BY <1>0, <1>2
  <2>2. 0 * Frame <= i * Frame /\ (i + 1) * Frame <= FramesPerHour * Frame
    BY <1>0, <2>1
  <2>3. (i + 1) * Frame = i * Frame + Frame /\ 0 * Frame = 0 /\ i * Frame \in Int
    BY <1>0, <2>1
  <2>4. s <= s + i * Frame /\ s + i * Frame < s + HourMs /\ s + i * Frame \in Int /\ s + HourMs \in Int
    BY <1>0, <1>1, <2>2, <2>3
  <2>5. Multiple(i * Frame, Frame)
    BY <2>1 DEF Multiple
  <2>6. Multiple(s + i * Frame, Frame)
    BY <1>0, <1>1, <2>3, <2>5, MultipleSum
  <2> QED
    BY <1>1, <2>4, <2>6, OpensMultiple
<1>5. Run(HourRows(d, h))
  <2>1. ASSUME NEW i \in 0..(n - 1), NEW j \in 0..(n - 1), s + i * Frame < s + j * Frame
        PROVE  /\ (s + j * Frame) - Frame \in HourRows(d, h)
               /\ s + i * Frame <= (s + j * Frame) - Frame
    <3>1. i \in Int /\ j \in Int /\ 0 <= i /\ i * Frame \in Int /\ j * Frame \in Int
      BY <1>0
    <3>2. i * Frame < j * Frame
      BY <1>1, <2>1, <3>1
    <3>3. i < j
      <4> SUFFICES ASSUME j <= i PROVE FALSE
        BY <3>1
      <4>1. j * Frame <= i * Frame
        BY <1>0, <3>1
      <4> QED
        BY <3>1, <3>2, <4>1
    <3>4. j - 1 \in 0..(n - 1)
      BY <1>2, <3>1, <3>3
    <3>5. (j - 1) * Frame = j * Frame - Frame
      BY <1>0, <3>1
    <3>6. i * Frame <= (j - 1) * Frame
      BY <1>0, <3>1, <3>3
    <3>7. (s + j * Frame) - Frame = s + (j - 1) * Frame
      BY <1>0, <1>1, <3>1, <3>5
    <3>8. s + (j - 1) * Frame \in HourRows(d, h)
      BY <1>3, <3>4
    <3>9. s + i * Frame <= (s + j * Frame) - Frame
      BY <1>0, <1>1, <3>1, <3>5, <3>6
    <3> QED
      BY <3>7, <3>8, <3>9
  <2>2. ASSUME NEW b \in HourRows(d, h), NEW e \in HourRows(d, h), b < e
        PROVE  e - Frame \in HourRows(d, h) /\ b <= e - Frame
    <3>1. PICK i \in 0..(n - 1) : b = s + i * Frame
      BY <1>3
    <3>2. PICK j \in 0..(n - 1) : e = s + j * Frame
      BY <1>3
    <3> QED
      BY <2>1, <2>2, <3>1, <3>2
  <2> QED
    BY <2>2 DEF Run
<1> QED
  BY <1>3, <1>4, <1>5 DEF s

\* The rows of all files are candles of the calendar.
LEMMA RowsAreCandles ==
    ASSUME PartitionsOK, NEW d \in Day
    PROVE  /\ dayFile[d].rows \subseteq Time
           /\ \A h \in Hour : HourRows(d, h) \subseteq Time
<1>1. d \in Int /\ d + 1 \in Int /\ 0 \in Int /\ 0 <= d /\ d + 1 <= LastDay + 1 /\ LastDay + 1 \in Int
  BY Calendar DEF Day
<1>2. /\ Midnight(d) \in Int /\ Midnight(d + 1) \in Int /\ Midnight(LastDay + 1) \in Int
      /\ 0 <= Midnight(d) /\ Midnight(d + 1) <= Midnight(LastDay + 1)
      /\ Midnight(d + 1) = Midnight(d) + DayMs
  <2>1. Midnight(0) <= Midnight(d) /\ Midnight(0) = 0
    BY <1>1, Midnights
  <2>2. Midnight(d + 1) <= Midnight(LastDay + 1)
    BY <1>1, Midnights
  <2> QED
    BY <1>1, <2>1, <2>2, Midnights
<1>3. Opens(Midnight(d), Midnight(d + 1)) \subseteq Time
  <2> SUFFICES ASSUME NEW t \in Opens(Midnight(d), Midnight(d + 1)) PROVE t \in Time
    OBVIOUS
  <2>1. t \in Int /\ Midnight(d) <= t /\ t < Midnight(d + 1) /\ Multiple(t, Frame)
    BY <1>2, OpensMultiple
  <2> QED
    BY <1>2, <2>1, TimeParts
<1>4. ASSUME NEW h \in Hour PROVE HourRows(d, h) \subseteq Opens(Midnight(d), Midnight(d + 1))
  <2>1. /\ HourStart(d, h) \in Int /\ HourStart(d, h) + HourMs \in Int
        /\ Midnight(d) <= HourStart(d, h) /\ HourStart(d, h) + HourMs <= Midnight(d + 1)
    BY <1>1, <1>2, HourSpan
  <2> SUFFICES ASSUME NEW t \in HourRows(d, h) PROVE t \in Opens(Midnight(d), Midnight(d + 1))
    OBVIOUS
  <2>2. t \in Opens(HourStart(d, h), HourStart(d, h) + HourMs)
    BY HourRowsRun
  <2>3. t \in Int /\ HourStart(d, h) <= t /\ t < HourStart(d, h) + HourMs /\ Multiple(t, Frame)
    BY <2>1, <2>2, OpensMultiple
  <2>4. Midnight(d) <= t /\ t < Midnight(d + 1)
    BY <1>2, <2>1, <2>3
  <2> QED
    BY <1>2, <2>3, <2>4, OpensMultiple
<1> QED
  BY <1>3, <1>4 DEF PartitionsOK

\* What files lose is candles of the calendar.
LEMMA TakenIsCandles ==
    ASSUME PartitionsOK
    PROVE  Taken \subseteq Time
<1>1. \A d \in Day : dayFile[d].rows \subseteq Time
  BY RowsAreCandles
<1>2. \A d \in Day, h \in Hour : HourRows(d, h) \subseteq Time
  BY RowsAreCandles
<1> QED
  BY <1>1, <1>2 DEF Taken

\* A step that leaves the files alone.
LEMMA FilesAlone ==
    ASSUME FilesOK, UNCHANGED <<dayFile, hourFile, others, lost>>
    PROVE  FileStep
<1>1. FilesOK'
  BY DEF FilesOK, PartitionsOK
<1>2. \A d \in Day, h \in Hour : HourRows(d, h)' = HourRows(d, h)
  BY DEF HourRows, RowsAsOf
<1>3. Taken = {}
  BY <1>2 DEF Taken
<1>4. Remembered
  BY <1>3 DEF Remembered
<1> QED
  BY <1>1, <1>4 DEF FileStep

\* A step that changes them and notes what they lose.
LEMMA FilesChange ==
    ASSUME FilesOK, PartitionsOK', NoteLosses, others' \in 0..MaxOthers
    PROVE  FileStep
<1>1. Taken \subseteq Time
  BY TakenIsCandles DEF FilesOK
<1> DEFINE T == Taken
<1>2. lost' = [q \in Queries |-> IF query[q].pc \in {"audit", "repair", "reaudit", "read"}
                                THEN lost[q] \cup T ELSE lost[q]]
  BY DEF NoteLosses
<1>3. T \subseteq Time /\ lost \in [Queries -> SUBSET Time]
  BY <1>1 DEF FilesOK
<1>4. Remembered <=> \A q \in Queries :
        /\ query[q].pc \in {"read", "answered"} => lost[q] \subseteq lost'[q]
        /\ query[q].pc = "read" => T \subseteq lost'[q]
  BY DEF Remembered
<1> HIDE DEF T
<1>5. lost' \in [Queries -> SUBSET Time]
  BY <1>2, <1>3
<1>6. Remembered
  BY <1>2, <1>4
<1> QED
  BY <1>5, <1>6 DEF FileStep, FilesOK

\* A step that puts other counts of candles in the hours of a day.
LEMMA HoursPut ==
    ASSUME PartitionsOK, NEW e \in Day, NEW hours \in [Hour -> 0..FramesPerHour],
           hourFile' = [hourFile EXCEPT ![e] = hours], UNCHANGED dayFile
    PROVE  PartitionsOK'
  BY DEF PartitionsOK

\* A step that puts another file in the place of a day's.
LEMMA DayPut ==
    ASSUME PartitionsOK, NEW e \in Day, NEW f \in Files,
           f.rows \subseteq Opens(Midnight(e), Midnight(e + 1)),
           dayFile' = [dayFile EXCEPT ![e] = f], UNCHANGED hourFile
    PROVE  PartitionsOK'
  BY DEF PartitionsOK

\* Sealed hours are hours.
LEMMA SealedHours ==
    ASSUME Typed, NEW k \in Int
    PROVE  Today \in Day /\ Sealed(k) \in [Hour -> 0..FramesPerHour]
<1>1. Today \in Day
  BY TimeParts DEF Today, Typed
<1>2. hourFile[Today] \in [Hour -> 0..FramesPerHour]
  BY <1>1 DEF Typed, FilesOK, PartitionsOK
<1>3. FramesPerHour \in Nat
  BY Calendar
<1> QED
  BY <1>1, <1>2, <1>3 DEF Sealed

\* A fetch of the current day leaves hour files.
LEMMA FetchKeeps ==
    ASSUME Typed, NEW ok \in BOOLEAN, FetchToday(ok)
    PROVE  PartitionsOK'
<1>1. now \in Int /\ Today \in Day /\ HourIn(now) \in Hour /\ HourIn(now) \in Int
  BY TimeParts, InHour DEF Typed, Today, Hour
<1>2. PartitionsOK /\ FramesPerHour \in Nat
  BY Calendar DEF Typed, FilesOK
<1>3. \A k \in Int : Sealed(k) \in [Hour -> 0..FramesPerHour]
  BY SealedHours
<1>4. Refreshed(Sealed(HourIn(now))) \subseteq [Hour -> 0..FramesPerHour]
  <2> DEFINE m == (now % HourMs) \div Frame + 1
  <2>1. 1..m \subseteq 0..FramesPerHour
    BY <1>1, <1>2, OpenCandle
  <2> HIDE DEF m
  <2> DEFINE s == Sealed(HourIn(now))
  <2>2. s \in [Hour -> 0..FramesPerHour]
    BY <1>1, <1>3
  <2>3. Refreshed(s) = {[s EXCEPT ![HourIn(now)] = n] : n \in {s[HourIn(now)]} \cup 1..m}
    BY DEF Refreshed, m
  <2> HIDE DEF s
  <2>4. \A n \in {s[HourIn(now)]} \cup 1..m : n \in 0..FramesPerHour
    BY <1>1, <2>1, <2>2
  <2>5. Refreshed(s) \subseteq [Hour -> 0..FramesPerHour]
    BY <1>1, <2>2, <2>3, <2>4
  <2> QED
    BY <2>5 DEF s
<1>5. PICK hours \in Refreshed(Sealed(HourIn(now))) \cup {Sealed(k) : k \in 0..HourIn(now)} :
        hourFile' = [hourFile EXCEPT ![Today] = hours] /\ UNCHANGED dayFile
  BY DEF FetchToday
<1>6. hours \in [Hour -> 0..FramesPerHour]
  BY <1>1, <1>3, <1>4, <1>5
<1> QED
  BY <1>1, <1>2, <1>5, <1>6, HoursPut

\* What imports leave behind are files of their day.
LEMMA WrittenFiles ==
    ASSUME NEW d \in Day, NEW ok \in BOOLEAN, NEW f \in {Missing} \cup Written(d, ok)
    PROVE  f \in Files /\ f.rows \subseteq Opens(Midnight(d), Midnight(d + 1))
<1>1. Opens(Midnight(d), Midnight(d + 1)) \subseteq Int
  BY Midnights DEF Opens, Day
<1>2. ArchiveOf(d) \subseteq Opens(Midnight(d), Midnight(d + 1))
  BY DEF ArchiveOf
<1>3. f = Missing \/ f = Unreadable \/ \E s \in SUBSET ArchiveOf(d) : f = Holding(s)
  BY DEF Written
<1> QED
  BY <1>1, <1>2, <1>3 DEF Files, Missing, Unreadable, Holding

\* An import leaves such a file.
LEMMA ImportKeeps ==
    ASSUME Typed, NEW d \in Day, NEW ok \in BOOLEAN, ImportDay(d, ok)
    PROVE  PartitionsOK'
<1>1. PartitionsOK /\ UNCHANGED hourFile
  BY DEF Typed, FilesOK, ImportDay
<1>2. CASE UNCHANGED dayFile
  BY <1>1, <1>2 DEF PartitionsOK
<1>3. ASSUME NEW f \in Written(d, ok), dayFile' = [dayFile EXCEPT ![d] = f] PROVE PartitionsOK'
  BY <1>1, <1>3, WrittenFiles, DayPut
<1> QED
  BY <1>2, <1>3 DEF ImportDay

\* Other requests leave files too.
LEMMA OtherKeeps ==
    ASSUME Typed, OtherRequest
    PROVE  FileStep
<1>0. FilesOK /\ PartitionsOK
  BY DEF Typed, FilesOK
<1>1. ASSUME NEW d \in Day, NEW f \in {Missing} \cup Written(d, FALSE),
             dayFile' = [dayFile EXCEPT ![d] = f], UNCHANGED hourFile
      PROVE  PartitionsOK'
  BY <1>0, <1>1, WrittenFiles, DayPut
<1>2. ASSUME NEW d \in Day, NEW h \in Hour, NEW n \in 1..FramesPerHour,
             hourFile' = [hourFile EXCEPT ![d][h] = n], UNCHANGED dayFile
      PROVE  PartitionsOK'
  <2> DEFINE hours == [hourFile[d] EXCEPT ![h] = n]
  <2>1. hourFile' = [hourFile EXCEPT ![d] = hours]
    BY <1>2
  <2>2. n \in 0..FramesPerHour
    BY Calendar
  <2>3. hours \in [Hour -> 0..FramesPerHour]
    BY <1>0, <2>2 DEF PartitionsOK
  <2> HIDE DEF hours
  <2> QED
    BY <1>0, <1>2, <2>1, <2>3, HoursPut
<1>3. PartitionsOK'
  BY <1>1, <1>2 DEF OtherRequest
<1>4. NoteLosses /\ others' \in 0..MaxOthers
  BY <1>0, SizeAssumption DEF OtherRequest, FilesOK
<1> QED
  BY <1>0, <1>3, <1>4, FilesChange

-----------------------------------------------------------------------------
(* The semaphore, failed repairs and the answer.                            *)

\* No more places are taken than there are, and who has one is repairing that day.
PlacesOK ==
    /\ holders \subseteq Queries \X Day
    /\ IsFiniteSet(holders)
    /\ Cardinality(holders) <= Parallel
    /\ \A h \in holders : query[h[1]].pc = "repair" /\ h[2] \in query[h[1]].days

OwedTo(q) == Owed(query[q].from, query[q].to, query[q].built)

\* A failed repair is still being repaired; what is about to be read is there, or was
\* taken away; what was answered has it.
RequestOK(q) ==
    /\ query[q].failed => query[q].pc = "repair"
    /\ query[q].built <= now
    /\ query[q].pc = "read" => \A c \in OwedTo(q) : Present(c, query[q].built) \/ c \in lost[q]
    /\ query[q].pc = "answered" =>
            \A c \in OwedTo(q) :
                DayOf(c) < DayOf(query[q].built) \/ query[q].read = DayOf(query[q].built)
                    => c \in query[q].out \cup lost[q]

IInv == Typed /\ PlacesOK /\ \A q \in Queries : RequestOK(q)

\* The candles that are owed are candles of the range.
LEMMA OwedCandle ==
    ASSUME NEW from \in Nat, NEW to \in Nat, NEW built \in Time, NEW c \in Owed(from, to, built)
    PROVE  /\ c \in Int /\ from <= c /\ c < to /\ Multiple(c, Frame) /\ c + Frame <= to
           /\ c \in Opens(from, to)
           /\ DayOf(c) \in Day /\ HourIn(c) \in Hour /\ DayOf(c) <= DayOf(built)
           /\ DayOf(c) < DayOf(built)
              \/ /\ DayOf(c) = DayOf(built)
                 /\ HourIn(c) < HourIn(built)
                 /\ HourStart(DayOf(c), HourIn(c)) + HourMs <= to
<1>1. /\ c \in Opens(from, to) /\ c + Frame <= to
      /\ DayOf(c) < DayOf(built)
              \/ /\ DayOf(c) = DayOf(built)
                 /\ HourIn(c) < HourIn(built)
                 /\ HourStart(DayOf(c), HourIn(c)) + HourMs <= to
  BY DEF Owed
<1>2. c \in Int /\ from <= c /\ c < to /\ Multiple(c, Frame)
  <2>1. from \in Int /\ to \in Int
    OBVIOUS
  <2> QED
    BY <1>1, <2>1, OpensMultiple
<1>3. DayOf(built) \in Day /\ DayOf(c) \in Int
  BY <1>2, InDay, TimeParts
<1>4. DayOf(c) <= DayOf(built)
  BY <1>1, <1>3 DEF Day
<1>5. DayOf(c) >= 0
  <2>1. Midnight(0) <= c /\ 0 \in Int
    BY <1>2, Midnights
  <2> QED
    BY <1>2, <2>1, InDay
<1>6. DayOf(c) \in Day
  BY <1>3, <1>4, <1>5, Calendar DEF Day
<1> QED
  BY <1>1, <1>2, <1>4, <1>6, InHour

\* What is in the files stays there, or is taken away before one's eyes.
LEMMA PresentStays ==
    ASSUME NEW c \in Int, DayOf(c) \in Day, NEW built, Present(c, built)
    PROVE  Present(c, built)' \/ c \in Taken
<1>1. HourIn(c) \in Hour
  BY InHour
<1>2. CASE DayOf(c) < DayOf(built)
  BY <1>2 DEF Present, Taken
<1>3. CASE ~(DayOf(c) < DayOf(built))
  <2>1. c \in HourRows(DayOf(c), HourIn(c)) /\ (Present(c, built)' <=> c \in HourRows(DayOf(c), HourIn(c))')
    BY <1>3 DEF Present
  <2>2. \A d \in Day, h \in Hour : HourRows(d, h) \ HourRows(d, h)' \subseteq Taken
    <3> DEFINE Gone(d, h) == HourRows(d, h) \ HourRows(d, h)'
    <3>1. UNION {Gone(d, h) : d \in Day, h \in Hour} \subseteq Taken
      BY DEF Taken
    <3>2. ASSUME NEW d \in Day, NEW h \in Hour
          PROVE  Gone(d, h) \in {Gone(e, g) : e \in Day, g \in Hour}
      OBVIOUS
    <3> HIDE DEF Gone
    <3>3. \A d \in Day, h \in Hour : Gone(d, h) \subseteq Taken
      BY <3>1, <3>2
    <3> QED
      BY <3>3 DEF Gone
  <2>3. HourRows(DayOf(c), HourIn(c)) \ HourRows(DayOf(c), HourIn(c))' \subseteq Taken
    BY <1>1, <2>2 DEF HourRows, RowsAsOf
  <2> QED
    BY <2>1, <2>3
<1> QED
  BY <1>2, <1>3

\* Two states of a request that differ in neither its phase nor its question and answer.
Alike(r, s) ==
    /\ r.pc = s.pc /\ r.failed = s.failed /\ r.built = s.built
    /\ r.from = s.from /\ r.to = s.to /\ r.out = s.out /\ r.read = s.read

\* A request that a step leaves alone, or only cancels, stays in order.
LEMMA StaysOK ==
    ASSUME Typed, FileStep, NEW q \in Queries, RequestOK(q), Alike(query'[q], query[q]),
           now' \in Time, now <= now'
    PROVE  RequestOK(q)'
<1>1. query[q] \in Requests /\ now \in Nat /\ now' \in Nat
  BY TimeParts DEF Typed
<1>2. query[q].built \in Nat /\ query[q].built \in Time /\ query[q].from \in Nat /\ query[q].to \in Nat
  BY <1>1, TimeParts DEF Requests
<1>3. OwedTo(q)' = OwedTo(q)
  BY DEF OwedTo, Owed, Alike
<1>4. ASSUME query[q].pc = "read", NEW c \in OwedTo(q)
      PROVE  Present(c, query[q].built)' \/ c \in lost'[q]
  <2>1. Present(c, query[q].built) \/ c \in lost[q]
    BY <1>4 DEF RequestOK
  <2>2. c \in Int /\ DayOf(c) \in Day
    BY <1>2, OwedCandle DEF OwedTo
  <2>3. \A b \in Time : Present(c, b) => Present(c, b)' \/ c \in Taken
    BY <2>2, PresentStays
  <2>4. query'[q].built = query[q].built
    BY DEF Alike
  <2>5. lost[q] \subseteq lost'[q] /\ Taken \subseteq lost'[q]
    BY <1>4 DEF FileStep, Remembered
  <2> QED
    BY <1>2, <2>1, <2>3, <2>4, <2>5 DEF Present
<1>5. query'[q].built <= now'
  BY <1>1, <1>2 DEF RequestOK, Alike
<1>6. query[q].pc = "answered" => lost[q] \subseteq lost'[q]
  BY DEF FileStep, Remembered
<1> QED
  BY <1>3, <1>4, <1>5, <1>6 DEF RequestOK, Alike

-----------------------------------------------------------------------------
(* The audits.                                                              *)

\* Rounding down to a candle rounds down.
LEMMA AlignedBelow ==
    ASSUME NEW t \in Int
    PROVE  Aligned(t) \in Int /\ Aligned(t) <= t
<1>1. Frame \in Nat /\ Frame > 0
  BY Calendar
<1>2. t = (t \div Frame) * Frame + (t % Frame) /\ t \div Frame \in Int /\ t % Frame \in Nat
  BY <1>1, Euclid, DivInt
<1>3. (t \div Frame) * Frame \in Int
  BY <1>1, <1>2
<1> QED
  BY <1>2, <1>3 DEF Aligned

\* A target that is checked reports each candle it lacks.
LEMMA LacksIsIssue ==
    ASSUME NEW us, NEW u \in us, u.check, u.from \in Int, u.to \in Int, NEW c \in Int,
           Multiple(c, Frame), u.from <= c, c + Frame <= u.to, c \notin Rows(u)
    PROVE  Issue("missing_interval", c) \in Audit(us)
<1>1. Frame \in Nat /\ Frame > 0
  BY Calendar
<1>2. Aligned(u.from) \in Int /\ Aligned(u.from) <= c /\ c < u.to
  BY <1>1, AlignedBelow
<1>3. c \in Opens(Aligned(u.from), u.to)
  BY <1>2, OpensMultiple
<1>4. Issue("missing_interval", c) \in MissingIntervals(u)
  BY <1>3 DEF MissingIntervals
<1> QED
  BY <1>4 DEF Audit

\* The audit of a request's targets reports each candle that is owed and not there.
LEMMA AuditVouches ==
    ASSUME NEW from \in Nat, NEW to \in Nat, NEW built \in Time, NEW c \in Owed(from, to, built)
    PROVE  Present(c, built) \/ Issue("missing_interval", c) \in Audit(Targets(from, to, built))
<1> DEFINE d == DayOf(c)
           h == HourIn(c)
           t == DayOf(built)
<1>1. /\ c \in Int /\ from <= c /\ c < to /\ Multiple(c, Frame) /\ c + Frame <= to
      /\ d \in Day /\ h \in Hour /\ d <= t
      /\ d < t \/ (d = t /\ h < HourIn(built) /\ HourStart(d, h) + HourMs <= to)
  BY OwedCandle
<1>2. Frame \in Nat /\ Frame > 0 /\ HourMs \in Nat /\ d \in Int /\ h \in Int /\ t \in Int /\ built \in Int
      /\ HourIn(built) \in Int /\ from \in Int /\ to \in Int
  <2>1. Frame \in Nat /\ Frame > 0 /\ HourMs \in Nat
    BY Calendar
  <2>2. built \in Int
    BY TimeParts
  <2> QED
    BY <1>1, <2>1, <2>2, InDay, InHour DEF Hour
<1>3. DayOf(from) <= d /\ d <= DayOf(to)
  BY <1>1, <1>2, DayGrows
<1>4. CASE d < t
  <2> DEFINE u == DayTarget(d, from, to)
  <2>1. u \in Targets(from, to, built)
    BY <1>1, <1>2, <1>3, <1>4 DEF Targets, DaysAsked
  <2>2. /\ u.check /\ u.hour = WholeDay /\ u.day = d
        /\ u.from = Greatest(from, Midnight(d)) /\ u.to = Least(to, Midnight(d + 1))
    BY DEF DayTarget, Target
  <2>3. Midnight(d) \in Int /\ Midnight(d + 1) \in Int /\ Midnight(d) <= c /\ c < Midnight(d + 1)
        /\ Multiple(Midnight(d + 1), Frame)
    <3>1. d + 1 \in Int
      BY <1>2
    <3>2. /\ Midnight(d) \in Int /\ Midnight(d + 1) \in Int /\ Midnight(d + 1) = Midnight(d) + DayMs
          /\ Multiple(Midnight(d + 1), Frame)
      BY <1>2, <3>1, Midnights
    <3> QED
      BY <1>1, <3>2, InDay
  <2>4. c + Frame <= Midnight(d + 1)
    BY <1>1, <1>2, <2>3, MultipleApart
  <2>5. u.from \in Int /\ u.to \in Int /\ u.from <= c /\ c + Frame <= u.to
    BY <1>1, <1>2, <2>2, <2>3, <2>4 DEF Greatest, Least
  <2>6. Rows(u) = dayFile[d].rows
    BY <2>2 DEF Rows
  <2> HIDE DEF u
  <2>7. c \in Rows(u) \/ Issue("missing_interval", c) \in Audit(Targets(from, to, built))
    BY <1>1, <2>1, <2>2, <2>5, LacksIsIssue
  <2> QED
    BY <1>4, <2>6, <2>7 DEF Present
<1>5. CASE ~(d < t)
  <2> DEFINE u == HourTarget(d, h, from, to, built)
             s == HourStart(d, h)
  <2>0. d = t /\ h < HourIn(built) /\ s + HourMs <= to
    BY <1>1, <1>5
  <2>1. h \in HoursAsked(d, from, to, built)
    <3>1. DayOf(from) = t => HourIn(from) <= h
      <4>1. ASSUME DayOf(from) = t PROVE HourIn(from) <= h
        <5>1. HourIn(from) \in Hour /\ HourStart(d, HourIn(from)) <= from
          BY <1>2, <2>0, <4>1, InHour
        <5>2. HourStart(d, HourIn(from)) <= c
          <6>1. HourStart(d, HourIn(from)) \in Int
            BY <1>2, <5>1, Hours DEF Hour
          <6> QED
            BY <1>1, <1>2, <5>1, <6>1
        <5> QED
          BY <1>1, <5>1, <5>2, InHour
      <4> QED
        BY <4>1
    <3>2. DayOf(to) = t => h <= HourIn(to)
      <4>1. ASSUME DayOf(to) = t PROVE h <= HourIn(to)
        <5>1. s \in Int /\ s <= c
          BY <1>1, <1>2, InHour, Hours
        <5>2. s <= to
          BY <1>1, <1>2, <5>1
        <5> QED
          BY <1>1, <1>2, <2>0, <4>1, <5>2, InHour
      <4> QED
        BY <4>1
    <3> QED
      BY <1>1, <1>2, <2>0, <3>1, <3>2 DEF HoursAsked
  <2>2. u \in Targets(from, to, built)
    <3>1. d \in {e \in DaysAsked(from, to) : DayOf(built) <= e}
      BY <1>1, <1>2, <1>3, <2>0 DEF DaysAsked
    <3> QED
      BY <2>1, <3>1 DEF Targets
  <2>3. /\ u.check /\ u.hour = h /\ u.day = d /\ u.file = d
        /\ u.from = Greatest(from, s) /\ u.to = Least(to, s + HourMs)
    BY <2>0 DEF HourTarget, Target
  <2>4. s \in Int /\ Multiple(s + HourMs, Frame) /\ s <= c /\ c < s + HourMs
    <3>1. s \in Int /\ Multiple(s, Frame) /\ Multiple(HourMs, Frame)
      BY <1>2, Hours
    <3>2. s <= c /\ c < s + HourMs
      BY <1>1, InHour
    <3> QED
      BY <1>2, <3>1, <3>2, MultipleSum
  <2>5. c + Frame <= s + HourMs
    <3>1. s + HourMs \in Int
      BY <1>2, <2>4
    <3> QED
      BY <1>1, <1>2, <2>4, <3>1, MultipleApart
  <2>6. u.from \in Int /\ u.to \in Int /\ u.from <= c /\ c + Frame <= u.to
    BY <1>1, <1>2, <2>3, <2>4, <2>5 DEF Greatest, Least
  <2>7. Rows(u) = HourRows(d, h)
    <3>1. h # WholeDay
      BY <1>1 DEF Hour, WholeDay
    <3> QED
      BY <2>3, <3>1 DEF Rows, HourRows
  <2> HIDE DEF u, s
  <2>8. c \in Rows(u) \/ Issue("missing_interval", c) \in Audit(Targets(from, to, built))
    BY <1>1, <2>2, <2>3, <2>6, LacksIsIssue
  <2> QED
    BY <1>5, <2>7, <2>8 DEF Present
<1> QED
  BY <1>4, <1>5

\* Targets are of days of the calendar.
LEMMA TargetDays ==
    ASSUME NEW from, NEW to, NEW built \in Time
    PROVE  \A u \in Targets(from, to, built) : u.day \in Day
  BY DEF Targets, DaysAsked, DayTarget, HourTarget, Target

-----------------------------------------------------------------------------
(* The steps of a request.                                                  *)

\* The invariant holds at the start.
LEMMA InitIInv ==
    Init => IInv
<1> SUFFICES ASSUME Init PROVE IInv
  OBVIOUS
<1>1. Typed
  BY InitTyped
<1>2. PlacesOK
  <2>1. Parallel \in Nat
    BY SizeAssumption
  <2> QED
    BY <2>1, FS_EmptySet DEF Init, PlacesOK
<1>3. ASSUME NEW q \in Queries PROVE RequestOK(q)
  <2>1. now \in Nat
    BY <1>1, TimeParts DEF Typed
  <2>2. query[q] = NoQuery
    BY DEF Init
  <2> QED
    BY <2>1, <2>2 DEF RequestOK, NoQuery
<1> QED
  BY <1>1, <1>2, <1>3 DEF IInv

\* A step after which request q is r, and the others are as they were.
LEMMA Moves ==
    ASSUME IInv, FileStep, NEW q \in Queries, NEW r \in Requests,
           query' = [query EXCEPT ![q] = r], UNCHANGED <<now, archive>>,
           PlacesOK', RequestOK(q)'
    PROVE  IInv'
<1>1. query' \in [Queries -> Requests] /\ query'[q] = r /\ \A p \in Queries \ {q} : query'[p] = query[p]
  BY DEF IInv, Typed
<1>2. Typed'
  BY <1>1 DEF IInv, Typed, FileStep
<1>3. now' \in Time /\ now <= now'
  BY TimeParts DEF IInv, Typed
<1>4. ASSUME NEW p \in Queries \ {q} PROVE RequestOK(p)'
  <2>1. Alike(query'[p], query[p])
    BY <1>1 DEF Alike
  <2> QED
    BY <1>3, <2>1, StaysOK DEF IInv
<1> QED
  BY <1>2, <1>4 DEF IInv

\* A step of a request that leaves the semaphore alone.
LEMMA PlacesAlone ==
    ASSUME IInv, NEW q \in Queries, NEW r \in Requests,
           query' = [query EXCEPT ![q] = r], UNCHANGED holders,
           \A d \in Day : <<q, d>> \in holders => r.pc = "repair" /\ d \in r.days
    PROVE  PlacesOK'
<1>1. query'[q] = r /\ \A p \in Queries \ {q} : query'[p] = query[p]
  BY DEF IInv, Typed
<1>2. ASSUME NEW h \in holders PROVE query'[h[1]].pc = "repair" /\ h[2] \in query'[h[1]].days
  <2>1. h \in Queries \X Day /\ query[h[1]].pc = "repair" /\ h[2] \in query[h[1]].days
    BY DEF IInv, PlacesOK
  <2>2. h[1] \in Queries /\ h[2] \in Day /\ h = <<h[1], h[2]>>
    BY <2>1
  <2>3. CASE h[1] = q
    <3>1. <<q, h[2]>> \in holders
      BY <2>2, <2>3
    <3> QED
      BY <1>1, <2>2, <2>3, <3>1
  <2>4. CASE h[1] # q
    BY <1>1, <2>1, <2>2, <2>4
  <2> QED
    BY <2>3, <2>4
<1> QED
  BY <1>2 DEF IInv, PlacesOK

\* Only a request that is repairing has places.
LEMMA NoPlaces ==
    ASSUME IInv, NEW q \in Queries, query[q].pc # "repair"
    PROVE  \A d \in Day : <<q, d>> \notin holders
  BY DEF IInv, PlacesOK

\* A request has a type.
LEMMA RequestTyped ==
    ASSUME IInv, NEW q \in Queries
    PROVE  /\ query[q] \in Requests
           /\ query[q].pc \in Phases /\ query[q].from \in Nat /\ query[q].to \in Nat
           /\ query[q].days \subseteq Day /\ query[q].own \subseteq Day /\ query[q].built \in Time
           /\ query[q].failed \in BOOLEAN /\ query[q].read \in Day
           /\ RequestOK(q)
           /\ FilesOK /\ now \in Time /\ now \in Nat /\ query[q].built \in Nat
<1>1. query[q] \in Requests /\ now \in Time /\ FilesOK /\ RequestOK(q)
  BY DEF IInv, Typed
<1>2. query[q].built \in Time
  BY <1>1 DEF Requests
<1>3. now \in Nat /\ query[q].built \in Nat
  BY <1>1, <1>2, TimeParts
<1> QED
  BY <1>1, <1>2, <1>3 DEF Requests

\* A step to a phase in which nothing is owed yet.
LEMMA PlainMove ==
    ASSUME IInv, FileStep, NEW q \in Queries, NEW r \in Requests,
           query' = [query EXCEPT ![q] = r], UNCHANGED <<now, archive, holders>>,
           \A d \in Day : <<q, d>> \in holders => r.pc = "repair" /\ d \in r.days,
           r.pc \notin {"read", "answered"}, r.failed => r.pc = "repair", r.built <= now
    PROVE  IInv'
<1>1. query'[q] = r
  BY DEF IInv, Typed
<1>2. RequestOK(q)'
  BY <1>1 DEF RequestOK
<1>3. PlacesOK'
  BY PlacesAlone
<1> QED
  BY <1>2, <1>3, Moves

\* A request that ends.
LEMMA FailMove ==
    ASSUME IInv, NEW q \in Queries, Fail(q), UNCHANGED <<now, archive, dayFile, hourFile, holders, others, lost>>,
           \A d \in Day : <<q, d>> \notin holders
    PROVE  IInv'
<1> DEFINE r == [NoQuery EXCEPT !.pc = "over"]
<1>1. r \in Requests /\ r.pc = "over" /\ ~r.failed /\ r.built = 0
  BY TimeParts DEF NoQuery, Requests, Phases
<1>2. query' = [query EXCEPT ![q] = r]
  BY DEF Fail
<1> HIDE DEF r
<1>3. r.built <= now /\ FilesOK
  BY <1>1, RequestTyped
<1>4. FileStep
  BY <1>3, FilesAlone
<1> QED
  BY <1>1, <1>2, <1>3, <1>4, PlainMove

\* A step to another phase, in which nothing is owed yet.
LEMMA GotoMove ==
    ASSUME IInv, NEW q \in Queries, NEW s \in Phases \ {"read", "answered", "repair"}, Goto(q, s),
           UNCHANGED <<now, archive, dayFile, hourFile, holders, others, lost>>, ~query[q].failed,
           \A d \in Day : <<q, d>> \notin holders
    PROVE  IInv'
<1> DEFINE r == [query[q] EXCEPT !.pc = s]
<1>1. query[q] \in Requests /\ FilesOK /\ query[q].built <= now
  BY RequestTyped DEF RequestOK
<1>2. r \in Requests /\ r.pc = s /\ r.failed = query[q].failed /\ r.built = query[q].built
  BY <1>1 DEF Requests
<1>3. query' = [query EXCEPT ![q] = r]
  BY DEF Goto
<1>4. FileStep
  BY <1>1, FilesAlone
<1> HIDE DEF r
<1> QED
  BY <1>1, <1>2, <1>3, <1>4, PlainMove

\* A step to the read, when everything owed is there.
LEMMA ReadMove ==
    ASSUME IInv, NEW q \in Queries, Goto(q, "read"),
           UNCHANGED <<now, archive, dayFile, hourFile, holders, others, lost>>, ~query[q].failed,
           \A d \in Day : <<q, d>> \notin holders,
           \A c \in OwedTo(q) : Present(c, query[q].built)
    PROVE  IInv'
<1> DEFINE r == [query[q] EXCEPT !.pc = "read"]
<1>1. query[q] \in Requests /\ FilesOK /\ query[q].built <= now /\ now \in Nat
  BY RequestTyped DEF RequestOK
<1>2. /\ r \in Requests /\ r.pc = "read" /\ r.failed = query[q].failed /\ r.built = query[q].built
      /\ r.from = query[q].from /\ r.to = query[q].to
  BY <1>1 DEF Requests, Phases
<1>3. query' = [query EXCEPT ![q] = r]
  BY DEF Goto
<1>4. query'[q] = r
  BY <1>3 DEF IInv, Typed
<1>5. FileStep
  BY <1>1, FilesAlone
<1> HIDE DEF r
<1>6. OwedTo(q)' = OwedTo(q)
  BY <1>2, <1>4 DEF OwedTo, Owed
<1>7. \A c \in OwedTo(q)' : Present(c, query[q].built)'
  BY <1>2, <1>4, <1>6 DEF Present, HourRows, RowsAsOf
<1>8. RequestOK(q)'
  BY <1>1, <1>2, <1>4, <1>7 DEF RequestOK
<1>9. PlacesOK'
  BY <1>2, <1>3, PlacesAlone
<1> QED
  BY <1>2, <1>3, <1>5, <1>8, <1>9, Moves

\* What is owed and there is in the answer, as long as its partition is read.
LEMMA AnswerHas ==
    ASSUME Typed, NEW from \in Nat, NEW to \in Nat, NEW built \in Time, built <= now,
           NEW c \in Owed(from, to, built), Present(c, built),
           DayOf(c) < DayOf(built) \/ Today = DayOf(built)
    PROVE  c \in AnswerNow(from, to)
<1>1. /\ c \in Int /\ from <= c /\ c < to /\ DayOf(c) \in Day /\ HourIn(c) \in Hour
      /\ DayOf(c) <= DayOf(built)
      /\ (DayOf(c) < DayOf(built) \/ DayOf(c) = DayOf(built))
  BY OwedCandle
<1>2. /\ now \in Int /\ built \in Int /\ DayOf(built) \in Day /\ Today \in Day
      /\ DayOf(built) <= Today
  BY TimeParts, DayGrows DEF Typed, Today
<1>3. DayOf(c) \in Int /\ Today \in Int /\ DayOf(built) \in Int
  BY <1>1, <1>2 DEF Day
<1>4. Midnight(Today) \in Int /\ Midnight(DayOf(c)) <= c
  BY <1>1, <1>3, InDay, Midnights
<1>5. CASE DayOf(c) < DayOf(built)
  <2>1. c \in dayFile[DayOf(c)].rows
    BY <1>5 DEF Present
  <2>2. c \in DailyRows
    BY <1>1, <2>1 DEF DailyRows
  <2>3. c < Midnight(Today)
    <3>1. DayOf(c) < Today
      BY <1>2, <1>3, <1>5
    <3>2. Midnight(DayOf(c)) + DayMs <= Midnight(Today) /\ Midnight(DayOf(c)) \in Int
      BY <1>3, <3>1, Midnights
    <3> QED
      BY <1>1, <1>4, <3>2, InDay, Calendar
  <2> QED
    BY <1>1, <2>2, <2>3 DEF AnswerNow, Least
<1>6. CASE ~(DayOf(c) < DayOf(built))
  <2>1. DayOf(c) = Today
    BY <1>1, <1>3, <1>6
  <2>2. c \in HourRows(Today, HourIn(c))
    BY <1>6, <2>1 DEF Present
  <2>3. c \in TodayRows
    BY <1>1, <2>2 DEF TodayRows
  <2>4. Midnight(Today) <= c /\ Midnight(Today) < to
    BY <1>1, <1>4, <2>1
  <2>5. c < QueryEnd(to)
    <3>1. Frame \in Nat
      BY Calendar
    <3> QED
      BY <1>1, <1>2, <3>1 DEF QueryEnd, Greatest
  <2> QED
    BY <1>1, <2>3, <2>4, <2>5 DEF AnswerNow, Greatest
<1> QED
  BY <1>5, <1>6

\* Reading the answer.
LEMMA ReadAnswerKeeps ==
    ASSUME IInv, NEW q \in Queries, ReadAnswer(q)
    PROVE  IInv'
<1>0. \A d \in Day : <<q, d>> \notin holders
  BY NoPlaces DEF ReadAnswer
<1>1. CASE Fail(q)
  BY <1>0, <1>1, FailMove DEF ReadAnswer
<1>2. ASSUME query' = [query EXCEPT
                ![q].pc = "answered", ![q].read = Today,
                ![q].out = AnswerNow(query[q].from, query[q].to)]
      PROVE  IInv'
  <2> DEFINE a == AnswerNow(query[q].from, query[q].to)
             r == [query[q] EXCEPT !.pc = "answered", !.read = Today, !.out = a]
  <2>1. /\ query[q] \in Requests /\ FilesOK /\ query[q].built <= now /\ now \in Nat /\ ~query[q].failed
        /\ query[q].from \in Nat /\ query[q].to \in Nat /\ query[q].built \in Time
        /\ \A c \in OwedTo(q) : Present(c, query[q].built) \/ c \in lost[q]
    BY RequestTyped DEF RequestOK, ReadAnswer
  <2>2. UNCHANGED <<now, archive, dayFile, hourFile, holders, others, lost>>
    BY DEF ReadAnswer
  <2>3. a \subseteq Int
    <3>1. DailyRows \subseteq Int
      BY <2>1 DEF FilesOK, PartitionsOK, DailyRows, Files
    <3>2. Today \in Int
      BY InDay, TimeParts DEF IInv, Typed, Today
    <3>3. \A h \in Hour : HourStart(Today, h) \in Int
      BY <3>2, Hours DEF Hour
    <3>4. Frame \in Int
      BY Calendar
    <3>5. \A h \in Hour : HourRows(Today, h) \subseteq Int
      <4> SUFFICES ASSUME NEW h \in Hour, NEW x \in HourRows(Today, h) PROVE x \in Int
        OBVIOUS
      <4>1. PICK i \in 0..(hourFile[Today][h] - 1) : x = HourStart(Today, h) + i * Frame
        BY DEF HourRows, RowsAsOf
      <4> QED
        BY <3>3, <3>4, <4>1
    <3>6. TodayRows \subseteq Int
      BY <3>5 DEF TodayRows
    <3> QED
      BY <3>1, <3>6 DEF AnswerNow
  <2>4. Today \in Day /\ Typed
    BY TimeParts DEF IInv, Typed, Today
  <2> DEFINE b == query[q].built
  <2>5. \A c \in OwedTo(q) : DayOf(c) < DayOf(b) \/ Today = DayOf(b) => c \in a \cup lost[q]
    BY <2>1, <2>4, AnswerHas DEF OwedTo
  <2> HIDE DEF a
  <2>6. /\ r \in Requests /\ r.pc = "answered" /\ ~r.failed /\ r.built = query[q].built
        /\ r.from = query[q].from /\ r.to = query[q].to /\ r.read = Today /\ r.out = a
    BY <2>1, <2>3, <2>4 DEF Requests, Phases
  <2>7. query' = [query EXCEPT ![q] = r]
    BY <1>2 DEF a
  <2> HIDE DEF r
  <2>8. query'[q] = r
    BY <2>7 DEF IInv, Typed
  <2>9. FileStep
    BY <2>1, <2>2, FilesAlone
  <2>10. OwedTo(q)' = OwedTo(q)
    BY <2>6, <2>8 DEF OwedTo, Owed
  <2>11. RequestOK(q)'
    BY <2>1, <2>2, <2>5, <2>6, <2>8, <2>10 DEF RequestOK
  <2>12. PlacesOK'
    BY <1>0, <2>2, <2>6, <2>7, PlacesAlone
  <2> QED
    BY <2>2, <2>6, <2>7, <2>9, <2>11, <2>12, Moves
<1> QED
  BY <1>1, <1>2 DEF ReadAnswer

\* A new request.
LEMMA ArriveKeeps ==
    ASSUME IInv, NEW q \in Queries, Arrive(q)
    PROVE  IInv'
<1>1. PICK r \in Ranges :
        query' = [query EXCEPT ![q] = [NoQuery EXCEPT
                        !.pc = "load", !.from = r[1], !.to = r[2],
                        !.days = BulkDays(r[1], r[2])]]
  BY DEF Arrive
<1> DEFINE s == [NoQuery EXCEPT !.pc = "load", !.from = r[1], !.to = r[2],
                        !.days = BulkDays(r[1], r[2])]
<1>2. r[1] \in Nat /\ r[2] \in Nat
  BY RangeAssumption
<1>3. BulkDays(r[1], r[2]) \subseteq Day
  BY DEF BulkDays
<1>4. s \in Requests /\ s.pc = "load" /\ ~s.failed /\ s.built = 0
  BY <1>2, <1>3, TimeParts DEF NoQuery, Requests, Phases
<1>5. \A d \in Day : <<q, d>> \notin holders
  BY NoPlaces DEF Arrive
<1>6. FilesOK /\ 0 <= now
  BY RequestTyped
<1>7. FileStep
  BY <1>6, FilesAlone DEF Arrive
<1>8. UNCHANGED <<now, archive, holders>>
  BY DEF Arrive
<1> HIDE DEF s
<1>9. query' = [query EXCEPT ![q] = s]
  BY <1>1 DEF s
<1> QED
  BY <1>4, <1>5, <1>6, <1>7, <1>8, <1>9, PlainMove

\* The client disconnects.
LEMMA DisconnectKeeps ==
    ASSUME IInv, NEW q \in Queries, Disconnect(q)
    PROVE  IInv'
<1> DEFINE r == [query[q] EXCEPT !.gone = TRUE]
<1>1. query[q] \in Requests /\ FilesOK /\ now \in Time /\ now \in Nat /\ RequestOK(q) /\ Typed
  BY RequestTyped DEF IInv
<1>2. query' = [query EXCEPT ![q] = r] /\ UNCHANGED <<now, archive, dayFile, hourFile, holders, others, lost>>
  BY DEF Disconnect
<1>3. r \in Requests /\ Alike(r, query[q]) /\ r.days = query[q].days
  BY <1>1 DEF Requests, Alike
<1> HIDE DEF r
<1>4. query'[q] = r
  BY <1>2 DEF IInv, Typed
<1>5. FileStep
  BY <1>1, <1>2, FilesAlone
<1>6. RequestOK(q)'
  BY <1>1, <1>2, <1>3, <1>4, <1>5, StaysOK
<1>7. PlacesOK'
  <2>1. \A d \in Day : <<q, d>> \in holders => r.pc = "repair" /\ d \in r.days
    BY <1>3 DEF IInv, PlacesOK, Alike
  <2> QED
    BY <1>2, <1>3, <2>1, PlacesAlone
<1> QED
  BY <1>2, <1>3, <1>5, <1>6, <1>7, Moves

\* A day of the load ends.
LEMMA LoadDayKeeps ==
    ASSUME IInv, NEW q \in Queries, LoadDay(q)
    PROVE  IInv'
<1>1. PICK d \in query[q].days, ok \in BOOLEAN :
        /\ \/ FetchToday(ok)
           \/ ImportDay(d, ok)
        /\ query' = [query EXCEPT ![q].days = IF ok THEN @ \ {d} ELSE {}]
  BY DEF LoadDay
<1> DEFINE e == IF ok THEN query[q].days \ {d} ELSE {}
           r == [query[q] EXCEPT !.days = e]
<1>2. /\ query[q] \in Requests /\ query[q].pc = "load" /\ ~query[q].failed /\ query[q].built <= now
      /\ query[q].days \subseteq Day /\ Typed
  BY RequestTyped DEF RequestOK, LoadDay, IInv
<1>3. e \subseteq Day
  BY <1>2
<1>4. query' = [query EXCEPT ![q] = r]
  BY <1>1, <1>2 DEF IInv, Typed
<1> HIDE DEF e
<1>5. r \in Requests /\ r.pc = "load" /\ ~r.failed /\ r.built = query[q].built
  BY <1>2, <1>3 DEF Requests
<1>6. FileStep
  <2>1. PartitionsOK'
    BY <1>1, <1>2, FetchKeeps, ImportKeeps
  <2>2. FilesOK /\ NoteLosses /\ UNCHANGED others
    BY <1>2 DEF Typed, LoadDay
  <2> QED
    BY <2>1, <2>2, FilesChange DEF FilesOK
<1>7. \A x \in Day : <<q, x>> \notin holders
  BY <1>2, NoPlaces
<1>8. UNCHANGED <<now, archive, holders>>
  BY DEF LoadDay
<1> HIDE DEF r
<1> QED
  BY <1>2, <1>4, <1>5, <1>6, <1>7, <1>8, PlainMove

\* The days of a cancelled load are dropped.
LEMMA LoadCancelledKeeps ==
    ASSUME IInv, NEW q \in Queries, LoadCancelled(q)
    PROVE  IInv'
<1> DEFINE r == [query[q] EXCEPT !.days = {}]
<1>1. query[q] \in Requests /\ query[q].pc = "load" /\ ~query[q].failed /\ query[q].built <= now /\ FilesOK
  BY RequestTyped DEF RequestOK, LoadCancelled
<1>2. query' = [query EXCEPT ![q] = r] /\ UNCHANGED <<now, archive, dayFile, hourFile, holders, others, lost>>
  BY DEF LoadCancelled
<1>3. r \in Requests /\ r.pc = "load" /\ ~r.failed /\ r.built = query[q].built
  BY <1>1 DEF Requests
<1>4. FileStep /\ \A x \in Day : <<q, x>> \notin holders
  BY <1>1, <1>2, FilesAlone, NoPlaces
<1> HIDE DEF r
<1> QED
  BY <1>1, <1>2, <1>3, <1>4, PlainMove

\* The targets are fixed.
LEMMA BuildTargetsKeeps ==
    ASSUME IInv, NEW q \in Queries, BuildTargets(q)
    PROVE  IInv'
<1> DEFINE r == [query[q] EXCEPT !.built = now, !.pc = "audit"]
<1>1. /\ query[q] \in Requests /\ query[q].pc = "load" /\ ~query[q].failed /\ FilesOK
      /\ now \in Time /\ now \in Nat
  BY RequestTyped DEF RequestOK, BuildTargets
<1>2. query' = [query EXCEPT ![q] = r] /\ UNCHANGED <<now, archive, dayFile, hourFile, holders, others, lost>>
  BY DEF BuildTargets
<1>3. r \in Requests /\ r.pc = "audit" /\ ~r.failed /\ r.built = now
  BY <1>1 DEF Requests, Phases
<1>4. FileStep /\ \A x \in Day : <<q, x>> \notin holders
  BY <1>1, <1>2, FilesAlone, NoPlaces
<1>5. r.built <= now
  BY <1>1, <1>3
<1> HIDE DEF r
<1> QED
  BY <1>2, <1>3, <1>4, <1>5, PlainMove

\* Repair starts with days of the calendar.
LEMMA StartRepairKeeps ==
    ASSUME IInv, NEW q \in Queries, NEW is, query[q].pc = "audit", StartRepair(q, TargetsOf(q), is),
           UNCHANGED <<now, archive, dayFile, hourFile, holders, others, lost>>
    PROVE  IInv'
<1> DEFINE us == TargetsOf(q)
           ts == TargetsForIssues(us, is)
           days == {u.day : u \in ts}
           own == {u.day : u \in {v \in ts : Affected(v, is)}}
           r == [query[q] EXCEPT !.pc = "repair", !.days = days, !.own = own]
<1>1. query[q] \in Requests /\ ~query[q].failed /\ query[q].built <= now /\ query[q].built \in Time /\ FilesOK
  BY RequestTyped DEF RequestOK
<1>2. query' = [query EXCEPT ![q] = r]
  BY DEF StartRepair
<1>3. \A u \in us : u.day \in Day
  BY <1>1, TargetDays DEF TargetsOf
<1>4. ts \subseteq us
  BY DEF TargetsForIssues
<1> HIDE DEF us, ts
<1>5. days \subseteq Day /\ own \subseteq Day
  BY <1>3, <1>4
<1> HIDE DEF days, own
<1>6. r \in Requests /\ r.pc = "repair" /\ ~r.failed /\ r.built = query[q].built
  BY <1>1, <1>5 DEF Requests, Phases
<1>7. FileStep /\ \A x \in Day : <<q, x>> \notin holders
  BY <1>1, FilesAlone, NoPlaces
<1> HIDE DEF r
<1> QED
  BY <1>1, <1>2, <1>6, <1>7, PlainMove

\* The first audit.
LEMMA FirstAuditKeeps ==
    ASSUME IInv, NEW q \in Queries, FirstAudit(q)
    PROVE  IInv'
<1>1. /\ query[q].pc = "audit" /\ UNCHANGED <<now, archive, dayFile, hourFile, holders, others, lost>>
      /\ ~query[q].failed /\ query[q].built \in Time /\ query[q].from \in Nat /\ query[q].to \in Nat
  BY RequestTyped DEF RequestOK, FirstAudit
<1>2. \A x \in Day : <<q, x>> \notin holders
  BY <1>1, NoPlaces
<1>3. CASE Fail(q)
  BY <1>1, <1>2, <1>3, FailMove
<1>4. CASE Goto(q, "stopped")
  BY <1>1, <1>2, <1>4, GotoMove DEF Phases
<1>5. CASE StartRepair(q, TargetsOf(q), Audit(TargetsOf(q)))
  BY <1>1, <1>5, StartRepairKeeps
<1>6. ASSUME Audit(TargetsOf(q)) = {}, Goto(q, "read") PROVE IInv'
  <2>1. \A c \in OwedTo(q) : Present(c, query[q].built)
    BY <1>1, <1>6, AuditVouches DEF TargetsOf, OwedTo
  <2> QED
    BY <1>1, <1>2, <1>6, <2>1, ReadMove
<1> QED
  BY <1>3, <1>4, <1>5, <1>6 DEF FirstAudit

\* The second audit.
LEMMA SecondAuditKeeps ==
    ASSUME IInv, NEW q \in Queries, SecondAudit(q)
    PROVE  IInv'
<1> DEFINE is == Audit(TargetsOf(q))
<1>1. /\ query[q].pc = "reaudit" /\ UNCHANGED <<now, archive, dayFile, hourFile, holders, others, lost>>
      /\ ~query[q].failed /\ query[q].built \in Time /\ query[q].from \in Nat /\ query[q].to \in Nat
  BY RequestTyped DEF RequestOK, SecondAudit
<1>2. \A x \in Day : <<q, x>> \notin holders
  BY <1>1, NoPlaces
<1>3. CASE Fail(q)
  BY <1>1, <1>2, <1>3, FailMove
<1>4. ASSUME ~\E i \in is : BlocksRead(i) /\ AffectsRange(i, query[q].from, query[q].to), Goto(q, "read")
      PROVE  IInv'
  <2>1. ASSUME NEW c \in OwedTo(q) PROVE Present(c, query[q].built)
    <3>1. c \in Int /\ query[q].from <= c /\ c < query[q].to
      BY <1>1, OwedCandle DEF OwedTo
    <3> DEFINE i == Issue("missing_interval", c)
    <3>2. BlocksRead(i) /\ AffectsRange(i, query[q].from, query[q].to)
      BY <3>1 DEF BlocksRead, AffectsRange, Issue
    <3>3. i \notin is
      BY <1>4, <3>2
    <3> HIDE DEF i
    <3>4. Present(c, query[q].built) \/ i \in is
      BY <1>1, AuditVouches DEF TargetsOf, OwedTo, i
    <3> QED
      BY <3>3, <3>4
  <2> QED
    BY <1>1, <1>2, <1>4, <2>1, ReadMove
<1> QED
  BY <1>3, <1>4 DEF SecondAudit

\* A day's goroutine takes a place.
LEMMA AcquireKeeps ==
    ASSUME IInv, NEW q \in Queries, NEW d \in Day, Acquire(q, d)
    PROVE  IInv'
<1>1. /\ query[q].pc = "repair" /\ d \in query[q].days /\ <<q, d>> \notin holders
      /\ Cardinality(holders) < Parallel /\ holders' = holders \cup {<<q, d>>}
      /\ UNCHANGED <<now, archive, dayFile, hourFile, query, others, lost>>
  BY DEF Acquire, Working
<1>2. Typed' /\ \A p \in Queries : RequestOK(p)'
  <2>1. Typed'
    BY <1>1 DEF IInv, Typed, FilesOK, PartitionsOK
  <2>2. FileStep /\ now' \in Time /\ now <= now'
    BY <1>1, FilesAlone, TimeParts DEF IInv, Typed
  <2>3. \A p \in Queries : Alike(query'[p], query[p])
    BY <1>1 DEF Alike
  <2> QED
    BY <2>1, <2>2, <2>3, StaysOK DEF IInv
<1>3. PlacesOK'
  <2>1. IsFiniteSet(holders) /\ holders \subseteq Queries \X Day
    BY DEF IInv, PlacesOK
  <2>2. IsFiniteSet(holders') /\ Cardinality(holders') = Cardinality(holders) + 1
    BY <1>1, <2>1, FS_AddElement
  <2>3. Cardinality(holders') <= Parallel
    BY <1>1, <2>1, <2>2, FS_CardinalityType, SizeAssumption
  <2>4. holders' \subseteq Queries \X Day
    BY <1>1, <2>1
  <2>5. \A h \in holders' : query'[h[1]].pc = "repair" /\ h[2] \in query'[h[1]].days
    BY <1>1 DEF IInv, PlacesOK
  <2> QED
    BY <2>2, <2>3, <2>4, <2>5 DEF PlacesOK
<1> QED
  BY <1>2, <1>3 DEF IInv

\* A day's goroutine leaves without a place.
LEMMA SkipKeeps ==
    ASSUME IInv, NEW q \in Queries, NEW d \in Day, Skip(q, d)
    PROVE  IInv'
<1> DEFINE r == [query[q] EXCEPT !.days = @ \ {d}]
<1>1. /\ query[q] \in Requests /\ query[q].pc = "repair" /\ query[q].built <= now /\ FilesOK
      /\ query[q].days \subseteq Day
  BY RequestTyped DEF RequestOK, Skip
<1>2. /\ query' = [query EXCEPT ![q].days = @ \ {d}] /\ <<q, d>> \notin holders
      /\ UNCHANGED <<now, archive, dayFile, hourFile, holders, others, lost>>
  BY DEF Skip, Working
<1>3. query' = [query EXCEPT ![q] = r]
  BY <1>2 DEF IInv, Typed
<1>4. /\ r \in Requests /\ r.pc = "repair" /\ r.failed = query[q].failed /\ r.built = query[q].built
      /\ r.days = query[q].days \ {d}
  BY <1>1 DEF Requests
<1>5. FileStep
  BY <1>1, <1>2, FilesAlone
<1> HIDE DEF r
<1>6. \A x \in Day : <<q, x>> \in holders => x \in r.days
  BY <1>2, <1>4 DEF IInv, PlacesOK
<1> QED
  BY <1>1, <1>2, <1>3, <1>4, <1>5, <1>6, PlainMove

\* The repair of a day ends, and gives its place back.
LEMMA RepairDayKeeps ==
    ASSUME IInv, NEW q \in Queries, NEW d \in Day, RepairDay(q, d)
    PROVE  IInv'
<1>1. PICK ok \in BOOLEAN :
        /\ \/ FetchToday(ok)
           \/ ImportDay(d, ok)
           \/ UNCHANGED <<dayFile, hourFile>>
        /\ query' = [query EXCEPT ![q].days = @ \ {d}, ![q].failed = @ \/ ~ok]
        /\ holders' = holders \ {<<q, d>>}
  BY DEF RepairDay, Release, LaterDay
<1>2. /\ <<q, d>> \in holders /\ UNCHANGED <<now, archive>>
  BY DEF RepairDay
<1> DEFINE f == query[q].failed \/ ~ok
           r == [query[q] EXCEPT !.days = @ \ {d}, !.failed = f]
<1>3. /\ query[q] \in Requests /\ query[q].pc = "repair" /\ query[q].built <= now /\ FilesOK
      /\ query[q].days \subseteq Day /\ Typed /\ query[q].failed \in BOOLEAN
  BY <1>2, RequestTyped DEF RequestOK, IInv, PlacesOK
<1>4. query' = [query EXCEPT ![q] = r]
  BY <1>1, <1>3 DEF IInv, Typed
<1>5. f \in BOOLEAN
  OBVIOUS
<1> HIDE DEF f
<1>6. /\ r \in Requests /\ r.pc = "repair" /\ r.built = query[q].built
      /\ r.days = query[q].days \ {d}
  BY <1>3, <1>5 DEF Requests
<1>7. FileStep
  <2>1. PartitionsOK'
    <3>1. UNCHANGED <<dayFile, hourFile>> => PartitionsOK'
      BY <1>3 DEF FilesOK, PartitionsOK
    <3> QED
      BY <1>1, <1>3, <3>1, FetchKeeps, ImportKeeps
  <2>2. FilesOK /\ NoteLosses /\ UNCHANGED others
    BY <1>3 DEF RepairDay
  <2> QED
    BY <2>1, <2>2, FilesChange DEF FilesOK
<1> HIDE DEF r
<1>8. query'[q] = r /\ \A p \in Queries \ {q} : query'[p] = query[p]
  BY <1>4 DEF IInv, Typed
<1>9. RequestOK(q)'
  BY <1>2, <1>3, <1>6, <1>8 DEF RequestOK
<1>10. PlacesOK'
  <2>1. /\ IsFiniteSet(holders) /\ holders \subseteq Queries \X Day /\ Cardinality(holders) <= Parallel
        /\ \A h \in holders : query[h[1]].pc = "repair" /\ h[2] \in query[h[1]].days
    BY DEF IInv, PlacesOK
  <2>2. IsFiniteSet(holders') /\ Cardinality(holders') = Cardinality(holders) - 1
    BY <1>1, <1>2, <2>1, FS_RemoveElement
  <2>3. Cardinality(holders') <= Parallel
    BY <2>1, <2>2, FS_CardinalityType, SizeAssumption
  <2>4. ASSUME NEW h \in holders' PROVE query'[h[1]].pc = "repair" /\ h[2] \in query'[h[1]].days
    <3>1. h \in holders /\ h # <<q, d>> /\ h \in Queries \X Day
      BY <1>1, <2>1
    <3>2. h[1] \in Queries /\ h = <<h[1], h[2]>>
      BY <3>1
    <3>3. CASE h[1] = q
      <4>1. h[2] # d
        BY <3>1, <3>2, <3>3
      <4> QED
        BY <1>6, <1>8, <2>1, <3>1, <3>3, <4>1
    <3>4. CASE h[1] # q
      BY <1>8, <2>1, <3>1, <3>2, <3>4
    <3> QED
      BY <3>3, <3>4
  <2> QED
    BY <1>1, <2>1, <2>2, <2>3, <2>4 DEF PlacesOK
<1> QED
  BY <1>2, <1>4, <1>6, <1>7, <1>9, <1>10, Moves

\* All days are repaired, or one has failed.
LEMMA RepairDoneKeeps ==
    ASSUME IInv, NEW q \in Queries, RepairDone(q)
    PROVE  IInv'
<1>1. query[q].days = {} /\ UNCHANGED <<now, archive, dayFile, hourFile, holders, others, lost>> /\ Repaired(q)
  BY DEF RepairDone
<1>2. \A x \in Day : <<q, x>> \notin holders
  BY <1>1 DEF IInv, PlacesOK
<1>3. CASE Fail(q)
  BY <1>1, <1>2, <1>3, FailMove
<1>4. CASE ~query[q].failed /\ Goto(q, "reaudit")
  BY <1>1, <1>2, <1>4, GotoMove DEF Phases
<1> QED
  BY <1>1, <1>3, <1>4 DEF Repaired

\* The reply.
LEMMA ReplyKeeps ==
    ASSUME IInv, NEW q \in Queries, Reply(q)
    PROVE  IInv'
<1>1. \A x \in Day : <<q, x>> \notin holders
  BY NoPlaces DEF Reply
<1> QED
  BY <1>1, FailMove DEF Reply

\* The clock ticks, or other requests fill the files.
LEMMA WorldKeeps ==
    ASSUME IInv, Tick \/ OtherRequest
    PROVE  IInv'
<1>1. Typed /\ FilesOK /\ now \in Time /\ now \in Nat
  BY TimeParts DEF IInv, Typed
<1>2. now' \in Time /\ now <= now'
  <2>1. CASE Tick
    <3>1. Frame \in Nat /\ now + Frame < Midnight(LastDay + 1) /\ now' = now + Frame
      BY <2>1, Calendar DEF Tick
    <3>2. Multiple(Frame, Frame)
      <4>1. Frame = 1 * Frame
        BY <3>1
      <4> QED
        BY <4>1 DEF Multiple
    <3>3. Multiple(now, Frame)
      BY <1>1, TimeParts
    <3>4. Multiple(now + Frame, Frame)
      BY <1>1, <3>1, <3>2, <3>3, MultipleSum
    <3> QED
      BY <1>1, <3>1, <3>4, TimeParts
  <2>2. CASE OtherRequest
    BY <1>1, <2>2 DEF OtherRequest
  <2> QED
    BY <2>1, <2>2
<1>3. FileStep
  BY <1>1, FilesAlone, OtherKeeps DEF Tick
<1>4. UNCHANGED <<archive, query, holders>>
  BY DEF Tick, OtherRequest
<1>5. Typed'
  BY <1>1, <1>2, <1>3, <1>4 DEF Typed, FileStep
<1>6. PlacesOK'
  BY <1>4 DEF IInv, PlacesOK
<1>7. \A q \in Queries : Alike(query'[q], query[q])
  BY <1>4 DEF Alike
<1> QED
  BY <1>1, <1>2, <1>3, <1>5, <1>6, <1>7, StaysOK DEF IInv

\* The invariant is inductive.
LEMMA NextIInv ==
    IInv /\ [Next]_vars => IInv'
<1> SUFFICES ASSUME IInv, [Next]_vars PROVE IInv'
  OBVIOUS
<1>1. CASE Tick \/ OtherRequest
  BY <1>1, WorldKeeps
<1>2. ASSUME NEW q \in Queries, Arrive(q) PROVE IInv'
  BY <1>2, ArriveKeeps
<1>3. ASSUME NEW q \in Queries, Disconnect(q) PROVE IInv'
  BY <1>3, DisconnectKeeps
<1>4. ASSUME NEW q \in Queries, Step(q) PROVE IInv'
  <2>1. CASE LoadDay(q)
    BY <2>1, LoadDayKeeps
  <2>2. CASE LoadCancelled(q)
    BY <2>2, LoadCancelledKeeps
  <2>3. CASE BuildTargets(q)
    BY <2>3, BuildTargetsKeeps
  <2>4. CASE FirstAudit(q)
    BY <2>4, FirstAuditKeeps
  <2>5. CASE RepairDone(q)
    BY <2>5, RepairDoneKeeps
  <2>6. CASE SecondAudit(q)
    BY <2>6, SecondAuditKeeps
  <2>7. CASE ReadAnswer(q)
    BY <2>7, ReadAnswerKeeps
  <2>8. CASE Reply(q)
    BY <2>8, ReplyKeeps
  <2>9. ASSUME NEW d \in Day, Acquire(q, d) PROVE IInv'
    BY <2>9, AcquireKeeps
  <2>10. ASSUME NEW d \in Day, Skip(q, d) PROVE IInv'
    BY <2>10, SkipKeeps
  <2>11. ASSUME NEW d \in Day, RepairDay(q, d) PROVE IInv'
    BY <2>11, RepairDayKeeps
  <2> QED
    BY <1>4, <2>1, <2>2, <2>3, <2>4, <2>5, <2>6, <2>7, <2>8, <2>9, <2>10, <2>11 DEF Step
<1>5. CASE UNCHANGED vars
  <2>1. UNCHANGED <<now, archive, dayFile, hourFile, query, holders, others, lost>>
    BY <1>5 DEF vars
  <2>2. Typed'
    BY <2>1 DEF IInv, Typed, FilesOK, PartitionsOK
  <2>3. PlacesOK'
    BY <2>1 DEF IInv, PlacesOK
  <2>4. FileStep /\ now' \in Time /\ now <= now'
    BY <2>1, FilesAlone, TimeParts DEF IInv, Typed
  <2>5. \A q \in Queries : Alike(query'[q], query[q])
    BY <2>1 DEF Alike
  <2> QED
    BY <2>2, <2>3, <2>4, <2>5, StaysOK DEF IInv
<1> QED
  BY <1>1, <1>2, <1>3, <1>4, <1>5 DEF Next

-----------------------------------------------------------------------------
(* What every behaviour has.                                                *)

\* The invariant holds in every behaviour.
LEMMA Invariant ==
    Spec => []IInv
<1>1. Init => IInv
  BY InitIInv
<1>2. IInv /\ [Next]_vars => IInv'
  BY NextIInv
<1> QED
  BY <1>1, <1>2, PTL DEF Spec

\* Every variable keeps its type, files hold only candles of their day and hour, and
\* no more days are repaired at once than the semaphore has places.
THEOREM TypeCorrect ==
    Spec => []TypeOK
<1>1. IInv => TypeOK
  <2> SUFFICES ASSUME IInv PROVE TypeOK
    OBVIOUS
  <2>1. now \in Opens(0, Midnight(LastDay + 1)) /\ archive \in Archives
    BY DEF IInv, Typed, Time
  <2>2. \A d \in Day : dayFile[d].state \in {"missing", "unreadable", "readable"}
    BY DEF IInv, Typed, FilesOK, PartitionsOK, Files
  <2>3. \A d \in Day : dayFile[d].rows \subseteq Opens(Midnight(d), Midnight(d + 1))
    BY DEF IInv, Typed, FilesOK, PartitionsOK
  <2>4. hourFile \in [Day -> [Hour -> 0..FramesPerHour]]
    BY DEF IInv, Typed, FilesOK, PartitionsOK
  <2>5. \A q \in Queries : query[q].pc \in Phases /\ query[q].days \subseteq Day
    BY RequestTyped
  <2>6. holders \subseteq Queries \X Day /\ Cardinality(holders) <= Parallel
    BY DEF IInv, PlacesOK
  <2>7. others \in 0..MaxOthers /\ lost \in [Queries -> SUBSET Opens(0, Midnight(LastDay + 1))]
    BY DEF IInv, Typed, FilesOK, Time
  <2> QED
    BY <2>1, <2>2, <2>3, <2>4, <2>5, <2>6, <2>7 DEF TypeOK
<1> QED
  BY <1>1, Invariant, PTL

\* No request is answered after the repair of one of its days failed, although the
\* other days go on and the error travels apart from them.
THEOREM FailedMeansNoAnswer ==
    Spec => []NoAnswerAfterFailedRepair
<1>1. IInv => NoAnswerAfterFailedRepair
  BY DEF IInv, RequestOK, NoAnswerAfterFailedRepair
<1> QED
  BY <1>1, Invariant, PTL

\* Every answer has the candles its audits vouch for, but for those that a step took
\* out of a file after the targets were built, whatever the clock, imports and failed
\* repairs did between the audit and the read.
THEOREM AnswersAreOwed ==
    Spec => []AnswerHasOwedCandles
<1>1. IInv => AnswerHasOwedCandles
  BY DEF IInv, RequestOK, AnswerHasOwedCandles, OwedTo
<1> QED
  BY <1>1, Invariant, PTL

-----------------------------------------------------------------------------
(* A request whose candles are there has no issues.                         *)

\* The greatest and the least of a set.
LEMMA MaxIs ==
    ASSUME NEW S \in SUBSET Int, NEW m \in S, \A y \in S : y <= m
    PROVE  MaxOf(S) = m
<1>1. \E x \in S : \A y \in S : y <= x
  OBVIOUS
<1>2. MaxOf(S) \in S /\ \A y \in S : y <= MaxOf(S)
  BY <1>1 DEF MaxOf
<1>3. m <= MaxOf(S) /\ MaxOf(S) <= m /\ MaxOf(S) \in Int /\ m \in Int
  BY <1>2
<1> QED
  BY <1>3

\* The least of a set is its only lower bound in it.
LEMMA MinIs ==
    ASSUME NEW S \in SUBSET Int, NEW m \in S, \A y \in S : m <= y
    PROVE  MinOf(S) = m
<1>1. \E x \in S : \A y \in S : x <= y
  OBVIOUS
<1>2. MinOf(S) \in S /\ \A y \in S : MinOf(S) <= y
  BY <1>1 DEF MinOf
<1>3. m <= MinOf(S) /\ MinOf(S) <= m /\ MinOf(S) \in Int /\ m \in Int
  BY <1>2
<1> QED
  BY <1>3

\* The candles of a window are a run ...
LEMMA OpensRun ==
    ASSUME NEW a \in Int, NEW b \in Int
    PROVE  Opens(a, b) \subseteq Int /\ Run(Opens(a, b))
<1>1. Frame \in Nat /\ Frame > 0 /\ Multiple(Frame, Frame)
  <2>1. Frame \in Nat /\ Frame > 0
    BY Calendar
  <2>2. Frame = 1 * Frame
    BY <2>1
  <2> QED
    BY <2>1, <2>2 DEF Multiple
<1>2. ASSUME NEW x \in Opens(a, b), NEW e \in Opens(a, b), x < e
      PROVE  e - Frame \in Opens(a, b) /\ x <= e - Frame
  <2>1. x \in Int /\ e \in Int /\ a <= x /\ e < b /\ Multiple(x, Frame) /\ Multiple(e, Frame)
    BY OpensMultiple
  <2>2. x + Frame <= e
    BY <1>1, <1>2, <2>1, MultipleApart
  <2>3. Multiple(e - Frame, Frame) /\ e - Frame \in Int
    BY <1>1, <2>1, MultipleSum
  <2>4. x <= e - Frame /\ a <= e - Frame /\ e - Frame < b
    BY <1>1, <2>1, <2>2
  <2> QED
    BY <2>3, <2>4, OpensMultiple
<1> QED
  BY <1>2, OpensMultiple DEF Run

\* ... of as many candles as fit into it.
LEMMA OpensCount ==
    ASSUME NEW a \in Int, NEW b \in Int, Multiple(a, Frame), Multiple(b, Frame), a <= b
    PROVE  Cardinality(Opens(a, b)) = (b - a) \div Frame
<1>0. Frame \in Nat /\ Frame > 0
  BY Calendar
<1>1. PICK n \in Int : b - a = n * Frame
  <2>1. Multiple(b - a, Frame)
    BY <1>0, MultipleSum
  <2> QED
    BY <2>1 DEF Multiple
<1>2. n >= 0
  <2> SUFFICES ASSUME n < 0 PROVE FALSE
    BY <1>1
  <2>1. n + 1 <= 0
    BY <1>1
  <2>2. (n + 1) * Frame <= 0 * Frame
    BY <1>0, <1>1, <2>1
  <2>3. (n + 1) * Frame = n * Frame + Frame /\ 0 * Frame = 0 /\ n * Frame \in Int
    BY <1>0, <1>1
  <2> QED
    BY <1>0, <1>1, <2>2, <2>3
<1>3. (b - a) \div Frame = n
  <2>1. n <= (b - a) \div Frame
    BY <1>0, <1>1, DivFrom
  <2>2. b - a < (n + 1) * Frame
    <3>1. (n + 1) * Frame = n * Frame + Frame /\ n * Frame \in Int
      BY <1>0, <1>1
    <3> QED
      BY <1>0, <1>1, <3>1
  <2>3. (b - a) \div Frame < n + 1 /\ (b - a) \div Frame \in Int
    BY <1>0, <1>1, <2>2, DivBelow, DivInt
  <2> QED
    BY <1>1, <2>1, <2>3
<1> DEFINE f == [i \in 0..(n - 1) |-> a + i * Frame]
<1>4. f \in Bijection(0..(n - 1), Opens(a, b))
  <2>1. ASSUME NEW i \in 0..(n - 1) PROVE f[i] \in Opens(a, b)
    <3>1. i \in Int /\ 0 <= i /\ i + 1 <= n
      BY <1>1
    <3>2. 0 * Frame <= i * Frame /\ (i + 1) * Frame <= n * Frame
      BY <1>0, <1>1, <3>1
    <3>3. (i + 1) * Frame = i * Frame + Frame /\ 0 * Frame = 0 /\ i * Frame \in Int
      BY <1>0, <3>1
    <3>4. a <= a + i * Frame /\ a + i * Frame < b /\ a + i * Frame \in Int
      BY <1>0, <1>1, <3>2, <3>3
    <3>5. Multiple(i * Frame, Frame)
      BY <3>1 DEF Multiple
    <3>6. Multiple(a + i * Frame, Frame)
      BY <1>0, <3>3, <3>5, MultipleSum
    <3> QED
      BY <3>4, <3>6, OpensMultiple
  <2>2. ASSUME NEW i \in 0..(n - 1), NEW j \in 0..(n - 1), f[i] = f[j] PROVE i = j
    <3>1. i \in Int /\ j \in Int /\ a + i * Frame = a + j * Frame
      BY <2>2
    <3>2. i * Frame \in Int /\ j * Frame \in Int
      BY <1>0, <3>1
    <3>3. i * Frame = j * Frame
      BY <3>1, <3>2
    <3>4. (i * Frame) \div Frame = i /\ (j * Frame) \div Frame = j
      BY <1>0, <3>1
    <3> QED
      BY <3>3, <3>4
  <2>3. ASSUME NEW t \in Opens(a, b) PROVE \E i \in 0..(n - 1) : f[i] = t
    <3>1. t \in Int /\ a <= t /\ t < b /\ Multiple(t, Frame)
      BY OpensMultiple
    <3>2. Multiple(t - a, Frame) /\ t - a \in Int
      BY <1>0, <3>1, MultipleSum
    <3>3. PICK i \in Int : t - a = i * Frame
      BY <3>2 DEF Multiple
    <3>4. i < n
      <4> SUFFICES ASSUME n <= i PROVE FALSE
        BY <1>1, <3>3
      <4>1. n * Frame <= i * Frame
        BY <1>0, <1>1, <3>3
      <4> QED
        BY <1>1, <3>1, <3>3, <4>1
    <3>5. i >= 0
      <4> SUFFICES ASSUME i < 0 PROVE FALSE
        BY <3>3
      <4>1. i + 1 <= 0
        BY <3>3
      <4>2. (i + 1) * Frame <= 0 * Frame
        BY <1>0, <3>3, <4>1
      <4>3. (i + 1) * Frame = i * Frame + Frame /\ 0 * Frame = 0 /\ i * Frame \in Int
        BY <1>0, <3>3
      <4> QED
        BY <1>0, <3>1, <3>3, <4>2, <4>3
    <3>6. i \in 0..(n - 1) /\ a + i * Frame = t
      BY <1>1, <3>1, <3>3, <3>4, <3>5
    <3> QED
      BY <3>6
  <2> HIDE DEF f
  <2>4. f \in [0..(n - 1) -> Opens(a, b)]
    BY <2>1 DEF f
  <2> QED
    BY <2>2, <2>3, <2>4 DEF Bijection, Injection, Surjection, IsInjective
<1>5. IsFiniteSet(0..(n - 1)) /\ Cardinality(0..(n - 1)) = n
  <2>1. 0 \in Int /\ n - 1 \in Int
    BY <1>1
  <2>2. IsFiniteSet(0..(n - 1)) /\ Cardinality(0..(n - 1)) = IF 0 > n - 1 THEN 0 ELSE (n - 1) - 0 + 1
    BY <2>1, FS_Interval
  <2> QED
    BY <1>1, <1>2, <2>2
<1> HIDE DEF f
<1>6. ExistsBijection(0..(n - 1), Opens(a, b))
  BY <1>4 DEF ExistsBijection
<1>7. Cardinality(Opens(a, b)) = n
  BY <1>5, <1>6, FS_Bijection
<1> QED
  BY <1>3, <1>7

\* A candle without a predecessor in a run is its first one.
LEMMA RunSteps ==
    ASSUME NEW u, RowsIn(u) \subseteq Int, Run(RowsIn(u))
    PROVE  WrongSteps(u) = {}
<1> DEFINE S == RowsIn(u)
<1>0. Frame \in Nat /\ S \subseteq Int /\ Run(S)
  BY Calendar
<1> HIDE DEF S
<1>1. ASSUME NEW e \in S, NEW b \in S, b < e PROVE MaxOf({x \in S : x < e}) + Frame = e
  <2> DEFINE T == {x \in S : x < e}
  <2>1. Frame > 0 /\ e \in Int
    BY <1>0, Calendar
  <2>2. e - Frame \in T
    BY <1>0, <1>1, <2>1 DEF Run
  <2>3. \A y \in T : y <= e - Frame
    BY <1>0, <1>1 DEF Run
  <2>4. T \in SUBSET Int
    BY <1>0
  <2> HIDE DEF T
  <2>5. MaxOf(T) = e - Frame
    BY <2>2, <2>3, <2>4, MaxIs
  <2>6. MaxOf(T) + Frame = e
    BY <1>0, <2>1, <2>5
  <2> QED
    BY <2>6 DEF T
<1> QED
  BY <1>1 DEF WrongSteps, S

\* A target that is not checked has no issue when its rows are a run.
LEMMA UncheckedHasNoIssue ==
    ASSUME NEW u, ~u.check, RowsIn(u) \subseteq Int, Run(RowsIn(u))
    PROVE  CountIssues(u) \cup WrongSteps(u) \cup MissingIntervals(u) = {}
  BY RunSteps DEF CountIssues, MissingIntervals

\* A target of whole candles has no issue when it has all of them.
LEMMA FullHasNoIssue ==
    ASSUME NEW u, u.from \in Int, u.to \in Int, Multiple(u.from, Frame), Multiple(u.to, Frame),
           RowsIn(u) = Opens(u.from, u.to)
    PROVE  CountIssues(u) \cup WrongSteps(u) \cup MissingIntervals(u) = {}
<1>0. Frame \in Nat /\ Frame > 0
  BY Calendar
<1>1. Aligned(u.from) = u.from
  <2>1. u.from % Frame = 0
    BY <1>0, MultipleMod
  <2>2. u.from = (u.from \div Frame) * Frame + (u.from % Frame) /\ u.from \div Frame \in Int
    BY <1>0, Euclid, DivInt
  <2>3. (u.from \div Frame) * Frame \in Int
    BY <1>0, <2>2
  <2> QED
    BY <2>1, <2>2, <2>3 DEF Aligned
<1>2. WrongSteps(u) = {}
  BY OpensRun, RunSteps
<1>3. MissingIntervals(u) = {}
  BY <1>1 DEF MissingIntervals, RowsIn
<1>4. CountIssues(u) = {}
  <2>1. CASE u.from < u.to
    BY <1>1, <2>1, OpensCount DEF CountIssues, Expected
  <2>2. CASE ~(u.from < u.to)
    <3>1. RowsIn(u) = {}
      BY <2>2, OpensMultiple
    <3>2. Cardinality(RowsIn(u)) = 0
      BY <3>1, FS_EmptySet
    <3> QED
      BY <2>2, <3>2 DEF CountIssues, Expected
  <2> QED
    BY <2>1, <2>2
<1> QED
  BY <1>2, <1>3, <1>4

\* The first and the last candle of a window.
LEMMA OpensEnds ==
    ASSUME NEW a \in Int, NEW b \in Int, Multiple(a, Frame), Multiple(b, Frame), Opens(a, b) # {}
    PROVE  a < b /\ MinOf(Opens(a, b)) = a /\ MaxOf(Opens(a, b)) + Frame = b
<1>0. Frame \in Nat /\ Frame > 0 /\ Multiple(Frame, Frame)
  <2>1. Frame \in Nat /\ Frame > 0
    BY Calendar
  <2>2. Frame = 1 * Frame
    BY <2>1
  <2> QED
    BY <2>1, <2>2 DEF Multiple
<1>1. a < b
  BY OpensMultiple
<1>2. a + Frame <= b
  BY <1>0, <1>1, MultipleApart
<1>3. b - Frame \in Int /\ Multiple(b - Frame, Frame)
  BY <1>0, MultipleSum
<1>4. a \in Opens(a, b) /\ b - Frame \in Opens(a, b)
  BY <1>0, <1>1, <1>2, <1>3, OpensMultiple
<1>5. \A t \in Opens(a, b) : t \in Int /\ a <= t /\ t <= b - Frame
  <2> SUFFICES ASSUME NEW t \in Opens(a, b) PROVE t \in Int /\ a <= t /\ t <= b - Frame
    OBVIOUS
  <2>1. t \in Int /\ a <= t /\ t < b /\ Multiple(t, Frame)
    BY OpensMultiple
  <2>2. t + Frame <= b
    BY <1>0, <2>1, MultipleApart
  <2> QED
    BY <1>0, <2>1, <2>2
<1>6. MinOf(Opens(a, b)) = a
  BY <1>4, <1>5, MinIs
<1>7. MaxOf(Opens(a, b)) = b - Frame
  BY <1>4, <1>5, MaxIs
<1> QED
  BY <1>0, <1>1, <1>6, <1>7

\* A request for whole candles, up to the day its targets were built: no file is
\* missing or unreadable, and the files have what is owed of them.
AllThere(from, to, built) ==
    /\ FilesOK
    /\ from \in Nat /\ to \in Nat /\ built \in Time
    /\ Multiple(from, Frame) /\ Multiple(to, Frame)
    /\ to <= Midnight(DayOf(built) + 1)
    /\ \A u \in Targets(from, to, built) : ~Stops(u)
    /\ \A c \in Owed(from, to, built) : Present(c, built)

\* The greater and the lesser of two multiples are multiples.
LEMMA BoundsMultiple ==
    ASSUME NEW a \in Int, NEW b \in Int, Multiple(a, Frame), Multiple(b, Frame)
    PROVE  /\ Greatest(a, b) \in Int /\ Multiple(Greatest(a, b), Frame)
           /\ Least(a, b) \in Int /\ Multiple(Least(a, b), Frame)
           /\ Greatest(a, b) >= a /\ Greatest(a, b) >= b /\ Least(a, b) <= a /\ Least(a, b) <= b
  BY DEF Greatest, Least

\* The window of a daily target, and that it has all its candles.
LEMMA DayIsFull ==
    ASSUME NEW from, NEW to, NEW built, AllThere(from, to, built),
           NEW d \in Day, d < DayOf(built)
    PROVE  LET u == DayTarget(d, from, to)
           IN  /\ u.from = Greatest(from, Midnight(d)) /\ u.to = Least(to, Midnight(d + 1))
               /\ u.from \in Int /\ u.to \in Int /\ Multiple(u.from, Frame) /\ Multiple(u.to, Frame)
               /\ RowsIn(u) = Opens(u.from, u.to)
<1> DEFINE u == DayTarget(d, from, to)
           t == DayOf(built)
<1>0. /\ FilesOK /\ from \in Int /\ to \in Int /\ built \in Time /\ from \in Nat /\ to \in Nat
      /\ Multiple(from, Frame) /\ Multiple(to, Frame)
      /\ d \in Int /\ Frame \in Nat /\ Frame > 0
      /\ \A c \in Owed(from, to, built) : DayOf(c) < t => c \in dayFile[DayOf(c)].rows
  BY Calendar DEF AllThere, Day, Present
<1>1. /\ u.from = Greatest(from, Midnight(d)) /\ u.to = Least(to, Midnight(d + 1))
      /\ u.hour = WholeDay /\ u.day = d
  BY DEF DayTarget, Target
<1>2. /\ Midnight(d) \in Int /\ Midnight(d + 1) \in Int /\ Midnight(d + 1) = Midnight(d) + DayMs
      /\ Multiple(Midnight(d), Frame) /\ Multiple(Midnight(d + 1), Frame)
  <2>1. d + 1 \in Int
    BY <1>0
  <2> QED
    BY <1>0, <2>1, Midnights
<1> HIDE DEF u
<1>3. /\ u.from \in Int /\ u.to \in Int /\ Multiple(u.from, Frame) /\ Multiple(u.to, Frame)
      /\ u.from >= from /\ u.from >= Midnight(d) /\ u.to <= to /\ u.to <= Midnight(d + 1)
  BY <1>0, <1>1, <1>2, BoundsMultiple
<1>4. RowsIn(u) \subseteq Opens(u.from, u.to)
  <2>1. dayFile[d].rows \subseteq Opens(Midnight(d), Midnight(d + 1)) /\ Rows(u) = dayFile[d].rows
    BY <1>0, <1>1 DEF FilesOK, PartitionsOK, Rows
  <2>2. \A c \in Rows(u) : c \in Int /\ Multiple(c, Frame)
    BY <1>2, <2>1, OpensMultiple
  <2> QED
    BY <1>3, <2>2, OpensMultiple DEF RowsIn
<1>5. ASSUME NEW c \in Opens(u.from, u.to) PROVE c \in RowsIn(u)
  <2>1. c \in Int /\ u.from <= c /\ c < u.to /\ Multiple(c, Frame)
    BY <1>3, OpensMultiple
  <2>2. from <= c /\ c < to /\ Midnight(d) <= c /\ c < Midnight(d + 1)
    BY <1>0, <1>2, <1>3, <2>1
  <2>3. DayOf(c) = d
    BY <1>0, <1>2, <2>1, <2>2, InDay
  <2>4. c + Frame <= to
    BY <1>0, <2>1, <2>2, MultipleApart
  <2>5. c \in Owed(from, to, built)
    <3>1. c \in Opens(from, to)
      BY <1>0, <2>1, <2>2, OpensMultiple
    <3> QED
      BY <2>3, <2>4, <3>1 DEF Owed
  <2>6. c \in dayFile[d].rows
    BY <1>0, <2>3, <2>5
  <2> QED
    BY <1>1, <2>1, <2>6 DEF RowsIn, Rows
<1> QED
  BY <1>1, <1>3, <1>4, <1>5 DEF u

\* The window of an hour that is asked for; its rows are a run, and all of the window
\* when the hour is checked: then the hour after it is asked for, too.
LEMMA HourIsFull ==
    ASSUME NEW from, NEW to, NEW built, AllThere(from, to, built),
           NEW h \in HoursAsked(DayOf(built), from, to, built)
    PROVE  LET u == HourTarget(DayOf(built), h, from, to, built)
               s == HourStart(DayOf(built), h)
           IN  /\ u.from = Greatest(from, s) /\ u.to = Least(to, s + HourMs)
               /\ u.from \in Int /\ u.to \in Int /\ Multiple(u.from, Frame) /\ Multiple(u.to, Frame)
               /\ RowsIn(u) \subseteq Int /\ Run(RowsIn(u))
               /\ u.check => /\ RowsIn(u) = Opens(u.from, u.to)
                              /\ h + 1 \in HoursAsked(DayOf(built), from, to, built)
<1> DEFINE t == DayOf(built)
           u == HourTarget(t, h, from, to, built)
           s == HourStart(t, h)
<1>0. /\ FilesOK /\ from \in Int /\ to \in Int /\ built \in Time /\ built \in Int /\ t \in Day /\ t \in Int
      /\ Multiple(from, Frame) /\ Multiple(to, Frame)
      /\ from \in Nat /\ to \in Nat /\ PartitionsOK
      /\ \A c \in Owed(from, to, built) : Present(c, built)
  BY TimeParts DEF AllThere, Day, FilesOK
<1>1. /\ Frame \in Nat /\ HourMs \in Nat /\ FramesPerHour \in Nat
      /\ h \in Hour /\ h \in Int /\ h <= HourIn(built) /\ HourIn(built) \in Hour /\ Hour \subseteq Int
  BY <1>0, Calendar, InHour DEF HoursAsked, Hour
<1>2. /\ u.from = Greatest(from, s) /\ u.to = Least(to, s + HourMs)
      /\ u.hour = h /\ u.day = t /\ u.file = t /\ (u.check <=> h < HourIn(built) /\ s + HourMs <= to)
  BY DEF HourTarget, Target
<1>3. s \in Int /\ s + HourMs \in Int /\ Multiple(s, Frame) /\ Multiple(s + HourMs, Frame)
      /\ HourStart(t, h + 1) = s + HourMs
  <2>1. s \in Int /\ Multiple(s, Frame) /\ Multiple(HourMs, Frame) /\ HourStart(t, h + 1) = s + HourMs
    BY <1>0, <1>1, Hours
  <2>2. HourMs \in Int /\ s + HourMs \in Int
    BY <1>1, <2>1
  <2>3. Multiple(s + HourMs, Frame)
    BY <1>1, <2>1, <2>2, MultipleSum
  <2> QED
    BY <2>1, <2>2, <2>3
<1>4. /\ u.from \in Int /\ u.to \in Int /\ Multiple(u.from, Frame) /\ Multiple(u.to, Frame)
  BY <1>0, <1>2, <1>3, BoundsMultiple
<1>5. Rows(u) = HourRows(t, h)
  <2>1. h # WholeDay
    BY <1>1 DEF Hour, WholeDay
  <2> QED
    BY <1>2, <2>1 DEF Rows, HourRows
<1>6. HourRows(t, h) \subseteq Int /\ Run(HourRows(t, h))
  BY <1>0, <1>1, <1>3, HourRowsRun, OpensRun
<1> HIDE DEF u
<1>7. RowsIn(u) \subseteq Int /\ Run(RowsIn(u))
  <2> DEFINE S == HourRows(t, h)
  <2>1. RowsIn(u) = {c \in S : u.from <= c /\ c < u.to}
    BY <1>5 DEF RowsIn
  <2>2. S \subseteq Int /\ Run(S)
    BY <1>6
  <2> HIDE DEF S
  <2>3. ASSUME NEW b \in RowsIn(u), NEW e \in RowsIn(u), b < e
        PROVE  e - Frame \in RowsIn(u) /\ b <= e - Frame
    <3>1. b \in S /\ e \in S /\ u.from <= b /\ e < u.to /\ b \in Int /\ e \in Int
      BY <2>1, <2>2
    <3>2. e - Frame \in S /\ b <= e - Frame
      BY <2>2, <2>3, <3>1 DEF Run
    <3>3. u.from <= e - Frame /\ e - Frame < u.to
      BY <1>1, <1>4, <3>1, <3>2
    <3> QED
      BY <2>1, <3>2, <3>3
  <2> QED
    BY <2>1, <2>2, <2>3 DEF Run
<1>8. ASSUME u.check PROVE RowsIn(u) = Opens(u.from, u.to) /\ h + 1 \in HoursAsked(t, from, to, built)
  <2>1. h < HourIn(built) /\ s + HourMs <= to
    BY <1>2, <1>8
  <2>2. h + 1 \in Hour
    <3>0. HourIn(built) \in Int /\ h \in Int
      BY <1>1
    <3>1. h + 1 <= HourIn(built) /\ HourIn(built) \in 0..(HoursPerDay - 1) /\ h \in 0..(HoursPerDay - 1)
      BY <1>1, <2>1, <3>0 DEF Hour
    <3>2. HoursPerDay \in Nat
      BY Calendar
    <3> QED
      BY <3>1, <3>2 DEF Hour
  <2>3. DayOf(to) = t => h + 1 <= HourIn(to)
    BY <1>0, <1>3, <2>1, <2>2, InHour
  <2>4. DayOf(from) = t => HourIn(from) <= h + 1
    <3>1. HourIn(from) \in Int
      BY <1>0, <1>1, InHour
    <3> QED
      BY <1>1, <3>1 DEF HoursAsked
  <2>5. h + 1 \in HoursAsked(t, from, to, built)
    <3>0. HourIn(built) \in Int /\ h \in Int
      BY <1>1
    <3>1. h + 1 <= HourIn(built)
      BY <2>1, <3>0
    <3> QED
      BY <2>2, <2>3, <2>4, <3>1 DEF HoursAsked
  <2>6. \A c : c \in Opens(u.from, u.to) <=> c \in Int /\ u.from <= c /\ c < u.to /\ Multiple(c, Frame)
    BY <1>4, OpensMultiple
  <2>7. RowsIn(u) \subseteq Opens(u.from, u.to)
    <3>1. \A c \in HourRows(t, h) : c \in Int /\ Multiple(c, Frame)
      BY <1>0, <1>1, <1>3, HourRowsRun, OpensMultiple
    <3> QED
      BY <1>5, <2>6, <3>1 DEF RowsIn
  <2>8. ASSUME NEW c \in Opens(u.from, u.to) PROVE c \in RowsIn(u)
    <3>1. c \in Int /\ u.from <= c /\ c < u.to /\ Multiple(c, Frame)
      BY <2>6
    <3>2. from <= c /\ c < to /\ s <= c /\ c < s + HourMs
      <4>1. u.from >= from /\ u.from >= s /\ u.to <= to /\ u.to <= s + HourMs
        BY <1>0, <1>2, <1>3, BoundsMultiple
      <4> QED
        BY <1>0, <1>3, <1>4, <3>1, <4>1
    <3>3. DayOf(c) = t /\ HourIn(c) = h
      BY <1>0, <1>1, <3>1, <3>2, OfHour
    <3>4. c + Frame <= to
      BY <1>0, <1>1, <3>1, <3>2, MultipleApart, Calendar
    <3>5. c \in Owed(from, to, built)
      <4>1. c \in Opens(from, to)
        BY <1>0, <3>1, <3>2, OpensMultiple
      <4> QED
        BY <2>1, <3>3, <3>4, <4>1 DEF Owed
    <3>6. c \in HourRows(t, h)
      BY <1>0, <3>3, <3>5 DEF Present
    <3> QED
      BY <1>5, <3>1, <3>6 DEF RowsIn
  <2> QED
    BY <2>5, <2>7, <2>8
<1> QED
  BY <1>2, <1>4, <1>7, <1>8 DEF u

\* An hour of a later day than the targets' has an empty window.
LEMMA LaterIsEmpty ==
    ASSUME NEW from, NEW to, NEW built, AllThere(from, to, built),
           NEW d \in Day, DayOf(built) < d, NEW h \in HoursAsked(d, from, to, built)
    PROVE  LET u == HourTarget(d, h, from, to, built)
           IN  ~u.check /\ RowsIn(u) = {}
<1> DEFINE t == DayOf(built)
           u == HourTarget(d, h, from, to, built)
           s == HourStart(d, h)
<1>0. /\ from \in Int /\ to \in Int /\ t \in Day /\ t \in Int /\ to <= Midnight(t + 1)
      /\ d \in Int /\ h \in Hour /\ h \in Int /\ HourMs \in Nat /\ HourMs > 0
      /\ FilesOK
  BY TimeParts, Calendar DEF AllThere, Day, HoursAsked, Hour
<1>1. /\ u.from = Greatest(from, s) /\ u.to = Least(to, s + HourMs) /\ u.hour = h /\ u.file = t /\ u.day = d
      /\ u.check => s + HourMs <= to
  BY DEF HourTarget, Target
<1> HIDE DEF u
<1>2. s \in Int /\ to <= s
  <2>1. s \in Int /\ Midnight(d) \in Int /\ Midnight(d) <= s
    BY <1>0, HourSpan
  <2>2. t + 1 \in Int /\ Midnight(t + 1) \in Int /\ Midnight(t + 1) <= Midnight(d)
    <3>1. t + 1 \in Int /\ t + 1 <= d
      BY <1>0
    <3> QED
      BY <1>0, <3>1, Midnights
  <2> QED
    BY <1>0, <2>1, <2>2
<1> HIDE DEF s
<1>3. ~u.check
  BY <1>0, <1>1, <1>2
<1>4. u.from \in Int /\ u.to \in Int /\ u.to <= u.from
  BY <1>0, <1>1, <1>2 DEF Greatest, Least
<1>5. ASSUME NEW c \in RowsIn(u) PROVE FALSE
  <2>1. h # WholeDay
    BY <1>0 DEF Hour, WholeDay
  <2>2. PICK i \in 0..(hourFile[t][h] - 1) : c = HourStart(d, h) + i * Frame
    BY <1>1, <2>1 DEF RowsIn, Rows, RowsAsOf
  <2>3. hourFile[t][h] \in Int /\ Frame \in Int
    BY <1>0, Calendar DEF FilesOK, PartitionsOK
  <2>4. c \in Int
    BY <1>2, <2>2, <2>3 DEF s
  <2> QED
    BY <1>4, <2>4 DEF RowsIn
<1> QED
  BY <1>3, <1>5 DEF u

\* A target is of an earlier day than the clock's, or of an hour of that or a later day.
LEMMA TargetKinds ==
    ASSUME NEW from, NEW to, NEW built, built \in Time, NEW u \in Targets(from, to, built)
    PROVE  \/ \E d \in Day : /\ DayOf(from) <= d /\ d <= DayOf(to) /\ d < DayOf(built)
                             /\ u = DayTarget(d, from, to)
           \/ \E h \in HoursAsked(DayOf(built), from, to, built) :
                /\ DayOf(from) <= DayOf(built) /\ DayOf(built) <= DayOf(to)
                /\ u = HourTarget(DayOf(built), h, from, to, built)
           \/ \E d \in Day : /\ DayOf(built) < d
                             /\ \E h \in HoursAsked(d, from, to, built) : u = HourTarget(d, h, from, to, built)
<1>1. \A d \in Day : d \in Int /\ DayOf(built) \in Int
  BY TimeParts DEF Day
<1>2. CASE \E d \in DaysAsked(from, to) : d < DayOf(built) /\ u = DayTarget(d, from, to)
  BY <1>2 DEF DaysAsked
<1>3. ASSUME NEW d \in DaysAsked(from, to), DayOf(built) <= d,
             NEW h \in HoursAsked(d, from, to, built), u = HourTarget(d, h, from, to, built)
      PROVE  \/ /\ d = DayOf(built)
                /\ DayOf(from) <= DayOf(built) /\ DayOf(built) <= DayOf(to)
             \/ d \in Day /\ DayOf(built) < d
  BY <1>1, <1>3 DEF DaysAsked
<1>4. \/ \E d \in DaysAsked(from, to) : d < DayOf(built) /\ u = DayTarget(d, from, to)
      \/ \E d \in DaysAsked(from, to) : DayOf(built) <= d
            /\ \E h \in HoursAsked(d, from, to, built) : u = HourTarget(d, h, from, to, built)
  BY DEF Targets
<1> QED
  BY <1>2, <1>3, <1>4

\* No target has an issue of its own.
LEMMA TargetsAreFull ==
    ASSUME NEW from, NEW to, NEW built, AllThere(from, to, built), NEW u \in Targets(from, to, built)
    PROVE  /\ CountIssues(u) \cup WrongSteps(u) \cup MissingIntervals(u) = {}
           /\ u.check /\ RowsIn(u) # {}
                => u.from < u.to /\ MinOf(RowsIn(u)) = u.from /\ MaxOf(RowsIn(u)) + Frame = u.to
<1>1. ASSUME u.from \in Int, u.to \in Int, Multiple(u.from, Frame), Multiple(u.to, Frame),
             RowsIn(u) = Opens(u.from, u.to)
      PROVE  /\ CountIssues(u) \cup WrongSteps(u) \cup MissingIntervals(u) = {}
             /\ RowsIn(u) # {}
                  => u.from < u.to /\ MinOf(RowsIn(u)) = u.from /\ MaxOf(RowsIn(u)) + Frame = u.to
  BY <1>1, FullHasNoIssue, OpensEnds
<1>2. ASSUME NEW d \in Day, d < DayOf(built), u = DayTarget(d, from, to)
      PROVE  /\ u.from \in Int /\ u.to \in Int /\ Multiple(u.from, Frame) /\ Multiple(u.to, Frame)
             /\ RowsIn(u) = Opens(u.from, u.to)
  BY <1>2, DayIsFull
<1>3. ASSUME NEW h \in HoursAsked(DayOf(built), from, to, built), u = HourTarget(DayOf(built), h, from, to, built)
      PROVE  /\ u.from \in Int /\ u.to \in Int /\ Multiple(u.from, Frame) /\ Multiple(u.to, Frame)
             /\ RowsIn(u) \subseteq Int /\ Run(RowsIn(u))
             /\ u.check => RowsIn(u) = Opens(u.from, u.to)
  BY <1>3, HourIsFull
<1>4. ASSUME NEW d \in Day, DayOf(built) < d, NEW h \in HoursAsked(d, from, to, built),
             u = HourTarget(d, h, from, to, built)
      PROVE  ~u.check /\ RowsIn(u) \subseteq Int /\ Run(RowsIn(u))
  BY <1>4, LaterIsEmpty DEF Run
<1>5. built \in Time
  BY DEF AllThere
<1> QED
  BY <1>1, <1>2, <1>3, <1>4, <1>5, TargetKinds, UncheckedHasNoIssue

\* Two targets with candles and no other target between them meet at their boundary.
LEMMA Neighbours ==
    ASSUME NEW from, NEW to, NEW built, AllThere(from, to, built),
           NEW p \in Targets(from, to, built), NEW v \in Targets(from, to, built),
           p.check, v.check, RowsIn(p) # {}, RowsIn(v) # {}, p.from < v.from,
           \A w \in Targets(from, to, built) : ~(p.from < w.from /\ w.from < v.from)
    PROVE  p.to = v.from
<1> DEFINE us == Targets(from, to, built)
           t == DayOf(built)
<1>0. /\ FilesOK /\ from \in Int /\ to \in Int /\ built \in Time /\ t \in Day /\ t \in Int
      /\ DayMs \in Nat /\ DayMs > 0 /\ HourMs \in Nat /\ HourMs > 0
      /\ p.from < p.to /\ v.from < v.to
  BY TimeParts, TargetsAreFull, Calendar DEF AllThere, Day
<1>m. /\ \A d \in Int : Midnight(d) \in Int /\ d + 1 \in Int /\ Midnight(d + 1) = Midnight(d) + DayMs
      /\ \A d, e \in Int : d < e => Midnight(d) + DayMs <= Midnight(e)
      /\ \A d, e \in Int : d <= e => Midnight(d) <= Midnight(e)
  BY Midnights
<1>h. /\ \A h \in Int : HourStart(t, h) \in Int /\ HourStart(t, h + 1) = HourStart(t, h) + HourMs
      /\ \A g, h \in Int : g < h => HourStart(t, g) + HourMs <= HourStart(t, h)
      /\ HourStart(t, 0) = Midnight(t)
  BY <1>0, Hours
<1>1. ASSUME NEW d \in Day, DayOf(from) <= d, d <= DayOf(to), d < t
      PROVE  LET u == DayTarget(d, from, to)
             IN  /\ u \in us /\ d \in Int
                 /\ u.from = Greatest(from, Midnight(d)) /\ u.to = Least(to, Midnight(d + 1))
                 /\ u.from \in Int /\ u.to \in Int
  BY <1>1, DayIsFull DEF Targets, DaysAsked, Day
<1>2. ASSUME NEW h \in HoursAsked(t, from, to, built), DayOf(from) <= t, t <= DayOf(to)
      PROVE  LET u == HourTarget(t, h, from, to, built)
             IN  /\ u \in us /\ h \in Int /\ 0 <= h
                 /\ u.from = Greatest(from, HourStart(t, h))
                 /\ u.to = Least(to, HourStart(t, h) + HourMs)
                 /\ u.from \in Int /\ u.to \in Int
                 /\ u.check => h + 1 \in HoursAsked(t, from, to, built)
  <2>1. t \in DaysAsked(from, to) /\ t <= t
    BY <1>0, <1>2 DEF DaysAsked
  <2>2. HourTarget(t, h, from, to, built) \in us
    BY <2>1 DEF Targets
  <2>3. h \in Int /\ 0 <= h
    BY DEF HoursAsked, Hour
  <2> QED
    BY <2>2, <2>3, HourIsFull
<1> HIDE DEF us
<1>us. \A w \in us : ~(p.from < w.from /\ w.from < v.from)
  BY DEF us
<1>dd. ASSUME NEW d \in Day, DayOf(from) <= d, d <= DayOf(to), d < t, p = DayTarget(d, from, to)
       PROVE  /\ d \in Int /\ d < t /\ p.from \in Int /\ p.to \in Int
              /\ from <= p.from /\ Midnight(d) <= p.from
              /\ p.to = Least(to, Midnight(d + 1)) /\ from < Midnight(d + 1) /\ p.from < Midnight(d + 1)
  <2>1. /\ d \in Int /\ d < t /\ p.from \in Int /\ p.to \in Int
        /\ p.from = Greatest(from, Midnight(d)) /\ p.to = Least(to, Midnight(d + 1))
    BY <1>1, <1>dd
  <2>2. Midnight(d) \in Int /\ Midnight(d + 1) \in Int
    BY <1>m, <2>1
  <2> QED
    BY <1>0, <2>1, <2>2 DEF Greatest, Least
<1>3. ASSUME NEW d \in Day, DayOf(from) <= d, d <= DayOf(to), d < t, p = DayTarget(d, from, to),
             NEW e \in Day, DayOf(from) <= e, e <= DayOf(to), e < t, v = DayTarget(e, from, to)
      PROVE  p.to = v.from
  <2>1. /\ d \in Int /\ d < t /\ p.from \in Int /\ p.to \in Int
        /\ from <= p.from /\ Midnight(d) <= p.from
        /\ p.to = Least(to, Midnight(d + 1)) /\ from < Midnight(d + 1) /\ p.from < Midnight(d + 1)
    BY <1>3, <1>dd
  <2>2. /\ e \in Int /\ e < t /\ v.from \in Int /\ v.to \in Int
        /\ v.from = Greatest(from, Midnight(e)) /\ v.to = Least(to, Midnight(e + 1))
    BY <1>1, <1>3
  <2>m. Midnight(d) \in Int /\ Midnight(e) \in Int /\ Midnight(d + 1) \in Int /\ Midnight(e + 1) \in Int
    BY <1>m, <2>1, <2>2
  <2>3. d < e
    <3> SUFFICES ASSUME e <= d PROVE FALSE
      BY <2>1, <2>2
    <3>1. Midnight(e) <= Midnight(d)
      BY <1>m, <2>1, <2>2
    <3> QED
      BY <1>0, <2>1, <2>2, <2>m, <3>1 DEF Greatest
  <2>4. e = d + 1
    <3> SUFFICES ASSUME d + 1 < e PROVE FALSE
      BY <2>1, <2>2, <2>3
    <3> DEFINE w == DayTarget(d + 1, from, to)
    <3>1. d + 1 \in Day /\ DayOf(from) <= d + 1 /\ d + 1 <= DayOf(to) /\ d + 1 < t
      <4>1. DayOf(from) \in Int /\ DayOf(to) \in Int
        BY <1>0, InDay
      <4>2. LastDay \in Nat /\ e <= LastDay /\ 0 <= d
        BY Calendar DEF Day
      <4> QED
        BY <1>0, <1>3, <2>1, <2>2, <4>1, <4>2 DEF Day
    <3>2. w \in us /\ w.from = Greatest(from, Midnight(d + 1))
      BY <1>1, <3>1
    <3> HIDE DEF w
    <3>3. Midnight(d + 1) + DayMs <= Midnight(e)
      BY <1>m, <2>1, <2>2
    <3>4. w.from = Midnight(d + 1)
      BY <1>0, <2>1, <2>m, <3>2 DEF Greatest
    <3>5. p.from < w.from
      BY <2>1, <3>4
    <3>6. w.from < v.from
      BY <1>0, <2>2, <2>m, <3>3, <3>4 DEF Greatest
    <3> QED
      BY <1>us, <3>2, <3>5, <3>6
  <2>5. Midnight(e) < to
    BY <1>0, <2>2, <2>m DEF Greatest, Least
  <2>6. p.to = Midnight(e) /\ v.from = Midnight(e)
    BY <1>0, <2>1, <2>2, <2>4, <2>5, <2>m DEF Greatest, Least
  <2> QED
    BY <2>6
<1>4. ASSUME NEW d \in Day, DayOf(from) <= d, d <= DayOf(to), d < t, p = DayTarget(d, from, to),
             NEW h \in HoursAsked(t, from, to, built), DayOf(from) <= t, t <= DayOf(to),
             v = HourTarget(t, h, from, to, built)
      PROVE  p.to = v.from
  <2>1. /\ d \in Int /\ d < t /\ p.from \in Int /\ p.to \in Int
        /\ from <= p.from /\ Midnight(d) <= p.from
        /\ p.to = Least(to, Midnight(d + 1)) /\ from < Midnight(d + 1) /\ p.from < Midnight(d + 1)
    BY <1>4, <1>dd
  <2>2. /\ h \in Int /\ 0 <= h /\ v.from \in Int /\ v.to \in Int
        /\ v.from = Greatest(from, HourStart(t, h)) /\ v.to = Least(to, HourStart(t, h) + HourMs)
    BY <1>2, <1>4
  <2>m. Midnight(d + 1) \in Int /\ Midnight(t) \in Int /\ Midnight(d + 1) <= Midnight(t) /\ d + 1 \in Int
    <3>1. d + 1 \in Int /\ d + 1 <= t
      BY <1>0, <2>1
    <3> QED
      BY <1>0, <1>m, <3>1
  <2>h. HourStart(t, h) \in Int /\ Midnight(t) <= HourStart(t, h)
    <3>1. h \in Hour
      BY DEF HoursAsked
    <3> QED
      BY <1>0, <3>1, HourSpan
  <2>3. h = 0
    <3> SUFFICES ASSUME 0 < h PROVE FALSE
      BY <2>2
    <3>1. 0 \in HoursAsked(t, from, to, built)
      <4>1. 0 \in Hour /\ HourIn(built) \in Hour /\ HourIn(to) \in Hour
        <5>1. built \in Int
          BY <1>0, TimeParts
        <5>2. HoursPerDay \in Nat /\ HoursPerDay > 0
          BY Calendar
        <5> QED
          BY <1>0, <5>1, <5>2, InHour DEF Hour
      <4>2. DayOf(from) # t
        <5>1. DayOf(from) \in Int
          BY <1>0, InDay
        <5> QED
          BY <1>4, <1>0, <2>1, <5>1
      <4> QED
        BY <4>1, <4>2 DEF HoursAsked, Hour
    <3> DEFINE w == HourTarget(t, 0, from, to, built)
    <3>2. w \in us /\ w.from = Greatest(from, HourStart(t, 0))
      BY <1>2, <1>4, <3>1
    <3> HIDE DEF w
    <3>3. w.from = Midnight(t)
      BY <1>0, <1>h, <2>1, <2>m, <3>2 DEF Greatest
    <3>4. p.from < w.from
      BY <2>1, <2>m, <3>3
    <3>5. HourStart(t, 0) + HourMs <= HourStart(t, h)
      <4>1. 0 \in Int
        OBVIOUS
      <4> QED
        BY <1>h, <2>2, <4>1
    <3>0. HourStart(t, 0) = Midnight(t)
      BY <1>h
    <3>6. w.from < v.from
      BY <1>0, <2>2, <2>h, <2>m, <3>0, <3>3, <3>5 DEF Greatest
    <3> QED
      BY <1>us, <3>2, <3>4, <3>6
  <2>4. d + 1 = t
    <3> SUFFICES ASSUME d + 1 < t PROVE FALSE
      BY <1>0, <2>1
    <3> DEFINE w == DayTarget(d + 1, from, to)
    <3>1. d + 1 \in Day /\ DayOf(from) <= d + 1 /\ d + 1 <= DayOf(to) /\ d + 1 < t
      <4>1. DayOf(from) \in Int /\ DayOf(to) \in Int
        BY <1>0, InDay
      <4>2. LastDay \in Nat /\ t <= LastDay /\ 0 <= d
        BY <1>0, Calendar DEF Day
      <4> QED
        BY <1>0, <1>4, <2>1, <4>1, <4>2 DEF Day
    <3>2. w \in us /\ w.from = Greatest(from, Midnight(d + 1))
      BY <1>1, <3>1
    <3> HIDE DEF w
    <3>3. Midnight(d + 1) + DayMs <= Midnight(t)
      BY <1>0, <1>m, <2>m
    <3>4. w.from = Midnight(d + 1)
      BY <1>0, <2>1, <2>m, <3>2 DEF Greatest
    <3>5. p.from < w.from
      BY <2>1, <3>4
    <3>6. w.from < v.from
      BY <1>0, <2>2, <2>h, <2>m, <3>3, <3>4 DEF Greatest
    <3> QED
      BY <1>us, <3>2, <3>5, <3>6
  <2>5. HourStart(t, h) = Midnight(t)
    BY <1>h, <2>3
  <2>6. Midnight(t) < to
    BY <1>0, <2>2, <2>5, <2>m DEF Greatest, Least
  <2>7. p.to = Midnight(t) /\ v.from = Midnight(t)
    BY <1>0, <2>1, <2>2, <2>4, <2>5, <2>6, <2>m DEF Greatest, Least
  <2> QED
    BY <2>7
<1>5. ASSUME NEW h \in HoursAsked(t, from, to, built), DayOf(from) <= t, t <= DayOf(to),
             p = HourTarget(t, h, from, to, built),
             NEW d \in Day, DayOf(from) <= d, d <= DayOf(to), d < t, v = DayTarget(d, from, to)
      PROVE  FALSE
  <2>1. /\ h \in Int /\ 0 <= h /\ p.from \in Int
        /\ p.from = Greatest(from, HourStart(t, h))
    BY <1>2, <1>5
  <2>2. /\ d \in Int /\ d < t /\ v.from \in Int /\ v.to \in Int
        /\ v.from = Greatest(from, Midnight(d)) /\ v.to = Least(to, Midnight(d + 1))
    BY <1>1, <1>5
  <2>m. /\ Midnight(d + 1) \in Int /\ Midnight(t) \in Int /\ Midnight(d + 1) <= Midnight(t)
        /\ Midnight(d) \in Int
    <3>1. d + 1 \in Int /\ d + 1 <= t
      BY <1>0, <2>2
    <3> QED
      BY <1>0, <1>m, <2>2, <3>1
  <2>h. HourStart(t, h) \in Int /\ Midnight(t) <= HourStart(t, h)
    <3>1. h \in Hour
      BY DEF HoursAsked
    <3> QED
      BY <1>0, <3>1, HourSpan
  <2>3. v.from < Midnight(t)
    BY <1>0, <2>2, <2>m DEF Least
  <2>4. Midnight(t) <= p.from
    BY <1>0, <2>1, <2>h, <2>m DEF Greatest
  <2> QED
    BY <2>1, <2>2, <2>3, <2>4, <2>m
<1>6. ASSUME NEW g \in HoursAsked(t, from, to, built), DayOf(from) <= t, t <= DayOf(to),
             p = HourTarget(t, g, from, to, built),
             NEW h \in HoursAsked(t, from, to, built), v = HourTarget(t, h, from, to, built)
      PROVE  p.to = v.from
  <2>1. /\ g \in Int /\ p.from \in Int /\ p.to \in Int
        /\ p.from = Greatest(from, HourStart(t, g)) /\ p.to = Least(to, HourStart(t, g) + HourMs)
        /\ g + 1 \in HoursAsked(t, from, to, built)
    BY <1>2, <1>6
  <2>2. /\ h \in Int /\ v.from \in Int /\ v.to \in Int
        /\ v.from = Greatest(from, HourStart(t, h)) /\ v.to = Least(to, HourStart(t, h) + HourMs)
    BY <1>2, <1>6
  <2>m. /\ HourStart(t, g) \in Int /\ HourStart(t, h) \in Int
        /\ HourStart(t, g + 1) = HourStart(t, g) + HourMs
    BY <1>h, <2>1, <2>2
  <2>3. g < h
    <3> SUFFICES ASSUME h <= g PROVE FALSE
      BY <2>1, <2>2
    <3>1. HourStart(t, h) <= HourStart(t, g)
      <4>1. h = g \/ h < g
        BY <2>1, <2>2
      <4>2. h < g => HourStart(t, h) + HourMs <= HourStart(t, g)
        BY <1>h, <2>1, <2>2
      <4> QED
        BY <1>0, <2>m, <4>1, <4>2
    <3> QED
      BY <1>0, <2>1, <2>2, <2>m, <3>1 DEF Greatest
  <2>f. from < HourStart(t, g) + HourMs
    BY <1>0, <2>1, <2>m DEF Greatest, Least
  <2>4. h = g + 1
    <3> SUFFICES ASSUME g + 1 < h PROVE FALSE
      BY <2>1, <2>2, <2>3
    <3> DEFINE w == HourTarget(t, g + 1, from, to, built)
    <3>1. w \in us /\ w.from = Greatest(from, HourStart(t, g + 1))
      BY <1>2, <1>6, <2>1
    <3> HIDE DEF w
    <3>2. w.from = HourStart(t, g) + HourMs
      BY <1>0, <2>f, <2>m, <3>1 DEF Greatest
    <3>3. p.from < w.from
      BY <1>0, <2>1, <2>m, <3>2 DEF Least
    <3>4. HourStart(t, g + 1) + HourMs <= HourStart(t, h)
      <4>1. g + 1 \in Int
        BY <2>1
      <4> QED
        BY <1>h, <2>2, <4>1
    <3>5. w.from < v.from
      BY <1>0, <2>2, <2>m, <3>2, <3>4 DEF Greatest
    <3> QED
      BY <1>us, <3>1, <3>3, <3>5
  <2>5. HourStart(t, h) = HourStart(t, g) + HourMs
    BY <2>4, <2>m
  <2>6. v.from = HourStart(t, h)
    BY <1>0, <2>2, <2>f, <2>m, <2>5 DEF Greatest
  <2>7. HourStart(t, h) < to
    BY <1>0, <2>2, <2>6, <2>m DEF Least
  <2> QED
    BY <1>0, <2>1, <2>5, <2>6, <2>7, <2>m DEF Least
<1>7. ASSUME NEW u \in us, u.check
      PROVE  \/ \E d \in Day : /\ DayOf(from) <= d /\ d <= DayOf(to) /\ d < t
                               /\ u = DayTarget(d, from, to)
             \/ \E h \in HoursAsked(t, from, to, built) :
                  /\ DayOf(from) <= t /\ t <= DayOf(to)
                  /\ u = HourTarget(t, h, from, to, built)
  BY <1>0, <1>7, TargetKinds, LaterIsEmpty DEF us
<1>8. p \in us /\ v \in us
  BY DEF us
<1> QED
  BY <1>3, <1>4, <1>5, <1>6, <1>7, <1>8

\* A request whose candles are there has no issues.
LEMMA NothingToReport ==
    ASSUME NEW from, NEW to, NEW built, AllThere(from, to, built)
    PROVE  Audit(Targets(from, to, built)) = {}
<1> DEFINE us == Targets(from, to, built)
<1>1. \A u \in us : CountIssues(u) \cup WrongSteps(u) \cup MissingIntervals(u) = {}
  BY TargetsAreFull
<1>2. ASSUME NEW v \in us, v.check, RowsIn(v) # {},
             NEW p \in us, p.check, p.from < v.from, RowsIn(p) # {},
             \A w \in us : ~(p.from < w.from /\ w.from < v.from)
      PROVE  MinOf(RowsIn(v)) = MaxOf(RowsIn(p)) + Frame
  <2>1. p.to = v.from
    BY <1>2, Neighbours
  <2>2. MinOf(RowsIn(v)) = v.from
    BY <1>2, TargetsAreFull
  <2>3. MaxOf(RowsIn(p)) + Frame = p.to
    BY <1>2, TargetsAreFull
  <2> QED
    BY <2>1, <2>2, <2>3
<1> HIDE DEF us
<1>3. BoundaryGaps(us) = {}
  BY <1>2 DEF BoundaryGaps
<1>4. Audit(us) = {}
  BY <1>1, <1>3 DEF Audit
<1> QED
  BY <1>4 DEF us

\* The first audit of a request for whole candles, up to the day its targets were
\* built, repairs nothing when all that is owed is in the files.
THEOREM NothingIsRepaired ==
    Spec => NoNeedlessRepair
<1> DEFINE Needless(q) ==
        /\ query[q].pc = "audit" /\ query'[q].pc = "repair"
        /\ query[q].from % Frame = 0 /\ query[q].to % Frame = 0
        /\ query[q].to <= Midnight(DayOf(query[q].built) + 1)
        /\ \A c \in Owed(query[q].from, query[q].to, query[q].built) : Present(c, query[q].built)
<1>1. ASSUME IInv, [Next]_vars, NEW q \in Queries, Needless(q) PROVE FALSE
  <2>1. query \in [Queries -> Requests] /\ query[q].pc = "audit" /\ query'[q].pc = "repair"
    BY <1>1 DEF IInv, Typed
  <2>2. FirstAudit(q)
    <3>1. query'[q] # query[q]
      BY <2>1
    <3>2. NoQuery.pc # "repair" /\ [NoQuery EXCEPT !.pc = "over"].pc # "repair"
      BY DEF NoQuery
    <3>3. \E p \in Queries : Arrive(p) \/ Disconnect(p) \/ Step(p)
      BY <1>1, <3>1 DEF Next, vars, Tick, OtherRequest
    <3>4. PICK p \in Queries : Arrive(p) \/ Disconnect(p) \/ Step(p)
      BY <3>3
    <3>5. ~Arrive(p)
      BY <2>1, <3>1, <3>2 DEF Arrive, NoQuery
    <3>6. ~Disconnect(p)
      <4>1. query[q] \in Requests
        BY <2>1
      <4>2. [query[q] EXCEPT !.gone = TRUE].pc = query[q].pc
        BY <4>1 DEF Requests
      <4>3. ASSUME Disconnect(p) PROVE FALSE
        <5>1. query' = [query EXCEPT ![p] = [query[p] EXCEPT !.gone = TRUE]]
          BY <4>3 DEF Disconnect
        <5> QED
          BY <2>1, <4>2, <5>1
      <4> QED
        BY <4>3
    <3>7. Step(p)
      BY <3>4, <3>5, <3>6
    <3>8. p = q
      <4>1. p # q => query'[q] = query[q]
        BY <2>1, <3>7 DEF Step, LoadDay, LoadCancelled, BuildTargets, FirstAudit, RepairDone, Repaired,
            SecondAudit, ReadAnswer, Reply, Acquire, Skip, RepairDay, Goto, Fail, StartRepair
      <4> QED
        BY <3>1, <4>1
    <3>9. FirstAudit(q) \/ LoadDay(q) \/ LoadCancelled(q) \/ BuildTargets(q) \/ RepairDone(q)
            \/ SecondAudit(q) \/ ReadAnswer(q) \/ Reply(q)
            \/ \E d \in Day : Acquire(q, d) \/ Skip(q, d) \/ RepairDay(q, d)
      BY <3>7, <3>8 DEF Step
    <3>10. /\ ~LoadDay(q) /\ ~LoadCancelled(q) /\ ~BuildTargets(q) /\ ~RepairDone(q)
           /\ ~SecondAudit(q) /\ ~ReadAnswer(q) /\ ~Reply(q)
      BY <2>1 DEF LoadDay, LoadCancelled, BuildTargets, RepairDone, SecondAudit, ReadAnswer, Reply
    <3>11. ASSUME NEW d \in Day PROVE ~(Acquire(q, d) \/ Skip(q, d) \/ RepairDay(q, d))
      <4>1. <<q, d>> \notin holders
        BY <1>1, <2>1, NoPlaces
      <4> QED
        BY <2>1, <4>1 DEF Acquire, Skip, RepairDay
    <3> QED
      BY <3>9, <3>10, <3>11
  <2> DEFINE from == query[q].from
             to == query[q].to
             built == query[q].built
             us == TargetsOf(q)
  <2>3. Audit(us) # {} /\ \A u \in us : ~Stops(u)
    <3>1. ~Fail(q)
      BY <2>1 DEF Fail, NoQuery
    <3>2. ~Goto(q, "stopped") /\ ~Goto(q, "read")
      <4>1. query[q] \in Requests
        BY <2>1
      <4>2. [query[q] EXCEPT !.pc = "stopped"].pc = "stopped" /\ [query[q] EXCEPT !.pc = "read"].pc = "read"
        BY <4>1 DEF Requests
      <4> QED
        BY <2>1, <4>2 DEF Goto
    <3> QED
      BY <2>2, <3>1, <3>2 DEF FirstAudit
  <2>4. from \in Nat /\ to \in Nat /\ built \in Time /\ FilesOK
    BY <1>1, RequestTyped
  <2>5. Multiple(from, Frame) /\ Multiple(to, Frame) /\ to <= Midnight(DayOf(built) + 1)
    <3>1. Frame \in Nat /\ Frame > 0 /\ from \in Int /\ to \in Int
      BY <2>4, Calendar
    <3>2. from % Frame = 0 /\ to % Frame = 0 /\ to <= Midnight(DayOf(built) + 1)
      BY <1>1
    <3> HIDE DEF from, to
    <3>3. Multiple(from, Frame) /\ Multiple(to, Frame)
      BY <3>1, <3>2, MultipleMod
    <3> QED
      BY <3>2, <3>3
  <2>6. us = Targets(from, to, built)
    BY DEF TargetsOf
  <2>7. \A c \in Owed(from, to, built) : Present(c, built)
    BY <1>1
  <2> HIDE DEF from, to, built, us
  <2>8. AllThere(from, to, built)
    BY <2>3, <2>4, <2>5, <2>6, <2>7 DEF AllThere
  <2> QED
    BY <2>3, <2>6, <2>8, NothingToReport
<1>2. ASSUME IInv, [Next]_vars
      PROVE  \A q \in Queries :
        (query[q].pc = "audit" /\ query'[q].pc = "repair"
            /\ query[q].from % Frame = 0 /\ query[q].to % Frame = 0
            /\ query[q].to <= Midnight(DayOf(query[q].built) + 1))
        => \E c \in Owed(query[q].from, query[q].to, query[q].built) :
                ~Present(c, query[q].built)
  BY <1>1, <1>2
<1> QED
  BY <1>2, Invariant, PTL DEF Spec, NoNeedlessRepair

=============================================================================
