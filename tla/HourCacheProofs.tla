--------------------------- MODULE HourCacheProofs ---------------------------
(***************************************************************************)
(* Proofs about HourCache, for any number of requests, days, hours and     *)
(* candles per hour: the files only hold gap-free prefixes of their own    *)
(* hour, HourCache implements HourStore, and the whole file of a completed *)
(* hour is whole for ever once the hour's refreshes have ended.  Of one    *)
(* request at a time: what it delivers is whole.                           *)
(***************************************************************************)
EXTENDS HourCache, TLAPS

\* A series that may be written to the file of hour h in the directory of a day: candles
\* of that hour, none missing before one that is there, no row from a later day.
HourSeries(s, h, day) ==
    /\ IsSeries(s, Candle)
    /\ DOMAIN s \subseteq HourCandles(h)
    /\ \A c \in DOMAIN s : \A r \in Slot : r < c[3] => <<c[1], c[2], r>> \in DOMAIN s
    /\ \A c \in DOMAIN s : s[c].day <= day

Refreshing == {"r_read", "r_fetch", "r_write", "r_audit"}
Loading    == {"load", "l_audit", "l_unread", "s_fetch", "s_write", "s_audit"}

\* What a refresh between its read and its rename knows of its path and candles, when
\* its label is l, its locals are k and the clock shows t.
RefreshState(l, k, t) ==
    /\ l \in Refreshing => k.cap[1] <= t[1]
    /\ l \in {"r_fetch", "r_write"} =>
        /\ k.path[2] = k.cap[2]
        /\ k.cap[1] <= k.path[1]
        /\ HourSeries(k.buf, HourOf(k.cap), k.path[1])
    /\ l = "r_write" => DOMAIN k.buf # {}

\* The same for a load that seals, and for the loop of FetchAndCacheCurrentDay.
LoadState(l, j, k, t) ==
    /\ l # "idle" => j.mid <= t[1]
    /\ l \in Loading => j.op \in {"load", "day"}
    /\ (l \in Loading /\ j.op = "day") => j.hour < j.cur
    /\ l \in {"s_fetch", "s_write"} =>
        /\ k.path[2] = j.hour
        /\ j.mid <= k.path[1]
    /\ l = "s_write" =>
        /\ HourSeries(k.buf, <<j.mid, j.hour>>, k.path[1])
        /\ DOMAIN k.buf # {}

FilesOK ==
    \A q \in Path : /\ IsSeries(file[q], Tod)
                    /\ \A t \in DOMAIN file[q] : t[1] = q[2]
                    /\ \A t \in DOMAIN file[q] : file[q][t].day <= q[1]
                    /\ \A t \in DOMAIN file[q] : \A s \in Slot :
                            s < t[2] => <<t[1], s>> \in DOMAIN file[q]

IInv ==
    /\ TypeOK
    /\ FilesOK
    /\ \A p \in Procs : /\ RefreshState(pc[p], loc[p], now)
                        /\ LoadState(pc[p], job[p], loc[p], now)

-----------------------------------------------------------------------------
(* Series.                                                                  *)

\* No rows at all are a series of any keys.
LEMMA NoRowsSeries ==
    ASSUME NEW keys
    PROVE  IsSeries(NoRows, keys) /\ DOMAIN NoRows = {}
  BY DEF IsSeries, NoRows

\* What the calendar's constants are.
LEMMA Calendar ==
    /\ LastDay \in Nat
    /\ HoursPerDay \in Nat /\ HoursPerDay > 1
    /\ FramesPerHour \in Nat /\ FramesPerHour > 0
    /\ 0 \in Day /\ 0 \in Hour /\ 0 \in Slot
  BY CalendarAssumption DEF Day, Hour, Slot

\* A candle of an hour is named by its slot.
LEMMA HourCandle ==
    ASSUME NEW h \in Path, NEW c \in HourCandles(h)
    PROVE  /\ c \in Candle
           /\ c = <<h[1], h[2], c[3]>>
           /\ c[1] = h[1] /\ c[2] = h[2] /\ c[3] \in Slot
           /\ TodOf(c) = <<h[2], c[3]>>
  BY DEF HourCandles, HourOf, TodOf, Candle, Path

\* Storing a series of one hour keeps its candles apart.
LEMMA StoredSeries ==
    ASSUME NEW h \in Path, NEW d \in Day, NEW s, HourSeries(s, h, d)
    PROVE  /\ IsSeries(Stored(s), Tod)
           /\ \A t \in DOMAIN Stored(s) : t[1] = h[2]
           /\ \A t \in DOMAIN Stored(s) : Stored(s)[t].day <= d
           /\ \A t \in DOMAIN Stored(s) : \A r \in Slot :
                    r < t[2] => <<t[1], r>> \in DOMAIN Stored(s)
           /\ DOMAIN s # {} => DOMAIN Stored(s) # {}
<1> DEFINE f == Stored(s)
<1>1. DOMAIN f = {TodOf(c) : c \in DOMAIN s} /\ f = [t \in DOMAIN f |-> f[t]]
  BY DEF Stored
<1>2. \A t \in DOMAIN f : \E c \in DOMAIN s : TodOf(c) = t /\ f[t] = s[c]
  BY DEF Stored
<1> HIDE DEF f
<1>3. ASSUME NEW t \in DOMAIN f
      PROVE  /\ t \in Tod /\ t[1] = h[2]
             /\ f[t] \in Row /\ f[t].day <= d
             /\ <<h[1], h[2], t[2]>> \in DOMAIN s
  <2>1. PICK c \in DOMAIN s : TodOf(c) = t /\ f[t] = s[c]
    BY <1>2
  <2>2. c \in HourCandles(h)
    BY DEF HourSeries
  <2>3. t = <<h[2], c[3]>> /\ c[3] \in Slot /\ c = <<h[1], h[2], c[3]>>
    BY <2>1, <2>2, HourCandle
  <2>4. s[c] \in Row /\ s[c].day <= d
    BY DEF HourSeries, IsSeries
  <2>5. h[2] \in Hour
    BY DEF Path
  <2> QED
    BY <2>1, <2>3, <2>4, <2>5 DEF Tod
<1>4. ASSUME NEW t \in DOMAIN f, NEW r \in Slot, r < t[2]
      PROVE  <<t[1], r>> \in DOMAIN f
  <2>1. /\ <<h[1], h[2], t[2]>> \in DOMAIN s
        /\ t[1] = h[2]
    BY <1>3
  <2>2. <<h[1], h[2], r>> \in DOMAIN s
    BY <2>1, <1>4 DEF HourSeries
  <2>3. TodOf(<<h[1], h[2], r>>) = <<h[2], r>>
    BY DEF TodOf
  <2> QED
    BY <1>1, <2>1, <2>2, <2>3
<1>5. DOMAIN s # {} => DOMAIN f # {}
  BY <1>1
<1> QED
  BY <1>1, <1>3, <1>4, <1>5 DEF IsSeries, f

\* Merging two series of candles gives a series of candles.
LEMMA MergeSeries ==
    ASSUME NEW s, NEW u, IsSeries(s, Candle), IsSeries(u, Candle)
    PROVE  IsSeries(Merge(s, u), Candle)
  BY DEF IsSeries, Merge

\* Reading a file gives candles of the reader's day.
LEMMA ReadSeries ==
    ASSUME NEW f, IsSeries(f, Tod), NEW mid \in Day
    PROVE  /\ IsSeries(Read(f, mid), Candle)
           /\ \A c \in DOMAIN Read(f, mid) :
                /\ c[1] = mid /\ TodOf(c) \in DOMAIN f /\ Read(f, mid)[c] = f[TodOf(c)]
           /\ \A t \in DOMAIN f : <<mid, t[1], t[2]>> \in DOMAIN Read(f, mid)
<1>1. \A t \in DOMAIN f : t \in Tod /\ t = <<t[1], t[2]>> /\ t[1] \in Hour /\ t[2] \in Slot
  BY DEF IsSeries, Tod
<1>2. \A t \in DOMAIN f : /\ <<mid, t[1], t[2]>> \in Candle
                          /\ TodOf(<<mid, t[1], t[2]>>) = t
  BY <1>1 DEF Candle, TodOf
<1> QED
  BY <1>2 DEF IsSeries, Read

\* The exchange's answer: rows of the candles asked for, none later than now.
LEMMA AnswerSeries ==
    ASSUME NEW asked, asked \subseteq Candle, NEW lag \in BOOLEAN
    PROVE  /\ IsSeries(Answer(asked, lag), Candle)
           /\ DOMAIN Answer(asked, lag) =
                {c \in asked : Before(c, now) \/ (c = now /\ ~lag)}
           /\ \A c \in DOMAIN Answer(asked, lag) : Answer(asked, lag)[c].day = c[1]
<1>1. \A c \in Candle : c[1] \in Day
  BY DEF Candle
<1>2. \A c \in Candle : Before(c, now) \in BOOLEAN
  BY DEF Before
<1> QED
  BY <1>1, <1>2 DEF IsSeries, Answer, Row

-----------------------------------------------------------------------------
(* What the steps read and fetch.                                           *)

\* A cached hour, read with the date of the reader, is a series of the reader's hour.
LEMMA ReadHour ==
    ASSUME FilesOK, NEW q \in Path, NEW mid \in Day
    PROVE  HourSeries(Read(file[q], mid), <<mid, q[2]>>, q[1])
<1> DEFINE s == Read(file[q], mid)
<1>1. /\ IsSeries(file[q], Tod)
      /\ \A t \in DOMAIN file[q] : t[1] = q[2] /\ file[q][t].day <= q[1]
      /\ \A t \in DOMAIN file[q] : \A r \in Slot :
            r < t[2] => <<t[1], r>> \in DOMAIN file[q]
  BY DEF FilesOK
<1>2. /\ IsSeries(s, Candle)
      /\ \A c \in DOMAIN s :
            c[1] = mid /\ TodOf(c) \in DOMAIN file[q] /\ s[c] = file[q][TodOf(c)]
      /\ \A t \in DOMAIN file[q] : <<mid, t[1], t[2]>> \in DOMAIN s
  BY <1>1, ReadSeries
<1> HIDE DEF s
<1>3. ASSUME NEW c \in DOMAIN s
      PROVE  /\ c \in HourCandles(<<mid, q[2]>>)
             /\ s[c].day <= q[1]
             /\ \A r \in Slot : r < c[3] => <<c[1], c[2], r>> \in DOMAIN s
  <2>1. c \in Candle /\ c[1] = mid /\ TodOf(c) \in DOMAIN file[q] /\ s[c] = file[q][TodOf(c)]
    BY <1>2 DEF IsSeries
  <2>2. TodOf(c)[1] = c[2] /\ TodOf(c)[2] = c[3]
    BY DEF TodOf
  <2>3. c[2] = q[2] /\ s[c].day <= q[1]
    BY <1>1, <2>1, <2>2
  <2>4. c \in HourCandles(<<mid, q[2]>>)
    BY <2>1, <2>3 DEF HourCandles, HourOf
  <2>5. ASSUME NEW r \in Slot, r < c[3]
        PROVE  <<c[1], c[2], r>> \in DOMAIN s
    <3>1. <<c[2], r>> \in DOMAIN file[q]
      BY <1>1, <2>1, <2>2, <2>5
    <3> DEFINE t == <<c[2], r>>
    <3>2. t[1] = c[2] /\ t[2] = r
      OBVIOUS
    <3> HIDE DEF t
    <3>3. t \in DOMAIN file[q]
      BY <3>1 DEF t
    <3> QED
      BY <1>2, <2>1, <3>2, <3>3
  <2> QED
    BY <2>3, <2>4, <2>5
<1> QED
  BY <1>2, <1>3 DEF HourSeries, s

\* A refresh extends the candles it read without leaving a hole: it asks from the last
\* candle held, and the exchange publishes candles in order.
LEMMA RefreshSeries ==
    ASSUME now \in Candle, NEW h \in Path, NEW d \in Day, h[1] <= d,
           NEW s, HourSeries(s, h, d),
           NEW until \in Candle, HourOf(until) = h, NEW lag \in BOOLEAN
    PROVE  HourSeries(Filter(Merge(s, Answer(AskedByRefresh(s, h, until), lag)), h), h, d)
<1> DEFINE asked == AskedByRefresh(s, h, until)
           got   == Answer(asked, lag)
           all   == Filter(Merge(s, got), h)
<1>1. asked \subseteq Candle
  BY DEF AskedByRefresh
<1>2. /\ IsSeries(got, Candle)
      /\ DOMAIN got = {c \in asked : Before(c, now) \/ (c = now /\ ~lag)}
      /\ \A c \in DOMAIN got : got[c].day = c[1]
  BY <1>1, AnswerSeries
<1> HIDE DEF got
<1>3. /\ DOMAIN all = (DOMAIN s \cup DOMAIN got) \cap HourCandles(h)
      /\ all = [c \in DOMAIN all |-> all[c]]
      /\ \A c \in DOMAIN all : all[c] = IF c \in DOMAIN got THEN got[c] ELSE s[c]
  BY DEF Filter, Merge
<1> HIDE DEF all
<1>4. ASSUME NEW c \in DOMAIN all
      PROVE  c \in Candle /\ all[c] \in Row /\ all[c].day <= d
  <2>1. c \in HourCandles(h) /\ (c \in DOMAIN got \/ c \in DOMAIN s)
    BY <1>3
  <2>2. c \in Candle /\ c[1] = h[1]
    BY <2>1, HourCandle
  <2>3. CASE c \in DOMAIN got
    BY <1>2, <1>3, <2>2, <2>3 DEF IsSeries
  <2>4. CASE c \notin DOMAIN got
    BY <1>3, <2>1, <2>2, <2>4 DEF IsSeries, HourSeries
  <2> QED
    BY <2>3, <2>4
<1>5. ASSUME NEW c \in DOMAIN all, NEW r \in Slot, r < c[3]
      PROVE  <<c[1], c[2], r>> \in DOMAIN all
  <2> DEFINE b == <<h[1], h[2], r>>
  <2>1. c \in HourCandles(h) /\ (c \in DOMAIN got \/ c \in DOMAIN s)
    BY <1>3
  <2>2. c = <<h[1], h[2], c[3]>> /\ c[1] = h[1] /\ c[2] = h[2] /\ c[3] \in Slot
    BY <2>1, HourCandle
  <2>3. b \in Candle /\ b \in HourCandles(h) /\ b[1] = h[1] /\ b[2] = h[2] /\ b[3] = r
    BY DEF HourCandles, HourOf, Candle, Path
  <2>4. CASE c \in DOMAIN s
    BY <1>3, <1>5, <2>2, <2>3, <2>4 DEF HourSeries
  <2>5. CASE b \in DOMAIN s
    BY <1>3, <2>2, <2>3, <2>5
  <2>6. CASE c \in DOMAIN got /\ b \notin DOMAIN s
    <3> HIDE DEF b
    <3>1. c \in asked /\ c \in Candle
      BY <1>1, <1>2, <2>6
    <3>2. h[1] \in Nat /\ h[2] \in Nat /\ r \in Nat /\ c[3] \in Nat
      BY <2>2, Calendar DEF Path, Day, Hour, Slot
    <3>3. until[1] = h[1] /\ until[2] = h[2] /\ until[3] \in Nat
      BY Calendar DEF HourOf, Candle, Slot
    <3>4. now[1] \in Nat /\ now[2] \in Nat /\ now[3] \in Nat
      BY Calendar DEF Candle, Day, Hour, Slot
    <3>5. ~Before(c, HourStart(h)) /\ ~Before(until, c)
      BY <3>1 DEF AskedByRefresh
    <3>6. ~Before(b, HourStart(h))
      BY <2>3, <3>2 DEF Before, HourStart
    <3>7. ~Before(until, b)
      BY <2>2, <2>3, <3>2, <3>3, <3>5, <1>5 DEF Before
    <3>8. \A e \in DOMAIN s : ~Before(b, e)
      <4> SUFFICES ASSUME NEW e \in DOMAIN s, Before(b, e)
                   PROVE  FALSE
        OBVIOUS
      <4>1. e \in HourCandles(h)
        BY DEF HourSeries
      <4>2. e[1] = h[1] /\ e[2] = h[2] /\ e[3] \in Slot
        BY <4>1, HourCandle
      <4>3. r < e[3]
        BY <2>3, <3>2, <4>2, Calendar DEF Before, Slot
      <4>4. <<e[1], e[2], r>> \in DOMAIN s
        BY <4>3 DEF HourSeries
      <4> QED
        BY <2>6, <4>2, <4>4 DEF b
    <3>9. b \in asked
      BY <2>3, <3>6, <3>7, <3>8 DEF AskedByRefresh
    <3>10. Before(c, now) \/ c = now
      BY <1>2, <2>6
    <3>11. Before(b, now)
      BY <2>2, <2>3, <3>2, <3>4, <3>10, <1>5 DEF Before
    <3> QED
      BY <1>2, <1>3, <2>2, <2>3, <3>9, <3>11 DEF b
  <2> QED
    BY <2>1, <2>4, <2>5, <2>6
<1>6. DOMAIN all \subseteq HourCandles(h)
  BY <1>3
<1> QED
  BY <1>3, <1>4, <1>5, <1>6 DEF HourSeries, IsSeries, all, got

\* What SealHour keeps of the window it asked for is a series of its hour.
LEMMA SealSeries ==
    ASSUME now \in Candle, NEW h \in Path, NEW d \in Day, h[1] <= d, NEW lag \in BOOLEAN
    PROVE  HourSeries(Filter(Answer(AskedBySeal(h), lag), h), h, d)
<1> DEFINE got == Answer(AskedBySeal(h), lag)
           all == Filter(got, h)
<1>1. AskedBySeal(h) \subseteq Candle
  BY DEF AskedBySeal, HourCandles
<1>2. /\ IsSeries(got, Candle)
      /\ DOMAIN got = {c \in AskedBySeal(h) : Before(c, now) \/ (c = now /\ ~lag)}
      /\ \A c \in DOMAIN got : got[c].day = c[1]
  BY <1>1, AnswerSeries
<1> HIDE DEF got
<1>3. /\ DOMAIN all = DOMAIN got \cap HourCandles(h)
      /\ all = [c \in DOMAIN all |-> all[c]]
      /\ \A c \in DOMAIN all : all[c] = got[c]
  BY DEF Filter
<1> HIDE DEF all
<1>4. ASSUME NEW c \in DOMAIN all
      PROVE  c \in Candle /\ all[c] \in Row /\ all[c].day <= d
  <2>1. c \in HourCandles(h) /\ c \in DOMAIN got
    BY <1>3
  <2>2. c \in Candle /\ c[1] = h[1]
    BY <2>1, HourCandle
  <2> QED
    BY <1>2, <1>3, <2>1, <2>2 DEF IsSeries
<1>5. ASSUME NEW c \in DOMAIN all, NEW r \in Slot, r < c[3]
      PROVE  <<c[1], c[2], r>> \in DOMAIN all
  <2> DEFINE b == <<h[1], h[2], r>>
  <2>1. c \in HourCandles(h) /\ c \in DOMAIN got
    BY <1>3
  <2>2. c = <<h[1], h[2], c[3]>> /\ c[1] = h[1] /\ c[2] = h[2] /\ c[3] \in Slot
    BY <2>1, HourCandle
  <2>3. b \in HourCandles(h) /\ b[1] = h[1] /\ b[2] = h[2] /\ b[3] = r
    BY DEF HourCandles, HourOf, Candle, Path
  <2> HIDE DEF b
  <2>4. b \in AskedBySeal(h)
    BY <2>3 DEF AskedBySeal
  <2>5. h[1] \in Nat /\ h[2] \in Nat /\ r \in Nat /\ c[3] \in Nat
    BY <2>2, Calendar DEF Path, Day, Hour, Slot
  <2>6. now[1] \in Nat /\ now[2] \in Nat /\ now[3] \in Nat
    BY Calendar DEF Candle, Day, Hour, Slot
  <2>7. Before(b, now)
    BY <1>2, <1>5, <2>1, <2>2, <2>3, <2>5, <2>6 DEF Before
  <2> QED
    BY <1>2, <1>3, <2>2, <2>3, <2>4, <2>7 DEF b
<1>6. DOMAIN all \subseteq HourCandles(h)
  BY <1>3
<1> QED
  BY <1>3, <1>4, <1>5, <1>6 DEF HourSeries, IsSeries, all, got

-----------------------------------------------------------------------------
(* One step of one request.                                                 *)

\* A step that moves request p to label l, job j, locals k and answer o, and leaves the
\* clock and the other requests alone, keeps the invariant if it keeps the files and
\* what is known of p.
LEMMA OneRequest ==
    ASSUME IInv, NEW p \in Procs,
           NEW l \in Labels, NEW j \in Jobs, NEW k, IsLoc(k), NEW o, IsSeries(o, Candle),
           RefreshState(l, k, now), LoadState(l, j, k, now),
           pc' = [pc EXCEPT ![p] = l], job' = [job EXCEPT ![p] = j],
           loc' = [loc EXCEPT ![p] = k], out' = [out EXCEPT ![p] = o],
           now' = now, DOMAIN file' = Path, FilesOK'
    PROVE  IInv'
<1>1. TypeOK /\ \A q \in Procs : /\ RefreshState(pc[q], loc[q], now)
                                  /\ LoadState(pc[q], job[q], loc[q], now)
  BY DEF IInv
<1>2. /\ pc'[p] = l /\ job'[p] = j /\ loc'[p] = k /\ out'[p] = o
      /\ \A q \in Procs \ {p} : /\ pc'[q] = pc[q] /\ job'[q] = job[q]
                                 /\ loc'[q] = loc[q] /\ out'[q] = out[q]
  BY <1>1 DEF TypeOK
<1>3. TypeOK'
  <2>1. pc' \in [Procs -> Labels] /\ job' \in [Procs -> Jobs]
    BY <1>1 DEF TypeOK
  <2>2. loc' = [q \in Procs |-> loc'[q]] /\ out' = [q \in Procs |-> out'[q]]
    BY <1>1 DEF TypeOK
  <2>3. \A q \in Procs : IsLoc(loc'[q]) /\ IsSeries(out'[q], Candle)
    BY <1>1, <1>2 DEF TypeOK
  <2>4. \A q \in Path : IsSeries(file'[q], Tod)
    BY DEF FilesOK
  <2>5. now' \in Candle
    BY <1>1 DEF TypeOK
  <2>6. IsLoc(loc[p])' <=> IsLoc(loc'[p])
    BY DEF IsLoc, IsSeries
  <2> QED
    BY <2>1, <2>2, <2>3, <2>4, <2>5 DEF TypeOK, IsLoc, IsSeries
<1>4. \A q \in Procs : /\ RefreshState(pc'[q], loc'[q], now')
                       /\ LoadState(pc'[q], job'[q], loc'[q], now')
  BY <1>1, <1>2
<1> QED
  BY <1>3, <1>4 DEF IInv, RefreshState, LoadState

\* A rename that puts a series of the path's own hour there keeps the files in order.
LEMMA OneFile ==
    ASSUME TypeOK, FilesOK, NEW q \in Path, NEW h \in Path, h[2] = q[2],
           NEW s, HourSeries(s, h, q[1]),
           file' = [file EXCEPT ![q] = Stored(s)]
    PROVE  FilesOK' /\ DOMAIN file' = Path
<1>1. q[1] \in Day
  BY DEF Path
<1>2. /\ IsSeries(Stored(s), Tod)
      /\ \A t \in DOMAIN Stored(s) : t[1] = q[2]
      /\ \A t \in DOMAIN Stored(s) : Stored(s)[t].day <= q[1]
      /\ \A t \in DOMAIN Stored(s) : \A r \in Slot :
                r < t[2] => <<t[1], r>> \in DOMAIN Stored(s)
  BY <1>1, StoredSeries
<1>3. DOMAIN file' = Path /\ file'[q] = Stored(s) /\ \A r \in Path \ {q} : file'[r] = file[r]
  BY DEF TypeOK
<1> HIDE DEF IInv
<1>4. ASSUME NEW r \in Path
      PROVE  /\ IsSeries(file'[r], Tod)
             /\ \A t \in DOMAIN file'[r] : t[1] = r[2]
             /\ \A t \in DOMAIN file'[r] : file'[r][t].day <= r[1]
             /\ \A t \in DOMAIN file'[r] : \A x \in Slot :
                    x < t[2] => <<t[1], x>> \in DOMAIN file'[r]
  <2>1. CASE r = q
    BY <1>2, <1>3, <2>1
  <2>2. CASE r # q
    BY <1>3, <2>2 DEF FilesOK
  <2> QED
    BY <2>1, <2>2
<1> QED
  BY <1>3, <1>4 DEF FilesOK

\* What the invariant says of one request, with the calendar's instants.
LEMMA OfRequest ==
    ASSUME IInv, NEW p \in Procs
    PROVE  /\ pc[p] \in Labels /\ job[p] \in Jobs /\ IsLoc(loc[p])
           /\ IsSeries(out[p], Candle)
           /\ RefreshState(pc[p], loc[p], now) /\ LoadState(pc[p], job[p], loc[p], now)
           /\ now \in Candle /\ now[1] \in Day /\ now[2] \in Hour
           /\ TypeOK /\ FilesOK
  BY DEF IInv, TypeOK, Candle

\* Files that are left alone stay in order.
LEMMA SameFiles ==
    ASSUME IInv, file' = file
    PROVE  FilesOK' /\ DOMAIN file' = Path
  BY DEF IInv, TypeOK, FilesOK, IsSeries

\* Empty locals are locals.
LEMMA NoLocIsLoc == IsLoc(NoLoc) /\ NoJob \in Jobs /\ IsSeries(NoRows, Candle)
<1>1. <<0, 0, 0>> \in Candle /\ <<0, 0>> \in Path
  BY Calendar DEF Candle, Path
<1>2. IsSeries(NoRows, Candle)
  BY NoRowsSeries
<1> QED
  BY <1>1, <1>2, Calendar DEF IsLoc, NoLoc, NoJob, Jobs

\* A request that ends leaves nothing to know of it.
LEMMA EndStep ==
    ASSUME IInv, NEW p \in Procs, End(p), now' = now, FilesOK', DOMAIN file' = Path
    PROVE  IInv'
<1>1. "idle" \in Labels
  BY DEF Labels
<1>2. RefreshState("idle", NoLoc, now) /\ LoadState("idle", NoJob, NoLoc, now)
  BY DEF RefreshState, LoadState, Refreshing, Loading
<1>3. /\ pc' = [pc EXCEPT ![p] = "idle"] /\ job' = [job EXCEPT ![p] = NoJob]
      /\ loc' = [loc EXCEPT ![p] = NoLoc] /\ out' = [out EXCEPT ![p] = NoRows]
  BY DEF End, Goto
<1> QED
  BY <1>1, <1>2, <1>3, NoLocIsLoc, OneRequest

\* A call returns inside its request, to a label that needs nothing but the request.
LEMMA ContinueStep ==
    ASSUME IInv, NEW p \in Procs, pc[p] # "idle", NEW l \in {"cached", "reread"},
           Continue(p, l), now' = now, FilesOK', DOMAIN file' = Path
    PROVE  IInv'
<1>1. l \in Labels
  BY DEF Labels
<1>2. RefreshState(l, NoLoc, now) /\ LoadState(l, job[p], NoLoc, now)
  BY OfRequest DEF RefreshState, LoadState, Refreshing, Loading
<1>3. /\ pc' = [pc EXCEPT ![p] = l] /\ job' = [job EXCEPT ![p] = job[p]]
      /\ loc' = [loc EXCEPT ![p] = NoLoc] /\ out' = [out EXCEPT ![p] = out[p]]
  BY DEF Continue, Goto, IInv, TypeOK
<1> QED
  BY <1>1, <1>2, <1>3, NoLocIsLoc, OfRequest, OneRequest

\* Whatever its caller does after a refresh keeps the invariant.
LEMMA AfterRefreshStep ==
    ASSUME IInv, NEW p \in Procs, pc[p] # "idle", NEW ok \in BOOLEAN, AfterRefresh(p, ok),
           now' = now, FilesOK', DOMAIN file' = Path
    PROVE  IInv'
  BY EndStep, ContinueStep DEF AfterRefresh

\* A request that arrives has no candles; its midnight is today, its loop starts before the
\* current hour or goes straight to the refresh.
LEMMA StartStep ==
    ASSUME IInv, NEW p \in Procs, Start(p)
    PROVE  IInv'
<1>1. FilesOK' /\ DOMAIN file' = Path
  BY SameFiles DEF Start
<1>2. /\ loc = [loc EXCEPT ![p] = loc[p]] /\ out = [out EXCEPT ![p] = out[p]]
      /\ now' = now /\ out' = out /\ pc[p] = "idle"
  BY DEF IInv, TypeOK, Start
<1>3. ASSUME NEW op \in Ops, NEW h \in Hour
      PROVE  Request(op, h) \in Jobs
  BY OfRequest DEF Request, Jobs
<1>4. now[1] \in Nat /\ now[2] \in Nat /\ now[1] <= now[1]
  BY OfRequest, Calendar DEF Day, Hour
<1>5. IsLoc([NoLoc EXCEPT !.cap = now])
  <2>1. <<0, 0>> \in Path /\ now \in Candle
    BY OfRequest, Calendar DEF Path
  <2> QED
    BY <2>1, NoRowsSeries DEF IsLoc, NoLoc
<1>6. CASE /\ "refresh" \in Ops
           /\ job' = [job EXCEPT ![p] = Request("refresh", now[2])]
           /\ loc' = [loc EXCEPT ![p] = [NoLoc EXCEPT !.cap = now]]
           /\ Goto(p, "r_read")
  <2> DEFINE j == Request("refresh", now[2])
             k == [NoLoc EXCEPT !.cap = now]
  <2>1. "r_read" \in Labels /\ j \in Jobs /\ k.cap = now
    BY <1>3, <1>6, OfRequest DEF Labels, NoLoc
  <2>2. RefreshState("r_read", k, now) /\ LoadState("r_read", j, k, now)
    BY <1>4, <2>1 DEF RefreshState, LoadState, Refreshing, Loading, Request
  <2> QED
    BY <1>1, <1>2, <1>5, <1>6, <2>1, <2>2, OfRequest, OneRequest DEF Goto
<1>7. ASSUME NEW op \in Ops \cap {"load", "day", "cached"}, NEW h \in Hour,
             NEW l \in {"load", "refresh"},
             l = "load" => op # "cached",
             (l = "load" /\ op = "day") => h < now[2],
             job' = [job EXCEPT ![p] = Request(op, h)], Goto(p, l), UNCHANGED loc
      PROVE  IInv'
  <2> DEFINE j == Request(op, h)
  <2>1. l \in Labels /\ j \in Jobs
    BY <1>3 DEF Labels
  <2>2. RefreshState(l, loc[p], now) /\ LoadState(l, j, loc[p], now)
    BY <1>4, <1>7 DEF RefreshState, LoadState, Refreshing, Loading, Request
  <2> QED
    BY <1>1, <1>2, <1>7, <2>1, <2>2, OfRequest, OneRequest DEF Goto
<1>8. CASE /\ "load" \in Ops
           /\ \E h \in Hour : /\ h < now[2]
                              /\ job' = [job EXCEPT ![p] = Request("load", h)]
           /\ Goto(p, "load")
           /\ UNCHANGED loc
  BY <1>7, <1>8
<1>9. CASE /\ "day" \in Ops
           /\ job' = [job EXCEPT ![p] = Request("day", 0)]
           /\ Goto(p, IF now[2] = 0 THEN "refresh" ELSE "load")
           /\ UNCHANGED loc
  <2>1. now[2] # 0 => 0 < now[2]
    BY <1>4
  <2> QED
    BY <1>7, <1>9, <2>1, Calendar
<1>10. CASE /\ "cached" \in Ops
            /\ job' = [job EXCEPT ![p] = Request("cached", 0)]
            /\ Goto(p, "refresh")
            /\ UNCHANGED loc
  BY <1>7, <1>10, Calendar
<1> QED
  BY <1>6, <1>8, <1>9, <1>10 DEF Start

\* The path computed now is a path, of the hour asked for and of today.
LEMMA PathNow ==
    ASSUME IInv, NEW hour \in Hour
    PROVE  /\ HourlyPath(hour) \in Path
           /\ HourlyPath(hour)[1] = now[1] /\ HourlyPath(hour)[2] = hour
  BY OfRequest DEF HourlyPath, Path, IInv, TypeOK, Candle

\* Updating the locals gives a record of the same fields.
LEMMA LocFields ==
    ASSUME NEW k, IsLoc(k), NEW c, NEW s
    PROVE  /\ [k EXCEPT !.cap = c] = [cap |-> c, path |-> k.path, buf |-> k.buf]
           /\ [k EXCEPT !.buf = s] = [cap |-> k.cap, path |-> k.path, buf |-> s]
<1>1. k \in [cap : {k.cap}, path : {k.path}, buf : {k.buf}]
  BY DEF IsLoc
<1>2. [k EXCEPT !.cap = c] = [cap |-> c, path |-> k.path, buf |-> k.buf]
  BY <1>1
<1>3. [k EXCEPT !.buf = s] = [cap |-> k.cap, path |-> k.path, buf |-> s]
  BY <1>1
<1> QED
  BY <1>2, <1>3

\* A refresh that captures the clock knows that its day is not after today.
LEMMA RefreshNowStep ==
    ASSUME IInv, NEW p \in Procs, RefreshNow(p)
    PROVE  IInv'
<1> DEFINE k == [cap |-> now, path |-> loc[p].path, buf |-> loc[p].buf]
<1>1. /\ FilesOK' /\ DOMAIN file' = Path
      /\ now' = now /\ pc[p] = "refresh" /\ now[1] \in Nat
  BY SameFiles, OfRequest, Calendar DEF RefreshNow, Day
<1>2. /\ pc' = [pc EXCEPT ![p] = "r_read"] /\ job' = [job EXCEPT ![p] = job[p]]
      /\ loc' = [loc EXCEPT ![p] = k] /\ out' = [out EXCEPT ![p] = out[p]]
  BY LocFields DEF RefreshNow, Goto, IInv, TypeOK
<1>3. IsLoc(k) /\ k.cap = now
  BY OfRequest DEF IsLoc
<1> HIDE DEF k
<1>4. RefreshState("r_read", k, now)
  BY <1>1, <1>3 DEF RefreshState
<1>5. LoadState("r_read", job[p], k, now)
  <2>1. job[p].mid <= now[1]
    BY <1>1, OfRequest DEF LoadState
  <2> QED
    BY <2>1 DEF LoadState, Loading
<1>6. "r_read" \in Labels
  BY DEF Labels
<1> QED
  BY <1>1, <1>2, <1>3, <1>4, <1>5, <1>6, OfRequest, OneRequest

\* The path a refresh computes is of its captured hour, in a day not before the captured one;
\* the candles it reads there are a series of that hour.
LEMMA RefreshReadStep ==
    ASSUME IInv, NEW p \in Procs, RefreshRead(p)
    PROVE  IInv'
<1> DEFINE here == HourlyPath(loc[p].cap[2])
<1>0. PICK held \in {Read(file[here], loc[p].cap[1]), NoRows} :
        loc' = [loc EXCEPT ![p] = [cap |-> @.cap, path |-> here, buf |-> held]]
  BY DEF RefreshRead
<1> DEFINE k == [cap |-> loc[p].cap, path |-> here, buf |-> held]
<1>1. /\ FilesOK' /\ DOMAIN file' = Path
      /\ now' = now /\ pc[p] = "r_read"
  BY SameFiles DEF RefreshRead
<1>2. /\ loc[p].cap \in Candle /\ loc[p].cap[1] \in Day /\ loc[p].cap[2] \in Hour
      /\ loc[p].cap[1] <= now[1]
  BY <1>1, OfRequest DEF IsLoc, RefreshState, Refreshing, Candle
<1>3. here \in Path /\ here[1] = now[1] /\ here[2] = loc[p].cap[2]
  BY <1>2, PathNow
<1>4. HourSeries(held, HourOf(loc[p].cap), here[1])
  <2>1. HourSeries(Read(file[here], loc[p].cap[1]), HourOf(loc[p].cap), here[1])
    BY <1>2, <1>3, ReadHour, OfRequest DEF HourOf
  <2>2. HourSeries(NoRows, HourOf(loc[p].cap), here[1])
    BY NoRowsSeries DEF HourSeries, NoRows
  <2> QED
    BY <2>1, <2>2
<1>5. /\ pc' = [pc EXCEPT ![p] = "r_fetch"] /\ job' = [job EXCEPT ![p] = job[p]]
      /\ loc' = [loc EXCEPT ![p] = k] /\ out' = [out EXCEPT ![p] = out[p]]
  BY <1>0 DEF RefreshRead, Goto, IInv, TypeOK
<1>6. IsLoc(k) /\ k.cap = loc[p].cap /\ k.path = here /\ k.buf = held
  BY <1>3, <1>4, OfRequest DEF IsLoc, HourSeries
<1>7. RefreshState("r_fetch", k, now) /\ LoadState("r_fetch", job[p], k, now)
  BY <1>1, <1>2, <1>3, <1>4, <1>6, OfRequest DEF RefreshState, LoadState, Refreshing, Loading
<1>8. "r_fetch" \in Labels
  BY DEF Labels
<1> HIDE DEF k
<1> QED
  BY <1>1, <1>5, <1>6, <1>7, <1>8, OfRequest, OneRequest

\* Fetching from the last candle held extends that series.
LEMMA RefreshFetchStep ==
    ASSUME IInv, NEW p \in Procs, RefreshFetch(p)
    PROVE  IInv'
<1>1. /\ FilesOK' /\ DOMAIN file' = Path
      /\ now' = now /\ pc[p] = "r_fetch"
  BY SameFiles DEF RefreshFetch
<1>2. ASSUME NEW ok \in BOOLEAN, AfterRefresh(p, ok)
      PROVE  IInv'
  BY <1>1, <1>2, AfterRefreshStep
<1>3. ASSUME NEW lag \in BOOLEAN, NEW merged,
             merged = Filter(Merge(loc[p].buf,
                        Answer(AskedByRefresh(loc[p].buf, CapHour(p), loc[p].cap), lag)),
                        CapHour(p)),
             DOMAIN merged # {}, loc' = [loc EXCEPT ![p].buf = merged],
             Goto(p, "r_write"), UNCHANGED <<job, out>>
      PROVE  IInv'
  <2> DEFINE k == [cap |-> loc[p].cap, path |-> loc[p].path, buf |-> merged]
             d == loc[p].path[1]
  <2>1. /\ loc[p].cap \in Candle /\ loc[p].path \in Path /\ d \in Day
        /\ loc[p].path[2] = loc[p].cap[2] /\ loc[p].cap[1] <= d
        /\ loc[p].cap[1] <= now[1]
        /\ HourSeries(loc[p].buf, CapHour(p), d)
    BY <1>1, OfRequest DEF IsLoc, RefreshState, Refreshing, CapHour, Path
  <2>2. CapHour(p) \in Path /\ CapHour(p)[1] = loc[p].cap[1]
    BY <2>1 DEF CapHour, HourOf, Path, Candle
  <2>3. HourSeries(merged, CapHour(p), d)
    BY <1>3, <2>1, <2>2, OfRequest, RefreshSeries DEF CapHour
  <2>4. /\ pc' = [pc EXCEPT ![p] = "r_write"] /\ job' = [job EXCEPT ![p] = job[p]]
        /\ loc' = [loc EXCEPT ![p] = k] /\ out' = [out EXCEPT ![p] = out[p]]
    BY <1>3, LocFields DEF Goto, IInv, TypeOK
  <2>5. IsLoc(k) /\ k.cap = loc[p].cap /\ k.path = loc[p].path /\ k.buf = merged
    BY <2>3, OfRequest DEF IsLoc, HourSeries
  <2>6. RefreshState("r_write", k, now) /\ LoadState("r_write", job[p], k, now)
    BY <1>1, <1>3, <2>1, <2>3, <2>5, OfRequest
       DEF RefreshState, LoadState, Refreshing, Loading, CapHour
  <2>7. "r_write" \in Labels
    BY DEF Labels
  <2> HIDE DEF k
  <2> QED
    BY <1>1, <2>4, <2>5, <2>6, <2>7, OfRequest, OneRequest
<1> QED
  BY <1>2, <1>3 DEF RefreshFetch

\* The rename of a refresh puts a series of the hour in the file of the hour.
LEMMA RefreshWriteStep ==
    ASSUME IInv, NEW p \in Procs, RefreshWrite(p)
    PROVE  IInv'
<1>1. now' = now /\ pc[p] = "r_write"
  BY DEF RefreshWrite
<1>2. CASE AfterRefresh(p, FALSE) /\ UNCHANGED file
  BY <1>1, <1>2, SameFiles, AfterRefreshStep
<1>3. CASE /\ file' = [file EXCEPT ![loc[p].path] = Stored(loc[p].buf)]
           /\ Goto(p, "r_audit")
           /\ UNCHANGED <<job, loc, out>>
  <2>1. /\ loc[p].cap \in Candle /\ loc[p].path \in Path
        /\ loc[p].path[2] = loc[p].cap[2]
        /\ HourSeries(loc[p].buf, CapHour(p), loc[p].path[1])
    BY <1>1, OfRequest DEF IsLoc, RefreshState, CapHour
  <2>2. CapHour(p) \in Path /\ CapHour(p)[2] = loc[p].path[2]
    BY <2>1 DEF CapHour, HourOf, Path, Candle
  <2>3. FilesOK' /\ DOMAIN file' = Path
    BY <1>3, <2>1, <2>2, OneFile, OfRequest
  <2>4. /\ pc' = [pc EXCEPT ![p] = "r_audit"] /\ job' = [job EXCEPT ![p] = job[p]]
        /\ loc' = [loc EXCEPT ![p] = loc[p]] /\ out' = [out EXCEPT ![p] = out[p]]
    BY <1>3 DEF Goto, IInv, TypeOK
  <2>5. RefreshState("r_audit", loc[p], now) /\ LoadState("r_audit", job[p], loc[p], now)
    BY <1>1, OfRequest DEF RefreshState, LoadState, Refreshing, Loading
  <2>6. "r_audit" \in Labels
    BY DEF Labels
  <2> QED
    BY <1>1, <2>3, <2>4, <2>5, <2>6, OfRequest, OneRequest
<1> QED
  BY <1>2, <1>3 DEF RefreshWrite

\* The audit of a refresh changes no file.
LEMMA RefreshAuditStep ==
    ASSUME IInv, NEW p \in Procs, RefreshAudit(p)
    PROVE  IInv'
<1>1. NoWrongStep(file[loc[p].path], CapHour(p)) \in BOOLEAN
  BY DEF NoWrongStep
<1>2. now' = now /\ file' = file /\ pc[p] = "r_audit"
  BY DEF RefreshAudit
<1> QED
  BY <1>1, <1>2, SameFiles, AfterRefreshStep DEF RefreshAudit

\* A loaded hour is delivered: the request ends its loading, or goes on with the next
\* hour, which is still before the current one unless it is handed to the refresh.
LEMMA DeliverStep ==
    ASSUME IInv, NEW p \in Procs, pc[p] \in Loading, Deliver(p, loc[p].buf),
           UNCHANGED <<now, file>>
    PROVE  IInv'
<1> DEFINE o == Merge(out[p], loc[p].buf)
<1>1. /\ FilesOK' /\ DOMAIN file' = Path
      /\ now' = now /\ pc[p] # "idle"
  BY SameFiles DEF Loading
<1>2. /\ job[p] \in Jobs /\ job[p].mid <= now[1]
      /\ job[p].op = "day" => job[p].hour < job[p].cur
  BY <1>1, OfRequest DEF LoadState
<1>3. IsSeries(o, Candle)
  BY OfRequest, MergeSeries DEF IsLoc
<1>4. /\ loc' = [loc EXCEPT ![p] = NoLoc] /\ out' = [out EXCEPT ![p] = o]
  BY DEF Deliver, IInv, TypeOK
<1> HIDE DEF o
<1>5. CASE job[p].op = "load" /\ Goto(p, "ok") /\ UNCHANGED job
  <2>1. pc' = [pc EXCEPT ![p] = "ok"] /\ job' = [job EXCEPT ![p] = job[p]]
    BY <1>5 DEF Goto, IInv, TypeOK
  <2>2. RefreshState("ok", NoLoc, now) /\ LoadState("ok", job[p], NoLoc, now)
    BY <1>2 DEF RefreshState, LoadState, Refreshing, Loading
  <2>3. "ok" \in Labels
    BY DEF Labels
  <2> QED
    BY <1>1, <1>2, <1>3, <1>4, <2>1, <2>2, <2>3, NoLocIsLoc, OneRequest
<1>6. CASE /\ job[p].op = "day"
           /\ job' = [job EXCEPT ![p].hour = @ + 1]
           /\ Goto(p, IF job[p].hour + 1 = job[p].cur THEN "refresh" ELSE "load")
  <2> DEFINE j == [job[p] EXCEPT !.hour = job[p].hour + 1]
             l == IF job[p].hour + 1 = job[p].cur THEN "refresh" ELSE "load"
  <2>1. /\ job[p].hour \in Nat /\ job[p].cur \in Hour /\ job[p].hour < job[p].cur
    BY <1>2, <1>6, Calendar DEF Jobs, Hour
  <2>2. job[p].hour + 1 \in Hour
    BY <2>1, Calendar DEF Hour
  <2>3. j \in Jobs /\ j.mid = job[p].mid /\ j.op = "day" /\ j.cur = job[p].cur
        /\ j.hour = job[p].hour + 1
    BY <1>2, <1>6, <2>2 DEF Jobs
  <2>4. pc' = [pc EXCEPT ![p] = l] /\ job' = [job EXCEPT ![p] = j]
    BY <1>6 DEF Goto, IInv, TypeOK
  <2>5. l \in Labels /\ l \in {"refresh", "load"}
    BY DEF Labels
  <2>6. l = "load" => j.hour < j.cur
    BY <2>1, <2>3, Calendar DEF Hour
  <2> HIDE DEF j, l
  <2>7. RefreshState(l, NoLoc, now)
    BY <2>5 DEF RefreshState, Refreshing
  <2>8. LoadState(l, j, NoLoc, now)
    BY <1>2, <2>3, <2>5, <2>6 DEF LoadState, Loading
  <2> QED
    BY <1>1, <1>3, <1>4, <2>3, <2>4, <2>5, <2>7, <2>8, NoLocIsLoc, OneRequest
<1> QED
  BY <1>5, <1>6 DEF Deliver

\* A load that must seal computes the path of today for its hour.
LEMMA EnterSealStep ==
    ASSUME IInv, NEW p \in Procs, pc[p] \in Loading, EnterSeal(p), UNCHANGED <<now, file>>
    PROVE  IInv'
<1> DEFINE here == HourlyPath(job[p].hour)
           k    == [NoLoc EXCEPT !.path = here]
<1>1. /\ FilesOK' /\ DOMAIN file' = Path
      /\ now' = now /\ pc[p] # "idle"
  BY SameFiles DEF Loading
<1>2. /\ job[p] \in Jobs /\ job[p].mid <= now[1] /\ job[p].op \in {"load", "day"}
      /\ job[p].op = "day" => job[p].hour < job[p].cur
  BY <1>1, OfRequest DEF LoadState
<1>3. here \in Path /\ here[1] = now[1] /\ here[2] = job[p].hour
  BY <1>2, PathNow DEF Jobs
<1>4. k = [cap |-> <<0, 0, 0>>, path |-> here, buf |-> NoRows]
  BY DEF NoLoc
<1>5. IsLoc(k) /\ k.path = here
  BY <1>3, <1>4, NoRowsSeries, Calendar DEF IsLoc, Candle
<1>6. /\ pc' = [pc EXCEPT ![p] = "s_fetch"] /\ job' = [job EXCEPT ![p] = job[p]]
      /\ loc' = [loc EXCEPT ![p] = k] /\ out' = [out EXCEPT ![p] = out[p]]
  BY DEF EnterSeal, Goto, IInv, TypeOK
<1> HIDE DEF k, here
<1>7. RefreshState("s_fetch", k, now) /\ "s_fetch" \in Labels
  BY DEF RefreshState, Refreshing, Labels
<1>8. LoadState("s_fetch", job[p], k, now)
  BY <1>2, <1>3, <1>5 DEF LoadState, Loading
<1> QED
  BY <1>1, <1>2, <1>5, <1>6, <1>7, <1>8, OfRequest, OneRequest

\* A load holds the candles of the file it read, or goes on to seal.
LEMMA LoadReadStep ==
    ASSUME IInv, NEW p \in Procs, LoadRead(p)
    PROVE  IInv'
<1> DEFINE here == HourlyPath(job[p].hour)
           held == Read(file[here], job[p].mid)
<1>1. /\ FilesOK' /\ DOMAIN file' = Path
      /\ now' = now /\ pc[p] = "load" /\ UNCHANGED <<now, file>>
  BY SameFiles DEF LoadRead
<1>2. /\ job[p] \in Jobs /\ job[p].mid <= now[1] /\ job[p].op \in {"load", "day"}
      /\ job[p].op = "day" => job[p].hour < job[p].cur
  BY <1>1, OfRequest DEF LoadState, Loading
<1>3. here \in Path /\ IsSeries(file[here], Tod) /\ job[p].mid \in Day
  BY <1>2, PathNow, OfRequest DEF Jobs, FilesOK
<1>4. IsSeries(held, Candle)
  BY <1>3, ReadSeries
<1>5. ASSUME NEW b \in {held, NoRows}, NEW l \in {"l_audit", "l_unread"},
             loc' = [loc EXCEPT ![p] = [cap |-> @.cap, path |-> here, buf |-> b]],
             Goto(p, l), UNCHANGED <<job, out>>
      PROVE  IInv'
  <2> DEFINE k == [cap |-> loc[p].cap, path |-> here, buf |-> b]
  <2>1. /\ pc' = [pc EXCEPT ![p] = l] /\ job' = [job EXCEPT ![p] = job[p]]
        /\ loc' = [loc EXCEPT ![p] = k] /\ out' = [out EXCEPT ![p] = out[p]]
    BY <1>5 DEF Goto, IInv, TypeOK
  <2>2. IsSeries(b, Candle)
    BY <1>4, NoRowsSeries
  <2> HIDE DEF here, held
  <2>3. IsLoc(k)
    BY <1>3, <2>2, OfRequest DEF IsLoc
  <2>4. RefreshState(l, k, now) /\ l \in Labels
    BY DEF RefreshState, Refreshing, Labels
  <2>5. LoadState(l, job[p], k, now)
    BY <1>2 DEF LoadState, Loading
  <2> QED
    BY <1>1, <1>2, <2>1, <2>3, <2>4, <2>5, OfRequest, OneRequest
<1>6. CASE EnterSeal(p)
  BY <1>1, <1>6, EnterSealStep DEF Loading
<1> QED
  BY <1>5, <1>6 DEF LoadRead

\* A load delivers what it holds, ends with the error of its read, or goes on to seal.
LEMMA LoadAuditStep ==
    ASSUME IInv, NEW p \in Procs, LoadAudit(p)
    PROVE  IInv'
<1>1. /\ FilesOK' /\ DOMAIN file' = Path /\ now' = now
      /\ pc[p] \in Loading /\ UNCHANGED <<now, file>>
  BY SameFiles DEF LoadAudit, Loading
<1> QED
  BY <1>1, DeliverStep, EnterSealStep, EndStep DEF LoadAudit, Loading

\* What SealHour fetches is a series of its hour, not later than its path.
LEMMA SealFetchStep ==
    ASSUME IInv, NEW p \in Procs, SealFetch(p)
    PROVE  IInv'
<1>1. /\ FilesOK' /\ DOMAIN file' = Path
      /\ now' = now /\ pc[p] = "s_fetch"
  BY SameFiles DEF SealFetch
<1>2. ASSUME NEW lag \in BOOLEAN, NEW sealed, NEW l \in {"s_audit", "s_write"},
             sealed = Filter(Answer(AskedBySeal(JobHour(p)), lag), JobHour(p)),
             loc' = [loc EXCEPT ![p].buf = sealed],
             l = "s_write" => DOMAIN sealed # {}, Goto(p, l), UNCHANGED <<job, out>>
      PROVE  IInv'
  <2> DEFINE k == [cap |-> loc[p].cap, path |-> loc[p].path, buf |-> sealed]
             d == loc[p].path[1]
  <2>1. /\ job[p] \in Jobs /\ job[p].mid <= now[1] /\ job[p].op \in {"load", "day"}
        /\ job[p].op = "day" => job[p].hour < job[p].cur
        /\ loc[p].path \in Path /\ d \in Day
        /\ loc[p].path[2] = job[p].hour /\ job[p].mid <= d
    BY <1>1, OfRequest DEF IsLoc, LoadState, Loading, Path
  <2>2. JobHour(p) \in Path /\ JobHour(p)[1] = job[p].mid
    BY <2>1 DEF JobHour, Path, Jobs
  <2>3. HourSeries(sealed, JobHour(p), d)
    BY <1>2, <2>1, <2>2, OfRequest, SealSeries
  <2>4. /\ pc' = [pc EXCEPT ![p] = l] /\ job' = [job EXCEPT ![p] = job[p]]
        /\ loc' = [loc EXCEPT ![p] = k] /\ out' = [out EXCEPT ![p] = out[p]]
    BY <1>2, OfRequest, LocFields DEF Goto, IInv, TypeOK
  <2>5. IsLoc(k) /\ k.path = loc[p].path /\ k.buf = sealed
    BY <2>3, OfRequest DEF IsLoc, HourSeries
  <2> HIDE DEF k
  <2>6. RefreshState(l, k, now) /\ l \in Labels
    BY DEF RefreshState, Refreshing, Labels
  <2>7. LoadState(l, job[p], k, now)
    BY <1>2, <2>1, <2>3, <2>5 DEF LoadState, Loading, JobHour
  <2> QED
    BY <1>1, <2>1, <2>4, <2>5, <2>6, <2>7, OfRequest, OneRequest
<1>3. CASE End(p)
  BY <1>1, <1>3, EndStep
<1> QED
  BY <1>2, <1>3 DEF SealFetch

\* The rename of SealHour puts a series of the hour in the file of the hour.
LEMMA SealWriteStep ==
    ASSUME IInv, NEW p \in Procs, SealWrite(p)
    PROVE  IInv'
<1>1. now' = now /\ pc[p] = "s_write"
  BY DEF SealWrite
<1>2. CASE End(p) /\ UNCHANGED file
  BY <1>1, <1>2, SameFiles, EndStep
<1>3. CASE /\ file' = [file EXCEPT ![loc[p].path] = Stored(loc[p].buf)]
           /\ Goto(p, "s_audit")
           /\ UNCHANGED <<job, loc, out>>
  <2>1. /\ job[p] \in Jobs /\ loc[p].path \in Path
        /\ loc[p].path[2] = job[p].hour
        /\ HourSeries(loc[p].buf, JobHour(p), loc[p].path[1])
    BY <1>1, OfRequest DEF IsLoc, LoadState, JobHour
  <2>2. JobHour(p) \in Path /\ JobHour(p)[2] = loc[p].path[2]
    BY <2>1 DEF JobHour, Path, Jobs
  <2>3. FilesOK' /\ DOMAIN file' = Path
    BY <1>3, <2>1, <2>2, OneFile, OfRequest
  <2>4. /\ pc' = [pc EXCEPT ![p] = "s_audit"] /\ job' = [job EXCEPT ![p] = job[p]]
        /\ loc' = [loc EXCEPT ![p] = loc[p]] /\ out' = [out EXCEPT ![p] = out[p]]
    BY <1>3 DEF Goto, IInv, TypeOK
  <2>5. RefreshState("s_audit", loc[p], now) /\ LoadState("s_audit", job[p], loc[p], now)
    BY <1>1, OfRequest DEF RefreshState, LoadState, Refreshing, Loading
  <2>6. "s_audit" \in Labels
    BY DEF Labels
  <2> QED
    BY <1>1, <2>3, <2>4, <2>5, <2>6, OfRequest, OneRequest
<1> QED
  BY <1>2, <1>3 DEF SealWrite

\* SealHour delivers what it fetched, or ends.
LEMMA SealAuditStep ==
    ASSUME IInv, NEW p \in Procs, SealAudit(p)
    PROVE  IInv'
<1>1. /\ FilesOK' /\ DOMAIN file' = Path /\ now' = now
      /\ pc[p] \in Loading /\ UNCHANGED <<now, file>>
  BY SameFiles DEF SealAudit, Loading
<1> QED
  BY <1>1, DeliverStep, EndStep DEF SealAudit

\* A skipped refresh goes on to the cached hours.
LEMMA RefreshSkipStep ==
    ASSUME IInv, NEW p \in Procs, RefreshSkip(p)
    PROVE  IInv'
<1>1. FilesOK' /\ DOMAIN file' = Path /\ now' = now /\ pc[p] # "idle"
  BY SameFiles DEF RefreshSkip
<1> QED
  BY <1>1, ContinueStep DEF RefreshSkip

\* The current hour's file is added to the day, or the request ends.
LEMMA DayRereadStep ==
    ASSUME IInv, NEW p \in Procs, DayReread(p)
    PROVE  IInv'
<1> DEFINE here == HourlyPath(job[p].hour)
           o    == Merge(out[p], Read(file[here], job[p].mid))
<1>1. /\ FilesOK' /\ DOMAIN file' = Path
      /\ now' = now /\ pc[p] = "reread"
  BY SameFiles DEF DayReread
<1>2. job[p] \in Jobs /\ job[p].mid \in Day /\ job[p].mid <= now[1]
  BY <1>1, OfRequest DEF LoadState, Jobs
<1>3. here \in Path /\ IsSeries(file[here], Tod)
  BY <1>2, PathNow, OfRequest DEF Jobs, FilesOK
<1>4. IsSeries(o, Candle)
  BY <1>2, <1>3, ReadSeries, MergeSeries, OfRequest
<1>5. CASE End(p)
  BY <1>1, <1>5, EndStep
<1>6. CASE out' = [out EXCEPT ![p] = Merge(@, Read(file[here], job[p].mid))] /\ Goto(p, "ok")
           /\ UNCHANGED <<job, loc>>
  <2>1. /\ pc' = [pc EXCEPT ![p] = "ok"] /\ job' = [job EXCEPT ![p] = job[p]]
        /\ loc' = [loc EXCEPT ![p] = loc[p]] /\ out' = [out EXCEPT ![p] = o]
    BY <1>6 DEF Goto, IInv, TypeOK
  <2> HIDE DEF o, here
  <2>2. /\ RefreshState("ok", loc[p], now) /\ LoadState("ok", job[p], loc[p], now)
        /\ "ok" \in Labels
    BY <1>2 DEF RefreshState, LoadState, Refreshing, Loading, Labels
  <2> QED
    BY <1>1, <1>2, <1>4, <2>1, <2>2, OfRequest, OneRequest
<1> QED
  BY <1>5, <1>6 DEF DayReread

\* One cached hour is added to the day; the loop stays within the hours of the day.
LEMMA CachedReadStep ==
    ASSUME IInv, NEW p \in Procs, CachedRead(p)
    PROVE  IInv'
<1> DEFINE here == HourlyPath(job[p].hour)
           o    == Merge(out[p], Read(file[here], job[p].mid))
<1>1. /\ FilesOK' /\ DOMAIN file' = Path
      /\ now' = now /\ pc[p] = "cached"
  BY SameFiles DEF CachedRead
<1>2. job[p] \in Jobs /\ job[p].mid \in Day /\ job[p].mid <= now[1]
  BY <1>1, OfRequest DEF LoadState, Jobs
<1>3. here \in Path /\ IsSeries(file[here], Tod)
  BY <1>2, PathNow, OfRequest DEF Jobs, FilesOK
<1>4. IsSeries(o, Candle)
  BY <1>2, <1>3, ReadSeries, MergeSeries, OfRequest
<1>5. ASSUME out' = [out EXCEPT ![p] = Merge(@, Read(file[here], job[p].mid))],
             UNCHANGED loc
      PROVE  out' = [out EXCEPT ![p] = o] /\ loc' = [loc EXCEPT ![p] = loc[p]]
  BY <1>5 DEF IInv, TypeOK
<1> HIDE DEF o
<1>6. CASE /\ job[p].hour < job[p].cur /\ job' = [job EXCEPT ![p].hour = @ + 1] /\ UNCHANGED pc
           /\ out' = [out EXCEPT ![p] = Merge(@, Read(file[here], job[p].mid))]
           /\ UNCHANGED loc
  <2> DEFINE j == [job[p] EXCEPT !.hour = job[p].hour + 1]
  <2>1. job[p].hour + 1 \in Hour
    BY <1>2, <1>6, Calendar DEF Jobs, Hour
  <2>2. j \in Jobs /\ j.mid = job[p].mid
    BY <1>2, <2>1 DEF Jobs
  <2>3. pc' = [pc EXCEPT ![p] = "cached"] /\ job' = [job EXCEPT ![p] = j]
    BY <1>1, <1>6 DEF IInv, TypeOK
  <2> HIDE DEF j
  <2>4. /\ RefreshState("cached", loc[p], now) /\ LoadState("cached", j, loc[p], now)
        /\ "cached" \in Labels
    BY <1>2, <2>2 DEF RefreshState, LoadState, Refreshing, Loading, Labels
  <2> QED
    BY <1>1, <1>4, <1>5, <1>6, <2>2, <2>3, <2>4, OfRequest, OneRequest
<1>7. CASE /\ Goto(p, "ok") /\ UNCHANGED job
           /\ out' = [out EXCEPT ![p] = Merge(@, Read(file[here], job[p].mid))]
           /\ UNCHANGED loc
  <2>1. pc' = [pc EXCEPT ![p] = "ok"] /\ job' = [job EXCEPT ![p] = job[p]]
    BY <1>7 DEF Goto, IInv, TypeOK
  <2>2. /\ RefreshState("ok", loc[p], now) /\ LoadState("ok", job[p], loc[p], now)
        /\ "ok" \in Labels
    BY <1>2 DEF RefreshState, LoadState, Refreshing, Loading, Labels
  <2> QED
    BY <1>1, <1>2, <1>4, <1>5, <1>7, <2>1, <2>2, OfRequest, OneRequest
<1>8. CASE End(p)
  BY <1>1, <1>8, EndStep
<1> QED
  BY <1>6, <1>7, <1>8 DEF CachedRead

\* An answer that is taken ends its request.
LEMMA FinishStep ==
    ASSUME IInv, NEW p \in Procs, Finish(p)
    PROVE  IInv'
<1>1. FilesOK' /\ DOMAIN file' = Path /\ now' = now
  BY SameFiles DEF Finish
<1> QED
  BY <1>1, EndStep DEF Finish

\* Every step of a started request keeps the invariant.
LEMMA RequestStep ==
    ASSUME IInv, NEW p \in Procs, Step(p)
    PROVE  IInv'
  BY RefreshNowStep, RefreshSkipStep, RefreshReadStep, RefreshFetchStep, RefreshWriteStep,
     RefreshAuditStep, LoadReadStep, LoadAuditStep, SealFetchStep, SealWriteStep,
     SealAuditStep, DayRereadStep, CachedReadStep, FinishStep DEF Step

\* A crash forgets the requests and leaves the files.
LEMMA CrashStep ==
    ASSUME IInv, Crash
    PROVE  IInv'
<1>1. FilesOK' /\ DOMAIN file' = Path /\ now' = now /\ now \in Candle
  BY SameFiles DEF Crash, IInv, TypeOK
<1>2. \A p \in Procs : pc'[p] = "idle" /\ job'[p] = NoJob /\ loc'[p] = NoLoc /\ out'[p] = NoRows
  BY DEF Crash
<1>3. "idle" \in Labels
  BY DEF Labels
<1>4. pc' \in [Procs -> Labels] /\ job' \in [Procs -> Jobs]
  BY <1>3, NoLocIsLoc DEF Crash
<1>5. loc' = [p \in Procs |-> loc'[p]] /\ out' = [p \in Procs |-> out'[p]]
  BY DEF Crash
<1>6. \A p \in Procs : IsLoc(loc'[p]) /\ IsSeries(out'[p], Candle)
  BY <1>2, NoLocIsLoc
<1>7. \A q \in Path : IsSeries(file'[q], Tod)
  BY <1>1 DEF FilesOK
<1>8. TypeOK'
  BY <1>1, <1>4, <1>5, <1>6, <1>7 DEF TypeOK, IsLoc, IsSeries
<1>9. \A p \in Procs : /\ RefreshState(pc'[p], loc'[p], now')
                       /\ LoadState(pc'[p], job'[p], loc'[p], now')
  BY <1>2 DEF RefreshState, LoadState, Refreshing, Loading
<1> QED
  BY <1>1, <1>8, <1>9 DEF IInv, RefreshState, LoadState

\* When only the clock moves, and not back to an earlier day, what is known stays true.
LEMMA ClockStep ==
    ASSUME IInv, now' \in Candle, now[1] <= now'[1], UNCHANGED <<file, pc, job, loc, out>>
    PROVE  IInv'
<1>1. FilesOK' /\ DOMAIN file' = Path
  BY SameFiles
<1>2. TypeOK'
  BY DEF IInv, TypeOK, IsLoc, IsSeries
<1>3. now[1] \in Nat /\ now'[1] \in Nat
  BY Calendar DEF IInv, TypeOK, Candle, Day
<1>4. ASSUME NEW p \in Procs
      PROVE  /\ RefreshState(pc[p], loc[p], now')
             /\ LoadState(pc[p], job[p], loc[p], now')
  <2>1. job[p].mid \in Day /\ loc[p].cap \in Candle
    BY OfRequest DEF Jobs, IsLoc
  <2>2. \A c \in Candle : c[1] \in Day
    BY DEF Candle
  <2>3. job[p].mid \in Nat /\ loc[p].cap[1] \in Nat
    BY <2>1, <2>2, Calendar DEF Day
  <2> QED
    BY <1>3, <2>3, OfRequest DEF RefreshState, LoadState
<1> QED
  BY <1>1, <1>2, <1>4 DEF IInv, RefreshState, LoadState

\* The clock moves to the next candle of the calendar.
LEMMA TickStep ==
    ASSUME IInv, Tick
    PROVE  IInv'
<1>1. /\ now \in Candle /\ now[1] \in Nat /\ now[1] \in 0..LastDay
      /\ now[2] \in 0..(HoursPerDay - 1) /\ now[3] \in 0..(FramesPerHour - 1)
  BY Calendar DEF IInv, TypeOK, Candle, Day, Hour, Slot
<1>2. now' \in Candle /\ now[1] <= now'[1]
  <2>1. CASE now[3] + 1 < FramesPerHour /\ now' = <<now[1], now[2], now[3] + 1>>
    BY <1>1, <2>1, Calendar DEF Candle, Day, Hour, Slot
  <2>2. CASE now[2] + 1 < HoursPerDay /\ now' = <<now[1], now[2] + 1, 0>>
    BY <1>1, <2>2, Calendar DEF Candle, Day, Hour, Slot
  <2>3. CASE now[1] < LastDay /\ now' = <<now[1] + 1, 0, 0>>
    BY <1>1, <2>3, Calendar DEF Candle, Day, Hour, Slot
  <2> QED
    BY <2>1, <2>2, <2>3 DEF Tick
<1> QED
  BY <1>2, ClockStep DEF Tick

-----------------------------------------------------------------------------
(* The invariant and what follows from it.                                  *)

\* With no files and no requests the invariant holds.
LEMMA InitIInv == Init => IInv
<1> SUFFICES ASSUME Init PROVE IInv
  OBVIOUS
<1>1. now \in Candle
  BY Calendar DEF Init, Candle
<1>2. DOMAIN file = Path /\ \A q \in Path : file[q] = NoRows
  BY DEF Init
<1>3. FilesOK
  BY <1>2, NoRowsSeries DEF FilesOK
<1>4. \A p \in Procs : pc[p] = "idle" /\ job[p] = NoJob /\ loc[p] = NoLoc /\ out[p] = NoRows
  BY DEF Init
<1>5. "idle" \in Labels
  BY DEF Labels
<1>6. TypeOK
  <2>1. pc \in [Procs -> Labels] /\ job \in [Procs -> Jobs]
    BY <1>5, NoLocIsLoc DEF Init
  <2>2. loc = [p \in Procs |-> loc[p]] /\ out = [p \in Procs |-> out[p]]
    BY DEF Init
  <2>3. \A p \in Procs : IsLoc(loc[p]) /\ IsSeries(out[p], Candle)
    BY <1>4, NoLocIsLoc
  <2> QED
    BY <1>1, <1>2, <1>3, <2>1, <2>2, <2>3 DEF TypeOK, FilesOK
<1>7. \A p \in Procs : RefreshState(pc[p], loc[p], now) /\ LoadState(pc[p], job[p], loc[p], now)
  BY <1>4 DEF RefreshState, LoadState, Refreshing, Loading
<1> QED
  BY <1>3, <1>6, <1>7 DEF IInv

\* Every step keeps the invariant.
LEMMA NextIInv == IInv /\ [Next]_vars => IInv'
<1> SUFFICES ASSUME IInv, [Next]_vars PROVE IInv'
  OBVIOUS
<1>1. CASE Tick
  BY <1>1, TickStep
<1>2. CASE Crash
  BY <1>2, CrashStep
<1>3. ASSUME NEW p \in Procs, Start(p) \/ Step(p)
      PROVE  IInv'
  BY <1>3, StartStep, RequestStep
<1>4. CASE UNCHANGED vars
  <2>1. now[1] <= now[1]
    BY Calendar DEF IInv, TypeOK, Candle, Day
  <2>2. now' = now /\ now' \in Candle /\ UNCHANGED <<file, pc, job, loc, out>>
    BY <1>4 DEF vars, IInv, TypeOK
  <2> QED
    BY <2>1, <2>2, ClockStep
<1> QED
  BY <1>1, <1>2, <1>3, <1>4 DEF Next

\* IInv is an invariant of the cache.
LEMMA Invariant == Spec => []IInv
  BY InitIInv, NextIInv, PTL DEF Spec

\* The variables always have their types: the files are series of times of day, the
\* requests stay within their labels and the hours of a day.
THEOREM TypeCorrect == Spec => []TypeOK
<1>1. IInv => TypeOK
  BY DEF IInv
<1> QED
  BY <1>1, Invariant, PTL

\* An hour file only ever holds candles of its own hour, however many requests write it.
THEOREM HourRows == Spec => []HourRowsOnly
<1>1. IInv => HourRowsOnly
  BY DEF IInv, FilesOK, HourRowsOnly
<1> QED
  BY <1>1, Invariant, PTL

\* An hour file never has a hole before a candle it holds.
THEOREM NoGap == Spec => []NoHourGap
<1>1. IInv => NoHourGap
  BY DEF IInv, FilesOK, NoHourGap
<1> QED
  BY <1>1, Invariant, PTL

\* A file in a day's directory never holds a row fetched for a later day.
THEOREM NoLaterDay == Spec => []NoRowFromLaterDay
<1>1. IInv => NoRowFromLaterDay
  BY DEF IInv, FilesOK, NoRowFromLaterDay
<1> QED
  BY <1>1, Invariant, PTL

-----------------------------------------------------------------------------
(* The cache implements the abstract store.                                 *)

\* A rename that puts candles of the path's hour there is a Put of the store.
LEMMA RenameIsPut ==
    ASSUME TypeOK, NEW q \in Path, NEW h \in Path, h[2] = q[2],
           NEW s, HourSeries(s, h, q[1]), DOMAIN s # {},
           file' = [file EXCEPT ![q] = Stored(s)]
    PROVE  Store!Next
<1> DEFINE f == Stored(s)
<1>1. q[1] \in Day
  BY DEF Path
<1>2. /\ IsSeries(f, Tod)
      /\ \A t \in DOMAIN f : t[1] = q[2]
      /\ \A t \in DOMAIN f : f[t].day <= q[1]
      /\ \A t \in DOMAIN f : \A r \in Slot : r < t[2] => <<t[1], r>> \in DOMAIN f
      /\ DOMAIN f # {}
  BY <1>1, StoredSeries
<1> HIDE DEF f
<1>3. /\ Store!Days \X Store!Hours = Path /\ Store!Slots = Slot
  BY DEF Store!Days, Store!Hours, Store!Slots, Path, Day, Hour, Slot
<1>4. DOMAIN f \subseteq {q[2]} \X Slot
  <2> SUFFICES ASSUME NEW t \in DOMAIN f PROVE t \in {q[2]} \X Slot
    OBVIOUS
  <2>1. t \in Hour \X Slot /\ t[1] = q[2]
    BY <1>2 DEF IsSeries, Tod
  <2> QED
    BY <2>1
<1>5. Store!HourPrefix(f, q)
  BY <1>2, <1>3, <1>4 DEF Store!HourPrefix
<1>6. file' = [file EXCEPT ![q] = f] /\ file'[q] = f
  BY DEF TypeOK, f
<1>7. Store!Put(q, file'[q])
  BY <1>5, <1>6 DEF Store!Put
<1> QED
  BY <1>3, <1>7 DEF Store!Next

\* Only the two renames change a file, and each is a Put.
LEMMA StoreStep == IInv /\ [Next]_vars => [Store!Next]_file
<1> SUFFICES ASSUME IInv, [Next]_vars PROVE Store!Next \/ file' = file
  OBVIOUS
<1>1. ASSUME NEW p \in Procs, RefreshWrite(p)
      PROVE  Store!Next \/ file' = file
  <2>1. /\ loc[p].cap \in Candle /\ loc[p].path \in Path
        /\ loc[p].path[2] = loc[p].cap[2]
        /\ HourSeries(loc[p].buf, CapHour(p), loc[p].path[1])
        /\ DOMAIN loc[p].buf # {}
    BY <1>1, OfRequest DEF IsLoc, RefreshState, CapHour, RefreshWrite
  <2>2. CapHour(p) \in Path /\ CapHour(p)[2] = loc[p].path[2]
    BY <2>1 DEF CapHour, HourOf, Path, Candle
  <2> QED
    BY <1>1, <2>1, <2>2, RenameIsPut, OfRequest DEF RefreshWrite
<1>2. ASSUME NEW p \in Procs, SealWrite(p)
      PROVE  Store!Next \/ file' = file
  <2>1. /\ job[p] \in Jobs /\ loc[p].path \in Path
        /\ loc[p].path[2] = job[p].hour
        /\ HourSeries(loc[p].buf, JobHour(p), loc[p].path[1])
        /\ DOMAIN loc[p].buf # {}
    BY <1>2, OfRequest DEF IsLoc, LoadState, JobHour, SealWrite
  <2>2. JobHour(p) \in Path /\ JobHour(p)[2] = loc[p].path[2]
    BY <2>1 DEF JobHour, Path, Jobs
  <2> QED
    BY <1>2, <2>1, <2>2, RenameIsPut, OfRequest DEF SealWrite
<1>3. ASSUME NEW p \in Procs, Start(p) \/ Step(p), ~RefreshWrite(p), ~SealWrite(p)
      PROVE  file' = file
  BY <1>3 DEF Start, Step, RefreshNow, RefreshSkip, RefreshRead, RefreshFetch, RefreshAudit,
              LoadRead, LoadAudit, SealFetch, SealAudit, DayReread, CachedRead, Finish
<1>4. CASE Tick \/ Crash \/ UNCHANGED vars
  BY <1>4 DEF Tick, Crash, vars
<1> QED
  BY <1>1, <1>2, <1>3, <1>4 DEF Next

\* Whatever the requests do, the files behave as the abstract store: each change replaces
\* one file, as a whole, by a gap-free series of its hour.
THEOREM ImplementsStore == Spec => StoreSpec
<1>1. Init => Store!Init
  BY DEF Init, NoRows, Path, Day, Hour, Store!Init, Store!Days, Store!Hours
<1> QED
  BY <1>1, Invariant, StoreStep, PTL DEF Spec, StoreSpec, Store!Spec

-----------------------------------------------------------------------------
(* One request at a time: what it delivers is whole.                        *)

\* The program is asked for one thing at a time.
Alone == \A p, q \in Procs : p = q

\* A series has every candle of an hour.
Covers(s, h) == HourCandles(h) \subseteq DOMAIN s

\* The loop over the hours, when the label is l, the job j, the answer o and the clock t: the
\* hours it loads are over, and those before the one it is at are in the answer.
LoopState(l, j, o, t) ==
    /\ l # "idle" => ~Before(t, <<j.mid, j.cur, 0>>)
    /\ l \in Loading => j.hour < j.cur
    /\ l = "reread" => j.op = "day"
    /\ l = "cached" => j.op = "cached"
    /\ (l # "idle" /\ j.op = "day") =>
        /\ \A h \in 0 .. (j.hour - 1) : Covers(o, <<j.mid, h>>)
        /\ l \notin Loading => j.hour = j.cur
    /\ (l = "ok" /\ j.op = "load") => Covers(o, <<j.mid, j.hour>>)

\* The candles a load holds, with the files f: as whole as the file they were read from, and
\* all of the hour once it is sealed.
BufState(l, j, k, f) ==
    /\ l = "l_audit" =>
        /\ k.path[2] = j.hour
        /\ Whole(f[k.path], k.path) => Covers(k.buf, <<j.mid, j.hour>>)
    /\ l \in {"s_write", "s_audit"} => Covers(k.buf, <<j.mid, j.hour>>)

RequestState(p) ==
    /\ LoopState(pc[p], job[p], out[p], now)
    /\ BufState(pc[p], job[p], loc[p], file)

SoloInv == IInv /\ \A p \in Procs : RequestState(p)

\* The parts of a job.
LEMMA JobParts ==
    ASSUME NEW j \in Jobs
    PROVE  /\ j.mid \in Day /\ j.cur \in Hour /\ j.hour \in Hour
           /\ j.mid \in Nat /\ j.cur \in Nat /\ j.hour \in Nat
           /\ <<j.mid, j.hour>> \in Path
  BY Calendar DEF Jobs, Path, Day, Hour

\* The parts of an instant.
LEMMA InstantParts ==
    ASSUME NEW c \in Candle
    PROVE  c[1] \in Nat /\ c[2] \in Nat /\ c[3] \in Nat
  BY Calendar DEF Candle, Day, Hour, Slot

\* Reading a whole file gives every candle of its hour, on the reader's day.
LEMMA WholeRead ==
    ASSUME FilesOK, NEW q \in Path, NEW mid \in Day, Whole(file[q], q)
    PROVE  Covers(Read(file[q], mid), <<mid, q[2]>>)
<1> SUFFICES ASSUME NEW c \in HourCandles(<<mid, q[2]>>)
             PROVE  c \in DOMAIN Read(file[q], mid)
  BY DEF Covers
<1>1. <<mid, q[2]>> \in Path
  BY DEF Path
<1>2. c \in Candle /\ c[1] = mid /\ c[3] \in Slot /\ TodOf(c) = <<q[2], c[3]>>
  BY <1>1, HourCandle
<1>3. TodOf(c) \in DOMAIN file[q]
  BY <1>2 DEF Whole, SlotsHeld
<1> QED
  BY <1>2, <1>3 DEF Read

\* Storing every candle of an hour gives a whole file.
LEMMA StoredWhole ==
    ASSUME NEW q \in Path, NEW h \in Path, h[2] = q[2], NEW s, Covers(s, h)
    PROVE  Whole(Stored(s), q)
<1> SUFFICES ASSUME NEW x \in Slot
             PROVE  <<q[2], x>> \in DOMAIN Stored(s)
  BY DEF Whole, SlotsHeld
<1> DEFINE c == <<h[1], h[2], x>>
<1>1. c \in HourCandles(h) /\ TodOf(c) = <<q[2], x>>
  BY DEF HourCandles, HourOf, TodOf, Candle, Path
<1>2. c \in DOMAIN s
  BY <1>1 DEF Covers
<1> QED
  BY <1>1, <1>2 DEF Stored

\* Merging and filtering an hour keep all of it.
LEMMA MergeCovers ==
    ASSUME NEW s, NEW u, NEW h, Covers(s, h) \/ Covers(u, h)
    PROVE  Covers(Merge(s, u), h)
  BY DEF Covers, Merge

\* An hour before one that has begun is over.
LEMMA HourIsOver ==
    ASSUME NEW j \in Jobs, NEW t \in Candle, ~Before(t, <<j.mid, j.cur, 0>>),
           j.hour < j.cur, NEW c \in HourCandles(<<j.mid, j.hour>>)
    PROVE  Before(c, t)
<1>1. j.mid \in Nat /\ j.cur \in Nat /\ j.hour \in Nat /\ <<j.mid, j.hour>> \in Path
  BY JobParts
<1>2. c[1] = j.mid /\ c[2] = j.hour
  BY <1>1, HourCandle
<1>3. t[1] \in Nat /\ t[2] \in Nat /\ t[3] \in Nat
  BY Calendar DEF Candle, Day, Hour, Slot
<1>4. ~(t[1] < j.mid) /\ ~(t[1] = j.mid /\ t[2] < j.cur)
  BY DEF Before
<1> QED
  BY <1>1, <1>2, <1>3, <1>4 DEF Before

\* SealHour gets every candle of an hour that is over.
LEMMA SealCovers ==
    ASSUME NEW h \in Path, \A c \in HourCandles(h) : Before(c, now), NEW lag \in BOOLEAN
    PROVE  Covers(Filter(Answer(AskedBySeal(h), lag), h), h)
<1> SUFFICES ASSUME NEW c \in HourCandles(h)
             PROVE  c \in DOMAIN Answer(AskedBySeal(h), lag)
  BY DEF Covers, Filter
<1>1. c \in AskedBySeal(h)
  BY DEF AskedBySeal
<1> QED
  BY <1>1 DEF Answer

-----------------------------------------------------------------------------
(* The steps of the request.                                                *)

\* A request that ends knows nothing.
LEMMA EndState ==
    ASSUME IInv, NEW p \in Procs, End(p)
    PROVE  RequestState(p)'
<1>1. pc'[p] = "idle"
  BY DEF End, Goto, IInv, TypeOK
<1> QED
  BY <1>1 DEF RequestState, LoopState, BufState, Loading

\* After its refresh a request ends, or goes on with the loop where it was.
LEMMA AfterRefreshState ==
    ASSUME IInv, NEW p \in Procs, RequestState(p), NEW ok, AfterRefresh(p, ok),
           pc[p] \notin Loading \cup {"idle"}, now' = now
    PROVE  RequestState(p)'
<1>1. ASSUME NEW l \in {"cached", "reread"}, Continue(p, l),
             l = "cached" => job[p].op = "cached", l = "reread" => job[p].op = "day"
      PROVE  RequestState(p)'
  <2>1. pc'[p] = l /\ job'[p] = job[p] /\ out'[p] = out[p]
    BY <1>1 DEF Continue, Goto, IInv, TypeOK
  <2>2. LoopState(l, job[p], out[p], now)
    BY <1>1 DEF RequestState, LoopState, Loading
  <2>3. BufState(pc'[p], job'[p], loc'[p], file')
    BY <1>1, <2>1 DEF BufState
  <2> QED
    BY <2>1, <2>2, <2>3 DEF RequestState, LoopState
<1> QED
  BY <1>1, EndState DEF AfterRefresh

\* A request begins at an hour that has begun.
LEMMA StartState ==
    ASSUME IInv, NEW p \in Procs, Start(p)
    PROVE  RequestState(p)'
<1>1. /\ pc[p] = "idle" /\ now' = now /\ file' = file /\ out' = out
      /\ now \in Candle /\ now[1] \in Nat /\ now[2] \in Nat /\ now[3] \in Nat
      /\ TypeOK
  <2>1. now \in Candle /\ TypeOK
    BY OfRequest
  <2> QED
    BY <2>1, InstantParts DEF Start
<1>2. ~Before(now, <<now[1], now[2], 0>>)
  BY <1>1 DEF Before
<1>3. ASSUME NEW op \in {"refresh", "load", "day", "cached"}, NEW h \in Nat,
             NEW l \in {"r_read", "load", "refresh"},
             job' = [job EXCEPT ![p] = Request(op, h)], Goto(p, l),
             l = "load" => h < now[2],
             op = "day" => h = 0 /\ (l # "load" => now[2] = 0)
      PROVE  RequestState(p)'
  <2> DEFINE j == [op |-> op, mid |-> now[1], cur |-> now[2], hour |-> h]
  <2>1. pc'[p] = l /\ job'[p] = j
    BY <1>1, <1>3 DEF Goto, Request, TypeOK
  <2>2. j.op = op /\ j.mid = now[1] /\ j.cur = now[2] /\ j.hour = h
    OBVIOUS
  <2> HIDE DEF j
  <2>3. op = "day" => (0 .. (j.hour - 1)) = {}
    BY <1>3, <2>2
  <2>4. LoopState(l, j, out'[p], now)
    BY <1>2, <1>3, <2>2, <2>3 DEF LoopState, Loading
  <2>5. BufState(l, j, loc'[p], file')
    BY <1>3 DEF BufState
  <2> QED
    BY <1>1, <2>1, <2>4, <2>5 DEF RequestState, LoopState
<1>4. \A h \in Hour : h \in Nat
  BY Calendar DEF Hour
<1>5. CASE /\ "refresh" \in Ops
           /\ job' = [job EXCEPT ![p] = Request("refresh", now[2])]
           /\ Goto(p, "r_read")
  BY <1>1, <1>3, <1>5
<1>6. CASE /\ "load" \in Ops
           /\ \E h \in Hour : /\ h < now[2]
                              /\ job' = [job EXCEPT ![p] = Request("load", h)]
           /\ Goto(p, "load")
  BY <1>3, <1>4, <1>6
<1>7. CASE /\ "day" \in Ops
           /\ job' = [job EXCEPT ![p] = Request("day", 0)]
           /\ Goto(p, IF now[2] = 0 THEN "refresh" ELSE "load")
  <2>1. now[2] # 0 => 0 < now[2]
    BY <1>1
  <2> QED
    BY <1>3, <1>7, <2>1
<1>8. CASE /\ "cached" \in Ops
           /\ job' = [job EXCEPT ![p] = Request("cached", 0)]
           /\ Goto(p, "refresh")
  BY <1>3, <1>8
<1> QED
  BY <1>5, <1>6, <1>7, <1>8 DEF Start

\* A refresh that has read is where it was in its loop.
LEMMA RefreshReadState ==
    ASSUME IInv, NEW p \in Procs, RequestState(p), RefreshRead(p)
    PROVE  RequestState(p)'
<1>1. pc[p] = "r_read" /\ now' = now
  BY DEF RefreshRead
<1>2. pc'[p] = "r_fetch" /\ job'[p] = job[p] /\ out'[p] = out[p]
  BY DEF RefreshRead, Goto, IInv, TypeOK
<1>3. LoopState("r_fetch", job[p], out[p], now)
  BY <1>1 DEF RequestState, LoopState, Loading
<1>4. BufState(pc'[p], job'[p], loc'[p], file')
  BY <1>2 DEF BufState
<1> QED
  BY <1>1, <1>2, <1>3, <1>4 DEF RequestState, LoopState

\* A refresh that has fetched is where it was in its loop, or behind the refresh.
LEMMA RefreshFetchState ==
    ASSUME IInv, NEW p \in Procs, RequestState(p), RefreshFetch(p)
    PROVE  RequestState(p)'
<1>1. pc[p] = "r_fetch" /\ now' = now
  BY DEF RefreshFetch
<1>2. ASSUME NEW ok, AfterRefresh(p, ok)
      PROVE  RequestState(p)'
  BY <1>1, <1>2, AfterRefreshState DEF Loading
<1>3. CASE Goto(p, "r_write") /\ UNCHANGED <<job, out>>
  <2>1. pc'[p] = "r_write" /\ job'[p] = job[p] /\ out'[p] = out[p]
    BY <1>3 DEF Goto, IInv, TypeOK
  <2>2. BufState(pc'[p], job'[p], loc'[p], file')
    BY <2>1 DEF BufState
  <2>3. LoopState("r_write", job[p], out[p], now)
    BY <1>1 DEF RequestState, LoopState, Loading
  <2> QED
    BY <1>1, <2>1, <2>2, <2>3 DEF RequestState, LoopState
<1> QED
  BY <1>2, <1>3 DEF RefreshFetch

\* A rename leaves the refresh nothing to know but where its loop is.
LEMMA RefreshWriteState ==
    ASSUME IInv, NEW p \in Procs, RequestState(p), RefreshWrite(p)
    PROVE  RequestState(p)'
<1>1. pc[p] = "r_write" /\ now' = now
  BY DEF RefreshWrite
<1>2. CASE AfterRefresh(p, FALSE)
  BY <1>1, <1>2, AfterRefreshState DEF Loading
<1>3. CASE Goto(p, "r_audit") /\ UNCHANGED <<job, loc, out>>
  <2>1. pc'[p] = "r_audit" /\ job'[p] = job[p] /\ out'[p] = out[p]
    BY <1>3 DEF Goto, IInv, TypeOK
  <2>2. LoopState("r_audit", job[p], out[p], now)
    BY <1>1 DEF RequestState, LoopState, Loading
  <2>3. BufState(pc'[p], job'[p], loc'[p], file')
    BY <2>1 DEF BufState
  <2> QED
    BY <1>1, <2>1, <2>2, <2>3 DEF RequestState, LoopState
<1> QED
  BY <1>2, <1>3 DEF RefreshWrite

\* Delivering all of an hour puts it in the answer, and the loop goes on behind it.
LEMMA DeliverState ==
    ASSUME IInv, NEW p \in Procs, RequestState(p), pc[p] \in Loading, NEW s,
           Covers(s, JobHour(p)), Deliver(p, s), now' = now
    PROVE  RequestState(p)'
<1> DEFINE o == Merge(out[p], s)
<1>1. out'[p] = o
  BY DEF Deliver, IInv, TypeOK
<1>2. /\ job[p] \in Jobs /\ job[p].hour \in Nat /\ job[p].cur \in Nat
      /\ job[p].hour < job[p].cur
      /\ ~Before(now, <<job[p].mid, job[p].cur, 0>>)
  BY OfRequest, JobParts DEF RequestState, LoopState, Loading
<1>3. Covers(o, <<job[p].mid, job[p].hour>>)
  BY MergeCovers DEF JobHour
<1>4. job[p].op = "day" =>
        \A h \in 0 .. (job[p].hour - 1) : Covers(o, <<job[p].mid, h>>)
  BY MergeCovers DEF RequestState, LoopState, Loading
<1> HIDE DEF o
<1>5. CASE job[p].op = "load" /\ Goto(p, "ok") /\ UNCHANGED job
  <2>1. pc'[p] = "ok" /\ job'[p] = job[p]
    BY <1>5 DEF Goto, IInv, TypeOK
  <2>2. LoopState("ok", job[p], o, now)
    BY <1>2, <1>3, <1>5 DEF LoopState, Loading
  <2>3. BufState(pc'[p], job'[p], loc'[p], file')
    BY <2>1 DEF BufState
  <2> QED
    BY <1>1, <2>1, <2>2, <2>3 DEF RequestState, LoopState
<1>6. CASE /\ job[p].op = "day"
           /\ job' = [job EXCEPT ![p].hour = @ + 1]
           /\ Goto(p, IF job[p].hour + 1 = job[p].cur THEN "refresh" ELSE "load")
  <2> DEFINE j == [job[p] EXCEPT !.hour = job[p].hour + 1]
             l == IF job[p].hour + 1 = job[p].cur THEN "refresh" ELSE "load"
  <2>1. /\ j.mid = job[p].mid /\ j.op = "day" /\ j.cur = job[p].cur
        /\ j.hour = job[p].hour + 1
    BY <1>2, <1>6 DEF Jobs
  <2>2. pc'[p] = l /\ job'[p] = j
    BY <1>6 DEF Goto, IInv, TypeOK
  <2>3. l \in {"refresh", "load"} /\ (l = "load" => j.hour < j.cur)
        /\ (l = "refresh" => j.hour = j.cur)
    BY <1>2, <2>1
  <2> HIDE DEF j, l
  <2>4. ASSUME NEW h \in 0 .. (j.hour - 1)
        PROVE  Covers(o, <<j.mid, h>>)
    <3>1. h = job[p].hour \/ h \in 0 .. (job[p].hour - 1)
      BY <1>2, <2>1
    <3> QED
      BY <1>3, <1>4, <1>6, <2>1, <3>1
  <2>5. LoopState(l, j, o, now)
    BY <1>2, <2>1, <2>3, <2>4 DEF LoopState, Loading
  <2>6. BufState(pc'[p], job'[p], loc'[p], file')
    BY <2>2, <2>3 DEF BufState
  <2> QED
    BY <1>1, <2>2, <2>5, <2>6 DEF RequestState, LoopState
<1> QED
  BY <1>5, <1>6 DEF Deliver

\* A load that goes on to seal is where it was in its loop.
LEMMA EnterSealState ==
    ASSUME IInv, NEW p \in Procs, RequestState(p), pc[p] \in Loading, EnterSeal(p), now' = now
    PROVE  RequestState(p)'
<1>1. pc'[p] = "s_fetch" /\ job'[p] = job[p] /\ out'[p] = out[p]
  BY DEF EnterSeal, Goto, IInv, TypeOK
<1>2. LoopState("s_fetch", job[p], out[p], now)
  BY DEF RequestState, LoopState, Loading
<1>3. BufState(pc'[p], job'[p], loc'[p], file')
  BY <1>1 DEF BufState
<1> QED
  BY <1>1, <1>2, <1>3 DEF RequestState, LoopState

\* A load holds all of the hour when the file it read is whole.
LEMMA LoadReadState ==
    ASSUME IInv, NEW p \in Procs, RequestState(p), LoadRead(p)
    PROVE  RequestState(p)'
<1> DEFINE here == HourlyPath(job[p].hour)
           held == Read(file[here], job[p].mid)
           k    == [cap |-> loc[p].cap, path |-> here, buf |-> held]
<1>1. pc[p] = "load" /\ now' = now /\ file' = file
  BY DEF LoadRead
<1>2. job[p].mid \in Day /\ job[p].hour \in Hour
  BY OfRequest, JobParts
<1>3. here \in Path /\ here[2] = job[p].hour /\ FilesOK
  BY <1>2, PathNow, OfRequest
<1>4. Whole(file[here], here) => Covers(held, <<job[p].mid, job[p].hour>>)
  BY <1>2, <1>3, WholeRead
<1>5. CASE /\ loc' = [loc EXCEPT ![p] = [cap |-> @.cap, path |-> here, buf |-> held]]
           /\ Goto(p, "l_audit")
           /\ UNCHANGED <<job, out>>
  <2>1. pc'[p] = "l_audit" /\ job'[p] = job[p] /\ out'[p] = out[p] /\ loc'[p] = k
    BY <1>5 DEF Goto, IInv, TypeOK
  <2>2. k.path = here /\ k.buf = held
    OBVIOUS
  <2> HIDE DEF k, here, held
  <2>3. BufState("l_audit", job[p], k, file)
    BY <1>3, <1>4, <2>2 DEF BufState
  <2>4. LoopState("l_audit", job[p], out[p], now)
    BY <1>1 DEF RequestState, LoopState, Loading
  <2> QED
    BY <1>1, <2>1, <2>3, <2>4 DEF RequestState, LoopState, BufState
<1>6. CASE EnterSeal(p)
  BY <1>1, <1>6, EnterSealState DEF Loading
<1>7. CASE Goto(p, "l_unread") /\ UNCHANGED <<job, out>>
  <2>1. pc'[p] = "l_unread" /\ job'[p] = job[p] /\ out'[p] = out[p]
    BY <1>7 DEF Goto, IInv, TypeOK
  <2>2. BufState(pc'[p], job'[p], loc'[p], file')
    BY <2>1 DEF BufState
  <2>3. LoopState("l_unread", job[p], out[p], now)
    BY <1>1 DEF RequestState, LoopState, Loading
  <2> QED
    BY <1>1, <2>1, <2>2, <2>3 DEF RequestState, LoopState
<1> QED
  BY <1>5, <1>6, <1>7 DEF LoadRead

\* The audit of the file tells the truth about the candles held.
LEMMA LoadAuditState ==
    ASSUME IInv, NEW p \in Procs, RequestState(p), LoadAudit(p)
    PROVE  RequestState(p)'
<1>1. pc[p] \in {"l_audit", "l_unread"} /\ pc[p] \in Loading /\ now' = now
  BY DEF LoadAudit, Loading
<1>2. CASE /\ pc[p] = "l_audit" /\ Whole(file[loc[p].path], JobHour(p))
           /\ Deliver(p, loc[p].buf)
  <2>1. /\ loc[p].path[2] = job[p].hour
        /\ Whole(file[loc[p].path], loc[p].path) => Covers(loc[p].buf, JobHour(p))
    BY <1>2 DEF RequestState, BufState, JobHour
  <2>2. Whole(file[loc[p].path], loc[p].path)
    BY <1>2, <2>1 DEF Whole, SlotsHeld, JobHour
  <2> QED
    BY <1>1, <1>2, <2>1, <2>2, DeliverState
<1>3. CASE EnterSeal(p)
  BY <1>1, <1>3, EnterSealState
<1>4. CASE End(p)
  BY <1>4, EndState
<1> QED
  BY <1>2, <1>3, <1>4 DEF LoadAudit

\* SealHour fetches all of its hour, which is over.
LEMMA SealFetchState ==
    ASSUME IInv, NEW p \in Procs, RequestState(p), SealFetch(p)
    PROVE  RequestState(p)'
<1>1. pc[p] = "s_fetch" /\ now' = now
  BY DEF SealFetch
<1>2. /\ job[p] \in Jobs /\ job[p].hour < job[p].cur
      /\ ~Before(now, <<job[p].mid, job[p].cur, 0>>)
      /\ now \in Candle
  BY <1>1, OfRequest DEF RequestState, LoopState, Loading
<1>3. JobHour(p) \in Path /\ \A c \in HourCandles(JobHour(p)) : Before(c, now)
  BY <1>2, JobParts, HourIsOver DEF JobHour
<1>4. ASSUME NEW lag \in BOOLEAN, NEW sealed, NEW l \in {"s_audit", "s_write"},
             sealed = Filter(Answer(AskedBySeal(JobHour(p)), lag), JobHour(p)),
             loc' = [loc EXCEPT ![p].buf = sealed], Goto(p, l), UNCHANGED <<job, out>>
      PROVE  RequestState(p)'
  <2> DEFINE k == [cap |-> loc[p].cap, path |-> loc[p].path, buf |-> sealed]
  <2>1. pc'[p] = l /\ job'[p] = job[p] /\ out'[p] = out[p] /\ loc'[p] = k
    BY <1>4, LocFields, OfRequest DEF Goto, IInv, TypeOK
  <2>2. Covers(sealed, JobHour(p))
    BY <1>3, <1>4, SealCovers
  <2>3. BufState(l, job[p], k, file')
    BY <2>2 DEF BufState, JobHour
  <2>4. LoopState(l, job[p], out[p], now)
    BY <1>1 DEF RequestState, LoopState, Loading
  <2> QED
    BY <1>1, <2>1, <2>3, <2>4 DEF RequestState, LoopState, BufState
<1>5. CASE End(p)
  BY <1>5, EndState
<1> QED
  BY <1>4, <1>5 DEF SealFetch

\* The rename of SealHour leaves what it holds.
LEMMA SealWriteState ==
    ASSUME IInv, NEW p \in Procs, RequestState(p), SealWrite(p)
    PROVE  RequestState(p)'
<1>1. pc[p] = "s_write" /\ now' = now
  BY DEF SealWrite
<1>2. CASE Goto(p, "s_audit") /\ UNCHANGED <<job, loc, out>>
  <2>1. pc'[p] = "s_audit" /\ job'[p] = job[p] /\ out'[p] = out[p] /\ loc'[p] = loc[p]
    BY <1>2 DEF Goto, IInv, TypeOK
  <2>2. BufState("s_audit", job[p], loc[p], file')
    BY <1>1 DEF RequestState, BufState
  <2>3. LoopState("s_audit", job[p], out[p], now)
    BY <1>1 DEF RequestState, LoopState, Loading
  <2> QED
    BY <1>1, <2>1, <2>2, <2>3 DEF RequestState, LoopState, BufState
<1> QED
  BY <1>2, EndState DEF SealWrite

\* SealHour delivers all of the hour.
LEMMA SealAuditState ==
    ASSUME IInv, NEW p \in Procs, RequestState(p), SealAudit(p)
    PROVE  RequestState(p)'
<1>1. pc[p] = "s_audit" /\ pc[p] \in Loading /\ now' = now
  BY DEF SealAudit, Loading
<1>2. Covers(loc[p].buf, JobHour(p))
  BY <1>1 DEF RequestState, BufState, JobHour
<1> QED
  BY <1>1, <1>2, DeliverState, EndState DEF SealAudit

\* The last hour is added to an answer that has the ones before.
LEMMA DayRereadState ==
    ASSUME IInv, NEW p \in Procs, RequestState(p), DayReread(p)
    PROVE  RequestState(p)'
<1> DEFINE u == Read(file[HourlyPath(job[p].hour)], job[p].mid)
           o == Merge(out[p], u)
<1>1. pc[p] = "reread" /\ now' = now
  BY DEF DayReread
<1>2. CASE out' = [out EXCEPT ![p] = Merge(@, u)] /\ Goto(p, "ok") /\ UNCHANGED <<job, loc>>
  <2>1. pc'[p] = "ok" /\ job'[p] = job[p] /\ out'[p] = o
    BY <1>2 DEF Goto, IInv, TypeOK
  <2>2. /\ job[p].op = "day" /\ job[p].hour = job[p].cur
        /\ ~Before(now, <<job[p].mid, job[p].cur, 0>>)
        /\ \A h \in 0 .. (job[p].hour - 1) : Covers(o, <<job[p].mid, h>>)
    BY <1>1, MergeCovers DEF RequestState, LoopState, Loading
  <2> HIDE DEF o
  <2>3. LoopState("ok", job[p], o, now)
    BY <2>2 DEF LoopState, Loading
  <2>4. BufState(pc'[p], job'[p], loc'[p], file')
    BY <2>1 DEF BufState
  <2> QED
    BY <1>1, <2>1, <2>3, <2>4 DEF RequestState, LoopState
<1> QED
  BY <1>2, EndState DEF DayReread

\* ReadCachedCurrentDay owes no hour.
LEMMA CachedReadState ==
    ASSUME IInv, NEW p \in Procs, RequestState(p), CachedRead(p)
    PROVE  RequestState(p)'
<1>1. pc[p] = "cached" /\ now' = now
  BY DEF CachedRead
<1>2. /\ job[p] \in Jobs /\ job[p].op = "cached"
      /\ ~Before(now, <<job[p].mid, job[p].cur, 0>>)
  BY <1>1, OfRequest DEF RequestState, LoopState
<1>3. CASE ~End(p)
  <2>1. /\ pc'[p] \in {"cached", "ok"} /\ job'[p].op = "cached"
        /\ job'[p].mid = job[p].mid /\ job'[p].cur = job[p].cur
    BY <1>1, <1>2, <1>3 DEF CachedRead, Goto, IInv, TypeOK, Jobs
  <2>2. LoopState(pc'[p], job'[p], out'[p], now)
    BY <1>2, <2>1 DEF LoopState, Loading
  <2>3. BufState(pc'[p], job'[p], loc'[p], file')
    BY <2>1 DEF BufState
  <2> QED
    BY <1>1, <2>2, <2>3 DEF RequestState, LoopState
<1> QED
  BY <1>3, EndState

\* A refresh begins where the loop is.
LEMMA RefreshNowState ==
    ASSUME IInv, NEW p \in Procs, RequestState(p), RefreshNow(p)
    PROVE  RequestState(p)'
<1>1. pc[p] = "refresh" /\ now' = now
  BY DEF RefreshNow
<1>2. pc'[p] = "r_read" /\ job'[p] = job[p] /\ out'[p] = out[p]
  BY DEF RefreshNow, Goto, IInv, TypeOK
<1>3. LoopState("r_read", job[p], out[p], now)
  BY <1>1 DEF RequestState, LoopState, Loading
<1>4. BufState(pc'[p], job'[p], loc'[p], file')
  BY <1>2 DEF BufState
<1> QED
  BY <1>1, <1>2, <1>3, <1>4 DEF RequestState, LoopState

\* A refresh that is skipped goes on to the cached hours.
LEMMA RefreshSkipState ==
    ASSUME IInv, NEW p \in Procs, RequestState(p), RefreshSkip(p)
    PROVE  RequestState(p)'
<1>1. pc[p] = "refresh" /\ now' = now /\ job[p].op = "cached" /\ Continue(p, "cached")
  BY DEF RefreshSkip
<1>2. AfterRefresh(p, TRUE)
  BY <1>1 DEF AfterRefresh
<1> QED
  BY <1>1, <1>2, AfterRefreshState DEF Loading

\* The audit of a refresh leaves what it has written.
LEMMA RefreshAuditState ==
    ASSUME IInv, NEW p \in Procs, RequestState(p), RefreshAudit(p)
    PROVE  RequestState(p)'
<1>1. pc[p] = "r_audit" /\ now' = now
  BY DEF RefreshAudit
<1> QED
  BY <1>1, AfterRefreshState DEF RefreshAudit, Loading

\* Each step of a request keeps what is known of it.
LEMMA StepState ==
    ASSUME IInv, NEW p \in Procs, RequestState(p), Start(p) \/ Step(p)
    PROVE  RequestState(p)'
<1>1. CASE Finish(p)
  BY <1>1, EndState DEF Finish
<1> QED
  BY <1>1, StartState, RefreshNowState, RefreshSkipState, RefreshReadState,
     RefreshFetchState, RefreshWriteState, RefreshAuditState, LoadReadState,
     LoadAuditState, SealFetchState, SealWriteState, SealAuditState, DayRereadState,
     CachedReadState DEF Step

\* The clock does not undo that an hour has begun.
LEMMA TickState ==
    ASSUME IInv, Tick, NEW p \in Procs, RequestState(p)
    PROVE  RequestState(p)'
<1>1. /\ now[1] \in Nat /\ now[2] \in Nat /\ now[3] \in Nat
      /\ job[p].mid \in Nat /\ job[p].cur \in Nat
  BY OfRequest, JobParts, InstantParts
<1>2. ASSUME ~Before(now, <<job[p].mid, job[p].cur, 0>>)
      PROVE  ~Before(now', <<job[p].mid, job[p].cur, 0>>)
  BY <1>1, <1>2 DEF Tick, Before
<1>3. UNCHANGED <<pc, job, loc, out, file>>
  BY DEF Tick
<1> QED
  BY <1>2, <1>3 DEF RequestState, LoopState, BufState

\* Every step keeps what is known of the only request.
LEMMA NextSolo ==
    ASSUME Alone, SoloInv, [Next]_vars
    PROVE  SoloInv'
<1>1. IInv /\ IInv'
  BY NextIInv DEF SoloInv
<1> SUFFICES ASSUME NEW q \in Procs
             PROVE  RequestState(q)'
  BY <1>1 DEF SoloInv
<1>2. RequestState(q)
  BY DEF SoloInv
<1>3. CASE Tick
  BY <1>1, <1>2, <1>3, TickState
<1>4. CASE Crash
  <2>1. pc'[q] = "idle"
    BY <1>4 DEF Crash
  <2> QED
    BY <2>1 DEF RequestState, LoopState, BufState, Loading
<1>5. ASSUME NEW p \in Procs, Start(p) \/ Step(p)
      PROVE  RequestState(q)'
  <2>1. q = p
    BY DEF Alone
  <2> QED
    BY <1>1, <1>2, <1>5, <2>1, StepState
<1>6. CASE UNCHANGED vars
  BY <1>2, <1>6 DEF vars, RequestState, LoopState, BufState
<1> QED
  BY <1>3, <1>4, <1>5, <1>6 DEF Next

\* Nothing has been asked for yet.
LEMMA InitSolo == Init => SoloInv
<1> SUFFICES ASSUME Init PROVE SoloInv
  OBVIOUS
<1>1. IInv
  BY InitIInv
<1>2. \A p \in Procs : pc[p] = "idle"
  BY DEF Init
<1> QED
  BY <1>1, <1>2 DEF SoloInv, RequestState, LoopState, BufState, Loading

\* One request at a time: an hour that is handed out as loaded or sealed has all its candles,
\* and so have the completed hours of an assembled day, whatever fails, crashes or lags.
THEOREM WholeAnswers == Alone => (Spec => []AnswerIsWhole)
<1> SUFFICES ASSUME Alone
             PROVE  Spec => []AnswerIsWhole
  OBVIOUS
<1>1. SoloInv /\ [Next]_vars => SoloInv'
  BY NextSolo
<1>2. SoloInv => AnswerIsWhole
  <2> SUFFICES ASSUME SoloInv, NEW p \in Procs, pc[p] = "ok", NEW h \in HoursOwed(p)
               PROVE  Covers(out[p], <<job[p].mid, h>>)
    BY DEF AnswerIsWhole, Covers
  <2>1. LoopState(pc[p], job[p], out[p], now)
    BY DEF SoloInv, RequestState
  <2>2. CASE job[p].op = "load"
    BY <2>1, <2>2 DEF HoursOwed, LoopState
  <2>3. CASE job[p].op = "day"
    <3>1. job[p].hour = job[p].cur /\ h \in 0 .. (job[p].cur - 1)
      BY <2>1, <2>3 DEF HoursOwed, LoopState, Loading
    <3> QED
      BY <2>1, <2>3, <3>1 DEF LoopState
  <2>4. CASE job[p].op \notin {"load", "day"}
    BY <2>4 DEF HoursOwed
  <2> QED
    BY <2>2, <2>3, <2>4
<1> QED
  BY InitSolo, <1>1, <1>2, PTL DEF Spec

-----------------------------------------------------------------------------
(* Any number of requests: what is settled stays.                           *)

\* What a load or seal knows whatever the other requests do: the hour it is at was over when
\* it began, and the candles it renames into place are all of that hour.
SealState(p) ==
    /\ pc[p] # "idle" => ~Before(now, <<job[p].mid, job[p].cur, 0>>)
    /\ pc[p] \in Loading => job[p].hour < job[p].cur
    /\ pc[p] = "s_write" => Covers(loc[p].buf, JobHour(p))

SealInv == IInv /\ \A p \in Procs : SealState(p)

\* A request that goes on without going to the seal's rename.
LEMMA GoesOnSeal ==
    ASSUME NEW p \in Procs, SealState(p), pc[p] # "idle", now' = now, pc'[p] # "s_write",
           job'[p].mid = job[p].mid, job'[p].cur = job[p].cur,
           pc'[p] \in Loading => job'[p].hour < job'[p].cur
    PROVE  SealState(p)'
  BY DEF SealState

\* The same for a step that leaves the job as it is and begins no load.
LEMMA LeavesJobSeal ==
    ASSUME IInv, NEW p \in Procs, SealState(p), pc[p] # "idle", now' = now, NEW l,
           Goto(p, l), UNCHANGED job, l # "s_write", l \in Loading => pc[p] \in Loading
    PROVE  SealState(p)'
<1>1. pc'[p] = l /\ job'[p] = job[p]
  BY DEF Goto, IInv, TypeOK
<1> QED
  BY <1>1, GoesOnSeal DEF SealState

\* A request that ends knows nothing.
LEMMA EndSeal ==
    ASSUME IInv, NEW p \in Procs, End(p)
    PROVE  SealState(p)'
<1>1. pc'[p] = "idle"
  BY DEF End, Goto, IInv, TypeOK
<1> QED
  BY <1>1 DEF SealState, Loading

\* After its refresh a request ends or goes on.
LEMMA AfterRefreshSeal ==
    ASSUME IInv, NEW p \in Procs, SealState(p), pc[p] # "idle", now' = now, NEW ok,
           AfterRefresh(p, ok)
    PROVE  SealState(p)'
  BY EndSeal, LeavesJobSeal DEF AfterRefresh, Continue, Loading

\* A loaded hour is behind the request; the next one is before its current hour.
LEMMA DeliverSeal ==
    ASSUME IInv, NEW p \in Procs, SealState(p), pc[p] \in Loading, now' = now, NEW s,
           Deliver(p, s)
    PROVE  SealState(p)'
<1>1. /\ job[p] \in Jobs /\ job[p].hour \in Nat /\ job[p].cur \in Nat
      /\ job[p].hour < job[p].cur /\ pc[p] # "idle"
  BY OfRequest, JobParts DEF SealState, Loading
<1>2. CASE Goto(p, "ok") /\ UNCHANGED job
  BY <1>1, <1>2, LeavesJobSeal DEF Loading
<1>3. CASE /\ job' = [job EXCEPT ![p].hour = @ + 1]
           /\ Goto(p, IF job[p].hour + 1 = job[p].cur THEN "refresh" ELSE "load")
  <2>1. /\ job'[p].mid = job[p].mid /\ job'[p].cur = job[p].cur
        /\ job'[p].hour = job[p].hour + 1
    BY <1>1, <1>3 DEF IInv, TypeOK, Jobs
  <2>2. pc'[p] = IF job[p].hour + 1 = job[p].cur THEN "refresh" ELSE "load"
    BY <1>3 DEF Goto, IInv, TypeOK
  <2>3. pc'[p] # "s_write" /\ (pc'[p] \in Loading => job'[p].hour < job'[p].cur)
    BY <1>1, <2>1, <2>2 DEF Loading
  <2> QED
    BY <1>1, <2>1, <2>3, GoesOnSeal
<1> QED
  BY <1>2, <1>3 DEF Deliver

\* A request begins at an hour that has begun, a load at one that is over.
LEMMA StartSeal ==
    ASSUME IInv, NEW p \in Procs, Start(p)
    PROVE  SealState(p)'
<1>1. /\ pc[p] = "idle" /\ now' = now /\ TypeOK
      /\ now[1] \in Nat /\ now[2] \in Nat /\ now[3] \in Nat
  <2>1. now \in Candle /\ TypeOK
    BY OfRequest
  <2> QED
    BY <2>1, InstantParts DEF Start
<1>2. ASSUME NEW op, NEW h \in Nat, NEW l \in {"r_read", "load", "refresh"},
             job' = [job EXCEPT ![p] = Request(op, h)], Goto(p, l), l = "load" => h < now[2]
      PROVE  SealState(p)'
  <2>1. pc'[p] = l /\ job'[p] = [op |-> op, mid |-> now[1], cur |-> now[2], hour |-> h]
    BY <1>1, <1>2 DEF Goto, Request, TypeOK
  <2>2. job'[p].mid = now[1] /\ job'[p].cur = now[2] /\ job'[p].hour = h
    BY <2>1
  <2>3. ~Before(now, <<now[1], now[2], 0>>)
    BY <1>1 DEF Before
  <2> QED
    BY <1>1, <1>2, <2>1, <2>2, <2>3 DEF SealState, Loading
<1>3. \A h \in Hour : h \in Nat
  BY Calendar DEF Hour
<1>4. CASE job' = [job EXCEPT ![p] = Request("refresh", now[2])] /\ Goto(p, "r_read")
  BY <1>1, <1>2, <1>4
<1>5. CASE /\ \E h \in Hour : /\ h < now[2]
                              /\ job' = [job EXCEPT ![p] = Request("load", h)]
           /\ Goto(p, "load")
  BY <1>2, <1>3, <1>5
<1>6. CASE /\ job' = [job EXCEPT ![p] = Request("day", 0)]
           /\ Goto(p, IF now[2] = 0 THEN "refresh" ELSE "load")
  <2>1. now[2] # 0 => 0 < now[2]
    BY <1>1
  <2> QED
    BY <1>2, <1>6, <2>1
<1>7. CASE job' = [job EXCEPT ![p] = Request("cached", 0)] /\ Goto(p, "refresh")
  BY <1>2, <1>7
<1> QED
  BY <1>4, <1>5, <1>6, <1>7 DEF Start

\* SealHour fetches all of its hour, which is over.
LEMMA SealFetchSeal ==
    ASSUME IInv, NEW p \in Procs, SealState(p), SealFetch(p)
    PROVE  SealState(p)'
<1>1. /\ pc[p] = "s_fetch" /\ now' = now /\ now \in Candle /\ job[p] \in Jobs
      /\ job[p].hour < job[p].cur
      /\ ~Before(now, <<job[p].mid, job[p].cur, 0>>)
  BY OfRequest DEF SealFetch, SealState, Loading
<1>2. JobHour(p) \in Path /\ \A c \in HourCandles(JobHour(p)) : Before(c, now)
  BY <1>1, JobParts, HourIsOver DEF JobHour
<1>3. ASSUME NEW lag \in BOOLEAN, NEW sealed, NEW l \in {"s_audit", "s_write"},
             sealed = Filter(Answer(AskedBySeal(JobHour(p)), lag), JobHour(p)),
             loc' = [loc EXCEPT ![p].buf = sealed], Goto(p, l), UNCHANGED job
      PROVE  SealState(p)'
  <2> DEFINE k == [cap |-> loc[p].cap, path |-> loc[p].path, buf |-> sealed]
  <2>0. loc'[p] = k
    BY <1>3, LocFields, OfRequest DEF IInv, TypeOK
  <2>1. pc'[p] = l /\ job'[p] = job[p] /\ loc'[p].buf = sealed
    BY <1>3, <2>0 DEF Goto, IInv, TypeOK
  <2>2. Covers(sealed, JobHour(p))
    BY <1>2, <1>3, SealCovers
  <2> QED
    BY <1>1, <2>1, <2>2 DEF SealState, JobHour, Loading
<1> QED
  BY <1>3, EndSeal DEF SealFetch

\* Each step of a request keeps what its seal knows.
LEMMA StepSeal ==
    ASSUME IInv, NEW p \in Procs, SealState(p), Start(p) \/ Step(p)
    PROVE  SealState(p)'
<1>1. CASE RefreshNow(p) \/ RefreshRead(p)
  BY <1>1, LeavesJobSeal DEF RefreshNow, RefreshRead, Loading
<1>2. CASE RefreshSkip(p)
  BY <1>2, LeavesJobSeal DEF RefreshSkip, Continue, Loading
<1>3. CASE RefreshFetch(p) \/ RefreshWrite(p) \/ RefreshAudit(p)
  BY <1>3, LeavesJobSeal, AfterRefreshSeal
     DEF RefreshFetch, RefreshWrite, RefreshAudit, Loading
<1>4. CASE LoadRead(p)
  BY <1>4, LeavesJobSeal DEF LoadRead, EnterSeal, Loading
<1>5. CASE LoadAudit(p)
  BY <1>5, LeavesJobSeal, DeliverSeal, EndSeal DEF LoadAudit, EnterSeal, Loading
<1>6. CASE SealWrite(p) \/ SealAudit(p)
  BY <1>6, LeavesJobSeal, DeliverSeal, EndSeal DEF SealWrite, SealAudit, Loading
<1>7. CASE DayReread(p)
  BY <1>7, LeavesJobSeal, EndSeal DEF DayReread, Loading
<1>8. CASE CachedRead(p)
  <2>1. CASE End(p)
    BY <2>1, EndSeal
  <2>2. CASE ~End(p)
    <3>1. /\ pc[p] = "cached" /\ now' = now /\ pc'[p] \in {"cached", "ok"}
          /\ job'[p].mid = job[p].mid /\ job'[p].cur = job[p].cur
      BY <1>8, <2>2, OfRequest DEF CachedRead, Goto, IInv, TypeOK, Jobs
    <3> QED
      BY <3>1, GoesOnSeal DEF Loading
  <2> QED
    BY <2>1, <2>2
<1>9. CASE Finish(p)
  BY <1>9, EndSeal DEF Finish
<1> QED
  BY <1>1, <1>2, <1>3, <1>4, <1>5, <1>6, <1>7, <1>8, <1>9, StartSeal, SealFetchSeal DEF Step

\* A step of one request leaves the others' place, job and locals alone.
LEMMA StepFrame ==
    ASSUME IInv, NEW p \in Procs, Start(p) \/ Step(p), NEW q \in Procs, q # p
    PROVE  pc'[q] = pc[q] /\ job'[q] = job[q] /\ loc'[q] = loc[q] /\ now' = now
<1> USE DEF IInv, TypeOK, Goto, Continue, End, AfterRefresh, Deliver, EnterSeal
<1>1. CASE Start(p)
  BY <1>1 DEF Start
<1>2. CASE RefreshNow(p) \/ RefreshSkip(p) \/ RefreshRead(p) \/ RefreshFetch(p)
  BY <1>2 DEF RefreshNow, RefreshSkip, RefreshRead, RefreshFetch
<1>3. CASE RefreshWrite(p) \/ RefreshAudit(p) \/ LoadRead(p) \/ LoadAudit(p)
  BY <1>3 DEF RefreshWrite, RefreshAudit, LoadRead, LoadAudit
<1>4. CASE SealFetch(p) \/ SealWrite(p) \/ SealAudit(p)
  BY <1>4 DEF SealFetch, SealWrite, SealAudit
<1>5. CASE DayReread(p) \/ CachedRead(p) \/ Finish(p)
  BY <1>5 DEF DayReread, CachedRead, Finish
<1> QED
  BY <1>1, <1>2, <1>3, <1>4, <1>5 DEF Step

\* Every step keeps what the seals of all requests know.
LEMMA NextSeal ==
    ASSUME SealInv, [Next]_vars
    PROVE  SealInv'
<1>1. IInv /\ IInv'
  BY NextIInv DEF SealInv
<1> SUFFICES ASSUME NEW q \in Procs
             PROVE  SealState(q)'
  BY <1>1 DEF SealInv
<1>2. SealState(q)
  BY DEF SealInv
<1>3. CASE Tick
  <2>1. /\ now[1] \in Nat /\ now[2] \in Nat /\ now[3] \in Nat
        /\ job[q].mid \in Nat /\ job[q].cur \in Nat
    BY <1>1, OfRequest, JobParts, InstantParts
  <2>2. ASSUME ~Before(now, <<job[q].mid, job[q].cur, 0>>)
        PROVE  ~Before(now', <<job[q].mid, job[q].cur, 0>>)
    BY <1>3, <2>1, <2>2 DEF Tick, Before
  <2>3. UNCHANGED <<pc, job, loc>>
    BY <1>3 DEF Tick
  <2> QED
    BY <1>2, <2>2, <2>3 DEF SealState, JobHour
<1>4. CASE Crash
  <2>1. pc'[q] = "idle"
    BY <1>4 DEF Crash
  <2> QED
    BY <2>1 DEF SealState, Loading
<1>5. ASSUME NEW p \in Procs, Start(p) \/ Step(p)
      PROVE  SealState(q)'
  <2>1. CASE q = p
    BY <1>1, <1>2, <1>5, <2>1, StepSeal
  <2>2. CASE q # p
    BY <1>1, <1>2, <1>5, <2>2, StepFrame DEF SealState, JobHour
  <2> QED
    BY <2>1, <2>2
<1>6. CASE UNCHANGED vars
  BY <1>2, <1>6 DEF vars, SealState, JobHour
<1> QED
  BY <1>3, <1>4, <1>5, <1>6 DEF Next

\* The clock does not bring an hour back that is over.
LEMMA OverStays ==
    ASSUME IInv, [Next]_vars, NEW q \in Path, Over(q)
    PROVE  Over(q)'
<1>1. /\ now[1] \in Nat /\ now[2] \in Nat /\ now[3] \in Nat
      /\ q[1] \in Nat /\ q[2] \in Nat
  <2>1. now \in Candle
    BY DEF IInv, TypeOK
  <2> QED
    BY <2>1, InstantParts, Calendar DEF Path, Day, Hour
<1>2. CASE Tick
  BY <1>1, <1>2 DEF Tick, Over
<1>3. CASE ~Tick
  <2>1. now' = now
    BY <1>3 DEF Next, Crash, vars, Start, Step, RefreshNow, RefreshSkip, RefreshRead,
                RefreshFetch, RefreshWrite, RefreshAudit, LoadRead, LoadAudit, SealFetch,
                SealWrite, SealAudit, DayReread, CachedRead, Finish
  <2> QED
    BY <2>1 DEF Over
<1> QED
  BY <1>2, <1>3

\* No refresh of an hour begins when the hour is over.
LEMMA NoNewRefresh ==
    ASSUME IInv, [Next]_vars, NEW q \in Path, Over(q), NEW r \in Procs, ~RefreshOf(r, q)
    PROVE  ~RefreshOf(r, q)'
<1>1. /\ now[1] \in Nat /\ now[2] \in Nat
      /\ q[1] \in Nat /\ q[2] \in Nat /\ IsLoc(loc[r])
  <2>1. now \in Candle /\ IsLoc(loc[r])
    BY OfRequest
  <2> QED
    BY <2>1, InstantParts, Calendar DEF Path, Day, Hour
<1>2. CASE Tick \/ UNCHANGED vars
  BY <1>2 DEF Tick, vars, RefreshOf
<1>3. CASE Crash
  BY <1>3 DEF Crash, RefreshOf
<1>4. ASSUME NEW p \in Procs, Start(p) \/ Step(p), p # r
      PROVE  ~RefreshOf(r, q)'
  BY <1>4, StepFrame DEF RefreshOf
<1>5. CASE Start(r) \/ RefreshNow(r)
  <2>1. pc'[r] \in {"r_read", "load", "refresh"}
    BY <1>5 DEF Start, RefreshNow, Goto, IInv, TypeOK
  <2>2. pc'[r] = "r_read" => loc'[r].cap = now
    <3>1. CASE Start(r) /\ loc' = [loc EXCEPT ![r] = [NoLoc EXCEPT !.cap = now]]
      <4>1. loc'[r] = [NoLoc EXCEPT !.cap = now]
        BY <3>1 DEF IInv, TypeOK
      <4> QED
        BY <4>1 DEF NoLoc
    <3>2. CASE Start(r) /\ pc'[r] # "r_read"
      BY <3>2
    <3>3. CASE RefreshNow(r)
      <4>1. loc'[r] = [loc[r] EXCEPT !.cap = now]
        BY <3>3 DEF RefreshNow, IInv, TypeOK
      <4>2. loc[r] = [cap |-> loc[r].cap, path |-> loc[r].path, buf |-> loc[r].buf]
        BY <1>1 DEF IsLoc
      <4> QED
        BY <4>1, <4>2
    <3> QED
      BY <1>5, <3>1, <3>2, <3>3 DEF Start, Goto, IInv, TypeOK
  <2> QED
    BY <1>1, <2>1, <2>2 DEF RefreshOf, Over
<1>6. CASE RefreshRead(r)
  <2>1. pc[r] = "r_read" /\ loc'[r].cap = loc[r].cap
    BY <1>6 DEF RefreshRead, IInv, TypeOK
  <2> QED
    BY <2>1 DEF RefreshOf
<1>7. CASE RefreshFetch(r) /\ pc'[r] \in {"r_read", "r_fetch", "r_write"}
  <2>0. PICK b : loc' = [loc EXCEPT ![r].buf = b]
    BY <1>7 DEF RefreshFetch, AfterRefresh, Continue, End, Goto, IInv, TypeOK
  <2>1. pc[r] = "r_fetch" /\ loc'[r].cap = loc[r].cap
    <3> DEFINE k == [cap |-> loc[r].cap, path |-> loc[r].path, buf |-> b]
    <3>1. loc'[r] = k
      BY <2>0, LocFields, OfRequest DEF IInv, TypeOK
    <3> QED
      BY <1>7, <3>1 DEF RefreshFetch
  <2> QED
    BY <2>1 DEF RefreshOf
<1>8. CASE /\ Step(r) /\ ~RefreshNow(r) /\ ~RefreshRead(r) /\ ~RefreshFetch(r)
  <2>1. pc'[r] \notin {"r_read", "r_fetch", "r_write"}
    <3> USE DEF IInv, TypeOK, Goto, Continue, End, AfterRefresh, Deliver, EnterSeal
    <3>1. CASE RefreshSkip(r) \/ RefreshWrite(r) \/ RefreshAudit(r)
      BY <3>1 DEF RefreshSkip, RefreshWrite, RefreshAudit
    <3>2. CASE LoadRead(r) \/ LoadAudit(r) \/ SealFetch(r) \/ SealWrite(r) \/ SealAudit(r)
      BY <3>2 DEF LoadRead, LoadAudit, SealFetch, SealWrite, SealAudit
    <3>3. CASE DayReread(r) \/ CachedRead(r) \/ Finish(r)
      BY <3>3 DEF DayReread, CachedRead, Finish
    <3> QED
      BY <1>8, <3>1, <3>2, <3>3 DEF Step
  <2> QED
    BY <2>1 DEF RefreshOf
<1>9. CASE RefreshFetch(r) /\ pc'[r] \notin {"r_read", "r_fetch", "r_write"}
  BY <1>9 DEF RefreshOf
<1> QED
  BY <1>2, <1>3, <1>4, <1>5, <1>6, <1>7, <1>8, <1>9 DEF Next, Step

\* Only a refresh of its hour can make a whole file less than whole: a seal renames all of
\* its hour into place.
LEMMA SettledFile ==
    ASSUME SealInv, [Next]_vars, NEW q \in Path, Settled(q)
    PROVE  Whole(file'[q], q)
<1>0. IInv /\ Whole(file[q], q) /\ \A r \in Procs : ~RefreshOf(r, q)
  BY DEF SealInv, Settled
<1>1. ASSUME NEW p \in Procs, RefreshWrite(p)
      PROVE  file'[q] = file[q]
  <2>1. pc[p] = "r_write"
    BY <1>1 DEF RefreshWrite
  <2>2. loc[p].path # q
    BY <1>0, <2>1, OfRequest DEF RefreshState, RefreshOf
  <2> QED
    BY <1>0, <1>1, <2>2 DEF RefreshWrite, IInv, TypeOK
<1>2. ASSUME NEW p \in Procs, SealWrite(p)
      PROVE  Whole(file'[q], q)
  <2>1. /\ pc[p] = "s_write" /\ SealState(p)
        /\ job[p] \in Jobs /\ loc[p].path \in Path /\ loc[p].path[2] = job[p].hour
    BY <1>0, <1>2, OfRequest DEF SealWrite, SealInv, IsLoc, LoadState
  <2>2. JobHour(p) \in Path /\ JobHour(p)[2] = loc[p].path[2]
    BY <2>1, JobParts DEF JobHour
  <2>3. CASE q = loc[p].path /\ file' = [file EXCEPT ![loc[p].path] = Stored(loc[p].buf)]
    <3>1. Whole(Stored(loc[p].buf), q)
      BY <2>1, <2>2, <2>3, StoredWhole DEF SealState
    <3>2. file'[q] = Stored(loc[p].buf)
      BY <1>0, <2>3 DEF IInv, TypeOK
    <3> QED
      BY <3>1, <3>2
  <2>4. CASE q # loc[p].path \/ file' = file
    BY <1>0, <1>2, <2>4 DEF SealWrite, IInv, TypeOK
  <2> QED
    BY <1>2, <2>3, <2>4 DEF SealWrite
<1>3. ASSUME NEW p \in Procs, Start(p) \/ Step(p), ~RefreshWrite(p), ~SealWrite(p)
      PROVE  file' = file
  BY <1>3 DEF Start, Step, RefreshNow, RefreshSkip, RefreshRead, RefreshFetch, RefreshAudit,
              LoadRead, LoadAudit, SealFetch, SealAudit, DayReread, CachedRead, Finish
<1>4. CASE Tick \/ Crash \/ UNCHANGED vars
  BY <1>0, <1>4 DEF Tick, Crash, vars
<1> QED
  BY <1>0, <1>1, <1>2, <1>3, <1>4 DEF Next, Step

\* Of any number of requests: the hour file of a completed hour is whole for ever once the
\* refreshes that began in the hour have ended.
THEOREM SettledStays == Spec => SettledForEver
<1>1. Init => SealInv
  BY InitIInv DEF SealInv, SealState, Init, Loading
<1>2. SealInv /\ [Next]_vars => SealInv'
  BY NextSeal
<1>3. ASSUME SealInv, [Next]_vars
      PROVE  \A p \in Path : Settled(p) => Settled(p)'
  <2> SUFFICES ASSUME NEW q \in Path, Settled(q)
               PROVE  Settled(q)'
    OBVIOUS
  <2>1. IInv /\ Over(q) /\ \A r \in Procs : ~RefreshOf(r, q)
    BY <1>3 DEF SealInv, Settled
  <2>2. Whole(file'[q], q)
    BY <1>3, SettledFile
  <2>3. \A r \in Procs : ~RefreshOf(r, q)'
    BY <1>3, <2>1, NoNewRefresh
  <2> QED
    BY <1>3, <2>1, <2>2, <2>3, OverStays DEF Settled
<1> QED
  BY <1>1, <1>2, <1>3, PTL DEF Spec, SettledForEver
=============================================================================
