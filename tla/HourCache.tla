------------------------------ MODULE HourCache ------------------------------
(***************************************************************************)
(* The hourly kline cache of the current day (pkg/binance/live.go and      *)
(* kline_hourly.go).  Concurrent requests refresh the open hour, load or   *)
(* seal completed hours and assemble the day.  They share nothing but the  *)
(* files data/.../day=D/current/hour_HH.parquet and the wall clock.        *)
(*                                                                         *)
(* A candle is named by the instant it opens, <<day, hour, slot>>; the     *)
(* clock is the instant of the candle that is open now, so the granularity *)
(* of time is one frame.  A file stores only the time of day of a candle   *)
(* (KlineParquet.OpenTime): the day comes back from the date the reader    *)
(* supplies.  A row therefore remembers, as a ghost, the day it was really *)
(* fetched for, and whether the candle had closed when it was fetched.     *)
(***************************************************************************)
EXTENDS Naturals

CONSTANTS
    Procs,          \* the requests that may run at once
    LastDay,        \* the clock stops at the end of this day (a bound)
    HoursPerDay,    \* 24 in the code
    FramesPerHour,  \* candles per hour: time.Hour / asset.Frame
    Ops             \* the entry points the requests use

ASSUME CalendarAssumption ==
    /\ LastDay \in Nat
    /\ HoursPerDay \in Nat \ {0, 1}
    /\ FramesPerHour \in Nat \ {0}

ASSUME OpsAssumption == Ops \subseteq {"refresh", "load", "day", "cached"}

Day    == 0..LastDay
Hour   == 0..(HoursPerDay - 1)
Slot   == 0..(FramesPerHour - 1)
Candle == Day \X Hour \X Slot
Tod    == Hour \X Slot             \* what a parquet row stores of an open time
Path   == Day \X Hour              \* day=D/current/hour_HH.parquet

Row == [day : Day, final : BOOLEAN]

VARIABLES
    now,    \* the candle open on the exchange at this moment
    file,   \* file[path]: time of day -> row; a missing file has no rows
    pc,     \* where each request is
    job,    \* the request: its entry point, its midnight, its current hour, its loop hour
    loc,    \* the locals of RefreshLastHour or loadOrSealHour: the captured now, the
            \* computed path and the candles held (instant -> row)
    out     \* the candles assembled for the caller: instant -> row

vars == <<now, file, pc, job, loc, out>>

TodOf(c)  == <<c[2], c[3]>>
HourOf(c) == <<c[1], c[2]>>
NoRows    == [x \in {} |-> 0]

Before(a, b) ==
    \/ a[1] < b[1]
    \/ a[1] = b[1] /\ a[2] < b[2]
    \/ a[1] = b[1] /\ a[2] = b[2] /\ a[3] < b[3]

HourCandles(h) == {c \in Candle : HourOf(c) = h}
HourStart(h)   == <<h[1], h[2], 0>>

\* The window [hourStart, hourEnd] that SealHour asks for ends on the first candle
\* of the next hour.
NextHour(h) == IF h[2] + 1 < HoursPerDay THEN <<h[1], h[2] + 1>> ELSE <<h[1] + 1, 0>>

-----------------------------------------------------------------------------
(* Series: KlineSeries in memory, KlineParquet rows in a file.              *)

\* ToKline: the reader's date is put before the stored time of day.
Read(f, mid) ==
    [c \in {d \in Candle : d[1] = mid /\ TodOf(d) \in DOMAIN f} |-> f[TodOf(c)]]

\* Kline.Parquet: only the time of day is stored.
Stored(s) ==
    [t \in {TodOf(c) : c \in DOMAIN s} |->
        s[CHOOSE c \in DOMAIN s : TodOf(c) = t]]

\* KlineSeries.Merge: incoming overwrites the same open time.
Merge(old, new) ==
    [c \in DOMAIN old \cup DOMAIN new |-> IF c \in DOMAIN new THEN new[c] ELSE old[c]]

\* Mutant: the window's last instant, the next hour's first candle, is kept.
FilterKeepsAll(s, h) == [c \in DOMAIN s |-> s[c]]

\* KlineSeries.Filter on the hour's window.
Filter(s, h) == [c \in DOMAIN s \cap HourCandles(h) |-> s[c]]

LeadingGap(s, h) == DOMAIN s # {} /\ \A c \in DOMAIN s : Before(HourStart(h), c)

\* hourFetchStart .. now: from the last candle held, or from the start of the hour
\* when nothing is held or the first candles are missing.
AskedByRefresh(s, h, until) ==
    {c \in Candle :
        /\ ~Before(c, HourStart(h))
        /\ ~Before(until, c)
        /\ LeadingGap(s, h) \/ \A e \in DOMAIN s : ~Before(c, e)}

\* Mutant: the window ends with the hour's last candle, exclusive.
AskedBySealShort(h) == {c \in HourCandles(h) : c[3] + 1 < FramesPerHour}

AskedBySeal(h) ==
    HourCandles(h) \cup {c \in Candle : c = HourStart(NextHour(h))}

\* The exchange answers with the candles that have opened; the one open now may not
\* be published yet.
Answer(asked, lag) ==
    [c \in {d \in asked : Before(d, now) \/ (d = now /\ ~lag)} |->
        [day |-> c[1], final |-> Before(c, now)]]

\* AuditParquet on the window of hour h of a file.
SlotsHeld(f, h)  == {s \in Slot : <<h[2], s>> \in DOMAIN f}

\* Mutant: the audit of a completed hour is content with any candle.
WholeIfAny(f, h) == SlotsHeld(f, h) # {}

Whole(f, h) == SlotsHeld(f, h) = Slot

NoWrongStep(f, h) ==
    \A r, s, t \in Slot : (r < s /\ s < t /\ {r, t} \subseteq SlotsHeld(f, h))
                              => s \in SlotsHeld(f, h)

FileExists(p) == DOMAIN file[p] # {}

\* Mutant: the day is taken once, when the server starts.
HourlyPathOfFirstDay(hour) == <<0, hour>>

\* HourlyParquetPath: the directory is the one of the day it is NOW.
HourlyPath(hour) == <<now[1], hour>>

-----------------------------------------------------------------------------
NoJob == [op |-> "none", mid |-> 0, cur |-> 0, hour |-> 0]
NoLoc == [cap |-> <<0, 0, 0>>, path |-> <<0, 0>>, buf |-> NoRows]

Init ==
    /\ now = <<0, 0, 0>>
    /\ file = [p \in Path |-> NoRows]
    /\ pc = [p \in Procs |-> "idle"]
    /\ job = [p \in Procs |-> NoJob]
    /\ loc = [p \in Procs |-> NoLoc]
    /\ out = [p \in Procs |-> NoRows]

\* Time passes: one frame.
Tick ==
    /\ \/ /\ now[3] + 1 < FramesPerHour
          /\ now' = <<now[1], now[2], now[3] + 1>>
       \/ /\ now[3] + 1 = FramesPerHour
          /\ now[2] + 1 < HoursPerDay
          /\ now' = <<now[1], now[2] + 1, 0>>
       \/ /\ now[3] + 1 = FramesPerHour
          /\ now[2] + 1 = HoursPerDay
          /\ now[1] < LastDay
          /\ now' = <<now[1] + 1, 0, 0>>
    /\ UNCHANGED <<file, pc, job, loc, out>>

Goto(p, label) == pc' = [pc EXCEPT ![p] = label]

\* The call in progress returns inside its request: its locals are gone.
Continue(p, label) ==
    /\ Goto(p, label)
    /\ loc' = [loc EXCEPT ![p] = NoLoc]
    /\ UNCHANGED <<job, out>>

\* The request is over, with an error or with an answer the caller has taken.
End(p) ==
    /\ Goto(p, "idle")
    /\ job' = [job EXCEPT ![p] = NoJob]
    /\ loc' = [loc EXCEPT ![p] = NoLoc]
    /\ out' = [out EXCEPT ![p] = NoRows]

\* Mutant: the loop bound counts the current hour as completed.
RequestOneTooMany(op, hour) == [op |-> op, mid |-> now[1], cur |-> now[2] + 1, hour |-> hour]

Request(op, hour) == [op |-> op, mid |-> now[1], cur |-> now[2], hour |-> hour]

\* A request arrives: RefreshLastHour (it captures now), LoadOrSealHour for a
\* completed hour, FetchAndCacheCurrentDay or ReadCachedCurrentDay.
Start(p) ==
    /\ pc[p] = "idle"
    /\ \/ /\ "refresh" \in Ops
          /\ job' = [job EXCEPT ![p] = Request("refresh", now[2])]
          /\ loc' = [loc EXCEPT ![p] = [NoLoc EXCEPT !.cap = now]]
          /\ Goto(p, "r_read")
       \/ /\ "load" \in Ops
          /\ \E h \in Hour : /\ h < now[2]
                             /\ job' = [job EXCEPT ![p] = Request("load", h)]
          /\ Goto(p, "load")
          /\ UNCHANGED loc
       \/ /\ "day" \in Ops
          /\ job' = [job EXCEPT ![p] = Request("day", 0)]
          /\ Goto(p, IF now[2] = 0 THEN "refresh" ELSE "load")
          /\ UNCHANGED loc
       \/ /\ "cached" \in Ops
          /\ job' = [job EXCEPT ![p] = Request("cached", 0)]
          /\ Goto(p, "refresh")
          /\ UNCHANGED loc
    /\ UNCHANGED <<now, file, out>>

\* The caller takes the answer.
Finish(p) ==
    /\ pc[p] = "ok"
    /\ End(p)
    /\ UNCHANGED <<now, file>>

-----------------------------------------------------------------------------
(* RefreshLastHour                                                          *)

CapHour(p) == HourOf(loc[p].cap)

\* What follows a refresh in each caller; ReadCachedCurrentDay ignores its error.
AfterRefresh(p, ok) ==
    \/ job[p].op = "refresh" /\ End(p)
    \/ job[p].op = "cached" /\ Continue(p, "cached")
    \/ job[p].op = "day" /\ ok /\ Continue(p, "reread")
    \/ job[p].op = "day" /\ ~ok /\ End(p)

\* now := time.Now()
RefreshNow(p) ==
    /\ pc[p] = "refresh"
    /\ loc' = [loc EXCEPT ![p].cap = now]
    /\ Goto(p, "r_read")
    /\ UNCHANGED <<now, file, job, out>>

\* ReadCachedCurrentDay only refreshes while its asset IsToday.
RefreshSkip(p) ==
    /\ pc[p] = "refresh"
    /\ job[p].op = "cached"
    /\ job[p].mid # now[1]
    /\ Continue(p, "cached")
    /\ UNCHANGED <<now, file>>

\* The path (a second time.Now()) and the candles already there; the error of a read that
\* fails is dropped, and the refresh goes on as if there were none.
RefreshRead(p) ==
    LET here == HourlyPath(loc[p].cap[2])
    IN  /\ pc[p] = "r_read"
        /\ \E held \in {Read(file[here], loc[p].cap[1]), NoRows} :
                loc' = [loc EXCEPT ![p] = [cap |-> @.cap, path |-> here, buf |-> held]]
        /\ Goto(p, "r_fetch")
        /\ UNCHANGED <<now, file, job, out>>

\* Fetch from the last candle held up to the captured now, merge, keep the hour;
\* with no candles at all there is nothing to write.
RefreshFetch(p) ==
    /\ pc[p] = "r_fetch"
    /\ \/ \E lag \in BOOLEAN :
            LET asked  == AskedByRefresh(loc[p].buf, CapHour(p), loc[p].cap)
                merged == Filter(Merge(loc[p].buf, Answer(asked, lag)), CapHour(p))
            IN  \/ /\ DOMAIN merged # {}
                   /\ loc' = [loc EXCEPT ![p].buf = merged]
                   /\ Goto(p, "r_write")
                   /\ UNCHANGED <<job, out>>
                \/ /\ DOMAIN merged = {}
                   /\ AfterRefresh(p, TRUE)
       \/ AfterRefresh(p, FALSE)
    /\ UNCHANGED <<now, file>>

\* writeHourlyParquet: temp file, then an atomic rename over the path; or a failure
\* that leaves the path alone.
RefreshWrite(p) ==
    /\ pc[p] = "r_write"
    /\ \/ /\ file' = [file EXCEPT ![loc[p].path] = Stored(loc[p].buf)]
          /\ Goto(p, "r_audit")
          /\ UNCHANGED <<job, loc, out>>
       \/ /\ AfterRefresh(p, FALSE)
          /\ UNCHANGED file
    /\ UNCHANGED now

\* hourParquetIntegrityOK(checkMissing = false) on whatever the path holds by then; an audit
\* that fails to run is a failed audit.
RefreshAudit(p) ==
    /\ pc[p] = "r_audit"
    /\ \E ok \in {NoWrongStep(file[loc[p].path], CapHour(p)), FALSE} : AfterRefresh(p, ok)
    /\ UNCHANGED <<now, file>>

-----------------------------------------------------------------------------
(* loadOrSealHour and SealHour                                              *)

JobHour(p) == <<job[p].mid, job[p].hour>>

\* Mutant: the loop over the hours does not move on.
DeliverSameHour(p, candles) ==
    /\ out' = [out EXCEPT ![p] = Merge(@, candles)]
    /\ loc' = [loc EXCEPT ![p] = NoLoc]
    /\ UNCHANGED job
    /\ Goto(p, IF job[p].op = "load" THEN "ok" ELSE "load")

\* A loaded hour is handed to the caller; FetchAndCacheCurrentDay goes on to the
\* next hour, and to RefreshLastHour for its current hour.
Deliver(p, candles) ==
    /\ out' = [out EXCEPT ![p] = Merge(@, candles)]
    /\ loc' = [loc EXCEPT ![p] = NoLoc]
    /\ \/ /\ job[p].op = "load"
          /\ Goto(p, "ok")
          /\ UNCHANGED job
       \/ /\ job[p].op = "day"
          /\ job' = [job EXCEPT ![p].hour = @ + 1]
          /\ Goto(p, IF job[p].hour + 1 = job[p].cur THEN "refresh" ELSE "load")

\* SealHour computes its path before it fetches.
EnterSeal(p) ==
    /\ loc' = [loc EXCEPT ![p] = [NoLoc EXCEPT !.path = HourlyPath(job[p].hour)]]
    /\ Goto(p, "s_fetch")
    /\ UNCHANGED <<job, out>>

\* Read the cached hour, if there is one; no file or a leading gap goes to SealHour, a read
\* that fails still has the file audited.
LoadRead(p) ==
    LET here   == HourlyPath(job[p].hour)
        held   == Read(file[here], job[p].mid)
        usable == FileExists(here) /\ ~LeadingGap(held, JobHour(p))
    IN  /\ pc[p] = "load"
        /\ \/ /\ usable
              /\ loc' = [loc EXCEPT ![p] = [cap |-> @.cap, path |-> here, buf |-> held]]
              /\ Goto(p, "l_audit")
              /\ UNCHANGED <<job, out>>
           \/ /\ FileExists(here)
              /\ loc' = [loc EXCEPT ![p] = [cap |-> @.cap, path |-> here, buf |-> NoRows]]
              /\ Goto(p, "l_unread")
              /\ UNCHANGED <<job, out>>
           \/ ~usable /\ EnterSeal(p)
        /\ UNCHANGED <<now, file>>

\* Audit the file and return the candles (or the error) of the read BEFORE the audit; seal
\* when the audit finds a candle missing or fails to run.
LoadAudit(p) ==
    /\ pc[p] \in {"l_audit", "l_unread"}
    /\ \/ /\ Whole(file[loc[p].path], JobHour(p))
          /\ \/ pc[p] = "l_audit" /\ Deliver(p, loc[p].buf)
             \/ pc[p] = "l_unread" /\ End(p)
       \/ EnterSeal(p)
    /\ UNCHANGED <<now, file>>

\* SealHour fetches the whole hour; nothing fetched means nothing written.
SealFetch(p) ==
    /\ pc[p] = "s_fetch"
    /\ \/ \E lag \in BOOLEAN :
            LET sealed == Filter(Answer(AskedBySeal(JobHour(p)), lag), JobHour(p))
            IN  /\ loc' = [loc EXCEPT ![p].buf = sealed]
                /\ Goto(p, IF DOMAIN sealed = {} THEN "s_audit" ELSE "s_write")
                /\ UNCHANGED <<job, out>>
       \/ End(p)
    /\ UNCHANGED <<now, file>>

SealWrite(p) ==
    /\ pc[p] = "s_write"
    /\ \/ /\ file' = [file EXCEPT ![loc[p].path] = Stored(loc[p].buf)]
          /\ Goto(p, "s_audit")
          /\ UNCHANGED <<job, loc, out>>
       \/ /\ End(p)
          /\ UNCHANGED file
    /\ UNCHANGED now

\* Audit what the path holds now, return what was fetched; or the audit finds a candle
\* missing, or fails to run.
SealAudit(p) ==
    /\ pc[p] = "s_audit"
    /\ \/ Whole(file[loc[p].path], JobHour(p)) /\ Deliver(p, loc[p].buf)
       \/ End(p)
    /\ UNCHANGED <<now, file>>

-----------------------------------------------------------------------------
(* FetchAndCacheCurrentDay and ReadCachedCurrentDay                         *)

\* After its refresh, FetchAndCacheCurrentDay reads the file of the hour that was
\* current when it started; a missing or unreadable file is an error.
DayReread(p) ==
    LET here == HourlyPath(job[p].hour)
    IN  /\ pc[p] = "reread"
        /\ \/ /\ FileExists(here)
              /\ out' = [out EXCEPT ![p] = Merge(@, Read(file[here], job[p].mid))]
              /\ Goto(p, "ok")
              /\ UNCHANGED <<job, loc>>
           \/ End(p)
        /\ UNCHANGED <<now, file>>

\* ReadCachedCurrentDay reads one hour file after the other, skipping missing ones; an
\* unreadable one is an error.
CachedRead(p) ==
    LET here == HourlyPath(job[p].hour)
    IN  /\ pc[p] = "cached"
        /\ \/ /\ out' = [out EXCEPT ![p] = Merge(@, Read(file[here], job[p].mid))]
              /\ \/ /\ job[p].hour < job[p].cur
                    /\ job' = [job EXCEPT ![p].hour = @ + 1]
                    /\ UNCHANGED pc
                 \/ /\ job[p].hour = job[p].cur
                    /\ Goto(p, "ok")
                    /\ UNCHANGED job
              /\ UNCHANGED loc
           \/ FileExists(here) /\ End(p)
        /\ UNCHANGED <<now, file>>

\* The server stops: every request is gone, the files stay.
Crash ==
    /\ \E p \in Procs : pc[p] # "idle"
    /\ pc' = [p \in Procs |-> "idle"]
    /\ job' = [p \in Procs |-> NoJob]
    /\ loc' = [p \in Procs |-> NoLoc]
    /\ out' = [p \in Procs |-> NoRows]
    /\ UNCHANGED <<now, file>>

Step(p) ==
    \/ RefreshNow(p) \/ RefreshSkip(p) \/ RefreshRead(p) \/ RefreshFetch(p)
    \/ RefreshWrite(p) \/ RefreshAudit(p)
    \/ LoadRead(p) \/ LoadAudit(p)
    \/ SealFetch(p) \/ SealWrite(p) \/ SealAudit(p)
    \/ DayReread(p) \/ CachedRead(p)
    \/ Finish(p)

Next ==
    \/ Tick
    \/ Crash
    \/ \E p \in Procs : Start(p) \/ Step(p)

Spec == Init /\ [][Next]_vars

\* A request that has started is carried on by the scheduler; nothing is assumed of
\* new requests, of the clock, or of the server staying up.
FairSpec == Spec /\ \A p \in Procs : WF_vars(Step(p))

-----------------------------------------------------------------------------
(* Properties                                                               *)

IsSeries(s, keys) == DOMAIN s \subseteq keys /\ s \in [DOMAIN s -> Row]

Labels == {"idle", "refresh", "r_read", "r_fetch", "r_write", "r_audit", "reread", "cached",
           "load", "l_audit", "l_unread", "s_fetch", "s_write", "s_audit", "ok"}

IsLoc(k) ==
    /\ k = [cap |-> k.cap, path |-> k.path, buf |-> k.buf]
    /\ k.cap \in Candle
    /\ k.path \in Path
    /\ IsSeries(k.buf, Candle)

Jobs == [op : Ops \cup {"none"}, mid : Day, cur : Hour, hour : Hour]

TypeOK ==
    /\ now \in Candle
    /\ DOMAIN file = Path
    /\ \A p \in Path : IsSeries(file[p], Tod)
    /\ pc \in [Procs -> Labels]
    /\ job \in [Procs -> Jobs]
    /\ loc = [p \in Procs |-> loc[p]]
    /\ out = [p \in Procs |-> out[p]]
    /\ \A p \in Procs : IsLoc(loc[p]) /\ IsSeries(out[p], Candle)

\* An hour file only ever holds candles of its own hour, also when a request that
\* started before midnight writes after it, and although SealHour's request window
\* includes the first candle of the next hour.
HourRowsOnly ==
    \A p \in Path : \A t \in DOMAIN file[p] : t[1] = p[2]

\* An hour file never has a hole before a candle it holds: whatever the interleaving
\* of refreshes and seals, hourFetchStart resumes where the file that was read ends.
NoHourGap ==
    \A p \in Path : \A t \in DOMAIN file[p] : \A s \in Slot :
        s < t[2] => <<t[1], s>> \in DOMAIN file[p]

\* No row of a file was fetched for a later day than the file's directory.
NoRowFromLaterDay ==
    \A p \in Path : \A t \in DOMAIN file[p] : file[p][t].day <= p[1]

\* The files implement the abstract store: each step replaces one file, at once, by
\* a gap-free series of its hour.
Store == INSTANCE HourStore WITH
    LastDay <- LastDay, HoursPerDay <- HoursPerDay, FramesPerHour <- FramesPerHour,
    file <- file
StoreSpec == Store!Spec

\* Every request ends: the loops over hours terminate and no step waits for ever.
RequestEnds == \A p \in Procs : (pc[p] # "idle") ~> (pc[p] = "idle")

\* The hour of a path is over, no refresh that looked at the clock in that hour is still to
\* rename its file, and the file has every candle.
Over(p) == p[1] < now[1] \/ (p[1] = now[1] /\ p[2] < now[2])

RefreshOf(r, p) ==
    /\ pc[r] \in {"r_read", "r_fetch", "r_write"}
    /\ loc[r].cap[1] <= p[1]
    /\ loc[r].cap[2] = p[2]

Settled(p) == Over(p) /\ Whole(file[p], p) /\ \A r \in Procs : ~RefreshOf(r, p)

\* The hour file of a completed hour is whole for ever once the refreshes that began in the
\* hour have ended: no later load, seal, refresh, failed read or audit, or crash of any
\* number of requests takes a candle out of it.
SettledForEver == [][\A p \in Path : Settled(p) => Settled(p)']_vars

\* A file that holds its whole hour is never replaced by one that does not (the
\* unique temp file and the rename keep "concurrent requests from interfering").
WholeStaysWhole ==
    [][\A p \in Path : Whole(file[p], p) => Whole(file[p]', p)]_vars

\* An hour handed out as loaded or sealed has all its candles ("returns cached hour
\* data if integrity passes"), and so have the completed hours of an assembled day.
HoursOwed(p) ==
    CASE job[p].op = "load" -> {job[p].hour}
      [] job[p].op = "day"  -> 0..(job[p].cur - 1)
      [] OTHER              -> {}

AnswerIsWhole ==
    \A p \in Procs : pc[p] = "ok" =>
        \A h \in HoursOwed(p) : HourCandles(<<job[p].mid, h>>) \subseteq DOMAIN out[p]

\* The directory of a day holds candles of that day.
CacheHoldsItsDay ==
    \A p \in Path : \A t \in DOMAIN file[p] : file[p][t].day = p[1]
=============================================================================
