----------------------------- MODULE CandleQuery -----------------------------
(***************************************************************************)
(* A klines request end to end (internal/market/api.go, pkg/gapfill,       *)
(* pkg/integrity, internal/store/duckdb.go): load the partitions of the    *)
(* range, audit them, repair the days with issues in parallel, audit       *)
(* again, read the answer.                                                 *)
(*                                                                         *)
(* The two caches appear through what their own modules establish: an hour *)
(* file holds a first part of its hour (HourCache, NoHourGap), and an      *)
(* import that reports success has written the day (DayImport,             *)
(* OkImportWroteAll).  Here a fetch of the current day and an import are   *)
(* one step each, with all their outcomes.  Other requests, and the half   *)
(* done work of these, change one file at a time, at any moment and for    *)
(* the worse too: imports that overlap remove the day's file, refreshes    *)
(* that overlap put a shorter hour in the place of a longer one.           *)
(*                                                                         *)
(* An audit is one step, although the code reads the files one after the   *)
(* other: what a file loses after the targets are built is on record in    *)
(* lost, whether the audit would still have seen it or not.                *)
(*                                                                         *)
(* Instants are milliseconds since the midnight of day 0.  A candle is     *)
(* named by its open time, a multiple of Frame; the bounds of a query need *)
(* not be multiples of it.                                                 *)
(***************************************************************************)
EXTENDS Integers, FiniteSets

CONSTANTS
    Queries,        \* requests
    Ranges,         \* the <<from, to>> they ask for
    Archives,       \* what the exchange's archive may hold: sets of candles
    FirstDay,       \* the day on which the server starts
    LastDay,        \* the clock stops at its end, and no range goes beyond (a bound)
    HoursPerDay,    \* 24 in the code
    FramesPerHour,  \* candles per hour
    Frame,          \* milliseconds per candle
    LiveTail,       \* effectiveQueryEnd's five minutes, in milliseconds
    Parallel,       \* maxParallelDays: the semaphore all requests share
    Failures,       \* whether the exchange, its archive and the disk may fail
    MaxOthers       \* how often other requests change a file (a bound)

ASSUME SizeAssumption ==
    /\ LastDay \in Nat
    /\ FirstDay \in 0..LastDay
    /\ {HoursPerDay, FramesPerHour, Frame, Parallel} \subseteq Nat \ {0}
    /\ {LiveTail, MaxOthers} \subseteq Nat
    /\ Failures \in BOOLEAN

HourMs == FramesPerHour * Frame
DayMs  == HoursPerDay * HourMs

Day      == 0..LastDay
Hour     == 0..(HoursPerDay - 1)
WholeDay == -1                     \* HourlyTarget.Hour of a daily file

Midnight(d)     == d * DayMs
HourStart(d, h) == Midnight(d) + h * HourMs

\* Bounds are instants, in either order.
ASSUME RangeAssumption ==
    /\ Ranges \subseteq Nat \X Nat
    /\ \A r \in Ranges : r[2] < Midnight(LastDay + 1)

DayOf(t)        == t \div DayMs
HourIn(t)       == (t % DayMs) \div HourMs
Aligned(t)      == (t \div Frame) * Frame

Least(a, b)    == IF a < b THEN a ELSE b
Greatest(a, b) == IF a < b THEN b ELSE a
MaxOf(S)       == CHOOSE x \in S : \A y \in S : y <= x
MinOf(S)       == CHOOSE x \in S : \A y \in S : x <= y

\* The candles that open in [from, to).
Opens(from, to) ==
    {t \in from..(to - 1) : t % Frame = 0}

VARIABLES
    now,        \* the open time of the current candle
    archive,    \* the candles the archive has
    dayFile,    \* day=D/data.parquet: missing, unreadable, or its candles
    hourFile,   \* day=D/current/hour_HH.parquet: how many of its first candles it holds
    query,      \* each request
    holders,    \* who holds the semaphore: <<request, day>>
    others,     \* how often other requests have changed a file
    lost        \* for each request, what files lost from the targets to the answer

vars == <<now, archive, dayFile, hourFile, query, holders, others, lost>>

Today == DayOf(now)

Missing    == [state |-> "missing", rows |-> {}]
Unreadable == [state |-> "unreadable", rows |-> {}]
Holding(s) == [state |-> "readable", rows |-> s]

\* The rows of day f's file of hour h, read as rows of day d: a row keeps its time of
\* day, and the reader says which day it is of.
RowsAsOf(d, f, h) == {HourStart(d, h) + i * Frame : i \in 0..(hourFile[f][h] - 1)}

HourRows(d, h) == RowsAsOf(d, d, h)

NoQuery == [pc |-> "idle", from |-> 0, to |-> 0, days |-> {}, built |-> 0,
            own |-> {}, failed |-> FALSE, gone |-> FALSE, out |-> {}, read |-> 0]

Init ==
    /\ now = Midnight(FirstDay)
    /\ archive \in Archives
    /\ dayFile = [d \in Day |-> Missing]
    /\ hourFile = [d \in Day |-> [h \in Hour |-> 0]]
    /\ query = [q \in Queries |-> NoQuery]
    /\ holders = {}
    /\ others = 0
    /\ lost = [q \in Queries |-> {}]

Tick ==
    /\ now + Frame < Midnight(LastDay + 1)
    /\ now' = now + Frame
    /\ UNCHANGED <<archive, dayFile, hourFile, query, holders, others, lost>>

-----------------------------------------------------------------------------
(* What a fetch of the current day and an import of a past day do to files. *)

\* Completed hours before k are sealed; the rest is as it was.
Sealed(k) == [h \in Hour |-> IF h < k THEN FramesPerHour ELSE hourFile[Today][h]]

\* RefreshLastHour puts into the open hour what the exchange has published of it so
\* far, with the candles of its file if those could be read.
Refreshed(hours) ==
    {[hours EXCEPT ![HourIn(now)] = n] :
        n \in {hours[HourIn(now)]} \cup 1..((now % HourMs) \div Frame + 1)}

\* All hours of today in order; a failure leaves the hours after it alone.
FetchToday(ok) ==
    \E hours \in Refreshed(Sealed(HourIn(now)))
                    \cup IF ok THEN {} ELSE {Sealed(k) : k \in 0..HourIn(now)} :
        /\ hourFile' = [hourFile EXCEPT ![Today] = hours]
        /\ UNCHANGED dayFile

ArchiveOf(d) == archive \cap Opens(Midnight(d), Midnight(d + 1))

\* What an import may leave behind: the day's candles, and when it fails part of them
\* or a file that is not finished.
Written(d, ok) ==
    {Holding(ArchiveOf(d))} \cup
    IF ok THEN {} ELSE {Unreadable} \cup {Holding(ArchiveOf(d) \ {c}) : c \in ArchiveOf(d)}

\* DownloadAndTransform of a past day: an existing file is taken as it is.  (When the
\* file only appears after that was looked up, WriteParquet removes it: OtherRequest
\* first, then this.)
ImportDay(d, ok) ==
    /\ \/ UNCHANGED dayFile /\ (ok => dayFile[d] # Missing)
       \/ /\ dayFile[d] = Missing
          /\ \E f \in Written(d, ok) : dayFile' = [dayFile EXCEPT ![d] = f]
    /\ UNCHANGED hourFile

May(ok) == ok \/ Failures

\* What a step takes out of files is on record while a request that has its targets has
\* no answer yet.
Taken ==
    (UNION {dayFile[d].rows \ dayFile'[d].rows : d \in Day})
    \cup (UNION {HourRows(d, h) \ HourRows(d, h)' : d \in Day, h \in Hour})

NoteLosses ==
    lost' = [q \in Queries |->
                IF query[q].pc \in {"audit", "repair", "reaudit", "read"}
                THEN lost[q] \cup Taken ELSE lost[q]]

\* Another request changes a file.  The file of a past day is removed by WriteParquet,
\* which then writes it again, whole or not; that of an hour is replaced by another first
\* part of what has been published, be it by a refresh that read it before the last one.
OtherRequest ==
    /\ others < MaxOthers
    /\ others' = others + 1
    /\ \/ \E d \in Day : \E f \in {Missing} \cup Written(d, FALSE) :
            /\ d < Today
            /\ dayFile' = [dayFile EXCEPT ![d] = f]
            /\ UNCHANGED hourFile
       \/ \E d \in Day, h \in Hour, n \in 1..FramesPerHour :
            /\ HourStart(d, h) + (n - 1) * Frame <= now
            /\ hourFile' = [hourFile EXCEPT ![d][h] = n]
            /\ UNCHANGED dayFile
    /\ NoteLosses
    /\ UNCHANGED <<now, archive, query, holders>>

-----------------------------------------------------------------------------
(* The audit (integrity.AuditHourlyTargets) and what it selects.            *)

\* file: the day in whose directory the path is.
Target(d, h, file, from, to, check) ==
    [day |-> d, hour |-> h, file |-> file, from |-> from, to |-> to, check |-> check]

\* BuildAuditTargetsForRange at instant t: daily files before that day; from it on, later
\* days too (data.IsToday), the hours up to the hour it is, in the files of that day.  An
\* hour cut by the end of the range, or the one it is, may lack candles.
HoursAsked(d, from, to, t) ==
    {h \in Hour :
        /\ h <= HourIn(t)
        /\ DayOf(from) = d => HourIn(from) <= h
        /\ DayOf(to) = d => h <= HourIn(to)}

HourTarget(d, h, from, to, t) ==
    LET end == HourStart(d, h) + HourMs
    IN  Target(d, h, DayOf(t), Greatest(from, HourStart(d, h)), Least(to, end),
               h < HourIn(t) /\ end <= to)

DayTarget(d, from, to) ==
    Target(d, WholeDay, d, Greatest(from, Midnight(d)), Least(to, Midnight(d + 1)), TRUE)

DaysAsked(from, to) == {d \in Day : DayOf(from) <= d /\ d <= DayOf(to)}

Targets(from, to, t) ==
    {DayTarget(d, from, to) : d \in {e \in DaysAsked(from, to) : e < DayOf(t)}}
    \cup
    UNION {{HourTarget(d, h, from, to, t) : h \in HoursAsked(d, from, to, t)} :
             d \in {e \in DaysAsked(from, to) : DayOf(t) <= e}}

Rows(u) ==
    IF u.hour = WholeDay THEN dayFile[u.day].rows ELSE RowsAsOf(u.day, u.file, u.hour)

RowsIn(u) == {c \in Rows(u) : u.from <= c /\ c < u.to}

\* maxOpenMS queries every file after its audit: one that is missing or unreadable
\* ends the whole audit with an error.
NoSuchFile(u) ==
    IF u.hour = WholeDay THEN dayFile[u.day] = Missing ELSE hourFile[u.file][u.hour] = 0

Stops(u) ==
    NoSuchFile(u) \/ (u.hour = WholeDay /\ dayFile[u.day] = Unreadable)

\* Mutant: the last candle of the window is not expected.
ExpectedOneLess(from, to) == IF to > from THEN (to - from - 1) \div Frame ELSE 0

Expected(from, to) == IF to > from THEN (to - Aligned(from)) \div Frame ELSE 0

Issue(code, open) == [code |-> code, open |-> open]

\* Only issues of error severity are kept: nothing looks at the others.
CountIssues(u) ==
    IF u.check /\ Cardinality(RowsIn(u)) # Expected(u.from, u.to)
    THEN {Issue("count_mismatch", u.hour)} ELSE {}

WrongSteps(u) ==
    {Issue("wrong_step", c) : c \in {e \in RowsIn(u) :
        /\ \E b \in RowsIn(u) : b < e
        /\ MaxOf({b \in RowsIn(u) : b < e}) + Frame # e}}

MissingIntervals(u) ==
    IF u.check
    THEN {Issue("missing_interval", c) : c \in {e \in Opens(Aligned(u.from), u.to) :
            e + Frame <= u.to /\ e \notin Rows(u)}}
    ELSE {}

\* The last candle of a checked target against the first of the next one.
BoundaryGaps(us) ==
    {Issue("hour_boundary_gap", MinOf(RowsIn(u))) : u \in {v \in us :
        /\ v.check /\ RowsIn(v) # {}
        /\ \E p \in us :
            /\ p.check /\ p.from < v.from /\ RowsIn(p) # {}
            /\ \A w \in us : ~(p.from < w.from /\ w.from < v.from)
            /\ MinOf(RowsIn(v)) \notin {MaxOf(RowsIn(p)), MaxOf(RowsIn(p)) + Frame}}}

Audit(us) ==
    (UNION {CountIssues(u) \cup WrongSteps(u) \cup MissingIntervals(u) : u \in us})
    \cup BoundaryGaps(us)

Affects(i, u) ==
    \/ i.code = "count_mismatch" /\ i.open = u.hour
    \/ i.code \in {"missing_interval", "wrong_step"} /\ u.from <= i.open /\ i.open < u.to

Affected(u, is) == \E i \in is : Affects(i, u)

\* A boundary gap selects every target; otherwise one target per hour number, and
\* all daily files share one.
TargetsForIssues(us, is) ==
    IF \E i \in is : i.code = "hour_boundary_gap" THEN us
    ELSE {u \in us :
            /\ Affected(u, is)
            /\ \A v \in us : v.hour = u.hour /\ v.from < u.from => ~Affected(v, is)}

\* Mutant: a missing candle does not keep the answer back.
BlocksWithoutMissing(i) == i.code \in {"wrong_step", "hour_boundary_gap"}

BlocksRead(i) == i.code \in {"missing_interval", "wrong_step", "hour_boundary_gap"}

AffectsRange(i, from, to) == from <= i.open /\ i.open < to

-----------------------------------------------------------------------------
(* API.Candles                                                              *)

\* The days ensureBulkForRange steps through: from, from + 24h, ... up to to.
BulkDays(from, to) ==
    {d \in Day : \E t \in from..to : DayOf(t) = d /\ (t - from) % DayMs = 0}

Arrive(q) ==
    /\ query[q].pc = "idle"
    /\ \E r \in Ranges :
        /\ r[1] <= now
        /\ query' = [query EXCEPT ![q] = [NoQuery EXCEPT
                        !.pc = "load", !.from = r[1], !.to = r[2],
                        !.days = BulkDays(r[1], r[2])]]
    /\ UNCHANGED <<now, archive, dayFile, hourFile, holders, others, lost>>

\* The client disconnects: the request's context is cancelled.
Disconnect(q) ==
    /\ query[q].pc \notin {"idle", "over"}
    /\ ~query[q].gone
    /\ query' = [query EXCEPT ![q].gone = TRUE]
    /\ UNCHANGED <<now, archive, dayFile, hourFile, holders, others, lost>>

\* One day's import ends; the first error cancels the other days and is only logged.
\* A later day than today counts as today.  FetchAndCacheCurrentDay also fails when its
\* current hour has no file.
LoadDay(q) ==
    /\ query[q].pc = "load"
    /\ \E d \in query[q].days, ok \in BOOLEAN :
        /\ May(ok)
        /\ \/ d >= Today /\ FetchToday(ok) /\ (ok => hourFile'[Today][HourIn(now)] > 0)
           \/ d < Today /\ ImportDay(d, ok)
        /\ query' = [query EXCEPT ![q].days = IF ok THEN @ \ {d} ELSE {}]
    /\ NoteLosses
    /\ UNCHANGED <<now, archive, holders, others>>

LoadCancelled(q) ==
    /\ query[q].pc = "load"
    /\ query[q].gone
    /\ query[q].days # {}
    /\ query' = [query EXCEPT ![q].days = {}]
    /\ UNCHANGED <<now, archive, dayFile, hourFile, holders, others, lost>>

\* BuildAuditTargets: the targets are fixed by the clock now, until the request ends.
BuildTargets(q) ==
    /\ query[q].pc = "load"
    /\ query[q].days = {}
    /\ query' = [query EXCEPT ![q].built = now, ![q].pc = "audit"]
    /\ UNCHANGED <<now, archive, dayFile, hourFile, holders, others, lost>>

TargetsOf(q) == Targets(query[q].from, query[q].to, query[q].built)

\* The request ends: with an error, or with its answer sent.
Fail(q)    == query' = [query EXCEPT ![q] = [NoQuery EXCEPT !.pc = "over"]]
Goto(q, s) == query' = [query EXCEPT ![q].pc = s]

\* The days to repair, and those whose own targets have issues.
StartRepair(q, us, is) ==
    query' = [query EXCEPT
        ![q].pc = "repair",
        ![q].days = {u.day : u \in TargetsForIssues(us, is)},
        ![q].own = {u.day : u \in {v \in TargetsForIssues(us, is) : Affected(v, is)}}]

\* EnsureForQuery up to the repair.  DuckDB may fail, as it does when the client is gone.
FirstAudit(q) ==
    LET us == TargetsOf(q)
        is == Audit(us)
    IN  /\ query[q].pc = "audit"
        /\ \/ us # {} /\ (query[q].gone \/ Failures) /\ Fail(q)
           \/ ~query[q].gone /\ (\E u \in us : Stops(u)) /\ Goto(q, "stopped")
           \/ ~query[q].gone /\ (\A u \in us : ~Stops(u)) /\ is # {} /\ StartRepair(q, us, is)
           \/ (us = {} \/ ~query[q].gone) /\ (\A u \in us : ~Stops(u)) /\ is = {} /\ Goto(q, "read")
        /\ UNCHANGED <<now, archive, dayFile, hourFile, holders, others, lost>>

Working(q) == {d \in Day : <<q, d>> \in holders}

\* Mutant: the semaphore does not hold anyone back.
AcquireAnyway(q, d) ==
    /\ query[q].pc = "repair"
    /\ d \in query[q].days \ Working(q)
    /\ holders' = holders \cup {<<q, d>>}
    /\ UNCHANGED <<now, archive, dayFile, hourFile, query, others, lost>>

\* A day's goroutine takes a place in the semaphore ...
Acquire(q, d) ==
    /\ query[q].pc = "repair"
    /\ d \in query[q].days \ Working(q)
    /\ Cardinality(holders) < Parallel
    /\ holders' = holders \cup {<<q, d>>}
    /\ UNCHANGED <<now, archive, dayFile, hourFile, query, others, lost>>

\* ... or leaves, once another day has failed or the client has gone; its error is
\* not kept.
Skip(q, d) ==
    /\ query[q].pc = "repair"
    /\ d \in query[q].days \ Working(q)
    /\ query[q].failed \/ query[q].gone
    /\ query' = [query EXCEPT ![q].days = @ \ {d}]
    /\ UNCHANGED <<now, archive, dayFile, hourFile, holders, others, lost>>

\* Mutant: the place is not given back.
ReleaseNever(q, d, ok) == holders' = holders

Release(q, d, ok) == holders' = holders \ {<<q, d>>}

\* The hour plan of a later day seals every hour up to the current one: it finds them
\* whole in the files of today, or gets no candles for them and fails.
LaterDay(ok) ==
    /\ ok => \A h \in Hour : h <= HourIn(now) => hourFile[Today][h] = FramesPerHour
    /\ UNCHANGED <<dayFile, hourFile>>

\* repairDay: the hour plan from the day on that is today now, otherwise RepairKlineGaps,
\* which returns at once when no issue is the day's own.
RepairDay(q, d) ==
    /\ <<q, d>> \in holders
    /\ d \in query[q].days
    /\ \E ok \in BOOLEAN :
        /\ \/ d = Today /\ May(ok) /\ FetchToday(ok)
           \/ d > Today /\ LaterDay(ok)
           \/ d < Today /\ d \in query[q].own /\ May(ok) /\ ImportDay(d, ok)
           \/ d < Today /\ d \notin query[q].own /\ ok /\ UNCHANGED <<dayFile, hourFile>>
        /\ query' = [query EXCEPT ![q].days = @ \ {d}, ![q].failed = @ \/ ~ok]
        /\ Release(q, d, ok)
    /\ NoteLosses
    /\ UNCHANGED <<now, archive, others>>

\* Mutant: the error of a day is forgotten.
RepairedForgets(q) == Goto(q, "reaudit")

\* firstErr ends the request.
Repaired(q) ==
    \/ query[q].failed /\ Fail(q)
    \/ ~query[q].failed /\ Goto(q, "reaudit")

RepairDone(q) ==
    /\ query[q].pc = "repair"
    /\ query[q].days = {}
    /\ Repaired(q)
    /\ UNCHANGED <<now, archive, dayFile, hourFile, holders, others, lost>>

\* The second audit, of the same targets: only what blocks a read in the range counts.
SecondAudit(q) ==
    LET us      == TargetsOf(q)
        blocked == \E i \in Audit(us) : BlocksRead(i) /\ AffectsRange(i, query[q].from, query[q].to)
    IN  /\ query[q].pc = "reaudit"
        /\ \/ (query[q].gone \/ Failures) /\ Fail(q)
           \/ ~query[q].gone /\ ((\E u \in us : Stops(u)) \/ blocked) /\ Fail(q)
           \/ ~query[q].gone /\ (\A u \in us : ~Stops(u)) /\ ~blocked /\ Goto(q, "read")
        /\ UNCHANGED <<now, archive, dayFile, hourFile, holders, others, lost>>

\* effectiveQueryEnd: a range that ends near now is extended over the open candle.
QueryEnd(to) == IF now - to > LiveTail THEN to ELSE Greatest(to, now + Frame)

DailyRows == UNION {dayFile[d].rows : d \in Day}
TodayRows == UNION {HourRows(Today, h) : h \in Hour}

\* splitCandleRequest by the clock of the read: daily files before today, the hour
\* files of today from then on.
AnswerNow(from, to) ==
    {c \in DailyRows : from <= c /\ c < Least(to, Midnight(Today))}
    \cup
    {c \in TodayRows : /\ Midnight(Today) < to
                       /\ Greatest(from, Midnight(Today)) <= c
                       /\ c < QueryEnd(to)}

\* The glob of the daily files takes every day of the market: it needs one file, and
\* none unreadable.
DailyFilesFail ==
    \/ \A d \in Day : dayFile[d] = Missing
    \/ \E d \in Day : dayFile[d] = Unreadable

ReadAnswer(q) ==
    /\ query[q].pc = "read"
    /\ \/ /\ Failures \/ (query[q].from < Midnight(Today) /\ DailyFilesFail)
          /\ Fail(q)
       \/ /\ ~(query[q].from < Midnight(Today) /\ DailyFilesFail)
          /\ query' = [query EXCEPT
                ![q].pc = "answered", ![q].read = Today,
                ![q].out = AnswerNow(query[q].from, query[q].to)]
    /\ UNCHANGED <<now, archive, dayFile, hourFile, holders, others, lost>>

Reply(q) ==
    /\ query[q].pc \in {"answered", "stopped"}
    /\ Fail(q)
    /\ UNCHANGED <<now, archive, dayFile, hourFile, holders, others, lost>>

Step(q) ==
    \/ LoadDay(q) \/ LoadCancelled(q) \/ BuildTargets(q) \/ FirstAudit(q)
    \/ RepairDone(q) \/ SecondAudit(q) \/ ReadAnswer(q) \/ Reply(q)
    \/ \E d \in Day : Acquire(q, d) \/ Skip(q, d) \/ RepairDay(q, d)

Next ==
    \/ Tick
    \/ OtherRequest
    \/ \E q \in Queries : Arrive(q) \/ Disconnect(q) \/ Step(q)

Spec == Init /\ [][Next]_vars

\* Each request's goroutines are scheduled; nothing is assumed of the clock, of
\* clients, or of other requests.
FairSpec == Spec /\ \A q \in Queries : WF_vars(Step(q))

-----------------------------------------------------------------------------
(* Properties                                                               *)

Phases == {"idle", "load", "audit", "repair", "reaudit", "read", "answered", "stopped", "over"}

TypeOK ==
    /\ now \in Opens(0, Midnight(LastDay + 1))
    /\ archive \in Archives
    /\ \A d \in Day : /\ dayFile[d].state \in {"missing", "unreadable", "readable"}
                      /\ dayFile[d].rows \subseteq Opens(Midnight(d), Midnight(d + 1))
    /\ hourFile \in [Day -> [Hour -> 0..FramesPerHour]]
    /\ \A q \in Queries : query[q].pc \in Phases /\ query[q].days \subseteq Day
    /\ holders \subseteq Queries \X Day
    /\ Cardinality(holders) <= Parallel
    /\ others \in 0..MaxOthers
    /\ lost \in [Queries -> SUBSET Opens(0, Midnight(LastDay + 1))]

\* The candles the audits vouch for: those that closed before the end of the range on
\* days that were over when the targets were built, or, while it is still that day, in
\* its hours that were over by then and lie wholly before the end of the range.
Owed(from, to, built) ==
    {c \in Opens(from, to) :
        /\ c + Frame <= to
        /\ \/ DayOf(c) < DayOf(built)
           \/ /\ DayOf(c) = DayOf(built)
              /\ HourIn(c) < HourIn(built)
              /\ HourStart(DayOf(c), HourIn(c)) + HourMs <= to}

\* An answered request has every candle its audits vouch for, but for those that other
\* requests took out of a file after the targets were built: neither the clock nor a
\* failed repair nor an off-by-one loses another one.
AnswerHasOwedCandles ==
    \A q \in Queries : query[q].pc = "answered" =>
        \A c \in Owed(query[q].from, query[q].to, query[q].built) :
            DayOf(c) < DayOf(query[q].built) \/ query[q].read = DayOf(query[q].built)
                => c \in query[q].out \cup lost[q]

\* No request is answered after the repair of one of its days failed.
NoAnswerAfterFailedRepair ==
    \A q \in Queries : query[q].pc = "answered" => ~query[q].failed

\* The candle is in the partition its day had when the targets were built.
Present(c, built) ==
    IF DayOf(c) < DayOf(built) THEN c \in dayFile[DayOf(c)].rows
    ELSE c \in HourRows(DayOf(c), HourIn(c))

\* A request for whole candles, up to the day its targets were built at most, that are
\* all there repairs nothing.
NoNeedlessRepair ==
    [][\A q \in Queries :
        (query[q].pc = "audit" /\ query'[q].pc = "repair"
            /\ query[q].from % Frame = 0 /\ query[q].to % Frame = 0
            /\ query[q].to <= Midnight(DayOf(query[q].built) + 1))
        => \E c \in Owed(query[q].from, query[q].to, query[q].built) :
                ~Present(c, query[q].built)]_vars

\* Every request ends, although its days wait for the shared semaphore.
QueryEnds == \A q \in Queries : (query[q].pc = "load") ~> (query[q].pc = "over")

\* A missing partition is backfilled ("targeted backfill for missing Parquet hours or
\* days"): it does not stop the request.
MissingIsBackfilled == \A q \in Queries : query[q].pc # "stopped"
=============================================================================
