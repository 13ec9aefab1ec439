--------------------------- MODULE PredictionStore ---------------------------
(***************************************************************************)
(* The prediction cache (pkg/polymarket, internal/market/predictions.go):  *)
(* a poller appends the live price to the file of the hour and merges it   *)
(* into the file of the day; requests backfill the days of their range     *)
(* that have no file, then read.  Both merge by reading a file, removing   *)
(* it and writing it again, with nothing to keep them apart.  Every        *)
(* operation on a file may fail: some failures return an error, others     *)
(* leave the caller waiting for ever at an unbuffered channel.             *)
(*                                                                         *)
(* The unit of time is one window of the market.  A row is named by its    *)
(* time: the same time is the same event slug, the key rows are deduped    *)
(* by.  One market and one frame are modelled; frames share no file.       *)
(***************************************************************************)
EXTENDS Naturals, FiniteSets

CONSTANTS
    Requests,       \* the /v1/predictions requests that come
    Poller,         \* the one poller goroutine
    Ranges,         \* the <<from, to>> requests ask for
    History,        \* the windows that have a price history
    StartTime,      \* when the server starts
    LastTime,       \* the clock stops here (a bound)
    HoursPerDay,    \* 24 in the code
    HourLength,     \* windows per hour
    MaxFailures     \* on how many files operations may fail (a bound)

ASSUME ActorAssumption == Poller \notin Requests
ASSUME SizeAssumption ==
    /\ {HoursPerDay, HourLength} \subseteq Nat \ {0}
    /\ {StartTime, LastTime, MaxFailures} \subseteq Nat

Actors == Requests \cup {Poller}

DayLength == HoursPerDay * HourLength
Time      == 0..LastTime
DayOf(t)  == t \div DayLength
Day       == 0..DayOf(LastTime)

\* Mutant: the hours are counted from the start.
HourOfStart(t) == t \div HourLength

HourIn(t) == (t % DayLength) \div HourLength

\* day=D/data.parquet and day=D/current/hour_HH.parquet
DayPath(d)     == [day |-> d, hour |-> HoursPerDay]
HourPath(d, h) == [day |-> d, hour |-> h]
Path           == [day : Day, hour : 0..HoursPerDay]

ASSUME StartAssumption == StartTime \in Time
ASSUME RangeAssumption == Ranges \subseteq Nat \X Nat

VARIABLES
    now,        \* the current window
    file,       \* file[path]: none, partial, mixed (two writers) or whole; its rows; who is writing
    pc,         \* where each actor is
    merge,      \* the merge an actor is in: its path, the rows to add, the rows to write
    job,        \* a request's range, the day its loop is at, its answer; the poller's instant
    merged,     \* ghost: the <<path, row>> of the merges that reported success
    failed,     \* ghost: the files on which an operation has failed
    met,        \* ghost: the files of which two merges have overlapped
    stopping    \* the server's context is cancelled

vars == <<now, file, pc, merge, job, merged, failed, met, stopping>>

None     == [state |-> "none", rows |-> {}, by |-> {}]
NoMerge  == [path |-> DayPath(0), add |-> {}, buf |-> {}]
NoJob    == [from |-> 0, to |-> 0, day |-> 0, at |-> 0]

Init ==
    /\ now = StartTime
    /\ file = [p \in Path |-> None]
    /\ pc = [a \in Actors |-> IF a = Poller THEN "wait" ELSE "idle"]
    /\ merge = [a \in Actors |-> NoMerge]
    /\ job = [a \in Actors |-> NoJob]
    /\ merged = {}
    /\ failed = {}
    /\ met = {}
    /\ stopping = FALSE

Goto(a, label) == pc' = [pc EXCEPT ![a] = label]

\* A merge returns, and what it held is gone.
Return(a, label) == Goto(a, label) /\ merge' = [merge EXCEPT ![a] = NoMerge]

Tick ==
    /\ now + 1 \in Time
    /\ now' = now + 1
    /\ UNCHANGED <<file, pc, merge, job, merged, failed, met, stopping>>

\* SIGTERM
Stop ==
    /\ ~stopping
    /\ stopping' = TRUE
    /\ UNCHANGED <<now, file, pc, merge, job, merged, failed, met>>

-----------------------------------------------------------------------------
(* Store.MergeDay and Store.AppendHourly: read, remove, create, write.      *)

StartMerge(a, path, rows, label) ==
    /\ merge' = [merge EXCEPT ![a] = [path |-> path, add |-> rows, buf |-> {}]]
    /\ Goto(a, label)

\* Mutant: the rows that are there are not read.
KeepsOnlyNew(a, rows) == merge[a].add

Kept(a, rows) == rows \cup merge[a].add

\* The rows of a file are read; or the reader's error waits for a receiver that is ranging
\* over the rows, and the caller waits for ever.
Reads(a, rows) == merge' = [merge EXCEPT ![a].buf = Kept(a, rows)] /\ Goto(a, "remove")
Hangs(a)       == Goto(a, "hung") /\ UNCHANGED merge

\* Another merge of the file is on its way.
Meets(a) ==
    \E b \in Actors \ {a} :
        pc[b] \in {"remove", "create", "write"} /\ merge[b].path = merge[a].path

NoteMeeting(a) == met' = IF Meets(a) THEN met \cup {merge[a].path} ELSE met

Fails(path) ==
    /\ Cardinality(failed \cup {path}) <= MaxFailures
    /\ failed' = failed \cup {path}

\* ReadDay.  A file without a footer cannot be read, nor one that another merge removes
\* after it was seen; the first may still be too small to count as existing.  A whole file
\* counts as missing, too, when it cannot be looked at.
MergeRead(a) ==
    LET here == file[merge[a].path]
    IN  /\ pc[a] = "read"
        /\ \/ Reads(a, here.rows) /\ UNCHANGED failed
           \/ /\ here.state \in {"partial", "mixed"} \/ Meets(a)
              /\ Hangs(a)
              /\ UNCHANGED failed
           \/ here.state = "whole" /\ (Reads(a, {}) \/ Hangs(a)) /\ Fails(merge[a].path)
        /\ NoteMeeting(a)
        /\ UNCHANGED <<now, file, job, merged, stopping>>

\* AppendHourly makes the directory first, and returns an error when it cannot.
DirFails ==
    /\ pc[Poller] = "remove"
    /\ merge[Poller].path.hour # HoursPerDay
    /\ Return(Poller, "wait")
    /\ UNCHANGED <<now, file, job, merged, failed, met, stopping>>

\* The error of the removal is dropped.
MergeRemove(a) ==
    /\ pc[a] = "remove"
    /\ \/ file' = [file EXCEPT ![merge[a].path] = None] /\ UNCHANGED failed
       \/ UNCHANGED file /\ Fails(merge[a].path)
    /\ Goto(a, "create")
    /\ UNCHANGED <<now, merge, job, merged, met, stopping>>

\* os.Create: a new file, or the truncation of one that was created since the removal,
\* whose writer may still be at it.
Created(a, f) ==
    [state |-> IF f.by = {} THEN "partial" ELSE "mixed", rows |-> {}, by |-> f.by \cup {a}]

MergeCreate(a) ==
    /\ pc[a] = "create"
    /\ file' = [file EXCEPT ![merge[a].path] = Created(a, @)]
    /\ Goto(a, "write")
    /\ UNCHANGED <<now, merge, job, merged, failed, met, stopping>>

Left(a, f)  == [f EXCEPT !.by = @ \ {a}]
Whole(a, f) == [Left(a, f) EXCEPT !.state = "whole", !.rows = merge[a].buf]

\* The directory, the file or its writer cannot be made: WriteParquet ends, and the first
\* row waits for a receiver for ever.
CreateFails(a) ==
    /\ pc[a] = "create"
    /\ \/ UNCHANGED file
       \/ file' = [file EXCEPT ![merge[a].path] = Left(a, Created(a, @))]
    /\ Fails(merge[a].path)
    /\ Hangs(a)
    /\ UNCHANGED <<now, job, merged, met, stopping>>

\* Mutant: the footer is left out.
ClosedWithoutFooter(a, f) == {Left(a, f)}

\* The rows and the footer reach the file this writer created, if it still has a name; of
\* a file with two writers the last one may leave its own, or nothing that can be read.
Closed(a, f) ==
    CASE a \notin f.by                          -> {f}
      [] f.by = {a} /\ f.state = "partial"      -> {Whole(a, f)}
      [] f.by = {a} /\ f.state = "mixed"        -> {Whole(a, f), Left(a, f)}
      [] OTHER                                  -> {Left(a, f)}

\* What an actor does after a merge, and after one that returned an error.
AfterMerge(a) ==
    IF a # Poller THEN "loop" ELSE IF merge[a].path.hour = HoursPerDay THEN "wait" ELSE "polled"

AfterError(a) == IF a = Poller THEN "wait" ELSE "loop"

MergeClose(a) ==
    /\ pc[a] = "write"
    /\ \E f \in Closed(a, file[merge[a].path]) :
            file' = [file EXCEPT ![merge[a].path] = f]
    /\ merged' = merged \cup {<<merge[a].path, r>> : r \in merge[a].add}
    /\ Return(a, AfterMerge(a))
    /\ UNCHANGED <<now, job, failed, met, stopping>>

\* A row cannot be written: the rows after it wait for a receiver for ever; it was the last
\* one, or the footer or the end fails: the error is returned.
WriteFails(a) ==
    /\ pc[a] = "write"
    /\ \E f \in {Left(a, file[merge[a].path])} \cup Closed(a, file[merge[a].path]) :
        /\ file' = [file EXCEPT ![merge[a].path] = f]
        /\ \/ /\ f = Left(a, file[merge[a].path]) /\ Cardinality(merge[a].buf) > 1
              /\ Hangs(a)
           \/ Return(a, AfterError(a))
    /\ Fails(merge[a].path)
    /\ UNCHANGED <<now, job, merged, met, stopping>>

-----------------------------------------------------------------------------
(* Poller.Run and Poller.tick                                               *)

PollerReturns ==
    /\ pc[Poller] = "wait"
    /\ stopping
    /\ Goto(Poller, "returned")
    /\ UNCHANGED <<now, file, merge, job, merged, failed, met, stopping>>

\* A tick captures the time and fetches the price; a failed fetch skips the tick.
Poll ==
    /\ pc[Poller] = "wait"
    /\ job' = [job EXCEPT ![Poller].at = now]
    /\ Goto(Poller, "fetched")
    /\ UNCHANGED <<now, file, merge, merged, failed, met, stopping>>

\* AppendHourly: the hour is the captured one, the day of the path is the current one.
PollHour ==
    /\ pc[Poller] = "fetched"
    /\ StartMerge(Poller, HourPath(DayOf(now), HourIn(job[Poller].at)), {job[Poller].at}, "read")
    /\ UNCHANGED <<now, file, job, merged, failed, met, stopping>>

PollDay ==
    /\ pc[Poller] = "polled"
    /\ StartMerge(Poller, DayPath(DayOf(job[Poller].at)), {job[Poller].at}, "read")
    /\ UNCHANGED <<now, file, job, merged, failed, met, stopping>>

-----------------------------------------------------------------------------
(* API.Predictions: Collector.EnsureRange, then the read                    *)

Arrive(r) ==
    /\ pc[r] = "idle"
    /\ ~stopping
    /\ \E x \in Ranges :
        /\ x[1] <= now
        /\ job' = [job EXCEPT ![r] = [NoJob EXCEPT !.from = x[1], !.to = x[2], !.day = DayOf(x[1])]]
    /\ Goto(r, "check")
    /\ UNCHANGED <<now, file, merge, merged, failed, met, stopping>>

\* The windows of the loop's day in [from, to).
Windows(r) ==
    {w \in Time : DayOf(w) = job[r].day /\ job[r].from <= w /\ w < job[r].to}

\* The loop over the days of [from, to): it ends when the client has gone; a day with a
\* file is skipped, unless the file cannot be looked at.
CheckDay(r) ==
    LET path == DayPath(job[r].day)
    IN  /\ pc[r] = "check"
        /\ \/ Goto(r, "answer") /\ UNCHANGED failed
           \/ /\ Windows(r) # {}
              /\ file[path].state # "none"
              /\ Goto(r, "loop")
              /\ UNCHANGED failed
           \/ /\ Windows(r) # {}
              /\ Goto(r, "fetch")
              /\ IF file[path].state = "whole" THEN Fails(path) ELSE UNCHANGED failed
        /\ UNCHANGED <<now, file, merge, job, merged, met, stopping>>

\* backfillDay: the history of every window, and the live price, at the current time,
\* for windows that have none; an error, or nothing found, leaves the day without a file.
FetchDay(r) ==
    /\ pc[r] = "fetch"
    /\ \/ \E live \in SUBSET (IF Windows(r) \subseteq History THEN {} ELSE {now}) :
            LET found == (Windows(r) \cap History) \cup live
            IN  found # {} /\ StartMerge(r, DayPath(job[r].day), found, "read")
       \/ Goto(r, "loop") /\ UNCHANGED merge
    /\ UNCHANGED <<now, file, job, merged, failed, met, stopping>>

\* Mutant: the loop does not move on.
NextDaySame(r) ==
    /\ pc[r] = "loop"
    /\ Goto(r, "check")
    /\ UNCHANGED <<now, file, merge, job, merged, failed, met, stopping>>

NextDay(r) ==
    /\ pc[r] = "loop"
    /\ job' = [job EXCEPT ![r].day = @ + 1]
    /\ Goto(r, "check")
    /\ UNCHANGED <<now, file, merge, merged, failed, met, stopping>>

\* GetPredictions and the reply.
Answer(r) ==
    /\ pc[r] = "answer"
    /\ job' = [job EXCEPT ![r] = NoJob]
    /\ Goto(r, "answered")
    /\ UNCHANGED <<now, file, merge, merged, failed, met, stopping>>

Merging(a) ==
    \/ MergeRead(a) \/ MergeRemove(a) \/ MergeCreate(a) \/ MergeClose(a)
    \/ CreateFails(a) \/ WriteFails(a)

PollerStep == PollerReturns \/ PollHour \/ PollDay \/ DirFails \/ Merging(Poller)

RequestStep(r) == CheckDay(r) \/ FetchDay(r) \/ NextDay(r) \/ Answer(r) \/ Merging(r)

Next ==
    \/ Tick \/ Stop \/ Poll \/ PollerStep
    \/ \E r \in Requests : Arrive(r) \/ RequestStep(r)

Spec == Init /\ [][Next]_vars

\* The goroutines are scheduled.  PollerReturns is strongly fair: select chooses at random
\* among the channels that are ready, so ticks cannot keep it from ctx.Done for ever.
FairSpec ==
    /\ Spec
    /\ WF_vars(PollerStep)
    /\ SF_vars(PollerReturns)
    /\ \A r \in Requests : WF_vars(RequestStep(r))

-----------------------------------------------------------------------------
(* Properties                                                               *)

Labels == {"idle", "wait", "fetched", "read", "remove", "create", "write", "polled", "hung",
           "returned", "check", "fetch", "loop", "answer", "answered"}

TypeOK ==
    /\ now \in Time
    /\ \A p \in Path : /\ file[p].state \in {"none", "partial", "mixed", "whole"}
                       /\ file[p].rows \subseteq Time
                       /\ file[p].by \subseteq Actors
    /\ pc \in [Actors -> Labels]
    /\ \A a \in Actors : /\ merge[a].path \in Path
                         /\ merge[a].add \subseteq Time
                         /\ merge[a].buf \subseteq Time
    /\ merged \subseteq Path \X Time
    /\ failed \subseteq Path
    /\ met \subseteq Path

\* A row of a merge that reported success is in its file whenever that can be read
\* ("MergeDay appends snapshots into the daily file with dedupe"), unless an operation on
\* the file has failed or two merges of it have overlapped.
MergeKeepsRows ==
    \A m \in merged :
        file[m[1]].state = "whole" /\ m[1] \notin failed \cup met => m[2] \in file[m[1]].rows

\* An actor that waits for ever at one of these files.
Stuck(a) == pc[a] = "hung" /\ merge[a].path \in failed \cup met

\* The poller returns once its context is cancelled; what keeps it from that is a failed
\* operation on its own file or the merge of another that has met its own, nothing else.
PollerStops == stopping ~> (pc[Poller] = "returned" \/ Stuck(Poller))

\* Every request is answered, or waits for ever at such a file.
RequestEnds == \A r \in Requests : (pc[r] # "idle") ~> (pc[r] = "answered" \/ Stuck(r))

\* "Run blocks until ctx is cancelled": as long as no operation fails, the poller returns.
RunReturns == stopping ~> (pc[Poller] = "returned" \/ failed # {})
=============================================================================
