------------------------------ MODULE DayImport ------------------------------
(***************************************************************************)
(* The import of a past day from the exchange's archive (pkg/binance       *)
(* bulk.go, source.go; pkg/data parquet.go; pkg/etl drain.go).             *)
(*                                                                         *)
(* An import is a chain of goroutines joined by channels:                  *)
(*                                                                         *)
(*   writer <--rows-- loader --progress,errors--> [relay] --> caller       *)
(*                                                                         *)
(* The loader reads the archive and feeds the writer, which writes the     *)
(* day's file IN PLACE; the caller drains progress and errors and stops at *)
(* the first error or when its request is cancelled.  Requests use a relay *)
(* (Source.DownloadAndTransform); the gap repair drains the loader itself. *)
(* Several imports of the same day may run at once: nothing locks the file.*)
(***************************************************************************)
EXTENDS Naturals, FiniteSets

CONSTANTS
    Imports,    \* the imports of the day, each one call of DownloadAndTransform
    Rows,       \* rows of the day's archive
    None        \* no file at the path

ASSUME RowsAssumption == Rows \in Nat
ASSUME NoneAssumption == None \notin Imports

VARIABLES
    archive,    \* archive[k]: the k-th CSV row is good, bad, or ends the reading
    path,       \* the file the path names: the import whose writer created it, or None
    disk,       \* disk[f]: what is in the file f
    load,       \* the loader goroutine of each import
    writer,     \* its parquet writer goroutine
    relay,      \* its relay goroutine
    caller      \* the goroutine that drains it

vars == <<archive, path, disk, load, writer, relay, caller>>

RowKinds == {"good", "bad", "fatal"}

\* A file on disk: larger than FileExists' 5 bytes; closed with its footer and then how
\* many rows it has; who has written to it since it was last created or truncated.
NoBytes == [more |-> FALSE, footer |-> FALSE, rows |-> 0, by |-> {}]

FileExists == path # None /\ disk[path].more

\* A parquet reader needs the footer, and a file of one writer.
Readable(f) == disk[f].footer /\ Cardinality(disk[f].by) = 1

Init ==
    /\ archive \in [1..Rows -> RowKinds]
    /\ path = None
    /\ disk = [i \in Imports |-> NoBytes]
    /\ load = [i \in Imports |-> [pc |-> "new", msg |-> "none", then |-> "new", pos |-> 0]]
    /\ writer = [i \in Imports |->
                    [pc |-> "none", fd |-> None, rows |-> 0, open |-> FALSE, err |-> FALSE]]
    /\ relay = [i \in Imports |-> [pc |-> "none", err |-> FALSE]]
    /\ caller = [i \in Imports |-> [pc |-> "idle", cancelled |-> FALSE, found |-> FALSE, alone |-> FALSE]]

-----------------------------------------------------------------------------
(* The callers.                                                             *)

LiveLoader(i) == load[i].pc \notin {"new", "ended", "dead"}
LiveWriter(i) == writer[i].pc \in {"remove", "create", "recv"}
Live(i)       == LiveLoader(i) \/ LiveWriter(i)

\* A caller starts to drain.  It remembers, as a ghost, whether any goroutine of another
\* import of the day has ever run beside it, those left behind by their caller included.
Begin(i) ==
    /\ caller[i].pc = "idle"
    /\ load' = [load EXCEPT ![i].pc = "check"]
    /\ caller' = [j \in Imports |->
            IF j = i THEN [caller[i] EXCEPT !.pc = "drain",
                                            !.alone = \A k \in Imports : ~Live(k)]
            ELSE [caller[j] EXCEPT !.alone = @ /\ ~Live(j)]]

\* ensureBulkForRange: the router's loader with its relay, then DrainETL.
StartRequest(i) ==
    /\ Begin(i)
    /\ relay' = [relay EXCEPT ![i].pc = "relay"]
    /\ UNCHANGED <<archive, path, disk, writer>>

\* RepairKlineGaps, for a past day whose file the audit could read and found short of
\* candles: the loader, then DrainETL.
StartRepair(i) ==
    /\ Begin(i)
    /\ path # None
    /\ Readable(path)
    /\ disk[path].rows < Rows
    /\ UNCHANGED <<archive, path, disk, writer, relay>>

\* The request goes away, or another day of the same range has failed (errgroup).
Cancel(i) ==
    /\ caller[i].pc = "drain"
    /\ ~caller[i].cancelled
    /\ caller' = [caller EXCEPT ![i].cancelled = TRUE]
    /\ UNCHANGED <<archive, path, disk, load, writer, relay>>

Drained(i, result) == caller' = [caller EXCEPT ![i].pc = result]

\* The loader hands over a message: both sides meet on an unbuffered channel.
Offers(i, msg) == load[i].pc = "send" /\ load[i].msg = msg
Resume(i) ==
    load' = [load EXCEPT ![i] = [pc |-> @.then, msg |-> "none", then |-> @.then, pos |-> @.pos]]

Ended(i) == load[i].pc = "ended"

\* DrainETL on the loader's channels.
DrainLoader(i) ==
    /\ caller[i].pc = "drain"
    /\ relay[i].pc = "none"
    /\ \/ /\ Offers(i, "info")
          /\ Resume(i)
          /\ UNCHANGED caller
       \/ /\ Offers(i, "error")
          /\ Resume(i)
          /\ Drained(i, "error")
       \/ /\ Ended(i)
          /\ Drained(i, "ok")
          /\ UNCHANGED load
    /\ UNCHANGED <<archive, path, disk, writer, relay>>

\* DrainETL on the relay's channels: a progress message, the buffered error, or the end.
DrainRelay(i) ==
    /\ caller[i].pc = "drain"
    /\ \/ /\ relay[i].pc = "forward"
          /\ relay' = [relay EXCEPT ![i].pc = "relay"]
          /\ UNCHANGED caller
       \/ /\ relay[i].pc = "ended"
          /\ Drained(i, IF relay[i].err THEN "error" ELSE "ok")
          /\ UNCHANGED relay
    /\ UNCHANGED <<archive, path, disk, load, writer>>

\* DrainETL gives up when its context is done.
DrainCancelled(i) ==
    /\ caller[i].pc = "drain"
    /\ caller[i].cancelled
    /\ Drained(i, "cancelled")
    /\ UNCHANGED <<archive, path, disk, load, writer, relay>>

\* Source.DownloadAndTransform: forward progress; end on the first error, on the loader's
\* end, or when the context is done.  Its error channel holds one error.
Relay(i) ==
    /\ relay[i].pc = "relay"
    /\ \/ /\ Offers(i, "info")
          /\ Resume(i)
          /\ relay' = [relay EXCEPT ![i].pc = "forward"]
       \/ /\ Offers(i, "error")
          /\ Resume(i)
          /\ relay' = [relay EXCEPT ![i] = [pc |-> "ended", err |-> TRUE]]
       \/ /\ Ended(i)
          /\ relay' = [relay EXCEPT ![i].pc = "ended"]
          /\ UNCHANGED load
       \/ /\ caller[i].cancelled
          /\ relay' = [relay EXCEPT ![i] = [pc |-> "ended", err |-> TRUE]]
          /\ UNCHANGED load
    /\ UNCHANGED <<archive, path, disk, writer, caller>>

-----------------------------------------------------------------------------
(* The loader: HistoryConsumer.DownloadAndTransform.                        *)

At(i, label) == load' = [load EXCEPT ![i].pc = label]

\* Send a message; the loader blocks until somebody takes it.
Send(i, msg, then) ==
    load' = [load EXCEPT ![i] = [pc |-> "send", msg |-> msg, then |-> then, pos |-> @.pos]]

\* A file larger than four bytes is the day, whatever is in it.
Check(i) ==
    /\ load[i].pc = "check"
    /\ \/ /\ FileExists
          /\ Send(i, "info", "ended")
          /\ caller' = [caller EXCEPT ![i].found = TRUE]
       \/ /\ ~FileExists
          /\ At(i, "fetch")
          /\ UNCHANGED caller
    /\ UNCHANGED <<archive, path, disk, writer, relay>>

\* Download and unzip the archive, then start the writer; or fail.
Fetch(i) ==
    /\ load[i].pc = "fetch"
    /\ \/ /\ At(i, "rows")
          /\ writer' = [writer EXCEPT ![i].pc = "remove", ![i].open = TRUE]
       \/ /\ Send(i, "error", "ended")
          /\ UNCHANGED writer
    /\ UNCHANGED <<archive, path, disk, relay, caller>>

\* Mutant: the end of the CSV is read as one more row.
NextRowPastEnd(i) ==
    /\ load[i].pc = "rows"
    /\ load[i].pos <= Rows
    /\ load' = [load EXCEPT ![i].pc = "put", ![i].pos = @ + 1]
    /\ UNCHANGED <<archive, path, disk, writer, relay, caller>>

\* The next CSV row: a bad one is reported and skipped, a wrong field count ends the file.
NextRow(i) ==
    LET pos == load[i].pos + 1
    IN  /\ load[i].pc = "rows"
        /\ \/ /\ load[i].pos = Rows
              /\ At(i, "close")
           \/ /\ load[i].pos < Rows
              /\ archive[pos] = "good"
              /\ load' = [load EXCEPT ![i].pc = "put", ![i].pos = pos]
           \/ /\ load[i].pos < Rows
              /\ archive[pos] # "good"
              /\ load' = [load EXCEPT ![i] =
                            [pc |-> "send", msg |-> "error", pos |-> pos,
                             then |-> IF archive[pos] = "bad" THEN "rows" ELSE "close"]]
        /\ UNCHANGED <<archive, path, disk, writer, relay, caller>>

\* The select in the loop: the writer takes the row, or its error ends the loop.
TakeWriterError(i, then) ==
    /\ writer[i].err
    /\ writer' = [writer EXCEPT ![i].err = FALSE]
    /\ Send(i, "error", then)

PutFails(i) ==
    /\ load[i].pc = "put"
    /\ TakeWriterError(i, "close")
    /\ UNCHANGED <<archive, path, disk, relay, caller>>

\* close(parquetWriteCh)
CloseRows(i) ==
    /\ load[i].pc = "close"
    /\ At(i, "range")
    /\ writer' = [writer EXCEPT ![i].open = FALSE]
    /\ UNCHANGED <<archive, path, disk, relay, caller>>

\* Mutant: what the writer still has to say after the last row is not passed on.
RangeDropsErrors(i) ==
    /\ load[i].pc = "range"
    /\ \/ /\ writer[i].err
          /\ writer' = [writer EXCEPT ![i].err = FALSE]
          /\ UNCHANGED load
       \/ /\ ~writer[i].err
          /\ writer[i].pc \in {"done", "failed"}
          /\ Send(i, "info", "ended")
          /\ UNCHANGED writer
    /\ UNCHANGED <<archive, path, disk, relay, caller>>

\* Mutant: ParquetReady is sent without waiting for the writer to be done.
RangeDoesNotWait(i) ==
    /\ load[i].pc = "range"
    /\ \/ TakeWriterError(i, "range")
       \/ ~writer[i].err /\ Send(i, "info", "ended") /\ UNCHANGED writer
    /\ UNCHANGED <<archive, path, disk, relay, caller>>

\* The writer's errors until it is done, then ParquetReady in any case.
RangeErrors(i) ==
    /\ load[i].pc = "range"
    /\ \/ TakeWriterError(i, "range")
       \/ /\ ~writer[i].err
          /\ writer[i].pc \in {"done", "failed"}
          /\ Send(i, "info", "ended")
          /\ UNCHANGED writer
    /\ UNCHANGED <<archive, path, disk, relay, caller>>

-----------------------------------------------------------------------------
(* The writer: data.WriteParquet.                                           *)

\* Mutant: a writer that fails returns without its error.
FailsSilently(i) == writer' = [writer EXCEPT ![i].pc = "failed"]

Fails(i) == writer' = [writer EXCEPT ![i].pc = "failed", ![i].err = TRUE]

\* os.Remove
WriterRemove(i) ==
    /\ writer[i].pc = "remove"
    /\ path' = None
    /\ writer' = [writer EXCEPT ![i].pc = "create"]
    /\ UNCHANGED <<archive, disk, load, relay, caller>>

\* os.Create: a new file, or the one another writer has put there meanwhile, cut to
\* nothing; then the four bytes of the format's mark.  Both can fail.
WriterCreate(i) ==
    /\ writer[i].pc = "create"
    /\ \/ LET f == IF path = None THEN i ELSE path
          IN  /\ path' = f
              /\ disk' = [disk EXCEPT ![f] = [NoBytes EXCEPT !.by = {i}]]
              /\ \/ writer' = [writer EXCEPT ![i].pc = "recv", ![i].fd = f]
                 \/ Fails(i)
       \/ Fails(i) /\ UNCHANGED <<path, disk>>
    /\ UNCHANGED <<archive, load, relay, caller>>

\* A row is received and written: it may stay in memory or be flushed; or the write fails.
WriterRow(i) ==
    /\ load[i].pc = "put"
    /\ writer[i].pc = "recv"
    /\ At(i, "rows")
    /\ \/ UNCHANGED disk
       \/ disk' = [disk EXCEPT ![writer[i].fd] =
                     [more |-> TRUE, footer |-> @.footer, rows |-> @.rows, by |-> @.by \cup {i}]]
    /\ \/ writer' = [writer EXCEPT ![i].rows = @ + 1]
       \/ Fails(i)
    /\ UNCHANGED <<archive, path, relay, caller>>

\* The rows are closed: WriteStop flushes and writes the footer, Close ends the file;
\* either can fail.
WriterStop(i) ==
    /\ writer[i].pc = "recv"
    /\ ~writer[i].open
    /\ \/ /\ disk' = [disk EXCEPT ![writer[i].fd] =
                        [more |-> TRUE, footer |-> TRUE, rows |-> writer[i].rows,
                         by |-> @.by \cup {i}]]
          /\ \/ writer' = [writer EXCEPT ![i].pc = "done"]
             \/ Fails(i)
       \/ Fails(i) /\ UNCHANGED disk
    /\ UNCHANGED <<archive, path, load, relay, caller>>

-----------------------------------------------------------------------------
\* The server stops: the goroutines are gone, the files stay.
Crash ==
    /\ \E i \in Imports : Live(i)
    /\ caller' = [i \in Imports |-> IF caller[i].pc = "drain"
                                    THEN [caller[i] EXCEPT !.pc = "dead"] ELSE caller[i]]
    /\ load' = [i \in Imports |-> IF LiveLoader(i)
                                  THEN [load[i] EXCEPT !.pc = "dead"] ELSE load[i]]
    /\ writer' = [i \in Imports |-> IF LiveWriter(i)
                                    THEN [writer[i] EXCEPT !.pc = "dead"] ELSE writer[i]]
    /\ relay' = [i \in Imports |-> IF relay[i].pc \in {"relay", "forward"}
                                   THEN [relay[i] EXCEPT !.pc = "dead"] ELSE relay[i]]
    /\ UNCHANGED <<archive, path, disk>>

Caller(i) == DrainLoader(i) \/ DrainRelay(i) \/ DrainCancelled(i)
Loader(i) ==
    Check(i) \/ Fetch(i) \/ NextRow(i) \/ PutFails(i) \/ CloseRows(i) \/ RangeErrors(i)
Writer(i) == WriterRemove(i) \/ WriterCreate(i) \/ WriterRow(i) \/ WriterStop(i)

Next ==
    \/ Crash
    \/ \E i \in Imports :
        \/ StartRequest(i) \/ StartRepair(i) \/ Cancel(i)
        \/ Caller(i) \/ Relay(i) \/ Loader(i) \/ Writer(i)

Spec == Init /\ [][Next]_vars

-----------------------------------------------------------------------------
(* Properties                                                               *)

LoadLabels   == {"new", "check", "fetch", "rows", "put", "close", "range", "send", "ended", "dead"}
WriterLabels == {"none", "remove", "create", "recv", "done", "failed", "dead"}
RelayLabels  == {"none", "relay", "forward", "ended", "dead"}
CallerLabels == {"idle", "drain", "ok", "error", "cancelled", "dead"}

TypeOK ==
    /\ archive \in [1..Rows -> RowKinds]
    /\ path \in Imports \cup {None}
    /\ disk \in [Imports -> [more : BOOLEAN, footer : BOOLEAN, rows : 0..Rows,
                             by : SUBSET Imports]]
    /\ load \in [Imports -> [pc : LoadLabels, msg : {"none", "info", "error"},
                             then : LoadLabels, pos : 0..Rows]]
    /\ writer \in [Imports -> [pc : WriterLabels, fd : Imports \cup {None}, rows : 0..Rows,
                               open : BOOLEAN, err : BOOLEAN]]
    /\ relay \in [Imports -> [pc : RelayLabels, err : BOOLEAN]]
    /\ caller \in [Imports -> [pc : CallerLabels, cancelled : BOOLEAN, found : BOOLEAN,
                               alone : BOOLEAN]]

Clean    == \A k \in 1..Rows : archive[k] = "good"
Whole(f) == Readable(f) /\ disk[f].rows = Rows

\* An import that reports success and did not find the day there has had every row of a
\* clean archive written: no error of a row, of the writer or of the disk is lost on its
\* way through the channels.
OkImportWroteAll ==
    \A i \in Imports : caller[i].pc = "ok" /\ ~caller[i].found =>
        Clean /\ writer[i].pc = "done" /\ writer[i].rows = Rows

\* If it also ran with no other import beside it, the day is there and whole; it stays so.
AloneImportLeavesTheDay ==
    \A i \in Imports : caller[i].pc = "ok" /\ caller[i].alone /\ ~caller[i].found =>
        path # None /\ Whole(path)

\* The goroutines of an import that can take a step: the guards of their actions.
CallerRuns(i) ==
    /\ caller[i].pc = "drain"
    /\ \/ caller[i].cancelled
       \/ relay[i].pc = "none" /\ (Offers(i, "info") \/ Offers(i, "error") \/ Ended(i))
       \/ relay[i].pc \in {"forward", "ended"}

RelayRuns(i) ==
    /\ relay[i].pc = "relay"
    /\ Offers(i, "info") \/ Offers(i, "error") \/ Ended(i) \/ caller[i].cancelled

LoaderRuns(i) ==
    \/ load[i].pc \in {"check", "fetch", "rows", "close"}
    \/ load[i].pc = "put" /\ writer[i].err
    \/ load[i].pc = "range" /\ (writer[i].err \/ writer[i].pc \in {"done", "failed"})

WriterRuns(i) ==
    \/ writer[i].pc \in {"remove", "create"}
    \/ writer[i].pc = "recv" /\ (load[i].pc = "put" \/ ~writer[i].open)

Runs(i) == CallerRuns(i) \/ RelayRuns(i) \/ LoaderRuns(i) \/ WriterRuns(i)

\* No import deadlocks: while a caller drains, or the writer of a clean archive has begun
\* (also when its caller has left), one of the import's goroutines can run.
NobodyIsStuck ==
    \A i \in Imports : caller[i].pc = "drain" \/ (LiveWriter(i) /\ Clean) => Runs(i)

\* A repair that reports success has downloaded the day again ("re-downloads data for
\* hours/days with integrity issues").
RepairDownloads ==
    \A i \in Imports : caller[i].pc = "ok" /\ relay[i].pc = "none" => ~caller[i].found
=============================================================================
