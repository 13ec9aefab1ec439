--------------------------- MODULE PredictionRows ---------------------------
(***************************************************************************)
(* The rows of predictions that come in by the import of a price export    *)
(* (pkg/polymarket/bulk.go, resample.go) and go out by a query             *)
(* (internal/store/predictions.go).  The server's own way in, and what     *)
(* happens to a file that two write at once, is in PredictionStore.        *)
(*                                                                         *)
(* A row is its instant; prices and slugs follow from it.  What is read    *)
(* is a set of rows: every way in sorts and dedupes them.                  *)
(***************************************************************************)
EXTENDS Naturals, FiniteSets, Sequences, Sorting

CONSTANTS
    Window,     \* instants of a frame's window
    DayLength   \* instants of a day

ASSUME RowAssumption == {Window, DayLength} \subseteq Nat \ {0}

InDay(t) == t \div DayLength

\* AlignWindowStart
WindowStart(t) == (t \div Window) * Window

Within(rows, from, to) == {t \in rows : from <= t /\ t < to}

\* ResampleLast: of each window the last row.
ResampleLast(rows) ==
    {t \in rows : \A u \in rows : WindowStart(u) = WindowStart(t) => u <= t}

\* importPolyDataCSV: the records of the export in [from, to), resampled.
ImportRows(csv, from, to) == ResampleLast(Within(csv, from, to))

\* importHFDir: the rows of every file in [from, to), as they are.
ImportFiles(files, from, to) == UNION {Within(f, from, to) : f \in files}

\* ImportFromPath: a directory of files, or one file of records.
ImportFromPath(source, files, from, to) ==
    IF source = "hf" THEN ImportFiles(files, from, to) ELSE ImportRows(UNION files, from, to)

\* writeByDay and MergeDay: each day's rows join those its file has.
WriteByDay(daily, rows) ==
    [d \in DOMAIN daily |-> daily[d] \cup {t \in rows : InDay(t) = d}]

-----------------------------------------------------------------------------
\* Mutant: the past is not cut at the start of today.
PastToEnd(from, to, today) == [from |-> from, to |-> to]

\* splitPredictionRequest: the part of [from, to) before today, and the rest.
Past(from, to, today) ==
    [from |-> from, to |-> IF to <= today * DayLength THEN to ELSE today * DayLength]

Present(from, to, today) ==
    [from |-> IF from < today * DayLength THEN today * DayLength ELSE from, to |-> to]

Selected(rows, part) == Ascending(Within(rows, part.from, part.to))

\* Rows before today are asked for, and there is no daily file: none is written without
\* rows.  The glob of the daily files then matches nothing, which is an error.
Refused(daily, from, to, today) ==
    /\ from < to
    /\ from < today * DayLength
    /\ \A d \in DOMAIN daily : daily[d] = {}

\* predictionsFromParquet: the daily files of every day.
FromDaily(daily, part) == Selected(UNION {daily[d] : d \in DOMAIN daily}, part)

\* predictionsFromHourlyParquet: the current files of the day it is now.
FromHourly(hourly, part, today) == Selected(hourly[today], part)

\* GetPredictions when it is not refused, without a change of the day between its two reads.
GetPredictions(daily, hourly, from, to, today) ==
    IF to <= from THEN <<>>
    ELSE FromDaily(daily, Past(from, to, today))
            \o FromHourly(hourly, Present(from, to, today), today)
=============================================================================
