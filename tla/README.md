# TLA+ models of go-fdp

go-fdp serves market data (candles, trades, prediction-market prices) from Parquet files that it
fills on demand from the exchange's archive, its REST API and Polymarket, and trades on paper with
them. This directory holds TLA+ models of the parts where that goes wrong quietly: caches filled by
concurrent requests, imports made of chained goroutines, audits that decide whether an answer may
be given, pauses that keep the program within the exchange's limits, the paper account, the
terminal's message loop, and the arithmetic of pages, charts, rows and folds.

    tlc -config HourCacheSolo.cfg MCHourCache      model-check one run
    tlapm HourCacheProofs.tla                      check the proofs of a module

`PROJECT.json` names, for every definition, the lines of code it stands for; for every property,
a bug in those lines that breaks it; and the hazards of the code, covered or not.

## 1. The system

| Component | State it keeps | Operations | Talks to |
|---|---|---|---|
| Hourly kline cache (`pkg/binance/live.go`, `kline_hourly.go`) | `day=D/current/hour_HH.parquet`; nothing in memory | `RefreshLastHour`, `LoadOrSealHour`, `SealHour`, `FetchAndCacheCurrentDay`, `ReadCachedCurrentDay` | REST client, wall clock; called by API, repair and store |
| AggTrades cache (`live.go`, `aggtrade.go`, `internal/store/duckdb.go`) | hour files of trades | `FetchAndCacheCurrentDayAggTrades`, `API.AggTrades`, `Store.GetAggTrades` | REST client, wall clock |
| Import of a past day (`bulk.go`, `source.go`, `data/parquet.go`, `etl/drain.go`) | `day=D/data.parquet`; channels between loader, writer, relay and caller | `DownloadAndTransform`, `DrainETL` | archive (S3); called by API and repair |
| Klines request (`internal/market/api.go`, `pkg/gapfill`, `pkg/integrity`, `internal/store`) | the semaphore of the `Repairer`, shared by all requests | load the range, audit, repair days in parallel, audit again, read | both kline caches above |
| Prediction cache (`pkg/polymarket` store, collector, poller; `internal/market/predictions.go`) | day and hour files per market and frame | `MergeDay`, `AppendHourly`, `EnsureRange`, the poller's tick | Polymarket clients, wall clock |
| Prediction rows (`pkg/polymarket/bulk.go`, `resample.go`; `internal/store/predictions.go`) | the same files | import of an export, `GetPredictions` | prediction cache |
| REST client and limiter (`client.go`, `limits.go`) | the used weight of the address | attempts, back-off, pauses before a request | everybody who fetches |
| Kline pages (`kline_fetch.go`, `marketdata/binance/load.go`) | none | `FetchKlinesAll`, `LoadCandles` | REST client; called by caches, trader, backtest |
| Terminal UI (`cmd/predictions`) | tab, flags, candles, viewport, requests and timers in flight | a message loop | prediction collector, REST client |
| Paper broker, backtest, trader (`pkg/paper`, `pkg/backtest`, `cmd/trader`) | cash, position, the day's starting equity | open, close, barriers, kill switch, one bar | candles |
| Labels and folds (`pkg/label`) | none | `LabelAt`, `PurgeEmbargo` | strategies |
| Symbol registry, bulk listing, ETL router and stubs | a singleton; none; two maps | lookups | - |
| Audit command (`pkg/integrity/run`, `cmd/audit`) | none | a read-only report | Parquet files |
| HTTP handler, query types | none | parse, call the API, write JSON | API |
| Polymarket clients | last call per host | fetch by slug, prices, history | prediction cache |
| Agents, strategies, features | none | floating-point functions of candles | backtest, trader |
| Server process (`cmd/fdp`) | the cancelled-or-not context | start, SIGTERM | all |

What is hard, and what makes each part correct:

* **Hourly kline cache.** Requests run concurrently with no lock; each reads a file, fetches, merges
  and renames a temporary file. The path is computed from the clock again and again, on the far side
  of an hour or of midnight perhaps, and a file stores only times of day. Correct means: a file
  never has a hole before a candle it holds, never holds another hour's candles; an hour handed out
  as complete is complete; an hour that is over stays complete once its refreshes have ended.
* **AggTrades cache.** No audit: whatever the file of a completed hour holds is taken for the hour.
  One answer of at most 1000 trades makes a file, the open hour's path and its window are computed by
  two looks at the clock. Correct means: what an answer lacks, it lacks at the end of an hour.
* **Import.** Four goroutines per import and unbuffered channels; a failing disk, a bad row, a
  caller that leaves, a crash at any moment; the file is written in place and two imports of a day
  may overlap. Correct means: success is reported only for a complete write, nobody waits for ever.
* **Klines request.** Partitions are fixed by the clock once, then repaired, audited and read under
  a moving clock beside other requests, whose imports and refreshes may take candles out of the files
  again. Correct means: an answer lacks no candle its audits vouch for but those, a request with a
  failed repair gets no answer, and all requests end.
* **Prediction cache and rows.** A poller and requests read, remove and rewrite the same files; the
  reader of a broken file waits for ever; a query is split at the start of today into two kinds of
  files; an operation on a file that fails returns an error, is dropped, or leaves the caller at a
  channel nobody reads. Correct means: rows once stored stay, the poller stops when told to and
  requests end, all of it unless an operation on the file failed or two merges of it overlapped; and
  what was imported comes back once and in order.
* **REST client.** The exchange counts a weight per minute, tells it with each answer, and refuses
  above a cap, with or without a body and a `Retry-After`. Correct means: the pauses keep one
  caller under the cap, every request ends, and an error that is returned can be printed.
* **Pages.** New candles open while a load runs; pages end anywhere. Correct means: each candle once.
* **Terminal.** Requests and timers answer with messages in any order and on any tab; answers do not
  say what they were asked for. Correct means: nothing is asked twice, no timer is lost, loading
  ends, the candles are those of the label above them, and the view stays where the user put it.
* **Paper account.** Two loops, one over closed candles and one over a candle that is still forming,
  call the same broker in a different order: decision, kill switch, barriers. Correct means: the
  fills explain the cash, which never gets below zero; the daily loss limit ends trading for the
  day; entries and exits happen on the candles they may happen on.
* **Labels and folds.** Correct means: no bar that is tested can have decided a label trained on.
* **The rest** is listed with its reasons in section 7 and in `PROJECT.json`.

## 2. Modules and their code

| Module | Models | State ↔ code |
|---|---|---|
| `HourCache` | the hourly kline cache | `file[path]` the Parquet files as maps time of day → row; `pc`, `job`, `loc`, `out` the position and the locals of each request; `now` the clock in candles. One action per part of a function between two accesses to shared state: `RefreshNow/Read/Fetch/Write/Audit`, `LoadRead/LoadAudit`, `SealFetch/Write/Audit`, `DayReread`, `CachedRead`, `Finish`; `Crash`, `Tick`. |
| `HourStore` | what the hourly cache promises | `file` only; a step puts one gap-free series of the hour in place of another |
| `TradeCache` | the aggTrades cache and its queries | `file[path]` the hour files as sets of trades; `now` the newest trade; `pc`, `job`, `buf`, `out` of each import or query. Import: `NextHour`, `Fetch`, `FetchFails`, `Write`; query: `Ask`, `Direct`, `ReadHistory`, `ReadHourly`; `Crash`, `Tick`. |
| `DayImport` | import of one past day | `load`, `writer`, `relay`, `caller` the goroutines of each import; `disk` the files with name (`path`) or without; `archive` what each CSV row is like |
| `CandleQuery` | `API.Candles` end to end | `query` the requests; `holders` the semaphore; `dayFile`, `hourFile` the partitions. `lost` is a ghost: what files lost from the targets of a request to its answer; `others` counts the steps of other requests. |
| `PredictionStore` | the prediction cache | `file` the day and hour files with who is writing them; `merge` the read-remove-create-write in progress; `job` a request's loop, the poller's captured time; ghosts: `merged` the rows of merges that succeeded, `failed` the files on which an operation failed, `met` those of which two merges overlapped |
| `RestClient` | `GetCast` and the limiter | `attempt`, `wait`, `lastBody`, `reply` the locals of the call; `used` the limiter; `weight`, `second` the exchange's minute. `Guard` is `waitIfHeavy`, `Send`/`Answer`/`LoseAnswer` the HTTP call, `Retry` the pause, `Cancel` the context |
| `Terminal` | the message loop of both tabs | `tab`, `fetching`, `market`, `frame`, `loading`, `failed`, `focused`, `dragging`, `restore` the fields of the two models; `fetches`, `asked`, `live` the requests in flight, `predTicks`, `chartTicks`, `dragTicks` the timers. One action per message: keys, clicks, wheel, timers, answers |
| `PaperTrading` | the paper broker under the backtest and the trader | `broker` is `Broker` with the sums of its fills; `clock` and `candle` the last candle the loop saw. One action per pass of a loop, in the order of its code: `Backtest` (engine.go, one candle), `TradeNewCandle` and `TradeSameCandle` (`runOnce` on a new candle, or on one that has moved on). `morning`, `reached`, `did` are ghosts. |
| `KlinePages` | the two loads page by page | functions from a growing market to a series |
| `ChartMath` | the chart's series and viewport | functions: sort and merge of live candles, pan, scroll, the kept view |
| `PredictionRows` | import of an export, split query | functions from exports and files to rows |
| `Sorting` | what the code's sorts and the queries' `ORDER BY` leave | the ascending sequence of a set |
| `Labels` | triple barrier labels, purged folds | functions over integer bars |
| `Algorithms` | `KlinePages`, `ChartMath`, `PredictionRows` and `Labels` against what they owe | one variable, `input`: a state is one input |
| `HourCacheProofs`, `TradeCacheProofs`, `DayImportProofs`, `CandleQueryProofs`, `PredictionStoreProofs`, `TerminalProofs`, `PaperTradingProofs` | the theorems about these modules | |
| `LibraryProofs` | the theorems about `RestClient` and `Algorithms`, the parts that keep no files | |
| other `MC...` | instances for TLC | |

How they compose. `CandleQuery` does not repeat the insides of the two kline caches: a fetch of the
current day and an import are one step with all their outcomes, and the shape of an hour file in it
(a first part of its hour) is exactly what `HourCacheProofs!NoGap` establishes; that an import
reporting success wrote the day is `OkImportWroteAll` of `DayImport`. What the caches do not promise it
does not assume: `OtherRequest` removes, breaks or rewrites a past day's file, as overlapping imports do
(parquet.go:50), and puts any first part of an hour in the place of its file, as a lost update or a failed
read does (live.go:326). An audit is one step; the code reads one file after the other, but what a file
loses meanwhile is in `lost` whether the audit would have seen it or not. From the day the targets
are built on, a later day counts as today (`data.IsToday`). A fetch in the caches is one
answered or failed load: that a load of several pages is one gap-free series is `PagesAreWhole` of
`Algorithms`, and that each of its requests ends is `RequestEnds` of `RestClient`. `Terminal` treats
the candles of a chart as labels; what a live update does to them is `TailIsMerged` of `Algorithms`.
`PredictionStore` has the files two writers share, `PredictionRows` the rows that come out of them.
`HourCache` is shown to implement the abstract specification `HourStore` (`Store == INSTANCE HourStore
WITH ..., file <- file`; run `hourcache_two`, theorem `ImplementsStore`): every change of a file is the
atomic replacement by a non-empty gap-free series.

What is abstracted, everywhere: volumes, wording, JSON. A candle is its open time, a trade its hour
and its place in it. A row in `HourCache` remembers as ghosts the day it was fetched for and whether
its candle had closed; a row in `PredictionStore` and `PredictionRows` is its time (frames share no
file). `PaperTrading` and `Labels` keep prices, since they are what these are about: what an agent
wants is any action, and money is counted in fixed point. Rates are fractions over `Scale` and amounts
are over `Scale` cubed, so that entries, exits, fees and slippage are exact; the code uses floats,
whose rounding is left out, and so is the division in `DailyLossPct`, which becomes a product on the
other side.

## 3. Runs

| Run | Expect | Question and answer |
|---|---|---|
| `hourcache_solo` | pass | One request at a time with every entry point, crashes and midnight. Reads, audits, fetches and writes may fail. An answer has its whole completed hours (`AnswerIsWhole`), rows are never from a later day, each request ends. |
| `hourcache_two` | pass | Two requests at once in hours of three candles: the refinement `StoreSpec`, and with it that no file has a hole or another hour's candles; a whole file of a completed hour stays whole once the refreshes that began in the hour have ended (`SettledForEver`). |
| `dayimport` | pass | Two imports, bad rows, disk failures, cancellation, a crash: success means a complete write (`OkImportWroteAll`), an undisturbed one leaves the day whole, nobody is stuck while someone waits. |
| `candlequery` | pass | A request with failures, a hole in the archive, a file that another request changes for the worse, disconnects and midnight: an answer lacks only what was taken out of a file meanwhile (`AnswerHasOwedCandles`), no answer after a failed repair, no repair of what is there (`NoNeedlessRepair`), the request ends (`QueryEnds`). |
| `predictions` | pass | The poller through midnight beside a request for yesterday and today, with failing operations on one file: what is stored stays, the poller stops and the request ends, unless the file is one of a failed operation or of overlapping merges: `MergeKeepsRows`, `PollerStops`, `RequestEnds`. |
| `papertrading` | pass | Both loops on every sequence of four candles from three prices: the books balance, no overdraft, flat for the rest of a day beyond the loss limit (`FlatAfterLoss`), no entry at the limit and no exit on the entry's candle in the backtest. |
| `terminal` | pass | A user and all timers and answers in any order: one table request at a time, a timer for the chart that is shown, candles of the label above them unless a change of it overtook a request (`ShownIsLabelled`), live updates asked for again and again (`ChartIsFollowed`), loading ends (`LoadingEnds`). |
| `terminal_refresh` | violation | The flag's "refresh interval" (main.go:59): a tick dropped on the charts tab has no successor, and the table is never refreshed again. |
| `restclient` | pass | One caller beside programs that use up most of the minute, every status, lost answers, cancellation: `WeightStaysUnderCap`, `LimitErrorHasBody`, `RequestEnds`. |
| `trades` | pass | One import or query at a time, more trades in an hour than a page holds, crashes, failures and midnight: `AnswerHasNoHoles`. |
| `trades_hour` | violation | The file "for the given hour" (model.go:334) gets the trades of the next one when the hour ends during the request, and is then taken for the complete hour. |
| `algorithms` | pass | Every bounded input: loads of a growing market have each candle once (`PagesAreWhole`); live updates after a drag keep series and view (`TailIsMerged`); imports and queries across midnight, and what a refused query would have had (`PredictionsComeBack`); labels and folds do not leak (`FoldsAreApart`). |

A "violation" run checks one property that states what a text of the repository says of the code.

Six more configurations show known disagreements and are run by hand; TLC finds each of these
properties violated:

| Configuration | Property | What it shows |
|---|---|---|
| `HourCacheLostUpdate.cfg` (`MCHourCache`) | `WholeStaysWhole` | Of two concurrent refreshes the older one renames last: a complete hour becomes incomplete (live.go:420 says otherwise). A single refresh does the same when its read fails (live.go:326 drops the error) and the exchange lags. |
| `HourCacheStaleRead.cfg` (`MCHourCache`) | `AnswerIsWhole` | The load audits a file other than the one it read (kline_hourly.go:97). |
| `HourCacheMidnight.cfg` (`MCHourCache`) | `CacheHoldsItsDay` | A request across midnight files yesterday's candles under today (model.go:307). |
| `DayImportRepair.cfg` (`MCDayImport`) | `RepairDownloads` | "Re-downloads" (repair.go:13) downloads nothing when a readable, short file exists. |
| `CandleQueryMissing.cfg` (`MCCandleQuery`) | `MissingIsBackfilled` | A missing partition stops the request instead of being backfilled (gapfill/doc.go:2). |
| `PredictionsToday.cfg` (`MCPredictionStore`) | `RunReturns` | Nothing fails, and yet a request reaching into today leaves the poller hanging on a half-written file (poller.go:46). |

`AnswerIsWhole` holds for one request and fails for two: `hourcache_solo` beside the second of these tells
that interleaving, and neither crashes nor midnight nor failed reads, is what breaks it.
`WholeStaysWhole` fails for one request already; `SettledForEver` is the part of it that holds.

### Bounds

* `HourCache`: days of 2 hours of 2 candles (3 in `hourcache_two`, the least number in which a
  file can have a hole), 2 days, 1 or 2 requests. The theorems have no bounds.
* `TradeCache`: 2 days of 2 hours, 3 trades an hour and 2 a page, so that a page can end before its
  hour does; one import or query at a time in `trades`, since the theorem covers any number. The
  violation run has 3 hours of one day.
* `DayImport`: 2 rows, so that a row can fail before, between and after good ones, and 2 imports,
  so that one can overlap, follow or truncate another. 3 would add a repetition of the same pairs.
* `CandleQuery`: two past days and one current day that may become a past one, hours of two candles; one
  request beside one change of a file by others (`MaxOthers`), of any day or hour and at any moment,
  before, between and after its own steps. `Parallel = 1` makes the shared semaphore tight with three days to repair. The ranges cover
  bounds inside a candle, a range that ends inside an hour, whole days, parts of today and, for the
  server of day 1, a day that is still to come. Requests are asked once. Ranges end within the calendar.
* `PredictionStore`: days of 2 hours of 1 window, a server started in the last hour of day 2 so that a
  tick, and a tick's two merges, cross midnight (`LastTime` ends the clock in the first hour of day 3). One
  request, from day 1, which only it writes, through day 2, whose file the poller writes as well. Operations
  on one file may fail (`MaxFailures`), any number of times and in any of the ways they can: a second file
  would add nothing to the first, since a merge works on one. The theorems have no bounds.
* `RestClient`: the real cap, margins, pauses and attempts. A request weighs 25, more than any the
  program makes, and others use up 5499 at the start of each minute, all that is below the first margin:
  the worst case of theorem `PausesKeepTheCap`, so that few requests reach every margin. An
  answer takes 0 or 1 seconds, `Retry-After` is missing or 20. At most one answer is lost a minute.
  A request of 30 beside others that use 5469 does pass the cap (6009 of 6000): the margins are made for
  small requests.
* `Terminal`: 1 market and 3 frames (a finest, a coarsest and one between, so that both ends of the
  ring and of the wheel occur; markets are a second ring), one timer of a kind and one request of a kind and
  label at a time. Requests of different labels still overtake each other. The theorems have no bounds.
* `PaperTrading`: prices 6, 10 and 14, so that a candle can hit one barrier, both or none and a fall
  passes the daily limit of a fifth; one quantity, which the initial cash affords at 6 and 10 and, after
  a gain, at 14; after a loss it covers the cost and not the fee; barriers near and far, the far
  stop below zero. Four passes (`LastPass`): an entry, a loss beyond the limit, a recovery and a new
  day follow one another. The theorems have no bounds.
* `Algorithms`: pages of 2 candles in a market that grows from at least 3 candles to at most 6, so that a load
  ends on a full, a short or an empty page and grows while it runs; series of up to 6 candles with every
  hole, cut at 4, every shift of a view of 2; two days of two windows, every order of import and query
  bounds; five bars (not a multiple of either number of folds) that touch either, both or no barrier.
* The clock stops at the end of `LastDay` in the caches, at `LastTime` in `PredictionStore` (the guard of
  `Tick`).

### Fairness

`HourCache` and `CandleQuery` assume weak fairness of the steps of a started request: goroutines are
scheduled, and HTTP calls end because the clients have timeouts (client.go:69). `RestClient` assumes
it of the steps of a request: sleeps end, and an answer or the client's timeout of thirty seconds comes.
Nothing is assumed of new requests, the clock, clients, cancellation or other requests.
`PredictionStore` assumes the same of the poller and the requests, and strong fairness of the poller's
return: `select` picks at random among ready channels, so ticks cannot keep it from `ctx.Done` for
ever. `Terminal` assumes it of the chart's timer, which the runtime fires, and of loads, which answer at the
latest with the error of their timeout; not of live updates or of the table, and not of the user.
`DayImport` states no liveness; its safety property `NobodyIsStuck` rules out a deadlock of an import's
goroutines. `TradeCache` states none.

`CHECK_DEADLOCK FALSE` is set for `DayImport` (its goroutines end), `CandleQuery` (its requests have
ended, the clock has stopped), `PredictionStore` (the server has stopped), `PaperTrading` (the candles of a backtest end) and `Algorithms` (an input has no
next state); the other systems never stop.

## 4. What is proved

`HourCacheProofs`, for any number of requests, days, hours per day (at least two) and candles per
hour (at least one), from the assumptions `CalendarAssumption` and `OpsAssumption` of `HourCache`:

| Theorem | Statement |
|---|---|
| `TypeCorrect` | `Spec => []TypeOK` |
| `HourRows` | `Spec => []HourRowsOnly`: a file only holds its own hour |
| `NoGap` | `Spec => []NoHourGap` |
| `NoLaterDay` | `Spec => []NoRowFromLaterDay` |
| `ImplementsStore` | `Spec => StoreSpec`: refinement of `HourStore` |
| `WholeAnswers` | `Alone => (Spec => []AnswerIsWhole)` |
| `SettledStays` | `Spec => SettledForEver`: the whole file of a completed hour stays whole once its refreshes have ended |

The first four invariants are not inductive: what a request is about to write depends on what it read
and when. `IInv` adds, besides types and the state of the files (`FilesOK`), what is in each
request's hands. `RefreshState`: between read and write, the path has the captured hour, its day is
not earlier than the captured one, and the candles held form a gap-free series of that hour with
no row later than the path's day. `LoadState`: the same for an hour that is being sealed, and
that a loop over the hours of a day only seals completed ones. The series lemmas (`ReadHour`,
`RefreshSeries`, `SealSeries`, `StoredSeries`) show that read, merge, filter and store keep such a
series; in `RefreshSeries` the crucial point is that a fetch resumes exactly at the last candle
held (`hourFetchStart`), or at the start when a candle before it is missing. There is one lemma per
action, and `NextIInv` puts them together. `StoreStep` shows that the two renames are `Put`
steps of `HourStore` and that no other action touches a file.

`Alone` says that `Procs` has one request at most, as in run `hourcache_solo`; for two, TLC finds
`AnswerIsWhole` violated (section 3). `RequestState` adds what one request knows when nobody else writes:
the candles a load holds are all of the hour when the file they were read from is whole (`BufState`), an
hour it loads is over, so that sealing gets all of it (`HourIsOver`, `SealCovers`), and the hours of the
loop that are behind it are in the answer (`LoopState`). Every step of a request keeps its own `RequestState`
whatever others do; only that no other request's step can spoil it needs `Alone` (`NextSolo`).

`SettledStays` needs no such assumption. What a seal knows does not depend on the files (`SealState`): its
hour was over before it began, so what it renames is the whole hour. A refresh renames a file of its
captured hour, in a day not before the captured one (`RefreshState`), and none that captures the hour
begins once the clock is past it (`NoNewRefresh`).

`TradeCacheProofs`, for any number of imports and queries at once, days, hours, trades per hour and
any size of a page, from the assumption of `TradeCache`:

| Theorem | Statement |
|---|---|
| `TypeCorrect` | `Spec => []TypeOK`, with the loop of an import within its hours |
| `NoHoles` | `Spec => []AnswerHasNoHoles` |

Answers are made of files and pages, so `IInv` adds that no file and nothing that is about to be
written has a hole. The point is `PageHasNoHole`: the first `Limit` trades of a window without holes have
none, because the trades in front of one of its trades are fewer still (a cardinality argument over
the finite set of trades). `WindowsHaveNoHole` shows that the three windows the code asks for have
none, the one that ends with the first instant of the next hour included. It follows that two imports at
once, which overwrite each other's files, cannot make a hole either: the run has one, the theorem any
number.

`DayImportProofs`, for any number of imports of a day and of rows, from the assumptions of `DayImport`:

| Theorem | Statement |
|---|---|
| `TypeCorrect` | `Spec => []TypeOK` |
| `OkWroteAll` | `Spec => []OkImportWroteAll` |
| `AloneLeavesTheDay` | `Spec => []AloneImportLeavesTheDay` |
| `NobodyStuck` | `Spec => []NobodyIsStuck` |

What a caller is told depends on where four goroutines are. `StagesOK` says how far they may be apart
(no writer before the loader has rows for it, none left when the loader has ended); `NothingLost` that, as
long as no error is on its way to the caller (`Reported`), the writer has had every row read so far but
the one in hand, none was bad, and it is done before the loader ends. A success therefore counts all
rows. `AloneOK` adds for an import that has met no other: while it writes, the path names its own
file, which nobody else has open, and every import that begins later finds it (`Harmless`).

`NobodyIsStuck` speaks of the guards of the goroutines' actions (`CallerRuns`, `RelayRuns`, `LoaderRuns`,
`WriterRuns`), since `ENABLED` is beyond the provers; TLC, asked by hand, finds `Runs(i)` equal to the
`ENABLED` of the actions in every state of run `dayimport`. With unbuffered channels it is enough that
nobody waits for one that is gone, and that is `AwakeOK`: rows are open exactly while the loader may still
put one, a writer that fails leaves the error that wakes the loader, and a loader that leaves an error behind
has met a bad row or a failed writer. `SendIsHeard` and `WriterIsThere` find the goroutine that can go on,
one for each place where the loader may stand.

`CandleQueryProofs`, for any number of requests, days, hours and candles, any ranges, any size of the
semaphore, with or without failures, from `SizeAssumption` and `RangeAssumption`:

| Theorem | Statement |
|---|---|
| `TypeCorrect` | `Spec => []TypeOK`, the bound of the semaphore included |
| `FailedMeansNoAnswer` | `Spec => []NoAnswerAfterFailedRepair` |
| `AnswersAreOwed` | `Spec => []AnswerHasOwedCandles` |
| `NothingIsRepaired` | `Spec => NoNeedlessRepair` |

`PlacesOK`: each holder of the semaphore is a day its request repairs, so a place is always given back and
the number of places never exceeds `Parallel`. For the answers the argument has two parts. An audit that finds
nothing that blocks a read vouches for every candle owed (`AuditVouches`, `LacksIsIssue`). What it has counted is
there until the read, or a step takes it out and it is noted in `lost` (`PresentStays`, `FilesChange`), through hours
and midnights that come between audit and read. `RequestOK` puts both into the invariant: from the last audit on
everything owed is present or lost. Without the exception the property fails: nothing keeps an import that found no
file before (bulk.go:112) from removing the one that is there by now.

`NothingIsRepaired` is the converse: when everything owed is in its file, no issue is reported
(`NothingToReport`), whatever else the files hold. The windows of the targets meet (`Neighbours`), a full window has
the expected count, by a bijection between its slots and their opening times (`OpensCount`), and an hour's file is a
run of candles from its start (`HourRowsRun`), so one that is short where it need not be full has no wrong step. The
property is limited to ranges that end by the midnight after the day the targets are built for, where the hours asked
of a later day are empty (`LaterIsEmpty`): behind it, hours of later days are looked for in the files of today.

`PredictionStoreProofs`, for any calendar, history, ranges, number of requests and failures, from the
assumptions of `PredictionStore`:

| Theorem | Statement |
|---|---|
| `TypeCorrect` | `Spec => []TypeOK` |
| `RowsAreKept` | `Spec => []MergeKeepsRows` |
| `HangsAreExplained` | `Spec => []HangsExplained` |
| `PastRequestsMeetNobody` | `OnePastRequest => (Spec => []NobodyMet)` |
| `PastRequestsKeepRows` | `OnePastRequest => (Spec => []RowsStay)` |
| `PastRequestsHangOnFailures` | `OnePastRequest => (Spec => []HangsFailed)` |

A file is read, removed and written again without a lock, and every one of these steps may fail. A failed
look at a whole file counts it as missing and drops its rows, a failed write leaves it empty or cut, and two
merges that overlap overwrite each other. `RowsAreKept` says that a stored row is lost in no other way, and
in no other file than that one. The invariant is about files that are `Clean`, on which nothing failed and no
merges met: a stored row is in the file (`InFile`) or in the hands of the one merge that has removed it
(`InMemory`, `OneWriter`), and two merges that are both past their reads have met (`OneMergePerFile`).

`HangsAreExplained` says the same of those who wait for ever, which the error paths of `ReadParquet` and
`WriteParquet` make possible: a file without footer is being written, or is not clean (`Settled`). It is the
safety half of `PollerStops` and `RequestEnds`.

When do merges not meet? `OnePastRequest` is one request, for days before the server's start. Then the
poller, which writes the days from the start on, and the request never have a path in common (`Apart`),
through every midnight. Several requests for one past day do overlap, and so does one that reaches into
today (run `predictions`).

`LibraryProofs` on `RestClient`; the first theorem for any limits, pauses and number of attempts, the second for the limits
of the code and any answers, latencies, `Retry-After` and attempts:

| Theorem | Statement |
|---|---|
| `ErrorIsPrintable` | `Spec => []LimitErrorHasBody` |
| `PausesKeepTheCap` | `CodeLimits /\ SmallRequests => (Spec => []WeightStaysUnderCap)` |

The error kept for the retries may lack the body that printing it reads. `IInv` adds that a request only
pauses while another attempt is left, so the kept error is never what the loop runs out with, and
`RefusalHasBody` that what the last attempt returns as a refusal has one.

`CodeLimits` are the numbers of limits.go; `SmallRequests` says that a request weighs at most 25 and that
others stay below the first margin (5500), without which no pause could help. That the weight is under
the cap is not inductive: it depends on how much of the minute is left. `InTime` says how late it must be for
a weight to be reached: a request a second from 5500, one in five seconds from 5800 and one in fifteen from
5950, which outlasts the minute. `WeightInv` states it for the weight, and for the weight with the request that
`waitIfHeavy` has let through; and that the limiter knows the weight, or the minute has just begun (`Known`).
`RoomForOneMore` is the step from the one to the other.

`TerminalProofs`, for any number of markets, frames, timers and requests in flight:

| Theorem | Statement |
|---|---|
| `TypeCorrect` | `Spec => []TypeOK` |
| `OneRequest` | `Spec => []OneTableRequest` |
| `ChartIsTimed` | `Spec => []ChartsTimerRuns` |
| `Labelled` | `Spec => []ShownIsLabelled` |

`ShownIsLabelled` speaks of a quiet chart only. `LabelOK` says what holds on the way there: as long as no
change of the label has overtaken a request, everything in flight is for the label, and the candles are of
it, or an error is shown, or a load is on its way that will replace them (`AskForKeeps`,
`KlinesAnswerKeeps`); a load that comes in alone for the label that is shown restores it.

`PaperTradingProofs`, for any prices, quantities, barriers, rates, limits and number of passes, from
the assumptions of `PaperTrading` (amounts are natural numbers, slippage and fee at most 100 %):

| Theorem | Statement |
|---|---|
| `TypeCorrect` | `Spec => []TypeOK` |
| `Books` | `Spec => []BooksBalance` |
| `NeverOverdrawn` | `Spec => []NoOverdraft` |
| `FlatOnceBeyond` | `Spec => []FlatAfterLoss` |
| `VetoPastLimit` | `Spec => NoEntryPastLimit` |
| `BarriersWaitABar` | `Spec => ExitAfterEntryBar` |

`FlatAfterLoss` is not inductive: a flat account could buy again. `IInv` adds that the broker's
day and starting equity are those of the clock (`DayOK`), and that an account that was beyond
the limit is so in cash alone. Then the price no longer matters: `LossReached` stays true for the
rest of the day, the risk agent holds, and no pass buys. That a kill at the mark leaves the account
beyond the limit is `SaleKeepsLoss`: slippage and fee make a sale bring no more than the position
counted for (`SaleLoses`), and less cash is not less beyond (`BeyondGrows`). For the overdraft the
point is `BarriersKeep`: a stop may be below zero (a wide ATR), but is then never hit, since a
candle's low is not. `Orderly`, the account in order, is kept by each operation of the broker
(`RollKeeps`, `CloseKeeps`, `BarriersKeep`, `EntryKeeps`); `BacktestKeeps` and `TraderKeeps` put
them together in the order of each loop.

The last two are action properties of the backtest. `BacktestPass` says what one pass does, in the order of its
code; for the barriers, `EntryOK` adds that a position is not younger than the last candle.

`LibraryProofs` on `Algorithms`, for any page length, number of pages, market, series, export, bars and
folds, and any values of the other constants, from the assumptions of the four modules and of `Algorithms`:

| Theorem | Statement |
|---|---|
| `PagesWhole` | `InputSpec => []PagesAreWhole` |
| `TailMerged` | `InputSpec => []TailIsMerged` |
| `PredictionsBack` | `InputSpec => []PredictionsComeBack` |
| `FoldsApart` | `InputSpec => []FoldsAreApart` |

The invariant (`InputOK`) only says what an input is; the work is in the algorithms. Theorems that take an
operator as a parameter cannot be instantiated by the provers here, so induction is done by hand: if a set of
counterexamples is not empty it has a least member (`Least`, from the well-foundedness of `<`), and that one is
refuted. `Repeated` is the same for definitions: a step from a set to itself can be taken any number of times,
which is why the recursive functions of the loads exist and are what their equations say (`FetchRuns`,
`LoadRuns`).

* *Pages.* `FetchInv` and `LoadInv` say what holds between two pages: the load has the candles from the first
  one on (`Reached`), it goes on with the one behind the last, and a load that is over owes nothing (`Paid`).
  `FetchPageStep` and `LoadPageStep` take them through a page that is full, short or empty, and `ServedIs`
  says what an answer is: an interval of candles, short only when the market has no more. That
  the last page is reached in time is `CandleAssumption` (`AllPages`).
* *Sorting.* `Ascending` is defined by rank. Ranks grow with the members (`RankGrows`) and leave none out
  (`RankIsTaken`), so it has every member at its place (`AscendingAt`), and a sequence of low ones followed by
  one of high ones is the sequence of both (`AscendingJoins`), which is the split of a query at today.
* *Series.* `PutKeeps` and `TrimKeeps` are the two halves of a merge: ascending stays ascending, gap-free
  stays gap-free, what goes is the oldest. `TurnedRound` is the sort of an answer that came newest
  first, `PanStays` the drag.
* *Predictions.* `FilesHaveAll`: what the daily files hold is what was polled and what the import let through
  (`ImportedIs`); `QueryIs` puts the two halves of the query together.
* *Folds.* `LabelLooksAhead`: a label depends on its bar and the bars ahead of it alone; `TrainedApart`: an
  embargo keeps them out of the test; `TestedOnce`: folds of equal length whose last takes the rest.

Only model-checked is liveness (`RequestEnds`, `QueryEnds`, `PollerStops`, `ChartIsFollowed`, `LoadingEnds`): it
rests on fairness and `ENABLED`, which the provers here do not reason about. Every other property of a passing
run is stated by a theorem.

## 5. What the models showed

* The predictions table stops refreshing after a look at the charts (`terminal_refresh`).
* The file of an hour of trades can hold those of the next hour, for good (`trades_hour`).
* By hand (section 3): the hour cache loses updates between concurrent refreshes and mixes days at
  midnight; a load may vouch for a file it did not read; a short day file is never re-downloaded, since
  existence counts as completeness; an audit turns a missing partition into an error, so its repair
  is never reached; a broken prediction file makes every reader wait for ever, and a write that ends
  early the one who writes.

Each finding in `PROJECT.json` quotes the text that disagrees with the code. Where the repository
promises nothing, what fails is listed as a hazard with a note: the trader, whose order of calls differs
from the backtest's, can enter again on a candle whose barrier took the account to the daily limit, and
a barrier can end a position on the candle that was forming when it was entered; rows backfilled into
today's daily file are not seen before midnight; a kept view may lie before every candle of a series
that a live update has cut.

## 6. Plan

What is left, in order of importance:

1. `PredictionStore`: a crash between removal and footer, with the abstract specification of a
   grow-only set of rows per file that it implements without crashes, failures and overlapping merges
   (`RowsAreKept` is the core of that proof).
2. `DayImport`: an abstract file that appears whole or not at all, which it implements only when imports of
   one day do not overlap.
3. `CandleQuery`: an abstract answer, refused or whole, that it implements.
4. `RestClient`: several requests at once; the used weight they share is read by all before the
   first answer, so the question is by how much the cap can be exceeded.

## 7. Not modelled, and why

* Of the broker: adding to a position (both loops buy only when flat) and shorts (nothing opens one);
  of the backtest: Sharpe ratio, drawdown, walk-forward reports.
* Of the aggTrades cache: `RefreshLastHourAggTrades` and `fetchAggTradesFromID` have no caller.
* Of the terminal: rendering, the price of the status line, zooming inside the chart library.
* Out of TLC's reach: floating-point features, strategies, metrics; DuckDB and the Parquet
  encoding (a file is readable when one writer wrote it to its footer).
* No state or no caller: handlers' parsing and JSON, row decoding, the audit command's report,
  `List`/`GetAssets`, the unregistered stubs, registry tables, fixtures, dashboards; the command of the
  bulk import, which passes its flags on.
* Optional stores of the import (`storeZIP`, `storeCSV`) are never enabled in the code.
* The Polymarket clients are HTTP and JSON; their unlocked throttle is a listed hazard.
