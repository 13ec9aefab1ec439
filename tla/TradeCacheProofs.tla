-------------------------- MODULE TradeCacheProofs --------------------------
(***************************************************************************)
(* Proofs about TradeCache, for any number of imports and queries, days,   *)
(* hours and trades per hour, and any size of a page: no answer has a hole *)
(* before a trade it holds.                                                *)
(***************************************************************************)
EXTENDS TradeCache, FiniteSetTheorems, TLAPS

\* What an answer o shows on day d, and that no day of it has a hole.
Shown(o, d) == {r.trade : r \in {x \in o : x.day = d}}
Whole(o)    == \A d \in Day : HasNoHole(Shown(o, d))

\* The answers are made of files and of trades fetched, so these have no holes either.
IInv ==
    /\ TypeOK
    /\ \A q \in Path : HasNoHole(file[q])
    /\ \A p \in Procs : HasNoHole(buf[p]) /\ Whole(out[p])

-----------------------------------------------------------------------------
(* Trades and their order.                                                  *)

\* What the constants are.
LEMMA Constants ==
    /\ LastDay \in Nat
    /\ HoursPerDay \in Nat /\ HoursPerDay > 0
    /\ SlotsPerHour \in Nat /\ SlotsPerHour > 0
    /\ Limit \in Nat
    /\ 0 \in Day /\ 0 \in Hour /\ 0 \in Slot
  BY TradeAssumption DEF Day, Hour, Slot

\* The parts of a trade's name.
LEMMA Names ==
    ASSUME NEW t \in Trade
    PROVE  /\ t = <<t[1], t[2], t[3]>>
           /\ t[1] \in Day /\ t[2] \in Hour /\ t[3] \in Slot
           /\ t[1] \in Nat /\ t[2] \in Nat /\ t[3] \in Nat
           /\ HourOf(t) \in Path
  BY Constants DEF Trade, Day, Hour, Slot, Path, HourOf

\* A trade of the same hour with a smaller slot comes before.
LEMMA Earlier ==
    ASSUME NEW t \in Trade, NEW s \in Slot, s < t[3]
    PROVE  /\ <<t[1], t[2], s>> \in Trade
           /\ HourOf(<<t[1], t[2], s>>) = HourOf(t)
           /\ Before(<<t[1], t[2], s>>, t)
  BY Names DEF Trade, HourOf, Before

\* The order of trades is transitive.
LEMMA BeforeTransitive ==
    ASSUME NEW a \in Trade, NEW b \in Trade, NEW c \in Trade, Before(a, b), Before(b, c)
    PROVE  Before(a, c)
<1>1. /\ a[1] \in Nat /\ a[2] \in Nat /\ a[3] \in Nat
      /\ b[1] \in Nat /\ b[2] \in Nat /\ b[3] \in Nat
      /\ c[1] \in Nat /\ c[2] \in Nat /\ c[3] \in Nat
  BY Names
<1> QED
  BY <1>1 DEF Before

\* There are finitely many trades.
LEMMA FiniteTrades == IsFiniteSet(Trade)
<1> DEFINE pairs == Day \X Hour
           nested == pairs \X Slot
           flat == [x \in nested |-> <<x[1][1], x[1][2], x[2]>>]
<1>1. IsFiniteSet(Day) /\ IsFiniteSet(Hour) /\ IsFiniteSet(Slot)
  <2>1. HoursPerDay - 1 \in Int /\ SlotsPerHour - 1 \in Int /\ LastDay \in Int /\ 0 \in Int
    BY Constants
  <2> QED
    BY <2>1, FS_Interval DEF Day, Hour, Slot
<1>2. IsFiniteSet(pairs)
  BY <1>1, FS_Product
<1>3. IsFiniteSet(nested)
  BY <1>1, <1>2, FS_Product
<1>4. flat \in Surjection(nested, Trade)
  <2>1. flat \in [nested -> Trade]
    BY DEF Trade
  <2>2. ASSUME NEW t \in Trade
        PROVE  \E x \in nested : flat[x] = t
    <3>1. <<<<t[1], t[2]>>, t[3]>> \in nested
      BY Names
    <3>2. flat[<<<<t[1], t[2]>>, t[3]>>] = <<t[1], t[2], t[3]>>
      BY <3>1
    <3> QED
      BY <3>1, <3>2, Names
  <2> QED
    BY <2>1, <2>2 DEF Surjection
<1> QED
  BY <1>3, <1>4, FS_Surjection

-----------------------------------------------------------------------------
(* Sets of trades without holes.                                            *)

\* Together, sets without holes have none.
LEMMA UnionHasNoHole ==
    ASSUME NEW S, \A T \in S : HasNoHole(T)
    PROVE  HasNoHole(UNION S)
  BY DEF HasNoHole

\* The same for two sets.
LEMMA BothHaveNoHole ==
    ASSUME NEW S, NEW T, HasNoHole(S), HasNoHole(T)
    PROVE  HasNoHole(S \cup T)
  BY DEF HasNoHole

\* A page has the trades of its window from the first one on: if the window has no
\* hole, the page has none.
LEMMA PageHasNoHole ==
    ASSUME NEW W \in SUBSET Trade, HasNoHole(W)
    PROVE  HasNoHole(FirstOf(W)) /\ FirstOf(W) \in SUBSET Trade
<1> SUFFICES ASSUME NEW t \in FirstOf(W), NEW s \in Slot, s < t[3]
             PROVE  <<t[1], t[2], s>> \in FirstOf(W)
  BY DEF HasNoHole, FirstOf
<1> DEFINE e == <<t[1], t[2], s>>
           ahead == {u \in W : Before(u, e)}
           behind == {u \in W : Before(u, t)}
<1>1. t \in W /\ t \in Trade /\ Cardinality(behind) < Limit
  BY DEF FirstOf
<1>2. e \in W /\ e \in Trade /\ Before(e, t)
  BY <1>1, Earlier DEF HasNoHole
<1> HIDE DEF e
<1>3. ahead \subseteq behind
  BY <1>1, <1>2, BeforeTransitive
<1>4. IsFiniteSet(behind)
  BY FiniteTrades, FS_Subset
<1>5. IsFiniteSet(ahead) /\ Cardinality(ahead) <= Cardinality(behind)
  BY <1>3, <1>4, FS_Subset
<1>6. Cardinality(ahead) \in Nat /\ Cardinality(behind) \in Nat
  BY <1>4, <1>5, FS_CardinalityType
<1>7. Cardinality(ahead) < Limit
  BY <1>1, <1>5, <1>6, Constants
<1> QED
  BY <1>2, <1>7 DEF FirstOf, e

\* What has happened of an hour has no hole, and neither has a window that ends with
\* the first instant of the next hour or one of whole days.
LEMMA HappenedBefore ==
    ASSUME now \in Trade, NEW t \in Happened, NEW s \in Slot, s < t[3]
    PROVE  <<t[1], t[2], s>> \in Happened
  BY Earlier, BeforeTransitive DEF Happened

\* So the windows that are asked for have no hole.
LEMMA WindowsHaveNoHole ==
    ASSUME now \in Trade, NEW d, NEW h, NEW days
    PROVE  /\ HasNoHole(AskedForCurrent) /\ AskedForCurrent \in SUBSET Trade
           /\ HasNoHole(AskedForHour(d, h)) /\ AskedForHour(d, h) \in SUBSET Trade
           /\ HasNoHole({t \in Happened : t[1] \in days})
           /\ {t \in Happened : t[1] \in days} \in SUBSET Trade
<1>1. ASSUME NEW t \in Happened, NEW s \in Slot, s < t[3]
      PROVE  /\ <<t[1], t[2], s>> \in Happened
             /\ HourOf(<<t[1], t[2], s>>) = HourOf(t)
             /\ <<t[1], t[2], s>>[1] = t[1]
             /\ t[3] # 0
  BY <1>1, HappenedBefore, Earlier, Names, Constants DEF Happened, Slot
<1>2. HasNoHole(AskedForCurrent)
  BY <1>1 DEF HasNoHole, AskedForCurrent
<1>3. HasNoHole(AskedForHour(d, h))
  <2> SUFFICES ASSUME NEW t \in AskedForHour(d, h), NEW s \in Slot, s < t[3]
               PROVE  <<t[1], t[2], s>> \in AskedForHour(d, h)
    BY DEF HasNoHole
  <2>1. t \in Happened /\ t[3] # 0
    BY <1>1 DEF AskedForHour
  <2>2. HourOf(t) = <<d, h>>
    BY <2>1 DEF AskedForHour
  <2> QED
    BY <1>1, <2>1, <2>2 DEF AskedForHour
<1>4. HasNoHole({t \in Happened : t[1] \in days})
  BY <1>1 DEF HasNoHole
<1> QED
  BY <1>2, <1>3, <1>4 DEF AskedForCurrent, AskedForHour, Happened

-----------------------------------------------------------------------------
(* Answers.                                                                 *)

\* An empty answer is whole.
LEMMA NothingIsWhole == Whole({}) /\ HasNoHole({})
  BY DEF Whole, Shown, HasNoHole

\* Two whole answers make a whole one.
LEMMA JoinedIsWhole ==
    ASSUME NEW o, NEW u, Whole(o), Whole(u)
    PROVE  Whole(o \cup u)
<1> SUFFICES ASSUME NEW d \in Day
             PROVE  HasNoHole(Shown(o \cup u, d))
  BY DEF Whole
<1>1. Shown(o \cup u, d) = Shown(o, d) \cup Shown(u, d)
  BY DEF Shown
<1>2. HasNoHole(Shown(o, d)) /\ HasNoHole(Shown(u, d))
  BY DEF Whole
<1>3. HasNoHole(Shown(o, d) \cup Shown(u, d))
  BY <1>2, BothHaveNoHole
<1> QED
  BY <1>1, <1>3

\* Trades of which none is missing are shown whole, on one day or on their own days.
LEMMA ShownIsWhole ==
    ASSUME NEW e \in Day, NEW S \in SUBSET Trade, HasNoHole(S)
    PROVE  /\ Whole(ShownOn(e, S))
           /\ ShownOn(e, S) \in SUBSET [day : Day, trade : Trade]
<1>1. ASSUME NEW d \in Day
      PROVE  HasNoHole(Shown(ShownOn(e, S), d))
  <2>1. CASE d = e
    <3>1. ASSUME NEW t \in S
          PROVE  t \in Shown(ShownOn(e, S), d)
      <4>1. [day |-> e, trade |-> t] \in {x \in ShownOn(e, S) : x.day = d}
        BY <2>1 DEF ShownOn
      <4>2. [day |-> e, trade |-> t].trade = t
        OBVIOUS
      <4> QED
        BY <4>1, <4>2 DEF Shown
    <3>2. Shown(ShownOn(e, S), d) \subseteq S
      BY DEF Shown, ShownOn
    <3>3. Shown(ShownOn(e, S), d) = S
      BY <3>1, <3>2
    <3> QED
      BY <3>3
  <2>2. CASE d # e
    <3>1. Shown(ShownOn(e, S), d) = {}
      BY <2>2 DEF Shown, ShownOn
    <3> QED
      BY <3>1, NothingIsWhole
  <2> QED
    BY <2>1, <2>2
<1>2. ShownOn(e, S) \in SUBSET [day : Day, trade : Trade]
  BY DEF ShownOn
<1> QED
  BY <1>1, <1>2 DEF Whole

\* The same for trades shown on their own days.
LEMMA FetchedIsWhole ==
    ASSUME NEW S \in SUBSET Trade, HasNoHole(S)
    PROVE  /\ Whole(AsFetched(S))
           /\ AsFetched(S) \in SUBSET [day : Day, trade : Trade]
<1>1. ASSUME NEW d \in Day
      PROVE  HasNoHole(Shown(AsFetched(S), d))
  <2>1. Shown(AsFetched(S), d) = {t \in S : t[1] = d}
    <3>1. ASSUME NEW t \in S, t[1] = d
          PROVE  t \in Shown(AsFetched(S), d)
      <4>1. [day |-> t[1], trade |-> t] \in {x \in AsFetched(S) : x.day = d}
        BY <3>1 DEF AsFetched
      <4>2. [day |-> t[1], trade |-> t].trade = t
        OBVIOUS
      <4> QED
        BY <4>1, <4>2 DEF Shown
    <3>2. ASSUME NEW t \in Shown(AsFetched(S), d)
          PROVE  t \in S /\ t[1] = d
      BY DEF Shown, AsFetched
    <3> QED
      BY <3>1, <3>2
  <2>2. HasNoHole({t \in S : t[1] = d})
    BY DEF HasNoHole
  <2> QED
    BY <2>1, <2>2
<1>2. AsFetched(S) \in SUBSET [day : Day, trade : Trade]
  BY Names DEF AsFetched
<1> QED
  BY <1>1, <1>2 DEF Whole

\* Whole days of trades, as the archive has them.
LEMMA DailyIsWhole ==
    ASSUME NEW from, NEW to, NEW days
    PROVE  /\ Whole(DailyRows(from, to, days))
           /\ DailyRows(from, to, days) \in SUBSET [day : Day, trade : Trade]
<1> DEFINE S == {t \in Trade : t[1] \in days \cap (from .. to)}
<1>1. HasNoHole(S)
  BY Earlier DEF HasNoHole
<1> QED
  BY <1>1, FetchedIsWhole DEF DailyRows

\* All files of the current day, each without a hole.
LEMMA HourlyIsWhole ==
    ASSUME TypeOK, \A q \in Path : HasNoHole(file[q]), NEW from, NEW to
    PROVE  /\ Whole(HourlyRows(from, to))
           /\ HourlyRows(from, to) \in SUBSET [day : Day, trade : Trade]
<1> DEFINE S == UNION {file[<<now[1], h>>] : h \in Hour}
<1>1. now[1] \in Day
  BY Names DEF TypeOK
<1>2. \A h \in Hour : file[<<now[1], h>>] \in SUBSET Trade /\ HasNoHole(file[<<now[1], h>>])
  BY <1>1 DEF TypeOK, Path
<1>3. HasNoHole(S) /\ S \in SUBSET Trade
  BY <1>2, UnionHasNoHole
<1> HIDE DEF S
<1>4. Whole(ShownOn(now[1], S)) /\ ShownOn(now[1], S) \in SUBSET [day : Day, trade : Trade]
  BY <1>1, <1>3, ShownIsWhole
<1> QED
  BY <1>4, NothingIsWhole DEF HourlyRows, S

-----------------------------------------------------------------------------
(* The actions.                                                             *)

\* What a job is made of.
Jobs == [from : Day, to : Day, mid : Day, cur : Hour, hour : Hour, path : Path]

\* What an idle process holds is a job.
LEMMA NoJobIsJob == NoJob \in Jobs /\ NoJob.hour <= NoJob.cur
  BY Constants DEF NoJob, Jobs, Path

\* What starts an import or a query is a job.
LEMMA NewJobs ==
    ASSUME NEW a \in Day, NEW b \in Day, NEW h \in Hour, NEW j \in Jobs, j.hour <= 0
    PROVE  LET import == [j EXCEPT !.mid = a, !.cur = h]
               ask    == [j EXCEPT !.from = a, !.to = b]
           IN /\ import \in Jobs /\ import.hour <= import.cur
              /\ ask \in Jobs /\ (j.hour <= j.cur => ask.hour <= ask.cur)
<1> DEFINE import == [j EXCEPT !.mid = a, !.cur = h]
           ask    == [j EXCEPT !.from = a, !.to = b]
<1>1. import \in Jobs /\ import.hour = j.hour /\ import.cur = h
  BY DEF Jobs
<1>2. ask \in Jobs /\ ask.hour = j.hour /\ ask.cur = j.cur
  BY DEF Jobs
<1>3. j.hour \in Nat /\ h \in Nat
  BY Constants DEF Jobs, Hour
<1> HIDE DEF import, ask
<1>4. import.hour <= import.cur
  BY <1>1, <1>3
<1> QED
  BY <1>1, <1>2, <1>4 DEF import, ask

\* The loop of an import stays within its hours.
LEMMA AdvanceKeeps ==
    ASSUME TypeOK, NEW p \in Procs, Advance(p)
    PROVE  /\ pc' \in [Procs -> {"idle", "hour", "fetch", "write", "imported",
                                 "direct", "history", "hourly", "answered", "failed"}]
           /\ job' \in [Procs -> Jobs]
           /\ \A q \in Procs : job'[q].hour <= job'[q].cur
<1> DEFINE last == job[p].hour = job[p].cur
           next == IF last THEN job[p].hour ELSE job[p].hour + 1
           new == [job[p] EXCEPT !.hour = next, !.path = <<0, 0>>]
<1>1. job[p] \in Jobs /\ job[p].hour <= job[p].cur
  BY DEF TypeOK, Jobs
<1>2. next \in Hour /\ next <= job[p].cur
  BY <1>1, Constants DEF Jobs, Hour
<1>3. new \in Jobs /\ new.hour = next /\ new.cur = job[p].cur
  BY <1>1, <1>2, Constants DEF Jobs, Path
<1>4. job' = [job EXCEPT ![p] = new]
  BY DEF Advance
<1> HIDE DEF new, next
<1>5. job' \in [Procs -> Jobs] /\ \A q \in Procs : job'[q].hour <= job'[q].cur
  BY <1>2, <1>3, <1>4 DEF TypeOK, Jobs
<1> QED
  BY <1>5 DEF Advance, TypeOK

\* In the beginning all files and answers are empty.
LEMMA InitIInv == Init => IInv
<1> SUFFICES ASSUME Init
             PROVE  IInv
  OBVIOUS
<1>1. <<0, 0, 0>> \in Trade
  BY Constants DEF Trade
<1>2. TypeOK
  BY <1>1, NoJobIsJob DEF Init, TypeOK, Jobs
<1> QED
  BY <1>2, NothingIsWhole DEF Init, IInv

\* An import starts with the hours it has to go through.
LEMMA StartImportKeeps ==
    ASSUME IInv, NEW p \in Procs, StartImport(p)
    PROVE  IInv'
<1> DEFINE new == [NoJob EXCEPT !.mid = now[1], !.cur = now[2]]
<1>1. now[1] \in Day /\ now[2] \in Hour
  BY Names DEF IInv, TypeOK
<1>2. new \in Jobs /\ new.hour <= new.cur
  <2>1. NoJob.hour <= 0
    BY DEF NoJob
  <2> QED
    BY <1>1, <2>1, NewJobs, NoJobIsJob
<1>3. TypeOK'
  BY <1>2 DEF StartImport, IInv, TypeOK, Jobs
<1> QED
  BY <1>3 DEF IInv, StartImport

\* A file that is there is passed over, its rows at most read.
LEMMA NextHourKeeps ==
    ASSUME IInv, NEW p \in Procs, NextHour(p)
    PROVE  IInv'
<1> DEFINE path == <<now[1], job[p].hour>>
<1>1. path \in Path /\ job[p] \in Jobs /\ job[p].mid \in Day
  BY Names DEF IInv, TypeOK, Path, Jobs
<1> HIDE DEF path
<1>2. CASE /\ out' = [out EXCEPT ![p] = @ \cup Cached(p, path)]
           /\ Advance(p)
  <2>1. Whole(Cached(p, path)) /\ Cached(p, path) \in SUBSET [day : Day, trade : Trade]
    BY <1>1, ShownIsWhole DEF Cached, IInv, TypeOK
  <2>2. TypeOK'
    BY <1>2, <2>1, AdvanceKeeps DEF NextHour, IInv, TypeOK, Jobs
  <2>3. \A q \in Procs : Whole(out'[q])
    BY <1>2, <2>1, JoinedIsWhole DEF IInv, TypeOK
  <2> QED
    BY <2>2, <2>3 DEF IInv, NextHour
<1>3. CASE /\ job' = [job EXCEPT ![p].path = path]
           /\ pc' = [pc EXCEPT ![p] = "fetch"]
           /\ UNCHANGED out
  <2>1. TypeOK'
    BY <1>1, <1>3 DEF NextHour, IInv, TypeOK, Jobs
  <2> QED
    BY <1>3, <2>1 DEF IInv, NextHour
<1> QED
  BY <1>2, <1>3 DEF NextHour, path

\* A fetch gets the first trades of a window without holes.
LEMMA FetchKeeps ==
    ASSUME IInv, NEW p \in Procs, Fetch(p)
    PROVE  IInv'
<1> DEFINE open == job[p].hour = job[p].cur
           got == FirstOf(IF open THEN AskedForCurrent
                                  ELSE AskedForHour(job[p].mid, job[p].hour))
<1>1. HasNoHole(got) /\ got \in SUBSET Trade
  <2>1. now \in Trade
    BY DEF IInv, TypeOK
  <2>2. CASE open
    <3>1. HasNoHole(AskedForCurrent) /\ AskedForCurrent \in SUBSET Trade
      BY <2>1, WindowsHaveNoHole
    <3> QED
      BY <2>2, <3>1, PageHasNoHole
  <2>3. CASE ~open
    <3> DEFINE W == AskedForHour(job[p].mid, job[p].hour)
    <3>1. HasNoHole(W) /\ W \in SUBSET Trade
      BY <2>1, WindowsHaveNoHole
    <3> HIDE DEF W
    <3>2. HasNoHole(FirstOf(W)) /\ FirstOf(W) \in SUBSET Trade
      BY <3>1, PageHasNoHole
    <3> QED
      BY <2>3, <3>2 DEF W
  <2> QED
    BY <2>2, <2>3
<1>2. /\ out' = [out EXCEPT ![p] = @ \cup AsFetched(got)]
      /\ \/ /\ buf' = [buf EXCEPT ![p] = got]
            /\ pc' = [pc EXCEPT ![p] = "write"]
            /\ UNCHANGED job
         \/ Advance(p) /\ UNCHANGED buf
      /\ UNCHANGED <<now, file>>
  BY DEF Fetch
<1> HIDE DEF got
<1>3. Whole(AsFetched(got)) /\ AsFetched(got) \in SUBSET [day : Day, trade : Trade]
  BY <1>1, FetchedIsWhole
<1>4. TypeOK'
  BY <1>1, <1>2, <1>3, AdvanceKeeps DEF IInv, TypeOK, Jobs
<1>5. \A q \in Procs : HasNoHole(buf'[q]) /\ Whole(out'[q])
  BY <1>1, <1>2, <1>3, JoinedIsWhole DEF IInv, TypeOK
<1> QED
  BY <1>2, <1>4, <1>5 DEF IInv

\* A failed fetch stores nothing.
LEMMA FetchFailsKeeps ==
    ASSUME IInv, NEW p \in Procs, FetchFails(p)
    PROVE  IInv'
<1>1. TypeOK'
  BY AdvanceKeeps DEF FetchFails, IInv, TypeOK, Jobs
<1> QED
  BY <1>1 DEF FetchFails, IInv

\* A file is replaced by what was fetched.
LEMMA WriteKeeps ==
    ASSUME IInv, NEW p \in Procs, Write(p)
    PROVE  IInv'
<1>1. job[p].path \in Path
  BY DEF IInv, TypeOK
<1>2. TypeOK'
  BY <1>1, AdvanceKeeps DEF Write, IInv, TypeOK, Jobs
<1>3. \A q \in Path : HasNoHole(file'[q])
  BY <1>1 DEF Write, IInv, TypeOK
<1>4. \A q \in Procs : HasNoHole(buf'[q]) /\ Whole(out'[q])
  BY NothingIsWhole DEF Write, IInv, TypeOK
<1> QED
  BY <1>2, <1>3, <1>4 DEF IInv

\* A query starts with an empty answer.
LEMMA AskKeeps ==
    ASSUME IInv, NEW p \in Procs, Ask(p)
    PROVE  IInv'
<1>1. PICK from \in Day, to \in Day :
        /\ job' = [job EXCEPT ![p] = [NoJob EXCEPT !.from = from, !.to = to]]
        /\ pc' = [pc EXCEPT ![p] = IF to = now[1] THEN "direct" ELSE "history"]
  BY DEF Ask
<1> DEFINE new == [NoJob EXCEPT !.from = from, !.to = to]
<1>2. new \in Jobs /\ new.hour <= new.cur
  <2>1. NoJob.hour <= 0
    BY DEF NoJob
  <2> QED
    BY <2>1, NewJobs, NoJobIsJob, Constants
<1>3. TypeOK'
  BY <1>1, <1>2 DEF Ask, IInv, TypeOK, Jobs
<1> QED
  BY <1>3 DEF Ask, IInv

\* The direct query adds the page it fetched.
LEMMA DirectKeeps ==
    ASSUME IInv, NEW p \in Procs, Direct(p)
    PROVE  IInv'
<1> DEFINE W == {t \in Happened : t[1] \in job[p].from .. job[p].to}
           got == FirstOf(W)
<1>1. HasNoHole(got) /\ got \in SUBSET Trade
  <2>1. now \in Trade
    BY DEF IInv, TypeOK
  <2>2. HasNoHole(W) /\ W \in SUBSET Trade
    BY <2>1, WindowsHaveNoHole
  <2> HIDE DEF W
  <2> QED
    BY <2>2, PageHasNoHole
<1>2. /\ \/ out' = [out EXCEPT ![p] = AsFetched(got)]
         \/ UNCHANGED out
      /\ \/ pc' = [pc EXCEPT ![p] = "answered"]
         \/ pc' = [pc EXCEPT ![p] = "failed"]
      /\ UNCHANGED <<now, file, job, buf>>
  BY DEF Direct
<1> HIDE DEF got
<1>3. Whole(AsFetched(got)) /\ AsFetched(got) \in SUBSET [day : Day, trade : Trade]
  BY <1>1, FetchedIsWhole
<1>4. TypeOK'
  BY <1>2, <1>3 DEF IInv, TypeOK
<1>5. \A q \in Procs : Whole(out'[q])
  BY <1>2, <1>3 DEF IInv, TypeOK
<1> QED
  BY <1>2, <1>4, <1>5 DEF IInv

\* Past days come whole from the archive.
LEMMA ReadHistoryKeeps ==
    ASSUME IInv, NEW p \in Procs, ReadHistory(p)
    PROVE  IInv'
<1>1. PICK days : out' = [out EXCEPT ![p] = DailyRows(job[p].from, job[p].to, days)]
  BY DEF ReadHistory
<1>2. TypeOK'
  BY <1>1, DailyIsWhole DEF ReadHistory, IInv, TypeOK
<1>3. \A q \in Procs : Whole(out'[q])
  BY <1>1, DailyIsWhole DEF IInv, TypeOK
<1> QED
  BY <1>2, <1>3 DEF ReadHistory, IInv

\* The current day comes from files without holes.
LEMMA ReadHourlyKeeps ==
    ASSUME IInv, NEW p \in Procs, ReadHourly(p)
    PROVE  IInv'
<1> DEFINE rows == HourlyRows(job[p].from, job[p].to)
<1>1. Whole(rows) /\ rows \in SUBSET [day : Day, trade : Trade]
  BY HourlyIsWhole DEF IInv
<1>2. /\ \/ out' = [out EXCEPT ![p] = @ \cup rows]
         \/ UNCHANGED out
      /\ \/ pc' = [pc EXCEPT ![p] = "answered"]
         \/ pc' = [pc EXCEPT ![p] = "failed"]
      /\ UNCHANGED <<now, file, job, buf>>
  BY DEF ReadHourly
<1> HIDE DEF rows
<1>3. TypeOK'
  BY <1>1, <1>2 DEF IInv, TypeOK
<1>4. \A q \in Procs : Whole(out'[q])
  BY <1>1, <1>2, JoinedIsWhole DEF IInv, TypeOK
<1> QED
  BY <1>2, <1>3, <1>4 DEF IInv

\* A finished process is idle again.
LEMMA FinishKeeps ==
    ASSUME IInv, NEW p \in Procs, Finish(p)
    PROVE  IInv'
<1>1. TypeOK'
  BY NoJobIsJob DEF Finish, IInv, TypeOK, Jobs
<1> QED
  BY <1>1, NothingIsWhole DEF Finish, IInv, TypeOK

\* A crash loses what was held in memory.
LEMMA CrashKeeps ==
    ASSUME IInv, Crash
    PROVE  IInv'
<1>1. TypeOK'
  BY NoJobIsJob DEF Crash, IInv, TypeOK, Jobs
<1> QED
  BY <1>1, NothingIsWhole DEF Crash, IInv

-----------------------------------------------------------------------------
(* The theorems.                                                            *)

\* The clock only goes on within the days.
LEMMA TickKeeps ==
    ASSUME IInv, Tick
    PROVE  IInv'
<1>1. now' \in Trade
  BY DEF Tick
<1>2. TypeOK'
  BY <1>1 DEF Tick, IInv, TypeOK
<1> QED
  BY <1>2 DEF Tick, IInv

\* Every step keeps the invariant.
LEMMA NextIInv == IInv /\ [Next]_vars => IInv'
<1> SUFFICES ASSUME IInv, [Next]_vars
             PROVE  IInv'
  OBVIOUS
<1>1. CASE UNCHANGED vars
  BY <1>1 DEF vars, IInv, TypeOK
<1>2. ASSUME NEW p \in Procs, StartImport(p) \/ Ask(p) \/ Step(p)
      PROVE  IInv'
  BY <1>2, StartImportKeeps, AskKeeps, NextHourKeeps, FetchKeeps, FetchFailsKeeps, WriteKeeps,
     DirectKeeps, ReadHistoryKeeps, ReadHourlyKeeps, FinishKeeps DEF Step
<1>3. CASE Crash
  BY <1>3, CrashKeeps
<1>4. CASE Tick
  BY <1>4, TickKeeps
<1> QED
  BY <1>1, <1>2, <1>3, <1>4 DEF Next

\* So it holds in every state.
LEMMA Invariance == Spec => []IInv
  BY InitIInv, NextIInv, PTL DEF Spec

\* Imports and queries keep the types of what they work on, and no import leaves the
\* hours of the day it began on.
THEOREM TypeCorrect == Spec => []TypeOK
<1>1. IInv => TypeOK
  BY DEF IInv
<1> QED
  BY <1>1, Invariance, PTL

\* However many imports and queries run at once, whatever fails and whenever the server
\* is restarted or a day ends: an answer lacks trades at the end of an hour only.
THEOREM NoHoles == Spec => []AnswerHasNoHoles
<1>1. IInv => AnswerHasNoHoles
  BY DEF IInv, Whole, Shown, AnswerHasNoHoles
<1> QED
  BY <1>1, Invariance, PTL
=============================================================================
