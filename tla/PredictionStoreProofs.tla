------------------------ MODULE PredictionStoreProofs ------------------------
(***************************************************************************)
(* Proofs about PredictionStore, for any requests, ranges, history,        *)
(* calendar and failures.  Nothing ever locks a file, but no merge loses a *)
(* row of a file, and nobody waits for ever at one, unless an operation on *)
(* it has failed or two merges of it have overlapped.  They do not overlap *)
(* when there is one request, for days before the server's start.          *)
(***************************************************************************)
EXTENDS PredictionStore, TLAPS

Files  == [state : {"none", "partial", "mixed", "whole"}, rows : SUBSET Time, by : SUBSET Actors]
Merges == [path : Path, add : SUBSET Time, buf : SUBSET Time]
Jobs   == [from : Nat, to : Nat, day : Nat, at : Time]

\* The types of all variables; a day whose rows are fetched is one of the calendar.
Typed ==
    /\ now \in Time
    /\ file \in [Path -> Files]
    /\ pc \in [Actors -> Labels]
    /\ merge \in [Actors -> Merges]
    /\ job \in [Actors -> Jobs]
    /\ merged \in SUBSET (Path \X Time)
    /\ failed \in SUBSET Path
    /\ met \in SUBSET Path
    /\ \A r \in Requests : pc[r] = "fetch" => job[r].day \in Day

-----------------------------------------------------------------------------
(* The calendar.                                                            *)

\* The calendar has days and windows.
LEMMA Calendar ==
    /\ HoursPerDay \in Nat /\ HoursPerDay > 0
    /\ HourLength \in Nat /\ HourLength > 0
    /\ DayLength \in Nat /\ DayLength > 0
    /\ LastTime \in Nat
<1>1. HoursPerDay \in Nat /\ HoursPerDay > 0 /\ HourLength \in Nat /\ HourLength > 0 /\ LastTime \in Nat
  BY SizeAssumption
<1>2. \A a, b \in Nat : a > 0 /\ b > 0 => a * b \in Nat /\ a * b > 0
  OBVIOUS
<1> QED
  BY <1>1, <1>2 DEF DayLength

\* The quotient of a number below k * d is below k ...
LEMMA DivBelow ==
    ASSUME NEW n \in Nat, NEW d \in Nat, d > 0, NEW k \in Nat, n < k * d
    PROVE  n \div d < k
  OBVIOUS

\* ... and quotients grow with the number.
LEMMA DivGrows ==
    ASSUME NEW m \in Nat, NEW n \in Nat, NEW d \in Nat, d > 0, m <= n
    PROVE  m \div d <= n \div d
  OBVIOUS

\* Quotients and remainders are natural numbers.
LEMMA DivNat ==
    ASSUME NEW n \in Nat, NEW d \in Nat, d > 0
    PROVE  n \div d \in Nat /\ n % d \in Nat /\ n % d < d
<1>1. n \div d \in Nat
  OBVIOUS
<1>2. n % d \in Nat /\ n % d < d
  OBVIOUS
<1> QED
  BY <1>1, <1>2

\* An instant is in a day of the calendar and in an hour of it.
LEMMA TimeParts ==
    ASSUME NEW t \in Time
    PROVE  t \in Nat /\ DayOf(t) \in Day /\ HourIn(t) \in 0..HoursPerDay
<1>1. t \in Nat /\ t <= LastTime
  BY Calendar DEF Time
<1>2. /\ t \div DayLength \in Nat /\ LastTime \div DayLength \in Nat
      /\ t \div DayLength <= LastTime \div DayLength
  BY <1>1, Calendar, DivGrows, DivNat
<1>3. t % DayLength \in Nat /\ t % DayLength < HoursPerDay * HourLength
  <2>1. t % DayLength \in Nat /\ t % DayLength < DayLength
    BY <1>1, Calendar, DivNat
  <2> QED
    BY <2>1 DEF DayLength
<1>4. (t % DayLength) \div HourLength \in Nat /\ (t % DayLength) \div HourLength < HoursPerDay
  BY <1>3, Calendar, DivBelow, DivNat
<1> QED
  BY <1>1, <1>2, <1>4, Calendar DEF DayOf, HourIn, Day

\* The paths of days and hours.
LEMMA Paths ==
    /\ \A d \in Day : DayPath(d) \in Path /\ DayPath(d).day = d
    /\ \A d \in Day, h \in 0..HoursPerDay : HourPath(d, h) \in Path /\ HourPath(d, h).day = d
    /\ 0 \in Day /\ 0 \in Time
<1>1. 0 \in Time
  BY Calendar DEF Time
<1>2. DayOf(LastTime) \in Nat
  BY Calendar, DivNat DEF DayOf
<1>3. HoursPerDay \in 0..HoursPerDay /\ 0 \in Day
  BY <1>2, Calendar DEF Day
<1> QED
  BY <1>1, <1>3 DEF DayPath, HourPath, Path

-----------------------------------------------------------------------------
(* Types.                                                                   *)

\* A step that moves actor a to a label, and leaves the others where they are.
Moves(a, l) ==
    /\ pc' \in [Actors -> Labels]
    /\ pc'[a] = l
    /\ \A b \in Actors \ {a} : pc'[b] = pc[b]

\* A step of a that changes its merge, its job, or neither of another.
MergeMoves(a) ==
    /\ merge' \in [Actors -> Merges]
    /\ \A b \in Actors \ {a} : merge'[b] = merge[b]

\* A step to a label.
LEMMA GotoIs ==
    ASSUME pc \in [Actors -> Labels], NEW a \in Actors, NEW l \in Labels, Goto(a, l)
    PROVE  Moves(a, l)
  BY DEF Goto, Moves

\* The end of one, with an error or without.
LEMMA ReturnIs ==
    ASSUME Typed, NEW a \in Actors, NEW l \in Labels, Return(a, l)
    PROVE  Moves(a, l) /\ MergeMoves(a) /\ merge'[a] = NoMerge
<1>1. NoMerge \in Merges
  BY Paths DEF NoMerge, Merges
<1>2. Moves(a, l)
  BY GotoIs DEF Return, Typed
<1> QED
  BY <1>1, <1>2 DEF Return, MergeMoves, Typed

\* The beginning of a merge.
LEMMA StartIs ==
    ASSUME pc \in [Actors -> Labels], merge \in [Actors -> Merges], NEW a \in Actors,
           NEW p \in Path, NEW rows \in SUBSET Time, StartMerge(a, p, rows, "read")
    PROVE  /\ Moves(a, "read") /\ MergeMoves(a)
           /\ merge'[a].path = p /\ merge'[a].add = rows
<1>1. [path |-> p, add |-> rows, buf |-> {}] \in Merges
  BY DEF Merges
<1>2. Moves(a, "read")
  BY GotoIs DEF StartMerge, Labels
<1> QED
  BY <1>1, <1>2 DEF StartMerge, MergeMoves

\* A file a writer has left ...
LEMMA LeftIs ==
    ASSUME NEW f \in Files, NEW a
    PROVE  /\ Left(a, f) \in Files
           /\ Left(a, f).state = f.state /\ Left(a, f).rows = f.rows /\ Left(a, f).by = f.by \ {a}
<1>1. f.by \ {a} \in SUBSET Actors
  BY DEF Files
<1> QED
  BY <1>1 DEF Left, Files

\* ... or ended.
LEMMA WholeIs ==
    ASSUME NEW f \in Files, NEW a \in Actors, merge \in [Actors -> Merges]
    PROVE  /\ Whole(a, f) \in Files
           /\ Whole(a, f).state = "whole" /\ Whole(a, f).rows = merge[a].buf
           /\ Whole(a, f).by = f.by \ {a}
<1>1. merge[a].buf \in SUBSET Time
  BY DEF Merges
<1>2. Left(a, f) \in Files /\ Left(a, f).by = f.by \ {a}
  BY LeftIs
<1> HIDE DEF Left
<1> QED
  BY <1>1, <1>2 DEF Whole, Files

\* What the poller does to the types.
LEMMA PollerTypes ==
    ASSUME Typed, Poll \/ PollerReturns \/ PollHour \/ PollDay \/ DirFails
    PROVE  Typed'
<1>0. Poller \in Actors /\ \A r \in Requests : r \in Actors \ {Poller}
  BY ActorAssumption DEF Actors
<1>1. CASE Poll
  <2>1. Moves(Poller, "fetched")
    BY <1>0, <1>1, GotoIs DEF Poll, Typed, Labels
  <2>2. job' \in [Actors -> Jobs] /\ \A r \in Requests : job'[r] = job[r]
    BY <1>0, <1>1 DEF Poll, Typed, Jobs
  <2> QED
    BY <1>0, <1>1, <2>1, <2>2 DEF Poll, Typed, Moves
<1>2. CASE PollerReturns
  <2>1. Moves(Poller, "returned")
    BY <1>0, <1>2, GotoIs DEF PollerReturns, Typed, Labels
  <2> QED
    BY <1>0, <1>2, <2>1 DEF PollerReturns, Typed, Moves
<1>3. CASE PollHour
  <2>1. job[Poller].at \in Time /\ now \in Time
    BY <1>0 DEF Typed, Jobs
  <2>2. HourPath(DayOf(now), HourIn(job[Poller].at)) \in Path /\ {job[Poller].at} \in SUBSET Time
    BY <2>1, TimeParts, Paths
  <2>3. Moves(Poller, "read") /\ MergeMoves(Poller)
    BY <1>0, <1>3, <2>2, StartIs DEF PollHour, Typed
  <2> QED
    BY <1>0, <1>3, <2>3 DEF PollHour, Typed, Moves, MergeMoves
<1>4. CASE PollDay
  <2>1. job[Poller].at \in Time
    BY <1>0 DEF Typed, Jobs
  <2>2. DayPath(DayOf(job[Poller].at)) \in Path /\ {job[Poller].at} \in SUBSET Time
    BY <2>1, TimeParts, Paths
  <2>3. Moves(Poller, "read") /\ MergeMoves(Poller)
    BY <1>0, <1>4, <2>2, StartIs DEF PollDay, Typed
  <2> QED
    BY <1>0, <1>4, <2>3 DEF PollDay, Typed, Moves, MergeMoves
<1>5. CASE DirFails
  <2>1. Moves(Poller, "wait") /\ MergeMoves(Poller)
    BY <1>0, <1>5, ReturnIs DEF DirFails, Labels
  <2> QED
    BY <1>0, <1>5, <2>1 DEF DirFails, Typed, Moves, MergeMoves
<1> QED
  BY <1>1, <1>2, <1>3, <1>4, <1>5

\* The days a request loops over while there are windows of its range in them.
LEMMA WindowDay ==
    ASSUME NEW r \in Requests, Windows(r) # {}
    PROVE  job[r].day \in Day
<1>1. PICK w \in Time : DayOf(w) = job[r].day
  BY DEF Windows
<1> QED
  BY <1>1, TimeParts

\* What a request does to the types.
LEMMA RequestTypes ==
    ASSUME Typed, NEW r \in Requests, Arrive(r) \/ CheckDay(r) \/ FetchDay(r) \/ NextDay(r) \/ Answer(r)
    PROVE  Typed'
<1>0. r \in Actors /\ Requests \subseteq Actors
  BY DEF Actors
<1>1. CASE Arrive(r)
  <2>1. Moves(r, "check")
    BY <1>0, <1>1, GotoIs DEF Arrive, Typed, Labels
  <2>2. PICK x \in Ranges :
            job' = [job EXCEPT ![r] = [NoJob EXCEPT !.from = x[1], !.to = x[2], !.day = DayOf(x[1])]]
    BY <1>1 DEF Arrive
  <2>3. x[1] \in Nat /\ x[2] \in Nat /\ DayOf(x[1]) \in Nat
    BY RangeAssumption, Calendar, DivNat DEF DayOf
  <2> DEFINE d == DayOf(x[1])
             j == [NoJob EXCEPT !.from = x[1], !.to = x[2], !.day = d]
  <2>4. j \in Jobs
    <3> HIDE DEF d
    <3>1. d \in Nat
      BY <2>3 DEF d
    <3> QED
      BY <2>3, <3>1, Paths DEF NoJob, Jobs
  <2> HIDE DEF d
  <2>5. job' \in [Actors -> Jobs] /\ \A q \in Requests \ {r} : job'[q] = job[q]
    <3> HIDE DEF j
    <3>1. job' = [job EXCEPT ![r] = j]
      BY <2>2 DEF j, d
    <3> QED
      BY <1>0, <2>4, <3>1 DEF Typed
  <2> QED
    BY <1>0, <1>1, <2>1, <2>5 DEF Arrive, Typed, Moves
<1>2. CASE CheckDay(r)
  <2>1. PICK l \in {"answer", "loop", "fetch"} : Goto(r, l) /\ (l = "fetch" => Windows(r) # {})
    BY <1>2 DEF CheckDay
  <2>2. Moves(r, l)
    BY <1>0, <2>1, GotoIs DEF Typed, Labels
  <2>3. l = "fetch" => job[r].day \in Day
    BY <2>1, WindowDay
  <2>4. failed' \in SUBSET Path
    <3>1. failed' = failed \/ (Windows(r) # {} /\ failed' = failed \cup {DayPath(job[r].day)})
      BY <1>2 DEF CheckDay, Fails
    <3> QED
      BY <3>1, WindowDay, Paths DEF Typed
  <2> QED
    BY <1>0, <1>2, <2>2, <2>3, <2>4 DEF CheckDay, Typed, Moves
<1>3. CASE FetchDay(r)
  <2>1. CASE Goto(r, "loop") /\ UNCHANGED merge
    <3>1. Moves(r, "loop")
      BY <1>0, <2>1, GotoIs DEF Typed, Labels
    <3> QED
      BY <1>0, <1>3, <2>1, <3>1 DEF FetchDay, Typed, Moves
  <2>2. ASSUME NEW live \in SUBSET {now}, StartMerge(r, DayPath(job[r].day), (Windows(r) \cap History) \cup live, "read")
        PROVE  Typed'
    <3>1. DayPath(job[r].day) \in Path
      BY <1>3, Paths DEF FetchDay, Typed
    <3>2. (Windows(r) \cap History) \cup live \in SUBSET Time
      BY DEF Typed, Windows
    <3>3. Moves(r, "read") /\ MergeMoves(r)
      BY <1>0, <2>2, <3>1, <3>2, StartIs DEF Typed
    <3> QED
      BY <1>0, <1>3, <3>3 DEF FetchDay, Typed, Moves, MergeMoves
  <2> QED
    BY <1>3, <2>1, <2>2 DEF FetchDay
<1>4. CASE NextDay(r)
  <2>1. Moves(r, "check")
    BY <1>0, <1>4, GotoIs DEF NextDay, Typed, Labels
  <2>2. job' \in [Actors -> Jobs] /\ \A q \in Requests \ {r} : job'[q] = job[q]
    BY <1>0, <1>4 DEF NextDay, Typed, Jobs
  <2> QED
    BY <1>0, <1>4, <2>1, <2>2 DEF NextDay, Typed, Moves
<1>5. CASE Answer(r)
  <2>1. Moves(r, "answered")
    BY <1>0, <1>5, GotoIs DEF Answer, Typed, Labels
  <2>2. NoJob \in Jobs
    BY Paths DEF NoJob, Jobs
  <2>3. job' \in [Actors -> Jobs]
    BY <1>0, <1>5, <2>2 DEF Answer, Typed
  <2> QED
    BY <1>0, <1>5, <2>1, <2>3 DEF Answer, Typed, Moves
<1> QED
  BY <1>1, <1>2, <1>3, <1>4, <1>5

\* The file of a's merge becomes f, the others stay.
FileIs(a, f) ==
    /\ file' \in [Path -> Files]
    /\ file'[merge[a].path] = f
    /\ \A p \in Path \ {merge[a].path} : file'[p] = file[p]

\* A read: the actor goes on with the rows of the file and its own, or hangs.
LEMMA ReadIs ==
    ASSUME Typed, NEW a \in Actors, MergeRead(a)
    PROVE  LET here == file[merge[a].path]
           IN  /\ pc[a] = "read" /\ UNCHANGED <<now, file, job, merged>> /\ MergeMoves(a)
               /\ merge'[a].path = merge[a].path /\ merge'[a].add = merge[a].add
               /\ failed' = failed \/ failed' = failed \cup {merge[a].path}
               /\ NoteMeeting(a)
               /\ \/ /\ Moves(a, "remove")
                     /\ \/ merge[a].path \in failed'
                        \/ merge'[a].buf = here.rows \cup merge[a].add
                  \/ /\ Moves(a, "hung")
                     /\ \/ merge[a].path \in failed'
                        \/ here.state \in {"partial", "mixed"}
                        \/ Meets(a)
<1> DEFINE here == file[merge[a].path]
<1>1. merge[a] \in Merges /\ here \in Files
  BY DEF Typed, Merges
<1>2. ASSUME Hangs(a)
      PROVE  Moves(a, "hung") /\ merge' = merge
  BY <1>2, GotoIs DEF Hangs, Typed, Labels
<1>3. ASSUME NEW rows \in {here.rows, {}}, Reads(a, rows)
      PROVE  /\ Moves(a, "remove") /\ MergeMoves(a)
             /\ merge'[a].path = merge[a].path /\ merge'[a].add = merge[a].add
             /\ merge'[a].buf = rows \cup merge[a].add
  <2>1. Moves(a, "remove")
    BY <1>3, GotoIs DEF Reads, Typed, Labels
  <2> DEFINE b == rows \cup merge[a].add
  <2>2. b \in SUBSET Time /\ merge' = [merge EXCEPT ![a].buf = b]
    BY <1>1, <1>3 DEF Reads, Kept, Merges, Files
  <2> HIDE DEF b
  <2>3. MergeMoves(a) /\ merge'[a].path = merge[a].path /\ merge'[a].add = merge[a].add /\ merge'[a].buf = b
    BY <2>2 DEF MergeMoves, Merges, Typed
  <2> QED
    BY <2>1, <2>3 DEF b
<1>4. UNCHANGED merge => MergeMoves(a)
  BY DEF MergeMoves, Typed
<1>5. pc[a] = "read" /\ UNCHANGED <<now, file, job, merged>> /\ NoteMeeting(a)
  BY DEF MergeRead
<1>6. CASE Reads(a, here.rows) /\ UNCHANGED failed
  BY <1>3, <1>5, <1>6
<1>7. CASE (here.state \in {"partial", "mixed"} \/ Meets(a)) /\ Hangs(a) /\ UNCHANGED failed
  BY <1>2, <1>4, <1>5, <1>7
<1>8. CASE (Reads(a, {}) \/ Hangs(a)) /\ Fails(merge[a].path)
  BY <1>2, <1>3, <1>4, <1>5, <1>8 DEF Fails
<1> QED
  BY <1>6, <1>7, <1>8 DEF MergeRead

\* A removal, or one that fails.
LEMMA RemoveIs ==
    ASSUME Typed, NEW a \in Actors, MergeRemove(a)
    PROVE  /\ pc[a] = "remove" /\ UNCHANGED <<now, merge, job, merged, met>> /\ Moves(a, "create")
           /\ \/ FileIs(a, None) /\ failed' = failed
              \/ FileIs(a, file[merge[a].path]) /\ failed' = failed \cup {merge[a].path}
<1>1. None \in Files /\ merge[a].path \in Path
  BY DEF None, Files, Typed, Merges
<1>2. Moves(a, "create")
  BY GotoIs DEF MergeRemove, Typed, Labels
<1> QED
  BY <1>1, <1>2 DEF MergeRemove, Fails, FileIs, Typed

\* A file that was created.
LEMMA CreatedIs ==
    ASSUME NEW f \in Files, NEW a \in Actors
    PROVE  Created(a, f) \in Files
  BY DEF Created, Files

\* A creation.
LEMMA CreateIs ==
    ASSUME Typed, NEW a \in Actors, MergeCreate(a)
    PROVE  /\ pc[a] = "create" /\ UNCHANGED <<now, merge, job, merged, failed, met>> /\ Moves(a, "write")
           /\ FileIs(a, Created(a, file[merge[a].path]))
<1>1. file[merge[a].path] \in Files /\ merge[a].path \in Path
  BY DEF Typed, Merges
<1>2. Created(a, file[merge[a].path]) \in Files
  BY <1>1, CreatedIs
<1>3. file' = [file EXCEPT ![merge[a].path] = Created(a, file[merge[a].path])]
  BY DEF MergeCreate
<1>4. FileIs(a, Created(a, file[merge[a].path]))
  BY <1>1, <1>2, <1>3 DEF FileIs, Typed
<1>5. Moves(a, "write")
  BY GotoIs DEF MergeCreate, Typed, Labels
<1> QED
  BY <1>4, <1>5 DEF MergeCreate

\* The files a close may leave.
LEMMA ClosedIs ==
    ASSUME Typed, NEW a \in Actors, NEW f \in Closed(a, file[merge[a].path])
    PROVE  f \in Files
<1>1. file[merge[a].path] \in Files /\ merge[a] \in Merges
  BY DEF Typed, Merges
<1> QED
  BY <1>1, LeftIs, WholeIs DEF Closed, Typed

\* A close.
LEMMA CloseIs ==
    ASSUME Typed, NEW a \in Actors, MergeClose(a)
    PROVE  /\ pc[a] = "write" /\ UNCHANGED <<now, job, failed, met>>
           /\ Moves(a, AfterMerge(a)) /\ MergeMoves(a)
           /\ AfterMerge(a) \in IF a = Poller THEN {"wait", "polled"} ELSE {"loop"}
           /\ merged' = merged \cup {<<merge[a].path, r>> : r \in merge[a].add}
           /\ merged' \in SUBSET (Path \X Time)
           /\ \E f \in Closed(a, file[merge[a].path]) : FileIs(a, f)
<1>1. merge[a] \in Merges /\ merge[a].path \in Path
  BY DEF Typed, Merges
<1>2. PICK f \in Closed(a, file[merge[a].path]) : file' = [file EXCEPT ![merge[a].path] = f]
  BY DEF MergeClose
<1>3. FileIs(a, f)
  BY <1>1, <1>2, ClosedIs DEF FileIs, Typed
<1>4. AfterMerge(a) \in IF a = Poller THEN {"wait", "polled"} ELSE {"loop"}
  BY DEF AfterMerge
<1>5. Moves(a, AfterMerge(a)) /\ MergeMoves(a)
  BY <1>4, ReturnIs DEF MergeClose, Labels
<1>6. merged' = merged \cup {<<merge[a].path, r>> : r \in merge[a].add}
  BY DEF MergeClose
<1>7. merged' \in SUBSET (Path \X Time)
  BY <1>1, <1>6 DEF Typed, Merges
<1> QED
  BY <1>3, <1>4, <1>5, <1>6, <1>7 DEF MergeClose

\* A creation or a write that fails: the actor hangs, or the merge returns its error.
LEMMA FailIs ==
    ASSUME Typed, NEW a \in Actors, CreateFails(a) \/ WriteFails(a)
    PROVE  /\ pc[a] \in {"create", "write"} /\ UNCHANGED <<now, job, merged, met>>
           /\ failed' = failed \cup {merge[a].path}
           /\ \E f \in Files : FileIs(a, f)
           /\ MergeMoves(a)
           /\ \/ Moves(a, "hung") /\ merge' = merge
              \/ Moves(a, IF a = Poller THEN "wait" ELSE "loop")
<1>1. file[merge[a].path] \in Files /\ merge[a] \in Merges /\ merge[a].path \in Path
  BY DEF Typed, Merges
<1>2. ASSUME Hangs(a)
      PROVE  Moves(a, "hung") /\ merge' = merge /\ MergeMoves(a)
  BY <1>2, GotoIs DEF Hangs, Typed, Labels, MergeMoves
<1>3. CASE CreateFails(a)
  <2>1. Left(a, Created(a, file[merge[a].path])) \in Files
    BY <1>1, CreatedIs, LeftIs
  <2>2. \E f \in Files : FileIs(a, f)
    BY <1>1, <1>3, <2>1 DEF CreateFails, FileIs, Typed
  <2> QED
    BY <1>2, <1>3, <2>2 DEF CreateFails, Fails
<1>4. CASE WriteFails(a)
  <2>1. PICK f \in {Left(a, file[merge[a].path])} \cup Closed(a, file[merge[a].path]) :
          /\ file' = [file EXCEPT ![merge[a].path] = f]
          /\ Hangs(a) \/ Return(a, AfterError(a))
    BY <1>4 DEF WriteFails
  <2>2. f \in Files
    BY <1>1, <2>1, ClosedIs, LeftIs
  <2>3. FileIs(a, f)
    BY <1>1, <2>1, <2>2 DEF FileIs, Typed
  <2>4. ASSUME Return(a, AfterError(a))
        PROVE  Moves(a, IF a = Poller THEN "wait" ELSE "loop") /\ MergeMoves(a)
    BY <2>4, ReturnIs DEF AfterError, Labels
  <2> QED
    BY <1>2, <1>4, <2>1, <2>2, <2>3, <2>4 DEF WriteFails, Fails
<1> QED
  BY <1>3, <1>4

\* What a merge does to the types.
LEMMA MergingTypes ==
    ASSUME Typed, NEW a \in Actors, Merging(a)
    PROVE  Typed'
<1>0. Requests \subseteq Actors /\ merge[a].path \in Path
  BY DEF Actors, Typed, Merges
<1>1. CASE MergeRead(a)
  <2>1. /\ UNCHANGED <<now, file, job, merged>> /\ MergeMoves(a)
        /\ failed' \in SUBSET Path /\ met' \in SUBSET Path
        /\ \E l \in {"remove", "hung"} : Moves(a, l)
    BY <1>0, <1>1, ReadIs DEF NoteMeeting, Typed
  <2> QED
    BY <1>0, <2>1 DEF Typed, Moves, MergeMoves
<1>2. CASE MergeRemove(a)
  <2>1. /\ UNCHANGED <<now, merge, job, merged, met>> /\ Moves(a, "create")
        /\ file' \in [Path -> Files] /\ failed' \in SUBSET Path
    BY <1>0, <1>2, RemoveIs DEF FileIs, Typed
  <2> QED
    BY <1>0, <2>1 DEF Typed, Moves
<1>3. CASE MergeCreate(a)
  <2>1. /\ UNCHANGED <<now, merge, job, merged, failed, met>> /\ Moves(a, "write")
        /\ file' \in [Path -> Files]
    BY <1>3, CreateIs DEF FileIs
  <2> QED
    BY <1>0, <2>1 DEF Typed, Moves
<1>4. CASE MergeClose(a)
  <2>1. /\ UNCHANGED <<now, job, failed, met>> /\ Moves(a, AfterMerge(a)) /\ MergeMoves(a)
        /\ file' \in [Path -> Files]
        /\ AfterMerge(a) \in {"wait", "polled", "loop"} /\ merged' \in SUBSET (Path \X Time)
    BY <1>4, CloseIs DEF FileIs
  <2> QED
    BY <1>0, <2>1 DEF Typed, Moves, MergeMoves
<1>5. CASE CreateFails(a) \/ WriteFails(a)
  <2>1. /\ UNCHANGED <<now, job, merged, met>> /\ MergeMoves(a)
        /\ file' \in [Path -> Files] /\ failed' \in SUBSET Path
        /\ \E l \in {"hung", "wait", "loop"} : Moves(a, l)
    BY <1>0, <1>5, FailIs DEF FileIs, Typed
  <2> QED
    BY <1>0, <2>1 DEF Typed, Moves, MergeMoves
<1> QED
  BY <1>1, <1>2, <1>3, <1>4, <1>5 DEF Merging

\* The types hold at the start ...
LEMMA InitTyped == Init => Typed
<1> SUFFICES ASSUME Init PROVE Typed
  OBVIOUS
<1>1. now \in Time /\ merged = {} /\ failed = {} /\ met = {}
  BY StartAssumption DEF Init
<1>2. None \in Files /\ NoMerge \in Merges /\ NoJob \in Jobs
  BY Paths DEF None, Files, NoMerge, Merges, NoJob, Jobs
<1>3. /\ file \in [Path -> Files] /\ merge \in [Actors -> Merges] /\ job \in [Actors -> Jobs]
  BY <1>2 DEF Init
<1>4. pc \in [Actors -> Labels] /\ \A a \in Actors : pc[a] \in {"wait", "idle"}
  BY DEF Init, Labels
<1> QED
  BY <1>1, <1>3, <1>4 DEF Typed, Actors

\* ... and every step keeps them.
LEMMA NextTyped == Typed /\ [Next]_vars => Typed'
<1> SUFFICES ASSUME Typed, [Next]_vars PROVE Typed'
  OBVIOUS
<1>1. CASE Tick
  BY <1>1 DEF Tick, Typed
<1>2. CASE Stop
  BY <1>2 DEF Stop, Typed
<1>3. CASE Poll \/ PollerStep
  <2>1. Poller \in Actors
    BY DEF Actors
  <2> QED
    BY <1>3, <2>1, PollerTypes, MergingTypes DEF PollerStep
<1>4. ASSUME NEW r \in Requests, Arrive(r) \/ RequestStep(r)
      PROVE  Typed'
  <2>1. r \in Actors
    BY DEF Actors
  <2> QED
    BY <1>4, <2>1, RequestTypes, MergingTypes DEF RequestStep
<1>5. CASE UNCHANGED vars
  BY <1>5 DEF vars, Typed
<1> QED
  BY <1>1, <1>2, <1>3, <1>4, <1>5 DEF Next

\* So they always hold.
LEMMA AlwaysTyped == Spec => []Typed
  BY InitTyped, NextTyped, PTL DEF Spec

\* The state is always well typed.
THEOREM TypeCorrect == Spec => []TypeOK
<1>1. Typed => TypeOK
  BY DEF Typed, TypeOK, Files, Merges
<1> QED
  BY <1>1, AlwaysTyped, PTL

-----------------------------------------------------------------------------
(* Nothing is lost of a file on which nothing failed and no merges met.     *)

\* No operation on the file has failed, and no two merges of it have overlapped.
Clean(p)      == p \notin failed \cup met
StaysClean(p) == p \notin failed' \cup met'

\* The actor has read a file and will write it.
InMerge(a)   == pc[a] \in {"remove", "create", "write"}
Rewriting(a) == pc[a] \in {"create", "write"}

\* Two merges of one file that are on their way have met.
OneMergePerFile ==
    \A a, b \in Actors :
        a # b /\ InMerge(a) /\ InMerge(b) /\ merge[a].path = merge[b].path => merge[a].path \in met

\* The rows of the merges so far are in their file, unless somebody is rewriting it.
InFile ==
    \A m \in merged : Clean(m[1]) =>
        \/ \E a \in Actors : Rewriting(a) /\ merge[a].path = m[1]
        \/ file[m[1]].state = "whole" /\ m[2] \in file[m[1]].rows

\* Somebody who will write a file has them, and the new rows, in memory.
InMemory ==
    \A a \in Actors : InMerge(a) /\ Clean(merge[a].path) =>
        /\ merge[a].add \subseteq merge[a].buf
        /\ \A m \in merged : m[1] = merge[a].path => m[2] \in merge[a].buf

\* A file that is being rewritten has the one writer.
OneWriter ==
    \A a \in Actors : Clean(merge[a].path) =>
        /\ pc[a] = "create" => file[merge[a].path] = None
        /\ pc[a] = "write" => file[merge[a].path].state = "partial" /\ file[merge[a].path].by = {a}

\* A file that cannot be read is being written.
Settled ==
    \A p \in Path : Clean(p) =>
        \/ file[p].state \in {"none", "whole"}
        \/ \E a \in Actors : pc[a] = "write" /\ merge[a].path = p

\* Nobody waits for ever at a file on which nothing failed and no merges met.
HangsExplained == \A a \in Actors : pc[a] = "hung" => merge[a].path \in failed \cup met

NothingLost == OneMergePerFile /\ InFile /\ InMemory /\ OneWriter /\ Settled /\ HangsExplained

\* What every step of a keeps: the files that are not clean, and the others' places.
Keeps(a) ==
    /\ failed \subseteq failed' /\ met \subseteq met'
    /\ \A b \in Actors \ {a} : pc'[b] = pc[b] /\ merge'[b] = merge[b]

\* A step outside of all merges, or from one that leaves its file.
Outside(a) ==
    /\ Keeps(a)
    /\ UNCHANGED <<file, merged>>
    /\ ~Rewriting(a) /\ ~InMerge(a)'
    /\ pc[a] # "hung"
    /\ pc'[a] = "hung" => merge'[a].path \in failed' \cup met'

\* It loses nothing.
LEMMA OutsideLosesNothing ==
    ASSUME NothingLost, NEW a \in Actors, Outside(a)
    PROVE  NothingLost'
<1>1. \A b \in Actors : /\ InMerge(b)' => InMerge(b) /\ merge'[b] = merge[b] /\ b # a
                        /\ Rewriting(b) => Rewriting(b)' /\ merge'[b] = merge[b]
                        /\ pc'[b] \in {"create", "write"} => pc'[b] = pc[b] /\ merge'[b] = merge[b]
                        /\ pc[b] = "write" => pc'[b] = "write" /\ merge'[b] = merge[b]
                        /\ pc'[b] = "hung" /\ b # a => pc[b] = "hung" /\ merge'[b] = merge[b]
  BY DEF Outside, Keeps, InMerge, Rewriting
<1>2. \A p : Clean(p)' => Clean(p)
  BY DEF Outside, Keeps, Clean
<1>3. OneMergePerFile'
  BY <1>1 DEF NothingLost, OneMergePerFile, Outside, Keeps
<1>4. InFile'
  BY <1>1, <1>2 DEF NothingLost, InFile, Outside
<1>5. InMemory'
  BY <1>1, <1>2 DEF NothingLost, InMemory, Outside
<1>6. OneWriter'
  BY <1>1, <1>2 DEF NothingLost, OneWriter, Outside
<1>7. Settled'
  BY <1>1, <1>2 DEF NothingLost, Settled, Outside
<1>8. HangsExplained'
  BY <1>1 DEF NothingLost, HangsExplained, Outside, Keeps
<1> QED
  BY <1>3, <1>4, <1>5, <1>6, <1>7, <1>8 DEF NothingLost

\* Steps of the poller and of requests that begin or follow a merge, or give it up.
LEMMA OutsideSteps ==
    ASSUME Typed, NEW a \in Actors,
           \/ a = Poller /\ (Poll \/ PollerReturns \/ PollHour \/ PollDay \/ DirFails)
           \/ a \in Requests /\ (Arrive(a) \/ CheckDay(a) \/ FetchDay(a) \/ NextDay(a) \/ Answer(a))
    PROVE  Outside(a)
<1>1. pc[a] \in {"wait", "fetched", "polled", "idle", "check", "fetch", "loop", "answer", "remove"}
  BY DEF Poll, PollerReturns, PollHour, PollDay, DirFails, Arrive, CheckDay, FetchDay, NextDay, Answer
<1>2. UNCHANGED <<file, merged, met>> /\ failed \subseteq failed'
  BY DEF Poll, PollerReturns, PollHour, PollDay, DirFails, Arrive, CheckDay, FetchDay, NextDay, Answer, Fails
<1>3. \E l \in {"fetched", "returned", "read", "check", "answer", "loop", "fetch", "answered", "wait"} : Goto(a, l)
  BY DEF Poll, PollerReturns, PollHour, PollDay, DirFails, Arrive, CheckDay, FetchDay, NextDay, Answer,
         StartMerge, Return
<1>4. /\ pc'[a] \in {"fetched", "returned", "read", "check", "answer", "loop", "fetch", "answered", "wait"}
      /\ \A b \in Actors \ {a} : pc'[b] = pc[b]
  BY <1>3 DEF Goto, Typed
<1>5. \A b \in Actors \ {a} : merge'[b] = merge[b]
  BY DEF Poll, PollerReturns, PollHour, PollDay, DirFails, Arrive, CheckDay, FetchDay, NextDay, Answer,
         StartMerge, Return, Typed
<1> QED
  BY <1>1, <1>2, <1>4, <1>5 DEF Outside, Keeps, InMerge, Rewriting

\* A merge that starts to rewrite a file takes note of those it overlaps.
LEMMA ReadLosesNothing ==
    ASSUME Typed, NothingLost, NEW a \in Actors, MergeRead(a)
    PROVE  NothingLost'
<1> DEFINE here == file[merge[a].path]
<1>0. /\ pc[a] = "read" /\ UNCHANGED <<file, merged>> /\ MergeMoves(a)
      /\ merge'[a].path = merge[a].path /\ merge'[a].add = merge[a].add
      /\ failed \subseteq failed' /\ NoteMeeting(a)
  BY ReadIs
<1>1. Meets(a) => merge[a].path \in met'
  BY <1>0 DEF NoteMeeting
<1>2. met \subseteq met'
  BY <1>0 DEF NoteMeeting
<1>3. \A b \in Actors \ {a} : InMerge(b) /\ merge[b].path = merge[a].path => merge[a].path \in met'
  BY <1>1 DEF Meets, InMerge
<1>4. \A p : Clean(p)' => Clean(p)
  BY <1>0, <1>2 DEF Clean, StaysClean
<1>5. CASE /\ Moves(a, "hung")
           /\ merge[a].path \in failed' \/ here.state \in {"partial", "mixed"} \/ Meets(a)
  <2>1. merge[a].path \in failed' \cup met'
    <3>1. CASE merge[a].path \in failed' \/ Meets(a)
      BY <1>1, <3>1
    <3>2. CASE here.state \in {"partial", "mixed"}
      <4>1. merge[a].path \in Path
        BY DEF Typed, Merges
      <4>2. CASE ~Clean(merge[a].path)
        BY <1>0, <1>2, <4>2 DEF Clean, StaysClean
      <4>3. CASE \E b \in Actors : pc[b] = "write" /\ merge[b].path = merge[a].path
        BY <1>0, <1>3, <4>3 DEF InMerge
      <4> QED
        BY <3>2, <4>1, <4>2, <4>3 DEF NothingLost, Settled
    <3> QED
      BY <1>5, <3>1, <3>2
  <2>2. Outside(a)
    BY <1>0, <1>2, <1>5, <2>1 DEF Outside, Keeps, InMerge, Rewriting, Moves, MergeMoves
  <2> QED
    BY <2>2, OutsideLosesNothing
<1>6. CASE /\ Moves(a, "remove")
           /\ merge[a].path \in failed' \/ merge'[a].buf = here.rows \cup merge[a].add
  <2>1. \A b \in Actors \ {a} : pc'[b] = pc[b] /\ merge'[b] = merge[b]
    BY <1>0, <1>6 DEF Moves, MergeMoves
  <2>2. pc'[a] = "remove"
    BY <1>6 DEF Moves
  <2>3. OneMergePerFile'
    BY <1>0, <1>2, <1>3, <2>1, <2>2 DEF NothingLost, OneMergePerFile, InMerge
  <2>4. InFile'
    BY <1>0, <1>4, <2>1 DEF NothingLost, InFile, Rewriting
  <2>5. ASSUME StaysClean(merge[a].path)
        PROVE  /\ merge'[a].buf = here.rows \cup merge[a].add
               /\ \A m \in merged : m[1] = merge[a].path => m[2] \in here.rows
    <3>1. merge'[a].buf = here.rows \cup merge[a].add
      BY <1>0, <1>6, <2>5 DEF Clean, StaysClean
    <3>2. \A b \in Actors : Rewriting(b) => b # a /\ merge[b].path # merge[a].path
      BY <1>0, <1>3, <2>5 DEF Rewriting, StaysClean, InMerge
    <3>3. Clean(merge[a].path)
      BY <1>0, <1>2, <2>5 DEF Clean, StaysClean
    <3> QED
      BY <3>1, <3>2, <3>3 DEF NothingLost, InFile
  <2>6. InMemory'
    <3> SUFFICES ASSUME NEW b \in Actors, InMerge(b)', StaysClean(merge'[b].path)
                 PROVE  /\ merge'[b].add \subseteq merge'[b].buf
                        /\ \A m \in merged' : m[1] = merge'[b].path => m[2] \in merge'[b].buf
      BY DEF InMemory, Clean, StaysClean
    <3>1. CASE b = a
      BY <1>0, <2>5, <3>1
    <3>2. CASE b # a
      <4>1. Clean(merge[b].path) /\ merge'[b] = merge[b] /\ InMerge(b)
        BY <1>0, <1>2, <2>1, <3>2 DEF Clean, StaysClean, InMerge
      <4> QED
        BY <1>0, <4>1 DEF NothingLost, InMemory
    <3> QED
      BY <3>1, <3>2
  <2>7. OneWriter'
    BY <1>0, <1>2, <2>1, <2>2 DEF NothingLost, OneWriter, Clean
  <2>8. Settled'
    BY <1>0, <1>4, <2>1 DEF NothingLost, Settled
  <2>9. HangsExplained'
    BY <1>0, <1>2, <2>1, <2>2 DEF NothingLost, HangsExplained
  <2> QED
    BY <2>3, <2>4, <2>6, <2>7, <2>8, <2>9 DEF NothingLost
<1> QED
  BY <1>5, <1>6, ReadIs

\* A step that a merge of a takes on its file, from a place in the merge to another or out
\* of it; what is left to show concerns this file, when nothing failed on it.
OnFile(a) ==
    /\ Keeps(a)
    /\ InMerge(a) /\ UNCHANGED met
    /\ InMerge(a)' => merge'[a] = merge[a]
    /\ merged \subseteq merged' /\ \A m \in merged' \ merged : m[1] = merge[a].path
    /\ \A p \in Path : p # merge[a].path => file'[p] = file[p]
    /\ pc'[a] = "hung" => merge'[a].path \in failed'

ThisFile(a) ==
    /\ \A m \in merged' : m[1] = merge[a].path =>
         Rewriting(a)' \/ (file'[m[1]].state = "whole" /\ m[2] \in file'[m[1]].rows)
    /\ InMerge(a)' => merged' = merged
    /\ pc'[a] = "create" => file'[merge[a].path] = None
    /\ pc'[a] = "write" => file'[merge[a].path].state = "partial" /\ file'[merge[a].path].by = {a}
    /\ file'[merge[a].path].state \in {"none", "whole"} \/ pc'[a] = "write"

\* Then nothing is lost.
LEMMA OnFileLosesNothing ==
    ASSUME Typed, Typed', NothingLost, NEW a \in Actors, OnFile(a), StaysClean(merge[a].path) => ThisFile(a)
    PROVE  NothingLost'
<1> DEFINE path == merge[a].path
<1>1. \A b \in Actors \ {a} : pc'[b] = pc[b] /\ merge'[b] = merge[b]
  BY DEF OnFile, Keeps
<1>2. failed \subseteq failed' /\ met \subseteq met'
  BY DEF OnFile, Keeps
<1>3. \A b \in Actors \ {a} : InMerge(b) /\ merge[b].path = path => ~StaysClean(path)
  BY DEF NothingLost, OneMergePerFile, OnFile, StaysClean
<1>4. \A b \in Actors : merge[b].path \in Path /\ merge'[b].path \in Path
  BY DEF Typed, Merges
<1>5. \A m \in merged' : m[1] \in Path
  BY DEF Typed
<1>6. OneMergePerFile'
  BY <1>1 DEF NothingLost, OneMergePerFile, OnFile, InMerge
<1>7. InFile'
  <2> SUFFICES ASSUME NEW m \in merged', Clean(m[1])'
               PROVE  \/ \E b \in Actors : Rewriting(b)' /\ merge'[b].path = m[1]
                      \/ file'[m[1]].state = "whole" /\ m[2] \in file'[m[1]].rows
    BY DEF InFile
  <2>1. CASE m[1] = path
    <3>1. ThisFile(a)
      BY <2>1 DEF Clean, StaysClean
    <3>2. Rewriting(a)' => merge'[a] = merge[a]
      BY DEF OnFile, Rewriting, InMerge
    <3> QED
      BY <2>1, <3>1, <3>2 DEF ThisFile
  <2>2. CASE m[1] # path
    <3>1. m \in merged /\ file'[m[1]] = file[m[1]]
      BY <1>5, <2>2 DEF OnFile
    <3>2. \A b \in Actors : Rewriting(b) /\ merge[b].path = m[1] => b # a /\ Rewriting(b)'
      BY <1>1, <2>2 DEF Rewriting
    <3> QED
      BY <1>1, <1>2, <3>1, <3>2 DEF NothingLost, InFile, Clean, StaysClean, Rewriting
  <2> QED
    BY <2>1, <2>2
<1>8. InMemory'
  <2> SUFFICES ASSUME NEW b \in Actors, InMerge(b)', StaysClean(merge'[b].path)
               PROVE  /\ merge'[b].add \subseteq merge'[b].buf
                      /\ \A m \in merged' : m[1] = merge'[b].path => m[2] \in merge'[b].buf
    BY DEF InMemory, Clean, StaysClean
  <2>1. CASE b = a
    <3>1. merge'[a] = merge[a] /\ InMerge(a)
      BY <2>1 DEF OnFile
    <3>2. StaysClean(path) /\ Clean(path) /\ InMerge(a)'
      BY <1>2, <2>1, <3>1 DEF Clean, StaysClean, InMerge
    <3>3. merged' = merged
      BY <3>2 DEF ThisFile
    <3> QED
      BY <2>1, <3>1, <3>2, <3>3 DEF NothingLost, InMemory
  <2>2. CASE b # a
    <3>1. InMerge(b) /\ merge'[b] = merge[b]
      BY <1>1, <2>2 DEF InMerge
    <3>2. Clean(merge[b].path) /\ merge[b].path # path
      BY <1>2, <1>3, <2>2, <3>1 DEF Clean, StaysClean, InMerge
    <3>3. \A m \in merged' : m[1] = merge[b].path => m \in merged
      BY <3>2 DEF OnFile
    <3> QED
      BY <3>1, <3>2, <3>3 DEF NothingLost, InMemory
  <2> QED
    BY <2>1, <2>2
<1>9. OneWriter'
  <2> SUFFICES ASSUME NEW b \in Actors, StaysClean(merge'[b].path), Rewriting(b)'
               PROVE  /\ pc'[b] = "create" => file'[merge'[b].path] = None
                      /\ pc'[b] = "write" => /\ file'[merge'[b].path].state = "partial"
                                             /\ file'[merge'[b].path].by = {b}
    BY DEF OneWriter, Rewriting, Clean, StaysClean
  <2>1. CASE b = a
    <3>1. merge'[a] = merge[a]
      BY <2>1 DEF OnFile, Rewriting, InMerge
    <3>2. StaysClean(path)
      BY <2>1, <3>1 DEF StaysClean
    <3> QED
      BY <2>1, <3>1, <3>2 DEF ThisFile
  <2>2. CASE b # a
    <3>1. InMerge(b) /\ merge'[b] = merge[b]
      BY <1>1, <2>2 DEF InMerge, Rewriting
    <3>2. Clean(merge[b].path) /\ merge[b].path # path
      BY <1>2, <1>3, <2>2, <3>1 DEF Clean, StaysClean, InMerge
    <3> QED
      BY <1>1, <1>4, <2>2, <3>1, <3>2 DEF NothingLost, OneWriter, OnFile
  <2> QED
    BY <2>1, <2>2
<1>10. Settled'
  <2> SUFFICES ASSUME NEW p \in Path, Clean(p)'
               PROVE  \/ file'[p].state \in {"none", "whole"}
                      \/ \E b \in Actors : pc'[b] = "write" /\ merge'[b].path = p
    BY DEF Settled
  <2>1. CASE p = path
    <3>1. ThisFile(a)
      BY <2>1 DEF Clean, StaysClean
    <3>2. pc'[a] = "write" => merge'[a] = merge[a]
      BY DEF OnFile, InMerge
    <3> QED
      BY <2>1, <3>1, <3>2 DEF ThisFile
  <2>2. CASE p # path
    <3>1. file'[p] = file[p] /\ Clean(p)
      BY <1>2, <2>2 DEF OnFile, Clean, StaysClean
    <3>2. \A b \in Actors : pc[b] = "write" /\ merge[b].path = p => b # a
      BY <2>2
    <3> QED
      BY <1>1, <3>1, <3>2 DEF NothingLost, Settled
  <2> QED
    BY <2>1, <2>2
<1>11. HangsExplained'
  BY <1>1 DEF NothingLost, HangsExplained, OnFile, Keeps
<1> QED
  BY <1>6, <1>7, <1>8, <1>9, <1>10, <1>11 DEF NothingLost

\* A removal: the rows are in memory.
LEMMA RemoveLosesNothing ==
    ASSUME Typed, Typed', NothingLost, NEW a \in Actors, MergeRemove(a)
    PROVE  NothingLost'
<1>1. pc[a] = "remove" /\ UNCHANGED <<merge, merged, met>> /\ pc'[a] = "create"
  BY RemoveIs DEF Moves
<1>2. OnFile(a)
  BY <1>1, RemoveIs DEF OnFile, Keeps, InMerge, FileIs, Moves
<1>3. ASSUME StaysClean(merge[a].path)
      PROVE  file'[merge[a].path] = None
  BY <1>1, <1>3, RemoveIs DEF FileIs, Clean, StaysClean
<1>4. StaysClean(merge[a].path) => ThisFile(a)
  BY <1>1, <1>3 DEF ThisFile, Rewriting, None
<1> QED
  BY <1>2, <1>4, OnFileLosesNothing

\* A creation: so they are still.
LEMMA CreateLosesNothing ==
    ASSUME Typed, Typed', NothingLost, NEW a \in Actors, MergeCreate(a)
    PROVE  NothingLost'
<1>1. /\ pc[a] = "create" /\ UNCHANGED <<merge, merged, failed, met>> /\ pc'[a] = "write"
      /\ FileIs(a, Created(a, file[merge[a].path]))
  BY CreateIs DEF Moves
<1>2. OnFile(a)
  BY <1>1, CreateIs DEF OnFile, Keeps, InMerge, FileIs, Moves
<1>3. ASSUME StaysClean(merge[a].path)
      PROVE  file'[merge[a].path].state = "partial" /\ file'[merge[a].path].by = {a}
  <2>1. file[merge[a].path] = None
    BY <1>1, <1>3 DEF NothingLost, OneWriter, Clean, StaysClean
  <2> QED
    BY <1>1, <2>1 DEF FileIs, Created, None
<1>4. StaysClean(merge[a].path) => ThisFile(a)
  BY <1>1, <1>3 DEF ThisFile, Rewriting
<1> QED
  BY <1>2, <1>4, OnFileLosesNothing

\* A close writes what is in memory.
LEMMA CloseLosesNothing ==
    ASSUME Typed, Typed', NothingLost, NEW a \in Actors, MergeClose(a)
    PROVE  NothingLost'
<1> DEFINE here == file[merge[a].path]
<1>1. /\ pc[a] = "write" /\ UNCHANGED <<failed, met>> /\ pc'[a] \in {"wait", "polled", "loop"}
      /\ merged' = merged \cup {<<merge[a].path, r>> : r \in merge[a].add}
  BY CloseIs DEF Moves
<1>2. OnFile(a)
  BY <1>1, CloseIs DEF OnFile, Keeps, InMerge, FileIs, Moves, MergeMoves
<1>3. ASSUME StaysClean(merge[a].path)
      PROVE  file'[merge[a].path].state = "whole" /\ file'[merge[a].path].rows = merge[a].buf
  <2>1. here.state = "partial" /\ here.by = {a}
    BY <1>1, <1>3 DEF NothingLost, OneWriter, Clean, StaysClean
  <2>2. PICK f \in Closed(a, here) : FileIs(a, f)
    BY CloseIs
  <2>3. f = Whole(a, here)
    BY <2>1, <2>2 DEF Closed
  <2>4. here \in Files
    BY DEF Typed, Merges
  <2>5. f.state = "whole" /\ f.rows = merge[a].buf
    BY <2>3, <2>4, WholeIs DEF Typed
  <2> QED
    BY <2>2, <2>5 DEF FileIs
<1>4. ASSUME StaysClean(merge[a].path)
      PROVE  \A m \in merged' : m[1] = merge[a].path => m[2] \in merge[a].buf
  <2>1. InMerge(a) /\ Clean(merge[a].path)
    BY <1>1, <1>4 DEF InMerge, Clean, StaysClean
  <2>2. /\ merge[a].add \subseteq merge[a].buf
        /\ \A m \in merged : m[1] = merge[a].path => m[2] \in merge[a].buf
    BY <2>1 DEF NothingLost, InMemory
  <2> QED
    BY <1>1, <2>2
<1>5. StaysClean(merge[a].path) => ThisFile(a)
  BY <1>1, <1>3, <1>4 DEF ThisFile, InMerge
<1> QED
  BY <1>2, <1>5, OnFileLosesNothing

\* A failure is taken note of.
LEMMA FailLosesNothing ==
    ASSUME Typed, Typed', NothingLost, NEW a \in Actors, CreateFails(a) \/ WriteFails(a)
    PROVE  NothingLost'
<1>1. /\ pc[a] \in {"create", "write"} /\ UNCHANGED <<merged, met>>
      /\ failed' = failed \cup {merge[a].path}
      /\ \/ pc'[a] = "hung" /\ merge' = merge
         \/ pc'[a] \in {"wait", "loop"}
  BY FailIs DEF Moves
<1>2. OnFile(a)
  BY <1>1, FailIs DEF OnFile, Keeps, InMerge, FileIs, Moves, MergeMoves
<1>3. ~StaysClean(merge[a].path)
  <2>1. merge[a].path \in failed'
    BY <1>1
  <2> QED
    BY <2>1, <1>2 DEF Clean, StaysClean
<1> QED
  BY <1>2, <1>3, OnFileLosesNothing

\* No step loses a row.
LEMMA NextLosesNothing ==
    Typed /\ Typed' /\ NothingLost /\ [Next]_vars => NothingLost'
<1> SUFFICES ASSUME Typed, Typed', NothingLost, [Next]_vars
             PROVE  NothingLost'
  OBVIOUS
<1>0. Poller \in Actors /\ Requests \subseteq Actors
  BY DEF Actors
<1>1. CASE Tick \/ Stop \/ UNCHANGED vars
  <2>1. UNCHANGED <<file, pc, merge, merged, failed, met>>
    BY <1>1 DEF Tick, Stop, vars
  <2> QED
    BY <2>1 DEF NothingLost, OneMergePerFile, InFile, InMemory, OneWriter, Settled, HangsExplained,
                Clean, InMerge, Rewriting
<1>2. ASSUME NEW a \in Actors, Merging(a)
      PROVE  NothingLost'
  BY <1>2, ReadLosesNothing, RemoveLosesNothing, CreateLosesNothing, CloseLosesNothing, FailLosesNothing
     DEF Merging
<1>3. CASE Poll \/ PollerReturns \/ PollHour \/ PollDay \/ DirFails
  BY <1>0, <1>3, OutsideSteps, OutsideLosesNothing
<1>4. ASSUME NEW r \in Requests, Arrive(r) \/ CheckDay(r) \/ FetchDay(r) \/ NextDay(r) \/ Answer(r)
      PROVE  NothingLost'
  BY <1>0, <1>4, OutsideSteps, OutsideLosesNothing
<1> QED
  BY <1>0, <1>1, <1>2, <1>3, <1>4 DEF Next, PollerStep, RequestStep

\* So nothing ever is.
LEMMA AlwaysNothingLost == Spec => []NothingLost
<1>1. Init => NothingLost
  <2> SUFFICES ASSUME Init PROVE NothingLost
    OBVIOUS
  <2>1. /\ merged = {}
        /\ \A a \in Actors : pc[a] \in {"wait", "idle"}
        /\ \A p \in Path : file[p].state = "none"
    BY DEF Init, None
  <2> QED
    BY <2>1 DEF NothingLost, OneMergePerFile, InFile, InMemory, OneWriter, Settled, HangsExplained, InMerge
<1> QED
  BY <1>1, NextLosesNothing, AlwaysTyped, PTL DEF Spec

\* A row of a merge that reported success is in its file whenever that can be read, unless
\* an operation on the file has failed or two merges of it have overlapped: however many
\* requests there are, and whatever fails on other files.
THEOREM RowsAreKept == Spec => []MergeKeepsRows
<1>1. NothingLost => MergeKeepsRows
  BY DEF NothingLost, InFile, OneWriter, Clean, MergeKeepsRows, Rewriting, None
<1> QED
  BY <1>1, AlwaysNothingLost, PTL

\* Nobody waits for ever at a file on which no operation has failed and of which no two
\* merges have overlapped: nothing else blocks the unbuffered channels of a merge.
THEOREM HangsAreExplained == Spec => []HangsExplained
<1>1. NothingLost => HangsExplained
  BY DEF NothingLost
<1> QED
  BY <1>1, AlwaysNothingLost, PTL

-----------------------------------------------------------------------------
(* Requests for the past do not meet the poller.                            *)

StartDay == DayOf(StartTime)

\* One request, for days before the one on which the server starts.
OnePastRequest ==
    /\ \A q, r \in Requests : q = r
    /\ \A x \in Ranges : x[2] <= StartDay * DayLength

\* The poller is at its start day or later, requests are before it.
Apart ==
    /\ StartTime <= now
    /\ pc[Poller] \notin {"wait", "returned"} => StartTime <= job[Poller].at
    /\ pc[Poller] \in {"read", "remove", "create", "write"} => StartDay <= merge[Poller].path.day
    /\ \A r \in Requests :
         /\ job[r].to <= StartDay * DayLength
         /\ pc[r] = "fetch" => job[r].day < StartDay
         /\ pc[r] \in {"read", "remove", "create", "write"} => merge[r].path.day < StartDay

\* Windows before a midnight are in the days before it.
LEMMA PastWindows ==
    ASSUME NEW r \in Requests, Windows(r) # {}, job[r].to \in Nat, job[r].to <= StartDay * DayLength
    PROVE  job[r].day < StartDay
<1>1. PICK w \in Time : DayOf(w) = job[r].day /\ w < job[r].to
  BY DEF Windows
<1>2. w \in Nat /\ StartDay \in Nat
  BY <1>1, TimeParts, StartAssumption DEF StartDay, Day
<1>3. StartDay * DayLength \in Nat
  BY <1>2, Calendar
<1>4. w < StartDay * DayLength
  BY <1>1, <1>2, <1>3
<1> QED
  BY <1>1, <1>2, <1>4, Calendar, DivBelow DEF DayOf

\* Later instants are on later days.
LEMMA LaterDays ==
    ASSUME NEW t \in Time, StartTime <= t
    PROVE  StartDay <= DayOf(t)
  BY TimeParts, StartAssumption, Calendar, DivGrows DEF StartDay, DayOf

\* The poller keeps to its side ...
LEMMA PollerApart ==
    ASSUME Typed, Apart, Poll \/ PollerReturns \/ PollHour \/ PollDay \/ DirFails
    PROVE  Apart'
<1>0. Poller \in Actors /\ \A r \in Requests : r \in Actors \ {Poller}
  BY ActorAssumption DEF Actors
<1>1. job[Poller].at \in Time /\ now \in Time
  BY <1>0 DEF Typed, Jobs
<1>2. CASE Poll
  <2>1. pc'[Poller] = "fetched" /\ \A r \in Requests : pc'[r] = pc[r]
    BY <1>0, <1>2 DEF Poll, Goto, Typed
  <2>2. job'[Poller].at = now /\ \A r \in Requests : job'[r] = job[r]
    BY <1>0, <1>2 DEF Poll, Typed, Jobs
  <2> QED
    BY <1>2, <2>1, <2>2 DEF Poll, Apart
<1>3. CASE PollerReturns
  <2>1. pc'[Poller] = "returned" /\ \A r \in Requests : pc'[r] = pc[r]
    BY <1>0, <1>3 DEF PollerReturns, Goto, Typed
  <2> QED
    BY <1>3, <2>1 DEF PollerReturns, Apart
<1>4. CASE PollHour
  <2> DEFINE p == HourPath(DayOf(now), HourIn(job[Poller].at))
  <2>1. p \in Path /\ p.day = DayOf(now)
    BY <1>1, TimeParts, Paths
  <2>2. pc'[Poller] = "read" /\ \A r \in Requests : pc'[r] = pc[r]
    BY <1>0, <1>4 DEF PollHour, StartMerge, Goto, Typed
  <2> HIDE DEF p
  <2>3. merge'[Poller].path = p /\ \A r \in Requests : merge'[r] = merge[r]
    BY <1>0, <1>4 DEF PollHour, StartMerge, Typed, p
  <2>4. StartDay <= p.day
    BY <1>1, <2>1, LaterDays DEF Apart
  <2> QED
    BY <1>4, <2>2, <2>3, <2>4 DEF PollHour, Apart
<1>5. CASE PollDay
  <2> DEFINE p == DayPath(DayOf(job[Poller].at))
  <2>1. p \in Path /\ p.day = DayOf(job[Poller].at)
    BY <1>1, TimeParts, Paths
  <2>2. pc'[Poller] = "read" /\ \A r \in Requests : pc'[r] = pc[r]
    BY <1>0, <1>5 DEF PollDay, StartMerge, Goto, Typed
  <2> HIDE DEF p
  <2>3. merge'[Poller].path = p /\ \A r \in Requests : merge'[r] = merge[r]
    BY <1>0, <1>5 DEF PollDay, StartMerge, Typed, p
  <2>4. StartTime <= job[Poller].at
    BY <1>5 DEF PollDay, Apart
  <2>5. StartDay <= p.day
    BY <1>1, <2>1, <2>4, LaterDays
  <2> QED
    BY <1>5, <2>2, <2>3, <2>4, <2>5 DEF PollDay, Apart
<1>6. CASE DirFails
  <2>1. Moves(Poller, "wait") /\ MergeMoves(Poller)
    BY <1>0, <1>6, ReturnIs DEF DirFails, Labels
  <2> QED
    BY <1>0, <1>6, <2>1 DEF DirFails, Moves, MergeMoves, Apart
<1> QED
  BY <1>2, <1>3, <1>4, <1>5, <1>6

\* ... and requests to theirs.
LEMMA RequestApart ==
    ASSUME OnePastRequest, Typed, Apart, NEW r \in Requests,
           Arrive(r) \/ CheckDay(r) \/ FetchDay(r) \/ NextDay(r) \/ Answer(r)
    PROVE  Apart'
<1>0. /\ Poller \in Actors \ {r} /\ r \in Actors
      /\ \A q \in Requests : q = r
  BY ActorAssumption DEF Actors, OnePastRequest
<1>1. StartDay \in Nat /\ 0 <= StartDay * DayLength
  <2>1. StartDay \in Nat
    BY StartAssumption, TimeParts DEF StartDay, Day
  <2>2. StartDay * DayLength \in Nat
    BY <2>1, Calendar
  <2> QED
    BY <2>1, <2>2
<1>2. UNCHANGED now /\ job'[Poller] = job[Poller] /\ pc'[Poller] = pc[Poller] /\ merge'[Poller] = merge[Poller]
  BY <1>0 DEF Arrive, CheckDay, FetchDay, NextDay, Answer, Goto, StartMerge, Typed
<1>3. job[r].to \in Nat /\ job[r].to <= StartDay * DayLength
  BY <1>0 DEF Typed, Jobs, Apart
<1>4. CASE Arrive(r)
  <2>1. PICK x \in Ranges :
            job' = [job EXCEPT ![r] = [NoJob EXCEPT !.from = x[1], !.to = x[2], !.day = DayOf(x[1])]]
    BY <1>4 DEF Arrive
  <2>2. job'[r].to = x[2]
    BY <1>0, <2>1 DEF Typed, NoJob
  <2>3. pc'[r] = "check"
    BY <1>0, <1>4 DEF Arrive, Goto, Typed
  <2> QED
    BY <1>0, <1>2, <2>2, <2>3 DEF Apart, OnePastRequest
<1>5. CASE CheckDay(r)
  <2>1. pc'[r] \in {"answer", "loop", "fetch"} /\ (pc'[r] = "fetch" => Windows(r) # {})
    BY <1>0, <1>5 DEF CheckDay, Goto, Typed
  <2>2. pc'[r] = "fetch" => job[r].day < StartDay
    BY <1>3, <2>1, PastWindows
  <2> QED
    BY <1>0, <1>2, <1>5, <2>1, <2>2 DEF CheckDay, Apart
<1>6. CASE FetchDay(r)
  <2>1. job[r].day < StartDay /\ job[r].day \in Day
    BY <1>0, <1>6 DEF FetchDay, Apart, Typed
  <2>2. CASE pc'[r] = "loop"
    BY <1>0, <1>2, <1>6, <2>2 DEF FetchDay, Apart
  <2>3. CASE pc'[r] # "loop"
    <3>1. PICK found : StartMerge(r, DayPath(job[r].day), found, "read")
      BY <1>0, <1>6, <2>3 DEF FetchDay, Goto, Typed
    <3>2. pc'[r] = "read" /\ merge'[r].path = DayPath(job[r].day)
      BY <1>0, <3>1 DEF StartMerge, Goto, Typed
    <3>3. merge'[r].path.day < StartDay
      BY <2>1, <3>2, Paths
    <3> QED
      BY <1>0, <1>2, <1>6, <3>2, <3>3 DEF FetchDay, Apart
  <2> QED
    BY <2>2, <2>3
<1>7. CASE NextDay(r)
  <2>1. pc'[r] = "check" /\ job'[r].to = job[r].to
    BY <1>0, <1>7 DEF NextDay, Goto, Typed, Jobs
  <2> QED
    BY <1>0, <1>2, <1>3, <2>1 DEF Apart
<1>8. CASE Answer(r)
  <2>1. pc'[r] = "answered" /\ job'[r].to = 0
    BY <1>0, <1>8 DEF Answer, Goto, Typed, NoJob
  <2> QED
    BY <1>0, <1>1, <1>2, <2>1 DEF Apart
<1> QED
  BY <1>4, <1>5, <1>6, <1>7, <1>8

\* A merge keeps to its path.
LEMMA MergingApart ==
    ASSUME Typed, Apart, NEW a \in Actors, Merging(a)
    PROVE  Apart'
<1>0. Poller \in Actors /\ Requests \subseteq Actors /\ Poller \notin Requests
  BY ActorAssumption DEF Actors
<1>1. /\ UNCHANGED <<now, job>>
      /\ \A b \in Actors \ {a} : pc'[b] = pc[b] /\ merge'[b] = merge[b]
      /\ pc[a] \in {"read", "remove", "create", "write"}
      /\ \/ pc'[a] \in {"remove", "create", "write"} /\ merge'[a].path = merge[a].path
         \/ pc'[a] \in {"hung", "loop", "wait", "polled"}
  <2>1. CASE MergeRead(a)
    BY <2>1, ReadIs DEF Moves, MergeMoves
  <2>2. CASE MergeRemove(a)
    BY <2>2, RemoveIs DEF Moves
  <2>3. CASE MergeCreate(a)
    BY <2>3, CreateIs DEF Moves
  <2>4. CASE MergeClose(a)
    BY <2>4, CloseIs DEF Moves, MergeMoves
  <2>5. CASE CreateFails(a) \/ WriteFails(a)
    BY <2>5, FailIs DEF Moves, MergeMoves
  <2> QED
    BY <2>1, <2>2, <2>3, <2>4, <2>5 DEF Merging
<1>2. CASE a = Poller
  BY <1>0, <1>1, <1>2 DEF Apart
<1>3. CASE a # Poller
  BY <1>0, <1>1, <1>3 DEF Apart, Actors
<1> QED
  BY <1>2, <1>3

\* All steps do.
LEMMA NextApart == OnePastRequest /\ Typed /\ Apart /\ [Next]_vars => Apart'
<1> SUFFICES ASSUME OnePastRequest, Typed, Apart, [Next]_vars PROVE Apart'
  OBVIOUS
<1>0. Poller \in Actors /\ Requests \subseteq Actors
  BY DEF Actors
<1>1. CASE Tick
  <2>1. now' = now + 1 /\ UNCHANGED <<pc, merge, job>>
    BY <1>1 DEF Tick
  <2>2. StartTime \in Nat /\ now \in Nat
    BY StartAssumption, TimeParts DEF Typed
  <2> QED
    BY <2>1, <2>2 DEF Apart
<1>2. CASE Stop
  BY <1>2 DEF Stop, Apart
<1>3. CASE UNCHANGED vars
  BY <1>3 DEF vars, Apart
<1> QED
  BY <1>0, <1>1, <1>2, <1>3, PollerApart, RequestApart, MergingApart DEF Next, PollerStep, RequestStep

\* Merges of requests for the past and of the poller are of different files.
LEMMA ApartMeetNobody ==
    ASSUME OnePastRequest, Typed, Apart, NEW a \in Actors, pc[a] = "read"
    PROVE  ~Meets(a)
<1> SUFFICES ASSUME NEW b \in Actors, b # a, pc[b] \in {"remove", "create", "write"},
                    merge[b].path = merge[a].path
             PROVE  FALSE
  BY DEF Meets
<1>1. \/ a = Poller /\ b \in Requests
      \/ b = Poller /\ a \in Requests
  BY DEF Actors, OnePastRequest
<1>2. StartDay \in Nat /\ merge[a].path.day \in Nat
  <2>1. merge[a].path \in Path
    BY DEF Typed, Merges
  <2>2. DayOf(LastTime) \in Nat /\ StartDay \in Nat
    BY Calendar, DivNat, StartAssumption, TimeParts DEF StartDay, DayOf
  <2> QED
    BY <2>1, <2>2 DEF Path, Day
<1> QED
  BY <1>1, <1>2 DEF Apart

NobodyMet == met = {}

\* With one request, for days before the server's start, no two merges of one file ever
\* overlap: the poller never comes back to these days.
THEOREM PastRequestsMeetNobody == OnePastRequest => (Spec => []NobodyMet)
<1> SUFFICES ASSUME OnePastRequest
             PROVE  Spec => []NobodyMet
  OBVIOUS
<1>1. Init => Apart /\ NobodyMet
  <2> SUFFICES ASSUME Init PROVE Apart
    BY DEF Init, NobodyMet
  <2>1. Poller \notin Requests /\ Poller \in Actors /\ Requests \subseteq Actors
    BY ActorAssumption DEF Actors
  <2>2. pc[Poller] = "wait" /\ \A r \in Requests : pc[r] = "idle" /\ job[r].to = 0
    BY <2>1 DEF Init, NoJob
  <2>3. StartTime \in Nat /\ StartDay \in Nat
    BY StartAssumption, TimeParts DEF StartDay, Day
  <2>4. StartDay * DayLength \in Nat
    BY <2>3, Calendar
  <2> QED
    BY <2>2, <2>3, <2>4 DEF Apart, Init
<1>2. Apart /\ Typed /\ NobodyMet /\ [Next]_vars => NobodyMet'
  <2> SUFFICES ASSUME Apart, Typed, met = {}, [Next]_vars PROVE met' = {}
    BY DEF NobodyMet
  <2>1. ASSUME NEW a \in Actors, MergeRead(a) PROVE met' = {}
    BY <2>1, ApartMeetNobody DEF MergeRead, NoteMeeting
  <2>2. CASE UNCHANGED met
    BY <2>2
  <2>3. (\E a \in Actors : MergeRead(a)) \/ UNCHANGED met
    BY DEF Next, vars, Tick, Stop, Poll, PollerStep, PollerReturns, PollHour, PollDay, DirFails, Merging,
           MergeRemove, MergeCreate, MergeClose, CreateFails, WriteFails, Actors,
           Arrive, RequestStep, CheckDay, FetchDay, NextDay, Answer
  <2> QED
    BY <2>1, <2>2, <2>3
<1> QED
  BY <1>1, <1>2, NextApart, AlwaysTyped, PTL DEF Spec

\* The rows of the merges that reported success, of files on which nothing failed.
RowsStay ==
    \A m \in merged :
        file[m[1]].state = "whole" /\ m[1] \notin failed => m[2] \in file[m[1]].rows

\* So with such a request only a failure loses a row ...
THEOREM PastRequestsKeepRows == OnePastRequest => (Spec => []RowsStay)
<1> SUFFICES ASSUME OnePastRequest
             PROVE  Spec => []RowsStay
  OBVIOUS
<1>1. MergeKeepsRows /\ NobodyMet => RowsStay
  BY DEF NobodyMet, MergeKeepsRows, RowsStay
<1> QED
  BY <1>1, PastRequestsMeetNobody, RowsAreKept, PTL

\* ... and only a failure makes anybody wait for ever.
HangsFailed == \A a \in Actors : pc[a] = "hung" => merge[a].path \in failed

THEOREM PastRequestsHangOnFailures == OnePastRequest => (Spec => []HangsFailed)
<1> SUFFICES ASSUME OnePastRequest
             PROVE  Spec => []HangsFailed
  OBVIOUS
<1>1. HangsExplained /\ NobodyMet => HangsFailed
  BY DEF NobodyMet, HangsExplained, HangsFailed
<1> QED
  BY <1>1, PastRequestsMeetNobody, HangsAreExplained, PTL
=============================================================================
