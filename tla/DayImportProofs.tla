--------------------------- MODULE DayImportProofs ---------------------------
(***************************************************************************)
(* Proofs about DayImport, for any number of imports of a day and of rows: *)
(* success is only reported for a complete write, an import that had the   *)
(* day for itself leaves it whole, and no chain of goroutines deadlocks.   *)
(***************************************************************************)
EXTENDS DayImport, FiniteSetTheorems, TLAPS

\* Where the loader is, or will be when its message has been taken.
Position(i) == IF load[i].pc = "send" THEN load[i].then ELSE load[i].pc

\* An error of the import is on its way to its caller, or has reached it.
Reported(i) ==
    \/ caller[i].pc \notin {"drain", "ok"}
    \/ relay[i].err
    \/ load[i].pc = "send" /\ load[i].msg = "error"
    \/ writer[i].err

\* How far the four goroutines of an import may be apart.
StagesOK(i) ==
    /\ caller[i].pc = "idle" => load[i].pc = "new" /\ relay[i].pc = "none"
    /\ load[i].pc = "new" => caller[i].pc = "idle"
    /\ load[i].pc \in {"new", "check", "fetch"} =>
         writer[i].pc = "none" /\ load[i].pos = 0 /\ writer[i].rows = 0 /\ ~writer[i].err
    /\ load[i].pc = "send" => load[i].then \in {"rows", "close", "range", "ended"}
    /\ writer[i].pc = "recv" => writer[i].fd \in Imports
    /\ writer[i].rows <= load[i].pos
    /\ load[i].pc = "put" => writer[i].rows < load[i].pos
    /\ Position(i) = "ended" => ~LiveWriter(i) /\ ~writer[i].err
    /\ relay[i].err => relay[i].pc = "ended"
    /\ relay[i].pc = "ended" /\ ~relay[i].err => load[i].pc = "ended"
    /\ caller[i].pc = "ok" =>
         load[i].pc = "ended" /\ relay[i].pc \in {"none", "ended"} /\ ~relay[i].err

\* As long as no error is on its way, the writer has had every row read so far and none
\* was bad; it is done before the loader ends.
NothingLost(i) ==
    ~Reported(i) /\ ~caller[i].found /\ Position(i) \in {"rows", "put", "close", "range", "ended"} =>
      /\ \A k \in 1 .. load[i].pos : archive[k] = "good"
      /\ load[i].pos = writer[i].rows + (IF load[i].pc = "put" THEN 1 ELSE 0)
      /\ Position(i) \in {"close", "range", "ended"} => load[i].pos = Rows
      /\ Position(i) \in {"rows", "put", "close"} => writer[i].open
      /\ writer[i].pc \in {"remove", "create", "recv", "done"}
      /\ writer[i].pc = "done" => ~writer[i].open
      /\ Position(i) = "ended" => writer[i].pc = "done"

\* Nobody waits for one that is gone: the rows are open exactly while the loader may still
\* put one, a writer that fails then leaves an error to wake it, and only a bad row or a
\* failed writer makes the loader speak of an error before it has closed them.
AwakeOK(i) ==
    /\ load[i].pc = "send" => load[i].msg \in {"info", "error"}
    /\ load[i].pc = "dead" => caller[i].pc # "drain" /\ ~LiveWriter(i)
    /\ relay[i].pc = "dead" => caller[i].pc # "drain"
    /\ writer[i].pc = "dead" => load[i].pc = "dead"
    /\ writer[i].pc = "done" => ~writer[i].open
    /\ writer[i].err => writer[i].pc = "failed"
    /\ writer[i].open => Position(i) \in {"rows", "put", "close", "dead"}
    /\ Position(i) \in {"rows", "put", "close"} => writer[i].open
    /\ Position(i) \in {"rows", "put", "close", "range"} => writer[i].pc # "none"
    /\ Position(i) \in {"rows", "put"} /\ writer[i].pc = "failed" => writer[i].err
    /\ load[i].pc = "send" /\ load[i].then \in {"rows", "close"} =>
         ~Clean \/ writer[i].pc = "failed"

\* An import that will not touch the file any more, nor will have when it goes on.
Harmless(k) ==
    /\ ~LiveWriter(k)
    /\ LiveLoader(k) => load[k].pc = "check" \/ Position(k) = "ended"

\* An import that has been alone so far has the file for itself while it writes; when it
\* has written, the file is whole and every other import finds it.
AloneOK(i) ==
    caller[i].alone =>
      /\ Live(i) => \A k \in Imports \ {i} : ~Live(k)
      /\ writer[i].pc = "recv" => path = writer[i].fd /\ disk[path].by = {i}
      /\ writer[i].pc = "done" =>
           /\ path \in Imports
           /\ disk[path] = [more |-> TRUE, footer |-> TRUE, rows |-> writer[i].rows, by |-> {i}]
           /\ \A k \in Imports \ {i} : Harmless(k)

IInv ==
    /\ TypeOK
    /\ \A i \in Imports : StagesOK(i)
    /\ \A i \in Imports : NothingLost(i)
    /\ \A i \in Imports : AwakeOK(i)
    /\ \A i \in Imports : AloneOK(i)

-----------------------------------------------------------------------------
(* What a step does to one import's goroutines, variable by variable.       *)

Files   == [more : BOOLEAN, footer : BOOLEAN, rows : 0..Rows, by : SUBSET Imports]
Loaders == [pc : LoadLabels, msg : {"none", "info", "error"}, then : LoadLabels, pos : 0..Rows]
Writers == [pc : WriterLabels, fd : Imports \cup {None}, rows : 0..Rows,
            open : BOOLEAN, err : BOOLEAN]
Relays  == [pc : RelayLabels, err : BOOLEAN]
Callers == [pc : CallerLabels, cancelled : BOOLEAN, found : BOOLEAN, alone : BOOLEAN]

\* The loader of i goes to label l with message m, to go on at t, after n rows.
LoadIs(i, l, m, t, n) ==
    /\ load' \in [Imports -> Loaders]
    /\ load'[i].pc = l /\ load'[i].msg = m /\ load'[i].then = t /\ load'[i].pos = n
    /\ \A k \in Imports \ {i} : load'[k] = load[k]

\* The writer of i goes to label l with the file fd, n rows, its channel open, an error.
WriterIs(i, l, fd, n, open, err) ==
    /\ writer' \in [Imports -> Writers]
    /\ writer'[i].pc = l /\ writer'[i].fd = fd /\ writer'[i].rows = n
    /\ writer'[i].open = open /\ writer'[i].err = err
    /\ \A k \in Imports \ {i} : writer'[k] = writer[k]

\* The relay of i goes to label l, with or without an error.
RelayIs(i, l, err) ==
    /\ relay' \in [Imports -> Relays]
    /\ relay'[i].pc = l /\ relay'[i].err = err
    /\ \A k \in Imports \ {i} : relay'[k] = relay[k]

\* The caller of i goes to label l; only a beginning changes who has been alone.
CallerIs(i, l, found) ==
    /\ caller' \in [Imports -> Callers]
    /\ caller'[i].pc = l /\ caller'[i].found = found /\ caller'[i].alone = caller[i].alone
    /\ \A k \in Imports \ {i} : caller'[k] = caller[k]

\* TypeOK is the sets of records above.
LEMMA Types ==
    TypeOK <=> /\ archive \in [1..Rows -> RowKinds]
               /\ path \in Imports \cup {None}
               /\ disk \in [Imports -> Files]
               /\ load \in [Imports -> Loaders]
               /\ writer \in [Imports -> Writers]
               /\ relay \in [Imports -> Relays]
               /\ caller \in [Imports -> Callers]
  BY DEF TypeOK, Files, Loaders, Writers, Relays, Callers

\* A loader that moves on ...
LEMMA AtIs ==
    ASSUME load \in [Imports -> Loaders], NEW i \in Imports, NEW l \in LoadLabels, At(i, l)
    PROVE  LoadIs(i, l, load[i].msg, load[i].then, load[i].pos)
  BY DEF At, LoadIs, Loaders

\* ... one that reads a row ...
LEMMA ReadsIs ==
    ASSUME load \in [Imports -> Loaders], NEW i \in Imports, NEW n \in 0..Rows,
           load' = [load EXCEPT ![i].pc = "put", ![i].pos = n]
    PROVE  LoadIs(i, "put", load[i].msg, load[i].then, n)
  BY DEF LoadIs, Loaders, LoadLabels

\* ... one that sends ...
LEMMA SendsIs ==
    ASSUME load \in [Imports -> Loaders], NEW i \in Imports, NEW t \in LoadLabels,
           NEW m \in {"none", "info", "error"}, NEW n \in 0..Rows,
           load' = [load EXCEPT ![i] = [pc |-> "send", msg |-> m, then |-> t, pos |-> n]]
    PROVE  LoadIs(i, "send", m, t, n)
<1>1. [pc |-> "send", msg |-> m, then |-> t, pos |-> n] \in Loaders
  BY DEF Loaders, LoadLabels
<1> QED
  BY <1>1 DEF LoadIs

\* ... one whose message is taken.
LEMMA ResumeIs ==
    ASSUME load \in [Imports -> Loaders], NEW i \in Imports, Resume(i)
    PROVE  LoadIs(i, load[i].then, "none", load[i].then, load[i].pos)
<1>1. load[i] \in Loaders
  OBVIOUS
<1>2. [pc |-> load[i].then, msg |-> "none", then |-> load[i].then, pos |-> load[i].pos] \in Loaders
  BY <1>1 DEF Loaders
<1> QED
  BY <1>2 DEF Resume, LoadIs

\* A send leaves the number of rows.
LEMMA SendIs ==
    ASSUME load \in [Imports -> Loaders], NEW i \in Imports, NEW t \in LoadLabels,
           NEW m \in {"none", "info", "error"}, Send(i, m, t)
    PROVE  LoadIs(i, "send", m, t, load[i].pos)
<1>1. load[i].pos \in 0..Rows
  BY DEF Loaders
<1> QED
  BY <1>1, SendsIs DEF Send

\* A writer that fails.
LEMMA FailsIs ==
    ASSUME writer \in [Imports -> Writers], NEW i \in Imports, Fails(i)
    PROVE  WriterIs(i, "failed", writer[i].fd, writer[i].rows, writer[i].open, TRUE)
  BY DEF Fails, WriterIs, Writers, WriterLabels

\* A writer that moves on.
LEMMA MovesIs ==
    ASSUME writer \in [Imports -> Writers], NEW i \in Imports, NEW l \in WriterLabels,
           writer' = [writer EXCEPT ![i].pc = l]
    PROVE  WriterIs(i, l, writer[i].fd, writer[i].rows, writer[i].open, writer[i].err)
  BY DEF WriterIs, Writers

\* A drain that ends.
LEMMA DrainedIs ==
    ASSUME caller \in [Imports -> Callers], NEW i \in Imports, NEW l \in CallerLabels, Drained(i, l)
    PROVE  CallerIs(i, l, caller[i].found)
  BY DEF Drained, CallerIs, Callers

\* A relay that moves on ...
LEMMA RelayMovesIs ==
    ASSUME relay \in [Imports -> Relays], NEW i \in Imports, NEW l \in RelayLabels,
           relay' = [relay EXCEPT ![i].pc = l]
    PROVE  RelayIs(i, l, relay[i].err)
  BY DEF RelayIs, Relays

\* ... or ends with an error.
LEMMA RelayFailsIs ==
    ASSUME relay \in [Imports -> Relays], NEW i \in Imports,
           relay' = [relay EXCEPT ![i] = [pc |-> "ended", err |-> TRUE]]
    PROVE  RelayIs(i, "ended", TRUE)
<1>1. [pc |-> "ended", err |-> TRUE] \in Relays
  BY DEF Relays, RelayLabels
<1> QED
  BY <1>1 DEF RelayIs

\* A file to which a writer flushes rows.
LEMMA FlushIs ==
    ASSUME disk \in [Imports -> Files], NEW i \in Imports, NEW f \in Imports,
           disk' = [disk EXCEPT ![f] = [more |-> TRUE, footer |-> @.footer, rows |-> @.rows,
                                        by |-> @.by \cup {i}]]
    PROVE  /\ disk' \in [Imports -> Files]
           /\ disk'[f].by = disk[f].by \cup {i}
           /\ \A k \in Imports \ {f} : disk'[k] = disk[k]
<1> DEFINE d == disk[f]
           e == [more |-> TRUE, footer |-> d.footer, rows |-> d.rows, by |-> d.by \cup {i}]
<1>1. d \in Files
  OBVIOUS
<1>2. e \in Files /\ e.by = d.by \cup {i}
  BY <1>1 DEF Files
<1>3. disk' = [disk EXCEPT ![f] = e]
  OBVIOUS
<1> HIDE DEF e
<1> QED
  BY <1>2, <1>3

-----------------------------------------------------------------------------
(* Stages and losses: each is about one import and the archive.             *)

Sound(i) == StagesOK(i) /\ NothingLost(i) /\ AwakeOK(i)

\* A step of i leaves what the other imports' conditions are about.
Elsewhere(i) ==
    /\ archive' = archive
    /\ \A k \in Imports \ {i} :
         /\ load'[k] = load[k] /\ writer'[k] = writer[k] /\ relay'[k] = relay[k]
         /\ caller'[k].pc = caller[k].pc /\ caller'[k].found = caller[k].found

\* A step that writes no file, begins nothing, and makes no import a danger to the file.
Quiet(i) ==
    /\ UNCHANGED <<path, disk>>
    /\ \A k \in Imports : caller'[k].alone = caller[k].alone
    /\ \A k \in Imports \ {i} : load'[k] = load[k] /\ writer'[k] = writer[k]
    /\ writer'[i].pc \in {"recv", "done"} =>
         writer'[i].pc = writer[i].pc /\ writer'[i].fd = writer[i].fd /\ writer'[i].rows = writer[i].rows
    /\ Live(i)' => Live(i)
    /\ Harmless(i) => Harmless(i)'

\* The other imports stay sound.
LEMMA OthersStaySound ==
    ASSUME NEW i \in Imports, Elsewhere(i), NEW k \in Imports \ {i}, Sound(k)
    PROVE  Sound(k)'
  BY DEF Elsewhere, Sound, StagesOK, NothingLost, AwakeOK, Clean, Position, Reported, LiveWriter

\* A beginning, whether or not a relay is started with it.
LEMMA BeginStep ==
    ASSUME TypeOK, NEW i \in Imports, Begin(i)
    PROVE  /\ LoadIs(i, "check", load[i].msg, load[i].then, load[i].pos)
           /\ caller' \in [Imports -> Callers]
           /\ caller[i].pc = "idle" /\ caller'[i].pc = "drain" /\ caller'[i].found = caller[i].found
           /\ \A k \in Imports \ {i} :
                caller'[k].pc = caller[k].pc /\ caller'[k].found = caller[k].found
           /\ caller'[i].alone => \A k \in Imports : ~Live(k)
           /\ \A k \in Imports \ {i} : caller'[k].alone => caller[k].alone /\ ~Live(k)
<1>1. LoadIs(i, "check", load[i].msg, load[i].then, load[i].pos)
  BY Types, AtIs DEF Begin, At, LoadLabels
<1>2. caller' \in [Imports -> Callers]
  <2>1. \A r \in Callers, a \in BOOLEAN :
          [r EXCEPT !.alone = a] \in Callers /\ [r EXCEPT !.pc = "drain", !.alone = a] \in Callers
    BY DEF Callers, CallerLabels
  <2>2. \A k \in Imports : caller[k] \in Callers
    BY Types
  <2>3. \A k \in Imports : (caller[k].alone /\ ~Live(k)) \in BOOLEAN
    OBVIOUS
  <2>4. (\A k \in Imports : ~Live(k)) \in BOOLEAN
    OBVIOUS
  <2> QED
    BY <2>1, <2>2, <2>3, <2>4 DEF Begin
<1>3. caller[i].pc = "idle" /\ caller'[i].pc = "drain" /\ caller'[i].found = caller[i].found
  BY Types DEF Begin, Callers
<1>4. \A k \in Imports \ {i} : caller'[k].pc = caller[k].pc /\ caller'[k].found = caller[k].found
  BY Types DEF Begin, Callers
<1>5. caller'[i].alone => \A k \in Imports : ~Live(k)
  BY Types DEF Begin, Callers
<1>6. \A k \in Imports \ {i} : caller'[k].alone => caller[k].alone /\ ~Live(k)
  BY Types DEF Begin, Callers
<1> QED
  BY <1>1, <1>2, <1>3, <1>4, <1>5, <1>6

\* A request ...
LEMMA StartRequestStep ==
    ASSUME TypeOK, NEW i \in Imports, Sound(i), StartRequest(i)
    PROVE  TypeOK' /\ Elsewhere(i) /\ Sound(i)'
<1> USE BeginStep DEF StartRequest
<1>1. RelayIs(i, "relay", relay[i].err)
  BY Types, RelayMovesIs DEF RelayLabels
<1>2. TypeOK' /\ Elsewhere(i)
  BY <1>1, Types DEF Elsewhere, LoadIs, RelayIs, Files, Loaders, Writers, Relays, Callers, TypeOK
<1>3. Sound(i)'
  BY <1>1 DEF LoadIs, RelayIs, Sound, StagesOK, NothingLost, AwakeOK, Clean, Position, Reported, LiveWriter
<1> QED
  BY <1>2, <1>3

\* ... a repair.
LEMMA StartRepairStep ==
    ASSUME TypeOK, NEW i \in Imports, Sound(i), StartRepair(i)
    PROVE  TypeOK' /\ Elsewhere(i) /\ Sound(i)'
<1> USE BeginStep DEF StartRepair
<1>1. TypeOK' /\ Elsewhere(i)
  BY Types DEF Elsewhere, LoadIs, Files, Loaders, Writers, Relays, Callers, TypeOK
<1>2. Sound(i)'
  BY DEF LoadIs, Sound, StagesOK, NothingLost, AwakeOK, Clean, Position, Reported, LiveWriter
<1> QED
  BY <1>1, <1>2

\* A cancellation.
LEMMA CancelStep ==
    ASSUME TypeOK, NEW i \in Imports, Sound(i), Cancel(i)
    PROVE  TypeOK' /\ Elsewhere(i) /\ Sound(i)' /\ Quiet(i)
<1>1. CallerIs(i, caller[i].pc, caller[i].found)
  BY Types DEF Cancel, CallerIs, Callers
<1>2. TypeOK' /\ Elsewhere(i)
  BY <1>1, Types DEF Cancel, Elsewhere, CallerIs, Files, Loaders, Writers, Relays, Callers, TypeOK
<1>3. Sound(i)'
  BY <1>1 DEF Cancel, CallerIs, Sound, StagesOK, NothingLost, AwakeOK, Clean, Position, Reported, LiveWriter
<1>q. Quiet(i)
  BY <1>1 DEF Cancel, CallerIs, Sound, StagesOK, Position, LiveWriter, Quiet, Live, LiveLoader, Harmless
<1> QED
  BY <1>2, <1>3, <1>q

\* The caller drains the loader.
LEMMA DrainLoaderStep ==
    ASSUME TypeOK, NEW i \in Imports, Sound(i), DrainLoader(i)
    PROVE  TypeOK' /\ Elsewhere(i) /\ Sound(i)' /\ Quiet(i)
<1>0. /\ caller[i].pc = "drain" /\ relay[i].pc = "none"
      /\ UNCHANGED <<archive, path, disk, writer, relay>>
  BY DEF DrainLoader
<1>1. CASE Offers(i, "info") /\ Resume(i) /\ UNCHANGED caller
  <2>1. LoadIs(i, load[i].then, "none", load[i].then, load[i].pos)
    BY <1>1, Types, ResumeIs
  <2>2. TypeOK' /\ Elsewhere(i)
    BY <1>0, <1>1, <2>1, Types DEF Elsewhere, LoadIs, Files, Loaders, Writers, Relays, Callers, TypeOK
  <2>3. Sound(i)'
    BY <1>0, <1>1, <2>1 DEF Offers, LoadIs, Sound, StagesOK, NothingLost, AwakeOK, Clean, Position, Reported, LiveWriter
  <2>q. Quiet(i)
    BY <1>0, <1>1, <2>1 DEF Offers, LoadIs, Sound, StagesOK, Position, LiveWriter, Quiet, Live, LiveLoader, Harmless
  <2> QED
    BY <2>2, <2>3, <2>q
<1>2. CASE Offers(i, "error") /\ Resume(i) /\ Drained(i, "error")
  <2>1. LoadIs(i, load[i].then, "none", load[i].then, load[i].pos) /\ CallerIs(i, "error", caller[i].found)
    BY <1>2, Types, ResumeIs, DrainedIs DEF CallerLabels
  <2>2. TypeOK' /\ Elsewhere(i)
    BY <1>0, <1>2, <2>1, Types DEF Elsewhere, LoadIs, CallerIs, Files, Loaders, Writers, Relays, Callers, TypeOK
  <2>3. Sound(i)'
    BY <1>0, <1>2, <2>1 DEF Offers, LoadIs, CallerIs, Sound, StagesOK, NothingLost, AwakeOK, Clean, Position, Reported, LiveWriter
  <2>q. Quiet(i)
    BY <1>0, <1>2, <2>1 DEF Offers, LoadIs, CallerIs, Sound, StagesOK, Position, LiveWriter, Quiet, Live, LiveLoader, Harmless
  <2> QED
    BY <2>2, <2>3, <2>q
<1>3. CASE Ended(i) /\ Drained(i, "ok") /\ UNCHANGED load
  <2>1. CallerIs(i, "ok", caller[i].found)
    BY <1>3, Types, DrainedIs DEF CallerLabels
  <2>2. TypeOK' /\ Elsewhere(i)
    BY <1>0, <1>3, <2>1, Types DEF Elsewhere, CallerIs, Files, Loaders, Writers, Relays, Callers, TypeOK
  <2>3. Sound(i)'
    BY <1>0, <1>3, <2>1 DEF Ended, CallerIs, Sound, StagesOK, NothingLost, AwakeOK, Clean, Position, Reported, LiveWriter
  <2>q. Quiet(i)
    BY <1>0, <1>3, <2>1 DEF Ended, CallerIs, Sound, StagesOK, Position, LiveWriter, Quiet, Live, LiveLoader, Harmless
  <2> QED
    BY <2>2, <2>3, <2>q
<1> QED
  BY <1>1, <1>2, <1>3 DEF DrainLoader

\* The caller drains the relay.
LEMMA DrainRelayStep ==
    ASSUME TypeOK, NEW i \in Imports, Sound(i), DrainRelay(i)
    PROVE  TypeOK' /\ Elsewhere(i) /\ Sound(i)' /\ Quiet(i)
<1>0. caller[i].pc = "drain" /\ UNCHANGED <<archive, path, disk, load, writer>>
  BY DEF DrainRelay
<1>1. CASE relay[i].pc = "forward" /\ relay' = [relay EXCEPT ![i].pc = "relay"] /\ UNCHANGED caller
  <2>1. RelayIs(i, "relay", relay[i].err)
    BY <1>1, Types, RelayMovesIs DEF RelayLabels
  <2>2. TypeOK' /\ Elsewhere(i)
    BY <1>0, <1>1, <2>1, Types DEF Elsewhere, RelayIs, Files, Loaders, Writers, Relays, Callers, TypeOK
  <2>3. Sound(i)'
    BY <1>0, <1>1, <2>1 DEF RelayIs, Sound, StagesOK, NothingLost, AwakeOK, Clean, Position, Reported, LiveWriter
  <2>q. Quiet(i)
    BY <1>0, <1>1, <2>1 DEF RelayIs, Sound, StagesOK, Position, LiveWriter, Quiet, Live, LiveLoader, Harmless
  <2> QED
    BY <2>2, <2>3, <2>q
<1>2. CASE relay[i].pc = "ended" /\ relay[i].err /\ Drained(i, "error") /\ UNCHANGED relay
  <2>1. CallerIs(i, "error", caller[i].found)
    BY <1>2, Types, DrainedIs DEF CallerLabels
  <2>2. TypeOK' /\ Elsewhere(i)
    BY <1>0, <1>2, <2>1, Types DEF Elsewhere, CallerIs, Files, Loaders, Writers, Relays, Callers, TypeOK
  <2>3. Sound(i)'
    BY <1>0, <1>2, <2>1 DEF CallerIs, Sound, StagesOK, NothingLost, AwakeOK, Clean, Position, Reported, LiveWriter
  <2>q. Quiet(i)
    BY <1>0, <1>2, <2>1 DEF CallerIs, Sound, StagesOK, Position, LiveWriter, Quiet, Live, LiveLoader, Harmless
  <2> QED
    BY <2>2, <2>3, <2>q
<1>3. CASE relay[i].pc = "ended" /\ ~relay[i].err /\ Drained(i, "ok") /\ UNCHANGED relay
  <2>1. CallerIs(i, "ok", caller[i].found)
    BY <1>3, Types, DrainedIs DEF CallerLabels
  <2>2. TypeOK' /\ Elsewhere(i)
    BY <1>0, <1>3, <2>1, Types DEF Elsewhere, CallerIs, Files, Loaders, Writers, Relays, Callers, TypeOK
  <2>3. Sound(i)'
    BY <1>0, <1>3, <2>1 DEF CallerIs, Sound, StagesOK, NothingLost, AwakeOK, Clean, Position, Reported, LiveWriter
  <2>q. Quiet(i)
    BY <1>0, <1>3, <2>1 DEF CallerIs, Sound, StagesOK, Position, LiveWriter, Quiet, Live, LiveLoader, Harmless
  <2> QED
    BY <2>2, <2>3, <2>q
<1> QED
  BY <1>1, <1>2, <1>3 DEF DrainRelay

\* The caller gives up.
LEMMA DrainCancelledStep ==
    ASSUME TypeOK, NEW i \in Imports, Sound(i), DrainCancelled(i)
    PROVE  TypeOK' /\ Elsewhere(i) /\ Sound(i)' /\ Quiet(i)
<1>1. CallerIs(i, "cancelled", caller[i].found)
  BY Types, DrainedIs DEF DrainCancelled, CallerLabels
<1>2. TypeOK' /\ Elsewhere(i)
  BY <1>1, Types DEF DrainCancelled, Elsewhere, CallerIs, Files, Loaders, Writers, Relays, Callers, TypeOK
<1>3. Sound(i)'
  BY <1>1 DEF DrainCancelled, CallerIs, Sound, StagesOK, NothingLost, AwakeOK, Clean, Position, Reported, LiveWriter
<1>q. Quiet(i)
  BY <1>1 DEF DrainCancelled, CallerIs, Sound, StagesOK, Position, LiveWriter, Quiet, Live, LiveLoader, Harmless
<1> QED
  BY <1>2, <1>3, <1>q

\* The relay.
LEMMA RelayStep ==
    ASSUME TypeOK, NEW i \in Imports, Sound(i), Relay(i)
    PROVE  TypeOK' /\ Elsewhere(i) /\ Sound(i)' /\ Quiet(i)
<1>0. relay[i].pc = "relay" /\ UNCHANGED <<archive, path, disk, writer, caller>>
  BY DEF Relay
<1>1. CASE Offers(i, "info") /\ Resume(i) /\ relay' = [relay EXCEPT ![i].pc = "forward"]
  <2>1. LoadIs(i, load[i].then, "none", load[i].then, load[i].pos) /\ RelayIs(i, "forward", relay[i].err)
    BY <1>1, Types, ResumeIs, RelayMovesIs DEF RelayLabels
  <2>2. TypeOK' /\ Elsewhere(i)
    BY <1>0, <2>1, Types DEF Elsewhere, LoadIs, RelayIs, Files, Loaders, Writers, Relays, Callers, TypeOK
  <2>3. Sound(i)'
    BY <1>0, <1>1, <2>1 DEF Offers, LoadIs, RelayIs, Sound, StagesOK, NothingLost, AwakeOK, Clean, Position, Reported, LiveWriter
  <2>q. Quiet(i)
    BY <1>0, <1>1, <2>1 DEF Offers, LoadIs, RelayIs, Sound, StagesOK, Position, LiveWriter, Quiet, Live, LiveLoader, Harmless
  <2> QED
    BY <2>2, <2>3, <2>q
<1>2. CASE Offers(i, "error") /\ Resume(i) /\ relay' = [relay EXCEPT ![i] = [pc |-> "ended", err |-> TRUE]]
  <2>1. LoadIs(i, load[i].then, "none", load[i].then, load[i].pos) /\ RelayIs(i, "ended", TRUE)
    BY <1>2, Types, ResumeIs, RelayFailsIs
  <2>2. TypeOK' /\ Elsewhere(i)
    BY <1>0, <2>1, Types DEF Elsewhere, LoadIs, RelayIs, Files, Loaders, Writers, Relays, Callers, TypeOK
  <2>3. Sound(i)'
    BY <1>0, <1>2, <2>1 DEF Offers, LoadIs, RelayIs, Sound, StagesOK, NothingLost, AwakeOK, Clean, Position, Reported, LiveWriter
  <2>q. Quiet(i)
    BY <1>0, <1>2, <2>1 DEF Offers, LoadIs, RelayIs, Sound, StagesOK, Position, LiveWriter, Quiet, Live, LiveLoader, Harmless
  <2> QED
    BY <2>2, <2>3, <2>q
<1>3. CASE Ended(i) /\ relay' = [relay EXCEPT ![i].pc = "ended"] /\ UNCHANGED load
  <2>1. RelayIs(i, "ended", relay[i].err)
    BY <1>3, Types, RelayMovesIs DEF RelayLabels
  <2>2. TypeOK' /\ Elsewhere(i)
    BY <1>0, <1>3, <2>1, Types DEF Elsewhere, RelayIs, Files, Loaders, Writers, Relays, Callers, TypeOK
  <2>3. Sound(i)'
    BY <1>0, <1>3, <2>1 DEF Ended, RelayIs, Sound, StagesOK, NothingLost, AwakeOK, Clean, Position, Reported, LiveWriter
  <2>q. Quiet(i)
    BY <1>0, <1>3, <2>1 DEF Ended, RelayIs, Sound, StagesOK, Position, LiveWriter, Quiet, Live, LiveLoader, Harmless
  <2> QED
    BY <2>2, <2>3, <2>q
<1>4. CASE caller[i].cancelled /\ relay' = [relay EXCEPT ![i] = [pc |-> "ended", err |-> TRUE]] /\ UNCHANGED load
  <2>1. RelayIs(i, "ended", TRUE)
    BY <1>4, Types, RelayFailsIs
  <2>2. TypeOK' /\ Elsewhere(i)
    BY <1>0, <1>4, <2>1, Types DEF Elsewhere, RelayIs, Files, Loaders, Writers, Relays, Callers, TypeOK
  <2>3. Sound(i)'
    BY <1>0, <1>4, <2>1 DEF RelayIs, Sound, StagesOK, NothingLost, AwakeOK, Clean, Position, Reported, LiveWriter
  <2>q. Quiet(i)
    BY <1>0, <1>4, <2>1 DEF RelayIs, Sound, StagesOK, Position, LiveWriter, Quiet, Live, LiveLoader, Harmless
  <2> QED
    BY <2>2, <2>3, <2>q
<1> QED
  BY <1>1, <1>2, <1>3, <1>4 DEF Relay

\* The loader looks for the day's file ...
LEMMA CheckStep ==
    ASSUME TypeOK, NEW i \in Imports, Sound(i), Check(i)
    PROVE  TypeOK' /\ Elsewhere(i) /\ Sound(i)'
<1>0. load[i].pc = "check" /\ UNCHANGED <<archive, path, disk, writer, relay>>
  BY DEF Check
<1>1. CASE Send(i, "info", "ended") /\ caller' = [caller EXCEPT ![i].found = TRUE]
  <2>1. LoadIs(i, "send", "info", "ended", load[i].pos)
    BY <1>1, Types, SendIs DEF LoadLabels
  <2>2. CallerIs(i, caller[i].pc, TRUE)
    BY <1>1, Types DEF CallerIs, Callers
  <2>3. TypeOK' /\ Elsewhere(i)
    BY <1>0, <2>1, <2>2, Types DEF Elsewhere, LoadIs, CallerIs, Files, Loaders, Writers, Relays, Callers, TypeOK
  <2>4. Sound(i)'
    BY <1>0, <2>1, <2>2 DEF LoadIs, CallerIs, Sound, StagesOK, NothingLost, AwakeOK, Clean, Position, Reported, LiveWriter
  <2> QED
    BY <2>3, <2>4
<1>2. CASE At(i, "fetch") /\ UNCHANGED caller
  <2>1. LoadIs(i, "fetch", load[i].msg, load[i].then, load[i].pos)
    BY <1>2, Types, AtIs DEF LoadLabels
  <2>2. TypeOK' /\ Elsewhere(i)
    BY <1>0, <1>2, <2>1, Types DEF Elsewhere, LoadIs, Files, Loaders, Writers, Relays, Callers, TypeOK
  <2>3. Sound(i)'
    BY <1>0, <1>2, <2>1 DEF LoadIs, Sound, StagesOK, NothingLost, AwakeOK, Clean, Position, Reported, LiveWriter
  <2> QED
    BY <2>2, <2>3
<1> QED
  BY <1>1, <1>2 DEF Check

\* ... fetches the archive ...
LEMMA FetchStep ==
    ASSUME TypeOK, NEW i \in Imports, Sound(i), Fetch(i)
    PROVE  TypeOK' /\ Elsewhere(i) /\ Sound(i)' /\ Quiet(i)
<1>0. load[i].pc = "fetch" /\ UNCHANGED <<archive, path, disk, relay, caller>>
  BY DEF Fetch
<1>1. CASE At(i, "rows") /\ writer' = [writer EXCEPT ![i].pc = "remove", ![i].open = TRUE]
  <2>1. LoadIs(i, "rows", load[i].msg, load[i].then, load[i].pos)
    BY <1>1, Types, AtIs DEF LoadLabels
  <2>2. WriterIs(i, "remove", writer[i].fd, writer[i].rows, TRUE, writer[i].err)
    BY <1>1, Types DEF WriterIs, Writers, WriterLabels
  <2>3. TypeOK' /\ Elsewhere(i)
    BY <1>0, <2>1, <2>2, Types DEF Elsewhere, LoadIs, WriterIs, Files, Loaders, Writers, Relays, Callers, TypeOK
  <2>4. Sound(i)'
    BY <1>0, <2>1, <2>2 DEF LoadIs, WriterIs, Sound, StagesOK, NothingLost, AwakeOK, Clean, Position, Reported, LiveWriter
  <2>q. Quiet(i)
    BY <1>0, <2>1, <2>2 DEF LoadIs, WriterIs, Sound, StagesOK, Position, LiveWriter, Quiet, Live, LiveLoader, Harmless
  <2> QED
    BY <2>3, <2>4, <2>q
<1>2. CASE Send(i, "error", "ended") /\ UNCHANGED writer
  <2>1. LoadIs(i, "send", "error", "ended", load[i].pos)
    BY <1>2, Types, SendIs DEF LoadLabels
  <2>2. TypeOK' /\ Elsewhere(i)
    BY <1>0, <1>2, <2>1, Types DEF Elsewhere, LoadIs, Files, Loaders, Writers, Relays, Callers, TypeOK
  <2>3. Sound(i)'
    BY <1>0, <1>2, <2>1 DEF LoadIs, Sound, StagesOK, NothingLost, AwakeOK, Clean, Position, Reported, LiveWriter
  <2>q. Quiet(i)
    BY <1>0, <1>2, <2>1 DEF LoadIs, Sound, StagesOK, Position, LiveWriter, Quiet, Live, LiveLoader, Harmless
  <2> QED
    BY <2>2, <2>3, <2>q
<1> QED
  BY <1>1, <1>2 DEF Fetch

\* ... reads a row ...
LEMMA NextRowStep ==
    ASSUME TypeOK, NEW i \in Imports, Sound(i), NextRow(i)
    PROVE  TypeOK' /\ Elsewhere(i) /\ Sound(i)' /\ Quiet(i)
<1> DEFINE pos == load[i].pos + 1
<1>0. load[i].pc = "rows" /\ UNCHANGED <<archive, path, disk, writer, relay, caller>>
  BY DEF NextRow
<1>1. load[i].pos \in 0..Rows /\ writer[i].rows \in 0..Rows /\ Rows \in Nat
  BY Types, RowsAssumption DEF Loaders, Writers
<1>a. load[i].pos < Rows => pos \in 0..Rows
  BY <1>1
<1>2. CASE load[i].pos = Rows /\ At(i, "close")
  <2>1. LoadIs(i, "close", load[i].msg, load[i].then, load[i].pos)
    BY <1>2, Types, AtIs DEF LoadLabels
  <2>2. TypeOK' /\ Elsewhere(i)
    BY <1>0, <2>1, Types DEF Elsewhere, LoadIs, Files, Loaders, Writers, Relays, Callers, TypeOK
  <2>3. Sound(i)'
    BY <1>0, <1>1, <1>2, <2>1 DEF LoadIs, Sound, StagesOK, NothingLost, AwakeOK, Clean, Position, Reported, LiveWriter
  <2>q. Quiet(i)
    BY <1>0, <1>1, <1>2, <2>1 DEF LoadIs, Sound, StagesOK, Position, LiveWriter, Quiet, Live, LiveLoader, Harmless
  <2> QED
    BY <2>2, <2>3, <2>q
<1>3. CASE load[i].pos < Rows /\ archive[pos] = "good" /\ load' = [load EXCEPT ![i].pc = "put", ![i].pos = pos]
  <2>1. LoadIs(i, "put", load[i].msg, load[i].then, pos)
    BY <1>a, <1>3, Types, ReadsIs
  <2>2. TypeOK' /\ Elsewhere(i)
    BY <1>0, <2>1, Types DEF Elsewhere, LoadIs, Files, Loaders, Writers, Relays, Callers, TypeOK
  <2>3. StagesOK(i)'
    BY <1>0, <1>1, <2>1 DEF LoadIs, Sound, StagesOK, Position, LiveWriter
  <2>4. NothingLost(i)'
    BY <1>0, <1>1, <1>3, <2>1 DEF LoadIs, Sound, NothingLost, Position, Reported
  <2>5. AwakeOK(i)'
    BY <1>0, <2>1 DEF LoadIs, Sound, AwakeOK, Clean, Position, LiveWriter
  <2>q. Quiet(i)
    BY <1>0, <1>1, <2>1 DEF LoadIs, Sound, StagesOK, Position, LiveWriter, Quiet, Live, LiveLoader, Harmless
  <2> QED
    BY <2>2, <2>3, <2>4, <2>5, <2>q DEF Sound
<1>4. CASE /\ load[i].pos < Rows /\ archive[pos] # "good"
           /\ load' = [load EXCEPT ![i] = [pc |-> "send", msg |-> "error", pos |-> pos,
                                           then |-> IF archive[pos] = "bad" THEN "rows" ELSE "close"]]
  <2> DEFINE then == IF archive[pos] = "bad" THEN "rows" ELSE "close"
  <2>1. LoadIs(i, "send", "error", then, pos)
    BY <1>a, <1>4, Types, SendsIs DEF LoadLabels
  <2>2. TypeOK' /\ Elsewhere(i)
    BY <1>0, <2>1, Types DEF Elsewhere, LoadIs, Files, Loaders, Writers, Relays, Callers, TypeOK
  <2>3. StagesOK(i)'
    BY <1>0, <1>1, <2>1 DEF LoadIs, Sound, StagesOK, Position, LiveWriter
  <2>4. NothingLost(i)'
    BY <2>1 DEF LoadIs, NothingLost, Reported
  <2>5. AwakeOK(i)'
    <3>1. ~Clean /\ ~Clean'
      BY <1>0, <1>1, <1>4 DEF Clean
    <3> QED
      BY <1>0, <2>1, <3>1 DEF LoadIs, Sound, AwakeOK, Position, LiveWriter
  <2>q. Quiet(i)
    BY <1>0, <1>1, <2>1 DEF LoadIs, Sound, StagesOK, Position, LiveWriter, Quiet, Live, LiveLoader, Harmless
  <2> QED
    BY <2>2, <2>3, <2>4, <2>5, <2>q DEF Sound
<1> QED
  BY <1>2, <1>3, <1>4 DEF NextRow

\* ... passes the writer's error on instead of the row ...
LEMMA PutFailsStep ==
    ASSUME TypeOK, NEW i \in Imports, Sound(i), PutFails(i)
    PROVE  TypeOK' /\ Elsewhere(i) /\ Sound(i)' /\ Quiet(i)
<1>0. load[i].pc = "put" /\ writer[i].err /\ UNCHANGED <<archive, path, disk, relay, caller>>
  BY DEF PutFails, TakeWriterError
<1>1. LoadIs(i, "send", "error", "close", load[i].pos)
  BY Types, SendIs DEF PutFails, TakeWriterError, LoadLabels
<1>2. WriterIs(i, writer[i].pc, writer[i].fd, writer[i].rows, writer[i].open, FALSE)
  BY Types DEF PutFails, TakeWriterError, WriterIs, Writers
<1>3. TypeOK' /\ Elsewhere(i)
  BY <1>0, <1>1, <1>2, Types DEF Elsewhere, LoadIs, WriterIs, Files, Loaders, Writers, Relays, Callers, TypeOK
<1>4. Sound(i)'
  BY <1>0, <1>1, <1>2 DEF LoadIs, WriterIs, Sound, StagesOK, NothingLost, AwakeOK, Clean, Position, Reported, LiveWriter
<1>q. Quiet(i)
  BY <1>0, <1>1, <1>2 DEF LoadIs, WriterIs, Sound, StagesOK, Position, LiveWriter, Quiet, Live, LiveLoader, Harmless
<1> QED
  BY <1>3, <1>4, <1>q

\* ... closes the rows ...
LEMMA CloseRowsStep ==
    ASSUME TypeOK, NEW i \in Imports, Sound(i), CloseRows(i)
    PROVE  TypeOK' /\ Elsewhere(i) /\ Sound(i)' /\ Quiet(i)
<1>0. load[i].pc = "close" /\ UNCHANGED <<archive, path, disk, relay, caller>>
  BY DEF CloseRows
<1>1. LoadIs(i, "range", load[i].msg, load[i].then, load[i].pos)
  BY Types, AtIs DEF CloseRows, LoadLabels
<1>2. WriterIs(i, writer[i].pc, writer[i].fd, writer[i].rows, FALSE, writer[i].err)
  BY Types DEF CloseRows, WriterIs, Writers
<1>3. TypeOK' /\ Elsewhere(i)
  BY <1>0, <1>1, <1>2, Types DEF Elsewhere, LoadIs, WriterIs, Files, Loaders, Writers, Relays, Callers, TypeOK
<1>4. Sound(i)'
  BY <1>0, <1>1, <1>2 DEF LoadIs, WriterIs, Sound, StagesOK, NothingLost, AwakeOK, Clean, Position, Reported, LiveWriter
<1>q. Quiet(i)
  BY <1>0, <1>1, <1>2 DEF LoadIs, WriterIs, Sound, StagesOK, Position, LiveWriter, Quiet, Live, LiveLoader, Harmless
<1> QED
  BY <1>3, <1>4, <1>q

\* ... and waits for the writer, whose errors it passes on.
LEMMA RangeErrorsStep ==
    ASSUME TypeOK, NEW i \in Imports, Sound(i), RangeErrors(i)
    PROVE  TypeOK' /\ Elsewhere(i) /\ Sound(i)' /\ Quiet(i)
<1>0. load[i].pc = "range" /\ UNCHANGED <<archive, path, disk, relay, caller>>
  BY DEF RangeErrors
<1>1. CASE TakeWriterError(i, "range")
  <2>1. LoadIs(i, "send", "error", "range", load[i].pos)
    BY <1>1, Types, SendIs DEF TakeWriterError, LoadLabels
  <2>2. WriterIs(i, writer[i].pc, writer[i].fd, writer[i].rows, writer[i].open, FALSE)
    BY <1>1, Types DEF TakeWriterError, WriterIs, Writers
  <2>3. TypeOK' /\ Elsewhere(i)
    BY <1>0, <2>1, <2>2, Types DEF Elsewhere, LoadIs, WriterIs, Files, Loaders, Writers, Relays, Callers, TypeOK
  <2>4. Sound(i)'
    BY <1>0, <2>1, <2>2 DEF LoadIs, WriterIs, Sound, StagesOK, NothingLost, AwakeOK, Clean, Position, Reported, LiveWriter
  <2>q. Quiet(i)
    BY <1>0, <2>1, <2>2 DEF LoadIs, WriterIs, Sound, StagesOK, Position, LiveWriter, Quiet, Live, LiveLoader, Harmless
  <2> QED
    BY <2>3, <2>4, <2>q
<1>2. CASE ~writer[i].err /\ writer[i].pc \in {"done", "failed"} /\ Send(i, "info", "ended") /\ UNCHANGED writer
  <2>1. LoadIs(i, "send", "info", "ended", load[i].pos)
    BY <1>2, Types, SendIs DEF LoadLabels
  <2>2. TypeOK' /\ Elsewhere(i)
    BY <1>0, <1>2, <2>1, Types DEF Elsewhere, LoadIs, Files, Loaders, Writers, Relays, Callers, TypeOK
  <2>3. Sound(i)'
    BY <1>0, <1>2, <2>1 DEF LoadIs, Sound, StagesOK, NothingLost, AwakeOK, Clean, Position, Reported, LiveWriter
  <2>q. Quiet(i)
    BY <1>0, <1>2, <2>1 DEF LoadIs, Sound, StagesOK, Position, LiveWriter, Quiet, Live, LiveLoader, Harmless
  <2> QED
    BY <2>2, <2>3, <2>q
<1> QED
  BY <1>1, <1>2 DEF RangeErrors


\* The writer removes the file ...
LEMMA WriterRemoveStep ==
    ASSUME TypeOK, NEW i \in Imports, Sound(i), WriterRemove(i)
    PROVE  TypeOK' /\ Elsewhere(i) /\ Sound(i)'
<1>0. writer[i].pc = "remove" /\ path' = None /\ UNCHANGED <<archive, disk, load, relay, caller>>
  BY DEF WriterRemove
<1>1. WriterIs(i, "create", writer[i].fd, writer[i].rows, writer[i].open, writer[i].err)
  BY Types, MovesIs DEF WriterRemove, WriterLabels
<1>2. TypeOK' /\ Elsewhere(i)
  BY <1>0, <1>1, Types DEF Elsewhere, WriterIs, Files, Loaders, Writers, Relays, Callers, TypeOK
<1>3. Sound(i)'
  BY <1>0, <1>1 DEF WriterIs, Sound, StagesOK, NothingLost, AwakeOK, Clean, Position, Reported, LiveWriter
<1> QED
  BY <1>2, <1>3

\* ... creates it ...
LEMMA WriterCreateStep ==
    ASSUME TypeOK, NEW i \in Imports, Sound(i), WriterCreate(i)
    PROVE  TypeOK' /\ Elsewhere(i) /\ Sound(i)'
<1> DEFINE f == IF path = None THEN i ELSE path
<1>0. writer[i].pc = "create" /\ UNCHANGED <<archive, load, relay, caller>>
  BY DEF WriterCreate
<1>1. path' \in Imports \cup {None} /\ disk' \in [Imports -> Files] /\ f \in Imports
  <2>1. f \in Imports
    BY Types
  <2>2. [NoBytes EXCEPT !.by = {i}] \in Files
    <3>1. {i} \in SUBSET Imports
      OBVIOUS
    <3>2. NoBytes \in Files
      BY RowsAssumption DEF NoBytes, Files
    <3> QED
      BY <3>1, <3>2 DEF Files
  <2>3. path' = f \/ path' = path
    BY DEF WriterCreate, Fails
  <2>4. disk' = [disk EXCEPT ![f] = [NoBytes EXCEPT !.by = {i}]] \/ disk' = disk
    BY DEF WriterCreate, Fails
  <2> QED
    BY <2>1, <2>2, <2>3, <2>4, Types
<1>2. CASE writer' = [writer EXCEPT ![i].pc = "recv", ![i].fd = f]
  <2>1. WriterIs(i, "recv", f, writer[i].rows, writer[i].open, writer[i].err)
    BY <1>1, <1>2, Types DEF WriterIs, Writers, WriterLabels
  <2>2. TypeOK' /\ Elsewhere(i)
    BY <1>0, <1>1, <2>1, Types DEF Elsewhere, WriterIs, Files, Loaders, Writers, Relays, Callers, TypeOK
  <2>3. Sound(i)'
    BY <1>0, <1>1, <2>1 DEF WriterIs, Sound, StagesOK, NothingLost, AwakeOK, Clean, Position, Reported, LiveWriter
  <2> QED
    BY <2>2, <2>3
<1>3. CASE Fails(i)
  <2>1. WriterIs(i, "failed", writer[i].fd, writer[i].rows, writer[i].open, TRUE)
    BY <1>3, Types, FailsIs
  <2>2. TypeOK' /\ Elsewhere(i)
    BY <1>0, <1>1, <2>1, Types DEF Elsewhere, WriterIs, Files, Loaders, Writers, Relays, Callers, TypeOK
  <2>3. Sound(i)'
    BY <1>0, <2>1 DEF WriterIs, Sound, StagesOK, NothingLost, AwakeOK, Clean, Position, Reported, LiveWriter
  <2> QED
    BY <2>2, <2>3
<1> QED
  BY <1>2, <1>3 DEF WriterCreate

\* ... takes a row ...
LEMMA WriterRowStep ==
    ASSUME TypeOK, NEW i \in Imports, Sound(i), WriterRow(i)
    PROVE  TypeOK' /\ Elsewhere(i) /\ Sound(i)'
<1>0. load[i].pc = "put" /\ writer[i].pc = "recv" /\ UNCHANGED <<archive, path, relay, caller>>
  BY DEF WriterRow
<1>1. LoadIs(i, "rows", load[i].msg, load[i].then, load[i].pos)
  BY Types, AtIs DEF WriterRow, LoadLabels
<1>2. load[i].pos \in 0..Rows /\ writer[i].rows \in 0..Rows /\ writer[i].rows < load[i].pos /\ Rows \in Nat
  BY <1>0, Types, RowsAssumption DEF Loaders, Writers, Sound, StagesOK
<1>3. disk' \in [Imports -> Files]
  <2>1. writer[i].fd \in Imports
    BY <1>0 DEF Sound, StagesOK
  <2> QED
    BY <2>1, FlushIs, Types DEF WriterRow
<1>4. CASE writer' = [writer EXCEPT ![i].rows = @ + 1]
  <2>1. WriterIs(i, writer[i].pc, writer[i].fd, writer[i].rows + 1, writer[i].open, writer[i].err)
    <3>1. writer[i].rows + 1 \in 0..Rows
      BY <1>2
    <3> QED
      BY <3>1, <1>4, Types DEF WriterIs, Writers
  <2>2. TypeOK' /\ Elsewhere(i)
    BY <1>0, <1>1, <1>3, <2>1, Types DEF Elsewhere, LoadIs, WriterIs, Files, Loaders, Writers, Relays, Callers, TypeOK
  <2>3. StagesOK(i)'
    BY <1>0, <1>1, <1>2, <2>1 DEF LoadIs, WriterIs, Sound, StagesOK, Position, LiveWriter
  <2>4. NothingLost(i)'
    BY <1>0, <1>1, <1>2, <2>1 DEF LoadIs, WriterIs, Sound, NothingLost, Position, Reported
  <2>5. AwakeOK(i)'
    BY <1>0, <1>1, <2>1 DEF LoadIs, WriterIs, Sound, AwakeOK, Clean, Position, LiveWriter
  <2> QED
    BY <2>2, <2>3, <2>4, <2>5 DEF Sound
<1>5. CASE Fails(i)
  <2>1. WriterIs(i, "failed", writer[i].fd, writer[i].rows, writer[i].open, TRUE)
    BY <1>5, Types, FailsIs
  <2>2. TypeOK' /\ Elsewhere(i)
    BY <1>0, <1>1, <1>3, <2>1, Types DEF Elsewhere, LoadIs, WriterIs, Files, Loaders, Writers, Relays, Callers, TypeOK
  <2>3. Sound(i)'
    BY <1>0, <1>1, <2>1 DEF LoadIs, WriterIs, Sound, StagesOK, NothingLost, AwakeOK, Clean, Position, Reported, LiveWriter
  <2> QED
    BY <2>2, <2>3
<1> QED
  BY <1>4, <1>5 DEF WriterRow

\* ... and ends the file.
LEMMA WriterStopStep ==
    ASSUME TypeOK, NEW i \in Imports, Sound(i), WriterStop(i)
    PROVE  TypeOK' /\ Elsewhere(i) /\ Sound(i)'
<1>0. writer[i].pc = "recv" /\ ~writer[i].open /\ UNCHANGED <<archive, path, load, relay, caller>>
  BY DEF WriterStop
<1>1. disk' \in [Imports -> Files]
  <2> DEFINE d == disk[writer[i].fd]
             e == [more |-> TRUE, footer |-> TRUE, rows |-> writer[i].rows, by |-> d.by \cup {i}]
  <2>1. d \in Files /\ writer[i].rows \in 0..Rows
    BY <1>0, Types DEF Sound, StagesOK, Writers
  <2>2. e \in Files
    BY <2>1 DEF Files
  <2>3. disk' = [disk EXCEPT ![writer[i].fd] = e] \/ disk' = disk
    BY DEF WriterStop
  <2> QED
    BY <2>2, <2>3, Types
<1>2. CASE writer' = [writer EXCEPT ![i].pc = "done"]
  <2>1. WriterIs(i, "done", writer[i].fd, writer[i].rows, writer[i].open, writer[i].err)
    BY <1>2, Types, MovesIs DEF WriterLabels
  <2>2. TypeOK' /\ Elsewhere(i)
    BY <1>0, <1>1, <2>1, Types DEF Elsewhere, WriterIs, Files, Loaders, Writers, Relays, Callers, TypeOK
  <2>3. Sound(i)'
    BY <1>0, <2>1 DEF WriterIs, Sound, StagesOK, NothingLost, AwakeOK, Clean, Position, Reported, LiveWriter
  <2> QED
    BY <2>2, <2>3
<1>3. CASE Fails(i)
  <2>1. WriterIs(i, "failed", writer[i].fd, writer[i].rows, writer[i].open, TRUE)
    BY <1>3, Types, FailsIs
  <2>2. TypeOK' /\ Elsewhere(i)
    BY <1>0, <1>1, <2>1, Types DEF Elsewhere, WriterIs, Files, Loaders, Writers, Relays, Callers, TypeOK
  <2>3. Sound(i)'
    BY <1>0, <2>1 DEF WriterIs, Sound, StagesOK, NothingLost, AwakeOK, Clean, Position, Reported, LiveWriter
  <2> QED
    BY <2>2, <2>3
<1> QED
  BY <1>2, <1>3 DEF WriterStop

\* The server stops.
LEMMA CrashStep ==
    ASSUME TypeOK, \A i \in Imports : Sound(i), Crash
    PROVE  TypeOK' /\ \A i \in Imports : Sound(i)'
<1>0. UNCHANGED <<archive, path, disk>>
  BY DEF Crash
<1>1. /\ caller' \in [Imports -> Callers]
      /\ \A i \in Imports : /\ caller'[i].pc = (IF caller[i].pc = "drain" THEN "dead" ELSE caller[i].pc)
                            /\ caller'[i].found = caller[i].found
  BY Types DEF Crash, Callers, CallerLabels
<1>2. /\ load' \in [Imports -> Loaders]
      /\ \A i \in Imports : /\ load'[i].pc = (IF LiveLoader(i) THEN "dead" ELSE load[i].pc)
                            /\ load'[i].pos = load[i].pos
  BY Types DEF Crash, Loaders, LoadLabels
<1>3. /\ writer' \in [Imports -> Writers]
      /\ \A i \in Imports : /\ writer'[i].pc = (IF LiveWriter(i) THEN "dead" ELSE writer[i].pc)
                            /\ writer'[i].rows = writer[i].rows /\ writer'[i].open = writer[i].open
                            /\ writer'[i].err = writer[i].err
  BY Types DEF Crash, Writers, WriterLabels
<1>4. /\ relay' \in [Imports -> Relays]
      /\ \A i \in Imports : /\ relay'[i].pc = (IF relay[i].pc \in {"relay", "forward"} THEN "dead" ELSE relay[i].pc)
                            /\ relay'[i].err = relay[i].err
  BY Types DEF Crash, Relays, RelayLabels
<1>5. TypeOK'
  BY <1>0, <1>1, <1>2, <1>3, <1>4, Types DEF Files, Loaders, Writers, Relays, Callers, TypeOK
<1>6. ASSUME NEW i \in Imports
      PROVE  Sound(i)'
  <2>1. StagesOK(i)'
    BY <1>1, <1>2, <1>3, <1>4 DEF Sound, StagesOK, Position, LiveLoader, LiveWriter
  <2>2. NothingLost(i)'
    BY <1>0, <1>1, <1>2, <1>3, <1>4 DEF Sound, StagesOK, NothingLost, Position, Reported, LiveLoader, LiveWriter
  <2>3. AwakeOK(i)'
    BY <1>0, <1>1, <1>2, <1>3, <1>4 DEF Sound, StagesOK, AwakeOK, Clean, Position, LiveLoader, LiveWriter
  <2> QED
    BY <2>1, <2>2, <2>3 DEF Sound
<1> QED
  BY <1>5, <1>6

-----------------------------------------------------------------------------
(* Imports that are alone.                                                  *)

\* A quiet step leaves an import as alone as it was.
LEMMA QuietAlone ==
    ASSUME NEW i \in Imports, Quiet(i), NEW j \in Imports, AloneOK(j)
    PROVE  AloneOK(j)'
<1>1. CASE j = i
  <2>1. \A k \in Imports \ {i} : (Live(k)' <=> Live(k)) /\ (Harmless(k)' <=> Harmless(k))
    BY DEF Quiet, Live, LiveLoader, LiveWriter, Harmless, Position
  <2> QED
    BY <1>1, <2>1 DEF Quiet, AloneOK
<1>2. CASE j # i
  <2>1. \A k \in Imports \ {i} : (Live(k)' <=> Live(k)) /\ (Harmless(k)' <=> Harmless(k))
    BY DEF Quiet, Live, LiveLoader, LiveWriter, Harmless, Position
  <2>2. writer'[j] = writer[j]
    BY <1>2 DEF Quiet
  <2> QED
    BY <1>2, <2>1, <2>2 DEF Quiet, AloneOK
<1> QED
  BY <1>1, <1>2

\* A beginning ends the loneliness of those that are running.
LEMMA BeginAlone ==
    ASSUME TypeOK, NEW i \in Imports, Sound(i), Begin(i), UNCHANGED <<path, disk, writer>>,
           NEW j \in Imports, AloneOK(j)
    PROVE  AloneOK(j)'
<1>1. writer[i].pc = "none" /\ load'[i].pc = "check"
  BY BeginStep DEF Sound, StagesOK, LoadIs
<1>2. \A k \in Imports \ {i} : load'[k] = load[k]
  BY BeginStep DEF LoadIs
<1>3. \A k \in Imports \ {i} : (Live(k)' <=> Live(k)) /\ (Harmless(k)' <=> Harmless(k))
  BY <1>2 DEF Live, LiveLoader, LiveWriter, Harmless, Position
<1>4. CASE j = i
  BY <1>1, <1>3, <1>4, BeginStep DEF AloneOK
<1>5. CASE j # i
  <2>1. Harmless(i)'
    BY <1>1 DEF Harmless, LiveWriter
  <2>2. caller'[j].alone => caller[j].alone /\ ~Live(j)'
    BY <1>3, <1>5, BeginStep
  <2> QED
    BY <1>3, <1>5, <2>1, <2>2 DEF AloneOK, Live, LiveWriter
<1> QED
  BY <1>4, <1>5

\* An import that finds a whole day goes no further.
LEMMA CheckAlone ==
    ASSUME TypeOK, NEW i \in Imports, Sound(i), Check(i), NEW j \in Imports, AloneOK(j)
    PROVE  AloneOK(j)'
<1>0. load[i].pc = "check" /\ writer[i].pc = "none" /\ UNCHANGED <<path, disk, writer>>
  BY DEF Check, Sound, StagesOK
<1>1. \A k \in Imports : caller'[k].alone = caller[k].alone
  BY Types DEF Check, Callers
<1>2. \A k \in Imports \ {i} : load'[k] = load[k]
  BY Types, SendIs, AtIs DEF Check, LoadIs, LoadLabels
<1>3. FileExists => load'[i].pc = "send" /\ load'[i].then = "ended"
  BY Types, SendIs DEF Check, LoadIs, LoadLabels
<1>4. \A k \in Imports \ {i} : (Live(k)' <=> Live(k)) /\ (Harmless(k)' <=> Harmless(k))
  BY <1>0, <1>2 DEF Live, LiveLoader, LiveWriter, Harmless, Position
<1>5. Live(i)
  BY <1>0 DEF Live, LiveLoader
<1>6. CASE j = i
  BY <1>0, <1>1, <1>4, <1>5, <1>6 DEF AloneOK
<1>7. CASE j # i
  <2>1. caller[j].alone /\ writer[j].pc = "done" => FileExists
    BY NoneAssumption DEF AloneOK, FileExists
  <2>2. caller[j].alone /\ writer[j].pc = "done" => Harmless(i)'
    BY <1>0, <1>3, <2>1 DEF Harmless, LiveWriter, Position
  <2> QED
    BY <1>0, <1>1, <1>4, <1>5, <1>7, <2>2 DEF AloneOK
<1> QED
  BY <1>6, <1>7

\* A writer at work: nobody else is alone, and what an alone writer finds is its own.
LEMMA WriterAlone ==
    ASSUME TypeOK, NEW i \in Imports, Sound(i), LiveWriter(i),
           \A k \in Imports \ {i} : load'[k] = load[k] /\ writer'[k] = writer[k],
           UNCHANGED caller,
           caller[i].alone =>
             /\ writer'[i].pc = "recv" => path' = writer'[i].fd /\ disk'[path'].by = {i}
             /\ writer'[i].pc = "done" =>
                  /\ path' \in Imports
                  /\ disk'[path'] =
                       [more |-> TRUE, footer |-> TRUE, rows |-> writer'[i].rows, by |-> {i}],
           NEW j \in Imports, AloneOK(j)
    PROVE  AloneOK(j)'
<1>1. Live(i)
  BY DEF Live
<1>2. \A k \in Imports \ {i} : (Live(k)' <=> Live(k)) /\ (~Live(k) => Harmless(k)')
  BY DEF Live, LiveLoader, LiveWriter, Harmless, Position
<1>3. CASE j = i
  BY <1>1, <1>2, <1>3 DEF AloneOK
<1>4. CASE j # i
  <2>1. caller[j].alone => ~Live(j) /\ writer[j].pc # "done" /\ writer[j].pc # "recv"
    BY <1>1, <1>4 DEF AloneOK, Live, LiveWriter, Harmless
  <2>2. caller[j].alone => ~Live(j)'
    BY <1>2, <1>4, <2>1
  <2> QED
    BY <1>4, <2>1, <2>2 DEF AloneOK
<1> QED
  BY <1>3, <1>4

\* The steps of a writer.
LEMMA WritersAlone ==
    ASSUME TypeOK, NEW i \in Imports, Sound(i), AloneOK(i), Writer(i), NEW j \in Imports, AloneOK(j)
    PROVE  AloneOK(j)'
<1>1. CASE WriterRemove(i)
  <2>1. WriterIs(i, "create", writer[i].fd, writer[i].rows, writer[i].open, writer[i].err)
    BY <1>1, Types, MovesIs DEF WriterRemove, WriterLabels
  <2> QED
    BY <1>1, <2>1, WriterAlone DEF WriterRemove, LiveWriter, WriterIs
<1>2. CASE WriterCreate(i)
  <2> DEFINE f == IF path = None THEN i ELSE path
  <2>0. writer[i].pc = "create" /\ UNCHANGED <<load, caller>> /\ f \in Imports
    BY <1>2, Types DEF WriterCreate
  <2>1. CASE Fails(i)
    <3>1. WriterIs(i, "failed", writer[i].fd, writer[i].rows, writer[i].open, TRUE)
      BY <2>1, Types, FailsIs
    <3> QED
      BY <2>0, <3>1, WriterAlone DEF LiveWriter, WriterIs
  <2>2. CASE /\ path' = f
             /\ disk' = [disk EXCEPT ![f] = [NoBytes EXCEPT !.by = {i}]]
             /\ writer' = [writer EXCEPT ![i].pc = "recv", ![i].fd = f]
    <3>1. WriterIs(i, "recv", f, writer[i].rows, writer[i].open, writer[i].err)
      BY <2>0, <2>2, Types DEF WriterIs, Writers, WriterLabels
    <3>2. disk'[f].by = {i}
      BY <2>0, <2>2, Types DEF NoBytes, Files
    <3> QED
      BY <2>0, <2>2, <3>1, <3>2, WriterAlone DEF LiveWriter, WriterIs
  <2> QED
    BY <1>2, <2>1, <2>2 DEF WriterCreate
<1>3. CASE WriterRow(i)
  <2>0. /\ writer[i].pc = "recv" /\ writer[i].fd \in Imports /\ UNCHANGED <<path, caller>>
        /\ \A k \in Imports \ {i} : load'[k] = load[k]
    BY <1>3, Types, AtIs DEF WriterRow, Sound, StagesOK, LoadIs, LoadLabels
  <2>1. /\ \A k \in Imports \ {i} : writer'[k] = writer[k]
        /\ writer'[i].pc \in {"recv", "failed"} /\ writer'[i].fd = writer[i].fd
    BY <1>3, <2>0, Types DEF WriterRow, Fails, Writers
  <2>2. caller[i].alone => path = writer[i].fd /\ disk[path].by = {i}
    BY <2>0 DEF AloneOK
  <2>3. disk'[writer[i].fd].by \in {disk[writer[i].fd].by, disk[writer[i].fd].by \cup {i}}
    BY <1>3, <2>0, Types, FlushIs DEF WriterRow
  <2> QED
    BY <2>0, <2>1, <2>2, <2>3, WriterAlone DEF LiveWriter
<1>4. CASE WriterStop(i)
  <2>0. writer[i].pc = "recv" /\ writer[i].fd \in Imports /\ UNCHANGED <<path, load, caller>>
    BY <1>4 DEF WriterStop, Sound, StagesOK
  <2>1. CASE Fails(i)
    <3>1. WriterIs(i, "failed", writer[i].fd, writer[i].rows, writer[i].open, TRUE)
      BY <2>1, Types, FailsIs
    <3> QED
      BY <2>0, <3>1, WriterAlone DEF LiveWriter, WriterIs
  <2>2. CASE /\ disk' = [disk EXCEPT ![writer[i].fd] =
                           [more |-> TRUE, footer |-> TRUE, rows |-> writer[i].rows,
                            by |-> disk[writer[i].fd].by \cup {i}]]
             /\ writer' = [writer EXCEPT ![i].pc = "done"]
    <3>1. WriterIs(i, "done", writer[i].fd, writer[i].rows, writer[i].open, writer[i].err)
      BY <2>2, Types, MovesIs DEF WriterLabels
    <3>2. caller[i].alone => path = writer[i].fd /\ disk[path].by = {i}
      BY <2>0 DEF AloneOK
    <3>3. disk'[writer[i].fd] = [more |-> TRUE, footer |-> TRUE, rows |-> writer[i].rows,
                                 by |-> disk[writer[i].fd].by \cup {i}]
      BY <2>0, <2>2, Types
    <3>4. {i} \cup {i} = {i}
      OBVIOUS
    <3>5. caller[i].alone =>
            disk'[path] = [more |-> TRUE, footer |-> TRUE, rows |-> writer[i].rows, by |-> {i}]
      BY <3>2, <3>3, <3>4
    <3> QED
      BY <2>0, <3>1, <3>2, <3>5, WriterAlone DEF LiveWriter, WriterIs
  <2> QED
    BY <1>4, <2>1, <2>2 DEF WriterStop
<1> QED
  BY <1>1, <1>2, <1>3, <1>4 DEF Writer

\* After a crash nobody runs.
LEMMA CrashAlone ==
    ASSUME TypeOK, Crash, NEW j \in Imports, AloneOK(j)
    PROVE  AloneOK(j)'
<1>1. UNCHANGED <<path, disk>>
  BY DEF Crash
<1>2. \A k \in Imports : caller'[k].alone = caller[k].alone
  BY Types DEF Crash, Callers
<1>3. \A k \in Imports : load'[k].pc \in {"new", "ended", "dead"}
  BY Types DEF Crash, Loaders, LiveLoader
<1>4. \A k \in Imports : /\ writer'[k].pc \notin {"remove", "create", "recv"}
                         /\ writer'[k].pc = "done" => writer[k].pc = "done" /\ writer'[k].rows = writer[k].rows
  BY Types DEF Crash, Writers, LiveWriter
<1>5. \A k \in Imports : ~Live(k)' /\ Harmless(k)'
  BY <1>3, <1>4 DEF Live, LiveLoader, LiveWriter, Harmless
<1> QED
  BY <1>1, <1>2, <1>4, <1>5 DEF AloneOK

-----------------------------------------------------------------------------
(* The invariant.                                                           *)

\* The steps of an import.
Step(i) ==
    \/ StartRequest(i) \/ StartRepair(i) \/ Cancel(i)
    \/ Caller(i) \/ Relay(i) \/ Loader(i) \/ Writer(i)

\* What one import does.
LEMMA StepSound ==
    ASSUME TypeOK, NEW i \in Imports, Sound(i), Step(i)
    PROVE  TypeOK' /\ Elsewhere(i) /\ Sound(i)'
  BY StartRequestStep, StartRepairStep, CancelStep, DrainLoaderStep, DrainRelayStep, DrainCancelledStep,
     RelayStep, CheckStep, FetchStep, NextRowStep, PutFailsStep, CloseRowsStep, RangeErrorsStep,
     WriterRemoveStep, WriterCreateStep, WriterRowStep, WriterStopStep
     DEF Step, Caller, Loader, Writer

\* What it means for the imports that are alone.
LEMMA StepAlone ==
    ASSUME TypeOK, NEW i \in Imports, Sound(i), AloneOK(i), Step(i), NEW j \in Imports, AloneOK(j)
    PROVE  AloneOK(j)'
<1>1. CASE StartRequest(i) \/ StartRepair(i)
  BY <1>1, BeginAlone DEF StartRequest, StartRepair
<1>2. CASE Check(i)
  BY <1>2, CheckAlone
<1>3. CASE Writer(i)
  BY <1>3, WritersAlone
<1>4. CASE \/ Cancel(i) \/ Caller(i) \/ Relay(i) \/ Fetch(i) \/ NextRow(i) \/ PutFails(i)
           \/ CloseRows(i) \/ RangeErrors(i)
  <2>1. Quiet(i)
    BY <1>4, CancelStep, DrainLoaderStep, DrainRelayStep, DrainCancelledStep, RelayStep, FetchStep,
       NextRowStep, PutFailsStep, CloseRowsStep, RangeErrorsStep DEF Caller
  <2> QED
    BY <2>1, QuietAlone
<1> QED
  BY <1>1, <1>2, <1>3, <1>4 DEF Step, Loader

\* It holds at the start ...
LEMMA InitIInv == Init => IInv
<1> SUFFICES ASSUME Init PROVE IInv
  OBVIOUS
<1>1. archive \in [1..Rows -> RowKinds] /\ path \in Imports \cup {None}
  BY DEF Init
<1>2. disk \in [Imports -> Files]
  <2>1. NoBytes \in Files
    BY RowsAssumption DEF NoBytes, Files
  <2> QED
    BY <2>1 DEF Init
<1>3. load \in [Imports -> Loaders] /\ \A i \in Imports : load[i].pc = "new" /\ load[i].pos = 0
  BY RowsAssumption DEF Init, Loaders, LoadLabels
<1>4. /\ writer \in [Imports -> Writers]
      /\ \A i \in Imports : writer[i].pc = "none" /\ writer[i].rows = 0 /\ ~writer[i].err
  BY RowsAssumption DEF Init, Writers, WriterLabels
<1>5. relay \in [Imports -> Relays] /\ \A i \in Imports : relay[i].pc = "none" /\ ~relay[i].err
  BY DEF Init, Relays, RelayLabels
<1>6. caller \in [Imports -> Callers] /\ \A i \in Imports : caller[i].pc = "idle" /\ ~caller[i].alone
  BY DEF Init, Callers, CallerLabels
<1>7. TypeOK
  BY <1>1, <1>2, <1>3, <1>4, <1>5, <1>6, Types
<1>a. \A i \in Imports : ~writer[i].open
  BY DEF Init
<1>8. \A i \in Imports : StagesOK(i) /\ NothingLost(i) /\ AwakeOK(i) /\ AloneOK(i)
  BY <1>3, <1>4, <1>5, <1>6, <1>a DEF StagesOK, NothingLost, AwakeOK, AloneOK, Position, Reported, LiveWriter
<1> QED
  BY <1>7, <1>8 DEF IInv

\* ... and every step keeps it.
LEMMA NextIInv == IInv /\ [Next]_vars => IInv'
<1> SUFFICES ASSUME IInv, [Next]_vars PROVE IInv'
  OBVIOUS
<1>0. TypeOK /\ \A i \in Imports : Sound(i) /\ AloneOK(i)
  BY DEF IInv, Sound
<1>1. CASE Crash
  <2>1. TypeOK' /\ \A i \in Imports : Sound(i)'
    BY <1>0, <1>1, CrashStep
  <2>2. \A i \in Imports : AloneOK(i)'
    BY <1>0, <1>1, CrashAlone
  <2> QED
    BY <2>1, <2>2 DEF IInv, Sound
<1>2. ASSUME NEW i \in Imports, Step(i)
      PROVE  IInv'
  <2>1. TypeOK' /\ Elsewhere(i) /\ Sound(i)'
    BY <1>0, <1>2, StepSound
  <2>2. \A k \in Imports : Sound(k)'
    BY <1>0, <2>1, OthersStaySound
  <2>3. \A k \in Imports : AloneOK(k)'
    BY <1>0, <1>2, StepAlone
  <2> QED
    BY <2>1, <2>2, <2>3 DEF IInv, Sound
<1>3. CASE UNCHANGED vars
  <2>1. TypeOK' /\ (\A i \in Imports : StagesOK(i)' /\ NothingLost(i)')
    BY <1>3 DEF vars, IInv, TypeOK, StagesOK, NothingLost, Position, Reported, LiveWriter
  <2>2. \A i \in Imports : AwakeOK(i)'
    BY <1>3 DEF vars, IInv, AwakeOK, Clean, Position, LiveWriter
  <2>3. \A i \in Imports : AloneOK(i)'
    BY <1>3 DEF vars, IInv, AloneOK, Position, Harmless, Live, LiveLoader, LiveWriter
  <2> QED
    BY <2>1, <2>2, <2>3 DEF IInv
<1> QED
  BY <1>1, <1>2, <1>3 DEF Next, Step

\* The state is always well typed.
THEOREM TypeCorrect == Spec => []TypeOK
<1>1. IInv => TypeOK
  BY DEF IInv
<1> QED
  BY <1>1, InitIInv, NextIInv, PTL DEF Spec

\* The invariant says what success means.
LEMMA OkFromIInv == IInv => OkImportWroteAll
<1> SUFFICES ASSUME IInv, NEW i \in Imports, caller[i].pc = "ok", ~caller[i].found
             PROVE  Clean /\ writer[i].pc = "done" /\ writer[i].rows = Rows
  BY DEF OkImportWroteAll
<1>1. StagesOK(i) /\ NothingLost(i)
  BY DEF IInv
<1>2. load[i].pc = "ended" /\ ~relay[i].err /\ ~writer[i].err
  BY <1>1 DEF StagesOK, Position
<1>3. ~Reported(i) /\ Position(i) = "ended"
  BY <1>2 DEF Reported, Position
<1>4. load[i].pos \in 0..Rows /\ writer[i].rows \in 0..Rows
  BY Types DEF IInv, Loaders, Writers
<1> QED
  BY <1>1, <1>2, <1>3, <1>4, RowsAssumption DEF NothingLost, Clean

\* Success is reported only when every row of a clean archive has been written.
THEOREM OkWroteAll == Spec => []OkImportWroteAll
  BY OkFromIInv, InitIInv, NextIInv, PTL DEF Spec

\* An import that had the day for itself leaves it whole, and nobody spoils it later.
THEOREM AloneLeavesTheDay == Spec => []AloneImportLeavesTheDay
<1>1. IInv => AloneImportLeavesTheDay
  <2> SUFFICES ASSUME IInv, NEW i \in Imports, caller[i].pc = "ok", caller[i].alone, ~caller[i].found
               PROVE  path # None /\ Whole(path)
    BY DEF AloneImportLeavesTheDay
  <2>1. writer[i].pc = "done" /\ writer[i].rows = Rows
    BY OkFromIInv DEF OkImportWroteAll
  <2>2. path \in Imports /\ disk[path] = [more |-> TRUE, footer |-> TRUE, rows |-> Rows, by |-> {i}]
    BY <2>1 DEF IInv, AloneOK
  <2>3. disk[path].footer /\ disk[path].rows = Rows /\ disk[path].by = {i}
    BY <2>2
  <2>4. Cardinality({i}) = 1
    BY FS_Singleton
  <2> QED
    BY <2>2, <2>3, <2>4, NoneAssumption DEF Whole, Readable
<1> QED
  BY <1>1, InitIInv, NextIInv, PTL DEF Spec

\* A loader that sends is heard as long as its caller drains.
LEMMA SendIsHeard ==
    ASSUME IInv, NEW i \in Imports, caller[i].pc = "drain", load[i].pc \in {"send", "ended"}
    PROVE  CallerRuns(i) \/ RelayRuns(i)
<1>1. Offers(i, "info") \/ Offers(i, "error") \/ Ended(i)
  BY DEF IInv, AwakeOK, Offers, Ended
<1>2. relay[i].pc \in {"none", "relay", "forward", "ended"}
  BY Types DEF IInv, AwakeOK, Relays, RelayLabels
<1> QED
  BY <1>1, <1>2 DEF CallerRuns, RelayRuns

\* A loader with a row to put, or one that waits for the writer, is not left alone by it.
LEMMA WriterIsThere ==
    ASSUME IInv, NEW i \in Imports, load[i].pc \in {"put", "range"}
    PROVE  LoaderRuns(i) \/ WriterRuns(i)
<1>1. AwakeOK(i) /\ writer[i].pc \in WriterLabels /\ writer[i].open \in BOOLEAN
  BY Types DEF IInv, Writers
<1> QED
  BY <1>1 DEF AwakeOK, Position, LoaderRuns, WriterRuns, WriterLabels

\* An import whose caller waits, or whose writer has begun on a clean archive, can go on.
THEOREM NobodyStuck == Spec => []NobodyIsStuck
<1>1. ASSUME IInv, NEW i \in Imports, caller[i].pc = "drain"
      PROVE  Runs(i)
  <2>1. load[i].pc \in LoadLabels /\ load[i].pc \notin {"new", "dead"}
    BY <1>1, Types DEF IInv, StagesOK, AwakeOK, Loaders
  <2>2. CASE load[i].pc \in {"check", "fetch", "rows", "close"}
    BY <2>2 DEF LoaderRuns, Runs
  <2>3. CASE load[i].pc \in {"put", "range"}
    BY <1>1, <2>3, WriterIsThere DEF Runs
  <2>4. CASE load[i].pc \in {"send", "ended"}
    BY <1>1, <2>4, SendIsHeard DEF Runs
  <2> QED
    BY <2>1, <2>2, <2>3, <2>4 DEF LoadLabels
<1>2. ASSUME IInv, NEW i \in Imports, LiveWriter(i), Clean
      PROVE  Runs(i)
  <2>1. writer[i].pc \in {"remove", "create", "recv"} /\ writer[i].open \in BOOLEAN
    BY <1>2, Types DEF IInv, Writers, LiveWriter
  <2>2. CASE writer[i].pc # "recv" \/ ~writer[i].open
    BY <2>1, <2>2 DEF WriterRuns, Runs
  <2>3. CASE writer[i].pc = "recv" /\ writer[i].open
    <3>1. Position(i) \in {"rows", "put", "close"} /\ load[i].pc # "dead"
      BY <1>2, <2>3 DEF IInv, StagesOK, AwakeOK, Position
    <3>2. load[i].pc # "send" \/ load[i].then = "put"
      BY <1>2, <2>3, <3>1 DEF IInv, AwakeOK, Position
    <3>3. load[i].pc = "send" => load[i].then # "put"
      BY <1>2 DEF IInv, StagesOK
    <3>4. load[i].pc \in {"rows", "put", "close"}
      BY <3>1, <3>2, <3>3 DEF Position
    <3> QED
      BY <2>3, <3>4 DEF LoaderRuns, WriterRuns, Runs
  <2> QED
    BY <2>1, <2>2, <2>3
<1>3. IInv => NobodyIsStuck
  BY <1>1, <1>2 DEF NobodyIsStuck
<1> QED
  BY <1>3, InitIInv, NextIInv, PTL DEF Spec
=============================================================================
