------------------------------ MODULE HourStore ------------------------------
(***************************************************************************)
(* What the hourly cache promises its readers, whatever runs at once: a    *)
(* path is missing or holds, complete in itself, the first candles of its  *)
(* hour with no hole between them, none fetched for a later day than the   *)
(* path's.  A step replaces one file as a whole.                           *)
(***************************************************************************)
EXTENDS Naturals

CONSTANTS LastDay, HoursPerDay, FramesPerHour

VARIABLE file

Days  == 0..LastDay
Hours == 0..(HoursPerDay - 1)
Slots == 0..(FramesPerHour - 1)

\* The first candles of hour p[2], as rows that day p[1] may hold.
HourPrefix(s, p) ==
    /\ DOMAIN s # {}
    /\ DOMAIN s \subseteq {p[2]} \X Slots
    /\ \A t \in DOMAIN s : \A r \in Slots : r < t[2] => <<t[1], r>> \in DOMAIN s
    /\ \A t \in DOMAIN s : s[t].day <= p[1]

Init == file = [p \in Days \X Hours |-> [x \in {} |-> 0]]

Put(p, s) ==
    /\ HourPrefix(s, p)
    /\ file' = [file EXCEPT ![p] = s]

Next == \E p \in Days \X Hours : Put(p, file'[p])

Spec == Init /\ [][Next]_file
=============================================================================
