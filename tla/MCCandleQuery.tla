---------------------------- MODULE MCCandleQuery ----------------------------
(* Instances of CandleQuery: two past days and today, of two hours of two   *)
(* candles each.  A day is 8 ms, an hour 4 ms, a candle 2 ms.               *)
EXTENDS CandleQuery

\* A complete archive, and one that lacks the second candle of day 0.
MCArchives == {Opens(0, Midnight(LastDay + 1)) \ {2}}

\* Bounds inside a candle; two whole days and more than the first hour of day 2; day 1
\* and the first hour of day 2, asked for on day 1 perhaps.
MCRanges == {<<3, 20>>, <<8, 20>>}

\* From the afternoon of day 0 to the morning of day 1.
MCMorning == {<<4, 10>>}

MCComplete == {Opens(0, Midnight(LastDay + 1))}
=============================================================================
