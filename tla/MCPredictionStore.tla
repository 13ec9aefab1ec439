-------------------------- MODULE MCPredictionStore --------------------------
(* Instances of PredictionStore: days of two hours of one window.  The       *)
(* server starts in the last hour of day 2 and runs into day 3.              *)
EXTENDS PredictionStore

\* The window of day 1 that requests ask for has no history.
MCHistory == Time \ {3}

\* From day 1, which the poller never touches, to the end of the day on which the server
\* starts.
MCRanges == {<<3, 6>>}
=============================================================================
