---------------------------- MODULE MCRestClient ----------------------------
(* RestClient with the margins and the delays of limits.go.                 *)
EXTENDS RestClient

\* 15, 5 and 1 seconds within 50, 200 and 500 of the cap.
MCMargins == <<50, 200, 500>>
MCDelays == <<15, 5, 1>>
=============================================================================
