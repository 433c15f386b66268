------------------------- MODULE MCLatestTelemetry -------------------------
(* Instances of LatestTelemetry for TLC: times 1 and 2 are of second 1,    *)
(* times 3 and 4 of second 2, and so on.                                   *)
EXTENDS LatestTelemetry

HalfSeconds(t)   == (t + 1) \div 2
FirstHalf(n)     == IF n = 0 THEN 0 ELSE 2 * n - 1
=============================================================================
