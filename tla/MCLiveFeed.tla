---------------------------- MODULE MCLiveFeed -----------------------------
(* An instance of LiveFeed for TLC: a device whose first record has no fix *)
(* and that then moves twice, and one that sends nothing.                  *)
EXTENDS LiveFeed, TLC

CONSTANTS d1, d2, home, away, noFix

FixThenMove == <<noFix, home, away>>
OneMoves == d1 :> 3 @@ d2 :> 0
=============================================================================
