---------------------------- MODULE MCTimedSeries ----------------------------
(* Small instances of TimedSeries for TLC.                                 *)
EXTENDS TimedSeries
=============================================================================
