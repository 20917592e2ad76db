----------------------------- MODULE MCLiveRun ------------------------------
(* LiveRun with a few launches, rounds and ticks.                          *)
EXTENDS LiveRun
=============================================================================
