-------------------------- MODULE MC_WorkerRuntime --------------------------
(* Two jobs, thresholds of one and two intervals.                          *)
EXTENDS WorkerRuntime
=============================================================================
