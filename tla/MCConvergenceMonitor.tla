------------------------ MODULE MCConvergenceMonitor ------------------------
(***************************************************************************)
(* A plan of three epochs with losses 1, 2 and 4: 4 -> 2 and 4 -> 1 improve *)
(* by more than min_delta, 2 -> 1 does not; 1 is the target.               *)
(***************************************************************************)
EXTENDS ConvergenceMonitor

MCLosses == {1, 2, 4}
=============================================================================
