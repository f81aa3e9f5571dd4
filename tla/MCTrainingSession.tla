------------------------- MODULE MCTrainingSession --------------------------
(***************************************************************************)
(* Epochs of two steps, checkpoints every second epoch.  The plans of the  *)
(* fault run share tokenizer, model and judged loss and train three        *)
(* epochs; those of the configuration run train up to four and differ in   *)
(* tokenizer, model, judged loss and where they stop.                      *)
(***************************************************************************)
EXTENDS TrainingDurability

CONSTANTS tokA, tokB, modelA, modelB

MCLosses == {1, 2}
MCNoTarget == -1

Training(incremental, by_val, epochs) ==
  [incremental |-> incremental, dry_run |-> FALSE, last_epoch |-> epochs,
   stop_after_epoch |-> 0, by_val |-> by_val, tok |-> tokA, model |-> modelA]

FaultPlans ==
  {Training(TRUE, FALSE, 3), Training(TRUE, TRUE, 3), Training(FALSE, TRUE, 3)}

CrashPlans == {Training(TRUE, TRUE, 3), Training(FALSE, TRUE, 3)}

ConfigPlans ==
  {Training(TRUE, TRUE, 4),
   [Training(TRUE, FALSE, 4) EXCEPT !.stop_after_epoch = 1],
   [Training(FALSE, TRUE, 4) EXCEPT !.stop_after_epoch = 2],
   [Training(TRUE, TRUE, 4) EXCEPT !.tok = tokB],
   [Training(TRUE, FALSE, 4) EXCEPT !.model = modelB],
   [Training(TRUE, TRUE, 4) EXCEPT !.dry_run = TRUE, !.last_epoch = 2]}
=============================================================================
