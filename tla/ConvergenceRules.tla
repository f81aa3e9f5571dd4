-------------------------- MODULE ConvergenceRules --------------------------
(***************************************************************************)
(* The rules of ConvergenceMonitor as operators on a monitor record: what  *)
(* one observed epoch does to it, what a checkpoint keeps of it, and what  *)
(* a resume makes of the kept part.  ConvergenceMonitor.tla runs the rules *)
(* alone, TrainingSession.tla inside a training session.                   *)
(*                                                                         *)
(* Losses are floats in the code.  The rules only subtract, compare and    *)
(* test them for finiteness, so a finite loss is an integer here and every *)
(* non-finite one is the single value NonFinite.                           *)
(***************************************************************************)
EXTENDS Integers

CONSTANTS
  Losses,            \* the finite losses an epoch can report
  NonFinite,         \* NaN or an infinity
  NoVal,             \* val_loss is empty: validation did not run this epoch
  MinDelta,          \* training.min_delta
  MinEpochs,         \* training.min_epochs
  PatienceEpochs,    \* training.patience_epochs; 0: no patience rule
  TargetLoss,        \* training.target_loss; negative: no target
  StopOnNonfinite    \* training.stop_on_nonfinite_loss

ASSUME RulesAssumption ==
  /\ Losses \subseteq Int
  /\ NonFinite \notin Int
  /\ NoVal \notin Int \cup {NonFinite}
  /\ MinDelta \in Nat
  /\ MinEpochs \in Nat
  /\ PatienceEpochs \in Nat
  /\ TargetLoss \in Int
  /\ StopOnNonfinite \in BOOLEAN

StopReasons == {"None", "TargetLoss", "Patience", "NonFiniteLoss"}

(* The members of ConvergenceMonitor; last_val_loss_ and the stop message  *)
(* are only reported.                                                      *)
MonitorState ==
  [has_best : BOOLEAN,
   best_loss : Int,
   best_epoch : Nat,
   last_epoch_loss : Int \cup {NonFinite},
   epochs_without_improvement : Nat,
   last_judged_epoch : Nat,
   stop_requested : BOOLEAN,
   stop_reason : StopReasons]

(* CheckpointConvergenceState: what a checkpoint keeps.  The epoch that    *)
(* was judged last is not kept.                                            *)
KeptState ==
  [best_loss : Int,
   last_epoch_loss : Int \cup {NonFinite},
   best_epoch : Nat,
   epochs_without_improvement : Nat,
   has_best : BOOLEAN,
   stop_requested : BOOLEAN,
   best_is_val : BOOLEAN,
   stop_reason : StopReasons]

(* reset() *)
ResetMonitor ==
  [has_best |-> FALSE,
   best_loss |-> 0,
   best_epoch |-> 0,
   last_epoch_loss |-> -1,
   epochs_without_improvement |-> 0,
   last_judged_epoch |-> 0,
   stop_requested |-> FALSE,
   stop_reason |-> "None"]

(* The first reason to stop is the one that is kept. *)
RequestStop(m, reason) ==
  IF m.stop_requested
  THEN m
  ELSE [m EXCEPT !.stop_requested = TRUE, !.stop_reason = reason]

RequestStopWhen(cond, m, reason) == IF cond THEN RequestStop(m, reason) ELSE m

(* Mutant: a higher loss is an improvement. *)
LossRose(m, loss) == loss - m.best_loss > MinDelta

LossImproved(m, loss) == m.best_loss - loss > MinDelta

IsNewBest(m, loss) == ~m.has_best \/ LossImproved(m, loss)

(* Mutant: the epoch judged last is counted again. *)
CountedEpochsOverlap(m, epoch) ==
  LET from == IF m.last_judged_epoch > MinEpochs
              THEN m.last_judged_epoch
              ELSE MinEpochs
  IN  IF epoch >= from THEN epoch - from + 1 ELSE 0

(* Epochs since the previous judged epoch that count for patience. *)
CountedEpochs(m, epoch) ==
  LET from == IF m.last_judged_epoch + 1 > MinEpochs
              THEN m.last_judged_epoch + 1
              ELSE MinEpochs
  IN  IF epoch >= from THEN epoch - from + 1 ELSE 0

RecordLoss(m, epoch, loss) ==
  IF IsNewBest(m, loss)
  THEN [m EXCEPT !.has_best = TRUE,
                 !.best_loss = loss,
                 !.best_epoch = epoch,
                 !.epochs_without_improvement = 0,
                 !.last_judged_epoch = epoch]
  ELSE [m EXCEPT !.epochs_without_improvement = @ + CountedEpochs(m, epoch),
                 !.last_judged_epoch = epoch]

TargetReached(loss) == TargetLoss >= 0 /\ loss <= TargetLoss

(* Mutant: one epoch too many. *)
PatienceExceeded(m, epoch) ==
  /\ PatienceEpochs > 0
  /\ epoch >= MinEpochs
  /\ m.epochs_without_improvement > PatienceEpochs

PatienceExhausted(m, epoch) ==
  /\ PatienceEpochs > 0
  /\ epoch >= MinEpochs
  /\ m.epochs_without_improvement >= PatienceEpochs

(* The judged loss, when the epoch has a finite one. *)
JudgeFinite(m, epoch, loss) ==
  LET recorded == RecordLoss(m, epoch, loss)
      target   == RequestStopWhen(TargetReached(loss), recorded, "TargetLoss")
  IN  RequestStopWhen(PatienceExhausted(target, epoch), target, "Patience")

(* by_val is judge_by_val_: the run has a validation split. *)
JudgedLoss(by_val, train, val) == IF by_val THEN val ELSE train

(* The epoch reaches the judgement: its train loss is finite and, judged   *)
(* by val loss, validation ran and gave a finite loss.                     *)
IsJudged(by_val, train, val) ==
  /\ train # NonFinite
  /\ JudgedLoss(by_val, train, val) \notin {NoVal, NonFinite}

SawNonFinite(by_val, train, val) ==
  train = NonFinite \/ JudgedLoss(by_val, train, val) = NonFinite

(* observe(): the monitor after an epoch. *)
Observe(m, by_val, epoch, train, val) ==
  LET seen == [m EXCEPT !.last_epoch_loss = train]
  IN  IF IsJudged(by_val, train, val)
      THEN JudgeFinite(seen, epoch, JudgedLoss(by_val, train, val))
      ELSE RequestStopWhen(StopOnNonfinite /\ SawNonFinite(by_val, train, val),
                           seen, "NonFiniteLoss")

(* observe(): whether its verdict says new_best. *)
VerdictNewBest(m, by_val, train, val) ==
  /\ IsJudged(by_val, train, val)
  /\ IsNewBest(m, JudgedLoss(by_val, train, val))

(* state() *)
KeptPart(m, by_val) ==
  [best_loss |-> m.best_loss,
   last_epoch_loss |-> m.last_epoch_loss,
   best_epoch |-> m.best_epoch,
   epochs_without_improvement |-> m.epochs_without_improvement,
   has_best |-> m.has_best,
   stop_requested |-> m.stop_requested,
   best_is_val |-> by_val,
   stop_reason |-> m.stop_reason]

(* Mutant: patience counts from the best epoch, not from the resumed one. *)
RestoreFromBestEpoch(k, by_val, resumed_epoch) ==
  LET dropped == k.has_best /\ k.best_is_val # by_val
  IN  [has_best |-> k.has_best /\ ~dropped,
       best_loss |-> IF dropped THEN 0 ELSE k.best_loss,
       best_epoch |-> IF dropped THEN 0 ELSE k.best_epoch,
       last_epoch_loss |-> k.last_epoch_loss,
       epochs_without_improvement |->
          IF dropped THEN 0 ELSE k.epochs_without_improvement,
       last_judged_epoch |-> k.best_epoch,
       stop_requested |-> k.stop_requested,
       stop_reason |-> k.stop_reason]

(* restore(): a best judged on the other loss is dropped. *)
RestoreMonitor(k, by_val, resumed_epoch) ==
  LET dropped == k.has_best /\ k.best_is_val # by_val
  IN  [has_best |-> k.has_best /\ ~dropped,
       best_loss |-> IF dropped THEN 0 ELSE k.best_loss,
       best_epoch |-> IF dropped THEN 0 ELSE k.best_epoch,
       last_epoch_loss |-> k.last_epoch_loss,
       epochs_without_improvement |->
          IF dropped THEN 0 ELSE k.epochs_without_improvement,
       last_judged_epoch |-> resumed_epoch,
       stop_requested |-> k.stop_requested,
       stop_reason |-> k.stop_reason]

(* clear_persisted_stop_for_resume() *)
ClearPersistedStop(m) ==
  [m EXCEPT !.stop_requested = FALSE,
            !.stop_reason = "None",
            !.epochs_without_improvement = 0]

(* Mutant: the persisted stop is not cleared. *)
ResumeStopped(k, by_val, resumed_epoch) == RestoreMonitor(k, by_val, resumed_epoch)

(* What restore_or_initialize() makes of a loaded checkpoint's kept part.  *)
ResumeMonitor(k, by_val, resumed_epoch) ==
  LET m == RestoreMonitor(k, by_val, resumed_epoch)
  IN  IF m.stop_requested THEN ClearPersistedStop(m) ELSE m
=============================================================================
