------------------------- MODULE ConvergenceMonitor -------------------------
(***************************************************************************)
(* A ConvergenceMonitor over the life of a training plan that may be       *)
(* interrupted: epochs are observed, its state is kept in a checkpoint at  *)
(* any epoch end, and a later run restores it (restore_or_initialize) or   *)
(* starts over.  The history of judged losses is kept beside the monitor   *)
(* so that the rules can be compared with what really happened.            *)
(***************************************************************************)
EXTENDS ConvergenceRules, FiniteSets

CONSTANTS
  MaxEpochs,    \* bound on the epochs of one plan
  Unjudged,     \* history entry of an epoch that was not judged
  NoCheckpoint

ASSUME MonitorAssumption ==
  /\ MaxEpochs \in Nat \ {0}
  /\ Unjudged \notin Int \cup {NonFinite, NoVal}
  /\ NoCheckpoint \notin [state : KeptState, epoch : Nat,
                          history : [1..MaxEpochs -> Losses \cup {Unjudged}]]

VARIABLES
  mon,         \* the monitor
  by_val,      \* judge_by_val_ of the current run
  epoch,       \* epochs observed by this plan
  resumed_at,  \* the epoch this run resumed from, 0 for a fresh run
  history,     \* per epoch the loss that was judged, on the current metric
  kept         \* the checkpoint: kept state, its epoch and its history

vars == <<mon, by_val, epoch, resumed_at, history, kept>>

History == [1..MaxEpochs -> Losses \cup {Unjudged}]
NoHistory == [e \in 1..MaxEpochs |-> Unjudged]
Checkpoints == [state : KeptState, epoch : 0..MaxEpochs, history : History]

TypeOK ==
  /\ mon \in MonitorState
  /\ by_val \in BOOLEAN
  /\ epoch \in 0..MaxEpochs
  /\ resumed_at \in 0..MaxEpochs
  /\ history \in History
  /\ kept \in Checkpoints \cup {NoCheckpoint}

-----------------------------------------------------------------------------

Init ==
  /\ mon = ResetMonitor
  /\ by_val \in BOOLEAN
  /\ epoch = 0
  /\ resumed_at = 0
  /\ history = NoHistory
  /\ kept = NoCheckpoint

(* on_epoch_end observes the epoch.  Without a validation split there is   *)
(* no val loss; with one, not every epoch is validated.                    *)
ObserveEpoch(train, val) ==
  /\ epoch < MaxEpochs
  /\ ~by_val => val = NoVal
  /\ epoch' = epoch + 1
  /\ mon' = Observe(mon, by_val, epoch + 1, train, val)
  /\ history' = IF IsJudged(by_val, train, val)
                THEN [history EXCEPT ![epoch + 1] = JudgedLoss(by_val, train, val)]
                ELSE history
  /\ UNCHANGED <<by_val, resumed_at, kept>>

(* A checkpoint is saved with state(). *)
Keep ==
  /\ kept' = [state |-> KeptPart(mon, by_val), epoch |-> epoch, history |-> history]
  /\ UNCHANGED <<mon, by_val, epoch, resumed_at, history>>

(* A new run resumes from the checkpoint, perhaps judging the other loss.  *)
Resume(v) ==
  /\ kept # NoCheckpoint
  /\ by_val' = v
  /\ epoch' = kept.epoch
  /\ resumed_at' = kept.epoch
  /\ mon' = ResumeMonitor(kept.state, v, kept.epoch)
  /\ history' = IF kept.state.best_is_val = v THEN kept.history ELSE NoHistory
  /\ UNCHANGED kept

(* A new run that does not resume: reset() only. *)
StartFresh(v) ==
  /\ by_val' = v
  /\ epoch' = 0
  /\ resumed_at' = 0
  /\ mon' = ResetMonitor
  /\ history' = NoHistory
  /\ UNCHANGED kept

Next ==
  \/ \E train \in Losses \cup {NonFinite}, val \in Losses \cup {NonFinite, NoVal} :
        ObserveEpoch(train, val)
  \/ Keep
  \/ \E v \in BOOLEAN : Resume(v)
  \/ \E v \in BOOLEAN : StartFresh(v)

Spec == Init /\ [][Next]_vars

-----------------------------------------------------------------------------
(* Properties *)

Judged(e) == history[e] # Unjudged

(* The best loss is the loss judged at best_epoch; every loss judged       *)
(* before it was higher, and none judged after it, also across restarts,   *)
(* is lower by more than min_delta.  A best exists exactly when some epoch *)
(* was judged.                                                             *)
BestBeatsHistory ==
  /\ mon.has_best <=> \E e \in 1..MaxEpochs : Judged(e)
  /\ mon.has_best =>
       /\ mon.best_epoch \in 1..epoch
       /\ history[mon.best_epoch] = mon.best_loss
       /\ \A e \in 1..MaxEpochs : Judged(e) =>
            /\ e < mon.best_epoch => history[e] > mon.best_loss
            /\ e > mon.best_epoch => mon.best_loss - history[e] <= MinDelta

(* Epochs after "after" that the patience rule may count. *)
EpochsToCount(after, last) == {e \in (after + 1)..last : e >= MinEpochs}

(* The patience rule never stops a run early: when it does, at least       *)
(* patience_epochs epochs from min_epochs on have passed since the best    *)
(* one, however validation epochs and restarts were interleaved.           *)
NoEarlyPatienceStop ==
  [][mon.stop_reason # "Patience" /\ mon'.stop_reason = "Patience"
       => Cardinality(EpochsToCount(mon'.best_epoch, epoch')) >= PatienceEpochs]_vars

(* It never stops one late: once patience_epochs such epochs have passed   *)
(* in this run since the best epoch, the next judged epoch stops the run.  *)
PatienceStopsInTime ==
  LET since == IF mon.best_epoch > resumed_at THEN mon.best_epoch ELSE resumed_at
  IN  (/\ PatienceEpochs > 0
       /\ epoch > resumed_at
       /\ Judged(epoch)
       /\ Cardinality(EpochsToCount(since, epoch)) >= PatienceEpochs)
         => mon.stop_requested

(* An interruption right after a judged epoch changes nothing the rules    *)
(* look at: a run of the same kind that resumes from the kept state has    *)
(* the monitor the interrupted run had.                                    *)
InterruptionIsInvisible ==
  ~mon.stop_requested /\ mon.last_judged_epoch = epoch
    => ResumeMonitor(KeptPart(mon, by_val), by_val, epoch) = mon
=============================================================================
