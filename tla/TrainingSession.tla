--------------------------- MODULE TrainingSession --------------------------
(***************************************************************************)
(* A training plan carried out by successive invocations of "train" on one *)
(* pair of checkpoint paths.  An invocation restores or initialises its    *)
(* state, trains epoch after epoch, judges each epoch, saves and promotes  *)
(* checkpoints, and ends; it may crash anywhere and its file operations    *)
(* may fail.  The stages follow Trainer::train, TrainingSessionController, *)
(* CheckpointPolicy, CheckpointStore and CheckpointIO; one stage ends at   *)
(* each file operation, since that is where a crash tells stages apart.    *)
(***************************************************************************)
EXTENDS CheckpointFiles

CONSTANTS
  Plans,             \* configurations an invocation can be started with
  StepsPerEpoch,     \* steps_per_epoch of the dataset and batch geometry
  SaveInterval,      \* training.save_interval_epochs
  ValidationEvery,   \* training.validation_every_epochs
  SharedPath,        \* model_file_latest and model_file_best are one path
  MaxRuns,           \* bound: invocations
  MaxCrashes,        \* bound: invocations that crash
  MaxFailures,       \* bound: file operations that fail
  NoPlan

(* What an invocation takes from its configuration and command line.       *)
PlanRecords ==
  [incremental : BOOLEAN,
   dry_run : BOOLEAN,
   last_epoch : Nat,
   stop_after_epoch : Nat,
   by_val : BOOLEAN,
   tok : Tokenizers,
   model : Models]

ASSUME SessionAssumption ==
  /\ Plans \subseteq PlanRecords
  /\ NoPlan \notin PlanRecords
  /\ StepsPerEpoch \in Nat \ {0}
  /\ SaveInterval \in Nat \ {0}
  /\ ValidationEvery \in Nat \ {0}
  /\ SharedPath \in BOOLEAN
  /\ MaxRuns \in Nat
  /\ MaxCrashes \in Nat
  /\ MaxFailures \in Nat

VARIABLES
  stage,        \* what the invocation does next; "down": none is running
  plan,         \* its configuration
  run,          \* invocations started so far, the run id of the current one
  params,       \* parameter arena
  adam,         \* Adam state arena
  compute,      \* compute weights the forward pass reads
  pos,          \* TrainingPosition
  mon,          \* the convergence monitor
  new_best,     \* the last verdict said new_best
  parent,       \* parentRunId_
  latest, best, \* the checkpoint files
  interrupted,  \* history: files whose last write or promotion stopped short
  crashes, failures

memory == <<params, adam, compute, pos, mon, new_best, parent>>
files == <<latest, best, interrupted>>
faults == <<crashes, failures>>
vars == <<stage, plan, run, params, adam, compute, pos, mon, new_best, parent,
          latest, best, interrupted, crashes, failures>>

LoadStages == {"loadHeader", "loadParams", "loadAdam", "verify"}
SaveStages == {"savePayload", "saveTokfp", "saveRun"}
CopyStages == {"copyPayload", "copyTokfp", "copyRun"}
TrainingStages == {"epoch", "decide", "ending"} \cup SaveStages \cup CopyStages
Stages == {"down", "fresh", "sync"} \cup LoadStages \cup TrainingStages

Positions == [steps : Nat, epoch : Nat]
StartPosition == [steps |-> 0, epoch |-> 0]

TypeOK ==
  /\ stage \in Stages
  /\ plan \in Plans \cup {NoPlan}
  /\ stage # "down" => plan \in Plans
  /\ run \in 0..MaxRuns
  /\ params \in Weights \cup {Raw}
  /\ adam \in Weights \cup {Raw}
  /\ compute \in Weights \cup {Raw}
  /\ pos \in Positions
  /\ mon \in MonitorState
  /\ new_best \in BOOLEAN
  /\ parent \in Nat \cup {Absent, Empty}
  /\ latest \in Slots
  /\ best \in Slots
  /\ interrupted \subseteq {"latest", "best"}
  /\ crashes \in 0..MaxCrashes
  /\ failures \in 0..MaxFailures

-----------------------------------------------------------------------------

NoMemory ==
  /\ params' = Raw
  /\ adam' = Raw
  /\ compute' = Raw
  /\ pos' = StartPosition
  /\ mon' = ResetMonitor
  /\ new_best' = FALSE
  /\ parent' = Absent

Init ==
  /\ stage = "down"
  /\ plan = NoPlan
  /\ run = 0
  /\ params = Raw
  /\ adam = Raw
  /\ compute = Raw
  /\ pos = StartPosition
  /\ mon = ResetMonitor
  /\ new_best = FALSE
  /\ parent = Absent
  /\ latest = EmptySlot
  /\ best = EmptySlot
  /\ interrupted = {}
  /\ crashes = 0
  /\ failures = 0

(* An invocation starts: restore_or_initialize resets the monitor and      *)
(* resume_from_latest looks for a checkpoint if training is incremental.   *)
Start(p) ==
  /\ stage = "down"
  /\ run < MaxRuns
  /\ plan' = p
  /\ run' = run + 1
  /\ stage' = IF p.incremental /\ Exists(latest.payload)
              THEN "loadHeader" ELSE "fresh"
  /\ NoMemory
  /\ UNCHANGED <<files, faults>>

(***************************************************************************)
(* Loading the latest checkpoint.  The arenas are filled as they are read; *)
(* the fingerprint is checked after that.  Whatever goes wrong, the        *)
(* session falls back to a fresh initialisation.                           *)
(***************************************************************************)
(* Mutant: a refused header is tried again. *)
LoadHeaderRetried ==
  /\ stage = "loadHeader"
  /\ stage' = IF HeaderAccepted(latest.payload, plan.model)
              THEN "loadParams" ELSE "loadHeader"
  /\ UNCHANGED <<plan, run, memory, files, faults>>

LoadHeader ==
  /\ stage = "loadHeader"
  /\ stage' = IF HeaderAccepted(latest.payload, plan.model)
              THEN "loadParams" ELSE "fresh"
  /\ UNCHANGED <<plan, run, memory, files, faults>>

LoadParams ==
  /\ stage = "loadParams"
  /\ IF ParamsReadable(latest.payload)
     THEN stage' = "loadAdam" /\ params' = latest.payload.params
     ELSE stage' = "fresh" /\ UNCHANGED params
  /\ UNCHANGED <<plan, run, adam, compute, pos, mon, new_best, parent, files, faults>>

LoadAdam ==
  /\ stage = "loadAdam"
  /\ IF AdamReadable(latest.payload)
     THEN stage' = "verify" /\ adam' = latest.payload.adam
     ELSE stage' = "fresh" /\ UNCHANGED adam
  /\ UNCHANGED <<plan, run, params, compute, pos, mon, new_best, parent, files, faults>>

(* Mutant: the parent run is read from the wrong sidecar. *)
VerifyWrongSidecar ==
  /\ stage = "verify"
  /\ IF FingerprintAccepted(latest, plan.tok)
     THEN /\ stage' = "sync"
          /\ pos' = [steps |-> latest.payload.steps, epoch |-> latest.payload.epoch]
          /\ mon' = ResumeMonitor(latest.payload.conv, plan.by_val, latest.payload.epoch)
          /\ parent' = latest.tokfp
     ELSE /\ stage' = "fresh"
          /\ UNCHANGED <<pos, mon, parent>>
  /\ UNCHANGED <<plan, run, params, adam, compute, new_best, files, faults>>

(* The fingerprint matches: the position and the monitor are restored and  *)
(* the tracking observer learns the run that wrote the checkpoint.         *)
VerifyFingerprint ==
  /\ stage = "verify"
  /\ IF FingerprintAccepted(latest, plan.tok)
     THEN /\ stage' = "sync"
          /\ pos' = [steps |-> latest.payload.steps, epoch |-> latest.payload.epoch]
          /\ mon' = ResumeMonitor(latest.payload.conv, plan.by_val, latest.payload.epoch)
          /\ parent' = latest.run
     ELSE /\ stage' = "fresh"
          /\ UNCHANGED <<pos, mon, parent>>
  /\ UNCHANGED <<plan, run, params, adam, compute, new_best, files, faults>>

(* Reading fails, or a device copy throws. *)
LoadFails ==
  /\ stage \in LoadStages
  /\ failures < MaxFailures
  /\ failures' = failures + 1
  /\ stage' = "fresh"
  /\ UNCHANGED <<plan, run, memory, files, crashes>>

(* Mutant: the Adam moments of a half-finished load are left in place. *)
InitializeKeepsAdam ==
  /\ stage = "fresh"
  /\ stage' = "sync"
  /\ params' = [lineage |-> run, tok |-> plan.tok, steps |-> 0]
  /\ pos' = StartPosition
  /\ UNCHANGED <<plan, run, adam, compute, mon, new_best, parent, files, faults>>

InitializeFresh ==
  /\ stage = "fresh"
  /\ stage' = "sync"
  /\ params' = [lineage |-> run, tok |-> plan.tok, steps |-> 0]
  /\ adam' = [lineage |-> run, tok |-> plan.tok, steps |-> 0]
  /\ pos' = StartPosition
  /\ UNCHANGED <<plan, run, compute, mon, new_best, parent, files, faults>>

(* sync_compute_weights, on_training_start, and has_epochs_left decides    *)
(* between the first epoch and nothing_to_do.                              *)
HasEpochsLeft == pos.epoch < plan.last_epoch

SyncAndBegin ==
  /\ stage = "sync"
  /\ compute' = params
  /\ stage' = IF HasEpochsLeft THEN "epoch" ELSE "ending"
  /\ UNCHANGED <<plan, run, params, adam, pos, mon, new_best, parent, files, faults>>

(***************************************************************************)
(* One turn of Trainer::train's loop, up to the checkpoint policy in       *)
(* on_epoch_end: StepsPerEpoch optimizer steps (each ends with             *)
(* sync_compute_weights), evaluation when validation is due, the monitor's *)
(* verdict.  A non-finite batch loss throws, so the epoch's train loss is  *)
(* finite here; the val loss need not be.                                  *)
(***************************************************************************)
ValidationDue(e) ==
  plan.by_val /\ (e % ValidationEvery = 0 \/ e = plan.last_epoch)

ValLosses(e) == IF ValidationDue(e) THEN Losses \cup {NonFinite} ELSE {NoVal}

(* Mutant: the first interval is skipped. *)
MilestoneLate(e) == e > SaveInterval /\ e % SaveInterval = 0

Milestone(e) == e > 0 /\ e % SaveInterval = 0

(* Mutant: a new best between milestones is not saved. *)
SaveDueNotOnBest(m, is_new_best, e) ==
  /\ ~plan.dry_run
  /\ Milestone(e) \/ m.stop_requested
  /\ ~(StopOnNonfinite /\ m.last_epoch_loss = NonFinite)

(* Mutant: a stop between milestones is not saved. *)
SaveDueNotOnStop(m, is_new_best, e) ==
  /\ ~plan.dry_run
  /\ Milestone(e) \/ is_new_best
  /\ ~(StopOnNonfinite /\ m.last_epoch_loss = NonFinite)

SaveDue(m, is_new_best, e) ==
  /\ ~plan.dry_run
  /\ Milestone(e) \/ is_new_best \/ m.stop_requested
  /\ ~(StopOnNonfinite /\ m.last_epoch_loss = NonFinite)

RunEpoch(train, val) ==
  LET e == pos.epoch + 1
      m == Observe(mon, plan.by_val, e, train, val)
      nb == VerdictNewBest(mon, plan.by_val, train, val)
  IN  /\ stage = "epoch"
      /\ val \in ValLosses(e)
      /\ params' = Trained(params, StepsPerEpoch)
      /\ adam' = Trained(adam, StepsPerEpoch)
      /\ compute' = params'
      /\ pos' = [steps |-> pos.steps + StepsPerEpoch, epoch |-> e]
      /\ mon' = m
      /\ new_best' = nb
      /\ stage' = IF SaveDue(m, nb, e) THEN "savePayload" ELSE "decide"
      /\ UNCHANGED <<plan, run, parent, files, faults>>

(***************************************************************************)
(* save_latest: the checkpoint, its fingerprint, and (on_checkpoint_save_  *)
(* end of the tracking observer) its run id; then promote_latest_to_best   *)
(* on a new best.                                                          *)
(***************************************************************************)
(* Mutant: the zero-based epoch is saved. *)
NewPayloadEpochBehind ==
  [level |-> "whole", model |-> plan.model, steps |-> pos.steps, epoch |-> pos.epoch - 1,
   conv |-> KeptPart(mon, plan.by_val), params |-> params, adam |-> adam,
   writer |-> run, tok |-> plan.tok]

NewPayload ==
  [level |-> "whole",
   model |-> plan.model,
   steps |-> pos.steps,
   epoch |-> pos.epoch,
   conv |-> KeptPart(mon, plan.by_val),
   params |-> params,
   adam |-> adam,
   writer |-> run,
   tok |-> plan.tok]

AfterSave == IF new_best /\ ~SharedPath THEN "copyPayload" ELSE "decide"

SavePayload ==
  /\ stage = "savePayload"
  /\ latest' = [latest EXCEPT !.payload = NewPayload]
  /\ stage' = "saveTokfp"
  /\ UNCHANGED <<plan, run, memory, best, interrupted, faults>>

SaveTokfp ==
  /\ stage = "saveTokfp"
  /\ latest' = [latest EXCEPT !.tokfp = plan.tok]
  /\ stage' = "saveRun"
  /\ UNCHANGED <<plan, run, memory, best, interrupted, faults>>

SaveRun ==
  /\ stage = "saveRun"
  /\ latest' = [latest EXCEPT !.run = run]
  /\ stage' = AfterSave
  /\ interrupted' = IF Whole(latest.payload) /\ latest.tokfp = plan.tok
                    THEN interrupted \ {"latest"} ELSE interrupted
  /\ UNCHANGED <<plan, run, memory, best, faults>>

CopyPayload ==
  /\ stage = "copyPayload"
  /\ best' = [best EXCEPT !.payload = latest.payload]
  /\ stage' = "copyTokfp"
  /\ UNCHANGED <<plan, run, memory, latest, interrupted, faults>>

(* A sidecar that does not exist is not copied. *)
CopyTokfp ==
  /\ stage = "copyTokfp"
  /\ best' = IF latest.tokfp = Absent THEN best ELSE [best EXCEPT !.tokfp = latest.tokfp]
  /\ stage' = "copyRun"
  /\ UNCHANGED <<plan, run, memory, latest, interrupted, faults>>

(* Mutant: a run sidecar that exists is kept. *)
CopyRunOnce ==
  /\ stage = "copyRun"
  /\ best' = IF latest.run = Absent \/ best.run # Absent
             THEN best ELSE [best EXCEPT !.run = latest.run]
  /\ stage' = "decide"
  /\ interrupted' = IF "latest" \in interrupted
                    THEN interrupted ELSE interrupted \ {"best"}
  /\ UNCHANGED <<plan, run, memory, latest, faults>>

CopyRun ==
  /\ stage = "copyRun"
  /\ best' = IF latest.run = Absent THEN best ELSE [best EXCEPT !.run = latest.run]
  /\ stage' = "decide"
  /\ interrupted' = IF "latest" \in interrupted
                    THEN interrupted ELSE interrupted \ {"best"}
  /\ UNCHANGED <<plan, run, memory, latest, faults>>

(* What the files can be when the operation of a stage stops short. *)
ShortLatest ==
  CASE stage = "savePayload" ->
         {[latest EXCEPT !.payload = p] : p \in ShortWrites(latest.payload, NewPayload)}
    [] stage = "saveTokfp" -> {[latest EXCEPT !.tokfp = f] : f \in ShortSidecars(latest.tokfp)}
    [] stage = "saveRun" -> {[latest EXCEPT !.run = r] : r \in ShortSidecars(latest.run)}
    [] OTHER -> {latest}

ShortBest ==
  CASE stage = "copyPayload" ->
         {[best EXCEPT !.payload = p] : p \in ShortWrites(best.payload, latest.payload)}
    [] stage = "copyTokfp" -> {[best EXCEPT !.tokfp = f] : f \in ShortSidecars(best.tokfp)}
    [] stage = "copyRun" -> {[best EXCEPT !.run = r] : r \in ShortSidecars(best.run)}
    [] OTHER -> {best}

StopsShort ==
  /\ latest' \in ShortLatest
  /\ best' \in ShortBest
  /\ interrupted' = interrupted
       \cup (IF stage \in SaveStages THEN {"latest"} ELSE {})
       \cup (IF stage \in CopyStages \/ (stage \in SaveStages /\ new_best)
             THEN {"best"} ELSE {})

(* Opening, validating or writing the checkpoint or its fingerprint fails: *)
(* save_latest reports it and training goes on.  A failing copy likewise.  *)
SaveFails ==
  /\ stage \in {"savePayload", "saveTokfp"} \cup CopyStages
  /\ failures < MaxFailures
  /\ failures' = failures + 1
  /\ StopsShort
  /\ stage' = "decide"
  /\ UNCHANGED <<plan, run, memory, crashes>>

(* What is still buffered reaches the file when it is closed, and a        *)
(* failure there is not noticed: the tail of the checkpoint, or all of a   *)
(* sidecar.  For .run not even opening the file is checked.                *)
ClosesShort ==
  /\ stage \in SaveStages
  /\ failures < MaxFailures
  /\ failures' = failures + 1
  /\ StopsShort
  /\ stage = "savePayload" => latest'.payload = [NewPayload EXCEPT !.level = "params"]
  /\ stage = "saveTokfp" => latest'.tokfp = Empty
  /\ stage' = CASE stage = "savePayload" -> "saveTokfp"
                [] stage = "saveTokfp" -> "saveRun"
                [] stage = "saveRun" -> AfterSave
  /\ UNCHANGED <<plan, run, memory, crashes>>

(* The end of on_epoch_end: plan done, monitor stop or --stop_after_epoch. *)
(* No observer of this program asks to stop.                               *)
PlanDone == pos.epoch >= plan.last_epoch
StopAfterEpochReached ==
  plan.stop_after_epoch > 0 /\ pos.epoch >= plan.stop_after_epoch

Decide ==
  /\ stage = "decide"
  /\ stage' = IF PlanDone \/ mon.stop_requested \/ StopAfterEpochReached
              THEN "ending" ELSE "epoch"
  /\ UNCHANGED <<plan, run, memory, files, faults>>

(* on_training_end, and the process exits. *)
End ==
  /\ stage = "ending"
  /\ stage' = "down"
  /\ plan' = NoPlan
  /\ NoMemory
  /\ UNCHANGED <<run, files, faults>>

(* The process is killed, or an exception ends it (a non-finite batch      *)
(* loss, a backend error).                                                 *)
Crash ==
  /\ stage # "down"
  /\ crashes < MaxCrashes
  /\ crashes' = crashes + 1
  /\ stage' = "down"
  /\ plan' = NoPlan
  /\ NoMemory
  /\ StopsShort
  /\ UNCHANGED <<run, failures>>

(* Everything an invocation does on its own. *)
SessionStep ==
  \/ LoadHeader \/ LoadParams \/ LoadAdam \/ VerifyFingerprint
  \/ InitializeFresh \/ SyncAndBegin
  \/ \E train \in Losses, val \in Losses \cup {NonFinite, NoVal} : RunEpoch(train, val)
  \/ SavePayload \/ SaveTokfp \/ SaveRun
  \/ CopyPayload \/ CopyTokfp \/ CopyRun
  \/ Decide \/ End

Next ==
  \/ \E p \in Plans : Start(p)
  \/ SessionStep
  \/ LoadFails \/ SaveFails \/ ClosesShort
  \/ Crash

Spec == Init /\ [][Next]_vars

(* An invocation is a running program: it does not pause for ever.  Nobody *)
(* is obliged to start one.                                                *)
FairSpec == Spec /\ WF_vars(SessionStep)

-----------------------------------------------------------------------------
(* Properties *)

(* From the first sync_compute_weights to the end of an invocation the     *)
(* parameters, the Adam moments and the compute weights belong together    *)
(* and have been through exactly the optimizer steps the training position *)
(* counts, which are whole epochs: also after a load that failed halfway.  *)
MemoryCoherent ==
  stage \in TrainingStages =>
    /\ params \in Weights
    /\ adam = params
    /\ compute = params
    /\ params.steps = pos.steps
    /\ pos.steps = StepsPerEpoch * pos.epoch

(* So does every checkpoint that is completely written, whatever crashed   *)
(* or failed, and its best epoch is not later than its epoch.              *)
PayloadCoherent(p) ==
  Whole(p) =>
    /\ p.adam = p.params
    /\ p.params.steps = p.steps
    /\ p.steps = StepsPerEpoch * p.epoch
    /\ p.conv.best_epoch <= p.epoch

FilesCoherent == PayloadCoherent(latest.payload) /\ PayloadCoherent(best.payload)

(* A complete best checkpoint was a new best when it was saved: it is the  *)
(* model of the best epoch it names.                                       *)
BestFileWasABest ==
  Whole(best.payload) =>
    best.payload.conv.has_best /\ best.payload.conv.best_epoch = best.payload.epoch

(* The best loss the monitor holds, which the run journal reports next to  *)
(* the path of the best checkpoint, is the loss of the model in that file, *)
(* also after resumes, metric changes and restarts, unless a promotion was *)
(* cut short.                                                              *)
BestFileHoldsBest ==
  (/\ stage \in {"epoch", "decide", "ending"}
   /\ mon.has_best
   /\ ~plan.dry_run
   /\ ~SharedPath
   /\ "best" \notin interrupted)
    => /\ Whole(best.payload)
       /\ best.payload.epoch = mon.best_epoch
       /\ best.payload.conv.best_loss = mon.best_loss
       /\ best.payload.conv.best_is_val = plan.by_val

(* The best checkpoint is what its name, its own header and the monitor say. *)
BestFileIsTheBest == BestFileWasABest /\ BestFileHoldsBest

(* Sidecars describe the checkpoint they lie next to (tokenizer and run of *)
(* its writer) unless its last write or promotion was cut short.           *)
SidecarsDescribe(slot) ==
  Whole(slot.payload) => slot.tokfp = slot.payload.tok /\ slot.run = slot.payload.writer

SidecarsMatch ==
  /\ "latest" \notin interrupted /\ stage \notin SaveStages => SidecarsDescribe(latest)
  /\ "best" \notin interrupted /\ stage \notin CopyStages => SidecarsDescribe(best)

(* An interruption costs less than save_interval_epochs epochs of work: as *)
(* long as no file operation failed, a session about to train is never     *)
(* further ahead than that of the checkpoint a restart would resume.       *)
EpochsOnDisk ==
  IF Whole(latest.payload) /\ latest.payload.params.lineage = params.lineage
  THEN latest.payload.epoch ELSE 0

BoundedLoss ==
  stage = "epoch" /\ ~plan.dry_run /\ failures = 0
    => pos.epoch - EpochsOnDisk < SaveInterval

(* No invocation trains after its monitor asked to stop, and a stop that a *)
(* checkpoint recorded does not stop the run that resumes from it.         *)
NoTrainingAfterStop == stage \in {"sync", "epoch"} => ~mon.stop_requested

(* A run its monitor stopped has the epoch it stopped at, and the stop, in *)
(* the latest checkpoint, unless saving failed.                            *)
MonitorStopIsSaved ==
  stage = "ending" /\ mon.stop_requested /\ ~plan.dry_run /\ "latest" \notin interrupted
    => /\ Whole(latest.payload)
       /\ latest.payload.params = params
       /\ latest.payload.conv.stop_requested

(* As long as nothing crashed or failed, training only ever continues      *)
(* weights that were trained with the tokenizer of the current             *)
(* configuration: another tokenizer's checkpoint is refused.               *)
OwnTokenizer ==
  stage \in TrainingStages /\ crashes = 0 /\ failures = 0 => params.tok = plan.tok

(* An invocation that is not killed carries out its plan: it reaches the   *)
(* last epoch, or the epoch it was told to stop after, or its monitor      *)
(* stops it.  Neither a refused checkpoint nor a failing save ends it.     *)
PlanCarriedOut ==
  stage = "ending" /\ (PlanDone \/ StopAfterEpochReached \/ mon.stop_requested)

InvocationCompletes ==
  (stage # "down" /\ crashes = MaxCrashes) ~> PlanCarriedOut

-----------------------------------------------------------------------------
(* What the repository says and the code does not do; see the README.      *)

(* checkpoint_policy.hpp: the latest checkpoint is written "when training  *)
(* stops".  When the plan is done, the last epoch is in it.                *)
SavedWhenTrainingStops ==
  stage = "ending" /\ PlanDone /\ ~plan.dry_run /\ crashes = 0 /\ failures = 0
    => Whole(latest.payload) /\ latest.payload.epoch = pos.epoch

(* README, --stop_after_epoch N: "stop after epoch N".                     *)
NotPastStopAfterEpoch ==
  [][stage = "epoch" /\ pos'.epoch > pos.epoch /\ plan.stop_after_epoch > 0
       => pos'.epoch <= plan.stop_after_epoch]_vars
=============================================================================
