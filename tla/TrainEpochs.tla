----------------------------- MODULE TrainEpochs ----------------------------
(***************************************************************************)
(* The inside of TrainingSession's RunEpoch: Trainer::train's batch loop   *)
(* over the two TextDatasets, gradient accumulation over batches_per_step  *)
(* batches, the learning rate of each optimizer step, evaluation, and runs *)
(* that are interrupted and resume from the epoch that was kept.  It shows *)
(* why the session may count an epoch as steps_per_epoch whole steps.      *)
(***************************************************************************)
EXTENDS DatasetSplit, LearningRate, SequencesExt

CONSTANTS
  Configs,        \* configurations a plan is run with
  IndexModulus,   \* block_index_ is a uint32_t: 2^32
  MaxRuns         \* bound: runs of the plan

(* batches_per_step, validation_every_epochs, last_epoch *)
ConfigRecords ==
  [geo : Geometries, per_step : Nat \ {0}, every : Nat \ {0}, epochs : Nat,
   schedule : Schedules]

ASSUME EpochsAssumption ==
  /\ \A c \in Configs : c \in ConfigRecords /\ Accepted(c.geo)
  /\ \A c \in Configs :    \* the corpus is small enough for 32-bit indices
       /\ FullBatches(c.geo, TrainingWindows(c.geo)) <= IndexModulus
       /\ FullBatches(c.geo, ValidationWindows(c.geo)) + c.geo.batch < IndexModulus
  /\ IndexModulus \in Nat \ {0}
  /\ MaxRuns \in Nat

VARIABLES
  cfg,            \* the configuration, the same for every run of the plan
  sigma,          \* what std::shuffle with its fixed seed does to positions
  stage,          \* "down", "epoch", "batch", "evaluate" or "epochEnd"
  runs,
  train, val,     \* the datasets: block_starts_ and block_index_
  epoch,          \* epochs completed
  batch_idx,
  steps,          \* optimizer_steps
  grads,          \* what the gradient arena holds
  sum,            \* what the accumulator's sum arena holds
  step_batches,
  kept,           \* the latest checkpoint: its position
  done,           \* history: the gradients of this epoch's optimizer steps
  evaluated,      \* history: the windows of the last evaluation
  rates           \* history: learning rates of all steps behind the weights

position == <<epoch, steps, rates>>
batches == <<batch_idx, grads, sum, step_batches, done>>
vars == <<cfg, sigma, stage, runs, train, val, epoch, batch_idx, steps, grads,
          sum, step_batches, kept, done, evaluated, rates>>

geo == cfg.geo

(* A gradient: the batches whose gradients were added, over how many. *)
NoGradient == [batches |-> <<>>, parts |-> 1]
Gradient(batch) == [batches |-> <<batch>>, parts |-> 1]

(* build_blocks_ visits the windows in ascending order and keeps the first *)
(* ones, as many as fill whole batches.                                    *)
WholeBatches(windows) ==
  [i \in 1..FullBatches(geo, windows) |->
     CHOOSE w \in windows : Cardinality({v \in windows : v < w}) = i - 1]

TrainingBlocks == WholeBatches(TrainingWindows(geo))
ValidationBlocks == WholeBatches(ValidationWindows(geo))

Loader(starts) == [starts |-> starts, index |-> 0]

(* reset_epoch: what is shuffled is the previous epoch's order. *)
Shuffled(loader) ==
  Loader([i \in DOMAIN loader.starts |-> loader.starts[sigma[i]]])

Exhausted(loader) ==
  (loader.index + geo.batch) % IndexModulus > Len(loader.starts)

BatchOf(loader) == SubSeq(loader.starts, loader.index + 1, loader.index + geo.batch)
Advanced(loader) == [loader EXCEPT !.index = (@ + geo.batch) % IndexModulus]

BatchesPerEpoch == Len(train.starts) \div geo.batch

StepsPerEpoch == (BatchesPerEpoch + cfg.per_step - 1) \div cfg.per_step
TotalSteps == StepsPerEpoch * cfg.epochs

StepStarts(i) == i % cfg.per_step = 0

(* Mutant: the batches left over at the end of an epoch make no step. *)
StepEndsOnlyWhole(i) == (i + 1) % cfg.per_step = 0

StepEnds(i) == (i + 1) % cfg.per_step = 0 \/ i + 1 = BatchesPerEpoch

-----------------------------------------------------------------------------

Init ==
  /\ cfg \in Configs
  /\ sigma \in {f \in [1..Len(TrainingBlocks) -> 1..Len(TrainingBlocks)] :
                   \A i, j \in DOMAIN f : f[i] = f[j] => i = j}
  /\ stage = "down"
  /\ runs = 0
  /\ train = Loader(TrainingBlocks)
  /\ val = Loader(ValidationBlocks)
  /\ epoch = 0
  /\ batch_idx = 0
  /\ steps = 0
  /\ grads = NoGradient
  /\ sum = NoGradient
  /\ step_batches = 0
  /\ kept = [epoch |-> 0, steps |-> 0, rates |-> <<>>]
  /\ done = <<>>
  /\ evaluated = <<>>
  /\ rates = <<>>

(* Mutant: the resumed run counts its own steps. *)
StartRunCountingAnew ==
  /\ stage = "down"
  /\ runs < MaxRuns
  /\ kept.epoch < cfg.epochs
  /\ runs' = runs + 1
  /\ stage' = "epoch"
  /\ train' = Shuffled(Loader(TrainingBlocks))
  /\ val' = Loader(ValidationBlocks)
  /\ epoch' = kept.epoch
  /\ steps' = 0
  /\ rates' = kept.rates
  /\ UNCHANGED <<cfg, sigma, kept, batches, evaluated>>

(* A run builds its datasets, which shuffles the first one once, and goes  *)
(* on from the position that was kept.                                     *)
StartRun ==
  /\ stage = "down"
  /\ runs < MaxRuns
  /\ kept.epoch < cfg.epochs
  /\ runs' = runs + 1
  /\ stage' = "epoch"
  /\ train' = Shuffled(Loader(TrainingBlocks))
  /\ val' = Loader(ValidationBlocks)
  /\ epoch' = kept.epoch
  /\ steps' = kept.steps
  /\ rates' = kept.rates
  /\ UNCHANGED <<cfg, sigma, kept, batches, evaluated>>

(* Mutant: only the order is renewed. *)
StartEpochKeepsIndex ==
  /\ stage = "epoch"
  /\ stage' = "batch"
  /\ train' = [Shuffled(train) EXCEPT !.index = train.index]
  /\ batch_idx' = 0
  /\ done' = <<>>
  /\ UNCHANGED <<cfg, sigma, runs, val, position, grads, sum, step_batches, kept, evaluated>>

StartEpoch ==
  /\ stage = "epoch"
  /\ stage' = "batch"
  /\ train' = Shuffled(train)
  /\ batch_idx' = 0
  /\ done' = <<>>
  /\ UNCHANGED <<cfg, sigma, runs, val, position, grads, sum, step_batches, kept, evaluated>>

BatchReady == stage = "batch" /\ batch_idx < BatchesPerEpoch /\ ~Exhausted(train)

(* add_batch: the sum that the batch's gradient joins, and how many have.  *)
(* The sum arena exists only when several batches make a step.             *)
SumWith(batch) ==
  CASE cfg.per_step = 1 -> sum
    [] cfg.per_step > 1 /\ StepStarts(batch_idx) -> Gradient(batch)
    [] OTHER -> [sum EXCEPT !.batches = Append(@, batch)]

BatchesWith == IF StepStarts(batch_idx) THEN 1 ELSE step_batches + 1

(* Mutant: the mean is over batches_per_step, also in a shorter last step. *)
StepGradientOverAll(batch) ==
  IF cfg.per_step = 1 THEN Gradient(batch)
  ELSE [SumWith(batch) EXCEPT !.parts = cfg.per_step]

(* finish_step: the mean gradient of the step. *)
StepGradient(batch) ==
  IF cfg.per_step = 1 THEN Gradient(batch)
  ELSE [SumWith(batch) EXCEPT !.parts = BatchesWith]

NextRate == Rate(cfg.schedule, TotalSteps, steps)

(* train_one_batch, not the last of a step: forward_backward overwrites    *)
(* the gradients, add_batch adds them to the sum.                          *)
AccumulateBatch ==
  /\ BatchReady
  /\ ~StepEnds(batch_idx)
  /\ LET batch == BatchOf(train)
     IN  /\ grads' = Gradient(batch)
         /\ sum' = SumWith(batch)
         /\ step_batches' = BatchesWith
  /\ train' = Advanced(train)
  /\ batch_idx' = batch_idx + 1
  /\ UNCHANGED <<cfg, sigma, stage, runs, val, position, kept, done, evaluated>>

(* The last batch of a step: finish_step leaves the mean in the gradients, *)
(* and the optimizer takes it with the rate of the steps completed so far. *)
TrainStep ==
  /\ BatchReady
  /\ StepEnds(batch_idx)
  /\ LET batch == BatchOf(train)
     IN  /\ grads' = StepGradient(batch)
         /\ sum' = SumWith(batch)
         /\ step_batches' = BatchesWith
         /\ done' = Append(done, StepGradient(batch))
  /\ NextRate > 0
  /\ rates' = Append(rates, NextRate)
  /\ steps' = steps + 1
  /\ train' = Advanced(train)
  /\ batch_idx' = batch_idx + 1
  /\ UNCHANGED <<cfg, sigma, stage, runs, val, epoch, kept, evaluated>>

(* adamw_step throws when the learning rate is not positive: the run ends. *)
StepRefused ==
  /\ BatchReady
  /\ StepEnds(batch_idx)
  /\ NextRate = 0
  /\ LET batch == BatchOf(train)
     IN  /\ grads' = StepGradient(batch)
         /\ sum' = SumWith(batch)
         /\ step_batches' = BatchesWith
  /\ train' = Advanced(train)
  /\ stage' = "down"
  /\ UNCHANGED <<cfg, sigma, runs, val, position, batch_idx, kept, done, evaluated>>

ValidationDue ==
  /\ (epoch + 1) % cfg.every = 0 \/ epoch + 1 = cfg.epochs
  /\ Len(val.starts) > 0

(* The epoch's batches are used up; evaluate() starts with reset_epoch,    *)
(* which does not shuffle the validation set.                              *)
EndBatches ==
  /\ stage = "batch"
  /\ batch_idx = BatchesPerEpoch \/ Exhausted(train)
  /\ stage' = IF ValidationDue THEN "evaluate" ELSE "epochEnd"
  /\ val' = IF ValidationDue THEN Loader(val.starts) ELSE val
  /\ evaluated' = IF ValidationDue THEN <<>> ELSE evaluated
  /\ UNCHANGED <<cfg, sigma, runs, train, position, batches, kept>>

EvaluateBatch ==
  /\ stage = "evaluate"
  /\ ~Exhausted(val)
  /\ evaluated' = evaluated \o BatchOf(val)
  /\ val' = Advanced(val)
  /\ UNCHANGED <<cfg, sigma, stage, runs, train, position, batches, kept>>

EndEvaluate ==
  /\ stage = "evaluate"
  /\ Exhausted(val)
  /\ stage' = "epochEnd"
  /\ UNCHANGED <<cfg, sigma, runs, train, val, position, batches, kept, evaluated>>

(* on_epoch_end: the position advances and may be saved; a run may end     *)
(* before the plan does.                                                   *)
EndEpoch ==
  /\ stage = "epochEnd"
  /\ epoch' = epoch + 1
  /\ kept' \in {kept, [epoch |-> epoch + 1, steps |-> steps, rates |-> rates]}
  /\ stage' \in IF epoch + 1 >= cfg.epochs THEN {"down"} ELSE {"down", "epoch"}
  /\ UNCHANGED <<cfg, sigma, runs, train, val, steps, rates, batches, evaluated>>

(* The run is killed, or an exception ends it. *)
Interrupt ==
  /\ stage # "down"
  /\ stage' = "down"
  /\ UNCHANGED <<cfg, sigma, runs, train, val, position, batches, kept, evaluated>>

Next ==
  \/ StartRun \/ StartEpoch
  \/ AccumulateBatch \/ TrainStep \/ StepRefused
  \/ EndBatches \/ EvaluateBatch \/ EndEvaluate
  \/ EndEpoch \/ Interrupt

Spec == Init /\ [][Next]_vars

-----------------------------------------------------------------------------
(* Properties *)

(* Where a window stands in a sequence of gradients: <<gradient, batch,    *)
(* place in the batch>>.                                                   *)
PlacesIn(gradients) ==
  UNION {UNION {{<<i, b, k>> : k \in DOMAIN gradients[i].batches[b]} :
                  b \in DOMAIN gradients[i].batches} :
           i \in DOMAIN gradients}

WindowAt(gradients, place) == gradients[place[1]].batches[place[2]][place[3]]
WindowsOf(gradients) == {WindowAt(gradients, p) : p \in PlacesIn(gradients)}

(* Every epoch trains on every window of the training side exactly once:   *)
(* none is skipped or repeated by shuffling, by the wrapping 32-bit index  *)
(* or by the grouping of batches into steps, and each is in the gradient   *)
(* of exactly one optimizer step.                                          *)
EveryWindowOnce ==
  stage \in {"evaluate", "epochEnd"}
    => /\ WindowsOf(done) = ToSet(TrainingBlocks)
       /\ \A p, q \in PlacesIn(done) :
            WindowAt(done, p) = WindowAt(done, q) => p = q

(* Every optimizer step takes the mean over the batches that make it, of   *)
(* which there are batches_per_step except in the last step of an epoch.   *)
MeanOfGroup ==
  \A i \in DOMAIN done :
    LET n == Len(done[i].batches)
    IN  /\ done[i].parts = n
        /\ i < Len(done) => n = cfg.per_step
        /\ n \in 1..cfg.per_step

(* At every epoch boundary, of a fresh or a resumed run, optimizer_steps   *)
(* is the number of epochs times steps_per_epoch: the learning rate        *)
(* schedule and the checkpoint positions are computed from that.           *)
StepsAreWholeEpochs ==
  stage = "epoch"
    => /\ steps = epoch * StepsPerEpoch
       /\ Len(rates) = steps

(* No token that an evaluation reads is ever read, as an input or as a     *)
(* target, by training, also at the edges of the held-out ranges.          *)
HeldOutUnseen ==
  TokensOf(geo, WindowsOf(done)) \cap TokensOf(geo, ToSet(evaluated)) = {}

(* Evaluations are comparable: each one reads the same windows, all of     *)
(* them inside held-out ranges, in every epoch and every run.              *)
SameEvaluation ==
  stage = "epochEnd" /\ ValidationDue
    => /\ evaluated = ValidationBlocks
       /\ \A w \in ToSet(evaluated) : InValidation(geo, w, w + WindowTokens(geo))

(* Epochs and runs may compare their losses on held-out data.              *)
EvaluationsCompare == HeldOutUnseen /\ SameEvaluation

(* Over all the steps behind the current weights, whatever was interrupted *)
(* and resumed, the rate rises to the end of warmup and never after it.    *)
RateRisesThenFalls ==
  \A i \in 1..(Len(rates) - 1) :
    IF cfg.schedule.cosine /\ i < cfg.schedule.warmup
    THEN rates[i] < rates[i + 1]
    ELSE rates[i] >= rates[i + 1]

-----------------------------------------------------------------------------
(* What the repository says and the code does not do; see the README.      *)

(* adamw_step checks that "learning_rate must be > 0"; no schedule that the *)
(* configuration accepts makes a step of the plan fail there.              *)
NoStepRefused == BatchReady /\ StepEnds(batch_idx) => NextRate > 0
=============================================================================
