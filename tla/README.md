# Verification of litnicelm

litnicelm trains and runs small language models from a single command-line
program. This directory holds TLA+ models of the parts of it whose correctness
depends on order, interruption and history, the TLC configurations that check
them, and TLAPS proofs of the properties that matter most. Source paths below
are relative to the repository's `src/`.

## The system

`train` reads a configuration, memory-maps a tokenised corpus, splits it into
training and validation windows, restores or initialises a model, and trains
it epoch by epoch on a device backend (built-in CPU, OpenBLAS or CUDA plugin).
After each epoch a controller judges the loss, decides whether to write and
promote checkpoints and whether to stop. Observers report progress, time the
phases and feed experiment-tracking plugins. `infer` and `export` load the best
checkpoint, `tokenize` produces the corpus.

| Component | State it keeps | Operations | Interacts with | Hard behaviour | What makes it correct |
|---|---|---|---|---|---|
| Convergence monitor | best loss and epoch, patience count, last judged epoch, stop request | observe, restore, clear persisted stop, state | controller, checkpoint | history across restarts; epochs without a judged loss; change of metric | best agrees with the history of losses; patience neither early nor late |
| Training session controller | position, monitor, plan | restore or initialise, epoch end, training end | trainer, policy, store, observers | a load that fails at any point; stops of several kinds | memory is one coherent state; no training after a stop |
| Checkpoint policy and store | two paths | save latest, promote to best, load latest | checkpoint files, observers | crash or failure between any two file operations | best file is the best; a save that ended is durable |
| Checkpoint files | header, two arenas, two sidecars | save, load, fingerprint | arenas, tokenizer | written in place, checked after reading | a complete file is coherent |
| Trainer | batch and step counters | train, step, evaluate | dataset, memory, controller | order of sync and forward pass; last partial step | compute weights are never stale |
| Learning rate schedule | none | rate at a step | controller | warmup boundary, resumed step | continuous across restarts of the same plan |
| Dataset and split | shuffled window starts, cursor | build, reset epoch, next | trainer | shuffling is cumulative; split boundaries | training never reads held-out tokens |
| Layouts, stores, arenas | offsets, zones, precisions | lay out, build the stores, hand out a view, slice, sync | everything on the device | two hand-written lists per layout, for every combination of algorithms; alignment, zones | every tensor found, none overlapping, zones of parameter, gradient and moments in step |
| Transformer and layers | cached views of the forward pass, scratch, gradients | forward, backward per layer, head and embedding | trainer, stores, backend | buffers shared and reused differently per implementation; accumulation | each call gets the tensor the network needs, of this pass and these weights |
| Training diagnostics | which probes are on | probes, replay after a non-finite norm | transformer, trainer | probes run between calls that overwrite what they name | a probe sees what its label says |
| Multistream attention, CUDA lanes | events, scratch | fork, join | backend | kernels of several streams share memory | as if the calls ran one by one |
| Device backend, CPU, OpenBLAS and CUDA plugins | one launch at a time | elementwise operations, products, row operations | transformer, optimizer | threads between barriers; grids at their limits; views with gaps given to a BLAS | every backend computes what the CPU loops over the views do |
| Profiling | tree and stack of stages, timing window, marks | enter, leave, mark, summary | observers, observed backend | nested and failing operations, window boundaries, a finite pool | lines add up; a report is of whole steps |
| Tracking sink and plugins | loaded plugins, enabled flags, open files | load, emit, flush, unload | tracking observer | failure of one of several plugins | one plugin's failure costs nothing else |
| Inference | token window, cache | generate | tokenizer, checkpoint | sliding window | stops when told |
| Tokenizers, configuration, command line, export, reporting | see `PROJECT.json` | | | | |

`PROJECT.json` lists every component with its sources and whether it is
modelled, and every hazard with the line where it bites and the properties
that would catch it.

## Modules

| Module | Models | Used by |
|---|---|---|
| `ConvergenceRules` | the monitor's operations as operators on a record | both below |
| `ConvergenceMonitor` | the monitor alone, with the history of judged losses, checkpoints and resumes | `MCConvergenceMonitor` |
| `CheckpointFiles` | what is on disk: payload, fingerprint and run sidecar, how far each was written, what a reader accepts | `TrainingSession` |
| `TrainingSession` | invocations of `train` on one pair of paths: load, initialise, epochs, save, promote, decide, end, crash, failing file operations | `TrainingDurability` |
| `DurableProgress` | the abstract promise: restore, keep and release are indivisible | `TrainingDurability` |
| `TrainingDurability` | the refinement mapping from the session to the promise | `MCTrainingSession` |
| `DatasetSplit` | which windows of a corpus train, which validate, which configurations are refused | `TrainEpochs` |
| `LearningRate` | the warmup and cosine schedule as an operator on the step | `TrainEpochs` |
| `TrainEpochs` | the batch loop: shuffled loader, accumulation, optimizer steps, evaluation, rates, interrupted and resumed runs | `MCTrainEpochs` |
| `NamedLayout` | the two loops that place the slices of an arena in two zones | `MCMemory` |
| `MemoryTables` | the lists of every layout, and the lists of every store | `TensorViews` |
| `TensorViews` | the walk of the stores over the layouts, and the views handed to the algorithms | `MCMemory` |
| `TransformerProgram` | a training batch as its sequence of backend calls, for every combination of algorithms | `ActivationFlow` |
| `NetworkRules` | the network and its derivative as rules between quantities: the abstract side | `ActivationFlow` |
| `ActivationFlow` | batches, evaluations and optimizer steps over the buffers | `MCActivationFlow` |
| `AttentionProgram` | the multistream attention as its sequence of backend calls, each with the buffers it reads and writes | `ExecLanes` |
| `ExecLanes` | the CUDA plugin's execution lanes: the host that queues, the streams that run, the events between them | `MCExecLanes` |
| `ViewGeometry` | strided views of a buffer | the operations below |
| `RowKernelPrograms`, `RowKernels` | the CUDA kernels that reduce, thread by thread, with their barriers and accumulators | `BackendOps` |
| `HostElementwise`, `CudaElementwise`, `ElementwiseOps` | the CPU loops, the kernels and grids, and a call on both | `BackendOps` |
| `Contractions` | matrix products: the CPU loops, what OpenBLAS and cuBLAS are told | `BackendOps` |
| `BackendOps` | the operations of a device backend, one at a time | `MCBackendOps` |
| `ElementwiseCalls`, `ContractionCalls` | the calls and views those runs make | `MCBackendOps` |
| `StageProfile` | the tree of stages | `TrainingProfile` |
| `OpTimer` | the timing window, the CUDA pool of marks, the host clock | `TrainingProfile` |
| `TrainingProfile` | the calls a whole training run makes to its observers | `MCTrainingProfile` |
| `ConvergenceRulesProofs`, `ConvergenceMonitorProofs`, `TrainingSessionProofs`, `NamedLayoutProofs`, `TrainEpochsProofs`, `ExecLanesProofs`, `TrainingProfileProofs`, `RowKernelsProofs` | theorems | |

### How the models correspond to the code

*Monitor.* `mon` is the members of `ConvergenceMonitor`. `Observe` follows the
early returns of `observe`: a non-finite train loss, a missing val loss, a
non-finite val loss, then the judgement. `RestoreMonitor` and
`ClearPersistedStop` are the two calls `restore_or_initialize` makes. Losses
are integers: the rules only compare and subtract them.

*Session.* `stage` is the program counter of an invocation. A stage ends at
each file operation, because there a crash leaves different files behind:
`loadHeader`, `loadParams`, `loadAdam`, `verify` for `CheckpointIO::load`;
`savePayload`, `saveTokfp`, `saveRun` for `save_latest` with the tracking
observer's `on_checkpoint_save_end`; `copyPayload`, `copyTokfp`, `copyRun` for
`promote_latest_to_best`. `RunEpoch` is one turn of the epoch loop. Parameters,
Adam moments and compute weights are each "which run initialised it, with
which tokenizer, after how many optimizer steps": two arenas belong together
exactly when these agree. A file is a record with the level to which it was
written; the writer overwrites it in place, so stopping short leaves the old
file, an empty file, a header, or a header and the parameters. `SaveFails`
is a failure the code notices, `ClosesShort` one it does not (the streams are
closed by their destructors, unchecked).

*Batch loop.* A corpus is its number of tokens; a window is its first token. A
batch is the set of windows it reads (`next_impl`), a gradient the batches summed into it and the number it was divided by, so
that "the mean of the group" needs no floats. `index` is the loader's cursor
and wraps at `IndexModulus` as the `uint32_t` of the code does. The cosine is
replaced by a straight line with the same end points (`LearningRate`): the
properties ask where the rate starts, peaks and ends and that it never jumps.
`Interrupt` ends a run at a batch, the next run resumes at the epoch that was
saved last; that a checkpoint holds that epoch is `TrainingSession`'s subject.

*Layouts and stores.* `build_param_layout` is modelled turn by turn of its two
loops; a slice is its size and its zone. The other layouts place everything in
one zone, which is the same loop without slices of the second. `measured` is a
history variable: the cursor of the first loop after each slice. `MemoryTables`
holds each list twice, once as `named_layout.cpp` writes it and once as the
store's constructor walks it, because that they agree is the property.
`TakeSlice` is `LayoutCursor::next`, `FinishStore` is `finish`; the `Hand...`
actions are the accessors that cut a buffer to a batch, a square of scores or a
prompt. An address is an arena and a byte, so overlap, order and pairing are
arithmetic. `MCMemory` runs either side while the other rests: they share no
state.

*Batch.* `TransformerProgram` turns every method of the layers into a sequence
of calls `[op, in, out]` on cells; a cell is a buffer or the part of one
that belongs to a head. `NetworkRules` is written from the network and its chain
rule and knows no buffers. `ActivationFlow` executes the calls: a cell holds
the quantity some rule gives for what was read, with the pass or optimizer step
it belongs to, or `Garbage` if no rule does. So a call that reads a cell
too early, too late or from another layer or head is a violation of
`OnlyTheNetwork` at once, without any arithmetic. `forward_backward` has both
its branches (the loss probe on or off), and the replay of a failed batch is
the program the diagnostics controller runs. Its handler never returns, so a
non-finite gradient norm ends the run.

*Lanes.* `AttentionCalls` is a constant sequence. A host action is one call of
it: it changes the backend's lane members and appends to the queues of the
streams. A device action is one stream's: a kernel starts or ends, a record
is reached, a wait is passed. Lanes are created non-blocking, so nothing but
events orders them with the default stream. `record` and `wait` carry the
version of the event they mean, because a wait is for the latest record made
before it. A diagnostic that is on copies a tensor to the host, and so waits
for the default stream.

*Row kernels.* A thread of a block runs the kernel's instructions; a loop over
its own columns is one instruction, a barrier lets it pass when all threads
arrived, and a tree reduction has a step per round. A value is the set of terms
summed and their number. A race is two accesses by different threads between
two barriers, one of them a write that is not atomic. The scalar target a thread reads from
shared memory, the early return of a bad row and the totals added across
blocks are instructions like the others. The variant of a kernel and what
the host clears for it are those its caller in the backend chooses; a block has a power of
two of threads, as `kThreadsPerBlock` has.

*Elementwise operations and products.* Views are dims, strides and a base in a
buffer (`ViewGeometry`), made as the code makes them: whole, sliced, cut to
columns, one head selected. A CPU operation is the loop of `DefaultCpuBackend`;
a CUDA one is its grid, each thread with its guard, its loads and its stores
in any order, under the host's checks and dtype dispatch. A value is the operation and the
original places it was made of. A product is, per element of the output, the
set of pairs multiplied. The BLAS itself is external: `sgemm` and
`cublas_gemm_ex` say what a product of matrices given by an address and a
leading dimension is, by rows or by columns. Calls are the shapes and
views the layers pass. The ranked products on CUDA and OpenBLAS assume evenly
spaced prefixes and check them only in part; no caller passes others, so the
calls do not either. `DefaultCpuBackend::copy` takes strided views of rank 2
only, and its calls are those.

*Profiling.* One step of `TrainingProfile` is one call to the observers or one
end of an operation, and takes one tick. Scopes are kept in a tree of paths and
closed by position. What operations a part of the batch makes is a constant
(`WorkOf`), one or two each; the window, the pool and the totals do not depend
on how many. The operation numbers are names. The trainer evaluates when
`validation_due` says so. A save fails before it tells the observers that it
ended (`WriteFails`). In the code that call is inside the same `try`, so an observer
that threw there would be told of the end twice; none throws (the tracking sink
catches what its plugins throw, and the run file's stream has no exceptions), and the
model has no such step.

`interrupted`, `crashes` and `failures` are history variables; the writer and
tokenizer fields of a payload are, too: the code does not have them, the
properties about sidecars need them.

## Runs

| Run | Question | Bounds |
|---|---|---|
| `monitor_rules` | Do best and patience agree with the history of losses through any keeping and resuming? | 3 epochs, losses 1, 2, 4, non-finite, missing; either metric; unboundedly many resumes |
| `session_faults` | Do memory and files stay coherent, and does the session implement `DurableProgress`, whatever is cut short? | 3 invocations of 3 epochs, new or resumed, 2 crashes, 1 failing operation |
| `session_configs` | And when invocations differ in tokenizer, model, metric, dry run and stopping epoch? Does each end? | 3 invocations of up to 4 epochs, 6 plans, 1 failing operation |
| `train_epochs` | Does each window train once per epoch, each step use its group's mean, no held-out token train, and do steps and rates go on exactly across interruptions? | up to 4 training windows, every shuffle; batches of 1 and 2, steps of 1, 2 and 3 batches; 3 runs; index modulo 8 |
| `memory` | Do the two loops that place a layout agree, and every store with its layout? | every list of up to 4 slices of 1, 4 or 8 bytes in either zone, alignment 1, 4, 6; every choice of algorithms, encoding, precision and manager, 2 layers |
| `activation_flow` | Does every call get the tensor the network needs? | 2 layers, 2 heads, every combination of algorithms, 3 passes |
| `exec_lanes` | Does overlapping on the device ever show? | 4 heads on 3 lanes, diagnostics on or off |
| `backend_ops` | Does every operation compute what the loops over the views compute, on every backend? | blocks of 2 or 4 threads, 1 or 2 rows of 3 columns; matrices of up to 3 by 3, grids 2 wide and 2 high |
| `training_profile` | Does the report describe the window that was asked for? | 1 to 3 batches a step, 3 batches an epoch, up to 2 epochs, and 3 that are evaluated every other epoch; pools of 25 and 75 marks; one run that asks for more than the most marks allowed |
| `last_epoch_not_saved`, `stop_after_epoch`, `rate_floor` | Does the code do what these comments and tests say? It does not: see Findings | small |

Why the bounds suffice. A hazard of the session needs a file written by one
invocation, damaged by a second and read by a third, so three invocations and
two crashes reach every pairing of a cut-short write with a later reader. Three
epochs with a save interval of two contain a milestone, an epoch between
milestones and the end of the plan; the configuration run has four epochs, so
there is a second milestone, and validates every third epoch, so a new best
falls between milestones. Losses 1 and 2 (and 4, with `min_delta` 1, in the
monitor run) give improvement, equality and an improvement too small to count.
The monitor's count of epochs is a difference of unsigned numbers. For it to wrap,
`min_epochs` has to be 4 or more, and patience needs two epochs from there on;
with three losses that is too large a run, and the run has `min_epochs` 2. That the
difference does not wrap is proved for every value (`PatienceNotEarly`,
`PatienceInTime`).

Three slices in a zone are the least in which a forgotten gap makes two overlap.
Two layers are the least that confuse one layer's tensor with another's; all
dimensions of the configurations of `memory` differ, so no two shapes agree by accident. The
third pass of `activation_flow` reads what the first left in every buffer.
The configurations of `train_epochs` have epochs whose last step is whole and
epochs whose last step is shorter; an index modulo 8 stands to four windows as
2^32 stands to a corpus that fits the dataset's own bound, and wraps if the
loader counts past it. Four heads on three lanes is the least that uses a lane
twice while another runs. A block of four threads has two rounds of its
reduction and idle threads, a block of two has threads with two columns; two
blocks share an accumulator. Grids of two by two are full, and spill into the
third dimension, at five rows.

Deadlock is not checked in the runs that come to an end by themselves (lanes,
memory, activations, backend operations), nor in the session and training runs,
which `MaxRuns` ends.

### What the properties say

- `BestBeatsHistory`, `NoEarlyPatienceStop`, `PatienceStopsInTime`,
  `InterruptionIsInvisible`: the monitor against history.
- `MemoryCoherent`, `FilesCoherent`: one coherent state in memory and in every
  complete file, also after loads that failed halfway.
- `BestFileIsTheBest`: what `infer` and `export` load is the model the monitor
  calls the best, unless a promotion was cut short, and even then it was one.
  From an interrupted promotion to the next complete one the monitor and the file
  disagree; the code does not prevent it, and the property exempts it.
- `SidecarsMatch`, `OwnTokenizer`: after complete saves and promotions a checkpoint
  lies next to its own sidecars, and where nothing was cut short it is only
  continued with its own tokenizer. A payload next to what an interrupted save
  left of a sidecar may be accepted.
- `BoundedLoss`, `MonitorStopIsSaved`: how much work an interruption costs.
- `NoTrainingAfterStop`: a stop stops, and a persisted one does not.
- `KeepsProgress`: the refinement. `InvocationCompletes`: liveness. Both let a
  restore give up a latest file it cannot load: the next save overwrites it,
  even if the reason was a passing one. That is the code's choice.
- `EveryWindowOnce`, `MeanOfGroup`, `StepsAreWholeEpochs`: an epoch is a
  permutation of the training windows, cut into steps of whole groups and one
  shorter rest, each the mean of exactly its own batches.
- `EvaluationsCompare`: no token of a validation window is ever trained on, as
  input or as target, and every evaluation is over the same windows.
- `RateRisesThenFalls`: through any interruptions the rate rises during
  warmup and falls afterwards.
- `SlicesApart`, `SlicesInZone`, `AllAligned`: no two slices share a byte, and
  the flat views the optimizer steps over hold exactly the slices meant.
- `EveryTensorIsThere`: no configuration's store stumbles over its layout, and
  no algorithm asks for what was not allocated. `TensorsApart`: no two views of
  any store overlap, and a view cut to a batch or prompt stays in place.
  `OptimizerInStep`: element i of a zone is the same parameter in all four
  arenas.
- `OnlyTheNetwork`, `WeightsUpToDate`, `GradientsOfThisBatch`: buffers may be
  shared and reused as they like, each call gets what the network needs.
  `ReportsOfThisPass`: the loss and the diagnostics describe this pass.
- `AsIfSequential`, `AllWorkDone`: the lanes compute what the calls would one by
  one, and nothing waits for ever.
- `NoDataRace`, `ResultsAreWhole`, `LaunchEnds`: between two barriers no thread
  touches what another writes, every reduction contains each term once, no
  barrier is waited at for ever.
- `BackendsAgree`, `AsTheLoops`: CUDA and BLAS compute what the CPU loops do,
  from the same elements, and touch nothing else; threads that meet at no
  barrier meet at one place only to add to it.
- `StageLinesAddUp`: although scopes are closed by position, the lines two
  benchmark scripts read (`tools/vs_bench`, `tools/litnicelm_vs_pytorch`) count
  steps and batches. `MarksAreTheWindow`, `ReportIsOfTheWindow`: marks and totals
  are those of the whole optimizer steps that were asked for, or the report is
  refused.

Fairness: `WF_vars(SessionStep)`. A running invocation is a single thread that
executes its next step, so it does not pause for ever; nothing obliges anyone
to start one. No operation of a session is obliged to fail, and none to
succeed. `ExecLanes`: `WF_vars(Host)` and `WF_vars(Stream(s))` for every
stream: the host is one thread, and the device drains every stream it can.
`RowKernels`: `WF_vars(Next)`: the device runs some thread while one can run.

## Proofs

The proofs assume only the named ASSUMEs of the modules: losses are integers
distinct from the markers, the step, batch, lane, head, layer and interval
constants are positive, plans and configurations are records of their type, the
index holds every window the dataset accepts (so that its end-of-epoch test, which a
corpus of some 2^32 windows would make wrap, is outside what is checked), no operation of a batch has
the name that stands for none, a step runs at least one operation (it calls
`adamw_step`), and a kernel is launched as the backend does: its variant by the
type of the activations, what it adds to cleared, a power of two of threads in a
block (up to 1024, a block's limit) and no empty grid.

- `TypeCorrect` (monitor): needs nothing beyond typing except that the count of
  epochs is a natural number, which is the guard in `CountedEpochs`.
- `BestIsBest`: `BestBeatsHistory` is strengthened to `BestInv`, which says the
  same of the history kept in the checkpoint, because a resume brings that
  history back, and that the history is empty after the current epoch.
- `PatienceNotEarly`: `PatienceInv` bounds the count by the number of epochs
  that can be counted since the best; the step that stops turns the bound into
  the property. Counting epochs needs the cardinality lemmas of
  `ConvergenceRulesProofs`.
- `PatienceInTime`: `CountKeepsUp` bounds the same count from below by the
  epochs since the best one or the resume, whichever came later: a resume may
  clear the count. Counting from a to b and from b to c both misses nothing and
  counts nothing twice.
- `InterruptionsLoseNothing`: keeping and restoring a well-typed monitor changes
  only the epoch judged last, which is the current one.
- `SessionTypeCorrect`, `MemoryStaysCoherent`, `FilesStayCoherent`: `SessionInv`
  adds, per stage of a load, what has been copied from the latest file and what
  a whole payload holds, so that the step to `sync` finds the three pieces
  together.
- The next part of `TrainingSessionProofs`, in layers over `SessionInv`, each
  proved from those before. The one memory of a save or promotion that was cut short is `interrupted`, so
  each layer says what the files hold where it does not name them.
  - `SaveInv`: what a save has put in place at each of its stages
    (`LatestSaved`, `BestCopied`), that a part cut short stays marked, for the
    best file too if a promotion was to come (`ShortIsMarked`), and that a
    promotion has a reason (`SavesAreDue`).
  - `SidecarsStayTrue` follows by induction from `SaveInv`;
    `StopsAreSaved` and `StopsEndOneInvocation` from `StopInv`, which keeps the
    saved stop from the save to the end of the invocation.
  - `BestStaysBest`: `BestInv` relates the best file to the latest file as well
    as to the monitor, because a resume takes the monitor from the latest file.
  - `TokenizersDoNotMix` needs `SidecarsMatch`: only a true sidecar refuses the
    checkpoint of another tokenizer.
  - `LossStaysBounded`: `MilestoneOnDisk` says that the epochs not on disk are at
    most the remainder of the epoch by the save interval; past an epoch that is
    no milestone the remainder grows by one.
- `SessionKeepsProgress`: `SessionInv` and `DurabilityInv` (during a save the
  latest file holds nothing or the work at hand, once it was written) make each
  step of the session a step or a stutter of `DurableProgress`; it is the last
  part of `TrainingSessionProofs`.

- `WindowsInCorpus`, `SidesShareNoToken`: from the definition of the split alone,
  for every corpus, fraction, chunk, window and stride.
- The rest of `TrainEpochsProofs` rests on `EpochsInv`, for every set of
  configurations and any number of runs. Its parts are proved one from the
  other: both loaders hold an order of their windows and stand at a whole batch
  of it (`LoadersInv`, which is where the `uint32_t` cursor is shown not to
  wrap); the last batch is the one that order has there (`BatchInv`); the
  gradient sums the batches since the last step (`SumInv`); steps and batches
  done are what the epoch and the position say (`DoneInv`, `StepsInv`); an
  evaluation reads the validation order from its start (`EvaluationInv`).
  - The initial order sorts a set, and a sort is known only by what it returns:
    `RankRises` and `RankedElement` show that an ascending sequence of a set of
    numbers has each at its rank, and a shuffle is any permutation.
  - `EveryWindowIsTrainedOnce` counts: a place of the order belongs to one batch
    of one step (`PlaceOfPosition`, `PlaceIsItsPosition`), an order is one to one,
    and as many places are read as a batch takes per turn.
  - `RateTurnsOncePerPlan` needs the schedule to rise up to the end of the warmup,
    to fall after it, and to meet there, which is integer division by a positive
    number of steps.
- `LanesAreSequential`, for any number of heads, lanes and calls in a group, with
  the diagnostics on or off. `LanesInv` says where the host stands (`HostInv`),
  what a queue may hold (`QueueInv`, `KernelsInv`), that what runs is at the
  head of its queue (`RunningInv`), and two things about order. `OrderInv`:
  of two calls that conflict over a buffer the earlier one has ended or is before
  the later one, either in the same queue or through a chain of recorded events and waits
  (`Behind`, and `FarBehind` for two such links: a lane's work is behind
  the default stream's by the fork and the default stream's behind a lane's by
  the join). `EndsInv` says the same of
  the ends of the queues, where the next call will be put. A chain is
  needed because taking an item from a queue may remove the very record that
  others wait for, and the order must survive it (`PopKeeps...`).
  What the order needs of the attention itself is proved of `AttentionProgram`
  part by part, and lifted over the loop of heads: an iteration forks and joins
  what it uses (`IterationIsClosed`), and the groups between share no buffer
  that one of them writes (`GroupsInTurn`).
- `ProfileInvariant`, `PoolHoldsTheWindow`, `ReportsWholeWindows`, whatever
  operations the parts of a batch run, for any number of layers, batches and
  steps and any pool. The program of a batch is long and built from constants, so
  the proof first shows where it tells of its step: the beginning follows the
  load, the end is the last call but one, the other calls name no step
  (`BatchTells`). `ProfileInv` then says which operation is running and that a
  tick identifies one (`RunningInv`, `ClockInv`), which steps the run told of so
  far (`StepsInv`), that the window is open exactly from the first whole step
  after the skipped batches until the requested number of steps has ended
  (`TimerInv`), and that the pool holds the operations since the window opened,
  the running one marked or dropped (`CudaInv`). `OutcomeInv` adds what the
  report took from it; that a report counts whole steps is then a count of an
  interval of steps.
- `ReportsTheWindow` adds to `ProfileInv` that operations follow one another in
  time (`TimesInv`), that a step which ended ran an operation (`WorkInv`, from
  the end of its program), and that the wall clock of a host backend holds the
  totals of the window's finished operations, when the first began and when the
  last ended (`HostInv`); the pool of a CUDA backend is the window already. The
  lemmas below it are about data. A sum over a finite set, which the library
  defines by choosing an element at a time, does not depend on the choices:
  `TotalsExist` shows that the table of all partial sums exists, `TotalsAdd` that
  taking out any element takes out its term, each by a counterexample of least
  size. With them totals kept mark by mark are the totals of the marks
  (`TotalsOfMore`), and operations that do not overlap take no longer than their
  span (`TimeWithinSpan`), so that idle time is never negative.
- `StageLinesCount`: the stage lines add up for any number of layers, batches,
  steps, held-out batches and operations. A call that ends a stage closes the one
  entered last, whatever it is called, so the meaning of a line depends on every
  call made before. The proof follows the number of open stages over the calls of
  a part: `Rise` counts enters less leaves, and lemmas about joined calls
  (`ClimbsJoined`, `StartedJoined`, `StageEnds`) show it for each program from its
  pieces. The forward and the backward pass come back to the level they started
  on (`TurnsQuiet` for the loop over the layers), and a batch ends one level
  higher than it began if it starts a step, one lower if it ends one
  (`BatchStaged`). `StageInv` then says that the tree is well-formed (`TreeInv`),
  that as many stages are open as the calls left open (`DepthInv`), that the
  lines with what is still open count the calls made, separately at the top
  (`CountInv`), and that the top-level time is the time from a step's first batch
  to its last (`BatchTimeInv`). `CountInv` alone is not inductive: where a call
  counts depends on the depth, and the depth on the program.

- `LaunchesLeaveWholeResults`, `LaunchesDoNotRace`: for every kernel that reduces, any
  block size, number of rows and of columns, good and bad rows, and every order
  of the blocks and threads. `IsKernel` states what the proof uses of a program
  (a reduction is five instructions in their order, a barrier lies between the
  read of one sum and the next use of scratch, loops and map go over the same
  columns, a target is checked before anything is computed, what is added
  to is what the host clears), and each of the programs is shown to keep to it.
  The inductive invariant `IInv` then rests on three ideas.
  - A check fails for all threads of a row or for none, so how far a thread is
    tells which instructions it has executed (`PathInv`, `Past`), and a barrier that
    one thread has passed all have passed (`Together`).
  - A value is described by who made it. A column belongs to the thread that
    its number leaves modulo the block size; its cell holds what the last
    instruction of that thread to write it left there (`MemInv`), the thread's register its own columns once
    (`LocalInv`). A slot of scratch stands for the columns whose thread is
    congruent to it modulo the stride of the round its thread has come to
    (`TreeInv`): an addition joins two disjoint shares into that of half the modulus, and at 1 the slot
    of thread 0 is the row. What the threads read back (`ResultInv`) and add across
    blocks (`AccumInv`) follows.
  - A race is excluded by saying why each access since the last barrier was made
    (`Explained`): a put into a thread's own slot, an addition of a round, a read of the sum,
    the thread's own columns, the shared target, the target's logit. Of every
    pair of reasons, two different threads cannot have both at one place. The
    logit is the only column read by a thread that does not own it, and nothing is
    overwritten before the barrier that follows (`TouchedOwn`).

  The run embeds this specification in `BackendOps`, where the device does
  something else only while no kernel was launched; the theorems are about `RowKernels` itself.
- `SlicesStayApart`, `SlicesStayInZone`, `SlicesStayAligned`: `LayoutInv` keeps,
  after the first loop, the recurrence its cursor followed (`MeasuredInv`), so
  that the second loop's first cursor is at `measured[next - 1]` at every turn and never passes
  `decay_bytes`. Alignment follows because every turn adds a multiple of the
  alignment to a cursor that is one.

Only model-checked: `TensorViews` with its tables (run `memory`), `ActivationFlow`,
and of `BackendOps` the elementwise operations and the products
(`BackendsAgree`, `AsTheLoops`). These are tables, programs and folds over the axes
of a view, whose facts need evaluation, or an induction over what a fold has done
so far, rather than an inductive invariant. Liveness under fairness (`InvocationCompletes`, `AllWorkDone`,
`LaunchEnds`) is out of the prover's reach and stays with TLC.

## Findings

1. `checkpoint_policy.hpp` says latest is written "when training stops". When
   the plan ends between two milestones without a new best, nothing is written
   (`checkpoint_policy.cpp:25`; run `last_epoch_not_saved`).
2. `README.md` says `--stop_after_epoch N` stops after epoch N. A run resumed at
   or past N trains one more epoch (`training_session_controller.hpp:36`; run
   `stop_after_epoch`).
3. `min_lr_ratio` may be 0 (`config_mapper.cpp` accepts [0, 1], and a test expects
   the decay to zero), but `adamw_step` refuses a rate that is not positive, so
   the last planned step fails (`learning_rate_schedule.cpp:36`; run
   `rate_floor`).

Seen while modelling, without a run: `checkpoint.hpp:71` says load checks header
and sidecar and then fills the arenas; the arenas are filled before the sidecar
is checked (`checkpoint.cpp:546`). The controller initialises afresh, so
`MemoryCoherent` holds.

## Plan

1. Done: the modules above.
2. Next, in this order: `TrackingSink` and its plugins (it implements "every
   plugin that never failed sees every event once"); generation with its sliding
   token window; the vocabulary tokenizer; the bounds that the configuration and
   the command line enforce, with the missing check of `save_interval_epochs`.
3. Proofs to come: `SlicesApart` lifted to the views of `TensorViews`;
   that the threads of the grids of `RowsColsLaunch` are apart, for views of a fixed rank.

## Not modelled

Floating-point values (rounding, overflow, the arithmetic of AdamW, of
normalisation and of the loss), rendering of reports, logging, the byte formats
of checkpoints and exports, tokenizers, configuration and command line, the
tracking sink and its plugins, and the Python tools. Of the tensor store: the
accessors that take their rows one by one, the `temp_ds_*` buffers and the
transposed copies no algorithm reads. Of the backends: loading a plugin, device
memory and file transfers, and the row operations of the CPU backend, which are
single loops. Concurrent invocations on the same checkpoint paths are not
modelled: the program takes no lock and promises nothing for them.
