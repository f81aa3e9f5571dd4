--------------------------- MODULE TrainingProfile --------------------------
(***************************************************************************)
(* What a training run reports of its own time.  The trainer, the network  *)
(* and the checkpoint store call the training observers; ProfilingObserver *)
(* turns the calls into stages of a StageProfile and opens and closes the  *)
(* window in which the ObservedBackend has every operation marked by the   *)
(* OpTimer.  One step is one call or one end of an operation, and takes    *)
(* one tick.                                                               *)
(***************************************************************************)
EXTENDS StageProfile, OpTimer

CONSTANTS
  Runs,        \* the runs: configuration and data
  Layers,      \* n_layers
  WorkOf       \* the backend operations of every place of the program

(* batches_per_step; batches of an epoch and of the held-out part; epochs  *)
(* done before and left; validation_every_epochs; the three                *)
(* profile_backend keys; the kind of backend.                              *)
RunRecords ==
  [per_step : Nat \ {0}, batches : Nat \ {0}, held_out : Nat,
   trained : Nat, epochs : Nat, validation_every : Nat \ {0},
   profile_backend_ops : BOOLEAN, skip : Nat, requested : Nat,
   device : {"CUDA", "CPU"}]

Places == {"fill_batch", "embedding", "layer", "attention", "ffn", "head", "loss",
           "zero", "sum", "mean", "step", "evaluate", "save", "restore"}

NoOp == "none"

(* build_param_layout refuses a model without layers, the dataset's        *)
(* constructor a training part without a full batch; a step runs           *)
(* adamw_step.                                                             *)
ASSUME ProfileAssumption ==
  /\ Runs \subseteq RunRecords
  /\ Layers \in Nat \ {0}
  /\ WorkOf \in [Places -> Seq(STRING \ {NoOp})]
  /\ WorkOf["step"] # <<>>

VARIABLES
  run,
  part,          \* the part of Trainer::train that is running
  pc,            \* the next call of the part
  epoch, batch_idx,
  running,       \* the backend operation that is running
  now,           \* the clock
  outcome,       \* "running", or how the run ended
  report,        \* the report of the marked operations
  ran,           \* history: the operations run since training started
  steps,         \* history: the optimizer steps, with what was done before each
  batch_time     \* history: time from a step's first batch to its last

trainer == <<run, part, pc, epoch, batch_idx>>
history == <<ran, steps, batch_time>>
vars == <<stages, timer, cuda, host, trainer, running, now, outcome, report, history>>

-----------------------------------------------------------------------------
(* The calls and operations of the trainer's parts.                        *)

Call(name) == <<[call |-> name, layer |-> -1, op |-> NoOp]>>
LayerCall(name, l) == <<[call |-> name, layer |-> l, op |-> NoOp]>>
Work(place) ==
  [i \in DOMAIN WorkOf[place] |-> [call |-> "op", layer |-> -1, op |-> WorkOf[place][i]]]
When(condition, calls) == IF condition THEN calls ELSE <<>>

AttentionCalls(l) ==
  LayerCall("on_attention_start", l) \o Work("attention")
    \o LayerCall("on_attention_end", l)
FfnCalls(l) == LayerCall("on_ffn_start", l) \o Work("ffn") \o LayerCall("on_ffn_end", l)
OutputHeadCalls ==
  Call("on_output_head_start") \o Work("head") \o Call("on_output_head_end")

(* The calls of the loop over the layers, which all make equally many. *)
InTurn(turns) ==
  LET size == Len(turns[1])
  IN  [i \in 1..(Len(turns) * size) |->
         turns[((i - 1) \div size) + 1][((i - 1) % size) + 1]]

LayerForward(l) ==
  LayerCall("on_layer_start", l) \o Work("layer") \o AttentionCalls(l)
    \o Work("layer") \o FfnCalls(l) \o Work("layer") \o LayerCall("on_layer_end", l)

LayerBackward(l) ==
  LayerCall("on_layer_start", l) \o FfnCalls(l) \o Work("layer")
    \o AttentionCalls(l) \o Work("layer") \o LayerCall("on_layer_end", l)

Forward ==
  Call("on_forward_start") \o Work("embedding")
    \o InTurn([l \in 1..Layers |-> LayerForward(l - 1)])
    \o OutputHeadCalls \o Call("on_forward_end")

Backward ==
  Call("on_backward_start") \o OutputHeadCalls
    \o InTurn([l \in 1..Layers |-> LayerBackward(Layers - l)])
    \o Work("embedding") \o Call("on_backward_end")

(* DatasetGPU copies a batch through the backend, DatasetCPU does not.     *)
Load(device) == When(device = "CUDA", Work("fill_batch"))

(* Mutant: every batch starts a step. *)
TrainBatchOfItsOwnStep(device, first, last, summed) ==
  Call("on_batch_start")
    \o Call("on_batch_load_start") \o Load(device) \o Call("on_batch_load_end")
    \o Call("on_train_step_start")
    \o Forward \o Work("loss") \o Work("zero") \o Backward
    \o When(summed, Work("sum"))
    \o When(last, When(summed, Work("mean")) \o Work("step") \o Call("on_train_step_end"))
    \o Call("on_batch_end")

(* A batch of the training set, which may be the first and the last of its *)
(* step; gradients are summed when a step has several.                     *)
TrainBatch(device, first, last, summed) ==
  Call("on_batch_start")
    \o Call("on_batch_load_start") \o Load(device) \o Call("on_batch_load_end")
    \o When(first, Call("on_train_step_start"))
    \o Forward \o Work("loss") \o Work("zero") \o Backward
    \o When(summed, Work("sum"))
    \o When(last, When(summed, Work("mean")) \o Work("step") \o Call("on_train_step_end"))
    \o Call("on_batch_end")

(* The loader of the held-out batches has no observer. *)
Evaluate(device) == Load(device) \o Forward \o Work("evaluate")

Save == Call("on_checkpoint_save_start") \o Work("save") \o Call("on_checkpoint_save_end")
Restore == Call("on_checkpoint_load_start") \o Work("restore") \o Call("on_checkpoint_load_end")

Devices == {"CUDA", "CPU"}
BatchKinds == [device : Devices, first : BOOLEAN, last : BOOLEAN, summed : BOOLEAN]
BatchProgram ==
  [kind \in BatchKinds |-> TrainBatch(kind.device, kind.first, kind.last, kind.summed)]
EvaluateProgram == [device \in Devices |-> Evaluate(device)]
SaveProgram == Save
RestoreProgram == Restore

StepStartsAt(i) == i % run.per_step = 0
StepEndsAt(i) == (i + 1) % run.per_step = 0 \/ i + 1 = run.batches

BatchKind ==
  [device |-> run.device, first |-> StepStartsAt(batch_idx), last |-> StepEndsAt(batch_idx),
   summed |-> run.per_step > 1]

Program ==
  CASE part = "batch" -> BatchProgram[BatchKind]
    [] part = "evaluate" -> EvaluateProgram[run.device]
    [] part = "save" -> SaveProgram
    [] part = "restore" -> RestoreProgram
    [] OTHER -> <<>>

CurrentCall == Program[pc]
PartDone == pc > Len(Program) /\ running = NoOp

-----------------------------------------------------------------------------
(* ProfilingObserver: the stage each call enters.  Every other call leaves *)
(* the stage that was entered last.                                        *)

StageEnteredBy ==
  [on_batch_start |-> "BATCH_STEP", on_batch_load_start |-> "BATCH_LOAD",
   on_train_step_start |-> "TRAIN_STEP", on_forward_start |-> "FORWARD",
   on_backward_start |-> "BACKWARD", on_layer_start |-> "LAYER",
   on_attention_start |-> "SELF_ATTENTION", on_ffn_start |-> "FFN",
   on_output_head_start |-> "OUTPUT_HEAD",
   on_checkpoint_load_start |-> "CHECKPOINT_LOAD",
   on_checkpoint_save_start |-> "CHECKPOINT_SAVE"]

(* ... and what it tells the timer when backend operations are profiled.   *)
TimedCalls(call) ==
  CASE call = "on_train_step_start" -> TimerStepStart(timer, run.skip, run.requested)
    [] call = "on_train_step_end" -> TimerStepEnd(timer, run.requested)
    [] call = "on_batch_end" -> TimerBatchEnd(timer)
    [] OTHER -> timer

(* The batches of earlier epochs and of this one that are done. *)
CompletedBatches == epoch * run.batches + batch_idx

Remember(call) ==
  /\ steps' = CASE call = "on_train_step_start" ->
                     Append(steps, [from |-> Len(ran), to |-> Len(ran),
                                    batches |-> CompletedBatches, ended |-> FALSE])
                [] call = "on_train_step_end" ->
                     [steps EXCEPT ![Len(steps)].to = Len(ran),
                                   ![Len(steps)].ended = TRUE]
                [] OTHER -> steps
  /\ batch_time' =
       CASE call = "on_batch_start" /\ StepStartsAt(batch_idx) ->
              [batch_time EXCEPT !.start = now]
         [] call = "on_batch_end" /\ StepEndsAt(batch_idx) ->
              [batch_time EXCEPT !.total = @ + (now - batch_time.start)]
         [] OTHER -> batch_time

(* The controller passes a call to its observers. *)
Observe ==
  /\ outcome = "running"
  /\ pc <= Len(Program)
  /\ CurrentCall.call # "op"
  /\ IF CurrentCall.call \in DOMAIN StageEnteredBy
     THEN Enter(StageEnteredBy[CurrentCall.call], CurrentCall.layer, now)
     ELSE Leave(now)
  /\ timer' = IF run.profile_backend_ops THEN TimedCalls(CurrentCall.call) ELSE timer
  /\ Remember(CurrentCall.call)
  /\ pc' = pc + 1
  /\ now' = now + 1
  /\ UNCHANGED <<cuda, host, run, part, epoch, batch_idx, running, outcome, report, ran>>

(* The ObserverScope around an operation: GpuOpTimer::on_op_begin. *)
BeginOp ==
  /\ outcome = "running"
  /\ pc <= Len(Program)
  /\ CurrentCall.call = "op"
  /\ running = NoOp
  /\ running' = CurrentCall.op
  /\ cuda' = IF timer.enabled /\ run.device = "CUDA"
             THEN CudaMarkBegin(cuda, CurrentCall.op, now) ELSE cuda
  /\ host' = IF timer.enabled /\ run.device = "CPU"
             THEN HostMarkBegin(host, CurrentCall.op, now) ELSE host
  /\ ran' = Append(ran, [op |-> CurrentCall.op, begin |-> now, end |-> now])
  /\ now' = now + 1
  /\ UNCHANGED <<stages, timer, trainer, outcome, report, steps, batch_time>>

(* Its end, which the destructor calls when the operation throws as well.  *)
EndOp(then) ==
  /\ outcome = "running"
  /\ running # NoOp
  /\ running' = NoOp
  /\ cuda' = IF timer.enabled /\ run.device = "CUDA" THEN CudaMarkEnd(cuda, now) ELSE cuda
  /\ host' = IF timer.enabled /\ run.device = "CPU" THEN HostMarkEnd(host, now) ELSE host
  /\ ran' = [ran EXCEPT ![Len(ran)].end = now]
  /\ pc' = then
  /\ now' = now + 1
  /\ UNCHANGED <<stages, timer, run, part, epoch, batch_idx, outcome, report, steps,
                 batch_time>>

Return == EndOp(pc + 1)

(* Mutant: the end of an operation that throws is not observed. *)
OpThrowsUnobserved ==
  /\ part = "save"
  /\ outcome = "running"
  /\ running # NoOp
  /\ running' = NoOp
  /\ pc' = Len(Program)
  /\ UNCHANGED <<stages, timer, cuda, host, run, part, epoch, batch_idx, now, outcome,
                 report, history>>

(* An operation throws while a checkpoint is saved: the store catches it   *)
(* and reports the end of the save.                                        *)
OpThrows == part = "save" /\ EndOp(Len(Program))

(* Writing the file fails between two operations. *)
WriteFails ==
  /\ part = "save"
  /\ outcome = "running"
  /\ running = NoOp
  /\ pc \in 2..(Len(Program) - 1)
  /\ pc' = Len(Program)
  /\ UNCHANGED <<stages, timer, cuda, host, run, part, epoch, batch_idx, running, now,
                 outcome, report, history>>

-----------------------------------------------------------------------------
(* Trainer::train: which part follows.                                     *)

Turn(next_part, next_epoch, next_idx) ==
  /\ outcome = "running"
  /\ PartDone
  /\ part' = next_part
  /\ epoch' = next_epoch
  /\ batch_idx' = next_idx
  /\ pc' = 1
  /\ UNCHANGED <<stages, timer, cuda, host, run, running, now, outcome, report, history>>

(* The constructor of the timer refuses a bad step count.                  *)
Init ==
  /\ run \in Runs
  /\ outcome = IF ValidStepCount(run.requested) THEN "running" ELSE "refused"
  /\ part \in {"restore", "ready"}
  /\ pc = 1
  /\ epoch = 0
  /\ batch_idx = 0
  /\ running = NoOp
  /\ now = 0
  /\ ResetTree
  /\ timer = IdleTimer
  /\ cuda = PreparedCuda(run.requested)
  /\ host = PreparedHost
  /\ report = [totals |-> <<>>, span |-> 0, idle |-> 0, overlap |-> FALSE]
  /\ ran = <<>>
  /\ steps = <<>>
  /\ batch_time = [start |-> 0, total |-> 0]

(* on_training_start: the checkpoint has been loaded, the profile is reset. *)
StartTraining ==
  /\ outcome = "running"
  /\ part \in {"restore", "ready"}
  /\ PartDone
  /\ part' = IF run.epochs = 0 THEN "stop" ELSE "batch"
  /\ pc' = 1
  /\ tree' = [node \in {RootNode} |-> NewNode]
  /\ active_frames' = <<>>
  /\ current' = RootNode
  /\ ran' = <<>>
  /\ UNCHANGED <<timer, cuda, host, run, epoch, batch_idx, running, now, outcome, report,
                 steps, batch_time>>

NextBatch ==
  /\ part = "batch"
  /\ batch_idx + 1 < run.batches
  /\ Turn("batch", epoch, batch_idx + 1)

(* The e-th epoch of the run is followed by an evaluation.                 *)
ValidationDue(r, e) ==
  /\ r.held_out > 0
  /\ (r.trained + e) % r.validation_every = 0 \/ e = r.epochs

BatchesDone ==
  /\ part = "batch"
  /\ batch_idx + 1 = run.batches
  /\ Turn(IF ValidationDue(run, epoch + 1) THEN "evaluate" ELSE "epoch_end", epoch, 0)

NextEvaluation ==
  /\ part = "evaluate"
  /\ batch_idx + 1 < run.held_out
  /\ Turn("evaluate", epoch, batch_idx + 1)

EvaluationDone ==
  /\ part = "evaluate"
  /\ batch_idx + 1 = run.held_out
  /\ Turn("epoch_end", epoch, 0)

(* on_epoch_end: the policy may save, then training continues or stops.    *)
SaveLatest == part = "epoch_end" /\ Turn("save", epoch, 0)

ContinueTraining ==
  /\ part \in {"epoch_end", "save"}
  /\ epoch + 1 < run.epochs
  /\ Turn("batch", epoch + 1, 0)

StopTraining ==
  /\ part \in {"epoch_end", "save"}
  /\ Turn("stop", epoch + 1, 0)

(* Idle gaps are the marked span less the operations' times, unless these  *)
(* overlap.                                                                *)
ReportOf(r) ==
  LET time == OperationTime(r.totals) IN
  [totals |-> r.totals, span |-> r.span,
   idle |-> IF r.span > time THEN r.span - time ELSE 0, overlap |-> time > r.span]

(* on_training_end: the timer stops; its summary is part of the report or  *)
(* throws.                                                                 *)
EndTraining ==
  /\ outcome = "running"
  /\ part = "stop"
  /\ timer' = IF run.profile_backend_ops THEN [timer EXCEPT !.enabled = FALSE] ELSE timer
  /\ LET r == IF run.device = "CUDA" THEN CudaReport(cuda) ELSE HostReport(host) IN
       IF run.profile_backend_ops
       THEN /\ outcome' = Summary(timer, run.requested, r)
            /\ report' = ReportOf(r)
       ELSE /\ outcome' = "reported"
            /\ UNCHANGED report
  /\ UNCHANGED <<stages, cuda, host, trainer, running, now, history>>

Over == outcome # "running" /\ UNCHANGED vars

Next ==
  \/ Observe
  \/ BeginOp
  \/ Return
  \/ OpThrows
  \/ WriteFails
  \/ StartTraining
  \/ NextBatch
  \/ BatchesDone
  \/ NextEvaluation
  \/ EvaluationDone
  \/ SaveLatest
  \/ ContinueTraining
  \/ StopTraining
  \/ EndTraining
  \/ Over

Spec == Init /\ [][Next]_vars

-----------------------------------------------------------------------------
(* Properties                                                              *)

StageNodes(stage) == {node \in DOMAIN tree : node # RootNode /\ Last(node)[1] = stage}
VisitsOf(nodes) == MapThenSumSet(LAMBDA node : tree[node].count, nodes)
TopNode(stage) == <<<<stage, -1>>>>
Top(stage) == IF TopNode(stage) \in DOMAIN tree THEN tree[TopNode(stage)] ELSE NewNode

BatchDone == part = "batch" /\ PartDone
StepDone == BatchDone /\ StepEndsAt(batch_idx)

(* Scopes are closed by position: with several batches in a step the end   *)
(* of a batch closes another scope than its own (profiling_observer.cpp:   *)
(* 50).  What the speed comparisons read still holds.  After every step    *)
(* the top-level batch_step line counts the optimizer steps (vs_bench      *)
(* multiplies it by the tokens of a step), all batch_step lines together   *)
(* count the batches (bench_compare.py adds them up), and the top-level    *)
(* time is the whole time spent on batches and nothing else.               *)
BatchStepLines ==
  StepDone =>
    /\ Top("BATCH_STEP").count = Len(steps)
    /\ VisitsOf(StageNodes("BATCH_STEP")) = CompletedBatches + 1
    /\ Top("BATCH_STEP").total = batch_time.total

(* Evaluation runs the same network under the same observer, yet its       *)
(* passes never count among those of training: they are the top-level      *)
(* forward line, and every pass of training is below a batch.              *)
HeldOutBatches(r, e) == Cardinality({i \in 1..e : ValidationDue(r, i)}) * r.held_out

HeldOutApart ==
  BatchDone =>
    /\ Top("FORWARD").count = HeldOutBatches(run, epoch)
    /\ VisitsOf(StageNodes("FORWARD")) - Top("FORWARD").count = CompletedBatches + 1
    /\ Top("BACKWARD").count = 0

(* No stage stays open past its part, although saves fail in the middle    *)
(* (checkpoint_store.cpp:88): only a step that has batches left keeps its  *)
(* top-level stage open.                                                   *)
StagesClose ==
  PartDone =>
    IF BatchDone /\ ~StepEndsAt(batch_idx)
    THEN /\ Len(active_frames) = 1
         /\ active_frames[1].node = TopNode("BATCH_STEP")
    ELSE active_frames = <<>>

(* The operations from the start of the first step after the skipped       *)
(* batches to the end of the last requested step.                          *)
WindowOperations ==
  LET open == {i \in DOMAIN steps : steps[i].batches >= run.skip} IN
  IF open = {} \/ ~run.profile_backend_ops THEN <<>>
  ELSE LET first == CHOOSE i \in open : \A j \in open : i <= j
           last == first + run.requested - 1 IN
       SubSeq(ran, steps[first].from + 1,
              IF last \in DOMAIN steps /\ steps[last].ended THEN steps[last].to
              ELSE Len(ran))

FinishedIn(operations) ==
  IF running # NoOp /\ operations # <<>> /\ Last(operations) = Last(ran)
  THEN Front(operations) ELSE operations

(* The CUDA pool holds the operations of the window, each under its own    *)
(* name with its own begin and end, up to the pool's capacity, and the     *)
(* others are counted as dropped; whatever operation threw in between.     *)
MarksAreTheWindow ==
  run.device = "CUDA" =>
    LET marked == FinishedIn(WindowOperations)
        kept == IF Len(marked) < cuda.capacity THEN Len(marked) ELSE cuda.capacity IN
    /\ cuda.marks = SubSeq(marked, 1, kept)
    /\ running = NoOp => cuda.dropped = Len(marked) - kept

(* A run of the CPU backend reports the same totals as the marks of CUDA   *)
(* would; in both, operation times and idle gaps make up the span, so that *)
(* no overlap is ever reported for operations that follow one another.     *)
IdleIsTheRest ==
  (outcome = "reported" /\ run.profile_backend_ops) =>
    /\ report.totals = TotalsOfMarks(WindowOperations)
    /\ ~report.overlap
    /\ report.span = Last(WindowOperations).end - Head(WindowOperations).begin
    /\ OperationTime(report.totals) + report.idle = report.span

(* What is reported is a window of whole optimizer steps, as many as were  *)
(* requested; a run that ends before says that its window is incomplete.   *)
WholeStepsOrRefusal ==
  (outcome \notin {"running", "refused"} /\ run.profile_backend_ops) =>
    LET whole == {i \in DOMAIN steps : steps[i].batches >= run.skip /\ steps[i].ended} IN
    (outcome = "incomplete") <=> (Cardinality(whole) < run.requested)

(* The stage lines of the profile add up.                                  *)
StageLinesAddUp == BatchStepLines /\ HeldOutApart /\ StagesClose

(* The operations' report, if there is one, is of the window asked for.    *)
ReportIsOfTheWindow == WholeStepsOrRefusal /\ IdleIsTheRest
=============================================================================
