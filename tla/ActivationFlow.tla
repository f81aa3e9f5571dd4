--------------------------- MODULE ActivationFlow ---------------------------
(***************************************************************************)
(* The trainer running the programs of TransformerProgram over its buffers *)
(* call by call: batches, evaluations and optimizer steps in any order the *)
(* training loop allows.  A buffer holds a quantity of NetworkRules and a  *)
(* stamp: the pass an activation or a gradient was computed in, the number *)
(* of optimizer steps behind a weight, the batch a window of tokens is of. *)
(***************************************************************************)
EXTENDS TransformerProgram

CONSTANTS Configs, MaxPasses

Network == INSTANCE NetworkRules
Rules == [Learned |-> Network!Rules("Learned"), None |-> Network!Rules("None"),
          Rope |-> Network!Rules("Rope")]
Zero == Network!Zero

VARIABLES
  cfg,
  mem,        \* cell |-> its quantity and stamp
  routine,    \* what runs: "sync", "train", "evaluate", "step", "replay"; "idle"; "ended"
  pc,
  pass,       \* forward passes started
  batch,      \* the batch in the dataset's buffers
  version,    \* optimizer steps done
  pending,    \* gradients not applied yet
  heard       \* the last scalar read, or the stamp of none

vars == <<cfg, mem, routine, pc, pass, batch, version, pending, heard>>

Texts(c) ==
  [sync |-> SyncComputeWeights(c), train |-> ForwardBackward(c), evaluate |-> EvaluateBatch(c),
   step |-> ApplyOptimizerStep(c), replay |-> ReplayBatch(c)]
Programs == {[cfg |-> c, texts |-> Texts(c)] : c \in Configs}
TextsOf(c) == (CHOOSE p \in Programs : p.cfg = c).texts

CellsOf(text) == UNION {{text[i].in[j] : j \in DOMAIN text[i].in}
                          \cup {text[i].out[j] : j \in DOMAIN text[i].out} : i \in DOMAIN text}
Tensors(arena, names) == {<<arena, n[1], n[2]>> : n \in names}
Cells(c) == CellsOf(TextsOf(c).train)
              \cup Tensors("param", Params(c)) \cup Tensors("grad", Params(c))
              \cup Tensors("compute", Matrices)

Value(q, stamp) == [q |-> q, stamp |-> stamp]
Garbage == <<"garbage">>

Inputs == {Temp("ids", 0), Temp("targets", 0)}
Fresh(cell) ==
  mem[cell].stamp = CASE cell[1] \in {"param", "compute"} -> version
                      [] cell \in Inputs -> batch
                      [] OTHER -> pass

-----------------------------------------------------------------------------

Init ==
  /\ cfg \in Configs
  /\ mem = [x \in Cells(cfg) |-> IF x[1] = "param" THEN Value(<<x[2], x[3]>>, 0)
                                                  ELSE Value(<<"unset">>, 0)]
  /\ routine = "sync"     \* restore_or_initialize has given the parameters their values
  /\ pc = 1
  /\ pass = 0
  /\ batch = 0
  /\ version = 0
  /\ pending = FALSE
  /\ heard = Value(<<"unset">>, 0)

Text == TextsOf(cfg)[routine]
Running == routine \notin {"idle", "ended"}
Instruction == Text[pc]

Idle == routine = "idle"
Run(r) == routine' = r /\ pc' = 1

(* IDataLoader::next, then forward_backward or a batch of evaluate. *)
Load(stamp) ==
  mem' = [x \in DOMAIN mem |-> IF x \in Inputs THEN Value(<<x[2], 0>>, stamp) ELSE mem[x]]

NextBatch(r) ==
  /\ Idle
  /\ pass < MaxPasses
  /\ Run(r)
  /\ pass' = pass + 1
  /\ batch' = batch + 1
  /\ Load(batch + 1)
  /\ UNCHANGED <<cfg, version, heard>>

TrainOneBatch == NextBatch("train") /\ pending' = TRUE
Evaluate == NextBatch("evaluate") /\ ~pending /\ UNCHANGED pending

ApplyStep ==
  /\ Idle
  /\ pending
  /\ Run("step")
  /\ UNCHANGED <<cfg, mem, pass, batch, version, pending, heard>>

(* The gradient norm is not finite: the batch is replayed for its           *)
(* diagnostics, and then the run ends with the error.                       *)
HandleNonfiniteGradNorm ==
  /\ routine = "step"
  /\ pc <= Len(Text)
  /\ Instruction.op = "clip"
  /\ pass < MaxPasses
  /\ Run("replay")
  /\ pass' = pass + 1
  /\ UNCHANGED <<cfg, mem, batch, version, pending, heard>>

Finished ==
  /\ Running
  /\ pc > Len(Text)
  /\ routine' = IF routine = "replay" THEN "ended" ELSE "idle"
  /\ pc' = 0
  /\ version' = IF routine = "step" THEN version + 1 ELSE version
  /\ pending' = IF routine = "step" THEN FALSE ELSE pending
  /\ UNCHANGED <<cfg, mem, pass, batch, heard>>

-----------------------------------------------------------------------------
(* One call *)

(* What a backend operation leaves in its outputs. *)
Outcome(i) ==
  LET in == [k \in DOMAIN i.in |-> mem[i.in[k]].q]
      matching == {r \in Rules[cfg.position] : r.op = i.op /\ r.in = in}
  IN  IF matching # {} /\ \A k \in DOMAIN i.in : Fresh(i.in[k])
      THEN (CHOOSE r \in matching : TRUE).out
      ELSE [k \in DOMAIN i.out |-> Garbage]

Written(i) ==
  LET result == IF i.op = "fill" THEN [k \in DOMAIN i.out |-> Zero] ELSE Outcome(i)
      At(x) == CHOOSE k \in DOMAIN i.out : i.out[k] = x
      out == {i.out[k] : k \in DOMAIN i.out}
  IN  [x \in DOMAIN mem |-> IF x \in out THEN Value(result[At(x)], pass) ELSE mem[x]]

(* OptimizerAdamW::step over a decay zone. *)
Stepped(zone) ==
  [x \in DOMAIN mem |->
     IF x[1] = "param" /\ <<x[2], x[3]>> \in zone
     THEN IF mem[<<"grad", x[2], x[3]>>] = Value(<<"grad", x[2], x[3]>>, pass)
          THEN Value(mem[x].q, mem[x].stamp + 1) ELSE Value(Garbage, pass)
     ELSE mem[x]]

Memory(i) ==
  CASE i.op \in {"check", "read_scalar", "clip"} -> mem
    [] i.op = "zero_gradients" ->
         [x \in DOMAIN mem |-> IF x[1] = "grad" THEN Value(Zero, pass) ELSE mem[x]]
    [] i.op = "adamw_decay" -> Stepped(Matrices \cup Embeddings(cfg))
    [] i.op = "adamw_no_decay" -> Stepped(Vectors(cfg))
    [] i.op = "cast_weights" ->
         [x \in DOMAIN mem |-> IF x[1] = "compute" THEN mem[<<"param", x[2], x[3]>>] ELSE mem[x]]
    [] OTHER -> Written(i)

Execute ==
  /\ Running
  /\ pc <= Len(Text)
  /\ mem' = Memory(Instruction)
  /\ heard' = IF Instruction.op = "read_scalar" THEN mem[Instruction.in[1]] ELSE heard
  /\ pc' = pc + 1
  /\ UNCHANGED <<cfg, routine, pass, batch, version, pending>>

Next ==
  TrainOneBatch \/ Evaluate \/ ApplyStep \/ HandleNonfiniteGradNorm \/ Execute \/ Finished
Spec == Init /\ [][Next]_vars

-----------------------------------------------------------------------------
(* Properties *)

(* No call ever gets a tensor of another kind, layer, head, batch or pass   *)
(* than the network needs there, or a weight of another optimizer step:     *)
(* nothing is overwritten before its last reader, nothing left from before  *)
(* is taken for new, whichever implementations are combined.                *)
OnlyTheNetwork == \A x \in DOMAIN mem : mem[x].q # Garbage

(* When a batch has been trained on, or replayed after a failure, the       *)
(* gradient of every parameter is that of this batch and these weights.     *)
GradientsOfThisBatch ==
  routine = "ended" \/ (routine = "idle" /\ pending) =>
    \A p \in Params(cfg) :
      mem[<<"grad", p[1], p[2]>>] = Value(<<"grad", p[1], p[2]>>, pass)

(* The loss that the trainer and the evaluation report is the one of the    *)
(* batch just run, though the buffer of the logits is by then overwritten   *)
(* by their gradient.                                                       *)
LossOfThisBatch ==
  (Idle /\ pass > 0) => heard = Value(<<"loss", 0>>, pass)

(* Between passes every matrix the next pass multiplies with is the cast of *)
(* the parameter as the last optimizer step left it.                        *)
WeightsUpToDate ==
  Idle =>
    \A p \in Params(cfg) :
      /\ mem[<<"param", p[1], p[2]>>] = Value(p, version)
      /\ p \in Matrices => mem[Weight(cfg, p[1], p[2])] = Value(p, version)

(* A diagnostic that is switched on examines the tensor its label names, as *)
(* computed in this pass, so a failure it reports is one of that tensor.    *)
DiagnosticsSeeWhatTheyName ==
  (Running /\ pc <= Len(Text) /\ Instruction.op = "check") =>
    mem[Instruction.in[1]] = Value(Instruction.label, pass)

(* What a pass tells of itself, its loss and its diagnostics, is of itself. *)
ReportsOfThisPass == LossOfThisBatch /\ DiagnosticsSeeWhatTheyName
=============================================================================
