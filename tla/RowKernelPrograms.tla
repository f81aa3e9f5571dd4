-------------------------- MODULE RowKernelPrograms -------------------------
(***************************************************************************)
(* The CUDA kernels that reduce: softmax, layer norm, cross entropy, sum   *)
(* of squares and column sum, each as the sequence of instructions every   *)
(* thread of its block runs.  A loop over the columns of a thread is one   *)
(* instruction: no other thread of the block is meant to touch them.       *)
(*                                                                         *)
(* act is the type activations have in the kernel's variant (F32 in _f32,  *)
(* BF16 in _bf16act); parameters and their gradients are F32 in both.      *)
(***************************************************************************)
EXTENDS Sequences

Op(b, ty) == [buf |-> b, ty |-> ty]          \* an operand, and how it is read

\* for c = threadIdx.x, + blockDim.x, ...: fold a term of the operands into
\* the registers of the reductions reds; keep: the term is also stored in
\* the output (its cells are "exp"); adds: accumulators that get atomicAdd.
Loop(reds, ops, extent, keep, adds) ==
  [op |-> "loop", reds |-> reds, ops |-> ops, extent |-> extent, keep |-> keep, adds |-> adds]
Accumulate(red, ops, extent) == Loop({red}, ops, extent, {}, {})

\* The output of every column of the thread in over: value within extent,
\* zero beyond it.
MapOver(over, ops, out, extent, value) ==
  [op |-> "map", over |-> over, ops |-> ops, out |-> out, extent |-> extent,
   value |-> value]
Map(ops, out, extent, value) == MapOver("row", ops, out, extent, value)

Step(op) == [op |-> op, red |-> "none"]
Sync == Step("sync")                          \* __syncthreads()

\* scratch[threadIdx.x] = local; the tree of additions; read scratch[0].
\* The tree ends with a barrier of its own.
Reduce(red) == << [op |-> "put", red |-> red], Sync,
                  [op |-> "fold", red |-> red], [op |-> "syncfold", red |-> red],
                  [op |-> "get", red |-> red] >>
\* Mutant: the barrier before the next reduction is left out.
ReduceAndReuseAtOnce(red) == Reduce(red)
\* Every thread has read the result before scratch is reused.
ReduceAndReuse(red) == Reduce(red) \o <<Sync>>

Softmax(act, extent) ==
  <<Accumulate("max", <<Op("x", act)>>, extent)>> \o ReduceAndReuse("max")
  \o <<Loop({"sum"}, <<Op("x", act)>>, extent,
            IF act = "F32" THEN {"out"} ELSE {}, {})>>
  \o Reduce("sum")
  \* F32 rescales the exponents it stored, BF16 computes each again.
  \o <<IF act = "F32"
       THEN MapOver(extent, <<Op("out", act)>>, "out", extent, "prob")
       ELSE Map(<<Op("x", act)>>, "out", extent, "prob")>>

SoftmaxBackward(act, extent) ==
  <<Accumulate("dot", <<Op("x", act), Op("dout", act)>>, extent)>> \o Reduce("dot")
  \o <<Map(<<Op("x", act), Op("dout", act)>>, "out", extent, "dx")>>

LayerNormForward(act) ==
  <<Accumulate("sum", <<Op("x", act)>>, "row")>> \o ReduceAndReuse("sum")
  \o <<Accumulate("var", <<Op("x", act)>>, "row")>> \o Reduce("var")
  \o <<Map(<<Op("x", act), Op("gamma", "F32"), Op("beta", "F32")>>, "out", "row", "norm")>>

LayerNormBackward(act) ==
  LET operands == <<Op("x", act), Op("gamma", "F32"), Op("dout", act)>>
  IN  <<Accumulate("sum", <<Op("x", act)>>, "row")>> \o ReduceAndReuse("sum")
      \o <<Accumulate("var", <<Op("x", act)>>, "row")>> \o ReduceAndReuse("var")
      \o <<Loop({"dxhat", "dxhat_xhat"}, operands, "row", {}, {"dgamma", "dbeta"})>>
      \o ReduceAndReuse("dxhat") \o Reduce("dxhat_xhat")
      \o <<Map(operands, "out", "row", "dx")>>

\* Thread 0 reads the row's target into shared memory; a target outside the
\* row, or a row whose maximum or sum is not finite, poisons the row.
ReadTarget == <<Step("target"), Sync, Step("check_target")>>
Poison(act, out) == [op |-> "poison", ty |-> act, out |-> out]

CrossEntropyBackward(act) ==
  ReadTarget \o <<[op |-> "grab", ops |-> <<Op("x", act)>>],
                  Accumulate("max", <<Op("x", act)>>, "row")>>
  \o ReduceAndReuse("max") \o <<Step("check_max")>>
  \o <<Accumulate("sum", <<Op("x", act)>>, "row")>> \o Reduce("sum")
  \o <<Step("check_sum"), Step("add_loss"),
       Map(<<Op("x", act)>>, "x", "row", "grad"), Step("return"), Poison(act, {"x"})>>

\* The loss alone: thread 0 looks at the target's logit at the end.
CrossEntropyMean(act) ==
  ReadTarget \o <<Accumulate("max", <<Op("x", act)>>, "row")>> \o ReduceAndReuse("max")
  \o <<Accumulate("sum", <<Op("x", act)>>, "row")>> \o Reduce("sum")
  \o <<[op |-> "grab", ops |-> <<Op("x", act)>>], Step("add_loss"), Step("return"),
       Poison(act, {})>>

\* A block adds its partial sum to the one result of the grid.
SumSquares == <<Accumulate("sum", <<Op("x", "F32")>>, "grid")>> \o Reduce("sum")
              \o <<Step("add_total")>>
\* A block per column, the rows strided over its threads.
RowSum(act) == <<Accumulate("sum", <<Op("x", act)>>, "row")>> \o Reduce("sum")
               \o <<Step("put_total")>>

softmax_rows_f32 == Softmax("F32", "row")
softmax_rows_bf16act == Softmax("BF16", "row")
scaled_causal_softmax_rows_f32 == Softmax("F32", "causal")
scaled_causal_softmax_rows_bf16act == Softmax("BF16", "causal")
softmax_backward_rows_f32 == SoftmaxBackward("F32", "row")
softmax_backward_rows_bf16act == SoftmaxBackward("BF16", "row")
softmax_backward_causal_rows_f32 == SoftmaxBackward("F32", "causal")
softmax_backward_causal_rows_bf16act == SoftmaxBackward("BF16", "causal")
layernorm_forward_f32 == LayerNormForward("F32")
layernorm_forward_bf16act == LayerNormForward("BF16")
layernorm_backward_f32 == LayerNormBackward("F32")
layernorm_backward_bf16act == LayerNormBackward("BF16")
cross_entropy_mean_backward_inplace_f32 == CrossEntropyBackward("F32")
cross_entropy_mean_backward_inplace_bf16act == CrossEntropyBackward("BF16")
cross_entropy_mean_f32 == CrossEntropyMean("F32")
cross_entropy_mean_bf16act == CrossEntropyMean("BF16")
sum_squares_f32 == SumSquares
row_sum_f32 == RowSum("F32")
row_sum_bf16act == RowSum("BF16")

(* The kernels by name. *)
Programs ==
  [softmax_rows_f32 |-> softmax_rows_f32,
   softmax_rows_bf16act |-> softmax_rows_bf16act,
   scaled_causal_softmax_rows_f32 |-> scaled_causal_softmax_rows_f32,
   scaled_causal_softmax_rows_bf16act |-> scaled_causal_softmax_rows_bf16act,
   softmax_backward_rows_f32 |-> softmax_backward_rows_f32,
   softmax_backward_rows_bf16act |-> softmax_backward_rows_bf16act,
   softmax_backward_causal_rows_f32 |-> softmax_backward_causal_rows_f32,
   softmax_backward_causal_rows_bf16act |-> softmax_backward_causal_rows_bf16act,
   layernorm_forward_f32 |-> layernorm_forward_f32,
   layernorm_forward_bf16act |-> layernorm_forward_bf16act,
   layernorm_backward_f32 |-> layernorm_backward_f32,
   layernorm_backward_bf16act |-> layernorm_backward_bf16act,
   cross_entropy_mean_backward_inplace_f32 |-> cross_entropy_mean_backward_inplace_f32,
   cross_entropy_mean_backward_inplace_bf16act |-> cross_entropy_mean_backward_inplace_bf16act,
   cross_entropy_mean_f32 |-> cross_entropy_mean_f32,
   cross_entropy_mean_bf16act |-> cross_entropy_mean_bf16act,
   sum_squares_f32 |-> sum_squares_f32,
   row_sum_f32 |-> row_sum_f32,
   row_sum_bf16act |-> row_sum_bf16act]

Bf16Kernels ==
  {"softmax_rows_bf16act", "scaled_causal_softmax_rows_bf16act",
   "softmax_backward_rows_bf16act", "softmax_backward_causal_rows_bf16act",
   "layernorm_forward_bf16act", "layernorm_backward_bf16act",
   "cross_entropy_mean_backward_inplace_bf16act", "cross_entropy_mean_bf16act",
   "row_sum_bf16act"}
LossKernels ==
  {"cross_entropy_mean_backward_inplace_f32", "cross_entropy_mean_backward_inplace_bf16act",
   "cross_entropy_mean_f32", "cross_entropy_mean_bf16act"}
=============================================================================
