---------------------------- MODULE MCBackendOps ----------------------------
(***************************************************************************)
(* Every row kernel, with one block of four threads (fewer columns than    *)
(* threads) and, in f32, two blocks of two threads (more columns than       *)
(* threads), and the calls of ElementwiseCalls and ContractionCalls.                     *)
(***************************************************************************)
EXTENDS BackendOps

OneBlock == [threads |-> 4, rows |-> 1, cols |-> 3]
TwoBlocks == [threads |-> 2, rows |-> 2, cols |-> 3]

(* A kernel of bf16 activations is the f32 one with other loads and stores. *)
RowCall(kernel, act, clears) ==
  [kernel |-> kernel, act |-> act, inplace |-> FALSE, clears |-> clears,
   shapes |-> IF act = "F32" THEN {OneBlock, TwoBlocks} ELSE {OneBlock}]
InPlace(call) == [call EXCEPT !.inplace = TRUE]

RowCalls ==
  {RowCall("softmax_rows_f32", "F32", {}), RowCall("softmax_rows_bf16act", "BF16", {}),
   RowCall("scaled_causal_softmax_rows_f32", "F32", {}),
   RowCall("scaled_causal_softmax_rows_bf16act", "BF16", {}),
   InPlace(RowCall("scaled_causal_softmax_rows_f32", "F32", {})),
   InPlace(RowCall("scaled_causal_softmax_rows_bf16act", "BF16", {})),
   RowCall("softmax_backward_rows_f32", "F32", {}), RowCall("softmax_backward_rows_bf16act", "BF16", {}),
   RowCall("softmax_backward_causal_rows_f32", "F32", {}),
   RowCall("softmax_backward_causal_rows_bf16act", "BF16", {}),
   RowCall("layernorm_forward_f32", "F32", {}), RowCall("layernorm_forward_bf16act", "BF16", {}),
   RowCall("layernorm_backward_f32", "F32", {"dgamma", "dbeta"}),
   RowCall("layernorm_backward_bf16act", "BF16", {"dgamma", "dbeta"}),
   RowCall("cross_entropy_mean_backward_inplace_f32", "F32", {"loss"}),
   RowCall("cross_entropy_mean_backward_inplace_bf16act", "BF16", {"loss"}),
   RowCall("cross_entropy_mean_f32", "F32", {"loss"}), RowCall("cross_entropy_mean_bf16act", "BF16", {"loss"}),
   RowCall("sum_squares_f32", "F32", {"total"}),
   RowCall("row_sum_f32", "F32", {}), RowCall("row_sum_bf16act", "BF16", {})}

CellsOf == INSTANCE ElementwiseCalls
ProductsOf == INSTANCE ContractionCalls
MCCellCalls == CellsOf!LayerCellCalls
MCProductCalls == ProductsOf!LayerProductCalls
=============================================================================
