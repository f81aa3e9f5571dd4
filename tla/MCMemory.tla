------------------------------ MODULE MCMemory ------------------------------
(***************************************************************************)
(* The loops that place a layout, and a memory manager that builds its     *)
(* stores over layouts so placed: each on its own, the other at rest.      *)
(*                                                                         *)
(* Every list of up to four slices of one, four or eight bytes in either   *)
(* zone, placed with an alignment of 1, 4 and 6; every choice of           *)
(* algorithms, position encoding, precision and kind of manager, for a     *)
(* model of two layers with dimensions that differ from each other.        *)
(***************************************************************************)
EXTENDS NamedLayout

CONSTANT Configs

VARIABLES cfg, store, store_slices, index, views, threw, handed
view_vars == <<cfg, store, store_slices, index, views, threw, handed>>

Views == INSTANCE TensorViews WITH slices <- store_slices

NoLayout ==
  /\ specs = <<>> /\ slices = <<>> /\ measured = <<>>
  /\ stage = "done" /\ alignment = 1 /\ next = 1 /\ total_bytes = 0
  /\ decay_cursor = 0 /\ decay_bytes = 0
  /\ decay_write_cursor = 0 /\ no_decay_write_cursor = 0

NoManager ==
  /\ cfg = CHOOSE c \in Configs : TRUE
  /\ store = 0 /\ store_slices = <<>> /\ index = 1
  /\ views = {} /\ threw = "no" /\ handed = Views!NoView

MemoryInit == (Init /\ NoManager) \/ (NoLayout /\ Views!Init)
MemoryNext ==
  \/ Next /\ UNCHANGED view_vars
  \/ store > 0 /\ Views!Next /\ UNCHANGED vars
MemorySpec == MemoryInit /\ [][MemoryNext]_<<vars, view_vars>>

(* Properties of the stores, which TensorViews explains: whatever the       *)
(* configuration, every tensor is found, lies apart from all others, keeps  *)
(* step with its gradient and moments, and is cut without being moved.      *)
EveryTensorIsThere == Views!EveryTensorIsThere
TensorsApart == Views!TensorsApart /\ Views!PrefixIsPrefix
OptimizerInStep == Views!OptimizerInStep

MCSpecLists ==
  UNION {[1..n -> [bytes : {1, 4, 8}, apply_weight_decay : BOOLEAN]] : n \in 0..4}
MCAlignments == {1, 4, 6}

MCConfigs ==
  [batch : {2}, seq : {3}, max_seq : {5}, d_model : {4}, d_ff : {6}, heads : {2}, vocab : {3},
   layers : {2}, attention : {"Reference", "FusedInplace"},
   ffn : {"Reference", "FusedBiasRelu", "InplaceFusedBiasRelu"},
   position : {"Learned", "Rope"}, precision : {"Fp32", "Bf16Mixed"},
   kind : {"Training", "Inference"}, alignment : {4, 16}]
=============================================================================
