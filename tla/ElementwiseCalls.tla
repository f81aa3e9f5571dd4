-------------------------- MODULE ElementwiseCalls --------------------------
(* Calls on shapes that leave part of a block idle, need several blocks and *)
(* spill into grid z, and on whole, sliced and aliased operands.            *)
EXTENDS HostElementwise

Wide == {<<2, 3>>, <<5, 1>>}
Ranked == {<<2, 2, 1>>, <<1, 2, 2>>, <<2, 1, 2>>}
Square == {<<2, 2>>, <<1, 3, 3>>, <<2, 2, 2>>}

Call(op, dims, act, ins, outs, alias, wrong, ids) ==
  [op |-> op, dims |-> dims, act |-> act, ins |-> ins, outs |-> outs, alias |-> alias,
   wrong |-> wrong, ids |-> ids]

Kinds == {"whole", "columns", "prefix"}
Acts == {"f32", "bf16"}
Cellwise == {"add_bias_rowwise", "add_bias_relu_rowwise", "mul_scalar", "relu", "relu_backward",
             "add", "cast", "add_inplace", "add_bias_relu_rowwise_inplace", "relu_backward_inplace",
             "fill"}

(* Every kind of view, and an output in the place of the first input.       *)
Views2(ops, shapes, ids) ==
  {Call(op, d, act, i, o, FALSE, "none", ids) :
     op \in ops, d \in shapes, act \in Acts, i \in Kinds, o \in Kinds}
InPlace(ops, shapes) ==
  {Call(op, d, act, k, k, TRUE, "none", <<0>>) : op \in ops, d \in shapes, act \in Acts, k \in Kinds}

(* One operand of the wrong type. *)
WrongTypes ==
  UNION {{Call(op, <<2, 2, 1>>, act, "whole", "whole", FALSE, name, <<0>>) :
            name \in Activations[op] \cup (IF op = "add_position" THEN {"b"}
                                           ELSE IF op \in {"add_bias_rowwise", "add_bias_relu_rowwise"}
                                           THEN {"bias"} ELSE {})} :
           op \in {"add", "add_position", "add_inplace", "add_bias_rowwise", "relu_backward", "cast",
                   "mul_scalar"}, act \in Acts}

LayerCellCalls ==
  Views2(Cellwise, {<<2, 2, 1>>}, <<0>>)
    \cup {Call(op, d, act, "whole", "whole", FALSE, "none", <<0>>) :
            op \in Cellwise, d \in Wide \cup {<<1, 2, 2>>}, act \in Acts}
    \cup InPlace(DOMAIN FirstInput \ {"copy", "cast", "transpose", "add_position"}, {<<2, 1, 2>>})
    \cup Views2({"add_position"}, Ranked, <<0>>)
    \cup Views2({"apply_causal_mask_inplace"}, Square, <<0>>)
    \cup Views2({"rotary_embedding_inplace"}, {<<1, 2, 4>>, <<2, 1, 4>>}, <<0>>)
    \cup {Call("transpose", <<2, 3>>, "f32", k, "whole", FALSE, "none", <<0>>) : k \in {"whole", "columns"}}
    \cup {Call("transpose", <<2, 3>>, "f32", "whole", "whole", TRUE, "none", <<0>>)}
    \cup {Call("adamw_step", <<5, 1>>, "f32", k, k, FALSE, "none", <<0>>) : k \in {"whole", "columns"}}
    \cup {Call("copy", d, act, "whole", "whole", FALSE, "none", <<0>>) :
            d \in {<<2, 2, 1>>, <<2, 3>>}, act \in Acts}
    \cup Views2({"copy"}, {<<2, 2>>}, <<0>>)
    \cup UNION {{Call(op, d, act, k, k, FALSE, "none", ids) :
                   op \in {"embedding_lookup", "accumulate_embedding_grads"}, d \in {<<1, 2, 2>>, <<2, 2, 1>>},
                   act \in Acts, k \in Kinds} : ids \in {<<1, 1>>, <<0, 1>>, <<0, 2>>, <<-1, 1>>}}
    \cup WrongTypes
=============================================================================
