------------------------- MODULE TransformerProgram -------------------------
(***************************************************************************)
(* A training batch as the sequence of backend calls that Trainer and the  *)
(* classes under model/algo make.  A cell is a tensor, or the part of one  *)
(* that belongs to a head; each call names the cells it reads and writes.  *)
(* Which cells the calls name depends on the configured attention, ffn and *)
(* position encoding, and on whether compute weights are copies.           *)
(***************************************************************************)
EXTENDS Integers, Sequences

CONSTANTS Layers, Heads   \* n_layers, n_heads

Param(name, l) == <<"param", name, l>>
Grad(name, l) == <<"grad", name, l>>
Temp(name, l) == <<"temp", name, l>>
PerHead(name, l) == [h \in 1..Heads |-> <<"temp", name, l, h>>]
Of(name, l, h) == <<"temp", name, l, h>>
Parts(names, l) == PerHead(names[1], l) \o PerHead(names[2], l) \o PerHead(names[3], l)

(* The matrices that a gemm multiplies with: a bf16 copy if there is one.  *)
Weight(c, name, l) == <<IF c.bf16 THEN "compute" ELSE "param", name, l>>

Call(op, in, out) == <<[op |-> op, in |-> in, out |-> out, label |-> <<>>]>>

(* A diagnostic of the backward pass: what its label calls the tensor.     *)
Check(cell, label) == <<[op |-> "check", in |-> <<cell>>, out |-> <<>>, label |-> label]>>
CheckGrad(name, l) == Check(Grad(name, l), <<"grad", name, l>>)
CheckTemp(cell, name, l) == Check(cell, <<name, l>>)

(* Repeat the text of one head or one layer. *)
Each(text(_), n) ==
  LET upTo[i \in 0..n] == IF i = 0 THEN <<>> ELSE upTo[i - 1] \o text(i)
  IN  upTo[n]

Matrices == {<<"Wqkv", l>> : l \in 1..Layers} \cup {<<"Wo", l>> : l \in 1..Layers}
              \cup {<<"W1", l>> : l \in 1..Layers} \cup {<<"W2", l>> : l \in 1..Layers}
              \cup {<<"lm_w", 0>>}
Vectors(c) ==
  {<<name, l>> : name \in {"ln1_gamma", "ln1_beta", "ln2_gamma", "ln2_beta", "bqkv", "bo", "b1", "b2"},
                 l \in 1..Layers}
    \cup {<<"lnf_gamma", 0>>, <<"lnf_beta", 0>>}
Embeddings(c) ==
  {<<"tok_emb", 0>>} \cup (IF c.position = "Learned" THEN {<<"pos_emb", 0>>} ELSE {})
Params(c) == Matrices \cup Vectors(c) \cup Embeddings(c)

-----------------------------------------------------------------------------
(* Position encoding *)

ApplyToInput(c) ==
  IF c.position = "Learned"
  THEN Call("add", <<Temp("X", 0), Param("pos_emb", 0)>>, <<Temp("X", 0)>>)
  ELSE <<>>

RotateQK(c, q, k, l) ==
  IF c.position = "Rope"
  THEN Call("rotate", PerHead(q, l), PerHead(q, l)) \o Call("rotate", PerHead(k, l), PerHead(k, l))
  ELSE <<>>

(* Mutant: a learned position embedding gets no gradient. *)
BackwardInputForgotten(c, dx) == <<>>

BackwardInput(c, dx) ==
  IF c.position = "Learned"
  THEN Call("add_batch_inplace", <<Grad("pos_emb", 0), dx>>, <<Grad("pos_emb", 0)>>)
         \o CheckGrad("pos_emb", 0)
  ELSE <<>>

-----------------------------------------------------------------------------
(* Self-attention: SelfAttention and SelfAttentionFusedInplace *)

AttentionHead(c, l, h) ==
  LET scores == Temp("scores", l)
      weights == Temp("weights", l)
      cached == Of("cached_weights", l, h)
  IN  Call("gemm_rhs_t", <<Of("Q", l, h), Of("K", l, h)>>, <<scores>>)
      \o (IF c.attention = "Reference"
          THEN Call("scale", <<scores>>, <<scores>>)
               \o Call("mask", <<scores>>, <<scores>>)
               \o Call("softmax", <<scores>>, <<weights>>)
               \o Call("copy", <<weights>>, <<cached>>)
               \o Call("gemm_batched", <<weights, Of("V", l, h)>>, <<Of("context", l, h)>>)
          ELSE Call("causal_softmax", <<scores>>, <<cached>>)
               \o Call("gemm_batched", <<cached, Of("V", l, h)>>, <<Of("context", l, h)>>))

QKV == <<"Q", "K", "V">>
AttentionForward(c, l, x, out) ==
  Call("gemm", <<x, Weight(c, "Wqkv", l)>>, Parts(QKV, l))
  \o Call("add_bias", Parts(QKV, l) \o <<Param("bqkv", l)>>, Parts(QKV, l))
  \o RotateQK(c, "Q", "K", l)
  \o Call("fill", <<>>, PerHead("context", l))
  \o Each(LAMBDA h : AttentionHead(c, l, h), Heads)
  \o Call("gemm", PerHead("context", l) \o <<Weight(c, "Wo", l)>>, <<out>>)
  \o Call("add_bias", <<out, Param("bo", l)>>, <<out>>)

(* Mutant: dV is multiplied from the scratch weights of the forward loop. *)
WeightsOfScratch(c, l, h) ==
  IF c.attention = "Reference" THEN Temp("weights", l) ELSE Of("cached_weights", l, h)

WeightsOf(c, l, h) == Of("cached_weights", l, h)

AttentionHeadBackward(c, l, h) ==
  LET dweights == Temp("dweights", l)
      dscores == Temp("dscores", l)
      weights == WeightsOf(c, l, h)
      dhead == Of("dcontext", l, h)
      CheckHead(cell, name) == Check(cell, <<name, l, h>>)
  IN  Call("gemm_rhs_t", <<dhead, Of("V", l, h)>>, <<dweights>>)
      \o CheckHead(dweights, "dweights")
      \o Call("gemm_lhs_t", <<weights, dhead>>, <<Of("dV", l, h)>>)
      \o CheckHead(Of("dV", l, h), "dV")
      \o (IF c.attention = "Reference"
          THEN Call("softmax_backward", <<weights, dweights>>, <<dscores>>)
               \o CheckHead(dscores, "dscores")
               \o Call("mask", <<dscores>>, <<dscores>>)
          ELSE Call("softmax_backward", <<weights, dweights>>, <<dscores>>)
               \o CheckHead(dscores, "dscores"))
      \o CheckHead(dscores, "dscores")
      \o Call("gemm_batched", <<dscores, Of("K", l, h)>>, <<Of("dQ", l, h)>>)
      \o Call("scale", <<Of("dQ", l, h)>>, <<Of("dQ", l, h)>>)
      \o CheckHead(Of("dQ", l, h), IF c.position = "Rope" THEN "dQ_rotated" ELSE "dQ")
      \o Call("gemm_lhs_t", <<dscores, Of("Q", l, h)>>, <<Of("dK", l, h)>>)
      \o Call("scale", <<Of("dK", l, h)>>, <<Of("dK", l, h)>>)
      \o CheckHead(Of("dK", l, h), IF c.position = "Rope" THEN "dK_rotated" ELSE "dK")

DQKV == <<"dQ", "dK", "dV">>
AttentionBackward(c, l, x, dout, dx) ==
  Call("gemm_reduce", PerHead("context", l) \o <<dout>>, <<Grad("Wo", l)>>)
  \o CheckGrad("Wo", l)
  \o Call("row_sum", <<dout>>, <<Grad("bo", l)>>) \o CheckGrad("bo", l)
  \o Call("gemm_t", <<dout, Weight(c, "Wo", l)>>, PerHead("dcontext", l))
  \o Each(LAMBDA h : Check(Of("dcontext", l, h), <<"dcontext", l, h>>), Heads)
  \o Call("fill", <<>>, Parts(DQKV, l))
  \o Each(LAMBDA h : AttentionHeadBackward(c, l, h), Heads)
  \o RotateQK(c, "dQ", "dK", l)
  \o Call("gemm_t", Parts(DQKV, l) \o <<Weight(c, "Wqkv", l)>>, <<dx>>)
  \o CheckTemp(dx, "dln1", l)
  \o Call("gemm_reduce", <<x>> \o Parts(DQKV, l), <<Grad("Wqkv", l)>>)
  \o CheckGrad("Wqkv", l)
  \o Call("row_sum", Parts(DQKV, l), <<Grad("bqkv", l)>>) \o CheckGrad("bqkv", l)

-----------------------------------------------------------------------------
(* Feed-forward network: FFN, FusedBiasReluFFN, InplaceFusedBiasReluFFN *)

Activation(c, l) == IF c.ffn = "InplaceFusedBiasRelu" THEN Temp("h", l) ELSE Temp("a", l)

FFNForward(c, l, x, out) ==
  LET h == Temp("h", l)
      b1 == Param("b1", l)
  IN  Call("gemm", <<x, Weight(c, "W1", l)>>, <<h>>)
      \o (IF c.ffn = "Reference"
          THEN Call("add_bias", <<h, b1>>, <<h>>) \o Call("relu", <<h>>, <<Temp("a", l)>>)
          ELSE Call("add_bias_relu", <<h, b1>>, <<Activation(c, l)>>))
      \o Call("gemm", <<Activation(c, l), Weight(c, "W2", l)>>, <<out>>)
      \o Call("add_bias", <<out, Param("b2", l)>>, <<out>>)

FFNBackward(c, l, x, dout, dx) ==
  LET kept == IF c.ffn = "Reference" THEN Temp("h", l) ELSE Activation(c, l)
      dh == IF c.ffn = "InplaceFusedBiasRelu" THEN Temp("da", l) ELSE Temp("dh", l)
  IN  Call("gemm_reduce", <<Activation(c, l), dout>>, <<Grad("W2", l)>>) \o CheckGrad("W2", l)
      \o Call("row_sum", <<dout>>, <<Grad("b2", l)>>) \o CheckGrad("b2", l)
      \o Call("gemm_t", <<dout, Weight(c, "W2", l)>>, <<Temp("da", l)>>)
      \o CheckTemp(Temp("da", l), "da", l)
      \o Call("relu_backward", <<kept, Temp("da", l)>>, <<dh>>) \o CheckTemp(dh, "dh", l)
      \o Call("gemm_reduce", <<x, dh>>, <<Grad("W1", l)>>) \o CheckGrad("W1", l)
      \o Call("row_sum", <<dh>>, <<Grad("b1", l)>>) \o CheckGrad("b1", l)
      \o Call("gemm_t", <<dh, Weight(c, "W1", l)>>, <<dx>>) \o CheckTemp(dx, "dln2", l)

-----------------------------------------------------------------------------
(* Transformer layer: cache_x_, cache_y_, cache_ln1_ and cache_ln2_ are the *)
(* views the forward pass was given, so the same cells.                     *)

LayerForward(c, l, x, out) ==
  LET norm(in, name) == Call("layernorm", <<in, Param(name \o "_gamma", l), Param(name \o "_beta", l)>>,
                             <<Temp(name, l)>>)
  IN  norm(x, "ln1")
      \o AttentionForward(c, l, Temp("ln1", l), Temp("attn_out", l))
      \o Call("add", <<x, Temp("attn_out", l)>>, <<Temp("resid1", l)>>)
      \o norm(Temp("resid1", l), "ln2")
      \o FFNForward(c, l, Temp("ln2", l), Temp("ffn_out", l))
      \o Call("add", <<Temp("resid1", l), Temp("ffn_out", l)>>, <<out>>)

LayerNormBackward(x, name, l, dy, dx) ==
  Call("layernorm_backward", <<x, Param(name \o "_gamma", l), dy>>,
       <<dx, Grad(name \o "_gamma", l), Grad(name \o "_beta", l)>>)

LayerBackward(c, l, x, dout, dx) ==
  FFNBackward(c, l, Temp("ln2", l), dout, Temp("dln2", l))
  \o CheckTemp(Temp("dln2", l), "dln2", l)
  \o LayerNormBackward(Temp("resid1", l), "ln2", l, Temp("dln2", l), Temp("dy_ln2", l))
  \o CheckTemp(Temp("dy_ln2", l), "dy_ln2", l)
  \o CheckGrad("ln2_gamma", l) \o CheckGrad("ln2_beta", l)
  \o Call("add", <<dout, Temp("dy_ln2", l)>>, <<Temp("dy_total", l)>>)
  \o CheckTemp(Temp("dy_total", l), "dy", l)
  \o AttentionBackward(c, l, Temp("ln1", l), Temp("dy_total", l), Temp("dln1", l))
  \o CheckTemp(Temp("dln1", l), "dln1", l)
  \o LayerNormBackward(x, "ln1", l, Temp("dln1", l), Temp("dx_ln1", l))
  \o CheckTemp(Temp("dx_ln1", l), "dx_ln1", l)
  \o CheckGrad("ln1_gamma", l) \o CheckGrad("ln1_beta", l)
  \o Call("add", <<Temp("dy_total", l), Temp("dx_ln1", l)>>, <<dx>>)
  \o CheckTemp(dx, "dx", l)

-----------------------------------------------------------------------------
(* Output head and transformer *)

Hidden(l) == IF l = 0 THEN Temp("X", 0) ELSE Temp("hidden", l)

OutputHeadForward(c, x, logits) ==
  Call("layernorm", <<x, Param("lnf_gamma", 0), Param("lnf_beta", 0)>>, <<Temp("Xn", 0)>>)
  \o Call("gemm", <<Temp("Xn", 0), Weight(c, "lm_w", 0)>>, <<logits>>)

OutputHeadBackward(c, x, dlogits, dx) ==
  CheckTemp(dlogits, "dlogits", 0)
  \o Call("gemm_reduce", <<Temp("Xn", 0), dlogits>>, <<Grad("lm_w", 0)>>)
  \o CheckGrad("lm_w", 0)
  \o Call("gemm_t", <<dlogits, Weight(c, "lm_w", 0)>>, <<Temp("d_xn", 0)>>)
  \o CheckTemp(Temp("d_xn", 0), "dxn", 0)
  \o LayerNormBackward(x, "lnf", 0, Temp("d_xn", 0), dx)
  \o CheckTemp(dx, "dx", Layers + 1) \o CheckGrad("lnf_gamma", 0) \o CheckGrad("lnf_beta", 0)

TransformerForward(c) ==
  Call("embedding_lookup", <<Param("tok_emb", 0), Temp("ids", 0)>>, <<Temp("X", 0)>>)
  \o ApplyToInput(c)
  \o Each(LAMBDA l : LayerForward(c, l, Hidden(l - 1), Hidden(l)), Layers)
  \o OutputHeadForward(c, Hidden(Layers), Temp("logits", 0))

DPrev(l) == IF l = Layers + 1 THEN Temp("d_xlast", 0) ELSE Temp("d_prev", l)

(* From the last layer to the first: layer Layers + 1 - i is the i-th. *)
TransformerBackward(c) ==
  OutputHeadBackward(c, Hidden(Layers), Temp("logits", 0), DPrev(Layers + 1))
  \o Each(LAMBDA i : LET l == Layers + 1 - i
                     IN  LayerBackward(c, l, Hidden(l - 1), DPrev(l + 1), DPrev(l))
                           \o CheckTemp(DPrev(l), "dx", l), Layers)
  \o CheckTemp(DPrev(1), "dx", 1)
  \o Call("accumulate_embedding", <<Grad("tok_emb", 0), Temp("ids", 0), DPrev(1)>>,
          <<Grad("tok_emb", 0)>>)
  \o CheckGrad("tok_emb", 0)
  \o BackwardInput(c, DPrev(1))

-----------------------------------------------------------------------------
(* The trainer's part: calls that touch every gradient, every parameter of  *)
(* a decay zone or every compute weight are one call here.                  *)

ReadLoss == Call("read_scalar", <<Temp("loss", 0)>>, <<>>)
CheckLoss == CheckTemp(Temp("loss", 0), "loss", 0)
Loss(c, read) ==
  LET logits == Temp("logits", 0)
      targets == Temp("targets", 0)
      loss == Temp("loss", 0)
      check == CheckTemp(logits, "dlogits", 0)
  IN  CheckTemp(logits, "logits", 0)
      \o IF c.probe_loss
         THEN Call("cross_entropy", <<logits, targets>>, <<loss>>) \o CheckLoss \o read
              \o Call("logits_backward", <<logits, targets>>, <<logits>>) \o check
         ELSE Call("cross_entropy_backward", <<logits, targets>>, <<logits, loss>>) \o CheckLoss
              \o check \o read

ZeroGradients == Call("zero_gradients", <<>>, <<>>)

ForwardBackward(c) ==
  TransformerForward(c) \o Loss(c, ReadLoss) \o ZeroGradients \o TransformerBackward(c)

(* The batch again, after a gradient norm that was not finite. *)
ReplayBatch(c) ==
  ZeroGradients \o TransformerForward(c) \o Loss(c, <<>>) \o TransformerBackward(c)

(* Mutant: the loss is read before it is computed. *)
EvaluateBatchReadsEarly(c) ==
  TransformerForward(c) \o ReadLoss
  \o Call("cross_entropy", <<Temp("logits", 0), Temp("targets", 0)>>, <<Temp("loss", 0)>>)

EvaluateBatch(c) ==
  TransformerForward(c)
  \o Call("cross_entropy", <<Temp("logits", 0), Temp("targets", 0)>>, <<Temp("loss", 0)>>)
  \o ReadLoss

SyncComputeWeights(c) == IF c.bf16 THEN Call("cast_weights", <<>>, <<>>) ELSE <<>>

(* Mutant: the compute weights are cast before the second zone is stepped. *)
ApplyOptimizerStepSyncEarly(c) ==
  Call("clip", <<>>, <<>>) \o SyncComputeWeights(c) \o Call("adamw_decay", <<>>, <<>>)
  \o Call("adamw_no_decay", <<>>, <<>>)

ApplyOptimizerStep(c) ==
  Call("clip", <<>>, <<>>) \o Call("adamw_decay", <<>>, <<>>) \o Call("adamw_no_decay", <<>>, <<>>)
  \o SyncComputeWeights(c)
=============================================================================
