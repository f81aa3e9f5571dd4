---------------------------- MODULE NetworkRules ----------------------------
(***************************************************************************)
(* The decoder-only transformer as mathematics: which operation on which   *)
(* quantities gives which quantity, forwards, and backwards by the chain   *)
(* rule.  Nothing here knows of buffers, order or reuse; it is what the    *)
(* program of calls is measured against.                                   *)
(***************************************************************************)
EXTENDS Integers, Sequences

CONSTANTS Layers, Heads

Rule(op, in, out) == [op |-> op, in |-> in, out |-> out]
G(name, l) == <<"grad", name, l>>
Zero == <<"zero">>
OfHeads(name, l) == [h \in 1..Heads |-> <<name, l, h>>]
Triple(a, b, c, l) == OfHeads(a, l) \o OfHeads(b, l) \o OfHeads(c, l)

EmbeddingRules(p) ==
  {Rule("embedding_lookup", <<<<"tok_emb", 0>>, <<"ids", 0>>>>,
        <<IF p = "Learned" THEN <<"tok", 0>> ELSE <<"x", 1>>>>),
   Rule("add", <<<<"tok", 0>>, <<"pos_emb", 0>>>>, <<<<"x", 1>>>>),
   Rule("accumulate_embedding", <<Zero, <<"ids", 0>>, <<"dx", 1>>>>, <<G("tok_emb", 0)>>),
   Rule("add_batch_inplace", <<Zero, <<"dx", 1>>>>, <<G("pos_emb", 0)>>)}

HeadRules(p, l, h) ==
  LET N(name) == <<name, l, h>>
      dQ == IF p = "Rope" THEN N("dQ_rotated") ELSE N("dQ")
      dK == IF p = "Rope" THEN N("dK_rotated") ELSE N("dK")
  IN  {Rule("gemm_rhs_t", <<N("Q"), N("K")>>, <<N("scores")>>),
       Rule("scale", <<N("scores")>>, <<N("scaled")>>),
       Rule("mask", <<N("scaled")>>, <<N("masked")>>),
       Rule("softmax", <<N("masked")>>, <<N("weights")>>),
       Rule("causal_softmax", <<N("scores")>>, <<N("weights")>>),
       Rule("copy", <<N("weights")>>, <<N("weights")>>),
       Rule("gemm_batched", <<N("weights"), N("V")>>, <<N("context")>>),
       Rule("gemm_rhs_t", <<N("dcontext"), N("V")>>, <<N("dweights")>>),
       Rule("gemm_lhs_t", <<N("weights"), N("dcontext")>>, <<N("dV")>>),
       Rule("softmax_backward", <<N("weights"), N("dweights")>>, <<N("dscores")>>),
       Rule("mask", <<N("dscores")>>, <<N("dscores")>>),   \* zero there already
       Rule("gemm_batched", <<N("dscores"), N("K")>>, <<N("dQ_unscaled")>>),
       Rule("scale", <<N("dQ_unscaled")>>, <<dQ>>),
       Rule("gemm_lhs_t", <<N("dscores"), N("Q")>>, <<N("dK_unscaled")>>),
       Rule("scale", <<N("dK_unscaled")>>, <<dK>>)}

AttentionRules(p, l) ==
  LET N(name) == <<name, l>>
      linear == Triple("Q_linear", "K_linear", "V_linear", l)
      biased == IF p = "Rope" THEN Triple("Q_biased", "K_biased", "V", l) ELSE Triple("Q", "K", "V", l)
      dQKV == Triple("dQ", "dK", "dV", l)
  IN  {Rule("gemm", <<N("ln1"), N("Wqkv")>>, linear),
       Rule("add_bias", linear \o <<N("bqkv")>>, biased),
       Rule("rotate", OfHeads("Q_biased", l), OfHeads("Q", l)),
       Rule("rotate", OfHeads("K_biased", l), OfHeads("K", l)),
       Rule("gemm", OfHeads("context", l) \o <<N("Wo")>>, <<N("attn_linear")>>),
       Rule("add_bias", <<N("attn_linear"), N("bo")>>, <<N("attn_out")>>),
       Rule("gemm_reduce", OfHeads("context", l) \o <<N("dy")>>, <<G("Wo", l)>>),
       Rule("row_sum", <<N("dy")>>, <<G("bo", l)>>),
       Rule("gemm_t", <<N("dy"), N("Wo")>>, OfHeads("dcontext", l)),
       Rule("rotate", OfHeads("dQ_rotated", l), OfHeads("dQ", l)),
       Rule("rotate", OfHeads("dK_rotated", l), OfHeads("dK", l)),
       Rule("gemm_t", dQKV \o <<N("Wqkv")>>, <<N("dln1")>>),
       Rule("gemm_reduce", <<N("ln1")>> \o dQKV, <<G("Wqkv", l)>>),
       Rule("row_sum", dQKV, <<G("bqkv", l)>>)}
      \cup UNION {HeadRules(p, l, h) : h \in 1..Heads}

(* relu's derivative may be taken where its argument or its result is > 0. *)
LayerRules(l) ==
  LET N(name) == <<name, l>>
      x == <<"x", l>>
      dout == <<"dx", l + 1>>
  IN  {Rule("layernorm", <<x, N("ln1_gamma"), N("ln1_beta")>>, <<N("ln1")>>),
       Rule("add", <<x, N("attn_out")>>, <<N("y")>>),
       Rule("layernorm", <<N("y"), N("ln2_gamma"), N("ln2_beta")>>, <<N("ln2")>>),
       Rule("gemm", <<N("ln2"), N("W1")>>, <<N("h_linear")>>),
       Rule("add_bias", <<N("h_linear"), N("b1")>>, <<N("h")>>),
       Rule("relu", <<N("h")>>, <<N("a")>>),
       Rule("add_bias_relu", <<N("h_linear"), N("b1")>>, <<N("a")>>),
       Rule("gemm", <<N("a"), N("W2")>>, <<N("ffn_linear")>>),
       Rule("add_bias", <<N("ffn_linear"), N("b2")>>, <<N("ffn_out")>>),
       Rule("add", <<N("y"), N("ffn_out")>>, <<<<"x", l + 1>>>>),
       Rule("gemm_reduce", <<N("a"), dout>>, <<G("W2", l)>>),
       Rule("row_sum", <<dout>>, <<G("b2", l)>>),
       Rule("gemm_t", <<dout, N("W2")>>, <<N("da")>>),
       Rule("relu_backward", <<N("h"), N("da")>>, <<N("dh")>>),
       Rule("relu_backward", <<N("a"), N("da")>>, <<N("dh")>>),
       Rule("gemm_reduce", <<N("ln2"), N("dh")>>, <<G("W1", l)>>),
       Rule("row_sum", <<N("dh")>>, <<G("b1", l)>>),
       Rule("gemm_t", <<N("dh"), N("W1")>>, <<N("dln2")>>),
       Rule("layernorm_backward", <<N("y"), N("ln2_gamma"), N("dln2")>>,
            <<N("dy_ln2"), G("ln2_gamma", l), G("ln2_beta", l)>>),
       Rule("add", <<dout, N("dy_ln2")>>, <<N("dy")>>),
       Rule("layernorm_backward", <<x, N("ln1_gamma"), N("dln1")>>,
            <<N("dx_ln1"), G("ln1_gamma", l), G("ln1_beta", l)>>),
       Rule("add", <<N("dy"), N("dx_ln1")>>, <<<<"dx", l>>>>)}

HeadAndLossRules ==
  LET x == <<"x", Layers + 1>>
      xn == <<"xn", 0>>
      logits == <<"logits", 0>>
      targets == <<"targets", 0>>
      dlogits == <<"dlogits", 0>>
      loss == <<"loss", 0>>
      gamma == <<"lnf_gamma", 0>>
  IN  {Rule("layernorm", <<x, gamma, <<"lnf_beta", 0>>>>, <<xn>>),
       Rule("gemm", <<xn, <<"lm_w", 0>>>>, <<logits>>),
       Rule("cross_entropy", <<logits, targets>>, <<loss>>),
       Rule("logits_backward", <<logits, targets>>, <<dlogits>>),
       Rule("cross_entropy_backward", <<logits, targets>>, <<dlogits, loss>>),
       Rule("gemm_reduce", <<xn, dlogits>>, <<G("lm_w", 0)>>),
       Rule("gemm_t", <<dlogits, <<"lm_w", 0>>>>, <<<<"dxn", 0>>>>),
       Rule("layernorm_backward", <<x, gamma, <<"dxn", 0>>>>,
            <<<<"dx", Layers + 1>>, G("lnf_gamma", 0), G("lnf_beta", 0)>>)}

Rules(p) ==
  EmbeddingRules(p) \cup HeadAndLossRules
    \cup UNION {AttentionRules(p, l) \cup LayerRules(l) : l \in 1..Layers}
=============================================================================
