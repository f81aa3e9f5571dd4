----------------------------- MODULE MemoryTables -----------------------------
(***************************************************************************)
(* The two sides that have to agree about memory.  named_layout.cpp lists  *)
(* what an arena holds, in order, by rows, columns and item type; the      *)
(* stores list, again and by hand, the tensor they expect at each place.   *)
(* A configuration c is a record:                                          *)
(*   batch, seq, max_seq, d_model, d_ff, heads, vocab, layers,             *)
(*   attention, ffn, position, precision, kind, alignment                  *)
(***************************************************************************)
EXTENDS Integers, Sequences, SequencesExt

Global == -1          \* the "layer" of a slice that belongs to none
When(condition, list) == IF condition THEN list ELSE <<>>

-----------------------------------------------------------------------------
(* What the configured algorithms ask of the layouts *)

AttentionNeedsWeightsBuffer(c) == c.attention = "Reference"
FfnNeedsActivationBuffers(c) == c.ffn # "InplaceFusedBiasRelu"
NeedsPositionTable(c) == c.position = "Learned"

DTypeSize == [F32 |-> 4, I32 |-> 4, BF16 |-> 2]
DType(c, item) ==
  CASE item = "TokenIds" -> "I32"
    [] item \in {"ComputeWeight", "Activation"} ->
         IF c.precision = "Bf16Mixed" THEN "BF16" ELSE "F32"
    [] OTHER -> "F32"
ComputeWeightAliasesParameter(c) == DType(c, "ComputeWeight") = DType(c, "Parameter")

-----------------------------------------------------------------------------
(* named_layout.cpp: lists of slices of rows x cols elements *)

Slices(layer, names, rows, cols) ==
  [i \in DOMAIN names |-> [layer |-> layer, name |-> names[i], rows |-> rows, cols |-> cols,
                           item |-> "Activation", decay |-> TRUE]]
Of(item, list) == [i \in DOMAIN list |-> [list[i] EXCEPT !.item = item]]
NoDecay(list) == [i \in DOMAIN list |-> [list[i] EXCEPT !.decay = FALSE]]
PerLayer(c, Layer(_)) == FlattenSeq([l \in 1..c.layers |-> Layer(l - 1)])

ParamLayerSlices(c, l) ==
  LET D == c.d_model
      F == c.d_ff
  IN  NoDecay(Slices(l, <<"ln1_gamma", "ln1_beta">>, 1, D))
        \o Slices(l, <<"attn_qkv_w">>, D, 3 * D) \o NoDecay(Slices(l, <<"attn_qkv_b">>, 1, 3 * D))
        \o Slices(l, <<"attn_out_w">>, D, D) \o NoDecay(Slices(l, <<"attn_out_b">>, 1, D))
        \o NoDecay(Slices(l, <<"ln2_gamma", "ln2_beta">>, 1, D))
        \o Slices(l, <<"ffn_w1">>, D, F) \o NoDecay(Slices(l, <<"ffn_b1">>, 1, F))
        \o Slices(l, <<"ffn_w2">>, F, D) \o NoDecay(Slices(l, <<"ffn_b2">>, 1, D))

ParamSlices(c) ==
  LET D == c.d_model
      Layer(l) == ParamLayerSlices(c, l)
  IN  Of("Parameter",
        Slices(Global, <<"tok_embedding">>, c.vocab, D)
          \o When(NeedsPositionTable(c), Slices(Global, <<"pos_embedding">>, c.max_seq, D))
          \o PerLayer(c, Layer)
          \o NoDecay(Slices(Global, <<"lnf_gamma", "lnf_beta">>, 1, D))
          \o Slices(Global, <<"lm_head_w">>, D, c.vocab))

ComputeSlices(c) ==
  LET D == c.d_model
      F == c.d_ff
      Layer(l) == Slices(l, <<"attn_qkv_w">>, D, 3 * D) \o Slices(l, <<"attn_out_w">>, D, D)
                    \o Slices(l, <<"ffn_w1">>, D, F) \o Slices(l, <<"ffn_w2">>, F, D)
  IN  Of("ComputeWeight", PerLayer(c, Layer) \o Slices(Global, <<"lm_head_w">>, D, c.vocab))

(* Rows are tokens, T of a batch in training, max_seq_len in inference, and *)
(* a score matrix has seq columns.                                          *)
ForwardLayerSlices(c, l, T, seq) ==
  LET D == c.d_model
      F == c.d_ff
  IN  Slices(l, <<"attn.qkv">>, T, 3 * D) \o Slices(l, <<"attn.context">>, T, D)
        \o Slices(l, <<"attn.scores">>, T, seq)
        \o When(AttentionNeedsWeightsBuffer(c), Slices(l, <<"attn.weights">>, T, seq))
        \o Slices(l, <<"attn.weights_cache">>, c.heads * T, seq)
        \o Slices(l, <<"attn.head">>, T, D \div c.heads)
        \o Slices(l, <<"ffn.h">>, T, F)
        \o When(FfnNeedsActivationBuffers(c), Slices(l, <<"ffn.a">>, T, F))

BackwardLayerSlices(c, l, T) ==
  LET D == c.d_model
      F == c.d_ff
      dh == D \div c.heads
  IN  Slices(l, <<"dln2", "dy_ln2", "dy_total", "dln1", "dx_ln1">>, T, D)
        \o Slices(l, <<"attn.contextT">>, D, T) \o Slices(l, <<"attn.dcontext">>, T, D)
        \o Slices(l, <<"attn.dqkv">>, T, 3 * D) \o Slices(l, <<"attn.KhT", "attn.VhT">>, dh, T)
        \o Slices(l, <<"attn.dweights", "attn.weightsT", "attn.dscores", "attn.dscoresT">>, T, c.seq)
        \o Slices(l, <<"attn.xT">>, D, T) \o Slices(l, <<"ffn.aT">>, F, T)
        \o Slices(l, <<"ffn.da">>, T, F)
        \o When(FfnNeedsActivationBuffers(c), Slices(l, <<"ffn.dh">>, T, F))
        \o Slices(l, <<"ffn.xT">>, D, T)

TrainingTempSlices(c) ==
  LET D == c.d_model
      T == c.batch * c.seq
      Layer(l) ==
        Slices(l, <<"ln1", "bw.d_prev", "attn_out", "resid1", "ln2", "ffn_out", "hidden">>, T, D)
          \o ForwardLayerSlices(c, l, T, c.seq) \o BackwardLayerSlices(c, l, T)
  IN  Of("TokenIds", Slices(Global, <<"ds.ids", "ds.targets">>, T, 1))
        \o Slices(Global, <<"tr.logits">>, T, c.vocab)
        \o Of("Loss", Slices(Global, <<"tr.loss">>, 1, 1))
        \o Slices(Global, <<"tr.X", "tr.Y", "tr.Xn">>, T, D)
        \o Slices(Global, <<"bw.XnT">>, D, T) \o Slices(Global, <<"bw.d_xn", "bw.d_xlast">>, T, D)
        \o PerLayer(c, Layer)

InferenceTempSlices(c) ==
  LET D == c.d_model
      S == c.max_seq
      Layer(l) ==
        Slices(l, <<"ln1", "attn_out", "resid1", "ln2", "ffn_out", "hidden">>, S, D)
          \o ForwardLayerSlices(c, l, S, S)
  IN  Of("TokenIds", Slices(Global, <<"infer.ids">>, S, 1))
        \o Slices(Global, <<"infer.logits">>, S, c.vocab)
        \o Slices(Global, <<"infer.X", "infer.Y", "infer.Xn">>, S, D)
        \o PerLayer(c, Layer)

-----------------------------------------------------------------------------
(* The stores: lists of tensors with the shape the view gets *)

Tensors(layer, names, shape) ==
  [i \in DOMAIN names |-> [layer |-> layer, name |-> names[i], shape |-> shape, decay |-> TRUE]]

LayerParamViews(c, l) ==
  LET D == c.d_model
      F == c.d_ff
  IN  NoDecay(Tensors(l, <<"ln1_gamma", "ln1_beta">>, <<1, D>>))
        \o Tensors(l, <<"attn_qkv_w">>, <<D, 3 * D>>) \o NoDecay(Tensors(l, <<"attn_qkv_b">>, <<1, 3 * D>>))
        \o Tensors(l, <<"attn_out_w">>, <<D, D>>) \o NoDecay(Tensors(l, <<"attn_out_b">>, <<1, D>>))
        \o NoDecay(Tensors(l, <<"ln2_gamma", "ln2_beta">>, <<1, D>>))
        \o Tensors(l, <<"ffn_w1">>, <<D, F>>) \o NoDecay(Tensors(l, <<"ffn_b1">>, <<1, F>>))
        \o Tensors(l, <<"ffn_w2">>, <<F, D>>) \o NoDecay(Tensors(l, <<"ffn_b2">>, <<1, D>>))

ParamViews(c) ==
  LET D == c.d_model
      Layer(l) == LayerParamViews(c, l)
  IN  Tensors(Global, <<"tok_embedding">>, <<c.vocab, D>>)
        \o When(NeedsPositionTable(c), Tensors(Global, <<"pos_embedding">>, <<c.max_seq, D>>))
        \o PerLayer(c, Layer)
        \o NoDecay(Tensors(Global, <<"lnf_gamma", "lnf_beta">>, <<1, D>>))
        \o Tensors(Global, <<"lm_head_w">>, <<D, c.vocab>>)

(* The other two stores walk the parameters by lists of their own, word for *)
(* word the same; AdamStateStore's notes which of them get weight decay.    *)
GradientViews(c) == ParamViews(c)
StateViews(c) == ParamViews(c)

ComputeWeightNames == {"attn_qkv_w", "attn_out_w", "ffn_w1", "ffn_w2", "lm_head_w"}
ComputeViews(c) == SelectSeq(ParamViews(c), LAMBDA v : v.name \in ComputeWeightNames)

ForwardLayerViews(c, l, B, S) ==
  LET D == c.d_model
  IN  Tensors(l, <<"attn.qkv">>, <<B, S, 3 * D>>) \o Tensors(l, <<"attn.context">>, <<B, S, D>>)
        \o Tensors(l, <<"attn.scores">>, <<B, S, S>>)
        \o When(AttentionNeedsWeightsBuffer(c), Tensors(l, <<"attn.weights">>, <<B, S, S>>))
        \o Tensors(l, <<"attn.weights_cache">>, <<c.heads, B, S, S>>)
        \o Tensors(l, <<"attn.head">>, <<B, S, D \div c.heads>>)
        \o Tensors(l, <<"ffn.h">>, <<B, S, c.d_ff>>)
        \o When(FfnNeedsActivationBuffers(c), Tensors(l, <<"ffn.a">>, <<B, S, c.d_ff>>))

BackwardLayerViews(c, l) ==
  LET D == c.d_model
      F == c.d_ff
      B == c.batch
      S == c.seq
      T == B * S
      dh == D \div c.heads
  IN  Tensors(l, <<"dln2", "dy_ln2", "dy_total", "dln1", "dx_ln1">>, <<B, S, D>>)
        \o Tensors(l, <<"attn.contextT">>, <<D, T>>) \o Tensors(l, <<"attn.dcontext">>, <<B, S, D>>)
        \o Tensors(l, <<"attn.dqkv">>, <<B, S, 3 * D>>)
        \o Tensors(l, <<"attn.KhT", "attn.VhT">>, <<dh, T>>)
        \o Tensors(l, <<"attn.dweights", "attn.weightsT", "attn.dscores", "attn.dscoresT">>, <<B, S, S>>)
        \o Tensors(l, <<"attn.xT">>, <<D, T>>) \o Tensors(l, <<"ffn.aT">>, <<F, T>>)
        \o Tensors(l, <<"ffn.da">>, <<B, S, F>>)
        \o When(FfnNeedsActivationBuffers(c), Tensors(l, <<"ffn.dh">>, <<B, S, F>>))
        \o Tensors(l, <<"ffn.xT">>, <<D, T>>)

(* Mutant: the store takes a dh buffer whether or not the layout has one. *)
TrainingTempViewsNoOption(c) ==
  LET D == c.d_model
      B == c.batch
      S == c.seq
      Layer(l) ==
        Tensors(l, <<"ln1", "bw.d_prev", "attn_out", "resid1", "ln2", "ffn_out", "hidden">>, <<B, S, D>>)
          \o ForwardLayerViews(c, l, B, S)
          \o BackwardLayerViews([c EXCEPT !.ffn = "Reference"], l)
  IN  Tensors(Global, <<"ds.ids", "ds.targets">>, <<B, S>>)
        \o Tensors(Global, <<"tr.logits">>, <<B, S, c.vocab>>)
        \o Tensors(Global, <<"tr.loss">>, <<1, 1>>)
        \o Tensors(Global, <<"tr.X", "tr.Y", "tr.Xn">>, <<B, S, D>>)
        \o Tensors(Global, <<"bw.XnT">>, <<D, B * S>>)
        \o Tensors(Global, <<"bw.d_xn", "bw.d_xlast">>, <<B, S, D>>)
        \o PerLayer(c, Layer)

TrainingTempViews(c) ==
  LET D == c.d_model
      B == c.batch
      S == c.seq
      Layer(l) ==
        Tensors(l, <<"ln1", "bw.d_prev", "attn_out", "resid1", "ln2", "ffn_out", "hidden">>, <<B, S, D>>)
          \o ForwardLayerViews(c, l, B, S) \o BackwardLayerViews(c, l)
  IN  Tensors(Global, <<"ds.ids", "ds.targets">>, <<B, S>>)
        \o Tensors(Global, <<"tr.logits">>, <<B, S, c.vocab>>)
        \o Tensors(Global, <<"tr.loss">>, <<1, 1>>)
        \o Tensors(Global, <<"tr.X", "tr.Y", "tr.Xn">>, <<B, S, D>>)
        \o Tensors(Global, <<"bw.XnT">>, <<D, B * S>>)
        \o Tensors(Global, <<"bw.d_xn", "bw.d_xlast">>, <<B, S, D>>)
        \o PerLayer(c, Layer)

InferenceTempViews(c) ==
  LET D == c.d_model
      S == c.max_seq
      Layer(l) ==
        Tensors(l, <<"ln1", "attn_out", "resid1", "ln2", "ffn_out", "hidden">>, <<1, S, D>>)
          \o ForwardLayerViews(c, l, 1, S)
  IN  Tensors(Global, <<"infer.ids">>, <<1, S>>)
        \o Tensors(Global, <<"infer.logits">>, <<1, S, c.vocab>>)
        \o Tensors(Global, <<"infer.X", "infer.Y", "infer.Xn">>, <<1, S, D>>)
        \o PerLayer(c, Layer)

-----------------------------------------------------------------------------
(* The temporaries the configured algorithms ask for, with the last         *)
(* dimension they expect: of a layer while it goes forward and backward,    *)
(* and of the model.  Seq stands for the length of the window at hand.      *)
Buffer(layer, name, last) == [layer |-> layer, name |-> name, last |-> last]

AttentionBuffers(c, l) ==
  {Buffer(l, "attn.qkv", 3 * c.d_model), Buffer(l, "attn.context", c.d_model)}
AttentionSquares(c, l) ==
  {Buffer(l, "attn.scores", "seq")}
    \cup (IF c.attention = "Reference" THEN {Buffer(l, "attn.weights", "seq")} ELSE {})
    \cup (IF c.kind = "Training"
          THEN {Buffer(l, "attn.dweights", "seq"), Buffer(l, "attn.dscores", "seq")} ELSE {})
FfnBuffers(c, l) ==
  {Buffer(l, "ffn.h", c.d_ff)}
    \cup (IF c.ffn \in {"Reference", "FusedBiasRelu"} THEN {Buffer(l, "ffn.a", c.d_ff)} ELSE {})
LayerBuffers(c, l) ==
  {Buffer(l, name, c.d_model) : name \in {"ln1", "attn_out", "resid1", "ln2", "ffn_out", "hidden"}}
    \cup AttentionBuffers(c, l) \cup FfnBuffers(c, l)
BackwardBuffers(c, l) ==
  {Buffer(l, name, c.d_model) :
     name \in {"bw.d_prev", "dln2", "dy_ln2", "dy_total", "dln1", "dx_ln1", "attn.dcontext"}}
    \cup {Buffer(l, "attn.dqkv", 3 * c.d_model), Buffer(l, "ffn.da", c.d_ff)}
    \cup (IF c.ffn \in {"Reference", "FusedBiasRelu"} THEN {Buffer(l, "ffn.dh", c.d_ff)} ELSE {})
=============================================================================
