--------------------------- MODULE ElementwiseOps ---------------------------
(***************************************************************************)
(* An elementwise operation called on the CUDA backend, and what the       *)
(* built-in CPU backend makes of the same operands.  The plugin checks the *)
(* operands and launches a kernel, whose threads load their operands and   *)
(* store their results in any order.                                       *)
(*                                                                         *)
(* A value is the operation that made it, the places it was made of and    *)
(* how many terms it has; rounding is left out.                            *)
(***************************************************************************)
EXTENDS CudaElementwise

CONSTANTS
  Calls,      \* [op, dims, act, ins, outs, alias, wrong, ids]: see ElementwiseCalls
  Vocab,      \* rows of an embedding table
  Heads,      \* n_heads of the rotary embedding
  Cells       \* size of a buffer

VARIABLES
  call,       \* the call made
  status,     \* "idle", "refused" or "launched"
  todo,       \* steps of threads that have not loaded their operands
  held,       \* steps of threads that have, with what they loaded
  mem,        \* the device's buffers
  host        \* what the CPU backend leaves: [ok, mem]

vars == <<call, status, todo, held, mem, host>>

-----------------------------------------------------------------------------
(* Operands                                                                *)

(* The operands of another shape than the activations.                     *)
Others(o) ==
  CASE o.op \in {"add_bias_rowwise", "add_bias_relu_rowwise", "add_bias_relu_rowwise_inplace"} ->
         {[name |-> "bias", dims |-> <<1, Last(o.dims)>>]}
    [] o.op = "add_position" -> {[name |-> "b", dims |-> Tail(o.dims)]}
    [] o.op = "transpose" -> {[name |-> "out", dims |-> Reverse(o.dims)]}
    [] o.op = "embedding_lookup" -> {[name |-> "table", dims |-> <<Vocab, Last(o.dims)>>],
                                     [name |-> "ids", dims |-> SubSeq(o.dims, 1, 2)]}
    [] o.op = "accumulate_embedding_grads" -> {[name |-> "d_tok", dims |-> <<Vocab, Last(o.dims)>>],
                                               [name |-> "ids", dims |-> SubSeq(o.dims, 1, 2)]}
    [] OTHER -> {}

(* Operands kept in float whatever the activations are.                    *)
InFloat(o, name) ==
  \/ name \notin Activations[o.op]
  \/ o.op \in {"adamw_step", "transpose"}
  \/ o.op = "add_inplace" /\ name = "a"
Flip(type) == IF type = "f32" THEN "bf16" ELSE "f32"
Type(o, name) ==
  LET right == IF name = "ids" THEN "i32"
               ELSE IF o.op = "cast" /\ name = "dst" THEN Flip(o.act)
               ELSE IF InFloat(o, name) THEN "f32" ELSE o.act
  IN  IF o.wrong = name THEN Flip(right) ELSE right

(* A view of a shape: of a whole buffer, of columns of a wider one, or of  *)
(* the first tokens of a longer one.                                       *)
View(kind, buf, type, shape) ==
  LET seq == Len(shape) - 1
  IN  CASE kind = "whole" -> Whole(buf, type, shape)
        [] kind = "columns" ->
             Subcols(Whole(buf, type, [shape EXCEPT ![Len(shape)] = @ + 1]), 1, Last(shape))
        [] kind = "prefix" -> Slice(Whole(buf, type, [shape EXCEPT ![seq] = @ + 1]), seq, 0, shape[seq])

Kind(o, name) == IF name = Written[o.op] THEN o.outs ELSE o.ins
Views(o) ==
  LET acts == Activations[o.op]
      others == Others(o)
      Buf(name) == IF o.alias /\ name = Written[o.op] THEN FirstInput[o.op] ELSE name
      Dims(name) == IF name \in acts THEN o.dims
                    ELSE (CHOOSE t \in others : t.name = name).dims
      \* ids are a row of a longer one when the activations are
      KindOf(name) == IF name = "ids" THEN (IF o.ins = "prefix" THEN "rows" ELSE "whole")
                      ELSE IF name \in acts THEN Kind(o, name) ELSE "whole"
      Of(name) == IF KindOf(name) = "rows"
                  THEN Subcols(Whole(name, Type(o, name), [Dims(name) EXCEPT ![2] = @ + 1]), 0,
                               Dims(name)[2])
                  ELSE View(KindOf(name), Buf(name), Type(o, name), Dims(name))
  IN  [name \in acts \cup {t.name : t \in others} |-> Of(name)]

-----------------------------------------------------------------------------
(* Values                                                                  *)

Original(buf, at) == [op |-> <<"is">>, of |-> {<<buf, at>>}, n |-> 1]
Garbage == [op |-> <<"garbage">>, of |-> {}, n |-> 0]
\* The sign of a preactivation: every other one is positive.
Positive(v) == \E p \in v.of : p[2] % 2 = 0

Terms(vals) == UNION {v.of : v \in Range(vals)}
Result(op, vals) ==
  CASE op = <<"copy">> -> vals[1]
    [] op = <<"gate">> /\ Positive(vals[1]) -> vals[2]
    [] op = <<"gate">> -> [op |-> <<"zero">>, of |-> {}, n |-> 0]
    [] OTHER -> [op |-> IF \A v \in Range(vals) : v.op = <<"is">> THEN op ELSE <<"reused">>,
                 of |-> Terms(vals), n |-> Len(vals)]
Added(v, w) == [op |-> <<"sum">>, of |-> v.of \cup w.of, n |-> v.n + w.n]

Read(m, p, types) == IF types[p.buf] = p.type THEN m[p.buf][p.at] ELSE Garbage
Wrote(m, w, vals, types) ==
  LET old == m[w.to.buf][w.to.at]
      new == IF types[w.to.buf] # w.to.type THEN Garbage
             ELSE IF w.adds THEN Added(old, vals[1])
             ELSE IF w.op = <<"gate_or_leave">>
                  THEN (IF Positive(vals[1]) THEN old ELSE Result(<<"gate">>, vals))
             ELSE Result(w.op, vals)
  IN  [m EXCEPT ![w.to.buf][w.to.at] = new]
After(m, s, vals, types) == FoldLeft(LAMBDA acc, w : Wrote(acc, w, vals, types), m, s.writes)

Buffers(V) == {V[n].buf : n \in DOMAIN V}
Types(V) == [b \in Buffers(V) |-> LET n == CHOOSE n \in DOMAIN V : V[n].buf = b IN V[n].type]
Fresh(V) == [b \in Buffers(V) |-> [at \in 0..(Cells - 1) |-> Original(b, at)]]

-----------------------------------------------------------------------------
(* The CPU backend                                                         *)

SameShape(V, n1, n2) == V[n1].dims = V[n2].dims

HostAccepts(o, V) ==
  CASE o.op = "copy" -> Numel(V.src) = Numel(V.dst)
    [] o.op = "cast" -> SameShape(V, "src", "dst") /\ V.src.type # V.dst.type
    [] o.op = "add" -> Numel(V.a) = Numel(V.b) /\ Numel(V.a) = Numel(V.out)
    [] o.op = "apply_causal_mask_inplace" ->
         V.scores.dims[Rank(V.scores) - 1] = Last(V.scores.dims)
    [] o.op = "rotary_embedding_inplace" ->
         Last(V.x.dims) % Heads = 0 /\ (Last(V.x.dims) \div Heads) % 2 = 0
    [] o.op = "embedding_lookup" -> KnownTokens(V, o.ids, Vocab) = Numel(V.ids)
    [] o.op = "accumulate_embedding_grads" ->
         KnownTokens(V, o.ids, Vocab) = Numel(V.ids)
    [] o.op = "adamw_step" -> \A n \in DOMAIN V : IsContiguous(V[n])
    [] OTHER -> TRUE

HostSteps(o, V) ==
  CASE o.op = "copy" -> host_copy(V)
    [] o.op = "cast" -> host_cast(V)
    [] o.op = "fill" -> host_fill(V)
    [] o.op \in {"add", "add_position"} -> host_add(V)
    [] o.op = "add_inplace" -> host_add_inplace(V)
    [] o.op = "add_bias_rowwise" -> host_add_bias_rowwise(V)
    [] o.op = "add_bias_relu_rowwise" -> host_add_bias_relu_rowwise(V)
    [] o.op = "add_bias_relu_rowwise_inplace" -> host_add_bias_relu_rowwise_inplace(V)
    [] o.op = "mul_scalar" -> host_mul_scalar(V)
    [] o.op = "relu" -> host_relu(V)
    [] o.op = "relu_backward" -> host_relu_backward(V)
    [] o.op = "relu_backward_inplace" -> host_relu_backward_inplace(V)
    [] o.op = "transpose" -> host_transpose(V)
    [] o.op = "apply_causal_mask_inplace" -> host_apply_causal_mask_inplace(V)
    [] o.op = "rotary_embedding_inplace" -> host_rotary_embedding_inplace(V, Heads)
    [] o.op = "embedding_lookup" -> host_embedding_lookup(V, o.ids)
    [] o.op = "accumulate_embedding_grads" -> host_accumulate_embedding_grads(V, o.ids)
    [] o.op = "adamw_step" -> host_adamw_step(V)

(* The CPU backend takes float activations only: it is given the operands   *)
(* of a bfloat16 call in float.                                            *)
HostViews(V, o) ==
  [n \in DOMAIN V |-> IF o.op = "cast" \/ n = "ids" THEN V[n] ELSE [V[n] EXCEPT !.type = "f32"]]
HostRun(o) ==
  LET V == HostViews(Views(o), o)
      RunStep(m, s) ==
        After(m, s, [i \in DOMAIN s.reads |-> Read(m, s.reads[i], Types(V))], Types(V))
      ok == HostAccepts(o, V)
  IN  [ok |-> ok, mem |-> IF ok THEN FoldLeft(RunStep, Fresh(V), HostSteps(o, V)) ELSE Fresh(V)]

-----------------------------------------------------------------------------
(* The CUDA backend                                                        *)

\* Which operand names the variant: the activation the operation is given.
Act(o, V) ==
  LET lead == CASE o.op = "add_inplace" -> "b"
                [] o.op = "embedding_lookup" -> "out"
                [] o.op = "accumulate_embedding_grads" -> "d_cur"
                [] o.op \in {"relu_backward", "relu_backward_inplace"} -> "preact"
                [] o.op \in {"add", "add_position"} -> "a"
                [] o.op \in {"copy", "cast"} -> "src"
                [] o.op = "fill" -> "t"
                [] o.op = "apply_causal_mask_inplace" -> "scores"
                [] o.op = "adamw_step" -> "params"
                [] OTHER -> "x"
  IN  IF V[lead].type = "bf16" THEN "bf16" ELSE "f32"

TypesAllowed(o, V, n) ==
  CASE n = "ids" -> {"i32"}
    [] o.op = "copy" -> {"f32", "bf16", "i32"}
    [] o.op = "cast" -> {"f32", "bf16"}
    [] InFloat(o, n) -> {"f32"}
    [] OTHER -> {Act(o, V)}

CudaAccepts(o, V) ==
  /\ \A n \in DOMAIN V : IsCudaRowMajor(V[n]) /\ V[n].type \in TypesAllowed(o, V, n)
  /\ o.op \in {"copy", "cast"} => SameShape(V, "src", "dst")
  /\ o.op = "copy" => V.src.type = V.dst.type
  /\ o.op = "cast" => V.src.type # V.dst.type
  /\ o.op = "transpose" => <<V.x.buf, V.x.base>> # <<V.out.buf, V.out.base>>
  /\ o.op = "adamw_step" => \A n \in DOMAIN V : V[n].dims = V.params.dims
  \* to_kernel_tensor_view and to_kernel_index_vector_view, at the launch
  /\ o.op # "copy" => \A n \in DOMAIN V \ {"ids"} : UniformRowStride(V[n])
  /\ "ids" \in DOMAIN V => DenseIgnoringUnitAxes(V.ids)

(* cudaMemcpy2D: rows one stride of the next-to-last axis apart.            *)
CopyRows(V) ==
  {[id |-> <<r, c>>,
    reads |-> <<Place(V.src, V.src.base + r * LeadingDim(V.src) + c)>>,
    writes |-> <<Put(Place(V.dst, V.dst.base + r * LeadingDim(V.dst) + c), <<"copy">>)>>] :
     r \in Index(TensorRows(V.src)), c \in Index(TensorCols(V.src))}

(* The threads of a launch, with the kernel of the call's variant.          *)
Threads(V, grid, Kernel(_, _)) == UNION {Kernel(V, t) : t \in grid}
Variant(o, V, grid, Bf16Act(_, _), F32(_, _)) ==
  IF Act(o, V) = "bf16" THEN Threads(V, grid, Bf16Act) ELSE Threads(V, grid, F32)

ArithmeticSteps(o, V) ==
  CASE o.op = "copy" -> CopyRows(V)
    [] o.op = "cast" -> Variant(o, V, Flat(V.dst), cast_bf16_to_f32, cast_f32_to_bf16)
    [] o.op = "fill" -> Variant(o, V, RowsCols(V.t), fill_bf16act, fill_f32)
    [] o.op = "add" -> Variant(o, V, RowsCols(V.out), add_bf16act, add_f32)
    [] o.op = "add_position" ->
         Variant(o, V, RowsCols(V.out),
                 LAMBDA W, t : add_batch_seq_plus_pos_bf16act(W, t, V.a.dims[2]),
                 LAMBDA W, t : add_batch_seq_plus_pos_f32(W, t, V.a.dims[2]))
    [] o.op = "add_inplace" ->
         Variant(o, V, RowsCols(V.a), add_inplace_bf16act, add_inplace_f32)
    [] o.op = "add_bias_rowwise" ->
         Variant(o, V, RowsCols(V.out), add_bias_rowwise_bf16act, add_bias_rowwise_f32)
    [] o.op = "add_bias_relu_rowwise" ->
         Variant(o, V, RowsCols(V.out), add_bias_relu_rowwise_bf16act, add_bias_relu_rowwise_f32)
    [] o.op = "add_bias_relu_rowwise_inplace" ->
         Variant(o, V, RowsCols(V.x), add_bias_relu_rowwise_inplace_bf16act,
                 add_bias_relu_rowwise_inplace_f32)
    [] o.op = "mul_scalar" -> Variant(o, V, RowsCols(V.out), mul_scalar_bf16act, mul_scalar_f32)

ReluSteps(o, V) ==
  CASE o.op = "relu" -> Variant(o, V, RowsCols(V.out), relu_bf16act, relu_f32)
    [] o.op = "relu_backward" ->
         Variant(o, V, RowsCols(V.dx), relu_backward_bf16act, relu_backward_f32)
    [] o.op = "relu_backward_inplace" ->
         Variant(o, V, RowsCols(V.dout_dx), relu_backward_inplace_bf16act,
                 relu_backward_inplace_f32)

EmbeddingSteps(o, V) ==
  CASE o.op = "embedding_lookup" ->
         Variant(o, V, Flat(V.out), LAMBDA W, t : embedding_lookup_bf16act(W, t, o.ids),
                 LAMBDA W, t : embedding_lookup_f32(W, t, o.ids))
    [] o.op = "accumulate_embedding_grads" ->
         Variant(o, V, Flat(V.d_cur), LAMBDA W, t : accumulate_embedding_grads_bf16act(W, t, o.ids),
                 LAMBDA W, t : accumulate_embedding_grads_f32(W, t, o.ids))

AttentionSteps(o, V) ==
  CASE o.op = "apply_causal_mask_inplace" ->
         Variant(o, V, HalfMasked(V.scores), apply_causal_mask_inplace_bf16act,
                 apply_causal_mask_inplace_f32)
    [] o.op = "rotary_embedding_inplace" ->
         Variant(o, V, Pairs(V.x, Heads), LAMBDA W, t : rotary_embedding_inplace_bf16act(W, t, Heads),
                 LAMBDA W, t : rotary_embedding_inplace_f32(W, t, Heads))

TransposeSteps(V) == Threads(V, TileThreads(TensorRows(V.x), TensorCols(V.x)), transpose_f32)
AdamWSteps(V) == Threads(V, Flat(V.params), adamw_step_f32)

KernelSteps(o, V) ==
  CASE o.op \in {"relu", "relu_backward", "relu_backward_inplace"} -> ReluSteps(o, V)
    [] o.op \in {"embedding_lookup", "accumulate_embedding_grads"} -> EmbeddingSteps(o, V)
    [] o.op \in {"apply_causal_mask_inplace", "rotary_embedding_inplace"} -> AttentionSteps(o, V)
    [] o.op = "transpose" -> TransposeSteps(V)
    [] o.op = "adamw_step" -> AdamWSteps(V)
    [] OTHER -> ArithmeticSteps(o, V)

-----------------------------------------------------------------------------
NoCall == [op |-> "none"]
Init ==
  /\ call = NoCall /\ status = "idle"
  /\ todo = {} /\ held = {} /\ mem = <<>> /\ host = <<>>

(* An operation is called: refused, or its kernel launched.                *)
Launch(o) ==
  LET V == Views(o)
  IN  /\ status = "idle"
      /\ call' = o
      /\ host' = HostRun(o)
      /\ mem' = Fresh(V)
      /\ status' = IF CudaAccepts(o, V) THEN "launched" ELSE "refused"
      /\ todo' = IF CudaAccepts(o, V) THEN KernelSteps(o, V) ELSE {}
      /\ UNCHANGED held

(* A thread loads its operands.                                            *)
Load(s) ==
  /\ todo' = todo \ {s}
  /\ held' = held \cup {[step |-> s,
                         vals |-> [i \in DOMAIN s.reads |-> Read(mem, s.reads[i], Types(Views(call)))]]}
  /\ UNCHANGED <<call, status, mem, host>>

(* ... and stores its results.                                             *)
Store(h) ==
  /\ held' = held \ {h}
  /\ mem' = After(mem, h.step, h.vals, Types(Views(call)))
  /\ UNCHANGED <<call, status, todo, host>>

Next ==
  \/ \E o \in Calls : Launch(o)
  \/ \E s \in todo : Load(s)
  \/ \E h \in held : Store(h)

Spec == Init /\ [][Next]_vars

-----------------------------------------------------------------------------
(* Properties                                                              *)

Ended == status = "launched" /\ todo = {} /\ held = {}
Output == Views(call)[Written[call.op]]

\* Whenever both backends take a call, the CUDA kernel leaves in every buffer
\* what the CPU loop leaves, whatever order its threads ran in: every element
\* is computed once, of the same operands, also in place.
BackendsAgree == Ended /\ host.ok => mem = host.mem

\* While a kernel runs it changes nothing but elements of the view it writes:
\* not the columns beside it, not the rows of a longer buffer after it.
OnlyTheOutputChanges ==
  status = "launched" =>
    \A b \in DOMAIN mem : \A at \in DOMAIN mem[b] :
      \/ mem[b][at] = Original(b, at)
      \/ b = Output.buf /\ at \in Footprint(Output)
      \/ call.op = "adamw_step" /\ b \in {"m", "v"} /\ at \in Footprint(Views(call)[b])

\* No two threads of a launch touch one place, one of them writing, unless
\* both add to it atomically.
ThreadsApart ==
  LET Steps == todo \cup {h.step : h \in held}
  IN  \A s, t \in Steps : \A w \in Range(s.writes) :
        s # t => /\ \A p \in Range(t.reads) : <<p.buf, p.at>> # <<w.to.buf, w.to.at>>
                 /\ \A x \in Range(t.writes) :
                      <<x.to.buf, x.to.at>> = <<w.to.buf, w.to.at>> => x.adds /\ w.adds

\* No element is loaded or stored as another type than its buffer's.
NothingMisread ==
  /\ \A h \in held : \A i \in DOMAIN h.vals : h.vals[i] # Garbage
  /\ \A b \in DOMAIN mem : \A at \in DOMAIN mem[b] : mem[b][at] # Garbage

\* An id out of range leaves the rows of the other tokens as they would be
\* without it: a gathered row of zeros, and no gradient scattered anywhere.
BadIdsDoNothing ==
  Ended /\ "ids" \in DOMAIN Views(call) =>
    LET V == Views(call)
        Bad(t) == Token(V, call.ids, t) \notin 0..(Vocab - 1)
        row(t) == {AtRow(V[IF call.op = "embedding_lookup" THEN "out" ELSE "d_cur"], t, c) :
                     c \in Index(Last(call.dims))}
    IN  \A t \in Index(Numel(V.ids)) : \A at \in row(t) :
          IF call.op = "embedding_lookup"
          THEN Bad(t) <=> mem["out"][at].op = <<"zero">>
          ELSE Bad(t) <=> \A to \in DOMAIN mem["d_tok"] : <<"d_cur", at>> \notin mem["d_tok"][to].of
=============================================================================
