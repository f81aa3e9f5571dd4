--------------------------- MODULE CudaElementwise ---------------------------
(***************************************************************************)
(* The elementwise kernels of the CUDA plugin and the grids they run on.   *)
(* A thread is [id, r, c], the coordinates it computes; a kernel gives the *)
(* steps it does, none if it returns early.  _f32 kernels hold every       *)
(* operand as float; in _bf16act ones activations are bfloat16, biases,    *)
(* tables and gradients of parameters float.                               *)
(***************************************************************************)
EXTENDS HostElementwise

CONSTANTS
  BlockThreads,   \* threads of a block (256)
  MaxBlockX,      \* max_x of rows_cols_launch (32)
  TileDim,        \* kTileDim (16)
  MaxGridY        \* limit of grid y (65535)

CeilDiv(n, d) == (n + d - 1) \div d
AtLeastOne(n) == IF n < 1 THEN 1 ELSE n

-----------------------------------------------------------------------------
(* Grids                                                                   *)

\* The row width rounded up to a power of two, at most max_x.
BlockX(cols, max_x) ==
  LET halves[bx \in 1..max_x] ==
        IF bx > 1 /\ bx \div 2 >= cols THEN halves[bx \div 2] ELSE bx
  IN  halves[max_x]

RowsColsLaunch(rows, cols, max_x) ==
  LET bx == BlockX(cols, max_x)
      by == BlockThreads \div bx
      row_blocks == AtLeastOne(CeilDiv(rows, by))
      y == IF row_blocks < MaxGridY THEN row_blocks ELSE MaxGridY
  IN  [block |-> <<bx, by>>,
       grid |-> <<AtLeastOne(CeilDiv(cols, bx)), y, CeilDiv(row_blocks, y)>>]

GridRow(launch, z, y, ty) == (z * launch.grid[2] + y) * launch.block[2] + ty

Index(n) == 0..(n - 1)
RowsColsThreads(launch) ==
  {[id |-> <<x, y, z, tx, ty>>, r |-> GridRow(launch, z, y, ty), c |-> x * launch.block[1] + tx] :
     x \in Index(launch.grid[1]), y \in Index(launch.grid[2]), z \in Index(launch.grid[3]),
     tx \in Index(launch.block[1]), ty \in Index(launch.block[2])}

\* One thread per element, numbered along the rows.
FlatThreads(total, cols) ==
  {[id |-> <<i>>, r |-> i \div cols, c |-> i % cols] :
     i \in {j \in Index(CeilDiv(total, BlockThreads) * BlockThreads) : j < total}}

TileThreads(rows, cols) ==
  {[id |-> <<x, y>>, r |-> y, c |-> x] :
     x \in Index(CeilDiv(cols, TileDim) * TileDim), y \in Index(CeilDiv(rows, TileDim) * TileDim)}

RowsCols(v) == RowsColsThreads(RowsColsLaunch(TensorRows(v), TensorCols(v), MaxBlockX))
HalfMasked(v) == RowsColsThreads(RowsColsLaunch(TensorRows(v), TensorCols(v), TileDim))
Pairs(v, n_heads) ==
  LET pairs == n_heads * ((TensorCols(v) \div n_heads) \div 2)
  IN  IF pairs = 0 THEN {} ELSE RowsColsThreads(RowsColsLaunch(TensorRows(v), pairs, MaxBlockX))
Flat(v) == FlatThreads(TensorRows(v) * TensorCols(v), TensorCols(v))

-----------------------------------------------------------------------------
(* Accesses: row_ptr, read or written as a type                            *)

Float(v, r, c) == [buf |-> v.buf, at |-> RowPtr(v, r) + c, type |-> "f32"]
Bfloat(v, r, c) == [buf |-> v.buf, at |-> RowPtr(v, r) + c, type |-> "bf16"]

Within(v, t, steps) == IF t.c >= TensorCols(v) \/ t.r >= TensorRows(v) THEN {} ELSE steps

Do(t, reads, to, op) == {[id |-> t.id, reads |-> reads, writes |-> <<Put(to, op)>>]}

-----------------------------------------------------------------------------
(* _f32 kernels                                                            *)

fill_f32(V, t) == Within(V.t, t, Do(t, <<>>, Float(V.t, t.r, t.c), <<"fill">>))
add_f32(V, t) ==
  Within(V.out, t, Do(t, <<Float(V.a, t.r, t.c), Float(V.b, t.r, t.c)>>,
                      Float(V.out, t.r, t.c), <<"add">>))

(* Mutant: the row of the batch is taken for the position.                 *)
add_batch_seq_plus_pos_f32_by_row(V, t, seq_len) ==
  Within(V.out, t, Do(t, <<Float(V.a, t.r, t.c), Float(V.b, t.r, t.c)>>,
                      Float(V.out, t.r, t.c), <<"add">>))

add_batch_seq_plus_pos_f32(V, t, seq_len) ==
  LET pos == IF seq_len > 0 THEN t.r % seq_len ELSE t.r
  IN  Within(V.out, t, Do(t, <<Float(V.a, t.r, t.c), Float(V.b, pos, t.c)>>,
                          Float(V.out, t.r, t.c), <<"add">>))
add_inplace_f32(V, t) ==
  Within(V.a, t, Do(t, <<Float(V.a, t.r, t.c), Float(V.b, t.r, t.c)>>,
                    Float(V.a, t.r, t.c), <<"add">>))
add_bias_rowwise_f32(V, t) ==
  Within(V.out, t, Do(t, <<Float(V.x, t.r, t.c), Float(V.bias, 0, t.c)>>,
                      Float(V.out, t.r, t.c), <<"add">>))
add_bias_relu_rowwise_f32(V, t) ==
  Within(V.out, t, Do(t, <<Float(V.x, t.r, t.c), Float(V.bias, 0, t.c)>>,
                      Float(V.out, t.r, t.c), <<"add_relu">>))
add_bias_relu_rowwise_inplace_f32(V, t) ==
  Within(V.x, t, Do(t, <<Float(V.x, t.r, t.c), Float(V.bias, 0, t.c)>>,
                    Float(V.x, t.r, t.c), <<"add_relu">>))
mul_scalar_f32(V, t) ==
  Within(V.out, t, Do(t, <<Float(V.x, t.r, t.c)>>, Float(V.out, t.r, t.c), <<"scale">>))
relu_f32(V, t) ==
  Within(V.out, t, Do(t, <<Float(V.x, t.r, t.c)>>, Float(V.out, t.r, t.c), <<"relu">>))
relu_backward_f32(V, t) ==
  Within(V.dx, t, Do(t, <<Float(V.preact, t.r, t.c), Float(V.dout, t.r, t.c)>>,
                     Float(V.dx, t.r, t.c), <<"gate">>))
relu_backward_inplace_f32(V, t) ==
  Within(V.dout_dx, t, Do(t, <<Float(V.preact, t.r, t.c), Float(V.dout_dx, t.r, t.c)>>,
                          Float(V.dout_dx, t.r, t.c), <<"gate">>))
transpose_f32(V, t) ==
  Within(V.x, t, Do(t, <<Float(V.x, t.r, t.c)>>, Float(V.out, t.c, t.r), <<"copy">>))
apply_causal_mask_inplace_f32(V, t) ==
  Within(V.scores, t, IF t.c > t.r % TensorCols(V.scores)
                      THEN Do(t, <<>>, Float(V.scores, t.r, t.c), <<"neg_inf">>) ELSE {})

\* Thread c of a row turns pair c of the row: elements c1 and c1 + half.
TurnPair(x, t, n_heads, At(_, _, _)) ==
  LET head_dim == TensorCols(x) \div n_heads
      half == head_dim \div 2
      i == t.c % half
      c1 == (t.c \div half) * head_dim + i
      turned == Turned(At(x, t.r, c1), At(x, t.r, c1 + half), t.r % x.dims[Rank(x) - 1], i)
  IN  IF t.c >= n_heads * half \/ t.r >= TensorRows(x) THEN {}
      ELSE {[id |-> t.id, reads |-> turned.reads, writes |-> turned.writes]}

rotary_embedding_inplace_f32(V, t, n_heads) == TurnPair(V.x, t, n_heads, Float)

(* Ids are a column of numel ids, from the first one on.                   *)
KernelToken(V, ids, r) == IdAt(ids, V.ids.base + r)

LookUp(V, t, ids, to) ==
  LET token == KernelToken(V, ids, t.r)
  IN  IF token < 0 \/ token >= TensorRows(V.table) THEN Do(t, <<>>, to, <<"zero">>)
      ELSE Do(t, <<Float(V.table, token, t.c)>>, to, <<"copy">>)
embedding_lookup_f32(V, t, ids) == LookUp(V, t, ids, Float(V.out, t.r, t.c))

Scatter(V, t, ids, from) ==
  LET token == KernelToken(V, ids, t.r)
  IN  IF token < 0 \/ token >= TensorRows(V.d_tok) THEN {}
      ELSE {[id |-> t.id, reads |-> <<from>>,
             writes |-> <<AddTo(Float(V.d_tok, token, t.c), <<"copy">>)>>]}
accumulate_embedding_grads_f32(V, t, ids) == Scatter(V, t, ids, Float(V.d_cur, t.r, t.c))

adamw_step_f32(V, t) ==
  {[id |-> t.id,
    reads |-> <<Float(V.grads, t.r, t.c), Float(V.m, t.r, t.c), Float(V.v, t.r, t.c),
                Float(V.params, t.r, t.c)>>,
    writes |-> <<Put(Float(V.m, t.r, t.c), <<"moment">>), Put(Float(V.v, t.r, t.c), <<"square">>),
                 Put(Float(V.params, t.r, t.c), <<"step">>)>>]}

cast_f32_to_bf16(V, t) ==
  Do(t, <<Float(V.src, t.r, t.c)>>, Bfloat(V.dst, t.r, t.c), <<"to", "bf16">>)
cast_bf16_to_f32(V, t) ==
  Do(t, <<Bfloat(V.src, t.r, t.c)>>, Float(V.dst, t.r, t.c), <<"to", "f32">>)

-----------------------------------------------------------------------------
(* _bf16act kernels                                                        *)

fill_bf16act(V, t) == Within(V.t, t, Do(t, <<>>, Bfloat(V.t, t.r, t.c), <<"fill">>))
add_bf16act(V, t) ==
  Within(V.out, t, Do(t, <<Bfloat(V.a, t.r, t.c), Bfloat(V.b, t.r, t.c)>>,
                      Bfloat(V.out, t.r, t.c), <<"add">>))
add_batch_seq_plus_pos_bf16act(V, t, seq_len) ==
  LET pos == IF seq_len > 0 THEN t.r % seq_len ELSE t.r
  IN  Within(V.out, t, Do(t, <<Bfloat(V.a, t.r, t.c), Float(V.b, pos, t.c)>>,
                          Bfloat(V.out, t.r, t.c), <<"add">>))

add_inplace_bf16act(V, t) ==
  Within(V.a, t, Do(t, <<Float(V.a, t.r, t.c), Bfloat(V.b, t.r, t.c)>>,
                    Float(V.a, t.r, t.c), <<"add">>))
add_bias_rowwise_bf16act(V, t) ==
  Within(V.out, t, Do(t, <<Bfloat(V.x, t.r, t.c), Float(V.bias, 0, t.c)>>,
                      Bfloat(V.out, t.r, t.c), <<"add">>))
add_bias_relu_rowwise_bf16act(V, t) ==
  Within(V.out, t, Do(t, <<Bfloat(V.x, t.r, t.c), Float(V.bias, 0, t.c)>>,
                      Bfloat(V.out, t.r, t.c), <<"add_relu">>))
add_bias_relu_rowwise_inplace_bf16act(V, t) ==
  Within(V.x, t, Do(t, <<Bfloat(V.x, t.r, t.c), Float(V.bias, 0, t.c)>>,
                    Bfloat(V.x, t.r, t.c), <<"add_relu">>))
mul_scalar_bf16act(V, t) ==
  Within(V.out, t, Do(t, <<Bfloat(V.x, t.r, t.c)>>, Bfloat(V.out, t.r, t.c), <<"scale">>))
relu_bf16act(V, t) ==
  Within(V.out, t, Do(t, <<Bfloat(V.x, t.r, t.c)>>, Bfloat(V.out, t.r, t.c), <<"relu">>))
relu_backward_bf16act(V, t) ==
  Within(V.dx, t, Do(t, <<Bfloat(V.preact, t.r, t.c), Bfloat(V.dout, t.r, t.c)>>,
                     Bfloat(V.dx, t.r, t.c), <<"gate">>))
\* Where the preactivation is positive the gradient is left as it is.
relu_backward_inplace_bf16act(V, t) ==
  Within(V.dout_dx, t, Do(t, <<Bfloat(V.preact, t.r, t.c)>>,
                          Bfloat(V.dout_dx, t.r, t.c), <<"gate_or_leave">>))
apply_causal_mask_inplace_bf16act(V, t) ==
  Within(V.scores, t, IF t.c > t.r % TensorCols(V.scores)
                      THEN Do(t, <<>>, Bfloat(V.scores, t.r, t.c), <<"neg_inf">>) ELSE {})
rotary_embedding_inplace_bf16act(V, t, n_heads) == TurnPair(V.x, t, n_heads, Bfloat)
embedding_lookup_bf16act(V, t, ids) == LookUp(V, t, ids, Bfloat(V.out, t.r, t.c))
accumulate_embedding_grads_bf16act(V, t, ids) == Scatter(V, t, ids, Bfloat(V.d_cur, t.r, t.c))
=============================================================================
