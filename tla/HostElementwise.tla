--------------------------- MODULE HostElementwise ---------------------------
(***************************************************************************)
(* The elementwise loops of DefaultCpuBackend.  An iteration is a step: it *)
(* reads places of memory and writes places of memory; V names the views   *)
(* of the operands.                                                        *)
(***************************************************************************)
EXTENDS ViewGeometry, FiniteSets

(* The activations among the operands of an operation, and what it writes. *)
Activations ==
  [copy |-> {"src", "dst"}, cast |-> {"src", "dst"}, fill |-> {"t"}, add |-> {"a", "b", "out"},
   add_position |-> {"a", "out"}, add_inplace |-> {"a", "b"}, add_bias_rowwise |-> {"x", "out"},
   add_bias_relu_rowwise |-> {"x", "out"}, add_bias_relu_rowwise_inplace |-> {"x"},
   mul_scalar |-> {"x", "out"}, relu |-> {"x", "out"}, relu_backward |-> {"preact", "dout", "dx"},
   relu_backward_inplace |-> {"preact", "dout_dx"}, transpose |-> {"x"},
   apply_causal_mask_inplace |-> {"scores"}, rotary_embedding_inplace |-> {"x"},
   embedding_lookup |-> {"out"}, accumulate_embedding_grads |-> {"d_cur"},
   adamw_step |-> {"params", "grads", "m", "v"}]
Written == [copy |-> "dst", cast |-> "dst", fill |-> "t", add |-> "out", add_position |-> "out",
   add_inplace |-> "a", add_bias_rowwise |-> "out", add_bias_relu_rowwise |-> "out",
   add_bias_relu_rowwise_inplace |-> "x", mul_scalar |-> "out", relu |-> "out",
   relu_backward |-> "dx", relu_backward_inplace |-> "dout_dx", transpose |-> "out",
   apply_causal_mask_inplace |-> "scores", rotary_embedding_inplace |-> "x",
   embedding_lookup |-> "out", accumulate_embedding_grads |-> "d_tok", adamw_step |-> "params"]
\* The operand whose place the output may take.
FirstInput == [copy |-> "src", cast |-> "src", add |-> "a", add_position |-> "a",
   add_bias_rowwise |-> "x", add_bias_relu_rowwise |-> "x", mul_scalar |-> "x", relu |-> "x",
   relu_backward |-> "dout", transpose |-> "x"]

Place(v, at) == [buf |-> v.buf, at |-> at, type |-> v.type]

(* A write of op applied to the values read, or of that added to the place. *)
Put(to, op) == [to |-> to, op |-> op, adds |-> FALSE]
AddTo(to, op) == [to |-> to, op |-> op, adds |-> TRUE]
Step(reads, writes) == [reads |-> reads, writes |-> writes]

-----------------------------------------------------------------------------
(* Addresses                                                               *)

\* Pointers are walked when every operand is dense, views otherwise.
Walks(views) == \A v \in views : IsContiguous(v) /\ v.type = "f32"
Row(fast, v, r, c) == Place(v, IF fast THEN v.base + r * TensorCols(v) + c ELSE AtRow(v, r, c))
FirstRow(fast, v, c) == Place(v, IF fast THEN v.base + c ELSE At2(v, 0, c))
Cell(v, r, c) == Place(v, At2(v, r, c))

\* The iterations of a loop over the rows and columns of a view.
Rows(v, Body(_, _)) ==
  [k \in 1..Numel(v) |-> Body((k - 1) \div TensorCols(v), (k - 1) % TensorCols(v))]

\* b is added to every sequence of a.
IsPositionTable(V) ==
  /\ Rank(V.a) = 3 /\ Rank(V.b) = 2 /\ Rank(V.out) = 3
  /\ V.b.dims = Tail(V.a.dims)
  /\ V.out.dims = V.a.dims

-----------------------------------------------------------------------------
(* The loops                                                               *)

host_copy(V) ==
  LET one(r, c) == IF Walks({V.src, V.dst})
                   THEN Step(<<Row(TRUE, V.src, r, c)>>, <<Put(Row(TRUE, V.dst, r, c), <<"copy">>)>>)
                   ELSE Step(<<Cell(V.src, r, c)>>, <<Put(Cell(V.dst, r, c), <<"copy">>)>>)
      rows == V.src.dims[1]
      cols == V.src.dims[2]
  IN  IF Walks({V.src, V.dst}) THEN Rows(V.src, one)
      ELSE [k \in 1..(rows * cols) |-> one((k - 1) \div cols, (k - 1) % cols)]

host_cast(V) ==
  LET one(r, c) == Step(<<Row(FALSE, V.src, r, c)>>,
                        <<Put(Row(FALSE, V.dst, r, c), <<"to", V.dst.type>>)>>)
  IN  Rows(V.src, one)

host_fill(V) ==
  LET one(r, c) == Step(<<>>, <<Put(Row(Walks({V.t}), V.t, r, c), <<"fill">>)>>)
  IN  Rows(V.t, one)

host_add(V) ==
  LET fast == Walks({V.a, V.b, V.out})
      plane == Numel(V.b)
      i(r, c) == r * TensorCols(V.a) + c
      b(r, c) == IF ~IsPositionTable(V) THEN Row(fast, V.b, r, c)
                 ELSE IF fast THEN Place(V.b, V.b.base + (i(r, c) % plane))
                 ELSE Cell(V.b, r % V.a.dims[2], c)
      one(r, c) == Step(<<Row(fast, V.a, r, c), b(r, c)>>,
                        <<Put(Row(fast, V.out, r, c), <<"add">>)>>)
  IN  Rows(V.a, one)

host_add_inplace(V) ==
  LET fast == Walks({V.a, V.b})
      one(r, c) == Step(<<Row(fast, V.a, r, c), Row(fast, V.b, r, c)>>,
                        <<Put(Row(fast, V.a, r, c), <<"add">>)>>)
  IN  Rows(V.a, one)

\* The bias of a column, and op of it and x.
WithBias(fast, x, bias, out, op) ==
  LET one(r, c) == Step(<<Row(fast, x, r, c), FirstRow(fast, bias, c)>>,
                        <<Put(Row(fast, out, r, c), op)>>)
  IN  Rows(x, one)

host_add_bias_rowwise(V) ==
  WithBias(Walks({V.x, V.bias, V.out}), V.x, V.bias, V.out, <<"add">>)
host_add_bias_relu_rowwise(V) ==
  WithBias(Walks({V.x, V.bias, V.out}), V.x, V.bias, V.out, <<"add_relu">>)
host_add_bias_relu_rowwise_inplace(V) ==
  WithBias(Walks({V.x, V.bias}), V.x, V.bias, V.x, <<"add_relu">>)

\* op of each element of x.
Mapped(x, out, op) ==
  LET one(r, c) == Step(<<Row(Walks({x, out}), x, r, c)>>,
                        <<Put(Row(Walks({x, out}), out, r, c), op)>>)
  IN  Rows(x, one)

host_mul_scalar(V) == Mapped(V.x, V.out, <<"scale">>)
host_relu(V) == Mapped(V.x, V.out, <<"relu">>)

\* dout where the preactivation is positive, 0 elsewhere.
Gated(preact, dout, dx, views) ==
  LET fast == Walks(views)
      one(r, c) == Step(<<Row(fast, preact, r, c), Row(fast, dout, r, c)>>,
                        <<Put(Row(fast, dx, r, c), <<"gate">>)>>)
  IN  Rows(preact, one)

host_relu_backward(V) == Gated(V.preact, V.dout, V.dx, {V.preact, V.dout, V.dx})
host_relu_backward_inplace(V) == Gated(V.preact, V.dout_dx, V.dout_dx, {V.preact, V.dout_dx})

host_transpose(V) ==
  LET one(r, c) == Step(<<Cell(V.x, r, c)>>, <<Put(Cell(V.out, c, r), <<"copy">>)>>)
  IN  Rows(V.x, one)

host_apply_causal_mask_inplace(V) ==
  LET T == TensorCols(V.scores)
      masked == SetToSeq({p \in (0..(PrefixCount(V.scores, 2) - 1)) \X (0..(T - 1)) \X (0..(T - 1)) :
                            p[3] > p[2]})
  IN  [k \in DOMAIN masked |->
         LET p == masked[k]
         IN  Step(<<>>, <<Put(Place(V.scores, AtMatrix(V.scores, p[1], p[2], p[3])), <<"neg_inf">>)>>)]

\* Pair i of a head turns by an angle that depends on i and the position.
Turned(x1, x2, pos, i) ==
  Step(<<x1, x2>>, <<Put(x1, <<"turn", pos, i, "first">>), Put(x2, <<"turn", pos, i, "second">>)>>)

host_rotary_embedding_inplace(V, n_heads) ==
  LET x == V.x
      head_dim == TensorCols(x) \div n_heads
      half == head_dim \div 2
      pairs == n_heads * half
      one(row, p) ==
        LET i == p % half
            c1 == (p \div half) * head_dim + i
        IN  Turned(Place(x, AtRow(x, row, c1)), Place(x, AtRow(x, row, c1 + half)),
                   row % x.dims[Rank(x) - 1], i)
  IN  [k \in 1..(PrefixCount(x, 1) * pairs) |-> one((k - 1) \div pairs, (k - 1) % pairs)]

-----------------------------------------------------------------------------
(* The token ids in their buffer: as many as the call has, then the first   *)
(* again.                                                                  *)
IdAt(ids, at) == ids[1 + (at % Len(ids))]

Token(V, ids, t) == IdAt(ids, AtIndex(V.ids, t))

\* A loop over the tokens of ids stops at the first id out of range.
KnownTokens(V, ids, vocab) ==
  LET bad == {t \in 0..(Numel(V.ids) - 1) : Token(V, ids, t) \notin 0..(vocab - 1)}
  IN  IF bad = {} THEN Numel(V.ids) ELSE CHOOSE t \in bad : \A u \in bad : t <= u

host_embedding_lookup(V, ids) ==
  LET cols == V.table.dims[2]
      one(t, d) == Step(<<Cell(V.table, Token(V, ids, t), d)>>,
                        <<Put(Place(V.out, AtRow(V.out, t, d)), <<"copy">>)>>)
  IN  [k \in 1..(KnownTokens(V, ids, V.table.dims[1]) * cols) |->
         one((k - 1) \div cols, (k - 1) % cols)]

host_accumulate_embedding_grads(V, ids) ==
  LET cols == TensorCols(V.d_cur)
      one(t, d) == Step(<<Place(V.d_cur, AtRow(V.d_cur, t, d))>>,
                        <<AddTo(Cell(V.d_tok, Token(V, ids, t), d), <<"copy">>)>>)
  IN  [k \in 1..(KnownTokens(V, ids, V.d_tok.dims[1]) * cols) |->
         one((k - 1) \div cols, (k - 1) % cols)]

host_adamw_step(V) ==
  LET one(i) == LET p == Place(V.params, V.params.base + i)
                    m == Place(V.m, V.m.base + i)
                    v == Place(V.v, V.v.base + i)
                IN  Step(<<Place(V.grads, V.grads.base + i), m, v, p>>,
                         <<Put(m, <<"moment">>), Put(v, <<"square">>), Put(p, <<"step">>)>>)
  IN  [k \in 1..(V.params.dims[1] * V.params.dims[2]) |-> one(k - 1)]
=============================================================================
