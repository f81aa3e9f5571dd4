-------------------------- MODULE ContractionCalls --------------------------
(* The views the layers multiply: whole activations and matrices, the first *)
(* batches or tokens of longer ones, the columns of one head, and one head  *)
(* of the kept attention weights.                                          *)
EXTENDS ViewGeometry

\* One more than asked for, of which a view takes part.
Longer(dims, axis) == [dims EXCEPT ![axis] = @ + 1]
View(kind, buf, type, dims) ==
  CASE kind = "whole" -> Whole(buf, type, dims)
    [] kind = "batches" -> Slice(Whole(buf, type, Longer(dims, 1)), 1, 0, dims[1])
    [] kind = "tokens" -> Slice(Whole(buf, type, Longer(dims, 2)), 2, 0, dims[2])
    [] kind = "columns" -> Subcols(Whole(buf, type, Longer(dims, Len(dims))), 1, Last(dims))
    [] kind = "head" -> Select(Whole(buf, type, <<2>> \o dims), 1, 1)

Type(act, op, name) ==
  IF op = "gemm" \/ (act = "mixed" /\ name = "b") \/ (op = "gemm_ranked_reduce_lhs_t" /\ name = "out") 
  THEN "f32" ELSE IF act = "mixed" THEN "bf16" ELSE act

Call(op, act, da, db, dout, ka, kb, ko) ==
  [op |-> op, a |-> View(ka, "a", Type(act, op, "a"), da),
   b |-> View(kb, "b", Type(act, op, "b"), db),
   out |-> View(ko, "out", Type(act, op, "out"), dout)]

D2 == {<<m, n>> : m, n \in 1..2}
D3 == {<<p, m, n>> : p, m, n \in 1..2}
Ranked == {"gemm_ranked_matrix_rhs", "gemm_ranked_matrix_rhs_t"}
Batched == {"gemm_batched", "gemm_batched_lhs_t", "gemm_batched_rhs_t"}
\* In "mixed" the matrix is the float parameter, not its copy.
Acts == {"f32", "bf16"}

(* Every shape of the operands, fitting or not, and some of the result. *)
SomeOut == {<<2, 1, 2>>, <<1, 2, 1>>, <<2, 2, 2>>}
AnyShape ==
  {Call("gemm", "f32", da, db, d, "whole", "whole", "whole") : da, db, d \in D2}
    \cup {Call(op, "f32", da, db, d, "whole", "whole", "whole") :
            op \in Ranked, da \in D3, d \in SomeOut, db \in D2}
    \cup {Call("gemm_ranked_reduce_lhs_t", "f32", da, db, d, "whole", "whole", "whole") :
            da, db \in D3, d \in D2}
    \cup {Call(op, "f32", da, db, d, "whole", "whole", "whole") : op \in Batched, da, db \in D3, d \in SomeOut}

(* Fitting shapes on every view of the layers: [batch, tokens, features].   *)
Fitting(op, p, m, k, n) ==
  LET a == IF op \in {"gemm_ranked_reduce_lhs_t", "gemm_batched_lhs_t"} THEN <<k, m>> ELSE <<m, k>>
      b == IF op \in {"gemm_ranked_matrix_rhs_t", "gemm_batched_rhs_t"} THEN <<n, k>> ELSE <<k, n>>
      lead == IF op = "gemm" THEN <<>> ELSE <<p>>
  IN  [a |-> lead \o a, b |-> IF op \in Ranked THEN b ELSE lead \o b,
       out |-> IF op = "gemm_ranked_reduce_lhs_t" THEN <<m, n>> ELSE lead \o <<m, n>>]

ActivationViews(p) == {"whole", "batches"} \cup (IF p = 1 THEN {"tokens"} ELSE {})
HeadViews == {"whole", "batches", "tokens", "columns", "head"}
Sizes == {<<2, 2, 3>>, <<3, 1, 2>>, <<1, 2, 1>>}

OfLayers ==
  UNION {{LET s == Fitting(op, p, z[1], z[2], z[3])
          IN  Call(op, act, s.a, s.b, s.out, ka, "whole", ko) :
            ka \in ActivationViews(p), ko \in ActivationViews(p)} :
           op \in Ranked, act \in Acts \cup {"mixed"}, p \in 1..2, z \in Sizes}
    \cup UNION {{LET s == Fitting("gemm_ranked_reduce_lhs_t", p, z[1], z[2], z[3])
                 IN  Call("gemm_ranked_reduce_lhs_t", act, s.a, s.b, s.out, ka, kb, "whole") :
                   ka \in {"whole", "batches"}, kb \in {"whole", "batches"}} :
                  act \in Acts, p \in 1..2, z \in Sizes}
OfHeads ==
  {LET s == Fitting(op, p, z[1], z[2], z[3])
   IN  Call(op, act, s.a, s.b, s.out, ka, kb, ko) :
     op \in Batched, act \in Acts, p \in 1..2, z \in {<<2, 1, 2>>},
     ka \in HeadViews, kb \in HeadViews, ko \in {"whole", "columns", "head"}}
OfMatrices ==
  {LET s == Fitting("gemm", 1, 2, 2, 3)
   IN  Call("gemm", act, s.a, s.b, s.out, ka, kb, ko) :
     act \in Acts, ka, kb, ko \in {"whole", "columns", "batches"}}

(* All heads of a batch at once: the heads of one batch lie nearer to each  *)
(* other than to those of the next.                                        *)
AllHeads(buf, heads, dims) ==
  LET v == Whole(buf, "f32", <<dims[1], dims[2], heads * dims[3]>>)
  IN  [v EXCEPT !.dims = <<dims[1], heads, dims[2], dims[3]>>,
                !.strides = <<v.strides[1], dims[3], v.strides[2], 1>>]
Irregular ==
  {[op |-> "gemm_batched_rhs_t", a |-> AllHeads("a", 2, <<p, 2, 2>>),
    b |-> AllHeads("b", 2, <<p, 2, 2>>), out |-> Whole("out", "f32", <<p, 2, 2, 2>>)] : p \in 1..2}

LayerProductCalls == AnyShape \cup OfLayers \cup OfHeads \cup OfMatrices \cup Irregular
=============================================================================
