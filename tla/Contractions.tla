---------------------------- MODULE Contractions ----------------------------
(***************************************************************************)
(* The matrix products of the network: plain, by a matrix shared by all    *)
(* batches, reduced over the batches, and batch by batch.  The built-in    *)
(* CPU backend loops over the elements its operands' strides give it; the  *)
(* OpenBLAS and CUDA plugins hand addresses, leading dimensions and batch  *)
(* strides to a BLAS, which knows nothing of views.                        *)
(*                                                                         *)
(* A result is the set of the pairs of elements that were multiplied to    *)
(* make it.                                                                *)
(***************************************************************************)
EXTENDS ViewGeometry, FiniteSets

CONSTANTS
  Calls,      \* [op, a, b, out]: an operation and the views it is given
  Cells       \* size of the output's buffer

VARIABLES
  product,    \* the call made: operation, views and backend
  outcome,    \* "idle", "refused" or "running"
  todo,       \* products not done: of all elements, or of one batch each
  result      \* the output's buffer

vars == <<product, outcome, todo, result>>

Below(n) == 0..(n - 1)
Rows(v) == v.dims[Rank(v) - 1]
Cols(v) == Last(v.dims)

-----------------------------------------------------------------------------
(* The contract of Ops                                                     *)

Reduces(op) == op = "gemm_ranked_reduce_lhs_t"
SharesRhs(op) == op \in {"gemm_ranked_matrix_rhs", "gemm_ranked_matrix_rhs_t"}
TransposesA(op) == op \in {"gemm_ranked_reduce_lhs_t", "gemm_batched_lhs_t"}
TransposesB(op) == op \in {"gemm_ranked_matrix_rhs_t", "gemm_batched_rhs_t"}

SamePrefix(a, b) == Rank(a) = Rank(b) /\ LeadingDims(a, 2) = LeadingDims(b, 2)

MatmulFits(o) ==
  LET inner == IF TransposesA(o.op) THEN Rows(o.a) ELSE Cols(o.a)
  IN  /\ CASE o.op = "gemm" -> Rank(o.a) = 2 /\ Rank(o.b) = 2 /\ Rank(o.out) = 2
           [] SharesRhs(o.op) -> Rank(o.a) >= 3 /\ Rank(o.b) = 2 /\ SamePrefix(o.a, o.out)
           [] Reduces(o.op) -> Rank(o.a) >= 3 /\ SamePrefix(o.a, o.b) /\ Rank(o.out) = 2
           [] OTHER -> Rank(o.a) >= 3 /\ SamePrefix(o.a, o.b) /\ SamePrefix(o.a, o.out)
      /\ inner = IF TransposesB(o.op) THEN Cols(o.b) ELSE Rows(o.b)
      /\ Rows(o.out) = IF TransposesA(o.op) THEN Cols(o.a) ELSE Rows(o.a)
      /\ Cols(o.out) = IF TransposesB(o.op) THEN Rows(o.b) ELSE Cols(o.b)

-----------------------------------------------------------------------------
(* The loops of the CPU backend                                            *)

\* A result: where it is stored, and the elements of a and b multiplied.
Made(at, terms) == [at |-> at, terms |-> terms]
Pair(a, b) == {<<"a", a>>, <<"b", b>>}

host_gemm(a, b, out) ==
  {Made(At2(out, r, c), {Pair(At2(a, r, k), At2(b, k, c)) : k \in Below(a.dims[2])}) :
     r \in Below(a.dims[1]), c \in Below(b.dims[2])}

host_gemm_ranked_matrix_rhs(a, b, out) ==
  {Made(AtMatrix(out, p, r, c), {Pair(AtMatrix(a, p, r, k), At2(b, k, c)) : k \in Below(Cols(a))}) :
     p \in Below(PrefixCount(a, 2)), r \in Below(Rows(a)), c \in Below(b.dims[2])}

host_gemm_ranked_matrix_rhs_t(a, b, out) ==
  {Made(AtMatrix(out, p, r, c), {Pair(AtMatrix(a, p, r, k), At2(b, c, k)) : k \in Below(Cols(a))}) :
     p \in Below(PrefixCount(a, 2)), r \in Below(Rows(a)), c \in Below(b.dims[1])}

host_gemm_ranked_reduce_lhs_t(a, b, out) ==
  {Made(At2(out, r, c), {Pair(AtMatrix(a, p, k, r), AtMatrix(b, p, k, c)) :
                           p \in Below(PrefixCount(a, 2)), k \in Below(Rows(a))}) :
     r \in Below(Cols(a)), c \in Below(Cols(b))}

host_gemm_batched(a, b, out) ==
  {Made(AtMatrix(out, p, r, c), {Pair(AtMatrix(a, p, r, k), AtMatrix(b, p, k, c)) :
                                   k \in Below(Cols(a))}) :
     p \in Below(PrefixCount(a, 2)), r \in Below(Rows(a)), c \in Below(Cols(b))}

host_gemm_batched_lhs_t(a, b, out) ==
  {Made(AtMatrix(out, p, r, c), {Pair(AtMatrix(a, p, k, r), AtMatrix(b, p, k, c)) :
                                   k \in Below(Rows(a))}) :
     p \in Below(PrefixCount(a, 2)), r \in Below(Cols(a)), c \in Below(Cols(b))}

host_gemm_batched_rhs_t(a, b, out) ==
  {Made(AtMatrix(out, p, r, c), {Pair(AtMatrix(a, p, r, k), AtMatrix(b, p, c, k)) :
                                   k \in Below(Cols(a))}) :
     p \in Below(PrefixCount(a, 2)), r \in Below(Rows(a)), c \in Below(Rows(b))}

Loops(o) ==
  CASE o.op = "gemm" -> host_gemm(o.a, o.b, o.out)
    [] o.op = "gemm_ranked_matrix_rhs" -> host_gemm_ranked_matrix_rhs(o.a, o.b, o.out)
    [] o.op = "gemm_ranked_matrix_rhs_t" -> host_gemm_ranked_matrix_rhs_t(o.a, o.b, o.out)
    [] o.op = "gemm_ranked_reduce_lhs_t" -> host_gemm_ranked_reduce_lhs_t(o.a, o.b, o.out)
    [] o.op = "gemm_batched" -> host_gemm_batched(o.a, o.b, o.out)
    [] o.op = "gemm_batched_lhs_t" -> host_gemm_batched_lhs_t(o.a, o.b, o.out)
    [] o.op = "gemm_batched_rhs_t" -> host_gemm_batched_rhs_t(o.a, o.b, o.out)

-----------------------------------------------------------------------------
(* BLAS: a matrix is a first element and the distance of its lines.        *)

Matrix(base, ld) == [base |-> base, ld |-> ld]
Operation(transposed) == IF transposed THEN "T" ELSE "N"
LineMajor(M, line, pos) == M.base + line * M.ld + pos

\* cblas_sgemm(CblasRowMajor, ...)
sgemm(op_a, op_b, m, n, k, A, B, C) ==
  LET a(i, l) == IF op_a = "N" THEN LineMajor(A, i, l) ELSE LineMajor(A, l, i)
      b(l, j) == IF op_b = "N" THEN LineMajor(B, l, j) ELSE LineMajor(B, j, l)
  IN  {Made(LineMajor(C, i, j), {Pair(a(i, l), b(l, j)) : l \in Below(k)}) :
         i \in Below(m), j \in Below(n)}

\* cublas's gemms: column major, so that the lines are columns.
cublas_gemm_ex(op_x, op_y, m, n, k, X, Y, C) ==
  LET x(i, l) == IF op_x = "N" THEN LineMajor(X, l, i) ELSE LineMajor(X, i, l)
      y(l, j) == IF op_y = "N" THEN LineMajor(Y, j, l) ELSE LineMajor(Y, l, j)
  IN  {Made(LineMajor(C, j, i), {Pair(y(l, j), x(i, l)) : l \in Below(k)}) :
         i \in Below(m), j \in Below(n)}

(* Mutant: sharing a matrix, the rows of one batch only.                   *)
GemmShapeOfOneBatch(o) ==
  LET merged == IF Reduces(o.op) THEN PrefixCount(o.a, 2) * Rows(o.a) ELSE Rows(o.a)
  IN  [out_rows |-> IF TransposesA(o.op) THEN Cols(o.a) ELSE merged,
       shared_dim |-> IF TransposesA(o.op) THEN merged ELSE Cols(o.a),
       out_cols |-> IF TransposesB(o.op) THEN Rows(o.b) ELSE Cols(o.b)]

(* The shape of a product; reducing or sharing a matrix, all batches are    *)
(* one matrix.                                                             *)
GemmShape(o) ==
  LET merged == IF Reduces(o.op) \/ SharesRhs(o.op) THEN PrefixCount(o.a, 2) * Rows(o.a)
                                                    ELSE Rows(o.a)
  IN  [out_rows |-> IF TransposesA(o.op) THEN Cols(o.a) ELSE merged,
       shared_dim |-> IF TransposesA(o.op) THEN merged ELSE Cols(o.a),
       out_cols |-> IF TransposesB(o.op) THEN Rows(o.b) ELSE Cols(o.b)]

\* A product to be run, of one batch or of all.
Batch(p, made) == [p |-> p, made |-> made]

PrefixMatrix(v, p) == Matrix(v.base + PrefixOffset(v, p, 2), LeadingDim(v))

-----------------------------------------------------------------------------
(* The OpenBLAS plugin                                                     *)

IsBlasCompatible(v) ==
  /\ Rank(v) = 2
  /\ Last(v.strides) = 1
  /\ LeadingDim(v) >= Cols(v)

IsBatchedBlasCompatible(v) ==
  /\ Rank(v) >= 3
  /\ Last(v.strides) = 1
  /\ LeadingDim(v) >= Cols(v)
  /\ \A axis \in 2..(Rank(v) - 1) : v.strides[axis - 1] >= v.dims[axis] * v.strides[axis]

OpenBlasTakes(o) ==
  CASE o.op = "gemm" -> \A v \in {o.a, o.b, o.out} : IsBlasCompatible(v)
    [] SharesRhs(o.op) -> /\ IsBatchedBlasCompatible(o.a) /\ IsBlasCompatible(o.b)
                          /\ IsBatchedBlasCompatible(o.out)
    [] Reduces(o.op) -> \A v \in {o.a, o.b, o.out} : IsContiguous(v)
    [] OTHER -> \A v \in {o.a, o.b, o.out} : IsBatchedBlasCompatible(v)

Sgemm(o, A, B, C) ==
  LET s == GemmShape(o)
  IN  sgemm(Operation(TransposesA(o.op)), Operation(TransposesB(o.op)),
            s.out_rows, s.out_cols, s.shared_dim, A, B, C)

\* What it does not take it leaves to the CPU backend.
OpenBlasProducts(o) ==
  IF ~OpenBlasTakes(o) THEN {Batch(0, Loops(o))}
  ELSE IF Reduces(o.op)
       THEN {Batch(0, Sgemm(o, Matrix(o.a.base, Cols(o.a)), Matrix(o.b.base, Cols(o.b)),
                            Matrix(o.out.base, Cols(o.b))))}
  ELSE IF o.op = "gemm" \/ SharesRhs(o.op)
       THEN {Batch(0, Sgemm(o, PrefixMatrix(o.a, 0), PrefixMatrix(o.b, 0), PrefixMatrix(o.out, 0)))}
  ELSE {Batch(p, Sgemm(o, PrefixMatrix(o.a, p), PrefixMatrix(o.b, p), PrefixMatrix(o.out, p))) :
          p \in Below(PrefixCount(o.a, 2))}

-----------------------------------------------------------------------------
(* The CUDA plugin                                                         *)

fallback_to_prefix_loop == FALSE

(* The variant is the one of a; weight gradients stay in float.            *)
CudaTakes(o) ==
  LET act == IF o.a.type = "bf16" /\ o.op # "gemm" THEN "bf16" ELSE "f32"
  IN  /\ \A v \in {o.a, o.b, o.out} : IsCudaRowMajor(v)
      /\ o.a.type = act /\ o.b.type = act
      /\ o.out.type = IF Reduces(o.op) THEN "f32" ELSE act

(* Consecutive batches are evenly spaced.                                  *)
RegularPrefixStride(v, count) ==
  LET Delta(p) == PrefixOffset(v, p, 2) - PrefixOffset(v, p - 1, 2)
  IN  Rank(v) = 3 \/ \A p \in 2..(count - 1) : Delta(p) = Delta(1)

PrefixStride(v, count) == IF count <= 1 THEN 0 ELSE PrefixOffset(v, 1, 2)

(* The operands are swapped: the rows of a row-major matrix are the columns *)
(* of its transpose.                                                       *)
RunGemm(o, A, B, C) ==
  LET s == GemmShape(o)
  IN  cublas_gemm_ex(Operation(TransposesB(o.op)), Operation(TransposesA(o.op)),
                     s.out_cols, s.out_rows, s.shared_dim, B, A, C)

\* One product of whole views: only gemm asks the views for their lines.
CudaSingleProduct(o) ==
  LET s == GemmShape(o)
  IN  IF o.op = "gemm" THEN RunGemm(o, PrefixMatrix(o.a, 0), PrefixMatrix(o.b, 0),
                                    PrefixMatrix(o.out, 0))
      ELSE RunGemm(o, Matrix(o.a.base, IF Reduces(o.op) THEN s.out_rows ELSE s.shared_dim),
                      Matrix(o.b.base, IF TransposesB(o.op) THEN s.shared_dim ELSE s.out_cols),
                      Matrix(o.out.base, s.out_cols))

Regular(o) == \A v \in {o.a, o.b, o.out} : RegularPrefixStride(v, PrefixCount(o.a, 2))

CudaBatchProducts(o) ==
  LET count == PrefixCount(o.a, 2)
      Strided(v, p) == Matrix(v.base + p * PrefixStride(v, count), LeadingDim(v))
  IN  IF Regular(o)
      THEN {Batch(p, RunGemm(o, Strided(o.a, p), Strided(o.b, p), Strided(o.out, p))) :
              p \in Below(count)}
      ELSE {Batch(p, RunGemm(o, PrefixMatrix(o.a, p), PrefixMatrix(o.b, p), PrefixMatrix(o.out, p))) :
              p \in Below(count)}

-----------------------------------------------------------------------------
Old == {{<<"old", 0>>}}
NoProduct == [op |-> "none", backend |-> "none"]

Init ==
  /\ product = NoProduct /\ outcome = "idle" /\ todo = {}
  /\ result = [at \in Below(Cells) |-> Old]

Ask(o, backend, takes, products) ==
  /\ outcome = "idle"
  /\ product' = [op |-> o.op, backend |-> backend, o |-> o]
  /\ outcome' = IF takes THEN "running" ELSE "refused"
  /\ todo' = IF takes THEN products ELSE {}
  /\ UNCHANGED result

AskCpu(o) == Ask(o, "cpu", MatmulFits(o), {Batch(0, Loops(o))})
AskOpenBlas(o) == Ask(o, "openblas", MatmulFits(o), OpenBlasProducts(o))
AskCuda(o) ==
  LET single == o.op = "gemm" \/ SharesRhs(o.op) \/ Reduces(o.op)
  IN  Ask(o, "cuda",
          MatmulFits(o) /\ CudaTakes(o) /\ (single \/ Regular(o) \/ fallback_to_prefix_loop),
          IF single THEN {Batch(0, CudaSingleProduct(o))} ELSE CudaBatchProducts(o))

(* The products of a strided batch run in any order.                       *)
Run(batch) ==
  /\ todo' = todo \ {batch}
  /\ result' = [at \in DOMAIN result |->
                  LET made == {e \in batch.made : e.at = at}
                  IN  IF made = {} THEN result[at] ELSE (CHOOSE e \in made : TRUE).terms]
  /\ UNCHANGED <<product, outcome>>

Next ==
  \/ \E o \in Calls : AskCpu(o) \/ AskOpenBlas(o) \/ AskCuda(o)
  \/ \E batch \in todo : Run(batch)

Spec == Init /\ [][Next]_vars

-----------------------------------------------------------------------------
(* Properties                                                              *)

\* Whatever backend ran it, every element of the output is in the end the
\* contraction the loops over the views' elements define, and no cell of the
\* output's buffer outside the view has changed.
AsTheLoops ==
  outcome = "running" /\ todo = {} =>
    \A at \in DOMAIN result :
      LET made == {e \in Loops(product.o) : e.at = at}
      IN  result[at] = IF made = {} THEN Old ELSE (CHOOSE e \in made : TRUE).terms

\* No product that passed the checks reads outside the elements of the views
\* a and b or writes outside those of out.
WithinTheViews ==
  \A batch \in todo : \A e \in batch.made :
    /\ e.at \in Footprint(product.o.out)
    /\ \A pair \in e.terms :
         pair \subseteq ({<<"a", at>> : at \in Footprint(product.o.a)}
                           \cup {<<"b", at>> : at \in Footprint(product.o.b)})

\* A call whose shapes fit is refused by no backend, unless a and b differ in
\* precision or the CUDA plugin finds its batches unevenly spaced.
FittingCallsAreTaken ==
  outcome = "refused" /\ MatmulFits(product.o) =>
    /\ product.backend = "cuda"
    /\ product.o.a.type # product.o.b.type \/ ~Regular(product.o)

\* The batches of one call can be computed in any order: none writes what
\* another writes.
BatchesApart ==
  \A b1, b2 \in todo :
    b1 # b2 => {e.at : e \in b1.made} \cap {e.at : e \in b2.made} = {}
=============================================================================
