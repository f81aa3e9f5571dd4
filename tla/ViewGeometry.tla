---------------------------- MODULE ViewGeometry ----------------------------
(***************************************************************************)
(* Strided views of a buffer.  A view is [buf, type, base, dims, strides]: *)
(* addresses and strides are counted in elements, and axes from 1.         *)
(***************************************************************************)
EXTENDS Integers, Sequences, SequencesExt

Product(s) == FoldLeft(LAMBDA acc, d : acc * d, 1, s)
LeadingDims(v, n) == SubSeq(v.dims, 1, Len(v.dims) - n)

DenseStrides(dims) == [i \in DOMAIN dims |-> Product(SubSeq(dims, i + 1, Len(dims)))]
Whole(buf, type, dims) ==
  [buf |-> buf, type |-> type, base |-> 0, dims |-> dims, strides |-> DenseStrides(dims)]
Slice(v, axis, start, len) ==
  [v EXCEPT !.base = @ + start * v.strides[axis], !.dims[axis] = len]
Select(v, axis, index) ==
  [v EXCEPT !.base = @ + index * v.strides[axis],
            !.dims = RemoveAt(@, axis), !.strides = RemoveAt(@, axis)]
Rank(v) == Len(v.dims)
Subcols(v, offset, len) == Slice(v, Rank(v), offset, len)
Subrows(v, offset, len) == Slice(v, 1, offset, len)
IsContiguous(v) == v.strides = DenseStrides(v.dims)
Numel(v) == Product(v.dims)

(* The trailing suffix axes form a block; the others number the blocks.    *)
PrefixCount(v, suffix) == Product(LeadingDims(v, suffix))

PrefixOffset(v, prefix, suffix) ==
  LET dims == LeadingDims(v, suffix)
      Inside(i) == Product(SubSeq(dims, i + 1, Len(dims)))
  IN  FoldLeftDomain(LAMBDA acc, i : acc + ((prefix \div Inside(i)) % dims[i]) * v.strides[i],
                     0, dims)

(* Where an element lies: of a matrix, of the rows of all leading axes, of  *)
(* the matrices of all leading axes, or in row-major order.                *)
At2(v, r, c) == v.base + r * v.strides[1] + c * v.strides[2]
AtRow(v, p, c) == v.base + PrefixOffset(v, p, 1) + c * Last(v.strides)
AtMatrix(v, p, r, c) ==
  v.base + PrefixOffset(v, p, 2) + r * v.strides[Rank(v) - 1] + c * Last(v.strides)
AtIndex(v, i) == v.base + PrefixOffset(v, i, 0)
Footprint(v) == {AtIndex(v, i) : i \in 0..(Numel(v) - 1)}

-----------------------------------------------------------------------------
(* What the CUDA plugin makes of a view                                    *)

TensorCols(v) == Last(v.dims)
TensorRows(v) == IF Rank(v) = 1 THEN 1 ELSE PrefixCount(v, 1)

\* Axes of length 1 do not matter.
LongAxes(v, upto) == SelectSeq([i \in 1..upto |-> i], LAMBDA i : v.dims[i] # 1)

(* The rows of all leading axes are evenly spaced.                         *)
UniformRowStride(v) ==
  LET axes == LongAxes(v, Rank(v) - 1)
  IN  \A k \in 1..(Len(axes) - 1) :
        v.strides[axes[k]] = v.dims[axes[k + 1]] * v.strides[axes[k + 1]]
RowStride(v) ==
  LET axes == LongAxes(v, Rank(v) - 1)
  IN  IF axes = <<>> THEN 0 ELSE v.strides[Last(axes)]
RowPtr(v, r) == v.base + r * RowStride(v)

DenseIgnoringUnitAxes(v) ==
  \A k \in DOMAIN v.dims : v.dims[k] = 1 \/ v.strides[k] = DenseStrides(v.dims)[k]

IsCudaRowMajor(v) ==
  /\ Rank(v) >= 2
  /\ Last(v.strides) = 1
  /\ v.strides[Rank(v) - 1] >= TensorCols(v)
LeadingDim(v) == v.strides[Rank(v) - 1]
=============================================================================
