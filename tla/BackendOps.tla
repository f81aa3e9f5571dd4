----------------------------- MODULE BackendOps -----------------------------
(***************************************************************************)
(* The operations of a device backend, one at a time: a kernel that works  *)
(* on rows, an elementwise operation, or a matrix product.  Each is a      *)
(* module of its own; what they share is that the host starts the next one *)
(* on an idle device.                                                      *)
(***************************************************************************)
EXTENDS RowKernels

CONSTANTS
  CellCalls, ProductCalls,     \* the calls of ElementwiseOps and of Contractions
  BlockThreads, MaxBlockX, TileDim, MaxGridY, Vocab, Heads, CallCells,
  ProductCells

ASSUME BlocksFit ==
  /\ BlockThreads \in Nat \ {0} /\ MaxGridY \in Nat \ {0}
  /\ MaxBlockX \in 1..BlockThreads /\ TileDim \in 1..BlockThreads

VARIABLES
  operation, status, todo, held, buffers, cpu,        \* of ElementwiseOps
  product, outcome, batches, products            \* of Contractions

cell_vars == <<operation, status, todo, held, buffers, cpu>>
product_vars == <<product, outcome, batches, products>>

Elementwise == INSTANCE ElementwiseOps WITH
  Calls <- CellCalls, call <- operation, Cells <- CallCells, mem <- buffers, host <- cpu
Matrices == INSTANCE Contractions WITH
  Calls <- ProductCalls, Cells <- ProductCells, todo <- batches, result <- products

NoCalling ==
  LET some == CHOOSE c \in Calls : TRUE
      shape == CHOOSE s \in some.shapes : TRUE
  IN  [call |-> some, shape |-> shape,
       targets |-> [b \in 0..(shape.rows - 1) |-> 0],
       rowData |-> [b \in 0..(shape.rows - 1) |-> "finite"]]

OpsInit ==
  /\ Init \/ (host = "idle" /\ calling = NoCalling /\ Unlaunched)
  /\ Elementwise!Init
  /\ Matrices!Init

OpsNext ==
  \/ Next /\ UNCHANGED <<cell_vars, product_vars>>
  \/ /\ host = "idle" /\ outcome = "idle"
     /\ Elementwise!Next
     /\ UNCHANGED <<vars, product_vars>>
  \/ /\ host = "idle" /\ status = "idle"
     /\ Matrices!Next
     /\ UNCHANGED <<vars, cell_vars>>

OpsSpec == OpsInit /\ [][OpsNext]_<<vars, cell_vars, product_vars>> /\ Fairness

-----------------------------------------------------------------------------
(* What a call on CUDA leaves is what the CPU backend leaves: every value   *)
(* of its operands' original elements, read with the type they have; and    *)
(* nothing beside the output, nothing for an id out of range.  No two of    *)
(* its threads touch one place, one of them writing, unless both add to it. *)
BackendsAgree ==
  /\ Elementwise!BackendsAgree
  /\ Elementwise!ThreadsApart
  /\ Elementwise!NothingMisread
  /\ Elementwise!OnlyTheOutputChanges
  /\ Elementwise!BadIdsDoNothing

(* Whatever a BLAS is told of addresses and lines, the product is the one   *)
(* the loops over the views compute: inside the views, in any order of the  *)
(* batches, and not refused when it fits.                                  *)
AsTheLoops ==
  /\ Matrices!AsTheLoops
  /\ Matrices!WithinTheViews
  /\ Matrices!BatchesApart
  /\ Matrices!FittingCallsAreTaken
=============================================================================
