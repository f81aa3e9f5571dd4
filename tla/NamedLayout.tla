----------------------------- MODULE NamedLayout -----------------------------
(***************************************************************************)
(* How a layout places its slices: build_param_layout measures the slices  *)
(* that get weight decay, then places all of them with one cursor per      *)
(* zone.  The other layouts have one zone, the first.  Names and types of  *)
(* slices do not matter here: a slice is its size and its zone.            *)
(***************************************************************************)
EXTENDS Integers, Sequences

CONSTANTS SpecLists,   \* lists of slices to be placed
          Alignments   \* memory.alignment_bytes

ParamSliceSpec == [bytes : Nat, apply_weight_decay : BOOLEAN]

ASSUME LayoutAssumption ==
  SpecLists \subseteq Seq(ParamSliceSpec) /\ Alignments \subseteq Nat \ {0}

VARIABLES
  specs, alignment,
  stage,                   \* "measure", "place" or "done"
  next,                    \* the slice the loop is at
  decay_cursor,            \* of the measuring loop
  decay_bytes,
  decay_write_cursor, no_decay_write_cursor,   \* of the placing loop
  slices,                  \* the slices placed so far
  total_bytes,
  measured                 \* history: decay_cursor after each slice

cursors == <<decay_cursor, decay_bytes, decay_write_cursor, no_decay_write_cursor>>
vars == <<specs, alignment, stage, next, cursors, slices, total_bytes, measured>>

-----------------------------------------------------------------------------

AlignUp(v, a) == IF v % a = 0 THEN v ELSE v + (a - (v % a))

LayoutSlice == [offset : Nat, bytes : Nat, decay : BOOLEAN]
Slice(offset, bytes, decay) == [offset |-> offset, bytes |-> bytes, decay |-> decay]
End(slice) == slice.offset + slice.bytes

Init ==
  /\ specs \in SpecLists
  /\ alignment \in Alignments
  /\ stage = "measure"
  /\ next = 1
  /\ decay_cursor = 0
  /\ decay_bytes = 0
  /\ decay_write_cursor = 0
  /\ no_decay_write_cursor = 0
  /\ slices = <<>>
  /\ total_bytes = 0
  /\ measured = <<>>

(* Mutant: the gaps between slices are not measured. *)
MeasureNoGaps ==
  /\ stage = "measure"
  /\ next <= Len(specs)
  /\ decay_cursor' = IF specs[next].apply_weight_decay
                     THEN decay_cursor + specs[next].bytes
                     ELSE decay_cursor
  /\ measured' = Append(measured, decay_cursor')
  /\ next' = next + 1
  /\ UNCHANGED <<specs, alignment, stage, decay_bytes, decay_write_cursor,
                 no_decay_write_cursor, slices, total_bytes>>

(* One turn of the measuring loop. *)
Measure ==
  /\ stage = "measure"
  /\ next <= Len(specs)
  /\ decay_cursor' = IF specs[next].apply_weight_decay
                     THEN AlignUp(decay_cursor, alignment) + specs[next].bytes
                     ELSE decay_cursor
  /\ measured' = Append(measured, decay_cursor')
  /\ next' = next + 1
  /\ UNCHANGED <<specs, alignment, stage, decay_bytes, decay_write_cursor,
                 no_decay_write_cursor, slices, total_bytes>>

(* Mutant: the first zone is not rounded up. *)
FinishMeasureUnaligned ==
  /\ stage = "measure"
  /\ next = Len(specs) + 1
  /\ decay_bytes' = decay_cursor
  /\ no_decay_write_cursor' = decay_bytes'
  /\ stage' = "place"
  /\ next' = 1
  /\ UNCHANGED <<specs, alignment, decay_cursor, decay_write_cursor, slices,
                 total_bytes, measured>>

FinishMeasure ==
  /\ stage = "measure"
  /\ next = Len(specs) + 1
  /\ decay_bytes' = AlignUp(decay_cursor, alignment)
  /\ no_decay_write_cursor' = decay_bytes'
  /\ stage' = "place"
  /\ next' = 1
  /\ UNCHANGED <<specs, alignment, decay_cursor, decay_write_cursor, slices,
                 total_bytes, measured>>

(* Mutant: the gap before the slice is not added to the cursor. *)
PlaceDecayedNoGap ==
  /\ stage = "place"
  /\ next <= Len(specs)
  /\ specs[next].apply_weight_decay
  /\ slices' = Append(slices, Slice(AlignUp(decay_write_cursor, alignment),
                                    specs[next].bytes, TRUE))
  /\ decay_write_cursor' = decay_write_cursor + specs[next].bytes
  /\ next' = next + 1
  /\ UNCHANGED <<specs, alignment, stage, decay_cursor, decay_bytes,
                 no_decay_write_cursor, total_bytes, measured>>

PlaceDecayed ==
  /\ stage = "place"
  /\ next <= Len(specs)
  /\ specs[next].apply_weight_decay
  /\ LET offset == AlignUp(decay_write_cursor, alignment)
     IN  /\ slices' = Append(slices, Slice(offset, specs[next].bytes, TRUE))
         /\ decay_write_cursor' = offset + specs[next].bytes
  /\ next' = next + 1
  /\ UNCHANGED <<specs, alignment, stage, decay_cursor, decay_bytes,
                 no_decay_write_cursor, total_bytes, measured>>

PlaceOther ==
  /\ stage = "place"
  /\ next <= Len(specs)
  /\ ~specs[next].apply_weight_decay
  /\ LET offset == AlignUp(no_decay_write_cursor, alignment)
     IN  /\ slices' = Append(slices, Slice(offset, specs[next].bytes, FALSE))
         /\ no_decay_write_cursor' = offset + specs[next].bytes
  /\ next' = next + 1
  /\ UNCHANGED <<specs, alignment, stage, decay_cursor, decay_bytes,
                 decay_write_cursor, total_bytes, measured>>

FinishPlace ==
  /\ stage = "place"
  /\ next = Len(specs) + 1
  /\ total_bytes' = AlignUp(no_decay_write_cursor, alignment)
  /\ stage' = "done"
  /\ UNCHANGED <<specs, alignment, next, cursors, slices, measured>>

Next == Measure \/ FinishMeasure \/ PlaceDecayed \/ PlaceOther \/ FinishPlace
Spec == Init /\ [][Next]_vars

-----------------------------------------------------------------------------
(* Properties *)

TypeOK ==
  /\ specs \in Seq(ParamSliceSpec)
  /\ alignment \in Nat \ {0}
  /\ stage \in {"measure", "place", "done"}
  /\ next \in 1..(Len(specs) + 1)
  /\ decay_cursor \in Nat
  /\ decay_bytes \in Nat
  /\ decay_write_cursor \in Nat
  /\ no_decay_write_cursor \in Nat
  /\ slices \in Seq(LayoutSlice)
  /\ total_bytes \in Nat
  /\ measured \in Seq(Nat)

(* No two slices share a byte, whichever zone they are in: the two loops   *)
(* agree on how far the first zone goes.                                   *)
SlicesApart ==
  \A i, j \in 1..Len(slices) :
    i < j => \/ End(slices[i]) <= slices[j].offset
             \/ End(slices[j]) <= slices[i].offset

(* The views the optimizer steps over, zone_view, are the bytes before and *)
(* from decay_bytes on.  A slice lies in the one its flag says, so weight  *)
(* decay touches all of the parameters meant and none of the others, and   *)
(* nothing lies outside the arena.                                         *)
SlicesInZone ==
  \A i \in 1..Len(slices) :
    LET s == slices[i]
    IN  /\ s.decay <=> specs[i].apply_weight_decay
        /\ s.decay => End(s) <= decay_bytes
        /\ ~s.decay => decay_bytes <= s.offset
        /\ stage = "done" => End(s) <= total_bytes

(* Kernels and cuBLAS are given aligned pointers, and both zones split     *)
(* into whole elements: every slice and every zone starts on a multiple.   *)
AllAligned ==
  /\ \A i \in 1..Len(slices) : slices[i].offset % alignment = 0
  /\ decay_bytes % alignment = 0
  /\ total_bytes % alignment = 0
=============================================================================
