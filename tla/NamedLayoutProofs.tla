-------------------------- MODULE NamedLayoutProofs --------------------------
(***************************************************************************)
(* Slices do not overlap and lie in their zone, for every list of slices   *)
(* and every alignment.  The first zone is as large as the measuring loop  *)
(* found it; what has to be shown is that the placing loop, interrupted by *)
(* slices of the other zone, follows the measured cursor step by step.     *)
(***************************************************************************)
EXTENDS NamedLayout, TLAPS

Before(j) == IF j = 1 THEN 0 ELSE measured[j - 1]

(* What the measuring loop leaves behind for the placing loop to retrace.  *)
MeasuredInv ==
  /\ \A j \in 1..Len(measured) :
       measured[j] = IF specs[j].apply_weight_decay
                     THEN AlignUp(Before(j), alignment) + specs[j].bytes
                     ELSE Before(j)
  /\ stage = "measure" =>
       /\ Len(measured) = next - 1
       /\ decay_cursor = Before(next)
       /\ \A j \in 1..Len(measured) : measured[j] <= decay_cursor
  /\ stage # "measure" =>
       /\ Len(measured) = Len(specs)
       /\ \A j \in 1..Len(measured) : measured[j] <= decay_bytes

CursorsInv ==
  /\ stage = "measure" => slices = <<>> /\ decay_write_cursor = 0
  /\ stage = "place" =>
       /\ Len(slices) = next - 1
       /\ decay_write_cursor = Before(next)
  /\ stage = "done" =>
       /\ Len(slices) = Len(specs)
       /\ no_decay_write_cursor <= total_bytes
  /\ stage # "measure" =>
       /\ decay_write_cursor <= decay_bytes
       /\ decay_bytes <= no_decay_write_cursor

SlicesInv ==
  \A i \in 1..Len(slices) :
    LET s == slices[i]
    IN  /\ s.decay <=> specs[i].apply_weight_decay
        /\ s.decay => End(s) <= decay_write_cursor
        /\ ~s.decay => decay_bytes <= s.offset /\ End(s) <= no_decay_write_cursor

LayoutInv == TypeOK /\ MeasuredInv /\ CursorsInv /\ SlicesInv /\ SlicesApart

-----------------------------------------------------------------------------

(* Rounding up gives a natural number not below the one rounded.           *)
LEMMA AlignUpType ==
  ASSUME NEW v \in Nat, NEW a \in Nat \ {0}
  PROVE  AlignUp(v, a) \in Nat /\ v <= AlignUp(v, a)
<1>1. v % a \in 0..(a - 1)
  OBVIOUS
<1> QED BY <1>1 DEF AlignUp

(* The slice a loop is at has a size and a flag. *)
LEMMA NextSpecType ==
  ASSUME LayoutInv, next <= Len(specs)
  PROVE  /\ next \in 1..Len(specs)
         /\ specs[next].bytes \in Nat
         /\ specs[next].apply_weight_decay \in BOOLEAN
<1>1. specs \in Seq(ParamSliceSpec) /\ next \in 1..Len(specs)
  BY DEF LayoutInv, TypeOK
<1>2. specs[next] \in ParamSliceSpec
  BY <1>1
<1> QED BY <1>1, <1>2 DEF ParamSliceSpec

(* A slice that was placed has a natural offset and end. *)
LEMMA SliceType ==
  ASSUME LayoutInv, NEW i \in 1..Len(slices)
  PROVE  /\ slices[i].offset \in Nat
         /\ End(slices[i]) \in Nat
         /\ slices[i].decay \in BOOLEAN
<1>1. slices[i] \in LayoutSlice
  BY DEF LayoutInv, TypeOK
<1> QED BY <1>1 DEF LayoutSlice, End

(* A slice apart from all of those before it may be appended. *)
LEMMA ApartAppend ==
  ASSUME LayoutInv, NEW new, next \in Nat \ {0},
         Len(slices) = next - 1, Len(slices') = next, slices'[next] = new,
         \A j \in 1..(next - 1) : slices'[j] = slices[j],
         \A i \in 1..(next - 1) :
           End(slices[i]) <= new.offset \/ End(new) <= slices[i].offset
  PROVE  SlicesApart'
<1> SUFFICES ASSUME NEW i \in 1..next, NEW j \in 1..next, i < j
             PROVE  \/ End(slices'[i]) <= slices'[j].offset
                    \/ End(slices'[j]) <= slices'[i].offset
  BY DEF SlicesApart, End
<1>1. CASE j = next
  BY <1>1
<1>2. CASE j < next
  BY <1>2 DEF LayoutInv, SlicesApart
<1> QED BY <1>1, <1>2

(* Before any slice is measured, nothing is placed.                        *)
LEMMA LayoutInit == Init => LayoutInv
<1> SUFFICES ASSUME Init PROVE LayoutInv
  OBVIOUS
<1>1. TypeOK
  BY LayoutAssumption DEF Init, TypeOK
<1>2. MeasuredInv /\ CursorsInv /\ SlicesInv /\ SlicesApart
  BY DEF Init, MeasuredInv, CursorsInv, SlicesInv, SlicesApart, Before
<1> QED BY <1>1, <1>2 DEF LayoutInv

(* A turn of the measuring loop. *)
LEMMA MeasureStep == LayoutInv /\ Measure => LayoutInv'
<1> SUFFICES ASSUME LayoutInv, Measure PROVE LayoutInv'
  OBVIOUS
<1> USE DEF LayoutInv
<1>0. next \in 1..Len(specs) /\ specs[next].bytes \in Nat
  BY NextSpecType DEF Measure
<1>1. decay_cursor' \in Nat /\ decay_cursor <= decay_cursor'
  <2>1. /\ AlignUp(decay_cursor, alignment) \in Nat
        /\ decay_cursor <= AlignUp(decay_cursor, alignment)
    BY AlignUpType DEF TypeOK
  <2>2. CASE specs[next].apply_weight_decay
    BY <2>1, <2>2, <1>0 DEF TypeOK, Measure
  <2>3. CASE ~specs[next].apply_weight_decay
    BY <2>3 DEF TypeOK, Measure
  <2> QED BY <2>2, <2>3
<1>2. TypeOK'
  BY <1>0, <1>1 DEF TypeOK, Measure
<1>3. /\ Len(measured') = next /\ measured'[next] = decay_cursor'
      /\ \A j \in 1..(next - 1) : measured'[j] = measured[j]
  BY <1>0, <1>1 DEF TypeOK, Measure, MeasuredInv
<1>4. \A j \in 1..next : Before(j)' = Before(j)
  BY <1>0, <1>3 DEF Before
<1>5. MeasuredInv'
  <2>1. \A j \in 1..Len(measured') :
          measured'[j] = IF specs'[j].apply_weight_decay
                         THEN AlignUp(Before(j)', alignment') + specs'[j].bytes
                         ELSE Before(j)'
    BY <1>0, <1>3, <1>4 DEF Measure, MeasuredInv, TypeOK
  <2>2. decay_cursor' = Before(next)'
    BY <1>0, <1>3 DEF Before, Measure
  <2>3. \A j \in 1..Len(measured') : measured'[j] <= decay_cursor'
    <3> SUFFICES ASSUME NEW j \in 1..Len(measured') PROVE measured'[j] <= decay_cursor'
      OBVIOUS
    <3>1. CASE j = next
      BY <3>1, <1>1, <1>3
    <3>2. CASE j < next
      <4>1. j \in 1..Len(measured) /\ measured[j] \in Nat /\ measured[j] <= decay_cursor
        BY <3>2, <1>0 DEF MeasuredInv, Measure, TypeOK
      <4>2. measured'[j] = measured[j]
        BY <3>2, <1>0, <1>3
      <4> QED BY <4>1, <4>2, <1>1 DEF TypeOK
    <3> QED BY <3>1, <3>2, <1>0, <1>3
  <2> QED BY <2>1, <2>2, <2>3, <1>0, <1>3 DEF MeasuredInv, Measure, Before
<1>6. CursorsInv' /\ SlicesInv' /\ SlicesApart'
  BY DEF CursorsInv, SlicesInv, SlicesApart, Measure
<1> QED BY <1>2, <1>5, <1>6

(* The first zone is closed at the rounded cursor.                         *)
LEMMA FinishMeasureStep == LayoutInv /\ FinishMeasure => LayoutInv'
<1> SUFFICES ASSUME LayoutInv, FinishMeasure PROVE LayoutInv'
  OBVIOUS
<1> USE DEF LayoutInv
<1>1. decay_bytes' \in Nat /\ decay_cursor <= decay_bytes'
  BY AlignUpType DEF TypeOK, FinishMeasure
<1>2. TypeOK'
  BY <1>1 DEF TypeOK, FinishMeasure
<1>3. MeasuredInv'
  <2>1. \A j \in 1..Len(measured) : measured[j] <= decay_bytes'
    <3> SUFFICES ASSUME NEW j \in 1..Len(measured) PROVE measured[j] <= decay_bytes'
      OBVIOUS
    <3>1. measured[j] \in Nat /\ measured[j] <= decay_cursor
      BY DEF MeasuredInv, FinishMeasure, TypeOK
    <3> QED BY <3>1, <1>1 DEF TypeOK
  <2>2. Len(measured) = Len(specs)
    BY DEF MeasuredInv, FinishMeasure, TypeOK
  <2> QED BY <2>1, <2>2 DEF MeasuredInv, FinishMeasure, Before
<1>4. slices = <<>> /\ decay_write_cursor = 0
  BY DEF CursorsInv, FinishMeasure
<1>5. CursorsInv'
  BY <1>1, <1>4 DEF CursorsInv, FinishMeasure, Before
<1>6. SlicesInv' /\ SlicesApart'
  BY <1>4 DEF SlicesInv, SlicesApart, FinishMeasure
<1> QED BY <1>2, <1>3, <1>5, <1>6

(* A slice of the first zone goes where it was measured. *)
LEMMA PlaceDecayedStep == LayoutInv /\ PlaceDecayed => LayoutInv'
<1> SUFFICES ASSUME LayoutInv, PlaceDecayed PROVE LayoutInv'
  OBVIOUS
<1> USE DEF LayoutInv
<1> DEFINE offset == AlignUp(decay_write_cursor, alignment)
           new == Slice(offset, specs[next].bytes, TRUE)
<1>0. /\ next \in 1..Len(specs) /\ specs[next].bytes \in Nat
      /\ specs[next].apply_weight_decay = TRUE
  BY NextSpecType DEF PlaceDecayed
<1>u. /\ stage = "place" /\ stage' = stage /\ next' = next + 1
      /\ specs' = specs /\ alignment' = alignment /\ measured' = measured
      /\ decay_cursor' = decay_cursor /\ decay_bytes' = decay_bytes
      /\ no_decay_write_cursor' = no_decay_write_cursor /\ total_bytes' = total_bytes
  BY DEF PlaceDecayed
<1>1. offset \in Nat /\ decay_write_cursor <= offset
  BY AlignUpType DEF TypeOK
<1>2. /\ new \in LayoutSlice
      /\ new.offset = offset /\ new.decay = TRUE
      /\ End(new) = offset + specs[next].bytes
      /\ slices' = Append(slices, new)
      /\ decay_write_cursor' = offset + specs[next].bytes
  BY <1>0, <1>1 DEF Slice, LayoutSlice, End, PlaceDecayed
<1> HIDE DEF offset, new
<1>3. TypeOK'
  <2>1. decay_write_cursor' \in Nat
    BY <1>0, <1>1, <1>2
  <2>2. slices' \in Seq(LayoutSlice)
    BY <1>2 DEF TypeOK
  <2> QED BY <2>1, <2>2, <1>0, <1>u DEF TypeOK
<1>4. /\ Len(slices) = next - 1 /\ Len(slices') = next /\ slices'[next] = new
      /\ \A j \in 1..(next - 1) : slices'[j] = slices[j]
  <2>1. Len(slices) = next - 1
    BY <1>u DEF CursorsInv
  <2>2. slices \in Seq(LayoutSlice)
    BY DEF TypeOK
  <2> QED BY <2>1, <2>2, <1>0, <1>2
<1>5. MeasuredInv'
  BY <1>u DEF MeasuredInv, Before
<1>6. Len(measured) = Len(specs) /\ measured[next] \in Nat /\ measured[next] <= decay_bytes
  BY <1>0, <1>u DEF MeasuredInv, TypeOK
<1>7. decay_write_cursor' = measured[next]
  <2>1. measured[next] = AlignUp(Before(next), alignment) + specs[next].bytes
    BY <1>0, <1>6, <1>u DEF MeasuredInv
  <2>2. decay_write_cursor = Before(next)
    BY <1>u DEF CursorsInv
  <2> QED BY <2>1, <2>2, <1>2 DEF offset
<1>8. CursorsInv'
  <2>1. decay_write_cursor' = Before(next)'
    BY <1>0, <1>7, <1>u DEF Before
  <2> QED BY <2>1, <1>4, <1>6, <1>7, <1>0, <1>u DEF CursorsInv
<1>9. /\ End(new) = decay_write_cursor' /\ End(new) <= decay_bytes
      /\ decay_write_cursor <= decay_write_cursor'
  BY <1>0, <1>1, <1>2, <1>6, <1>7, <1>u DEF TypeOK
<1>10. SlicesInv'
  <2> SUFFICES ASSUME NEW i \in 1..Len(slices')
               PROVE  /\ slices'[i].decay <=> specs[i].apply_weight_decay
                      /\ slices'[i].decay => End(slices'[i]) <= decay_write_cursor'
                      /\ ~slices'[i].decay => /\ decay_bytes <= slices'[i].offset
                                              /\ End(slices'[i]) <= no_decay_write_cursor
    BY <1>u DEF SlicesInv, End
  <2>1. CASE i = next
    <3>1. slices'[i] = new
      BY <2>1, <1>4
    <3>2. new.decay /\ specs[next].apply_weight_decay
      BY <1>0, <1>2
    <3>3. End(new) <= decay_write_cursor'
      BY <1>0, <1>1, <1>2, <1>9
    <3> QED BY <2>1, <3>1, <3>2, <3>3, Zenon
  <2>2. CASE i < next
    <3>1. i \in 1..Len(slices) /\ slices'[i] = slices[i]
      BY <2>2, <1>4, <1>0
    <3>2. /\ slices[i].decay <=> specs[i].apply_weight_decay
          /\ slices[i].decay => End(slices[i]) <= decay_write_cursor
          /\ ~slices[i].decay => /\ decay_bytes <= slices[i].offset
                                 /\ End(slices[i]) <= no_decay_write_cursor
      BY <3>1 DEF SlicesInv
    <3>3. End(slices[i]) \in Nat /\ slices[i].decay \in BOOLEAN
      BY <3>1, SliceType
    <3>4. slices[i].decay => End(slices[i]) <= decay_write_cursor'
      <4>1. decay_write_cursor \in Nat /\ decay_write_cursor' \in Nat
        BY <1>3 DEF TypeOK
      <4>2. CASE slices[i].decay
        BY <4>1, <4>2, <3>2, <3>3, <1>9
      <4> QED BY <4>2
    <3> QED BY <3>1, <3>2, <3>4, Zenon
  <2> QED BY <2>1, <2>2, <1>0, <1>4
<1>11. SlicesApart'
  <2>1. \A i \in 1..(next - 1) :
          End(slices[i]) <= new.offset \/ End(new) <= slices[i].offset
    <3> SUFFICES ASSUME NEW i \in 1..(next - 1)
                 PROVE  End(slices[i]) <= new.offset \/ End(new) <= slices[i].offset
      OBVIOUS
    <3>1. /\ i \in 1..Len(slices) /\ End(slices[i]) \in Nat
          /\ slices[i].offset \in Nat /\ slices[i].decay \in BOOLEAN
      BY <1>4, SliceType
    <3>2. CASE slices[i].decay
      BY <3>1, <3>2, <1>1, <1>2 DEF SlicesInv, TypeOK
    <3>3. CASE ~slices[i].decay
      <4>1. decay_bytes <= slices[i].offset
        BY <3>1, <3>3 DEF SlicesInv
      <4>2. End(new) \in Nat /\ End(new) <= decay_bytes
        BY <1>0, <1>1, <1>2, <1>9
      <4> QED BY <4>1, <4>2, <3>1 DEF TypeOK
    <3> QED BY <3>2, <3>3
  <2> QED BY <2>1, <1>4, ApartAppend
<1> QED BY <1>3, <1>5, <1>8, <1>10, <1>11

(* A slice of the second zone goes after what that zone holds. *)
LEMMA PlaceOtherStep == LayoutInv /\ PlaceOther => LayoutInv'
<1> SUFFICES ASSUME LayoutInv, PlaceOther PROVE LayoutInv'
  OBVIOUS
<1> USE DEF LayoutInv
<1> DEFINE offset == AlignUp(no_decay_write_cursor, alignment)
           new == Slice(offset, specs[next].bytes, FALSE)
<1>0. /\ next \in 1..Len(specs) /\ specs[next].bytes \in Nat
      /\ specs[next].apply_weight_decay = FALSE
  BY NextSpecType DEF PlaceOther
<1>u. /\ stage = "place" /\ stage' = stage /\ next' = next + 1
      /\ specs' = specs /\ alignment' = alignment /\ measured' = measured
      /\ decay_cursor' = decay_cursor /\ decay_bytes' = decay_bytes
      /\ decay_write_cursor' = decay_write_cursor /\ total_bytes' = total_bytes
  BY DEF PlaceOther
<1>1. offset \in Nat /\ no_decay_write_cursor <= offset
  BY AlignUpType DEF TypeOK
<1>2. /\ new \in LayoutSlice
      /\ new.offset = offset /\ new.decay = FALSE
      /\ End(new) = offset + specs[next].bytes
      /\ slices' = Append(slices, new)
      /\ no_decay_write_cursor' = offset + specs[next].bytes
  BY <1>0, <1>1 DEF Slice, LayoutSlice, End, PlaceOther
<1> HIDE DEF offset, new
<1>3. TypeOK'
  <2>1. no_decay_write_cursor' \in Nat
    BY <1>0, <1>1, <1>2
  <2>2. slices' \in Seq(LayoutSlice)
    BY <1>2 DEF TypeOK
  <2> QED BY <2>1, <2>2, <1>0, <1>u DEF TypeOK
<1>4. /\ Len(slices) = next - 1 /\ Len(slices') = next /\ slices'[next] = new
      /\ \A j \in 1..(next - 1) : slices'[j] = slices[j]
  <2>1. Len(slices) = next - 1
    BY <1>u DEF CursorsInv
  <2>2. slices \in Seq(LayoutSlice)
    BY DEF TypeOK
  <2> QED BY <2>1, <2>2, <1>0, <1>2
<1>5. MeasuredInv'
  BY <1>u DEF MeasuredInv, Before
<1>6. /\ decay_bytes <= no_decay_write_cursor
      /\ End(new) = no_decay_write_cursor'
      /\ no_decay_write_cursor <= no_decay_write_cursor'
      /\ decay_write_cursor <= decay_bytes
  BY <1>0, <1>1, <1>2, <1>u DEF TypeOK, CursorsInv
<1>7. Before(next)' = Before(next)
  <2>1. measured[next] = Before(next)
    BY <1>0, <1>u DEF MeasuredInv, TypeOK
  <2> QED BY <2>1, <1>0, <1>u DEF Before
<1>8. CursorsInv'
  BY <1>0, <1>3, <1>4, <1>6, <1>7, <1>u DEF CursorsInv, TypeOK
<1>9. SlicesInv'
  <2> SUFFICES ASSUME NEW i \in 1..Len(slices')
               PROVE  /\ slices'[i].decay <=> specs[i].apply_weight_decay
                      /\ slices'[i].decay => End(slices'[i]) <= decay_write_cursor
                      /\ ~slices'[i].decay => /\ decay_bytes <= slices'[i].offset
                                              /\ End(slices'[i]) <= no_decay_write_cursor'
    BY <1>u DEF SlicesInv, End
  <2>1. CASE i = next
    <3>1. slices'[i] = new
      BY <2>1, <1>4
    <3>2. ~new.decay /\ ~specs[next].apply_weight_decay
      BY <1>0, <1>2
    <3>3. decay_bytes <= new.offset /\ End(new) <= no_decay_write_cursor'
      BY <1>0, <1>1, <1>2, <1>6 DEF TypeOK
    <3> QED BY <2>1, <3>1, <3>2, <3>3, Zenon
  <2>2. CASE i < next
    <3>1. i \in 1..Len(slices) /\ slices'[i] = slices[i]
      BY <2>2, <1>4, <1>0
    <3>2. /\ slices[i].decay <=> specs[i].apply_weight_decay
          /\ slices[i].decay => End(slices[i]) <= decay_write_cursor
          /\ ~slices[i].decay => /\ decay_bytes <= slices[i].offset
                                 /\ End(slices[i]) <= no_decay_write_cursor
      BY <3>1 DEF SlicesInv
    <3>3. End(slices[i]) \in Nat /\ slices[i].decay \in BOOLEAN
      BY <3>1, SliceType
    <3>4. ~slices[i].decay => End(slices[i]) <= no_decay_write_cursor'
      <4>1. no_decay_write_cursor \in Nat /\ no_decay_write_cursor' \in Nat
        BY <1>3 DEF TypeOK
      <4>2. CASE ~slices[i].decay
        BY <4>1, <4>2, <3>2, <3>3, <1>6
      <4> QED BY <4>2
    <3> QED BY <3>1, <3>2, <3>4, Zenon
  <2> QED BY <2>1, <2>2, <1>0, <1>4
<1>10. SlicesApart'
  <2>1. \A i \in 1..(next - 1) :
          End(slices[i]) <= new.offset \/ End(new) <= slices[i].offset
    <3> SUFFICES ASSUME NEW i \in 1..(next - 1) PROVE End(slices[i]) <= new.offset
      OBVIOUS
    <3>1. i \in 1..Len(slices) /\ End(slices[i]) \in Nat
      BY <1>4, SliceType
    <3>2. End(slices[i]) <= no_decay_write_cursor
      BY <3>1, <1>6 DEF SlicesInv, TypeOK
    <3> QED BY <3>1, <3>2, <1>1, <1>2 DEF TypeOK
  <2> QED BY <2>1, <1>4, ApartAppend
<1> QED BY <1>3, <1>5, <1>8, <1>9, <1>10

(* The arena ends after the second zone. *)
LEMMA FinishPlaceStep == LayoutInv /\ FinishPlace => LayoutInv'
<1> SUFFICES ASSUME LayoutInv, FinishPlace PROVE LayoutInv'
  OBVIOUS
<1> USE DEF LayoutInv
<1>1. total_bytes' \in Nat /\ no_decay_write_cursor <= total_bytes'
  BY AlignUpType DEF TypeOK, FinishPlace
<1>2. TypeOK'
  BY <1>1 DEF TypeOK, FinishPlace, cursors
<1>3. MeasuredInv'
  BY DEF MeasuredInv, FinishPlace, cursors, Before
<1>4. CursorsInv'
  BY <1>1 DEF CursorsInv, FinishPlace, cursors, TypeOK
<1>5. SlicesInv' /\ SlicesApart'
  BY DEF SlicesInv, SlicesApart, FinishPlace, cursors, End
<1> QED BY <1>2, <1>3, <1>4, <1>5

-----------------------------------------------------------------------------

(* The inductive invariant holds throughout. *)
THEOREM LayoutInvariant == Spec => []LayoutInv
<1>1. LayoutInv /\ [Next]_vars => LayoutInv'
  <2> SUFFICES ASSUME LayoutInv, [Next]_vars PROVE LayoutInv'
    OBVIOUS
  <2>1. CASE UNCHANGED vars
    BY <2>1 DEF vars, cursors, LayoutInv, TypeOK, MeasuredInv, CursorsInv, SlicesInv,
                SlicesApart, Before, End
  <2>2. CASE Next
    BY <2>2, MeasureStep, FinishMeasureStep, PlaceDecayedStep, PlaceOtherStep,
       FinishPlaceStep DEF Next
  <2> QED BY <2>1, <2>2
<1> QED BY LayoutInit, <1>1, PTL DEF Spec

(* Slices never share a byte: the two loops of build_param_layout agree.   *)
THEOREM SlicesStayApart == Spec => []SlicesApart
<1>1. LayoutInv => SlicesApart
  BY DEF LayoutInv
<1> QED BY <1>1, LayoutInvariant, PTL

(* Every slice lies in the zone its flag names, and inside the arena.      *)
THEOREM SlicesStayInZone == Spec => []SlicesInZone
<1>1. LayoutInv => SlicesInZone
  <2> SUFFICES ASSUME LayoutInv, NEW i \in 1..Len(slices)
               PROVE  /\ slices[i].decay <=> specs[i].apply_weight_decay
                      /\ slices[i].decay => End(slices[i]) <= decay_bytes
                      /\ ~slices[i].decay => decay_bytes <= slices[i].offset
                      /\ stage = "done" => End(slices[i]) <= total_bytes
    BY DEF SlicesInZone
  <2>1. End(slices[i]) \in Nat
    BY SliceType
  <2>2. /\ slices[i].decay <=> specs[i].apply_weight_decay
        /\ slices[i].decay => End(slices[i]) <= decay_write_cursor
        /\ ~slices[i].decay => /\ decay_bytes <= slices[i].offset
                               /\ End(slices[i]) <= no_decay_write_cursor
    BY DEF LayoutInv, SlicesInv
  <2>3. /\ decay_write_cursor <= decay_bytes
        /\ stage = "done" => decay_bytes <= total_bytes /\ no_decay_write_cursor <= total_bytes
    BY DEF LayoutInv, CursorsInv, TypeOK
  <2> QED BY <2>1, <2>2, <2>3 DEF LayoutInv, TypeOK
<1> QED BY <1>1, LayoutInvariant, PTL

-----------------------------------------------------------------------------

(* Rounding up gives a multiple of the alignment. *)
LEMMA AlignUpMultiple ==
  ASSUME NEW v \in Nat, NEW a \in Nat \ {0}
  PROVE  AlignUp(v, a) % a = 0
<1>1. /\ v % a \in 0..(a - 1) /\ v \div a \in Nat
      /\ v = a * (v \div a) + (v % a)
  OBVIOUS
<1>2. \A q \in Nat : (a * q) % a = 0
  OBVIOUS
<1>3. CASE v % a # 0
  <2>1. AlignUp(v, a) = a * ((v \div a) + 1)
    BY <1>1, <1>3 DEF AlignUp
  <2> QED BY <1>1, <1>2, <2>1
<1> QED BY <1>3 DEF AlignUp

(* Appending an aligned slice keeps all slices aligned. *)
LEMMA AlignedAppend ==
  ASSUME LayoutInv, AllAligned, NEW new \in LayoutSlice, new.offset % alignment = 0,
         slices' = Append(slices, new), alignment' = alignment,
         decay_bytes' = decay_bytes, total_bytes' = total_bytes
  PROVE  AllAligned'
<1>1. slices \in Seq(LayoutSlice)
  BY DEF LayoutInv, TypeOK
<1>2. \A i \in 1..Len(slices') : slices'[i] = IF i = Len(slices) + 1 THEN new ELSE slices[i]
  BY <1>1
<1>3. \A i \in 1..Len(slices') : i = Len(slices) + 1 \/ i \in 1..Len(slices)
  BY <1>1
<1> QED BY <1>2, <1>3 DEF AllAligned

(* Nothing is ever placed off the alignment: each offset is a rounded      *)
(* cursor of the zone, wherever the other zone's slices come between.      *)
LEMMA AlignedStep == LayoutInv /\ AllAligned /\ [Next]_vars => AllAligned'
<1> SUFFICES ASSUME LayoutInv, AllAligned, [Next]_vars PROVE AllAligned'
  OBVIOUS
<1>0. /\ alignment \in Nat \ {0} /\ decay_cursor \in Nat
      /\ decay_write_cursor \in Nat /\ no_decay_write_cursor \in Nat
  BY DEF LayoutInv, TypeOK
<1>1. CASE Measure
  BY <1>1 DEF Measure, AllAligned
<1>2. CASE FinishMeasure
  BY <1>0, <1>2, AlignUpMultiple DEF FinishMeasure, AllAligned
<1>3. CASE PlaceDecayed
  <2> DEFINE new == Slice(AlignUp(decay_write_cursor, alignment), specs[next].bytes, TRUE)
  <2>1. next <= Len(specs)
    BY <1>3 DEF PlaceDecayed
  <2>2. new \in LayoutSlice /\ new.offset % alignment = 0
    BY <1>0, <2>1, NextSpecType, AlignUpType, AlignUpMultiple DEF Slice, LayoutSlice
  <2> QED BY <1>3, <2>2, AlignedAppend DEF PlaceDecayed
<1>4. CASE PlaceOther
  <2> DEFINE new == Slice(AlignUp(no_decay_write_cursor, alignment), specs[next].bytes, FALSE)
  <2>1. next <= Len(specs)
    BY <1>4 DEF PlaceOther
  <2>2. new \in LayoutSlice /\ new.offset % alignment = 0
    BY <1>0, <2>1, NextSpecType, AlignUpType, AlignUpMultiple DEF Slice, LayoutSlice
  <2> QED BY <1>4, <2>2, AlignedAppend DEF PlaceOther
<1>5. CASE FinishPlace
  BY <1>0, <1>5, AlignUpMultiple DEF FinishPlace, cursors, AllAligned
<1>6. CASE UNCHANGED vars
  BY <1>6 DEF vars, cursors, AllAligned
<1> QED BY <1>1, <1>2, <1>3, <1>4, <1>5, <1>6 DEF Next

(* Every slice and both zones start on a multiple of the alignment.        *)
THEOREM SlicesStayAligned == Spec => []AllAligned
<1>1. Init => AllAligned
  <2> SUFFICES ASSUME Init PROVE AllAligned
    OBVIOUS
  <2>1. alignment \in Nat \ {0}
    BY LayoutAssumption DEF Init
  <2>2. 0 % alignment = 0
    BY <2>1
  <2> QED BY <2>2 DEF Init, AllAligned
<1> QED BY <1>1, AlignedStep, LayoutInvariant, PTL DEF Spec
=============================================================================
