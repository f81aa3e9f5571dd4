--------------------------- MODULE DurableProgress --------------------------
(***************************************************************************)
(* What training with checkpoints promises, whatever interrupts it: a      *)
(* launch continues either exactly the work that was kept or new work of   *)
(* its own, in one indivisible step; what is kept is only ever replaced by *)
(* the work at hand, and what is released for inference only ever by what  *)
(* was just kept.  Since files are replaced in place, either of them may   *)
(* be lost, but only while a launch is saving.                             *)
(***************************************************************************)
EXTENDS Integers

CONSTANT Nothing   \* no work: not running, or nothing usable on disk

VARIABLES
  phase,     \* idle, restoring, training or saving
  launches,  \* launches so far
  work,      \* what the running launch has achieved
  kept,      \* what the next launch can continue
  released   \* the work of the best model

vars == <<phase, launches, work, kept, released>>

(* Work is known by the launch that began it and the epochs it has had. *)
Work == [lineage : Nat, epochs : Nat]

NewWork == [lineage |-> launches, epochs |-> 0]

Init ==
  /\ phase = "idle"
  /\ launches = 0
  /\ work = Nothing
  /\ kept = Nothing
  /\ released = Nothing

Launch ==
  /\ phase = "idle"
  /\ phase' = "restoring"
  /\ launches' = launches + 1
  /\ UNCHANGED <<work, kept, released>>

Restore ==
  /\ phase = "restoring"
  /\ phase' = "training"
  /\ work' = NewWork \/ (kept # Nothing /\ work' = kept)
  /\ UNCHANGED <<launches, kept, released>>

Train ==
  /\ phase = "training"
  /\ phase' \in {"training", "saving"}
  /\ work' = [work EXCEPT !.epochs = @ + 1]
  /\ UNCHANGED <<launches, kept, released>>

Keep ==
  /\ phase = "saving"
  /\ kept' = work
  /\ UNCHANGED <<phase, launches, work, released>>

Release ==
  /\ phase = "saving"
  /\ kept = work
  /\ released' = kept
  /\ UNCHANGED <<phase, launches, work, kept>>

(* Saving ends, well or badly. *)
Proceed ==
  /\ phase = "saving"
  /\ phase' = "training"
  /\ kept' \in {kept, Nothing}
  /\ released' \in {released, Nothing}
  /\ UNCHANGED <<launches, work>>

(* A short write that goes unnoticed. *)
Lose ==
  /\ phase = "saving"
  /\ kept' \in {kept, Nothing}
  /\ released' \in {released, Nothing}
  /\ UNCHANGED <<phase, launches, work>>

(* The launch ends or is killed. *)
Stop ==
  /\ phase # "idle"
  /\ phase' = "idle"
  /\ work' = Nothing
  /\ kept' = kept \/ (phase = "saving" /\ kept' = Nothing)
  /\ released' = released \/ (phase = "saving" /\ released' = Nothing)
  /\ UNCHANGED launches

Next == Launch \/ Restore \/ Train \/ Keep \/ Release \/ Proceed \/ Lose \/ Stop

Spec == Init /\ [][Next]_vars
=============================================================================
