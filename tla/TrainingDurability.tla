------------------------- MODULE TrainingDurability -------------------------
(***************************************************************************)
(* TrainingSession implements DurableProgress: the many steps of loading a *)
(* checkpoint, and of writing one, amount to one indivisible Restore, Keep *)
(* and Release, whatever crashes and fails in between.                     *)
(***************************************************************************)
EXTENDS TrainingSession

CONSTANT Nothing

ASSUME DurabilityAssumption == Nothing \notin [lineage : Nat, epochs : Nat]

PhaseOf(s) ==
  CASE s = "down" -> "idle"
    [] s \in LoadStages \cup {"fresh", "sync"} -> "restoring"
    [] s \in {"epoch", "decide", "ending"} -> "training"
    [] s \in SaveStages \cup CopyStages -> "saving"

WorkInMemory ==
  IF stage \in TrainingStages
  THEN [lineage |-> params.lineage, epochs |-> pos.epoch]
  ELSE Nothing

WorkOnDisk(slot) ==
  IF Whole(slot.payload)
  THEN [lineage |-> slot.payload.params.lineage, epochs |-> slot.payload.epoch]
  ELSE Nothing

Progress == INSTANCE DurableProgress WITH
  phase <- PhaseOf(stage),
  launches <- run,
  work <- WorkInMemory,
  kept <- WorkOnDisk(latest),
  released <- WorkOnDisk(best)

(* Every behaviour of the training session, with its crashes, truncated    *)
(* files, refused and half-finished loads, is one that DurableProgress     *)
(* allows: a launch never continues a mixture of old and new state, and    *)
(* no file ever holds work other than what was at hand when it was saved.  *)
KeepsProgress == Progress!Spec
=============================================================================
