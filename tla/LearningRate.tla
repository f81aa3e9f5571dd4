---------------------------- MODULE LearningRate ----------------------------
(***************************************************************************)
(* LearningRateSchedule::at in integers.  The peak is 1; a rate is given   *)
(* in units of 1 / Scale.  The cosine only matters through its being       *)
(* strictly decreasing over the decay, 1 at its start and 0 at its end, so *)
(* the straight line stands for it.                                        *)
(***************************************************************************)
EXTENDS Integers

(* cosine: lr_schedule = "cosine"; floor_num / floor_den: min_lr_ratio. *)
Schedules ==
  {s \in [cosine : BOOLEAN, warmup : Nat, floor_num : Nat, floor_den : Nat \ {0}] :
     s.floor_num <= s.floor_den}

AtLeastOne(n) == IF n > 0 THEN n ELSE 1

DecaySteps(s, total) == AtLeastOne(total - s.warmup)
Scale(s, total) == AtLeastOne(s.warmup) * DecaySteps(s, total) * s.floor_den

(* The rate of the step that follows "completed" optimizer steps: linear   *)
(* warmup to the peak, then the decay to the floor, which it keeps.        *)
Rate(s, total, completed) ==
  LET step == completed + 1
      decayed == IF step - s.warmup <= DecaySteps(s, total)
                 THEN step - s.warmup ELSE DecaySteps(s, total)
  IN  CASE ~s.cosine -> Scale(s, total)
        [] s.cosine /\ step <= s.warmup -> step * DecaySteps(s, total) * s.floor_den
        [] s.cosine /\ step > s.warmup /\ total <= s.warmup -> Scale(s, total)
        [] s.cosine /\ step > s.warmup /\ total > s.warmup ->
             AtLeastOne(s.warmup)
               * (s.floor_num * DecaySteps(s, total)
                    + (s.floor_den - s.floor_num) * (DecaySteps(s, total) - decayed))
=============================================================================
