-------------------------- MODULE MCTrainingProfile -------------------------
(* Runs of one to three batches per step whose window opens at once, after *)
(* some batches, in a later epoch or never, and closes inside an epoch,    *)
(* after an evaluation, or not at all; pools that suffice and that do not. *)
(* Two runs of three epochs evaluate after every other epoch of the plan.  *)
EXTENDS TrainingProfile

MCWorkOf ==
  [fill_batch |-> <<"CopyHostToDevice">>, embedding |-> <<"EmbeddingLookup">>,
   layer |-> <<"Add">>, attention |-> <<"GemmBatched">>, ffn |-> <<"Gemm">>,
   head |-> <<"Gemm">>, loss |-> <<"CrossEntropyMeanBackwardInplace">>,
   zero |-> <<"Fill">>, sum |-> <<"AddInplace">>, mean |-> <<"MulScalar">>,
   step |-> <<"AdamwStep", "AdamwStep">>, evaluate |-> <<"ReadScalarF32">>,
   save |-> <<"CopyDeviceToHost", "CopyDeviceToHost">>,
   restore |-> <<"CopyHostToDevice">>]

Run(per_step, batches, held_out, epochs, skip, requested, device) ==
  [per_step |-> per_step, batches |-> batches, held_out |-> held_out,
   trained |-> 0, epochs |-> epochs, validation_every |-> 1,
   profile_backend_ops |-> TRUE, skip |-> skip, requested |-> requested,
   device |-> device]

MCRuns ==
  {Run(p, b, h, e, s, r, d) :
     p \in {1, 2}, b \in {3}, h \in {0, 1}, e \in {1, 2}, s \in {0, 1, 4},
     r \in {1, 3}, d \in {"CUDA", "CPU"}}
    \cup {Run(3, 3, 2, 2, 1, 1, d) : d \in {"CUDA", "CPU"}}
    \cup {Run(1, 1, 1, 0, 0, 1, "CUDA"), Run(1, 1, 1, 1, 0, 0, "CPU"),
          Run(1, 1, 1, 1, 0, 5, "CUDA")}
    \cup {[Run(2, 3, 1, 2, 0, 1, "CPU") EXCEPT !.profile_backend_ops = FALSE]}
    \cup {[Run(1, 1, 2, 3, 0, 2, "CPU") EXCEPT !.trained = t, !.validation_every = 2] :
             t \in {0, 1}}
=============================================================================
