---------------------------- MODULE MCTrainEpochs ---------------------------
(***************************************************************************)
(* Corpora of 9 to 16 tokens whose training side has at most four windows, *)
(* so that every permutation of them is tried; chunks that do and do not   *)
(* divide the corpus, overlapping and spaced windows, steps of one, two    *)
(* and three batches with and without a shorter last one.  FloorConfigs    *)
(* decays the learning rate to zero.                                       *)
(***************************************************************************)
EXTENDS TrainEpochs

Geometry(tokens, num, den, chunk, seq, stride, batch) ==
  [tokens |-> tokens, num |-> num, den |-> den, chunk |-> chunk,
   seq |-> seq, stride |-> stride, batch |-> batch]

Constant == [cosine |-> FALSE, warmup |-> 0, floor_num |-> 1, floor_den |-> 10]
Cosine(warmup, floor) ==
  [cosine |-> TRUE, warmup |-> warmup, floor_num |-> floor, floor_den |-> 10]

Config(g, per_step, every, epochs, schedule) ==
  [geo |-> g, per_step |-> per_step, every |-> every, epochs |-> epochs,
   schedule |-> schedule]

FloorConfigs == {Config(Geometry(9, 0, 1, 4, 2, 2, 2), 1, 1, 2, Cosine(1, 0))}

PassConfigs ==
  FloorConfigs \cup
  {Config(Geometry(16, 1, 2, 4, 2, 1, 1), 3, 1, 2, Cosine(2, 1)),
   Config(Geometry(15, 2, 5, 4, 2, 2, 1), 2, 2, 3, Cosine(0, 5)),
   Config(Geometry(9, 0, 1, 4, 2, 2, 2), 1, 1, 3, Cosine(9, 1)),
   Config(Geometry(14, 1, 2, 5, 2, 1, 2), 2, 1, 2, Constant)}
=============================================================================
