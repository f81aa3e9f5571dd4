---------------------------- MODULE DatasetSplit ----------------------------
(***************************************************************************)
(* How a tokenised corpus is divided: DatasetSplit holds out one chunk of  *)
(* tokens in every "group" for validation, TextDataset cuts each side into *)
(* windows of train_seq_len inputs and one more token for the target.      *)
(* A geometry is a record of the sizes involved; validation_fraction is    *)
(* the rational num / den.                                                 *)
(***************************************************************************)
EXTENDS Integers, FiniteSets

(* num_tokens, validation_fraction, validation_chunk_tokens,               *)
(* train_seq_len, window_stride, batch_size                                *)
Geometries ==
  [tokens : Nat, num : Nat, den : Nat \ {0}, chunk : Nat \ {0},
   seq : Nat \ {0}, stride : Nat \ {0}, batch : Nat \ {0}]

Lesser(a, b) == IF a < b THEN a ELSE b

(* The tokens a window reads: its inputs and the shifted target. *)
WindowTokens(g) == g.seq + 1

(* lround(1 / fraction): halves are rounded up. *)
Group(g) == (2 * g.den + g.num) \div (2 * g.num)

NumChunks(g) == (g.tokens + g.chunk - 1) \div g.chunk

(* Chunks group - 1, 2 * group - 1, ... *)
HeldOutChunks(g) ==
  IF g.num = 0 THEN {} ELSE {i \in 0..(NumChunks(g) - 1) : (i + 1) % Group(g) = 0}

ChunkRange(g, i) ==
  [begin |-> i * g.chunk, end |-> Lesser((i + 1) * g.chunk, g.tokens)]

ValidationRanges(g) == {ChunkRange(g, i) : i \in HeldOutChunks(g)}

(* What from_config accepts. *)
SplitAccepted(g) ==
  g.num = 0 \/ (/\ 2 * g.num <= g.den
                /\ g.chunk >= WindowTokens(g)
                /\ ValidationRanges(g) # {})

(* contains(Validation, ...): inside one held-out range. *)
InValidation(g, begin, end) ==
  /\ end <= g.tokens
  /\ begin < end
  /\ \E r \in ValidationRanges(g) : r.begin <= begin /\ end <= r.end

(* Mutant: the target token of a window is forgotten. *)
InputsInTraining(g, begin, end) ==
  /\ end <= g.tokens
  /\ begin < end
  /\ \A r \in ValidationRanges(g) : end - 1 <= r.begin \/ r.end <= begin

(* contains(Train, ...): no token of a held-out range. *)
InTraining(g, begin, end) ==
  /\ end <= g.tokens
  /\ begin < end
  /\ \A r \in ValidationRanges(g) : end <= r.begin \/ r.end <= begin

(* build_blocks_: the windows of each side, before they are cut down to    *)
(* whole batches.                                                          *)
TrainingWindows(g) ==
  {s \in 0..(g.tokens - WindowTokens(g)) :
     s % g.stride = 0 /\ InTraining(g, s, s + WindowTokens(g))}

ValidationWindows(g) ==
  UNION {{s \in r.begin..(r.end - WindowTokens(g)) : (s - r.begin) % g.seq = 0} :
            r \in ValidationRanges(g)}

(* The tokens a set of windows reads. *)
TokensOf(g, windows) == UNION {s..(s + g.seq) : s \in windows}

FullBatches(g, windows) == (Cardinality(windows) \div g.batch) * g.batch

(* What the constructors and validate_validation_split accept. *)
Accepted(g) ==
  /\ g.tokens >= WindowTokens(g)
  /\ SplitAccepted(g)
  /\ FullBatches(g, TrainingWindows(g)) > 0
  /\ g.num > 0 => FullBatches(g, ValidationWindows(g)) > 0
=============================================================================
