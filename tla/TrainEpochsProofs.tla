-------------------------- MODULE TrainEpochsProofs -------------------------
(***************************************************************************)
(* What an epoch of training promises, for every corpus, split, batch size *)
(* and schedule: the proofs about TrainEpochs.                             *)
(***************************************************************************)
EXTENDS TrainEpochs, TLAPS, FiniteSetTheorems, SequenceTheorems

-----------------------------------------------------------------------------
(* The split, for every corpus and every geometry.                         *)

(* The held-out ranges are ranges of tokens of the corpus. *)
LEMMA RangesInCorpus ==
  ASSUME NEW g \in Geometries, NEW r \in ValidationRanges(g)
  PROVE  /\ r.begin \in Nat
         /\ r.end \in Int
         /\ r.end <= g.tokens
<1>1. PICK i \in HeldOutChunks(g) : r = ChunkRange(g, i)
  BY DEF ValidationRanges
<1>2. i \in Nat
  BY <1>1 DEF HeldOutChunks, NumChunks, Geometries
<1>3. g.chunk \in Nat /\ g.tokens \in Nat
  BY DEF Geometries
<1>4. i * g.chunk \in Nat /\ (i + 1) * g.chunk \in Nat
  BY <1>2, <1>3
<1>5. QED
  BY <1>1, <1>3, <1>4 DEF ChunkRange, Lesser

(* A validation window lies within one held-out range. *)
LEMMA ValidationWindowInRange ==
  ASSUME NEW g \in Geometries, NEW s \in ValidationWindows(g)
  PROVE  \E r \in ValidationRanges(g) :
            s \in Nat /\ r.begin <= s /\ s + WindowTokens(g) <= r.end
<1>1. PICK r \in ValidationRanges(g) : s \in r.begin..(r.end - WindowTokens(g))
  BY DEF ValidationWindows
<1>2. r.begin \in Nat /\ r.end \in Int
  BY RangesInCorpus
<1>3. g.seq \in Nat /\ WindowTokens(g) \in Nat
  BY DEF Geometries, WindowTokens
<1>4. s \in Nat /\ r.begin <= s /\ s + WindowTokens(g) <= r.end
  BY <1>1, <1>2, <1>3
<1>5. QED
  BY <1>1, <1>4

(* The check of next_impl, that a window is inside the corpus, never       *)
(* fails, for either side and any geometry.                                *)
THEOREM WindowsInCorpus ==
  ASSUME NEW g \in Geometries,
         NEW s \in TrainingWindows(g) \cup ValidationWindows(g)
  PROVE  s \in Nat /\ s + WindowTokens(g) <= g.tokens
<1>1. g.tokens \in Nat /\ g.seq \in Nat /\ WindowTokens(g) \in Nat
  BY DEF Geometries, WindowTokens
<1>2. CASE s \in TrainingWindows(g)
  BY <1>1, <1>2 DEF TrainingWindows
<1>3. CASE s \in ValidationWindows(g)
  <2>1. PICK r \in ValidationRanges(g) :
               s \in Nat /\ r.begin <= s /\ s + WindowTokens(g) <= r.end
    BY <1>3, ValidationWindowInRange
  <2>2. r.end \in Int /\ r.end <= g.tokens
    BY RangesInCorpus
  <2>3. QED
    BY <1>1, <2>1, <2>2
<1>4. QED
  BY <1>2, <1>3

(* No token is read both by a training window and by a validation window,  *)
(* as an input or as a target, whatever the fraction, the chunks, the      *)
(* window length and the stride: what dataset.cpp's build_blocks_ makes of *)
(* DatasetSplit::contains.                                                 *)
THEOREM SidesShareNoToken ==
  ASSUME NEW g \in Geometries
  PROVE  TokensOf(g, TrainingWindows(g)) \cap TokensOf(g, ValidationWindows(g)) = {}
<1>1. SUFFICES ASSUME NEW x \in TokensOf(g, TrainingWindows(g)),
                      x \in TokensOf(g, ValidationWindows(g))
               PROVE  FALSE
  OBVIOUS
<1>2. g.seq \in Nat /\ g.tokens \in Nat /\ WindowTokens(g) = g.seq + 1
  BY DEF Geometries, WindowTokens
<1>3. PICK t \in TrainingWindows(g) : x \in t..(t + g.seq)
  BY DEF TokensOf
<1>4. PICK v \in ValidationWindows(g) : x \in v..(v + g.seq)
  BY <1>1 DEF TokensOf
<1>5. PICK r \in ValidationRanges(g) :
             v \in Nat /\ r.begin <= v /\ v + WindowTokens(g) <= r.end
  BY <1>4, ValidationWindowInRange
<1>6. r.begin \in Nat /\ r.end \in Int
  BY RangesInCorpus
<1>7. t \in Nat
  BY <1>3, WindowsInCorpus
<1>8. t + WindowTokens(g) <= r.begin \/ r.end <= t
  BY <1>3, <1>5 DEF TrainingWindows, InTraining
<1>9. QED
  BY <1>2, <1>3, <1>4, <1>5, <1>6, <1>7, <1>8

-----------------------------------------------------------------------------
(* The windows of a side, in ascending order.                              *)

Rank(W, w) == Cardinality({v \in W : v < w})

(* Among finitely many numbers, a greater one has a greater rank. *)
LEMMA RankRises ==
  ASSUME NEW W \in SUBSET Nat, IsFiniteSet(W), NEW u \in W, NEW w \in W, u < w
  PROVE  Rank(W, u) < Rank(W, w)
<1> DEFINE Below(x) == {v \in W : v < x}
<1>1. u \in Nat /\ w \in Nat
  OBVIOUS
<1>2. /\ Below(u) \in SUBSET Below(w)
      /\ u \in Below(w)
      /\ u \notin Below(u)
  <2>1. \A v \in W : v \in Nat
    OBVIOUS
  <2>2. Below(u) \subseteq Below(w)
    <3>1. SUFFICES ASSUME NEW v \in W, v < u
                   PROVE  v < w
      OBVIOUS
    <3>2. QED
      BY <1>1, <2>1, <3>1
  <2>3. ~(u < u)
    BY <1>1
  <2>4. QED
    BY <1>1, <2>2, <2>3
<1>3. IsFiniteSet(Below(u)) /\ IsFiniteSet(Below(w))
  BY FS_Subset
<1>4. Cardinality(Below(u)) \in Nat /\ Cardinality(Below(w)) \in Nat
  BY <1>3, FS_CardinalityType
<1>5. /\ Cardinality(Below(u)) <= Cardinality(Below(w))
      /\ Cardinality(Below(w)) = Cardinality(Below(u)) => Below(w) = Below(u)
  BY <1>2, <1>3, FS_Subset
<1>6. Cardinality(Below(u)) < Cardinality(Below(w))
  BY <1>2, <1>4, <1>5
<1>7. QED
  BY <1>6 DEF Rank

(* Every rank below the number of elements is that of one element. *)
LEMMA RankedElement ==
  ASSUME NEW W \in SUBSET Nat, IsFiniteSet(W), NEW i \in 1..Cardinality(W)
  PROVE  \E w \in W : Rank(W, w) = i - 1
<1> DEFINE n == Cardinality(W)
<1> DEFINE r == [w \in W |-> Rank(W, w) + 1]
<1>1. n \in Nat
  BY FS_CardinalityType
<1>2. ASSUME NEW w \in W
      PROVE  Rank(W, w) \in Nat /\ Rank(W, w) < n
  <2> DEFINE Below == {v \in W : v < w}
  <2>1. Below \in SUBSET W /\ w \notin Below
    OBVIOUS
  <2>2. IsFiniteSet(Below) /\ Cardinality(Below) <= n
    BY <2>1, FS_Subset
  <2>3. Cardinality(Below) # n
    BY <2>1, FS_Subset
  <2>4. Cardinality(Below) \in Nat
    BY <2>2, FS_CardinalityType
  <2>5. QED
    BY <1>1, <2>2, <2>3, <2>4 DEF Rank
<1>3. r \in [W -> 1..n]
  BY <1>1, <1>2
<1>4. ASSUME NEW u \in W, NEW w \in W, u # w
      PROVE  r[u] # r[w]
  <2>1. u < w \/ w < u
    BY <1>4
  <2>2. Rank(W, u) # Rank(W, w)
    BY <1>2, <2>1, RankRises
  <2>3. QED
    BY <1>2, <2>2
<1>5. r \in Injection(W, 1..n)
  BY <1>3, <1>4 DEF Injection, IsInjective
<1>6. IsFiniteSet(1..n) /\ Cardinality(1..n) = n
  BY <1>1, FS_Interval
<1>7. r \in Surjection(W, 1..n)
  BY <1>5, <1>6, FS_Injection
<1>8. PICK w \in W : r[w] = i
  BY <1>7 DEF Surjection
<1>9. QED
  BY <1>2, <1>8

-----------------------------------------------------------------------------
(* The two datasets of a configuration.                                    *)

LEMMA WholeBatchesFit ==
  ASSUME NEW c \in Nat, NEW b \in Nat \ {0}
  PROVE  /\ (c \div b) * b \in Nat
         /\ (c \div b) * b <= c
         /\ ((c \div b) * b) \div b = c \div b
<1> DEFINE q == c \div b
           r == c % b
<1>1. q \in Nat /\ r \in 0..(b - 1) /\ c = (b * q) + r
  OBVIOUS
<1> HIDE DEF q, r
<1>2. q * b \in Nat /\ q * b <= c
  BY <1>1
<1>3. (q * b) \div b = q
  BY <1>1
<1>4. QED
  BY <1>2, <1>3 DEF q

(* What is kept of a finite set of windows: as many as fill batches, each  *)
(* of them once.                                                           *)
LEMMA BlocksOfSide ==
  ASSUME geo.batch \in Nat \ {0}, NEW W \in SUBSET Nat, IsFiniteSet(W)
  PROVE  /\ FullBatches(geo, W) \in Nat
         /\ FullBatches(geo, W) = (FullBatches(geo, W) \div geo.batch) * geo.batch
         /\ WholeBatches(W) \in [1..FullBatches(geo, W) -> W]
         /\ \A i, j \in 1..FullBatches(geo, W) :
              WholeBatches(W)[i] = WholeBatches(W)[j] => i = j
<1> DEFINE n == FullBatches(geo, W)
<1>1. Cardinality(W) \in Nat
  BY FS_CardinalityType
<1>2. /\ n \in Nat
      /\ n <= Cardinality(W)
      /\ n = (n \div geo.batch) * geo.batch
  BY <1>1, WholeBatchesFit DEF FullBatches
<1>3. ASSUME NEW i \in 1..n
      PROVE  /\ WholeBatches(W)[i] \in W
             /\ Rank(W, WholeBatches(W)[i]) = i - 1
  <2>1. i \in 1..Cardinality(W)
    BY <1>1, <1>2
  <2>2. \E w \in W : Cardinality({v \in W : v < w}) = i - 1
    BY <2>1, RankedElement DEF Rank
  <2>3. WholeBatches(W)[i] = CHOOSE w \in W : Cardinality({v \in W : v < w}) = i - 1
    BY DEF WholeBatches
  <2>4. QED
    BY <2>2, <2>3 DEF Rank
<1>4. WholeBatches(W) \in [1..n -> W]
  BY <1>3 DEF WholeBatches
<1>5. \A i, j \in 1..n : WholeBatches(W)[i] = WholeBatches(W)[j] => i = j
  <2>1. SUFFICES ASSUME NEW i \in 1..n, NEW j \in 1..n,
                        WholeBatches(W)[i] = WholeBatches(W)[j]
                 PROVE  i = j
    OBVIOUS
  <2>2. i - 1 = j - 1
    BY <1>3, <2>1
  <2>3. QED
    BY <1>2, <2>2
<1>6. QED
  BY <1>2, <1>4, <1>5

LEMMA ConfigFacts ==
  ASSUME cfg \in Configs
  PROVE  /\ geo \in Geometries
         /\ geo.batch \in Nat \ {0}
         /\ cfg.per_step \in Nat \ {0}
         /\ cfg.epochs \in Nat
         /\ cfg.schedule \in Schedules
         /\ FullBatches(geo, TrainingWindows(geo)) > 0
         /\ FullBatches(geo, TrainingWindows(geo)) <= IndexModulus
         /\ FullBatches(geo, ValidationWindows(geo)) + geo.batch < IndexModulus
         /\ IndexModulus \in Nat \ {0}
<1>1. cfg \in ConfigRecords /\ Accepted(cfg.geo)
  BY EpochsAssumption
<1>2. geo \in Geometries
  BY <1>1 DEF ConfigRecords, geo
<1>3. geo.batch \in Nat \ {0}
  BY <1>2 DEF Geometries
<1>4. QED
  BY <1>1, <1>2, <1>3, EpochsAssumption DEF ConfigRecords, geo, Accepted

LEMMA WindowsAreFinite ==
  ASSUME NEW g \in Geometries
  PROVE  /\ TrainingWindows(g) \in SUBSET Nat /\ IsFiniteSet(TrainingWindows(g))
         /\ ValidationWindows(g) \in SUBSET Nat /\ IsFiniteSet(ValidationWindows(g))
<1>1. g.tokens \in Nat /\ WindowTokens(g) \in Nat
  BY DEF Geometries, WindowTokens
<1>2. \A s \in TrainingWindows(g) \cup ValidationWindows(g) : s \in Nat /\ s <= g.tokens
  BY <1>1, WindowsInCorpus
<1>3. QED
  BY <1>1, <1>2, FS_BoundedSetOfNaturals

TrainingSize == FullBatches(geo, TrainingWindows(geo))
ValidationSize == FullBatches(geo, ValidationWindows(geo))

(* The batches of an epoch, from the configuration alone. *)
PlanBatches == TrainingSize \div geo.batch

LEMMA TrainingSide ==
  ASSUME cfg \in Configs
  PROVE  /\ TrainingSize \in Nat \ {0}
         /\ TrainingSize = PlanBatches * geo.batch
         /\ PlanBatches \in Nat \ {0}
         /\ TrainingBlocks \in [1..TrainingSize -> TrainingWindows(geo)]
         /\ \A i, j \in 1..TrainingSize : TrainingBlocks[i] = TrainingBlocks[j] => i = j
<1> DEFINE W == TrainingWindows(geo)
<1>1. W \in SUBSET Nat /\ IsFiniteSet(W)
  BY ConfigFacts, WindowsAreFinite
<1>2. geo.batch \in Nat \ {0}
  BY ConfigFacts
<1>3. /\ TrainingSize \in Nat
      /\ TrainingSize = PlanBatches * geo.batch
      /\ TrainingBlocks \in [1..TrainingSize -> W]
      /\ \A i, j \in 1..TrainingSize : TrainingBlocks[i] = TrainingBlocks[j] => i = j
  BY <1>1, <1>2, BlocksOfSide DEF TrainingSize, PlanBatches, TrainingBlocks
<1>4. TrainingSize > 0
  BY ConfigFacts DEF TrainingSize
<1>5. PlanBatches \in Nat
  BY <1>2, <1>3 DEF PlanBatches
<1>6. PlanBatches # 0
  BY <1>2, <1>3, <1>4
<1>7. QED
  BY <1>3, <1>4, <1>5, <1>6

LEMMA ValidationSide ==
  ASSUME cfg \in Configs
  PROVE  /\ ValidationSize \in Nat
         /\ ValidationSize = (ValidationSize \div geo.batch) * geo.batch
         /\ ValidationBlocks \in [1..ValidationSize -> ValidationWindows(geo)]
<1> DEFINE W == ValidationWindows(geo)
<1>1. W \in SUBSET Nat /\ IsFiniteSet(W)
  BY ConfigFacts, WindowsAreFinite
<1>2. geo.batch \in Nat \ {0}
  BY ConfigFacts
<1>3. QED
  BY <1>1, <1>2, BlocksOfSide DEF ValidationSize, ValidationBlocks

-----------------------------------------------------------------------------
(* The inductive invariant                                                 *)

(* The training windows in some order, each of them once. *)
Orders ==
  {s \in [1..TrainingSize -> ToSet(TrainingBlocks)] :
     /\ \A i, j \in 1..TrainingSize : s[i] = s[j] => i = j
     /\ \A w \in ToSet(TrainingBlocks) : \E i \in 1..TrainingSize : s[i] = w}

PlanSteps == (PlanBatches + cfg.per_step - 1) \div cfg.per_step

(* The optimizer steps that the first i batches of an epoch complete. *)
StepsAfter(i) == IF i = PlanBatches THEN PlanSteps ELSE i \div cfg.per_step

(* The m-th batch of an order, from 0, and the first n batches from it on. *)
BatchNo(s, m) == SubSeq(s, m * geo.batch + 1, m * geo.batch + geo.batch)
BatchesFrom(s, m, n) == [b \in 1..n |-> BatchNo(s, m + b - 1)]

(* The j-th step of an epoch: its batches, and the mean over them. *)
GroupSize(j) ==
  IF j * cfg.per_step <= PlanBatches THEN cfg.per_step
  ELSE PlanBatches - (j - 1) * cfg.per_step
StepOf(s, j) ==
  [batches |-> BatchesFrom(s, (j - 1) * cfg.per_step, GroupSize(j)),
   parts |-> GroupSize(j)]

Gradients == [batches : Seq(Seq(Nat)), parts : Nat \ {0}]

LoadersInv ==
  /\ cfg \in Configs
  /\ sigma \in [1..TrainingSize -> 1..TrainingSize]
  /\ \A i, j \in 1..TrainingSize : sigma[i] = sigma[j] => i = j
  /\ stage \in {"down", "epoch", "batch", "evaluate", "epochEnd"}
  /\ train \in [starts : Orders, index : Nat]
  /\ val \in [starts : {ValidationBlocks}, index : Nat]

(* The loader and the batch counter move together. *)
BatchInv ==
  /\ batch_idx \in Nat
  /\ stage = "batch" =>
       /\ batch_idx <= PlanBatches
       /\ train.index = (batch_idx * geo.batch) % IndexModulus
  /\ stage \in {"evaluate", "epochEnd"} => batch_idx = PlanBatches

(* Within a step, the sum holds the batches since the step began. *)
SumInv ==
  (stage = "batch" /\ batch_idx < PlanBatches /\ batch_idx % cfg.per_step # 0) =>
    /\ step_batches = batch_idx % cfg.per_step
    /\ sum = [batches |-> BatchesFrom(train.starts,
                                      (batch_idx \div cfg.per_step) * cfg.per_step,
                                      batch_idx % cfg.per_step),
              parts |-> 1]

(* The steps of this or of the last epoch took the batches of one order,   *)
(* in that order; of the loader's while the epoch lasts.                   *)
Took(s) == \A j \in 1..Len(done) : done[j] = StepOf(s, j)

DoneInv ==
  /\ done \in Seq(Gradients)
  /\ Len(done) <= PlanSteps
  /\ \E s \in Orders : Took(s)
  /\ stage \in {"batch", "evaluate", "epochEnd"} =>
       /\ Took(train.starts)
       /\ Len(done) = StepsAfter(batch_idx)

RatesFollow(r) ==
  \A i \in 1..Len(r) : r[i] = Rate(cfg.schedule, PlanSteps * cfg.epochs, i - 1)

(* The steps are those of whole epochs and of the epoch's groups so far. *)
StepsInv ==
  /\ epoch \in Nat /\ steps \in Nat
  /\ rates \in Seq(Int) /\ Len(rates) = steps /\ RatesFollow(rates)
  /\ stage = "epoch" => steps = epoch * PlanSteps
  /\ stage = "batch" => steps = epoch * PlanSteps + StepsAfter(batch_idx)
  /\ stage \in {"evaluate", "epochEnd"} => steps = (epoch + 1) * PlanSteps
  /\ kept \in [epoch : Nat, steps : Nat, rates : Seq(Int)]
  /\ kept.steps = kept.epoch * PlanSteps
  /\ Len(kept.rates) = kept.steps
  /\ RatesFollow(kept.rates)

(* An evaluation reads the validation windows from the first one on. *)
EvaluationInv ==
  /\ evaluated \in Seq(ValidationWindows(geo))
  /\ stage = "evaluate" =>
       /\ val.index <= ValidationSize
       /\ \E k \in Nat : val.index = k * geo.batch
       /\ evaluated = SubSeq(ValidationBlocks, 1, val.index)
  /\ stage = "epochEnd" /\ ValidationDue => evaluated = ValidationBlocks

EpochsInv ==
  /\ LoadersInv /\ BatchInv /\ SumInv /\ DoneInv /\ StepsInv /\ EvaluationInv

-----------------------------------------------------------------------------
(* Counting batches and steps                                              *)

(* A number is a multiple and a remainder. *)
LEMMA Division ==
  ASSUME NEW i \in Nat, NEW p \in Nat \ {0}
  PROVE  /\ i \div p \in Nat
         /\ i % p \in 0..(p - 1)
         /\ i = ((i \div p) * p) + (i % p)
OBVIOUS

LEMMA DivisionUnique ==
  ASSUME NEW q \in Nat, NEW p \in Nat \ {0}, NEW r \in 0..(p - 1)
  PROVE  /\ ((q * p) + r) \div p = q
         /\ ((q * p) + r) % p = r
OBVIOUS

(* Of t batches, the last one, t - 1, is in the last step. *)
LEMMA RoundingUp ==
  ASSUME NEW t \in Nat \ {0}, NEW p \in Nat \ {0}
  PROVE  (t + p - 1) \div p = ((t - 1) \div p) + 1
<1> DEFINE q == (t - 1) \div p
           r == (t - 1) % p
<1>0. t - 1 \in Nat
  OBVIOUS
<1>1. q \in Nat /\ r \in 0..(p - 1) /\ t - 1 = (q * p) + r
  BY <1>0, Division
<1> HIDE DEF q, r
<1>2. t + p - 1 = ((q + 1) * p) + r
  BY <1>1
<1>3. (t + p - 1) \div p = q + 1
  BY <1>1, <1>2, DivisionUnique
<1>4. QED
  BY <1>3 DEF q

(* The batches before the t-th are in the steps up to the last one. *)
LEMMA EarlierGroup ==
  ASSUME NEW i \in Nat, NEW t \in Nat, i <= t, NEW p \in Nat \ {0}
  PROVE  i \div p <= t \div p
<1> DEFINE qi == i \div p
           ri == i % p
           qt == t \div p
           rt == t % p
<1>1. /\ qi \in Nat /\ ri \in 0..(p - 1) /\ i = (qi * p) + ri
      /\ qt \in Nat /\ rt \in 0..(p - 1) /\ t = (qt * p) + rt
  BY Division
<1> HIDE DEF qi, ri, qt, rt
<1>2. CASE qi <= qt
  BY <1>2 DEF qi, qt
<1>3. CASE qt + 1 <= qi
  <2>1. (qt + 1) * p <= qi * p
    BY <1>1, <1>3
  <2>2. (qt + 1) * p = (qt * p) + p
    BY <1>1
  <2>3. FALSE
    BY <1>1, <2>1, <2>2
  <2>4. QED
    BY <2>3
<1>4. QED
  BY <1>1, <1>2, <1>3

LEMMA NextInGroup ==
  ASSUME NEW i \in Nat, NEW p \in Nat \ {0}, (i + 1) % p # 0
  PROVE  /\ (i + 1) \div p = i \div p
         /\ (i + 1) % p = (i % p) + 1
<1> DEFINE q == i \div p
           r == i % p
<1>1. q \in Nat /\ r \in 0..(p - 1) /\ i = (q * p) + r
  BY Division
<1> HIDE DEF q, r
<1>2. r + 1 # p
  <2>1. SUFFICES ASSUME r + 1 = p PROVE FALSE
    OBVIOUS
  <2>2. i + 1 = ((q + 1) * p) + 0
    BY <1>1, <2>1
  <2>3. (i + 1) % p = 0
    BY <1>1, <2>2, DivisionUnique
  <2>4. QED
    BY <2>3
<1>3. i + 1 = (q * p) + (r + 1) /\ r + 1 \in 0..(p - 1)
  BY <1>1, <1>2
<1>4. (i + 1) \div p = q /\ (i + 1) % p = r + 1
  BY <1>1, <1>3, DivisionUnique
<1>5. QED
  BY <1>4 DEF q, r

LEMMA NextEndsGroup ==
  ASSUME NEW i \in Nat, NEW p \in Nat \ {0}, (i + 1) % p = 0
  PROVE  /\ (i + 1) \div p = (i \div p) + 1
         /\ (i % p) + 1 = p
<1> DEFINE q == i \div p
           r == i % p
<1>1. q \in Nat /\ r \in 0..(p - 1) /\ i = (q * p) + r
  BY Division
<1> HIDE DEF q, r
<1>2. r + 1 = p
  <2>1. SUFFICES ASSUME r + 1 # p PROVE FALSE
    OBVIOUS
  <2>2. i + 1 = (q * p) + (r + 1) /\ r + 1 \in 0..(p - 1)
    BY <1>1, <2>1
  <2>3. (i + 1) % p = r + 1
    BY <1>1, <2>2, DivisionUnique
  <2>4. QED
    BY <1>1, <2>3
<1>3. i + 1 = ((q + 1) * p) + 0
  BY <1>1, <1>2
<1>4. (i + 1) \div p = q + 1
  BY <1>1, <1>3, DivisionUnique
<1>5. QED
  BY <1>2, <1>4 DEF q, r

LEMMA PlanFacts ==
  ASSUME cfg \in Configs
  PROVE  /\ PlanSteps = ((PlanBatches - 1) \div cfg.per_step) + 1
         /\ PlanSteps \in Nat \ {0}
         /\ StepsAfter(0) = 0
         /\ StepsAfter(PlanBatches) = PlanSteps
<1>1. PlanBatches \in Nat \ {0} /\ cfg.per_step \in Nat \ {0}
  BY TrainingSide, ConfigFacts
<1>2. PlanSteps = ((PlanBatches - 1) \div cfg.per_step) + 1
  BY <1>1, RoundingUp DEF PlanSteps
<1>3. (PlanBatches - 1) \div cfg.per_step \in Nat
  BY <1>1, Division
<1>4. 0 \div cfg.per_step = 0
  BY <1>1
<1>5. QED
  BY <1>1, <1>2, <1>3, <1>4 DEF StepsAfter

(* A batch that ends no step leaves the count of steps as it is. *)
LEMMA StepGoesOn ==
  ASSUME cfg \in Configs, NEW i \in Nat, i < PlanBatches,
         (i + 1) % cfg.per_step # 0, i + 1 # PlanBatches
  PROVE  StepsAfter(i + 1) = StepsAfter(i)
<1>1. PlanBatches \in Nat \ {0} /\ cfg.per_step \in Nat \ {0}
  BY TrainingSide, ConfigFacts
<1>2. QED
  BY <1>1, NextInGroup DEF StepsAfter

(* A batch that ends a step completes the group it is in. *)
LEMMA StepCompletes ==
  ASSUME cfg \in Configs, NEW i \in Nat, i < PlanBatches,
         (i + 1) % cfg.per_step = 0 \/ i + 1 = PlanBatches
  PROVE  /\ StepsAfter(i) = i \div cfg.per_step
         /\ StepsAfter(i + 1) = StepsAfter(i) + 1
         /\ StepsAfter(i + 1) \in Nat
         /\ StepsAfter(i + 1) <= PlanSteps
         /\ GroupSize(StepsAfter(i + 1)) = (i % cfg.per_step) + 1
<1> DEFINE p == cfg.per_step
           q == i \div p
           r == i % p
<1>1. PlanBatches \in Nat \ {0} /\ p \in Nat \ {0}
  BY TrainingSide, ConfigFacts
<1>2. q \in Nat /\ r \in 0..(p - 1) /\ i = (q * p) + r
  BY <1>1, Division
<1>3. StepsAfter(i) = q
  BY <1>1 DEF StepsAfter
<1>4. PlanSteps = ((PlanBatches - 1) \div p) + 1
  BY PlanFacts
<1>5. q + 1 <= PlanSteps
  <2>1. i <= PlanBatches - 1 /\ PlanBatches - 1 \in Nat
    BY <1>1
  <2>2. q <= (PlanBatches - 1) \div p
    BY <1>1, <2>1, EarlierGroup
  <2>3. (PlanBatches - 1) \div p \in Nat
    BY <1>1, <2>1, Division
  <2>4. QED
    BY <1>2, <1>4, <2>2, <2>3
<1>6. StepsAfter(i + 1) = q + 1
  <2>1. CASE i + 1 = PlanBatches
    <3>1. i = PlanBatches - 1
      BY <1>1, <2>1
    <3>2. QED
      BY <1>4, <2>1, <3>1 DEF StepsAfter
  <2>2. CASE i + 1 # PlanBatches
    BY <1>1, <2>2, NextEndsGroup DEF StepsAfter
  <2>3. QED
    BY <2>1, <2>2
<1>7. GroupSize(q + 1) = r + 1
  <2> HIDE DEF p, q, r
  <2>1. (q + 1) * p = (q * p) + p /\ q * p \in Nat /\ (q + 1) - 1 = q
    BY <1>1, <1>2
  <2>2. CASE r + 1 = p
    <3>1. (q + 1) * p = i + 1
      BY <1>1, <1>2, <2>1, <2>2
    <3>2. (q + 1) * p <= PlanBatches
      BY <1>1, <3>1
    <3>3. GroupSize(q + 1) = p
      BY <3>2 DEF GroupSize, p
    <3>4. QED
      BY <2>2, <3>3
  <2>3. CASE r + 1 # p
    <3>1. i + 1 = PlanBatches
      <4>1. (i + 1) % p # 0
        BY <1>1, <2>3, NextEndsGroup DEF p, r
      <4>2. QED
        BY <4>1 DEF p
    <3>2. ~((q + 1) * p <= PlanBatches)
      BY <1>1, <1>2, <2>1, <2>3, <3>1
    <3>3. QED
      BY <1>1, <1>2, <2>1, <3>1, <3>2 DEF GroupSize, p
  <2>4. QED
    BY <2>2, <2>3
<1>8. QED
  BY <1>2, <1>3, <1>5, <1>6, <1>7

-----------------------------------------------------------------------------
(* Orders and batches                                                      *)

LEMMA BlocksAreAnOrder ==
  ASSUME cfg \in Configs
  PROVE  TrainingBlocks \in Orders
<1>1. /\ TrainingBlocks \in [1..TrainingSize -> TrainingWindows(geo)]
      /\ \A i, j \in 1..TrainingSize : TrainingBlocks[i] = TrainingBlocks[j] => i = j
  BY TrainingSide
<1>2. ToSet(TrainingBlocks) = {TrainingBlocks[i] : i \in 1..TrainingSize}
  BY <1>1 DEF ToSet
<1>3. TrainingBlocks \in [1..TrainingSize -> ToSet(TrainingBlocks)]
  BY <1>1, <1>2
<1>4. QED
  BY <1>1, <1>2, <1>3 DEF Orders

(* Shuffling gives an order of the same windows. *)
LEMMA ShuffledOrder ==
  ASSUME LoadersInv, NEW s \in Orders
  PROVE  [i \in DOMAIN s |-> s[sigma[i]]] \in Orders
<1> DEFINE n == TrainingSize
           t == [i \in DOMAIN s |-> s[sigma[i]]]
<1>1. n \in Nat
  BY TrainingSide DEF LoadersInv
<1>2. /\ sigma \in [1..n -> 1..n]
      /\ \A i, j \in 1..n : sigma[i] = sigma[j] => i = j
  BY DEF LoadersInv
<1>3. \A k \in 1..n : \E i \in 1..n : sigma[i] = k
  <2>1. sigma \in Injection(1..n, 1..n)
    BY <1>2 DEF Injection, IsInjective
  <2>2. IsFiniteSet(1..n)
    BY <1>1, FS_Interval
  <2>3. sigma \in Surjection(1..n, 1..n)
    BY <2>1, <2>2, FS_Injection
  <2>4. QED
    BY <2>3 DEF Surjection
<1>4. /\ s \in [1..n -> ToSet(TrainingBlocks)]
      /\ \A i, j \in 1..n : s[i] = s[j] => i = j
      /\ \A w \in ToSet(TrainingBlocks) : \E i \in 1..n : s[i] = w
  BY DEF Orders
<1> HIDE DEF n
<1>5. t \in [1..n -> ToSet(TrainingBlocks)]
  BY <1>2, <1>4
<1>6. \A i \in 1..n : t[i] = s[sigma[i]] /\ sigma[i] \in 1..n
  BY <1>2, <1>4
<1>7. \A i, j \in 1..n : t[i] = t[j] => i = j
  BY <1>2, <1>4, <1>6
<1>8. \A w \in ToSet(TrainingBlocks) : \E i \in 1..n : t[i] = w
  BY <1>3, <1>4, <1>6
<1> HIDE DEF t
<1>9. t \in Orders
  BY <1>5, <1>7, <1>8 DEF Orders, n
<1>10. QED
  BY <1>9 DEF t

(* A batch of the epoch is within the order it is cut from. *)
LEMMA BatchWithin ==
  ASSUME cfg \in Configs, NEW m \in Nat, m < PlanBatches
  PROVE  /\ m * geo.batch \in Nat
         /\ (m + 1) * geo.batch = m * geo.batch + geo.batch
         /\ (m + 1) * geo.batch <= TrainingSize
<1>1. /\ PlanBatches \in Nat /\ TrainingSize = PlanBatches * geo.batch
      /\ geo.batch \in Nat \ {0}
  BY TrainingSide, ConfigFacts
<1> DEFINE b == geo.batch
           t == PlanBatches
<1>2. b \in Nat \ {0} /\ t \in Nat /\ m + 1 <= t
  BY <1>1
<1> HIDE DEF b, t
<1>3. /\ m * b \in Nat
      /\ (m + 1) * b = m * b + b
      /\ (m + 1) * b <= t * b
  BY <1>2
<1>4. QED
  BY <1>1, <1>3 DEF b, t

LEMMA BatchContents ==
  ASSUME cfg \in Configs, NEW s \in Orders, NEW m \in Nat, m < PlanBatches
  PROVE  /\ BatchNo(s, m) \in Seq(Nat)
         /\ Len(BatchNo(s, m)) = geo.batch
         /\ \A k \in 1..geo.batch : /\ m * geo.batch + k \in 1..TrainingSize
                                    /\ BatchNo(s, m)[k] = s[m * geo.batch + k]
<1> DEFINE b == geo.batch
           lo == m * b
<1>1. /\ b \in Nat \ {0} /\ TrainingSize \in Nat
      /\ lo \in Nat /\ lo + b <= TrainingSize
  BY BatchWithin, TrainingSide, ConfigFacts
<1>2. s \in [1..TrainingSize -> Nat]
  <2>1. TrainingBlocks \in [1..TrainingSize -> Nat]
    BY TrainingSide, ConfigFacts, WindowsAreFinite
  <2>2. ToSet(TrainingBlocks) \subseteq Nat
    BY <2>1 DEF ToSet
  <2>3. QED
    BY <2>2 DEF Orders
<1> HIDE DEF b, lo
<1>3. \A i \in (lo + 1)..(lo + b) : s[i] \in Nat /\ i \in 1..TrainingSize
  BY <1>1, <1>2
<1>4. /\ SubSeq(s, lo + 1, lo + b) \in Seq(Nat)
      /\ Len(SubSeq(s, lo + 1, lo + b)) = IF lo + 1 <= lo + b THEN (lo + b) - (lo + 1) + 1 ELSE 0
      /\ \A i \in 1..((lo + b) - (lo + 1) + 1) :
            SubSeq(s, lo + 1, lo + b)[i] = s[(lo + 1) + i - 1]
  BY <1>1, <1>3, SubSeqProperties
<1>5. /\ SubSeq(s, lo + 1, lo + b) \in Seq(Nat)
      /\ Len(SubSeq(s, lo + 1, lo + b)) = b
      /\ \A k \in 1..b : /\ lo + k \in 1..TrainingSize
                         /\ SubSeq(s, lo + 1, lo + b)[k] = s[lo + k]
  <2>1. (lo + b) - (lo + 1) + 1 = b /\ lo + 1 <= lo + b
    BY <1>1
  <2>2. \A k \in 1..b : lo + k \in 1..TrainingSize /\ (lo + 1) + k - 1 = lo + k
    BY <1>1
  <2>3. QED
    BY <1>4, <2>1, <2>2
<1>6. QED
  BY <1>5 DEF b, lo, BatchNo

(* While batches are left, the loader, with its wrapping index, has the    *)
(* next one.                                                               *)
LEMMA LoaderHasBatch ==
  ASSUME LoadersInv, BatchInv, stage = "batch", batch_idx < PlanBatches
  PROVE  /\ ~Exhausted(train)
         /\ BatchOf(train) = BatchNo(train.starts, batch_idx)
         /\ Advanced(train).starts = train.starts
         /\ Advanced(train).index = ((batch_idx + 1) * geo.batch) % IndexModulus
<1> DEFINE b == geo.batch
           lo == batch_idx * b
<1>1. cfg \in Configs /\ batch_idx \in Nat
  BY DEF LoadersInv, BatchInv
<1>2. /\ b \in Nat \ {0} /\ TrainingSize \in Nat \ {0}
      /\ IndexModulus \in Nat \ {0} /\ TrainingSize <= IndexModulus
  BY <1>1, ConfigFacts, TrainingSide DEF TrainingSize
<1>3. lo \in Nat /\ (batch_idx + 1) * b = lo + b /\ lo + b <= TrainingSize
  BY <1>1, BatchWithin
<1>4. train.index = lo % IndexModulus
  BY DEF BatchInv
<1>5. train \in [starts : Orders, index : Nat]
  BY DEF LoadersInv
<1>6. Len(train.starts) = TrainingSize
  <2>1. train.starts \in [1..TrainingSize -> ToSet(TrainingBlocks)]
    BY <1>5 DEF Orders
  <2>2. QED
    BY <1>2, <2>1
<1> HIDE DEF lo, b
<1>7. lo % IndexModulus = lo
  BY <1>2, <1>3
<1>8. ~((lo + b) % IndexModulus > TrainingSize)
  BY <1>2, <1>3
<1>9. ~Exhausted(train)
  BY <1>4, <1>6, <1>7, <1>8 DEF Exhausted, b
<1>10. BatchOf(train) = BatchNo(train.starts, batch_idx)
  BY <1>4, <1>7 DEF BatchOf, BatchNo, lo, b
<1>11. /\ Advanced(train).starts = train.starts
       /\ Advanced(train).index = (train.index + b) % IndexModulus
  BY <1>5 DEF Advanced, b
<1>12. QED
  BY <1>3, <1>4, <1>7, <1>9, <1>10, <1>11 DEF b

-----------------------------------------------------------------------------
(* The steps keep the invariant                                            *)

(* The configuration and what is computed from it alone stay as they are. *)
LEMMA ConfigKept ==
  ASSUME cfg' = cfg
  PROVE  /\ geo' = geo
         /\ TrainingSize' = TrainingSize
         /\ TrainingBlocks' = TrainingBlocks
         /\ ValidationSize' = ValidationSize
         /\ ValidationBlocks' = ValidationBlocks
         /\ Orders' = Orders
         /\ PlanBatches' = PlanBatches
         /\ PlanSteps' = PlanSteps
         /\ \A i : StepsAfter(i)' = StepsAfter(i)
         /\ \A j : GroupSize(j)' = GroupSize(j)
         /\ \A s, m, n : BatchesFrom(s, m, n)' = BatchesFrom(s, m, n)
         /\ \A s, j : StepOf(s, j)' = StepOf(s, j)
<1>1. geo' = geo
  BY DEF geo
<1>2. TrainingSize' = TrainingSize /\ ValidationSize' = ValidationSize
  BY <1>1 DEF TrainingSize, ValidationSize
<1>3. TrainingBlocks' = TrainingBlocks /\ ValidationBlocks' = ValidationBlocks
  BY <1>1 DEF TrainingBlocks, ValidationBlocks, WholeBatches
<1>4. Orders' = Orders
  BY <1>2, <1>3 DEF Orders
<1>5. PlanBatches' = PlanBatches /\ PlanSteps' = PlanSteps
  BY <1>1, <1>2 DEF PlanBatches, PlanSteps
<1>6. \A i : StepsAfter(i)' = StepsAfter(i)
  BY <1>5 DEF StepsAfter
<1>7. \A j : GroupSize(j)' = GroupSize(j)
  BY <1>5 DEF GroupSize
<1>8. \A s, m, n : BatchesFrom(s, m, n)' = BatchesFrom(s, m, n)
  BY <1>1 DEF BatchesFrom, BatchNo
<1>9. \A s, j : StepOf(s, j)' = StepOf(s, j)
  BY <1>7, <1>8 DEF StepOf
<1>10. QED
  BY <1>1, <1>2, <1>3, <1>4, <1>5, <1>6, <1>7, <1>8, <1>9

LEMMA SameConfiguration ==
  ASSUME [Next]_vars
  PROVE  cfg' = cfg /\ sigma' = sigma
BY DEF Next, vars, StartRun, StartEpoch, AccumulateBatch, TrainStep, StepRefused,
       EndBatches, EvaluateBatch, EndEvaluate, EndEpoch, Interrupt

(* What the code computes from the loader it has is what the plan says. *)
LEMMA LoaderCounts ==
  ASSUME LoadersInv
  PROVE  /\ Len(train.starts) = TrainingSize
         /\ Len(val.starts) = ValidationSize
         /\ BatchesPerEpoch = PlanBatches
         /\ StepsPerEpoch = PlanSteps
         /\ TotalSteps = PlanSteps * cfg.epochs
         /\ \A i : StepEnds(i) <=> (i + 1) % cfg.per_step = 0 \/ i + 1 = PlanBatches
<1>1. /\ train.starts \in [1..TrainingSize -> ToSet(TrainingBlocks)]
      /\ val.starts = ValidationBlocks
      /\ cfg \in Configs
  BY DEF LoadersInv, Orders
<1>2. /\ TrainingSize \in Nat
      /\ ValidationSize \in Nat
      /\ ValidationBlocks \in [1..ValidationSize -> ValidationWindows(geo)]
  BY <1>1, TrainingSide, ValidationSide
<1>3. Len(train.starts) = TrainingSize /\ Len(val.starts) = ValidationSize
  BY <1>1, <1>2
<1>4. BatchesPerEpoch = PlanBatches
  BY <1>3 DEF BatchesPerEpoch, PlanBatches
<1>5. StepsPerEpoch = PlanSteps
  BY <1>4 DEF StepsPerEpoch, PlanSteps
<1>6. QED
  BY <1>3, <1>4, <1>5 DEF TotalSteps, StepEnds

LEMMA LoadersStart ==
  ASSUME Init
  PROVE  LoadersInv
<1>1. cfg \in Configs
  BY DEF Init
<1>2. TrainingBlocks \in Orders
  BY <1>1, BlocksAreAnOrder
<1>3. Len(TrainingBlocks) = TrainingSize
  BY <1>1, TrainingSide
<1>4. /\ sigma \in [1..TrainingSize -> 1..TrainingSize]
      /\ \A i, j \in 1..TrainingSize : sigma[i] = sigma[j] => i = j
  BY <1>3 DEF Init
<1>5. QED
  BY <1>1, <1>2, <1>4 DEF Init, LoadersInv, Loader

LEMMA LoadersStep ==
  ASSUME LoadersInv, [Next]_vars
  PROVE  LoadersInv'
<1> DEFINE Loaders(l) == l \in [starts : Orders, index : Nat]
           Stages == {"down", "epoch", "batch", "evaluate", "epochEnd"}
<1>1. cfg' = cfg /\ sigma' = sigma
  BY SameConfiguration
<1>2. cfg \in Configs /\ IndexModulus \in Nat \ {0} /\ geo.batch \in Nat \ {0}
  BY ConfigFacts DEF LoadersInv
<1>3. stage \in Stages /\ Loaders(train) /\ val \in [starts : {ValidationBlocks}, index : Nat]
  BY DEF LoadersInv
<1>4. ASSUME NEW l, Loaders(l)
      PROVE  Loaders(Shuffled(l)) /\ Loaders(Advanced(l))
  <2>1. Loaders(Shuffled(l))
    BY <1>4, ShuffledOrder DEF Shuffled, Loader
  <2>2. (l.index + geo.batch) % IndexModulus \in Nat
    BY <1>2, <1>4
  <2>3. Loaders(Advanced(l))
    BY <1>4, <2>2 DEF Advanced
  <2>4. QED
    BY <2>1, <2>3
<1>5. Advanced(val) \in [starts : {ValidationBlocks}, index : Nat]
  <2>1. (val.index + geo.batch) % IndexModulus \in Nat
    BY <1>2, <1>3
  <2>2. QED
    BY <1>3, <2>1 DEF Advanced
<1>6. Loaders(Loader(TrainingBlocks))
  BY <1>2, BlocksAreAnOrder DEF Loader
<1>7. Loader(ValidationBlocks) \in [starts : {ValidationBlocks}, index : Nat]
  BY DEF Loader
<1> HIDE DEF Loaders
<1>8. Loaders(train') /\ val' \in [starts : {ValidationBlocks}, index : Nat] /\ stage' \in Stages
  <2>1. CASE StartRun
    BY <1>4, <1>6, <1>7, <2>1 DEF StartRun
  <2>2. CASE StartEpoch
    BY <1>3, <1>4, <2>2 DEF StartEpoch
  <2>3. CASE AccumulateBatch \/ TrainStep
    BY <1>3, <1>4, <2>3 DEF AccumulateBatch, TrainStep
  <2>4. CASE StepRefused
    BY <1>3, <1>4, <2>4 DEF StepRefused
  <2>5. CASE EndBatches
    BY <1>3, <1>7, <2>5 DEF EndBatches
  <2>6. CASE EvaluateBatch
    BY <1>3, <1>5, <2>6 DEF EvaluateBatch
  <2>7. CASE EndEvaluate \/ Interrupt
    BY <1>3, <2>7 DEF EndEvaluate, Interrupt
  <2>8. CASE EndEpoch
    BY <1>3, <2>8 DEF EndEpoch
  <2>9. CASE UNCHANGED vars
    BY <1>3, <2>9 DEF vars
  <2>10. QED
    BY <2>1, <2>2, <2>3, <2>4, <2>5, <2>6, <2>7, <2>8, <2>9 DEF Next
<1>9. QED
  BY <1>1, <1>8, ConfigKept DEF LoadersInv, Loaders

LEMMA BatchStep ==
  ASSUME LoadersInv, BatchInv, [Next]_vars
  PROVE  BatchInv'
<1>1. cfg' = cfg /\ cfg \in Configs
  BY SameConfiguration DEF LoadersInv
<1>2. /\ geo' = geo /\ PlanBatches' = PlanBatches
      /\ PlanBatches \in Nat \ {0} /\ geo.batch \in Nat \ {0}
      /\ IndexModulus \in Nat \ {0}
      /\ BatchesPerEpoch = PlanBatches
  BY <1>1, ConfigKept, TrainingSide, ConfigFacts, LoaderCounts
<1>3. batch_idx \in Nat
  BY DEF BatchInv
<1>4. CASE StartRun \/ StepRefused \/ Interrupt \/ EndEpoch
  BY <1>3, <1>4 DEF BatchInv, StartRun, StepRefused, Interrupt, EndEpoch, batches
<1>5. CASE StartEpoch
  <2>1. batch_idx' = 0 /\ train'.index = 0 /\ stage' = "batch"
    BY <1>5 DEF StartEpoch, Shuffled, Loader
  <2>2. (0 * geo.batch) % IndexModulus = 0
    BY <1>2
  <2>3. QED
    BY <1>2, <2>1, <2>2 DEF BatchInv
<1>6. CASE AccumulateBatch \/ TrainStep
  <2>1. /\ stage = "batch" /\ stage' = "batch" /\ batch_idx < PlanBatches
        /\ batch_idx' = batch_idx + 1 /\ train' = Advanced(train)
    BY <1>2, <1>6 DEF AccumulateBatch, TrainStep, BatchReady
  <2>2. train'.index = ((batch_idx + 1) * geo.batch) % IndexModulus
    BY <2>1, LoaderHasBatch
  <2>3. QED
    BY <1>2, <1>3, <2>1, <2>2 DEF BatchInv
<1>7. CASE EndBatches
  <2>1. stage = "batch" /\ stage' \in {"evaluate", "epochEnd"} /\ batch_idx' = batch_idx
    BY <1>7 DEF EndBatches, batches
  <2>2. batch_idx = PlanBatches
    <3>1. CASE batch_idx = BatchesPerEpoch
      BY <1>2, <3>1
    <3>2. CASE Exhausted(train)
      <4>1. ~(batch_idx < PlanBatches)
        BY <2>1, <3>2, LoaderHasBatch
      <4>2. batch_idx <= PlanBatches
        BY <2>1 DEF BatchInv
      <4>3. QED
        BY <1>2, <1>3, <4>1, <4>2
    <3>3. QED
      BY <1>7, <3>1, <3>2 DEF EndBatches
  <2>3. QED
    BY <1>2, <1>3, <2>1, <2>2 DEF BatchInv
<1>8. CASE EvaluateBatch \/ EndEvaluate
  <2>1. stage = "evaluate" /\ stage' \in {"evaluate", "epochEnd"} /\ batch_idx' = batch_idx
    BY <1>8 DEF EvaluateBatch, EndEvaluate, batches
  <2>2. QED
    BY <1>2, <1>3, <2>1 DEF BatchInv
<1>9. CASE UNCHANGED vars
  BY <1>2, <1>9 DEF BatchInv, vars
<1>10. QED
  BY <1>4, <1>5, <1>6, <1>7, <1>8, <1>9 DEF Next

-----------------------------------------------------------------------------
(* The batches of a step                                                   *)

LEMMA BatchesFromType ==
  ASSUME cfg \in Configs, NEW s \in Orders, NEW m \in Nat, NEW n \in Nat,
         m + n <= PlanBatches
  PROVE  /\ BatchesFrom(s, m, n) \in Seq(Seq(Nat))
         /\ Len(BatchesFrom(s, m, n)) = n
         /\ \A b \in 1..n : BatchesFrom(s, m, n)[b] = BatchNo(s, m + b - 1)
<1>1. PlanBatches \in Nat
  BY TrainingSide
<1>2. ASSUME NEW b \in 1..n
      PROVE  BatchNo(s, m + b - 1) \in Seq(Nat)
  <2>1. m + b - 1 \in Nat /\ m + b - 1 < PlanBatches
    BY <1>1
  <2>2. QED
    BY <2>1, BatchContents
<1> DEFINE f == BatchesFrom(s, m, n)
<1>3. /\ f \in [1..n -> Seq(Nat)]
      /\ \A b \in 1..n : f[b] = BatchNo(s, m + b - 1)
  BY <1>2 DEF BatchesFrom
<1> HIDE DEF f
<1>4. f \in Seq(Seq(Nat)) /\ Len(f) = n
  <2>1. f \in Seq(Seq(Nat))
    BY <1>3, SeqDef
  <2>2. QED
    BY <1>3, <2>1, LenProperties
<1>5. QED
  BY <1>3, <1>4 DEF f

LEMMA BatchesAppended ==
  ASSUME cfg \in Configs, NEW s \in Orders, NEW m \in Nat, NEW n \in Nat,
         m + n < PlanBatches
  PROVE  Append(BatchesFrom(s, m, n), BatchNo(s, m + n)) = BatchesFrom(s, m, n + 1)
<1> DEFINE old == BatchesFrom(s, m, n)
           all == BatchesFrom(s, m, n + 1)
           next == BatchNo(s, m + n)
<1>1. PlanBatches \in Nat
  BY TrainingSide
<1>2. /\ old \in Seq(Seq(Nat)) /\ Len(old) = n
      /\ \A b \in 1..n : old[b] = BatchNo(s, m + b - 1)
  BY <1>1, BatchesFromType
<1>3. n + 1 \in Nat /\ m + (n + 1) <= PlanBatches
  BY <1>1
<1>4. /\ all \in Seq(Seq(Nat)) /\ Len(all) = n + 1
      /\ \A b \in 1..(n + 1) : all[b] = BatchNo(s, m + b - 1)
  BY <1>3, BatchesFromType
<1>5. next \in Seq(Nat)
  BY <1>1, BatchContents
<1>6. all[n + 1] = next /\ \A b \in 1..n : all[b] = old[b]
  <2>1. m + (n + 1) - 1 = m + n /\ n + 1 \in 1..(n + 1)
    OBVIOUS
  <2>2. all[n + 1] = BatchNo(s, m + (n + 1) - 1)
    BY <1>4, <2>1
  <2>3. all[n + 1] = next
    BY <2>1, <2>2
  <2>4. \A b \in 1..n : b \in 1..(n + 1)
    OBVIOUS
  <2>5. \A b \in 1..n : all[b] = old[b]
    <3> HIDE DEF old, all, next
    <3>1. QED
      BY <1>2, <1>4, <2>4
  <2>6. QED
    BY <2>3, <2>5
<1> HIDE DEF old, all, next
<1>7. /\ Append(old, next) \in Seq(Seq(Nat))
      /\ Len(Append(old, next)) = n + 1
      /\ \A b \in 1..n : Append(old, next)[b] = old[b]
      /\ Append(old, next)[n + 1] = next
  BY <1>2, <1>5, AppendProperties
<1>8. \A b \in 1..(n + 1) : Append(old, next)[b] = all[b]
  <2>1. SUFFICES ASSUME NEW b \in 1..(n + 1)
                 PROVE  Append(old, next)[b] = all[b]
    OBVIOUS
  <2>2. b \in 1..n \/ b = n + 1
    OBVIOUS
  <2>3. QED
    BY <1>6, <1>7, <2>2
<1>9. Append(old, next) = all
  BY <1>4, <1>7, <1>8, SeqEqual
<1>10. QED
  BY <1>9 DEF old, all, next

LEMMA OneBatch ==
  ASSUME NEW s, NEW m \in Nat
  PROVE  <<BatchNo(s, m)>> = BatchesFrom(s, m, 1)
<1> DEFINE x == BatchNo(s, m)
<1>1. [b \in 1..1 |-> BatchNo(s, m + b - 1)] = [b \in 1..1 |-> x]
  <2>1. \A b \in 1..1 : m + b - 1 = m
    OBVIOUS
  <2>2. \A b \in 1..1 : BatchNo(s, m + b - 1) = x
    BY <2>1
  <2> HIDE DEF x
  <2>3. QED
    BY <2>2
<1> HIDE DEF x
<1>2. <<x>> = [b \in 1..1 |-> x]
  OBVIOUS
<1>3. QED
  BY <1>1, <1>2 DEF BatchesFrom, x

(* What the accumulator holds with the batch at hand: the batches of the   *)
(* step so far.                                                            *)
LEMMA SumOfStep ==
  ASSUME LoadersInv, BatchInv, SumInv, stage = "batch", batch_idx < PlanBatches
  PROVE  LET p == cfg.per_step
             q == batch_idx \div p
             r == batch_idx % p
         IN  /\ BatchesWith = r + 1
             /\ p # 1 => SumWith(BatchOf(train)) =
                           [batches |-> BatchesFrom(train.starts, q * p, r + 1),
                            parts |-> 1]
<1> DEFINE p == cfg.per_step
           q == batch_idx \div p
           r == batch_idx % p
           s == train.starts
           next == BatchNo(s, batch_idx)
<1>1. cfg \in Configs /\ s \in Orders /\ batch_idx \in Nat
  BY DEF LoadersInv, BatchInv
<1>2. p \in Nat \ {0} /\ PlanBatches \in Nat \ {0}
  BY <1>1, ConfigFacts, TrainingSide
<1>3. q \in Nat /\ r \in 0..(p - 1) /\ batch_idx = (q * p) + r
  BY <1>1, <1>2, Division
<1>4. BatchOf(train) = next
  BY LoaderHasBatch
<1>5. StepStarts(batch_idx) <=> r = 0
  BY DEF StepStarts
<1>6. CASE r = 0
  <2>1. BatchesWith = r + 1
    BY <1>5, <1>6 DEF BatchesWith
  <2>2. ASSUME p # 1
        PROVE  SumWith(next) = [batches |-> BatchesFrom(s, q * p, r + 1), parts |-> 1]
    <3>1. p > 1
      BY <1>2, <2>2
    <3>2. SumWith(next) = Gradient(next)
      BY <1>5, <1>6, <2>2, <3>1 DEF SumWith
    <3>3. q * p = batch_idx /\ r + 1 = 1
      BY <1>1, <1>2, <1>3, <1>6
    <3>4. QED
      BY <1>1, <3>2, <3>3, OneBatch DEF Gradient
  <2>3. QED
    BY <1>4, <2>1, <2>2
<1>7. CASE r # 0
  <2>1. /\ step_batches = r
        /\ sum = [batches |-> BatchesFrom(s, q * p, r), parts |-> 1]
    BY <1>7 DEF SumInv
  <2>2. BatchesWith = r + 1
    BY <1>5, <1>7, <2>1 DEF BatchesWith
  <2>3. p # 1 /\ p > 1
    BY <1>2, <1>3, <1>7
  <2>4. SumWith(next) = [sum EXCEPT !.batches = Append(@, next)]
    BY <1>5, <1>7, <2>3 DEF SumWith
  <2>5. Append(BatchesFrom(s, q * p, r), next) = BatchesFrom(s, q * p, r + 1)
    <3>1. q * p \in Nat /\ r \in Nat /\ q * p + r < PlanBatches /\ batch_idx = q * p + r
      <4> HIDE DEF p, q, r
      <4>1. QED
        BY <1>1, <1>2, <1>3
    <3> HIDE DEF p, q, r
    <3>2. QED
      BY <1>1, <3>1, BatchesAppended
  <2>6. SumWith(next) = [batches |-> BatchesFrom(s, q * p, r + 1), parts |-> 1]
    BY <2>1, <2>4, <2>5
  <2>7. QED
    BY <1>4, <2>2, <2>6
<1>8. QED
  BY <1>6, <1>7

(* The gradient of a step is the mean over the batches of its group. *)
LEMMA GradientOfStep ==
  ASSUME LoadersInv, BatchInv, SumInv, stage = "batch", batch_idx < PlanBatches,
         StepEnds(batch_idx)
  PROVE  StepGradient(BatchOf(train)) = StepOf(train.starts, StepsAfter(batch_idx) + 1)
<1> DEFINE p == cfg.per_step
           q == batch_idx \div p
           r == batch_idx % p
           s == train.starts
           batch == BatchOf(train)
<1>1. cfg \in Configs /\ s \in Orders /\ batch_idx \in Nat
  BY DEF LoadersInv, BatchInv
<1>2. p \in Nat \ {0}
  BY <1>1, ConfigFacts
<1>3. q \in Nat /\ r \in 0..(p - 1) /\ batch_idx = (q * p) + r
  BY <1>1, <1>2, Division
<1>4. /\ StepsAfter(batch_idx) = q
      /\ StepsAfter(batch_idx + 1) = q + 1
      /\ GroupSize(q + 1) = r + 1
  BY <1>1, StepCompletes, LoaderCounts
<1>5. StepOf(s, q + 1) = [batches |-> BatchesFrom(s, q * p, r + 1), parts |-> r + 1]
  <2>1. (q + 1) - 1 = q
    BY <1>3
  <2>2. QED
    BY <1>4, <2>1 DEF StepOf
<1>6. /\ BatchesWith = r + 1
      /\ p # 1 => SumWith(batch) = [batches |-> BatchesFrom(s, q * p, r + 1), parts |-> 1]
  BY SumOfStep
<1>7. CASE p = 1
  <2>1. StepGradient(batch) = [batches |-> <<batch>>, parts |-> 1]
    BY <1>7 DEF StepGradient, Gradient
  <2>2. batch = BatchNo(s, batch_idx)
    BY LoaderHasBatch
  <2>3. r = 0 /\ r + 1 = 1 /\ q * p = batch_idx
    <3> HIDE DEF p, q, r
    <3>1. QED
      BY <1>1, <1>2, <1>3, <1>7
  <2>4. <<batch>> = BatchesFrom(s, q * p, r + 1)
    BY <1>1, <2>2, <2>3, OneBatch
  <2>5. QED
    BY <1>4, <1>5, <2>1, <2>3, <2>4
<1>8. CASE p # 1
  <2>1. StepGradient(batch) = [SumWith(batch) EXCEPT !.parts = BatchesWith]
    BY <1>8 DEF StepGradient
  <2>2. StepGradient(batch) = [batches |-> BatchesFrom(s, q * p, r + 1), parts |-> r + 1]
    BY <1>6, <1>8, <2>1
  <2>3. QED
    BY <1>4, <1>5, <2>2
<1>9. QED
  BY <1>7, <1>8

LEMMA SumStep ==
  ASSUME LoadersInv, BatchInv, SumInv, [Next]_vars
  PROVE  SumInv'
<1> DEFINE p == cfg.per_step
<1>1. cfg' = cfg /\ cfg \in Configs /\ train \in [starts : Orders, index : Nat]
  BY SameConfiguration DEF LoadersInv
<1>2. /\ p \in Nat \ {0} /\ PlanBatches \in Nat \ {0} /\ batch_idx \in Nat
      /\ PlanBatches' = PlanBatches /\ BatchesPerEpoch = PlanBatches
      /\ \A s, m, n : BatchesFrom(s, m, n)' = BatchesFrom(s, m, n)
      /\ \A i : StepEnds(i) <=> (i + 1) % p = 0 \/ i + 1 = PlanBatches
  BY <1>1, ConfigKept, ConfigFacts, TrainingSide, LoaderCounts DEF BatchInv
<1>3. CASE AccumulateBatch
  <2> DEFINE q == batch_idx \div p
             r == batch_idx % p
  <2>1. /\ stage = "batch" /\ batch_idx < PlanBatches
        /\ (batch_idx + 1) % p # 0 /\ batch_idx + 1 # PlanBatches
        /\ batch_idx' = batch_idx + 1
        /\ train' = Advanced(train)
        /\ sum' = SumWith(BatchOf(train)) /\ step_batches' = BatchesWith
    BY <1>2, <1>3 DEF AccumulateBatch, BatchReady
  <2>2. (batch_idx + 1) \div p = q /\ (batch_idx + 1) % p = r + 1
    BY <1>2, <2>1, NextInGroup
  <2>3. p # 1
    BY <1>2, <2>1
  <2>4. /\ step_batches' = r + 1
        /\ sum' = [batches |-> BatchesFrom(train.starts, q * p, r + 1), parts |-> 1]
    BY <2>1, <2>3, SumOfStep
  <2>5. train'.starts = train.starts
    BY <2>1, LoaderHasBatch
  <2> HIDE DEF q, r
  <2>6. QED
    BY <1>1, <1>2, <2>1, <2>2, <2>4, <2>5 DEF SumInv
<1>4. CASE TrainStep
  <2>1. /\ batch_idx' = batch_idx + 1
        /\ (batch_idx + 1) % p = 0 \/ batch_idx + 1 = PlanBatches
    BY <1>2, <1>4 DEF TrainStep
  <2>2. QED
    BY <1>1, <1>2, <2>1 DEF SumInv
<1>5. CASE StartEpoch
  <2>1. batch_idx' = 0 /\ 0 % p = 0
    BY <1>2, <1>5 DEF StartEpoch
  <2>2. QED
    BY <1>1, <2>1 DEF SumInv
<1>6. CASE StartRun \/ StepRefused \/ EndBatches \/ EvaluateBatch \/ EndEvaluate \/ EndEpoch
             \/ Interrupt
  <2>1. stage' # "batch"
    BY <1>6 DEF StartRun, StepRefused, EndBatches, EvaluateBatch, EndEvaluate, EndEpoch, Interrupt
  <2>2. QED
    BY <2>1 DEF SumInv
<1>7. CASE UNCHANGED vars
  BY <1>1, <1>2, <1>7 DEF SumInv, vars
<1>8. QED
  BY <1>3, <1>4, <1>5, <1>6, <1>7 DEF Next

(* A step that ends an epoch's group is a mean over some batches. *)
LEMMA StepIsGradient ==
  ASSUME cfg \in Configs, NEW s \in Orders, NEW i \in Nat, i < PlanBatches,
         (i + 1) % cfg.per_step = 0 \/ i + 1 = PlanBatches
  PROVE  StepOf(s, StepsAfter(i) + 1) \in Gradients
<1> DEFINE p == cfg.per_step
           q == i \div p
           r == i % p
<1>1. p \in Nat \ {0} /\ PlanBatches \in Nat \ {0}
  BY ConfigFacts, TrainingSide
<1>2. q \in Nat /\ r \in 0..(p - 1) /\ i = (q * p) + r
  BY <1>1, Division
<1>3. StepsAfter(i) = q /\ GroupSize(q + 1) = r + 1 /\ (q + 1) - 1 = q
  BY <1>2, StepCompletes
<1>4. q * p \in Nat /\ r + 1 \in Nat \ {0} /\ q * p + (r + 1) <= PlanBatches
  <2> HIDE DEF p, q, r
  <2>1. q * p \in Nat
    BY <1>1, <1>2
  <2>2. QED
    BY <1>1, <1>2, <2>1
<1>5. BatchesFrom(s, q * p, r + 1) \in Seq(Seq(Nat))
  <2> HIDE DEF p, q, r
  <2>1. QED
    BY <1>4, BatchesFromType
<1>6. StepOf(s, q + 1) = [batches |-> BatchesFrom(s, q * p, r + 1), parts |-> r + 1]
  BY <1>3 DEF StepOf
<1>7. StepOf(s, q + 1) \in Gradients
  BY <1>4, <1>5, <1>6 DEF Gradients
<1>8. QED
  BY <1>3, <1>7

LEMMA DoneStep ==
  ASSUME LoadersInv, BatchInv, SumInv, DoneInv, [Next]_vars
  PROVE  DoneInv'
<1> DEFINE Active == {"batch", "evaluate", "epochEnd"}
<1>1. cfg' = cfg /\ cfg \in Configs /\ train \in [starts : Orders, index : Nat]
  BY SameConfiguration DEF LoadersInv
<1>2. /\ PlanBatches \in Nat \ {0} /\ batch_idx \in Nat
      /\ PlanSteps \in Nat \ {0} /\ StepsAfter(0) = 0
      /\ PlanSteps' = PlanSteps /\ Orders' = Orders
      /\ \A s, j : StepOf(s, j)' = StepOf(s, j)
      /\ \A i : StepsAfter(i)' = StepsAfter(i)
  BY <1>1, ConfigKept, TrainingSide, PlanFacts DEF BatchInv
<1>3. /\ done \in Seq(Gradients)
      /\ Len(done) \in Nat
      /\ Len(done) <= PlanSteps
      /\ \E s \in Orders : Took(s)
  BY DEF DoneInv
<1>4. ASSUME UNCHANGED done,
             stage' \in Active => /\ stage \in Active
                                  /\ train' = train /\ batch_idx' = batch_idx
      PROVE  DoneInv'
  <2>1. \A s : Took(s) => Took(s)'
    BY <1>2, <1>4 DEF Took
  <2>2. stage' \in Active => Took(train.starts)' /\ Len(done') = StepsAfter(batch_idx)'
    <3>1. SUFFICES ASSUME stage' \in Active
                   PROVE  Took(train.starts)' /\ Len(done') = StepsAfter(batch_idx)'
      OBVIOUS
    <3>2. Took(train.starts) /\ Len(done) = StepsAfter(batch_idx)
      BY <1>4, <3>1 DEF DoneInv
    <3>3. Took(train.starts)'
      BY <1>2, <1>4, <3>1, <3>2 DEF Took
    <3>4. StepsAfter(batch_idx)' = StepsAfter(batch_idx)
      BY <1>1, <1>4, <3>1, ConfigKept DEF StepsAfter
    <3>5. QED
      BY <1>4, <3>2, <3>3, <3>4
  <2>3. QED
    BY <1>2, <1>3, <1>4, <2>1, <2>2 DEF DoneInv
<1>5. CASE StartRun \/ StepRefused \/ EndEpoch \/ Interrupt
  <2>1. UNCHANGED done /\ stage' \notin Active
    BY <1>5 DEF StartRun, StepRefused, EndEpoch, Interrupt, batches
  <2>2. QED
    BY <1>4, <2>1
<1>6. CASE AccumulateBatch
  <2>1. /\ stage = "batch" /\ batch_idx' = batch_idx + 1 /\ train' = Advanced(train)
        /\ batch_idx < PlanBatches /\ done' = done
        /\ (batch_idx + 1) % cfg.per_step # 0 /\ batch_idx + 1 # PlanBatches
    BY <1>6, LoaderCounts DEF AccumulateBatch, BatchReady
  <2>2. train'.starts = train.starts
    BY <2>1, LoaderHasBatch
  <2>3. StepsAfter(batch_idx + 1) = StepsAfter(batch_idx)
    BY <1>1, <1>2, <2>1, StepGoesOn
  <2>4. Took(train.starts) /\ Len(done) = StepsAfter(batch_idx)
    BY <2>1 DEF DoneInv
  <2>5. StepsAfter(batch_idx)' = StepsAfter(batch_idx + 1)
    BY <1>1, <2>1, ConfigKept DEF StepsAfter
  <2>6. Took(train.starts)'
    BY <1>2, <2>1, <2>2, <2>4 DEF Took
  <2>7. train'.starts \in Orders
    BY <1>1, <2>2
  <2>8. QED
    BY <1>2, <1>3, <2>1, <2>3, <2>4, <2>5, <2>6, <2>7 DEF DoneInv
<1>7. CASE TrainStep
  <2> DEFINE s == train.starts
             n == Len(done)
             new == StepOf(s, n + 1)
  <2>1. /\ stage = "batch" /\ batch_idx' = batch_idx + 1 /\ train' = Advanced(train)
        /\ batch_idx < PlanBatches /\ StepEnds(batch_idx)
        /\ done' = Append(done, StepGradient(BatchOf(train)))
        /\ (batch_idx + 1) % cfg.per_step = 0 \/ batch_idx + 1 = PlanBatches
    BY <1>7, LoaderCounts DEF TrainStep, BatchReady
  <2>2. train'.starts = s /\ s \in Orders
    BY <1>1, <2>1, LoaderHasBatch
  <2>3. Took(s) /\ n = StepsAfter(batch_idx)
    BY <2>1 DEF DoneInv
  <2>4. /\ StepsAfter(batch_idx + 1) = n + 1
        /\ n + 1 <= PlanSteps
    BY <1>1, <1>2, <2>1, <2>3, StepCompletes
  <2>5. new \in Gradients
    BY <1>1, <1>2, <2>1, <2>2, <2>3, StepIsGradient
  <2>6. done' = Append(done, new)
    BY <2>1, <2>3, GradientOfStep
  <2> HIDE DEF new
  <2>7. /\ done' \in Seq(Gradients)
        /\ Len(done') = n + 1
        /\ \A j \in 1..n : done'[j] = done[j]
        /\ done'[n + 1] = new
    BY <1>3, <2>5, <2>6, AppendProperties
  <2>8. \A j \in 1..Len(done') : done'[j] = StepOf(s, j)
    <3>1. \A j \in 1..(n + 1) : j \in 1..n \/ j = n + 1
      BY <1>3
    <3>2. QED
      BY <2>3, <2>7, <3>1 DEF Took, new
  <2>9. Took(train.starts)'
    BY <1>2, <2>2, <2>8 DEF Took
  <2>10. StepsAfter(batch_idx)' = StepsAfter(batch_idx + 1)
    BY <1>1, <2>1, ConfigKept DEF StepsAfter
  <2>11. QED
    BY <1>2, <2>2, <2>4, <2>7, <2>9, <2>10 DEF DoneInv
<1>8. CASE StartEpoch
  <2>1. done' = <<>> /\ batch_idx' = 0 /\ train' = Shuffled(train)
    BY <1>8 DEF StartEpoch
  <2>2. train'.starts \in Orders
    BY <1>1, <2>1, ShuffledOrder DEF Shuffled, Loader
  <2>3. done' \in Seq(Gradients) /\ Len(done') = 0 /\ \A s : Took(s)'
    BY <2>1 DEF Took
  <2>4. StepsAfter(batch_idx)' = StepsAfter(0)
    BY <1>1, <2>1, ConfigKept DEF StepsAfter
  <2>5. QED
    BY <1>2, <2>2, <2>3, <2>4 DEF DoneInv
<1>9. CASE EndBatches \/ EvaluateBatch \/ EndEvaluate
  <2>1. UNCHANGED <<done, train, batch_idx>> /\ stage \in Active
    BY <1>9 DEF EndBatches, EvaluateBatch, EndEvaluate, batches
  <2>2. QED
    BY <1>4, <2>1
<1>10. CASE UNCHANGED vars
  <2>1. UNCHANGED <<done, train, batch_idx, stage>>
    BY <1>10 DEF vars
  <2>2. QED
    BY <1>4, <2>1
<1>11. QED
  BY <1>5, <1>6, <1>7, <1>8, <1>9, <1>10 DEF Next

-----------------------------------------------------------------------------
(* Steps and rates                                                         *)

LEMMA ScheduleFacts ==
  ASSUME NEW s \in Schedules, NEW total \in Nat
  PROVE  /\ s.cosine \in BOOLEAN /\ s.warmup \in Nat /\ s.floor_num \in Nat
         /\ s.floor_den \in Nat \ {0} /\ s.floor_num <= s.floor_den
         /\ AtLeastOne(s.warmup) \in Nat \ {0}
         /\ DecaySteps(s, total) \in Nat \ {0}
         /\ Scale(s, total) \in Nat
<1>1. /\ s.cosine \in BOOLEAN /\ s.warmup \in Nat /\ s.floor_num \in Nat
      /\ s.floor_den \in Nat \ {0} /\ s.floor_num <= s.floor_den
  BY DEF Schedules
<1>2. AtLeastOne(s.warmup) \in Nat \ {0} /\ DecaySteps(s, total) \in Nat \ {0}
  BY <1>1 DEF AtLeastOne, DecaySteps
<1>3. \A x, y, z \in Nat : x * y * z \in Nat
  OBVIOUS
<1>4. QED
  BY <1>1, <1>2, <1>3 DEF Scale

(* The three stretches of a schedule: it rises, it stays, it decays. *)
LEMMA RateInWarmup ==
  ASSUME NEW s \in Schedules, NEW total \in Nat, NEW n \in Nat,
         s.cosine, n + 1 <= s.warmup
  PROVE  Rate(s, total, n) = (n + 1) * DecaySteps(s, total) * s.floor_den
BY ScheduleFacts DEF Rate

LEMMA RateStays ==
  ASSUME NEW s \in Schedules, NEW total \in Nat, NEW n \in Nat,
         ~s.cosine \/ (n + 1 > s.warmup /\ total <= s.warmup)
  PROVE  Rate(s, total, n) = Scale(s, total)
BY ScheduleFacts DEF Rate

(* The decay steps made, of which there are no more than DecaySteps. *)
Decayed(s, total, n) ==
  IF n + 1 - s.warmup <= DecaySteps(s, total) THEN n + 1 - s.warmup
  ELSE DecaySteps(s, total)

LEMMA RateInDecay ==
  ASSUME NEW s \in Schedules, NEW total \in Nat, NEW n \in Nat,
         s.cosine, n + 1 > s.warmup, ~(total <= s.warmup)
  PROVE  Rate(s, total, n) =
           AtLeastOne(s.warmup)
             * (s.floor_num * DecaySteps(s, total)
                  + (s.floor_den - s.floor_num)
                      * (DecaySteps(s, total) - Decayed(s, total, n)))
<1>1. s.warmup \in Nat
  BY ScheduleFacts
<1>2. /\ ~(n + 1 <= s.warmup)
      /\ total > s.warmup
  BY <1>1
<1>3. QED
  BY <1>1, <1>2 DEF Rate, Decayed

LEMMA DecayedType ==
  ASSUME NEW s \in Schedules, NEW total \in Nat, NEW n \in Nat, n + 1 > s.warmup
  PROVE  /\ Decayed(s, total, n) \in Nat \ {0}
         /\ Decayed(s, total, n) <= DecaySteps(s, total)
         /\ Decayed(s, total, n) <= Decayed(s, total, n + 1)
BY ScheduleFacts DEF Decayed

LEMMA RateType ==
  ASSUME NEW s \in Schedules, NEW total \in Nat, NEW n \in Nat
  PROVE  Rate(s, total, n) \in Int
<1> DEFINE d == DecaySteps(s, total)
           f == s.floor_num
           g == s.floor_den
           w == AtLeastOne(s.warmup)
           x == Decayed(s, total, n)
<1>1. d \in Int /\ f \in Int /\ g \in Int /\ w \in Int /\ s.warmup \in Int
  BY ScheduleFacts
<1>2. CASE s.cosine /\ n + 1 <= s.warmup
  <2>1. Rate(s, total, n) = (n + 1) * d * g
    BY <1>2, RateInWarmup
  <2> HIDE DEF d, g
  <2>2. (n + 1) * d * g \in Int
    BY <1>1
  <2>3. QED
    BY <2>1, <2>2
<1>3. CASE ~s.cosine \/ (n + 1 > s.warmup /\ total <= s.warmup)
  BY <1>3, RateStays, ScheduleFacts
<1>4. CASE s.cosine /\ n + 1 > s.warmup /\ ~(total <= s.warmup)
  <2>1. Rate(s, total, n) = w * (f * d + (g - f) * (d - x))
    BY <1>4, RateInDecay
  <2>2. x \in Int
    BY <1>4, DecayedType
  <2> HIDE DEF d, f, g, w, x
  <2>3. w * (f * d + (g - f) * (d - x)) \in Int
    <3>1. f * d \in Int /\ (g - f) * (d - x) \in Int
      BY <1>1, <2>2
    <3>2. \A a \in Int : w * a \in Int
      BY <1>1
    <3>3. QED
      BY <3>1, <3>2
  <2>4. QED
    BY <2>1, <2>3
<1>5. QED
  BY <1>1, <1>2, <1>3, <1>4, ScheduleFacts

(* From one step to the next the rate rises in the warmup, and never after *)
(* its last step.                                                          *)
LEMMA RateTurnsOnce ==
  ASSUME NEW s \in Schedules, NEW total \in Nat, NEW n \in Nat
  PROVE  IF s.cosine /\ n + 1 < s.warmup
         THEN Rate(s, total, n) < Rate(s, total, n + 1)
         ELSE Rate(s, total, n) >= Rate(s, total, n + 1)
<1> DEFINE d == DecaySteps(s, total)
           f == s.floor_num
           g == s.floor_den
           w == AtLeastOne(s.warmup)
           x == Decayed(s, total, n)
           y == Decayed(s, total, n + 1)
<1>1. /\ d \in Nat \ {0} /\ f \in Nat /\ g \in Nat \ {0} /\ f <= g
      /\ w \in Nat \ {0} /\ s.warmup \in Nat
      /\ Scale(s, total) \in Nat /\ Scale(s, total) = w * d * g
  BY ScheduleFacts DEF Scale
<1>2. CASE s.cosine /\ n + 1 < s.warmup
  <2>1. /\ Rate(s, total, n) = (n + 1) * d * g
        /\ Rate(s, total, n + 1) = ((n + 1) + 1) * d * g
    BY <1>1, <1>2, RateInWarmup
  <2> HIDE DEF d, g
  <2>2. (n + 1) * d * g < ((n + 1) + 1) * d * g
    <3>1. d * g \in Nat \ {0}
      BY <1>1
    <3>2. /\ (n + 1) * d * g = (n + 1) * (d * g)
          /\ ((n + 1) + 1) * d * g = (n + 1) * (d * g) + d * g
          /\ (n + 1) * (d * g) \in Nat
      BY <1>1
    <3>3. QED
      BY <3>1, <3>2
  <2>3. QED
    BY <1>2, <2>1, <2>2
<1>3. CASE ~s.cosine \/ (n + 1 > s.warmup /\ total <= s.warmup)
  <2>1. /\ Rate(s, total, n) = Scale(s, total)
        /\ Rate(s, total, n + 1) = Scale(s, total)
    BY <1>1, <1>3, RateStays
  <2>2. QED
    BY <1>1, <1>3, <2>1
<1>4. CASE s.cosine /\ n + 1 = s.warmup
  <2>1. /\ Rate(s, total, n) = w * d * g
    <3>1. n + 1 = w
      BY <1>1, <1>4 DEF AtLeastOne
    <3>2. QED
      BY <1>1, <1>4, <3>1, RateInWarmup
  <2>2. CASE total <= s.warmup
    BY <1>1, <1>4, <2>1, <2>2, RateStays
  <2>3. CASE ~(total <= s.warmup)
    <3>1. /\ Rate(s, total, n + 1) = w * (f * d + (g - f) * (d - y))
          /\ y \in Nat \ {0} /\ y <= d
      BY <1>1, <1>4, <2>3, RateInDecay, DecayedType
    <3> HIDE DEF d, f, g, w, y
    <3>2. (g - f) * (d - y) <= (g - f) * d
      BY <1>1, <3>1
    <3>3. f * d + (g - f) * (d - y) <= g * d
      BY <1>1, <3>1, <3>2
    <3>4. w * (f * d + (g - f) * (d - y)) <= w * (g * d)
      BY <1>1, <3>1, <3>3
    <3>5. w * (g * d) = w * d * g
      BY <1>1
    <3>6. w * (f * d + (g - f) * (d - y)) <= w * d * g
      BY <3>4, <3>5
    <3>7. QED
      BY <1>4, <1>1, <2>1, <3>1, <3>6
  <2>4. QED
    BY <2>2, <2>3
<1>5. CASE s.cosine /\ n + 1 > s.warmup /\ ~(total <= s.warmup)
  <2>1. /\ Rate(s, total, n) = w * (f * d + (g - f) * (d - x))
        /\ Rate(s, total, n + 1) = w * (f * d + (g - f) * (d - y))
        /\ x \in Nat \ {0} /\ y \in Nat \ {0} /\ x <= d /\ y <= d /\ x <= y
    BY <1>1, <1>5, RateInDecay, DecayedType
  <2> HIDE DEF d, f, g, w, x, y
  <2>2. (g - f) * (d - y) <= (g - f) * (d - x)
    BY <1>1, <2>1
  <2>3. w * (f * d + (g - f) * (d - y)) <= w * (f * d + (g - f) * (d - x))
    BY <1>1, <2>1, <2>2
  <2>4. QED
    BY <1>5, <1>1, <2>1, <2>3
<1>6. QED
  BY <1>1, <1>2, <1>3, <1>4, <1>5

LEMMA StepsStep ==
  ASSUME LoadersInv, BatchInv, StepsInv, [Next]_vars
  PROVE  StepsInv'
<1> DEFINE P == PlanSteps
           Follows(r) == r \in Seq(Int) /\ RatesFollow(r)
           Keeps(k) == /\ k \in [epoch : Nat, steps : Nat, rates : Seq(Int)]
                       /\ k.steps = k.epoch * P
                       /\ Len(k.rates) = k.steps
                       /\ Follows(k.rates)
<1>1. cfg' = cfg /\ cfg \in Configs
  BY SameConfiguration DEF LoadersInv
<1>2. /\ PlanBatches \in Nat \ {0} /\ batch_idx \in Nat
      /\ P \in Nat \ {0} /\ StepsAfter(0) = 0 /\ StepsAfter(PlanBatches) = P
      /\ P' = P /\ PlanBatches' = PlanBatches
      /\ \A r : RatesFollow(r)' <=> RatesFollow(r)
  BY <1>1, ConfigKept, TrainingSide, PlanFacts DEF BatchInv, RatesFollow
<1>3. /\ epoch \in Nat /\ steps \in Nat /\ Len(rates) = steps
      /\ Follows(rates) /\ Keeps(kept)
  BY DEF StepsInv
<1>4. BatchInv'
  BY BatchStep
<1>5. \A i : StepsAfter(i)' = StepsAfter(i)
  BY <1>1, ConfigKept
<1> HIDE DEF P
<1>6. epoch * P \in Nat /\ (epoch + 1) * P = epoch * P + P
  BY <1>2, <1>3
<1>7. ASSUME UNCHANGED <<epoch, steps, rates>>, kept' = kept,
             stage' = "epoch" => steps = epoch * P,
             stage' = "batch" => steps = epoch * P + StepsAfter(batch_idx)',
             stage' \in {"evaluate", "epochEnd"} => steps = (epoch + 1) * P
      PROVE  StepsInv'
  BY <1>2, <1>3, <1>7 DEF StepsInv, P
<1>8. CASE StartRun
  <2>1. /\ epoch' = kept.epoch /\ steps' = kept.steps /\ rates' = kept.rates
        /\ kept' = kept /\ stage' = "epoch"
    BY <1>8 DEF StartRun
  <2>2. QED
    BY <1>2, <1>3, <2>1 DEF StepsInv, P
<1>9. CASE StartEpoch
  <2>1. /\ UNCHANGED <<epoch, steps, rates>> /\ kept' = kept
        /\ stage = "epoch" /\ stage' = "batch" /\ batch_idx' = 0
    BY <1>9 DEF StartEpoch, position
  <2>2. StepsAfter(batch_idx)' = 0
    BY <1>1, <1>2, <2>1, ConfigKept DEF StepsAfter
  <2>3. steps = epoch * P
    BY <2>1 DEF StepsInv, P
  <2>4. QED
    BY <1>3, <1>6, <1>7, <2>1, <2>2, <2>3
<1>10. CASE AccumulateBatch
  <2>1. /\ UNCHANGED <<epoch, steps, rates>> /\ kept' = kept
        /\ stage = "batch" /\ stage' = "batch" /\ batch_idx' = batch_idx + 1
        /\ batch_idx < PlanBatches
        /\ (batch_idx + 1) % cfg.per_step # 0 /\ batch_idx + 1 # PlanBatches
    BY <1>10, LoaderCounts DEF AccumulateBatch, BatchReady, position
  <2>2. StepsAfter(batch_idx)' = StepsAfter(batch_idx + 1)
    BY <1>1, <2>1, ConfigKept DEF StepsAfter
  <2>3. StepsAfter(batch_idx + 1) = StepsAfter(batch_idx)
    BY <1>1, <1>2, <2>1, StepGoesOn
  <2>4. steps = epoch * P + StepsAfter(batch_idx)
    BY <2>1 DEF StepsInv, P
  <2>5. QED
    BY <1>7, <2>1, <2>2, <2>3, <2>4
<1>11. CASE TrainStep
  <2>1. /\ epoch' = epoch /\ kept' = kept
        /\ steps' = steps + 1 /\ rates' = Append(rates, NextRate)
        /\ stage = "batch" /\ stage' = "batch" /\ batch_idx' = batch_idx + 1
        /\ batch_idx < PlanBatches
        /\ (batch_idx + 1) % cfg.per_step = 0 \/ batch_idx + 1 = PlanBatches
    BY <1>11, LoaderCounts DEF TrainStep, BatchReady
  <2>2. StepsAfter(batch_idx)' = StepsAfter(batch_idx + 1)
    BY <1>1, <2>1, ConfigKept DEF StepsAfter
  <2>3. /\ StepsAfter(batch_idx + 1) = StepsAfter(batch_idx) + 1
        /\ StepsAfter(batch_idx) \in Nat
    BY <1>1, <1>2, <2>1, StepCompletes, Division, ConfigFacts
  <2>4. steps = epoch * P + StepsAfter(batch_idx)
    BY <2>1 DEF StepsInv, P
  <2>5. steps' = epoch' * P + StepsAfter(batch_idx)'
    BY <1>6, <2>1, <2>2, <2>3, <2>4
  <2> DEFINE new == Rate(cfg.schedule, P * cfg.epochs, steps)
  <2>6. NextRate = new
    BY LoaderCounts DEF NextRate, P
  <2>7. new \in Int
    <3>1. cfg.schedule \in Schedules /\ cfg.epochs \in Nat
      BY <1>1, ConfigFacts
    <3>2. P * cfg.epochs \in Nat
      BY <1>2, <3>1
    <3>3. QED
      BY <1>3, <3>1, <3>2, RateType
  <2>8. RatesFollow(rates')
    <3> HIDE DEF new
    <3>1. /\ rates' \in Seq(Int) /\ Len(rates') = steps + 1
          /\ \A i \in 1..steps : rates'[i] = rates[i]
          /\ rates'[steps + 1] = new
      BY <1>3, <2>1, <2>6, <2>7, AppendProperties
    <3>2. SUFFICES ASSUME NEW i \in 1..Len(rates')
                   PROVE  rates'[i] = Rate(cfg.schedule, PlanSteps * cfg.epochs, i - 1)
      BY DEF RatesFollow
    <3>3. CASE i \in 1..steps
      BY <1>3, <3>1, <3>3 DEF RatesFollow
    <3>4. CASE i = steps + 1
      <4>1. i - 1 = steps
        BY <1>3, <3>4
      <4>2. QED
        BY <3>1, <3>4, <4>1 DEF new, P
    <3>5. QED
      BY <1>3, <3>1, <3>3, <3>4
  <2>9. /\ rates' \in Seq(Int) /\ Len(rates') = steps'
    <3> HIDE DEF new
    <3>1. QED
      BY <1>3, <2>1, <2>6, <2>7, AppendProperties
  <2> HIDE DEF new
  <2>10. RatesFollow(rates)' /\ RatesFollow(kept.rates)'
    BY <1>2, <1>3, <2>1, <2>8
  <2>11. QED
    BY <1>2, <1>3, <2>1, <2>5, <2>9, <2>10 DEF StepsInv, P
<1>12. CASE StepRefused \/ Interrupt
  <2>1. UNCHANGED <<epoch, steps, rates>> /\ kept' = kept /\ stage' = "down"
    BY <1>12 DEF StepRefused, Interrupt, position
  <2>2. QED
    BY <1>7, <2>1
<1>13. CASE EndBatches
  <2>1. /\ UNCHANGED <<epoch, steps, rates>> /\ kept' = kept /\ batch_idx' = batch_idx
        /\ stage = "batch" /\ stage' \in {"evaluate", "epochEnd"}
    BY <1>13 DEF EndBatches, position, batches
  <2>2. batch_idx = PlanBatches
    BY <1>2, <1>4, <2>1 DEF BatchInv
  <2>3. steps = epoch * P + P
    BY <1>2, <2>1, <2>2 DEF StepsInv, P
  <2>4. QED
    BY <1>6, <1>7, <2>1, <2>3
<1>14. CASE EvaluateBatch \/ EndEvaluate
  <2>1. /\ UNCHANGED <<epoch, steps, rates>> /\ kept' = kept
        /\ stage = "evaluate" /\ stage' \in {"evaluate", "epochEnd"}
    BY <1>14 DEF EvaluateBatch, EndEvaluate, position
  <2>2. steps = (epoch + 1) * P
    BY <2>1 DEF StepsInv, P
  <2>3. QED
    BY <1>7, <2>1, <2>2
<1>15. CASE EndEpoch
  <2>1. /\ epoch' = epoch + 1 /\ UNCHANGED <<steps, rates>>
        /\ stage = "epochEnd" /\ stage' \in {"down", "epoch"}
        /\ kept' = kept \/ kept' = [epoch |-> epoch + 1, steps |-> steps, rates |-> rates]
    BY <1>15 DEF EndEpoch
  <2>2. steps = epoch' * P
    BY <2>1 DEF StepsInv, P
  <2>3. Keeps(kept')
    BY <1>3, <2>1, <2>2
  <2>4. QED
    BY <1>2, <1>3, <2>1, <2>2, <2>3 DEF StepsInv, P
<1>16. CASE UNCHANGED vars
  <2>1. /\ UNCHANGED <<epoch, steps, rates>> /\ kept' = kept
        /\ stage' = stage /\ batch_idx' = batch_idx
    BY <1>16 DEF vars
  <2>2. StepsAfter(batch_idx)' = StepsAfter(batch_idx)
    BY <1>1, <2>1, ConfigKept DEF StepsAfter
  <2>3. QED
    BY <1>7, <2>1, <2>2 DEF StepsInv, P
<1>17. QED
  BY <1>8, <1>9, <1>10, <1>11, <1>12, <1>13, <1>14, <1>15, <1>16 DEF Next

-----------------------------------------------------------------------------
(* Evaluations                                                             *)

(* The validation loader cuts its windows from the front, batch by batch.  *)
LEMMA EvaluationReads ==
  ASSUME LoadersInv, EvaluationInv, stage = "evaluate", ~Exhausted(val)
  PROVE  /\ val.index + geo.batch <= ValidationSize
         /\ Advanced(val).index = val.index + geo.batch
         /\ BatchOf(val) \in Seq(ValidationWindows(geo))
         /\ evaluated \o BatchOf(val) = SubSeq(ValidationBlocks, 1, val.index + geo.batch)
<1> DEFINE V == ValidationBlocks
           W == ValidationWindows(geo)
           b == geo.batch
           i == val.index
<1>1. /\ cfg \in Configs
      /\ val \in [starts : {V}, index : Nat]
      /\ i <= ValidationSize
      /\ evaluated = SubSeq(V, 1, i)
  BY DEF LoadersInv, EvaluationInv
<1>2. /\ V \in [1..ValidationSize -> W]
      /\ ValidationSize \in Nat /\ b \in Nat \ {0} /\ i \in Nat
      /\ IndexModulus \in Nat \ {0} /\ ValidationSize + b < IndexModulus
  BY <1>1, ValidationSide, ConfigFacts DEF ValidationSize
<1>3. val.starts = V
  BY <1>1
<1> HIDE DEF V, W, b, i
<1>4. (i + b) % IndexModulus = i + b
  BY <1>1, <1>2
<1>5. V \in Seq(W) /\ Len(V) = ValidationSize
  BY <1>2, SeqDef
<1>6. i + b <= ValidationSize
  <2>1. ~((i + b) % IndexModulus > Len(V))
    BY <1>3 DEF Exhausted, i, b
  <2>2. QED
    BY <1>2, <1>4, <1>5, <2>1
<1>7. Advanced(val).index = i + b
  BY <1>1, <1>4 DEF Advanced, i, b
<1>8. BatchOf(val) = SubSeq(V, i + 1, i + b)
  BY <1>3 DEF BatchOf, i, b
<1>9. SubSeq(V, i + 1, i + b) \in Seq(W)
  <2>1. \A k \in (i + 1)..(i + b) : V[k] \in W
    BY <1>2, <1>6
  <2>2. QED
    BY <1>2, <2>1, SubSeqProperties
<1>10. SubSeq(V, 1, i) \o SubSeq(V, i + 1, i + b) = SubSeq(V, 1, i + b)
  <2>1. 1 \in 1..(Len(V) + 1) /\ i \in 0..Len(V) /\ i + b \in i..Len(V)
    BY <1>1, <1>2, <1>5, <1>6
  <2>2. QED
    BY <1>2, <1>5, <2>1, ConcatAdjacentSubSeq
<1>11. QED
  BY <1>1, <1>6, <1>7, <1>8, <1>9, <1>10 DEF V, W, b, i

(* It stops when it has read the windows of the last batch. *)
LEMMA EvaluationReadAll ==
  ASSUME LoadersInv, EvaluationInv, stage = "evaluate", Exhausted(val)
  PROVE  evaluated = ValidationBlocks
<1> DEFINE b == geo.batch
           n == ValidationSize \div b
           i == val.index
           V == ValidationBlocks
           W == ValidationWindows(geo)
<1>1. PICK k \in Nat : i = k * b
  BY DEF EvaluationInv
<1>2. /\ cfg \in Configs
      /\ val \in [starts : {V}, index : Nat]
      /\ i <= ValidationSize
      /\ evaluated = SubSeq(V, 1, i)
      /\ Len(val.starts) = ValidationSize
  BY LoaderCounts DEF LoadersInv, EvaluationInv
<1>3. /\ V \in [1..ValidationSize -> W]
      /\ ValidationSize = n * b
      /\ ValidationSize \in Nat /\ b \in Nat \ {0} /\ n \in Nat
      /\ IndexModulus \in Nat \ {0} /\ ValidationSize + b < IndexModulus
  BY <1>2, ValidationSide, ConfigFacts DEF ValidationSize
<1>4. i \in Nat
  BY <1>2
<1>5. (i + b) % IndexModulus > ValidationSize
  BY <1>2 DEF Exhausted
<1> HIDE DEF b, n, i, V, W
<1>6. i + b > ValidationSize
  BY <1>2, <1>3, <1>4, <1>5
<1>7. k = n
  <2>1. k * b <= n * b /\ (k + 1) * b > n * b
    BY <1>1, <1>2, <1>3, <1>6
  <2>2. ~(k + 1 <= n)
    <3>1. SUFFICES ASSUME k + 1 <= n PROVE FALSE
      OBVIOUS
    <3>2. (k + 1) * b <= n * b
      BY <1>3, <3>1
    <3>3. (k + 1) * b \in Nat /\ n * b \in Nat
      BY <1>3
    <3>4. QED
      BY <2>1, <3>2, <3>3
  <2>3. ~(n + 1 <= k)
    <3>1. SUFFICES ASSUME n + 1 <= k PROVE FALSE
      OBVIOUS
    <3>2. (n + 1) * b <= k * b /\ (n + 1) * b = n * b + b
      BY <1>3, <3>1
    <3>3. n * b \in Nat /\ k * b \in Nat
      BY <1>3
    <3>4. QED
      BY <1>3, <2>1, <3>2, <3>3
  <2>4. QED
    BY <1>3, <2>2, <2>3
<1>8. i = ValidationSize
  BY <1>1, <1>3, <1>7
<1>9. V \in Seq(W) /\ Len(V) = ValidationSize
  BY <1>3, SeqDef
<1>10. SubSeq(V, 1, Len(V)) = V
  BY <1>9, SubSeqFull
<1>11. QED
  BY <1>2, <1>8, <1>9, <1>10 DEF V

LEMMA EvaluationStep ==
  ASSUME LoadersInv, EvaluationInv, [Next]_vars
  PROVE  EvaluationInv'
<1> DEFINE b == geo.batch
           V == ValidationBlocks
           W == ValidationWindows(geo)
<1>1. /\ cfg' = cfg /\ geo' = geo /\ W' = W
      /\ ValidationBlocks' = V /\ ValidationSize' = ValidationSize
  BY SameConfiguration, ConfigKept
<1>2. /\ cfg \in Configs
      /\ val \in [starts : {V}, index : Nat] /\ val.starts = V
      /\ evaluated \in Seq(W)
  BY DEF LoadersInv, EvaluationInv
<1>3. /\ ValidationSize \in Nat /\ geo.batch \in Nat \ {0}
      /\ V \in Seq(W) /\ Len(V) = ValidationSize
  BY <1>2, ConfigFacts, ValidationSide, SeqDef
<1>4. ASSUME evaluated' = evaluated, stage' \notin {"evaluate", "epochEnd"}
      PROVE  EvaluationInv'
  BY <1>1, <1>2, <1>4 DEF EvaluationInv
<1>5. CASE StartRun \/ StartEpoch \/ AccumulateBatch \/ TrainStep \/ StepRefused
           \/ EndEpoch \/ Interrupt
  <2>1. evaluated' = evaluated /\ stage' \notin {"evaluate", "epochEnd"}
    BY <1>5 DEF StartRun, StartEpoch, AccumulateBatch, TrainStep, StepRefused,
                EndEpoch, Interrupt, BatchReady
  <2>2. QED
    BY <1>4, <2>1
<1>6. CASE EndBatches
  <2>1. CASE ValidationDue
    <3>1. stage' = "evaluate" /\ evaluated' = <<>> /\ val'.index = 0
      BY <1>6, <2>1 DEF EndBatches, Loader
    <3>2. SubSeq(V, 1, 0) = <<>>
      BY SubSeqEmpty
    <3>3. 0 = 0 * geo.batch /\ <<>> \in Seq(W)
      BY <1>3
    <3>4. QED
      BY <1>1, <1>3, <3>1, <3>2, <3>3 DEF EvaluationInv
  <2>2. CASE ~ValidationDue
    <3>1. stage' = "epochEnd" /\ evaluated' = evaluated /\ val' = val /\ epoch' = epoch
      BY <1>6, <2>2 DEF EndBatches, position
    <3>2. ~ValidationDue'
      BY <1>1, <2>2, <3>1 DEF ValidationDue
    <3>3. QED
      BY <1>1, <1>2, <3>1, <3>2 DEF EvaluationInv
  <2>3. QED
    BY <2>1, <2>2
<1>7. CASE EvaluateBatch
  <2>1. /\ stage = "evaluate" /\ stage' = "evaluate" /\ ~Exhausted(val)
        /\ evaluated' = evaluated \o BatchOf(val) /\ val' = Advanced(val)
    BY <1>7 DEF EvaluateBatch
  <2>2. /\ val.index + geo.batch <= ValidationSize
        /\ val'.index = val.index + geo.batch
        /\ BatchOf(val) \in Seq(W)
        /\ evaluated' = SubSeq(V, 1, val.index + geo.batch)
    BY <2>1, EvaluationReads
  <2>3. evaluated' \in Seq(W)
    <3> HIDE DEF W
    <3>1. evaluated \o BatchOf(val) \in Seq(W)
      BY <1>2, <2>2, ConcatProperties
    <3>2. QED
      BY <2>1, <3>1
  <2>4. \E k \in Nat : val'.index = k * geo.batch
    <3>1. PICK k \in Nat : val.index = k * geo.batch
      BY <2>1 DEF EvaluationInv
    <3>2. \A x \in Nat : (k + 1) * x = k * x + x
      OBVIOUS
    <3>3. val'.index = (k + 1) * geo.batch
      BY <1>3, <2>2, <3>1, <3>2
    <3>4. QED
      BY <3>3
  <2>5. QED
    BY <1>1, <2>1, <2>2, <2>3, <2>4 DEF EvaluationInv
<1>8. CASE EndEvaluate
  <2>1. stage = "evaluate" /\ Exhausted(val) /\ stage' = "epochEnd" /\ evaluated' = evaluated
    BY <1>8 DEF EndEvaluate
  <2>2. evaluated = V
    BY <2>1, EvaluationReadAll
  <2>3. QED
    BY <1>1, <1>2, <2>1, <2>2 DEF EvaluationInv
<1>9. CASE UNCHANGED vars
  <2>1. stage' = stage /\ val' = val /\ evaluated' = evaluated /\ epoch' = epoch
    BY <1>9 DEF vars
  <2>2. ValidationDue' <=> ValidationDue
    BY <1>1, <2>1 DEF ValidationDue
  <2>3. QED
    BY <1>1, <2>1, <2>2 DEF EvaluationInv
<1>10. QED
  BY <1>5, <1>6, <1>7, <1>8, <1>9 DEF Next

-----------------------------------------------------------------------------

LEMMA EpochsStart ==
  ASSUME Init
  PROVE  EpochsInv
<1>1. LoadersInv
  BY LoadersStart
<1>2. cfg \in Configs /\ PlanSteps \in Nat \ {0}
  BY <1>1, PlanFacts DEF LoadersInv
<1>3. BatchInv
  BY DEF Init, BatchInv
<1>4. SumInv
  BY DEF Init, SumInv
<1>5. DoneInv
  <2>1. done = <<>> /\ stage = "down"
    BY DEF Init
  <2>2. TrainingBlocks \in Orders
    BY <1>2, BlocksAreAnOrder
  <2>3. \A s : Took(s)
    BY <2>1 DEF Took
  <2>4. QED
    BY <1>2, <2>1, <2>2, <2>3 DEF DoneInv
<1>6. StepsInv
  BY <1>2 DEF Init, StepsInv, RatesFollow
<1>7. EvaluationInv
  BY DEF Init, EvaluationInv
<1>8. QED
  BY <1>1, <1>3, <1>4, <1>5, <1>6, <1>7 DEF EpochsInv

LEMMA EpochsStep ==
  ASSUME EpochsInv, [Next]_vars
  PROVE  EpochsInv'
BY LoadersStep, BatchStep, SumStep, DoneStep, StepsStep, EvaluationStep DEF EpochsInv

LEMMA EpochsInvariant == Spec => []EpochsInv
<1>1. Init => EpochsInv
  BY EpochsStart
<1>2. EpochsInv /\ [Next]_vars => EpochsInv'
  BY EpochsStep
<1>3. QED
  BY <1>1, <1>2, PTL DEF Spec

-----------------------------------------------------------------------------
(* The schedule                                                            *)

(* At every epoch boundary of every run of a plan, optimizer_steps is the  *)
(* number of completed epochs times steps_per_epoch, however the epochs    *)
(* were interrupted and resumed: what TrainingSessionController computes   *)
(* the learning rate and the checkpoint positions from.                    *)
THEOREM EpochsAreWholeSteps == Spec => []StepsAreWholeEpochs
<1>1. EpochsInv => StepsAreWholeEpochs
  BY LoaderCounts DEF EpochsInv, StepsInv, StepsAreWholeEpochs
<1>2. QED
  BY <1>1, EpochsInvariant, PTL

(* Over all the steps behind the current weights, LearningRateSchedule::at *)
(* rises to the end of the warmup and never after it, for every schedule,  *)
(* plan length and pattern of interruptions.                               *)
THEOREM RateTurnsOncePerPlan == Spec => []RateRisesThenFalls
<1>1. EpochsInv => RateRisesThenFalls
  <2>1. SUFFICES ASSUME EpochsInv, NEW i \in 1..(Len(rates) - 1)
                 PROVE  IF cfg.schedule.cosine /\ i < cfg.schedule.warmup
                        THEN rates[i] < rates[i + 1]
                        ELSE rates[i] >= rates[i + 1]
    BY DEF RateRisesThenFalls
  <2> DEFINE s == cfg.schedule
             total == PlanSteps * cfg.epochs
  <2>2. /\ cfg \in Configs
        /\ Len(rates) \in Nat
        /\ \A j \in 1..Len(rates) : rates[j] = Rate(s, total, j - 1)
    BY <2>1 DEF EpochsInv, LoadersInv, StepsInv, RatesFollow
  <2>3. s \in Schedules /\ total \in Nat
    <3>1. PlanSteps \in Nat /\ cfg.epochs \in Nat /\ s \in Schedules
      BY <2>2, PlanFacts, ConfigFacts
    <3>2. QED
      BY <3>1
  <2> HIDE DEF total
  <2>4. /\ i \in 1..Len(rates) /\ i + 1 \in 1..Len(rates)
        /\ i - 1 \in Nat /\ (i - 1) + 1 = i /\ (i + 1) - 1 = i
    BY <2>2
  <2>5. rates[i] = Rate(s, total, i - 1) /\ rates[i + 1] = Rate(s, total, i)
    BY <2>2, <2>4
  <2>6. IF s.cosine /\ (i - 1) + 1 < s.warmup
        THEN Rate(s, total, i - 1) < Rate(s, total, (i - 1) + 1)
        ELSE Rate(s, total, i - 1) >= Rate(s, total, (i - 1) + 1)
    BY <2>3, <2>4, RateTurnsOnce
  <2>7. QED
    BY <2>4, <2>5, <2>6
<1>2. QED
  BY <1>1, EpochsInvariant, PTL

-----------------------------------------------------------------------------
(* The groups of an epoch                                                  *)

(* Every step but the last one has batches_per_step batches, and the last  *)
(* one has what is left.                                                   *)
LEMMA GroupSizes ==
  ASSUME cfg \in Configs, NEW j \in 1..PlanSteps
  PROVE  /\ GroupSize(j) \in 1..cfg.per_step
         /\ (j - 1) * cfg.per_step \in Nat
         /\ (j - 1) * cfg.per_step + GroupSize(j) <= PlanBatches
         /\ j < PlanSteps => GroupSize(j) = cfg.per_step
<1> DEFINE p == cfg.per_step
           t == PlanBatches
           q == (t - 1) \div p
           r == (t - 1) % p
           base == (j - 1) * p
<1>1. p \in Nat \ {0} /\ t \in Nat \ {0} /\ t - 1 \in Nat
  BY ConfigFacts, TrainingSide
<1>2. q \in Nat /\ r \in 0..(p - 1) /\ t - 1 = (q * p) + r
  BY <1>1, Division
<1>3. PlanSteps = q + 1
  BY PlanFacts
<1>4. GroupSize(j) = IF j * p <= t THEN p ELSE t - base
  BY DEF GroupSize
<1> HIDE DEF p, t, q, r
<1>5. j - 1 \in Nat /\ j - 1 <= q /\ j <= q + 1 /\ j \in Nat
  BY <1>2, <1>3
<1>6. /\ base \in Nat /\ j * p = base + p
      /\ q * p \in Nat
      /\ base <= q * p
  <2>1. j * p = (j - 1) * p + p
    BY <1>1, <1>5
  <2>2. (j - 1) * p <= q * p
    BY <1>1, <1>2, <1>5
  <2>3. (j - 1) * p \in Nat /\ q * p \in Nat
    BY <1>1, <1>2, <1>5
  <2>4. QED
    BY <2>1, <2>2, <2>3
<1>7. j < PlanSteps => j * p <= q * p
  BY <1>1, <1>2, <1>3, <1>5
<1> HIDE DEF base
<1>8. GroupSize(j) \in 1..p
  BY <1>1, <1>2, <1>4, <1>6
<1>9. base + GroupSize(j) <= t
  BY <1>1, <1>2, <1>4, <1>6
<1>10. j < PlanSteps => GroupSize(j) = p
  <2>1. SUFFICES ASSUME j < PlanSteps PROVE GroupSize(j) = p
    OBVIOUS
  <2>2. j * p <= t
    BY <1>1, <1>2, <1>6, <1>7, <2>1
  <2>3. QED
    BY <1>4, <2>2
<1>11. QED
  BY <1>6, <1>8, <1>9, <1>10 DEF base, p, t

LEMMA GroupBatches ==
  ASSUME cfg \in Configs, NEW s \in Orders, NEW j \in 1..PlanSteps
  PROVE  /\ StepOf(s, j).parts = GroupSize(j)
         /\ StepOf(s, j).batches \in Seq(Seq(Nat))
         /\ Len(StepOf(s, j).batches) = GroupSize(j)
         /\ \A b \in 1..GroupSize(j) :
              StepOf(s, j).batches[b] = BatchNo(s, (j - 1) * cfg.per_step + b - 1)
<1> DEFINE base == (j - 1) * cfg.per_step
           n == GroupSize(j)
<1>1. base \in Nat /\ n \in Nat /\ base + n <= PlanBatches
  BY GroupSizes, ConfigFacts
<1>2. StepOf(s, j).parts = n /\ StepOf(s, j).batches = BatchesFrom(s, base, n)
  BY DEF StepOf
<1> HIDE DEF base, n
<1>3. /\ BatchesFrom(s, base, n) \in Seq(Seq(Nat))
      /\ Len(BatchesFrom(s, base, n)) = n
      /\ \A b \in 1..n : BatchesFrom(s, base, n)[b] = BatchNo(s, base + b - 1)
  BY <1>1, BatchesFromType
<1>4. QED
  BY <1>2, <1>3 DEF base, n

(* Every optimizer step takes the mean over exactly the batches whose      *)
(* gradients it added, batches_per_step of them except in the last step of *)
(* an epoch: GradientAccumulator's add_batch and finish_step, with the     *)
(* step borders of TrainingSessionController.                              *)
THEOREM MeanIsOverTheGroup == Spec => []MeanOfGroup
<1>1. EpochsInv => MeanOfGroup
  <2>1. SUFFICES ASSUME EpochsInv, NEW i \in DOMAIN done
                 PROVE  LET n == Len(done[i].batches)
                        IN  /\ done[i].parts = n
                            /\ i < Len(done) => n = cfg.per_step
                            /\ n \in 1..cfg.per_step
    BY DEF MeanOfGroup
  <2>2. /\ cfg \in Configs /\ done \in Seq(Gradients)
        /\ Len(done) <= PlanSteps
    BY <2>1 DEF EpochsInv, LoadersInv, DoneInv
  <2>3. PICK s \in Orders : Took(s)
    BY <2>1 DEF EpochsInv, DoneInv
  <2>4. /\ i \in 1..Len(done) /\ Len(done) \in Nat /\ PlanSteps \in Nat
        /\ i \in 1..PlanSteps
    BY <2>2, PlanFacts
  <2>5. done[i] = StepOf(s, i)
    BY <2>3, <2>4 DEF Took
  <2>6. done[i].parts = GroupSize(i) /\ Len(done[i].batches) = GroupSize(i)
    BY <2>2, <2>4, <2>5, GroupBatches
  <2>7. /\ GroupSize(i) \in 1..cfg.per_step
        /\ i < Len(done) => GroupSize(i) = cfg.per_step
    <3>1. i < Len(done) => i < PlanSteps
      BY <2>2, <2>4
    <3>2. /\ GroupSize(i) \in 1..cfg.per_step
          /\ i < PlanSteps => GroupSize(i) = cfg.per_step
      BY <2>2, <2>4, GroupSizes
    <3>3. QED
      BY <3>1, <3>2
  <2>8. QED
    BY <2>6, <2>7
<1>2. QED
  BY <1>1, EpochsInvariant, PTL

-----------------------------------------------------------------------------
(* The windows of an epoch                                                 *)

(* A place and the position in the order that its window comes from. *)
Position(i, b, k) == ((i - 1) * cfg.per_step + b - 1) * geo.batch + k

IsPlace(i, b, k) ==
  i \in 1..Len(done) /\ b \in 1..GroupSize(i) /\ k \in 1..geo.batch

(* The places of the steps an order was trained in. *)
LEMMA PlacesOfSteps ==
  ASSUME EpochsInv, NEW s \in Orders, Took(s)
  PROVE  /\ \A p \in PlacesIn(done) :
              \E i, b, k : /\ p = <<i, b, k>> /\ IsPlace(i, b, k)
                           /\ Position(i, b, k) \in 1..TrainingSize
                           /\ WindowAt(done, p) = s[Position(i, b, k)]
         /\ \A i, b, k : IsPlace(i, b, k) =>
              /\ <<i, b, k>> \in PlacesIn(done)
              /\ WindowAt(done, <<i, b, k>>) = s[Position(i, b, k)]
<1>1. /\ cfg \in Configs /\ done \in Seq(Gradients) /\ Len(done) <= PlanSteps
      /\ Len(done) \in Nat /\ DOMAIN done = 1..Len(done)
  BY DEF EpochsInv, LoadersInv, DoneInv
<1>2. PlanSteps \in Nat /\ PlanBatches \in Nat
  BY <1>1, PlanFacts, TrainingSide
<1>3. ASSUME NEW i \in 1..Len(done)
      PROVE  /\ DOMAIN done[i].batches = 1..GroupSize(i)
             /\ \A b \in 1..GroupSize(i) :
                  /\ DOMAIN done[i].batches[b] = 1..geo.batch
                  /\ \A k \in 1..geo.batch :
                       /\ Position(i, b, k) \in 1..TrainingSize
                       /\ done[i].batches[b][k] = s[Position(i, b, k)]
  <2>1. i \in 1..PlanSteps /\ done[i] = StepOf(s, i)
    BY <1>1, <1>2 DEF Took
  <2>2. /\ done[i].batches \in Seq(Seq(Nat))
        /\ Len(done[i].batches) = GroupSize(i)
        /\ \A b \in 1..GroupSize(i) :
             done[i].batches[b] = BatchNo(s, (i - 1) * cfg.per_step + b - 1)
    BY <1>1, <2>1, GroupBatches
  <2>3. ASSUME NEW b \in 1..GroupSize(i)
        PROVE  /\ DOMAIN done[i].batches[b] = 1..geo.batch
               /\ \A k \in 1..geo.batch :
                    /\ Position(i, b, k) \in 1..TrainingSize
                    /\ done[i].batches[b][k] = s[Position(i, b, k)]
    <3> DEFINE m == (i - 1) * cfg.per_step + b - 1
    <3>1. m \in Nat /\ m < PlanBatches
      <4> DEFINE base == (i - 1) * cfg.per_step
      <4>1. /\ base \in Nat /\ base + GroupSize(i) <= PlanBatches
            /\ GroupSize(i) \in Nat
        BY <1>1, <2>1, GroupSizes, ConfigFacts
      <4> HIDE DEF base
      <4>2. base + b - 1 \in Nat /\ base + b - 1 < PlanBatches
        BY <1>2, <4>1
      <4>3. QED
        BY <4>2 DEF base
    <3> HIDE DEF m
    <3>2. /\ BatchNo(s, m) \in Seq(Nat) /\ Len(BatchNo(s, m)) = geo.batch
          /\ \A k \in 1..geo.batch : /\ m * geo.batch + k \in 1..TrainingSize
                                     /\ BatchNo(s, m)[k] = s[m * geo.batch + k]
      BY <1>1, <3>1, BatchContents
    <3>3. done[i].batches[b] = BatchNo(s, m)
      BY <2>2 DEF m
    <3>4. \A k : Position(i, b, k) = m * geo.batch + k
      BY DEF Position, m
    <3>5. QED
      BY <3>2, <3>3, <3>4
  <2>4. QED
    BY <2>2, <2>3
<1>4. ASSUME NEW p \in PlacesIn(done)
      PROVE  \E i, b, k : /\ p = <<i, b, k>> /\ IsPlace(i, b, k)
                          /\ Position(i, b, k) \in 1..TrainingSize
                          /\ WindowAt(done, p) = s[Position(i, b, k)]
  <2>1. PICK i \in DOMAIN done :
           p \in UNION {{<<i, b, k>> : k \in DOMAIN done[i].batches[b]} :
                          b \in DOMAIN done[i].batches}
    BY DEF PlacesIn
  <2>2. PICK b \in DOMAIN done[i].batches :
           p \in {<<i, b, k>> : k \in DOMAIN done[i].batches[b]}
    BY <2>1
  <2>3. PICK k \in DOMAIN done[i].batches[b] : p = <<i, b, k>>
    BY <2>2
  <2>4. i \in 1..Len(done) /\ b \in 1..GroupSize(i) /\ k \in 1..geo.batch
    <3>1. i \in 1..Len(done)
      BY <1>1, <2>1
    <3>2. DOMAIN done[i].batches = 1..GroupSize(i)
      BY <1>3, <3>1
    <3>3. b \in 1..GroupSize(i)
      BY <2>2, <3>2
    <3>4. DOMAIN done[i].batches[b] = 1..geo.batch
      BY <1>3, <3>1, <3>3
    <3>5. k \in 1..geo.batch
      BY <2>3, <3>4
    <3>6. QED
      BY <3>1, <3>3, <3>5
  <2>5. WindowAt(done, p) = done[i].batches[b][k]
    BY <2>3 DEF WindowAt
  <2>6. QED
    BY <1>3, <2>3, <2>4, <2>5 DEF IsPlace
<1>5. ASSUME NEW i, NEW b, NEW k, IsPlace(i, b, k)
      PROVE  /\ <<i, b, k>> \in PlacesIn(done)
             /\ WindowAt(done, <<i, b, k>>) = s[Position(i, b, k)]
  <2>1. i \in DOMAIN done /\ b \in 1..GroupSize(i) /\ k \in 1..geo.batch /\ i \in 1..Len(done)
    BY <1>1, <1>5 DEF IsPlace
  <2>2. b \in DOMAIN done[i].batches /\ k \in DOMAIN done[i].batches[b]
    BY <1>3, <2>1
  <2>3. <<i, b, k>> \in PlacesIn(done)
    BY <2>1, <2>2 DEF PlacesIn
  <2>4. WindowAt(done, <<i, b, k>>) = done[i].batches[b][k]
    BY DEF WindowAt
  <2>5. QED
    BY <1>3, <2>1, <2>3, <2>4
<1>6. QED
  BY <1>4, <1>5

(* The windows trained on are windows of the training side. *)
LEMMA TrainedWindows ==
  ASSUME EpochsInv
  PROVE  WindowsOf(done) \subseteq ToSet(TrainingBlocks)
<1>1. PICK s \in Orders : Took(s)
  BY DEF EpochsInv, DoneInv
<1>2. s \in [1..TrainingSize -> ToSet(TrainingBlocks)]
  BY DEF Orders
<1>3. SUFFICES ASSUME NEW p \in PlacesIn(done)
               PROVE  WindowAt(done, p) \in ToSet(TrainingBlocks)
  BY DEF WindowsOf
<1>4. PICK i, b, k : /\ Position(i, b, k) \in 1..TrainingSize
                     /\ WindowAt(done, p) = s[Position(i, b, k)]
  BY <1>1, <1>3, PlacesOfSteps
<1>5. QED
  BY <1>2, <1>4

(* Every position of the order has a place in some step of a whole epoch. *)
LEMMA PlaceOfPosition ==
  ASSUME cfg \in Configs, Len(done) = PlanSteps, NEW x \in 1..TrainingSize
  PROVE  \E i, b, k : IsPlace(i, b, k) /\ Position(i, b, k) = x
<1> DEFINE n == geo.batch
           p == cfg.per_step
           t == PlanBatches
           m == (x - 1) \div n
           k == ((x - 1) % n) + 1
           i == (m \div p) + 1
           b == (m % p) + 1
<1>1. /\ n \in Nat \ {0} /\ p \in Nat \ {0} /\ t \in Nat \ {0}
      /\ TrainingSize = t * n /\ TrainingSize \in Nat
      /\ PlanSteps = ((t - 1) \div p) + 1 /\ PlanSteps \in Nat
  BY ConfigFacts, TrainingSide, PlanFacts
<1>2. x - 1 \in Nat /\ x <= TrainingSize
  BY <1>1
<1>3. m \in Nat /\ (x - 1) % n \in 0..(n - 1) /\ x - 1 = (m * n) + ((x - 1) % n)
  BY <1>1, <1>2, Division
<1>4. m <= t - 1 /\ t - 1 \in Nat
  <2> DEFINE u == (x - 1) % n
  <2>0. m \in Nat /\ u \in Nat /\ x - 1 = (m * n) + u
    BY <1>1, <1>3
  <2> HIDE DEF m, t, n, u
  <2>1. SUFFICES ASSUME m >= t PROVE FALSE
    BY <1>1, <2>0
  <2>2. m * n >= t * n
    BY <1>1, <2>0, <2>1
  <2>3. m * n \in Nat /\ t * n \in Nat
    BY <1>1, <2>0
  <2>4. QED
    BY <1>1, <1>2, <2>0, <2>2, <2>3
<1>5. /\ m \div p \in Nat /\ m % p \in 0..(p - 1)
      /\ m = ((m \div p) * p) + (m % p)
  <2> HIDE DEF m, p
  <2>1. QED
    BY <1>1, <1>3, Division
<1>6. m \div p <= (t - 1) \div p
  <2> HIDE DEF m, p, t
  <2>1. QED
    BY <1>1, <1>3, <1>4, EarlierGroup
<1>7. i \in 1..PlanSteps
  <2> DEFINE q == m \div p
             last == (t - 1) \div p
  <2>1. last \in Nat
    BY <1>1, <1>4, Division
  <2>2. i = q + 1 /\ q \in Nat /\ q <= last /\ PlanSteps = last + 1
    BY <1>1, <1>5, <1>6
  <2> HIDE DEF q, last, i
  <2>3. QED
    BY <2>1, <2>2
<1>8. GroupSize(i) = IF i * p <= t THEN p ELSE t - (i - 1) * p
  BY DEF GroupSize
<1>9. i - 1 = m \div p /\ b = (m % p) + 1
  <2> HIDE DEF m, p
  <2>1. QED
    BY <1>5
<1>10. b \in 1..GroupSize(i)
  <2> DEFINE q == m \div p
             r == m % p
  <2>1. q \in Nat /\ r \in 0..(p - 1) /\ m = (q * p) + r /\ i - 1 = q /\ b = r + 1
    BY <1>5, <1>9
  <2> HIDE DEF q, r, m, p, t, i, b
  <2>2. q * p \in Nat
    BY <1>1, <2>1
  <2>3. QED
    BY <1>1, <1>4, <1>8, <2>1, <2>2
<1>11. k \in 1..n
  <2> HIDE DEF m, n
  <2>1. QED
    BY <1>1, <1>3
<1>12. Position(i, b, k) = x
  <2> DEFINE q == m \div p
             r == m % p
             u == (x - 1) % n
  <2>1. /\ q \in Nat /\ r \in 0..(p - 1) /\ m = (q * p) + r /\ i - 1 = q /\ b = r + 1
        /\ u \in 0..(n - 1) /\ x - 1 = (m * n) + u /\ k = u + 1
    BY <1>3, <1>5, <1>9
  <2>2. Position(i, b, k) = ((i - 1) * p + b - 1) * n + k
    BY DEF Position
  <2> HIDE DEF q, r, u, m, n, p, i, b, k
  <2>3. q * p \in Nat /\ (q * p) + (r + 1) - 1 = m
    BY <1>1, <2>1
  <2>4. Position(i, b, k) = (m * n) + (u + 1)
    BY <2>1, <2>2, <2>3
  <2>5. m * n \in Nat
    BY <1>1, <1>3
  <2>6. QED
    BY <1>2, <2>1, <2>4, <2>5
<1>13. IsPlace(i, b, k)
  BY <1>7, <1>10, <1>11 DEF IsPlace
<1>14. QED
  BY <1>12, <1>13

(* No two places are at the same position. *)
LEMMA PlaceIsItsPosition ==
  ASSUME cfg \in Configs, Len(done) \in Nat, Len(done) <= PlanSteps,
         NEW i, NEW b, NEW k, IsPlace(i, b, k),
         NEW j, NEW c, NEW l, IsPlace(j, c, l),
         Position(i, b, k) = Position(j, c, l)
  PROVE  i = j /\ b = c /\ k = l
<1> DEFINE n == geo.batch
           p == cfg.per_step
           m == (i - 1) * p + b - 1
           h == (j - 1) * p + c - 1
<1>1. n \in Nat \ {0} /\ p \in Nat \ {0} /\ PlanSteps \in Nat
  BY ConfigFacts, PlanFacts
<1>2. /\ i \in 1..PlanSteps /\ b \in 1..GroupSize(i) /\ k \in 1..n
      /\ j \in 1..PlanSteps /\ c \in 1..GroupSize(j) /\ l \in 1..n
  BY <1>1 DEF IsPlace
<1>3. GroupSize(i) \in 1..p /\ GroupSize(j) \in 1..p
  BY <1>2, GroupSizes
<1>4. (m * n) + k = (h * n) + l
  BY DEF Position
<1> HIDE DEF n, p
<1>5. /\ i - 1 \in Nat /\ b - 1 \in 0..(p - 1) /\ k - 1 \in 0..(n - 1)
      /\ j - 1 \in Nat /\ c - 1 \in 0..(p - 1) /\ l - 1 \in 0..(n - 1)
  BY <1>1, <1>2, <1>3
<1>6. (i - 1) * p \in Nat /\ (j - 1) * p \in Nat
  BY <1>1, <1>5
<1>7. /\ m \in Nat /\ m = ((i - 1) * p) + (b - 1)
      /\ h \in Nat /\ h = ((j - 1) * p) + (c - 1)
  BY <1>2, <1>5, <1>6
<1> HIDE DEF m, h
<1>8. m * n \in Nat /\ h * n \in Nat
  BY <1>1, <1>7
<1>9. (m * n) + (k - 1) = (h * n) + (l - 1)
  BY <1>2, <1>4, <1>8
<1>10. m = h /\ k - 1 = l - 1
  <2>1. ((m * n) + (k - 1)) \div n = m /\ ((m * n) + (k - 1)) % n = k - 1
    BY <1>1, <1>5, <1>7, DivisionUnique
  <2>2. ((h * n) + (l - 1)) \div n = h /\ ((h * n) + (l - 1)) % n = l - 1
    BY <1>1, <1>5, <1>7, DivisionUnique
  <2>3. QED
    BY <1>9, <2>1, <2>2
<1>11. i - 1 = j - 1 /\ b - 1 = c - 1
  <2>1. \A x \in Nat, u \in 0..(p - 1) :
           ((x * p) + u) \div p = x /\ ((x * p) + u) % p = u
    BY <1>1, DivisionUnique
  <2>2. (((i - 1) * p) + (b - 1)) \div p = i - 1 /\ (((i - 1) * p) + (b - 1)) % p = b - 1
    BY <1>5, <2>1
  <2>3. (((j - 1) * p) + (c - 1)) \div p = j - 1 /\ (((j - 1) * p) + (c - 1)) % p = c - 1
    BY <1>5, <2>1
  <2>4. QED
    BY <1>7, <1>10, <2>2, <2>3
<1>12. QED
  BY <1>2, <1>3, <1>10, <1>11

(* Every epoch takes every window of the training side into exactly one    *)
(* optimizer step: TextDataset::reset_epoch and get_next_batch lose and    *)
(* repeat none, however often the order was shuffled and the index         *)
(* wrapped, and RunEpoch's steps cover every batch of the epoch.           *)
THEOREM EveryWindowIsTrainedOnce == Spec => []EveryWindowOnce
<1>1. EpochsInv => EveryWindowOnce
  <2>1. SUFFICES ASSUME EpochsInv, stage \in {"evaluate", "epochEnd"}
                 PROVE  /\ WindowsOf(done) = ToSet(TrainingBlocks)
                        /\ \A p, q \in PlacesIn(done) :
                             WindowAt(done, p) = WindowAt(done, q) => p = q
    BY DEF EveryWindowOnce
  <2>2. /\ cfg \in Configs /\ train.starts \in Orders
        /\ Took(train.starts) /\ batch_idx = PlanBatches
        /\ Len(done) = StepsAfter(batch_idx)
    BY <2>1 DEF EpochsInv, LoadersInv, BatchInv, DoneInv
  <2>3. Len(done) = PlanSteps /\ PlanSteps \in Nat
    BY <2>2, PlanFacts
  <2> DEFINE s == train.starts
  <2>4. /\ s \in [1..TrainingSize -> ToSet(TrainingBlocks)]
        /\ \A x, y \in 1..TrainingSize : s[x] = s[y] => x = y
        /\ \A w \in ToSet(TrainingBlocks) : \E x \in 1..TrainingSize : s[x] = w
    BY <2>2 DEF Orders
  <2>5. /\ \A p \in PlacesIn(done) :
             \E i, b, k : /\ p = <<i, b, k>> /\ IsPlace(i, b, k)
                          /\ Position(i, b, k) \in 1..TrainingSize
                          /\ WindowAt(done, p) = s[Position(i, b, k)]
        /\ \A i, b, k : IsPlace(i, b, k) =>
             /\ <<i, b, k>> \in PlacesIn(done)
             /\ WindowAt(done, <<i, b, k>>) = s[Position(i, b, k)]
    BY <2>1, <2>2, PlacesOfSteps
  <2> HIDE DEF s
  <2>6. WindowsOf(done) \subseteq ToSet(TrainingBlocks)
    BY <2>1, TrainedWindows
  <2>7. ASSUME NEW w \in ToSet(TrainingBlocks)
        PROVE  w \in WindowsOf(done)
    <3>1. PICK x \in 1..TrainingSize : s[x] = w
      BY <2>4
    <3>2. PICK i, b, k : IsPlace(i, b, k) /\ Position(i, b, k) = x
      BY <2>2, <2>3, PlaceOfPosition
    <3>3. <<i, b, k>> \in PlacesIn(done) /\ WindowAt(done, <<i, b, k>>) = w
      BY <2>5, <3>1, <3>2
    <3>4. QED
      BY <3>3 DEF WindowsOf
  <2>8. ASSUME NEW p \in PlacesIn(done), NEW q \in PlacesIn(done),
               WindowAt(done, p) = WindowAt(done, q)
        PROVE  p = q
    <3>1. PICK i, b, k : /\ p = <<i, b, k>> /\ IsPlace(i, b, k)
                         /\ Position(i, b, k) \in 1..TrainingSize
                         /\ WindowAt(done, p) = s[Position(i, b, k)]
      BY <2>5
    <3>2. PICK j, c, l : /\ q = <<j, c, l>> /\ IsPlace(j, c, l)
                         /\ Position(j, c, l) \in 1..TrainingSize
                         /\ WindowAt(done, q) = s[Position(j, c, l)]
      BY <2>5
    <3>3. Position(i, b, k) = Position(j, c, l)
      BY <2>4, <2>8, <3>1, <3>2
    <3>4. i = j /\ b = c /\ k = l
      BY <2>2, <2>3, <3>1, <3>2, <3>3, PlaceIsItsPosition
    <3>5. QED
      BY <3>1, <3>2, <3>4
  <2>9. QED
    BY <2>6, <2>7, <2>8
<1>2. QED
  BY <1>1, EpochsInvariant, PTL

-----------------------------------------------------------------------------
(* Evaluations                                                             *)

LEMMA TokensGrow ==
  ASSUME NEW g, NEW V, NEW W, V \subseteq W
  PROVE  TokensOf(g, V) \subseteq TokensOf(g, W)
BY DEF TokensOf

(* The epochs and the runs of a plan may compare their validation losses:  *)
(* evaluate() reads the same windows each time, all of them inside the     *)
(* ranges that DatasetSplit holds out, and no token of them is ever an     *)
(* input or a target of train_one_batch.                                   *)
THEOREM EvaluationsAreComparable == Spec => []EvaluationsCompare
<1>1. EpochsInv => HeldOutUnseen
  <2>1. SUFFICES ASSUME EpochsInv PROVE HeldOutUnseen
    OBVIOUS
  <2>2. cfg \in Configs /\ evaluated \in Seq(ValidationWindows(geo))
    BY <2>1 DEF EpochsInv, LoadersInv, EvaluationInv
  <2>3. geo \in Geometries
    BY <2>2, ConfigFacts
  <2>4. ToSet(TrainingBlocks) \subseteq TrainingWindows(geo)
    BY <2>2, TrainingSide DEF ToSet
  <2>5. WindowsOf(done) \subseteq TrainingWindows(geo)
    BY <2>1, <2>4, TrainedWindows
  <2>6. ToSet(evaluated) \subseteq ValidationWindows(geo)
    BY <2>2 DEF ToSet
  <2>7. /\ TokensOf(geo, WindowsOf(done)) \subseteq TokensOf(geo, TrainingWindows(geo))
        /\ TokensOf(geo, ToSet(evaluated)) \subseteq TokensOf(geo, ValidationWindows(geo))
    BY <2>5, <2>6, TokensGrow
  <2>8. QED
    BY <2>3, <2>7, SidesShareNoToken DEF HeldOutUnseen
<1>2. EpochsInv => SameEvaluation
  <2>1. SUFFICES ASSUME EpochsInv, stage = "epochEnd", ValidationDue
                 PROVE  /\ evaluated = ValidationBlocks
                        /\ \A w \in ToSet(evaluated) :
                             InValidation(geo, w, w + WindowTokens(geo))
    BY DEF SameEvaluation
  <2>2. /\ cfg \in Configs /\ evaluated \in Seq(ValidationWindows(geo))
        /\ evaluated = ValidationBlocks
    BY <2>1 DEF EpochsInv, LoadersInv, EvaluationInv
  <2>3. geo \in Geometries
    BY <2>2, ConfigFacts
  <2>4. ToSet(evaluated) \subseteq ValidationWindows(geo)
    BY <2>2 DEF ToSet
  <2>5. ASSUME NEW w \in ValidationWindows(geo)
        PROVE  InValidation(geo, w, w + WindowTokens(geo))
    <3>1. PICK r \in ValidationRanges(geo) :
             w \in Nat /\ r.begin <= w /\ w + WindowTokens(geo) <= r.end
      BY <2>3, ValidationWindowInRange
    <3>2. r.begin \in Nat /\ r.end \in Int /\ r.end <= geo.tokens
      BY <2>3, RangesInCorpus
    <3>3. geo.tokens \in Nat /\ geo.seq \in Nat /\ WindowTokens(geo) = geo.seq + 1
      BY <2>3 DEF Geometries, WindowTokens
    <3>4. /\ w + WindowTokens(geo) <= geo.tokens
          /\ w < w + WindowTokens(geo)
      BY <3>1, <3>2, <3>3
    <3>5. QED
      BY <3>1, <3>4 DEF InValidation
  <2>6. QED
    BY <2>2, <2>4, <2>5
<1>3. QED
  BY <1>1, <1>2, EpochsInvariant, PTL DEF EvaluationsCompare
=============================================================================
