----------------------- MODULE ConvergenceRulesProofs -----------------------
(***************************************************************************)
(* Lemmas about the rules of the convergence monitor: the types they keep  *)
(* and the parts of the monitor they leave alone.                          *)
(***************************************************************************)
EXTENDS ConvergenceRules, TLAPS

(* RequestStop and RequestStopWhen change nothing but the stop. *)
LEMMA RequestStopType ==
  ASSUME NEW m \in MonitorState, NEW reason \in StopReasons, NEW cond \in BOOLEAN
  PROVE  /\ RequestStopWhen(cond, m, reason) \in MonitorState
         /\ RequestStopWhen(cond, m, reason).has_best = m.has_best
         /\ RequestStopWhen(cond, m, reason).best_loss = m.best_loss
         /\ RequestStopWhen(cond, m, reason).best_epoch = m.best_epoch
BY DEF RequestStopWhen, RequestStop, MonitorState

(* Counted epochs are a natural number whatever epochs are compared. *)
LEMMA CountedEpochsType ==
  ASSUME NEW m \in MonitorState, NEW e \in Nat
  PROVE  CountedEpochs(m, e) \in Nat
BY RulesAssumption DEF CountedEpochs, MonitorState

(* RecordLoss keeps the type. *)
LEMMA RecordLossType ==
  ASSUME NEW m \in MonitorState, NEW e \in Nat, NEW loss \in Int
  PROVE  RecordLoss(m, e, loss) \in MonitorState
<1>1. m.epochs_without_improvement + CountedEpochs(m, e) \in Nat
  BY CountedEpochsType DEF MonitorState
<1>2. CASE IsNewBest(m, loss)
  BY <1>2 DEF RecordLoss, MonitorState
<1>3. CASE ~IsNewBest(m, loss)
  BY <1>1, <1>3 DEF RecordLoss, MonitorState
<1> QED
  BY <1>2, <1>3

(* Judging a finite loss keeps the type, and decides about the best as     *)
(* RecordLoss does.                                                        *)
LEMMA JudgeFiniteType ==
  ASSUME NEW m \in MonitorState, NEW e \in Nat, NEW loss \in Int
  PROVE  /\ JudgeFinite(m, e, loss) \in MonitorState
         /\ JudgeFinite(m, e, loss).has_best = RecordLoss(m, e, loss).has_best
         /\ JudgeFinite(m, e, loss).best_loss = RecordLoss(m, e, loss).best_loss
         /\ JudgeFinite(m, e, loss).best_epoch = RecordLoss(m, e, loss).best_epoch
<1> DEFINE r == RecordLoss(m, e, loss)
           t == RequestStopWhen(TargetReached(loss), r, "TargetLoss")
<1>1. r \in MonitorState
  BY RecordLossType
<1>2. TargetReached(loss) \in BOOLEAN /\ "TargetLoss" \in StopReasons /\ "Patience" \in StopReasons
  BY DEF TargetReached, StopReasons
<1>3. /\ t \in MonitorState
      /\ t.has_best = r.has_best
      /\ t.best_loss = r.best_loss
      /\ t.best_epoch = r.best_epoch
  BY <1>1, <1>2, RequestStopType
<1>4. PatienceExhausted(t, e) \in BOOLEAN
  BY DEF PatienceExhausted
<1>5. JudgeFinite(m, e, loss) = RequestStopWhen(PatienceExhausted(t, e), t, "Patience")
  BY DEF JudgeFinite
<1> HIDE DEF r, t
<1>6. /\ JudgeFinite(m, e, loss) \in MonitorState
      /\ JudgeFinite(m, e, loss).has_best = t.has_best
      /\ JudgeFinite(m, e, loss).best_loss = t.best_loss
      /\ JudgeFinite(m, e, loss).best_epoch = t.best_epoch
  BY <1>2, <1>3, <1>4, <1>5, RequestStopType
<1> QED
  BY <1>3, <1>6 DEF r

(* The judged loss of a judged epoch is one of the losses. *)
LEMMA JudgedIsLoss ==
  ASSUME NEW v \in BOOLEAN, NEW train \in Losses \cup {NonFinite},
         NEW val \in Losses \cup {NonFinite, NoVal}, IsJudged(v, train, val)
  PROVE  JudgedLoss(v, train, val) \in Losses
BY DEF IsJudged, JudgedLoss

(* Observing an epoch keeps the type. *)
LEMMA ObserveType ==
  ASSUME NEW m \in MonitorState, NEW v \in BOOLEAN, NEW e \in Nat,
         NEW train \in Losses \cup {NonFinite},
         NEW val \in Losses \cup {NonFinite, NoVal}
  PROVE  Observe(m, v, e, train, val) \in MonitorState
<1> DEFINE seen == [m EXCEPT !.last_epoch_loss = train]
<1>1. Losses \subseteq Int
  BY RulesAssumption
<1>2. seen \in MonitorState
  BY <1>1 DEF MonitorState
<1>3. CASE IsJudged(v, train, val)
  <2>1. JudgedLoss(v, train, val) \in Int
    BY <1>1, <1>3, JudgedIsLoss
  <2>2. JudgeFinite(seen, e, JudgedLoss(v, train, val)) \in MonitorState
    BY <1>2, <2>1, JudgeFiniteType
  <2> QED
    BY <1>3, <2>2 DEF Observe
<1>4. CASE ~IsJudged(v, train, val)
  <2>1. (StopOnNonfinite /\ SawNonFinite(v, train, val)) \in BOOLEAN
    BY RulesAssumption DEF SawNonFinite
  <2>2. "NonFiniteLoss" \in StopReasons
    BY DEF StopReasons
  <2> QED
    BY <1>2, <1>4, <2>1, <2>2, RequestStopType DEF Observe
<1> QED
  BY <1>3, <1>4

(* What a resume makes of a kept state is a monitor state. *)
LEMMA ResumeType ==
  ASSUME NEW k \in KeptState, NEW v \in BOOLEAN, NEW e \in Nat
  PROVE  ResumeMonitor(k, v, e) \in MonitorState
<1>1. RestoreMonitor(k, v, e) \in MonitorState
  BY DEF RestoreMonitor, MonitorState, KeptState
<1>2. "None" \in StopReasons
  BY DEF StopReasons
<1> QED
  BY <1>1, <1>2 DEF ResumeMonitor, ClearPersistedStop, MonitorState

LEMMA KeptPartType ==
  ASSUME NEW m \in MonitorState, NEW v \in BOOLEAN
  PROVE  KeptPart(m, v) \in KeptState
BY DEF KeptPart, MonitorState, KeptState

LEMMA ResetType == ResetMonitor \in MonitorState
BY DEF ResetMonitor, MonitorState, StopReasons

(* What the verdict leaves in the monitor after an epoch that is judged. *)
LEMMA ObserveJudged ==
  ASSUME NEW m \in MonitorState, NEW v \in BOOLEAN, NEW e \in Nat,
         NEW train \in Losses \cup {NonFinite},
         NEW val \in Losses \cup {NonFinite, NoVal},
         IsJudged(v, train, val)
  PROVE  LET loss == JudgedLoss(v, train, val)
             o    == Observe(m, v, e, train, val)
         IN  /\ loss \in Int
             /\ o.has_best
             /\ IsNewBest(m, loss) => o.best_epoch = e /\ o.best_loss = loss
             /\ ~IsNewBest(m, loss) => o.best_epoch = m.best_epoch /\ o.best_loss = m.best_loss
<1> DEFINE loss == JudgedLoss(v, train, val)
           seen == [m EXCEPT !.last_epoch_loss = train]
           o == Observe(m, v, e, train, val)
           r == RecordLoss(seen, e, loss)
<1>1. Losses \subseteq Int
  BY RulesAssumption
<1>2. loss \in Int
  BY <1>1, JudgedIsLoss
<1>3. seen \in MonitorState
  BY <1>1 DEF MonitorState
<1>4. o = JudgeFinite(seen, e, loss)
  BY DEF Observe
<1> HIDE DEF o
<1>5. o.has_best = r.has_best /\ o.best_loss = r.best_loss /\ o.best_epoch = r.best_epoch
  BY <1>2, <1>3, <1>4, JudgeFiniteType
<1>6. /\ seen.has_best = m.has_best
      /\ seen.best_loss = m.best_loss
      /\ seen.best_epoch = m.best_epoch
  BY DEF MonitorState
<1>7. IsNewBest(seen, loss) <=> IsNewBest(m, loss)
  BY <1>6 DEF IsNewBest, LossImproved
<1>8. CASE IsNewBest(m, loss)
  <2>1. r.has_best /\ r.best_loss = loss /\ r.best_epoch = e
    BY <1>3, <1>7, <1>8 DEF RecordLoss, MonitorState
  <2> QED
    BY <1>2, <1>5, <1>8, <2>1 DEF o
<1>9. CASE ~IsNewBest(m, loss)
  <2>1. r.has_best = m.has_best /\ r.best_loss = m.best_loss /\ r.best_epoch = m.best_epoch
    BY <1>3, <1>6, <1>7, <1>9 DEF RecordLoss, MonitorState
  <2>2. m.has_best
    BY <1>9 DEF IsNewBest
  <2> QED
    BY <1>2, <1>5, <1>9, <2>1, <2>2 DEF o
<1> QED
  BY <1>8, <1>9

(* An epoch that is not judged leaves the best alone. *)
LEMMA ObserveUnjudged ==
  ASSUME NEW m \in MonitorState, NEW v \in BOOLEAN, NEW e \in Nat,
         NEW train \in Losses \cup {NonFinite},
         NEW val \in Losses \cup {NonFinite, NoVal},
         ~IsJudged(v, train, val)
  PROVE  LET o == Observe(m, v, e, train, val)
         IN  /\ o.has_best = m.has_best
             /\ o.best_loss = m.best_loss
             /\ o.best_epoch = m.best_epoch
<1> DEFINE seen == [m EXCEPT !.last_epoch_loss = train]
           cond == StopOnNonfinite /\ SawNonFinite(v, train, val)
<1>1. seen \in MonitorState
  BY RulesAssumption DEF MonitorState
<1>2. cond \in BOOLEAN /\ "NonFiniteLoss" \in StopReasons
  BY RulesAssumption DEF SawNonFinite, StopReasons
<1>3. Observe(m, v, e, train, val) = RequestStopWhen(cond, seen, "NonFiniteLoss")
  BY DEF Observe
<1>4. /\ seen.has_best = m.has_best
      /\ seen.best_loss = m.best_loss
      /\ seen.best_epoch = m.best_epoch
  BY DEF MonitorState
<1> HIDE DEF seen, cond
<1> QED
  BY <1>1, <1>2, <1>3, <1>4, RequestStopType

=============================================================================
