---------------------- MODULE ConvergenceMonitorProofs ----------------------
(***************************************************************************)
(* The convergence monitor, for every value of its constants: its state is *)
(* well-typed, its best is the best of what was judged, and its patience   *)
(* runs out neither early nor late.                                        *)
(***************************************************************************)
EXTENDS ConvergenceMonitor, ConvergenceRulesProofs, FiniteSetTheorems

LEMMA NoHistoryType == NoHistory \in History
BY DEF NoHistory, History

(* The monitor state stays well-typed. *)
THEOREM TypeCorrect == Spec => []TypeOK
<1>1. Init => TypeOK
  BY ResetType, NoHistoryType, MonitorAssumption DEF Init, TypeOK
<1>2. TypeOK /\ [Next]_vars => TypeOK'
  <2> SUFFICES ASSUME TypeOK, [Next]_vars PROVE TypeOK'
    OBVIOUS
  <2>1. ASSUME NEW train \in Losses \cup {NonFinite},
               NEW val \in Losses \cup {NonFinite, NoVal},
               ObserveEpoch(train, val)
        PROVE  TypeOK'
    <3>1. epoch + 1 \in 0..MaxEpochs /\ epoch + 1 \in 1..MaxEpochs /\ epoch + 1 \in Nat
      BY <2>1, MonitorAssumption DEF ObserveEpoch, TypeOK
    <3>2. mon' \in MonitorState
      BY <2>1, <3>1, ObserveType DEF ObserveEpoch, TypeOK
    <3>3. history' \in History
      <4>1. CASE IsJudged(by_val, train, val)
        <5>1. JudgedLoss(by_val, train, val) \in Losses
          BY <4>1, JudgedIsLoss DEF TypeOK
        <5>2. history' = [history EXCEPT ![epoch + 1] = JudgedLoss(by_val, train, val)]
          BY <2>1, <4>1 DEF ObserveEpoch
        <5> QED
          BY <5>1, <5>2 DEF TypeOK, History
      <4>2. CASE ~IsJudged(by_val, train, val)
        BY <2>1, <4>2 DEF ObserveEpoch, TypeOK
      <4> QED
        BY <4>1, <4>2
    <3> QED
      BY <2>1, <3>1, <3>2, <3>3 DEF ObserveEpoch, TypeOK
  <2>2. CASE Keep
    <3>1. KeptPart(mon, by_val) \in KeptState
      BY KeptPartType DEF TypeOK
    <3> QED
      BY <2>2, <3>1 DEF Keep, TypeOK, Checkpoints
  <2>3. ASSUME NEW v \in BOOLEAN, Resume(v) PROVE TypeOK'
    <3>1. kept \in Checkpoints
      BY <2>3 DEF Resume, TypeOK
    <3>2. kept.state \in KeptState /\ kept.epoch \in 0..MaxEpochs /\ kept.history \in History
      BY <3>1 DEF Checkpoints
    <3>3. mon' \in MonitorState
      BY <2>3, <3>2, ResumeType, MonitorAssumption DEF Resume
    <3>4. history' \in History
      BY <2>3, <3>2, NoHistoryType DEF Resume
    <3> QED
      BY <2>3, <3>2, <3>3, <3>4 DEF Resume, TypeOK
  <2>4. ASSUME NEW v \in BOOLEAN, StartFresh(v) PROVE TypeOK'
    BY <2>4, ResetType, NoHistoryType, MonitorAssumption DEF StartFresh, TypeOK
  <2>5. CASE UNCHANGED vars
    BY <2>5 DEF vars, TypeOK
  <2> QED
    BY <2>1, <2>2, <2>3, <2>4, <2>5 DEF Next
<1> QED
  BY <1>1, <1>2, PTL DEF Spec

-----------------------------------------------------------------------------
(* The best of the history.  BestBeatsHistory is not inductive: the kept   *)
(* state must agree with the history kept beside it, and nothing may have  *)
(* been judged after the current epoch.                                    *)

BestAgrees(has_best, best_epoch, best_loss, h, n) ==
  /\ \A e \in 1..MaxEpochs : e > n => h[e] = Unjudged
  /\ ~has_best => \A e \in 1..MaxEpochs : h[e] = Unjudged
  /\ has_best =>
       /\ best_epoch \in 1..n
       /\ h[best_epoch] = best_loss
       /\ \A e \in 1..MaxEpochs : h[e] # Unjudged =>
            /\ e < best_epoch => h[e] > best_loss
            /\ e > best_epoch => best_loss - h[e] <= MinDelta

MonAgrees == BestAgrees(mon.has_best, mon.best_epoch, mon.best_loss, history, epoch)

KeptAgrees ==
  kept # NoCheckpoint =>
    BestAgrees(kept.state.has_best, kept.state.best_epoch, kept.state.best_loss,
               kept.history, kept.epoch)

BestInv == TypeOK /\ MonAgrees /\ KeptAgrees

LEMMA NoHistoryAgrees ==
  ASSUME NEW best_epoch, NEW best_loss, NEW n \in Nat
  PROVE  BestAgrees(FALSE, best_epoch, best_loss, NoHistory, n)
BY DEF BestAgrees, NoHistory

(* Observing an epoch keeps the monitor and the history in agreement. *)
LEMMA ObserveAgrees ==
  ASSUME TypeOK, MonAgrees,
         NEW train \in Losses \cup {NonFinite},
         NEW val \in Losses \cup {NonFinite, NoVal},
         ObserveEpoch(train, val)
  PROVE  MonAgrees'
<1> DEFINE e == epoch + 1
           loss == JudgedLoss(by_val, train, val)
<1>1. e \in Nat /\ e \in 1..MaxEpochs /\ epoch' = e /\ epoch \in Nat
  BY MonitorAssumption DEF ObserveEpoch, TypeOK
<1>2. mon' = Observe(mon, by_val, e, train, val)
  BY DEF ObserveEpoch
<1>3. CASE ~IsJudged(by_val, train, val)
  <2>1. history' = history
    BY <1>3 DEF ObserveEpoch
  <2>2. /\ mon'.has_best = mon.has_best
        /\ mon'.best_loss = mon.best_loss
        /\ mon'.best_epoch = mon.best_epoch
    BY <1>1, <1>2, <1>3, ObserveUnjudged DEF TypeOK
  <2> QED
    BY <1>1, <2>1, <2>2 DEF MonAgrees, BestAgrees
<1>4. CASE IsJudged(by_val, train, val)
  <2>1. history' = [history EXCEPT ![e] = loss]
    BY <1>4 DEF ObserveEpoch
  <2>2. /\ loss \in Int
        /\ mon'.has_best
        /\ IsNewBest(mon, loss) => mon'.best_epoch = e /\ mon'.best_loss = loss
        /\ ~IsNewBest(mon, loss) =>
             mon'.best_epoch = mon.best_epoch /\ mon'.best_loss = mon.best_loss
    BY <1>1, <1>2, <1>4, ObserveJudged DEF TypeOK
  <2>3. /\ history \in [1..MaxEpochs -> Losses \cup {Unjudged}]
        /\ history'[e] = loss
        /\ \A d \in 1..MaxEpochs : d # e => history'[d] = history[d]
    BY <1>1, <2>1 DEF TypeOK, History
  <2>4. \A d \in 1..MaxEpochs : d > e => history'[d] = Unjudged
    BY <1>1, <2>3 DEF MonAgrees, BestAgrees
  <2>5. ASSUME NEW d \in 1..MaxEpochs, history[d] # Unjudged
        PROVE  history[d] \in Int /\ d <= epoch
    <3>1. history[d] \in Int
      BY <2>3, <2>5, RulesAssumption
    <3>2. ~ (d > epoch)
      BY <2>5 DEF MonAgrees, BestAgrees
    <3> QED
      BY <1>1, <3>1, <3>2, MonitorAssumption
  <2>6. MinDelta \in Nat /\ mon.best_loss \in Int /\ mon.best_epoch \in Nat /\ mon.has_best \in BOOLEAN
    BY RulesAssumption DEF TypeOK, MonitorState
  <2>7. CASE IsNewBest(mon, loss)
    <3>1. mon'.best_epoch = e /\ mon'.best_loss = loss
      BY <2>2, <2>7
    <3>2. ASSUME NEW d \in 1..MaxEpochs, history'[d] # Unjudged
          PROVE  /\ d < e => history'[d] > loss
                 /\ d > e => loss - history'[d] <= MinDelta
      <4>1. ~ (d > e)
        BY <2>4, <3>2
      <4>2. ASSUME d < e PROVE history'[d] > loss
        <5>1. history'[d] = history[d] /\ history[d] # Unjudged /\ history[d] \in Int
          BY <1>1, <2>3, <2>5, <3>2, <4>2
        <5>2. mon.has_best
          BY <5>1 DEF MonAgrees, BestAgrees
        <5>3. mon.best_loss - loss > MinDelta
          BY <2>7, <5>2 DEF IsNewBest, LossImproved
        <5>4. /\ d < mon.best_epoch => history[d] > mon.best_loss
              /\ d > mon.best_epoch => mon.best_loss - history[d] <= MinDelta
              /\ history[mon.best_epoch] = mon.best_loss
          BY <5>1, <5>2 DEF MonAgrees, BestAgrees
        <5> HIDE DEF loss
        <5> QED
          BY <2>2, <2>6, <5>1, <5>3, <5>4
      <4> QED
        BY <4>1, <4>2
    <3> QED
      BY <1>1, <2>2, <2>3, <2>4, <3>1, <3>2 DEF MonAgrees, BestAgrees
  <2>8. CASE ~IsNewBest(mon, loss)
    <3>1. mon'.best_epoch = mon.best_epoch /\ mon'.best_loss = mon.best_loss
      BY <2>2, <2>8
    <3>2. mon.has_best /\ ~(mon.best_loss - loss > MinDelta)
      BY <2>8 DEF IsNewBest, LossImproved
    <3>3. mon.best_epoch \in 1..epoch /\ history[mon.best_epoch] = mon.best_loss
      BY <3>2 DEF MonAgrees, BestAgrees
    <3>4. mon.best_epoch \in 1..e /\ history'[mon.best_epoch] = mon.best_loss
      <4>1. /\ mon.best_epoch \in 1..e
            /\ mon.best_epoch \in 1..MaxEpochs
            /\ mon.best_epoch # e
        BY <1>1, <3>3, MonitorAssumption
      <4> QED
        BY <2>3, <3>3, <4>1
    <3>5. ASSUME NEW d \in 1..MaxEpochs, history'[d] # Unjudged
          PROVE  /\ d < mon.best_epoch => history'[d] > mon.best_loss
                 /\ d > mon.best_epoch => mon.best_loss - history'[d] <= MinDelta
      <4>1. CASE d = e
        <5> HIDE DEF loss
        <5> QED
          BY <1>1, <2>2, <2>3, <2>6, <3>2, <3>3, <4>1
      <4>2. CASE d # e
        BY <2>3, <3>2, <3>5, <4>2 DEF MonAgrees, BestAgrees
      <4> QED
        BY <4>1, <4>2
    <3> QED
      BY <1>1, <2>2, <2>4, <3>1, <3>4, <3>5 DEF MonAgrees, BestAgrees
  <2> QED
    BY <2>7, <2>8
<1> QED
  BY <1>3, <1>4

(* A resume takes the agreement over from the checkpoint. *)
LEMMA ResumeAgrees ==
  ASSUME TypeOK, KeptAgrees, NEW v \in BOOLEAN, Resume(v)
  PROVE  MonAgrees'
<1> DEFINE k == kept.state
           m == RestoreMonitor(k, v, kept.epoch)
<1>1. kept # NoCheckpoint /\ kept \in Checkpoints
  BY DEF Resume, TypeOK
<1>2. k \in KeptState /\ kept.epoch \in Nat
  BY <1>1, MonitorAssumption DEF Checkpoints
<1>3. mon' = ResumeMonitor(k, v, kept.epoch) /\ epoch' = kept.epoch
  BY DEF Resume
<1>4. /\ mon'.has_best = m.has_best
      /\ mon'.best_loss = m.best_loss
      /\ mon'.best_epoch = m.best_epoch
  BY <1>3 DEF ResumeMonitor, ClearPersistedStop, RestoreMonitor
<1>5. k.has_best \in BOOLEAN /\ k.best_is_val \in BOOLEAN
  BY <1>2 DEF KeptState
<1>6. CASE k.best_is_val = v
  <2>1. history' = kept.history
    BY <1>6 DEF Resume
  <2>2. m.has_best = k.has_best /\ m.best_loss = k.best_loss /\ m.best_epoch = k.best_epoch
    BY <1>5, <1>6 DEF RestoreMonitor
  <2> HIDE DEF m
  <2> QED
    BY <1>1, <1>3, <1>4, <2>1, <2>2 DEF KeptAgrees, MonAgrees
<1>7. CASE k.best_is_val # v
  <2>1. history' = NoHistory
    BY <1>7 DEF Resume
  <2>2. m.has_best = FALSE
    BY <1>5, <1>7 DEF RestoreMonitor
  <2>3. BestAgrees(FALSE, mon'.best_epoch, mon'.best_loss, NoHistory, kept.epoch)
    BY <1>2, NoHistoryAgrees
  <2> HIDE DEF m
  <2> QED
    BY <1>3, <1>4, <2>1, <2>2, <2>3 DEF MonAgrees
<1> QED
  BY <1>6, <1>7

LEMMA BestInvInvariant == Spec => []BestInv
<1>1. Init => BestInv
  <2> SUFFICES ASSUME Init PROVE MonAgrees /\ KeptAgrees /\ TypeOK
    BY DEF BestInv
  <2>1. TypeOK
    BY ResetType, NoHistoryType, MonitorAssumption DEF Init, TypeOK
  <2>2. MonAgrees
    BY NoHistoryAgrees DEF Init, ResetMonitor, MonAgrees
  <2> QED
    BY <2>1, <2>2 DEF Init, KeptAgrees
<1>2. TypeOK' /\ BestInv /\ [Next]_vars => BestInv'
  <2> SUFFICES ASSUME TypeOK', BestInv, [Next]_vars PROVE MonAgrees' /\ KeptAgrees'
    BY DEF BestInv
  <2> USE DEF BestInv
  <2>1. ASSUME NEW train \in Losses \cup {NonFinite},
               NEW val \in Losses \cup {NonFinite, NoVal},
               ObserveEpoch(train, val)
        PROVE  MonAgrees' /\ KeptAgrees'
    BY <2>1, ObserveAgrees DEF ObserveEpoch, KeptAgrees
  <2>2. CASE Keep
    <3>1. kept'.state = KeptPart(mon, by_val) /\ kept'.history = history /\ kept'.epoch = epoch
      BY <2>2 DEF Keep
    <3>2. /\ kept'.state.has_best = mon.has_best
          /\ kept'.state.best_loss = mon.best_loss
          /\ kept'.state.best_epoch = mon.best_epoch
      BY <3>1 DEF KeptPart
    <3>3. MonAgrees'
      BY <2>2 DEF Keep, MonAgrees
    <3> QED
      BY <3>1, <3>2, <3>3 DEF MonAgrees, KeptAgrees
  <2>3. ASSUME NEW v \in BOOLEAN, Resume(v) PROVE MonAgrees' /\ KeptAgrees'
    BY <2>3, ResumeAgrees DEF Resume, KeptAgrees
  <2>4. ASSUME NEW v \in BOOLEAN, StartFresh(v) PROVE MonAgrees' /\ KeptAgrees'
    BY <2>4, NoHistoryAgrees DEF StartFresh, ResetMonitor, MonAgrees, KeptAgrees
  <2>5. CASE UNCHANGED vars
    BY <2>5 DEF vars, MonAgrees, KeptAgrees
  <2> QED
    BY <2>1, <2>2, <2>3, <2>4, <2>5 DEF Next
<1> QED
  BY <1>1, <1>2, TypeCorrect, PTL DEF Spec

(* The best loss is the loss of its epoch, lower than everything judged    *)
(* before it and not beaten by min_delta since, whatever resumes there     *)
(* were.                                                                   *)
THEOREM BestIsBest == Spec => []BestBeatsHistory
<1>1. BestInv => BestBeatsHistory
  <2> SUFFICES ASSUME TypeOK, MonAgrees PROVE BestBeatsHistory
    BY DEF BestInv
  <2>1. epoch \in 0..MaxEpochs /\ mon.has_best \in BOOLEAN
    BY DEF TypeOK, MonitorState
  <2>2. mon.has_best => mon.best_epoch \in 1..MaxEpochs /\ Judged(mon.best_epoch)
    <3> SUFFICES ASSUME mon.has_best
                 PROVE  mon.best_epoch \in 1..MaxEpochs /\ Judged(mon.best_epoch)
      OBVIOUS
    <3>1. mon.best_epoch \in 1..epoch /\ history[mon.best_epoch] = mon.best_loss
      BY DEF MonAgrees, BestAgrees
    <3>2. mon.best_loss # Unjudged
      BY MonitorAssumption DEF TypeOK, MonitorState
    <3> QED
      BY <2>1, <3>1, <3>2, MonitorAssumption DEF Judged
  <2>3. (\E e \in 1..MaxEpochs : Judged(e)) => mon.has_best
    BY <2>1 DEF MonAgrees, BestAgrees, Judged
  <2> QED
    BY <2>1, <2>2, <2>3 DEF BestBeatsHistory, MonAgrees, BestAgrees, Judged
<1> QED
  BY <1>1, BestInvInvariant, PTL

-----------------------------------------------------------------------------
(* Patience.  The count of epochs without improvement never exceeds the    *)
(* epochs from min_epochs on since the best one.                           *)

CountAfter(after, last) ==
  LET from == IF after + 1 > MinEpochs THEN after + 1 ELSE MinEpochs
  IN  IF last >= from THEN last - from + 1 ELSE 0

LEMMA CountIsCardinality ==
  ASSUME NEW after \in Nat, NEW last \in Nat
  PROVE  Cardinality(EpochsToCount(after, last)) = CountAfter(after, last)
<1> DEFINE from == IF after + 1 > MinEpochs THEN after + 1 ELSE MinEpochs
<1>1. MinEpochs \in Nat /\ from \in Int
  BY RulesAssumption
<1>2. EpochsToCount(after, last) = from..last
  BY <1>1 DEF EpochsToCount
<1>3. Cardinality(from..last) = IF from > last THEN 0 ELSE last - from + 1
  BY <1>1, FS_Interval
<1> QED
  BY <1>1, <1>2, <1>3 DEF CountAfter

(* Counting up to d and then from d to e counts nothing twice. *)
LEMMA CountAdds ==
  ASSUME NEW after \in Nat, NEW d \in Nat, NEW e \in Nat, after <= d, d <= e
  PROVE  /\ CountAfter(after, d) \in Nat
         /\ CountAfter(after, d) <= CountAfter(after, e)
         /\ CountAfter(after, d) + CountAfter(d, e) <= CountAfter(after, e)
BY RulesAssumption DEF CountAfter

(* ewi: epochs_without_improvement; upto: the epoch it counts up to. *)
CountHolds(has_best, best_epoch, ewi, upto) ==
  /\ has_best => best_epoch <= upto /\ ewi <= CountAfter(best_epoch, upto)
  /\ ~has_best => ewi = 0

StopHolds(stop_requested, stop_reason) == ~stop_requested => stop_reason = "None"

MonCounts ==
  /\ CountHolds(mon.has_best, mon.best_epoch, mon.epochs_without_improvement,
                mon.last_judged_epoch)
  /\ mon.last_judged_epoch <= epoch
  /\ StopHolds(mon.stop_requested, mon.stop_reason)

KeptCounts ==
  kept # NoCheckpoint =>
    /\ CountHolds(kept.state.has_best, kept.state.best_epoch,
                  kept.state.epochs_without_improvement, kept.epoch)
    /\ StopHolds(kept.state.stop_requested, kept.state.stop_reason)

PatienceInv == TypeOK /\ MonCounts /\ KeptCounts

(* RequestStopWhen and the counters, the reason and the request. *)
LEMMA RequestStopCounts ==
  ASSUME NEW m \in MonitorState, NEW reason \in StopReasons, NEW cond \in BOOLEAN,
         StopHolds(m.stop_requested, m.stop_reason)
  PROVE  LET s == RequestStopWhen(cond, m, reason)
         IN  /\ s.epochs_without_improvement = m.epochs_without_improvement
             /\ s.last_judged_epoch = m.last_judged_epoch
             /\ StopHolds(s.stop_requested, s.stop_reason)
             /\ s.stop_reason = m.stop_reason \/ (cond /\ s.stop_reason = reason)
BY DEF RequestStopWhen, RequestStop, MonitorState, StopHolds

(* An epoch that is judged counts, and only a full count stops for patience. *)
LEMMA ObserveJudgedCounts ==
  ASSUME NEW m \in MonitorState, NEW v \in BOOLEAN, NEW e \in Nat,
         NEW train \in Losses \cup {NonFinite},
         NEW val \in Losses \cup {NonFinite, NoVal},
         IsJudged(v, train, val),
         StopHolds(m.stop_requested, m.stop_reason)
  PROVE  LET loss == JudgedLoss(v, train, val)
             o    == Observe(m, v, e, train, val)
         IN  /\ o.last_judged_epoch = e
             /\ IsNewBest(m, loss) => o.epochs_without_improvement = 0
             /\ ~IsNewBest(m, loss) =>
                  o.epochs_without_improvement =
                    m.epochs_without_improvement + CountAfter(m.last_judged_epoch, e)
             /\ StopHolds(o.stop_requested, o.stop_reason)
             /\ m.stop_reason # "Patience" /\ o.stop_reason = "Patience"
                  => o.epochs_without_improvement >= PatienceEpochs
<1> DEFINE loss == JudgedLoss(v, train, val)
           seen == [m EXCEPT !.last_epoch_loss = train]
           o == Observe(m, v, e, train, val)
           r == RecordLoss(seen, e, loss)
           t == RequestStopWhen(TargetReached(loss), r, "TargetLoss")
<1>1. Losses \subseteq Int /\ loss \in Int
  BY RulesAssumption, JudgedIsLoss
<1>2. seen \in MonitorState
  BY <1>1 DEF MonitorState
<1>3. r \in MonitorState
  BY <1>1, <1>2, RecordLossType
<1>4. /\ seen.has_best = m.has_best
      /\ seen.best_loss = m.best_loss
      /\ seen.epochs_without_improvement = m.epochs_without_improvement
      /\ seen.last_judged_epoch = m.last_judged_epoch
      /\ seen.stop_requested = m.stop_requested
      /\ seen.stop_reason = m.stop_reason
  BY DEF MonitorState
<1>5. /\ IsNewBest(seen, loss) <=> IsNewBest(m, loss)
      /\ CountedEpochs(seen, e) = CountAfter(m.last_judged_epoch, e)
  BY <1>4 DEF IsNewBest, LossImproved, CountedEpochs, CountAfter
<1>6. /\ r.last_judged_epoch = e
      /\ r.stop_requested = m.stop_requested
      /\ r.stop_reason = m.stop_reason
      /\ IsNewBest(m, loss) => r.epochs_without_improvement = 0
      /\ ~IsNewBest(m, loss) =>
           r.epochs_without_improvement =
             m.epochs_without_improvement + CountAfter(m.last_judged_epoch, e)
  <2>1. CASE IsNewBest(m, loss)
    BY <1>2, <1>4, <1>5, <2>1 DEF RecordLoss, MonitorState
  <2>2. CASE ~IsNewBest(m, loss)
    BY <1>2, <1>4, <1>5, <2>2 DEF RecordLoss, MonitorState
  <2> QED
    BY <2>1, <2>2
<1>7. o = RequestStopWhen(PatienceExhausted(t, e), t, "Patience")
  BY DEF Observe, JudgeFinite
<1>8. /\ TargetReached(loss) \in BOOLEAN
      /\ PatienceExhausted(t, e) \in BOOLEAN
      /\ "TargetLoss" \in StopReasons
      /\ "Patience" \in StopReasons
  BY DEF TargetReached, PatienceExhausted, StopReasons
<1>9. PatienceExhausted(t, e) => t.epochs_without_improvement >= PatienceEpochs
  BY DEF PatienceExhausted
<1> HIDE DEF o, r, t, seen, loss
<1>10. /\ t \in MonitorState
       /\ t.epochs_without_improvement = r.epochs_without_improvement
       /\ t.last_judged_epoch = r.last_judged_epoch
       /\ StopHolds(t.stop_requested, t.stop_reason)
       /\ t.stop_reason = m.stop_reason \/ t.stop_reason = "TargetLoss"
  BY <1>3, <1>6, <1>8, RequestStopType, RequestStopCounts DEF t
<1>11. /\ o.epochs_without_improvement = t.epochs_without_improvement
       /\ o.last_judged_epoch = t.last_judged_epoch
       /\ StopHolds(o.stop_requested, o.stop_reason)
       /\ o.stop_reason = t.stop_reason \/ PatienceExhausted(t, e)
  BY <1>7, <1>8, <1>10, RequestStopCounts
<1>12. m.stop_reason # "Patience" /\ o.stop_reason = "Patience"
         => o.epochs_without_improvement >= PatienceEpochs
  BY <1>9, <1>10, <1>11
<1> QED
  BY <1>6, <1>10, <1>11, <1>12 DEF o, loss

(* An epoch that is not judged does not count and does not stop for patience. *)
LEMMA ObserveUnjudgedCounts ==
  ASSUME NEW m \in MonitorState, NEW v \in BOOLEAN, NEW e \in Nat,
         NEW train \in Losses \cup {NonFinite},
         NEW val \in Losses \cup {NonFinite, NoVal},
         ~IsJudged(v, train, val),
         StopHolds(m.stop_requested, m.stop_reason)
  PROVE  LET o == Observe(m, v, e, train, val)
         IN  /\ o.last_judged_epoch = m.last_judged_epoch
             /\ o.epochs_without_improvement = m.epochs_without_improvement
             /\ StopHolds(o.stop_requested, o.stop_reason)
             /\ o.stop_reason = "Patience" => m.stop_reason = "Patience"
<1> DEFINE seen == [m EXCEPT !.last_epoch_loss = train]
           cond == StopOnNonfinite /\ SawNonFinite(v, train, val)
<1>1. seen \in MonitorState
  BY RulesAssumption DEF MonitorState
<1>2. cond \in BOOLEAN /\ "NonFiniteLoss" \in StopReasons
  BY RulesAssumption DEF SawNonFinite, StopReasons
<1>3. Observe(m, v, e, train, val) = RequestStopWhen(cond, seen, "NonFiniteLoss")
  BY DEF Observe
<1>4. /\ seen.epochs_without_improvement = m.epochs_without_improvement
      /\ seen.last_judged_epoch = m.last_judged_epoch
      /\ seen.stop_requested = m.stop_requested
      /\ seen.stop_reason = m.stop_reason
  BY DEF MonitorState
<1> HIDE DEF seen, cond
<1> QED
  BY <1>1, <1>2, <1>3, <1>4, RequestStopCounts

(* Observing an epoch keeps the count within bounds; stopping for patience *)
(* in it means that the bound has reached patience_epochs.                 *)
LEMMA ObserveCounts ==
  ASSUME TypeOK, TypeOK', MonCounts,
         NEW train \in Losses \cup {NonFinite},
         NEW val \in Losses \cup {NonFinite, NoVal},
         ObserveEpoch(train, val)
  PROVE  /\ MonCounts'
         /\ mon.stop_reason # "Patience" /\ mon'.stop_reason = "Patience"
              => PatienceEpochs <= CountAfter(mon'.best_epoch, epoch')
<1> DEFINE e == epoch + 1
           loss == JudgedLoss(by_val, train, val)
<1>1. e \in Nat /\ epoch' = e /\ epoch \in Nat
  BY MonitorAssumption DEF ObserveEpoch, TypeOK
<1>2. mon' = Observe(mon, by_val, e, train, val)
  BY DEF ObserveEpoch
<1>3. /\ mon \in MonitorState
      /\ mon' \in MonitorState
      /\ by_val \in BOOLEAN
      /\ StopHolds(mon.stop_requested, mon.stop_reason)
      /\ mon.last_judged_epoch <= epoch
      /\ mon.has_best => /\ mon.best_epoch <= mon.last_judged_epoch
                         /\ mon.epochs_without_improvement
                              <= CountAfter(mon.best_epoch, mon.last_judged_epoch)
      /\ ~mon.has_best => mon.epochs_without_improvement = 0
  BY DEF TypeOK, MonCounts, CountHolds
<1>4. /\ mon.last_judged_epoch \in Nat
      /\ mon.best_epoch \in Nat
      /\ mon.epochs_without_improvement \in Nat
      /\ mon'.best_epoch \in Nat
      /\ mon'.epochs_without_improvement \in Nat
      /\ PatienceEpochs \in Nat
  BY <1>3, RulesAssumption DEF MonitorState
<1>5. CASE ~IsJudged(by_val, train, val)
  <2>1. /\ mon'.has_best = mon.has_best
        /\ mon'.best_epoch = mon.best_epoch
    BY <1>1, <1>2, <1>3, <1>5, ObserveUnjudged
  <2>2. /\ mon'.last_judged_epoch = mon.last_judged_epoch
        /\ mon'.epochs_without_improvement = mon.epochs_without_improvement
        /\ StopHolds(mon'.stop_requested, mon'.stop_reason)
        /\ mon'.stop_reason = "Patience" => mon.stop_reason = "Patience"
    BY <1>1, <1>2, <1>3, <1>5, ObserveUnjudgedCounts
  <2> QED
    BY <1>1, <1>3, <1>4, <2>1, <2>2 DEF MonCounts, CountHolds
<1>6. CASE IsJudged(by_val, train, val)
  <2>1. /\ mon'.has_best
        /\ IsNewBest(mon, loss) => mon'.best_epoch = e
        /\ ~IsNewBest(mon, loss) => mon'.best_epoch = mon.best_epoch
    BY <1>1, <1>2, <1>3, <1>6, ObserveJudged
  <2>2. /\ mon'.last_judged_epoch = e
        /\ IsNewBest(mon, loss) => mon'.epochs_without_improvement = 0
        /\ ~IsNewBest(mon, loss) =>
             mon'.epochs_without_improvement =
               mon.epochs_without_improvement + CountAfter(mon.last_judged_epoch, e)
        /\ StopHolds(mon'.stop_requested, mon'.stop_reason)
        /\ mon.stop_reason # "Patience" /\ mon'.stop_reason = "Patience"
             => mon'.epochs_without_improvement >= PatienceEpochs
    BY <1>1, <1>2, <1>3, <1>6, ObserveJudgedCounts
  <2>3. /\ mon'.best_epoch <= e
        /\ mon'.epochs_without_improvement <= CountAfter(mon'.best_epoch, e)
        /\ CountAfter(mon'.best_epoch, e) \in Nat
    <3>1. CASE IsNewBest(mon, loss)
      <4>1. CountAfter(e, e) \in Nat
        BY <1>1, CountAdds
      <4> QED
        BY <1>1, <2>1, <2>2, <3>1, <4>1
    <3>2. CASE ~IsNewBest(mon, loss)
      <4>1. mon.has_best
        BY <3>2 DEF IsNewBest
      <4>2. mon.last_judged_epoch <= e
        BY <1>1, <1>3, <1>4
      <4>3. /\ CountAfter(mon.best_epoch, mon.last_judged_epoch) \in Nat
            /\ CountAfter(mon.best_epoch, mon.last_judged_epoch)
                 + CountAfter(mon.last_judged_epoch, e)
                   <= CountAfter(mon.best_epoch, e)
        BY <1>1, <1>3, <1>4, <4>1, <4>2, CountAdds
      <4>4. CountAfter(mon.last_judged_epoch, e) \in Nat /\ CountAfter(mon.best_epoch, e) \in Nat
        <5>1. mon.best_epoch <= e
          BY <1>1, <1>3, <1>4, <4>1, <4>2
        <5> QED
          BY <1>1, <1>4, <4>2, <5>1, CountAdds
      <4> QED
        BY <1>1, <1>3, <1>4, <2>1, <2>2, <3>2, <4>1, <4>2, <4>3, <4>4
    <3> QED
      BY <3>1, <3>2
  <2>4. MonCounts'
    BY <1>1, <2>1, <2>2, <2>3 DEF MonCounts, CountHolds
  <2> QED
    BY <1>1, <1>4, <2>2, <2>3, <2>4
<1> QED
  BY <1>5, <1>6

(* A resume starts from a count that the epochs so far justify, and never  *)
(* from a stop.                                                            *)
LEMMA ResumeCounts ==
  ASSUME TypeOK, KeptCounts, NEW v \in BOOLEAN, Resume(v)
  PROVE  MonCounts' /\ mon'.stop_reason = "None"
<1> DEFINE k == kept.state
           m == RestoreMonitor(k, v, kept.epoch)
<1>1. kept # NoCheckpoint /\ kept \in Checkpoints
  BY DEF Resume, TypeOK
<1>2. k \in KeptState /\ kept.epoch \in Nat
  BY <1>1, MonitorAssumption DEF Checkpoints
<1>3. mon' = ResumeMonitor(k, v, kept.epoch) /\ epoch' = kept.epoch
  BY DEF Resume
<1>4. /\ CountHolds(k.has_best, k.best_epoch, k.epochs_without_improvement, kept.epoch)
      /\ StopHolds(k.stop_requested, k.stop_reason)
  BY <1>1 DEF KeptCounts
<1>5. /\ k.has_best \in BOOLEAN
      /\ k.best_is_val \in BOOLEAN
      /\ k.best_epoch \in Nat
      /\ k.stop_requested \in BOOLEAN
  BY <1>2 DEF KeptState
<1>6. /\ m.last_judged_epoch = kept.epoch
      /\ m.stop_requested = k.stop_requested
      /\ m.stop_reason = k.stop_reason
      /\ m.has_best => /\ k.has_best
                       /\ m.best_epoch = k.best_epoch
                       /\ m.epochs_without_improvement = k.epochs_without_improvement
      /\ ~m.has_best => m.epochs_without_improvement = 0
  BY <1>4, <1>5 DEF RestoreMonitor, CountHolds
<1>7. m.has_best => /\ CountAfter(m.best_epoch, kept.epoch) \in Nat
                    /\ m.best_epoch <= kept.epoch
                    /\ m.epochs_without_improvement <= CountAfter(m.best_epoch, kept.epoch)
  BY <1>2, <1>4, <1>5, <1>6, CountAdds DEF CountHolds
<1>8. /\ mon'.has_best = m.has_best
      /\ mon'.best_epoch = m.best_epoch
      /\ mon'.last_judged_epoch = kept.epoch
      /\ mon'.epochs_without_improvement \in {m.epochs_without_improvement, 0}
      /\ mon'.stop_reason = "None"
  <2>1. CASE m.stop_requested
    BY <1>3, <2>1 DEF ResumeMonitor, ClearPersistedStop, RestoreMonitor
  <2>2. CASE ~m.stop_requested
    BY <1>3, <1>4, <1>6, <2>2 DEF ResumeMonitor, StopHolds
  <2> QED
    BY <2>1, <2>2
<1> HIDE DEF m, k
<1> QED
  BY <1>2, <1>3, <1>6, <1>7, <1>8 DEF MonCounts, CountHolds, StopHolds

LEMMA PatienceInvInvariant == Spec => []PatienceInv
<1>1. Init => PatienceInv
  <2> SUFFICES ASSUME Init PROVE MonCounts /\ KeptCounts /\ TypeOK
    BY DEF PatienceInv
  <2>1. TypeOK
    BY ResetType, NoHistoryType, MonitorAssumption DEF Init, TypeOK
  <2> QED
    BY <2>1 DEF Init, ResetMonitor, MonCounts, KeptCounts, CountHolds, StopHolds
<1>2. TypeOK' /\ PatienceInv /\ [Next]_vars => PatienceInv'
  <2> SUFFICES ASSUME TypeOK', PatienceInv, [Next]_vars PROVE MonCounts' /\ KeptCounts'
    BY DEF PatienceInv
  <2> USE DEF PatienceInv
  <2>1. ASSUME NEW train \in Losses \cup {NonFinite},
               NEW val \in Losses \cup {NonFinite, NoVal},
               ObserveEpoch(train, val)
        PROVE  MonCounts' /\ KeptCounts'
    BY <2>1, ObserveCounts DEF ObserveEpoch, KeptCounts
  <2>2. CASE Keep
    <3>1. kept'.state = KeptPart(mon, by_val) /\ kept'.epoch = epoch
      BY <2>2 DEF Keep
    <3>2. /\ kept'.state.has_best = mon.has_best
          /\ kept'.state.best_epoch = mon.best_epoch
          /\ kept'.state.epochs_without_improvement = mon.epochs_without_improvement
          /\ kept'.state.stop_requested = mon.stop_requested
          /\ kept'.state.stop_reason = mon.stop_reason
      BY <3>1 DEF KeptPart
    <3>3. MonCounts'
      BY <2>2 DEF Keep, MonCounts
    <3>4. /\ mon.best_epoch \in Nat
          /\ mon.last_judged_epoch \in Nat
          /\ mon.epochs_without_improvement \in Nat
          /\ epoch \in Nat
      BY MonitorAssumption DEF TypeOK, MonitorState
    <3>5. CountHolds(mon.has_best, mon.best_epoch, mon.epochs_without_improvement, epoch)
      <4>1. CASE mon.has_best
        <5>1. /\ mon.best_epoch <= mon.last_judged_epoch
              /\ mon.last_judged_epoch <= epoch
              /\ mon.epochs_without_improvement
                   <= CountAfter(mon.best_epoch, mon.last_judged_epoch)
          BY <4>1 DEF MonCounts, CountHolds
        <5>2. /\ CountAfter(mon.best_epoch, mon.last_judged_epoch) \in Nat
              /\ CountAfter(mon.best_epoch, mon.last_judged_epoch)
                   <= CountAfter(mon.best_epoch, epoch)
          BY <3>4, <5>1, CountAdds
        <5>3. CountAfter(mon.best_epoch, epoch) \in Nat
          BY <3>4, <5>1, CountAdds
        <5> QED
          BY <3>4, <4>1, <5>1, <5>2, <5>3 DEF CountHolds
      <4>2. CASE ~mon.has_best
        BY <4>2 DEF MonCounts, CountHolds
      <4> QED
        BY <4>1, <4>2
    <3> QED
      BY <3>1, <3>2, <3>3, <3>5 DEF MonCounts, KeptCounts
  <2>3. ASSUME NEW v \in BOOLEAN, Resume(v) PROVE MonCounts' /\ KeptCounts'
    BY <2>3, ResumeCounts DEF Resume, KeptCounts
  <2>4. ASSUME NEW v \in BOOLEAN, StartFresh(v) PROVE MonCounts' /\ KeptCounts'
    BY <2>4 DEF StartFresh, ResetMonitor, MonCounts, KeptCounts, CountHolds, StopHolds
  <2>5. CASE UNCHANGED vars
    BY <2>5 DEF vars, MonCounts, KeptCounts
  <2> QED
    BY <2>1, <2>2, <2>3, <2>4, <2>5 DEF Next
<1> QED
  BY <1>1, <1>2, TypeCorrect, PTL DEF Spec

(* The patience rule never stops a run before patience_epochs epochs from  *)
(* min_epochs on have passed since the best one.                           *)
THEOREM PatienceNotEarly == Spec => NoEarlyPatienceStop
<1> DEFINE A == mon.stop_reason # "Patience" /\ mon'.stop_reason = "Patience"
                 => Cardinality(EpochsToCount(mon'.best_epoch, epoch')) >= PatienceEpochs
<1>1. PatienceInv /\ TypeOK' /\ [Next]_vars => A
  <2> SUFFICES ASSUME PatienceInv, TypeOK', [Next]_vars,
                      mon.stop_reason # "Patience", mon'.stop_reason = "Patience"
               PROVE  Cardinality(EpochsToCount(mon'.best_epoch, epoch')) >= PatienceEpochs
    OBVIOUS
  <2>1. ~Keep /\ ~UNCHANGED vars
    BY DEF Keep, vars
  <2>2. ~ \E v \in BOOLEAN : Resume(v)
    BY ResumeCounts DEF PatienceInv
  <2>3. ~ \E v \in BOOLEAN : StartFresh(v)
    BY DEF StartFresh, ResetMonitor
  <2>4. PICK train \in Losses \cup {NonFinite}, val \in Losses \cup {NonFinite, NoVal} :
          ObserveEpoch(train, val)
    BY <2>1, <2>2, <2>3 DEF Next
  <2>5. PatienceEpochs <= CountAfter(mon'.best_epoch, epoch')
    BY <2>4, ObserveCounts DEF PatienceInv
  <2>6. mon'.best_epoch \in Nat /\ epoch' \in Nat
    BY MonitorAssumption DEF TypeOK, MonitorState
  <2>7. Cardinality(EpochsToCount(mon'.best_epoch, epoch')) = CountAfter(mon'.best_epoch, epoch')
    BY <2>6, CountIsCardinality
  <2>8. PatienceEpochs \in Nat /\ CountAfter(mon'.best_epoch, epoch') \in Int
    BY <2>6, RulesAssumption DEF CountAfter
  <2> QED
    BY <2>5, <2>7, <2>8
<1>2. PatienceInv /\ TypeOK' /\ [Next]_vars => [A]_vars
  BY <1>1
<1> HIDE DEF A
<1>3. Spec => [][A]_vars
  BY <1>2, PatienceInvInvariant, TypeCorrect, PTL DEF Spec
<1> QED
  BY <1>3 DEF NoEarlyPatienceStop, A

-----------------------------------------------------------------------------
(* Patience is not late either.  The count never falls behind the epochs   *)
(* to count since the best one or the resume, whichever came later.        *)

(* A judged epoch that leaves a full count leaves a stop. *)
LEMMA FullCountStops ==
  ASSUME NEW m \in MonitorState, NEW v \in BOOLEAN, NEW e \in Nat,
         NEW train \in Losses \cup {NonFinite},
         NEW val \in Losses \cup {NonFinite, NoVal},
         IsJudged(v, train, val),
         PatienceEpochs > 0, e >= MinEpochs,
         Observe(m, v, e, train, val).epochs_without_improvement >= PatienceEpochs
  PROVE  Observe(m, v, e, train, val).stop_requested
<1> DEFINE loss == JudgedLoss(v, train, val)
           seen == [m EXCEPT !.last_epoch_loss = train]
           r == RecordLoss(seen, e, loss)
           t == RequestStopWhen(TargetReached(loss), r, "TargetLoss")
           o == RequestStopWhen(PatienceExhausted(t, e), t, "Patience")
<1>1. Losses \subseteq Int /\ loss \in Int
  BY RulesAssumption, JudgedIsLoss
<1>2. seen \in MonitorState
  BY <1>1 DEF MonitorState
<1>3. r \in MonitorState
  BY <1>1, <1>2, RecordLossType
<1>4. TargetReached(loss) \in BOOLEAN /\ "TargetLoss" \in StopReasons
  BY DEF TargetReached, StopReasons
<1>5. t \in MonitorState
  BY <1>3, <1>4, RequestStopType
<1>6. Observe(m, v, e, train, val) = o
  BY DEF Observe, JudgeFinite
<1> HIDE DEF t
<1>7. o.epochs_without_improvement = t.epochs_without_improvement
  BY <1>5 DEF RequestStopWhen, RequestStop, MonitorState
<1>8. PatienceExhausted(t, e)
  BY <1>6, <1>7 DEF PatienceExhausted
<1>9. o.stop_requested
  BY <1>5, <1>8 DEF RequestStopWhen, RequestStop, MonitorState
<1> QED
  BY <1>6, <1>9

Since == IF mon.best_epoch > resumed_at THEN mon.best_epoch ELSE resumed_at

CountKeepsUp ==
  /\ resumed_at <= mon.last_judged_epoch
  /\ mon.has_best => CountAfter(Since, mon.last_judged_epoch) <= mon.epochs_without_improvement
  /\ epoch > resumed_at /\ Judged(epoch) => mon.last_judged_epoch = epoch

TimelyInv == CountKeepsUp /\ PatienceStopsInTime

(* Counting up to d and then from d to e misses nothing. *)
LEMMA CountMissesNothing ==
  ASSUME NEW after \in Nat, NEW d \in Nat, NEW e \in Nat, after <= d, d <= e
  PROVE  /\ CountAfter(after, e) <= CountAfter(after, d) + CountAfter(d, e)
         /\ CountAfter(d, d) = 0
         /\ CountAfter(d, e) > 0 => e >= MinEpochs
BY RulesAssumption DEF CountAfter

LEMMA ObserveTimely ==
  ASSUME TypeOK, TypeOK', MonAgrees, MonCounts, TimelyInv,
         NEW train \in Losses \cup {NonFinite},
         NEW val \in Losses \cup {NonFinite, NoVal},
         ObserveEpoch(train, val)
  PROVE  TimelyInv'
<1> DEFINE e == epoch + 1
           loss == JudgedLoss(by_val, train, val)
<1>1. /\ e \in Nat
      /\ epoch \in Nat
      /\ e \in 1..MaxEpochs
      /\ epoch' = e
      /\ resumed_at' = resumed_at
      /\ resumed_at \in Nat
  BY MonitorAssumption DEF ObserveEpoch, TypeOK
<1>2. mon' = Observe(mon, by_val, e, train, val)
  BY DEF ObserveEpoch
<1>3. /\ mon \in MonitorState
      /\ mon' \in MonitorState
      /\ by_val \in BOOLEAN
      /\ StopHolds(mon.stop_requested, mon.stop_reason)
      /\ mon.last_judged_epoch \in Nat
      /\ mon.last_judged_epoch <= epoch
      /\ mon.has_best => mon.best_epoch <= mon.last_judged_epoch
      /\ mon.best_epoch \in Nat
      /\ mon'.best_epoch \in Nat
      /\ mon.epochs_without_improvement \in Nat
      /\ mon'.epochs_without_improvement \in Nat
  BY DEF TypeOK, MonCounts, CountHolds, MonitorState
<1>4. /\ resumed_at <= mon.last_judged_epoch
      /\ mon.has_best => CountAfter(Since, mon.last_judged_epoch) <= mon.epochs_without_improvement
  BY DEF TimelyInv, CountKeepsUp
<1>5. CASE ~IsJudged(by_val, train, val)
  <2>1. history' = history
    BY <1>5 DEF ObserveEpoch
  <2>2. ~Judged(epoch)'
    BY <1>1, <2>1 DEF MonAgrees, BestAgrees, Judged
  <2>3. mon'.has_best = mon.has_best /\ mon'.best_epoch = mon.best_epoch
    BY <1>1, <1>2, <1>3, <1>5, ObserveUnjudged
  <2>4. /\ mon'.last_judged_epoch = mon.last_judged_epoch
        /\ mon'.epochs_without_improvement = mon.epochs_without_improvement
    BY <1>1, <1>2, <1>3, <1>5, ObserveUnjudgedCounts
  <2>5. Since' = Since
    BY <1>1, <2>3 DEF Since
  <2> QED
    BY <1>1, <1>4, <2>2, <2>3, <2>4, <2>5 DEF TimelyInv, CountKeepsUp, PatienceStopsInTime
<1>6. CASE IsJudged(by_val, train, val)
  <2>1. /\ mon'.has_best
        /\ IsNewBest(mon, loss) => mon'.best_epoch = e
        /\ ~IsNewBest(mon, loss) => mon'.best_epoch = mon.best_epoch
    BY <1>1, <1>2, <1>3, <1>6, ObserveJudged
  <2>2. /\ mon'.last_judged_epoch = e
        /\ IsNewBest(mon, loss) => mon'.epochs_without_improvement = 0
        /\ ~IsNewBest(mon, loss) =>
             mon'.epochs_without_improvement =
               mon.epochs_without_improvement + CountAfter(mon.last_judged_epoch, e)
    BY <1>1, <1>2, <1>3, <1>6, ObserveJudgedCounts
  <2>3. Since' \in Nat /\ Since' <= e /\ CountAfter(Since', e) <= mon'.epochs_without_improvement
    <3>1. CASE IsNewBest(mon, loss)
      <4>1. Since' = e
        BY <1>1, <1>3, <1>4, <2>1, <3>1 DEF Since
      <4>2. CountAfter(e, e) = 0
        BY <1>1, CountMissesNothing
      <4> QED
        BY <1>1, <2>2, <3>1, <4>1, <4>2
    <3>2. CASE ~IsNewBest(mon, loss)
      <4>1. mon.has_best
        BY <3>2 DEF IsNewBest
      <4>2. Since' = Since
        BY <1>1, <2>1, <3>2 DEF Since
      <4>3. /\ Since \in Nat
            /\ Since <= mon.last_judged_epoch
            /\ mon.last_judged_epoch <= e
        BY <1>1, <1>3, <1>4, <4>1 DEF Since
      <4>4. CountAfter(Since, e) <= CountAfter(Since, mon.last_judged_epoch)
                                      + CountAfter(mon.last_judged_epoch, e)
        BY <1>1, <1>3, <4>3, CountMissesNothing
      <4>5. /\ CountAfter(Since, mon.last_judged_epoch) \in Nat
            /\ CountAfter(mon.last_judged_epoch, e) \in Nat
            /\ CountAfter(Since, e) \in Nat
        <5>1. CountAfter(Since, mon.last_judged_epoch) \in Nat
          BY <1>3, <4>3, CountAdds
        <5>2. CountAfter(mon.last_judged_epoch, e) \in Nat
          BY <1>1, <1>3, <4>3, CountAdds
        <5>3. Since <= e
          BY <1>1, <1>3, <4>3
        <5>4. CountAfter(Since, e) \in Nat
          BY <1>1, <4>3, <5>3, CountAdds
        <5> QED
          BY <5>1, <5>2, <5>4
      <4> HIDE DEF e, loss
      <4> QED
        BY <1>1, <1>3, <1>4, <2>2, <3>2, <4>1, <4>2, <4>3, <4>4, <4>5
    <3> QED
      BY <3>1, <3>2
  <2>4. CountKeepsUp'
    BY <1>1, <1>3, <1>4, <2>1, <2>2, <2>3 DEF CountKeepsUp
  <2>5. ASSUME PatienceEpochs > 0, Cardinality(EpochsToCount(Since', e)) >= PatienceEpochs
        PROVE  mon'.stop_requested
    <3>1. CountAfter(Since', e) >= PatienceEpochs
      BY <1>1, <2>3, <2>5, CountIsCardinality
    <3>2. CountAfter(Since', e) \in Nat /\ PatienceEpochs \in Nat
      BY <1>1, <2>3, CountAdds, RulesAssumption
    <3>3. e >= MinEpochs
      BY <1>1, <2>3, <2>5, <3>1, <3>2, CountMissesNothing
    <3>4. mon'.epochs_without_improvement >= PatienceEpochs
      BY <1>3, <2>3, <3>1, <3>2
    <3> QED
      BY <1>1, <1>2, <1>3, <1>6, <2>5, <3>3, <3>4, FullCountStops
  <2>6. PatienceStopsInTime'
    BY <1>1, <2>5 DEF PatienceStopsInTime, Since
  <2> QED
    BY <2>4, <2>6 DEF TimelyInv
<1> QED
  BY <1>5, <1>6

(* The patience rule stops a run at the next judged epoch once             *)
(* patience_epochs epochs that count have passed since the best epoch or   *)
(* the resume.                                                             *)
THEOREM PatienceInTime == Spec => []PatienceStopsInTime
<1>1. Init => TimelyInv
  BY RulesAssumption DEF Init, ResetMonitor, TimelyInv, CountKeepsUp, PatienceStopsInTime
<1>2. TypeOK /\ TypeOK' /\ BestInv /\ PatienceInv /\ TimelyInv /\ [Next]_vars => TimelyInv'
  <2> SUFFICES ASSUME TypeOK, TypeOK', MonAgrees, MonCounts, KeptCounts, TimelyInv,
                      [Next]_vars
               PROVE  TimelyInv'
    BY DEF BestInv, PatienceInv
  <2>1. ASSUME NEW train \in Losses \cup {NonFinite},
               NEW val \in Losses \cup {NonFinite, NoVal},
               ObserveEpoch(train, val)
        PROVE  TimelyInv'
    BY <2>1, ObserveTimely
  <2>2. CASE Keep
    BY <2>2 DEF Keep, TimelyInv, CountKeepsUp, Since, PatienceStopsInTime, Judged
  <2>3. ASSUME NEW v \in BOOLEAN, Resume(v) PROVE TimelyInv'
    <3>1. /\ kept.state \in KeptState
          /\ kept.epoch \in Nat
          /\ epoch' = kept.epoch
          /\ resumed_at' = kept.epoch
          /\ mon' = ResumeMonitor(kept.state, v, kept.epoch)
      BY <2>3, MonitorAssumption DEF Resume, TypeOK, Checkpoints
    <3>2. mon'.last_judged_epoch = kept.epoch
      BY <3>1 DEF ResumeMonitor, RestoreMonitor, ClearPersistedStop
    <3>3. mon'.has_best => mon'.best_epoch <= mon'.last_judged_epoch
      BY <2>3, ResumeCounts DEF MonCounts, CountHolds
    <3>4. mon'.best_epoch \in Nat /\ mon'.epochs_without_improvement \in Nat
      BY DEF TypeOK, MonitorState
    <3>5. mon'.has_best => CountAfter(Since', mon'.last_judged_epoch) = 0
      <4> SUFFICES ASSUME mon'.has_best PROVE CountAfter(Since', mon'.last_judged_epoch) = 0
        OBVIOUS
      <4>1. Since' = kept.epoch
        BY <3>1, <3>2, <3>3, <3>4 DEF Since
      <4> QED
        BY <3>1, <3>2, <4>1, CountMissesNothing
    <3>6. CountKeepsUp'
      BY <3>1, <3>2, <3>4, <3>5 DEF CountKeepsUp
    <3>7. ~(epoch' > resumed_at')
      BY <3>1
    <3> QED
      BY <3>6, <3>7 DEF TimelyInv, PatienceStopsInTime
  <2>4. ASSUME NEW v \in BOOLEAN, StartFresh(v) PROVE TimelyInv'
    BY <2>4 DEF StartFresh, ResetMonitor, TimelyInv, CountKeepsUp, PatienceStopsInTime
  <2>5. CASE UNCHANGED vars
    BY <2>5 DEF vars, TimelyInv, CountKeepsUp, Since, PatienceStopsInTime, Judged
  <2> QED
    BY <2>1, <2>2, <2>3, <2>4, <2>5 DEF Next
<1>3. TimelyInv => PatienceStopsInTime
  BY DEF TimelyInv
<1> QED
  BY <1>1, <1>2, <1>3, TypeCorrect, BestInvInvariant, PatienceInvInvariant, PTL DEF Spec

(* Keeping the monitor right after a judged epoch and resuming the same    *)
(* kind of run from it loses nothing.                                      *)
THEOREM InterruptionsLoseNothing == Spec => []InterruptionIsInvisible
<1>1. TypeOK => InterruptionIsInvisible
  <2> SUFFICES ASSUME TypeOK, ~mon.stop_requested, mon.last_judged_epoch = epoch
               PROVE  ResumeMonitor(KeptPart(mon, by_val), by_val, epoch) = mon
    BY DEF InterruptionIsInvisible
  <2>1. mon \in MonitorState
    BY DEF TypeOK
  <2>2. RestoreMonitor(KeptPart(mon, by_val), by_val, epoch) = mon
    BY <2>1 DEF RestoreMonitor, KeptPart, MonitorState
  <2> QED
    BY <2>2 DEF ResumeMonitor
<1> QED
  BY <1>1, TypeCorrect, PTL
=============================================================================
