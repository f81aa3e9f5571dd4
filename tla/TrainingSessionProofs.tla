----------------------- MODULE TrainingSessionProofs ------------------------
(***************************************************************************)
(* The training session, for any number of invocations, crashes and        *)
(* failures, any plans and any losses: memory and files stay coherent, and *)
(* the session implements DurableProgress.                                 *)
(***************************************************************************)
EXTENDS TrainingDurability, ConvergenceRulesProofs

-----------------------------------------------------------------------------
(* Types of what the actions write *)

LEMMA NoPayloadType == NoPayload \in Payloads /\ ~Whole(NoPayload)
<1>1. AnyTokenizer \in Tokenizers /\ AnyModel \in Models
  BY FilesAssumption DEF AnyTokenizer, AnyModel
<1>2. KeptPart(ResetMonitor, FALSE) \in KeptState
  BY ResetType, KeptPartType
<1>3. NoWeights \in Weights
  BY <1>1 DEF NoWeights, Weights
<1> QED
  BY <1>1, <1>2, <1>3 DEF NoPayload, Payloads, Levels, Whole

LEMMA EmptySlotType == EmptySlot \in Slots
BY NoPayloadType DEF EmptySlot, Slots

(* A short write leaves the old checkpoint or one that is not whole. *)
LEMMA ShortWritesType ==
  ASSUME NEW old \in Payloads, NEW p \in Payloads, NEW q \in ShortWrites(old, p)
  PROVE  q \in Payloads /\ (Whole(q) => q = old)
<1>1. CASE q = old
  BY <1>1
<1>2. CASE q = [NoPayload EXCEPT !.level = "empty"]
  BY <1>2, NoPayloadType DEF Payloads, Levels, Whole
<1>3. CASE q = [p EXCEPT !.level = "header"]
  BY <1>3 DEF Payloads, Levels, Whole
<1>4. CASE q = [p EXCEPT !.level = "params"]
  BY <1>4 DEF Payloads, Levels, Whole
<1> QED
  BY <1>1, <1>2, <1>3, <1>4 DEF ShortWrites

LEMMA TrainedType ==
  ASSUME NEW w \in Weights, NEW n \in Nat
  PROVE  /\ Trained(w, n) \in Weights
         /\ Trained(w, n).steps = w.steps + n
         /\ Trained(w, n).lineage = w.lineage
         /\ Trained(w, n).tok = w.tok
BY DEF Trained, Weights

LEMMA FreshWeightsType ==
  ASSUME NEW p \in Plans, NEW r \in Nat
  PROVE  [lineage |-> r, tok |-> p.tok, steps |-> 0] \in Weights
BY SessionAssumption DEF Weights, PlanRecords

LEMMA NewPayloadType ==
  ASSUME TypeOK, stage # "down", params \in Weights, adam \in Weights
  PROVE  NewPayload \in Payloads
<1>1. KeptPart(mon, plan.by_val) \in KeptState
  BY KeptPartType, SessionAssumption DEF TypeOK, PlanRecords
<1> QED
  BY <1>1, SessionAssumption DEF TypeOK, NewPayload, Payloads, Levels, PlanRecords, Positions

-----------------------------------------------------------------------------
(* The inductive invariant.  MemoryCoherent and FilesCoherent need what    *)
(* the stages of a load have already put in place, that the monitor is     *)
(* reset until a load succeeds, and that best_epoch is not ahead.          *)

Coherent(w, a, p) ==
  /\ w \in Weights
  /\ a = w
  /\ w.steps = p.steps
  /\ p.steps = StepsPerEpoch * p.epoch

ReadyStages == {"sync"} \cup TrainingStages

Loading ==
  /\ stage \in {"loadAdam", "verify"} => params = latest.payload.params
  /\ stage = "verify" => Whole(latest.payload) /\ adam = latest.payload.adam

Ready == stage \in ReadyStages => Coherent(params, adam, pos) /\ mon.best_epoch <= pos.epoch

Synced == stage \in TrainingStages => compute = params

MonitorWaits == stage \in LoadStages \cup {"fresh"} => mon = ResetMonitor

SessionInv ==
  TypeOK /\ Loading /\ Ready /\ Synced /\ MonitorWaits /\ FilesCoherent

LEMMA InitSession == Init => SessionInv
<1> SUFFICES ASSUME Init PROVE SessionInv
  OBVIOUS
<1>1. TypeOK
  <2>1. StartPosition \in Positions /\ "down" \in Stages
    BY DEF Positions, StartPosition, Stages
  <2>2. 0 \in 0..MaxRuns /\ 0 \in 0..MaxCrashes /\ 0 \in 0..MaxFailures
    BY SessionAssumption
  <2> QED
    BY <2>1, <2>2, ResetType, EmptySlotType DEF Init, TypeOK
<1>2. FilesCoherent
  BY NoPayloadType DEF Init, EmptySlot, FilesCoherent, PayloadCoherent
<1> QED
  BY <1>1, <1>2 DEF Init, SessionInv, Loading, Ready, Synced, MonitorWaits,
                    ReadyStages, TrainingStages, LoadStages, SaveStages, CopyStages

(* Before training: starting, loading, initialising. *)
LEMMA StartSession ==
  ASSUME SessionInv, NEW p \in Plans, Start(p)
  PROVE  SessionInv'
<1>1. TypeOK'
  <2>1. StartPosition \in Positions /\ {"loadHeader", "fresh"} \subseteq Stages
    BY DEF Positions, StartPosition, Stages, LoadStages
  <2>2. run' \in 0..MaxRuns
    BY SessionAssumption DEF Start, SessionInv, TypeOK
  <2> QED
    BY <2>1, <2>2, ResetType DEF Start, SessionInv, TypeOK, NoMemory, files, faults
<1>2. stage' \in {"loadHeader", "fresh"} /\ mon' = ResetMonitor
  BY DEF Start, NoMemory
<1>3. FilesCoherent'
  BY DEF Start, SessionInv, FilesCoherent, files
<1> QED
  BY <1>1, <1>2, <1>3
  DEF SessionInv, Loading, Ready, Synced, MonitorWaits, ReadyStages, TrainingStages,
      LoadStages, SaveStages, CopyStages

LEMMA LoadSession ==
  ASSUME SessionInv, LoadHeader \/ LoadParams \/ LoadAdam \/ LoadFails
  PROVE  SessionInv'
<1>1. TypeOK'
  <2>1. latest.payload.params \in Weights /\ latest.payload.adam \in Weights
    BY DEF SessionInv, TypeOK, Slots, Payloads
  <2>2. LoadStages \cup {"fresh"} \subseteq Stages
    BY DEF Stages
  <2>3. stage' \in LoadStages \cup {"fresh"} /\ stage # "down"
    BY DEF LoadHeader, LoadParams, LoadAdam, LoadFails, LoadStages
  <2>4. params' \in Weights \cup {Raw} /\ adam' \in Weights \cup {Raw}
    BY <2>1 DEF LoadHeader, LoadParams, LoadAdam, LoadFails, SessionInv, TypeOK, memory
  <2>5. failures' \in 0..MaxFailures
    BY SessionAssumption DEF LoadHeader, LoadParams, LoadAdam, LoadFails, SessionInv, TypeOK, faults
  <2>6. UNCHANGED <<plan, run, compute, pos, mon, new_best, parent, files, crashes>>
    BY DEF LoadHeader, LoadParams, LoadAdam, LoadFails, memory, faults
  <2> QED
    BY <2>2, <2>3, <2>4, <2>5, <2>6 DEF SessionInv, TypeOK, files
<1>2. Loading'
  BY DEF LoadHeader, LoadParams, LoadAdam, LoadFails, SessionInv, Loading, memory, files, faults,
      AdamReadable, Whole
<1>3. stage' \in LoadStages \cup {"fresh"} /\ mon' = ResetMonitor
  BY DEF LoadHeader, LoadParams, LoadAdam, LoadFails, SessionInv, MonitorWaits, LoadStages,
      memory
<1>4. FilesCoherent'
  BY DEF LoadHeader, LoadParams, LoadAdam, LoadFails, SessionInv, FilesCoherent, files
<1> QED
  BY <1>1, <1>2, <1>3, <1>4
  DEF SessionInv, Ready, Synced, MonitorWaits, ReadyStages, TrainingStages,
      LoadStages, SaveStages, CopyStages

(* The best epoch of a resumed monitor is not ahead of the checkpoint. *)
LEMMA ResumeBestEpoch ==
  ASSUME NEW k \in KeptState, NEW v \in BOOLEAN, NEW e \in Nat, k.best_epoch <= e
  PROVE  ResumeMonitor(k, v, e).best_epoch <= e
BY DEF ResumeMonitor, ClearPersistedStop, RestoreMonitor, KeptState

LEMMA VerifySession ==
  ASSUME SessionInv, VerifyFingerprint
  PROVE  SessionInv'
<1>1. /\ latest \in Slots
      /\ latest.payload \in Payloads
      /\ latest.payload.conv \in KeptState
      /\ latest.payload.epoch \in Nat
      /\ latest.payload.steps \in Nat
      /\ plan.by_val \in BOOLEAN
  BY SessionAssumption DEF VerifyFingerprint, SessionInv, TypeOK, Slots, Payloads, PlanRecords
<1>2. ResumeMonitor(latest.payload.conv, plan.by_val, latest.payload.epoch) \in MonitorState
  BY <1>1, ResumeType
<1>3. TypeOK'
  BY <1>1, <1>2
  DEF VerifyFingerprint, SessionInv, TypeOK, files, faults, Stages, Positions, Slots
<1>4. FilesCoherent'
  BY DEF VerifyFingerprint, SessionInv, FilesCoherent, files
<1>5. CASE FingerprintAccepted(latest, plan.tok)
  <2>1. /\ stage' = "sync"
        /\ pos' = [steps |-> latest.payload.steps, epoch |-> latest.payload.epoch]
        /\ mon' = ResumeMonitor(latest.payload.conv, plan.by_val, latest.payload.epoch)
        /\ params' = params /\ adam' = adam
    BY <1>5 DEF VerifyFingerprint
  <2>2. PayloadCoherent(latest.payload) /\ Whole(latest.payload)
    BY DEF VerifyFingerprint, SessionInv, FilesCoherent, Loading
  <2>3. params = latest.payload.params /\ adam = latest.payload.adam /\ params \in Weights
    BY <1>1 DEF VerifyFingerprint, SessionInv, Loading, Payloads
  <2>4. Coherent(params', adam', pos')
    BY <2>1, <2>2, <2>3 DEF Coherent, PayloadCoherent
  <2>5. mon'.best_epoch <= pos'.epoch
    BY <1>1, <2>1, <2>2, ResumeBestEpoch DEF PayloadCoherent
  <2> QED
    BY <1>3, <1>4, <2>1, <2>4, <2>5
    DEF SessionInv, Loading, Ready, Synced, MonitorWaits, TrainingStages,
        LoadStages, SaveStages, CopyStages
<1>6. CASE ~FingerprintAccepted(latest, plan.tok)
  <2>1. stage' = "fresh" /\ mon' = mon /\ stage = "verify"
    BY <1>6 DEF VerifyFingerprint
  <2>2. mon' = ResetMonitor
    BY <2>1 DEF SessionInv, MonitorWaits, LoadStages
  <2> QED
    BY <1>3, <1>4, <2>1, <2>2
    DEF SessionInv, Loading, Ready, Synced, MonitorWaits, ReadyStages, TrainingStages,
        LoadStages, SaveStages, CopyStages
<1> QED
  BY <1>5, <1>6

LEMMA InitializeSession ==
  ASSUME SessionInv, InitializeFresh
  PROVE  SessionInv'
<1> DEFINE w == [lineage |-> run, tok |-> plan.tok, steps |-> 0]
<1>1. plan \in Plans /\ run \in Nat
  BY SessionAssumption DEF InitializeFresh, SessionInv, TypeOK
<1>2. w \in Weights
  BY <1>1, FreshWeightsType
<1>3. params' = w /\ adam' = w /\ pos' = StartPosition /\ mon' = mon /\ stage' = "sync"
  BY DEF InitializeFresh
<1>4. TypeOK'
  BY <1>2, <1>3
  DEF InitializeFresh, SessionInv, TypeOK, files, faults, Stages, Positions, StartPosition
<1>5. mon = ResetMonitor
  BY DEF InitializeFresh, SessionInv, MonitorWaits
<1>6. Coherent(params', adam', pos') /\ mon'.best_epoch <= pos'.epoch
  BY <1>2, <1>3, <1>5, SessionAssumption DEF Coherent, StartPosition, ResetMonitor
<1>7. FilesCoherent'
  BY DEF InitializeFresh, SessionInv, FilesCoherent, files
<1> QED
  BY <1>3, <1>4, <1>6, <1>7
  DEF SessionInv, Loading, Ready, Synced, MonitorWaits, TrainingStages,
      LoadStages, SaveStages, CopyStages

LEMMA SyncSession ==
  ASSUME SessionInv, SyncAndBegin
  PROVE  SessionInv'
<1>1. TypeOK'
  BY DEF SyncAndBegin, SessionInv, TypeOK, files, faults, Stages, TrainingStages
<1>2. FilesCoherent'
  BY DEF SyncAndBegin, SessionInv, FilesCoherent, files
<1>3. Ready' /\ Synced'
  BY DEF SyncAndBegin, SessionInv, Ready, Synced, ReadyStages
<1>4. stage' \in {"epoch", "ending"}
  BY DEF SyncAndBegin
<1> QED
  BY <1>1, <1>2, <1>3, <1>4 DEF SessionInv, Loading, MonitorWaits, LoadStages

(* An observed epoch leaves the best epoch or moves it to itself. *)
LEMMA ObserveBestEpoch ==
  ASSUME NEW m \in MonitorState, NEW v \in BOOLEAN, NEW e \in Nat,
         NEW train \in Losses \cup {NonFinite},
         NEW val \in Losses \cup {NonFinite, NoVal}
  PROVE  Observe(m, v, e, train, val).best_epoch \in {m.best_epoch, e}
BY ObserveJudged, ObserveUnjudged

(* An epoch of training takes all of the memory the same number of steps   *)
(* further.                                                                *)
LEMMA EpochSession ==
  ASSUME SessionInv, NEW train \in Losses, NEW val \in Losses \cup {NonFinite, NoVal},
         RunEpoch(train, val)
  PROVE  SessionInv'
<1> DEFINE e == pos.epoch + 1
           m == Observe(mon, plan.by_val, e, train, val)
<1>1. /\ plan \in Plans
      /\ plan.by_val \in BOOLEAN
      /\ mon \in MonitorState
      /\ mon.best_epoch \in Nat
      /\ pos \in Positions
      /\ pos.epoch \in Nat
      /\ pos.steps \in Nat
      /\ e \in Nat
      /\ StepsPerEpoch \in Nat
  BY SessionAssumption DEF RunEpoch, SessionInv, TypeOK, PlanRecords, Positions, MonitorState
<1>2. /\ Coherent(params, adam, pos)
      /\ mon.best_epoch <= pos.epoch
  BY DEF RunEpoch, SessionInv, Ready, ReadyStages, TrainingStages
<1>3. /\ params' = Trained(params, StepsPerEpoch)
      /\ adam' = Trained(adam, StepsPerEpoch)
      /\ compute' = params'
      /\ pos' = [steps |-> pos.steps + StepsPerEpoch, epoch |-> e]
      /\ mon' = m
      /\ new_best' = VerdictNewBest(mon, plan.by_val, train, val)
      /\ stage' \in {"savePayload", "decide"}
      /\ stage = "epoch"
      /\ UNCHANGED <<plan, run, parent, latest, best, interrupted, crashes, failures>>
  BY DEF RunEpoch, files, faults
<1>4. params \in Weights /\ params' \in Weights /\ adam' = params'
      /\ params'.steps = params.steps + StepsPerEpoch
  BY <1>1, <1>2, <1>3, TrainedType DEF Coherent
<1>5. m \in MonitorState /\ m.best_epoch \in {mon.best_epoch, e}
  BY <1>1, ObserveType, ObserveBestEpoch
<1>6. new_best' \in BOOLEAN
  BY <1>3 DEF VerdictNewBest, IsJudged
<1>7. pos' \in Positions /\ stage' \in Stages /\ stage' \in TrainingStages
  BY <1>1, <1>3 DEF Positions, Stages, TrainingStages, SaveStages
<1>8. TypeOK'
  BY <1>3, <1>4, <1>5, <1>6, <1>7 DEF SessionInv, TypeOK
<1>9. StepsPerEpoch * e = StepsPerEpoch * pos.epoch + StepsPerEpoch
  BY <1>1
<1>10. Coherent(params', adam', pos')
  BY <1>1, <1>2, <1>3, <1>4, <1>9 DEF Coherent
<1>11. mon'.best_epoch <= pos'.epoch
  BY <1>1, <1>2, <1>3, <1>5
<1>12. FilesCoherent'
  BY <1>3 DEF SessionInv, FilesCoherent
<1> QED
  BY <1>3, <1>7, <1>8, <1>10, <1>11, <1>12
  DEF SessionInv, Loading, Ready, Synced, MonitorWaits, LoadStages

-----------------------------------------------------------------------------
(* Saving, promoting and what stops them short.  None of these actions     *)
(* touches the memory; what they must show is that the files stay typed    *)
(* and coherent.                                                           *)

LEMMA FileStepSession ==
  ASSUME SessionInv, stage \in TrainingStages, stage' \in TrainingStages,
         UNCHANGED <<plan, run, memory>>,
         latest' \in Slots, best' \in Slots, FilesCoherent',
         interrupted' \subseteq {"latest", "best"},
         crashes' \in 0..MaxCrashes, failures' \in 0..MaxFailures
  PROVE  SessionInv'
<1>1. TrainingStages \subseteq ReadyStages /\ TrainingStages \subseteq Stages
  BY DEF ReadyStages, Stages
<1>2. TypeOK'
  BY <1>1 DEF SessionInv, TypeOK, memory, Stages, TrainingStages, SaveStages, CopyStages
<1>3. Ready' /\ Synced'
  BY <1>1 DEF SessionInv, Ready, Synced, memory
<1>4. stage' \notin LoadStages \cup {"fresh"}
  BY DEF TrainingStages, LoadStages, SaveStages, CopyStages
<1>5. Loading' /\ MonitorWaits'
  BY <1>4 DEF Loading, MonitorWaits, LoadStages
<1> QED
  BY <1>2, <1>3, <1>5 DEF SessionInv

(* The checkpoint a training session writes is coherent. *)
LEMMA NewPayloadCoherent ==
  ASSUME SessionInv, stage \in TrainingStages
  PROVE  NewPayload \in Payloads /\ PayloadCoherent(NewPayload)
<1>1. Coherent(params, adam, pos) /\ mon.best_epoch <= pos.epoch
  BY DEF SessionInv, Ready, ReadyStages
<1>2. stage # "down"
  BY DEF TrainingStages, SaveStages, CopyStages
<1>3. NewPayload \in Payloads
  BY <1>1, <1>2, NewPayloadType DEF SessionInv, Coherent
<1>4. PayloadCoherent(NewPayload)
  BY <1>1 DEF PayloadCoherent, NewPayload, Coherent, KeptPart
<1> QED
  BY <1>3, <1>4

LEMMA SlotParts ==
  ASSUME NEW s \in Slots, NEW p \in Payloads,
         NEW f \in Tokenizers \cup {Absent, Empty}, NEW r \in Nat \cup {Absent, Empty}
  PROVE  /\ [s EXCEPT !.payload = p] \in Slots
         /\ [s EXCEPT !.payload = p].payload = p
         /\ [s EXCEPT !.tokfp = f] \in Slots
         /\ [s EXCEPT !.tokfp = f].payload = s.payload
         /\ [s EXCEPT !.run = r] \in Slots
         /\ [s EXCEPT !.run = r].payload = s.payload
BY DEF Slots

LEMMA SaveSession ==
  ASSUME SessionInv, SavePayload \/ SaveTokfp \/ SaveRun
  PROVE  SessionInv'
<1>1. /\ latest \in Slots
      /\ best \in Slots
      /\ plan \in Plans
      /\ plan.tok \in Tokenizers
      /\ run \in Nat
      /\ latest.payload \in Payloads
      /\ interrupted \subseteq {"latest", "best"}
      /\ crashes \in 0..MaxCrashes
      /\ failures \in 0..MaxFailures
  BY SessionAssumption DEF SavePayload, SaveTokfp, SaveRun, SessionInv, TypeOK, PlanRecords, Slots
<1>2. stage \in TrainingStages /\ stage' \in TrainingStages
  BY DEF SavePayload, SaveTokfp, SaveRun, AfterSave, TrainingStages, SaveStages, CopyStages
<1>3. UNCHANGED <<plan, run, memory>> /\ UNCHANGED <<best, crashes, failures>>
      /\ interrupted' \subseteq {"latest", "best"}
  BY <1>1 DEF SavePayload, SaveTokfp, SaveRun, faults
<1>4. NewPayload \in Payloads /\ PayloadCoherent(NewPayload)
  BY <1>2, NewPayloadCoherent
<1>5. latest' \in Slots /\ latest'.payload \in {latest.payload, NewPayload}
  <2>1. CASE SavePayload
    BY <1>1, <1>4, <2>1, SlotParts DEF SavePayload
  <2>2. CASE SaveTokfp
    BY <1>1, <2>2, SlotParts DEF SaveTokfp
  <2>3. CASE SaveRun
    BY <1>1, <2>3, SlotParts DEF SaveRun
  <2> QED
    BY <2>1, <2>2, <2>3
<1>6. FilesCoherent'
  BY <1>3, <1>4, <1>5 DEF SessionInv, FilesCoherent, PayloadCoherent
<1> QED
  BY <1>1, <1>2, <1>3, <1>5, <1>6, FileStepSession

LEMMA CopySession ==
  ASSUME SessionInv, CopyPayload \/ CopyTokfp \/ CopyRun
  PROVE  SessionInv'
<1>1. /\ latest \in Slots
      /\ best \in Slots
      /\ latest.payload \in Payloads
      /\ latest.tokfp \in Tokenizers \cup {Absent, Empty}
      /\ latest.run \in Nat \cup {Absent, Empty}
      /\ interrupted \subseteq {"latest", "best"}
      /\ crashes \in 0..MaxCrashes
      /\ failures \in 0..MaxFailures
  BY DEF SessionInv, TypeOK, Slots
<1>2. stage \in TrainingStages /\ stage' \in TrainingStages
  BY DEF CopyPayload, CopyTokfp, CopyRun, TrainingStages, CopyStages
<1>3. UNCHANGED <<plan, run, memory>> /\ UNCHANGED <<latest, crashes, failures>>
      /\ interrupted' \subseteq {"latest", "best"}
  BY <1>1 DEF CopyPayload, CopyTokfp, CopyRun, faults
<1>4. best' \in Slots /\ best'.payload \in {latest.payload, best.payload}
  <2>1. CASE CopyPayload
    BY <1>1, <2>1, SlotParts DEF CopyPayload
  <2>2. CASE CopyTokfp
    BY <1>1, <2>2, SlotParts DEF CopyTokfp
  <2>3. CASE CopyRun
    BY <1>1, <2>3, SlotParts DEF CopyRun
  <2> QED
    BY <2>1, <2>2, <2>3
<1>5. FilesCoherent'
  BY <1>3, <1>4 DEF SessionInv, FilesCoherent, PayloadCoherent
<1> QED
  BY <1>1, <1>2, <1>3, <1>4, <1>5, FileStepSession

(* A file that an operation leaves behind when it stops short is well      *)
(* typed, and either what it was or not a whole checkpoint.                *)
LEMMA StopsShortFiles ==
  ASSUME SessionInv, stage \in Stages, StopsShort
  PROVE  /\ latest' \in Slots
         /\ best' \in Slots
         /\ Whole(latest'.payload) => latest'.payload = latest.payload
         /\ Whole(best'.payload) => best'.payload = best.payload
         /\ FilesCoherent'
         /\ interrupted' \subseteq {"latest", "best"}
<1>1. /\ latest \in Slots
      /\ best \in Slots
      /\ latest.payload \in Payloads
      /\ best.payload \in Payloads
      /\ interrupted \subseteq {"latest", "best"}
      /\ {latest.tokfp, best.tokfp, Empty} \subseteq Tokenizers \cup {Absent, Empty}
      /\ {latest.run, best.run, Empty} \subseteq Nat \cup {Absent, Empty}
  BY DEF SessionInv, TypeOK, Slots
<1>2. latest' \in ShortLatest /\ best' \in ShortBest
  BY DEF StopsShort
<1>3. latest' \in Slots /\ (Whole(latest'.payload) => latest'.payload = latest.payload)
  <2>1. CASE stage = "savePayload"
    <3>1. NewPayload \in Payloads
      BY <2>1, NewPayloadCoherent DEF TrainingStages, SaveStages
    <3>2. PICK p \in ShortWrites(latest.payload, NewPayload) : latest' = [latest EXCEPT !.payload = p]
      BY <1>2, <2>1 DEF ShortLatest
    <3>3. p \in Payloads /\ (Whole(p) => p = latest.payload)
      BY <1>1, <3>1, ShortWritesType
    <3> QED
      BY <1>1, <3>2, <3>3, SlotParts
  <2>2. CASE stage = "saveTokfp"
    <3>1. PICK f \in ShortSidecars(latest.tokfp) : latest' = [latest EXCEPT !.tokfp = f]
      BY <1>2, <2>2 DEF ShortLatest
    <3>2. f \in Tokenizers \cup {Absent, Empty}
      BY <1>1 DEF ShortSidecars
    <3> QED
      BY <1>1, <3>1, <3>2, SlotParts
  <2>3. CASE stage = "saveRun"
    <3>1. PICK r \in ShortSidecars(latest.run) : latest' = [latest EXCEPT !.run = r]
      BY <1>2, <2>3 DEF ShortLatest
    <3>2. r \in Nat \cup {Absent, Empty}
      BY <1>1 DEF ShortSidecars
    <3> QED
      BY <1>1, <3>1, <3>2, SlotParts
  <2>4. CASE stage \notin SaveStages
    BY <1>1, <1>2, <2>4 DEF ShortLatest, SaveStages
  <2> QED
    BY <2>1, <2>2, <2>3, <2>4 DEF SaveStages
<1>4. best' \in Slots /\ (Whole(best'.payload) => best'.payload = best.payload)
  <2>1. CASE stage = "copyPayload"
    <3>1. PICK p \in ShortWrites(best.payload, latest.payload) : best' = [best EXCEPT !.payload = p]
      BY <1>2, <2>1 DEF ShortBest
    <3>2. p \in Payloads /\ (Whole(p) => p = best.payload)
      BY <1>1, ShortWritesType
    <3> QED
      BY <1>1, <3>1, <3>2, SlotParts
  <2>2. CASE stage = "copyTokfp"
    <3>1. PICK f \in ShortSidecars(best.tokfp) : best' = [best EXCEPT !.tokfp = f]
      BY <1>2, <2>2 DEF ShortBest
    <3>2. f \in Tokenizers \cup {Absent, Empty}
      BY <1>1 DEF ShortSidecars
    <3> QED
      BY <1>1, <3>1, <3>2, SlotParts
  <2>3. CASE stage = "copyRun"
    <3>1. PICK r \in ShortSidecars(best.run) : best' = [best EXCEPT !.run = r]
      BY <1>2, <2>3 DEF ShortBest
    <3>2. r \in Nat \cup {Absent, Empty}
      BY <1>1 DEF ShortSidecars
    <3> QED
      BY <1>1, <3>1, <3>2, SlotParts
  <2>4. CASE stage \notin CopyStages
    BY <1>1, <1>2, <2>4 DEF ShortBest, CopyStages
  <2> QED
    BY <2>1, <2>2, <2>3, <2>4 DEF CopyStages
<1>5. FilesCoherent'
  BY <1>3, <1>4 DEF SessionInv, FilesCoherent, PayloadCoherent
<1>6. interrupted' \subseteq {"latest", "best"}
  BY <1>1 DEF StopsShort
<1> QED
  BY <1>3, <1>4, <1>5, <1>6

LEMMA FailSession ==
  ASSUME SessionInv, SaveFails \/ ClosesShort
  PROVE  SessionInv'
<1>1. stage \in TrainingStages /\ stage' \in TrainingStages /\ stage \in Stages
  BY DEF SaveFails, ClosesShort, AfterSave, TrainingStages, SaveStages, CopyStages, Stages
<1>2. /\ UNCHANGED <<plan, run, memory>>
      /\ crashes' \in 0..MaxCrashes
      /\ failures' \in 0..MaxFailures
      /\ StopsShort
  BY SessionAssumption DEF SaveFails, ClosesShort, SessionInv, TypeOK
<1>3. latest' \in Slots /\ best' \in Slots /\ FilesCoherent'
      /\ interrupted' \subseteq {"latest", "best"}
  BY <1>1, <1>2, StopsShortFiles
<1> QED
  BY <1>1, <1>2, <1>3, FileStepSession

LEMMA DecideSession ==
  ASSUME SessionInv, Decide
  PROVE  SessionInv'
<1>1. stage \in TrainingStages /\ stage' \in TrainingStages
  BY DEF Decide, TrainingStages
<1>2. FilesCoherent'
  BY DEF Decide, SessionInv, FilesCoherent, files
<1> QED
  BY <1>1, <1>2, FileStepSession DEF Decide, SessionInv, TypeOK, files, faults

(* The invocation is over: memory is gone, the files stay. *)
LEMMA DownSession ==
  ASSUME SessionInv, stage' = "down", plan' = NoPlan, NoMemory, run' = run,
         latest' \in Slots, best' \in Slots, FilesCoherent',
         interrupted' \subseteq {"latest", "best"},
         crashes' \in 0..MaxCrashes, failures' \in 0..MaxFailures
  PROVE  SessionInv'
<1>1. StartPosition \in Positions /\ "down" \in Stages
  BY DEF Positions, StartPosition, Stages
<1>2. TypeOK'
  BY <1>1, ResetType DEF SessionInv, TypeOK, NoMemory
<1> QED
  BY <1>2 DEF SessionInv, Loading, Ready, Synced, MonitorWaits, ReadyStages, TrainingStages,
              LoadStages, SaveStages, CopyStages

LEMMA EndSession ==
  ASSUME SessionInv, End \/ Crash
  PROVE  SessionInv'
<1>1. CASE End
  <2>1. FilesCoherent'
    BY <1>1 DEF End, SessionInv, FilesCoherent, files
  <2> QED
    BY <1>1, <2>1, DownSession DEF End, SessionInv, TypeOK, files, faults
<1>2. CASE Crash
  <2>1. latest' \in Slots /\ best' \in Slots /\ FilesCoherent'
        /\ interrupted' \subseteq {"latest", "best"}
    BY <1>2, StopsShortFiles DEF Crash, SessionInv, TypeOK
  <2>2. crashes' \in 0..MaxCrashes /\ failures' \in 0..MaxFailures
    BY <1>2, SessionAssumption DEF Crash, SessionInv, TypeOK
  <2> QED
    BY <1>2, <2>1, <2>2, DownSession DEF Crash
<1> QED
  BY <1>1, <1>2

LEMMA StutterSession ==
  ASSUME SessionInv, UNCHANGED vars
  PROVE  SessionInv'
BY DEF SessionInv, vars, TypeOK, Loading, Ready, Synced, MonitorWaits, FilesCoherent

THEOREM SessionInvariant == Spec => []SessionInv
<1>1. SessionInv /\ [Next]_vars => SessionInv'
  BY StartSession, LoadSession, VerifySession, InitializeSession, SyncSession, EpochSession,
     SaveSession, CopySession, FailSession, DecideSession, EndSession, StutterSession
  DEF Next, SessionStep
<1> QED
  BY <1>1, InitSession, PTL DEF Spec

(* The session state stays well-typed. *)
THEOREM SessionTypeCorrect == Spec => []TypeOK
<1>1. SessionInv => TypeOK
  BY DEF SessionInv
<1> QED
  BY <1>1, SessionInvariant, PTL

(* Whatever was loaded, refused, saved or cut short: while an invocation   *)
(* trains, parameters, moments, compute weights and position belong        *)
(* together.                                                               *)
THEOREM MemoryStaysCoherent == Spec => []MemoryCoherent
<1>1. SessionInv => MemoryCoherent
  BY DEF SessionInv, Ready, Synced, Coherent, ReadyStages, MemoryCoherent
<1> QED
  BY <1>1, SessionInvariant, PTL

(* Every complete checkpoint on disk is coherent, whenever it was written. *)
THEOREM FilesStayCoherent == Spec => []FilesCoherent
<1>1. SessionInv => FilesCoherent
  BY DEF SessionInv
<1> QED
  BY <1>1, SessionInvariant, PTL

-----------------------------------------------------------------------------
(* What the files hold when an invocation reads or leaves them: sidecars   *)
(* describe their checkpoint, the best file holds the best, a stop is      *)
(* saved and stops one invocation only, and an interruption costs less     *)
(* than an interval.                                                       *)
(*                                                                         *)
(* interrupted is the only memory of a save or promotion that was cut      *)
(* short; the invariants say, stage by stage, what the files hold where it *)
(* does not name them.  They are proved in layers, each from those before. *)

-----------------------------------------------------------------------------
(* How saves and promotions proceed *)

PayloadWritten == {"saveTokfp", "saveRun"} \cup CopyStages

(* What a save has put in place, for the stages after it. *)
LatestSaved ==
  stage \in PayloadWritten =>
    /\ Whole(latest.payload) => latest.payload = NewPayload
    /\ "latest" \notin interrupted => Whole(latest.payload)

(* A save or sidecar cut short is remembered until the next whole save,    *)
(* and until the next promotion if there was one to come.                  *)
ShortIsMarked ==
  /\ stage = "saveRun" /\ "latest" \notin interrupted => latest.tokfp = plan.tok
  /\ (/\ stage \in {"saveTokfp", "saveRun"} /\ new_best
      /\ ~Whole(latest.payload) \/ (stage = "saveRun" /\ latest.tokfp # plan.tok))
     => "best" \in interrupted
  /\ stage \in CopyStages /\ "latest" \in interrupted => "best" \in interrupted

(* What a promotion has copied so far. *)
BestCopied ==
  /\ stage \in {"copyTokfp", "copyRun"} => best.payload = latest.payload
  /\ stage = "copyRun" /\ latest.tokfp # Absent => best.tokfp = latest.tokfp

(* Why there is a save or a promotion. *)
SavesAreDue ==
  /\ stage \in SaveStages \cup CopyStages =>
       /\ ~plan.dry_run
       /\ new_best => mon.has_best /\ mon.best_epoch = pos.epoch
  /\ stage \in CopyStages => new_best /\ ~SharedPath

SaveInv == LatestSaved /\ ShortIsMarked /\ BestCopied /\ SavesAreDue

(* What an operation that stops short leaves alone, and what it marks. *)
LEMMA StopsShortMarks ==
  ASSUME SessionInv, StopsShort
  PROVE  /\ stage \notin SaveStages => latest' = latest
         /\ stage # "savePayload" => latest'.payload = latest.payload
         /\ stage \notin CopyStages => best' = best
         /\ interrupted \subseteq interrupted'
         /\ stage \in SaveStages => "latest" \in interrupted'
         /\ stage \in CopyStages \/ (stage \in SaveStages /\ new_best) => "best" \in interrupted'
         /\ stage \notin SaveStages => ("latest" \in interrupted' => "latest" \in interrupted)
         /\ stage \notin SaveStages \cup CopyStages => interrupted' = interrupted
<1>1. latest \in Slots /\ best \in Slots
  BY DEF SessionInv, TypeOK
<1>2. latest' \in ShortLatest /\ best' \in ShortBest
  BY DEF StopsShort
<1>3. stage \notin SaveStages => latest' = latest
  BY <1>2 DEF ShortLatest, SaveStages
<1>4. stage \notin CopyStages => best' = best
  BY <1>2 DEF ShortBest, CopyStages
<1>5. stage # "savePayload" => latest'.payload = latest.payload
  <2>1. CASE stage = "saveTokfp"
    BY <1>1, <1>2, <2>1 DEF ShortLatest, Slots
  <2>2. CASE stage = "saveRun"
    BY <1>1, <1>2, <2>2 DEF ShortLatest, Slots
  <2> QED
    BY <1>3, <2>1, <2>2 DEF SaveStages
<1>6. interrupted \subseteq interrupted'
  BY DEF StopsShort
<1>7. /\ stage \in SaveStages => "latest" \in interrupted'
      /\ stage \in CopyStages \/ (stage \in SaveStages /\ new_best) => "best" \in interrupted'
  BY DEF StopsShort
<1>8. /\ stage \notin SaveStages => ("latest" \in interrupted' => "latest" \in interrupted)
      /\ stage \notin SaveStages \cup CopyStages => interrupted' = interrupted
  BY DEF StopsShort
<1> QED
  BY <1>3, <1>4, <1>5, <1>6, <1>7, <1>8

(* What an epoch's verdict says of the monitor and of the save it asks for. *)
LEMMA EpochVerdict ==
  ASSUME SessionInv, NEW train \in Losses, NEW val \in Losses \cup {NonFinite, NoVal},
         RunEpoch(train, val)
  PROVE  /\ pos'.epoch = pos.epoch + 1
         /\ new_best' => mon'.has_best /\ mon'.best_epoch = pos'.epoch
         /\ ~new_best' => /\ mon'.has_best = mon.has_best
                          /\ mon'.best_loss = mon.best_loss
                          /\ mon'.best_epoch = mon.best_epoch
         /\ plan.dry_run => stage' = "decide"
         /\ ~plan.dry_run /\ (Milestone(pos'.epoch) \/ new_best' \/ mon'.stop_requested)
              => stage' = "savePayload"
<1> DEFINE e == pos.epoch + 1
           loss == JudgedLoss(plan.by_val, train, val)
<1>1. /\ plan.by_val \in BOOLEAN
      /\ mon \in MonitorState
      /\ e \in Nat
  BY SessionAssumption DEF RunEpoch, SessionInv, TypeOK, PlanRecords, Positions
<1>2. /\ mon' = Observe(mon, plan.by_val, e, train, val)
      /\ new_best' = VerdictNewBest(mon, plan.by_val, train, val)
      /\ pos'.epoch = e
      /\ stage' = IF SaveDue(mon', new_best', e) THEN "savePayload" ELSE "decide"
  BY DEF RunEpoch
<1>3. mon'.last_epoch_loss = train
  <2>1. [mon EXCEPT !.last_epoch_loss = train] \in MonitorState
    BY <1>1, RulesAssumption DEF MonitorState
  <2> QED
    BY <1>1, <1>2, <2>1 DEF Observe, JudgeFinite, RecordLoss, RequestStopWhen, RequestStop, MonitorState
<1>4. train # NonFinite
  BY RulesAssumption
<1>5. stage' = IF ~plan.dry_run /\ (Milestone(e) \/ new_best' \/ mon'.stop_requested)
               THEN "savePayload" ELSE "decide"
  BY <1>2, <1>3, <1>4 DEF SaveDue
<1>6. CASE IsJudged(plan.by_val, train, val)
  <2>1. new_best' <=> IsNewBest(mon, loss)
    BY <1>2, <1>6 DEF VerdictNewBest, IsNewBest
  <2>2. mon'.has_best
        /\ (IsNewBest(mon, loss) => mon'.best_epoch = e /\ mon'.best_loss = loss)
        /\ (~IsNewBest(mon, loss) => mon'.best_epoch = mon.best_epoch /\ mon'.best_loss = mon.best_loss)
    BY <1>1, <1>2, <1>6, ObserveJudged
  <2>3. ~IsNewBest(mon, loss) => mon.has_best
    BY DEF IsNewBest
  <2>4. mon.has_best \in BOOLEAN /\ mon'.has_best \in BOOLEAN
    BY <1>1, <1>2, ObserveType DEF MonitorState
  <2> QED
    BY <1>2, <1>5, <2>1, <2>2, <2>3, <2>4
<1>7. CASE ~IsJudged(plan.by_val, train, val)
  <2>1. ~new_best'
    BY <1>2, <1>7 DEF VerdictNewBest
  <2>2. mon'.has_best = mon.has_best /\ mon'.best_loss = mon.best_loss
        /\ mon'.best_epoch = mon.best_epoch
    BY <1>1, <1>2, <1>7, ObserveUnjudged
  <2> QED
    BY <1>2, <1>5, <2>1, <2>2
<1> QED
  BY <1>6, <1>7

LEMMA SaveInvStep ==
  ASSUME SessionInv, SaveInv, [Next]_vars
  PROVE  SaveInv'
<1>0. latest \in Slots /\ best \in Slots /\ plan \in Plans \cup {NoPlan} /\ new_best \in BOOLEAN
  BY DEF SessionInv, TypeOK
<1>1. CASE stage' \notin SaveStages \cup CopyStages
  BY <1>1 DEF SaveInv, LatestSaved, ShortIsMarked, BestCopied, SavesAreDue, PayloadWritten,
              SaveStages, CopyStages
<1>2. ASSUME NEW train \in Losses, NEW val \in Losses \cup {NonFinite, NoVal},
             RunEpoch(train, val)
      PROVE  SaveInv'
  <2>1. stage' \in {"savePayload", "decide"}
    BY <1>2 DEF RunEpoch
  <2>2. (stage' = "savePayload" => ~plan.dry_run) /\ plan' = plan
    BY <1>2, EpochVerdict DEF RunEpoch
  <2>3. new_best' => mon'.has_best /\ mon'.best_epoch = pos'.epoch
    BY <1>2, EpochVerdict
  <2> QED
    BY <2>1, <2>2, <2>3
    DEF SaveInv, LatestSaved, ShortIsMarked, BestCopied, SavesAreDue, PayloadWritten,
        SaveStages, CopyStages
<1>3. CASE SavePayload
  <2>1. Whole(latest'.payload) /\ latest'.payload = NewPayload
    BY <1>0, <1>3 DEF SavePayload, Slots, NewPayload, Whole
  <2>2. NewPayload' = NewPayload /\ stage' = "saveTokfp" /\ UNCHANGED <<plan, new_best, mon, pos>>
    BY <1>3 DEF SavePayload, NewPayload, memory
  <2>3. stage = "savePayload"
    BY <1>3 DEF SavePayload
  <2> QED
    BY <2>1, <2>2, <2>3
    DEF SaveInv, LatestSaved, ShortIsMarked, BestCopied, SavesAreDue, PayloadWritten,
        SaveStages, CopyStages
<1>4. CASE SaveTokfp
  <2>1. latest'.payload = latest.payload /\ latest'.tokfp = plan.tok
    BY <1>0, <1>4 DEF SaveTokfp, Slots
  <2>2. NewPayload' = NewPayload /\ UNCHANGED <<plan, new_best, mon, pos, interrupted>>
        /\ stage = "saveTokfp" /\ stage' = "saveRun"
    BY <1>4 DEF SaveTokfp, NewPayload, memory
  <2> QED
    BY <2>1, <2>2
    DEF SaveInv, LatestSaved, ShortIsMarked, BestCopied, SavesAreDue, PayloadWritten,
        SaveStages, CopyStages
<1>5. CASE SaveRun
  <2>1. latest'.payload = latest.payload /\ latest'.tokfp = latest.tokfp
    BY <1>0, <1>5 DEF SaveRun, Slots
  <2>2. /\ NewPayload' = NewPayload
        /\ UNCHANGED <<plan, new_best, mon, pos>>
        /\ stage = "saveRun"
        /\ stage' \in {"copyPayload", "decide"}
        /\ stage' = "copyPayload" => new_best /\ ~SharedPath
    BY <1>5 DEF SaveRun, AfterSave, NewPayload, memory
  <2>3. interrupted' = IF Whole(latest.payload) /\ latest.tokfp = plan.tok
                       THEN interrupted \ {"latest"} ELSE interrupted
    BY <1>5 DEF SaveRun
  <2> QED
    BY <2>1, <2>2, <2>3
    DEF SaveInv, LatestSaved, ShortIsMarked, BestCopied, SavesAreDue, PayloadWritten,
        SaveStages, CopyStages
<1>6. CASE CopyPayload
  <2>1. best'.payload = latest.payload /\ latest' = latest
    BY <1>0, <1>6 DEF CopyPayload, Slots
  <2>2. NewPayload' = NewPayload /\ UNCHANGED <<plan, new_best, mon, pos, interrupted>>
        /\ stage = "copyPayload" /\ stage' = "copyTokfp"
    BY <1>6 DEF CopyPayload, NewPayload, memory
  <2> QED
    BY <2>1, <2>2
    DEF SaveInv, LatestSaved, ShortIsMarked, BestCopied, SavesAreDue, PayloadWritten,
        SaveStages, CopyStages
<1>7. CASE CopyTokfp
  <2>1. best'.payload = best.payload /\ latest' = latest
        /\ (latest.tokfp # Absent => best'.tokfp = latest.tokfp)
    BY <1>0, <1>7 DEF CopyTokfp, Slots
  <2>2. NewPayload' = NewPayload /\ UNCHANGED <<plan, new_best, mon, pos, interrupted>>
        /\ stage = "copyTokfp" /\ stage' = "copyRun"
    BY <1>7 DEF CopyTokfp, NewPayload, memory
  <2> QED
    BY <2>1, <2>2
    DEF SaveInv, LatestSaved, ShortIsMarked, BestCopied, SavesAreDue, PayloadWritten,
        SaveStages, CopyStages
<1>8. CASE ClosesShort
  <2>1. /\ NewPayload' = NewPayload
        /\ UNCHANGED <<plan, new_best, mon, pos>>
        /\ stage \in SaveStages
        /\ StopsShort
        /\ stage = "savePayload" => stage' = "saveTokfp"
                                    /\ latest'.payload = [NewPayload EXCEPT !.level = "params"]
        /\ stage = "saveTokfp" => stage' = "saveRun"
        /\ stage = "saveRun" => stage' = AfterSave
    BY <1>8 DEF ClosesShort, NewPayload, memory, SaveStages
  <2>2. stage = "savePayload" => ~Whole(latest'.payload)
    BY <2>1 DEF NewPayload, Whole
  <2>3. stage # "savePayload" => latest'.payload = latest.payload
    BY <2>1, StopsShortMarks
  <2>4. "latest" \in interrupted' /\ (new_best => "best" \in interrupted')
    BY <2>1, StopsShortMarks
  <2>5. stage' \in {"saveTokfp", "saveRun", "copyPayload", "decide"}
        /\ (stage' = "copyPayload" => new_best /\ ~SharedPath)
        /\ (stage' = "copyPayload" => stage = "saveRun")
    BY <2>1 DEF SaveStages, AfterSave
  <2>6. LatestSaved'
    BY <2>1, <2>2, <2>3, <2>4, <2>5 DEF SaveInv, LatestSaved, PayloadWritten, SaveStages, CopyStages
  <2> QED
    BY <2>1, <2>4, <2>5, <2>6
    DEF SaveInv, ShortIsMarked, BestCopied, SavesAreDue, SaveStages, CopyStages
<1>9. CASE UNCHANGED vars
  BY <1>9 DEF vars, SaveInv, LatestSaved, ShortIsMarked, BestCopied, SavesAreDue, NewPayload
<1>10. CASE \E p \in Plans : Start(p)
  BY <1>1, <1>10 DEF Start, SaveStages, CopyStages
<1>11. CASE LoadHeader \/ LoadParams \/ LoadAdam \/ VerifyFingerprint \/ LoadFails
             \/ InitializeFresh \/ SyncAndBegin
  BY <1>1, <1>11
  DEF LoadHeader, LoadParams, LoadAdam, VerifyFingerprint, LoadFails, InitializeFresh,
      SyncAndBegin, SaveStages, CopyStages
<1>12. CASE CopyRun \/ SaveFails \/ Decide \/ End \/ Crash
  BY <1>1, <1>12 DEF CopyRun, SaveFails, Decide, End, Crash, SaveStages, CopyStages
<1> QED
  BY <1>2, <1>3, <1>4, <1>5, <1>6, <1>7, <1>8, <1>9, <1>10, <1>11, <1>12 DEF Next, SessionStep

(* A save and a promotion put their files in place stage by stage, and one *)
(* that was cut short stays marked.                                        *)
THEOREM SavesProceed == Spec => []SaveInv
<1>1. Init => SaveInv
  BY DEF Init, SaveInv, LatestSaved, ShortIsMarked, BestCopied, SavesAreDue, PayloadWritten,
         SaveStages, CopyStages
<1>2. SessionInv /\ SaveInv /\ [Next]_vars => SaveInv'
  BY SaveInvStep
<1> QED
  BY <1>1, <1>2, SessionInvariant, PTL DEF Spec

-----------------------------------------------------------------------------
(* Sidecars *)

(* The steps that touch no file. *)
Quiet == stage \notin SaveStages \cup CopyStages /\ UNCHANGED files

LEMMA QuietOrFileStep ==
  ASSUME SessionInv, [Next]_vars
  PROVE  \/ Quiet
         \/ SavePayload \/ SaveTokfp \/ SaveRun
         \/ CopyPayload \/ CopyTokfp \/ CopyRun
         \/ SaveFails \/ ClosesShort \/ Crash
         \/ UNCHANGED vars
<1>1. CASE \E p \in Plans : Start(p)
  BY <1>1 DEF Start, Quiet, SaveStages, CopyStages
<1>2. CASE LoadHeader \/ LoadParams \/ LoadAdam \/ VerifyFingerprint \/ LoadFails
           \/ InitializeFresh \/ SyncAndBegin
  BY <1>2
  DEF LoadHeader, LoadParams, LoadAdam, VerifyFingerprint, LoadFails, InitializeFresh,
      SyncAndBegin, Quiet, LoadStages, SaveStages, CopyStages
<1>3. CASE \E train \in Losses, val \in Losses \cup {NonFinite, NoVal} : RunEpoch(train, val)
  BY <1>3 DEF RunEpoch, Quiet, SaveStages, CopyStages
<1>4. CASE Decide \/ End
  BY <1>4 DEF Decide, End, Quiet, SaveStages, CopyStages
<1> QED
  BY <1>1, <1>2, <1>3, <1>4 DEF Next, SessionStep

LEMMA SidecarsStep ==
  ASSUME SessionInv, SaveInv, SidecarsMatch, [Next]_vars
  PROVE  SidecarsMatch'
<1>0. /\ latest \in Slots
      /\ best \in Slots
      /\ plan.tok \in Tokenizers \/ stage = "down"
      /\ run \in Nat
      /\ interrupted \subseteq {"latest", "best"}
  BY SessionAssumption DEF SessionInv, TypeOK, PlanRecords
<1>1. CASE Quiet
  BY <1>1 DEF Quiet, files, SidecarsMatch, SidecarsDescribe
<1>2. CASE SavePayload
  BY <1>2 DEF SavePayload, SidecarsMatch, SidecarsDescribe, SaveStages, CopyStages
<1>3. CASE SaveTokfp
  BY <1>3 DEF SaveTokfp, SidecarsMatch, SidecarsDescribe, SaveStages, CopyStages
<1>4. CASE SaveRun
  <2>1. /\ latest'.payload = latest.payload
        /\ latest'.tokfp = latest.tokfp
        /\ latest'.run = run
        /\ best' = best
        /\ stage = "saveRun"
        /\ interrupted' = IF Whole(latest.payload) /\ latest.tokfp = plan.tok
                          THEN interrupted \ {"latest"} ELSE interrupted
    BY <1>0, <1>4 DEF SaveRun, Slots
  <2>2. "latest" \notin interrupted' => Whole(latest.payload) /\ latest.tokfp = plan.tok
    BY <2>1 DEF SaveInv, LatestSaved, ShortIsMarked, PayloadWritten
  <2>3. Whole(latest.payload) => latest.payload.tok = plan.tok /\ latest.payload.writer = run
    BY <2>1 DEF SaveInv, LatestSaved, PayloadWritten, NewPayload
  <2>4. "best" \notin interrupted' => SidecarsDescribe(best)
    BY <2>1 DEF SidecarsMatch, CopyStages
  <2> QED
    BY <2>1, <2>2, <2>3, <2>4 DEF SidecarsMatch, SidecarsDescribe
<1>5. CASE CopyPayload
  BY <1>5 DEF CopyPayload, SidecarsMatch, SidecarsDescribe, SaveStages, CopyStages
<1>6. CASE CopyTokfp
  BY <1>6 DEF CopyTokfp, SidecarsMatch, SidecarsDescribe, SaveStages, CopyStages
<1>7. CASE CopyRun
  <2>1. /\ best'.payload = latest.payload
        /\ best'.tokfp = best.tokfp
        /\ latest.run # Absent => best'.run = latest.run
        /\ latest' = latest
        /\ stage = "copyRun"
    BY <1>0, <1>7 DEF CopyRun, Slots, SaveInv, BestCopied
  <2>2. latest.tokfp # Absent => best.tokfp = latest.tokfp
    BY <2>1 DEF SaveInv, BestCopied
  <2>3. interrupted' = IF "latest" \in interrupted THEN interrupted ELSE interrupted \ {"best"}
    BY <1>7 DEF CopyRun
  <2>4. "latest" \notin interrupted => SidecarsDescribe(latest)
    BY <2>1 DEF SidecarsMatch, SaveStages
  <2>5. "latest" \in interrupted => "best" \in interrupted
    BY <2>1 DEF SaveInv, ShortIsMarked, CopyStages
  <2>6. latest.payload.tok # Absent /\ latest.payload.writer # Absent
    BY <1>0, FilesAssumption DEF Slots, Payloads
  <2> QED
    BY <2>1, <2>2, <2>3, <2>4, <2>5, <2>6 DEF SidecarsMatch, SidecarsDescribe
<1>8. CASE SaveFails \/ ClosesShort \/ Crash
  <2>1. StopsShort
    BY <1>8 DEF SaveFails, ClosesShort, Crash
  <2>2. "latest" \notin interrupted' => latest' = latest /\ stage \notin SaveStages
                                        /\ "latest" \notin interrupted
    BY <2>1, StopsShortMarks
  <2>3. "best" \notin interrupted' => best' = best /\ stage \notin CopyStages
                                      /\ "best" \notin interrupted
    BY <2>1, StopsShortMarks
  <2> QED
    BY <2>2, <2>3 DEF SidecarsMatch, SidecarsDescribe
<1>9. CASE UNCHANGED vars
  BY <1>9 DEF vars, SidecarsMatch, SidecarsDescribe
<1> QED
  BY <1>1, <1>2, <1>3, <1>4, <1>5, <1>6, <1>7, <1>8, <1>9, QuietOrFileStep

(* Sidecars name the tokenizer and the run of the checkpoint they lie next *)
(* to, whatever was interrupted elsewhere.                                 *)
THEOREM SidecarsStayTrue == Spec => []SidecarsMatch
<1>1. Init => SidecarsMatch
  BY NoPayloadType DEF Init, SidecarsMatch, SidecarsDescribe, EmptySlot
<1>2. SessionInv /\ SaveInv /\ SidecarsMatch /\ [Next]_vars => SidecarsMatch'
  BY SidecarsStep
<1> QED
  BY <1>1, <1>2, SessionInvariant, SavesProceed, PTL DEF Spec

-----------------------------------------------------------------------------
(* Stops *)

StopSaved ==
  (/\ stage \in CopyStages \cup {"decide", "ending"}
   /\ mon.stop_requested /\ ~plan.dry_run /\ "latest" \notin interrupted)
    => Whole(latest.payload) /\ latest.payload = NewPayload

StopInv == NoTrainingAfterStop /\ StopSaved

(* A resumed monitor has no stop pending. *)
LEMMA ResumeClearsStop ==
  ASSUME NEW k \in KeptState, NEW v \in BOOLEAN, NEW e \in Nat
  PROVE  ~ResumeMonitor(k, v, e).stop_requested
BY DEF ResumeMonitor, RestoreMonitor, ClearPersistedStop, KeptState

LEMMA StopStep ==
  ASSUME SessionInv, SaveInv, StopInv, [Next]_vars
  PROVE  StopInv'
<1>0. latest \in Slots /\ plan \in Plans \cup {NoPlan}
  BY DEF SessionInv, TypeOK
<1>1. CASE (\E p \in Plans : Start(p)) \/ LoadHeader \/ LoadParams \/ LoadAdam \/ LoadFails
           \/ End \/ Crash
  <2>1. stage' \in {"down", "fresh"} \cup LoadStages
    BY <1>1 DEF Start, LoadHeader, LoadParams, LoadAdam, LoadFails, End, Crash, LoadStages
  <2> QED
    BY <2>1 DEF StopInv, NoTrainingAfterStop, StopSaved, LoadStages, CopyStages
<1>2. CASE VerifyFingerprint
  <2>1. stage' \in {"sync", "fresh"}
    BY <1>2 DEF VerifyFingerprint
  <2>2. stage' = "sync" => ~mon'.stop_requested
    <3>1. /\ latest.payload.conv \in KeptState
          /\ latest.payload.epoch \in Nat
          /\ plan.by_val \in BOOLEAN
      BY <1>0, <1>2, SessionAssumption DEF VerifyFingerprint, SessionInv, TypeOK, Slots, Payloads, PlanRecords
    <3> QED
      BY <1>2, <3>1, ResumeClearsStop DEF VerifyFingerprint
  <2> QED
    BY <2>1, <2>2 DEF StopInv, NoTrainingAfterStop, StopSaved, CopyStages
<1>3. CASE InitializeFresh
  <2>1. stage' = "sync" /\ mon' = ResetMonitor
    BY <1>3 DEF InitializeFresh, SessionInv, MonitorWaits
  <2> QED
    BY <2>1 DEF StopInv, NoTrainingAfterStop, StopSaved, CopyStages, ResetMonitor
<1>4. CASE SyncAndBegin
  <2>1. ~mon'.stop_requested
    BY <1>4 DEF SyncAndBegin, StopInv, NoTrainingAfterStop
  <2> QED
    BY <2>1 DEF StopInv, NoTrainingAfterStop, StopSaved
<1>5. ASSUME NEW train \in Losses, NEW val \in Losses \cup {NonFinite, NoVal},
             RunEpoch(train, val)
      PROVE  StopInv'
  <2>1. stage' \in {"savePayload", "decide"} /\ plan' = plan
    BY <1>5 DEF RunEpoch
  <2>2. stage' = "decide" /\ mon'.stop_requested => plan'.dry_run
    BY <1>5, <2>1, EpochVerdict
  <2> QED
    BY <2>1, <2>2 DEF StopInv, NoTrainingAfterStop, StopSaved, CopyStages
<1>6. CASE SavePayload \/ SaveTokfp
  BY <1>6 DEF SavePayload, SaveTokfp, StopInv, NoTrainingAfterStop, StopSaved, CopyStages
<1>7. CASE SaveRun
  <2>1. /\ stage = "saveRun"
        /\ stage' \in {"copyPayload", "decide"}
        /\ latest'.payload = latest.payload
        /\ NewPayload' = NewPayload
        /\ "latest" \notin interrupted' =>
             "latest" \notin interrupted \/ Whole(latest.payload)
    BY <1>0, <1>7 DEF SaveRun, AfterSave, Slots, NewPayload, memory
  <2>2. "latest" \notin interrupted' => Whole(latest.payload) /\ latest.payload = NewPayload
    BY <2>1 DEF SaveInv, LatestSaved, PayloadWritten
  <2> QED
    BY <2>1, <2>2 DEF StopInv, NoTrainingAfterStop, StopSaved
<1>8. CASE CopyPayload \/ CopyTokfp \/ CopyRun
  <2>1. /\ stage \in CopyStages
        /\ stage' \in CopyStages \cup {"decide"}
        /\ UNCHANGED <<latest, mon, plan>>
        /\ NewPayload' = NewPayload
        /\ "latest" \notin interrupted' => "latest" \notin interrupted
    BY <1>8 DEF CopyPayload, CopyTokfp, CopyRun, CopyStages, NewPayload, memory
  <2> QED
    BY <2>1 DEF StopInv, NoTrainingAfterStop, StopSaved, CopyStages
<1>9. CASE SaveFails \/ ClosesShort
  <2>1. /\ StopsShort
        /\ stage \in SaveStages \cup CopyStages
        /\ stage' \in SaveStages \cup CopyStages \cup {"decide"}
        /\ UNCHANGED <<mon, plan>>
        /\ NewPayload' = NewPayload
    BY <1>9 DEF SaveFails, ClosesShort, AfterSave, SaveStages, CopyStages, NewPayload, memory
  <2>2. "latest" \notin interrupted' => /\ stage \in CopyStages
                                        /\ latest' = latest
                                        /\ "latest" \notin interrupted
    BY <2>1, StopsShortMarks
  <2> QED
    BY <2>1, <2>2 DEF StopInv, NoTrainingAfterStop, StopSaved, SaveStages, CopyStages
<1>10. CASE Decide
  <2>1. /\ stage = "decide"
        /\ stage' \in {"ending", "epoch"}
        /\ stage' = "epoch" => ~mon.stop_requested
        /\ UNCHANGED <<latest, interrupted, mon, plan>>
        /\ NewPayload' = NewPayload
    BY <1>10 DEF Decide, NewPayload, memory, files
  <2> QED
    BY <2>1 DEF StopInv, NoTrainingAfterStop, StopSaved, CopyStages
<1>11. CASE UNCHANGED vars
  BY <1>11 DEF vars, StopInv, NoTrainingAfterStop, StopSaved, NewPayload
<1> QED
  BY <1>1, <1>2, <1>3, <1>4, <1>5, <1>6, <1>7, <1>8, <1>9, <1>10, <1>11 DEF Next, SessionStep

(* From the save to the end of the invocation, the stop stays saved.       *)
THEOREM StopsAreKept == Spec => []StopInv
<1>1. Init => StopInv
  BY DEF Init, StopInv, NoTrainingAfterStop, StopSaved, CopyStages
<1>2. SessionInv /\ SaveInv /\ StopInv /\ [Next]_vars => StopInv'
  BY StopStep
<1> QED
  BY <1>1, <1>2, SessionInvariant, SavesProceed, PTL DEF Spec

(* A stop ends its own invocation, and no invocation that resumes from it. *)
THEOREM StopsEndOneInvocation == Spec => []NoTrainingAfterStop
<1>1. StopInv => NoTrainingAfterStop
  BY DEF StopInv
<1> QED
  BY <1>1, StopsAreKept, PTL

(* An invocation its monitor stopped leaves the stop, and the model it     *)
(* stopped at, in the latest checkpoint, unless saving was cut short.      *)
THEOREM StopsAreSaved == Spec => []MonitorStopIsSaved
<1>1. StopInv => MonitorStopIsSaved
  BY DEF StopInv, StopSaved, MonitorStopIsSaved, NewPayload, KeptPart
<1> QED
  BY <1>1, StopsAreKept, PTL

-----------------------------------------------------------------------------
(* The best file *)

Promoting == new_best /\ stage \in SaveStages \cup CopyStages

(* A file that holds the best of m, judged by val loss or not. *)
HoldsBest(p, m, by_val) ==
  /\ Whole(p)
  /\ p.epoch = m.best_epoch
  /\ p.conv.best_loss = m.best_loss
  /\ p.conv.best_is_val = by_val

(* The best file holds the best of the latest file, and of the monitor.    *)
BestOfLatest ==
  (/\ ~Promoting /\ ~SharedPath /\ "best" \notin interrupted
   /\ Whole(latest.payload) /\ latest.payload.conv.has_best)
    => HoldsBest(best.payload, latest.payload.conv, latest.payload.conv.best_is_val)

BestOfMonitor ==
  (/\ stage \in {"sync", "epoch", "decide", "ending"} \cup SaveStages /\ ~Promoting
   /\ ~plan.dry_run /\ ~SharedPath /\ "best" \notin interrupted /\ mon.has_best)
    => HoldsBest(best.payload, mon, plan.by_val)

BestInv == BestOfLatest /\ BestOfMonitor /\ BestFileWasABest

(* A promotion leaves the monitor's best in the best file. *)
LEMMA PromotedBest ==
  ASSUME SessionInv, SaveInv, stage \in CopyStages, Whole(latest.payload)
  PROVE  /\ HoldsBest(latest.payload, mon, plan.by_val)
         /\ HoldsBest(latest.payload, latest.payload.conv, latest.payload.conv.best_is_val)
         /\ latest.payload.conv.has_best
         /\ latest.payload.conv.best_epoch = latest.payload.epoch
<1>1. latest.payload = NewPayload
  BY DEF SaveInv, LatestSaved, PayloadWritten
<1>2. mon.has_best /\ mon.best_epoch = pos.epoch
  BY DEF SaveInv, SavesAreDue
<1> QED
  BY <1>1, <1>2 DEF HoldsBest, NewPayload, KeptPart

(* What a resumed monitor has as its best is what the checkpoint had. *)
LEMMA ResumeKeepsBest ==
  ASSUME NEW k \in KeptState, NEW v \in BOOLEAN, NEW e \in Nat,
         ResumeMonitor(k, v, e).has_best
  PROVE  /\ k.has_best
         /\ k.best_is_val = v
         /\ ResumeMonitor(k, v, e).best_epoch = k.best_epoch
         /\ ResumeMonitor(k, v, e).best_loss = k.best_loss
BY DEF ResumeMonitor, RestoreMonitor, ClearPersistedStop, KeptState

LEMMA BestStep ==
  ASSUME SessionInv, SaveInv, BestInv, [Next]_vars
  PROVE  BestInv'
<1>0. latest \in Slots /\ best \in Slots /\ plan \in Plans \cup {NoPlan} /\ new_best \in BOOLEAN
  BY DEF SessionInv, TypeOK
<1>1. CASE (\E p \in Plans : Start(p)) \/ LoadHeader \/ LoadParams \/ LoadAdam \/ LoadFails \/ End
  <2>1. /\ stage' \in {"down", "fresh"} \cup LoadStages
        /\ UNCHANGED <<latest, best, interrupted>>
        /\ stage \in {"down", "ending"} \cup LoadStages
    BY <1>1 DEF Start, LoadHeader, LoadParams, LoadAdam, LoadFails, End, LoadStages, files
  <2> QED
    BY <2>1 DEF BestInv, BestOfLatest, BestOfMonitor, BestFileWasABest, Promoting,
                LoadStages, SaveStages, CopyStages
<1>2. CASE VerifyFingerprint
  <2>1. /\ stage = "verify"
        /\ stage' \in {"sync", "fresh"}
        /\ UNCHANGED <<latest, best, interrupted, plan>>
        /\ Whole(latest.payload)
    BY <1>2 DEF VerifyFingerprint, files, SessionInv, Loading
  <2>2. BestOfLatest /\ ~Promoting /\ ~Promoting'
    BY <2>1 DEF BestInv, Promoting, SaveStages, CopyStages
  <2>3. BestOfLatest' /\ BestFileWasABest'
    BY <2>1, <2>2 DEF BestInv, BestOfLatest, BestFileWasABest
  <2>4. BestOfMonitor'
    <3>1. CASE stage' = "sync"
      <4>1. mon' = ResumeMonitor(latest.payload.conv, plan.by_val, latest.payload.epoch)
        BY <1>2, <3>1 DEF VerifyFingerprint
      <4>2. /\ latest.payload.conv \in KeptState
            /\ latest.payload.epoch \in Nat
            /\ plan.by_val \in BOOLEAN
        BY <1>0, <2>1, SessionAssumption DEF SessionInv, TypeOK, Slots, Payloads, PlanRecords
      <4>3. mon'.has_best => /\ latest.payload.conv.has_best
                             /\ latest.payload.conv.best_is_val = plan.by_val
                             /\ mon'.best_epoch = latest.payload.conv.best_epoch
                             /\ mon'.best_loss = latest.payload.conv.best_loss
        BY <4>1, <4>2, ResumeKeepsBest
      <4> QED
        BY <2>1, <2>2, <4>3 DEF BestOfLatest, BestOfMonitor, HoldsBest
    <3>2. CASE stage' = "fresh"
      BY <3>2 DEF BestOfMonitor, SaveStages
    <3> QED
      BY <2>1, <3>1, <3>2
  <2> QED
    BY <2>3, <2>4 DEF BestInv
<1>3. CASE InitializeFresh
  <2>1. /\ stage = "fresh" /\ stage' = "sync"
        /\ UNCHANGED <<latest, best, interrupted>>
        /\ ~mon'.has_best
    BY <1>3 DEF InitializeFresh, SessionInv, MonitorWaits, ResetMonitor, files
  <2> QED
    BY <2>1 DEF BestInv, BestOfLatest, BestOfMonitor, BestFileWasABest, Promoting,
                SaveStages, CopyStages
<1>4. CASE SyncAndBegin \/ Decide
  <2>1. /\ stage \in {"sync", "decide"} /\ stage' \in {"epoch", "ending"}
        /\ UNCHANGED <<latest, best, interrupted, mon, plan>>
    BY <1>4 DEF SyncAndBegin, Decide, files, memory
  <2> QED
    BY <2>1 DEF BestInv, BestOfLatest, BestOfMonitor, BestFileWasABest, Promoting,
                SaveStages, CopyStages
<1>5. ASSUME NEW train \in Losses, NEW val \in Losses \cup {NonFinite, NoVal},
             RunEpoch(train, val)
      PROVE  BestInv'
  <2>1. /\ stage = "epoch"
        /\ stage' \in {"savePayload", "decide"}
        /\ UNCHANGED <<latest, best, interrupted, plan>>
    BY <1>5 DEF RunEpoch, files
  <2>2. new_best' /\ ~plan.dry_run => stage' = "savePayload"
    BY <1>5, EpochVerdict
  <2>3. ~new_best' => /\ mon'.has_best = mon.has_best
                      /\ mon'.best_loss = mon.best_loss
                      /\ mon'.best_epoch = mon.best_epoch
    BY <1>5, EpochVerdict
  <2>4. ~Promoting
    BY <2>1 DEF Promoting, SaveStages, CopyStages
  <2>5. BestOfLatest' /\ BestFileWasABest'
    BY <2>1, <2>4 DEF BestInv, BestOfLatest, BestFileWasABest
  <2>6. BestOfMonitor'
    <3>1. CASE new_best' /\ ~plan.dry_run
      BY <2>2, <3>1 DEF BestOfMonitor, Promoting, SaveStages
    <3>2. CASE ~new_best'
      BY <2>1, <2>3, <2>4, <3>2 DEF BestInv, BestOfMonitor, HoldsBest
    <3>3. CASE plan.dry_run
      BY <2>1, <3>3 DEF BestOfMonitor
    <3> QED
      BY <3>1, <3>2, <3>3
  <2> QED
    BY <2>5, <2>6 DEF BestInv
<1>6. CASE SavePayload
  <2>1. /\ stage = "savePayload" /\ stage' = "saveTokfp"
        /\ UNCHANGED <<best, interrupted, mon, plan, new_best>>
        /\ latest'.payload = NewPayload
    BY <1>0, <1>6 DEF SavePayload, memory, Slots
  <2>2. ~plan.dry_run
    BY <2>1 DEF SaveInv, SavesAreDue, SaveStages
  <2>3. BestOfMonitor' /\ BestFileWasABest'
    BY <2>1 DEF BestInv, BestOfMonitor, BestFileWasABest, Promoting, SaveStages
  <2>4. BestOfLatest'
    BY <2>1, <2>2 DEF BestInv, BestOfLatest, BestOfMonitor, Promoting, HoldsBest, NewPayload,
                      KeptPart, SaveStages
  <2> QED
    BY <2>3, <2>4 DEF BestInv
<1>7. CASE SaveTokfp \/ SaveRun
  <2>1. /\ stage \in {"saveTokfp", "saveRun"}
        /\ stage' \in {"saveRun", "copyPayload", "decide"}
        /\ stage' = "decide" => ~new_best \/ SharedPath
        /\ UNCHANGED <<best, mon, plan, new_best>>
        /\ latest'.payload = latest.payload
        /\ "best" \notin interrupted' => "best" \notin interrupted
    BY <1>0, <1>7 DEF SaveTokfp, SaveRun, AfterSave, memory, Slots
  <2> QED
    BY <2>1 DEF BestInv, BestOfLatest, BestOfMonitor, BestFileWasABest, Promoting,
                SaveStages, CopyStages
<1>8. CASE CopyPayload
  <2>1. /\ stage = "copyPayload" /\ stage' = "copyTokfp"
        /\ UNCHANGED <<latest, new_best>>
        /\ best'.payload = latest.payload
    BY <1>0, <1>8 DEF CopyPayload, memory, Slots
  <2>2. new_best
    BY <2>1 DEF SaveInv, SavesAreDue, CopyStages
  <2>3. BestFileWasABest'
    BY <2>1, PromotedBest DEF BestFileWasABest, CopyStages
  <2> QED
    BY <2>1, <2>2, <2>3 DEF BestInv, BestOfLatest, BestOfMonitor, Promoting, SaveStages, CopyStages
<1>9. CASE CopyTokfp
  <2>1. /\ stage = "copyTokfp" /\ stage' = "copyRun"
        /\ UNCHANGED <<latest, new_best>>
        /\ best'.payload = best.payload
    BY <1>0, <1>9 DEF CopyTokfp, memory, Slots
  <2>2. new_best
    BY <2>1 DEF SaveInv, SavesAreDue, CopyStages
  <2> QED
    BY <2>1, <2>2 DEF BestInv, BestOfLatest, BestOfMonitor, BestFileWasABest, Promoting,
                      SaveStages, CopyStages
<1>10. CASE CopyRun
  <2>1. /\ stage = "copyRun" /\ stage' = "decide"
        /\ UNCHANGED <<latest, mon, plan>>
        /\ best'.payload = latest.payload
        /\ interrupted' = IF "latest" \in interrupted THEN interrupted ELSE interrupted \ {"best"}
    BY <1>0, <1>10 DEF CopyRun, memory, Slots, SaveInv, BestCopied
  <2>2. "best" \notin interrupted' => Whole(latest.payload)
    BY <2>1 DEF SaveInv, LatestSaved, ShortIsMarked, PayloadWritten, CopyStages
  <2>3. stage \in CopyStages
    BY <2>1 DEF CopyStages
  <2> QED
    BY <2>1, <2>2, <2>3, PromotedBest DEF BestInv, BestOfLatest, BestOfMonitor, BestFileWasABest
<1>11. CASE SaveFails \/ ClosesShort \/ Crash
  <2>1. /\ StopsShort
        /\ stage \in Stages
        /\ Crash \/ (stage \in SaveStages \cup CopyStages /\ UNCHANGED <<mon, plan, new_best>>)
    BY <1>11 DEF SaveFails, ClosesShort, Crash, SaveStages, CopyStages, memory, SessionInv, TypeOK
  <2>2. /\ Whole(latest'.payload) => latest'.payload = latest.payload
        /\ Whole(best'.payload) => best'.payload = best.payload
    BY <2>1, StopsShortFiles
  <2>3. stage \in CopyStages => new_best
    BY DEF SaveInv, SavesAreDue
  <2>4. "best" \notin interrupted' => /\ best' = best
                                      /\ "best" \notin interrupted
                                      /\ stage \notin CopyStages
                                      /\ ~Promoting
    BY <2>1, <2>3, StopsShortMarks DEF Promoting
  <2>5. BestFileWasABest' /\ BestOfLatest'
    BY <2>2, <2>4 DEF BestInv, BestFileWasABest, BestOfLatest
  <2>6. BestOfMonitor'
    <3>1. CASE Crash
      BY <3>1 DEF Crash, BestOfMonitor, SaveStages
    <3>2. CASE stage \in SaveStages \cup CopyStages /\ UNCHANGED <<mon, plan, new_best>>
      BY <2>4, <3>2 DEF BestInv, BestOfMonitor
    <3> QED
      BY <2>1, <3>1, <3>2
  <2> QED
    BY <2>5, <2>6 DEF BestInv
<1>12. CASE UNCHANGED vars
  BY <1>12 DEF vars, BestInv, BestOfLatest, BestOfMonitor, BestFileWasABest, Promoting
<1> QED
  BY <1>1, <1>2, <1>3, <1>4, <1>5, <1>6, <1>7, <1>8, <1>9, <1>10, <1>11, <1>12
  DEF Next, SessionStep

(* The best checkpoint is the model of the best epoch and loss the monitor *)
(* holds, after any resumes, metric changes and restarts, unless a         *)
(* promotion was cut short.                                                *)
THEOREM BestStaysBest == Spec => []BestFileIsTheBest
<1>1. Init => BestInv
  BY NoPayloadType DEF Init, BestInv, BestOfLatest, BestOfMonitor, BestFileWasABest, EmptySlot, SaveStages
<1>2. SessionInv /\ SaveInv /\ BestInv /\ [Next]_vars => BestInv'
  BY BestStep
<1>3. BestInv => BestFileIsTheBest
  BY DEF BestInv, BestOfMonitor, HoldsBest, Promoting, BestFileIsTheBest, BestFileHoldsBest,
         SaveStages, CopyStages
<1> QED
  BY <1>1, <1>2, <1>3, SessionInvariant, SavesProceed, PTL DEF Spec

-----------------------------------------------------------------------------
(* Tokenizers *)

(* Without a failure nothing is cut short and tokenizers do not mix.       *)
TokenizersKept ==
  crashes = 0 /\ failures = 0 =>
    /\ interrupted = {}
    /\ Whole(latest.payload) => latest.payload.params.tok = latest.payload.tok
    /\ stage \in ReadyStages => params.tok = plan.tok

LEMMA TokenizersStep ==
  ASSUME SessionInv, SidecarsMatch, TokenizersKept, [Next]_vars
  PROVE  TokenizersKept'
<1>0. /\ latest \in Slots
      /\ plan \in Plans \cup {NoPlan}
      /\ crashes \in Nat /\ failures \in Nat
      /\ stage \in TrainingStages => params \in Weights /\ adam \in Weights
  BY SessionAssumption DEF SessionInv, TypeOK, Ready, Coherent, ReadyStages
<1>1. CASE (\E p \in Plans : Start(p)) \/ LoadHeader \/ LoadParams \/ LoadAdam \/ LoadFails \/ End
  <2>1. /\ stage' \in {"down", "fresh"} \cup LoadStages
        /\ UNCHANGED <<latest, interrupted, crashes>>
        /\ failures' = 0 => failures = 0
    BY <1>0, <1>1 DEF Start, LoadHeader, LoadParams, LoadAdam, LoadFails, End, LoadStages, files, faults
  <2> QED
    BY <2>1 DEF TokenizersKept, ReadyStages, TrainingStages, LoadStages, SaveStages, CopyStages
<1>2. CASE VerifyFingerprint
  <2>1. /\ stage = "verify"
        /\ stage' \in {"sync", "fresh"}
        /\ stage' = "sync" => FingerprintAccepted(latest, plan.tok)
        /\ UNCHANGED <<latest, interrupted, params, plan, crashes, failures>>
        /\ params = latest.payload.params
        /\ Whole(latest.payload)
    BY <1>2 DEF VerifyFingerprint, files, faults, SessionInv, Loading
  <2>2. latest.payload.tok # Absent
    BY <1>0, FilesAssumption DEF Slots, Payloads
  <2>3. crashes = 0 /\ failures = 0 => latest.tokfp = latest.payload.tok
    BY <2>1 DEF TokenizersKept, SidecarsMatch, SidecarsDescribe, SaveStages
  <2> QED
    BY <2>1, <2>2, <2>3
    DEF TokenizersKept, FingerprintAccepted, ReadyStages, TrainingStages, SaveStages, CopyStages
<1>3. CASE InitializeFresh
  BY <1>3 DEF InitializeFresh, TokenizersKept, files, faults
<1>4. CASE SyncAndBegin \/ Decide
  BY <1>4 DEF SyncAndBegin, Decide, TokenizersKept, files, faults, memory, ReadyStages, TrainingStages
<1>5. ASSUME NEW train \in Losses, NEW val \in Losses \cup {NonFinite, NoVal},
             RunEpoch(train, val)
      PROVE  TokenizersKept'
  <2>1. /\ stage \in TrainingStages
        /\ params' = Trained(params, StepsPerEpoch)
        /\ UNCHANGED <<plan, latest, interrupted, crashes, failures>>
    BY <1>5 DEF RunEpoch, files, faults, TrainingStages
  <2>2. params'.tok = params.tok
    BY <1>0, <2>1, TrainedType, SessionAssumption
  <2> QED
    BY <2>1, <2>2 DEF TokenizersKept, ReadyStages
<1>6. CASE SavePayload
  <2>1. /\ stage \in TrainingStages
        /\ latest'.payload = NewPayload
        /\ UNCHANGED <<plan, params, interrupted, crashes, failures>>
    BY <1>0, <1>6 DEF SavePayload, Slots, memory, faults, TrainingStages, SaveStages
  <2> QED
    BY <2>1 DEF TokenizersKept, NewPayload, ReadyStages
<1>7. CASE SaveTokfp \/ SaveRun
  <2>1. /\ stage \in TrainingStages
        /\ latest'.payload = latest.payload
        /\ interrupted' \subseteq interrupted
        /\ UNCHANGED <<plan, params, crashes, failures>>
    BY <1>0, <1>7 DEF SaveTokfp, SaveRun, Slots, memory, faults, TrainingStages, SaveStages
  <2> QED
    BY <2>1 DEF TokenizersKept, ReadyStages
<1>8. CASE CopyPayload \/ CopyTokfp \/ CopyRun
  <2>1. /\ stage \in TrainingStages
        /\ interrupted' \subseteq interrupted
        /\ UNCHANGED <<latest, plan, params, crashes, failures>>
    BY <1>8 DEF CopyPayload, CopyTokfp, CopyRun, memory, faults, TrainingStages, CopyStages
  <2> QED
    BY <2>1 DEF TokenizersKept, ReadyStages
<1>9. CASE SaveFails \/ ClosesShort \/ Crash
  <2>1. crashes' # 0 \/ failures' # 0
    BY <1>0, <1>9 DEF SaveFails, ClosesShort, Crash
  <2> QED
    BY <2>1 DEF TokenizersKept
<1>10. CASE UNCHANGED vars
  BY <1>10 DEF vars, TokenizersKept
<1> QED
  BY <1>1, <1>2, <1>3, <1>4, <1>5, <1>6, <1>7, <1>8, <1>9, <1>10 DEF Next, SessionStep

(* As long as nothing crashed or failed, no invocation trains weights of   *)
(* another tokenizer.                                                      *)
THEOREM TokenizersDoNotMix == Spec => []OwnTokenizer
<1>1. Init => TokenizersKept
  BY NoPayloadType DEF Init, TokenizersKept, EmptySlot, ReadyStages, TrainingStages, SaveStages, CopyStages
<1>2. SessionInv /\ SidecarsMatch /\ TokenizersKept /\ [Next]_vars => TokenizersKept'
  BY TokenizersStep
<1>3. TokenizersKept => OwnTokenizer
  BY DEF TokenizersKept, OwnTokenizer, ReadyStages
<1> QED
  BY <1>1, <1>2, <1>3, SessionInvariant, SidecarsStayTrue, PTL DEF Spec

-----------------------------------------------------------------------------
(* What an interruption costs *)

(* The last milestone is on disk. *)
MilestoneOnDisk ==
  (stage \in ReadyStages \ {"savePayload"} /\ ~plan.dry_run /\ failures = 0)
    => pos.epoch <= EpochsOnDisk + (pos.epoch % SaveInterval)

(* Past a milestone, the remainder counts the epochs since. *)
LEMMA NextRemainder ==
  ASSUME NEW n \in Nat, NEW k \in Nat \ {0}, (n + 1) % k # 0
  PROVE  (n + 1) % k = (n % k) + 1
<1> DEFINE q == n \div k
           r == n % k
<1>1. q \in Int /\ r \in 0..(k - 1) /\ n = (k * q) + r
  OBVIOUS
<1> HIDE DEF q, r
<1>2. CASE r + 1 = k
  <2>1. n + 1 = k * (q + 1)
    BY <1>1, <1>2
  <2>2. (k * (q + 1)) % k = 0
    BY <1>1
  <2> QED
    BY <2>1, <2>2
<1>3. CASE r + 1 # k
  <2>1. n + 1 = (k * q) + (r + 1) /\ r + 1 \in 0..(k - 1)
    BY <1>1, <1>3
  <2>2. ((k * q) + (r + 1)) % k = r + 1
    BY <1>1, <2>1
  <2> QED
    BY <2>1, <2>2 DEF r
<1> QED
  BY <1>2, <1>3

LEMMA RemainderBounds ==
  ASSUME NEW n \in Nat, NEW k \in Nat \ {0}
  PROVE  n % k \in Nat /\ n % k < k
OBVIOUS

LEMMA MilestoneStep ==
  ASSUME SessionInv, SaveInv, MilestoneOnDisk, [Next]_vars
  PROVE  MilestoneOnDisk'
<1>0. /\ latest \in Slots
      /\ latest.payload.epoch \in Nat
      /\ plan \in Plans \cup {NoPlan}
      /\ pos \in Positions
      /\ pos.epoch \in Nat
      /\ failures \in Nat
      /\ SaveInterval \in Nat \ {0}
      /\ EpochsOnDisk \in Nat
  BY SessionAssumption DEF SessionInv, TypeOK, Positions, Slots, Payloads, EpochsOnDisk
<1>1. CASE (\E p \in Plans : Start(p)) \/ LoadHeader \/ LoadParams \/ LoadAdam \/ LoadFails
           \/ End \/ Crash
  <2>1. stage' \in {"down", "fresh"} \cup LoadStages
    BY <1>1 DEF Start, LoadHeader, LoadParams, LoadAdam, LoadFails, End, Crash, LoadStages
  <2> QED
    BY <2>1 DEF MilestoneOnDisk, ReadyStages, TrainingStages, LoadStages, SaveStages, CopyStages
<1>2. CASE VerifyFingerprint
  <2>1. CASE stage' = "sync"
    <3>1. /\ pos'.epoch = latest.payload.epoch
          /\ UNCHANGED <<latest, params>>
          /\ Whole(latest.payload)
          /\ params = latest.payload.params
      BY <1>2, <2>1 DEF VerifyFingerprint, files, SessionInv, Loading
    <3>2. EpochsOnDisk' = pos'.epoch
      BY <3>1 DEF EpochsOnDisk
    <3>3. pos'.epoch % SaveInterval \in Nat
      BY <1>0, <3>1, RemainderBounds
    <3> QED
      BY <1>0, <3>1, <3>2, <3>3 DEF MilestoneOnDisk
  <2>2. CASE stage' = "fresh"
    BY <2>2 DEF MilestoneOnDisk, ReadyStages, TrainingStages, SaveStages, CopyStages
  <2> QED
    BY <1>2, <2>1, <2>2 DEF VerifyFingerprint
<1>3. CASE InitializeFresh
  <2>1. pos'.epoch = 0 /\ latest' = latest
    BY <1>3 DEF InitializeFresh, StartPosition, files
  <2>2. EpochsOnDisk' \in Nat
    BY <1>0, <2>1 DEF EpochsOnDisk
  <2>3. pos'.epoch % SaveInterval \in Nat
    BY <1>0, <2>1, RemainderBounds
  <2> QED
    BY <2>1, <2>2, <2>3 DEF MilestoneOnDisk
<1>4. CASE SyncAndBegin \/ Decide
  BY <1>4 DEF SyncAndBegin, Decide, MilestoneOnDisk, EpochsOnDisk, files, faults, memory,
              ReadyStages, TrainingStages
<1>5. ASSUME NEW train \in Losses, NEW val \in Losses \cup {NonFinite, NoVal},
             RunEpoch(train, val)
      PROVE  MilestoneOnDisk'
  <2>1. /\ stage = "epoch"
        /\ stage' \in {"savePayload", "decide"}
        /\ UNCHANGED <<plan, latest, failures>>
        /\ params' = Trained(params, StepsPerEpoch)
        /\ pos'.epoch = pos.epoch + 1
    BY <1>5 DEF RunEpoch, files, faults
  <2>2. params \in Weights
    BY <2>1 DEF SessionInv, Ready, Coherent, ReadyStages, TrainingStages
  <2>3. EpochsOnDisk' = EpochsOnDisk
    BY <2>1, <2>2, TrainedType, SessionAssumption DEF EpochsOnDisk
  <2>4. CASE stage' = "savePayload"
    BY <2>4 DEF MilestoneOnDisk
  <2>5. CASE stage' = "decide" /\ ~plan.dry_run
    <3>1. (pos.epoch + 1) % SaveInterval # 0
      BY <1>0, <1>5, <2>1, <2>5, EpochVerdict DEF Milestone
    <3>2. (pos.epoch + 1) % SaveInterval = (pos.epoch % SaveInterval) + 1
      BY <1>0, <3>1, NextRemainder
    <3>3. pos.epoch % SaveInterval \in Nat
      BY <1>0, RemainderBounds
    <3>4. failures = 0 => pos.epoch <= EpochsOnDisk + (pos.epoch % SaveInterval)
      BY <2>1, <2>5 DEF MilestoneOnDisk, ReadyStages, TrainingStages
    <3>5. failures = 0 => pos.epoch + 1 <= EpochsOnDisk + ((pos.epoch + 1) % SaveInterval)
      BY <1>0, <3>2, <3>3, <3>4
    <3> QED
      BY <2>1, <2>3, <3>5 DEF MilestoneOnDisk
  <2>6. CASE plan.dry_run
    BY <2>1, <2>6 DEF MilestoneOnDisk
  <2> QED
    BY <2>1, <2>4, <2>5, <2>6
<1>6. CASE SavePayload
  <2>1. latest'.payload = NewPayload /\ UNCHANGED <<params, pos>>
    BY <1>0, <1>6 DEF SavePayload, Slots, memory
  <2>2. EpochsOnDisk' = pos.epoch
    BY <2>1 DEF EpochsOnDisk, NewPayload, Whole
  <2>3. pos.epoch % SaveInterval \in Nat
    BY <1>0, RemainderBounds
  <2> QED
    BY <1>0, <2>1, <2>2, <2>3 DEF MilestoneOnDisk
<1>7. CASE SaveTokfp \/ SaveRun \/ CopyPayload \/ CopyTokfp \/ CopyRun
  <2>1. /\ stage \in ReadyStages \ {"savePayload"}
        /\ latest'.payload = latest.payload
        /\ UNCHANGED <<plan, pos, params, failures>>
    BY <1>0, <1>7 DEF SaveTokfp, SaveRun, CopyPayload, CopyTokfp, CopyRun, Slots, memory, faults,
                      ReadyStages, TrainingStages, SaveStages, CopyStages
  <2> QED
    BY <2>1 DEF MilestoneOnDisk, EpochsOnDisk
<1>8. CASE SaveFails \/ ClosesShort
  <2>1. failures' # 0
    BY <1>0, <1>8 DEF SaveFails, ClosesShort
  <2> QED
    BY <2>1 DEF MilestoneOnDisk
<1>9. CASE UNCHANGED vars
  BY <1>9 DEF vars, MilestoneOnDisk, EpochsOnDisk
<1> QED
  BY <1>1, <1>2, <1>3, <1>4, <1>5, <1>6, <1>7, <1>8, <1>9 DEF Next, SessionStep

(* A crash before the next epoch costs less than save_interval_epochs      *)
(* epochs, as long as no file operation failed.                            *)
THEOREM LossStaysBounded == Spec => []BoundedLoss
<1>1. Init => MilestoneOnDisk
  BY DEF Init, MilestoneOnDisk, ReadyStages, TrainingStages, SaveStages, CopyStages
<1>2. SessionInv /\ SaveInv /\ MilestoneOnDisk /\ [Next]_vars => MilestoneOnDisk'
  BY MilestoneStep
<1>3. SessionInv /\ MilestoneOnDisk => BoundedLoss
  <2> SUFFICES ASSUME SessionInv, MilestoneOnDisk, stage = "epoch", ~plan.dry_run, failures = 0
               PROVE  pos.epoch - EpochsOnDisk < SaveInterval
    BY DEF BoundedLoss
  <2>1. pos.epoch \in Nat /\ EpochsOnDisk \in Nat /\ SaveInterval \in Nat \ {0}
    BY SessionAssumption DEF SessionInv, TypeOK, Positions, Slots, Payloads, EpochsOnDisk
  <2>2. pos.epoch <= EpochsOnDisk + (pos.epoch % SaveInterval)
    BY DEF MilestoneOnDisk, ReadyStages, TrainingStages
  <2>3. pos.epoch % SaveInterval \in Nat /\ pos.epoch % SaveInterval < SaveInterval
    BY <2>1, RemainderBounds
  <2> QED
    BY <2>1, <2>2, <2>3
<1> QED
  BY <1>1, <1>2, <1>3, SessionInvariant, SavesProceed, PTL DEF Spec

-----------------------------------------------------------------------------
(* The session implements DurableProgress *)

(* What the mapping needs beyond SessionInv: at the end of a restore the   *)
(* memory holds new work or exactly the work on disk, and once a           *)
(* checkpoint has been written its work is the one in memory.              *)
Restored ==
  stage = "sync" =>
    \/ params.lineage = run /\ pos.epoch = 0
    \/ /\ Whole(latest.payload)
       /\ params.lineage = latest.payload.params.lineage
       /\ pos.epoch = latest.payload.epoch

SavedStages == {"saveTokfp", "saveRun"} \cup CopyStages

Saved ==
  stage \in SavedStages /\ Whole(latest.payload) =>
    /\ latest.payload.params.lineage = params.lineage
    /\ latest.payload.epoch = pos.epoch

DurabilityInv == SessionInv /\ Restored /\ Saved

(* The phase of every stage. *)
LEMMA Phases ==
  /\ PhaseOf("down") = "idle"
  /\ \A s \in LoadStages \cup {"fresh", "sync"} : PhaseOf(s) = "restoring"
  /\ \A s \in {"epoch", "decide", "ending"} : PhaseOf(s) = "training"
  /\ \A s \in SaveStages \cup CopyStages : PhaseOf(s) = "saving"
BY DEF PhaseOf, LoadStages, SaveStages, CopyStages

(* A slot whose payload is untouched keeps its work; one that is not whole *)
(* holds none.                                                             *)
LEMMA WorkOnDiskParts ==
  ASSUME NEW s, NEW t
  PROVE  /\ s.payload = t.payload => WorkOnDisk(s) = WorkOnDisk(t)
         /\ ~Whole(s.payload) => WorkOnDisk(s) = Nothing
BY DEF WorkOnDisk

LEMMA RestoredStep ==
  ASSUME SessionInv, Restored, [Next]_vars
  PROVE  Restored'
<1>1. CASE VerifyFingerprint
  <2>1. CASE stage' = "sync"
    <3>1. /\ params' = params /\ params = latest.payload.params /\ latest' = latest
          /\ Whole(latest.payload)
          /\ pos' = [steps |-> latest.payload.steps, epoch |-> latest.payload.epoch]
      BY <1>1, <2>1 DEF VerifyFingerprint, SessionInv, Loading, files
    <3> QED
      BY <3>1 DEF Restored
  <2> QED
    BY <2>1 DEF Restored
<1>2. CASE InitializeFresh
  BY <1>2 DEF InitializeFresh, Restored, StartPosition
<1>3. CASE UNCHANGED vars
  BY <1>3 DEF vars, Restored
<1>4. ASSUME ~VerifyFingerprint, ~InitializeFresh, ~UNCHANGED vars PROVE stage' # "sync"
  BY <1>4 DEF Next, SessionStep, Start, LoadHeader, LoadParams, LoadAdam, SyncAndBegin, RunEpoch,
    SavePayload, SaveTokfp, SaveRun, AfterSave, CopyPayload, CopyTokfp, CopyRun, Decide, End,
    LoadFails, SaveFails, ClosesShort, Crash, SaveStages
<1> QED
  BY <1>1, <1>2, <1>3, <1>4 DEF Restored

LEMMA SavedStep ==
  ASSUME SessionInv, Saved, [Next]_vars
  PROVE  Saved'
<1>1. CASE SavePayload
  <2>1. latest \in Slots /\ latest'.payload = NewPayload
    BY <1>1 DEF SavePayload, SessionInv, TypeOK, Slots
  <2>2. NewPayload.params = params /\ NewPayload.epoch = pos.epoch
    BY DEF NewPayload
  <2> QED
    BY <1>1, <2>1, <2>2 DEF SavePayload, Saved, memory
<1>2. CASE SaveTokfp \/ SaveRun
  <2>1. latest \in Slots /\ latest'.payload = latest.payload
    BY <1>2 DEF SaveTokfp, SaveRun, SessionInv, TypeOK, Slots
  <2> QED
    BY <1>2, <2>1 DEF SaveTokfp, SaveRun, Saved, memory, SavedStages
<1>3. CASE CopyPayload \/ CopyTokfp \/ CopyRun
  BY <1>3 DEF CopyPayload, CopyTokfp, CopyRun, Saved, memory, SavedStages, CopyStages
<1>4. CASE ClosesShort
  <2>1. CASE stage = "savePayload"
    <3>1. stage' = "saveTokfp" /\ ~Whole(latest'.payload)
      <4>1. latest'.payload = [NewPayload EXCEPT !.level = "params"]
        BY <1>4, <2>1 DEF ClosesShort
      <4>2. ~Whole([NewPayload EXCEPT !.level = "params"])
        BY DEF NewPayload, Whole
      <4> QED
        BY <1>4, <2>1, <4>1, <4>2 DEF ClosesShort
    <3> QED
      BY <3>1 DEF Saved
  <2>2. CASE stage \in {"saveTokfp", "saveRun"}
    <3>1. Whole(latest'.payload) => latest'.payload = latest.payload
      BY <1>4, StopsShortFiles DEF ClosesShort, SessionInv, TypeOK
    <3>2. stage \in SavedStages /\ params' = params /\ pos' = pos
      BY <1>4, <2>2 DEF ClosesShort, memory, SavedStages
    <3> QED
      BY <3>1, <3>2 DEF Saved
  <2> QED
    BY <1>4, <2>1, <2>2 DEF ClosesShort, SaveStages
<1>5. CASE UNCHANGED vars
  BY <1>5 DEF vars, Saved
<1>6. ASSUME ~SavePayload, ~SaveTokfp, ~SaveRun, ~CopyPayload, ~CopyTokfp, ~CopyRun,
             ~ClosesShort, ~UNCHANGED vars
      PROVE  stage' \notin SavedStages
  BY <1>6 DEF Next, SessionStep, Start, LoadHeader, LoadParams, LoadAdam, VerifyFingerprint,
    InitializeFresh, SyncAndBegin, RunEpoch, Decide, End, LoadFails, SaveFails, Crash,
    SavedStages, CopyStages
<1> QED
  BY <1>1, <1>2, <1>3, <1>4, <1>5, <1>6 DEF Saved

LEMMA DurabilityInvariant == Spec => []DurabilityInv
<1>1. Init => Restored /\ Saved
  BY DEF Init, Restored, Saved, SavedStages, CopyStages
<1>2. SessionInv /\ Restored /\ Saved /\ [Next]_vars => Restored' /\ Saved'
  BY RestoredStep, SavedStep
<1>3. DurabilityInv <=> SessionInv /\ Restored /\ Saved
  BY DEF DurabilityInv
<1> QED
  BY <1>1, <1>2, <1>3, SessionInvariant, PTL DEF Spec

-----------------------------------------------------------------------------
(* The refinement, action by action. *)

LEMMA InitRefines == Init => Progress!Init
<1> SUFFICES ASSUME Init PROVE Progress!Init
  OBVIOUS
<1>1. stage = "down" /\ stage \notin TrainingStages /\ run = 0
  BY DEF Init, TrainingStages, SaveStages, CopyStages
<1>2. ~Whole(latest.payload) /\ ~Whole(best.payload)
  BY NoPayloadType DEF Init, EmptySlot
<1> QED
  BY <1>1, <1>2, Phases DEF Progress!Init, WorkInMemory, WorkOnDisk

LEMMA StartRefines ==
  ASSUME NEW p \in Plans, Start(p)
  PROVE  Progress!Launch
<1>1. stage = "down" /\ stage' \in {"loadHeader", "fresh"} /\ run' = run + 1
      /\ latest' = latest /\ best' = best
  BY DEF Start, files
<1>2. WorkInMemory = Nothing /\ WorkInMemory' = Nothing
  BY <1>1 DEF WorkInMemory, TrainingStages, SaveStages, CopyStages
<1>3. PhaseOf(stage) = "idle" /\ PhaseOf(stage') = "restoring"
  BY <1>1, Phases DEF LoadStages
<1> QED
  BY <1>1, <1>2, <1>3 DEF Progress!Launch, WorkOnDisk

LEMMA RestoringStutters ==
  ASSUME stage \in LoadStages \cup {"fresh", "sync"},
         stage' \in LoadStages \cup {"fresh", "sync"},
         UNCHANGED <<run, files>>
  PROVE  UNCHANGED Progress!vars
<1>1. WorkInMemory = Nothing /\ WorkInMemory' = Nothing
  BY DEF WorkInMemory, TrainingStages, LoadStages, SaveStages, CopyStages
<1>2. PhaseOf(stage) = "restoring" /\ PhaseOf(stage') = "restoring"
  BY Phases
<1> QED
  BY <1>1, <1>2 DEF Progress!vars, WorkOnDisk, files

LEMMA SyncRefines ==
  ASSUME DurabilityInv, SyncAndBegin
  PROVE  Progress!Restore
<1>1. /\ stage = "sync" /\ stage' \in {"epoch", "ending"}
      /\ params' = params /\ pos' = pos /\ run' = run
      /\ latest' = latest /\ best' = best
  BY DEF SyncAndBegin, files
<1>2. WorkInMemory' = [lineage |-> params.lineage, epochs |-> pos.epoch]
  BY <1>1 DEF WorkInMemory, TrainingStages
<1>3. PhaseOf(stage) = "restoring" /\ PhaseOf(stage') = "training"
  BY <1>1, Phases
<1>4. WorkInMemory' = Progress!NewWork
      \/ (WorkOnDisk(latest) # Nothing /\ WorkInMemory' = WorkOnDisk(latest))
  <2>1. CASE params.lineage = run /\ pos.epoch = 0
    BY <1>2, <2>1 DEF Progress!NewWork
  <2>2. CASE /\ Whole(latest.payload)
             /\ params.lineage = latest.payload.params.lineage
             /\ pos.epoch = latest.payload.epoch
    <3>1. latest.payload.params.lineage \in Nat /\ latest.payload.epoch \in Nat
      BY DEF DurabilityInv, SessionInv, TypeOK, Slots, Payloads, Weights
    <3> QED
      BY <1>2, <2>2, <3>1, DurabilityAssumption DEF WorkOnDisk
  <2> QED
    BY <1>1, <2>1, <2>2 DEF DurabilityInv, Restored
<1> QED
  BY <1>1, <1>3, <1>4 DEF Progress!Restore, WorkOnDisk

LEMMA EpochRefines ==
  ASSUME DurabilityInv, NEW train \in Losses, NEW val \in Losses \cup {NonFinite, NoVal},
         RunEpoch(train, val)
  PROVE  Progress!Train
<1>1. /\ stage = "epoch" /\ stage' \in {"savePayload", "decide"}
      /\ params' = Trained(params, StepsPerEpoch)
      /\ pos'.epoch = pos.epoch + 1
      /\ run' = run /\ latest' = latest /\ best' = best
  BY DEF RunEpoch, files
<1>2. params \in Weights
  BY <1>1 DEF DurabilityInv, SessionInv, Ready, ReadyStages, TrainingStages, Coherent
<1>3. params'.lineage = params.lineage
  BY <1>1, <1>2, TrainedType, SessionAssumption
<1>4. WorkInMemory = [lineage |-> params.lineage, epochs |-> pos.epoch]
  BY <1>1 DEF WorkInMemory, TrainingStages
<1>5. WorkInMemory' = [lineage |-> params.lineage, epochs |-> pos.epoch + 1]
  BY <1>1, <1>3 DEF WorkInMemory, TrainingStages, SaveStages
<1>6. PhaseOf(stage) = "training" /\ PhaseOf(stage') \in {"training", "saving"}
  BY <1>1, Phases DEF SaveStages
<1> QED
  BY <1>1, <1>4, <1>5, <1>6 DEF Progress!Train, WorkOnDisk

(* The phases and the work in memory around a step of saving. *)
LEMMA SavingPhase ==
  ASSUME stage \in SaveStages \cup CopyStages,
         stage' \in SaveStages \cup CopyStages \cup {"decide"},
         params' = params, pos' = pos
  PROVE  /\ PhaseOf(stage) = "saving"
         /\ stage' = "decide" => PhaseOf(stage') = "training"
         /\ stage' # "decide" => PhaseOf(stage') = "saving"
         /\ WorkInMemory = [lineage |-> params.lineage, epochs |-> pos.epoch]
         /\ WorkInMemory' = WorkInMemory
BY Phases DEF WorkInMemory, TrainingStages

LEMMA KeepRefines ==
  ASSUME DurabilityInv, SavePayload
  PROVE  Progress!Keep
<1>1. stage \in SaveStages /\ stage' \in SaveStages /\ stage' # "decide"
      /\ params' = params /\ pos' = pos /\ run' = run /\ best' = best
  BY DEF SavePayload, SaveStages, memory
<1>2. latest'.payload = NewPayload
  BY DEF SavePayload, DurabilityInv, SessionInv, TypeOK, Slots
<1>3. Whole(NewPayload) /\ NewPayload.params = params /\ NewPayload.epoch = pos.epoch
  BY DEF NewPayload, Whole
<1>4. WorkOnDisk(latest') = [lineage |-> params.lineage, epochs |-> pos.epoch]
  BY <1>2, <1>3 DEF WorkOnDisk
<1> QED
  BY <1>1, <1>4, SavingPhase DEF Progress!Keep, WorkOnDisk

(* Writing a sidecar is invisible, unless it is the end of the save. *)
LEMMA SidecarRefines ==
  ASSUME DurabilityInv, SaveTokfp \/ SaveRun \/ CopyTokfp \/ CopyRun
  PROVE  Progress!Next \/ UNCHANGED Progress!vars
<1>1. /\ stage \in SaveStages \cup CopyStages
      /\ stage' \in SaveStages \cup CopyStages \cup {"decide"}
      /\ params' = params /\ pos' = pos /\ run' = run
  BY DEF SaveTokfp, SaveRun, CopyTokfp, CopyRun, AfterSave, SaveStages, CopyStages, memory
<1>2. latest'.payload = latest.payload /\ best'.payload = best.payload
  BY DEF SaveTokfp, SaveRun, CopyTokfp, CopyRun, DurabilityInv, SessionInv, TypeOK, Slots
<1>3. WorkOnDisk(latest') = WorkOnDisk(latest) /\ WorkOnDisk(best') = WorkOnDisk(best)
  BY <1>2 DEF WorkOnDisk
<1>4. CASE stage' = "decide"
  <2>1. Progress!Proceed
    BY <1>1, <1>3, <1>4, SavingPhase DEF Progress!Proceed, WorkOnDisk
  <2> QED
    BY <2>1 DEF Progress!Next
<1>5. CASE stage' # "decide"
  BY <1>1, <1>3, <1>5, SavingPhase DEF Progress!vars, WorkOnDisk
<1> QED
  BY <1>4, <1>5

LEMMA ReleaseRefines ==
  ASSUME DurabilityInv, CopyPayload
  PROVE  Progress!Next
<1>1. /\ stage \in CopyStages
      /\ stage' \in CopyStages /\ stage' # "decide"
      /\ params' = params /\ pos' = pos /\ run' = run /\ latest' = latest
  BY DEF CopyPayload, CopyStages, memory
<1>2. best'.payload = latest.payload
  BY DEF CopyPayload, DurabilityInv, SessionInv, TypeOK, Slots
<1>3. WorkOnDisk(best') = WorkOnDisk(latest)
  BY <1>2 DEF WorkOnDisk
<1>4. CASE Whole(latest.payload)
  <2>1. /\ latest.payload.params.lineage = params.lineage
        /\ latest.payload.epoch = pos.epoch
    BY <1>1, <1>4 DEF DurabilityInv, Saved, SavedStages
  <2>2. WorkOnDisk(latest) = WorkInMemory
    BY <1>1, <1>4, <2>1, SavingPhase DEF WorkOnDisk
  <2>3. Progress!Release
    BY <1>1, <1>3, <2>2, SavingPhase DEF Progress!Release, WorkOnDisk
  <2> QED
    BY <2>3 DEF Progress!Next
<1>5. CASE ~Whole(latest.payload)
  <2>1. WorkOnDisk(best') = Nothing
    BY <1>3, <1>5 DEF WorkOnDisk
  <2>2. Progress!Lose
    BY <1>1, <2>1, SavingPhase DEF Progress!Lose, WorkOnDisk
  <2> QED
    BY <2>2 DEF Progress!Next
<1> QED
  BY <1>4, <1>5

(* A step that stops short leaves a file's work or none. *)
LEMMA ShortWork ==
  ASSUME DurabilityInv, StopsShort
  PROVE  /\ WorkOnDisk(latest') \in {WorkOnDisk(latest), Nothing}
         /\ WorkOnDisk(best') \in {WorkOnDisk(best), Nothing}
         /\ stage \notin SaveStages \cup CopyStages => latest' = latest /\ best' = best
<1>1. /\ Whole(latest'.payload) => latest'.payload = latest.payload
      /\ Whole(best'.payload) => best'.payload = best.payload
  BY StopsShortFiles DEF DurabilityInv, SessionInv, TypeOK
<1>2. ASSUME stage \notin SaveStages \cup CopyStages PROVE latest' = latest /\ best' = best
  BY <1>2 DEF StopsShort, ShortLatest, ShortBest, SaveStages, CopyStages
<1> QED
  BY <1>1, <1>2 DEF WorkOnDisk

LEMMA FailRefines ==
  ASSUME DurabilityInv, SaveFails \/ ClosesShort
  PROVE  Progress!Next
<1>1. /\ stage \in SaveStages \cup CopyStages
      /\ stage' \in SaveStages \cup CopyStages \cup {"decide"}
      /\ params' = params /\ pos' = pos /\ run' = run
      /\ StopsShort
  BY DEF SaveFails, ClosesShort, AfterSave, SaveStages, CopyStages, memory
<1>2. /\ WorkOnDisk(latest') \in {WorkOnDisk(latest), Nothing}
      /\ WorkOnDisk(best') \in {WorkOnDisk(best), Nothing}
  BY <1>1, ShortWork
<1>3. CASE stage' = "decide"
  <2>1. Progress!Proceed
    BY <1>1, <1>2, <1>3, SavingPhase DEF Progress!Proceed, WorkOnDisk
  <2> QED
    BY <2>1 DEF Progress!Next
<1>4. CASE stage' # "decide"
  <2>1. Progress!Lose
    BY <1>1, <1>2, <1>4, SavingPhase DEF Progress!Lose, WorkOnDisk
  <2> QED
    BY <2>1 DEF Progress!Next
<1> QED
  BY <1>3, <1>4

LEMMA DecideStutters ==
  ASSUME Decide
  PROVE  UNCHANGED Progress!vars
<1>1. /\ stage = "decide" /\ stage' \in {"ending", "epoch"}
      /\ params' = params /\ pos' = pos /\ run' = run /\ latest' = latest /\ best' = best
  BY DEF Decide, memory, files
<1>2. PhaseOf(stage) = "training" /\ PhaseOf(stage') = "training"
  BY <1>1, Phases
<1>3. WorkInMemory' = WorkInMemory
  BY <1>1 DEF WorkInMemory, TrainingStages
<1> QED
  BY <1>1, <1>2, <1>3 DEF Progress!vars, WorkOnDisk

LEMMA DownRefines ==
  ASSUME DurabilityInv, End \/ Crash
  PROVE  Progress!Stop
<1>1. stage # "down" /\ stage' = "down" /\ run' = run
  BY DEF End, Crash
<1>2. PhaseOf(stage) # "idle" /\ PhaseOf(stage') = "idle"
  <2>1. stage \in LoadStages \cup {"fresh", "sync"} \cup {"epoch", "decide", "ending"}
                 \cup SaveStages \cup CopyStages
    BY <1>1 DEF DurabilityInv, SessionInv, TypeOK, Stages, TrainingStages
  <2> QED
    BY <1>1, <2>1, Phases
<1>3. WorkInMemory' = Nothing
  BY <1>1 DEF WorkInMemory, TrainingStages, SaveStages, CopyStages
<1>4. CASE End
  <2>1. latest' = latest /\ best' = best
    BY <1>4 DEF End, files
  <2> QED
    BY <1>1, <1>2, <1>3, <2>1 DEF Progress!Stop, WorkOnDisk
<1>5. CASE Crash
  <2>1. /\ WorkOnDisk(latest') \in {WorkOnDisk(latest), Nothing}
        /\ WorkOnDisk(best') \in {WorkOnDisk(best), Nothing}
        /\ stage \notin SaveStages \cup CopyStages => latest' = latest /\ best' = best
    BY <1>5, ShortWork DEF Crash
  <2>2. CASE stage \in SaveStages \cup CopyStages
    <3>1. PhaseOf(stage) = "saving"
      BY <2>2, Phases
    <3> QED
      BY <1>1, <1>2, <1>3, <2>1, <3>1 DEF Progress!Stop, WorkOnDisk
  <2>3. CASE stage \notin SaveStages \cup CopyStages
    BY <1>1, <1>2, <1>3, <2>1, <2>3 DEF Progress!Stop, WorkOnDisk
  <2> QED
    BY <2>2, <2>3
<1> QED
  BY <1>4, <1>5

LEMMA StepRefines ==
  ASSUME DurabilityInv, [Next]_vars
  PROVE  [Progress!Next]_(Progress!vars)
<1>1. CASE \E p \in Plans : Start(p)
  BY <1>1, StartRefines DEF Progress!Next
<1>2. CASE LoadHeader \/ LoadParams \/ LoadAdam \/ VerifyFingerprint \/ InitializeFresh \/ LoadFails
  <2>1. /\ stage \in LoadStages \cup {"fresh", "sync"}
        /\ stage' \in LoadStages \cup {"fresh", "sync"}
        /\ UNCHANGED <<run, files>>
    BY <1>2 DEF LoadHeader, LoadParams, LoadAdam, VerifyFingerprint, InitializeFresh, LoadFails,
      LoadStages
  <2> QED
    BY <2>1, RestoringStutters
<1>3. CASE SyncAndBegin
  BY <1>3, SyncRefines DEF Progress!Next
<1>4. CASE \E train \in Losses, val \in Losses \cup {NonFinite, NoVal} : RunEpoch(train, val)
  BY <1>4, EpochRefines DEF Progress!Next
<1>5. CASE SavePayload
  BY <1>5, KeepRefines DEF Progress!Next
<1>6. CASE SaveTokfp \/ SaveRun \/ CopyTokfp \/ CopyRun
  BY <1>6, SidecarRefines
<1>7. CASE CopyPayload
  BY <1>7, ReleaseRefines
<1>8. CASE SaveFails \/ ClosesShort
  BY <1>8, FailRefines
<1>9. CASE Decide
  BY <1>9, DecideStutters
<1>10. CASE End \/ Crash
  BY <1>10, DownRefines DEF Progress!Next
<1>11. CASE UNCHANGED vars
  <2>1. stage' = stage /\ params' = params /\ pos' = pos /\ run' = run
        /\ latest' = latest /\ best' = best
    BY <1>11 DEF vars
  <2> QED
    BY <2>1 DEF Progress!vars, WorkInMemory, WorkOnDisk, PhaseOf
<1> QED
  BY <1>1, <1>2, <1>3, <1>4, <1>5, <1>6, <1>7, <1>8, <1>9, <1>10, <1>11 DEF Next, SessionStep

(* The training session keeps the promise of DurableProgress. *)
THEOREM SessionKeepsProgress == Spec => KeepsProgress
<1>1. DurabilityInv /\ [Next]_vars => [Progress!Next]_(Progress!vars)
  BY StepRefines
<1> QED
  BY <1>1, InitRefines, DurabilityInvariant, PTL DEF Spec, Progress!Spec, KeepsProgress
=============================================================================
