------------------------------- MODULE OpTimer ------------------------------
(***************************************************************************)
(* GpuOpTimer and the two clocks of the backends it marks operations on:   *)
(* the pool of CUDA events, made before the run, and the wall clock of the *)
(* host backends.  A mark is begun and ended without naming the operation  *)
(* a second time, so each end belongs to whatever mark is open.            *)
(***************************************************************************)
EXTENDS Integers, SequencesExt, FiniteSetsExt

CONSTANTS
  kMarksPerOptimizerStep,
  MaxMarks            \* the marks a backend is asked for at most: 1'000'000

ASSUME TimerAssumption ==
  /\ kMarksPerOptimizerStep \in Nat \ {0}
  /\ MaxMarks \in Nat \ {0}

VARIABLES
  timer,       \* GpuOpTimer: enabled_, completed_batches_, recorded_steps_
  cuda,        \* the CUDA backend's pool of marks
  host         \* HostBackendTimer

(* The constructor's check of logging.profile_backend_steps. *)
ValidStepCount(requested) ==
  requested > 0 /\ requested <= MaxMarks \div kMarksPerOptimizerStep

MarkCapacity(requested) == kMarksPerOptimizerStep * requested

IdleTimer == [enabled |-> FALSE, completed |-> 0, recorded |-> 0]

(* timing_prepare of the two backends. *)
PreparedCuda(requested) ==
  [capacity |-> MarkCapacity(requested), marks |-> <<>>, active |-> FALSE,
   op |-> "none", begin |-> 0, drop_active |-> FALSE, dropped |-> 0]
PreparedHost ==
  [totals |-> <<>>, active |-> FALSE, op |-> "none", start |-> 0,
   has_span |-> FALSE, span_start |-> 0, span_end |-> 0, dropped |-> 0]

-----------------------------------------------------------------------------
(* The window of whole optimizer steps that is marked. *)

TimerStepStart(t, skip, requested) ==
  IF ~t.enabled /\ t.recorded < requested /\ t.completed >= skip
  THEN [t EXCEPT !.enabled = TRUE] ELSE t

TimerStepEnd(t, requested) ==
  IF t.enabled THEN [t EXCEPT !.enabled = t.recorded + 1 # requested,
                              !.recorded = @ + 1]
  ELSE t

TimerBatchEnd(t) == [t EXCEPT !.completed = @ + 1]

-----------------------------------------------------------------------------
(* timing_mark_begin and timing_mark_end of the CUDA backend. *)

CudaMarkBegin(c, op, tick) ==
  IF c.active \/ Len(c.marks) = c.capacity
  THEN [c EXCEPT !.dropped = @ + 1, !.drop_active = TRUE]
  ELSE [c EXCEPT !.active = TRUE, !.op = op, !.begin = tick]

CudaMarkEnd(c, tick) ==
  IF c.drop_active THEN [c EXCEPT !.drop_active = FALSE]
  ELSE IF ~c.active THEN [c EXCEPT !.dropped = @ + 1]
  ELSE [c EXCEPT !.active = FALSE,
                 !.marks = Append(@, [op |-> c.op, begin |-> c.begin, end |-> tick])]

(* HostBackendTimer::mark_begin and mark_end. *)

HostMarkBegin(h, op, tick) ==
  IF h.active THEN [h EXCEPT !.dropped = @ + 1]
  ELSE [h EXCEPT !.active = TRUE, !.op = op, !.start = tick, !.has_span = TRUE,
                 !.span_start = IF h.has_span THEN @ ELSE tick]

NoTotal == [count |-> 0, time |-> 0]
TotalOf(totals, op) == IF op \in DOMAIN totals THEN totals[op] ELSE NoTotal

HostMarkEnd(h, tick) ==
  IF ~h.active THEN [h EXCEPT !.dropped = @ + 1]
  ELSE LET before == TotalOf(h.totals, h.op) IN
       [h EXCEPT !.active = FALSE, !.span_end = tick,
                 !.totals = [op \in DOMAIN @ \cup {h.op} |->
                               IF op # h.op THEN @[op]
                               ELSE [count |-> before.count + 1,
                                     time |-> before.time + (tick - h.start)]]]

-----------------------------------------------------------------------------
(* timing_report: what a backend says of its marks. *)

TotalsOfMarks(marks) ==
  [op \in {marks[i].op : i \in DOMAIN marks} |->
     LET of_op == {i \in DOMAIN marks : marks[i].op = op} IN
     [count |-> Cardinality(of_op),
      time |-> MapThenSumSet(LAMBDA i : marks[i].end - marks[i].begin, of_op)]]

CudaReport(c) ==
  [totals |-> TotalsOfMarks(c.marks), dropped |-> c.dropped,
   span |-> IF c.marks = <<>> THEN 0 ELSE Last(c.marks).end - Head(c.marks).begin]

HostReport(h) ==
  [totals |-> h.totals, dropped |-> h.dropped,
   span |-> IF h.has_span THEN h.span_end - h.span_start ELSE 0]

OperationTime(totals) == MapThenSumSet(LAMBDA op : totals[op].time, DOMAIN totals)

(* Mutant: a window that was cut off by the end of training is reported. *)
SummaryOfAnyWindow(t, requested, report) ==
  IF report.dropped # 0 THEN "exhausted" ELSE "reported"

(* GpuOpTimer::summary() throws when the window is incomplete or the pool  *)
(* was exhausted.                                                          *)
Summary(t, requested, report) ==
  IF t.recorded # requested THEN "incomplete"
  ELSE IF report.dropped # 0 THEN "exhausted"
  ELSE "reported"
=============================================================================
