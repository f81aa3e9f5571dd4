----------------------------- MODULE RowKernels -----------------------------
(***************************************************************************)
(* A launch of one of the kernels of RowKernelPrograms: the host clears    *)
(* the accumulators, launches the grid and reads the result back; the      *)
(* blocks, one per row, and the threads of a block run in any order and    *)
(* meet only at the barriers.  Values are abstracted to where they come    *)
(* from: a register, a slot of scratch and an accumulator hold which terms *)
(* they have summed and how many.                                          *)
(*                                                                         *)
(* kThreadsPerBlock is a power of two (256 in the code), which the tree of *)
(* additions needs.                                                        *)
(***************************************************************************)
EXTENDS RowKernelPrograms, FiniteSets, Integers

CONSTANTS
  Calls         \* the operations called: [kernel, act, inplace, clears, shapes], where a
                \* shape is the size of a launch: [threads, rows, cols]

\* A block has a power of two of threads, and a grid is never empty.
BlockSizes == {2, 4, 8, 16, 32, 64, 128, 256, 512, 1024}
ASSUME PowersOfTwo ==
  \A c \in Calls : \A s \in c.shapes :
    s.threads \in BlockSizes /\ s.rows \in Nat \ {0} /\ s.cols \in Nat \ {0}

\* The operation of the backend picks the variant of the kernel by the type
\* of its tensors, and clears what the kernel adds to.
ActOf(k) == IF k \in Bf16Kernels THEN "BF16" ELSE "F32"
ClearsOf(k) ==
  CASE k \in LossKernels -> {"loss"}
    [] k \in {"layernorm_backward_f32", "layernorm_backward_bf16act"} -> {"dgamma", "dbeta"}
    [] k = "sum_squares_f32" -> {"total"}
    [] OTHER -> {}
ASSUME CallsAsMade ==
  \A c \in Calls :
    c.kernel \in DOMAIN Programs /\ c.act = ActOf(c.kernel) /\ c.clears = ClearsOf(c.kernel)

VARIABLES
  calling,      \* the call, its shape, and what its row data are like
  host,         \* what the host does next
  pc,           \* per block and thread: its next instruction
  stride,       \* ... the stride of its tree of additions
  local,        \* ... its partial results
  result,       \* ... the reductions it has read
  grabbed,      \* ... the target's logit (thread 0's register)
  scratch,      \* per block: shared memory, a slot per thread
  sharedTarget, \* per block: the shared target
  mem,          \* per block, buffer and column: what the cell holds
  accum,        \* accumulators: what has been added
  touched,      \* per block: accesses since its last barrier
  raced         \* two threads have accessed a location unordered

vars == <<calling, host, pc, stride, local, result, grabbed, scratch, sharedTarget,
          mem, accum, touched, raced>>

Reds == {"max", "sum", "var", "dot", "dxhat", "dxhat_xhat"}
Buffers == {"x", "dout", "out", "gamma", "beta"}
Accumulators == {"loss", "total", "dgamma", "dbeta"}

Empty(red) == [red |-> red, n |-> 0, of |-> {}]
Nothing == Empty("none")
Sum(v, w) == [red |-> IF v.red = w.red THEN v.red ELSE "mixed",
              n |-> v.n + w.n, of |-> v.of \cup w.of]
Added(v, terms) == [red |-> v.red, n |-> v.n + Cardinality(terms), of |-> v.of \cup terms]

Code == Programs[calling.call.kernel]
Blocks == 0..(calling.shape.rows - 1)
Threads == 0..(calling.shape.threads - 1)
Cols == 0..(calling.shape.cols - 1)
Instr(b, t) == Code[pc[b][t]]
Ended(b, t) == pc[b][t] > Len(Code)

\* The columns of a loop: of the row, up to the diagonal, or of the grid.
Extent(e, b) ==
  CASE e = "row" -> Cols
    [] e = "causal" -> {c \in Cols : c <= b % calling.shape.cols}
    [] e = "grid" -> {c \in Cols : (c \div calling.shape.threads) % calling.shape.rows = b}
Own(e, b, t) == {c \in Extent(e, b) : c % calling.shape.threads = t}

\* In place, the output's row is the input's.
At(buf) == IF buf = "out" /\ calling.call.inplace THEN "x" ELSE buf
TypeOf(buf) == IF buf \in {"gamma", "beta"} THEN "F32" ELSE calling.call.act
Read(b, operand, c) == IF operand.ty = TypeOf(operand.buf) THEN mem[b][At(operand.buf)][c]
                                              ELSE "garbage"
Cell(operand) == IF operand.buf = "out" THEN "exp" ELSE "in"
Reads(b, ops, c) == {Read(b, ops[i], c) : i \in DOMAIN ops}
AsMeant(b, ops, c) == \A i \in DOMAIN ops : Read(b, ops[i], c) = Cell(ops[i])

-----------------------------------------------------------------------------
(* Accesses, to tell a data race: two threads at one location between two  *)
(* barriers, one of them writing, not both by an atomic.                   *)

R(loc) == [loc |-> loc, how |-> "read"]
W(loc) == [loc |-> loc, how |-> "write"]
Conflict(k, l) == k.loc = l.loc /\ "write" \in {k.how, l.how}
Touch(b, t, accesses) ==
  /\ touched' = [touched EXCEPT ![b] = @ \cup {[a EXCEPT !.how = <<t, a.how>>] : a \in accesses}]
  /\ raced' = (raced \/ \E a \in accesses, o \in touched[b] :
                           o.how[1] # t /\ Conflict(a, [o EXCEPT !.how = o.how[2]]))
OfRow(ops, cols) == {R(<<At(ops[i].buf), c>>) : i \in DOMAIN ops, c \in cols}

Advance(b, t) == pc' = [pc EXCEPT ![b][t] = @ + 1]
Jump(b, t, i) == pc' = [pc EXCEPT ![b][t] = i]
PoisonAt == Len(Code)

-----------------------------------------------------------------------------
(* The instructions of a thread *)

RunLoop(b, t) ==
  LET i == Instr(b, t)
      own == Own(i.extent, b, t)
      terms == UNION {{<<c, r>> : r \in Reads(b, i.ops, c)} : c \in own}
      kept == IF i.keep = {} THEN {} ELSE Own("row", b, t)
  IN  /\ i.op = "loop"
      /\ local' = [local EXCEPT ![b][t] =
           [r \in Reds |-> IF r \in i.reds THEN Added(Empty(r), terms)
                                           ELSE @[r]]]
      /\ mem' = [mem EXCEPT ![b][At("out")] =
           [c \in Cols |-> CASE c \in kept \ own -> "zero"
                             [] c \in kept \cap own ->
                                  IF AsMeant(b, i.ops, c) THEN "exp" ELSE "junk"
                             [] OTHER -> @[c]]]
      /\ accum' = [a \in Accumulators |->
           IF a \in i.adds THEN [c \in Cols |-> IF c \in own THEN Added(accum[a][c], {b})
                                                            ELSE accum[a][c]]
                           ELSE accum[a]]
      /\ Touch(b, t, OfRow(i.ops, own) \cup {W(<<At("out"), c>>) : c \in kept})
      /\ Advance(b, t)
      /\ UNCHANGED <<stride, result, grabbed, scratch, sharedTarget>>

Put(b, t) ==
  /\ Instr(b, t).op = "put"
  /\ scratch' = [scratch EXCEPT ![b][t] = local[b][t][Instr(b, t).red]]
  /\ stride' = [stride EXCEPT ![b][t] = calling.shape.threads \div 2]
  /\ Touch(b, t, {W(<<"scratch", t>>)})
  /\ Advance(b, t)
  /\ UNCHANGED <<local, result, grabbed, sharedTarget, mem, accum>>

Fold(b, t) ==
  LET adds == t < stride[b][t]
  IN  /\ Instr(b, t).op = "fold"
      /\ scratch' = IF adds
                    THEN [scratch EXCEPT ![b][t] = Sum(@, scratch[b][t + stride[b][t]])]
                    ELSE scratch
      /\ Touch(b, t, IF adds THEN {W(<<"scratch", t>>), R(<<"scratch", t + stride[b][t]>>)}
                             ELSE {})
      /\ Advance(b, t)
      /\ UNCHANGED <<stride, local, result, grabbed, sharedTarget, mem, accum>>

Get(b, t) ==
  /\ Instr(b, t).op = "get"
  /\ result' = [result EXCEPT ![b][t][Instr(b, t).red] = scratch[b][0]]
  /\ Touch(b, t, {R(<<"scratch", 0>>)})
  /\ Advance(b, t)
  /\ UNCHANGED <<stride, local, grabbed, scratch, sharedTarget, mem, accum>>

RunMap(b, t) ==
  LET i == Instr(b, t)
      own == Own(i.over, b, t)
      inside == own \cap Extent(i.extent, b)
  IN  /\ i.op = "map"
      /\ mem' = [mem EXCEPT ![b][At(i.out)] =
           [c \in Cols |-> CASE c \in inside -> IF AsMeant(b, i.ops, c) THEN i.value ELSE "junk"
                             [] c \in own \ inside -> "zero"
                             [] OTHER -> @[c]]]
      /\ Touch(b, t, OfRow(i.ops, inside) \cup {W(<<At(i.out), c>>) : c \in own}
                     \cup (IF i.value = "grad" THEN {R(<<"target">>)} ELSE {}))
      /\ Advance(b, t)
      /\ UNCHANGED <<stride, local, result, grabbed, scratch, sharedTarget, accum>>

\* Thread 0 only: its target, its target's logit, and what it adds to an
\* accumulator of the grid.
ReadTargetOnce(b, t) ==
  /\ Instr(b, t).op = "target"
  /\ sharedTarget' = IF t = 0 THEN [sharedTarget EXCEPT ![b] = calling.targets[b]]
                              ELSE sharedTarget
  /\ Touch(b, t, IF t = 0 THEN {W(<<"target">>)} ELSE {})
  /\ Advance(b, t)
  /\ UNCHANGED <<stride, local, result, grabbed, scratch, mem, accum>>

GrabLogit(b, t) ==
  LET logit == Read(b, Instr(b, t).ops[1], sharedTarget[b])
  IN  /\ Instr(b, t).op = "grab"
      /\ grabbed' = IF t = 0 THEN [grabbed EXCEPT ![b] = logit] ELSE grabbed
      /\ Touch(b, t, IF t = 0 THEN {R(<<"target">>), R(<<"x", sharedTarget[b]>>)} ELSE {})
      /\ Advance(b, t)
      /\ UNCHANGED <<stride, local, result, scratch, sharedTarget, mem, accum>>

BadRow(b) == calling.rowData[b] # "finite"
AddToGrid(b, t) ==
  /\ Instr(b, t).op \in {"add_loss", "add_total", "put_total"}
  /\ accum' = IF t # 0 THEN accum ELSE
       CASE Instr(b, t).op = "add_loss" ->
              [accum EXCEPT !["loss"][0] =
                 Added(@, {<<b, IF BadRow(b) THEN "nan" ELSE grabbed[b]>>})]
         [] Instr(b, t).op = "add_total" -> [accum EXCEPT !["total"][0] = Sum(@, result[b][t]["sum"])]
         [] Instr(b, t).op = "put_total" -> [accum EXCEPT !["total"][b] = result[b][t]["sum"]]
  /\ Touch(b, t, {})
  /\ Advance(b, t)
  /\ UNCHANGED <<stride, local, result, grabbed, scratch, sharedTarget, mem>>

\* Mutant: only thread 0 leaves the kernel for a bad row.
CheckByThreadZero(b, t) ==
  LET op == Instr(b, t).op
      bad == CASE op = "check_target" -> sharedTarget[b] \notin Cols
               [] op = "check_max" -> calling.rowData[b] = "infinite"
               [] op = "check_sum" -> calling.rowData[b] = "nan"
  IN  /\ op \in {"check_target", "check_max", "check_sum"}
      /\ IF bad /\ t = 0 THEN Jump(b, t, PoisonAt) ELSE Advance(b, t)
      /\ Touch(b, t, IF op = "check_target" THEN {R(<<"target">>)} ELSE {})
      /\ UNCHANGED <<stride, local, result, grabbed, scratch, sharedTarget, mem, accum>>

\* The conditions all threads of the block must answer alike.
Check(b, t) ==
  LET op == Instr(b, t).op
      bad == CASE op = "check_target" -> sharedTarget[b] \notin Cols
               [] op = "check_max" -> calling.rowData[b] = "infinite"
               [] op = "check_sum" -> calling.rowData[b] = "nan"
  IN  /\ op \in {"check_target", "check_max", "check_sum"}
      /\ IF bad THEN Jump(b, t, PoisonAt) ELSE Advance(b, t)
      /\ Touch(b, t, IF op = "check_target" THEN {R(<<"target">>)} ELSE {})
      /\ UNCHANGED <<stride, local, result, grabbed, scratch, sharedTarget, mem, accum>>

PoisonRow(b, t) ==
  LET own == Own("row", b, t)
      i == Instr(b, t)
  IN  /\ i.op = "poison"
      /\ mem' = [mem EXCEPT ![b]["x"] =
           [c \in Cols |-> IF c \in own /\ i.out # {} THEN "nan" ELSE @[c]]]
      /\ accum' = IF t = 0 THEN [accum EXCEPT !["loss"][0] = Added(@, {<<b, "nan">>})] ELSE accum
      /\ Touch(b, t, IF i.out # {} THEN {W(<<"x", c>>) : c \in own} ELSE {})
      /\ Advance(b, t)
      /\ UNCHANGED <<stride, local, result, grabbed, scratch, sharedTarget>>

Return(b, t) ==
  /\ Instr(b, t).op = "return"
  /\ Jump(b, t, Len(Code) + 1)
  /\ UNCHANGED <<stride, local, result, grabbed, scratch, sharedTarget, mem, accum,
                 touched, raced>>

ThreadStep(b, t) ==
  /\ host = "wait" /\ ~Ended(b, t)
  /\ \/ RunLoop(b, t) \/ Put(b, t) \/ Fold(b, t) \/ Get(b, t) \/ RunMap(b, t)
     \/ ReadTargetOnce(b, t) \/ GrabLogit(b, t) \/ AddToGrid(b, t) \/ Check(b, t)
     \/ PoisonRow(b, t) \/ Return(b, t)
  /\ UNCHANGED <<calling, host>>

\* Mutant: the loop over the strides ends before the last.
SyncThreadsOneRoundLess(b) ==
  /\ host = "wait"
  /\ \A t \in Threads : ~Ended(b, t) /\ pc[b][t] = pc[b][0]
  /\ Instr(b, 0).op \in {"sync", "syncfold"}
  /\ LET again == Instr(b, 0).op = "syncfold" /\ stride[b][0] \div 2 > 1
     IN  pc' = [pc EXCEPT ![b] = [t \in Threads |-> IF again THEN @[t] - 1 ELSE @[t] + 1]]
  /\ stride' = IF Instr(b, 0).op = "syncfold"
               THEN [stride EXCEPT ![b] = [t \in Threads |-> @[t] \div 2]] ELSE stride
  /\ touched' = [touched EXCEPT ![b] = {}]
  /\ UNCHANGED <<calling, host, local, result, grabbed, scratch, sharedTarget, mem, accum, raced>>

\* __syncthreads: every thread of the block has come to the same barrier.
\* The barrier of the tree closes a round of it.
SyncThreads(b) ==
  /\ host = "wait"
  /\ \A t \in Threads : ~Ended(b, t) /\ pc[b][t] = pc[b][0]
  /\ Instr(b, 0).op \in {"sync", "syncfold"}
  /\ LET again == Instr(b, 0).op = "syncfold" /\ stride[b][0] \div 2 > 0
     IN  pc' = [pc EXCEPT ![b] = [t \in Threads |-> IF again THEN @[t] - 1 ELSE @[t] + 1]]
  /\ stride' = IF Instr(b, 0).op = "syncfold"
               THEN [stride EXCEPT ![b] = [t \in Threads |-> @[t] \div 2]] ELSE stride
  /\ touched' = [touched EXCEPT ![b] = {}]
  /\ UNCHANGED <<calling, host, local, result, grabbed, scratch, sharedTarget, mem, accum, raced>>

-----------------------------------------------------------------------------
(* The host *)

GridDone == \A b \in Blocks, t \in Threads : Ended(b, t)

\* cudaMemset of the accumulators the kernel adds to.
ClearAccumulators ==
  /\ host = "clear"
  /\ accum' = [a \in Accumulators |->
                 IF a \in calling.call.clears
                 THEN [c \in 0..(calling.shape.cols + calling.shape.rows) |-> Empty("sum")]
                 ELSE accum[a]]
  /\ host' = "wait"
  /\ UNCHANGED <<calling, pc, stride, local, result, grabbed, scratch, sharedTarget, mem,
                 touched, raced>>
\* The copy back is ordered after the kernel.
ReadBack ==
  /\ host = "wait" /\ GridDone
  /\ host' = "done"
  /\ UNCHANGED <<calling, pc, stride, local, result, grabbed, scratch, sharedTarget, mem,
                 accum, touched, raced>>

-----------------------------------------------------------------------------
Stale == [red |-> "sum", n |-> 1, of |-> {"stale"}]

\* What the rows hold and name only matters to the cross entropy.
Inputs(call, shape) ==
  LET rows == 0..(shape.rows - 1)
      plain == [targets |-> [b \in rows |-> shape.cols - 1], rowData |-> [b \in rows |-> "finite"]]
  IN  {plain} \cup
      (IF "loss" \notin call.clears THEN {} ELSE
        {[plain EXCEPT !.targets[0] = t] : t \in {-1, 0, shape.cols}}
        \cup {[plain EXCEPT !.rowData[0] = d] : d \in {"infinite", "nan"}})

\* Before a launch: no register and no scratch has a value.
Unlaunched ==
  /\ pc = [b \in Blocks |-> [t \in Threads |-> 1]]
  /\ stride = [b \in Blocks |-> [t \in Threads |-> 0]]
  /\ local = [b \in Blocks |-> [t \in Threads |-> [r \in Reds |-> Nothing]]]
  /\ result = [b \in Blocks |-> [t \in Threads |-> [r \in Reds |-> Nothing]]]
  /\ grabbed = [b \in Blocks |-> "none"]
  /\ scratch = [b \in Blocks |-> [t \in Threads |-> Nothing]]
  /\ sharedTarget = [b \in Blocks |-> -1]
  /\ mem = [b \in Blocks |-> [f \in Buffers |-> [c \in Cols |-> IF f = "out" THEN "old" ELSE "in"]]]
  /\ accum = [a \in Accumulators |-> [c \in 0..(calling.shape.cols + calling.shape.rows) |-> Stale]]
  /\ touched = [b \in Blocks |-> {}]
  /\ raced = FALSE

Init ==
  /\ \E call \in Calls : \E shape \in call.shapes : \E in \in Inputs(call, shape) :
       calling = [call |-> call, shape |-> shape, targets |-> in.targets, rowData |-> in.rowData]
  /\ host = "clear"
  /\ Unlaunched

Next ==
  \/ ClearAccumulators \/ ReadBack
  \/ \E b \in Blocks : SyncThreads(b) \/ \E t \in Threads : ThreadStep(b, t)

\* The GPU runs every thread that can run.
Fairness == WF_vars(Next)
Spec == Init /\ [][Next]_vars /\ Fairness

-----------------------------------------------------------------------------
\* Between two barriers no thread reads or writes what another one writes:
\* the slots of scratch, which one reduction after the other reuses, the
\* shared target, and the cells of a row rewritten in place.
NoDataRace == ~raced

\* A reduction a thread goes on with is the whole one: each column of the
\* row's extent exactly once, read before it was overwritten, in every
\* thread, and nothing of another reduction that went through scratch.
ReductionsAreWhole ==
  \A b \in Blocks, t \in Threads, r \in Reds :
    LET v == result[b][t][r]
        i == CHOOSE n \in DOMAIN Code : Code[n].op = "loop" /\ r \in Code[n].reds
        cols == Extent(Code[i].extent, b)
    IN  v # Nothing => v = [red |-> r, n |-> Cardinality(cols), of |-> {<<c, "in">> : c \in cols}]

\* What the call leaves: every column has its result, computed from the
\* operands' original values read with the type they have, and zero beyond
\* the diagonal; a bad row is all NaN.
Bad(b) == BadRow(b) \/ calling.targets[b] \notin Cols
LastMap == CHOOSE n \in DOMAIN Code : Code[n].op = "map"
OutputIsComplete ==
  host = "done" /\ (\E n \in DOMAIN Code : Code[n].op = "map") =>
    \A b \in Blocks, c \in Cols :
      mem[b][At(Code[LastMap].out)][c] =
        IF "loss" \in calling.call.clears /\ Bad(b) THEN "nan"
        ELSE IF c \in Extent(Code[LastMap].extent, b) THEN Code[LastMap].value ELSE "zero"

\* What the grid adds up holds each row once and nothing of an earlier call,
\* the loss of a row is that of its original logits, and a row whose target
\* or whose logits are bad makes the loss NaN.
Holds(v, terms) == v.n = Cardinality(terms) /\ v.of = terms
GridTotals ==
  host = "done" =>
    /\ "loss" \in calling.call.clears =>
         Holds(accum["loss"][0], {<<b, IF Bad(b) THEN "nan" ELSE "in">> : b \in Blocks})
    /\ "dgamma" \in calling.call.clears =>
         \A a \in {"dgamma", "dbeta"}, c \in Cols : Holds(accum[a][c], Blocks)
    /\ "total" \in calling.call.clears =>
         Holds(accum["total"][0], {<<c, "in">> : c \in Cols})
    /\ (\E n \in DOMAIN Code : Code[n].op = "put_total") =>
         \A b \in Blocks : Holds(accum["total"][b], {<<c, "in">> : c \in Cols})

\* A kernel leaves whole results: in every thread, row and accumulator.
ResultsAreWhole == ReductionsAreWhole /\ OutputIsComplete /\ GridTotals

\* No thread waits at a barrier another has passed by: every launch ends.
LaunchEnds == host = "clear" ~> host = "done"
=============================================================================
