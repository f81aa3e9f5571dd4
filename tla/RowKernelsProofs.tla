-------------------------- MODULE RowKernelsProofs --------------------------
(***************************************************************************)
(* Why the kernels that reduce leave whole results and race nowhere: the   *)
(* proofs about RowKernels, for every program, block size, number of rows  *)
(* and of columns, and every order of the threads.                         *)
(*                                                                         *)
(* IsKernel says what a program has to keep to and is proved of each one;  *)
(* IInv, the inductive invariant, follows a column from the loop of its    *)
(* thread through the tree of additions to every thread of the block, says *)
(* of each cell which instruction of its thread wrote it last, and of each *)
(* access since a barrier which instruction made it.                       *)
(***************************************************************************)
EXTENDS RowKernels, FiniteSetTheorems, WellFoundedInduction, SequenceTheorems, TLAPS

-----------------------------------------------------------------------------
(* The instructions a kernel is made of. *)
Opcodes == {"loop", "put", "sync", "fold", "syncfold", "get", "map", "target", "grab",
            "add_loss", "add_total", "put_total", "check_target", "check_max", "check_sum",
            "poison", "return"}
Checks == {"check_target", "check_max", "check_sum"}
IsBarrier(i) == i.op \in {"sync", "syncfold"}
BarrierBetween(P, m, n) == \E k \in DOMAIN P : m < k /\ k < n /\ IsBarrier(P[k])

(* The five instructions of a reduction, in their order. *)
IsReduction(P, n) ==
  /\ n + 4 <= Len(P)
  /\ P[n].op = "put" /\ P[n].red \in Reds
  /\ P[n + 1].op = "sync"
  /\ P[n + 2].op = "fold"
  /\ P[n + 3].op = "syncfold"
  /\ P[n + 4].op = "get" /\ P[n + 4].red = P[n].red

(* A barrier lies between the read of one reduction's sum and the next put *)
(* into scratch.                                                           *)
Reductions(P) ==
  /\ \A n \in DOMAIN P :
       /\ P[n].op = "put" => IsReduction(P, n)
       /\ P[n].op = "fold" => n > 2 /\ P[n - 2].op = "put"
       /\ P[n].op = "syncfold" => n > 3 /\ P[n - 3].op = "put"
       /\ P[n].op = "get" => n > 4 /\ P[n - 4].op = "put"
  /\ \A m, n \in DOMAIN P :
       /\ P[m].op = "get" /\ P[n].op = "put" /\ m < n => BarrierBetween(P, m, n)

(* Activations are read with the type of the variant, parameters as F32. *)
Operands(act) == [buf : {"x", "dout"}, ty : {act}] \cup [buf : {"gamma", "beta"}, ty : {"F32"}]

IsLoop(i, act) ==
  /\ i.extent \in {"row", "causal", "grid"}
  /\ i.reds \subseteq Reds
  /\ i.ops \in Seq(Operands(act)) /\ i.ops # <<>>
  /\ i.keep # {} => i.keep = {"out"} /\ i.extent # "grid" /\ act = "F32"
  /\ i.adds \in {{}, {"dgamma", "dbeta"}}
  /\ i.adds # {} => i.extent = "row"
IsMap(i) ==
  /\ i.out \in {"out", "x"}
  /\ i.value \in {"prob", "dx", "norm", "grad"}
  /\ i.extent \in {"row", "causal"}
IsPlain(i, act) == i.over = "row" /\ i.ops \in Seq(Operands(act))
Rescales(i, act) == i.over = i.extent /\ i.out = "out" /\ i.ops = <<Op("out", act)>>

(* Every loop of a kernel goes over the same columns, each reduction has   *)
(* one loop, and only the last loop stores its terms in the output.        *)
Loops(P, act) ==
  /\ \A n \in DOMAIN P : P[n].op = "put" =>
       \E m \in DOMAIN P : m < n /\ P[m].op = "loop" /\ P[n].red \in P[m].reds
  /\ \A m, n \in DOMAIN P : P[m].op = "loop" /\ P[n].op = "loop" =>
       /\ P[m].extent = P[n].extent
       /\ P[m].reds \cap P[n].reds # {} => m = n
       /\ P[m].keep # {} => n <= m
       /\ P[m].adds # {} /\ P[n].adds # {} => m = n
  /\ \A n \in DOMAIN P : P[n].op = "loop" => IsLoop(P[n], act)

(* A kernel has one map, after its loops and over their columns; it reads  *)
(* the operands, or the terms the last loop stored.                        *)
Maps(P, act) ==
  /\ \A m, n \in DOMAIN P :
       /\ P[m].op = "map" /\ P[n].op = "map" => m = n
       /\ P[m].op = "loop" /\ P[n].op = "map" =>
            /\ m < n /\ P[n].extent = P[m].extent
            /\ P[m].keep # {} => Rescales(P[n], act)
       /\ P[m].op \in {"check_max", "check_sum"} /\ P[n].op = "map" => m < n
  /\ \A n \in DOMAIN P : P[n].op = "map" =>
       /\ IsMap(P[n])
       /\ IsPlain(P[n], act) \/ \E m \in DOMAIN P : P[m].op = "loop" /\ P[m].keep # {}
       /\ P[n].out = "x" <=> P[1].op = "target"
       /\ P[n].value = "grad" => P[1].op = "target"

(* A kernel that reads a target checks it first, grabs the logit before    *)
(* anything is overwritten, and ends with the poisoning of a bad row.      *)
Losses(P, act) ==
  /\ \A n \in DOMAIN P :
       /\ P[n].op = "target" => n = 1 /\ P[2].op = "sync"
       /\ P[n].op = "check_target" => n = 3
       /\ P[n].op \in Checks => P[1].op = "target"
       /\ P[n].op = "grab" => P[1].op = "target" /\ n > 3 /\ P[n].ops = <<Op("x", act)>>
       /\ P[n].op = "poison" => n = Len(P) /\ P[1].op = "target" /\ P[n].out \in {{}, {"x"}}
       /\ P[n].op = "return" => n = Len(P) - 1 /\ P[1].op = "target"
       /\ P[n].op = "add_loss" =>
            P[1].op = "target" /\ \E m \in DOMAIN P : P[m].op = "grab" /\ m < n
       /\ P[n].op = "loop" /\ P[n].keep # {} => P[1].op # "target"
  /\ P[1].op = "target" =>
       /\ Len(P) > 5 /\ P[Len(P)].op = "poison" /\ P[Len(P) - 1].op = "return"
       /\ P[2].op = "sync" /\ P[3].op = "check_target"
       /\ \E n \in DOMAIN P : P[n].op = "add_loss"
       /\ P[Len(P)].out # {} <=> \E n \in DOMAIN P : P[n].op = "map"
       /\ P[Len(P)].out # {} =>
            /\ \E n \in DOMAIN P : P[n].op = "check_max"
            /\ \E n \in DOMAIN P : P[n].op = "check_sum"
  /\ \A m, n \in DOMAIN P :
       /\ P[m].op = "add_loss" /\ P[n].op = "add_loss" => m = n
       /\ P[m].op = "grab" /\ P[n].op \in Checks /\ m < n => BarrierBetween(P, m, n)
       /\ P[m].op = "grab" /\ P[n].op = "map" => m < n /\ BarrierBetween(P, m, n)
       /\ P[m].op \in Checks /\ P[n].op = "add_loss" => m < n

(* What the host clears is what the kernel adds to; a sum is passed on     *)
(* after it was read.                                                      *)
Totals(P, clears) ==
  /\ clears = {"loss"} <=> P[1].op = "target"
  /\ clears = {"dgamma", "dbeta"} <=>
       \E n \in DOMAIN P : P[n].op = "loop" /\ P[n].adds # {}
  /\ clears = {"total"} <=> \E n \in DOMAIN P : P[n].op = "add_total"
  /\ clears \in {{}, {"loss"}, {"dgamma", "dbeta"}, {"total"}}
  /\ \A m, n \in DOMAIN P :
       /\ P[m].op \in {"add_total", "put_total"} /\ P[n].op \in {"add_total", "put_total"} => m = n
       /\ P[m].op \in {"add_total", "put_total"} /\ P[n].op = "loop" =>
            P[n].extent = (IF P[m].op = "add_total" THEN "grid" ELSE "row")
  /\ \A n \in DOMAIN P : P[n].op \in {"add_total", "put_total"} =>
       /\ P[1].op # "target"
       /\ \E m \in DOMAIN P : m < n /\ P[m].op = "get" /\ P[m].red = "sum"

(* What the proofs use of a program: every one of Programs keeps to it. *)
IsKernel(P, act, clears) ==
  /\ DOMAIN P = 1..Len(P) /\ Len(P) \in Nat /\ Len(P) > 4
  /\ \A n \in DOMAIN P : P[n].op \in Opcodes
  /\ Reductions(P) /\ Loops(P, act) /\ Maps(P, act) /\ Losses(P, act) /\ Totals(P, clears)

-----------------------------------------------------------------------------
(* The threads of a block, and whether the n-th instruction is a certain   *)
(* one.                                                                    *)
BlockDim == calling.shape.threads
Is(n, op) == n \in DOMAIN Code /\ Code[n].op = op
Barrier(k) == Is(k, "sync") \/ Is(k, "syncfold")

(* The instruction n is a check that row b fails. *)
Fails(b, n) ==
  \/ Is(n, "check_target") /\ calling.targets[b] \notin Cols
  \/ Is(n, "check_max") /\ calling.rowData[b] = "infinite"
  \/ Is(n, "check_sum") /\ calling.rowData[b] = "nan"

(* The threads of row b come to n, not to the poisoning before it. *)
Reaches(b, n) == \A m \in 1..(n - 1) : ~Fails(b, m)

(* A thread has passed n on its way; it has poisoned its part of the row;  *)
(* it has passed no barrier since n.                                       *)
Past(b, t, n) == n < pc[b][t] /\ Reaches(b, n)
Poisoned(b, t) == pc[b][t] = Len(Code) + 1 /\ Is(Len(Code), "poison") /\ ~Reaches(b, Len(Code))
Since(b, t, n) == Past(b, t, n) /\ \A k \in DOMAIN Code : Barrier(k) /\ n < k => ~Past(b, t, k)

(* The columns all loops of a kernel go over; a reduction r of some        *)
(* columns, each once; the columns a slot of scratch stands for when the   *)
(* stride is m.                                                            *)
LoopExtent == CHOOSE e \in {"row", "causal", "grid"} :
                \A n \in DOMAIN Code : Code[n].op = "loop" => Code[n].extent = e
Terms(cols) == {<<c, "in">> : c \in cols}
Whole(r, cols) == [red |-> r, n |-> Cardinality(cols), of |-> Terms(cols)]
Share(b, t, m) == {c \in Extent(LoopExtent, b) : (c % BlockDim) % m = t}

-----------------------------------------------------------------------------
(* The call is one of those the backend makes. *)
SetUp ==
  /\ calling.call \in Calls
  /\ calling.shape \in calling.call.shapes
  /\ DOMAIN calling.rowData = Blocks
  /\ \A b \in Blocks : calling.rowData[b] \in {"finite", "infinite", "nan"}
  /\ \A b \in Blocks : calling.targets[b] \in Int

(* Type correctness. *)
Shapes ==
  /\ pc \in [Blocks -> [Threads -> 1..(Len(Code) + 1)]]
  /\ DOMAIN stride = Blocks /\ \A b \in Blocks : DOMAIN stride[b] = Threads
  /\ DOMAIN local = Blocks
  /\ \A b \in Blocks : DOMAIN local[b] = Threads /\ \A t \in Threads : DOMAIN local[b][t] = Reds
  /\ DOMAIN result = Blocks
  /\ \A b \in Blocks : DOMAIN result[b] = Threads /\ \A t \in Threads : DOMAIN result[b][t] = Reds
  /\ DOMAIN scratch = Blocks /\ \A b \in Blocks : DOMAIN scratch[b] = Threads
  /\ DOMAIN grabbed = Blocks
  /\ DOMAIN sharedTarget = Blocks
  /\ DOMAIN touched = Blocks
  /\ DOMAIN mem = Blocks
  /\ \A b \in Blocks : DOMAIN mem[b] = Buffers /\ \A f \in Buffers : DOMAIN mem[b][f] = Cols
  /\ DOMAIN accum = Accumulators
  /\ \A a \in {"loss", "total"} : DOMAIN accum[a] = 0..(calling.shape.cols + calling.shape.rows)
  /\ \A a \in Accumulators : Cols \subseteq DOMAIN accum[a]

(* The host launches once, and reads back when every thread has ended. *)
HostInv ==
  /\ host \in {"clear", "wait", "done"}
  /\ host = "clear" => \A b \in Blocks, t \in Threads : pc[b][t] = 1
  /\ host = "done" => GridDone

(* A thread goes on while no check has failed, and is at the poisoning or  *)
(* past it otherwise.                                                      *)
PathInv ==
  \A b \in Blocks, t \in Threads :
    \/ Reaches(b, pc[b][t]) /\ ~Is(pc[b][t], "poison")
    \/ /\ pc[b][t] \in {Len(Code), Len(Code) + 1}
       /\ Is(Len(Code), "poison") /\ ~Reaches(b, Len(Code))

(* A barrier one thread of a block has passed, every thread of the block   *)
(* has.                                                                    *)
Together ==
  \A b \in Blocks : \A t, u \in Threads : \A k \in DOMAIN Code :
    Barrier(k) /\ Past(b, t, k) => Past(b, u, k)

(* The shared target is the row's, and the logit grabbed an original one. *)
TargetInv ==
  \A b \in Blocks :
    /\ Is(1, "target") /\ Past(b, 0, 1) => sharedTarget[b] = calling.targets[b]
    /\ \A n \in DOMAIN Code : Is(n, "grab") /\ Past(b, 0, n) => grabbed[b] = "in"

(* What the loop n leaves in column c of row b, and what the map n does. *)
Kept(n, c, b) == IF c \in Extent(Code[n].extent, b) THEN "exp" ELSE "zero"
Mapped(n, c, b) == IF c \in Extent(Code[n].extent, b) THEN Code[n].value ELSE "zero"
MapWritten(b, t, f) == \E n \in DOMAIN Code : Is(n, "map") /\ Past(b, t, n) /\ At(Code[n].out) = f
LoopWritten(b, t, f) ==
  \E n \in DOMAIN Code : Is(n, "loop") /\ Past(b, t, n) /\ Code[n].keep # {} /\ At("out") = f
PoisonWritten(b, t, f) == Poisoned(b, t) /\ Code[Len(Code)].out # {} /\ f = "x"

(* A cell holds what the last instruction of its own thread that wrote it  *)
(* left there, and what it held before the launch when there is none.      *)
CellInv(b, f, c) ==
  LET t == c % BlockDim IN
  /\ \A n \in DOMAIN Code :
       Is(n, "map") /\ Past(b, t, n) /\ At(Code[n].out) = f => mem[b][f][c] = Mapped(n, c, b)
  /\ \A n \in DOMAIN Code :
       Is(n, "loop") /\ Past(b, t, n) /\ Code[n].keep # {} /\ At("out") = f
         /\ ~MapWritten(b, t, f) => mem[b][f][c] = Kept(n, c, b)
  /\ PoisonWritten(b, t, f) => mem[b][f][c] = "nan"
  /\ ~MapWritten(b, t, f) /\ ~LoopWritten(b, t, f) /\ ~PoisonWritten(b, t, f) =>
       mem[b][f][c] = IF f = "out" THEN "old" ELSE "in"
MemInv == \A b \in Blocks, f \in Buffers, c \in Cols : CellInv(b, f, c)

(* A thread's register holds its own columns, each once. *)
LocalInv ==
  \A b \in Blocks, t \in Threads, n \in DOMAIN Code : \A r \in Reds :
    Is(n, "loop") /\ r \in Code[n].reds /\ Past(b, t, n) =>
      local[b][t][r] = Whole(r, Share(b, t, BlockDim))

(* The strides a tree of additions goes through. *)
Strides == {1, 2, 4, 8, 16, 32, 64, 128, 256, 512}
Slot(b, t, n, m) == scratch[b][t] = Whole(Code[n].red, Share(b, t, m))
Folded(b, t, n) == pc[b][t] = n + 3 /\ t < stride[b][t]

(* The slot of a thread holds the columns of the round its thread has come *)
(* to: a share of twice the stride before it adds, of the stride after it  *)
(* has; the first slot holds the whole sum at the end.                     *)
TreeInv(b, t, n) ==
  /\ pc[b][t] = n + 1 => stride[b][t] = BlockDim \div 2 /\ Slot(b, t, n, BlockDim)
  /\ pc[b][t] \in {n + 2, n + 3} =>
       /\ stride[b][t] \in Strides /\ 2 * stride[b][t] <= BlockDim
       /\ \A u \in Threads : stride[b][u] = stride[b][t]
       /\ Folded(b, t, n) => Slot(b, t, n, stride[b][t])
       /\ t < 2 * stride[b][t] /\ ~Folded(b, t, n) => Slot(b, t, n, 2 * stride[b][t])
  /\ pc[b][t] = n + 4 => Slot(b, 0, n, 1)
ScratchInv ==
  \A b \in Blocks, t \in Threads, n \in DOMAIN Code : Is(n, "put") => TreeInv(b, t, n)

(* A reduction a thread has read is that of all columns. *)
ReadInv(b, t, r) ==
  /\ \A n \in DOMAIN Code : Is(n, "get") /\ Code[n].red = r /\ Past(b, t, n) =>
       result[b][t][r] = Whole(r, Extent(LoopExtent, b))
  /\ result[b][t][r] # Nothing =>
       /\ \E n \in DOMAIN Code : Is(n, "get") /\ Code[n].red = r
       /\ result[b][t][r] = Whole(r, Extent(LoopExtent, b))
ResultInv == \A b \in Blocks, t \in Threads, r \in Reds : ReadInv(b, t, r)

Verdict(b) == IF Bad(b) THEN "nan" ELSE "in"

(* The rows whose loss is added, whose part of column c's gradient is, and *)
(* whose partial sum of the grid is.                                       *)
LossRows == {b \in Blocks : Poisoned(b, 0) \/ \E n \in DOMAIN Code : Is(n, "add_loss") /\ Past(b, 0, n)}
AddedRows(c) == {b \in Blocks : \E n \in DOMAIN Code :
                   Is(n, "loop") /\ Code[n].adds # {} /\ Past(b, c % BlockDim, n)}
TotalRows == {b \in Blocks : \E n \in DOMAIN Code : Is(n, "add_total") /\ Past(b, 0, n)}
TotalCols == {c \in Cols : (c \div BlockDim) % calling.shape.rows \in TotalRows}
Verdicts(rows) == {<<b, Verdict(b)>> : b \in rows}

(* An accumulator holds exactly the rows added so far. *)
LossHeld == Holds(accum["loss"][0], Verdicts(LossRows))
GradientHeld(a, c) == Holds(accum[a][c], AddedRows(c))
TotalHeld == Holds(accum["total"][0], Terms(TotalCols))
SumHeld(b) == Holds(accum["total"][b], Terms(Cols))
AccumInv ==
  host # "clear" =>
    /\ "loss" \in calling.call.clears => LossHeld
    /\ "dgamma" \in calling.call.clears => \A a \in {"dgamma", "dbeta"}, c \in Cols : GradientHeld(a, c)
    /\ "total" \in calling.call.clears => TotalHeld
    /\ \A n \in DOMAIN Code, b \in Blocks : Is(n, "put_total") /\ Past(b, 0, n) => SumHeld(b)

(* Why the access o of thread u since the last barrier of row b was made:  *)
(* to the shared target, in a reduction, to a column of its own, or to the *)
(* target's logit.                                                         *)
TouchedTarget(b, o, u) ==
  /\ Is(1, "target") /\ o.loc = <<"target">>
  /\ \/ o.how[2] = "write" /\ u = 0 /\ pc[b][0] = 2 /\ \A v \in Threads : ~Past(b, v, 2)
     \/ o.how[2] = "read" /\ Past(b, 0, 2)
TouchedByPut(b, o, u) ==
  o.loc = <<"scratch", u>> /\ \E n \in DOMAIN Code : Is(n, "put") /\ pc[b][u] = n + 1
TouchedByFold(b, o, u) ==
  /\ \E n \in DOMAIN Code : Is(n, "put") /\ pc[b][u] = n + 3
  /\ u < stride[b][u]
  /\ o.loc = <<"scratch", u>> \/ (o.loc = <<"scratch", u + stride[b][u]>> /\ o.how[2] = "read")
TouchedByGet(b, o, u) ==
  /\ o.loc = <<"scratch", 0>> /\ o.how[2] = "read"
  /\ \E n \in DOMAIN Code : Is(n, "get") /\ Since(b, u, n)
Overwritten(b, t) == Poisoned(b, t) \/ \E n \in DOMAIN Code : Is(n, "map") /\ Past(b, t, n)
TouchedOwn(b, o, u) ==
  /\ \E f \in Buffers, c \in Cols : o.loc = <<f, c>> /\ c % BlockDim = u
  /\ Is(1, "target") /\ o.how[2] = "write" => Overwritten(b, u)
TouchedByGrab(b, o, u) ==
  /\ \E c \in Cols : o.loc = <<"x", c>>
  /\ o.how[2] = "read"
  /\ \E n \in DOMAIN Code : Is(n, "grab") /\ Since(b, u, n)
Explained(b, o, u) ==
  \/ TouchedTarget(b, o, u) \/ TouchedByPut(b, o, u) \/ TouchedByFold(b, o, u)
  \/ TouchedByGet(b, o, u) \/ TouchedOwn(b, o, u) \/ TouchedByGrab(b, o, u)
IsTouch(o) == DOMAIN o = {"loc", "how"} /\ o.how[1] \in Threads /\ o.how[2] \in {"read", "write"}

(* No access so far raced, and each one since a barrier is explained. *)
TouchInv ==
  /\ ~raced
  /\ \A b \in Blocks : \A o \in touched[b] : IsTouch(o) /\ Explained(b, o, o.how[1])

(* The inductive invariant. *)
IInv ==
  /\ SetUp /\ Shapes /\ HostInv /\ PathInv /\ Together /\ TargetInv /\ MemInv /\ LocalInv
  /\ ScratchInv /\ ResultInv /\ AccumInv /\ TouchInv

(* The instructions of Reduce as a set, and where they stand in a program. *)
ReduceSteps(red) ==
  {[op |-> "put", red |-> red], Sync, [op |-> "fold", red |-> red],
   [op |-> "syncfold", red |-> red], [op |-> "get", red |-> red]}

ReductionAt(P, n, red) ==
  /\ P[n] = [op |-> "put", red |-> red] /\ P[n + 1] = Sync
  /\ P[n + 2] = [op |-> "fold", red |-> red] /\ P[n + 3] = [op |-> "syncfold", red |-> red]
  /\ P[n + 4] = [op |-> "get", red |-> red]

(* A program of S of length k, one instruction of it, and how a program    *)
(* goes on from another.                                                   *)
Lists(P, S, k) == P \in Seq(S) /\ Len(P) = k
Has(P, n, x) == P[n] = x
With(p, x) == p \o <<x>>
Extends(P, p, k) == \A i \in 1..k : P[i] = p[i]
Follows(P, q, j, k) == \A i \in 1..k : P[j + i] = q[i]

(* Two programs one after the other. *)
LEMMA Cat == ASSUME NEW S, NEW p \in Seq(S), NEW q \in Seq(S)
  PROVE /\ p \o q \in Seq(S) /\ Len(p \o q) = Len(p) + Len(q)
        /\ \A i \in 1..Len(p) : (p \o q)[i] = p[i]
        /\ \A i \in 1..Len(q) : (p \o q)[Len(p) + i] = q[i]
  BY ConcatProperties

(* The same in terms of Lists. *)
LEMMA CatLists ==
  ASSUME NEW S, NEW p, NEW q, NEW j \in Nat, NEW k \in Nat, Lists(p, S, j), Lists(q, S, k)
  PROVE /\ Lists(p \o q, S, j + k) /\ Extends(p \o q, p, j)
        /\ Follows(p \o q, q, j, k)
  <1>1. p \in Seq(S) /\ q \in Seq(S)
    BY DEF Lists
  <1>2. /\ p \o q \in Seq(S) /\ Len(p \o q) = Len(p) + Len(q)
        /\ \A i \in 1..Len(p) : (p \o q)[i] = p[i]
        /\ \A i \in 1..Len(q) : (p \o q)[Len(p) + i] = q[i]
    BY <1>1, Cat
  <1> QED BY <1>2 DEF Lists, Extends, Follows

(* A program with one more instruction. *)
LEMMA WithOne ==
  ASSUME NEW S, NEW p, NEW k \in Nat, Lists(p, S, k), NEW x \in S
  PROVE  Lists(With(p, x), S, k + 1) /\ Extends(With(p, x), p, k) /\ With(p, x)[k + 1] = x
  <1> DEFINE q == <<x>>
  <1>1. Lists(q, S, 1) /\ q[1] = x
    BY DEF Lists
  <1>3. With(p, x) = p \o q
    BY DEF With
  <1> HIDE DEF q
  <1>2. Lists(p \o q, S, k + 1) /\ Extends(p \o q, p, k) /\ Follows(p \o q, q, k, 1)
    BY <1>1, CatLists
  <1> QED BY <1>1, <1>2, <1>3, 1 \in 1..1 DEF Follows

(* A program with one more reduction. *)
LEMMA WithReduce ==
  ASSUME NEW S, NEW p, NEW k \in Nat, Lists(p, S, k), NEW red, ReduceSteps(red) \subseteq S
  PROVE  /\ Lists(p \o Reduce(red), S, k + 5) /\ Extends(p \o Reduce(red), p, k)
         /\ ReductionAt(p \o Reduce(red), k + 1, red)
  <1>1. Lists(Reduce(red), S, 5)
    BY DEF Lists, Reduce, ReduceSteps
  <1>2. /\ Lists(p \o Reduce(red), S, k + 5) /\ Extends(p \o Reduce(red), p, k)
        /\ Follows(p \o Reduce(red), Reduce(red), k, 5)
    BY <1>1, CatLists
  <1>3. /\ Reduce(red)[1] = [op |-> "put", red |-> red] /\ Reduce(red)[2] = Sync
        /\ Reduce(red)[3] = [op |-> "fold", red |-> red]
        /\ Reduce(red)[4] = [op |-> "syncfold", red |-> red]
        /\ Reduce(red)[5] = [op |-> "get", red |-> red]
    BY DEF Reduce
  <1>4. /\ (k + 1) + 1 = k + 2 /\ (k + 1) + 2 = k + 3 /\ (k + 1) + 3 = k + 4 /\ (k + 1) + 4 = k + 5
        /\ {1, 2, 3, 4, 5} \subseteq 1..5
    OBVIOUS
  <1> QED BY <1>2, <1>3, <1>4 DEF ReductionAt, Follows

(* A reduction stays where it is when a program goes on. *)
LEMMA ExtendsKeeps ==
  ASSUME NEW p, NEW P, NEW k \in Nat, Extends(P, p, k),
         NEW n \in Nat \ {0}, n + 4 <= k, NEW red, ReductionAt(p, n, red)
  PROVE  ReductionAt(P, n, red)
  <1>1. {n, n + 1, n + 2, n + 3, n + 4} \subseteq 1..k
    OBVIOUS
  <1> QED BY <1>1 DEF ReductionAt, Extends

(* So does the last one. *)
LEMMA ReductionKept ==
  ASSUME NEW p, NEW P, NEW k \in Nat, Extends(P, p, k + 5), NEW red, ReductionAt(p, k + 1, red)
  PROVE  ReductionAt(P, k + 1, red)
  BY ExtendsKeeps, k + 5 \in Nat, k + 1 \in Nat \ {0}, (k + 1) + 4 <= k + 5

(* Going on from a program that goes on from another. *)
LEMMA ExtendsMore ==
  ASSUME NEW p, NEW P, NEW Q, NEW j \in Nat, NEW k \in Nat, k <= j,
         Extends(P, Q, j), Extends(Q, p, k)
  PROVE  Extends(P, p, k)
  <1>1. ASSUME NEW i \in 1..k PROVE P[i] = p[i]
    <2>1. i \in 1..j
      OBVIOUS
    <2> QED BY <2>1 DEF Extends
  <1> QED BY <1>1 DEF Extends

(* A program with one more reduction and the barrier after it. *)
LEMMA WithReduceReuse ==
  ASSUME NEW S, NEW p, NEW k \in Nat, Lists(p, S, k), NEW red, ReduceSteps(red) \subseteq S
  PROVE  /\ Lists(p \o ReduceAndReuse(red), S, k + 6) /\ Extends(p \o ReduceAndReuse(red), p, k)
         /\ ReductionAt(p \o ReduceAndReuse(red), k + 1, red)
         /\ Has(p \o ReduceAndReuse(red), k + 6, Sync)
  <1> DEFINE Q == p \o Reduce(red)
  <1>1. Sync \in S /\ Reduce(red) \in Seq(S) /\ p \in Seq(S)
    BY DEF Reduce, ReduceSteps, Lists
  <1>2. p \o ReduceAndReuse(red) = With(Q, Sync)
    BY <1>1, ConcatAssociative, <<Sync>> \in Seq(S) DEF ReduceAndReuse, With
  <1>3. Lists(Q, S, k + 5) /\ Extends(Q, p, k) /\ ReductionAt(Q, k + 1, red)
    BY WithReduce
  <1> HIDE DEF Q
  <1>4. ASSUME NEW n \in Nat, n = k + 5
        PROVE  /\ Lists(With(Q, Sync), S, n + 1) /\ Extends(With(Q, Sync), Q, n)
               /\ (With(Q, Sync))[n + 1] = Sync
    BY <1>1, <1>3, <1>4, WithOne
  <1>4a. /\ Lists(With(Q, Sync), S, k + 6) /\ Extends(With(Q, Sync), Q, k + 5)
         /\ (With(Q, Sync))[k + 6] = Sync
    BY <1>4, k + 5 \in Nat, (k + 5) + 1 = k + 6
  <1>5. ReductionAt(With(Q, Sync), k + 1, red)
    BY <1>3, <1>4a, ReductionKept
  <1>6. Extends(With(Q, Sync), p, k)
    <2>1. ASSUME NEW i \in 1..k PROVE With(Q, Sync)[i] = p[i]
      <3>1. i \in 1..(k + 5)
        OBVIOUS
      <3> QED BY <1>3, <1>4a, <2>1, <3>1 DEF Extends
    <2> QED BY <2>1 DEF Extends
  <1> QED BY <1>2, <1>4a, <1>5, <1>6 DEF Has

(* The five forms of the programs, instruction by instruction. *)
OneReductionListed(P, l, m, r) ==
  /\ DOMAIN P = 1..7 /\ Len(P) = 7 /\ P[1] = l /\ ReductionAt(P, 2, r) /\ P[7] = m

TwoReductionsListed(P, l1, l2, m, r1, r2) ==
  /\ DOMAIN P = 1..14 /\ Len(P) = 14 /\ P[1] = l1 /\ ReductionAt(P, 2, r1)
  /\ P[7] = Sync /\ P[8] = l2 /\ ReductionAt(P, 9, r2) /\ P[14] = m

FourReductionsListed(P, l1, l2, l3, m, r1, r2, r3, r4) ==
  /\ DOMAIN P = 1..27 /\ Len(P) = 27 /\ P[1] = l1 /\ ReductionAt(P, 2, r1)
  /\ P[7] = Sync /\ P[8] = l2 /\ ReductionAt(P, 9, r2) /\ P[14] = Sync /\ P[15] = l3
  /\ ReductionAt(P, 16, r3) /\ P[21] = Sync /\ ReductionAt(P, 22, r4) /\ P[27] = m

LossAndGradientListed(P, i1, i3, g, l1, c1, l2, c2, a, m, z, p, r1, r2) ==
  /\ DOMAIN P = 1..23 /\ Len(P) = 23 /\ P[1] = i1 /\ P[2] = Sync /\ P[3] = i3
  /\ P[4] = g /\ P[5] = l1 /\ ReductionAt(P, 6, r1) /\ P[11] = Sync /\ P[12] = c1
  /\ P[13] = l2 /\ ReductionAt(P, 14, r2) /\ P[19] = c2 /\ P[20] = a /\ P[21] = m
  /\ P[22] = z /\ P[23] = p

LossAloneListed(P, i1, i3, l1, l2, g, a, z, p, r1, r2) ==
  /\ DOMAIN P = 1..20 /\ Len(P) = 20 /\ P[1] = i1 /\ P[2] = Sync /\ P[3] = i3
  /\ P[4] = l1 /\ ReductionAt(P, 5, r1) /\ P[10] = Sync /\ P[11] = l2
  /\ ReductionAt(P, 12, r2) /\ P[17] = g /\ P[18] = a /\ P[19] = z /\ P[20] = p

(* The programs of a loop, a reduction and what is done with it. *)
LEMMA OneReduction ==
  ASSUME NEW l, NEW m, NEW r,
         NEW P, P = <<l>> \o Reduce(r) \o <<m>>
  PROVE  OneReductionListed(P, l, m, r)
  <1> DEFINE S == {l, m} \cup ReduceSteps(r)
             q0 == <<l>>
             P1 == q0
             P2 == P1 \o Reduce(r)
             P3 == With(P2, m)
  <1>s. /\ {l, m} \subseteq S
        /\ ReduceSteps(r) \subseteq S
    OBVIOUS
  <1>p. P = P3
    BY DEF With
  <1> HIDE DEF S
  <1>q0. Lists(q0, S, 1)
    BY <1>s DEF Lists
  <1>v0. q0[1] = l
    OBVIOUS
  <1> HIDE DEF q0
  <1>1. Lists(P1, S, 1) /\ P1[1] = l
    BY <1>q0, <1>v0
  <1> HIDE DEF P1
  <1>2. Lists(P2, S, 6) /\ Extends(P2, P1, 1) /\ ReductionAt(P2, 2, r)
    BY <1>1, <1>s, WithReduce
  <1> HIDE DEF P2
  <1>3. Lists(P3, S, 7) /\ Extends(P3, P2, 6) /\ P3[7] = m
    BY <1>2, <1>s, WithOne
  <1> HIDE DEF P3
  <1>d. DOMAIN P3 = 1..7 /\ Len(P3) = 7
    BY <1>3 DEF Lists
  <1>e1. Extends(P3, P1, 1)
    BY <1>3, <1>2, ExtendsMore
  <1>f1. P3[1] = l
    BY <1>1, <1>e1 DEF Extends
  <1>f2. ReductionAt(P3, 2, r)
    BY <1>2, <1>3, ExtendsKeeps
  <1>f3. P3[7] = m
    BY <1>3 DEF Extends
  <1> QED BY <1>p, <1>d, <1>f1, <1>f2, <1>f3 DEF OneReductionListed

(* The programs of two reductions. *)
LEMMA TwoReductions ==
  ASSUME NEW l1, NEW l2, NEW m, NEW r1, NEW r2,
         NEW P, P = <<l1>> \o ReduceAndReuse(r1) \o <<l2>> \o Reduce(r2) \o <<m>>
  PROVE  TwoReductionsListed(P, l1, l2, m, r1, r2)
  <1> DEFINE S == {l1, l2, m} \cup ReduceSteps(r1) \cup ReduceSteps(r2)
             q0 == <<l1>>
             P1 == q0
             P2 == P1 \o ReduceAndReuse(r1)
             P3 == With(P2, l2)
             P4 == P3 \o Reduce(r2)
             P5 == With(P4, m)
  <1>s. /\ {l1, l2, m} \subseteq S
        /\ ReduceSteps(r1) \subseteq S
        /\ ReduceSteps(r2) \subseteq S
    OBVIOUS
  <1>p. P = P5
    BY DEF With
  <1> HIDE DEF S
  <1>q0. Lists(q0, S, 1)
    BY <1>s DEF Lists
  <1>v0. q0[1] = l1
    OBVIOUS
  <1> HIDE DEF q0
  <1>1. Lists(P1, S, 1) /\ P1[1] = l1
    BY <1>q0, <1>v0
  <1> HIDE DEF P1
  <1>2. Lists(P2, S, 7) /\ Extends(P2, P1, 1) /\ ReductionAt(P2, 2, r1) /\ Has(P2, 7, Sync)
    BY <1>1, <1>s, WithReduceReuse
  <1> HIDE DEF P2
  <1>3. Lists(P3, S, 8) /\ Extends(P3, P2, 7) /\ P3[8] = l2
    BY <1>2, <1>s, WithOne
  <1> HIDE DEF P3
  <1>4. Lists(P4, S, 13) /\ Extends(P4, P3, 8) /\ ReductionAt(P4, 9, r2)
    BY <1>3, <1>s, WithReduce
  <1> HIDE DEF P4
  <1>5. Lists(P5, S, 14) /\ Extends(P5, P4, 13) /\ P5[14] = m
    BY <1>4, <1>s, WithOne
  <1> HIDE DEF P5
  <1>d. DOMAIN P5 = 1..14 /\ Len(P5) = 14
    BY <1>5 DEF Lists
  <1>e3. Extends(P5, P3, 8)
    BY <1>5, <1>4, ExtendsMore
  <1>e2. Extends(P5, P2, 7)
    BY <1>e3, <1>3, ExtendsMore
  <1>e1. Extends(P5, P1, 1)
    BY <1>e2, <1>2, ExtendsMore
  <1>f1. P5[1] = l1
    BY <1>1, <1>e1 DEF Extends
  <1>f2. ReductionAt(P5, 2, r1)
    BY <1>2, <1>e2, ExtendsKeeps
  <1>f3. P5[7] = Sync
    BY <1>2, <1>e2 DEF Extends, Has
  <1>f4. P5[8] = l2
    BY <1>3, <1>e3 DEF Extends
  <1>f5. ReductionAt(P5, 9, r2)
    BY <1>4, <1>5, ExtendsKeeps
  <1>f6. P5[14] = m
    BY <1>5 DEF Extends
  <1> QED BY <1>p, <1>d, <1>f1, <1>f2, <1>f3, <1>f4, <1>f5, <1>f6 DEF TwoReductionsListed

(* The program of four reductions: the backward pass of a layer norm. *)
LEMMA FourReductions ==
  ASSUME NEW l1, NEW l2, NEW l3, NEW m, NEW r1, NEW r2, NEW r3, NEW r4,
         NEW P, P = <<l1>> \o ReduceAndReuse(r1) \o <<l2>> \o ReduceAndReuse(r2)
                     \o <<l3>> \o ReduceAndReuse(r3) \o Reduce(r4) \o <<m>>
  PROVE  FourReductionsListed(P, l1, l2, l3, m, r1, r2, r3, r4)
  <1> DEFINE S == {l1, l2, l3, m} \cup ReduceSteps(r1) \cup ReduceSteps(r2) \cup ReduceSteps(r3) \cup ReduceSteps(r4)
             q0 == <<l1>>
             P1 == q0
             P2 == P1 \o ReduceAndReuse(r1)
             P3 == With(P2, l2)
             P4 == P3 \o ReduceAndReuse(r2)
             P5 == With(P4, l3)
             P6 == P5 \o ReduceAndReuse(r3)
             P7 == P6 \o Reduce(r4)
             P8 == With(P7, m)
  <1>s. /\ {l1, l2, l3, m} \subseteq S
        /\ ReduceSteps(r1) \subseteq S
        /\ ReduceSteps(r2) \subseteq S
        /\ ReduceSteps(r3) \subseteq S
        /\ ReduceSteps(r4) \subseteq S
    OBVIOUS
  <1>p. P = P8
    BY DEF With
  <1> HIDE DEF S
  <1>q0. Lists(q0, S, 1)
    BY <1>s DEF Lists
  <1>v0. q0[1] = l1
    OBVIOUS
  <1> HIDE DEF q0
  <1>1. Lists(P1, S, 1) /\ P1[1] = l1
    BY <1>q0, <1>v0
  <1> HIDE DEF P1
  <1>2. Lists(P2, S, 7) /\ Extends(P2, P1, 1) /\ ReductionAt(P2, 2, r1) /\ Has(P2, 7, Sync)
    BY <1>1, <1>s, WithReduceReuse
  <1> HIDE DEF P2
  <1>3. Lists(P3, S, 8) /\ Extends(P3, P2, 7) /\ P3[8] = l2
    BY <1>2, <1>s, WithOne
  <1> HIDE DEF P3
  <1>4. Lists(P4, S, 14) /\ Extends(P4, P3, 8) /\ ReductionAt(P4, 9, r2) /\ Has(P4, 14, Sync)
    BY <1>3, <1>s, WithReduceReuse
  <1> HIDE DEF P4
  <1>5. Lists(P5, S, 15) /\ Extends(P5, P4, 14) /\ P5[15] = l3
    BY <1>4, <1>s, WithOne
  <1> HIDE DEF P5
  <1>6. Lists(P6, S, 21) /\ Extends(P6, P5, 15) /\ ReductionAt(P6, 16, r3) /\ Has(P6, 21, Sync)
    BY <1>5, <1>s, WithReduceReuse
  <1> HIDE DEF P6
  <1>7. Lists(P7, S, 26) /\ Extends(P7, P6, 21) /\ ReductionAt(P7, 22, r4)
    BY <1>6, <1>s, WithReduce
  <1> HIDE DEF P7
  <1>8. Lists(P8, S, 27) /\ Extends(P8, P7, 26) /\ P8[27] = m
    BY <1>7, <1>s, WithOne
  <1> HIDE DEF P8
  <1>d. DOMAIN P8 = 1..27 /\ Len(P8) = 27
    BY <1>8 DEF Lists
  <1>e6. Extends(P8, P6, 21)
    BY <1>8, <1>7, ExtendsMore
  <1>e5. Extends(P8, P5, 15)
    BY <1>e6, <1>6, ExtendsMore
  <1>e4. Extends(P8, P4, 14)
    BY <1>e5, <1>5, ExtendsMore
  <1>e3. Extends(P8, P3, 8)
    BY <1>e4, <1>4, ExtendsMore
  <1>e2. Extends(P8, P2, 7)
    BY <1>e3, <1>3, ExtendsMore
  <1>e1. Extends(P8, P1, 1)
    BY <1>e2, <1>2, ExtendsMore
  <1>f1. P8[1] = l1
    BY <1>1, <1>e1 DEF Extends
  <1>f2. ReductionAt(P8, 2, r1)
    BY <1>2, <1>e2, ExtendsKeeps
  <1>f3. P8[7] = Sync
    BY <1>2, <1>e2 DEF Extends, Has
  <1>f4. P8[8] = l2
    BY <1>3, <1>e3 DEF Extends
  <1>f5. ReductionAt(P8, 9, r2)
    BY <1>4, <1>e4, ExtendsKeeps
  <1>f6. P8[14] = Sync
    BY <1>4, <1>e4 DEF Extends, Has
  <1>f7. P8[15] = l3
    BY <1>5, <1>e5 DEF Extends
  <1>f8. ReductionAt(P8, 16, r3)
    BY <1>6, <1>e6, ExtendsKeeps
  <1>f9. P8[21] = Sync
    BY <1>6, <1>e6 DEF Extends, Has
  <1>f10. ReductionAt(P8, 22, r4)
    BY <1>7, <1>8, ExtendsKeeps
  <1>f11. P8[27] = m
    BY <1>8 DEF Extends
  <1> QED BY <1>p, <1>d, <1>f1, <1>f2, <1>f3, <1>f4, <1>f5, <1>f6, <1>f7, <1>f8, <1>f9, <1>f10, <1>f11 DEF FourReductionsListed

(* The program of the loss with its gradient. *)
LEMMA LossAndGradient ==
  ASSUME NEW i1, NEW i3, NEW g, NEW l1, NEW c1, NEW l2, NEW c2, NEW a, NEW m, NEW z, NEW p, NEW r1, NEW r2,
         NEW P, P = <<i1, Sync, i3>> \o <<g, l1>> \o ReduceAndReuse(r1) \o <<c1>>
                     \o <<l2>> \o Reduce(r2) \o <<c2, a, m, z, p>>
  PROVE  LossAndGradientListed(P, i1, i3, g, l1, c1, l2, c2, a, m, z, p, r1, r2)
  <1> DEFINE S == {i1, i3, g, l1, c1, l2, c2, a, m, z, p, Sync} \cup ReduceSteps(r1) \cup ReduceSteps(r2)
             q0 == <<i1, Sync, i3>>
             q1 == <<g, l1>>
             q6 == <<c2, a, m, z, p>>
             P1 == q0
             P2 == P1 \o q1
             P3 == P2 \o ReduceAndReuse(r1)
             P4 == With(P3, c1)
             P5 == With(P4, l2)
             P6 == P5 \o Reduce(r2)
             P7 == P6 \o q6
  <1>s. /\ {i1, i3, g, l1, c1, l2, c2, a, m, z, p, Sync} \subseteq S
        /\ ReduceSteps(r1) \subseteq S
        /\ ReduceSteps(r2) \subseteq S
    OBVIOUS
  <1>p. P = P7
    BY DEF With
  <1> HIDE DEF S
  <1>q0. Lists(q0, S, 3)
    BY <1>s DEF Lists
  <1>v0. q0[1] = i1 /\ q0[2] = Sync /\ q0[3] = i3
    OBVIOUS
  <1>q1. Lists(q1, S, 2)
    BY <1>s DEF Lists
  <1>v1. q1[1] = g /\ q1[2] = l1
    OBVIOUS
  <1>q6. Lists(q6, S, 5)
    BY <1>s DEF Lists
  <1>v6. q6[1] = c2 /\ q6[2] = a /\ q6[3] = m /\ q6[4] = z /\ q6[5] = p
    OBVIOUS
  <1> HIDE DEF q0, q1, q6
  <1>1. Lists(P1, S, 3) /\ P1[1] = i1 /\ P1[2] = Sync /\ P1[3] = i3
    BY <1>q0, <1>v0
  <1> HIDE DEF P1
  <1>2. Lists(P2, S, 5) /\ Extends(P2, P1, 3) /\ Follows(P2, q1, 3, 2)
    <2>1. Lists(P1, S, 3)
      BY <1>1
    <2>2. Lists(P2, S, 3 + 2) /\ Extends(P2, P1, 3) /\ Follows(P2, q1, 3, 2)
      BY <2>1, <1>q1, CatLists, 3 \in Nat, 2 \in Nat
    <2> QED BY <2>2
  <1> HIDE DEF P2
  <1>3. Lists(P3, S, 11) /\ Extends(P3, P2, 5) /\ ReductionAt(P3, 6, r1) /\ Has(P3, 11, Sync)
    BY <1>2, <1>s, WithReduceReuse
  <1> HIDE DEF P3
  <1>4. Lists(P4, S, 12) /\ Extends(P4, P3, 11) /\ P4[12] = c1
    BY <1>3, <1>s, WithOne
  <1> HIDE DEF P4
  <1>5. Lists(P5, S, 13) /\ Extends(P5, P4, 12) /\ P5[13] = l2
    BY <1>4, <1>s, WithOne
  <1> HIDE DEF P5
  <1>6. Lists(P6, S, 18) /\ Extends(P6, P5, 13) /\ ReductionAt(P6, 14, r2)
    BY <1>5, <1>s, WithReduce
  <1> HIDE DEF P6
  <1>7. Lists(P7, S, 23) /\ Extends(P7, P6, 18) /\ Follows(P7, q6, 18, 5)
    <2>1. Lists(P6, S, 18)
      BY <1>6
    <2>2. Lists(P7, S, 18 + 5) /\ Extends(P7, P6, 18) /\ Follows(P7, q6, 18, 5)
      BY <2>1, <1>q6, CatLists, 18 \in Nat, 5 \in Nat
    <2> QED BY <2>2
  <1> HIDE DEF P7
  <1>d. DOMAIN P7 = 1..23 /\ Len(P7) = 23
    BY <1>7 DEF Lists
  <1>e5. Extends(P7, P5, 13)
    BY <1>7, <1>6, ExtendsMore
  <1>e4. Extends(P7, P4, 12)
    BY <1>e5, <1>5, ExtendsMore
  <1>e3. Extends(P7, P3, 11)
    BY <1>e4, <1>4, ExtendsMore
  <1>e2. Extends(P7, P2, 5)
    BY <1>e3, <1>3, ExtendsMore
  <1>e1. Extends(P7, P1, 3)
    BY <1>e2, <1>2, ExtendsMore
  <1>f1. P7[1] = i1
    BY <1>1, <1>e1 DEF Extends
  <1>f2. P7[2] = Sync
    BY <1>1, <1>e1 DEF Extends
  <1>f3. P7[3] = i3
    BY <1>1, <1>e1 DEF Extends
  <1>f4. P7[4] = g
    <2>1. P2[4] = g
      BY <1>2, <1>v1, 1 \in 1..2 DEF Follows
    <2> QED BY <2>1, <1>e2 DEF Extends
  <1>f5. P7[5] = l1
    <2>1. P2[5] = l1
      BY <1>2, <1>v1, 2 \in 1..2 DEF Follows
    <2> QED BY <2>1, <1>e2 DEF Extends
  <1>f6. ReductionAt(P7, 6, r1)
    BY <1>3, <1>e3, ExtendsKeeps
  <1>f7. P7[11] = Sync
    BY <1>3, <1>e3 DEF Extends, Has
  <1>f8. P7[12] = c1
    BY <1>4, <1>e4 DEF Extends
  <1>f9. P7[13] = l2
    BY <1>5, <1>e5 DEF Extends
  <1>f10. ReductionAt(P7, 14, r2)
    BY <1>6, <1>7, ExtendsKeeps
  <1>f11. P7[19] = c2
    <2>1. P7[19] = c2
      BY <1>7, <1>v6, 1 \in 1..5 DEF Follows
    <2> QED BY <2>1 DEF Extends
  <1>f12. P7[20] = a
    <2>1. P7[20] = a
      BY <1>7, <1>v6, 2 \in 1..5 DEF Follows
    <2> QED BY <2>1 DEF Extends
  <1>f13. P7[21] = m
    <2>1. P7[21] = m
      BY <1>7, <1>v6, 3 \in 1..5 DEF Follows
    <2> QED BY <2>1 DEF Extends
  <1>f14. P7[22] = z
    <2>1. P7[22] = z
      BY <1>7, <1>v6, 4 \in 1..5 DEF Follows
    <2> QED BY <2>1 DEF Extends
  <1>f15. P7[23] = p
    <2>1. P7[23] = p
      BY <1>7, <1>v6, 5 \in 1..5 DEF Follows
    <2> QED BY <2>1 DEF Extends
  <1> QED BY <1>p, <1>d, <1>f1, <1>f2, <1>f3, <1>f4, <1>f5, <1>f6, <1>f7, <1>f8, <1>f9, <1>f10, <1>f11, <1>f12, <1>f13, <1>f14, <1>f15 DEF LossAndGradientListed

(* The program of the loss alone. *)
LEMMA LossAlone ==
  ASSUME NEW i1, NEW i3, NEW l1, NEW l2, NEW g, NEW a, NEW z, NEW p, NEW r1, NEW r2,
         NEW P, P = <<i1, Sync, i3>> \o <<l1>> \o ReduceAndReuse(r1) \o <<l2>>
                     \o Reduce(r2) \o <<g, a, z, p>>
  PROVE  LossAloneListed(P, i1, i3, l1, l2, g, a, z, p, r1, r2)
  <1> DEFINE S == {i1, i3, l1, l2, g, a, z, p, Sync} \cup ReduceSteps(r1) \cup ReduceSteps(r2)
             q0 == <<i1, Sync, i3>>
             q5 == <<g, a, z, p>>
             P1 == q0
             P2 == With(P1, l1)
             P3 == P2 \o ReduceAndReuse(r1)
             P4 == With(P3, l2)
             P5 == P4 \o Reduce(r2)
             P6 == P5 \o q5
  <1>s. /\ {i1, i3, l1, l2, g, a, z, p, Sync} \subseteq S
        /\ ReduceSteps(r1) \subseteq S
        /\ ReduceSteps(r2) \subseteq S
    OBVIOUS
  <1>p. P = P6
    BY DEF With
  <1> HIDE DEF S
  <1>q0. Lists(q0, S, 3)
    BY <1>s DEF Lists
  <1>v0. q0[1] = i1 /\ q0[2] = Sync /\ q0[3] = i3
    OBVIOUS
  <1>q5. Lists(q5, S, 4)
    BY <1>s DEF Lists
  <1>v5. q5[1] = g /\ q5[2] = a /\ q5[3] = z /\ q5[4] = p
    OBVIOUS
  <1> HIDE DEF q0, q5
  <1>1. Lists(P1, S, 3) /\ P1[1] = i1 /\ P1[2] = Sync /\ P1[3] = i3
    BY <1>q0, <1>v0
  <1> HIDE DEF P1
  <1>2. Lists(P2, S, 4) /\ Extends(P2, P1, 3) /\ P2[4] = l1
    BY <1>1, <1>s, WithOne
  <1> HIDE DEF P2
  <1>3. Lists(P3, S, 10) /\ Extends(P3, P2, 4) /\ ReductionAt(P3, 5, r1) /\ Has(P3, 10, Sync)
    BY <1>2, <1>s, WithReduceReuse
  <1> HIDE DEF P3
  <1>4. Lists(P4, S, 11) /\ Extends(P4, P3, 10) /\ P4[11] = l2
    BY <1>3, <1>s, WithOne
  <1> HIDE DEF P4
  <1>5. Lists(P5, S, 16) /\ Extends(P5, P4, 11) /\ ReductionAt(P5, 12, r2)
    BY <1>4, <1>s, WithReduce
  <1> HIDE DEF P5
  <1>6. Lists(P6, S, 20) /\ Extends(P6, P5, 16) /\ Follows(P6, q5, 16, 4)
    <2>1. Lists(P5, S, 16)
      BY <1>5
    <2>2. Lists(P6, S, 16 + 4) /\ Extends(P6, P5, 16) /\ Follows(P6, q5, 16, 4)
      BY <2>1, <1>q5, CatLists, 16 \in Nat, 4 \in Nat
    <2> QED BY <2>2
  <1> HIDE DEF P6
  <1>d. DOMAIN P6 = 1..20 /\ Len(P6) = 20
    BY <1>6 DEF Lists
  <1>e4. Extends(P6, P4, 11)
    BY <1>6, <1>5, ExtendsMore
  <1>e3. Extends(P6, P3, 10)
    BY <1>e4, <1>4, ExtendsMore
  <1>e2. Extends(P6, P2, 4)
    BY <1>e3, <1>3, ExtendsMore
  <1>e1. Extends(P6, P1, 3)
    BY <1>e2, <1>2, ExtendsMore
  <1>f1. P6[1] = i1
    BY <1>1, <1>e1 DEF Extends
  <1>f2. P6[2] = Sync
    BY <1>1, <1>e1 DEF Extends
  <1>f3. P6[3] = i3
    BY <1>1, <1>e1 DEF Extends
  <1>f4. P6[4] = l1
    BY <1>2, <1>e2 DEF Extends
  <1>f5. ReductionAt(P6, 5, r1)
    BY <1>3, <1>e3, ExtendsKeeps
  <1>f6. P6[10] = Sync
    BY <1>3, <1>e3 DEF Extends, Has
  <1>f7. P6[11] = l2
    BY <1>4, <1>e4 DEF Extends
  <1>f8. ReductionAt(P6, 12, r2)
    BY <1>5, <1>6, ExtendsKeeps
  <1>f9. P6[17] = g
    <2>1. P6[17] = g
      BY <1>6, <1>v5, 1 \in 1..4 DEF Follows
    <2> QED BY <2>1 DEF Extends
  <1>f10. P6[18] = a
    <2>1. P6[18] = a
      BY <1>6, <1>v5, 2 \in 1..4 DEF Follows
    <2> QED BY <2>1 DEF Extends
  <1>f11. P6[19] = z
    <2>1. P6[19] = z
      BY <1>6, <1>v5, 3 \in 1..4 DEF Follows
    <2> QED BY <2>1 DEF Extends
  <1>f12. P6[20] = p
    <2>1. P6[20] = p
      BY <1>6, <1>v5, 4 \in 1..4 DEF Follows
    <2> QED BY <2>1 DEF Extends
  <1> QED BY <1>p, <1>d, <1>f1, <1>f2, <1>f3, <1>f4, <1>f5, <1>f6, <1>f7, <1>f8, <1>f9, <1>f10, <1>f11, <1>f12 DEF LossAloneListed

(* The softmax of a row, causal or not, in both variants is a kernel. *)
LEMMA SoftmaxIsKernel ==
  ASSUME NEW act \in {"F32", "BF16"}, NEW extent \in {"row", "causal"}
  PROVE  IsKernel(Softmax(act, extent), act, {})
  <1> DEFINE P == Softmax(act, extent)
             l1 == Accumulate("max", <<Op("x", act)>>, extent)
             l2 == Loop({"sum"}, <<Op("x", act)>>, extent, IF act = "F32" THEN {"out"} ELSE {}, {})
             m == IF act = "F32" THEN MapOver(extent, <<Op("out", act)>>, "out", extent, "prob")
                                 ELSE Map(<<Op("x", act)>>, "out", extent, "prob")
  <1>1. P = <<l1>> \o ReduceAndReuse("max") \o <<l2>> \o Reduce("sum") \o <<m>>
    BY DEF Softmax
  <1>ox. <<Op("x", act)>> \in Seq(Operands(act)) /\ <<Op("x", act)>> # <<>>
    BY DEF Op, Operands
  <1>l. /\ l1.op = "loop" /\ l1.reds = {"max"} /\ l1.extent = extent
        /\ l1.keep = {} /\ l1.adds = {}
        /\ l2.op = "loop" /\ l2.reds = {"sum"} /\ l2.extent = extent
        /\ l2.keep = (IF act = "F32" THEN {"out"} ELSE {}) /\ l2.adds = {}
    BY DEF Accumulate, Loop
  <1>i. IsLoop(l1, act) /\ IsLoop(l2, act)
    <2>1. l1.ops = <<Op("x", act)>> /\ l2.ops = <<Op("x", act)>>
      BY DEF Accumulate, Loop
    <2>2. (l2.keep = {"out"} /\ act = "F32") \/ l2.keep = {}
      BY <1>l
    <2> HIDE DEF l1, l2
    <2>3. extent \in {"row", "causal", "grid"} /\ {"max", "sum"} \subseteq Reds /\ extent # "grid"
      BY DEF Reds
    <2>l1. IsLoop(l1, act)
      BY <1>l, <1>ox, <2>1, <2>3 DEF IsLoop
    <2>l2. IsLoop(l2, act)
      BY <1>l, <1>ox, <2>1, <2>2, <2>3 DEF IsLoop
    <2> QED BY <2>l1, <2>l2
  <1>m. /\ m.op = "map" /\ m.out = "out" /\ m.extent = extent /\ m.value = "prob"
        /\ act = "F32" => m.over = extent /\ m.ops = <<Op("out", act)>>
        /\ act = "BF16" => m.over = "row" /\ m.ops = <<Op("x", act)>>
    BY DEF Map, MapOver
  <1>k. IsMap(m)
    BY <1>m DEF IsMap
  <1>r. IF act = "F32" THEN Rescales(m, act) ELSE IsPlain(m, act)
    BY <1>m, <1>ox DEF Rescales, IsPlain
  <1> HIDE DEF P, l1, l2, m
  <1>1a. TwoReductionsListed(P, l1, l2, m, "max", "sum")
    BY <1>1, TwoReductions
  <1>2. /\ DOMAIN P = 1..14 /\ Len(P) = 14 /\ P[1] = l1 /\ ReductionAt(P, 2, "max")
        /\ P[7] = Sync /\ P[8] = l2 /\ ReductionAt(P, 9, "sum") /\ P[14] = m
    BY <1>1a DEF TwoReductionsListed
  <1>3. /\ P[1].op = "loop" /\ P[2].op = "put" /\ P[3].op = "sync" /\ P[4].op = "fold"
        /\ P[5].op = "syncfold" /\ P[6].op = "get" /\ P[7].op = "sync" /\ P[8].op = "loop"
        /\ P[9].op = "put" /\ P[10].op = "sync" /\ P[11].op = "fold" /\ P[12].op = "syncfold"
        /\ P[13].op = "get" /\ P[14].op = "map" /\ P[2].red = "max" /\ P[6].red = "max"
        /\ P[9].red = "sum" /\ P[13].red = "sum"
    BY <1>2, <1>l, <1>m DEF ReductionAt, Sync, Step
  <1>4. \A n \in DOMAIN P :
          /\ P[n].op \in Opcodes
          /\ P[n].op \in {"fold", "get", "loop", "map", "put", "sync", "syncfold"}
          /\ P[n].op = "fold" => n \in {4, 11}
          /\ P[n].op = "get" => n \in {6, 13}
          /\ P[n].op = "loop" => n \in {1, 8}
          /\ P[n].op = "map" => n = 14
          /\ P[n].op = "put" => n \in {2, 9}
          /\ P[n].op = "syncfold" => n \in {5, 12}
    BY <1>2, <1>3 DEF Opcodes
  <1>5. Reductions(P)
    BY <1>2, <1>3, <1>4 DEF Reductions, IsReduction, BarrierBetween, IsBarrier, Reds
  <1>6. Loops(P, act)
    <2>1. \A n \in DOMAIN P : P[n].op = "put" =>
            \E k \in DOMAIN P : k < n /\ P[k].op = "loop" /\ P[n].red \in P[k].reds
      BY <1>2, <1>3, <1>4, <1>l
    <2>2. ASSUME NEW j \in DOMAIN P, NEW n \in DOMAIN P, P[j].op = "loop", P[n].op = "loop"
          PROVE  /\ P[j].extent = P[n].extent
                 /\ P[j].reds \cap P[n].reds # {} => j = n
                 /\ P[j].keep # {} => n <= j
                 /\ P[j].adds # {} /\ P[n].adds # {} => j = n
      BY <1>2, <1>4, <1>l, <2>2
    <2>3. \A n \in DOMAIN P : P[n].op = "loop" => IsLoop(P[n], act)
      BY <1>2, <1>4, <1>i
    <2> QED BY <2>1, <2>2, <2>3 DEF Loops
  <1>7. Maps(P, act)
    <2>1. ASSUME NEW j \in DOMAIN P, NEW n \in DOMAIN P, P[j].op = "loop", P[n].op = "map"
          PROVE  /\ j < n /\ P[n].extent = P[j].extent
                 /\ P[j].keep # {} => Rescales(P[n], act)
      BY <1>2, <1>4, <1>l, <1>m, <1>r, <2>1
    <2>2. ASSUME NEW n \in DOMAIN P, P[n].op = "map"
          PROVE  /\ IsMap(P[n])
                 /\ IsPlain(P[n], act) \/ \E k \in DOMAIN P : P[k].op = "loop" /\ P[k].keep # {}
                 /\ P[n].out = "x" <=> P[1].op = "target"
                 /\ P[n].value = "grad" => P[1].op = "target"
      <3>1. n = 14 /\ P[n] = m
        BY <1>2, <1>4, <2>2
      <3>2. IsPlain(m, act) \/ \E k \in DOMAIN P : P[k].op = "loop" /\ P[k].keep # {}
        BY <1>2, <1>3, <1>l, <1>r
      <3> QED BY <1>3, <1>k, <1>m, <3>1, <3>2
    <2>3. \A j, n \in DOMAIN P :
            /\ P[j].op = "map" /\ P[n].op = "map" => j = n
            /\ P[j].op \in {"check_max", "check_sum"} /\ P[n].op = "map" => j < n
      BY <1>4
    <2> QED BY <2>1, <2>2, <2>3 DEF Maps
  <1>8. Losses(P, act)
    <2>1. /\ P[1].op # "target"
          /\ \A n \in DOMAIN P :
               P[n].op \notin {"target", "check_target", "check_max", "check_sum", "grab", "poison",
                             "return", "add_loss"}
      BY <1>3, <1>4
    <2> QED BY <2>1 DEF Losses, Checks
  <1>9. Totals(P, {})
    BY <1>2, <1>3, <1>4, <1>l DEF Totals
  <1> QED BY <1>2, <1>4, <1>5, <1>6, <1>7, <1>8, <1>9 DEF IsKernel, P

(* So is its backward pass. *)
LEMMA SoftmaxBackwardIsKernel ==
  ASSUME NEW act \in {"F32", "BF16"}, NEW extent \in {"row", "causal"}
  PROVE  IsKernel(SoftmaxBackward(act, extent), act, {})
  <1> DEFINE P == SoftmaxBackward(act, extent)
             l == Accumulate("dot", <<Op("x", act), Op("dout", act)>>, extent)
             m == Map(<<Op("x", act), Op("dout", act)>>, "out", extent, "dx")
  <1>1. P = <<l>> \o Reduce("dot") \o <<m>>
    BY DEF SoftmaxBackward
  <1>ox. <<Op("x", act), Op("dout", act)>> \in Seq(Operands(act)) /\ <<Op("x", act), Op("dout", act)>> # <<>>
    BY DEF Op, Operands
  <1>l. /\ l.op = "loop" /\ l.reds = {"dot"} /\ l.extent = extent
        /\ l.keep = {} /\ l.adds = {}
    BY DEF Accumulate, Loop
  <1>i. IsLoop(l, act)
    <2>1. l.ops = <<Op("x", act), Op("dout", act)>>
      BY DEF Accumulate, Loop
    <2> HIDE DEF l
    <2>3. extent \in {"row", "causal", "grid"} /\ {"dot"} \subseteq Reds
      BY DEF Reds
    <2>l1. IsLoop(l, act)
      BY <1>l, <1>ox, <2>1, <2>3 DEF IsLoop
    <2> QED BY <2>l1
  <1>m. /\ m.op = "map" /\ m.out = "out" /\ m.extent = extent /\ m.value = "dx"
        /\ m.over = "row" /\ m.ops = <<Op("x", act), Op("dout", act)>>
    BY DEF Map, MapOver
  <1>k. IsMap(m)
    BY <1>m DEF IsMap
  <1>r. IsPlain(m, act)
    BY <1>m, <1>ox DEF IsPlain
  <1> HIDE DEF P, l, m
  <1>1a. OneReductionListed(P, l, m, "dot")
    BY <1>1, OneReduction
  <1>2. /\ DOMAIN P = 1..7 /\ Len(P) = 7 /\ P[1] = l /\ ReductionAt(P, 2, "dot") /\ P[7] = m
    BY <1>1a DEF OneReductionListed
  <1>3. /\ P[1].op = "loop" /\ P[2].op = "put" /\ P[3].op = "sync" /\ P[4].op = "fold"
        /\ P[5].op = "syncfold" /\ P[6].op = "get" /\ P[7].op = "map" /\ P[2].red = "dot"
        /\ P[6].red = "dot"
    BY <1>2, <1>l, <1>m DEF ReductionAt, Sync, Step
  <1>4. \A n \in DOMAIN P :
          /\ P[n].op \in Opcodes
          /\ P[n].op \in {"fold", "get", "loop", "map", "put", "sync", "syncfold"}
          /\ P[n].op = "fold" => n = 4
          /\ P[n].op = "get" => n = 6
          /\ P[n].op = "loop" => n = 1
          /\ P[n].op = "map" => n = 7
          /\ P[n].op = "put" => n = 2
          /\ P[n].op = "syncfold" => n = 5
    BY <1>2, <1>3 DEF Opcodes
  <1>5. Reductions(P)
    BY <1>2, <1>3, <1>4 DEF Reductions, IsReduction, BarrierBetween, IsBarrier, Reds
  <1>6. Loops(P, act)
    <2>1. \A n \in DOMAIN P : P[n].op = "put" =>
            \E k \in DOMAIN P : k < n /\ P[k].op = "loop" /\ P[n].red \in P[k].reds
      BY <1>2, <1>3, <1>4, <1>l
    <2>2. ASSUME NEW j \in DOMAIN P, NEW n \in DOMAIN P, P[j].op = "loop", P[n].op = "loop"
          PROVE  /\ P[j].extent = P[n].extent
                 /\ P[j].reds \cap P[n].reds # {} => j = n
                 /\ P[j].keep # {} => n <= j
                 /\ P[j].adds # {} /\ P[n].adds # {} => j = n
      BY <1>2, <1>4, <1>l, <2>2
    <2>3. \A n \in DOMAIN P : P[n].op = "loop" => IsLoop(P[n], act)
      BY <1>2, <1>4, <1>i
    <2> QED BY <2>1, <2>2, <2>3 DEF Loops
  <1>7. Maps(P, act)
    <2>1. ASSUME NEW j \in DOMAIN P, NEW n \in DOMAIN P, P[j].op = "loop", P[n].op = "map"
          PROVE  /\ j < n /\ P[n].extent = P[j].extent
                 /\ P[j].keep # {} => Rescales(P[n], act)
      BY <1>2, <1>4, <1>l, <1>m, <1>r, <2>1
    <2>2. ASSUME NEW n \in DOMAIN P, P[n].op = "map"
          PROVE  /\ IsMap(P[n])
                 /\ IsPlain(P[n], act) \/ \E k \in DOMAIN P : P[k].op = "loop" /\ P[k].keep # {}
                 /\ P[n].out = "x" <=> P[1].op = "target"
                 /\ P[n].value = "grad" => P[1].op = "target"
      <3>1. n = 7 /\ P[n] = m
        BY <1>2, <1>4, <2>2
      <3>2. IsPlain(m, act) \/ \E k \in DOMAIN P : P[k].op = "loop" /\ P[k].keep # {}
        BY <1>2, <1>3, <1>l, <1>r
      <3> QED BY <1>3, <1>k, <1>m, <3>1, <3>2
    <2>3. \A j, n \in DOMAIN P :
            /\ P[j].op = "map" /\ P[n].op = "map" => j = n
            /\ P[j].op \in {"check_max", "check_sum"} /\ P[n].op = "map" => j < n
      BY <1>4
    <2> QED BY <2>1, <2>2, <2>3 DEF Maps
  <1>8. Losses(P, act)
    <2>1. /\ P[1].op # "target"
          /\ \A n \in DOMAIN P :
               P[n].op \notin {"target", "check_target", "check_max", "check_sum", "grab", "poison",
                             "return", "add_loss"}
      BY <1>3, <1>4
    <2> QED BY <2>1 DEF Losses, Checks
  <1>9. Totals(P, {})
    BY <1>2, <1>3, <1>4, <1>l DEF Totals
  <1> QED BY <1>2, <1>4, <1>5, <1>6, <1>7, <1>8, <1>9 DEF IsKernel, P

(* So is the layer norm. *)
LEMMA LayerNormForwardIsKernel ==
  ASSUME NEW act \in {"F32", "BF16"}
  PROVE  IsKernel(LayerNormForward(act), act, {})
  <1> DEFINE P == LayerNormForward(act)
             l1 == Accumulate("sum", <<Op("x", act)>>, "row")
             l2 == Accumulate("var", <<Op("x", act)>>, "row")
             m == Map(<<Op("x", act), Op("gamma", "F32"), Op("beta", "F32")>>, "out", "row", "norm")
  <1>1. P = <<l1>> \o ReduceAndReuse("sum") \o <<l2>> \o Reduce("var") \o <<m>>
    BY DEF LayerNormForward
  <1>ox. <<Op("x", act)>> \in Seq(Operands(act)) /\ <<Op("x", act)>> # <<>>
    BY DEF Op, Operands
  <1>op. <<Op("x", act), Op("gamma", "F32"), Op("beta", "F32")>> \in Seq(Operands(act)) /\ <<Op("x", act), Op("gamma", "F32"), Op("beta", "F32")>> # <<>>
    BY DEF Op, Operands
  <1>l. /\ l1.op = "loop" /\ l1.reds = {"sum"} /\ l1.extent = "row"
        /\ l1.keep = {} /\ l1.adds = {}
        /\ l2.op = "loop" /\ l2.reds = {"var"} /\ l2.extent = "row"
        /\ l2.keep = {} /\ l2.adds = {}
    BY DEF Accumulate, Loop
  <1>i. IsLoop(l1, act) /\ IsLoop(l2, act)
    <2>1. l1.ops = <<Op("x", act)>> /\ l2.ops = <<Op("x", act)>>
      BY DEF Accumulate, Loop
    <2> HIDE DEF l1, l2
    <2>3. "row" \in {"row", "causal", "grid"} /\ {"sum", "var"} \subseteq Reds
      BY DEF Reds
    <2>l1. IsLoop(l1, act)
      BY <1>l, <1>ox, <2>1, <2>3 DEF IsLoop
    <2>l2. IsLoop(l2, act)
      BY <1>l, <1>ox, <2>1, <2>3 DEF IsLoop
    <2> QED BY <2>l1, <2>l2
  <1>m. /\ m.op = "map" /\ m.out = "out" /\ m.extent = "row" /\ m.value = "norm"
        /\ m.over = "row" /\ m.ops = <<Op("x", act), Op("gamma", "F32"), Op("beta", "F32")>>
    BY DEF Map, MapOver
  <1>k. IsMap(m)
    BY <1>m DEF IsMap
  <1>r. IsPlain(m, act)
    BY <1>m, <1>op DEF IsPlain
  <1> HIDE DEF P, l1, l2, m
  <1>1a. TwoReductionsListed(P, l1, l2, m, "sum", "var")
    BY <1>1, TwoReductions
  <1>2. /\ DOMAIN P = 1..14 /\ Len(P) = 14 /\ P[1] = l1 /\ ReductionAt(P, 2, "sum")
        /\ P[7] = Sync /\ P[8] = l2 /\ ReductionAt(P, 9, "var") /\ P[14] = m
    BY <1>1a DEF TwoReductionsListed
  <1>3. /\ P[1].op = "loop" /\ P[2].op = "put" /\ P[3].op = "sync" /\ P[4].op = "fold"
        /\ P[5].op = "syncfold" /\ P[6].op = "get" /\ P[7].op = "sync" /\ P[8].op = "loop"
        /\ P[9].op = "put" /\ P[10].op = "sync" /\ P[11].op = "fold" /\ P[12].op = "syncfold"
        /\ P[13].op = "get" /\ P[14].op = "map" /\ P[2].red = "sum" /\ P[6].red = "sum"
        /\ P[9].red = "var" /\ P[13].red = "var"
    BY <1>2, <1>l, <1>m DEF ReductionAt, Sync, Step
  <1>4. \A n \in DOMAIN P :
          /\ P[n].op \in Opcodes
          /\ P[n].op \in {"fold", "get", "loop", "map", "put", "sync", "syncfold"}
          /\ P[n].op = "fold" => n \in {4, 11}
          /\ P[n].op = "get" => n \in {6, 13}
          /\ P[n].op = "loop" => n \in {1, 8}
          /\ P[n].op = "map" => n = 14
          /\ P[n].op = "put" => n \in {2, 9}
          /\ P[n].op = "syncfold" => n \in {5, 12}
    BY <1>2, <1>3 DEF Opcodes
  <1>5. Reductions(P)
    BY <1>2, <1>3, <1>4 DEF Reductions, IsReduction, BarrierBetween, IsBarrier, Reds
  <1>6. Loops(P, act)
    <2>1. \A n \in DOMAIN P : P[n].op = "put" =>
            \E k \in DOMAIN P : k < n /\ P[k].op = "loop" /\ P[n].red \in P[k].reds
      BY <1>2, <1>3, <1>4, <1>l
    <2>2. ASSUME NEW j \in DOMAIN P, NEW n \in DOMAIN P, P[j].op = "loop", P[n].op = "loop"
          PROVE  /\ P[j].extent = P[n].extent
                 /\ P[j].reds \cap P[n].reds # {} => j = n
                 /\ P[j].keep # {} => n <= j
                 /\ P[j].adds # {} /\ P[n].adds # {} => j = n
      BY <1>2, <1>4, <1>l, <2>2
    <2>3. \A n \in DOMAIN P : P[n].op = "loop" => IsLoop(P[n], act)
      BY <1>2, <1>4, <1>i
    <2> QED BY <2>1, <2>2, <2>3 DEF Loops
  <1>7. Maps(P, act)
    <2>1. ASSUME NEW j \in DOMAIN P, NEW n \in DOMAIN P, P[j].op = "loop", P[n].op = "map"
          PROVE  /\ j < n /\ P[n].extent = P[j].extent
                 /\ P[j].keep # {} => Rescales(P[n], act)
      BY <1>2, <1>4, <1>l, <1>m, <1>r, <2>1
    <2>2. ASSUME NEW n \in DOMAIN P, P[n].op = "map"
          PROVE  /\ IsMap(P[n])
                 /\ IsPlain(P[n], act) \/ \E k \in DOMAIN P : P[k].op = "loop" /\ P[k].keep # {}
                 /\ P[n].out = "x" <=> P[1].op = "target"
                 /\ P[n].value = "grad" => P[1].op = "target"
      <3>1. n = 14 /\ P[n] = m
        BY <1>2, <1>4, <2>2
      <3>2. IsPlain(m, act) \/ \E k \in DOMAIN P : P[k].op = "loop" /\ P[k].keep # {}
        BY <1>2, <1>3, <1>l, <1>r
      <3> QED BY <1>3, <1>k, <1>m, <3>1, <3>2
    <2>3. \A j, n \in DOMAIN P :
            /\ P[j].op = "map" /\ P[n].op = "map" => j = n
            /\ P[j].op \in {"check_max", "check_sum"} /\ P[n].op = "map" => j < n
      BY <1>4
    <2> QED BY <2>1, <2>2, <2>3 DEF Maps
  <1>8. Losses(P, act)
    <2>1. /\ P[1].op # "target"
          /\ \A n \in DOMAIN P :
               P[n].op \notin {"target", "check_target", "check_max", "check_sum", "grab", "poison",
                             "return", "add_loss"}
      BY <1>3, <1>4
    <2> QED BY <2>1 DEF Losses, Checks
  <1>9. Totals(P, {})
    <2>1. P[1].op # "target"
      BY <1>3
    <2>2. \A n \in DOMAIN P : P[n].op = "loop" => P[n].adds = {}
      BY <1>2, <1>4, <1>l
    <2>3. ~ \E n \in DOMAIN P : P[n].op \in {"add_total", "put_total"}
      BY <1>4
    <2>4. ~{} = {"loss"} /\ ~{} = {"dgamma", "dbeta"} /\ ~{} = {"total"}
      OBVIOUS
    <2> QED BY <2>1, <2>2, <2>3, <2>4 DEF Totals
  <1> QED BY <1>2, <1>4, <1>5, <1>6, <1>7, <1>8, <1>9 DEF IsKernel, P

(* So is its backward pass, which adds to two accumulators. *)
LEMMA LayerNormBackwardIsKernel ==
  ASSUME NEW act \in {"F32", "BF16"}
  PROVE  IsKernel(LayerNormBackward(act), act, {"dgamma", "dbeta"})
  <1> DEFINE P == LayerNormBackward(act)
             l1 == Accumulate("sum", <<Op("x", act)>>, "row")
             l2 == Accumulate("var", <<Op("x", act)>>, "row")
             l3 == Loop({"dxhat", "dxhat_xhat"}, <<Op("x", act), Op("gamma", "F32"), Op("dout", act)>>, "row", {}, {"dgamma", "dbeta"})
             m == Map(<<Op("x", act), Op("gamma", "F32"), Op("dout", act)>>, "out", "row", "dx")
  <1>1. P = <<l1>> \o ReduceAndReuse("sum") \o <<l2>> \o ReduceAndReuse("var")
           \o <<l3>> \o ReduceAndReuse("dxhat") \o Reduce("dxhat_xhat") \o <<m>>
    BY DEF LayerNormBackward
  <1>ox. <<Op("x", act)>> \in Seq(Operands(act)) /\ <<Op("x", act)>> # <<>>
    BY DEF Op, Operands
  <1>op. <<Op("x", act), Op("gamma", "F32"), Op("dout", act)>> \in Seq(Operands(act)) /\ <<Op("x", act), Op("gamma", "F32"), Op("dout", act)>> # <<>>
    BY DEF Op, Operands
  <1>l. /\ l1.op = "loop" /\ l1.reds = {"sum"} /\ l1.extent = "row"
        /\ l1.keep = {} /\ l1.adds = {}
        /\ l2.op = "loop" /\ l2.reds = {"var"} /\ l2.extent = "row"
        /\ l2.keep = {} /\ l2.adds = {}
        /\ l3.op = "loop" /\ l3.reds = {"dxhat", "dxhat_xhat"} /\ l3.extent = "row"
        /\ l3.keep = {} /\ l3.adds = {"dgamma", "dbeta"}
    BY DEF Accumulate, Loop
  <1>i. IsLoop(l1, act) /\ IsLoop(l2, act) /\ IsLoop(l3, act)
    <2>1. l1.ops = <<Op("x", act)>> /\ l2.ops = <<Op("x", act)>> /\ l3.ops = <<Op("x", act), Op("gamma", "F32"), Op("dout", act)>>
      BY DEF Accumulate, Loop
    <2> HIDE DEF l1, l2, l3
    <2>3. "row" \in {"row", "causal", "grid"} /\ {"dxhat", "dxhat_xhat", "sum", "var"} \subseteq Reds
      BY DEF Reds
    <2>l1. IsLoop(l1, act)
      BY <1>l, <1>ox, <2>1, <2>3 DEF IsLoop
    <2>l2. IsLoop(l2, act)
      BY <1>l, <1>ox, <2>1, <2>3 DEF IsLoop
    <2>l3. IsLoop(l3, act)
      BY <1>l, <1>op, <2>1, <2>3 DEF IsLoop
    <2> QED BY <2>l1, <2>l2, <2>l3
  <1>m. /\ m.op = "map" /\ m.out = "out" /\ m.extent = "row" /\ m.value = "dx"
        /\ m.over = "row" /\ m.ops = <<Op("x", act), Op("gamma", "F32"), Op("dout", act)>>
    BY DEF Map, MapOver
  <1>k. IsMap(m)
    BY <1>m DEF IsMap
  <1>r. IsPlain(m, act)
    BY <1>m, <1>op DEF IsPlain
  <1> HIDE DEF P, l1, l2, l3, m
  <1>1a. FourReductionsListed(P, l1, l2, l3, m, "sum", "var", "dxhat", "dxhat_xhat")
    BY <1>1, FourReductions
  <1>2. /\ DOMAIN P = 1..27 /\ Len(P) = 27 /\ P[1] = l1 /\ ReductionAt(P, 2, "sum")
        /\ P[7] = Sync /\ P[8] = l2 /\ ReductionAt(P, 9, "var") /\ P[14] = Sync /\ P[15] = l3
        /\ ReductionAt(P, 16, "dxhat") /\ P[21] = Sync /\ ReductionAt(P, 22, "dxhat_xhat")
        /\ P[27] = m
    BY <1>1a DEF FourReductionsListed
  <1>3. /\ P[1].op = "loop" /\ P[2].op = "put" /\ P[3].op = "sync" /\ P[4].op = "fold"
        /\ P[5].op = "syncfold" /\ P[6].op = "get" /\ P[7].op = "sync" /\ P[8].op = "loop"
        /\ P[9].op = "put" /\ P[10].op = "sync" /\ P[11].op = "fold" /\ P[12].op = "syncfold"
        /\ P[13].op = "get" /\ P[14].op = "sync" /\ P[15].op = "loop" /\ P[16].op = "put"
        /\ P[17].op = "sync" /\ P[18].op = "fold" /\ P[19].op = "syncfold" /\ P[20].op = "get"
        /\ P[21].op = "sync" /\ P[22].op = "put" /\ P[23].op = "sync" /\ P[24].op = "fold"
        /\ P[25].op = "syncfold" /\ P[26].op = "get" /\ P[27].op = "map" /\ P[2].red = "sum"
        /\ P[6].red = "sum" /\ P[9].red = "var" /\ P[13].red = "var" /\ P[16].red = "dxhat"
        /\ P[20].red = "dxhat" /\ P[22].red = "dxhat_xhat" /\ P[26].red = "dxhat_xhat"
    BY <1>2, <1>l, <1>m DEF ReductionAt, Sync, Step
  <1>4. \A n \in DOMAIN P :
          /\ P[n].op \in Opcodes
          /\ P[n].op \in {"fold", "get", "loop", "map", "put", "sync", "syncfold"}
          /\ P[n].op = "fold" => n \in {4, 11, 18, 24}
          /\ P[n].op = "get" => n \in {6, 13, 20, 26}
          /\ P[n].op = "loop" => n \in {1, 8, 15}
          /\ P[n].op = "map" => n = 27
          /\ P[n].op = "put" => n \in {2, 9, 16, 22}
          /\ P[n].op = "syncfold" => n \in {5, 12, 19, 25}
    BY <1>2, <1>3 DEF Opcodes
  <1>5. Reductions(P)
    <2>1. ASSUME NEW n \in DOMAIN P
          PROVE  /\ P[n].op = "put" => IsReduction(P, n)
                 /\ P[n].op = "fold" => n > 2 /\ P[n - 2].op = "put"
                 /\ P[n].op = "syncfold" => n > 3 /\ P[n - 3].op = "put"
                 /\ P[n].op = "get" => n > 4 /\ P[n - 4].op = "put"
      BY <1>2, <1>3, <1>4 DEF IsReduction, Reds
    <2>2. ASSUME NEW j \in DOMAIN P, NEW n \in DOMAIN P, P[j].op = "get", P[n].op = "put", j < n
          PROVE  BarrierBetween(P, j, n)
      BY <1>2, <1>3, <1>4, <2>2 DEF BarrierBetween, IsBarrier
    <2> QED BY <2>1, <2>2 DEF Reductions
  <1>6. Loops(P, act)
    <2>1. \A n \in DOMAIN P : P[n].op = "put" =>
            \E k \in DOMAIN P : k < n /\ P[k].op = "loop" /\ P[n].red \in P[k].reds
      BY <1>2, <1>3, <1>4, <1>l
    <2>2. ASSUME NEW j \in DOMAIN P, NEW n \in DOMAIN P, P[j].op = "loop", P[n].op = "loop"
          PROVE  /\ P[j].extent = P[n].extent
                 /\ P[j].reds \cap P[n].reds # {} => j = n
                 /\ P[j].keep # {} => n <= j
                 /\ P[j].adds # {} /\ P[n].adds # {} => j = n
      BY <1>2, <1>4, <1>l, <2>2
    <2>3. \A n \in DOMAIN P : P[n].op = "loop" => IsLoop(P[n], act)
      BY <1>2, <1>4, <1>i
    <2> QED BY <2>1, <2>2, <2>3 DEF Loops
  <1>7. Maps(P, act)
    <2>1. ASSUME NEW j \in DOMAIN P, NEW n \in DOMAIN P, P[j].op = "loop", P[n].op = "map"
          PROVE  /\ j < n /\ P[n].extent = P[j].extent
                 /\ P[j].keep # {} => Rescales(P[n], act)
      BY <1>2, <1>4, <1>l, <1>m, <1>r, <2>1
    <2>2. ASSUME NEW n \in DOMAIN P, P[n].op = "map"
          PROVE  /\ IsMap(P[n])
                 /\ IsPlain(P[n], act) \/ \E k \in DOMAIN P : P[k].op = "loop" /\ P[k].keep # {}
                 /\ P[n].out = "x" <=> P[1].op = "target"
                 /\ P[n].value = "grad" => P[1].op = "target"
      <3>1. n = 27 /\ P[n] = m
        BY <1>2, <1>4, <2>2
      <3>2. IsPlain(m, act) \/ \E k \in DOMAIN P : P[k].op = "loop" /\ P[k].keep # {}
        BY <1>2, <1>3, <1>l, <1>r
      <3> QED BY <1>3, <1>k, <1>m, <3>1, <3>2
    <2>3. \A j, n \in DOMAIN P :
            /\ P[j].op = "map" /\ P[n].op = "map" => j = n
            /\ P[j].op \in {"check_max", "check_sum"} /\ P[n].op = "map" => j < n
      BY <1>4
    <2> QED BY <2>1, <2>2, <2>3 DEF Maps
  <1>8. Losses(P, act)
    <2>1. /\ P[1].op # "target"
          /\ \A n \in DOMAIN P :
               P[n].op \notin {"target", "check_target", "check_max", "check_sum", "grab", "poison",
                             "return", "add_loss"}
      BY <1>3, <1>4
    <2> QED BY <2>1 DEF Losses, Checks
  <1>9. Totals(P, {"dgamma", "dbeta"})
    <2>1. P[1].op = "target" <=> FALSE
      BY <1>2, <1>3, <1>4, <1>l
    <2>2. (\E n \in DOMAIN P : P[n].op = "loop" /\ P[n].adds # {}) <=> TRUE
      <3>1. 15 \in DOMAIN P
        BY <1>2
      <3>2. P[15].op = "loop" /\ P[15].adds # {}
        BY <1>2, <1>l
      <3> QED BY <3>1, <3>2
    <2>3. ~ \E n \in DOMAIN P : P[n].op \in {"add_total", "put_total"}
      BY <1>4
    <2>4. /\ ~{"dgamma", "dbeta"} = {"loss"} /\ ~{"dgamma", "dbeta"} = {"total"}
          /\ {"dgamma", "dbeta"} = {"dgamma", "dbeta"}
      OBVIOUS
    <2> QED BY <2>1, <2>2, <2>3, <2>4 DEF Totals
  <1> QED BY <1>2, <1>4, <1>5, <1>6, <1>7, <1>8, <1>9 DEF IsKernel, P

(* So is the sum of squares. *)
LEMMA SumSquaresIsKernel ==
  IsKernel(SumSquares, "F32", {"total"})
  <1> DEFINE P == SumSquares
             l == Accumulate("sum", <<Op("x", "F32")>>, "grid")
             a == Step("add_total")
  <1>1. P = <<l>> \o Reduce("sum") \o <<a>>
    BY DEF SumSquares
  <1>ox. <<Op("x", "F32")>> \in Seq(Operands("F32")) /\ <<Op("x", "F32")>> # <<>>
    BY DEF Op, Operands
  <1>l. /\ l.op = "loop" /\ l.reds = {"sum"} /\ l.extent = "grid"
        /\ l.keep = {} /\ l.adds = {}
    BY DEF Accumulate, Loop
  <1>i. IsLoop(l, "F32")
    <2>1. l.ops = <<Op("x", "F32")>>
      BY DEF Accumulate, Loop
    <2> HIDE DEF l
    <2>3. "grid" \in {"row", "causal", "grid"} /\ {"sum"} \subseteq Reds
      BY DEF Reds
    <2>l1. IsLoop(l, "F32")
      BY <1>l, <1>ox, <2>1, <2>3 DEF IsLoop
    <2> QED BY <2>l1
  <1>s. a.op = "add_total"
    BY DEF Step, Poison
  <1> HIDE DEF P, l, a
  <1>1a. OneReductionListed(P, l, a, "sum")
    BY <1>1, OneReduction
  <1>2. /\ DOMAIN P = 1..7 /\ Len(P) = 7 /\ P[1] = l /\ ReductionAt(P, 2, "sum") /\ P[7] = a
    BY <1>1a DEF OneReductionListed
  <1>3. /\ P[1].op = "loop" /\ P[2].op = "put" /\ P[3].op = "sync" /\ P[4].op = "fold"
        /\ P[5].op = "syncfold" /\ P[6].op = "get" /\ P[7].op = "add_total" /\ P[2].red = "sum"
        /\ P[6].red = "sum"
    BY <1>2, <1>l, <1>s DEF ReductionAt, Sync, Step
  <1>4. \A n \in DOMAIN P :
          /\ P[n].op \in Opcodes
          /\ P[n].op \in {"add_total", "fold", "get", "loop", "put", "sync", "syncfold"}
          /\ P[n].op = "add_total" => n = 7
          /\ P[n].op = "fold" => n = 4
          /\ P[n].op = "get" => n = 6
          /\ P[n].op = "loop" => n = 1
          /\ P[n].op = "put" => n = 2
          /\ P[n].op = "syncfold" => n = 5
    BY <1>2, <1>3 DEF Opcodes
  <1>5. Reductions(P)
    BY <1>2, <1>3, <1>4 DEF Reductions, IsReduction, BarrierBetween, IsBarrier, Reds
  <1>6. Loops(P, "F32")
    <2>1. \A n \in DOMAIN P : P[n].op = "put" =>
            \E k \in DOMAIN P : k < n /\ P[k].op = "loop" /\ P[n].red \in P[k].reds
      BY <1>2, <1>3, <1>4, <1>l
    <2>2. ASSUME NEW j \in DOMAIN P, NEW n \in DOMAIN P, P[j].op = "loop", P[n].op = "loop"
          PROVE  /\ P[j].extent = P[n].extent
                 /\ P[j].reds \cap P[n].reds # {} => j = n
                 /\ P[j].keep # {} => n <= j
                 /\ P[j].adds # {} /\ P[n].adds # {} => j = n
      BY <1>2, <1>4, <1>l, <2>2
    <2>3. \A n \in DOMAIN P : P[n].op = "loop" => IsLoop(P[n], "F32")
      BY <1>2, <1>4, <1>i
    <2> QED BY <2>1, <2>2, <2>3 DEF Loops
  <1>7. Maps(P, "F32")
    BY <1>4 DEF Maps
  <1>8. Losses(P, "F32")
    <2>1. /\ P[1].op # "target"
          /\ \A n \in DOMAIN P :
               P[n].op \notin {"target", "check_target", "check_max", "check_sum", "grab", "poison",
                             "return", "add_loss"}
      BY <1>3, <1>4
    <2> QED BY <2>1 DEF Losses, Checks
  <1>9. Totals(P, {"total"})
    BY <1>2, <1>3, <1>4, <1>l DEF Totals
  <1> QED BY <1>2, <1>4, <1>5, <1>6, <1>7, <1>8, <1>9 DEF IsKernel, P

(* So is the column sum. *)
LEMMA RowSumIsKernel ==
  ASSUME NEW act \in {"F32", "BF16"}
  PROVE  IsKernel(RowSum(act), act, {})
  <1> DEFINE P == RowSum(act)
             l == Accumulate("sum", <<Op("x", act)>>, "row")
             a == Step("put_total")
  <1>1. P = <<l>> \o Reduce("sum") \o <<a>>
    BY DEF RowSum
  <1>ox. <<Op("x", act)>> \in Seq(Operands(act)) /\ <<Op("x", act)>> # <<>>
    BY DEF Op, Operands
  <1>l. /\ l.op = "loop" /\ l.reds = {"sum"} /\ l.extent = "row"
        /\ l.keep = {} /\ l.adds = {}
    BY DEF Accumulate, Loop
  <1>i. IsLoop(l, act)
    <2>1. l.ops = <<Op("x", act)>>
      BY DEF Accumulate, Loop
    <2> HIDE DEF l
    <2>3. "row" \in {"row", "causal", "grid"} /\ {"sum"} \subseteq Reds
      BY DEF Reds
    <2>l1. IsLoop(l, act)
      BY <1>l, <1>ox, <2>1, <2>3 DEF IsLoop
    <2> QED BY <2>l1
  <1>s. a.op = "put_total"
    BY DEF Step, Poison
  <1> HIDE DEF P, l, a
  <1>1a. OneReductionListed(P, l, a, "sum")
    BY <1>1, OneReduction
  <1>2. /\ DOMAIN P = 1..7 /\ Len(P) = 7 /\ P[1] = l /\ ReductionAt(P, 2, "sum") /\ P[7] = a
    BY <1>1a DEF OneReductionListed
  <1>3. /\ P[1].op = "loop" /\ P[2].op = "put" /\ P[3].op = "sync" /\ P[4].op = "fold"
        /\ P[5].op = "syncfold" /\ P[6].op = "get" /\ P[7].op = "put_total" /\ P[2].red = "sum"
        /\ P[6].red = "sum"
    BY <1>2, <1>l, <1>s DEF ReductionAt, Sync, Step
  <1>4. \A n \in DOMAIN P :
          /\ P[n].op \in Opcodes
          /\ P[n].op \in {"fold", "get", "loop", "put", "put_total", "sync", "syncfold"}
          /\ P[n].op = "fold" => n = 4
          /\ P[n].op = "get" => n = 6
          /\ P[n].op = "loop" => n = 1
          /\ P[n].op = "put" => n = 2
          /\ P[n].op = "put_total" => n = 7
          /\ P[n].op = "syncfold" => n = 5
    BY <1>2, <1>3 DEF Opcodes
  <1>5. Reductions(P)
    BY <1>2, <1>3, <1>4 DEF Reductions, IsReduction, BarrierBetween, IsBarrier, Reds
  <1>6. Loops(P, act)
    <2>1. \A n \in DOMAIN P : P[n].op = "put" =>
            \E k \in DOMAIN P : k < n /\ P[k].op = "loop" /\ P[n].red \in P[k].reds
      BY <1>2, <1>3, <1>4, <1>l
    <2>2. ASSUME NEW j \in DOMAIN P, NEW n \in DOMAIN P, P[j].op = "loop", P[n].op = "loop"
          PROVE  /\ P[j].extent = P[n].extent
                 /\ P[j].reds \cap P[n].reds # {} => j = n
                 /\ P[j].keep # {} => n <= j
                 /\ P[j].adds # {} /\ P[n].adds # {} => j = n
      BY <1>2, <1>4, <1>l, <2>2
    <2>3. \A n \in DOMAIN P : P[n].op = "loop" => IsLoop(P[n], act)
      BY <1>2, <1>4, <1>i
    <2> QED BY <2>1, <2>2, <2>3 DEF Loops
  <1>7. Maps(P, act)
    BY <1>4 DEF Maps
  <1>8. Losses(P, act)
    <2>1. /\ P[1].op # "target"
          /\ \A n \in DOMAIN P :
               P[n].op \notin {"target", "check_target", "check_max", "check_sum", "grab", "poison",
                             "return", "add_loss"}
      BY <1>3, <1>4
    <2> QED BY <2>1 DEF Losses, Checks
  <1>9. Totals(P, {})
    BY <1>2, <1>3, <1>4, <1>l DEF Totals
  <1> QED BY <1>2, <1>4, <1>5, <1>6, <1>7, <1>8, <1>9 DEF IsKernel, P

(* So is the cross entropy with its gradient in place. *)
LEMMA CrossEntropyBackwardIsKernel ==
  ASSUME NEW act \in {"F32", "BF16"}
  PROVE  IsKernel(CrossEntropyBackward(act), act, {"loss"})
  <1> DEFINE P == CrossEntropyBackward(act)
             l1 == Accumulate("max", <<Op("x", act)>>, "row")
             l2 == Accumulate("sum", <<Op("x", act)>>, "row")
             m == Map(<<Op("x", act)>>, "x", "row", "grad")
             i1 == Step("target")
             i3 == Step("check_target")
             g == [op |-> "grab", ops |-> <<Op("x", act)>>]
             c1 == Step("check_max")
             c2 == Step("check_sum")
             a == Step("add_loss")
             z == Step("return")
             p == Poison(act, {"x"})
  <1>1. P = <<i1, Sync, i3>> \o <<g, l1>> \o ReduceAndReuse("max") \o <<c1>> \o <<l2>>
           \o Reduce("sum") \o <<c2, a, m, z, p>>
    BY DEF CrossEntropyBackward, ReadTarget
  <1>ox. <<Op("x", act)>> \in Seq(Operands(act)) /\ <<Op("x", act)>> # <<>>
    BY DEF Op, Operands
  <1>l. /\ l1.op = "loop" /\ l1.reds = {"max"} /\ l1.extent = "row"
        /\ l1.keep = {} /\ l1.adds = {}
        /\ l2.op = "loop" /\ l2.reds = {"sum"} /\ l2.extent = "row"
        /\ l2.keep = {} /\ l2.adds = {}
    BY DEF Accumulate, Loop
  <1>i. IsLoop(l1, act) /\ IsLoop(l2, act)
    <2>1. l1.ops = <<Op("x", act)>> /\ l2.ops = <<Op("x", act)>>
      BY DEF Accumulate, Loop
    <2> HIDE DEF l1, l2
    <2>3. "row" \in {"row", "causal", "grid"} /\ {"max", "sum"} \subseteq Reds
      BY DEF Reds
    <2>l1. IsLoop(l1, act)
      BY <1>l, <1>ox, <2>1, <2>3 DEF IsLoop
    <2>l2. IsLoop(l2, act)
      BY <1>l, <1>ox, <2>1, <2>3 DEF IsLoop
    <2> QED BY <2>l1, <2>l2
  <1>m. /\ m.op = "map" /\ m.out = "x" /\ m.extent = "row" /\ m.value = "grad"
        /\ m.over = "row" /\ m.ops = <<Op("x", act)>>
    BY DEF Map, MapOver
  <1>k. IsMap(m)
    BY <1>m DEF IsMap
  <1>r. IsPlain(m, act)
    BY <1>m, <1>ox DEF IsPlain
  <1>s. i1.op = "target" /\ i3.op = "check_target" /\ g.op = "grab" /\ g.ops = <<Op("x", act)>> /\ c1.op = "check_max" /\ c2.op = "check_sum" /\ a.op = "add_loss" /\ z.op = "return" /\ p.op = "poison" /\ p.out = {"x"}
    BY DEF Step, Poison
  <1> HIDE DEF P, l1, l2, m, i1, i3, g, c1, c2, a, z, p
  <1>1a. LossAndGradientListed(P, i1, i3, g, l1, c1, l2, c2, a, m, z, p, "max", "sum")
    BY <1>1, LossAndGradient
  <1>2. /\ DOMAIN P = 1..23 /\ Len(P) = 23 /\ P[1] = i1 /\ P[2] = Sync /\ P[3] = i3 /\ P[4] = g
        /\ P[5] = l1 /\ ReductionAt(P, 6, "max") /\ P[11] = Sync /\ P[12] = c1 /\ P[13] = l2
        /\ ReductionAt(P, 14, "sum") /\ P[19] = c2 /\ P[20] = a /\ P[21] = m /\ P[22] = z
        /\ P[23] = p
    BY <1>1a DEF LossAndGradientListed
  <1>3. /\ P[1].op = "target" /\ P[2].op = "sync" /\ P[3].op = "check_target"
        /\ P[4].op = "grab" /\ P[5].op = "loop" /\ P[6].op = "put" /\ P[7].op = "sync"
        /\ P[8].op = "fold" /\ P[9].op = "syncfold" /\ P[10].op = "get" /\ P[11].op = "sync"
        /\ P[12].op = "check_max" /\ P[13].op = "loop" /\ P[14].op = "put" /\ P[15].op = "sync"
        /\ P[16].op = "fold" /\ P[17].op = "syncfold" /\ P[18].op = "get"
        /\ P[19].op = "check_sum" /\ P[20].op = "add_loss" /\ P[21].op = "map"
        /\ P[22].op = "return" /\ P[23].op = "poison" /\ P[6].red = "max" /\ P[10].red = "max"
        /\ P[14].red = "sum" /\ P[18].red = "sum"
    BY <1>2, <1>l, <1>m, <1>s DEF ReductionAt, Sync, Step
  <1>4. \A n \in DOMAIN P :
          /\ P[n].op \in Opcodes
          /\ P[n].op \in {"add_loss", "check_max", "check_sum", "check_target", "fold", "get", "grab", "loop", "map", "poison", "put", "return", "sync", "syncfold", "target"}
          /\ P[n].op = "add_loss" => n = 20
          /\ P[n].op = "check_max" => n = 12
          /\ P[n].op = "check_sum" => n = 19
          /\ P[n].op = "check_target" => n = 3
          /\ P[n].op = "fold" => n \in {8, 16}
          /\ P[n].op = "get" => n \in {10, 18}
          /\ P[n].op = "grab" => n = 4
          /\ P[n].op = "loop" => n \in {5, 13}
          /\ P[n].op = "map" => n = 21
          /\ P[n].op = "poison" => n = 23
          /\ P[n].op = "put" => n \in {6, 14}
          /\ P[n].op = "return" => n = 22
          /\ P[n].op = "syncfold" => n \in {9, 17}
          /\ P[n].op = "target" => n = 1
    BY <1>2, <1>3 DEF Opcodes
  <1>5. Reductions(P)
    <2>1. ASSUME NEW n \in DOMAIN P
          PROVE  /\ P[n].op = "put" => IsReduction(P, n)
                 /\ P[n].op = "fold" => n > 2 /\ P[n - 2].op = "put"
                 /\ P[n].op = "syncfold" => n > 3 /\ P[n - 3].op = "put"
                 /\ P[n].op = "get" => n > 4 /\ P[n - 4].op = "put"
      BY <1>2, <1>3, <1>4 DEF IsReduction, Reds
    <2>2. ASSUME NEW j \in DOMAIN P, NEW n \in DOMAIN P, P[j].op = "get", P[n].op = "put", j < n
          PROVE  BarrierBetween(P, j, n)
      BY <1>2, <1>3, <1>4, <2>2 DEF BarrierBetween, IsBarrier
    <2> QED BY <2>1, <2>2 DEF Reductions
  <1>6. Loops(P, act)
    <2>1. \A n \in DOMAIN P : P[n].op = "put" =>
            \E k \in DOMAIN P : k < n /\ P[k].op = "loop" /\ P[n].red \in P[k].reds
      BY <1>2, <1>3, <1>4, <1>l
    <2>2. ASSUME NEW j \in DOMAIN P, NEW n \in DOMAIN P, P[j].op = "loop", P[n].op = "loop"
          PROVE  /\ P[j].extent = P[n].extent
                 /\ P[j].reds \cap P[n].reds # {} => j = n
                 /\ P[j].keep # {} => n <= j
                 /\ P[j].adds # {} /\ P[n].adds # {} => j = n
      BY <1>2, <1>4, <1>l, <2>2
    <2>3. \A n \in DOMAIN P : P[n].op = "loop" => IsLoop(P[n], act)
      BY <1>2, <1>4, <1>i
    <2> QED BY <2>1, <2>2, <2>3 DEF Loops
  <1>7. Maps(P, act)
    <2>1. ASSUME NEW j \in DOMAIN P, NEW n \in DOMAIN P, P[j].op = "loop", P[n].op = "map"
          PROVE  /\ j < n /\ P[n].extent = P[j].extent
                 /\ P[j].keep # {} => Rescales(P[n], act)
      BY <1>2, <1>4, <1>l, <1>m, <1>r, <2>1
    <2>2. ASSUME NEW n \in DOMAIN P, P[n].op = "map"
          PROVE  /\ IsMap(P[n])
                 /\ IsPlain(P[n], act) \/ \E k \in DOMAIN P : P[k].op = "loop" /\ P[k].keep # {}
                 /\ P[n].out = "x" <=> P[1].op = "target"
                 /\ P[n].value = "grad" => P[1].op = "target"
      <3>1. n = 21 /\ P[n] = m
        BY <1>2, <1>4, <2>2
      <3>2. IsPlain(m, act) \/ \E k \in DOMAIN P : P[k].op = "loop" /\ P[k].keep # {}
        BY <1>2, <1>3, <1>l, <1>r
      <3> QED BY <1>3, <1>k, <1>m, <3>1, <3>2
    <2>3. \A j, n \in DOMAIN P :
            /\ P[j].op = "map" /\ P[n].op = "map" => j = n
            /\ P[j].op \in {"check_max", "check_sum"} /\ P[n].op = "map" => j < n
      BY <1>4
    <2> QED BY <2>1, <2>2, <2>3 DEF Maps
  <1>8. Losses(P, act)
    <2>1. ASSUME NEW n \in DOMAIN P
          PROVE  /\ P[n].op = "target" => n = 1 /\ P[2].op = "sync"
                 /\ P[n].op = "check_target" => n = 3
                 /\ P[n].op \in Checks => P[1].op = "target"
                 /\ P[n].op = "grab" => P[1].op = "target" /\ n > 3 /\ P[n].ops = <<Op("x", act)>>
                 /\ P[n].op = "poison" => n = Len(P) /\ P[1].op = "target" /\ P[n].out \in {{}, {"x"}}
                 /\ P[n].op = "return" => n = Len(P) - 1 /\ P[1].op = "target"
                 /\ P[n].op = "add_loss" =>
                      P[1].op = "target" /\ \E j \in DOMAIN P : P[j].op = "grab" /\ j < n
                 /\ P[n].op = "loop" /\ P[n].keep # {} => P[1].op # "target"
      BY <1>2, <1>3, <1>4, <1>l, <1>s
    <2>2. /\ Len(P) > 5 /\ P[Len(P)].op = "poison" /\ P[Len(P) - 1].op = "return"
          /\ P[2].op = "sync" /\ P[3].op = "check_target"
          /\ \E n \in DOMAIN P : P[n].op = "add_loss"
          /\ P[Len(P)].out # {} <=> \E n \in DOMAIN P : P[n].op = "map"
          /\ P[Len(P)].out # {} =>
               /\ \E n \in DOMAIN P : P[n].op = "check_max"
               /\ \E n \in DOMAIN P : P[n].op = "check_sum"
      BY <1>2, <1>3, <1>4, <1>s
    <2>3. ASSUME NEW j \in DOMAIN P, NEW n \in DOMAIN P
          PROVE  /\ P[j].op = "add_loss" /\ P[n].op = "add_loss" => j = n
                 /\ P[j].op = "grab" /\ P[n].op \in Checks /\ j < n => BarrierBetween(P, j, n)
                 /\ P[j].op = "grab" /\ P[n].op = "map" => j < n /\ BarrierBetween(P, j, n)
                 /\ P[j].op \in Checks /\ P[n].op = "add_loss" => j < n
      <3>1. P[j].op = "add_loss" /\ P[n].op = "add_loss" => j = n
        BY <1>4
      <3>2. ASSUME P[j].op = "grab", P[n].op \in Checks, j < n
            PROVE  BarrierBetween(P, j, n)
        BY <1>2, <1>3, <1>4, <3>2 DEF Checks, BarrierBetween, IsBarrier
      <3>3. ASSUME P[j].op = "grab", P[n].op = "map"
            PROVE  j < n /\ BarrierBetween(P, j, n)
        BY <1>2, <1>3, <1>4, <3>3 DEF BarrierBetween, IsBarrier
      <3>4. P[j].op \in Checks /\ P[n].op = "add_loss" => j < n
        BY <1>4 DEF Checks
      <3> QED BY <3>1, <3>2, <3>3, <3>4
    <2> QED BY <2>1, <2>2, <2>3 DEF Losses
  <1>9. Totals(P, {"loss"})
    <2>1. P[1].op = "target" <=> TRUE
      BY <1>2, <1>3, <1>4, <1>l
    <2>2. (\E n \in DOMAIN P : P[n].op = "loop" /\ P[n].adds # {}) <=> FALSE
      BY <1>2, <1>3, <1>4, <1>l
    <2>3. ~ \E n \in DOMAIN P : P[n].op \in {"add_total", "put_total"}
      BY <1>4
    <2>4. /\ {"loss"} = {"loss"} /\ ~{"loss"} = {"total"}
          /\ ~{"loss"} = {"dgamma", "dbeta"}
      OBVIOUS
    <2> QED BY <2>1, <2>2, <2>3, <2>4 DEF Totals
  <1> QED BY <1>2, <1>4, <1>5, <1>6, <1>7, <1>8, <1>9 DEF IsKernel, P

(* So is the cross entropy alone. *)
LEMMA CrossEntropyMeanIsKernel ==
  ASSUME NEW act \in {"F32", "BF16"}
  PROVE  IsKernel(CrossEntropyMean(act), act, {"loss"})
  <1> DEFINE P == CrossEntropyMean(act)
             l1 == Accumulate("max", <<Op("x", act)>>, "row")
             l2 == Accumulate("sum", <<Op("x", act)>>, "row")
             i1 == Step("target")
             i3 == Step("check_target")
             g == [op |-> "grab", ops |-> <<Op("x", act)>>]
             a == Step("add_loss")
             z == Step("return")
             p == Poison(act, {})
  <1>1. P = <<i1, Sync, i3>> \o <<l1>> \o ReduceAndReuse("max") \o <<l2>> \o Reduce("sum")
           \o <<g, a, z, p>>
    BY DEF CrossEntropyMean, ReadTarget
  <1>ox. <<Op("x", act)>> \in Seq(Operands(act)) /\ <<Op("x", act)>> # <<>>
    BY DEF Op, Operands
  <1>l. /\ l1.op = "loop" /\ l1.reds = {"max"} /\ l1.extent = "row"
        /\ l1.keep = {} /\ l1.adds = {}
        /\ l2.op = "loop" /\ l2.reds = {"sum"} /\ l2.extent = "row"
        /\ l2.keep = {} /\ l2.adds = {}
    BY DEF Accumulate, Loop
  <1>i. IsLoop(l1, act) /\ IsLoop(l2, act)
    <2>1. l1.ops = <<Op("x", act)>> /\ l2.ops = <<Op("x", act)>>
      BY DEF Accumulate, Loop
    <2> HIDE DEF l1, l2
    <2>3. "row" \in {"row", "causal", "grid"} /\ {"max", "sum"} \subseteq Reds
      BY DEF Reds
    <2>l1. IsLoop(l1, act)
      BY <1>l, <1>ox, <2>1, <2>3 DEF IsLoop
    <2>l2. IsLoop(l2, act)
      BY <1>l, <1>ox, <2>1, <2>3 DEF IsLoop
    <2> QED BY <2>l1, <2>l2
  <1>s. i1.op = "target" /\ i3.op = "check_target" /\ g.op = "grab" /\ g.ops = <<Op("x", act)>> /\ a.op = "add_loss" /\ z.op = "return" /\ p.op = "poison" /\ p.out = {}
    BY DEF Step, Poison
  <1> HIDE DEF P, l1, l2, i1, i3, g, a, z, p
  <1>1a. LossAloneListed(P, i1, i3, l1, l2, g, a, z, p, "max", "sum")
    BY <1>1, LossAlone
  <1>2. /\ DOMAIN P = 1..20 /\ Len(P) = 20 /\ P[1] = i1 /\ P[2] = Sync /\ P[3] = i3 /\ P[4] = l1
        /\ ReductionAt(P, 5, "max") /\ P[10] = Sync /\ P[11] = l2 /\ ReductionAt(P, 12, "sum")
        /\ P[17] = g /\ P[18] = a /\ P[19] = z /\ P[20] = p
    BY <1>1a DEF LossAloneListed
  <1>3. /\ P[1].op = "target" /\ P[2].op = "sync" /\ P[3].op = "check_target"
        /\ P[4].op = "loop" /\ P[5].op = "put" /\ P[6].op = "sync" /\ P[7].op = "fold"
        /\ P[8].op = "syncfold" /\ P[9].op = "get" /\ P[10].op = "sync" /\ P[11].op = "loop"
        /\ P[12].op = "put" /\ P[13].op = "sync" /\ P[14].op = "fold" /\ P[15].op = "syncfold"
        /\ P[16].op = "get" /\ P[17].op = "grab" /\ P[18].op = "add_loss" /\ P[19].op = "return"
        /\ P[20].op = "poison" /\ P[5].red = "max" /\ P[9].red = "max" /\ P[12].red = "sum"
        /\ P[16].red = "sum"
    BY <1>2, <1>l, <1>s DEF ReductionAt, Sync, Step
  <1>4. \A n \in DOMAIN P :
          /\ P[n].op \in Opcodes
          /\ P[n].op \in {"add_loss", "check_target", "fold", "get", "grab", "loop", "poison", "put", "return", "sync", "syncfold", "target"}
          /\ P[n].op = "add_loss" => n = 18
          /\ P[n].op = "check_target" => n = 3
          /\ P[n].op = "fold" => n \in {7, 14}
          /\ P[n].op = "get" => n \in {9, 16}
          /\ P[n].op = "grab" => n = 17
          /\ P[n].op = "loop" => n \in {4, 11}
          /\ P[n].op = "poison" => n = 20
          /\ P[n].op = "put" => n \in {5, 12}
          /\ P[n].op = "return" => n = 19
          /\ P[n].op = "syncfold" => n \in {8, 15}
          /\ P[n].op = "target" => n = 1
    BY <1>2, <1>3 DEF Opcodes
  <1>5. Reductions(P)
    <2>1. ASSUME NEW n \in DOMAIN P
          PROVE  /\ P[n].op = "put" => IsReduction(P, n)
                 /\ P[n].op = "fold" => n > 2 /\ P[n - 2].op = "put"
                 /\ P[n].op = "syncfold" => n > 3 /\ P[n - 3].op = "put"
                 /\ P[n].op = "get" => n > 4 /\ P[n - 4].op = "put"
      BY <1>2, <1>3, <1>4 DEF IsReduction, Reds
    <2>2. ASSUME NEW j \in DOMAIN P, NEW n \in DOMAIN P, P[j].op = "get", P[n].op = "put", j < n
          PROVE  BarrierBetween(P, j, n)
      BY <1>2, <1>3, <1>4, <2>2 DEF BarrierBetween, IsBarrier
    <2> QED BY <2>1, <2>2 DEF Reductions
  <1>6. Loops(P, act)
    <2>1. \A n \in DOMAIN P : P[n].op = "put" =>
            \E k \in DOMAIN P : k < n /\ P[k].op = "loop" /\ P[n].red \in P[k].reds
      BY <1>2, <1>3, <1>4, <1>l
    <2>2. ASSUME NEW j \in DOMAIN P, NEW n \in DOMAIN P, P[j].op = "loop", P[n].op = "loop"
          PROVE  /\ P[j].extent = P[n].extent
                 /\ P[j].reds \cap P[n].reds # {} => j = n
                 /\ P[j].keep # {} => n <= j
                 /\ P[j].adds # {} /\ P[n].adds # {} => j = n
      BY <1>2, <1>4, <1>l, <2>2
    <2>3. \A n \in DOMAIN P : P[n].op = "loop" => IsLoop(P[n], act)
      BY <1>2, <1>4, <1>i
    <2> QED BY <2>1, <2>2, <2>3 DEF Loops
  <1>7. Maps(P, act)
    BY <1>4 DEF Maps
  <1>8. Losses(P, act)
    <2>1. ASSUME NEW n \in DOMAIN P
          PROVE  /\ P[n].op = "target" => n = 1 /\ P[2].op = "sync"
                 /\ P[n].op = "check_target" => n = 3
                 /\ P[n].op \in Checks => P[1].op = "target"
                 /\ P[n].op = "grab" => P[1].op = "target" /\ n > 3 /\ P[n].ops = <<Op("x", act)>>
                 /\ P[n].op = "poison" => n = Len(P) /\ P[1].op = "target" /\ P[n].out \in {{}, {"x"}}
                 /\ P[n].op = "return" => n = Len(P) - 1 /\ P[1].op = "target"
                 /\ P[n].op = "add_loss" =>
                      P[1].op = "target" /\ \E j \in DOMAIN P : P[j].op = "grab" /\ j < n
                 /\ P[n].op = "loop" /\ P[n].keep # {} => P[1].op # "target"
      BY <1>2, <1>3, <1>4, <1>l, <1>s
    <2>2. /\ Len(P) > 5 /\ P[Len(P)].op = "poison" /\ P[Len(P) - 1].op = "return"
          /\ P[2].op = "sync" /\ P[3].op = "check_target"
          /\ \E n \in DOMAIN P : P[n].op = "add_loss"
          /\ P[Len(P)].out # {} <=> \E n \in DOMAIN P : P[n].op = "map"
          /\ P[Len(P)].out # {} =>
               /\ \E n \in DOMAIN P : P[n].op = "check_max"
               /\ \E n \in DOMAIN P : P[n].op = "check_sum"
      BY <1>2, <1>3, <1>4, <1>s
    <2>3. ASSUME NEW j \in DOMAIN P, NEW n \in DOMAIN P
          PROVE  /\ P[j].op = "add_loss" /\ P[n].op = "add_loss" => j = n
                 /\ P[j].op = "grab" /\ P[n].op \in Checks /\ j < n => BarrierBetween(P, j, n)
                 /\ P[j].op = "grab" /\ P[n].op = "map" => j < n /\ BarrierBetween(P, j, n)
                 /\ P[j].op \in Checks /\ P[n].op = "add_loss" => j < n
      <3>1. P[j].op = "add_loss" /\ P[n].op = "add_loss" => j = n
        BY <1>4
      <3>2. ASSUME P[j].op = "grab", P[n].op \in Checks, j < n
            PROVE  BarrierBetween(P, j, n)
        BY <1>2, <1>3, <1>4, <3>2 DEF Checks, BarrierBetween, IsBarrier
      <3>3. ASSUME P[j].op = "grab", P[n].op = "map"
            PROVE  j < n /\ BarrierBetween(P, j, n)
        BY <1>2, <1>3, <1>4, <3>3 DEF BarrierBetween, IsBarrier
      <3>4. P[j].op \in Checks /\ P[n].op = "add_loss" => j < n
        BY <1>4 DEF Checks
      <3> QED BY <3>1, <3>2, <3>3, <3>4
    <2> QED BY <2>1, <2>2, <2>3 DEF Losses
  <1>9. Totals(P, {"loss"})
    <2>1. P[1].op = "target"
      BY <1>3
    <2>2. \A n \in DOMAIN P : P[n].op = "loop" => P[n].adds = {}
      BY <1>2, <1>4, <1>l
    <2>3. ~ \E n \in DOMAIN P : P[n].op \in {"add_total", "put_total"}
      BY <1>4
    <2>4. ~{"loss"} = {"dgamma", "dbeta"} /\ ~{"loss"} = {"total"}
      OBVIOUS
    <2> QED BY <2>1, <2>2, <2>3, <2>4 DEF Totals
  <1> QED BY <1>2, <1>4, <1>5, <1>6, <1>7, <1>8, <1>9 DEF IsKernel, P

\* The kernel k is a kernel of activations of type act that adds to clears.
KernelOf(k, act, clears) == IsKernel(Programs[k], act, clears)

(* Every one of Programs is a kernel of the type its name says. *)
LEMMA EveryProgramIsKernel ==
  \A k \in DOMAIN Programs : KernelOf(k, ActOf(k), ClearsOf(k))
  <1>d. DOMAIN Programs = {"softmax_rows_f32",
          "softmax_rows_bf16act",
          "scaled_causal_softmax_rows_f32",
          "scaled_causal_softmax_rows_bf16act",
          "softmax_backward_rows_f32",
          "softmax_backward_rows_bf16act",
          "softmax_backward_causal_rows_f32",
          "softmax_backward_causal_rows_bf16act",
          "layernorm_forward_f32",
          "layernorm_forward_bf16act",
          "layernorm_backward_f32",
          "layernorm_backward_bf16act",
          "cross_entropy_mean_backward_inplace_f32",
          "cross_entropy_mean_backward_inplace_bf16act",
          "cross_entropy_mean_f32",
          "cross_entropy_mean_bf16act",
          "sum_squares_f32",
          "row_sum_f32",
          "row_sum_bf16act"}
    BY DEF Programs
  <1>1. KernelOf("softmax_rows_f32", ActOf("softmax_rows_f32"), ClearsOf("softmax_rows_f32"))
    <2>1. Programs["softmax_rows_f32"] = Softmax("F32", "row")
      BY DEF Programs, softmax_rows_f32
    <2>2. ActOf("softmax_rows_f32") = "F32"
      BY DEF ActOf, Bf16Kernels
    <2>3. ClearsOf("softmax_rows_f32") = {}
      BY DEF ClearsOf, LossKernels
    <2> QED BY <2>1, <2>2, <2>3, SoftmaxIsKernel DEF KernelOf
  <1>2. KernelOf("softmax_rows_bf16act", ActOf("softmax_rows_bf16act"), ClearsOf("softmax_rows_bf16act"))
    <2>1. Programs["softmax_rows_bf16act"] = Softmax("BF16", "row")
      BY DEF Programs, softmax_rows_bf16act
    <2>2. ActOf("softmax_rows_bf16act") = "BF16"
      BY DEF ActOf, Bf16Kernels
    <2>3. ClearsOf("softmax_rows_bf16act") = {}
      BY DEF ClearsOf, LossKernels
    <2> QED BY <2>1, <2>2, <2>3, SoftmaxIsKernel DEF KernelOf
  <1>3. KernelOf("scaled_causal_softmax_rows_f32", ActOf("scaled_causal_softmax_rows_f32"), ClearsOf("scaled_causal_softmax_rows_f32"))
    <2>1. Programs["scaled_causal_softmax_rows_f32"] = Softmax("F32", "causal")
      BY DEF Programs, scaled_causal_softmax_rows_f32
    <2>2. ActOf("scaled_causal_softmax_rows_f32") = "F32"
      BY DEF ActOf, Bf16Kernels
    <2>3. ClearsOf("scaled_causal_softmax_rows_f32") = {}
      BY DEF ClearsOf, LossKernels
    <2> QED BY <2>1, <2>2, <2>3, SoftmaxIsKernel DEF KernelOf
  <1>4. KernelOf("scaled_causal_softmax_rows_bf16act", ActOf("scaled_causal_softmax_rows_bf16act"), ClearsOf("scaled_causal_softmax_rows_bf16act"))
    <2>1. Programs["scaled_causal_softmax_rows_bf16act"] = Softmax("BF16", "causal")
      BY DEF Programs, scaled_causal_softmax_rows_bf16act
    <2>2. ActOf("scaled_causal_softmax_rows_bf16act") = "BF16"
      BY DEF ActOf, Bf16Kernels
    <2>3. ClearsOf("scaled_causal_softmax_rows_bf16act") = {}
      BY DEF ClearsOf, LossKernels
    <2> QED BY <2>1, <2>2, <2>3, SoftmaxIsKernel DEF KernelOf
  <1>5. KernelOf("softmax_backward_rows_f32", ActOf("softmax_backward_rows_f32"), ClearsOf("softmax_backward_rows_f32"))
    <2>1. Programs["softmax_backward_rows_f32"] = SoftmaxBackward("F32", "row")
      BY DEF Programs, softmax_backward_rows_f32
    <2>2. ActOf("softmax_backward_rows_f32") = "F32"
      BY DEF ActOf, Bf16Kernels
    <2>3. ClearsOf("softmax_backward_rows_f32") = {}
      BY DEF ClearsOf, LossKernels
    <2> QED BY <2>1, <2>2, <2>3, SoftmaxBackwardIsKernel DEF KernelOf
  <1>6. KernelOf("softmax_backward_rows_bf16act", ActOf("softmax_backward_rows_bf16act"), ClearsOf("softmax_backward_rows_bf16act"))
    <2>1. Programs["softmax_backward_rows_bf16act"] = SoftmaxBackward("BF16", "row")
      BY DEF Programs, softmax_backward_rows_bf16act
    <2>2. ActOf("softmax_backward_rows_bf16act") = "BF16"
      BY DEF ActOf, Bf16Kernels
    <2>3. ClearsOf("softmax_backward_rows_bf16act") = {}
      BY DEF ClearsOf, LossKernels
    <2> QED BY <2>1, <2>2, <2>3, SoftmaxBackwardIsKernel DEF KernelOf
  <1>7. KernelOf("softmax_backward_causal_rows_f32", ActOf("softmax_backward_causal_rows_f32"), ClearsOf("softmax_backward_causal_rows_f32"))
    <2>1. Programs["softmax_backward_causal_rows_f32"] = SoftmaxBackward("F32", "causal")
      BY DEF Programs, softmax_backward_causal_rows_f32
    <2>2. ActOf("softmax_backward_causal_rows_f32") = "F32"
      BY DEF ActOf, Bf16Kernels
    <2>3. ClearsOf("softmax_backward_causal_rows_f32") = {}
      BY DEF ClearsOf, LossKernels
    <2> QED BY <2>1, <2>2, <2>3, SoftmaxBackwardIsKernel DEF KernelOf
  <1>8. KernelOf("softmax_backward_causal_rows_bf16act", ActOf("softmax_backward_causal_rows_bf16act"), ClearsOf("softmax_backward_causal_rows_bf16act"))
    <2>1. Programs["softmax_backward_causal_rows_bf16act"] = SoftmaxBackward("BF16", "causal")
      BY DEF Programs, softmax_backward_causal_rows_bf16act
    <2>2. ActOf("softmax_backward_causal_rows_bf16act") = "BF16"
      BY DEF ActOf, Bf16Kernels
    <2>3. ClearsOf("softmax_backward_causal_rows_bf16act") = {}
      BY DEF ClearsOf, LossKernels
    <2> QED BY <2>1, <2>2, <2>3, SoftmaxBackwardIsKernel DEF KernelOf
  <1>9. KernelOf("layernorm_forward_f32", ActOf("layernorm_forward_f32"), ClearsOf("layernorm_forward_f32"))
    <2>1. Programs["layernorm_forward_f32"] = LayerNormForward("F32")
      BY DEF Programs, layernorm_forward_f32
    <2>2. ActOf("layernorm_forward_f32") = "F32"
      BY DEF ActOf, Bf16Kernels
    <2>3. ClearsOf("layernorm_forward_f32") = {}
      BY DEF ClearsOf, LossKernels
    <2> QED BY <2>1, <2>2, <2>3, LayerNormForwardIsKernel DEF KernelOf
  <1>10. KernelOf("layernorm_forward_bf16act", ActOf("layernorm_forward_bf16act"), ClearsOf("layernorm_forward_bf16act"))
    <2>1. Programs["layernorm_forward_bf16act"] = LayerNormForward("BF16")
      BY DEF Programs, layernorm_forward_bf16act
    <2>2. ActOf("layernorm_forward_bf16act") = "BF16"
      BY DEF ActOf, Bf16Kernels
    <2>3. ClearsOf("layernorm_forward_bf16act") = {}
      BY DEF ClearsOf, LossKernels
    <2> QED BY <2>1, <2>2, <2>3, LayerNormForwardIsKernel DEF KernelOf
  <1>11. KernelOf("layernorm_backward_f32", ActOf("layernorm_backward_f32"), ClearsOf("layernorm_backward_f32"))
    <2>1. Programs["layernorm_backward_f32"] = LayerNormBackward("F32")
      BY DEF Programs, layernorm_backward_f32
    <2>2. ActOf("layernorm_backward_f32") = "F32"
      BY DEF ActOf, Bf16Kernels
    <2>3. ClearsOf("layernorm_backward_f32") = {"dgamma", "dbeta"}
      BY DEF ClearsOf, LossKernels
    <2> QED BY <2>1, <2>2, <2>3, LayerNormBackwardIsKernel DEF KernelOf
  <1>12. KernelOf("layernorm_backward_bf16act", ActOf("layernorm_backward_bf16act"), ClearsOf("layernorm_backward_bf16act"))
    <2>1. Programs["layernorm_backward_bf16act"] = LayerNormBackward("BF16")
      BY DEF Programs, layernorm_backward_bf16act
    <2>2. ActOf("layernorm_backward_bf16act") = "BF16"
      BY DEF ActOf, Bf16Kernels
    <2>3. ClearsOf("layernorm_backward_bf16act") = {"dgamma", "dbeta"}
      BY DEF ClearsOf, LossKernels
    <2> QED BY <2>1, <2>2, <2>3, LayerNormBackwardIsKernel DEF KernelOf
  <1>13. KernelOf("cross_entropy_mean_backward_inplace_f32", ActOf("cross_entropy_mean_backward_inplace_f32"), ClearsOf("cross_entropy_mean_backward_inplace_f32"))
    <2>1. Programs["cross_entropy_mean_backward_inplace_f32"] = CrossEntropyBackward("F32")
      BY DEF Programs, cross_entropy_mean_backward_inplace_f32
    <2>2. ActOf("cross_entropy_mean_backward_inplace_f32") = "F32"
      BY DEF ActOf, Bf16Kernels
    <2>3. ClearsOf("cross_entropy_mean_backward_inplace_f32") = {"loss"}
      BY DEF ClearsOf, LossKernels
    <2> QED BY <2>1, <2>2, <2>3, CrossEntropyBackwardIsKernel DEF KernelOf
  <1>14. KernelOf("cross_entropy_mean_backward_inplace_bf16act", ActOf("cross_entropy_mean_backward_inplace_bf16act"), ClearsOf("cross_entropy_mean_backward_inplace_bf16act"))
    <2>1. Programs["cross_entropy_mean_backward_inplace_bf16act"] = CrossEntropyBackward("BF16")
      BY DEF Programs, cross_entropy_mean_backward_inplace_bf16act
    <2>2. ActOf("cross_entropy_mean_backward_inplace_bf16act") = "BF16"
      BY DEF ActOf, Bf16Kernels
    <2>3. ClearsOf("cross_entropy_mean_backward_inplace_bf16act") = {"loss"}
      BY DEF ClearsOf, LossKernels
    <2> QED BY <2>1, <2>2, <2>3, CrossEntropyBackwardIsKernel DEF KernelOf
  <1>15. KernelOf("cross_entropy_mean_f32", ActOf("cross_entropy_mean_f32"), ClearsOf("cross_entropy_mean_f32"))
    <2>1. Programs["cross_entropy_mean_f32"] = CrossEntropyMean("F32")
      BY DEF Programs, cross_entropy_mean_f32
    <2>2. ActOf("cross_entropy_mean_f32") = "F32"
      BY DEF ActOf, Bf16Kernels
    <2>3. ClearsOf("cross_entropy_mean_f32") = {"loss"}
      BY DEF ClearsOf, LossKernels
    <2> QED BY <2>1, <2>2, <2>3, CrossEntropyMeanIsKernel DEF KernelOf
  <1>16. KernelOf("cross_entropy_mean_bf16act", ActOf("cross_entropy_mean_bf16act"), ClearsOf("cross_entropy_mean_bf16act"))
    <2>1. Programs["cross_entropy_mean_bf16act"] = CrossEntropyMean("BF16")
      BY DEF Programs, cross_entropy_mean_bf16act
    <2>2. ActOf("cross_entropy_mean_bf16act") = "BF16"
      BY DEF ActOf, Bf16Kernels
    <2>3. ClearsOf("cross_entropy_mean_bf16act") = {"loss"}
      BY DEF ClearsOf, LossKernels
    <2> QED BY <2>1, <2>2, <2>3, CrossEntropyMeanIsKernel DEF KernelOf
  <1>17. KernelOf("sum_squares_f32", ActOf("sum_squares_f32"), ClearsOf("sum_squares_f32"))
    <2>1. Programs["sum_squares_f32"] = SumSquares
      BY DEF Programs, sum_squares_f32
    <2>2. ActOf("sum_squares_f32") = "F32"
      BY DEF ActOf, Bf16Kernels
    <2>3. ClearsOf("sum_squares_f32") = {"total"}
      BY DEF ClearsOf, LossKernels
    <2> QED BY <2>1, <2>2, <2>3, SumSquaresIsKernel DEF KernelOf
  <1>18. KernelOf("row_sum_f32", ActOf("row_sum_f32"), ClearsOf("row_sum_f32"))
    <2>1. Programs["row_sum_f32"] = RowSum("F32")
      BY DEF Programs, row_sum_f32
    <2>2. ActOf("row_sum_f32") = "F32"
      BY DEF ActOf, Bf16Kernels
    <2>3. ClearsOf("row_sum_f32") = {}
      BY DEF ClearsOf, LossKernels
    <2> QED BY <2>1, <2>2, <2>3, RowSumIsKernel DEF KernelOf
  <1>19. KernelOf("row_sum_bf16act", ActOf("row_sum_bf16act"), ClearsOf("row_sum_bf16act"))
    <2>1. Programs["row_sum_bf16act"] = RowSum("BF16")
      BY DEF Programs, row_sum_bf16act
    <2>2. ActOf("row_sum_bf16act") = "BF16"
      BY DEF ActOf, Bf16Kernels
    <2>3. ClearsOf("row_sum_bf16act") = {}
      BY DEF ClearsOf, LossKernels
    <2> QED BY <2>1, <2>2, <2>3, RowSumIsKernel DEF KernelOf
  <1> QED BY <1>d, <1>1, <1>2, <1>3, <1>4, <1>5, <1>6, <1>7, <1>8, <1>9, <1>10, <1>11, <1>12, <1>13, <1>14, <1>15, <1>16, <1>17, <1>18, <1>19

(* A launch runs a kernel with the type and the accumulators of its call. *)
LEMMA CodeIsKernel ==
  ASSUME SetUp
  PROVE  IsKernel(Code, calling.call.act, calling.call.clears)
  <1> DEFINE k == calling.call.kernel
  <1>1. k \in DOMAIN Programs
    BY CallsAsMade DEF SetUp
  <1>2. calling.call.act = ActOf(k)
    BY CallsAsMade DEF SetUp, ActOf
  <1>3. calling.call.clears = ClearsOf(k)
    BY CallsAsMade DEF SetUp, ClearsOf
  <1>4. KernelOf(k, ActOf(k), ClearsOf(k))
    BY <1>1, EveryProgramIsKernel
  <1> QED BY <1>2, <1>3, <1>4 DEF KernelOf, Code

(* What a call fixes: the sizes of a launch. *)
LEMMA CallFacts ==
  ASSUME SetUp
  PROVE  /\ BlockDim \in BlockSizes /\ BlockDim \in Nat /\ BlockDim > 1
         /\ calling.shape.rows \in Nat \ {0} /\ calling.shape.cols \in Nat \ {0}
         /\ Blocks \subseteq Nat /\ Threads \subseteq Nat /\ Cols \subseteq Nat
         /\ 0 \in Blocks /\ 0 \in Threads /\ 0 \in Cols
  <1>1. /\ calling.shape.threads \in BlockSizes
        /\ calling.shape.rows \in Nat \ {0} /\ calling.shape.cols \in Nat \ {0}
    BY PowersOfTwo DEF SetUp
  <1> QED BY <1>1 DEF BlockSizes, BlockDim, Blocks, Threads, Cols

(* The parts of IsKernel, for the kernel launched. *)
LEMMA CodeFacts ==
  ASSUME SetUp
  PROVE  /\ DOMAIN Code = 1..Len(Code) /\ Len(Code) \in Nat /\ Len(Code) > 4
         /\ \A n \in DOMAIN Code : Code[n].op \in Opcodes
         /\ Reductions(Code) /\ Loops(Code, calling.call.act) /\ Maps(Code, calling.call.act)
         /\ Losses(Code, calling.call.act) /\ Totals(Code, calling.call.clears)
  BY CodeIsKernel DEF IsKernel

(* The call does not change, nor what depends on it alone. *)
LEMMA SameCall ==
  ASSUME calling' = calling
  PROVE  /\ Code' = Code /\ Blocks' = Blocks /\ Threads' = Threads /\ Cols' = Cols
         /\ BlockDim' = BlockDim /\ LoopExtent' = LoopExtent
         /\ \A n, op : Is(n, op)' <=> Is(n, op)
         /\ \A n : Barrier(n)' <=> Barrier(n)
         /\ \A b, n : Fails(b, n)' <=> Fails(b, n)
         /\ \A b, n : Reaches(b, n)' <=> Reaches(b, n)
         /\ \A e, b : Extent(e, b)' = Extent(e, b)
         /\ \A e, b, t : Own(e, b, t)' = Own(e, b, t)
         /\ \A b, t, m : Share(b, t, m)' = Share(b, t, m)
         /\ \A f : At(f)' = At(f)
         /\ \A b : Bad(b)' <=> Bad(b)
         /\ SetUp => SetUp'
  BY DEF Code, Blocks, Threads, Cols, BlockDim, LoopExtent, Is, Barrier, Fails, Reaches, Extent, Own,
         Share, At, Bad, BadRow, SetUp

(* A row that passes a check goes on. *)
LEMMA ReachesNext ==
  ASSUME NEW b, NEW n \in Nat \ {0}, Reaches(b, n), ~Fails(b, n)
  PROVE  Reaches(b, n + 1)
  BY DEF Reaches

(* A row has come by what lies before it. *)
LEMMA ReachesBefore ==
  ASSUME NEW b, NEW n \in Nat, NEW m \in Nat, m <= n, Reaches(b, n)
  PROVE  Reaches(b, m)
  BY DEF Reaches

(* A row comes no further than the check it fails. *)
LEMMA ReachesUpToFailure ==
  ASSUME NEW b, NEW n \in Nat \ {0}, Reaches(b, n), Fails(b, n), NEW m \in Nat
  PROVE  Reaches(b, m) <=> m <= n
  BY DEF Reaches

(* The moves of one thread: to the next instruction, to the end of the     *)
(* kernel from a check that fails, or out of it.                           *)
Goes(b, t, j) == pc' = [pc EXCEPT ![b][t] = j]
ThreadMoves(b, t) ==
  /\ b \in Blocks /\ t \in Threads /\ calling' = calling
  /\ pc[b][t] \in DOMAIN Code /\ ~Barrier(pc[b][t])
  /\ \/ Goes(b, t, pc[b][t] + 1) /\ ~Fails(b, pc[b][t]) /\ ~Is(pc[b][t], "return")
     \/ Goes(b, t, Len(Code)) /\ Fails(b, pc[b][t])
     \/ Goes(b, t, Len(Code) + 1) /\ Is(pc[b][t], "return")

(* One thread moves, the others stay. *)
LEMMA PutFacts ==
  ASSUME SetUp, Shapes, NEW b \in Blocks, NEW t \in Threads, NEW j \in 1..(Len(Code) + 1), Goes(b, t, j)
  PROVE  /\ pc' \in [Blocks -> [Threads -> 1..(Len(Code) + 1)]]
         /\ pc'[b][t] = j
         /\ \A c \in Blocks, u \in Threads : c # b \/ u # t => pc'[c][u] = pc[c][u]
  BY DEF Goes, Shapes

(* What a thread has passed after it moved: what it had, and where it was. *)
Was(b, t, c, u, k) == Past(c, u, k) \/ (c = b /\ u = t /\ k = pc[b][t])

(* A thread that moves has passed where it was, keeps to its path, and no  *)
(* other thread has moved.                                                 *)
LEMMA MoveFacts ==
  ASSUME SetUp, Shapes, PathInv, NEW b, NEW t, ThreadMoves(b, t)
  PROVE  /\ pc' \in [Blocks -> [Threads -> 1..(Len(Code) + 1)]]
         /\ \A c \in Blocks, u \in Threads : c # b \/ u # t => pc'[c][u] = pc[c][u]
         /\ PathInv'
         /\ \A c \in Blocks, u \in Threads, k \in DOMAIN Code :
              ~Is(k, "poison") => (Past(c, u, k)' <=> Was(b, t, c, u, k))
  <1> DEFINE n == pc[b][t]
             L == Len(Code)
  <1>0. /\ L \in Nat /\ L > 4 /\ DOMAIN Code = 1..L
        /\ b \in Blocks /\ t \in Threads /\ calling' = calling /\ n \in 1..L
        /\ ~Is(n, "sync") /\ ~Is(n, "syncfold")
    BY CodeFacts DEF ThreadMoves, Barrier
  <1>s. /\ Code' = Code /\ Blocks' = Blocks /\ Threads' = Threads /\ SetUp'
        /\ \A m, op : Is(m, op)' <=> Is(m, op)
        /\ \A c, m : Reaches(c, m)' <=> Reaches(c, m)
    BY <1>0, SameCall
  \* what the losses say of the end of the code
  <1>1. /\ \A m \in 1..L : Fails(b, m) => m < L - 1 /\ Is(L, "poison")
        /\ \A m \in 1..L : Is(m, "return") => m = L - 1 /\ Is(L, "poison")
        /\ \A m \in 1..L : Is(m, "poison") => m = L
    <2>1. Losses(Code, calling.call.act)
      BY CodeFacts
    <2>2. \A m \in 1..L : /\ Code[m].op \in Checks => Code[1].op = "target"
                          /\ Code[m].op = "return" => m = L - 1 /\ Code[1].op = "target"
                          /\ Code[m].op = "poison" => m = L
      BY <1>0, <2>1 DEF Losses
    <2>3. Code[1].op = "target" => Code[L].op = "poison" /\ Code[L - 1].op = "return"
      BY <1>0, <2>1 DEF Losses
    <2>4. \A m \in 1..L : Fails(b, m) => Code[m].op \in Checks
      BY DEF Fails, Is, Checks
    <2>5. \A m \in 1..L : Code[m].op \in Checks /\ Code[L].op = "poison" /\ Code[L - 1].op = "return" => m < L - 1
      BY <1>0 DEF Checks
    <2>6. ASSUME NEW m \in 1..L, Fails(b, m) PROVE m < L - 1 /\ Is(L, "poison")
      <3>1. Code[m].op \in Checks /\ m \in DOMAIN Code
        BY <1>0, <2>4, <2>6
      <3>2. Code[1].op = "target"
        BY <1>0, <2>2, <3>1
      <3> QED BY <1>0, <2>3, <2>5, <3>1, <3>2 DEF Is
    <2>7. ASSUME NEW m \in 1..L, Is(m, "return") PROVE m = L - 1 /\ Is(L, "poison")
      <3>1. Code[m].op = "return"
        BY <2>7 DEF Is
      <3>2. m = L - 1 /\ Code[1].op = "target"
        BY <2>2, <3>1
      <3>3. L \in DOMAIN Code
        BY <1>0
      <3> QED BY <2>3, <3>2, <3>3 DEF Is
    <2>8. ASSUME NEW m \in 1..L, Is(m, "poison") PROVE m = L
      <3>1. Code[m].op = "poison"
        BY <2>8 DEF Is
      <3> QED BY <1>0, <2>2, <3>1
    <2> QED BY <2>6, <2>7, <2>8
  <1>2. CASE Goes(b, t, n + 1) /\ ~Fails(b, n) /\ ~Is(n, "return")
    <2>1. /\ pc' \in [Blocks -> [Threads -> 1..(L + 1)]] /\ pc'[b][t] = n + 1
          /\ \A c \in Blocks, u \in Threads : c # b \/ u # t => pc'[c][u] = pc[c][u]
      BY <1>0, <1>2, PutFacts
    <2>2. (Reaches(b, n) /\ ~Is(n, "poison")) \/ (n = L /\ Is(L, "poison") /\ ~Reaches(b, L))
      BY <1>0 DEF PathInv
    <2>3. CASE Reaches(b, n) /\ ~Is(n, "poison")
      <3>1. Reaches(b, n + 1)
        BY <1>0, <1>2, <2>3, ReachesNext
      <3>p. ~Is(n + 1, "poison")
        <4>1. ASSUME Is(n + 1, "poison") PROVE FALSE
          <5>1. n + 1 = L /\ Code[L].op = "poison"
            BY <1>0, <1>1, <4>1 DEF Is
          <5>2. Code[L - 1].op = "return"
            BY <1>0, <5>1, CodeFacts DEF Losses
          <5> QED BY <1>0, <1>2, <5>1, <5>2 DEF Is
        <4> QED BY <4>1
      <3>2. PathInv'
        <4>1. ASSUME NEW c \in Blocks, NEW u \in Threads
              PROVE  \/ Reaches(c, pc'[c][u]) /\ ~Is(pc'[c][u], "poison")
                     \/ /\ pc'[c][u] \in {Len(Code), Len(Code) + 1}
                        /\ Is(Len(Code), "poison") /\ ~Reaches(c, Len(Code))
          <5>1. CASE c = b /\ u = t
            BY <2>1, <3>1, <3>p, <5>1
          <5>2. CASE c # b \/ u # t
            BY <2>1, <5>2 DEF PathInv
          <5> QED BY <5>1, <5>2
        <4> QED BY <1>s, <4>1 DEF PathInv
      <3>3. ASSUME NEW c \in Blocks, NEW u \in Threads, NEW k \in DOMAIN Code, ~Is(k, "poison")
            PROVE  Past(c, u, k)' <=> Was(b, t, c, u, k)
        <4>1. CASE c = b /\ u = t
          BY <1>0, <1>s, <2>1, <2>3, <4>1 DEF Past, Was
        <4>2. CASE c # b \/ u # t
          BY <1>s, <2>1, <4>2 DEF Past, Was
        <4> QED BY <4>1, <4>2
      <3> QED BY <2>1, <3>2, <3>3
    <2>4. CASE n = L /\ Is(L, "poison") /\ ~Reaches(b, L)
      <3>2. PathInv'
        <4>1. ASSUME NEW c \in Blocks, NEW u \in Threads
              PROVE  \/ Reaches(c, pc'[c][u]) /\ ~Is(pc'[c][u], "poison")
                     \/ /\ pc'[c][u] \in {Len(Code), Len(Code) + 1}
                        /\ Is(Len(Code), "poison") /\ ~Reaches(c, Len(Code))
          <5>1. CASE c = b /\ u = t
            BY <2>1, <2>4, <5>1
          <5>2. CASE c # b \/ u # t
            BY <2>1, <5>2 DEF PathInv
          <5> QED BY <5>1, <5>2
        <4> QED BY <1>s, <4>1 DEF PathInv
      <3>3. ASSUME NEW c \in Blocks, NEW u \in Threads, NEW k \in DOMAIN Code, ~Is(k, "poison")
            PROVE  Past(c, u, k)' <=> Was(b, t, c, u, k)
        <4>0. k # L
          BY <2>4, <3>3
        <4>1. CASE c = b /\ u = t
          BY <1>0, <1>s, <2>1, <2>4, <4>0, <4>1 DEF Past, Was
        <4>2. CASE c # b \/ u # t
          BY <1>s, <2>1, <4>2 DEF Past, Was
        <4> QED BY <4>1, <4>2
      <3> QED BY <2>1, <3>2, <3>3
    <2> QED BY <2>2, <2>3, <2>4
  <1>3. CASE Goes(b, t, L) /\ Fails(b, n)
    <2>1. /\ pc' \in [Blocks -> [Threads -> 1..(L + 1)]] /\ pc'[b][t] = L
          /\ \A c \in Blocks, u \in Threads : c # b \/ u # t => pc'[c][u] = pc[c][u]
      BY <1>0, <1>3, PutFacts
    <2>2. n < L - 1 /\ Is(L, "poison")
      BY <1>0, <1>1, <1>3
    <2>3. Reaches(b, n)
      BY <1>0, <2>2 DEF PathInv
    <2>4. \A m \in Nat : Reaches(b, m) <=> m <= n
      BY <1>0, <1>3, <2>3, ReachesUpToFailure
    <2>5. PathInv'
      <3>1. ASSUME NEW c \in Blocks, NEW u \in Threads
            PROVE  \/ Reaches(c, pc'[c][u]) /\ ~Is(pc'[c][u], "poison")
                   \/ /\ pc'[c][u] \in {Len(Code), Len(Code) + 1}
                      /\ Is(Len(Code), "poison") /\ ~Reaches(c, Len(Code))
        <4>1. CASE c = b /\ u = t
          BY <1>0, <2>1, <2>2, <2>4, <4>1
        <4>2. CASE c # b \/ u # t
          BY <2>1, <4>2 DEF PathInv
        <4> QED BY <4>1, <4>2
      <3> QED BY <1>s, <3>1 DEF PathInv
    <2>6. ASSUME NEW c \in Blocks, NEW u \in Threads, NEW k \in DOMAIN Code, ~Is(k, "poison")
          PROVE  Past(c, u, k)' <=> Was(b, t, c, u, k)
      <3>0. k # L /\ k \in 1..L
        BY <1>0, <2>2, <2>6
      <3>1. CASE c = b /\ u = t
        BY <1>0, <1>s, <2>1, <2>2, <2>4, <3>0, <3>1 DEF Past, Was
      <3>2. CASE c # b \/ u # t
        BY <1>s, <2>1, <3>2 DEF Past, Was
      <3> QED BY <3>1, <3>2
    <2> QED BY <2>1, <2>5, <2>6
  <1>4. CASE Goes(b, t, L + 1) /\ Is(n, "return")
    <2>1. /\ pc' \in [Blocks -> [Threads -> 1..(L + 1)]] /\ pc'[b][t] = L + 1
          /\ \A c \in Blocks, u \in Threads : c # b \/ u # t => pc'[c][u] = pc[c][u]
      BY <1>0, <1>4, PutFacts
    <2>2. n = L - 1 /\ Is(L, "poison")
      BY <1>0, <1>1, <1>4
    <2>3. Reaches(b, n) /\ ~Fails(b, n) /\ ~Fails(b, L)
      <3>0. n = L - 1
        BY <2>2
      <3>1. L \in 1..L /\ ~(n < L - 1) /\ ~(L < L - 1) /\ n # L /\ n # L + 1
        <4>1. L \in 1..L
          BY <1>0
        <4>2. n < L
          BY <1>0, <3>0
        <4>3. ~(n < L - 1) /\ ~(L < L - 1)
          BY <1>0, <3>0
        <4>4. n # L /\ n # L + 1
          BY <1>0, <4>2
        <4> QED BY <4>1, <4>3, <4>4
      <3>2. ~Fails(b, n) /\ ~Fails(b, L)
        BY <1>0, <1>1, <3>1
      <3>3. Reaches(b, n)
        BY <3>1 DEF PathInv, ThreadMoves
      <3> QED BY <3>2, <3>3
    <2>4. Reaches(b, n + 1) /\ Reaches(b, L + 1)
      <3>1. Reaches(b, n + 1)
        BY <1>0, <2>3, ReachesNext
      <3>2. Reaches(b, L)
        BY <1>0, <2>2, <3>1
      <3> QED BY <1>0, <2>3, <3>1, <3>2, ReachesNext
    <2>p. ~Is(L + 1, "poison")
      BY <1>0 DEF Is
    <2>5. PathInv'
      <3>1. ASSUME NEW c \in Blocks, NEW u \in Threads
            PROVE  \/ Reaches(c, pc'[c][u]) /\ ~Is(pc'[c][u], "poison")
                   \/ /\ pc'[c][u] \in {Len(Code), Len(Code) + 1}
                      /\ Is(Len(Code), "poison") /\ ~Reaches(c, Len(Code))
        <4>1. CASE c = b /\ u = t
          BY <1>0, <2>1, <2>p, <2>4, <4>1
        <4>2. CASE c # b \/ u # t
          BY <2>1, <4>2 DEF PathInv
        <4> QED BY <4>1, <4>2
      <3> QED BY <1>s, <3>1 DEF PathInv
    <2>6. ASSUME NEW c \in Blocks, NEW u \in Threads, NEW k \in DOMAIN Code, ~Is(k, "poison")
          PROVE  Past(c, u, k)' <=> Was(b, t, c, u, k)
      <3>0. k \in 1..L /\ k # L
        BY <1>0, <2>2, <2>6
      <3>1. CASE c = b /\ u = t
        <4>1. Reaches(b, k)
          BY <1>0, <2>2, <2>4, <3>0, ReachesBefore
        <4> QED BY <1>0, <1>s, <2>1, <2>2, <3>0, <3>1, <4>1 DEF Past, Was
      <3>2. CASE c # b \/ u # t
        BY <1>s, <2>1, <3>2 DEF Past, Was
      <3> QED BY <3>1, <3>2
    <2> QED BY <2>1, <2>5, <2>6
  <1> QED BY <1>2, <1>3, <1>4 DEF ThreadMoves

(* The instruction a thread is at. *)
Doing(b, t) == Code[pc[b][t]].op

(* What each instruction of a thread does, and what it leaves alone. *)
Instruction(b, t) ==
  /\ Doing(b, t) = "loop" => RunLoop(b, t)
  /\ Doing(b, t) = "put" => Put(b, t)
  /\ Doing(b, t) = "fold" => Fold(b, t)
  /\ Doing(b, t) = "get" => Get(b, t)
  /\ Doing(b, t) = "map" => RunMap(b, t)
  /\ Doing(b, t) = "target" => ReadTargetOnce(b, t)
  /\ Doing(b, t) = "grab" => GrabLogit(b, t)
  /\ Doing(b, t) \in {"add_loss", "add_total", "put_total"} => AddToGrid(b, t)
  /\ Doing(b, t) \in Checks => Check(b, t)
  /\ Doing(b, t) = "poison" => PoisonRow(b, t)
  /\ Doing(b, t) = "return" => Return(b, t)

(* The variables only some instructions change. *)
Frame(b, t) ==
  /\ Doing(b, t) # "put" => stride' = stride
  /\ Doing(b, t) # "loop" => local' = local
  /\ Doing(b, t) # "get" => result' = result
  /\ Doing(b, t) # "grab" => grabbed' = grabbed
  /\ Doing(b, t) \notin {"put", "fold"} => scratch' = scratch
  /\ Doing(b, t) # "target" => sharedTarget' = sharedTarget
  /\ Doing(b, t) \notin {"loop", "map", "poison"} => mem' = mem
  /\ Doing(b, t) \notin {"loop", "add_loss", "add_total", "put_total", "poison"} => accum' = accum

(* A step of a thread is that of the instruction it is at. *)
LEMMA StepByOp ==
  ASSUME SetUp, Shapes, NEW b \in Blocks, NEW t \in Threads, ThreadStep(b, t)
  PROVE  /\ host = "wait" /\ host' = host /\ calling' = calling
         /\ pc[b][t] \in DOMAIN Code
         /\ Doing(b, t) \in Opcodes \ {"sync", "syncfold"}
         /\ Instruction(b, t) /\ Frame(b, t)
  <1>1. host = "wait" /\ host' = host /\ calling' = calling
    BY DEF ThreadStep
  <1>2. pc[b][t] \in DOMAIN Code
    <2>1. pc[b][t] \in 1..(Len(Code) + 1) /\ ~(pc[b][t] > Len(Code))
      BY DEF ThreadStep, Ended, Shapes
    <2>2. DOMAIN Code = 1..Len(Code) /\ Len(Code) \in Nat
      BY CodeFacts
    <2> QED BY <2>1, <2>2
  <1>3. Doing(b, t) \in Opcodes
    BY <1>2, CodeFacts DEF Doing
  <1>4. /\ Doing(b, t) \notin {"sync", "syncfold"}
        /\ Instruction(b, t) /\ Frame(b, t)
    <2>1. CASE RunLoop(b, t)
      <3>1. Doing(b, t) = "loop"
        BY <2>1 DEF RunLoop, Instr, Doing
      <3>2. Frame(b, t)
        BY <2>1, <3>1 DEF RunLoop, Frame
      <3> QED BY <2>1, <3>1, <3>2 DEF Instruction, Checks
    <2>2. CASE Put(b, t)
      <3>1. Doing(b, t) = "put"
        BY <2>2 DEF Put, Instr, Doing
      <3>2. Frame(b, t)
        BY <2>2, <3>1 DEF Put, Frame
      <3> QED BY <2>2, <3>1, <3>2 DEF Instruction, Checks
    <2>3. CASE Fold(b, t)
      <3>1. Doing(b, t) = "fold"
        BY <2>3 DEF Fold, Instr, Doing
      <3>2. Frame(b, t)
        BY <2>3, <3>1 DEF Fold, Frame
      <3> QED BY <2>3, <3>1, <3>2 DEF Instruction, Checks
    <2>4. CASE Get(b, t)
      <3>1. Doing(b, t) = "get"
        BY <2>4 DEF Get, Instr, Doing
      <3>2. Frame(b, t)
        BY <2>4, <3>1 DEF Get, Frame
      <3> QED BY <2>4, <3>1, <3>2 DEF Instruction, Checks
    <2>5. CASE RunMap(b, t)
      <3>1. Doing(b, t) = "map"
        BY <2>5 DEF RunMap, Instr, Doing
      <3>2. Frame(b, t)
        BY <2>5, <3>1 DEF RunMap, Frame
      <3> QED BY <2>5, <3>1, <3>2 DEF Instruction, Checks
    <2>6. CASE ReadTargetOnce(b, t)
      <3>1. Doing(b, t) = "target"
        BY <2>6 DEF ReadTargetOnce, Instr, Doing
      <3>2. Frame(b, t)
        BY <2>6, <3>1 DEF ReadTargetOnce, Frame
      <3> QED BY <2>6, <3>1, <3>2 DEF Instruction, Checks
    <2>7. CASE GrabLogit(b, t)
      <3>1. Doing(b, t) = "grab"
        BY <2>7 DEF GrabLogit, Instr, Doing
      <3>2. Frame(b, t)
        BY <2>7, <3>1 DEF GrabLogit, Frame
      <3> QED BY <2>7, <3>1, <3>2 DEF Instruction, Checks
    <2>8. CASE AddToGrid(b, t)
      <3>1. Doing(b, t) \in {"add_loss", "add_total", "put_total"}
        BY <2>8 DEF AddToGrid, Instr, Doing
      <3>2. Frame(b, t)
        BY <2>8, <3>1 DEF AddToGrid, Frame
      <3> QED BY <2>8, <3>1, <3>2 DEF Instruction, Checks
    <2>9. CASE Check(b, t)
      <3>1. Doing(b, t) \in Checks
        BY <2>9 DEF Check, Instr, Doing, Checks
      <3>2. Frame(b, t)
        BY <2>9, <3>1 DEF Check, Frame, Checks
      <3> QED BY <2>9, <3>1, <3>2 DEF Instruction, Checks
    <2>10. CASE PoisonRow(b, t)
      <3>1. Doing(b, t) = "poison"
        BY <2>10 DEF PoisonRow, Instr, Doing
      <3>2. Frame(b, t)
        BY <2>10, <3>1 DEF PoisonRow, Frame
      <3> QED BY <2>10, <3>1, <3>2 DEF Instruction, Checks
    <2>11. CASE Return(b, t)
      <3>1. Doing(b, t) = "return"
        BY <2>11 DEF Return, Instr, Doing
      <3>2. Frame(b, t)
        BY <2>11, <3>1 DEF Return, Frame
      <3> QED BY <2>11, <3>1, <3>2 DEF Instruction, Checks
    <2> QED BY <2>1, <2>2, <2>3, <2>4, <2>5, <2>6, <2>7, <2>8, <2>9, <2>10, <2>11 DEF ThreadStep
  <1> QED BY <1>1, <1>2, <1>3, <1>4

(* The kernels that read a target: where a row is checked. *)
LEMMA TargetCode ==
  ASSUME SetUp, Is(1, "target")
  PROVE  /\ Len(Code) > 5 /\ Is(2, "sync") /\ Is(3, "check_target")
         /\ Is(Len(Code), "poison") /\ Is(Len(Code) - 1, "return")
         /\ \A b : Reaches(b, 2) /\ Reaches(b, 3)
  <1>1. /\ DOMAIN Code = 1..Len(Code) /\ Len(Code) \in Nat /\ Len(Code) > 4
        /\ Losses(Code, calling.call.act)
    BY CodeFacts
  <1>2. /\ Len(Code) > 5 /\ Code[2].op = "sync" /\ Code[3].op = "check_target"
        /\ Code[Len(Code)].op = "poison" /\ Code[Len(Code) - 1].op = "return"
        /\ Code[1].op = "target"
    BY <1>1 DEF Losses, Is
  <1>3. ASSUME NEW b PROVE Reaches(b, 2) /\ Reaches(b, 3)
    <2>1. ~Fails(b, 1) /\ ~Fails(b, 2)
      BY <1>2 DEF Fails, Is
    <2> QED BY <2>1 DEF Reaches
  <1> QED BY <1>1, <1>2, <1>3 DEF Is

(* A thread has passed what lies before what it has passed. *)
LEMMA PastBefore ==
  ASSUME SetUp, NEW b, NEW t, NEW m \in Nat, NEW n \in Nat, m < n, Past(b, t, n), pc[b][t] \in Nat
  PROVE  Past(b, t, m)
  BY DEF Past, Reaches

(* Beyond the first barrier every thread sees the row's target. *)
LEMMA AfterTarget ==
  ASSUME SetUp, Shapes, Together, TargetInv, Is(1, "target"),
         NEW b \in Blocks, NEW t \in Threads, pc[b][t] > 2
  PROVE  /\ \A u \in Threads : Past(b, u, 2)
         /\ sharedTarget[b] = calling.targets[b]
  <1>1. Past(b, t, 2) /\ Barrier(2) /\ 2 \in DOMAIN Code
    BY TargetCode DEF Past, Barrier, Is
  <1>2. \A u \in Threads : Past(b, u, 2)
    BY <1>1 DEF Together
  <1>3. 0 \in Threads
    BY CallFacts
  <1>4. Past(b, 0, 1)
    <2>1. pc[b][0] \in Nat /\ Past(b, 0, 2)
      BY <1>2, <1>3, CodeFacts DEF Shapes
    <2> QED BY <2>1, PastBefore
  <1> QED BY <1>2, <1>4 DEF TargetInv

(* The checks all threads of a block answer alike. *)
LEMMA ChecksAnswerAlike ==
  ASSUME SetUp, Shapes, Together, TargetInv, NEW b \in Blocks, NEW t \in Threads,
         Is(pc[b][t], "check_target")
  PROVE  sharedTarget[b] = calling.targets[b] /\ \A u \in Threads : Past(b, u, 2)
  <1>1. pc[b][t] = 3 /\ Is(1, "target")
    <2>1. Losses(Code, calling.call.act) /\ pc[b][t] \in DOMAIN Code /\ Code[pc[b][t]].op = "check_target"
      BY CodeFacts DEF Is
    <2>2. pc[b][t] = 3 /\ Code[1].op = "target"
      BY <2>1 DEF Losses, Checks
    <2> QED BY <2>2, CodeFacts DEF Is
  <1> QED BY <1>1, AfterTarget

(* Every step of a thread is a move: the checks answer as Fails says. *)
LEMMA ThreadStepMoves ==
  ASSUME SetUp, Shapes, Together, TargetInv, NEW b \in Blocks, NEW t \in Threads, ThreadStep(b, t)
  PROVE  ThreadMoves(b, t)
  <1> DEFINE n == pc[b][t]
  <1>1. /\ calling' = calling /\ n \in DOMAIN Code
        /\ Doing(b, t) \in Opcodes \ {"sync", "syncfold"}
        /\ Instruction(b, t)
    BY StepByOp
  <1>2. \A op : Is(n, op) <=> Doing(b, t) = op
    BY <1>1 DEF Is, Doing
  <1>3. ~Barrier(n)
    BY <1>1, <1>2 DEF Barrier
  <1>4. CASE Doing(b, t) \in Checks
    <2>1. Check(b, t)
      BY <1>1, <1>4 DEF Instruction
    <2>2. ~Is(n, "return")
      BY <1>2, <1>4 DEF Checks
    <2>3. CASE Doing(b, t) = "check_target"
      <3>1. Is(n, "check_target") /\ ~Is(n, "check_max") /\ ~Is(n, "check_sum")
        BY <1>2, <2>3
      <3>2. Fails(b, n) <=> sharedTarget[b] \notin Cols
        BY <3>1, ChecksAnswerAlike DEF Fails
      <3>3. IF sharedTarget[b] \notin Cols THEN Jump(b, t, PoisonAt) ELSE Advance(b, t)
        BY <2>1, <2>3 DEF Check, Instr, Doing
      <3> QED BY <1>1, <1>3, <2>2, <3>2, <3>3 DEF ThreadMoves, Goes, Jump, Advance, PoisonAt
    <2>4. CASE Doing(b, t) = "check_max"
      <3>1. ~Is(n, "check_target") /\ Is(n, "check_max") /\ ~Is(n, "check_sum")
        BY <1>2, <2>4
      <3>2. Fails(b, n) <=> calling.rowData[b] = "infinite"
        BY <3>1 DEF Fails
      <3>3. IF calling.rowData[b] = "infinite" THEN Jump(b, t, PoisonAt) ELSE Advance(b, t)
        BY <2>1, <2>4 DEF Check, Instr, Doing
      <3> QED BY <1>1, <1>3, <2>2, <3>2, <3>3 DEF ThreadMoves, Goes, Jump, Advance, PoisonAt
    <2>5. CASE Doing(b, t) = "check_sum"
      <3>1. ~Is(n, "check_target") /\ ~Is(n, "check_max") /\ Is(n, "check_sum")
        BY <1>2, <2>5
      <3>2. Fails(b, n) <=> calling.rowData[b] = "nan"
        BY <3>1 DEF Fails
      <3>3. IF calling.rowData[b] = "nan" THEN Jump(b, t, PoisonAt) ELSE Advance(b, t)
        BY <2>1, <2>5 DEF Check, Instr, Doing
      <3> QED BY <1>1, <1>3, <2>2, <3>2, <3>3 DEF ThreadMoves, Goes, Jump, Advance, PoisonAt
    <2> QED BY <1>4, <2>3, <2>4, <2>5 DEF Checks
  <1>5. CASE Doing(b, t) = "return"
    <2>1. Return(b, t) /\ Is(n, "return")
      BY <1>1, <1>2, <1>5 DEF Instruction
    <2> QED BY <1>1, <1>3, <2>1 DEF ThreadMoves, Goes, Jump, Return
  <1>6. CASE Doing(b, t) \notin Checks \cup {"return"}
    <2>1. ~Fails(b, n) /\ ~Is(n, "return")
      BY <1>2, <1>6 DEF Fails, Checks
    <2>2. Advance(b, t)
      BY <1>1, <1>6 DEF Instruction, Opcodes, RunLoop, Put, Fold, Get, RunMap, ReadTargetOnce, GrabLogit,
                        AddToGrid, PoisonRow, Checks
    <2> QED BY <1>1, <1>3, <2>1, <2>2 DEF ThreadMoves, Goes, Advance
  <1> QED BY <1>4, <1>5, <1>6

(* The five instructions of a reduction, from its put on. *)
LEMMA ReductionCode ==
  ASSUME SetUp, NEW n, Is(n, "put")
  PROVE  /\ n \in Nat /\ n > 0 /\ n + 4 <= Len(Code) /\ Len(Code) \in Nat
         /\ Is(n + 1, "sync") /\ Is(n + 2, "fold") /\ Is(n + 3, "syncfold") /\ Is(n + 4, "get")
         /\ Code[n].red \in Reds /\ Code[n + 4].red = Code[n].red
  <1>1. DOMAIN Code = 1..Len(Code) /\ Len(Code) \in Nat /\ Reductions(Code)
    BY CodeFacts
  <1>2. n \in 1..Len(Code) /\ Code[n].op = "put"
    BY <1>1 DEF Is
  <1>3. IsReduction(Code, n)
    BY <1>1, <1>2 DEF Reductions
  <1>4. n + 1 \in 1..Len(Code) /\ n + 2 \in 1..Len(Code) /\ n + 3 \in 1..Len(Code) /\ n + 4 \in 1..Len(Code)
    BY <1>1, <1>2, <1>3 DEF IsReduction
  <1> QED BY <1>1, <1>2, <1>3, <1>4 DEF IsReduction, Is

(* The put of a reduction, from one of its instructions. *)
LEMMA ReductionOf ==
  ASSUME SetUp, NEW n
  PROVE  /\ Is(n, "fold") => Is(n - 2, "put") /\ n > 2
         /\ Is(n, "syncfold") => Is(n - 3, "put") /\ n > 3
         /\ Is(n, "get") => Is(n - 4, "put") /\ n > 4
         /\ n \in DOMAIN Code => n \in Nat
  <1>1. DOMAIN Code = 1..Len(Code) /\ Len(Code) \in Nat /\ Reductions(Code)
    BY CodeFacts
  <1>2. ASSUME Is(n, "fold") PROVE Is(n - 2, "put") /\ n > 2
    <2>1. n \in 1..Len(Code) /\ n > 2 /\ Code[n - 2].op = "put"
      BY <1>1, <1>2 DEF Is, Reductions
    <2> QED BY <1>1, <2>1 DEF Is
  <1>3. ASSUME Is(n, "syncfold") PROVE Is(n - 3, "put") /\ n > 3
    <2>1. n \in 1..Len(Code) /\ n > 3 /\ Code[n - 3].op = "put"
      BY <1>1, <1>3 DEF Is, Reductions
    <2> QED BY <1>1, <2>1 DEF Is
  <1>4. ASSUME Is(n, "get") PROVE Is(n - 4, "put") /\ n > 4
    <2>1. n \in 1..Len(Code) /\ n > 4 /\ Code[n - 4].op = "put"
      BY <1>1, <1>4 DEF Is, Reductions
    <2> QED BY <1>1, <2>1 DEF Is
  <1> QED BY <1>1, <1>2, <1>3, <1>4

(* Two reductions of a kernel have no instruction in common. *)
LEMMA ReductionsApart ==
  ASSUME SetUp, NEW m, NEW n, Is(m, "put"), Is(n, "put")
  PROVE  m = n \/ m + 4 < n \/ n + 4 < m
  <1>1. m \in Nat /\ n \in Nat
    BY ReductionCode
  <1>2. n # m + 1 /\ n # m + 2 /\ n # m + 3 /\ n # m + 4
    BY ReductionCode DEF Is
  <1>3. m # n + 1 /\ m # n + 2 /\ m # n + 3 /\ m # n + 4
    BY ReductionCode DEF Is
  <1> QED BY <1>1, <1>2, <1>3

(* A barrier between two instructions. *)
LEMMA BetweenIsBarrier ==
  ASSUME SetUp, NEW m \in DOMAIN Code, NEW n \in DOMAIN Code, BarrierBetween(Code, m, n)
  PROVE  \E k \in DOMAIN Code : m < k /\ k < n /\ Barrier(k)
  BY DEF BarrierBetween, IsBarrier, Barrier, Is

(* What the threads of a block have passed after a barrier: what they had, *)
(* but for the round of additions they go back to.                         *)
SamePast == \A c \in Blocks, u \in Threads, k \in DOMAIN Code :
              Code[k].op \notin {"sync", "syncfold", "fold"} => (Past(c, u, k)' <=> Past(c, u, k))

(* A barrier poisons nothing. *)
SamePoison == \A c \in Blocks, u \in Threads : Poisoned(c, u)' <=> Poisoned(c, u)

(* The block goes past its barrier, or back to the next round of           *)
(* additions.                                                              *)
Barriered(b) ==
  /\ host = "wait" /\ host' = host /\ calling' = calling
  /\ pc[b][0] \in DOMAIN Code /\ Barrier(pc[b][0])
  /\ \A t \in Threads : pc[b][t] = pc[b][0]
  /\ pc' \in [Blocks -> [Threads -> 1..(Len(Code) + 1)]]
  /\ \A c \in Blocks, u \in Threads : c # b => pc'[c][u] = pc[c][u]
  /\ \/ \A t \in Threads : pc'[b][t] = pc[b][0] + 1
     \/ Is(pc[b][0], "syncfold") /\ \A t \in Threads : pc'[b][t] = pc[b][0] - 1

(* A barrier moves the block as one. *)
LEMMA SyncMoves ==
  ASSUME SetUp, Shapes, NEW b \in Blocks, SyncThreads(b)
  PROVE  Barriered(b)
  <1> DEFINE k == pc[b][0]
             L == Len(Code)
             again == Instr(b, 0).op = "syncfold" /\ stride[b][0] \div 2 > 0
  <1>0. /\ DOMAIN Code = 1..L /\ L \in Nat /\ L > 4 /\ 0 \in Threads
        /\ pc \in [Blocks -> [Threads -> 1..(L + 1)]]
    BY CodeFacts, CallFacts DEF Shapes
  <1>1. /\ host = "wait" /\ host' = host /\ calling' = calling
        /\ \A t \in Threads : ~Ended(b, t) /\ pc[b][t] = k
        /\ Code[k].op \in {"sync", "syncfold"}
    BY DEF SyncThreads, Instr
  <1>2. k \in 1..L
    BY <1>0, <1>1 DEF Ended
  <1>3. Barrier(k) /\ (Is(k, "syncfold") => k > 3)
    BY <1>0, <1>1, <1>2, ReductionOf DEF Barrier, Is
  <1> HIDE DEF again, k, L
  <1>4. pc' = [pc EXCEPT ![b] = [t \in Threads |-> IF again THEN @[t] - 1 ELSE @[t] + 1]]
    BY DEF SyncThreads, again
  <1>5. again => Is(k, "syncfold")
    BY <1>0, <1>2 DEF again, Instr, Is, k
  <1>6. \A t \in Threads : pc'[b][t] = IF again THEN k - 1 ELSE k + 1
    <2>1. ASSUME NEW t \in Threads PROVE pc'[b][t] = IF again THEN pc[b][t] - 1 ELSE pc[b][t] + 1
      BY <1>0, <1>4
    <2> QED BY <1>1, <2>1
  <1>7. \A c \in Blocks, u \in Threads : c # b => pc'[c][u] = pc[c][u]
    BY <1>0, <1>4
  <1>8. pc' \in [Blocks -> [Threads -> 1..(L + 1)]]
    <2>1. \A t \in Threads : pc[b][t] = k
      BY <1>1
    <2>2. k - 1 \in Int /\ k + 1 \in 1..(L + 1) /\ (again => k - 1 \in 1..(L + 1))
      BY <1>0, <1>2, <1>3, <1>5
    <2>3. [t \in Threads |-> IF again THEN pc[b][t] - 1 ELSE pc[b][t] + 1] \in [Threads -> 1..(L + 1)]
      BY <2>1, <2>2
    <2> QED BY <1>0, <1>4, <2>3
  <1> QED BY <1>0, <1>1, <1>2, <1>3, <1>5, <1>6, <1>7, <1>8 DEF Barriered, k, L

(* A barrier keeps the path, and passes nothing but barriers and           *)
(* additions.                                                              *)
LEMMA BarrierFacts ==
  ASSUME SetUp, Shapes, PathInv, NEW b \in Blocks, Barriered(b)
  PROVE  /\ Reaches(b, pc[b][0]) /\ Reaches(b, pc[b][0] + 1)
         /\ PathInv' /\ SamePast /\ SamePoison
  <1> DEFINE k == pc[b][0]
             L == Len(Code)
  <1>0. /\ DOMAIN Code = 1..L /\ L \in Nat /\ L > 4 /\ 0 \in Threads
        /\ pc \in [Blocks -> [Threads -> 1..(L + 1)]]
        /\ k \in 1..L /\ calling' = calling
    BY CodeFacts, CallFacts DEF Shapes, Barriered
  <1>s. /\ Code' = Code /\ Blocks' = Blocks /\ Threads' = Threads
        /\ \A m, op : Is(m, op)' <=> Is(m, op)
        /\ \A c, m : Reaches(c, m)' <=> Reaches(c, m)
    BY <1>0, SameCall
  <1>1. Is(k, "sync") \/ Is(k, "syncfold")
    BY DEF Barriered, Barrier
  <1>2. ~Is(k, "poison") /\ ~Is(k, "return") /\ ~Fails(b, k)
    BY <1>1 DEF Is, Fails
  <1>3. Reaches(b, k)
    <2>1. k = L /\ Is(L, "poison") => FALSE
      BY <1>2
    <2>2. k # L + 1
      BY <1>0
    <2> QED BY <1>0, <2>1, <2>2 DEF PathInv
  <1>4. Reaches(b, k + 1)
    BY <1>0, <1>2, <1>3, ReachesNext
  <1>5. ~Is(k + 1, "poison")
    <2>1. ASSUME Is(k + 1, "poison") PROVE FALSE
      <3>1. Code[k + 1].op = "poison" /\ k + 1 \in 1..L /\ Losses(Code, calling.call.act)
        BY <1>0, <2>1, CodeFacts DEF Is
      <3>2. k + 1 = L /\ Code[1].op = "target"
        BY <1>0, <3>1 DEF Losses
      <3>3. Is(1, "target")
        BY <1>0, <3>2 DEF Is
      <3>4. Is(L - 1, "return") /\ L - 1 = k
        BY <1>0, <3>2, <3>3, TargetCode
      <3> QED BY <1>2, <3>4
    <2> QED BY <2>1
  <1>6. Is(k, "syncfold") => Is(k - 1, "fold") /\ Reaches(b, k - 1) /\ k > 3
    <2>1. ASSUME Is(k, "syncfold") PROVE Is(k - 1, "fold") /\ k > 3
      <3>1. Is(k - 3, "put") /\ k > 3
        BY <2>1, ReductionOf
      <3>2. Is(k - 3 + 2, "fold")
        BY <3>1, ReductionCode
      <3>3. k - 3 + 2 = k - 1
        BY <1>0
      <3> QED BY <3>1, <3>2, <3>3
    <2>2. k > 3 => Reaches(b, k - 1)
      BY <1>0, <1>3 DEF Reaches
    <2> QED BY <2>1, <2>2
  <1>7. \A t \in Threads : /\ pc[b][t] = k
                           /\ pc'[b][t] = k + 1 \/ (pc'[b][t] = k - 1 /\ Is(k, "syncfold"))
    BY DEF Barriered
  <1>8. \A c \in Blocks, u \in Threads : c # b => pc'[c][u] = pc[c][u]
    BY DEF Barriered
  <1>9. PathInv'
    <2>1. ASSUME NEW c \in Blocks, NEW u \in Threads
          PROVE  \/ Reaches(c, pc'[c][u]) /\ ~Is(pc'[c][u], "poison")
                 \/ /\ pc'[c][u] \in {Len(Code), Len(Code) + 1}
                    /\ Is(Len(Code), "poison") /\ ~Reaches(c, Len(Code))
      <3>1. CASE c = b
        <4>1. ~Is(k - 1, "poison") \/ ~Is(k, "syncfold")
          BY <1>6 DEF Is
        <4> QED BY <1>4, <1>5, <1>6, <1>7, <3>1, <4>1
      <3>2. CASE c # b
        BY <1>8, <3>2 DEF PathInv
      <3> QED BY <3>1, <3>2
    <2> QED BY <1>s, <2>1 DEF PathInv
  <1>10. SamePast
    <2>1. ASSUME NEW c \in Blocks, NEW u \in Threads, NEW m \in DOMAIN Code,
                 Code[m].op \notin {"sync", "syncfold", "fold"}
          PROVE  Past(c, u, m)' <=> Past(c, u, m)
      <3>1. CASE c = b
        <4>1. m # k /\ (Is(k, "syncfold") => m # k - 1) /\ m \in 1..L
          BY <1>0, <1>1, <1>6, <2>1 DEF Is
        <4>2. m < pc'[b][u] <=> m < pc[b][u]
          BY <1>0, <1>7, <4>1
        <4> QED BY <1>s, <3>1, <4>2 DEF Past
      <3>2. CASE c # b
        BY <1>s, <1>8, <3>2 DEF Past
      <3> QED BY <3>1, <3>2
    <2> QED BY <2>1 DEF SamePast
  <1>11. SamePoison
    <2>1. ASSUME NEW c \in Blocks, NEW u \in Threads PROVE Poisoned(c, u)' <=> Poisoned(c, u)
      <3>1. CASE c = b
        <4>1. pc[b][u] # L + 1
          BY <1>0, <1>7
        <4>2. ASSUME pc'[b][u] = L + 1, Is(L, "poison") PROVE FALSE
          <5>1. k = L
            BY <1>0, <1>7, <4>2
          <5> QED BY <1>2, <4>2, <5>1
        <4> QED BY <1>s, <3>1, <4>1, <4>2 DEF Poisoned
      <3>2. CASE c # b
        BY <1>s, <1>8, <3>2 DEF Poisoned
      <3> QED BY <3>1, <3>2
    <2> QED BY <2>1 DEF SamePoison
  <1> QED BY <1>3, <1>4, <1>9, <1>10, <1>11

(* Where a kernel ends, and that only one with a target has checks. *)
LEMMA PoisonCode ==
  ASSUME SetUp, NEW n
  PROVE  /\ Is(n, "poison") => n = Len(Code) /\ Is(1, "target")
         /\ Is(n, "return") => n = Len(Code) - 1 /\ Is(1, "target")
         /\ \A b : Fails(b, n) => Is(1, "target") /\ n \in DOMAIN Code /\ Code[n].op \in Checks
  <1>1. DOMAIN Code = 1..Len(Code) /\ Len(Code) \in Nat /\ Len(Code) > 4 /\ Losses(Code, calling.call.act)
    BY CodeFacts
  <1>2. 1 \in DOMAIN Code
    BY <1>1
  <1>3. Is(n, "poison") => n = Len(Code) /\ Is(1, "target")
    BY <1>1, <1>2 DEF Losses, Is
  <1>4. Is(n, "return") => n = Len(Code) - 1 /\ Is(1, "target")
    BY <1>1, <1>2 DEF Losses, Is
  <1>5. ASSUME NEW b, Fails(b, n) PROVE Is(1, "target") /\ n \in DOMAIN Code /\ Code[n].op \in Checks
    <2>1. n \in DOMAIN Code /\ Code[n].op \in Checks
      BY <1>5 DEF Fails, Is, Checks
    <2> QED BY <1>1, <1>2, <2>1 DEF Losses, Is
  <1> QED BY <1>3, <1>4, <1>5

(* An instruction and the one after it. *)
LEMMA JustBefore ==
  ASSUME NEW x \in Int, NEW y \in Int, x = y - 1
  PROVE  x # y /\ x # y + 1 /\ x + 1 = y
  OBVIOUS

(* Only the poisoning poisons. *)
LEMMA MovePoison ==
  ASSUME SetUp, Shapes, PathInv, NEW b, NEW t, ThreadMoves(b, t)
  PROVE  \A c \in Blocks, u \in Threads :
           Poisoned(c, u)' <=> Poisoned(c, u) \/ (c = b /\ u = t /\ Is(pc[b][t], "poison"))
  <1> DEFINE n == pc[b][t]
             L == Len(Code)
  <1>0. /\ DOMAIN Code = 1..L /\ L \in Nat /\ L > 4 /\ n \in 1..L
        /\ b \in Blocks /\ t \in Threads /\ calling' = calling
    BY CodeFacts DEF ThreadMoves
  <1>s. /\ Code' = Code /\ \A m, op : Is(m, op)' <=> Is(m, op)
        /\ \A c, m : Reaches(c, m)' <=> Reaches(c, m)
    BY <1>0, SameCall
  <1>1. \A c \in Blocks, u \in Threads : c # b \/ u # t => pc'[c][u] = pc[c][u]
    BY MoveFacts
  <1>2. ASSUME NEW c \in Blocks, NEW u \in Threads, c # b \/ u # t
        PROVE  Poisoned(c, u)' <=> Poisoned(c, u)
    BY <1>1, <1>2, <1>s DEF Poisoned
  <1>3. ~Poisoned(b, t)
    BY <1>0 DEF Poisoned
  <1>4. Poisoned(b, t)' <=> Is(n, "poison")
    <2>1. CASE Goes(b, t, n + 1) /\ ~Fails(b, n) /\ ~Is(n, "return")
      <3>1. pc'[b][t] = n + 1
        BY <1>0, <2>1, PutFacts
      <3>2. ASSUME n = L, Is(L, "poison") PROVE ~Reaches(b, L)
        BY <1>0, <3>2 DEF PathInv
      <3>3. Is(n, "poison") => n = L
        BY PoisonCode
      <3>4. pc'[b][t] = L + 1 <=> n = L
        BY <1>0, <3>1
      <3> QED BY <1>s, <3>2, <3>3, <3>4 DEF Poisoned
    <2>2. CASE Goes(b, t, L) /\ Fails(b, n)
      <3>0. L < L + 1
        BY <1>0
      <3>1. pc'[b][t] = L
        BY <1>0, <2>2, PutFacts
      <3>2. ~Is(n, "poison")
        BY <2>2 DEF Fails, Is
      <3> QED BY <1>s, <3>0, <3>1, <3>2 DEF Poisoned
    <2>3. CASE Goes(b, t, L + 1) /\ Is(n, "return")
      <3>1. ~Is(n, "poison") /\ n = L - 1 /\ ~Fails(b, n)
        BY <2>3, PoisonCode DEF Is, Fails
      <3>n. n # L /\ n # L + 1 /\ n + 1 = L
        <4>1. n \in Int /\ L \in Int /\ n = L - 1
          BY <1>0, <3>1
        <4> HIDE DEF n, L
        <4> QED BY <4>1, JustBefore
      <3>2. Reaches(b, n)
        BY <1>0, <3>n DEF PathInv
      <3>3. Reaches(b, n + 1)
        BY <1>0, <3>1, <3>2, ReachesNext
      <3> QED BY <1>s, <3>1, <3>n, <3>3 DEF Poisoned
    <2> QED BY <2>1, <2>2, <2>3 DEF ThreadMoves
  <1> QED BY <1>0, <1>2, <1>3, <1>4

(* A step of a thread passes no barrier. *)
LEMMA MoveTogether ==
  ASSUME SetUp, Shapes, PathInv, Together, NEW b, NEW t, ThreadMoves(b, t)
  PROVE  Together'
  <1>0. b \in Blocks /\ t \in Threads /\ calling' = calling /\ ~Barrier(pc[b][t])
    BY DEF ThreadMoves
  <1>s. /\ Code' = Code /\ Blocks' = Blocks /\ Threads' = Threads /\ \A k : Barrier(k)' <=> Barrier(k)
    BY <1>0, SameCall
  <1>1. ASSUME NEW c \in Blocks, NEW u \in Threads, NEW v \in Threads, NEW k \in DOMAIN Code,
               Barrier(k), Past(c, u, k)'
        PROVE  Past(c, v, k)'
    <2>1. ~Is(k, "poison") /\ k # pc[b][t]
      BY <1>0, <1>1 DEF Barrier, Is
    <2>2. Past(c, u, k)' <=> Was(b, t, c, u, k)
      BY <2>1, MoveFacts
    <2>3. Past(c, v, k)' <=> Was(b, t, c, v, k)
      BY <2>1, MoveFacts
    <2>4. Past(c, u, k)
      BY <1>1, <2>1, <2>2 DEF Was
    <2>5. Past(c, v, k)
      BY <1>1, <2>4 DEF Together
    <2> QED BY <2>3, <2>5 DEF Was
  <1> QED BY <1>s, <1>1 DEF Together

(* The threads of a block pass each barrier together. *)
LEMMA BarrierTogether ==
  ASSUME SetUp, Shapes, PathInv, Together, NEW b \in Blocks, Barriered(b)
  PROVE  Together'
  <1>0. /\ calling' = calling
        /\ \A u, v \in Threads : pc'[b][u] = pc'[b][v]
        /\ \A c \in Blocks, u \in Threads : c # b => pc'[c][u] = pc[c][u]
    BY DEF Barriered
  <1>s. /\ Code' = Code /\ Blocks' = Blocks /\ Threads' = Threads /\ \A k : Barrier(k)' <=> Barrier(k)
        /\ \A c, m : Reaches(c, m)' <=> Reaches(c, m)
    BY <1>0, SameCall
  <1>1. ASSUME NEW c \in Blocks, NEW u \in Threads, NEW v \in Threads, NEW k \in DOMAIN Code,
               Barrier(k), Past(c, u, k)'
        PROVE  Past(c, v, k)'
    <2>1. CASE c = b
      BY <1>0, <1>s, <1>1, <2>1 DEF Past
    <2>2. CASE c # b
      <3>1. Past(c, u, k)
        BY <1>0, <1>s, <1>1, <2>2 DEF Past
      <3>2. Past(c, v, k)
        BY <1>1, <3>1 DEF Together
      <3> QED BY <1>0, <1>s, <2>2, <3>2 DEF Past
    <2> QED BY <2>1, <2>2
  <1> QED BY <1>s, <1>1 DEF Together

(* A set of naturals has a least element. *)
LEMMA LeastNatural ==
  ASSUME NEW T \in SUBSET Nat, T # {}
  PROVE  \E x \in T : \A y \in T : x <= y
  <1>1. \A x, y \in Nat : x < y => <<x, y>> \in OpToRel(<, Nat)
    BY DEF OpToRel
  <1>2. PICK x \in T : \A y \in T : ~(<<y, x>> \in OpToRel(<, Nat))
    <2>1. IsWellFoundedOn(OpToRel(<, Nat), Nat)
      BY NatLessThanWellFounded
    <2> QED BY <2>1, WFMin
  <1>3. \A y \in T : ~(y < x)
    BY <1>1, <1>2, Zenon
  <1> QED BY <1>3

(* There is a first check a row fails. *)
LEMMA FirstFailure ==
  ASSUME NEW b, NEW n \in Nat, ~Reaches(b, n)
  PROVE  \E m \in 1..(n - 1) : Fails(b, m) /\ Reaches(b, m)
  <1> DEFINE S == {m \in Nat : m \in 1..(n - 1) /\ Fails(b, m)}
  <1>1. S # {} /\ S \subseteq Nat
    BY DEF Reaches
  <1>2. PICK m \in S : \A k \in S : m <= k
    BY <1>1, LeastNatural
  <1>3. Reaches(b, m)
    <2>1. ASSUME NEW k \in 1..(m - 1) PROVE ~Fails(b, k)
      BY <1>2, <2>1
    <2> QED BY <2>1 DEF Reaches
  <1> QED BY <1>2, <1>3

(* The instructions of a loop, as the kernels use them. *)
LEMMA LoopCode ==
  ASSUME SetUp, NEW n, Is(n, "loop")
  PROVE  IsLoop(Code[n], calling.call.act) /\ n \in DOMAIN Code /\ n \in Nat
  BY CodeFacts DEF Is, Loops

(* A step of a thread keeps the types. *)
LEMMA ThreadStepShapes ==
  ASSUME SetUp, Shapes, PathInv, Together, TargetInv, NEW b \in Blocks, NEW t \in Threads, ThreadStep(b, t)
  PROVE  Shapes'
  <1>0. ThreadMoves(b, t) /\ calling' = calling /\ Instruction(b, t) /\ Frame(b, t)
    BY ThreadStepMoves, StepByOp
  <1>s. /\ Code' = Code /\ Blocks' = Blocks /\ Threads' = Threads /\ Cols' = Cols
    BY <1>0, SameCall
  <1>1. pc' \in [Blocks -> [Threads -> 1..(Len(Code) + 1)]]
    BY <1>0, MoveFacts
  <1>2. DOMAIN stride' = Blocks /\ \A c \in Blocks : DOMAIN stride'[c] = Threads
    <2>1. CASE Doing(b, t) = "put"
      BY <1>0, <2>1 DEF Instruction, Put, Shapes
    <2>2. CASE Doing(b, t) # "put"
      BY <1>0, <2>2 DEF Frame, Shapes
    <2> QED BY <2>1, <2>2
  <1>3. /\ DOMAIN local' = Blocks
        /\ \A c \in Blocks : DOMAIN local'[c] = Threads /\ \A u \in Threads : DOMAIN local'[c][u] = Reds
    <2>1. CASE Doing(b, t) = "loop"
      <3> DEFINE own == Own(Instr(b, t).extent, b, t)
                 terms == UNION {{<<c, r>> : r \in Reads(b, Instr(b, t).ops, c)} : c \in own}
                 new(old) == [r \in Reds |-> IF r \in Instr(b, t).reds
                                             THEN Added(Empty(r), terms) ELSE old[r]]
      <3>1. local' = [local EXCEPT ![b][t] = new(@)]
        BY <1>0, <2>1 DEF Instruction, RunLoop
      <3>2. \A old : DOMAIN new(old) = Reds
        OBVIOUS
      <3> HIDE DEF new
      <3> QED BY <3>1, <3>2 DEF Shapes
    <2>2. CASE Doing(b, t) # "loop"
      BY <1>0, <2>2 DEF Frame, Shapes
    <2> QED BY <2>1, <2>2
  <1>4. /\ DOMAIN result' = Blocks
        /\ \A c \in Blocks : DOMAIN result'[c] = Threads /\ \A u \in Threads : DOMAIN result'[c][u] = Reds
    <2>1. CASE Doing(b, t) = "get"
      <3> DEFINE r == Instr(b, t).red
      <3>1. result' = [result EXCEPT ![b][t][r] = scratch[b][0]]
        BY <1>0, <2>1 DEF Instruction, Get
      <3> HIDE DEF r
      <3>2. ASSUME NEW c \in Blocks, NEW u \in Threads
            PROVE  result'[c][u] = IF c = b /\ u = t THEN [result[b][t] EXCEPT ![r] = scratch[b][0]]
                                                    ELSE result[c][u]
        BY <3>1, <3>2 DEF Shapes
      <3>3. DOMAIN result' = Blocks /\ \A c \in Blocks : DOMAIN result'[c] = Threads
        BY <3>1 DEF Shapes
      <3>4. DOMAIN [result[b][t] EXCEPT ![r] = scratch[b][0]] = Reds
        BY DEF Shapes
      <3>5. ASSUME NEW c \in Blocks, NEW u \in Threads PROVE DOMAIN result'[c][u] = Reds
        <4>1. CASE c = b /\ u = t
          BY <3>2, <3>4, <4>1
        <4>2. CASE ~(c = b /\ u = t)
          BY <3>2, <4>2 DEF Shapes
        <4> QED BY <4>1, <4>2
      <3> QED BY <3>3, <3>5
    <2>2. CASE Doing(b, t) # "get"
      BY <1>0, <2>2 DEF Frame, Shapes
    <2> QED BY <2>1, <2>2
  <1>5. DOMAIN scratch' = Blocks /\ \A c \in Blocks : DOMAIN scratch'[c] = Threads
    <2>1. CASE Doing(b, t) = "put"
      BY <1>0, <2>1 DEF Instruction, Put, Shapes
    <2>2. CASE Doing(b, t) = "fold"
      BY <1>0, <2>2 DEF Instruction, Fold, Shapes
    <2>3. CASE Doing(b, t) \notin {"put", "fold"}
      BY <1>0, <2>3 DEF Frame, Shapes
    <2> QED BY <2>1, <2>2, <2>3
  <1>6. DOMAIN grabbed' = Blocks
    <2>1. CASE Doing(b, t) = "grab"
      BY <1>0, <2>1 DEF Instruction, GrabLogit, Shapes
    <2>2. CASE Doing(b, t) # "grab"
      BY <1>0, <2>2 DEF Frame, Shapes
    <2> QED BY <2>1, <2>2
  <1>7. DOMAIN sharedTarget' = Blocks
    <2>1. CASE Doing(b, t) = "target"
      BY <1>0, <2>1 DEF Instruction, ReadTargetOnce, Shapes
    <2>2. CASE Doing(b, t) # "target"
      BY <1>0, <2>2 DEF Frame, Shapes
    <2> QED BY <2>1, <2>2
  <1>8. DOMAIN touched' = Blocks
    <2>1. ASSUME NEW A, Touch(b, t, A) PROVE DOMAIN touched' = Blocks
      BY <2>1 DEF Touch, Shapes
    <2>2. touched' = touched \/ \E A : Touch(b, t, A)
      BY DEF ThreadStep, RunLoop, Put, Fold, Get, RunMap, ReadTargetOnce, GrabLogit, AddToGrid, Check,
             PoisonRow, Return
    <2> QED BY <2>1, <2>2 DEF Shapes
  <1>9. /\ DOMAIN mem' = Blocks
        /\ \A c \in Blocks : DOMAIN mem'[c] = Buffers /\ \A f \in Buffers : DOMAIN mem'[c][f] = Cols
    <2>1. ASSUME NEW f, NEW row, mem' = [mem EXCEPT ![b][f] = row], DOMAIN row = Cols
          PROVE  /\ DOMAIN mem' = Blocks
                 /\ \A c \in Blocks : DOMAIN mem'[c] = Buffers /\ \A g \in Buffers : DOMAIN mem'[c][g] = Cols
      BY <2>1 DEF Shapes
    <2>2. mem' = mem \/ \E f : \E row : mem' = [mem EXCEPT ![b][f] = row] /\ DOMAIN row = Cols
      <3>1. CASE Doing(b, t) = "loop"
        <4> DEFINE own == Own(Instr(b, t).extent, b, t)
                   kept == IF Instr(b, t).keep = {} THEN {} ELSE Own("row", b, t)
                   row == [c \in Cols |-> CASE c \in kept \ own -> "zero"
                             [] c \in kept \cap own ->
                                  IF AsMeant(b, Instr(b, t).ops, c) THEN "exp" ELSE "junk"
                             [] OTHER -> mem[b][At("out")][c]]
        <4>1. mem' = [mem EXCEPT ![b][At("out")] = row] /\ DOMAIN row = Cols
          BY <1>0, <3>1 DEF Instruction, RunLoop
        <4> HIDE DEF row
        <4> QED BY <4>1
      <3>2. CASE Doing(b, t) = "map"
        <4> DEFINE i == Instr(b, t)
                   own == Own(i.over, b, t)
                   inside == own \cap Extent(i.extent, b)
                   row == [c \in Cols |-> CASE c \in inside -> IF AsMeant(b, i.ops, c) THEN i.value ELSE "junk"
                                            [] c \in own \ inside -> "zero"
                                            [] OTHER -> mem[b][At(i.out)][c]]
        <4>1. mem' = [mem EXCEPT ![b][At(i.out)] = row] /\ DOMAIN row = Cols
          BY <1>0, <3>2 DEF Instruction, RunMap
        <4> HIDE DEF row
        <4> QED BY <4>1
      <3>3. CASE Doing(b, t) = "poison"
        <4> DEFINE row == [c \in Cols |-> IF c \in Own("row", b, t) /\ Instr(b, t).out # {} THEN "nan"
                                          ELSE mem[b]["x"][c]]
        <4>1. mem' = [mem EXCEPT ![b]["x"] = row] /\ DOMAIN row = Cols
          BY <1>0, <3>3 DEF Instruction, PoisonRow
        <4> HIDE DEF row
        <4> QED BY <4>1
      <3>4. CASE Doing(b, t) \notin {"loop", "map", "poison"}
        BY <1>0, <3>4 DEF Frame
      <3> QED BY <3>1, <3>2, <3>3, <3>4
    <2>3. CASE mem' = mem
      BY <2>3 DEF Shapes
    <2>4. CASE \E f : \E row : mem' = [mem EXCEPT ![b][f] = row] /\ DOMAIN row = Cols
      <3>1. PICK f, row : mem' = [mem EXCEPT ![b][f] = row] /\ DOMAIN row = Cols
        BY <2>4
      <3> QED BY <2>1, <3>1
    <2> QED BY <2>2, <2>3, <2>4
  <1>10. /\ DOMAIN accum' = Accumulators
         /\ \A a \in {"loss", "total"} : DOMAIN accum'[a] = 0..(calling.shape.cols + calling.shape.rows)
         /\ \A a \in Accumulators : Cols \subseteq DOMAIN accum'[a]
    <2>1. CASE Doing(b, t) = "loop"
      <3>1. Instr(b, t).adds \subseteq {"dgamma", "dbeta"}
        <4>1. Is(pc[b][t], "loop")
          BY <2>1, StepByOp DEF Is, Doing
        <4> QED BY <4>1, LoopCode DEF IsLoop, Instr
      <3> DEFINE own == Own(Instr(b, t).extent, b, t)
                 new(a) == [c \in Cols |-> IF c \in own THEN Added(accum[a][c], {b}) ELSE accum[a][c]]
      <3>2. accum' = [a \in Accumulators |-> IF a \in Instr(b, t).adds THEN new(a) ELSE accum[a]]
        BY <1>0, <2>1 DEF Instruction, RunLoop
      <3>3. \A a : DOMAIN new(a) = Cols
        OBVIOUS
      <3> HIDE DEF new
      <3> QED BY <3>1, <3>2, <3>3 DEF Shapes, Accumulators
    <2>2. CASE Doing(b, t) \in {"add_loss", "add_total", "put_total", "poison"}
      <3>1. ASSUME NEW a, NEW k, NEW v, accum' = [accum EXCEPT ![a][k] = v]
            PROVE  /\ DOMAIN accum' = DOMAIN accum
                   /\ \A d \in DOMAIN accum : DOMAIN accum'[d] = DOMAIN accum[d]
        BY <3>1
      <3>2. accum' = accum \/ \E a, k, v : accum' = [accum EXCEPT ![a][k] = v]
        <4>1. CASE Doing(b, t) = "poison"
          <5> DEFINE v == Added(accum["loss"][0], {<<b, "nan">>})
          <5>1. accum' = IF t = 0 THEN [accum EXCEPT !["loss"][0] = v] ELSE accum
            BY <1>0, <4>1 DEF Instruction, PoisonRow
          <5> HIDE DEF v
          <5> QED BY <5>1
        <4>2. CASE Doing(b, t) \in {"add_loss", "add_total", "put_total"}
          <5>1. AddToGrid(b, t)
            BY <1>0, <4>2 DEF Instruction
          <5>2. CASE t = 0 /\ Doing(b, t) = "add_loss"
            BY <5>1, <5>2 DEF AddToGrid, Doing, Instr
          <5>3. CASE t = 0 /\ Doing(b, t) = "add_total"
            BY <5>1, <5>3 DEF AddToGrid, Doing, Instr
          <5>4. CASE t = 0 /\ Doing(b, t) = "put_total"
            BY <5>1, <5>4 DEF AddToGrid, Doing, Instr
          <5>5. CASE t # 0
            BY <5>1, <5>5 DEF AddToGrid
          <5> QED BY <4>2, <5>2, <5>3, <5>4, <5>5
        <4> QED BY <2>2, <4>1, <4>2
      <3>3. CASE accum' = accum
        BY <3>3 DEF Shapes
      <3>4. CASE \E a, k, v : accum' = [accum EXCEPT ![a][k] = v]
        <4>1. PICK a, k, v : accum' = [accum EXCEPT ![a][k] = v]
          BY <3>4
        <4>2. /\ DOMAIN accum' = DOMAIN accum
              /\ \A d \in DOMAIN accum : DOMAIN accum'[d] = DOMAIN accum[d]
          BY <3>1, <4>1
        <4> QED BY <4>2 DEF Shapes, Accumulators
      <3> QED BY <3>2, <3>3, <3>4
    <2>3. CASE Doing(b, t) \notin {"loop", "add_loss", "add_total", "put_total", "poison"}
      BY <1>0, <2>3 DEF Frame, Shapes
    <2> QED BY <2>1, <2>2, <2>3
  <1> QED BY <1>s, <1>0, <1>1, <1>2, <1>3, <1>4, <1>5, <1>6, <1>7, <1>8, <1>9, <1>10 DEF Shapes

(* So does a barrier. *)
LEMMA SyncShapes ==
  ASSUME SetUp, Shapes, NEW b \in Blocks, SyncThreads(b)
  PROVE  Shapes'
  <1>0. /\ calling' = calling
        /\ pc' \in [Blocks -> [Threads -> 1..(Len(Code) + 1)]]
    BY SyncMoves DEF Barriered
  <1>s. /\ Code' = Code /\ Blocks' = Blocks /\ Threads' = Threads /\ Cols' = Cols
    BY <1>0, SameCall
  <1>1. UNCHANGED <<local, result, grabbed, scratch, sharedTarget, mem, accum>>
    BY DEF SyncThreads
  <1>2. DOMAIN stride' = Blocks /\ \A c \in Blocks : DOMAIN stride'[c] = Threads
    <2> DEFINE halved == [t \in Threads |-> stride[b][t] \div 2]
    <2>1. stride' = stride \/ stride' = [stride EXCEPT ![b] = halved]
      BY DEF SyncThreads
    <2>2. DOMAIN halved = Threads
      OBVIOUS
    <2> HIDE DEF halved
    <2> QED BY <2>1, <2>2 DEF Shapes
  <1>3. DOMAIN touched' = Blocks
    BY DEF SyncThreads, Shapes
  <1> QED BY <1>0, <1>s, <1>1, <1>2, <1>3 DEF Shapes

(* Every column has its thread. *)
LEMMA OwnerOf ==
  ASSUME SetUp, NEW c \in Cols
  PROVE  c % BlockDim \in Threads
  <1>1. c \in Nat /\ BlockDim \in Nat /\ BlockDim > 1
    BY CallFacts
  <1> HIDE DEF BlockDim
  <1>2. c % BlockDim \in 0..(BlockDim - 1)
    BY <1>1
  <1> QED BY <1>2 DEF Threads, BlockDim

(* Where a thread is, it has come to without failing a check. *)
LEMMA OnPath ==
  ASSUME SetUp, Shapes, PathInv, NEW b \in Blocks, NEW t \in Threads,
         pc[b][t] \in DOMAIN Code, ~Is(pc[b][t], "poison")
  PROVE  Reaches(b, pc[b][t]) /\ pc[b][t] \in Nat
  <1>1. DOMAIN Code = 1..Len(Code) /\ Len(Code) \in Nat
    BY CodeFacts
  <1>2. pc[b][t] = Len(Code) /\ Is(Len(Code), "poison") => FALSE
    OBVIOUS
  <1> DEFINE n == pc[b][t]
  <1>3. n \in Nat /\ n <= Len(Code)
    BY <1>1
  <1> QED BY <1>1, <1>2, <1>3 DEF PathInv

(* While a thread reads the target's logit, no thread of the block has     *)
(* written its part of the logits.                                         *)
LEMMA GrabBeforeWrites ==
  ASSUME SetUp, Shapes, PathInv, Together, NEW b \in Blocks, NEW t \in Threads,
         Is(pc[b][t], "grab"), NEW u \in Threads
  PROVE  ~Overwritten(b, u)
  <1> DEFINE n == pc[b][t]
             L == Len(Code)
  <1>1. /\ DOMAIN Code = 1..L /\ L \in Nat /\ n \in 1..L /\ Losses(Code, calling.call.act)
        /\ Code[n].op = "grab" /\ pc[b][u] \in Nat
    BY CodeFacts DEF Is, Shapes
  <1>2. Reaches(b, n)
    BY <1>1, OnPath DEF Is
  <1>3. ASSUME NEW k \in DOMAIN Code, Is(k, "map"), Past(b, u, k) PROVE FALSE
    <2>1. BarrierBetween(Code, n, k)
      BY <1>1, <1>3 DEF Losses, Is
    <2>2. PICK j \in DOMAIN Code : n < j /\ j < k /\ Barrier(j)
      BY <1>1, <2>1, BetweenIsBarrier
    <2>3. Past(b, u, j)
      BY <1>1, <1>3, <2>2, PastBefore
    <2>4. Past(b, t, j)
      BY <2>2, <2>3 DEF Together
    <2> QED BY <1>1, <2>2, <2>4 DEF Past
  <1>4. ASSUME Poisoned(b, u) PROVE FALSE
    <2>1. pc[b][u] = L + 1 /\ ~Reaches(b, L)
      BY <1>4 DEF Poisoned
    <2>2. PICK m \in 1..(L - 1) : Fails(b, m) /\ Reaches(b, m)
      BY <1>1, <2>1, FirstFailure
    <2>3. m \in DOMAIN Code /\ Code[m].op \in Checks /\ m # n
      BY <1>1, <2>2, PoisonCode DEF Checks
    <2>4. ~(m < n)
      BY <1>1, <1>2, <2>2 DEF Reaches
    <2>5. n < m
      BY <1>1, <2>2, <2>3, <2>4
    <2>6. BarrierBetween(Code, n, m)
      BY <1>1, <2>3, <2>5 DEF Losses
    <2>7. PICK j \in DOMAIN Code : n < j /\ j < m /\ Barrier(j)
      BY <1>1, <2>3, <2>6, BetweenIsBarrier
    <2>8. Reaches(b, j)
      BY <1>1, <2>2, <2>7 DEF Reaches
    <2>9. Past(b, u, j)
      BY <1>1, <2>1, <2>2, <2>7, <2>8 DEF Past
    <2>10. Past(b, t, j)
      BY <2>7, <2>9 DEF Together
    <2> QED BY <1>1, <2>7, <2>10 DEF Past
  <1> QED BY <1>3, <1>4 DEF Overwritten

(* So the logit read is the original one, of the row's target. *)
LEMMA LogitsAreOriginal ==
  ASSUME SetUp, Shapes, PathInv, Together, TargetInv, MemInv, NEW b \in Blocks, NEW t \in Threads,
         Is(pc[b][t], "grab")
  PROVE  /\ sharedTarget[b] = calling.targets[b] /\ calling.targets[b] \in Cols
         /\ \A c \in Cols : mem[b]["x"][c] = "in"
         /\ pc[b][t] > 3 /\ Is(1, "target") /\ Reaches(b, pc[b][t])
  <1> DEFINE n == pc[b][t]
             L == Len(Code)
  <1>1. /\ DOMAIN Code = 1..L /\ L \in Nat /\ L > 4 /\ n \in 1..L /\ Losses(Code, calling.call.act)
        /\ Code[n].op = "grab"
    BY CodeFacts DEF Is
  <1>2. n > 3 /\ Is(1, "target")
    BY <1>1 DEF Losses, Is
  <1>3. Reaches(b, n)
    BY <1>1, OnPath DEF Is
  <1>4. sharedTarget[b] = calling.targets[b]
    BY <1>1, <1>2, AfterTarget
  <1>5. calling.targets[b] \in Cols
    <2>1. ~Fails(b, 3)
      BY <1>1, <1>2, <1>3 DEF Reaches
    <2>2. Is(3, "check_target")
      BY <1>2, TargetCode
    <2> QED BY <2>1, <2>2 DEF Fails
  <1>6. ASSUME NEW c \in Cols PROVE mem[b]["x"][c] = "in"
    <2> DEFINE u == c % BlockDim
    <2>1. u \in Threads
      BY OwnerOf
    <2> HIDE DEF u
    <2>2. ~Overwritten(b, u)
      BY <2>1, GrabBeforeWrites
    <2>3. ~MapWritten(b, u, "x") /\ ~PoisonWritten(b, u, "x")
      BY <2>2 DEF Overwritten, MapWritten, PoisonWritten
    <2>4. ~LoopWritten(b, u, "x")
      BY <1>1, <1>2 DEF LoopWritten, Losses, Is
    <2>5. CellInv(b, "x", c)
      BY DEF MemInv, Buffers
    <2>6. mem[b]["x"][c] = IF "x" = "out" THEN "old" ELSE "in"
      BY <2>3, <2>4, <2>5 DEF CellInv, u
    <2> QED BY <2>6
  <1> QED BY <1>2, <1>3, <1>4, <1>5, <1>6

(* A step of a thread keeps the shared target and the logit grabbed. *)
LEMMA ThreadStepTarget ==
  ASSUME SetUp, Shapes, PathInv, Together, TargetInv, MemInv, NEW b \in Blocks, NEW t \in Threads,
         ThreadStep(b, t)
  PROVE  TargetInv'
  <1> DEFINE n == pc[b][t]
  <1>0. /\ ThreadMoves(b, t) /\ calling' = calling /\ Instruction(b, t) /\ Frame(b, t)
        /\ n \in DOMAIN Code
    BY ThreadStepMoves, StepByOp
  <1>s. /\ Code' = Code /\ Blocks' = Blocks /\ Threads' = Threads
        /\ \A m, op : Is(m, op)' <=> Is(m, op)
    BY <1>0, SameCall
  <1>p. \A c \in Blocks, k \in DOMAIN Code :
          ~Is(k, "poison") => (Past(c, 0, k)' <=> Past(c, 0, k) \/ (c = b /\ 0 = t /\ k = n))
    BY <1>0, MoveFacts, CallFacts DEF Was
  <1>1. ASSUME NEW c \in Blocks, Is(1, "target"), Past(c, 0, 1)'
        PROVE  sharedTarget'[c] = calling.targets[c]
    <2>1. Past(c, 0, 1) \/ (c = b /\ 0 = t /\ 1 = n)
      BY <1>1, <1>p DEF Is
    <2>2. CASE Doing(b, t) = "target"
      <3>1. sharedTarget' = IF t = 0 THEN [sharedTarget EXCEPT ![b] = calling.targets[b]] ELSE sharedTarget
        BY <1>0, <2>2 DEF Instruction, ReadTargetOnce
      <3> QED BY <1>1, <2>1, <3>1 DEF TargetInv, Shapes
    <2>3. CASE Doing(b, t) # "target"
      <3>1. sharedTarget' = sharedTarget /\ 1 # n
        BY <1>0, <1>1, <2>3 DEF Frame, Is, Doing
      <3> QED BY <1>1, <2>1, <3>1 DEF TargetInv
    <2> QED BY <2>2, <2>3
  <1>2. ASSUME NEW c \in Blocks, NEW k \in DOMAIN Code, Is(k, "grab"), Past(c, 0, k)'
        PROVE  grabbed'[c] = "in"
    <2>1. Past(c, 0, k) \/ (c = b /\ 0 = t /\ k = n)
      BY <1>2, <1>p DEF Is
    <2>2. CASE Doing(b, t) = "grab"
      <3> DEFINE logit == Read(b, Instr(b, t).ops[1], sharedTarget[b])
      <3>1. grabbed' = IF t = 0 THEN [grabbed EXCEPT ![b] = logit] ELSE grabbed
        BY <1>0, <2>2 DEF Instruction, GrabLogit
      <3>2. Is(n, "grab") /\ Code[n].ops = <<Op("x", calling.call.act)>>
        BY <1>0, <2>2, CodeFacts DEF Doing, Is, Losses
      <3>3. Instr(b, t).ops[1] = [buf |-> "x", ty |-> calling.call.act]
        BY <3>2 DEF Instr, Op
      <3>4. logit = mem[b]["x"][sharedTarget[b]]
        BY <3>3 DEF Read, TypeOf, At
      <3>5. logit = "in"
        BY <3>2, <3>4, LogitsAreOriginal
      <3> HIDE DEF logit
      <3> QED BY <1>2, <2>1, <3>1, <3>5 DEF TargetInv, Shapes
    <2>3. CASE Doing(b, t) # "grab"
      <3>1. grabbed' = grabbed /\ k # n
        BY <1>0, <1>2, <2>3 DEF Frame, Is, Doing
      <3> QED BY <1>2, <2>1, <3>1 DEF TargetInv
    <2> QED BY <2>2, <2>3
  <1> QED BY <1>s, <1>0, <1>1, <1>2 DEF TargetInv

(* So does a barrier. *)
LEMMA BarrierTarget ==
  ASSUME SetUp, Shapes, PathInv, TargetInv, NEW b \in Blocks, SyncThreads(b)
  PROVE  TargetInv'
  <1>1. Barriered(b) /\ calling' = calling /\ sharedTarget' = sharedTarget /\ grabbed' = grabbed
    BY SyncMoves DEF SyncThreads
  <1>2. SamePast
    BY <1>1, BarrierFacts
  <1>s. /\ Code' = Code /\ Blocks' = Blocks /\ Threads' = Threads
        /\ \A m, op : Is(m, op)' <=> Is(m, op)
    BY <1>1, SameCall
  <1>3. ASSUME NEW c \in Blocks, NEW k, Is(k, "target") \/ Is(k, "grab")
        PROVE  Past(c, 0, k)' <=> Past(c, 0, k)
    BY <1>2, <1>3, CallFacts DEF SamePast, Is
  <1> QED BY <1>1, <1>s, <1>3 DEF TargetInv

(* Column d of row c is thread t's of row b. *)
InShare(b, t, c, d) == c = b /\ d % BlockDim = t

(* What a loop leaves in the cells. *)
LEMMA LoopEffect ==
  ASSUME SetUp, Shapes, NEW b \in Blocks, NEW t \in Threads, RunLoop(b, t),
         NEW c \in Blocks, NEW f \in Buffers, NEW d \in Cols
  PROVE  mem'[c][f][d] =
           IF InShare(b, t, c, d) /\ f = At("out") /\ Instr(b, t).keep # {}
           THEN IF d \notin Extent(Instr(b, t).extent, b) THEN "zero"
                ELSE IF AsMeant(b, Instr(b, t).ops, d) THEN "exp" ELSE "junk"
           ELSE mem[c][f][d]
  <1> DEFINE own == Own(Instr(b, t).extent, b, t)
             kept == IF Instr(b, t).keep = {} THEN {} ELSE Own("row", b, t)
             cell(e) == CASE e \in kept \ own -> "zero"
                          [] e \in kept \cap own -> IF AsMeant(b, Instr(b, t).ops, e) THEN "exp" ELSE "junk"
                          [] OTHER -> mem[b][At("out")][e]
             row == [e \in Cols |-> cell(e)]
  <1>1. mem' = [mem EXCEPT ![b][At("out")] = row]
    BY DEF RunLoop
  <1>2. At("out") \in Buffers
    BY DEF At, Buffers
  <1>3. row[d] = cell(d)
    OBVIOUS
  <1>4. d \in Own("row", b, t) <=> d % BlockDim = t
    BY DEF Own, Extent, BlockDim
  <1>5. d \in own <=> d % BlockDim = t /\ d \in Extent(Instr(b, t).extent, b)
    BY DEF Own, Extent, BlockDim
  <1> HIDE DEF row
  <1>6. mem'[c][f][d] = IF c = b /\ f = At("out") THEN row[d] ELSE mem[c][f][d]
    BY <1>1, <1>2 DEF Shapes
  <1>7. CASE c = b /\ f = At("out") /\ Instr(b, t).keep # {} /\ d % BlockDim = t
    <2>1. d \in kept
      BY <1>4, <1>7
    <2> QED BY <1>3, <1>5, <1>6, <1>7, <2>1 DEF InShare
  <1>8. CASE ~(c = b /\ f = At("out"))
    BY <1>6, <1>8 DEF InShare
  <1>9. CASE c = b /\ f = At("out") /\ ~(Instr(b, t).keep # {} /\ d % BlockDim = t)
    <2>1. d \notin kept
      BY <1>4, <1>9
    <2>2. cell(d) = mem[b][At("out")][d]
      BY <2>1
    <2> QED BY <1>3, <1>6, <1>9, <2>2 DEF InShare
  <1> QED BY <1>7, <1>8, <1>9

(* What a map leaves in the cells. *)
LEMMA MapEffect ==
  ASSUME SetUp, Shapes, NEW b \in Blocks, NEW t \in Threads, RunMap(b, t),
         Instr(b, t).out \in {"out", "x"},
         NEW c \in Blocks, NEW f \in Buffers, NEW d \in Cols
  PROVE  mem'[c][f][d] =
           IF f = At(Instr(b, t).out) /\ InShare(b, t, c, d) /\ d \in Extent(Instr(b, t).over, b)
           THEN IF d \notin Extent(Instr(b, t).extent, b) THEN "zero"
                ELSE IF AsMeant(b, Instr(b, t).ops, d) THEN Instr(b, t).value ELSE "junk"
           ELSE mem[c][f][d]
  <1> DEFINE i == Instr(b, t)
             own == Own(i.over, b, t)
             inside == own \cap Extent(i.extent, b)
             cell(e) == CASE e \in inside -> IF AsMeant(b, i.ops, e) THEN i.value ELSE "junk"
                          [] e \in own \ inside -> "zero"
                          [] OTHER -> mem[b][At(i.out)][e]
             row == [e \in Cols |-> cell(e)]
  <1>1. mem' = [mem EXCEPT ![b][At(i.out)] = row]
    BY DEF RunMap
  <1>2. At(i.out) \in Buffers
    BY DEF At, Buffers
  <1>3. row[d] = cell(d)
    OBVIOUS
  <1>5. d \in own <=> d % BlockDim = t /\ d \in Extent(i.over, b)
    BY DEF Own, BlockDim
  <1> HIDE DEF row
  <1>6. mem'[c][f][d] = IF c = b /\ f = At(i.out) THEN row[d] ELSE mem[c][f][d]
    BY <1>1, <1>2 DEF Shapes
  <1>7. CASE c = b /\ f = At(i.out) /\ d \in own
    <2>1. cell(d) = IF d \notin Extent(i.extent, b) THEN "zero"
                    ELSE IF AsMeant(b, i.ops, d) THEN i.value ELSE "junk"
      BY <1>7
    <2> QED BY <1>3, <1>5, <1>6, <1>7, <2>1 DEF InShare
  <1>8. CASE ~(c = b /\ f = At(i.out))
    BY <1>6, <1>8 DEF InShare
  <1>9. CASE c = b /\ f = At(i.out) /\ d \notin own
    <2>2. cell(d) = mem[b][At(i.out)][d]
      BY <1>9
    <2> QED BY <1>3, <1>5, <1>6, <1>9, <2>2 DEF InShare
  <1> QED BY <1>7, <1>8, <1>9

(* What the poisoning leaves in the cells. *)
LEMMA PoisonEffect ==
  ASSUME SetUp, Shapes, NEW b \in Blocks, NEW t \in Threads, PoisonRow(b, t),
         NEW c \in Blocks, NEW f \in Buffers, NEW d \in Cols
  PROVE  mem'[c][f][d] =
           IF InShare(b, t, c, d) /\ f = "x" /\ Instr(b, t).out # {} THEN "nan" ELSE mem[c][f][d]
  <1> DEFINE row == [e \in Cols |-> IF e \in Own("row", b, t) /\ Instr(b, t).out # {} THEN "nan"
                                    ELSE mem[b]["x"][e]]
  <1>1. mem' = [mem EXCEPT ![b]["x"] = row]
    BY DEF PoisonRow
  <1>3. row[d] = IF d \in Own("row", b, t) /\ Instr(b, t).out # {} THEN "nan" ELSE mem[b]["x"][d]
    OBVIOUS
  <1>4. d \in Own("row", b, t) <=> d % BlockDim = t
    BY DEF Own, Extent, BlockDim
  <1> HIDE DEF row
  <1>6. mem'[c][f][d] = IF c = b /\ f = "x" THEN row[d] ELSE mem[c][f][d]
    BY <1>1 DEF Shapes, Buffers
  <1> QED BY <1>3, <1>4, <1>6 DEF InShare

-----------------------------------------------------------------------------
(* A cell stays as it is described when it is not written and its thread   *)
(* passes nothing that writes it.                                          *)
LEMMA CellKept ==
  ASSUME calling' = calling, NEW b, NEW f, NEW d, CellInv(b, f, d), mem'[b][f][d] = mem[b][f][d],
         \A n : Is(n, "map") /\ At(Code[n].out) = f =>
                  (Past(b, d % BlockDim, n)' <=> Past(b, d % BlockDim, n)),
         \A n : Is(n, "loop") /\ Code[n].keep # {} /\ At("out") = f =>
                  (Past(b, d % BlockDim, n)' <=> Past(b, d % BlockDim, n)),
         PoisonWritten(b, d % BlockDim, f)' <=> PoisonWritten(b, d % BlockDim, f)
  PROVE  CellInv(b, f, d)'
  <1> DEFINE u == d % BlockDim
  <1>s. /\ Code' = Code /\ BlockDim' = BlockDim /\ \A m, op : Is(m, op)' <=> Is(m, op)
        /\ \A g : At(g)' = At(g)
        /\ \A n, e, c : Mapped(n, e, c)' = Mapped(n, e, c) /\ Kept(n, e, c)' = Kept(n, e, c)
    BY SameCall DEF Mapped, Kept
  <1> HIDE DEF u
  <1>1. MapWritten(b, u, f)' <=> MapWritten(b, u, f)
    BY <1>s DEF MapWritten, u
  <1>2. LoopWritten(b, u, f)' <=> LoopWritten(b, u, f)
    BY <1>s DEF LoopWritten, u
  <1>u. (d % BlockDim)' = d % BlockDim
    BY <1>s
  <1>3. \A n \in DOMAIN Code : Is(n, "map") /\ Past(b, u, n)' /\ At(Code[n].out) = f =>
                                 mem'[b][f][d] = Mapped(n, d, b)
    BY DEF CellInv, u
  <1>4. \A n \in DOMAIN Code : Is(n, "loop") /\ Past(b, u, n)' /\ Code[n].keep # {} /\ At("out") = f
                                 /\ ~MapWritten(b, u, f)' => mem'[b][f][d] = Kept(n, d, b)
    BY <1>1 DEF CellInv, u
  <1>5. /\ PoisonWritten(b, u, f)' => mem'[b][f][d] = "nan"
        /\ ~MapWritten(b, u, f)' /\ ~LoopWritten(b, u, f)' /\ ~PoisonWritten(b, u, f)' =>
             mem'[b][f][d] = IF f = "out" THEN "old" ELSE "in"
    BY <1>1, <1>2 DEF CellInv, u
  <1> QED BY <1>s, <1>u, <1>3, <1>4, <1>5 DEF CellInv, u

(* The buffers a kernel reads and, the rescaled output apart, none it      *)
(* stores terms in.                                                        *)
RowInputs == {"x", "dout", "gamma", "beta"}

(* The map of a kernel, as the kernels use it. *)
LEMMA MapCode ==
  ASSUME SetUp, NEW n, Is(n, "map")
  PROVE  /\ IsMap(Code[n]) /\ n \in DOMAIN Code /\ n \in Nat
         /\ \A m : Is(m, "map") => m = n
         /\ \A m : Is(m, "loop") => /\ m < n /\ Code[n].extent = Code[m].extent
                                    /\ Code[m].keep # {} => Rescales(Code[n], calling.call.act)
         /\ \/ IsPlain(Code[n], calling.call.act)
            \/ \E m : Is(m, "loop") /\ Code[m].keep # {}
         /\ Code[n].out = "x" <=> Is(1, "target")
         /\ Code[n].value = "grad" => Is(1, "target")
  <1>1. Maps(Code, calling.call.act) /\ 1 \in DOMAIN Code /\ n \in DOMAIN Code /\ n \in Nat /\ Code[n].op = "map"
    BY CodeFacts DEF Is
  <1>2. \A m : Is(m, "loop") \/ Is(m, "map") => m \in DOMAIN Code
    BY DEF Is
  <1>3. /\ IsMap(Code[n])
        /\ IsPlain(Code[n], calling.call.act) \/ \E m \in DOMAIN Code : Code[m].op = "loop" /\ Code[m].keep # {}
        /\ Code[n].out = "x" <=> Code[1].op = "target"
        /\ Code[n].value = "grad" => Code[1].op = "target"
    BY <1>1 DEF Maps
  <1>4. \A m : Is(m, "map") => m = n
    BY <1>1 DEF Maps, Is
  <1>5. \A m : Is(m, "loop") => /\ m < n /\ Code[n].extent = Code[m].extent
                                /\ Code[m].keep # {} => Rescales(Code[n], calling.call.act)
    BY <1>1 DEF Maps, Is
  <1> QED BY <1>1, <1>3, <1>4, <1>5 DEF Is

(* The loops of a kernel, among each other. *)
LEMMA LoopsApart ==
  ASSUME SetUp, NEW m, NEW n, Is(m, "loop"), Is(n, "loop")
  PROVE  /\ Code[m].extent = Code[n].extent
         /\ Code[m].reds \cap Code[n].reds # {} => m = n
         /\ Code[m].keep # {} => n <= m
         /\ Code[m].adds # {} /\ Code[n].adds # {} => m = n
         /\ m \in Nat /\ n \in Nat
  BY CodeFacts DEF Loops, Is

(* Before a thread has written, the operands are what they were. *)
LEMMA OwnCellsUnwritten ==
  ASSUME SetUp, Shapes, PathInv, MemInv, NEW b \in Blocks, NEW t \in Threads,
         \/ Is(pc[b][t], "loop")
         \/ Is(pc[b][t], "map") /\ ~\E m : Is(m, "loop") /\ Code[m].keep # {},
         NEW f \in RowInputs, NEW d \in Cols, d % BlockDim = t
  PROVE  mem[b][f][d] = "in"
  <1> DEFINE n == pc[b][t]
  <1>1. n \in DOMAIN Code /\ n \in Nat /\ DOMAIN Code = 1..Len(Code) /\ Len(Code) \in Nat
    BY CodeFacts DEF Is
  <1>2. ASSUME NEW k, Is(k, "map"), Past(b, t, k) PROVE FALSE
    <2>1. k < n /\ k \in Nat
      BY <1>2, MapCode DEF Past
    <2>2. Is(n, "loop") => n < k
      BY <1>2, MapCode
    <2>3. Is(n, "map") => n = k
      BY <1>2, MapCode
    <2> QED BY <1>1, <2>1, <2>2, <2>3
  <1>3. ASSUME NEW k, Is(k, "loop"), Past(b, t, k), Code[k].keep # {} PROVE FALSE
    <2>1. Is(n, "loop")
      BY <1>3
    <2>2. n <= k /\ k < n /\ k \in Nat
      BY <1>3, <2>1, LoopsApart DEF Past
    <2> QED BY <1>1, <2>2
  <1>4. ~Poisoned(b, t)
    BY <1>1 DEF Poisoned
  <1>5. CellInv(b, f, d)
    BY DEF MemInv, Buffers, RowInputs
  <1>6. ~MapWritten(b, t, f) /\ ~LoopWritten(b, t, f) /\ ~PoisonWritten(b, t, f)
    BY <1>2, <1>3, <1>4 DEF MapWritten, LoopWritten, PoisonWritten
  <1>7. mem[b][f][d] = IF f = "out" THEN "old" ELSE "in"
    BY <1>5, <1>6 DEF CellInv
  <1> QED BY <1>7 DEF RowInputs

(* Operands that are what they were are read as they were meant. *)
LEMMA ReadsTheOperands ==
  ASSUME NEW b, NEW d, NEW ops, ops \in Seq(Operands(calling.call.act)),
         \A f \in RowInputs : mem[b][f][d] = "in"
  PROVE  /\ AsMeant(b, ops, d)
         /\ ops # <<>> => Reads(b, ops, d) = {"in"}
  <1>1. ASSUME NEW i \in DOMAIN ops PROVE Read(b, ops[i], d) = "in" /\ Cell(ops[i]) = "in"
    <2>1. ops[i] \in Operands(calling.call.act)
      BY <1>1
    <2>2. \/ ops[i].buf \in {"x", "dout"} /\ ops[i].ty = calling.call.act
          \/ ops[i].buf \in {"gamma", "beta"} /\ ops[i].ty = "F32"
      BY <2>1 DEF Operands
    <2>3. ops[i].ty = TypeOf(ops[i].buf) /\ At(ops[i].buf) = ops[i].buf /\ ops[i].buf \in RowInputs
          /\ ops[i].buf # "out"
      BY <2>2 DEF TypeOf, At, RowInputs
    <2> QED BY <2>3 DEF Read, Cell
  <1>2. AsMeant(b, ops, d)
    BY <1>1 DEF AsMeant
  <1>3. ASSUME ops # <<>> PROVE Reads(b, ops, d) = {"in"}
    <2>1. 1 \in DOMAIN ops
      BY <1>3
    <2> QED BY <1>1, <2>1 DEF Reads
  <1> QED BY <1>2, <1>3

(* A loop reads the original values, with their type. *)
LEMMA LoopReads ==
  ASSUME SetUp, Shapes, PathInv, MemInv, NEW b \in Blocks, NEW t \in Threads, Is(pc[b][t], "loop"),
         NEW d \in Cols, d % BlockDim = t
  PROVE  AsMeant(b, Instr(b, t).ops, d) /\ Reads(b, Instr(b, t).ops, d) = {"in"}
  <1>1. \A f \in RowInputs : mem[b][f][d] = "in"
    BY OwnCellsUnwritten
  <1>2. Instr(b, t).ops \in Seq(Operands(calling.call.act)) /\ Instr(b, t).ops # <<>>
    BY LoopCode DEF Instr, IsLoop
  <1> QED BY <1>1, <1>2, ReadsTheOperands

(* What a thread finds in the output when it comes to the map. *)
LEMMA BeforeMap ==
  ASSUME SetUp, Shapes, PathInv, MemInv, NEW b \in Blocks, NEW t \in Threads, Is(pc[b][t], "map"),
         NEW m, Is(m, "loop"), Code[m].keep # {}, NEW d \in Cols, d % BlockDim = t
  PROVE  mem[b][At("out")][d] = Kept(m, d, b)
  <1> DEFINE n == pc[b][t]
  <1>1. n \in DOMAIN Code /\ n \in Nat /\ m \in DOMAIN Code /\ m \in Nat /\ m < n
    BY MapCode, LoopCode
  <1>2. Reaches(b, n)
    BY <1>1, OnPath DEF Is
  <1>3. Past(b, t, m)
    BY <1>1, <1>2 DEF Past, Reaches
  <1>4. ~MapWritten(b, t, At("out"))
    BY <1>1, MapCode DEF MapWritten, Past
  <1>5. CellInv(b, At("out"), d)
    BY DEF MemInv, Buffers, At
  <1> QED BY <1>1, <1>3, <1>4, <1>5 DEF CellInv

(* A map reads what it was meant to. *)
LEMMA MapReads ==
  ASSUME SetUp, Shapes, PathInv, MemInv, NEW b \in Blocks, NEW t \in Threads, Is(pc[b][t], "map"),
         NEW d \in Cols, d % BlockDim = t, d \in Extent(Instr(b, t).extent, b)
  PROVE  AsMeant(b, Instr(b, t).ops, d)
  <1> DEFINE n == pc[b][t]
  <1>1. Instr(b, t) = Code[n]
    BY DEF Instr
  <1>2. CASE ~\E m : Is(m, "loop") /\ Code[m].keep # {}
    <2>1. \A f \in RowInputs : mem[b][f][d] = "in"
      BY <1>2, OwnCellsUnwritten
    <2>2. Instr(b, t).ops \in Seq(Operands(calling.call.act))
      BY <1>1, <1>2, MapCode DEF IsPlain
    <2> QED BY <2>1, <2>2, ReadsTheOperands
  <1>3. CASE \E m : Is(m, "loop") /\ Code[m].keep # {}
    <2>1. PICK m : Is(m, "loop") /\ Code[m].keep # {}
      BY <1>3
    <2>2. Rescales(Code[n], calling.call.act) /\ Code[n].extent = Code[m].extent
      BY <2>1, MapCode
    <2>3. Instr(b, t).ops = <<Op("out", calling.call.act)>>
      BY <1>1, <2>2 DEF Rescales
    <2>4. mem[b][At("out")][d] = "exp"
      BY <1>1, <2>1, <2>2, BeforeMap DEF Kept
    <2>5. \A i \in DOMAIN Instr(b, t).ops : Instr(b, t).ops[i] = [buf |-> "out", ty |-> calling.call.act]
      BY <2>3 DEF Op
    <2> QED BY <2>4, <2>5 DEF AsMeant, Read, Cell, TypeOf
  <1> QED BY <1>2, <1>3

(* A step of a thread leaves every cell as CellInv says. *)
LEMMA ThreadStepMem ==
  ASSUME SetUp, Shapes, PathInv, Together, TargetInv, MemInv, NEW b \in Blocks, NEW t \in Threads,
         ThreadStep(b, t)
  PROVE  MemInv'
  <1> DEFINE n == pc[b][t]
  <1>0. /\ ThreadMoves(b, t) /\ calling' = calling /\ Instruction(b, t) /\ Frame(b, t)
        /\ n \in DOMAIN Code /\ n \in Nat /\ Instr(b, t) = Code[n]
        /\ \A op : Is(n, op) <=> Doing(b, t) = op
    BY ThreadStepMoves, StepByOp, CodeFacts DEF Is, Doing, Instr
  <1>s. /\ Code' = Code /\ Blocks' = Blocks /\ Threads' = Threads /\ Cols' = Cols /\ BlockDim' = BlockDim
        /\ \A m, op : Is(m, op)' <=> Is(m, op)
        /\ \A g : At(g)' = At(g)
        /\ \A k, e, c : Mapped(k, e, c)' = Mapped(k, e, c) /\ Kept(k, e, c)' = Kept(k, e, c)
    BY <1>0, SameCall DEF Mapped, Kept
  <1>p. \A c \in Blocks, u \in Threads, k \in DOMAIN Code :
          ~Is(k, "poison") => (Past(c, u, k)' <=> Past(c, u, k) \/ (c = b /\ u = t /\ k = n))
    BY <1>0, MoveFacts DEF Was
  <1>q. \A c \in Blocks, u \in Threads :
          Poisoned(c, u)' <=> Poisoned(c, u) \/ (c = b /\ u = t /\ Doing(b, t) = "poison")
    BY <1>0, MovePoison
  <1>w. \A c \in Blocks, u \in Threads : \A k :
          Is(k, "map") \/ Is(k, "loop") =>
            (Past(c, u, k)' <=> Past(c, u, k) \/ (c = b /\ u = t /\ k = n))
    BY <1>p DEF Is
  \* a cell of another thread
  <1>1. ASSUME NEW c \in Blocks, NEW f \in Buffers, NEW d \in Cols, ~InShare(b, t, c, d)
        PROVE  CellInv(c, f, d)'
    <2> DEFINE u == d % BlockDim
    <2>1. u \in Threads /\ ~(c = b /\ u = t)
      BY <1>1, OwnerOf DEF InShare
    <2>u. u' = u
      BY <1>s
    <2>2. mem'[c][f][d] = mem[c][f][d]
      <3>1. CASE Doing(b, t) = "loop"
        BY <1>0, <1>1, <3>1, LoopEffect DEF Instruction
      <3>2. CASE Doing(b, t) = "map"
        <4>1. Instr(b, t).out \in {"out", "x"}
          BY <1>0, <3>2, MapCode DEF IsMap
        <4> QED BY <1>0, <1>1, <3>2, <4>1, MapEffect DEF Instruction
      <3>3. CASE Doing(b, t) = "poison"
        BY <1>0, <1>1, <3>3, PoisonEffect DEF Instruction
      <3>4. CASE Doing(b, t) \notin {"loop", "map", "poison"}
        BY <1>0, <3>4 DEF Frame
      <3> QED BY <3>1, <3>2, <3>3, <3>4
    <2> HIDE DEF u
    <2>3. \A k : Is(k, "map") \/ Is(k, "loop") => (Past(c, u, k)' <=> Past(c, u, k))
      BY <1>w, <2>1, <2>u
    <2>4. PoisonWritten(c, u, f)' <=> PoisonWritten(c, u, f)
      BY <1>q, <1>s, <2>1, <2>u DEF PoisonWritten
    <2>5. CellInv(c, f, d)
      BY DEF MemInv
    <2> QED BY <1>0, <2>2, <2>3, <2>4, <2>5, CellKept DEF u
  \* a cell of this thread
  <1>2. ASSUME NEW f \in Buffers, NEW d \in Cols, d % BlockDim = t
        PROVE  CellInv(b, f, d)'
    <2>0. CellInv(b, f, d) /\ InShare(b, t, b, d) /\ (d % BlockDim)' = t
      BY <1>2, <1>s DEF MemInv, InShare
    <2>1. ASSUME mem'[b][f][d] = mem[b][f][d],
                 Is(n, "map") => At(Code[n].out) # f,
                 Is(n, "loop") => Code[n].keep = {} \/ At("out") # f,
                 Is(n, "poison") => Code[n].out = {} \/ f # "x"
          PROVE  CellInv(b, f, d)'
      <3>1. \A k : Is(k, "map") /\ At(Code[k].out) = f => (Past(b, t, k)' <=> Past(b, t, k))
        BY <1>w, <2>1
      <3>2. \A k : Is(k, "loop") /\ Code[k].keep # {} /\ At("out") = f => (Past(b, t, k)' <=> Past(b, t, k))
        BY <1>w, <2>1
      <3>3. PoisonWritten(b, t, f)' <=> PoisonWritten(b, t, f)
        <4>1. Is(n, "poison") => n = Len(Code)
          BY PoisonCode
        <4> QED BY <1>0, <1>q, <1>s, <2>1, <4>1 DEF PoisonWritten
      <3> QED BY <1>0, <1>2, <2>0, <2>1, <3>1, <3>2, <3>3, CellKept
    <2>2. CASE Doing(b, t) = "loop"
      <3>1. RunLoop(b, t) /\ Is(n, "loop") /\ ~Is(n, "map") /\ ~Is(n, "poison")
        BY <1>0, <2>2 DEF Instruction
      <3>2. CASE Code[n].keep = {} \/ At("out") # f
        <4>1. mem'[b][f][d] = mem[b][f][d]
          BY <1>0, <3>1, <3>2, LoopEffect
        <4> QED BY <2>1, <3>1, <3>2, <4>1
      <3>3. CASE Code[n].keep # {} /\ At("out") = f
        <4>1. AsMeant(b, Instr(b, t).ops, d)
          BY <1>2, <3>1, LoopReads
        <4>2. mem'[b][f][d] = Kept(n, d, b)
          BY <1>0, <2>0, <3>1, <3>3, <4>1, LoopEffect DEF Kept
        <4>3. \A k : Is(k, "map") => ~Past(b, t, k)'
          <5>1. ASSUME NEW k, Is(k, "map"), Past(b, t, k)' PROVE FALSE
            <6>1. Past(b, t, k)
              BY <1>w, <3>1, <5>1 DEF Is
            <6>2. n < k /\ k < n /\ k \in Nat
              BY <3>1, <5>1, <6>1, MapCode DEF Past
            <6> QED BY <1>0, <6>2
          <5> QED BY <5>1
        <4>4. \A k : Is(k, "loop") /\ Code[k].keep # {} => k = n
          <5>1. ASSUME NEW k, Is(k, "loop"), Code[k].keep # {} PROVE k = n
            <6>1. n <= k /\ k \in Nat
              BY <3>1, <5>1, LoopsApart
            <6>2. k <= n
              BY <3>1, <3>3, <5>1, LoopsApart
            <6> QED BY <1>0, <6>1, <6>2
          <5> QED BY <5>1
        <4>5. ~PoisonWritten(b, t, f)'
          <5>1. ~Poisoned(b, t)
            BY <1>0, CodeFacts DEF Poisoned
          <5> QED BY <1>q, <2>2, <5>1 DEF PoisonWritten
        <4>6. LoopWritten(b, t, f)'
          BY <1>s, <1>w, <3>1, <3>3 DEF LoopWritten, Is
        <4> QED BY <1>s, <2>0, <4>2, <4>3, <4>4, <4>5, <4>6 DEF CellInv
      <3> QED BY <3>2, <3>3
    <2>3. CASE Doing(b, t) = "map"
      <3>1. RunMap(b, t) /\ Is(n, "map") /\ ~Is(n, "loop") /\ ~Is(n, "poison")
            /\ Instr(b, t).out \in {"out", "x"}
        BY <1>0, <2>3, MapCode DEF Instruction, IsMap
      <3>2. CASE At(Code[n].out) # f
        <4>1. mem'[b][f][d] = mem[b][f][d]
          BY <1>0, <3>1, <3>2, MapEffect
        <4> QED BY <2>1, <3>1, <3>2, <4>1
      <3>3. CASE At(Code[n].out) = f
        <4>1. mem'[b][f][d] = Mapped(n, d, b)
          <5>1. CASE d \in Extent(Instr(b, t).over, b)
            <6>1. d \in Extent(Instr(b, t).extent, b) => AsMeant(b, Instr(b, t).ops, d)
              BY <1>2, <3>1, MapReads
            <6> QED BY <1>0, <2>0, <3>1, <3>3, <5>1, <6>1, MapEffect DEF Mapped
          <5>2. CASE d \notin Extent(Instr(b, t).over, b)
            <6>1. mem'[b][f][d] = mem[b][f][d]
              BY <1>0, <3>1, <5>2, MapEffect
            <6>2. Code[n].over # "row"
              BY <1>0, <5>2 DEF Extent
            <6>3. PICK m : Is(m, "loop") /\ Code[m].keep # {}
              BY <3>1, <6>2, MapCode DEF IsPlain
            <6>4. /\ Rescales(Code[n], calling.call.act) /\ Code[n].extent = Code[m].extent
              BY <3>1, <6>3, MapCode
            <6>5. Code[n].over = Code[n].extent /\ f = At("out")
              BY <3>3, <6>4 DEF Rescales
            <6>6. mem[b][f][d] = Kept(m, d, b)
              BY <1>2, <3>1, <6>3, <6>5, BeforeMap
            <6> QED BY <1>0, <5>2, <6>1, <6>4, <6>5, <6>6 DEF Kept, Mapped
          <5> QED BY <5>1, <5>2
        <4>2. \A k : Is(k, "map") => k = n
          BY <3>1, MapCode
        <4>3. MapWritten(b, t, f)'
          BY <1>s, <1>w, <3>1, <3>3 DEF MapWritten, Is
        <4>5. ~PoisonWritten(b, t, f)'
          <5>1. ~Poisoned(b, t)
            BY <1>0, CodeFacts DEF Poisoned
          <5> QED BY <1>q, <2>3, <5>1 DEF PoisonWritten
        <4> QED BY <1>s, <2>0, <4>1, <4>2, <4>3, <4>5 DEF CellInv
      <3> QED BY <3>2, <3>3
    <2>4. CASE Doing(b, t) = "poison"
      <3>1. PoisonRow(b, t) /\ Is(n, "poison") /\ ~Is(n, "loop") /\ ~Is(n, "map")
            /\ n = Len(Code) /\ Is(1, "target")
        BY <1>0, <2>4, PoisonCode DEF Instruction
      <3>2. CASE Code[n].out = {} \/ f # "x"
        <4>1. mem'[b][f][d] = mem[b][f][d]
          BY <1>0, <3>1, <3>2, PoisonEffect
        <4> QED BY <2>1, <3>1, <3>2, <4>1
      <3>3. CASE Code[n].out # {} /\ f = "x"
        <4>1. mem'[b][f][d] = "nan"
          BY <1>0, <2>0, <3>1, <3>3, PoisonEffect
        <4>2. \A k : Is(k, "map") => ~Past(b, t, k)'
          <5>1. ASSUME NEW k, Is(k, "map"), Past(b, t, k)' PROVE FALSE
            <6>1. Past(b, t, k)
              BY <1>w, <3>1, <5>1 DEF Is
            <6>2. Reaches(b, k) /\ ~Reaches(b, n)
              BY <1>0, <3>1, <6>1 DEF Past, PathInv
            <6>3. PICK j \in 1..(n - 1) : Fails(b, j)
              BY <1>0, <6>2, FirstFailure
            <6>4. j \in DOMAIN Code /\ Code[j].op \in Checks
              BY <6>3, PoisonCode
            <6>5. ~(j < k) /\ k \in Nat /\ j \in Nat /\ k \in DOMAIN Code /\ Code[k].op = "map"
              BY <5>1, <6>2, <6>3, MapCode DEF Reaches, Is
            <6>6. Code[j].op \in {"check_max", "check_sum"} => j < k
              BY <6>4, <6>5, CodeFacts DEF Maps
            <6>7. Code[j].op = "check_target" => j = 3
              BY <6>4, CodeFacts DEF Losses
            <6>8. k > 3
              <7>1. Is(1, "target") /\ Is(2, "sync") /\ Is(3, "check_target")
                BY <3>1, TargetCode
              <7>2. k # 1 /\ k # 2 /\ k # 3 /\ k > 0
                BY <6>5, <7>1, CodeFacts DEF Is
              <7> QED BY <6>5, <7>2
            <6> QED BY <6>4, <6>5, <6>6, <6>7, <6>8 DEF Checks
          <5> QED BY <5>1
        <4>3. \A k : ~(Is(k, "loop") /\ Code[k].keep # {})
          BY <3>1, CodeFacts DEF Losses, Is
        <4>4. PoisonWritten(b, t, f)'
          BY <1>q, <1>s, <2>4, <3>1, <3>3 DEF PoisonWritten
        <4> QED BY <1>s, <2>0, <4>1, <4>2, <4>3, <4>4 DEF CellInv
      <3> QED BY <3>2, <3>3
    <2>5. CASE Doing(b, t) \notin {"loop", "map", "poison"}
      <3>1. mem' = mem
        BY <1>0, <2>5 DEF Frame
      <3> QED BY <1>0, <2>1, <2>5, <3>1
    <2> QED BY <2>2, <2>3, <2>4, <2>5
  <1>3. ASSUME NEW c \in Blocks, NEW f \in Buffers, NEW d \in Cols PROVE CellInv(c, f, d)'
    BY <1>1, <1>2 DEF InShare
  <1> QED BY <1>s, <1>3 DEF MemInv

(* A barrier leaves the cells alone. *)
LEMMA BarrierMem ==
  ASSUME SetUp, Shapes, PathInv, MemInv, NEW b \in Blocks, SyncThreads(b)
  PROVE  MemInv'
  <1>1. Barriered(b) /\ calling' = calling /\ mem' = mem
    BY SyncMoves DEF SyncThreads
  <1>2. SamePast /\ SamePoison
    BY <1>1, BarrierFacts
  <1>s. Code' = Code /\ Blocks' = Blocks /\ Cols' = Cols /\ BlockDim' = BlockDim
    BY <1>1, SameCall
  <1>3. ASSUME NEW c \in Blocks, NEW f \in Buffers, NEW d \in Cols PROVE CellInv(c, f, d)'
    <2> DEFINE u == d % BlockDim
    <2>1. u \in Threads
      BY OwnerOf
    <2>u. u' = u
      BY <1>s
    <2> HIDE DEF u
    <2>2. \A k : Is(k, "map") \/ Is(k, "loop") => (Past(c, u, k)' <=> Past(c, u, k))
      BY <1>2, <2>1, <2>u DEF SamePast, Is
    <2>3. PoisonWritten(c, u, f)' <=> PoisonWritten(c, u, f)
      BY <1>2, <1>s, <2>1, <2>u DEF SamePoison, PoisonWritten
    <2> QED BY <1>1, <2>2, <2>3, CellKept DEF u, MemInv
  <1> QED BY <1>s, <1>3 DEF MemInv

(* Terms are counted by their columns. *)
LEMMA TermsCount ==
  ASSUME NEW S, IsFiniteSet(S)
  PROVE  IsFiniteSet(Terms(S)) /\ Cardinality(Terms(S)) = Cardinality(S)
  <1> DEFINE f == [c \in S |-> <<c, "in">>]
  <1>1. f \in Bijection(S, Terms(S))
    <2>1. f \in [S -> Terms(S)]
      BY DEF Terms
    <2>2. \A x, y \in S : f[x] = f[y] => x = y
      OBVIOUS
    <2>3. \A v \in Terms(S) : \E x \in S : f[x] = v
      BY DEF Terms
    <2> HIDE DEF f
    <2> QED BY <2>1, <2>2, <2>3 DEF Bijection, Injection, Surjection, IsInjective
  <1> HIDE DEF f
  <1>2. ExistsBijection(S, Terms(S))
    BY <1>1 DEF ExistsBijection
  <1> QED BY <1>2, FS_Bijection

(* The columns of a row are finitely many. *)
LEMMA ColumnsFinite ==
  ASSUME SetUp
  PROVE  IsFiniteSet(Cols) /\ \A S : S \subseteq Cols => IsFiniteSet(S) /\ Cardinality(S) \in Nat
  <1>1. calling.shape.cols - 1 \in Int
    BY CallFacts
  <1>2. IsFiniteSet(Cols)
    BY <1>1, FS_Interval DEF Cols
  <1> QED BY <1>2, FS_Subset, FS_CardinalityType

(* The columns of a loop are columns of the row. *)
LEMMA ExtentInRow ==
  ASSUME NEW e \in {"row", "causal", "grid"}, NEW b
  PROVE  Extent(e, b) \subseteq Cols
  BY DEF Extent

(* Every loop of a kernel goes over LoopExtent. *)
LEMMA LoopExtentIs ==
  ASSUME SetUp, NEW n, Is(n, "loop")
  PROVE  /\ LoopExtent = Code[n].extent
         /\ LoopExtent \in {"row", "causal", "grid"}
  <1>1. Code[n].extent \in {"row", "causal", "grid"}
    BY LoopCode DEF IsLoop
  <1>2. \A m \in DOMAIN Code : Code[m].op = "loop" => Code[m].extent = Code[n].extent
    BY LoopsApart DEF Is
  <1>3. n \in DOMAIN Code /\ Code[n].op = "loop"
    BY DEF Is
  <1> QED BY <1>1, <1>2, <1>3 DEF LoopExtent

(* With the stride of a block, a slot stands for its thread's own columns. *)
LEMMA ShareIsOwn ==
  ASSUME SetUp, NEW b, NEW t \in Threads, LoopExtent \in {"row", "causal", "grid"}
  PROVE  /\ Share(b, t, BlockDim) = Own(LoopExtent, b, t)
         /\ \A m : Share(b, t, m) \subseteq Extent(LoopExtent, b) /\ Share(b, t, m) \subseteq Cols
  <1>1. ASSUME NEW c \in Cols PROVE (c % BlockDim) % BlockDim = c % BlockDim
    <2>1. c \in Nat /\ BlockDim \in Nat /\ BlockDim > 1
      BY CallFacts
    <2> HIDE DEF BlockDim
    <2>2. \A x, d \in Nat : d > 1 => (x % d) % d = x % d
      OBVIOUS
    <2> QED BY <2>1, <2>2
  <1>2. Extent(LoopExtent, b) \subseteq Cols
    BY ExtentInRow
  <1>3. \A c \in Extent(LoopExtent, b) : (c % BlockDim) % BlockDim = t <=> c % BlockDim = t
    BY <1>1, <1>2
  <1>4. Share(b, t, BlockDim) = Own(LoopExtent, b, t)
    BY <1>3 DEF Share, Own, BlockDim
  <1> QED BY <1>2, <1>4 DEF Share

(* The registers of a thread after its loop. *)
LEMMA LoopRegisters ==
  ASSUME SetUp, Shapes, PathInv, MemInv, NEW b \in Blocks, NEW t \in Threads, Is(pc[b][t], "loop"),
         RunLoop(b, t)
  PROVE  /\ \A c \in Blocks, u \in Threads : c # b \/ u # t => local'[c][u] = local[c][u]
         /\ \A r \in Reds : local'[b][t][r] = IF r \in Instr(b, t).reds
                                              THEN Whole(r, Share(b, t, BlockDim)) ELSE local[b][t][r]
  <1> DEFINE i == Instr(b, t)
             own == Own(i.extent, b, t)
             terms == UNION {{<<c, r>> : r \in Reads(b, i.ops, c)} : c \in own}
             new == [r \in Reds |-> IF r \in i.reds THEN Added(Empty(r), terms)
                                                    ELSE local[b][t][r]]
  <1>1. local' = [local EXCEPT ![b][t] = new]
    BY DEF RunLoop
  <1>2. own \subseteq Cols /\ \A c \in own : c % BlockDim = t
    <2>1. i.extent \in {"row", "causal", "grid"}
      BY LoopCode DEF IsLoop, Instr
    <2> QED BY <2>1, ExtentInRow DEF Own, BlockDim
  <1>3. \A c \in own : Reads(b, i.ops, c) = {"in"}
    BY <1>2, LoopReads
  <1>4. terms = Terms(own)
    <2>1. \A v \in terms : \E c \in own : v = <<c, "in">>
      BY <1>3
    <2>2. \A c \in own : <<c, "in">> \in terms
      BY <1>3
    <2> HIDE DEF terms
    <2> QED BY <2>1, <2>2 DEF Terms
  <1>5. own = Share(b, t, BlockDim)
    BY LoopExtentIs, ShareIsOwn DEF Instr
  <1>6. Cardinality(terms) = Cardinality(own) /\ Cardinality(own) \in Nat
    BY <1>2, <1>4, TermsCount, ColumnsFinite
  <1> HIDE DEF terms, own
  <1>7. \A r : Added(Empty(r), terms) = Whole(r, own)
    <2>1. \A r : Added(Empty(r), terms) = [red |-> r, n |-> 0 + Cardinality(terms), of |-> {} \cup terms]
      BY DEF Added, Empty
    <2>3. 0 + Cardinality(terms) = Cardinality(own) /\ {} \cup terms = Terms(own)
      BY <1>4, <1>6
    <2> QED BY <2>1, <2>3 DEF Whole
  <1>8. \A r \in Reds : new[r] = IF r \in i.reds THEN Whole(r, own) ELSE local[b][t][r]
    BY <1>7
  <1> HIDE DEF new
  <1> QED BY <1>1, <1>5, <1>8 DEF Shapes

(* A step of a thread keeps what the registers hold. *)
LEMMA ThreadStepLocal ==
  ASSUME SetUp, Shapes, PathInv, Together, TargetInv, MemInv, LocalInv, NEW b \in Blocks,
         NEW t \in Threads, ThreadStep(b, t)
  PROVE  LocalInv'
  <1> DEFINE n == pc[b][t]
  <1>0. /\ ThreadMoves(b, t) /\ calling' = calling /\ Instruction(b, t) /\ Frame(b, t)
        /\ n \in DOMAIN Code /\ Instr(b, t) = Code[n]
        /\ \A op : Is(n, op) <=> Doing(b, t) = op
    BY ThreadStepMoves, StepByOp DEF Is, Doing, Instr
  <1>s. /\ Code' = Code /\ Blocks' = Blocks /\ Threads' = Threads /\ BlockDim' = BlockDim
        /\ \A m, op : Is(m, op)' <=> Is(m, op)
        /\ \A c, u, m : Share(c, u, m)' = Share(c, u, m)
        /\ \A r, S : Whole(r, S)' = Whole(r, S)
    BY <1>0, SameCall DEF Whole, Terms
  <1>p. \A c \in Blocks, u \in Threads : \A k :
          Is(k, "loop") => (Past(c, u, k)' <=> Past(c, u, k) \/ (c = b /\ u = t /\ k = n))
    BY <1>0, MoveFacts DEF Was, Is
  <1>1. ASSUME NEW c \in Blocks, NEW u \in Threads, NEW k, NEW r \in Reds, Is(k, "loop"),
               r \in Code[k].reds, Past(c, u, k)'
        PROVE  local'[c][u][r] = Whole(r, Share(c, u, BlockDim))
    <2>1. CASE Past(c, u, k)
      <3>1. local[c][u][r] = Whole(r, Share(c, u, BlockDim))
        BY <1>1, <2>1 DEF LocalInv, Is
      <3>2. CASE Doing(b, t) = "loop"
        <4>1. RunLoop(b, t) /\ Is(n, "loop")
          BY <1>0, <3>2 DEF Instruction
        <4> QED BY <3>1, <4>1, LoopRegisters
      <3>3. CASE Doing(b, t) # "loop"
        BY <1>0, <3>1, <3>3 DEF Frame
      <3> QED BY <3>2, <3>3
    <2>2. CASE c = b /\ u = t /\ k = n
      <3>1. RunLoop(b, t) /\ Is(n, "loop")
        BY <1>0, <1>1, <2>2 DEF Instruction
      <3> QED BY <1>0, <1>1, <2>2, <3>1, LoopRegisters
    <2> QED BY <1>1, <1>p, <2>1, <2>2
  <1> QED BY <1>s, <1>1 DEF LocalInv

(* So does a barrier. *)
LEMMA BarrierLocal ==
  ASSUME SetUp, Shapes, PathInv, LocalInv, NEW b \in Blocks, SyncThreads(b)
  PROVE  LocalInv'
  <1>1. Barriered(b) /\ calling' = calling /\ local' = local
    BY SyncMoves DEF SyncThreads
  <1>2. SamePast
    BY <1>1, BarrierFacts
  <1>s. /\ Code' = Code /\ Blocks' = Blocks /\ Threads' = Threads /\ BlockDim' = BlockDim
        /\ \A m, op : Is(m, op)' <=> Is(m, op)
        /\ \A c, u, m : Share(c, u, m)' = Share(c, u, m)
        /\ \A r, S : Whole(r, S)' = Whole(r, S)
    BY <1>1, SameCall DEF Whole, Terms
  <1>3. \A c \in Blocks, u \in Threads : \A k : Is(k, "loop") => (Past(c, u, k)' <=> Past(c, u, k))
    BY <1>2 DEF SamePast, Is
  <1> QED BY <1>1, <1>s, <1>3 DEF LocalInv

(* The block passes a barrier as one: no thread is before it while another *)
(* is beyond.                                                              *)
LEMMA NoneBehind ==
  ASSUME SetUp, Together, NEW b \in Blocks, NEW t \in Threads, NEW u \in Threads,
         NEW k, Barrier(k), Reaches(b, k), k < pc[b][u]
  PROVE  k < pc[b][t]
  <1>1. k \in DOMAIN Code /\ Past(b, u, k)
    BY DEF Barrier, Is, Past
  <1>2. Past(b, t, k)
    BY <1>1 DEF Together
  <1> QED BY <1>2 DEF Past

(* A row that has come to a reduction goes through it. *)
LEMMA ReductionReached ==
  ASSUME SetUp, NEW b, NEW n, Is(n, "put"), NEW m \in {n, n + 1, n + 2, n + 3, n + 4}, Reaches(b, m)
  PROVE  /\ Reaches(b, n) /\ Reaches(b, n + 1) /\ Reaches(b, n + 2) /\ Reaches(b, n + 3)
         /\ Reaches(b, n + 4) /\ Reaches(b, n + 5)
  <1>1. n \in Nat /\ n > 0
    BY ReductionCode
  <1>2. ~Fails(b, n) /\ ~Fails(b, n + 1) /\ ~Fails(b, n + 2) /\ ~Fails(b, n + 3) /\ ~Fails(b, n + 4)
    BY ReductionCode DEF Is, Fails
  <1>3. Reaches(b, n)
    BY <1>1, ReachesBefore
  <1>4. Reaches(b, n + 1)
    BY <1>1, <1>2, <1>3, ReachesNext
  <1>5. Reaches(b, n + 1 + 1)
    BY <1>1, <1>2, <1>4, ReachesNext
  <1>6. Reaches(b, n + 2)
    BY <1>1, <1>5
  <1>7. Reaches(b, n + 2 + 1)
    BY <1>1, <1>2, <1>6, ReachesNext
  <1>8. Reaches(b, n + 3)
    BY <1>1, <1>7
  <1>9. Reaches(b, n + 3 + 1)
    BY <1>1, <1>2, <1>8, ReachesNext
  <1>10. Reaches(b, n + 4)
    BY <1>1, <1>9
  <1>11. Reaches(b, n + 4 + 1)
    BY <1>1, <1>2, <1>10, ReachesNext
  <1> QED BY <1>1, <1>3, <1>4, <1>6, <1>8, <1>10, <1>11

(* So does the row of a thread in a reduction. *)
LEMMA InReduction ==
  ASSUME SetUp, Shapes, PathInv, NEW b \in Blocks, NEW t \in Threads, NEW n, Is(n, "put"),
         pc[b][t] \in {n, n + 1, n + 2, n + 3, n + 4}
  PROVE  /\ Reaches(b, n) /\ Reaches(b, n + 1) /\ Reaches(b, n + 2) /\ Reaches(b, n + 3)
         /\ Reaches(b, n + 4) /\ Reaches(b, n + 5)
  <1>1. pc[b][t] \in DOMAIN Code /\ ~Is(pc[b][t], "poison")
    BY ReductionCode DEF Is
  <1>2. Reaches(b, pc[b][t])
    BY <1>1, OnPath
  <1> QED BY <1>2, ReductionReached

(* While a thread adds in the tree, all threads of the block do. *)
LEMMA FoldTogether ==
  ASSUME SetUp, Shapes, PathInv, Together, NEW b \in Blocks, NEW t \in Threads, NEW n, Is(n, "put"),
         pc[b][t] \in {n + 2, n + 3}, NEW u \in Threads
  PROVE  pc[b][u] \in {n + 2, n + 3}
  <1>1. /\ n \in Nat /\ Barrier(n + 1) /\ Barrier(n + 3)
        /\ pc[b][u] \in Nat /\ pc[b][t] \in Nat
    BY ReductionCode, CodeFacts DEF Barrier, Shapes
  <1>2. Reaches(b, n + 1) /\ Reaches(b, n + 3)
    BY InReduction
  <1>3. n + 1 < pc[b][t] /\ ~(n + 3 < pc[b][t])
    BY <1>1
  <1>4. n + 1 < pc[b][u]
    BY <1>1, <1>2, <1>3, NoneBehind
  <1>5. ~(n + 3 < pc[b][u])
    BY <1>1, <1>2, <1>3, NoneBehind
  <1> QED BY <1>1, <1>4, <1>5

(* A thread puts its part into scratch when no thread is in a tree or has  *)
(* yet to read the last one's sum.                                         *)
LEMMA PutAlone ==
  ASSUME SetUp, Shapes, PathInv, Together, NEW b \in Blocks, NEW t \in Threads,
         Is(pc[b][t], "put"), NEW m, Is(m, "put"), NEW u \in Threads
  PROVE  pc[b][u] \notin {m + 2, m + 3, m + 4}
  <1> DEFINE n == pc[b][t]
  <1>0. n \in Nat /\ m \in Nat /\ pc[b][u] \in Nat
    BY ReductionCode, CodeFacts DEF Shapes
  <1>1. ASSUME m + 4 < n PROVE m + 4 < pc[b][u]
    <2>1. m + 4 \in DOMAIN Code /\ n \in DOMAIN Code /\ Code[m + 4].op = "get" /\ Code[n].op = "put"
      BY ReductionCode DEF Is
    <2>2. BarrierBetween(Code, m + 4, n)
      BY <1>1, <2>1, CodeFacts DEF Reductions
    <2>3. PICK k \in DOMAIN Code : m + 4 < k /\ k < n /\ Barrier(k)
      BY <2>1, <2>2, BetweenIsBarrier
    <2>4. k \in Nat /\ Reaches(b, n)
      BY InReduction, CodeFacts
    <2>5. Reaches(b, k)
      BY <1>0, <2>3, <2>4, ReachesBefore
    <2>6. k < pc[b][u]
      BY <2>3, <2>5, NoneBehind
    <2> QED BY <1>0, <2>3, <2>4, <2>6
  <1>2. ASSUME ~(m + 4 < n) PROVE ~(m + 1 < pc[b][u])
    <2>1. m = n \/ n + 4 < m
      BY <1>0, <1>2, ReductionsApart
    <2>2. Reaches(b, n + 1) /\ Barrier(n + 1)
      BY InReduction, ReductionCode DEF Barrier
    <2>3. ~(n + 1 < n)
      BY <1>0
    <2>4. ~(n + 1 < pc[b][u])
      BY <2>2, <2>3, NoneBehind
    <2> QED BY <1>0, <2>1, <2>4
  <1> QED BY <1>0, <1>1, <1>2

(* Only a put, an addition or a barrier leads to the next of the steps of  *)
(* a reduction.                                                            *)
LEMMA MoveOutsideReduction ==
  ASSUME SetUp, Shapes, NEW b, NEW t, ThreadMoves(b, t), Doing(b, t) \notin {"put", "fold"},
         NEW n, Is(n, "put")
  PROVE  pc'[b][t] \notin {n + 1, n + 2, n + 3, n + 4}
  <1> DEFINE m == pc[b][t]
             L == Len(Code)
  <1>0. /\ b \in Blocks /\ t \in Threads /\ m \in DOMAIN Code /\ ~Barrier(m)
        /\ DOMAIN Code = 1..L /\ L \in Nat /\ L > 4 /\ n \in Nat /\ n + 4 <= L
        /\ ~Is(m, "put") /\ ~Is(m, "fold")
    BY CodeFacts, ReductionCode DEF ThreadMoves, Doing, Is
  <1>1. m # n /\ m # n + 1 /\ m # n + 2 /\ m # n + 3
    BY <1>0, ReductionCode DEF Barrier
  <1>2. CASE Goes(b, t, m + 1)
    <2>1. pc'[b][t] = m + 1
      BY <1>0, <1>2, PutFacts
    <2> QED BY <1>0, <1>1, <2>1
  <1>3. CASE Goes(b, t, L) /\ Fails(b, m)
    <2>1. pc'[b][t] = L
      BY <1>0, <1>3, PutFacts
    <2>2. Is(L, "poison")
      BY <1>3, PoisonCode, TargetCode
    <2>3. L # n + 1 /\ L # n + 2 /\ L # n + 3 /\ L # n + 4
      BY <2>2, ReductionCode DEF Is
    <2> QED BY <2>1, <2>3
  <1>4. CASE Goes(b, t, L + 1)
    <2>1. pc'[b][t] = L + 1
      BY <1>0, <1>4, PutFacts
    <2> QED BY <1>0, <2>1
  <1> QED BY <1>2, <1>3, <1>4 DEF ThreadMoves

-----------------------------------------------------------------------------
(* The tree of additions *)

(* Columns a stride apart are those of half the stride's share. *)
LEMMA HalfStride ==
  ASSUME NEW s \in Strides, NEW x \in Nat, NEW t \in 0..(s - 1)
  PROVE  x % s = t <=> x % (2 * s) = t \/ x % (2 * s) = t + s
  <1>1. CASE s = 1
    BY <1>1
  <1>2. CASE s = 2
    BY <1>2
  <1>3. CASE s = 4
    BY <1>3
  <1>4. CASE s = 8
    BY <1>4
  <1>5. CASE s = 16
    BY <1>5
  <1>6. CASE s = 32
    BY <1>6
  <1>7. CASE s = 64
    BY <1>7
  <1>8. CASE s = 128
    BY <1>8
  <1>9. CASE s = 256
    BY <1>9
  <1>10. CASE s = 512
    BY <1>10
  <1> QED BY <1>1, <1>2, <1>3, <1>4, <1>5, <1>6, <1>7, <1>8, <1>9, <1>10 DEF Strides

(* The share of a stride is that of the two slots it adds, which have no   *)
(* column in common.                                                       *)
LEMMA ShareFolds ==
  ASSUME SetUp, NEW b, NEW s \in Strides, NEW t \in 0..(s - 1), LoopExtent \in {"row", "causal", "grid"}
  PROVE  /\ Share(b, t, s) = Share(b, t, 2 * s) \cup Share(b, t + s, 2 * s)
         /\ Share(b, t, 2 * s) \cap Share(b, t + s, 2 * s) = {}
  <1>1. Extent(LoopExtent, b) \subseteq Cols
    BY ExtentInRow
  <1>2. s \in Nat /\ s > 0 /\ t \in Nat /\ t # t + s
    BY DEF Strides
  <1>3. ASSUME NEW c \in Extent(LoopExtent, b)
        PROVE  (c % BlockDim) % s = t
                 <=> (c % BlockDim) % (2 * s) = t \/ (c % BlockDim) % (2 * s) = t + s
    <2>1. c % BlockDim \in Nat
      BY <1>1, OwnerOf, CallFacts
    <2> QED BY <2>1, HalfStride
  <1> QED BY <1>2, <1>3 DEF Share

(* Sums of different columns add up to the sum of both. *)
LEMMA WholesAdd ==
  ASSUME SetUp, NEW r, NEW S, NEW T, S \subseteq Cols, T \subseteq Cols, S \cap T = {}
  PROVE  Sum(Whole(r, S), Whole(r, T)) = Whole(r, S \cup T)
  <1>1. IsFiniteSet(S) /\ IsFiniteSet(T) /\ Cardinality(S) \in Nat /\ Cardinality(T) \in Nat
    BY ColumnsFinite
  <1>2. Cardinality(S \cup T) = Cardinality(S) + Cardinality(T) - Cardinality({})
    BY <1>1, FS_Union
  <1>3. Cardinality(S \cup T) = Cardinality(S) + Cardinality(T)
    BY <1>1, <1>2, FS_EmptySet
  <1>4. Terms(S \cup T) = Terms(S) \cup Terms(T)
    BY DEF Terms
  <1> QED BY <1>3, <1>4 DEF Sum, Whole

(* So do two slots a stride apart. *)
LEMMA SlotsAdd ==
  ASSUME SetUp, NEW b, NEW n, NEW s \in Strides, NEW t \in 0..(s - 1),
         LoopExtent \in {"row", "causal", "grid"},
         Slot(b, t, n, 2 * s), Slot(b, t + s, n, 2 * s)
  PROVE  Sum(scratch[b][t], scratch[b][t + s]) = Whole(Code[n].red, Share(b, t, s))
  <1>1. Share(b, t, 2 * s) \subseteq Cols /\ Share(b, t + s, 2 * s) \subseteq Cols
    BY ExtentInRow DEF Share
  <1> QED BY <1>1, ShareFolds, WholesAdd DEF Slot

(* What a reduction adds up comes from a loop before it. *)
LEMMA LoopOfPut ==
  ASSUME SetUp, NEW n, Is(n, "put")
  PROVE  /\ \E m : Is(m, "loop") /\ m < n /\ m \in Nat /\ Code[n].red \in Code[m].reds
         /\ LoopExtent \in {"row", "causal", "grid"}
  <1>1. PICK m \in DOMAIN Code : m < n /\ Code[m].op = "loop" /\ Code[n].red \in Code[m].reds
    BY CodeFacts DEF Loops, Is
  <1>2. Is(m, "loop") /\ m \in Nat
    BY <1>1, CodeFacts DEF Is
  <1> QED BY <1>1, <1>2, LoopExtentIs

(* What a thread puts into scratch holds its own columns. *)
LEMMA PartIsDone ==
  ASSUME SetUp, Shapes, PathInv, LocalInv, NEW b \in Blocks, NEW t \in Threads, Is(pc[b][t], "put")
  PROVE  local[b][t][Code[pc[b][t]].red] = Whole(Code[pc[b][t]].red, Share(b, t, BlockDim))
  <1> DEFINE n == pc[b][t]
  <1>1. PICK m : Is(m, "loop") /\ m < n /\ m \in Nat /\ Code[n].red \in Code[m].reds
    BY LoopOfPut
  <1>2. Reaches(b, n) /\ n \in Nat /\ Code[n].red \in Reds
    BY InReduction, ReductionCode
  <1>3. Past(b, t, m)
    BY <1>1, <1>2, ReachesBefore DEF Past
  <1> QED BY <1>1, <1>2, <1>3 DEF LocalInv, Is

(* What a put leaves in scratch. *)
LEMMA PutEffect ==
  ASSUME SetUp, Shapes, NEW b \in Blocks, NEW t \in Threads, Put(b, t),
         NEW c \in Blocks, NEW u \in Threads
  PROVE  /\ scratch'[c][u] = IF c = b /\ u = t THEN local[b][t][Instr(b, t).red] ELSE scratch[c][u]
         /\ stride'[c][u] = IF c = b /\ u = t THEN BlockDim \div 2 ELSE stride[c][u]
  <1>1. DOMAIN scratch = Blocks /\ DOMAIN scratch[b] = Threads
    BY DEF Shapes
  <1>2. DOMAIN stride = Blocks /\ DOMAIN stride[b] = Threads
    BY DEF Shapes
  <1>3. scratch' = [scratch EXCEPT ![b][t] = local[b][t][Instr(b, t).red]]
    BY DEF Put
  <1>4. stride' = [stride EXCEPT ![b][t] = BlockDim \div 2]
    BY DEF Put, BlockDim
  <1>5. scratch'[c][u] = IF c = b /\ u = t THEN local[b][t][Instr(b, t).red] ELSE scratch[c][u]
    BY <1>1, <1>3
  <1>6. stride'[c][u] = IF c = b /\ u = t THEN BlockDim \div 2 ELSE stride[c][u]
    BY <1>2, <1>4
  <1> QED BY <1>5, <1>6

(* What an addition leaves in scratch. *)
LEMMA FoldEffect ==
  ASSUME SetUp, Shapes, NEW b \in Blocks, NEW t \in Threads, Fold(b, t),
         NEW c \in Blocks, NEW u \in Threads
  PROVE  scratch'[c][u] = IF c = b /\ u = t /\ t < stride[b][t]
                          THEN Sum(scratch[b][t], scratch[b][t + stride[b][t]]) ELSE scratch[c][u]
  <1>1. DOMAIN scratch = Blocks /\ DOMAIN scratch[b] = Threads
    BY DEF Shapes
  <1>2. CASE t < stride[b][t]
    <2>1. scratch' = [scratch EXCEPT ![b][t] = Sum(scratch[b][t], scratch[b][t + stride[b][t]])]
      BY <1>2 DEF Fold
    <2> HIDE DEF Sum
    <2> QED BY <1>1, <1>2, <2>1
  <1>3. CASE ~(t < stride[b][t])
    BY <1>3 DEF Fold
  <1> QED BY <1>2, <1>3

(* A tree stays as it is described when its slot and strides stay. *)
LEMMA TreeKept ==
  ASSUME calling' = calling, NEW b, NEW u, NEW n, TreeInv(b, u, n),
         pc'[b][u] = pc[b][u], stride'[b][u] = stride[b][u], scratch'[b][u] = scratch[b][u],
         pc[b][u] \in {n + 2, n + 3} => \A v \in Threads : stride'[b][v] = stride[b][v],
         pc[b][u] = n + 4 => scratch'[b][0] = scratch[b][0]
  PROVE  TreeInv(b, u, n)'
  <1>1. /\ Code' = Code /\ Threads' = Threads /\ BlockDim' = BlockDim
        /\ \A m : Share(b, u, m)' = Share(b, u, m)
        /\ \A m : Share(b, 0, m)' = Share(b, 0, m)
    BY SameCall
  <1>2. \A m : Slot(b, u, n, m)' <=> Slot(b, u, n, m)
    BY <1>1 DEF Slot, Whole, Terms
  <1>3. pc[b][u] = n + 4 => (Slot(b, 0, n, 1)' <=> Slot(b, 0, n, 1))
    BY <1>1 DEF Slot, Whole, Terms
  <1>4. Folded(b, u, n)' <=> Folded(b, u, n)
    BY DEF Folded
  <1>5. pc[b][u] \in {n + 2, n + 3} =>
          ((\A v \in Threads : stride[b][v] = stride[b][u])' <=> \A v \in Threads : stride[b][v] = stride[b][u])
    BY <1>1
  <1> HIDE DEF Slot, Folded, Strides
  <1>6. pc[b][u] = n + 1 => stride[b][u] = BlockDim \div 2 /\ Slot(b, u, n, BlockDim)
    BY DEF TreeInv
  <1>7. pc[b][u] \in {n + 2, n + 3} =>
         /\ stride[b][u] \in Strides /\ 2 * stride[b][u] <= BlockDim
         /\ \A v \in Threads : stride[b][v] = stride[b][u]
         /\ Folded(b, u, n) => Slot(b, u, n, stride[b][u])
         /\ u < 2 * stride[b][u] /\ ~Folded(b, u, n) => Slot(b, u, n, 2 * stride[b][u])
    BY DEF TreeInv
  <1>8. (pc[b][u] = n + 1 => stride[b][u] = BlockDim \div 2 /\ Slot(b, u, n, BlockDim))'
    BY <1>1, <1>2, <1>6
  <1>9. (pc[b][u] \in {n + 2, n + 3} =>
         /\ stride[b][u] \in Strides /\ 2 * stride[b][u] <= BlockDim
         /\ \A v \in Threads : stride[b][v] = stride[b][u]
         /\ Folded(b, u, n) => Slot(b, u, n, stride[b][u])
         /\ u < 2 * stride[b][u] /\ ~Folded(b, u, n) => Slot(b, u, n, 2 * stride[b][u]))'
    BY <1>1, <1>2, <1>4, <1>5, <1>7 DEF Strides
  <1>10. (pc[b][u] = n + 4 => Slot(b, 0, n, 1))'
    BY <1>3 DEF TreeInv
  <1> QED BY <1>8, <1>9, <1>10 DEF TreeInv

(* Most instructions lead to the next. *)
LEMMA MovesOn ==
  ASSUME SetUp, Shapes, NEW b, NEW t, ThreadMoves(b, t), Doing(b, t) \notin Checks \cup {"return"}
  PROVE  pc'[b][t] = pc[b][t] + 1 /\ pc[b][t] \in Nat
  <1>1. /\ b \in Blocks /\ t \in Threads /\ pc[b][t] \in DOMAIN Code
        /\ DOMAIN Code = 1..Len(Code) /\ Len(Code) \in Nat
    BY CodeFacts DEF ThreadMoves
  <1>2. ~Fails(b, pc[b][t])
    BY PoisonCode DEF Doing
  <1>3. ~Is(pc[b][t], "return")
    BY DEF Is, Doing
  <1>4. Goes(b, t, pc[b][t] + 1)
    BY <1>2, <1>3 DEF ThreadMoves
  <1> QED BY <1>1, <1>4, PutFacts

(* TreeInv says nothing of a thread outside the reduction. *)
LEMMA NoTreeAround ==
  ASSUME NEW b, NEW u, NEW n, pc'[b][u] \notin {n + 1, n + 2, n + 3, n + 4}
  PROVE  TreeInv(b, u, n)'
  BY DEF TreeInv

(* Around a thread that moves nothing changes of the trees but its place. *)
LEMMA TreeBefore ==
  ASSUME SetUp, Shapes, PathInv, ScratchInv, NEW b \in Blocks, NEW t \in Threads, ThreadMoves(b, t),
         NEW c \in Blocks, NEW u \in Threads, NEW m, Is(m, "put")
  PROVE  /\ calling' = calling /\ m \in DOMAIN Code
         /\ c # b \/ u # t => pc'[c][u] = pc[c][u]
         /\ TreeInv(c, u, m) /\ DOMAIN Code' = DOMAIN Code
  <1>1. calling' = calling
    BY DEF ThreadMoves
  <1>2. m \in DOMAIN Code
    BY DEF Is
  <1>3. c # b \/ u # t => pc'[c][u] = pc[c][u]
    BY MoveFacts
  <1>4. TreeInv(c, u, m)
    BY <1>2 DEF ScratchInv
  <1>5. DOMAIN Code' = DOMAIN Code
    BY <1>1 DEF Code
  <1> QED BY <1>1, <1>2, <1>3, <1>4, <1>5

(* A put keeps every tree. *)
LEMMA PutScratch ==
  ASSUME SetUp, Shapes, PathInv, Together, LocalInv, ScratchInv,
         NEW b \in Blocks, NEW t \in Threads, Put(b, t), Is(pc[b][t], "put"), ThreadMoves(b, t),
         NEW c \in Blocks, NEW u \in Threads, NEW m, Is(m, "put")
  PROVE  TreeInv(c, u, m)'
  <1> DEFINE n == pc[b][t]
  <1>1. /\ calling' = calling /\ m \in DOMAIN Code
        /\ c # b \/ u # t => pc'[c][u] = pc[c][u]
        /\ TreeInv(c, u, m) /\ DOMAIN Code' = DOMAIN Code
    BY TreeBefore
  <1>2. 0 \in Threads
    BY CallFacts
  <1>3. CASE c # b
    <2>1. /\ scratch'[c][u] = scratch[c][u] /\ scratch'[c][0] = scratch[c][0]
          /\ \A v \in Threads : stride'[c][v] = stride[c][v]
      BY <1>2, <1>3, PutEffect
    <2> QED BY <1>1, <1>3, <2>1, TreeKept
  <1>4. CASE c = b /\ u # t
    <2>1. pc[b][u] \notin {m + 2, m + 3, m + 4}
      BY PutAlone
    <2>2. stride'[b][u] = stride[b][u] /\ scratch'[b][u] = scratch[b][u]
      BY <1>4, PutEffect
    <2> QED BY <1>1, <1>4, <2>1, <2>2, TreeKept
  <1>5. CASE c = b /\ u = t
    <2>1. pc'[b][t] = n + 1 /\ n \in Nat /\ m \in Nat
      <3>1. Doing(b, t) \notin Checks \cup {"return"}
        BY DEF Doing, Is, Checks
      <3> QED BY <3>1, MovesOn, ReductionCode
    <2>2. CASE m # n
      <3>1. n + 1 \notin {m + 1, m + 2, m + 3, m + 4}
        BY <2>1, <2>2, ReductionsApart
      <3> QED BY <1>5, <2>1, <3>1, NoTreeAround
    <2>3. CASE m = n
      <3>1. stride'[b][t] = BlockDim \div 2 /\ scratch'[b][t] = local[b][t][Code[n].red]
        BY PutEffect DEF Instr
      <3>2. scratch'[b][t] = Whole(Code[n].red, Share(b, t, BlockDim))
        BY <3>1, PartIsDone
      <3>3. /\ Code' = Code /\ BlockDim' = BlockDim
            /\ Share(b, t, BlockDim)' = Share(b, t, BlockDim)
        BY <1>1, SameCall DEF Share, BlockDim, Extent, LoopExtent
      <3>4. Slot(b, t, m, BlockDim)'
        BY <2>3, <3>2, <3>3 DEF Slot, Whole, Terms
      <3>5. pc'[b][t] # m + 2 /\ pc'[b][t] # m + 3 /\ pc'[b][t] # m + 4
        BY <2>1, <2>3
      <3>6. (stride[b][t] = BlockDim \div 2)'
        BY <3>1, <3>3
      <3> HIDE DEF Slot, Folded
      <3>7. TreeInv(b, t, m)'
        BY <3>4, <3>5, <3>6 DEF TreeInv
      <3> QED BY <1>5, <3>7
    <2> QED BY <2>2, <2>3
  <1> QED BY <1>3, <1>4, <1>5

(* A thread that adds has a partner, which does not. *)
LEMMA TwoShares ==
  ASSUME SetUp, NEW s \in Strides, 2 * s <= BlockDim
  PROVE  /\ s \in Nat /\ s > 0
         /\ \A t \in Threads : t < s => t \in 0..(s - 1) /\ t + s \in Threads /\ t + s < 2 * s /\ ~(t + s < s)
  <1>1. s \in Nat /\ s > 0
    BY DEF Strides
  <1> QED BY <1>1, CallFacts DEF Threads, BlockDim

(* What a thread finds when it is to add. *)
LEMMA FoldFinds ==
  ASSUME SetUp, Shapes, PathInv, Together, ScratchInv, NEW b \in Blocks, NEW t \in Threads,
         NEW n, Is(n, "put"), pc[b][t] = n + 2
  PROVE  /\ stride[b][t] \in Strides /\ 2 * stride[b][t] <= BlockDim
         /\ \A v \in Threads : stride[b][v] = stride[b][t]
         /\ t < stride[b][t] =>
              Sum(scratch[b][t], scratch[b][t + stride[b][t]])
                = Whole(Code[n].red, Share(b, t, stride[b][t]))
         /\ t < 2 * stride[b][t] => Slot(b, t, n, 2 * stride[b][t])
  <1> DEFINE s == stride[b][t]
  <1>1. n \in DOMAIN Code /\ TreeInv(b, t, n) /\ n \in Nat
    BY ReductionCode DEF ScratchInv, Is
  <1>2. ~Folded(b, t, n)
    BY <1>1 DEF Folded
  <1>3. /\ s \in Strides /\ 2 * s <= BlockDim
        /\ \A v \in Threads : stride[b][v] = s
        /\ t < 2 * s => Slot(b, t, n, 2 * s)
    BY <1>1, <1>2 DEF TreeInv
  <1>4. ASSUME t < s
        PROVE  Sum(scratch[b][t], scratch[b][t + s]) = Whole(Code[n].red, Share(b, t, s))
    <2>1. t \in 0..(s - 1) /\ t + s \in Threads /\ t + s < 2 * s /\ ~(t + s < s)
      BY <1>3, <1>4, TwoShares
    <2>10. s \in Nat /\ t \in Nat
      BY <1>3, TwoShares, CallFacts
    <2>11. t < 2 * s
      BY <1>4, <2>10
    <2>2. Slot(b, t, n, 2 * s)
      BY <1>3, <2>11
    <2>8. pc[b][t] \in {n + 2, n + 3}
      OBVIOUS
    <2>9. \A u \in Threads : pc[b][u] \in {n + 2, n + 3}
      BY <2>8, FoldTogether
    <2>3. pc[b][t + s] \in {n + 2, n + 3} /\ TreeInv(b, t + s, n)
      BY <1>1, <2>1, <2>9 DEF ScratchInv
    <2>4. stride[b][t + s] = s
      BY <1>3, <2>1
    <2>5. ~Folded(b, t + s, n)
      BY <2>1, <2>4 DEF Folded
    <2>6. Slot(b, t + s, n, 2 * stride[b][t + s])
      BY <2>1, <2>3, <2>4, <2>5 DEF TreeInv
    <2>7. Slot(b, t + s, n, 2 * s)
      BY <2>4, <2>6
    <2> HIDE DEF s
    <2> QED BY <1>3, <2>1, <2>2, <2>7, SlotsAdd, LoopOfPut
  <1> QED BY <1>3, <1>4

(* An addition keeps every tree, its own one round on. *)
LEMMA FoldScratch ==
  ASSUME SetUp, Shapes, PathInv, Together, ScratchInv,
         NEW b \in Blocks, NEW t \in Threads, Fold(b, t), Is(pc[b][t], "fold"), ThreadMoves(b, t),
         stride' = stride, NEW c \in Blocks, NEW u \in Threads, NEW m, Is(m, "put")
  PROVE  TreeInv(c, u, m)'
  <1>0. PICK n : n = pc[b][t] - 2
    OBVIOUS
  <1>1. /\ calling' = calling /\ m \in DOMAIN Code
        /\ c # b \/ u # t => pc'[c][u] = pc[c][u]
        /\ TreeInv(c, u, m) /\ DOMAIN Code' = DOMAIN Code
    BY TreeBefore
  <1>2. 0 \in Threads
    BY CallFacts
  <1>3. Is(n, "put") /\ n \in Nat /\ m \in Nat /\ pc[b][t] \in Nat /\ pc[b][t] = n + 2
    <2>2. pc[b][t] \in DOMAIN Code
      BY DEF Is
    <2>1. Is(n, "put") /\ pc[b][t] \in Nat
      BY <1>0, <2>2, ReductionOf
    <2>3. n \in Nat
      BY <2>1, ReductionCode
    <2>4. m \in Nat
      BY ReductionCode
    <2> QED BY <1>0, <2>1, <2>3, <2>4
  <1>4. CASE c # b
    <2>1. scratch'[c][u] = scratch[c][u] /\ scratch'[c][0] = scratch[c][0]
      BY <1>2, <1>4, FoldEffect
    <2> QED BY <1>1, <1>4, <2>1, TreeKept
  <1>5. CASE c = b /\ u # t
    <2>4. pc[b][t] \in {n + 2, n + 3}
      BY <1>3
    <2>1. pc[b][u] \in {n + 2, n + 3}
      BY <1>3, <2>4, FoldTogether
    <2>2. pc[b][u] # m + 4
      BY <1>3, <2>1, ReductionsApart
    <2>3. scratch'[b][u] = scratch[b][u]
      BY <1>5, FoldEffect
    <2> QED BY <1>1, <1>5, <2>2, <2>3, TreeKept
  <1>6. CASE c = b /\ u = t
    <2>1. pc'[b][t] = n + 3
      <3>1. Doing(b, t) \notin Checks \cup {"return"}
        BY DEF Doing, Is, Checks
      <3> QED BY <1>3, <3>1, MovesOn
    <2>2. CASE m # n
      <3>1. n + 3 \notin {m + 1, m + 2, m + 3, m + 4}
        BY <1>3, <2>2, ReductionsApart
      <3> QED BY <1>6, <2>1, <3>1, NoTreeAround
    <2>3. CASE m = n
      <3> DEFINE s == stride[b][t]
      <3>1. /\ s \in Strides /\ 2 * s <= BlockDim /\ \A v \in Threads : stride[b][v] = s
            /\ t < s => Sum(scratch[b][t], scratch[b][t + s]) = Whole(Code[m].red, Share(b, t, s))
            /\ t < 2 * s => Slot(b, t, m, 2 * s)
        BY <1>3, <2>3, FoldFinds
      <3>2. /\ Code' = Code /\ BlockDim' = BlockDim /\ Threads' = Threads
            /\ \A k : Share(b, t, k)' = Share(b, t, k)
        BY <1>1, SameCall
      <3>3. scratch'[b][t] = IF t < s THEN Whole(Code[m].red, Share(b, t, s)) ELSE scratch[b][t]
        BY <3>1, FoldEffect
      <3>4. stride'[b][t] = s
        OBVIOUS
      <3>5. Folded(b, t, m)' <=> t < s
        BY <2>1, <2>3 DEF Folded
      <3>6. ASSUME t < s PROVE Slot(b, t, m, stride[b][t])'
        BY <3>2, <3>3, <3>4, <3>6 DEF Slot, Whole, Terms
      <3>7. ASSUME ~(t < s), t < 2 * s PROVE Slot(b, t, m, 2 * stride[b][t])'
        BY <3>1, <3>2, <3>3, <3>4, <3>7 DEF Slot, Whole, Terms
      <3>8. pc'[b][t] # m + 1 /\ pc'[b][t] # m + 4
        BY <1>3, <2>1, <2>3
      <3>9. (/\ stride[b][t] \in Strides /\ 2 * stride[b][t] <= BlockDim
             /\ \A v \in Threads : stride[b][v] = stride[b][t])'
        BY <3>1, <3>2, <3>4 DEF Strides
      <3> HIDE DEF s, Slot, Folded, Strides
      <3>10. (Folded(b, t, m) => Slot(b, t, m, stride[b][t]))'
        BY <3>5, <3>6
      <3>11. (t < 2 * stride[b][t] /\ ~Folded(b, t, m) => Slot(b, t, m, 2 * stride[b][t]))'
        BY <3>4, <3>5, <3>7
      <3>12. TreeInv(b, t, m)'
        BY <3>8, <3>9, <3>10, <3>11 DEF TreeInv
      <3> QED BY <1>6, <3>12
    <2> QED BY <2>2, <2>3
  <1> QED BY <1>4, <1>5, <1>6

(* A step of a thread keeps every tree. *)
LEMMA ThreadStepScratch ==
  ASSUME SetUp, Shapes, PathInv, Together, TargetInv, LocalInv, ScratchInv,
         NEW b \in Blocks, NEW t \in Threads, ThreadStep(b, t)
  PROVE  ScratchInv'
  <1>1. /\ calling' = calling /\ Instruction(b, t) /\ Frame(b, t) /\ pc[b][t] \in DOMAIN Code
        /\ ThreadMoves(b, t)
    BY StepByOp, ThreadStepMoves
  <1>2. /\ Blocks' = Blocks /\ Threads' = Threads /\ Code' = Code
        /\ \A n : Is(n, "put")' <=> Is(n, "put")
    BY <1>1, SameCall
  <1>3. ASSUME NEW c \in Blocks, NEW u \in Threads, NEW m, Is(m, "put")
        PROVE  TreeInv(c, u, m)'
    <2>1. CASE Doing(b, t) = "put"
      <3>1. Put(b, t) /\ Is(pc[b][t], "put")
        BY <1>1, <2>1 DEF Instruction, Is, Doing
      <3> QED BY <1>1, <1>3, <3>1, PutScratch
    <2>2. CASE Doing(b, t) = "fold"
      <3>1. Fold(b, t) /\ Is(pc[b][t], "fold") /\ stride' = stride
        BY <1>1, <2>2 DEF Instruction, Frame, Is, Doing
      <3> QED BY <1>1, <1>3, <3>1, FoldScratch
    <2>3. CASE Doing(b, t) \notin {"put", "fold"}
      <3>1. stride' = stride /\ scratch' = scratch
        BY <1>1, <2>3 DEF Frame
      <3>2. CASE c = b /\ u = t
        <4>1. pc'[b][t] \notin {m + 1, m + 2, m + 3, m + 4}
          BY <1>1, <1>3, <2>3, MoveOutsideReduction
        <4> QED BY <3>2, <4>1, NoTreeAround
      <3>3. CASE c # b \/ u # t
        <4>1. pc'[c][u] = pc[c][u]
          BY <1>1, <3>3, MoveFacts
        <4>2. TreeInv(c, u, m)
          BY <1>3 DEF ScratchInv, Is
        <4> QED BY <1>1, <3>1, <4>1, <4>2, TreeKept
      <3> QED BY <3>2, <3>3
    <2> QED BY <2>1, <2>2, <2>3
  <1> HIDE DEF TreeInv
  <1> QED BY <1>2, <1>3 DEF ScratchInv

(* What a barrier does to the strides. *)
LEMMA SyncEffect ==
  ASSUME SetUp, Shapes, NEW b \in Blocks, SyncThreads(b)
  PROVE  /\ \A t \in Threads :
              pc'[b][t] = IF Is(pc[b][0], "syncfold") /\ stride[b][0] \div 2 > 0
                          THEN pc[b][0] - 1 ELSE pc[b][0] + 1
         /\ \A c \in Blocks, t \in Threads :
              stride'[c][t] = IF c = b /\ Is(pc[b][0], "syncfold") THEN stride[c][t] \div 2
                                                                 ELSE stride[c][t]
         /\ scratch' = scratch
  <1> DEFINE again == Instr(b, 0).op = "syncfold" /\ stride[b][0] \div 2 > 0
             moved == [t \in Threads |-> IF again THEN pc[b][t] - 1 ELSE pc[b][t] + 1]
             halved == [t \in Threads |-> stride[b][t] \div 2]
  <1>1. pc[b][0] \in DOMAIN Code
    BY SyncMoves DEF Barriered
  <1>2. Instr(b, 0).op = "syncfold" <=> Is(pc[b][0], "syncfold")
    BY <1>1 DEF Instr, Is
  <1>3. \A t \in Threads : pc[b][t] = pc[b][0]
    BY DEF SyncThreads
  <1>4. pc' = [pc EXCEPT ![b] = moved]
    BY DEF SyncThreads
  <1>5. DOMAIN pc = Blocks /\ DOMAIN stride = Blocks
    BY DEF Shapes
  <1>6. pc'[b] = moved
    BY <1>4, <1>5
  <1>7. \A t \in Threads :
              pc'[b][t] = IF Is(pc[b][0], "syncfold") /\ stride[b][0] \div 2 > 0
                          THEN pc[b][0] - 1 ELSE pc[b][0] + 1
    BY <1>2, <1>3, <1>6
  <1>8. stride' = IF Instr(b, 0).op = "syncfold" THEN [stride EXCEPT ![b] = halved] ELSE stride
    BY DEF SyncThreads
  <1>9. \A c \in Blocks, t \in Threads :
              stride'[c][t] = IF c = b /\ Is(pc[b][0], "syncfold") THEN stride[c][t] \div 2
                                                                 ELSE stride[c][t]
    BY <1>2, <1>5, <1>8
  <1>10. scratch' = scratch
    BY DEF SyncThreads
  <1> QED BY <1>7, <1>9, <1>10

(* A tree begins with half a block. *)
LEMMA HalfBlock ==
  ASSUME SetUp
  PROVE  BlockDim \div 2 \in Strides /\ 2 * (BlockDim \div 2) = BlockDim
  <1>1. BlockDim \in BlockSizes
    BY CallFacts
  <1> HIDE DEF BlockDim
  <1>2. \A T \in BlockSizes : T \div 2 \in Strides /\ 2 * (T \div 2) = T
    BY DEF BlockSizes, Strides
  <1> QED BY <1>1, <1>2

(* Half a stride is a stride, or the stride was 1. *)
LEMMA HalfOfStride ==
  ASSUME NEW s \in Strides
  PROVE  /\ s \div 2 > 0 => s \div 2 \in Strides /\ 2 * (s \div 2) = s
         /\ ~(s \div 2 > 0) => s = 1
         /\ s \in Nat /\ s > 0
  BY DEF Strides

(* The barrier after the puts begins the tree. *)
LEMMA FoldingBegins ==
  ASSUME SetUp, Shapes, PathInv, ScratchInv, NEW b \in Blocks, SyncThreads(b),
         Is(pc[b][0], "sync"), NEW u \in Threads, NEW m, Is(m, "put"), pc[b][0] = m + 1
  PROVE  TreeInv(b, u, m)'
  <1>1. /\ \A t \in Threads : pc[b][t] = m + 1
        /\ calling' = calling /\ m \in DOMAIN Code /\ m \in Nat
    BY SyncMoves, ReductionCode DEF Barriered, Is
  <1>2. \A t \in Threads : stride[b][t] = BlockDim \div 2 /\ Slot(b, t, m, BlockDim)
    BY <1>1 DEF ScratchInv, TreeInv
  <1>3. ~Is(pc[b][0], "syncfold")
    BY DEF Is
  <1>4. /\ pc'[b][u] = m + 2 /\ scratch' = scratch
        /\ \A t \in Threads : stride'[b][t] = stride[b][t]
    BY <1>1, <1>3, SyncEffect
  <1>5. /\ Code' = Code /\ BlockDim' = BlockDim /\ Threads' = Threads
        /\ \A k : Share(b, u, k)' = Share(b, u, k)
    BY <1>1, SameCall
  <1>6. stride'[b][u] = BlockDim \div 2 /\ BlockDim \div 2 \in Strides /\ 2 * (BlockDim \div 2) = BlockDim
        /\ BlockDim \in Nat
    BY <1>2, <1>4, HalfBlock, CallFacts
  <1>7. Slot(b, u, m, 2 * stride[b][u])'
    BY <1>2, <1>4, <1>5, <1>6 DEF Slot, Whole, Terms
  <1>8. pc'[b][u] # m + 1 /\ pc'[b][u] # m + 3 /\ pc'[b][u] # m + 4
    BY <1>1, <1>4
  <1>9. ~Folded(b, u, m)'
    BY <1>8 DEF Folded
  <1>10. (/\ stride[b][u] \in Strides /\ 2 * stride[b][u] <= BlockDim
          /\ \A v \in Threads : stride[b][v] = stride[b][u])'
    BY <1>2, <1>4, <1>5, <1>6 DEF Strides
  <1> HIDE DEF Slot, Folded, Strides
  <1> QED BY <1>7, <1>8, <1>9, <1>10 DEF TreeInv

(* The barrier of the tree begins its next round, or ends it. *)
LEMMA FoldingGoesOn ==
  ASSUME SetUp, Shapes, PathInv, ScratchInv, NEW b \in Blocks, SyncThreads(b),
         Is(pc[b][0], "syncfold"), NEW u \in Threads, NEW m, Is(m, "put"), pc[b][0] = m + 3
  PROVE  TreeInv(b, u, m)'
  <1> DEFINE s == stride[b][u]
             h == s \div 2
  <1>1. /\ \A t \in Threads : pc[b][t] = m + 3
        /\ calling' = calling /\ m \in DOMAIN Code /\ m \in Nat /\ 0 \in Threads
    BY SyncMoves, ReductionCode, CallFacts DEF Barriered, Is
  <1>2. TreeInv(b, u, m) /\ TreeInv(b, 0, m)
    BY <1>1 DEF ScratchInv
  <1>3. /\ s \in Strides /\ 2 * s <= BlockDim
        /\ \A v \in Threads : stride[b][v] = s
        /\ Folded(b, u, m) => Slot(b, u, m, s)
    BY <1>1, <1>2 DEF TreeInv
  <1>4. stride[b][0] = s /\ (Folded(b, 0, m) => Slot(b, 0, m, s))
    BY <1>1, <1>2, <1>3 DEF TreeInv
  <1>5. /\ Code' = Code /\ BlockDim' = BlockDim /\ Threads' = Threads
        /\ \A k : Share(b, u, k)' = Share(b, u, k)
        /\ \A k : Share(b, 0, k)' = Share(b, 0, k)
    BY <1>1, SameCall
  <1>6. /\ pc'[b][u] = IF h > 0 THEN m + 2 ELSE m + 4
        /\ \A t \in Threads : stride'[b][t] = stride[b][t] \div 2
        /\ scratch' = scratch
    <2>1. /\ pc'[b][u] = IF stride[b][0] \div 2 > 0 THEN (m + 3) - 1 ELSE (m + 3) + 1
          /\ \A t \in Threads : stride'[b][t] = stride[b][t] \div 2
          /\ scratch' = scratch
      BY SyncEffect
    <2> QED BY <1>1, <1>4, <2>1
  <1>7. /\ \A t \in Threads : stride'[b][t] = h
        /\ s \in Nat /\ s > 0 /\ BlockDim \in Nat /\ u \in Nat
    BY <1>3, <1>6, HalfOfStride, CallFacts
  <1>8. CASE h > 0
    <2>1. h \in Strides /\ 2 * h = s
      BY <1>3, <1>8, HalfOfStride
    <2>2. pc'[b][u] = m + 2 /\ pc'[b][u] # m + 1 /\ pc'[b][u] # m + 3 /\ pc'[b][u] # m + 4
      BY <1>1, <1>6, <1>8
    <2>3. ASSUME u < s PROVE Slot(b, u, m, s)
      BY <1>1, <1>3, <2>3 DEF Folded
    <2>4. 2 * stride'[b][u] = s
      BY <1>7, <2>1
    <2>5. ASSUME u < s PROVE Slot(b, u, m, 2 * stride[b][u])'
      BY <1>5, <1>6, <2>3, <2>4, <2>5 DEF Slot, Whole, Terms
    <2>6. ~Folded(b, u, m)'
      BY <2>2 DEF Folded
    <2>7. stride'[b][u] \in Strides
      BY <1>7, <2>1
    <2>8. 2 * s <= BlockDim
      BY <1>3
    <2> HIDE DEF s, h
    <2>9. s <= BlockDim
      BY <1>7, <2>8
    <2>12. (stride[b][u] \in Strides)'
      BY <2>7 DEF Strides
    <2>13. (2 * stride[b][u] <= BlockDim)'
      BY <1>5, <2>4, <2>9
    <2>14. (\A v \in Threads : stride[b][v] = stride[b][u])'
      BY <1>5, <1>7
    <2>11. (u < 2 * stride[b][u] => Slot(b, u, m, 2 * stride[b][u]))'
      BY <2>4, <2>5
    <2> HIDE DEF Slot, Folded, Strides
    <2> QED BY <2>2, <2>6, <2>11, <2>12, <2>13, <2>14 DEF TreeInv
  <1>9. CASE ~(h > 0)
    <2>1. s = 1
      BY <1>3, <1>9, HalfOfStride
    <2>2. Folded(b, 0, m)
      BY <1>1, <1>4, <2>1 DEF Folded
    <2>3. Slot(b, 0, m, 1)
      BY <1>4, <2>1, <2>2
    <2>4. Slot(b, 0, m, 1)'
      BY <1>5, <1>6, <2>3 DEF Slot, Whole, Terms
    <2>5. pc'[b][u] = m + 4 /\ pc'[b][u] # m + 1 /\ pc'[b][u] # m + 2 /\ pc'[b][u] # m + 3
      BY <1>1, <1>6, <1>9
    <2> HIDE DEF Slot
    <2> QED BY <2>4, <2>5 DEF TreeInv
  <1> QED BY <1>8, <1>9

(* A barrier keeps every tree. *)
LEMMA BarrierScratch ==
  ASSUME SetUp, Shapes, PathInv, ScratchInv, NEW b \in Blocks, SyncThreads(b)
  PROVE  ScratchInv'
  <1>1. Barriered(b)
    BY SyncMoves
  <1>2. /\ calling' = calling /\ pc[b][0] \in DOMAIN Code /\ 0 \in Threads
        /\ Is(pc[b][0], "sync") \/ Is(pc[b][0], "syncfold")
    BY <1>1, CallFacts DEF Barriered, Barrier
  <1>3. /\ Blocks' = Blocks /\ Threads' = Threads /\ Code' = Code
        /\ \A n : Is(n, "put")' <=> Is(n, "put")
    BY <1>2, SameCall
  <1>4. ASSUME NEW c \in Blocks, NEW u \in Threads, NEW m, Is(m, "put")
        PROVE  TreeInv(c, u, m)'
    <2>1. CASE c # b
      <3>1. /\ pc'[c][u] = pc[c][u] /\ TreeInv(c, u, m)
            /\ scratch' = scratch /\ \A v \in Threads : stride'[c][v] = stride[c][v]
        BY <1>1, <1>4, <2>1, SyncEffect DEF Barriered, ScratchInv, Is
      <3> QED BY <1>2, <3>1, TreeKept
    <2>2. CASE c = b
      <3>0. m \in Nat /\ pc[b][0] \in Nat
        BY <1>2, <1>4, ReductionCode, ReductionOf
      <3>1. CASE Is(pc[b][0], "sync")
        <4>1. CASE pc[b][0] = m + 1
          BY <1>4, <2>2, <3>1, <4>1, FoldingBegins
        <4>2. CASE pc[b][0] # m + 1
          <5>1. pc'[b][u] = pc[b][0] + 1
            <6>1. ~Is(pc[b][0], "syncfold")
              BY <3>1 DEF Is
            <6> QED BY <6>1, SyncEffect
          <5>2. pc[b][0] # m /\ pc[b][0] # m + 2 /\ pc[b][0] # m + 3
            BY <1>4, <3>1, ReductionCode DEF Is
          <5>3. pc'[b][u] \notin {m + 1, m + 2, m + 3, m + 4}
            BY <3>0, <4>2, <5>1, <5>2
          <5> QED BY <2>2, <5>3, NoTreeAround
        <4> QED BY <4>1, <4>2
      <3>2. CASE Is(pc[b][0], "syncfold")
        <4>0. PICK n : n = pc[b][0] - 3
          OBVIOUS
        <4>1. Is(n, "put") /\ n \in Nat /\ pc[b][0] = n + 3
          <5>1. Is(n, "put")
            BY <3>2, <4>0, ReductionOf
          <5>2. n \in Nat
            BY <5>1, ReductionCode
          <5> QED BY <3>0, <4>0, <5>1, <5>2
        <4>2. CASE m = n
          BY <1>4, <2>2, <3>2, <4>1, <4>2, FoldingGoesOn
        <4>3. CASE m # n
          <5>1. pc'[b][u] = pc[b][0] + 1 \/ pc'[b][u] = pc[b][0] - 1
            BY SyncEffect
          <5>2. m + 4 < n \/ n + 4 < m
            BY <1>4, <4>1, <4>3, ReductionsApart
          <5>3. pc'[b][u] = n + 4 \/ pc'[b][u] = n + 2
            BY <4>1, <5>1
          <5>4. pc'[b][u] \notin {m + 1, m + 2, m + 3, m + 4}
            BY <3>0, <4>1, <5>2, <5>3
          <5> QED BY <2>2, <5>4, NoTreeAround
        <4> QED BY <4>2, <4>3
      <3> QED BY <1>2, <3>1, <3>2
    <2> QED BY <2>1, <2>2
  <1> HIDE DEF TreeInv
  <1> QED BY <1>3, <1>4 DEF ScratchInv

(* After the last round the first slot holds the sum of the row. *)
LEMMA WholeShare ==
  ASSUME SetUp, NEW b, LoopExtent \in {"row", "causal", "grid"}
  PROVE  Share(b, 0, 1) = Extent(LoopExtent, b)
  <1>1. Extent(LoopExtent, b) \subseteq Cols
    BY ExtentInRow
  <1>2. \A c \in Cols : c % BlockDim \in Nat
    BY OwnerOf, CallFacts
  <1>3. \A x \in Nat : x % 1 = 0
    OBVIOUS
  <1> QED BY <1>1, <1>2, <1>3 DEF Share

(* What a thread reads from the first slot is the whole sum. *)
LEMMA GetReads ==
  ASSUME SetUp, Shapes, PathInv, ScratchInv, NEW b \in Blocks, NEW t \in Threads, Is(pc[b][t], "get")
  PROVE  scratch[b][0] = Whole(Code[pc[b][t]].red, Extent(LoopExtent, b)) /\ Code[pc[b][t]].red \in Reds
  <1>0. PICK n : n = pc[b][t] - 4
    OBVIOUS
  <1>1. Is(n, "put") /\ n \in Nat /\ pc[b][t] = n + 4
    <2>1. pc[b][t] \in Nat /\ pc[b][t] > 4
      BY ReductionOf DEF Is
    <2>2. Is(n, "put")
      BY <1>0, ReductionOf
    <2> QED BY <1>0, <2>1, <2>2
  <1>2. Code[pc[b][t]].red = Code[n].red /\ Code[n].red \in Reds
    BY <1>1, ReductionCode
  <1>3. TreeInv(b, t, n)
    BY <1>1 DEF ScratchInv, Is
  <1>4. Slot(b, 0, n, 1)
    BY <1>1, <1>3 DEF TreeInv
  <1>5. LoopExtent \in {"row", "causal", "grid"}
    BY <1>1, LoopOfPut
  <1>6. Share(b, 0, 1) = Extent(LoopExtent, b)
    BY <1>5, WholeShare
  <1> QED BY <1>2, <1>4, <1>6 DEF Slot

(* What a read leaves in the results. *)
LEMMA GetEffect ==
  ASSUME SetUp, Shapes, NEW b \in Blocks, NEW t \in Threads, Get(b, t),
         NEW c \in Blocks, NEW u \in Threads, NEW r \in Reds
  PROVE  result'[c][u][r] = IF c = b /\ u = t /\ r = Code[pc[b][t]].red THEN scratch[b][0]
                                                                     ELSE result[c][u][r]
  <1>1. DOMAIN result = Blocks /\ DOMAIN result[b] = Threads /\ DOMAIN result[b][t] = Reds
    BY DEF Shapes
  <1>2. result' = [result EXCEPT ![b][t][Code[pc[b][t]].red] = scratch[b][0]]
    BY DEF Get, Instr
  <1>3. CASE c = b
    BY <1>1, <1>2, <1>3
  <1>4. CASE c # b
    BY <1>1, <1>2, <1>4
  <1> QED BY <1>3, <1>4

(* A result stays whole when it is not read again. *)
LEMMA ReadKept ==
  ASSUME calling' = calling, NEW b, NEW t, NEW r, ReadInv(b, t, r), result'[b][t][r] = result[b][t][r],
         \A n : Is(n, "get") => (Past(b, t, n)' <=> Past(b, t, n))
  PROVE  ReadInv(b, t, r)'
  <1>1. /\ Code' = Code /\ LoopExtent' = LoopExtent /\ Cols' = Cols
        /\ \A n : Is(n, "get")' <=> Is(n, "get")
        /\ \A e : Extent(e, b)' = Extent(e, b)
    BY SameCall
  <1>2. Whole(r, Extent(LoopExtent, b))' = Whole(r, Extent(LoopExtent, b))
    BY <1>1 DEF Whole, Terms
  <1> HIDE DEF Whole, Is, Past
  <1> QED BY <1>1, <1>2 DEF ReadInv

(* A step of a thread reads whole sums only. *)
LEMMA ThreadStepResult ==
  ASSUME SetUp, Shapes, PathInv, Together, TargetInv, ScratchInv, ResultInv,
         NEW b \in Blocks, NEW t \in Threads, ThreadStep(b, t)
  PROVE  ResultInv'
  <1>1. /\ calling' = calling /\ Instruction(b, t) /\ Frame(b, t) /\ pc[b][t] \in DOMAIN Code
        /\ ThreadMoves(b, t)
    BY StepByOp, ThreadStepMoves
  <1>2. /\ Blocks' = Blocks /\ Threads' = Threads /\ Code' = Code /\ LoopExtent' = LoopExtent
        /\ \A n : Is(n, "get")' <=> Is(n, "get")
        /\ \A e, c : Extent(e, c)' = Extent(e, c)
    BY <1>1, SameCall
  <1>3. ASSUME NEW c \in Blocks, NEW u \in Threads, NEW r \in Reds
        PROVE  ReadInv(c, u, r)'
    <2>1. \A n : Is(n, "get") => (Past(c, u, n)' <=> Was(b, t, c, u, n))
      <3>1. \A n : Is(n, "get") => n \in DOMAIN Code /\ ~Is(n, "poison")
        BY DEF Is
      <3> QED BY <1>1, <3>1, MoveFacts
    <2>2. ReadInv(c, u, r)
      BY DEF ResultInv
    <2>3. CASE ~(c = b /\ u = t /\ Is(pc[b][t], "get") /\ r = Code[pc[b][t]].red)
      <3>1. result'[c][u][r] = result[c][u][r]
        <4>1. CASE Doing(b, t) = "get"
          <5>1. Get(b, t) /\ Is(pc[b][t], "get")
            BY <1>1, <4>1 DEF Instruction, Is, Doing
          <5> QED BY <2>3, <5>1, GetEffect
        <4>2. CASE Doing(b, t) # "get"
          BY <1>1, <4>2 DEF Frame
        <4> QED BY <4>1, <4>2
      <3>2. \A n : Is(n, "get") /\ Code[n].red = r => (Past(c, u, n)' <=> Past(c, u, n))
        BY <2>1, <2>3 DEF Was
      <3>3. Whole(r, Extent(LoopExtent, c))' = Whole(r, Extent(LoopExtent, c))
        BY <1>2 DEF Whole, Terms
      <3> HIDE DEF Whole, Is, Past
      <3> QED BY <1>2, <2>2, <3>1, <3>2, <3>3 DEF ReadInv
    <2>4. CASE c = b /\ u = t /\ Is(pc[b][t], "get") /\ r = Code[pc[b][t]].red
      <3>1. Get(b, t)
        BY <1>1, <2>4 DEF Instruction, Is, Doing
      <3>2. result'[c][u][r] = Whole(r, Extent(LoopExtent, c))
        BY <2>4, <3>1, GetEffect, GetReads
      <3>3. Whole(r, Extent(LoopExtent, c))' = Whole(r, Extent(LoopExtent, c))
        BY <1>2 DEF Whole, Terms
      <3>4. pc[b][t] \in DOMAIN Code'
        BY <1>1, <1>2
      <3>5. (\E n \in DOMAIN Code : Is(n, "get") /\ Code[n].red = r)'
        BY <1>2, <2>4, <3>4
      <3> HIDE DEF Whole, Is, Past
      <3> QED BY <3>2, <3>3, <3>5 DEF ReadInv
    <2> QED BY <2>3, <2>4
  <1> HIDE DEF ReadInv
  <1> QED BY <1>2, <1>3 DEF ResultInv

(* A barrier keeps the results. *)
LEMMA BarrierResult ==
  ASSUME SetUp, Shapes, PathInv, ResultInv, NEW b \in Blocks, SyncThreads(b)
  PROVE  ResultInv'
  <1>1. Barriered(b)
    BY SyncMoves
  <1>2. SamePast /\ calling' = calling /\ result' = result
    BY <1>1, BarrierFacts DEF Barriered, SyncThreads
  <1>3. Blocks' = Blocks /\ Threads' = Threads
    BY <1>2, SameCall
  <1>4. ASSUME NEW c \in Blocks, NEW u \in Threads, NEW r \in Reds
        PROVE  ReadInv(c, u, r)'
    <2>1. ReadInv(c, u, r) /\ result'[c][u][r] = result[c][u][r]
      BY <1>2 DEF ResultInv
    <2>2. \A n : Is(n, "get") => (Past(c, u, n)' <=> Past(c, u, n))
      BY <1>2 DEF SamePast, Is
    <2> QED BY <1>2, <2>1, <2>2, ReadKept
  <1> HIDE DEF ReadInv
  <1> QED BY <1>3, <1>4 DEF ResultInv

(* What a step adds to the accumulators *)
LossAfter(b, t) ==
  accum'["loss"][0] =
    IF t = 0 /\ Doing(b, t) = "add_loss"
    THEN Added(accum["loss"][0], {<<b, IF BadRow(b) THEN "nan" ELSE grabbed[b]>>})
    ELSE IF t = 0 /\ Doing(b, t) = "poison" THEN Added(accum["loss"][0], {<<b, "nan">>})
    ELSE accum["loss"][0]
GradientAfter(b, t, a, d) ==
  accum'[a][d] =
    IF Doing(b, t) = "loop" /\ Instr(b, t).adds # {} /\ d \in Own(Instr(b, t).extent, b, t)
    THEN Added(accum[a][d], {b}) ELSE accum[a][d]
TotalAfter(b, t, x) ==
  accum'["total"][x] =
    IF t = 0 /\ Doing(b, t) = "add_total" /\ x = 0 THEN Sum(accum["total"][0], result[b][0]["sum"])
    ELSE IF t = 0 /\ Doing(b, t) = "put_total" /\ x = b THEN result[b][0]["sum"]
    ELSE accum["total"][x]

(* The cells of an accumulator. *)
Cells == 0..(calling.shape.cols + calling.shape.rows)

(* An accumulator has a cell for every row and column. *)
LEMMA CellsHold ==
  ASSUME SetUp
  PROVE  0 \in Cells /\ Blocks \subseteq Cells /\ Cols \subseteq Cells
  <1>1. calling.shape.rows \in Nat \ {0} /\ calling.shape.cols \in Nat \ {0}
    BY CallFacts
  <1> QED BY <1>1 DEF Cells, Blocks, Cols

(* What a step of a thread adds to the accumulators. *)
LEMMA AccumEffect ==
  ASSUME SetUp, Shapes, NEW b \in Blocks, NEW t \in Threads, ThreadStep(b, t)
  PROVE  /\ LossAfter(b, t)
         /\ \A a \in {"dgamma", "dbeta"}, d \in Cols : GradientAfter(b, t, a, d)
         /\ \A x \in Cells : TotalAfter(b, t, x)
  <1>1. Instruction(b, t) /\ Frame(b, t) /\ Doing(b, t) = Instr(b, t).op /\ pc[b][t] \in DOMAIN Code
    BY StepByOp DEF Doing, Instr
  <1>2. /\ DOMAIN accum = Accumulators
        /\ DOMAIN accum["loss"] = Cells /\ DOMAIN accum["total"] = Cells
        /\ 0 \in Cells
    BY CellsHold DEF Shapes, Cells
  <1>3. CASE Doing(b, t) \notin {"loop", "add_loss", "add_total", "put_total", "poison"}
    <2>1. accum' = accum
      BY <1>1, <1>3 DEF Frame
    <2> QED BY <1>3, <2>1 DEF LossAfter, GradientAfter, TotalAfter
  <1>4. CASE Doing(b, t) = "loop"
    <2>1. RunLoop(b, t) /\ Is(pc[b][t], "loop")
      BY <1>1, <1>4 DEF Instruction, Is, Doing
    <2>2. Instr(b, t).adds \in {{}, {"dgamma", "dbeta"}}
      BY <2>1, LoopCode DEF IsLoop, Instr
    <2>3. accum' = [a \in Accumulators |->
           IF a \in Instr(b, t).adds
           THEN [c \in Cols |-> IF c \in Own(Instr(b, t).extent, b, t) THEN Added(accum[a][c], {b})
                                                                     ELSE accum[a][c]]
           ELSE accum[a]]
      BY <2>1 DEF RunLoop
    <2>4. accum'["loss"] = accum["loss"] /\ accum'["total"] = accum["total"]
      BY <2>2, <2>3 DEF Accumulators
    <2>5. ASSUME NEW a \in {"dgamma", "dbeta"}, NEW d \in Cols
          PROVE  GradientAfter(b, t, a, d)
      <3>1. a \in Accumulators
        BY DEF Accumulators
      <3> HIDE DEF Own, Added
      <3>2. a \in Instr(b, t).adds <=> Instr(b, t).adds # {}
        BY <2>2
      <3>3. CASE Instr(b, t).adds # {}
        <4>1. accum'[a] = [c \in Cols |-> IF c \in Own(Instr(b, t).extent, b, t)
                                           THEN Added(accum[a][c], {b}) ELSE accum[a][c]]
          BY <2>3, <3>1, <3>2, <3>3
        <4> QED BY <1>4, <3>3, <4>1 DEF GradientAfter
      <3>4. CASE Instr(b, t).adds = {}
        <4>1. accum'[a] = accum[a]
          BY <2>3, <3>1, <3>2, <3>4
        <4> QED BY <3>4, <4>1 DEF GradientAfter
      <3> QED BY <3>3, <3>4
    <2> QED BY <1>4, <2>4, <2>5 DEF LossAfter, TotalAfter
  <1>5. CASE Doing(b, t) \in {"add_loss", "add_total", "put_total"}
    <2>1. AddToGrid(b, t)
      BY <1>1, <1>5 DEF Instruction
    <2>2. CASE t # 0
      <3>1. accum' = accum
        BY <2>1, <2>2 DEF AddToGrid
      <3> QED BY <1>5, <2>2, <3>1 DEF LossAfter, GradientAfter, TotalAfter
    <2>3. CASE t = 0 /\ Doing(b, t) = "add_loss"
      <3>0. Instr(b, t).op = "add_loss"
        BY <1>1, <2>3
      <3>1. accum' = [accum EXCEPT !["loss"][0] =
                        Added(@, {<<b, IF BadRow(b) THEN "nan" ELSE grabbed[b]>>})]
        BY <2>1, <2>3, <3>0 DEF AddToGrid
      <3> HIDE DEF Added
      <3>2. accum'["loss"][0] = Added(accum["loss"][0], {<<b, IF BadRow(b) THEN "nan" ELSE grabbed[b]>>})
        BY <1>2, <3>1 DEF Accumulators
      <3>3. accum'["total"] = accum["total"] /\ \A a \in {"dgamma", "dbeta"} : accum'[a] = accum[a]
        BY <1>2, <3>1 DEF Accumulators
      <3> QED BY <2>3, <3>2, <3>3 DEF LossAfter, GradientAfter, TotalAfter
    <2>4. CASE t = 0 /\ Doing(b, t) = "add_total"
      <3>0. Instr(b, t).op = "add_total"
        BY <1>1, <2>4
      <3>1. accum' = [accum EXCEPT !["total"][0] = Sum(@, result[b][t]["sum"])]
        BY <2>1, <2>4, <3>0 DEF AddToGrid
      <3> HIDE DEF Sum
      <3>2. \A x \in Cells : accum'["total"][x] = IF x = 0 THEN Sum(accum["total"][0], result[b][0]["sum"])
                                                         ELSE accum["total"][x]
        BY <1>2, <2>4, <3>1 DEF Accumulators
      <3>3. accum'["loss"] = accum["loss"] /\ \A a \in {"dgamma", "dbeta"} : accum'[a] = accum[a]
        BY <1>2, <3>1 DEF Accumulators
      <3> QED BY <2>4, <3>2, <3>3 DEF LossAfter, GradientAfter, TotalAfter
    <2>5. CASE t = 0 /\ Doing(b, t) = "put_total"
      <3>0. Instr(b, t).op = "put_total"
        BY <1>1, <2>5
      <3>1. accum' = [accum EXCEPT !["total"][b] = result[b][t]["sum"]]
        BY <2>1, <2>5, <3>0 DEF AddToGrid
      <3>2. \A x \in Cells : accum'["total"][x] = IF x = b THEN result[b][0]["sum"] ELSE accum["total"][x]
        BY <1>2, <2>5, <3>1 DEF Accumulators
      <3>3. accum'["loss"] = accum["loss"] /\ \A a \in {"dgamma", "dbeta"} : accum'[a] = accum[a]
        BY <1>2, <3>1 DEF Accumulators
      <3> QED BY <2>5, <3>2, <3>3 DEF LossAfter, GradientAfter, TotalAfter
    <2> QED BY <1>5, <2>2, <2>3, <2>4, <2>5
  <1>6. CASE Doing(b, t) = "poison"
    <2>1. PoisonRow(b, t)
      BY <1>1, <1>6 DEF Instruction
    <2>2. CASE t # 0
      <3>1. accum' = accum
        BY <2>1, <2>2 DEF PoisonRow
      <3> QED BY <1>6, <2>2, <3>1 DEF LossAfter, GradientAfter, TotalAfter
    <2>3. CASE t = 0
      <3>1. accum' = [accum EXCEPT !["loss"][0] = Added(@, {<<b, "nan">>})]
        BY <2>1, <2>3 DEF PoisonRow
      <3> HIDE DEF Added
      <3>2. accum'["loss"][0] = Added(accum["loss"][0], {<<b, "nan">>})
        BY <1>2, <3>1 DEF Accumulators
      <3>3. accum'["total"] = accum["total"] /\ \A a \in {"dgamma", "dbeta"} : accum'[a] = accum[a]
        BY <1>2, <3>1 DEF Accumulators
      <3> QED BY <1>6, <2>3, <3>2, <3>3 DEF LossAfter, GradientAfter, TotalAfter
    <2> QED BY <2>2, <2>3
  <1> QED BY <1>3, <1>4, <1>5, <1>6

(* One term more. *)
LEMMA HoldsOneMore ==
  ASSUME NEW v, NEW S, NEW x, IsFiniteSet(S), Holds(v, S), x \notin S
  PROVE  Holds(Added(v, {x}), S \cup {x})
  <1>1. Cardinality(S \cup {x}) = Cardinality(S) + 1
    BY FS_AddElement
  <1>2. Cardinality({x}) = 1
    BY FS_Singleton
  <1> QED BY <1>1, <1>2 DEF Holds, Added

(* The partial sums of two blocks. *)
LEMMA HoldsTogether ==
  ASSUME SetUp, NEW v, NEW S, NEW T, S \subseteq Cols, T \subseteq Cols, S \cap T = {},
         Holds(v, Terms(S))
  PROVE  Holds(Sum(v, Whole("sum", T)), Terms(S \cup T))
  <1>1. /\ IsFiniteSet(S) /\ IsFiniteSet(T) /\ IsFiniteSet(S \cup T)
        /\ Cardinality(S) \in Nat /\ Cardinality(T) \in Nat
    <2>1. S \cup T \subseteq Cols
      OBVIOUS
    <2> QED BY <2>1, ColumnsFinite
  <1>2. Cardinality(S \cup T) = Cardinality(S) + Cardinality(T) - Cardinality({})
    BY <1>1, FS_Union
  <1>3. Cardinality(S \cup T) = Cardinality(S) + Cardinality(T)
    BY <1>1, <1>2, FS_EmptySet
  <1>4. Terms(S \cup T) = Terms(S) \cup Terms(T)
    BY DEF Terms
  <1>5. Cardinality(Terms(S)) = Cardinality(S) /\ Cardinality(Terms(S \cup T)) = Cardinality(S \cup T)
    BY <1>1, TermsCount
  <1> QED BY <1>3, <1>4, <1>5 DEF Holds, Sum, Whole

(* A whole sum holds its columns. *)
LEMMA WholeHolds ==
  ASSUME SetUp, NEW S, S \subseteq Cols
  PROVE  Holds(Whole("sum", S), Terms(S))
  BY ColumnsFinite, TermsCount DEF Holds, Whole

(* The rows are finitely many. *)
LEMMA BlocksFinite ==
  ASSUME SetUp
  PROVE  IsFiniteSet(Blocks) /\ \A S : S \subseteq Blocks => IsFiniteSet(S)
  <1>1. calling.shape.rows - 1 \in Int
    BY CallFacts
  <1>2. IsFiniteSet(Blocks)
    BY <1>1, FS_Interval DEF Blocks
  <1> QED BY <1>2, FS_Subset

(* So are what they add to the loss. *)
LEMMA VerdictsFinite ==
  ASSUME NEW S, IsFiniteSet(S)
  PROVE  IsFiniteSet(Verdicts(S))
  <1> DEFINE f == [c \in S |-> <<c, Verdict(c)>>]
  <1> HIDE DEF Verdict
  <1>1. f \in [S -> Verdicts(S)]
    BY DEF Verdicts
  <1>2. \A v \in Verdicts(S) : \E x \in S : f[x] = v
    BY DEF Verdicts
  <1> HIDE DEF f
  <1>3. f \in Surjection(S, Verdicts(S))
    BY <1>1, <1>2 DEF Surjection
  <1> QED BY <1>3, FS_Surjection

(* One row more in the loss. *)
LEMMA HoldsRow ==
  ASSUME SetUp, NEW v, NEW S, S \subseteq Blocks, NEW b \in Blocks, b \notin S,
         Holds(v, Verdicts(S))
  PROVE  Holds(Added(v, {<<b, Verdict(b)>>}), Verdicts(S \cup {b}))
  <1> HIDE DEF Verdict
  <1>1. IsFiniteSet(Verdicts(S))
    BY BlocksFinite, VerdictsFinite
  <1>2. <<b, Verdict(b)>> \notin Verdicts(S)
    BY DEF Verdicts
  <1>3. Verdicts(S \cup {b}) = Verdicts(S) \cup {<<b, Verdict(b)>>}
    BY DEF Verdicts
  <1> HIDE DEF Verdicts
  <1>4. \A T, x : IsFiniteSet(T) /\ Holds(v, T) /\ x \notin T => Holds(Added(v, {x}), T \cup {x})
    BY HoldsOneMore
  <1> HIDE DEF Holds
  <1>5. Holds(Added(v, {<<b, Verdict(b)>>}), Verdicts(S) \cup {<<b, Verdict(b)>>})
    BY <1>1, <1>2, <1>4
  <1> QED BY <1>3, <1>5

-----------------------------------------------------------------------------
(* The rows of the loss after a thread's step. *)
LEMMA LossRowsMove ==
  ASSUME SetUp, Shapes, PathInv, NEW b, NEW t, ThreadMoves(b, t)
  PROVE  LossRows' = LossRows \cup
                     IF t = 0 /\ Doing(b, t) \in {"add_loss", "poison"} THEN {b} ELSE {}
  <1>1. /\ b \in Blocks /\ t \in Threads /\ pc[b][t] \in DOMAIN Code /\ calling' = calling
        /\ 0 \in Threads
    BY CallFacts DEF ThreadMoves
  <1>2. Blocks' = Blocks /\ Code' = Code /\ \A n : Is(n, "add_loss")' <=> Is(n, "add_loss")
    BY <1>1, SameCall
  <1>3. \A c \in Blocks, n \in DOMAIN Code : Is(n, "add_loss") => (Past(c, 0, n)' <=> Was(b, t, c, 0, n))
    BY <1>1, MoveFacts DEF Is
  <1>4. \A c \in Blocks : Poisoned(c, 0)' <=> Poisoned(c, 0) \/ (c = b /\ t = 0 /\ Is(pc[b][t], "poison"))
    BY <1>1, MovePoison
  <1>5. /\ Doing(b, t) = "add_loss" <=> Is(pc[b][t], "add_loss")
        /\ Doing(b, t) = "poison" <=> Is(pc[b][t], "poison")
    BY <1>1 DEF Doing, Is
  <1> HIDE DEF Poisoned, Past, Is, Doing
  <1>6. \A c \in Blocks : c \in LossRows' <=>
          c \in LossRows \/ (c = b /\ t = 0 /\ Doing(b, t) \in {"add_loss", "poison"})
    BY <1>1, <1>2, <1>3, <1>4, <1>5 DEF LossRows, Was
  <1>7. LossRows \subseteq Blocks /\ LossRows' \subseteq Blocks
    BY <1>2 DEF LossRows
  <1> QED BY <1>1, <1>6, <1>7

(* The rows of a gradient after a thread's step. *)
LEMMA AddedRowsMove ==
  ASSUME SetUp, Shapes, PathInv, NEW b, NEW t, ThreadMoves(b, t), NEW d \in Cols
  PROVE  AddedRows(d)' = AddedRows(d) \cup
           IF Doing(b, t) = "loop" /\ Instr(b, t).adds # {} /\ d % BlockDim = t THEN {b} ELSE {}
  <1>1. /\ b \in Blocks /\ t \in Threads /\ pc[b][t] \in DOMAIN Code /\ calling' = calling
        /\ d % BlockDim \in Threads
    BY OwnerOf DEF ThreadMoves
  <1>2. Blocks' = Blocks /\ Code' = Code /\ BlockDim' = BlockDim /\ \A n : Is(n, "loop")' <=> Is(n, "loop")
    BY <1>1, SameCall
  <1> DEFINE u == d % BlockDim
  <1>3. \A c \in Blocks, n \in DOMAIN Code : Is(n, "loop") => (Past(c, u, n)' <=> Was(b, t, c, u, n))
    <2>1. u' = u
      BY <1>2
    <2> HIDE DEF u
    <2>2. u \in Threads
      BY <1>1 DEF u
    <2>3. \A c \in Blocks, n \in DOMAIN Code : Is(n, "loop") => (Past(c, u, n)' <=> Was(b, t, c, u, n))
      BY <1>1, <2>1, <2>2, MoveFacts DEF Is, Past, Reaches, Fails, Was
    <2> QED BY <2>3
  <1>5. Doing(b, t) = "loop" <=> Is(pc[b][t], "loop")
    BY <1>1 DEF Doing, Is
  <1> HIDE DEF Past, Is, Doing
  <1>6. \A c \in Blocks : c \in AddedRows(d)' <=>
          c \in AddedRows(d) \/ (c = b /\ t = u /\ Doing(b, t) = "loop" /\ Instr(b, t).adds # {})
    BY <1>1, <1>2, <1>3, <1>5 DEF AddedRows, Was, Instr
  <1>7. AddedRows(d) \subseteq Blocks /\ AddedRows(d)' \subseteq Blocks
    BY <1>2 DEF AddedRows
  <1> QED BY <1>1, <1>6, <1>7

(* The rows of the grid's sum after a thread's step. *)
LEMMA TotalRowsMove ==
  ASSUME SetUp, Shapes, PathInv, NEW b, NEW t, ThreadMoves(b, t)
  PROVE  TotalRows' = TotalRows \cup IF t = 0 /\ Doing(b, t) = "add_total" THEN {b} ELSE {}
  <1>1. /\ b \in Blocks /\ t \in Threads /\ pc[b][t] \in DOMAIN Code /\ calling' = calling
        /\ 0 \in Threads
    BY CallFacts DEF ThreadMoves
  <1>2. Blocks' = Blocks /\ Code' = Code /\ \A n : Is(n, "add_total")' <=> Is(n, "add_total")
    BY <1>1, SameCall
  <1>3. \A c \in Blocks, n \in DOMAIN Code : Is(n, "add_total") => (Past(c, 0, n)' <=> Was(b, t, c, 0, n))
    BY <1>1, MoveFacts DEF Is
  <1>5. Doing(b, t) = "add_total" <=> Is(pc[b][t], "add_total")
    BY <1>1 DEF Doing, Is
  <1> HIDE DEF Past, Is, Doing
  <1>6. \A c \in Blocks : c \in TotalRows' <=>
          c \in TotalRows \/ (c = b /\ t = 0 /\ Doing(b, t) = "add_total")
    BY <1>1, <1>2, <1>3, <1>5 DEF TotalRows, Was
  <1>7. TotalRows \subseteq Blocks /\ TotalRows' \subseteq Blocks
    BY <1>2 DEF TotalRows
  <1> QED BY <1>1, <1>6, <1>7

(* A kernel adds to the loss once, after its checks and its grab. *)
LEMMA LossCode ==
  ASSUME SetUp, NEW n, Is(n, "add_loss")
  PROVE  /\ Is(1, "target") /\ n \in DOMAIN Code /\ n \in Nat
         /\ \E m : Is(m, "grab") /\ m < n /\ m \in Nat
         /\ \A m : Is(m, "add_loss") => m = n
         /\ \A m \in DOMAIN Code : Code[m].op \in Checks => m < n
  <1>1. n \in DOMAIN Code /\ Code[n].op = "add_loss" /\ DOMAIN Code \subseteq Nat /\ 1 \in DOMAIN Code
    BY CodeFacts DEF Is
  <1>2. Code[1].op = "target" /\ \E m \in DOMAIN Code : Code[m].op = "grab" /\ m < n
    BY <1>1, CodeFacts DEF Losses
  <1>3. /\ \A m \in DOMAIN Code : Code[m].op = "add_loss" => m = n
        /\ \A m \in DOMAIN Code : Code[m].op \in Checks => m < n
    BY <1>1, CodeFacts DEF Losses
  <1> QED BY <1>1, <1>2, <1>3 DEF Is

(* A row adds its loss once, nan when it is bad. *)
LEMMA LossOnce ==
  ASSUME SetUp, Shapes, PathInv, TargetInv, NEW b \in Blocks, Is(pc[b][0], "add_loss")
  PROVE  /\ b \notin LossRows
         /\ (IF BadRow(b) THEN "nan" ELSE grabbed[b]) = Verdict(b)
  <1> DEFINE n == pc[b][0]
  <1>1. /\ Is(1, "target") /\ n \in DOMAIN Code /\ n \in Nat /\ 0 \in Threads
        /\ \A m : Is(m, "add_loss") => m = n
        /\ \A m \in DOMAIN Code : Code[m].op \in Checks => m < n
    BY LossCode, CallFacts
  <1>2. PICK m : Is(m, "grab") /\ m < n /\ m \in Nat
    BY LossCode
  <1>3. Reaches(b, n)
    BY <1>1, OnPath DEF Is
  <1>4. ~Poisoned(b, 0)
    <2>1. n # Len(Code) + 1
      BY <1>1, CodeFacts
    <2> QED BY <2>1 DEF Poisoned
  <1>5. \A k : Is(k, "add_loss") => ~Past(b, 0, k)
    BY <1>1 DEF Past
  <1>6. b \notin LossRows
    BY <1>4, <1>5 DEF LossRows
  <1>7. grabbed[b] = "in"
    <2>1. Past(b, 0, m)
      BY <1>1, <1>2, <1>3, ReachesBefore DEF Past
    <2> QED BY <1>2, <2>1 DEF TargetInv, Is
  <1>8. calling.targets[b] \in Cols
    <2>1. Is(3, "check_target")
      BY <1>1, TargetCode
    <2>2. 3 < n
      BY <1>1, <2>1 DEF Is, Checks
    <2>3. ~Fails(b, 3)
      BY <1>1, <1>3, <2>2 DEF Reaches
    <2> QED BY <2>1, <2>3 DEF Fails
  <1> QED BY <1>6, <1>7, <1>8 DEF Verdict, Bad

(* A row that is poisoned has not added its loss, and is bad. *)
LEMMA PoisonOnce ==
  ASSUME SetUp, Shapes, PathInv, NEW b \in Blocks, Is(pc[b][0], "poison")
  PROVE  b \notin LossRows /\ Verdict(b) = "nan"
  <1>0. 0 \in Threads
    BY CallFacts
  <1>1. pc[b][0] = Len(Code) /\ Is(1, "target") /\ Len(Code) \in Nat
    BY PoisonCode, CodeFacts
  <1>2. ~Reaches(b, Len(Code))
    <2>1. Is(pc[b][0], "poison")
      OBVIOUS
    <2> QED BY <1>0, <1>1, <2>1 DEF PathInv
  <1>3. PICK m \in 1..(Len(Code) - 1) : Fails(b, m) /\ Reaches(b, m)
    BY <1>1, <1>2, FirstFailure
  <1>4. m \in DOMAIN Code /\ Code[m].op \in Checks
    BY <1>3, PoisonCode
  <1>5. Verdict(b) = "nan"
    BY <1>3 DEF Fails, Verdict, Bad, BadRow
  <1>6. ~Poisoned(b, 0)
    BY <1>1 DEF Poisoned
  <1>7. ASSUME NEW k, Is(k, "add_loss") PROVE ~Past(b, 0, k)
    <2>1. m < k /\ k \in Nat
      BY <1>4, <1>7, LossCode
    <2>2. ~Reaches(b, k)
      BY <1>3, <2>1 DEF Reaches
    <2> QED BY <2>2 DEF Past
  <1> QED BY <1>5, <1>6, <1>7 DEF LossRows

(* A step of a thread leaves the loss of the rows added. *)
LEMMA LossStep ==
  ASSUME SetUp, Shapes, PathInv, TargetInv, LossHeld, NEW b \in Blocks, NEW t \in Threads,
         ThreadMoves(b, t), LossAfter(b, t)
  PROVE  LossHeld'
  <1>1. calling' = calling /\ pc[b][t] \in DOMAIN Code
    BY DEF ThreadMoves
  <1>2. LossRows' = LossRows \cup
                     IF t = 0 /\ Doing(b, t) \in {"add_loss", "poison"} THEN {b} ELSE {}
    BY LossRowsMove
  <1>3. Verdicts(LossRows)' = Verdicts(LossRows')
    BY <1>1, SameCall DEF Verdicts, Verdict
  <1>4. LossRows \subseteq Blocks
    BY DEF LossRows
  <1>5. CASE t = 0 /\ Doing(b, t) \in {"add_loss", "poison"}
    <2>1. Is(pc[b][0], Doing(b, t))
      BY <1>1, <1>5 DEF Is, Doing
    <2>2. b \notin LossRows /\ accum'["loss"][0] = Added(accum["loss"][0], {<<b, Verdict(b)>>})
      <3>1. CASE Doing(b, t) = "add_loss"
        <4>1. b \notin LossRows /\ (IF BadRow(b) THEN "nan" ELSE grabbed[b]) = Verdict(b)
          BY <2>1, <3>1, LossOnce
        <4> HIDE DEF Verdict, Added, BadRow
        <4> QED BY <1>5, <3>1, <4>1 DEF LossAfter
      <3>2. CASE Doing(b, t) = "poison"
        <4>1. b \notin LossRows /\ Verdict(b) = "nan"
          BY <2>1, <3>2, PoisonOnce
        <4> HIDE DEF Verdict, Added, BadRow
        <4> QED BY <1>5, <3>2, <4>1 DEF LossAfter
      <3> QED BY <1>5, <3>1, <3>2
    <2>3. Holds(accum'["loss"][0], Verdicts(LossRows \cup {b}))
      BY <1>4, <2>2, HoldsRow DEF LossHeld
    <2> QED BY <1>2, <1>3, <1>5, <2>3 DEF LossHeld, Holds
  <1>6. CASE ~(t = 0 /\ Doing(b, t) \in {"add_loss", "poison"})
    <2>1. accum'["loss"][0] = accum["loss"][0] /\ LossRows' = LossRows
      BY <1>2, <1>6 DEF LossAfter
    <2> QED BY <1>3, <2>1 DEF LossHeld, Holds
  <1> QED BY <1>5, <1>6

(* And the gradients, row by row. *)
LEMMA GradientStep ==
  ASSUME SetUp, Shapes, PathInv, NEW a, NEW d \in Cols, GradientHeld(a, d),
         NEW b \in Blocks, NEW t \in Threads, ThreadMoves(b, t), GradientAfter(b, t, a, d)
  PROVE  GradientHeld(a, d)'
  <1>1. calling' = calling /\ pc[b][t] \in DOMAIN Code
    BY DEF ThreadMoves
  <1> DEFINE adding == Doing(b, t) = "loop" /\ Instr(b, t).adds # {} /\ d % BlockDim = t
  <1>2. AddedRows(d)' = AddedRows(d) \cup IF adding THEN {b} ELSE {}
    BY AddedRowsMove
  <1>3. Doing(b, t) = "loop" /\ Instr(b, t).adds # {} =>
          (d \in Own(Instr(b, t).extent, b, t) <=> d % BlockDim = t)
    <2>1. ASSUME Doing(b, t) = "loop", Instr(b, t).adds # {} PROVE Instr(b, t).extent = "row"
      BY <1>1, <2>1, LoopCode DEF IsLoop, Instr, Is, Doing
    <2> QED BY <2>1 DEF Own, Extent, BlockDim
  <1>4. CASE adding
    <2>1. accum'[a][d] = Added(accum[a][d], {b})
      <3> HIDE DEF Added, Own, Doing, Instr
      <3> QED BY <1>3, <1>4 DEF GradientAfter
    <2>2. b \notin AddedRows(d)
      <3>1. Is(pc[b][t], "loop") /\ Code[pc[b][t]].adds # {}
        BY <1>1, <1>4 DEF Is, Doing, Instr
      <3>2. \A n : Is(n, "loop") /\ Code[n].adds # {} => n = pc[b][t] /\ n \in Nat
        BY <3>1, LoopsApart
      <3>3. \A n : Is(n, "loop") /\ Code[n].adds # {} => ~Past(b, t, n)
        BY <3>2 DEF Past
      <3> QED BY <1>4, <3>3 DEF AddedRows
    <2>3. IsFiniteSet(AddedRows(d))
      BY BlocksFinite DEF AddedRows
    <2>4. Holds(accum'[a][d], AddedRows(d) \cup {b})
      BY <2>1, <2>2, <2>3, HoldsOneMore DEF GradientHeld
    <2>5. AddedRows(d)' = AddedRows(d) \cup {b}
      BY <1>2, <1>4
    <2> HIDE DEF AddedRows
    <2> QED BY <2>4, <2>5 DEF GradientHeld, Holds
  <1>5. CASE ~adding
    <2>1. accum'[a][d] = accum[a][d]
      <3> HIDE DEF Added, Own, Doing, Instr
      <3> QED BY <1>3, <1>5 DEF GradientAfter
    <2>2. AddedRows(d)' = AddedRows(d)
      BY <1>2, <1>5
    <2> HIDE DEF AddedRows
    <2> QED BY <2>1, <2>2 DEF GradientHeld, Holds
  <1> QED BY <1>4, <1>5

(* A kernel passes its sum on once, after it was read. *)
LEMMA TotalCode ==
  ASSUME SetUp, NEW n, Is(n, "add_total") \/ Is(n, "put_total")
  PROVE  /\ n \in DOMAIN Code /\ n \in Nat
         /\ \A m : Is(m, "add_total") \/ Is(m, "put_total") => m = n
         /\ \E m : Is(m, "get") /\ Code[m].red = "sum" /\ m < n /\ m \in Nat
         /\ LoopExtent = IF Is(n, "add_total") THEN "grid" ELSE "row"
         /\ ~Is(1, "target")
  <1>1. n \in DOMAIN Code /\ Code[n].op \in {"add_total", "put_total"} /\ DOMAIN Code \subseteq Nat
    BY CodeFacts DEF Is
  <1>2. PICK m \in DOMAIN Code : m < n /\ Code[m].op = "get" /\ Code[m].red = "sum"
    BY <1>1, CodeFacts DEF Totals
  <1>3. \A k \in DOMAIN Code : Code[k].op \in {"add_total", "put_total"} => k = n
    BY <1>1, CodeFacts DEF Totals
  <1>4. PICK p : Is(p, "put")
    BY <1>2, ReductionOf DEF Is
  <1>5. PICK l : Is(l, "loop")
    BY <1>4, LoopOfPut
  <1>6. Code[l].extent = (IF Code[n].op = "add_total" THEN "grid" ELSE "row")
    BY <1>1, <1>5, CodeFacts DEF Totals, Is
  <1>7. LoopExtent = Code[l].extent
    BY <1>5, LoopExtentIs
  <1>8. ~Is(1, "target")
    BY <1>1, CodeFacts DEF Totals, Is
  <1> QED BY <1>1, <1>2, <1>3, <1>6, <1>7, <1>8 DEF Is

(* The sum thread 0 passes on is the whole of its block's columns. *)
LEMMA TotalIsWhole ==
  ASSUME SetUp, Shapes, PathInv, ResultInv, NEW b \in Blocks,
         Is(pc[b][0], "add_total") \/ Is(pc[b][0], "put_total")
  PROVE  result[b][0]["sum"] = Whole("sum", Extent(LoopExtent, b))
  <1>1. PICK m : Is(m, "get") /\ Code[m].red = "sum" /\ m < pc[b][0] /\ m \in Nat
    BY TotalCode
  <1>2. pc[b][0] \in DOMAIN Code /\ 0 \in Threads /\ ~Is(pc[b][0], "poison")
    BY CallFacts DEF Is
  <1>3. Reaches(b, pc[b][0]) /\ pc[b][0] \in Nat
    BY <1>2, OnPath
  <1>4. Past(b, 0, m)
    BY <1>1, <1>3, ReachesBefore DEF Past
  <1>5. "sum" \in Reds
    BY DEF Reds
  <1>6. ReadInv(b, 0, "sum")
    BY <1>2, <1>5 DEF ResultInv
  <1> QED BY <1>1, <1>4, <1>6 DEF ReadInv, Is

(* The sum of the grid holds the columns of the blocks added. *)
LEMMA TotalStep ==
  ASSUME SetUp, Shapes, PathInv, ResultInv, NEW n, Is(n, "add_total"), TotalHeld,
         NEW b \in Blocks, NEW t \in Threads, ThreadMoves(b, t), TotalAfter(b, t, 0)
  PROVE  TotalHeld'
  <1>1. calling' = calling /\ pc[b][t] \in DOMAIN Code
    BY DEF ThreadMoves
  <1>2. TotalRows' = TotalRows \cup IF t = 0 /\ Doing(b, t) = "add_total" THEN {b} ELSE {}
    BY TotalRowsMove
  <1>3. Cols' = Cols /\ BlockDim' = BlockDim /\ calling.shape.rows' = calling.shape.rows
    BY <1>1, SameCall
  <1>4. Doing(b, t) # "put_total"
    BY <1>1, TotalCode DEF Doing, Is
  <1>5. CASE t = 0 /\ Doing(b, t) = "add_total"
    <2>1. Is(pc[b][0], "add_total")
      BY <1>1, <1>5 DEF Is, Doing
    <2>2. result[b][0]["sum"] = Whole("sum", Extent("grid", b))
      BY <2>1, TotalIsWhole, TotalCode
    <2>3. b \notin TotalRows
      <3>1. \A m : Is(m, "add_total") => m = pc[b][0] /\ m \in Nat
        BY <2>1, TotalCode
      <3> QED BY <3>1 DEF TotalRows, Past
    <2>4. /\ TotalCols \subseteq Cols /\ Extent("grid", b) \subseteq Cols
          /\ TotalCols \cap Extent("grid", b) = {}
      BY <2>3 DEF TotalCols, Extent, BlockDim
    <2>5. accum'["total"][0] = Sum(accum["total"][0], Whole("sum", Extent("grid", b)))
      <3> HIDE DEF Sum, Whole, Doing
      <3> QED BY <1>5, <2>2 DEF TotalAfter
    <2>6. Holds(accum'["total"][0], Terms(TotalCols \cup Extent("grid", b)))
      BY <2>4, <2>5, HoldsTogether DEF TotalHeld
    <2>7. TotalCols' = TotalCols \cup Extent("grid", b)
      <3>1. TotalRows' = TotalRows \cup {b}
        BY <1>2, <1>5
      <3> HIDE DEF TotalRows
      <3> QED BY <1>3, <3>1 DEF TotalCols, Extent, BlockDim
    <2> HIDE DEF TotalCols
    <2> QED BY <2>6, <2>7 DEF TotalHeld, Holds, Terms
  <1>6. CASE ~(t = 0 /\ Doing(b, t) = "add_total")
    <2>1. accum'["total"][0] = accum["total"][0]
      BY <1>4, <1>6 DEF TotalAfter
    <2>2. TotalRows' = TotalRows
      BY <1>2, <1>6
    <2>3. TotalCols' = TotalCols
      <3> HIDE DEF TotalRows
      <3> QED BY <1>3, <2>2 DEF TotalCols
    <2> HIDE DEF TotalCols
    <2> QED BY <2>1, <2>3 DEF TotalHeld, Holds, Terms
  <1> QED BY <1>5, <1>6

(* The sum of a column is put whole. *)
LEMMA SumStep ==
  ASSUME SetUp, Shapes, PathInv, ResultInv, NEW n, Is(n, "put_total"),
         NEW b \in Blocks, NEW t \in Threads, ThreadMoves(b, t),
         \A x \in Cells : TotalAfter(b, t, x),
         NEW c \in Blocks, Past(c, 0, n) => SumHeld(c), Past(c, 0, n)'
  PROVE  SumHeld(c)'
  <1>1. calling' = calling /\ pc[b][t] \in DOMAIN Code /\ 0 \in Threads /\ c \in Cells
    BY CallFacts, CellsHold DEF ThreadMoves
  <1>2. n \in DOMAIN Code /\ ~Is(n, "poison") /\ n \in Nat
    BY TotalCode DEF Is
  <1>3. Was(b, t, c, 0, n)
    BY <1>1, <1>2, MoveFacts
  <1>4. Terms(Cols)' = Terms(Cols)
    BY <1>1, SameCall DEF Terms
  <1>5. Doing(b, t) # "add_total" /\ (Doing(b, t) = "put_total" => n = pc[b][t])
    BY <1>1, TotalCode DEF Doing, Is
  <1>6. CASE c = b /\ t = 0 /\ Doing(b, t) = "put_total"
    <2>1. Is(pc[b][0], "put_total") /\ ~Is(pc[b][0], "add_total")
      BY <1>1, <1>6 DEF Is, Doing
    <2>2. result[b][0]["sum"] = Whole("sum", Extent("row", b))
      BY <2>1, TotalIsWhole, TotalCode
    <2>3. Extent("row", b) = Cols
      BY DEF Extent
    <2>4. accum'["total"][c] = Whole("sum", Cols)
      BY <1>1, <1>6, <2>2, <2>3 DEF TotalAfter
    <2>5. Holds(Whole("sum", Cols), Terms(Cols))
      BY WholeHolds
    <2> QED BY <1>4, <2>4, <2>5 DEF SumHeld, Holds
  <1>7. CASE ~(c = b /\ t = 0 /\ Doing(b, t) = "put_total")
    <2>1. accum'["total"][c] = accum["total"][c]
      <3>1. ~(t = 0 /\ Doing(b, t) = "put_total" /\ c = b)
        BY <1>7
      <3>2. TotalAfter(b, t, c)
        BY <1>1
      <3> HIDE DEF Doing, Sum
      <3> QED BY <1>5, <3>1, <3>2 DEF TotalAfter
    <2>2. ~(c = b /\ t = 0 /\ n = pc[b][t])
      BY <1>7 DEF Is, Doing
    <2>3. Past(c, 0, n)
      BY <1>3, <2>2 DEF Was
    <2> QED BY <1>4, <2>1, <2>3 DEF SumHeld, Holds
  <1> QED BY <1>6, <1>7

(* What is cleared tells the kind of kernel. *)
LEMMA ClearsOfCode ==
  ASSUME SetUp
  PROVE  /\ "loss" \in calling.call.clears <=> Is(1, "target")
         /\ "dgamma" \in calling.call.clears <=> \E n : Is(n, "loop") /\ Code[n].adds # {}
         /\ "total" \in calling.call.clears <=> \E n : Is(n, "add_total")
  <1> DEFINE clears == calling.call.clears
  <1>1. /\ clears = {"loss"} <=> Code[1].op = "target"
        /\ clears = {"dgamma", "dbeta"} <=> \E n \in DOMAIN Code : Code[n].op = "loop" /\ Code[n].adds # {}
        /\ clears = {"total"} <=> \E n \in DOMAIN Code : Code[n].op = "add_total"
        /\ clears \in {{}, {"loss"}, {"dgamma", "dbeta"}, {"total"}}
        /\ 1 \in DOMAIN Code
    BY CodeFacts DEF Totals
  <1> HIDE DEF clears
  <1>2. /\ "loss" \in clears <=> clears = {"loss"}
        /\ "dgamma" \in clears <=> clears = {"dgamma", "dbeta"}
        /\ "total" \in clears <=> clears = {"total"}
    BY <1>1
  <1>3. "loss" \in clears <=> Is(1, "target")
    BY <1>1, <1>2 DEF Is
  <1>4. "dgamma" \in clears <=> \E n : Is(n, "loop") /\ Code[n].adds # {}
    BY <1>1, <1>2 DEF Is
  <1>5. "total" \in clears <=> \E n : Is(n, "add_total")
    BY <1>1, <1>2 DEF Is
  <1> QED BY <1>3, <1>4, <1>5 DEF clears

(* A step of a thread adds what it says it added. *)
LEMMA ThreadStepAccum ==
  ASSUME SetUp, Shapes, PathInv, Together, TargetInv, ResultInv, AccumInv,
         NEW b \in Blocks, NEW t \in Threads, ThreadStep(b, t)
  PROVE  AccumInv'
  <1>1. ThreadMoves(b, t) /\ host = "wait" /\ host' = host /\ calling' = calling
    BY StepByOp, ThreadStepMoves
  <1>2. /\ LossAfter(b, t)
        /\ \A a \in {"dgamma", "dbeta"}, d \in Cols : GradientAfter(b, t, a, d)
        /\ \A x \in Cells : TotalAfter(b, t, x)
        /\ 0 \in Cells
    BY AccumEffect, CellsHold
  <1>3. /\ Code' = Code /\ Blocks' = Blocks /\ Cols' = Cols
        /\ \A n : Is(n, "put_total")' <=> Is(n, "put_total")
    BY <1>1, SameCall
  <1>4. ASSUME "loss" \in calling.call.clears PROVE LossHeld'
    <2>1. LossHeld
      BY <1>1, <1>4 DEF AccumInv
    <2> QED BY <1>1, <1>2, <2>1, LossStep
  <1>5. ASSUME "dgamma" \in calling.call.clears, NEW a \in {"dgamma", "dbeta"}, NEW d \in Cols
        PROVE  GradientHeld(a, d)'
    <2>1. GradientHeld(a, d)
      BY <1>1, <1>5 DEF AccumInv
    <2> QED BY <1>1, <1>2, <2>1, GradientStep
  <1>6. ASSUME "total" \in calling.call.clears PROVE TotalHeld'
    <2>1. TotalHeld
      BY <1>1, <1>6 DEF AccumInv
    <2>2. PICK n : Is(n, "add_total")
      BY <1>6, ClearsOfCode
    <2> QED BY <1>1, <1>2, <2>1, <2>2, TotalStep
  <1>7. ASSUME NEW n \in DOMAIN Code, NEW c \in Blocks, Is(n, "put_total"), Past(c, 0, n)'
        PROVE  SumHeld(c)'
    <2>1. Past(c, 0, n) => SumHeld(c)
      BY <1>1, <1>7 DEF AccumInv
    <2> QED BY <1>1, <1>2, <1>7, <2>1, SumStep
  <1> HIDE DEF LossHeld, GradientHeld, TotalHeld, SumHeld
  <1> QED BY <1>1, <1>3, <1>4, <1>5, <1>6, <1>7 DEF AccumInv

(* A step that adds nothing keeps the accumulators. *)
LEMMA AccumKept ==
  ASSUME SetUp, AccumInv, host # "clear", calling' = calling, accum' = accum, SamePast, SamePoison
  PROVE  AccumInv'
  <1>1. 0 \in Threads
    BY CallFacts
  <1>2. /\ Code' = Code /\ Blocks' = Blocks /\ Cols' = Cols /\ BlockDim' = BlockDim
        /\ \A n, op : Is(n, op)' <=> Is(n, op)
        /\ \A c : Bad(c)' <=> Bad(c)
    BY <1>1, SameCall
  <1>3. \A c \in Blocks, u \in Threads : \A n :
           Is(n, "add_loss") \/ Is(n, "loop") \/ Is(n, "add_total") \/ Is(n, "put_total") =>
           (Past(c, u, n)' <=> Past(c, u, n))
    BY <1>1 DEF SamePast, Is
  <1> HIDE DEF Is, Past
  <1>4. LossRows' = LossRows
    <2>1. \A c \in Blocks : Poisoned(c, 0)' <=> Poisoned(c, 0)
      BY <1>1 DEF SamePoison
    <2> HIDE DEF Poisoned
    <2> QED BY <1>1, <1>2, <1>3, <2>1 DEF LossRows
  <1>5. \A d \in Cols : AddedRows(d)' = AddedRows(d)
    <2>1. \A d \in Cols : d % BlockDim \in Threads
      BY OwnerOf
    <2>2. ASSUME NEW d \in Cols PROVE AddedRows(d)' = AddedRows(d)
      <3> DEFINE u == d % BlockDim
      <3>1. u \in Threads /\ u' = u
        BY <1>2, <2>1
      <3>2. \A c \in Blocks, n \in DOMAIN Code : Is(n, "loop") => (Past(c, u, n)' <=> Past(c, u, n))
        <4> HIDE DEF u
        <4>1. \A c \in Blocks, n \in DOMAIN Code : Is(n, "loop") => (Past(c, u, n)' <=> Past(c, u, n))
          BY <1>3, <3>1 DEF Past, Reaches, Fails
        <4> QED BY <4>1
      <3> QED BY <1>2, <3>2 DEF AddedRows
    <2> QED BY <2>2
  <1>6. TotalCols' = TotalCols
    <2>1. TotalRows' = TotalRows
      BY <1>1, <1>2, <1>3 DEF TotalRows
    <2> HIDE DEF TotalRows
    <2> QED BY <1>1, <1>2, <2>1 DEF TotalCols
  <1>7. LossHeld' <=> LossHeld
    <2> HIDE DEF LossRows
    <2> QED BY <1>1, <1>2, <1>4 DEF LossHeld, Holds, Verdicts, Verdict
  <1>8. \A a, d : d \in Cols => (GradientHeld(a, d)' <=> GradientHeld(a, d))
    <2> HIDE DEF AddedRows
    <2> QED BY <1>1, <1>5 DEF GradientHeld, Holds
  <1>9. TotalHeld' <=> TotalHeld
    <2> HIDE DEF TotalCols
    <2> QED BY <1>1, <1>6 DEF TotalHeld, Holds, Terms
  <1>10. \A c : SumHeld(c)' <=> SumHeld(c)
    BY <1>1, <1>2 DEF SumHeld, Holds, Terms
  <1> HIDE DEF LossHeld, GradientHeld, TotalHeld, SumHeld
  <1> QED BY <1>1, <1>2, <1>3, <1>7, <1>8, <1>9, <1>10 DEF AccumInv

(* So does a barrier. *)
LEMMA BarrierAccum ==
  ASSUME SetUp, Shapes, PathInv, AccumInv, NEW b \in Blocks, SyncThreads(b)
  PROVE  AccumInv'
  <1>1. SamePast /\ SamePoison /\ calling' = calling /\ accum' = accum /\ host # "clear"
    BY SyncMoves, BarrierFacts DEF Barriered, SyncThreads
  <1> QED BY <1>1, AccumKept

(* What a thread accesses in its next instruction, by the kind of          *)
(* location.                                                               *)
AimsAtTarget(b, t, a) ==
  /\ Is(1, "target") /\ a.loc = <<"target">>
  /\ \/ a.how = "write" /\ t = 0 /\ pc[b][t] = 1
     \/ a.how = "read" /\ pc[b][t] > 2
AimsToPut(b, t, a) == Is(pc[b][t], "put") /\ a.loc = <<"scratch", t>>
AimsToFold(b, t, a) ==
  /\ Is(pc[b][t], "fold") /\ t < stride[b][t]
  /\ a.loc = <<"scratch", t>> \/ (a.loc = <<"scratch", t + stride[b][t]>> /\ a.how = "read")
AimsToGet(b, t, a) == Is(pc[b][t], "get") /\ a.loc = <<"scratch", 0>> /\ a.how = "read"
AimsAtOwn(b, t, a) ==
  /\ Is(pc[b][t], "loop") \/ Is(pc[b][t], "map") \/ Is(pc[b][t], "poison")
  /\ \E f \in Buffers, c \in Cols : a.loc = <<f, c>> /\ c % BlockDim = t
  /\ Is(1, "target") /\ a.how = "write" => Is(pc[b][t], "map") \/ Is(pc[b][t], "poison")
AimsToGrab(b, t, a) ==
  Is(pc[b][t], "grab") /\ a.how = "read" /\ \E c \in Cols : a.loc = <<"x", c>>
Aims(b, t, a) ==
  /\ DOMAIN a = {"loc", "how"} /\ a.how \in {"read", "write"}
  /\ \/ AimsAtTarget(b, t, a) \/ AimsToPut(b, t, a) \/ AimsToFold(b, t, a)
     \/ AimsToGet(b, t, a) \/ AimsAtOwn(b, t, a) \/ AimsToGrab(b, t, a)

(* A step that records accesses A, one that records none, and either. *)
Touching(b, t, A) == Touch(b, t, A) /\ \A a \in A : Aims(b, t, a)
Untouched == touched' = touched /\ raced' = raced
Touches(b, t) == Untouched \/ \E A : Touching(b, t, A)

(* An access has a location and a kind. *)
LEMMA ReadOrWrite ==
  ASSUME NEW loc
  PROVE  /\ DOMAIN R(loc) = {"loc", "how"} /\ R(loc).loc = loc /\ R(loc).how = "read"
         /\ DOMAIN W(loc) = {"loc", "how"} /\ W(loc).loc = loc /\ W(loc).how = "write"
  BY DEF R, W

(* An operand is in one of the buffers. *)
LEMMA OperandBuffers ==
  ASSUME NEW act, NEW ops \in Seq(Operands(act)), NEW i \in DOMAIN ops
  PROVE  At(ops[i].buf) \in Buffers
  <1>1. ops[i] \in Operands(act)
    OBVIOUS
  <1>2. ops[i].buf \in Buffers
    BY <1>1 DEF Operands, Buffers
  <1> QED BY <1>2 DEF At, Buffers

(* The cells of a thread's columns. *)
LEMMA OwnAccess ==
  ASSUME SetUp, NEW b, NEW t, NEW f \in Buffers, NEW c \in Cols, c % BlockDim = t,
         Is(pc[b][t], "loop") \/ Is(pc[b][t], "map") \/ Is(pc[b][t], "poison")
  PROVE  /\ Aims(b, t, R(<<f, c>>))
         /\ Is(pc[b][t], "map") \/ Is(pc[b][t], "poison") \/ ~Is(1, "target") => Aims(b, t, W(<<f, c>>))
  <1>1. AimsAtOwn(b, t, R(<<f, c>>))
    BY ReadOrWrite DEF AimsAtOwn
  <1>2. Is(pc[b][t], "map") \/ Is(pc[b][t], "poison") \/ ~Is(1, "target") => AimsAtOwn(b, t, W(<<f, c>>))
    BY ReadOrWrite DEF AimsAtOwn
  <1> QED BY <1>1, <1>2, ReadOrWrite DEF Aims

(* The reads of its operands. *)
LEMMA RowAccess ==
  ASSUME SetUp, NEW b, NEW t, Is(pc[b][t], "loop") \/ Is(pc[b][t], "map") \/ Is(pc[b][t], "poison"),
         NEW ops, \A i \in DOMAIN ops : At(ops[i].buf) \in Buffers,
         NEW cols, cols \subseteq Cols, \A c \in cols : c % BlockDim = t
  PROVE  \A a \in OfRow(ops, cols) : Aims(b, t, a)
  <1>1. ASSUME NEW a \in OfRow(ops, cols) PROVE Aims(b, t, a)
    <2>1. PICK i \in DOMAIN ops, c \in cols : a = R(<<At(ops[i].buf), c>>)
      BY DEF OfRow
    <2>2. c \in Cols /\ c % BlockDim = t /\ At(ops[i].buf) \in Buffers
      OBVIOUS
    <2> QED BY <2>1, <2>2, OwnAccess
  <1> QED BY <1>1

(* A loop accesses columns of its own. *)
LEMMA LoopTouches ==
  ASSUME SetUp, NEW b \in Blocks, NEW t \in Threads, RunLoop(b, t), Is(pc[b][t], "loop")
  PROVE  Touches(b, t)
  <1> DEFINE i == Instr(b, t)
             own == Own(i.extent, b, t)
             kept == IF i.keep = {} THEN {} ELSE Own("row", b, t)
             A == OfRow(i.ops, own) \cup {W(<<At("out"), c>>) : c \in kept}
  <1>1. Touch(b, t, A)
    BY DEF RunLoop
  <1>2. IsLoop(i, calling.call.act)
    BY LoopCode DEF Instr
  <1>3. \A j \in DOMAIN i.ops : At(i.ops[j].buf) \in Buffers
    BY <1>2, OperandBuffers DEF IsLoop
  <1>4. own \subseteq Cols /\ \A c \in own : c % BlockDim = t
    BY <1>2, ExtentInRow DEF Own, BlockDim, IsLoop
  <1>5. \A a \in OfRow(i.ops, own) : Aims(b, t, a)
    BY <1>3, <1>4, RowAccess
  <1>6. ASSUME NEW c \in kept PROVE Aims(b, t, W(<<At("out"), c>>))
    <2>1. i.keep # {} /\ c \in Cols /\ c % BlockDim = t
      BY <1>6 DEF Own, Extent, BlockDim
    <2>2. ~Is(1, "target")
      BY <2>1, CodeFacts DEF Losses, Instr, Is
    <2>3. At("out") \in Buffers
      BY DEF At, Buffers
    <2> QED BY <2>1, <2>2, <2>3, OwnAccess
  <1> HIDE DEF i, own, kept
  <1> HIDE DEF Aims
  <1>7. \A a \in A : Aims(b, t, a)
    BY <1>5, <1>6
  <1> HIDE DEF A
  <1> QED BY <1>1, <1>7 DEF Touches, Touching

(* A thread beyond the first barrier may read the target. *)
LEMMA ReadsTarget ==
  ASSUME SetUp, NEW b, NEW t, Is(1, "target"), pc[b][t] > 2
  PROVE  Aims(b, t, R(<<"target">>))
  BY ReadOrWrite DEF Aims, AimsAtTarget

(* A map accesses columns of its own, and the target. *)
LEMMA MapTouches ==
  ASSUME SetUp, NEW b \in Blocks, NEW t \in Threads, RunMap(b, t), Is(pc[b][t], "map")
  PROVE  Touches(b, t)
  <1> DEFINE i == Instr(b, t)
             own == Own(i.over, b, t)
             inside == own \cap Extent(i.extent, b)
             T == IF i.value = "grad" THEN {R(<<"target">>)} ELSE {}
             A == OfRow(i.ops, inside) \cup {W(<<At(i.out), c>>) : c \in own} \cup T
  <1>1. Touch(b, t, A)
    BY DEF RunMap
  <1>2. /\ IsMap(i)
        /\ IsPlain(i, calling.call.act) \/ Rescales(i, calling.call.act)
    BY MapCode DEF Instr
  <1>3. \A j \in DOMAIN i.ops : At(i.ops[j].buf) \in Buffers
    <2>1. CASE IsPlain(i, calling.call.act)
      BY <2>1, OperandBuffers DEF IsPlain
    <2>2. CASE Rescales(i, calling.call.act)
      BY <2>2 DEF Rescales, Op, At, Buffers
    <2> QED BY <1>2, <2>1, <2>2
  <1>4. own \subseteq Cols /\ \A c \in own : c % BlockDim = t
    <2>1. i.over \in {"row", "causal"}
      BY <1>2 DEF IsPlain, Rescales, IsMap
    <2> QED BY <2>1, ExtentInRow DEF Own, BlockDim
  <1>5. \A a \in OfRow(i.ops, inside) : Aims(b, t, a)
    <2>1. inside \subseteq Cols /\ \A c \in inside : c % BlockDim = t
      BY <1>4
    <2> QED BY <1>3, <2>1, RowAccess
  <1>6. ASSUME NEW c \in own PROVE Aims(b, t, W(<<At(i.out), c>>))
    <2>1. At(i.out) \in Buffers
      BY <1>2 DEF IsMap, At, Buffers
    <2> QED BY <1>4, <2>1, OwnAccess
  <1>7. \A a \in T : Aims(b, t, a)
    <2>1. CASE i.value = "grad"
      <3>1. Is(1, "target") /\ pc[b][t] \in Nat /\ pc[b][t] > 0
        BY <2>1, MapCode, CodeFacts DEF Instr, Is
      <3>2. pc[b][t] # 1 /\ pc[b][t] # 2
        BY <3>1, TargetCode DEF Is
      <3>3. pc[b][t] > 2
        BY <3>1, <3>2
      <3>4. Aims(b, t, R(<<"target">>))
        BY <3>1, <3>3, ReadsTarget
      <3> QED BY <2>1, <3>4
    <2>2. CASE i.value # "grad"
      BY <2>2
    <2> QED BY <2>1, <2>2
  <1> HIDE DEF i, own, inside, T
  <1> HIDE DEF Aims
  <1>8. \A a \in A : Aims(b, t, a)
    BY <1>5, <1>6, <1>7
  <1> HIDE DEF A
  <1> QED BY <1>1, <1>8 DEF Touches, Touching

(* The poisoning accesses columns of its own. *)
LEMMA PoisonTouches ==
  ASSUME SetUp, NEW b \in Blocks, NEW t \in Threads, PoisonRow(b, t), Is(pc[b][t], "poison")
  PROVE  Touches(b, t)
  <1> DEFINE own == Own("row", b, t)
             A == IF Instr(b, t).out # {} THEN {W(<<"x", c>>) : c \in own} ELSE {}
  <1>1. Touch(b, t, A)
    BY DEF PoisonRow
  <1>2. ASSUME NEW c \in own PROVE Aims(b, t, W(<<"x", c>>))
    <2>1. c \in Cols /\ c % BlockDim = t /\ "x" \in Buffers
      BY DEF Own, Extent, BlockDim, Buffers
    <2> QED BY <2>1, OwnAccess
  <1> HIDE DEF own, Aims
  <1>3. \A a \in A : Aims(b, t, a)
    BY <1>2
  <1> HIDE DEF A
  <1> QED BY <1>1, <1>3 DEF Touches, Touching

(* A reduction accesses the slots of its round. *)
LEMMA ScratchTouches ==
  ASSUME SetUp, NEW b \in Blocks, NEW t \in Threads,
         \/ Put(b, t) /\ Is(pc[b][t], "put")
         \/ Fold(b, t) /\ Is(pc[b][t], "fold")
         \/ Get(b, t) /\ Is(pc[b][t], "get")
  PROVE  Touches(b, t)
  <1>1. CASE Put(b, t) /\ Is(pc[b][t], "put")
    <2>1. Aims(b, t, W(<<"scratch", t>>))
      BY <1>1, ReadOrWrite DEF Aims, AimsToPut
    <2>2. Touch(b, t, {W(<<"scratch", t>>)})
      BY <1>1 DEF Put
    <2> HIDE DEF Aims, W, Touch
    <2> QED BY <2>1, <2>2 DEF Touches, Touching
  <1>2. CASE Fold(b, t) /\ Is(pc[b][t], "fold")
    <2> DEFINE s == stride[b][t]
               A == IF t < s THEN {W(<<"scratch", t>>), R(<<"scratch", t + s>>)} ELSE {}
    <2>1. ASSUME t < s PROVE Aims(b, t, W(<<"scratch", t>>)) /\ Aims(b, t, R(<<"scratch", t + s>>))
      <3>1. AimsToFold(b, t, W(<<"scratch", t>>))
        BY <1>2, <2>1, ReadOrWrite DEF AimsToFold
      <3>2. AimsToFold(b, t, R(<<"scratch", t + s>>))
        BY <1>2, <2>1, ReadOrWrite DEF AimsToFold
      <3> QED BY <3>1, <3>2, ReadOrWrite DEF Aims
    <2>2. Touch(b, t, A)
      BY <1>2 DEF Fold
    <2> HIDE DEF Aims, W, R, Touch, s
    <2>3. \A a \in A : Aims(b, t, a)
      BY <2>1
    <2> HIDE DEF A
    <2> QED BY <2>2, <2>3 DEF Touches, Touching
  <1>3. CASE Get(b, t) /\ Is(pc[b][t], "get")
    <2>1. Aims(b, t, R(<<"scratch", 0>>))
      BY <1>3, ReadOrWrite DEF Aims, AimsToGet
    <2>2. Touch(b, t, {R(<<"scratch", 0>>)})
      BY <1>3 DEF Get
    <2> HIDE DEF Aims, R, Touch
    <2> QED BY <2>1, <2>2 DEF Touches, Touching
  <1> QED BY <1>1, <1>2, <1>3

(* The accesses to the target and to its logit. *)
LEMMA TargetTouches ==
  ASSUME SetUp, Shapes, PathInv, Together, TargetInv, MemInv, NEW b \in Blocks, NEW t \in Threads,
         \/ ReadTargetOnce(b, t) /\ Is(pc[b][t], "target")
         \/ GrabLogit(b, t) /\ Is(pc[b][t], "grab")
         \/ Check(b, t) /\ pc[b][t] \in DOMAIN Code /\ Doing(b, t) \in Checks
  PROVE  Touches(b, t)
  <1>1. CASE ReadTargetOnce(b, t) /\ Is(pc[b][t], "target")
    <2> DEFINE A == IF t = 0 THEN {W(<<"target">>)} ELSE {}
    <2>1. pc[b][t] = 1 /\ Is(1, "target")
      BY <1>1, CodeFacts DEF Losses, Is
    <2>2. ASSUME t = 0 PROVE Aims(b, t, W(<<"target">>))
      BY <2>1, <2>2, ReadOrWrite DEF Aims, AimsAtTarget
    <2>3. Touch(b, t, A)
      BY <1>1 DEF ReadTargetOnce
    <2> HIDE DEF Aims, W, Touch
    <2>4. \A a \in A : Aims(b, t, a)
      BY <2>2
    <2> HIDE DEF A
    <2> QED BY <2>3, <2>4 DEF Touches, Touching
  <1>2. CASE GrabLogit(b, t) /\ Is(pc[b][t], "grab")
    <2> DEFINE A == IF t = 0 THEN {R(<<"target">>), R(<<"x", sharedTarget[b]>>)} ELSE {}
    <2>1. /\ sharedTarget[b] \in Cols /\ Is(1, "target") /\ pc[b][t] > 3 /\ pc[b][t] \in Nat
      BY <1>2, LogitsAreOriginal, CodeFacts DEF Is
    <2>2. Aims(b, t, R(<<"target">>))
      BY <2>1, ReadsTarget
    <2>3. Aims(b, t, R(<<"x", sharedTarget[b]>>))
      BY <1>2, <2>1, ReadOrWrite DEF Aims, AimsToGrab
    <2>4. Touch(b, t, A)
      BY <1>2 DEF GrabLogit
    <2> HIDE DEF Aims, R, Touch
    <2>5. \A a \in A : Aims(b, t, a)
      BY <2>2, <2>3
    <2> HIDE DEF A
    <2> QED BY <2>4, <2>5 DEF Touches, Touching
  <1>3. CASE Check(b, t) /\ pc[b][t] \in DOMAIN Code /\ Doing(b, t) \in Checks
    <2> DEFINE A == IF Instr(b, t).op = "check_target" THEN {R(<<"target">>)} ELSE {}
    <2>1. ASSUME Instr(b, t).op = "check_target" PROVE Aims(b, t, R(<<"target">>))
      <3>1. pc[b][t] = 3 /\ Is(1, "target")
        BY <1>3, <2>1, CodeFacts DEF Losses, Instr, Is, Checks
      <3> QED BY <3>1, ReadsTarget
    <2>2. Touch(b, t, A)
      BY <1>3 DEF Check
    <2> HIDE DEF Aims, R, Touch
    <2>3. \A a \in A : Aims(b, t, a)
      BY <2>1
    <2> HIDE DEF A
    <2> QED BY <2>2, <2>3 DEF Touches, Touching
  <1> QED BY <1>1, <1>2, <1>3

(* Every access of a step is one its instruction aims at. *)
LEMMA ThreadStepTouches ==
  ASSUME SetUp, Shapes, PathInv, Together, TargetInv, MemInv, NEW b \in Blocks, NEW t \in Threads,
         ThreadStep(b, t)
  PROVE  Touches(b, t)
  <1>1. /\ Instruction(b, t) /\ pc[b][t] \in DOMAIN Code
        /\ Doing(b, t) \in Opcodes \ {"sync", "syncfold"}
    BY StepByOp
  <1>2. Is(pc[b][t], Doing(b, t))
    BY <1>1 DEF Is, Doing
  <1>3. CASE Doing(b, t) = "loop"
    BY <1>1, <1>2, <1>3, LoopTouches DEF Instruction
  <1>4. CASE Doing(b, t) = "map"
    BY <1>1, <1>2, <1>4, MapTouches DEF Instruction
  <1>5. CASE Doing(b, t) = "poison"
    BY <1>1, <1>2, <1>5, PoisonTouches DEF Instruction
  <1>6. CASE Doing(b, t) \in {"put", "fold", "get"}
    <2>1. CASE Doing(b, t) = "put"
      BY <1>1, <1>2, <2>1, ScratchTouches DEF Instruction
    <2>2. CASE Doing(b, t) = "fold"
      BY <1>1, <1>2, <2>2, ScratchTouches DEF Instruction
    <2>3. CASE Doing(b, t) = "get"
      BY <1>1, <1>2, <2>3, ScratchTouches DEF Instruction
    <2> QED BY <1>6, <2>1, <2>2, <2>3
  <1>7. CASE Doing(b, t) \in {"target", "grab"} \cup Checks
    <2>1. CASE Doing(b, t) = "target"
      BY <1>1, <1>2, <2>1, TargetTouches DEF Instruction
    <2>2. CASE Doing(b, t) = "grab"
      BY <1>1, <1>2, <2>2, TargetTouches DEF Instruction
    <2>3. CASE Doing(b, t) \in Checks
      BY <1>1, <1>2, <2>3, TargetTouches DEF Instruction
    <2> QED BY <1>7, <2>1, <2>2, <2>3
  <1>8. CASE Doing(b, t) \in {"add_loss", "add_total", "put_total"}
    <2>1. Touch(b, t, {})
      BY <1>1, <1>8 DEF Instruction, AddToGrid
    <2> HIDE DEF Touch
    <2> QED BY <2>1 DEF Touches, Touching
  <1>9. CASE Doing(b, t) = "return"
    BY <1>1, <1>9 DEF Instruction, Return, Touches, Untouched
  <1> QED BY <1>1, <1>3, <1>4, <1>5, <1>6, <1>7, <1>8, <1>9 DEF Opcodes, Checks

(* An access that may meet an earlier one of another thread. *)
Agree(a, o) == a.loc = o.loc => a.how = "read" /\ o.how[2] = "read"

(* Locations of different kinds differ. *)
LEMMA Locations ==
  /\ \A x, y : <<"target">> # <<x, y>>
  /\ \A i, c : \A f \in Buffers : <<"scratch", i>> # <<f, c>>
  /\ \A x, y, i, j : <<x, i>> = <<y, j>> => x = y /\ i = j
  <1>1. \A x, y : <<"target">> # <<x, y>>
    <2>1. ASSUME NEW x, NEW y, <<"target">> = <<x, y>> PROVE FALSE
      <3>1. Len(<<"target">>) = 1 /\ Len(<<x, y>>) = 2
        OBVIOUS
      <3> QED BY <2>1, <3>1
    <2> QED BY <2>1
  <1>2. \A x, y, i, j : <<x, i>> = <<y, j>> => x = y /\ i = j
    OBVIOUS
  <1>3. \A f \in Buffers : f # "scratch"
    BY DEF Buffers
  <1> QED BY <1>1, <1>2, <1>3

(* What a thread did since the last barrier no other has passed a barrier  *)
(* after.                                                                  *)
LEMMA SinceLast ==
  ASSUME SetUp, Together, NEW b \in Blocks, NEW t \in Threads, NEW u \in Threads,
         NEW n, Since(b, u, n), NEW k, Barrier(k), Reaches(b, k), n < k
  PROVE  ~(k < pc[b][t])
  <1>1. k \in DOMAIN Code /\ ~Past(b, u, k)
    BY DEF Barrier, Is, Since
  <1>2. ~Past(b, t, k)
    BY <1>1 DEF Together
  <1> QED BY <1>2 DEF Past

(* Beyond a read, every thread is beyond its tree. *)
LEMMA AfterGet ==
  ASSUME SetUp, Shapes, Together, NEW b \in Blocks, NEW u \in Threads, NEW m, Is(m, "get"), Past(b, u, m),
         NEW t \in Threads
  PROVE  \E p : /\ Is(p, "put") /\ p \in Nat /\ m = p + 4
                /\ p + 3 < pc[b][t] /\ Reaches(b, p + 3)
  <1>0. PICK p : p = m - 4
    OBVIOUS
  <1>1. Is(p, "put") /\ p \in Nat /\ m = p + 4
    <2>1. m \in Nat /\ m > 4 /\ Is(m - 4, "put")
      BY ReductionOf DEF Is
    <2>2. Is(p, "put")
      BY <1>0, <2>1
    <2> QED BY <1>0, <2>1, <2>2
  <1>2. Reaches(b, p + 3) /\ Barrier(p + 3)
    <2>1. Reaches(b, p + 4)
      BY <1>1 DEF Past
    <2>2. p + 4 \in {p, p + 1, p + 2, p + 3, p + 4}
      OBVIOUS
    <2> QED BY <1>1, <2>1, <2>2, ReductionReached, ReductionCode DEF Barrier
  <1>3. p + 3 < pc[b][u]
    <2>1. p + 4 < pc[b][u] /\ pc[b][u] \in Nat
      BY <1>1, CodeFacts DEF Past, Shapes
    <2> QED BY <1>1, <2>1
  <1>4. p + 3 < pc[b][t]
    BY <1>2, <1>3, NoneBehind
  <1> QED BY <1>1, <1>2, <1>4

(* The target is read beyond the barrier it was written before. *)
LEMMA TargetAgrees ==
  ASSUME SetUp, Shapes, NEW b \in Blocks, NEW t \in Threads, NEW u \in Threads, u # t,
         NEW a, AimsAtTarget(b, t, a), NEW o, IsTouch(o), TouchedTarget(b, o, u)
  PROVE  Agree(a, o)
  <1>1. CASE a.how = "write" /\ t = 0 /\ pc[b][t] = 1
    BY <1>1 DEF TouchedTarget, Past, IsTouch
  <1>2. CASE a.how = "read" /\ pc[b][t] > 2
    <2>1. ASSUME o.how[2] = "write" PROVE FALSE
      <3>1. ~Past(b, t, 2) /\ Is(1, "target")
        BY <2>1 DEF TouchedTarget
      <3>2. Reaches(b, 2)
        BY <3>1, TargetCode
      <3> QED BY <1>2, <3>1, <3>2 DEF Past
    <2> QED BY <1>2, <2>1 DEF Agree, IsTouch
  <1> QED BY <1>1, <1>2 DEF AimsAtTarget

(* A put meets nothing of another thread in its slot. *)
LEMMA PutAgrees ==
  ASSUME SetUp, Shapes, PathInv, Together, NEW b \in Blocks, NEW t \in Threads, NEW u \in Threads, u # t,
         NEW a, AimsToPut(b, t, a), NEW o,
         TouchedByPut(b, o, u) \/ TouchedByFold(b, o, u) \/ TouchedByGet(b, o, u)
  PROVE  Agree(a, o)
  <1> DEFINE n == pc[b][t]
  <1>0. Is(n, "put") /\ a.loc = <<"scratch", t>> /\ n \in Nat /\ pc[b][u] \in Nat
    BY ReductionCode, CodeFacts DEF AimsToPut, Shapes
  <1>1. CASE TouchedByPut(b, o, u)
    BY <1>0, <1>1, Locations DEF TouchedByPut, Agree
  <1>2. CASE TouchedByFold(b, o, u)
    BY <1>0, <1>2, PutAlone DEF TouchedByFold, Is
  <1>3. CASE TouchedByGet(b, o, u)
    <2>1. PICK m : Is(m, "get") /\ Since(b, u, m)
      BY <1>3 DEF TouchedByGet
    <2>2. PICK p : Is(p, "put") /\ p \in Nat /\ m = p + 4 /\ p + 3 < n /\ Reaches(b, p + 3)
      BY <2>1, AfterGet DEF Since
    <2>3. m < n
      <3>1. n # p + 4
        BY <1>0, <2>1, <2>2 DEF Is
      <3> QED BY <1>0, <2>2, <3>1
    <2>4. m \in DOMAIN Code /\ n \in DOMAIN Code /\ BarrierBetween(Code, m, n)
      BY <1>0, <2>1, <2>3, CodeFacts DEF Reductions, Is
    <2>5. PICK k \in DOMAIN Code : m < k /\ k < n /\ Barrier(k)
      BY <2>4, BetweenIsBarrier
    <2>6. Reaches(b, n) /\ k \in Nat
      BY <1>0, InReduction, CodeFacts
    <2>7. Reaches(b, k)
      BY <1>0, <2>5, <2>6, ReachesBefore
    <2> QED BY <2>1, <2>5, <2>7, SinceLast
  <1> QED BY <1>1, <1>2, <1>3

(* An addition meets nothing of another thread in its two slots. *)
LEMMA FoldAgrees ==
  ASSUME SetUp, Shapes, PathInv, Together, ScratchInv,
         NEW b \in Blocks, NEW t \in Threads, NEW u \in Threads, u # t,
         NEW a, AimsToFold(b, t, a), NEW o,
         TouchedByPut(b, o, u) \/ TouchedByFold(b, o, u) \/ TouchedByGet(b, o, u)
  PROVE  Agree(a, o)
  <1>0. PICK n : n = pc[b][t] - 2
    OBVIOUS
  <1>1. Is(n, "put") /\ n \in Nat /\ pc[b][t] = n + 2 /\ pc[b][u] \in Nat
    <2>1. pc[b][t] \in Nat /\ Is(pc[b][t] - 2, "put")
      BY ReductionOf DEF AimsToFold, Is
    <2>2. Is(n, "put")
      BY <1>0, <2>1
    <2>3. n \in Nat
      BY <2>2, ReductionCode
    <2>4. pc[b][u] \in Nat
      BY CodeFacts DEF Shapes
    <2> QED BY <1>0, <2>1, <2>2, <2>3, <2>4
  <1>2. pc[b][u] \in {n + 2, n + 3}
    <2>1. pc[b][t] \in {n + 2, n + 3}
      BY <1>1
    <2> QED BY <1>1, <2>1, FoldTogether
  <1>3. CASE TouchedByPut(b, o, u)
    <2>1. PICK m \in DOMAIN Code : Is(m, "put") /\ pc[b][u] = m + 1
      BY <1>3 DEF TouchedByPut
    <2>2. m \in Nat
      BY <2>1, ReductionCode
    <2> QED BY <1>1, <1>2, <2>1, <2>2, ReductionsApart
  <1>4. CASE TouchedByFold(b, o, u)
    <2> DEFINE s == stride[b][t]
    <2>1. s \in Nat /\ stride[b][u] = s /\ t \in Nat /\ u \in Nat /\ t < s
      BY <1>1, FoldFinds, HalfOfStride, CallFacts DEF AimsToFold
    <2>2. u < s /\ (o.loc = <<"scratch", u>> \/ (o.loc = <<"scratch", u + s>> /\ o.how[2] = "read"))
      BY <1>4, <2>1 DEF TouchedByFold
    <2>3. a.loc = <<"scratch", t>> \/ (a.loc = <<"scratch", t + s>> /\ a.how = "read")
      BY DEF AimsToFold
    <2> HIDE DEF s
    <2>4. u # t + s /\ t # u + s
      BY <2>1, <2>2
    <2> QED BY <2>2, <2>3, <2>4, Locations DEF Agree
  <1>5. CASE TouchedByGet(b, o, u)
    <2>1. PICK m : Is(m, "get") /\ Since(b, u, m)
      BY <1>5 DEF TouchedByGet
    <2>2. PICK p : Is(p, "put") /\ p \in Nat /\ m = p + 4 /\ p + 3 < pc[b][t] /\ Reaches(b, p + 3)
      BY <2>1, AfterGet DEF Since
    <2>3. m < n
      BY <1>1, <2>2, ReductionsApart
    <2>4. Reaches(b, n + 1) /\ Barrier(n + 1)
      <3>1. pc[b][t] \in {n, n + 1, n + 2, n + 3, n + 4}
        BY <1>1
      <3> QED BY <1>1, <3>1, InReduction, ReductionCode DEF Barrier
    <2>5. m < n + 1 /\ n + 1 < pc[b][t]
      BY <1>1, <2>2, <2>3
    <2> QED BY <2>1, <2>4, <2>5, SinceLast
  <1> QED BY <1>3, <1>4, <1>5

(* A read of the sum meets reads only. *)
LEMMA GetAgrees ==
  ASSUME SetUp, Shapes, PathInv, Together,
         NEW b \in Blocks, NEW t \in Threads, NEW u \in Threads, u # t,
         NEW a, AimsToGet(b, t, a), NEW o,
         TouchedByPut(b, o, u) \/ TouchedByFold(b, o, u) \/ TouchedByGet(b, o, u)
  PROVE  Agree(a, o)
  <1>0. PICK n : n = pc[b][t] - 4
    OBVIOUS
  <1>1. Is(n, "put") /\ n \in Nat /\ pc[b][t] = n + 4 /\ pc[b][u] \in Nat
    <2>1. pc[b][t] \in Nat /\ Is(pc[b][t] - 4, "put")
      BY ReductionOf DEF AimsToGet, Is
    <2>2. Is(n, "put")
      BY <1>0, <2>1
    <2>3. n \in Nat
      BY <2>2, ReductionCode
    <2>4. pc[b][u] \in Nat
      BY CodeFacts DEF Shapes
    <2> QED BY <1>0, <2>1, <2>2, <2>3, <2>4
  <1>2. Is(n + 4, "get")
    BY <1>1 DEF AimsToGet
  <1>3. CASE TouchedByPut(b, o, u)
    <2>1. PICK m \in DOMAIN Code : Is(m, "put") /\ pc[b][u] = m + 1
      BY <1>3 DEF TouchedByPut
    <2>2. m \in Nat
      BY <2>1, ReductionCode
    <2>3. Reaches(b, n + 3) /\ Barrier(n + 3)
      <3>1. pc[b][t] \in {n, n + 1, n + 2, n + 3, n + 4}
        BY <1>1
      <3> QED BY <1>1, <3>1, InReduction, ReductionCode DEF Barrier
    <2>4. n + 3 < pc[b][u]
      <3>1. n + 3 < pc[b][t]
        BY <1>1
      <3> QED BY <2>3, <3>1, NoneBehind
    <2>5. n + 4 < m
      BY <1>1, <2>1, <2>2, <2>4, ReductionsApart
    <2>6. n + 4 \in DOMAIN Code /\ BarrierBetween(Code, n + 4, m)
      BY <1>2, <2>1, <2>5, CodeFacts DEF Reductions, Is
    <2>7. PICK k \in DOMAIN Code : n + 4 < k /\ k < m /\ Barrier(k)
      BY <2>1, <2>6, BetweenIsBarrier
    <2>8. k \in Nat /\ Reaches(b, m)
      <3>1. pc[b][u] \in {m, m + 1, m + 2, m + 3, m + 4}
        BY <2>1
      <3> QED BY <2>1, <3>1, InReduction, CodeFacts
    <2>9. Reaches(b, k) /\ k < pc[b][u]
      BY <2>1, <2>2, <2>7, <2>8, ReachesBefore
    <2>10. k < pc[b][t]
      BY <2>7, <2>9, NoneBehind
    <2> QED BY <1>1, <2>7, <2>8, <2>10
  <1>4. CASE TouchedByFold(b, o, u)
    <2>1. PICK m \in DOMAIN Code : Is(m, "put") /\ pc[b][u] = m + 3
      BY <1>4 DEF TouchedByFold
    <2>2. m \in Nat
      BY <2>1, ReductionCode
    <2>3. pc[b][t] \in {m + 2, m + 3}
      <3>1. pc[b][u] \in {m + 2, m + 3}
        BY <2>1
      <3> QED BY <2>1, <3>1, FoldTogether
    <2> QED BY <1>1, <2>1, <2>2, <2>3, ReductionsApart
  <1>5. CASE TouchedByGet(b, o, u)
    BY <1>5 DEF TouchedByGet, AimsToGet, Agree
  <1> QED BY <1>3, <1>4, <1>5

(* The grab lies a barrier before the checks that follow it and before the *)
(* map.                                                                    *)
LEMMA GrabCode ==
  ASSUME SetUp, NEW m, Is(m, "grab")
  PROVE  /\ Is(1, "target") /\ m \in DOMAIN Code /\ m \in Nat
         /\ \A n \in DOMAIN Code : Code[n].op \in Checks /\ m < n => BarrierBetween(Code, m, n)
         /\ \A n : Is(n, "map") => m < n /\ BarrierBetween(Code, m, n)
  <1>1. m \in DOMAIN Code /\ Code[m].op = "grab" /\ DOMAIN Code \subseteq Nat /\ 1 \in DOMAIN Code
    BY CodeFacts DEF Is
  <1>2. Code[1].op = "target"
    BY <1>1, CodeFacts DEF Losses
  <1>3. /\ \A n \in DOMAIN Code : Code[n].op \in Checks /\ m < n => BarrierBetween(Code, m, n)
        /\ \A n \in DOMAIN Code : Code[n].op = "map" => m < n /\ BarrierBetween(Code, m, n)
    BY <1>1, CodeFacts DEF Losses
  <1> QED BY <1>1, <1>2, <1>3 DEF Is

(* Thread 0 has read the target's logit before any thread overwrites it. *)
LEMMA GrabbedBefore ==
  ASSUME SetUp, Shapes, PathInv, Together, NEW b \in Blocks, NEW t \in Threads, NEW u \in Threads,
         Is(pc[b][t], "map") \/ Is(pc[b][t], "poison"), NEW m, Is(m, "grab"), Since(b, u, m)
  PROVE  FALSE
  <1> DEFINE n == pc[b][t]
  <1>0. m \in DOMAIN Code /\ m \in Nat /\ n \in DOMAIN Code /\ n \in Nat
    BY GrabCode, CodeFacts DEF Is
  <1>1. CASE Is(n, "map")
    <2>1. BarrierBetween(Code, m, n)
      BY <1>1, GrabCode
    <2>2. PICK k \in DOMAIN Code : m < k /\ k < n /\ Barrier(k)
      BY <1>0, <2>1, BetweenIsBarrier
    <2>3. Reaches(b, n) /\ k \in Nat
      <3>1. ~Is(n, "poison")
        BY <1>1 DEF Is
      <3> QED BY <1>0, <3>1, OnPath, CodeFacts
    <2>4. Reaches(b, k)
      BY <1>0, <2>2, <2>3, ReachesBefore
    <2> QED BY <2>2, <2>4, SinceLast
  <1>2. CASE Is(n, "poison")
    <2>1. n = Len(Code) /\ Len(Code) \in Nat
      BY <1>2, PoisonCode, CodeFacts
    <2>2. ~Reaches(b, Len(Code))
      BY <1>2, <2>1 DEF PathInv
    <2>3. PICK j \in 1..(Len(Code) - 1) : Fails(b, j) /\ Reaches(b, j)
      BY <2>1, <2>2, FirstFailure
    <2>4. j \in DOMAIN Code /\ Code[j].op \in Checks /\ j \in Nat
      BY <2>3, PoisonCode
    <2>5. m < j
      <3>1. ~(j < m)
        BY <1>0, <2>3, <2>4 DEF Since, Past, Reaches
      <3>2. m # j
        BY <2>4 DEF Is, Checks
      <3> QED BY <1>0, <2>4, <3>1, <3>2
    <2>6. BarrierBetween(Code, m, j)
      BY <2>4, <2>5, GrabCode
    <2>7. PICK k \in DOMAIN Code : m < k /\ k < j /\ Barrier(k)
      BY <1>0, <2>4, <2>6, BetweenIsBarrier
    <2>8. Reaches(b, k) /\ k < n
      BY <2>1, <2>3, <2>4, <2>7, ReachesBefore, CodeFacts
    <2> QED BY <2>7, <2>8, SinceLast
  <1> QED BY <1>1, <1>2

(* The accesses to a row meet no write of another thread. *)
LEMMA CellsAgree ==
  ASSUME SetUp, Shapes, PathInv, Together,
         NEW b \in Blocks, NEW t \in Threads, NEW u \in Threads, u # t,
         NEW a, AimsAtOwn(b, t, a) \/ AimsToGrab(b, t, a), a.how \in {"read", "write"},
         NEW o, IsTouch(o), TouchedOwn(b, o, u) \/ TouchedByGrab(b, o, u)
  PROVE  Agree(a, o)
  <1>1. CASE AimsAtOwn(b, t, a) /\ TouchedOwn(b, o, u)
    <2>1. PICK f \in Buffers, c \in Cols : a.loc = <<f, c>> /\ c % BlockDim = t
      BY <1>1 DEF AimsAtOwn
    <2>2. PICK g \in Buffers, d \in Cols : o.loc = <<g, d>> /\ d % BlockDim = u
      BY <1>1 DEF TouchedOwn
    <2>3. <<f, c>> # <<g, d>>
      BY <2>1, <2>2, Locations
    <2> QED BY <2>1, <2>2, <2>3 DEF Agree
  <1>2. CASE AimsAtOwn(b, t, a) /\ TouchedByGrab(b, o, u)
    <2>1. PICK m \in DOMAIN Code : Is(m, "grab") /\ Since(b, u, m)
      BY <1>2 DEF TouchedByGrab
    <2>2. ~(Is(pc[b][t], "map") \/ Is(pc[b][t], "poison"))
      BY <2>1, GrabbedBefore
    <2>3. Is(1, "target")
      BY <2>1, GrabCode
    <2>4. a.how # "write"
      BY <1>2, <2>2, <2>3 DEF AimsAtOwn
    <2> QED BY <1>2, <2>4 DEF TouchedByGrab, Agree
  <1>3. CASE AimsToGrab(b, t, a) /\ TouchedOwn(b, o, u)
    <2>1. Is(pc[b][t], "grab") /\ a.how = "read"
      BY <1>3 DEF AimsToGrab
    <2>2. ~Overwritten(b, u) /\ Is(1, "target")
      BY <2>1, GrabBeforeWrites, GrabCode
    <2>3. o.how[2] # "write"
      BY <1>3, <2>2 DEF TouchedOwn
    <2> QED BY <2>1, <2>3 DEF IsTouch, Agree
  <1>4. CASE AimsToGrab(b, t, a) /\ TouchedByGrab(b, o, u)
    BY <1>4 DEF AimsToGrab, TouchedByGrab, Agree
  <1> QED BY <1>1, <1>2, <1>3, <1>4

(* The three kinds of location. *)
AtTarget(loc) == loc = <<"target">>
AtScratch(loc) == \E i : loc = <<"scratch", i>>
AtCell(loc) == \E f \in Buffers, c \in Cols : loc = <<f, c>>

(* Accesses to different kinds of location do not meet. *)
LEMMA KindsApart ==
  ASSUME NEW l, NEW k, \/ AtTarget(l) /\ AtScratch(k)
                       \/ AtTarget(l) /\ AtCell(k)
                       \/ AtScratch(l) /\ AtTarget(k)
                       \/ AtScratch(l) /\ AtCell(k)
                       \/ AtCell(l) /\ AtTarget(k)
                       \/ AtCell(l) /\ AtScratch(k)
  PROVE  l # k
  BY Locations DEF AtTarget, AtScratch, AtCell

(* No access of a step conflicts with one of another thread since the      *)
(* barrier.                                                                *)
LEMMA Agrees ==
  ASSUME SetUp, Shapes, PathInv, Together, ScratchInv,
         NEW b \in Blocks, NEW t \in Threads, NEW u \in Threads, u # t, pc[b][t] \in DOMAIN Code,
         NEW a, Aims(b, t, a), NEW o, IsTouch(o), Explained(b, o, u)
  PROVE  Agree(a, o)
  <1>1. /\ AimsAtTarget(b, t, a) => AtTarget(a.loc)
        /\ AimsToPut(b, t, a) \/ AimsToFold(b, t, a) \/ AimsToGet(b, t, a) => AtScratch(a.loc)
        /\ AimsAtOwn(b, t, a) \/ AimsToGrab(b, t, a) => AtCell(a.loc)
    BY DEF AimsAtTarget, AimsToPut, AimsToFold, AimsToGet, AimsAtOwn, AimsToGrab, AtTarget, AtScratch,
           AtCell, Buffers
  <1>2. /\ TouchedTarget(b, o, u) => AtTarget(o.loc)
        /\ TouchedByPut(b, o, u) \/ TouchedByFold(b, o, u) \/ TouchedByGet(b, o, u) => AtScratch(o.loc)
        /\ TouchedOwn(b, o, u) \/ TouchedByGrab(b, o, u) => AtCell(o.loc)
    BY DEF TouchedTarget, TouchedByPut, TouchedByFold, TouchedByGet, TouchedOwn, TouchedByGrab, AtTarget,
           AtScratch, AtCell, Buffers
  <1>3. CASE a.loc # o.loc
    BY <1>3 DEF Agree
  <1>4. CASE a.loc = o.loc
    <2>1. a.how \in {"read", "write"}
      BY DEF Aims
    <2>2. CASE AimsAtTarget(b, t, a)
      <3>1. TouchedTarget(b, o, u)
        BY <1>1, <1>2, <1>4, <2>2, KindsApart DEF Explained
      <3> QED BY <2>2, <3>1, TargetAgrees
    <2>3. CASE AimsToPut(b, t, a) \/ AimsToFold(b, t, a) \/ AimsToGet(b, t, a)
      <3>1. TouchedByPut(b, o, u) \/ TouchedByFold(b, o, u) \/ TouchedByGet(b, o, u)
        BY <1>1, <1>2, <1>4, <2>3, KindsApart DEF Explained
      <3> QED BY <2>3, <3>1, PutAgrees, FoldAgrees, GetAgrees
    <2>4. CASE AimsAtOwn(b, t, a) \/ AimsToGrab(b, t, a)
      <3>1. TouchedOwn(b, o, u) \/ TouchedByGrab(b, o, u)
        BY <1>1, <1>2, <1>4, <2>4, KindsApart DEF Explained
      <3> QED BY <2>1, <2>4, <3>1, CellsAgree
    <2> QED BY <2>2, <2>3, <2>4 DEF Aims
  <1> QED BY <1>3, <1>4

(* A barrier is not passed by a thread's own step. *)
LEMMA BarriersStay ==
  ASSUME SetUp, Shapes, PathInv, NEW b, NEW t, ThreadMoves(b, t)
  PROVE  /\ \A c \in Blocks, u \in Threads : \A k : Barrier(k) => (Past(c, u, k)' <=> Past(c, u, k))
         /\ \A c \in Blocks, u \in Threads : \A n : n \in DOMAIN Code /\ ~Is(n, "poison") =>
              (Past(c, u, n) => Past(c, u, n)')
         /\ \A n : n = pc[b][t] /\ ~Is(n, "poison") => Past(b, t, n)'
         /\ \A c \in Blocks, u \in Threads : Poisoned(c, u) => Poisoned(c, u)'
  <1>1. \A c \in Blocks, u \in Threads, k \in DOMAIN Code :
              ~Is(k, "poison") => (Past(c, u, k)' <=> Was(b, t, c, u, k))
    BY MoveFacts
  <1>2. b \in Blocks /\ t \in Threads /\ pc[b][t] \in DOMAIN Code /\ ~Barrier(pc[b][t])
    BY DEF ThreadMoves
  <1>3. \A k : Barrier(k) => k \in DOMAIN Code /\ ~Is(k, "poison") /\ k # pc[b][t]
    BY <1>2 DEF Barrier, Is
  <1>4. \A c \in Blocks, u \in Threads : Poisoned(c, u) => Poisoned(c, u)'
    BY MovePoison
  <1> HIDE DEF Past, Is, Barrier, Poisoned
  <1> QED BY <1>1, <1>2, <1>3, <1>4 DEF Was

(* What was done since the last barrier stays so. *)
LEMMA SinceKept ==
  ASSUME calling' = calling, NEW c, NEW u, NEW n, Since(c, u, n), Past(c, u, n)',
         \A k : Barrier(k) => (Past(c, u, k)' <=> Past(c, u, k))
  PROVE  Since(c, u, n)'
  <1>1. Code' = Code /\ \A k : Barrier(k)' <=> Barrier(k)
    BY SameCall
  <1> HIDE DEF Barrier, Past
  <1> QED BY <1>1 DEF Since

(* What a thread does now is done since the last barrier. *)
LEMMA SinceNow ==
  ASSUME SetUp, Shapes, PathInv, NEW b, NEW t, ThreadMoves(b, t), NEW n, n = pc[b][t], ~Is(n, "poison")
  PROVE  Since(b, t, n)'
  <1>0. b \in Blocks /\ t \in Threads /\ calling' = calling /\ n \in Nat
    BY CodeFacts DEF ThreadMoves
  <1>1. Code' = Code /\ \A k : Barrier(k)' <=> Barrier(k)
    BY <1>0, SameCall
  <1>2. Past(b, t, n)'
    BY BarriersStay
  <1>3. \A k \in DOMAIN Code : Barrier(k) /\ n < k => ~Past(b, t, k)'
    <2>1. ASSUME NEW k \in DOMAIN Code, Barrier(k), n < k PROVE ~Past(b, t, k)'
      <3>1. k \in Nat
        BY CodeFacts
      <3>2. ~Past(b, t, k)
        BY <1>0, <2>1, <3>1 DEF Past
      <3> QED BY <1>0, <2>1, <3>2, BarriersStay
    <2> QED BY <2>1
  <1> HIDE DEF Barrier, Past
  <1> QED BY <1>1, <1>2, <1>3 DEF Since

(* An access stays explained while its thread's stride stays. *)
LEMMA ExplainedKept ==
  ASSUME SetUp, Shapes, PathInv, NEW b, NEW t, ThreadMoves(b, t),
         NEW c \in Blocks, NEW u \in Threads, c # b \/ u # t => stride'[c][u] = stride[c][u],
         NEW o, Explained(c, o, u)
  PROVE  Explained(c, o, u)'
  <1>1. /\ calling' = calling /\ b \in Blocks /\ t \in Threads /\ pc[b][t] \in DOMAIN Code
        /\ ~Barrier(pc[b][t]) /\ 0 \in Threads
    BY CallFacts DEF ThreadMoves
  <1>2. /\ Code' = Code /\ Threads' = Threads /\ Cols' = Cols /\ BlockDim' = BlockDim
        /\ \A n, op : Is(n, op)' <=> Is(n, op)
    BY <1>1, SameCall
  <1>3. \A d \in Blocks, v \in Threads : Barrier(pc[d][v]) => pc'[d][v] = pc[d][v] /\ (d # b \/ v # t)
    BY <1>1, MoveFacts
  <1>4. /\ \A v \in Threads : \A k : Barrier(k) => (Past(c, v, k)' <=> Past(c, v, k))
        /\ \A v \in Threads : \A n : n \in DOMAIN Code /\ ~Is(n, "poison") =>
             (Past(c, v, n) => Past(c, v, n)')
        /\ \A v \in Threads : Poisoned(c, v) => Poisoned(c, v)'
    BY BarriersStay
  <1>5. CASE TouchedTarget(c, o, u)
    <2>1. Is(1, "target") /\ Is(2, "sync") /\ Barrier(2) /\ 2 \in DOMAIN Code /\ ~Is(2, "poison")
      BY <1>5, TargetCode DEF TouchedTarget, Barrier, Is
    <2>2. pc[c][0] = 2 => pc'[c][0] = 2
      BY <1>1, <1>3, <2>1
    <2>3. \A v \in Threads : Past(c, v, 2)' <=> Past(c, v, 2)
      BY <1>4, <2>1
    <2> HIDE DEF Past
    <2>4. TouchedTarget(c, o, u)'
      BY <1>1, <1>2, <1>5, <2>1, <2>2, <2>3 DEF TouchedTarget
    <2> QED BY <2>4 DEF Explained
  <1>6. CASE TouchedByPut(c, o, u)
    <2>1. PICK n \in DOMAIN Code : Is(n, "put") /\ pc[c][u] = n + 1
      BY <1>6 DEF TouchedByPut
    <2>2. pc'[c][u] = n + 1
      BY <1>3, <2>1, ReductionCode DEF Barrier
    <2>3. TouchedByPut(c, o, u)'
      BY <1>2, <1>6, <2>1, <2>2 DEF TouchedByPut
    <2> QED BY <2>3 DEF Explained
  <1>7. CASE TouchedByFold(c, o, u)
    <2>1. PICK n \in DOMAIN Code : Is(n, "put") /\ pc[c][u] = n + 3
      BY <1>7 DEF TouchedByFold
    <2>2. pc'[c][u] = n + 3 /\ stride'[c][u] = stride[c][u]
      BY <1>3, <2>1, ReductionCode DEF Barrier
    <2>3. TouchedByFold(c, o, u)'
      BY <1>2, <1>7, <2>1, <2>2 DEF TouchedByFold
    <2> QED BY <2>3 DEF Explained
  <1>8. CASE TouchedByGet(c, o, u)
    <2>1. PICK n \in DOMAIN Code : Is(n, "get") /\ Since(c, u, n)
      BY <1>8 DEF TouchedByGet
    <2>2. Past(c, u, n)'
      BY <1>4, <2>1 DEF Since, Is
    <2>3. Since(c, u, n)'
      BY <1>1, <1>4, <2>1, <2>2, SinceKept
    <2> HIDE DEF Since
    <2>4. TouchedByGet(c, o, u)'
      BY <1>2, <1>8, <2>1, <2>3 DEF TouchedByGet
    <2> QED BY <2>4 DEF Explained
  <1>9. CASE TouchedOwn(c, o, u)
    <2>1. Overwritten(c, u) => Overwritten(c, u)'
      <3>1. ASSUME NEW n \in DOMAIN Code, Is(n, "map"), Past(c, u, n) PROVE Overwritten(c, u)'
        <4>1. Past(c, u, n)'
          BY <1>4, <3>1 DEF Is
        <4> HIDE DEF Past
        <4> QED BY <1>2, <3>1, <4>1 DEF Overwritten
      <3>2. ASSUME Poisoned(c, u) PROVE Overwritten(c, u)'
        BY <1>4, <3>2 DEF Overwritten
      <3> QED BY <3>1, <3>2 DEF Overwritten
    <2> HIDE DEF Overwritten
    <2>2. TouchedOwn(c, o, u)'
      BY <1>2, <1>9, <2>1 DEF TouchedOwn
    <2> QED BY <2>2 DEF Explained
  <1>10. CASE TouchedByGrab(c, o, u)
    <2>1. PICK n \in DOMAIN Code : Is(n, "grab") /\ Since(c, u, n)
      BY <1>10 DEF TouchedByGrab
    <2>2. Past(c, u, n)'
      BY <1>4, <2>1 DEF Since, Is
    <2>3. Since(c, u, n)'
      BY <1>1, <1>4, <2>1, <2>2, SinceKept
    <2> HIDE DEF Since
    <2>4. TouchedByGrab(c, o, u)'
      BY <1>2, <1>10, <2>1, <2>3 DEF TouchedByGrab
    <2> QED BY <2>4 DEF Explained
  <1> QED BY <1>5, <1>6, <1>7, <1>8, <1>9, <1>10 DEF Explained

(* What a thread's access is known by afterwards. *)
LEMMA AimsExplained ==
  ASSUME SetUp, Shapes, PathInv, Together, TargetInv, NEW b \in Blocks, NEW t \in Threads,
         ThreadMoves(b, t), Frame(b, t), NEW a, Aims(b, t, a),
         NEW o, o.loc = a.loc, o.how[1] = t, o.how[2] = a.how
  PROVE  Explained(b, o, t)'
  <1>0. PICK n : n = pc[b][t]
    OBVIOUS
  <1>1. calling' = calling /\ n \in DOMAIN Code /\ n \in Nat /\ 0 \in Threads
    BY <1>0, CodeFacts, CallFacts DEF ThreadMoves
  <1>2. /\ Code' = Code /\ Threads' = Threads /\ Cols' = Cols /\ BlockDim' = BlockDim
        /\ \A m, op : Is(m, op)' <=> Is(m, op)
    BY <1>1, SameCall
  <1>3. Doing(b, t) \notin Checks \cup {"return"} => pc'[b][t] = n + 1
    BY <1>0, MovesOn
  <1>4. CASE AimsAtTarget(b, t, a)
    <2>1. Is(1, "target") /\ Is(2, "sync") /\ Barrier(2) /\ Reaches(b, 2)
      BY <1>4, TargetCode DEF AimsAtTarget, Barrier
    <2>2. CASE a.how = "write" /\ t = 0 /\ pc[b][t] = 1
      <3>1. pc'[b][0] = 2
        BY <1>0, <1>3, <2>1, <2>2 DEF Doing, Is, Checks
      <3>2. ASSUME NEW v \in Threads PROVE ~Past(b, v, 2)'
        <4>1. ~Past(b, v, 2)
          BY <2>1, <2>2, NoneBehind DEF Past
        <4> QED BY <2>1, <4>1, BarriersStay
      <3> HIDE DEF Past
      <3>3. TouchedTarget(b, o, t)'
        BY <1>2, <1>4, <2>1, <2>2, <3>1, <3>2 DEF TouchedTarget, AimsAtTarget
      <3> QED BY <3>3 DEF Explained
    <2>3. CASE a.how = "read" /\ pc[b][t] > 2
      <3>1. Past(b, 0, 2)
        BY <1>1, <2>1, <2>3, AfterTarget
      <3>2. Past(b, 0, 2)'
        BY <1>1, <2>1, <3>1, BarriersStay
      <3> HIDE DEF Past
      <3>3. TouchedTarget(b, o, t)'
        BY <1>2, <1>4, <2>1, <2>3, <3>2 DEF TouchedTarget, AimsAtTarget
      <3> QED BY <3>3 DEF Explained
    <2> QED BY <1>4, <2>2, <2>3 DEF AimsAtTarget
  <1>5. CASE AimsToPut(b, t, a)
    <2>1. pc'[b][t] = n + 1 /\ Is(n, "put")
      BY <1>0, <1>3, <1>5 DEF AimsToPut, Doing, Is, Checks
    <2>2. TouchedByPut(b, o, t)'
      BY <1>1, <1>2, <1>5, <2>1 DEF TouchedByPut, AimsToPut
    <2> QED BY <2>2 DEF Explained
  <1>6. CASE AimsToFold(b, t, a)
    <2>0. PICK m : m = n - 2
      OBVIOUS
    <2>1. pc'[b][t] = n + 1 /\ Is(n, "fold") /\ Doing(b, t) # "put"
      BY <1>0, <1>3, <1>6 DEF AimsToFold, Doing, Is, Checks
    <2>2. Is(m, "put")
      BY <2>0, <2>1, ReductionOf
    <2>3. m \in Nat /\ m \in DOMAIN Code
      BY <2>2, ReductionCode DEF Is
    <2>4. n + 1 = m + 3
      BY <1>1, <2>0, <2>3
    <2>5. stride' = stride /\ pc'[b][t] = m + 3
      BY <2>1, <2>4 DEF Frame
    <2>6. TouchedByFold(b, o, t)'
      BY <1>2, <1>6, <2>2, <2>3, <2>5 DEF TouchedByFold, AimsToFold
    <2> QED BY <2>6 DEF Explained
  <1>7. CASE AimsToGet(b, t, a)
    <2>1. Is(n, "get") /\ ~Is(n, "poison")
      BY <1>0, <1>7 DEF AimsToGet, Is
    <2>2. Since(b, t, n)'
      BY <1>0, <2>1, SinceNow
    <2> HIDE DEF Since
    <2>3. TouchedByGet(b, o, t)'
      BY <1>1, <1>2, <1>7, <2>1, <2>2 DEF TouchedByGet, AimsToGet
    <2> QED BY <2>3 DEF Explained
  <1>8. CASE AimsAtOwn(b, t, a)
    <2>1. ASSUME Is(1, "target"), a.how = "write" PROVE Overwritten(b, t)'
      <3>1. CASE Is(n, "map")
        <4>1. Past(b, t, n)'
          BY <1>0, <3>1, BarriersStay DEF Is
        <4> HIDE DEF Past
        <4> QED BY <1>1, <1>2, <3>1, <4>1 DEF Overwritten
      <3>2. CASE Is(n, "poison")
        <4>1. Poisoned(b, t)'
          BY <1>0, <3>2, MovePoison
        <4> QED BY <4>1 DEF Overwritten
      <3> QED BY <1>0, <1>8, <2>1, <3>1, <3>2 DEF AimsAtOwn
    <2> HIDE DEF Overwritten
    <2>2. TouchedOwn(b, o, t)'
      BY <1>2, <1>8, <2>1 DEF TouchedOwn, AimsAtOwn
    <2> QED BY <2>2 DEF Explained
  <1>9. CASE AimsToGrab(b, t, a)
    <2>1. Is(n, "grab") /\ ~Is(n, "poison")
      BY <1>0, <1>9 DEF AimsToGrab, Is
    <2>2. Since(b, t, n)'
      BY <1>0, <2>1, SinceNow
    <2> HIDE DEF Since
    <2>3. TouchedByGrab(b, o, t)'
      BY <1>1, <1>2, <1>9, <2>1, <2>2 DEF TouchedByGrab, AimsToGrab
    <2> QED BY <2>3 DEF Explained
  <1> QED BY <1>4, <1>5, <1>6, <1>7, <1>8, <1>9 DEF Aims

(* An access as it is recorded. *)
LEMMA RecordedTouch ==
  ASSUME NEW a, DOMAIN a = {"loc", "how"}, NEW t
  PROVE  /\ DOMAIN [a EXCEPT !.how = <<t, a.how>>] = {"loc", "how"}
         /\ [a EXCEPT !.how = <<t, a.how>>].loc = a.loc
         /\ [a EXCEPT !.how = <<t, a.how>>].how[1] = t
         /\ [a EXCEPT !.how = <<t, a.how>>].how[2] = a.how
  OBVIOUS

(* Accesses that agree do not conflict. *)
LEMMA NoConflict ==
  ASSUME NEW a, NEW o, DOMAIN o = {"loc", "how"}, Agree(a, o)
  PROVE  ~Conflict(a, [o EXCEPT !.how = o.how[2]])
  <1>1. [o EXCEPT !.how = o.how[2]].loc = o.loc /\ [o EXCEPT !.how = o.how[2]].how = o.how[2]
    OBVIOUS
  <1> QED BY <1>1 DEF Conflict, Agree

(* What is recorded after a step. *)
LEMMA NewTouches ==
  ASSUME SetUp, Shapes, NEW b \in Blocks, NEW t \in Threads, NEW A, Touching(b, t, A),
         NEW c \in Blocks, NEW o \in touched'[c]
  PROVE  \/ o \in touched[c]
         \/ /\ c = b
            /\ \E a \in A : /\ Aims(b, t, a) /\ DOMAIN o = {"loc", "how"}
                            /\ o.loc = a.loc /\ o.how[1] = t /\ o.how[2] = a.how
  <1> DEFINE N == {[a EXCEPT !.how = <<t, a.how>>] : a \in A}
  <1>1. touched' = [touched EXCEPT ![b] = @ \cup N] /\ DOMAIN touched = Blocks
    BY DEF Touching, Touch, Shapes
  <1>2. touched'[c] = IF c = b THEN touched[b] \cup N ELSE touched[c]
    <2> HIDE DEF N
    <2> QED BY <1>1
  <1>3. CASE o \in touched[c]
    BY <1>3
  <1>4. CASE o \notin touched[c]
    <2>1. c = b /\ o \in N
      <3> HIDE DEF N
      <3> QED BY <1>2, <1>4
    <2>2. PICK a \in A : o = [a EXCEPT !.how = <<t, a.how>>]
      BY <2>1
    <2>3. Aims(b, t, a) /\ DOMAIN a = {"loc", "how"}
      BY DEF Touching, Aims
    <2>4. /\ DOMAIN o = {"loc", "how"}
          /\ o.loc = a.loc /\ o.how[1] = t /\ o.how[2] = a.how
      BY <2>2, <2>3, RecordedTouch
    <2> HIDE DEF Aims
    <2> QED BY <2>1, <2>3, <2>4
  <1> QED BY <1>3, <1>4

(* A step races with nothing recorded. *)
LEMMA NotRaced ==
  ASSUME SetUp, Shapes, PathInv, Together, ScratchInv, TouchInv, NEW b \in Blocks, NEW t \in Threads,
         pc[b][t] \in DOMAIN Code, NEW A, Touching(b, t, A)
  PROVE  ~raced'
  <1>1. raced' = (raced \/ \E a \in A, o \in touched[b] :
                             o.how[1] # t /\ Conflict(a, [o EXCEPT !.how = o.how[2]]))
    BY DEF Touching, Touch
  <1>2. ASSUME NEW a \in A, NEW o \in touched[b], o.how[1] # t
        PROVE  ~Conflict(a, [o EXCEPT !.how = o.how[2]])
    <2>1. IsTouch(o) /\ Explained(b, o, o.how[1])
      BY DEF TouchInv
    <2>2. Aims(b, t, a)
      BY DEF Touching
    <2>3. o.how[1] \in Threads /\ DOMAIN o = {"loc", "how"}
      BY <2>1 DEF IsTouch
    <2>4. Agree(a, o)
      BY <1>2, <2>1, <2>2, <2>3, Agrees
    <2> QED BY <2>3, <2>4, NoConflict
  <1>3. ~raced
    BY DEF TouchInv
  <1> HIDE DEF Conflict
  <1> QED BY <1>1, <1>2, <1>3

(* A thread sets no stride but its own. *)
LEMMA StrideOfOthers ==
  ASSUME SetUp, Shapes, NEW b \in Blocks, NEW t \in Threads, ThreadStep(b, t),
         NEW c \in Blocks, NEW u \in Threads, c # b \/ u # t
  PROVE  stride'[c][u] = stride[c][u]
  <1>1. Instruction(b, t) /\ Frame(b, t)
    BY StepByOp
  <1>2. CASE Doing(b, t) = "put"
    BY <1>1, <1>2, PutEffect DEF Instruction
  <1>3. CASE Doing(b, t) # "put"
    BY <1>1, <1>3 DEF Frame
  <1> QED BY <1>2, <1>3

(* A step of a thread keeps every access explained. *)
LEMMA ThreadStepTouch ==
  ASSUME SetUp, Shapes, PathInv, Together, TargetInv, MemInv, ScratchInv, TouchInv,
         NEW b \in Blocks, NEW t \in Threads, ThreadStep(b, t)
  PROVE  TouchInv'
  <1>1. ThreadMoves(b, t) /\ Frame(b, t) /\ calling' = calling /\ pc[b][t] \in DOMAIN Code
    BY StepByOp, ThreadStepMoves
  <1>2. Blocks' = Blocks /\ Threads' = Threads
    BY <1>1, SameCall
  <1>3. ASSUME NEW c \in Blocks, NEW o \in touched[c]
        PROVE  IsTouch(o)' /\ Explained(c, o, o.how[1])'
    <2>1. IsTouch(o) /\ Explained(c, o, o.how[1])
      BY DEF TouchInv
    <2>2. o.how[1] \in Threads
      BY <2>1 DEF IsTouch
    <2>3. c # b \/ o.how[1] # t => stride'[c][o.how[1]] = stride[c][o.how[1]]
      BY <2>2, StrideOfOthers
    <2>4. Explained(c, o, o.how[1])'
      BY <1>1, <2>1, <2>2, <2>3, ExplainedKept
    <2> QED BY <1>2, <2>1, <2>4 DEF IsTouch
  <1>4. CASE Untouched
    <2>1. touched' = touched /\ ~raced'
      BY <1>4 DEF Untouched, TouchInv
    <2> HIDE DEF IsTouch, Explained
    <2> QED BY <1>2, <1>3, <2>1 DEF TouchInv
  <1>5. ASSUME NEW A, Touching(b, t, A) PROVE TouchInv'
    <2>1. ~raced'
      BY <1>1, <1>5, NotRaced
    <2>2. ASSUME NEW c \in Blocks, NEW o \in touched'[c]
          PROVE  IsTouch(o)' /\ Explained(c, o, o.how[1])'
      <3>1. CASE o \in touched[c]
        BY <1>3, <3>1
      <3>2. CASE o \notin touched[c]
        <4>1. /\ c = b /\ DOMAIN o = {"loc", "how"}
              /\ \E a \in A : Aims(b, t, a) /\ o.loc = a.loc /\ o.how[1] = t /\ o.how[2] = a.how
          BY <1>5, <3>2, NewTouches
        <4>2. PICK a \in A : Aims(b, t, a) /\ o.loc = a.loc /\ o.how[1] = t /\ o.how[2] = a.how
          BY <4>1
        <4>3. Explained(b, o, t)'
          BY <1>1, <4>2, AimsExplained
        <4>4. IsTouch(o)'
          BY <1>2, <4>1, <4>2 DEF IsTouch, Aims
        <4> HIDE DEF Explained
        <4> QED BY <4>1, <4>2, <4>3, <4>4
      <3> QED BY <3>1, <3>2
    <2> HIDE DEF IsTouch, Explained
    <2> QED BY <1>2, <2>1, <2>2 DEF TouchInv
  <1>6. Touches(b, t)
    BY ThreadStepTouches
  <1> QED BY <1>4, <1>5, <1>6 DEF Touches

(* A barrier forgets the accesses of its block alone. *)
LEMMA BarrierTouch ==
  ASSUME SetUp, Shapes, PathInv, TouchInv, NEW b \in Blocks, SyncThreads(b)
  PROVE  TouchInv'
  <1>1. /\ calling' = calling /\ raced' = raced /\ 0 \in Threads
        /\ touched' = [touched EXCEPT ![b] = {}] /\ DOMAIN touched = Blocks
        /\ \A c \in Blocks, u \in Threads : c # b => pc'[c][u] = pc[c][u]
    BY SyncMoves, CallFacts DEF Barriered, SyncThreads, Shapes
  <1>2. /\ Code' = Code /\ Threads' = Threads /\ Cols' = Cols /\ BlockDim' = BlockDim /\ Blocks' = Blocks
        /\ \A n, op : Is(n, op)' <=> Is(n, op)
        /\ \A n : Barrier(n)' <=> Barrier(n)
        /\ \A c, n : Reaches(c, n)' <=> Reaches(c, n)
    BY <1>1, SameCall
  <1>3. ASSUME NEW c \in Blocks, NEW o \in touched'[c]
        PROVE  IsTouch(o)' /\ Explained(c, o, o.how[1])'
    <2>1. c # b /\ o \in touched[c]
      BY <1>1
    <2>2. IsTouch(o) /\ Explained(c, o, o.how[1])
      BY <2>1 DEF TouchInv
    <2>3. PICK u \in Threads : u = o.how[1]
      BY <2>2 DEF IsTouch
    <2>4. \A v \in Threads : pc'[c][v] = pc[c][v] /\ stride'[c][v] = stride[c][v]
      BY <1>1, <2>1, SyncEffect
    <2>5. /\ \A v \in Threads : \A n : Past(c, v, n)' <=> Past(c, v, n)
          /\ \A v \in Threads : Poisoned(c, v)' <=> Poisoned(c, v)
      <3> HIDE DEF Reaches, Is
      <3> QED BY <1>2, <2>4 DEF Past, Poisoned
    <2>6. \A v \in Threads : \A n : Since(c, v, n)' <=> Since(c, v, n)
      <3> HIDE DEF Past, Barrier
      <3> QED BY <1>2, <2>5 DEF Since
    <2>7. Explained(c, o, u)
      BY <2>2, <2>3
    <2> HIDE DEF Since, Past, Poisoned, Is
    <2>8. TouchedTarget(c, o, u) => TouchedTarget(c, o, u)'
      BY <1>1, <1>2, <2>4, <2>5 DEF TouchedTarget
    <2>9. TouchedByPut(c, o, u) => TouchedByPut(c, o, u)'
      BY <1>2, <2>4 DEF TouchedByPut
    <2>10. TouchedByFold(c, o, u) => TouchedByFold(c, o, u)'
      BY <1>2, <2>4 DEF TouchedByFold
    <2>11. TouchedByGet(c, o, u) => TouchedByGet(c, o, u)'
      BY <1>2, <2>6 DEF TouchedByGet
    <2>12. TouchedOwn(c, o, u) => TouchedOwn(c, o, u)'
      BY <1>2, <2>5 DEF TouchedOwn, Overwritten
    <2>13. TouchedByGrab(c, o, u) => TouchedByGrab(c, o, u)'
      BY <1>2, <2>6 DEF TouchedByGrab
    <2>14. Explained(c, o, u)'
      BY <2>7, <2>8, <2>9, <2>10, <2>11, <2>12, <2>13 DEF Explained
    <2>15. IsTouch(o)'
      BY <1>2, <2>2 DEF IsTouch
    <2> HIDE DEF Explained
    <2> QED BY <2>3, <2>14, <2>15
  <1>4. ~raced'
    BY <1>1 DEF TouchInv
  <1> HIDE DEF IsTouch, Explained
  <1> QED BY <1>2, <1>3, <1>4 DEF TouchInv

-----------------------------------------------------------------------------
(* The rows a call may be given. *)
LEMMA InputsAreRows ==
  ASSUME NEW call, NEW shape, shape.rows \in Nat \ {0}, shape.cols \in Nat \ {0},
         NEW in \in Inputs(call, shape)
  PROVE  /\ DOMAIN in.rowData = 0..(shape.rows - 1)
         /\ \A b \in 0..(shape.rows - 1) : in.rowData[b] \in {"finite", "infinite", "nan"}
         /\ \A b \in 0..(shape.rows - 1) : in.targets[b] \in Int
  <1> DEFINE rows == 0..(shape.rows - 1)
             targets == [b \in rows |-> shape.cols - 1]
             data == [b \in rows |-> "finite"]
             plain == [targets |-> targets, rowData |-> data]
  <1>1. \/ in = plain
        \/ \E t \in {-1, 0, shape.cols} : in = [plain EXCEPT !.targets[0] = t]
        \/ \E d \in {"infinite", "nan"} : in = [plain EXCEPT !.rowData[0] = d]
    BY DEF Inputs
  <1>2. CASE in = plain
    BY <1>2
  <1>3. ASSUME NEW t \in {-1, 0, shape.cols}, in = [plain EXCEPT !.targets[0] = t]
        PROVE  /\ DOMAIN in.rowData = rows
               /\ \A b \in rows : in.rowData[b] \in {"finite", "infinite", "nan"}
               /\ \A b \in rows : in.targets[b] \in Int
    <2>1. in.rowData = data /\ in.targets = [targets EXCEPT ![0] = t]
      BY <1>3
    <2>2. \A b \in rows : in.targets[b] = t \/ in.targets[b] = shape.cols - 1
      BY <2>1
    <2>3. t \in Int /\ shape.cols - 1 \in Int
      OBVIOUS
    <2> QED BY <2>1, <2>2, <2>3
  <1>4. ASSUME NEW d \in {"infinite", "nan"}, in = [plain EXCEPT !.rowData[0] = d]
        PROVE  /\ DOMAIN in.rowData = rows
               /\ \A b \in rows : in.rowData[b] \in {"finite", "infinite", "nan"}
               /\ \A b \in rows : in.targets[b] \in Int
    <2>1. in.targets = targets /\ in.rowData = [data EXCEPT ![0] = d]
      BY <1>4
    <2> QED BY <2>1
  <1> QED BY <1>1, <1>2, <1>3, <1>4

(* A launch begins with a call of the backend. *)
LEMMA InitSetUp ==
  ASSUME Init
  PROVE  SetUp
  <1>6. PICK call \in Calls : \E shape \in call.shapes : \E in \in Inputs(call, shape) :
          calling = [call |-> call, shape |-> shape, targets |-> in.targets, rowData |-> in.rowData]
    BY DEF Init
  <1>7. PICK shape \in call.shapes : \E in \in Inputs(call, shape) :
          calling = [call |-> call, shape |-> shape, targets |-> in.targets, rowData |-> in.rowData]
    BY <1>6
  <1>1. PICK in \in Inputs(call, shape) :
          calling = [call |-> call, shape |-> shape, targets |-> in.targets, rowData |-> in.rowData]
    BY <1>7
  <1>2. /\ calling.call = call /\ calling.shape = shape
        /\ calling.targets = in.targets /\ calling.rowData = in.rowData
    BY <1>1
  <1>3. shape.rows \in Nat \ {0} /\ shape.cols \in Nat \ {0}
    BY PowersOfTwo
  <1>4. Blocks = 0..(shape.rows - 1)
    BY <1>2 DEF Blocks
  <1>5. /\ DOMAIN in.rowData = Blocks
        /\ \A b \in Blocks : in.rowData[b] \in {"finite", "infinite", "nan"}
        /\ \A b \in Blocks : in.targets[b] \in Int
    BY <1>3, <1>4, InputsAreRows
  <1> QED BY <1>2, <1>5 DEF SetUp

(* And with the types right. *)
LEMMA InitShapes ==
  ASSUME Init, SetUp
  PROVE  Shapes
  <1>1. Unlaunched /\ Len(Code) \in Nat
    BY CodeFacts DEF Init
  <1>2. pc \in [Blocks -> [Threads -> 1..(Len(Code) + 1)]]
    BY <1>1 DEF Unlaunched
  <1>3. Cols \subseteq 0..(calling.shape.cols + calling.shape.rows)
    BY CellsHold DEF Cells
  <1>4. /\ DOMAIN accum = Accumulators
        /\ \A a \in Accumulators : DOMAIN accum[a] = 0..(calling.shape.cols + calling.shape.rows)
    BY <1>1 DEF Unlaunched
  <1>5. DOMAIN mem = Blocks /\ \A b \in Blocks : DOMAIN mem[b] = Buffers
        /\ \A f \in Buffers : DOMAIN mem[b][f] = Cols
    BY <1>1 DEF Unlaunched
  <1>6. /\ \A a \in {"loss", "total"} : DOMAIN accum[a] = 0..(calling.shape.cols + calling.shape.rows)
        /\ \A a \in Accumulators : Cols \subseteq DOMAIN accum[a]
    BY <1>3, <1>4 DEF Accumulators
  <1>7. /\ DOMAIN stride = Blocks /\ \A b \in Blocks : DOMAIN stride[b] = Threads
        /\ DOMAIN scratch = Blocks /\ \A b \in Blocks : DOMAIN scratch[b] = Threads
        /\ DOMAIN grabbed = Blocks /\ DOMAIN sharedTarget = Blocks /\ DOMAIN touched = Blocks
    BY <1>1 DEF Unlaunched
  <1>8. /\ DOMAIN local = Blocks
        /\ \A b \in Blocks : DOMAIN local[b] = Threads /\ \A t \in Threads : DOMAIN local[b][t] = Reds
    BY <1>1 DEF Unlaunched
  <1>9. /\ DOMAIN result = Blocks
        /\ \A b \in Blocks : DOMAIN result[b] = Threads /\ \A t \in Threads : DOMAIN result[b][t] = Reds
    BY <1>1 DEF Unlaunched
  <1> QED BY <1>2, <1>4, <1>5, <1>6, <1>7, <1>8, <1>9 DEF Shapes

(* No thread has passed anything before a launch. *)
LEMMA NothingPast ==
  ASSUME SetUp, \A b \in Blocks, t \in Threads : pc[b][t] = 1
  PROVE  /\ \A b \in Blocks, t \in Threads : \A n \in DOMAIN Code : ~Past(b, t, n)
         /\ \A b \in Blocks, t \in Threads : ~Poisoned(b, t)
  <1>1. DOMAIN Code = 1..Len(Code) /\ Len(Code) \in Nat /\ Len(Code) > 4
    BY CodeFacts
  <1> QED BY <1>1 DEF Past, Poisoned

(* The invariant holds before a launch. *)
LEMMA InitInv ==
  ASSUME Init
  PROVE  IInv
  <1>1. SetUp /\ Shapes
    BY InitSetUp, InitShapes
  <1>2. Unlaunched /\ host = "clear"
    BY DEF Init
  <1>3. \A b \in Blocks, t \in Threads : pc[b][t] = 1
    BY <1>2 DEF Unlaunched
  <1>4. /\ \A b \in Blocks, t \in Threads : \A n \in DOMAIN Code : ~Past(b, t, n)
        /\ \A b \in Blocks, t \in Threads : ~Poisoned(b, t)
    BY <1>1, <1>3, NothingPast
  <1>5. 0 \in Threads /\ \A c \in Cols : c % BlockDim \in Threads
    BY <1>1, CallFacts, OwnerOf
  <1>6. HostInv
    BY <1>2, <1>3 DEF HostInv
  <1>7. PathInv
    <2>1. ~Is(1, "poison")
      BY <1>1, PoisonCode, CodeFacts
    <2>2. \A b : Reaches(b, 1)
      BY DEF Reaches
    <2> QED BY <1>3, <2>1, <2>2 DEF PathInv
  <1> HIDE DEF Past, Poisoned
  <1>8. Together /\ LocalInv
    BY <1>4 DEF Together, LocalInv
  <1>9. TargetInv
    <2>1. Is(1, "target") => 1 \in DOMAIN Code
      BY DEF Is
    <2> QED BY <1>4, <1>5, <2>1 DEF TargetInv
  <1>10. MemInv
    <2>1. ASSUME NEW b \in Blocks, NEW f \in Buffers, NEW c \in Cols PROVE CellInv(b, f, c)
      <3>1. mem[b][f][c] = IF f = "out" THEN "old" ELSE "in"
        BY <1>2 DEF Unlaunched
      <3>2. /\ \A n \in DOMAIN Code : ~Past(b, c % BlockDim, n)
            /\ ~Poisoned(b, c % BlockDim)
        BY <1>4, <1>5
      <3> QED BY <3>1, <3>2 DEF CellInv, PoisonWritten
    <2> QED BY <2>1 DEF MemInv
  <1>11. ScratchInv
    <2>1. ASSUME NEW b \in Blocks, NEW t \in Threads, NEW n \in DOMAIN Code PROVE TreeInv(b, t, n)
      <3>1. n \in Nat /\ n > 0 /\ pc[b][t] = 1
        BY <1>1, <1>3, CodeFacts
      <3>2. pc[b][t] # n + 1 /\ pc[b][t] # n + 2 /\ pc[b][t] # n + 3 /\ pc[b][t] # n + 4
        BY <3>1
      <3> QED BY <3>2 DEF TreeInv
    <2> HIDE DEF TreeInv
    <2> QED BY <2>1 DEF ScratchInv
  <1>12. ResultInv
    <2>1. ASSUME NEW b \in Blocks, NEW t \in Threads, NEW r \in Reds PROVE ReadInv(b, t, r)
      <3>1. result[b][t][r] = Nothing
        BY <1>2 DEF Unlaunched
      <3> QED BY <1>4, <3>1 DEF ReadInv
    <2> QED BY <2>1 DEF ResultInv
  <1>13. AccumInv
    BY <1>2 DEF AccumInv
  <1>14. TouchInv
    BY <1>2 DEF TouchInv, Unlaunched
  <1> QED BY <1>1, <1>6, <1>7, <1>8, <1>9, <1>10, <1>11, <1>12, <1>13, <1>14 DEF IInv

(* The host touches nothing of the kernel but its accumulators. *)
Unmoved ==
  UNCHANGED <<calling, pc, stride, local, result, grabbed, scratch, sharedTarget, mem, touched, raced>>

(* While no thread moves, none passes anything. *)
LEMMA UnmovedPast ==
  ASSUME Unmoved
  PROVE  /\ \A b, t, n : Past(b, t, n)' <=> Past(b, t, n)
         /\ \A b, t : Poisoned(b, t)' <=> Poisoned(b, t)
         /\ \A b, t, n : Since(b, t, n)' <=> Since(b, t, n)
  <1>1. calling' = calling /\ pc' = pc
    BY DEF Unmoved
  <1>2. /\ Code' = Code
        /\ \A n, op : Is(n, op)' <=> Is(n, op)
        /\ \A n : Barrier(n)' <=> Barrier(n)
        /\ \A b, n : Reaches(b, n)' <=> Reaches(b, n)
    BY <1>1, SameCall
  <1> HIDE DEF Is, Barrier, Reaches
  <1>3. \A b, t, n : Past(b, t, n)' <=> Past(b, t, n)
    BY <1>1, <1>2 DEF Past
  <1>4. \A b, t : Poisoned(b, t)' <=> Poisoned(b, t)
    BY <1>1, <1>2 DEF Poisoned
  <1> HIDE DEF Past
  <1>5. \A b, t, n : Since(b, t, n)' <=> Since(b, t, n)
    BY <1>2, <1>3 DEF Since
  <1> QED BY <1>3, <1>4, <1>5

(* The host's steps keep all that is said of the threads. *)
LEMMA UnmovedInv ==
  ASSUME Unmoved, SetUp, PathInv, Together, TargetInv, MemInv, LocalInv, ScratchInv, ResultInv, TouchInv
  PROVE  /\ SetUp' /\ PathInv' /\ Together' /\ TargetInv' /\ MemInv' /\ LocalInv'
         /\ ScratchInv' /\ ResultInv' /\ TouchInv'
  <1>1. /\ calling' = calling /\ pc' = pc /\ stride' = stride /\ local' = local /\ result' = result
        /\ grabbed' = grabbed /\ scratch' = scratch /\ sharedTarget' = sharedTarget /\ mem' = mem
        /\ touched' = touched /\ raced' = raced
    BY DEF Unmoved
  <1>2. /\ Code' = Code /\ Blocks' = Blocks /\ Threads' = Threads /\ Cols' = Cols
        /\ BlockDim' = BlockDim /\ LoopExtent' = LoopExtent
        /\ \A n, op : Is(n, op)' <=> Is(n, op)
        /\ \A n : Barrier(n)' <=> Barrier(n)
        /\ \A b, n : Reaches(b, n)' <=> Reaches(b, n)
        /\ \A e, b : Extent(e, b)' = Extent(e, b)
        /\ \A b, t, m : Share(b, t, m)' = Share(b, t, m)
        /\ \A f : At(f)' = At(f)
        /\ SetUp'
    BY <1>1, SameCall
  <1>3. /\ \A b, t, n : Past(b, t, n)' <=> Past(b, t, n)
        /\ \A b, t : Poisoned(b, t)' <=> Poisoned(b, t)
        /\ \A b, t, n : Since(b, t, n)' <=> Since(b, t, n)
    BY UnmovedPast
  <1> HIDE DEF Is, Barrier, Reaches, Past, Poisoned, Since, Extent, Share, At
  <1>4. PathInv'
    BY <1>1, <1>2 DEF PathInv
  <1>5. Together'
    BY <1>2, <1>3 DEF Together
  <1>6. TargetInv'
    BY <1>1, <1>2, <1>3 DEF TargetInv
  <1>7. MemInv'
    <2>1. ASSUME NEW b \in Blocks, NEW f \in Buffers, NEW c \in Cols PROVE CellInv(b, f, c)'
      <3>1. CellInv(b, f, c)
        BY DEF MemInv
      <3>2. \A n : Past(b, c % BlockDim, n)' <=> Past(b, c % BlockDim, n)
        <4>1. (c % BlockDim)' = c % BlockDim
          BY <1>2
        <4> QED BY <1>1, <1>2 DEF Past
      <3>3. PoisonWritten(b, c % BlockDim, f)' <=> PoisonWritten(b, c % BlockDim, f)
        BY <1>1, <1>2 DEF PoisonWritten, Poisoned
      <3> QED BY <1>1, <3>1, <3>2, <3>3, CellKept
    <2> HIDE DEF CellInv
    <2> QED BY <1>2, <2>1 DEF MemInv
  <1>8. LocalInv'
    <2>1. \A r, b, t : Whole(r, Share(b, t, BlockDim))' = Whole(r, Share(b, t, BlockDim))
      BY <1>1, <1>2 DEF Whole, Terms, Share, Extent
    <2> HIDE DEF Whole
    <2> QED BY <1>1, <1>2, <1>3, <2>1 DEF LocalInv
  <1>9. ScratchInv'
    <2>1. ASSUME NEW b \in Blocks, NEW t \in Threads, NEW n, Is(n, "put"), n \in DOMAIN Code
          PROVE  TreeInv(b, t, n)'
      <3>1. TreeInv(b, t, n)
        BY <2>1 DEF ScratchInv
      <3> QED BY <1>1, <3>1, TreeKept
    <2> HIDE DEF TreeInv
    <2> QED BY <1>2, <2>1 DEF ScratchInv
  <1>10. ResultInv'
    <2>1. ASSUME NEW b \in Blocks, NEW t \in Threads, NEW r \in Reds PROVE ReadInv(b, t, r)'
      <3>1. ReadInv(b, t, r)
        BY DEF ResultInv
      <3> QED BY <1>1, <1>3, <3>1, ReadKept
    <2> HIDE DEF ReadInv
    <2> QED BY <1>2, <2>1 DEF ResultInv
  <1>11. TouchInv'
    <2>1. ASSUME NEW b \in Blocks, NEW o \in touched[b] PROVE (IsTouch(o) /\ Explained(b, o, o.how[1]))'
      <3>1. IsTouch(o) /\ Explained(b, o, o.how[1])
        BY DEF TouchInv
      <3>2. PICK u : u = o.how[1]
        OBVIOUS
      <3>3. /\ TouchedTarget(b, o, u)' <=> TouchedTarget(b, o, u)
            /\ TouchedByPut(b, o, u)' <=> TouchedByPut(b, o, u)
            /\ TouchedByFold(b, o, u)' <=> TouchedByFold(b, o, u)
            /\ TouchedByGet(b, o, u)' <=> TouchedByGet(b, o, u)
            /\ TouchedByGrab(b, o, u)' <=> TouchedByGrab(b, o, u)
        BY <1>1, <1>2, <1>3 DEF TouchedTarget, TouchedByPut, TouchedByFold, TouchedByGet, TouchedByGrab
      <3>4. TouchedOwn(b, o, u)' <=> TouchedOwn(b, o, u)
        BY <1>1, <1>2, <1>3 DEF TouchedOwn, Overwritten
      <3>5. Explained(b, o, u)'
        BY <3>1, <3>2, <3>3, <3>4 DEF Explained
      <3>6. IsTouch(o)'
        BY <1>2, <3>1 DEF IsTouch
      <3> HIDE DEF Explained
      <3> QED BY <3>2, <3>5, <3>6
    <2> HIDE DEF IsTouch, Explained
    <2> QED BY <1>1, <1>2, <2>1 DEF TouchInv
  <1> QED BY <1>2, <1>4, <1>5, <1>6, <1>7, <1>8, <1>9, <1>10, <1>11

(* Clearing the accumulators keeps the invariant. *)
LEMMA ClearInv ==
  ASSUME IInv, ClearAccumulators
  PROVE  IInv'
  <1>1. /\ Unmoved /\ host = "clear" /\ host' = "wait" /\ calling' = calling /\ pc' = pc
        /\ accum' = [a \in Accumulators |->
                 IF a \in calling.call.clears
                 THEN [c \in Cells |-> Empty("sum")]
                 ELSE accum[a]]
    BY DEF ClearAccumulators, Unmoved, Cells
  <1>2. /\ SetUp' /\ PathInv' /\ Together' /\ TargetInv' /\ MemInv' /\ LocalInv'
        /\ ScratchInv' /\ ResultInv' /\ TouchInv'
    BY <1>1, UnmovedInv DEF IInv
  <1>3. HostInv'
    BY <1>1 DEF HostInv
  <1>4. /\ Code' = Code /\ Blocks' = Blocks /\ Threads' = Threads /\ Cols' = Cols /\ Cells' = Cells
        /\ \A n, op : Is(n, op)' <=> Is(n, op)
    BY <1>1, SameCall DEF Cells
  <1>5. SetUp /\ Shapes /\ (\A b \in Blocks, t \in Threads : pc[b][t] = 1) /\ 0 \in Cells /\ Cols \subseteq Cells
        /\ 0 \in Threads /\ \A c \in Cols : c % BlockDim \in Threads
    BY <1>1, CellsHold, CallFacts, OwnerOf DEF IInv, HostInv
  <1>6. Shapes'
    <2>1. /\ DOMAIN accum' = Accumulators
          /\ \A a \in {"loss", "total"} : DOMAIN accum'[a] = Cells
          /\ \A a \in Accumulators : Cols \subseteq DOMAIN accum'[a]
      BY <1>1, <1>5 DEF Shapes, Accumulators, Cells
    <2>2. /\ pc' = pc /\ stride' = stride /\ local' = local /\ result' = result
          /\ grabbed' = grabbed /\ scratch' = scratch /\ sharedTarget' = sharedTarget /\ mem' = mem
          /\ touched' = touched
      BY <1>1 DEF Unmoved
    <2> HIDE DEF Cells
    <2>3. Cells' = Cells /\ Cells = 0..(calling.shape.cols + calling.shape.rows)
      BY <1>4 DEF Cells
    <2>4. \A a \in {"loss", "total"} : DOMAIN accum'[a] = (0..(calling.shape.cols + calling.shape.rows))'
      BY <1>1, <2>1, <2>3
    <2> QED BY <1>4, <1>5, <2>1, <2>2, <2>4 DEF Shapes
  <1>7. /\ \A b \in Blocks, t \in Threads : \A n \in DOMAIN Code : ~Past(b, t, n)
        /\ \A b \in Blocks, t \in Threads : ~Poisoned(b, t)
    BY <1>5, NothingPast
  <1>8. /\ \A b, t, n : Past(b, t, n)' <=> Past(b, t, n)
        /\ \A b, t : Poisoned(b, t)' <=> Poisoned(b, t)
    BY <1>1, UnmovedPast
  <1>9. AccumInv'
    <2> HIDE DEF Past, Poisoned, Is
    <2>0. Cardinality({}) = 0
      BY FS_EmptySet
    <2>1. LossRows' = {} /\ TotalRows' = {}
      BY <1>4, <1>5, <1>7, <1>8 DEF LossRows, TotalRows
    <2>2. \A c \in Cols : AddedRows(c)' = {}
      <3>1. ASSUME NEW c \in Cols, NEW b \in AddedRows(c)' PROVE FALSE
        <4>1. PICK n \in DOMAIN Code : Past(b, c % BlockDim, n)' /\ b \in Blocks
          BY <1>4, <3>1 DEF AddedRows
        <4>2. (c % BlockDim)' = c % BlockDim /\ c % BlockDim \in Threads
          BY <1>1, <1>5, SameCall
        <4>3. Past(b, c % BlockDim, n)
          BY <1>1, <1>4, <4>1, <4>2 DEF Past, Reaches, Fails, Is
        <4> QED BY <1>7, <4>1, <4>2, <4>3
      <3> QED BY <3>1
    <2>3. TotalCols' = {}
      BY <2>1 DEF TotalCols
    <2>4. ASSUME "loss" \in calling.call.clears PROVE LossHeld'
      <3>1. accum'["loss"][0] = Empty("sum")
        BY <1>1, <1>5, <2>4 DEF Accumulators
      <3>2. Verdicts(LossRows)' = {}
        BY <2>1 DEF Verdicts
      <3> HIDE DEF Verdicts
      <3> QED BY <2>0, <3>1, <3>2 DEF LossHeld, Holds, Empty
    <2>5. ASSUME "dgamma" \in calling.call.clears, NEW a \in {"dgamma", "dbeta"}, NEW c \in Cols
          PROVE  GradientHeld(a, c)'
      <3>1. calling.call.clears = {"dgamma", "dbeta"}
        BY <1>5, <2>5, CodeFacts DEF Totals
      <3>2. a \in Accumulators /\ a \in calling.call.clears /\ c \in Cells
        BY <1>5, <3>1 DEF Accumulators
      <3>3. accum'[a][c] = Empty("sum")
        BY <1>1, <3>2
      <3>4. AddedRows(c)' = {}
        BY <2>2
      <3> HIDE DEF AddedRows
      <3> QED BY <2>0, <3>3, <3>4 DEF GradientHeld, Holds, Empty
    <2>6. ASSUME "total" \in calling.call.clears PROVE TotalHeld'
      <3>1. accum'["total"][0] = Empty("sum")
        BY <1>1, <1>5, <2>6 DEF Accumulators
      <3>2. Terms(TotalCols)' = {}
        BY <2>3 DEF Terms
      <3> HIDE DEF Terms, TotalCols
      <3> QED BY <2>0, <3>1, <3>2 DEF TotalHeld, Holds, Empty
    <2>7. \A n \in DOMAIN Code, b \in Blocks : ~Past(b, 0, n)'
      BY <1>5, <1>7, <1>8
    <2> HIDE DEF LossHeld, GradientHeld, TotalHeld, SumHeld
    <2> QED BY <1>1, <1>4, <2>4, <2>5, <2>6, <2>7 DEF AccumInv
  <1> QED BY <1>2, <1>3, <1>6, <1>9 DEF IInv

(* So does reading back. *)
LEMMA ReadBackInv ==
  ASSUME IInv, ReadBack
  PROVE  IInv'
  <1>1. /\ Unmoved /\ host = "wait" /\ GridDone /\ host' = "done" /\ calling' = calling /\ pc' = pc
        /\ accum' = accum
    BY DEF ReadBack, Unmoved
  <1>2. /\ SetUp' /\ PathInv' /\ Together' /\ TargetInv' /\ MemInv' /\ LocalInv'
        /\ ScratchInv' /\ ResultInv' /\ TouchInv'
    BY <1>1, UnmovedInv DEF IInv
  <1>3. HostInv'
    <2>1. GridDone'
      BY <1>1, SameCall DEF GridDone, Ended
    <2> QED BY <1>1, <2>1 DEF HostInv
  <1>4. Shapes'
    <2>1. /\ Blocks' = Blocks /\ Threads' = Threads /\ Cols' = Cols /\ Code' = Code
      BY <1>1, SameCall
    <2>2. /\ pc' = pc /\ stride' = stride /\ local' = local /\ result' = result
          /\ grabbed' = grabbed /\ scratch' = scratch /\ sharedTarget' = sharedTarget /\ mem' = mem
          /\ touched' = touched
      BY <1>1 DEF Unmoved
    <2> QED BY <1>1, <2>1, <2>2 DEF IInv, Shapes
  <1>6. /\ \A b, t, n : Past(b, t, n)' <=> Past(b, t, n)
        /\ \A b, t : Poisoned(b, t)' <=> Poisoned(b, t)
    BY <1>1, UnmovedPast
  <1>7. AccumInv'
    <2>1. SamePast /\ SamePoison
      BY <1>6 DEF SamePast, SamePoison
    <2> QED BY <1>1, <2>1, AccumKept DEF IInv
  <1> QED BY <1>2, <1>3, <1>4, <1>7 DEF IInv

(* So does a barrier. *)
LEMMA BarrierInv ==
  ASSUME IInv, NEW b \in Blocks, SyncThreads(b)
  PROVE  IInv'
  <1>1. host = "wait" /\ host' = "wait" /\ calling' = calling
    BY DEF SyncThreads
  <1>2. Barriered(b)
    BY SyncMoves DEF IInv
  <1>3. HostInv'
    BY <1>1 DEF HostInv
  <1>4. SetUp'
    BY <1>1, SameCall DEF IInv
  <1> QED BY <1>2, <1>3, <1>4, SyncShapes, BarrierFacts, BarrierTogether, BarrierTarget, BarrierMem,
             BarrierLocal, BarrierScratch, BarrierResult, BarrierAccum, BarrierTouch DEF IInv

(* So does a step of a thread. *)
LEMMA ThreadInv ==
  ASSUME IInv, NEW b \in Blocks, NEW t \in Threads, ThreadStep(b, t)
  PROVE  IInv'
  <1>1. host = "wait" /\ host' = "wait" /\ calling' = calling
    BY DEF ThreadStep
  <1>2. ThreadMoves(b, t)
    BY ThreadStepMoves DEF IInv
  <1>3. HostInv'
    BY <1>1 DEF HostInv
  <1>4. SetUp'
    BY <1>1, SameCall DEF IInv
  <1> QED BY <1>2, <1>3, <1>4, ThreadStepShapes, MoveFacts, MoveTogether, ThreadStepTarget, ThreadStepMem,
             ThreadStepLocal, ThreadStepScratch, ThreadStepResult, ThreadStepAccum, ThreadStepTouch DEF IInv

(* So does no step. *)
LEMMA StutterInv ==
  ASSUME IInv, UNCHANGED vars
  PROVE  IInv'
  <1>1. Unmoved /\ host' = host /\ accum' = accum
    BY DEF vars, Unmoved
  <1>2. /\ SetUp' /\ PathInv' /\ Together' /\ TargetInv' /\ MemInv' /\ LocalInv'
        /\ ScratchInv' /\ ResultInv' /\ TouchInv'
    BY <1>1, UnmovedInv DEF IInv
  <1>3. /\ Blocks' = Blocks /\ Threads' = Threads /\ Cols' = Cols /\ Code' = Code
        /\ calling' = calling /\ pc' = pc
    BY <1>1, SameCall DEF Unmoved
  <1>4. HostInv'
    BY <1>1, <1>3 DEF IInv, HostInv, GridDone, Ended
  <1>5. Shapes'
    <2>1. /\ stride' = stride /\ local' = local /\ result' = result
          /\ grabbed' = grabbed /\ scratch' = scratch /\ sharedTarget' = sharedTarget /\ mem' = mem
          /\ touched' = touched
      BY <1>1 DEF Unmoved
    <2> QED BY <1>1, <1>3, <2>1 DEF IInv, Shapes
  <1>6. AccumInv'
    <2>1. CASE host = "clear"
      BY <1>1, <2>1 DEF AccumInv
    <2>2. CASE host # "clear"
      <3>1. SamePast /\ SamePoison
        BY <1>1, UnmovedPast DEF SamePast, SamePoison
      <3> QED BY <1>1, <1>3, <2>2, <3>1, AccumKept DEF IInv
    <2> QED BY <2>1, <2>2
  <1> QED BY <1>2, <1>4, <1>5, <1>6 DEF IInv

(* So does every step. *)
LEMMA NextInv ==
  ASSUME IInv, [Next]_vars
  PROVE  IInv'
  <1>1. CASE ClearAccumulators
    BY <1>1, ClearInv
  <1>2. CASE ReadBack
    BY <1>2, ReadBackInv
  <1>3. ASSUME NEW b \in Blocks, SyncThreads(b) \/ \E t \in Threads : ThreadStep(b, t)
        PROVE  IInv'
    <2>1. CASE SyncThreads(b)
      BY <2>1, BarrierInv
    <2>2. ASSUME NEW t \in Threads, ThreadStep(b, t) PROVE IInv'
      BY <2>2, ThreadInv
    <2> QED BY <1>3, <2>1, <2>2
  <1>4. CASE UNCHANGED vars
    BY <1>4, StutterInv
  <1> QED BY <1>1, <1>2, <1>3, <1>4 DEF Next

(* The inductive invariant holds in every reachable state. *)
LEMMA Invariant == Spec => []IInv
  <1>1. Init => IInv
    BY InitInv
  <1>2. IInv /\ [Next]_vars => IInv'
    BY NextInv
  <1> QED BY <1>1, <1>2, PTL DEF Spec

(* A reduction that is read is whole. *)
LEMMA WholeReductions ==
  ASSUME SetUp, ResultInv
  PROVE  ReductionsAreWhole
  <1>1. ASSUME NEW b \in Blocks, NEW t \in Threads, NEW r \in Reds, result[b][t][r] # Nothing,
               NEW i, i = CHOOSE n \in DOMAIN Code : Code[n].op = "loop" /\ r \in Code[n].reds
        PROVE  result[b][t][r] = Whole(r, Extent(Code[i].extent, b))
    <2>1. ReadInv(b, t, r)
      BY DEF ResultInv
    <2>2. PICK n \in DOMAIN Code : Is(n, "get") /\ Code[n].red = r
      BY <1>1, <2>1 DEF ReadInv
    <2>3. Is(n - 4, "put") /\ n \in Nat
      BY <2>2, ReductionOf
    <2>4. Code[n - 4].red = r
      <3>1. Code[(n - 4) + 4].red = Code[n - 4].red
        BY <2>3, ReductionCode
      <3>2. (n - 4) + 4 = n
        BY <2>3
      <3> QED BY <2>2, <3>1, <3>2
    <2>5. \E m \in DOMAIN Code : Code[m].op = "loop" /\ r \in Code[m].reds
      BY <2>3, <2>4, LoopOfPut DEF Is
    <2>6. Is(i, "loop")
      BY <1>1, <2>5 DEF Is
    <2>7. LoopExtent = Code[i].extent
      BY <2>6, LoopExtentIs
    <2> QED BY <1>1, <2>1, <2>7 DEF ReadInv
  <1> DEFINE i(r) == CHOOSE n \in DOMAIN Code : Code[n].op = "loop" /\ r \in Code[n].reds
             cols(b, r) == Extent(Code[i(r)].extent, b)
  <1>2. \A b \in Blocks, t \in Threads, r \in Reds :
          result[b][t][r] # Nothing => result[b][t][r] = Whole(r, cols(b, r))
    BY <1>1
  <1>3. ReductionsAreWhole <=>
          \A b \in Blocks, t \in Threads, r \in Reds :
            result[b][t][r] # Nothing =>
              result[b][t][r] = [red |-> r, n |-> Cardinality(cols(b, r)),
                                 of |-> {<<c, "in">> : c \in cols(b, r)}]
    BY Zenon DEF ReductionsAreWhole
  <1>4. \A b, r : Whole(r, cols(b, r)) = [red |-> r, n |-> Cardinality(cols(b, r)),
                                          of |-> {<<c, "in">> : c \in cols(b, r)}]
    BY DEF Whole, Terms
  <1> HIDE DEF cols
  <1> QED BY <1>2, <1>3, <1>4

-----------------------------------------------------------------------------
(* When the host reads back, a thread has passed the whole kernel or       *)
(* poisoned its part of the row.                                           *)
LEMMA Ending ==
  ASSUME SetUp, Shapes, HostInv, PathInv, host = "done", NEW b \in Blocks, NEW t \in Threads
  PROVE  \/ Poisoned(b, t)
         \/ Reaches(b, Len(Code) + 1) /\ \A n \in DOMAIN Code : Past(b, t, n)
  <1>1. DOMAIN Code = 1..Len(Code) /\ Len(Code) \in Nat
    BY CodeFacts
  <1>2. pc[b][t] \in 1..(Len(Code) + 1) /\ pc[b][t] > Len(Code)
    BY DEF Shapes, HostInv, GridDone, Ended
  <1>3. pc[b][t] = Len(Code) + 1
    BY <1>1, <1>2
  <1>4. CASE Reaches(b, pc[b][t])
    <2>1. Reaches(b, Len(Code) + 1)
      BY <1>3, <1>4
    <2>2. ASSUME NEW n \in DOMAIN Code PROVE Past(b, t, n)
      <3>1. n \in Nat /\ n <= Len(Code) + 1 /\ n < Len(Code) + 1
        BY <1>1
      <3>2. Reaches(b, n)
        BY <1>1, <2>1, <3>1, ReachesBefore
      <3> QED BY <1>3, <3>1, <3>2 DEF Past
    <2> QED BY <2>1, <2>2
  <1>5. CASE Is(Len(Code), "poison") /\ ~Reaches(b, Len(Code))
    BY <1>3, <1>5 DEF Poisoned
  <1> QED BY <1>4, <1>5 DEF PathInv

(* Only a bad row is poisoned. *)
LEMMA PoisonedIsBad ==
  ASSUME SetUp, NEW b, NEW t, Poisoned(b, t)
  PROVE  Bad(b) /\ Is(1, "target")
  <1>1. Is(Len(Code), "poison") /\ ~Reaches(b, Len(Code)) /\ Len(Code) \in Nat
    BY CodeFacts DEF Poisoned
  <1>2. PICK m \in 1..(Len(Code) - 1) : Fails(b, m)
    BY <1>1, FirstFailure
  <1> QED BY <1>1, <1>2, PoisonCode DEF Fails, Bad, BadRow

(* A row whose threads come through a kernel with a map is good. *)
LEMMA EndedIsGood ==
  ASSUME SetUp, NEW b \in Blocks, Reaches(b, Len(Code) + 1), Is(1, "target"), NEW n, Is(n, "map")
  PROVE  ~Bad(b) /\ Code[Len(Code)].out # {}
  <1>1. DOMAIN Code = 1..Len(Code) /\ Len(Code) \in Nat /\ Losses(Code, calling.call.act)
    BY CodeFacts
  <1>2. Code[1].op = "target" /\ n \in DOMAIN Code /\ Code[n].op = "map"
    BY DEF Is
  <1>3. Code[Len(Code)].out # {}
    BY <1>1, <1>2 DEF Losses
  <1>4. /\ \E k \in DOMAIN Code : Code[k].op = "check_max"
        /\ \E k \in DOMAIN Code : Code[k].op = "check_sum"
    BY <1>1, <1>2, <1>3 DEF Losses
  <1>5. \A k \in DOMAIN Code : ~Fails(b, k)
    BY <1>1 DEF Reaches
  <1>6. calling.targets[b] \in Cols
    BY <1>5, TargetCode DEF Fails, Is
  <1>7. calling.rowData[b] # "infinite" /\ calling.rowData[b] # "nan"
    BY <1>4, <1>5 DEF Fails, Is
  <1>8. calling.rowData[b] = "finite"
    BY <1>7 DEF SetUp
  <1> QED BY <1>3, <1>6, <1>8 DEF Bad, BadRow

(* What is poisoned is what the map would write. *)
LEMMA PoisonErases ==
  ASSUME SetUp, Is(1, "target"), NEW n, Is(n, "map")
  PROVE  Code[Len(Code)].out # {} /\ At(Code[n].out) = "x"
  <1>1. Losses(Code, calling.call.act) /\ Code[1].op = "target" /\ n \in DOMAIN Code /\ Code[n].op = "map"
    BY CodeFacts DEF Is
  <1>2. Code[Len(Code)].out # {}
    BY <1>1 DEF Losses
  <1>3. Code[n].out = "x"
    BY MapCode
  <1> QED BY <1>2, <1>3 DEF At

(* The output a launch leaves is complete. *)
LEMMA CompleteOutput ==
  ASSUME SetUp, Shapes, HostInv, PathInv, MemInv
  PROVE  OutputIsComplete
  <1>1. ASSUME host = "done", NEW n, Is(n, "map"), NEW b \in Blocks, NEW c \in Cols
        PROVE  mem[b][At(Code[n].out)][c] =
                 IF "loss" \in calling.call.clears /\ Bad(b) THEN "nan" ELSE Mapped(n, c, b)
    <2> DEFINE t == c % BlockDim
               f == At(Code[n].out)
    <2>1. t \in Threads
      BY OwnerOf
    <2>2. n \in DOMAIN Code /\ f \in Buffers
      BY <1>1, MapCode DEF IsMap, At, Buffers
    <2>3. CellInv(b, f, c)
      BY <2>2 DEF MemInv
    <2>4. "loss" \in calling.call.clears <=> Is(1, "target")
      BY ClearsOfCode
    <2> HIDE DEF f
    <2>5. CASE Poisoned(b, t)
      <3>1. Bad(b) /\ Is(1, "target")
        BY <2>1, <2>5, PoisonedIsBad
      <3>2. Code[Len(Code)].out # {} /\ f = "x"
        BY <1>1, <3>1, PoisonErases DEF f
      <3>3. PoisonWritten(b, t, f)
        BY <2>5, <3>2 DEF PoisonWritten
      <3>4. mem[b][f][c] = "nan"
        BY <2>3, <3>3 DEF CellInv
      <3> QED BY <2>4, <3>1, <3>4 DEF f
    <2>6. CASE Reaches(b, Len(Code) + 1) /\ \A k \in DOMAIN Code : Past(b, t, k)
      <3>1. ~("loss" \in calling.call.clears /\ Bad(b))
        BY <1>1, <2>4, <2>6, EndedIsGood
      <3>2. Past(b, t, n)
        BY <2>2, <2>6
      <3>3. mem[b][f][c] = Mapped(n, c, b)
        BY <1>1, <2>2, <2>3, <3>2 DEF CellInv, f
      <3> QED BY <3>1, <3>3 DEF f
    <2> QED BY <1>1, <2>1, <2>5, <2>6, Ending
  <1>2. ASSUME \E n \in DOMAIN Code : Code[n].op = "map" PROVE Is(LastMap, "map")
    BY <1>2 DEF LastMap, Is
  <1> QED BY <1>1, <1>2 DEF OutputIsComplete, Mapped

(* So is what the grid adds up. *)
LEMMA WholeTotals ==
  ASSUME SetUp, Shapes, HostInv, PathInv, AccumInv
  PROVE  GridTotals
  <1> SUFFICES ASSUME host = "done" PROVE GridTotals
    BY DEF GridTotals
  <1>0. 0 \in Threads /\ host # "clear"
    BY CallFacts
  <1>1. ASSUME NEW b \in Blocks, NEW t \in Threads, NEW n, Is(n, "add_loss")
        PROVE  Poisoned(b, t) \/ Past(b, t, n)
    BY <1>1, Ending DEF Is
  <1>2. ASSUME ~Is(1, "target"), NEW b \in Blocks, NEW t \in Threads, NEW n \in DOMAIN Code
        PROVE  Past(b, t, n)
    BY <1>2, Ending, PoisonedIsBad
  <1> HIDE DEF Past, Poisoned
  <1>3. ASSUME "loss" \in calling.call.clears
        PROVE  Holds(accum["loss"][0], {<<b, IF Bad(b) THEN "nan" ELSE "in">> : b \in Blocks})
    <2>1. Is(1, "target")
      BY <1>3, ClearsOfCode
    <2>2. PICK n \in DOMAIN Code : Is(n, "add_loss")
      BY <2>1, CodeFacts DEF Losses, Is
    <2>3. LossRows = Blocks
      BY <1>0, <1>1, <2>2 DEF LossRows
    <2>4. LossHeld
      BY <1>0, <1>3 DEF AccumInv
    <2>5. Holds(accum["loss"][0], Verdicts(Blocks))
      BY <2>3, <2>4 DEF LossHeld
    <2> QED BY <2>5 DEF Verdicts, Verdict
  <1>4. ASSUME "dgamma" \in calling.call.clears, NEW a \in {"dgamma", "dbeta"}, NEW c \in Cols
        PROVE  Holds(accum[a][c], Blocks)
    <2>1. ~Is(1, "target")
      <3>1. calling.call.clears # {"loss"}
        BY <1>4
      <3> QED BY <3>1, CodeFacts DEF Totals, Is
    <2>2. PICK n : Is(n, "loop") /\ Code[n].adds # {}
      BY <1>4, ClearsOfCode
    <2>3. n \in DOMAIN Code /\ c % BlockDim \in Threads
      BY <2>2, OwnerOf DEF Is
    <2>4. AddedRows(c) = Blocks
      BY <1>2, <2>1, <2>2, <2>3 DEF AddedRows
    <2>5. GradientHeld(a, c)
      BY <1>0, <1>4 DEF AccumInv
    <2> QED BY <2>4, <2>5 DEF GradientHeld
  <1>5. ASSUME "total" \in calling.call.clears
        PROVE  Holds(accum["total"][0], {<<c, "in">> : c \in Cols})
    <2>1. PICK n : Is(n, "add_total")
      BY <1>5, ClearsOfCode
    <2>2. ~Is(1, "target") /\ n \in DOMAIN Code
      BY <2>1, TotalCode
    <2>3. TotalRows = Blocks
      BY <1>0, <1>2, <2>1, <2>2 DEF TotalRows
    <2>4. TotalCols = Cols
      <3>1. ASSUME NEW c \in Cols PROVE (c \div BlockDim) % calling.shape.rows \in Blocks
        <4>1. c \in Nat /\ BlockDim \in Nat /\ BlockDim > 0 /\ calling.shape.rows \in Nat \ {0}
          BY CallFacts
        <4>2. PICK q : q = c \div BlockDim
          OBVIOUS
        <4>3. q \in Nat
          BY <4>1, <4>2
        <4>4. q % calling.shape.rows \in 0..(calling.shape.rows - 1)
          BY <4>1, <4>3
        <4> QED BY <4>2, <4>4 DEF Blocks
      <3> QED BY <2>3, <3>1 DEF TotalCols
    <2>5. TotalHeld
      BY <1>0, <1>5 DEF AccumInv
    <2> QED BY <2>4, <2>5 DEF TotalHeld, Terms
  <1>6. ASSUME NEW n \in DOMAIN Code, Code[n].op = "put_total", NEW b \in Blocks
        PROVE  Holds(accum["total"][b], {<<c, "in">> : c \in Cols})
    <2>1. Is(n, "put_total")
      BY <1>6 DEF Is
    <2>2. Past(b, 0, n)
      BY <1>0, <1>2, <2>1, TotalCode
    <2>3. SumHeld(b)
      BY <1>0, <2>1, <2>2 DEF AccumInv
    <2> QED BY <2>3 DEF SumHeld, Terms
  <1> QED BY <1>3, <1>4, <1>5, <1>6 DEF GridTotals

(* A launch of any kernel, in any order of its threads, leaves whole       *)
(* results: every reduction a thread reads has each column once, every     *)
(* column of the output its value, every accumulator each row once.        *)
THEOREM LaunchesLeaveWholeResults == Spec => []ResultsAreWhole
  <1>1. IInv => ResultsAreWhole
    BY WholeReductions, CompleteOutput, WholeTotals DEF IInv, ResultsAreWhole
  <1> QED BY Invariant, <1>1, PTL

(* Between two barriers no thread of a launch reads or writes what another *)
(* one writes.                                                             *)
THEOREM LaunchesDoNotRace == Spec => []NoDataRace
  <1>1. IInv => NoDataRace
    BY DEF IInv, TouchInv, NoDataRace
  <1> QED BY Invariant, <1>1, PTL
=============================================================================
