------------------------ MODULE TrainingProfileProofs -----------------------
(***************************************************************************)
(* What the profiler reports, for every run, every number of layers and    *)
(* whatever operations the parts of the trainer run.  First, why the       *)
(* marked operations are those of the window that was asked for; then,     *)
(* that what is reported of it, on either kind of backend, is the totals   *)
(* of the operations of that window and a span that their times and the    *)
(* idle gaps make up, and that the lines of its stages count the steps,    *)
(* the batches and the passes.                                             *)
(***************************************************************************)
EXTENDS TrainingProfile, FiniteSetTheorems, SequenceTheorems, WellFoundedInduction, TLAPS

-----------------------------------------------------------------------------
(* The programs: where a batch tells of its step                           *)

Operations == STRING \ {NoOp}
StepCalls == {"on_train_step_start", "on_train_step_end", "on_batch_end"}
OtherCalls ==
  {"on_batch_start", "on_batch_load_start", "on_batch_load_end", "on_forward_start",
   "on_forward_end", "on_backward_start", "on_backward_end", "on_layer_start",
   "on_layer_end", "on_attention_start", "on_attention_end", "on_ffn_start", "on_ffn_end",
   "on_output_head_start", "on_output_head_end", "on_checkpoint_save_start",
   "on_checkpoint_save_end", "on_checkpoint_load_start", "on_checkpoint_load_end"}
CallRecords ==
  [call : {"op"} \cup StepCalls \cup OtherCalls, layer : Int, op : Operations \cup {NoOp}]
Calls == {c \in CallRecords : c.call = "op" => c.op \in Operations}
PlainCalls == {c \in Calls : c.call \notin StepCalls}

(* A part of a program, of length n, that tells nothing of steps. *)
Plain(s, n) == s \in Seq(PlainCalls) /\ Len(s) = n

LEMMA ProfileTypes ==
  /\ Layers \in Nat \ {0}
  /\ \A r \in Runs : r \in RunRecords
  /\ \A p \in Places : WorkOf[p] \in Seq(Operations)
BY ProfileAssumption DEF Operations

LEMMA JoinedPlain ==
  ASSUME NEW s, NEW t, NEW m, NEW n, Plain(s, m), Plain(t, n)
  PROVE  Plain(s \o t, m + n)
BY ConcatProperties DEF Plain

LEMMA OneCall ==
  ASSUME NEW c \in Calls
  PROVE  <<c>> \in Seq(Calls) /\ Len(<<c>>) = 1 /\ <<c>>[1] = c
OBVIOUS

LEMMA CallsArePlain ==
  ASSUME NEW name \in OtherCalls, NEW l \in Int
  PROVE  Plain(Call(name), 1) /\ Plain(LayerCall(name, l), 1)
<1>1. ASSUME NEW k \in Int
      PROVE  [call |-> name, layer |-> k, op |-> NoOp] \in PlainCalls
  <2> DEFINE c == [call |-> name, layer |-> k, op |-> NoOp]
  <2>1. c \in CallRecords /\ c.call = name
    BY DEF CallRecords
  <2>2. name \notin {"op"} \cup StepCalls
    BY DEF OtherCalls, StepCalls
  <2> HIDE DEF c
  <2>3. c \in PlainCalls
    BY <2>1, <2>2 DEF PlainCalls, Calls
  <2> QED
    BY <2>3 DEF c
<1>2. ASSUME NEW c \in PlainCalls
      PROVE  Plain(<<c>>, 1)
  BY DEF Plain
<1>3. -1 \in Int
  OBVIOUS
<1> QED
  BY <1>1, <1>2, <1>3 DEF Call, LayerCall

LEMMA WorkIsPlain ==
  ASSUME NEW place \in Places
  PROVE  Plain(Work(place), Len(WorkOf[place]))
<1>1. WorkOf[place] \in Seq(Operations)
  BY ProfileTypes
<1>2. ASSUME NEW i \in DOMAIN WorkOf[place]
      PROVE  [call |-> "op", layer |-> -1, op |-> WorkOf[place][i]] \in PlainCalls
  <2>1. WorkOf[place][i] \in Operations
    BY <1>1
  <2> DEFINE c == [call |-> "op", layer |-> -1, op |-> WorkOf[place][i]]
  <2>2. c \in CallRecords /\ c.call = "op" /\ c.op \in Operations
    BY <2>1 DEF CallRecords
  <2>3. "op" \notin StepCalls
    BY DEF StepCalls
  <2> HIDE DEF c
  <2>4. c \in PlainCalls
    BY <2>2, <2>3 DEF PlainCalls, Calls
  <2> QED
    BY <2>4 DEF c
<1> DEFINE w == Work(place)
           n == Len(WorkOf[place])
<1>3. n \in Nat /\ DOMAIN WorkOf[place] = 1..n
  BY <1>1
<1>4. w \in [1..n -> PlainCalls]
  BY <1>2, <1>3 DEF Work
<1>5. w \in Seq(PlainCalls) /\ Len(w) = n
  BY <1>3, <1>4
<1> QED
  BY <1>5 DEF Plain

LEMMA WhenPlain ==
  ASSUME NEW condition \in BOOLEAN, NEW s, NEW n \in Nat, Plain(s, n)
  PROVE  Plain(When(condition, s), IF condition THEN n ELSE 0)
BY DEF When, Plain

WorkLen(place) == Len(WorkOf[place])

LEMMA WorkLenNat ==
  ASSUME NEW place \in Places
  PROVE  WorkLen(place) \in Nat
BY ProfileTypes DEF WorkLen

LEMMA SublayersPlain ==
  ASSUME NEW l \in Int
  PROVE  /\ Plain(AttentionCalls(l), WorkLen("attention") + 2)
         /\ Plain(FfnCalls(l), WorkLen("ffn") + 2)
         /\ Plain(OutputHeadCalls, WorkLen("head") + 2)
<1>1. ASSUME NEW a, NEW b, NEW w, NEW n \in Nat, Plain(a, 1), Plain(w, n), Plain(b, 1)
      PROVE  Plain(a \o w \o b, n + 2)
  <2>1. Plain(a \o w, 1 + n)
    BY <1>1, JoinedPlain
  <2>2. Plain(a \o w \o b, (1 + n) + 1)
    BY <1>1, <2>1, JoinedPlain
  <2> QED
    BY <2>2
<1>2. /\ Plain(LayerCall("on_attention_start", l), 1)
      /\ Plain(LayerCall("on_attention_end", l), 1)
      /\ Plain(LayerCall("on_ffn_start", l), 1)
      /\ Plain(LayerCall("on_ffn_end", l), 1)
      /\ Plain(Call("on_output_head_start"), 1)
      /\ Plain(Call("on_output_head_end"), 1)
  <2>1. {"on_attention_start", "on_attention_end", "on_ffn_start", "on_ffn_end",
         "on_output_head_start", "on_output_head_end"} \subseteq OtherCalls
    BY DEF OtherCalls
  <2> QED
    BY <2>1, CallsArePlain
<1>3. ASSUME NEW place \in {"attention", "ffn", "head"}
      PROVE  Plain(Work(place), WorkLen(place)) /\ WorkLen(place) \in Nat
  <2>1. place \in Places
    BY DEF Places
  <2> QED
    BY <2>1, WorkIsPlain, WorkLenNat DEF WorkLen
<1> QED
  BY <1>1, <1>2, <1>3 DEF AttentionCalls, FfnCalls, OutputHeadCalls

ForwardLen == 3 * WorkLen("layer") + WorkLen("attention") + WorkLen("ffn") + 6
BackwardLen == 2 * WorkLen("layer") + WorkLen("attention") + WorkLen("ffn") + 6

LEMMA LayersPlain ==
  ASSUME NEW l \in Int
  PROVE  Plain(LayerForward(l), ForwardLen) /\ Plain(LayerBackward(l), BackwardLen)
<1> DEFINE a == LayerCall("on_layer_start", l)
           b == LayerCall("on_layer_end", l)
           w == Work("layer")
           n == WorkLen("layer")
           p == AttentionCalls(l)
           i == WorkLen("attention")
           q == FfnCalls(l)
           j == WorkLen("ffn")
<1>1. Plain(a, 1) /\ Plain(b, 1)
  <2>1. {"on_layer_start", "on_layer_end"} \subseteq OtherCalls
    BY DEF OtherCalls
  <2> QED
    BY <2>1, CallsArePlain
<1>2. Plain(w, n) /\ n \in Nat /\ i \in Nat /\ j \in Nat
  <2>1. {"layer", "attention", "ffn"} \subseteq Places
    BY DEF Places
  <2> QED
    BY <2>1, WorkIsPlain, WorkLenNat DEF WorkLen
<1>3. Plain(p, i + 2) /\ Plain(q, j + 2)
  BY SublayersPlain
<1>4. LayerForward(l) = a \o w \o p \o w \o q \o w \o b
  BY DEF LayerForward
<1>5. LayerBackward(l) = a \o q \o w \o p \o w \o b
  BY DEF LayerBackward
<1> HIDE DEF a, b, w, n, p, i, q, j
<1>6. Plain(a \o w \o p \o w \o q \o w \o b, 3 * n + i + j + 6)
  <2>1. Plain(a \o w, 1 + n)
    BY <1>1, <1>2, JoinedPlain
  <2>2. Plain(a \o w \o p, (1 + n) + (i + 2))
    BY <1>3, <2>1, JoinedPlain
  <2>3. Plain(a \o w \o p \o w, ((1 + n) + (i + 2)) + n)
    BY <1>2, <2>2, JoinedPlain
  <2>4. Plain(a \o w \o p \o w \o q, (((1 + n) + (i + 2)) + n) + (j + 2))
    BY <1>3, <2>3, JoinedPlain
  <2>5. Plain(a \o w \o p \o w \o q \o w, ((((1 + n) + (i + 2)) + n) + (j + 2)) + n)
    BY <1>2, <2>4, JoinedPlain
  <2>6. Plain(a \o w \o p \o w \o q \o w \o b,
              (((((1 + n) + (i + 2)) + n) + (j + 2)) + n) + 1)
    BY <1>1, <2>5, JoinedPlain
  <2>7. (((((1 + n) + (i + 2)) + n) + (j + 2)) + n) + 1 = 3 * n + i + j + 6
    BY <1>2
  <2> QED
    BY <2>6, <2>7
<1>7. Plain(a \o q \o w \o p \o w \o b, 2 * n + i + j + 6)
  <2>1. Plain(a \o q, 1 + (j + 2))
    BY <1>1, <1>3, JoinedPlain
  <2>2. Plain(a \o q \o w, (1 + (j + 2)) + n)
    BY <1>2, <2>1, JoinedPlain
  <2>3. Plain(a \o q \o w \o p, ((1 + (j + 2)) + n) + (i + 2))
    BY <1>3, <2>2, JoinedPlain
  <2>4. Plain(a \o q \o w \o p \o w, (((1 + (j + 2)) + n) + (i + 2)) + n)
    BY <1>2, <2>3, JoinedPlain
  <2>5. Plain(a \o q \o w \o p \o w \o b, ((((1 + (j + 2)) + n) + (i + 2)) + n) + 1)
    BY <1>1, <2>4, JoinedPlain
  <2>6. ((((1 + (j + 2)) + n) + (i + 2)) + n) + 1 = 2 * n + i + j + 6
    BY <1>2
  <2> QED
    BY <2>5, <2>6
<1> QED
  BY <1>4, <1>5, <1>6, <1>7 DEF ForwardLen, BackwardLen, n, i, j

LEMMA Division ==
  ASSUME NEW i \in Nat, NEW p \in Nat \ {0}
  PROVE  /\ i \div p \in Nat
         /\ i % p \in 0..(p - 1)
         /\ i = ((i \div p) * p) + (i % p)
OBVIOUS

LEMMA InTurnPlain ==
  ASSUME NEW turns, NEW count \in Nat \ {0}, NEW size \in Nat,
         turns = [k \in 1..count |-> turns[k]],
         \A k \in 1..count : Plain(turns[k], size)
  PROVE  Plain(InTurn(turns), count * size)
<1>1. Len(turns) = count
  OBVIOUS
<1>2. Len(turns[1]) = size
  BY DEF Plain
<1>3. count * size \in Nat
  OBVIOUS
<1>4. ASSUME NEW i \in 1..(count * size)
      PROVE  turns[((i - 1) \div size) + 1][((i - 1) % size) + 1] \in PlainCalls
  <2> DEFINE d == (i - 1) \div size
             r == (i - 1) % size
  <2>1. size > 0
    <3>1. SUFFICES ASSUME size = 0 PROVE FALSE
      OBVIOUS
    <3>2. count * size = 0
      BY <3>1
    <3> QED
      BY <3>2
  <2>2. r \in 0..(size - 1) /\ d \in Nat /\ i - 1 = d * size + r
    <3>1. i - 1 \in Nat /\ size \in Nat \ {0}
      BY <2>1
    <3> QED
      BY <3>1, Division, Zenon
  <2> HIDE DEF d, r
  <2>3. d < count
    <3>1. SUFFICES ASSUME d >= count PROVE FALSE
      BY <2>2
    <3>2. d * size >= count * size
      BY <2>1, <2>2, <3>1
    <3> QED
      BY <1>3, <2>2, <3>2
  <2>4. Plain(turns[d + 1], size) /\ r + 1 \in 1..size
    BY <2>2, <2>3
  <2>5. turns[d + 1][r + 1] \in PlainCalls
    BY <2>4 DEF Plain
  <2> QED
    BY <2>5 DEF d, r
<1> DEFINE u == InTurn(turns)
<1>5. u \in [1..(count * size) -> PlainCalls]
  <2>1. u = [i \in 1..(count * size) |->
               turns[((i - 1) \div size) + 1][((i - 1) % size) + 1]]
    BY <1>1, <1>2 DEF InTurn
  <2> HIDE DEF u
  <2> QED
    BY <1>4, <2>1
<1>6. u \in Seq(PlainCalls) /\ Len(u) = count * size
  BY <1>3, <1>5
<1> QED
  BY <1>6 DEF Plain

LEMMA PassesPlain ==
  \E m, n \in Nat : Plain(Forward, m + 2) /\ Plain(Backward, n + 2)
<1> DEFINE f == [l \in 1..Layers |-> LayerForward(l - 1)]
           b == [l \in 1..Layers |-> LayerBackward(Layers - l)]
           e == WorkLen("embedding")
           h == WorkLen("head")
           m == e + Layers * ForwardLen + (h + 2)
           n == (h + 2) + Layers * BackwardLen + e
<1>1. Plain(Work("embedding"), e) /\ e \in Nat /\ h \in Nat /\ ForwardLen \in Nat /\ BackwardLen \in Nat
  <2>1. {"embedding", "head", "layer", "attention", "ffn"} \subseteq Places
    BY DEF Places
  <2>2. Plain(Work("embedding"), e)
    BY <2>1, WorkIsPlain DEF WorkLen
  <2>3. /\ WorkLen("embedding") \in Nat /\ WorkLen("head") \in Nat /\ WorkLen("layer") \in Nat
        /\ WorkLen("attention") \in Nat /\ WorkLen("ffn") \in Nat
    BY <2>1, WorkLenNat
  <2> QED
    BY <2>2, <2>3 DEF ForwardLen, BackwardLen
<1>2. Plain(OutputHeadCalls, h + 2)
  BY SublayersPlain
<1>3. /\ Plain(Call("on_forward_start"), 1) /\ Plain(Call("on_forward_end"), 1)
      /\ Plain(Call("on_backward_start"), 1) /\ Plain(Call("on_backward_end"), 1)
  <2>1. {"on_forward_start", "on_forward_end", "on_backward_start", "on_backward_end"}
          \subseteq OtherCalls
    BY DEF OtherCalls
  <2> QED
    BY <2>1, CallsArePlain
<1>4. Plain(InTurn(f), Layers * ForwardLen)
  <2>1. \A l \in 1..Layers : Plain(f[l], ForwardLen)
    BY ProfileTypes, LayersPlain
  <2>2. f = [k \in 1..Layers |-> f[k]]
    OBVIOUS
  <2> HIDE DEF f
  <2> QED
    BY <1>1, <2>1, <2>2, ProfileTypes, InTurnPlain
<1>5. Plain(InTurn(b), Layers * BackwardLen)
  <2>1. \A l \in 1..Layers : Plain(b[l], BackwardLen)
    BY ProfileTypes, LayersPlain
  <2>2. b = [k \in 1..Layers |-> b[k]]
    OBVIOUS
  <2> HIDE DEF b
  <2> QED
    BY <1>1, <2>1, <2>2, ProfileTypes, InTurnPlain
<1>6. Layers * ForwardLen \in Nat /\ Layers * BackwardLen \in Nat
  BY <1>1, ProfileTypes
<1>7. Plain(Forward, 1 + e + Layers * ForwardLen + (h + 2) + 1)
  <2>1. Plain(Call("on_forward_start") \o Work("embedding"), 1 + e)
    BY <1>1, <1>3, JoinedPlain
  <2>2. Plain(Call("on_forward_start") \o Work("embedding") \o InTurn(f),
              1 + e + Layers * ForwardLen)
    BY <1>4, <2>1, JoinedPlain
  <2>3. Plain(Call("on_forward_start") \o Work("embedding") \o InTurn(f) \o OutputHeadCalls,
              1 + e + Layers * ForwardLen + (h + 2))
    BY <1>2, <2>2, JoinedPlain
  <2>4. Plain(Call("on_forward_start") \o Work("embedding") \o InTurn(f) \o OutputHeadCalls
                \o Call("on_forward_end"),
              1 + e + Layers * ForwardLen + (h + 2) + 1)
    BY <1>3, <2>3, JoinedPlain
  <2> QED
    BY <2>4 DEF Forward
<1>8. Plain(Backward, 1 + (h + 2) + Layers * BackwardLen + e + 1)
  <2>1. Plain(Call("on_backward_start") \o OutputHeadCalls, 1 + (h + 2))
    BY <1>2, <1>3, JoinedPlain
  <2>2. Plain(Call("on_backward_start") \o OutputHeadCalls \o InTurn(b),
              1 + (h + 2) + Layers * BackwardLen)
    BY <1>5, <2>1, JoinedPlain
  <2>3. Plain(Call("on_backward_start") \o OutputHeadCalls \o InTurn(b) \o Work("embedding"),
              1 + (h + 2) + Layers * BackwardLen + e)
    BY <1>1, <2>2, JoinedPlain
  <2>4. Plain(Call("on_backward_start") \o OutputHeadCalls \o InTurn(b) \o Work("embedding")
                \o Call("on_backward_end"),
              1 + (h + 2) + Layers * BackwardLen + e + 1)
    BY <1>3, <2>3, JoinedPlain
  <2> QED
    BY <2>4 DEF Backward
<1> HIDE DEF e, h
<1>9. m \in Nat /\ n \in Nat
  BY <1>1, <1>6
<1>10. /\ 1 + e + Layers * ForwardLen + (h + 2) + 1 = m + 2
       /\ 1 + (h + 2) + Layers * BackwardLen + e + 1 = n + 2
  BY <1>1, <1>6
<1> HIDE DEF m, n
<1> QED
  BY <1>7, <1>8, <1>9, <1>10

LoadLen(device) == IF device = "CUDA" THEN WorkLen("fill_batch") ELSE 0

LEMMA LoadPlain ==
  ASSUME NEW device \in Devices
  PROVE  Plain(Load(device), LoadLen(device)) /\ LoadLen(device) \in Nat
<1>1. "fill_batch" \in Places
  BY DEF Places
<1>2. Plain(Work("fill_batch"), WorkLen("fill_batch")) /\ WorkLen("fill_batch") \in Nat
  BY <1>1, WorkIsPlain, WorkLenNat DEF WorkLen
<1>3. (device = "CUDA") \in BOOLEAN
  OBVIOUS
<1> QED
  BY <1>2, <1>3, WhenPlain DEF Load, LoadLen

(* The parts beside the training batches tell nothing of steps. *)
LEMMA OtherPartsPlain ==
  /\ \A device \in Devices : EvaluateProgram[device] \in Seq(PlainCalls)
  /\ SaveProgram \in Seq(PlainCalls)
  /\ RestoreProgram \in Seq(PlainCalls)
<1>1. \A place \in Places : Plain(Work(place), WorkLen(place)) /\ WorkLen(place) \in Nat
  BY WorkIsPlain, WorkLenNat DEF WorkLen
<1>2. {"evaluate", "save", "restore"} \subseteq Places
  BY DEF Places
<1>3. /\ Plain(Call("on_checkpoint_save_start"), 1) /\ Plain(Call("on_checkpoint_save_end"), 1)
      /\ Plain(Call("on_checkpoint_load_start"), 1) /\ Plain(Call("on_checkpoint_load_end"), 1)
  <2>1. {"on_checkpoint_save_start", "on_checkpoint_save_end", "on_checkpoint_load_start",
         "on_checkpoint_load_end"} \subseteq OtherCalls
    BY DEF OtherCalls
  <2> QED
    BY <2>1, CallsArePlain
<1>4. ASSUME NEW device \in Devices
      PROVE  Evaluate(device) \in Seq(PlainCalls)
  <2>1. PICK m \in Nat : Plain(Forward, m + 2)
    BY PassesPlain
  <2>2. Plain(Load(device) \o Forward, LoadLen(device) + (m + 2))
    BY <2>1, LoadPlain, JoinedPlain
  <2>3. Plain(Work("evaluate"), WorkLen("evaluate"))
    BY <1>1, <1>2
  <2>4. Plain(Load(device) \o Forward \o Work("evaluate"),
              LoadLen(device) + (m + 2) + WorkLen("evaluate"))
    BY <2>2, <2>3, JoinedPlain
  <2> QED
    BY <2>4 DEF Evaluate, Plain
<1>5. ASSUME NEW a, NEW b, NEW place \in {"save", "restore"}, Plain(Call(a), 1), Plain(Call(b), 1)
      PROVE  Call(a) \o Work(place) \o Call(b) \in Seq(PlainCalls)
  <2>1. Plain(Work(place), WorkLen(place))
    BY <1>1, <1>2
  <2>2. Plain(Call(a) \o Work(place), 1 + WorkLen(place))
    BY <1>5, <2>1, JoinedPlain
  <2>3. Plain(Call(a) \o Work(place) \o Call(b), 1 + WorkLen(place) + 1)
    BY <1>5, <2>2, JoinedPlain
  <2> QED
    BY <2>3 DEF Plain
<1>6. Save \in Seq(PlainCalls)
  BY <1>3, <1>5 DEF Save
<1>7. Restore \in Seq(PlainCalls)
  BY <1>3, <1>5 DEF Restore
<1> QED
  BY <1>4, <1>6, <1>7 DEF EvaluateProgram, SaveProgram, RestoreProgram

(* A beginning of a batch, which starts a step at place p if f. *)
Beginning(s, f, p) ==
  /\ s \in Seq(Calls)
  /\ f => p <= Len(s) /\ s[p].call = "on_train_step_start"
  /\ \A k \in 1..Len(s) : s[k].call \in StepCalls <=> f /\ k = p

(* A batch, which starts a step at place p if f and, if l, ends it after   *)
(* an operation.                                                           *)
TellsOfStep(s, f, l, p) ==
  /\ s \in Seq(Calls)
  /\ p < Len(s) - 1
  /\ l => Len(s) - 2 \in 1..Len(s) /\ s[Len(s) - 2].call = "op"
  /\ \A k \in 1..Len(s) :
       /\ s[k].call = "on_train_step_start" <=> f /\ k = p
       /\ s[k].call = "on_train_step_end" <=> l /\ k = Len(s) - 1
       /\ s[k].call = "on_batch_end" <=> k = Len(s)

LEMMA OneStepCall ==
  ASSUME NEW name \in StepCalls
  PROVE  Call(name) \in Seq(Calls) /\ Len(Call(name)) = 1 /\ Call(name)[1].call = name
<1> DEFINE c == [call |-> name, layer |-> -1, op |-> NoOp]
<1>1. c \in CallRecords /\ c.call = name
  <2>1. -1 \in Int
    OBVIOUS
  <2> QED
    BY <2>1 DEF CallRecords
<1>2. name # "op"
  BY DEF StepCalls
<1>3. Call(name) = <<c>>
  BY DEF Call
<1> HIDE DEF c
<1>4. c \in Calls
  BY <1>1, <1>2 DEF Calls
<1> QED
  BY <1>1, <1>3, <1>4, OneCall

LEMMA OneMore ==
  ASSUME NEW s \in Seq(Calls), NEW t \in Seq(Calls), Len(t) = 1
  PROVE  /\ s \o t \in Seq(Calls) /\ Len(s \o t) = Len(s) + 1 /\ Len(s) \in Nat
         /\ \A k \in 1..Len(s) : (s \o t)[k] = s[k]
         /\ (s \o t)[Len(s) + 1] = t[1]
         /\ \A k \in 1..(Len(s) + 1) : k \in 1..Len(s) \/ k = Len(s) + 1
<1> DEFINE u == s \o t
           n == Len(s)
<1>1. n \in Nat
  OBVIOUS
<1>2. /\ u \in Seq(Calls) /\ Len(u) = n + Len(t)
      /\ \A k \in 1..(n + Len(t)) : u[k] = IF k <= n THEN s[k] ELSE t[k - n]
  BY ConcatProperties
<1> HIDE DEF u, n
<1>3. n + 1 \in 1..(n + 1) /\ ~(n + 1 <= n) /\ (n + 1) - n = 1
  BY <1>1
<1>4. u[n + 1] = t[1]
  BY <1>2, <1>3
<1>5. \A k \in 1..n : u[k] = s[k]
  BY <1>1, <1>2
<1>6. \A k \in 1..(n + 1) : k \in 1..n \/ k = n + 1
  BY <1>1
<1>7. Len(u) = n + 1
  BY <1>2
<1> QED
  BY <1>1, <1>2, <1>4, <1>5, <1>6, <1>7 DEF u, n

LEMMA PlainSeq ==
  ASSUME NEW s, NEW n, Plain(s, n)
  PROVE  /\ s \in Seq(Calls) /\ Len(s) = n /\ n \in Nat
         /\ \A k \in 1..n : s[k].call \notin StepCalls
<1>1. PlainCalls \subseteq Calls /\ \A c \in PlainCalls : c.call \notin StepCalls
  BY DEF PlainCalls
<1>2. s \in Seq(PlainCalls) /\ Len(s) = n
  BY DEF Plain
<1>3. n \in Nat /\ \A k \in 1..n : s[k] \in PlainCalls
  BY <1>2
<1>4. s \in Seq(Calls)
  BY <1>1, <1>2, SeqMonotonic
<1> QED
  BY <1>1, <1>2, <1>3, <1>4

LEMMA BeginningGrows ==
  ASSUME NEW s, NEW f \in BOOLEAN, NEW p \in Nat \ {0}, NEW t, NEW n,
         Beginning(s, f, p), Plain(t, n)
  PROVE  Beginning(s \o t, f, p) /\ Len(s \o t) = Len(s) + n
<1> DEFINE u == s \o t
<1>1. s \in Seq(Calls) /\ Len(s) \in Nat
  BY DEF Beginning
<1>2. /\ t \in Seq(Calls) /\ Len(t) = n /\ n \in Nat
      /\ \A k \in 1..n : t[k].call \notin StepCalls
  BY PlainSeq
<1>3. /\ u \in Seq(Calls) /\ Len(u) = Len(s) + n
      /\ \A k \in 1..(Len(s) + n) : u[k] = IF k <= Len(s) THEN s[k] ELSE t[k - Len(s)]
  BY <1>1, <1>2, ConcatProperties
<1> HIDE DEF u
<1>4. f => p \in 1..Len(s) /\ s[p].call = "on_train_step_start"
  BY <1>1 DEF Beginning
<1>5. \A k \in 1..Len(u) : u[k].call \in StepCalls <=> f /\ k = p
  <2> TAKE k \in 1..Len(u)
  <2>1. CASE k <= Len(s)
    BY <1>1, <1>2, <1>3, <2>1 DEF Beginning
  <2>2. CASE k > Len(s)
    <3>1. u[k] = t[k - Len(s)] /\ k - Len(s) \in 1..n
      BY <1>1, <1>2, <1>3, <2>2
    <3> QED
      BY <1>1, <1>2, <1>4, <2>2, <3>1
  <2> QED
    BY <1>1, <1>2, <1>3, <2>1, <2>2
<1>6. f => p <= Len(u) /\ u[p].call = "on_train_step_start"
  BY <1>1, <1>2, <1>3, <1>4
<1>7. Beginning(u, f, p) /\ Len(u) = Len(s) + n
  BY <1>3, <1>5, <1>6 DEF Beginning
<1> QED
  BY <1>7 DEF u

(* The step starts after the batch was loaded. *)
StartPlace(device) == LoadLen(device) + 4

LEMMA LoadedBeginning ==
  ASSUME NEW device \in Devices, NEW f \in BOOLEAN
  PROVE  LET s == Call("on_batch_start") \o Call("on_batch_load_start") \o Load(device)
                    \o Call("on_batch_load_end") \o When(f, Call("on_train_step_start"))
         IN  /\ Beginning(s, f, StartPlace(device))
             /\ Len(s) \in Nat /\ Len(s) >= StartPlace(device) - 1
<1> DEFINE a == Call("on_batch_start") \o Call("on_batch_load_start") \o Load(device)
                  \o Call("on_batch_load_end")
           n == LoadLen(device)
           t == When(f, Call("on_train_step_start"))
           u == a \o t
<1>1. Plain(a, n + 3) /\ n \in Nat
  <2>1. /\ Plain(Call("on_batch_start"), 1) /\ Plain(Call("on_batch_load_start"), 1)
        /\ Plain(Call("on_batch_load_end"), 1)
    <3>1. {"on_batch_start", "on_batch_load_start", "on_batch_load_end"} \subseteq OtherCalls
      BY DEF OtherCalls
    <3> QED
      BY <3>1, CallsArePlain
  <2>2. Plain(Call("on_batch_start") \o Call("on_batch_load_start"), 1 + 1)
    BY <2>1, JoinedPlain
  <2>3. Plain(Call("on_batch_start") \o Call("on_batch_load_start") \o Load(device), 1 + 1 + n)
    BY <2>2, LoadPlain, JoinedPlain
  <2>4. Plain(a, 1 + 1 + n + 1)
    BY <2>1, <2>3, JoinedPlain
  <2>5. n \in Nat
    BY LoadPlain
  <2>6. 1 + 1 + n + 1 = n + 3
    BY <2>5
  <2> QED
    BY <2>4, <2>5, <2>6
<1> HIDE DEF a, n
<1>2. /\ a \in Seq(Calls) /\ Len(a) = n + 3
      /\ \A k \in 1..(n + 3) : a[k].call \notin StepCalls
  BY <1>1, PlainSeq
<1>3. Beginning(u, f, n + 4) /\ Len(u) \in Nat /\ Len(u) >= n + 3
  <2>1. CASE ~f
    <3>1. t = <<>>
      BY <2>1 DEF When
    <3> HIDE DEF t
    <3>2. u = a
      BY <1>2, <3>1, ConcatEmptySeq
    <3> HIDE DEF u
    <3> QED
      BY <1>1, <1>2, <2>1, <3>2 DEF Beginning
  <2>2. CASE f
    <3>1. t = Call("on_train_step_start")
      BY <2>2 DEF When
    <3>2. "on_train_step_start" \in StepCalls
      BY DEF StepCalls
    <3>3. t \in Seq(Calls) /\ Len(t) = 1 /\ t[1].call = "on_train_step_start"
      BY <3>1, <3>2, OneStepCall
    <3> HIDE DEF t
    <3>4. /\ u \in Seq(Calls) /\ Len(u) = Len(a) + 1 /\ u[Len(a) + 1] = t[1]
          /\ \A k \in 1..Len(a) : u[k] = a[k]
          /\ \A k \in 1..(Len(a) + 1) : k \in 1..Len(a) \/ k = Len(a) + 1
      BY <1>2, <3>3, OneMore
    <3>5. Len(a) + 1 = n + 4
      BY <1>1, <1>2
    <3> HIDE DEF u
    <3>6. \A k \in 1..Len(u) : u[k].call \in StepCalls <=> k = n + 4
      <4> TAKE k \in 1..Len(u)
      <4>1. CASE k = n + 4
        BY <3>2, <3>3, <3>4, <3>5, <4>1
      <4>2. CASE k # n + 4
        <5>1. k \in 1..Len(a)
          BY <3>4, <3>5, <4>2
        <5> QED
          BY <1>2, <3>4, <4>2, <5>1
      <4> QED
        BY <4>1, <4>2
    <3> QED
      BY <1>1, <2>2, <3>3, <3>4, <3>5, <3>6 DEF Beginning
  <2> QED
    BY <2>1, <2>2
<1>4. StartPlace(device) = n + 4 /\ StartPlace(device) - 1 = n + 3
  BY <1>1 DEF StartPlace, n
<1> HIDE DEF u
<1>5. Beginning(u, f, StartPlace(device)) /\ Len(u) \in Nat /\ Len(u) >= StartPlace(device) - 1
  BY <1>3, <1>4
<1> QED
  BY <1>5 DEF u, a, t

LEMMA Regrouped ==
  \A a, b, c \in Seq(Calls) : (a \o b) \o c = a \o (b \o c)
BY ConcatAssociative

LEMMA EndingOfStep ==
  ASSUME NEW s, NEW f \in BOOLEAN, NEW l \in BOOLEAN, NEW p \in Nat \ {0}, NEW w, NEW n,
         Beginning(s, f, p), p < Len(s), Plain(w, n), n > 0, w[n].call = "op"
  PROVE  TellsOfStep(s \o When(l, w \o Call("on_train_step_end")) \o Call("on_batch_end"),
                     f, l, p)
<1> DEFINE e == Call("on_train_step_end")
           d == Call("on_batch_end")
           t == When(l, w \o e)
           x == s \o t
           u == x \o d
<1>1. s \in Seq(Calls) /\ Len(s) \in Nat
  BY DEF Beginning
<1>2. /\ e \in Seq(Calls) /\ Len(e) = 1 /\ e[1].call = "on_train_step_end"
      /\ d \in Seq(Calls) /\ Len(d) = 1 /\ d[1].call = "on_batch_end"
  <2>1. {"on_train_step_end", "on_batch_end"} \subseteq StepCalls
    BY DEF StepCalls
  <2> QED
    BY <2>1, OneStepCall
<1> HIDE DEF e, d
<1>3. /\ x \in Seq(Calls) /\ Len(x) \in Nat /\ p < Len(x)
      /\ \A k \in 1..Len(x) :
           /\ x[k].call = "on_train_step_start" <=> f /\ k = p
           /\ x[k].call = "on_train_step_end" <=> l /\ k = Len(x)
           /\ x[k].call # "on_batch_end"
      /\ l => Len(x) - 1 \in 1..Len(x) /\ x[Len(x) - 1].call = "op"
  <2>1. ASSUME NEW y, Beginning(y, f, p), p < Len(y)
        PROVE  /\ y \in Seq(Calls) /\ Len(y) \in Nat
               /\ \A k \in 1..Len(y) :
                    /\ y[k].call = "on_train_step_start" <=> f /\ k = p
                    /\ y[k].call # "on_train_step_end"
                    /\ y[k].call # "on_batch_end"
    BY <2>1 DEF Beginning, StepCalls
  <2>2. CASE ~l
    <3>1. t = <<>>
      BY <2>2 DEF When
    <3> HIDE DEF t
    <3>2. x = s
      BY <1>1, <3>1, ConcatEmptySeq
    <3> HIDE DEF x
    <3> QED
      BY <2>1, <2>2, <3>2
  <2>3. CASE l
    <3> DEFINE y == s \o w
    <3>1. t = w \o e
      BY <2>3 DEF When
    <3>2. w \in Seq(Calls) /\ n \in Nat /\ Len(w) = n
      BY PlainSeq
    <3>3. x = y \o e
      <4>1. (s \o w) \o e = s \o (w \o e)
        BY <1>1, <1>2, <3>2, Regrouped
      <4> QED
        BY <3>1, <4>1
    <3>4. Beginning(y, f, p) /\ Len(y) = Len(s) + n
      BY BeginningGrows
    <3> HIDE DEF x, y
    <3>5. p < Len(y)
      BY <1>1, <3>2, <3>4
    <3>6. /\ y \in Seq(Calls) /\ Len(y) \in Nat
          /\ \A k \in 1..Len(y) :
               /\ y[k].call = "on_train_step_start" <=> f /\ k = p
               /\ y[k].call # "on_train_step_end"
               /\ y[k].call # "on_batch_end"
      BY <2>1, <3>4, <3>5
    <3>7. /\ x \in Seq(Calls) /\ Len(x) = Len(y) + 1 /\ x[Len(y) + 1] = e[1]
          /\ \A k \in 1..Len(y) : x[k] = y[k]
          /\ \A k \in 1..(Len(y) + 1) : k \in 1..Len(y) \/ k = Len(y) + 1
      BY <1>2, <3>3, <3>6, OneMore
    <3>8. p # Len(y) + 1 /\ Len(y) + 1 \in Nat /\ p < Len(y) + 1
          /\ \A k \in 1..Len(y) : k # Len(y) + 1
      BY <3>5, <3>6
    <3>9. ASSUME NEW k \in 1..Len(x)
          PROVE  /\ x[k].call = "on_train_step_start" <=> f /\ k = p
                 /\ x[k].call = "on_train_step_end" <=> k = Len(x)
                 /\ x[k].call # "on_batch_end"
      <4>1. CASE k = Len(y) + 1
        BY <1>2, <3>7, <3>8, <4>1
      <4>2. CASE k \in 1..Len(y)
        BY <3>6, <3>7, <3>8, <4>2
      <4> QED
        BY <3>7, <4>1, <4>2
    <3>10. x[Len(x) - 1].call = "op" /\ Len(x) - 1 \in 1..Len(x)
      <4>1. /\ Len(y) \in 1..Len(y) /\ (Len(y) + 1) - 1 = Len(y)
            /\ Len(y) \in 1..(Len(s) + n) /\ ~(Len(y) <= Len(s)) /\ Len(y) - Len(s) = n
        BY <1>1, <3>2, <3>4
      <4>2. \A k \in 1..(Len(s) + n) : (s \o w)[k] = IF k <= Len(s) THEN s[k] ELSE w[k - Len(s)]
        BY <1>1, <3>2, ConcatProperties
      <4>3. y[Len(y)] = w[n]
        BY <4>1, <4>2 DEF y
      <4>4. x[Len(y)] = y[Len(y)] /\ Len(x) - 1 = Len(y) /\ Len(y) \in 1..Len(x)
        BY <3>7, <3>8, <4>1
      <4> QED
        BY <4>3, <4>4
    <3> QED
      BY <2>3, <3>7, <3>8, <3>9, <3>10
  <2> QED
    BY <2>2, <2>3
<1> HIDE DEF x
<1>4. /\ u \in Seq(Calls) /\ Len(u) = Len(x) + 1 /\ u[Len(x) + 1] = d[1]
      /\ \A k \in 1..Len(x) : u[k] = x[k]
      /\ \A k \in 1..(Len(x) + 1) : k \in 1..Len(x) \/ k = Len(x) + 1
  BY <1>2, <1>3, OneMore
<1> HIDE DEF u
<1>5. p # Len(x) + 1 /\ Len(x) + 1 # Len(x) /\ p < Len(u) - 1 /\ Len(u) - 1 = Len(x)
      /\ \A k \in 1..Len(x) : k # Len(x) + 1
  <2>1. Len(x) \in Nat /\ p < Len(x)
    BY <1>3
  <2> QED
    BY <1>4, <2>1
<1>6. ASSUME NEW k \in 1..Len(u)
      PROVE  /\ u[k].call = "on_train_step_start" <=> f /\ k = p
             /\ u[k].call = "on_train_step_end" <=> l /\ k = Len(u) - 1
             /\ u[k].call = "on_batch_end" <=> k = Len(u)
  <2>1. CASE k = Len(x) + 1
    BY <1>2, <1>4, <1>5, <2>1
  <2>2. CASE k \in 1..Len(x)
    BY <1>3, <1>4, <1>5, <2>2
  <2> QED
    BY <1>4, <2>1, <2>2
<1>7. l => Len(u) - 2 \in 1..Len(u) /\ u[Len(u) - 2].call = "op"
  <2> SUFFICES ASSUME l PROVE Len(u) - 2 \in 1..Len(u) /\ u[Len(u) - 2].call = "op"
    OBVIOUS
  <2>1. Len(u) - 2 = Len(x) - 1 /\ Len(x) - 1 \in 1..Len(x) /\ Len(x) - 1 \in 1..Len(u)
    BY <1>3, <1>4
  <2> QED
    BY <1>3, <1>4, <2>1
<1>8. TellsOfStep(u, f, l, p)
  BY <1>4, <1>5, <1>6, <1>7 DEF TellsOfStep
<1> QED
  BY <1>8 DEF u, x, t, d, e

LEMMA StepsWork ==
  ASSUME NEW n, Plain(Work("step"), n)
  PROVE  n \in Nat /\ DOMAIN WorkOf["step"] = 1..n /\ n > 0
<1>1. "step" \in Places
  BY DEF Places
<1>2. Plain(Work("step"), Len(WorkOf["step"])) /\ WorkOf["step"] \in Seq(Operations)
  BY <1>1, WorkIsPlain, ProfileTypes
<1>3. n = Len(WorkOf["step"])
  BY <1>2 DEF Plain
<1>4. Len(WorkOf["step"]) # 0
  BY <1>2, EmptySeq, ProfileAssumption
<1> QED
  BY <1>2, <1>3, <1>4

LEMMA BatchTells ==
  ASSUME NEW device \in Devices, NEW f \in BOOLEAN, NEW l \in BOOLEAN, NEW summed \in BOOLEAN
  PROVE  TellsOfStep(TrainBatch(device, f, l, summed), f, l, StartPlace(device))
<1> DEFINE s == Call("on_batch_start") \o Call("on_batch_load_start") \o Load(device)
                  \o Call("on_batch_load_end") \o When(f, Call("on_train_step_start"))
           p == StartPlace(device)
           a == Work("loss")
           z == Work("zero")
           t == When(summed, Work("sum"))
           x == s \o Forward \o a \o z \o Backward \o t
           w == When(summed, Work("mean")) \o Work("step")
<1>1. TrainBatch(device, f, l, summed)
        = x \o When(l, w \o Call("on_train_step_end")) \o Call("on_batch_end")
  BY DEF TrainBatch
<1>2. Beginning(s, f, p) /\ Len(s) \in Nat /\ Len(s) >= p - 1
  BY LoadedBeginning
<1>3. p \in Nat \ {0}
  <2>1. LoadLen(device) \in Nat
    BY LoadPlain
  <2> QED
    BY <2>1 DEF StartPlace
<1> HIDE DEF s, p
<1>4. \A place \in {"loss", "zero", "sum", "mean", "step"} :
        \E n \in Nat : Plain(Work(place), n)
  <2>1. {"loss", "zero", "sum", "mean", "step"} \subseteq Places
    BY DEF Places
  <2> QED
    BY <2>1, WorkIsPlain, WorkLenNat DEF WorkLen
<1>5. \A place \in {"sum", "mean"} : \E n \in Nat : Plain(When(summed, Work(place)), n)
  <2> TAKE place \in {"sum", "mean"}
  <2>1. PICK n \in Nat : Plain(Work(place), n)
    BY <1>4
  <2>2. Plain(When(summed, Work(place)), IF summed THEN n ELSE 0)
    BY <2>1, WhenPlain
  <2> QED
    BY <2>2
<1>6. Beginning(x, f, p) /\ p < Len(x)
  <2>1. PICK m, n \in Nat : Plain(Forward, m + 2) /\ Plain(Backward, n + 2)
    BY PassesPlain
  <2>2. PICK k \in Nat : Plain(t, k)
    BY <1>5
  <2>3. PICK i, j \in Nat : Plain(a, i) /\ Plain(z, j)
    BY <1>4
  <2> HIDE DEF a, z, t
  <2>4. Beginning(s \o Forward, f, p) /\ Len(s \o Forward) = Len(s) + (m + 2)
    BY <1>2, <1>3, <2>1, BeginningGrows
  <2> DEFINE Long(y) == Beginning(y, f, p) /\ Len(y) \in Nat /\ p < Len(y)
  <2>5. ASSUME NEW y, NEW u, NEW c \in Nat, Long(y), Plain(u, c)
        PROVE  Long(y \o u)
    <3>1. Beginning(y \o u, f, p) /\ Len(y \o u) = Len(y) + c
      BY <1>3, <2>5, BeginningGrows
    <3> QED
      BY <1>3, <2>5, <3>1
  <2>6. Long(s \o Forward)
    BY <1>2, <1>3, <2>4
  <2> HIDE DEF Long
  <2>7. Long(s \o Forward \o a)
    BY <2>3, <2>5, <2>6
  <2>8. Long(s \o Forward \o a \o z)
    BY <2>3, <2>5, <2>7
  <2>9. Long(s \o Forward \o a \o z \o Backward)
    BY <2>1, <2>5, <2>8
  <2>10. Long(x)
    BY <2>2, <2>5, <2>9
  <2> QED
    BY <2>10 DEF Long
<1>7. \E n \in Nat : Plain(w, n) /\ n > 0 /\ w[n].call = "op"
  <2>1. PICK k \in Nat : Plain(When(summed, Work("mean")), k)
    BY <1>5
  <2>2. PICK n \in Nat : Plain(Work("step"), n)
    BY <1>4
  <2>3. Plain(w, k + n)
    BY <2>1, <2>2, JoinedPlain
  <2>4. n > 0 /\ Work("step")[n].call = "op"
    <3>1. DOMAIN WorkOf["step"] = 1..n /\ n > 0
      BY <2>2, StepsWork
    <3>2. n \in 1..n
      BY <3>1
    <3> QED
      BY <3>1, <3>2 DEF Work
  <2>5. w[k + n] = Work("step")[n]
    <3> DEFINE m == When(summed, Work("mean"))
               r == Work("step")
    <3>1. m \in Seq(PlainCalls) /\ Len(m) = k /\ r \in Seq(PlainCalls) /\ Len(r) = n
      BY <2>1, <2>2 DEF Plain
    <3>2. w = m \o r
      OBVIOUS
    <3> HIDE DEF m, r, w
    <3>3. k + n \in 1..(k + n) /\ ~(k + n <= k) /\ (k + n) - k = n
      BY <2>4
    <3>4. w[k + n] = r[n]
      BY <3>1, <3>2, <3>3, ConcatProperties
    <3> QED
      BY <3>4 DEF r
  <2> HIDE DEF w
  <2>6. k + n \in Nat /\ k + n > 0
    BY <2>4
  <2> QED
    BY <2>3, <2>4, <2>5, <2>6
<1> HIDE DEF x, w
<1>8. TellsOfStep(x \o When(l, w \o Call("on_train_step_end")) \o Call("on_batch_end"), f, l, p)
  BY <1>3, <1>6, <1>7, EndingOfStep
<1> QED
  BY <1>1, <1>8 DEF p

-----------------------------------------------------------------------------
(* The inductive invariant                                                 *)

Parts == {"restore", "ready", "batch", "evaluate", "epoch_end", "save", "stop"}
OperationRecords == [op : Operations, begin : Nat, end : Nat]
StepRecords == [from : Nat, to : Nat, batches : Nat, ended : BOOLEAN]
TimerRecords == [enabled : BOOLEAN, completed : Nat, recorded : Nat]
CudaRecords ==
  [capacity : Nat, marks : Seq(OperationRecords), active : BOOLEAN,
   op : Operations \cup {NoOp}, begin : Nat, drop_active : BOOLEAN, dropped : Nat]

ProfileTypeInv ==
  /\ run \in RunRecords
  /\ part \in Parts
  /\ pc \in Nat \ {0}
  /\ epoch \in Nat
  /\ batch_idx \in Nat
  /\ running \in Operations \cup {NoOp}
  /\ now \in Nat
  /\ ran \in Seq(OperationRecords)
  /\ steps \in Seq(StepRecords)
  /\ timer \in TimerRecords
  /\ cuda \in CudaRecords
  /\ cuda.active => cuda.op \in Operations

(* An operation runs where the program has one, and is the last that ran. *)
RunningInv ==
  running # NoOp =>
    /\ ran # <<>>
    /\ pc <= Len(Program)
    /\ CurrentCall.call = "op"
    /\ ran[Len(ran)].op = running

(* No two operations began at the same tick. *)
ClockInv ==
  /\ \A i \in 1..Len(ran) : ran[i].begin < now
  /\ \A i, j \in 1..Len(ran) : i < j => ran[i].begin < ran[j].begin

StartInv ==
  /\ part \in {"restore", "ready"} => steps = <<>> /\ epoch = 0 /\ batch_idx = 0
  /\ outcome = "refused" => steps = <<>>
  /\ outcome # "refused" => run.requested > 0

(* The operations that have finished, the batches that are done, and       *)
(* whether a step is open, in the middle of its batches as between two.    *)
Finished == Len(ran) - (IF running # NoOp THEN 1 ELSE 0)

BatchesSoFar ==
  CASE part \in {"restore", "ready"} -> 0
    [] part = "batch" -> CompletedBatches + (IF pc > Len(Program) THEN 1 ELSE 0)
    [] part = "stop" -> epoch * run.batches
    [] OTHER -> (epoch + 1) * run.batches

StepOpen ==
  /\ part = "batch"
  /\ StepStartsAt(batch_idx) => pc > StartPlace(run.device)
  /\ StepEndsAt(batch_idx) => pc < Len(Program)

StepsInv ==
  /\ StepOpen => steps # <<>>
  /\ \A i \in 1..Len(steps) :
       /\ steps[i].from <= steps[i].to
       /\ steps[i].to <= Finished
       /\ steps[i].batches <= BatchesSoFar
       /\ steps[i].ended <=> ~(StepOpen /\ i = Len(steps))
  /\ \A i, j \in 1..Len(steps) :
       i < j => steps[i].from <= steps[j].from /\ steps[i].batches <= steps[j].batches

(* f is the first step after the skipped batches. *)
Opens(f) ==
  /\ f \in 1..Len(steps)
  /\ steps[f].batches >= run.skip
  /\ \A i \in 1..Len(steps) : i < f => ~(steps[i].batches >= run.skip)
NoneOpens == \A i \in 1..Len(steps) : ~(steps[i].batches >= run.skip)

(* The steps that ended since, and the operations of the window. *)
EndedSince(f) == Len(steps) - f + (IF StepOpen THEN 0 ELSE 1)
WindowStart(f) == steps[f].from
WindowEnd(f) ==
  IF EndedSince(f) < run.requested THEN Finished ELSE steps[f + run.requested - 1].to

TimerInv ==
  /\ NoneOpens \/ \E f \in 1..Len(steps) : Opens(f)
  /\ run.profile_backend_ops /\ outcome = "running" => timer.completed = BatchesSoFar
  /\ NoneOpens \/ ~run.profile_backend_ops => ~timer.enabled /\ timer.recorded = 0
  /\ run.profile_backend_ops =>
       \A f \in 1..Len(steps) : Opens(f) =>
         /\ timer.recorded =
              IF EndedSince(f) < run.requested THEN EndedSince(f) ELSE run.requested
         /\ outcome = "running" => (timer.enabled <=> EndedSince(f) < run.requested)

(* The pool holds the operations from place lo + 1 to place hi, as many as *)
(* it has marks for; the rest is dropped.                                  *)
Kept(lo, hi) == IF hi - lo < cuda.capacity THEN hi - lo ELSE cuda.capacity
Holds(lo, hi) ==
  /\ Len(cuda.marks) = Kept(lo, hi)
  /\ \A k \in 1..Kept(lo, hi) : cuda.marks[k] = ran[lo + k]

(* The running operation: marked, dropped, or outside the window. *)
Idle(lo, hi) ==
  ~cuda.active /\ ~cuda.drop_active /\ cuda.dropped = (hi - lo) - Kept(lo, hi)
Marking(lo, hi) ==
  IF Kept(lo, hi) < cuda.capacity
  THEN /\ cuda.active /\ ~cuda.drop_active /\ cuda.dropped = (hi - lo) - Kept(lo, hi)
       /\ cuda.op = running /\ cuda.begin = ran[Len(ran)].begin
  ELSE ~cuda.active /\ cuda.drop_active /\ cuda.dropped = ((hi - lo) - Kept(lo, hi)) + 1

CudaInv ==
  run.device = "CUDA" =>
    /\ NoneOpens \/ ~run.profile_backend_ops => Holds(0, 0) /\ Idle(0, 0)
    /\ run.profile_backend_ops =>
         \A f \in 1..Len(steps) : Opens(f) =>
           /\ Holds(WindowStart(f), WindowEnd(f))
           /\ IF running # NoOp /\ EndedSince(f) < run.requested
              THEN Marking(WindowStart(f), WindowEnd(f))
              ELSE Idle(WindowStart(f), WindowEnd(f))

ProfileInv ==
  ProfileTypeInv /\ RunningInv /\ ClockInv /\ StartInv /\ StepsInv /\ TimerInv /\ CudaInv

-----------------------------------------------------------------------------
(* Where the running part tells of steps                                   *)

LEMMA RunFacts ==
  ASSUME run \in RunRecords
  PROVE  /\ run.per_step \in Nat \ {0} /\ run.batches \in Nat /\ run.held_out \in Nat
         /\ run.epochs \in Nat /\ run.profile_backend_ops \in BOOLEAN
         /\ run.skip \in Nat /\ run.requested \in Nat /\ run.device \in Devices
BY DEF RunRecords, Devices

(* What an epoch adds to the batches that are evaluated.                   *)
LEMMA HeldOutGrows ==
  ASSUME run \in RunRecords, NEW e \in Nat
  PROVE  /\ HeldOutBatches(run, 0) = 0 /\ HeldOutBatches(run, e) \in Nat
         /\ HeldOutBatches(run, e + 1) \in Nat
         /\ HeldOutBatches(run, e + 1) = HeldOutBatches(run, e)
              + (IF ValidationDue(run, e + 1) THEN run.held_out ELSE 0)
<1> DEFINE Due(i) == ValidationDue(run, i)
           D(n) == {i \in 1..n : Due(i)}
           h == run.held_out
           c == Cardinality(D(e))
           k == Cardinality(D(e + 1))
<1>1. h \in Nat
  BY RunFacts
<1> HIDE DEF Due, h
<1>2. D(0) = {} /\ D(e + 1) = IF Due(e + 1) THEN D(e) \cup {e + 1} ELSE D(e)
  OBVIOUS
<1>3. IsFiniteSet(D(e)) /\ e + 1 \notin D(e)
  <2>1. IsFiniteSet(1..e) /\ D(e) \subseteq 1..e
    BY FS_Interval
  <2> QED
    BY <2>1, FS_Subset
<1>4. Cardinality(D(0)) = 0
  BY <1>2, FS_EmptySet
<1>5. c \in Nat /\ k = c + (IF Due(e + 1) THEN 1 ELSE 0)
  <2> HIDE DEF D
  <2>1. c \in Nat
    BY <1>3, FS_CardinalityType
  <2>2. CASE Due(e + 1)
    <3>1. Cardinality(D(e) \cup {e + 1}) = c + 1
      BY <1>3, FS_AddElement
    <3> QED
      BY <1>2, <2>1, <2>2, <3>1
  <2>3. CASE ~Due(e + 1)
    BY <1>2, <2>1, <2>3
  <2> QED
    BY <2>1, <2>2, <2>3
<1> HIDE DEF c, k, D
<1>6. 0 * h = 0 /\ c * h \in Nat /\ (c + 1) * h = c * h + h
  BY <1>1, <1>5
<1>7. /\ HeldOutBatches(run, 0) = Cardinality(D(0)) * h
      /\ HeldOutBatches(run, e) = c * h /\ HeldOutBatches(run, e + 1) = k * h
  BY DEF HeldOutBatches, c, k, D, Due, h
<1>8. Due(e + 1) <=> ValidationDue(run, e + 1)
  BY DEF Due
<1> QED
  BY <1>1, <1>4, <1>5, <1>6, <1>7, <1>8 DEF h

LEMMA ProgramShape ==
  ASSUME run \in RunRecords, part \in Parts
  PROVE  /\ Program \in Seq(Calls)
         /\ Len(Program) \in Nat
         /\ \A k \in 1..Len(Program) : Program[k] \in Calls
         /\ StartPlace(run.device) \in Nat \ {0}
         /\ part = "batch" =>
              TellsOfStep(Program, StepStartsAt(batch_idx), StepEndsAt(batch_idx),
                          StartPlace(run.device))
         /\ part # "batch" => \A k \in 1..Len(Program) : Program[k].call \notin StepCalls
<1>1. run.device \in Devices
  BY RunFacts
<1>2. StartPlace(run.device) \in Nat \ {0}
  <2>1. LoadLen(run.device) \in Nat
    BY <1>1, LoadPlain
  <2> QED
    BY <2>1 DEF StartPlace
<1>3. ASSUME part = "batch"
      PROVE  TellsOfStep(Program, StepStartsAt(batch_idx), StepEndsAt(batch_idx),
                         StartPlace(run.device))
  <2> DEFINE f == StepStartsAt(batch_idx)
             l == StepEndsAt(batch_idx)
             m == run.per_step > 1
  <2>1. f \in BOOLEAN /\ l \in BOOLEAN /\ m \in BOOLEAN
    BY DEF StepStartsAt, StepEndsAt
  <2> HIDE DEF f, l, m
  <2>2. BatchProgram[[device |-> run.device, first |-> f, last |-> l, summed |-> m]]
          = TrainBatch(run.device, f, l, m)
    BY <1>1, <2>1 DEF BatchProgram, BatchKinds
  <2>3. Program = BatchProgram[[device |-> run.device, first |-> f, last |-> l, summed |-> m]]
    BY <1>3 DEF Program, BatchKind, f, l, m
  <2>4. TellsOfStep(TrainBatch(run.device, f, l, m), f, l, StartPlace(run.device))
    BY <1>1, <2>1, BatchTells
  <2>5. TellsOfStep(Program, f, l, StartPlace(run.device))
    BY <2>2, <2>3, <2>4
  <2> QED
    BY <2>5 DEF f, l
<1>4. ASSUME part # "batch"
      PROVE  Program \in Seq(PlainCalls)
  <2>1. <<>> \in Seq(PlainCalls)
    OBVIOUS
  <2>2. CASE part = "evaluate"
    BY <1>1, <2>2, OtherPartsPlain DEF Program
  <2>3. CASE part = "save"
    BY <2>3, OtherPartsPlain DEF Program
  <2>4. CASE part = "restore"
    BY <2>4, OtherPartsPlain DEF Program
  <2>5. CASE part \in {"ready", "epoch_end", "stop"}
    BY <2>1, <2>5 DEF Program
  <2> QED
    BY <1>4, <2>2, <2>3, <2>4, <2>5 DEF Parts
<1>5. part # "batch" => /\ Program \in Seq(Calls)
                        /\ \A k \in 1..Len(Program) : Program[k].call \notin StepCalls
  BY <1>4, PlainSeq DEF Plain
<1>6. Program \in Seq(Calls)
  BY <1>3, <1>5 DEF TellsOfStep
<1> HIDE DEF Program
<1>7. Len(Program) \in Nat /\ \A k \in 1..Len(Program) : Program[k] \in Calls
  BY <1>6
<1> QED
  BY <1>2, <1>3, <1>5, <1>6, <1>7

(* The calls of a step, at their places of a batch. *)
LEMMA CallPlaces ==
  ASSUME run \in RunRecords, part \in Parts, pc \in Nat \ {0}, pc <= Len(Program)
  PROVE  /\ CurrentCall \in Calls
         /\ CurrentCall.call \in StepCalls => part = "batch"
         /\ part = "batch" =>
              /\ StartPlace(run.device) < Len(Program) - 1
              /\ CurrentCall.call = "on_train_step_start" <=>
                   StepStartsAt(batch_idx) /\ pc = StartPlace(run.device)
              /\ CurrentCall.call = "on_train_step_end" <=>
                   StepEndsAt(batch_idx) /\ pc = Len(Program) - 1
              /\ CurrentCall.call = "on_batch_end" <=> pc = Len(Program)
<1>1. pc \in 1..Len(Program)
  BY ProgramShape
<1> QED
  BY <1>1, ProgramShape DEF CurrentCall, TellsOfStep

-----------------------------------------------------------------------------
(* Steps are open from their first batch to their last                     *)

LEMMA BatchesNat ==
  ASSUME ProfileTypeInv
  PROVE  BatchesSoFar \in Nat /\ CompletedBatches \in Nat
<1>1. run.batches \in Nat /\ epoch \in Nat /\ batch_idx \in Nat /\ pc \in Nat
  BY RunFacts DEF ProfileTypeInv
<1>2. PICK past, next : past = epoch * run.batches /\ next = (epoch + 1) * run.batches
  OBVIOUS
<1>3. past \in Nat /\ next \in Nat
  BY <1>1, <1>2
<1>4. CompletedBatches = past + batch_idx
  BY <1>2 DEF CompletedBatches
<1>5. CompletedBatches \in Nat /\ CompletedBatches + 1 \in Nat /\ CompletedBatches + 0 \in Nat
  BY <1>1, <1>3, <1>4
<1>6. BatchesSoFar \in {0, CompletedBatches + 1, CompletedBatches + 0, past, next}
  BY <1>2 DEF BatchesSoFar
<1> QED
  BY <1>3, <1>5, <1>6

LEMMA SameProgram ==
  ASSUME UNCHANGED <<run, part, batch_idx>>
  PROVE  /\ Program' = Program
         /\ StepStartsAt(batch_idx)' = StepStartsAt(batch_idx)
         /\ StepEndsAt(batch_idx)' = StepEndsAt(batch_idx)
         /\ StartPlace(run.device)' = StartPlace(run.device)
BY DEF Program, BatchKind, StepStartsAt, StepEndsAt, StartPlace, LoadLen

(* A call that is neither the start nor the end of a step. *)
LEMMA CallWithinStep ==
  ASSUME ProfileTypeInv, pc <= Len(Program), pc' = pc + 1,
         UNCHANGED <<run, part, epoch, batch_idx>>,
         CurrentCall.call \notin {"on_train_step_start", "on_train_step_end"}
  PROVE  /\ StepOpen' <=> StepOpen
         /\ BatchesSoFar' = BatchesSoFar
                              + (IF CurrentCall.call = "on_batch_end" THEN 1 ELSE 0)
<1> DEFINE n == Len(Program)
           p == StartPlace(run.device)
<1>1. /\ n \in Nat /\ p \in Nat /\ pc \in Nat
      /\ Program' = Program /\ p' = p /\ n' = n
      /\ StepStartsAt(batch_idx)' = StepStartsAt(batch_idx)
      /\ StepEndsAt(batch_idx)' = StepEndsAt(batch_idx)
  BY ProgramShape, SameProgram DEF ProfileTypeInv
<1>2. part = "batch" =>
        /\ p < n - 1
        /\ StepStartsAt(batch_idx) => pc # p
        /\ StepEndsAt(batch_idx) => pc # n - 1
        /\ CurrentCall.call = "on_batch_end" <=> pc = n
  BY CallPlaces DEF ProfileTypeInv
<1>3. part # "batch" => CurrentCall.call # "on_batch_end"
  BY CallPlaces DEF ProfileTypeInv, StepCalls
<1>4. CompletedBatches' = CompletedBatches /\ CompletedBatches \in Nat /\ BatchesSoFar \in Nat
  BY BatchesNat DEF CompletedBatches
<1>5. StepOpen' <=> StepOpen
  <2>1. StepOpen <=> part = "batch" /\ (StepStartsAt(batch_idx) => pc > p)
                                    /\ (StepEndsAt(batch_idx) => pc < n)
    BY DEF StepOpen
  <2>2. StepOpen' <=> part = "batch" /\ (StepStartsAt(batch_idx) => pc + 1 > p)
                                     /\ (StepEndsAt(batch_idx) => pc + 1 < n)
    BY <1>1 DEF StepOpen
  <2> HIDE DEF n, p
  <2> QED
    BY <1>1, <1>2, <2>1, <2>2
<1>6. BatchesSoFar' = BatchesSoFar + (IF CurrentCall.call = "on_batch_end" THEN 1 ELSE 0)
  <2>1. CASE part = "batch"
    <3>1. /\ BatchesSoFar = CompletedBatches + (IF pc > n THEN 1 ELSE 0)
          /\ BatchesSoFar' = CompletedBatches + (IF pc + 1 > n THEN 1 ELSE 0)
      BY <1>1, <1>4, <2>1 DEF BatchesSoFar
    <3> HIDE DEF n, p
    <3> QED
      BY <1>1, <1>2, <1>4, <2>1, <3>1
  <2>2. CASE part # "batch"
    <3>1. BatchesSoFar' = BatchesSoFar
      BY <2>2 DEF BatchesSoFar
    <3> QED
      BY <1>3, <1>4, <2>2, <3>1
  <2> QED
    BY <2>1, <2>2
<1> QED
  BY <1>5, <1>6

LEMMA NothingOutsideBatches ==
  ASSUME UNCHANGED <<run, part, epoch, batch_idx>>, part # "batch"
  PROVE  /\ StepOpen' <=> StepOpen
         /\ BatchesSoFar' = BatchesSoFar
BY DEF StepOpen, BatchesSoFar

(* A batch that begins is within a step unless it is the first of one. *)
LEMMA BatchBegins ==
  ASSUME run \in RunRecords, run' = run, part' = "batch"
  PROVE  /\ Len(Program') \in Nat /\ Len(Program') > 2
         /\ pc' = 1 => (StepOpen' <=> ~(batch_idx' % run.per_step = 0))
<1>1. Len(Program') \in Nat /\ Len(Program') > 2
  <2> DEFINE f == StepStartsAt(batch_idx)'
             l == StepEndsAt(batch_idx)'
             m == run.per_step > 1
             q == BatchProgram[[device |-> run.device, first |-> f, last |-> l, summed |-> m]]
  <2>1. f \in BOOLEAN /\ l \in BOOLEAN /\ m \in BOOLEAN /\ run.device \in Devices
    BY RunFacts DEF StepStartsAt, StepEndsAt
  <2>2. Program' = q
    BY DEF Program, BatchKind
  <2> HIDE DEF f, l, m
  <2>3. q = TrainBatch(run.device, f, l, m)
    BY <2>1 DEF BatchProgram, BatchKinds
  <2>4. TellsOfStep(TrainBatch(run.device, f, l, m), f, l, StartPlace(run.device))
    BY <2>1, BatchTells
  <2>5. q \in Seq(Calls) /\ StartPlace(run.device) < Len(q) - 1
    BY <2>3, <2>4 DEF TellsOfStep
  <2>6. StartPlace(run.device) \in Nat \ {0}
    BY <2>1, LoadPlain DEF StartPlace
  <2> HIDE DEF q
  <2>7. Len(q) \in Nat /\ Len(q) > 2
    BY <2>5, <2>6
  <2> QED
    BY <2>2, <2>7
<1>2. StartPlace(run.device)' \in Nat \ {0}
  <2>1. \A d \in Devices : StartPlace(d) \in Nat \ {0}
    BY LoadPlain DEF StartPlace
  <2>2. run.device \in Devices /\ StartPlace(run.device)' = StartPlace(run.device)
    BY RunFacts DEF StartPlace, LoadLen
  <2> QED
    BY <2>1, <2>2
<1>3. pc' = 1 => (StepOpen' <=> (StepStartsAt(batch_idx)' => 1 > StartPlace(run.device)')
                                /\ (StepEndsAt(batch_idx)' => 1 < Len(Program')))
  BY DEF StepOpen
<1>4. StepStartsAt(batch_idx)' <=> batch_idx' % run.per_step = 0
  BY DEF StepStartsAt
<1> QED
  BY <1>1, <1>2, <1>3, <1>4

LEMMA TurnKeepsSteps ==
  ASSUME ProfileTypeInv,
         NextBatch \/ BatchesDone \/ NextEvaluation \/ EvaluationDone \/ SaveLatest
           \/ ContinueTraining \/ StopTraining
  PROVE  /\ StepOpen' <=> StepOpen
         /\ BatchesSoFar' = BatchesSoFar
         /\ UNCHANGED <<timer, cuda, run, running, now, outcome, report, ran, steps>>
         /\ part' \in Parts \ {"restore", "ready"} /\ pc' = 1
         /\ epoch' \in Nat /\ batch_idx' \in Nat
         /\ running = NoOp
<1>1. UNCHANGED <<timer, cuda, run, running, now, outcome, report, ran, steps>>
  BY DEF NextBatch, BatchesDone, NextEvaluation, EvaluationDone, SaveLatest, ContinueTraining,
         StopTraining, Turn, history
<1>2. /\ part' \in Parts \ {"restore", "ready"} /\ pc' = 1 /\ epoch' \in Nat /\ batch_idx' \in Nat
      /\ running = NoOp /\ pc > Len(Program)
  BY DEF NextBatch, BatchesDone, NextEvaluation, EvaluationDone, SaveLatest, ContinueTraining,
         StopTraining, Turn, PartDone, Parts, ProfileTypeInv
<1>3. /\ run.batches \in Nat /\ run.per_step \in Nat \ {0} /\ epoch \in Nat /\ batch_idx \in Nat
      /\ pc \in Nat /\ Len(Program) \in Nat /\ run \in RunRecords /\ part \in Parts
  BY RunFacts, ProgramShape DEF ProfileTypeInv
<1>4. part = "batch" => (StepOpen <=> ~StepEndsAt(batch_idx))
  <2>1. part = "batch" => StartPlace(run.device) < Len(Program) - 1
    BY <1>3, ProgramShape DEF TellsOfStep
  <2>2. part = "batch" => pc > StartPlace(run.device) /\ ~(pc < Len(Program))
    BY <1>2, <1>3, <2>1, ProgramShape
  <2> QED
    BY <2>2 DEF StepOpen
<1>5. part = "batch" => BatchesSoFar = epoch * run.batches + batch_idx + 1
  BY <1>2 DEF BatchesSoFar, CompletedBatches
<1>6. ASSUME NEW e \in Nat
      PROVE  (e + 1) * run.batches = e * run.batches + run.batches /\ e * run.batches \in Nat
  <2> DEFINE b == run.batches
  <2>1. b \in Nat
    BY <1>3
  <2> HIDE DEF b
  <2>2. (e + 1) * b = e * b + b /\ e * b \in Nat
    BY <2>1
  <2> QED
    BY <2>2 DEF b
<1>7. run' = run /\ part' \in Parts
  BY <1>1, <1>2
<1>8. part' = "batch" => Len(Program') \in Nat /\ Len(Program') > 2
  BY <1>3, <1>7, BatchBegins
<1>9. part' = "batch" => (StepOpen' <=> ~(batch_idx' % run.per_step = 0))
  BY <1>2, <1>3, <1>7, BatchBegins
<1>10. part' = "batch" => BatchesSoFar' = epoch' * run.batches + batch_idx'
  <2>1. part' = "batch" => ~(pc' > Len(Program'))
    BY <1>2, <1>8
  <2>2. part' = "batch" => BatchesSoFar' = (epoch' * run'.batches + batch_idx')
                                             + (IF pc' > Len(Program') THEN 1 ELSE 0)
    BY DEF BatchesSoFar, CompletedBatches
  <2>3. epoch' * run.batches \in Nat /\ batch_idx' \in Nat
    BY <1>2, <1>6
  <2> QED
    BY <1>7, <2>1, <2>2, <2>3
<1>11. part \notin {"restore", "ready", "batch", "stop"} =>
         ~StepOpen /\ BatchesSoFar = epoch * run.batches + run.batches
  BY <1>3, <1>6 DEF StepOpen, BatchesSoFar
<1>12. part' \notin {"restore", "ready", "batch", "stop"} =>
         ~StepOpen' /\ BatchesSoFar' = epoch' * run.batches + run.batches
  BY <1>2, <1>6, <1>7 DEF StepOpen, BatchesSoFar
<1>13. part' = "stop" => ~StepOpen' /\ BatchesSoFar' = epoch' * run.batches
  BY <1>2, <1>7 DEF StepOpen, BatchesSoFar
<1>14. (StepOpen' <=> StepOpen) /\ BatchesSoFar' = BatchesSoFar
  <2>1. CASE NextBatch
    <3>1. part = "batch" /\ part' = "batch" /\ epoch' = epoch /\ batch_idx' = batch_idx + 1
          /\ batch_idx + 1 < run.batches
      BY <2>1 DEF NextBatch, Turn
    <3>2. StepEndsAt(batch_idx) <=> (batch_idx + 1) % run.per_step = 0
      BY <1>3, <3>1 DEF StepEndsAt
    <3>3. batch_idx' % run.per_step = (batch_idx + 1) % run.per_step
      BY <3>1
    <3>4. StepOpen' <=> StepOpen
      BY <1>4, <1>9, <3>1, <3>2, <3>3
    <3>5. BatchesSoFar' = BatchesSoFar
      <4>1. PICK before : before = epoch * run.batches
        OBVIOUS
      <4>2. before \in Nat /\ epoch' * run.batches = before
        BY <1>3, <1>6, <3>1, <4>1
      <4>3. BatchesSoFar = before + batch_idx + 1
        BY <1>5, <3>1, <4>1
      <4>4. BatchesSoFar' = before + (batch_idx + 1)
        BY <1>10, <3>1, <4>2
      <4> QED
        BY <1>3, <4>2, <4>3, <4>4
    <3> QED
      BY <3>4, <3>5
  <2>2. CASE BatchesDone
    <3>1. part = "batch" /\ part' \in {"evaluate", "epoch_end"} /\ epoch' = epoch
          /\ batch_idx + 1 = run.batches
      BY <2>2 DEF BatchesDone, Turn
    <3>2. ~StepOpen /\ ~StepOpen'
      BY <1>4, <1>12, <3>1 DEF StepEndsAt
    <3> DEFINE product == epoch * run.batches
    <3>3. product \in Nat /\ BatchesSoFar = product + batch_idx + 1
      BY <1>3, <1>5, <1>6, <3>1
    <3>4. BatchesSoFar' = product + run.batches
      BY <1>12, <3>1
    <3> HIDE DEF product
    <3> QED
      BY <1>3, <3>1, <3>2, <3>3, <3>4
  <2>3. CASE NextEvaluation \/ EvaluationDone \/ SaveLatest
    <3>1. /\ part \in {"evaluate", "epoch_end"} /\ part' \in {"evaluate", "epoch_end", "save"}
          /\ epoch' = epoch
      BY <2>3 DEF NextEvaluation, EvaluationDone, SaveLatest, Turn
    <3> QED
      BY <1>11, <1>12, <3>1
  <2>4. CASE ContinueTraining \/ StopTraining
    <3>1. /\ part \in {"epoch_end", "save"} /\ part' \in {"batch", "stop"}
          /\ epoch' = epoch + 1
          /\ (part' = "batch" => batch_idx' = 0)
      BY <2>4 DEF ContinueTraining, StopTraining, Turn
    <3>2. 0 % run.per_step = 0
      BY <1>3
    <3>3. epoch' * run.batches = epoch * run.batches + run.batches
          /\ epoch' * run.batches \in Nat
      BY <1>2, <1>3, <1>6, <3>1
    <3> QED
      BY <1>9, <1>10, <1>11, <1>13, <3>1, <3>2, <3>3
  <2> QED
    BY <2>1, <2>2, <2>3, <2>4
<1> QED
  BY <1>1, <1>2, <1>14

-----------------------------------------------------------------------------
(* The window *)

LEMMA StepFields ==
  ASSUME ProfileTypeInv
  PROVE  /\ Len(steps) \in Nat
         /\ \A i \in 1..Len(steps) :
              /\ steps[i] \in StepRecords
              /\ steps[i].from \in Nat /\ steps[i].to \in Nat /\ steps[i].batches \in Nat
<1>1. Len(steps) \in Nat /\ \A i \in 1..Len(steps) : steps[i] \in StepRecords
  BY DEF ProfileTypeInv
<1> QED
  BY <1>1 DEF StepRecords

LEMMA FinishedNat ==
  ASSUME ProfileTypeInv, RunningInv
  PROVE  /\ Len(ran) \in Nat /\ Finished \in Nat /\ Finished <= Len(ran)
         /\ running = NoOp => Finished = Len(ran)
         /\ running # NoOp => Finished + 1 = Len(ran)
<1>1. Len(ran) \in Nat /\ (running # NoOp => Len(ran) > 0)
  BY EmptySeq DEF ProfileTypeInv, RunningInv
<1> QED
  BY <1>1 DEF Finished

LEMMA WindowBounds ==
  ASSUME ProfileInv, NEW f, Opens(f)
  PROVE  /\ f \in 1..Len(steps) /\ Len(steps) \in Nat
         /\ run.requested \in Nat \ {0} /\ run.skip \in Nat
         /\ EndedSince(f) \in Nat /\ Finished \in Nat
         /\ EndedSince(f) >= run.requested => f + run.requested - 1 \in f..Len(steps)
         /\ WindowStart(f) \in Nat /\ WindowEnd(f) \in Nat
         /\ WindowStart(f) <= WindowEnd(f) /\ WindowEnd(f) <= Finished
<1>1. Len(steps) \in Nat /\ \A i \in 1..Len(steps) : steps[i] \in StepRecords
  BY DEF ProfileInv, ProfileTypeInv
<1>2. f \in 1..Len(steps)
  BY DEF Opens
<1>3. run.requested \in Nat \ {0} /\ run.skip \in Nat
  <2>1. steps # <<>>
    BY <1>1, <1>2
  <2> QED
    BY <2>1, RunFacts DEF ProfileInv, ProfileTypeInv, StartInv
<1>4. EndedSince(f) \in Nat
  BY <1>1, <1>2 DEF EndedSince
<1>5. EndedSince(f) >= run.requested => f + run.requested - 1 \in f..Len(steps)
  BY <1>1, <1>2, <1>3 DEF EndedSince
<1>6. Finished \in Nat
  BY FinishedNat DEF ProfileInv
<1>7. \A i \in 1..Len(steps) : /\ steps[i].from \in Nat /\ steps[i].to \in Nat
                               /\ steps[i].from <= steps[i].to /\ steps[i].to <= Finished
  BY <1>1 DEF StepRecords, ProfileInv, StepsInv
<1>8. \A i, j \in 1..Len(steps) : i < j => steps[i].from <= steps[j].from
  BY DEF ProfileInv, StepsInv
<1>9. WindowStart(f) \in Nat /\ WindowStart(f) <= Finished
  BY <1>2, <1>6, <1>7 DEF WindowStart
<1>10. CASE EndedSince(f) < run.requested
  BY <1>1, <1>2, <1>3, <1>4, <1>5, <1>6, <1>9, <1>10 DEF WindowEnd
<1>11. CASE EndedSince(f) >= run.requested
  <2> DEFINE g == f + run.requested - 1
  <2>1. g \in f..Len(steps) /\ g \in 1..Len(steps)
    BY <1>1, <1>2, <1>5, <1>11
  <2>2. WindowEnd(f) = steps[g].to
    BY <1>3, <1>4, <1>11 DEF WindowEnd
  <2>3. steps[f].from <= steps[g].from
    BY <1>2, <1>7, <1>8, <2>1
  <2> HIDE DEF g
  <2>4. WindowEnd(f) \in Nat /\ WindowEnd(f) <= Finished /\ steps[f].from <= WindowEnd(f)
    BY <1>2, <1>6, <1>7, <2>1, <2>2, <2>3
  <2> QED
    BY <1>1, <1>2, <1>3, <1>4, <1>5, <1>6, <1>9, <2>4 DEF WindowStart
<1> QED
  BY <1>3, <1>4, <1>10, <1>11

LEMMA OneOpens ==
  ASSUME ProfileTypeInv, NEW f, NEW g, Opens(f), Opens(g)
  PROVE  f = g
<1>1. f \in 1..Len(steps) /\ g \in 1..Len(steps) /\ Len(steps) \in Nat
  BY DEF Opens, ProfileTypeInv
<1>2. run.skip \in Nat /\ \A i \in 1..Len(steps) : steps[i].batches \in Nat
  <2>1. \A i \in 1..Len(steps) : steps[i] \in StepRecords
    BY DEF ProfileTypeInv
  <2> QED
    BY <2>1, RunFacts DEF StepRecords, ProfileTypeInv
<1>3. ~(f < g) /\ ~(g < f)
  BY <1>1, <1>2 DEF Opens
<1> QED
  BY <1>1, <1>3

LEMMA SameWindow ==
  ASSUME UNCHANGED <<run, steps>>, StepOpen' <=> StepOpen
  PROVE  /\ NoneOpens' <=> NoneOpens
         /\ \A f : /\ Opens(f)' <=> Opens(f)
                   /\ EndedSince(f)' = EndedSince(f)
                   /\ WindowStart(f)' = WindowStart(f)
                   /\ Finished' = Finished => WindowEnd(f)' = WindowEnd(f)
                   /\ EndedSince(f) >= run.requested /\ EndedSince(f) \in Nat
                        /\ run.requested \in Nat => WindowEnd(f)' = WindowEnd(f)
<1>1. \A f : EndedSince(f)' = EndedSince(f)
  BY DEF EndedSince
<1> QED
  BY <1>1 DEF NoneOpens, Opens, WindowStart, WindowEnd

(* What leaves the steps alone keeps what is said of them. *)
LEMMA QuietSteps ==
  ASSUME ProfileInv, UNCHANGED <<run, steps>>, StepOpen' <=> StepOpen,
         Finished' \in {Finished, Finished + 1},
         BatchesSoFar' \in {BatchesSoFar, BatchesSoFar + 1}
  PROVE  StepsInv'
<1>1. \A i \in 1..Len(steps) : steps[i].to <= Finished'
  <2> DEFINE b == Finished
             d == Finished'
  <2>1. b \in Nat /\ d \in {b, b + 1}
    BY FinishedNat DEF ProfileInv
  <2>2. \A i \in 1..Len(steps) : steps[i].to \in Nat /\ steps[i].to <= b
    BY StepFields DEF ProfileInv, StepsInv
  <2> HIDE DEF b, d
  <2>3. \A i \in 1..Len(steps) : steps[i].to <= d
    BY <2>1, <2>2
  <2> QED
    BY <2>3 DEF d
<1>2. BatchesSoFar \in Nat
  BY BatchesNat DEF ProfileInv
<1>3. \A i \in 1..Len(steps) : steps[i].batches \in Nat
  BY StepFields DEF ProfileInv
<1>4. \A i \in 1..Len(steps) : steps[i].batches <= BatchesSoFar
  BY DEF ProfileInv, StepsInv
<1>5. \A i \in 1..Len(steps) : steps[i].batches <= BatchesSoFar'
  <2> DEFINE b == BatchesSoFar
             d == BatchesSoFar'
  <2>1. d \in {b, b + 1}
    OBVIOUS
  <2> HIDE DEF b, d
  <2>2. \A i \in 1..Len(steps) : steps[i].batches <= d
    BY <1>2, <1>3, <1>4, <2>1 DEF b
  <2> QED
    BY <2>2 DEF d
<1>6. /\ StepOpen => steps # <<>>
      /\ \A i \in 1..Len(steps) :
           /\ steps[i].from <= steps[i].to
           /\ steps[i].ended <=> ~(StepOpen /\ i = Len(steps))
      /\ \A i, j \in 1..Len(steps) :
           i < j => steps[i].from <= steps[j].from /\ steps[i].batches <= steps[j].batches
  BY DEF ProfileInv, StepsInv
<1> HIDE DEF ProfileInv
<1> QED
  BY <1>1, <1>5, <1>6 DEF StepsInv

LEMMA QuietPool ==
  ASSUME ProfileInv, UNCHANGED <<run, steps, ran, running, cuda>>, StepOpen' <=> StepOpen
  PROVE  CudaInv'
<1>1. Finished' = Finished
  BY DEF Finished
<1>2. SUFFICES ASSUME run.device = "CUDA"
               PROVE  CudaInv'
  BY DEF CudaInv
<1>3. \A lo, hi : /\ Kept(lo, hi)' = Kept(lo, hi)
                  /\ Holds(lo, hi)' <=> Holds(lo, hi)
                  /\ Idle(lo, hi)' <=> Idle(lo, hi)
                  /\ Marking(lo, hi)' <=> Marking(lo, hi)
  BY DEF Kept, Holds, Idle, Marking
<1>4. NoneOpens' \/ ~run.profile_backend_ops => Holds(0, 0)' /\ Idle(0, 0)'
  BY <1>2, <1>3, SameWindow DEF ProfileInv, CudaInv
<1>5. ASSUME run.profile_backend_ops, NEW f \in 1..Len(steps), Opens(f)'
      PROVE  /\ Holds(WindowStart(f), WindowEnd(f))'
             /\ IF running # NoOp /\ EndedSince(f) < run.requested
                THEN Marking(WindowStart(f), WindowEnd(f))'
                ELSE Idle(WindowStart(f), WindowEnd(f))'
  <2>1. Opens(f)
    BY <1>5, SameWindow
  <2>2. WindowStart(f)' = WindowStart(f) /\ WindowEnd(f)' = WindowEnd(f)
    BY <1>1, SameWindow
  <2>3. /\ Holds(WindowStart(f), WindowEnd(f))
        /\ IF running # NoOp /\ EndedSince(f) < run.requested
           THEN Marking(WindowStart(f), WindowEnd(f))
           ELSE Idle(WindowStart(f), WindowEnd(f))
    BY <1>2, <1>5, <2>1 DEF ProfileInv, CudaInv
  <2> QED
    BY <2>2, <2>3 DEF Kept, Holds, Idle, Marking
<1>6. \A f : EndedSince(f)' = EndedSince(f)
  BY SameWindow
<1> QED
  BY <1>2, <1>4, <1>5, <1>6 DEF CudaInv

-----------------------------------------------------------------------------
(* The calls of a batch and the steps *)

LEMMA ObserveFacts ==
  ASSUME ProfileInv, Observe
  PROVE  /\ outcome = "running" /\ running = NoOp /\ Finished = Len(ran) /\ Len(ran) \in Nat
         /\ run \in RunRecords /\ part \in Parts /\ pc \in Nat \ {0} /\ pc <= Len(Program)
         /\ pc' = pc + 1 /\ now' = now + 1
         /\ UNCHANGED <<cuda, run, part, epoch, batch_idx, running, outcome, ran>>
         /\ Finished' = Finished
         /\ timer' = IF run.profile_backend_ops THEN TimedCalls(CurrentCall.call) ELSE timer
<1>1. /\ outcome = "running" /\ pc <= Len(Program) /\ CurrentCall.call # "op"
      /\ pc' = pc + 1 /\ now' = now + 1
      /\ UNCHANGED <<cuda, run, part, epoch, batch_idx, running, outcome, ran>>
      /\ timer' = IF run.profile_backend_ops THEN TimedCalls(CurrentCall.call) ELSE timer
  BY DEF Observe
<1>2. running = NoOp
  BY <1>1 DEF ProfileInv, RunningInv
<1>3. Finished = Len(ran) /\ Len(ran) \in Nat
  BY <1>2, FinishedNat DEF ProfileInv
<1>4. Finished' = Finished
  BY <1>1 DEF Finished
<1> QED
  BY <1>1, <1>2, <1>3, <1>4 DEF ProfileInv, ProfileTypeInv

LEMMA StepBegins ==
  ASSUME ProfileInv, Observe, CurrentCall.call = "on_train_step_start"
  PROVE  /\ ~StepOpen /\ StepOpen'
         /\ BatchesSoFar' = BatchesSoFar /\ BatchesSoFar = CompletedBatches
         /\ steps' = Append(steps, [from |-> Len(ran), to |-> Len(ran),
                                    batches |-> BatchesSoFar, ended |-> FALSE])
<1>1. part = "batch" /\ StepStartsAt(batch_idx) /\ pc = StartPlace(run.device)
      /\ StartPlace(run.device) < Len(Program) - 1 /\ Len(Program) \in Nat
      /\ StartPlace(run.device) \in Nat
  <2>1. part = "batch"
    BY ObserveFacts, CallPlaces DEF StepCalls
  <2> QED
    BY <2>1, ObserveFacts, CallPlaces, ProgramShape
<1>2. /\ Program' = Program /\ part' = part /\ pc' = pc + 1
      /\ StepStartsAt(batch_idx)' = StepStartsAt(batch_idx)
      /\ StepEndsAt(batch_idx)' = StepEndsAt(batch_idx)
      /\ StartPlace(run.device)' = StartPlace(run.device)
      /\ CompletedBatches' = CompletedBatches /\ CompletedBatches \in Nat
  <2>1. UNCHANGED <<run, part, epoch, batch_idx>>
    BY ObserveFacts
  <2>2. CompletedBatches' = CompletedBatches
    BY <2>1 DEF CompletedBatches
  <2>3. CompletedBatches \in Nat
    BY BatchesNat DEF ProfileInv
  <2> QED
    BY <2>1, <2>2, <2>3, SameProgram, ObserveFacts
<1>3. ~StepOpen
  BY <1>1 DEF StepOpen
<1>4. StepOpen'
  BY <1>1, <1>2 DEF StepOpen
<1>5. BatchesSoFar = CompletedBatches
  BY <1>1, <1>2 DEF BatchesSoFar
<1>6. BatchesSoFar' = CompletedBatches
  <2>1. BatchesSoFar' = CompletedBatches' + (IF pc' > Len(Program') THEN 1 ELSE 0)
    BY <1>1, <1>2 DEF BatchesSoFar
  <2>2. ~(pc' > Len(Program'))
    BY <1>1, <1>2
  <2> QED
    BY <1>2, <2>1, <2>2
<1> QED
  BY <1>3, <1>4, <1>5, <1>6 DEF Observe, Remember

LEMMA StepFinishes ==
  ASSUME ProfileInv, Observe, CurrentCall.call = "on_train_step_end"
  PROVE  /\ StepOpen /\ ~StepOpen'
         /\ BatchesSoFar' = BatchesSoFar
         /\ steps' = [steps EXCEPT ![Len(steps)].to = Len(ran), ![Len(steps)].ended = TRUE]
<1>1. part = "batch" /\ StepEndsAt(batch_idx) /\ pc = Len(Program) - 1
      /\ StartPlace(run.device) < Len(Program) - 1 /\ Len(Program) \in Nat
      /\ StartPlace(run.device) \in Nat
  <2>1. part = "batch"
    BY ObserveFacts, CallPlaces DEF StepCalls
  <2> QED
    BY <2>1, ObserveFacts, CallPlaces, ProgramShape
<1>2. /\ Program' = Program /\ part' = part /\ pc' = pc + 1
      /\ StepStartsAt(batch_idx)' = StepStartsAt(batch_idx)
      /\ StepEndsAt(batch_idx)' = StepEndsAt(batch_idx)
      /\ StartPlace(run.device)' = StartPlace(run.device)
      /\ CompletedBatches' = CompletedBatches /\ CompletedBatches \in Nat
  <2>1. UNCHANGED <<run, part, epoch, batch_idx>>
    BY ObserveFacts
  <2>2. CompletedBatches' = CompletedBatches
    BY <2>1 DEF CompletedBatches
  <2>3. CompletedBatches \in Nat
    BY BatchesNat DEF ProfileInv
  <2> QED
    BY <2>1, <2>2, <2>3, SameProgram, ObserveFacts
<1>3. StepOpen
  BY <1>1 DEF StepOpen
<1>4. ~StepOpen'
  BY <1>1, <1>2 DEF StepOpen
<1>5. BatchesSoFar = CompletedBatches
  BY <1>1, <1>2 DEF BatchesSoFar
<1>6. BatchesSoFar' = CompletedBatches
  <2>1. BatchesSoFar' = CompletedBatches' + (IF pc' > Len(Program') THEN 1 ELSE 0)
    BY <1>1, <1>2 DEF BatchesSoFar
  <2>2. ~(pc' > Len(Program'))
    BY <1>1, <1>2
  <2> QED
    BY <1>2, <2>1, <2>2
<1> QED
  BY <1>3, <1>4, <1>5, <1>6 DEF Observe, Remember

LEMMA OtherCallsObserved ==
  ASSUME ProfileInv, Observe,
         CurrentCall.call \notin {"on_train_step_start", "on_train_step_end"}
  PROVE  /\ StepOpen' <=> StepOpen
         /\ BatchesSoFar' = BatchesSoFar
                              + (IF CurrentCall.call = "on_batch_end" THEN 1 ELSE 0)
         /\ steps' = steps
<1>1. steps' = steps
  BY DEF Observe, Remember
<1>2. UNCHANGED <<run, part, epoch, batch_idx>> /\ pc <= Len(Program) /\ pc' = pc + 1
  BY ObserveFacts
<1> QED
  BY <1>1, <1>2, CallWithinStep DEF ProfileInv

LEMMA OneAppended ==
  ASSUME NEW S, NEW s \in Seq(S), NEW e \in S
  PROVE  /\ Append(s, e) \in Seq(S) /\ Len(s) \in Nat /\ Len(Append(s, e)) = Len(s) + 1
         /\ \A i \in 1..Len(s) : Append(s, e)[i] = s[i]
         /\ Append(s, e)[Len(s) + 1] = e
OBVIOUS

(* The steps and the window when a step begins: it may be the first after  *)
(* the skipped batches.                                                    *)
LEMMA BeganSteps ==
  ASSUME ProfileInv, Observe, CurrentCall.call = "on_train_step_start"
  PROVE  /\ steps' \in Seq(StepRecords) /\ Len(steps) \in Nat /\ Len(steps') = Len(steps) + 1
         /\ \A i \in 1..Len(steps) : steps'[i] = steps[i]
         /\ steps'[Len(steps) + 1].from = Len(ran)
         /\ steps'[Len(steps) + 1].to = Len(ran)
         /\ steps'[Len(steps) + 1].batches = BatchesSoFar
         /\ ~steps'[Len(steps) + 1].ended
<1> DEFINE e == [from |-> Len(ran), to |-> Len(ran), batches |-> BatchesSoFar,
                 ended |-> FALSE]
<1>1. e \in StepRecords
  <2>1. Len(ran) \in Nat /\ BatchesSoFar \in Nat
    BY ObserveFacts, BatchesNat DEF ProfileInv
  <2> QED
    BY <2>1 DEF StepRecords
<1>2. e.from = Len(ran) /\ e.to = Len(ran) /\ e.batches = BatchesSoFar /\ ~e.ended
  OBVIOUS
<1>3. steps \in Seq(StepRecords)
  BY DEF ProfileInv, ProfileTypeInv
<1>4. steps' = Append(steps, e)
  BY StepBegins
<1> HIDE DEF e
<1> QED
  BY <1>1, <1>2, <1>3, <1>4, OneAppended

LEMMA BeganStepsInv ==
  ASSUME ProfileInv, Observe, CurrentCall.call = "on_train_step_start"
  PROVE  StepsInv'
<1> DEFINE n == Len(steps)
<1>1. /\ n \in Nat /\ Len(steps') = n + 1
      /\ \A i \in 1..n : steps'[i] = steps[i]
      /\ steps'[n + 1].from = Len(ran) /\ steps'[n + 1].to = Len(ran)
      /\ steps'[n + 1].batches = BatchesSoFar /\ ~steps'[n + 1].ended
      /\ steps' \in Seq(StepRecords)
  BY BeganSteps
<1>2. /\ Finished = Len(ran) /\ Finished' = Finished /\ Len(ran) \in Nat
      /\ BatchesSoFar \in Nat /\ BatchesSoFar' = BatchesSoFar /\ ~StepOpen /\ StepOpen'
  BY ObserveFacts, StepBegins, BatchesNat DEF ProfileInv
<1>3. \A i \in 1..n : /\ steps[i].from \in Nat /\ steps[i].to \in Nat
                      /\ steps[i].from <= steps[i].to
                      /\ steps[i].to <= Finished
                      /\ steps[i].batches <= BatchesSoFar
                      /\ steps[i].ended
  BY <1>2, StepFields DEF ProfileInv, StepsInv
<1>4. \A i, j \in 1..n :
        i < j => steps[i].from <= steps[j].from /\ steps[i].batches <= steps[j].batches
  BY DEF ProfileInv, StepsInv
<1>5. \A i \in 1..n : steps[i].from <= Len(ran)
  <2> SUFFICES ASSUME NEW i \in 1..n PROVE steps[i].from <= Len(ran)
    OBVIOUS
  <2> QED
    BY <1>2, <1>3
<1> HIDE DEF n
<1>6. \A i \in 1..(n + 1) : i \in 1..n \/ i = n + 1
  BY <1>1
<1>7. steps' # <<>>
  <2>1. steps' = <<>> => Len(steps') = 0
    OBVIOUS
  <2> QED
    BY <1>1, <2>1
<1>8. \A i \in 1..(n + 1) :
        /\ steps'[i].from <= steps'[i].to
        /\ steps'[i].to <= Finished'
        /\ steps'[i].batches <= BatchesSoFar'
        /\ steps'[i].ended <=> ~(i = n + 1)
  BY <1>1, <1>2, <1>3, <1>6
<1>9. \A i, j \in 1..(n + 1) :
        i < j => steps'[i].from <= steps'[j].from /\ steps'[i].batches <= steps'[j].batches
  <2> SUFFICES ASSUME NEW i \in 1..(n + 1), NEW j \in 1..(n + 1), i < j
               PROVE  steps'[i].from <= steps'[j].from /\ steps'[i].batches <= steps'[j].batches
    OBVIOUS
  <2>1. i \in 1..n /\ steps'[i] = steps[i]
    BY <1>1
  <2>2. CASE j \in 1..n
    <3>1. steps'[j] = steps[j]
      BY <1>1, <2>2
    <3> QED
      BY <1>4, <2>1, <2>2, <3>1
  <2>3. CASE j = n + 1
    BY <1>1, <1>3, <1>5, <2>1, <2>3
  <2> QED
    BY <1>6, <2>2, <2>3
<1> QED
  BY <1>1, <1>2, <1>7, <1>8, <1>9 DEF StepsInv

LEMMA BeganWindow ==
  ASSUME ProfileInv, Observe, CurrentCall.call = "on_train_step_start"
  PROVE  /\ \A f : Opens(f) => /\ Opens(f)'
                               /\ EndedSince(f)' = EndedSince(f)
                               /\ WindowStart(f)' = WindowStart(f)
                               /\ WindowEnd(f)' = WindowEnd(f)
         /\ \A f : NoneOpens /\ BatchesSoFar >= run.skip /\ f = Len(steps) + 1 =>
              /\ Opens(f)'
              /\ EndedSince(f)' = 0
              /\ WindowStart(f)' = Finished
              /\ WindowEnd(f)' = Finished
         /\ NoneOpens /\ ~(BatchesSoFar >= run.skip) => NoneOpens'
         /\ NoneOpens' => NoneOpens
         /\ \A f : Opens(f)' =>
              Opens(f) \/ (f = Len(steps) + 1 /\ NoneOpens /\ BatchesSoFar >= run.skip)
<1> DEFINE n == Len(steps)
<1>1. /\ n \in Nat /\ Len(steps') = n + 1
      /\ \A i \in 1..n : steps'[i] = steps[i]
      /\ steps'[n + 1].from = Len(ran)
      /\ steps'[n + 1].batches = BatchesSoFar
  BY BeganSteps
<1>2. /\ Finished = Len(ran) /\ Finished' = Finished /\ Len(ran) \in Nat
      /\ BatchesSoFar \in Nat /\ ~StepOpen /\ StepOpen' /\ run' = run /\ run.skip \in Nat
      /\ run.requested \in Nat
  BY ObserveFacts, StepBegins, BatchesNat, RunFacts DEF ProfileInv
<1>3. ASSUME NEW f, Opens(f)
      PROVE  /\ Opens(f)'
             /\ EndedSince(f)' = EndedSince(f)
             /\ WindowStart(f)' = WindowStart(f)
             /\ WindowEnd(f)' = WindowEnd(f)
  <2>1. /\ f \in 1..n /\ EndedSince(f) \in Nat /\ run.requested \in Nat \ {0}
        /\ EndedSince(f) >= run.requested => f + run.requested - 1 \in f..n
    BY <1>3, WindowBounds
  <2>2. Opens(f)'
    <3>1. \A i \in 1..(n + 1) : i < f => i \in 1..n
      BY <1>1, <2>1
    <3>2. f \in 1..(n + 1)
      BY <1>1, <2>1
    <3>3. /\ steps[f].batches >= run.skip
          /\ \A i \in 1..n : i < f => ~(steps[i].batches >= run.skip)
      BY <1>3 DEF Opens
    <3> QED
      BY <1>1, <1>2, <2>1, <3>1, <3>2, <3>3 DEF Opens
  <2>3. EndedSince(f)' = EndedSince(f)
    BY <1>1, <1>2, <2>1 DEF EndedSince
  <2>4. WindowStart(f)' = WindowStart(f)
    BY <1>1, <2>1 DEF WindowStart
  <2>5. WindowEnd(f)' = WindowEnd(f)
    <3>1. EndedSince(f) >= run.requested =>
            steps'[f + run.requested - 1] = steps[f + run.requested - 1]
      BY <1>1, <2>1
    <3> QED
      BY <1>2, <2>1, <2>3, <3>1 DEF WindowEnd
  <2> QED
    BY <2>2, <2>3, <2>4, <2>5
<1>4. ASSUME NoneOpens, BatchesSoFar >= run.skip, NEW f, f = n + 1
      PROVE  /\ Opens(f)'
             /\ EndedSince(f)' = 0
             /\ WindowStart(f)' = Finished
             /\ WindowEnd(f)' = Finished
  <2>1. \A i \in 1..(n + 1) : i < n + 1 => i \in 1..n
    BY <1>1
  <2>2. Opens(f)'
    BY <1>1, <1>2, <1>4, <2>1 DEF Opens, NoneOpens
  <2>3. EndedSince(f)' = 0
    BY <1>1, <1>2, <1>4 DEF EndedSince
  <2>4. WindowStart(f)' = Finished
    BY <1>1, <1>2, <1>4 DEF WindowStart
  <2>5. run.requested > 0
    BY <1>2, ObserveFacts DEF ProfileInv, StartInv
  <2>6. WindowEnd(f)' = Finished
    BY <1>2, <2>3, <2>5 DEF WindowEnd
  <2> QED
    BY <2>2, <2>3, <2>4, <2>6
<1>5. ASSUME NoneOpens, ~(BatchesSoFar >= run.skip)
      PROVE  NoneOpens'
  BY <1>1, <1>2, <1>5 DEF NoneOpens
<1>6. NoneOpens' => NoneOpens
  BY <1>1, <1>2 DEF NoneOpens
<1>7. ASSUME NEW f, Opens(f)'
      PROVE  Opens(f) \/ (f = n + 1 /\ NoneOpens /\ BatchesSoFar >= run.skip)
  <2>1. /\ f \in 1..(n + 1)
        /\ steps'[f].batches >= run.skip
        /\ \A i \in 1..(n + 1) : i < f => ~(steps'[i].batches >= run.skip)
    BY <1>1, <1>2, <1>7 DEF Opens
  <2>2. CASE f \in 1..n
    <3>1. \A i \in 1..n : i < f => ~(steps[i].batches >= run.skip)
      BY <1>1, <2>1, <2>2
    <3> QED
      BY <1>1, <2>1, <2>2, <3>1 DEF Opens
  <2>3. CASE f = n + 1
    <3>1. \A i \in 1..n : i < f /\ i \in 1..(n + 1)
      BY <1>1, <2>3
    <3>2. \A i \in 1..n : ~(steps[i].batches >= run.skip)
      BY <1>1, <2>1, <3>1
    <3> QED
      BY <1>1, <2>1, <2>3, <3>2 DEF NoneOpens
  <2> QED
    BY <1>1, <2>1, <2>2, <2>3
<1> QED
  BY <1>3, <1>4, <1>5, <1>6, <1>7

LEMMA TimerFields ==
  ASSUME ProfileTypeInv
  PROVE  /\ timer.enabled \in BOOLEAN /\ timer.completed \in Nat /\ timer.recorded \in Nat
         /\ timer = [enabled |-> timer.enabled, completed |-> timer.completed,
                     recorded |-> timer.recorded]
BY DEF ProfileTypeInv, TimerRecords

LEMMA BeganTimer ==
  ASSUME ProfileInv, Observe, CurrentCall.call = "on_train_step_start"
  PROVE  TimerInv' /\ timer' \in TimerRecords
<1>1. /\ run' = run /\ outcome' = outcome /\ outcome = "running"
      /\ BatchesSoFar' = BatchesSoFar /\ BatchesSoFar \in Nat
      /\ run.skip \in Nat /\ run.requested \in Nat \ {0} /\ run.profile_backend_ops \in BOOLEAN
      /\ timer' = IF run.profile_backend_ops
                  THEN TimerStepStart(timer, run.skip, run.requested) ELSE timer
  <2>1. timer' = IF run.profile_backend_ops
                 THEN TimerStepStart(timer, run.skip, run.requested) ELSE timer
    BY ObserveFacts DEF TimedCalls
  <2>2. run.requested > 0
    BY ObserveFacts DEF ProfileInv, StartInv
  <2> QED
    BY <2>1, <2>2, ObserveFacts, StepBegins, BatchesNat, RunFacts DEF ProfileInv
<1>2. /\ timer.enabled \in BOOLEAN /\ timer.completed \in Nat /\ timer.recorded \in Nat
      /\ timer \in TimerRecords
  BY TimerFields DEF ProfileInv, ProfileTypeInv
<1>3. /\ NoneOpens \/ \E f \in 1..Len(steps) : Opens(f)
      /\ run.profile_backend_ops => timer.completed = BatchesSoFar
      /\ NoneOpens \/ ~run.profile_backend_ops => ~timer.enabled /\ timer.recorded = 0
      /\ run.profile_backend_ops =>
           \A f \in 1..Len(steps) : Opens(f) =>
             /\ timer.recorded =
                  IF EndedSince(f) < run.requested THEN EndedSince(f) ELSE run.requested
             /\ timer.enabled <=> EndedSince(f) < run.requested
  BY <1>1 DEF ProfileInv, TimerInv
<1>4. Len(steps) \in Nat /\ Len(steps') = Len(steps) + 1
  BY BeganSteps
<1>5. CASE ~run.profile_backend_ops
  <2>1. timer' = timer
    BY <1>1, <1>5
  <2>2. NoneOpens' \/ \E f \in 1..Len(steps') : Opens(f)'
    <3>1. \A f : Opens(f)' => f \in 1..Len(steps')
      BY DEF Opens
    <3>2. Len(steps) + 1 = Len(steps) + 1
      OBVIOUS
    <3>3. BatchesSoFar >= run.skip \/ ~(BatchesSoFar >= run.skip)
      OBVIOUS
    <3> QED
      BY <1>3, <3>1, <3>2, <3>3, BeganWindow
  <2> QED
    BY <1>1, <1>2, <1>3, <1>5, <2>1, <2>2 DEF TimerInv
<1>6. CASE run.profile_backend_ops /\ ~NoneOpens
  <2>1. PICK f \in 1..Len(steps) : Opens(f)
    BY <1>3, <1>6
  <2>2. EndedSince(f) \in Nat
    BY <2>1, WindowBounds
  <2>3. timer' = timer
    <3>1. /\ timer.recorded =
                  IF EndedSince(f) < run.requested THEN EndedSince(f) ELSE run.requested
          /\ timer.enabled <=> EndedSince(f) < run.requested
      BY <1>3, <1>6, <2>1
    <3>2. timer.enabled \/ ~(timer.recorded < run.requested)
      BY <1>1, <2>2, <3>1
    <3> QED
      BY <1>1, <1>6, <3>2 DEF TimerStepStart
  <2>4. ~NoneOpens'
    BY <1>6, BeganWindow
  <2>5. f \in 1..Len(steps') /\ Opens(f)'
    BY <1>4, <2>1, BeganWindow
  <2>6. \A g : Opens(g)' => /\ g \in 1..Len(steps) /\ Opens(g)
                            /\ EndedSince(g)' = EndedSince(g)
    BY <1>6, BeganWindow DEF Opens
  <2> QED
    BY <1>1, <1>2, <1>3, <1>6, <2>3, <2>4, <2>5, <2>6 DEF TimerInv
<1>7. CASE run.profile_backend_ops /\ NoneOpens /\ ~(BatchesSoFar >= run.skip)
  <2>1. timer' = timer
    BY <1>1, <1>3, <1>7 DEF TimerStepStart
  <2>2. NoneOpens'
    BY <1>7, BeganWindow
  <2>3. \A g : ~Opens(g)'
    BY <2>2 DEF NoneOpens, Opens
  <2> QED
    BY <1>1, <1>2, <1>3, <1>7, <2>1, <2>2, <2>3 DEF TimerInv
<1>8. CASE run.profile_backend_ops /\ NoneOpens /\ BatchesSoFar >= run.skip
  <2>1. ~timer.enabled /\ timer.recorded = 0 /\ timer.completed = BatchesSoFar
    BY <1>3, <1>8
  <2>2. timer' = [timer EXCEPT !.enabled = TRUE]
    BY <1>1, <1>8, <2>1 DEF TimerStepStart
  <2>3. /\ timer'.enabled /\ timer'.recorded = 0 /\ timer'.completed = BatchesSoFar
        /\ timer' \in TimerRecords
    BY <1>2, <2>1, <2>2 DEF TimerRecords
  <2>4. PICK f \in Nat : f = Len(steps) + 1
    BY <1>4
  <2>5. f \in 1..Len(steps') /\ Opens(f)' /\ EndedSince(f)' = 0
    BY <1>4, <1>8, <2>4, BeganWindow
  <2>6. ~NoneOpens'
    BY <2>5 DEF NoneOpens, Opens
  <2>7. \A g : Opens(g)' => g = f
    <3>1. \A g : ~Opens(g)
      BY <1>8 DEF NoneOpens, Opens
    <3> QED
      BY <2>4, <3>1, BeganWindow
  <2> QED
    BY <1>1, <1>8, <2>3, <2>5, <2>6, <2>7 DEF TimerInv
<1> QED
  BY <1>1, <1>5, <1>6, <1>7, <1>8

(* An empty window holds nothing, wherever it is. *)
LEMMA EmptyWindow ==
  ASSUME ProfileTypeInv, NEW lo \in Nat
  PROVE  /\ Kept(lo, lo) = 0
         /\ Holds(0, 0) <=> Holds(lo, lo)
         /\ Idle(0, 0) <=> Idle(lo, lo)
<1>1. cuda.capacity \in Nat
  BY DEF ProfileTypeInv, CudaRecords
<1>2. Kept(lo, lo) = 0 /\ Kept(0, 0) = 0
  BY <1>1 DEF Kept
<1> QED
  BY <1>2 DEF Holds, Idle

LEMMA BeganPool ==
  ASSUME ProfileInv, Observe, CurrentCall.call = "on_train_step_start"
  PROVE  CudaInv'
<1>1. UNCHANGED <<run, ran, running, cuda>> /\ running = NoOp /\ Finished \in Nat
  BY ObserveFacts
<1>2. SUFFICES ASSUME run.device = "CUDA"
               PROVE  CudaInv'
  BY <1>1 DEF CudaInv
<1>3. /\ NoneOpens \/ ~run.profile_backend_ops => Holds(0, 0) /\ Idle(0, 0)
      /\ run.profile_backend_ops =>
           \A f : Opens(f) => /\ Holds(WindowStart(f), WindowEnd(f))
                              /\ Idle(WindowStart(f), WindowEnd(f))
  BY <1>1, <1>2 DEF ProfileInv, CudaInv, Opens
<1>4. \A lo, hi : /\ Holds(lo, hi)' <=> Holds(lo, hi)
                  /\ Idle(lo, hi)' <=> Idle(lo, hi)
  BY <1>1 DEF Kept, Holds, Idle
<1>5. NoneOpens' \/ ~run.profile_backend_ops => Holds(0, 0)' /\ Idle(0, 0)'
  BY <1>3, <1>4, BeganWindow
<1>6. ASSUME run.profile_backend_ops, NEW f, Opens(f)'
      PROVE  /\ Holds(WindowStart(f), WindowEnd(f))'
             /\ Idle(WindowStart(f), WindowEnd(f))'
  <2>1. CASE Opens(f)
    <3>1. WindowStart(f)' = WindowStart(f) /\ WindowEnd(f)' = WindowEnd(f)
      BY <2>1, BeganWindow
    <3>2. Holds(WindowStart(f), WindowEnd(f)) /\ Idle(WindowStart(f), WindowEnd(f))
      BY <1>3, <1>6, <2>1
    <3> QED
      BY <1>1, <3>1, <3>2 DEF Kept, Holds, Idle
  <2>2. CASE f = Len(steps) + 1 /\ NoneOpens /\ BatchesSoFar >= run.skip
    <3>1. WindowStart(f)' = Finished /\ WindowEnd(f)' = Finished
      BY <2>2, BeganWindow
    <3>2. Holds(0, 0) /\ Idle(0, 0)
      BY <1>3, <2>2
    <3>3. Holds(Finished, Finished) /\ Idle(Finished, Finished)
      BY <1>1, <3>2, EmptyWindow DEF ProfileInv
    <3> QED
      BY <1>1, <3>1, <3>3 DEF Kept, Holds, Idle
  <2> QED
    BY <1>6, <2>1, <2>2, BeganWindow
<1> QED
  BY <1>1, <1>2, <1>5, <1>6 DEF CudaInv

(* The steps and the window when a step ends: it may be the last that was  *)
(* requested.                                                              *)
LEMMA EndedSteps ==
  ASSUME ProfileInv, Observe, CurrentCall.call = "on_train_step_end"
  PROVE  /\ steps' \in Seq(StepRecords) /\ Len(steps) \in Nat \ {0} /\ Len(steps') = Len(steps)
         /\ \A i \in 1..Len(steps) :
              /\ steps'[i].from = steps[i].from
              /\ steps'[i].batches = steps[i].batches
              /\ i # Len(steps) => steps'[i].to = steps[i].to
              /\ i = Len(steps) => steps'[i].to = Len(ran)
              /\ steps'[i].ended
<1> DEFINE n == Len(steps)
           e == [steps[n] EXCEPT !.to = Len(ran), !.ended = TRUE]
<1>1. n \in Nat \ {0} /\ steps \in Seq(StepRecords)
  <2>1. steps # <<>> /\ steps \in Seq(StepRecords)
    BY StepFinishes DEF ProfileInv, ProfileTypeInv, StepsInv
  <2> QED
    BY <2>1, EmptySeq
<1>2. steps' = [steps EXCEPT ![n] = e]
  BY StepFinishes
<1>3. /\ e \in StepRecords /\ e.from = steps[n].from /\ e.batches = steps[n].batches
      /\ e.to = Len(ran) /\ e.ended
  <2>1. steps[n] \in StepRecords
    BY <1>1
  <2>2. Len(ran) \in Nat
    BY ObserveFacts
  <2> QED
    BY <2>1, <2>2 DEF StepRecords
<1>4. \A i \in 1..n : i # n => steps[i].ended
  BY DEF ProfileInv, StepsInv
<1> HIDE DEF e
<1>5. steps' \in Seq(StepRecords) /\ Len(steps') = n
  BY <1>1, <1>2, <1>3
<1>6. \A i \in 1..n : steps'[i] = IF i = n THEN e ELSE steps[i]
  BY <1>1, <1>2
<1> HIDE DEF n
<1>7. \A i \in 1..n : /\ steps'[i].from = steps[i].from
                      /\ steps'[i].batches = steps[i].batches
                      /\ i # n => steps'[i].to = steps[i].to
                      /\ i = n => steps'[i].to = Len(ran)
                      /\ steps'[i].ended
  BY <1>3, <1>4, <1>6
<1> QED
  BY <1>1, <1>5, <1>7 DEF n

LEMMA EndedStepsInv ==
  ASSUME ProfileInv, Observe, CurrentCall.call = "on_train_step_end"
  PROVE  StepsInv'
<1> DEFINE n == Len(steps)
<1>1. /\ n \in Nat \ {0} /\ Len(steps') = n
      /\ \A i \in 1..n : /\ steps'[i].from = steps[i].from
                         /\ steps'[i].batches = steps[i].batches
                         /\ i # n => steps'[i].to = steps[i].to
                         /\ i = n => steps'[i].to = Len(ran)
                         /\ steps'[i].ended
  BY EndedSteps
<1>2. /\ Finished = Len(ran) /\ Finished' = Finished /\ Len(ran) \in Nat
      /\ BatchesSoFar' = BatchesSoFar /\ ~StepOpen'
  BY ObserveFacts, StepFinishes
<1>3. \A i \in 1..n : /\ steps[i].from \in Nat /\ steps[i].to \in Nat
                      /\ steps[i].from <= steps[i].to
                      /\ steps[i].to <= Finished
                      /\ steps[i].batches <= BatchesSoFar
  BY StepFields DEF ProfileInv, StepsInv
<1>4. \A i, j \in 1..n :
        i < j => steps[i].from <= steps[j].from /\ steps[i].batches <= steps[j].batches
  BY DEF ProfileInv, StepsInv
<1> HIDE DEF n
<1>5. \A i \in 1..n : steps[i].from <= Len(ran)
  <2> SUFFICES ASSUME NEW i \in 1..n PROVE steps[i].from <= Len(ran)
    OBVIOUS
  <2> QED
    BY <1>2, <1>3
<1>6. \A i \in 1..n :
        /\ steps'[i].from <= steps'[i].to
        /\ steps'[i].to <= Finished'
        /\ steps'[i].batches <= BatchesSoFar'
        /\ steps'[i].ended
  <2> SUFFICES ASSUME NEW i \in 1..n
               PROVE  /\ steps'[i].from <= steps'[i].to
                      /\ steps'[i].to <= Finished'
                      /\ steps'[i].batches <= BatchesSoFar'
                      /\ steps'[i].ended
    OBVIOUS
  <2>1. CASE i = n
    BY <1>1, <1>2, <1>3, <1>5, <2>1
  <2>2. CASE i # n
    BY <1>1, <1>2, <1>3, <2>2
  <2> QED
    BY <2>1, <2>2
<1>7. \A i, j \in 1..n :
        i < j => steps'[i].from <= steps'[j].from /\ steps'[i].batches <= steps'[j].batches
  BY <1>1, <1>4
<1> QED
  BY <1>1, <1>2, <1>6, <1>7 DEF StepsInv

LEMMA EndedWindow ==
  ASSUME ProfileInv, Observe, CurrentCall.call = "on_train_step_end"
  PROVE  /\ NoneOpens' <=> NoneOpens
         /\ \A f : Opens(f)' <=> Opens(f)
         /\ \A f : Opens(f) => /\ EndedSince(f)' = EndedSince(f) + 1
                               /\ WindowStart(f)' = WindowStart(f)
                               /\ WindowEnd(f)' = WindowEnd(f)
<1> DEFINE n == Len(steps)
<1>1. /\ n \in Nat \ {0} /\ Len(steps') = n
      /\ \A i \in 1..n : /\ steps'[i].from = steps[i].from
                         /\ steps'[i].batches = steps[i].batches
                         /\ i # n => steps'[i].to = steps[i].to
                         /\ i = n => steps'[i].to = Len(ran)
  BY EndedSteps
<1>2. /\ Finished = Len(ran) /\ Finished' = Finished /\ Len(ran) \in Nat
      /\ run' = run /\ StepOpen /\ ~StepOpen'
  BY ObserveFacts, StepFinishes
<1>3. NoneOpens' <=> NoneOpens
  BY <1>1, <1>2 DEF NoneOpens
<1>4. \A f : Opens(f)' <=> Opens(f)
  BY <1>1, <1>2 DEF Opens
<1>5. ASSUME NEW f, Opens(f)
      PROVE  /\ EndedSince(f)' = EndedSince(f) + 1
             /\ WindowStart(f)' = WindowStart(f)
             /\ WindowEnd(f)' = WindowEnd(f)
  <2>1. /\ f \in 1..n /\ EndedSince(f) \in Nat /\ run.requested \in Nat \ {0}
        /\ EndedSince(f) >= run.requested => f + run.requested - 1 \in f..n
    BY <1>5, WindowBounds
  <2>2. EndedSince(f) = n - f
    BY <1>2, <2>1, <1>1 DEF EndedSince
  <2>3. EndedSince(f)' = EndedSince(f) + 1
    BY <1>1, <1>2, <2>1, <2>2 DEF EndedSince
  <2>4. WindowStart(f)' = WindowStart(f)
    BY <1>1, <2>1 DEF WindowStart
  <2> HIDE DEF n
  <2>5. CASE EndedSince(f) + 1 < run.requested
    <3>1. EndedSince(f) < run.requested /\ EndedSince(f)' < run.requested
      BY <2>1, <2>3, <2>5
    <3> QED
      BY <1>2, <2>3, <2>4, <3>1 DEF WindowEnd
  <2>6. CASE EndedSince(f) + 1 = run.requested
    <3>1. EndedSince(f) < run.requested /\ ~(EndedSince(f)' < run.requested)
          /\ f + run.requested - 1 = n /\ n \in 1..n
      BY <1>1, <2>1, <2>2, <2>3, <2>6
    <3>2. WindowEnd(f) = Finished
      BY <3>1 DEF WindowEnd
    <3>3. WindowEnd(f)' = steps'[n].to
      BY <1>2, <3>1 DEF WindowEnd
    <3> QED
      BY <1>1, <1>2, <2>3, <2>4, <3>1, <3>2, <3>3
  <2>7. CASE EndedSince(f) >= run.requested
    <3> DEFINE g == f + run.requested - 1
    <3>1. ~(EndedSince(f) < run.requested) /\ ~(EndedSince(f)' < run.requested)
          /\ g \in 1..n /\ g # n
      BY <1>1, <2>1, <2>2, <2>3, <2>7
    <3>2. WindowEnd(f) = steps[g].to
      BY <3>1 DEF WindowEnd
    <3>3. WindowEnd(f)' = steps'[g].to
      BY <1>2, <3>1 DEF WindowEnd
    <3> HIDE DEF g
    <3> QED
      BY <1>1, <2>3, <2>4, <3>1, <3>2, <3>3
  <2> QED
    BY <2>1, <2>3, <2>4, <2>5, <2>6, <2>7
<1> QED
  BY <1>3, <1>4, <1>5

LEMMA EndedTimer ==
  ASSUME ProfileInv, Observe, CurrentCall.call = "on_train_step_end"
  PROVE  TimerInv' /\ timer' \in TimerRecords
<1>1. /\ run' = run /\ outcome' = outcome /\ outcome = "running"
      /\ BatchesSoFar' = BatchesSoFar
      /\ run.requested \in Nat \ {0} /\ run.profile_backend_ops \in BOOLEAN
      /\ timer' = IF run.profile_backend_ops THEN TimerStepEnd(timer, run.requested) ELSE timer
  <2>1. timer' = IF run.profile_backend_ops THEN TimerStepEnd(timer, run.requested) ELSE timer
    BY ObserveFacts DEF TimedCalls
  <2>2. run.requested > 0
    BY ObserveFacts DEF ProfileInv, StartInv
  <2> QED
    BY <2>1, <2>2, ObserveFacts, StepFinishes, RunFacts
<1>2. /\ timer.enabled \in BOOLEAN /\ timer.completed \in Nat /\ timer.recorded \in Nat
      /\ timer \in TimerRecords
  BY TimerFields DEF ProfileInv, ProfileTypeInv
<1>3. /\ NoneOpens \/ \E f \in 1..Len(steps) : Opens(f)
      /\ run.profile_backend_ops => timer.completed = BatchesSoFar
      /\ NoneOpens \/ ~run.profile_backend_ops => ~timer.enabled /\ timer.recorded = 0
      /\ run.profile_backend_ops =>
           \A f \in 1..Len(steps) : Opens(f) =>
             /\ timer.recorded =
                  IF EndedSince(f) < run.requested THEN EndedSince(f) ELSE run.requested
             /\ timer.enabled <=> EndedSince(f) < run.requested
  BY <1>1 DEF ProfileInv, TimerInv
<1>4. Len(steps') = Len(steps)
  BY EndedSteps
<1>5. CASE ~timer.enabled
  <2>1. timer' = timer
    BY <1>1, <1>5 DEF TimerStepEnd
  <2>2. ASSUME run.profile_backend_ops, NEW f \in 1..Len(steps), Opens(f)
        PROVE  /\ timer.recorded = run.requested
               /\ ~(EndedSince(f)' < run.requested)
    <3>1. EndedSince(f) \in Nat /\ EndedSince(f)' = EndedSince(f) + 1
      BY <2>2, WindowBounds, EndedWindow
    <3>2. ~(EndedSince(f) < run.requested) /\ timer.recorded = run.requested
      BY <1>3, <1>5, <2>2
    <3> QED
      BY <1>1, <3>1, <3>2
  <2> QED
    BY <1>1, <1>2, <1>3, <1>4, <1>5, <2>1, <2>2, EndedWindow DEF TimerInv
<1>6. CASE timer.enabled
  <2>1. run.profile_backend_ops /\ ~NoneOpens
    BY <1>3, <1>6
  <2>2. timer' = [timer EXCEPT !.enabled = timer.recorded + 1 # run.requested,
                               !.recorded = @ + 1]
    BY <1>1, <1>6, <2>1 DEF TimerStepEnd
  <2>3. /\ timer'.enabled <=> timer.recorded + 1 # run.requested
        /\ timer'.recorded = timer.recorded + 1
        /\ timer'.completed = timer.completed
        /\ timer' \in TimerRecords
    <3> DEFINE more == timer.recorded + 1 # run.requested
               count == timer.recorded + 1
    <3>1. more \in BOOLEAN /\ count \in Nat
      BY <1>2
    <3>2. timer' = [timer EXCEPT !.enabled = more, !.recorded = count]
      BY <2>2
    <3> HIDE DEF more, count
    <3>3. timer' = [enabled |-> more, completed |-> timer.completed, recorded |-> count]
      BY <1>2, <3>2 DEF TimerRecords
    <3>4. timer' \in TimerRecords
      BY <1>2, <3>1, <3>3 DEF TimerRecords
    <3>5. (timer'.enabled <=> more) /\ timer'.recorded = count
          /\ timer'.completed = timer.completed
      BY <3>3
    <3> QED
      BY <3>4, <3>5 DEF more, count
  <2>4. ASSUME NEW f \in 1..Len(steps), Opens(f)
        PROVE  /\ timer'.recorded = IF EndedSince(f)' < run.requested THEN EndedSince(f)'
                                    ELSE run.requested
               /\ timer'.enabled <=> EndedSince(f)' < run.requested
    <3>1. EndedSince(f) \in Nat /\ EndedSince(f)' = EndedSince(f) + 1
      BY <2>4, WindowBounds, EndedWindow
    <3>2. EndedSince(f) < run.requested /\ timer.recorded = EndedSince(f)
      BY <1>3, <1>6, <2>1, <2>4
    <3> QED
      BY <1>1, <2>3, <3>1, <3>2
  <2> QED
    BY <1>1, <1>3, <1>4, <2>1, <2>3, <2>4, EndedWindow DEF TimerInv
<1> QED
  BY <1>2, <1>5, <1>6

LEMMA EndedPool ==
  ASSUME ProfileInv, Observe, CurrentCall.call = "on_train_step_end"
  PROVE  CudaInv'
<1>1. UNCHANGED <<run, ran, running, cuda>> /\ running = NoOp
  BY ObserveFacts
<1>2. SUFFICES ASSUME run.device = "CUDA"
               PROVE  CudaInv'
  BY <1>1 DEF CudaInv
<1>3. /\ NoneOpens \/ ~run.profile_backend_ops => Holds(0, 0) /\ Idle(0, 0)
      /\ run.profile_backend_ops =>
           \A f : Opens(f) => /\ Holds(WindowStart(f), WindowEnd(f))
                              /\ Idle(WindowStart(f), WindowEnd(f))
  BY <1>1, <1>2 DEF ProfileInv, CudaInv, Opens
<1>4. NoneOpens' \/ ~run.profile_backend_ops => Holds(0, 0)' /\ Idle(0, 0)'
  BY <1>1, <1>3, EndedWindow DEF Kept, Holds, Idle
<1>5. ASSUME run.profile_backend_ops, NEW f, Opens(f)'
      PROVE  /\ Holds(WindowStart(f), WindowEnd(f))'
             /\ Idle(WindowStart(f), WindowEnd(f))'
  <2>1. WindowStart(f)' = WindowStart(f) /\ WindowEnd(f)' = WindowEnd(f) /\ Opens(f)
    BY <1>5, EndedWindow
  <2>2. Holds(WindowStart(f), WindowEnd(f)) /\ Idle(WindowStart(f), WindowEnd(f))
    BY <1>3, <1>5, <2>1
  <2> QED
    BY <1>1, <2>1, <2>2 DEF Kept, Holds, Idle
<1> QED
  BY <1>1, <1>2, <1>4, <1>5 DEF CudaInv

(* Whatever leaves the steps alone and the timer counting keeps the        *)
(* timer's part.                                                           *)
LEMMA QuietTimer ==
  ASSUME ProfileInv, UNCHANGED <<run, steps>>, StepOpen' <=> StepOpen,
         timer'.recorded = timer.recorded,
         timer'.enabled => timer.enabled,
         outcome' = "running" => outcome = "running" /\ (timer'.enabled <=> timer.enabled),
         run.profile_backend_ops /\ outcome' = "running" => timer'.completed = BatchesSoFar'
  PROVE  TimerInv'
<1>1. /\ NoneOpens \/ \E f \in 1..Len(steps) : Opens(f)
      /\ NoneOpens \/ ~run.profile_backend_ops => ~timer.enabled /\ timer.recorded = 0
      /\ run.profile_backend_ops =>
           \A f \in 1..Len(steps) : Opens(f) =>
             /\ timer.recorded =
                  IF EndedSince(f) < run.requested THEN EndedSince(f) ELSE run.requested
             /\ outcome = "running" => (timer.enabled <=> EndedSince(f) < run.requested)
  BY DEF ProfileInv, TimerInv
<1>2. /\ NoneOpens' <=> NoneOpens
      /\ \A f : Opens(f)' <=> Opens(f)
      /\ \A f : EndedSince(f)' = EndedSince(f)
  BY SameWindow
<1> QED
  BY <1>1, <1>2 DEF TimerInv

(* The other calls of the observer: the timer counts the batches. *)
LEMMA OtherCallsKeep ==
  ASSUME ProfileInv, Observe,
         CurrentCall.call \notin {"on_train_step_start", "on_train_step_end"}
  PROVE  StepsInv' /\ TimerInv' /\ CudaInv' /\ timer' \in TimerRecords
<1>1. UNCHANGED <<run, ran, running, cuda, outcome>> /\ outcome = "running"
  BY ObserveFacts
<1>2. /\ StepOpen' <=> StepOpen
      /\ BatchesSoFar' = BatchesSoFar
                           + (IF CurrentCall.call = "on_batch_end" THEN 1 ELSE 0)
      /\ steps' = steps
      /\ BatchesSoFar \in Nat
  BY OtherCallsObserved, BatchesNat DEF ProfileInv
<1>3. StepsInv'
  <2>1. BatchesSoFar' \in {BatchesSoFar, BatchesSoFar + 1}
    BY <1>2
  <2>2. Finished' = Finished
    BY ObserveFacts
  <2> QED
    BY <1>1, <1>2, <2>1, <2>2, QuietSteps
<1>4. CudaInv'
  BY <1>1, <1>2, QuietPool
<1>5. /\ timer'.recorded = timer.recorded /\ timer' \in TimerRecords
      /\ timer'.enabled <=> timer.enabled
      /\ run.profile_backend_ops =>
           timer'.completed = timer.completed
                                + (IF CurrentCall.call = "on_batch_end" THEN 1 ELSE 0)
  <2>1. timer' = IF run.profile_backend_ops /\ CurrentCall.call = "on_batch_end"
                 THEN [timer EXCEPT !.completed = @ + 1] ELSE timer
    BY ObserveFacts DEF TimedCalls, TimerBatchEnd
  <2>2. timer \in TimerRecords /\ timer.completed \in Nat /\ timer.completed + 1 \in Nat
    BY TimerFields DEF ProfileInv, ProfileTypeInv
  <2>3. CASE run.profile_backend_ops /\ CurrentCall.call = "on_batch_end"
    <3>1. timer' = [timer EXCEPT !.completed = @ + 1]
      BY <2>1, <2>3
    <3> QED
      BY <2>2, <2>3, <3>1 DEF TimerRecords
  <2>4. CASE ~(run.profile_backend_ops /\ CurrentCall.call = "on_batch_end")
    <3>1. timer' = timer
      BY <2>1, <2>4
    <3> QED
      BY <2>2, <2>4, <3>1
  <2> QED
    BY <2>3, <2>4
<1>6. run.profile_backend_ops => timer'.completed = BatchesSoFar'
  BY <1>1, <1>2, <1>5 DEF ProfileInv, TimerInv
<1>7. TimerInv'
  BY <1>1, <1>2, <1>5, <1>6, QuietTimer
<1> QED
  BY <1>3, <1>4, <1>5, <1>7

LEMMA ObserveKeeps ==
  ASSUME ProfileInv, Observe
  PROVE  ProfileInv'
<1>1. StepsInv' /\ TimerInv' /\ CudaInv' /\ timer' \in TimerRecords
  <2>1. CASE CurrentCall.call = "on_train_step_start"
    BY <2>1, BeganStepsInv, BeganTimer, BeganPool
  <2>2. CASE CurrentCall.call = "on_train_step_end"
    BY <2>2, EndedStepsInv, EndedTimer, EndedPool
  <2>3. CASE CurrentCall.call \notin {"on_train_step_start", "on_train_step_end"}
    BY <2>3, OtherCallsKeep
  <2> QED
    BY <2>1, <2>2, <2>3
<1>2. /\ outcome = "running" /\ running = NoOp
      /\ run \in RunRecords /\ part \in Parts /\ pc \in Nat \ {0}
      /\ pc' = pc + 1 /\ now' = now + 1
      /\ UNCHANGED <<cuda, run, part, epoch, batch_idx, running, outcome, ran>>
  BY ObserveFacts
<1>3. steps' \in Seq(StepRecords)
  <2>1. CASE CurrentCall.call \notin {"on_train_step_start", "on_train_step_end"}
    BY <2>1, OtherCallsObserved DEF ProfileInv, ProfileTypeInv
  <2> QED
    BY <2>1, BeganSteps, EndedSteps
<1>4. ProfileTypeInv'
  BY <1>1, <1>2, <1>3 DEF ProfileInv, ProfileTypeInv
<1>5. RunningInv'
  BY <1>2 DEF RunningInv
<1>6. ClockInv'
  <2>1. now \in Nat /\ \A i \in 1..Len(ran) : ran[i].begin \in Nat
    <3>1. \A i \in 1..Len(ran) : ran[i] \in OperationRecords
      BY DEF ProfileInv, ProfileTypeInv
    <3> QED
      BY <3>1 DEF ProfileInv, ProfileTypeInv, OperationRecords
  <2> QED
    BY <1>2, <2>1 DEF ProfileInv, ClockInv
<1>7. StartInv'
  <2>1. part \in {"restore", "ready"} => steps' = steps
    <3>1. CurrentCall.call \in StepCalls => part = "batch"
      BY ObserveFacts, CallPlaces
    <3> QED
      BY <3>1, OtherCallsObserved DEF StepCalls
  <2> QED
    BY <1>2, <2>1 DEF ProfileInv, StartInv
<1> QED
  BY <1>1, <1>4, <1>5, <1>6, <1>7 DEF ProfileInv

-----------------------------------------------------------------------------
(* Operations and their marks *)

LEMMA PoolFields ==
  ASSUME ProfileTypeInv
  PROVE  /\ cuda.capacity \in Nat /\ cuda.marks \in Seq(OperationRecords)
         /\ cuda.active \in BOOLEAN /\ cuda.op \in Operations \cup {NoOp}
         /\ cuda.begin \in Nat /\ cuda.drop_active \in BOOLEAN /\ cuda.dropped \in Nat
BY DEF ProfileTypeInv, CudaRecords

LEMMA OperationFields ==
  ASSUME ProfileTypeInv
  PROVE  /\ Len(ran) \in Nat
         /\ \A i \in 1..Len(ran) :
              /\ ran[i] \in OperationRecords
              /\ ran[i].op \in Operations /\ ran[i].begin \in Nat /\ ran[i].end \in Nat
<1>1. Len(ran) \in Nat /\ \A i \in 1..Len(ran) : ran[i] \in OperationRecords
  BY DEF ProfileTypeInv
<1> QED
  BY <1>1 DEF OperationRecords

LEMMA KeptNat ==
  ASSUME ProfileTypeInv, NEW lo \in Nat, NEW hi \in Nat, lo <= hi
  PROVE  /\ Kept(lo, hi) \in Nat /\ Kept(lo, hi) <= cuda.capacity /\ Kept(lo, hi) <= hi - lo
         /\ Kept(lo, hi) < cuda.capacity => Kept(lo, hi) = hi - lo
BY PoolFields DEF Kept

LEMMA BeginFacts ==
  ASSUME ProfileInv, BeginOp
  PROVE  /\ outcome = "running" /\ running = NoOp
         /\ UNCHANGED <<timer, run, part, pc, epoch, batch_idx, outcome, steps>>
         /\ pc <= Len(Program) /\ CurrentCall.call = "op"
         /\ running' \in Operations /\ running' # NoOp
         /\ now' = now + 1 /\ now \in Nat
         /\ ran' \in Seq(OperationRecords) /\ Len(ran) \in Nat /\ Len(ran') = Len(ran) + 1
         /\ \A k \in 1..Len(ran) : ran'[k] = ran[k]
         /\ ran'[Len(ran')].op = running' /\ ran'[Len(ran')].begin = now
         /\ Finished' = Finished /\ Finished = Len(ran)
         /\ StepOpen' <=> StepOpen
         /\ BatchesSoFar' = BatchesSoFar
         /\ cuda' = IF timer.enabled /\ run.device = "CUDA"
                    THEN CudaMarkBegin(cuda, running', now) ELSE cuda
<1>1. /\ outcome = "running" /\ running = NoOp
      /\ UNCHANGED <<timer, run, part, pc, epoch, batch_idx, outcome, steps>>
      /\ pc <= Len(Program) /\ CurrentCall.call = "op" /\ running' = CurrentCall.op
      /\ now' = now + 1
      /\ ran' = Append(ran, [op |-> CurrentCall.op, begin |-> now, end |-> now])
      /\ cuda' = IF timer.enabled /\ run.device = "CUDA"
                 THEN CudaMarkBegin(cuda, running', now) ELSE cuda
  BY DEF BeginOp, trainer
<1>2. now \in Nat /\ ran \in Seq(OperationRecords)
  BY DEF ProfileInv, ProfileTypeInv
<1>3. running' \in Operations
  <2>1. CurrentCall \in Calls
    BY <1>1, CallPlaces DEF ProfileInv, ProfileTypeInv
  <2> QED
    BY <1>1, <2>1 DEF Calls
<1>4. running' # NoOp
  BY <1>3 DEF Operations
<1> DEFINE e == [op |-> running', begin |-> now, end |-> now]
<1>5. e \in OperationRecords /\ e.op = running' /\ e.begin = now
  BY <1>2, <1>3 DEF OperationRecords
<1>6. ran' = Append(ran, e)
  BY <1>1
<1> HIDE DEF e
<1>7. /\ ran' \in Seq(OperationRecords) /\ Len(ran) \in Nat /\ Len(ran') = Len(ran) + 1
      /\ \A k \in 1..Len(ran) : ran'[k] = ran[k]
      /\ ran'[Len(ran) + 1] = e
  BY <1>2, <1>5, <1>6, OneAppended
<1>8. Finished = Len(ran) /\ Finished' = Len(ran)
  BY <1>1, <1>4, <1>7 DEF Finished
<1>9. /\ StepOpen' <=> StepOpen
      /\ BatchesSoFar' = BatchesSoFar
  <2>1. UNCHANGED <<run, part, batch_idx, pc, epoch>>
    BY <1>1
  <2> QED
    BY <2>1, SameProgram DEF StepOpen, BatchesSoFar, CompletedBatches
<1> QED
  BY <1>1, <1>2, <1>3, <1>4, <1>5, <1>7, <1>8, <1>9

LEMMA BeginPool ==
  ASSUME ProfileInv, BeginOp
  PROVE  CudaInv'
<1>1. /\ outcome = "running" /\ running = NoOp /\ running' # NoOp
      /\ UNCHANGED <<timer, run, steps>>
      /\ Len(ran) \in Nat /\ Len(ran') = Len(ran) + 1
      /\ \A k \in 1..Len(ran) : ran'[k] = ran[k]
      /\ ran'[Len(ran')].begin = now
      /\ Finished' = Finished /\ Finished = Len(ran)
      /\ StepOpen' <=> StepOpen
  BY BeginFacts
<1>2. SUFFICES ASSUME run.device = "CUDA"
               PROVE  CudaInv'
  BY <1>1 DEF CudaInv
<1>3. cuda' = IF timer.enabled THEN CudaMarkBegin(cuda, running', now) ELSE cuda
  BY <1>2, BeginFacts
<1>4. /\ NoneOpens' <=> NoneOpens
      /\ \A f : /\ Opens(f)' <=> Opens(f)
                /\ EndedSince(f)' = EndedSince(f)
                /\ WindowStart(f)' = WindowStart(f)
                /\ WindowEnd(f)' = WindowEnd(f)
  BY <1>1, SameWindow
<1>5. NoneOpens' \/ ~run.profile_backend_ops => Holds(0, 0)' /\ Idle(0, 0)'
  <2> SUFFICES ASSUME NoneOpens \/ ~run.profile_backend_ops
               PROVE  Holds(0, 0)' /\ Idle(0, 0)'
    BY <1>4
  <2>1. cuda' = cuda /\ Holds(0, 0) /\ Idle(0, 0)
    BY <1>2, <1>3 DEF ProfileInv, TimerInv, CudaInv
  <2>2. Kept(0, 0) = 0 /\ Kept(0, 0)' = 0
    BY <2>1, PoolFields DEF ProfileInv, Kept
  <2> QED
    BY <2>1, <2>2 DEF Holds, Idle
<1>6. ASSUME run.profile_backend_ops, NEW f \in 1..Len(steps), Opens(f)'
      PROVE  /\ Holds(WindowStart(f), WindowEnd(f))'
             /\ IF EndedSince(f) < run.requested
                THEN Marking(WindowStart(f), WindowEnd(f))'
                ELSE Idle(WindowStart(f), WindowEnd(f))'
  <2> DEFINE lo == WindowStart(f)
             hi == WindowEnd(f)
             kept == Kept(lo, hi)
  <2>1. Opens(f)
    BY <1>4, <1>6
  <2>2. /\ lo \in Nat /\ hi \in Nat /\ lo <= hi /\ hi <= Len(ran)
        /\ lo' = lo /\ hi' = hi
    BY <1>1, <1>4, <2>1, WindowBounds
  <2>3. Holds(lo, hi) /\ Idle(lo, hi)
    BY <1>1, <1>2, <1>6, <2>1 DEF ProfileInv, CudaInv
  <2>4. timer.enabled <=> EndedSince(f) < run.requested
    BY <1>1, <1>6, <2>1 DEF ProfileInv, TimerInv
  <2>5. /\ Len(cuda.marks) = kept
        /\ \A k \in 1..kept : cuda.marks[k] = ran[lo + k]
        /\ ~cuda.active /\ ~cuda.drop_active /\ cuda.dropped = (hi - lo) - kept
    BY <2>3 DEF Holds, Idle
  <2>6. /\ cuda.capacity \in Nat /\ cuda.dropped \in Nat
        /\ kept \in Nat /\ kept <= cuda.capacity /\ kept <= hi - lo
    BY <2>2, PoolFields, KeptNat DEF ProfileInv
  <2>7. cuda'.marks = cuda.marks /\ cuda'.capacity = cuda.capacity
    BY <1>3, PoolFields DEF CudaMarkBegin, ProfileInv, ProfileTypeInv, CudaRecords
  <2>8. Kept(lo, hi)' = kept
    BY <2>2, <2>7 DEF Kept
  <2>9. Holds(lo, hi)'
    <3>1. \A k \in 1..kept : ran'[lo + k] = ran[lo + k]
      <4> HIDE DEF lo, hi, kept
      <4>1. \A k \in 1..kept : lo + k \in 1..Len(ran)
        BY <1>1, <2>2, <2>6
      <4> QED
        BY <1>1, <4>1
    <3>2. Len(cuda'.marks) = kept /\ \A k \in 1..kept : cuda'.marks[k] = ran'[lo' + k]
      BY <2>2, <2>5, <2>7, <3>1
    <3> QED
      BY <2>8, <3>2 DEF Holds
  <2>10. CASE EndedSince(f) < run.requested
    <3>1. cuda' = CudaMarkBegin(cuda, running', now)
      BY <1>3, <2>4, <2>10
    <3>2. Marking(lo, hi)'
      <4>1. CASE kept < cuda.capacity
        <5>1. cuda' = [cuda EXCEPT !.active = TRUE, !.op = running', !.begin = now]
          BY <2>5, <2>6, <3>1, <4>1 DEF CudaMarkBegin
        <5>2. /\ cuda'.active /\ cuda'.drop_active = cuda.drop_active
              /\ cuda'.dropped = cuda.dropped /\ cuda'.op = running' /\ cuda'.begin = now
          BY <5>1 DEF ProfileInv, ProfileTypeInv, CudaRecords
        <5> HIDE DEF kept, lo, hi
        <5>3. cuda'.dropped = (hi' - lo') - Kept(lo, hi)'
          BY <2>2, <2>5, <2>8, <5>2
        <5> QED
          BY <1>1, <2>5, <2>7, <2>8, <4>1, <5>2, <5>3 DEF Marking
      <4>2. CASE ~(kept < cuda.capacity)
        <5>1. Len(cuda.marks) = cuda.capacity
          BY <2>5, <2>6, <4>2
        <5>2. cuda' = [cuda EXCEPT !.dropped = cuda.dropped + 1, !.drop_active = TRUE]
          BY <3>1, <5>1 DEF CudaMarkBegin
        <5>3. /\ cuda'.drop_active /\ cuda'.active = cuda.active
              /\ cuda'.dropped = cuda.dropped + 1
          BY <5>2 DEF ProfileInv, ProfileTypeInv, CudaRecords
        <5> HIDE DEF kept, lo, hi
        <5>4. cuda'.dropped = ((hi' - lo') - Kept(lo, hi)') + 1
          BY <2>2, <2>5, <2>8, <5>3
        <5> QED
          BY <2>5, <2>7, <2>8, <4>2, <5>3, <5>4 DEF Marking
      <4> QED
        BY <4>1, <4>2
    <3> QED
      BY <2>9, <2>10, <3>2
  <2>11. CASE ~(EndedSince(f) < run.requested)
    <3>1. cuda' = cuda
      BY <1>3, <2>4, <2>11
    <3>2. Idle(lo, hi)'
      <4> HIDE DEF kept, lo, hi
      <4>1. cuda'.dropped = (hi' - lo') - Kept(lo, hi)'
        BY <2>2, <2>5, <2>8, <3>1
      <4> QED
        BY <2>5, <3>1, <4>1 DEF Idle
    <3> QED
      BY <2>9, <2>11, <3>2
  <2> QED
    BY <2>10, <2>11
<1> QED
  BY <1>1, <1>2, <1>4, <1>5, <1>6 DEF CudaInv

LEMMA EndFacts ==
  ASSUME ProfileInv, Return \/ OpThrows
  PROVE  /\ outcome = "running" /\ running # NoOp /\ running' = NoOp
         /\ UNCHANGED <<timer, run, part, epoch, batch_idx, outcome, steps>>
         /\ pc' \in Nat \ {0}
         /\ now' = now + 1 /\ now \in Nat
         /\ ran' \in Seq(OperationRecords) /\ Len(ran) \in Nat \ {0} /\ Len(ran') = Len(ran)
         /\ \A k \in 1..Len(ran) : /\ k # Len(ran) => ran'[k] = ran[k]
                                   /\ ran'[k].begin = ran[k].begin
         /\ ran'[Len(ran)] = [op |-> running, begin |-> ran[Len(ran)].begin, end |-> now]
         /\ Finished' = Finished + 1 /\ Finished + 1 = Len(ran)
         /\ StepOpen' <=> StepOpen
         /\ BatchesSoFar' = BatchesSoFar
         /\ cuda' = IF timer.enabled /\ run.device = "CUDA" THEN CudaMarkEnd(cuda, now) ELSE cuda
<1>1. /\ outcome = "running" /\ running # NoOp /\ running' = NoOp
      /\ UNCHANGED <<timer, run, part, epoch, batch_idx, outcome, steps>>
      /\ now' = now + 1
      /\ ran' = [ran EXCEPT ![Len(ran)].end = now]
      /\ cuda' = IF timer.enabled /\ run.device = "CUDA" THEN CudaMarkEnd(cuda, now) ELSE cuda
  BY DEF Return, OpThrows, EndOp
<1>2. now \in Nat /\ ran \in Seq(OperationRecords) /\ ran # <<>> /\ pc \in Nat \ {0}
      /\ run \in RunRecords /\ part \in Parts
      /\ pc <= Len(Program) /\ CurrentCall.call = "op" /\ ran[Len(ran)].op = running
  BY <1>1 DEF ProfileInv, ProfileTypeInv, RunningInv
<1>3. Len(Program) \in Nat \ {0}
  BY <1>2, ProgramShape
<1>4. /\ StepOpen' <=> StepOpen
      /\ BatchesSoFar' = BatchesSoFar
      /\ pc' \in Nat \ {0}
  <2>1. CASE Return
    <3>1. pc' = pc + 1
      BY <2>1 DEF Return, EndOp
    <3>2. "op" \notin {"on_train_step_start", "on_train_step_end", "on_batch_end"}
      OBVIOUS
    <3>3. BatchesSoFar \in Nat
      BY BatchesNat DEF ProfileInv
    <3>4. /\ StepOpen' <=> StepOpen
          /\ BatchesSoFar' = BatchesSoFar + (IF CurrentCall.call = "on_batch_end" THEN 1 ELSE 0)
      BY <1>1, <1>2, <3>1, <3>2, CallWithinStep DEF ProfileInv
    <3> QED
      BY <1>2, <3>1, <3>2, <3>3, <3>4
  <2>2. CASE OpThrows
    <3>1. part = "save" /\ pc' = Len(Program)
      BY <2>2 DEF OpThrows, EndOp
    <3> QED
      BY <1>1, <1>3, <3>1, NothingOutsideBatches
  <2> QED
    BY <2>1, <2>2
<1> DEFINE n == Len(ran)
           e == [op |-> running, begin |-> ran[n].begin, end |-> now]
<1>5. n \in Nat \ {0} /\ ran[n] \in OperationRecords
  BY <1>2, EmptySeq
<1>6. [ran[n] EXCEPT !.end = now] = e /\ e \in OperationRecords
  BY <1>2, <1>5 DEF OperationRecords
<1>7. ran' = [ran EXCEPT ![n] = e]
  <2>1. ran' = [ran EXCEPT ![n] = [ran[n] EXCEPT !.end = now]]
    BY <1>1
  <2> QED
    BY <1>6, <2>1
<1>8. e.begin = ran[n].begin
  OBVIOUS
<1> HIDE DEF e
<1>9. ran' \in Seq(OperationRecords) /\ Len(ran') = n
  BY <1>2, <1>6, <1>7
<1>10. \A k \in 1..n : ran'[k] = IF k = n THEN e ELSE ran[k]
  BY <1>2, <1>7
<1>11. /\ \A k \in 1..n : (k # n => ran'[k] = ran[k]) /\ ran'[k].begin = ran[k].begin
       /\ ran'[n] = e
  <2>1. n \in 1..n
    BY <1>5
  <2> HIDE DEF n
  <2> QED
    BY <1>8, <1>10, <2>1
<1>12. Finished + 1 = n /\ Finished' = n /\ Finished \in Nat
  <2>1. Finished + 1 = n /\ Finished \in Nat
    BY <1>1, FinishedNat DEF ProfileInv
  <2>2. Finished' = n
    BY <1>1, <1>5, <1>9 DEF Finished
  <2> QED
    BY <2>1, <2>2
<1> QED
  BY <1>1, <1>2, <1>4, <1>5, <1>9, <1>11, <1>12 DEF e

LEMMA EndPool ==
  ASSUME ProfileInv, Return \/ OpThrows
  PROVE  CudaInv'
<1> DEFINE n == Len(ran)
           e == [op |-> running, begin |-> ran[n].begin, end |-> now]
<1>1. /\ outcome = "running" /\ running # NoOp /\ running' = NoOp
      /\ UNCHANGED <<timer, run, steps>>
      /\ n \in Nat \ {0} /\ Len(ran') = n
      /\ \A k \in 1..n : k # n => ran'[k] = ran[k]
      /\ ran'[n] = e
      /\ Finished' = Finished + 1 /\ Finished + 1 = n
      /\ StepOpen' <=> StepOpen
  BY EndFacts
<1>2. SUFFICES ASSUME run.device = "CUDA"
               PROVE  CudaInv'
  BY <1>1 DEF CudaInv
<1>3. cuda' = IF timer.enabled THEN CudaMarkEnd(cuda, now) ELSE cuda
  BY <1>2, EndFacts
<1>4. /\ NoneOpens' <=> NoneOpens
      /\ \A f : /\ Opens(f)' <=> Opens(f)
                /\ EndedSince(f)' = EndedSince(f)
                /\ WindowStart(f)' = WindowStart(f)
                /\ EndedSince(f) >= run.requested /\ EndedSince(f) \in Nat
                     /\ run.requested \in Nat => WindowEnd(f)' = WindowEnd(f)
  BY <1>1, SameWindow
<1>5. NoneOpens' \/ ~run.profile_backend_ops => Holds(0, 0)' /\ Idle(0, 0)'
  <2> SUFFICES ASSUME NoneOpens \/ ~run.profile_backend_ops
               PROVE  Holds(0, 0)' /\ Idle(0, 0)'
    BY <1>1, <1>4
  <2>1. cuda' = cuda /\ Holds(0, 0) /\ Idle(0, 0)
    BY <1>2, <1>3 DEF ProfileInv, TimerInv, CudaInv
  <2>2. Kept(0, 0) = 0 /\ Kept(0, 0)' = 0
    BY <2>1, PoolFields DEF ProfileInv, Kept
  <2> QED
    BY <2>1, <2>2 DEF Holds, Idle
<1>6. ASSUME run.profile_backend_ops, NEW f \in 1..Len(steps), Opens(f)'
      PROVE  /\ Holds(WindowStart(f), WindowEnd(f))'
             /\ Idle(WindowStart(f), WindowEnd(f))'
  <2> DEFINE lo == WindowStart(f)
             hi == WindowEnd(f)
             kept == Kept(lo, hi)
  <2>1. Opens(f)
    BY <1>4, <1>6
  <2>2. /\ lo \in Nat /\ hi \in Nat /\ lo <= hi /\ hi <= Finished /\ lo' = lo
        /\ EndedSince(f) \in Nat /\ run.requested \in Nat /\ Finished \in Nat
    BY <1>4, <2>1, WindowBounds
  <2>3. timer.enabled <=> EndedSince(f) < run.requested
    BY <1>1, <1>6, <2>1 DEF ProfileInv, TimerInv
  <2>4. /\ Holds(lo, hi)
        /\ IF EndedSince(f) < run.requested THEN Marking(lo, hi) ELSE Idle(lo, hi)
    BY <1>1, <1>2, <1>6, <2>1 DEF ProfileInv, CudaInv
  <2>5. /\ Len(cuda.marks) = kept
        /\ \A k \in 1..kept : cuda.marks[k] = ran[lo + k]
    BY <2>4 DEF Holds
  <2>6. /\ cuda.capacity \in Nat /\ cuda.dropped \in Nat
        /\ cuda.marks \in Seq(OperationRecords)
        /\ kept \in Nat /\ kept <= cuda.capacity /\ kept <= hi - lo
        /\ kept < cuda.capacity => kept = hi - lo
    BY <2>2, PoolFields, KeptNat DEF ProfileInv
  <2>7. \A k \in 1..kept : ran'[lo + k] = ran[lo + k]
    <3> HIDE DEF lo, hi, kept, n, e
    <3>1. \A k \in 1..kept : lo + k \in 1..n /\ lo + k # n
      BY <1>1, <2>2, <2>6
    <3> QED
      BY <1>1, <3>1
  <2>8. CASE ~(EndedSince(f) < run.requested)
    <3>1. cuda' = cuda /\ hi' = hi
      BY <1>3, <1>4, <2>2, <2>3, <2>8
    <3>2. Kept(lo, hi)' = kept
      BY <2>2, <3>1 DEF Kept
    <3>3. Idle(lo, hi)
      BY <2>4, <2>8
    <3> HIDE DEF lo, hi, kept
    <3>4. Holds(lo, hi)'
      BY <2>2, <2>5, <2>7, <3>1, <3>2 DEF Holds
    <3>5. Idle(lo, hi)'
      BY <2>2, <3>1, <3>2, <3>3 DEF Idle, kept
    <3> QED
      BY <3>4, <3>5 DEF lo, hi
  <2>9. CASE EndedSince(f) < run.requested
    <3>1. cuda' = CudaMarkEnd(cuda, now)
      BY <1>3, <2>3, <2>9
    <3>2. hi = Finished /\ hi' = hi + 1 /\ hi + 1 = n
      <4>1. hi = Finished
        BY <2>9 DEF WindowEnd
      <4>2. hi' = Finished'
        BY <1>1, <1>4, <2>9 DEF WindowEnd
      <4> QED
        BY <1>1, <4>1, <4>2
    <3>3. Marking(lo, hi)
      BY <2>4, <2>9
    <3>4. CASE kept < cuda.capacity
      <4>1. /\ cuda.active /\ ~cuda.drop_active /\ cuda.dropped = (hi - lo) - kept
            /\ cuda.op = running /\ cuda.begin = ran[n].begin
        BY <3>3, <3>4 DEF Marking
      <4>2. cuda' = [cuda EXCEPT !.active = FALSE,
                       !.marks = Append(cuda.marks, [op |-> cuda.op, begin |-> cuda.begin,
                                                     end |-> now])]
        BY <3>1, <4>1 DEF CudaMarkEnd
      <4>3. cuda' = [cuda EXCEPT !.active = FALSE, !.marks = Append(cuda.marks, e)]
        BY <4>1, <4>2
      <4> HIDE DEF e
      <4>4. /\ ~cuda'.active /\ cuda'.drop_active = cuda.drop_active
            /\ cuda'.dropped = cuda.dropped /\ cuda'.capacity = cuda.capacity
            /\ cuda'.marks = Append(cuda.marks, e)
        BY <4>3 DEF ProfileInv, ProfileTypeInv, CudaRecords
      <4>5. e \in OperationRecords
        <5>1. n \in 1..Len(ran')
          BY <1>1
        <5> QED
          BY <1>1, <5>1, EndFacts
      <4>6. /\ Len(cuda'.marks) = kept + 1
            /\ \A k \in 1..kept : cuda'.marks[k] = cuda.marks[k]
            /\ cuda'.marks[kept + 1] = e
        BY <2>5, <2>6, <4>4, <4>5, OneAppended
      <4> HIDE DEF lo, hi, kept, n
      <4>7. Kept(lo, hi)' = kept + 1 /\ lo + (kept + 1) = n
        BY <2>2, <2>6, <3>2, <3>4, <4>4 DEF Kept
      <4>8. \A k \in 1..(kept + 1) : cuda'.marks[k] = ran'[lo + k]
        <5>1. \A k \in 1..(kept + 1) : k \in 1..kept \/ k = kept + 1
          BY <2>6
        <5> QED
          BY <1>1, <2>5, <2>7, <4>6, <4>7, <5>1
      <4>9. Holds(lo, hi)'
        BY <2>2, <4>6, <4>7, <4>8 DEF Holds
      <4>10. cuda'.dropped = (hi' - lo') - Kept(lo, hi)'
        BY <2>2, <2>6, <3>2, <3>4, <4>1, <4>4, <4>7
      <4>11. Idle(lo, hi)'
        BY <4>1, <4>4, <4>10 DEF Idle
      <4> QED
        BY <4>9, <4>11 DEF lo, hi
    <3>5. CASE ~(kept < cuda.capacity)
      <4>1. ~cuda.active /\ cuda.drop_active /\ cuda.dropped = ((hi - lo) - kept) + 1
        BY <3>3, <3>5 DEF Marking
      <4>2. cuda' = [cuda EXCEPT !.drop_active = FALSE]
        BY <3>1, <4>1 DEF CudaMarkEnd
      <4>3. /\ ~cuda'.drop_active /\ cuda'.active = cuda.active
            /\ cuda'.dropped = cuda.dropped /\ cuda'.capacity = cuda.capacity
            /\ cuda'.marks = cuda.marks
        BY <4>2 DEF ProfileInv, ProfileTypeInv, CudaRecords
      <4> HIDE DEF lo, hi, kept, n
      <4>4. Kept(lo, hi)' = kept
        BY <2>2, <2>6, <3>2, <3>5, <4>3 DEF Kept
      <4>5. Holds(lo, hi)'
        BY <2>2, <2>5, <2>7, <4>3, <4>4 DEF Holds
      <4>6. cuda'.dropped = (hi' - lo') - Kept(lo, hi)'
        BY <2>2, <2>6, <3>2, <4>1, <4>3, <4>4
      <4>7. Idle(lo, hi)'
        BY <4>1, <4>3, <4>6 DEF Idle
      <4> QED
        BY <4>5, <4>7 DEF lo, hi
    <3> QED
      BY <3>4, <3>5
  <2> QED
    BY <2>8, <2>9
<1> QED
  BY <1>1, <1>2, <1>4, <1>5, <1>6 DEF CudaInv

LEMMA MarkTypes ==
  ASSUME NEW c \in CudaRecords, NEW op \in Operations, NEW tick \in Nat,
         c.active => c.op \in Operations
  PROVE  /\ CudaMarkBegin(c, op, tick) \in CudaRecords
         /\ CudaMarkBegin(c, op, tick).active => CudaMarkBegin(c, op, tick).op \in Operations
         /\ CudaMarkEnd(c, tick) \in CudaRecords
         /\ CudaMarkEnd(c, tick).active => CudaMarkEnd(c, tick).op \in Operations
<1>1. /\ c.dropped + 1 \in Nat /\ op \in Operations \cup {NoOp}
      /\ c.marks \in Seq(OperationRecords)
  BY DEF CudaRecords
<1>2. c.active => Append(c.marks, [op |-> c.op, begin |-> c.begin, end |-> tick])
                    \in Seq(OperationRecords)
  <2>1. c.active => [op |-> c.op, begin |-> c.begin, end |-> tick] \in OperationRecords
    BY DEF CudaRecords, OperationRecords
  <2> QED
    BY <1>1, <2>1, OneAppended
<1> DEFINE b == CudaMarkBegin(c, op, tick)
           e == CudaMarkEnd(c, tick)
<1>3. b \in CudaRecords /\ (b.active => b.op \in Operations)
  <2>1. CASE c.active \/ Len(c.marks) = c.capacity
    <3>1. b = [c EXCEPT !.dropped = c.dropped + 1, !.drop_active = TRUE]
      BY <2>1 DEF CudaMarkBegin
    <3> HIDE DEF b
    <3> QED
      BY <1>1, <3>1 DEF CudaRecords
  <2>2. CASE ~(c.active \/ Len(c.marks) = c.capacity)
    <3>1. b = [c EXCEPT !.active = TRUE, !.op = op, !.begin = tick]
      BY <2>2 DEF CudaMarkBegin
    <3> HIDE DEF b
    <3> QED
      BY <1>1, <3>1 DEF CudaRecords
  <2> QED
    BY <2>1, <2>2
<1>4. e \in CudaRecords /\ (e.active => e.op \in Operations)
  <2>1. CASE c.drop_active
    <3>1. e = [c EXCEPT !.drop_active = FALSE]
      BY <2>1 DEF CudaMarkEnd
    <3> HIDE DEF e
    <3> QED
      BY <1>1, <3>1 DEF CudaRecords
  <2>2. CASE ~c.drop_active /\ ~c.active
    <3>1. e = [c EXCEPT !.dropped = c.dropped + 1]
      BY <2>2 DEF CudaMarkEnd
    <3> HIDE DEF e
    <3> QED
      BY <1>1, <2>2, <3>1 DEF CudaRecords
  <2>3. CASE ~c.drop_active /\ c.active
    <3> DEFINE m == Append(c.marks, [op |-> c.op, begin |-> c.begin, end |-> tick])
    <3>1. e = [c EXCEPT !.active = FALSE, !.marks = m]
      BY <2>3 DEF CudaMarkEnd
    <3>2. m \in Seq(OperationRecords)
      BY <1>2, <2>3
    <3> HIDE DEF e, m
    <3> QED
      BY <3>1, <3>2 DEF CudaRecords
  <2> QED
    BY <2>1, <2>2, <2>3
<1> QED
  BY <1>3, <1>4

LEMMA BeginKeeps ==
  ASSUME ProfileInv, BeginOp
  PROVE  ProfileInv'
<1>1. /\ outcome = "running" /\ running = NoOp
      /\ UNCHANGED <<timer, run, part, pc, epoch, batch_idx, outcome, steps>>
      /\ pc <= Len(Program) /\ CurrentCall.call = "op"
      /\ running' \in Operations /\ running' # NoOp
      /\ now' = now + 1 /\ now \in Nat
      /\ ran' \in Seq(OperationRecords) /\ Len(ran) \in Nat /\ Len(ran') = Len(ran) + 1
      /\ \A k \in 1..Len(ran) : ran'[k] = ran[k]
      /\ ran'[Len(ran')].op = running' /\ ran'[Len(ran')].begin = now
      /\ Finished' = Finished
      /\ StepOpen' <=> StepOpen
      /\ BatchesSoFar' = BatchesSoFar
      /\ cuda' = IF timer.enabled /\ run.device = "CUDA"
                 THEN CudaMarkBegin(cuda, running', now) ELSE cuda
  BY BeginFacts
<1>2. cuda' \in CudaRecords /\ (cuda'.active => cuda'.op \in Operations)
  <2>1. cuda \in CudaRecords /\ (cuda.active => cuda.op \in Operations)
    BY DEF ProfileInv, ProfileTypeInv
  <2> QED
    BY <1>1, <2>1, MarkTypes
<1>3. ProfileTypeInv'
  BY <1>1, <1>2 DEF ProfileInv, ProfileTypeInv
<1>4. RunningInv'
  <2>1. Program' = Program
    BY <1>1, SameProgram
  <2>2. CurrentCall' = CurrentCall
    BY <1>1, <2>1 DEF CurrentCall
  <2>3. ran' # <<>>
    <3>1. ran' = <<>> => Len(ran') = 0
      OBVIOUS
    <3> QED
      BY <1>1, <3>1
  <2> QED
    BY <1>1, <2>1, <2>2, <2>3 DEF RunningInv
<1>5. ClockInv'
  <2> DEFINE n == Len(ran)
  <2>1. \A i \in 1..n : ran[i].begin \in Nat /\ ran[i].begin < now
    BY OperationFields DEF ProfileInv, ClockInv
  <2>2. \A i, j \in 1..n : i < j => ran[i].begin < ran[j].begin
    BY DEF ProfileInv, ClockInv
  <2> HIDE DEF n
  <2>3. \A i \in 1..(n + 1) : i \in 1..n \/ i = n + 1
    BY <1>1 DEF n
  <2>4. \A i \in 1..n : ran'[i].begin = ran[i].begin
    BY <1>1 DEF n
  <2>5. ran'[n + 1].begin = now /\ Len(ran') = n + 1 /\ n \in Nat
    BY <1>1 DEF n
  <2>6. \A i \in 1..(n + 1) : ran'[i].begin < now'
    <3> SUFFICES ASSUME NEW i \in 1..(n + 1) PROVE ran'[i].begin < now'
      OBVIOUS
    <3>1. CASE i \in 1..n
      BY <1>1, <2>1, <2>4, <3>1
    <3>2. CASE i = n + 1
      BY <1>1, <2>5, <3>2
    <3> QED
      BY <2>3, <3>1, <3>2
  <2>7. \A i, j \in 1..(n + 1) : i < j => ran'[i].begin < ran'[j].begin
    <3> SUFFICES ASSUME NEW i \in 1..(n + 1), NEW j \in 1..(n + 1), i < j
                 PROVE  ran'[i].begin < ran'[j].begin
      OBVIOUS
    <3>1. i \in 1..n
      BY <2>5
    <3>2. CASE j \in 1..n
      BY <2>2, <2>4, <3>1, <3>2
    <3>3. CASE j = n + 1
      BY <2>1, <2>4, <2>5, <3>1, <3>3
    <3> QED
      BY <2>3, <3>2, <3>3
  <2> QED
    BY <2>5, <2>6, <2>7 DEF ClockInv
<1>6. StartInv'
  BY <1>1 DEF ProfileInv, StartInv
<1>7. StepsInv'
  BY <1>1, QuietSteps
<1>8. TimerInv'
  <2>1. run.profile_backend_ops => timer.completed = BatchesSoFar
    BY <1>1 DEF ProfileInv, TimerInv
  <2> QED
    BY <1>1, <2>1, QuietTimer
<1> QED
  BY <1>3, <1>4, <1>5, <1>6, <1>7, <1>8, BeginPool DEF ProfileInv

LEMMA EndKeeps ==
  ASSUME ProfileInv, Return \/ OpThrows
  PROVE  ProfileInv'
<1>1. /\ outcome = "running" /\ running \in Operations /\ running' = NoOp
      /\ UNCHANGED <<timer, run, part, epoch, batch_idx, outcome, steps>>
      /\ pc' \in Nat \ {0}
      /\ now' = now + 1 /\ now \in Nat
      /\ ran' \in Seq(OperationRecords) /\ Len(ran) \in Nat \ {0} /\ Len(ran') = Len(ran)
      /\ \A k \in 1..Len(ran) : ran'[k].begin = ran[k].begin
      /\ Finished' = Finished + 1
      /\ StepOpen' <=> StepOpen
      /\ BatchesSoFar' = BatchesSoFar
      /\ cuda' = IF timer.enabled /\ run.device = "CUDA" THEN CudaMarkEnd(cuda, now) ELSE cuda
  BY EndFacts DEF ProfileInv, ProfileTypeInv
<1>2. cuda' \in CudaRecords /\ (cuda'.active => cuda'.op \in Operations)
  <2>1. cuda \in CudaRecords /\ (cuda.active => cuda.op \in Operations)
    BY DEF ProfileInv, ProfileTypeInv
  <2> QED
    BY <1>1, <2>1, MarkTypes
<1>3. ProfileTypeInv'
  BY <1>1, <1>2 DEF ProfileInv, ProfileTypeInv
<1>4. RunningInv'
  BY <1>1 DEF RunningInv
<1>5. ClockInv'
  <2>1. \A i \in 1..Len(ran) : ran[i].begin \in Nat /\ ran[i].begin < now
    BY OperationFields DEF ProfileInv, ClockInv
  <2>2. \A i, j \in 1..Len(ran) : i < j => ran[i].begin < ran[j].begin
    BY DEF ProfileInv, ClockInv
  <2>3. \A i \in 1..Len(ran) : ran'[i].begin < now'
    BY <1>1, <2>1
  <2>4. \A i, j \in 1..Len(ran) : i < j => ran'[i].begin < ran'[j].begin
    BY <1>1, <2>2
  <2> QED
    BY <1>1, <2>3, <2>4 DEF ClockInv
<1>6. StartInv'
  BY <1>1 DEF ProfileInv, StartInv
<1>7. StepsInv'
  BY <1>1, QuietSteps
<1>8. TimerInv'
  <2>1. run.profile_backend_ops => timer.completed = BatchesSoFar
    BY <1>1 DEF ProfileInv, TimerInv
  <2> QED
    BY <1>1, <2>1, QuietTimer
<1> QED
  BY <1>3, <1>4, <1>5, <1>6, <1>7, <1>8, EndPool DEF ProfileInv

-----------------------------------------------------------------------------
(* The parts of training *)

LEMMA StartKeeps ==
  ASSUME ProfileInv, StartTraining
  PROVE  ProfileInv'
<1>1. /\ outcome = "running" /\ running = NoOp /\ part \in {"restore", "ready"}
      /\ UNCHANGED <<timer, cuda, run, epoch, batch_idx, running, now, outcome, steps>>
      /\ part' \in {"stop", "batch"} /\ pc' = 1 /\ ran' = <<>>
  BY DEF StartTraining, PartDone
<1>2. steps = <<>> /\ epoch = 0 /\ batch_idx = 0
  BY <1>1 DEF ProfileInv, StartInv
<1>3. run \in RunRecords /\ run.batches \in Nat /\ run.per_step \in Nat \ {0} /\ now \in Nat
  BY RunFacts DEF ProfileInv, ProfileTypeInv
<1>4. Len(steps) = 0 /\ Len(steps') = 0 /\ Len(ran') = 0
  BY <1>1, <1>2
<1>5. ProfileTypeInv'
  BY <1>1 DEF ProfileInv, ProfileTypeInv, Parts
<1>6. RunningInv'
  BY <1>1 DEF RunningInv
<1>7. ClockInv'
  BY <1>4 DEF ClockInv
<1>8. StartInv'
  BY <1>1, <1>2 DEF ProfileInv, StartInv
<1>9. ~StepOpen /\ BatchesSoFar = 0
  BY <1>1 DEF StepOpen, BatchesSoFar
<1>10. ~StepOpen' /\ BatchesSoFar' = 0
  <2>1. CASE part' = "batch"
    <3>1. Len(Program') \in Nat /\ Len(Program') > 2
      BY <1>1, <1>3, <2>1, BatchBegins
    <3>2. 0 % run.per_step = 0 /\ 0 * run.batches = 0
      BY <1>3
    <3>3. ~StepOpen'
      BY <1>1, <1>2, <1>3, <2>1, <3>2, BatchBegins
    <3>4. BatchesSoFar' = 0
      BY <1>1, <1>2, <1>3, <2>1, <3>1, <3>2 DEF BatchesSoFar, CompletedBatches
    <3> QED
      BY <3>3, <3>4
  <2>2. CASE part' = "stop"
    BY <1>1, <1>2, <1>3, <2>2 DEF StepOpen, BatchesSoFar
  <2> QED
    BY <1>1, <2>1, <2>2
<1>11. StepsInv'
  BY <1>4, <1>10 DEF StepsInv
<1>12. TimerInv'
  <2>1. run.profile_backend_ops => timer.completed = BatchesSoFar
    BY <1>1 DEF ProfileInv, TimerInv
  <2> QED
    BY <1>1, <1>9, <1>10, <2>1, QuietTimer
<1>13. CudaInv'
  <2>1. NoneOpens
    BY <1>4 DEF NoneOpens
  <2>2. run.device = "CUDA" => Holds(0, 0) /\ Idle(0, 0)
    BY <2>1 DEF ProfileInv, CudaInv
  <2>3. Kept(0, 0) = 0 /\ Kept(0, 0)' = 0
    BY <1>1, PoolFields DEF ProfileInv, Kept
  <2>4. run.device = "CUDA" => Holds(0, 0)' /\ Idle(0, 0)'
    BY <1>1, <2>2, <2>3 DEF Holds, Idle
  <2> QED
    BY <1>1, <1>4, <2>4 DEF CudaInv
<1> QED
  BY <1>5, <1>6, <1>7, <1>8, <1>11, <1>12, <1>13 DEF ProfileInv

(* The steps that leave the operations, the steps and the marks alone. *)
LEMMA QuietKeeps ==
  ASSUME ProfileInv, UNCHANGED <<run, running, now, ran, steps, cuda>>,
         StepOpen' <=> StepOpen, BatchesSoFar' = BatchesSoFar,
         part' \in Parts, pc' \in Nat \ {0}, epoch' \in Nat, batch_idx' \in Nat,
         part' \notin {"restore", "ready"} \/ UNCHANGED <<part, epoch, batch_idx>>,
         running = NoOp \/ UNCHANGED <<part, pc, batch_idx>>,
         timer' \in TimerRecords, timer'.recorded = timer.recorded,
         timer'.enabled => timer.enabled,
         \/ UNCHANGED <<outcome, timer>>
         \/ outcome = "running" /\ outcome' \notin {"running", "refused"}
  PROVE  ProfileInv'
<1>1. ProfileTypeInv'
  BY DEF ProfileInv, ProfileTypeInv
<1>2. RunningInv'
  <2>1. CASE running = NoOp
    BY <2>1 DEF RunningInv
  <2>2. CASE UNCHANGED <<part, pc, batch_idx>>
    <3>1. Program' = Program
      BY <2>2, SameProgram
    <3>2. CurrentCall' = CurrentCall
      BY <2>2, <3>1 DEF CurrentCall
    <3> QED
      BY <2>2, <3>1, <3>2 DEF ProfileInv, RunningInv
  <2> QED
    BY <2>1, <2>2
<1>3. ClockInv'
  BY DEF ProfileInv, ClockInv
<1>4. StartInv'
  BY DEF ProfileInv, StartInv
<1>5. Finished' = Finished
  BY DEF Finished
<1>6. StepsInv'
  BY <1>5, QuietSteps
<1>7. TimerInv'
  <2>1. run.profile_backend_ops /\ outcome = "running" => timer.completed = BatchesSoFar
    BY DEF ProfileInv, TimerInv
  <2>2. outcome' = "running" => outcome = "running" /\ timer' = timer
    OBVIOUS
  <2> QED
    BY <2>1, <2>2, QuietTimer
<1>8. CudaInv'
  BY QuietPool
<1> QED
  BY <1>1, <1>2, <1>3, <1>4, <1>6, <1>7, <1>8 DEF ProfileInv

LEMMA TurnKeeps ==
  ASSUME ProfileInv,
         NextBatch \/ BatchesDone \/ NextEvaluation \/ EvaluationDone \/ SaveLatest
           \/ ContinueTraining \/ StopTraining
  PROVE  ProfileInv'
<1>1. /\ StepOpen' <=> StepOpen
      /\ BatchesSoFar' = BatchesSoFar
      /\ UNCHANGED <<timer, cuda, run, running, now, outcome, ran, steps>>
      /\ part' \in Parts \ {"restore", "ready"} /\ pc' = 1
      /\ epoch' \in Nat /\ batch_idx' \in Nat
      /\ running = NoOp
  BY TurnKeepsSteps DEF ProfileInv
<1>2. /\ timer' \in TimerRecords /\ timer'.recorded = timer.recorded
      /\ (timer'.enabled => timer.enabled)
  BY <1>1 DEF ProfileInv, ProfileTypeInv
<1>3. part' \in Parts /\ pc' \in Nat \ {0} /\ part' \notin {"restore", "ready"}
  BY <1>1
<1> QED
  BY <1>1, <1>2, <1>3, QuietKeeps

LEMMA WriteFailsKeeps ==
  ASSUME ProfileInv, WriteFails
  PROVE  ProfileInv'
<1>1. /\ part = "save" /\ running = NoOp /\ pc \in 2..(Len(Program) - 1) /\ pc' = Len(Program)
      /\ UNCHANGED <<timer, cuda, run, part, epoch, batch_idx, running, now, outcome, ran, steps>>
  BY DEF WriteFails, history
<1>2. Len(Program) \in Nat \ {0}
  BY <1>1, ProgramShape DEF ProfileInv, ProfileTypeInv
<1>3. /\ StepOpen' <=> StepOpen
      /\ BatchesSoFar' = BatchesSoFar
  BY <1>1, NothingOutsideBatches
<1>4. /\ timer' \in TimerRecords /\ timer'.recorded = timer.recorded
      /\ (timer'.enabled => timer.enabled)
      /\ part' \in Parts /\ pc' \in Nat \ {0} /\ epoch' \in Nat /\ batch_idx' \in Nat
  BY <1>1, <1>2 DEF ProfileInv, ProfileTypeInv
<1> QED
  BY <1>1, <1>3, <1>4, QuietKeeps

LEMMA EndTrainingKeeps ==
  ASSUME ProfileInv, EndTraining
  PROVE  ProfileInv'
<1>1. /\ outcome = "running"
      /\ UNCHANGED <<cuda, run, part, pc, epoch, batch_idx, running, now, ran, steps>>
      /\ timer' = IF run.profile_backend_ops THEN [timer EXCEPT !.enabled = FALSE] ELSE timer
  BY DEF EndTraining, trainer, history
<1>2. outcome' \notin {"running", "refused"}
  BY DEF EndTraining, Summary
<1>3. /\ timer \in TimerRecords /\ part \in Parts /\ epoch \in Nat /\ batch_idx \in Nat
      /\ pc \in Nat \ {0}
  BY DEF ProfileInv, ProfileTypeInv
<1>4. timer' \in TimerRecords /\ timer'.recorded = timer.recorded
      /\ (timer'.enabled => timer.enabled)
  BY <1>1, <1>3 DEF TimerRecords
<1>5. /\ StepOpen' <=> StepOpen
      /\ BatchesSoFar' = BatchesSoFar
  <2>1. UNCHANGED <<run, part, batch_idx, pc, epoch>>
    BY <1>1
  <2> QED
    BY <2>1, SameProgram DEF StepOpen, BatchesSoFar, CompletedBatches
<1> QED
  BY <1>1, <1>2, <1>3, <1>4, <1>5, QuietKeeps

LEMMA StutterKeeps ==
  ASSUME ProfileInv, UNCHANGED vars
  PROVE  ProfileInv'
<1>1. UNCHANGED <<timer, cuda, run, part, pc, epoch, batch_idx, running, now, outcome, ran,
                  steps>>
  BY DEF vars, trainer, history
<1>2. /\ timer' \in TimerRecords /\ timer'.recorded = timer.recorded
      /\ (timer'.enabled => timer.enabled)
      /\ part' \in Parts /\ pc' \in Nat \ {0} /\ epoch' \in Nat /\ batch_idx' \in Nat
  BY <1>1 DEF ProfileInv, ProfileTypeInv
<1>3. /\ StepOpen' <=> StepOpen
      /\ BatchesSoFar' = BatchesSoFar
  <2>1. UNCHANGED <<run, part, batch_idx, pc, epoch>>
    BY <1>1
  <2> QED
    BY <2>1, SameProgram DEF StepOpen, BatchesSoFar, CompletedBatches
<1> QED
  BY <1>1, <1>2, <1>3, QuietKeeps

LEMMA InitProfile == Init => ProfileInv
<1> SUFFICES ASSUME Init PROVE ProfileInv
  OBVIOUS
<1>1. /\ run \in RunRecords /\ part \in {"restore", "ready"} /\ pc = 1 /\ epoch = 0
      /\ batch_idx = 0 /\ running = NoOp /\ now = 0 /\ timer = IdleTimer
      /\ cuda = PreparedCuda(run.requested) /\ ran = <<>> /\ steps = <<>>
      /\ outcome = IF ValidStepCount(run.requested) THEN "running" ELSE "refused"
  BY ProfileTypes DEF Init
<1>2. run.requested \in Nat /\ MarkCapacity(run.requested) \in Nat
  BY <1>1, RunFacts, TimerAssumption DEF MarkCapacity
<1>3. /\ cuda \in CudaRecords /\ ~cuda.active /\ ~cuda.drop_active /\ cuda.dropped = 0
      /\ cuda.marks = <<>> /\ cuda.capacity \in Nat
  BY <1>1, <1>2 DEF PreparedCuda, CudaRecords, NoOp
<1>4. timer \in TimerRecords /\ ~timer.enabled /\ timer.completed = 0 /\ timer.recorded = 0
  BY <1>1 DEF IdleTimer, TimerRecords
<1>5. Len(steps) = 0 /\ Len(ran) = 0
  BY <1>1
<1>6. ProfileTypeInv
  BY <1>1, <1>3, <1>4 DEF ProfileTypeInv, Parts
<1>7. RunningInv /\ ClockInv
  BY <1>1, <1>5 DEF RunningInv, ClockInv
<1>8. StartInv
  BY <1>1, <1>2 DEF StartInv, ValidStepCount
<1>9. ~StepOpen /\ BatchesSoFar = 0
  BY <1>1 DEF StepOpen, BatchesSoFar
<1>10. StepsInv
  BY <1>5, <1>9 DEF StepsInv
<1>11. NoneOpens /\ \A f : ~Opens(f)
  BY <1>5 DEF NoneOpens, Opens
<1>12. TimerInv
  BY <1>4, <1>9, <1>11 DEF TimerInv
<1>13. CudaInv
  <2>1. Kept(0, 0) = 0
    BY <1>3 DEF Kept
  <2>2. Holds(0, 0) /\ Idle(0, 0)
    BY <1>3, <2>1 DEF Holds, Idle
  <2> QED
    BY <1>11, <2>2 DEF CudaInv
<1> QED
  BY <1>6, <1>7, <1>8, <1>10, <1>12, <1>13 DEF ProfileInv

THEOREM ProfileInvariant == Spec => []ProfileInv
<1>1. ASSUME ProfileInv, [Next]_vars
      PROVE  ProfileInv'
  <2>1. CASE Observe
    BY <1>1, <2>1, ObserveKeeps
  <2>2. CASE BeginOp
    BY <1>1, <2>2, BeginKeeps
  <2>3. CASE Return \/ OpThrows
    BY <1>1, <2>3, EndKeeps
  <2>4. CASE WriteFails
    BY <1>1, <2>4, WriteFailsKeeps
  <2>5. CASE StartTraining
    BY <1>1, <2>5, StartKeeps
  <2>6. CASE NextBatch \/ BatchesDone \/ NextEvaluation \/ EvaluationDone \/ SaveLatest
               \/ ContinueTraining \/ StopTraining
    BY <1>1, <2>6, TurnKeeps
  <2>7. CASE EndTraining
    BY <1>1, <2>7, EndTrainingKeeps
  <2>8. CASE Over \/ UNCHANGED vars
    BY <1>1, <2>8, StutterKeeps DEF Over
  <2> QED
    BY <1>1, <2>1, <2>2, <2>3, <2>4, <2>5, <2>6, <2>7, <2>8 DEF Next
<1> QED
  BY <1>1, InitProfile, PTL DEF Spec

-----------------------------------------------------------------------------
(* The marked operations are the window *)

LEMMA Slice ==
  ASSUME NEW S, NEW s \in Seq(S), NEW a \in Nat, NEW b \in Nat, a <= b, b <= Len(s)
  PROVE  /\ SubSeq(s, a + 1, b) \in Seq(S)
         /\ Len(SubSeq(s, a + 1, b)) = b - a
         /\ \A k \in 1..(b - a) : SubSeq(s, a + 1, b)[k] = s[a + k]
<1>1. a + 1 \in 1..(Len(s) + 1) /\ b \in a..Len(s) /\ Len(s) \in Nat
  OBVIOUS
<1>2. \A i \in (a + 1)..b : s[i] \in S
  BY <1>1
<1>3. SubSeq(s, a + 1, b) = [k \in 1..(b - a) |-> s[a + k]]
  BY <1>1
<1>4. b - a \in Nat /\ \A k \in 1..(b - a) : a + k \in (a + 1)..b
  BY <1>1
<1> QED
  BY <1>2, <1>3, <1>4

(* The window is empty until a step opens it. *)
LEMMA NothingMarked ==
  ASSUME ProfileInv, NoneOpens \/ ~run.profile_backend_ops, run.device = "CUDA"
  PROVE  MarksAreTheWindow
<1>1. WindowOperations = <<>>
  BY DEF WindowOperations, NoneOpens, ProfileInv, ProfileTypeInv
<1>2. FinishedIn(WindowOperations) = <<>>
  BY <1>1 DEF FinishedIn
<1>3. Holds(0, 0) /\ Idle(0, 0)
  BY DEF ProfileInv, CudaInv
<1>4. Kept(0, 0) = 0 /\ cuda.capacity \in Nat /\ cuda.marks \in Seq(OperationRecords)
  BY PoolFields, EmptyWindow DEF ProfileInv
<1>5. cuda.marks = <<>> /\ cuda.dropped = 0
  BY <1>3, <1>4, EmptySeq DEF Holds, Idle
<1>6. (IF 0 < cuda.capacity THEN 0 ELSE cuda.capacity) = 0
  BY <1>4
<1> QED
  BY <1>2, <1>5, <1>6 DEF MarksAreTheWindow

(* Once open, the finished operations of the window are those from         *)
(* WindowStart to WindowEnd.                                               *)
LEMMA WindowIs ==
  ASSUME ProfileInv, run.profile_backend_ops, NEW f \in 1..Len(steps), Opens(f)
  PROVE  /\ FinishedIn(WindowOperations) \in Seq(OperationRecords)
         /\ Len(FinishedIn(WindowOperations)) = WindowEnd(f) - WindowStart(f)
         /\ \A k \in 1..(WindowEnd(f) - WindowStart(f)) :
              FinishedIn(WindowOperations)[k] = ran[WindowStart(f) + k]
<1> DEFINE n == Len(steps)
           open == {i \in DOMAIN steps : steps[i].batches >= run.skip}
           first == CHOOSE i \in open : \A j \in open : i <= j
           last == f + run.requested - 1
           lo == WindowStart(f)
           hi == WindowEnd(f)
           to == IF last \in DOMAIN steps /\ steps[last].ended THEN steps[last].to ELSE Len(ran)
<1>1. /\ n \in Nat /\ DOMAIN steps = 1..n /\ run.requested \in Nat \ {0}
      /\ EndedSince(f) \in Nat /\ Finished \in Nat
      /\ lo \in Nat /\ hi \in Nat /\ lo <= hi /\ hi <= Finished
      /\ EndedSince(f) >= run.requested => last \in f..n
  BY WindowBounds DEF ProfileInv, ProfileTypeInv
<1>2. /\ Len(ran) \in Nat /\ Finished <= Len(ran) /\ ran \in Seq(OperationRecords)
      /\ running = NoOp => Finished = Len(ran)
      /\ running # NoOp => Finished + 1 = Len(ran)
  BY FinishedNat DEF ProfileInv, ProfileTypeInv
<1>3. first = f
  <2>1. f \in open /\ \A j \in open : f <= j
    BY <1>1 DEF Opens
  <2>2. \A i \in open : (\A j \in open : i <= j) => i = f
    <3> SUFFICES ASSUME NEW i \in open, \A j \in open : i <= j PROVE i = f
      OBVIOUS
    <3>1. i <= f /\ f <= i /\ i \in Int /\ f \in Int
      BY <1>1, <2>1
    <3> QED
      BY <3>1
  <2> QED
    BY <2>1, <2>2
<1>4. WindowOperations = SubSeq(ran, lo + 1, to)
  <2>1. open # {}
    BY <1>1 DEF Opens
  <2>2. WindowOperations = SubSeq(ran, steps[first].from + 1,
              IF first + run.requested - 1 \in DOMAIN steps
                   /\ steps[first + run.requested - 1].ended
              THEN steps[first + run.requested - 1].to ELSE Len(ran))
    BY <2>1 DEF WindowOperations
  <2> HIDE DEF first
  <2> QED
    BY <1>3, <2>2 DEF WindowStart
<1>5. last \in DOMAIN steps /\ steps[last].ended <=> EndedSince(f) >= run.requested
  <2>1. last \in 1..n => (steps[last].ended <=> ~(StepOpen /\ last = n))
    BY DEF ProfileInv, StepsInv
  <2>2. EndedSince(f) = n - f + (IF StepOpen THEN 0 ELSE 1)
    BY DEF EndedSince
  <2> QED
    BY <1>1, <2>1, <2>2
<1>6. to = IF EndedSince(f) >= run.requested THEN hi ELSE Len(ran)
  BY <1>1, <1>5 DEF WindowEnd
<1> DEFINE w == SubSeq(ran, lo + 1, to)
<1> HIDE DEF first, open, last, to
<1>7. to \in Nat /\ lo <= to /\ to <= Len(ran)
  BY <1>1, <1>2, <1>6
<1>8. /\ w \in Seq(OperationRecords) /\ Len(w) = to - lo
      /\ \A k \in 1..(to - lo) : w[k] = ran[lo + k]
  <2> HIDE DEF lo
  <2>1. ran \in Seq(OperationRecords) /\ lo \in Nat /\ to \in Nat /\ lo <= to /\ to <= Len(ran)
    BY <1>1, <1>2, <1>7
  <2> QED
    BY <2>1, Slice
<1> HIDE DEF w
<1>9. w # <<>> => to - lo > 0 /\ Last(w) = ran[to]
  <2> SUFFICES ASSUME w # <<>> PROVE to - lo > 0 /\ Last(w) = ran[to]
    OBVIOUS
  <2>1. Len(w) # 0
    BY <1>8, EmptySeq
  <2>2. to - lo \in 1..(to - lo) /\ lo + (to - lo) = to
    BY <1>1, <1>7, <1>8, <2>1
  <2> QED
    BY <1>8, <2>2 DEF Last
<1>10. CASE running = NoOp \/ EndedSince(f) >= run.requested
  <2>1. to = hi
    <3>1. EndedSince(f) < run.requested => hi = Finished
      BY DEF WindowEnd
    <3> QED
      BY <1>1, <1>2, <1>6, <1>10, <3>1
  <2>2. ~(running # NoOp /\ w # <<>> /\ Last(w) = Last(ran))
    <3> SUFFICES ASSUME running # NoOp, w # <<>>, Last(w) = Last(ran) PROVE FALSE
      OBVIOUS
    <3>1. to < Len(ran) /\ to \in 1..Len(ran) /\ Len(ran) \in 1..Len(ran)
      BY <1>1, <1>2, <1>7, <1>9, <2>1
    <3>2. ran[to].begin < ran[Len(ran)].begin
      BY <3>1 DEF ProfileInv, ClockInv
    <3>3. ran[to] = ran[Len(ran)]
      BY <1>9 DEF Last
    <3>4. ran[to].begin \in Nat
      BY <3>1, OperationFields DEF ProfileInv
    <3> QED
      BY <3>2, <3>3, <3>4
  <2>3. FinishedIn(WindowOperations) = w
    BY <1>4, <2>2 DEF FinishedIn, w
  <2> QED
    BY <1>8, <2>1, <2>3
<1>11. CASE running # NoOp /\ ~(EndedSince(f) >= run.requested)
  <2>1. to = Len(ran) /\ hi = Finished /\ hi + 1 = Len(ran)
    BY <1>1, <1>2, <1>6, <1>11 DEF WindowEnd
  <2>2. w # <<>> /\ Len(w) = (hi - lo) + 1 /\ hi - lo \in Nat
    <3>1. Len(w) = (hi - lo) + 1 /\ hi - lo \in Nat
      BY <1>1, <1>8, <2>1
    <3>2. w = <<>> => Len(w) = 0
      OBVIOUS
    <3> QED
      BY <3>1, <3>2
  <2>3. Last(w) = Last(ran)
    BY <1>9, <2>1, <2>2 DEF Last
  <2>4. FinishedIn(WindowOperations) = SubSeq(w, 0 + 1, hi - lo)
    <3>1. FinishedIn(WindowOperations) = Front(w)
      BY <1>4, <1>11, <2>2, <2>3 DEF FinishedIn, w
    <3>2. Len(w) - 1 = hi - lo
      BY <2>2
    <3> QED
      BY <3>1, <3>2 DEF Front
  <2> DEFINE m == SubSeq(w, 0 + 1, hi - lo)
  <2>5. /\ m \in Seq(OperationRecords) /\ Len(m) = (hi - lo) - 0
        /\ \A k \in 1..((hi - lo) - 0) : m[k] = w[0 + k]
    BY <1>8, <2>2, Slice
  <2> HIDE DEF m, lo, hi
  <2>6. Len(m) = hi - lo /\ \A k \in 1..(hi - lo) : m[k] = ran[lo + k]
    <3>1. \A k \in 1..(hi - lo) : 0 + k = k /\ k \in 1..(to - lo)
      BY <1>1, <2>1, <2>2
    <3> QED
      BY <1>8, <2>2, <2>5, <3>1
  <2> QED
    BY <2>4, <2>5, <2>6 DEF m, lo, hi
<1> QED
  BY <1>10, <1>11

LEMMA MarksFollow == ProfileInv => MarksAreTheWindow
<1> SUFFICES ASSUME ProfileInv, run.device = "CUDA" PROVE MarksAreTheWindow
  BY DEF MarksAreTheWindow
<1>1. CASE NoneOpens \/ ~run.profile_backend_ops
  BY <1>1, NothingMarked
<1>2. CASE ~NoneOpens /\ run.profile_backend_ops
  <2>1. PICK f \in 1..Len(steps) : Opens(f)
    BY <1>2 DEF ProfileInv, TimerInv
  <2> DEFINE lo == WindowStart(f)
             hi == WindowEnd(f)
             m == FinishedIn(WindowOperations)
             kept == IF Len(m) < cuda.capacity THEN Len(m) ELSE cuda.capacity
  <2>2. /\ m \in Seq(OperationRecords) /\ Len(m) = hi - lo
        /\ \A k \in 1..(hi - lo) : m[k] = ran[lo + k]
    BY <1>2, <2>1, WindowIs
  <2>3. /\ Holds(lo, hi)
        /\ running = NoOp => Idle(lo, hi)
    BY <1>2, <2>1 DEF ProfileInv, CudaInv
  <2>4. lo \in Nat /\ hi \in Nat /\ lo <= hi
    BY <2>1, WindowBounds
  <2>5. kept = Kept(lo, hi)
    BY <2>2 DEF Kept
  <2>6. /\ kept \in Nat /\ kept <= Len(m) /\ cuda.marks \in Seq(OperationRecords)
        /\ Len(cuda.marks) = kept
        /\ \A k \in 1..kept : cuda.marks[k] = ran[lo + k]
    BY <2>2, <2>3, <2>4, <2>5, KeptNat, PoolFields DEF ProfileInv, Holds
  <2>7. running = NoOp => cuda.dropped = Len(m) - kept
    BY <2>2, <2>3, <2>5 DEF Idle
  <2> HIDE DEF lo, hi, m, kept
  <2>8. cuda.marks = SubSeq(m, 1, kept)
    <3> DEFINE s == SubSeq(m, 0 + 1, kept)
    <3>1. /\ s \in Seq(OperationRecords) /\ Len(s) = kept - 0
          /\ \A k \in 1..(kept - 0) : s[k] = m[0 + k]
      BY <2>2, <2>6, Slice
    <3>2. s = SubSeq(m, 1, kept)
      OBVIOUS
    <3> HIDE DEF s
    <3>3. Len(s) = kept /\ \A k \in 1..kept : s[k] = ran[lo + k]
      <4>1. \A k \in 1..kept : 0 + k = k /\ k \in 1..(hi - lo)
        BY <2>2, <2>4, <2>6
      <4> QED
        BY <2>2, <2>6, <3>1, <4>1
    <3>4. cuda.marks = s
      BY <2>6, <3>1, <3>3, SeqEqual
    <3> QED
      BY <3>2, <3>4
  <2> QED
    BY <2>7, <2>8 DEF MarksAreTheWindow, m, kept
<1> QED
  BY <1>1, <1>2

(* The CUDA pool holds exactly the operations of the window that was asked *)
(* for, in the order they ran, each under its own name with its own begin  *)
(* and end, up to the pool's capacity, and counts the others as dropped:   *)
(* whatever batches make up a step, and whatever operation throws.         *)
THEOREM PoolHoldsTheWindow == Spec => []MarksAreTheWindow
BY ProfileInvariant, MarksFollow, PTL

-----------------------------------------------------------------------------
(* A window that is cut off is not reported *)

(* How training ended: the timer's summary is checked against its count. *)
OutcomeInv ==
  outcome \notin {"running", "refused"} /\ run.profile_backend_ops =>
    (outcome = "incomplete" <=> timer.recorded # run.requested)

LEMMA OutcomeKeeps ==
  ASSUME OutcomeInv, [Next]_vars
  PROVE  OutcomeInv'
<1>1. CASE EndTraining
  <2>1. /\ outcome = "running" /\ run' = run
        /\ timer' = IF run.profile_backend_ops THEN [timer EXCEPT !.enabled = FALSE] ELSE timer
    BY <1>1 DEF EndTraining, trainer
  <2>2. run.profile_backend_ops =>
          \E r : outcome' = Summary(timer, run.requested, r)
    BY <1>1 DEF EndTraining
  <2>3. timer'.recorded = timer.recorded
    BY <2>1
  <2>4. \A r : Summary(timer, run.requested, r) = "incomplete" <=>
                 timer.recorded # run.requested
    BY DEF Summary
  <2> QED
    BY <2>1, <2>2, <2>3, <2>4 DEF OutcomeInv
<1>2. CASE outcome = "running" /\ outcome' = outcome
  BY <1>2 DEF OutcomeInv
<1>3. CASE UNCHANGED <<outcome, run, timer>>
  BY <1>3 DEF OutcomeInv
<1>4. EndTraining \/ (outcome = "running" /\ outcome' = outcome)
        \/ UNCHANGED <<outcome, run, timer>>
  BY DEF Next, Observe, BeginOp, Return, OpThrows, EndOp, WriteFails, StartTraining, NextBatch,
         BatchesDone, NextEvaluation, EvaluationDone, SaveLatest, ContinueTraining, StopTraining,
         Turn, Over, vars, trainer
<1> QED
  BY <1>1, <1>2, <1>3, <1>4

LEMMA RefusalFollows == ProfileInv /\ OutcomeInv => WholeStepsOrRefusal
<1> SUFFICES ASSUME ProfileInv, OutcomeInv, outcome \notin {"running", "refused"},
                    run.profile_backend_ops
             PROVE  (outcome = "incomplete") <=>
                      (Cardinality({i \in DOMAIN steps : steps[i].batches >= run.skip
                                                         /\ steps[i].ended}) < run.requested)
  BY DEF WholeStepsOrRefusal
<1> DEFINE whole == {i \in DOMAIN steps : steps[i].batches >= run.skip /\ steps[i].ended}
           n == Len(steps)
<1>1. outcome = "incomplete" <=> timer.recorded # run.requested
  BY DEF OutcomeInv
<1>2. /\ n \in Nat /\ DOMAIN steps = 1..n /\ run.requested \in Nat \ {0} /\ run.skip \in Nat
      /\ \A i \in 1..n : steps[i].batches \in Nat
  BY StepFields, RunFacts DEF ProfileInv, ProfileTypeInv, StartInv
<1>3. CASE NoneOpens
  <2>1. whole = {}
    BY <1>2, <1>3 DEF NoneOpens
  <2>2. Cardinality(whole) = 0 /\ timer.recorded = 0
    BY <1>3, <2>1, FS_EmptySet DEF ProfileInv, TimerInv
  <2> QED
    BY <1>1, <1>2, <2>2
<1>4. CASE ~NoneOpens
  <2>1. PICK f \in 1..n : Opens(f)
    BY <1>4 DEF ProfileInv, TimerInv
  <2> DEFINE e == IF StepOpen THEN n - 1 ELSE n
  <2>2. e \in Int /\ EndedSince(f) = e - f + 1 /\ EndedSince(f) \in Nat
    BY <1>2, <2>1, WindowBounds DEF EndedSince
  <2>3. whole = f..e
    <3>1. \A i \in 1..n : steps[i].ended <=> i <= e
      <4>1. \A i \in 1..n : steps[i].ended <=> ~(StepOpen /\ i = n)
        BY DEF ProfileInv, StepsInv
      <4>2. \A i \in 1..n : i <= e <=> ~(StepOpen /\ i = n)
        <5> HIDE DEF n
        <5>1. CASE StepOpen
          BY <1>2, <5>1
        <5>2. CASE ~StepOpen
          BY <1>2, <5>2
        <5> QED
          BY <5>1, <5>2
      <4> HIDE DEF e
      <4> QED
        BY <4>1, <4>2
    <3>2. \A i \in 1..n : steps[i].batches >= run.skip <=> f <= i
      <4> SUFFICES ASSUME NEW i \in 1..n PROVE steps[i].batches >= run.skip <=> f <= i
        OBVIOUS
      <4>1. i < f => ~(steps[i].batches >= run.skip)
        BY <2>1 DEF Opens
      <4>2. f <= i => steps[f].batches <= steps[i].batches
        <5>1. f < i => steps[f].batches <= steps[i].batches
          BY DEF ProfileInv, StepsInv
        <5> QED
          BY <1>2, <5>1
      <4>3. steps[f].batches >= run.skip
        BY <2>1 DEF Opens
      <4> QED
        BY <1>2, <2>1, <4>1, <4>2, <4>3
    <3>3. e <= n
      BY <1>2
    <3> HIDE DEF e
    <3> QED
      BY <1>2, <2>1, <2>2, <3>1, <3>2, <3>3
  <2>4. Cardinality(f..e) = EndedSince(f)
    <3>1. Cardinality(f..e) = IF f > e THEN 0 ELSE e - f + 1
      <4>1. f \in Int
        BY <1>2
      <4> HIDE DEF e
      <4> QED
        BY <2>2, <4>1, FS_Interval
    <3> HIDE DEF e
    <3> QED
      BY <1>2, <2>1, <2>2, <3>1
  <2>5. timer.recorded =
          IF EndedSince(f) < run.requested THEN EndedSince(f) ELSE run.requested
    BY <2>1 DEF ProfileInv, TimerInv
  <2>6. Cardinality(whole) = EndedSince(f)
    BY <2>3, <2>4
  <2>7. outcome = "incomplete" <=> EndedSince(f) < run.requested
    BY <1>1, <1>2, <2>2, <2>5
  <2> QED
    BY <2>6, <2>7
<1> QED
  BY <1>3, <1>4

(* Training that ends before the requested steps have ended is reported as *)
(* incomplete, and only then: what is reported is of whole steps.          *)
THEOREM ReportsWholeWindows == Spec => []WholeStepsOrRefusal
<1>1. Init => OutcomeInv
  BY DEF Init, OutcomeInv
<1> QED
  BY <1>1, OutcomeKeeps, ProfileInvariant, RefusalFollows, PTL DEF Spec

-----------------------------------------------------------------------------
(* Sums over finite sets *)

(* A set of naturals has a least element. *)
LEMMA LeastNatural ==
  ASSUME NEW T \in SUBSET Nat, T # {}
  PROVE  \E x \in T : \A y \in T : x <= y
<1>1. \A x, y \in Nat : x < y => <<x, y>> \in OpToRel(<, Nat)
  BY DEF OpToRel
<1>2. PICK x \in T : \A y \in T : ~(<<y, x>> \in OpToRel(<, Nat))
  <2>1. IsWellFoundedOn(OpToRel(<, Nat), Nat)
    BY NatLessThanWellFounded
  <2> QED
    BY <2>1, WFMin
<1>3. \A y \in T : ~(y < x)
  BY <1>1, <1>2, Zenon
<1> QED
  BY <1>3

AnyOf(s) == CHOOSE x \in s : TRUE

(* F adds up h over every subset of S. *)
Totals(F, h, S) ==
  /\ F = [s \in SUBSET S |-> F[s]]
  /\ F[{}] = 0
  /\ \A s \in SUBSET S : s # {} => F[s] = h[AnyOf(s)] + F[s \ {AnyOf(s)}]

IntTotals(F, h, S) == F \in [SUBSET S -> Int] /\ Totals(F, h, S)

SumOf(h, S) == MapThenSumSet(LAMBDA x : h[x], S)

(* There is such a sum: of the subsets of up to n elements, by induction   *)
(* on n.                                                                   *)
LEMMA TotalsExist ==
  ASSUME NEW S, IsFiniteSet(S), NEW h, \A i \in S : h[i] \in Int
  PROVE  \E F : IntTotals(F, h, S)
<1> DEFINE Small(n) == {s \in SUBSET S : Cardinality(s) <= n}
           Sums(F, n) ==
             /\ F \in [SUBSET S -> Int]
             /\ F[{}] = 0
             /\ \A s \in Small(n) : s # {} => F[s] = h[AnyOf(s)] + F[s \ {AnyOf(s)}]
           Without == {n \in Nat : ~\E F : Sums(F, n)}
<1>1. \A s \in SUBSET S : /\ IsFiniteSet(s) /\ Cardinality(s) \in Nat
                          /\ Cardinality(s) <= Cardinality(S)
                          /\ s # {} => /\ AnyOf(s) \in s
                                       /\ Cardinality(s \ {AnyOf(s)}) = Cardinality(s) - 1
                                       /\ Cardinality(s) # 0
  <2> TAKE s \in SUBSET S
  <2>1. IsFiniteSet(s) /\ Cardinality(s) <= Cardinality(S) /\ Cardinality(s) \in Nat
    BY FS_Subset, FS_CardinalityType
  <2>2. ASSUME s # {}
        PROVE  AnyOf(s) \in s
    BY <2>2 DEF AnyOf
  <2>3. ASSUME s # {}
        PROVE  Cardinality(s \ {AnyOf(s)}) = Cardinality(s) - 1 /\ Cardinality(s) # 0
    BY <2>1, <2>2, <2>3, FS_RemoveElement, FS_EmptySet
  <2> QED
    BY <2>1, <2>2, <2>3
<1>2. Cardinality(S) \in Nat
  BY FS_CardinalityType
<1>3. 0 \notin Without
  <2> DEFINE F == [s \in SUBSET S |-> 0]
  <2>1. \A s \in SUBSET S : Cardinality(s) <= 0 => s = {}
    <3> TAKE s \in SUBSET S
    <3>1. Cardinality(s) \in Nat /\ (s # {} => Cardinality(s) # 0)
      BY <1>1
    <3> QED
      BY <3>1
  <2>2. F \in [SUBSET S -> Int] /\ F[{}] = 0
    OBVIOUS
  <2>3. Sums(F, 0)
    BY <2>1, <2>2
  <2> QED
    BY <2>3
<1>4. ASSUME NEW n \in Nat, n \notin Without
      PROVE  n + 1 \notin Without
  <2>1. PICK F : Sums(F, n)
    BY <1>4
  <2> DEFINE G == [s \in SUBSET S |-> IF s = {} THEN 0 ELSE h[AnyOf(s)] + F[s \ {AnyOf(s)}]]
  <2>2. G \in [SUBSET S -> Int] /\ G[{}] = 0
    <3>1. ASSUME NEW s \in SUBSET S, s # {}
          PROVE  h[AnyOf(s)] + F[s \ {AnyOf(s)}] \in Int
      <4>1. AnyOf(s) \in S /\ s \ {AnyOf(s)} \in SUBSET S
        BY <1>1, <3>1
      <4> QED
        BY <2>1, <4>1
    <3>2. \A s \in SUBSET S : G[s] \in Int
      <4> TAKE s \in SUBSET S
      <4>1. G[s] = IF s = {} THEN 0 ELSE h[AnyOf(s)] + F[s \ {AnyOf(s)}]
        OBVIOUS
      <4> HIDE DEF G
      <4>2. CASE s = {}
        BY <4>1, <4>2
      <4>3. CASE s # {}
        BY <3>1, <4>1, <4>3
      <4> QED
        BY <4>2, <4>3
    <3>3. {} \in SUBSET S /\ G = [s \in SUBSET S |-> G[s]]
      OBVIOUS
    <3>4. G[{}] = IF {} = {} THEN 0 ELSE h[AnyOf({})] + F[{} \ {AnyOf({})}]
      BY <3>3, Zenon
    <3>5. G[{}] = 0
      BY <3>4
    <3> HIDE DEF G
    <3> QED
      BY <3>2, <3>3, <3>5
  <2>3. \A s \in Small(n) : G[s] = F[s]
    BY <2>1
  <2>4. \A s \in Small(n + 1) : s # {} => s \ {AnyOf(s)} \in Small(n)
    BY <1>1
  <2>5. \A s \in Small(n + 1) : s # {} => G[s] = h[AnyOf(s)] + G[s \ {AnyOf(s)}]
    BY <2>3, <2>4
  <2> QED
    BY <2>2, <2>5
<1>5. Without = {}
  <2> SUFFICES ASSUME Without # {} PROVE FALSE
    OBVIOUS
  <2>1. PICK n \in Without : \A m \in Without : n <= m
    BY LeastNatural
  <2> HIDE DEF Without
  <2>2. n \in Nat
    BY DEF Without
  <2>3. n # 0
    BY <1>3, <2>1
  <2>4. n - 1 \in Nat /\ (n - 1) + 1 = n /\ ~(n <= n - 1)
    BY <2>2, <2>3
  <2>5. n - 1 \notin Without
    BY <2>1, <2>4
  <2> QED
    BY <1>4, <2>1, <2>4, <2>5
<1>6. PICK F : Sums(F, Cardinality(S))
  BY <1>2, <1>5
<1>7. \A s \in SUBSET S : s \in Small(Cardinality(S))
  BY <1>1
<1> QED
  BY <1>6, <1>7 DEF Totals, IntTotals

(* ... and one only. *)
LEMMA TotalsUnique ==
  ASSUME NEW S, IsFiniteSet(S), NEW h, NEW F, NEW G, Totals(F, h, S), Totals(G, h, S)
  PROVE  F[S] = G[S]
<1> DEFINE Apart == {s \in SUBSET S : F[s] # G[s]}
<1> SUFFICES ASSUME S \in Apart PROVE FALSE
  OBVIOUS
<1>1. Apart \subseteq FiniteSubsetsOf(S)
  BY FS_Subset DEF FiniteSubsetsOf
<1>2. PICK s \in Apart : \A t \in Apart : ~(<<t, s>> \in StrictSubsetOrdering(S))
  <2>1. IsWellFoundedOn(StrictSubsetOrdering(S), FiniteSubsetsOf(S))
    BY FS_StrictSubsetOrderingWellFounded
  <2>2. Apart # {}
    OBVIOUS
  <2> HIDE DEF Apart
  <2> QED
    BY <1>1, <2>1, <2>2, WFMin
<1>3. s # {} /\ AnyOf(s) \in s
  BY DEF Totals, AnyOf
<1>4. <<s \ {AnyOf(s)}, s>> \in StrictSubsetOrdering(S)
  BY <1>3 DEF StrictSubsetOrdering
<1>5. F[s \ {AnyOf(s)}] = G[s \ {AnyOf(s)}]
  BY <1>2, <1>4
<1> QED
  BY <1>3, <1>5 DEF Totals

(* The sum is any table of totals looked up.                               *)
LEMMA SumIsTotal ==
  ASSUME NEW S, IsFiniteSet(S), NEW h, NEW G, Totals(G, h, S)
  PROVE  SumOf(h, S) = G[S]
<1> DEFINE Rec(F) == F = [s \in SUBSET S |->
                          IF s = {} THEN 0
                          ELSE h[CHOOSE x \in s : TRUE] + F[s \ {CHOOSE x \in s : TRUE}]]
           C == CHOOSE F : Rec(F)
<1>1. SumOf(h, S) = C[S]
  BY DEF SumOf, MapThenSumSet, MapThenFoldSet
<1>2. G = [s \in SUBSET S |-> G[s]] /\ \A s \in SUBSET S :
         G[s] = IF s = {} THEN 0 ELSE h[CHOOSE x \in s : TRUE] + G[s \ {CHOOSE x \in s : TRUE}]
  BY DEF Totals, AnyOf
<1>3. Rec(G)
  BY <1>2
<1>4. Rec(C)
  BY <1>3
<1> HIDE DEF C
<1>5. Totals(C, h, S)
  BY <1>4 DEF Totals, AnyOf
<1> QED
  BY <1>1, <1>5, TotalsUnique

(* Adding an element adds its term, whatever the order. *)
LEMMA TotalsAdd ==
  ASSUME NEW S, IsFiniteSet(S), NEW h, \A i \in S : h[i] \in Int, NEW F, IntTotals(F, h, S),
         NEW z \in S
  PROVE  F[S] = F[S \ {z}] + h[z]
<1> USE DEF IntTotals
<1> DEFINE Off == {s \in SUBSET S : \E x \in s : F[s] # F[s \ {x}] + h[x]}
<1> SUFFICES ASSUME Off # {} PROVE FALSE
  OBVIOUS
<1>1. Off \subseteq FiniteSubsetsOf(S)
  BY FS_Subset DEF FiniteSubsetsOf
<1>2. PICK s \in Off : \A t \in Off : ~(<<t, s>> \in StrictSubsetOrdering(S))
  <2>1. IsWellFoundedOn(StrictSubsetOrdering(S), FiniteSubsetsOf(S))
    BY FS_StrictSubsetOrderingWellFounded
  <2> HIDE DEF Off
  <2> QED
    BY <1>1, <2>1, WFMin
<1>3. s \in SUBSET S
  OBVIOUS
<1>4. PICK x \in s : F[s] # F[s \ {x}] + h[x]
  OBVIOUS
<1>5. PICK y \in s : F[s] = h[y] + F[s \ {y}]
  BY <1>4 DEF Totals, AnyOf
<1>6. h[x] \in Int /\ h[y] \in Int /\ \A t \in SUBSET S : F[t] \in Int
  <2>1. x \in S /\ y \in S
    BY <1>3
  <2> QED
    BY <2>1
<1>7. F[s \ {x}] \in Int /\ F[s \ {y}] \in Int
  BY <1>3, <1>6
<1> HIDE DEF Off
<1>8. y # x
  <2> SUFFICES ASSUME y = x PROVE FALSE
    OBVIOUS
  <2>1. F[s] = h[x] + F[s \ {x}]
    BY <1>5, Zenon
  <2> DEFINE a == F[s \ {x}]
             b == h[x]
  <2>2. a \in Int /\ b \in Int /\ F[s] = b + a /\ F[s] # a + b
    BY <1>4, <1>6, <1>7, <2>1, Zenon
  <2> HIDE DEF a, b
  <2> QED
    BY <2>2
<1>9. s \ {y} \in SUBSET S /\ x \in s \ {y} /\ s \ {x} \in SUBSET S /\ y \in s \ {x}
  BY <1>3, <1>4, <1>5, <1>8
<1>10. /\ <<s \ {y}, s>> \in StrictSubsetOrdering(S)
      /\ <<s \ {x}, s>> \in StrictSubsetOrdering(S)
  BY <1>3, <1>4, <1>5 DEF StrictSubsetOrdering
<1>11. s \ {y} \notin Off /\ s \ {x} \notin Off
  BY <1>2, <1>10
<1>12. /\ F[s \ {y}] = F[(s \ {y}) \ {x}] + h[x]
       /\ F[s \ {x}] = F[(s \ {x}) \ {y}] + h[y]
  BY <1>9, <1>11 DEF Off
<1>13. (s \ {y}) \ {x} = (s \ {x}) \ {y}
  <2> QED
    BY Zenon
<1>14. F[(s \ {x}) \ {y}] \in Int
  <2>1. (s \ {x}) \ {y} \in SUBSET S
    BY <1>3
  <2> QED
    BY <1>6, <2>1
<1> DEFINE a == F[s \ {x}]
           b == F[s \ {y}]
           c == F[(s \ {x}) \ {y}]
           d == h[x]
           e == h[y]
<1>15. /\ a \in Int /\ b \in Int /\ c \in Int /\ d \in Int /\ e \in Int
       /\ F[s] # a + d /\ F[s] = e + b
  BY <1>4, <1>5, <1>6, <1>7, <1>14, Zenon
<1>16. b = c + d /\ a = c + e
  BY <1>12, <1>13, Zenon
<1> HIDE DEF a, b, c, d, e
<1> QED
  BY <1>15, <1>16

(* A table of totals, cut down to a subset, is one of the subset.          *)
LEMMA SubsetTotals ==
  ASSUME NEW S, NEW T \in SUBSET S, NEW h, NEW F, Totals(F, h, S),
         NEW G, G = [s \in SUBSET T |-> F[s]]
  PROVE  Totals(G, h, T)
<1>1. \A s \in SUBSET T : s \in SUBSET S /\ G[s] = F[s] /\ s \ {AnyOf(s)} \in SUBSET T
  OBVIOUS
<1>2. \A s \in SUBSET T : s # {} => G[s] = h[AnyOf(s)] + G[s \ {AnyOf(s)}]
  <2> TAKE s \in SUBSET T
  <2> HAVE s # {}
  <2>1. s \in SUBSET S /\ s \ {AnyOf(s)} \in SUBSET T /\ G[s] = F[s]
        /\ G[s \ {AnyOf(s)}] = F[s \ {AnyOf(s)}]
    BY <1>1
  <2> QED
    BY <2>1 DEF Totals
<1>3. G[{}] = 0
  BY DEF Totals
<1>4. G = [s \in SUBSET T |-> G[s]]
  OBVIOUS
<1> QED
  BY <1>2, <1>3, <1>4 DEF Totals

(* A sum of integers is an integer, and that of nothing is 0.              *)
LEMMA SumType ==
  ASSUME NEW S, IsFiniteSet(S), NEW h, \A i \in S : h[i] \in Int
  PROVE  SumOf(h, S) \in Int
<1>1. PICK F : IntTotals(F, h, S)
  BY TotalsExist
<1>2. SumOf(h, S) = F[S]
  BY <1>1, SumIsTotal DEF IntTotals
<1> QED
  BY <1>1, <1>2 DEF IntTotals

LEMMA SumEmpty ==
  ASSUME NEW h
  PROVE  SumOf(h, {}) = 0
<1> DEFINE F == [s \in SUBSET {} |-> 0]
<1>1. Totals(F, h, {})
  BY DEF Totals
<1> HIDE DEF F
<1>2. F[{}] = 0
  BY <1>1 DEF Totals
<1> QED
  BY <1>1, <1>2, SumIsTotal, FS_EmptySet

(* Equal terms, equal sums.                                                *)
LEMMA SumSame ==
  ASSUME NEW S, IsFiniteSet(S), NEW h, \A i \in S : h[i] \in Int, NEW g,
         \A x \in S : h[x] = g[x]
  PROVE  SumOf(h, S) = SumOf(g, S)
<1>1. PICK F : IntTotals(F, h, S)
  BY TotalsExist
<1>2. Totals(F, h, S)
  BY <1>1 DEF IntTotals
<1>3. Totals(F, g, S)
  BY <1>2 DEF Totals, AnyOf
<1> QED
  BY <1>2, <1>3, SumIsTotal

(* The sum without one element, and that element.                          *)
LEMMA SumAdd ==
  ASSUME NEW S, IsFiniteSet(S), NEW h, \A i \in S : h[i] \in Int, NEW x \in S
  PROVE  SumOf(h, S) = SumOf(h, S \ {x}) + h[x]
<1>1. PICK F : IntTotals(F, h, S)
  BY TotalsExist
<1>2. SumOf(h, S) = F[S]
  BY <1>1, SumIsTotal DEF IntTotals
<1>3. SumOf(h, S \ {x}) = F[S \ {x}]
  <2> DEFINE T == S \ {x}
             G == [s \in SUBSET T |-> F[s]]
  <2>1. Totals(G, h, T)
    <3>1. T \in SUBSET S
      OBVIOUS
    <3>2. Totals(F, h, S)
      BY <1>1 DEF IntTotals
    <3> HIDE DEF T
    <3>3. G = [s \in SUBSET T |-> F[s]]
      OBVIOUS
    <3> HIDE DEF G
    <3> QED
      BY <3>1, <3>2, <3>3, SubsetTotals
  <2>3. G[T] = F[T]
    OBVIOUS
  <2>2. IsFiniteSet(T)
    BY FS_RemoveElement
  <2> HIDE DEF G
  <2> QED
    BY <2>1, <2>2, <2>3, SumIsTotal
<1>4. F[S] = F[S \ {x}] + h[x]
  BY <1>1, TotalsAdd
<1> QED
  BY <1>2, <1>3, <1>4


(* A sum of marked times. *)
LEMMA MarksTime ==
  ASSUME NEW marks, NEW S, IsFiniteSet(S),
         \A i \in S : marks[i].end - marks[i].begin \in Int
  PROVE  MapThenSumSet(LAMBDA i : marks[i].end - marks[i].begin, S)
           = SumOf([i \in S |-> marks[i].end - marks[i].begin], S)
<1> DEFINE h == [i \in S |-> marks[i].end - marks[i].begin]
           Rec(F) == F = [s \in SUBSET S |->
             IF s = {} THEN 0
             ELSE (marks[CHOOSE x \in s : TRUE].end - marks[CHOOSE x \in s : TRUE].begin)
                    + F[s \ {CHOOSE x \in s : TRUE}]]
           C == CHOOSE F : Rec(F)
<1>1. MapThenSumSet(LAMBDA i : marks[i].end - marks[i].begin, S) = C[S]
  BY DEF MapThenSumSet, MapThenFoldSet
<1>2. \A s \in SUBSET S : s # {} =>
        h[CHOOSE x \in s : TRUE]
          = marks[CHOOSE x \in s : TRUE].end - marks[CHOOSE x \in s : TRUE].begin
  OBVIOUS
<1>3. \A i \in S : h[i] \in Int
  OBVIOUS
<1> HIDE DEF h
<1>4. PICK G : IntTotals(G, h, S)
  BY <1>3, TotalsExist
<1>5. Totals(G, h, S)
  BY <1>4 DEF IntTotals
<1>6. G = [s \in SUBSET S |-> G[s]] /\ \A s \in SUBSET S :
        G[s] = IF s = {} THEN 0
               ELSE (marks[CHOOSE x \in s : TRUE].end - marks[CHOOSE x \in s : TRUE].begin)
                      + G[s \ {CHOOSE x \in s : TRUE}]
  BY <1>2, <1>5 DEF Totals, AnyOf
<1>7. Rec(C)
  <2>1. Rec(G)
    BY <1>6
  <2> QED
    BY <2>1
<1> HIDE DEF C
<1>8. Totals(C, h, S)
  BY <1>2, <1>7 DEF Totals, AnyOf
<1> QED
  BY <1>1, <1>8, SumIsTotal DEF h

-----------------------------------------------------------------------------
(* The totals of a sequence of marks *)

(* What one more mark adds to the totals. *)
WithMark(totals, e) ==
  [op \in DOMAIN totals \cup {e.op} |->
     IF op # e.op THEN totals[op]
     ELSE [count |-> TotalOf(totals, e.op).count + 1,
           time |-> TotalOf(totals, e.op).time + (e.end - e.begin)]]

OfOp(marks, op) == {i \in DOMAIN marks : marks[i].op = op}
TimeOf(marks, op) == MapThenSumSet(LAMBDA i : marks[i].end - marks[i].begin, OfOp(marks, op))

(* The entries of the totals, one for each operation that has a mark.      *)
LEMMA TotalsFields ==
  ASSUME NEW marks
  PROVE  /\ DOMAIN TotalsOfMarks(marks) = {marks[i].op : i \in DOMAIN marks}
         /\ \A op \in DOMAIN TotalsOfMarks(marks) :
              TotalsOfMarks(marks)[op] =
                [count |-> Cardinality(OfOp(marks, op)), time |-> TimeOf(marks, op)]
         /\ TotalsOfMarks(marks) = [op \in DOMAIN TotalsOfMarks(marks) |-> TotalsOfMarks(marks)[op]]
BY DEF TotalsOfMarks, OfOp, TimeOf

(* The marks of an operation are finitely many, with integer durations.    *)
LEMMA OfOpFinite ==
  ASSUME NEW marks \in Seq(OperationRecords), NEW op
  PROVE  /\ IsFiniteSet(OfOp(marks, op)) /\ Cardinality(OfOp(marks, op)) \in Nat
         /\ \A i \in OfOp(marks, op) : /\ i \in 1..Len(marks)
                                       /\ marks[i].end - marks[i].begin \in Int
<1>1. Len(marks) \in Nat /\ DOMAIN marks = 1..Len(marks)
      /\ \A i \in 1..Len(marks) : marks[i] \in OperationRecords
  OBVIOUS
<1>2. IsFiniteSet(1..Len(marks))
  BY <1>1, FS_Interval
<1>3. IsFiniteSet(OfOp(marks, op)) /\ Cardinality(OfOp(marks, op)) \in Nat
  BY <1>1, <1>2, FS_Subset, FS_CardinalityType DEF OfOp
<1> QED
  BY <1>1, <1>3 DEF OfOp, OperationRecords

(* The time of an operation is the sum of the durations of its marks.      *)
LEMMA TimeIsSum ==
  ASSUME NEW marks \in Seq(OperationRecords), NEW op
  PROVE  /\ TimeOf(marks, op) = SumOf([i \in OfOp(marks, op) |-> marks[i].end - marks[i].begin],
                                      OfOp(marks, op))
         /\ TimeOf(marks, op) \in Int
<1> DEFINE S == OfOp(marks, op)
           h == [i \in S |-> marks[i].end - marks[i].begin]
<1>1. IsFiniteSet(S) /\ \A i \in S : marks[i].end - marks[i].begin \in Int
  BY OfOpFinite
<1>2. TimeOf(marks, op) = SumOf(h, S)
  BY <1>1, MarksTime DEF TimeOf
<1>3. \A i \in S : h[i] \in Int
  BY <1>1
<1> HIDE DEF h, S
<1>4. SumOf(h, S) \in Int
  BY <1>1, <1>3, SumType
<1> QED
  BY <1>2, <1>4 DEF h, S

(* The marks of an operation other than the one added, and of that one. *)
LEMMA OneMoreMark ==
  ASSUME NEW marks \in Seq(OperationRecords), NEW e \in OperationRecords, NEW op
  PROVE  /\ op # e.op => /\ OfOp(Append(marks, e), op) = OfOp(marks, op)
                         /\ TimeOf(Append(marks, e), op) = TimeOf(marks, op)
         /\ op = e.op =>
              /\ Cardinality(OfOp(Append(marks, e), op)) = Cardinality(OfOp(marks, op)) + 1
              /\ TimeOf(Append(marks, e), op) = TimeOf(marks, op) + (e.end - e.begin)
<1> DEFINE more == Append(marks, e)
           n == Len(marks)
           S == OfOp(marks, op)
           T == OfOp(more, op)
           h == [i \in S |-> marks[i].end - marks[i].begin]
           g == [i \in T |-> more[i].end - more[i].begin]
<1>1. /\ more \in Seq(OperationRecords) /\ n \in Nat /\ DOMAIN marks = 1..n /\ DOMAIN more = 1..(n + 1)
      /\ \A i \in 1..n : more[i] = marks[i]
      /\ more[n + 1] = e
  OBVIOUS
<1>2. /\ IsFiniteSet(S) /\ \A i \in S : i \in 1..n /\ h[i] \in Int
      /\ TimeOf(marks, op) = SumOf(h, S) /\ TimeOf(marks, op) \in Int
  BY OfOpFinite, TimeIsSum
<1> HIDE DEF more
<1>3. /\ IsFiniteSet(T) /\ \A i \in T : g[i] \in Int
      /\ TimeOf(more, op) = SumOf(g, T)
  BY <1>1, OfOpFinite, TimeIsSum
<1>4. n + 1 \notin S
  BY <1>1, <1>2
<1>5. ASSUME op # e.op
      PROVE  T = S /\ TimeOf(more, op) = TimeOf(marks, op)
  <2>1. T = S
    BY <1>1, <1>5 DEF OfOp
  <2>2. \A i \in S : h[i] = g[i]
    BY <1>1, <1>2, <2>1
  <2> HIDE DEF h, g, T, S
  <2>3. SumOf(h, S) = SumOf(g, S)
    BY <1>2, <2>2, SumSame
  <2> QED
    BY <1>2, <1>3, <2>1, <2>3
<1>6. ASSUME op = e.op
      PROVE  /\ Cardinality(T) = Cardinality(S) + 1
             /\ TimeOf(more, op) = TimeOf(marks, op) + (e.end - e.begin)
  <2>1. T = S \cup {n + 1} /\ n + 1 \in T /\ T \ {n + 1} = S
    <3>1. \A i \in 1..(n + 1) : i \in 1..n \/ i = n + 1
      BY <1>1
    <3> HIDE DEF n
    <3>2. T = S \cup {n + 1}
      BY <1>1, <1>6, <3>1 DEF OfOp
    <3> HIDE DEF T, S
    <3> QED
      BY <1>4, <3>2
  <2>2. \A i \in S : g[i] = h[i]
    <3> HIDE DEF n
    <3> QED
      BY <1>1, <1>2, <2>1
  <2>3. g[n + 1] = e.end - e.begin
    <3> HIDE DEF n
    <3> QED
      BY <1>1, <2>1
  <2> HIDE DEF h, g, T, S, n
  <2>4. Cardinality(T) = Cardinality(S) + 1
    BY <1>2, <1>4, <2>1, FS_AddElement
  <2>5. SumOf(g, T) = SumOf(g, S) + g[n + 1]
    BY <1>3, <2>1, SumAdd
  <2>6. SumOf(g, S) = SumOf(h, S)
    BY <1>2, <1>3, <2>1, <2>2, SumSame
  <2> QED
    BY <1>2, <1>3, <2>3, <2>4, <2>5, <2>6
<1> QED
  BY <1>5, <1>6 DEF more

(* Totals kept mark by mark are the totals of the marks: one mark more     *)
(* changes the entry of its operation as mark_end does.                    *)
LEMMA TotalsOfMore ==
  ASSUME NEW marks \in Seq(OperationRecords), NEW e \in OperationRecords
  PROVE  TotalsOfMarks(Append(marks, e)) = WithMark(TotalsOfMarks(marks), e)
<1> DEFINE more == Append(marks, e)
           t == TotalsOfMarks(marks)
           u == TotalsOfMarks(more)
           w == WithMark(t, e)
           n == Len(marks)
<1>1. /\ n \in Nat /\ DOMAIN marks = 1..n /\ DOMAIN more = 1..(n + 1)
      /\ \A i \in 1..n : more[i] = marks[i]
      /\ more[n + 1] = e
  OBVIOUS
<1>2. \A i \in 1..(n + 1) : i \in 1..n \/ i = n + 1
  BY <1>1
<1>3. /\ DOMAIN t = {marks[i].op : i \in 1..n}
      /\ \A op \in DOMAIN t :
           t[op] = [count |-> Cardinality(OfOp(marks, op)), time |-> TimeOf(marks, op)]
  BY <1>1, TotalsFields
<1>4. /\ DOMAIN u = {more[i].op : i \in 1..(n + 1)}
      /\ \A op \in DOMAIN u :
           u[op] = [count |-> Cardinality(OfOp(more, op)), time |-> TimeOf(more, op)]
      /\ u = [op \in DOMAIN u |-> u[op]]
  <2> HIDE DEF more
  <2> QED
    BY <1>1, TotalsFields
<1>5. /\ w = [op \in DOMAIN t \cup {e.op} |-> w[op]]
      /\ \A op \in DOMAIN t \cup {e.op} :
           w[op] = IF op # e.op THEN t[op]
                   ELSE [count |-> TotalOf(t, e.op).count + 1,
                         time |-> TotalOf(t, e.op).time + (e.end - e.begin)]
  BY DEF WithMark
<1>6. DOMAIN u = DOMAIN t \cup {e.op}
  <2> HIDE DEF u, t, more, n
  <2> QED
    BY <1>1, <1>2, <1>3, <1>4
<1>7. \A op : /\ op # e.op => /\ OfOp(more, op) = OfOp(marks, op)
                              /\ TimeOf(more, op) = TimeOf(marks, op)
              /\ op = e.op =>
                   /\ Cardinality(OfOp(more, op)) = Cardinality(OfOp(marks, op)) + 1
                   /\ TimeOf(more, op) = TimeOf(marks, op) + (e.end - e.begin)
  BY OneMoreMark
<1>8. e.op \notin DOMAIN t => Cardinality(OfOp(marks, e.op)) = 0 /\ TimeOf(marks, e.op) = 0
  <2> SUFFICES ASSUME e.op \notin DOMAIN t
               PROVE  Cardinality(OfOp(marks, e.op)) = 0 /\ TimeOf(marks, e.op) = 0
    OBVIOUS
  <2>1. OfOp(marks, e.op) = {}
    BY <1>1, <1>3 DEF OfOp
  <2>2. TimeOf(marks, e.op) = 0
    BY <2>1, TimeIsSum, SumEmpty
  <2> QED
    BY <2>1, <2>2, FS_EmptySet
<1>9. /\ TotalOf(t, e.op).count = Cardinality(OfOp(marks, e.op))
      /\ TotalOf(t, e.op).time = TimeOf(marks, e.op)
  <2>1. CASE e.op \in DOMAIN t
    <3>1. TotalOf(t, e.op) = t[e.op]
      BY <2>1 DEF TotalOf
    <3>2. t[e.op] = [count |-> Cardinality(OfOp(marks, e.op)), time |-> TimeOf(marks, e.op)]
      BY <1>3, <2>1
    <3> HIDE DEF t
    <3> QED
      BY <3>1, <3>2
  <2>2. CASE e.op \notin DOMAIN t
    <3>1. TotalOf(t, e.op) = NoTotal
      BY <2>2 DEF TotalOf
    <3> HIDE DEF t
    <3> QED
      BY <1>8, <2>2, <3>1 DEF NoTotal
  <2> QED
    BY <2>1, <2>2
<1> HIDE DEF u, w, t, more
<1>10. \A op \in DOMAIN u : u[op] = w[op]
  <2> SUFFICES ASSUME NEW op \in DOMAIN u PROVE u[op] = w[op]
    OBVIOUS
  <2>1. CASE op # e.op
    <3>1. op \in DOMAIN t
      BY <1>6, <2>1
    <3>2. w[op] = t[op]
      BY <1>5, <2>1, <3>1
    <3>3. OfOp(more, op) = OfOp(marks, op) /\ TimeOf(more, op) = TimeOf(marks, op)
      BY <1>7, <2>1
    <3>4. /\ t[op] = [count |-> Cardinality(OfOp(marks, op)), time |-> TimeOf(marks, op)]
          /\ u[op] = [count |-> Cardinality(OfOp(more, op)), time |-> TimeOf(more, op)]
      BY <1>3, <1>4, <3>1
    <3> QED
      BY <3>2, <3>3, <3>4
  <2>2. CASE op = e.op
    <3>1. w[op] = [count |-> TotalOf(t, e.op).count + 1,
                   time |-> TotalOf(t, e.op).time + (e.end - e.begin)]
      BY <1>5, <2>2
    <3>2. u[op] = [count |-> Cardinality(OfOp(more, op)), time |-> TimeOf(more, op)]
      BY <1>4
    <3>3. /\ Cardinality(OfOp(more, op)) = Cardinality(OfOp(marks, op)) + 1
          /\ TimeOf(more, op) = TimeOf(marks, op) + (e.end - e.begin)
      BY <1>7, <2>2
    <3> QED
      BY <1>9, <2>2, <3>1, <3>2, <3>3
  <2> QED
    BY <2>1, <2>2
<1> QED
  BY <1>4, <1>5, <1>6, <1>10 DEF u, w, t, more

(* Totals of operations whose times can be added up. *)
Summable(totals) ==
  /\ IsFiniteSet(DOMAIN totals)
  /\ \A op \in DOMAIN totals : totals[op].time \in Int

(* The times of the totals of some marks can be added up.                  *)
LEMMA MarksSummable ==
  ASSUME NEW marks \in Seq(OperationRecords)
  PROVE  Summable(TotalsOfMarks(marks))
<1> DEFINE t == TotalsOfMarks(marks)
<1>1. Len(marks) \in Nat /\ DOMAIN marks = 1..Len(marks)
  OBVIOUS
<1>2. IsFiniteSet({marks[i].op : i \in 1..Len(marks)})
  <2>1. IsFiniteSet(1..Len(marks))
    BY <1>1, FS_Interval
  <2> DEFINE ops == [i \in 1..Len(marks) |-> marks[i].op]
             Image == {marks[i].op : i \in 1..Len(marks)}
  <2>2. ops \in Surjection(1..Len(marks), Image)
    BY DEF Surjection
  <2> HIDE DEF ops, Image
  <2>3. IsFiniteSet(Image)
    BY <2>1, <2>2, FS_Surjection
  <2> QED
    BY <2>3 DEF Image
<1>3. IsFiniteSet(DOMAIN t)
  BY <1>1, <1>2, TotalsFields
<1>4. \A op \in DOMAIN t : t[op].time = TimeOf(marks, op)
  <2>1. \A op \in DOMAIN t :
          t[op] = [count |-> Cardinality(OfOp(marks, op)), time |-> TimeOf(marks, op)]
    BY TotalsFields
  <2> HIDE DEF t
  <2> QED
    BY <2>1
<1>5. \A op \in DOMAIN t : t[op].time \in Int
  BY <1>4, TimeIsSum
<1> QED
  BY <1>3, <1>5 DEF Summable

(* OperationTime is the sum of the entries' times.                         *)
LEMMA OperationTimeIsSum ==
  ASSUME NEW totals, Summable(totals)
  PROVE  OperationTime(totals) = SumOf([op \in DOMAIN totals |-> totals[op].time], DOMAIN totals)
<1> DEFINE S == DOMAIN totals
           h == [op \in S |-> totals[op].time]
           Rec(F) == F = [s \in SUBSET S |->
             IF s = {} THEN 0
             ELSE totals[CHOOSE x \in s : TRUE].time + F[s \ {CHOOSE x \in s : TRUE}]]
           C == CHOOSE F : Rec(F)
<1>1. OperationTime(totals) = C[S]
  BY DEF OperationTime, MapThenSumSet, MapThenFoldSet
<1>2. \A s \in SUBSET S : s # {} =>
        h[CHOOSE x \in s : TRUE] = totals[CHOOSE x \in s : TRUE].time
  OBVIOUS
<1>3. IsFiniteSet(S) /\ \A i \in S : h[i] \in Int
  BY DEF Summable
<1> HIDE DEF h
<1>4. PICK G : IntTotals(G, h, S)
  BY <1>3, TotalsExist
<1>5. Totals(G, h, S)
  BY <1>4 DEF IntTotals
<1>6. G = [s \in SUBSET S |-> G[s]] /\ \A s \in SUBSET S :
        G[s] = IF s = {} THEN 0
               ELSE totals[CHOOSE x \in s : TRUE].time + G[s \ {CHOOSE x \in s : TRUE}]
  BY <1>2, <1>5 DEF Totals, AnyOf
<1>7. Rec(C)
  <2>1. Rec(G)
    BY <1>6
  <2> QED
    BY <2>1
<1> HIDE DEF C
<1>8. Totals(C, h, S)
  BY <1>2, <1>7 DEF Totals, AnyOf
<1> QED
  BY <1>1, <1>3, <1>8, SumIsTotal DEF h

(* A mark more is its time more. *)
LEMMA TimeOfMore ==
  ASSUME NEW totals, Summable(totals), NEW e \in OperationRecords
  PROVE  /\ OperationTime(totals) \in Int
         /\ OperationTime(WithMark(totals, e)) = OperationTime(totals) + (e.end - e.begin)
<1> DEFINE w == WithMark(totals, e)
           S == DOMAIN totals
           T == S \cup {e.op}
           R == S \ {e.op}
           h == [op \in S |-> totals[op].time]
           g == [op \in T |-> w[op].time]
           d == e.end - e.begin
<1>1. DOMAIN w = T /\ d \in Int
  BY DEF WithMark, OperationRecords
<1>2. IsFiniteSet(S) /\ IsFiniteSet(T) /\ IsFiniteSet(R) /\ \A op \in S : h[op] \in Int
  BY FS_AddElement, FS_RemoveElement DEF Summable
<1>3. \A op \in T : g[op] = IF op # e.op THEN h[op] ELSE (TotalOf(totals, e.op).time + d)
  BY DEF WithMark
<1>4. TotalOf(totals, e.op).time = (IF e.op \in S THEN h[e.op] ELSE 0)
  BY DEF TotalOf, NoTotal
<1> HIDE DEF w, h, g, d
<1>5. \A op \in T : g[op] \in Int
  <2> SUFFICES ASSUME NEW op \in T PROVE g[op] \in Int
    OBVIOUS
  <2>1. CASE op # e.op
    BY <1>2, <1>3, <2>1
  <2>2. CASE op = e.op
    <3>1. TotalOf(totals, e.op).time \in Int
      BY <1>2, <1>4
    <3>2. g[op] = TotalOf(totals, e.op).time + d
      BY <1>3, <2>2
    <3> QED
      BY <1>1, <3>1, <3>2
  <2> QED
    BY <2>1, <2>2
<1>6. OperationTime(totals) = SumOf(h, S) /\ SumOf(h, S) \in Int
  BY <1>2, OperationTimeIsSum, SumType DEF h
<1>7. OperationTime(w) = SumOf(g, T)
  <2>1. \A op \in T : g[op] = w[op].time
    BY DEF g
  <2>2. Summable(w)
    BY <1>1, <1>2, <1>5, <2>1 DEF Summable
  <2> QED
    BY <1>1, <2>2, OperationTimeIsSum DEF g
<1>8. SumOf(g, T) = SumOf(g, R) + g[e.op]
  <2>1. e.op \in T /\ T \ {e.op} = R
    OBVIOUS
  <2> HIDE DEF R, T
  <2> QED
    BY <1>2, <1>5, <2>1, SumAdd
<1>9. SumOf(g, R) = SumOf(h, R) /\ SumOf(h, R) \in Int
  <2>1. \A op \in R : h[op] \in Int /\ h[op] = g[op]
    BY <1>2, <1>3
  <2> HIDE DEF R
  <2> QED
    BY <1>2, <2>1, SumSame, SumType
<1>10. g[e.op] = TotalOf(totals, e.op).time + d
  BY <1>3
<1>11. SumOf(h, S) = SumOf(h, R) + TotalOf(totals, e.op).time
  <2>1. CASE e.op \in S
    BY <1>2, <1>4, <2>1, SumAdd
  <2>2. CASE e.op \notin S
    <3>1. R = S
      BY <2>2
    <3> HIDE DEF R, S
    <3> QED
      BY <1>4, <1>9, <2>2, <3>1
  <2> QED
    BY <2>1, <2>2
<1>12. TotalOf(totals, e.op).time \in Int
  BY <1>2, <1>4
<1> HIDE DEF R, S, T
<1> QED
  BY <1>1, <1>6, <1>7, <1>8, <1>9, <1>10, <1>11, <1>12 DEF w, d

(* Operations that follow one another take no longer than their span. *)
InOrder(marks) ==
  /\ \A i \in 1..Len(marks) : marks[i].begin <= marks[i].end
  /\ \A i, j \in 1..Len(marks) : i < j => marks[i].end <= marks[j].begin

(* No marks, no entries.                                                   *)
LEMMA NoTotals ==
  TotalsOfMarks(<<>>) = <<>>
<1> DEFINE t == TotalsOfMarks(<<>>)
<1>1. DOMAIN <<>> = {}
  OBVIOUS
<1>2. DOMAIN t = {<<>>[i].op : i \in DOMAIN <<>>} /\ t = [op \in DOMAIN t |-> t[op]]
  BY TotalsFields
<1> HIDE DEF t
<1>3. DOMAIN t = {}
  BY <1>1, <1>2
<1>4. <<>> = [op \in {} |-> t[op]]
  OBVIOUS
<1>5. t = <<>>
  BY <1>2, <1>3, <1>4
<1> QED
  BY <1>5 DEF t

LEMMA NoMarksNoTime ==
  OperationTime(TotalsOfMarks(<<>>)) = 0
<1> DEFINE t == TotalsOfMarks(<<>>)
<1>1. DOMAIN t = {}
  <2>1. DOMAIN <<>> = {}
    OBVIOUS
  <2>2. DOMAIN t = {<<>>[i].op : i \in DOMAIN <<>>}
    BY TotalsFields
  <2> HIDE DEF t
  <2> QED
    BY <2>1, <2>2
<1>2. Summable(t)
  <2>1. <<>> \in Seq(OperationRecords)
    OBVIOUS
  <2> QED
    BY <2>1, MarksSummable, Zenon
<1> HIDE DEF t
<1>3. OperationTime(t) = SumOf([op \in DOMAIN t |-> t[op].time], {})
  BY <1>1, <1>2, OperationTimeIsSum
<1> QED
  BY <1>3, SumEmpty DEF t

(* Operations that do not overlap take no longer than the span from the    *)
(* first begin to the last end.                                            *)
LEMMA TimeWithinSpan ==
  ASSUME NEW marks \in Seq(OperationRecords), marks # <<>>, InOrder(marks)
  PROVE  /\ OperationTime(TotalsOfMarks(marks)) \in Int
         /\ OperationTime(TotalsOfMarks(marks)) <= marks[Len(marks)].end - marks[1].begin
<1> DEFINE n == Len(marks)
           First(k) == SubSeq(marks, 1, k)
           time(k) == OperationTime(TotalsOfMarks(First(k)))
           Off == {k \in 1..n : ~(time(k) <= marks[k].end - marks[1].begin)}
<1>1. /\ n \in Nat \ {0}
      /\ \A k \in 1..n : marks[k] \in OperationRecords /\ marks[k].begin \in Nat /\ marks[k].end \in Nat
  <2>1. n \in Nat \ {0} /\ \A k \in 1..n : marks[k] \in OperationRecords
    BY EmptySeq
  <2> QED
    BY <2>1 DEF OperationRecords
<1>2. \A k \in 0..n : First(k) \in Seq(OperationRecords)
  OBVIOUS
<1>3. \A k \in 0..n : time(k) \in Int
  <2> SUFFICES ASSUME NEW k \in 0..n PROVE time(k) \in Int
    OBVIOUS
  <2>1. Summable(TotalsOfMarks(First(k)))
    BY <1>2, MarksSummable
  <2> QED
    BY <1>1, <2>1, TimeOfMore
<1>4. ASSUME NEW k \in 1..n
      PROVE  time(k) = time(k - 1) + (marks[k].end - marks[k].begin)
  <2> DEFINE s == First(k - 1)
  <2>1. s \in Seq(OperationRecords) /\ First(k) = Append(s, marks[k])
    OBVIOUS
  <2> HIDE DEF s
  <2>2. TotalsOfMarks(First(k)) = WithMark(TotalsOfMarks(s), marks[k])
    BY <1>1, <2>1, TotalsOfMore
  <2>3. Summable(TotalsOfMarks(s))
    BY <2>1, MarksSummable
  <2>4. OperationTime(TotalsOfMarks(First(k)))
          = OperationTime(TotalsOfMarks(s)) + (marks[k].end - marks[k].begin)
    BY <1>1, <2>2, <2>3, TimeOfMore
  <2> QED
    BY <2>4 DEF s
<1>5. time(0) = 0
  <2>1. First(0) = <<>>
    BY EmptySeq
  <2> QED
    BY <2>1, NoMarksNoTime
<1> HIDE DEF time
<1>6. Off = {}
  <2> SUFFICES ASSUME Off # {} PROVE FALSE
    OBVIOUS
  <2>1. Off \in SUBSET Nat
    OBVIOUS
  <2>2. PICK k \in Off : \A j \in Off : k <= j
    <3> HIDE DEF Off
    <3> QED
      BY <2>1, LeastNatural
  <2>3. k \in 1..n /\ ~(time(k) <= marks[k].end - marks[1].begin)
    OBVIOUS
  <2>4. marks[k].begin <= marks[k].end
    BY <2>3 DEF InOrder
  <2>5. CASE k = 1
    BY <1>1, <1>3, <1>4, <1>5, <2>3, <2>5
  <2>6. CASE k # 1
    <3>1. k - 1 \in 1..n /\ k - 1 < k
      BY <1>1, <2>3, <2>6
    <3>2. k - 1 \notin Off
      BY <2>2, <3>1
    <3>3. time(k - 1) <= marks[k - 1].end - marks[1].begin
      BY <3>1, <3>2
    <3>4. marks[k - 1].end <= marks[k].begin
      BY <2>3, <3>1 DEF InOrder
    <3>5. time(k) = time(k - 1) + (marks[k].end - marks[k].begin) /\ time(k - 1) \in Int
      BY <1>1, <1>3, <1>4, <2>3, <3>1
    <3> HIDE DEF n, Off
    <3> QED
      BY <1>1, <2>3, <3>1, <3>3, <3>4, <3>5
  <2> QED
    BY <2>5, <2>6
<1>7. First(n) = marks
  OBVIOUS
<1>8. n \in 1..n /\ n \notin Off
  BY <1>1, <1>6
<1>9. time(n) <= marks[n].end - marks[1].begin /\ time(n) \in Int
  BY <1>1, <1>3, <1>8
<1> QED
  BY <1>7, <1>9 DEF time

-----------------------------------------------------------------------------
(* The invariant: what the measured window holds *)

(* Operations follow one another. *)
TimesInv ==
  /\ \A i \in 1..Finished : ran[i].begin < ran[i].end /\ ran[i].end < now
  /\ \A i, j \in 1..Len(ran) : i < j => ran[i].end <= ran[j].begin

(* A step runs operations before it ends. *)
BeforeStepEnd == part = "batch" /\ StepEndsAt(batch_idx) /\ pc = Len(Program) - 1
WorkInv ==
  /\ \A i \in 1..Len(steps) : steps[i].ended => steps[i].from < steps[i].to
  /\ BeforeStepEnd => steps[Len(steps)].from < Len(ran)

(* The wall clock of the host holds the totals of the operations from      *)
(* place lo + 1 to place hi, and when the first began and the last ended.  *)
HostFields ==
  host = [totals |-> host.totals, active |-> host.active, op |-> host.op, start |-> host.start,
          has_span |-> host.has_span, span_start |-> host.span_start,
          span_end |-> host.span_end, dropped |-> host.dropped]
HostHolds(lo, hi) ==
  /\ host.totals = TotalsOfMarks(SubSeq(ran, lo + 1, hi))
  /\ host.dropped = 0
  /\ host.has_span => host.span_start = ran[lo + 1].begin
  /\ lo < hi => host.span_end = ran[hi].end
HostIdle(lo, hi) == ~host.active /\ (host.has_span <=> lo < hi)
HostMarking ==
  host.active /\ host.has_span /\ host.op = running /\ host.start = ran[Len(ran)].begin

HostInv ==
  /\ HostFields
  /\ run.device = "CPU" =>
       /\ NoneOpens \/ ~run.profile_backend_ops => host = PreparedHost
       /\ run.profile_backend_ops =>
            \A f \in 1..Len(steps) : Opens(f) =>
              /\ HostHolds(WindowStart(f), WindowEnd(f))
              /\ IF running # NoOp /\ EndedSince(f) < run.requested
                 THEN HostMarking ELSE HostIdle(WindowStart(f), WindowEnd(f))

ReportInv == TimesInv /\ WorkInv /\ HostInv /\ IdleIsTheRest

-----------------------------------------------------------------------------
(* Every step keeps it *)

(* The other steps of training. *)
LEMMA OtherSteps ==
  ASSUME ProfileInv, [Next]_vars
  PROVE  \/ Observe
         \/ BeginOp
         \/ Return \/ OpThrows
         \/ StartTraining
         \/ EndTraining
         \/ /\ UNCHANGED <<timer, host, run, running, now, outcome, report, ran, steps>>
            /\ StepOpen' <=> StepOpen
            /\ \/ UNCHANGED <<part, pc, epoch, batch_idx>>
               \/ part = "save" /\ part' = "save"
               \/ pc' = 1
<1>1. CASE WriteFails
  <2>1. /\ part = "save" /\ part' = "save"
        /\ UNCHANGED <<timer, host, run, part, epoch, batch_idx, running, now, outcome, report,
                       ran, steps>>
    BY <1>1 DEF WriteFails, history
  <2> QED
    BY <2>1, NothingOutsideBatches
<1>2. CASE NextBatch \/ BatchesDone \/ NextEvaluation \/ EvaluationDone \/ SaveLatest
             \/ ContinueTraining \/ StopTraining
  <2>1. /\ StepOpen' <=> StepOpen
        /\ UNCHANGED <<timer, run, running, now, outcome, report, ran, steps>>
    BY <1>2, TurnKeepsSteps DEF ProfileInv
  <2>2. pc' = 1 /\ host' = host
    BY <1>2 DEF NextBatch, BatchesDone, NextEvaluation, EvaluationDone, SaveLatest,
                ContinueTraining, StopTraining, Turn
  <2> QED
    BY <2>1, <2>2
<1>3. CASE Over \/ UNCHANGED vars
  <2>1. UNCHANGED <<timer, host, run, part, pc, epoch, batch_idx, running, now, outcome, report,
                    ran, steps>>
    BY <1>3 DEF Over, vars, trainer, history
  <2>2. StepOpen' <=> StepOpen
    BY <2>1, SameProgram DEF StepOpen
  <2> QED
    BY <2>1, <2>2
<1> QED
  BY <1>1, <1>2, <1>3 DEF Next

(* Operations follow one another, whatever the run does.                   *)
LEMMA TimesKeep ==
  ASSUME ProfileInv, TimesInv, [Next]_vars
  PROVE  TimesInv'
<1> DEFINE n == Len(ran)
<1>1. /\ n \in Nat /\ now \in Nat
      /\ \A i \in 1..n : /\ ran[i].begin \in Nat /\ ran[i].end \in Nat /\ ran[i].begin < now
                         /\ i \in 1..Finished => ran[i].begin < ran[i].end /\ ran[i].end < now
      /\ \A i, j \in 1..n : i < j => ran[i].end <= ran[j].begin
      /\ Finished \in Nat /\ Finished <= n
  BY OperationFields, FinishedNat DEF ProfileInv, ProfileTypeInv, ClockInv, TimesInv
<1>2. CASE BeginOp
  <2>1. /\ now' = now + 1 /\ Len(ran') = n + 1 /\ \A k \in 1..n : ran'[k] = ran[k]
        /\ ran'[n + 1].begin = now /\ Finished' = n /\ Finished = n
    BY <1>2, BeginFacts
  <2> HIDE DEF n
  <2>2. \A i \in 1..Finished' : ran'[i].begin < ran'[i].end /\ ran'[i].end < now'
    BY <1>1, <2>1
  <2>3. ASSUME NEW i \in 1..(n + 1), NEW j \in 1..(n + 1), i < j
        PROVE  ran'[i].end <= ran'[j].begin
    <3>1. i \in 1..n /\ (j \in 1..n \/ j = n + 1)
      BY <1>1, <2>3
    <3>2. CASE j \in 1..n
      BY <1>1, <2>1, <2>3, <3>1, <3>2
    <3>3. CASE j = n + 1
      <4>1. ran'[i] = ran[i] /\ ran[i].end < now /\ ran[i].end \in Nat
        BY <1>1, <2>1, <3>1
      <4> QED
        BY <1>1, <2>1, <3>3, <4>1
    <3> QED
      BY <3>1, <3>2, <3>3
  <2> QED
    BY <2>1, <2>2, <2>3 DEF TimesInv
<1>3. CASE Return \/ OpThrows
  <2>1. /\ now' = now + 1 /\ n > 0 /\ Len(ran') = n
        /\ \A k \in 1..n : /\ k # n => ran'[k] = ran[k]
                           /\ ran'[k].begin = ran[k].begin
        /\ ran'[n].end = now /\ Finished' = n /\ Finished + 1 = n
    <3>1. ran'[n] = [op |-> running, begin |-> ran[n].begin, end |-> now]
      BY <1>3, EndFacts
    <3>2. ran'[n].end = now
      BY <3>1
    <3> HIDE DEF n
    <3> QED
      BY <1>1, <1>3, <3>2, EndFacts DEF n
  <2> HIDE DEF n
  <2>2. ASSUME NEW i \in 1..n
        PROVE  ran'[i].begin < ran'[i].end /\ ran'[i].end < now'
    <3>1. CASE i = n
      BY <1>1, <2>1, <2>2, <3>1
    <3>2. CASE i # n
      <4>1. i \in 1..Finished /\ ran'[i] = ran[i]
        BY <1>1, <2>1, <2>2, <3>2
      <4> QED
        BY <1>1, <2>1, <2>2, <4>1
    <3> QED
      BY <3>1, <3>2
  <2>3. ASSUME NEW i \in 1..n, NEW j \in 1..n, i < j
        PROVE  ran'[i].end <= ran'[j].begin
    <3>1. i # n /\ ran'[i] = ran[i] /\ ran'[j].begin = ran[j].begin
      BY <1>1, <2>1, <2>3
    <3> QED
      BY <1>1, <2>3, <3>1
  <2> QED
    BY <2>1, <2>2, <2>3 DEF TimesInv
<1>4. CASE StartTraining
  <2>1. ran' = <<>> /\ running' = NoOp
    BY <1>4 DEF StartTraining, PartDone
  <2>2. Len(ran') = 0 /\ Finished' = 0
    BY <2>1 DEF Finished
  <2> QED
    BY <2>2 DEF TimesInv
<1>5. CASE UNCHANGED <<ran, running>> /\ now' \in {now, now + 1}
  <2>1. Finished' = Finished
    BY <1>5 DEF Finished
  <2>2. \A i \in 1..n : ran[i].end < now => ran[i].end < now'
    BY <1>1, <1>5
  <2>3. \A i \in 1..Finished : i \in 1..n
    BY <1>1
  <2> QED
    BY <1>1, <1>5, <2>1, <2>2, <2>3 DEF TimesInv
<1>6. \/ BeginOp \/ Return \/ OpThrows \/ StartTraining
      \/ UNCHANGED <<ran, running>> /\ now' \in {now, now + 1}
  BY OtherSteps, ObserveFacts DEF EndTraining, history
<1> QED
  BY <1>2, <1>3, <1>4, <1>5, <1>6

(* The call before the end of an optimizer step is an operation ...        *)
LEMMA OpBeforeStepEnd ==
  ASSUME ProfileInv, part = "batch", StepEndsAt(batch_idx), pc + 1 = Len(Program) - 1
  PROVE  CurrentCall.call = "op"
<1>1. TellsOfStep(Program, StepStartsAt(batch_idx), StepEndsAt(batch_idx),
                  StartPlace(run.device)) /\ Len(Program) \in Nat /\ pc \in Nat
  BY ProgramShape DEF ProfileInv, ProfileTypeInv
<1>2. Program[Len(Program) - 2].call = "op"
  BY <1>1 DEF TellsOfStep
<1>3. Len(Program) - 2 = pc
  BY <1>1
<1> QED
  BY <1>2, <1>3 DEF CurrentCall

(* ... and it runs within that step.                                       *)
LEMMA StepOpenBeforeEnd ==
  ASSUME ProfileInv, part = "batch", StepEndsAt(batch_idx),
         pc \in {Len(Program) - 1, Len(Program) - 2}
  PROVE  StepOpen /\ steps # <<>> /\ Len(steps) \in 1..Len(steps) /\ Len(steps) \in Nat
<1>1. /\ Len(Program) \in Nat /\ pc \in Nat /\ StartPlace(run.device) \in Nat
      /\ TellsOfStep(Program, StepStartsAt(batch_idx), StepEndsAt(batch_idx),
                     StartPlace(run.device))
  BY ProgramShape DEF ProfileInv, ProfileTypeInv
<1>2. /\ StartPlace(run.device) < Len(Program) - 1
      /\ Len(Program) - 2 \in 1..Len(Program) /\ Program[Len(Program) - 2].call = "op"
      /\ \A k \in 1..Len(Program) : Program[k].call = "on_train_step_start" <=>
           StepStartsAt(batch_idx) /\ k = StartPlace(run.device)
  BY <1>1 DEF TellsOfStep
<1>3. StepStartsAt(batch_idx) => StartPlace(run.device) # Len(Program) - 2
  BY <1>2
<1>4. StepStartsAt(batch_idx) => pc > StartPlace(run.device)
  BY <1>1, <1>2, <1>3
<1>5. StepOpen
  BY <1>1, <1>4 DEF StepOpen
<1>6. steps # <<>> /\ Len(steps) \in Nat
  BY <1>5 DEF ProfileInv, ProfileTypeInv, StepsInv
<1>7. Len(steps) \in 1..Len(steps)
  BY <1>6, EmptySeq DEF ProfileInv, ProfileTypeInv
<1> QED
  BY <1>5, <1>6, <1>7

(* A step that has ended ran at least one operation.                       *)
LEMMA WorkKeeps ==
  ASSUME ProfileInv, WorkInv, [Next]_vars
  PROVE  WorkInv'
<1> DEFINE n == Len(steps)
<1>1. /\ n \in Nat /\ \A i \in 1..n : steps[i].from \in Nat /\ steps[i].to \in Nat
      /\ \A i \in 1..n : steps[i].from <= steps[i].to /\ steps[i].to <= Finished
      /\ \A i \in 1..n : steps[i].ended => steps[i].from < steps[i].to
      /\ Len(ran) \in Nat /\ Finished \in Nat /\ Finished <= Len(ran)
  BY StepFields, FinishedNat DEF ProfileInv, StepsInv, WorkInv
<1>2. CASE Observe
  <2>1. /\ Len(ran') = Len(ran) /\ pc' = pc + 1 /\ CurrentCall.call # "op"
        /\ UNCHANGED <<run, part, epoch, batch_idx>>
    BY <1>2, ObserveFacts DEF Observe
  <2>2. Program' = Program /\ (StepEndsAt(batch_idx)' <=> StepEndsAt(batch_idx))
    BY <2>1, SameProgram
  <2>3. ~BeforeStepEnd'
    <3> SUFFICES ASSUME BeforeStepEnd' PROVE FALSE
      OBVIOUS
    <3>1. part = "batch" /\ StepEndsAt(batch_idx) /\ pc + 1 = Len(Program) - 1
      BY <2>1, <2>2 DEF BeforeStepEnd
    <3> QED
      BY <2>1, <3>1, OpBeforeStepEnd
  <2>4. CASE CurrentCall.call = "on_train_step_start"
    <3>1. /\ Len(steps') = n + 1 /\ \A i \in 1..n : steps'[i] = steps[i]
          /\ ~steps'[n + 1].ended
      BY <1>2, <2>4, BeganSteps
    <3>2. \A i \in 1..(n + 1) : i \in 1..n \/ i = n + 1
      BY <1>1
    <3> HIDE DEF n
    <3> QED
      BY <1>1, <2>3, <3>1, <3>2 DEF WorkInv
  <2>5. CASE CurrentCall.call = "on_train_step_end"
    <3>1. /\ n \in Nat \ {0} /\ Len(steps') = n
          /\ \A i \in 1..n : /\ steps'[i].from = steps[i].from
                             /\ i # n => steps'[i].to = steps[i].to
                             /\ i = n => steps'[i].to = Len(ran)
          /\ \A i \in 1..n : i # n => steps'[i].ended = steps[i].ended
      BY <1>2, <2>5, EndedSteps, StepFinishes
    <3>2. steps[n].from < Len(ran)
      <4>1. part = "batch" /\ StepEndsAt(batch_idx) /\ pc = Len(Program) - 1
        <5>1. part = "batch"
          BY <1>2, <2>5, ObserveFacts, CallPlaces DEF StepCalls
        <5> QED
          BY <1>2, <2>5, <5>1, ObserveFacts, CallPlaces
      <4> QED
        BY <4>1 DEF BeforeStepEnd, WorkInv
    <3> HIDE DEF n
    <3> QED
      BY <1>1, <2>3, <3>1, <3>2 DEF WorkInv
  <2>6. CASE CurrentCall.call \notin {"on_train_step_start", "on_train_step_end"}
    <3>1. steps' = steps
      BY <1>2, <2>6, OtherCallsObserved
    <3> QED
      BY <2>3, <3>1 DEF WorkInv
  <2> QED
    BY <2>4, <2>5, <2>6
<1>3. CASE BeginOp
  <2>1. /\ Len(ran') = Len(ran) + 1 /\ UNCHANGED <<run, part, pc, epoch, batch_idx, steps>>
    BY <1>3, BeginFacts
  <2>2. BeforeStepEnd' <=> BeforeStepEnd
    BY <2>1, SameProgram DEF BeforeStepEnd
  <2>3. BeforeStepEnd => steps[n].from < Len(ran')
    <3> SUFFICES ASSUME BeforeStepEnd PROVE steps[n].from < Len(ran')
      OBVIOUS
    <3>1. n \in 1..n
      BY StepOpenBeforeEnd DEF BeforeStepEnd
    <3>2. steps[n].from < Len(ran) /\ steps[n].from \in Nat
      BY <1>1, <3>1 DEF WorkInv
    <3> QED
      BY <1>1, <2>1, <3>2
  <2> QED
    BY <2>1, <2>2, <2>3 DEF WorkInv
<1>4. CASE Return
  <2>1. /\ Len(ran') = Len(ran) /\ UNCHANGED <<run, part, epoch, batch_idx, steps>>
        /\ Finished + 1 = Len(ran) /\ pc' = pc + 1
    BY <1>4, EndFacts DEF Return, EndOp
  <2>2. BeforeStepEnd' => steps[n].from < Len(ran)
    <3> SUFFICES ASSUME BeforeStepEnd' PROVE steps[n].from < Len(ran)
      OBVIOUS
    <3>1. part = "batch" /\ StepEndsAt(batch_idx) /\ pc + 1 = Len(Program) - 1
      BY <2>1, SameProgram DEF BeforeStepEnd
    <3>2. Len(Program) \in Nat /\ pc \in Nat
      BY ProgramShape DEF ProfileInv, ProfileTypeInv
    <3>3. pc = Len(Program) - 2
      BY <3>1, <3>2
    <3>4. n \in 1..n
      BY <3>1, <3>3, StepOpenBeforeEnd
    <3>5. steps[n].from <= Finished /\ steps[n].from \in Nat
      BY <1>1, <3>4
    <3> QED
      BY <1>1, <2>1, <3>5
  <2> QED
    BY <2>1, <2>2 DEF WorkInv
<1>5. CASE OpThrows
  <2>1. UNCHANGED <<part, steps>> /\ part = "save"
    BY <1>5 DEF OpThrows, EndOp
  <2> QED
    BY <2>1 DEF WorkInv, BeforeStepEnd
<1>6. CASE UNCHANGED steps /\ pc' = 1 /\ run' = run
  <2>1. ~BeforeStepEnd'
    <3> SUFFICES ASSUME BeforeStepEnd' PROVE FALSE
      OBVIOUS
    <3>1. part' = "batch" /\ pc' = Len(Program') - 1
      BY DEF BeforeStepEnd
    <3>2. Len(Program') \in Nat /\ Len(Program') > 2
      BY <1>6, <3>1, BatchBegins DEF ProfileInv, ProfileTypeInv
    <3>3. Len(Program') - 1 = 1
      BY <1>6, <3>1
    <3>4. \A m \in Nat : m > 2 => m - 1 # 1
      OBVIOUS
    <3> QED
      BY <3>2, <3>3, <3>4, Zenon
  <2> QED
    BY <1>6, <2>1 DEF WorkInv
<1>7. CASE UNCHANGED <<run, ran, steps, part, pc, epoch, batch_idx>>
  <2>1. BeforeStepEnd' <=> BeforeStepEnd
    BY <1>7, SameProgram DEF BeforeStepEnd
  <2> QED
    BY <1>7, <2>1 DEF WorkInv
<1>8. CASE UNCHANGED steps /\ part' = "save"
  BY <1>8 DEF WorkInv, BeforeStepEnd
<1>9. \/ Observe \/ BeginOp \/ Return \/ OpThrows
      \/ UNCHANGED steps /\ pc' = 1 /\ run' = run
      \/ UNCHANGED <<run, ran, steps, part, pc, epoch, batch_idx>>
      \/ UNCHANGED steps /\ part' = "save"
  <2>1. StartTraining => UNCHANGED steps /\ pc' = 1 /\ run' = run
    BY DEF StartTraining
  <2>2. EndTraining => UNCHANGED <<run, ran, steps, part, pc, epoch, batch_idx>>
    BY DEF EndTraining, trainer, history
  <2> QED
    BY <2>1, <2>2, OtherSteps
<1> QED
  BY <1>2, <1>3, <1>4, <1>5, <1>6, <1>7, <1>8, <1>9

(* The window ends after it began. *)
LEMMA WindowNotEmpty ==
  ASSUME ProfileInv, WorkInv, NEW f \in 1..Len(steps), Opens(f), EndedSince(f) >= run.requested
  PROVE  WindowStart(f) < WindowEnd(f)
<1> DEFINE g == f + run.requested - 1
           n == Len(steps)
<1>1. /\ f \in 1..n /\ n \in Nat /\ run.requested \in Nat \ {0} /\ EndedSince(f) \in Nat
      /\ g \in f..n
  BY WindowBounds
<1>2. g \in 1..n
  BY <1>1
<1>3. steps[g].ended
  <2>1. steps[g].ended <=> ~(StepOpen /\ g = n)
    BY <1>2 DEF ProfileInv, StepsInv
  <2>2. EndedSince(f) = n - f + (IF StepOpen THEN 0 ELSE 1)
    BY DEF EndedSince
  <2>3. StepOpen => n - f >= run.requested
    BY <1>1, <2>2
  <2> HIDE DEF n
  <2> QED
    BY <1>1, <2>1, <2>3
<1>4. steps[g].from < steps[g].to /\ steps[g].from \in Nat /\ steps[g].to \in Nat
      /\ steps[f].from \in Nat
  BY <1>1, <1>2, <1>3, StepFields DEF WorkInv, ProfileInv
<1>5. steps[f].from <= steps[g].from
  <2>1. f < g => steps[f].from <= steps[g].from
    BY <1>2 DEF ProfileInv, StepsInv
  <2> HIDE DEF n, g
  <2> QED
    BY <1>1, <1>4, <2>1
<1>6. WindowEnd(f) = steps[g].to
  BY <1>1 DEF WindowEnd
<1> HIDE DEF g, n
<1> QED
  BY <1>4, <1>5, <1>6 DEF WindowStart

-----------------------------------------------------------------------------
(* The wall clock of the host *)

(* Slices of sequences that agree up to the end of the slice.              *)
LEMMA SameSlice ==
  ASSUME NEW S, NEW s \in Seq(S), NEW t \in Seq(S), NEW a \in Nat, NEW b \in Nat, a <= b,
         b <= Len(s), b <= Len(t), \A k \in 1..b : s[k] = t[k]
  PROVE  SubSeq(s, a + 1, b) = SubSeq(t, a + 1, b)
<1>1. /\ SubSeq(s, a + 1, b) \in Seq(S) /\ Len(SubSeq(s, a + 1, b)) = b - a
      /\ \A k \in 1..(b - a) : SubSeq(s, a + 1, b)[k] = s[a + k]
  BY Slice
<1>2. /\ SubSeq(t, a + 1, b) \in Seq(S) /\ Len(SubSeq(t, a + 1, b)) = b - a
      /\ \A k \in 1..(b - a) : SubSeq(t, a + 1, b)[k] = t[a + k]
  BY Slice
<1>3. \A k \in 1..(b - a) : a + k \in 1..b
  OBVIOUS
<1> QED
  BY <1>1, <1>2, <1>3, SeqEqual

(* One place more.                                                         *)
LEMMA LongerSlice ==
  ASSUME NEW S, NEW s \in Seq(S), NEW a \in Nat, NEW b \in Nat, a <= b, b + 1 <= Len(s)
  PROVE  SubSeq(s, a + 1, b + 1) = Append(SubSeq(s, a + 1, b), s[b + 1])
<1> DEFINE u == SubSeq(s, a + 1, b)
           v == SubSeq(s, a + 1, b + 1)
<1>1. /\ u \in Seq(S) /\ Len(u) = b - a /\ \A k \in 1..(b - a) : u[k] = s[a + k]
  BY Slice
<1>2. /\ v \in Seq(S) /\ Len(v) = (b + 1) - a
      /\ \A k \in 1..((b + 1) - a) : v[k] = s[a + k]
  BY Slice
<1>3. s[b + 1] \in S /\ b - a \in Nat
  OBVIOUS
<1> HIDE DEF u, v
<1> DEFINE w == Append(u, s[b + 1])
<1>4. /\ w \in Seq(S) /\ Len(w) = (b - a) + 1
      /\ \A k \in 1..(b - a) : w[k] = u[k]
      /\ w[(b - a) + 1] = s[b + 1]
  BY <1>1, <1>3, OneAppended
<1> HIDE DEF w
<1>5. \A k \in 1..((b + 1) - a) : w[k] = v[k]
  <2> SUFFICES ASSUME NEW k \in 1..((b + 1) - a) PROVE w[k] = v[k]
    OBVIOUS
  <2>1. k \in 1..(b - a) \/ k = (b - a) + 1
    OBVIOUS
  <2>2. a + ((b - a) + 1) = b + 1
    OBVIOUS
  <2> QED
    BY <1>1, <1>2, <1>4, <2>1, <2>2
<1>6. Len(w) = Len(v)
  BY <1>2, <1>4
<1> QED
  BY <1>2, <1>4, <1>5, <1>6, SeqEqual DEF u, v, w

(* A begin and an end mark of the wall clock, field by field.              *)
LEMMA HostMarkFields ==
  ASSUME HostFields, NEW op, NEW tick
  PROVE  /\ ~host.active =>
              HostMarkBegin(host, op, tick) =
                [totals |-> host.totals, active |-> TRUE, op |-> op, start |-> tick,
                 has_span |-> TRUE,
                 span_start |-> IF host.has_span THEN host.span_start ELSE tick,
                 span_end |-> host.span_end, dropped |-> host.dropped]
         /\ host.active =>
              HostMarkEnd(host, tick) =
                [totals |-> WithMark(host.totals, [op |-> host.op, begin |-> host.start,
                                                   end |-> tick]),
                 active |-> FALSE, op |-> host.op, start |-> host.start,
                 has_span |-> host.has_span, span_start |-> host.span_start,
                 span_end |-> tick, dropped |-> host.dropped]
<1> DEFINE Host(t, a, o, s, h, b, e, d) ==
             [totals |-> t, active |-> a, op |-> o, start |-> s, has_span |-> h,
              span_start |-> b, span_end |-> e, dropped |-> d]
<1>1. host = Host(host.totals, host.active, host.op, host.start, host.has_span,
                  host.span_start, host.span_end, host.dropped)
  BY DEF HostFields
<1>2. ASSUME ~host.active
      PROVE  HostMarkBegin(host, op, tick) =
               Host(host.totals, TRUE, op, tick, TRUE,
                    IF host.has_span THEN host.span_start ELSE tick, host.span_end,
                    host.dropped)
  <2>1. HostMarkBegin(host, op, tick) =
          [host EXCEPT !.active = TRUE, !.op = op, !.start = tick, !.has_span = TRUE,
                       !.span_start = IF host.has_span THEN host.span_start ELSE tick]
    BY <1>2 DEF HostMarkBegin
  <2> QED
    BY <1>1, <2>1
<1>3. ASSUME host.active
      PROVE  HostMarkEnd(host, tick) =
               Host(WithMark(host.totals, [op |-> host.op, begin |-> host.start,
                                           end |-> tick]),
                    FALSE, host.op, host.start, host.has_span, host.span_start, tick,
                    host.dropped)
  <2> DEFINE w == WithMark(host.totals, [op |-> host.op, begin |-> host.start, end |-> tick])
  <2>1. w = [op_ \in DOMAIN host.totals \cup {host.op} |->
               IF op_ # host.op THEN host.totals[op_]
               ELSE [count |-> TotalOf(host.totals, host.op).count + 1,
                     time |-> TotalOf(host.totals, host.op).time + (tick - host.start)]]
    BY DEF WithMark
  <2>2. HostMarkEnd(host, tick) =
          [host EXCEPT !.active = FALSE, !.span_end = tick, !.totals = w]
    BY <1>3, <2>1 DEF HostMarkEnd
  <2> HIDE DEF w
  <2>3. HostMarkEnd(host, tick) =
               Host(w, FALSE, host.op, host.start, host.has_span, host.span_start, tick,
                    host.dropped)
    BY <1>1, <2>2
  <2> QED
    BY <2>3 DEF w
<1> QED
  BY <1>2, <1>3

(* What leaves the operations and the clock alone: the window stays, or    *)
(* opens after all the operations.                                         *)
LEMMA HostQuiet ==
  ASSUME ProfileInv, HostInv, UNCHANGED <<host, run, ran, running>>,
         NoneOpens' => NoneOpens,
         \A f : Opens(f)' =>
           \/ /\ Opens(f) /\ WindowStart(f)' = WindowStart(f) /\ WindowEnd(f)' = WindowEnd(f)
              /\ running = NoOp \/ EndedSince(f)' = EndedSince(f)
           \/ /\ NoneOpens /\ running = NoOp
              /\ WindowStart(f)' = Finished /\ WindowEnd(f)' = Finished
  PROVE  HostInv'
<1>1. HostFields'
  BY DEF HostInv, HostFields
<1>2. SUFFICES ASSUME run.device = "CPU"
               PROVE  /\ NoneOpens' \/ ~run.profile_backend_ops => host = PreparedHost
                      /\ run.profile_backend_ops =>
                           \A f : Opens(f)' =>
                             /\ HostHolds(WindowStart(f), WindowEnd(f))'
                             /\ IF running # NoOp /\ EndedSince(f)' < run.requested
                                THEN HostMarking'
                                ELSE HostIdle(WindowStart(f), WindowEnd(f))'
  BY <1>1 DEF HostInv
<1>3. NoneOpens \/ ~run.profile_backend_ops => host = PreparedHost
  BY <1>2 DEF HostInv
<1>4. ASSUME run.profile_backend_ops, NEW f, Opens(f)'
      PROVE  /\ HostHolds(WindowStart(f), WindowEnd(f))'
             /\ IF running # NoOp /\ EndedSince(f)' < run.requested
                THEN HostMarking' ELSE HostIdle(WindowStart(f), WindowEnd(f))'
  <2> DEFINE lo == WindowStart(f)
             hi == WindowEnd(f)
  <2>1. CASE /\ Opens(f) /\ lo' = lo /\ hi' = hi
             /\ running = NoOp \/ EndedSince(f)' = EndedSince(f)
    <3>1. /\ HostHolds(lo, hi)
          /\ IF running # NoOp /\ EndedSince(f) < run.requested
             THEN HostMarking ELSE HostIdle(lo, hi)
      BY <1>2, <1>4, <2>1 DEF HostInv, Opens
    <3> HIDE DEF lo, hi
    <3> QED
      BY <2>1, <3>1 DEF HostHolds, HostIdle, HostMarking, lo, hi
  <2>2. CASE /\ NoneOpens /\ running = NoOp /\ lo' = Finished /\ hi' = Finished
    <3>1. host = PreparedHost
      BY <1>3, <2>2
    <3>2. /\ host.totals = <<>> /\ host.dropped = 0 /\ ~host.active /\ ~host.has_span
      BY <3>1 DEF PreparedHost
    <3>3. SubSeq(ran, Finished + 1, Finished) = <<>>
      <4>1. Finished \in Nat /\ Finished <= Len(ran) /\ ran \in Seq(OperationRecords)
        BY FinishedNat DEF ProfileInv, ProfileTypeInv
      <4>2. /\ SubSeq(ran, Finished + 1, Finished) \in Seq(OperationRecords)
            /\ Len(SubSeq(ran, Finished + 1, Finished)) = 0
        BY <4>1, Slice
      <4> QED
        BY <4>2, EmptySeq
    <3>4. TotalsOfMarks(<<>>) = <<>>
      BY NoTotals
    <3>5. ~(Finished < Finished)
      BY FinishedNat DEF ProfileInv
    <3> HIDE DEF lo, hi
    <3>6. HostHolds(lo, hi)' /\ HostIdle(lo, hi)'
      BY <2>2, <3>2, <3>3, <3>4, <3>5 DEF HostHolds, HostIdle
    <3> QED
      BY <2>2, <3>6 DEF lo, hi
  <2> QED
    BY <1>4, <2>1, <2>2
<1> QED
  BY <1>3, <1>4

(* An operation begins: the clock notes it if the window is open.          *)
LEMMA HostBegin ==
  ASSUME ProfileInv, HostInv, BeginOp
  PROVE  HostInv'
<1>1. /\ outcome = "running" /\ running = NoOp /\ running' # NoOp
      /\ UNCHANGED <<timer, run, steps>>
      /\ Len(ran) \in Nat /\ Len(ran') = Len(ran) + 1
      /\ \A k \in 1..Len(ran) : ran'[k] = ran[k]
      /\ ran'[Len(ran')].begin = now
      /\ ran' \in Seq(OperationRecords) /\ ran \in Seq(OperationRecords)
      /\ Finished' = Finished /\ Finished = Len(ran)
      /\ StepOpen' <=> StepOpen
  BY BeginFacts DEF ProfileInv, ProfileTypeInv
<1>2. host' = IF timer.enabled /\ run.device = "CPU"
              THEN HostMarkBegin(host, running', now) ELSE host
  BY DEF BeginOp
<1>3. /\ NoneOpens' <=> NoneOpens
      /\ \A f : /\ Opens(f)' <=> Opens(f)
                /\ EndedSince(f)' = EndedSince(f)
                /\ WindowStart(f)' = WindowStart(f)
                /\ WindowEnd(f)' = WindowEnd(f)
  BY <1>1, SameWindow
<1>4. CASE ~(run.device = "CPU")
  BY <1>1, <1>2, <1>4 DEF HostInv, HostFields
<1>5. CASE run.device = "CPU" /\ (NoneOpens \/ ~run.profile_backend_ops)
  <2>1. host' = host /\ host = PreparedHost
    BY <1>2, <1>5 DEF ProfileInv, TimerInv, HostInv
  <2>2. \A f \in 1..Len(steps) : ~Opens(f) \/ ~run.profile_backend_ops
    BY <1>5 DEF NoneOpens, Opens
  <2> QED
    BY <1>1, <1>3, <2>1, <2>2 DEF HostInv, HostFields
<1>6. CASE run.device = "CPU" /\ ~NoneOpens /\ run.profile_backend_ops
  <2>1. PICK f \in 1..Len(steps) : Opens(f)
    BY <1>6 DEF ProfileInv, TimerInv
  <2> DEFINE lo == WindowStart(f)
             hi == WindowEnd(f)
  <2>2. /\ lo \in Nat /\ hi \in Nat /\ lo <= hi /\ hi <= Len(ran) /\ lo' = lo /\ hi' = hi
        /\ EndedSince(f)' = EndedSince(f)
    BY <1>1, <1>3, <2>1, WindowBounds
  <2>3. HostHolds(lo, hi) /\ HostIdle(lo, hi) /\ HostFields
    BY <1>1, <1>6, <2>1 DEF HostInv
  <2>4. timer.enabled <=> EndedSince(f) < run.requested
    BY <1>1, <1>6, <2>1 DEF ProfileInv, TimerInv
  <2>5. SubSeq(ran', lo + 1, hi) = SubSeq(ran, lo + 1, hi)
    <3> HIDE DEF lo, hi
    <3>1. \A k \in 1..hi : ran'[k] = ran[k]
      BY <1>1, <2>2
    <3>2. hi <= Len(ran') /\ hi <= Len(ran)
      BY <1>1, <2>2
    <3> QED
      BY <1>1, <2>2, <3>1, <3>2, SameSlice
  <2>6. /\ hi > lo => ran'[hi] = ran[hi]
        /\ lo < Len(ran) => ran'[lo + 1] = ran[lo + 1]
    <3> HIDE DEF lo, hi
    <3>1. hi > lo => hi \in 1..Len(ran)
      BY <1>1, <2>2
    <3>2. lo < Len(ran) => lo + 1 \in 1..Len(ran)
      BY <1>1, <2>2
    <3> QED
      BY <1>1, <3>1, <3>2
  <2>7. CASE EndedSince(f) < run.requested
    <3>1. hi = Len(ran)
      BY <1>1, <2>7 DEF WindowEnd
    <3>2. host' = HostMarkBegin(host, running', now)
      BY <1>2, <1>6, <2>4, <2>7
    <3>3. host' = [totals |-> host.totals, active |-> TRUE, op |-> running', start |-> now,
                   has_span |-> TRUE,
                   span_start |-> IF host.has_span THEN host.span_start ELSE now,
                   span_end |-> host.span_end, dropped |-> host.dropped]
      BY <2>3, <3>2, HostMarkFields DEF HostIdle
    <3>4. /\ host'.totals = host.totals /\ host'.active /\ host'.op = running'
          /\ host'.start = now /\ host'.has_span
          /\ host'.span_start = (IF host.has_span THEN host.span_start ELSE now)
          /\ host'.span_end = host.span_end /\ host'.dropped = host.dropped
      BY <3>3
    <3>5. HostFields'
      BY <3>3 DEF HostFields
    <3>6. HostMarking'
      BY <1>1, <3>4 DEF HostMarking
    <3>7. host'.span_start = ran'[lo + 1].begin
      <4>1. CASE host.has_span
        BY <2>2, <2>3, <2>6, <3>1, <3>4, <4>1 DEF HostHolds, HostIdle
      <4>2. CASE ~host.has_span
        <5>1. lo = Len(ran)
          BY <2>2, <2>3, <3>1, <4>2 DEF HostIdle
        <5> QED
          BY <1>1, <3>4, <4>2, <5>1
      <4> QED
        BY <4>1, <4>2
    <3>8. HostHolds(lo, hi)'
      <4> HIDE DEF lo, hi
      <4> QED
        BY <2>2, <2>3, <2>5, <2>6, <3>4, <3>7 DEF HostHolds
    <3>9. \A g : Opens(g) => g = f
      BY <2>1, OneOpens DEF ProfileInv
    <3> QED
      BY <1>1, <1>3, <1>6, <2>7, <3>5, <3>6, <3>8, <3>9 DEF HostInv
  <2>8. CASE ~(EndedSince(f) < run.requested)
    <3>1. host' = host
      BY <1>2, <1>6, <2>4, <2>8
    <3>2. lo < hi => lo < Len(ran)
      BY <1>1, <2>2
    <3>3. host.has_span => lo < hi
      BY <2>3 DEF HostIdle
    <3>4. HostHolds(lo, hi)' /\ HostIdle(lo, hi)' /\ HostFields'
      <4> HIDE DEF lo, hi
      <4> QED
        BY <2>2, <2>3, <2>5, <2>6, <3>1, <3>2, <3>3 DEF HostHolds, HostIdle, HostFields
    <3>9. \A g : Opens(g) => g = f
      BY <2>1, OneOpens DEF ProfileInv
    <3> QED
      BY <1>1, <1>3, <1>6, <2>8, <3>4, <3>9 DEF HostInv
  <2> QED
    BY <2>7, <2>8
<1> QED
  BY <1>4, <1>5, <1>6

(* An operation ends: within the window its mark joins the totals.         *)
LEMMA HostEnd ==
  ASSUME ProfileInv, HostInv, Return \/ OpThrows
  PROVE  HostInv'
<1> DEFINE n == Len(ran)
           e == [op |-> running, begin |-> ran[n].begin, end |-> now]
<1>1. /\ outcome = "running" /\ running # NoOp /\ running' = NoOp
      /\ UNCHANGED <<timer, run, steps>>
      /\ n \in Nat \ {0} /\ Len(ran') = n
      /\ \A k \in 1..n : (k # n => ran'[k] = ran[k]) /\ ran'[k].begin = ran[k].begin
      /\ ran'[n] = e
      /\ ran' \in Seq(OperationRecords) /\ ran \in Seq(OperationRecords)
      /\ Finished' = n /\ Finished + 1 = n
      /\ StepOpen' <=> StepOpen
  BY EndFacts DEF ProfileInv, ProfileTypeInv
<1>2. host' = IF timer.enabled /\ run.device = "CPU" THEN HostMarkEnd(host, now) ELSE host
  BY DEF Return, OpThrows, EndOp
<1>3. /\ NoneOpens' <=> NoneOpens
      /\ \A f : /\ Opens(f)' <=> Opens(f)
                /\ EndedSince(f)' = EndedSince(f)
                /\ WindowStart(f)' = WindowStart(f)
                /\ EndedSince(f) >= run.requested /\ EndedSince(f) \in Nat
                     /\ run.requested \in Nat => WindowEnd(f)' = WindowEnd(f)
  BY <1>1, SameWindow
<1>4. CASE ~(run.device = "CPU")
  BY <1>1, <1>2, <1>4 DEF HostInv, HostFields
<1>5. CASE run.device = "CPU" /\ (NoneOpens \/ ~run.profile_backend_ops)
  <2>1. host' = host /\ host = PreparedHost
    BY <1>2, <1>5 DEF ProfileInv, TimerInv, HostInv
  <2>2. \A f \in 1..Len(steps) : ~Opens(f) \/ ~run.profile_backend_ops
    BY <1>5 DEF NoneOpens, Opens
  <2> QED
    BY <1>1, <1>3, <2>1, <2>2 DEF HostInv, HostFields
<1>6. CASE run.device = "CPU" /\ ~NoneOpens /\ run.profile_backend_ops
  <2>1. PICK f \in 1..Len(steps) : Opens(f)
    BY <1>6 DEF ProfileInv, TimerInv
  <2> DEFINE lo == WindowStart(f)
             hi == WindowEnd(f)
  <2>2. /\ lo \in Nat /\ hi \in Nat /\ lo <= hi /\ hi <= Finished /\ lo' = lo
        /\ EndedSince(f) \in Nat /\ run.requested \in Nat /\ Finished \in Nat
        /\ EndedSince(f)' = EndedSince(f)
    BY <1>3, <2>1, WindowBounds
  <2>3. timer.enabled <=> EndedSince(f) < run.requested
    BY <1>1, <1>6, <2>1 DEF ProfileInv, TimerInv
  <2>4. /\ HostHolds(lo, hi) /\ HostFields
        /\ IF EndedSince(f) < run.requested THEN HostMarking ELSE HostIdle(lo, hi)
    BY <1>1, <1>6, <2>1 DEF HostInv
  <2>5. SubSeq(ran', lo + 1, hi) = SubSeq(ran, lo + 1, hi)
    <3> HIDE DEF lo, hi, e
    <3>1. \A k \in 1..hi : k \in 1..n /\ k # n
      BY <1>1, <2>2
    <3>2. hi <= Len(ran') /\ hi <= Len(ran)
      BY <1>1, <2>2
    <3>3. \A k \in 1..hi : ran'[k] = ran[k]
      BY <1>1, <3>1
    <3> QED
      BY <1>1, <2>2, <3>2, <3>3, SameSlice
  <2>6. /\ lo < hi => ran'[hi] = ran[hi]
        /\ ran'[lo + 1].begin = ran[lo + 1].begin
    <3> HIDE DEF lo, hi, e
    <3>1. lo < hi => hi \in 1..n /\ hi # n
      BY <1>1, <2>2
    <3>2. lo + 1 \in 1..n
      BY <1>1, <2>2
    <3> QED
      BY <1>1, <3>1, <3>2
  <2>7. \A g : Opens(g) => g = f
    BY <2>1, OneOpens DEF ProfileInv
  <2>8. CASE EndedSince(f) < run.requested
    <3>1. hi = Finished /\ hi' = n
      <4>1. hi = Finished
        BY <2>8 DEF WindowEnd
      <4>2. hi' = Finished'
        BY <1>1, <1>3, <2>8 DEF WindowEnd
      <4> QED
        BY <1>1, <4>1, <4>2
    <3>2. host.active /\ host.has_span /\ host.op = running /\ host.start = ran[n].begin
      BY <2>4, <2>8 DEF HostMarking
    <3>3. host' = [totals |-> WithMark(host.totals, e),
                   active |-> FALSE, op |-> host.op, start |-> host.start,
                   has_span |-> host.has_span, span_start |-> host.span_start,
                   span_end |-> now, dropped |-> host.dropped]
      <4>1. host' = HostMarkEnd(host, now)
        BY <1>2, <1>6, <2>3, <2>8
      <4>2. e = [op |-> host.op, begin |-> host.start, end |-> now]
        BY <3>2
      <4> HIDE DEF e
      <4> QED
        BY <2>4, <3>2, <4>1, <4>2, HostMarkFields
    <3> HIDE DEF e
    <3>4. /\ host'.totals = WithMark(host.totals, e) /\ ~host'.active
          /\ host'.has_span = host.has_span /\ host'.span_start = host.span_start
          /\ host'.span_end = now /\ host'.dropped = host.dropped
      BY <3>3
    <3>5. HostFields'
      BY <3>3 DEF HostFields
    <3>6. host'.totals = TotalsOfMarks(SubSeq(ran', lo + 1, n))
      <4> DEFINE s == SubSeq(ran, lo + 1, hi)
      <4>1. s \in Seq(OperationRecords)
        BY <1>1, <2>2, Slice
      <4>2. e \in OperationRecords
        <5>1. n \in 1..Len(ran')
          BY <1>1
        <5> QED
          BY <1>1, <5>1
      <4>3. SubSeq(ran', lo + 1, n) = Append(s, e)
        <5> HIDE DEF lo, hi, n
        <5>1. hi + 1 <= Len(ran') /\ hi + 1 = n
          BY <1>1, <2>2, <3>1
        <5>2. SubSeq(ran', lo + 1, hi + 1) = Append(SubSeq(ran', lo + 1, hi), ran'[hi + 1])
          BY <1>1, <2>2, <5>1, LongerSlice
        <5> QED
          BY <1>1, <2>5, <5>1, <5>2
      <4>4. host.totals = TotalsOfMarks(s)
        BY <2>4 DEF HostHolds
      <4> HIDE DEF s
      <4> QED
        BY <3>4, <4>1, <4>2, <4>3, <4>4, TotalsOfMore
    <3>7. ran'[n].end = now
      BY <1>1 DEF e
    <3>8. HostHolds(lo, hi)' /\ HostIdle(lo, hi)'
      <4>1. host.span_start = ran[lo + 1].begin /\ host.dropped = 0
        BY <2>4, <3>2 DEF HostHolds
      <4>2. lo < n
        BY <1>1, <2>2, <3>1
      <4> HIDE DEF lo, hi, n
      <4> QED
        BY <2>2, <2>6, <3>1, <3>2, <3>4, <3>6, <3>7, <4>1, <4>2 DEF HostHolds, HostIdle
    <3> QED
      BY <1>1, <1>3, <1>6, <2>7, <3>5, <3>8 DEF HostInv
  <2>9. CASE ~(EndedSince(f) < run.requested)
    <3>1. host' = host /\ hi' = hi
      BY <1>2, <1>3, <2>2, <2>3, <2>9
    <3>2. HostHolds(lo, hi)' /\ HostIdle(lo, hi)' /\ HostFields'
      <4> HIDE DEF lo, hi
      <4> QED
        BY <2>2, <2>4, <2>5, <2>6, <2>9, <3>1 DEF HostHolds, HostIdle, HostFields
    <3> QED
      BY <1>1, <1>3, <1>6, <2>7, <3>2 DEF HostInv
  <2> QED
    BY <2>8, <2>9
<1> QED
  BY <1>4, <1>5, <1>6

(* Every step keeps the wall clock in line with the window.                *)
LEMMA HostKeeps ==
  ASSUME ProfileInv, HostInv, [Next]_vars
  PROVE  HostInv'
<1>1. CASE BeginOp
  BY <1>1, HostBegin
<1>2. CASE Return \/ OpThrows
  BY <1>2, HostEnd
<1>3. CASE StartTraining
  <2>1. /\ UNCHANGED <<host, run, steps>> /\ part \in {"restore", "ready"}
    BY <1>3 DEF StartTraining
  <2>2. steps = <<>>
    BY <2>1 DEF ProfileInv, StartInv
  <2>3. Len(steps) = 0 /\ Len(steps') = 0
    BY <2>1, <2>2
  <2>4. NoneOpens
    BY <2>3 DEF NoneOpens
  <2> QED
    BY <2>1, <2>3, <2>4 DEF HostInv, HostFields
<1>4. CASE Observe
  <2>1. UNCHANGED <<host, run, ran, running>> /\ running = NoOp /\ Finished' = Finished
    BY <1>4, ObserveFacts DEF Observe
  <2>2. CASE CurrentCall.call = "on_train_step_start"
    BY <1>4, <2>1, <2>2, BeganWindow, HostQuiet
  <2>3. CASE CurrentCall.call = "on_train_step_end"
    BY <1>4, <2>1, <2>3, EndedWindow, HostQuiet
  <2>4. CASE CurrentCall.call \notin {"on_train_step_start", "on_train_step_end"}
    <3>1. steps' = steps /\ (StepOpen' <=> StepOpen)
      BY <1>4, <2>4, OtherCallsObserved
    <3> QED
      BY <2>1, <3>1, SameWindow, HostQuiet
  <2> QED
    BY <2>2, <2>3, <2>4
<1>5. CASE UNCHANGED <<host, run, running, ran, steps>> /\ (StepOpen' <=> StepOpen)
  <2>1. Finished' = Finished
    BY <1>5 DEF Finished
  <2> QED
    BY <1>5, <2>1, SameWindow, HostQuiet
<1>6. EndTraining => UNCHANGED <<host, run, running, ran, steps>> /\ (StepOpen' <=> StepOpen)
  <2> SUFFICES ASSUME EndTraining
               PROVE  UNCHANGED <<host, run, running, ran, steps>> /\ (StepOpen' <=> StepOpen)
    OBVIOUS
  <2>1. UNCHANGED <<host, run, part, pc, epoch, batch_idx, running, ran, steps>>
    BY DEF EndTraining, trainer, history
  <2> QED
    BY <2>1, SameProgram DEF StepOpen
<1> QED
  BY <1>1, <1>2, <1>3, <1>4, <1>5, <1>6, OtherSteps

-----------------------------------------------------------------------------
(* The report *)

(* The operations of a window that is not empty, in order.                 *)
LEMMA WindowInOrder ==
  ASSUME ProfileInv, TimesInv, NEW lo \in Nat, NEW hi \in Nat, lo < hi, hi <= Finished
  PROVE  /\ SubSeq(ran, lo + 1, hi) \in Seq(OperationRecords)
         /\ SubSeq(ran, lo + 1, hi) # <<>>
         /\ InOrder(SubSeq(ran, lo + 1, hi))
         /\ Last(SubSeq(ran, lo + 1, hi)) = ran[hi]
         /\ Head(SubSeq(ran, lo + 1, hi)) = ran[lo + 1]
         /\ SubSeq(ran, lo + 1, hi)[1] = ran[lo + 1]
         /\ SubSeq(ran, lo + 1, hi)[Len(SubSeq(ran, lo + 1, hi))] = ran[hi]
<1> DEFINE w == SubSeq(ran, lo + 1, hi)
<1>1. Finished \in Nat /\ Finished <= Len(ran) /\ ran \in Seq(OperationRecords)
      /\ Len(ran) \in Nat
  BY FinishedNat DEF ProfileInv, ProfileTypeInv
<1>2. lo <= hi /\ hi <= Len(ran) /\ hi - lo \in Nat /\ hi - lo >= 1
  BY <1>1
<1>3. w \in Seq(OperationRecords) /\ Len(w) = hi - lo /\ \A k \in 1..(hi - lo) : w[k] = ran[lo + k]
  BY <1>1, <1>2, Slice
<1> HIDE DEF w
<1>4. w # <<>>
  <2>1. w = <<>> => Len(w) = 0
    OBVIOUS
  <2> QED
    BY <1>2, <1>3, <2>1
<1>5. \A k \in 1..(hi - lo) : lo + k \in 1..Finished /\ lo + k \in 1..Len(ran)
  BY <1>1, <1>2
<1>6. \A i \in 1..Finished : ran[i].begin < ran[i].end /\ ran[i].begin \in Nat /\ ran[i].end \in Nat
  <2>1. \A i \in 1..Finished : i \in 1..Len(ran)
    BY <1>1
  <2> QED
    BY <2>1, OperationFields DEF TimesInv, ProfileInv
<1>7. \A k \in 1..(hi - lo) : w[k].begin <= w[k].end
  BY <1>3, <1>5, <1>6
<1>8. ASSUME NEW i \in 1..(hi - lo), NEW j \in 1..(hi - lo), i < j
      PROVE  w[i].end <= w[j].begin
  <2>1. lo + i < lo + j
    BY <1>8
  <2>2. ran[lo + i].end <= ran[lo + j].begin
    BY <1>5, <2>1 DEF TimesInv
  <2> QED
    BY <1>3, <2>2
<1>9. 1 \in 1..(hi - lo) /\ hi - lo \in 1..(hi - lo) /\ lo + (hi - lo) = hi
  BY <1>2
<1>10. Last(w) = w[hi - lo] /\ Head(w) = w[1]
  <2>1. Head(w) = w[1]
    BY <1>3
  <2> QED
    BY <1>3, <2>1 DEF Last
<1> QED
  BY <1>3, <1>4, <1>7, <1>8, <1>9, <1>10 DEF InOrder, w

(* What the backend has to say when training ends: the totals and the span *)
(* of the operations of the window, all of them.                           *)
LEMMA ReportedWindow ==
  ASSUME ProfileInv, TimesInv, WorkInv, HostInv, EndTraining, outcome' = "reported",
         run.profile_backend_ops
  PROVE  \E lo, hi \in Nat :
           /\ lo < hi /\ hi <= Finished
           /\ WindowOperations = SubSeq(ran, lo + 1, hi)
           /\ report' = ReportOf([totals |-> TotalsOfMarks(SubSeq(ran, lo + 1, hi)),
                                  dropped |-> 0, span |-> ran[hi].end - ran[lo + 1].begin])
<1>1. running = NoOp /\ outcome = "running"
  <2>1. part = "stop" /\ outcome = "running"
    BY DEF EndTraining
  <2>2. Program = <<>>
    BY <2>1 DEF Program
  <2>3. ~(pc <= Len(Program))
    BY <2>2 DEF ProfileInv, ProfileTypeInv
  <2> QED
    BY <2>1, <2>3 DEF ProfileInv, RunningInv
<1> DEFINE r == IF run.device = "CUDA" THEN CudaReport(cuda) ELSE HostReport(host)
<1>2. outcome' = Summary(timer, run.requested, r) /\ report' = ReportOf(r)
  BY DEF EndTraining
<1>3. timer.recorded = run.requested /\ r.dropped = 0
  <2> HIDE DEF r
  <2> QED
    BY <1>2 DEF Summary
<1>4. run.requested > 0 /\ run.requested \in Nat
  BY <1>1, RunFacts DEF ProfileInv, ProfileTypeInv, StartInv
<1>5. ~NoneOpens
  BY <1>3, <1>4 DEF ProfileInv, TimerInv
<1>6. PICK f \in 1..Len(steps) : Opens(f)
  BY <1>5 DEF ProfileInv, TimerInv
<1> DEFINE lo == WindowStart(f)
           hi == WindowEnd(f)
<1>7. /\ lo \in Nat /\ hi \in Nat /\ hi <= Finished /\ EndedSince(f) \in Nat
  BY <1>6, WindowBounds
<1>8. EndedSince(f) >= run.requested
  <2>1. timer.recorded = IF EndedSince(f) < run.requested THEN EndedSince(f) ELSE run.requested
    BY <1>6 DEF ProfileInv, TimerInv
  <2> QED
    BY <1>3, <1>4, <1>7, <2>1
<1>9. lo < hi
  BY <1>6, <1>8, WindowNotEmpty
<1> DEFINE w == SubSeq(ran, lo + 1, hi)
<1>10. /\ w \in Seq(OperationRecords) /\ w # <<>> /\ Last(w) = ran[hi] /\ Head(w) = ran[lo + 1]
  BY <1>7, <1>9, WindowInOrder
<1>11. WindowOperations = w
  <2>1. FinishedIn(WindowOperations) = WindowOperations
    BY <1>1 DEF FinishedIn
  <2>2. /\ FinishedIn(WindowOperations) \in Seq(OperationRecords)
        /\ Len(FinishedIn(WindowOperations)) = hi - lo
        /\ \A k \in 1..(hi - lo) : FinishedIn(WindowOperations)[k] = ran[lo + k]
    BY <1>6, WindowIs
  <2>3. /\ Finished \in Nat /\ Finished <= Len(ran) /\ ran \in Seq(OperationRecords)
    BY FinishedNat DEF ProfileInv, ProfileTypeInv
  <2> DEFINE o == WindowOperations
  <2>4. o \in Seq(OperationRecords) /\ Len(o) = hi - lo /\ \A k \in 1..(hi - lo) : o[k] = ran[lo + k]
    BY <2>1, <2>2
  <2> HIDE DEF o, lo, hi
  <2>5. lo <= hi /\ hi <= Len(ran)
    BY <1>7, <1>9, <2>3
  <2>6. Len(w) = hi - lo /\ \A k \in 1..(hi - lo) : w[k] = ran[lo + k]
    BY <1>7, <2>3, <2>5, Slice
  <2> HIDE DEF w
  <2>7. o = w
    BY <1>10, <2>4, <2>6, SeqEqual
  <2> QED
    BY <2>7 DEF o
<1> DEFINE q == [totals |-> TotalsOfMarks(w), dropped |-> 0,
                 span |-> ran[hi].end - ran[lo + 1].begin]
<1>12. r = q
  <2>1. CASE run.device = "CUDA"
    <3>1. cuda.marks = w
      <4>1. MarksAreTheWindow
        BY MarksFollow
      <4> DEFINE m == FinishedIn(WindowOperations)
                 kept == IF Len(m) < cuda.capacity THEN Len(m) ELSE cuda.capacity
      <4>2. cuda.marks = SubSeq(m, 1, kept) /\ cuda.dropped = Len(m) - kept
        BY <1>1, <2>1, <4>1 DEF MarksAreTheWindow
      <4>3. m = w
        BY <1>1, <1>11 DEF FinishedIn
      <4>4. cuda.dropped = 0
        BY <1>3, <2>1 DEF CudaReport
      <4>5. cuda.capacity \in Nat
        BY PoolFields DEF ProfileInv
      <4> HIDE DEF m, w
      <4>6. Len(m) \in Nat
        BY <1>10, <4>3
      <4>7. kept \in Nat
        BY <4>5, <4>6
      <4> HIDE DEF kept
      <4>8. kept = Len(m)
        BY <4>2, <4>4, <4>6, <4>7
      <4>9. SubSeq(m, 1, Len(m)) = m
        BY <1>10, <4>3
      <4> QED
        BY <4>2, <4>3, <4>8, <4>9
    <3>2. CudaReport(cuda) = [totals |-> TotalsOfMarks(w), dropped |-> cuda.dropped,
                              span |-> Last(w).end - Head(w).begin]
      <4> HIDE DEF w
      <4> QED
        BY <1>10, <3>1 DEF CudaReport
    <3>3. r = CudaReport(cuda)
      BY <2>1
    <3>4. cuda.dropped = 0
      BY <1>3, <2>1 DEF CudaReport
    <3> HIDE DEF w, lo, hi, r
    <3> QED
      BY <1>10, <3>2, <3>3, <3>4
  <2>2. CASE run.device # "CUDA"
    <3>1. run.device = "CPU"
      BY <2>2, RunFacts DEF ProfileInv, ProfileTypeInv, Devices
    <3>2. HostHolds(lo, hi) /\ HostIdle(lo, hi)
      BY <1>1, <1>6, <3>1 DEF HostInv
    <3>3. /\ host.totals = TotalsOfMarks(w) /\ host.dropped = 0 /\ host.has_span
          /\ host.span_start = ran[lo + 1].begin /\ host.span_end = ran[hi].end
      BY <1>9, <3>2 DEF HostHolds, HostIdle
    <3>4. r = HostReport(host)
      BY <2>2
    <3> HIDE DEF w, lo, hi, r
    <3> QED
      BY <3>3, <3>4 DEF HostReport
  <2> QED
    BY <2>1, <2>2
<1>13. report' = ReportOf(q)
  <2> HIDE DEF r, q
  <2> QED
    BY <1>2, <1>12
<1> HIDE DEF lo, hi
<1> QED
  BY <1>7, <1>9, <1>11, <1>13

(* The report is made once and never changed.                              *)
LEMMA ReportKeeps ==
  ASSUME ProfileInv, TimesInv, WorkInv, HostInv, IdleIsTheRest, [Next]_vars
  PROVE  IdleIsTheRest'
<1>1. CASE EndTraining
  <2> SUFFICES ASSUME outcome' = "reported", run.profile_backend_ops
               PROVE  /\ report'.totals = TotalsOfMarks(WindowOperations')
                      /\ ~report'.overlap
                      /\ report'.span
                           = Last(WindowOperations').end - Head(WindowOperations').begin
                      /\ OperationTime(report'.totals) + report'.idle = report'.span
    BY <1>1 DEF IdleIsTheRest, EndTraining, trainer
  <2>1. UNCHANGED <<run, ran, steps>>
    BY <1>1 DEF EndTraining, trainer, history
  <2>2. WindowOperations' = WindowOperations
    BY <2>1 DEF WindowOperations
  <2>3. PICK lo, hi \in Nat :
           /\ lo < hi /\ hi <= Finished
           /\ WindowOperations = SubSeq(ran, lo + 1, hi)
           /\ report' = ReportOf([totals |-> TotalsOfMarks(SubSeq(ran, lo + 1, hi)),
                                  dropped |-> 0, span |-> ran[hi].end - ran[lo + 1].begin])
    BY <1>1, ReportedWindow
  <2> DEFINE w == SubSeq(ran, lo + 1, hi)
             t == TotalsOfMarks(w)
             time == OperationTime(t)
             span == ran[hi].end - ran[lo + 1].begin
  <2>4. /\ w \in Seq(OperationRecords) /\ w # <<>> /\ InOrder(w)
        /\ Last(w) = ran[hi] /\ Head(w) = ran[lo + 1]
        /\ w[1] = ran[lo + 1] /\ w[Len(w)] = ran[hi]
    BY <2>3, WindowInOrder
  <2>5. time \in Int /\ time <= span
    <3> HIDE DEF w
    <3>1. /\ OperationTime(TotalsOfMarks(w)) \in Int
          /\ OperationTime(TotalsOfMarks(w)) <= w[Len(w)].end - w[1].begin
      BY <2>4, TimeWithinSpan
    <3> QED
      BY <2>4, <3>1
  <2>6. span \in Int
    <3>1. Finished \in Nat /\ Finished <= Len(ran) /\ Len(ran) \in Nat
      BY FinishedNat DEF ProfileInv
    <3>2. lo + 1 \in 1..Len(ran) /\ hi \in 1..Len(ran)
      BY <2>3, <3>1
    <3> QED
      BY <3>2, OperationFields DEF ProfileInv
  <2> HIDE DEF span, time, w
  <2>7. report' = [totals |-> t, span |-> span,
                   idle |-> IF span > time THEN span - time ELSE 0, overlap |-> time > span]
    BY <2>3 DEF ReportOf, span, time, w
  <2> HIDE DEF t
  <2>8. /\ report'.totals = t /\ report'.span = span /\ report'.overlap = (time > span)
        /\ report'.idle = IF span > time THEN span - time ELSE 0
    BY <2>7
  <2>9. WindowOperations' = w /\ t = TotalsOfMarks(w) /\ time = OperationTime(t)
    BY <2>2, <2>3 DEF w, t, time
  <2>10. span = Last(w).end - Head(w).begin
    BY <2>4 DEF span
  <2>11. ~(time > span) /\ time + (IF span > time THEN span - time ELSE 0) = span
    BY <2>5, <2>6
  <2>12. report'.totals = TotalsOfMarks(WindowOperations')
    BY <2>8, <2>9
  <2>13. ~report'.overlap
    BY <2>8, <2>11
  <2>14. report'.span = Last(WindowOperations').end - Head(WindowOperations').begin
    BY <2>8, <2>9, <2>10
  <2>15. OperationTime(report'.totals) + report'.idle = report'.span
    BY <2>8, <2>9, <2>11
  <2> QED
    BY <2>12, <2>13, <2>14, <2>15
<1>2. CASE outcome' = "running" \/ outcome' = "refused"
  BY <1>2 DEF IdleIsTheRest
<1>3. CASE UNCHANGED <<outcome, run, report, ran, steps>>
  <2>1. WindowOperations' = WindowOperations
    BY <1>3 DEF WindowOperations
  <2> QED
    BY <1>3, <2>1 DEF IdleIsTheRest
<1>4. \/ EndTraining \/ outcome' = "running" \/ UNCHANGED <<outcome, run, report, ran, steps>>
  <2>1. StartTraining => outcome' = "running"
    BY DEF StartTraining
  <2> QED
    BY <2>1, OtherSteps, ObserveFacts, BeginFacts, EndFacts
<1> QED
  BY <1>1, <1>2, <1>3, <1>4

(* It all holds of a run about to start.                                   *)
LEMMA ReportStarts ==
  ASSUME Init
  PROVE  ReportInv
<1>1. /\ ran = <<>> /\ steps = <<>> /\ running = NoOp /\ host = PreparedHost
      /\ outcome \in {"running", "refused"} /\ pc = 1
  BY DEF Init
<1>2. Len(ran) = 0 /\ Len(steps) = 0 /\ Finished = 0
  BY <1>1 DEF Finished
<1>3. TimesInv
  BY <1>2 DEF TimesInv
<1>4. WorkInv
  <2>1. part # "batch"
    BY DEF Init
  <2> QED
    BY <1>2, <2>1 DEF WorkInv, BeforeStepEnd
<1>5. HostInv
  <2>1. HostFields
    BY <1>1 DEF HostFields, PreparedHost
  <2> QED
    BY <1>1, <1>2, <2>1 DEF HostInv
<1>6. IdleIsTheRest
  BY <1>1 DEF IdleIsTheRest
<1> QED
  BY <1>3, <1>4, <1>5, <1>6 DEF ReportInv

(* Whatever is reported, of a run on either kind of backend, is the window *)
(* of whole steps that was asked for: the totals of its operations, and a  *)
(* span that their times and the idle gaps make up.                        *)
THEOREM ReportsTheWindow == Spec => []ReportIsOfTheWindow
<1>1. Init => ReportInv
  BY ReportStarts
<1>2. ASSUME ProfileInv, ReportInv, [Next]_vars
      PROVE  ReportInv'
  BY <1>2, TimesKeep, WorkKeeps, HostKeeps, ReportKeeps DEF ReportInv
<1>3. ReportInv => IdleIsTheRest
  BY DEF ReportInv
<1>4. Spec => []IdleIsTheRest
  BY <1>1, <1>2, <1>3, ProfileInvariant, PTL DEF Spec
<1>5. WholeStepsOrRefusal /\ IdleIsTheRest => ReportIsOfTheWindow
  BY DEF ReportIsOfTheWindow
<1> QED
  BY <1>4, <1>5, ReportsWholeWindows, PTL

-----------------------------------------------------------------------------
(* The tree of stages.  A call enters a stage or leaves the one entered    *)
(* last, so that what a line means depends on the calls made before: a     *)
(* batch opens its own stage and, when it starts a step, the step's.  The  *)
(* calls of every part are shown to climb and fall as they should, for any *)
(* number of layers, batches and operations.                               *)

(* The calls that enter a stage; all others but operations leave one.      *)
Enters == DOMAIN StageEnteredBy
Entering(s, k) == {i \in 1..k : s[i].call \in Enters}
Leaving(s, k) == {i \in 1..k : s[i].call \notin Enters \cup {"op"}}
(* By how much the stages that are open have grown after the first k calls *)
(* of s.                                                                   *)
Rise(s, k) == Cardinality(Entering(s, k)) - Cardinality(Leaving(s, k))

(* How many stages are open. *)
BaseLevel == IF part = "batch" /\ ~StepStartsAt(batch_idx) THEN 1 ELSE 0
LevelAt(p) == BaseLevel + Rise(Program, p - 1)
Level == LevelAt(pc)

(* Each open stage is a child of the one before. *)
StageNames == {StageEnteredBy[call] : call \in Enters}
(* A node is the path of stages that leads to it.                          *)
PathNodes == Seq(StageNames \X Int)
NodeRecords == [total : Int, count : Int]
Frames == [node : PathNodes, start : Nat]
OpenPath(t, frames) ==
  \A i \in 1..Len(frames) :
    /\ frames[i].node \in DOMAIN t
    /\ Len(frames[i].node) = i
    /\ ParentOf(frames[i].node) = IF i = 1 THEN RootNode ELSE frames[i - 1].node
(* A well-formed tree t with the open stages frames and the current node   *)
(* at.                                                                     *)
TreeOf(t, frames, at) ==
  /\ IsFiniteSet(DOMAIN t)
  /\ DOMAIN t \subseteq PathNodes
  /\ t = [node \in DOMAIN t |-> t[node]]
  /\ \A node \in DOMAIN t : t[node] \in NodeRecords
  /\ frames \in Seq(Frames)
  /\ OpenPath(t, frames)
  /\ at = IF frames = <<>> THEN RootNode ELSE frames[Len(frames)].node
TreeInv == TreeOf(tree, active_frames, current)

(* Visits that have ended and the one that may be open. *)
StageOf(node) == node[Len(node)][1]
NodesOf(t, stage) == {node \in DOMAIN t : node # RootNode /\ StageOf(node) = stage}
Counts(t, S) == SumOf([node \in S |-> t[node].count], S)
OpenOf(frames, stage) == {i \in 1..Len(frames) : StageOf(frames[i].node) = stage}
Entered(t, frames, stage) ==
  Counts(t, NodesOf(t, stage)) + Cardinality(OpenOf(frames, stage))
(* The line of a stage at the top, and whether that line is open.          *)
TopOf(t, stage) == IF TopNode(stage) \in DOMAIN t THEN t[TopNode(stage)] ELSE NewNode
TopOpen(frames, stage) == frames # <<>> /\ frames[1].node = TopNode(stage)
TopEntered(t, frames, stage) == TopOf(t, stage).count + (IF TopOpen(frames, stage) THEN 1 ELSE 0)

(* Whether the running part has made a call, and what earlier parts have   *)
(* done.                                                                   *)
Called(name) == IF \E k \in 1..(pc - 1) : Program[k].call = name THEN 1 ELSE 0
BatchesBefore ==
  CASE part \in {"restore", "ready"} -> 0
    [] part = "batch" -> CompletedBatches
    [] part = "stop" -> epoch * run.batches
    [] OTHER -> (epoch + 1) * run.batches
EvaluationsBefore ==
  CASE part \in {"restore", "ready", "batch", "stop"} -> HeldOutBatches(run, epoch)
    [] part = "evaluate" -> HeldOutBatches(run, epoch + 1) - (run.held_out - batch_idx)
    [] OTHER -> HeldOutBatches(run, epoch + 1)

(* The lines, with the stage that may be open, count the calls that were   *)
(* made: the batches, the passes, and at the top one batch_step line for   *)
(* every step.                                                             *)
CountInv ==
  part \notin {"restore", "ready"} =>
    /\ Entered(tree, active_frames, "BATCH_STEP") = BatchesBefore + Called("on_batch_start")
    /\ Entered(tree, active_frames, "FORWARD")
         = BatchesBefore + EvaluationsBefore + Called("on_forward_start")
    /\ TopEntered(tree, active_frames, "FORWARD")
         = EvaluationsBefore + (IF part = "evaluate" THEN Called("on_forward_start") ELSE 0)
    /\ TopEntered(tree, active_frames, "BACKWARD") = 0
    /\ TopEntered(tree, active_frames, "BATCH_STEP") + Called("on_train_step_start")
         = Len(steps) + (IF part = "batch" /\ StepStartsAt(batch_idx)
                         THEN Called("on_batch_start") ELSE 0)

(* The time of the top-level batch_step line is that from the start of the *)
(* first batch of a step to the end of its last.                           *)
BatchTimeInv ==
  /\ batch_time \in [start : Nat, total : Int]
  /\ part \in {"restore", "ready"} => batch_time.total = 0
  /\ part \notin {"restore", "ready"} =>
       /\ TopOf(tree, "BATCH_STEP").total = batch_time.total
       /\ TopOpen(active_frames, "BATCH_STEP") =>
            part = "batch" /\ active_frames[1].start = batch_time.start
       /\ part = "batch" /\ active_frames # <<>> => TopOpen(active_frames, "BATCH_STEP")

(* As many stages are open as the calls so far have left open.             *)
DepthInv == Len(active_frames) = Level /\ pc <= Len(Program) + 1
(* The inductive invariant behind the stage lines.                         *)
StageInv == TreeInv /\ DepthInv /\ CountInv /\ BatchTimeInv

(* What a call does to the number of open stages.                          *)
Sign(c) == IF c.call = "op" THEN 0 ELSE IF c.call \in Enters THEN 1 ELSE -1

(* One call: up, down or level. *)
LEMMA RiseSteps ==
  ASSUME NEW s, NEW k \in Nat
  PROVE  /\ Rise(s, 0) = 0 /\ Rise(s, k) \in Int
         /\ Rise(s, k + 1) = Rise(s, k) + Sign(s[k + 1])
<1> DEFINE P == {i \in 1..k : s[i].call \in Enters}
           Q == {i \in 1..k : s[i].call \notin Enters \cup {"op"}}
           P1 == {i \in 1..(k + 1) : s[i].call \in Enters}
           Q1 == {i \in 1..(k + 1) : s[i].call \notin Enters \cup {"op"}}
<1>1. IsFiniteSet(1..k)
  BY FS_Interval
<1>2. /\ IsFiniteSet(P) /\ IsFiniteSet(Q)
      /\ Cardinality(P) \in Nat /\ Cardinality(Q) \in Nat
  <2>1. P \subseteq 1..k /\ Q \subseteq 1..k
    OBVIOUS
  <2> HIDE DEF P, Q
  <2> QED
    BY <1>1, <2>1, FS_Subset, FS_CardinalityType
<1>3. k + 1 \notin P /\ k + 1 \notin Q
  OBVIOUS
<1>4. P1 = IF s[k + 1].call \in Enters THEN P \cup {k + 1} ELSE P
  OBVIOUS
<1>5. Q1 = IF s[k + 1].call \notin Enters \cup {"op"} THEN Q \cup {k + 1} ELSE Q
  OBVIOUS
<1>6. Rise(s, k) = Cardinality(P) - Cardinality(Q)
  BY DEF Rise, Entering, Leaving
<1>7. Rise(s, k + 1) = Cardinality(P1) - Cardinality(Q1)
  BY DEF Rise, Entering, Leaving
<1>8. Rise(s, 0) = 0
  <2>1. Entering(s, 0) = {} /\ Leaving(s, 0) = {}
    BY DEF Entering, Leaving
  <2> QED
    BY <2>1, FS_EmptySet DEF Rise
<1>9. "op" \notin Enters
  BY DEF Enters, StageEnteredBy
<1> HIDE DEF P, Q, P1, Q1
<1>10. /\ Cardinality(P \cup {k + 1}) = Cardinality(P) + 1
       /\ Cardinality(Q \cup {k + 1}) = Cardinality(Q) + 1
  BY <1>2, <1>3, FS_AddElement
<1>11. CASE s[k + 1].call = "op"
  BY <1>2, <1>4, <1>5, <1>6, <1>7, <1>8, <1>9, <1>11 DEF Sign
<1>12. CASE s[k + 1].call \in Enters
  BY <1>2, <1>4, <1>5, <1>6, <1>7, <1>8, <1>9, <1>10, <1>12 DEF Sign
<1>13. CASE s[k + 1].call \notin Enters \cup {"op"}
  BY <1>2, <1>4, <1>5, <1>6, <1>7, <1>8, <1>10, <1>13 DEF Sign
<1> QED
  BY <1>11, <1>12, <1>13

(* Whatever follows the calls in the same way is the rise. *)
Follows(d, s, n) ==
  d[0] = 0 /\ \A k \in 0..(n - 1) : d[k + 1] = d[k] + Sign(s[k + 1])

(* A recurrence that follows the calls is unique.                          *)
LEMMA PathIsRise ==
  ASSUME NEW s, NEW n \in Nat, NEW d, Follows(d, s, n)
  PROVE  \A k \in 0..n : Rise(s, k) = d[k]
<1> DEFINE Off == {k \in 0..n : Rise(s, k) # d[k]}
<1> SUFFICES ASSUME Off # {} PROVE FALSE
  OBVIOUS
<1>1. Off \in SUBSET Nat
  OBVIOUS
<1>2. PICK k \in Off : \A j \in Off : k <= j
  <2> HIDE DEF Off
  <2> QED
    BY <1>1, LeastNatural
<1>3. k \in 0..n /\ Rise(s, k) # d[k]
  OBVIOUS
<1>4. k # 0
  BY <1>3, RiseSteps DEF Follows
<1>5. k - 1 \in 0..(n - 1) /\ k - 1 \in Nat /\ (k - 1) + 1 = k
  BY <1>3, <1>4
<1>6. Rise(s, k - 1) = d[k - 1]
  <2>1. k - 1 \notin Off
    BY <1>2, <1>3, <1>5
  <2>2. k - 1 \in 0..n
    BY <1>5
  <2> QED
    BY <2>1, <2>2
<1>7. Rise(s, (k - 1) + 1) = Rise(s, k - 1) + Sign(s[(k - 1) + 1])
  BY <1>5, RiseSteps
<1>8. d[(k - 1) + 1] = d[k - 1] + Sign(s[(k - 1) + 1])
  BY <1>5 DEF Follows
<1> QED
  BY <1>3, <1>5, <1>6, <1>7, <1>8

(* The rise of calls that are joined is the sum of the rises.              *)
LEMMA RiseOfJoin ==
  ASSUME NEW s \in Seq(Calls), NEW t \in Seq(Calls)
  PROVE  /\ s \o t \in Seq(Calls) /\ Len(s \o t) = Len(s) + Len(t)
         /\ Len(s) \in Nat /\ Len(t) \in Nat
         /\ \A k \in 1..Len(s) : (s \o t)[k] = s[k]
         /\ \A k \in 1..Len(t) : (s \o t)[Len(s) + k] = t[k]
         /\ \A k \in 0..Len(s) : Rise(s \o t, k) = Rise(s, k)
         /\ \A k \in 0..Len(t) : Rise(s \o t, Len(s) + k) = Rise(s, Len(s)) + Rise(t, k)
<1> DEFINE u == s \o t
           m == Len(s)
           n == Len(t)
           d == [k \in 0..(m + n) |-> IF k <= m THEN Rise(s, k) ELSE Rise(s, m) + Rise(t, k - m)]
<1>1. m \in Nat /\ n \in Nat
  OBVIOUS
<1>2. /\ u \in Seq(Calls) /\ Len(u) = m + n
      /\ \A k \in 1..(m + n) : u[k] = IF k <= m THEN s[k] ELSE t[k - m]
  BY ConcatProperties
<1> HIDE DEF u, m, n
<1>3. \A k \in 1..m : u[k] = s[k]
  BY <1>1, <1>2
<1>4. \A k \in 1..n : u[m + k] = t[k]
  <2> TAKE k \in 1..n
  <2>1. m + k \in 1..(m + n) /\ ~(m + k <= m) /\ (m + k) - m = k
    BY <1>1
  <2> QED
    BY <1>2, <2>1
<1>5. \A k \in 0..(m + n) : Rise(u, k) = d[k]
  <2>1. d[0] = 0
    BY <1>1, RiseSteps
  <2>2. \A k \in 0..((m + n) - 1) : d[k + 1] = d[k] + Sign(u[k + 1])
    <3> TAKE k \in 0..((m + n) - 1)
    <3>1. k \in 0..(m + n) /\ k + 1 \in 0..(m + n) /\ k + 1 \in 1..(m + n) /\ k \in Nat
      BY <1>1
    <3>2. CASE k < m
      <4>1. d[k] = Rise(s, k) /\ d[k + 1] = Rise(s, k + 1) /\ u[k + 1] = s[k + 1]
        BY <1>1, <1>2, <3>1, <3>2
      <4> QED
        BY <3>1, <4>1, RiseSteps
    <3>3. CASE ~(k < m)
      <4> DEFINE j == k - m
      <4>1. j \in Nat /\ (k + 1) - m = j + 1 /\ ~(k + 1 <= m)
        BY <1>1, <3>1, <3>3
      <4>2. d[k + 1] = Rise(s, m) + Rise(t, j + 1) /\ u[k + 1] = t[j + 1]
        BY <1>2, <3>1, <4>1
      <4>3. d[k] = Rise(s, m) + Rise(t, j)
        <5>1. CASE k = m
          <6>1. d[k] = Rise(s, m) /\ j = 0
            BY <1>1, <3>1, <5>1
          <6>2. Rise(t, 0) = 0 /\ Rise(s, m) \in Int
            BY <1>1, RiseSteps
          <6> QED
            BY <6>1, <6>2
        <5>2. CASE k # m
          BY <1>1, <3>1, <3>3, <5>2
        <5> QED
          BY <5>1, <5>2
      <4> HIDE DEF j, d
      <4>4. Rise(t, j + 1) = Rise(t, j) + Sign(t[j + 1]) /\ Rise(t, j) \in Int
        BY <4>1, RiseSteps
      <4>5. Rise(s, m) \in Int /\ Sign(t[j + 1]) \in Int
        BY <1>1, RiseSteps DEF Sign
      <4> QED
        BY <4>2, <4>3, <4>4, <4>5
    <3> QED
      BY <3>2, <3>3
  <2>3. m + n \in Nat
    BY <1>1
  <2>4. Follows(d, u, m + n)
    BY <2>1, <2>2 DEF Follows
  <2> HIDE DEF d
  <2> QED
    BY <2>3, <2>4, PathIsRise
<1>6. \A k \in 0..m : Rise(u, k) = Rise(s, k)
  BY <1>1, <1>5
<1>7. \A k \in 0..n : Rise(u, m + k) = Rise(s, m) + Rise(t, k)
  <2> TAKE k \in 0..n
  <2>1. m + k \in 0..(m + n) /\ (m + k) - m = k
    BY <1>1
  <2>2. CASE k = 0
    <3>1. Rise(t, 0) = 0 /\ Rise(s, m) \in Int /\ m + 0 = m
      BY <1>1, RiseSteps
    <3>2. Rise(u, m) = Rise(s, m)
      BY <1>1, <1>6
    <3> QED
      BY <2>2, <3>1, <3>2
  <2>3. CASE k # 0
    <3>1. ~(m + k <= m)
      BY <1>1, <2>3
    <3> QED
      BY <1>5, <2>1, <3>1
  <2> QED
    BY <2>2, <2>3
<1> QED
  BY <1>1, <1>2, <1>3, <1>4, <1>6, <1>7 DEF u, m, n

(* Calls that rise by b in all and never fall below m; which begin with c; *)
(* which begin with c and end one level lower.                             *)
Climbs(s, b, m) ==
  s \in Seq(Calls) /\ Rise(s, Len(s)) = b /\ \A k \in 0..Len(s) : Rise(s, k) >= m
Started(s, c, b, m) ==
  /\ s \in Seq(Calls) /\ Len(s) >= 1 /\ s[1] = c
  /\ Rise(s, Len(s)) = b /\ \A k \in 1..Len(s) : Rise(s, k) >= m
Staged(s, c, b, m) ==
  /\ s \in Seq(Calls) /\ Len(s) >= 2 /\ s[1] = c
  /\ Rise(s, Len(s)) = b /\ \A k \in 1..(Len(s) - 1) : Rise(s, k) >= m

(* A call that is not made, or made once. *)
Lacks(s, name) == \A k \in 1..Len(s) : s[k].call # name
Once(s, c) ==
  \E q \in 1..Len(s) : s[q] = c /\ \A k \in 1..Len(s) : s[k].call = c.call => k = q

(* Calls that stay high enough may follow one another ...                  *)
LEMMA ClimbsJoined ==
  ASSUME NEW s, NEW t, NEW b \in Int, NEW m \in Int, NEW c \in Int, NEW n \in Int,
         Climbs(s, b, m), Climbs(t, c, n), m <= b + n
  PROVE  Climbs(s \o t, b + c, m)
<1> DEFINE u == s \o t
           i == Len(s)
           j == Len(t)
<1>1. /\ s \in Seq(Calls) /\ t \in Seq(Calls) /\ Rise(s, i) = b /\ Rise(t, j) = c
      /\ \A k \in 0..i : Rise(s, k) >= m
      /\ \A k \in 0..j : Rise(t, k) >= n
  BY DEF Climbs
<1>2. /\ u \in Seq(Calls) /\ Len(u) = i + j /\ i \in Nat /\ j \in Nat
      /\ \A k \in 0..i : Rise(u, k) = Rise(s, k)
      /\ \A k \in 0..j : Rise(u, i + k) = b + Rise(t, k)
  BY <1>1, RiseOfJoin
<1> HIDE DEF u, i, j
<1>3. Rise(u, i + j) = b + c
  BY <1>1, <1>2
<1>4. \A k \in 0..(i + j) : Rise(u, k) >= m
  <2> TAKE k \in 0..(i + j)
  <2>1. CASE k <= i
    BY <1>1, <1>2, <2>1
  <2>2. CASE k > i
    <3>1. k - i \in 0..j /\ i + (k - i) = k /\ k - i \in Nat
      BY <1>2, <2>2
    <3>2. Rise(u, k) = b + Rise(t, k - i) /\ Rise(t, k - i) >= n
      BY <1>1, <1>2, <3>1
    <3>3. Rise(t, k - i) \in Int
      BY <3>1, RiseSteps
    <3> QED
      BY <3>2, <3>3
  <2> QED
    BY <1>2, <2>1, <2>2
<1> QED
  BY <1>2, <1>3, <1>4 DEF Climbs, u

(* ... also behind a first call.                                           *)
LEMMA StartedJoined ==
  ASSUME NEW s, NEW t, NEW a, NEW b \in Int, NEW m \in Int, NEW c \in Int, NEW n \in Int,
         Started(s, a, b, m), Climbs(t, c, n), m <= b + n
  PROVE  Started(s \o t, a, b + c, m)
<1> DEFINE u == s \o t
           i == Len(s)
           j == Len(t)
<1>1. /\ s \in Seq(Calls) /\ t \in Seq(Calls) /\ Rise(s, i) = b /\ Rise(t, j) = c
      /\ \A k \in 1..i : Rise(s, k) >= m
      /\ \A k \in 0..j : Rise(t, k) >= n
      /\ i >= 1 /\ s[1] = a
  BY DEF Climbs, Started
<1>2. /\ u \in Seq(Calls) /\ Len(u) = i + j /\ i \in Nat /\ j \in Nat
      /\ \A k \in 1..i : u[k] = s[k]
      /\ \A k \in 0..i : Rise(u, k) = Rise(s, k)
      /\ \A k \in 0..j : Rise(u, i + k) = b + Rise(t, k)
  BY <1>1, RiseOfJoin
<1> HIDE DEF u, i, j
<1>3. Rise(u, i + j) = b + c
  BY <1>1, <1>2
<1>4. \A k \in 1..(i + j) : Rise(u, k) >= m
  <2> TAKE k \in 1..(i + j)
  <2>1. CASE k <= i
    BY <1>1, <1>2, <2>1
  <2>2. CASE k > i
    <3>1. k - i \in 0..j /\ i + (k - i) = k /\ k - i \in Nat
      BY <1>2, <2>2
    <3>2. Rise(u, k) = b + Rise(t, k - i) /\ Rise(t, k - i) >= n
      BY <1>1, <1>2, <3>1
    <3>3. Rise(t, k - i) \in Int
      BY <3>1, RiseSteps
    <3> QED
      BY <3>2, <3>3
  <2> QED
    BY <1>2, <2>1, <2>2
<1>5. u[1] = a /\ i + j >= 1
  <2>1. 1 \in 1..i
    BY <1>1, <1>2
  <2> QED
    BY <1>1, <1>2, <2>1
<1> QED
  BY <1>2, <1>3, <1>4, <1>5 DEF Started, u

(* One call. *)
LEMMA OneCallRises ==
  ASSUME NEW c \in Calls
  PROVE  /\ <<c>> \in Seq(Calls) /\ Len(<<c>>) = 1 /\ <<c>>[1] = c
         /\ Rise(<<c>>, 0) = 0 /\ Rise(<<c>>, 1) = Sign(c)
         /\ Started(<<c>>, c, Sign(c), Sign(c))
         /\ c.call = "op" => Climbs(<<c>>, 0, 0)
         /\ c.call \in Enters => Climbs(<<c>>, 1, 0)
         /\ c.call \notin Enters \cup {"op"} => Climbs(<<c>>, -1, -1)
         /\ Once(<<c>>, c)
         /\ \A name : name # c.call => Lacks(<<c>>, name)
<1> DEFINE s == <<c>>
<1>1. s \in Seq(Calls) /\ Len(s) = 1 /\ s[1] = c
  OBVIOUS
<1> HIDE DEF s
<1>2. Rise(s, 0) = 0 /\ Rise(s, 0 + 1) = Rise(s, 0) + Sign(s[0 + 1])
  BY RiseSteps
<1>3. Sign(c) \in Int
  BY DEF Sign
<1>4. Rise(s, 1) = Sign(c)
  BY <1>1, <1>2, <1>3
<1>5. \A k \in 0..1 : k = 0 \/ k = 1
  OBVIOUS
<1>6. Started(s, c, Sign(c), Sign(c))
  BY <1>1, <1>3, <1>4 DEF Started
<1>7. "op" \notin Enters
  BY DEF Enters, StageEnteredBy
<1>8. /\ c.call = "op" => Sign(c) = 0
      /\ c.call \in Enters => Sign(c) = 1
      /\ c.call \notin Enters \cup {"op"} => Sign(c) = -1
  BY <1>7 DEF Sign
<1>9. /\ c.call = "op" => Climbs(s, 0, 0)
      /\ c.call \in Enters => Climbs(s, 1, 0)
      /\ c.call \notin Enters \cup {"op"} => Climbs(s, -1, -1)
  BY <1>1, <1>2, <1>4, <1>5, <1>8 DEF Climbs
<1>10. Once(s, c)
  BY <1>1 DEF Once
<1>11. \A name : name # c.call => Lacks(s, name)
  BY <1>1 DEF Lacks
<1> QED
  BY <1>1, <1>2, <1>4, <1>6, <1>9, <1>10, <1>11 DEF s

(* A leave closes what was begun; the whole stands above where it began.   *)
LEMMA StageEnds ==
  ASSUME NEW s, NEW a, NEW b \in Int, NEW m \in Int, NEW c \in Calls,
         Started(s, a, b, m), c.call \notin Enters \cup {"op"}
  PROVE  /\ Staged(s \o <<c>>, a, b - 1, m)
         /\ m >= 0 /\ b >= 1 => Climbs(s \o <<c>>, b - 1, 0)
<1> DEFINE t == <<c>>
           u == s \o t
           i == Len(s)
<1>1. /\ s \in Seq(Calls) /\ Rise(s, i) = b
      /\ \A k \in 1..i : Rise(s, k) >= m
      /\ i >= 1 /\ s[1] = a
  BY DEF Started
<1>2. t \in Seq(Calls) /\ Len(t) = 1 /\ Rise(t, 1) = -1
  <2>1. "op" \notin Enters
    BY DEF Enters, StageEnteredBy
  <2> QED
    BY <2>1, OneCallRises DEF Sign
<1> HIDE DEF t
<1>3. /\ u \in Seq(Calls) /\ Len(u) = i + 1 /\ i \in Nat
      /\ \A k \in 1..i : u[k] = s[k]
      /\ \A k \in 0..i : Rise(u, k) = Rise(s, k)
      /\ Rise(u, i + 1) = b - 1
  <2>1. /\ u \in Seq(Calls) /\ Len(u) = i + Len(t) /\ i \in Nat
        /\ \A k \in 1..i : u[k] = s[k]
        /\ \A k \in 0..i : Rise(u, k) = Rise(s, k)
        /\ \A k \in 0..Len(t) : Rise(u, i + k) = b + Rise(t, k)
    BY <1>1, <1>2, RiseOfJoin
  <2> HIDE DEF u, i
  <2>2. 1 \in 0..Len(t)
    BY <1>2
  <2>3. Rise(u, i + 1) = b + Rise(t, 1)
    BY <2>1, <2>2
  <2>4. b + Rise(t, 1) = b - 1
    BY <1>2
  <2> QED
    BY <1>2, <2>1, <2>3, <2>4
<1> HIDE DEF u, i
<1>4. 1 \in 1..i /\ (i + 1) - 1 = i
  BY <1>1, <1>3
<1>5. Staged(u, a, b - 1, m)
  BY <1>1, <1>3, <1>4 DEF Staged
<1>6. ASSUME m >= 0, b >= 1
      PROVE  Climbs(u, b - 1, 0)
  <2>1. Rise(u, 0) = 0
    BY RiseSteps
  <2>2. \A k \in 0..(i + 1) : Rise(u, k) >= 0
    <3> TAKE k \in 0..(i + 1)
    <3>1. CASE k = 0
      BY <2>1, <3>1
    <3>2. CASE k = i + 1
      BY <1>3, <1>6, <3>2
    <3>3. CASE k # 0 /\ k # i + 1
      <4>1. k \in 1..i /\ k \in 0..i /\ k \in Nat
        BY <1>3, <3>3
      <4>2. Rise(u, k) = Rise(s, k) /\ Rise(s, k) >= m
        BY <1>1, <1>3, <4>1
      <4>3. Rise(s, k) \in Int
        BY <4>1, RiseSteps
      <4> QED
        BY <1>6, <4>2, <4>3
    <3> QED
      BY <3>1, <3>2, <3>3
  <2> QED
    BY <1>3, <2>2 DEF Climbs
<1> QED
  BY <1>5, <1>6 DEF u, t

(* Which calls a join makes. *)
LEMMA LacksJoined ==
  ASSUME NEW s \in Seq(Calls), NEW t \in Seq(Calls), NEW name, Lacks(s, name), Lacks(t, name)
  PROVE  Lacks(s \o t, name)
<1> DEFINE u == s \o t
           i == Len(s)
           j == Len(t)
<1>1. /\ Len(u) = i + j /\ i \in Nat /\ j \in Nat
      /\ \A k \in 1..i : u[k] = s[k]
      /\ \A k \in 1..j : u[i + k] = t[k]
  BY RiseOfJoin
<1>2. \A k \in 1..i : s[k].call # name
  BY DEF Lacks
<1>3. \A k \in 1..j : t[k].call # name
  BY DEF Lacks
<1> HIDE DEF u, i, j
<1>4. \A k \in 1..(i + j) : u[k].call # name
  <2> TAKE k \in 1..(i + j)
  <2>1. CASE k <= i
    BY <1>1, <1>2, <2>1
  <2>2. CASE k > i
    <3>1. k - i \in 1..j /\ i + (k - i) = k
      BY <1>1, <2>2
    <3> QED
      BY <1>1, <1>3, <3>1
  <2> QED
    BY <1>1, <2>1, <2>2
<1> QED
  BY <1>1, <1>4 DEF Lacks, u

(* A call made once, on one of the two sides.                              *)
LEMMA OnceJoined ==
  ASSUME NEW s \in Seq(Calls), NEW t \in Seq(Calls), NEW c,
         \/ Once(s, c) /\ Lacks(t, c.call)
         \/ Lacks(s, c.call) /\ Once(t, c)
  PROVE  Once(s \o t, c)
<1> DEFINE u == s \o t
           i == Len(s)
           j == Len(t)
<1>1. /\ Len(u) = i + j /\ i \in Nat /\ j \in Nat
      /\ \A k \in 1..i : u[k] = s[k]
      /\ \A k \in 1..j : u[i + k] = t[k]
  BY RiseOfJoin
<1>2. /\ Lacks(s, c.call) => \A k \in 1..i : s[k].call # c.call
      /\ Lacks(t, c.call) => \A k \in 1..j : t[k].call # c.call
  BY DEF Lacks
<1>3. /\ Once(s, c) => \E q \in 1..i : s[q] = c /\ \A k \in 1..i : s[k].call = c.call => k = q
      /\ Once(t, c) => \E q \in 1..j : t[q] = c /\ \A k \in 1..j : t[k].call = c.call => k = q
  BY DEF Once
<1> HIDE DEF u, i, j
<1>4. \A k \in 1..(i + j) : \/ k \in 1..i /\ u[k] = s[k]
                            \/ k - i \in 1..j /\ u[k] = t[k - i] /\ i + (k - i) = k
  <2> TAKE k \in 1..(i + j)
  <2>1. CASE k <= i
    BY <1>1, <2>1
  <2>2. CASE k > i
    <3>1. k - i \in 1..j /\ i + (k - i) = k
      BY <1>1, <2>2
    <3> QED
      BY <1>1, <3>1
  <2> QED
    BY <1>1, <2>1, <2>2
<1>5. CASE Once(s, c) /\ Lacks(t, c.call)
  <2>1. PICK q \in 1..i : s[q] = c /\ \A k \in 1..i : s[k].call = c.call => k = q
    BY <1>3, <1>5
  <2>2. q \in 1..(i + j) /\ u[q] = c
    BY <1>1, <2>1
  <2>3. \A k \in 1..(i + j) : u[k].call = c.call => k = q
    BY <1>2, <1>4, <1>5, <2>1
  <2> QED
    BY <1>1, <2>2, <2>3 DEF Once, u
<1>6. CASE Lacks(s, c.call) /\ Once(t, c)
  <2>1. PICK q \in 1..j : t[q] = c /\ \A k \in 1..j : t[k].call = c.call => k = q
    BY <1>3, <1>6
  <2>2. i + q \in 1..(i + j) /\ u[i + q] = c
    <3>1. u[i + q] = t[q] /\ t[q] = c
      BY <1>1, <2>1
    <3>2. i + q \in 1..(i + j)
      BY <1>1
    <3> QED
      BY <3>1, <3>2
  <2>3. \A k \in 1..(i + j) : u[k].call = c.call => k = i + q
    <3> TAKE k \in 1..(i + j)
    <3> HAVE u[k].call = c.call
    <3>1. k - i \in 1..j /\ u[k] = t[k - i] /\ i + (k - i) = k
      BY <1>2, <1>4, <1>6
    <3>2. k - i = q
      BY <2>1, <3>1
    <3> QED
      BY <3>1, <3>2
  <2> QED
    BY <1>1, <2>2, <2>3 DEF Once, u
<1> QED
  BY <1>5, <1>6

(* The calls that the invariant counts; quiet calls make none of them and  *)
(* end on the level on which they began.                                   *)
Counted == {"on_batch_start", "on_forward_start"}
CallOf(name, l) == [call |-> name, layer |-> l, op |-> NoOp]
Quiet(s) == Climbs(s, 0, 0) /\ \A name \in Counted : Lacks(s, name)
(* Calls below c that stand b levels above its start. *)
Opened(s, c, b, m) ==
  /\ Started(s, c, b, m)
  /\ c.call \in Counted => Once(s, c)
  /\ \A name \in Counted \ {c.call} : Lacks(s, name)
(* Backend operations and nothing else.                                    *)
AllOps(s) == s \in Seq(Calls) /\ \A k \in 1..Len(s) : s[k].call = "op"

(* The calls as records.                                                   *)
LEMMA CallsOf ==
  ASSUME NEW name \in StepCalls \cup OtherCalls, NEW l \in Int
  PROVE  /\ CallOf(name, l) \in Calls /\ CallOf(name, l).call = name
         /\ LayerCall(name, l) = <<CallOf(name, l)>> /\ Call(name) = <<CallOf(name, -1)>>
         /\ name # "op"
<1> DEFINE c == CallOf(name, l)
<1>1. name # "op"
  BY DEF StepCalls, OtherCalls
<1>2. c \in CallRecords /\ c.call = name
  BY DEF CallOf, CallRecords
<1> HIDE DEF c
<1>3. c \in Calls
  BY <1>1, <1>2 DEF Calls
<1>4. LayerCall(name, l) = <<CallOf(name, l)>> /\ Call(name) = <<CallOf(name, -1)>>
  BY DEF LayerCall, Call, CallOf
<1> QED
  BY <1>1, <1>2, <1>3, <1>4 DEF c

(* The table of stages, spelled out.                                       *)
LEMMA EnterNames ==
  /\ Enters = {"on_batch_start", "on_batch_load_start", "on_train_step_start",
               "on_forward_start", "on_backward_start", "on_layer_start",
               "on_attention_start", "on_ffn_start", "on_output_head_start",
               "on_checkpoint_load_start", "on_checkpoint_save_start"}
  /\ Enters \subseteq StepCalls \cup OtherCalls
BY DEF Enters, StageEnteredBy, StepCalls, OtherCalls

(* Operations are quiet.                                                   *)
LEMMA OpsAreLevel ==
  ASSUME NEW s, AllOps(s)
  PROVE  /\ Quiet(s)
         /\ \A k \in 0..Len(s) : Rise(s, k) = 0
         /\ \A name : name # "op" => Lacks(s, name)
<1> DEFINE n == Len(s)
           d == [k \in 0..n |-> 0]
<1>1. n \in Nat /\ s \in Seq(Calls) /\ \A k \in 1..n : s[k].call = "op"
  BY DEF AllOps
<1> HIDE DEF n
<1>2. Follows(d, s, n)
  <2>1. d[0] = 0
    BY <1>1
  <2>2. ASSUME NEW k \in 0..(n - 1)
        PROVE  d[k + 1] = d[k] + Sign(s[k + 1])
    <3>1. k \in 0..n /\ k + 1 \in 0..n /\ k + 1 \in 1..n
      BY <1>1
    <3>2. Sign(s[k + 1]) = 0
      BY <1>1, <3>1 DEF Sign
    <3> QED
      BY <3>1, <3>2
  <2> HIDE DEF d
  <2> QED
    BY <2>1, <2>2 DEF Follows
<1>3. \A k \in 0..n : Rise(s, k) = d[k]
  <2> HIDE DEF d
  <2> QED
    BY <1>1, <1>2, PathIsRise
<1>4. \A k \in 0..n : Rise(s, k) = 0
  BY <1>3
<1>5. n \in 0..n
  BY <1>1
<1>6. Climbs(s, 0, 0)
  BY <1>1, <1>4, <1>5 DEF Climbs, n
<1>7. \A name : name # "op" => Lacks(s, name)
  BY <1>1 DEF Lacks, n
<1>8. "op" \notin Counted
  BY DEF Counted
<1> QED
  BY <1>4, <1>6, <1>7, <1>8 DEF Quiet, n

(* The work of a place is operations, as is the work done only when        *)
(* needed.                                                                 *)
LEMMA WorkIsOps ==
  ASSUME NEW place \in Places
  PROVE  AllOps(Work(place))
<1>1. Work(place) \in Seq(Calls)
  BY WorkIsPlain, PlainSeq
<1>2. WorkOf[place] \in Seq(Operations)
  BY ProfileTypes
<1>3. \A k \in DOMAIN WorkOf[place] : Work(place)[k].call = "op"
  BY DEF Work
<1>4. Len(Work(place)) = Len(WorkOf[place]) /\ DOMAIN WorkOf[place] = 1..Len(WorkOf[place])
  BY <1>2, WorkIsPlain DEF Plain
<1> QED
  BY <1>1, <1>3, <1>4 DEF AllOps

LEMMA WhenOps ==
  ASSUME NEW condition \in BOOLEAN, NEW s, AllOps(s)
  PROVE  AllOps(When(condition, s))
BY DEF AllOps, When

(* Quiet calls may follow one another.                                     *)
LEMMA QuietJoined ==
  ASSUME NEW s, NEW t, Quiet(s), Quiet(t)
  PROVE  Quiet(s \o t)
<1>1. Climbs(s, 0, 0) /\ Climbs(t, 0, 0) /\ s \in Seq(Calls) /\ t \in Seq(Calls)
  BY DEF Quiet, Climbs
<1>2. 0 \in Int /\ 0 <= 0 + 0 /\ 0 + 0 = 0
  OBVIOUS
<1>3. Climbs(s \o t, 0 + 0, 0)
  BY <1>1, <1>2, ClimbsJoined
<1>4. \A name \in Counted : Lacks(s \o t, name)
  BY <1>1, LacksJoined DEF Quiet
<1> QED
  BY <1>2, <1>3, <1>4 DEF Quiet

(* A call that opens a stage, with calls behind it.                        *)
LEMMA OpenedCall ==
  ASSUME NEW c \in Calls, c.call \in Enters
  PROVE  Opened(<<c>>, c, 1, 1) /\ Opened(<<c>>, c, 1, 0)
<1>1. Sign(c) = 1
  <2>1. "op" \notin Enters
    BY EnterNames
  <2> QED
    BY <2>1 DEF Sign
<1>2. Started(<<c>>, c, 1, 1) /\ Once(<<c>>, c) /\ \A name : name # c.call => Lacks(<<c>>, name)
  BY <1>1, OneCallRises
<1>3. Started(<<c>>, c, 1, 0)
  <2> DEFINE s == <<c>>
  <2>1. Started(s, c, 1, 1) /\ Len(s) = 1
    BY <1>2
  <2> HIDE DEF s
  <2>2. \A k \in 1..1 : Rise(s, k) >= 0
    <3> TAKE k \in 1..1
    <3>1. k = 1 /\ Rise(s, 1) = 1
      BY <2>1 DEF Started
    <3> QED
      BY <3>1
  <2>3. Started(s, c, 1, 0)
    BY <2>1, <2>2 DEF Started
  <2> QED
    BY <2>3 DEF s
<1> QED
  BY <1>2, <1>3 DEF Opened

LEMMA OpenedGrows ==
  ASSUME NEW s, NEW c, NEW b \in Int, NEW m \in Int, NEW t, NEW e \in Int, NEW n \in Int,
         Opened(s, c, b, m), Climbs(t, e, n), m <= b + n, \A name \in Counted : Lacks(t, name)
  PROVE  Opened(s \o t, c, b + e, m)
<1>1. s \in Seq(Calls) /\ t \in Seq(Calls)
  BY DEF Opened, Started, Climbs
<1>2. Started(s \o t, c, b + e, m)
  BY StartedJoined DEF Opened
<1>3. c.call \in Counted => Once(s \o t, c)
  BY <1>1, OnceJoined DEF Opened
<1>4. \A name \in Counted \ {c.call} : Lacks(s \o t, name)
  BY <1>1, LacksJoined DEF Opened
<1> QED
  BY <1>2, <1>3, <1>4 DEF Opened

(* A stage with quiet calls in it is quiet. *)
LEMMA StageIsQuiet ==
  ASSUME NEW s, NEW c, NEW z \in Calls, Opened(s, c, 1, 1), c.call \notin Counted,
         z.call \notin Enters \cup {"op"}
  PROVE  Quiet(s \o <<z>>)
<1>1. Started(s, c, 1, 1) /\ \A name \in Counted : Lacks(s, name)
  BY DEF Opened
<1>2. 1 \in Int /\ 1 >= 0 /\ 1 >= 1 /\ 1 - 1 = 0
  OBVIOUS
<1>3. Climbs(s \o <<z>>, 1 - 1, 0)
  BY <1>1, <1>2, StageEnds
<1>4. Counted \subseteq Enters
  BY EnterNames DEF Counted
<1>5. \A name \in Counted : Lacks(<<z>>, name)
  BY <1>4, OneCallRises
<1>6. s \in Seq(Calls) /\ <<z>> \in Seq(Calls)
  BY <1>1 DEF Started
<1>7. \A name \in Counted : Lacks(s \o <<z>>, name)
  BY <1>1, <1>5, <1>6, LacksJoined
<1> QED
  BY <1>2, <1>3, <1>7 DEF Quiet

(* Quiet calls leave an open stage open.                                   *)
LEMMA OpenedQuiet ==
  ASSUME NEW s, NEW c, NEW b \in Int, NEW m \in Int, NEW t,
         Opened(s, c, b, m), m <= b, Quiet(t)
  PROVE  Opened(s \o t, c, b, m)
<1>1. Climbs(t, 0, 0) /\ \A name \in Counted : Lacks(t, name)
  BY DEF Quiet
<1>2. m <= b + 0 /\ b + 0 = b
  OBVIOUS
<1>3. Opened(s \o t, c, b + 0, m)
  BY <1>1, <1>2, OpenedGrows
<1> QED
  BY <1>2, <1>3

(* The sublayers and the output head, the layers, and the loop over them. *)
LEMMA SublayersQuiet ==
  ASSUME NEW l \in Int
  PROVE  Quiet(AttentionCalls(l)) /\ Quiet(FfnCalls(l)) /\ Quiet(OutputHeadCalls)
<1>1. ASSUME NEW a \in Enters \ Counted, NEW z \in OtherCalls \ Enters, NEW place \in Places,
             NEW k \in Int
      PROVE  Quiet(LayerCall(a, k) \o Work(place) \o LayerCall(z, k))
  <2>1. /\ CallOf(a, k) \in Calls /\ CallOf(a, k).call = a /\ LayerCall(a, k) = <<CallOf(a, k)>>
        /\ CallOf(z, k) \in Calls /\ CallOf(z, k).call = z /\ LayerCall(z, k) = <<CallOf(z, k)>>
        /\ z # "op"
    BY EnterNames, CallsOf
  <2> DEFINE c == CallOf(a, k)
             y == CallOf(z, k)
             w == Work(place)
  <2>2. Quiet(w)
    BY WorkIsOps, OpsAreLevel
  <2>3. Opened(<<c>>, c, 1, 1)
    BY <2>1, OpenedCall
  <2>4. c.call \notin Counted /\ y \in Calls /\ y.call \notin Enters \cup {"op"}
    BY <2>1
  <2> HIDE DEF c, y, w
  <2>5. 1 \in Int /\ 1 <= 1
    OBVIOUS
  <2>6. Opened(<<c>> \o w, c, 1, 1)
    BY <2>2, <2>3, <2>5, OpenedQuiet
  <2>7. Quiet(<<c>> \o w \o <<y>>)
    BY <2>4, <2>6, StageIsQuiet
  <2> QED
    BY <2>1, <2>7 DEF c, y, w
<1>2. /\ {"on_attention_start", "on_ffn_start", "on_output_head_start"} \subseteq Enters \ Counted
      /\ {"on_attention_end", "on_ffn_end", "on_output_head_end"} \subseteq OtherCalls \ Enters
      /\ {"attention", "ffn", "head"} \subseteq Places
  BY EnterNames DEF OtherCalls, Counted, Places
<1>3. OutputHeadCalls = LayerCall("on_output_head_start", -1) \o Work("head")
                          \o LayerCall("on_output_head_end", -1)
  BY DEF OutputHeadCalls, Call, LayerCall
<1>4. -1 \in Int
  OBVIOUS
<1> QED
  BY <1>1, <1>2, <1>3, <1>4 DEF AttentionCalls, FfnCalls

(* A layer of either pass is quiet.                                        *)
LEMMA LayersQuiet ==
  ASSUME NEW l \in Int
  PROVE  Quiet(LayerForward(l)) /\ Quiet(LayerBackward(l))
<1> DEFINE c == CallOf("on_layer_start", l)
           y == CallOf("on_layer_end", l)
           w == Work("layer")
           p == AttentionCalls(l)
           q == FfnCalls(l)
<1>1. {"on_layer_start", "on_layer_end"} \subseteq OtherCalls
  BY DEF OtherCalls
<1>2. /\ c \in Calls /\ c.call = "on_layer_start" /\ LayerCall("on_layer_start", l) = <<c>>
      /\ y \in Calls /\ y.call = "on_layer_end" /\ LayerCall("on_layer_end", l) = <<y>>
  BY <1>1, CallsOf
<1>3. Quiet(w) /\ Quiet(p) /\ Quiet(q)
  <2>1. "layer" \in Places
    BY DEF Places
  <2> QED
    BY <2>1, WorkIsOps, OpsAreLevel, SublayersQuiet
<1>4. /\ LayerForward(l) = <<c>> \o w \o p \o w \o q \o w \o <<y>>
      /\ LayerBackward(l) = <<c>> \o q \o w \o p \o w \o <<y>>
  BY <1>2 DEF LayerForward, LayerBackward
<1>5. c.call \in Enters \ Counted /\ y.call \notin Enters \cup {"op"}
  BY <1>2, EnterNames DEF Counted
<1>6. Opened(<<c>>, c, 1, 1)
  BY <1>2, <1>5, OpenedCall
<1> HIDE DEF c, y, w, p, q
<1> DEFINE Open(s) == Opened(s, c, 1, 1)
<1>7. ASSUME NEW s, NEW t, Open(s), Quiet(t)
      PROVE  Open(s \o t)
  <2>1. 1 \in Int /\ 1 <= 1
    OBVIOUS
  <2> QED
    BY <1>7, <2>1, OpenedQuiet
<1>8. ASSUME NEW s, Open(s)
      PROVE  Quiet(s \o <<y>>)
  BY <1>2, <1>5, <1>8, StageIsQuiet
<1>9. Open(<<c>>)
  BY <1>6
<1> HIDE DEF Open
<1>10. Quiet(<<c>> \o w \o p \o w \o q \o w \o <<y>>)
  <2>1. Open(<<c>> \o w)
    BY <1>3, <1>7, <1>9
  <2>2. Open(<<c>> \o w \o p)
    BY <1>3, <1>7, <2>1
  <2>3. Open(<<c>> \o w \o p \o w)
    BY <1>3, <1>7, <2>2
  <2>4. Open(<<c>> \o w \o p \o w \o q)
    BY <1>3, <1>7, <2>3
  <2>5. Open(<<c>> \o w \o p \o w \o q \o w)
    BY <1>3, <1>7, <2>4
  <2> QED
    BY <1>8, <2>5
<1>11. Quiet(<<c>> \o q \o w \o p \o w \o <<y>>)
  <2>1. Open(<<c>> \o q)
    BY <1>3, <1>7, <1>9
  <2>2. Open(<<c>> \o q \o w)
    BY <1>3, <1>7, <2>1
  <2>3. Open(<<c>> \o q \o w \o p)
    BY <1>3, <1>7, <2>2
  <2>4. Open(<<c>> \o q \o w \o p \o w)
    BY <1>3, <1>7, <2>3
  <2> QED
    BY <1>8, <2>4
<1> QED
  BY <1>4, <1>10, <1>11

(* Quotient and remainder are unique.                                      *)
LEMMA OneQuotient ==
  ASSUME NEW p \in Nat \ {0}, NEW a \in Nat, NEW b \in Nat,
         NEW q \in 0..(p - 1), NEW r \in 0..(p - 1), (a * p) + q = (b * p) + r
  PROVE  a = b /\ q = r
<1>1. ASSUME NEW c \in Nat, NEW d \in Nat, NEW s \in 0..(p - 1), NEW t \in 0..(p - 1),
             (c * p) + s = (d * p) + t
      PROVE  ~(c < d)
  <2>1. SUFFICES ASSUME c < d PROVE FALSE
    OBVIOUS
  <2>2. d - (c + 1) \in Nat
    BY <2>1
  <2>3. d * p = (c * p) + p + ((d - (c + 1)) * p)
    BY <2>2
  <2>4. (d - (c + 1)) * p \in Nat /\ c * p \in Nat
    BY <2>2
  <2> DEFINE x == (d - (c + 1)) * p
             y == c * p
             z == d * p
  <2>5. z = y + p + x /\ x \in Nat /\ y \in Nat /\ y + s = z + t
    BY <1>1, <2>3, <2>4
  <2> HIDE DEF x, y, z
  <2> QED
    BY <2>5
<1>2. a = b
  BY <1>1
<1>3. a * p \in Nat
  OBVIOUS
<1> QED
  BY <1>2, <1>3

(* The next number has the next remainder, or starts the next turn.        *)
LEMMA NextInTurn ==
  ASSUME NEW i \in Nat, NEW p \in Nat \ {0}
  PROVE  /\ (i % p) + 1 < p => (i + 1) \div p = i \div p /\ (i + 1) % p = (i % p) + 1
         /\ ~((i % p) + 1 < p) => (i + 1) % p = 0 /\ (i % p) + 1 = p
<1> DEFINE d == i \div p
           r == i % p
           e == (i + 1) \div p
           q == (i + 1) % p
<1>1. d \in Nat /\ r \in 0..(p - 1) /\ i = (d * p) + r
  BY Division
<1>2. e \in Nat /\ q \in 0..(p - 1) /\ i + 1 = (e * p) + q
  <2>1. i + 1 \in Nat
    OBVIOUS
  <2> QED
    BY <2>1, Division
<1> HIDE DEF d, r, e, q
<1>3. d * p \in Nat /\ e * p \in Nat
  BY <1>1, <1>2
<1>4. ASSUME r + 1 < p
      PROVE  e = d /\ q = r + 1
  <2>1. r + 1 \in 0..(p - 1) /\ (e * p) + q = (d * p) + (r + 1)
    BY <1>1, <1>2, <1>3, <1>4
  <2> QED
    BY <1>1, <1>2, <2>1, OneQuotient
<1>5. ASSUME ~(r + 1 < p)
      PROVE  q = 0 /\ r + 1 = p
  <2>1. r + 1 = p
    BY <1>1, <1>5
  <2>2. (d + 1) * p = (d * p) + p
    BY <1>1
  <2>3. d + 1 \in Nat /\ 0 \in 0..(p - 1) /\ (e * p) + q = ((d + 1) * p) + 0
    BY <1>1, <1>2, <1>3, <2>1, <2>2
  <2> QED
    BY <1>1, <1>2, <2>1, <2>3, OneQuotient
<1> QED
  BY <1>4, <1>5 DEF d, r, e, q

(* A number below a multiple has its quotient below the factor.            *)
LEMMA QuotientBelow ==
  ASSUME NEW c \in Nat, NEW p \in Nat \ {0}, NEW i \in Nat, i < c * p
  PROVE  i \div p < c
<1> DEFINE d == i \div p
           r == i % p
<1>1. d \in Nat /\ r \in 0..(p - 1) /\ i = (d * p) + r
  BY Division
<1> HIDE DEF d, r
<1>2. SUFFICES ASSUME d >= c PROVE FALSE
  BY <1>1 DEF d
<1>3. d - c \in Nat
  BY <1>1, <1>2
<1>4. d * p = (c * p) + ((d - c) * p) /\ (d - c) * p \in Nat /\ c * p \in Nat
  BY <1>1, <1>3
<1> DEFINE x == (d - c) * p
           y == c * p
           z == d * p
<1>5. x \in Nat /\ y \in Nat /\ z = y + x /\ i = z + r /\ i < y
  BY <1>1, <1>4
<1> HIDE DEF x, y, z
<1> QED
  BY <1>1, <1>5

(* A multiple leaves no remainder.                                         *)
LEMMA WholeTurns ==
  ASSUME NEW c \in Nat, NEW p \in Nat \ {0}
  PROVE  (c * p) % p = 0
<1> DEFINE n == c * p
           d == n \div p
           r == n % p
<1>1. n \in Nat
  OBVIOUS
<1>2. d \in Nat /\ r \in 0..(p - 1) /\ n = (d * p) + r
  BY <1>1, Division
<1> HIDE DEF d, r
<1>3. 0 \in 0..(p - 1) /\ (d * p) + r = (c * p) + 0
  BY <1>1, <1>2
<1>4. r = 0
  BY <1>2, <1>3, OneQuotient
<1> QED
  BY <1>4 DEF r

(* Quiet turns, all of one length, are quiet one after the other.          *)
LEMMA TurnsQuiet ==
  ASSUME NEW turns, NEW count \in Nat \ {0}, NEW size \in Nat,
         turns = [k \in 1..count |-> turns[k]],
         \A k \in 1..count : Plain(turns[k], size) /\ Quiet(turns[k])
  PROVE  Quiet(InTurn(turns))
<1> DEFINE u == InTurn(turns)
           n == count * size
<1>1. u \in Seq(Calls) /\ Len(u) = n /\ n \in Nat
  BY InTurnPlain, PlainSeq DEF Plain
<1>2. \A i \in 1..n : u[i] = turns[((i - 1) \div size) + 1][((i - 1) % size) + 1]
  <2>1. Len(turns) = count /\ Len(turns[1]) = size
    BY DEF Plain
  <2>2. u = [i \in 1..n |-> turns[((i - 1) \div size) + 1][((i - 1) % size) + 1]]
    BY <2>1 DEF InTurn
  <2> HIDE DEF u, n
  <2> QED
    BY <2>2
<1>3. \A k \in 1..count : /\ turns[k] \in Seq(Calls) /\ Len(turns[k]) = size
                           /\ Rise(turns[k], size) = 0
                           /\ \A i \in 0..size : Rise(turns[k], i) >= 0
                           /\ \A name \in Counted : Lacks(turns[k], name)
  BY DEF Quiet, Climbs, Plain
<1>4. CASE size = 0
  <2>1. n = 0
    BY <1>4
  <2> HIDE DEF u, n
  <2>2. AllOps(u)
    BY <1>1, <2>1 DEF AllOps
  <2> QED
    BY <2>2, OpsAreLevel DEF u
<1>5. CASE size # 0
  <2> DEFINE turn(i) == (i \div size) + 1
             d == [i \in 0..n |-> Rise(turns[turn(i)], i % size)]
  <2>1. size \in Nat \ {0}
    BY <1>5
  <2>2. ASSUME NEW i \in 0..(n - 1)
        PROVE  /\ turn(i) \in 1..count /\ i % size \in 0..(size - 1) /\ (i % size) + 1 \in 1..size
               /\ u[i + 1] = turns[turn(i)][(i % size) + 1]
    <3>1. i \in Nat /\ i < n /\ i + 1 \in 1..n /\ (i + 1) - 1 = i
      BY <1>1
    <3>2. /\ i \div size \in Nat /\ i % size \in 0..(size - 1)
          /\ i = ((i \div size) * size) + (i % size)
      BY <2>1, <3>1, Division
    <3>3. i \div size < count
      BY <2>1, <3>1, QuotientBelow
    <3> DEFINE q == i \div size
               r == i % size
               j == i + 1
    <3>4. u[j] = turns[q + 1][r + 1]
      <4>1. u[j] = turns[((j - 1) \div size) + 1][((j - 1) % size) + 1]
        <5> HIDE DEF u, n, j
        <5>1. j \in 1..n
          BY <3>1 DEF j
        <5> QED
          BY <1>2, <5>1
      <4>2. j - 1 = i
        BY <3>1
      <4> HIDE DEF j
      <4> QED
        BY <4>1, <4>2
    <3>5. q \in Nat /\ q < count /\ r \in 0..(size - 1)
      BY <3>2, <3>3
    <3>6. q + 1 \in 1..count /\ r + 1 \in 1..size
      <4> HIDE DEF q, r
      <4> QED
        BY <2>1, <3>5
    <3> QED
      BY <3>4, <3>5, <3>6
  <2>3. ASSUME NEW i \in 0..(n - 1)
        PROVE  d[i + 1] = d[i] + Sign(u[i + 1])
    <3> DEFINE t == turns[turn(i)]
               r == i % size
    <3>1. d[i] = Rise(t, r)
      BY <1>1
    <3>2. Rise(t, r + 1) = Rise(t, r) + Sign(t[r + 1]) /\ r \in Nat
      BY <2>1, <2>2, RiseSteps
    <3>3. u[i + 1] = t[r + 1]
      BY <2>2
    <3>4. d[i + 1] = Rise(turns[turn(i + 1)], (i + 1) % size)
      BY <1>1
    <3>5. i \in Nat
      OBVIOUS
    <3>6. CASE r + 1 < size
      <4>1. (i + 1) \div size = i \div size /\ (i + 1) % size = r + 1
        BY <2>1, <3>5, <3>6, NextInTurn
      <4> QED
        BY <3>1, <3>2, <3>3, <3>4, <4>1
    <3>7. CASE ~(r + 1 < size)
      <4>1. (i + 1) % size = 0 /\ r + 1 = size
        BY <2>1, <3>5, <3>7, NextInTurn
      <4>2. d[i + 1] = 0
        BY <3>4, <4>1, RiseSteps
      <4>3. Rise(t, r + 1) = 0
        BY <1>3, <2>2, <4>1
      <4> QED
        BY <3>1, <3>2, <3>3, <4>2, <4>3
    <3> QED
      BY <3>6, <3>7
  <2>4. d[0] = 0
    <3>1. 0 % size = 0 /\ 0 \in 0..n
      BY <1>1, <2>1
    <3> QED
      BY <3>1, RiseSteps
  <2>5. \A k \in 0..n : Rise(u, k) = d[k]
    <3> HIDE DEF d, u, n
    <3>1. Follows(d, u, n)
      BY <2>3, <2>4 DEF Follows
    <3> QED
      BY <1>1, <3>1, PathIsRise
  <2>6. \A k \in 0..(n - 1) : d[k] >= 0
    <3> TAKE k \in 0..(n - 1)
    <3>1. d[k] = Rise(turns[turn(k)], k % size)
      BY <1>1
    <3>2. turn(k) \in 1..count /\ k % size \in 0..(size - 1)
      BY <2>2
    <3> HIDE DEF d, turn, n
    <3>3. \A i \in 0..(size - 1) : i \in 0..size
      BY <2>1
    <3> QED
      BY <1>3, <3>1, <3>2, <3>3
  <2>7. d[n] = 0
    <3>1. n % size = 0 /\ n \in 0..n
      BY <1>1, <2>1, WholeTurns
    <3> QED
      BY <3>1, RiseSteps
  <2>8. Climbs(u, 0, 0)
    <3> HIDE DEF d, u, n
    <3>1. Rise(u, n) = 0
      BY <1>1, <2>5, <2>7
    <3>2. \A k \in 0..n : Rise(u, k) >= 0
      <4> TAKE k \in 0..n
      <4>1. k = n \/ k \in 0..(n - 1)
        BY <1>1
      <4> QED
        BY <2>5, <2>6, <2>7, <4>1
    <3> QED
      BY <1>1, <3>1, <3>2 DEF Climbs
  <2>9. \A name \in Counted : Lacks(u, name)
    <3> TAKE name \in Counted
    <3>1. ASSUME NEW k \in 1..n
          PROVE  u[k].call # name
      <4> DEFINE i == k - 1
      <4>1. i \in 0..(n - 1) /\ i + 1 = k
        BY <1>1
      <4> HIDE DEF i, u, n
      <4>2. /\ turn(i) \in 1..count /\ (i % size) + 1 \in 1..size
            /\ u[k] = turns[turn(i)][(i % size) + 1]
        BY <2>2, <4>1
      <4> HIDE DEF turn
      <4> QED
        BY <1>3, <4>2 DEF Lacks
    <3> QED
      BY <1>1, <3>1 DEF Lacks
  <2> QED
    BY <2>8, <2>9 DEF Quiet
<1> QED
  BY <1>4, <1>5

(* The two calls the counts are about.                                     *)
BatchCall == CallOf("on_batch_start", -1)
ForwardCall == CallOf("on_forward_start", -1)

LEMMA CallNames ==
  /\ BatchCall \in Calls /\ BatchCall.call = "on_batch_start"
  /\ ForwardCall \in Calls /\ ForwardCall.call = "on_forward_start"
  /\ Call("on_batch_start") = <<BatchCall>> /\ Call("on_forward_start") = <<ForwardCall>>
  /\ Counted \subseteq Enters
<1>1. {"on_batch_start", "on_forward_start"} \subseteq OtherCalls
  BY DEF OtherCalls
<1>2. -1 \in Int
  OBVIOUS
<1> QED
  BY <1>1, <1>2, CallsOf, EnterNames DEF BatchCall, ForwardCall, Counted

(* One more call that is not counted. *)
LEMMA OneMoreClimbs ==
  ASSUME NEW name \in (StepCalls \cup OtherCalls) \ Counted
  PROVE  /\ Call(name) \in Seq(Calls)
         /\ name \in Enters => Climbs(Call(name), 1, 0)
         /\ name \notin Enters => Climbs(Call(name), -1, -1)
         /\ \A other \in Counted : Lacks(Call(name), other)
<1> DEFINE c == CallOf(name, -1)
<1>1. -1 \in Int
  OBVIOUS
<1>2. c \in Calls /\ c.call = name /\ Call(name) = <<c>> /\ name # "op"
  BY <1>1, CallsOf
<1> HIDE DEF c
<1> QED
  BY <1>2, OneCallRises

(* No calls, and the work of a place, are quiet.                           *)
LEMMA NoCallsQuiet ==
  Quiet(<<>>)
<1>1. AllOps(<<>>)
  BY DEF AllOps
<1> QED
  BY <1>1, OpsAreLevel

LEMMA WorkQuiet ==
  ASSUME NEW place \in Places
  PROVE  /\ Quiet(Work(place))
         /\ \A condition \in BOOLEAN : Quiet(When(condition, Work(place)))
BY WorkIsOps, WhenOps, OpsAreLevel

(* The loops over the layers are quiet, of any number of layers.           *)
LEMMA LayerLoopsQuiet ==
  /\ Quiet(InTurn([l \in 1..Layers |-> LayerForward(l - 1)]))
  /\ Quiet(InTurn([l \in 1..Layers |-> LayerBackward(Layers - l)]))
<1>1. Layers \in Nat \ {0}
  BY ProfileTypes
<1>2. ForwardLen \in Nat /\ BackwardLen \in Nat
  <2>1. {"layer", "attention", "ffn"} \subseteq Places
    BY DEF Places
  <2>2. WorkLen("layer") \in Nat /\ WorkLen("attention") \in Nat /\ WorkLen("ffn") \in Nat
    BY <2>1, WorkLenNat
  <2> QED
    BY <2>2 DEF ForwardLen, BackwardLen
<1>3. \A l \in Int : /\ Plain(LayerForward(l), ForwardLen) /\ Quiet(LayerForward(l))
                     /\ Plain(LayerBackward(l), BackwardLen) /\ Quiet(LayerBackward(l))
  BY LayersPlain, LayersQuiet
<1> DEFINE a == [l \in 1..Layers |-> LayerForward(l - 1)]
           b == [l \in 1..Layers |-> LayerBackward(Layers - l)]
<1>4. /\ a = [k \in 1..Layers |-> a[k]]
      /\ \A k \in 1..Layers : Plain(a[k], ForwardLen) /\ Quiet(a[k])
  BY <1>1, <1>3
<1>5. /\ b = [k \in 1..Layers |-> b[k]]
      /\ \A k \in 1..Layers : Plain(b[k], BackwardLen) /\ Quiet(b[k])
  BY <1>1, <1>3
<1> HIDE DEF a, b
<1>6. Quiet(InTurn(a))
  BY <1>1, <1>2, <1>4, TurnsQuiet
<1>7. Quiet(InTurn(b))
  BY <1>1, <1>2, <1>5, TurnsQuiet
<1> QED
  BY <1>6, <1>7 DEF a, b

(* A pass stands above its first call. *)
LEMMA ForwardStaged ==
  /\ Staged(Forward, ForwardCall, 0, 1)
  /\ Climbs(Forward, 0, 0)
  /\ Once(Forward, ForwardCall)
  /\ Lacks(Forward, "on_batch_start")
<1> DEFINE c == ForwardCall
           e == Work("embedding")
           q == InTurn([l \in 1..Layers |-> LayerForward(l - 1)])
           h == OutputHeadCalls
           y == CallOf("on_forward_end", -1)
           s == <<c>> \o e \o q \o h
<1>1. -1 \in Int /\ 1 \in Int /\ 1 <= 1 /\ "on_forward_end" \in OtherCalls
  BY DEF OtherCalls
<1>2. y \in Calls /\ y.call = "on_forward_end" /\ Call("on_forward_end") = <<y>>
  BY <1>1, CallsOf
<1>3. Forward = s \o <<y>>
  BY <1>2, CallNames DEF Forward
<1>4. Quiet(e) /\ Quiet(q) /\ Quiet(h)
  <2>1. "embedding" \in Places
    BY DEF Places
  <2> QED
    BY <1>1, <2>1, WorkQuiet, LayerLoopsQuiet, SublayersQuiet
<1>5. Opened(<<c>>, c, 1, 1)
  BY CallNames, OpenedCall DEF Counted
<1>6. c \in Calls /\ c.call = "on_forward_start" /\ c.call \in Counted
  BY CallNames DEF Counted
<1>7. y.call \notin Enters \cup {"op"} /\ y.call \notin Counted
  BY <1>2, EnterNames DEF Counted
<1> HIDE DEF c, e, q, h, y
<1>8. Opened(<<c>> \o e, c, 1, 1)
  BY <1>1, <1>4, <1>5, OpenedQuiet
<1>9. Opened(<<c>> \o e \o q, c, 1, 1)
  BY <1>1, <1>4, <1>8, OpenedQuiet
<1>10. Opened(s, c, 1, 1)
  BY <1>1, <1>4, <1>9, OpenedQuiet
<1> HIDE DEF s
<1>11. Started(s, c, 1, 1) /\ Once(s, c) /\ Lacks(s, "on_batch_start") /\ s \in Seq(Calls)
  <2>1. "on_batch_start" \in Counted \ {c.call}
    BY <1>6 DEF Counted
  <2> QED
    BY <1>6, <1>10, <2>1 DEF Opened, Started
<1>12. <<y>> \in Seq(Calls) /\ \A name \in Counted : Lacks(<<y>>, name)
  BY <1>2, <1>7, OneCallRises
<1>13. Staged(s \o <<y>>, c, 1 - 1, 1) /\ Climbs(s \o <<y>>, 1 - 1, 0)
  <2>1. 1 >= 0 /\ 1 >= 1
    OBVIOUS
  <2> QED
    BY <1>1, <1>2, <1>7, <1>11, <2>1, StageEnds
<1>14. Once(s \o <<y>>, c)
  BY <1>6, <1>11, <1>12, OnceJoined
<1>15. Lacks(s \o <<y>>, "on_batch_start")
  <2>1. "on_batch_start" \in Counted
    BY DEF Counted
  <2> QED
    BY <1>11, <1>12, <2>1, LacksJoined
<1>16. 1 - 1 = 0
  OBVIOUS
<1> QED
  BY <1>3, <1>13, <1>14, <1>15, <1>16 DEF c

(* The backward pass is quiet.                                             *)
LEMMA BackwardQuiet ==
  Quiet(Backward)
<1> DEFINE c == CallOf("on_backward_start", -1)
           e == Work("embedding")
           q == InTurn([l \in 1..Layers |-> LayerBackward(Layers - l)])
           h == OutputHeadCalls
           y == CallOf("on_backward_end", -1)
<1>1. -1 \in Int /\ 1 \in Int /\ 1 <= 1 /\ {"on_backward_start", "on_backward_end"} \subseteq OtherCalls
  BY DEF OtherCalls
<1>2. /\ y \in Calls /\ y.call = "on_backward_end" /\ Call("on_backward_end") = <<y>>
      /\ c \in Calls /\ c.call = "on_backward_start" /\ Call("on_backward_start") = <<c>>
  BY <1>1, CallsOf
<1>3. Backward = <<c>> \o h \o q \o e \o <<y>>
  BY <1>2 DEF Backward
<1>4. Quiet(e) /\ Quiet(q) /\ Quiet(h)
  <2>1. "embedding" \in Places
    BY DEF Places
  <2> QED
    BY <1>1, <2>1, WorkQuiet, LayerLoopsQuiet, SublayersQuiet
<1>5. /\ y.call \notin Enters \cup {"op"}
      /\ c.call \in Enters /\ c.call \notin Counted
  BY <1>2, EnterNames DEF Counted
<1> HIDE DEF c, e, q, h, y
<1>6. Opened(<<c>>, c, 1, 1)
  BY <1>2, <1>5, OpenedCall
<1>7. Opened(<<c>> \o h, c, 1, 1)
  BY <1>1, <1>4, <1>6, OpenedQuiet
<1>8. Opened(<<c>> \o h \o q, c, 1, 1)
  BY <1>1, <1>4, <1>7, OpenedQuiet
<1>9. Opened(<<c>> \o h \o q \o e, c, 1, 1)
  BY <1>1, <1>4, <1>8, OpenedQuiet
<1> QED
  BY <1>2, <1>3, <1>5, <1>9, StageIsQuiet

Ups(condition) == IF condition THEN 1 ELSE 0

(* What is added to a batch.                                               *)
LEMMA StartedOnce ==
  ASSUME NEW s, NEW b \in Int, NEW m \in Int, NEW t, NEW e \in Int, NEW n \in Int,
         Started(s, BatchCall, b, m), Once(s, BatchCall), Once(s, ForwardCall),
         Climbs(t, e, n), m <= b + n, \A name \in Counted : Lacks(t, name)
  PROVE  /\ Started(s \o t, BatchCall, b + e, m)
         /\ Once(s \o t, BatchCall) /\ Once(s \o t, ForwardCall)
<1>1. s \in Seq(Calls) /\ t \in Seq(Calls)
  BY DEF Started, Climbs
<1>2. Started(s \o t, BatchCall, b + e, m)
  BY StartedJoined
<1>3. BatchCall.call \in Counted /\ ForwardCall.call \in Counted
  BY CallNames DEF Counted
<1>4. Lacks(t, BatchCall.call) /\ Lacks(t, ForwardCall.call)
  BY <1>3
<1> QED
  BY <1>1, <1>2, <1>4, OnceJoined

(* A batch stands above its first call, the first of a step above the      *)
(* start of the step as well.                                              *)
LEMMA BatchStaged ==
  ASSUME NEW device \in Devices, NEW f \in BOOLEAN, NEW l \in BOOLEAN, NEW summed \in BOOLEAN
  PROVE  LET s == TrainBatch(device, f, l, summed)
         IN  /\ Staged(s, BatchCall, Ups(f) - Ups(l), Ups(f))
             /\ Once(s, BatchCall) /\ Once(s, ForwardCall)
<1> DEFINE c == BatchCall
           m == Ups(f)
           e == Ups(l)
           g == IF l THEN -1 ELSE 0
           s1 == Call("on_batch_start") \o Call("on_batch_load_start")
           s2 == s1 \o Load(device)
           s3 == s2 \o Call("on_batch_load_end")
           t4 == When(f, Call("on_train_step_start"))
           s4 == s3 \o t4
           s5 == s4 \o Forward
           s6 == s5 \o Work("loss")
           s7 == s6 \o Work("zero")
           s8 == s7 \o Backward
           t9 == When(summed, Work("sum"))
           s9 == s8 \o t9
           t10 == When(l, When(summed, Work("mean")) \o Work("step") \o Call("on_train_step_end"))
           s10 == s9 \o t10
           y == CallOf("on_batch_end", -1)
<1>1. /\ m \in {0, 1} /\ e \in {0, 1} /\ (f => m = 1) /\ (~f => m = 0)
      /\ (l => e = 1 /\ g = -1) /\ (~l => e = 0 /\ g = 0)
  BY DEF Ups
<1>2. y \in Calls /\ y.call = "on_batch_end" /\ Call("on_batch_end") = <<y>>
  <2>1. -1 \in Int /\ "on_batch_end" \in StepCalls
    BY DEF StepCalls
  <2> QED
    BY <2>1, CallsOf
<1>3. TrainBatch(device, f, l, summed) = s10 \o <<y>>
  BY <1>2 DEF TrainBatch
<1>4. y.call \notin Enters \cup {"op"} /\ y.call \notin Counted
  BY <1>2, EnterNames DEF Counted
<1>5. /\ Quiet(Load(device)) /\ Quiet(Work("loss")) /\ Quiet(Work("zero")) /\ Quiet(t9)
      /\ Quiet(When(summed, Work("mean"))) /\ Quiet(Work("step"))
  <2>1. {"fill_batch", "loss", "zero", "sum", "mean", "step"} \subseteq Places
    BY DEF Places
  <2>2. (device = "CUDA") \in BOOLEAN
    OBVIOUS
  <2> QED
    BY <2>1, <2>2, WorkQuiet DEF Load
<1>6. /\ Climbs(Call("on_batch_load_start"), 1, 0)
      /\ Climbs(Call("on_batch_load_end"), -1, -1)
      /\ Climbs(Call("on_train_step_start"), 1, 0)
      /\ Climbs(Call("on_train_step_end"), -1, -1)
      /\ \A name \in Counted :
           /\ Lacks(Call("on_batch_load_start"), name) /\ Lacks(Call("on_batch_load_end"), name)
           /\ Lacks(Call("on_train_step_start"), name) /\ Lacks(Call("on_train_step_end"), name)
  <2>1. {"on_batch_load_start", "on_batch_load_end", "on_train_step_start", "on_train_step_end"}
           \subseteq (StepCalls \cup OtherCalls) \ Counted
    BY DEF StepCalls, OtherCalls, Counted
  <2>2. /\ {"on_batch_load_start", "on_train_step_start"} \subseteq Enters
        /\ "on_batch_load_end" \notin Enters /\ "on_train_step_end" \notin Enters
    BY EnterNames
  <2> QED
    BY <2>1, <2>2, OneMoreClimbs
<1>7. Climbs(t4, m, 0) /\ \A name \in Counted : Lacks(t4, name)
  <2>1. CASE f
    BY <1>1, <1>6, <2>1 DEF When
  <2>2. CASE ~f
    <3>1. t4 = <<>> /\ m = 0
      BY <1>1, <2>2 DEF When
    <3> QED
      BY <3>1, NoCallsQuiet DEF Quiet
  <2> QED
    BY <2>1, <2>2
<1>8. Climbs(t10, g, g) /\ \A name \in Counted : Lacks(t10, name)
  <2>1. CASE l
    <3> DEFINE w == When(summed, Work("mean")) \o Work("step")
               x == Call("on_train_step_end")
    <3>1. t10 = w \o x /\ g = -1
      BY <1>1, <2>1 DEF When
    <3>2. Quiet(w)
      BY <1>5, QuietJoined
    <3>3. Climbs(x, -1, -1) /\ \A name \in Counted : Lacks(x, name)
      BY <1>6
    <3> HIDE DEF w, x, t10
    <3>4. 0 \in Int /\ -1 \in Int /\ -1 <= 0 + -1 /\ 0 + -1 = -1
      OBVIOUS
    <3>5. Climbs(w, 0, 0) /\ w \in Seq(Calls) /\ x \in Seq(Calls)
      BY <3>2, <3>3 DEF Quiet, Climbs
    <3>6. Climbs(w, 0, -1)
      <4>1. \A k \in 0..Len(w) : Rise(w, k) >= -1
        <5> TAKE k \in 0..Len(w)
        <5>1. Rise(w, k) >= 0
          BY <3>5 DEF Climbs
        <5>2. k \in Nat
          OBVIOUS
        <5>3. Rise(w, k) \in Int
          BY <5>2, RiseSteps
        <5> QED
          BY <5>1, <5>3
      <4> QED
        BY <3>5, <4>1 DEF Climbs
    <3>7. Climbs(w \o x, 0 + -1, -1)
      BY <3>3, <3>4, <3>6, ClimbsJoined
    <3>8. \A name \in Counted : Lacks(w \o x, name)
      BY <3>2, <3>3, <3>5, LacksJoined DEF Quiet
    <3> QED
      BY <3>1, <3>4, <3>7, <3>8
  <2>2. CASE ~l
    <3>1. t10 = <<>>
      BY <2>2 DEF When
    <3>2. g = 0
      BY <2>2
    <3> QED
      BY <3>1, <3>2, NoCallsQuiet DEF Quiet
  <2> QED
    BY <2>1, <2>2
<1>9. Opened(<<c>>, c, 1, m) /\ Call("on_batch_start") = <<c>>
  BY <1>1, CallNames, OpenedCall DEF Counted
<1>10. c.call = "on_batch_start" /\ ForwardCall.call = "on_forward_start"
  BY CallNames
<1>11. /\ Climbs(Forward, 0, 0) /\ Once(Forward, ForwardCall) /\ Lacks(Forward, "on_batch_start")
       /\ Quiet(Backward)
  BY ForwardStaged, BackwardQuiet
<1> HIDE DEF c, t4, t9, t10, y, m, e, g
<1>12. /\ m \in Int /\ e \in Int /\ m <= 1 /\ m <= 2 /\ m <= 2 + -1 /\ 1 + 1 = 2 /\ 2 + -1 = 1
       /\ m <= 1 + 0 /\ m <= 1 + m /\ 1 + m \in Int /\ m <= (1 + m) + g /\ 0 \in Int /\ -1 \in Int
       /\ (1 + m) + 0 = 1 + m /\ m <= (1 + m) + 0 /\ g \in Int
       /\ (1 + m) + g \in Int /\ ((1 + m) + g) - 1 = m - e /\ 1 \in Int /\ 2 \in Int
  BY <1>1
<1>13. Opened(s1, c, 2, m)
  <2>1. Opened(s1, c, 1 + 1, m)
    BY <1>6, <1>9, <1>12, OpenedGrows
  <2> QED
    BY <1>12, <2>1
<1> HIDE DEF s1
<1>14. Opened(s2, c, 2, m)
  BY <1>5, <1>12, <1>13, OpenedQuiet
<1> HIDE DEF s2
<1>15. Opened(s3, c, 1, m)
  <2>1. Opened(s3, c, 2 + -1, m)
    BY <1>6, <1>12, <1>14, OpenedGrows
  <2> QED
    BY <1>12, <2>1
<1> HIDE DEF s3
<1>16. Opened(s4, c, 1 + m, m)
  BY <1>7, <1>12, <1>15, OpenedGrows
<1> HIDE DEF s4
<1> DEFINE Going(s, b) == Started(s, c, b, m) /\ Once(s, c) /\ Once(s, ForwardCall)
<1>17. Going(s5, 1 + m)
  <2>1. Started(s4, c, 1 + m, m) /\ Once(s4, c) /\ Lacks(s4, "on_forward_start")
    BY <1>10, <1>16 DEF Opened, Counted
  <2>2. s4 \in Seq(Calls) /\ Forward \in Seq(Calls)
    BY <1>11, <2>1 DEF Started, Climbs
  <2>3. Started(s5, c, (1 + m) + 0, m)
    BY <1>11, <1>12, <2>1, StartedJoined
  <2>4. Once(s5, c) /\ Once(s5, ForwardCall)
    BY <1>10, <1>11, <2>1, <2>2, OnceJoined
  <2> QED
    BY <1>12, <2>3, <2>4
<1> HIDE DEF s5
<1>18. ASSUME NEW s, NEW t, Going(s, 1 + m), Quiet(t)
       PROVE  Going(s \o t, 1 + m)
  <2>1. Climbs(t, 0, 0) /\ \A name \in Counted : Lacks(t, name)
    BY <1>18 DEF Quiet
  <2>2. Started(s \o t, c, (1 + m) + 0, m) /\ Once(s \o t, c) /\ Once(s \o t, ForwardCall)
    BY <1>12, <1>18, <2>1, StartedOnce DEF c
  <2> QED
    BY <1>12, <2>2
<1> HIDE DEF Going
<1>19. Going(s9, 1 + m)
  <2>1. Going(s6, 1 + m)
    BY <1>5, <1>17, <1>18
  <2> HIDE DEF s6
  <2>2. Going(s7, 1 + m)
    BY <1>5, <1>18, <2>1
  <2> HIDE DEF s7
  <2>3. Going(s8, 1 + m)
    BY <1>11, <1>18, <2>2
  <2> HIDE DEF s8
  <2> QED
    BY <1>5, <1>18, <2>3
<1> HIDE DEF s9
<1>20. Going(s10, (1 + m) + g)
  <2>1. Started(s9, c, 1 + m, m) /\ Once(s9, c) /\ Once(s9, ForwardCall)
    BY <1>19 DEF Going
  <2>2. Started(s10, c, (1 + m) + g, m) /\ Once(s10, c) /\ Once(s10, ForwardCall)
    BY <1>8, <1>12, <2>1, StartedOnce DEF c
  <2> QED
    BY <2>2 DEF Going
<1> HIDE DEF s10
<1>21. Started(s10, c, (1 + m) + g, m) /\ Once(s10, c) /\ Once(s10, ForwardCall)
       /\ s10 \in Seq(Calls)
  BY <1>20 DEF Going, Started
<1>22. Staged(s10 \o <<y>>, c, m - e, m)
  <2>1. Staged(s10 \o <<y>>, c, ((1 + m) + g) - 1, m)
    BY <1>2, <1>4, <1>12, <1>21, StageEnds
  <2> QED
    BY <1>12, <2>1
<1>23. Once(s10 \o <<y>>, c) /\ Once(s10 \o <<y>>, ForwardCall)
  <2>1. <<y>> \in Seq(Calls) /\ Lacks(<<y>>, c.call) /\ Lacks(<<y>>, ForwardCall.call)
    BY <1>2, <1>10, OneCallRises
  <2> QED
    BY <1>21, <2>1, OnceJoined
<1> QED
  BY <1>3, <1>22, <1>23 DEF c, m, e
(* An evaluation is a pass between operations. *)
LEMMA EvaluationClimbs ==
  ASSUME NEW device \in Devices
  PROVE  LET s == Evaluate(device)
         IN  /\ Climbs(s, 0, 0) /\ Once(s, ForwardCall) /\ Lacks(s, "on_batch_start")
             /\ \A k \in 1..Len(s) :
                  s[k].call \in Enters =>
                    (Rise(s, k - 1) = 0 <=> s[k].call = "on_forward_start")
<1> DEFINE a == Load(device)
           b == Forward
           d == Work("evaluate")
           t == a \o b
           s == t \o d
<1>1. AllOps(a) /\ AllOps(d)
  <2>1. {"fill_batch", "evaluate"} \subseteq Places
    BY DEF Places
  <2>2. (device = "CUDA") \in BOOLEAN
    OBVIOUS
  <2> QED
    BY <2>1, <2>2, WorkIsOps, WhenOps DEF Load
<1>2. /\ Staged(b, ForwardCall, 0, 1) /\ Climbs(b, 0, 0)
      /\ Once(b, ForwardCall) /\ Lacks(b, "on_batch_start")
  BY ForwardStaged
<1>3. a \in Seq(Calls) /\ b \in Seq(Calls) /\ d \in Seq(Calls)
  BY <1>1, <1>2 DEF AllOps, Staged
<1>4. /\ Climbs(a, 0, 0) /\ Climbs(d, 0, 0) /\ \A k \in 0..Len(a) : Rise(a, k) = 0
      /\ \A name \in Counted : Lacks(a, name) /\ Lacks(d, name)
  BY <1>1, OpsAreLevel DEF Quiet
<1>5. ForwardCall.call = "on_forward_start" /\ Counted = {"on_batch_start", "on_forward_start"}
  BY CallNames DEF Counted
<1> HIDE DEF a, b, d
<1>6. Evaluate(device) = s
  BY DEF Evaluate, a, b, d
<1>7. 0 \in Int /\ 0 <= 0 + 0 /\ 0 + 0 = 0
  OBVIOUS
<1>8. Climbs(t, 0, 0) /\ t \in Seq(Calls)
  <2>1. Climbs(t, 0 + 0, 0)
    BY <1>2, <1>4, <1>7, ClimbsJoined
  <2> QED
    BY <1>7, <2>1 DEF Climbs
<1>9. Once(t, ForwardCall) /\ Lacks(t, "on_batch_start")
  BY <1>2, <1>3, <1>4, <1>5, OnceJoined, LacksJoined
<1>10. /\ t \in Seq(Calls) /\ Len(t) = Len(a) + Len(b) /\ Len(a) \in Nat /\ Len(b) \in Nat
       /\ \A k \in 1..Len(a) : t[k] = a[k]
       /\ \A k \in 1..Len(b) : t[Len(a) + k] = b[k]
       /\ \A k \in 0..Len(b) : Rise(t, Len(a) + k) = Rise(a, Len(a)) + Rise(b, k)
  BY <1>3, RiseOfJoin
<1> HIDE DEF t
<1>11. /\ Climbs(s, 0, 0) /\ Once(s, ForwardCall) /\ Lacks(s, "on_batch_start")
  <2>1. Climbs(s, 0 + 0, 0)
    BY <1>4, <1>7, <1>8, ClimbsJoined
  <2>2. Once(s, ForwardCall) /\ Lacks(s, "on_batch_start")
    BY <1>3, <1>4, <1>5, <1>8, <1>9, OnceJoined, LacksJoined
  <2> QED
    BY <1>7, <2>1, <2>2
<1>12. /\ s \in Seq(Calls) /\ Len(s) = Len(t) + Len(d) /\ Len(t) \in Nat /\ Len(d) \in Nat
       /\ \A k \in 1..Len(t) : s[k] = t[k]
       /\ \A k \in 1..Len(d) : s[Len(t) + k] = d[k]
       /\ \A k \in 0..Len(t) : Rise(s, k) = Rise(t, k)
  BY <1>3, <1>8, RiseOfJoin
<1> HIDE DEF s
<1>13. ASSUME NEW k \in 1..Len(s), s[k].call \in Enters
       PROVE  Rise(s, k - 1) = 0 <=> s[k].call = "on_forward_start"
  <2>1. /\ \A i \in 1..Len(a) : a[i].call = "op"
        /\ \A i \in 1..Len(d) : d[i].call = "op"
        /\ "op" \notin Enters
    BY <1>1, EnterNames DEF AllOps
  <2> DEFINE j == k - Len(a)
  <2>2. ~(k <= Len(a))
    <3>1. SUFFICES ASSUME k <= Len(a) PROVE FALSE
      OBVIOUS
    <3>2. k \in 1..Len(a) /\ k \in 1..Len(t)
      BY <1>10, <1>12, <1>13, <3>1
    <3>3. s[k] = a[k]
      BY <1>10, <1>12, <3>2
    <3> QED
      BY <1>13, <2>1, <3>2, <3>3
  <2>3. k <= Len(t)
    <3>1. SUFFICES ASSUME ~(k <= Len(t)) PROVE FALSE
      OBVIOUS
    <3>2. k - Len(t) \in 1..Len(d) /\ Len(t) + (k - Len(t)) = k
      BY <1>12, <3>1
    <3> QED
      BY <1>12, <1>13, <2>1, <3>2
  <2>4. /\ j \in 1..Len(b) /\ Len(a) + j = k /\ j - 1 \in 0..Len(b) /\ j - 1 \in Nat
        /\ Len(a) + (j - 1) = k - 1 /\ k \in 1..Len(t) /\ k - 1 \in 0..Len(t)
    BY <1>10, <1>12, <2>2, <2>3
  <2> HIDE DEF j
  <2>5. s[k] = b[j]
    BY <1>10, <1>12, <2>4
  <2>6. Rise(s, k - 1) = Rise(b, j - 1)
    <3>1. Rise(s, k - 1) = Rise(t, k - 1)
      BY <1>12, <2>4
    <3>2. Rise(t, Len(a) + (j - 1)) = Rise(a, Len(a)) + Rise(b, j - 1)
      <4> DEFINE i == j - 1
      <4>1. i \in 0..Len(b)
        BY <2>4
      <4> HIDE DEF i
      <4>2. Rise(t, Len(a) + i) = Rise(a, Len(a)) + Rise(b, i)
        BY <1>10, <4>1
      <4> QED
        BY <4>2 DEF i
    <3>3. Rise(a, Len(a)) = 0
      <4>1. Len(a) \in 0..Len(a)
        BY <1>10
      <4> QED
        BY <1>4, <4>1
    <3>4. Rise(b, j - 1) \in Int
      <4>1. j - 1 \in Nat
        BY <2>4
      <4> QED
        BY <4>1, RiseSteps
    <3> QED
      BY <2>4, <3>1, <3>2, <3>3, <3>4
  <2>7. /\ Len(b) >= 2 /\ b[1] = ForwardCall
        /\ \A i \in 1..(Len(b) - 1) : Rise(b, i) >= 1
    BY <1>2 DEF Staged
  <2>8. PICK q \in 1..Len(b) : /\ b[q] = ForwardCall
                               /\ \A i \in 1..Len(b) : b[i].call = ForwardCall.call => i = q
    BY <1>2 DEF Once
  <2>9. b[j].call = "on_forward_start" <=> j = 1
    <3>1. 1 \in 1..Len(b)
      BY <1>10, <2>7
    <3>2. q = 1
      BY <2>7, <2>8, <3>1
    <3> QED
      BY <1>5, <2>4, <2>7, <2>8, <3>2
  <2>10. CASE j = 1
    BY <2>5, <2>6, <2>9, <2>10, RiseSteps
  <2>11. CASE j # 1
    <3>1. j - 1 \in 1..(Len(b) - 1)
      BY <1>10, <2>4, <2>11
    <3>2. Rise(b, j - 1) # 0
      BY <2>7, <3>1
    <3> QED
      BY <2>5, <2>6, <2>9, <2>11, <3>2
  <2> QED
    BY <2>10, <2>11
<1> QED
  BY <1>6, <1>11, <1>13

(* A save or a restore is one stage, with operations in it. *)
LEMMA CheckpointClimbs ==
  ASSUME NEW s \in {Save, Restore}
  PROVE  /\ Len(s) >= 2 /\ Rise(s, Len(s)) = 0 /\ \A k \in 1..(Len(s) - 1) : Rise(s, k) = 1
         /\ \A name \in Counted : Lacks(s, name)
<1>1. ASSUME NEW name \in {"on_checkpoint_save_start", "on_checkpoint_load_start"},
             NEW last \in {"on_checkpoint_save_end", "on_checkpoint_load_end"},
             NEW place \in Places
      PROVE  LET u == Call(name) \o Work(place) \o Call(last)
             IN  /\ Len(u) >= 2 /\ Rise(u, Len(u)) = 0 /\ \A k \in 1..(Len(u) - 1) : Rise(u, k) = 1
                 /\ \A other \in Counted : Lacks(u, other)
  <2> DEFINE c == CallOf(name, -1)
             y == CallOf(last, -1)
             w == Work(place)
             a == <<c>>
             z == <<y>>
             t == a \o w
             u == t \o z
  <2>1. /\ name \in Enters \ Counted /\ last \notin Enters /\ last \notin Counted
        /\ name \in OtherCalls /\ last \in OtherCalls /\ -1 \in Int
    BY EnterNames DEF Counted, OtherCalls
  <2>2. /\ c \in Calls /\ c.call = name /\ Call(name) = a
        /\ y \in Calls /\ y.call = last /\ Call(last) = z /\ last # "op" /\ name # "op"
    BY <2>1, CallsOf
  <2>3. AllOps(w) /\ Quiet(w) /\ \A k \in 0..Len(w) : Rise(w, k) = 0
    BY WorkIsOps, OpsAreLevel
  <2>4. /\ a \in Seq(Calls) /\ Len(a) = 1 /\ Rise(a, 1) = 1
        /\ z \in Seq(Calls) /\ Len(z) = 1 /\ Rise(z, 1) = -1
        /\ \A other \in Counted : Lacks(a, other) /\ Lacks(z, other)
    BY <2>1, <2>2, OneCallRises DEF Sign
  <2>5. w \in Seq(Calls) /\ \A other \in Counted : Lacks(w, other)
    BY <2>3 DEF AllOps, Quiet
  <2> HIDE DEF a, z, w, c, y
  <2>6. \A other \in Counted : Lacks(t, other)
    BY <2>4, <2>5, LacksJoined
  <2>7. /\ t \in Seq(Calls) /\ Len(t) = 1 + Len(w) /\ Len(w) \in Nat
        /\ \A k \in 0..Len(w) : Rise(t, 1 + k) = Rise(a, 1) + Rise(w, k)
    <3>1. /\ t \in Seq(Calls) /\ Len(t) = Len(a) + Len(w) /\ Len(w) \in Nat
          /\ \A k \in 0..Len(w) : Rise(t, Len(a) + k) = Rise(a, Len(a)) + Rise(w, k)
      BY <2>4, <2>5, RiseOfJoin
    <3> QED
      BY <2>4, <3>1
  <2> HIDE DEF t
  <2>8. \A k \in 1..Len(t) : Rise(t, k) = 1
    <3> TAKE k \in 1..Len(t)
    <3>1. k - 1 \in 0..Len(w) /\ 1 + (k - 1) = k
      BY <2>7
    <3>2. Rise(t, 1 + (k - 1)) = Rise(a, 1) + Rise(w, k - 1)
      BY <2>7, <3>1
    <3>3. Rise(w, k - 1) = 0
      BY <2>3, <3>1
    <3> QED
      BY <2>4, <3>1, <3>2, <3>3
  <2>9. \A other \in Counted : Lacks(u, other)
    BY <2>4, <2>6, <2>7, LacksJoined
  <2>10. /\ Len(u) = Len(t) + 1 /\ Len(t) \in Nat /\ Len(t) >= 1
         /\ \A k \in 0..Len(t) : Rise(u, k) = Rise(t, k)
         /\ Rise(u, Len(t) + 1) = Rise(t, Len(t)) + Rise(z, 1)
    <3>1. /\ Len(u) = Len(t) + Len(z) /\ Len(t) \in Nat
          /\ \A k \in 0..Len(t) : Rise(u, k) = Rise(t, k)
          /\ \A k \in 0..Len(z) : Rise(u, Len(t) + k) = Rise(t, Len(t)) + Rise(z, k)
      BY <2>4, <2>7, RiseOfJoin
    <3>2. 1 \in 0..Len(z)
      BY <2>4
    <3> QED
      BY <2>4, <2>7, <3>1, <3>2
  <2> HIDE DEF u
  <2>11. Rise(u, Len(u)) = 0
    <3>1. Len(t) \in 1..Len(t)
      BY <2>10
    <3>2. Rise(t, Len(t)) = 1
      BY <2>8, <3>1
    <3> QED
      BY <2>4, <2>10, <3>2
  <2>12. \A k \in 1..(Len(u) - 1) : Rise(u, k) = 1
    <3> TAKE k \in 1..(Len(u) - 1)
    <3>1. k \in 1..Len(t) /\ k \in 0..Len(t)
      BY <2>10
    <3> QED
      BY <2>8, <2>10, <3>1
  <2>13. Len(u) >= 2
    BY <2>10
  <2> QED
    BY <2>2, <2>9, <2>11, <2>12, <2>13 DEF u, t, w
<1>2. /\ "save" \in Places /\ "restore" \in Places
      /\ Save = Call("on_checkpoint_save_start") \o Work("save")
                   \o Call("on_checkpoint_save_end")
      /\ Restore = Call("on_checkpoint_load_start") \o Work("restore")
                      \o Call("on_checkpoint_load_end")
  BY DEF Places, Save, Restore
<1>3. CASE s = Save
  BY <1>1, <1>2, <1>3
<1>4. CASE s = Restore
  BY <1>1, <1>2, <1>4
<1> QED
  BY <1>3, <1>4

(* A sequence without its last element.                                    *)
LEMMA FrontFields ==
  ASSUME NEW S, NEW s \in Seq(S), s # <<>>
  PROVE  /\ Front(s) \in Seq(S) /\ Len(Front(s)) = Len(s) - 1 /\ Len(s) \in Nat \ {0}
         /\ \A k \in 1..(Len(s) - 1) : Front(s)[k] = s[k]
<1> DEFINE n == Len(s)
<1>1. n \in Nat \ {0} /\ n - 1 \in Nat /\ 1 \in Int /\ n - 1 \in Int
  BY EmptySeq
<1>2. \A k \in 1..(n - 1) : s[k] \in S
  OBVIOUS
<1> HIDE DEF n
<1>3. /\ SubSeq(s, 1, n - 1) \in Seq(S)
      /\ Len(SubSeq(s, 1, n - 1)) = IF 1 <= n - 1 THEN (n - 1) - 1 + 1 ELSE 0
      /\ \A k \in 1..((n - 1) - 1 + 1) : SubSeq(s, 1, n - 1)[k] = s[1 + k - 1]
  BY <1>1, <1>2, SubSeqProperties
<1>4. (n - 1) - 1 + 1 = n - 1 /\ \A k \in 1..(n - 1) : 1 + k - 1 = k
  BY <1>1
<1>5. /\ Len(SubSeq(s, 1, n - 1)) = n - 1
      /\ \A k \in 1..(n - 1) : SubSeq(s, 1, n - 1)[k] = s[k]
  BY <1>1, <1>3, <1>4
<1> QED
  BY <1>1, <1>3, <1>5 DEF Front, n

LEMMA FrontOfMore ==
  ASSUME NEW S, NEW s \in Seq(S), NEW e \in S
  PROVE  Front(Append(s, e)) = s
<1> DEFINE u == Append(s, e)
<1>1. /\ u \in Seq(S) /\ Len(s) \in Nat /\ Len(u) = Len(s) + 1 /\ u # <<>>
      /\ \A i \in 1..Len(s) : u[i] = s[i]
  BY OneAppended
<1> HIDE DEF u
<1>2. /\ Front(u) \in Seq(S) /\ Len(Front(u)) = Len(s)
      /\ \A k \in 1..Len(s) : Front(u)[k] = s[k]
  <2>1. /\ Front(u) \in Seq(S) /\ Len(Front(u)) = Len(u) - 1
        /\ \A k \in 1..(Len(u) - 1) : Front(u)[k] = u[k]
    BY <1>1, FrontFields
  <2>2. Len(u) - 1 = Len(s)
    BY <1>1
  <2> QED
    BY <1>1, <2>1, <2>2
<1> QED
  BY <1>2, SeqEqual DEF u

(* A child of a node, and the top-level nodes.                             *)
LEMMA Paths ==
  ASSUME NEW node \in PathNodes, NEW e \in StageNames \X Int, NEW child, child = Append(node, e)
  PROVE  /\ child \in PathNodes /\ Len(child) = Len(node) + 1 /\ Len(node) \in Nat
         /\ StageOf(child) = e[1] /\ child # RootNode /\ ParentOf(child) = node
         /\ \A other : child = TopNode(other) <=> node = RootNode /\ e = <<other, -1>>
<1>1. node \in Seq(StageNames \X Int)
  BY DEF PathNodes
<1>2. /\ child \in Seq(StageNames \X Int) /\ Len(child) = Len(node) + 1 /\ Len(node) \in Nat
      /\ child[Len(child)] = e /\ child # <<>>
  BY <1>1
<1>3. Front(child) = node
  BY <1>1, FrontOfMore
<1>4. ASSUME NEW other
      PROVE  child = TopNode(other) <=> node = RootNode /\ e = <<other, -1>>
  <2>1. CASE node = RootNode
    <3>1. child = <<e>>
      <4>1. Append(<<>>, e) = <<e>>
        OBVIOUS
      <4> QED
        BY <2>1, <4>1 DEF RootNode
    <3>2. \A x, y : <<x>> = <<y>> <=> x = y
      OBVIOUS
    <3> QED
      BY <2>1, <3>1, <3>2 DEF TopNode
  <2>2. CASE node # RootNode
    <3>1. Len(node) # 0
      BY <1>1, <2>2 DEF RootNode
    <3>2. Len(TopNode(other)) = 1
      BY DEF TopNode
    <3>3. Len(child) # 1
      BY <1>2, <3>1
    <3> QED
      BY <2>2, <3>2, <3>3
  <2> QED
    BY <2>1, <2>2
<1> QED
  BY <1>2, <1>3, <1>4 DEF PathNodes, StageOf, ParentOf, RootNode

(* Which paths are at the top. *)
LEMMA TopPath ==
  ASSUME NEW node \in PathNodes, NEW e \in StageNames \X Int, NEW child, child = Append(node, e),
         NEW other
  PROVE  child = TopNode(other) <=> node = RootNode /\ e = <<other, -1>>
BY Paths

(* Visits that are added up. *)
LEMMA CountsOf ==
  ASSUME NEW t, NEW S, IsFiniteSet(S), \A n \in S : t[n].count \in Int
  PROVE  /\ Counts(t, S) \in Int
         /\ \A z \in S : Counts(t, S) = Counts(t, S \ {z}) + t[z].count
<1> DEFINE h == [n \in S |-> t[n].count]
<1>1. Counts(t, S) = SumOf(h, S)
  BY DEF Counts
<1>2. \A n \in S : h[n] \in Int /\ h[n] = t[n].count
  OBVIOUS
<1>3. ASSUME NEW z \in S
      PROVE  Counts(t, S \ {z}) = SumOf(h, S \ {z})
  <2> DEFINE R == S \ {z}
             g == [n \in R |-> t[n].count]
  <2>1. Counts(t, R) = SumOf(g, R)
    BY DEF Counts
  <2>2. IsFiniteSet(R)
    BY FS_Subset
  <2>3. \A n \in R : g[n] \in Int /\ g[n] = h[n]
    OBVIOUS
  <2> HIDE DEF g, h, R
  <2>4. SumOf(g, R) = SumOf(h, R)
    BY <2>2, <2>3, SumSame
  <2> QED
    BY <2>1, <2>4 DEF R
<1> HIDE DEF h
<1> QED
  BY <1>1, <1>2, <1>3, SumType, SumAdd

(* Counts that stay the same, and one that changes.                        *)
LEMMA CountsSame ==
  ASSUME NEW t, NEW u, NEW S, IsFiniteSet(S), \A n \in S : t[n].count \in Int,
         \A n \in S : u[n].count = t[n].count
  PROVE  Counts(u, S) = Counts(t, S)
<1> DEFINE h == [n \in S |-> t[n].count]
           g == [n \in S |-> u[n].count]
<1>1. \A n \in S : h[n] \in Int /\ h[n] = g[n]
  OBVIOUS
<1>2. Counts(t, S) = SumOf(h, S) /\ Counts(u, S) = SumOf(g, S)
  BY DEF Counts
<1> HIDE DEF g, h
<1> QED
  BY <1>1, <1>2, SumSame

LEMMA CountsMore ==
  ASSUME NEW t, NEW u, NEW S, IsFiniteSet(S), \A n \in S : t[n].count \in Int, NEW z,
         \A n \in S \ {z} : u[n].count = t[n].count
  PROVE  /\ z \in S /\ u[z].count = t[z].count + 1 => Counts(u, S) = Counts(t, S) + 1
         /\ z \notin S /\ u[z].count = 0 => Counts(u, S \cup {z}) = Counts(t, S)
<1> DEFINE R == S \ {z}
<1>1. IsFiniteSet(R)
  BY FS_Subset
<1>2. Counts(u, R) = Counts(t, R) /\ Counts(t, R) \in Int
  <2>1. /\ \A n \in R : t[n].count \in Int
        /\ \A n \in R : u[n].count = t[n].count
    OBVIOUS
  <2> HIDE DEF R
  <2> QED
    BY <1>1, <2>1, CountsSame, CountsOf
<1>3. ASSUME z \in S, u[z].count = t[z].count + 1
      PROVE  Counts(u, S) = Counts(t, S) + 1
  <2>1. \A n \in S : u[n].count \in Int
    BY <1>3
  <2>2. Counts(u, S) = Counts(u, R) + u[z].count /\ Counts(t, S) = Counts(t, R) + t[z].count
    BY <1>3, <2>1, CountsOf
  <2>3. t[z].count \in Int
    BY <1>3
  <2> HIDE DEF R
  <2> QED
    BY <1>2, <1>3, <2>2, <2>3
<1>4. ASSUME z \notin S, u[z].count = 0
      PROVE  Counts(u, S \cup {z}) = Counts(t, S)
  <2> DEFINE M == S \cup {z}
  <2>1. R = S /\ M \ {z} = S
    BY <1>4
  <2>2. IsFiniteSet(M)
    BY FS_AddElement
  <2>3. \A n \in M : u[n].count \in Int
    BY <1>4
  <2>4. z \in M
    OBVIOUS
  <2> HIDE DEF M, R
  <2>5. Counts(u, M) = Counts(u, M \ {z}) + u[z].count
    BY <2>2, <2>3, <2>4, CountsOf
  <2> QED
    BY <1>2, <1>4, <2>1, <2>5 DEF M
<1> QED
  BY <1>3, <1>4

LEMMA CountsNew ==
  ASSUME NEW t, NEW u, NEW S, IsFiniteSet(S), \A n \in S : t[n].count \in Int, NEW z,
         \A n \in S \ {z} : u[n].count = t[n].count, z \notin S, u[z].count = 0
  PROVE  Counts(u, S \cup {z}) = Counts(t, S)
BY CountsMore

LEMMA CountsOneMore ==
  ASSUME NEW t, NEW u, NEW S, IsFiniteSet(S), \A n \in S : t[n].count \in Int, NEW z,
         \A n \in S \ {z} : u[n].count = t[n].count, z \in S, u[z].count = t[z].count + 1
  PROVE  Counts(u, S) = Counts(t, S) + 1
BY CountsMore

(* What a well-formed tree provides.                                       *)
LEMMA TreeFields ==
  ASSUME NEW t, NEW f, NEW at, TreeOf(t, f, at)
  PROVE  /\ Len(f) \in Nat /\ at \in PathNodes /\ Len(at) = Len(f)
         /\ \A i \in 1..Len(f) :
              /\ f[i] \in Frames /\ f[i].node \in PathNodes /\ f[i].start \in Nat
              /\ f[i].node \in DOMAIN t /\ Len(f[i].node) = i /\ f[i].node # RootNode
         /\ \A stage :
              /\ IsFiniteSet(NodesOf(t, stage))
              /\ \A n \in NodesOf(t, stage) : t[n].count \in Int
              /\ IsFiniteSet(OpenOf(f, stage)) /\ Cardinality(OpenOf(f, stage)) \in Nat
              /\ Counts(t, NodesOf(t, stage)) \in Int
              /\ TopOf(t, stage).count \in Int /\ TopOf(t, stage).total \in Int
<1>1. f \in Seq(Frames) /\ Len(f) \in Nat /\ \A i \in 1..Len(f) : f[i] \in Frames
  BY DEF TreeOf
<1>2. \A i \in 1..Len(f) : /\ f[i].node \in PathNodes /\ f[i].start \in Nat
                            /\ f[i].node \in DOMAIN t /\ Len(f[i].node) = i
  BY <1>1 DEF TreeOf, OpenPath, Frames
<1>3. \A i \in 1..Len(f) : f[i].node # RootNode
  <2> TAKE i \in 1..Len(f)
  <2>1. Len(f[i].node) # 0
    BY <1>2
  <2>2. Len(RootNode) = 0
    BY DEF RootNode
  <2> QED
    BY <2>1, <2>2
<1>4. at \in PathNodes /\ Len(at) = Len(f)
  <2>1. CASE f = <<>>
    <3>1. at = <<>> /\ Len(f) = 0
      BY <2>1 DEF TreeOf, RootNode
    <3> QED
      BY <3>1 DEF PathNodes
  <2>2. CASE f # <<>>
    <3>1. Len(f) \in 1..Len(f)
      BY <1>1, <2>2, EmptySeq
    <3>2. at = f[Len(f)].node
      BY <2>2 DEF TreeOf
    <3> QED
      BY <1>2, <3>1, <3>2
  <2> QED
    BY <2>1, <2>2
<1>5. ASSUME NEW stage
      PROVE  /\ IsFiniteSet(NodesOf(t, stage))
             /\ \A n \in NodesOf(t, stage) : t[n].count \in Int
             /\ IsFiniteSet(OpenOf(f, stage)) /\ Cardinality(OpenOf(f, stage)) \in Nat
             /\ Counts(t, NodesOf(t, stage)) \in Int
             /\ TopOf(t, stage).count \in Int /\ TopOf(t, stage).total \in Int
  <2>1. NodesOf(t, stage) \subseteq DOMAIN t /\ IsFiniteSet(DOMAIN t)
    BY DEF NodesOf, TreeOf
  <2>2. IsFiniteSet(NodesOf(t, stage))
    BY <2>1, FS_Subset
  <2>3. \A n \in DOMAIN t : t[n].count \in Int /\ t[n].total \in Int
    BY DEF TreeOf, NodeRecords
  <2>4. OpenOf(f, stage) \subseteq 1..Len(f) /\ IsFiniteSet(1..Len(f))
    BY <1>1, FS_Interval DEF OpenOf
  <2>5. IsFiniteSet(OpenOf(f, stage)) /\ Cardinality(OpenOf(f, stage)) \in Nat
    BY <2>4, FS_Subset, FS_CardinalityType
  <2>6. TopOf(t, stage).count \in Int /\ TopOf(t, stage).total \in Int
    BY <2>3 DEF TopOf, NewNode
  <2> QED
    BY <2>1, <2>2, <2>3, <2>5, <2>6, CountsOf
<1> QED
  BY <1>1, <1>2, <1>3, <1>4, <1>5

(* A stage is entered: u, g and node are what t, f and at become. *)
EntersAt(t, f, at, e, tick, node, u, g) ==
  /\ e \in StageNames \X Int /\ tick \in Nat
  /\ node = Append(at, e)
  /\ u = [n \in DOMAIN t \cup {node} |-> IF n \in DOMAIN t THEN t[n] ELSE NewNode]
  /\ g = Append(f, [node |-> node, start |-> tick])

(* Entering a stage keeps the tree well-formed.                            *)
LEMMA EnterKeepsTree ==
  ASSUME NEW t, NEW f, NEW at, NEW e, NEW tick, NEW node, NEW u, NEW g,
         TreeOf(t, f, at), EntersAt(t, f, at, e, tick, node, u, g)
  PROVE  /\ TreeOf(u, g, node)
         /\ Len(g) = Len(f) + 1 /\ \A i \in 1..Len(f) : g[i] = f[i]
         /\ g[Len(f) + 1].node = node /\ g[Len(f) + 1].start = tick
         /\ node \in PathNodes /\ node # RootNode /\ StageOf(node) = e[1]
         /\ \A other : node = TopNode(other) <=> f = <<>> /\ e = <<other, -1>>
<1> DEFINE r == [node |-> node, start |-> tick]
           m == Len(f)
<1>1. /\ m \in Nat /\ at \in PathNodes /\ Len(at) = m
      /\ \A i \in 1..m : /\ f[i] \in Frames /\ f[i].node \in PathNodes /\ f[i].node \in DOMAIN t
                         /\ Len(f[i].node) = i
  BY TreeFields
<1>2. /\ node \in PathNodes /\ Len(node) = m + 1 /\ StageOf(node) = e[1] /\ node # RootNode
      /\ ParentOf(node) = at
      /\ \A other : node = TopNode(other) <=> at = RootNode /\ e = <<other, -1>>
  <2>1. e \in StageNames \X Int /\ node = Append(at, e)
    BY DEF EntersAt
  <2>2. at \in PathNodes
    BY <1>1
  <2>3. /\ node \in PathNodes /\ Len(node) = Len(at) + 1
        /\ StageOf(node) = e[1] /\ node # RootNode /\ ParentOf(node) = at
    BY <2>1, <2>2, Paths
  <2>4. ASSUME NEW other
        PROVE  node = TopNode(other) <=> at = RootNode /\ e = <<other, -1>>
    BY <2>1, <2>2, TopPath
  <2> QED
    BY <1>1, <2>3, <2>4
<1>3. r \in Frames /\ r.node = node /\ r.start = tick /\ g = Append(f, r)
  <2>1. tick \in Nat /\ node \in PathNodes
    BY <1>2 DEF EntersAt
  <2>2. r \in Frames
    BY <2>1 DEF Frames
  <2>3. g = Append(f, r)
    BY DEF EntersAt
  <2> QED
    BY <2>2, <2>3
<1>4. f \in Seq(Frames)
  BY DEF TreeOf
<1> HIDE DEF r, m
<1>5. /\ g \in Seq(Frames) /\ Len(g) = m + 1 /\ \A i \in 1..m : g[i] = f[i]
      /\ g[m + 1] = r /\ g # <<>>
  <2>1. /\ Append(f, r) \in Seq(Frames) /\ Len(f) \in Nat /\ Len(Append(f, r)) = Len(f) + 1
        /\ \A i \in 1..Len(f) : Append(f, r)[i] = f[i]
        /\ Append(f, r)[Len(f) + 1] = r
    BY <1>3, <1>4, OneAppended
  <2>2. g # <<>>
    <3>1. Len(<<>>) = 0
      OBVIOUS
    <3> QED
      BY <1>3, <2>1, <3>1
  <2> QED
    BY <1>3, <2>1, <2>2 DEF m
<1>6. at = RootNode <=> f = <<>>
  <2>1. Len(RootNode) = 0 /\ Len(<<>>) = 0
    BY DEF RootNode
  <2>2. at = RootNode <=> Len(at) = 0
    BY <1>1, <2>1, EmptySeq DEF PathNodes, RootNode
  <2>3. f = <<>> <=> Len(f) = 0
    BY <1>4, <2>1, EmptySeq
  <2> QED
    BY <1>1, <2>2, <2>3 DEF m
<1>7. /\ DOMAIN u = DOMAIN t \cup {node}
      /\ u = [n \in DOMAIN t \cup {node} |-> IF n \in DOMAIN t THEN t[n] ELSE NewNode]
  BY DEF EntersAt
<1>8. OpenPath(u, g)
  <2>1. ASSUME NEW i \in 1..(m + 1)
        PROVE  /\ g[i].node \in DOMAIN u
               /\ Len(g[i].node) = i
               /\ ParentOf(g[i].node) = IF i = 1 THEN RootNode ELSE g[i - 1].node
    <3>1. CASE i = m + 1
      <4>1. g[i].node = node /\ Len(node) = i
        BY <1>2, <1>3, <1>5, <3>1
      <4>2. CASE f = <<>>
        <5>1. i = 1 /\ ParentOf(node) = RootNode
          <6>1. m = 0
            BY <4>2 DEF m
          <6> QED
            BY <1>2, <1>6, <3>1, <4>2, <6>1
        <5> QED
          BY <1>7, <4>1, <5>1
      <4>3. CASE f # <<>>
        <5>1. m # 0
          BY <1>4, <4>3, EmptySeq DEF m
        <5>2. i # 1 /\ i - 1 = m /\ m \in 1..m
          BY <1>1, <3>1, <5>1
        <5>3. g[i - 1].node = f[m].node
          BY <1>5, <5>2
        <5>4. at = f[m].node
          BY <4>3 DEF TreeOf, m
        <5> QED
          BY <1>2, <1>7, <4>1, <5>2, <5>3, <5>4
      <4> QED
        BY <4>2, <4>3
    <3>2. CASE i # m + 1
      <4>1. i \in 1..m /\ (i # 1 => i - 1 \in 1..m)
        BY <1>1, <3>2
      <4>2. g[i] = f[i] /\ (i # 1 => g[i - 1] = f[i - 1])
        BY <1>5, <4>1
      <4>3. /\ f[i].node \in DOMAIN t /\ Len(f[i].node) = i
            /\ ParentOf(f[i].node) = IF i = 1 THEN RootNode ELSE f[i - 1].node
        BY <4>1 DEF TreeOf, OpenPath, m
      <4> QED
        BY <1>7, <4>2, <4>3
    <3> QED
      BY <3>1, <3>2
  <2> QED
    BY <1>5, <2>1 DEF OpenPath
<1>9. TreeOf(u, g, node)
  <2>1. IsFiniteSet(DOMAIN u)
    BY <1>7, FS_AddElement DEF TreeOf
  <2>2. DOMAIN u \subseteq PathNodes
    BY <1>2, <1>7 DEF TreeOf
  <2>3. \A n \in DOMAIN u : u[n] \in NodeRecords
    <3>1. NewNode \in NodeRecords
      BY DEF NewNode, NodeRecords
    <3>2. \A n \in DOMAIN t : t[n] \in NodeRecords
      BY DEF TreeOf
    <3> QED
      BY <1>7, <3>1, <3>2
  <2>4. u = [n \in DOMAIN u |-> u[n]]
    BY <1>7
  <2>5. node = g[Len(g)].node
    BY <1>3, <1>5
  <2> QED
    BY <1>5, <1>8, <2>1, <2>2, <2>3, <2>4, <2>5 DEF TreeOf
<1> QED
  BY <1>1, <1>2, <1>3, <1>5, <1>6, <1>9 DEF m

(* What entering a stage counts. *)
LEMMA EnterCounts ==
  ASSUME NEW t, NEW f, NEW at, NEW e, NEW tick, NEW node, NEW u, NEW g,
         TreeOf(t, f, at), EntersAt(t, f, at, e, tick, node, u, g),
         NEW other
  PROVE  /\ Entered(u, g, other) = Entered(t, f, other) + (IF e[1] = other THEN 1 ELSE 0)
         /\ TopEntered(u, g, other)
              = TopEntered(t, f, other)
                  + (IF f = <<>> /\ e = <<other, -1>> THEN 1 ELSE 0)
         /\ TopOf(u, other).total = TopOf(t, other).total
         /\ TopOpen(g, other) <=> IF f = <<>> THEN e = <<other, -1>>
                                  ELSE TopOpen(f, other)
<1> DEFINE m == Len(f)
           S == NodesOf(t, other)
           O == OpenOf(f, other)
<1>1. /\ TreeOf(u, g, node)
      /\ Len(g) = m + 1 /\ \A i \in 1..m : g[i] = f[i]
      /\ g[m + 1].node = node
      /\ node \in PathNodes /\ node # RootNode /\ StageOf(node) = e[1]
      /\ node = TopNode(other) <=> f = <<>> /\ e = <<other, -1>>
  BY EnterKeepsTree
<1>2. /\ m \in Nat /\ IsFiniteSet(S) /\ \A n \in S : t[n].count \in Int
      /\ IsFiniteSet(O) /\ Cardinality(O) \in Nat /\ Counts(t, S) \in Int
      /\ TopOf(t, other).count \in Int
  BY TreeFields
<1>3. f = <<>> <=> m = 0
  <2>1. f \in Seq(Frames)
    BY DEF TreeOf
  <2> QED
    BY <2>1, EmptySeq
<1>4. /\ \A n \in DOMAIN t : u[n] = t[n]
      /\ node \notin DOMAIN t => u[node] = NewNode
      /\ DOMAIN u = DOMAIN t \cup {node}
      /\ NewNode.count = 0 /\ NewNode.total = 0
  BY DEF NewNode, EntersAt
<1>5. Counts(u, NodesOf(u, other)) = Counts(t, S)
  <2>1. S \subseteq DOMAIN t
    BY DEF NodesOf
  <2>2. \A n \in S : u[n].count = t[n].count
    BY <1>4, <2>1
  <2>3. Counts(u, S) = Counts(t, S)
    BY <1>2, <2>2, CountsSame
  <2>4. CASE node \in DOMAIN t \/ e[1] # other
    <3>1. NodesOf(u, other) = S
      BY <1>1, <1>4, <2>4 DEF NodesOf
    <3> QED
      BY <2>3, <3>1
  <2>5. CASE node \notin DOMAIN t /\ e[1] = other
    <3>1. NodesOf(u, other) = S \cup {node} /\ node \notin S
      BY <1>1, <1>4, <2>5 DEF NodesOf
    <3>2. u[node].count = 0
      BY <1>4, <2>5
    <3> HIDE DEF S
    <3>3. \A n \in S \ {node} : u[n].count = t[n].count
      BY <2>2
    <3>4. Counts(u, S \cup {node}) = Counts(t, S)
      BY <1>2, <3>1, <3>2, <3>3, CountsNew
    <3> QED
      BY <3>1, <3>4
  <2> QED
    BY <2>4, <2>5
<1>6. Cardinality(OpenOf(g, other)) = Cardinality(O) + (IF e[1] = other THEN 1 ELSE 0)
  <2>1. m + 1 \notin O
    BY DEF OpenOf
  <2>2. OpenOf(g, other) = IF e[1] = other THEN O \cup {m + 1} ELSE O
    <3>1. \A i : i \in 1..(m + 1) <=> i \in 1..m \/ i = m + 1
      BY <1>2
    <3> HIDE DEF m
    <3>2. OpenOf(f, other) = {i \in 1..m : StageOf(f[i].node) = other}
      BY DEF OpenOf, m
    <3>3. OpenOf(g, other) = {i \in 1..(m + 1) : StageOf(g[i].node) = other}
      BY <1>1 DEF OpenOf
    <3> QED
      BY <1>1, <3>1, <3>2, <3>3
  <2> HIDE DEF O, m
  <2>3. Cardinality(O \cup {m + 1}) = Cardinality(O) + 1
    BY <1>2, <2>1, FS_AddElement
  <2> QED
    BY <1>2, <2>2, <2>3
<1>7. Entered(u, g, other) = Entered(t, f, other) + (IF e[1] = other THEN 1 ELSE 0)
  <2>1. Entered(t, f, other) = Counts(t, S) + Cardinality(O)
    BY DEF Entered
  <2>2. Entered(u, g, other) = Counts(u, NodesOf(u, other)) + Cardinality(OpenOf(g, other))
    BY DEF Entered
  <2> HIDE DEF S, O
  <2> QED
    BY <1>2, <1>5, <1>6, <2>1, <2>2
<1>8. TopOf(u, other).total = TopOf(t, other).total /\ TopOf(u, other).count = TopOf(t, other).count
  <2>1. CASE TopNode(other) \in DOMAIN t
    BY <1>4, <2>1 DEF TopOf
  <2>2. CASE TopNode(other) \notin DOMAIN t
    <3>1. TopOf(t, other) = NewNode
      BY <2>2 DEF TopOf
    <3>2. TopOf(u, other) = NewNode
      <4>1. CASE TopNode(other) = node
        BY <1>4, <2>2, <4>1 DEF TopOf
      <4>2. CASE TopNode(other) # node
        BY <1>4, <2>2, <4>2 DEF TopOf
      <4> QED
        BY <4>1, <4>2
    <3> QED
      BY <3>1, <3>2
  <2> QED
    BY <2>1, <2>2
<1>9. g # <<>> /\ (f # <<>> => g[1] = f[1]) /\ (f = <<>> => g[1].node = node)
  <2>1. g # <<>>
    <3>1. Len(<<>>) = 0
      OBVIOUS
    <3> QED
      BY <1>1, <1>2, <3>1
  <2>2. f # <<>> => 1 \in 1..m
    BY <1>2, <1>3
  <2>3. f = <<>> => m + 1 = 1
    BY <1>2, <1>3
  <2> HIDE DEF m
  <2> QED
    BY <1>1, <2>1, <2>2, <2>3
<1>10. TopOpen(g, other) <=> IF f = <<>> THEN e = <<other, -1>> ELSE TopOpen(f, other)
  BY <1>1, <1>9 DEF TopOpen
<1>11. TopEntered(u, g, other)
         = TopEntered(t, f, other)
             + (IF f = <<>> /\ e = <<other, -1>> THEN 1 ELSE 0)
  <2>1. CASE f = <<>>
    <3>1. ~TopOpen(f, other)
      BY <2>1 DEF TopOpen
    <3> QED
      BY <1>2, <1>8, <1>10, <2>1, <3>1 DEF TopEntered
  <2>2. CASE f # <<>>
    BY <1>2, <1>8, <1>10, <2>2 DEF TopEntered
  <2> QED
    BY <2>1, <2>2
<1> QED
  BY <1>7, <1>8, <1>10, <1>11

(* A stage is left: u, g and at become what t, f and the current node were. *)
LeavesAt(t, f, tick, at, u, g) ==
  /\ f # <<>> /\ tick \in Nat
  /\ u = [t EXCEPT ![f[Len(f)].node] =
            [total |-> @.total + (tick - f[Len(f)].start), count |-> @.count + 1]]
  /\ g = Front(f)
  /\ at = ParentOf(f[Len(f)].node)

(* Leaving a stage changes one node and drops one frame ...                *)
LEMMA LeaveFields ==
  ASSUME NEW t, NEW f, NEW was, NEW tick, NEW at, NEW u, NEW g,
         TreeOf(t, f, was), LeavesAt(t, f, tick, at, u, g)
  PROVE  /\ Len(f) \in Nat \ {0} /\ Len(f) \in 1..Len(f)
         /\ f[Len(f)].node \in DOMAIN t /\ Len(f[Len(f)].node) = Len(f)
         /\ f[Len(f)].node # RootNode /\ f[Len(f)].start \in Nat /\ tick \in Nat
         /\ DOMAIN u = DOMAIN t /\ u = [n \in DOMAIN u |-> u[n]]
         /\ \A n \in DOMAIN t : n # f[Len(f)].node => u[n] = t[n]
         /\ u[f[Len(f)].node].count = t[f[Len(f)].node].count + 1
         /\ u[f[Len(f)].node].total = t[f[Len(f)].node].total + (tick - f[Len(f)].start)
         /\ \A n \in DOMAIN t : u[n] \in NodeRecords
         /\ g \in Seq(Frames) /\ Len(g) = Len(f) - 1
         /\ \A i \in 1..(Len(f) - 1) : g[i] = f[i]
<1> DEFINE m == Len(f)
           z == f[m].node
           s == f[m].start
<1>1. f \in Seq(Frames) /\ f # <<>>
  BY DEF TreeOf, LeavesAt
<1>2. m \in Nat \ {0} /\ m \in 1..m
  BY <1>1, EmptySeq
<1>3. z \in DOMAIN t /\ Len(z) = m /\ z # RootNode /\ s \in Nat
  BY <1>2, TreeFields
<1>4. /\ u = [t EXCEPT ![z] = [total |-> @.total + (tick - s), count |-> @.count + 1]]
      /\ tick \in Nat /\ g = Front(f)
  BY DEF LeavesAt
<1>5. t = [n \in DOMAIN t |-> t[n]] /\ \A n \in DOMAIN t : t[n] \in NodeRecords
  BY DEF TreeOf
<1>6. g \in Seq(Frames) /\ Len(g) = m - 1 /\ \A i \in 1..(m - 1) : g[i] = f[i]
  BY <1>1, <1>4, FrontFields
<1> HIDE DEF m, z, s
<1>7. /\ DOMAIN u = DOMAIN t /\ u = [n \in DOMAIN u |-> u[n]]
      /\ \A n \in DOMAIN t : n # z => u[n] = t[n]
      /\ u[z] = [total |-> t[z].total + (tick - s), count |-> t[z].count + 1]
  BY <1>3, <1>4
<1>8. u[z].count = t[z].count + 1 /\ u[z].total = t[z].total + (tick - s)
  BY <1>7
<1>9. \A n \in DOMAIN t : u[n] \in NodeRecords
  <2>1. u[z] \in NodeRecords
    <3>1. t[z].total \in Int /\ t[z].count \in Int
      BY <1>3, <1>5 DEF NodeRecords
    <3>2. t[z].total + (tick - s) \in Int /\ t[z].count + 1 \in Int
      BY <1>3, <1>4, <3>1
    <3> QED
      BY <1>7, <3>2 DEF NodeRecords
  <2> QED
    BY <1>5, <1>7, <2>1
<1> QED
  BY <1>2, <1>3, <1>4, <1>6, <1>7, <1>8, <1>9 DEF m, z, s

(* ... and keeps the tree well-formed.                                     *)
LEMMA LeaveKeepsTree ==
  ASSUME NEW t, NEW f, NEW was, NEW tick, NEW at, NEW u, NEW g,
         TreeOf(t, f, was), LeavesAt(t, f, tick, at, u, g)
  PROVE  TreeOf(u, g, at)
<1> DEFINE m == Len(f)
<1>1. /\ m \in Nat \ {0} /\ m \in 1..m /\ DOMAIN u = DOMAIN t /\ u = [n \in DOMAIN u |-> u[n]]
      /\ \A n \in DOMAIN t : u[n] \in NodeRecords
      /\ g \in Seq(Frames) /\ Len(g) = m - 1 /\ \A i \in 1..(m - 1) : g[i] = f[i]
  BY LeaveFields
<1>2. at = ParentOf(f[m].node)
  BY DEF LeavesAt
<1>3. \A i \in 1..m :
        /\ f[i].node \in DOMAIN t
        /\ Len(f[i].node) = i
        /\ ParentOf(f[i].node) = IF i = 1 THEN RootNode ELSE f[i - 1].node
  BY DEF TreeOf, OpenPath
<1> HIDE DEF m
<1>4. OpenPath(u, g)
  <2>1. ASSUME NEW i \in 1..(m - 1)
        PROVE  /\ g[i].node \in DOMAIN u
               /\ Len(g[i].node) = i
               /\ ParentOf(g[i].node) = IF i = 1 THEN RootNode ELSE g[i - 1].node
    <3>1. i \in 1..m /\ (i # 1 => i - 1 \in 1..(m - 1))
      BY <1>1
    <3> QED
      BY <1>1, <1>3, <3>1
  <2> QED
    BY <1>1, <2>1 DEF OpenPath
<1>5. at = IF g = <<>> THEN RootNode ELSE g[Len(g)].node
  <2>1. g = <<>> <=> m = 1
    <3>1. g = <<>> <=> Len(g) = 0
      BY <1>1, EmptySeq
    <3> QED
      BY <1>1, <3>1
  <2>2. CASE m = 1
    BY <1>1, <1>2, <1>3, <2>1, <2>2
  <2>3. CASE m # 1
    <3>1. m - 1 \in 1..(m - 1) /\ Len(g) = m - 1
      BY <1>1, <2>3
    <3>2. g[Len(g)] = f[m - 1]
      BY <1>1, <3>1
    <3> QED
      BY <1>1, <1>2, <1>3, <2>1, <2>3, <3>2
  <2> QED
    BY <2>2, <2>3
<1>6. IsFiniteSet(DOMAIN t) /\ DOMAIN t \subseteq PathNodes
  BY DEF TreeOf
<1> QED
  BY <1>1, <1>4, <1>5, <1>6 DEF TreeOf

(* What leaving a stage counts. *)
LEMMA LeaveCounts ==
  ASSUME NEW t, NEW f, NEW was, NEW tick, NEW at, NEW u, NEW g,
         TreeOf(t, f, was), LeavesAt(t, f, tick, at, u, g), NEW other
  PROVE  /\ Entered(u, g, other) = Entered(t, f, other)
         /\ TopEntered(u, g, other) = TopEntered(t, f, other)
         /\ TopOf(u, other).total
              = TopOf(t, other).total
                  + (IF Len(f) = 1 /\ TopOpen(f, other) THEN tick - f[1].start ELSE 0)
         /\ TopOpen(g, other) <=> Len(f) # 1 /\ TopOpen(f, other)
         /\ Len(f) # 1 => g # <<>> /\ g[1] = f[1]
         /\ Len(f) = 1 => g = <<>>
<1> DEFINE m == Len(f)
           z == f[m].node
           S == NodesOf(t, other)
           O == OpenOf(f, other)
<1>1. /\ m \in Nat \ {0} /\ m \in 1..m
      /\ z \in DOMAIN t /\ Len(z) = m /\ z # RootNode
      /\ f[m].start \in Nat /\ tick \in Nat
      /\ DOMAIN u = DOMAIN t
      /\ \A n \in DOMAIN t : n # z => u[n] = t[n]
      /\ u[z].count = t[z].count + 1 /\ u[z].total = t[z].total + (tick - f[m].start)
      /\ g \in Seq(Frames) /\ Len(g) = m - 1 /\ \A i \in 1..(m - 1) : g[i] = f[i]
  BY LeaveFields
<1>2. /\ IsFiniteSet(S) /\ \A n \in S : t[n].count \in Int
  BY TreeFields
<1>3. /\ IsFiniteSet(O) /\ Cardinality(O) \in Nat /\ Counts(t, S) \in Int
      /\ TopOf(t, other).count \in Int /\ TopOf(t, other).total \in Int
  BY TreeFields
<1>4. g = <<>> <=> m = 1
  <2>1. g = <<>> <=> Len(g) = 0
    BY <1>1, EmptySeq
  <2> QED
    BY <1>1, <2>1
<1>5. Counts(u, NodesOf(u, other)) = Counts(t, S) + (IF StageOf(z) = other THEN 1 ELSE 0)
  <2>1. NodesOf(u, other) = S
    BY <1>1 DEF NodesOf
  <2>2. z \in S <=> StageOf(z) = other
    BY <1>1 DEF NodesOf
  <2>3. \A n \in S \ {z} : u[n].count = t[n].count
    BY <1>1 DEF NodesOf
  <2> HIDE DEF S, z, m
  <2>4. CASE z \in S
    <3>1. Counts(u, S) = Counts(t, S) + 1
      BY <1>1, <1>2, <2>3, <2>4, CountsOneMore
    <3> QED
      BY <2>1, <2>2, <2>4, <3>1
  <2>5. CASE z \notin S
    <3>1. \A n \in S : u[n].count = t[n].count
      BY <2>3, <2>5
    <3>2. Counts(u, S) = Counts(t, S)
      BY <1>2, <3>1, CountsSame
    <3> QED
      BY <1>3, <2>1, <2>2, <2>5, <3>2
  <2> QED
    BY <2>4, <2>5
<1>6. Cardinality(OpenOf(g, other)) = Cardinality(O) - (IF StageOf(z) = other THEN 1 ELSE 0)
  <2>1. OpenOf(g, other) = O \ {m}
    <3>1. O = {i \in 1..m : StageOf(f[i].node) = other}
      BY DEF OpenOf
    <3> HIDE DEF m, z, O
    <3>2. OpenOf(g, other) = {i \in 1..(m - 1) : StageOf(g[i].node) = other}
      BY <1>1 DEF OpenOf
    <3>3. \A i : i \in 1..(m - 1) <=> i \in 1..m /\ i # m
      BY <1>1
    <3> QED
      BY <1>1, <3>1, <3>2, <3>3
  <2>2. m \in O <=> StageOf(z) = other
    BY <1>1 DEF OpenOf
  <2> HIDE DEF O, m, z
  <2>3. Cardinality(O \ {m}) = Cardinality(O) - (IF m \in O THEN 1 ELSE 0)
    <3>1. IsFiniteSet(O) /\ Cardinality(O) \in Nat
      BY <1>3
    <3>2. Cardinality(O \ {m}) = IF m \in O THEN Cardinality(O) - 1 ELSE Cardinality(O)
      BY <3>1, FS_RemoveElement
    <3> QED
      BY <3>1, <3>2
  <2> QED
    BY <2>1, <2>2, <2>3
<1>7. Entered(u, g, other) = Entered(t, f, other)
  <2>1. Entered(t, f, other) = Counts(t, S) + Cardinality(O)
    BY DEF Entered
  <2>2. Entered(u, g, other) = Counts(u, NodesOf(u, other)) + Cardinality(OpenOf(g, other))
    BY DEF Entered
  <2> HIDE DEF S, O, m, z
  <2> QED
    BY <1>3, <1>5, <1>6, <2>1, <2>2
<1>8. TopOpen(f, other) /\ m = 1 <=> z = TopNode(other)
  <2>1. Len(TopNode(other)) = 1
    BY DEF TopNode
  <2>2. f # <<>>
    BY DEF LeavesAt
  <2> QED
    BY <1>1, <2>1, <2>2 DEF TopOpen
<1>9. (m # 1 => g # <<>> /\ g[1] = f[1]) /\ (m = 1 => g = <<>>)
  <2>1. m # 1 => 1 \in 1..(m - 1)
    BY <1>1
  <2> HIDE DEF m, z
  <2> QED
    BY <1>1, <1>4, <2>1
<1>10. TopOpen(g, other) <=> m # 1 /\ TopOpen(f, other)
  <2>1. f # <<>>
    BY DEF LeavesAt
  <2> QED
    BY <1>9, <2>1 DEF TopOpen
<1>11. CASE z = TopNode(other)
  <2>1. TopOf(u, other) = u[z] /\ TopOf(t, other) = t[z] /\ m = 1 /\ TopOpen(f, other)
    BY <1>1, <1>8, <1>11 DEF TopOf
  <2>2. TopEntered(u, g, other) = TopEntered(t, f, other)
    <3>1. ~TopOpen(g, other)
      BY <1>10, <2>1
    <3> QED
      BY <1>1, <1>3, <2>1, <3>1 DEF TopEntered
  <2> QED
    BY <1>1, <1>7, <1>9, <1>10, <2>1, <2>2
<1>12. CASE z # TopNode(other)
  <2>1. TopOf(u, other) = TopOf(t, other)
    BY <1>1, <1>12 DEF TopOf
  <2>2. ~(m = 1 /\ TopOpen(f, other))
    BY <1>8, <1>12
  <2>3. TopOpen(g, other) <=> TopOpen(f, other)
    BY <1>10, <2>2
  <2>4. TopEntered(u, g, other) = TopEntered(t, f, other)
    BY <1>3, <2>1, <2>3 DEF TopEntered
  <2> QED
    BY <1>3, <1>7, <1>9, <1>10, <2>1, <2>2, <2>4
<1> QED
  BY <1>11, <1>12

(* The first calls of a save and of a restore.                             *)
LEMMA CheckpointStarts ==
  /\ Save[1].call = "on_checkpoint_save_start"
  /\ Restore[1].call = "on_checkpoint_load_start"
<1>1. ASSUME NEW name \in {"on_checkpoint_save_start", "on_checkpoint_load_start"},
             NEW last \in {"on_checkpoint_save_end", "on_checkpoint_load_end"},
             NEW place \in Places
      PROVE  (Call(name) \o Work(place) \o Call(last))[1].call = name
  <2> DEFINE c == CallOf(name, -1)
             w == Work(place)
             z == <<CallOf(last, -1)>>
             a == <<c>>
             t == a \o w
  <2>1. name \in OtherCalls /\ last \in OtherCalls /\ -1 \in Int
    BY DEF OtherCalls
  <2>2. /\ c \in Calls /\ c.call = name /\ Call(name) = a
        /\ z \in Seq(Calls) /\ Call(last) = z
    BY <2>1, CallsOf
  <2>3. w \in Seq(Calls)
    BY WorkIsOps DEF AllOps
  <2>4. a \in Seq(Calls) /\ Len(a) = 1 /\ a[1] = c
    BY <2>2
  <2> HIDE DEF a, c, w, z
  <2>5. /\ t \in Seq(Calls) /\ Len(t) = 1 + Len(w) /\ Len(w) \in Nat
        /\ \A k \in 1..1 : t[k] = a[k]
    BY <2>3, <2>4, RiseOfJoin
  <2> HIDE DEF t
  <2>6. \A k \in 1..Len(t) : (t \o z)[k] = t[k]
    BY <2>2, <2>5, RiseOfJoin
  <2>7. 1 \in 1..Len(t) /\ 1 \in 1..1
    BY <2>5
  <2>8. (t \o z)[1] = c
    BY <2>4, <2>5, <2>6, <2>7
  <2> QED
    BY <2>2, <2>8 DEF t, w
<1>2. "save" \in Places /\ "restore" \in Places
  BY DEF Places
<1> QED
  BY <1>1, <1>2 DEF Save, Restore

(* The running program *)
LEMMA ProgramRises ==
  ASSUME run \in RunRecords, part \in Parts
  PROVE  /\ part = "batch" =>
              /\ Staged(Program, BatchCall, Ups(StepStartsAt(batch_idx)) - Ups(StepEndsAt(batch_idx)),
                        Ups(StepStartsAt(batch_idx)))
              /\ Once(Program, BatchCall) /\ Once(Program, ForwardCall)
         /\ part = "evaluate" =>
              /\ Climbs(Program, 0, 0)
              /\ Once(Program, ForwardCall) /\ Lacks(Program, "on_batch_start")
              /\ \A k \in 1..Len(Program) :
                   Program[k].call \in Enters =>
                     (Rise(Program, k - 1) = 0 <=> Program[k].call = "on_forward_start")
         /\ part \in {"save", "restore"} =>
              /\ Len(Program) >= 2 /\ Rise(Program, Len(Program)) = 0
              /\ \A k \in 1..(Len(Program) - 1) : Rise(Program, k) = 1
              /\ \A name \in Counted : Lacks(Program, name)
              /\ Program[1].call \in {"on_checkpoint_save_start", "on_checkpoint_load_start"}
         /\ part \in {"ready", "epoch_end", "stop"} => Program = <<>>
<1>1. run.device \in Devices
  BY RunFacts
<1>2. ASSUME part = "batch"
      PROVE  /\ Staged(Program, BatchCall, Ups(StepStartsAt(batch_idx)) - Ups(StepEndsAt(batch_idx)),
                       Ups(StepStartsAt(batch_idx)))
             /\ Once(Program, BatchCall) /\ Once(Program, ForwardCall)
  <2> DEFINE f == StepStartsAt(batch_idx)
             l == StepEndsAt(batch_idx)
             m == run.per_step > 1
  <2>1. f \in BOOLEAN /\ l \in BOOLEAN /\ m \in BOOLEAN
    BY DEF StepStartsAt, StepEndsAt
  <2> HIDE DEF f, l, m
  <2>2. BatchProgram[[device |-> run.device, first |-> f, last |-> l, summed |-> m]]
          = TrainBatch(run.device, f, l, m)
    BY <1>1, <2>1 DEF BatchProgram, BatchKinds
  <2>3. Program = BatchProgram[[device |-> run.device, first |-> f, last |-> l, summed |-> m]]
    BY <1>2 DEF Program, BatchKind, f, l, m
  <2>4. LET s == TrainBatch(run.device, f, l, m)
        IN  /\ Staged(s, BatchCall, Ups(f) - Ups(l), Ups(f))
            /\ Once(s, BatchCall) /\ Once(s, ForwardCall)
    BY <1>1, <2>1, BatchStaged
  <2> HIDE DEF Program
  <2>5. /\ Staged(Program, BatchCall, Ups(f) - Ups(l), Ups(f))
        /\ Once(Program, BatchCall) /\ Once(Program, ForwardCall)
    BY <2>2, <2>3, <2>4
  <2> QED
    BY <2>5 DEF f, l
<1>3. ASSUME part = "evaluate"
      PROVE  /\ Climbs(Program, 0, 0)
             /\ Once(Program, ForwardCall) /\ Lacks(Program, "on_batch_start")
             /\ \A k \in 1..Len(Program) :
                  Program[k].call \in Enters =>
                    (Rise(Program, k - 1) = 0 <=> Program[k].call = "on_forward_start")
  <2>1. Program = Evaluate(run.device)
    BY <1>1, <1>3 DEF Program, EvaluateProgram
  <2> HIDE DEF Program
  <2> QED
    BY <1>1, <2>1, EvaluationClimbs
<1>4. ASSUME part \in {"save", "restore"}
      PROVE  /\ Len(Program) >= 2 /\ Rise(Program, Len(Program)) = 0
             /\ \A k \in 1..(Len(Program) - 1) : Rise(Program, k) = 1
             /\ \A name \in Counted : Lacks(Program, name)
             /\ Program[1].call \in {"on_checkpoint_save_start", "on_checkpoint_load_start"}
  <2>1. Program \in {Save, Restore}
    BY <1>4 DEF Program, SaveProgram, RestoreProgram
  <2> HIDE DEF Program
  <2> QED
    BY <2>1, CheckpointClimbs, CheckpointStarts
<1>5. part \in {"ready", "epoch_end", "stop"} => Program = <<>>
  BY DEF Program
<1> QED
  BY <1>2, <1>3, <1>4, <1>5

(* Where the trainer stands when no stage is open. *)
LEMMA LevelFacts ==
  ASSUME run \in RunRecords, part \in Parts, NEW p \in Nat \ {0}, p <= Len(Program) + 1
  PROVE  /\ LevelAt(p) \in Int /\ Len(Program) \in Nat
         /\ part = "batch" =>
              /\ LevelAt(p) = 0 <=>
                   (p = 1 /\ StepStartsAt(batch_idx))
                     \/ (p = Len(Program) + 1 /\ StepEndsAt(batch_idx))
              /\ p = Len(Program) + 1 => LevelAt(p) = IF StepEndsAt(batch_idx) THEN 0 ELSE 1
              /\ Len(Program) >= 2 /\ Program[1] = BatchCall
         /\ part = "evaluate" =>
              /\ p <= Len(Program) /\ Program[p].call \in Enters =>
                   (LevelAt(p) = 0 <=> Program[p].call = "on_forward_start")
              /\ p = Len(Program) + 1 => LevelAt(p) = 0
         /\ part \in {"save", "restore"} =>
              LevelAt(p) = IF p = 1 \/ p = Len(Program) + 1 THEN 0 ELSE 1
         /\ part \in {"ready", "epoch_end", "stop"} => p > Len(Program) /\ LevelAt(p) = 0
<1> DEFINE n == Len(Program)
           r == Rise(Program, p - 1)
           f == StepStartsAt(batch_idx)
           l == StepEndsAt(batch_idx)
<1>1. n \in Nat /\ p \in Nat \ {0} /\ p <= n + 1 /\ p - 1 \in Nat
  BY ProgramShape
<1>2. r \in Int /\ Rise(Program, 0) = 0
  BY <1>1, RiseSteps
<1>3. LevelAt(p) = BaseLevel + r /\ BaseLevel \in {0, 1}
  BY DEF LevelAt, BaseLevel
<1>4. p = 1 => r = 0
  <2>1. p = 1 => p - 1 = 0
    OBVIOUS
  <2> QED
    BY <1>2, <2>1
<1>5. p = n + 1 => r = Rise(Program, n)
  <2>1. p = n + 1 => p - 1 = n
    BY <1>1
  <2> QED
    BY <2>1
<1>6. p # 1 /\ p # n + 1 => p - 1 \in 1..(n - 1)
  BY <1>1
<1>7. ASSUME part = "batch"
      PROVE  /\ LevelAt(p) = 0 <=> (p = 1 /\ f) \/ (p = n + 1 /\ l)
             /\ p = n + 1 => LevelAt(p) = IF l THEN 0 ELSE 1
             /\ n >= 2 /\ Program[1] = BatchCall
  <2>1. Staged(Program, BatchCall, Ups(f) - Ups(l), Ups(f))
    BY <1>7, ProgramRises
  <2>2. /\ n >= 2 /\ Program[1] = BatchCall /\ Rise(Program, n) = Ups(f) - Ups(l)
        /\ \A k \in 1..(n - 1) : Rise(Program, k) >= Ups(f)
    BY <2>1 DEF Staged
  <2>3. BaseLevel = IF f THEN 0 ELSE 1
    BY <1>7 DEF BaseLevel
  <2> DEFINE a == Ups(f)
             z == Ups(l)
  <2>4. a = (IF f THEN 1 ELSE 0) /\ z = (IF l THEN 1 ELSE 0)
    BY DEF Ups
  <2>5. n >= 2 /\ Program[1] = BatchCall
    BY <2>2
  <2>6. /\ p = n + 1 => r = a - z
        /\ p # 1 /\ p # n + 1 => r >= a
    BY <1>5, <1>6, <2>2
  <2>7. f \in BOOLEAN /\ l \in BOOLEAN
    BY DEF StepStartsAt, StepEndsAt
  <2> HIDE DEF n, r, f, l, a, z
  <2>8. LevelAt(p) = 0 <=> (p = 1 /\ f) \/ (p = n + 1 /\ l)
    <3>1. CASE p = 1
      BY <1>1, <1>3, <1>4, <2>3, <2>5, <3>1
    <3>2. CASE p = n + 1
      BY <1>1, <1>3, <2>3, <2>4, <2>5, <2>6, <3>2
    <3>3. CASE p # 1 /\ p # n + 1
      BY <1>2, <1>3, <2>3, <2>4, <2>6, <3>3
    <3> QED
      BY <3>1, <3>2, <3>3
  <2>9. p = n + 1 => LevelAt(p) = IF l THEN 0 ELSE 1
    BY <1>3, <2>3, <2>4, <2>6
  <2> QED
    BY <2>5, <2>8, <2>9
<1>8. ASSUME part = "evaluate"
      PROVE  /\ p <= n /\ Program[p].call \in Enters =>
                  (LevelAt(p) = 0 <=> Program[p].call = "on_forward_start")
             /\ p = n + 1 => LevelAt(p) = 0
  <2>1. /\ Climbs(Program, 0, 0)
        /\ \A k \in 1..n :
             Program[k].call \in Enters =>
               (Rise(Program, k - 1) = 0 <=> Program[k].call = "on_forward_start")
    BY <1>8, ProgramRises
  <2>2. Rise(Program, n) = 0
    BY <2>1 DEF Climbs
  <2>3. BaseLevel = 0
    BY <1>8 DEF BaseLevel
  <2>4. p <= n => p \in 1..n
    BY <1>1
  <2> HIDE DEF n
  <2> QED
    BY <1>2, <1>3, <1>5, <2>1, <2>2, <2>3, <2>4
<1>9. ASSUME part \in {"save", "restore"}
      PROVE  LevelAt(p) = IF p = 1 \/ p = n + 1 THEN 0 ELSE 1
  <2>1. /\ Rise(Program, n) = 0
        /\ \A k \in 1..(n - 1) : Rise(Program, k) = 1
    BY <1>9, ProgramRises
  <2>2. BaseLevel = 0
    BY <1>9 DEF BaseLevel
  <2>3. p # 1 /\ p # n + 1 => r = 1
    BY <1>6, <2>1
  <2> HIDE DEF n, r
  <2> QED
    BY <1>2, <1>3, <1>4, <1>5, <2>1, <2>2, <2>3
<1>10. ASSUME part \in {"ready", "epoch_end", "stop"}
       PROVE  p > n /\ LevelAt(p) = 0
  <2>1. n = 0
    <3>1. Program = <<>>
      BY <1>10, ProgramRises
    <3> QED
      BY <3>1
  <2>2. BaseLevel = 0
    BY <1>10 DEF BaseLevel
  <2>3. p = 1
    BY <1>1, <2>1
  <2> QED
    BY <1>1, <1>3, <1>4, <2>1, <2>2, <2>3
<1>11. LevelAt(p) \in Int
  <2> HIDE DEF r
  <2> QED
    BY <1>2, <1>3
<1> QED
  BY <1>1, <1>7, <1>8, <1>9, <1>10, <1>11

(* One call further. *)
LEMMA LevelSteps ==
  ASSUME run \in RunRecords, part \in Parts, pc \in Nat \ {0}, pc <= Len(Program),
         UNCHANGED <<run, part, batch_idx>>, pc' = pc + 1
  PROVE  Level' = Level + Sign(CurrentCall) /\ pc' <= Len(Program)' + 1 /\ Level \in Int
<1>1. /\ Program' = Program /\ BaseLevel' = BaseLevel
      /\ BaseLevel \in {0, 1} /\ Len(Program) \in Nat
  BY SameProgram, ProgramShape DEF BaseLevel
<1> DEFINE s == Program
           k == pc - 1
<1>2. k \in Nat /\ k + 1 = pc /\ pc' - 1 = k + 1
  OBVIOUS
<1>3. Level = BaseLevel + Rise(s, k)
  BY DEF Level, LevelAt
<1>4. Level' = BaseLevel + Rise(s, k + 1)
  BY <1>1, <1>2 DEF Level, LevelAt
<1>5. CurrentCall = s[k + 1]
  BY <1>2 DEF CurrentCall
<1>6. Sign(CurrentCall) \in {0, 1, -1}
  BY DEF Sign
<1>7. pc' <= Len(Program)' + 1
  BY <1>1
<1> HIDE DEF s, k
<1>8. Rise(s, k) \in Int /\ Rise(s, k + 1) = Rise(s, k) + Sign(s[k + 1])
  BY <1>2, RiseSteps
<1>9. Rise(s, k + 1) = Rise(s, k) + Sign(CurrentCall)
  BY <1>5, <1>8
<1> HIDE DEF CurrentCall
<1> QED
  BY <1>1, <1>3, <1>4, <1>6, <1>7, <1>8, <1>9

(* What has been called. *)
Tallied == Counted \cup {"on_train_step_start"}

(* A call that is made once is new when it is made.                        *)
LEMMA CalledOnce ==
  ASSUME NEW c, Once(Program, c), pc \in 1..Len(Program), Program[pc].call = c.call
  PROVE  Called(c.call) = 0 /\ Program[pc] = c
<1>1. PICK q \in 1..Len(Program) :
        Program[q] = c /\ \A k \in 1..Len(Program) : Program[k].call = c.call => k = q
  BY DEF Once
<1>2. q = pc
  BY <1>1
<1>3. \A k \in 1..(pc - 1) : Program[k].call # c.call
  <2> TAKE k \in 1..(pc - 1)
  <2>1. k \in 1..Len(Program) /\ k # pc
    OBVIOUS
  <2> QED
    BY <1>1, <1>2, <2>1
<1> QED
  BY <1>1, <1>2, <1>3 DEF Called

(* Each tallied call is new when it is made, and made in its own parts.    *)
LEMMA CallOnce ==
  ASSUME run \in RunRecords, part \in Parts, pc \in Nat \ {0}, pc <= Len(Program),
         NEW name \in Tallied, CurrentCall.call = name
  PROVE  /\ Called(name) = 0
         /\ name \in Counted => CurrentCall.layer = -1
         /\ name # "on_forward_start" => part = "batch"
         /\ name = "on_forward_start" => part \in {"batch", "evaluate"}
<1>1. pc \in 1..Len(Program) /\ Program[pc].call = name /\ Program[pc] = CurrentCall
  BY ProgramShape DEF CurrentCall
<1>2. /\ BatchCall.call = "on_batch_start" /\ ForwardCall.call = "on_forward_start"
      /\ BatchCall.layer = -1 /\ ForwardCall.layer = -1
  BY CallNames DEF BatchCall, ForwardCall, CallOf
<1>3. part \in {"batch", "evaluate", "save", "restore"}
  <2>1. part \in {"ready", "epoch_end", "stop"} => Len(Program) = 0
    BY ProgramRises
  <2> QED
    BY <1>1, <2>1 DEF Parts
<1>4. CASE name = "on_train_step_start"
  <2>1. part = "batch"
    BY <1>1, <1>4, ProgramShape DEF StepCalls
  <2>2. TellsOfStep(Program, StepStartsAt(batch_idx), StepEndsAt(batch_idx),
                    StartPlace(run.device))
    BY <2>1, ProgramShape
  <2>3. \A k \in 1..Len(Program) : Program[k].call = "on_train_step_start" => k = pc
    BY <1>1, <1>4, <2>2 DEF TellsOfStep
  <2>4. \A k \in 1..(pc - 1) : k \in 1..Len(Program) /\ k # pc
    BY <1>1
  <2>5. Called(name) = 0
    BY <1>4, <2>3, <2>4 DEF Called
  <2> QED
    BY <1>4, <2>1, <2>5 DEF Counted
<1>5. CASE name = "on_batch_start"
  <2>1. part = "batch"
    <3>1. part \in {"evaluate", "save", "restore"} => Lacks(Program, "on_batch_start")
      BY ProgramRises DEF Counted
    <3> QED
      BY <1>1, <1>3, <1>5, <3>1 DEF Lacks
  <2>2. Once(Program, BatchCall)
    BY <2>1, ProgramRises
  <2> QED
    BY <1>1, <1>2, <1>5, <2>1, <2>2, CalledOnce
<1>6. CASE name = "on_forward_start"
  <2>1. part \in {"batch", "evaluate"}
    <3>1. part \in {"save", "restore"} => Lacks(Program, "on_forward_start")
      BY ProgramRises DEF Counted
    <3> QED
      BY <1>1, <1>3, <1>6, <3>1 DEF Lacks
  <2>2. Once(Program, ForwardCall)
    BY <2>1, ProgramRises
  <2> QED
    BY <1>1, <1>2, <1>6, <2>1, <2>2, CalledOnce
<1> QED
  BY <1>4, <1>5, <1>6 DEF Tallied, Counted

(* One call further.                                                       *)
LEMMA CalledSteps ==
  ASSUME run \in RunRecords, part \in Parts, pc \in Nat \ {0}, pc <= Len(Program),
         UNCHANGED <<run, part, batch_idx>>, pc' = pc + 1, NEW name \in Tallied
  PROVE  /\ Called(name)' = Called(name) + (IF CurrentCall.call = name THEN 1 ELSE 0)
         /\ Called(name) \in {0, 1}
<1>1. Program' = Program /\ Called(name) \in {0, 1}
  BY SameProgram DEF Called
<1>2. \A k : k \in 1..(pc' - 1) <=> k \in 1..(pc - 1) \/ k = pc
  OBVIOUS
<1>3. Called(name)' = IF \E k \in 1..(pc' - 1) : Program[k].call = name THEN 1 ELSE 0
  BY <1>1 DEF Called
<1>4. CASE CurrentCall.call = name
  <2>1. Called(name) = 0
    BY <1>4, CallOnce
  <2>2. Called(name)' = 1
    BY <1>2, <1>3, <1>4 DEF CurrentCall
  <2> QED
    BY <1>4, <2>1, <2>2
<1>5. CASE CurrentCall.call # name
  <2>1. Called(name)' = Called(name)
    BY <1>2, <1>3, <1>5 DEF CurrentCall, Called
  <2> QED
    BY <1>1, <1>5, <2>1
<1> QED
  BY <1>1, <1>4, <1>5

(* What a part has called when it is done. *)
LEMMA CalledAtEnd ==
  ASSUME run \in RunRecords, part \in Parts, pc = Len(Program) + 1
  PROVE  /\ Called("on_batch_start") = IF part = "batch" THEN 1 ELSE 0
         /\ Called("on_forward_start") = IF part \in {"batch", "evaluate"} THEN 1 ELSE 0
         /\ Called("on_train_step_start")
              = IF part = "batch" /\ StepStartsAt(batch_idx) THEN 1 ELSE 0
<1> DEFINE n == Len(Program)
<1>1. n \in Nat /\ pc - 1 = n
  BY ProgramShape
<1>2. \A name : Called(name) = IF \E k \in 1..n : Program[k].call = name THEN 1 ELSE 0
  BY <1>1 DEF Called
<1>3. ASSUME NEW c, Once(Program, c)
      PROVE  \E k \in 1..n : Program[k].call = c.call
  BY <1>3 DEF Once
<1>4. ASSUME NEW name, Lacks(Program, name)
      PROVE  Called(name) = 0
  BY <1>2, <1>4 DEF Lacks
<1>5. BatchCall.call = "on_batch_start" /\ ForwardCall.call = "on_forward_start"
  BY CallNames
<1>6. CASE part = "batch"
  <2>1. Once(Program, BatchCall) /\ Once(Program, ForwardCall)
    BY <1>6, ProgramRises
  <2>2. Called("on_batch_start") = 1 /\ Called("on_forward_start") = 1
    BY <1>2, <1>3, <1>5, <2>1
  <2>3. /\ TellsOfStep(Program, StepStartsAt(batch_idx), StepEndsAt(batch_idx),
                       StartPlace(run.device))
        /\ StartPlace(run.device) \in Nat \ {0}
    BY <1>6, ProgramShape
  <2>4. StartPlace(run.device) \in 1..n
    <3>1. StartPlace(run.device) < n - 1
      BY <2>3 DEF TellsOfStep
    <3> HIDE DEF n
    <3> QED
      BY <1>1, <2>3, <3>1
  <2>5. (\E k \in 1..n : Program[k].call = "on_train_step_start") <=> StepStartsAt(batch_idx)
    BY <2>3, <2>4 DEF TellsOfStep
  <2> QED
    BY <1>2, <1>6, <2>2, <2>5
<1>7. CASE part # "batch"
  <2>1. Called("on_train_step_start") = 0
    <3>1. Lacks(Program, "on_train_step_start")
      BY <1>7, ProgramShape DEF Lacks, StepCalls
    <3> QED
      BY <1>4, <3>1
  <2>2. Called("on_batch_start") = 0
    <3>1. part \in {"evaluate", "save", "restore"} => Lacks(Program, "on_batch_start")
      BY ProgramRises DEF Counted
    <3>2. part \in {"ready", "epoch_end", "stop"} => Lacks(Program, "on_batch_start")
      BY ProgramRises DEF Lacks
    <3> QED
      BY <1>4, <1>7, <3>1, <3>2 DEF Parts
  <2>3. Called("on_forward_start") = IF part = "evaluate" THEN 1 ELSE 0
    <3>1. CASE part = "evaluate"
      <4>1. Once(Program, ForwardCall)
        BY <3>1, ProgramRises
      <4> QED
        BY <1>2, <1>3, <1>5, <3>1, <4>1
    <3>2. CASE part # "evaluate"
      <4>1. part \in {"save", "restore"} => Lacks(Program, "on_forward_start")
        BY ProgramRises DEF Counted
      <4>2. part \in {"ready", "epoch_end", "stop"} => Lacks(Program, "on_forward_start")
        BY ProgramRises DEF Lacks
      <4> QED
        BY <1>4, <1>7, <3>2, <4>1, <4>2 DEF Parts
    <3> QED
      BY <3>1, <3>2
  <2> QED
    BY <1>7, <2>1, <2>2, <2>3
<1> QED
  BY <1>6, <1>7

(* A part that begins has called nothing.                                  *)
LEMMA CalledAtStart ==
  ASSUME pc = 1, NEW name
  PROVE  Called(name) = 0
<1>1. 1..(pc - 1) = {}
  OBVIOUS
<1> QED
  BY <1>1 DEF Called

(* The stage that the running call enters.                                 *)
EnteredStage == <<StageEnteredBy[CurrentCall.call], CurrentCall.layer>>

(* The facts about a call that is observed.                                *)
LEMMA ObserveCall ==
  ASSUME ProfileInv, Observe
  PROVE  /\ run \in RunRecords /\ part \in Parts /\ pc \in Nat \ {0} /\ pc <= Len(Program)
         /\ UNCHANGED <<run, part, epoch, batch_idx>> /\ pc' = pc + 1 /\ now \in Nat
         /\ CurrentCall \in Calls /\ CurrentCall.call # "op" /\ CurrentCall.layer \in Int
         /\ Len(Program) \in Nat /\ Program[pc] = CurrentCall
<1>1. now \in Nat /\ CurrentCall.call # "op"
  BY DEF ProfileInv, ProfileTypeInv, Observe
<1>2. /\ run \in RunRecords /\ part \in Parts /\ pc \in Nat \ {0} /\ pc <= Len(Program)
      /\ UNCHANGED <<run, part, epoch, batch_idx>> /\ pc' = pc + 1
  BY ObserveFacts
<1>3. CurrentCall \in Calls /\ Len(Program) \in Nat
  BY <1>2, CallPlaces, ProgramShape
<1>4. CurrentCall.layer \in Int
  BY <1>3 DEF Calls, CallRecords
<1> QED
  BY <1>1, <1>2, <1>3, <1>4 DEF CurrentCall

(* A call enters a stage or leaves one. *)
LEMMA ObserveEnters ==
  ASSUME ProfileInv, Observe, CurrentCall.call \in Enters
  PROVE  EntersAt(tree, active_frames, current, EnteredStage, now, current', tree', active_frames')
<1> DEFINE name == StageEnteredBy[CurrentCall.call]
           l == CurrentCall.layer
<1>1. name \in StageNames /\ l \in Int /\ now \in Nat
  BY ObserveCall DEF StageNames
<1>2. Enter(name, l, now)
  <2>1. /\ CurrentCall.call \in DOMAIN StageEnteredBy
        /\ IF CurrentCall.call \in DOMAIN StageEnteredBy
           THEN Enter(StageEnteredBy[CurrentCall.call], CurrentCall.layer, now)
           ELSE Leave(now)
    BY DEF Observe, Enters
  <2> QED
    BY <2>1
<1>3. EnteredStage = <<name, l>>
  BY DEF EnteredStage
<1> HIDE DEF name, l
<1>4. /\ current' = Append(current, <<name, l>>)
      /\ tree' = [n \in DOMAIN tree \cup {current'} |->
                    IF n \in DOMAIN tree THEN tree[n] ELSE NewNode]
      /\ active_frames' = Append(active_frames, [node |-> current', start |-> now])
  BY <1>2 DEF Enter, GetChild
<1> QED
  BY <1>1, <1>3, <1>4 DEF EntersAt

LEMMA ObserveLeaves ==
  ASSUME ProfileInv, TreeInv, Observe, CurrentCall.call \notin Enters
  PROVE  /\ LeavesAt(tree, active_frames, now, current', tree', active_frames')
         /\ active_frames # <<>>
<1>1. Leave(now)
  BY DEF Observe, Enters
<1>2. now \in Nat
  BY ObserveCall
<1>3. Last(active_frames) = active_frames[Len(active_frames)]
  BY DEF Last
<1> QED
  BY <1>1, <1>2, <1>3 DEF Leave, LeavesAt

(* No stage is open.                                                       *)
LEMMA FramesEmpty ==
  ASSUME TreeInv
  PROVE  Len(active_frames) \in Nat /\ (active_frames = <<>> <=> Len(active_frames) = 0)
<1>1. active_frames \in Seq(Frames)
  BY DEF TreeInv, TreeOf
<1> QED
  BY <1>1, EmptySeq

(* The stages that are entered at the top. *)
LEMMA TopEntries ==
  ASSUME ProfileInv, TreeInv, DepthInv, Observe, CurrentCall.call \in Enters
  PROVE  /\ active_frames = <<>> /\ EnteredStage = <<"BATCH_STEP", -1>>
              <=> part = "batch" /\ StepStartsAt(batch_idx) /\ CurrentCall.call = "on_batch_start"
         /\ active_frames = <<>> /\ EnteredStage = <<"FORWARD", -1>>
              <=> part = "evaluate" /\ CurrentCall.call = "on_forward_start"
         /\ ~(active_frames = <<>> /\ EnteredStage = <<"BACKWARD", -1>>)
         /\ EnteredStage[1] = "BATCH_STEP" <=> CurrentCall.call = "on_batch_start"
         /\ EnteredStage[1] = "FORWARD" <=> CurrentCall.call = "on_forward_start"
         /\ part = "batch" /\ active_frames = <<>>
              => StepStartsAt(batch_idx) /\ CurrentCall.call = "on_batch_start"
<1> DEFINE c == CurrentCall.call
           f == StepStartsAt(batch_idx)
<1>1. /\ run \in RunRecords /\ part \in Parts /\ pc \in Nat \ {0} /\ pc <= Len(Program)
      /\ Len(Program) \in Nat /\ Program[pc] = CurrentCall /\ pc <= Len(Program) + 1
  BY ObserveCall
<1>2. active_frames = <<>> <=> LevelAt(pc) = 0
  BY FramesEmpty DEF DepthInv, Level
<1>3. /\ StageEnteredBy[c] = "BATCH_STEP" <=> c = "on_batch_start"
      /\ StageEnteredBy[c] = "FORWARD" <=> c = "on_forward_start"
      /\ StageEnteredBy[c] = "BACKWARD" <=> c = "on_backward_start"
  BY EnterNames DEF StageEnteredBy
<1>4. EnteredStage = <<StageEnteredBy[c], CurrentCall.layer>>
      /\ EnteredStage[1] = StageEnteredBy[c]
  BY DEF EnteredStage
<1>5. c \in Counted => CurrentCall.layer = -1 /\ Called(c) = 0
  BY <1>1, CallOnce DEF Tallied
<1>6. c = "on_batch_start" => part = "batch"
  BY <1>1, CallOnce DEF Tallied, Counted
<1>7. c = "on_forward_start" => part \in {"batch", "evaluate"}
  BY <1>1, CallOnce DEF Tallied, Counted
<1>8. /\ BatchCall.call = "on_batch_start" /\ BatchCall.layer = -1
  BY CallNames DEF BatchCall, CallOf
<1>9. ASSUME part = "batch"
      PROVE  /\ active_frames = <<>> <=> f /\ c = "on_batch_start"
             /\ active_frames = <<>> => CurrentCall.layer = -1
  <2>1. active_frames = <<>> <=> pc = 1 /\ f
    BY <1>1, <1>2, <1>9, LevelFacts
  <2>2. Program[1] = BatchCall
    BY <1>1, <1>9, LevelFacts
  <2>3. pc = 1 => c = "on_batch_start" /\ CurrentCall.layer = -1
    BY <1>1, <1>8, <2>2
  <2>4. c = "on_batch_start" => pc = 1
    <3>1. SUFFICES ASSUME c = "on_batch_start", pc # 1 PROVE FALSE
      OBVIOUS
    <3>2. 1 \in 1..(pc - 1)
      BY <1>1, <3>1
    <3>3. Called("on_batch_start") = 1
      BY <1>8, <2>2, <3>2 DEF Called
    <3>4. Called("on_batch_start") = 0
      BY <1>5, <3>1 DEF Counted
    <3> QED
      BY <3>3, <3>4
  <2> QED
    BY <2>1, <2>3, <2>4
<1>10. part = "evaluate" => (active_frames = <<>> <=> c = "on_forward_start")
  BY <1>1, <1>2, LevelFacts
<1>11. part \in {"save", "restore"} /\ active_frames = <<>>
          => c \notin {"on_batch_start", "on_forward_start", "on_backward_start"}
  <2>1. part \in {"save", "restore"} /\ active_frames = <<>> => pc = 1
    BY <1>1, <1>2, LevelFacts
  <2>2. part \in {"save", "restore"} =>
          Program[1].call \in {"on_checkpoint_save_start", "on_checkpoint_load_start"}
    BY <1>1, ProgramRises
  <2> QED
    BY <1>1, <2>1, <2>2
<1>12. part \in {"batch", "evaluate", "save", "restore"}
  BY <1>1, LevelFacts DEF Parts
<1> HIDE DEF c, f, EnteredStage
<1>13. CASE c = "on_batch_start"
  <2>1. EnteredStage = <<"BATCH_STEP", -1>> /\ EnteredStage[1] = "BATCH_STEP" /\ part = "batch"
    BY <1>3, <1>4, <1>5, <1>6, <1>13 DEF Counted
  <2>2. \A x, y : <<"BATCH_STEP", -1>> # <<"FORWARD", x>> /\ <<"BATCH_STEP", -1>> # <<"BACKWARD", y>>
    OBVIOUS
  <2> QED
    BY <1>9, <1>13, <2>1, <2>2 DEF c, f
<1>14. CASE c = "on_forward_start"
  <2>1. EnteredStage = <<"FORWARD", -1>> /\ EnteredStage[1] = "FORWARD" /\ part \in {"batch", "evaluate"}
    BY <1>3, <1>4, <1>5, <1>7, <1>14 DEF Counted
  <2>2. \A x, y : <<"FORWARD", -1>> # <<"BATCH_STEP", x>> /\ <<"FORWARD", -1>> # <<"BACKWARD", y>>
    OBVIOUS
  <2> QED
    BY <1>9, <1>10, <1>14, <2>1, <2>2 DEF c, f
<1>15. CASE c \notin {"on_batch_start", "on_forward_start"}
  <2>1. EnteredStage[1] # "BATCH_STEP" /\ EnteredStage[1] # "FORWARD"
    BY <1>3, <1>4, <1>15
  <2>2. EnteredStage # <<"BATCH_STEP", -1>> /\ EnteredStage # <<"FORWARD", -1>>
    BY <2>1
  <2>3. EnteredStage[1] = "BACKWARD" => active_frames # <<>>
    BY <1>3, <1>4, <1>9, <1>10, <1>11, <1>12, <1>15
  <2>4. ~(active_frames = <<>> /\ EnteredStage = <<"BACKWARD", -1>>)
    BY <2>3
  <2>5. part = "batch" => active_frames # <<>>
    BY <1>9, <1>15
  <2> QED
    BY <1>15, <2>1, <2>2, <2>4, <2>5 DEF c, f
<1> QED
  BY <1>13, <1>14, <1>15

(* The end of a top-level stage. *)
LEMMA TopLeaves ==
  ASSUME ProfileInv, TreeInv, DepthInv, Observe, CurrentCall.call \notin Enters, part = "batch"
  PROVE  Len(active_frames) = 1
           <=> CurrentCall.call = "on_batch_end" /\ StepEndsAt(batch_idx)
<1>1. /\ run \in RunRecords /\ part \in Parts /\ pc \in Nat \ {0} /\ pc <= Len(Program)
      /\ Len(Program) \in Nat /\ CurrentCall.call # "op"
      /\ UNCHANGED <<run, part, batch_idx>> /\ pc' = pc + 1
  BY ObserveCall
<1>2. Level' = Level + Sign(CurrentCall) /\ Level \in Int /\ Sign(CurrentCall) = -1
  BY <1>1, LevelSteps DEF Sign
<1>3. Level' = LevelAt(pc + 1)
  <2>1. Program' = Program /\ BaseLevel' = BaseLevel
    BY <1>1, SameProgram DEF BaseLevel
  <2> QED
    BY <1>1, <2>1 DEF Level, LevelAt
<1>4. pc + 1 \in Nat \ {0} /\ pc + 1 <= Len(Program) + 1 /\ pc + 1 # 1
      /\ (pc + 1 = Len(Program) + 1 <=> pc = Len(Program))
  BY <1>1
<1>5. LevelAt(pc + 1) = 0 <=> pc = Len(Program) /\ StepEndsAt(batch_idx)
  <2> DEFINE p == pc + 1
  <2>1. LevelAt(p) = 0 <=> (p = 1 /\ StepStartsAt(batch_idx))
                             \/ (p = Len(Program) + 1 /\ StepEndsAt(batch_idx))
    BY <1>1, <1>4, LevelFacts
  <2> QED
    BY <1>4, <2>1
<1>6. CurrentCall.call = "on_batch_end" <=> pc = Len(Program)
  BY <1>1, CallPlaces
<1>7. Len(active_frames) = Level
  BY DEF DepthInv
<1> QED
  BY <1>2, <1>3, <1>5, <1>6, <1>7

(* A call keeps the tree well-formed and the number of open stages true.   *)
LEMMA ObserveLevels ==
  ASSUME ProfileInv, TreeInv, DepthInv, Observe
  PROVE  TreeInv' /\ DepthInv'
<1>1. /\ run \in RunRecords /\ part \in Parts /\ pc \in Nat \ {0} /\ pc <= Len(Program)
      /\ UNCHANGED <<run, part, batch_idx>> /\ pc' = pc + 1 /\ CurrentCall.call # "op"
  BY ObserveCall
<1>2. /\ Level' = Level + Sign(CurrentCall) /\ pc' <= Len(Program)' + 1 /\ Level \in Int
      /\ Len(active_frames) = Level
  BY <1>1, LevelSteps DEF DepthInv
<1>3. TreeOf(tree, active_frames, current)
  BY DEF TreeInv
<1>4. CASE CurrentCall.call \in Enters
  <2>1. EntersAt(tree, active_frames, current, EnteredStage, now, current', tree', active_frames')
    BY <1>4, ObserveEnters
  <2>2. TreeOf(tree', active_frames', current') /\ Len(active_frames') = Len(active_frames) + 1
    BY <1>3, <2>1, EnterKeepsTree
  <2>3. Sign(CurrentCall) = 1
    BY <1>1, <1>4 DEF Sign
  <2> QED
    BY <1>2, <2>2, <2>3 DEF TreeInv, DepthInv
<1>5. CASE CurrentCall.call \notin Enters
  <2>1. LeavesAt(tree, active_frames, now, current', tree', active_frames')
    BY <1>5, ObserveLeaves
  <2>2. TreeOf(tree', active_frames', current')
    BY <1>3, <2>1, LeaveKeepsTree
  <2>3. Len(active_frames') = Len(active_frames) - 1
    BY <1>3, <2>1, LeaveFields
  <2>4. Sign(CurrentCall) = -1
    BY <1>1, <1>5 DEF Sign
  <2> QED
    BY <1>2, <2>2, <2>3, <2>4 DEF TreeInv, DepthInv
<1> QED
  BY <1>4, <1>5

(* The counts are integers.                                                *)
LEMMA CountTypes ==
  ASSUME TreeInv
  PROVE  \A stage : /\ Entered(tree, active_frames, stage) \in Int
                    /\ TopEntered(tree, active_frames, stage) \in Int
                    /\ TopOf(tree, stage).total \in Int
<1> TAKE stage
<1>1. /\ Cardinality(OpenOf(active_frames, stage)) \in Nat
      /\ Counts(tree, NodesOf(tree, stage)) \in Int
      /\ TopOf(tree, stage).count \in Int /\ TopOf(tree, stage).total \in Int
  BY TreeFields DEF TreeInv
<1> QED
  BY <1>1 DEF Entered, TopEntered

(* What a call counts. *)
LEMMA ObserveCounts ==
  ASSUME ProfileInv, TreeInv, DepthInv, Observe
  PROVE  /\ Entered(tree, active_frames, "BATCH_STEP")'
              = Entered(tree, active_frames, "BATCH_STEP")
                  + (IF CurrentCall.call = "on_batch_start" THEN 1 ELSE 0)
         /\ Entered(tree, active_frames, "FORWARD")'
              = Entered(tree, active_frames, "FORWARD")
                  + (IF CurrentCall.call = "on_forward_start" THEN 1 ELSE 0)
         /\ TopEntered(tree, active_frames, "FORWARD")'
              = TopEntered(tree, active_frames, "FORWARD")
                  + (IF part = "evaluate" /\ CurrentCall.call = "on_forward_start" THEN 1 ELSE 0)
         /\ TopEntered(tree, active_frames, "BACKWARD")'
              = TopEntered(tree, active_frames, "BACKWARD")
         /\ TopEntered(tree, active_frames, "BATCH_STEP")'
              = TopEntered(tree, active_frames, "BATCH_STEP")
                  + (IF /\ part = "batch" /\ StepStartsAt(batch_idx)
                        /\ CurrentCall.call = "on_batch_start" THEN 1 ELSE 0)
<1>1. TreeOf(tree, active_frames, current)
  BY DEF TreeInv
<1> DEFINE Total(stage) == Entered(tree, active_frames, stage)
           Top1(stage) == TopEntered(tree, active_frames, stage)
<1>2. \A stage : Total(stage) \in Int /\ Top1(stage) \in Int
  BY CountTypes
<1>3. \A stage : /\ Total(stage)' = Entered(tree', active_frames', stage)
                 /\ Top1(stage)' = TopEntered(tree', active_frames', stage)
  BY DEF Entered, TopEntered, Counts, NodesOf, OpenOf, StageOf, TopOf, TopOpen
<1>4. CASE CurrentCall.call \in Enters
  <2>1. EntersAt(tree, active_frames, current, EnteredStage, now, current', tree', active_frames')
    BY <1>4, ObserveEnters
  <2>2. \A stage :
          /\ Entered(tree', active_frames', stage)
               = Total(stage) + (IF EnteredStage[1] = stage THEN 1 ELSE 0)
          /\ TopEntered(tree', active_frames', stage)
               = Top1(stage) + (IF active_frames = <<>> /\ EnteredStage = <<stage, -1>>
                                THEN 1 ELSE 0)
    BY <1>1, <2>1, EnterCounts
  <2>3. /\ active_frames = <<>> /\ EnteredStage = <<"BATCH_STEP", -1>>
             <=> part = "batch" /\ StepStartsAt(batch_idx) /\ CurrentCall.call = "on_batch_start"
        /\ active_frames = <<>> /\ EnteredStage = <<"FORWARD", -1>>
             <=> part = "evaluate" /\ CurrentCall.call = "on_forward_start"
        /\ ~(active_frames = <<>> /\ EnteredStage = <<"BACKWARD", -1>>)
        /\ EnteredStage[1] = "BATCH_STEP" <=> CurrentCall.call = "on_batch_start"
        /\ EnteredStage[1] = "FORWARD" <=> CurrentCall.call = "on_forward_start"
    BY <1>4, TopEntries
  <2> HIDE DEF Total, Top1
  <2>4. Total("BATCH_STEP")'
          = Total("BATCH_STEP") + (IF CurrentCall.call = "on_batch_start" THEN 1 ELSE 0)
    BY <1>3, <2>2, <2>3
  <2>5. Total("FORWARD")'
          = Total("FORWARD") + (IF CurrentCall.call = "on_forward_start" THEN 1 ELSE 0)
    BY <1>3, <2>2, <2>3
  <2>6. Top1("FORWARD")'
          = Top1("FORWARD")
              + (IF part = "evaluate" /\ CurrentCall.call = "on_forward_start" THEN 1 ELSE 0)
    BY <1>3, <2>2, <2>3
  <2>7. Top1("BACKWARD")' = Top1("BACKWARD")
    BY <1>2, <1>3, <2>2, <2>3
  <2>8. Top1("BATCH_STEP")'
          = Top1("BATCH_STEP")
              + (IF /\ part = "batch" /\ StepStartsAt(batch_idx)
                    /\ CurrentCall.call = "on_batch_start" THEN 1 ELSE 0)
    BY <1>3, <2>2, <2>3
  <2> QED
    BY <2>4, <2>5, <2>6, <2>7, <2>8 DEF Total, Top1
<1>5. CASE CurrentCall.call \notin Enters
  <2>1. LeavesAt(tree, active_frames, now, current', tree', active_frames')
    BY <1>5, ObserveLeaves
  <2>2. \A stage : /\ Entered(tree', active_frames', stage) = Total(stage)
                   /\ TopEntered(tree', active_frames', stage) = Top1(stage)
    BY <1>1, <2>1, LeaveCounts
  <2>3. CurrentCall.call # "on_batch_start" /\ CurrentCall.call # "on_forward_start"
    BY <1>5, EnterNames
  <2> HIDE DEF Total, Top1
  <2>4. \A stage : Total(stage)' = Total(stage) + 0 /\ Top1(stage)' = Top1(stage) + 0
                   /\ Top1(stage)' = Top1(stage)
    BY <1>2, <1>3, <2>2
  <2> QED
    BY <2>3, <2>4 DEF Total, Top1
<1> QED
  BY <1>4, <1>5

(* A call keeps the counts true ...                                        *)
LEMMA ObserveKeepsCount ==
  ASSUME ProfileInv, TreeInv, DepthInv, CountInv, Observe
  PROVE  CountInv'
<1>1. /\ run \in RunRecords /\ part \in Parts /\ pc \in Nat \ {0} /\ pc <= Len(Program)
      /\ UNCHANGED <<run, part, epoch, batch_idx>> /\ pc' = pc + 1
  BY ObserveCall
<1>2. SUFFICES ASSUME part \notin {"restore", "ready"}
               PROVE  /\ Entered(tree, active_frames, "BATCH_STEP")'
                           = BatchesBefore' + Called("on_batch_start")'
                      /\ Entered(tree, active_frames, "FORWARD")'
                           = BatchesBefore' + EvaluationsBefore' + Called("on_forward_start")'
                      /\ TopEntered(tree, active_frames, "FORWARD")'
                           = EvaluationsBefore'
                               + (IF part' = "evaluate" THEN Called("on_forward_start")' ELSE 0)
                      /\ TopEntered(tree, active_frames, "BACKWARD")' = 0
                      /\ TopEntered(tree, active_frames, "BATCH_STEP")'
                           + Called("on_train_step_start")'
                           = Len(steps') + (IF part' = "batch" /\ StepStartsAt(batch_idx)'
                                            THEN Called("on_batch_start")' ELSE 0)
  BY <1>1 DEF CountInv
<1> DEFINE a == Entered(tree, active_frames, "BATCH_STEP")
           b == Entered(tree, active_frames, "FORWARD")
           c == TopEntered(tree, active_frames, "FORWARD")
           d == TopEntered(tree, active_frames, "BATCH_STEP")
           x == Called("on_batch_start")
           y == Called("on_forward_start")
           z == Called("on_train_step_start")
           f == StepStartsAt(batch_idx)
<1>3. /\ a \in Int /\ b \in Int /\ c \in Int /\ d \in Int
  BY CountTypes
<1>4. /\ BatchesBefore' = BatchesBefore /\ EvaluationsBefore' = EvaluationsBefore
      /\ f' = f
  BY <1>1 DEF BatchesBefore, EvaluationsBefore, CompletedBatches, StepStartsAt
<1>5. BatchesBefore \in Int /\ EvaluationsBefore \in Int
  <2>1. epoch \in Nat /\ batch_idx \in Nat /\ run.batches \in Nat /\ run.held_out \in Nat
    BY RunFacts DEF ProfileInv, ProfileTypeInv
  <2> DEFINE m == run.batches
  <2> HIDE DEF m
  <2>2. epoch * m \in Nat /\ (epoch + 1) * m \in Nat
    BY <2>1 DEF m
  <2>3. HeldOutBatches(run, epoch) \in Nat /\ HeldOutBatches(run, epoch + 1) \in Nat
    BY <2>1, HeldOutGrows DEF ProfileInv, ProfileTypeInv
  <2> QED
    BY <2>1, <2>2, <2>3 DEF BatchesBefore, EvaluationsBefore, CompletedBatches, m
<1>6. /\ x' = x + (IF CurrentCall.call = "on_batch_start" THEN 1 ELSE 0) /\ x \in {0, 1}
      /\ y' = y + (IF CurrentCall.call = "on_forward_start" THEN 1 ELSE 0) /\ y \in {0, 1}
      /\ z' = z + (IF CurrentCall.call = "on_train_step_start" THEN 1 ELSE 0) /\ z \in {0, 1}
  BY <1>1, CalledSteps DEF Tallied, Counted
<1>7. Len(steps') = Len(steps) + (IF CurrentCall.call = "on_train_step_start" THEN 1 ELSE 0)
      /\ Len(steps) \in Nat
  <2>1. CASE CurrentCall.call = "on_train_step_start"
    BY <2>1, BeganSteps
  <2>2. CASE CurrentCall.call = "on_train_step_end"
    <3>1. steps' = [steps EXCEPT ![Len(steps)].to = Len(ran), ![Len(steps)].ended = TRUE]
      BY <2>2, StepFinishes
    <3>2. Len(steps') = Len(steps) /\ Len(steps) \in Nat
      BY <2>2, EndedSteps
    <3> QED
      BY <2>2, <3>2
  <2>3. CASE CurrentCall.call \notin {"on_train_step_start", "on_train_step_end"}
    <3>1. steps' = steps /\ steps \in Seq(StepRecords)
      BY <2>3, OtherCallsObserved DEF ProfileInv, ProfileTypeInv
    <3> QED
      BY <2>3, <3>1
  <2> QED
    BY <2>1, <2>2, <2>3
<1>8. /\ a = BatchesBefore + x
      /\ b = BatchesBefore + EvaluationsBefore + y
      /\ c = EvaluationsBefore + (IF part = "evaluate" THEN y ELSE 0)
      /\ TopEntered(tree, active_frames, "BACKWARD") = 0
      /\ d + z = Len(steps) + (IF part = "batch" /\ f THEN x ELSE 0)
  BY <1>2 DEF CountInv
<1>9. /\ a' = a + (IF CurrentCall.call = "on_batch_start" THEN 1 ELSE 0)
      /\ b' = b + (IF CurrentCall.call = "on_forward_start" THEN 1 ELSE 0)
      /\ c' = c + (IF part = "evaluate" /\ CurrentCall.call = "on_forward_start" THEN 1 ELSE 0)
      /\ TopEntered(tree, active_frames, "BACKWARD")' = TopEntered(tree, active_frames, "BACKWARD")
      /\ d' = d + (IF part = "batch" /\ f /\ CurrentCall.call = "on_batch_start" THEN 1 ELSE 0)
  BY ObserveCounts
<1> HIDE DEF a, b, c, d, x, y, z, f, CurrentCall
<1>10. a' = BatchesBefore' + x'
  BY <1>3, <1>4, <1>5, <1>6, <1>8, <1>9
<1>11. b' = BatchesBefore' + EvaluationsBefore' + y'
  BY <1>3, <1>4, <1>5, <1>6, <1>8, <1>9
<1>12. c' = EvaluationsBefore' + (IF part' = "evaluate" THEN y' ELSE 0)
  BY <1>1, <1>3, <1>4, <1>5, <1>6, <1>8, <1>9
<1>13. d' + z' = Len(steps') + (IF part' = "batch" /\ f' THEN x' ELSE 0)
  <2> DEFINE s == IF CurrentCall.call = "on_train_step_start" THEN 1 ELSE 0
             e == IF CurrentCall.call = "on_batch_start" THEN 1 ELSE 0
  <2>1. /\ s \in {0, 1} /\ e \in {0, 1} /\ z' = z + s /\ x' = x + e /\ Len(steps') = Len(steps) + s
        /\ part' = part /\ d' = d + (IF part = "batch" /\ f THEN e ELSE 0)
    BY <1>1, <1>6, <1>7, <1>9
  <2>2. /\ d + z = Len(steps) + (IF part = "batch" /\ f THEN x ELSE 0)
        /\ d \in Int /\ z \in Int /\ x \in Int /\ Len(steps) \in Int
    BY <1>3, <1>6, <1>7, <1>8
  <2>3. f' = f
    BY <1>4
  <2> HIDE DEF s, e
  <2>4. CASE part = "batch" /\ f
    <3>1. d + z = Len(steps) + x /\ d' = d + e
      BY <2>1, <2>2, <2>4
    <3>2. d' + z' = Len(steps') + x'
      BY <2>1, <2>2, <3>1
    <3> QED
      BY <2>1, <2>3, <2>4, <3>2
  <2>5. CASE ~(part = "batch" /\ f)
    <3>1. d + z = Len(steps) /\ d' = d
      BY <2>1, <2>2, <2>5
    <3>2. d' + z' = Len(steps')
      BY <2>1, <2>2, <3>1
    <3>3. Len(steps') \in Int
      BY <2>1, <2>2
    <3> QED
      BY <2>1, <2>3, <2>5, <3>2, <3>3
  <2> QED
    BY <2>4, <2>5
<1> QED
  BY <1>8, <1>9, <1>10, <1>11, <1>12, <1>13 DEF a, b, c, d, x, y, z, f

(* ... and the time of the batches.                                        *)
LEMMA ObserveKeepsTime ==
  ASSUME ProfileInv, TreeInv, DepthInv, BatchTimeInv, Observe
  PROVE  BatchTimeInv'
<1> DEFINE k == CurrentCall.call
           f == StepStartsAt(batch_idx)
           l == StepEndsAt(batch_idx)
           top == TopOf(tree, "BATCH_STEP").total
           open == TopOpen(active_frames, "BATCH_STEP")
<1>1. /\ run \in RunRecords /\ part \in Parts /\ pc \in Nat \ {0} /\ pc <= Len(Program)
      /\ UNCHANGED <<run, part, epoch, batch_idx>> /\ pc' = pc + 1 /\ now \in Nat
  BY ObserveCall
<1>2. /\ k = "on_batch_start" => part = "batch"
      /\ k = "on_batch_end" => part = "batch"
  BY <1>1, CallOnce, CallPlaces DEF Tallied, Counted, StepCalls
<1>3. batch_time' =
        CASE k = "on_batch_start" /\ f -> [batch_time EXCEPT !.start = now]
          [] k = "on_batch_end" /\ l ->
               [batch_time EXCEPT !.total = @ + (now - batch_time.start)]
          [] OTHER -> batch_time
  BY DEF Observe, Remember
<1>4. /\ batch_time \in [start : Nat, total : Int]
      /\ part \in {"restore", "ready"} => batch_time.total = 0
      /\ part \notin {"restore", "ready"} =>
           /\ top = batch_time.total
           /\ open => part = "batch" /\ active_frames[1].start = batch_time.start
           /\ part = "batch" /\ active_frames # <<>> => open
  BY DEF BatchTimeInv
<1>5. /\ k = "on_batch_start" /\ f => batch_time'.start = now /\ batch_time'.total = batch_time.total
      /\ k = "on_batch_end" /\ l => /\ batch_time'.start = batch_time.start
                                    /\ batch_time'.total = batch_time.total + (now - batch_time.start)
      /\ ~(k = "on_batch_start" /\ f) /\ ~(k = "on_batch_end" /\ l) => batch_time' = batch_time
      /\ batch_time' \in [start : Nat, total : Int]
  <2> HIDE DEF k, f, l
  <2>1. CASE k = "on_batch_start" /\ f
    BY <1>1, <1>3, <1>4, <2>1
  <2>2. CASE k = "on_batch_end" /\ l
    <3>1. batch_time' = [batch_time EXCEPT !.total = @ + (now - batch_time.start)]
      BY <1>3, <2>2
    <3>2. batch_time.total + (now - batch_time.start) \in Int
      BY <1>1, <1>4
    <3> QED
      BY <1>4, <2>2, <3>1, <3>2
  <2>3. CASE ~(k = "on_batch_start" /\ f) /\ ~(k = "on_batch_end" /\ l)
    <3>1. batch_time' = batch_time
      BY <1>3, <2>3
    <3> QED
      BY <1>4, <2>3, <3>1
  <2> QED
    BY <2>1, <2>2, <2>3
<1>6. CASE part \in {"restore", "ready"}
  <2>1. batch_time'.total = 0
    BY <1>2, <1>4, <1>5, <1>6
  <2> QED
    BY <1>1, <1>5, <1>6, <2>1 DEF BatchTimeInv
<1>7. CASE part \notin {"restore", "ready"}
  <2>1. SUFFICES /\ TopOf(tree', "BATCH_STEP").total = batch_time'.total
                 /\ TopOpen(active_frames', "BATCH_STEP") =>
                      part = "batch" /\ active_frames'[1].start = batch_time'.start
                 /\ part = "batch" /\ active_frames' # <<>> => TopOpen(active_frames', "BATCH_STEP")
    <3>1. TopOf(tree, "BATCH_STEP")' = TopOf(tree', "BATCH_STEP")
          /\ (TopOpen(active_frames, "BATCH_STEP")' <=> TopOpen(active_frames', "BATCH_STEP"))
      BY DEF TopOf, TopOpen
    <3> QED
      BY <1>1, <1>5, <1>7, <3>1 DEF BatchTimeInv
  <2>2. TreeOf(tree, active_frames, current) /\ top \in Int
    BY CountTypes DEF TreeInv
  <2>3. CASE k \in Enters
    <3>1. EntersAt(tree, active_frames, current, EnteredStage, now, current', tree', active_frames')
      BY <2>3, ObserveEnters
    <3>2. /\ TopOf(tree', "BATCH_STEP").total = top
          /\ TopOpen(active_frames', "BATCH_STEP")
               <=> IF active_frames = <<>> THEN EnteredStage = <<"BATCH_STEP", -1>> ELSE open
      BY <2>2, <3>1, EnterCounts
    <3>3. /\ \A i \in 1..Len(active_frames) : active_frames'[i] = active_frames[i]
          /\ active_frames'[Len(active_frames) + 1].start = now
      BY <2>2, <3>1, EnterKeepsTree
    <3>4. /\ Len(active_frames) \in Nat /\ (active_frames = <<>> <=> Len(active_frames) = 0)
      BY FramesEmpty
    <3>5. /\ active_frames = <<>> /\ EnteredStage = <<"BATCH_STEP", -1>>
               <=> part = "batch" /\ f /\ k = "on_batch_start"
          /\ part = "batch" /\ active_frames = <<>> => f /\ k = "on_batch_start"
      BY <2>3, TopEntries
    <3>6. k # "on_batch_end"
      BY <2>3, EnterNames
    <3>7. /\ active_frames = <<>> => active_frames'[1].start = now
          /\ active_frames # <<>> => active_frames'[1] = active_frames[1]
      BY <3>3, <3>4
    <3> HIDE DEF k, f, l, top, open
    <3>8. CASE k = "on_batch_start" /\ f
      BY <1>2, <1>4, <1>5, <1>7, <3>2, <3>5, <3>7, <3>8
    <3>9. CASE ~(k = "on_batch_start" /\ f)
      <4>1. batch_time' = batch_time
        BY <1>5, <3>6, <3>9
      <4>2. CASE active_frames = <<>>
        BY <1>4, <1>7, <3>2, <3>5, <3>9, <4>1, <4>2
      <4>3. CASE active_frames # <<>>
        BY <1>4, <1>7, <3>2, <3>7, <4>1, <4>3
      <4> QED
        BY <4>2, <4>3
    <3> QED
      BY <3>8, <3>9
  <2>4. CASE k \notin Enters
    <3>1. LeavesAt(tree, active_frames, now, current', tree', active_frames')
          /\ active_frames # <<>>
      BY <2>4, ObserveLeaves
    <3>2. /\ TopOf(tree', "BATCH_STEP").total
               = top + (IF Len(active_frames) = 1 /\ open THEN now - active_frames[1].start ELSE 0)
          /\ TopOpen(active_frames', "BATCH_STEP") <=> Len(active_frames) # 1 /\ open
          /\ Len(active_frames) # 1 => active_frames' # <<>> /\ active_frames'[1] = active_frames[1]
          /\ Len(active_frames) = 1 => active_frames' = <<>>
      BY <2>2, <3>1, LeaveCounts
    <3>3. k # "on_batch_start"
      BY <2>4, EnterNames
    <3>4. part = "batch" => (Len(active_frames) = 1 <=> k = "on_batch_end" /\ l)
      BY <2>4, TopLeaves
    <3> HIDE DEF k, f, l, top, open
    <3>5. CASE part = "batch" /\ Len(active_frames) = 1
      BY <1>4, <1>5, <1>7, <3>1, <3>2, <3>3, <3>4, <3>5
    <3>6. CASE part = "batch" /\ Len(active_frames) # 1
      <4>1. batch_time' = batch_time
        BY <1>5, <3>3, <3>4, <3>6
      <4> QED
        BY <1>4, <1>7, <2>2, <3>1, <3>2, <3>6, <4>1
    <3>7. CASE part # "batch"
      <4>1. batch_time' = batch_time
        BY <1>2, <1>5, <3>3, <3>7
      <4> QED
        BY <1>4, <1>7, <2>2, <3>2, <3>7, <4>1
    <3> QED
      BY <3>5, <3>6, <3>7
  <2> QED
    BY <2>3, <2>4
<1> QED
  BY <1>6, <1>7

(* What the stages and the counts are made of. *)
LEMMA SameStages ==
  ASSUME StageInv, UNCHANGED <<tree, active_frames, current, run, part, epoch, batch_idx, steps,
                               batch_time>>,
         Level' = Level, pc' <= Len(Program) + 1, \A name \in Tallied : Called(name)' = Called(name)
  PROVE  StageInv'
<1>1. TreeInv' /\ BatchTimeInv'
  <2>1. UNCHANGED <<tree, active_frames, current, batch_time, part>>
    OBVIOUS
  <2>2. TreeInv'
    BY <2>1 DEF StageInv, TreeInv, TreeOf, OpenPath
  <2>3. BatchTimeInv'
    BY <2>1 DEF StageInv, BatchTimeInv, TopOf, TopOpen
  <2> QED
    BY <2>2, <2>3
<1>2. DepthInv'
  <2>1. Program' = Program
    BY SameProgram
  <2> QED
    BY <2>1 DEF StageInv, DepthInv
<1>3. CountInv'
  <2>1. /\ Called("on_batch_start")' = Called("on_batch_start")
        /\ Called("on_forward_start")' = Called("on_forward_start")
        /\ Called("on_train_step_start")' = Called("on_train_step_start")
    BY DEF Tallied, Counted
  <2>2. /\ BatchesBefore' = BatchesBefore /\ EvaluationsBefore' = EvaluationsBefore
        /\ StepStartsAt(batch_idx)' = StepStartsAt(batch_idx) /\ part' = part /\ steps' = steps
    BY DEF BatchesBefore, EvaluationsBefore, CompletedBatches, StepStartsAt
  <2>3. \A stage : /\ Entered(tree, active_frames, stage)' = Entered(tree, active_frames, stage)
                   /\ TopEntered(tree, active_frames, stage)' = TopEntered(tree, active_frames, stage)
    BY DEF Entered, TopEntered, Counts, NodesOf, OpenOf, StageOf, TopOf, TopOpen
  <2> QED
    BY <2>1, <2>2, <2>3 DEF StageInv, CountInv
<1> QED
  BY <1>1, <1>2, <1>3 DEF StageInv

(* Steps that make no call.                                                *)
LEMMA RestKeeps ==
  ASSUME ProfileInv, StageInv, BeginOp \/ EndTraining \/ Over \/ UNCHANGED vars
  PROVE  StageInv'
<1>1. UNCHANGED <<tree, active_frames, current, run, part, pc, epoch, batch_idx, steps, batch_time>>
  BY DEF BeginOp, EndTraining, Over, vars, stages, trainer, history
<1>2. Program' = Program
  BY <1>1, SameProgram
<1>3. Level' = Level
  BY <1>1, <1>2 DEF Level, LevelAt, BaseLevel, StepStartsAt
<1>4. \A name \in Tallied : Called(name)' = Called(name)
  BY <1>1, <1>2 DEF Called
<1>5. pc' <= Len(Program) + 1
  BY <1>1 DEF StageInv, DepthInv
<1> QED
  BY <1>1, <1>3, <1>4, <1>5, SameStages

(* The end of an operation moves to the next call.                         *)
LEMMA ReturnKeeps ==
  ASSUME ProfileInv, StageInv, Return
  PROVE  StageInv'
<1>1. /\ UNCHANGED <<tree, active_frames, current, run, part, epoch, batch_idx, steps, batch_time>>
      /\ pc' = pc + 1 /\ running # NoOp
  BY DEF Return, EndOp, stages
<1>2. /\ run \in RunRecords /\ part \in Parts /\ pc \in Nat \ {0} /\ pc <= Len(Program)
      /\ CurrentCall.call = "op" /\ UNCHANGED <<run, part, batch_idx>>
  BY <1>1 DEF ProfileInv, ProfileTypeInv, RunningInv
<1>3. Level' = Level + Sign(CurrentCall) /\ pc' <= Len(Program)' + 1 /\ Level \in Int
  BY <1>1, <1>2, LevelSteps
<1>4. Sign(CurrentCall) = 0
  BY <1>2 DEF Sign
<1>5. Program' = Program
  BY <1>2, SameProgram
<1>6. \A name \in Tallied : Called(name)' = Called(name)
  <2> TAKE name \in Tallied
  <2>1. /\ Called(name)' = Called(name) + (IF CurrentCall.call = name THEN 1 ELSE 0)
        /\ Called(name) \in {0, 1}
    BY <1>1, <1>2, CalledSteps
  <2>2. CurrentCall.call # name
    BY <1>2 DEF Tallied, Counted
  <2> QED
    BY <2>1, <2>2
<1> QED
  BY <1>1, <1>3, <1>4, <1>5, <1>6, SameStages

(* A save that fails goes on with its last call. *)
LEMMA FailedSaveKeeps ==
  ASSUME ProfileInv, StageInv, OpThrows \/ WriteFails
  PROVE  StageInv'
<1>1. /\ UNCHANGED <<tree, active_frames, current, run, part, epoch, batch_idx, steps, batch_time>>
      /\ part = "save" /\ pc' = Len(Program)
  BY DEF OpThrows, WriteFails, EndOp, stages, history
<1>2. /\ run \in RunRecords /\ part \in Parts /\ pc \in Nat \ {0} /\ UNCHANGED <<run, part, batch_idx>>
  BY <1>1 DEF ProfileInv, ProfileTypeInv
<1>3. /\ Len(Program) >= 2 /\ Len(Program) \in Nat
      /\ \A name \in Counted : Lacks(Program, name)
      /\ Program[1].call \in {"on_checkpoint_save_start", "on_checkpoint_load_start"}
      /\ \A k \in 1..Len(Program) : Program[k].call \notin StepCalls
  BY <1>1, <1>2, ProgramRises, ProgramShape
<1>4. pc # 1 /\ pc <= Len(Program)
  <2>1. CASE OpThrows
    <3>1. pc <= Len(Program) /\ CurrentCall.call = "op"
      BY <2>1 DEF OpThrows, EndOp, ProfileInv, RunningInv
    <3>2. pc # 1
      BY <1>3, <3>1 DEF CurrentCall
    <3> QED
      BY <3>1, <3>2
  <2>2. CASE WriteFails
    BY <1>2, <1>3, <2>2 DEF WriteFails
  <2> QED
    BY <2>1, <2>2
<1>5. Program' = Program /\ BaseLevel' = BaseLevel
  BY <1>2, SameProgram DEF BaseLevel
<1>6. Level' = Level
  <2> DEFINE n == Len(Program)
  <2>1. n \in Nat \ {0} /\ n <= n + 1 /\ pc <= n + 1 /\ n # 1 /\ n # n + 1 /\ pc # n + 1
    BY <1>2, <1>3, <1>4
  <2>2. LevelAt(n) = 1
    BY <1>1, <1>2, <2>1, LevelFacts
  <2>3. LevelAt(pc) = 1
    BY <1>1, <1>2, <1>4, <2>1, LevelFacts
  <2>4. Level' = LevelAt(n)
    BY <1>1, <1>5 DEF Level, LevelAt
  <2> QED
    BY <2>2, <2>3, <2>4 DEF Level
<1>7. \A name \in Tallied : Called(name)' = Called(name)
  <2> TAKE name \in Tallied
  <2>1. \A k \in 1..Len(Program) : Program[k].call # name
    BY <1>3 DEF Tallied, Lacks, StepCalls
  <2>2. \A k \in 1..(pc - 1) : k \in 1..Len(Program)
    BY <1>2, <1>3, <1>4
  <2>3. \A k \in 1..(Len(Program) - 1) : k \in 1..Len(Program)
    BY <1>3
  <2>4. Called(name)' = 0
    BY <1>1, <1>5, <2>1, <2>3 DEF Called
  <2>5. Called(name) = 0
    BY <2>1, <2>2 DEF Called
  <2> QED
    BY <2>4, <2>5
<1>8. pc' <= Len(Program) + 1
  BY <1>1, <1>3
<1> QED
  BY <1>1, <1>6, <1>7, <1>8, SameStages

(* The empty tree *)
LEMMA EmptyTree ==
  ASSUME NEW t, NEW f, t = [node \in {RootNode} |-> NewNode], f = <<>>
  PROVE  /\ TreeOf(t, f, RootNode)
         /\ \A stage : /\ Entered(t, f, stage) = 0
                       /\ TopEntered(t, f, stage) = 0
                       /\ TopOf(t, stage).total = 0
                       /\ ~TopOpen(f, stage)
<1>1. DOMAIN t = {RootNode} /\ t[RootNode] = NewNode /\ Len(f) = 0
  OBVIOUS
<1>2. TreeOf(t, f, RootNode)
  <2>1. IsFiniteSet(DOMAIN t)
    BY <1>1, FS_Singleton
  <2>2. RootNode \in PathNodes
    BY DEF RootNode, PathNodes
  <2>3. NewNode \in NodeRecords
    BY DEF NewNode, NodeRecords
  <2>4. f \in Seq(Frames) /\ OpenPath(t, f)
    BY <1>1 DEF OpenPath
  <2>5. t = [node \in DOMAIN t |-> t[node]]
    BY <1>1
  <2> QED
    BY <1>1, <2>1, <2>2, <2>3, <2>4, <2>5 DEF TreeOf
<1>3. ASSUME NEW stage
      PROVE  /\ Entered(t, f, stage) = 0
             /\ TopEntered(t, f, stage) = 0
             /\ TopOf(t, stage).total = 0
             /\ ~TopOpen(f, stage)
  <2>1. NodesOf(t, stage) = {} /\ OpenOf(f, stage) = {}
    BY <1>1 DEF NodesOf, OpenOf
  <2>2. Counts(t, {}) = 0
    BY SumEmpty DEF Counts
  <2>3. Entered(t, f, stage) = 0
    BY <2>1, <2>2, FS_EmptySet DEF Entered
  <2>4. ~TopOpen(f, stage)
    BY DEF TopOpen
  <2>5. TopNode(stage) # RootNode
    BY DEF TopNode, RootNode
  <2>6. TopOf(t, stage) = NewNode
    BY <1>1, <2>5 DEF TopOf
  <2> QED
    BY <2>3, <2>4, <2>6 DEF TopEntered, NewNode
<1> QED
  BY <1>2, <1>3

(* It all holds of a run about to start.                                   *)
LEMMA StagesStart ==
  ASSUME Init
  PROVE  StageInv
<1>1. /\ tree = [node \in {RootNode} |-> NewNode] /\ active_frames = <<>> /\ current = RootNode
      /\ part \in {"restore", "ready"} /\ pc = 1 /\ batch_idx = 0 /\ run \in RunRecords
      /\ batch_time = [start |-> 0, total |-> 0]
  BY ProfileTypes DEF Init, ResetTree
<1>2. TreeInv
  BY <1>1, EmptyTree DEF TreeInv
<1>3. DepthInv
  <2>1. part \in Parts /\ 1 \in Nat \ {0} /\ Len(Program) \in Nat /\ 1 <= Len(Program) + 1
    BY <1>1, ProgramShape DEF Parts
  <2>2. LevelAt(1) = 0
    BY <1>1, <2>1, LevelFacts
  <2> QED
    BY <1>1, <2>1, <2>2 DEF DepthInv, Level
<1>4. BatchTimeInv
  BY <1>1 DEF BatchTimeInv
<1> QED
  BY <1>1, <1>2, <1>3, <1>4 DEF StageInv, CountInv

(* A part that begins. *)
LEMMA PartBegins ==
  ASSUME run \in RunRecords, run' = run, part' \in Parts, pc' = 1
  PROVE  /\ Len(Program') \in Nat
         /\ Level' = IF part' = "batch" /\ ~(batch_idx' % run.per_step = 0) THEN 1 ELSE 0
         /\ \A name : Called(name)' = 0
<1>1. run.device \in Devices
  BY RunFacts
<1>2. Len(Program') \in Nat
  <2>1. CASE part' = "batch"
    BY <2>1, BatchBegins
  <2>2. CASE part' # "batch"
    <3>1. <<>> \in Seq(PlainCalls)
      OBVIOUS
    <3>2. CASE part' = "evaluate"
      BY <1>1, <3>2, OtherPartsPlain DEF Program
    <3>3. CASE part' = "save"
      BY <3>3, OtherPartsPlain DEF Program
    <3>4. CASE part' = "restore"
      BY <3>4, OtherPartsPlain DEF Program
    <3>5. CASE part' \in {"ready", "epoch_end", "stop"}
      BY <3>1, <3>5 DEF Program
    <3> QED
      BY <2>2, <3>2, <3>3, <3>4, <3>5 DEF Parts
  <2> QED
    BY <2>1, <2>2
<1>3. Level' = IF part' = "batch" /\ ~(batch_idx' % run.per_step = 0) THEN 1 ELSE 0
  <2>1. Level' = BaseLevel' + Rise(Program', pc' - 1)
    BY DEF Level, LevelAt
  <2>2. pc' - 1 = 0 /\ 0 \in Nat
    OBVIOUS
  <2>3. Rise(Program', 0) = 0
    BY <2>2, RiseSteps
  <2>4. BaseLevel' = IF part' = "batch" /\ ~(batch_idx' % run.per_step = 0) THEN 1 ELSE 0
    BY DEF BaseLevel, StepStartsAt
  <2>5. BaseLevel' \in {0, 1}
    BY <2>4
  <2> HIDE DEF BaseLevel, Program
  <2>6. Level' = BaseLevel'
    BY <2>1, <2>2, <2>3, <2>5
  <2> QED
    BY <2>4, <2>6
<1>4. \A name : Called(name)' = 0
  <2>1. 1..(pc' - 1) = {}
    OBVIOUS
  <2> QED
    BY <2>1 DEF Called
<1> QED
  BY <1>2, <1>3, <1>4

(* Training starts with an empty tree.                                     *)
LEMMA StartKeepsStages ==
  ASSUME ProfileInv, StageInv, StartTraining
  PROVE  StageInv'
<1>1. /\ run \in RunRecords /\ run' = run /\ pc' = 1 /\ part' \in {"batch", "stop"}
      /\ part \in {"restore", "ready"}
      /\ tree' = [node \in {RootNode} |-> NewNode] /\ active_frames' = <<>> /\ current' = RootNode
      /\ UNCHANGED <<epoch, batch_idx, steps, batch_time>>
  BY DEF StartTraining, ProfileInv, ProfileTypeInv
<1>2. epoch = 0 /\ batch_idx = 0 /\ steps = <<>> /\ part' \in Parts
  BY <1>1 DEF ProfileInv, StartInv, Parts
<1>3. /\ run.per_step \in Nat \ {0} /\ run.batches \in Nat /\ run.held_out \in Nat
  BY <1>1, RunFacts
<1>4. 0 % run.per_step = 0
  BY <1>3
<1>5. /\ Len(Program') \in Nat /\ Level' = 0
      /\ \A name : Called(name)' = 0
  BY <1>1, <1>2, <1>4, PartBegins
<1>6. /\ TreeOf(tree', active_frames', current')
      /\ \A stage : /\ Entered(tree', active_frames', stage) = 0
                    /\ TopEntered(tree', active_frames', stage) = 0
                    /\ TopOf(tree', stage).total = 0
                    /\ ~TopOpen(active_frames', stage)
  BY <1>1, EmptyTree
<1>7. TreeInv'
  BY <1>6 DEF TreeInv
<1>8. DepthInv'
  BY <1>1, <1>5 DEF DepthInv
<1>9. BatchesBefore' = 0 /\ EvaluationsBefore' = 0 /\ Len(steps') = 0
  <2>1. 0 * run.batches = 0 /\ HeldOutBatches(run, 0) = 0
    <3>1. HeldOutBatches(run, 0) = 0
      BY <1>1, 0 \in Nat, HeldOutGrows
    <3> QED
      BY <1>3, <3>1
  <2>2. epoch' * run'.batches = 0 * run.batches /\ HeldOutBatches(run', epoch') = HeldOutBatches(run, 0)
    BY <1>1, <1>2
  <2> QED
    BY <1>1, <1>2, <2>1, <2>2 DEF BatchesBefore, EvaluationsBefore, CompletedBatches
<1>10. CountInv'
  <2>1. \A stage : /\ Entered(tree, active_frames, stage)' = 0
                   /\ TopEntered(tree, active_frames, stage)' = 0
    BY <1>6 DEF Entered, TopEntered, Counts, NodesOf, OpenOf, StageOf, TopOf, TopOpen
  <2> QED
    BY <1>5, <1>9, <2>1 DEF CountInv
<1>11. BatchTimeInv'
  <2>1. /\ TopOf(tree, "BATCH_STEP")'.total = 0 /\ ~TopOpen(active_frames, "BATCH_STEP")'
    BY <1>6 DEF TopOf, TopOpen
  <2>2. batch_time' \in [start : Nat, total : Int] /\ batch_time'.total = 0
    BY <1>1 DEF StageInv, BatchTimeInv
  <2> QED
    BY <1>1, <2>1, <2>2 DEF BatchTimeInv
<1> QED
  BY <1>7, <1>8, <1>10, <1>11 DEF StageInv

(* The steps that end one part and begin the next.                         *)
Turns ==
  NextBatch \/ BatchesDone \/ NextEvaluation \/ EvaluationDone \/ SaveLatest
    \/ ContinueTraining \/ StopTraining

(* What they leave alone, and what has been called when they are taken.    *)
LEMMA TurnFacts ==
  ASSUME ProfileInv, StageInv, Turns
  PROVE  /\ UNCHANGED <<tree, active_frames, current, run, steps, batch_time>>
         /\ run \in RunRecords /\ part \in Parts \ {"restore", "ready", "stop"}
         /\ part' \in Parts \ {"restore", "ready"} /\ pc' = 1
         /\ pc = Len(Program) + 1 /\ epoch \in Nat /\ batch_idx \in Nat
         /\ BatchesSoFar' = BatchesSoFar
<1>1. /\ UNCHANGED <<tree, active_frames, current, run, steps, batch_time>>
      /\ part \in {"batch", "evaluate", "epoch_end", "save"} /\ pc > Len(Program)
  BY DEF Turns, NextBatch, BatchesDone, NextEvaluation, EvaluationDone, SaveLatest,
         ContinueTraining, StopTraining, Turn, PartDone, stages, history
<1>2. part' \in Parts \ {"restore", "ready"} /\ pc' = 1 /\ BatchesSoFar' = BatchesSoFar
  BY TurnKeepsSteps DEF Turns, ProfileInv
<1>3. run \in RunRecords /\ part \in Parts /\ pc \in Nat /\ epoch \in Nat /\ batch_idx \in Nat
  BY DEF ProfileInv, ProfileTypeInv
<1>4. Len(Program) \in Nat /\ pc <= Len(Program) + 1
  BY <1>3, ProgramShape DEF StageInv, DepthInv
<1>5. pc = Len(Program) + 1
  BY <1>1, <1>3, <1>4
<1> QED
  BY <1>1, <1>2, <1>3, <1>5

(* A stage that is open goes on being open, and only between batches of a  *)
(* step.                                                                   *)
LEMMA TurnLevels ==
  ASSUME ProfileInv, StageInv, Turns
  PROVE  /\ Level' = Level
         /\ Level # 0 => part = "batch" /\ part' = "batch"
<1> DEFINE p == run.per_step
<1>1. /\ run \in RunRecords /\ run' = run /\ part \in Parts \ {"restore", "ready", "stop"}
      /\ part' \in Parts /\ pc' = 1 /\ pc = Len(Program) + 1
  BY TurnFacts
<1>2. Level' = IF part' = "batch" /\ ~(batch_idx' % p = 0) THEN 1 ELSE 0
  BY <1>1, PartBegins
<1>3. Level = IF part = "batch" /\ ~StepEndsAt(batch_idx) THEN 1 ELSE 0
  <2>1. pc \in Nat \ {0} /\ pc <= Len(Program) + 1 /\ Len(Program) \in Nat
    BY <1>1, ProgramShape
  <2>2. /\ part = "batch" => LevelAt(pc) = IF StepEndsAt(batch_idx) THEN 0 ELSE 1
        /\ part # "batch" => LevelAt(pc) = 0
    BY <1>1, <2>1, LevelFacts DEF Parts
  <2> QED
    BY <2>2 DEF Level
<1>4. p \in Nat \ {0} /\ 0 % p = 0
  <2>1. p \in Nat \ {0}
    BY <1>1, RunFacts
  <2> HIDE DEF p
  <2> QED
    BY <2>1
<1>5. StepEndsAt(batch_idx) <=> (batch_idx + 1) % p = 0 \/ batch_idx + 1 = run.batches
  BY DEF StepEndsAt
<1>6. run.batches \in Nat /\ batch_idx \in Nat
  BY <1>1, RunFacts, TurnFacts
<1> HIDE DEF p
<1>7. CASE NextBatch
  <2>1. /\ part = "batch" /\ part' = "batch" /\ batch_idx' = batch_idx + 1
        /\ batch_idx + 1 < run.batches
    BY <1>7 DEF NextBatch, Turn
  <2>2. batch_idx + 1 # run.batches
    BY <1>6, <2>1
  <2> QED
    BY <1>2, <1>3, <1>5, <2>1, <2>2
<1>8. CASE BatchesDone
  <2>1. part' # "batch" /\ batch_idx + 1 = run.batches
    BY <1>8 DEF BatchesDone, Turn
  <2> QED
    BY <1>2, <1>3, <1>5, <2>1
<1>9. CASE NextEvaluation \/ EvaluationDone \/ SaveLatest \/ ContinueTraining \/ StopTraining
  <2>1. part # "batch" /\ (part' = "batch" => batch_idx' = 0)
    BY <1>9 DEF NextEvaluation, EvaluationDone, SaveLatest, ContinueTraining, StopTraining, Turn
  <2> QED
    BY <1>2, <1>3, <1>4, <2>1
<1> QED
  BY <1>7, <1>8, <1>9 DEF Turns

(* What a part adds to the batches and to the evaluations. *)
LEMMA TurnTotals ==
  ASSUME ProfileInv, StageInv, Turns
  PROVE  /\ BatchesBefore' = BatchesBefore + (IF part = "batch" THEN 1 ELSE 0)
         /\ EvaluationsBefore' = EvaluationsBefore + (IF part = "evaluate" THEN 1 ELSE 0)
         /\ BatchesBefore \in Nat /\ EvaluationsBefore \in Int
<1> DEFINE m == run.batches
           h == run.held_out
<1>1. /\ run \in RunRecords /\ run' = run /\ part \in Parts \ {"restore", "ready", "stop"}
      /\ part' \in Parts \ {"restore", "ready"} /\ pc' = 1 /\ pc = Len(Program) + 1
      /\ epoch \in Nat /\ batch_idx \in Nat /\ BatchesSoFar' = BatchesSoFar
  BY TurnFacts
<1>2. m \in Nat /\ h \in Nat
  BY <1>1, RunFacts
<1>3. Len(Program') \in Nat /\ Len(Program) \in Nat
  BY <1>1, PartBegins, ProgramShape
<1>4. BatchesBefore' = BatchesSoFar'
  <2>1. CASE part' = "batch"
    <3> DEFINE n == Len(Program)
    <3>1. n' \in Nat /\ n' > 2
      BY <1>1, <2>1, BatchBegins
    <3>2. \A x \in Nat : x > 2 => ~(1 > x)
      OBVIOUS
    <3>3. ~(1 > n')
      BY <3>1, <3>2, Zenon
    <3>4. ~(pc > n)'
      BY <1>1, <3>3
    <3>5. CompletedBatches' \in Nat
      <4>1. epoch' \in Nat /\ batch_idx' \in Nat
        BY TurnKeepsSteps DEF Turns, ProfileInv
      <4>2. CompletedBatches' = epoch' * m + batch_idx'
        BY <1>1 DEF CompletedBatches
      <4>3. \A x, y, z \in Nat : x * y + z \in Nat
        OBVIOUS
      <4> HIDE DEF m
      <4>4. epoch' * m + batch_idx' \in Nat
        BY <1>2, <4>1, <4>3, Zenon
      <4> QED
        BY <4>2, <4>4
    <3>6. \A x \in Nat : x + 0 = x
      OBVIOUS
    <3>7. CompletedBatches' + 0 = CompletedBatches'
      BY <3>5, <3>6, Zenon
    <3>8. BatchesSoFar' = CompletedBatches' + (IF (pc > n)' THEN 1 ELSE 0)
      BY <2>1 DEF BatchesSoFar
    <3>9. BatchesBefore' = CompletedBatches'
      BY <2>1 DEF BatchesBefore
    <3> HIDE DEF n
    <3> QED
      BY <3>4, <3>7, <3>8, <3>9
  <2>2. CASE part' # "batch"
    BY <2>2 DEF BatchesBefore, BatchesSoFar
  <2> QED
    BY <2>1, <2>2
<1>5. BatchesSoFar = BatchesBefore + (IF part = "batch" THEN 1 ELSE 0) /\ BatchesBefore \in Nat
  <2>1. CompletedBatches \in Nat /\ BatchesSoFar \in Nat
    BY BatchesNat DEF ProfileInv
  <2>2. pc > Len(Program)
    BY <1>1, <1>3
  <2>3. CASE part = "batch"
    BY <2>1, <2>2, <2>3 DEF BatchesBefore, BatchesSoFar
  <2>4. CASE part # "batch"
    <3>1. BatchesBefore = BatchesSoFar
      BY <2>4 DEF BatchesBefore, BatchesSoFar
    <3> QED
      BY <2>1, <2>4, <3>1
  <2> QED
    BY <2>3, <2>4
<1>6. /\ HeldOutBatches(run, epoch) \in Nat /\ HeldOutBatches(run, epoch + 1) \in Nat
      /\ HeldOutBatches(run, epoch + 1)
           = HeldOutBatches(run, epoch) + (IF ValidationDue(run, epoch + 1) THEN h ELSE 0)
  BY <1>1, HeldOutGrows
<1>7. EvaluationsBefore \in Int
  BY <1>1, <1>2, <1>6 DEF EvaluationsBefore
<1>8. EvaluationsBefore' = EvaluationsBefore + (IF part = "evaluate" THEN 1 ELSE 0)
  <2> DEFINE e == HeldOutBatches(run, epoch)
             g == HeldOutBatches(run, epoch + 1)
             due == ValidationDue(run, epoch + 1)
  <2>1. /\ part = "batch" => EvaluationsBefore = e
        /\ part = "evaluate" => EvaluationsBefore = g - (h - batch_idx)
        /\ part \in {"epoch_end", "save"} => EvaluationsBefore = g
    BY DEF EvaluationsBefore
  <2>2. /\ part' = "batch" /\ epoch' = epoch => EvaluationsBefore' = e
        /\ part' = "evaluate" /\ epoch' = epoch => EvaluationsBefore' = g - (h - batch_idx')
        /\ part' \in {"epoch_end", "save"} /\ epoch' = epoch => EvaluationsBefore' = g
        /\ part' \in {"batch", "stop"} /\ epoch' = epoch + 1 => EvaluationsBefore' = g
    BY <1>1 DEF EvaluationsBefore
  <2>3. e \in Nat /\ g \in Nat /\ g = e + (IF due THEN h ELSE 0)
    BY <1>6
  <2> HIDE DEF e, g, h, due
  <2>4. CASE NextBatch
    <3>1. part = "batch" /\ part' = "batch" /\ epoch' = epoch
      BY <2>4 DEF NextBatch, Turn
    <3> QED
      BY <2>1, <2>2, <2>3, <3>1
  <2>5. CASE BatchesDone
    <3>1. /\ part = "batch" /\ epoch' = epoch /\ batch_idx' = 0
          /\ part' = IF due THEN "evaluate" ELSE "epoch_end"
      BY <2>5 DEF BatchesDone, Turn, due
    <3> QED
      BY <1>2, <2>1, <2>2, <2>3, <3>1
  <2>6. CASE NextEvaluation
    <3>1. part = "evaluate" /\ part' = "evaluate" /\ epoch' = epoch /\ batch_idx' = batch_idx + 1
      BY <2>6 DEF NextEvaluation, Turn
    <3> QED
      BY <1>1, <1>2, <2>1, <2>2, <2>3, <3>1
  <2>7. CASE EvaluationDone
    <3>1. part = "evaluate" /\ part' = "epoch_end" /\ epoch' = epoch /\ batch_idx + 1 = h
      BY <2>7 DEF EvaluationDone, Turn, h
    <3> QED
      BY <1>1, <1>2, <2>1, <2>2, <2>3, <3>1
  <2>8. CASE SaveLatest
    <3>1. part = "epoch_end" /\ part' = "save" /\ epoch' = epoch
      BY <2>8 DEF SaveLatest, Turn
    <3> QED
      BY <1>2, <2>1, <2>2, <2>3, <3>1
  <2>9. CASE ContinueTraining \/ StopTraining
    <3>1. part \in {"epoch_end", "save"} /\ part' \in {"batch", "stop"} /\ epoch' = epoch + 1
      BY <2>9 DEF ContinueTraining, StopTraining, Turn
    <3> QED
      BY <1>2, <2>1, <2>2, <2>3, <3>1
  <2> QED
    BY <2>4, <2>5, <2>6, <2>7, <2>8, <2>9 DEF Turns
<1> QED
  BY <1>1, <1>4, <1>5, <1>7, <1>8

(* The counts of the part that ends become those of the parts before.      *)
LEMMA TurnKeepsStages ==
  ASSUME ProfileInv, StageInv, Turns
  PROVE  StageInv'
<1>1. /\ UNCHANGED <<tree, active_frames, current, run, steps, batch_time>>
      /\ run \in RunRecords /\ part \in Parts \ {"restore", "ready", "stop"}
      /\ part' \in Parts \ {"restore", "ready"} /\ pc' = 1 /\ pc = Len(Program) + 1
  BY TurnFacts
<1>2. Level' = Level /\ (Level # 0 => part = "batch" /\ part' = "batch")
  BY TurnLevels
<1>3. Len(Program') \in Nat /\ \A name : Called(name)' = 0
  BY <1>1, PartBegins
<1>4. TreeInv'
  <2>1. UNCHANGED <<tree, active_frames, current>>
    BY <1>1
  <2> QED
    BY <2>1 DEF StageInv, TreeInv, TreeOf, OpenPath
<1>5. DepthInv'
  BY <1>1, <1>2, <1>3 DEF StageInv, DepthInv
<1>6. active_frames # <<>> => part = "batch" /\ part' = "batch"
  <2>1. Len(active_frames) = Level /\ (active_frames = <<>> <=> Len(active_frames) = 0)
    BY FramesEmpty DEF StageInv, DepthInv
  <2> QED
    BY <1>2, <2>1
<1>7. BatchTimeInv'
  <2>1. /\ TopOf(tree, "BATCH_STEP")' = TopOf(tree, "BATCH_STEP")
        /\ TopOpen(active_frames, "BATCH_STEP")' <=> TopOpen(active_frames, "BATCH_STEP")
        /\ active_frames' = active_frames /\ batch_time' = batch_time
    BY <1>1 DEF TopOf, TopOpen
  <2>2. TopOpen(active_frames, "BATCH_STEP") => active_frames # <<>>
    BY DEF TopOpen
  <2>3. /\ batch_time \in [start : Nat, total : Int]
        /\ TopOf(tree, "BATCH_STEP").total = batch_time.total
        /\ TopOpen(active_frames, "BATCH_STEP") =>
             part = "batch" /\ active_frames[1].start = batch_time.start
        /\ part = "batch" /\ active_frames # <<>> => TopOpen(active_frames, "BATCH_STEP")
    BY <1>1 DEF StageInv, BatchTimeInv
  <2> QED
    BY <1>1, <1>6, <2>1, <2>2, <2>3 DEF BatchTimeInv
<1>8. CountInv'
  <2> DEFINE a == Entered(tree, active_frames, "BATCH_STEP")
             b == Entered(tree, active_frames, "FORWARD")
             c == TopEntered(tree, active_frames, "FORWARD")
             o == TopEntered(tree, active_frames, "BACKWARD")
             d == TopEntered(tree, active_frames, "BATCH_STEP")
             f == StepStartsAt(batch_idx)
  <2>1. /\ Called("on_batch_start") = IF part = "batch" THEN 1 ELSE 0
        /\ Called("on_forward_start") = IF part \in {"batch", "evaluate"} THEN 1 ELSE 0
        /\ Called("on_train_step_start") = IF part = "batch" /\ f THEN 1 ELSE 0
    BY <1>1, CalledAtEnd
  <2>2. /\ a = BatchesBefore + Called("on_batch_start")
        /\ b = BatchesBefore + EvaluationsBefore + Called("on_forward_start")
        /\ c = EvaluationsBefore + (IF part = "evaluate" THEN Called("on_forward_start") ELSE 0)
        /\ o = 0
        /\ d + Called("on_train_step_start")
             = Len(steps) + (IF part = "batch" /\ f THEN Called("on_batch_start") ELSE 0)
    BY <1>1 DEF StageInv, CountInv
  <2>3. /\ BatchesBefore' = BatchesBefore + (IF part = "batch" THEN 1 ELSE 0)
        /\ EvaluationsBefore' = EvaluationsBefore + (IF part = "evaluate" THEN 1 ELSE 0)
        /\ BatchesBefore \in Nat /\ EvaluationsBefore \in Int
    BY TurnTotals
  <2>4. a' = a /\ b' = b /\ c' = c /\ d' = d /\ o' = o
    BY <1>1 DEF Entered, TopEntered, Counts, NodesOf, OpenOf, StageOf, TopOf, TopOpen
  <2>5. d \in Int /\ Len(steps) \in Nat /\ steps' = steps
    <3>1. steps \in Seq(StepRecords)
      BY DEF ProfileInv, ProfileTypeInv
    <3> QED
      BY <1>1, <3>1, CountTypes DEF StageInv
  <2>6. /\ Called("on_batch_start")' = 0 /\ Called("on_forward_start")' = 0
        /\ Called("on_train_step_start")' = 0
    BY <1>3
  <2> HIDE DEF a, b, c, d, o, f
  <2>7. a = BatchesBefore' /\ b = BatchesBefore' + EvaluationsBefore' /\ c = EvaluationsBefore'
    <3>1. CASE part = "batch"
      BY <2>1, <2>2, <2>3, <3>1
    <3>2. CASE part = "evaluate"
      BY <2>1, <2>2, <2>3, <3>2
    <3>3. CASE part \notin {"batch", "evaluate"}
      BY <2>1, <2>2, <2>3, <3>3
    <3> QED
      BY <3>1, <3>2, <3>3
  <2>8. d = Len(steps)
    <3>1. CASE part = "batch" /\ f
      BY <2>1, <2>2, <2>5, <3>1
    <3>2. CASE ~(part = "batch" /\ f)
      BY <2>1, <2>2, <2>5, <3>2
    <3> QED
      BY <3>1, <3>2
  <2>9. BatchesBefore' \in Nat /\ EvaluationsBefore' \in Int
    BY <2>3
  <2>10. a' = BatchesBefore' + Called("on_batch_start")'
    <3>1. a' = BatchesBefore'
      BY <2>4, <2>7
    <3> QED
      BY <2>6, <2>9, <3>1
  <2>11. b' = BatchesBefore' + EvaluationsBefore' + Called("on_forward_start")'
    <3>1. b' = BatchesBefore' + EvaluationsBefore'
      BY <2>4, <2>7
    <3> QED
      BY <2>6, <2>9, <3>1
  <2>12. c' = EvaluationsBefore' + (IF part' = "evaluate" THEN Called("on_forward_start")' ELSE 0)
    <3>1. c' = EvaluationsBefore'
      BY <2>4, <2>7
    <3>2. (IF part' = "evaluate" THEN Called("on_forward_start")' ELSE 0) = 0
      BY <2>6
    <3>3. \A x \in Int : x = x + 0
      OBVIOUS
    <3>4. EvaluationsBefore' = EvaluationsBefore' + 0
      BY <2>9, <3>3, Zenon
    <3> QED
      BY <3>1, <3>2, <3>4, Zenon
  <2>13. d' + Called("on_train_step_start")'
           = Len(steps') + (IF part' = "batch" /\ f' THEN Called("on_batch_start")' ELSE 0)
    <3>1. d' = Len(steps) /\ Len(steps') = Len(steps)
      BY <2>4, <2>5, <2>8
    <3>2. (IF part' = "batch" /\ f' THEN Called("on_batch_start")' ELSE 0) = 0
      BY <2>6
    <3> QED
      BY <2>5, <2>6, <3>1, <3>2
  <2>14. o' = 0
    BY <2>2, <2>4
  <2> QED
    BY <2>10, <2>11, <2>12, <2>13, <2>14 DEF CountInv, a, b, c, d, o, f
<1> QED
  BY <1>4, <1>5, <1>7, <1>8 DEF StageInv

(* The visits that the profile's lines show are the nodes' counts.         *)
LEMMA VisitsAreCounts ==
  ASSUME NEW S, IsFiniteSet(S), \A n \in S : tree[n].count \in Int
  PROVE  VisitsOf(S) = Counts(tree, S)
<1> DEFINE h == [n \in S |-> tree[n].count]
           Rec(F) == F = [s \in SUBSET S |->
             IF s = {} THEN 0
             ELSE tree[CHOOSE x \in s : TRUE].count + F[s \ {CHOOSE x \in s : TRUE}]]
           C == CHOOSE F : Rec(F)
<1>1. VisitsOf(S) = C[S]
  BY DEF VisitsOf, MapThenSumSet, MapThenFoldSet
<1>2. \A s \in SUBSET S : s # {} =>
        h[CHOOSE x \in s : TRUE] = tree[CHOOSE x \in s : TRUE].count
  OBVIOUS
<1>3. \A i \in S : h[i] \in Int
  OBVIOUS
<1> HIDE DEF h
<1>4. PICK G : IntTotals(G, h, S)
  BY <1>3, TotalsExist
<1>5. Totals(G, h, S)
  BY <1>4 DEF IntTotals
<1>6. G = [s \in SUBSET S |-> G[s]] /\ \A s \in SUBSET S :
        G[s] = IF s = {} THEN 0
               ELSE tree[CHOOSE x \in s : TRUE].count + G[s \ {CHOOSE x \in s : TRUE}]
  BY <1>2, <1>5 DEF Totals, AnyOf
<1>7. Rec(C)
  <2>1. Rec(G)
    BY <1>6
  <2> QED
    BY <2>1
<1> HIDE DEF C
<1>8. Totals(C, h, S)
  BY <1>2, <1>7 DEF Totals, AnyOf
<1>9. VisitsOf(S) = SumOf(h, S)
  BY <1>1, <1>3, <1>8, SumIsTotal
<1> QED
  BY <1>9 DEF h, Counts

(* The lines of a stage that is not open.                                  *)
LEMMA LinesOfStage ==
  ASSUME StageInv, NEW stage, OpenOf(active_frames, stage) = {}, ~TopOpen(active_frames, stage)
  PROVE  /\ VisitsOf(StageNodes(stage)) = Entered(tree, active_frames, stage)
         /\ Top(stage).count = TopEntered(tree, active_frames, stage)
         /\ Top(stage) = TopOf(tree, stage)
<1> DEFINE S == NodesOf(tree, stage)
<1>1. StageNodes(stage) = S
  BY DEF StageNodes, NodesOf, StageOf, Last
<1>2. IsFiniteSet(S) /\ \A n \in S : tree[n].count \in Int
  <2>1. IsFiniteSet(DOMAIN tree) /\ \A n \in DOMAIN tree : tree[n] \in NodeRecords
    BY DEF StageInv, TreeInv, TreeOf
  <2>2. S \subseteq DOMAIN tree
    BY DEF NodesOf
  <2> HIDE DEF S
  <2>3. IsFiniteSet(S)
    BY <2>1, <2>2, FS_Subset
  <2> QED
    BY <2>1, <2>2, <2>3 DEF NodeRecords
<1>3. VisitsOf(S) = Counts(tree, S) /\ Counts(tree, S) \in Int
  <2> HIDE DEF S
  <2> QED
    BY <1>2, VisitsAreCounts, CountsOf
<1>4. Entered(tree, active_frames, stage) = Counts(tree, S)
  <2>1. Cardinality(OpenOf(active_frames, stage)) = 0
    BY FS_EmptySet
  <2> QED
    BY <1>3, <2>1 DEF Entered
<1>5. Top(stage) = TopOf(tree, stage)
  BY DEF Top, TopOf
<1>6. TopOf(tree, stage).count \in Int
  <2>1. \A n \in DOMAIN tree : tree[n].count \in Int
    BY DEF StageInv, TreeInv, TreeOf, NodeRecords
  <2> QED
    BY <2>1 DEF TopOf, NewNode
<1>7. TopEntered(tree, active_frames, stage) = TopOf(tree, stage).count
  BY <1>6 DEF TopEntered
<1> QED
  BY <1>1, <1>3, <1>4, <1>5, <1>7

(* What is open when a part is done.                                       *)
LEMMA OpenWhenDone ==
  ASSUME ProfileInv, StageInv, PartDone
  PROVE  /\ pc = Len(Program) + 1
         /\ IF part = "batch" /\ ~StepEndsAt(batch_idx)
            THEN Len(active_frames) = 1 /\ active_frames[1].node = TopNode("BATCH_STEP")
            ELSE active_frames = <<>>
         /\ \A stage : stage # "BATCH_STEP" =>
              OpenOf(active_frames, stage) = {} /\ ~TopOpen(active_frames, stage)
<1>1. run \in RunRecords /\ part \in Parts /\ pc \in Nat \ {0} /\ Len(Program) \in Nat
  BY ProgramShape DEF ProfileInv, ProfileTypeInv
<1>2. pc = Len(Program) + 1 /\ pc <= Len(Program) + 1
  BY <1>1 DEF PartDone, StageInv, DepthInv
<1>3. Len(active_frames) = IF part = "batch" /\ ~StepEndsAt(batch_idx) THEN 1 ELSE 0
  <2>1. /\ part = "batch" => LevelAt(pc) = IF StepEndsAt(batch_idx) THEN 0 ELSE 1
        /\ part # "batch" => LevelAt(pc) = 0
    BY <1>1, <1>2, LevelFacts DEF Parts
  <2>2. Len(active_frames) = LevelAt(pc)
    BY DEF StageInv, DepthInv, Level
  <2> QED
    BY <2>1, <2>2
<1>4. active_frames = <<>> <=> Len(active_frames) = 0
  BY FramesEmpty DEF StageInv
<1>5. CASE part = "batch" /\ ~StepEndsAt(batch_idx)
  <2>1. Len(active_frames) = 1 /\ active_frames # <<>>
    BY <1>3, <1>4, <1>5
  <2>2. active_frames[1].node = TopNode("BATCH_STEP")
    BY <1>5, <2>1 DEF StageInv, BatchTimeInv, TopOpen
  <2>3. StageOf(TopNode("BATCH_STEP")) = "BATCH_STEP"
    BY DEF StageOf, TopNode
  <2>4. ASSUME NEW stage, stage # "BATCH_STEP"
        PROVE  OpenOf(active_frames, stage) = {} /\ ~TopOpen(active_frames, stage)
    <3>1. \A i \in 1..1 : i = 1
      OBVIOUS
    <3>2. OpenOf(active_frames, stage) = {}
      BY <2>1, <2>2, <2>3, <2>4, <3>1 DEF OpenOf
    <3>3. TopNode("BATCH_STEP") # TopNode(stage)
      BY <2>4 DEF TopNode
    <3> QED
      BY <2>2, <3>2, <3>3 DEF TopOpen
  <2> QED
    BY <1>2, <1>5, <2>1, <2>2, <2>4
<1>6. CASE ~(part = "batch" /\ ~StepEndsAt(batch_idx))
  <2>1. active_frames = <<>> /\ Len(active_frames) = 0
    BY <1>3, <1>4, <1>6
  <2>2. 1..0 = {}
    OBVIOUS
  <2>3. \A stage : OpenOf(active_frames, stage) = {} /\ ~TopOpen(active_frames, stage)
    BY <2>1, <2>2 DEF OpenOf, TopOpen
  <2> QED
    BY <1>2, <1>6, <2>1, <2>3
<1> QED
  BY <1>5, <1>6

(* The invariant says what the stage lines are asked for.                  *)
LEMMA LinesFollow ==
  ASSUME ProfileInv, StageInv
  PROVE  StageLinesAddUp
<1>1. run \in RunRecords /\ part \in Parts
  BY DEF ProfileInv, ProfileTypeInv
<1>2. StagesClose
  BY OpenWhenDone DEF StagesClose, BatchDone
<1>3. ASSUME BatchDone
      PROVE  /\ part = "batch" /\ PartDone
             /\ BatchesBefore = CompletedBatches /\ EvaluationsBefore = HeldOutBatches(run, epoch)
             /\ CompletedBatches \in Nat /\ EvaluationsBefore \in Nat
             /\ Called("on_batch_start") = 1 /\ Called("on_forward_start") = 1
             /\ Called("on_train_step_start") = IF StepStartsAt(batch_idx) THEN 1 ELSE 0
  <2>1. part = "batch" /\ PartDone
    BY <1>3 DEF BatchDone
  <2>2. pc = Len(Program) + 1
    BY <2>1, OpenWhenDone
  <2>3. BatchesBefore = CompletedBatches /\ EvaluationsBefore = HeldOutBatches(run, epoch)
    BY <2>1 DEF BatchesBefore, EvaluationsBefore
  <2>4. CompletedBatches \in Nat
    BY BatchesNat DEF ProfileInv
  <2>5. EvaluationsBefore \in Nat
    BY <1>1, <2>3, HeldOutGrows DEF ProfileInv, ProfileTypeInv
  <2> QED
    BY <1>1, <2>1, <2>2, <2>3, <2>4, <2>5, CalledAtEnd
<1>4. ASSUME BatchDone
      PROVE  /\ Entered(tree, active_frames, "BATCH_STEP") = CompletedBatches + 1
             /\ Entered(tree, active_frames, "FORWARD")
                  = CompletedBatches + HeldOutBatches(run, epoch) + 1
             /\ TopEntered(tree, active_frames, "FORWARD") = HeldOutBatches(run, epoch)
             /\ TopEntered(tree, active_frames, "BACKWARD") = 0
             /\ TopEntered(tree, active_frames, "BATCH_STEP") = Len(steps)
             /\ TopOf(tree, "BATCH_STEP").total = batch_time.total
  <2>1. /\ Entered(tree, active_frames, "BATCH_STEP") = BatchesBefore + Called("on_batch_start")
        /\ Entered(tree, active_frames, "FORWARD")
             = BatchesBefore + EvaluationsBefore + Called("on_forward_start")
        /\ TopEntered(tree, active_frames, "FORWARD") = EvaluationsBefore + 0
        /\ TopEntered(tree, active_frames, "BACKWARD") = 0
        /\ TopEntered(tree, active_frames, "BATCH_STEP") + Called("on_train_step_start")
             = Len(steps) + (IF StepStartsAt(batch_idx) THEN Called("on_batch_start") ELSE 0)
    BY <1>3, <1>4 DEF StageInv, CountInv
  <2>2. TopOf(tree, "BATCH_STEP").total = batch_time.total
    BY <1>3, <1>4 DEF StageInv, BatchTimeInv
  <2> DEFINE d == TopEntered(tree, active_frames, "BATCH_STEP")
             n == Len(steps)
  <2>3. d \in Int /\ n \in Nat
    <3>1. steps \in Seq(StepRecords)
      BY DEF ProfileInv, ProfileTypeInv
    <3> QED
      BY <3>1, CountTypes DEF StageInv
  <2>4. d = n
    <3>1. CASE StepStartsAt(batch_idx)
      <4>1. d + 1 = n + 1
        BY <1>3, <1>4, <2>1, <3>1
      <4> HIDE DEF d, n
      <4> QED
        BY <2>3, <4>1
    <3>2. CASE ~StepStartsAt(batch_idx)
      <4>1. d + 0 = n + 0
        BY <1>3, <1>4, <2>1, <3>2
      <4> HIDE DEF d, n
      <4> QED
        BY <2>3, <4>1
    <3> QED
      BY <3>1, <3>2
  <2>5. TopEntered(tree, active_frames, "FORWARD") = EvaluationsBefore
    BY <1>3, <1>4, <2>1
  <2>6. EvaluationsBefore = HeldOutBatches(run, epoch) /\ BatchesBefore = CompletedBatches
    BY <1>3, <1>4
  <2> HIDE DEF d, n
  <2> QED
    BY <1>3, <1>4, <2>1, <2>2, <2>4, <2>5, <2>6 DEF d, n
<1>5. BatchStepLines
  <2> SUFFICES ASSUME StepDone
               PROVE  /\ Top("BATCH_STEP").count = Len(steps)
                      /\ VisitsOf(StageNodes("BATCH_STEP")) = CompletedBatches + 1
                      /\ Top("BATCH_STEP").total = batch_time.total
    BY DEF BatchStepLines
  <2>1. BatchDone /\ StepEndsAt(batch_idx)
    BY DEF StepDone
  <2>2. active_frames = <<>>
    BY <1>3, <2>1, OpenWhenDone
  <2>3. OpenOf(active_frames, "BATCH_STEP") = {} /\ ~TopOpen(active_frames, "BATCH_STEP")
    <3>1. 1..Len(<<>>) = {}
      OBVIOUS
    <3> QED
      BY <2>2, <3>1 DEF OpenOf, TopOpen
  <2> QED
    BY <1>4, <2>1, <2>3, LinesOfStage
<1>6. HeldOutApart
  <2> DEFINE k == HeldOutBatches(run, epoch)
  <2> SUFFICES ASSUME BatchDone
               PROVE  /\ Top("FORWARD").count = k
                      /\ VisitsOf(StageNodes("FORWARD")) - Top("FORWARD").count
                           = CompletedBatches + 1
                      /\ Top("BACKWARD").count = 0
    BY DEF HeldOutApart
  <2>1. /\ OpenOf(active_frames, "FORWARD") = {} /\ ~TopOpen(active_frames, "FORWARD")
        /\ OpenOf(active_frames, "BACKWARD") = {} /\ ~TopOpen(active_frames, "BACKWARD")
    BY <1>3, OpenWhenDone
  <2>2. Top("FORWARD").count = k
    BY <1>4, <2>1, LinesOfStage
  <2>3. VisitsOf(StageNodes("FORWARD")) = CompletedBatches + k + 1
    BY <1>4, <2>1, LinesOfStage
  <2>4. Top("BACKWARD").count = 0
    BY <1>4, <2>1, LinesOfStage
  <2>5. k \in Nat /\ CompletedBatches \in Nat
    BY <1>3
  <2> HIDE DEF k
  <2> QED
    BY <2>2, <2>3, <2>4, <2>5
<1> QED
  BY <1>2, <1>5, <1>6 DEF StageLinesAddUp

(* The stage lines add up in every run: after every step the top-level     *)
(* line counts the steps and times the batches, all batch lines together   *)
(* count the batches, held-out passes are told apart from those of         *)
(* training, and no stage stays open past its part.                        *)
THEOREM StageLinesCount == Spec => []StageLinesAddUp
<1>1. Init => StageInv
  BY StagesStart
<1>2. ASSUME ProfileInv, StageInv, [Next]_vars
      PROVE  StageInv'
  <2>1. CASE Observe
    BY <1>2, <2>1, ObserveLevels, ObserveKeepsCount, ObserveKeepsTime DEF StageInv
  <2>2. CASE BeginOp \/ EndTraining \/ Over \/ UNCHANGED vars
    BY <1>2, <2>2, RestKeeps
  <2>3. CASE Return
    BY <1>2, <2>3, ReturnKeeps
  <2>4. CASE OpThrows \/ WriteFails
    BY <1>2, <2>4, FailedSaveKeeps
  <2>5. CASE StartTraining
    BY <1>2, <2>5, StartKeepsStages
  <2>6. CASE Turns
    BY <1>2, <2>6, TurnKeepsStages
  <2> QED
    BY <1>2, <2>1, <2>2, <2>3, <2>4, <2>5, <2>6 DEF Next, Turns
<1>3. ProfileInv /\ StageInv => StageLinesAddUp
  BY LinesFollow
<1> QED
  BY <1>1, <1>2, <1>3, ProfileInvariant, PTL DEF Spec
=============================================================================
