-------------------------- MODULE AttentionProgram --------------------------
(***************************************************************************)
(* SelfAttentionFusedInplaceMultistream as the sequence of backend calls   *)
(* it makes: for each call the buffers it reads and writes, at the grain   *)
(* of one head.  Parameters are never written here and are left out.       *)
(***************************************************************************)
EXTENDS Integers, Sequences

CONSTANT Heads   \* n_heads

(* kScratchLanes. Mutant: two heads at a time over the scratch buffers. *)
ScratchLanesTwo == 2
ScratchLanes == 1

Of(buffer) == {<<buffer, h>> : h \in 1..Heads}
Lesser(a, b) == IF a < b THEN a ELSE b

(* An operation on the default stream, and one inside a group.             *)
Op(reads, writes) == [call |-> "op", reads |-> reads, writes |-> writes]
LaneOp(reads, writes) == [call |-> "lane_op", reads |-> reads, writes |-> writes]

(* A diagnostic: if it is on, it copies what it checks to the host.        *)
Probe(reads) == <<[call |-> "probe", reads |-> reads, writes |-> {}]>>

Call(name) == [call |-> name, reads |-> {}, writes |-> {}]

(* The calls of a loop whose turns all make equally many: with one scratch *)
(* lane an iteration of the backward pass is never cut short.              *)
InTurn(turns) ==
  LET size == Len(turns[1])
  IN  [i \in 1..(Len(turns) * size) |->
         turns[((i - 1) \div size) + 1][((i - 1) % size) + 1]]

ForwardHead(h) ==
  <<Call("start_group"),
    LaneOp({<<"Q", h>>, <<"K", h>>}, {<<"weights", h>>}),
    LaneOp({<<"weights", h>>}, {<<"weights", h>>}),
    LaneOp({<<"weights", h>>, <<"V", h>>}, {<<"context", h>>}),
    Call("finish_group")>>

Forward ==
  LET qkv == Of("Q") \cup Of("K") \cup Of("V")
  IN  <<Op({<<"x">>}, qkv),
        Op(qkv, qkv),
        Op(Of("Q") \cup Of("K"), Of("Q") \cup Of("K")),
        Op({}, Of("context")),
        Call("start_iteration")>>
      \o InTurn([h \in 1..Heads |-> ForwardHead(h)])
      \o <<Call("finish_iteration"),
           Op(Of("context"), {<<"out">>}),
           Op({<<"out">>}, {<<"out">>})>>

DweightsLane(lane) == IF lane = 0 THEN <<"dweights">> ELSE <<"dscores">>

BackwardHead(h, lane) ==
  <<Call("start_group"),
    LaneOp({<<"dcontext", h>>, <<"V", h>>}, {DweightsLane(lane)}),
    LaneOp({<<"weights", h>>, <<"dcontext", h>>}, {<<"dV", h>>}),
    LaneOp({<<"weights", h>>, DweightsLane(lane)}, {<<"dscores">>}),
    LaneOp({<<"dscores">>, <<"K", h>>}, {<<"dQ", h>>}),
    LaneOp({<<"dscores">>, <<"Q", h>>}, {<<"dK", h>>}),
    Call("finish_group")>>

ScaleHead(h, lane) ==
  Probe({DweightsLane(lane), <<"dV", h>>, <<"dscores">>})
  \o <<Op({<<"dQ", h>>}, {<<"dQ", h>>})>> \o Probe({<<"dQ", h>>})
  \o <<Op({<<"dK", h>>}, {<<"dK", h>>})>> \o Probe({<<"dK", h>>})

(* The heads from h0 + 1 on that share an iteration. *)
BackwardIteration(h0) ==
  LET lanes == Lesser(ScratchLanes, Heads - h0)
  IN  <<Call("start_iteration")>>
      \o InTurn([i \in 1..lanes |-> BackwardHead(h0 + i, i - 1)])
      \o <<Call("finish_iteration")>>
      \o InTurn([i \in 1..lanes |-> ScaleHead(h0 + i, i - 1)])

Backward ==
  LET dqkv == Of("dQ") \cup Of("dK") \cup Of("dV")
      iterations == (Heads + ScratchLanes - 1) \div ScratchLanes
  IN  <<Op(Of("context") \cup {<<"dout">>}, {<<"dWo">>})>> \o Probe({<<"dWo">>})
      \o <<Op({<<"dout">>}, {<<"dbo">>})>> \o Probe({<<"dbo">>})
      \o <<Op({<<"dout">>}, Of("dcontext"))>> \o Probe(Of("dcontext"))
      \o <<Op({}, dqkv)>>
      \o InTurn([i \in 1..iterations |-> BackwardIteration((i - 1) * ScratchLanes)])
      \o <<Op(Of("dQ") \cup Of("dK"), Of("dQ") \cup Of("dK")),
           Op(dqkv, {<<"dx">>})>> \o Probe({<<"dx">>})
      \o <<Op({<<"x">>} \cup dqkv, {<<"dWqkv">>})>> \o Probe({<<"dWqkv">>})
      \o <<Op(dqkv, {<<"dbqkv">>})>> \o Probe({<<"dbqkv">>})

AttentionCalls == Forward \o Backward
=============================================================================
