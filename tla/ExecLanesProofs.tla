--------------------------- MODULE ExecLanesProofs --------------------------
(***************************************************************************)
(* Why the lanes cannot be seen: the proofs about ExecLanes, for every     *)
(* number of heads and lanes and every overlap of host and streams.        *)
(***************************************************************************)
EXTENDS ExecLanes, SequenceTheorems, TLAPS

-----------------------------------------------------------------------------
(* What the program has to keep to                                         *)

CallOf(i) == AttentionCalls[i].call

(* The program makes a call of this name after i and before j. *)
Between(name, i, j) == \E k \in Calls : i < k /\ k < j /\ CallOf(k) = name

(* Between the start and the finish of an iteration nothing is given to    *)
(* the default stream and no iteration is started.                         *)
IterationsClose ==
  \A i, j \in Calls :
    (i < j /\ CallOf(i) = "start_iteration"
           /\ CallOf(j) \in {"op", "probe", "start_iteration"})
      => Between("finish_iteration", i, j)

(* Operations of an iteration that conflict are of the same group. *)
GroupsIndependent ==
  \A i, j \in Calls :
    (i < j /\ CallOf(i) = "lane_op" /\ CallOf(j) = "lane_op" /\ Conflict(i, j)
           /\ Between("start_group", i, j))
      => Between("start_iteration", i, j)

-----------------------------------------------------------------------------
(* The inductive invariant                                                 *)

Items ==
  [item : {"kernel", "record", "wait"}, call : Nat, event : Streams, version : Nat]

HostInv ==
  /\ probes \in BOOLEAN
  /\ next \in Nat
  /\ exec_lane_index \in Nat
  /\ active_exec_lane_index \in Lanes
  /\ used_exec_lane_count \in 0..NumLanes
  /\ has_active_exec_group \in BOOLEAN
  /\ in_exec_iteration \in BOOLEAN
  /\ has_active_exec_group =>
       in_exec_iteration /\ active_exec_lane_index < used_exec_lane_count
  /\ in_exec_iteration =>
       \E k \in Calls : /\ k < next
                        /\ CallOf(k) = "start_iteration"
                        /\ ~Between("finish_iteration", k, next)

(* Each stream records one event, in ascending versions. *)
QueueInv ==
  /\ queue \in [Streams -> Seq(Items)]
  /\ recorded \in [Streams -> Nat]
  /\ reached \in [Streams -> Nat]
  /\ running \subseteq Kernels
  /\ \A s \in Streams : reached[s] <= recorded[s]
  /\ \A s \in Streams : \A p \in 1..Len(queue[s]) :
       queue[s][p].item = "record" =>
         /\ queue[s][p] = Record(s, queue[s][p].version)
         /\ reached[s] < queue[s][p].version
         /\ queue[s][p].version <= recorded[s]
  /\ \A s \in Streams : \A p, q \in 1..Len(queue[s]) :
       (p < q /\ queue[s][p].item = "record" /\ queue[s][q].item = "record")
         => queue[s][p].version < queue[s][q].version

(* What runs is at the head of a stream. *)
RunningInv ==
  \A j \in running : \E s \in Streams : queue[s] # <<>> /\ Head(queue[s]) = Kernel(j)

(* Call i is queued on stream s before place p. *)
InFront(i, s, p) == \E q \in 1..Len(queue[s]) : q < p /\ queue[s][q] = Kernel(i)

(* Before place p, stream s waits for the record at place r of stream e. *)
Waits(s, p, e, r) ==
  /\ r \in 1..Len(queue[e])
  /\ queue[e][r].item = "record"
  /\ \E q \in 1..Len(queue[s]) : q < p /\ queue[s][q] = Wait(e, queue[e][r].version)

(* Stream s cannot come to place p before call i has ended: it is queued   *)
(* there, or on a stream waited for, or on a stream that one waits for.    *)
Behind(i, s, p) ==
  \/ InFront(i, s, p)
  \/ \E e \in Streams, r \in Nat : Waits(s, p, e, r) /\ InFront(i, e, r)
FarBehind(i, s, p) ==
  \/ InFront(i, s, p)
  \/ \E e \in Streams, r \in Nat : Waits(s, p, e, r) /\ Behind(i, e, r)

(* Whatever is queued comes after the earlier calls it conflicts with. *)
OrderInv ==
  \A s \in Streams : \A p \in 1..Len(queue[s]) : \A i, j \in Kernels :
    (queue[s][p] = Kernel(j) /\ i < j /\ Conflict(i, j) /\ i \notin finished)
      => FarBehind(i, s, p)

Unfinished == {i \in Kernels : i < next /\ i \notin finished}
EndOf(s) == Len(queue[s]) + 1
Earlier(i) == Between("start_iteration", i, next)

(* What is queued next comes after everything, on the default stream       *)
(* outside an iteration, and on a lane after all of earlier iterations.    *)
EndsInv ==
  /\ \A i \in Unfinished :
       ~in_exec_iteration \/ Earlier(i) => Behind(i, Default, EndOf(Default))
  /\ in_exec_iteration =>
       \A i \in Unfinished :
         IF Earlier(i)
         THEN \A l \in Lanes : FarBehind(i, l, EndOf(l))
         ELSE \E l \in Lanes :
                /\ l < used_exec_lane_count
                /\ InFront(i, l, EndOf(l))
                /\ has_active_exec_group /\ ~Between("start_group", i, next)
                     => l = active_exec_lane_index

KernelsInv ==
  \A s \in Streams : \A p \in 1..Len(queue[s]) :
    queue[s][p].item = "kernel" =>
      queue[s][p] = Kernel(queue[s][p].call) /\ queue[s][p].call \in Kernels

LanesInv == HostInv /\ QueueInv /\ KernelsInv /\ RunningInv /\ OrderInv /\ EndsInv

-----------------------------------------------------------------------------
(* Places in the queues                                                    *)

LEMMA StreamFacts ==
  /\ NumLanes \in Nat \ {0}
  /\ Streams = Events
  /\ Default \in Streams /\ Lanes \subseteq Streams /\ Default \notin Lanes
  /\ Lanes \subseteq Nat
BY LanesAssumption DEF Streams, Events, Default, Ready, Lanes

LEMMA QueueTypes ==
  ASSUME QueueInv, NEW s \in Streams
  PROVE  /\ queue[s] \in Seq(Items)
         /\ Len(queue[s]) \in Nat
         /\ DOMAIN queue[s] = 1..Len(queue[s])
         /\ \A q \in 1..Len(queue[s]) : queue[s][q] \in Items
BY DEF QueueInv

(* The host only appends. *)
Grown ==
  \A s \in Streams :
    /\ Len(queue[s]) \in Nat /\ Len(queue'[s]) \in Nat
    /\ Len(queue[s]) <= Len(queue'[s])
    /\ \A q \in 1..Len(queue[s]) : queue'[s][q] = queue[s][q]

LEMMA GrownKeepsInFront ==
  ASSUME Grown, NEW i, NEW s \in Streams, NEW p \in Int, NEW r \in Int, p <= r,
         InFront(i, s, p)
  PROVE  InFront(i, s, r)'
<1>1. PICK q \in 1..Len(queue[s]) : q < p /\ queue[s][q] = Kernel(i)
  BY DEF InFront
<1>2. q \in 1..Len(queue'[s]) /\ queue'[s][q] = Kernel(i) /\ q < r
  BY <1>1 DEF Grown
<1>3. QED
  BY <1>2 DEF InFront

LEMMA GrownKeepsWaits ==
  ASSUME Grown, NEW s \in Streams, NEW p \in Int, NEW r \in Int, p <= r,
         NEW e \in Streams, NEW n \in Nat, Waits(s, p, e, n)
  PROVE  Waits(s, r, e, n)'
<1>1. PICK q \in 1..Len(queue[s]) : q < p /\ queue[s][q] = Wait(e, queue[e][n].version)
  BY DEF Waits
<1>2. n \in 1..Len(queue[e]) /\ queue[e][n].item = "record"
  BY DEF Waits
<1>3. n \in 1..Len(queue'[e]) /\ queue'[e][n] = queue[e][n]
  BY <1>2 DEF Grown
<1>4. q \in 1..Len(queue'[s]) /\ queue'[s][q] = queue[s][q] /\ q < r
  BY <1>1 DEF Grown
<1>5. QED
  BY <1>1, <1>2, <1>3, <1>4 DEF Waits

LEMMA GrownKeepsBehind ==
  ASSUME Grown, NEW i, NEW s \in Streams, NEW p \in Int, NEW r \in Int, p <= r,
         Behind(i, s, p)
  PROVE  Behind(i, s, r)'
<1>1. CASE InFront(i, s, p)
  BY <1>1, GrownKeepsInFront DEF Behind
<1>2. CASE \E e \in Streams, n \in Nat : Waits(s, p, e, n) /\ InFront(i, e, n)
  <2>1. PICK e \in Streams, n \in Nat : Waits(s, p, e, n) /\ InFront(i, e, n)
    BY <1>2
  <2>2. Waits(s, r, e, n)'
    BY <2>1, GrownKeepsWaits
  <2>3. InFront(i, e, n)'
    BY <2>1, GrownKeepsInFront
  <2>4. QED
    BY <2>2, <2>3 DEF Behind
<1>3. QED
  BY <1>1, <1>2 DEF Behind

LEMMA GrownKeepsFarBehind ==
  ASSUME Grown, NEW i, NEW s \in Streams, NEW p \in Int, NEW r \in Int, p <= r,
         FarBehind(i, s, p)
  PROVE  FarBehind(i, s, r)'
<1>1. CASE InFront(i, s, p)
  BY <1>1, GrownKeepsInFront DEF FarBehind
<1>2. CASE \E e \in Streams, n \in Nat : Waits(s, p, e, n) /\ Behind(i, e, n)
  <2>1. PICK e \in Streams, n \in Nat : Waits(s, p, e, n) /\ Behind(i, e, n)
    BY <1>2
  <2>2. Waits(s, r, e, n)'
    BY <2>1, GrownKeepsWaits
  <2>3. Behind(i, e, n)'
    BY <2>1, GrownKeepsBehind
  <2>4. QED
    BY <2>2, <2>3 DEF FarBehind
<1>3. QED
  BY <1>1, <1>2 DEF FarBehind

LEMMA BehindIsFarBehind ==
  ASSUME NEW i, NEW s \in Streams, NEW p, Behind(i, s, p)
  PROVE  FarBehind(i, s, p)
BY DEF Behind, FarBehind

(* The device takes the item at the head of stream t. *)
Pops(t) == queue[t] # <<>> /\ Popped(t)
PlaceAfter(t, s, p) == IF s = t THEN p - 1 ELSE p

LEMMA PoppedQueues ==
  ASSUME QueueInv, NEW t \in Streams, Pops(t)
  PROVE  /\ queue' \in [Streams -> Seq(Items)]
         /\ queue[t][1] = Head(queue[t])
         /\ Len(queue[t]) >= 1
         /\ \A s \in Streams : /\ Len(queue'[s]) = IF s = t THEN Len(queue[s]) - 1
                                                   ELSE Len(queue[s])
                               /\ Len(queue'[s]) \in Nat
         /\ \A s \in Streams : s # t => queue'[s] = queue[s]
         /\ \A q \in 1..Len(queue'[t]) : queue'[t][q] = queue[t][q + 1]
<1>1. queue \in [Streams -> Seq(Items)] /\ queue' = [queue EXCEPT ![t] = Tail(queue[t])]
  BY DEF QueueInv, Pops, Popped
<1>2. /\ queue[t] \in Seq(Items) /\ queue[t] # <<>>
      /\ queue'[t] = Tail(queue[t])
  BY <1>1 DEF Pops
<1>3. /\ Tail(queue[t]) \in Seq(Items)
      /\ Len(Tail(queue[t])) = Len(queue[t]) - 1
      /\ \A q \in 1..Len(Tail(queue[t])) : Tail(queue[t])[q] = queue[t][q + 1]
  BY <1>2, HeadTailProperties
<1>4. /\ Len(queue[t]) >= 1 /\ queue[t][1] = Head(queue[t])
      /\ Len(queue[t]) \in Nat /\ Len(Tail(queue[t])) \in Nat
  BY <1>2, <1>3
<1>5. \A s \in Streams : s # t => queue'[s] = queue[s] /\ Len(queue[s]) \in Nat
  BY <1>1
<1>6. queue' \in [Streams -> Seq(Items)]
  BY <1>1, <1>3
<1>7. QED
  BY <1>2, <1>3, <1>4, <1>5, <1>6

LEMMA PopKeepsInFront ==
  ASSUME QueueInv, NEW t \in Streams, Pops(t),
         NEW i, Head(queue[t]) # Kernel(i),
         NEW s \in Streams, NEW p \in Int, InFront(i, s, p)
  PROVE  InFront(i, s, PlaceAfter(t, s, p))'
<1>1. PICK q \in 1..Len(queue[s]) : q < p /\ queue[s][q] = Kernel(i)
  BY DEF InFront
<1>2. CASE s # t
  <2>1. queue'[s] = queue[s] /\ PlaceAfter(t, s, p) = p
    BY <1>2, PoppedQueues DEF PlaceAfter
  <2>2. QED
    BY <1>1, <2>1 DEF InFront
<1>3. CASE s = t
  <2>1. q # 1
    BY <1>1, <1>3, PoppedQueues
  <2>2. Len(queue'[t]) = Len(queue[t]) - 1 /\ Len(queue[t]) \in Nat
    BY PoppedQueues, QueueTypes
  <2>3. q - 1 \in 1..Len(queue'[t]) /\ (q - 1) + 1 = q /\ q - 1 < p - 1
    BY <1>1, <1>3, <2>1, <2>2
  <2>4. queue'[t][q - 1] = Kernel(i)
    <3>1. queue'[t][q - 1] = queue[t][(q - 1) + 1]
      BY <2>3, PoppedQueues
    <3>2. QED
      BY <1>1, <1>3, <2>3, <3>1
  <2>5. QED
    BY <1>3, <2>3, <2>4 DEF InFront, PlaceAfter
<1>4. QED
  BY <1>2, <1>3

(* A wait is taken only when its record has been. *)
WaitIsOver(t) ==
  Head(queue[t]).item = "wait" =>
    Head(queue[t]).version <= reached[Head(queue[t]).event]

LEMMA PopKeepsWaits ==
  ASSUME QueueInv, NEW t \in Streams, Pops(t), WaitIsOver(t),
         NEW s \in Streams, NEW p \in Int,
         NEW e \in Streams, NEW n \in Nat, n > 1, Waits(s, p, e, n)
  PROVE  /\ Waits(s, PlaceAfter(t, s, p), e, PlaceAfter(t, e, n))'
         /\ PlaceAfter(t, e, n) \in Nat
<1> DEFINE v == queue[e][n].version
           m == PlaceAfter(t, e, n)
<1>1. PICK q \in 1..Len(queue[s]) : q < p /\ queue[s][q] = Wait(e, v)
  BY DEF Waits
<1>2. n \in 1..Len(queue[e]) /\ queue[e][n].item = "record"
  BY DEF Waits
<1>3. reached[e] < v /\ v \in Nat /\ reached[e] \in Nat
  BY <1>2, QueueTypes DEF QueueInv, Items
<1>4. Len(queue[e]) \in Nat /\ Len(queue[s]) \in Nat
  BY QueueTypes
<1>5. m \in 1..Len(queue'[e]) /\ queue'[e][m] = queue[e][n]
  <2>1. CASE e # t
    BY <1>2, <2>1, PoppedQueues DEF PlaceAfter
  <2>2. CASE e = t
    <3>1. m = n - 1 /\ Len(queue'[e]) = Len(queue[e]) - 1
      BY <2>2, PoppedQueues DEF PlaceAfter
    <3>2. m \in 1..Len(queue'[e]) /\ m + 1 = n
      BY <1>2, <1>4, <3>1
    <3>3. queue'[e][m] = queue[e][m + 1]
      BY <2>2, <3>2, PoppedQueues
    <3>4. QED
      BY <3>2, <3>3
  <2>3. QED
    BY <2>1, <2>2
<1>6. \E x \in 1..Len(queue'[s]) : x < PlaceAfter(t, s, p) /\ queue'[s][x] = Wait(e, v)
  <2>1. CASE s # t
    BY <1>1, <2>1, PoppedQueues DEF PlaceAfter
  <2>2. CASE s = t
    <3>1. q # 1
      <4>1. SUFFICES ASSUME q = 1 PROVE FALSE
        OBVIOUS
      <4>2. Head(queue[t]) = Wait(e, v)
        BY <1>1, <2>2, <4>1, PoppedQueues
      <4>3. v <= reached[e]
        BY <4>2 DEF WaitIsOver, Wait
      <4>4. QED
        BY <1>3, <4>3
    <3>2. Len(queue'[s]) = Len(queue[s]) - 1
      BY <2>2, PoppedQueues
    <3>3. q - 1 \in 1..Len(queue'[s]) /\ (q - 1) + 1 = q /\ q - 1 < p - 1
      BY <1>1, <1>4, <3>1, <3>2
    <3>4. queue'[s][q - 1] = queue[s][(q - 1) + 1]
      BY <2>2, <3>3, PoppedQueues
    <3>5. QED
      BY <1>1, <2>2, <3>3, <3>4 DEF PlaceAfter
  <2>3. QED
    BY <2>1, <2>2
<1>7. Waits(s, PlaceAfter(t, s, p), e, m)'
  BY <1>2, <1>5, <1>6 DEF Waits
<1>8. QED
  BY <1>5, <1>7, PoppedQueues

LEMMA NothingBehindHead ==
  ASSUME NEW s \in Streams, NEW p \in Int, p <= 1, NEW i
  PROVE  ~InFront(i, s, p) /\ ~Behind(i, s, p) /\ ~FarBehind(i, s, p)
<1>1. ~InFront(i, s, p)
  BY DEF InFront
<1>2. \A e, n : ~Waits(s, p, e, n)
  BY DEF Waits
<1>3. QED
  BY <1>1, <1>2 DEF Behind, FarBehind

LEMMA PopKeepsBehind ==
  ASSUME QueueInv, NEW t \in Streams, Pops(t), WaitIsOver(t),
         NEW i, Head(queue[t]) # Kernel(i),
         NEW s \in Streams, NEW p \in Int, Behind(i, s, p)
  PROVE  Behind(i, s, PlaceAfter(t, s, p))'
<1>1. CASE InFront(i, s, p)
  BY <1>1, PopKeepsInFront DEF Behind
<1>2. CASE \E e \in Streams, n \in Nat : Waits(s, p, e, n) /\ InFront(i, e, n)
  <2>1. PICK e \in Streams, n \in Nat : Waits(s, p, e, n) /\ InFront(i, e, n)
    BY <1>2
  <2>2. n > 1
    BY <2>1, NothingBehindHead
  <2>3. /\ Waits(s, PlaceAfter(t, s, p), e, PlaceAfter(t, e, n))'
        /\ PlaceAfter(t, e, n) \in Nat
    BY <2>1, <2>2, PopKeepsWaits
  <2>4. InFront(i, e, PlaceAfter(t, e, n))'
    BY <2>1, PopKeepsInFront
  <2>5. QED
    BY <2>3, <2>4 DEF Behind
<1>3. QED
  BY <1>1, <1>2 DEF Behind

LEMMA PopKeepsFarBehind ==
  ASSUME QueueInv, NEW t \in Streams, Pops(t), WaitIsOver(t),
         NEW i, Head(queue[t]) # Kernel(i),
         NEW s \in Streams, NEW p \in Int, FarBehind(i, s, p)
  PROVE  FarBehind(i, s, PlaceAfter(t, s, p))'
<1>1. CASE InFront(i, s, p)
  BY <1>1, PopKeepsInFront DEF FarBehind
<1>2. CASE \E e \in Streams, n \in Nat : Waits(s, p, e, n) /\ Behind(i, e, n)
  <2>1. PICK e \in Streams, n \in Nat : Waits(s, p, e, n) /\ Behind(i, e, n)
    BY <1>2
  <2>2. n > 1
    BY <2>1, NothingBehindHead
  <2>3. /\ Waits(s, PlaceAfter(t, s, p), e, PlaceAfter(t, e, n))'
        /\ PlaceAfter(t, e, n) \in Nat
    BY <2>1, <2>2, PopKeepsWaits
  <2>4. Behind(i, e, PlaceAfter(t, e, n))'
    BY <2>1, PopKeepsBehind
  <2>5. QED
    BY <2>3, <2>4 DEF FarBehind
<1>3. QED
  BY <1>1, <1>2 DEF FarBehind

-----------------------------------------------------------------------------
(* The host                                                                *)

LEMMA ItemTypes ==
  ASSUME NEW i \in Nat, NEW e \in Streams, NEW v \in Nat
  PROVE  /\ Kernel(i) \in Items /\ Record(e, v) \in Items /\ Wait(e, v) \in Items
         /\ Kernel(i).item = "kernel" /\ Kernel(i).call = i
         /\ Record(e, v).item = "record" /\ Record(e, v).version = v
         /\ Wait(e, v).item = "wait"
BY StreamFacts DEF Kernel, Record, Wait, Items, Ready, Default

(* Nothing is given to the default stream during an iteration. *)
LEMMA OutsideIteration ==
  ASSUME IterationsClose, Calls \subseteq Nat, HostInv, next \in Calls,
         CallOf(next) \in {"op", "probe", "start_iteration"}
  PROVE  ~in_exec_iteration
<1>1. SUFFICES ASSUME in_exec_iteration PROVE FALSE
  BY DEF HostInv
<1>2. PICK k \in Calls : /\ k < next /\ CallOf(k) = "start_iteration"
                         /\ ~Between("finish_iteration", k, next)
  BY <1>1 DEF HostInv
<1>3. QED
  BY <1>2 DEF IterationsClose

(* What has been given out during an iteration is given to lanes. *)
LEMMA LaneOpsOnly ==
  ASSUME IterationsClose, Calls \subseteq Nat, HostInv, in_exec_iteration,
         NEW i \in Unfinished, ~Earlier(i)
  PROVE  CallOf(i) = "lane_op"
<1>1. PICK k \in Calls : /\ k < next /\ CallOf(k) = "start_iteration"
                         /\ ~Between("finish_iteration", k, next)
  BY DEF HostInv
<1>2. i \in Calls /\ i < next /\ CallOf(i) \in {"op", "lane_op", "probe"}
  BY DEF Unfinished, Kernels, CallOf
<1>3. next \in Nat /\ i \in Nat /\ k \in Nat
  BY <1>1, <1>2 DEF HostInv
<1>4. k < i
  BY <1>1, <1>2, <1>3 DEF Earlier, Between
<1>5. SUFFICES ASSUME CallOf(i) \in {"op", "probe"} PROVE FALSE
  BY <1>2
<1>6. Between("finish_iteration", k, i)
  BY <1>1, <1>2, <1>4, <1>5 DEF IterationsClose
<1>7. PICK m \in Calls : k < m /\ m < i /\ CallOf(m) = "finish_iteration"
  BY <1>6 DEF Between
<1>8. m < next /\ m \in Nat
  BY <1>2, <1>3, <1>7
<1>9. QED
  BY <1>1, <1>7, <1>8 DEF Between

(* One call further, what lies between changes only by that call. *)
LEMMA BetweenNext ==
  ASSUME Calls \subseteq Nat, next \in Calls, NEW name, NEW i \in Nat, i < next
  PROVE  /\ CallOf(next) # name =>
              (Between(name, i, next + 1) <=> Between(name, i, next))
         /\ CallOf(next) = name => Between(name, i, next + 1)
<1>1. next \in Nat
  OBVIOUS
<1>2. \A k \in Calls : k < next + 1 <=> (k < next \/ k = next)
  BY <1>1
<1>3. QED
  BY <1>1, <1>2 DEF Between

LEMMA HostStep ==
  ASSUME Calls \subseteq Nat, LanesInv, [Next]_vars
  PROVE  HostInv'
<1> USE DEF LanesInv
<1>1. HostInv
  OBVIOUS
<1>2. NumLanes \in Nat \ {0} /\ 0 \in Lanes
  BY StreamFacts DEF Lanes
<1>3. ASSUME next' = next, UNCHANGED host
      PROVE  HostInv'
  BY <1>1, <1>3 DEF HostInv, host, Between
<1>4. ASSUME next \in Calls, Returned, UNCHANGED host,
             CallOf(next) # "finish_iteration"
      PROVE  HostInv'
  <2>1. next' = next + 1 /\ next \in Nat
    BY <1>4 DEF Returned
  <2>2. \A k \in Calls : k < next /\ ~Between("finish_iteration", k, next)
            => k < next + 1 /\ ~Between("finish_iteration", k, next + 1)
    BY <1>4, <2>1, BetweenNext
  <2>3. /\ probes' = probes
        /\ exec_lane_index' = exec_lane_index
        /\ active_exec_lane_index' = active_exec_lane_index
        /\ used_exec_lane_count' = used_exec_lane_count
        /\ has_active_exec_group' = has_active_exec_group
        /\ in_exec_iteration' = in_exec_iteration
    BY <1>4 DEF host
  <2>4. \A k : Between("finish_iteration", k, next)' <=> Between("finish_iteration", k, next + 1)
    BY <2>1 DEF Between
  <2>5. QED
    BY <1>1, <2>1, <2>2, <2>3, <2>4 DEF HostInv
<1>5. CASE IssueOp
  BY <1>4, <1>5 DEF IssueOp, Calling, CallOf
<1>6. CASE IssueLaneOp
  BY <1>4, <1>6 DEF IssueLaneOp, Calling, CallOf
<1>7. CASE ProbeStarts
  BY <1>3, <1>7 DEF ProbeStarts
<1>8. CASE ProbeReturns
  BY <1>4, <1>8 DEF ProbeReturns, Calling, CallOf
<1>9. CASE ProbeIsOff
  BY <1>4, <1>9 DEF ProbeIsOff, Calling, CallOf
<1>10. CASE StartIteration
  <2>1. /\ next \in Calls /\ CallOf(next) = "start_iteration"
        /\ next' = next + 1 /\ next \in Nat
        /\ exec_lane_index' = 0 /\ probes' = probes /\ active_exec_lane_index' = 0
        /\ used_exec_lane_count' = 0 /\ has_active_exec_group' = FALSE
        /\ in_exec_iteration' = TRUE
    BY <1>10 DEF StartIteration, Calling, Returned, CallOf
  <2>2. ~Between("finish_iteration", next, next')
    BY <2>1 DEF Between
  <2>3. next < next'
    BY <2>1
  <2>4. \E k \in Calls : /\ k < next' /\ CallOf(k) = "start_iteration"
                         /\ ~Between("finish_iteration", k, next')
    BY <2>1, <2>2, <2>3
  <2>5. \A k : Between("finish_iteration", k, next)' <=> Between("finish_iteration", k, next')
    BY DEF Between
  <2>6. 0 \in 0..NumLanes /\ next' \in Nat /\ 0 \in Nat
    BY <1>2, <2>1
  <2>7. QED
    BY <1>2, <1>1, <2>1, <2>4, <2>5, <2>6 DEF HostInv
<1>11. CASE StartGroup
  <2>1. /\ next \in Calls /\ CallOf(next) = "start_group"
        /\ next' = next + 1 /\ next \in Nat
        /\ in_exec_iteration
        /\ active_exec_lane_index' = exec_lane_index % NumLanes
        /\ used_exec_lane_count' =
             IF active_exec_lane_index' + 1 > used_exec_lane_count
             THEN active_exec_lane_index' + 1 ELSE used_exec_lane_count
        /\ has_active_exec_group' = TRUE
        /\ UNCHANGED <<probes, exec_lane_index, in_exec_iteration>>
    BY <1>11 DEF StartGroup, Calling, Returned, CallOf
  <2>2. active_exec_lane_index' \in 0..(NumLanes - 1)
    BY <1>2, <1>1, <2>1 DEF HostInv
  <2>3. used_exec_lane_count' \in 0..NumLanes /\ active_exec_lane_index' < used_exec_lane_count'
    BY <1>2, <1>1, <2>1, <2>2 DEF HostInv
  <2>4. \E k \in Calls : /\ k < next' /\ CallOf(k) = "start_iteration"
                         /\ ~Between("finish_iteration", k, next')
    BY <1>1, <2>1, BetweenNext DEF HostInv
  <2>5. QED
    BY <1>1, <2>1, <2>2, <2>3, <2>4 DEF HostInv, Lanes, Between
<1>12. CASE FinishGroup
  <2>1. /\ next \in Calls /\ CallOf(next) = "finish_group"
        /\ next' = next + 1 /\ next \in Nat
        /\ has_active_exec_group' = FALSE
        /\ exec_lane_index' = exec_lane_index + 1
        /\ UNCHANGED <<probes, active_exec_lane_index, used_exec_lane_count, in_exec_iteration>>
    BY <1>12 DEF FinishGroup, Calling, Returned, CallOf
  <2>2. in_exec_iteration =>
          \E k \in Calls : /\ k < next' /\ CallOf(k) = "start_iteration"
                           /\ ~Between("finish_iteration", k, next')
    BY <1>1, <2>1, BetweenNext DEF HostInv
  <2>3. \A k : Between("finish_iteration", k, next)' <=> Between("finish_iteration", k, next')
    BY DEF Between
  <2>4. next' \in Nat /\ exec_lane_index' \in Nat
    BY <1>1, <2>1 DEF HostInv
  <2>5. QED
    BY <1>1, <2>1, <2>2, <2>3, <2>4 DEF HostInv
<1>13. CASE FinishIteration
  <2>1. /\ next' = next + 1 /\ next \in Nat
        /\ in_exec_iteration' = FALSE /\ ~has_active_exec_group
        /\ UNCHANGED <<probes, exec_lane_index, active_exec_lane_index,
                       used_exec_lane_count, has_active_exec_group>>
    BY <1>13 DEF FinishIteration, Returned, Calling
  <2>2. next' \in Nat
    BY <2>1
  <2>3. QED
    BY <1>1, <2>1, <2>2 DEF HostInv
<1>14. ASSUME NEW s \in Streams, Stream(s)
       PROVE  HostInv'
  BY <1>3, <1>14 DEF Stream, StartKernel, EndKernel, ReachRecord, PassWait
<1>15. CASE UNCHANGED vars
  BY <1>3, <1>15 DEF vars
<1>16. QED
  BY <1>5, <1>6, <1>7, <1>8, <1>9, <1>10, <1>11, <1>12, <1>13, <1>14, <1>15
     DEF Next, Host

(* An item more on one stream. *)
LEMMA OneQueued ==
  ASSUME QueueInv, NEW t \in Streams, NEW x \in Items,
         queue' = [queue EXCEPT ![t] = Append(@, x)]
  PROVE  /\ Grown
         /\ queue' \in [Streams -> Seq(Items)]
         /\ \A s \in Streams : s # t => queue'[s] = queue[s]
         /\ Len(queue'[t]) = Len(queue[t]) + 1
         /\ queue'[t][Len(queue[t]) + 1] = x
<1>1. queue \in [Streams -> Seq(Items)]
  BY DEF QueueInv
<1>2. /\ queue'[t] = Append(queue[t], x)
      /\ \A s \in Streams : s # t => queue'[s] = queue[s]
  BY <1>1
<1>3. /\ Append(queue[t], x) \in Seq(Items)
      /\ Len(Append(queue[t], x)) = Len(queue[t]) + 1
      /\ \A q \in 1..Len(queue[t]) : Append(queue[t], x)[q] = queue[t][q]
      /\ Append(queue[t], x)[Len(queue[t]) + 1] = x
  BY <1>1, AppendProperties
<1>4. queue' \in [Streams -> Seq(Items)]
  BY <1>1, <1>3
<1>5. ASSUME NEW s \in Streams
      PROVE  /\ Len(queue[s]) \in Nat /\ Len(queue'[s]) \in Nat
             /\ Len(queue[s]) <= Len(queue'[s])
             /\ \A q \in 1..Len(queue[s]) : queue'[s][q] = queue[s][q]
  <2>1. Len(queue[s]) \in Nat
    BY QueueTypes
  <2>2. CASE s = t
    BY <1>2, <1>3, <2>1, <2>2
  <2>3. CASE s # t
    BY <1>2, <2>1, <2>3
  <2>4. QED
    BY <2>2, <2>3
<1>6. Grown
  BY <1>5 DEF Grown
<1>7. QED
  BY <1>2, <1>3, <1>4, <1>6

(* ... and one more on every stream. *)
LEMMA OneQueuedOnEach ==
  ASSUME QueueInv, NEW x \in [Streams -> Items],
         queue' = [s \in Streams |-> Append(queue[s], x[s])]
  PROVE  /\ Grown
         /\ queue' \in [Streams -> Seq(Items)]
         /\ \A s \in Streams : /\ Len(queue'[s]) = Len(queue[s]) + 1
                               /\ queue'[s][Len(queue[s]) + 1] = x[s]
<1>1. ASSUME NEW s \in Streams
      PROVE  /\ queue'[s] \in Seq(Items)
             /\ Len(queue[s]) \in Nat
             /\ Len(queue'[s]) = Len(queue[s]) + 1
             /\ \A q \in 1..Len(queue[s]) : queue'[s][q] = queue[s][q]
             /\ queue'[s][Len(queue[s]) + 1] = x[s]
  <2>1. queue[s] \in Seq(Items) /\ Len(queue[s]) \in Nat /\ x[s] \in Items
    BY QueueTypes
  <2>2. queue'[s] = Append(queue[s], x[s])
    OBVIOUS
  <2>3. QED
    BY <2>1, <2>2, AppendProperties
<1>2. queue' \in [Streams -> Seq(Items)]
  BY <1>1
<1>3. Grown
  BY <1>1 DEF Grown
<1>4. QED
  BY <1>1, <1>2, <1>3

(* What the finish of an iteration queues: a record on every used lane,    *)
(* the waits for them on the default stream.                               *)
LEMMA IterationFinished ==
  ASSUME HostInv, QueueInv, FinishIteration
  PROVE  /\ Grown
         /\ queue' \in [Streams -> Seq(Items)]
         /\ recorded' \in [Streams -> Nat]
         /\ \A s \in Streams :
              recorded'[s] = IF s \in UsedLanes THEN recorded[s] + 1 ELSE recorded[s]
         /\ \A l \in UsedLanes :
              /\ Len(queue'[l]) = Len(queue[l]) + 1
              /\ queue'[l][Len(queue[l]) + 1] = Record(l, recorded'[l])
         /\ \A s \in Streams \ UsedLanes : s # Default => queue'[s] = queue[s]
         /\ Len(queue'[Default]) = Len(queue[Default]) + used_exec_lane_count
         /\ \A i \in 1..used_exec_lane_count :
              queue'[Default][Len(queue[Default]) + i] = Wait(i - 1, recorded'[i - 1])
<1> DEFINE used == used_exec_lane_count
           waits == [i \in 1..used |-> Wait(i - 1, recorded'[i - 1])]
<1>1. /\ recorded \in [Streams -> Nat] /\ queue \in [Streams -> Seq(Items)]
      /\ used \in 0..NumLanes
  BY DEF QueueInv, HostInv
<1>2. /\ recorded' = [e \in Streams |-> IF e \in UsedLanes THEN recorded[e] + 1 ELSE recorded[e]]
      /\ queue' = [s \in Streams |->
            CASE s = Default -> queue[s] \o waits
              [] s \in UsedLanes -> Append(queue[s], Record(s, recorded'[s]))
              [] OTHER -> queue[s]]
  BY StreamFacts DEF FinishIteration
<1>3. recorded' \in [Streams -> Nat]
  BY <1>1, <1>2
<1>4. \A i \in 1..used : i - 1 \in UsedLanes /\ i - 1 \in Streams
  BY <1>1, StreamFacts DEF UsedLanes, Lanes
<1>5. waits \in Seq(Items) /\ Len(waits) = used
  <2>1. \A i \in 1..used : Wait(i - 1, recorded'[i - 1]) \in Items
    BY <1>3, <1>4, ItemTypes
  <2>2. used \in Nat
    BY <1>1, StreamFacts
  <2> HIDE DEF used
  <2>3. waits \in [1..used -> Items]
    BY <2>1
  <2>4. QED
    BY <2>2, <2>3
<1>6. /\ Default \in Streams /\ Default \notin UsedLanes
      /\ UsedLanes \subseteq Streams
  BY StreamFacts DEF UsedLanes
<1> HIDE DEF waits
<1>7. /\ queue'[Default] = queue[Default] \o waits
      /\ \A s \in UsedLanes : queue'[s] = Append(queue[s], Record(s, recorded'[s]))
      /\ \A s \in Streams \ UsedLanes : s # Default => queue'[s] = queue[s]
  BY <1>2, <1>6
<1>8. /\ queue'[Default] \in Seq(Items)
      /\ Len(queue[Default]) \in Nat
      /\ Len(queue'[Default]) = Len(queue[Default]) + used
      /\ \A q \in 1..Len(queue[Default]) : queue'[Default][q] = queue[Default][q]
      /\ \A i \in 1..used :
           queue'[Default][Len(queue[Default]) + i] = Wait(i - 1, recorded'[i - 1])
  <2> DEFINE n == Len(queue[Default])
  <2>1. n \in Nat /\ queue[Default] \in Seq(Items) /\ used \in Nat
    BY <1>1, <1>6, QueueTypes, StreamFacts
  <2>2. /\ queue[Default] \o waits \in Seq(Items)
        /\ Len(queue[Default] \o waits) = n + used
        /\ \A q \in 1..(n + used) : (queue[Default] \o waits)[q] =
             IF q <= n THEN queue[Default][q] ELSE waits[q - n]
    BY <1>5, <2>1, ConcatProperties
  <2> HIDE DEF n, used
  <2>3. \A q \in 1..n : (queue[Default] \o waits)[q] = queue[Default][q]
    BY <2>1, <2>2
  <2>4. \A i \in 1..used : (queue[Default] \o waits)[n + i] = waits[i]
    <3>1. SUFFICES ASSUME NEW i \in 1..used
                   PROVE  (queue[Default] \o waits)[n + i] = waits[i]
      OBVIOUS
    <3>2. n + i \in 1..(n + used) /\ ~(n + i <= n) /\ (n + i) - n = i
      BY <2>1
    <3>3. (queue[Default] \o waits)[n + i] = waits[(n + i) - n]
      BY <2>2, <3>2
    <3>4. QED
      BY <3>2, <3>3
  <2>5. \A i \in 1..used : waits[i] = Wait(i - 1, recorded'[i - 1])
    BY DEF waits
  <2>6. QED
    BY <1>7, <2>1, <2>2, <2>3, <2>4, <2>5 DEF n
<1>9. ASSUME NEW l \in UsedLanes
      PROVE  /\ queue'[l] \in Seq(Items) /\ Len(queue[l]) \in Nat
             /\ Len(queue'[l]) = Len(queue[l]) + 1
             /\ \A q \in 1..Len(queue[l]) : queue'[l][q] = queue[l][q]
             /\ queue'[l][Len(queue[l]) + 1] = Record(l, recorded'[l])
  <2>1. l \in Streams /\ queue[l] \in Seq(Items) /\ Len(queue[l]) \in Nat
    BY <1>6, QueueTypes
  <2>2. Record(l, recorded'[l]) \in Items
    BY <1>3, <2>1, ItemTypes
  <2>3. queue'[l] = Append(queue[l], Record(l, recorded'[l]))
    BY <1>7
  <2>4. QED
    BY <2>1, <2>2, <2>3, AppendProperties
<1>10. ASSUME NEW s \in Streams
       PROVE  /\ queue'[s] \in Seq(Items)
              /\ Len(queue[s]) \in Nat /\ Len(queue'[s]) \in Nat
              /\ Len(queue[s]) <= Len(queue'[s])
              /\ \A q \in 1..Len(queue[s]) : queue'[s][q] = queue[s][q]
  <2>1. CASE s = Default
    <3>1. used \in Nat
      BY <1>1, StreamFacts
    <3> HIDE DEF used
    <3>2. QED
      BY <1>8, <2>1, <3>1
  <2>2. CASE s \in UsedLanes
    BY <1>9, <2>2
  <2>3. CASE s # Default /\ s \notin UsedLanes
    BY <1>7, <2>3, QueueTypes
  <2>4. QED
    BY <2>1, <2>2, <2>3
<1>11. Grown
  BY <1>10 DEF Grown
<1>12. queue' \in [Streams -> Seq(Items)]
  BY <1>2, <1>10
<1>13. \A s \in Streams :
         recorded'[s] = IF s \in UsedLanes THEN recorded[s] + 1 ELSE recorded[s]
  BY <1>2
<1>14. QED
  BY <1>3, <1>7, <1>8, <1>9, <1>11, <1>12, <1>13

(* The items that are new on stream s when the host has made a call. *)
NewKernel(s, q) ==
  /\ queue'[s][q] = Kernel(next)
  /\ next \in Kernels
  /\ q = EndOf(s)
  /\ \/ s = Default /\ CallOf(next) \in {"op", "probe"}
     \/ s = active_exec_lane_index /\ CallOf(next) = "lane_op" /\ has_active_exec_group
NewRecord(s, q) ==
  /\ queue'[s][q] = Record(s, recorded'[s])
  /\ q = EndOf(s)
  /\ recorded'[s] = recorded[s] + 1
NewWait(s, q) == queue'[s][q].item = "wait"

Queued ==
  /\ Grown
  /\ queue' \in [Streams -> Seq(Items)]
  /\ recorded' \in [Streams -> Nat]
  /\ \A s \in Streams : recorded[s] <= recorded'[s]
  /\ \A s \in Streams : \A q \in 1..Len(queue'[s]) :
       q <= Len(queue[s]) \/ NewKernel(s, q) \/ NewRecord(s, q) \/ NewWait(s, q)
  /\ UNCHANGED <<running, finished, reached, probes>>

LEMMA OneKernelQueued ==
  ASSUME QueueInv, Calls \subseteq Nat, NEW t \in Streams, next \in Kernels,
         queue' = [queue EXCEPT ![t] = Append(@, Kernel(next))],
         UNCHANGED <<running, finished, reached, probes, recorded>>,
         \/ t = Default /\ CallOf(next) \in {"op", "probe"}
         \/ t = active_exec_lane_index /\ CallOf(next) = "lane_op" /\ has_active_exec_group
  PROVE  Queued
<1>1. next \in Nat /\ Kernel(next) \in Items
  <2>1. next \in Nat
    BY DEF Kernels
  <2>2. QED
    BY <2>1, ItemTypes, StreamFacts
<1>2. /\ Grown
      /\ queue' \in [Streams -> Seq(Items)]
      /\ \A s \in Streams : s # t => queue'[s] = queue[s]
      /\ Len(queue'[t]) = Len(queue[t]) + 1
      /\ queue'[t][Len(queue[t]) + 1] = Kernel(next)
  BY <1>1, OneQueued
<1>3. recorded' \in [Streams -> Nat] /\ \A s \in Streams : recorded[s] <= recorded'[s]
  BY DEF QueueInv
<1>4. ASSUME NEW s \in Streams, NEW q \in 1..Len(queue'[s])
      PROVE  q <= Len(queue[s]) \/ NewKernel(s, q)
  <2>1. Len(queue[s]) \in Nat
    BY QueueTypes
  <2>2. CASE s # t
    BY <1>2, <2>1, <2>2
  <2>3. CASE s = t
    <3>1. q <= Len(queue[t]) \/ q = Len(queue[t]) + 1
      BY <1>2, <2>1, <2>3
    <3>2. q = Len(queue[t]) + 1 => NewKernel(t, q)
      BY <1>2 DEF NewKernel, EndOf
    <3>3. QED
      BY <2>3, <3>1, <3>2
  <2>4. QED
    BY <2>2, <2>3
<1>5. QED
  BY <1>2, <1>3, <1>4 DEF Queued

LEMMA HostQueues ==
  ASSUME Calls \subseteq Nat, HostInv, QueueInv, Host
  PROVE  Queued
<1>1. ASSUME UNCHANGED <<queue, recorded, running, finished, reached, probes>>
      PROVE  Queued
  <2>1. \A s \in Streams : Len(queue[s]) \in Nat /\ Len(queue'[s]) \in Nat
    BY <1>1, QueueTypes
  <2>2. Grown
    BY <1>1, <2>1 DEF Grown
  <2>3. \A s \in Streams : recorded[s] <= recorded'[s]
    BY <1>1 DEF QueueInv
  <2>4. QED
    BY <1>1, <2>1, <2>2, <2>3 DEF Queued, QueueInv
<1>2. CASE IssueOp
  BY <1>2, StreamFacts, OneKernelQueued DEF IssueOp, Calling, CallOf, Kernels, device, host
<1>3. CASE IssueLaneOp
  <2>1. active_exec_lane_index \in Streams
    BY StreamFacts DEF HostInv
  <2>2. QED
    BY <1>3, <2>1, OneKernelQueued DEF IssueLaneOp, Calling, CallOf, Kernels, device, host
<1>4. CASE ProbeStarts
  BY <1>4, StreamFacts, OneKernelQueued DEF ProbeStarts, Calling, CallOf, Kernels, device, host
<1>5. CASE ProbeReturns
  BY <1>1, <1>5 DEF ProbeReturns, device, host
<1>6. CASE ProbeIsOff
  BY <1>1, <1>6 DEF ProbeIsOff, device, host
<1>7. CASE StartIteration
  <2> DEFINE v == recorded[Ready] + 1
             x == [s \in Streams |-> IF s = Default THEN Record(Ready, v) ELSE Wait(Ready, v)]
  <2>1. /\ Ready = Default /\ Default \in Streams
        /\ recorded \in [Streams -> Nat]
        /\ v \in Nat
    BY StreamFacts DEF Ready, Default, QueueInv
  <2>2. x \in [Streams -> Items]
    BY <2>1, ItemTypes
  <2>3. /\ queue' = [s \in Streams |-> Append(queue[s], x[s])]
        /\ recorded' = [recorded EXCEPT ![Default] = v]
        /\ UNCHANGED <<running, finished, reached, probes>>
    BY <1>7, <2>1 DEF StartIteration, device
  <2>4. /\ recorded' \in [Streams -> Nat]
        /\ recorded'[Default] = recorded[Default] + 1
        /\ \A s \in Streams : recorded[s] <= recorded'[s]
    BY <2>1, <2>3
  <2>5. \A s \in Streams : x[s] = Record(Default, recorded'[Default]) \/ s # Default
    BY <2>1, <2>4
  <2>6. \A s \in Streams : s # Default => x[s].item = "wait"
    BY <2>1, ItemTypes
  <2> HIDE DEF x, v
  <2>7. /\ Grown
        /\ queue' \in [Streams -> Seq(Items)]
        /\ \A s \in Streams : /\ Len(queue'[s]) = Len(queue[s]) + 1
                              /\ queue'[s][Len(queue[s]) + 1] = x[s]
    BY <2>2, <2>3, OneQueuedOnEach
  <2>8. ASSUME NEW s \in Streams, NEW q \in 1..Len(queue'[s])
        PROVE  q <= Len(queue[s]) \/ NewRecord(s, q) \/ NewWait(s, q)
    <3>1. q <= Len(queue[s]) \/ q = EndOf(s)
      BY <2>7, QueueTypes DEF EndOf
    <3>2. queue'[s][EndOf(s)] = x[s]
      BY <2>7 DEF EndOf
    <3>3. QED
      BY <2>4, <2>5, <2>6, <3>1, <3>2 DEF NewRecord, NewWait
  <2>9. QED
    BY <2>3, <2>4, <2>7, <2>8 DEF Queued
<1>8. CASE StartGroup
  BY <1>1, <1>8 DEF StartGroup, device
<1>9. CASE FinishGroup
  BY <1>1, <1>9 DEF FinishGroup, device
<1>10. CASE FinishIteration
  <2>1. UNCHANGED <<running, finished, reached, probes>>
    BY <1>10 DEF FinishIteration, device
  <2>2. /\ Grown
        /\ queue' \in [Streams -> Seq(Items)]
        /\ recorded' \in [Streams -> Nat]
        /\ \A s \in Streams :
             recorded'[s] = IF s \in UsedLanes THEN recorded[s] + 1 ELSE recorded[s]
        /\ \A l \in UsedLanes :
             /\ Len(queue'[l]) = Len(queue[l]) + 1
             /\ queue'[l][Len(queue[l]) + 1] = Record(l, recorded'[l])
        /\ \A s \in Streams \ UsedLanes : s # Default => queue'[s] = queue[s]
        /\ Len(queue'[Default]) = Len(queue[Default]) + used_exec_lane_count
        /\ \A i \in 1..used_exec_lane_count :
             queue'[Default][Len(queue[Default]) + i] = Wait(i - 1, recorded'[i - 1])
    BY <1>10, IterationFinished
  <2>3. \A s \in Streams : recorded[s] <= recorded'[s]
    <3>1. \A s \in Streams : recorded[s] \in Nat
      BY DEF QueueInv
    <3>2. \A n \in Nat : n <= n /\ n <= n + 1
      OBVIOUS
    <3>3. QED
      BY <2>2, <3>1, <3>2
  <2>4. ASSUME NEW s \in Streams, NEW q \in 1..Len(queue'[s])
        PROVE  q <= Len(queue[s]) \/ NewRecord(s, q) \/ NewWait(s, q)
    <3>0. Len(queue[s]) \in Nat
      BY QueueTypes
    <3>1. CASE s \in UsedLanes
      <4>1. q <= Len(queue[s]) \/ q = Len(queue[s]) + 1
        BY <2>2, <3>0, <3>1
      <4>2. QED
        BY <2>2, <3>1, <4>1 DEF NewRecord, EndOf
    <3>2. CASE s = Default
      <4> DEFINE n == Len(queue[Default])
                 i == q - n
      <4>1. used_exec_lane_count \in Nat
        BY StreamFacts DEF HostInv
      <4>2. q <= n \/ i \in 1..used_exec_lane_count
        BY <2>2, <3>0, <3>2, <4>1
      <4>3. q = n + i
        BY <3>0, <3>2
      <4>4. i \in 1..used_exec_lane_count => queue'[Default][q] = Wait(i - 1, recorded'[i - 1])
        BY <2>2, <4>3
      <4>5. \A e, w : Wait(e, w).item = "wait"
        BY DEF Wait
      <4>6. QED
        BY <3>2, <4>2, <4>4, <4>5 DEF NewWait
    <3>3. CASE s \notin UsedLanes /\ s # Default
      BY <2>2, <3>0, <3>3
    <3>4. QED
      BY <3>1, <3>2, <3>3
  <2>5. QED
    BY <2>1, <2>2, <2>3, <2>4 DEF Queued
<1>11. QED
  BY <1>2, <1>3, <1>4, <1>5, <1>6, <1>7, <1>8, <1>9, <1>10 DEF Host

LEMMA HostKeepsQueues ==
  ASSUME QueueInv, KernelsInv, RunningInv, Queued
  PROVE  QueueInv' /\ KernelsInv' /\ RunningInv'
<1>1. /\ recorded \in [Streams -> Nat] /\ reached \in [Streams -> Nat]
      /\ queue \in [Streams -> Seq(Items)]
      /\ \A s \in Streams : reached[s] <= recorded[s]
  BY DEF QueueInv
<1>2. /\ queue' \in [Streams -> Seq(Items)]
      /\ recorded' \in [Streams -> Nat]
      /\ reached' = reached /\ running' = running /\ probes' = probes
      /\ \A s \in Streams : recorded[s] <= recorded'[s]
  BY DEF Queued
<1>3. Kernels' = Kernels
  BY <1>2 DEF Kernels
<1>4. \A s \in Streams : reached'[s] <= recorded'[s]
  <2>1. SUFFICES ASSUME NEW s \in Streams PROVE reached[s] <= recorded'[s]
    BY <1>2
  <2>2. reached[s] \in Nat /\ recorded[s] \in Nat /\ recorded'[s] \in Nat
    BY <1>1, <1>2
  <2>3. QED
    BY <1>1, <1>2, <2>2
<1>5. ASSUME NEW s \in Streams, NEW p \in 1..Len(queue'[s])
      PROVE  \/ /\ p \in 1..Len(queue[s])
                /\ queue'[s][p] = queue[s][p]
             \/ p = Len(queue[s]) + 1 /\ queue'[s][p] = Kernel(next) /\ next \in Kernels
             \/ /\ p = Len(queue[s]) + 1 /\ queue'[s][p] = Record(s, recorded'[s])
                /\ recorded'[s] = recorded[s] + 1
             \/ queue'[s][p].item = "wait"
  <2>1. p <= Len(queue[s]) \/ NewKernel(s, p) \/ NewRecord(s, p) \/ NewWait(s, p)
    BY DEF Queued
  <2>2. Len(queue[s]) \in Nat
    BY QueueTypes
  <2>3. p <= Len(queue[s]) => p \in 1..Len(queue[s]) /\ queue'[s][p] = queue[s][p]
    BY <2>2 DEF Queued, Grown
  <2>4. QED
    BY <2>1, <2>3 DEF NewKernel, NewRecord, NewWait, EndOf
<1>6. /\ \A i : Kernel(i).item = "kernel" /\ Kernel(i).call = i
      /\ \A e, v : Record(e, v).item = "record" /\ Record(e, v).version = v
  BY DEF Kernel, Record
<1>7. ASSUME NEW s \in Streams, NEW p \in 1..Len(queue'[s]), queue'[s][p].item = "record"
      PROVE  /\ queue'[s][p] = Record(s, queue'[s][p].version)
             /\ reached[s] < queue'[s][p].version
             /\ queue'[s][p].version <= recorded'[s]
             /\ \/ p \in 1..Len(queue[s]) /\ queue'[s][p] = queue[s][p]
                \/ /\ p = Len(queue[s]) + 1
                   /\ queue'[s][p].version = recorded[s] + 1
  <2>1. reached[s] \in Nat /\ recorded[s] \in Nat /\ recorded'[s] \in Nat
    BY <1>1, <1>2
  <2>2. CASE p \in 1..Len(queue[s]) /\ queue'[s][p] = queue[s][p]
    <3> DEFINE v == queue[s][p].version
    <3>1. /\ queue[s][p] = Record(s, v) /\ reached[s] < v /\ v <= recorded[s]
      BY <1>7, <2>2 DEF QueueInv
    <3>2. v \in Nat
      BY <2>2, QueueTypes DEF Items
    <3>3. v <= recorded'[s]
      BY <1>2, <2>1, <3>1, <3>2
    <3>4. QED
      BY <2>2, <3>1, <3>3
  <2>3. CASE /\ p = Len(queue[s]) + 1 /\ queue'[s][p] = Record(s, recorded'[s])
             /\ recorded'[s] = recorded[s] + 1
    <3>1. queue'[s][p].version = recorded'[s]
      BY <1>6, <2>3
    <3>2. reached[s] < recorded'[s]
      BY <1>1, <2>1, <2>3
    <3>3. QED
      BY <2>1, <2>3, <3>1, <3>2
  <2>4. QED
    BY <1>5, <1>6, <1>7, <2>2, <2>3
<1>8. ASSUME NEW s \in Streams, NEW p \in 1..Len(queue'[s]), NEW q \in 1..Len(queue'[s]),
             p < q, queue'[s][p].item = "record", queue'[s][q].item = "record"
      PROVE  queue'[s][p].version < queue'[s][q].version
  <2>1. Len(queue[s]) \in Nat /\ recorded[s] \in Nat
    BY <1>1, QueueTypes
  <2>2. CASE q \in 1..Len(queue[s]) /\ queue'[s][q] = queue[s][q]
    <3>1. p \in 1..Len(queue[s]) /\ queue'[s][p] = queue[s][p]
      <4>1. p \in 1..Len(queue[s])
        BY <1>8, <2>1, <2>2
      <4>2. QED
        BY <4>1 DEF Queued, Grown
    <3>2. QED
      BY <1>8, <2>2, <3>1 DEF QueueInv
  <2>3. CASE q = Len(queue[s]) + 1 /\ queue'[s][q].version = recorded[s] + 1
    <3>1. p \in 1..Len(queue[s])
      BY <1>8, <2>1, <2>3
    <3>2. queue'[s][p] = queue[s][p]
      BY <3>1 DEF Queued, Grown
    <3>3. queue[s][p].version <= recorded[s] /\ queue[s][p].version \in Nat
      BY <1>8, <3>1, <3>2, QueueTypes DEF QueueInv, Items
    <3>4. QED
      BY <2>1, <2>3, <3>2, <3>3
  <2>4. QED
    BY <1>7, <1>8, <2>2, <2>3
<1>9. running' \subseteq Kernels'
  BY <1>2, <1>3 DEF QueueInv
<1>10. QueueInv'
  BY <1>1, <1>2, <1>4, <1>7, <1>8, <1>9 DEF QueueInv
<1>11. KernelsInv'
  <2>1. SUFFICES ASSUME NEW s \in Streams, NEW p \in 1..Len(queue'[s]),
                        queue'[s][p].item = "kernel"
                 PROVE  queue'[s][p] = Kernel(queue'[s][p].call) /\ queue'[s][p].call \in Kernels
    BY <1>3 DEF KernelsInv
  <2>2. CASE p \in 1..Len(queue[s]) /\ queue'[s][p] = queue[s][p]
    BY <2>1, <2>2 DEF KernelsInv
  <2>3. CASE queue'[s][p] = Kernel(next) /\ next \in Kernels
    BY <1>6, <2>3
  <2>4. QED
    BY <1>5, <1>6, <2>1, <2>2, <2>3
<1>12. RunningInv'
  <2>1. SUFFICES ASSUME NEW j \in running
                 PROVE  \E s \in Streams : queue'[s] # <<>> /\ Head(queue'[s]) = Kernel(j)
    BY <1>2 DEF RunningInv
  <2>2. PICK s \in Streams : queue[s] # <<>> /\ Head(queue[s]) = Kernel(j)
    BY DEF RunningInv
  <2>3. /\ queue[s] \in Seq(Items) /\ queue'[s] \in Seq(Items)
        /\ Len(queue[s]) <= Len(queue'[s])
        /\ \A q \in 1..Len(queue[s]) : queue'[s][q] = queue[s][q]
    BY <1>1, <1>2 DEF Queued, Grown
  <2>4. 1 \in 1..Len(queue[s]) /\ Head(queue[s]) = queue[s][1]
    BY <2>2, <2>3
  <2>5. queue'[s] # <<>> /\ Head(queue'[s]) = queue'[s][1]
    BY <2>3, <2>4
  <2>6. QED
    BY <2>2, <2>3, <2>4, <2>5
<1>13. QED
  BY <1>10, <1>11, <1>12

-----------------------------------------------------------------------------
(* The device                                                              *)

(* What a stream does: it starts a kernel or takes the item at its head.   *)
LEMMA StreamTakes ==
  ASSUME QueueInv, KernelsInv, NEW t \in Streams, Stream(t)
  PROVE  /\ UNCHANGED <<next, host, recorded>>
         /\ finished \subseteq finished'
         /\ \/ UNCHANGED <<queue, reached, finished>>
            \/ /\ Pops(t) /\ WaitIsOver(t)
               /\ \A i : Head(queue[t]) = Kernel(i) => i \in finished'
               /\ \/ reached' = reached /\ Head(queue[t]).item # "record"
                  \/ /\ Head(queue[t]).item = "record"
                     /\ reached' = [reached EXCEPT ![t] = Head(queue[t]).version]
         /\ \/ /\ queue[t] # <<>> /\ queue' = queue
               /\ \E j \in Kernels : /\ Head(queue[t]) = Kernel(j)
                                     /\ running' = running \cup {j}
            \/ /\ queue[t] # <<>> /\ queue' # queue
               /\ \E j \in Kernels : /\ Head(queue[t]) = Kernel(j)
                                     /\ running' = running \ {j}
            \/ /\ Pops(t) /\ running' = running
               /\ \A i : Head(queue[t]) # Kernel(i)
<1>1. \A i : Kernel(i).item = "kernel" /\ Kernel(i).call = i
  BY DEF Kernel
<1>2. queue[t] # <<>> =>
        /\ Head(queue[t]) = queue[t][1] /\ 1 \in 1..Len(queue[t])
        /\ Len(queue[t]) \in Nat
  BY QueueTypes
<1>3. queue[t] # <<>> /\ Popped(t) => queue' # queue
  <2>1. SUFFICES ASSUME queue[t] # <<>>, Popped(t) PROVE queue'[t] # queue[t]
    OBVIOUS
  <2>2. Pops(t)
    BY <2>1 DEF Pops
  <2>3. Len(queue'[t]) = Len(queue[t]) - 1 /\ Len(queue[t]) \in Nat
    BY <2>2, PoppedQueues, QueueTypes
  <2>4. QED
    BY <2>3
<1>4. AtHead(t, "kernel") =>
        Head(queue[t]) = Kernel(Head(queue[t]).call) /\ Head(queue[t]).call \in Kernels
  BY <1>2 DEF AtHead, KernelsInv
<1>5. CASE StartKernel(t)
  BY <1>4, <1>5 DEF StartKernel, AtHead
<1>6. CASE EndKernel(t)
  <2> DEFINE c == Head(queue[t]).call
  <2>1. /\ AtHead(t, "kernel") /\ queue[t] # <<>> /\ Head(queue[t]).item = "kernel"
        /\ Popped(t)
        /\ running' = running \ {c} /\ finished' = finished \cup {c}
        /\ UNCHANGED <<next, host, recorded, reached>>
    BY <1>6 DEF EndKernel, AtHead
  <2>2. Pops(t) /\ WaitIsOver(t)
    BY <2>1 DEF Pops, WaitIsOver
  <2>3. \A i : Head(queue[t]) = Kernel(i) => i \in finished'
    BY <1>1, <2>1
  <2>4. QED
    BY <1>3, <1>4, <2>1, <2>2, <2>3
<1>7. CASE ReachRecord(t)
  <2>1. /\ queue[t] # <<>> /\ Head(queue[t]).item = "record"
        /\ Popped(t)
        /\ reached' = [reached EXCEPT ![Head(queue[t]).event] = Head(queue[t]).version]
        /\ UNCHANGED <<next, host, running, finished, recorded>>
    BY <1>7 DEF ReachRecord, AtHead
  <2>2. Head(queue[t]).event = t
    <3>1. Head(queue[t]) = Record(t, Head(queue[t]).version)
      BY <1>2, <2>1 DEF QueueInv
    <3>2. \A v : Record(t, v).event = t
      BY DEF Record
    <3>3. QED
      BY <3>1, <3>2
  <2>3. Pops(t) /\ WaitIsOver(t)
    BY <2>1 DEF Pops, WaitIsOver
  <2>4. QED
    BY <1>1, <2>1, <2>2, <2>3
<1>8. CASE PassWait(t)
  <2>1. /\ queue[t] # <<>> /\ Head(queue[t]).item = "wait"
        /\ reached[Head(queue[t]).event] >= Head(queue[t]).version
        /\ Popped(t)
        /\ UNCHANGED <<next, host, running, finished, reached, recorded>>
    BY <1>8 DEF PassWait, AtHead, device
  <2>2. Pops(t) /\ WaitIsOver(t)
    <3>1. Head(queue[t]).version \in Nat /\ reached[Head(queue[t]).event] \in Nat
      BY <1>2, <2>1, QueueTypes DEF QueueInv, Items
    <3>2. QED
      BY <2>1, <3>1 DEF Pops, WaitIsOver
  <2>3. QED
    BY <1>1, <2>1, <2>2
<1>9. QED
  BY <1>5, <1>6, <1>7, <1>8 DEF Stream

LEMMA DeviceKeepsQueues ==
  ASSUME QueueInv, KernelsInv, RunningInv, NEW t \in Streams, Stream(t)
  PROVE  QueueInv' /\ KernelsInv' /\ RunningInv'
<1>1. /\ recorded \in [Streams -> Nat] /\ reached \in [Streams -> Nat]
      /\ queue \in [Streams -> Seq(Items)] /\ running \subseteq Kernels
  BY DEF QueueInv
<1>2. recorded' = recorded /\ probes' = probes /\ Kernels' = Kernels
  BY StreamTakes DEF host, Kernels
<1>3. ASSUME UNCHANGED <<queue, reached, finished>>
      PROVE  QueueInv' /\ KernelsInv' /\ RunningInv'
  <2>1. /\ queue[t] # <<>>
        /\ \E j \in Kernels : Head(queue[t]) = Kernel(j) /\ running' = running \cup {j}
    BY <1>3, StreamTakes, PoppedQueues
  <2>2. running' \subseteq Kernels
    BY <1>1, <2>1
  <2>3. QueueInv'
    BY <1>2, <1>3, <2>2 DEF QueueInv
  <2>4. KernelsInv'
    BY <1>2, <1>3 DEF KernelsInv
  <2>5. RunningInv'
    BY <1>3, <2>1 DEF RunningInv
  <2>6. QED
    BY <2>3, <2>4, <2>5
<1>4. ASSUME Pops(t),
             \/ reached' = reached /\ Head(queue[t]).item # "record"
             \/ /\ Head(queue[t]).item = "record"
                /\ reached' = [reached EXCEPT ![t] = Head(queue[t]).version]
      PROVE  QueueInv' /\ KernelsInv' /\ RunningInv'
  <2>1. /\ queue' \in [Streams -> Seq(Items)]
        /\ queue[t][1] = Head(queue[t])
        /\ Len(queue[t]) >= 1
        /\ \A s \in Streams : /\ Len(queue'[s]) = IF s = t THEN Len(queue[s]) - 1
                                                  ELSE Len(queue[s])
                              /\ Len(queue'[s]) \in Nat
        /\ \A s \in Streams : s # t => queue'[s] = queue[s]
        /\ \A q \in 1..Len(queue'[t]) : queue'[t][q] = queue[t][q + 1]
    BY <1>4, PoppedQueues
  <2>2. ASSUME NEW s \in Streams
        PROVE  /\ Len(queue[s]) \in Nat
               /\ \A q \in 1..Len(queue'[s]) :
                    IF s = t THEN q + 1 \in 2..Len(queue[s]) /\ queue'[s][q] = queue[s][q + 1]
                    ELSE q \in 1..Len(queue[s]) /\ queue'[s][q] = queue[s][q]
    <3>1. Len(queue[s]) \in Nat /\ Len(queue'[s]) \in Nat
      BY <2>1, QueueTypes
    <3>2. CASE s = t
      <4>1. Len(queue'[t]) = Len(queue[t]) - 1
        BY <2>1
      <4>2. QED
        BY <2>1, <3>1, <3>2, <4>1
    <3>3. CASE s # t
      BY <2>1, <3>1, <3>3
    <3>4. QED
      BY <3>2, <3>3
  <2>3. Head(queue[t]).item = "record" =>
          /\ reached[t] < Head(queue[t]).version
          /\ Head(queue[t]).version <= recorded[t]
          /\ Head(queue[t]).version \in Nat
    <3>1. 1 \in 1..Len(queue[t])
      BY <2>1, QueueTypes
    <3>2. queue[t][1].version \in Nat
      BY <3>1, QueueTypes DEF Items
    <3>3. queue[t][1].item = "record" =>
            reached[t] < queue[t][1].version /\ queue[t][1].version <= recorded[t]
      BY <3>1 DEF QueueInv
    <3>4. QED
      BY <2>1, <3>2, <3>3
  <2>4. /\ reached' \in [Streams -> Nat]
        /\ \A s \in Streams : s # t => reached'[s] = reached[s]
        /\ \A s \in Streams : reached'[s] <= recorded[s]
    <3>1. CASE reached' = reached
      BY <1>1, <3>1 DEF QueueInv
    <3>2. CASE /\ Head(queue[t]).item = "record"
               /\ reached' = [reached EXCEPT ![t] = Head(queue[t]).version]
      BY <1>1, <2>3, <3>2 DEF QueueInv
    <3>3. QED
      BY <1>4, <3>1, <3>2
  <2>5. ASSUME NEW s \in Streams, NEW q \in 1..Len(queue'[s]), queue'[s][q].item = "record"
        PROVE  /\ queue'[s][q] = Record(s, queue'[s][q].version)
               /\ reached'[s] < queue'[s][q].version
               /\ queue'[s][q].version <= recorded[s]
    <3>1. CASE s # t
      BY <2>1, <2>2, <2>4, <2>5, <3>1 DEF QueueInv
    <3>2. CASE s = t
      <4>1. /\ q + 1 \in 1..Len(queue[t]) /\ 1 < q + 1 /\ 1 \in 1..Len(queue[t])
            /\ queue'[t][q] = queue[t][q + 1]
        <5>1. q + 1 \in 2..Len(queue[t]) /\ queue'[t][q] = queue[t][q + 1] /\ Len(queue[t]) \in Nat
          BY <2>2, <3>2
        <5>2. QED
          BY <5>1
      <4>2. /\ queue[t][q + 1] = Record(t, queue[t][q + 1].version)
            /\ reached[t] < queue[t][q + 1].version
            /\ queue[t][q + 1].version <= recorded[t]
        BY <2>5, <3>2, <4>1 DEF QueueInv
      <4>3. Head(queue[t]).item = "record" =>
              Head(queue[t]).version < queue[t][q + 1].version
        BY <2>1, <2>5, <3>2, <4>1 DEF QueueInv
      <4>4. reached'[t] < queue[t][q + 1].version
        BY <1>1, <1>4, <4>2, <4>3
      <4>5. QED
        BY <3>2, <4>1, <4>2, <4>4
    <3>3. QED
      BY <3>1, <3>2
  <2>6. ASSUME NEW s \in Streams, NEW p \in 1..Len(queue'[s]), NEW q \in 1..Len(queue'[s]),
               p < q, queue'[s][p].item = "record", queue'[s][q].item = "record"
        PROVE  queue'[s][p].version < queue'[s][q].version
    <3>1. CASE s # t
      BY <2>1, <2>2, <2>6, <3>1 DEF QueueInv
    <3>2. CASE s = t
      <4>1. /\ p + 1 \in 1..Len(queue[t]) /\ q + 1 \in 1..Len(queue[t]) /\ p + 1 < q + 1
            /\ queue'[t][p] = queue[t][p + 1] /\ queue'[t][q] = queue[t][q + 1]
        <5>1. /\ p + 1 \in 2..Len(queue[t]) /\ queue'[t][p] = queue[t][p + 1]
              /\ q + 1 \in 2..Len(queue[t]) /\ queue'[t][q] = queue[t][q + 1]
              /\ Len(queue[t]) \in Nat
          BY <2>2, <3>2
        <5>2. QED
          BY <2>6, <5>1
      <4>2. QED
        BY <2>6, <3>2, <4>1 DEF QueueInv
    <3>3. QED
      BY <3>1, <3>2
  <2>7. running' \subseteq Kernels
    BY <1>1, StreamTakes
  <2>8. \A s \in Streams : recorded'[s] = recorded[s]
    BY <1>2
  <2>9. QueueInv'
    BY <1>1, <1>2, <2>1, <2>4, <2>5, <2>6, <2>7, <2>8 DEF QueueInv
  <2>10. KernelsInv'
    <3>1. SUFFICES ASSUME NEW s \in Streams, NEW q \in 1..Len(queue'[s]),
                          queue'[s][q].item = "kernel"
                   PROVE  /\ queue'[s][q] = Kernel(queue'[s][q].call)
                          /\ queue'[s][q].call \in Kernels
      BY <1>2 DEF KernelsInv
    <3>2. \E n \in 1..Len(queue[s]) : queue'[s][q] = queue[s][n]
      <4>1. CASE s = t
        <5>1. q + 1 \in 2..Len(queue[s]) /\ queue'[s][q] = queue[s][q + 1]
          BY <2>2, <4>1
        <5>2. q + 1 \in 1..Len(queue[s])
          BY <2>2, <5>1
        <5>3. QED
          BY <5>1, <5>2
      <4>2. CASE s # t
        BY <2>2, <4>2
      <4>3. QED
        BY <4>1, <4>2
    <3>3. QED
      BY <3>1, <3>2 DEF KernelsInv
  <2>11. RunningInv'
    <3>1. SUFFICES ASSUME NEW j \in running'
                   PROVE  \E s \in Streams : queue'[s] # <<>> /\ Head(queue'[s]) = Kernel(j)
      BY DEF RunningInv
    <3>2. queue' # queue
      <4>1. Len(queue'[t]) # Len(queue[t])
        BY <2>1, <2>2
      <4>2. QED
        BY <4>1
    <3>3. \/ \E c \in Kernels : Head(queue[t]) = Kernel(c) /\ running' = running \ {c}
          \/ running' = running /\ \A i : Head(queue[t]) # Kernel(i)
      BY <3>2, StreamTakes
    <3>4. j \in running /\ Head(queue[t]) # Kernel(j)
      <4>1. \A c : Kernel(c) = Kernel(j) => c = j
        <5>1. \A c : Kernel(c).call = c
          BY DEF Kernel
        <5>2. QED
          BY <5>1
      <4>2. QED
        BY <3>1, <3>3, <4>1
    <3>5. PICK s \in Streams : queue[s] # <<>> /\ Head(queue[s]) = Kernel(j)
      BY <3>4 DEF RunningInv
    <3>6. s # t
      BY <3>4, <3>5
    <3>7. QED
      BY <2>1, <3>5, <3>6
  <2>12. QED
    BY <2>9, <2>10, <2>11
<1>5. QED
  BY <1>3, <1>4, StreamTakes

LEMMA DeviceKeepsOrder ==
  ASSUME QueueInv, KernelsInv, OrderInv, EndsInv, NEW t \in Streams, Stream(t)
  PROVE  OrderInv' /\ EndsInv'
<1>1. /\ UNCHANGED <<next, host, recorded>>
      /\ finished \subseteq finished'
      /\ \/ UNCHANGED <<queue, reached, finished>>
         \/ /\ Pops(t) /\ WaitIsOver(t)
            /\ \A i : Head(queue[t]) = Kernel(i) => i \in finished'
  BY StreamTakes
<1>2. /\ probes' = probes /\ in_exec_iteration' = in_exec_iteration
      /\ used_exec_lane_count' = used_exec_lane_count
      /\ has_active_exec_group' = has_active_exec_group
      /\ active_exec_lane_index' = active_exec_lane_index
      /\ next' = next
  BY <1>1 DEF host
<1>3. /\ Kernels' = Kernels
      /\ Unfinished' = {i \in Kernels : i < next /\ i \notin finished'}
      /\ Unfinished' \subseteq Unfinished
      /\ \A i \in Unfinished' : i \notin finished'
  BY <1>1, <1>2 DEF Kernels, Unfinished
<1>4. /\ \A i : Earlier(i)' <=> Earlier(i)
      /\ \A name, i : Between(name, i, next)' <=> Between(name, i, next)
  BY <1>2 DEF Earlier, Between
<1>5. CASE UNCHANGED <<queue, reached, finished>>
  <2>1. /\ \A i, s, p : InFront(i, s, p)' <=> InFront(i, s, p)
        /\ \A s, p, e, r : Waits(s, p, e, r)' <=> Waits(s, p, e, r)
    BY <1>5 DEF InFront, Waits
  <2>2. \A i, s, p : Behind(i, s, p)' <=> Behind(i, s, p)
    BY <2>1 DEF Behind
  <2>3. \A i, s, p : FarBehind(i, s, p)' <=> FarBehind(i, s, p)
    BY <2>1, <2>2 DEF FarBehind
  <2>4. \A s : EndOf(s)' = EndOf(s)
    BY <1>5 DEF EndOf
  <2>5. OrderInv'
    BY <1>3, <1>5, <2>3 DEF OrderInv
  <2>6. EndsInv'
    BY <1>2, <1>3, <1>4, <2>1, <2>2, <2>3, <2>4 DEF EndsInv
  <2>7. QED
    BY <2>5, <2>6
<1>6. CASE /\ Pops(t) /\ WaitIsOver(t)
           /\ \A i : Head(queue[t]) = Kernel(i) => i \in finished'
  <2>1. /\ \A s \in Streams : Len(queue[s]) \in Nat /\ Len(queue'[s]) \in Nat
        /\ \A s \in Streams : Len(queue'[s]) = IF s = t THEN Len(queue[s]) - 1 ELSE Len(queue[s])
        /\ \A s \in Streams : s # t => queue'[s] = queue[s]
        /\ \A q \in 1..Len(queue'[t]) : queue'[t][q] = queue[t][q + 1]
    BY <1>6, PoppedQueues, QueueTypes
  <2>2. \A s \in Streams : EndOf(s) \in Int /\ EndOf(s)' = PlaceAfter(t, s, EndOf(s))
    <3>1. \A s \in Streams : EndOf(s) \in Int /\ EndOf(s)' = Len(queue'[s]) + 1
      BY <2>1 DEF EndOf
    <3>2. \A s \in Streams : s # t => EndOf(s)' = EndOf(s)
      BY <2>1 DEF EndOf
    <3>3. EndOf(t)' = EndOf(t) - 1
      BY <2>1 DEF EndOf
    <3>4. QED
      BY <3>1, <3>2, <3>3 DEF PlaceAfter
  <2>3. \A i : i \notin finished' => Head(queue[t]) # Kernel(i)
    BY <1>6
  <2>4. ASSUME NEW i, i \notin finished', NEW s \in Streams, NEW p \in Int
        PROVE  /\ InFront(i, s, p) => InFront(i, s, PlaceAfter(t, s, p))'
               /\ Behind(i, s, p) => Behind(i, s, PlaceAfter(t, s, p))'
               /\ FarBehind(i, s, p) => FarBehind(i, s, PlaceAfter(t, s, p))'
    BY <1>6, <2>3, <2>4, PopKeepsInFront, PopKeepsBehind, PopKeepsFarBehind
  <2>5. ASSUME NEW i, i \notin finished', NEW s \in Streams
        PROVE  /\ InFront(i, s, EndOf(s)) => InFront(i, s, EndOf(s))'
               /\ Behind(i, s, EndOf(s)) => Behind(i, s, EndOf(s))'
               /\ FarBehind(i, s, EndOf(s)) => FarBehind(i, s, EndOf(s))'
    <3>1. PICK p \in Int : p = EndOf(s)
      BY <2>2
    <3>2. PICK m \in Int : m = PlaceAfter(t, s, p)
      BY DEF PlaceAfter
    <3>3. EndOf(s)' = m
      BY <2>2, <3>1, <3>2
    <3>4. /\ InFront(i, s, p) => InFront(i, s, m)'
          /\ Behind(i, s, p) => Behind(i, s, m)'
          /\ FarBehind(i, s, p) => FarBehind(i, s, m)'
      BY <2>4, <2>5, <3>2
    <3>5. /\ InFront(i, s, m)' => InFront(i, s, EndOf(s))'
          /\ Behind(i, s, m)' => Behind(i, s, EndOf(s))'
          /\ FarBehind(i, s, m)' => FarBehind(i, s, EndOf(s))'
      BY <3>3 DEF InFront, Waits, Behind, FarBehind
    <3>6. QED
      BY <3>1, <3>4, <3>5
  <2>6. OrderInv'
    <3>1. SUFFICES ASSUME NEW s \in Streams, NEW p \in 1..Len(queue'[s]),
                          NEW i \in Kernels, NEW j \in Kernels,
                          queue'[s][p] = Kernel(j), i < j, Conflict(i, j), i \notin finished'
                   PROVE  FarBehind(i, s, p)'
      BY <1>3 DEF OrderInv
    <3> DEFINE n == IF s = t THEN p + 1 ELSE p
    <3>2. n \in 1..Len(queue[s]) /\ PlaceAfter(t, s, n) = p /\ queue'[s][p] = queue[s][n]
      BY <2>1 DEF PlaceAfter
    <3>3. FarBehind(i, s, n)
      BY <1>1, <3>1, <3>2 DEF OrderInv
    <3>4. QED
      BY <2>4, <3>1, <3>2, <3>3
  <2>7. EndsInv'
    <3>1. Default \in Streams /\ Lanes \subseteq Streams
      BY StreamFacts
    <3>2. ASSUME NEW i \in Unfinished', ~in_exec_iteration \/ Earlier(i)
          PROVE  Behind(i, Default, EndOf(Default))'
      BY <1>3, <2>5, <3>1, <3>2 DEF EndsInv
    <3>3. ASSUME in_exec_iteration, NEW i \in Unfinished', Earlier(i), NEW l \in Lanes
          PROVE  FarBehind(i, l, EndOf(l))'
      BY <1>3, <2>5, <3>1, <3>3 DEF EndsInv
    <3>4. ASSUME in_exec_iteration, NEW i \in Unfinished', ~Earlier(i)
          PROVE  \E l \in Lanes :
                   /\ l < used_exec_lane_count
                   /\ InFront(i, l, EndOf(l))'
                   /\ has_active_exec_group /\ ~Between("start_group", i, next)
                        => l = active_exec_lane_index
      BY <1>3, <2>5, <3>1, <3>4 DEF EndsInv
    <3>5. QED
      BY <1>2, <1>4, <3>2, <3>3, <3>4 DEF EndsInv
  <2>8. QED
    BY <2>6, <2>7
<1>7. QED
  BY <1>1, <1>5, <1>6

-----------------------------------------------------------------------------
(* The order of what is queued                                             *)

LEMMA HostKeepsOrder ==
  ASSUME IterationsClose, GroupsIndependent, Calls \subseteq Nat, LanesInv, Host
  PROVE  OrderInv'
<1>1. HostInv /\ QueueInv /\ OrderInv /\ EndsInv
  BY DEF LanesInv
<1>2. Queued
  BY <1>1, HostQueues
<1>3. finished' = finished /\ Kernels' = Kernels /\ Grown
  BY <1>2 DEF Queued, Kernels
<1>4. SUFFICES ASSUME NEW s \in Streams, NEW p \in 1..Len(queue'[s]),
                      NEW i \in Kernels, NEW j \in Kernels,
                      queue'[s][p] = Kernel(j), i < j, Conflict(i, j), i \notin finished
               PROVE  FarBehind(i, s, p)'
  BY <1>3 DEF OrderInv
<1>5. CASE p <= Len(queue[s])
  <2>1. p \in 1..Len(queue[s]) /\ queue'[s][p] = queue[s][p]
    BY <1>1, <1>3, <1>5, QueueTypes DEF Grown
  <2>2. FarBehind(i, s, p)
    BY <1>1, <1>4, <2>1 DEF OrderInv
  <2>3. QED
    BY <1>3, <2>2, GrownKeepsFarBehind
<1>6. CASE NewKernel(s, p)
  <2>1. j = next
    <3>1. \A c : Kernel(c).call = c
      BY DEF Kernel
    <3>2. Kernel(j) = Kernel(next)
      BY <1>4, <1>6 DEF NewKernel
    <3>3. QED
      BY <3>1, <3>2
  <2>2. i \in Unfinished /\ next \in Calls /\ i \in Calls
    BY <1>4, <2>1 DEF Unfinished, Kernels
  <2>3. SUFFICES FarBehind(i, s, EndOf(s))
    <3>1. p = EndOf(s)
      BY <1>6 DEF NewKernel
    <3>2. FarBehind(i, s, p)
      BY <2>3, <3>1
    <3>3. QED
      BY <1>3, <3>2, GrownKeepsFarBehind
  <2>4. CASE s = Default /\ CallOf(next) \in {"op", "probe"}
    <3>1. ~in_exec_iteration
      BY <1>1, <2>2, <2>4, OutsideIteration
    <3>2. Behind(i, s, EndOf(s))
      BY <1>1, <2>2, <2>4, <3>1 DEF EndsInv
    <3>3. QED
      BY <3>2, BehindIsFarBehind
  <2>5. CASE s = active_exec_lane_index /\ CallOf(next) = "lane_op" /\ has_active_exec_group
    <3>1. in_exec_iteration /\ s \in Lanes
      BY <1>1, <2>5 DEF HostInv
    <3>2. CASE Earlier(i)
      BY <1>1, <2>2, <3>1, <3>2 DEF EndsInv
    <3>3. CASE ~Earlier(i)
      <4>1. CallOf(i) = "lane_op"
        BY <1>1, <2>2, <3>1, <3>3, LaneOpsOnly
      <4>2. ~Between("start_group", i, next)
        BY <1>4, <2>1, <2>2, <2>5, <3>3, <4>1 DEF GroupsIndependent, Earlier
      <4>3. InFront(i, s, EndOf(s))
        BY <1>1, <2>2, <2>5, <3>1, <3>3, <4>2 DEF EndsInv
      <4>4. QED
        BY <4>3 DEF FarBehind
    <3>4. QED
      BY <3>2, <3>3
  <2>6. QED
    BY <1>6, <2>4, <2>5 DEF NewKernel
<1>7. ~NewRecord(s, p) /\ ~NewWait(s, p)
  <2>1. Kernel(j).item = "kernel" /\ \A e, v : Record(e, v).item = "record"
    BY DEF Kernel, Record
  <2>2. QED
    BY <1>4, <2>1 DEF NewRecord, NewWait
<1>8. QED
  BY <1>2, <1>5, <1>6, <1>7 DEF Queued

(* The end of a queue only moves back. *)
LEMMA EndsGrow ==
  ASSUME Grown, NEW i, NEW s \in Streams
  PROVE  /\ InFront(i, s, EndOf(s)) => InFront(i, s, EndOf(s))'
         /\ Behind(i, s, EndOf(s)) => Behind(i, s, EndOf(s))'
         /\ FarBehind(i, s, EndOf(s)) => FarBehind(i, s, EndOf(s))'
<1>1. PICK p \in Int : p = EndOf(s)
  BY DEF Grown, EndOf
<1>2. PICK m \in Int : m = Len(queue'[s]) + 1
  BY DEF Grown
<1>3. p <= m
  BY <1>1, <1>2 DEF Grown, EndOf
<1>4. EndOf(s)' = m
  BY <1>2 DEF EndOf
<1>5. /\ InFront(i, s, p) => InFront(i, s, m)'
      /\ Behind(i, s, p) => Behind(i, s, m)'
      /\ FarBehind(i, s, p) => FarBehind(i, s, m)'
  BY <1>3, GrownKeepsInFront, GrownKeepsBehind, GrownKeepsFarBehind
<1>6. /\ InFront(i, s, m)' => InFront(i, s, EndOf(s))'
      /\ Behind(i, s, m)' => Behind(i, s, EndOf(s))'
      /\ FarBehind(i, s, m)' => FarBehind(i, s, EndOf(s))'
  BY <1>4 DEF InFront, Waits, Behind, FarBehind
<1>7. QED
  BY <1>1, <1>5, <1>6

LEMMA NextUnfinished ==
  ASSUME Calls \subseteq Nat, next \in Calls, UNCHANGED <<probes, finished>>,
         next' = next + 1
  PROVE  /\ \A i \in Unfinished' :
              \/ i \in Unfinished
              \/ i = next /\ next \in Kernels /\ next \notin finished
         /\ \A name : \A i \in Unfinished :
              /\ CallOf(next) # name =>
                   (Between(name, i, next)' <=> Between(name, i, next))
              /\ CallOf(next) = name => Between(name, i, next)'
         /\ \A name : ~Between(name, next, next + 1)
         /\ \A name, i : Between(name, i, next)' <=> Between(name, i, next + 1)
<1>1. Kernels' = Kernels /\ next \in Nat /\ Kernels \subseteq Nat
  BY DEF Kernels
<1>2. \A i \in Unfinished' :
        \/ i \in Unfinished
        \/ i = next /\ next \in Kernels /\ next \notin finished
  BY <1>1 DEF Unfinished
<1>3. \A name, i : Between(name, i, next)' <=> Between(name, i, next + 1)
  BY DEF Between
<1>4. \A name : \A i \in Unfinished :
        /\ CallOf(next) # name =>
             (Between(name, i, next + 1) <=> Between(name, i, next))
        /\ CallOf(next) = name => Between(name, i, next + 1)
  BY <1>1, BetweenNext DEF Unfinished
<1>5. \A name : ~Between(name, next, next + 1)
  BY <1>1 DEF Between
<1>6. QED
  BY <1>2, <1>3, <1>4, <1>5

(* Outside an iteration only the call just made is new. *)
LEMMA OutsideKeepsEnds ==
  ASSUME Calls \subseteq Nat, LanesInv, Host, ~in_exec_iteration, ~in_exec_iteration',
         \A i \in Unfinished' : i \in Unfinished \/ InFront(i, Default, EndOf(Default))'
  PROVE  EndsInv'
<1>1. Grown /\ Default \in Streams /\ EndsInv
  BY HostQueues, StreamFacts DEF LanesInv, Queued
<1>2. ASSUME NEW i \in Unfinished'
      PROVE  Behind(i, Default, EndOf(Default))'
  <2>1. CASE i \in Unfinished
    <3>1. Behind(i, Default, EndOf(Default))
      BY <1>1, <2>1 DEF EndsInv
    <3>2. QED
      BY <1>1, <3>1, EndsGrow
  <2>2. CASE InFront(i, Default, EndOf(Default))'
    BY <2>2 DEF Behind
  <2>3. QED
    BY <1>2, <2>1, <2>2
<1>3. QED
  BY <1>2 DEF EndsInv

(* What has just been given to a stream is in front of its end. *)
LEMMA JustQueued ==
  ASSUME Calls \subseteq Nat, QueueInv, next \in Calls, NEW t \in Streams,
         queue' = [queue EXCEPT ![t] = Append(@, Kernel(next))]
  PROVE  \A i : i = next => InFront(i, t, EndOf(t))'
<1>1. next \in Nat /\ Kernel(next) \in Items
  <2>1. next \in Nat
    OBVIOUS
  <2>2. QED
    BY <2>1, ItemTypes, StreamFacts
<1>2. /\ Len(queue'[t]) = Len(queue[t]) + 1 /\ Len(queue[t]) \in Nat
      /\ queue'[t][Len(queue[t]) + 1] = Kernel(next)
  BY <1>1, OneQueued, QueueTypes
<1>3. Len(queue[t]) + 1 \in 1..Len(queue'[t]) /\ Len(queue[t]) + 1 < Len(queue'[t]) + 1
  BY <1>2
<1>4. \A i : i = next =>
        \E q \in 1..Len(queue'[t]) : q < Len(queue'[t]) + 1 /\ queue'[t][q] = Kernel(i)
  BY <1>2, <1>3
<1>5. QED
  BY <1>4 DEF InFront, EndOf

LEMMA DefaultKeepsEnds ==
  ASSUME IterationsClose, Calls \subseteq Nat, LanesInv, Host,
         IssueOp \/ ProbeStarts \/ ProbeReturns \/ ProbeIsOff
  PROVE  EndsInv'
<1>1. HostInv /\ QueueInv /\ Default \in Streams
  BY StreamFacts DEF LanesInv
<1>2. /\ next \in Calls /\ CallOf(next) \in {"op", "probe"}
      /\ in_exec_iteration' = in_exec_iteration
      /\ Kernels' = Kernels /\ finished' = finished
  BY DEF IssueOp, ProbeStarts, ProbeReturns, ProbeIsOff, Calling, CallOf, host, device,
         Kernels
<1>3. ~in_exec_iteration /\ ~in_exec_iteration'
  BY <1>1, <1>2, OutsideIteration
<1>4. ASSUME NEW i \in Unfinished'
      PROVE  i \in Unfinished \/ InFront(i, Default, EndOf(Default))'
  <2>1. CASE IssueOp
    <3>1. /\ next' = next + 1 /\ UNCHANGED <<probes, finished>>
          /\ queue' = [queue EXCEPT ![Default] = Append(@, Kernel(next))]
      BY <2>1 DEF IssueOp, Returned, host, device
    <3>2. i \in Unfinished \/ i = next
      BY <1>2, <1>4, <3>1, NextUnfinished
    <3>3. QED
      BY <1>1, <1>2, <3>1, <3>2, JustQueued
  <2>2. CASE ProbeStarts
    BY <1>2, <1>4, <2>2 DEF ProbeStarts, Unfinished
  <2>3. CASE ProbeReturns
    <3>1. next' = next + 1 /\ UNCHANGED <<probes, finished>> /\ next \in finished
      BY <2>3 DEF ProbeReturns, Returned, host, device
    <3>2. QED
      BY <1>2, <1>4, <3>1, NextUnfinished
  <2>4. CASE ProbeIsOff
    <3>1. next' = next + 1 /\ UNCHANGED <<probes, finished>> /\ next \notin Kernels
      BY <2>4 DEF ProbeIsOff, Returned, host, device, Calling, Kernels
    <3>2. QED
      BY <1>2, <1>4, <3>1, NextUnfinished
  <2>5. QED
    BY <2>1, <2>2, <2>3, <2>4
<1>5. QED
  BY <1>3, <1>4, OutsideKeepsEnds

(* An operation of a lane joins its group's operations on that lane. *)
LEMMA LaneOpKeepsEnds ==
  ASSUME Calls \subseteq Nat, LanesInv, Host, IssueLaneOp
  PROVE  EndsInv'
<1>1. HostInv /\ QueueInv /\ EndsInv /\ Grown /\ Default \in Streams /\ Lanes \subseteq Streams
  BY HostQueues, StreamFacts DEF LanesInv, Queued
<1>2. /\ next \in Calls /\ CallOf(next) = "lane_op" /\ has_active_exec_group
      /\ next' = next + 1 /\ UNCHANGED <<probes, finished>>
      /\ queue' = [queue EXCEPT ![active_exec_lane_index] = Append(@, Kernel(next))]
      /\ UNCHANGED <<active_exec_lane_index, used_exec_lane_count, has_active_exec_group,
                     in_exec_iteration>>
  BY DEF IssueLaneOp, Calling, CallOf, Returned, host, device
<1>3. /\ in_exec_iteration /\ in_exec_iteration'
      /\ active_exec_lane_index \in Lanes /\ active_exec_lane_index \in Streams
      /\ active_exec_lane_index < used_exec_lane_count
  BY <1>1, <1>2 DEF HostInv
<1>4. \A i \in Unfinished' : i \in Unfinished \/ i = next
  BY <1>2, NextUnfinished
<1>5. \A i \in Unfinished : /\ Earlier(i)' <=> Earlier(i)
                            /\ Between("start_group", i, next)' <=> Between("start_group", i, next)
  BY <1>2, NextUnfinished DEF Earlier
<1>6. ASSUME NEW i \in Unfinished', Earlier(i)'
      PROVE  /\ Behind(i, Default, EndOf(Default))'
             /\ \A l \in Lanes : FarBehind(i, l, EndOf(l))'
  <2>1. i # next
    BY <1>2, <1>6, NextUnfinished DEF Earlier
  <2>2. i \in Unfinished /\ Earlier(i)
    BY <1>4, <1>5, <1>6, <2>1
  <2>3. Behind(i, Default, EndOf(Default)) /\ \A l \in Lanes : FarBehind(i, l, EndOf(l))
    BY <1>1, <1>3, <2>2 DEF EndsInv
  <2>4. QED
    BY <1>1, <2>3, EndsGrow
<1>7. ASSUME NEW i \in Unfinished', ~Earlier(i)'
      PROVE  \E l \in Lanes :
                /\ l < used_exec_lane_count'
                /\ InFront(i, l, EndOf(l))'
                /\ has_active_exec_group' /\ ~Between("start_group", i, next)'
                     => l = active_exec_lane_index'
  <2>1. CASE i \in Unfinished
    <3>1. PICK l \in Lanes :
                /\ l < used_exec_lane_count
                /\ InFront(i, l, EndOf(l))
                /\ has_active_exec_group /\ ~Between("start_group", i, next)
                     => l = active_exec_lane_index
      BY <1>1, <1>3, <1>5, <1>7, <2>1 DEF EndsInv
    <3>2. InFront(i, l, EndOf(l))'
      BY <1>1, <3>1, EndsGrow
    <3>3. QED
      BY <1>2, <1>5, <2>1, <3>1, <3>2
  <2>2. CASE i = next
    <3>1. InFront(i, active_exec_lane_index, EndOf(active_exec_lane_index))'
      <4>1. PICK t \in Lanes : t = active_exec_lane_index
        BY <1>3
      <4>2. InFront(i, t, EndOf(t))'
        BY <1>1, <1>2, <2>2, <4>1, JustQueued
      <4>3. QED
        BY <1>2, <4>1, <4>2
    <3>2. QED
      BY <1>2, <1>3, <3>1
  <2>3. QED
    BY <1>4, <1>7, <2>1, <2>2
<1>8. QED
  BY <1>3, <1>6, <1>7 DEF EndsInv

(* The start of a group forgets where the previous group's operations are, *)
(* its finish where its own are.                                           *)
LEMMA GroupKeepsEnds ==
  ASSUME Calls \subseteq Nat, LanesInv, Host, StartGroup \/ FinishGroup
  PROVE  EndsInv'
<1>1. HostInv /\ QueueInv /\ EndsInv /\ Grown /\ Default \in Streams /\ Lanes \subseteq Streams
  BY HostQueues, StreamFacts DEF LanesInv, Queued
<1>2. /\ next \in Calls /\ CallOf(next) \in {"start_group", "finish_group"}
      /\ next' = next + 1 /\ UNCHANGED <<probes, finished, in_exec_iteration>>
      /\ next \notin Kernels
      /\ CallOf(next) = "start_group" \/ ~has_active_exec_group'
  BY DEF StartGroup, FinishGroup, Calling, CallOf, Returned, device, Kernels
<1>3. used_exec_lane_count \in Int /\ used_exec_lane_count <= used_exec_lane_count'
  <2>1. used_exec_lane_count \in Int /\ exec_lane_index % NumLanes \in Int
    BY <1>1, StreamFacts DEF HostInv
  <2>2. QED
    BY <2>1 DEF StartGroup, FinishGroup
<1>4. \A i \in Unfinished' : i \in Unfinished
  BY <1>2, NextUnfinished
<1>5. \A i \in Unfinished : /\ Earlier(i)' <=> Earlier(i)
                            /\ CallOf(next) = "start_group" => Between("start_group", i, next)'
  BY <1>2, NextUnfinished DEF Earlier
<1>6. ASSUME NEW i \in Unfinished', ~in_exec_iteration' \/ Earlier(i)'
      PROVE  Behind(i, Default, EndOf(Default))'
  <2>1. Behind(i, Default, EndOf(Default))
    BY <1>1, <1>2, <1>4, <1>5, <1>6 DEF EndsInv
  <2>2. QED
    BY <1>1, <2>1, EndsGrow
<1>7. ASSUME in_exec_iteration', NEW i \in Unfinished', Earlier(i)'
      PROVE  \A l \in Lanes : FarBehind(i, l, EndOf(l))'
  <2>1. \A l \in Lanes : FarBehind(i, l, EndOf(l))
    BY <1>1, <1>2, <1>4, <1>5, <1>7 DEF EndsInv
  <2>2. QED
    BY <1>1, <2>1, EndsGrow
<1>8. ASSUME in_exec_iteration', NEW i \in Unfinished', ~Earlier(i)'
      PROVE  \E l \in Lanes :
                /\ l < used_exec_lane_count'
                /\ InFront(i, l, EndOf(l))'
                /\ has_active_exec_group' /\ ~Between("start_group", i, next)'
                     => l = active_exec_lane_index'
  <2>1. PICK l \in Lanes : l < used_exec_lane_count /\ InFront(i, l, EndOf(l))
    BY <1>1, <1>2, <1>4, <1>5, <1>8 DEF EndsInv
  <2>2. InFront(i, l, EndOf(l))'
    BY <1>1, <2>1, EndsGrow
  <2>3. l < used_exec_lane_count'
    <3>1. l \in Int /\ used_exec_lane_count' \in Int
      BY <1>1, StreamFacts, HostStep DEF HostInv, StartGroup, FinishGroup
    <3>2. QED
      BY <1>3, <2>1, <3>1
  <2>4. QED
    BY <1>2, <1>4, <1>5, <1>8, <2>2, <2>3
<1>9. QED
  BY <1>6, <1>7, <1>8 DEF EndsInv

(* When an iteration starts, every lane waits for the default stream: what *)
(* is given to it comes after what the default stream was behind.          *)
LEMMA StartKeepsEnds ==
  ASSUME IterationsClose, Calls \subseteq Nat, LanesInv, Host, StartIteration
  PROVE  EndsInv'
<1> DEFINE v == recorded[Ready] + 1
           x == [s \in Streams |-> IF s = Default THEN Record(Ready, v) ELSE Wait(Ready, v)]
<1>1. /\ HostInv /\ QueueInv /\ EndsInv
      /\ Default \in Streams /\ Lanes \subseteq Streams /\ Default \notin Lanes
      /\ Ready = Default
  BY StreamFacts DEF LanesInv, Ready, Default
<1>2. /\ next \in Calls /\ CallOf(next) = "start_iteration"
      /\ next' = next + 1 /\ UNCHANGED <<probes, finished>>
      /\ next \notin Kernels /\ in_exec_iteration'
  BY DEF StartIteration, Calling, CallOf, Returned, device, Kernels
<1>3. ~in_exec_iteration
  BY <1>1, <1>2, OutsideIteration
<1>4. ASSUME NEW i \in Unfinished'
      PROVE  i \in Unfinished /\ Earlier(i)' /\ Behind(i, Default, EndOf(Default))
  <2>1. i \in Unfinished
    BY <1>2, <1>4, NextUnfinished
  <2>2. Between("start_iteration", i, next)'
    BY <1>2, <2>1, NextUnfinished
  <2>3. QED
    BY <1>1, <1>3, <2>1, <2>2 DEF Earlier, EndsInv
<1>5. v \in Nat /\ x \in [Streams -> Items]
  <2>1. v \in Nat
    BY <1>1 DEF QueueInv
  <2> HIDE DEF v
  <2>2. QED
    BY <1>1, <2>1, ItemTypes
<1>6. queue' = [s \in Streams |-> Append(queue[s], x[s])]
  BY DEF StartIteration
<1>7. \A s \in Streams : x[s] = IF s = Default THEN Record(Default, v) ELSE Wait(Default, v)
  BY <1>1
<1> HIDE DEF x, v
<1>8. /\ Grown
      /\ \A s \in Streams : /\ Len(queue'[s]) = Len(queue[s]) + 1 /\ Len(queue[s]) \in Nat
                            /\ queue'[s][Len(queue[s]) + 1] = x[s]
  BY <1>1, <1>5, <1>6, OneQueuedOnEach, QueueTypes
<1>9. PICK r \in Nat : r = Len(queue[Default]) + 1
  BY <1>1, QueueTypes
<1>10. /\ r \in 1..Len(queue'[Default])
      /\ queue'[Default][r].item = "record" /\ queue'[Default][r].version = v
  <2>1. queue'[Default][r] = Record(Default, v) /\ Len(queue'[Default]) = r
    BY <1>1, <1>7, <1>8, <1>9
  <2>2. QED
    BY <1>1, <1>5, <1>9, <2>1, ItemTypes
<1>11. ASSUME NEW l \in Lanes
       PROVE  Waits(l, EndOf(l), Default, r)'
  <2>1. queue'[l][Len(queue[l]) + 1] = Wait(Default, v)
    BY <1>1, <1>7, <1>8
  <2>2. Len(queue[l]) + 1 \in 1..Len(queue'[l]) /\ Len(queue[l]) + 1 < Len(queue'[l]) + 1
    BY <1>1, <1>8
  <2>3. \E q \in 1..Len(queue'[l]) : /\ q < Len(queue'[l]) + 1
                                     /\ queue'[l][q] = Wait(Default, queue'[Default][r].version)
    BY <1>10, <2>1, <2>2
  <2>4. QED
    BY <1>10, <2>3 DEF Waits, EndOf
<1>12. ASSUME NEW i \in Unfinished'
       PROVE  /\ Behind(i, Default, EndOf(Default))'
              /\ \A l \in Lanes : FarBehind(i, l, EndOf(l))'
  <2>1. Behind(i, Default, EndOf(Default))
    BY <1>4, <1>12
  <2>2. Behind(i, Default, r)
    BY <1>9, <2>1 DEF EndOf
  <2>3. Behind(i, Default, r)'
    BY <1>1, <1>8, <2>2, GrownKeepsBehind
  <2>4. \A l \in Lanes : FarBehind(i, l, EndOf(l))'
    BY <1>1, <1>11, <2>3 DEF FarBehind
  <2>5. QED
    BY <1>1, <1>8, <2>1, <2>4, EndsGrow
<1>13. QED
  BY <1>2, <1>4, <1>12 DEF EndsInv

(* When it finishes, the default stream waits for every lane that was      *)
(* given something, and so comes after all of it.                          *)
LEMMA FinishKeepsEnds ==
  ASSUME Calls \subseteq Nat, LanesInv, Host, FinishIteration
  PROVE  EndsInv'
<1>1. /\ HostInv /\ QueueInv /\ EndsInv /\ Default \in Streams /\ Lanes \subseteq Streams
      /\ Lanes \subseteq Nat
  BY StreamFacts DEF LanesInv
<1>2. /\ next \in Calls /\ CallOf(next) = "finish_iteration"
      /\ next' = next + 1 /\ UNCHANGED <<probes, finished>>
      /\ next \notin Kernels /\ in_exec_iteration /\ in_exec_iteration' = FALSE
  BY DEF FinishIteration, Calling, CallOf, Returned, device, Kernels
<1>3. /\ Grown
      /\ recorded' \in [Streams -> Nat]
      /\ \A l \in UsedLanes :
           /\ Len(queue'[l]) = Len(queue[l]) + 1
           /\ queue'[l][Len(queue[l]) + 1] = Record(l, recorded'[l])
      /\ Len(queue'[Default]) = Len(queue[Default]) + used_exec_lane_count
      /\ \A i \in 1..used_exec_lane_count :
           queue'[Default][Len(queue[Default]) + i] = Wait(i - 1, recorded'[i - 1])
  BY <1>1, IterationFinished
<1>4. used_exec_lane_count \in Int
  BY <1>1, StreamFacts DEF HostInv
<1>5. ASSUME NEW l \in UsedLanes, NEW r \in Nat, r = Len(queue[l]) + 1
      PROVE  Waits(Default, EndOf(Default), l, r)'
  <2> DEFINE d == Len(queue[Default])
             u == used_exec_lane_count
  <2>1. l \in Streams /\ l \in Nat /\ l < u /\ d \in Nat /\ Len(queue[l]) \in Nat
    BY <1>1, QueueTypes DEF UsedLanes
  <2>2. r \in 1..Len(queue'[l]) /\ queue'[l][r] = Record(l, recorded'[l])
    BY <1>3, <1>5, <2>1
  <2>3. queue'[l][r].item = "record" /\ queue'[l][r].version = recorded'[l]
    BY <1>3, <2>1, <2>2, ItemTypes
  <2>4. queue'[Default][d + (l + 1)] = Wait(l, recorded'[l])
    <3>1. l + 1 \in 1..u /\ (l + 1) - 1 = l
      BY <1>4, <2>1
    <3>2. queue'[Default][d + (l + 1)] = Wait((l + 1) - 1, recorded'[(l + 1) - 1])
      BY <1>3, <3>1
    <3>3. QED
      BY <3>1, <3>2
  <2>5. Len(queue'[Default]) = d + u
    BY <1>3
  <2> HIDE DEF d, u
  <2>6. d + (l + 1) \in 1..Len(queue'[Default]) /\ d + (l + 1) < Len(queue'[Default]) + 1
    BY <1>4, <2>1, <2>5 DEF u
  <2>7. \E q \in 1..Len(queue'[Default]) :
          /\ q < Len(queue'[Default]) + 1
          /\ queue'[Default][q] = Wait(l, queue'[l][r].version)
    BY <2>3, <2>4, <2>6
  <2>8. QED
    BY <2>2, <2>3, <2>7 DEF Waits, EndOf
<1>6. ASSUME NEW i \in Unfinished'
      PROVE  Behind(i, Default, EndOf(Default))'
  <2>1. i \in Unfinished
    BY <1>2, <1>6, NextUnfinished
  <2>2. CASE Earlier(i)
    <3>1. Behind(i, Default, EndOf(Default))
      BY <1>1, <2>1, <2>2 DEF EndsInv
    <3>2. QED
      BY <1>1, <1>3, <3>1, EndsGrow
  <2>3. CASE ~Earlier(i)
    <3>1. PICK l \in Lanes : l < used_exec_lane_count /\ InFront(i, l, EndOf(l))
      BY <1>1, <1>2, <2>1, <2>3 DEF EndsInv
    <3>2. l \in Streams /\ l \in UsedLanes
      BY <1>1, <3>1 DEF UsedLanes
    <3>3. PICK r \in Nat : r = Len(queue[l]) + 1
      BY <1>1, <3>2, QueueTypes
    <3>4. InFront(i, l, r)
      BY <3>1, <3>3 DEF EndOf
    <3>5. InFront(i, l, r)'
      BY <1>3, <3>2, <3>4, GrownKeepsInFront
    <3>6. Waits(Default, EndOf(Default), l, r)'
      BY <1>5, <3>2, <3>3
    <3>7. QED
      BY <3>2, <3>5, <3>6 DEF Behind
  <2>4. QED
    BY <2>2, <2>3
<1>7. QED
  BY <1>2, <1>6 DEF EndsInv

LEMMA HostKeepsEnds ==
  ASSUME IterationsClose, Calls \subseteq Nat, LanesInv, Host
  PROVE  EndsInv'
BY DefaultKeepsEnds, LaneOpKeepsEnds, StartKeepsEnds, GroupKeepsEnds, FinishKeepsEnds DEF Host

-----------------------------------------------------------------------------
(* Every step                                                              *)

LEMMA LanesInitially ==
  ASSUME Calls \subseteq Nat \ {0}, Init
  PROVE  LanesInv
<1>1. NumLanes \in Nat \ {0} /\ 0 \in Lanes /\ Streams = Events
  BY StreamFacts DEF Lanes
<1>2. \A s \in Streams : queue[s] = <<>>
  BY DEF Init
<1>3. HostInv
  <2>1. /\ probes \in BOOLEAN /\ next = 1
        /\ exec_lane_index = 0 /\ active_exec_lane_index = 0 /\ used_exec_lane_count = 0
        /\ has_active_exec_group = FALSE /\ in_exec_iteration = FALSE
    BY DEF Init
  <2>2. 0 \in 0..NumLanes /\ 0 \in Nat /\ 1 \in Nat
    BY <1>1
  <2>3. QED
    BY <1>1, <2>1, <2>2 DEF HostInv
<1>4. QueueInv
  <2>1. /\ queue \in [Streams -> Seq(Items)]
        /\ recorded \in [Streams -> Nat] /\ reached \in [Streams -> Nat]
        /\ running = {}
        /\ \A s \in Streams : reached[s] <= recorded[s]
    BY <1>1 DEF Init
  <2>2. QED
    BY <1>2, <2>1 DEF QueueInv
<1>5. KernelsInv /\ RunningInv /\ OrderInv
  BY <1>2 DEF Init, KernelsInv, RunningInv, OrderInv
<1>6. Unfinished = {}
  <2>1. \A i \in Kernels : i \in Nat /\ i # 0
    BY DEF Kernels
  <2>2. \A i \in Kernels : ~(i < next)
    BY <2>1 DEF Init
  <2>3. QED
    BY <2>2 DEF Unfinished
<1>7. EndsInv
  BY <1>6 DEF EndsInv
<1>8. QED
  BY <1>3, <1>4, <1>5, <1>7 DEF LanesInv

LEMMA NoStep ==
  ASSUME LanesInv, UNCHANGED vars
  PROVE  QueueInv' /\ KernelsInv' /\ RunningInv' /\ OrderInv' /\ EndsInv'
<1>1. /\ UNCHANGED <<next, probes, active_exec_lane_index, used_exec_lane_count,
                     has_active_exec_group, in_exec_iteration>>
      /\ UNCHANGED <<queue, running, finished, recorded, reached>>
      /\ Kernels' = Kernels
  BY DEF vars, host, device, Kernels
<1>2. QueueInv' /\ KernelsInv' /\ RunningInv'
  BY <1>1 DEF LanesInv, QueueInv, KernelsInv, RunningInv
<1>3. /\ \A i, s, p : InFront(i, s, p)' <=> InFront(i, s, p)
      /\ \A s, p, e, r : Waits(s, p, e, r)' <=> Waits(s, p, e, r)
  BY <1>1 DEF InFront, Waits
<1>4. \A i, s, p : Behind(i, s, p)' <=> Behind(i, s, p)
  BY <1>3 DEF Behind
<1>5. \A i, s, p : FarBehind(i, s, p)' <=> FarBehind(i, s, p)
  BY <1>3, <1>4 DEF FarBehind
<1>6. OrderInv'
  BY <1>1, <1>5 DEF LanesInv, OrderInv
<1>7. /\ Unfinished' = Unfinished
      /\ \A s : EndOf(s)' = EndOf(s)
      /\ \A i : Earlier(i)' <=> Earlier(i)
      /\ \A i : Between("start_group", i, next)' <=> Between("start_group", i, next)
  BY <1>1 DEF Unfinished, EndOf, Earlier, Between
<1>8. /\ \A i, s : Behind(i, s, EndOf(s))' <=> Behind(i, s, EndOf(s))
      /\ \A i, s : FarBehind(i, s, EndOf(s))' <=> FarBehind(i, s, EndOf(s))
      /\ \A i, s : InFront(i, s, EndOf(s))' <=> InFront(i, s, EndOf(s))
  BY <1>1 DEF InFront, Waits, Behind, FarBehind, EndOf
<1>9. EndsInv'
  BY <1>1, <1>7, <1>8 DEF LanesInv, EndsInv
<1>10. QED
  BY <1>2, <1>6, <1>9

LEMMA LanesStep ==
  ASSUME IterationsClose, GroupsIndependent, Calls \subseteq Nat, LanesInv, [Next]_vars
  PROVE  LanesInv'
<1>1. HostInv'
  BY HostStep
<1>2. CASE Host
  <2>1. QueueInv' /\ KernelsInv' /\ RunningInv'
    BY <1>2, HostQueues, HostKeepsQueues DEF LanesInv
  <2>2. QED
    BY <1>1, <1>2, <2>1, HostKeepsOrder, HostKeepsEnds DEF LanesInv
<1>3. ASSUME NEW t \in Streams, Stream(t)
      PROVE  LanesInv'
  BY <1>1, <1>3, DeviceKeepsQueues, DeviceKeepsOrder DEF LanesInv
<1>4. CASE UNCHANGED vars
  BY <1>1, <1>4, NoStep DEF LanesInv
<1>5. QED
  BY <1>2, <1>3, <1>4 DEF Next

(* What runs heads its stream, and nothing comes before a head.            *)
LEMMA NothingRunsAhead ==
  ASSUME Calls \subseteq Nat, LanesInv
  PROVE  AsIfSequential
<1>1. SUFFICES ASSUME NEW j \in running, NEW i \in EarlierConflicts[j], i \in Kernels,
                      i \notin finished
               PROVE  FALSE
  BY DEF AsIfSequential
<1>2. j \in Kernels /\ j \in Calls /\ j \in Nat
  BY DEF LanesInv, QueueInv, Kernels
<1>3. i < j /\ Conflict(i, j)
  BY <1>2 DEF EarlierConflicts
<1>4. PICK s \in Streams : queue[s] # <<>> /\ Head(queue[s]) = Kernel(j)
  BY DEF LanesInv, RunningInv
<1>5. 1 \in 1..Len(queue[s]) /\ queue[s][1] = Kernel(j)
  BY <1>4, QueueTypes DEF LanesInv
<1>6. FarBehind(i, s, 1)
  BY <1>1, <1>2, <1>3, <1>5 DEF LanesInv, OrderInv
<1>7. QED
  BY <1>6, NothingBehindHead

-----------------------------------------------------------------------------
(* The program keeps to it                                                 *)

IsSeq(s) == \E S : s \in Seq(S)

(* The conflict of two calls, wherever they are made. *)
Clash(a, b) ==
  \/ a.writes \cap (b.reads \cup b.writes) # {}
  \/ b.writes \cap a.reads # {}

(* Between places i and j of s there is a call of this name. *)
Has(s, name, i, j) == \E k \in 1..Len(s) : i < k /\ k < j /\ s[k].call = name

(* A part of a program that opens and closes its own iterations. *)
Closed(s) ==
  /\ IsSeq(s)
  /\ \A i, j \in 1..Len(s) :
       (i < j /\ s[i].call = "start_iteration"
              /\ s[j].call \in {"op", "probe", "start_iteration"})
         => Has(s, "finish_iteration", i, j)
  /\ \A i, j \in 1..Len(s) :
       (i < j /\ s[i].call = "lane_op" /\ s[j].call = "lane_op" /\ Clash(s[i], s[j])
              /\ Has(s, "start_group", i, j))
         => Has(s, "start_iteration", i, j)
  /\ \A i \in 1..Len(s) : s[i].call = "start_iteration" =>
       \E k \in 1..Len(s) : i < k /\ s[k].call = "finish_iteration"
  /\ \A j \in 1..Len(s) : s[j].call = "lane_op" =>
       \E k \in 1..Len(s) : k < j /\ s[k].call = "start_iteration"

(* Calls on the default stream only. *)
Plain(s) == IsSeq(s) /\ \A i \in 1..Len(s) : s[i].call \in {"op", "probe"}

(* The groups of one iteration, which touch different buffers. *)
Groups(s) ==
  /\ IsSeq(s)
  /\ \A i \in 1..Len(s) : s[i].call \in {"start_group", "lane_op", "finish_group"}
  /\ \A i, j \in 1..Len(s) :
       (i < j /\ s[i].call = "lane_op" /\ s[j].call = "lane_op" /\ Clash(s[i], s[j]))
         => ~Has(s, "start_group", i, j)

(* u is what s calls and then what t calls. *)
Join(u, s, t) ==
  /\ IsSeq(u)
  /\ Len(s) \in Nat /\ Len(t) \in Nat
  /\ Len(u) = Len(s) + Len(t)
  /\ \A i \in 1..Len(s) : i \in 1..Len(u) /\ u[i] = s[i]
  /\ \A i \in 1..Len(t) : Len(s) + i \in 1..Len(u) /\ u[Len(s) + i] = t[i]
  /\ \A i \in 1..Len(u) : i \in 1..Len(s) \/ \E k \in 1..Len(t) : i = Len(s) + k

LEMMA Joined ==
  ASSUME NEW s, NEW t, IsSeq(s), IsSeq(t)
  PROVE  Join(s \o t, s, t)
<1>1. PICK S : s \in Seq(S)
  BY DEF IsSeq
<1>2. PICK T : t \in Seq(T)
  BY DEF IsSeq
<1> DEFINE U == S \cup T
<1>3. s \in Seq(U) /\ t \in Seq(U)
  BY <1>1, <1>2
<1> HIDE DEF U
<1>4. /\ s \o t \in Seq(U)
      /\ Len(s) \in Nat /\ Len(t) \in Nat
      /\ Len(s \o t) = Len(s) + Len(t)
      /\ \A i \in 1..(Len(s) + Len(t)) :
           (s \o t)[i] = IF i <= Len(s) THEN s[i] ELSE t[i - Len(s)]
  BY <1>3, ConcatProperties
<1>5. IsSeq(s \o t)
  BY <1>4 DEF IsSeq
<1> DEFINE u == s \o t
           m == Len(s)
           n == Len(t)
<1>6. /\ Len(u) = m + n /\ m \in Nat /\ n \in Nat
      /\ \A i \in 1..(m + n) : u[i] = IF i <= m THEN s[i] ELSE t[i - m]
  BY <1>4
<1> HIDE DEF u, m, n
<1>7. \A i \in 1..m : i \in 1..Len(u) /\ u[i] = s[i]
  BY <1>6
<1>8. ASSUME NEW i \in 1..n
      PROVE  m + i \in 1..Len(u) /\ u[m + i] = t[i]
  <2>1. m + i \in 1..(m + n) /\ ~(m + i <= m) /\ (m + i) - m = i
    BY <1>6
  <2>2. u[m + i] = t[(m + i) - m]
    BY <1>6, <2>1
  <2>3. QED
    BY <1>6, <2>1, <2>2
<1>9. ASSUME NEW i \in 1..Len(u), i \notin 1..m
      PROVE  \E k \in 1..n : i = m + k
  <2>1. i - m \in 1..n /\ i = m + (i - m)
    BY <1>6, <1>9
  <2>2. QED
    BY <2>1
<1>10. QED
  BY <1>4, <1>5, <1>7, <1>8, <1>9 DEF u, m, n, Join

LEMMA PlainIsClosed ==
  ASSUME NEW s, Plain(s)
  PROVE  Closed(s)
BY DEF Plain, Closed

LEMMA JoinedClosed ==
  ASSUME NEW s, NEW t, Closed(s), Closed(t)
  PROVE  Closed(s \o t)
<1> DEFINE u == s \o t
           m == Len(s)
           n == Len(t)
<1>1. IsSeq(s) /\ IsSeq(t)
  BY DEF Closed
<1>2. /\ IsSeq(u) /\ m \in Nat /\ n \in Nat /\ Len(u) = m + n
      /\ \A i \in 1..m : i \in 1..Len(u) /\ u[i] = s[i]
      /\ \A i \in 1..n : m + i \in 1..Len(u) /\ u[m + i] = t[i]
      /\ \A i \in 1..Len(u) : i \in 1..m \/ \E k \in 1..n : i = m + k
  BY <1>1, Joined DEF Join
<1> HIDE DEF u, m, n
<1>3. /\ \A i, j \in 1..m :
           (i < j /\ s[i].call = "start_iteration"
                  /\ s[j].call \in {"op", "probe", "start_iteration"})
             => \E k \in 1..m : i < k /\ k < j /\ s[k].call = "finish_iteration"
      /\ \A i \in 1..m : s[i].call = "start_iteration" =>
           \E k \in 1..m : i < k /\ s[k].call = "finish_iteration"
      /\ \A j \in 1..m : s[j].call = "lane_op" =>
           \E k \in 1..m : k < j /\ s[k].call = "start_iteration"
  BY DEF Closed, Has, m
<1>4. ASSUME NEW i \in 1..m, NEW j \in 1..m, NEW g \in 1..m, i < g, g < j,
              s[i].call = "lane_op", s[j].call = "lane_op", Clash(s[i], s[j]),
              s[g].call = "start_group"
       PROVE  \E k \in 1..m : i < k /\ k < j /\ s[k].call = "start_iteration"
  <2>1. i < j /\ Has(s, "start_group", i, j)
    BY <1>2, <1>4 DEF Has, m
  <2>2. Has(s, "start_iteration", i, j)
    BY <1>4, <2>1 DEF Closed, m
  <2>3. QED
    BY <2>2 DEF Has, m
<1>5. /\ \A i, j \in 1..n :
           (i < j /\ t[i].call = "start_iteration"
                  /\ t[j].call \in {"op", "probe", "start_iteration"})
             => \E k \in 1..n : i < k /\ k < j /\ t[k].call = "finish_iteration"
      /\ \A i \in 1..n : t[i].call = "start_iteration" =>
           \E k \in 1..n : i < k /\ t[k].call = "finish_iteration"
      /\ \A j \in 1..n : t[j].call = "lane_op" =>
           \E k \in 1..n : k < j /\ t[k].call = "start_iteration"
  BY DEF Closed, Has, n
<1>6. ASSUME NEW i \in 1..n, NEW j \in 1..n, NEW g \in 1..n, i < g, g < j,
              t[i].call = "lane_op", t[j].call = "lane_op", Clash(t[i], t[j]),
              t[g].call = "start_group"
       PROVE  \E k \in 1..n : i < k /\ k < j /\ t[k].call = "start_iteration"
  <2>1. i < j /\ Has(t, "start_group", i, j)
    BY <1>2, <1>6 DEF Has, n
  <2>2. Has(t, "start_iteration", i, j)
    BY <1>6, <2>1 DEF Closed, n
  <2>3. QED
    BY <2>2 DEF Has, n
<1>7. ASSUME NEW i \in 1..Len(u), NEW j \in 1..Len(u), i < j,
             u[i].call = "start_iteration",
             u[j].call \in {"op", "probe", "start_iteration"}
      PROVE  Has(u, "finish_iteration", i, j)
  <2>1. CASE i \in 1..m /\ j \in 1..m
    <3>1. PICK k \in 1..m : i < k /\ k < j /\ s[k].call = "finish_iteration"
      BY <1>2, <1>3, <1>7, <2>1
    <3>2. QED
      BY <1>2, <3>1 DEF Has
  <2>2. ASSUME i \in 1..m, NEW y \in 1..n, j = m + y
        PROVE  Has(u, "finish_iteration", i, j)
    <3>1. PICK k \in 1..m : i < k /\ s[k].call = "finish_iteration"
      BY <1>2, <1>3, <1>7, <2>2
    <3>2. k < j
      BY <1>2, <2>2
    <3>3. QED
      BY <1>2, <3>1, <3>2 DEF Has
  <2>3. ASSUME NEW x \in 1..n, i = m + x, NEW y \in 1..n, j = m + y
        PROVE  Has(u, "finish_iteration", i, j)
    <3>1. x < y /\ t[x].call = "start_iteration"
                /\ t[y].call \in {"op", "probe", "start_iteration"}
      BY <1>2, <1>7, <2>3
    <3>2. PICK k \in 1..n : x < k /\ k < y /\ t[k].call = "finish_iteration"
      BY <1>5, <3>1
    <3>3. i < m + k /\ m + k < j
      BY <1>2, <2>3, <3>2
    <3>4. QED
      BY <1>2, <3>2, <3>3 DEF Has
  <2>4. ~(i \notin 1..m /\ j \in 1..m)
    BY <1>2, <1>7
  <2>5. QED
    BY <1>2, <2>1, <2>2, <2>3, <2>4
<1>8. ASSUME NEW i \in 1..Len(u), NEW j \in 1..Len(u), i < j,
             u[i].call = "lane_op", u[j].call = "lane_op", Clash(u[i], u[j]),
             Has(u, "start_group", i, j)
      PROVE  Has(u, "start_iteration", i, j)
  <2>0. PICK g \in 1..Len(u) : i < g /\ g < j /\ u[g].call = "start_group"
    BY <1>8 DEF Has
  <2>1. CASE i \in 1..m /\ j \in 1..m
    <3>1. g \in 1..m
      BY <1>2, <2>0, <2>1
    <3>2. /\ s[i].call = "lane_op" /\ s[j].call = "lane_op" /\ Clash(s[i], s[j])
          /\ s[g].call = "start_group"
      BY <1>2, <1>8, <2>0, <2>1, <3>1
    <3>3. PICK k \in 1..m : i < k /\ k < j /\ s[k].call = "start_iteration"
      BY <1>4, <2>0, <2>1, <3>1, <3>2
    <3>4. QED
      BY <1>2, <3>3 DEF Has
  <2>2. ASSUME i \in 1..m, NEW y \in 1..n, j = m + y
        PROVE  Has(u, "start_iteration", i, j)
    <3>1. PICK k \in 1..n : k < y /\ t[k].call = "start_iteration"
      BY <1>2, <1>5, <1>8, <2>2
    <3>2. i < m + k /\ m + k < j
      BY <1>2, <2>2, <3>1
    <3>3. QED
      BY <1>2, <3>1, <3>2 DEF Has
  <2>3. ASSUME NEW x \in 1..n, i = m + x, NEW y \in 1..n, j = m + y
        PROVE  Has(u, "start_iteration", i, j)
    <3>1. x < y /\ t[x].call = "lane_op" /\ t[y].call = "lane_op" /\ Clash(t[x], t[y])
      BY <1>2, <1>8, <2>3
    <3>2. PICK h \in 1..n : g = m + h
      <4>1. g \notin 1..m
        BY <1>2, <2>0, <2>3
      <4>2. QED
        BY <1>2, <4>1
    <3>3. x < h /\ h < y /\ t[h].call = "start_group"
      BY <1>2, <2>0, <2>3, <3>2
    <3>4. PICK k \in 1..n : x < k /\ k < y /\ t[k].call = "start_iteration"
      BY <1>6, <3>1, <3>3
    <3>5. i < m + k /\ m + k < j
      BY <1>2, <2>3, <3>4
    <3>6. QED
      BY <1>2, <3>4, <3>5 DEF Has
  <2>4. ~(i \notin 1..m /\ j \in 1..m)
    BY <1>2, <1>8
  <2>5. QED
    BY <1>2, <2>1, <2>2, <2>3, <2>4
<1>9. ASSUME NEW i \in 1..Len(u), u[i].call = "start_iteration"
      PROVE  \E k \in 1..Len(u) : i < k /\ u[k].call = "finish_iteration"
  <2>1. CASE i \in 1..m
    BY <1>2, <1>3, <1>9, <2>1
  <2>2. ASSUME NEW x \in 1..n, i = m + x
        PROVE  \E k \in 1..Len(u) : i < k /\ u[k].call = "finish_iteration"
    <3>1. PICK k \in 1..n : x < k /\ t[k].call = "finish_iteration"
      BY <1>2, <1>5, <1>9, <2>2
    <3>2. i < m + k
      BY <1>2, <2>2, <3>1
    <3>3. QED
      BY <1>2, <3>1, <3>2
  <2>3. QED
    BY <1>2, <2>1, <2>2
<1>10. ASSUME NEW j \in 1..Len(u), u[j].call = "lane_op"
      PROVE  \E k \in 1..Len(u) : k < j /\ u[k].call = "start_iteration"
  <2>1. CASE j \in 1..m
    <3>1. s[j].call = "lane_op"
      BY <1>2, <1>10, <2>1
    <3>2. PICK k \in 1..m : k < j /\ s[k].call = "start_iteration"
      BY <1>3, <2>1, <3>1
    <3>3. QED
      BY <1>2, <3>2
  <2>2. ASSUME NEW y \in 1..n, j = m + y
        PROVE  \E k \in 1..Len(u) : k < j /\ u[k].call = "start_iteration"
    <3>1. PICK k \in 1..n : k < y /\ t[k].call = "start_iteration"
      BY <1>2, <1>5, <1>10, <2>2
    <3>2. m + k < j
      BY <1>2, <2>2, <3>1
    <3>3. QED
      BY <1>2, <3>1, <3>2
  <2>3. QED
    BY <1>2, <2>1, <2>2
<1>11. Closed(u)
  BY <1>2, <1>7, <1>8, <1>9, <1>10 DEF Closed
<1>12. QED
  BY <1>11 DEF u

(* The place of the p-th call of turn k, in turns of equal length.         *)
At(k, p, size) == ((k - 1) * size) + p

LEMMA TurnOrder ==
  ASSUME NEW size \in Nat \ {0}, NEW k \in Nat, NEW p \in 1..size,
         NEW q \in Nat, NEW r \in 1..size
  PROVE  At(k, p, size) < At(q, r, size) <=> k < q \/ (k = q /\ p < r)
<1>1. ASSUME NEW a \in Nat, NEW b \in Nat, a < b, NEW x \in 1..size, NEW y \in 1..size
      PROVE  At(a, x, size) < At(b, y, size)
  <2>1. PICK d \in Nat : (b - 1) = (a - 1) + 1 + d
    <3>1. b - a - 1 \in Nat /\ (b - 1) = (a - 1) + 1 + (b - a - 1)
      BY <1>1
    <3>2. QED
      BY <3>1
  <2>2. (b - 1) * size = ((a - 1) * size) + size + (d * size)
    BY <2>1
  <2>3. (d * size) \in Nat /\ (a - 1) * size \in Int
    OBVIOUS
  <2>4. (b - 1) * size >= ((a - 1) * size) + size
    BY <2>2, <2>3
  <2>5. QED
    BY <2>3, <2>4 DEF At
<1>2. At(k, p, size) \in Int /\ At(q, r, size) \in Int
  BY DEF At
<1>3. CASE k < q
  BY <1>1, <1>3
<1>4. CASE q < k
  <2>1. At(q, r, size) < At(k, p, size)
    BY <1>1, <1>4
  <2>2. QED
    BY <1>2, <1>4, <2>1
<1>5. CASE k = q
  <2>1. (k - 1) * size \in Int
    OBVIOUS
  <2>2. QED
    BY <1>5, <2>1 DEF At
<1>6. QED
  BY <1>3, <1>4, <1>5

(* u is what the n turns, of the same size, call one after the other. *)
Turns(u, turns, n, size) ==
  /\ IsSeq(u)
  /\ Len(u) = n * size
  /\ \A k \in 1..n : \A p \in 1..size :
       At(k, p, size) \in 1..Len(u) /\ u[At(k, p, size)] = turns[k][p]
  /\ \A i \in 1..Len(u) : \E k \in 1..n : \E p \in 1..size : i = At(k, p, size)

(* There are n turns of this size. *)
Sized(turns, n, size) == Len(turns) = n /\ \A k \in 1..n : Len(turns[k]) = size

LEMMA TurnPlaces ==
  ASSUME NEW n \in Nat \ {0}, NEW size \in Nat \ {0}, NEW turns, Sized(turns, n, size)
  PROVE  Turns(InTurn(turns), turns, n, size)
<1> DEFINE e(i) == turns[((i - 1) \div size) + 1][((i - 1) % size) + 1]
           f == [i \in 1..(n * size) |-> e(i)]
<1>1. InTurn(turns) = f
  <2>1. 1 \in 1..n
    OBVIOUS
  <2>2. Len(turns) = n /\ Len(turns[1]) = size
    BY <2>1 DEF Sized
  <2>3. QED
    BY <2>2 DEF InTurn
<1>2. n * size \in Nat
  OBVIOUS
<1>3. IsSeq(f) /\ Len(f) = n * size
  <2> HIDE DEF e
  <2>1. PICK m \in Nat : m = n * size
    BY <1>2
  <2>2. PICK T : T = {e(i) : i \in 1..m}
    OBVIOUS
  <2>3. f \in [1..m -> T]
    BY <2>1, <2>2
  <2> HIDE DEF f
  <2>4. f \in Seq(T) /\ Len(f) = m
    BY <2>1, <2>3
  <2>5. QED
    BY <2>1, <2>4 DEF IsSeq
<1>4. ASSUME NEW k \in 1..n, NEW p \in 1..size
      PROVE  At(k, p, size) \in 1..(n * size) /\ f[At(k, p, size)] = turns[k][p]
  <2>1. /\ (((k - 1) * size) + (p - 1)) \div size = k - 1
        /\ (((k - 1) * size) + (p - 1)) % size = p - 1
    <3>1. k - 1 \in Nat /\ p - 1 \in 0..(size - 1)
      OBVIOUS
    <3>2. \A a \in Nat : \A b \in 0..(size - 1) :
            ((a * size) + b) \div size = a /\ ((a * size) + b) % size = b
      OBVIOUS
    <3>3. QED
      BY <3>1, <3>2
  <2>2. PICK a \in Nat : a = (k - 1) * size
    <3>1. k - 1 \in Nat
      OBVIOUS
    <3>2. QED
      BY <3>1
  <2>3. n * size = a + size + ((n - k) * size) /\ (n - k) * size \in Nat
    <3>1. n - k \in Nat /\ n = (k - 1) + 1 + (n - k)
      OBVIOUS
    <3>2. n * size = ((k - 1) * size) + size + ((n - k) * size)
      BY <3>1
    <3>3. QED
      BY <2>2, <3>1, <3>2
  <2>4. At(k, p, size) = a + p /\ a + p \in 1..(n * size)
    <3>1. PICK b \in Nat : b = (n - k) * size
      BY <2>3
    <3>2. PICK w \in Nat : w = n * size
      BY <1>2
    <3>3. a + p \in 1..w
      BY <2>3, <3>1, <3>2
    <3>4. QED
      BY <2>2, <3>2, <3>3 DEF At
  <2>5. e(a + p) = turns[k][p]
    <3>1. (a + p) - 1 = ((k - 1) * size) + (p - 1)
      BY <2>2
    <3>2. ((a + p) - 1) \div size = k - 1 /\ ((a + p) - 1) % size = p - 1
      BY <2>1, <3>1
    <3>3. ((a + p) - 1) \div size + 1 = k /\ (((a + p) - 1) % size) + 1 = p
      BY <3>2
    <3>4. QED
      BY <3>3
  <2> HIDE DEF e
  <2>6. QED
    BY <2>4, <2>5
<1>5. ASSUME NEW i \in 1..(n * size)
      PROVE  \E k \in 1..n : \E p \in 1..size : i = At(k, p, size)
  <2>1. PICK c \in Nat : c = i - 1
    BY <1>2
  <2>2. PICK q \in Nat, r \in 0..(size - 1) : c = (q * size) + r
    <3>1. c \div size \in Nat /\ c % size \in 0..(size - 1)
          /\ c = ((c \div size) * size) + (c % size)
      OBVIOUS
    <3>2. QED
      BY <3>1
  <2>3. q < n
    <3>1. SUFFICES ASSUME q >= n PROVE FALSE
      OBVIOUS
    <3>2. PICK d \in Nat : q = n + d
      <4>1. q - n \in Nat /\ q = n + (q - n)
        BY <3>1
      <4>2. QED
        BY <4>1
    <3>3. q * size = (n * size) + (d * size) /\ d * size \in Nat
      BY <3>2
    <3>4. c < n * size
      BY <1>2, <2>1
    <3>5. QED
      BY <1>2, <2>2, <3>3, <3>4
  <2>4. q + 1 \in 1..n /\ r + 1 \in 1..size /\ (q + 1) - 1 = q
    BY <2>3
  <2>5. i = (q * size) + (r + 1)
    BY <2>1, <2>2
  <2>6. i = At(q + 1, r + 1, size)
    BY <2>4, <2>5 DEF At
  <2>7. QED
    BY <2>4, <2>6
<1> HIDE DEF f
<1>6. QED
  BY <1>1, <1>3, <1>4, <1>5 DEF Turns

LEMMA OneTurn ==
  ASSUME NEW size \in Nat \ {0}, NEW turns, Sized(turns, 1, size)
  PROVE  Len(InTurn(turns)) = size
<1>1. Turns(InTurn(turns), turns, 1, size)
  BY TurnPlaces
<1>2. QED
  BY <1>1 DEF Turns

LEMMA PlainInTurn ==
  ASSUME NEW n \in Nat \ {0}, NEW size \in Nat \ {0}, NEW turns, Sized(turns, n, size),
         \A k \in 1..n : Plain(turns[k])
  PROVE  Plain(InTurn(turns))
<1> DEFINE u == InTurn(turns)
<1>1. /\ IsSeq(u)
      /\ \A k \in 1..n : \A p \in 1..size : u[At(k, p, size)] = turns[k][p]
      /\ \A i \in 1..Len(u) : \E k \in 1..n : \E p \in 1..size : i = At(k, p, size)
  <2>1. Turns(u, turns, n, size)
    BY TurnPlaces
  <2>2. QED
    BY <2>1 DEF Turns
<1> HIDE DEF u
<1>2. \A k \in 1..n : \A p \in 1..size : turns[k][p].call \in {"op", "probe"}
  BY DEF Plain, Sized
<1>3. ASSUME NEW i \in 1..Len(u)
      PROVE  u[i].call \in {"op", "probe"}
  <2>1. PICK k \in 1..n, p \in 1..size : i = At(k, p, size)
    BY <1>1
  <2>2. u[i] = turns[k][p]
    BY <1>1, <2>1
  <2>3. QED
    BY <1>2, <2>2
<1>4. Plain(u)
  BY <1>1, <1>3 DEF Plain
<1>5. QED
  BY <1>4 DEF u

(* Parts that are closed are closed one after the other. *)
LEMMA ClosedInTurn ==
  ASSUME NEW n \in Nat \ {0}, NEW size \in Nat \ {0}, NEW turns, Sized(turns, n, size),
         \A k \in 1..n : Closed(turns[k])
  PROVE  Closed(InTurn(turns))
<1> DEFINE u == InTurn(turns)
           Place(k, p) == At(k, p, size)
<1>1. /\ IsSeq(u)
      /\ \A k \in 1..n : \A p \in 1..size :
           Place(k, p) \in 1..Len(u) /\ u[Place(k, p)] = turns[k][p]
      /\ \A i \in 1..Len(u) : \E k \in 1..n : \E p \in 1..size : i = Place(k, p)
  <2>1. Turns(u, turns, n, size)
    BY TurnPlaces
  <2>2. QED
    BY <2>1 DEF Turns
<1>2. \A k, q \in 1..n : \A p, r \in 1..size :
        Place(k, p) < Place(q, r) <=> k < q \/ (k = q /\ p < r)
  BY TurnOrder
<1> HIDE DEF u, Place
<1>3. ASSUME NEW k \in 1..n, NEW p \in 1..size, NEW r \in 1..size, p < r,
             turns[k][p].call = "start_iteration",
             turns[k][r].call \in {"op", "probe", "start_iteration"}
      PROVE  \E g \in 1..size : p < g /\ g < r /\ turns[k][g].call = "finish_iteration"
  <2>1. Closed(turns[k]) /\ Len(turns[k]) = size
    BY DEF Sized
  <2>2. Has(turns[k], "finish_iteration", p, r)
    BY <1>3, <2>1 DEF Closed
  <2>3. QED
    BY <2>1, <2>2 DEF Has
<1>4. ASSUME NEW k \in 1..n, NEW p \in 1..size, NEW r \in 1..size, NEW g \in 1..size,
             p < g, g < r, turns[k][p].call = "lane_op", turns[k][r].call = "lane_op",
             Clash(turns[k][p], turns[k][r]), turns[k][g].call = "start_group"
      PROVE  \E h \in 1..size : p < h /\ h < r /\ turns[k][h].call = "start_iteration"
  <2>1. p < r /\ Len(turns[k]) = size /\ Closed(turns[k])
    BY <1>4 DEF Sized
  <2>2. Has(turns[k], "start_group", p, r)
    BY <1>4, <2>1 DEF Has
  <2>3. Has(turns[k], "start_iteration", p, r)
    BY <1>4, <2>1, <2>2 DEF Closed
  <2>4. QED
    BY <2>1, <2>3 DEF Has
<1>5. ASSUME NEW k \in 1..n, NEW p \in 1..size, turns[k][p].call = "start_iteration"
      PROVE  \E g \in 1..size : p < g /\ turns[k][g].call = "finish_iteration"
  <2>1. Closed(turns[k]) /\ Len(turns[k]) = size
    BY DEF Sized
  <2>2. QED
    BY <1>5, <2>1 DEF Closed
<1>6. ASSUME NEW k \in 1..n, NEW r \in 1..size, turns[k][r].call = "lane_op"
      PROVE  \E g \in 1..size : g < r /\ turns[k][g].call = "start_iteration"
  <2>1. Closed(turns[k]) /\ Len(turns[k]) = size
    BY DEF Sized
  <2>2. QED
    BY <1>6, <2>1 DEF Closed
<1>7. ASSUME NEW i \in 1..Len(u)
      PROVE  \E k \in 1..n : \E p \in 1..size : i = Place(k, p) /\ u[i] = turns[k][p]
  <2>1. PICK k \in 1..n, p \in 1..size : i = Place(k, p)
    BY <1>1
  <2>2. u[i] = turns[k][p]
    BY <1>1, <2>1
  <2>3. QED
    BY <2>1, <2>2
<1>8. ASSUME NEW k \in 1..n, NEW p \in 1..size
      PROVE  \E i \in 1..Len(u) : i = Place(k, p) /\ u[i] = turns[k][p]
  BY <1>1
<1>9. ASSUME NEW i \in 1..Len(u), NEW j \in 1..Len(u), i < j,
             u[i].call = "start_iteration",
             u[j].call \in {"op", "probe", "start_iteration"}
      PROVE  Has(u, "finish_iteration", i, j)
  <2>1. PICK k \in 1..n, p \in 1..size : i = Place(k, p) /\ u[i] = turns[k][p]
    BY <1>7
  <2>2. PICK q \in 1..n, r \in 1..size : j = Place(q, r) /\ u[j] = turns[q][r]
    BY <1>7
  <2>3. k < q \/ (k = q /\ p < r)
    BY <1>2, <1>9, <2>1, <2>2
  <2>4. PICK g \in 1..size : /\ p < g /\ turns[k][g].call = "finish_iteration"
                             /\ k < q \/ (k = q /\ g < r)
    <3>1. CASE k < q
      BY <1>5, <1>9, <2>1, <3>1
    <3>2. CASE k = q /\ p < r
      BY <1>3, <1>9, <2>1, <2>2, <3>2
    <3>3. QED
      BY <2>3, <3>1, <3>2
  <2>5. PICK w \in 1..Len(u) : w = Place(k, g) /\ u[w] = turns[k][g]
    BY <1>8
  <2>6. i < w /\ w < j
    BY <1>2, <2>1, <2>2, <2>4, <2>5
  <2>7. QED
    BY <2>4, <2>5, <2>6 DEF Has
<1>10. ASSUME NEW i \in 1..Len(u), NEW j \in 1..Len(u), i < j,
              u[i].call = "lane_op", u[j].call = "lane_op", Clash(u[i], u[j]),
              Has(u, "start_group", i, j)
       PROVE  Has(u, "start_iteration", i, j)
  <2>1. PICK k \in 1..n, p \in 1..size : i = Place(k, p) /\ u[i] = turns[k][p]
    BY <1>7
  <2>2. PICK q \in 1..n, r \in 1..size : j = Place(q, r) /\ u[j] = turns[q][r]
    BY <1>7
  <2>3. k < q \/ (k = q /\ p < r)
    BY <1>2, <1>10, <2>1, <2>2
  <2>4. PICK h \in 1..size : /\ h < r /\ turns[q][h].call = "start_iteration"
                             /\ k < q \/ (k = q /\ p < h)
    <3>1. CASE k < q
      BY <1>6, <1>10, <2>2, <3>1
    <3>2. CASE k = q /\ p < r
      <4>1. PICK x \in 1..Len(u) : i < x /\ x < j /\ u[x].call = "start_group"
        BY <1>10 DEF Has
      <4>2. PICK y \in 1..n, g \in 1..size : x = Place(y, g) /\ u[x] = turns[y][g]
        BY <1>7
      <4>3. /\ k < y \/ (k = y /\ p < g)
            /\ y < q \/ (y = q /\ g < r)
        BY <1>2, <2>1, <2>2, <4>1, <4>2
      <4>4. y = k /\ p < g /\ g < r
        BY <3>2, <4>3
      <4>5. \E z \in 1..size : p < z /\ z < r /\ turns[k][z].call = "start_iteration"
        BY <1>4, <1>10, <2>1, <2>2, <3>2, <4>1, <4>2, <4>4
      <4>6. QED
        BY <3>2, <4>5
    <3>3. QED
      BY <2>3, <3>1, <3>2
  <2>5. PICK w \in 1..Len(u) : w = Place(q, h) /\ u[w] = turns[q][h]
    BY <1>8
  <2>6. i < w /\ w < j
    BY <1>2, <2>1, <2>2, <2>4, <2>5
  <2>7. QED
    BY <2>4, <2>5, <2>6 DEF Has
<1>11. ASSUME NEW i \in 1..Len(u), u[i].call = "start_iteration"
       PROVE  \E g \in 1..Len(u) : i < g /\ u[g].call = "finish_iteration"
  <2>1. PICK k \in 1..n, p \in 1..size : i = Place(k, p) /\ u[i] = turns[k][p]
    BY <1>7
  <2>2. PICK g \in 1..size : p < g /\ turns[k][g].call = "finish_iteration"
    BY <1>5, <1>11, <2>1
  <2>3. PICK w \in 1..Len(u) : w = Place(k, g) /\ u[w] = turns[k][g]
    BY <1>8
  <2>4. i < w
    BY <1>2, <2>1, <2>2, <2>3
  <2>5. QED
    BY <2>2, <2>3, <2>4
<1>12. ASSUME NEW j \in 1..Len(u), u[j].call = "lane_op"
       PROVE  \E g \in 1..Len(u) : g < j /\ u[g].call = "start_iteration"
  <2>1. PICK k \in 1..n, r \in 1..size : j = Place(k, r) /\ u[j] = turns[k][r]
    BY <1>7
  <2>2. PICK g \in 1..size : g < r /\ turns[k][g].call = "start_iteration"
    BY <1>6, <1>12, <2>1
  <2>3. PICK w \in 1..Len(u) : w = Place(k, g) /\ u[w] = turns[k][g]
    BY <1>8
  <2>4. w < j
    BY <1>2, <2>1, <2>2, <2>3
  <2>5. QED
    BY <2>2, <2>3, <2>4
<1>13. Closed(u)
  BY <1>1, <1>9, <1>10, <1>11, <1>12 DEF Closed
<1>14. QED
  BY <1>13 DEF u

(* A group: what it gives to its lane, between its start and its finish. *)
Group(s) ==
  /\ IsSeq(s)
  /\ \A p \in 1..Len(s) : IF p = 1 THEN s[p].call = "start_group"
                                   ELSE s[p].call \in {"lane_op", "finish_group"}

(* ... and two groups that touch different buffers. *)
Apart(s, t) ==
  \A p \in 1..Len(s) : \A r \in 1..Len(t) :
    s[p].call = "lane_op" /\ t[r].call = "lane_op" => ~Clash(s[p], t[r])

LEMMA GroupsInTurn ==
  ASSUME NEW n \in Nat \ {0}, NEW size \in Nat \ {0}, NEW turns, Sized(turns, n, size),
         \A k \in 1..n : Group(turns[k]),
         \A k, q \in 1..n : k < q => Apart(turns[k], turns[q])
  PROVE  Groups(InTurn(turns))
<1> DEFINE u == InTurn(turns)
           Place(k, p) == At(k, p, size)
<1>1. /\ IsSeq(u)
      /\ \A k \in 1..n : \A p \in 1..size :
           Place(k, p) \in 1..Len(u) /\ u[Place(k, p)] = turns[k][p]
      /\ \A i \in 1..Len(u) : \E k \in 1..n : \E p \in 1..size : i = Place(k, p)
  <2>1. Turns(u, turns, n, size)
    BY TurnPlaces
  <2>2. QED
    BY <2>1 DEF Turns
<1>2. \A k, q \in 1..n : \A p, r \in 1..size :
        Place(k, p) < Place(q, r) <=> k < q \/ (k = q /\ p < r)
  BY TurnOrder
<1> HIDE DEF u, Place
<1>3. \A k \in 1..n : \A p \in 1..size :
        /\ p = 1 => turns[k][p].call = "start_group"
        /\ p # 1 => turns[k][p].call \in {"lane_op", "finish_group"}
  BY DEF Group, Sized
<1>4. ASSUME NEW i \in 1..Len(u)
      PROVE  \E k \in 1..n : \E p \in 1..size : i = Place(k, p) /\ u[i] = turns[k][p]
  <2>1. PICK k \in 1..n, p \in 1..size : i = Place(k, p)
    BY <1>1
  <2>2. u[i] = turns[k][p]
    BY <1>1, <2>1
  <2>3. QED
    BY <2>1, <2>2
<1>5. ASSUME NEW i \in 1..Len(u)
      PROVE  u[i].call \in {"start_group", "lane_op", "finish_group"}
  <2>1. PICK k \in 1..n, p \in 1..size : u[i] = turns[k][p]
    BY <1>4
  <2>2. QED
    BY <1>3, <2>1
<1>6. ASSUME NEW i \in 1..Len(u), NEW j \in 1..Len(u), i < j,
             u[i].call = "lane_op", u[j].call = "lane_op", Clash(u[i], u[j]),
             Has(u, "start_group", i, j)
      PROVE  FALSE
  <2>1. PICK k \in 1..n, p \in 1..size : i = Place(k, p) /\ u[i] = turns[k][p]
    BY <1>4
  <2>2. PICK q \in 1..n, r \in 1..size : j = Place(q, r) /\ u[j] = turns[q][r]
    BY <1>4
  <2>3. PICK g \in 1..Len(u) : i < g /\ g < j /\ u[g].call = "start_group"
    BY <1>6 DEF Has
  <2>4. PICK y \in 1..n, x \in 1..size : g = Place(y, x) /\ u[g] = turns[y][x]
    BY <1>4
  <2>5. x = 1
    BY <1>3, <2>3, <2>4
  <2>6. /\ k < y \/ (k = y /\ p < x)
        /\ y < q \/ (y = q /\ x < r)
    BY <1>2, <2>1, <2>2, <2>3, <2>4
  <2>7. k < q
    BY <2>5, <2>6
  <2>8. turns[k][p].call = "lane_op" /\ turns[q][r].call = "lane_op"
        /\ Clash(turns[k][p], turns[q][r])
    BY <1>6, <2>1, <2>2
  <2>9. QED
    BY <2>7, <2>8 DEF Apart, Sized
<1>7. Groups(u)
  BY <1>1, <1>5, <1>6 DEF Groups
<1>8. QED
  BY <1>7 DEF u

(* An iteration, with what is on the default stream before and after it. *)
Opens(s) ==
  /\ IsSeq(s) /\ Len(s) >= 1
  /\ \A i \in 1..Len(s) : IF i = Len(s) THEN s[i].call = "start_iteration"
                                        ELSE s[i].call \in {"op", "probe"}
Closes(t) ==
  /\ IsSeq(t) /\ Len(t) >= 1
  /\ \A i \in 1..Len(t) : IF i = 1 THEN t[i].call = "finish_iteration"
                                   ELSE t[i].call \in {"op", "probe"}

LEMMA IterationIsClosed ==
  ASSUME NEW s, NEW g, NEW t, Opens(s), Groups(g), Closes(t)
  PROVE  Closed(s \o g \o t) /\ Len(s \o g \o t) = Len(s) + Len(g) + Len(t)
<1> DEFINE v == s \o g
           u == v \o t
           m == Len(s)
           n == Len(g)
           l == Len(t)
           b == m + n
<1>1. Join(v, s, g)
  <2>1. IsSeq(g) /\ IsSeq(s)
    BY DEF Groups, Opens
  <2>2. QED
    BY <2>1, Joined
<1>2. /\ IsSeq(v) /\ m \in Nat /\ n \in Nat /\ Len(v) = b
      /\ \A i \in 1..m : i \in 1..Len(v) /\ v[i] = s[i]
      /\ \A i \in 1..n : m + i \in 1..Len(v) /\ v[m + i] = g[i]
      /\ \A i \in 1..Len(v) : i \in 1..m \/ \E k \in 1..n : i = m + k
  BY <1>1 DEF Join
<1> HIDE DEF v
<1>3. Join(u, v, t)
  <2>1. IsSeq(v) /\ IsSeq(t)
    BY <1>2 DEF Closes
  <2>2. QED
    BY <2>1, Joined
<1>4. /\ IsSeq(u) /\ l \in Nat
      /\ \A i \in 1..Len(v) : i \in 1..Len(u) /\ u[i] = v[i]
      /\ \A i \in 1..l : Len(v) + i \in 1..Len(u) /\ u[Len(v) + i] = t[i]
      /\ \A i \in 1..Len(u) : i \in 1..Len(v) \/ \E k \in 1..l : i = Len(v) + k
  BY <1>3 DEF Join
<1>5. b = m + n
  OBVIOUS
<1> HIDE DEF u, m, n, l, b
<1>6. /\ \A i \in 1..m : i \in 1..Len(u) /\ u[i] = s[i]
      /\ \A i \in 1..n : m + i \in 1..Len(u) /\ u[m + i] = g[i]
      /\ \A i \in 1..l : b + i \in 1..Len(u) /\ u[b + i] = t[i]
  BY <1>2, <1>4
<1>7. \A i \in 1..Len(u) : \/ i \in 1..m
                           \/ \E k \in 1..n : i = m + k
                           \/ \E k \in 1..l : i = b + k
  BY <1>2, <1>4
<1>8. /\ m >= 1 /\ m \in 1..Len(u) /\ u[m].call = "start_iteration"
      /\ \A i \in 1..m : i # m => u[i].call \in {"op", "probe"}
  <2>1. m \in 1..m
    BY <1>2 DEF m, Opens
  <2>2. m \in 1..Len(u) /\ u[m] = s[m] /\ m >= 1
    BY <1>6, <2>1 DEF m
  <2>3. QED
    BY <1>6, <2>1, <2>2 DEF m, Opens
<1>9. /\ b + 1 \in 1..Len(u) /\ u[b + 1].call = "finish_iteration"
      /\ \A k \in 1..l : k # 1 => u[b + k].call \in {"op", "probe"}
  <2>1. 1 \in 1..l
    BY <1>4 DEF l, Closes
  <2>2. QED
    BY <1>6, <2>1 DEF l, Closes
<1>10. \A k \in 1..n : u[m + k].call \in {"start_group", "lane_op", "finish_group"}
  BY <1>6 DEF Groups, n
<1>11. ASSUME NEW i \in 1..Len(u), u[i].call = "start_iteration"
      PROVE  i = m
  <2>1. CASE i \in 1..m
    BY <1>8, <1>11, <2>1
  <2>2. \A k \in 1..n : i # m + k
    BY <1>10, <1>11
  <2>3. \A k \in 1..l : i # b + k
    BY <1>9, <1>11
  <2>4. QED
    BY <1>7, <2>1, <2>2, <2>3
<1>12. ASSUME NEW i \in 1..Len(u), u[i].call \in {"lane_op", "start_group"}
       PROVE  \E k \in 1..n : i = m + k
  <2>1. i \notin 1..m
    BY <1>8, <1>12
  <2>2. \A k \in 1..l : i # b + k
    BY <1>9, <1>12
  <2>3. QED
    BY <1>7, <2>1, <2>2
<1>13. ASSUME NEW i \in 1..Len(u), NEW j \in 1..Len(u), i < j,
              u[i].call = "start_iteration",
              u[j].call \in {"op", "probe", "start_iteration"}
       PROVE  Has(u, "finish_iteration", i, j)
  <2>1. i = m
    BY <1>11, <1>13
  <2>2. j \notin 1..m
    BY <1>2, <1>13, <2>1
  <2>3. PICK k \in 1..l : j = b + k
    <3>1. \A y \in 1..n : j # m + y
      BY <1>10, <1>13
    <3>2. QED
      BY <1>7, <2>2, <3>1
  <2>4. k # 1
    BY <1>9, <1>13, <2>3
  <2>5. i < b + 1 /\ b + 1 < j
    <3>1. b \in Nat /\ m <= b /\ k > 1
      BY <1>2, <1>4, <1>5, <2>3, <2>4
    <3>2. QED
      BY <1>2, <1>4, <2>1, <2>3, <3>1
  <2>6. QED
    BY <1>9, <2>5 DEF Has
<1>14. ASSUME NEW i \in 1..Len(u), NEW j \in 1..Len(u), i < j,
              u[i].call = "lane_op", u[j].call = "lane_op", Clash(u[i], u[j]),
              Has(u, "start_group", i, j)
       PROVE  FALSE
  <2>1. PICK x \in 1..n : i = m + x
    BY <1>12, <1>14
  <2>2. PICK y \in 1..n : j = m + y
    BY <1>12, <1>14
  <2>3. PICK w \in 1..Len(u) : i < w /\ w < j /\ u[w].call = "start_group"
    BY <1>14 DEF Has
  <2>4. PICK z \in 1..n : w = m + z
    BY <1>12, <2>3
  <2>5. x < z /\ z < y /\ x < y
    BY <1>2, <2>1, <2>2, <2>3, <2>4
  <2>6. /\ g[x].call = "lane_op" /\ g[y].call = "lane_op" /\ Clash(g[x], g[y])
        /\ g[z].call = "start_group"
    BY <1>6, <1>14, <2>1, <2>2, <2>3, <2>4
  <2>7. Has(g, "start_group", x, y)
    BY <2>5, <2>6 DEF Has, n
  <2>8. QED
    BY <2>5, <2>6, <2>7 DEF Groups, n
<1>15. ASSUME NEW i \in 1..Len(u), u[i].call = "start_iteration"
       PROVE  \E k \in 1..Len(u) : i < k /\ u[k].call = "finish_iteration"
  <2>1. i = m
    BY <1>11, <1>15
  <2>2. i < b + 1
    BY <1>2, <1>5, <2>1
  <2>3. QED
    BY <1>9, <2>2
<1>16. ASSUME NEW j \in 1..Len(u), u[j].call = "lane_op"
       PROVE  \E k \in 1..Len(u) : k < j /\ u[k].call = "start_iteration"
  <2>1. PICK y \in 1..n : j = m + y
    BY <1>12, <1>16
  <2>2. m < j
    BY <1>2, <2>1
  <2>3. QED
    BY <1>8, <2>2
<1>17. Closed(u)
  BY <1>4, <1>13, <1>14, <1>15, <1>16 DEF Closed
<1>18. Len(u) = Len(s) + Len(g) + Len(t)
  BY <1>1, <1>3 DEF Join
<1>19. QED
  BY <1>17, <1>18 DEF u, v

LEMMA CallsAre ==
  ASSUME NEW name, NEW r, NEW w
  PROVE  /\ Call(name).call = name
         /\ Op(r, w).call = "op"
         /\ LaneOp(r, w).call = "lane_op" /\ LaneOp(r, w).reads = r /\ LaneOp(r, w).writes = w
BY DEF Call, Op, LaneOp

LEMMA OneIsPlain ==
  ASSUME NEW c, c.call \in {"op", "probe"}
  PROVE  Plain(<<c>>) /\ Len(<<c>>) = 1
<1> DEFINE s == <<c>>
<1>1. s \in Seq({c}) /\ Len(s) = 1 /\ s[1] = c
  OBVIOUS
<1> HIDE DEF s
<1>2. \A i \in 1..1 : i = 1
  OBVIOUS
<1>3. \A i \in 1..Len(s) : s[i].call \in {"op", "probe"}
  BY <1>1, <1>2
<1>4. IsSeq(s)
  BY <1>1 DEF IsSeq
<1>5. Plain(s) /\ Len(s) = 1
  BY <1>1, <1>3, <1>4 DEF Plain
<1>6. QED
  BY <1>5 DEF s

LEMMA ProbeIsPlain ==
  ASSUME NEW r
  PROVE  Plain(Probe(r)) /\ Len(Probe(r)) = 1
<1> DEFINE c == [call |-> "probe", reads |-> r, writes |-> {}]
<1>1. Probe(r) = <<c>> /\ c.call \in {"op", "probe"}
  BY DEF Probe
<1> HIDE DEF c
<1>2. QED
  BY <1>1, OneIsPlain

LEMMA OpIsPlain ==
  ASSUME NEW r, NEW w
  PROVE  Plain(<<Op(r, w)>>) /\ Len(<<Op(r, w)>>) = 1
<1>1. Op(r, w).call \in {"op", "probe"}
  BY CallsAre
<1>2. QED
  BY <1>1, OneIsPlain

LEMMA JoinedPlain ==
  ASSUME NEW s, NEW t, Plain(s), Plain(t)
  PROVE  Plain(s \o t) /\ Len(s \o t) = Len(s) + Len(t)
<1> DEFINE u == s \o t
<1>1. Join(u, s, t)
  BY Joined DEF Plain
<1> HIDE DEF u
<1>2. ASSUME NEW i \in 1..Len(u)
      PROVE  u[i].call \in {"op", "probe"}
  <2>1. CASE i \in 1..Len(s)
    BY <1>1, <2>1 DEF Join, Plain
  <2>2. ASSUME NEW k \in 1..Len(t), i = Len(s) + k
        PROVE  u[i].call \in {"op", "probe"}
    BY <1>1, <2>2 DEF Join, Plain
  <2>3. QED
    BY <1>1, <2>1, <2>2 DEF Join
<1>3. Plain(u) /\ Len(u) = Len(s) + Len(t)
  BY <1>1, <1>2 DEF Join, Plain
<1>4. QED
  BY <1>3 DEF u

(* The buffers of a head. *)
BuffersOf(h) == {<<"Q", h>>, <<"K", h>>, <<"V", h>>, <<"weights", h>>, <<"context", h>>}

LEMMA ForwardHeadIsGroup ==
  ASSUME NEW h
  PROVE  /\ Group(ForwardHead(h)) /\ Len(ForwardHead(h)) = 5
         /\ \A p \in 1..5 : ForwardHead(h)[p].call = "lane_op" =>
              /\ ForwardHead(h)[p].reads \subseteq BuffersOf(h)
              /\ ForwardHead(h)[p].writes \subseteq BuffersOf(h)
<1> DEFINE a == Call("start_group")
           b == LaneOp({<<"Q", h>>, <<"K", h>>}, {<<"weights", h>>})
           c == LaneOp({<<"weights", h>>}, {<<"weights", h>>})
           d == LaneOp({<<"weights", h>>, <<"V", h>>}, {<<"context", h>>})
           e == Call("finish_group")
           s == <<a, b, c, d, e>>
<1>1. /\ a.call = "start_group" /\ e.call = "finish_group"
      /\ b.call = "lane_op" /\ c.call = "lane_op" /\ d.call = "lane_op"
  BY CallsAre
<1>2. /\ b.reads = {<<"Q", h>>, <<"K", h>>} /\ b.writes = {<<"weights", h>>}
      /\ c.reads = {<<"weights", h>>} /\ c.writes = {<<"weights", h>>}
      /\ d.reads = {<<"weights", h>>, <<"V", h>>} /\ d.writes = {<<"context", h>>}
  BY CallsAre
<1>3. ForwardHead(h) = s
  BY DEF ForwardHead
<1>4. \A x \in {b, c, d} : x.reads \subseteq BuffersOf(h) /\ x.writes \subseteq BuffersOf(h)
  BY <1>2 DEF BuffersOf
<1> HIDE DEF a, b, c, d, e
<1>5. /\ s \in Seq({a, b, c, d, e}) /\ Len(s) = 5
      /\ s[1] = a /\ s[2] = b /\ s[3] = c /\ s[4] = d /\ s[5] = e
  OBVIOUS
<1> HIDE DEF s
<1>6. \A p \in 1..5 : p = 1 \/ p = 2 \/ p = 3 \/ p = 4 \/ p = 5
  OBVIOUS
<1>7. Group(s)
  BY <1>1, <1>5, <1>6 DEF Group, IsSeq
<1>8. \A p \in 1..5 : s[p].call = "lane_op" =>
        s[p].reads \subseteq BuffersOf(h) /\ s[p].writes \subseteq BuffersOf(h)
  BY <1>1, <1>4, <1>5, <1>6
<1>9. QED
  BY <1>3, <1>5, <1>7, <1>8

LEMMA ForwardHeadsApart ==
  ASSUME NEW h, NEW k, h # k
  PROVE  Apart(ForwardHead(h), ForwardHead(k))
<1> DEFINE s == ForwardHead(h)
           t == ForwardHead(k)
<1>1. BuffersOf(h) \cap BuffersOf(k) = {}
  BY DEF BuffersOf
<1>2. /\ Len(s) = 5 /\ Len(t) = 5
      /\ \A p \in 1..5 : s[p].call = "lane_op" =>
           s[p].reads \subseteq BuffersOf(h) /\ s[p].writes \subseteq BuffersOf(h)
      /\ \A p \in 1..5 : t[p].call = "lane_op" =>
           t[p].reads \subseteq BuffersOf(k) /\ t[p].writes \subseteq BuffersOf(k)
  BY ForwardHeadIsGroup
<1> HIDE DEF s, t
<1>3. ASSUME NEW a, NEW b,
             a.reads \subseteq BuffersOf(h), a.writes \subseteq BuffersOf(h),
             b.reads \subseteq BuffersOf(k), b.writes \subseteq BuffersOf(k)
      PROVE  ~Clash(a, b)
  BY <1>1, <1>3 DEF Clash
<1>4. Apart(s, t)
  BY <1>2, <1>3 DEF Apart
<1>5. QED
  BY <1>4 DEF s, t

LEMMA BackwardHeadIsGroup ==
  ASSUME NEW h, NEW lane
  PROVE  Group(BackwardHead(h, lane)) /\ Len(BackwardHead(h, lane)) = 7
<1> DEFINE a == Call("start_group")
           b == LaneOp({<<"dcontext", h>>, <<"V", h>>}, {DweightsLane(lane)})
           c == LaneOp({<<"weights", h>>, <<"dcontext", h>>}, {<<"dV", h>>})
           d == LaneOp({<<"weights", h>>, DweightsLane(lane)}, {<<"dscores">>})
           e == LaneOp({<<"dscores">>, <<"K", h>>}, {<<"dQ", h>>})
           f == LaneOp({<<"dscores">>, <<"Q", h>>}, {<<"dK", h>>})
           g == Call("finish_group")
           s == <<a, b, c, d, e, f, g>>
<1>1. /\ a.call = "start_group" /\ g.call = "finish_group"
      /\ b.call = "lane_op" /\ c.call = "lane_op" /\ d.call = "lane_op"
      /\ e.call = "lane_op" /\ f.call = "lane_op"
  BY CallsAre
<1>2. BackwardHead(h, lane) = s
  BY DEF BackwardHead
<1> HIDE DEF a, b, c, d, e, f, g
<1>3. /\ s \in Seq({a, b, c, d, e, f, g}) /\ Len(s) = 7
      /\ s[1] = a /\ s[2] = b /\ s[3] = c /\ s[4] = d /\ s[5] = e /\ s[6] = f /\ s[7] = g
  OBVIOUS
<1> HIDE DEF s
<1>4. \A p \in 1..7 : p = 1 \/ p = 2 \/ p = 3 \/ p = 4 \/ p = 5 \/ p = 6 \/ p = 7
  OBVIOUS
<1>5. Group(s)
  BY <1>1, <1>3, <1>4 DEF Group, IsSeq
<1>6. QED
  BY <1>2, <1>3, <1>5

LEMMA ScaleHeadIsPlain ==
  ASSUME NEW h, NEW lane
  PROVE  Plain(ScaleHead(h, lane)) /\ Len(ScaleHead(h, lane)) = 5
<1> DEFINE a == Probe({DweightsLane(lane), <<"dV", h>>, <<"dscores">>})
           b == <<Op({<<"dQ", h>>}, {<<"dQ", h>>})>>
           c == Probe({<<"dQ", h>>})
           d == <<Op({<<"dK", h>>}, {<<"dK", h>>})>>
           e == Probe({<<"dK", h>>})
<1>1. /\ Plain(a) /\ Plain(b) /\ Plain(c) /\ Plain(d) /\ Plain(e)
      /\ Len(a) = 1 /\ Len(b) = 1 /\ Len(c) = 1 /\ Len(d) = 1 /\ Len(e) = 1
  BY ProbeIsPlain, OpIsPlain
<1>2. ScaleHead(h, lane) = a \o b \o c \o d \o e
  BY DEF ScaleHead
<1> HIDE DEF a, b, c, d, e
<1>3. Plain(a \o b) /\ Len(a \o b) = Len(a) + Len(b)
  BY <1>1, JoinedPlain
<1>4. Plain(a \o b \o c) /\ Len(a \o b \o c) = Len(a \o b) + Len(c)
  BY <1>1, <1>3, JoinedPlain
<1>5. Plain(a \o b \o c \o d) /\ Len(a \o b \o c \o d) = Len(a \o b \o c) + Len(d)
  BY <1>1, <1>4, JoinedPlain
<1>6. /\ Plain(a \o b \o c \o d \o e)
      /\ Len(a \o b \o c \o d \o e) = Len(a \o b \o c \o d) + Len(e)
  BY <1>1, <1>5, JoinedPlain
<1>7. QED
  BY <1>1, <1>2, <1>3, <1>4, <1>5, <1>6

LEMMA LenOfTurns ==
  ASSUME NEW n \in Nat, NEW T, NEW f \in [1..n -> T]
  PROVE  Len(f) = n
<1>1. f \in Seq(T)
  OBVIOUS
<1>2. QED
  BY <1>1

LEMMA OneIsSeq ==
  ASSUME NEW c
  PROVE  IsSeq(<<c>>) /\ Len(<<c>>) = 1 /\ <<c>>[1] = c
<1>1. <<c>> \in Seq({c}) /\ Len(<<c>>) = 1 /\ <<c>>[1] = c
  OBVIOUS
<1>2. QED
  BY <1>1 DEF IsSeq

(* With one scratch lane an iteration of the backward pass is one head. *)
LEMMA BackwardIterationIsClosed ==
  ASSUME NEW h0 \in 0..(Heads - 1)
  PROVE  Closed(BackwardIteration(h0)) /\ Len(BackwardIteration(h0)) = 14
<1> DEFINE A == [i \in 1..1 |-> BackwardHead(h0 + i, i - 1)]
           B == [i \in 1..1 |-> ScaleHead(h0 + i, i - 1)]
           s == <<Call("start_iteration")>>
           t == <<Call("finish_iteration")>>
           g == InTurn(A)
           b == InTurn(B)
<1>1. Heads \in Nat \ {0} /\ Lesser(ScratchLanes, Heads - h0) = 1
  BY LanesAssumption DEF Lesser, ScratchLanes
<1>2. BackwardIteration(h0) = s \o g \o t \o b
  BY <1>1 DEF BackwardIteration
<1>3. /\ Sized(A, 1, 7) /\ \A k \in 1..1 : Group(A[k])
      /\ Sized(B, 1, 5) /\ \A k \in 1..1 : Plain(B[k])
  <2>1. /\ \A k \in 1..1 : A[k] = BackwardHead(h0 + k, k - 1)
        /\ \A k \in 1..1 : B[k] = ScaleHead(h0 + k, k - 1)
    OBVIOUS
  <2>2. Len(A) = 1
    <3>1. A \in [1..1 -> {BackwardHead(h0 + i, i - 1) : i \in 1..1}]
      OBVIOUS
    <3> HIDE DEF A
    <3>2. QED
      BY <3>1, LenOfTurns
  <2>3. Len(B) = 1
    <3>1. B \in [1..1 -> {ScaleHead(h0 + i, i - 1) : i \in 1..1}]
      OBVIOUS
    <3> HIDE DEF B
    <3>2. QED
      BY <3>1, LenOfTurns
  <2> HIDE DEF A, B
  <2>4. QED
    BY <2>1, <2>2, <2>3, BackwardHeadIsGroup, ScaleHeadIsPlain DEF Sized
<1> HIDE DEF A, B
<1>4. Groups(g) /\ Len(g) = 7
  <2>1. \A k, q \in 1..1 : ~(k < q)
    OBVIOUS
  <2>2. 1 \in Nat \ {0} /\ 7 \in Nat \ {0}
    OBVIOUS
  <2>3. Groups(InTurn(A))
    BY <1>3, <2>1, <2>2, GroupsInTurn
  <2>4. Len(InTurn(A)) = 7
    BY <1>3, <2>2, OneTurn
  <2>5. QED
    BY <2>3, <2>4
<1>5. Plain(b) /\ Len(b) = 5
  <2>1. 1 \in Nat \ {0} /\ 5 \in Nat \ {0}
    OBVIOUS
  <2>2. Plain(InTurn(B))
    BY <1>3, <2>1, PlainInTurn
  <2>3. Len(InTurn(B)) = 5
    BY <1>3, <2>1, OneTurn
  <2>4. QED
    BY <2>2, <2>3
<1>6. Opens(s) /\ Len(s) = 1 /\ Closes(t) /\ Len(t) = 1
  <2>1. Call("start_iteration").call = "start_iteration"
        /\ Call("finish_iteration").call = "finish_iteration"
    BY CallsAre
  <2>2. /\ IsSeq(s) /\ Len(s) = 1 /\ s[1].call = "start_iteration"
        /\ IsSeq(t) /\ Len(t) = 1 /\ t[1].call = "finish_iteration"
    BY <2>1, OneIsSeq
  <2> HIDE DEF s, t
  <2>3. \A i \in 1..1 : i = 1
    OBVIOUS
  <2>4. QED
    BY <2>2, <2>3 DEF Opens, Closes
<1> HIDE DEF s, t, g, b
<1>7. Closed(s \o g \o t) /\ Len(s \o g \o t) = Len(s) + Len(g) + Len(t)
  <2>1. Opens(s) /\ Groups(g) /\ Closes(t)
    BY <1>4, <1>6
  <2>2. QED
    BY <2>1, IterationIsClosed
<1>8. Closed(s \o g \o t \o b)
  BY <1>5, <1>7, PlainIsClosed, JoinedClosed
<1>9. Len(s \o g \o t \o b) = Len(s \o g \o t) + Len(b)
  <2>1. IsSeq(s \o g \o t) /\ IsSeq(b)
    BY <1>5, <1>7 DEF Plain, Closed
  <2>2. Join(s \o g \o t \o b, s \o g \o t, b)
    BY <2>1, Joined
  <2>3. QED
    BY <2>2 DEF Join
<1>10. QED
  BY <1>2, <1>4, <1>5, <1>6, <1>7, <1>8, <1>9

LEMMA BackwardIsClosed == Closed(Backward)
<1> DEFINE n == (Heads + ScratchLanes - 1) \div ScratchLanes
           A == [i \in 1..n |-> BackwardIteration((i - 1) * ScratchLanes)]
           dqkv == Of("dQ") \cup Of("dK") \cup Of("dV")
           s1 == <<Op(Of("context") \cup {<<"dout">>}, {<<"dWo">>})>>
           s2 == Probe({<<"dWo">>})
           s3 == <<Op({<<"dout">>}, {<<"dbo">>})>>
           s4 == Probe({<<"dbo">>})
           s5 == <<Op({<<"dout">>}, Of("dcontext"))>>
           s6 == Probe(Of("dcontext"))
           s7 == <<Op({}, dqkv)>>
           s8 == InTurn(A)
           s9a == <<Op(Of("dQ") \cup Of("dK"), Of("dQ") \cup Of("dK"))>>
           s9b == <<Op(dqkv, {<<"dx">>})>>
           s9 == <<Op(Of("dQ") \cup Of("dK"), Of("dQ") \cup Of("dK")), Op(dqkv, {<<"dx">>})>>
           s10 == Probe({<<"dx">>})
           s11 == <<Op({<<"x">>} \cup dqkv, {<<"dWqkv">>})>>
           s12 == Probe({<<"dWqkv">>})
           s13 == <<Op(dqkv, {<<"dbqkv">>})>>
           s14 == Probe({<<"dbqkv">>})
<1>1. Backward = s1 \o s2 \o s3 \o s4 \o s5 \o s6 \o s7 \o s8 \o s9 \o s10 \o s11 \o s12 \o s13 \o s14
  BY DEF Backward
<1>2. /\ Closed(s1) /\ Closed(s2) /\ Closed(s3) /\ Closed(s4) /\ Closed(s5) /\ Closed(s6)
      /\ Closed(s7) /\ Closed(s10) /\ Closed(s11) /\ Closed(s12) /\ Closed(s13) /\ Closed(s14)
  BY OpIsPlain, ProbeIsPlain, PlainIsClosed
<1>3. Closed(s9)
  <2>1. Plain(s9a) /\ Plain(s9b)
    BY OpIsPlain
  <2>2. s9 = s9a \o s9b
    OBVIOUS
  <2> HIDE DEF s9, s9a, s9b
  <2>3. QED
    BY <2>1, <2>2, JoinedPlain, PlainIsClosed
<1>4. Closed(s8)
  <2>1. Heads \in Nat \ {0} /\ ScratchLanes = 1 /\ n = Heads
    BY LanesAssumption DEF ScratchLanes
  <2>2. \A k \in 1..Heads : (k - 1) * ScratchLanes \in 0..(Heads - 1)
    BY <2>1
  <2>3. /\ A \in [1..Heads -> {BackwardIteration((i - 1) * ScratchLanes) : i \in 1..Heads}]
        /\ \A k \in 1..Heads : A[k] = BackwardIteration((k - 1) * ScratchLanes)
    BY <2>1
  <2> HIDE DEF A
  <2>4. Len(A) = Heads
    BY <2>1, <2>3, LenOfTurns
  <2>5. \A k \in 1..Heads : Closed(A[k]) /\ Len(A[k]) = 14
    BY <2>2, <2>3, BackwardIterationIsClosed
  <2>6. 14 \in Nat \ {0} /\ Sized(A, Heads, 14)
    BY <2>4, <2>5 DEF Sized
  <2>7. QED
    BY <2>1, <2>5, <2>6, ClosedInTurn
<1> HIDE DEF s1, s2, s3, s4, s5, s6, s7, s8, s9, s10, s11, s12, s13, s14
<1>5. Closed(s1 \o s2 \o s3 \o s4)
  BY <1>2, JoinedClosed
<1>6. Closed(s1 \o s2 \o s3 \o s4 \o s5 \o s6 \o s7)
  BY <1>2, <1>5, JoinedClosed
<1>7. Closed(s1 \o s2 \o s3 \o s4 \o s5 \o s6 \o s7 \o s8 \o s9 \o s10)
  BY <1>2, <1>3, <1>4, <1>6, JoinedClosed
<1>8. Closed(s1 \o s2 \o s3 \o s4 \o s5 \o s6 \o s7 \o s8 \o s9 \o s10 \o s11 \o s12
             \o s13 \o s14)
  BY <1>2, <1>7, JoinedClosed
<1>9. QED
  BY <1>1, <1>8

LEMMA ForwardIsClosed == Closed(Forward)
<1> DEFINE A == [h \in 1..Heads |-> ForwardHead(h)]
           qkv == Of("Q") \cup Of("K") \cup Of("V")
           a == Op({<<"x">>}, qkv)
           b == Op(qkv, qkv)
           c == Op(Of("Q") \cup Of("K"), Of("Q") \cup Of("K"))
           d == Op({}, Of("context"))
           e == Call("start_iteration")
           f == Call("finish_iteration")
           x == Op(Of("context"), {<<"out">>})
           y == Op({<<"out">>}, {<<"out">>})
           s == <<a, b, c, d, e>>
           t == <<f, x, y>>
           g == InTurn(A)
<1>1. Forward = s \o g \o t
  BY DEF Forward
<1>2. Groups(g)
  <2>1. Heads \in Nat \ {0}
    BY LanesAssumption
  <2>2. /\ A \in [1..Heads -> {ForwardHead(h) : h \in 1..Heads}]
        /\ \A k \in 1..Heads : A[k] = ForwardHead(k)
    OBVIOUS
  <2> HIDE DEF A
  <2>3. Len(A) = Heads
    BY <2>1, <2>2, LenOfTurns
  <2>4. \A k \in 1..Heads : Group(A[k]) /\ Len(A[k]) = 5
    BY <2>2, ForwardHeadIsGroup
  <2>5. \A k, q \in 1..Heads : k < q => Apart(A[k], A[q])
    BY <2>2, ForwardHeadsApart
  <2>6. 5 \in Nat \ {0} /\ Sized(A, Heads, 5)
    BY <2>3, <2>4 DEF Sized
  <2>7. QED
    BY <2>1, <2>4, <2>5, <2>6, GroupsInTurn
<1>3. /\ a.call = "op" /\ b.call = "op" /\ c.call = "op" /\ d.call = "op"
      /\ x.call = "op" /\ y.call = "op"
      /\ e.call = "start_iteration" /\ f.call = "finish_iteration"
  <2>1. \A r, w : Op(r, w).call = "op"
    BY CallsAre
  <2>2. \A name : Call(name).call = name
    BY CallsAre
  <2>3. QED
    BY <2>1, <2>2
<1> HIDE DEF a, b, c, d, e, f, x, y
<1>4. Opens(s)
  <2>1. /\ s \in Seq({a, b, c, d, e}) /\ Len(s) = 5
        /\ s[1] = a /\ s[2] = b /\ s[3] = c /\ s[4] = d /\ s[5] = e
    OBVIOUS
  <2> HIDE DEF s
  <2>2. \A i \in 1..5 : i = 1 \/ i = 2 \/ i = 3 \/ i = 4 \/ i = 5
    OBVIOUS
  <2>3. QED
    BY <1>3, <2>1, <2>2 DEF IsSeq, Opens
<1>5. Closes(t)
  <2>1. /\ t \in Seq({f, x, y}) /\ Len(t) = 3 /\ t[1] = f /\ t[2] = x /\ t[3] = y
    OBVIOUS
  <2> HIDE DEF t
  <2>2. \A i \in 1..3 : i = 1 \/ i = 2 \/ i = 3
    OBVIOUS
  <2>3. QED
    BY <1>3, <2>1, <2>2 DEF IsSeq, Closes
<1> HIDE DEF s, t, g
<1>6. Closed(s \o g \o t)
  BY <1>2, <1>4, <1>5, IterationIsClosed
<1>7. QED
  BY <1>1, <1>6

LEMMA ProgramFacts ==
  IterationsClose /\ GroupsIndependent /\ Calls \subseteq Nat \ {0}
<1> DEFINE s == AttentionCalls
<1>1. Closed(s)
  BY ForwardIsClosed, BackwardIsClosed, JoinedClosed DEF AttentionCalls
<1>2. Calls = 1..Len(s) /\ Len(s) \in Nat
  BY <1>1 DEF Closed, IsSeq, Calls
<1>3. \A name, i, j : Has(s, name, i, j) <=> Between(name, i, j)
  BY <1>2 DEF Has, Between, CallOf
<1>4. \A i, j : Conflict(i, j) <=> Clash(s[i], s[j])
  BY DEF Conflict, Clash
<1>5. IterationsClose
  BY <1>1, <1>2, <1>3 DEF Closed, IterationsClose, CallOf
<1>6. GroupsIndependent
  BY <1>1, <1>2, <1>3, <1>4 DEF Closed, GroupsIndependent, CallOf
<1>7. QED
  BY <1>2, <1>5, <1>6

LEMMA LanesInvariant == Spec => []LanesInv
<1>1. Init => LanesInv
  BY ProgramFacts, LanesInitially
<1>2. LanesInv /\ [Next]_vars => LanesInv'
  <2>1. Calls \subseteq Nat
    BY ProgramFacts
  <2>2. QED
    BY <2>1, ProgramFacts, LanesStep
<1>3. QED
  BY <1>1, <1>2, PTL DEF Spec

(* Concurrency cannot be seen, whatever the numbers of heads and lanes and *)
(* however host and streams overlap: while the kernel of a call runs, all  *)
(* earlier calls it conflicts with have ended.                             *)
THEOREM LanesAreSequential == Spec => []AsIfSequential
<1>1. LanesInv => AsIfSequential
  <2>1. Calls \subseteq Nat
    BY ProgramFacts
  <2>2. QED
    BY <2>1, NothingRunsAhead
<1>2. QED
  BY <1>1, LanesInvariant, PTL
=============================================================================
