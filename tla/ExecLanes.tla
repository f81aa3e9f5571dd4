------------------------------ MODULE ExecLanes -----------------------------
(***************************************************************************)
(* The execution lanes of the CUDA plugin: the host makes the calls of     *)
(* AttentionProgram one after the other and returns from each as soon as   *)
(* the work is queued; the device runs the default stream and the lanes    *)
(* concurrently, ordered by nothing but the events the backend records.    *)
(***************************************************************************)
EXTENDS AttentionProgram, FiniteSets

CONSTANT NumLanes   \* max_exec_lanes_

ASSUME LanesAssumption == NumLanes \in Nat \ {0} /\ Heads \in Nat \ {0}

Lanes == 0..(NumLanes - 1)
Default == -1                      \* the default stream
Streams == {Default} \cup Lanes
Ready == -1                        \* exec_ready_event_
Events == {Ready} \cup Lanes       \* ... and the event done of each lane

VARIABLES
  probes,           \* host: the diagnostics are on (all or none)
  next,             \* host: the call it makes next
  exec_lane_index, active_exec_lane_index, used_exec_lane_count,
  has_active_exec_group, in_exec_iteration,
  queue,            \* device: what is queued on each stream
  running,          \* device: calls whose kernel is running
  finished,         \* device: calls whose kernel has ended
  recorded,         \* how often each event was recorded by the host
  reached           \* ... and how far the device is with that

host == <<probes, exec_lane_index, active_exec_lane_index, used_exec_lane_count,
          has_active_exec_group, in_exec_iteration>>
device == <<running, finished, reached>>
vars == <<next, host, queue, device, recorded>>

Calls == DOMAIN AttentionCalls
Kernels ==
  {i \in Calls : \/ AttentionCalls[i].call \in {"op", "lane_op"}
                 \/ AttentionCalls[i].call = "probe" /\ probes}

Kernel(i) == [item |-> "kernel", call |-> i, event |-> Ready, version |-> 0]
Record(e, v) == [item |-> "record", call |-> 0, event |-> e, version |-> v]
Wait(e, v) == [item |-> "wait", call |-> 0, event |-> e, version |-> v]

Init ==
  /\ probes \in BOOLEAN
  /\ next = 1
  /\ exec_lane_index = 0
  /\ active_exec_lane_index = 0
  /\ used_exec_lane_count = 0
  /\ has_active_exec_group = FALSE
  /\ in_exec_iteration = FALSE
  /\ queue = [s \in Streams |-> <<>>]
  /\ running = {}
  /\ finished = {}
  /\ recorded = [e \in Events |-> 0]
  /\ reached = [e \in Events |-> 0]

-----------------------------------------------------------------------------
(* The host *)

Calling(name) == next \in Calls /\ AttentionCalls[next].call = name
Returned == next' = next + 1

IssueOp ==
  /\ Calling("op")
  /\ Returned
  /\ queue' = [queue EXCEPT ![Default] = Append(@, Kernel(next))]
  /\ UNCHANGED <<host, device, recorded>>

(* An exec_context operation goes to the stream of the active lane. *)
IssueLaneOp ==
  /\ Calling("lane_op")
  /\ has_active_exec_group
  /\ Returned
  /\ queue' = [queue EXCEPT ![active_exec_lane_index] = Append(@, Kernel(next))]
  /\ UNCHANGED <<host, device, recorded>>

(* The copy to the host is queued on the default stream; the call returns  *)
(* when it has been made.                                                  *)
ProbeStarts ==
  /\ Calling("probe")
  /\ probes
  /\ next \notin finished \cup running
  /\ \A j \in 1..Len(queue[Default]) : queue[Default][j].call # next
  /\ queue' = [queue EXCEPT ![Default] = Append(@, Kernel(next))]
  /\ UNCHANGED <<next, host, device, recorded>>

ProbeReturns ==
  /\ Calling("probe")
  /\ next \in finished
  /\ Returned
  /\ UNCHANGED <<host, queue, device, recorded>>

ProbeIsOff ==
  /\ Calling("probe")
  /\ ~probes
  /\ Returned
  /\ UNCHANGED <<host, queue, device, recorded>>

(* start_exec_context_iteration: every lane waits for what the default     *)
(* stream has been given so far.                                           *)
StartIteration ==
  /\ Calling("start_iteration")
  /\ Returned
  /\ exec_lane_index' = 0
  /\ UNCHANGED probes
  /\ active_exec_lane_index' = 0
  /\ used_exec_lane_count' = 0
  /\ has_active_exec_group' = FALSE
  /\ in_exec_iteration' = TRUE
  /\ recorded' = [recorded EXCEPT ![Ready] = @ + 1]
  /\ LET version == recorded[Ready] + 1
     IN  queue' = [s \in Streams |->
                     Append(queue[s], IF s = Default THEN Record(Ready, version)
                                      ELSE Wait(Ready, version))]
  /\ UNCHANGED device

StartGroup ==
  /\ Calling("start_group")
  /\ in_exec_iteration
  /\ ~has_active_exec_group
  /\ Returned
  /\ active_exec_lane_index' = exec_lane_index % NumLanes
  /\ used_exec_lane_count' =
       IF active_exec_lane_index' + 1 > used_exec_lane_count
       THEN active_exec_lane_index' + 1 ELSE used_exec_lane_count
  /\ has_active_exec_group' = TRUE
  /\ UNCHANGED <<probes, exec_lane_index, in_exec_iteration, queue, device, recorded>>

(* Mutant: the group stays open. *)
FinishGroupStaysOpen ==
  /\ Calling("finish_group")
  /\ has_active_exec_group
  /\ Returned
  /\ exec_lane_index' = exec_lane_index + 1
  /\ UNCHANGED <<probes, active_exec_lane_index, used_exec_lane_count, has_active_exec_group,
                 in_exec_iteration, queue, device, recorded>>

FinishGroup ==
  /\ Calling("finish_group")
  /\ has_active_exec_group
  /\ Returned
  /\ has_active_exec_group' = FALSE
  /\ exec_lane_index' = exec_lane_index + 1
  /\ UNCHANGED <<probes, active_exec_lane_index, used_exec_lane_count, in_exec_iteration,
                 queue, device, recorded>>

UsedLanes == {l \in Lanes : l < used_exec_lane_count}

(* finish_exec_context_iteration: the default stream waits for every lane  *)
(* that was given work.                                                    *)
FinishIteration ==
  /\ Calling("finish_iteration")
  /\ in_exec_iteration
  /\ ~has_active_exec_group
  /\ Returned
  /\ in_exec_iteration' = FALSE
  /\ recorded' = [e \in Events |-> IF e \in UsedLanes THEN recorded[e] + 1 ELSE recorded[e]]
  /\ queue' =
       [s \in Streams |->
          CASE s = Default ->
                 queue[s] \o [i \in 1..used_exec_lane_count |-> Wait(i - 1, recorded'[i - 1])]
            [] s \in UsedLanes -> Append(queue[s], Record(s, recorded'[s]))
            [] OTHER -> queue[s]]
  /\ UNCHANGED <<probes, exec_lane_index, active_exec_lane_index, used_exec_lane_count,
                 has_active_exec_group, device>>

Host ==
  \/ IssueOp \/ IssueLaneOp \/ ProbeStarts \/ ProbeReturns \/ ProbeIsOff
  \/ StartIteration \/ StartGroup \/ FinishGroup \/ FinishIteration

-----------------------------------------------------------------------------
(* The device *)

AtHead(s, item) == queue[s] # <<>> /\ Head(queue[s]).item = item
Popped(s) == queue' = [queue EXCEPT ![s] = Tail(@)]

StartKernel(s) ==
  /\ AtHead(s, "kernel")
  /\ Head(queue[s]).call \notin running
  /\ running' = running \cup {Head(queue[s]).call}
  /\ UNCHANGED <<next, host, queue, finished, recorded, reached>>

EndKernel(s) ==
  /\ AtHead(s, "kernel")
  /\ Head(queue[s]).call \in running
  /\ running' = running \ {Head(queue[s]).call}
  /\ finished' = finished \cup {Head(queue[s]).call}
  /\ Popped(s)
  /\ UNCHANGED <<next, host, recorded, reached>>

ReachRecord(s) ==
  /\ AtHead(s, "record")
  /\ reached' = [reached EXCEPT ![Head(queue[s]).event] = Head(queue[s]).version]
  /\ Popped(s)
  /\ UNCHANGED <<next, host, running, finished, recorded>>

PassWait(s) ==
  /\ AtHead(s, "wait")
  /\ reached[Head(queue[s]).event] >= Head(queue[s]).version
  /\ Popped(s)
  /\ UNCHANGED <<next, host, device, recorded>>

Stream(s) == StartKernel(s) \/ EndKernel(s) \/ ReachRecord(s) \/ PassWait(s)

Next == Host \/ \E s \in Streams : Stream(s)

(* The host goes on and every stream makes progress. *)
Spec == Init /\ [][Next]_vars /\ WF_vars(Host) /\ \A s \in Streams : WF_vars(Stream(s))

-----------------------------------------------------------------------------
(* Properties *)

Conflict(i, j) ==
  LET a == AttentionCalls[i] b == AttentionCalls[j]
  IN  \/ a.writes \cap (b.reads \cup b.writes) # {}
      \/ b.writes \cap a.reads # {}

EarlierConflicts == [j \in Calls |-> {i \in 1..(j - 1) : Conflict(i, j)}]

(* Concurrency cannot be seen: while an operation runs, every earlier call *)
(* that touches what it writes, or writes what it reads, has ended.  So    *)
(* attention computes what the calls would compute one by one, although    *)
(* only the ready and done events order the lanes with the default stream  *)
(* and each other.                                                         *)
AsIfSequential ==
  \A j \in running : EarlierConflicts[j] \cap Kernels \subseteq finished

(* No call is refused (the guards of the host's actions are the contract   *)
(* checks of the backend: a call that fails one ends the program) and no   *)
(* stream waits for an event that is not to come: all work gets done.      *)
AllWorkDone == <>(finished = Kernels /\ next > Len(AttentionCalls))
=============================================================================
