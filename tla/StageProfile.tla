---------------------------- MODULE StageProfile ----------------------------
(***************************************************************************)
(* ProfilingController: times are kept in a tree whose nodes are the       *)
(* stages as they were entered inside one another.  A stage is entered by  *)
(* name below the current node; leave() closes whatever was entered last.  *)
(***************************************************************************)
EXTENDS Integers, SequencesExt

VARIABLES
  tree,            \* for every node, the time and the number of its visits
  active_frames,   \* the stages that are open, with the time they began
  current          \* the node new stages are entered below

stages == <<tree, active_frames, current>>

(* A node is the path of stages, each with its index, that leads to it. *)
RootNode == <<>>
ParentOf(node) == IF node = RootNode THEN RootNode ELSE Front(node)

NewNode == [total |-> 0, count |-> 0]

ResetTree ==
  /\ tree = [node \in {RootNode} |-> NewNode]
  /\ active_frames = <<>>
  /\ current = RootNode

GetChild(stage, index) == Append(current, <<stage, index>>)

Enter(stage, index, tick) ==
  LET node == GetChild(stage, index) IN
  /\ tree' = [n \in DOMAIN tree \cup {node} |->
                IF n \in DOMAIN tree THEN tree[n] ELSE NewNode]
  /\ active_frames' = Append(active_frames, [node |-> node, start |-> tick])
  /\ current' = node

(* leave() throws when no frame is active. *)
Leave(tick) ==
  /\ active_frames # <<>>
  /\ LET frame == Last(active_frames) IN
       /\ tree' = [tree EXCEPT ![frame.node] =
                     [total |-> @.total + (tick - frame.start), count |-> @.count + 1]]
       /\ active_frames' = Front(active_frames)
       /\ current' = ParentOf(frame.node)
=============================================================================
