----------------------------- MODULE MCExecLanes ----------------------------
(***************************************************************************)
(* Four heads on three lanes: the fourth group goes to the first lane.     *)
(***************************************************************************)
EXTENDS ExecLanes
=============================================================================
