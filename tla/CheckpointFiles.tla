--------------------------- MODULE CheckpointFiles --------------------------
(***************************************************************************)
(* The files a training session leaves on disk: the latest and the best    *)
(* checkpoint, each with its tokenizer-fingerprint (.tokfp) and run (.run) *)
(* sidecar.  A checkpoint is written in place, front to back: header,      *)
(* parameter arena, optimizer arena; a write that stops short leaves a     *)
(* prefix.  Byte contents are abstracted to how far the file was written   *)
(* and what the parts hold.                                                *)
(***************************************************************************)
EXTENDS ConvergenceRules

CONSTANTS
  Tokenizers,   \* tokenizer fingerprints a configuration can have
  Models,       \* model dimensions and position encodings a header can name
  Raw,          \* arena memory nothing has been written to yet
  Absent,       \* a sidecar that does not exist
  Empty         \* a sidecar that was truncated and not written

ASSUME FilesAssumption ==
  /\ Tokenizers # {}
  /\ Models # {}
  /\ Absent \notin Tokenizers \cup Nat \cup {Empty}
  /\ Empty \notin Tokenizers \cup Nat

(* Arena contents: which run initialised them, the tokenizer that run      *)
(* used, and how many optimizer steps they have been through.  Parameters, *)
(* Adam moments and compute weights are the same such value when they      *)
(* belong together.                                                        *)
Weights == [lineage : Nat, tok : Tokenizers, steps : Nat]

ASSUME RawAssumption == Raw \notin Weights

Trained(w, n) == [w EXCEPT !.steps = @ + n]

(* How much of a checkpoint file is there. *)
Levels == {"absent", "empty", "header", "params", "whole"}

(* writer and tok are not in the file: they say which run wrote it, with   *)
(* which tokenizer, for the properties about the sidecars.                 *)
Payloads ==
  [level : Levels,
   model : Models,
   steps : Nat,
   epoch : Nat,
   conv : KeptState,
   params : Weights,
   adam : Weights,
   writer : Nat,
   tok : Tokenizers]

Slots ==
  [payload : Payloads,
   tokfp : Tokenizers \cup {Absent, Empty},
   run : Nat \cup {Absent, Empty}]

AnyTokenizer == CHOOSE t \in Tokenizers : TRUE
AnyModel == CHOOSE m \in Models : TRUE
NoWeights == [lineage |-> 0, tok |-> AnyTokenizer, steps |-> 0]

NoPayload ==
  [level |-> "absent",
   model |-> AnyModel,
   steps |-> 0,
   epoch |-> 0,
   conv |-> KeptPart(ResetMonitor, FALSE),
   params |-> NoWeights,
   adam |-> NoWeights,
   writer |-> 0,
   tok |-> AnyTokenizer]

EmptySlot == [payload |-> NoPayload, tokfp |-> Absent, run |-> Absent]

Whole(p) == p.level = "whole"
Exists(p) == p.level # "absent"

(* What is left of payload p when writing it over payload old stops short: *)
(* the file was not opened, or it was truncated and a prefix written.      *)
ShortWrites(old, p) ==
  {old, [NoPayload EXCEPT !.level = "empty"],
   [p EXCEPT !.level = "header"], [p EXCEPT !.level = "params"]}

ShortSidecars(old) == {old, Empty}

(* read_header and header_matches: a readable header of this model. *)
HeaderAccepted(p, model) == p.level \in {"header", "params", "whole"} /\ p.model = model
ParamsReadable(p) == p.level \in {"params", "whole"}

(* Mutant: a short optimizer arena is not noticed. *)
AdamReadableShort(p) == p.level \in {"params", "whole"}

AdamReadable(p) == Whole(p)

(* Mutant: a differing fingerprint only warns. *)
AnyFingerprintAccepted(slot, tok) == TRUE

(* verify_checkpoint_tokenizer_fingerprint: a missing sidecar passes. *)
FingerprintAccepted(slot, tok) == slot.tokfp \in {Absent, tok}
=============================================================================
