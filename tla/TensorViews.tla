----------------------------- MODULE TensorViews -----------------------------
(***************************************************************************)
(* A memory manager lays its arenas out, then the stores walk each layout  *)
(* with a LayoutCursor and keep a view for every slice; after that the     *)
(* algorithms ask for the part of a temporary that a window of tokens      *)
(* needs.  An address is an arena and a byte offset in it.                 *)
(***************************************************************************)
EXTENDS MemoryTables, FiniteSets

CONSTANT Configs

VARIABLES
  cfg,
  store,      \* which store is being built: an index of Stores(cfg)
  slices,     \* the layout under its cursor, placed
  index,      \* of the cursor
  views,      \* the views the stores have built
  threw,      \* "no", "cursor" or "access"
  handed      \* the last view handed to an algorithm, with the buffer it is of

vars == <<cfg, store, slices, index, views, threw, handed>>

-----------------------------------------------------------------------------
(* Placing the slices of a layout: NamedLayout checks the loops themselves. *)

AlignUp(v, a) == IF v % a = 0 THEN v ELSE v + (a - (v % a))
Bytes(c, s) == s.rows * s.cols * DTypeSize[DType(c, s.item)]
Placed(c, s, offset) ==
  [layer |-> s.layer, name |-> s.name, offset |-> offset, bytes |-> Bytes(c, s),
   elem |-> DTypeSize[DType(c, s.item)]]

(* The cursor after each slice of a list placed from start on. *)
Cursor(c, list, start) ==
  LET cursor[i \in 0..Len(list)] ==
        IF i = 0 THEN start ELSE AlignUp(cursor[i - 1], c.alignment) + Bytes(c, list[i])
  IN  cursor

Place(c, list, start) ==
  LET cursor == Cursor(c, list, start)
  IN  [cursor |-> cursor[Len(list)],
       slices |-> [i \in DOMAIN list |->
                     Placed(c, list[i], AlignUp(cursor[i - 1], c.alignment))]]

TotalBytes(c, list) == AlignUp(Place(c, list, 0).cursor, c.alignment)

(* The parameter layout, with elements of another type for what mirrors it. *)
ParamLayout(c, item) ==
  LET all == Of(item, ParamSlices(c))
      first == Place(c, SelectSeq(all, LAMBDA s : s.decay), 0)
      decay_bytes == AlignUp(first.cursor, c.alignment)
      second == Place(c, SelectSeq(all, LAMBDA s : ~s.decay), decay_bytes)
      placed == first.slices \o second.slices
      PlacedOf(s) == CHOOSE p \in Range(placed) : p.layer = s.layer /\ p.name = s.name
  IN  [slices |-> [i \in DOMAIN all |-> PlacedOf(all[i])],
       decay_bytes |-> decay_bytes,
       total_bytes |-> AlignUp(second.cursor, c.alignment)]

(* Mutant: the optimizer's layout is not split in zones. *)
OptimizerLayoutOneZone(c) ==
  LET all == Of("OptimizerState", ParamSlices(c))
  IN  [slices |-> Place(c, all, 0).slices,
       decay_bytes |-> ParamLayout(c, "OptimizerState").decay_bytes,
       total_bytes |-> TotalBytes(c, all)]

OptimizerLayout(c) == ParamLayout(c, "OptimizerState")

-----------------------------------------------------------------------------
(* The stores of a memory manager, in the order it builds them *)

Stores(c) ==
  <<"param">> \o When(~ComputeWeightAliasesParameter(c), <<"compute">>)
    \o <<"temp">> \o When(c.kind = "Training", <<"grad", "adam">>)

TempSlices(c) == IF c.kind = "Training" THEN TrainingTempSlices(c) ELSE InferenceTempSlices(c)
TempViews(c) == IF c.kind = "Training" THEN TrainingTempViews(c) ELSE InferenceTempViews(c)

(* The layout whose slices the cursor of a store walks. *)
CursorSlices(c, which) ==
  CASE which = "temp" -> Place(c, TempSlices(c), 0).slices
    [] which = "compute" -> Place(c, ComputeSlices(c), 0).slices
    [] OTHER -> ParamLayout(c, "Parameter").slices

Expected(c, which) ==
  CASE which = "temp" -> TempViews(c)
    [] which = "compute" -> ComputeViews(c)
    [] which = "grad" -> GradientViews(c)
    [] which = "adam" -> StateViews(c)
    [] OTHER -> ParamViews(c)

Numel(shape) == FoldLeft(LAMBDA acc, d : acc * d, 1, shape)

(* TensorView: contiguous strides, in bytes, of a shape. *)
Strides(shape, elem) ==
  [i \in DOMAIN shape |-> elem * Numel(SubSeq(shape, i + 1, Len(shape)))]
View(arena, part, s, shape, base) ==
  [arena |-> arena, layer |-> s.layer, name |-> s.name, part |-> part,
   offset |-> base + s.offset, bytes |-> s.bytes, elem |-> s.elem,
   shape |-> shape, strides |-> Strides(shape, s.elem)]

CheckSlice(s, shape, limit) ==
  /\ Numel(shape) * s.elem = s.bytes
  /\ s.offset % s.elem = 0
  /\ s.offset + s.bytes <= limit

SliceNamed(layout, layer, name) ==
  CHOOSE s \in Range(layout.slices) : s.layer = layer /\ s.name = name

(* Mutant: v is given the place of m. *)
ViewsForSharedMoments(c, which, s, e) ==
  LET mirror == IF which = "adam" THEN OptimizerLayout(c) ELSE ParamLayout(c, "Gradient")
      own == SliceNamed(mirror, e.layer, e.name)
  IN  CASE which = "grad" -> {View("grad", "whole", own, e.shape, 0)}
        [] which = "adam" -> {View("adam", "m", own, e.shape, 0),
                              View("adam", "v", own, e.shape, 0)}
        [] OTHER -> {View(which, "whole", s, e.shape, 0)}

(* The views a store keeps for the slice under its cursor: one, or a pair   *)
(* of optimizer moments, m in the first half of the arena and v in the      *)
(* second.                                                                  *)
ViewsFor(c, which, s, e) ==
  LET mirror == IF which = "adam" THEN OptimizerLayout(c) ELSE ParamLayout(c, "Gradient")
      own == SliceNamed(mirror, e.layer, e.name)
  IN  CASE which = "grad" -> {View("grad", "whole", own, e.shape, 0)}
        [] which = "adam" -> {View("adam", "m", own, e.shape, 0),
                              View("adam", "v", own, e.shape, mirror.total_bytes)}
        [] OTHER -> {View(which, "whole", s, e.shape, 0)}

ArenaBytes(c, which) ==
  CASE which = "temp" -> TotalBytes(c, TempSlices(c))
    [] which = "compute" -> TotalBytes(c, ComputeSlices(c))
    [] OTHER -> ParamLayout(c, "Parameter").total_bytes

SliceFits(c, which, s, e) ==
  /\ s.layer = e.layer
  /\ s.name = e.name
  /\ CheckSlice(s, e.shape, ArenaBytes(c, which))
  /\ which = "grad" =>
       CheckSlice(SliceNamed(ParamLayout(c, "Gradient"), e.layer, e.name), e.shape,
                  ParamLayout(c, "Gradient").total_bytes)
  /\ which = "adam" =>
       CheckSlice(SliceNamed(OptimizerLayout(c), e.layer, e.name), e.shape,
                  OptimizerLayout(c).total_bytes)

-----------------------------------------------------------------------------

NoView == [layer |-> Global, name |-> "none", dims |-> <<>>, offset |-> 0, strides |-> <<>>]

Init ==
  /\ cfg \in Configs
  /\ store = 1
  /\ slices = CursorSlices(cfg, "param")
  /\ index = 1
  /\ views = {}
  /\ threw = "no"
  /\ handed = NoView

Building == threw = "no" /\ store <= Len(Stores(cfg))
Which == Stores(cfg)[store]
Wanted == Expected(cfg, Which)

(* cursor.next and the view made of the slice it returns. *)
TakeSlice ==
  /\ Building
  /\ index <= Len(Wanted)
  /\ LET e == Wanted[index]
     IN  IF index <= Len(slices) /\ SliceFits(cfg, Which, slices[index], e)
         THEN /\ views' = views \cup ViewsFor(cfg, Which, slices[index], e)
              /\ index' = index + 1
              /\ UNCHANGED threw
         ELSE /\ threw' = "cursor"
              /\ UNCHANGED <<views, index>>
  /\ UNCHANGED <<cfg, store, slices, handed>>

(* cursor.finish, then the next store's cursor. *)
FinishStore ==
  /\ Building
  /\ index = Len(Wanted) + 1
  /\ IF index = Len(slices) + 1
     THEN /\ store' = store + 1
          /\ index' = 1
          /\ slices' = IF store < Len(Stores(cfg))
                       THEN CursorSlices(cfg, Stores(cfg)[store + 1]) ELSE <<>>
          /\ UNCHANGED threw
     ELSE threw' = "cursor" /\ UNCHANGED <<store, index, slices>>
  /\ UNCHANGED <<cfg, views, handed>>

-----------------------------------------------------------------------------
(* Handing out temporaries *)

Ready == threw = "no" /\ store > Len(Stores(cfg))
Asking == Ready /\ handed = NoView       \* one request a behaviour is enough: none changes a view

(* The windows a program runs: whole batches in training and validation,    *)
(* one prompt of up to max_seq_len tokens in inference.                     *)
Windows ==
  IF cfg.kind = "Training" THEN {<<cfg.batch, cfg.seq>>} ELSE {<<1, n>> : n \in 1..cfg.max_seq}

Prefixed(name) == (IF cfg.kind = "Training" THEN "tr." ELSE "infer.") \o name
Asked ==
  UNION {LayerBuffers(cfg, l) : l \in 0..(cfg.layers - 1)}
    \cup {Buffer(Global, Prefixed("X"), cfg.d_model), Buffer(Global, Prefixed("Y"), cfg.d_model),
          Buffer(Global, Prefixed("Xn"), cfg.d_model),
          Buffer(Global, Prefixed("logits"), cfg.vocab)}
AskedSquares == UNION {AttentionSquares(cfg, l) : l \in 0..(cfg.layers - 1)}
AskedBackward ==
  IF cfg.kind = "Inference" THEN {}
  ELSE UNION {BackwardBuffers(cfg, l) : l \in 0..(cfg.layers - 1)}
         \cup {Buffer(Global, "bw.d_xn", cfg.d_model), Buffer(Global, "bw.d_xlast", cfg.d_model)}

ViewOf(arena, layer, name, part) ==
  CHOOSE v \in views : v.arena = arena /\ v.layer = layer /\ v.name = name /\ v.part = part
Whole(layer, name) == ViewOf("temp", layer, name, "whole")
Have(layer, name) == \E v \in views : v.arena = "temp" /\ v.layer = layer /\ v.name = name

(* A training store has nothing to cut: the window is the buffer. *)
Exact(view, dims) == view.shape = dims

(* TensorView::slice from zero on every axis: fewer elements, same strides. *)
Sliced(view, dims) == [offset |-> view.offset, dims |-> dims, strides |-> view.strides]

FitsPrefix(view, dims) ==
  /\ Len(view.shape) = Len(dims)
  /\ \A i \in DOMAIN dims : dims[i] <= view.shape[i]

Hand(layer, name, dims) ==
  /\ IF /\ Have(layer, name)
        /\ IF cfg.kind = "Training" THEN Exact(Whole(layer, name), dims)
                                    ELSE FitsPrefix(Whole(layer, name), dims)
     THEN LET part == Sliced(Whole(layer, name), dims)
          IN  /\ handed' = [layer |-> layer, name |-> name, dims |-> part.dims,
                            offset |-> part.offset, strides |-> part.strides]
              /\ UNCHANGED threw
     ELSE threw' = "access" /\ UNCHANGED handed
  /\ UNCHANGED <<cfg, store, slices, index, views>>

HandBatchSeq ==
  /\ Asking
  /\ \E b \in Asked \cup AskedBackward, w \in Windows : Hand(b.layer, b.name, w \o <<b.last>>)
HandSquare ==
  /\ Asking
  /\ \E b \in AskedSquares, w \in Windows : Hand(b.layer, b.name, w \o <<w[2]>>)
HandHeadSquare ==
  /\ Asking
  /\ \E l \in 0..(cfg.layers - 1), w \in Windows :
       Hand(l, "attn.weights_cache", <<cfg.heads>> \o w \o <<w[2]>>)
HandInferenceIds ==
  /\ Asking
  /\ cfg.kind = "Inference"
  /\ \E w \in Windows : Hand(Global, "infer.ids", w)

Next ==
  TakeSlice \/ FinishStore \/ HandBatchSeq \/ HandSquare \/ HandHeadSquare \/ HandInferenceIds
Spec == Init /\ [][Next]_vars

-----------------------------------------------------------------------------
(* Properties *)

(* For every choice of algorithms, position encoding and precision, the     *)
(* list a layout was built from and the list its store reads name the same  *)
(* slices in the same order with the same number of elements: no            *)
(* LayoutCursor throws, and nothing is left over.                           *)
StoresReadTheLayout == threw # "cursor"

(* No algorithm asks for a buffer its configuration did not allocate, nor   *)
(* for a window the buffer is not wide enough for.                          *)
BuffersServeTheAlgorithms == threw # "access"

(* Whatever configuration is chosen, its memory manager can be built and    *)
(* its algorithms can run.                                                  *)
EveryTensorIsThere == StoresReadTheLayout /\ BuffersServeTheAlgorithms

(* Two tensors never share a byte, whichever of the stores keeps them and   *)
(* however they were placed: m and v of the optimizer, the two decay zones, *)
(* the temporaries of all layers.  (Looked at whenever a store is complete.) *)
TensorsApart ==
  index = 1 =>
    \A v, w \in views :
      v # w /\ v.arena = w.arena =>
        v.offset + v.bytes <= w.offset \/ w.offset + w.bytes <= v.offset

(* The optimizer steps a whole decay zone as one flat vector: element i of  *)
(* the parameters with element i of the gradients and of m and v.  So each  *)
(* parameter's element has to have the same number as that of its gradient, *)
(* its m and its v, in the zone that its weight-decay flag names.           *)
ZoneIndex(offset, elem, decay, layout) ==
  (IF decay THEN offset ELSE offset - layout.decay_bytes) \div elem
OptimizerInStep ==
  Ready /\ cfg.kind = "Training" =>
    LET ofParams == ParamLayout(cfg, "Parameter")
        ofGrads == ParamLayout(cfg, "Gradient")
        ofStates == OptimizerLayout(cfg)
    IN  \A e \in Range(ParamViews(cfg)) :
          LET p == ViewOf("param", e.layer, e.name, "whole")
              g == ViewOf("grad", e.layer, e.name, "whole")
              m == ViewOf("adam", e.layer, e.name, "m")
              v == ViewOf("adam", e.layer, e.name, "v")
              at == ZoneIndex(p.offset, p.elem, e.decay, ofParams)
          IN  /\ at >= 0
              /\ e.decay = (p.offset < ofParams.decay_bytes)
              /\ at = ZoneIndex(g.offset, g.elem, e.decay, ofGrads)
              /\ at = ZoneIndex(m.offset, m.elem, e.decay, ofStates)
              /\ at = ZoneIndex(v.offset - ofStates.total_bytes, v.elem, e.decay, ofStates)

(* The part of a buffer handed out for a shorter prompt is that part of the *)
(* buffer: a row of scores starts where the row of the whole matrix does.   *)
Address(offset, strides, at) ==
  offset + FoldLeft(LAMBDA acc, i : acc + i, 0, [i \in DOMAIN at |-> (at[i] - 1) * strides[i]])
PrefixIsPrefix ==
  handed.dims # <<>> =>
    LET whole == Whole(handed.layer, handed.name)
        corners == {at \in [DOMAIN handed.dims -> 1..6] :
                      \A i \in DOMAIN at : at[i] \in {1, handed.dims[i]}}
    IN  \A at \in corners :
          Address(handed.offset, handed.strides, at) = Address(whole.offset, whole.strides, at)
=============================================================================
