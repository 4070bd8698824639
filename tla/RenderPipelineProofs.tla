----------------------- MODULE RenderPipelineProofs -----------------------
(***************************************************************************)
(* What the render pipeline's operators return and what its steps keep,    *)
(* for every set of streams, pane sizes, cells and queue capacities.       *)
(***************************************************************************)
EXTENDS RenderPipeline, SequenceTheorems, TLAPS

-----------------------------------------------------------------------------
(***************************************************************************)
(* Grid: the algebra the render stream rests on, for grids of every size   *)
(* and every set of cells.                                                 *)
(***************************************************************************)
\* A fresh grid is a grid of the size asked for.
LEMMA NewType ==
  ASSUME NEW sz \in Size
  PROVE  New(sz) \in Grids(sz) /\ SizeOf(New(sz)) = sz
<1>1. [p \in Positions(sz) |-> Blank] \in [Positions(sz) -> Cells]
  BY BlankAssumption
<1>2. sz = <<sz[1], sz[2]>>
  BY DEF Size
<1> QED
  BY <1>1, <1>2 DEF New, Grids, SizeOf

\* A grid knows its size.
LEMMA GridSize ==
  ASSUME NEW sz \in Size, NEW g \in Grids(sz)
  PROVE  /\ SizeOf(g) = sz
         /\ g.cells \in [Positions(sz) -> Cells]
         /\ g = [w |-> sz[1], h |-> sz[2], cells |-> g.cells]
<1>1. sz = <<sz[1], sz[2]>>
  BY DEF Size
<1> QED
  BY <1>1 DEF Grids, SizeOf

\* Two grids of one size are equal when their cells are.
LEMMA GridExtensional ==
  ASSUME NEW sz \in Size, NEW g \in Grids(sz), NEW k \in Grids(sz),
         \A p \in Positions(sz) : g.cells[p] = k.cells[p]
  PROVE  g = k
<1>1. g.cells = k.cells
  BY GridSize
<1> QED
  BY <1>1, GridSize

\* Applying a batch keeps the size.
LEMMA ApplyType ==
  ASSUME NEW sz \in Size, NEW g \in Grids(sz), NEW patch,
         \A p \in DOMAIN patch : patch[p] \in Cells
  PROVE  Apply(g, patch) \in Grids(sz)
<1>1. SizeOf(g) = sz /\ g.cells \in [Positions(sz) -> Cells] /\ g.w = sz[1] /\ g.h = sz[2]
  BY GridSize
<1>2. [p \in Positions(sz) |-> IF p \in DOMAIN patch THEN patch[p] ELSE g.cells[p]]
        \in [Positions(sz) -> Cells]
  BY <1>1
<1> QED
  BY <1>1, <1>2 DEF Apply, Grids

\* Resizing gives a grid of the new size.
LEMMA ResizeType ==
  ASSUME NEW sz \in Size, NEW g \in Grids(sz), NEW to \in Size
  PROVE  Resize(g, to) \in Grids(to)
<1>1. SizeOf(g) = sz /\ g.cells \in [Positions(sz) -> Cells]
  BY GridSize
<1>2. [p \in Positions(to) |-> IF p \in Positions(sz) THEN g.cells[p] ELSE Blank]
        \in [Positions(to) -> Cells]
  BY <1>1, BlankAssumption
<1> QED
  BY <1>1, <1>2 DEF Resize, Grids

\* A snapshot patches only cells of the grid.
LEMMA SnapshotType ==
  ASSUME NEW sz \in Size, NEW g \in Grids(sz)
  PROVE  /\ DOMAIN Snapshot(g) \subseteq Positions(sz)
         /\ Snapshot(g) \in [DOMAIN Snapshot(g) -> Cells]
  BY GridSize DEF Snapshot

\* So does a diff.
LEMMA DiffType ==
  ASSUME NEW sz \in Size, NEW g \in Grids(sz), NEW k \in Grids(sz)
  PROVE  /\ DOMAIN Diff(g, k) \subseteq Positions(sz)
         /\ Diff(g, k) \in [DOMAIN Diff(g, k) -> Cells]
  BY GridSize DEF Diff

\* A sync is complete: a blank grid becomes g when it applies g's snapshot.
\* This is what lets syncUpdate send only the non-default cells.
THEOREM SnapshotRestores ==
  ASSUME NEW sz \in Size, NEW g \in Grids(sz)
  PROVE  Apply(New(sz), Snapshot(g)) = g
<1>1. New(sz) \in Grids(sz) /\ SizeOf(New(sz)) = sz
  BY NewType
<1>2. Apply(New(sz), Snapshot(g)) \in Grids(sz)
  BY <1>1, SnapshotType, ApplyType
<1>3. ASSUME NEW p \in Positions(sz)
      PROVE  Apply(New(sz), Snapshot(g)).cells[p] = g.cells[p]
  <2>1. SizeOf(g) = sz
    BY GridSize
  <2>2. Apply(New(sz), Snapshot(g)).cells[p]
          = IF p \in DOMAIN Snapshot(g) THEN Snapshot(g)[p] ELSE New(sz).cells[p]
    BY <1>1 DEF Apply
  <2>3. New(sz).cells[p] = Blank
    BY DEF New
  <2>4. CASE g.cells[p] = Blank
    BY <2>1, <2>2, <2>3, <2>4 DEF Snapshot
  <2>5. CASE g.cells[p] # Blank
    BY <2>1, <2>2, <2>5 DEF Snapshot
  <2> QED
    BY <2>4, <2>5
<1> QED
  BY <1>2, <1>3, GridExtensional

\* A diff is exact: prev becomes next when it applies their diff.
THEOREM DiffRestores ==
  ASSUME NEW sz \in Size, NEW prev \in Grids(sz), NEW next \in Grids(sz)
  PROVE  Apply(prev, Diff(prev, next)) = next
<1>1. Apply(prev, Diff(prev, next)) \in Grids(sz)
  BY DiffType, ApplyType
<1>2. SizeOf(prev) = sz /\ SizeOf(next) = sz
  BY GridSize
<1>3. ASSUME NEW p \in Positions(sz)
      PROVE  Apply(prev, Diff(prev, next)).cells[p] = next.cells[p]
  <2>1. Apply(prev, Diff(prev, next)).cells[p]
          = IF p \in DOMAIN Diff(prev, next) THEN Diff(prev, next)[p] ELSE prev.cells[p]
    BY <1>2 DEF Apply
  <2>2. CASE next.cells[p] = prev.cells[p]
    BY <1>2, <2>1, <2>2 DEF Diff
  <2>3. CASE next.cells[p] # prev.cells[p]
    BY <1>2, <2>1, <2>3 DEF Diff
  <2> QED
    BY <2>2, <2>3
<1> QED
  BY <1>1, <1>3, GridExtensional

\* An empty diff means equal grids.
LEMMA EmptyDiff ==
  ASSUME NEW sz \in Size, NEW prev \in Grids(sz), NEW next \in Grids(sz),
         DOMAIN Diff(prev, next) = {}
  PROVE  prev = next
<1>1. \A p \in Positions(sz) : prev.cells[p] = next.cells[p]
  BY GridSize DEF Diff
<1> QED
  BY <1>1, GridExtensional

-----------------------------------------------------------------------------
(***************************************************************************)
(* Values.                                                                 *)
(***************************************************************************)
PaneGrids == UNION {Grids(sz) : sz \in Sizes}

\* A pane's grid is a grid of one of the pane's sizes: its own.
LEMMA PaneGrid ==
  ASSUME NEW g \in PaneGrids
  PROVE  SizeOf(g) \in Sizes /\ SizeOf(g) \in Size /\ g \in Grids(SizeOf(g))
<1>1. PICK sz \in Sizes : g \in Grids(sz)
  BY DEF PaneGrids
<1> QED
  BY <1>1, GridSize, PipelineAssumption

\* A function on positions of a pane's screen is a patch.
LEMMA PatchIntro ==
  ASSUME NEW sz \in Sizes, NEW D \in SUBSET Positions(sz), NEW f \in [D -> Cells]
  PROVE  f \in Patches
  BY DEF Patches, AllPositions

\* A patch assigns cells.
LEMMA PatchElim ==
  ASSUME NEW f \in Patches
  PROVE  /\ DOMAIN f \subseteq AllPositions
         /\ \A p \in DOMAIN f : f[p] \in Cells
         /\ f = [p \in DOMAIN f |-> f[p]]
  BY DEF Patches

\* The empty batch is a patch.
LEMMA EmptyDamageType == EmptyDamage \in Patches /\ DOMAIN EmptyDamage = {}
<1>1. EmptyDamage \in [{} -> Cells]
  BY DEF EmptyDamage
<1> QED
  BY <1>1 DEF Patches, EmptyDamage

\* Concatenated output is output.
LEMMA ConcatType ==
  ASSUME NEW a \in Effects \cup {NoBatch}, NEW b \in Effects
  PROVE  Concat(a, b) \in Effects
<1>1. CASE a = NoBatch
  BY <1>1 DEF Concat
<1>2. CASE a # NoBatch
  <2>1. a \in Effects
    BY <1>2
  <2> DEFINE D == DOMAIN a.patch \cup DOMAIN b.patch
             f == [p \in D |-> IF p \in DOMAIN b.patch THEN b.patch[p] ELSE a.patch[p]]
  <2>2. a.patch \in Patches /\ b.patch \in Patches /\ b.cursor \in Cursors
    BY <2>1 DEF Effects
  <2>3. D \in SUBSET AllPositions /\ f \in [D -> Cells]
    BY <2>2, PatchElim
  <2>4. f \in Patches
    BY <2>3 DEF Patches
  <2>5. Concat(a, b) = [patch |-> f, cursor |-> b.cursor]
    BY <1>2 DEF Concat
  <2> QED
    BY <2>2, <2>4, <2>5 DEF Effects
<1> QED
  BY <1>1, <1>2

\* A blank grid of a pane size is a pane's grid.
LEMMA NewGrid ==
  ASSUME NEW sz \in Sizes
  PROVE  New(sz) \in PaneGrids /\ SizeOf(New(sz)) = sz
  BY NewType, PipelineAssumption DEF PaneGrids

\* Emulator writes keep the size of the screen.
LEMMA EmuWriteType ==
  ASSUME NEW t \in Screens, NEW e \in Effects
  PROVE  EmuWrite(t, e) \in Screens /\ SizeOf(EmuWrite(t, e).grid) = SizeOf(t.grid)
<1>1. t.grid \in PaneGrids /\ e.patch \in Patches /\ e.cursor \in Cursors
  BY DEF Screens, Views, Effects, PaneGrids
<1>2. Apply(t.grid, e.patch) \in Grids(SizeOf(t.grid))
  BY <1>1, PaneGrid, PatchElim, ApplyType
<1>3. SizeOf(Apply(t.grid, e.patch)) = SizeOf(t.grid)
  BY <1>1, <1>2, PaneGrid, GridSize
<1>4. Apply(t.grid, e.patch) \in PaneGrids
  BY <1>1, <1>2, PaneGrid DEF PaneGrids
<1> QED
  BY <1>1, <1>3, <1>4 DEF EmuWrite, Screens, Views, PaneGrids

\* Emulator resizes give the size asked for.
LEMMA EmuResizeType ==
  ASSUME NEW t \in Screens, NEW sz \in Sizes
  PROVE  EmuResize(t, sz) \in Screens /\ SizeOf(EmuResize(t, sz).grid) = sz
<1>1. t.grid \in PaneGrids /\ t = [grid |-> t.grid, cursor |-> t.cursor] /\ t.cursor \in Cursors
  BY DEF Screens, Views, PaneGrids
<1>2. Resize(t.grid, sz) \in Grids(sz) /\ sz \in Size
  BY <1>1, PaneGrid, ResizeType, PipelineAssumption
<1>3. EmuResize(t, sz) = [grid |-> Resize(t.grid, sz), cursor |-> t.cursor]
  BY <1>1 DEF EmuResize
<1> QED
  BY <1>1, <1>2, <1>3, GridSize DEF Screens, Views

\* The three kinds of update are updates.
LEMMA UpdateTypes ==
  ASSUME NEW g \in PaneGrids, NEW k \in PaneGrids, SizeOf(k) = SizeOf(g),
         NEW cur \in Cursors, NEW sz \in Sizes
  PROVE  /\ ResizeUpdate(sz) \in Updates
         /\ SyncUpdate(g, cur) \in Updates
         /\ DamageUpdate(g, Diff(k, g), cur) \in Updates
<1>1. SizeOf(g) \in Sizes /\ SizeOf(g) \in Size /\ g \in Grids(SizeOf(g)) /\ k \in Grids(SizeOf(g))
  BY PaneGrid
<1>2. Snapshot(g) \in Patches
  BY <1>1, SnapshotType, PatchIntro
<1>3. Diff(k, g) \in Patches
  BY <1>1, DiffType, PatchIntro
<1> QED
  BY <1>1, <1>2, <1>3, EmptyDamageType, PipelineAssumption
     DEF ResizeUpdate, SyncUpdate, DamageUpdate, Updates

-----------------------------------------------------------------------------
(***************************************************************************)
(* Type correctness, and the sizes that keep grid.Diff from panicking.     *)
(***************************************************************************)
PipeInv == TypeOK /\ ShadowFits

\* What a flush computes.
LEMMA FlushType ==
  ASSUME PipeInv
  PROVE  /\ FlushShadow \in PaneGrids /\ SizeOf(FlushShadow) = SizeOf(term.grid)
         /\ FlushCursor \in Cursors
         /\ \A s \in Streams : FlushUpdate(s) \in Updates
         /\ FlushSent \subseteq subs /\ FlushLagged \subseteq Streams
         /\ FlushCh \in [Streams -> Seq(Updates)]
         /\ \A s \in Streams : Len(FlushCh[s]) <= SubscriberBuffer
<1>1. /\ shadow \in PaneGrids /\ term.grid \in PaneGrids /\ SizeOf(shadow) = SizeOf(term.grid)
      /\ cursor \in Cursors /\ term.cursor \in Cursors
  BY DEF PipeInv, TypeOK, ShadowFits, Screens, Views, PaneGrids
<1>2. FlushShadow \in PaneGrids /\ SizeOf(FlushShadow) = SizeOf(term.grid)
  BY <1>1 DEF FlushShadow
<1>3. FlushCursor \in Cursors
  BY <1>1 DEF FlushCursor
<1>4. ASSUME NEW s \in Streams
      PROVE  FlushUpdate(s) \in Updates
  <2>1. Diff(shadow, term.grid) \in Patches /\ SizeOf(FlushShadow) \in Sizes
    <3>1. term.grid \in Grids(SizeOf(term.grid)) /\ shadow \in Grids(SizeOf(term.grid))
      BY <1>1, PaneGrid
    <3> QED
      BY <1>1, <1>2, <3>1, PaneGrid, DiffType, PatchIntro
  <2>2. SyncUpdate(FlushShadow, FlushCursor) \in Updates
    BY <1>2, <1>3, UpdateTypes, PipelineAssumption
  <2> QED
    BY <1>3, <2>1, <2>2 DEF FlushUpdate, DamageUpdate, FlushDamage, Updates
<1>5. FlushSent \subseteq subs /\ FlushLagged \subseteq Streams
  BY DEF FlushSent, FlushOwed, FlushLagged, PipeInv, TypeOK
<1>6. ch \in [Streams -> Seq(Updates)] /\ \A s \in Streams : Len(ch[s]) <= SubscriberBuffer
  BY DEF PipeInv, TypeOK
<1>7. ASSUME NEW s \in Streams
      PROVE  FlushCh[s] \in Seq(Updates) /\ Len(FlushCh[s]) <= SubscriberBuffer
  <2>1. CASE s \in FlushSent
    <3>1. Len(ch[s]) < SubscriberBuffer
      BY <2>1 DEF FlushSent, HasRoom
    <3>2. FlushCh[s] = Append(ch[s], FlushUpdate(s))
      BY <2>1 DEF FlushCh
    <3> QED
      BY <1>4, <1>6, <3>1, <3>2, PipelineAssumption
  <2>2. CASE s \notin FlushSent
    BY <1>6, <2>2 DEF FlushCh
  <2> QED
    BY <2>1, <2>2
<1>8. FlushCh \in [Streams -> Seq(Updates)]
  BY <1>7 DEF FlushCh
<1> QED
  BY <1>2, <1>3, <1>4, <1>5, <1>7, <1>8

\* The initial state.
LEMMA PipeInvInit ==
  ASSUME Init
  PROVE  PipeInv
<1>1. New(InitSize) \in PaneGrids /\ Origin \in Cursors
  BY NewGrid, PipelineAssumption
<1>2. term \in Screens /\ shadow \in PaneGrids /\ SizeOf(shadow) = SizeOf(term.grid)
  BY <1>1 DEF Init, EmuNew, Screens, Views, PaneGrids
<1>3. /\ ops \in Seq(Ops) /\ Len(ops) <= OpsQueue /\ burst \in Seq(Ops)
      /\ ch \in [Streams -> Seq(Updates)]
      /\ \A s \in Streams : Len(ch[s]) <= SubscriberBuffer
      /\ calls \in 0 .. MaxCalls
  BY PipelineAssumption DEF Init
<1>4. /\ cursor \in Cursors /\ batch = NoBatch
      /\ done \in BOOLEAN /\ dirty \in BOOLEAN /\ armed \in BOOLEAN
      /\ subs \subseteq Streams /\ lagged \subseteq Streams
      /\ closed \subseteq Streams /\ exited \subseteq Streams
      /\ pc \in {"select", "gather", "burst", "returned"}
      /\ watcher \in {"feeding", "closing", "closed"}
  BY <1>1 DEF Init
<1> QED
  BY <1>2, <1>3, <1>4 DEF PipeInv, TypeOK, ShadowFits, PaneGrids

\* Posting an op keeps the channel's type and bound.
LEMMA PostType ==
  ASSUME ops \in Seq(Ops), Len(ops) <= OpsQueue, NEW op \in Ops, Post(op)
  PROVE  ops' \in Seq(Ops) /\ Len(ops') <= OpsQueue
  BY PipelineAssumption DEF Post, Send

\* Every step of the watcher and of the run loop preserves the invariant.
LEMMA PipeInvStep ==
  ASSUME PipeInv, RunLoop \/ TimerFires \/ Caller
  PROVE  PipeInv'
<1> USE DEF PipeInv, TypeOK, ShadowFits
<1>1. ASSUME NEW e \in Data, Feed(e) PROVE PipeInv'
  <2>1. OutputOp(e) \in Ops
    BY PipelineAssumption DEF OutputOp, Ops
  <2>2. ops' \in Seq(Ops) /\ Len(ops') <= OpsQueue
    BY <1>1, <2>1, PostType DEF Feed
  <2>3. calls' \in 0 .. MaxCalls
    BY <1>1, PipelineAssumption DEF Feed
  <2> QED
    BY <1>1, <2>2, <2>3 DEF Feed, loopVars, screenVars, subVars
<1>2. ASSUME NEW sz \in Sizes, CallResize(sz) PROVE PipeInv'
  <2>1. ResizeOp(sz) \in Ops
    BY DEF ResizeOp, Ops
  <2>2. ops' \in Seq(Ops) /\ Len(ops') <= OpsQueue
    BY <1>2, <2>1, PostType DEF CallResize
  <2>3. calls' \in 0 .. MaxCalls
    BY <1>2, PipelineAssumption DEF CallResize
  <2> QED
    BY <1>2, <2>2, <2>3 DEF CallResize, loopVars, screenVars, subVars
<1>3. ASSUME NEW x \in BOOLEAN, CallClose(x) PROVE PipeInv'
  <2>1. CloseOp(x) \in Ops
    BY DEF CloseOp, Ops
  <2>2. ops' \in Seq(Ops) /\ Len(ops') <= OpsQueue
    BY <1>3, <2>1, PostType DEF CallClose
  <2> QED
    BY <1>3, <2>2 DEF CallClose, loopVars, screenVars, subVars
<1>4. CASE CloseReturns
  BY <1>4 DEF CloseReturns, loopVars, screenVars, subVars
<1>5. CASE TimerFires
  <2>1. FlushStillLagged \in BOOLEAN
    BY DEF FlushStillLagged
  <2> QED
    BY <1>5, <2>1, FlushType DEF TimerFires, loopVars, callerVars, PaneGrids
<1>6. CASE ReceiveOp
  <2>1. Head(ops) \in Ops /\ Tail(ops) \in Seq(Ops) /\ Len(Tail(ops)) <= OpsQueue
    BY <1>6, PipelineAssumption DEF ReceiveOp
  <2>2. <<Head(ops)>> \in Seq(Ops)
    BY <2>1
  <2> QED
    BY <1>6, <2>1, <2>2 DEF ReceiveOp, screenVars, subVars, callerVars
<1>7. CASE Gather
  <2>1. burst \o ops \in Seq(Ops) /\ <<>> \in Seq(Ops) /\ Len(<<>>) <= OpsQueue
    BY PipelineAssumption
  <2> QED
    BY <1>7, <2>1 DEF Gather, screenVars, subVars, callerVars
<1>8. CASE BurstOutput
  <2>1. Head(burst) \in Ops /\ Head(burst).type = "output" /\ Tail(burst) \in Seq(Ops)
    BY <1>8 DEF BurstOutput, NextOpIs
  <2>2. Head(burst).data \in Effects
    BY <2>1 DEF Ops
  <2>3. Concat(batch, Head(burst).data) \in Effects
    BY <2>2, ConcatType
  <2> QED
    BY <1>8, <2>1, <2>3 DEF BurstOutput, screenVars, subVars, callerVars
<1>9. CASE WriteBatch
  <2>1. batch \in Effects
    BY <1>9 DEF WriteBatch
  <2>2. EmuWrite(term, batch) \in Screens /\ SizeOf(EmuWrite(term, batch).grid) = SizeOf(term.grid)
    BY <2>1, EmuWriteType
  <2>3. Arm \in BOOLEAN
    BY DEF Arm
  <2> QED
    BY <1>9, <2>2, <2>3 DEF WriteBatch, subVars, callerVars
<1>10. CASE OpResizeSame
  <2>1. Tail(burst) \in Seq(Ops)
    BY <1>10 DEF OpResizeSame, ControlOp, NextOpIs
  <2> QED
    BY <1>10, <2>1 DEF OpResizeSame, screenVars, subVars, callerVars
<1>11. CASE OpResize
  <2> DEFINE sz == Head(burst).size
  <2>1. Head(burst) \in Ops /\ Head(burst).type = "resize" /\ Tail(burst) \in Seq(Ops)
    BY <1>11 DEF OpResize, ControlOp, NextOpIs
  <2>2. sz \in Sizes
    BY <2>1 DEF Ops
  <2>3. EmuResize(term, sz) \in Screens /\ SizeOf(EmuResize(term, sz).grid) = sz
    BY <2>2, EmuResizeType
  <2>4. New(sz) \in PaneGrids /\ SizeOf(New(sz)) = sz
    BY <2>2, NewGrid
  <2>5. ResizeUpdate(sz) \in Updates
    BY <2>2, <2>4, UpdateTypes, PipelineAssumption
  <2>6. ASSUME NEW s \in Streams
        PROVE  /\ (IF s \in subs /\ HasRoom(s) THEN Append(ch[s], ResizeUpdate(sz)) ELSE ch[s])
                     \in Seq(Updates)
               /\ Len(IF s \in subs /\ HasRoom(s) THEN Append(ch[s], ResizeUpdate(sz)) ELSE ch[s])
                     <= SubscriberBuffer
    BY <2>5, PipelineAssumption DEF HasRoom
  <2>7. /\ ch' \in [Streams -> Seq(Updates)]
        /\ \A s \in Streams : Len(ch'[s]) <= SubscriberBuffer
    BY <1>11, <2>6 DEF OpResize
  <2>8. term' \in Screens /\ shadow' \in PaneGrids /\ SizeOf(shadow') = SizeOf(term'.grid)
    BY <1>11, <2>3, <2>4 DEF OpResize, ResizedShadow
  <2>9. lagged' \subseteq Streams /\ armed' \in BOOLEAN /\ dirty' \in BOOLEAN
    BY <1>11 DEF OpResize, Arm
  <2> QED
    BY <1>11, <2>1, <2>7, <2>8, <2>9 DEF OpResize, callerVars, PaneGrids
<1>12. CASE OpSubscribe
  <2> DEFINE s0 == Head(burst).sub
  <2>1. Head(burst) \in Ops /\ Head(burst).type = "subscribe" /\ Tail(burst) \in Seq(Ops)
    BY <1>12 DEF OpSubscribe, ControlOp, NextOpIs
  <2>2. s0 \in Streams
    BY <2>1 DEF Ops
  <2>3. SyncUpdate(FlushShadow, FlushCursor) \in Updates
    BY FlushType, UpdateTypes, PipelineAssumption
  <2>4. Len(FlushCh[s0]) < SubscriberBuffer
    BY <1>12 DEF OpSubscribe, SyncHasRoom
  <2>5. ch' = [FlushCh EXCEPT ![s0] = Append(@, SyncUpdate(FlushShadow, FlushCursor))]
    BY <1>12 DEF OpSubscribe
  <2>6. /\ ch' \in [Streams -> Seq(Updates)]
        /\ \A s \in Streams : Len(ch'[s]) <= SubscriberBuffer
    <3>1. Append(FlushCh[s0], SyncUpdate(FlushShadow, FlushCursor)) \in Seq(Updates)
      BY <2>2, <2>3, FlushType
    <3>2. Len(Append(FlushCh[s0], SyncUpdate(FlushShadow, FlushCursor))) <= SubscriberBuffer
      BY <2>2, <2>3, <2>4, FlushType, PipelineAssumption
    <3> QED
      BY <2>2, <2>5, <3>1, <3>2, FlushType
  <2>7. armed' \in BOOLEAN /\ dirty' \in BOOLEAN /\ subs' \subseteq Streams
    BY <1>12, <2>2 DEF OpSubscribe, FlushStillLagged
  <2>8. shadow' \in PaneGrids /\ cursor' \in Cursors /\ lagged' \subseteq Streams
        /\ SizeOf(shadow') = SizeOf(term'.grid) /\ term' \in Screens
    BY <1>12, FlushType DEF OpSubscribe
  <2> QED
    BY <1>12, <2>1, <2>6, <2>7, <2>8 DEF OpSubscribe, callerVars, PaneGrids
<1>13. CASE OpUnsubscribe
  <2>1. Head(burst) \in Ops /\ Head(burst).type = "unsubscribe" /\ Tail(burst) \in Seq(Ops)
    BY <1>13 DEF OpUnsubscribe, ControlOp, NextOpIs
  <2> QED
    BY <1>13, <2>1 DEF OpUnsubscribe, Ops, screenVars, callerVars
<1>14. CASE OpClose
  BY <1>14 DEF OpClose, screenVars, callerVars
<1>15. CASE EndBurst
  BY <1>15 DEF EndBurst, screenVars, subVars, callerVars
<1> QED
  BY <1>1, <1>2, <1>3, <1>4, <1>5, <1>6, <1>7, <1>8, <1>9, <1>10, <1>11, <1>12, <1>13,
     <1>14, <1>15 DEF RunLoop, Caller
=============================================================================
