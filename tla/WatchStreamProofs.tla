------------------------- MODULE WatchStreamProofs -------------------------
(***************************************************************************)
(* Theorems about the WatchPane streams of one render pipeline, for every  *)
(* set of streams, pane sizes, cells and queue capacities: what a Client   *)
(* rebuilds from increments, resizes and resyncs is the flushed screen.    *)
(***************************************************************************)
EXTENDS WatchStream, RenderPipelineProofs

(***************************************************************************)
(* The streams: every message leads from one view a Client can hold to     *)
(* another.                                                                *)
(***************************************************************************)
ClientViews == Views(Sizes \cup {<<0, 0>>})

Pending == Updates \cup Messages

\* What a Client's view becomes when it has received all of u.
ApplyAll(v, u) ==
  IF u.kind = "sync" THEN [grid |-> Apply(New(u.size), u.damage), cursor |-> u.cursor]
  ELSE ApplyMessage(v, u)

\* Every patch of u lands inside the grid that receives it.
Fits(v, u) ==
  /\ u.kind = "damage" => /\ SizeOf(v.grid) # <<0, 0>>
                          /\ DOMAIN u.damage \subseteq Positions(SizeOf(v.grid))
  /\ u.kind = "sync"   => DOMAIN u.damage \subseteq Positions(u.size)

\* Receiving q in order takes view a to view b, and everything fits.
Chain(q, a, b) ==
  \E f \in [0 .. Len(q) -> ClientViews] :
    /\ f[0] = a /\ f[Len(q)] = b
    /\ \A i \in 1 .. Len(q) : Fits(f[i - 1], q[i]) /\ f[i] = ApplyAll(f[i - 1], q[i])

\* What is on its way to stream s: the wire continues the Client's view, the
\* queue continues the wire and, for a subscriber that is not lagged, ends in
\* the flushed screen.
InStep(s) ==
  \E mid \in ClientViews :
    /\ Chain(wire[s], view[s], mid)
    /\ s \notin gone => \E end \in ClientViews :
                          /\ Chain(ch[s], mid, end)
                          /\ s \in subs \ lagged => end = Mirror

StreamInv == StreamTypeOK /\ ShadowFits /\ \A s \in Streams : InStep(s)

\* A Client's grid is a grid of its size.
LEMMA ViewGrid ==
  ASSUME NEW v \in ClientViews
  PROVE  /\ SizeOf(v.grid) \in Sizes \cup {<<0, 0>>} /\ SizeOf(v.grid) \in Size
         /\ v.grid \in Grids(SizeOf(v.grid)) /\ v.cursor \in Cursors
         /\ v = [grid |-> v.grid, cursor |-> v.cursor]
<1>1. PICK sz \in Sizes \cup {<<0, 0>>} : v.grid \in Grids(sz)
  BY DEF ClientViews, Views
<1>2. sz \in Size
  BY PipelineAssumption DEF Size
<1>3. v.cursor \in Cursors /\ v = [grid |-> v.grid, cursor |-> v.cursor]
  BY DEF ClientViews, Views
<1> QED
  BY <1>1, <1>2, <1>3, GridSize

\* A grid of a pane size and a cursor make a view.
LEMMA ViewIntro ==
  ASSUME NEW sz \in Sizes \cup {<<0, 0>>}, NEW g \in Grids(sz), NEW cur \in Cursors
  PROVE  [grid |-> g, cursor |-> cur] \in ClientViews
  BY DEF ClientViews, Views

\* Receiving keeps a view a view.
LEMMA ApplyAllType ==
  ASSUME NEW v \in ClientViews, NEW u \in Pending
  PROVE  ApplyAll(v, u) \in ClientViews
<1>1. u.size \in Sizes /\ u.size \in Size /\ u.damage \in Patches /\ u.cursor \in Cursors
  BY PipelineAssumption DEF Pending, Updates, Messages
<1>2. New(u.size) \in Grids(u.size)
  BY <1>1, NewType
<1>3. Apply(New(u.size), u.damage) \in Grids(u.size)
  BY <1>1, <1>2, PatchElim, ApplyType
<1>4. Apply(v.grid, u.damage) \in Grids(SizeOf(v.grid))
  BY <1>1, ViewGrid, PatchElim, ApplyType
<1>5. [v EXCEPT !.grid = New(u.size)] = [grid |-> New(u.size), cursor |-> v.cursor]
  BY ViewGrid
<1>6. CASE u.kind = "sync"
  BY <1>1, <1>3, <1>6, ViewIntro DEF ApplyAll
<1>7. CASE u.kind = "resize"
  BY <1>1, <1>2, <1>5, <1>7, ViewIntro, ViewGrid DEF ApplyAll, ApplyMessage
<1>8. CASE u.kind = "damage"
  BY <1>1, <1>4, <1>8, ViewIntro, ViewGrid DEF ApplyAll, ApplyMessage
<1>9. CASE u.kind = "exited"
  BY <1>9 DEF ApplyAll, ApplyMessage
<1> QED
  BY <1>6, <1>7, <1>8, <1>9 DEF Pending, Updates, Messages

\* Nothing pending, nothing changes.
LEMMA ChainEmpty ==
  ASSUME NEW v \in ClientViews
  PROVE  Chain(<<>>, v, v)
<1> DEFINE f == [i \in 0 .. 0 |-> v]
<1>1. f \in [0 .. Len(<<>>) -> ClientViews] /\ f[0] = v /\ f[Len(<<>>)] = v
  OBVIOUS
<1>2. \A i \in 1 .. Len(<<>>) : FALSE
  OBVIOUS
<1> QED
  BY <1>1, <1>2 DEF Chain

\* And conversely: an empty chain leads nowhere else.
LEMMA ChainOfEmpty ==
  ASSUME NEW a, NEW b, Chain(<<>>, a, b)
  PROVE  a = b
  BY DEF Chain

\* One more message at the end.
LEMMA ChainAppend ==
  ASSUME NEW q \in Seq(Pending), NEW u \in Pending, NEW a \in ClientViews,
         NEW b \in ClientViews, Chain(q, a, b), Fits(b, u)
  PROVE  Chain(Append(q, u), a, ApplyAll(b, u))
<1>1. PICK f \in [0 .. Len(q) -> ClientViews] :
        /\ f[0] = a /\ f[Len(q)] = b
        /\ \A i \in 1 .. Len(q) : Fits(f[i - 1], q[i]) /\ f[i] = ApplyAll(f[i - 1], q[i])
  BY DEF Chain
<1> DEFINE r == Append(q, u)
           g == [i \in 0 .. Len(q) + 1 |-> IF i = Len(q) + 1 THEN ApplyAll(b, u) ELSE f[i]]
<1>2. Len(q) \in Nat /\ Len(r) = Len(q) + 1 /\ r[Len(q) + 1] = u
      /\ \A i \in 1 .. Len(q) : r[i] = q[i]
  OBVIOUS
<1>3. g \in [0 .. Len(r) -> ClientViews]
  BY <1>2, ApplyAllType
<1>4. g[0] = a /\ g[Len(r)] = ApplyAll(b, u)
  BY <1>1, <1>2
<1>5. ASSUME NEW i \in 1 .. Len(r)
      PROVE  Fits(g[i - 1], r[i]) /\ g[i] = ApplyAll(g[i - 1], r[i])
  <2>1. CASE i = Len(q) + 1
    <3>1. g[i - 1] = b /\ r[i] = u /\ g[i] = ApplyAll(b, u)
      BY <1>1, <1>2, <2>1
    <3> QED
      BY <3>1
  <2>2. CASE i # Len(q) + 1
    <3>1. i \in 1 .. Len(q)
      BY <1>2, <2>2
    <3>2. g[i - 1] = f[i - 1] /\ g[i] = f[i] /\ r[i] = q[i]
      BY <1>2, <3>1
    <3> QED
      BY <1>1, <3>1, <3>2
  <2> QED
    BY <2>1, <2>2
<1> HIDE DEF g, r
<1>6. Chain(r, a, ApplyAll(b, u))
  BY <1>3, <1>4, <1>5 DEF Chain
<1> QED
  BY <1>6 DEF r

\* The first message taken off.
LEMMA ChainTail ==
  ASSUME NEW q \in Seq(Pending), q # <<>>, NEW a \in ClientViews, NEW b \in ClientViews,
         Chain(q, a, b)
  PROVE  Fits(a, Head(q)) /\ Chain(Tail(q), ApplyAll(a, Head(q)), b)
<1>1. PICK f \in [0 .. Len(q) -> ClientViews] :
        /\ f[0] = a /\ f[Len(q)] = b
        /\ \A i \in 1 .. Len(q) : Fits(f[i - 1], q[i]) /\ f[i] = ApplyAll(f[i - 1], q[i])
  BY DEF Chain
<1> DEFINE r == Tail(q)
           g == [i \in 0 .. Len(q) - 1 |-> f[i + 1]]
<1>2. Len(q) \in Nat /\ Len(q) >= 1 /\ Len(r) = Len(q) - 1 /\ Head(q) = q[1]
      /\ \A i \in 1 .. Len(q) - 1 : r[i] = q[i + 1]
  OBVIOUS
<1>3. Fits(a, Head(q)) /\ f[1] = ApplyAll(a, Head(q))
  <2>1. 1 \in 1 .. Len(q) /\ 1 - 1 = 0
    BY <1>2
  <2> QED
    BY <1>1, <1>2, <2>1
<1>4. g \in [0 .. Len(r) -> ClientViews] /\ g[0] = ApplyAll(a, Head(q)) /\ g[Len(r)] = b
  BY <1>1, <1>2, <1>3
<1>5. ASSUME NEW i \in 1 .. Len(r)
      PROVE  Fits(g[i - 1], r[i]) /\ g[i] = ApplyAll(g[i - 1], r[i])
  <2>1. i + 1 \in 1 .. Len(q) /\ (i + 1) - 1 = i
    BY <1>2
  <2>2. g[i - 1] = f[i] /\ g[i] = f[i + 1] /\ r[i] = q[i + 1]
    BY <1>2
  <2> QED
    BY <1>1, <2>1, <2>2
<1> HIDE DEF g, r
<1>6. Chain(r, ApplyAll(a, Head(q)), b)
  BY <1>4, <1>5 DEF Chain
<1> QED
  BY <1>3, <1>6 DEF r

\* A sync repairs any view.
LEMMA SyncStep ==
  ASSUME NEW v \in ClientViews, NEW g \in PaneGrids, NEW cur \in Cursors
  PROVE  /\ Fits(v, SyncUpdate(g, cur))
         /\ ApplyAll(v, SyncUpdate(g, cur)) = [grid |-> g, cursor |-> cur]
<1>1. SizeOf(g) \in Size /\ g \in Grids(SizeOf(g))
  BY PaneGrid
<1>2. Apply(New(SizeOf(g)), Snapshot(g)) = g
  BY <1>1, SnapshotRestores
<1>3. DOMAIN Snapshot(g) \subseteq Positions(SizeOf(g))
  BY <1>1, SnapshotType
<1> QED
  BY <1>2, <1>3 DEF SyncUpdate, Fits, ApplyAll

\* A resize blanks the grid and keeps the cursor.
LEMMA ResizeStep ==
  ASSUME NEW v \in ClientViews, NEW sz \in Sizes
  PROVE  /\ Fits(v, ResizeUpdate(sz))
         /\ ApplyAll(v, ResizeUpdate(sz)) = [grid |-> New(sz), cursor |-> v.cursor]
<1>1. v = [grid |-> v.grid, cursor |-> v.cursor]
  BY ViewGrid
<1>2. ApplyAll(v, ResizeUpdate(sz)) = [v EXCEPT !.grid = New(sz)]
  BY DEF ResizeUpdate, ApplyAll, ApplyMessage
<1>3. [v EXCEPT !.grid = New(sz)] = [grid |-> New(sz), cursor |-> v.cursor]
  BY <1>1
<1> QED
  BY <1>2, <1>3 DEF ResizeUpdate, Fits

\* Damage takes the grid it was computed from to the new one.
LEMMA DamageStep ==
  ASSUME NEW k \in PaneGrids, NEW g \in PaneGrids, SizeOf(k) = SizeOf(g),
         NEW old \in Cursors, NEW cur \in Cursors
  PROVE  LET v == [grid |-> k, cursor |-> old]
             u == DamageUpdate(g, Diff(k, g), cur)
         IN  Fits(v, u) /\ ApplyAll(v, u) = [grid |-> g, cursor |-> cur]
<1>1. SizeOf(k) \in Sizes /\ SizeOf(k) \in Size /\ k \in Grids(SizeOf(k)) /\ g \in Grids(SizeOf(k))
  BY PaneGrid
<1>2. Apply(k, Diff(k, g)) = g
  BY <1>1, DiffRestores
<1>3. DOMAIN Diff(k, g) \subseteq Positions(SizeOf(k))
  BY <1>1, DiffType
<1>4. SizeOf(k) # <<0, 0>>
  BY <1>1, PipelineAssumption
<1> QED
  BY <1>2, <1>3, <1>4 DEF DamageUpdate, Fits, ApplyAll, ApplyMessage

\* What a flush queues for one stream: whoever is not lagged after it will
\* hold what it flushed.
LEMMA FlushChain ==
  ASSUME PipeInv, NEW s \in Streams, NEW a \in ClientViews, NEW b \in ClientViews,
         Chain(ch[s], a, b), s \in subs \ lagged => b = Mirror
  PROVE  \E e \in ClientViews :
           /\ Chain(FlushCh[s], a, e)
           /\ s \in subs \ FlushLagged => e = [grid |-> FlushShadow, cursor |-> FlushCursor]
<1>1. ch[s] \in Seq(Pending) /\ FlushUpdate(s) \in Pending
  <2>1. ch[s] \in Seq(Updates) /\ FlushUpdate(s) \in Updates
    BY FlushType DEF PipeInv, TypeOK
  <2> QED
    BY <2>1 DEF Pending
<1>2. /\ shadow \in PaneGrids /\ term.grid \in PaneGrids /\ SizeOf(shadow) = SizeOf(term.grid)
      /\ cursor \in Cursors /\ term.cursor \in Cursors
  BY DEF PipeInv, TypeOK, ShadowFits, Screens, Views, PaneGrids
<1>3. CASE s \in FlushSent
  <2>1. FlushCh[s] = Append(ch[s], FlushUpdate(s))
    BY <1>3 DEF FlushCh
  <2>2. Fits(b, FlushUpdate(s))
        /\ ApplyAll(b, FlushUpdate(s)) = [grid |-> FlushShadow, cursor |-> FlushCursor]
    <3>1. CASE s \in lagged
      BY <3>1, SyncStep, FlushType DEF FlushUpdate
    <3>2. CASE s \notin lagged
      <4>1. s \in subs /\ FlushChanged
        BY <1>3, <3>2 DEF FlushSent, FlushOwed
      <4>2. b = [grid |-> shadow, cursor |-> cursor]
        BY <3>2, <4>1 DEF Mirror
      <4>3. FlushShadow = term.grid /\ FlushCursor = term.cursor
        BY <4>1 DEF FlushShadow, FlushCursor
      <4>4. FlushUpdate(s) = DamageUpdate(term.grid, Diff(shadow, term.grid), term.cursor)
        BY <3>2, <4>3 DEF FlushUpdate, FlushDamage
      <4> QED
        BY <1>2, <4>2, <4>3, <4>4, DamageStep
    <3> QED
      BY <3>1, <3>2
  <2>3. ApplyAll(b, FlushUpdate(s)) \in ClientViews
    BY <1>1, ApplyAllType
  <2>4. Chain(Append(ch[s], FlushUpdate(s)), a, ApplyAll(b, FlushUpdate(s)))
    BY <1>1, <2>2, ChainAppend
  <2> QED
    BY <2>1, <2>2, <2>3, <2>4
<1>4. CASE s \notin FlushSent
  <2>1. FlushCh[s] = ch[s]
    BY <1>4 DEF FlushCh
  <2>2. ASSUME s \in subs \ FlushLagged
        PROVE  b = [grid |-> FlushShadow, cursor |-> FlushCursor]
    <3>1. s \notin FlushOwed
      BY <1>4, <2>2 DEF FlushLagged
    <3>2. s \notin lagged /\ ~FlushChanged
      BY <2>2, <3>1 DEF FlushOwed
    <3> QED
      BY <2>2, <3>2 DEF Mirror, FlushShadow, FlushCursor
  <2> QED
    BY <2>1, <2>2
<1> QED
  BY <1>3, <1>4

\* A step that leaves the stream alone.
LEMMA InStepKept ==
  ASSUME NEW s \in Streams, InStep(s), wire'[s] = wire[s], view'[s] = view[s],
         ch'[s] = ch[s], gone \subseteq gone',
         s \in subs' \ lagged' => s \in subs \ lagged /\ Mirror' = Mirror
  PROVE  InStep(s)'
  BY DEF InStep

\* Pipeline steps keep every stream in step with the flushed screen.
LEMMA InStepPipeline ==
  ASSUME PipeInv, NEW s \in Streams, InStep(s), view[s] \in ClientViews,
         RunLoop \/ TimerFires \/ Caller, UNCHANGED streamVars
  PROVE  InStep(s)'
<1>1. wire'[s] = wire[s] /\ view'[s] = view[s] /\ gone' = gone
  BY DEF streamVars
<1>2. ASSUME ch'[s] = ch[s], s \in subs' \ lagged' => s \in subs \ lagged, Mirror' = Mirror
      PROVE  InStep(s)'
  BY <1>1, <1>2, InStepKept
<1>3. PICK mid \in ClientViews :
        /\ Chain(wire[s], view[s], mid)
        /\ s \notin gone => \E end \in ClientViews :
                              /\ Chain(ch[s], mid, end)
                              /\ s \in subs \ lagged => end = Mirror
  BY DEF InStep
<1>4. ASSUME s \notin gone => \E end \in ClientViews :
                                /\ Chain(ch'[s], mid, end)
                                /\ s \in subs' \ lagged' => end = Mirror'
      PROVE  InStep(s)'
  BY <1>1, <1>3, <1>4 DEF InStep
<1>5. ch[s] \in Seq(Pending)
  BY DEF PipeInv, TypeOK, Pending
<1>6. CASE Caller
  BY <1>2, <1>6 DEF Caller, Feed, CallResize, CallClose, CloseReturns, subVars, screenVars, Mirror
<1>7. CASE ReceiveOp \/ Gather \/ BurstOutput \/ WriteBatch \/ OpResizeSame \/ EndBurst
  BY <1>2, <1>7 DEF ReceiveOp, Gather, BurstOutput, WriteBatch, OpResizeSame, EndBurst,
                    subVars, screenVars, Mirror
<1>8. CASE OpUnsubscribe \/ OpClose
  BY <1>2, <1>8 DEF OpUnsubscribe, OpClose, screenVars, Mirror
<1>9. CASE TimerFires
  <2>1. ch'[s] = FlushCh[s] /\ subs' = subs /\ lagged' = FlushLagged
        /\ Mirror' = [grid |-> FlushShadow, cursor |-> FlushCursor]
    BY <1>9 DEF TimerFires, Mirror
  <2> QED
    BY <1>3, <1>4, <2>1, FlushChain
<1>10. CASE OpSubscribe
  <2> DEFINE s0 == Head(burst).sub
             u  == SyncUpdate(FlushShadow, FlushCursor)
  <2>1. /\ ch' = [FlushCh EXCEPT ![s0] = Append(@, u)]
        /\ subs' = subs \cup {s0} /\ lagged' = FlushLagged
        /\ Mirror' = [grid |-> FlushShadow, cursor |-> FlushCursor]
    BY <1>10 DEF OpSubscribe, Mirror
  <2>2. FlushCh \in [Streams -> Seq(Updates)] /\ FlushCh[s] \in Seq(Pending)
    BY FlushType DEF Pending
  <2>3. u \in Pending
    BY FlushType, UpdateTypes, PipelineAssumption DEF Pending
  <2>4. SUFFICES ASSUME s \notin gone
                 PROVE  \E end \in ClientViews : /\ Chain(ch'[s], mid, end)
                                                 /\ s \in subs' \ lagged' => end = Mirror'
    BY <1>4
  <2>5. PICK e \in ClientViews :
          /\ Chain(FlushCh[s], mid, e)
          /\ s \in subs \ FlushLagged => e = [grid |-> FlushShadow, cursor |-> FlushCursor]
    BY <1>3, <2>4, FlushChain
  <2>6. CASE s # s0
    <3>1. ch'[s] = FlushCh[s]
      BY <2>1, <2>2, <2>6
    <3> QED
      BY <2>1, <2>5, <2>6, <3>1
  <2>7. CASE s = s0
    <3>1. ch'[s] = Append(FlushCh[s], u)
      BY <2>1, <2>2, <2>7
    <3>2. Fits(e, u) /\ ApplyAll(e, u) = [grid |-> FlushShadow, cursor |-> FlushCursor]
      BY FlushType, SyncStep
    <3>3. ApplyAll(e, u) \in ClientViews
      BY <2>3, ApplyAllType
    <3>4. Chain(Append(FlushCh[s], u), mid, ApplyAll(e, u))
      BY <2>2, <2>3, <2>5, <3>2, ChainAppend
    <3> QED
      BY <2>1, <3>1, <3>2, <3>3, <3>4
  <2> QED
    BY <2>6, <2>7
<1>11. CASE OpResize
  <2> DEFINE sz == Head(burst).size
             u  == ResizeUpdate(sz)
  <2>1. sz \in Sizes
    <3>1. Head(burst) \in Ops /\ Head(burst).type = "resize"
      BY <1>11 DEF OpResize, ControlOp, NextOpIs, PipeInv, TypeOK
    <3> QED
      BY <3>1 DEF Ops
  <2>2. /\ ch' = [t \in Streams |-> IF t \in subs /\ HasRoom(t) THEN Append(ch[t], u) ELSE ch[t]]
        /\ subs' = subs /\ lagged' = lagged \cup {t \in subs : ~HasRoom(t)}
        /\ Mirror' = [grid |-> New(sz), cursor |-> cursor]
    BY <1>11 DEF OpResize, ResizedShadow, Mirror
  <2>3. u \in Pending
    BY <2>1, NewGrid, UpdateTypes, PipelineAssumption DEF Pending
  <2>4. SUFFICES ASSUME s \notin gone
                 PROVE  \E end \in ClientViews : /\ Chain(ch'[s], mid, end)
                                                 /\ s \in subs' \ lagged' => end = Mirror'
    BY <1>4
  <2>5. PICK e \in ClientViews : Chain(ch[s], mid, e) /\ (s \in subs \ lagged => e = Mirror)
    BY <1>3, <2>4
  <2>6. CASE s \in subs /\ HasRoom(s)
    <3>1. ch'[s] = Append(ch[s], u)
      BY <2>2, <2>6
    <3>2. Fits(e, u) /\ ApplyAll(e, u) = [grid |-> New(sz), cursor |-> e.cursor]
      BY <2>1, ResizeStep
    <3>3. ApplyAll(e, u) \in ClientViews /\ Chain(Append(ch[s], u), mid, ApplyAll(e, u))
      BY <1>5, <2>3, <2>5, <3>2, ApplyAllType, ChainAppend
    <3>4. s \in subs' \ lagged' => e.cursor = cursor
      BY <2>2, <2>5, <2>6 DEF Mirror
    <3> QED
      BY <2>2, <3>1, <3>2, <3>3, <3>4
  <2>7. CASE ~(s \in subs /\ HasRoom(s))
    <3>1. ch'[s] = ch[s] /\ s \notin subs' \ lagged'
      BY <2>2, <2>7
    <3> QED
      BY <2>5, <3>1
  <2> QED
    BY <2>6, <2>7
<1> QED
  BY <1>6, <1>7, <1>8, <1>9, <1>10, <1>11 DEF RunLoop

\* An update is sent as messages.
LEMMA SendType ==
  ASSUME NEW u \in Updates
  PROVE  /\ SendUpdate(u) \in Seq(Messages)
         /\ u.kind = "sync" =>
              LET m1 == [kind |-> "resize", size |-> u.size, damage |-> u.damage, cursor |-> u.cursor]
                  m2 == [kind |-> "damage", size |-> u.size, damage |-> u.damage, cursor |-> u.cursor]
              IN  SendUpdate(u) = <<m1, m2>> /\ m1 \in Messages /\ m2 \in Messages
         /\ u.kind # "sync" => SendUpdate(u) = <<u>> /\ u \in Messages
<1> DEFINE m1 == [kind |-> "resize", size |-> u.size, damage |-> u.damage, cursor |-> u.cursor]
           m2 == [kind |-> "damage", size |-> u.size, damage |-> u.damage, cursor |-> u.cursor]
<1>1. u = [kind |-> u.kind, size |-> u.size, damage |-> u.damage, cursor |-> u.cursor]
      /\ u.kind \in {"resize", "damage", "sync"} /\ u.size \in Sizes
      /\ u.damage \in Patches /\ u.cursor \in Cursors
  BY DEF Updates
<1>2. [u EXCEPT !.kind = "resize"] = m1 /\ [u EXCEPT !.kind = "damage"] = m2
  BY <1>1
<1>3. m1 \in Messages /\ m2 \in Messages
  BY <1>1 DEF Messages
<1>4. u.kind # "sync" => u \in Messages
  BY <1>1 DEF Messages
<1> QED
  BY <1>2, <1>3, <1>4 DEF SendUpdate

\* A Client that holds a view holds one after receiving a message.
LEMMA ReceiveType ==
  ASSUME NEW v \in ClientViews, NEW m \in Messages
  PROVE  ApplyMessage(v, m) \in ClientViews /\ ApplyAll(v, m) = ApplyMessage(v, m)
<1>1. ApplyAll(v, m) = ApplyMessage(v, m)
  BY DEF ApplyAll, Messages
<1> QED
  BY <1>1, ApplyAllType DEF Pending

\* So is PaneExited.
LEMMA ExitedTyped == ExitedMessage \in Messages
  BY EmptyDamageType, PipelineAssumption DEF ExitedMessage, Messages

\* The initial state.
LEMMA StreamInvInit == StreamInit => StreamInv
<1> SUFFICES ASSUME StreamInit PROVE StreamInv
  OBVIOUS
<1>1. PipeInv
  BY PipeInvInit DEF StreamInit
<1>2. [grid |-> New(<<0, 0>>), cursor |-> Origin] \in ClientViews
  <2>1. New(<<0, 0>>) \in Grids(<<0, 0>>)
    BY NewType DEF Size
  <2> QED
    BY <2>1, ViewIntro, PipelineAssumption
<1>3. /\ handler \in [Streams -> HandlerStates] /\ wire \in [Streams -> Seq(Messages)]
      /\ gone \subseteq Streams /\ sawExit \subseteq Streams
  BY DEF StreamInit, HandlerStates
<1>4. view \in [Streams -> ClientViews]
  BY <1>2 DEF StreamInit
<1>5. ASSUME NEW s \in Streams PROVE InStep(s)
  <2>1. wire[s] = <<>> /\ ch[s] = <<>> /\ subs = {} /\ view[s] \in ClientViews
    BY <1>4 DEF StreamInit, Init
  <2> QED
    BY <2>1, ChainEmpty DEF InStep
<1> QED
  BY <1>1, <1>3, <1>4, <1>5 DEF StreamInv, StreamTypeOK, PipeInv, ClientViews

\* The handlers and the Clients keep the types.
LEMMA StreamTypeStep ==
  ASSUME StreamTypeOK, ShadowFits, NEW s \in Streams, Handler(s) \/ Client(s)
  PROVE  (StreamTypeOK /\ ShadowFits)'
<1>0. /\ handler \in [Streams -> HandlerStates] /\ wire \in [Streams -> Seq(Messages)]
      /\ gone \subseteq Streams /\ sawExit \subseteq Streams
      /\ view \in [Streams -> ClientViews] /\ TypeOK
  BY DEF StreamTypeOK, ClientViews
<1>1. ASSUME TypeOK', ShadowFits', handler' \in [Streams -> HandlerStates],
             wire' \in [Streams -> Seq(Messages)], gone' \subseteq Streams,
             view' \in [Streams -> ClientViews], sawExit' \subseteq Streams
      PROVE  (StreamTypeOK /\ ShadowFits)'
  BY <1>1 DEF StreamTypeOK, ClientViews
<1>2. ASSUME UNCHANGED vars PROVE TypeOK' /\ ShadowFits'
  BY <1>0, <1>2 DEF vars, TypeOK, ShadowFits
<1>3. ASSUME NEW st \in HandlerStates, GoTo(s, st) PROVE handler' \in [Streams -> HandlerStates]
  BY <1>0, <1>3 DEF GoTo
<1>4. ASSUME NEW op \in Ops, Post(op),
             UNCHANGED <<done, loopVars, screenVars, subVars, callerVars>>
      PROVE  TypeOK' /\ ShadowFits'
  <2>1. ops' \in Seq(Ops) /\ Len(ops') <= OpsQueue
    BY <1>0, <1>4, PostType DEF TypeOK
  <2> QED
    BY <1>0, <1>4, <2>1 DEF TypeOK, ShadowFits, loopVars, screenVars, subVars, callerVars
<1>5. ASSUME ch[s] # <<>>, ch' = [ch EXCEPT ![s] = Tail(@)],
             UNCHANGED <<ops, done, loopVars, screenVars, subs, lagged, closed, exited, callerVars>>
      PROVE  TypeOK' /\ ShadowFits'
  <2>1. ch[s] \in Seq(Updates) /\ ch[s] # <<>> /\ Len(ch[s]) <= SubscriberBuffer
    BY <1>0, <1>5 DEF TypeOK
  <2>2. Tail(ch[s]) \in Seq(Updates) /\ Len(Tail(ch[s])) <= SubscriberBuffer
    BY <2>1, PipelineAssumption
  <2>3. ch' \in [Streams -> Seq(Updates)] /\ \A t \in Streams : Len(ch'[t]) <= SubscriberBuffer
    BY <1>0, <1>5, <2>2 DEF TypeOK
  <2> QED
    BY <1>0, <1>5, <2>3 DEF TypeOK, ShadowFits, loopVars, screenVars, callerVars
<1>6. CASE OpenStream(s) \/ SeeHangUp(s) \/ SeeDone(s) \/ DrainEmpty(s)
  <2>1. UNCHANGED <<vars, wire, gone, view, sawExit>> /\ \E st \in HandlerStates : GoTo(s, st)
    BY <1>6 DEF OpenStream, SeeHangUp, SeeDone, DrainEmpty, HandlerStates
  <2> QED
    BY <1>0, <1>1, <1>2, <1>3, <2>1
<1>7. CASE Subscribe(s)
  <2>1. SubscribeOp(s) \in Ops /\ "relaying" \in HandlerStates
    BY DEF SubscribeOp, Ops, HandlerStates
  <2> QED
    BY <1>0, <1>1, <1>3, <1>4, <1>7, <2>1 DEF Subscribe
<1>8. CASE Unsubscribe(s)
  <2>1. UnsubscribeOp(s) \in Ops /\ "ended" \in HandlerStates
    BY DEF UnsubscribeOp, Ops, HandlerStates
  <2> QED
    BY <1>0, <1>1, <1>3, <1>4, <1>8, <2>1 DEF Unsubscribe
<1>9. CASE Relay(s)
  <2>1. Head(ch[s]) \in Updates
    BY <1>0, <1>9 DEF Relay, TypeOK
  <2>2. SendUpdate(Head(ch[s])) \in Seq(Messages)
    BY <2>1, SendType
  <2>3. wire' = [wire EXCEPT ![s] = wire[s] \o SendUpdate(Head(ch[s]))]
    BY <1>9 DEF Relay
  <2>4. wire' \in [Streams -> Seq(Messages)]
    BY <1>0, <2>2, <2>3
  <2>5. TypeOK' /\ ShadowFits'
    BY <1>5, <1>9 DEF Relay
  <2> QED
    BY <1>0, <1>1, <1>9, <2>4, <2>5 DEF Relay
<1>10. CASE RelayFails(s)
  <2>1. handler' \in [Streams -> HandlerStates]
    BY <1>3, <1>10 DEF RelayFails, HandlerStates
  <2>2. TypeOK' /\ ShadowFits'
    BY <1>5, <1>10 DEF RelayFails
  <2> QED
    BY <1>0, <1>1, <1>10, <2>1, <2>2 DEF RelayFails
<1>11. CASE RelayClosed(s)
  <2>1. handler' \in [Streams -> HandlerStates]
    BY <1>3, <1>11 DEF RelayClosed, HandlerStates
  <2>2. wire' \in [Streams -> Seq(Messages)]
    <3>1. Append(wire[s], ExitedMessage) \in Seq(Messages)
      BY <1>0, ExitedTyped
    <3>2. wire' = [wire EXCEPT ![s] = Append(wire[s], ExitedMessage)] \/ wire' = wire
      BY <1>11 DEF RelayClosed
    <3> QED
      BY <1>0, <3>1, <3>2
  <2> QED
    BY <1>0, <1>1, <1>2, <1>11, <2>1, <2>2 DEF RelayClosed
<1>12. CASE HangUp(s)
  BY <1>0, <1>1, <1>2, <1>12 DEF HangUp
<1>13. CASE ClientReceives(s)
  <2>1. wire[s] \in Seq(Messages) /\ wire[s] # <<>> /\ view[s] \in ClientViews
    BY <1>0, <1>13 DEF ClientReceives
  <2>2. Head(wire[s]) \in Messages /\ Tail(wire[s]) \in Seq(Messages)
    BY <2>1
  <2>3. ApplyMessage(view[s], Head(wire[s])) \in ClientViews
    BY <2>1, <2>2, ReceiveType
  <2>4. view' \in [Streams -> ClientViews] /\ wire' \in [Streams -> Seq(Messages)]
    BY <1>0, <1>13, <2>2, <2>3 DEF ClientReceives
  <2>5. sawExit' \subseteq Streams
    BY <1>0, <1>13 DEF ClientReceives
  <2> QED
    BY <1>0, <1>1, <1>2, <1>13, <2>4, <2>5 DEF ClientReceives
<1> QED
  BY <1>6, <1>7, <1>8, <1>9, <1>10, <1>11, <1>12, <1>13 DEF Handler, Client

\* Handlers and Clients keep every stream in step: what leaves the queue is
\* on the wire, what leaves the wire is in the view.
LEMMA InStepStream ==
  ASSUME StreamInv, NEW r \in Streams, Handler(r) \/ Client(r), NEW s \in Streams
  PROVE  InStep(s)'
<1>0. /\ wire \in [Streams -> Seq(Messages)] /\ view \in [Streams -> ClientViews]
      /\ ch \in [Streams -> Seq(Updates)] /\ InStep(s)
  BY DEF StreamInv, StreamTypeOK, TypeOK, ClientViews
<1>1. ch[s] \in Seq(Pending) /\ wire[s] \in Seq(Pending)
  BY <1>0 DEF Pending
<1>2. Mirror' = Mirror /\ subs' = subs /\ lagged' = lagged /\ gone \subseteq gone'
  BY DEF Handler, Client, Mirror, Subscribe, Relay, RelayFails, RelayClosed, SeeHangUp,
         Unsubscribe, SeeDone, DrainEmpty, OpenStream, HangUp, ClientReceives,
         vars, screenVars, subVars
<1>3. ASSUME wire'[s] = wire[s], view'[s] = view[s], ch'[s] = ch[s]
      PROVE  InStep(s)'
  BY <1>0, <1>2, <1>3, InStepKept
<1>4. PICK mid \in ClientViews :
        /\ Chain(wire[s], view[s], mid)
        /\ s \notin gone => \E end \in ClientViews :
                              /\ Chain(ch[s], mid, end)
                              /\ s \in subs \ lagged => end = Mirror
  BY <1>0 DEF InStep
<1>5. CASE r # s
  <2>1. wire'[s] = wire[s] /\ view'[s] = view[s] /\ ch'[s] = ch[s]
    BY <1>0, <1>5 DEF Handler, Client, Subscribe, Relay, RelayFails, RelayClosed, SeeHangUp,
         Unsubscribe, SeeDone, DrainEmpty, OpenStream, HangUp, ClientReceives, vars, subVars
  <2> QED
    BY <1>3, <2>1
<1>6. CASE r = s
  <2>1. CASE Subscribe(s) \/ SeeHangUp(s) \/ Unsubscribe(s) \/ SeeDone(s) \/ DrainEmpty(s)
             \/ OpenStream(s) \/ HangUp(s)
    BY <1>3, <2>1 DEF Subscribe, SeeHangUp, Unsubscribe, SeeDone, DrainEmpty, OpenStream,
                      HangUp, vars, subVars
  <2>2. CASE RelayFails(s)
    <3>1. s \in gone' /\ wire' = wire /\ view' = view
      BY <2>2 DEF RelayFails
    <3> QED
      BY <1>4, <3>1 DEF InStep
  <2>3. CASE RelayClosed(s)
    <3>1. view' = view /\ ch' = ch /\ gone' = gone
      BY <2>3 DEF RelayClosed, vars
    <3>2. CASE wire' = wire
      BY <1>3, <3>1, <3>2
    <3>3. CASE wire' # wire
      <4>1. wire'[s] = Append(wire[s], ExitedMessage)
        BY <1>0, <2>3, <3>3 DEF RelayClosed
      <4>2. ExitedMessage \in Pending /\ Fits(mid, ExitedMessage) /\ ApplyAll(mid, ExitedMessage) = mid
        BY ExitedTyped DEF Pending, ExitedMessage, Fits, ApplyAll, ApplyMessage
      <4>3. Chain(wire'[s], view[s], mid)
        <5>1. Chain(Append(wire[s], ExitedMessage), view[s], ApplyAll(mid, ExitedMessage))
          BY <1>0, <1>1, <1>4, <4>2, ChainAppend
        <5> QED
          BY <4>1, <4>2, <5>1
      <4> QED
        BY <1>2, <1>4, <3>1, <4>3 DEF InStep
    <3> QED
      BY <3>2, <3>3
  <2>4. CASE Relay(s)
    <3> DEFINE u == Head(ch[s])
               next == ApplyAll(mid, u)
    <3>1. /\ ch[s] # <<>> /\ s \notin gone /\ gone' = gone /\ view' = view
          /\ wire'[s] = wire[s] \o SendUpdate(u) /\ ch'[s] = Tail(ch[s])
      BY <1>0, <2>4 DEF Relay
    <3>2. u \in Updates /\ u \in Pending
      BY <1>0, <3>1 DEF Pending
    <3>3. PICK end \in ClientViews : Chain(ch[s], mid, end) /\ (s \in subs \ lagged => end = Mirror)
      BY <1>4, <3>1
    <3>4. Fits(mid, u) /\ Chain(Tail(ch[s]), next, end) /\ next \in ClientViews
      BY <1>1, <3>1, <3>2, <3>3, ChainTail, ApplyAllType
    <3>5. Chain(wire[s] \o SendUpdate(u), view[s], next)
      <4>1. CASE u.kind # "sync"
        <5>1. SendUpdate(u) = <<u>>
          BY <3>2, <4>1, SendType
        <5>2. wire[s] \o <<u>> = Append(wire[s], u)
          BY <1>1, <3>2
        <5> QED
          BY <1>0, <1>1, <1>4, <3>2, <3>4, <5>1, <5>2, ChainAppend
      <4>2. CASE u.kind = "sync"
        <5> DEFINE m1 == [kind |-> "resize", size |-> u.size, damage |-> u.damage, cursor |-> u.cursor]
                   m2 == [kind |-> "damage", size |-> u.size, damage |-> u.damage, cursor |-> u.cursor]
                   v1 == ApplyAll(mid, m1)
                   q1 == Append(wire[s], m1)
        <5>1. SendUpdate(u) = <<m1, m2>> /\ m1 \in Pending /\ m2 \in Pending
          BY <3>2, <4>2, SendType DEF Pending
        <5>2. wire[s] \o <<m1, m2>> = Append(q1, m2) /\ q1 \in Seq(Pending)
          <6>1. PICK w : w = wire[s]
            OBVIOUS
          <6>2. PICK a : a = m1
            OBVIOUS
          <6>3. PICK b : b = m2
            OBVIOUS
          <6>4. w \in Seq(Pending) /\ a \in Pending /\ b \in Pending
            BY <1>1, <5>1, <6>1, <6>2, <6>3
          <6>5. Append(w, a) \in Seq(Pending)
            BY <6>4
          <6>6. w \o <<a, b>> = Append(Append(w, a), b)
            BY <6>4
          <6> QED
            BY <6>1, <6>2, <6>3, <6>5, <6>6
        <5>3. Fits(mid, m1) /\ v1 \in ClientViews
          BY <5>1, ApplyAllType DEF Fits
        <5>4. Chain(q1, view[s], v1)
          BY <1>0, <1>1, <1>4, <5>1, <5>3, ChainAppend
        <5>5. v1.grid = New(u.size) /\ u.size \in Sizes
          <6>1. v1 = [mid EXCEPT !.grid = New(u.size)]
            BY DEF ApplyAll, ApplyMessage
          <6>2. mid = [grid |-> mid.grid, cursor |-> mid.cursor]
            BY ViewGrid
          <6>3. u.size \in Sizes
            BY <3>2 DEF Updates
          <6> QED
            BY <6>1, <6>2, <6>3
        <5>6. SizeOf(v1.grid) = u.size /\ u.size # <<0, 0>>
          BY <5>5, NewGrid, PipelineAssumption
        <5>7. Fits(v1, m2)
          BY <3>4, <4>2, <5>6 DEF Fits
        <5>8. ApplyAll(v1, m2) = next
          BY <4>2, <5>5 DEF ApplyAll, ApplyMessage
        <5> HIDE DEF m1, m2, v1, q1, next
        <5>9. Chain(Append(q1, m2), view[s], next)
          BY <1>0, <5>1, <5>2, <5>3, <5>4, <5>7, <5>8, ChainAppend
        <5> QED
          BY <5>1, <5>2, <5>9
      <4> QED
        BY <4>1, <4>2
    <3> HIDE DEF next
    <3> QED
      BY <1>2, <3>1, <3>3, <3>4, <3>5 DEF InStep
  <2>5. CASE ClientReceives(s)
    <3>1. /\ wire[s] # <<>> /\ gone' = gone /\ ch' = ch
          /\ view'[s] = ApplyMessage(view[s], Head(wire[s])) /\ wire'[s] = Tail(wire[s])
      BY <1>0, <2>5 DEF ClientReceives, vars
    <3>2. Head(wire[s]) \in Messages /\ view[s] \in ClientViews
      BY <1>0, <3>1
    <3>3. view'[s] = ApplyAll(view[s], Head(wire[s]))
      BY <3>1, <3>2, ReceiveType
    <3>4. Chain(Tail(wire[s]), view'[s], mid)
      BY <1>1, <1>4, <3>1, <3>2, <3>3, ChainTail
    <3> QED
      BY <1>2, <1>4, <3>1, <3>4 DEF InStep
  <2> QED
    BY <1>6, <2>1, <2>2, <2>3, <2>4, <2>5 DEF Handler, Client
<1> QED
  BY <1>5, <1>6

\* Every step preserves the invariant.
LEMMA StreamInvStep == StreamInv /\ [Next]_allVars => StreamInv'
<1> SUFFICES ASSUME StreamInv, [Next]_allVars PROVE StreamInv'
  OBVIOUS
<1>1. CASE PipelineStep
  <2>1. PipeInv /\ \A s \in Streams : view[s] \in ClientViews
    BY DEF StreamInv, StreamTypeOK, PipeInv, ClientViews
  <2>2. PipeInv'
    BY <1>1, <2>1, PipeInvStep DEF PipelineStep
  <2>3. \A s \in Streams : InStep(s)'
    BY <1>1, <2>1, InStepPipeline DEF PipelineStep, StreamInv
  <2>4. StreamTypeOK'
    BY <1>1, <2>2 DEF PipelineStep, streamVars, StreamInv, StreamTypeOK, PipeInv
  <2> QED
    BY <2>2, <2>3, <2>4 DEF StreamInv, PipeInv
<1>2. ASSUME NEW r \in Streams, Handler(r) \/ Client(r) PROVE StreamInv'
  <2>1. (StreamTypeOK /\ ShadowFits)'
    BY <1>2, StreamTypeStep DEF StreamInv
  <2>2. \A s \in Streams : InStep(s)'
    BY <1>2, InStepStream
  <2> QED
    BY <2>1, <2>2 DEF StreamInv
<1>3. CASE UNCHANGED allVars
  BY <1>3 DEF allVars, vars, streamVars, StreamInv, StreamTypeOK, TypeOK, ShadowFits, InStep, Mirror
<1> QED
  BY <1>1, <1>2, <1>3 DEF Next

\* The invariant holds in every reachable state.
LEMMA StreamInvHolds == Spec => []StreamInv
<1> QED
  BY StreamInvInit, StreamInvStep, PTL DEF Spec

\* Type correctness, with the bounds of the ops channel and of every
\* subscriber channel.
THEOREM TypeCorrect == Spec => []StreamTypeOK
<1>1. StreamInv => StreamTypeOK
  BY DEF StreamInv
<1> QED
  BY <1>1, StreamInvHolds, PTL

\* The panic in grid.Diff is unreachable: the shadow always has the size of
\* the emulator's screen.
THEOREM NoDiffPanic == Spec => []ShadowFits
<1>1. StreamInv => ShadowFits
  BY DEF StreamInv
<1> QED
  BY <1>1, StreamInvHolds, PTL

\* A subscriber that is not lagged and has received all it was sent holds
\* exactly the flushed screen, whatever was dropped before.
THEOREM StreamsAreExact == Spec => []CaughtUp
<1>1. ASSUME StreamInv PROVE CaughtUp
  <2> SUFFICES ASSUME NEW s \in subs \ (lagged \cup gone), ch[s] = <<>>, wire[s] = <<>>
               PROVE  view[s] = Mirror
    BY DEF CaughtUp
  <2>1. s \in Streams /\ s \notin gone /\ s \in subs \ lagged
    BY <1>1 DEF StreamInv, StreamTypeOK, TypeOK
  <2>2. PICK mid \in ClientViews, end \in ClientViews :
          Chain(<<>>, view[s], mid) /\ Chain(<<>>, mid, end) /\ end = Mirror
    BY <1>1, <2>1 DEF StreamInv, InStep
  <2> QED
    BY <2>2, ChainOfEmpty
<1> QED
  BY <1>1, StreamInvHolds, PTL

\* Damage always lands inside the grid of the Client that receives it, and
\* never before the stream's first resize.
THEOREM DamageAlwaysFits == Spec => []DamageFits
<1>1. ASSUME StreamInv PROVE DamageFits
  <2> SUFFICES ASSUME NEW s \in Streams, wire[s] # <<>>, Head(wire[s]).kind = "damage"
               PROVE  /\ SizeOf(view[s].grid) # <<0, 0>>
                      /\ DOMAIN Head(wire[s]).damage \subseteq Positions(SizeOf(view[s].grid))
    BY DEF DamageFits
  <2>1. wire[s] \in Seq(Pending) /\ view[s] \in ClientViews
    <3>1. wire[s] \in Seq(Messages) /\ view[s] \in ClientViews
      BY <1>1 DEF StreamInv, StreamTypeOK, ClientViews
    <3> QED
      BY <3>1 DEF Pending
  <2>2. PICK mid \in ClientViews : Chain(wire[s], view[s], mid)
    BY <1>1 DEF StreamInv, InStep
  <2>3. Fits(view[s], Head(wire[s]))
    BY <2>1, <2>2, ChainTail
  <2> QED
    BY <2>3 DEF Fits
<1> QED
  BY <1>1, StreamInvHolds, PTL

-----------------------------------------------------------------------------
(***************************************************************************)
(* What the run loop has been asked and has not handled.                   *)
(***************************************************************************)
Backlog == burst \o ops

\* One wakeup takes what is queued then, and no more.
LoopPlaced ==
  /\ pc = "returned" <=> done
  /\ pc = "select" => burst = <<>>
  /\ pc = "gather" => Len(burst) = 1
  /\ BurstBounded

At(q, op) == {i \in 1 .. Len(q) : q[i] = op}

Asked(op) == At(Backlog, op)

NotAsked(s) == handler[s] \in {"idle", "subscribing"}

\* A stream subscribes once, and the pipeline does not know it before.
SubscribesOnce(s) ==
  /\ NotAsked(s) => Asked(SubscribeOp(s)) = {}
  /\ \A i, j \in Asked(SubscribeOp(s)) : i = j
  /\ NotAsked(s) \/ Asked(SubscribeOp(s)) # {} =>
       ch[s] = <<>> /\ s \notin subs \cup lagged \cup closed

Registered == ~done => NoClosedSend /\ \A s \in Streams : SubscribesOnce(s)

\* A flush is owed only while the timer runs.
Owed ==
  /\ ~dirty => Mirror = term
  /\ ~done /\ subs # {} => (dirty => armed) /\ (subs \cap lagged # {} => armed)

\* A stream ends because the pipeline has, or its Client hung up.
Parting ==
  /\ exited \subseteq closed
  /\ ~done => exited = {}
  /\ ~done => \A s \in Streams : s \in closed \/ Asked(UnsubscribeOp(s)) # {} => s \in gone
  /\ \A s \in Streams : /\ handler[s] = "draining" => done
                        /\ handler[s] = "leaving" => s \in gone
                        /\ handler[s] = "ended" => done \/ s \in gone
  /\ ExitTold

(***************************************************************************)
(* The backlog as a queue.                                                 *)
(***************************************************************************)
\* A longer queue.
LEMMA AtAppend ==
  ASSUME NEW q \in Seq(Ops), NEW op, NEW x
  PROVE  At(Append(q, op), x) = At(q, x) \cup (IF op = x THEN {Len(q) + 1} ELSE {})
<1>1. Len(q) \in Nat /\ Len(Append(q, op)) = Len(q) + 1 /\ Append(q, op)[Len(q) + 1] = op
      /\ \A i \in 1 .. Len(q) : Append(q, op)[i] = q[i]
  OBVIOUS
<1>2. \A i : i \in 1 .. Len(q) + 1 <=> i \in 1 .. Len(q) \/ i = Len(q) + 1
  BY <1>1
<1>3. \A i : i \in At(Append(q, op), x) <=> i \in At(q, x) \/ (i = Len(q) + 1 /\ op = x)
  BY <1>1, <1>2 DEF At
<1> QED
  BY <1>3

\* A shorter one.
LEMMA AtTail ==
  ASSUME NEW q \in Seq(Ops), q # <<>>, NEW x
  PROVE  /\ \A i \in At(Tail(q), x) : i \in Nat /\ i + 1 \in At(q, x)
         /\ Head(q) = x => 1 \in At(q, x)
<1>1. Len(q) \in Nat \ {0} /\ Len(Tail(q)) = Len(q) - 1 /\ Head(q) = q[1]
      /\ \A i \in 1 .. Len(Tail(q)) : Tail(q)[i] = q[i + 1]
  BY HeadTailProperties, EmptySeq
<1> QED
  BY <1>1 DEF At

\* The head of a concatenation is that of its first part.
LEMMA ConcatHead ==
  ASSUME NEW q \in Seq(Ops), NEW r \in Seq(Ops), q # <<>>
  PROVE  /\ q \o r # <<>> /\ Head(q \o r) = Head(q)
         /\ Tail(q \o r) = Tail(q) \o r
<1>1. Len(q) \in Nat \ {0} /\ Len(r) \in Nat /\ Head(q) = q[1] /\ Tail(q) \in Seq(Ops)
      /\ Len(Tail(q)) = Len(q) - 1 /\ \A i \in 1 .. Len(Tail(q)) : Tail(q)[i] = q[i + 1]
  BY HeadTailProperties, EmptySeq
<1>2. /\ q \o r \in Seq(Ops) /\ Len(q \o r) = Len(q) + Len(r)
      /\ \A i \in 1 .. Len(q) + Len(r) : (q \o r)[i] = IF i <= Len(q) THEN q[i] ELSE r[i - Len(q)]
  BY ConcatProperties
<1>3. /\ Tail(q) \o r \in Seq(Ops) /\ Len(Tail(q) \o r) = Len(q) - 1 + Len(r)
      /\ \A i \in 1 .. Len(q) - 1 + Len(r) :
           (Tail(q) \o r)[i] = IF i <= Len(q) - 1 THEN Tail(q)[i] ELSE r[i - (Len(q) - 1)]
  BY <1>1, ConcatProperties
<1>4. q \o r # <<>> /\ Head(q \o r) = (q \o r)[1]
  BY <1>1, <1>2
<1>5. /\ Tail(q \o r) \in Seq(Ops) /\ Len(Tail(q \o r)) = Len(q) + Len(r) - 1
      /\ \A i \in 1 .. Len(q) + Len(r) - 1 : Tail(q \o r)[i] = (q \o r)[i + 1]
  BY <1>2, <1>4, HeadTailProperties
<1>6. ASSUME NEW i \in 1 .. Len(q) + Len(r) - 1
      PROVE  Tail(q \o r)[i] = (Tail(q) \o r)[i]
  <2>1. i + 1 \in 1 .. Len(q) + Len(r) /\ i \in 1 .. Len(q) - 1 + Len(r)
    BY <1>1
  <2>2. CASE i <= Len(q) - 1
    <3>1. Tail(q)[i] = q[i + 1] /\ i + 1 <= Len(q)
      BY <1>1, <2>2
    <3> QED
      BY <1>2, <1>3, <1>5, <2>1, <2>2, <3>1
  <2>3. CASE ~(i <= Len(q) - 1)
    <3>1. ~(i + 1 <= Len(q)) /\ i + 1 - Len(q) = i - (Len(q) - 1)
      BY <1>1, <2>3
    <3> QED
      BY <1>2, <1>3, <1>5, <2>1, <2>3, <3>1
  <2> QED
    BY <2>2, <2>3
<1>7. Tail(q \o r) = Tail(q) \o r
  BY <1>1, <1>3, <1>5, <1>6, SeqEqual
<1>8. (q \o r)[1] = q[1]
  BY <1>1, <1>2
<1> QED
  BY <1>1, <1>4, <1>7, <1>8

\* Appending to the second part appends to the whole.
LEMMA ConcatAppend ==
  ASSUME NEW q \in Seq(Ops), NEW r \in Seq(Ops), NEW op \in Ops
  PROVE  q \o Append(r, op) = Append(q \o r, op)
<1>1. \A t \in Seq(Ops) : Append(t, op) = t \o <<op>>
  <2> SUFFICES ASSUME NEW t \in Seq(Ops) PROVE Append(t, op) = t \o <<op>>
    OBVIOUS
  <2>1. <<op>> \in Seq(Ops) /\ Len(<<op>>) = 1 /\ <<op>>[1] = op
    OBVIOUS
  <2>2. /\ t \o <<op>> \in Seq(Ops) /\ Len(t \o <<op>>) = Len(t) + 1
        /\ \A i \in 1 .. Len(t) + 1 :
             (t \o <<op>>)[i] = IF i <= Len(t) THEN t[i] ELSE <<op>>[i - Len(t)]
    BY <2>1, ConcatProperties
  <2>3. Len(t) \in Nat /\ Append(t, op) \in Seq(Ops) /\ Len(Append(t, op)) = Len(t) + 1
        /\ \A i \in 1 .. Len(t) + 1 : Append(t, op)[i] = IF i <= Len(t) THEN t[i] ELSE op
    OBVIOUS
  <2>4. \A i \in 1 .. Len(t) + 1 : ~(i <= Len(t)) => i - Len(t) = 1
    BY <2>3
  <2>5. \A i \in 1 .. Len(t) + 1 : Append(t, op)[i] = (t \o <<op>>)[i]
    BY <2>1, <2>2, <2>3, <2>4
  <2> QED
    BY <2>2, <2>3, <2>5, SeqEqual
<1>2. q \o r \in Seq(Ops) /\ <<op>> \in Seq(Ops)
  BY ConcatProperties
<1>3. (q \o r) \o <<op>> = q \o (r \o <<op>>)
  BY <1>2, ConcatAssociative
<1> QED
  BY <1>1, <1>2, <1>3

\* The backlog is a queue of ops.
LEMMA BacklogType ==
  ASSUME TypeOK
  PROVE  Backlog \in Seq(Ops)
  BY ConcatProperties DEF TypeOK, Backlog

\* Posting an op appends it, if the pipeline still runs.
LEMMA BacklogPosted ==
  ASSUME TypeOK, NEW op \in Ops, Post(op), UNCHANGED burst
  PROVE  Backlog' = Append(Backlog, op) \/ (done /\ Backlog' = Backlog)
  BY ConcatAppend DEF TypeOK, Backlog, Post, Send

\* Handling one removes it.
LEMMA BacklogHandled ==
  ASSUME TypeOK, burst # <<>>, burst' = Tail(burst), UNCHANGED ops
  PROVE  Backlog # <<>> /\ Head(Backlog) = Head(burst) /\ Backlog' = Tail(Backlog)
  BY ConcatHead DEF TypeOK, Backlog

\* A wakeup only moves ops from the channel to the burst.
LEMMA BacklogTaken ==
  ASSUME TypeOK, LoopPlaced, ReceiveOp \/ Gather
  PROVE  Backlog' = Backlog
<1>1. ops \in Seq(Ops) /\ burst \in Seq(Ops)
  BY DEF TypeOK
<1>2. CASE ReceiveOp
  <2>1. burst = <<>> /\ ops # <<>> /\ Head(ops) \in Ops /\ Tail(ops) \in Seq(Ops)
        /\ burst' = <<Head(ops)>> /\ ops' = Tail(ops)
    BY <1>1, <1>2 DEF ReceiveOp, LoopPlaced
  <2>2. <<Head(ops)>> \o Tail(ops) = ops
    <3>1. /\ SubSeq(ops, 1, Len(ops)) = ops /\ Tail(ops) = SubSeq(ops, 2, Len(ops))
      BY <1>1, <2>1, SubSeqFull, TailIsSubSeq
    <3>2. Len(ops) \in Nat \ {0} /\ Head(ops) = ops[1]
      BY <1>1, <2>1
    <3>3. SubSeq(ops, 1, Len(ops)) = <<ops[1]>> \o SubSeq(ops, 1 + 1, Len(ops))
      BY <1>1, <3>2, SubSeqRecursiveFirst
    <3> QED
      BY <3>1, <3>2, <3>3
  <2>3. <<>> \o ops = ops
    BY <1>1, ConcatEmptySeq
  <2> QED
    BY <2>1, <2>2, <2>3 DEF Backlog
<1>3. CASE Gather
  <2>1. burst' = burst \o ops /\ ops' = <<>> /\ burst \o ops \in Seq(Ops)
    BY <1>1, <1>3, ConcatProperties DEF Gather
  <2> QED
    BY <2>1, ConcatEmptySeq DEF Backlog
<1> QED
  BY <1>2, <1>3

\* So an op of the backlog was there before, or has just been posted.
LEMMA AskedKept ==
  ASSUME Backlog' = Backlog, NEW x
  PROVE  (Asked(x))' = Asked(x)
  BY DEF Asked

-----------------------------------------------------------------------------
(***************************************************************************)
(* The places of the run loop.                                             *)
(***************************************************************************)
\* The handlers, the Clients and the watcher do not move it.
LEMMA LoopStays ==
  ASSUME Caller \/ TimerFires \/ \E s \in Streams : Handler(s) \/ Client(s)
  PROVE  UNCHANGED <<done, pc, burst, batch>>
  BY DEF Handler, Client, Subscribe, Relay, RelayFails, RelayClosed, SeeHangUp, Unsubscribe, SeeDone,
         DrainEmpty, OpenStream, HangUp, ClientReceives, Caller, Feed, CallResize, CallClose,
         CloseReturns, TimerFires, vars, loopVars

\* The loop goes round: select, gather, burst.
LEMMA LoopPlacedStep ==
  ASSUME TypeOK, LoopPlaced, [Next]_allVars
  PROVE  LoopPlaced'
<1> USE DEF LoopPlaced, BurstBounded
<1>1. OpsQueue \in Nat /\ Len(ops) \in Nat /\ Len(ops) <= OpsQueue /\ burst \in Seq(Ops)
      /\ ops \in Seq(Ops) /\ Len(burst) \in Nat
  BY PipelineAssumption DEF TypeOK
<1>2. CASE Caller \/ TimerFires \/ \E s \in Streams : Handler(s) \/ Client(s)
  BY <1>2, LoopStays
<1>3. CASE UNCHANGED allVars
  BY <1>3 DEF allVars, vars
<1>4. CASE ReceiveOp
  <2>1. burst' = <<Head(ops)>> /\ Len(<<Head(ops)>>) = 1 /\ pc' = "gather" /\ done' = done /\ pc = "select"
    BY <1>4 DEF ReceiveOp
  <2> QED
    BY <1>1, <2>1
<1>5. CASE Gather
  <2>1. burst' = burst \o ops /\ Len(burst \o ops) = Len(burst) + Len(ops) /\ Len(burst) = 1
        /\ pc' = "burst" /\ done' = done /\ pc = "gather"
    BY <1>1, <1>5, ConcatProperties DEF Gather
  <2> QED
    BY <1>1, <2>1
<1>6. CASE BurstOutput \/ OpResizeSame \/ OpResize \/ OpSubscribe \/ OpUnsubscribe
  <2>1. burst # <<>> /\ burst' = Tail(burst) /\ pc = "burst" /\ UNCHANGED <<pc, done>>
    BY <1>6 DEF BurstOutput, OpResizeSame, OpResize, OpSubscribe, OpUnsubscribe, ControlOp, NextOpIs
  <2>2. Len(burst') = Len(burst) - 1
    BY <1>1, <2>1
  <2> QED
    BY <1>1, <2>1, <2>2
<1>7. CASE WriteBatch \/ EndBurst
  BY <1>7 DEF WriteBatch, EndBurst
<1>8. CASE OpClose
  <2>1. burst' = <<>> /\ Len(<<>>) = 0 /\ pc' = "returned" /\ done'
    BY <1>8 DEF OpClose
  <2> QED
    BY <1>1, <2>1
<1> QED
  BY <1>2, <1>3, <1>4, <1>5, <1>6, <1>7, <1>8 DEF Next, PipelineStep, RunLoop

-----------------------------------------------------------------------------
(***************************************************************************)
(* A stream subscribes once.                                               *)
(***************************************************************************)
\* Steps that ask for nothing new and register nobody.
LEMMA OnceKept ==
  ASSUME NEW s \in Streams, SubscribesOnce(s),
         (Asked(SubscribeOp(s)))' = Asked(SubscribeOp(s)), (NotAsked(s))' => NotAsked(s),
         ch[s] = <<>> => ch'[s] = <<>> \/ s \in subs,
         subs' \subseteq subs, s \in lagged' => s \in lagged \cup subs,
         s \in closed' => s \in closed \cup subs
  PROVE  (SubscribesOnce(s))'
<1>1. (SubscribeOp(s))' = SubscribeOp(s)
  BY DEF SubscribeOp
<1> QED
  BY <1>1 DEF SubscribesOnce

\* Another op is posted or handled.
LEMMA OnceOther ==
  ASSUME TypeOK, NEW s \in Streams, SubscribesOnce(s), NEW op \in Ops, op # SubscribeOp(s),
         \/ Backlog' = Append(Backlog, op)
         \/ Backlog # <<>> /\ Head(Backlog) = op /\ Backlog' = Tail(Backlog),
         (NotAsked(s))' => NotAsked(s),
         ch[s] = <<>> => ch'[s] = <<>> \/ s \in subs,
         s \in subs' => s \in subs, s \in lagged' => s \in lagged \cup subs,
         s \in closed' => s \in closed \cup subs
  PROVE  (SubscribesOnce(s))'
<1>1. PICK x : x = SubscribeOp(s)
  OBVIOUS
<1>2. Backlog \in Seq(Ops)
  BY BacklogType
<1>3. CASE Backlog' = Append(Backlog, op)
  <2>1. At(Append(Backlog, op), x) = At(Backlog, x)
    <3>1. op # x
      BY <1>1
    <3>2. At(Append(Backlog, op), x) = At(Backlog, x) \cup (IF op = x THEN {Len(Backlog) + 1} ELSE {})
      BY <1>2, AtAppend
    <3> QED
      BY <3>1, <3>2
  <2>2. (Asked(x))' = Asked(x)
    BY <1>3, <2>1 DEF Asked
  <2> QED
    BY <1>1, <2>2 DEF SubscribesOnce
<1>4. CASE Backlog # <<>> /\ Backlog' = Tail(Backlog)
  <2>1. \A i \in (Asked(x))' : i \in Nat /\ i + 1 \in Asked(x)
    BY <1>2, <1>4, AtTail DEF Asked
  <2>2. \A i, j \in (Asked(x))' : i = j
    <3> SUFFICES ASSUME NEW i \in (Asked(x))', NEW j \in (Asked(x))' PROVE i = j
      OBVIOUS
    <3>1. i \in Nat /\ j \in Nat /\ i + 1 = j + 1
      BY <1>1, <2>1 DEF SubscribesOnce
    <3> QED
      BY <3>1
  <2>3. (Asked(x))' # {} => Asked(x) # {}
    BY <2>1
  <2> QED
    BY <1>1, <2>2, <2>3 DEF SubscribesOnce
<1> QED
  BY <1>3, <1>4

\* Its own subscribe is posted.
LEMMA OncePosted ==
  ASSUME TypeOK, NEW s \in Streams, SubscribesOnce(s), NotAsked(s),
         Backlog' = Append(Backlog, SubscribeOp(s)), UNCHANGED subVars, ~(NotAsked(s))'
  PROVE  (SubscribesOnce(s))'
<1>1. PICK x : x = SubscribeOp(s)
  OBVIOUS
<1>2. Asked(x) = {} /\ Backlog \in Seq(Ops)
  BY <1>1, BacklogType DEF SubscribesOnce
<1>3. (Asked(x))' = {Len(Backlog) + 1}
  BY <1>1, <1>2, AtAppend DEF Asked
<1> QED
  BY <1>1, <1>3 DEF SubscribesOnce, subVars

\* And handled: it is not asked for any more.
LEMMA OnceHandled ==
  ASSUME TypeOK, NEW s \in Streams, SubscribesOnce(s), UNCHANGED handler,
         Backlog # <<>>, Head(Backlog) = SubscribeOp(s), Backlog' = Tail(Backlog)
  PROVE  (SubscribesOnce(s))'
<1>1. PICK x : x = SubscribeOp(s)
  OBVIOUS
<1>2. Backlog \in Seq(Ops)
  BY BacklogType
<1>3. 1 \in Asked(x) /\ \A i \in (Asked(x))' : i \in Nat /\ i + 1 \in Asked(x) /\ i # 0
  <2>1. \A i \in (Asked(x))' : i # 0
    BY DEF Asked, At
  <2> QED
    BY <1>1, <1>2, <2>1, AtTail DEF Asked
<1>4. (Asked(x))' = {}
  <2> SUFFICES ASSUME NEW i \in (Asked(x))' PROVE FALSE
    OBVIOUS
  <2>1. i \in Nat /\ i # 0 /\ i + 1 = 1
    BY <1>1, <1>3 DEF SubscribesOnce
  <2> QED
    BY <2>1
<1>5. ~(NotAsked(s))'
  BY <1>1, <1>3 DEF SubscribesOnce, NotAsked
<1> QED
  BY <1>1, <1>4, <1>5 DEF SubscribesOnce

\* The op a control action handles.
LEMMA HeadOp ==
  ASSUME TypeOK, burst # <<>>
  PROVE  /\ Head(burst) \in Ops
         /\ Head(burst).type = "subscribe" =>
              Head(burst).sub \in Streams /\ Head(burst) = SubscribeOp(Head(burst).sub)
         /\ Head(burst).type = "unsubscribe" =>
              Head(burst).sub \in Streams /\ Head(burst) = UnsubscribeOp(Head(burst).sub)
<1>1. Head(burst) \in Ops
  BY HeadTailProperties DEF TypeOK
<1> QED
  BY <1>1 DEF Ops, SubscribeOp, UnsubscribeOp

\* The ops of the watcher.
LEMMA CallerOps ==
  ASSUME Caller
  PROVE  \/ done /\ UNCHANGED <<ops, burst>>
         \/ \E op \in Ops : /\ op.type \in {"output", "resize", "close"}
                            /\ Post(op) /\ UNCHANGED burst
<1> USE DEF loopVars
<1>1. ASSUME NEW e \in Data, Feed(e)
      PROVE  OutputOp(e) \in Ops /\ OutputOp(e).type = "output" /\ Post(OutputOp(e)) /\ UNCHANGED burst
  BY <1>1, PipelineAssumption DEF Feed, OutputOp, Ops
<1>2. ASSUME NEW sz \in Sizes, CallResize(sz)
      PROVE  ResizeOp(sz) \in Ops /\ ResizeOp(sz).type = "resize" /\ Post(ResizeOp(sz)) /\ UNCHANGED burst
  BY <1>2 DEF CallResize, ResizeOp, Ops
<1>3. ASSUME NEW x \in BOOLEAN, CallClose(x)
      PROVE  CloseOp(x) \in Ops /\ CloseOp(x).type = "close" /\ Post(CloseOp(x)) /\ UNCHANGED burst
  BY <1>3 DEF CallClose, CloseOp, Ops
<1> QED
  BY <1>1, <1>2, <1>3 DEF Caller, CloseReturns

\* A flush only touches registered streams.
LEMMA FlushElsewhere ==
  ASSUME NEW s \in Streams
  PROVE  /\ s \notin subs => FlushCh[s] = ch[s]
         /\ s \in FlushLagged => s \in lagged \cup subs
  BY DEF FlushCh, FlushSent, FlushOwed, FlushLagged

\* Nobody registers a stream but the one subscribe it posts.
LEMMA OncePipeline ==
  ASSUME TypeOK, LoopPlaced, Registered, RunLoop \/ TimerFires \/ Caller, UNCHANGED handler,
         ~done', NEW s \in Streams
  PROVE  (SubscribesOnce(s))'
<1>1. ~done /\ SubscribesOnce(s) /\ (NotAsked(s) <=> (NotAsked(s))')
  <2>1. ~done
    BY DEF RunLoop, TimerFires, Caller, ReceiveOp, Gather, BurstOutput, WriteBatch, OpResizeSame,
           OpResize, OpSubscribe, OpUnsubscribe, OpClose, EndBurst, Feed, CallResize, CallClose,
           CloseReturns
  <2> QED
    BY <2>1 DEF Registered, NotAsked
<1>2. CASE Caller
  <2>1. UNCHANGED subVars
    BY <1>2 DEF Caller, Feed, CallResize, CallClose, CloseReturns
  <2>2. CASE done /\ UNCHANGED <<ops, burst>>
    BY <1>1, <2>2
  <2>3. ASSUME NEW op \in Ops, op.type \in {"output", "resize", "close"}, Post(op), UNCHANGED burst
        PROVE  (SubscribesOnce(s))'
    <3>1. Backlog' = Append(Backlog, op) /\ op # SubscribeOp(s)
      BY <1>1, <2>3, BacklogPosted DEF SubscribeOp
    <3> QED
      BY <1>1, <2>1, <3>1, OnceOther DEF subVars
  <2> QED
    BY <1>2, <2>2, <2>3, CallerOps
<1>3. CASE ReceiveOp \/ Gather \/ WriteBatch \/ EndBurst
  <2>1. Backlog' = Backlog
    BY <1>3, BacklogTaken DEF WriteBatch, EndBurst, Backlog
  <2>2. UNCHANGED subVars
    BY <1>3 DEF ReceiveOp, Gather, WriteBatch, EndBurst
  <2> QED
    BY <1>1, <2>1, <2>2, AskedKept, OnceKept DEF subVars, SubscribeOp
<1>4. CASE TimerFires
  <2>1. Backlog' = Backlog /\ UNCHANGED <<subs, closed>> /\ ch' = FlushCh /\ lagged' = FlushLagged
    BY <1>4 DEF TimerFires, loopVars, Backlog
  <2> QED
    BY <1>1, <2>1, AskedKept, OnceKept, FlushElsewhere DEF SubscribeOp
<1>5. CASE BurstOutput \/ OpResizeSame \/ OpResize \/ OpUnsubscribe
  <2>1. /\ burst # <<>> /\ burst' = Tail(burst) /\ UNCHANGED ops
        /\ Head(burst).type \in {"output", "resize", "unsubscribe"}
    BY <1>5 DEF BurstOutput, OpResizeSame, OpResize, OpUnsubscribe, ControlOp, NextOpIs
  <2>2. /\ s \notin subs => ch'[s] = ch[s]
        /\ subs' \subseteq subs /\ lagged' \subseteq lagged \cup subs /\ closed' \subseteq closed \cup subs
    BY <1>5 DEF BurstOutput, OpResizeSame, OpResize, OpUnsubscribe, subVars
  <2>3. PICK op \in Ops : op = Head(burst) /\ op # SubscribeOp(s)
    BY <2>1, HeadOp DEF SubscribeOp
  <2>4. Backlog # <<>> /\ Head(Backlog) = op /\ Backlog' = Tail(Backlog)
    BY <2>1, <2>3, BacklogHandled
  <2>5. ch[s] = <<>> => ch'[s] = <<>> \/ s \in subs
    BY <2>2
  <2> QED
    BY <1>1, <2>2, <2>3, <2>4, <2>5, OnceOther
<1>6. CASE OpSubscribe
  <2>1. /\ burst # <<>> /\ burst' = Tail(burst) /\ UNCHANGED <<ops, closed>>
        /\ Head(burst).type = "subscribe" /\ lagged' = FlushLagged
        /\ subs' = subs \cup {Head(burst).sub}
        /\ ch' = [FlushCh EXCEPT ![Head(burst).sub] = Append(@, SyncUpdate(FlushShadow, FlushCursor))]
    BY <1>6 DEF OpSubscribe, ControlOp, NextOpIs
  <2>2. Head(burst).sub \in Streams /\ Head(burst) = SubscribeOp(Head(burst).sub) /\ Head(burst) \in Ops
    BY <2>1, HeadOp
  <2>3. Backlog # <<>> /\ Head(Backlog) = Head(burst) /\ Backlog' = Tail(Backlog)
    BY <2>1, BacklogHandled
  <2>4. CASE Head(burst).sub = s
    BY <1>1, <2>2, <2>3, <2>4, OnceHandled
  <2>5. CASE Head(burst).sub # s
    <3>1. PICK op \in Ops : op = Head(burst) /\ op # SubscribeOp(s)
      BY <2>2, <2>5 DEF SubscribeOp
    <3>2. ch'[s] = FlushCh[s]
      BY <2>1, <2>2, <2>5 DEF FlushCh
    <3> QED
      BY <1>1, <2>1, <2>3, <2>5, <3>1, <3>2, OnceOther, FlushElsewhere
  <2> QED
    BY <2>4, <2>5
<1>7. CASE OpClose
  BY <1>7 DEF OpClose
<1> QED
  BY <1>2, <1>3, <1>4, <1>5, <1>6, <1>7 DEF RunLoop

\* A handler posts one subscribe, and only of its own stream.
LEMMA OnceStream ==
  ASSUME StreamTypeOK, Registered, NEW r \in Streams, Handler(r) \/ Client(r),
         ~done', NEW s \in Streams
  PROVE  (SubscribesOnce(s))'
<1>0. TypeOK /\ handler \in [Streams -> HandlerStates] /\ ch \in [Streams -> Seq(Updates)]
  BY DEF StreamTypeOK, TypeOK
<1>1. ~done /\ SubscribesOnce(s)
  BY LoopStays DEF Registered
<1>2. CASE OpenStream(r) \/ RelayClosed(r) \/ SeeHangUp(r) \/ SeeDone(r) \/ DrainEmpty(r) \/ HangUp(r)
           \/ ClientReceives(r) \/ Relay(r) \/ RelayFails(r)
  <2>1. Backlog' = Backlog /\ UNCHANGED <<subs, lagged, closed>>
    BY <1>2 DEF OpenStream, RelayClosed, SeeHangUp, SeeDone, DrainEmpty, HangUp, ClientReceives, Relay,
                RelayFails, vars, loopVars, Backlog
  <2>2. (NotAsked(s))' => NotAsked(s)
    BY <1>0, <1>2 DEF OpenStream, RelayClosed, SeeHangUp, SeeDone, DrainEmpty, HangUp, ClientReceives,
                Relay, RelayFails, GoTo, NotAsked
  <2>3. ch[s] = <<>> => ch'[s] = <<>>
    BY <1>0, <1>2 DEF OpenStream, RelayClosed, SeeHangUp, SeeDone, DrainEmpty, HangUp, ClientReceives,
                Relay, RelayFails, vars
  <2> QED
    BY <1>1, <2>1, <2>2, <2>3, AskedKept, OnceKept DEF SubscribeOp
<1>3. CASE Unsubscribe(r)
  <2>1. /\ Post(UnsubscribeOp(r)) /\ UNCHANGED subVars /\ UNCHANGED burst
        /\ handler' = [handler EXCEPT ![r] = "ended"]
    BY <1>3 DEF Unsubscribe, GoTo, loopVars
  <2>2. PICK op \in Ops : op = UnsubscribeOp(r) /\ op # SubscribeOp(s)
    <3>1. UnsubscribeOp(r) \in Ops
      BY DEF UnsubscribeOp, Ops
    <3>2. UnsubscribeOp(r).type # SubscribeOp(s).type
      BY DEF UnsubscribeOp, SubscribeOp
    <3> QED
      BY <3>1, <3>2
  <2>3. Backlog' = Append(Backlog, op)
    BY <1>0, <1>1, <2>1, <2>2, BacklogPosted
  <2>4. (NotAsked(s))' => NotAsked(s)
    BY <1>0, <2>1 DEF NotAsked
  <2> QED
    BY <1>0, <1>1, <2>1, <2>2, <2>3, <2>4, OnceOther DEF subVars
<1>4. CASE Subscribe(r)
  <2>1. /\ Post(SubscribeOp(r)) /\ UNCHANGED subVars /\ UNCHANGED burst
        /\ handler[r] = "subscribing" /\ handler' = [handler EXCEPT ![r] = "relaying"]
    BY <1>4 DEF Subscribe, GoTo, loopVars
  <2>2. PICK op \in Ops : op = SubscribeOp(r)
    BY DEF SubscribeOp, Ops
  <2>3. Backlog' = Append(Backlog, op)
    BY <1>0, <1>1, <2>1, <2>2, BacklogPosted
  <2>4. CASE r # s
    <3>1. (NotAsked(s))' => NotAsked(s)
      BY <1>0, <2>1, <2>4 DEF NotAsked
    <3>2. op # SubscribeOp(s)
      BY <2>2, <2>4 DEF SubscribeOp
    <3> QED
      BY <1>0, <1>1, <2>1, <2>3, <3>1, <3>2, OnceOther DEF subVars
  <2>5. CASE r = s
    <3>1. NotAsked(s) /\ ~(NotAsked(s))'
      BY <1>0, <2>1, <2>5 DEF NotAsked
    <3> QED
      BY <1>0, <1>1, <2>1, <2>2, <2>3, <2>5, <3>1, OncePosted
  <2> QED
    BY <2>4, <2>5
<1> QED
  BY <1>2, <1>3, <1>4 DEF Handler, Client

\* Registered streams are open, and every stream subscribes once.
LEMMA RegisteredStep ==
  ASSUME StreamTypeOK, LoopPlaced, Registered, [Next]_allVars
  PROVE  Registered'
<1> SUFFICES ASSUME ~done' PROVE NoClosedSend' /\ \A s \in Streams : (SubscribesOnce(s))'
  BY DEF Registered
<1>0. TypeOK
  BY DEF StreamTypeOK
<1>1. CASE PipelineStep
  <2>1. ~done /\ subs \cap closed = {}
    <3>1. ~done
      BY <1>1 DEF PipelineStep, RunLoop, TimerFires, Caller, ReceiveOp, Gather, BurstOutput, WriteBatch,
             OpResizeSame, OpResize, OpSubscribe, OpUnsubscribe, OpClose, EndBurst, Feed, CallResize,
             CallClose, CloseReturns
    <3> QED
      BY <3>1 DEF Registered, NoClosedSend
  <2>2. \A s \in Streams : (SubscribesOnce(s))'
    BY <1>0, <1>1, OncePipeline DEF PipelineStep, streamVars
  <2>3. subs' \cap closed' = {}
    <3>1. CASE OpSubscribe
      <4>1. /\ burst # <<>> /\ Head(burst).type = "subscribe" /\ burst' = Tail(burst) /\ UNCHANGED ops
            /\ subs' = subs \cup {Head(burst).sub} /\ closed' = closed
        BY <3>1 DEF OpSubscribe, ControlOp, NextOpIs
      <4>2. Head(burst).sub \in Streams /\ Head(burst) = SubscribeOp(Head(burst).sub)
        BY <1>0, <4>1, HeadOp
      <4>3. Asked(SubscribeOp(Head(burst).sub)) # {}
        BY <1>0, <4>1, <4>2, BacklogHandled, BacklogType, AtTail DEF Asked
      <4>4. Head(burst).sub \notin closed
        BY <2>1, <4>2, <4>3 DEF Registered, SubscribesOnce
      <4> QED
        BY <2>1, <4>1, <4>4
    <3>2. CASE OpUnsubscribe
      BY <2>1, <3>2 DEF OpUnsubscribe
    <3>3. CASE OpClose
      BY <3>3 DEF OpClose
    <3>4. CASE ~(OpSubscribe \/ OpUnsubscribe \/ OpClose)
      BY <1>1, <2>1, <3>4 DEF PipelineStep, RunLoop, TimerFires, Caller, ReceiveOp, Gather, BurstOutput,
             WriteBatch, OpResizeSame, OpResize, EndBurst, Feed, CallResize, CallClose, CloseReturns,
             subVars
    <3> QED
      BY <3>1, <3>2, <3>3, <3>4
  <2> QED
    BY <2>2, <2>3 DEF NoClosedSend
<1>2. ASSUME NEW r \in Streams, Handler(r) \/ Client(r)
      PROVE  NoClosedSend' /\ \A s \in Streams : (SubscribesOnce(s))'
  <2>1. ~done
    BY <1>2, LoopStays
  <2>2. UNCHANGED <<subs, closed>>
    BY <1>2 DEF Handler, Client, Subscribe, Relay, RelayFails, RelayClosed, SeeHangUp, Unsubscribe,
           SeeDone, DrainEmpty, OpenStream, HangUp, ClientReceives, vars, subVars
  <2> QED
    BY <1>2, <2>1, <2>2, OnceStream DEF Registered, NoClosedSend
<1>3. CASE UNCHANGED allVars
  BY <1>3 DEF allVars, vars, streamVars, Registered, NoClosedSend, SubscribesOnce, NotAsked, Asked,
              Backlog, SubscribeOp
<1> QED
  BY <1>1, <1>2, <1>3 DEF Next

-----------------------------------------------------------------------------
(***************************************************************************)
(* What a flush owes.                                                      *)
(***************************************************************************)
\* A flush leaves the shadow equal to the screen.
LEMMA FlushSettles ==
  ASSUME PipeInv, ~dirty => Mirror = term
  PROVE  [grid |-> FlushShadow, cursor |-> FlushCursor] = term
<1>1. /\ term.grid \in PaneGrids /\ shadow \in PaneGrids /\ SizeOf(shadow) = SizeOf(term.grid)
      /\ term = [grid |-> term.grid, cursor |-> term.cursor]
  BY DEF PipeInv, TypeOK, ShadowFits, Screens, Views, PaneGrids
<1>2. CASE FlushChanged
  BY <1>1, <1>2 DEF FlushShadow, FlushCursor
<1>3. CASE ~FlushChanged /\ ~dirty
  BY <1>3 DEF FlushShadow, FlushCursor, Mirror
<1>4. CASE ~FlushChanged /\ dirty
  <2>1. DOMAIN Diff(shadow, term.grid) = {} /\ term.cursor = cursor
    BY <1>4 DEF FlushChanged, FlushDamage
  <2>2. shadow = term.grid
    BY <1>1, <2>1, PaneGrid, EmptyDiff
  <2> QED
    BY <1>1, <1>4, <2>1, <2>2 DEF FlushShadow, FlushCursor
<1> QED
  BY <1>2, <1>3, <1>4

\* The timer runs until the flush is done and everybody has it.
LEMMA OwedStep ==
  ASSUME StreamInv, LoopPlaced, Registered, Owed, [Next]_allVars
  PROVE  Owed'
<1> USE DEF Owed
<1>0. PipeInv /\ TypeOK
  BY DEF StreamInv, StreamTypeOK, PipeInv
<1>1. CASE ReceiveOp \/ Gather \/ BurstOutput \/ OpResizeSame \/ EndBurst \/ Caller
  <2>1. UNCHANGED <<screenVars, subVars, done>>
    BY <1>1 DEF ReceiveOp, Gather, BurstOutput, OpResizeSame, EndBurst, Caller, Feed, CallResize,
           CallClose, CloseReturns
  <2> QED
    BY <2>1 DEF screenVars, subVars, Mirror
<1>2. CASE WriteBatch \/ OpResize
  <2>1. dirty' = TRUE /\ armed' = Arm /\ UNCHANGED <<subs, done>>
    BY <1>2 DEF WriteBatch, OpResize, subVars
  <2> QED
    BY <2>1 DEF Arm
<1>3. CASE OpUnsubscribe
  BY <1>3 DEF OpUnsubscribe, screenVars, Mirror
<1>4. CASE OpClose
  BY <1>4 DEF OpClose, screenVars, Mirror
<1>5. CASE TimerFires
  <2>1. /\ armed' = FlushStillLagged /\ dirty' = FALSE /\ UNCHANGED <<subs, term>>
        /\ lagged' = FlushLagged /\ shadow' = FlushShadow /\ cursor' = FlushCursor
    BY <1>5 DEF TimerFires
  <2>2. subs \cap FlushLagged # {} => FlushStillLagged
    BY DEF FlushLagged, FlushStillLagged, FlushOwed, FlushSent
  <2>3. Mirror' = term
    BY <1>0, <2>1, FlushSettles DEF Mirror
  <2> QED
    BY <2>1, <2>2, <2>3
<1>6. CASE OpSubscribe
  <2>1. /\ armed' = (armed \/ FlushStillLagged) /\ dirty' = FALSE /\ UNCHANGED <<term, done>>
        /\ lagged' = FlushLagged /\ shadow' = FlushShadow /\ cursor' = FlushCursor
        /\ subs' = subs \cup {Head(burst).sub}
        /\ burst # <<>> /\ Head(burst).type = "subscribe" /\ burst' = Tail(burst) /\ UNCHANGED ops
        /\ pc = "burst"
    BY <1>6 DEF OpSubscribe, ControlOp, NextOpIs
  <2>2. subs \cap FlushLagged # {} => FlushStillLagged
    BY DEF FlushLagged, FlushStillLagged, FlushOwed, FlushSent
  <2>3. Mirror' = term
    BY <1>0, <2>1, FlushSettles DEF Mirror
  <2>4. Head(burst).sub \in Streams /\ Head(burst).sub \notin subs \cup lagged
    <3>1. Head(burst).sub \in Streams /\ Head(burst) = SubscribeOp(Head(burst).sub)
      BY <1>0, <2>1, HeadOp
    <3>2. Asked(SubscribeOp(Head(burst).sub)) # {}
      BY <1>0, <2>1, <3>1, BacklogHandled, BacklogType, AtTail DEF Asked
    <3>3. ~done
      BY <2>1 DEF LoopPlaced
    <3> QED
      BY <3>1, <3>2, <3>3 DEF Registered, SubscribesOnce
  <2>5. Head(burst).sub \notin FlushLagged
    BY <2>4, FlushElsewhere
  <2> QED
    BY <2>1, <2>2, <2>3, <2>5
<1>7. CASE \E s \in Streams : Handler(s) \/ Client(s)
  <2>1. UNCHANGED <<screenVars, subs, lagged, done>>
    BY <1>7 DEF Handler, Client, Subscribe, Relay, RelayFails, RelayClosed, SeeHangUp, Unsubscribe,
           SeeDone, DrainEmpty, OpenStream, HangUp, ClientReceives, vars, screenVars, subVars
  <2> QED
    BY <2>1 DEF screenVars, Mirror
<1>8. CASE UNCHANGED allVars
  BY <1>8 DEF allVars, vars, Mirror
<1> QED
  BY <1>1, <1>2, <1>3, <1>4, <1>5, <1>6, <1>7, <1>8 DEF Next, PipelineStep, RunLoop

-----------------------------------------------------------------------------
(***************************************************************************)
(* How a stream ends.                                                      *)
(***************************************************************************)
\* Only a handler asks to unsubscribe.
LEMMA AskedPipeline ==
  ASSUME TypeOK, LoopPlaced, RunLoop \/ TimerFires \/ Caller, ~done', NEW s \in Streams
  PROVE  (Asked(UnsubscribeOp(s)))' # {} => Asked(UnsubscribeOp(s)) # {}
<1>a. PICK x : x = UnsubscribeOp(s)
  OBVIOUS
<1>b. Backlog \in Seq(Ops)
  BY BacklogType
<1>1. ASSUME Backlog' = Backlog PROVE (Asked(x))' # {} => Asked(x) # {}
  BY <1>1, AskedKept
<1>2. ASSUME burst # <<>>, burst' = Tail(burst), UNCHANGED ops
      PROVE  (Asked(x))' # {} => Asked(x) # {}
  <2>1. Backlog # <<>> /\ Backlog' = Tail(Backlog)
    BY <1>2, BacklogHandled
  <2> QED
    BY <1>b, <2>1, AtTail DEF Asked
<1>3. CASE Caller
  <2>1. CASE done /\ UNCHANGED <<ops, burst>>
    BY <1>1, <1>a, <2>1 DEF Backlog, UnsubscribeOp
  <2>2. ASSUME NEW op \in Ops, op.type \in {"output", "resize", "close"}, Post(op), UNCHANGED burst
        PROVE  (Asked(x))' # {} => Asked(x) # {}
    <3>1. Backlog' = Append(Backlog, op) \/ Backlog' = Backlog
      BY <2>2, BacklogPosted
    <3>2. op # x
      BY <1>a, <2>2 DEF UnsubscribeOp
    <3>3. At(Append(Backlog, op), x) = At(Backlog, x) \cup (IF op = x THEN {Len(Backlog) + 1} ELSE {})
      BY <1>b, AtAppend
    <3> QED
      BY <1>1, <3>1, <3>2, <3>3 DEF Asked
  <2> QED
    BY <1>3, <1>a, <2>1, <2>2, CallerOps DEF UnsubscribeOp
<1>4. CASE ReceiveOp \/ Gather \/ WriteBatch \/ EndBurst \/ TimerFires
  <2>1. Backlog' = Backlog
    BY <1>4, BacklogTaken DEF WriteBatch, EndBurst, TimerFires, loopVars, Backlog
  <2> QED
    BY <1>1, <1>a, <2>1 DEF UnsubscribeOp
<1>5. CASE BurstOutput \/ OpResizeSame \/ OpResize \/ OpSubscribe \/ OpUnsubscribe
  <2>1. burst # <<>> /\ burst' = Tail(burst) /\ UNCHANGED ops
    BY <1>5 DEF BurstOutput, OpResizeSame, OpResize, OpSubscribe, OpUnsubscribe, ControlOp, NextOpIs
  <2> QED
    BY <1>2, <1>a, <2>1 DEF UnsubscribeOp
<1>6. CASE OpClose
  BY <1>6 DEF OpClose
<1> QED
  BY <1>3, <1>4, <1>5, <1>6 DEF RunLoop

\* The pipeline closes a stream that unsubscribed, or all of them at its end.
LEMMA PartingPipeline ==
  ASSUME TypeOK, LoopPlaced, Parting, RunLoop \/ TimerFires \/ Caller, UNCHANGED streamVars
  PROVE  Parting'
<1> USE DEF Parting, ExitTold, streamVars
<1>1. CASE OpUnsubscribe
  <2>1. /\ burst # <<>> /\ Head(burst).type = "unsubscribe" /\ burst' = Tail(burst) /\ UNCHANGED ops
        /\ closed' \subseteq closed \cup {Head(burst).sub} /\ closed \subseteq closed'
        /\ UNCHANGED <<done, exited>> /\ pc = "burst"
    BY <1>1 DEF OpUnsubscribe, ControlOp, NextOpIs
  <2>2. Head(burst).sub \in Streams /\ Head(burst) = UnsubscribeOp(Head(burst).sub)
    BY <2>1, HeadOp
  <2>3. Asked(UnsubscribeOp(Head(burst).sub)) # {}
    BY <2>1, <2>2, BacklogHandled, BacklogType, AtTail DEF Asked
  <2>4. ~done /\ Head(burst).sub \in gone
    BY <2>1, <2>2, <2>3 DEF LoopPlaced
  <2>5. \A s \in Streams : (Asked(UnsubscribeOp(s)))' # {} => Asked(UnsubscribeOp(s)) # {}
    BY <1>1, <2>1, <2>4, AskedPipeline DEF RunLoop
  <2> QED
    BY <2>1, <2>4, <2>5
<1>2. CASE OpClose
  <2>1. done' /\ closed' = closed \cup subs /\ exited' \subseteq exited \cup subs /\ ~done
    BY <1>2 DEF OpClose, ControlOp, NextOpIs, LoopPlaced
  <2>2. \A s \in Streams \ gone : handler[s] # "ended"
    BY <2>1
  <2>3. exited' \subseteq Streams
    BY <2>1 DEF TypeOK
  <2> QED
    BY <2>1, <2>2, <2>3
<1>3. CASE ~(OpUnsubscribe \/ OpClose)
  <2>1. UNCHANGED <<done, closed, exited>>
    BY <1>3 DEF RunLoop, TimerFires, Caller, ReceiveOp, Gather, BurstOutput, WriteBatch, OpResizeSame,
           OpResize, OpSubscribe, EndBurst, Feed, CallResize, CallClose, CloseReturns, subVars
  <2>2. ~done => \A s \in Streams : (Asked(UnsubscribeOp(s)))' # {} => Asked(UnsubscribeOp(s)) # {}
    BY <2>1, AskedPipeline
  <2> QED
    BY <2>1, <2>2
<1> QED
  BY <1>1, <1>2, <1>3

\* The last message stays last until it is received.
LEMMA LastOfTail ==
  ASSUME NEW S, NEW q \in Seq(S), q # <<>>
  PROVE  \/ Tail(q) = <<>> /\ Head(q) = q[Len(q)]
         \/ Tail(q) # <<>> /\ Tail(q)[Len(Tail(q))] = q[Len(q)]
<1>1. /\ Len(q) \in Nat \ {0} /\ Head(q) = q[1] /\ Len(Tail(q)) = Len(q) - 1 /\ Tail(q) \in Seq(S)
      /\ \A i \in 1 .. Len(Tail(q)) : Tail(q)[i] = q[i + 1]
  BY HeadTailProperties, EmptySeq
<1>2. CASE Len(q) = 1
  <2>1. Len(Tail(q)) = 0
    BY <1>1, <1>2
  <2>2. Tail(q) = <<>>
    BY <1>1, <2>1, EmptySeq
  <2> QED
    BY <1>1, <1>2, <2>2
<1>3. CASE Len(q) # 1
  <2>1. Len(q) - 1 \in 1 .. Len(Tail(q)) /\ (Len(q) - 1) + 1 = Len(q)
    BY <1>1, <1>3
  <2>2. Tail(q) # <<>>
    <3>1. Len(Tail(q)) # 0
      BY <1>1, <1>3
    <3> QED
      BY <3>1, EmptySeq
  <2>3. Tail(q)[Len(q) - 1] = q[(Len(q) - 1) + 1]
    BY <1>1, <2>1
  <2> QED
    BY <1>1, <2>1, <2>2, <2>3
<1> QED
  BY <1>2, <1>3

\* What a Client has been told of the Pane's exit.
Told(s) == \/ s \in sawExit /\ wire[s] = <<>>
           \/ wire[s] # <<>> /\ wire[s][Len(wire[s])].kind = "exited"

\* A handler ends after its Client is told, unless the Client hung up.
LEMMA PartingStream ==
  ASSUME StreamTypeOK, Parting, NEW r \in Streams, Handler(r) \/ Client(r)
  PROVE  Parting'
<1>0. /\ TypeOK /\ handler \in [Streams -> HandlerStates] /\ wire \in [Streams -> Seq(Messages)]
      /\ exited \subseteq Streams
  BY DEF StreamTypeOK, TypeOK
<1>1. UNCHANGED <<done, closed, exited, burst>> /\ gone \subseteq gone' /\ sawExit \subseteq sawExit'
  BY DEF Handler, Client, Subscribe, Relay, RelayFails, RelayClosed, SeeHangUp, Unsubscribe, SeeDone,
         DrainEmpty, OpenStream, HangUp, ClientReceives, vars, loopVars, subVars
<1>2. \A s \in Streams : s # r => handler'[s] = handler[s] /\ wire'[s] = wire[s]
  BY <1>0 DEF Handler, Client, Subscribe, Relay, RelayFails, RelayClosed, SeeHangUp, Unsubscribe,
         SeeDone, DrainEmpty, OpenStream, HangUp, ClientReceives, GoTo
<1>3. ASSUME ~done, NEW s \in Streams, (Asked(UnsubscribeOp(s)))' # {}
      PROVE  Asked(UnsubscribeOp(s)) # {} \/ s \in gone
  <2>1. CASE Backlog' = Backlog
    BY <1>3, <2>1 DEF Asked, UnsubscribeOp
  <2>2. CASE Subscribe(r) \/ Unsubscribe(r)
    <3>1. PICK op \in Ops : Post(op) /\ (op = UnsubscribeOp(s) => s \in gone)
      <4>1. SubscribeOp(r) \in Ops /\ UnsubscribeOp(r) \in Ops
        BY DEF SubscribeOp, UnsubscribeOp, Ops
      <4>2. SubscribeOp(r).type # UnsubscribeOp(s).type
        BY DEF SubscribeOp, UnsubscribeOp
      <4>3. UnsubscribeOp(r) = UnsubscribeOp(s) => r = s
        BY DEF UnsubscribeOp
      <4>4. Unsubscribe(r) => r \in gone
        BY DEF Unsubscribe, Parting
      <4> QED
        BY <2>2, <4>1, <4>2, <4>3, <4>4 DEF Subscribe, Unsubscribe
    <3>2. Backlog' = Append(Backlog, op)
      BY <1>0, <1>1, <1>3, <3>1, BacklogPosted
    <3>3. PICK x : x = UnsubscribeOp(s)
      OBVIOUS
    <3>4. At(Append(Backlog, op), x) = At(Backlog, x) \cup (IF op = x THEN {Len(Backlog) + 1} ELSE {})
      BY <1>0, BacklogType, AtAppend
    <3>5. (Asked(x))' # {}
      BY <1>3, <3>3 DEF UnsubscribeOp
    <3> QED
      BY <3>1, <3>2, <3>3, <3>4, <3>5 DEF Asked
  <2>3. CASE ~(Subscribe(r) \/ Unsubscribe(r))
    <3>1. UNCHANGED ops
      BY <2>3 DEF Handler, Client, Relay, RelayFails, RelayClosed, SeeHangUp, SeeDone, DrainEmpty,
             OpenStream, HangUp, ClientReceives, vars
    <3> QED
      BY <1>1, <2>1, <3>1 DEF Backlog
  <2> QED
    BY <2>2, <2>3
<1>4. /\ handler'[r] = "draining" => done
      /\ handler'[r] = "leaving" => r \in gone'
      /\ handler'[r] = "ended" => done \/ r \in gone'
  BY <1>0, <1>1 DEF Handler, Client, Subscribe, Relay, RelayFails, RelayClosed, SeeHangUp, Unsubscribe,
         SeeDone, DrainEmpty, OpenStream, HangUp, ClientReceives, GoTo, Parting
<1>5. ASSUME r \in exited \ gone', handler'[r] = "ended" PROVE (Told(r))'
  <2>1. done /\ r \in closed /\ r \notin gone /\ wire[r] \in Seq(Messages)
    BY <1>0, <1>1, <1>5 DEF Parting
  <2>2. CASE handler[r] = "ended"
    <3>1. Told(r)
      BY <1>1, <1>5, <2>1, <2>2 DEF Parting, ExitTold, Told
    <3>2. CASE ClientReceives(r)
      <4>1. /\ wire[r] # <<>> /\ wire'[r] = Tail(wire[r])
            /\ Head(wire[r]).kind = "exited" => r \in sawExit'
        BY <1>0, <3>2 DEF ClientReceives
      <4>2. wire[r][Len(wire[r])].kind = "exited"
        BY <3>1, <4>1 DEF Told
      <4>3. \/ wire'[r] = <<>> /\ Head(wire[r]).kind = "exited"
            \/ wire'[r] # <<>> /\ wire'[r][Len(wire'[r])].kind = "exited"
        BY <2>1, <4>1, <4>2, LastOfTail
      <4> QED
        BY <4>1, <4>3 DEF Told
    <3>3. CASE ~ClientReceives(r)
      <4>1. UNCHANGED wire
        BY <2>2, <3>3 DEF Handler, Client, Subscribe, Relay, RelayFails, RelayClosed, SeeHangUp,
               Unsubscribe, SeeDone, DrainEmpty, OpenStream, HangUp, Receiving
      <4> QED
        BY <1>1, <3>1, <4>1 DEF Told
    <3> QED
      BY <3>2, <3>3
  <2>3. CASE handler[r] # "ended"
    <3>1. RelayClosed(r)
      BY <1>0, <1>5, <2>1, <2>3 DEF Handler, Client, Subscribe, Relay, RelayFails, SeeHangUp, Unsubscribe,
             SeeDone, DrainEmpty, OpenStream, HangUp, ClientReceives, GoTo, Parting
    <3>2. wire'[r] = Append(wire[r], ExitedMessage)
      BY <1>0, <1>5, <2>1, <3>1 DEF RelayClosed
    <3>3. wire'[r] # <<>> /\ wire'[r][Len(wire'[r])] = ExitedMessage
      BY <2>1, <3>2, ExitedTyped
    <3> QED
      BY <3>3 DEF Told, ExitedMessage
  <2> QED
    BY <2>2, <2>3
<1>6. ASSUME NEW s \in Streams, s # r, s \in exited \ gone', handler'[s] = "ended" PROVE (Told(s))'
  BY <1>1, <1>2, <1>6 DEF Parting, ExitTold, Told
<1>7. ExitTold'
  BY <1>0, <1>1, <1>5, <1>6 DEF ExitTold, Told
<1> QED
  BY <1>1, <1>2, <1>3, <1>4, <1>7 DEF Parting

-----------------------------------------------------------------------------
(***************************************************************************)
(* The loop and the streams together.                                      *)
(***************************************************************************)
LoopInv == StreamInv /\ LoopPlaced /\ Registered /\ Owed /\ Parting

\* It holds at first.
LEMMA LoopInvInit == StreamInit => LoopInv
<1> SUFFICES ASSUME StreamInit PROVE LoopInv
  OBVIOUS
<1>1. StreamInv
  BY StreamInvInit
<1>2. /\ ops = <<>> /\ burst = <<>> /\ pc = "select" /\ done = FALSE
      /\ subs = {} /\ lagged = {} /\ closed = {} /\ exited = {}
      /\ \A s \in Streams : handler[s] = "idle" /\ ch[s] = <<>>
  BY DEF StreamInit, Init
<1>3. LoopPlaced
  BY <1>2, PipelineAssumption DEF LoopPlaced, BurstBounded
<1>4. Backlog = <<>> /\ \A x : Asked(x) = {}
  <2>1. Backlog = <<>>
    BY <1>2, ConcatEmptySeq DEF Backlog
  <2> QED
    BY <2>1 DEF Asked, At
<1>5. Registered
  BY <1>2, <1>4 DEF Registered, NoClosedSend, SubscribesOnce
<1>6. Owed
  BY <1>2 DEF Owed, Mirror, StreamInit, Init, EmuNew
<1>7. Parting
  BY <1>2, <1>4 DEF Parting, ExitTold
<1> QED
  BY <1>1, <1>3, <1>5, <1>6, <1>7 DEF LoopInv

\* And in every reachable state.
LEMMA LoopInvHolds == Spec => []LoopInv
<1>1. LoopInv /\ [Next]_allVars => LoopInv'
  <2> SUFFICES ASSUME LoopInv, [Next]_allVars PROVE LoopInv'
    OBVIOUS
  <2>1. StreamTypeOK /\ TypeOK
    BY DEF LoopInv, StreamInv, StreamTypeOK
  <2>2. StreamInv' /\ LoopPlaced' /\ Registered' /\ Owed'
    BY <2>1, StreamInvStep, LoopPlacedStep, RegisteredStep, OwedStep DEF LoopInv
  <2>3. Parting'
    <3>1. CASE UNCHANGED allVars
      BY <3>1 DEF allVars, vars, streamVars, LoopInv, Parting, ExitTold, Asked, Backlog, UnsubscribeOp
    <3>2. CASE PipelineStep
      BY <2>1, <3>2, PartingPipeline DEF LoopInv, PipelineStep
    <3>3. CASE \E s \in Streams : Handler(s) \/ Client(s)
      BY <2>1, <3>3, PartingStream DEF LoopInv
    <3> QED
      BY <3>1, <3>2, <3>3 DEF Next
  <2> QED
    BY <2>2, <2>3 DEF LoopInv
<1> QED
  BY <1>1, LoopInvInit, PTL DEF Spec

\* One wakeup of the run loop handles at most the channel's content plus one,
\* however fast its callers post.
THEOREM BurstsAreBounded == Spec => []BurstBounded
<1>1. LoopInv => BurstBounded
  BY DEF LoopInv, LoopPlaced
<1> QED
  BY <1>1, LoopInvHolds, PTL

\* The run loop never sends on a closed channel, nor closes one twice.
THEOREM ClosedOnce == Spec => []NoClosedSend
<1>1. LoopInv => NoClosedSend
  BY DEF LoopInv, Registered, NoClosedSend
<1> QED
  BY <1>1, LoopInvHolds, PTL

\* The blocking send of an opSubscribe always has room: a stream subscribes
\* once, so nothing was ever queued for it.
THEOREM LoopIsNeverBlocked == Spec => []LoopNeverBlocks
<1>1. LoopInv => LoopNeverBlocks
  <2> SUFFICES ASSUME LoopInv, ControlOp("subscribe") PROVE SyncHasRoom(Head(burst).sub)
    BY DEF LoopNeverBlocks
  <2>1. TypeOK /\ burst # <<>> /\ Head(burst).type = "subscribe" /\ pc = "burst"
    BY DEF LoopInv, StreamInv, StreamTypeOK, ControlOp, NextOpIs
  <2>2. Head(burst).sub \in Streams /\ Head(burst) = SubscribeOp(Head(burst).sub)
    BY <2>1, HeadOp
  <2>3. Asked(SubscribeOp(Head(burst).sub)) # {}
    <3>1. Backlog # <<>> /\ Head(Backlog) = Head(burst)
      BY <2>1, ConcatHead DEF TypeOK, Backlog
    <3> QED
      BY <2>1, <2>2, <3>1, BacklogType, AtTail DEF Asked
  <2>4. ch[Head(burst).sub] = <<>> /\ Head(burst).sub \notin subs
    BY <2>1, <2>2, <2>3 DEF LoopInv, LoopPlaced, Registered, SubscribesOnce
  <2>5. FlushCh[Head(burst).sub] = <<>>
    BY <2>2, <2>4, FlushElsewhere
  <2> QED
    BY <2>5, PipelineAssumption DEF SyncHasRoom
<1> QED
  BY <1>1, LoopInvHolds, PTL

\* A pane that falls silent owes its watchers nothing: whenever no timer runs,
\* the flushed screen is the emulator's and nobody waits for a resync.
THEOREM NothingIsOwed == Spec => []NothingOwedWhenIdle
<1>1. LoopInv => NothingOwedWhenIdle
  BY DEF LoopInv, Owed, LoopPlaced, NothingOwedWhenIdle
<1> QED
  BY <1>1, LoopInvHolds, PTL

\* A registered stream whose Client stays ends with PaneExited when the Pane
\* leaves the Herd.
THEOREM ExitIsTold == Spec => []ExitTold
<1>1. LoopInv => ExitTold
  BY DEF LoopInv, Parting
<1> QED
  BY <1>1, LoopInvHolds, PTL
=============================================================================
