--------------------------- MODULE RenderPipeline ---------------------------
(***************************************************************************)
(* The per-Pane render pipeline (internal/server/pipeline.go): the ops     *)
(* channel its callers post to, and the goroutine that owns the emulator,  *)
(* the shadow grid, the coalescing timer and the subscriber set.           *)
(*                                                                         *)
(* This module has the state of ONE pipeline and the actions of two of its *)
(* actors: the run loop, and the watcher that feeds and closes it.  The    *)
(* WatchPane handlers that subscribe are in WatchStream, which composes    *)
(* them with these actions.                                                *)
(*                                                                         *)
(* Emulator bytes are abstracted to their effect on the screen: a patch of *)
(* cells and the cursor left behind.  Concatenating two byte strings (the  *)
(* outBatch) is composing their effects.                                   *)
(***************************************************************************)
EXTENDS Grid, Sequences, FiniteSets

CONSTANTS
  Streams,           \* the subscribers: one per WatchPane stream
  Sizes,             \* sizes tmux gives the pane
  InitSize,          \* the size newPipeline is called with
  Cursors,           \* cursor states (position and visibility)
  Origin,            \* grid.Cursor{}, the zero cursor
  NoBatch,           \* the empty outBatch
  Data,              \* what one opOutput can do to the screen
  OpsQueue,          \* opsQueue: capacity of the ops channel
  SubscriberBuffer,  \* subscriberBuffer: capacity of a subscriber's channel
  MaxCalls           \* bound: how often the watcher feeds or resizes the pane

AllPositions == UNION {Positions(sz) : sz \in Sizes}

Patches == UNION {[P -> Cells] : P \in SUBSET AllPositions}

Effects == [patch: Patches, cursor: Cursors]

ASSUME PipelineAssumption ==
  /\ Sizes \subseteq Size /\ InitSize \in Sizes
  /\ <<0, 0>> \notin Sizes   \* parsePaneLine rejects it
  /\ Origin \in Cursors
  /\ Data \subseteq Effects /\ NoBatch \notin Effects
  /\ OpsQueue \in Nat \ {0} /\ SubscriberBuffer \in Nat \ {0} /\ MaxCalls \in Nat

VARIABLES
  ops,      \* the buffered ops channel
  done,     \* whether the done channel is closed: the run loop has returned
  pc,       \* the run loop: "select" | "gather" | "burst" | "returned"
  burst,    \* ops taken at this wakeup and not yet handled
  batch,    \* outBatch: the coalesced effect, or NoBatch
  term,     \* the emulator's screen: [grid, cursor]
  shadow,   \* the grid last flushed
  cursor,   \* the cursor last flushed
  dirty,    \* the emulator may differ from the shadow
  armed,    \* the coalescing timer is running
  subs,     \* the registered subscribers
  lagged,   \* subscribers that owe a full resync
  ch,       \* each subscriber's queued updates
  closed,   \* subscribers whose channel is closed
  exited,   \* subscribers told that the Pane left the Herd
  watcher,  \* the pipeline's feeder: "feeding" | "closing" | "closed"
  calls     \* how many feeds and resizes the watcher has made

vars == <<ops, done, pc, burst, batch, term, shadow, cursor, dirty, armed,
          subs, lagged, ch, closed, exited, watcher, calls>>

loopVars == <<pc, burst, batch>>
screenVars == <<term, shadow, cursor, dirty, armed>>
subVars == <<subs, lagged, ch, closed, exited>>
callerVars == <<watcher, calls>>

-----------------------------------------------------------------------------
(***************************************************************************)
(* Values.                                                                 *)
(***************************************************************************)

\* A state a Client can hold: a grid and a cursor.
Views(sizes) == [grid: UNION {Grids(sz) : sz \in sizes}, cursor: Cursors]

Screens == Views(Sizes)

\* renderUpdate: "resize" has only resized set, "damage" only damage, "sync"
\* (syncUpdate) both.
Updates == [kind: {"resize", "damage", "sync"}, size: Sizes,
            damage: Patches, cursor: Cursors]

EmptyDamage == [p \in {} |-> Blank]

ResizeUpdate(sz) == [kind |-> "resize", size |-> sz,
                     damage |-> EmptyDamage, cursor |-> Origin]

DamageUpdate(g, damage, cur) == [kind |-> "damage", size |-> SizeOf(g),
                                 damage |-> damage, cursor |-> cur]

SyncUpdate(g, cur) == [kind |-> "sync", size |-> SizeOf(g),
                       damage |-> Snapshot(g), cursor |-> cur]

\* The emulator: bytes in, grid out.
EmuNew(sz) == [grid |-> New(sz), cursor |-> Origin]

EmuWrite(t, e) == [grid |-> Apply(t.grid, e.patch), cursor |-> e.cursor]

EmuResize(t, sz) == [t EXCEPT !.grid = Resize(t.grid, sz)]

\* The effect of the bytes of a followed by the bytes of b.
Concat(a, b) ==
  IF a = NoBatch THEN b
  ELSE [patch |-> [p \in DOMAIN a.patch \cup DOMAIN b.patch |->
                     IF p \in DOMAIN b.patch THEN b.patch[p] ELSE a.patch[p]],
        cursor |-> b.cursor]

OutputOp(e) == [type |-> "output", data |-> e]
ResizeOp(sz) == [type |-> "resize", size |-> sz]
SubscribeOp(s) == [type |-> "subscribe", sub |-> s]
UnsubscribeOp(s) == [type |-> "unsubscribe", sub |-> s]
CloseOp(x) == [type |-> "close", exited |-> x]

Ops == [type: {"output"}, data: Effects] \cup [type: {"resize"}, size: Sizes]
       \cup [type: {"subscribe", "unsubscribe"}, sub: Streams]
       \cup [type: {"close"}, exited: BOOLEAN]

TypeOK ==
  /\ ops \in Seq(Ops) /\ Len(ops) <= OpsQueue
  /\ done \in BOOLEAN
  /\ pc \in {"select", "gather", "burst", "returned"}
  /\ burst \in Seq(Ops)
  /\ batch \in Effects \cup {NoBatch}
  /\ term \in Screens
  /\ shadow \in UNION {Grids(sz) : sz \in Sizes}
  /\ cursor \in Cursors
  /\ dirty \in BOOLEAN /\ armed \in BOOLEAN
  /\ subs \subseteq Streams /\ lagged \subseteq Streams
  /\ ch \in [Streams -> Seq(Updates)]
  /\ \A s \in Streams : Len(ch[s]) <= SubscriberBuffer
  /\ closed \subseteq Streams /\ exited \subseteq Streams
  /\ watcher \in {"feeding", "closing", "closed"}
  /\ calls \in 0 .. MaxCalls

Init ==
  /\ ops = <<>> /\ done = FALSE
  /\ pc = "select" /\ burst = <<>> /\ batch = NoBatch
  /\ term = EmuNew(InitSize) /\ shadow = New(InitSize) /\ cursor = Origin
  /\ dirty = FALSE /\ armed = FALSE
  /\ subs = {} /\ lagged = {} /\ closed = {} /\ exited = {}
  /\ ch = [s \in Streams |-> <<>>]
  /\ watcher = "feeding" /\ calls = 0

-----------------------------------------------------------------------------
(***************************************************************************)
(* Posting.  A send on the ops channel completes when it has room; post    *)
(* also returns without sending once the pipeline has ended, and Go picks  *)
(* either branch when both are ready.                                      *)
(***************************************************************************)
SendUnbounded(op) == ops' = Append(ops, op)   \* mutant: a channel without capacity

Send(op) == Len(ops) < OpsQueue /\ ops' = Append(ops, op)

Post(op) == Send(op) \/ (done /\ ops' = ops)

(***************************************************************************)
(* The watcher's calls.  Output is refused when the channel is full (the   *)
(* refusal changes nothing here; HerdWatcher models what the watcher does  *)
(* with it); deliverSeed and resize wait for room.  close posts opClose    *)
(* and waits for done; the pane is out of the hub by then, so nothing is   *)
(* fed after it.                                                           *)
(***************************************************************************)
Feed(e) ==
  /\ watcher = "feeding" /\ calls < MaxCalls
  /\ Post(OutputOp(e))
  /\ calls' = calls + 1
  /\ UNCHANGED <<done, loopVars, screenVars, subVars, watcher>>

CallResize(sz) ==
  /\ watcher = "feeding" /\ calls < MaxCalls
  /\ Post(ResizeOp(sz))
  /\ calls' = calls + 1
  /\ UNCHANGED <<done, loopVars, screenVars, subVars, watcher>>

CallClose(x) ==
  /\ watcher = "feeding"
  /\ Post(CloseOp(x))
  /\ watcher' = "closing"
  /\ UNCHANGED <<done, loopVars, screenVars, subVars, calls>>

CloseReturns ==
  /\ watcher = "closing" /\ done
  /\ watcher' = "closed"
  /\ UNCHANGED <<ops, done, loopVars, screenVars, subVars, calls>>

-----------------------------------------------------------------------------
(***************************************************************************)
(* The run loop.                                                           *)
(***************************************************************************)

HasRoom(s) == Len(ch[s]) < SubscriberBuffer

ArmNever == armed   \* mutant: dirtying ops do not start the timer

\* arm: an unwatched pane starts no timer.
Arm == armed \/ subs # {}

\* The next op of the burst; a control op is handled once the outBatch before
\* it is written.
NextOpIs(types) == pc = "burst" /\ burst # <<>> /\ Head(burst).type \in types

ControlOp(type) == NextOpIs({type}) /\ batch = NoBatch

(***************************************************************************)
(* flush: fold the emulator into the shadow, then give every lagged        *)
(* subscriber a sync and every other one the delta, if its queue has room. *)
(***************************************************************************)
FlushDamage == Diff(shadow, term.grid)

FlushChanged == dirty /\ (DOMAIN FlushDamage # {} \/ term.cursor # cursor)

FlushShadow == IF FlushChanged THEN term.grid ELSE shadow

FlushCursor == IF FlushChanged THEN term.cursor ELSE cursor

FlushUpdateNoResync(s) ==   \* mutant: a lagged subscriber gets the increment
  DamageUpdate(FlushShadow, FlushDamage, FlushCursor)

FlushUpdate(s) == IF s \in lagged THEN SyncUpdate(FlushShadow, FlushCursor)
                  ELSE DamageUpdate(FlushShadow, FlushDamage, FlushCursor)

FlushOwedRegistersFirst ==   \* mutant: opSubscribe registers before it flushes
  {s \in subs \cup (IF ControlOp("subscribe") THEN {Head(burst).sub} ELSE {}) :
     s \in lagged \/ FlushChanged}

FlushOwed == {s \in subs : s \in lagged \/ FlushChanged}

FlushSent == {s \in FlushOwed : HasRoom(s)}

FlushCh == [s \in Streams |-> IF s \in FlushSent THEN Append(ch[s], FlushUpdate(s))
                              ELSE ch[s]]

FlushLagged == (lagged \ FlushSent) \cup (FlushOwed \ FlushSent)

FlushForgetsLagged == FALSE   \* mutant: the flush does not re-arm

FlushStillLagged == FlushOwed # FlushSent

\* The timer case of the select: the flush re-arms only for a subscriber
\* whose queue was full.
TimerFires ==
  /\ pc = "select" /\ armed
  /\ armed' = FlushStillLagged
  /\ dirty' = FALSE
  /\ shadow' = FlushShadow /\ cursor' = FlushCursor
  /\ ch' = FlushCh /\ lagged' = FlushLagged
  /\ UNCHANGED <<ops, done, loopVars, term, subs, closed, exited, callerVars>>

\* The op case of the select.
ReceiveOp ==
  /\ pc = "select" /\ ops # <<>>
  /\ pc' = "gather"
  /\ burst' = <<Head(ops)>> /\ ops' = Tail(ops)
  /\ UNCHANGED <<done, batch, screenVars, subVars, callerVars>>

GatherUntilEmpty ==   \* mutant: receive as long as callers keep posting
  /\ pc = "gather"
  /\ pc' = IF ops = <<>> THEN "burst" ELSE "gather"
  /\ burst' = burst \o ops /\ ops' = <<>>
  /\ UNCHANGED <<done, batch, screenVars, subVars, callerVars>>

\* Take what is queued now, not until empty.  Callers may have posted
\* between the receive and this snapshot.
Gather ==
  /\ pc = "gather"
  /\ pc' = "burst"
  /\ burst' = burst \o ops /\ ops' = <<>>
  /\ UNCHANGED <<done, batch, screenVars, subVars, callerVars>>

BurstOutput ==
  /\ NextOpIs({"output"})
  /\ batch' = Concat(batch, Head(burst).data)
  /\ burst' = Tail(burst)
  /\ UNCHANGED <<ops, done, pc, screenVars, subVars, callerVars>>

\* writeBatch runs before every control op and at the end of the burst; with
\* an empty outBatch it returns at once, so it is a step only otherwise.
WriteBatch ==
  /\ pc = "burst" /\ batch # NoBatch /\ ~NextOpIs({"output"})
  /\ term' = EmuWrite(term, batch)
  /\ batch' = NoBatch
  /\ dirty' = TRUE
  /\ armed' = Arm
  /\ UNCHANGED <<ops, done, pc, burst, shadow, cursor, subVars, callerVars>>

ResizedShadowKept(sz) == shadow   \* mutant: the shadow keeps its old size

\* The shadow resets: subscribers hold a blank grid once they apply the resize.
ResizedShadow(sz) == New(sz)

\* A resize to the size the emulator has is skipped.
OpResizeSame ==
  /\ ControlOp("resize") /\ Head(burst).size = SizeOf(term.grid)
  /\ burst' = Tail(burst)
  /\ UNCHANGED <<ops, done, pc, batch, screenVars, subVars, callerVars>>

OpResize ==
  /\ ControlOp("resize") /\ Head(burst).size # SizeOf(term.grid)
  /\ LET sz == Head(burst).size IN
       /\ term' = EmuResize(term, sz)
       /\ shadow' = ResizedShadow(sz)
       /\ ch' = [s \in Streams |-> IF s \in subs /\ HasRoom(s)
                                   THEN Append(ch[s], ResizeUpdate(sz)) ELSE ch[s]]
  /\ lagged' = lagged \cup {s \in subs : ~HasRoom(s)}
  /\ dirty' = TRUE
  /\ armed' = Arm
  /\ burst' = Tail(burst)
  /\ UNCHANGED <<ops, done, pc, batch, cursor, subs, closed, exited, callerVars>>

SyncHasRoom(s) == Len(FlushCh[s]) < SubscriberBuffer

\* Flush first, then register, then send the sync: a blocking send, which
\* waits for room in the new subscriber's channel.
OpSubscribe ==
  /\ ControlOp("subscribe")
  /\ LET s == Head(burst).sub IN
       /\ SyncHasRoom(s)
       /\ ch' = [FlushCh EXCEPT ![s] = Append(@, SyncUpdate(FlushShadow, FlushCursor))]
       /\ subs' = subs \cup {s}
  /\ armed' = (armed \/ FlushStillLagged)
  /\ dirty' = FALSE
  /\ shadow' = FlushShadow /\ cursor' = FlushCursor /\ lagged' = FlushLagged
  /\ burst' = Tail(burst)
  /\ UNCHANGED <<ops, done, pc, batch, term, closed, exited, callerVars>>

OpUnsubscribeKeeps ==   \* mutant: closes the channel, leaves the map entry
  /\ ControlOp("unsubscribe")
  /\ closed' = closed \cup ({Head(burst).sub} \cap subs)
  /\ burst' = Tail(burst)
  /\ UNCHANGED <<ops, done, pc, batch, screenVars, subs, lagged, ch, exited, callerVars>>

OpUnsubscribe ==
  /\ ControlOp("unsubscribe")
  /\ LET s == Head(burst).sub IN
       /\ subs' = subs \ {s}
       /\ closed' = IF s \in subs THEN closed \cup {s} ELSE closed
  /\ burst' = Tail(burst)
  /\ UNCHANGED <<ops, done, pc, batch, screenVars, lagged, ch, exited, callerVars>>

\* The loop returns from inside the burst: the ops behind opClose are dropped.
OpClose ==
  /\ ControlOp("close")
  /\ exited' = IF Head(burst).exited THEN exited \cup subs ELSE exited
  /\ closed' = closed \cup subs
  /\ pc' = "returned" /\ done' = TRUE
  /\ burst' = <<>>
  /\ UNCHANGED <<ops, batch, screenVars, subs, lagged, ch, callerVars>>

EndBurst ==
  /\ pc = "burst" /\ burst = <<>> /\ batch = NoBatch
  /\ pc' = "select"
  /\ UNCHANGED <<ops, done, burst, batch, screenVars, subVars, callerVars>>

RunLoop == \/ ReceiveOp \/ Gather \/ BurstOutput \/ WriteBatch \/ OpResizeSame
           \/ OpResize \/ OpSubscribe \/ OpUnsubscribe \/ OpClose \/ EndBurst

Caller == \/ \E e \in Data : Feed(e)
          \/ \E sz \in Sizes : CallResize(sz)
          \/ \E x \in BOOLEAN : CallClose(x)
          \/ CloseReturns

\* grid.Diff never sees two sizes: a resize always replaces the shadow with
\* one of the emulator's new size, so the panic in Diff is unreachable.
ShadowFits == SizeOf(shadow) = SizeOf(term.grid)
=============================================================================
