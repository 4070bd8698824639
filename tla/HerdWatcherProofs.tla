------------------------- MODULE HerdWatcherProofs -------------------------
(***************************************************************************)
(* Theorems about the tmux watcher, for any panes, pane sizes, channel     *)
(* capacities and amount of output, resizes and pauses: the pause protocol *)
(* loses and duplicates no resume, the Herd follows the session, and seeds *)
(* and live output compose.                                                *)
(***************************************************************************)
EXTENDS HerdWatcher, FiniteSetTheorems, TLAPS

Kinds == {"output", "topology", "pause", "exit"}

Events == [kind: Kinds, pane: Panes \cup {Nobody}, n: Nat, size: PaneSizes, seq: Nat]

Ops == [kind: {"output", "seed"}, n: Nat, size: PaneSizes] \cup [kind: {"resize"}, size: PaneSizes]

Emus == [ok: BOOLEAN, n: Nat, size: PaneSizes]

\* The type invariant, with the messages in flight.
HerdTypeOK ==
  /\ TypeOK
  /\ events \in Seq(Events)
  /\ \A i \in 1 .. Len(events) : events[i].kind # "exit" => events[i].pane \in Panes
  /\ listed \in [DOMAIN listed -> PaneSizes]
  /\ resumeCh \in Seq(Panes)
  /\ ops \in [Panes -> Seq(Ops)] /\ emu \in [Panes -> Emus]

-----------------------------------------------------------------------------
(***************************************************************************)
(* The places of the watcher.                                              *)
(***************************************************************************)
Reconciling == wpc = "reconcile" \/ (wpc = "seed" /\ ~resuming)

\* What the watcher is about when it is somewhere.
Placed ==
  /\ wpc \in {"seed", "continue", "pause"} => target \in hub
  /\ wpc = "pause" => target \in paused
  /\ wpc = "seed" /\ resuming => target \in paused
  /\ wpc = "seed" /\ ~resuming => target \in seen \ DOMAIN listed
  /\ resuming => wpc \in {"seed", "continue"}
  /\ wpc = "continue" => resuming /\ target \notin paused
  /\ topology => wpc \in {"drain", "pause"}
  /\ ~Reconciling => DOMAIN listed = {}
  /\ wpc = "ended" => hub = {} /\ registry = {}

-----------------------------------------------------------------------------
(***************************************************************************)
(* The Herd: a topology event is queued until a listing has seen it.       *)
(***************************************************************************)
TopologyQueued == \E i \in 1 .. Len(events) : events[i].kind = "topology"

Lives ==
  /\ unborn \cap (alive \cup hub \cup seen) = {}
  /\ Reconciling => hub \cap alive \subseteq seen /\ seen \ DOMAIN listed \subseteq hub
  /\ ~Reconciling => registry = hub
  /\ Reconciling => seen = alive \/ TopologyQueued
  /\ ~Reconciling => hub = alive \/ TopologyQueued \/ topology \/ wpc \in {"list", "ended"}

-----------------------------------------------------------------------------
(***************************************************************************)
(* Pauses.                                                                 *)
(***************************************************************************)
\* Panes that can still enter the hub.
Fresh == (alive \cup unborn \cup DOMAIN listed) \ hub

\* The signal of p is taken, or not scheduled yet.
Between(p) == p = target /\ (wpc = "pause" \/ (wpc = "seed" /\ resuming))

\* ResumePending, with what holds in between and of panes to come.
Signalled ==
  /\ wpc # "ended" => \A p \in Fresh : Signals(p) = 0
  /\ ~ctxDone => \A p \in hub : Signals(p) = IF p \in paused /\ ~Between(p) THEN 1 ELSE 0

\* PauseKnown, and the same of panes that are not in the hub.
Known ==
  /\ tmuxPaused \subseteq alive
  /\ wpc # "ended" => \A p \in tmuxPaused : KnowsPause(p) \/ p \in unheard

-----------------------------------------------------------------------------
(***************************************************************************)
(* The screens.                                                            *)
(***************************************************************************)
\* The recorded geometry is right, or a listing is due; a pane that was
\* resized is due for a seed, unless a listing found it back at its size.
Sized ==
  /\ \A p \in DOMAIN listed : p \in alive => listed[p] = screen[p].size \/ TopologyQueued
  /\ \A p \in hub \cap alive :
       size[p] = screen[p].size \/ TopologyQueued \/ topology \/ wpc = "list" \/ p \in DOMAIN listed
  /\ \A p \in hub \cap alive \cap reflowed :
       \/ p \in swung \/ TopologyQueued \/ topology \/ wpc = "list"
       \/ wpc = "seed" /\ ~resuming /\ target = p
       \/ size[p] # screen[p].size

\* The emulator e shows f's last state once it has applied the ops q.
Applies(q, e, last) ==
  \E f \in [0 .. Len(q) -> Emus] :
    /\ f[0] = e /\ f[Len(q)] = last
    /\ \A i \in 1 .. Len(q) : f[i] = EmuApply(f[i - 1], q[i])

\* The output of p that the watcher will not drop for its age.
Live(p) == {i \in 1 .. Len(events) :
              events[i].kind = "output" /\ events[i].pane = p /\ events[i].seq >= barrier[p]}

\* Pane p is marked for a new seed, was resized, or missed output before its
\* continue.
NeedsSeed(p) ==
  \/ p \in paused \/ p \in missed \/ p \in reflowed
  \/ wpc = "seed" /\ target = p
  \/ size[p] # screen[p].size

\* The live output of p continues emulator state e, in order, up to the screen.
LiveOutput(p, e) ==
  /\ e.ok /\ e.n <= screen[p].n
  /\ \A i \in Live(p) : events[i].size = size[p] /\ e.n < events[i].n /\ events[i].n <= screen[p].n
  /\ \A i, j \in Live(p) : i < j => events[i].n < events[j].n
  /\ \A k \in e.n + 1 .. screen[p].n : \E i \in Live(p) : events[i].n = k

Follows(p) ==
  \E last \in Emus :
    /\ Applies(ops[p], emu[p], last) /\ last.size = size[p]
    /\ NeedsSeed(p) \/ LiveOutput(p, last)

Composes ==
  /\ \A i \in 1 .. Len(events) : events[i].seq < seq
  /\ \A p \in Panes : barrier[p] <= seq
  /\ \A p \in Panes \ hub : ops[p] = <<>>
  /\ \A p \in hub : Follows(p)

-----------------------------------------------------------------------------
(***************************************************************************)
(* Type correctness.                                                       *)
(***************************************************************************)
\* What tmux emits is an event.
LEMMA EmitType ==
  ASSUME HerdTypeOK, NEW ev \in Events, ev.kind # "exit" => ev.pane \in Panes, Emit(ev)
  PROVE  /\ events' \in Seq(Events) /\ seq' \in Nat
         /\ \A i \in 1 .. Len(events') : events'[i].kind # "exit" => events'[i].pane \in Panes
  BY DEF HerdTypeOK, TypeOK, Emit

\* The queue grows at its end.
LEMMA Emitted ==
  ASSUME HerdTypeOK, NEW ev, Emit(ev)
  PROVE  /\ Len(events) \in Nat /\ Len(events') = Len(events) + 1
         /\ events'[Len(events) + 1] = ev /\ seq' = seq + 1
         /\ \A i \in 1 .. Len(events) : events'[i] = events[i]
  BY DEF HerdTypeOK, Emit

\* And shrinks at its head.
LEMMA Taken ==
  ASSUME HerdTypeOK, events # <<>>, events' = Tail(events)
  PROVE  /\ Len(events) \in Nat \ {0} /\ Len(events') = Len(events) - 1
         /\ Head(events) = events[1]
         /\ \A i \in 1 .. Len(events') : i + 1 \in 1 .. Len(events) /\ events'[i] = events[i + 1]
         /\ \A i \in 2 .. Len(events) : i - 1 \in 1 .. Len(events') /\ events'[i - 1] = events[i]
  BY DEF HerdTypeOK

\* The events it emits.
LEMMA EventTypes ==
  ASSUME HerdTypeOK
  PROVE  /\ \A kind \in Kinds, p \in Panes \cup {Nobody} : Event(kind, p) \in Events
         /\ \A p \in Panes : Chunk(p) \in Events
<1>1. AttachSize \in PaneSizes /\ seq \in Nat
  BY WatcherAssumption DEF HerdTypeOK, TypeOK
<1>2. \A kind \in Kinds, p \in Panes \cup {Nobody} :
        [kind |-> kind, pane |-> p, n |-> 0, size |-> AttachSize, seq |-> seq] \in Events
  BY <1>1 DEF Events
<1>3. ASSUME NEW p \in Panes PROVE Chunk(p) \in Events
  <2>1. screen[p] \in [n: 0 .. MaxOut, size: PaneSizes]
    BY DEF HerdTypeOK, TypeOK
  <2>2. screen[p].n + 1 \in Nat /\ screen[p].size \in PaneSizes
    BY <2>1, WatcherAssumption
  <2>3. Event("output", p) \in Events
    BY <1>2 DEF Event, Kinds
  <2> QED
    BY <2>2, <2>3 DEF Chunk, Events
<1> QED
  BY <1>2, <1>3 DEF Event

\* Taking an event.
LEMMA TakeType ==
  ASSUME HerdTypeOK, events # <<>>, events' = Tail(events)
  PROVE  /\ Head(events) \in Events /\ events' \in Seq(Events)
         /\ Head(events).kind # "exit" => Head(events).pane \in Panes
         /\ \A i \in 1 .. Len(events') : events'[i].kind # "exit" => events'[i].pane \in Panes
<1>1. Head(events) \in Events /\ events' \in Seq(Events)
  BY DEF HerdTypeOK
<1>2. \A i \in 1 .. Len(events) : events[i].kind # "exit" => events[i].pane \in Panes
  BY DEF HerdTypeOK
<1>3. 1 \in 1 .. Len(events)
  BY Taken
<1> QED
  BY <1>1, <1>2, <1>3, Taken

\* Handing an op to a pipeline that has room.
LEMMA EnqueueType ==
  ASSUME HerdTypeOK, NEW p \in Panes, NEW op \in Ops, HasRoom(p), Enqueue(p, op)
  PROVE  ops' \in [Panes -> Seq(Ops)] /\ \A q \in Panes : Len(ops'[q]) <= OpsQueue
<1>1. ops[p] \in Seq(Ops) /\ Append(ops[p], op) \in Seq(Ops)
      /\ Len(Append(ops[p], op)) = Len(ops[p]) + 1 /\ Len(ops[p]) \in Nat
  BY DEF HerdTypeOK
<1>2. ops \in [Panes -> Seq(Ops)] /\ \A q \in Panes : Len(ops[q]) <= OpsQueue
  BY DEF HerdTypeOK, TypeOK
<1>3. ops' = [ops EXCEPT ![p] = Append(ops[p], op)] /\ Len(Append(ops[p], op)) <= OpsQueue
  BY <1>1, WatcherAssumption DEF HasRoom, Enqueue
<1> QED
  BY <1>1, <1>2, <1>3

\* Applying an op.
LEMMA EmuApplyType ==
  ASSUME NEW e \in Emus, NEW op \in Ops
  PROVE  EmuApply(e, op) \in Emus
<1>1. e = [ok |-> e.ok, n |-> e.n, size |-> e.size] /\ e.n \in Nat /\ e.size \in PaneSizes
  BY DEF Emus
<1>2. \A sz \in PaneSizes : Garbled(sz) \in Emus
  BY DEF Emus, Garbled
<1>3. CASE op.kind = "output"
  <2>1. op.n \in Nat
    BY <1>3 DEF Ops
  <2>2. [e EXCEPT !.n = op.n] = [ok |-> e.ok, n |-> op.n, size |-> e.size]
    BY <1>1
  <2>3. [e EXCEPT !.n = op.n] \in Emus
    BY <2>1, <2>2 DEF Emus
  <2> QED
    BY <1>1, <1>2, <1>3, <2>3 DEF EmuApply
<1>4. CASE op.kind = "resize"
  <2>1. op.size \in PaneSizes
    BY <1>4 DEF Ops
  <2> QED
    BY <1>2, <1>4, <2>1 DEF EmuApply
<1>5. CASE op.kind = "seed"
  <2>1. op.n \in Nat /\ op.size \in PaneSizes
    BY <1>5 DEF Ops
  <2>2. [ok |-> TRUE, n |-> op.n, size |-> op.size] \in Emus
    BY <2>1 DEF Emus
  <2> QED
    BY <1>1, <1>2, <1>5, <2>2 DEF EmuApply
<1> QED
  BY <1>3, <1>4, <1>5 DEF Ops

\* The initial state.
LEMMA HerdTypeInit == Init => HerdTypeOK
<1> SUFFICES ASSUME Init PROVE HerdTypeOK
  OBVIOUS
<1>1. AttachSize \in PaneSizes /\ Garbled(AttachSize) \in Emus
  BY WatcherAssumption DEF Emus, Garbled
<1>2. screen \in [Panes -> [n: 0 .. MaxOut, size: PaneSizes]]
  BY <1>1, WatcherAssumption DEF Init
<1>3. listed = <<>> /\ DOMAIN listed = {} /\ listed \in [DOMAIN listed -> PaneSizes]
  BY DEF Init
<1>4. TypeOK
  <2>1. Len(resumeCh) <= ResumeQueue /\ \A p \in Panes : Len(ops[p]) <= OpsQueue
    BY WatcherAssumption DEF Init
  <2>2. /\ resizes \in [Panes -> 0 .. MaxResizes] /\ backstops \in 0 .. MaxBackstops
        /\ barrier \in [Panes -> Nat] /\ timers \in [Panes -> Nat] /\ seq \in Nat
    BY WatcherAssumption DEF Init
  <2> QED
    BY <1>1, <1>2, <1>3, <2>1, <2>2, WatcherAssumption DEF Init, TypeOK
<1>5. ops \in [Panes -> Seq(Ops)] /\ emu \in [Panes -> Emus]
  BY <1>1 DEF Init
<1> QED
  BY <1>3, <1>4, <1>5 DEF Init, HerdTypeOK

\* tmux keeps the types.
LEMMA HerdTypeTmux ==
  ASSUME HerdTypeOK, Tmux
  PROVE  HerdTypeOK'
<1> USE WatcherAssumption DEF otherThanTmux, loopVars, hubVars, resumeVars, pipeVars, history
<1> DEFINE Queue == /\ events' \in Seq(Events) /\ seq' \in Nat
                    /\ \A i \in 1 .. Len(events') :
                         events'[i].kind # "exit" => events'[i].pane \in Panes
<1>1. ASSUME NEW p \in Panes, Produce(p) PROVE HerdTypeOK'
  <2>1. screen' \in [Panes -> [n: 0 .. MaxOut, size: PaneSizes]]
    <3>1. screen[p] \in [n: 0 .. MaxOut, size: PaneSizes] /\ screen[p].n < MaxOut
      BY <1>1 DEF HerdTypeOK, TypeOK, Produce
    <3>2. [screen[p] EXCEPT !.n = @ + 1] \in [n: 0 .. MaxOut, size: PaneSizes]
      BY <3>1
    <3> QED
      BY <1>1, <3>2 DEF HerdTypeOK, TypeOK, Produce
  <2>2. Queue
    <3>1. Chunk(p).pane = p /\ Chunk(p) \in Events
      BY EventTypes DEF Chunk, Event
    <3> QED
      BY <1>1, <3>1, EmitType DEF HerdTypeOK, TypeOK, Produce, streamVars
  <2>3. missed' \subseteq Panes
    BY <1>1 DEF HerdTypeOK, TypeOK, Produce
  <2> QED
    BY <1>1, <2>1, <2>2, <2>3 DEF HerdTypeOK, TypeOK, Produce
<1>2. ASSUME NEW p \in Panes, Spawn(p) \/ Die(p) PROVE HerdTypeOK'
  <2>1. Event("topology", p) \in Events /\ Event("topology", p).pane = p
    BY EventTypes DEF Event, Kinds
  <2>2. Queue
    BY <1>2, <2>1, EmitType DEF Spawn, Die
  <2> QED
    BY <1>2, <2>2 DEF HerdTypeOK, TypeOK, Spawn, Die
<1>3. ASSUME NEW p \in Panes, NEW sz \in PaneSizes, ResizePane(p, sz) PROVE HerdTypeOK'
  <2>1. Event("topology", p) \in Events /\ Event("topology", p).pane = p
    BY EventTypes DEF Event, Kinds
  <2>2. Queue
    BY <1>3, <2>1, EmitType DEF ResizePane
  <2>3. screen' \in [Panes -> [n: 0 .. MaxOut, size: PaneSizes]]
    BY <1>3 DEF HerdTypeOK, TypeOK, ResizePane
  <2>4. resizes' \in [Panes -> 0 .. MaxResizes]
    <3>1. resizes \in [Panes -> 0 .. MaxResizes] /\ resizes[p] < MaxResizes
          /\ resizes' = [resizes EXCEPT ![p] = @ + 1]
      BY <1>3 DEF HerdTypeOK, TypeOK, ResizePane
    <3>2. resizes[p] + 1 \in 0 .. MaxResizes
      BY <3>1
    <3> QED
      BY <3>1, <3>2
  <2> QED
    BY <1>3, <2>2, <2>3, <2>4 DEF HerdTypeOK, TypeOK, ResizePane
<1>4. ASSUME NEW p \in Panes, Backstop(p) PROVE HerdTypeOK'
  <2>1. Event("pause", p) \in Events /\ Event("pause", p).pane = p
    BY EventTypes DEF Event, Kinds
  <2>2. Queue
    BY <1>4, <2>1, EmitType DEF Backstop
  <2>3. backstops' \in 0 .. MaxBackstops
    <3>1. backstops \in 0 .. MaxBackstops /\ backstops < MaxBackstops /\ backstops' = backstops + 1
      BY <1>4 DEF HerdTypeOK, TypeOK, Backstop
    <3> QED
      BY <3>1
  <2> QED
    BY <1>4, <2>2, <2>3 DEF HerdTypeOK, TypeOK, Backstop
<1>5. CASE TmuxEnds
  <2>1. Event("exit", Nobody) \in Events /\ Event("exit", Nobody).kind = "exit"
    BY EventTypes DEF Event, Kinds
  <2>2. Queue
    BY <1>5, <2>1, EmitType DEF TmuxEnds
  <2> QED
    BY <1>5, <2>2 DEF HerdTypeOK, TypeOK, TmuxEnds
<1> QED
  BY <1>1, <1>2, <1>3, <1>4, <1>5 DEF Tmux

\* A resume timer is started.
LEMMA ScheduleType ==
  ASSUME timers \in [Panes -> Nat], NEW p \in Panes,
         scheduleResume(p) \/ Reschedule(p) \/ UNCHANGED timers
  PROVE  timers' \in [Panes -> Nat]
  BY DEF scheduleResume, Reschedule

\* Teardown drops everything.
LEMMA TeardownType ==
  ASSUME HerdTypeOK, Teardown
  PROVE  HerdTypeOK'
<1>1. listed' \in [DOMAIN listed' -> PaneSizes] /\ DOMAIN listed' = {}
  BY DEF Teardown
<1>2. ops' \in [Panes -> Seq(Ops)] /\ \A p \in Panes : Len(ops'[p]) <= OpsQueue
  BY WatcherAssumption DEF Teardown
<1>3. TypeOK'
  BY <1>1, <1>2 DEF Teardown, GoTo, HerdTypeOK, TypeOK, tmuxVars, streamVars, resumeVars, history
<1> QED
  BY <1>1, <1>2, <1>3 DEF Teardown, HerdTypeOK, tmuxVars, streamVars, resumeVars

\* So do the pipelines, the timers and the Server's shutdown.
LEMMA HerdTypeBeside ==
  ASSUME HerdTypeOK, Cancel \/ \E p \in Panes : Drain(p) \/ TimerFires(p)
  PROVE  HerdTypeOK'
<1> USE DEF tmuxVars, streamVars, loopVars, hubVars, resumeVars, pipeVars, history
<1>1. CASE Cancel
  BY <1>1 DEF Cancel, HerdTypeOK, TypeOK
<1>2. ASSUME NEW p \in Panes, Drain(p) PROVE HerdTypeOK'
  <2>1. ops[p] \in Seq(Ops) /\ ops[p] # <<>> /\ Len(ops[p]) <= OpsQueue
    BY <1>2 DEF Drain, HerdTypeOK, TypeOK
  <2>2. Head(ops[p]) \in Ops /\ Tail(ops[p]) \in Seq(Ops) /\ Len(Tail(ops[p])) <= OpsQueue
    BY <2>1, WatcherAssumption
  <2>3. EmuApply(emu[p], Head(ops[p])) \in Emus
    BY <2>2, EmuApplyType DEF HerdTypeOK
  <2>4. ops' \in [Panes -> Seq(Ops)] /\ emu' \in [Panes -> Emus]
        /\ \A q \in Panes : Len(ops'[q]) <= OpsQueue
    BY <1>2, <2>2, <2>3 DEF Drain, HerdTypeOK, TypeOK
  <2> QED
    BY <1>2, <2>4 DEF Drain, HerdTypeOK, TypeOK
<1>3. ASSUME NEW p \in Panes, TimerFires(p) PROVE HerdTypeOK'
  <2>1. timers' \in [Panes -> Nat]
    <3>1. timers \in [Panes -> Nat]
      BY DEF HerdTypeOK, TypeOK
    <3>2. timers[p] > 0 /\ timers' = [timers EXCEPT ![p] = @ - 1]
      BY <1>3 DEF TimerFires
    <3>3. timers[p] - 1 \in Nat
      BY <3>1, <3>2
    <3> QED
      BY <3>1, <3>2, <3>3
  <2>2. resumeCh' \in Seq(Panes) /\ Len(resumeCh') <= ResumeQueue
    <3>1. resumeCh \in Seq(Panes) /\ Len(resumeCh) <= ResumeQueue
      BY DEF HerdTypeOK, TypeOK
    <3>2. (Len(resumeCh) < ResumeQueue /\ resumeCh' = Append(resumeCh, p)) \/ resumeCh' = resumeCh
      BY <1>3 DEF TimerFires
    <3> QED
      BY <3>1, <3>2, WatcherAssumption
  <2> QED
    BY <1>3, <2>1, <2>2 DEF TimerFires, HerdTypeOK, TypeOK
<1> QED
  BY <1>1, <1>2, <1>3

\* And the watcher.
LEMMA HerdTypeWatcher ==
  ASSUME HerdTypeOK, Placed, Watcher
  PROVE  HerdTypeOK'
<1> USE DEF tmuxVars, streamVars, loopVars, hubVars, resumeVars, pipeVars, GoTo, history
<1> DEFINE Queue == /\ events' \in Seq(Events)
                    /\ \A i \in 1 .. Len(events') :
                         events'[i].kind # "exit" => events'[i].pane \in Panes
           Channels == ops' \in [Panes -> Seq(Ops)] /\ \A q \in Panes : Len(ops'[q]) <= OpsQueue
           Listing == listed' \in [DOMAIN listed' -> PaneSizes] /\ DOMAIN listed' \subseteq seen'
<1>1. CASE SelectShutdown \/ ApplyExit \/ SeedFailsOnReconcile \/ ListFails
  BY <1>1, TeardownType DEF SelectShutdown, ApplyExit, SeedFailsOnReconcile, ListFails
<1>2. CASE SelectResume
  <2>1. Head(resumeCh) \in Panes /\ Tail(resumeCh) \in Seq(Panes) /\ Len(Tail(resumeCh)) <= ResumeQueue
    <3>1. resumeCh \in Seq(Panes) /\ Len(resumeCh) <= ResumeQueue /\ resumeCh # <<>>
      BY <1>2 DEF SelectResume, HerdTypeOK, TypeOK
    <3> QED
      BY <3>1, WatcherAssumption
  <2> QED
    BY <1>2, <2>1 DEF SelectResume, HerdTypeOK, TypeOK
<1>3. CASE ApplyOutput
  <2> DEFINE ev == Head(events)
  <2>1. Queue /\ ev \in Events /\ ev.pane \in Panes
    BY <1>3, TakeType DEF ApplyOutput, TakeEvent
  <2>2. Channels
    <3>1. [kind |-> "output", n |-> ev.n, size |-> ev.size] \in Ops
      BY <2>1 DEF Events, Ops
    <3>2. UNCHANGED ops \/ (HasRoom(ev.pane) /\ Enqueue(ev.pane, [kind |-> "output", n |-> ev.n, size |-> ev.size]))
      BY <1>3 DEF ApplyOutput
    <3>3. UNCHANGED ops => Channels
      BY DEF HerdTypeOK, TypeOK
    <3> QED
      BY <2>1, <3>1, <3>2, <3>3, EnqueueType
  <2>3. paused' \subseteq hub /\ target' \in Panes \cup {Nobody}
    BY <1>3, <2>1 DEF ApplyOutput, DroppedOutput, HerdTypeOK, TypeOK
  <2>4. wpc' \in {"drain", "pause"}
    BY <1>3 DEF ApplyOutput
  <2> QED
    BY <1>3, <2>1, <2>2, <2>3, <2>4 DEF ApplyOutput, TakeEvent, HerdTypeOK, TypeOK
<1>4. CASE ApplyPause
  <2>1. Queue /\ Head(events).pane \in Panes
    BY <1>4, TakeType DEF ApplyPause, TakeEvent
  <2>2. paused' \subseteq hub /\ timers' \in [Panes -> Nat]
    BY <1>4, <2>1, ScheduleType DEF ApplyPause, AdoptsPause, HerdTypeOK, TypeOK
  <2> QED
    BY <1>4, <2>1, <2>2 DEF ApplyPause, TakeEvent, HerdTypeOK, TypeOK
<1>5. CASE ApplyTopology
  <2>1. Queue
    BY <1>5, TakeType DEF ApplyTopology, TakeEvent
  <2> QED
    BY <1>5, <2>1 DEF ApplyTopology, TakeEvent, HerdTypeOK, TypeOK
<1>6. CASE DrainDone
  BY <1>6 DEF DrainDone, AfterDrain, HerdTypeOK, TypeOK
<1>7. CASE PauseCommand
  <2>1. target \in Panes
    BY <1>7 DEF PauseCommand, Placed, HerdTypeOK, TypeOK
  <2>2. timers' \in [Panes -> Nat] /\ tmuxPaused' \subseteq Panes
    BY <1>7, <2>1, ScheduleType DEF PauseCommand, HerdTypeOK, TypeOK
  <2>3. Queue /\ seq' \in Nat
    <3>1. Event("pause", target) \in Events /\ Event("pause", target).pane = target
      BY <2>1, EventTypes DEF Event, Kinds
    <3>2. UNCHANGED <<events, seq>> \/ Emit(Event("pause", target))
      BY <1>7 DEF PauseCommand
    <3>3. UNCHANGED <<events, seq>> => Queue /\ seq' \in Nat
      BY DEF HerdTypeOK, TypeOK
    <3> QED
      BY <2>1, <3>1, <3>2, <3>3, EmitType
  <2> QED
    BY <1>7, <2>2, <2>3 DEF PauseCommand, HerdTypeOK, TypeOK
<1>8. CASE Seed
  <2>1. target \in Panes
    BY <1>8 DEF Seed, Placed, HerdTypeOK, TypeOK
  <2>2. SeedOp(target) \in Ops
    <3>1. screen[target].n \in Nat /\ screen[target].size \in PaneSizes
      <4>1. screen[target] \in [n: 0 .. MaxOut, size: PaneSizes]
        BY <2>1 DEF HerdTypeOK, TypeOK
      <4> QED
        BY <4>1
    <3> QED
      BY <3>1 DEF SeedOp, Ops
  <2>3. Channels
    BY <1>8, <2>1, <2>2, EnqueueType DEF Seed
  <2>4. barrier' \in [Panes -> Nat]
    BY <1>8, <2>1 DEF Seed, SeedBarrier, HerdTypeOK, TypeOK
  <2> QED
    BY <1>8, <2>1, <2>3, <2>4 DEF Seed, HerdTypeOK, TypeOK
<1>9. CASE SeedFailsOnResume
  <2>1. target \in Panes
    BY <1>9 DEF SeedFailsOnResume, Placed, HerdTypeOK, TypeOK
  <2>2. timers' \in [Panes -> Nat]
    BY <1>9, <2>1, ScheduleType DEF SeedFailsOnResume, HerdTypeOK, TypeOK
  <2> QED
    BY <1>9, <2>2 DEF SeedFailsOnResume, HerdTypeOK, TypeOK
<1>10. CASE Continue
  BY <1>10 DEF Continue, HerdTypeOK, TypeOK
<1>11. CASE ContinueFails
  <2>1. target \in hub /\ target \in Panes
    BY <1>11 DEF ContinueFails, Placed, HerdTypeOK, TypeOK
  <2>2. timers' \in [Panes -> Nat] /\ paused' \subseteq hub
    BY <1>11, <2>1, ScheduleType DEF ContinueFails, HerdTypeOK, TypeOK
  <2> QED
    BY <1>11, <2>2 DEF ContinueFails, HerdTypeOK, TypeOK
<1>12. CASE ListPanes
  <2>1. Listing
    BY <1>12 DEF ListPanes, HerdTypeOK, TypeOK
  <2> QED
    BY <1>12, <2>1 DEF ListPanes, HerdTypeOK, TypeOK
<1>13. ASSUME NEW p \in Panes, ReconcileNew(p) \/ ReconcileResized(p) \/ ReconcileSame(p)
       PROVE  HerdTypeOK'
  <2>1. Listing
    BY <1>13 DEF ReconcileNew, ReconcileResized, ReconcileSame, Without, HerdTypeOK, TypeOK
  <2>2. listed[p] \in PaneSizes
    BY <1>13 DEF ReconcileNew, ReconcileResized, ReconcileSame, Listed, HerdTypeOK
  <2>3. Garbled(listed[p]) \in Emus /\ [kind |-> "resize", size |-> listed[p]] \in Ops
    BY <2>2 DEF Garbled, Emus, Ops
  <2>4. size' \in [Panes -> PaneSizes] /\ emu' \in [Panes -> Emus]
    <3>1. size' \in {size, [size EXCEPT ![p] = listed[p]]}
          /\ emu' \in {emu, [emu EXCEPT ![p] = Garbled(listed[p])]}
      BY <1>13 DEF ReconcileNew, ReconcileResized, ReconcileSame
    <3>2. size \in [Panes -> PaneSizes] /\ emu \in [Panes -> Emus]
      BY DEF HerdTypeOK, TypeOK
    <3> QED
      BY <2>2, <2>3, <3>1, <3>2
  <2>5. Channels
    <3>1. UNCHANGED ops \/ (HasRoom(p) /\ Enqueue(p, [kind |-> "resize", size |-> listed[p]]))
      BY <1>13 DEF ReconcileNew, ReconcileResized, ReconcileSame
    <3>2. UNCHANGED ops => Channels
      BY DEF HerdTypeOK, TypeOK
    <3> QED
      BY <2>3, <3>1, <3>2, EnqueueType
  <2> HIDE DEF Listing, Channels
  <2>6. /\ hub' \subseteq Panes /\ paused' \subseteq hub' /\ target' \in Panes \cup {Nobody}
        /\ wpc' \in {"seed", "reconcile"} /\ seen' \subseteq Panes
    BY <1>13 DEF ReconcileNew, ReconcileResized, ReconcileSame, Listed, HerdTypeOK, TypeOK
  <2>7. UNCHANGED <<tmuxVars, streamVars, resuming, topology, ctxDone, barrier, registry,
                    resumeVars, history>>
    BY <1>13 DEF ReconcileNew, ReconcileResized, ReconcileSame
  <2> QED
    BY <2>1, <2>4, <2>5, <2>6, <2>7 DEF Listing, Channels, HerdTypeOK, TypeOK
<1>14. CASE Sweep
  <2>1. Channels
    <3>1. ASSUME NEW q \in Panes
          PROVE  ops'[q] \in Seq(Ops) /\ Len(ops'[q]) <= OpsQueue
      <4>1. ops[q] \in Seq(Ops) /\ Len(ops[q]) <= OpsQueue
        BY DEF HerdTypeOK, TypeOK
      <4>2. <<>> \in Seq(Ops) /\ Len(<<>>) <= OpsQueue
        BY WatcherAssumption
      <4>3. ops'[q] = ops[q] \/ ops'[q] = <<>>
        BY <1>14 DEF Sweep
      <4> QED
        BY <4>1, <4>2, <4>3
    <3>2. ops' = [q \in Panes |-> ops'[q]]
      BY <1>14 DEF Sweep
    <3> QED
      BY <3>1, <3>2
  <2> QED
    BY <1>14, <2>1 DEF Sweep, Kept, HerdTypeOK, TypeOK
<1> QED
  BY <1>1, <1>2, <1>3, <1>4, <1>5, <1>6, <1>7, <1>8, <1>9, <1>10, <1>11, <1>12, <1>13, <1>14
     DEF Watcher, Apply, Reconcile, FlowControl

-----------------------------------------------------------------------------
(***************************************************************************)
(* The places of the watcher.                                              *)
(***************************************************************************)
LEMMA PlacedInit == Init => Placed
  BY DEF Init, Placed, Reconciling

\* Nobody but the watcher moves it.
LEMMA PlacedBeside ==
  ASSUME Placed, Tmux \/ Cancel \/ \E p \in Panes : Drain(p) \/ TimerFires(p)
  PROVE  Placed'
<1>1. UNCHANGED <<loopVars, hubVars>>
  BY DEF Tmux, Produce, Spawn, Die, ResizePane, Backstop, TmuxEnds, otherThanTmux, Cancel, Drain,
         TimerFires
<1> QED
  BY <1>1 DEF Placed, Reconciling, loopVars, hubVars

\* The watcher moves from place to place.
LEMMA PlacedWatcher ==
  ASSUME HerdTypeOK, Placed, Watcher
  PROVE  Placed'
<1> USE DEF GoTo, Placed, Reconciling
<1>1. CASE SelectShutdown \/ ApplyExit \/ SeedFailsOnReconcile \/ ListFails
  BY <1>1 DEF SelectShutdown, ApplyExit, SeedFailsOnReconcile, ListFails, Teardown
<1>2. CASE SelectResume
  BY <1>2 DEF SelectResume, hubVars
<1>3. CASE ApplyOutput
  BY <1>3 DEF ApplyOutput, DroppedOutput, TakeEvent
<1>4. CASE ApplyPause \/ ApplyTopology
  BY <1>4 DEF ApplyPause, ApplyTopology, TakeEvent, hubVars
<1>5. CASE DrainDone
  BY <1>5 DEF DrainDone, AfterDrain, hubVars
<1>6. CASE PauseCommand
  BY <1>6 DEF PauseCommand, hubVars
<1>7. CASE Seed
  BY <1>7 DEF Seed
<1>8. CASE SeedFailsOnResume \/ Continue \/ ContinueFails
  BY <1>8 DEF SeedFailsOnResume, Continue, ContinueFails, hubVars
<1>9. CASE ListPanes
  BY <1>9 DEF ListPanes, hubVars
<1>10. ASSUME NEW p \in Panes, ReconcileNew(p) \/ ReconcileResized(p) \/ ReconcileSame(p)
       PROVE  Placed'
  <2>1. DOMAIN listed' = DOMAIN listed \ {p} /\ p \in seen /\ wpc = "reconcile" /\ ~resuming
    BY <1>10 DEF ReconcileNew, ReconcileResized, ReconcileSame, Without, Listed, HerdTypeOK, TypeOK
  <2> QED
    BY <1>10, <2>1 DEF ReconcileNew, ReconcileResized, ReconcileSame, hubVars
<1>11. CASE Sweep
  BY <1>11 DEF Sweep
<1> QED
  BY <1>1, <1>2, <1>3, <1>4, <1>5, <1>6, <1>7, <1>8, <1>9, <1>10, <1>11
     DEF Watcher, Apply, Reconcile, FlowControl

-----------------------------------------------------------------------------
(***************************************************************************)
(* The Herd.                                                               *)
(***************************************************************************)
\* A topology event stays queued until it is taken.
LEMMA TopologyEmitted ==
  ASSUME HerdTypeOK, NEW ev, Emit(ev)
  PROVE  TopologyQueued' <=> TopologyQueued \/ ev.kind = "topology"
  BY Emitted DEF TopologyQueued

\* Any other event leaves it queued.
LEMMA TopologyTaken ==
  ASSUME HerdTypeOK, events # <<>>, events' = Tail(events), Head(events).kind # "topology"
  PROVE  TopologyQueued' <=> TopologyQueued
  BY Taken DEF TopologyQueued

\* Nothing is in the hub before the first listing.
LEMMA LivesInit == Init => Lives
  BY WatcherAssumption DEF Init, Lives, Reconciling

\* tmux announces every pane that comes, goes or changes its size.
LEMMA LivesTmux ==
  ASSUME HerdTypeOK, Lives, Tmux
  PROVE  Lives'
<1> USE DEF Lives, Reconciling, otherThanTmux, loopVars, hubVars
<1>1. ASSUME NEW p \in Panes, Produce(p) PROVE Lives'
  <2>1. TopologyQueued => TopologyQueued'
    BY <1>1, TopologyEmitted DEF Produce, streamVars, TopologyQueued
  <2> QED
    BY <1>1, <2>1 DEF Produce
<1>2. ASSUME NEW p \in Panes, Spawn(p) \/ Die(p) PROVE Lives'
  <2>1. TopologyQueued'
    BY <1>2, TopologyEmitted DEF Spawn, Die, Event
  <2> QED
    BY <1>2, <2>1 DEF Spawn, Die
<1>3. ASSUME NEW p \in Panes, NEW sz \in PaneSizes, ResizePane(p, sz) PROVE Lives'
  <2>1. TopologyQueued'
    BY <1>3, TopologyEmitted DEF ResizePane, Event
  <2> QED
    BY <1>3, <2>1 DEF ResizePane
<1>4. ASSUME NEW p \in Panes, Backstop(p) PROVE Lives'
  <2>1. TopologyQueued => TopologyQueued'
    BY <1>4, TopologyEmitted DEF Backstop
  <2> QED
    BY <1>4, <2>1 DEF Backstop
<1>5. CASE TmuxEnds
  <2>1. TopologyQueued => TopologyQueued'
    BY <1>5, TopologyEmitted DEF TmuxEnds
  <2> QED
    BY <1>5, <2>1 DEF TmuxEnds
<1> QED
  BY <1>1, <1>2, <1>3, <1>4, <1>5 DEF Tmux

\* Pipelines, timers and shutdown have no part in it.
LEMMA LivesBeside ==
  ASSUME Lives, Cancel \/ \E p \in Panes : Drain(p) \/ TimerFires(p)
  PROVE  Lives'
<1>1. UNCHANGED <<tmuxVars, streamVars, loopVars, hubVars>>
  BY DEF Cancel, Drain, TimerFires
<1> QED
  BY <1>1 DEF Lives, Reconciling, TopologyQueued, tmuxVars, streamVars, loopVars, hubVars

\* The watcher forgets an announcement only when it lists anew.
LEMMA LivesWatcher ==
  ASSUME HerdTypeOK, Placed, Lives, Watcher
  PROVE  Lives'
<1> USE DEF GoTo, Lives, Reconciling, tmuxVars, hubVars
<1>1. CASE SelectShutdown \/ ApplyExit \/ SeedFailsOnReconcile \/ ListFails
  BY <1>1 DEF SelectShutdown, ApplyExit, SeedFailsOnReconcile, ListFails, Teardown
<1>2. CASE SelectResume
  <2>1. TopologyQueued' <=> TopologyQueued
    BY <1>2 DEF SelectResume, streamVars, TopologyQueued
  <2> QED
    BY <1>2, <2>1 DEF SelectResume, Placed
<1>3. CASE ApplyOutput
  <2>1. TopologyQueued' <=> TopologyQueued
    BY <1>3, TopologyTaken DEF ApplyOutput, TakeEvent
  <2> QED
    BY <1>3, <2>1 DEF ApplyOutput, TakeEvent
<1>4. CASE ApplyPause
  <2>1. TopologyQueued' <=> TopologyQueued
    BY <1>4, TopologyTaken DEF ApplyPause, TakeEvent
  <2> QED
    BY <1>4, <2>1 DEF ApplyPause, TakeEvent
<1>5. CASE ApplyTopology
  BY <1>5 DEF ApplyTopology, TakeEvent
<1>6. CASE DrainDone
  <2>1. TopologyQueued' <=> TopologyQueued
    BY <1>6 DEF DrainDone, streamVars, TopologyQueued
  <2> QED
    BY <1>6, <2>1 DEF DrainDone, AfterDrain
<1>7. CASE PauseCommand
  <2>1. TopologyQueued => TopologyQueued'
    BY <1>7, TopologyEmitted DEF PauseCommand, streamVars, TopologyQueued
  <2> QED
    BY <1>7, <2>1 DEF PauseCommand
<1>8. CASE Seed
  <2>1. TopologyQueued' <=> TopologyQueued
    BY <1>8 DEF Seed, streamVars, TopologyQueued
  <2> QED
    BY <1>8, <2>1 DEF Seed
<1>9. CASE SeedFailsOnResume \/ Continue \/ ContinueFails
  <2>1. TopologyQueued' <=> TopologyQueued
    BY <1>9 DEF SeedFailsOnResume, Continue, ContinueFails, streamVars, TopologyQueued
  <2> QED
    BY <1>9, <2>1 DEF SeedFailsOnResume, Continue, ContinueFails
<1>10. CASE ListPanes
  <2>1. DOMAIN listed' = alive /\ seen' = alive
    BY <1>10 DEF ListPanes
  <2> QED
    BY <1>10, <2>1 DEF ListPanes
<1>11. ASSUME NEW p \in Panes, ReconcileNew(p) \/ ReconcileResized(p) \/ ReconcileSame(p)
       PROVE  Lives'
  <2>1. DOMAIN listed' = DOMAIN listed \ {p} /\ p \in seen /\ wpc = "reconcile" /\ ~resuming
    BY <1>11 DEF ReconcileNew, ReconcileResized, ReconcileSame, Without, Listed, HerdTypeOK, TypeOK,
                 Placed
  <2>2. TopologyQueued' <=> TopologyQueued
    BY <1>11 DEF ReconcileNew, ReconcileResized, ReconcileSame, streamVars, TopologyQueued
  <2> QED
    BY <1>11, <2>1, <2>2 DEF ReconcileNew, ReconcileResized, ReconcileSame
<1>12. CASE Sweep
  <2>1. TopologyQueued' <=> TopologyQueued
    BY <1>12 DEF Sweep, streamVars, TopologyQueued
  <2> QED
    BY <1>12, <2>1 DEF Sweep, Kept
<1> QED
  BY <1>1, <1>2, <1>3, <1>4, <1>5, <1>6, <1>7, <1>8, <1>9, <1>10, <1>11, <1>12
     DEF Watcher, Apply, Reconcile, FlowControl

-----------------------------------------------------------------------------
(***************************************************************************)
(* Resume signals.                                                         *)
(***************************************************************************)
Occurrences(q, p) == {i \in DOMAIN q : q[i] = p}

\* Counting the places of p in a queue that grows at its end.
LEMMA CountAppend ==
  ASSUME NEW q \in Seq(Panes), NEW r \in Panes, NEW p
  PROVE  /\ Cardinality(Occurrences(q, p)) \in Nat
         /\ Cardinality(Occurrences(Append(q, r), p))
              = Cardinality(Occurrences(q, p)) + (IF r = p THEN 1 ELSE 0)
<1>1. Len(q) \in Nat /\ DOMAIN q = 1 .. Len(q) /\ DOMAIN Append(q, r) = 1 .. Len(q) + 1
      /\ Append(q, r)[Len(q) + 1] = r /\ \A i \in 1 .. Len(q) : Append(q, r)[i] = q[i]
  OBVIOUS
<1>2. IsFiniteSet(1 .. Len(q))
  BY <1>1, FS_Interval
<1>3. IsFiniteSet(Occurrences(q, p)) /\ Cardinality(Occurrences(q, p)) \in Nat
  BY <1>1, <1>2, FS_Subset, FS_CardinalityType DEF Occurrences
<1>4. CASE r = p
  <2>1. Occurrences(Append(q, r), p) = Occurrences(q, p) \cup {Len(q) + 1}
    BY <1>1, <1>4 DEF Occurrences
  <2>2. Len(q) + 1 \notin Occurrences(q, p)
    BY <1>1 DEF Occurrences
  <2> QED
    BY <1>3, <1>4, <2>1, <2>2, FS_AddElement
<1>5. CASE r # p
  <2>1. Occurrences(Append(q, r), p) = Occurrences(q, p)
    BY <1>1, <1>5 DEF Occurrences
  <2> QED
    BY <1>3, <1>5, <2>1
<1> QED
  BY <1>3, <1>4, <1>5

\* And shrinks at its head.
LEMMA CountTail ==
  ASSUME NEW q \in Seq(Panes), q # <<>>, NEW p
  PROVE  /\ Cardinality(Occurrences(Tail(q), p)) \in Nat
         /\ Cardinality(Occurrences(q, p))
              = Cardinality(Occurrences(Tail(q), p)) + (IF Head(q) = p THEN 1 ELSE 0)
<1> DEFINE S == Occurrences(Tail(q), p)
           T == Occurrences(q, p) \ {1}
           f == [i \in S |-> i + 1]
<1>1. /\ Len(q) \in Nat \ {0} /\ DOMAIN q = 1 .. Len(q) /\ DOMAIN Tail(q) = 1 .. Len(q) - 1
      /\ Head(q) = q[1] /\ \A i \in 1 .. Len(q) - 1 : Tail(q)[i] = q[i + 1]
  OBVIOUS
<1>2. IsFiniteSet(S) /\ Cardinality(S) \in Nat
  <2>1. IsFiniteSet(1 .. Len(q) - 1)
    BY <1>1, FS_Interval
  <2> QED
    BY <1>1, <2>1, FS_Subset, FS_CardinalityType DEF Occurrences
<1>3. f \in Bijection(S, T)
  <2>1. S \subseteq 1 .. Len(q) - 1
    BY <1>1 DEF Occurrences
  <2>2. f \in [S -> T]
    BY <1>1 DEF Occurrences
  <2>3. \A a, b \in S : f[a] = f[b] => a = b
    BY <2>1
  <2>4. \A t \in T : \E a \in S : f[a] = t
    <3> SUFFICES ASSUME NEW t \in T PROVE t - 1 \in S /\ f[t - 1] = t
      OBVIOUS
    <3>1. t \in 2 .. Len(q) /\ q[t] = p
      BY <1>1 DEF Occurrences
    <3>2. t - 1 \in 1 .. Len(q) - 1 /\ Tail(q)[t - 1] = q[t] /\ (t - 1) + 1 = t
      BY <1>1, <3>1
    <3> QED
      BY <1>1, <3>1, <3>2 DEF Occurrences
  <2> QED
    BY <2>2, <2>3, <2>4 DEF Bijection, Injection, Surjection, IsInjective
<1> HIDE DEF f, S, T
<1>4. IsFiniteSet(T) /\ Cardinality(T) = Cardinality(S)
  BY <1>2, <1>3, FS_Bijection DEF ExistsBijection
<1>5. CASE Head(q) = p
  <2>1. Occurrences(q, p) = T \cup {1} /\ 1 \notin T
    BY <1>1, <1>5 DEF Occurrences, T
  <2> QED
    BY <1>2, <1>4, <1>5, <2>1, FS_AddElement DEF S
<1>6. CASE Head(q) # p
  <2>1. Occurrences(q, p) = T
    BY <1>1, <1>6 DEF Occurrences, T
  <2> QED
    BY <1>2, <1>4, <1>6, <2>1 DEF S
<1> QED
  BY <1>5, <1>6

\* Signals counts timers and the queue.
LEMMA SignalsCount ==
  ASSUME HerdTypeOK, NEW p \in Panes
  PROVE  /\ Signals(p) = timers[p] + Cardinality(Occurrences(resumeCh, p))
         /\ timers[p] \in Nat /\ Cardinality(Occurrences(resumeCh, p)) \in Nat
<1>1. Cardinality(Occurrences(resumeCh, p)) \in Nat
  BY CountAppend DEF HerdTypeOK
<1> QED
  BY <1>1 DEF HerdTypeOK, TypeOK, Signals, Occurrences

\* What does not touch them leaves them alone.
LEMMA SignalsKept ==
  ASSUME UNCHANGED resumeVars, NEW p
  PROVE  (Signals(p))' = Signals(p)
  BY DEF Signals, resumeVars

\* A resume that is scheduled is one more signal.
LEMMA SignalsScheduled ==
  ASSUME HerdTypeOK, NEW p \in Panes, NEW q \in Panes, scheduleResume(p), UNCHANGED resumeCh
  PROVE  (Signals(q))' = Signals(q) + (IF q = p THEN 1 ELSE 0)
<1>1. timers' = [timers EXCEPT ![p] = @ + 1] /\ timers \in [Panes -> Nat]
  BY DEF HerdTypeOK, TypeOK, scheduleResume
<1>2. (Signals(q))' = timers'[q] + Cardinality(Occurrences(resumeCh, q))
  BY DEF Signals, Occurrences
<1> QED
  BY <1>1, <1>2, SignalsCount

\* One that is taken is one less.
LEMMA SignalsTaken ==
  ASSUME HerdTypeOK, NEW q \in Panes, resumeCh # <<>>, resumeCh' = Tail(resumeCh), UNCHANGED timers
  PROVE  Signals(q) = (Signals(q))' + (IF Head(resumeCh) = q THEN 1 ELSE 0) /\ (Signals(q))' \in Nat
<1>1. resumeCh \in Seq(Panes)
  BY DEF HerdTypeOK
<1>2. (Signals(q))' = timers[q] + Cardinality(Occurrences(Tail(resumeCh), q))
  BY DEF Signals, Occurrences
<1> QED
  BY <1>1, <1>2, CountTail, SignalsCount

\* A timer hands its signal on.
LEMMA SignalsFired ==
  ASSUME HerdTypeOK, NEW p \in Panes, NEW q \in Panes, TimerFires(p), wpc # "ended"
  PROVE  (Signals(q))' = Signals(q)
<1>1. resumeCh' = Append(resumeCh, p) /\ resumeCh \in Seq(Panes)
      /\ timers' = [timers EXCEPT ![p] = @ - 1] /\ timers \in [Panes -> Nat]
  BY DEF TimerFires, HerdTypeOK, TypeOK
<1>2. (Signals(q))' = timers'[q] + Cardinality(Occurrences(Append(resumeCh, p), q))
  BY <1>1 DEF Signals, Occurrences
<1> QED
  BY <1>1, <1>2, CountAppend, SignalsCount

\* No pane is paused, no signal outstanding.
LEMMA SignalledInit == Init => Signalled
<1> SUFFICES ASSUME Init PROVE Signalled
  OBVIOUS
<1>1. \A p \in Panes : Signals(p) = 0
  <2> SUFFICES ASSUME NEW p \in Panes PROVE Signals(p) = 0
    OBVIOUS
  <2>1. {i \in DOMAIN resumeCh : resumeCh[i] = p} = {}
    BY DEF Init
  <2> QED
    BY <2>1, FS_EmptySet DEF Init, Signals
<1> QED
  BY <1>1, WatcherAssumption DEF Init, Signalled, Fresh

\* A timer that fires moves its signal; nobody else touches one.
LEMMA SignalledBeside ==
  ASSUME HerdTypeOK, Placed, Signalled, Tmux \/ Cancel \/ \E p \in Panes : Drain(p) \/ TimerFires(p)
  PROVE  Signalled'
<1> USE DEF Signalled, Between, Fresh, loopVars, hubVars
<1>1. CASE Tmux
  <2>1. UNCHANGED <<loopVars, ctxDone, hubVars, resumeVars>>
    BY <1>1 DEF Tmux, Produce, Spawn, Die, ResizePane, Backstop, TmuxEnds, otherThanTmux
  <2>2. alive' \cup unborn' \subseteq alive \cup unborn
    BY <1>1 DEF Tmux, Produce, Spawn, Die, ResizePane, Backstop, TmuxEnds
  <2> QED
    BY <2>1, <2>2, SignalsKept
<1>2. CASE Cancel
  <2>1. \A p : (Signals(p))' = Signals(p)
    BY <1>2, SignalsKept DEF Cancel
  <2> QED
    BY <1>2, <2>1 DEF Cancel, tmuxVars
<1>3. ASSUME NEW p \in Panes, Drain(p) PROVE Signalled'
  <2>1. \A q : (Signals(q))' = Signals(q)
    BY <1>3, SignalsKept DEF Drain
  <2> QED
    BY <1>3, <2>1 DEF Drain, tmuxVars
<1>4. ASSUME NEW p \in Panes, TimerFires(p) PROVE Signalled'
  <2>1. wpc # "ended" => \A q \in Panes : (Signals(q))' = Signals(q)
    BY <1>4, SignalsFired
  <2>2. Fresh \subseteq Panes /\ hub \subseteq Panes
    BY DEF HerdTypeOK, TypeOK
  <2> QED
    BY <1>4, <2>1, <2>2 DEF TimerFires, tmuxVars, Placed
<1> QED
  BY <1>1, <1>2, <1>3, <1>4

\* The watcher schedules one resume per pause and takes one per outcome.
LEMMA SignalledWatcher ==
  ASSUME HerdTypeOK, Placed, Lives, Signalled, Watcher
  PROVE  Signalled'
<1> USE DEF GoTo, Signalled, Between, Fresh, hubVars
<1>0. hub \subseteq Panes /\ paused \subseteq hub /\ Fresh \subseteq Panes /\ target \in Panes \cup {Nobody}
  BY DEF HerdTypeOK, TypeOK
<1>1. CASE SelectShutdown \/ ApplyExit \/ SeedFailsOnReconcile \/ ListFails
  BY <1>1 DEF SelectShutdown, ApplyExit, SeedFailsOnReconcile, ListFails, Teardown
<1>2. CASE SelectResume
  <2> DEFINE r == Head(resumeCh)
  <2>1. \A q \in Panes : Signals(q) = (Signals(q))' + (IF r = q THEN 1 ELSE 0) /\ (Signals(q))' \in Nat
    BY <1>2, SignalsTaken DEF SelectResume
  <2>2. UNCHANGED <<alive, unborn, hub, paused, listed, ctxDone>> /\ wpc = "select"
        /\ wpc' \in {"select", "seed"}
    BY <1>2 DEF SelectResume, tmuxVars
  <2>3. CASE r \in hub \cap paused
    <3>1. wpc' = "seed" /\ target' = r /\ resuming'
      BY <1>2, <2>3 DEF SelectResume
    <3> QED
      BY <1>0, <2>1, <2>2, <2>3, <3>1
  <2>4. CASE r \notin hub \cap paused
    <3>1. wpc' = "select" /\ UNCHANGED target
      BY <1>2, <2>4 DEF SelectResume
    <3>2. \A q \in Fresh : r # q
      BY <1>0, <2>1, <2>2
    <3>3. ~ctxDone => \A q \in hub : r # q
      BY <1>0, <2>1, <2>2, <2>4
    <3> QED
      BY <1>0, <2>1, <2>2, <3>1, <3>2, <3>3
  <2> QED
    BY <2>3, <2>4
<1>3. CASE ApplyOutput
  <2>1. \A q : (Signals(q))' = Signals(q)
    BY <1>3, SignalsKept DEF ApplyOutput
  <2> QED
    BY <1>0, <1>3, <2>1 DEF ApplyOutput, TakeEvent, DroppedOutput, tmuxVars
<1>4. CASE ApplyPause
  <2> DEFINE p == Head(events).pane
  <2>1. CASE AdoptsPause(p)
    <3>1. p \in hub \ paused /\ paused' = paused \cup {p} /\ scheduleResume(p) /\ UNCHANGED resumeCh
      BY <1>4, <2>1 DEF ApplyPause, AdoptsPause
    <3>2. \A q \in Panes : (Signals(q))' = Signals(q) + (IF q = p THEN 1 ELSE 0)
      BY <1>0, <3>1, SignalsScheduled
    <3> QED
      BY <1>0, <1>4, <3>1, <3>2 DEF ApplyPause, TakeEvent, tmuxVars
  <2>2. CASE ~AdoptsPause(p)
    <3>1. UNCHANGED <<paused, resumeVars>>
      BY <1>4, <2>2 DEF ApplyPause, resumeVars
    <3>2. \A q : (Signals(q))' = Signals(q)
      BY <3>1, SignalsKept
    <3> QED
      BY <1>4, <3>1, <3>2 DEF ApplyPause, TakeEvent, tmuxVars
  <2> QED
    BY <2>1, <2>2
<1>5. CASE ApplyTopology \/ DrainDone
  <2>1. \A q : (Signals(q))' = Signals(q)
    BY <1>5, SignalsKept DEF ApplyTopology, DrainDone
  <2> QED
    BY <1>5, <2>1 DEF ApplyTopology, DrainDone, AfterDrain, TakeEvent, tmuxVars
<1>6. CASE PauseCommand \/ SeedFailsOnResume \/ ContinueFails
  <2>1. target \in hub /\ ~(target \in paused /\ ~Between(target)) /\ wpc # "ended"
    BY <1>6 DEF PauseCommand, SeedFailsOnResume, ContinueFails, Placed
  <2>2. UNCHANGED <<alive, unborn, hub, listed, ctxDone, resumeCh>> /\ wpc' \in {"drain", "select"}
    BY <1>6 DEF PauseCommand, SeedFailsOnResume, ContinueFails, tmuxVars
  <2>3. scheduleResume(target) \/ (ctxDone /\ UNCHANGED resumeVars)
    BY <1>6, <2>2 DEF PauseCommand, SeedFailsOnResume, ContinueFails, Reschedule, resumeVars
  <2>4. ~ctxDone => paused' = paused \cup {target}
    BY <1>6 DEF PauseCommand, SeedFailsOnResume, ContinueFails, Placed
  <2>5. CASE ctxDone
    <3>1. target \notin Fresh
      BY <2>1
    <3>2. \A q \in Fresh : (Signals(q))' = Signals(q)
      BY <1>0, <2>1, <2>2, <2>3, <3>1, SignalsKept, SignalsScheduled, SignalsCount
    <3> QED
      BY <2>1, <2>2, <2>5, <3>2
  <2>6. CASE ~ctxDone
    <3>1. \A q \in Panes : (Signals(q))' = Signals(q) + (IF q = target THEN 1 ELSE 0)
      BY <1>0, <2>1, <2>2, <2>3, <2>6, SignalsScheduled
    <3> QED
      BY <1>0, <2>1, <2>2, <2>4, <2>6, <3>1
  <2> QED
    BY <2>5, <2>6
<1>7. CASE Seed
  <2>1. \A q : (Signals(q))' = Signals(q)
    BY <1>7, SignalsKept DEF Seed
  <2> QED
    BY <1>7, <2>1 DEF Seed, Placed, tmuxVars
<1>8. CASE Continue
  <2>1. \A q : (Signals(q))' = Signals(q)
    BY <1>8, SignalsKept DEF Continue
  <2> QED
    BY <1>8, <2>1 DEF Continue
<1>9. CASE ListPanes
  <2>1. \A q : (Signals(q))' = Signals(q)
    BY <1>9, SignalsKept DEF ListPanes
  <2>2. DOMAIN listed' = alive
    BY <1>9 DEF ListPanes
  <2> QED
    BY <1>9, <2>1, <2>2 DEF ListPanes, tmuxVars
<1>10. ASSUME NEW p \in Panes, ReconcileNew(p) \/ ReconcileResized(p) \/ ReconcileSame(p)
       PROVE  Signalled'
  <2>1. DOMAIN listed' = DOMAIN listed \ {p} /\ wpc = "reconcile" /\ ~resuming /\ p \in DOMAIN listed
    BY <1>10 DEF ReconcileNew, ReconcileResized, ReconcileSame, Without, Listed, Placed
  <2>2. \A q : (Signals(q))' = Signals(q)
    BY <1>10, SignalsKept DEF ReconcileNew, ReconcileResized, ReconcileSame
  <2> QED
    BY <1>0, <1>10, <2>1, <2>2 DEF ReconcileNew, ReconcileResized, ReconcileSame, tmuxVars
<1>11. CASE Sweep
  <2>1. \A q : (Signals(q))' = Signals(q)
    BY <1>11, SignalsKept DEF Sweep
  <2> QED
    BY <1>11, <2>1 DEF Sweep, Kept, Lives, Reconciling, tmuxVars
<1> QED
  BY <1>1, <1>2, <1>3, <1>4, <1>5, <1>6, <1>7, <1>8, <1>9, <1>10, <1>11
     DEF Watcher, Apply, Reconcile, FlowControl

-----------------------------------------------------------------------------
(***************************************************************************)
(* Pauses of tmux's own.                                                   *)
(***************************************************************************)
PauseQueued(p) == \E i \in DOMAIN events : events[i].kind = "pause" /\ events[i].pane = p

\* A %pause stays queued until it is taken.
LEMMA PauseEmitted ==
  ASSUME HerdTypeOK, NEW ev, Emit(ev), NEW p
  PROVE  (PauseQueued(p))' <=> PauseQueued(p) \/ (ev.kind = "pause" /\ ev.pane = p)
<1>1. DOMAIN events = 1 .. Len(events) /\ DOMAIN events' = 1 .. Len(events')
  BY DEF HerdTypeOK, Emit
<1>2. DOMAIN events' = DOMAIN events \cup {Len(events) + 1}
  <2>1. \A n \in Nat : 1 .. n + 1 = (1 .. n) \cup {n + 1}
    OBVIOUS
  <2>2. Len(events) \in Nat /\ Len(events') = Len(events) + 1
    BY Emitted
  <2> QED
    BY <1>1, <2>1, <2>2
<1>3. (PauseQueued(p))' <=> \E i \in DOMAIN events' : events'[i].kind = "pause" /\ events'[i].pane = p
  BY DEF PauseQueued
<1> QED
  BY <1>1, <1>2, <1>3, Emitted DEF PauseQueued

\* A %pause leaves the queue only when it is taken.
LEMMA PauseTaken ==
  ASSUME HerdTypeOK, events # <<>>, events' = Tail(events), NEW p, PauseQueued(p)
  PROVE  (PauseQueued(p))' \/ (Head(events).kind = "pause" /\ Head(events).pane = p)
<1>1. DOMAIN events = 1 .. Len(events) /\ DOMAIN events' = 1 .. Len(events')
  BY DEF HerdTypeOK
<1>2. PICK i \in DOMAIN events : events[i].kind = "pause" /\ events[i].pane = p
  BY DEF PauseQueued
<1>3. CASE i = 1
  BY <1>2, <1>3, Taken
<1>4. CASE i # 1
  <2>1. i \in 2 .. Len(events)
    BY <1>1, <1>4
  <2>2. i - 1 \in DOMAIN events' /\ events'[i - 1] = events[i]
    BY <1>1, <2>1, Taken
  <2> QED
    BY <1>2, <2>2 DEF PauseQueued
<1> QED
  BY <1>3, <1>4

\* What leaves the queue alone leaves it queued.
LEMMA PauseKept ==
  ASSUME UNCHANGED events, NEW p
  PROVE  (PauseQueued(p))' <=> PauseQueued(p)
  BY DEF PauseQueued

\* tmux withholds nothing at first.
LEMMA KnownInit == Init => Known
  BY DEF Init, Known

\* A pause of tmux's own is announced with it.
LEMMA KnownTmux ==
  ASSUME HerdTypeOK, Known, Tmux
  PROVE  Known'
<1> USE DEF Known, KnowsPause, PauseQueued, otherThanTmux, loopVars, hubVars, history
<1>1. ASSUME NEW p \in Panes, Produce(p) PROVE Known'
  <2>1. \A q : PauseQueued(q) => (PauseQueued(q))'
    BY <1>1, PauseEmitted DEF Produce, streamVars
  <2> QED
    BY <1>1, <2>1 DEF Produce
<1>2. ASSUME NEW p \in Panes, Spawn(p) \/ Die(p) PROVE Known'
  <2>1. \A q : PauseQueued(q) => (PauseQueued(q))'
    BY <1>2, PauseEmitted DEF Spawn, Die
  <2> QED
    BY <1>2, <2>1 DEF Spawn, Die
<1>3. ASSUME NEW p \in Panes, NEW sz \in PaneSizes, ResizePane(p, sz) PROVE Known'
  <2>1. \A q : PauseQueued(q) => (PauseQueued(q))'
    BY <1>3, PauseEmitted DEF ResizePane
  <2> QED
    BY <1>3, <2>1 DEF ResizePane
<1>4. ASSUME NEW p \in Panes, Backstop(p) PROVE Known'
  <2>1. \A q : PauseQueued(q) \/ q = p => (PauseQueued(q))'
    BY <1>4, PauseEmitted DEF Backstop, Event
  <2> QED
    BY <1>4, <2>1 DEF Backstop
<1>5. CASE TmuxEnds
  BY <1>5 DEF TmuxEnds
<1> QED
  BY <1>1, <1>2, <1>3, <1>4, <1>5 DEF Tmux

\* Pipelines, timers and shutdown pause nothing.
LEMMA KnownBeside ==
  ASSUME Known, Cancel \/ \E p \in Panes : Drain(p) \/ TimerFires(p)
  PROVE  Known'
<1>1. UNCHANGED <<tmuxVars, streamVars, loopVars, hubVars, history>> /\ (ctxDone => ctxDone')
  BY DEF Cancel, Drain, TimerFires
<1> QED
  BY <1>1 DEF Known, KnowsPause, tmuxVars, streamVars, loopVars, hubVars, history

\* The watcher marks what it takes, and unmarks only what it continues.
LEMMA KnownWatcher ==
  ASSUME HerdTypeOK, Placed, Lives, Known, Watcher
  PROVE  Known'
<1> USE DEF GoTo, Known, KnowsPause, PauseQueued, tmuxVars, hubVars, history
<1>1. CASE SelectShutdown \/ ApplyExit \/ SeedFailsOnReconcile \/ ListFails
  BY <1>1 DEF SelectShutdown, ApplyExit, SeedFailsOnReconcile, ListFails, Teardown
<1>2. CASE SelectResume \/ DrainDone
  <2>1. \A q : PauseQueued(q) => (PauseQueued(q))'
    BY <1>2, PauseKept DEF SelectResume, DrainDone, streamVars
  <2> QED
    BY <1>2, <2>1 DEF SelectResume, DrainDone
<1>3. CASE ApplyOutput
  <2>1. \A q : PauseQueued(q) => (PauseQueued(q))'
    BY <1>3, PauseTaken DEF ApplyOutput, TakeEvent
  <2> QED
    BY <1>3, <2>1 DEF ApplyOutput, TakeEvent
<1>4. CASE ApplyPause
  <2>1. \A q : PauseQueued(q) => (PauseQueued(q))' \/ Head(events).pane = q
    BY <1>4, PauseTaken DEF ApplyPause, TakeEvent
  <2>2. Head(events).pane \in paused' \cup unheard' /\ unheard \subseteq unheard'
    BY <1>4 DEF ApplyPause, AdoptsPause
  <2> QED
    BY <1>4, <2>1, <2>2 DEF ApplyPause, TakeEvent
<1>5. CASE ApplyTopology
  <2>1. \A q : PauseQueued(q) => (PauseQueued(q))'
    BY <1>5, PauseTaken DEF ApplyTopology, TakeEvent
  <2> QED
    BY <1>5, <2>1 DEF ApplyTopology, TakeEvent
<1>6. CASE PauseCommand
  <2>1. \A q : PauseQueued(q) => (PauseQueued(q))'
    BY <1>6, PauseEmitted, PauseKept DEF PauseCommand, streamVars
  <2>2. target \in hub /\ target \in paused
    BY <1>6 DEF PauseCommand, Placed
  <2>3. tmuxPaused' \subseteq alive /\ tmuxPaused' \subseteq tmuxPaused \cup {target}
    BY <1>6 DEF PauseCommand, PaneCommandWorks
  <2> QED
    BY <1>6, <2>1, <2>2, <2>3 DEF PauseCommand
<1>7. CASE Seed
  <2>1. \A q : PauseQueued(q) => (PauseQueued(q))'
    BY <1>7, PauseKept DEF Seed, streamVars
  <2> QED
    BY <1>7, <2>1 DEF Seed
<1>8. CASE SeedFailsOnResume \/ Continue \/ ContinueFails
  <2>1. \A q : PauseQueued(q) => (PauseQueued(q))'
    BY <1>8, PauseKept DEF SeedFailsOnResume, Continue, ContinueFails, streamVars
  <2> QED
    BY <1>8, <2>1 DEF SeedFailsOnResume, Continue, ContinueFails
<1>9. CASE ListPanes
  <2>1. \A q : PauseQueued(q) => (PauseQueued(q))'
    BY <1>9, PauseKept DEF ListPanes, streamVars
  <2> QED
    BY <1>9, <2>1 DEF ListPanes
<1>10. ASSUME NEW p \in Panes, ReconcileNew(p) \/ ReconcileResized(p) \/ ReconcileSame(p)
       PROVE  Known'
  <2>1. \A q : PauseQueued(q) => (PauseQueued(q))'
    BY <1>10, PauseKept DEF ReconcileNew, ReconcileResized, ReconcileSame, streamVars
  <2> QED
    BY <1>10, <2>1 DEF ReconcileNew, ReconcileResized, ReconcileSame, Listed
<1>11. CASE Sweep
  <2>1. \A q : PauseQueued(q) => (PauseQueued(q))'
    BY <1>11, PauseKept DEF Sweep, streamVars
  <2>2. paused \cap alive \subseteq paused'
    BY <1>11 DEF Sweep, Lives, Reconciling, HerdTypeOK, TypeOK
  <2> QED
    BY <1>11, <2>1, <2>2 DEF Sweep
<1> QED
  BY <1>1, <1>2, <1>3, <1>4, <1>5, <1>6, <1>7, <1>8, <1>9, <1>10, <1>11
     DEF Watcher, Apply, Reconcile, FlowControl

-----------------------------------------------------------------------------
(***************************************************************************)
(* Recorded sizes.                                                         *)
(***************************************************************************)
LEMMA SizedInit == Init => Sized
  BY DEF Init, Sized

\* tmux announces a resize.
LEMMA SizedTmux ==
  ASSUME HerdTypeOK, Sized, Tmux
  PROVE  Sized'
<1> USE DEF Sized, otherThanTmux, loopVars, hubVars, history
<1>1. ASSUME NEW p \in Panes, Produce(p) PROVE Sized'
  <2>1. TopologyQueued => TopologyQueued'
    BY <1>1, TopologyEmitted DEF Produce, streamVars, TopologyQueued
  <2>2. \A q \in Panes : screen'[q].size = screen[q].size
    BY <1>1 DEF Produce, HerdTypeOK, TypeOK
  <2> QED
    BY <1>1, <2>1, <2>2 DEF Produce, HerdTypeOK, TypeOK
<1>2. ASSUME NEW p \in Panes, Spawn(p) \/ Die(p) \/ \E sz \in PaneSizes : ResizePane(p, sz)
      PROVE  Sized'
  <2>1. TopologyQueued'
    BY <1>2, TopologyEmitted DEF Spawn, Die, ResizePane, Event
  <2> QED
    BY <2>1
<1>3. CASE TmuxEnds \/ \E p \in Panes : Backstop(p)
  <2>1. TopologyQueued => TopologyQueued'
    BY <1>3, TopologyEmitted DEF TmuxEnds, Backstop
  <2> QED
    BY <1>3, <2>1 DEF TmuxEnds, Backstop
<1> QED
  BY <1>1, <1>2, <1>3 DEF Tmux

\* Nobody else records a size.
LEMMA SizedBeside ==
  ASSUME Sized, Cancel \/ \E p \in Panes : Drain(p) \/ TimerFires(p)
  PROVE  Sized'
<1>1. UNCHANGED <<tmuxVars, streamVars, loopVars, hubVars, history>>
  BY DEF Cancel, Drain, TimerFires
<1> QED
  BY <1>1 DEF Sized, TopologyQueued, tmuxVars, streamVars, loopVars, hubVars, history

\* The watcher drops an announcement only to list anew.
LEMMA SizedWatcher ==
  ASSUME HerdTypeOK, Placed, Sized, Watcher
  PROVE  Sized'
<1> USE DEF GoTo, Sized, tmuxVars, hubVars, history
<1>1. CASE SelectShutdown \/ ApplyExit \/ SeedFailsOnReconcile \/ ListFails
  BY <1>1 DEF SelectShutdown, ApplyExit, SeedFailsOnReconcile, ListFails, Teardown
<1>2. CASE SelectResume \/ Seed \/ SeedFailsOnResume \/ Continue \/ ContinueFails
  <2>1. TopologyQueued' <=> TopologyQueued
    BY <1>2 DEF SelectResume, Seed, SeedFailsOnResume, Continue, ContinueFails, streamVars,
                TopologyQueued
  <2> QED
    BY <1>2, <2>1 DEF SelectResume, Seed, SeedFailsOnResume, Continue, ContinueFails
<1>3. CASE ApplyOutput \/ ApplyPause
  <2>1. TopologyQueued' <=> TopologyQueued
    BY <1>3, TopologyTaken DEF ApplyOutput, ApplyPause, TakeEvent
  <2> QED
    BY <1>3, <2>1 DEF ApplyOutput, ApplyPause, TakeEvent
<1>4. CASE ApplyTopology
  BY <1>4 DEF ApplyTopology, TakeEvent, Placed, Reconciling
<1>5. CASE DrainDone
  <2>1. TopologyQueued' <=> TopologyQueued
    BY <1>5 DEF DrainDone, streamVars, TopologyQueued
  <2> QED
    BY <1>5, <2>1 DEF DrainDone, AfterDrain
<1>6. CASE PauseCommand
  <2>1. TopologyQueued => TopologyQueued'
    BY <1>6, TopologyEmitted DEF PauseCommand, streamVars, TopologyQueued
  <2> QED
    BY <1>6, <2>1 DEF PauseCommand
<1>7. CASE ListPanes
  BY <1>7 DEF ListPanes
<1>8. ASSUME NEW p \in Panes, ReconcileNew(p) \/ ReconcileResized(p) \/ ReconcileSame(p)
      PROVE  Sized'
  <2>1. /\ DOMAIN listed' = DOMAIN listed \ {p} /\ p \in DOMAIN listed /\ wpc = "reconcile"
        /\ \A q \in DOMAIN listed' : listed'[q] = listed[q]
    BY <1>8 DEF ReconcileNew, ReconcileResized, ReconcileSame, Without, Listed
  <2>2. TopologyQueued' <=> TopologyQueued
    BY <1>8 DEF ReconcileNew, ReconcileResized, ReconcileSame, streamVars, TopologyQueued
  <2>3. size'[p] = listed[p] /\ \A q \in hub : q # p => size'[q] = size[q]
    BY <1>8 DEF ReconcileNew, ReconcileResized, ReconcileSame, HerdTypeOK, TypeOK
  <2>4. hub' \subseteq hub \cup {p} /\ ~topology
    BY <1>8, <2>1 DEF ReconcileNew, ReconcileResized, ReconcileSame, Placed
  <2> QED
    <3>1. \A q \in DOMAIN listed' : q \in alive' => listed'[q] = screen'[q].size \/ TopologyQueued'
      BY <1>8, <2>1, <2>2 DEF ReconcileNew, ReconcileResized, ReconcileSame
    <3>2. \A q \in hub' \cap alive' : size'[q] = screen'[q].size \/ TopologyQueued' \/ q \in DOMAIN listed'
      BY <1>8, <2>1, <2>2, <2>3, <2>4 DEF ReconcileNew, ReconcileResized, ReconcileSame
    <3>3. ASSUME NEW q \in hub' \cap alive' \cap reflowed'
          PROVE  \/ q \in swung' \/ TopologyQueued'
                 \/ wpc' = "seed" /\ ~resuming' /\ target' = q
                 \/ size'[q] # screen'[q].size
      <4>1. CASE q = p /\ (ReconcileNew(p) \/ ReconcileResized(p))
        <5>1. ~resuming
          BY <2>1 DEF Placed
        <5> QED
          BY <4>1, <5>1 DEF ReconcileNew, ReconcileResized
      <4>2. CASE q # p \/ ReconcileSame(p)
        <5>1. q \in hub \cap alive \cap reflowed /\ size'[q] = size[q]
          BY <1>8, <2>3, <2>4, <4>2 DEF ReconcileNew, ReconcileResized, ReconcileSame
        <5>2. UNCHANGED <<swung, screen>>
          BY <1>8 DEF ReconcileNew, ReconcileResized, ReconcileSame
        <5> QED
          BY <2>1, <2>2, <2>4, <5>1, <5>2
      <4> QED
        BY <1>8, <4>1, <4>2
    <3> QED
      BY <3>1, <3>2, <3>3
<1>9. CASE Sweep
  <2>1. TopologyQueued' <=> TopologyQueued
    BY <1>9 DEF Sweep, streamVars, TopologyQueued
  <2> QED
    BY <1>9, <2>1 DEF Sweep, Kept
<1> QED
  BY <1>1, <1>2, <1>3, <1>4, <1>5, <1>6, <1>7, <1>8, <1>9
     DEF Watcher, Apply, Reconcile, FlowControl

-----------------------------------------------------------------------------
(***************************************************************************)
(* Seeds and live output: the ops a pipeline has queued.                   *)
(***************************************************************************)
\* Only a resize changes the size.
LEMMA EmuApplySize ==
  ASSUME NEW e \in Emus, NEW op \in Ops
  PROVE  EmuApply(e, op).size = IF op.kind = "resize" THEN op.size ELSE e.size
<1>1. e.size = [e EXCEPT !.n = op.n].size
  BY DEF Emus
<1> QED
  BY <1>1 DEF EmuApply, Garbled, Ops

\* No op changes nothing.
LEMMA AppliesNothing ==
  ASSUME NEW e \in Emus
  PROVE  Applies(<<>>, e, e)
<1> DEFINE f == [i \in 0 .. 0 |-> e]
<1>1. f \in [0 .. Len(<<>>) -> Emus] /\ f[0] = e /\ f[Len(<<>>)] = e
  OBVIOUS
<1>2. \A i \in 1 .. Len(<<>>) : FALSE
  OBVIOUS
<1> QED
  BY <1>1, <1>2 DEF Applies

\* And conversely.
LEMMA AppliesOfNothing ==
  ASSUME NEW e, NEW last, Applies(<<>>, e, last)
  PROVE  e = last
  BY DEF Applies

\* One more op.
LEMMA AppliesAppend ==
  ASSUME NEW q \in Seq(Ops), NEW op \in Ops, NEW e \in Emus, NEW last \in Emus, Applies(q, e, last)
  PROVE  Applies(Append(q, op), e, EmuApply(last, op))
<1>1. PICK f \in [0 .. Len(q) -> Emus] :
        /\ f[0] = e /\ f[Len(q)] = last
        /\ \A i \in 1 .. Len(q) : f[i] = EmuApply(f[i - 1], q[i])
  BY DEF Applies
<1> DEFINE r == Append(q, op)
           g == [i \in 0 .. Len(q) + 1 |-> IF i = Len(q) + 1 THEN EmuApply(last, op) ELSE f[i]]
<1>2. Len(q) \in Nat /\ Len(r) = Len(q) + 1 /\ r[Len(q) + 1] = op
      /\ \A i \in 1 .. Len(q) : r[i] = q[i]
  OBVIOUS
<1>3. g \in [0 .. Len(r) -> Emus]
  BY <1>2, EmuApplyType
<1>4. g[0] = e /\ g[Len(r)] = EmuApply(last, op)
  BY <1>1, <1>2
<1>5. ASSUME NEW i \in 1 .. Len(r)
      PROVE  g[i] = EmuApply(g[i - 1], r[i])
  <2>1. CASE i = Len(q) + 1
    <3>1. g[i - 1] = last /\ r[i] = op /\ g[i] = EmuApply(last, op)
      BY <1>1, <1>2, <2>1
    <3> QED
      BY <3>1
  <2>2. CASE i # Len(q) + 1
    <3>1. i \in 1 .. Len(q)
      BY <1>2, <2>2
    <3>2. g[i - 1] = f[i - 1] /\ g[i] = f[i] /\ r[i] = q[i]
      BY <1>2, <3>1
    <3> QED
      BY <1>1, <3>1, <3>2
  <2> QED
    BY <2>1, <2>2
<1> HIDE DEF g, r
<1>6. Applies(r, e, EmuApply(last, op))
  BY <1>3, <1>4, <1>5 DEF Applies
<1> QED
  BY <1>6 DEF r

\* The first op taken.
LEMMA AppliesTail ==
  ASSUME NEW q \in Seq(Ops), q # <<>>, NEW e \in Emus, NEW last \in Emus, Applies(q, e, last)
  PROVE  Applies(Tail(q), EmuApply(e, Head(q)), last)
<1>1. PICK f \in [0 .. Len(q) -> Emus] :
        /\ f[0] = e /\ f[Len(q)] = last
        /\ \A i \in 1 .. Len(q) : f[i] = EmuApply(f[i - 1], q[i])
  BY DEF Applies
<1> DEFINE r == Tail(q)
           g == [i \in 0 .. Len(q) - 1 |-> f[i + 1]]
<1>2. Len(q) \in Nat /\ Len(q) >= 1 /\ Len(r) = Len(q) - 1 /\ Head(q) = q[1]
      /\ \A i \in 1 .. Len(q) - 1 : r[i] = q[i + 1]
  OBVIOUS
<1>3. f[1] = EmuApply(e, Head(q))
  <2>1. 1 \in 1 .. Len(q) /\ 1 - 1 = 0
    BY <1>2
  <2> QED
    BY <1>1, <1>2, <2>1
<1>4. g \in [0 .. Len(r) -> Emus] /\ g[0] = EmuApply(e, Head(q)) /\ g[Len(r)] = last
  BY <1>1, <1>2, <1>3
<1>5. ASSUME NEW i \in 1 .. Len(r)
      PROVE  g[i] = EmuApply(g[i - 1], r[i])
  <2>1. i + 1 \in 1 .. Len(q) /\ (i + 1) - 1 = i
    BY <1>2
  <2>2. g[i - 1] = f[i] /\ g[i] = f[i + 1] /\ r[i] = q[i + 1]
    BY <1>2
  <2> QED
    BY <1>1, <2>1, <2>2
<1> HIDE DEF g, r
<1>6. Applies(r, EmuApply(e, Head(q)), last)
  BY <1>4, <1>5 DEF Applies
<1> QED
  BY <1>6 DEF r

-----------------------------------------------------------------------------
(***************************************************************************)
(* And the output on its way to it.                                        *)
(***************************************************************************)
\* Nothing about p changes.
LEMMA LiveKept ==
  ASSUME NEW p, NEW e, LiveOutput(p, e), UNCHANGED <<events, barrier[p], screen[p], size[p]>>
  PROVE  (LiveOutput(p, e))'
  BY DEF LiveOutput, Live

\* The fields of what tmux emits.
LEMMA EventFields ==
  ASSUME NEW kind, NEW p
  PROVE  /\ Event(kind, p).kind = kind /\ Event(kind, p).pane = p /\ Event(kind, p).seq = seq
         /\ Chunk(p).kind = "output" /\ Chunk(p).pane = p /\ Chunk(p).seq = seq
         /\ Chunk(p).n = screen[p].n + 1 /\ Chunk(p).size = screen[p].size
  BY DEF Event, Chunk

\* Something else is emitted.
LEMMA LiveEmitted ==
  ASSUME HerdTypeOK, NEW ev, Emit(ev), NEW p \in Panes, ev.kind = "output" => ev.pane # p,
         NEW e, LiveOutput(p, e), UNCHANGED <<barrier[p], screen[p], size[p]>>
  PROVE  (LiveOutput(p, e))'
<1>1. (Live(p))' = Live(p)
  <2>1. \A n \in Nat : 1 .. n + 1 = (1 .. n) \cup {n + 1}
    OBVIOUS
  <2> QED
    BY <2>1, Emitted DEF Live
<1>2. \A i \in Live(p) : events'[i] = events[i]
  BY Emitted DEF Live
<1> QED
  BY <1>1, <1>2 DEF LiveOutput

\* The pane writes.
LEMMA LiveProduced ==
  ASSUME HerdTypeOK, Composes, NEW p \in Panes, Emit(Chunk(p)), screen' = [screen EXCEPT ![p].n = @ + 1],
         UNCHANGED <<barrier, size>>, size[p] = screen[p].size,
         NEW e \in Emus, LiveOutput(p, e)
  PROVE  (LiveOutput(p, e))'
<1> DEFINE n == Len(events)
<1>1. /\ n \in Nat /\ Len(events') = n + 1 /\ events'[n + 1] = Chunk(p)
      /\ \A i \in 1 .. n : events'[i] = events[i]
  BY Emitted
<1>2. screen[p].n \in Nat /\ screen'[p].n = screen[p].n + 1 /\ barrier[p] <= seq /\ e.n \in Nat
  BY WatcherAssumption DEF HerdTypeOK, TypeOK, Composes, Emus
<1>3. /\ Chunk(p).kind = "output" /\ Chunk(p).pane = p /\ Chunk(p).seq = seq
      /\ Chunk(p).n = screen[p].n + 1 /\ Chunk(p).size = screen[p].size
  BY EventFields
<1>4. \A m \in Nat : 1 .. m + 1 = (1 .. m) \cup {m + 1}
  OBVIOUS
<1>5. (Live(p))' = Live(p) \cup {n + 1} /\ Live(p) \subseteq 1 .. n
  <2>1. seq >= barrier[p]
    BY <1>2 DEF HerdTypeOK, TypeOK
  <2>2. (Live(p))' = {i \in (1 .. n) \cup {n + 1} :
                        events'[i].kind = "output" /\ events'[i].pane = p /\ events'[i].seq >= barrier[p]}
    BY <1>1, <1>4 DEF Live
  <2>3. \A i \in 1 .. n : i # n + 1
    BY <1>1
  <2> QED
    BY <1>1, <1>3, <2>1, <2>2, <2>3 DEF Live
<1> HIDE DEF n
<1>6. \A i \in Live(p) : events'[i] = events[i] /\ i < n + 1 /\ events[i].n <= screen[p].n
                         /\ events[i].n \in Nat
  <2>1. \A i \in 1 .. n : events[i].n \in Nat
    <3>1. \A i \in 1 .. n : events[i] \in Events
      BY DEF HerdTypeOK, n
    <3> QED
      BY <3>1 DEF Events
  <2> QED
    BY <1>1, <1>5, <2>1 DEF LiveOutput
<1>7. \A i \in (Live(p))' : events'[i].size = size[p] /\ e.n < events'[i].n
                            /\ events'[i].n <= screen'[p].n
  <2> SUFFICES ASSUME NEW i \in (Live(p))'
               PROVE  events'[i].size = size[p] /\ e.n < events'[i].n /\ events'[i].n <= screen'[p].n
    OBVIOUS
  <2>1. e.n <= screen[p].n
    BY DEF LiveOutput
  <2>2. CASE i = n + 1
    BY <1>1, <1>2, <1>3, <2>1, <2>2
  <2>3. CASE i # n + 1
    <3>1. i \in Live(p)
      BY <1>5, <2>3
    <3>2. events[i].size = size[p] /\ e.n < events[i].n
      BY <3>1 DEF LiveOutput
    <3> QED
      BY <1>2, <1>6, <3>1, <3>2
  <2> QED
    BY <2>2, <2>3
<1>8. \A i, j \in (Live(p))' : i < j => events'[i].n < events'[j].n
  <2> SUFFICES ASSUME NEW i \in (Live(p))', NEW j \in (Live(p))', i < j
               PROVE  events'[i].n < events'[j].n
    OBVIOUS
  <2>1. i # n + 1 /\ i \in Live(p)
    BY <1>1, <1>5
  <2>2. CASE j = n + 1
    BY <1>1, <1>2, <1>6, <2>1, <2>2, <1>3
  <2>3. CASE j # n + 1
    BY <1>5, <1>6, <2>1, <2>3 DEF LiveOutput
  <2> QED
    BY <2>2, <2>3
<1>9. \A k \in e.n + 1 .. screen'[p].n : \E i \in (Live(p))' : events'[i].n = k
  <2> SUFFICES ASSUME NEW k \in e.n + 1 .. screen'[p].n
               PROVE  \E i \in (Live(p))' : events'[i].n = k
    OBVIOUS
  <2>1. CASE k = screen[p].n + 1
    BY <1>1, <1>5, <2>1, <1>3
  <2>2. CASE k # screen[p].n + 1
    <3>1. k \in e.n + 1 .. screen[p].n
      BY <1>2, <2>2
    <3> QED
      BY <1>5, <1>6, <3>1 DEF LiveOutput
  <2> QED
    BY <2>1, <2>2
<1> QED
  BY <1>2, <1>7, <1>8, <1>9 DEF LiveOutput

\* Something else is taken.
LEMMA LiveTaken ==
  ASSUME HerdTypeOK, events # <<>>, events' = Tail(events), NEW p \in Panes, 1 \notin Live(p),
         NEW e, LiveOutput(p, e), UNCHANGED <<barrier[p], screen[p], size[p]>>
  PROVE  (LiveOutput(p, e))'
<1>1. \A i \in (Live(p))' : i \in Nat /\ i + 1 \in Live(p) /\ events'[i] = events[i + 1]
  BY Taken DEF Live
<1>2. \A i \in Live(p) : i \in Nat /\ i - 1 \in (Live(p))' /\ events'[i - 1] = events[i]
  <2> SUFFICES ASSUME NEW i \in Live(p)
               PROVE  i \in Nat /\ i - 1 \in (Live(p))' /\ events'[i - 1] = events[i]
    OBVIOUS
  <2>1. i \in 2 .. Len(events)
    BY Taken DEF Live
  <2> QED
    BY <2>1, Taken DEF Live
<1>3. \A i, j \in (Live(p))' : i < j => events'[i].n < events'[j].n
  <2> SUFFICES ASSUME NEW i \in (Live(p))', NEW j \in (Live(p))', i < j
               PROVE  events'[i].n < events'[j].n
    OBVIOUS
  <2>1. i + 1 < j + 1
    BY <1>1
  <2> QED
    BY <1>1, <2>1 DEF LiveOutput
<1>4. \A k \in e.n + 1 .. screen[p].n : \E i \in (Live(p))' : events'[i].n = k
  <2> SUFFICES ASSUME NEW k \in e.n + 1 .. screen[p].n
               PROVE  \E i \in (Live(p))' : events'[i].n = k
    OBVIOUS
  <2>1. PICK i \in Live(p) : events[i].n = k
    BY DEF LiveOutput
  <2> QED
    BY <1>2, <2>1
<1>5. \A i \in (Live(p))' : events'[i].size = size[p] /\ e.n < events'[i].n
                            /\ events'[i].n <= screen[p].n
  BY <1>1 DEF LiveOutput
<1> QED
  BY <1>3, <1>4, <1>5 DEF LiveOutput

\* The next chunk of the pane is taken: it is the one the emulator needs.
LEMMA LiveConsumed ==
  ASSUME HerdTypeOK, events # <<>>, events' = Tail(events), NEW p \in Panes, 1 \in Live(p),
         NEW e \in Emus, LiveOutput(p, e), UNCHANGED <<barrier[p], screen[p], size[p]>>,
         NEW d, d.ok, d.n = events[1].n
  PROVE  events[1].n = e.n + 1 /\ events[1].size = size[p] /\ (LiveOutput(p, d))'
<1>0. e.n \in Nat /\ screen[p].n \in Nat /\ \A i \in Live(p) : events[i].n \in Nat /\ i \in Nat /\ 1 <= i
  <2>1. \A i \in 1 .. Len(events) : events[i].n \in Nat
    <3>1. \A i \in 1 .. Len(events) : events[i] \in Events
      BY DEF HerdTypeOK
    <3> QED
      BY <3>1 DEF Events
  <2>2. screen[p] \in [n: 0 .. MaxOut, size: PaneSizes]
    BY DEF HerdTypeOK, TypeOK
  <2>3. Live(p) \subseteq 1 .. Len(events)
    BY DEF Live
  <2>4. Len(events) \in Nat
    BY Taken
  <2> QED
    BY <2>1, <2>2, <2>3, <2>4, WatcherAssumption DEF Emus
<1>1. events[1].n = e.n + 1
  <2>1. e.n < events[1].n /\ events[1].n <= screen[p].n
    BY DEF LiveOutput
  <2>2. e.n + 1 \in e.n + 1 .. screen[p].n
    BY <1>0, <2>1
  <2>3. PICK i \in Live(p) : events[i].n = e.n + 1
    BY <2>2 DEF LiveOutput
  <2>4. i = 1 \/ events[1].n < events[i].n
    BY <1>0, <2>3 DEF LiveOutput
  <2> QED
    BY <1>0, <2>1, <2>3, <2>4
<1>2. \A i \in (Live(p))' : i \in Nat /\ 1 <= i /\ i + 1 \in Live(p) /\ events'[i] = events[i + 1]
  BY Taken DEF Live
<1>3. \A i \in Live(p) : i # 1 => i - 1 \in (Live(p))' /\ events'[i - 1] = events[i]
  <2> SUFFICES ASSUME NEW i \in Live(p), i # 1
               PROVE  i - 1 \in (Live(p))' /\ events'[i - 1] = events[i]
    OBVIOUS
  <2>1. i \in 2 .. Len(events)
    BY Taken DEF Live
  <2> QED
    BY <2>1, Taken DEF Live
<1>4. \A i \in (Live(p))' : events'[i].size = size[p] /\ d.n < events'[i].n
                            /\ events'[i].n <= screen[p].n
  <2> SUFFICES ASSUME NEW i \in (Live(p))'
               PROVE  events'[i].size = size[p] /\ d.n < events'[i].n /\ events'[i].n <= screen[p].n
    OBVIOUS
  <2>1. 1 < i + 1
    BY <1>2
  <2> QED
    BY <1>2, <2>1 DEF LiveOutput
<1>5. \A i, j \in (Live(p))' : i < j => events'[i].n < events'[j].n
  <2> SUFFICES ASSUME NEW i \in (Live(p))', NEW j \in (Live(p))', i < j
               PROVE  events'[i].n < events'[j].n
    OBVIOUS
  <2>1. i + 1 < j + 1
    BY <1>2
  <2> QED
    BY <1>2, <2>1 DEF LiveOutput
<1>6. \A k \in d.n + 1 .. screen[p].n : \E i \in (Live(p))' : events'[i].n = k
  <2> SUFFICES ASSUME NEW k \in d.n + 1 .. screen[p].n
               PROVE  \E i \in (Live(p))' : events'[i].n = k
    OBVIOUS
  <2>1. k \in e.n + 1 .. screen[p].n /\ k # events[1].n
    BY <1>0, <1>1
  <2>2. PICK i \in Live(p) : events[i].n = k
    BY <2>1 DEF LiveOutput
  <2> QED
    BY <1>3, <2>1, <2>2
<1>7. d.n <= screen[p].n /\ events[1].size = size[p]
  BY DEF LiveOutput
<1> QED
  BY <1>1, <1>4, <1>5, <1>6, <1>7 DEF LiveOutput

-----------------------------------------------------------------------------
(***************************************************************************)
(* Seeds compose with live output.                                         *)
(***************************************************************************)
LEMMA ComposesInit == Init => Composes
  BY WatcherAssumption DEF Init, Composes

\* A pane whose ops stay follows its screen as long as its output does.
LEMMA FollowsKept ==
  ASSUME NEW p, Follows(p), UNCHANGED <<ops[p], emu[p], size[p]>>,
         NeedsSeed(p) => (NeedsSeed(p))',
         ASSUME NEW e \in Emus, LiveOutput(p, e), ~NeedsSeed(p)
         PROVE  (LiveOutput(p, e))' \/ (NeedsSeed(p))'
  PROVE  (Follows(p))'
<1>1. PICK last \in Emus :
        /\ Applies(ops[p], emu[p], last) /\ last.size = size[p]
        /\ NeedsSeed(p) \/ LiveOutput(p, last)
  BY DEF Follows
<1>2. (NeedsSeed(p))' \/ (LiveOutput(p, last))'
  BY <1>1
<1> QED
  BY <1>1, <1>2 DEF Follows

\* One more op, that leaves the pipeline at the pane's recorded size.
LEMMA FollowsEnqueued ==
  ASSUME HerdTypeOK, NEW p \in Panes, NEW op \in Ops, Enqueue(p, op), UNCHANGED emu,
         NEW last \in Emus, Applies(ops[p], emu[p], last), EmuApply(last, op).size = size'[p],
         (NeedsSeed(p))' \/ (LiveOutput(p, EmuApply(last, op)))'
  PROVE  (Follows(p))'
<1>1. ops'[p] = Append(ops[p], op) /\ ops[p] \in Seq(Ops) /\ emu[p] \in Emus
  BY DEF HerdTypeOK, Enqueue
<1>2. Applies(ops'[p], emu'[p], EmuApply(last, op)) /\ EmuApply(last, op) \in Emus
  BY <1>1, AppliesAppend, EmuApplyType
<1> QED
  BY <1>2 DEF Follows

\* Every event carries its position.
LEMMA StampedEmitted ==
  ASSUME HerdTypeOK, Composes, NEW ev, Emit(ev), ev.seq = seq, UNCHANGED barrier
  PROVE  /\ \A i \in 1 .. Len(events') : events'[i].seq < seq'
         /\ \A p \in Panes : barrier'[p] <= seq'
<1>1. \A i \in 1 .. Len(events) : events[i].seq \in Nat /\ events[i].seq < seq
  <2>1. \A i \in 1 .. Len(events) : events[i] \in Events
    BY DEF HerdTypeOK
  <2> QED
    BY <2>1 DEF Events, Composes
<1>2. seq \in Nat /\ \A p \in Panes : barrier[p] \in Nat /\ barrier[p] <= seq
  BY DEF HerdTypeOK, TypeOK, Composes
<1>3. \A i \in 1 .. Len(events') : i \in 1 .. Len(events) \/ i = Len(events) + 1
  BY Emitted
<1>4. /\ seq' = seq + 1 /\ events'[Len(events) + 1] = ev
      /\ \A i \in 1 .. Len(events) : events'[i] = events[i]
  BY Emitted
<1>5. \A i \in 1 .. Len(events') : events'[i].seq \in Nat /\ events'[i].seq <= seq
  BY <1>1, <1>2, <1>3, <1>4
<1> QED
  BY <1>2, <1>4, <1>5

\* tmux does something that is not output, and resizes nothing.
LEMMA ComposesEmitted ==
  ASSUME HerdTypeOK, Composes, NEW ev, Emit(ev), ev.seq = seq, ev.kind # "output",
         UNCHANGED <<ops, emu, size, barrier, screen, hub>>,
         \A p \in hub : NeedsSeed(p) => (NeedsSeed(p))'
  PROVE  Composes'
<1>1. ASSUME NEW p \in hub PROVE (Follows(p))'
  <2>1. p \in Panes /\ Follows(p)
    BY DEF HerdTypeOK, TypeOK, Composes
  <2>2. ASSUME NEW e \in Emus, LiveOutput(p, e) PROVE (LiveOutput(p, e))'
    BY <2>1, <2>2, LiveEmitted
  <2> QED
    BY <2>1, <2>2, FollowsKept
<1> QED
  BY <1>1, StampedEmitted DEF Composes

\* What tmux does: output continues the stream, unless the pane is withheld.
LEMMA ComposesTmux ==
  ASSUME HerdTypeOK, Composes, Tmux
  PROVE  Composes'
<1> USE DEF otherThanTmux, loopVars, hubVars, pipeVars, history
<1>1. ASSUME NEW p \in Panes, Produce(p) PROVE Composes'
  <2>1. screen' = [screen EXCEPT ![p].n = @ + 1]
        /\ UNCHANGED <<hub, size, barrier, paused, wpc, target, ops, emu, reflowed>>
    BY <1>1 DEF Produce
  <2>2. \A q \in Panes : screen'[q].size = screen[q].size /\ (q # p => screen'[q] = screen[q])
    BY <2>1 DEF HerdTypeOK, TypeOK
  <2>3. missed' \in {missed, missed \cup {p}} /\ (p \in tmuxPaused => p \in missed')
    BY <1>1 DEF Produce
  <2>4. \A q \in Panes : NeedsSeed(q) => (NeedsSeed(q))'
    BY <2>1, <2>2, <2>3 DEF NeedsSeed
  <2>5. CASE p \in tmuxPaused
    <3>1. UNCHANGED <<events, seq>>
      BY <1>1, <2>5 DEF Produce, streamVars
    <3>2. ASSUME NEW q \in hub PROVE (Follows(q))'
      <4>1. q \in Panes /\ Follows(q)
        BY DEF HerdTypeOK, TypeOK, Composes
      <4>2. ASSUME NEW e \in Emus, LiveOutput(q, e) PROVE (LiveOutput(q, e))' \/ (NeedsSeed(q))'
        <5>1. CASE q = p
          BY <2>3, <2>5, <5>1 DEF NeedsSeed
        <5>2. CASE q # p
          BY <2>1, <2>2, <3>1, <4>1, <4>2, <5>2, LiveKept
        <5> QED
          BY <5>1, <5>2
      <4> QED
        BY <2>1, <2>4, <4>1, <4>2, FollowsKept
    <3> QED
      BY <2>1, <3>1, <3>2 DEF Composes
  <2>6. CASE p \notin tmuxPaused
    <3>1. Emit(Chunk(p)) /\ Chunk(p).seq = seq /\ Chunk(p).pane = p
      BY <1>1, <2>6, EventFields DEF Produce
    <3>2. ASSUME NEW q \in hub PROVE (Follows(q))'
      <4>1. q \in Panes /\ Follows(q)
        BY DEF HerdTypeOK, TypeOK, Composes
      <4>2. ASSUME NEW e \in Emus, LiveOutput(q, e), ~NeedsSeed(q) PROVE (LiveOutput(q, e))'
        <5>1. CASE q = p
          <6>1. size[p] = screen[p].size
            BY <4>2, <5>1 DEF NeedsSeed
          <6> QED
            BY <2>1, <3>1, <4>2, <5>1, <6>1, LiveProduced
        <5>2. CASE q # p
          BY <2>1, <2>2, <3>1, <4>1, <4>2, <5>2, LiveEmitted
        <5> QED
          BY <5>1, <5>2
      <4> QED
        BY <2>1, <2>4, <4>1, <4>2, FollowsKept
    <3> QED
      BY <2>1, <3>1, <3>2, StampedEmitted DEF Composes
  <2> QED
    BY <2>5, <2>6
<1>2. ASSUME NEW p \in Panes, Spawn(p) \/ Die(p) PROVE Composes'
  BY <1>2, EventFields, ComposesEmitted DEF Spawn, Die, NeedsSeed
<1>3. ASSUME NEW p \in Panes, NEW sz \in PaneSizes, ResizePane(p, sz) PROVE Composes'
  <2>1. /\ screen' = [screen EXCEPT ![p].size = sz] /\ screen[p].size # sz
        /\ Emit(Event("topology", p))
        /\ reflowed' = reflowed \cup {p}
        /\ UNCHANGED <<hub, size, barrier, paused, wpc, target, ops, emu, missed>>
    BY <1>3 DEF ResizePane
  <2>2. \A q \in Panes : (q # p => screen'[q] = screen[q]) /\ (q = p => screen'[q].size = sz)
    BY <2>1 DEF HerdTypeOK, TypeOK
  <2>3. Event("topology", p).seq = seq /\ Event("topology", p).kind = "topology"
    BY EventFields
  <2>4. ASSUME NEW q \in hub PROVE (Follows(q))'
    <3>1. q \in Panes /\ Follows(q)
      BY DEF HerdTypeOK, TypeOK, Composes
    <3>2. q = p => (NeedsSeed(q))'
      BY <2>1, <2>2, <3>1 DEF NeedsSeed
    <3>3. NeedsSeed(q) => (NeedsSeed(q))'
      BY <2>1, <2>2, <3>1, <3>2 DEF NeedsSeed
    <3>4. ASSUME NEW e \in Emus, LiveOutput(q, e) PROVE (LiveOutput(q, e))' \/ (NeedsSeed(q))'
      BY <2>1, <2>2, <2>3, <3>1, <3>2, <3>4, LiveEmitted
    <3> QED
      BY <2>1, <3>1, <3>3, <3>4, FollowsKept
  <2> QED
    BY <2>1, <2>3, <2>4, StampedEmitted DEF Composes
<1>4. ASSUME NEW p \in Panes, Backstop(p) PROVE Composes'
  BY <1>4, EventFields, ComposesEmitted DEF Backstop, NeedsSeed
<1>5. CASE TmuxEnds
  BY <1>5, EventFields, ComposesEmitted DEF TmuxEnds, NeedsSeed
<1> QED
  BY <1>1, <1>2, <1>3, <1>4, <1>5 DEF Tmux

\* A step that touches no screen, queue or emulator.
LEMMA ComposesQuiet ==
  ASSUME HerdTypeOK, Composes,
         UNCHANGED <<events, seq, ops, emu, size, barrier, screen, hub>>,
         \A p \in hub : NeedsSeed(p) => (NeedsSeed(p))'
  PROVE  Composes'
<1>1. ASSUME NEW p \in hub PROVE (Follows(p))'
  <2>1. Follows(p)
    BY DEF Composes
  <2>2. ASSUME NEW e \in Emus, LiveOutput(p, e) PROVE (LiveOutput(p, e))'
    BY <2>2, LiveKept
  <2> QED
    BY <2>1, <2>2, FollowsKept
<1> QED
  BY <1>1 DEF Composes

\* A pipeline works through its queue.
LEMMA ComposesBeside ==
  ASSUME HerdTypeOK, Composes, Cancel \/ \E p \in Panes : Drain(p) \/ TimerFires(p)
  PROVE  Composes'
<1> USE DEF tmuxVars, streamVars, loopVars, hubVars, pipeVars, history
<1>1. CASE Cancel \/ \E p \in Panes : TimerFires(p)
  BY <1>1, ComposesQuiet DEF Cancel, TimerFires, NeedsSeed
<1>2. ASSUME NEW p \in Panes, Drain(p) PROVE Composes'
  <2>1. ops[p] \in Seq(Ops) /\ emu[p] \in Emus /\ ops[p] # <<>> /\ p \in hub
    BY <1>2 DEF Drain, HerdTypeOK, Composes
  <2>2. /\ ops'[p] = Tail(ops[p]) /\ emu'[p] = EmuApply(emu[p], Head(ops[p]))
        /\ \A q \in Panes : q # p => ops'[q] = ops[q] /\ emu'[q] = emu[q]
    BY <1>2 DEF Drain, HerdTypeOK
  <2>3. /\ UNCHANGED <<events, seq, size, barrier, screen, hub>>
        /\ \A q : (NeedsSeed(q))' <=> NeedsSeed(q)
    BY <1>2 DEF Drain, NeedsSeed
  <2>4. ASSUME NEW q \in hub PROVE (Follows(q))'
    <3>1. q \in Panes /\ Follows(q)
      BY DEF HerdTypeOK, TypeOK, Composes
    <3>2. PICK last \in Emus :
            /\ Applies(ops[q], emu[q], last) /\ last.size = size[q]
            /\ NeedsSeed(q) \/ LiveOutput(q, last)
      BY <3>1 DEF Follows
    <3>3. Applies(ops'[q], emu'[q], last)
      BY <2>1, <2>2, <3>1, <3>2, AppliesTail
    <3>4. LiveOutput(q, last) => (LiveOutput(q, last))'
      BY <2>3, LiveKept
    <3> QED
      BY <2>3, <3>2, <3>3, <3>4 DEF Follows
  <2> QED
    BY <2>1, <2>2, <2>3, <2>4 DEF Composes
<1> QED
  BY <1>1, <1>2

\* The watcher takes an event that is not live output of a pane it follows.
LEMMA ComposesTaken ==
  ASSUME HerdTypeOK, Composes, events # <<>>, events' = Tail(events),
         UNCHANGED <<seq, ops, emu, size, barrier, screen, hub>>,
         \A p \in hub : NeedsSeed(p) => (NeedsSeed(p))',
         \A p \in hub : 1 \in Live(p) => (NeedsSeed(p))'
  PROVE  Composes'
<1>1. ASSUME NEW p \in hub PROVE (Follows(p))'
  <2>1. p \in Panes /\ Follows(p)
    BY DEF HerdTypeOK, TypeOK, Composes
  <2>2. ASSUME NEW e \in Emus, LiveOutput(p, e) PROVE (LiveOutput(p, e))' \/ (NeedsSeed(p))'
    BY <2>1, <2>2, LiveTaken
  <2> QED
    BY <2>1, <2>2, FollowsKept
<1>2. \A i \in 1 .. Len(events') : events'[i].seq < seq
  BY Taken DEF Composes
<1> QED
  BY <1>1, <1>2 DEF Composes

\* The watcher hands output on, drops it for its age or its pane, or pauses.
LEMMA ComposesOutput ==
  ASSUME HerdTypeOK, Placed, Composes, ApplyOutput
  PROVE  Composes'
<1>a. PICK ev : ev = Head(events)
  OBVIOUS
<1>b. PICK op : op = [kind |-> "output", n |-> ev.n, size |-> ev.size]
  OBVIOUS
<1>1. /\ events # <<>> /\ events' = Tail(events) /\ ev.kind = "output" /\ wpc \in {"select", "drain"}
      /\ UNCHANGED <<seq, emu, size, barrier, screen, hub, missed, reflowed>>
  BY <1>a DEF ApplyOutput, TakeEvent, tmuxVars
<1>2. ev \in Events /\ ev.pane \in Panes /\ ev = events[1] /\ 1 \in 1 .. Len(events)
  BY <1>1, <1>a, TakeType, Taken
<1>3. \A p \in hub : 1 \in Live(p) <=> p = ev.pane /\ ev.seq >= barrier[p]
  BY <1>1, <1>2 DEF Live
<1>4. ev.seq \in Nat /\ \A p \in Panes : barrier[p] \in Nat
  BY <1>2 DEF Events, HerdTypeOK, TypeOK
<1>5. CASE DroppedOutput(ev)
  <2>1. UNCHANGED <<ops, paused>> /\ wpc' = "drain"
    BY <1>5, <1>a DEF ApplyOutput, GoTo
  <2>2. \A p \in hub : NeedsSeed(p) => (NeedsSeed(p))'
    BY <1>1, <2>1 DEF NeedsSeed
  <2>3. \A p \in hub : 1 \in Live(p) => (NeedsSeed(p))'
    BY <1>3, <1>4, <1>5, <2>1, <1>2 DEF NeedsSeed, DroppedOutput
  <2> QED
    BY <1>1, <2>1, <2>2, <2>3, ComposesTaken
<1>6. CASE ~DroppedOutput(ev) /\ ~HasRoom(ev.pane)
  <2>1. UNCHANGED ops /\ paused' = paused \cup {ev.pane} /\ wpc' = "pause"
    BY <1>6, <1>a DEF ApplyOutput, GoTo
  <2>2. \A p \in hub : NeedsSeed(p) => (NeedsSeed(p))'
    BY <1>1, <2>1 DEF NeedsSeed
  <2>3. \A p \in hub : 1 \in Live(p) => (NeedsSeed(p))'
    BY <1>3, <2>1 DEF NeedsSeed
  <2> QED
    BY <1>1, <2>1, <2>2, <2>3, ComposesTaken
<1>7. CASE ~DroppedOutput(ev) /\ HasRoom(ev.pane)
  <2>1. UNCHANGED paused /\ wpc' = "drain" /\ Enqueue(ev.pane, op)
    BY <1>7, <1>a, <1>b DEF ApplyOutput, GoTo
  <2>2. ev.pane \in hub /\ 1 \in Live(ev.pane) /\ op \in Ops
    BY <1>2, <1>3, <1>4, <1>7, <1>b DEF DroppedOutput, Ops, Events
  <2>3. \A p \in hub : NeedsSeed(p) => (NeedsSeed(p))'
    BY <1>1, <2>1 DEF NeedsSeed
  <2>4. \A p \in Panes : p # ev.pane => ops'[p] = ops[p]
    BY <1>2, <2>1 DEF Enqueue, HerdTypeOK
  <2>5. ASSUME NEW p \in hub, p # ev.pane PROVE (Follows(p))'
    <3>1. p \in Panes /\ Follows(p) /\ 1 \notin Live(p)
      BY <1>3, <2>5 DEF HerdTypeOK, TypeOK, Composes
    <3>2. ASSUME NEW e \in Emus, LiveOutput(p, e) PROVE (LiveOutput(p, e))'
      BY <1>1, <3>1, <3>2, LiveTaken
    <3> QED
      BY <1>1, <2>3, <2>4, <2>5, <3>1, <3>2, FollowsKept
  <2>6. (Follows(ev.pane))'
    <3>0. PICK p \in Panes : p = ev.pane
      BY <1>2
    <3>1. PICK last \in Emus :
            /\ Applies(ops[p], emu[p], last) /\ last.size = size[p]
            /\ NeedsSeed(p) \/ LiveOutput(p, last)
      BY <2>2, <3>0 DEF Composes, Follows
    <3>2. EmuApply(last, op).size = size'[p]
      BY <1>1, <1>b, <2>2, <3>0, <3>1, EmuApplySize
    <3>3. LiveOutput(p, last) => (LiveOutput(p, EmuApply(last, op)))'
      <4> SUFFICES ASSUME LiveOutput(p, last) PROVE (LiveOutput(p, EmuApply(last, op)))'
        OBVIOUS
      <4>1. events[1].n = last.n + 1 /\ events[1].size = size[p] /\ last.ok
        <5>1. PICK d : d = [ok |-> TRUE, n |-> events[1].n]
          OBVIOUS
        <5>2. d.ok /\ d.n = events[1].n
          BY <5>1
        <5>3. events[1].n = last.n + 1 /\ events[1].size = size[p]
          BY <1>1, <1>2, <1>a, <2>2, <3>0, <5>2, LiveConsumed
        <5> QED
          BY <5>3 DEF LiveOutput
      <4>2. EmuApply(last, op) = [last EXCEPT !.n = ev.n]
        BY <1>2, <1>b, <3>1, <4>1 DEF EmuApply
      <4>3. [last EXCEPT !.n = ev.n].ok /\ [last EXCEPT !.n = ev.n].n = events[1].n
        BY <1>2, <4>1 DEF Emus
      <4>4. ASSUME NEW d, d.ok, d.n = events[1].n PROVE (LiveOutput(p, d))'
        BY <1>1, <1>2, <1>a, <2>2, <3>0, <4>4, LiveConsumed
      <4> QED
        BY <4>2, <4>3, <4>4
    <3>4. (NeedsSeed(p))' \/ (LiveOutput(p, EmuApply(last, op)))'
      BY <2>2, <2>3, <3>0, <3>1, <3>3
    <3> QED
      BY <1>1, <1>2, <2>1, <2>2, <3>0, <3>1, <3>2, <3>4, FollowsEnqueued
  <2>7. \A i \in 1 .. Len(events') : events'[i].seq < seq
    BY <1>1, Taken DEF Composes
  <2>8. \A p \in Panes \ hub : ops'[p] = <<>>
    BY <2>2, <2>4 DEF Composes
  <2>9. \A p \in hub : (Follows(p))'
    BY <2>5, <2>6, <2>2
  <2> QED
    BY <1>1, <2>7, <2>8, <2>9 DEF Composes
<1> QED
  BY <1>5, <1>6, <1>7

\* A seed stands for all output before its barrier.
LEMMA ComposesSeed ==
  ASSUME HerdTypeOK, Placed, Composes, Seed
  PROVE  Composes'
<1>a. PICK p : p = target
  OBVIOUS
<1>b. PICK op : op = SeedOp(p)
  OBVIOUS
<1>1. /\ p \in hub /\ p \in Panes /\ wpc = "seed"
      /\ barrier' = [barrier EXCEPT ![p] = seq] /\ Enqueue(p, op)
      /\ missed' = missed \ {p} /\ reflowed' = reflowed \ {p} /\ paused' \in {paused, paused \ {p}}
      /\ UNCHANGED <<events, seq, screen, hub, size, emu>>
  BY <1>a, <1>b DEF Seed, SeedBarrier, Placed, HerdTypeOK, TypeOK, tmuxVars, streamVars
<1>2. screen[p] \in [n: 0 .. MaxOut, size: PaneSizes] /\ MaxOut \in Nat
  BY <1>1, WatcherAssumption DEF HerdTypeOK, TypeOK
<1>3. op.kind = "seed" /\ op.n = screen[p].n /\ op.size = screen[p].size /\ op \in Ops
  BY <1>2, <1>b DEF SeedOp, Ops
<1>4. \A q \in Panes : q # p => ops'[q] = ops[q] /\ barrier'[q] = barrier[q]
  BY <1>1 DEF Enqueue, HerdTypeOK, TypeOK
<1>5. barrier'[p] = seq
  BY <1>1 DEF HerdTypeOK, TypeOK
<1>6. ASSUME NEW q \in hub, q # p PROVE (Follows(q))'
  <2>1. q \in Panes /\ Follows(q)
    BY DEF HerdTypeOK, TypeOK, Composes
  <2>2. NeedsSeed(q) => (NeedsSeed(q))'
    BY <1>1, <1>6, <1>a DEF NeedsSeed
  <2>3. ASSUME NEW e \in Emus, LiveOutput(q, e) PROVE (LiveOutput(q, e))'
    BY <1>1, <1>4, <1>6, <2>1, <2>3, LiveKept
  <2> QED
    BY <1>1, <1>4, <1>6, <2>1, <2>2, <2>3, FollowsKept
<1>7. (Follows(p))'
  <2>1. PICK last \in Emus : Applies(ops[p], emu[p], last) /\ last.size = size[p]
    BY <1>1 DEF Composes, Follows
  <2>2. EmuApply(last, op).size = size'[p]
    BY <1>1, <1>3, <2>1, EmuApplySize
  <2>3. CASE size[p] # screen[p].size
    <3>1. (NeedsSeed(p))'
      BY <1>1, <2>3 DEF NeedsSeed
    <3> QED
      BY <1>1, <1>3, <2>1, <2>2, <3>1, FollowsEnqueued
  <2>4. CASE size[p] = screen[p].size
    <3>0. PICK e : e = EmuApply(last, op)
      OBVIOUS
    <3>1. e.ok /\ e.n = screen[p].n
      BY <1>3, <2>1, <2>4, <3>0 DEF EmuApply
    <3>2. (Live(p))' = {}
      <4>1. \A i \in 1 .. Len(events) : events[i].seq \in Nat /\ events[i].seq < seq
        <5>1. \A i \in 1 .. Len(events) : events[i] \in Events
          BY DEF HerdTypeOK
        <5> QED
          BY <5>1 DEF Events, Composes
      <4>2. seq \in Nat /\ events' = events
        BY <1>1 DEF HerdTypeOK, TypeOK
      <4>3. \A i \in 1 .. Len(events) : ~(events[i].seq >= seq)
        BY <4>1, <4>2
      <4> QED
        BY <1>5, <4>2, <4>3 DEF Live
    <3>3. screen'[p].n = screen[p].n /\ screen[p].n \in Nat
      BY <1>1, <1>2
    <3>4. (LiveOutput(p, e))'
      BY <3>1, <3>2, <3>3 DEF LiveOutput
    <3> QED
      BY <1>1, <1>3, <2>1, <2>2, <3>0, <3>4, FollowsEnqueued
  <2> QED
    BY <2>3, <2>4
<1>8. \A q \in hub : (Follows(q))'
  BY <1>6, <1>7
<1>9. \A q \in Panes \ hub : ops'[q] = <<>>
  BY <1>1, <1>4 DEF Composes
<1>10. \A q \in Panes : barrier'[q] <= seq
  BY <1>1, <1>4, <1>5 DEF Composes, HerdTypeOK, TypeOK
<1> QED
  BY <1>1, <1>8, <1>9, <1>10 DEF Composes

\* A new or resized pane waits for its seed.
LEMMA ComposesReconcile ==
  ASSUME HerdTypeOK, Composes, NEW p \in Panes, ReconcileNew(p) \/ ReconcileResized(p)
  PROVE  Composes'
<1>1. /\ wpc = "reconcile" /\ wpc' = "seed" /\ target' = p /\ p \in DOMAIN listed
      /\ hub' = hub \cup {p}
      /\ UNCHANGED <<events, seq, screen, barrier, paused, missed, reflowed>>
      /\ size' = [size EXCEPT ![p] = listed[p]]
  BY DEF ReconcileNew, ReconcileResized, Listed, GoTo, tmuxVars, streamVars, history
<1>2. listed[p] \in PaneSizes /\ size'[p] = listed[p]
      /\ \A q \in Panes : q # p => size'[q] = size[q]
  BY <1>1 DEF HerdTypeOK, TypeOK
<1>3. \A q \in Panes : q # p => ops'[q] = ops[q] /\ emu'[q] = emu[q]
  BY DEF ReconcileNew, ReconcileResized, Enqueue, HerdTypeOK
<1>4. (NeedsSeed(p))'
  BY <1>1 DEF NeedsSeed
<1>5. ASSUME NEW q \in hub, q # p PROVE (Follows(q))'
  <2>1. q \in Panes /\ Follows(q)
    BY DEF HerdTypeOK, TypeOK, Composes
  <2>2. NeedsSeed(q) => (NeedsSeed(q))'
    BY <1>1, <1>2, <1>5, <2>1 DEF NeedsSeed
  <2>3. ASSUME NEW e \in Emus, LiveOutput(q, e) PROVE (LiveOutput(q, e))'
    BY <1>1, <1>2, <1>5, <2>1, <2>3, LiveKept
  <2> QED
    BY <1>2, <1>3, <1>5, <2>1, <2>2, <2>3, FollowsKept
<1>6. (Follows(p))'
  <2>1. CASE ReconcileNew(p)
    <3>1. ops'[p] = <<>> /\ emu'[p] = Garbled(listed[p])
      BY <2>1 DEF ReconcileNew, Composes, HerdTypeOK
    <3>2. Garbled(listed[p]) \in Emus /\ Garbled(listed[p]).size = listed[p]
      BY <1>2 DEF Garbled, Emus
    <3>3. Applies(ops'[p], emu'[p], Garbled(listed[p]))
      BY <3>1, <3>2, AppliesNothing
    <3> QED
      BY <1>2, <1>4, <3>2, <3>3 DEF Follows
  <2>2. CASE ReconcileResized(p)
    <3> DEFINE op == [kind |-> "resize", size |-> listed[p]]
    <3>1. p \in hub /\ Enqueue(p, op) /\ UNCHANGED emu
      BY <2>2 DEF ReconcileResized
    <3>2. op \in Ops /\ op.kind = "resize" /\ op.size = listed[p]
      BY <1>2 DEF Ops
    <3> HIDE DEF op
    <3>3. PICK last \in Emus : Applies(ops[p], emu[p], last)
      BY <3>1 DEF Composes, Follows
    <3>4. EmuApply(last, op).size = size'[p]
      BY <1>2, <3>2, EmuApplySize
    <3> QED
      BY <1>4, <3>1, <3>2, <3>3, <3>4, FollowsEnqueued
  <2> QED
    BY <2>1, <2>2
<1>7. \A q \in hub' : (Follows(q))'
  BY <1>1, <1>5, <1>6
<1>8. \A q \in Panes \ hub' : ops'[q] = <<>>
  BY <1>1, <1>3 DEF Composes
<1> QED
  BY <1>1, <1>7, <1>8 DEF Composes

\* A pane that is gone takes its queue with it.
LEMMA ComposesSweep ==
  ASSUME HerdTypeOK, Placed, Lives, Composes, Sweep
  PROVE  Composes'
<1>1. /\ wpc = "reconcile" /\ hub' = hub \cap seen /\ seen \subseteq hub
      /\ ops' = [p \in Panes |-> IF p \in seen THEN ops[p] ELSE <<>>]
      /\ paused' = paused \cap seen
      /\ UNCHANGED <<events, seq, screen, size, barrier, emu, missed, reflowed>>
  BY DEF Sweep, Kept, Lives, Reconciling, tmuxVars, streamVars, history
<1>2. ASSUME NEW p \in hub' PROVE (Follows(p))'
  <2>1. p \in Panes /\ p \in seen /\ Follows(p) /\ ops'[p] = ops[p]
    BY <1>1, <1>2 DEF HerdTypeOK, TypeOK, Composes
  <2>2. NeedsSeed(p) => (NeedsSeed(p))'
    BY <1>1, <2>1 DEF NeedsSeed
  <2>3. ASSUME NEW e \in Emus, LiveOutput(p, e) PROVE (LiveOutput(p, e))'
    BY <1>1, <2>3, LiveKept
  <2> QED
    BY <1>1, <2>1, <2>2, <2>3, FollowsKept
<1>3. \A p \in Panes \ hub' : ops'[p] = <<>>
  BY <1>1 DEF Composes
<1> QED
  BY <1>1, <1>2, <1>3 DEF Composes

\* Every step of the watcher keeps what it feeds the pipelines in order.
LEMMA ComposesWatcher ==
  ASSUME HerdTypeOK, Placed, Lives, Composes, Watcher
  PROVE  Composes'
<1> USE DEF GoTo, tmuxVars, streamVars, hubVars, pipeVars, history
<1>1. CASE SelectShutdown \/ ApplyExit \/ SeedFailsOnReconcile \/ ListFails
  <2>1. Teardown
    BY <1>1 DEF SelectShutdown, ApplyExit, SeedFailsOnReconcile, ListFails
  <2> QED
    BY <2>1 DEF Teardown, Composes
<1>2. CASE SelectResume \/ DrainDone \/ Continue \/ ListPanes
  BY <1>2, ComposesQuiet DEF SelectResume, DrainDone, Continue, ListPanes, NeedsSeed
<1>3. CASE SeedFailsOnResume \/ ContinueFails
  <2>1. wpc = "seed" => target \in paused
    BY <1>3 DEF SeedFailsOnResume, ContinueFails, Placed
  <2> QED
    BY <1>3, <2>1, ComposesQuiet DEF SeedFailsOnResume, ContinueFails, NeedsSeed
<1>4. CASE \E p \in Panes : ReconcileSame(p)
  BY <1>4, ComposesQuiet DEF ReconcileSame, NeedsSeed
<1>5. CASE ApplyOutput
  BY <1>5, ComposesOutput
<1>6. CASE ApplyPause \/ ApplyTopology
  <2>1. /\ events # <<>> /\ events' = Tail(events) /\ Head(events).kind # "output"
        /\ UNCHANGED <<seq, ops, emu, size, barrier, screen, hub, missed, reflowed>>
        /\ wpc \in {"select", "drain"} /\ paused \subseteq paused'
    BY <1>6 DEF ApplyPause, ApplyTopology, TakeEvent
  <2>2. \A p \in hub : 1 \notin Live(p)
    BY <2>1, Taken DEF Live
  <2>3. \A p \in hub : NeedsSeed(p) => (NeedsSeed(p))'
    BY <2>1 DEF NeedsSeed
  <2> QED
    BY <2>1, <2>2, <2>3, ComposesTaken
<1>7. CASE PauseCommand
  <2>1. \A p \in hub : NeedsSeed(p) => (NeedsSeed(p))'
    BY <1>7 DEF PauseCommand, NeedsSeed
  <2>2. UNCHANGED <<ops, emu, size, barrier, screen, hub>>
    BY <1>7 DEF PauseCommand
  <2>3. UNCHANGED streamVars \/ Emit(Event("pause", target))
    BY <1>7 DEF PauseCommand
  <2>4. Event("pause", target).seq = seq /\ Event("pause", target).kind # "output"
    BY DEF Event
  <2> QED
    BY <2>1, <2>2, <2>3, <2>4, ComposesEmitted, ComposesQuiet
<1>8. CASE Seed
  BY <1>8, ComposesSeed
<1>9. CASE \E p \in Panes : ReconcileNew(p) \/ ReconcileResized(p)
  BY <1>9, ComposesReconcile
<1>10. CASE Sweep
  BY <1>10, ComposesSweep
<1> QED
  BY <1>1, <1>2, <1>3, <1>4, <1>5, <1>6, <1>7, <1>8, <1>9, <1>10
     DEF Watcher, Apply, Reconcile, FlowControl

-----------------------------------------------------------------------------
(***************************************************************************)
(* The theorems.                                                           *)
(***************************************************************************)
\* What holds whatever tmux does.
HerdInv == HerdTypeOK /\ Placed /\ Lives /\ Signalled

\* It holds at first, and every step keeps it.
LEMMA HerdInvStep ==
  ASSUME HerdInv, [Next]_vars
  PROVE  HerdInv'
<1> USE DEF HerdInv
<1>1. CASE Tmux
  BY <1>1, HerdTypeTmux, PlacedBeside, LivesTmux, SignalledBeside
<1>2. CASE Cancel \/ \E p \in Panes : Drain(p) \/ TimerFires(p)
  BY <1>2, HerdTypeBeside, PlacedBeside, LivesBeside, SignalledBeside
<1>3. CASE Watcher
  BY <1>3, HerdTypeWatcher, PlacedWatcher, LivesWatcher, SignalledWatcher
<1>4. CASE UNCHANGED vars
  BY <1>4 DEF vars, tmuxVars, streamVars, loopVars, hubVars, resumeVars, pipeVars, history, HerdTypeOK, TypeOK,
              Placed, Reconciling, Lives, TopologyQueued, Signalled, Fresh, Between, Signals
<1> QED
  BY <1>1, <1>2, <1>3, <1>4 DEF Next

\* So it always holds.
LEMMA HerdInvHolds == Spec => []HerdInv
<1>1. Init => HerdInv
  BY HerdTypeInit, PlacedInit, LivesInit, SignalledInit DEF HerdInv
<1> QED
  BY <1>1, HerdInvStep, PTL DEF Spec

\* The watcher keeps its types: a pane marked paused is always one it follows,
\* a listing only holds panes of its snapshot, and no channel overfills.
THEOREM HerdTypeCorrect == Spec => []TypeOK
  BY HerdInvHolds, PTL DEF HerdInv, HerdTypeOK

\* Flow control loses no resume and floods none: a paused pane has exactly one
\* resume signal outstanding, every other pane of the hub none, whatever tmux
\* does and whichever flow-control command fails.
THEOREM NoResumeLost == Spec => []ResumePending
<1>1. HerdInv => ResumePending
  BY DEF HerdInv, Signalled, Between, ResumePending
<1> QED
  BY <1>1, HerdInvHolds, PTL

\* The Herd the RPCs list is the set of panes that have a pipeline whenever
\* the watcher waits for work, and is tmux's own set once all is handled: no
\* pane that comes or goes between a listing and its sweep is forgotten.
THEOREM HerdFollowsSession == Spec => []HerdIsCurrent
<1>1. HerdInv => HerdIsCurrent
  <2> SUFFICES ASSUME HerdInv, wpc = "select"
               PROVE  registry = hub /\ (Quiet => registry = alive)
    BY DEF HerdIsCurrent
  <2>1. registry = hub /\ ~topology
    BY DEF HerdInv, Lives, Placed, Reconciling
  <2>2. ASSUME Quiet PROVE ~TopologyQueued
    BY <2>2 DEF Quiet, TopologyQueued
  <2> QED
    BY <2>1, <2>2 DEF HerdInv, Lives, Reconciling
<1> QED
  BY <1>1, HerdInvHolds, PTL

\* Whenever tmux pauses a pane, on the Server's word or its own and before or
\* after the watcher lists it, it withholds a watched pane's output only while
\* the watcher knows of the pause: the pause of a pane that was not in the hub
\* when it was announced is the only one that is ever lost.
THEOREM PausesAreKnown == Spec => []PauseKnown
<1>1. Init => Known
  BY KnownInit
<1>2. HerdInv /\ Known /\ [Next]_vars => Known'
  <2> SUFFICES ASSUME HerdInv, Known, [Next]_vars PROVE Known'
    OBVIOUS
  <2> USE DEF HerdInv
  <2>1. CASE Tmux
    BY <2>1, KnownTmux
  <2>2. CASE Cancel \/ \E p \in Panes : Drain(p) \/ TimerFires(p)
    BY <2>2, KnownBeside
  <2>3. CASE Watcher
    BY <2>3, KnownWatcher
  <2>4. CASE UNCHANGED vars
    BY <2>4 DEF vars, tmuxVars, streamVars, loopVars, hubVars, history, Known, KnowsPause
  <2> QED
    BY <2>1, <2>2, <2>3, <2>4 DEF Next
<1>3. HerdInv /\ Known => PauseKnown
  BY DEF HerdInv, Placed, Known, PauseKnown
<1> QED
  BY <1>1, <1>2, <1>3, HerdInvHolds, PTL DEF Spec

\* Seeds and the live stream compose, however often a pane is resized before a
\* reconcile: once everything in flight is handled, every emulator shows exactly
\* its pane's screen, with no chunk lost, doubled or out of order, except a pane
\* that wrote between its capture and its continue and one that a listing found
\* back at the size it had.
THEOREM SeedsAreExact == Spec => []SeedsCompose
<1> DEFINE Inv == Sized /\ Composes
<1>1. Init => Inv
  BY SizedInit, ComposesInit
<1>2. HerdInv /\ Inv /\ [Next]_vars => Inv'
  <2> SUFFICES ASSUME HerdInv, Inv, [Next]_vars PROVE Inv'
    OBVIOUS
  <2> USE DEF HerdInv
  <2>1. CASE Tmux
    BY <2>1, SizedTmux, ComposesTmux
  <2>2. CASE Cancel \/ \E p \in Panes : Drain(p) \/ TimerFires(p)
    BY <2>2, SizedBeside, ComposesBeside
  <2>3. CASE Watcher
    BY <2>3, SizedWatcher, ComposesWatcher
  <2>4. CASE UNCHANGED vars
    <3>1. Sized'
      BY <2>4 DEF vars, tmuxVars, streamVars, loopVars, hubVars, history, Sized, TopologyQueued
    <3>2. Composes'
      BY <2>4, ComposesQuiet DEF vars, tmuxVars, streamVars, loopVars, hubVars, pipeVars, history, NeedsSeed
    <3> QED
      BY <3>1, <3>2
  <2> QED
    BY <2>1, <2>2, <2>3, <2>4 DEF Next
<1>3. HerdInv /\ Inv => SeedsCompose
  <2> SUFFICES ASSUME HerdInv, Inv, Quiet, NEW p \in hub
               PROVE  p \in alive /\ (Shows(p) \/ p \in missed \cup swung)
    BY DEF SeedsCompose
  <2>1. wpc = "select" /\ events = <<>> /\ resumeCh = <<>> /\ ~ctxDone /\ ops[p] = <<>>
        /\ timers[p] = 0 /\ p \in Panes
    BY DEF Quiet, HerdInv, HerdTypeOK, TypeOK
  <2>2. ~TopologyQueued /\ ~topology /\ DOMAIN listed = {}
    BY <2>1 DEF TopologyQueued, HerdInv, Placed, Reconciling
  <2>3. p \in alive
    BY <2>1, <2>2 DEF HerdInv, Lives, Reconciling
  <2>4. size[p] = screen[p].size
    BY <2>1, <2>2, <2>3 DEF Sized
  <2>5. p \notin paused
    <3>1. {i \in DOMAIN resumeCh : resumeCh[i] = p} = {}
      BY <2>1
    <3>2. Signals(p) = 0
      BY <2>1, <3>1, FS_EmptySet DEF Signals
    <3> QED
      BY <2>1, <3>2 DEF HerdInv, Signalled, Between
  <2>6. PICK last \in Emus :
          /\ Applies(ops[p], emu[p], last) /\ last.size = size[p]
          /\ NeedsSeed(p) \/ LiveOutput(p, last)
    BY DEF Composes, Follows
  <2>7. emu[p] = last
    BY <2>1, <2>6, AppliesOfNothing
  <2>8. ASSUME p \notin missed \cup swung PROVE Shows(p)
    <3>0. p \notin reflowed
      BY <2>1, <2>2, <2>3, <2>4, <2>8 DEF Sized
    <3>1. LiveOutput(p, last)
      BY <2>1, <2>4, <2>5, <2>6, <2>8, <3>0 DEF NeedsSeed
    <3>2. Live(p) = {}
      BY <2>1 DEF Live
    <3>3. screen[p].n \in Nat
      BY <2>1, WatcherAssumption DEF HerdInv, HerdTypeOK, TypeOK
    <3>4. last.ok /\ last.n = screen[p].n
      BY <3>1, <3>2, <3>3 DEF LiveOutput, Emus
    <3>5. last = [ok |-> last.ok, n |-> last.n, size |-> last.size] /\ last.ok \in BOOLEAN
      BY DEF Emus
    <3> QED
      BY <2>4, <2>6, <2>7, <3>4, <3>5 DEF Shows
  <2> QED
    BY <2>3, <2>8
<1> HIDE DEF Inv
<1> QED
  BY <1>1, <1>2, <1>3, HerdInvHolds, PTL DEF Spec
=============================================================================
