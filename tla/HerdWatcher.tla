---------------------------- MODULE HerdWatcher ----------------------------
(***************************************************************************)
(* The tmux watcher (internal/server/watcher.go): it mirrors one tmux      *)
(* session into the pane hub and the Registry, feeds each pane's pipeline, *)
(* and runs the flow control of ADR-0008 (pause a saturated pane, re-seed  *)
(* it, continue it).                                                       *)
(*                                                                         *)
(* tmux is external and modelled from how the watcher uses it.  A pane's   *)
(* screen is the number of output chunks that made it and the size it has; *)
(* an emulator is right when it shows exactly those chunks at that size,   *)
(* and is "ok" no more once a chunk is applied twice, out of order, after  *)
(* a missing one or at another size.  Only a seed makes it right again.    *)
(*                                                                         *)
(* A tmux command is one step, taken when tmux executes it: what happens   *)
(* between that moment and the watcher reading the reply only adds events  *)
(* behind it.  Between two commands of one handler tmux goes on.           *)
(***************************************************************************)
EXTENDS Integers, Sequences, FiniteSets

CONSTANTS
  Panes,            \* pane ids; tmux never reuses one
  InitPanes,        \* the panes of the session when the watcher attaches
  PaneSizes,        \* the sizes tmux gives panes
  AttachSize,       \* the size a pane is created with
  OpsQueue,         \* capacity of a pipeline's ops channel
  ResumeQueue,      \* resumeQueue: capacity of resumeCh
  MaxOut,           \* bound: chunks a pane produces
  MaxResizes,       \* bound: resizes of a pane
  MaxBackstops      \* bound: times the pause-after backstop fires

ASSUME WatcherAssumption ==
  /\ InitPanes \subseteq Panes /\ InitPanes # {} /\ AttachSize \in PaneSizes
  /\ OpsQueue \in Nat \ {0} /\ ResumeQueue \in Nat \ {0}
  /\ MaxOut \in Nat /\ MaxResizes \in Nat /\ MaxBackstops \in Nat

VARIABLES
  \* tmux
  alive,       \* panes of the session
  unborn,      \* pane ids not created yet
  screen,      \* each pane's [n, size]
  tmuxPaused,  \* panes whose output tmux withholds from the control client
  tmuxEnded,   \* tmux closed the control client
  resizes, backstops,
  \* the control stream
  events,      \* notifications the watcher has not received
  seq,         \* stream position: notifications emitted so far
  \* the watcher
  wpc,         \* "list" | "reconcile" | "seed" | "continue" | "pause" |
               \*   "select" | "drain" | "ended"
  target,      \* the pane a seed, pause or continue is about
  resuming,    \* the seed belongs to resumePane, not to reconcile
  topology,    \* the drained events call for a reconcile
  listed,      \* the list-panes snapshot still to reconcile: pane -> size
  seen,        \* the panes of that snapshot
  ctxDone,     \* the Server is shutting down
  hub,         \* panes with a pipeline
  size,        \* watchedPane's recorded geometry
  barrier,     \* watchedPane.seedBarrier
  paused,      \* panes marked paused
  registry,    \* the Herd the RPCs list
  timers,      \* resume timers not yet delivered, per pane
  resumeCh,
  \* the pipelines
  ops,         \* each pipeline's channel
  emu,         \* each pipeline's emulator: [ok, n, size]
  \* history
  missed,      \* panes that produced output while tmux withheld it, since
               \*   their last seed
  reflowed,    \* panes resized since their last seed
  swung,       \* of these, the panes a listing found back at their recorded size
  unheard      \* panes whose pause was announced when they were not in the hub

tmuxVars == <<alive, unborn, screen, tmuxPaused, tmuxEnded, resizes, backstops>>
streamVars == <<events, seq>>
loopVars == <<wpc, target, resuming, topology, listed, seen>>
hubVars == <<hub, size, barrier, paused, registry>>
resumeVars == <<timers, resumeCh>>
pipeVars == <<ops, emu>>
history == <<missed, reflowed, swung, unheard>>
vars == <<tmuxVars, streamVars, loopVars, ctxDone, hubVars, resumeVars, pipeVars, history>>

Nobody == "none"

Event(kind, p) == [kind |-> kind, pane |-> p, n |-> 0, size |-> AttachSize, seq |-> seq]

Chunk(p) == [Event("output", p) EXCEPT !.n = screen[p].n + 1, !.size = screen[p].size]

Emit(ev) == events' = Append(events, ev) /\ seq' = seq + 1

Garbled(sz) == [ok |-> FALSE, n |-> 0, size |-> sz]

\* What an op does to a pipeline's emulator.
EmuApply(e, op) ==
  CASE op.kind = "output" ->
         IF e.ok /\ e.n + 1 = op.n /\ e.size = op.size
         THEN [e EXCEPT !.n = op.n] ELSE Garbled(e.size)
    [] op.kind = "resize" -> IF e.size = op.size THEN e ELSE Garbled(op.size)
    [] op.kind = "seed" ->
         IF e.size = op.size THEN [ok |-> TRUE, n |-> op.n, size |-> op.size]
         ELSE Garbled(e.size)

-----------------------------------------------------------------------------
Init ==
  /\ alive = InitPanes /\ unborn = Panes \ InitPanes
  /\ screen = [p \in Panes |-> [n |-> 0, size |-> AttachSize]]
  /\ tmuxPaused = {} /\ tmuxEnded = FALSE
  /\ resizes = [p \in Panes |-> 0] /\ backstops = 0
  /\ events = <<>> /\ seq = 0
  /\ wpc = "list" /\ target = Nobody /\ resuming = FALSE /\ topology = FALSE
  /\ listed = <<>> /\ seen = {}
  /\ ctxDone = FALSE
  /\ hub = {} /\ paused = {} /\ registry = {}
  /\ size = [p \in Panes |-> AttachSize]
  /\ barrier = [p \in Panes |-> 0]
  /\ timers = [p \in Panes |-> 0] /\ resumeCh = <<>>
  /\ ops = [p \in Panes |-> <<>>]
  /\ emu = [p \in Panes |-> Garbled(AttachSize)]
  /\ missed = {} /\ reflowed = {} /\ swung = {} /\ unheard = {}

(***************************************************************************)
(* tmux (external).                                                        *)
(***************************************************************************)
otherThanTmux == <<loopVars, ctxDone, hubVars, resumeVars, pipeVars>>

\* A pane writes.  Output of a paused pane reaches the screen and is never
\* sent, not even on continue.
Produce(p) ==
  /\ ~tmuxEnded /\ p \in alive /\ screen[p].n < MaxOut
  /\ screen' = [screen EXCEPT ![p].n = @ + 1]
  /\ IF p \in tmuxPaused
     THEN missed' = missed \cup {p} /\ UNCHANGED streamVars
     ELSE Emit(Chunk(p)) /\ missed' = missed
  /\ UNCHANGED <<alive, unborn, tmuxPaused, tmuxEnded, resizes, backstops, otherThanTmux,
                 reflowed, swung, unheard>>

Spawn(p) ==
  /\ ~tmuxEnded /\ p \in unborn
  /\ unborn' = unborn \ {p} /\ alive' = alive \cup {p}
  /\ Emit(Event("topology", p))
  /\ UNCHANGED <<screen, tmuxPaused, tmuxEnded, resizes, backstops, otherThanTmux, history>>

\* The session ends with its last pane (TmuxEnds).
Die(p) ==
  /\ ~tmuxEnded /\ p \in alive /\ alive # {p}
  /\ alive' = alive \ {p} /\ tmuxPaused' = tmuxPaused \ {p}
  /\ Emit(Event("topology", p))
  /\ UNCHANGED <<unborn, screen, tmuxEnded, resizes, backstops, otherThanTmux, history>>

\* The pane's content is reflowed to the new size.
ResizePane(p, sz) ==
  /\ ~tmuxEnded /\ p \in alive /\ screen[p].size # sz /\ resizes[p] < MaxResizes
  /\ screen' = [screen EXCEPT ![p].size = sz]
  /\ resizes' = [resizes EXCEPT ![p] = @ + 1]
  /\ Emit(Event("topology", p))
  /\ reflowed' = reflowed \cup {p}
  /\ UNCHANGED <<alive, unborn, tmuxPaused, tmuxEnded, backstops, otherThanTmux,
                 missed, swung, unheard>>

\* pause-after: tmux pauses a pane by itself, be it known to the watcher or not.
Backstop(p) ==
  /\ ~tmuxEnded /\ p \in alive \ tmuxPaused /\ backstops < MaxBackstops
  /\ tmuxPaused' = tmuxPaused \cup {p}
  /\ backstops' = backstops + 1
  /\ Emit(Event("pause", p))
  /\ UNCHANGED <<alive, unborn, screen, tmuxEnded, resizes, otherThanTmux, history>>

\* %exit, or the control stream ending without one.
TmuxEnds ==
  /\ ~tmuxEnded
  /\ tmuxEnded' = TRUE
  /\ Emit(Event("exit", Nobody))
  /\ UNCHANGED <<alive, unborn, screen, tmuxPaused, resizes, backstops, otherThanTmux, history>>

Tmux == \/ \E p \in Panes : \/ Produce(p) \/ Spawn(p) \/ Die(p) \/ Backstop(p)
                            \/ \E sz \in PaneSizes : ResizePane(p, sz)
        \/ TmuxEnds

-----------------------------------------------------------------------------
(***************************************************************************)
(* The pipelines and the resume timers.                                    *)
(***************************************************************************)
Drain(p) ==
  /\ ops[p] # <<>>
  /\ emu' = [emu EXCEPT ![p] = EmuApply(@, Head(ops[p]))]
  /\ ops' = [ops EXCEPT ![p] = Tail(@)]
  /\ UNCHANGED <<tmuxVars, streamVars, loopVars, ctxDone, hubVars, resumeVars, history>>

HasRoomAlways(p) == TRUE   \* mutant: output never finds the channel full

HasRoom(p) == Len(ops[p]) < OpsQueue

Enqueue(p, op) == ops' = [ops EXCEPT ![p] = Append(@, op)]

scheduleResumeLost(p) == UNCHANGED timers   \* mutant: no timer is started

scheduleResume(p) == timers' = [timers EXCEPT ![p] = @ + 1]

\* After a failed flow-control command: try again later, except at shutdown.
Reschedule(p) == IF ctxDone THEN UNCHANGED timers ELSE scheduleResume(p)

\* A resume timer hands its pane to the watcher, waiting for room in
\* resumeCh; teardown releases it instead.
TimerFires(p) ==
  /\ timers[p] > 0
  /\ \/ Len(resumeCh) < ResumeQueue /\ resumeCh' = Append(resumeCh, p)
     \/ wpc = "ended" /\ resumeCh' = resumeCh
  /\ timers' = [timers EXCEPT ![p] = @ - 1]
  /\ UNCHANGED <<tmuxVars, streamVars, loopVars, ctxDone, hubVars, pipeVars, history>>

-----------------------------------------------------------------------------
(***************************************************************************)
(* The watcher.                                                            *)
(***************************************************************************)
GoTo(state) == wpc' = state

\* teardown: the Herd empties and every pipeline closes, dropping its queue.
Teardown ==
  /\ GoTo("ended")
  /\ hub' = {} /\ registry' = {} /\ paused' = {}
  /\ ops' = [p \in Panes |-> <<>>]
  /\ target' = Nobody /\ resuming' = FALSE /\ topology' = FALSE
  /\ listed' = <<>> /\ seen' = {}
  /\ UNCHANGED <<tmuxVars, streamVars, ctxDone, size, barrier, resumeVars, emu, history>>

Cancel ==
  /\ ~ctxDone
  /\ ctxDone' = TRUE
  /\ UNCHANGED <<tmuxVars, streamVars, loopVars, hubVars, resumeVars, pipeVars, history>>

\* A command fails when its pane is gone, when tmux is, or when the context
\* ends while it waits.
PaneCommandFails(p) == tmuxEnded \/ p \notin alive \/ ctxDone

PaneCommandWorks(p) == ~tmuxEnded /\ p \in alive

SelectShutdown == wpc = "select" /\ ctxDone /\ Teardown

\* A resume signal: dropped when the pane is gone or already resumed.
SelectResume ==
  /\ wpc = "select" /\ resumeCh # <<>>
  /\ resumeCh' = Tail(resumeCh)
  /\ IF Head(resumeCh) \in hub \cap paused
     THEN GoTo("seed") /\ target' = Head(resumeCh) /\ resuming' = TRUE
     ELSE UNCHANGED <<wpc, target, resuming>>
  /\ UNCHANGED <<tmuxVars, streamVars, topology, listed, seen, ctxDone, hubVars, timers,
                 pipeVars, history>>

(***************************************************************************)
(* apply: one notification, from the select or from the drain loop behind  *)
(* it.                                                                     *)
(***************************************************************************)
TakeEvent(kind) ==
  /\ wpc \in {"select", "drain"} /\ events # <<>> /\ Head(events).kind = kind
  /\ events' = Tail(events)
  /\ UNCHANGED <<tmuxVars, seq, listed, seen, resuming, ctxDone, missed, reflowed, swung>>

DroppedWithoutBarrier(ev) == ev.pane \notin hub \/ ev.pane \in paused   \* mutant

DroppedOutput(ev) == ev.pane \notin hub \/ ev.seq < barrier[ev.pane] \/ ev.pane \in paused

ApplyOutput ==
  /\ TakeEvent("output")
  /\ LET ev == Head(events) IN
       CASE DroppedOutput(ev) ->
              GoTo("drain") /\ UNCHANGED <<ops, paused, target>>
         [] ~DroppedOutput(ev) /\ HasRoom(ev.pane) ->
              GoTo("drain") /\ Enqueue(ev.pane, [kind |-> "output", n |-> ev.n, size |-> ev.size])
              /\ UNCHANGED <<paused, target>>
         [] OTHER ->
              GoTo("pause") /\ paused' = paused \cup {ev.pane} /\ target' = ev.pane
              /\ UNCHANGED ops
  /\ UNCHANGED <<topology, hub, size, barrier, registry, resumeVars, emu, unheard>>

AdoptsAnyPause(p) == p \in hub   \* mutant: the echo schedules a second resume

AdoptsNoPause(p) == FALSE        \* mutant: only the Server's own pauses count

\* Adopt a pause of tmux's own; the echo of the Server's is already marked.
AdoptsPause(p) == p \in hub \ paused

ApplyPause ==
  /\ TakeEvent("pause")
  /\ GoTo("drain")
  /\ LET p == Head(events).pane IN
       IF AdoptsPause(p)
       THEN paused' = paused \cup {p} /\ scheduleResume(p)
       ELSE UNCHANGED <<paused, timers>>
  /\ unheard' = unheard \cup ({Head(events).pane} \ hub)
  /\ UNCHANGED <<target, topology, hub, size, barrier, registry, resumeCh, pipeVars>>

ApplyTopology ==
  /\ TakeEvent("topology")
  /\ GoTo("drain") /\ topology' = TRUE
  /\ UNCHANGED <<target, hubVars, resumeVars, pipeVars, unheard>>

ApplyExit ==
  /\ wpc \in {"select", "drain"} /\ events # <<>> /\ Head(events).kind = "exit"
  /\ Teardown

AfterDrainIdle == "select"   \* mutant: the topology flag is lost

AfterDrain == IF topology THEN "list" ELSE "select"

\* The drain loop's default case: no event is on offer right now.  The pump
\* may still hold some (Events is unbuffered).
DrainDone ==
  /\ wpc = "drain"
  /\ GoTo(AfterDrain)
  /\ topology' = FALSE
  /\ UNCHANGED <<tmuxVars, streamVars, target, resuming, listed, seen, ctxDone, hubVars,
                 resumeVars, pipeVars, history>>

(***************************************************************************)
(* pausePane's command; the pane is marked already.  A failure schedules   *)
(* the resume all the same, except at shutdown.                            *)
(***************************************************************************)
PauseCommand ==
  /\ wpc = "pause"
  /\ \/ /\ PaneCommandWorks(target)
        /\ tmuxPaused' = tmuxPaused \cup {target}
        /\ IF target \in tmuxPaused THEN UNCHANGED streamVars
           ELSE Emit(Event("pause", target))
        /\ scheduleResume(target)
     \/ /\ PaneCommandFails(target)
        /\ Reschedule(target)
        /\ UNCHANGED <<tmuxPaused, streamVars>>
  /\ GoTo("drain") /\ target' = Nobody
  /\ UNCHANGED <<alive, unborn, screen, tmuxEnded, resizes, backstops, resuming, topology,
                 listed, seen, ctxDone, hubVars, resumeCh, pipeVars, history>>

(***************************************************************************)
(* seed: capture the screen, move the barrier to the capture's position,   *)
(* deliver (waiting for room).  Its caller is resumePane or reconcile.     *)
(***************************************************************************)
SeedBarrierEarly == IF seq > 0 THEN seq - 1 ELSE 0   \* mutant: one event too low

\* The capture's stream position.
SeedBarrier == seq

SeedOp(p) == [kind |-> "seed", n |-> screen[p].n, size |-> screen[p].size]

Seed ==
  /\ wpc = "seed" /\ PaneCommandWorks(target) /\ HasRoom(target)
  /\ barrier' = [barrier EXCEPT ![target] = SeedBarrier]
  /\ Enqueue(target, SeedOp(target))
  /\ missed' = missed \ {target} /\ reflowed' = reflowed \ {target} /\ swung' = swung \ {target}
  /\ IF resuming
     THEN GoTo("continue") /\ paused' = paused \ {target} /\ UNCHANGED target
     ELSE GoTo("reconcile") /\ target' = Nobody /\ UNCHANGED paused
  /\ UNCHANGED <<tmuxVars, streamVars, resuming, topology, listed, seen, ctxDone, hub, size,
                 registry, resumeVars, emu, unheard>>

\* A failed re-seed of a resume is retried, at shutdown dropped.
SeedFailsOnResume ==
  /\ wpc = "seed" /\ resuming /\ PaneCommandFails(target)
  /\ Reschedule(target)
  /\ GoTo("select") /\ target' = Nobody /\ resuming' = FALSE
  /\ UNCHANGED <<tmuxVars, streamVars, topology, listed, seen, ctxDone, hubVars, resumeCh,
                 pipeVars, history>>

\* A failed seed inside reconcile ends the watcher.
SeedFailsOnReconcile ==
  /\ wpc = "seed" /\ ~resuming /\ PaneCommandFails(target)
  /\ Teardown

Continue ==
  /\ wpc = "continue" /\ PaneCommandWorks(target)
  /\ tmuxPaused' = tmuxPaused \ {target} /\ unheard' = unheard \ {target}
  /\ GoTo("select") /\ target' = Nobody /\ resuming' = FALSE
  /\ UNCHANGED <<alive, unborn, screen, tmuxEnded, resizes, backstops, streamVars, topology,
                 listed, seen, ctxDone, hubVars, resumeVars, pipeVars, missed, reflowed, swung>>

ContinueFails ==
  /\ wpc = "continue" /\ PaneCommandFails(target)
  /\ paused' = IF ctxDone THEN paused ELSE paused \cup {target}
  /\ Reschedule(target)
  /\ GoTo("select") /\ target' = Nobody /\ resuming' = FALSE
  /\ UNCHANGED <<tmuxVars, streamVars, topology, listed, seen, ctxDone, hub, size, barrier,
                 registry, resumeCh, pipeVars, history>>

(***************************************************************************)
(* reconcile: list-panes, then pane by pane, then the sweep.               *)
(***************************************************************************)
ListPanes ==
  /\ wpc = "list" /\ ~tmuxEnded
  /\ listed' = [p \in alive |-> screen[p].size] /\ seen' = alive
  /\ swung' = swung \cup {p \in hub \cap reflowed \cap alive : size[p] = screen[p].size}
  /\ GoTo("reconcile")
  /\ UNCHANGED <<tmuxVars, streamVars, target, resuming, topology, ctxDone, hubVars,
                 resumeVars, pipeVars, missed, reflowed, unheard>>

ListFails == wpc = "list" /\ (tmuxEnded \/ ctxDone) /\ Teardown

Listed(p) == wpc = "reconcile" /\ p \in DOMAIN listed

Without(p) == listed' = [q \in DOMAIN listed \ {p} |-> listed[q]]

\* A new pane: a pipeline of the listed size, then its seed.
ReconcileNew(p) ==
  /\ Listed(p) /\ p \notin hub
  /\ hub' = hub \cup {p} /\ size' = [size EXCEPT ![p] = listed[p]]
  /\ emu' = [emu EXCEPT ![p] = Garbled(listed[p])]
  /\ Without(p)
  /\ GoTo("seed") /\ target' = p
  /\ UNCHANGED <<tmuxVars, streamVars, resuming, topology, seen, ctxDone, barrier, paused,
                 registry, resumeVars, ops, history>>

\* A resized pane: resize the pipeline (waiting for room) and re-seed.
ReconcileResized(p) ==
  /\ Listed(p) /\ p \in hub /\ size[p] # listed[p] /\ HasRoom(p)
  /\ size' = [size EXCEPT ![p] = listed[p]]
  /\ Enqueue(p, [kind |-> "resize", size |-> listed[p]])
  /\ Without(p)
  /\ GoTo("seed") /\ target' = p
  /\ UNCHANGED <<tmuxVars, streamVars, resuming, topology, seen, ctxDone, hub, barrier, paused,
                 registry, resumeVars, emu, history>>

ReconcileSame(p) ==
  /\ Listed(p) /\ p \in hub /\ size[p] = listed[p]
  /\ Without(p)
  /\ UNCHANGED <<tmuxVars, streamVars, wpc, target, resuming, topology, seen, ctxDone, hubVars,
                 resumeVars, pipeVars, history>>

KeepsAll == hub   \* mutant: panes that are gone stay in the hub

Kept == hub \cap seen

\* Close what the snapshot no longer has; the Registry becomes the snapshot.
Sweep ==
  /\ wpc = "reconcile" /\ DOMAIN listed = {}
  /\ hub' = Kept
  /\ paused' = paused \cap seen
  /\ ops' = [p \in Panes |-> IF p \in seen THEN ops[p] ELSE <<>>]
  /\ registry' = seen
  /\ seen' = {}
  /\ GoTo("select")
  /\ UNCHANGED <<tmuxVars, streamVars, target, resuming, topology, listed, ctxDone, size,
                 barrier, resumeVars, emu, history>>

Apply == ApplyOutput \/ ApplyPause \/ ApplyTopology \/ ApplyExit

Reconcile == \/ ListPanes \/ ListFails \/ Sweep
             \/ \E p \in Panes : ReconcileNew(p) \/ ReconcileResized(p) \/ ReconcileSame(p)

FlowControl == \/ PauseCommand \/ Seed \/ SeedFailsOnResume \/ SeedFailsOnReconcile
               \/ Continue \/ ContinueFails

Watcher == SelectShutdown \/ SelectResume \/ Apply \/ DrainDone \/ Reconcile \/ FlowControl

Next == \/ Tmux \/ Cancel \/ Watcher
        \/ \E p \in Panes : Drain(p) \/ TimerFires(p)

Spec == Init /\ [][Next]_vars

(***************************************************************************)
(* Fairness.  The watcher, the pipelines and the timers keep going.  The   *)
(* select chooses at random among its ready cases, so neither the events   *)
(* nor the resume signals starve: strong fairness for each case.  Nothing  *)
(* is asked of tmux.                                                       *)
(***************************************************************************)
Fairness ==
  /\ WF_vars(DrainDone \/ Reconcile \/ FlowControl)
  /\ SF_vars(SelectResume) /\ SF_vars(Apply) /\ SF_vars(SelectShutdown)
  /\ \A p \in Panes : WF_vars(Drain(p)) /\ WF_vars(TimerFires(p))

FairSpec == Spec /\ Fairness

-----------------------------------------------------------------------------
(***************************************************************************)
(* Properties.                                                             *)
(***************************************************************************)
TypeOK ==
  /\ alive \subseteq Panes /\ unborn \subseteq Panes /\ tmuxPaused \subseteq Panes
  /\ screen \in [Panes -> [n: 0 .. MaxOut, size: PaneSizes]]
  /\ tmuxEnded \in BOOLEAN /\ ctxDone \in BOOLEAN
  /\ resizes \in [Panes -> 0 .. MaxResizes] /\ backstops \in 0 .. MaxBackstops
  /\ seq \in Nat
  /\ wpc \in {"list", "reconcile", "seed", "continue", "pause", "select", "drain", "ended"}
  /\ target \in Panes \cup {Nobody} /\ resuming \in BOOLEAN /\ topology \in BOOLEAN
  /\ seen \subseteq Panes /\ DOMAIN listed \subseteq seen
  /\ hub \subseteq Panes /\ paused \subseteq hub /\ registry \subseteq Panes
  /\ size \in [Panes -> PaneSizes] /\ barrier \in [Panes -> Nat]
  /\ timers \in [Panes -> Nat]
  /\ Len(resumeCh) <= ResumeQueue
  /\ \A p \in Panes : Len(ops[p]) <= OpsQueue
  /\ missed \subseteq Panes /\ reflowed \subseteq Panes /\ unheard \subseteq Panes
  /\ swung \subseteq reflowed

Signals(p) == timers[p] + Cardinality({i \in DOMAIN resumeCh : resumeCh[i] = p})

\* A pane of the hub has exactly one resume signal outstanding while it is
\* marked paused and none otherwise, except while the watcher is between
\* marking it and scheduling, or between taking the signal and its outcome:
\* no paused pane is left with nothing to unpause it, and no flood of
\* resumes builds up.  (At shutdown nothing is rescheduled.)
ResumePending ==
  ~ctxDone => \A p \in hub \ (IF wpc \in {"pause", "seed"} THEN {target} ELSE {}) :
                Signals(p) = IF p \in paused THEN 1 ELSE 0

\* The pane is marked paused, a %pause is on its way, or its continue is.
KnowsPause(p) ==
  \/ p \in paused
  \/ \E i \in DOMAIN events : events[i].kind = "pause" /\ events[i].pane = p
  \/ wpc = "continue" /\ target = p
  \/ ctxDone \/ tmuxEnded

\* tmux withholds a watched pane's output only while the watcher knows.  The
\* one exception is a pause that tmux announced before the pane was in the hub.
PauseKnown == \A p \in hub \cap tmuxPaused : KnowsPause(p) \/ p \in unheard

\* What apply's comment says: no exception ("Adopt the latter and make sure a
\* resume is scheduled").
PauseAlwaysKnown == \A p \in hub \cap tmuxPaused : KnowsPause(p)

Quiet == /\ wpc = "select" /\ events = <<>> /\ resumeCh = <<>> /\ ~ctxDone /\ ~tmuxEnded
         /\ \A p \in Panes : timers[p] = 0 /\ ops[p] = <<>>

Shows(p) == emu[p] = [ok |-> TRUE, n |-> screen[p].n, size |-> screen[p].size]

\* Once everything in flight is handled, every emulator shows exactly its
\* pane's screen: seeds and the live stream compose without duplication or
\* loss through floods, pauses, drags and topology changes.  The exceptions are
\* output a pane writes between its capture and its continue, and a pane that
\* was resized away and back before a listing could tell.
SeedsCompose == Quiet => \A p \in hub : p \in alive /\ (Shows(p) \/ p \in missed \cup swung)

\* What resumePane's and seed's comments say: no exception ("captures a
\* frozen, authoritative screen"; "without duplication or loss").
SeedsComposeAlways == Quiet => \A p \in hub : Shows(p)

\* What reconcile's comment says: a resized pane is re-seeded ("tmux reflows
\* content in ways an emulator resize does not reproduce").
ResizesAreSeeded == Quiet => \A p \in hub : Shows(p) \/ p \in missed

\* The Herd lists exactly the panes that have a pipeline whenever the watcher
\* waits for work, and tmux's own panes once nothing is in flight.
HerdIsCurrent ==
  wpc = "select" => registry = hub /\ (Quiet => registry = alive)

\* run's comment: once it has a Herd the watcher ends because tmux went away or
\* the Server is shutting down, and for no other reason.
EndsOnlyWithTmux ==
  [][registry # {} /\ wpc' = "ended" => tmuxEnded \/ ctxDone]_vars

\* A live pane never stays paused.
PausedIsResumed ==
  \A p \in Panes : p \in paused ~> (p \notin paused \/ p \notin alive \/ ctxDone)

\* Whatever happened before, once tmux has nothing more to say the mirror is
\* exact again and stays so, unless the session or the Server ended.
MirrorSettles ==
  <>[](wpc # "ended" => HerdIsCurrent /\ \A p \in hub : Shows(p) \/ p \in missed \cup swung)
=============================================================================
