----------------------------- MODULE Dashboard -----------------------------
(***************************************************************************)
(* The Client dashboard (internal/tui/model.go).  Update runs one message  *)
(* at a time; the commands it issues (herd fetches, watches, receive       *)
(* loops, input forwarding) run on goroutines of their own and their       *)
(* messages come back in any order.                                        *)
(*                                                                         *)
(* A view is how many updates of which stream it has taken.  What a Server *)
(* does with an input stream is what InputService shows of it: a resize    *)
(* makes the stream drive a pane, a restore or the end of the stream       *)
(* releases it.  Panes of different Hosts share nothing but the screen.    *)
(* Quitting and failed fetches (the footer's error) are left out, and so   *)
(* is the moving of the selection: Enter may focus any card.               *)
(***************************************************************************)
EXTENDS Naturals, Sequences, FiniteSets

CONSTANTS
  Refs,            \* PaneRefs: panes scoped by Host; a pane id never returns
  Hosts, HostOf,   \* the Host of each PaneRef
  NoRef,           \* the zero PaneRef
  ForwardBuffer,   \* forwardBuffer: capacity of an input queue
  Lasting,         \* bound: panes that run throughout
  MaxFetches,      \* bound: herd fetches
  MaxWatches,      \* bound: watches opened, for each pane
  MaxUpdates,      \* bound: updates a stream of each pane carries before its end
  MaxGens          \* bound: input generations per Host

ASSUME DashboardAssumption ==
  /\ HostOf \in [Refs -> Hosts] /\ NoRef \notin Refs /\ Lasting \subseteq Refs
  /\ ForwardBuffer \in Nat \ {0} /\ MaxFetches \in Nat \ {0}
  /\ MaxWatches \in [Refs -> Nat] /\ MaxUpdates \in [Refs -> Nat] /\ MaxGens \in Nat

VARIABLES
  \* the Servers
  unborn, alive,   \* panes still to open, panes running
  driven,          \* panes each live input stream has resized and not restored
                   \*   (a stream that ends restores them)
  \* commands at work and their messages
  asked,           \* herd fetches not answered yet
  listed,          \* answers Update has still to apply: a herd, and when it was listed
  listings,        \* fetches answered so far
  streams,         \* each watch: "none" | "opening" | "receiving" | "over", and the
                   \*   updates it has delivered
  fwd,             \* each generation's forwarding command: phase, request, queue
  cancelled,       \* retired generations
  \* the Model
  sizeKnown,       \* a WindowSizeMsg has come
  panes, views, focus,
  inputs,          \* each Host's generation, 0 for none
  \* history
  applied,         \* when the newest herd applied was listed
  forgotten,       \* running panes unfocused by a herd older than one applied before
  strayKey         \* a keystroke reached a pane its stream was not driving

serverVars == <<unborn, alive>>
inputVars == <<driven, fwd, cancelled, strayKey>>
fetchVars == <<asked, listed, listings>>
modelVars == <<sizeKnown, panes, views, focus, inputs, applied, forgotten>>
vars == <<serverVars, inputVars, fetchVars, streams, modelVars>>

Gens == Hosts \X (1..MaxGens)
Watches == UNION {{r} \X (1..MaxWatches[r]) : r \in Refs}
NoView == <<>>
NoInput == [phase |-> "none", request |-> [kind |-> "none", ref |-> NoRef], queue |-> <<>>]
NewView == [stream |-> 0, err |-> FALSE, exited |-> FALSE, from |-> 0, taken |-> 0, mixed |-> FALSE]

Request(kind, r) == [kind |-> kind, ref |-> r]

Init ==
  /\ alive \in {a \in SUBSET Refs : Lasting \subseteq a} /\ unborn = Refs \ alive
  /\ driven = [g \in Gens |-> {}] /\ cancelled = {} /\ strayKey = FALSE
  /\ asked = 1 /\ listed = {} /\ listings = 0
  /\ streams = [w \in Watches |-> [phase |-> "none", delivered |-> 0]]
  /\ fwd = [g \in Gens |-> NoInput]
  /\ sizeKnown = FALSE /\ panes = {} /\ focus = NoRef
  /\ views = [r \in Refs |-> NoView]
  /\ inputs = [h \in Hosts |-> 0]
  /\ applied = 0 /\ forgotten = {}

-----------------------------------------------------------------------------
(***************************************************************************)
(* The Servers (external to the dashboard).                                *)
(***************************************************************************)
PaneOpens(r) ==
  /\ r \in unborn
  /\ unborn' = unborn \ {r} /\ alive' = alive \cup {r}
  /\ UNCHANGED <<inputVars, fetchVars, streams, modelVars>>

PaneExits(r) ==
  /\ r \in alive \ Lasting
  /\ alive' = alive \ {r}
  /\ UNCHANGED <<unborn, inputVars, fetchVars, streams, modelVars>>

-----------------------------------------------------------------------------
(***************************************************************************)
(* Commands.                                                               *)
(***************************************************************************)
\* fetchPanesCmd asks the Hosts one after the other: one step, exact for one
\* Host.  A fetch that fails is one that stays asked.
FetchLists ==
  /\ asked > 0
  /\ asked' = asked - 1 /\ listings' = listings + 1
  /\ listed' = listed \cup {[herd |-> alive, at |-> listings + 1]}
  /\ UNCHANGED <<serverVars, inputVars, streams, modelVars>>

SetForward(g, phase) ==
  fwd' = [fwd EXCEPT ![g].phase = phase, ![g].request = NoInput.request]

ForwardReturns(g) == fwd' = [fwd EXCEPT ![g] = [NoInput EXCEPT !.phase = "ended"]]

\* forwardInputCmd: opening fails at random, and always once cancelled.
ForwardOpens(g) ==
  /\ fwd[g].phase = "opening"
  /\ \/ g \notin cancelled /\ SetForward(g, "idle")
     \/ SetForward(g, "failed")
  /\ UNCHANGED <<driven, cancelled, strayKey, serverVars, fetchVars, streams, modelVars>>

\* The select, and the check that a retired backlog is not replayed.
ForwardTakes(g) ==
  /\ fwd[g].phase = "idle"
  /\ IF g \in cancelled
     THEN ForwardReturns(g)
     ELSE /\ fwd[g].queue # <<>>
          /\ fwd' = [fwd EXCEPT ![g] = [phase |-> "sending", request |-> Head(@.queue),
                                        queue |-> Tail(@.queue)]]
  /\ UNCHANGED <<driven, cancelled, strayKey, serverVars, fetchVars, streams, modelVars>>

\* What the Server makes of a request (InputService); a pane that left is skipped.
Drives(g, q) ==
  CASE q.kind = "resize"  -> driven[g] \cup ({q.ref} \cap alive)
    [] q.kind = "restore" -> driven[g] \ {q.ref}
    [] OTHER              -> driven[g]

ForwardSends(g) ==
  /\ fwd[g].phase = "sending" /\ g \notin cancelled
  /\ LET q == fwd[g].request IN
       /\ driven' = [driven EXCEPT ![g] = Drives(g, q)]
       /\ strayKey' = (strayKey \/ (q.kind = "keys" /\ q.ref \in alive \ driven[g]))
  /\ SetForward(g, "idle")
  /\ UNCHANGED <<cancelled, serverVars, fetchVars, streams, modelVars>>

\* A stream can break at any time; the next send notices it.
ForwardSendFails(g) ==
  /\ fwd[g].phase = "sending"
  /\ SetForward(g, "failed")
  /\ UNCHANGED <<driven, cancelled, strayKey, serverVars, fetchVars, streams, modelVars>>

-----------------------------------------------------------------------------
(***************************************************************************)
(* The input side of the Model: send, dropInput, queueResize, unfocus.     *)
(***************************************************************************)
Current(h) == <<h, inputs[h]>>
StalledLate(h) == Len(fwd[Current(h)].queue) > ForwardBuffer   \* mutant: off by one

Stalled(h) == Len(fwd[Current(h)].queue) = ForwardBuffer

Queue(g, q) == fwd' = [fwd EXCEPT ![g].queue = Append(@, q)]

dropInputKeepsFocus(h) ==   \* mutant: focus outlives its input
  /\ cancelled' = cancelled \cup ({Current(h)} \cap Gens)
  /\ inputs' = [inputs EXCEPT ![h] = 0]
  /\ driven' = [g \in Gens |-> IF g = Current(h) THEN {} ELSE driven[g]]
  /\ focus' = focus

dropInput(h) ==
  /\ cancelled' = cancelled \cup ({Current(h)} \cap Gens)
  /\ inputs' = [inputs EXCEPT ![h] = 0]
  /\ driven' = [g \in Gens |-> IF g = Current(h) THEN {} ELSE driven[g]]
  /\ focus' = IF focus # NoRef /\ HostOf[focus] = h THEN NoRef ELSE focus

\* send, for the focused pane: a full queue drops the input instead; newFocus
\* is the focus otherwise.
Send(kind, newFocus) ==
  LET h == HostOf[focus] IN
  CASE inputs[h] = 0 -> focus' = newFocus /\ UNCHANGED <<fwd, cancelled, inputs, driven>>
    [] inputs[h] # 0 /\ Stalled(h) -> dropInput(h) /\ UNCHANGED fwd
    [] OTHER -> /\ Queue(Current(h), Request(kind, focus))
                /\ focus' = newFocus /\ UNCHANGED <<cancelled, inputs, driven>>

unfocusSilently == focus' = NoRef /\ UNCHANGED <<fwd, cancelled, inputs, driven>>   \* mutant: no restore

unfocus == Send("restore", NoRef)

-----------------------------------------------------------------------------
(***************************************************************************)
(* Update: keys and the viewport.                                          *)
(***************************************************************************)
KeepViews == UNCHANGED <<panes, views, applied>>

WindowSize ==
  /\ sizeKnown' = TRUE
  /\ IF focus # NoRef THEN Send("resize", focus) ELSE UNCHANGED <<fwd, cancelled, inputs, focus, driven>>
  /\ KeepViews
  /\ UNCHANGED <<strayKey, forgotten, serverVars, fetchVars, streams>>

Leader ==
  /\ focus # NoRef /\ unfocus /\ KeepViews
  /\ UNCHANGED <<strayKey, forgotten, sizeKnown, serverVars, fetchVars, streams>>

Type ==
  /\ focus # NoRef /\ Send("keys", focus) /\ KeepViews
  /\ UNCHANGED <<strayKey, forgotten, sizeKnown, serverVars, fetchVars, streams>>

Refresh ==
  /\ focus = NoRef /\ asked + listings < MaxFetches
  /\ asked' = asked + 1
  /\ UNCHANGED <<listed, listings, serverVars, inputVars, streams, modelVars>>

\* A live, sized pane: the first update of a stream is its resize.
Focusable(r) ==
  /\ views[r] # NoView
  /\ ~views[r].err /\ ~views[r].exited /\ views[r].taken > 0

\* A generation is opened when there is none, and the resize queued.
FocusNewInput(r) ==
  LET h == HostOf[r]
      unused == {k \in 1..MaxGens : fwd[<<h, k>>].phase = "none"} IN
  /\ inputs[h] = 0
  /\ \E k \in unused :
       /\ \A j \in unused : k <= j
       /\ inputs' = [inputs EXCEPT ![h] = k]
       /\ fwd' = [fwd EXCEPT ![<<h, k>>].phase = "opening",
                             ![<<h, k>>].queue = << Request("resize", r) >>]
  /\ focus' = r /\ UNCHANGED <<cancelled, driven>>

FocusReusesQuietly(r) ==   \* mutant: an open generation is not asked to resize
  /\ inputs[HostOf[r]] # 0
  /\ focus' = r /\ UNCHANGED <<fwd, cancelled, inputs, driven>>

FocusReusesInput(r) ==
  LET h == HostOf[r] IN
  /\ inputs[h] # 0
  /\ IF Stalled(h) THEN dropInput(h) /\ UNCHANGED fwd
     ELSE Queue(Current(h), Request("resize", r)) /\ focus' = r /\ UNCHANGED <<cancelled, inputs, driven>>

\* Any card can be the selected one.
FocusSelected(r) ==
  /\ focus = NoRef /\ r \in panes /\ sizeKnown /\ Focusable(r)
  /\ FocusNewInput(r) \/ FocusReusesInput(r)
  /\ forgotten' = forgotten \ {r}
  /\ KeepViews
  /\ UNCHANGED <<strayKey, sizeKnown, serverVars, fetchVars, streams>>

-----------------------------------------------------------------------------
(***************************************************************************)
(* Update: fetch results and streams.                                      *)
(***************************************************************************)
WatchCount(r) == Cardinality({k \in 1..MaxWatches[r] : streams[<<r, k>>].phase # "none"})

ApplyHerd(answer) ==
  LET herd    == answer.herd
      rewatch == {r \in herd : views[r] = NoView \/ (views[r] # NoView /\ views[r].err)}
      drops   == focus # NoRef /\ focus \notin herd
  IN
  /\ \A r \in rewatch : WatchCount(r) < MaxWatches[r]
  /\ listed' = listed \ {answer}
  /\ panes' = herd
  /\ views' = [r \in Refs |-> IF r \in rewatch THEN NewView
                              ELSE IF r \in herd THEN views[r] ELSE NoView]
  /\ streams' = [w \in Watches |-> IF w[1] \in rewatch /\ w[2] = WatchCount(w[1]) + 1
                                   THEN [streams[w] EXCEPT !.phase = "opening"] ELSE streams[w]]
  /\ focus' = IF drops THEN NoRef ELSE focus
  /\ applied' = IF answer.at > applied THEN answer.at ELSE applied
  /\ forgotten' = IF drops /\ answer.at < applied THEN forgotten \cup {focus} ELSE forgotten
  /\ UNCHANGED <<asked, listings, sizeKnown, inputs, serverVars, inputVars>>

(***************************************************************************)
(* A watchPaneCmd or recvCmd and the message it returns are one step, taken *)
(* when Update handles the message: what a stream says does not depend on   *)
(* when it is read, and until then the command changes nothing.             *)
(***************************************************************************)
LoopEnds(w) == streams' = [streams EXCEPT ![w] = [phase |-> "over", delivered |-> 0]]

WatchStarted(w) ==
  /\ streams[w].phase = "opening"
  /\ IF views[w[1]] = NoView
     THEN LoopEnds(w) /\ UNCHANGED views
     ELSE /\ streams' = [streams EXCEPT ![w].phase = "receiving"]
          /\ views' = [views EXCEPT ![w[1]].stream = w[2]]
  /\ UNCHANGED <<sizeKnown, panes, focus, inputs, applied, forgotten,
                 serverVars, inputVars, fetchVars>>

FeedsAny(w) == views[w[1]] # NoView   \* mutant: a replaced stream's tail is not stale

\* The stream is still the one its view is fed by.
Feeds(w) == views[w[1]] # NoView /\ views[w[1]].stream = w[2]

\* PaneView.Apply of the n-th update; the first one of a stream resets the grid.
Folded(v, k, n) ==
  IF n = 1 THEN [v EXCEPT !.from = k, !.taken = 1, !.mixed = FALSE]
  ELSE [v EXCEPT !.taken = n, !.mixed = @ \/ v.from # k \/ v.taken + 1 # n]

PaneUpdate(w) ==
  LET n == streams[w].delivered + 1 IN
  /\ streams[w].phase = "receiving" /\ n <= MaxUpdates[w[1]]
  /\ IF Feeds(w)
     THEN /\ views' = [views EXCEPT ![w[1]] = Folded(@, w[2], n)]
          /\ streams' = [streams EXCEPT ![w].delivered = n]
     ELSE UNCHANGED views /\ LoopEnds(w)
  /\ UNCHANGED <<sizeKnown, panes, focus, inputs, applied, forgotten,
                 serverVars, inputVars, fetchVars>>

PaneExited(w) ==
  /\ streams[w].phase = "receiving" /\ w[1] \notin alive
  /\ LoopEnds(w)
  /\ views' = IF Feeds(w) THEN [views EXCEPT ![w[1]].exited = TRUE] ELSE views
  /\ focus' = IF Feeds(w) /\ focus = w[1] THEN NoRef ELSE focus
  /\ UNCHANGED <<sizeKnown, panes, inputs, applied, forgotten,
                 serverVars, inputVars, fetchVars>>

\* A watch that never opened carries no stream: it matches a view without one.
Concerns(w) == views[w[1]] # NoView /\
               views[w[1]].stream = (IF streams[w].phase = "opening" THEN 0 ELSE w[2])

WatchFailed(w) ==
  /\ streams[w].phase \in {"opening", "receiving"}
  /\ LoopEnds(w)
  /\ IF Concerns(w)
     THEN /\ views' = [views EXCEPT ![w[1]].err = TRUE]
          /\ IF focus = w[1] THEN unfocus ELSE UNCHANGED <<fwd, cancelled, inputs, focus, driven>>
     ELSE UNCHANGED <<views, fwd, cancelled, inputs, focus, driven>>
  /\ UNCHANGED <<sizeKnown, panes, applied, forgotten,
                 strayKey, serverVars, fetchVars>>

ConcernsHost(g) == inputs[g[1]] # 0   \* mutant: a retired generation's failure counts

IsCurrent(g) == inputs[g[1]] = g[2]

InputFailed(g) ==
  /\ fwd[g].phase = "failed"
  /\ IF IsCurrent(g) THEN dropInput(g[1]) ELSE UNCHANGED <<cancelled, inputs, focus, driven>>
  /\ ForwardReturns(g)
  /\ KeepViews
  /\ UNCHANGED <<sizeKnown, forgotten, strayKey, serverVars, fetchVars, streams>>

-----------------------------------------------------------------------------
Servers == \E r \in Refs : PaneOpens(r) \/ PaneExits(r)

Commands == \/ FetchLists
            \/ \E g \in Gens : \/ ForwardOpens(g) \/ ForwardTakes(g)
                               \/ ForwardSends(g) \/ ForwardSendFails(g)

User == \/ WindowSize \/ Leader \/ Type \/ Refresh
        \/ \E r \in Refs : FocusSelected(r)

Messages == \/ \E answer \in listed : ApplyHerd(answer)
            \/ \E w \in Watches : \/ WatchStarted(w) \/ PaneUpdate(w)
                                  \/ PaneExited(w) \/ WatchFailed(w)
            \/ \E g \in Gens : InputFailed(g)

Next == Servers \/ Commands \/ User \/ Messages

Spec == Init /\ [][Next]_vars

-----------------------------------------------------------------------------
(***************************************************************************)
(* Properties.                                                             *)
(***************************************************************************)
TypeOK ==
  /\ alive \subseteq Refs /\ unborn \subseteq Refs \ alive
  /\ driven \in [Gens -> SUBSET Refs] /\ cancelled \subseteq Gens
  /\ \A g \in Gens : Len(fwd[g].queue) <= ForwardBuffer
  /\ panes \subseteq Refs /\ focus \in panes \cup {NoRef}
  /\ \A r \in Refs : views[r] # NoView <=> r \in panes
  /\ inputs \in [Hosts -> 0..MaxGens]
  /\ applied \in 0..listings /\ forgotten \subseteq Refs

\* The damage of two streams is never interleaved in one grid, and no update
\* is skipped or repeated, whatever tails of replaced watches are still in flight.
ViewsUnmixed == \A r \in panes : ~views[r].mixed

\* A focused pane has a live, sized view and an input generation that is not
\* retired: keystrokes never go nowhere, or into a frozen frame.
FocusIsLive ==
  focus # NoRef =>
    /\ ~views[focus].err /\ ~views[focus].exited /\ views[focus].taken > 0
    /\ inputs[HostOf[focus]] # 0 /\ Current(HostOf[focus]) \notin cancelled

Settled(g) == fwd[g].phase = "idle" /\ fwd[g].queue = <<>> /\ g \notin cancelled

\* Once a healthy input stream has nothing left to send, it drives the
\* focused pane and no other: every way out of focus gave the pane its size back.
\* The exception is a running pane dropped by an outdated herd.
DrivenIffFocused ==
  \A g \in Gens : Settled(g) =>
    driven[g] \cap (alive \ forgotten) = {r \in {focus} \cap alive : g = Current(HostOf[r])}

\* A keystroke only ever reaches a running pane at this Client's size: its
\* focus was announced on the same stream before it and not withdrawn.
NoStrayKeys == ~strayKey

\* An input generation is retired only when its own stream failed or its own
\* queue is full: the late failure of a retired one leaves its successor alone.
HealthyInputKept ==
  [][\A h \in Hosts : inputs[h] # 0 /\ inputs'[h] = 0 =>
       fwd[Current(h)].phase = "failed" \/ Stalled(h)]_vars
=============================================================================
