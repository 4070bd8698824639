---------------------------- MODULE WatchStream ----------------------------
(***************************************************************************)
(* A Pane's render streams end to end: the WatchPane handlers of           *)
(* internal/server/service.go subscribed to one render pipeline, the       *)
(* ordered stream to each Client (gRPC), and the Client's PaneView         *)
(* (internal/client/client.go).                                            *)
(***************************************************************************)
EXTENDS RenderPipeline

CONSTANT
  WireCap   \* external: messages the transport buffers before Send blocks

ASSUME WireAssumption == WireCap \in Nat /\ WireCap >= 2

VARIABLES
  handler,  \* each stream's handler: "idle" | "subscribing" | "relaying" |
            \*   "draining" | "leaving" | "ended"
  wire,     \* messages sent to the Client and not yet received
  gone,     \* streams whose Client hung up (the stream's context is done)
  view,     \* each Client's PaneView: its grid and cursor
  sawExit   \* Clients that received PaneExited

streamVars == <<handler, wire, gone, view, sawExit>>
allVars == <<vars, streamVars>>

HandlerStates == {"idle", "subscribing", "relaying", "draining", "leaving", "ended"}

Messages == [kind: {"resize", "damage", "exited"}, size: Sizes,
             damage: Patches, cursor: Cursors]

StreamTypeOK ==
  /\ TypeOK
  /\ handler \in [Streams -> HandlerStates]
  /\ wire \in [Streams -> Seq(Messages)]
  /\ gone \subseteq Streams
  /\ view \in [Streams -> Views(Sizes \cup {<<0, 0>>})]
  /\ sawExit \subseteq Streams

StreamInit ==
  /\ Init
  /\ handler = [s \in Streams |-> "idle"]
  /\ wire = [s \in Streams |-> <<>>]
  /\ gone = {} /\ sawExit = {}
  /\ view = [s \in Streams |-> [grid |-> New(<<0, 0>>), cursor |-> Origin]]

-----------------------------------------------------------------------------
(***************************************************************************)
(* The wire: sendUpdate sends an update's resize before its damage.        *)
(***************************************************************************)
SendDamageFirst(u) ==   \* mutant: the damage overtakes its resize
  IF u.kind = "sync"
  THEN << [u EXCEPT !.kind = "damage"], [u EXCEPT !.kind = "resize"] >>
  ELSE << u >>

SendUpdate(u) ==
  IF u.kind = "sync"
  THEN << [u EXCEPT !.kind = "resize"], [u EXCEPT !.kind = "damage"] >>
  ELSE << u >>

ExitedMessage == [kind |-> "exited", size |-> InitSize,
                  damage |-> EmptyDamage, cursor |-> Origin]

\* PaneView.Apply, for the messages that touch the grid.
ApplyMessage(v, m) ==
  CASE m.kind = "resize" -> [v EXCEPT !.grid = New(m.size)]
    [] m.kind = "damage" -> [grid |-> Apply(v.grid, m.damage), cursor |-> m.cursor]
    [] OTHER             -> v

GoTo(s, state) == handler' = [handler EXCEPT ![s] = state]

\* The hub still has the pane: the watcher removes it before it closes it.
OpenStream(s) ==
  /\ handler[s] = "idle" /\ watcher = "feeding"
  /\ GoTo(s, "subscribing")
  /\ UNCHANGED <<vars, wire, gone, view, sawExit>>

Subscribe(s) ==
  /\ handler[s] = "subscribing"
  /\ Post(SubscribeOp(s))
  /\ GoTo(s, "relaying")
  /\ UNCHANGED <<done, loopVars, screenVars, subVars, callerVars, wire, gone, view, sawExit>>

Receiving(s) == handler[s] \in {"relaying", "draining"}

\* Receive one queued update and send it.  Send waits for the transport.
Relay(s) ==
  /\ Receiving(s) /\ ch[s] # <<>> /\ s \notin gone
  /\ LET msgs == SendUpdate(Head(ch[s])) IN
       /\ Len(wire[s]) + Len(msgs) <= WireCap
       /\ wire' = [wire EXCEPT ![s] = @ \o msgs]
  /\ ch' = [ch EXCEPT ![s] = Tail(@)]
  /\ UNCHANGED <<ops, done, loopVars, screenVars, subs, lagged, closed, exited,
                 callerVars, handler, gone, view, sawExit>>

\* Sending to a Client that hung up fails; only the main loop unsubscribes.
RelayFails(s) ==
  /\ Receiving(s) /\ ch[s] # <<>> /\ s \in gone
  /\ ch' = [ch EXCEPT ![s] = Tail(@)]
  /\ GoTo(s, IF handler[s] = "relaying" THEN "leaving" ELSE "ended")
  /\ UNCHANGED <<ops, done, loopVars, screenVars, subs, lagged, closed, exited,
                 callerVars, wire, gone, view, sawExit>>

\* A drained, closed channel ends the stream, with PaneExited if the Pane left;
\* to a Client that hung up that send fails like any other.
RelayClosed(s) ==
  /\ Receiving(s) /\ ch[s] = <<>> /\ s \in closed
  /\ IF s \in exited /\ s \notin gone
     THEN /\ Len(wire[s]) < WireCap
          /\ wire' = [wire EXCEPT ![s] = Append(@, ExitedMessage)]
     ELSE wire' = wire
  /\ GoTo(s, IF s \in exited \cap gone /\ handler[s] = "relaying" THEN "leaving" ELSE "ended")
  /\ UNCHANGED <<vars, gone, view, sawExit>>

SeeHangUp(s) ==
  /\ handler[s] = "relaying" /\ s \in gone
  /\ GoTo(s, "leaving")
  /\ UNCHANGED <<vars, wire, gone, view, sawExit>>

Unsubscribe(s) ==
  /\ handler[s] = "leaving"
  /\ Post(UnsubscribeOp(s))
  /\ GoTo(s, "ended")
  /\ UNCHANGED <<done, loopVars, screenVars, subVars, callerVars, wire, gone, view, sawExit>>

SeeDoneMissed(s) ==   \* mutant: only a closed channel tells that the pipeline ended
  /\ handler[s] = "relaying" /\ done /\ s \in closed
  /\ GoTo(s, "draining")
  /\ UNCHANGED <<vars, wire, gone, view, sawExit>>

SeeDone(s) ==
  /\ handler[s] = "relaying" /\ done
  /\ GoTo(s, "draining")
  /\ UNCHANGED <<vars, wire, gone, view, sawExit>>

DrainEmptyEarly(s) ==   \* mutant: an empty channel counts as the end
  /\ handler[s] = "draining" /\ ch[s] = <<>>
  /\ GoTo(s, "ended")
  /\ UNCHANGED <<vars, wire, gone, view, sawExit>>

\* The drain's default case: nothing queued and the channel still open, so
\* this subscribe was never registered.
DrainEmpty(s) ==
  /\ handler[s] = "draining" /\ ch[s] = <<>> /\ s \notin closed
  /\ GoTo(s, "ended")
  /\ UNCHANGED <<vars, wire, gone, view, sawExit>>

\* The Client: it may hang up at any moment, or receive what the wire holds.
HangUp(s) ==
  /\ handler[s] # "idle" /\ s \notin gone /\ s \notin sawExit
  /\ gone' = gone \cup {s}
  /\ UNCHANGED <<vars, handler, wire, view, sawExit>>

ClientReceives(s) ==
  /\ wire[s] # <<>> /\ s \notin gone
  /\ view' = [view EXCEPT ![s] = ApplyMessage(@, Head(wire[s]))]
  /\ sawExit' = IF Head(wire[s]).kind = "exited" THEN sawExit \cup {s} ELSE sawExit
  /\ wire' = [wire EXCEPT ![s] = Tail(@)]
  /\ UNCHANGED <<vars, handler, gone>>

-----------------------------------------------------------------------------
PipelineStep == (RunLoop \/ TimerFires \/ Caller) /\ UNCHANGED streamVars

Handler(s) == \/ Subscribe(s) \/ Relay(s) \/ RelayFails(s) \/ RelayClosed(s)
              \/ SeeHangUp(s) \/ Unsubscribe(s) \/ SeeDone(s) \/ DrainEmpty(s)

Client(s) == OpenStream(s) \/ HangUp(s) \/ ClientReceives(s)

Next == PipelineStep \/ \E s \in Streams : Handler(s) \/ Client(s)

Spec == StreamInit /\ [][Next]_allVars

(***************************************************************************)
(* Fairness.  Every goroutine that can run does.  The run loop's select    *)
(* chooses at random among its ready cases, so a timer that keeps being    *)
(* ready is taken in the end however busy the ops channel is: strong       *)
(* fairness.  A Client that has not hung up keeps receiving.  Nothing      *)
(* obliges the pane to produce output, to close, or a Client to come or go.*)
(***************************************************************************)
Fairness ==
  /\ WF_allVars(RunLoop /\ UNCHANGED streamVars)
  /\ SF_allVars(TimerFires /\ UNCHANGED streamVars)
  /\ WF_allVars(CloseReturns /\ UNCHANGED streamVars)
  /\ \A s \in Streams : WF_allVars(Handler(s)) /\ WF_allVars(ClientReceives(s))

FairSpec == Spec /\ Fairness

-----------------------------------------------------------------------------
(***************************************************************************)
(* Properties.                                                             *)
(***************************************************************************)

Mirror == [grid |-> shadow, cursor |-> cursor]

\* A registered, connected subscriber that is not lagged and has received all
\* that was queued for it holds exactly the flushed screen: increments, resizes and
\* resyncs compose without loss, whatever the pipeline dropped on the way.
CaughtUp ==
  \A s \in subs \ (lagged \cup gone) : ch[s] = <<>> /\ wire[s] = <<>> => view[s] = Mirror

\* No patch a Client receives falls outside its grid (where Set would drop
\* it silently): damage is never sent ahead of the resize it belongs to, also
\* across an overflow, and the first message of a stream is a resize.
DamageFits ==
  \A s \in Streams : wire[s] # <<>> /\ Head(wire[s]).kind = "damage" =>
    /\ SizeOf(view[s].grid) # <<0, 0>>
    /\ DOMAIN Head(wire[s]).damage \subseteq Positions(SizeOf(view[s].grid))

\* While the run loop waits with no timer running and someone is watching,
\* nothing is owed: the shadow is the emulator's screen and nobody is
\* lagged.  A subscriber never depends on the pane producing more output.
NothingOwedWhenIdle ==
  pc = "select" /\ ~armed /\ subs # {} =>
    /\ Mirror = term
    /\ subs \cap lagged = {}

\* The run loop never sends on or closes a closed subscriber channel (a Go
\* panic): a registered subscriber's channel is open until the loop returns.
NoClosedSend == ~done => subs \cap closed = {}

\* The run loop never waits for a subscriber: the one blocking send it makes,
\* the sync of an opSubscribe, always has room, so a stalled Client can never
\* stall the pane or its other watchers.
LoopNeverBlocks == ControlOp("subscribe") => SyncHasRoom(Head(burst).sub)

\* A stream that was registered when the Pane left the Herd ends with
\* PaneExited as its last message, unless the Client hung up: no backlog
\* and no order of the select's cases drops it.
ExitTold ==
  \A s \in exited \ gone : handler[s] = "ended" =>
    \/ s \in sawExit /\ wire[s] = <<>>
    \/ wire[s] # <<>> /\ wire[s][Len(wire[s])].kind = "exited"

\* One wakeup handles at most the full channel plus the op received first.
BurstBounded == Len(burst) <= OpsQueue + 1

\* Once the pane is quiet, every Client that stays sees the emulator's screen.
Converges ==
  <>[](\A s \in subs \ gone : ~done => view[s] = term)

\* A lagged subscriber that stays is resynced, even on an idle pane.
ResyncLands ==
  \A s \in Streams : s \in lagged \cap subs ~> (s \notin lagged \/ s \in gone \/ done)

\* Every handler ends once the pipeline has ended or its Client hung up: no
\* post, send or drain waits for ever.
StreamsEnd ==
  \A s \in Streams :
    (done \/ s \in gone) /\ handler[s] # "idle" ~> handler[s] = "ended"
=============================================================================
