---------------------------- MODULE InputService ----------------------------
(***************************************************************************)
(* Control Input: the SendInput handlers of internal/server/service.go,    *)
(* the injection of keys and resizes by internal/inject/inject.go, and the *)
(* Client's InputStream (internal/client/client.go).  Handlers share one   *)
(* ordered command line to tmux, and the pane hub with the watcher, whose  *)
(* reconcile (modelled in full by HerdWatcher) is here the two steps that  *)
(* matter to a handler: a listing is taken, and later it is recorded.      *)
(*                                                                         *)
(* A size is one number standing for both dimensions; a byte is a number.  *)
(* The session is assumed to hold a further pane that nobody drives, so    *)
(* the death of a modelled pane does not end tmux.                         *)
(***************************************************************************)
EXTENDS Naturals, SequencesExt

CONSTANTS
  Streams,        \* Control Input streams (one per Client generation)
  Panes,
  PaneSize,       \* the size of every pane before anyone drives it
  OtherSize,      \* a size a pane takes by an external resize
  Requests,       \* sizes a Client asks for
  KeyData,        \* byte sequences a Client sends as one KeyBytes event
  Home,           \* the bytes tmux puts in the place of a leading tilde
  MaxResizeDim,   \* service.go: maxResizeDim, also tmux's own limit
  MaxEvents,      \* bound: events sent on one stream
  MaxUnread,      \* bound: events sent and not yet received by the handler
  MaxFaults       \* bound: external resizes, pane exits, tmux ending, shutdown

NoOne == "nobody"

ASSUME InputAssumption ==
  /\ NoOne \notin Streams
  /\ MaxResizeDim \in Nat /\ MaxEvents \in Nat /\ MaxUnread \in Nat /\ MaxFaults \in Nat
  /\ PaneSize \in 1..MaxResizeDim /\ OtherSize \in 1..MaxResizeDim
  /\ Requests \subseteq Nat \ {0}    \* SendResize refuses a non-positive size
  /\ KeyData \subseteq Seq(0..255) \ {<<>>}   \* SendKeys drops empty data
  /\ Home \in Seq(0..255)

VARIABLES
  \* tmux (external)
  size,      \* each pane's size in tmux; 0 once it has exited
  line,      \* commands written to tmux and not yet run
  tmuxUp,    \* the control client is attached
  setBy,     \* whose command gave the pane its size, if one did
  faults,    \* external resizes, pane exits, ends of tmux and of the Server so far
  got,       \* what the panes' ptys received from each stream, in order
  \* the watcher, as handlers see it
  hub,       \* recorded size of each pane in the hub; 0 when it is not in it
  dirty,     \* topology notifications not yet reconciled
  listing,   \* the list-panes reply being reconciled, or <<>>
  \* the handlers
  down,      \* serveCtx is done
  st,        \* "idle" | "select" | "inject" | "waiting" | "restoring" | "ended"
  cur,       \* the injection under way
  reply,     \* the reply channel of its command: "none" | "ok" | "error"
  saved,     \* recorded pre-resize size of each pane; 0 for no record
  origin,    \* the size tmux gave the pane when it was recorded; 0 if the record is stale
  summary,   \* bytes injected by each stream
  result,    \* how the stream ended: "none" | "ok" | "shutdown" | "error"
  \* the Clients
  sent,      \* events each Client has sent
  taken,     \* how many of them its handler has received
  closed,    \* streams the Client half-closed
  gone       \* streams whose Client hung up

tmuxVars == <<size, line, tmuxUp, setBy, faults, got>>
watcherVars == <<hub, dirty, listing>>
handlerVars == <<st, cur, reply, saved, origin, summary, result, taken>>
clientVars == <<sent, closed, gone>>
vars == <<tmuxVars, watcherVars, handlerVars, clientVars, down>>

Sizes == 0..MaxResizeDim

Keys(p, d) == [kind |-> "keys", pane |-> p, data |-> d, size |-> 0]
ResizeRequest(p, n) == [kind |-> "resize", pane |-> p, data |-> <<>>, size |-> n]
RestoreSize(p) == [kind |-> "restore", pane |-> p, data |-> <<>>, size |-> 0]

Events == {Keys(p, d) : p \in Panes, d \in KeyData}
            \cup {ResizeRequest(p, n) : p \in Panes, n \in Requests}
            \cup {RestoreSize(p) : p \in Panes}

\* One command of inject.go, with the event it is for (a history of the model);
\* live while its caller still waits for the reply.
Command(s, op, p, n, d) ==
  [stream |-> s, op |-> op, pane |-> p, size |-> n, data |-> d, live |-> TRUE,
   event |-> taken[s]]

NothingToInject == [kind |-> "none", pane |-> CHOOSE p \in Panes : TRUE, size |-> 0, rest |-> <<>>]

Init ==
  /\ size = [p \in Panes |-> PaneSize]
  /\ line = <<>> /\ tmuxUp = TRUE /\ faults = 0
  /\ setBy = [p \in Panes |-> NoOne]
  /\ got = [s \in Streams |-> <<>>]
  /\ \E born \in SUBSET Panes :   \* panes that opened after the last reconcile
       /\ hub = [p \in Panes |-> IF p \in born THEN 0 ELSE PaneSize]
       /\ dirty = (born # {})
  /\ listing = <<>> /\ down = FALSE
  /\ st = [s \in Streams |-> "idle"]
  /\ cur = [s \in Streams |-> NothingToInject]
  /\ reply = [s \in Streams |-> "none"]
  /\ saved = [s \in Streams |-> [p \in Panes |-> 0]]
  /\ origin = saved
  /\ summary = [s \in Streams |-> 0]
  /\ result = [s \in Streams |-> "none"]
  /\ sent = [s \in Streams |-> <<>>]
  /\ taken = [s \in Streams |-> 0]
  /\ closed = {} /\ gone = {}

-----------------------------------------------------------------------------
(***************************************************************************)
(* inject.go: data is cut into maximal runs of one class, sent in order.   *)
(***************************************************************************)
isControlC0(b) == b < 32   \* mutant: DEL is taken for text

isControl(b) == b < 32 \/ b = 127

\* The length of the first run of d: where the class changes, or all of it.
RunLength(d) ==
  CHOOSE n \in 1..Len(d) :
    /\ \A i \in 1..n : isControl(d[i]) = isControl(d[1])
    /\ n < Len(d) => isControl(d[n + 1]) # isControl(d[1])

FirstRun(d) == SubSeq(d, 1, RunLength(d))
RestOf(d) == SubSeq(d, RunLength(d) + 1, Len(d))

Tilde == 126
Slash == 47

\* The bytes quoteArg looks for, a blank to a percent sign; a run without one
\* is written unquoted.
Special == {32, 9, 39, 34, 92, 59, 35, 123, 125, 36, 37}

Quoted(run) == \E i \in 1..Len(run) : run[i] \in Special

\* sendControl, or sendLiteral with the run quoted or not.
KeysOp(d) == IF isControl(d[1]) THEN "hex" ELSE IF Quoted(FirstRun(d)) THEN "literal" ELSE "bare"
KeysCommand(s, p, d) == Command(s, KeysOp(d), p, 0, FirstRun(d))

\* external: what a pty receives.  send-keys -H takes a byte for a code point,
\* so one above 127 is re-encoded; literal mode is for text only; and what
\* means something to tmux's command parser does not survive it unquoted.
Received(op, b) ==
  CASE op = "hex"     -> IF b < 128 THEN <<b>> ELSE <<194, b>>
    [] op = "literal" -> IF b >= 32 /\ b # 127 THEN <<b>> ELSE <<>>
    [] op = "bare"    -> IF b >= 32 /\ b # 127 /\ b \notin Special THEN <<b>> ELSE <<>>

\* external: the parser takes an unquoted word for a path when it begins with a
\* tilde, and puts a home directory in the place of what precedes its first slash.
Expands(op, d) == op = "bare" /\ d # <<>> /\ d[1] = Tilde

AfterName(d) ==
  LET slashes == {i \in 1..Len(d) : d[i] = Slash}
  IN IF slashes = {} THEN <<>> ELSE SubSeq(d, Min(slashes), Len(d))

ReceivedAll(op, d) ==
  IF Expands(op, d) THEN Home \o AfterName(d)
  ELSE FlattenSeq([i \in 1..Len(d) |-> Received(op, d[i])])

\* Every run of text in d that begins with a tilde is quoted.
Plain(d) ==
  \A i \in 1..Len(d) :
    d[i] = Tilde /\ (i = 1 \/ isControl(d[i - 1])) =>
      \E j \in i..Len(d) : d[j] \in Special /\ \A k \in i..j : ~isControl(d[k])

-----------------------------------------------------------------------------
(***************************************************************************)
(* tmux (external): it runs the command at the head of the line, answers   *)
(* it if its caller still waits, and notifies the watcher of new sizes.    *)
(***************************************************************************)
Refuses(c) == size[c.pane] = 0 \/ c.size > MaxResizeDim

KeysOps == {"hex", "literal", "bare"}

\* A tilde and a name: an error unless the Host has a user of that name.
NamesUser(c) == Expands(c.op, c.data) /\ Len(c.data) > 1 /\ c.data[2] # Slash

Answer(c, r) == reply' = IF c.live THEN [reply EXCEPT ![c.stream] = r] ELSE reply

RunResize(c) ==
  /\ c.op \in {"drive", "restore"} /\ ~Refuses(c)
  /\ size' = [size EXCEPT ![c.pane] = c.size]
  /\ setBy' = [setBy EXCEPT ![c.pane] = c.stream]
  /\ dirty' = (dirty \/ size[c.pane] # c.size)
  /\ Answer(c, "ok")
  /\ UNCHANGED got

RunKeys(c) ==
  /\ c.op \in KeysOps /\ ~Refuses(c)
  /\ got' = [got EXCEPT ![c.stream] =
               Append(@, [event |-> c.event, data |-> ReceivedAll(c.op, c.data)])]
  /\ Answer(c, "ok")
  /\ UNCHANGED <<size, setBy, dirty>>

RunRefused(c) ==
  /\ Refuses(c) \/ NamesUser(c)
  /\ Answer(c, "error")
  /\ UNCHANGED <<size, setBy, dirty, got>>

RunCommand ==
  /\ tmuxUp /\ line # <<>>
  /\ line' = Tail(line)
  /\ RunResize(Head(line)) \/ RunKeys(Head(line)) \/ RunRefused(Head(line))
  /\ UNCHANGED <<tmuxUp, faults, hub, listing, st, cur, saved, origin, summary, result, taken,
                 clientVars, down>>

Fault == faults < MaxFaults /\ faults' = faults + 1

ExternalResize(p) ==
  /\ tmuxUp /\ size[p] # 0 /\ Fault
  /\ size' = [size EXCEPT ![p] = OtherSize]
  /\ setBy' = [setBy EXCEPT ![p] = NoOne]
  /\ dirty' = TRUE
  /\ UNCHANGED <<line, tmuxUp, got, hub, listing, handlerVars, clientVars, down>>

PaneExits(p) ==
  /\ tmuxUp /\ size[p] # 0 /\ Fault
  /\ size' = [size EXCEPT ![p] = 0]
  /\ setBy' = [setBy EXCEPT ![p] = NoOne]
  /\ dirty' = TRUE
  /\ UNCHANGED <<line, tmuxUp, got, hub, listing, handlerVars, clientVars, down>>

\* The control client ends; what was not run never will be.
TmuxEnds ==
  /\ tmuxUp /\ Fault
  /\ tmuxUp' = FALSE /\ line' = <<>>
  /\ UNCHANGED <<size, setBy, got, watcherVars, handlerVars, clientVars, down>>

\* tmuxctl.Attach runs the control client under serveCtx, whose end kills it.
KillTmux ==
  /\ down /\ tmuxUp
  /\ tmuxUp' = FALSE /\ line' = <<>>
  /\ UNCHANGED <<size, setBy, faults, got, watcherVars, handlerVars, clientVars, down>>

-----------------------------------------------------------------------------
(***************************************************************************)
(* The watcher and the Server.                                             *)
(***************************************************************************)
List ==
  /\ tmuxUp /\ dirty /\ listing = <<>>
  /\ listing' = size /\ dirty' = FALSE
  /\ UNCHANGED <<tmuxVars, hub, handlerVars, clientVars, down>>

\* setSize for the panes listed, put for the new ones, sweep for the others.
Record ==
  /\ listing # <<>>
  /\ hub' = listing /\ listing' = <<>>
  /\ UNCHANGED <<tmuxVars, dirty, handlerVars, clientVars, down>>

\* teardown: the hub is drained and the control client closed.
Teardown ==
  /\ ~tmuxUp \/ down
  /\ hub # [p \in Panes |-> 0]
  /\ hub' = [p \in Panes |-> 0] /\ listing' = <<>>
  /\ tmuxUp' = FALSE /\ line' = <<>>
  /\ UNCHANGED <<size, setBy, faults, got, dirty, handlerVars, clientVars, down>>

Shutdown ==
  /\ ~down /\ down' = TRUE /\ Fault
  /\ UNCHANGED <<size, line, tmuxUp, setBy, got, watcherVars, handlerVars, clientVars>>

-----------------------------------------------------------------------------
(***************************************************************************)
(* The Client's InputStream.                                               *)
(***************************************************************************)
Open(s) == st[s] \notin {"idle", "ended"} /\ s \notin gone

OpenStream(s) ==
  /\ st[s] = "idle" /\ ~down
  /\ st' = [st EXCEPT ![s] = "select"]
  /\ UNCHANGED <<tmuxVars, watcherVars, cur, reply, saved, origin, summary, result, taken, clientVars, down>>

SendEvent(s, e) ==
  /\ Open(s) /\ s \notin closed
  /\ Len(sent[s]) < MaxEvents /\ Len(sent[s]) - taken[s] < MaxUnread
  /\ sent' = [sent EXCEPT ![s] = Append(@, e)]
  /\ UNCHANGED <<tmuxVars, watcherVars, handlerVars, closed, gone, down>>

CloseStream(s) ==
  /\ Open(s) /\ s \notin closed
  /\ closed' = closed \cup {s}
  /\ UNCHANGED <<tmuxVars, watcherVars, handlerVars, sent, gone, down>>

HangUp(s) ==
  /\ Open(s)
  /\ gone' = gone \cup {s}
  /\ UNCHANGED <<tmuxVars, watcherVars, handlerVars, sent, closed, down>>

-----------------------------------------------------------------------------
(***************************************************************************)
(* The handler.  An event is looked up in the hub and recorded when it is  *)
(* received ("select"); its commands are then written ("inject") and       *)
(* waited for ("waiting") one at a time.  However the stream ends, the     *)
(* deferred restoreAll ("restoring") runs before the handler returns.      *)
(***************************************************************************)
GoTo(s, state) == st' = [st EXCEPT ![s] = state]

Inject(s, kind, p, n, d) ==
  /\ cur' = [cur EXCEPT ![s] = [kind |-> kind, pane |-> p, size |-> n, rest |-> d]]
  /\ GoTo(s, "inject")

Drop == UNCHANGED <<st, cur>>

NextEvent(s) == sent[s][taken[s] + 1]

Takes(s, kind) ==
  /\ st[s] = "select" /\ taken[s] < Len(sent[s]) /\ NextEvent(s).kind = kind
  /\ taken' = [taken EXCEPT ![s] = @ + 1]

TakeKeys(s) ==
  /\ Takes(s, "keys")
  /\ LET e == NextEvent(s) IN
       IF hub[e.pane] = 0 THEN Drop ELSE Inject(s, "keys", e.pane, 0, e.data)
  /\ UNCHANGED <<tmuxVars, watcherVars, reply, saved, origin, summary, result, clientVars, down>>

AnySize(n) == n > 0   \* mutant: sizes tmux refuses are passed on

Plausible(n) == n > 0 /\ n <= MaxResizeDim

\* The size recorded for p is not stale: the watcher has nothing to reconcile,
\* or nothing that is about p.
Current(p) == (~dirty /\ listing = <<>>) \/ hub[p] = size[p]

\* The size displaced is recorded before the command is written, as the watcher
\* knows it (origin is a history of the model).
RecordSize(s, p) ==
  IF saved[s][p] = 0
  THEN /\ saved' = [saved EXCEPT ![s][p] = hub[p]]
       /\ origin' = [origin EXCEPT ![s][p] = IF Current(p) THEN size[p] ELSE 0]
  ELSE UNCHANGED <<saved, origin>>

TakeResize(s) ==
  /\ Takes(s, "resize")
  /\ LET e == NextEvent(s) IN
       IF Plausible(e.size) /\ hub[e.pane] # 0
       THEN RecordSize(s, e.pane) /\ Inject(s, "resize", e.pane, e.size, <<>>)
       ELSE Drop /\ UNCHANGED <<saved, origin>>
  /\ UNCHANGED <<tmuxVars, watcherVars, reply, summary, result, clientVars, down>>

TakeRestore(s) ==
  /\ Takes(s, "restore")
  /\ LET p == NextEvent(s).pane IN
       /\ saved' = [saved EXCEPT ![s][p] = 0]
       /\ IF saved[s][p] # 0 /\ hub[p] # 0
          THEN Inject(s, "restore", p, saved[s][p], <<>>)
          ELSE Drop
  /\ UNCHANGED <<tmuxVars, watcherVars, reply, origin, summary, result, clientVars, down>>

CommandOf(s) ==
  LET c == cur[s] IN
  CASE c.kind = "keys"   -> KeysCommand(s, c.pane, c.rest)
    [] c.kind = "resize" -> Command(s, "drive", c.pane, c.size, <<>>)
    [] OTHER             -> Command(s, "restore", c.pane, c.size, <<>>)

\* The line is written with mu held, into a pipe of bounded size: a handler may
\* wait here for as long as tmux reads nothing, behind the watcher's commands too,
\* and no context ends the wait.  (No fairness is assumed of it.)
WriteCommand(s) ==
  /\ st[s] = "inject" /\ tmuxUp
  /\ line' = Append(line, CommandOf(s))
  /\ reply' = [reply EXCEPT ![s] = "none"]
  /\ cur' = [cur EXCEPT ![s].rest = IF cur[s].kind = "keys" THEN RestOf(@) ELSE <<>>]
  /\ GoTo(s, "waiting")
  /\ UNCHANGED <<size, tmuxUp, setBy, faults, got, watcherVars, saved, origin, summary, result,
                 taken, clientVars, down>>

\* The events of the closing summary follow the same path; only bytes are kept.
Tally(s) == IF cur[s].kind = "keys" THEN Len(sent[s][taken[s]].data) ELSE 0

\* Keys writes its next run; an injection that is complete is tallied.
CommandDone(s) ==
  /\ st[s] = "waiting" /\ reply[s] = "ok"
  /\ GoTo(s, IF cur[s].rest # <<>> THEN "inject"
             ELSE IF cur[s].kind = "restoreAll" THEN "restoring" ELSE "select")
  /\ summary' = IF cur[s].rest = <<>> THEN [summary EXCEPT ![s] = @ + Tally(s)] ELSE summary
  /\ UNCHANGED <<tmuxVars, watcherVars, cur, reply, saved, origin, result, taken, clientVars, down>>

FailedReturns(s) ==   \* mutant: an injection error returns without restoreAll
  /\ GoTo(s, "ended")
  /\ result' = [result EXCEPT ![s] = "error"]

\* An injection error ends the stream; restoreAll ignores it.
Failed(s) ==
  /\ GoTo(s, "restoring")
  /\ result' = IF cur[s].kind = "restoreAll" THEN result ELSE [result EXCEPT ![s] = "error"]

CommandFails(s) ==
  /\ \/ st[s] = "inject" /\ ~tmuxUp
     \/ st[s] = "waiting" /\ (reply[s] = "error" \/ ~tmuxUp)
  /\ Failed(s)
  /\ UNCHANGED <<tmuxVars, watcherVars, cur, reply, saved, origin, summary, taken, clientVars, down>>

ServeContextOnly(s) == down   \* mutant: an injection outlives its Client

\* injectCtx is done when the stream's context or serveCtx is.
InjectCtxDone(s) == s \in gone \/ down

GiveUp(s) ==
  /\ st[s] = "waiting" /\ InjectCtxDone(s)
  /\ line' = [i \in DOMAIN line |->
                IF line[i].stream = s THEN [line[i] EXCEPT !.live = FALSE] ELSE line[i]]
  /\ Failed(s)
  /\ UNCHANGED <<size, tmuxUp, setBy, faults, got, watcherVars, cur, reply, saved, origin, summary,
                 taken, clientVars, down>>

\* The select's other outcomes: end of stream, a broken stream, shutdown.
StreamEnds(s) ==
  /\ st[s] = "select"
  /\ \/ s \in closed /\ taken[s] = Len(sent[s]) /\ result' = [result EXCEPT ![s] = "ok"]
     \/ s \in gone /\ result' = [result EXCEPT ![s] = "error"]
     \/ down /\ result' = [result EXCEPT ![s] = "shutdown"]
  /\ GoTo(s, "restoring")
  /\ UNCHANGED <<tmuxVars, watcherVars, cur, reply, saved, origin, summary, taken, clientVars, down>>

\* restoreAll ranges over the map in any order; a pane not in the hub is skipped.
RestoreNext(s, p) ==
  /\ st[s] = "restoring" /\ saved[s][p] # 0
  /\ saved' = [saved EXCEPT ![s][p] = 0]
  /\ IF hub[p] # 0 THEN Inject(s, "restoreAll", p, saved[s][p], <<>>) ELSE Drop
  /\ UNCHANGED <<tmuxVars, watcherVars, reply, origin, summary, result, taken, clientVars, down>>

HandlerReturns(s) ==
  /\ st[s] = "restoring" /\ \A p \in Panes : saved[s][p] = 0
  /\ GoTo(s, "ended")
  /\ UNCHANGED <<tmuxVars, watcherVars, cur, reply, saved, origin, summary, result, taken, clientVars, down>>

-----------------------------------------------------------------------------
Proceeds(s) ==
  \/ TakeKeys(s) \/ TakeResize(s) \/ TakeRestore(s)
  \/ CommandDone(s) \/ CommandFails(s) \/ GiveUp(s)
  \/ StreamEnds(s) \/ HandlerReturns(s)
  \/ \E p \in Panes : RestoreNext(s, p)

Handler(s) == WriteCommand(s) \/ Proceeds(s)

Client(s) == \/ OpenStream(s) \/ CloseStream(s) \/ HangUp(s)
             \/ \E e \in Events : SendEvent(s, e)

Environment == \/ RunCommand \/ TmuxEnds \/ KillTmux \/ List \/ Record \/ Teardown \/ Shutdown
               \/ \E p \in Panes : ExternalResize(p) \/ PaneExits(p)

Next == Environment \/ \E s \in Streams : Handler(s) \/ Client(s)

Spec == Init /\ [][Next]_vars

\* A handler goroutine that can run does, and os/exec kills the control client
\* when its context ends.  Nothing is assumed of tmux, which may read no command
\* and answer none, nor of the Clients and the watcher.
FairSpec == Spec /\ WF_vars(KillTmux) /\ \A s \in Streams : WF_vars(Proceeds(s))

-----------------------------------------------------------------------------
(***************************************************************************)
(* Properties.                                                             *)
(***************************************************************************)
TypeOK ==
  /\ size \in [Panes -> Sizes] /\ hub \in [Panes -> Sizes]
  /\ listing \in [Panes -> Sizes] \cup {<<>>}
  /\ \A i \in DOMAIN line : line[i].stream \in Streams /\ line[i].pane \in Panes
  /\ tmuxUp \in BOOLEAN /\ dirty \in BOOLEAN /\ down \in BOOLEAN
  /\ faults \in 0..MaxFaults
  /\ setBy \in [Panes -> Streams \cup {NoOne}]
  /\ st \in [Streams -> {"idle", "select", "inject", "waiting", "restoring", "ended"}]
  /\ \A s \in Streams : cur[s].pane \in Panes /\ cur[s].size \in Sizes
  /\ reply \in [Streams -> {"none", "ok", "error"}]
  /\ saved \in [Streams -> [Panes -> Sizes]] /\ origin \in [Streams -> [Panes -> Sizes]]
  /\ summary \in [Streams -> Nat] /\ taken \in [Streams -> 0..MaxEvents]
  /\ result \in [Streams -> {"none", "ok", "shutdown", "error"}]
  /\ \A s \in Streams : sent[s] \in Seq(Events) /\ taken[s] <= Len(sent[s])
  /\ closed \subseteq Streams /\ gone \subseteq Streams

\* All the ptys received from the stream, and what of its k-th event.
GotAll(s) == FlattenSeq([i \in 1..Len(got[s]) |-> got[s][i].data])
GotOf(s, k) ==
  FlattenSeq([i \in 1..Len(got[s]) |-> IF got[s][i].event = k THEN got[s][i].data ELSE <<>>])

\* The summary a Client gets when it half-closes counts exactly the bytes that
\* reached panes, whatever was dropped on the way.
SummaryExact(s) ==
  result[s] = "ok" /\ (\A k \in 1..taken[s] : Plain(sent[s][k].data)) =>
    summary[s] = Len(GotAll(s))

\* What arrived of the k-th event is the front of its data, and all of it or
\* nothing if the handler has gone on to a later event.
ArrivesInOrder(s, k) ==
  LET g == GotOf(s, k)
      d == sent[s][k].data
  IN /\ Len(g) <= Len(d) /\ g = SubSeq(d, 1, Len(g))
     /\ k < taken[s] => g \in {<<>>, d}

\* Keystrokes arrive in order and, unless a run of theirs begins with a tilde
\* and has nothing that gets it quoted (ByteForByte), byte for byte.  What a pty
\* has received of an event is a prefix of its data, and all of it or nothing
\* (the pane was not in the Herd) once the handler has gone on to a later event;
\* an injection that fails or is given up half-way is the last.  The closing
\* summary counts what arrived.
KeysExact ==
  \A s \in Streams :
    /\ \A i \in 1..(Len(got[s]) - 1) : got[s][i].event <= got[s][i + 1].event
    /\ \A k \in 1..taken[s] : Plain(sent[s][k].data) => ArrivesInOrder(s, k)
    /\ SummaryExact(s)

\* Keystrokes arrive byte for byte, whatever bytes they are (inject.go, its
\* package comment and that of Commander).
ByteForByte == \A s \in Streams : \A k \in 1..taken[s] : ArrivesInOrder(s, k)

\* The run of a key event that names a user's home directory.
Misread(s) == cur[s].kind = "keys" /\ ~Plain(sent[s][taken[s]].data)

\* A stream that fails does so because its Client hung up, the Server is
\* shutting down, tmux went away, or the very pane it was injecting into exited:
\* nothing a connected Client can ask for, but for a run that tmux takes for a
\* home directory, makes tmux refuse a command and costs the Client its stream.
ErrorIsCaused ==
  \A s \in Streams : result[s] # "error" /\ result'[s] = "error" =>
    \/ s \in gone \/ down \/ ~tmuxUp
    \/ size[cur[s].pane] = 0 \/ Misread(s)

ErrorsHaveCause == [][ErrorIsCaused]_vars

\* A stream does not fail for a pane that exited: its bytes are dropped
\* (service.go, SendInput and injectEvent).
DepartedIsDropped ==
  \A s \in Streams : result[s] = "error" => s \in gone \/ down \/ ~tmuxUp

\* However a stream ends, and wherever its handler was, a pane whose size it was
\* the last to set has the size tmux gave it when the stream began to drive it:
\* the restores follow the last resize down the line, also when that resize was
\* given up unanswered.  (A stale record has no origin: SizeIsRestored.)
NothingLeftDriven ==
  \A s \in Streams :
    st[s] = "ended" /\ tmuxUp /\ (\A i \in DOMAIN line : line[i].stream # s) =>
      \A p \in Panes : setBy[p] = s /\ origin[s][p] # 0 => size[p] = origin[s][p]

\* Every handler ends once the Server shuts down, even if tmux never answers or
\* reads again: GracefulStop is not held up by a wedged injection.  One whose
\* Client hung up ends too, unless tmux never reads the command it is writing.
HandlersEnd ==
  \A s \in Streams :
    /\ down /\ st[s] # "idle" ~> st[s] = "ended"
    /\ s \in gone ~> st[s] = "ended" \/ [](st[s] = "inject" /\ tmuxUp)

\* A pane nobody drives, that nobody else resized, has the size it had before
\* (proto/shevet/v1/shevet.proto, RestoreSize).
SizeIsRestored ==
  \A p \in Panes :
    /\ tmuxUp /\ line = <<>> /\ faults = 0 /\ size[p] # 0
    /\ \A s \in Streams : saved[s][p] = 0 /\ st[s] \notin {"inject", "waiting"}
    => size[p] = PaneSize
=============================================================================
