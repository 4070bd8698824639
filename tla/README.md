# Shevet: a TLA+ verification project

Shevet mirrors the panes of a tmux session to remote Clients. A Server attaches to
tmux in control mode, rebuilds every pane's screen with a terminal emulator, and
streams *damage* (changed cells) to the Clients that watch it; Clients send keystrokes
and resize requests back. This project models the parts of the Server and the Client
library in which order, concurrency and failure decide whether the screens are right.

Paths below are relative to `src/`.

## 1. Inventory

| Component | State it keeps | Operations | Talks to |
|---|---|---|---|
| Cell grid (`internal/grid`) | width, height, cells | New, Set/Apply, Resize, Snapshot, Diff | pure; used by pipeline and Client |
| Render pipeline (`internal/server/pipeline.go`), one goroutine per pane | emulator, *shadow* grid and cursor (what subscribers have been told), subscribers, lagged set, coalescing timer, ops channel | output, deliverSeed, resize, subscribe, unsubscribe, close; flush when the timer fires | watcher and WatchPane handlers post ops; each subscriber has a bounded channel |
| WatchPane streams (`service.go`, `client.go`, `wire.go`) | one handler per stream; the Client's PaneView | subscribe, relay, drain at the end, unsubscribe; Recv/Apply | pipeline channel in, gRPC stream out |
| tmux watcher (`watcher.go`, `registry.go`), one goroutine | hub of panes (recorded size, seed barrier, paused mark), Registry, resume timers and channel | reconcile, seed, pause, resume, teardown | commands and events of the control client; posts to pipelines |
| Control-mode client (`internal/tmuxctl`) | parser state, queue of pending replies, stream position, event queue | Attach, CommandsSeq (any goroutine), reader, event pump, Close | tmux's stdin and stdout |
| Control Input (`service.go`, `internal/inject`, `client.go`) | per stream: recorded pre-resize sizes, byte count | SendKeys, SendResize, SendRestore, Close; restoreAll at the end | hub lookups; commands on the shared control client |
| Dashboard (`internal/tui`) | Herd, views and their streams, selection, focus, one input generation per Host | Update on keys, fetches, stream messages | Client library |
| Server lifecycle (`server.go`) | the socket path, the listener | Listen (clear a stale socket, bind, restrict), Serve, stop, clean up | other Server processes, through the file system |
| SSH transport (`client/ssh.go`, `internal/sshx`), `_proxy` (`cli/proxy.go`) | SSH connection, the dialer's cached decision and last connection; proxy processes on the Host | DialSSH and its probe, dial (streamlocal, then command), Close; the pump of a proxy | gRPC, sshd, the Server's socket |
| Command line (`internal/cli`) | none | flag parsing, wiring | everything above |

What is hard here, and what correct means:

* **Lossy queues that must look lossless.** A subscriber channel is bounded and the
  pipeline never waits for it; an overflow drops an update and marks the subscriber
  lagged, and a later full sync must make up for it. Correct: a Client that has caught
  up shows exactly the pane, and every Client that stays catches up.
* **Two sources for one screen.** A seed (capture-pane) and the live stream overlap;
  the seed barrier decides which output the seed already holds. Correct: they compose
  without duplication or loss.
* **A flow-control protocol with echoes.** The Server pauses a flooding pane, tmux
  pauses panes of its own accord, and every pause must be answered by exactly one resume.
* **Replies matched by order alone.** One control stream carries the replies of
  concurrent callers; errors abort lines, callers give up, the attach guard may be late,
  and a reply may show text that looks like the protocol.
* **Names that outlive what they name.** Servers find, probe, replace and remove their
  socket by its path, one step at a time. Correct: a Server that is up is reachable.
* **A chain of connections.** A Client over SSH depends on a TCP connection, a handshake,
  channels, a remote process and a Server, each of which can fail at its own time.
  Correct: the dial returns, the Client finds its way back, nothing is left behind.
* **Endings.** A pane exits, a Client hangs up, tmux dies, the Server shuts down, in any
  order. Correct: PaneExited is the last message, handlers end, nothing panics on a
  closed channel, no pane keeps the size of a Client that left.

`PROJECT.json` lists the hazards line by line with the properties that watch them.

## 2. Plan

Order of work, most important behaviour first; what exists is marked **done**.

1. **done** `Grid`, `RenderPipeline`, `WatchStream`: a pane's streams end to end, with
   the proof that caught-up Clients are exact.
2. **done** `HerdWatcher`: reconcile, seeds and flow control against a nondeterministic
   tmux.
3. **done** `ControlParser`, `ControlClient`: the stream line by line, with the client
   shown to implement `CommandService`, which is what HerdWatcher and InputService assume.
4. **done** `InputService`: Control Input and resize-on-focus.
5. **done** `Dashboard`, the update loop of `tui/model.go` (Herd fetches that overlap, stale
   streams, focus, input generations), composed with the forwarding command and an
   `InputSink` that may stall or break.
6. **done** `ServerSocket`: Server processes sharing one socket path; `Tunnel`: a Client
   over SSH, composed with them.
7. **done** Theorems: every invariant the runs check, the action property
   `HealthyInputKept`, and the safety part of the refinement of `CommandService`
   (section 5). What no theorem states is liveness.
8. Open: the terminal emulator, SSH configuration and the layout of the Dashboard (section 7).

Composition: `WatchStream` extends `RenderPipeline`, which extends `Grid`. `HerdWatcher`
sees pipelines through their ops channels and the effect of ops on the emulator, and the
control client as an ordered event stream plus commands that take one step (the promise
of `CommandService`: a call's commands run back to back at one position of the output, and
that position is the barrier it returns). `Tunnel` extends `ServerSocket`.
`InputService` sees the watcher as "a listing is taken, later it is recorded".
`Dashboard` sees the Servers as the panes that run, streams that number their updates, and
input streams that drive the panes they resized until a restore or their end.

## 3. The modules

### Grid
A grid is a record of width, height and a function from positions to cells; damage is a
partial function from positions to cells (patches, later ones winning). `Apply` drops
what falls outside, `Snapshot` is the non-blank cells, `Diff` the cells that differ.
The code's flat slice and the order of patches are abstracted away.

### RenderPipeline
`pc` is the place of the run loop (`select`, gathering a burst, handling it). One action
per op and one per phase: `ReceiveOp`, `Gather` (what is already queued, at most the
channel's capacity), `BurstOutput`/`WriteBatch` (adjacent outputs become one emulator
write), `OpResize`, `OpSubscribe`, `OpUnsubscribe`, `OpClose`, `EndBurst`, and
`TimerFires`, which flushes. `Flush*` compute, from the emulator's screen, the new
shadow, what each subscriber is sent (damage, or a sync if it is lagged) and who stays
lagged. The emulator is external: a write applies a patch and moves the cursor, a resize
keeps the overlap. The scratch grid that `flush` reuses is left out; it holds no state
between flushes. Gathering a burst is one step, which only removes interleavings in
which the ops arrive a moment later.

Note: the op received first plus a full channel make a burst of `OpsQueue + 1`;
the comment at `pipeline.go:285` speaks of at most `opsQueue`. `BurstBounded` states the
former.

### WatchStream
Adds the handlers of `WatchPane` (`subscribing`, `relaying`, `draining` after done,
`leaving` to unsubscribe), a FIFO wire of capacity `WireCap` and the Client's PaneView.
Go's select is a disjunction of the actions that are ready. A stream whose subscribe races the pane's close was never registered;
it ends without PaneExited, as `service.go:102-104` intends.

### HerdWatcher
tmux is nondeterministic: panes write, open, exit, are resized and paused. A screen is
the number of chunks that made it and its size; an emulator is `ok` while it shows
precisely such a prefix. A tmux command is one step at the moment tmux executes it, and
between two commands of one handler tmux goes on. A seed's capture and its delivery to
the pipeline are one step: while the watcher is blocked on a full ops channel, only the
pipeline's draining moves, and it commutes with tmux. Assumed of tmux: pane ids are not
reused; the death of the last pane ends the control client. It resizes and pauses panes
whenever it likes, in the middle of a reconcile and before a pane is listed. `%continue` is
informational in the code and is not modelled; titles and the order of the Herd are data. Four
variables are history: `missed` (the pane wrote while tmux withheld its output), `reflowed` and
`swung` (it was resized since its last seed, and a listing found it back at the recorded size)
and `unheard` (its pause was announced before it was in the hub). A seed ends the first
three, a continue the last.

### ControlParser
A line is its first word, the number of the block it delimits and its bytes. `feed` is the
parser's transition: a line inside a block is the block's end or part of its body,
anything else is a notification. Output bytes are real: tmux escapes them in octal or C
style (the latter with high bytes passed through), behind the `%extended-output` delimiter once pause-after is on, and `decodeOutput` (a
recursive function) and `splitExtendedOutput` reverse it. Pane ids, the age field and the
arguments of the notifications are left out.

### ControlClient
A call claims its reply slots and writes its line with mu held (`StartCall`, `WriteLine`,
`WriteFails`); the pipe to tmux is bounded, so the write may block, and `completeReply`
waits for mu. tmux answers in order with numbered blocks and is assumed to read its input
whether or not its output is read. `ReadLine` feeds the parser and routes what comes out:
`Route` answers the oldest slot and, after an error, the commands of the line that tmux
skipped. A captured pane shows the end of an earlier block and a line of output (that
a pane shows the number of the block being written is not possible: the screen is older
than the command). The watcher does not receive events while it waits for one of its own
calls. `outs` and `ran` are history. Quoting of
arguments is in `InputService`, where it matters; the version check and the text of errors are data.

### CommandService
What the callers rely on, without pipes, blocks or a parser: calls are asked for, run as a
whole at one position of the output (up to an error), succeed with that position as their
barrier, or fail (`SafetySpec`); and every call returns (the fairness that `Spec` adds).
`ControlClient!ImplementsService` is the refinement: a line counts as run at its last command or its first error, and the barrier
of a call is the number of output events before the first reply's sequence number.

### ServerSocket
One action per system call of `listenUnix` and `clearStaleSocket`, and of the way down
(`CloseListener`, `Drained`, `Cleanup`, the deferred removal). `path` is what the directory
entry refers to, `listening` whose descriptor accepts. `overlap` is history: some Server
started while another was starting or stopping. Not modelled: permissions, a directory in the
path's place, and a path that is replaced by a user while a Server is up.

### Tunnel
DialSSH step by step (`ResolveConfig`, `AuthMethods`, `ConnectTCP`, `Handshake` and the
signature of an ssh-agent in the middle of it, `Signed`, `RemoteHome`, the probe and its diagnosis), the dialer that gRPC calls (`DialBegins`, `DialStreamLocal`,
`DialCommand`, `DialFails`, `ConnLost`), and the proxies on the Host. A connection is the
Server it reaches. The link works, falls silent (a black hole, or an sshd that hangs) or
breaks noticeably. Where the code waits with a timeout, the failing outcome is always
possible; elsewhere a wait ends only with an answer, a broken link or, for the handshake,
the context. The ssh-agent answers or hangs, and then nothing ends the wait (`AgentHangs`). Worth knowing: a refused streamlocal channel is cached as
"unsupported" also when only the socket was missing for a moment, so a restart of the Server moves a
Client to the proxy for good (`Reconnects` holds all the same); and a context that ends
late in the handshake closes the socket of a connection that is then returned. Keys, host
keys and the parsing of the configuration decide only whether a step succeeds.

### InputService
A handler receives an event, looks its pane up and records the displaced size
(`TakeKeys`, `TakeResize`, `TakeRestore`), then writes commands to the shared line and
waits (`WriteCommand`, `CommandDone`, `CommandFails`, `GiveUp`). The write itself may wait, for the
lock and for a pipe that tmux does not read: no fairness is assumed of `WriteCommand`, and
only the end of tmux gets a handler out of it. A command that was given up
still runs: the control client writes the line before it looks at the context. However the
stream ends, `RestoreNext` and `HandlerReturns` are the deferred `restoreAll`.

Keys are cut into maximal runs of control bytes or text. A run of control bytes is sent in
hex, a run of text quoted or, when `quoteArg` finds none of its characters in it, bare
(`KeysOp`). `Received` says what tmux makes of a byte sent each way, `ReceivedAll` of a run: a bare one that
begins with a tilde is taken for a path, and `Home` or a user's directory replaces what
precedes its first slash; a name that no user has makes the command fail (`NamesUser`). A
run inside quotes is taken to be passed on as it is.

A size is one number for both dimensions. `setBy` (whose command gave a pane its size) and
`origin` (the size tmux gave the pane when the stream began to drive it, where the hub's
record was not stale) are history, as is the event a command belongs to. Of the summary only
the byte count is kept, and event kinds unknown to the Server are left out.

### Dashboard
`Update` runs one message at a time, so each case of it is one action (`WindowSize`,
`Leader`, `Type`, `Refresh`, `FocusSelected`, `ApplyHerd`, `WatchStarted`, `PaneUpdate`,
`PaneExited`, `WatchFailed`, `InputFailed`). Commands run beside it: a fetch waits
(`asked`), lists the herd, and its answer is applied in any order (`listed`). A watch or
receive command and the handling of its message are one step: until Update sees the
message the command has changed nothing, and a stream's next message does not depend on
when it is read. The forwarding command of an input generation is three steps (`ForwardOpens`,
`ForwardTakes`, `ForwardSends` or `ForwardSendFails`), because a generation can be retired
between them. `Focusable` is "live and sized": a stream's first update is its resize. Three variables are
history: `applied` and `forgotten` (running panes whose focus was dropped by an outdated
herd) and `strayKey`. Left out: quitting, failed fetches (only the footer shows them),
moves of the selection (Enter may focus any card), the order of the cards, and the viewport's
actual size. A broken input stream is noticed at the next send.

## 4. Runs

| Run | What it asks | Bounds |
|---|---|---|
| `watch_one` | one stream: exact view, damage that fits, PaneExited last, no closed send, convergence, resync, endings, a loop that never waits | 1x1 and 2x1 grids, two writes, ops channel 2, subscriber channel 1, two calls of the watcher |
| `herd_one` | flood, pause, resume, drag of one pane, with liveness | 2 chunks, 2 resizes, 1 backstop pause, channels of 1 |
| `herd_two` | panes opening, exiting and being paused by tmux, listed or not, during floods and reconciles | 2 panes, 1 chunk each, 1 backstop pause |
| `control` | Attach's two calls, then two concurrent ones, with errors, cancellation, death of tmux; refinement of `CommandService` | 4 calls of which one has two commands, 1 output of 8 bytes in two escape styles, a pipe of 1 command |
| `input` | one input stream under every ending | 3 events, one unread, 1 fault (external resize, pane exit, tmux end or shutdown); hang-up and close besides; keys that make a quoted run and one of hex, and a tilde with a name |
| `dashboard` | overlapping fetches, replaced watches, input that stalls, fails and is reopened | 2 panes of one Host, one of which comes and goes (3 fetches, 2 watches of 2 updates) while the other lasts; input queue of 1, 2 generations |
| `tunnel` | a Client over SSH while Servers start, stop, crash and follow one another | 2 Servers, the first one serving; 2 proxies at a time |
| `gap`, `vanish`, `refocus`, `departed`, `hang` | the findings of section 6 | |

Why the bounds are enough for the cases that matter: capacities of one make every
overflow reachable within two updates; a 1x1/2x1 pair of sizes has shrinking, growing
and clipped writes; two writes of which one undoes the other make a lost increment
visible; two chunks are one in flight when a seed is captured and one after it (the run `gap` has
three: before the seed, between seed and continue, after); two resizes are a drag away and back, around any step of a reconcile; three input events are a focus, an unfocus and a refocus, and a two-run key
event can fail half-way; three fetches can show a pane, drop it on older news and show it
again while its first watch is still open, which two watches then compete to feed; two
Servers are one that leaves and one that comes, in every overlap; the output holds a
backslash and a high byte before digits, a newline and the delimiter. Several render or
input streams of one pane are covered by the proofs, which are for any number of them. Every run sets `CHECK_DEADLOCK FALSE`: the bounds on calls,
output and events are exhausted, and streams and panes really end.

### Properties

* `CaughtUp`: a registered subscriber that is not lagged and has received everything
  holds the flushed screen. `Converges`, `ResyncLands`: it gets there, also on an idle pane.
  `NothingOwedWhenIdle`: no timer armed means nothing is owed.
* `DamageFits`, `ShadowFits`: no clipped damage, no size mismatch in Diff.
* `NoClosedSend`, `LoopNeverBlocks`, `BurstBounded`, `StreamsEnd`,
  `ExitTold`: the pipeline's goroutines and channels.
* `SeedsCompose`, `MirrorSettles`, `HerdIsCurrent`: the mirror of tmux; the first two except what
  a pane wrote in the gap (`missed`) and panes that swung back (`swung`).
  `ResumePending`, `PauseKnown` (but for a pause that came too early, `unheard`), `PausedIsResumed`: the pause protocol.
* `RepliesMatch`, `ReaderNeverBlocks`, `OutputExact`, `EventsEnd`: the control client.
  `ImplementsService`: it implements the command service, liveness included.
* `LostOnlyToOverlap`: a Server that is up keeps its socket unless another one's start overlapped a
  start or a stop. `DialReturnsUnlessLeft`
  (the four waits that nothing bounds are named), `LeavesNothing`, `Reconnects`: the tunnel.
* `KeysExact`: what a pty received of a key event is a prefix of its data, and all or nothing once
  the handler has gone on; the closing summary counts it. It speaks of data whose runs of text
  do not begin with an unquoted tilde (`Plain`). `ErrorsHaveCause`: a stream fails for a hang-up,
  the end of tmux or of the Server, the exit of the pane under injection, or a tilde.
  `NothingLeftDriven`: once a stream has ended and its commands have run, a pane whose size it was the last to
  set is back at the size tmux gave it before, unless the record was stale. `HandlersEnd`.
* `ViewsUnmixed`: two streams' damage never meets in one grid. `FocusIsLive`,
  `NoStrayKeys`, `DrivenIffFocused`, `HealthyInputKept`: focus, the input queue and the
  sizes of panes stay in step through every way out of focus.

Each property has a mutant in `PROJECT.json`, a plausible slip in the code that breaks it.

### Fairness
Goroutines that can run do (weak fairness). Where Go's select picks at random among
ready cases, a case that is ready again and again is taken (strong fairness): the
coalescing timer against a busy ops channel; resume signals, events and shutdown in the
watcher. A Client that has not hung up keeps receiving. In `ControlClient` tmux answers
what it is sent while it lives, and exits once its stdin is closed (Close kills it after a
timeout). In `Tunnel` DialSSH goes on whenever one of its steps can be taken; gRPC keeps dialling while it is open, proxies run, and a Server that has begun to start or stop goes on.
No link has to break and nobody has to quit. `InputService`
assumes nothing of tmux, which may read no command and answer none: writing a command has no
fairness, the other steps of a handler have, and so has the kill of the control client
once the Server's context ends (os/exec does it). So a shutdown ends every handler; a hang-up ends
one unless tmux never reads the command it is writing. Nothing obliges
panes to write, Clients to come or go, or the Server to stop. `Dashboard` is checked for
safety only and states no fairness.

## 5. Proofs

Checked by TLAPS, each module's theorems for every value of the constants its assumptions
allow. The assumptions say what the code or its environment guarantees:

| Assumption | What it excludes |
|---|---|
| `BlankAssumption`, `PipelineAssumption`, `WireAssumption` | a 0x0 pane (tmux has none, and `parsePaneLine` rejects it), channels without capacity, a wire of less than the two messages of a sync |
| `WatcherAssumption` | an empty session at attach; channels without capacity |
| `ClientAssumption` | calls without a command, a pipe without room, output that is not bytes |
| `InputAssumption` | empty key data and sizes below 1 (`SendKeys` and `SendResize` refuse them); panes larger than tmux allows. `Home` is any byte string |
| `DashboardAssumption` | a Forward queue without capacity |
| `ServerAssumption`, `TunnelAssumption` | two Servers that serve one path to begin with; names that clash |

The bounds that keep TLC's runs finite (`MaxCalls`, `MaxOut`, `MaxFetches` and their like) are
any natural numbers in the proofs.

What is proved of each component:

* `RenderPipelineProofs`: of `Grid`, `SnapshotRestores` (a blank grid that applies a snapshot
  becomes the original) and `DiffRestores` (a grid that applies its diff to another
  becomes the other), for all sizes; of the pipeline alone, the invariant `PipeInv` (types
  and `ShadowFits`) and what a flush does to a subscriber's channel.
* `WatchStreamProofs`: what a Client sees (`TypeCorrect`, `NoDiffPanic`, `StreamsAreExact`,
  `DamageAlwaysFits`), and how loop and streams work and end (`BurstsAreBounded`,
  `ClosedOnce`, `LoopIsNeverBlocked`, `NothingIsOwed`, `ExitIsTold`).
* `HerdWatcherProofs`: `HerdTypeCorrect`, `NoResumeLost`, `HerdFollowsSession`, `PausesAreKnown`,
  `SeedsAreExact`.
* `ControlParserProofs`: `EncodedIsDecoded`: `decodeOutput` gives back what tmux escaped, for
  every byte string and either style.
* `ControlClientProofs`: `ClientTypeCorrect`, `ReaderIsNeverBlocked`, `RepliesAreMatched`,
  `OutputIsExact`, and `ClientRefinesService`: the client implements `CommandService!SafetySpec`.
* `InputServiceProofs`: `StreamErrorsHaveCause`, `NoPaneLeftDriven`, `KeystrokesAreExact`.
* `DashboardProofs`: `DashboardTypeCorrect`, `ViewsNeverMix`, `FocusStaysLive`, `NoKeyStrays`,
  `DrivenOnlyIfFocused`, and the action property `HealthyInputIsKept`.
* `TunnelProofs`: `SocketIsKept` for any number of Servers, and `SocketIsKeptBelowTunnel`: the
  composition with a Client over SSH implements `SocketSpec`, so it keeps the property.

Hardly any of the properties is inductive as it stands. What each proof adds:

**Streams, what the Client sees.** `CaughtUp` says nothing of a subscriber with messages
in flight. The invariant is

    StreamInv == StreamTypeOK /\ ShadowFits /\ \A s \in Streams : InStep(s)

where `InStep(s)` says that the messages on the wire lead from the Client's view to some
view `mid`, each applicable in turn (`Chain`: damage fits the grid it will meet), that
the updates queued in the channel lead on from `mid` to `end`, and that `end` is the
pipeline's shadow and cursor if s is registered and not lagged. Three facts keep it: a
flush or resize appends an update that leads from the old shadow to the new one
(`DiffRestores`); a sync leads from *any* view to the shadow (`SnapshotRestores`), which
is why a lagged subscriber can be readmitted; and a dropped update makes the subscriber
lagged, which releases `end`. Moving an update from channel to wire splits it into resize and
damage without changing where the chain leads. With both queues empty the chain is trivial and
`CaughtUp` follows; the head of the wire being applicable is `DamageFits`.

**Streams, how they end.** `LoopInv` adds what the loop has been asked and has not handled
(the *backlog*, burst and channel as one queue): a stream's subscribe op is in it once at
most, and until it is handled the pipeline knows nothing of the stream (so a blocking
send finds room, and nothing closed is sent to); what is owed is owed only while the
timer runs; a handler drains only once the pipeline is done, and leaves only because its
Client did.

**Watcher.** `HerdInv` is about the places between the steps of a handler. `Lives`: the Herd
is tmux's unless a topology event is queued or a listing is due. `Signalled` counts, for
each pane, resume signals in the channel and timers, with the signal that the watcher has
taken and not yet answered; it also says that panes still to enter the hub have none.
For the screens, `Composes` says of each pane that applying the ops still queued takes its
emulator to a state (`Applies`) that the live output in flight continues without gap
up to tmux's screen (`LiveOutput`), unless a new seed is due (`NeedsSeed`) or the pane is one of
those that `missed` and `swung` name. A pane that is resized at any moment is `reflowed` until
its next seed, and a topology event or a listing to come will tell (`NeedsSeed`), unless that
listing shows it at the recorded size. No theorem has a hypothesis beyond `WatcherAssumption`.

**Control client.** Matching by order alone rests on two alignments. `Queued`: the
pending slots are, in this order, those whose commands have run or were aborted, those in the
pipe to tmux, those whose line is being written; what has run is in order and past
nothing but the aborted. `Streamed(n)`: the reader has routed the blocks up to n, and
reading what is in the pipe passes through whole blocks, each the next one and showing what
its command did (`Reading`), whatever lines of the protocol a captured pane shows. That one slot
per block is taken, and with an error the continuations behind it, keeps both together.

**Control client, the output.** `decodeOutput` is a recursive function on byte strings, that
is a CHOOSE; before anything can be said of it, `DecodeEquation` shows that a function
with its equation exists: `Recursion` repeats a step any number of times, and string by
string the decoder is such a repetition. `EncodedIsDecoded` then adds one byte at a time to
what is escaped: a byte is one, two or four characters that decode to it whatever
follows (`OneDecoded`, `PairDecoded`, `OctalDecoded`). For the stream, `Reading` also counts
outputs: the next output line the reader meets outside a block is the next one of the
panes, in whichever form (`FaithfulOutput`), so what a reply shows is never taken for output
and nothing is skipped (`Emitted`).

**Control client, the refinement.** That a call's commands run back to back at one position
is not a fact about `pending` but about the input of tmux: its lines are whole (`Whole`);
when tmux is about to run a command that is not the first of its line, those before it have
succeeded on the screen that is there now (`Together`); and nothing of a line runs past an
error (`Stepwise`). The barrier is the hard part, because it relates what a caller
was told to what tmux's screen held earlier. `Told` says of a reply that waits in its
slot, and of the first reply that a call has taken, that the output events before its
position are those that the screen held when the command ran (`Placed`). It holds when the
reply is routed because a block that closes after n outputs shows a command that ran after
n outputs (`FaithfulBlock`), and it stays because later events get later positions. Each
step of the client is then a step of the service or hidden from it: `RunCommand` is
`Run` when it ends its line, `TakeReply` is `Succeed` or `Fail` when it is the call's last, `Produce` is
`Output`, and the reader, the pump and the pipes are not seen.

**Input.** For `NothingLeftDriven`: a resize that its handler no longer owes a restore for, run or
still in the line, is followed by one, given up commands included; a live pane that a stream
touched is in the hub, since it is in every listing taken, so that `restoreAll` skips none; and
what a restore carries is what was recorded, which is the `origin` of the pane where the record was not
stale. For `KeysExact`: the bytes of the event taken last have arrived, are in the line, or are
with the handler, and the three together are the event's data; its runs are those of the
event (a run never starts in the middle of one), so that a tilde at the head of one is a tilde at the
head of a run of the data. That tmux passes a run on unchanged is an induction over its
bytes. The library's induction theorems cannot be instantiated here; the induction
step is instead taken for a set of numbers, with the least number outside it (`LeastNumber`, `Induction`).

**Dashboard.** `HerdsInOrder`: a pane that a newer listing lacks has exited. `ViewsFed`: a view
has taken exactly what its own stream delivered. `QueueInv` is about what a live
generation has still to send: each key comes behind a resize with no restore between
(`Announced`), the focused pane ends up driven, and every other running pane released
(`Released`), but for those an outdated herd made the dashboard forget. `GensInv`: one
generation of a Host at most is not retired, and it is the current one.

**Servers.** `SocketInv`: unless a start overlapped something, a Server on its way up is alone,
who listens is bound at the path, and a start that is past its probe found nobody up.

Only model-checked: every liveness property (`Converges`, `ResyncLands`, `StreamsEnd`,
`MirrorSettles`, `PausedIsResumed`, `EventsEnd`, `HandlersEnd`, `DialReturnsUnlessLeft`,
`LeavesNothing`, `Reconnects`), and of `ImplementsService` that every call returns: the prover
has no rule for fairness and ENABLED here. Every safety property of the passing runs is proved.

## 6. Where the code disagrees with its comments

* `gap`: between a paused pane's re-seed and its continue tmux goes on executing the
  pane; that output is on neither the seed nor the live stream.
* `vanish`: a pane that exits between list-panes and its seed ends the whole watcher.
* `refocus`: a refocus ahead of the reconcile records the Client's own viewport as the
  size to restore.
* `departed`: a pane that exits between the hub lookup and the injection ends the input
  stream, although `service.go:124-126` says that such bytes are dropped.
* `hang`: a probe that fails while its proxy is connected waits for that proxy for ever.

`DialReturnsUnlessLeft` names three more waits without a bound, which the run with
`Silences = TRUE` reaches. The handshake: `dial.go:46-47` says that handshakeTimeout "bounds the
TCP dial and SSH handshake", and `dial.go:88-89` that ClientConfig.Timeout does; in
golang.org/x/crypto/ssh only `ssh.Dial` uses that field, for its connect, and
`NewClientConn` does not, so a Host that accepts the connection and stays silent holds
DialSSH until its context ends. RemoteHome: closing the session only asks the far end. And the
ssh-agent: its keys are asked for before the connect (`dial.go:67`, `145-160`) and it signs inside the
handshake, with no context or deadline on its socket, so an agent that waits for its user holds
DialSSH even after the context ended.

Each run's trace shows the steps; `PROJECT.json` quotes the lines.

Four more disagreements have no run of their own. The property of a passing run names each as
its exception; the property without it, which the module states next to it, is violated when it
takes that one's place in the cfg:

| Checked, with its exception | Violated without it, in | What goes wrong |
|---|---|---|
| `SeedsCompose` (`swung`) | `ResizesAreSeeded`, `MCHerdWatcher_one.cfg` | A pane resized between list-panes and its seed puts a screen of the new size into a pipeline of the old one; resized back before the next listing, that listing finds the recorded size (`watcher.go:418`) and nothing is re-seeded, although tmux reflows "in ways an emulator resize does not reproduce" (`watcher.go:419-420`). |
| `PauseKnown` (`unheard`) | `PauseAlwaysKnown`, `MCHerdWatcher_two.cfg` | A pause of a pane that is not yet in the hub is ignored (`watcher.go:280`) and nothing continues the pane, although apply means to "make sure a resume is scheduled" (`watcher.go:279`). |
| `KeysExact` (`Plain`) | `ByteForByte`, `MCInputService.cfg` | `quoteArg` does not quote for a tilde (`tmuxctl/client.go:528`): a run of text that begins with one is expanded by tmux's command parser, or refused and ends the stream, although inject delivers "byte-for-byte" (`inject.go:2`) and relies on quoting (`inject.go:31-33`). |
| `LostOnlyToOverlap` (`overlap`) | `UpIsReachable`, `MCTunnel.cfg` | A Server that stops removes the socket by its path (`server.go:82`) after its calls have drained, when a successor may have bound it. The comment calls it a cleanup "for the paths where Close is not reached" (`server.go:81`); it runs on every path. |

Nor is this run separately: two
herd fetches answered out of order make the dashboard drop the focus of a
running pane without asking for its size back (`forgotten` in `DrivenIffFocused`); it
keeps the viewport's size until it is focused and left again, or the input stream ends.

## 7. Not modelled

The terminal emulator itself (a library), cell attributes and colours, the arguments of
control-mode notifications, rendering, layout and themes, flag parsing, SSH keys, host
keys and configuration files, generated protocol code, the test support packages: they
are data conversion or I/O without interleaving state.

Three details are outside the models and worth a test. What tmux's tokenizer does with a
quoted run is taken to be the identity, and with a bare one only what `Received` and
`Expands` say. A line longer than `maxLineSize` ends the reader's
scanner while tmux lives on (lengths are not modelled). And of two Servers that start at
the same time, the second may remove the socket the first has just bound
(`LostOnlyToOverlap` admits it).
