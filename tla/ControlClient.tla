--------------------------- MODULE ControlClient ---------------------------
(***************************************************************************)
(* The tmux control-mode client (internal/tmuxctl/client.go): concurrent   *)
(* callers write command lines, one reader goroutine parses the stream and *)
(* matches the reply blocks to them purely by order, and a pump hands the  *)
(* notifications to the watcher, which does not receive while it waits for *)
(* a reply.                                                                *)
(*                                                                         *)
(* A call is one CommandsSeq: CallLen[c] commands on one line.  tmux is    *)
(* external: it answers commands in order, runs a line without output in   *)
(* between, skips the rest of a line after an error, and reads its input   *)
(* whether or not its output is read.  A reply names its command, and may  *)
(* show lines that look like those of the protocol.                        *)
(***************************************************************************)
EXTENDS ControlParser, FiniteSets

CONSTANTS
  Calls,         \* the CommandsSeq calls of a run
  CallLen,       \* commands of each call
  AttachCalls,   \* Attach's probe and pause-after: others wait until they succeed
  WatcherCalls,  \* calls of the goroutine that receives the events
  Captures,      \* calls whose replies show what a pane shows
  Outputs,       \* bound: what the panes write, a sequence of byte strings
  StdinCap       \* bound: commands the pipe to tmux holds before a write blocks

ASSUME ClientAssumption ==
  /\ CallLen \in [Calls -> Nat \ {0}]
  /\ AttachCalls \in Calls \X Calls /\ WatcherCalls \subseteq Calls /\ Captures \subseteq Calls
  /\ Outputs \in Seq(Seq(0 .. 255))
  /\ StdinCap \in Nat \ {0}

VARIABLES
  \* tmux and the pipes
  alive,      \* the tmux client process runs
  guardSent,  \* it has answered the attach command
  screen,     \* output its screen has taken
  skipping,   \* an error aborted the line it is running
  ran,        \* history: number, outcome and screen of each command that ran
  stdin,      \* commands written and not yet run: [id, cont]
  stdinOpen,
  stdout,     \* lines not yet read
  \* the client
  writing,    \* the call that writes its line, and so holds mu
  parse,      \* the parser's state
  seq,        \* control-stream position
  guardSeen,
  pending,    \* the pendingReply queue: [id, cont]
  done,       \* the reader ended
  quit,       \* Close was called
  evQueue,    \* notifications not yet received
  evEnded, evClosed,
  outs,       \* history: the output events, with their Seq
  \* the calls
  state,      \* "idle" | "writing" | "waiting" | "ok" | "failed"
  await,      \* index of the reply a call waits for
  slots,      \* each command's reply channel, of capacity one
  first       \* position of the first reply of a call

tmuxVars == <<alive, guardSent, screen, skipping, ran>>
pipeVars == <<stdin, stdinOpen, stdout>>
readerVars == <<parse, seq, guardSeen, done, outs>>
eventVars == <<quit, evQueue, evEnded, evClosed>>
callVars == <<state, await, first>>
vars == <<tmuxVars, pipeVars, writing, pending, readerVars, eventVars, callVars, slots>>

Ids == UNION {{c} \X (1 .. CallLen[c]) : c \in Calls}

NotRun == [num |-> 0, ok |-> FALSE, n |-> 0]

Init ==
  /\ alive = TRUE /\ guardSent = FALSE /\ screen = 0 /\ skipping = FALSE
  /\ ran = [id \in Ids |-> NotRun]
  /\ stdin = <<>> /\ stdinOpen = TRUE /\ stdout = <<>>
  /\ writing = {} /\ pending = <<>>
  /\ parse = Outside /\ seq = 0 /\ guardSeen = FALSE /\ done = FALSE /\ outs = <<>>
  /\ quit = FALSE /\ evQueue = <<>> /\ evEnded = FALSE /\ evClosed = FALSE
  /\ state = [c \in Calls |-> "idle"] /\ await = [c \in Calls |-> 1]
  /\ slots = [id \in Ids |-> <<>>]
  /\ first = [c \in Calls |-> 0]

-----------------------------------------------------------------------------
(***************************************************************************)
(* tmux (external).                                                        *)
(***************************************************************************)
\* tmux numbers its blocks; the guard is number 1.
NextNum == 2 + Cardinality({id \in Ids : ran[id].num > 0})

\* A captured pane may show a transcript: the end of an earlier block, output.
Body(id, num) ==
  <<Line("text", 0, id)>> \o
  IF id[1] \in Captures THEN <<Line("end", num - 1, <<>>), Line("output", 0, <<48>>)>> ELSE <<>>

\* The attach command's own reply block; an error guard means tmux exits.
SendGuard ==
  /\ alive /\ ~guardSent
  /\ guardSent' = TRUE
  /\ \E err \in BOOLEAN : /\ stdout' = stdout \o Block(1, <<>>, err)
                          /\ alive' = ~err
  /\ UNCHANGED <<screen, skipping, ran, stdin, stdinOpen, writing, pending, readerVars, eventVars, callVars, slots>>

\* Run the next command: it answers, or is skipped after an error of its line.
RunCommand ==
  /\ alive /\ guardSent /\ stdin # <<>>
  /\ LET cmd == Head(stdin) IN
       IF cmd.cont /\ skipping
       THEN UNCHANGED <<stdout, skipping, ran>>
       ELSE \E err \in BOOLEAN :
              /\ stdout' = stdout \o Block(NextNum, Body(cmd.id, NextNum), err)
              /\ skipping' = err
              /\ ran' = [ran EXCEPT ![cmd.id] = [num |-> NextNum, ok |-> ~err, n |-> screen]]
  /\ stdin' = Tail(stdin)
  /\ UNCHANGED <<alive, guardSent, screen, stdinOpen, writing, pending, readerVars, eventVars, callVars, slots>>

\* The pause-after form of the output, once the second command of Attach ran.
OutputLine(bytes, style) ==
  IF ran[<<AttachCalls[2], 1>>].ok
  THEN Line("extended", 0, <<48>> \o Delimiter \o Encode(bytes, style))
  ELSE Line("output", 0, Encode(bytes, style))

\* A pane writes: never between the commands of one line.
Produce ==
  /\ alive /\ guardSent /\ screen < Len(Outputs)
  /\ stdin # <<>> => ~Head(stdin).cont
  /\ screen' = screen + 1
  /\ \E style \in {"octal", "cstyle"} :
       stdout' = Append(stdout, OutputLine(Outputs[screen + 1], style))
  /\ UNCHANGED <<alive, guardSent, skipping, ran, stdin, stdinOpen, writing, pending, readerVars, eventVars, callVars, slots>>

\* tmux exits when it is detached or killed, saying so, or crashes; what it
\* wrote remains.
TmuxExits ==
  /\ alive
  /\ alive' = FALSE /\ stdin' = <<>>
  /\ stdout' \in {stdout, Append(stdout, Line("exit", 0, <<>>))}
  /\ UNCHANGED <<guardSent, screen, skipping, ran, stdinOpen, writing, pending, readerVars, eventVars, callVars, slots>>

-----------------------------------------------------------------------------
(***************************************************************************)
(* CommandsSeq.                                                            *)
(***************************************************************************)
Commands(c) == [i \in 1 .. CallLen[c] |-> [id |-> <<c, i>>, cont |-> i > 1]]

\* Attach sends its commands one after the other, then returns the Client.
MayStart(c) ==
  /\ state[c] = "idle"
  /\ c # AttachCalls[1] => state[AttachCalls[1]] = "ok"
  /\ c \notin {AttachCalls[1], AttachCalls[2]} => state[AttachCalls[2]] = "ok"

Becomes(c, s) == state' = [state EXCEPT ![c] = s]

\* Take mu and claim the slots.
StartCall(c) ==
  /\ MayStart(c) /\ writing = {}
  /\ writing' = {c}
  /\ pending' = pending \o Commands(c)
  /\ Becomes(c, "writing")
  /\ UNCHANGED <<tmuxVars, pipeVars, readerVars, eventVars, await, first, slots>>

\* The write blocks, with mu held, while the pipe is full.
WriteLine(c) ==
  /\ c \in writing /\ stdinOpen /\ alive /\ Len(stdin) < StdinCap
  /\ writing' = {}
  /\ stdin' = stdin \o Commands(c)
  /\ Becomes(c, "waiting")
  /\ UNCHANGED <<tmuxVars, stdinOpen, stdout, pending, readerVars, eventVars, await, first, slots>>

PendingWithout(c) == SubSeq(pending, 1, Len(pending) - CallLen[c])

\* The write fails: the slots are dropped under the same lock hold.
WriteFails(c) ==
  /\ c \in writing /\ (~stdinOpen \/ ~alive)
  /\ writing' = {}
  /\ pending' = PendingWithout(c)
  /\ Becomes(c, "failed")
  /\ UNCHANGED <<tmuxVars, pipeVars, readerVars, eventVars, await, first, slots>>

LastReplyTooFar(c) == await[c] > CallLen[c]   \* mutant: one reply too many

\* The reply a call waits for is its last.
LastReply(c) == await[c] = CallLen[c]

TakeReply(c) ==
  /\ state[c] = "waiting" /\ slots[<<c, await[c]>>] # <<>>
  /\ LET r == Head(slots[<<c, await[c]>>]) IN
       /\ Becomes(c, IF r.err THEN "failed" ELSE IF LastReply(c) THEN "ok" ELSE "waiting")
       /\ await' = IF r.err \/ LastReply(c) THEN await ELSE [await EXCEPT ![c] = @ + 1]
       /\ first' = IF ~r.err /\ await[c] = 1 THEN [first EXCEPT ![c] = r.seq] ELSE first
  /\ slots' = [slots EXCEPT ![<<c, await[c]>>] = <<>>]
  /\ UNCHANGED <<tmuxVars, pipeVars, writing, pending, readerVars, eventVars>>

LeavesWaiting(c) ==
  /\ state[c] = "waiting" /\ Becomes(c, "failed")
  /\ UNCHANGED <<tmuxVars, pipeVars, writing, pending, readerVars, eventVars, await, first, slots>>

\* The stream ended while the call waited.
CallStranded(c) == done /\ LeavesWaiting(c)

\* The caller's context ends: it leaves, its slots stay queued.
CallCancelled(c) == LeavesWaiting(c)

Close ==
  /\ ~quit
  /\ quit' = TRUE /\ stdinOpen' = FALSE
  /\ UNCHANGED <<tmuxVars, stdin, stdout, writing, pending, readerVars, evQueue, evEnded, evClosed, callVars, slots>>

\* Attach closes the client when one of its commands fails.
AttachFails == (\E c \in {AttachCalls[1], AttachCalls[2]} : state[c] = "failed") /\ Close

-----------------------------------------------------------------------------
(***************************************************************************)
(* readLoop.                                                               *)
(***************************************************************************)
\* The commands a line's error skips: the continuations that follow its head.
Purged == {i \in 2 .. Len(pending) : \A j \in 2 .. i : pending[j].cont}

AbortReply == [lines |-> <<>>, err |-> TRUE, seq |-> 0]

PendingKeepsPurged == Tail(pending)   \* mutant: answered slots stay queued

PendingAfterError == SubSeq(pending, 2 + Cardinality(Purged), Len(pending))

\* r goes to the oldest slot; an error also answers the commands it skipped.
Route(r) ==
  LET answered == {1} \cup IF r.err THEN Purged ELSE {} IN
    /\ \A i \in answered : slots[pending[i].id] = <<>>
    /\ slots' = [id \in Ids |->
                   IF id = Head(pending).id THEN <<r>>
                   ELSE IF \E i \in answered : pending[i].id = id THEN <<AbortReply>>
                   ELSE slots[id]]
    /\ pending' = IF r.err THEN PendingAfterError ELSE Tail(pending)

\* The first block is the guard, whether or not a call waits already.
completeReply(r) ==
  /\ writing = {}
  /\ guardSeen' = TRUE
  /\ IF guardSeen /\ pending # <<>> THEN Route(r) ELSE UNCHANGED <<pending, slots>>

NextSeq == seq + 1

EnqueueWaits == evQueue = <<>>   \* mutant: the reader waits for the consumer

EnqueueReady == TRUE

enqueueEvent(ev) ==
  /\ EnqueueReady
  /\ evQueue' = Append(evQueue, ev)
  /\ outs' = IF ev.kind = "output" THEN Append(outs, [seq |-> NextSeq, data |-> ev.data]) ELSE outs

ReadLine ==
  /\ ~done /\ stdout # <<>>
  /\ \E fed \in {feed(parse, Head(stdout))} :
       /\ parse' = fed.p
       /\ IF fed.replies = <<>> THEN UNCHANGED <<guardSeen, pending, slots>>
          ELSE \E r \in {Head(fed.replies)} :
                 completeReply([lines |-> r.lines, err |-> r.err, seq |-> NextSeq])
       /\ IF fed.events = <<>> THEN UNCHANGED <<evQueue, outs>> ELSE enqueueEvent(Head(fed.events))
  /\ seq' = NextSeq
  /\ stdout' = Tail(stdout)
  /\ UNCHANGED <<tmuxVars, stdin, stdinOpen, writing, done, quit, evEnded, evClosed, callVars>>

EndEventsForgotten == evEnded   \* mutant: the pump is not told

EndEvents == TRUE

ReadEnd ==
  /\ ~done /\ stdout = <<>> /\ ~alive
  /\ done' = TRUE /\ evEnded' = EndEvents
  /\ UNCHANGED <<tmuxVars, pipeVars, writing, pending, parse, seq, guardSeen, outs, quit, evQueue, evClosed, callVars, slots>>

-----------------------------------------------------------------------------
(***************************************************************************)
(* pumpEvents and the watcher that receives from Events().                 *)
(***************************************************************************)
ConsumerBusy == \E c \in WatcherCalls : state[c] \in {"writing", "waiting"}

Deliver ==
  /\ evQueue # <<>> /\ (~ConsumerBusy \/ quit)
  /\ evQueue' = Tail(evQueue)
  /\ UNCHANGED <<tmuxVars, pipeVars, writing, pending, readerVars, quit, evEnded, evClosed, callVars, slots>>

PumpCloses ==
  /\ evEnded /\ evQueue = <<>> /\ ~evClosed
  /\ evClosed' = TRUE
  /\ UNCHANGED <<tmuxVars, pipeVars, writing, pending, readerVars, quit, evQueue, evEnded, callVars, slots>>

Tmux == SendGuard \/ RunCommand \/ Produce \/ TmuxExits

Reader == ReadLine \/ ReadEnd

Caller(c) == \/ StartCall(c) \/ WriteLine(c) \/ WriteFails(c)
             \/ TakeReply(c) \/ CallStranded(c) \/ CallCancelled(c)

Next == \/ Tmux \/ Reader \/ Close \/ Deliver \/ PumpCloses
        \/ \E c \in Calls : Caller(c)

Spec == Init /\ [][Next]_vars

(***************************************************************************)
(* Fairness.  The goroutines run; tmux answers what it is sent, and exits  *)
(* once it is detached (Close kills it after a timeout); Attach closes the *)
(* client it gives up.  No other caller's context has to end, and nobody   *)
(* else has to call Close.                                                 *)
(***************************************************************************)
Fairness ==
  /\ WF_vars(SendGuard) /\ WF_vars(RunCommand) /\ WF_vars(~stdinOpen /\ TmuxExits)
  /\ WF_vars(Reader) /\ WF_vars(Deliver) /\ WF_vars(PumpCloses) /\ WF_vars(AttachFails)
  /\ \A c \in Calls : /\ WF_vars(WriteLine(c) \/ WriteFails(c))
                       /\ WF_vars(TakeReply(c)) /\ WF_vars(CallStranded(c))

FairSpec == Spec /\ Fairness

-----------------------------------------------------------------------------
(***************************************************************************)
(* Properties.                                                             *)
(***************************************************************************)
TypeOK ==
  /\ alive \in BOOLEAN /\ guardSent \in BOOLEAN /\ skipping \in BOOLEAN
  /\ screen \in 0 .. Len(Outputs) /\ seq \in Nat
  /\ guardSeen \in BOOLEAN /\ done \in BOOLEAN /\ quit \in BOOLEAN /\ stdinOpen \in BOOLEAN
  /\ evEnded \in BOOLEAN /\ evClosed \in BOOLEAN
  /\ writing \in SUBSET Calls /\ Cardinality(writing) <= 1
  /\ state \in [Calls -> {"idle", "writing", "waiting", "ok", "failed"}]
  /\ \A c \in Calls : await[c] \in 1 .. CallLen[c]
  /\ \A i \in DOMAIN pending : pending[i].id \in Ids

\* A command gets its own reply, line by line, or the abort of its line:
\* concurrent callers, aborted lines, cancelled calls, a late guard and
\* replies that show the protocol's own lines never shift the queue.
RepliesMatch ==
  \A id \in Ids : slots[id] # <<>> =>
    \/ Head(slots[id]) = AbortReply
    \/ Head(slots[id]).lines = Body(id, ran[id].num) /\ Head(slots[id]).err = ~ran[id].ok

\* No queued slot has been answered before, so the reader's send to a reply
\* channel of capacity one never blocks the stream.
ReaderNeverBlocks == \A i \in DOMAIN pending : slots[pending[i].id] = <<>>

\* The output events carry the bytes the panes wrote, all of them and nothing
\* else, however tmux escaped them and whatever replies showed.
OutputExact ==
  /\ Len(outs) <= screen
  /\ \A i \in DOMAIN outs : outs[i].data = Outputs[i]

\* After Close, a failed Attach or the end of tmux, the stream is read to its
\* end, and Events() is drained and closed.
EventsEnd == quit \/ done \/ (\E c \in {AttachCalls[1], AttachCalls[2]} : state[c] = "failed") ~> evClosed

-----------------------------------------------------------------------------
(***************************************************************************)
(* The refinement.  A line has run once one of its commands failed or the  *)
(* last one ran; tmux may end before that, and the line never counts.      *)
(***************************************************************************)
LineRan(c) == \E i \in 1 .. CallLen[c] : ran[<<c, i>>].num > 0 /\ (~ran[<<c, i>>].ok \/ i = CallLen[c])

Service == INSTANCE CommandService WITH
  state   <- [c \in Calls |-> IF state[c] = "writing" THEN "waiting" ELSE state[c]],
  ran     <- [c \in Calls |-> IF LineRan(c) THEN Cardinality({i \in 1 .. CallLen[c] : ran[<<c, i>>].ok}) ELSE -1],
  at      <- [c \in Calls |-> IF LineRan(c) THEN ran[<<c, 1>>].n ELSE 0],
  barrier <- [c \in Calls |-> IF state[c] = "ok" THEN Cardinality({i \in DOMAIN outs : outs[i].seq < first[c]}) ELSE 0]

\* The client implements the command service that the watcher and the input
\* service are built on, and every call returns: also while the watcher does
\* not receive events, or a write blocks with mu held.
ImplementsService == Service!Spec
=============================================================================
