------------------------ MODULE ControlClientProofs ------------------------
(***************************************************************************)
(* Theorems about the control-mode client, for any calls of any number of  *)
(* commands and any output: matching the reply blocks to the commands by   *)
(* order alone gives every command its own reply, and never blocks the     *)
(* reader, whatever calls fail, are cancelled or aborted half-way; the     *)
(* output events are what the panes wrote; and the client implements       *)
(* CommandService: the barriers it returns are where the commands ran.     *)
(***************************************************************************)
EXTENDS ControlClient, ControlParserProofs, FiniteSetTheorems

(***************************************************************************)
(* The lines tmux writes, and the commands it is sent.                     *)
(***************************************************************************)
Encoded == {Encode(Outputs[i], style) : i \in 1 .. Len(Outputs), style \in {"octal", "cstyle"}}

Words == {"begin", "end", "error", "text", "output", "extended", "exit"}

Lines == [word: Words, num: Nat,
          data: {<<>>, <<48>>} \cup Ids \cup Encoded \cup {<<48>> \o Delimiter \o e : e \in Encoded}]

Cmds == [id: Ids, cont: BOOLEAN]

Parses == [inReply: BOOLEAN, num: Nat, body: Seq(Lines)]

Histories == [Ids -> [num: Nat, ok: BOOLEAN, n: Nat]]

ClientTypeOK ==
  /\ TypeOK
  /\ ran \in Histories
  /\ stdin \in Seq(Cmds) /\ pending \in Seq(Cmds) /\ stdout \in Seq(Lines)
  /\ parse \in Parses
  /\ slots \in [Ids -> Seq([lines: Seq(Lines), err: BOOLEAN, seq: Nat])]
  /\ await \in [Calls -> Nat]
  /\ \A c, d \in writing : c = d

-----------------------------------------------------------------------------
(***************************************************************************)
(* What became of a command; hist is ran, as it was at some time.          *)
(***************************************************************************)
HasRun(hist, id) == hist[id].num > 0

RunIds == {id \in Ids : HasRun(ran, id)}

\* The number of the last block that tmux wrote.
LastNum == IF guardSent THEN NextNum - 1 ELSE 0

\* Blocks are numbered as they are written.
Numbered ==
  /\ IsFiniteSet(RunIds) /\ (~guardSent => RunIds = {})
  /\ \A id \in RunIds : ran[id].num \in 2 .. LastNum
  /\ \A id, other \in RunIds : ran[id].num = ran[other].num => id = other

\* A call starts once; until then nobody has heard of its commands.
Fresh ==
  /\ \A c \in writing : state[c] # "idle"
  /\ \A id \in Ids : state[id[1]] = "idle" =>
       /\ slots[id] = <<>> /\ ~HasRun(ran, id)
       /\ \A i \in 1 .. Len(pending) : pending[i].id # id

-----------------------------------------------------------------------------
(***************************************************************************)
(* The queue of slots.                                                     *)
(***************************************************************************)
FailedAt(hist, q, i) == HasRun(hist, q[i].id) /\ ~hist[q[i].id].ok

\* Slot i of q is of a command skipped after an error of its line.
Aborted(hist, q, i) ==
  \E k \in 1 .. i - 1 : FailedAt(hist, q, k) /\ \A j \in k + 1 .. i : q[j].cont

\* After an error (sk), tmux is to skip the command at j of its input q.
Skipped(sk, q, j) == sk /\ \A l \in 1 .. j : q[l].cont

\* The slots whose line is not written yet.
Claim == IF writing = {} THEN <<>> ELSE Commands(CHOOSE c \in writing : TRUE)

\* The slots of the commands that are in the pipe, or were.
Sent == Len(pending) - Len(Claim)

\* The input of tmux lines up with the queue from here on.
Offset == Sent - Len(stdin)

Distinct(q) == \A i, j \in 1 .. Len(q) : q[i].id = q[j].id => i = j

\* What has run ran in the order of the queue, past nothing but aborted slots.
InOrder(hist, q) ==
  /\ \A i \in 1 .. Len(q) : Aborted(hist, q, i) => ~HasRun(hist, q[i].id)
  /\ \A i, j \in 1 .. Len(q) : i < j /\ HasRun(hist, q[j].id) =>
       IF HasRun(hist, q[i].id) THEN hist[q[i].id].num < hist[q[j].id].num ELSE Aborted(hist, q, i)

\* The claimed slots are the last ones.
Claimed ==
  /\ Sent >= 0
  /\ \A j \in 1 .. Len(Claim) :
       pending[Sent + j] = Claim[j] /\ ~HasRun(ran, pending[Sent + j].id)

\* What is left of the input, but for what tmux is to skip, is still queued.
InputQueued ==
  \A j \in 1 .. Len(stdin) :
    \/ Skipped(skipping, stdin, j)
    \/ Offset + j >= 1 /\ pending[Offset + j] = stdin[j] /\ ~HasRun(ran, stdin[j].id)

\* Tmux skips what is aborted, and has dealt with what it has read.
SkipsAborted ==
  \A i \in 1 .. Sent :
    IF i > Offset /\ ~Skipped(skipping, stdin, i - Offset)
    THEN ~Aborted(ran, pending, i)
    ELSE HasRun(ran, pending[i].id) \/ Aborted(ran, pending, i)

\* The queue is what has run and been aborted, then what is still to run, then
\* what is still to be written.
Queued ==
  /\ Distinct(pending) /\ InOrder(ran, pending) /\ Claimed
  /\ alive => InputQueued /\ SkipsAborted

-----------------------------------------------------------------------------
(***************************************************************************)
(* The stream.                                                             *)
(***************************************************************************)
\* The parser, and how many blocks and outputs it has read.
Readers == [p: Parses, n: Nat, k: Nat]

At(p, n, k) == [p |-> p, n |-> n, k |-> k]

Closing(r, line) == r.p.inReply /\ Closes(r.p, line)

Outputting(r, line) == ~r.p.inReply /\ line.word \in {"output", "extended"}

Read(r, line) ==
  At(feed(r.p, line).p, IF Closing(r, line) THEN r.n + 1 ELSE r.n,
                        IF Outputting(r, line) THEN r.k + 1 ELSE r.k)

\* Block num, after k outputs, shows what command id did.
Shows(hist, id, num, k, body, err) ==
  /\ hist[id].num = num /\ hist[id].n = k
  /\ body = Body(id, num) /\ (err <=> ~hist[id].ok)

\* A block that closes is the next one, and shows what its command did.
FaithfulBlock(hist, r, line) ==
  /\ r.p.num = r.n + 1
  /\ r.n >= 1 => \E id \in Ids : Shows(hist, id, r.n + 1, r.k, r.p.body, line.word = "error")

\* The next output is what the panes wrote next.
FaithfulOutput(r, line) == r.k + 1 \in 1 .. Len(Outputs) /\ Event(line).data = Outputs[r.k + 1]

Faithful(hist, r, line) ==
  /\ Closing(r, line) => FaithfulBlock(hist, r, line)
  /\ Outputting(r, line) => FaithfulOutput(r, line)

\* Reading q takes the parser from a to b, block by block and output by output.
Reading(hist, q, a, b) ==
  \E f \in [0 .. Len(q) -> Readers] :
    /\ f[0] = a /\ f[Len(q)] = b /\ \A i \in 0 .. Len(q) : f[i].k <= b.k
    /\ \A i \in 1 .. Len(q) : Faithful(hist, f[i - 1], q[i]) /\ f[i] = Read(f[i - 1], q[i])

\* The reader has routed the blocks up to n and passed on the outputs of outs;
\* the rest is in the pipe, whole.
Streamed(n) ==
  /\ Reading(ran, stdout, At(parse, n, Len(outs)), At(Outside, LastNum, screen))
  /\ n >= 1 <=> guardSeen
  /\ n <= LastNum
  /\ ~guardSent => ~parse.inReply /\ \A i \in 1 .. Len(stdout) : stdout[i].word = "exit"
  /\ \A i \in 1 .. Len(pending) : HasRun(ran, pending[i].id) => ran[pending[i].id].num > n
  /\ \A id \in RunIds : ran[id].num > n => \E i \in 1 .. Len(pending) : pending[i].id = id

Matched == RepliesMatch /\ ReaderNeverBlocks /\ \E n \in Nat : Streamed(n)

\* What has been passed on, at positions that have been reached.
Emitted ==
  /\ outs \in Seq([seq: Nat, data: {Outputs[i] : i \in 1 .. Len(Outputs)}])
  /\ \A i \in 1 .. Len(outs) : outs[i].seq <= seq
  /\ OutputExact

ClientInv == ClientTypeOK /\ Numbered /\ Fresh /\ Queued /\ Emitted /\ Matched

-----------------------------------------------------------------------------
(***************************************************************************)
(* Commands and lines.                                                     *)
(***************************************************************************)
\* A command is a call and a position in its line.
LEMMA IdParts ==
  ASSUME NEW id \in Ids
  PROVE  id[1] \in Calls /\ id[2] \in 1 .. CallLen[id[1]] /\ id = <<id[1], id[2]>>
  BY DEF Ids

\* The commands of a call, of which the first starts a line.
LEMMA CommandsOfCall ==
  ASSUME NEW c \in Calls
  PROVE  /\ CallLen[c] \in Nat \ {0}
         /\ Commands(c) \in Seq(Cmds) /\ Len(Commands(c)) = CallLen[c]
         /\ \A i \in 1 .. CallLen[c] : /\ Commands(c)[i] \in Cmds
                                       /\ Commands(c)[i].id = <<c, i>>
                                       /\ Commands(c)[i].cont <=> i > 1
<1>1. CallLen[c] \in Nat \ {0}
  BY ClientAssumption
<1>2. \A i \in 1 .. CallLen[c] : <<c, i>> \in Ids
  BY DEF Ids
<1>3. \A i \in 1 .. CallLen[c] : [id |-> <<c, i>>, cont |-> i > 1] \in Cmds
  BY <1>2 DEF Cmds
<1>4. Commands(c) \in Seq(Cmds) /\ Len(Commands(c)) = CallLen[c]
  BY <1>1, <1>3 DEF Commands
<1>5. \A i \in 1 .. CallLen[c] : Commands(c)[i] = [id |-> <<c, i>>, cont |-> i > 1]
  BY DEF Commands
<1>6. ASSUME NEW i \in 1 .. CallLen[c]
      PROVE  Commands(c)[i].id = <<c, i>> /\ (Commands(c)[i].cont <=> i > 1)
  <2>1. Commands(c)[i] = [id |-> <<c, i>>, cont |-> i > 1]
    BY <1>5
  <2>2. PICK x : x = Commands(c)[i]
    OBVIOUS
  <2>3. i \in Nat
    BY <1>1
  <2>4. x = [id |-> <<c, i>>, cont |-> i > 1]
    BY <2>1, <2>2
  <2>5. x.id = <<c, i>>
    BY <2>4
  <2>6. x.cont <=> i > 1
    BY <2>3, <2>4
  <2> QED
    BY <2>2, <2>5, <2>6
<1>7. \A i \in 1 .. CallLen[c] : Commands(c)[i] \in Cmds
  BY <1>3, <1>5
<1> QED
  BY <1>1, <1>4, <1>6, <1>7

\* Every line tmux writes is one of Lines.
LEMMA LineType ==
  /\ \A num \in Nat : Line("begin", num, <<>>) \in Lines
  /\ \A num \in Nat : Line("end", num, <<>>) \in Lines /\ Line("error", num, <<>>) \in Lines
  /\ Line("exit", 0, <<>>) \in Lines /\ Line("output", 0, <<48>>) \in Lines
  /\ \A id \in Ids : Line("text", 0, id) \in Lines
  /\ \A e \in Encoded : /\ Line("output", 0, e) \in Lines
                        /\ Line("extended", 0, <<48>> \o Delimiter \o e) \in Lines
  BY DEF Line, Lines, Words

\* What a reply shows never ends it: it may hold the end of an earlier block.
LEMMA BodyKeepsOpen ==
  ASSUME NEW id \in Ids, NEW num \in Nat \ {0}
  PROVE  /\ Body(id, num) \in Seq(Lines)
         /\ \A i \in 1 .. Len(Body(id, num)) :
              Body(id, num)[i].word \in {"end", "error"} => Body(id, num)[i].num # num
<1> DEFINE t == Line("text", 0, id)
           e == Line("end", num - 1, <<>>)
           o == Line("output", 0, <<48>>)
<1>1. t \in Lines /\ e \in Lines /\ o \in Lines
  <2>1. num - 1 \in Nat
    OBVIOUS
  <2> QED
    BY <2>1, LineType
<1>2. t.word = "text" /\ e.num = num - 1 /\ o.word = "output"
  BY DEF Line
<1>3. \/ Body(id, num) = <<t>> \o <<>>
      \/ Body(id, num) = <<t>> \o <<e, o>>
  BY DEF Body
<1> HIDE DEF t, e, o
<1>4. <<t>> \o <<>> = <<t>> /\ <<t>> \o <<e, o>> = <<t, e, o>>
  <2>1. <<t>> \in Seq(Lines) /\ <<e, o>> \in Seq(Lines) /\ <<t, e, o>> \in Seq(Lines)
    BY <1>1
  <2>2. /\ Len(<<t>>) = 1 /\ Len(<<e, o>>) = 2 /\ Len(<<t, e, o>>) = 3
        /\ <<t>>[1] = t /\ <<e, o>>[1] = e /\ <<e, o>>[2] = o
        /\ <<t, e, o>>[1] = t /\ <<t, e, o>>[2] = e /\ <<t, e, o>>[3] = o
    OBVIOUS
  <2>3. /\ <<t>> \o <<e, o>> \in Seq(Lines) /\ Len(<<t>> \o <<e, o>>) = 3
        /\ \A i \in 1 .. 3 : (<<t>> \o <<e, o>>)[i] = IF i <= 1 THEN <<t>>[i] ELSE <<e, o>>[i - 1]
    BY <2>1, <2>2, ConcatProperties
  <2>4. /\ (<<t>> \o <<e, o>>)[1] = t /\ (<<t>> \o <<e, o>>)[2] = e
        /\ (<<t>> \o <<e, o>>)[3] = o
    BY <2>2, <2>3
  <2>5. \A i \in 1 .. 3 : i = 1 \/ i = 2 \/ i = 3
    OBVIOUS
  <2>6. \A i \in 1 .. 3 : (<<t>> \o <<e, o>>)[i] = <<t, e, o>>[i]
    BY <2>2, <2>4, <2>5
  <2>7. <<t>> \o <<e, o>> = <<t, e, o>>
    BY <2>1, <2>2, <2>3, <2>6, SeqEqual
  <2> QED
    BY <2>1, <2>7, ConcatEmptySeq
<1>5. CASE Body(id, num) = <<t>>
  <2>1. <<t>> \in Seq(Lines) /\ Len(<<t>>) = 1 /\ <<t>>[1] = t
    BY <1>1
  <2> QED
    BY <1>2, <1>5, <2>1
<1>6. CASE Body(id, num) = <<t, e, o>>
  <2>1. /\ <<t, e, o>> \in Seq(Lines) /\ Len(<<t, e, o>>) = 3
        /\ <<t, e, o>>[1] = t /\ <<t, e, o>>[2] = e /\ <<t, e, o>>[3] = o
    BY <1>1
  <2>2. \A i \in 1 .. 3 : i = 1 \/ i = 2 \/ i = 3
    OBVIOUS
  <2>3. num - 1 # num
    OBVIOUS
  <2> QED
    BY <1>2, <1>6, <2>1, <2>2, <2>3
<1> QED
  BY <1>3, <1>4, <1>5, <1>6

-----------------------------------------------------------------------------
(***************************************************************************)
(* The parser, a line at a time.                                           *)
(***************************************************************************)
\* The delimiter with the number of the block closes it.
LEMMA FeedCloses ==
  ASSUME NEW p, NEW line, p.inReply, Closes(p, line)
  PROVE  /\ feed(p, line).p = Outside
         /\ feed(p, line).replies # <<>>
         /\ Head(feed(p, line).replies) = [lines |-> p.body, err |-> line.word = "error"]
<1>1. feed(p, line) = [p |-> Outside, events |-> <<>>,
                       replies |-> <<[lines |-> p.body, err |-> line.word = "error"]>>]
  BY DEF feed
<1> QED
  BY <1>1

\* Any other line in a block is a line of its reply.
LEMMA FeedBody ==
  ASSUME NEW p, NEW line, NEW body, p.inReply, ~Closes(p, line), body = Append(p.body, line)
  PROVE  /\ feed(p, line).p = [p EXCEPT !.body = body]
         /\ feed(p, line).replies = <<>>
<1>1. feed(p, line) = [p |-> [p EXCEPT !.body = Append(@, line)], events |-> <<>>, replies |-> <<>>]
  BY DEF feed
<1> QED
  BY <1>1

\* Outside a block only the start of one matters.
LEMMA FeedOutside ==
  ASSUME NEW p, NEW line, ~p.inReply
  PROVE  /\ feed(p, line).replies = <<>>
         /\ feed(p, line).p = IF line.word = "begin"
                              THEN [inReply |-> TRUE, num |-> line.num, body |-> <<>>] ELSE p
<1>1. CASE line.word = "begin"
  <2>1. feed(p, line) = [p |-> [inReply |-> TRUE, num |-> line.num, body |-> <<>>],
                         events |-> <<>>, replies |-> <<>>]
    BY <1>1 DEF feed
  <2> QED
    BY <1>1, <2>1
<1>2. CASE line.word # "begin"
  <2>1. feed(p, line) = [p |-> p, events |-> <<Event(line)>>, replies |-> <<>>]
    BY <1>2 DEF feed
  <2> QED
    BY <1>2, <2>1
<1> QED
  BY <1>1, <1>2

\* Only output between blocks is an output event.
LEMMA FeedEvents ==
  ASSUME NEW p, NEW line
  PROVE  /\ ~p.inReply /\ line.word \in {"output", "extended"} =>
              feed(p, line).events = <<Event(line)>> /\ Event(line).kind = "output"
         /\ ~(~p.inReply /\ line.word \in {"output", "extended"}) =>
              \/ feed(p, line).events = <<>>
              \/ feed(p, line).events = <<Event(line)>> /\ Event(line).kind # "output"
<1>1. CASE p.inReply
  <2>1. feed(p, line).events = <<>>
    BY <1>1 DEF feed
  <2> QED
    BY <1>1, <2>1
<1>2. CASE ~p.inReply /\ line.word = "begin"
  <2>1. feed(p, line).events = <<>>
    BY <1>2 DEF feed
  <2> QED
    BY <1>2, <2>1
<1>3. CASE ~p.inReply /\ line.word # "begin"
  <2>1. feed(p, line) = [p |-> p, events |-> <<Event(line)>>, replies |-> <<>>]
    BY <1>3 DEF feed
  <2>2. feed(p, line).events = <<Event(line)>>
    BY <2>1
  <2>3. line.word \in {"output", "extended"} => Event(line).kind = "output"
    BY DEF Event
  <2>4. line.word \notin {"output", "extended"} => Event(line).kind # "output"
    <3>1. CASE line.word \in {"pause", "continue", "exit", "topology"}
      <4>1. Event(line) = [kind |-> line.word, data |-> line.data]
        BY <3>1 DEF Event
      <4>2. Event(line).kind = line.word
        BY <4>1
      <4> QED
        BY <3>1, <4>2
    <3>2. CASE line.word \notin {"pause", "continue", "exit", "topology", "output", "extended"}
      <4>1. Event(line) = [kind |-> "unknown", data |-> line.data]
        BY <3>2 DEF Event
      <4> QED
        BY <4>1
    <3> QED
      BY <3>1, <3>2
  <2> QED
    BY <1>3, <2>2, <2>3, <2>4
<1> QED
  BY <1>1, <1>2, <1>3

\* The parser stays one.
LEMMA FeedType ==
  ASSUME NEW p \in Parses, NEW line \in Lines
  PROVE  feed(p, line).p \in Parses
<1>1. p.inReply \in BOOLEAN /\ p.num \in Nat /\ p.body \in Seq(Lines) /\ line.num \in Nat
  BY DEF Parses, Lines
<1>2. Append(p.body, line) \in Seq(Lines) /\ <<>> \in Seq(Lines)
  BY <1>1
<1>3. CASE p.inReply /\ Closes(p, line)
  <2>1. Outside \in Parses
    BY <1>2 DEF Outside, Parses
  <2> QED
    BY <1>3, <2>1, FeedCloses
<1>4. CASE p.inReply /\ ~Closes(p, line)
  <2>1. PICK body \in Seq(Lines) : body = Append(p.body, line)
    BY <1>2
  <2>2. [p EXCEPT !.body = body] \in Parses
    BY <1>1 DEF Parses
  <2> QED
    BY <1>4, <2>1, <2>2, FeedBody
<1>5. CASE ~p.inReply
  <2>1. [inReply |-> TRUE, num |-> line.num, body |-> <<>>] \in Parses
    BY <1>1, <1>2 DEF Parses
  <2> QED
    BY <1>5, <2>1, FeedOutside
<1> QED
  BY <1>1, <1>3, <1>4, <1>5

\* So does the reader, with its count.
LEMMA ReadType ==
  ASSUME NEW r \in Readers, NEW line \in Lines
  PROVE  Read(r, line) \in Readers
<1>1. r.p \in Parses /\ r.n \in Nat /\ r.n + 1 \in Nat /\ r.k \in Nat /\ r.k + 1 \in Nat
  BY DEF Readers
<1>2. feed(r.p, line).p \in Parses
  BY <1>1, FeedType
<1> QED
  BY <1>1, <1>2 DEF Read, At, Readers

-----------------------------------------------------------------------------
(***************************************************************************)
(* Reading a stream.                                                       *)
(***************************************************************************)
\* Nothing to read.
LEMMA ReadingEmpty ==
  ASSUME NEW hist, NEW a \in Readers
  PROVE  Reading(hist, <<>>, a, a)
<1> DEFINE f == [i \in 0 .. 0 |-> a]
<1>1. f \in [0 .. Len(<<>>) -> Readers] /\ f[0] = a /\ f[Len(<<>>)] = a
  OBVIOUS
<1>2. \A i \in 1 .. Len(<<>>) : FALSE
  OBVIOUS
<1>3. \A i \in 0 .. Len(<<>>) : f[i].k <= a.k
  <2>1. a.k <= a.k
    BY DEF Readers
  <2> QED
    BY <2>1
<1> QED
  BY <1>1, <1>2, <1>3 DEF Reading

\* One more line at the end.
LEMMA ReadingAppend ==
  ASSUME NEW hist, NEW q \in Seq(Lines), NEW line \in Lines, NEW a, NEW b,
         Reading(hist, q, a, b), Faithful(hist, b, line)
  PROVE  Reading(hist, Append(q, line), a, Read(b, line))
<1>1. PICK f \in [0 .. Len(q) -> Readers] :
        /\ f[0] = a /\ f[Len(q)] = b /\ \A i \in 0 .. Len(q) : f[i].k <= b.k
        /\ \A i \in 1 .. Len(q) : Faithful(hist, f[i - 1], q[i]) /\ f[i] = Read(f[i - 1], q[i])
  BY DEF Reading
<1> DEFINE r == Append(q, line)
           g == [i \in 0 .. Len(q) + 1 |-> IF i = Len(q) + 1 THEN Read(b, line) ELSE f[i]]
<1>2. Len(q) \in Nat /\ Len(r) = Len(q) + 1 /\ r[Len(q) + 1] = line
      /\ \A i \in 1 .. Len(q) : r[i] = q[i]
  OBVIOUS
<1>3. g \in [0 .. Len(r) -> Readers]
  <2>1. b \in Readers
    BY <1>1, <1>2
  <2> QED
    BY <1>2, <2>1, ReadType
<1>4. g[0] = a /\ g[Len(r)] = Read(b, line) /\ \A i \in 0 .. Len(r) : g[i].k <= Read(b, line).k
  <2>1. b \in Readers /\ b.k \in Nat
    BY <1>1, <1>2 DEF Readers
  <2>2. Read(b, line).k = b.k \/ Read(b, line).k = b.k + 1
    BY DEF Read, At
  <2>3. b.k <= Read(b, line).k /\ Read(b, line).k <= Read(b, line).k
    BY <2>1, <2>2
  <2>4. \A i \in 0 .. Len(q) : g[i] = f[i] /\ f[i].k \in Nat /\ f[i].k <= b.k
    BY <1>1, <1>2 DEF Readers
  <2>5. \A i \in 0 .. Len(r) : i = Len(r) \/ i \in 0 .. Len(q)
    BY <1>2
  <2>6. \A i \in 0 .. Len(q) : g[i].k <= Read(b, line).k
    <3>1. \A x \in Nat : x <= b.k => x <= Read(b, line).k
      BY <2>1, <2>2
    <3> QED
      BY <2>4, <3>1
  <2>7. g[0] = a /\ g[Len(r)] = Read(b, line)
    BY <1>1, <1>2
  <2> QED
    BY <2>3, <2>5, <2>6, <2>7
<1>5. ASSUME NEW i \in 1 .. Len(r)
      PROVE  Faithful(hist, g[i - 1], r[i]) /\ g[i] = Read(g[i - 1], r[i])
  <2>1. CASE i = Len(q) + 1
    <3>1. g[i - 1] = b /\ r[i] = line /\ g[i] = Read(b, line)
      BY <1>1, <1>2, <2>1
    <3> QED
      BY <3>1
  <2>2. CASE i # Len(q) + 1
    <3>1. i \in 1 .. Len(q)
      BY <1>2, <2>2
    <3>2. g[i - 1] = f[i - 1] /\ g[i] = f[i] /\ r[i] = q[i]
      BY <1>2, <3>1
    <3> QED
      BY <1>1, <3>1, <3>2
  <2> QED
    BY <2>1, <2>2
<1> HIDE DEF g, r
<1>6. Reading(hist, r, a, Read(b, line))
  BY <1>3, <1>4, <1>5 DEF Reading
<1> QED
  BY <1>6 DEF r

\* The first line read.
LEMMA ReadingTail ==
  ASSUME NEW hist, NEW q \in Seq(Lines), q # <<>>, NEW a, NEW b, Reading(hist, q, a, b)
  PROVE  Faithful(hist, a, Head(q)) /\ Reading(hist, Tail(q), Read(a, Head(q)), b)
<1>1. PICK f \in [0 .. Len(q) -> Readers] :
        /\ f[0] = a /\ f[Len(q)] = b /\ \A i \in 0 .. Len(q) : f[i].k <= b.k
        /\ \A i \in 1 .. Len(q) : Faithful(hist, f[i - 1], q[i]) /\ f[i] = Read(f[i - 1], q[i])
  BY DEF Reading
<1> DEFINE r == Tail(q)
           g == [i \in 0 .. Len(q) - 1 |-> f[i + 1]]
<1>2. Len(q) \in Nat /\ Len(q) >= 1 /\ Len(r) = Len(q) - 1 /\ Head(q) = q[1]
      /\ \A i \in 1 .. Len(q) - 1 : r[i] = q[i + 1]
  BY EmptySeq, HeadTailProperties
<1>3. Faithful(hist, a, Head(q)) /\ f[1] = Read(a, Head(q))
  <2>1. 1 \in 1 .. Len(q) /\ 1 - 1 = 0
    BY <1>2
  <2> QED
    BY <1>1, <1>2, <2>1
<1>4. /\ g \in [0 .. Len(r) -> Readers] /\ g[0] = Read(a, Head(q)) /\ g[Len(r)] = b
      /\ \A i \in 0 .. Len(r) : g[i].k <= b.k
  BY <1>1, <1>2, <1>3
<1>5. ASSUME NEW i \in 1 .. Len(r)
      PROVE  Faithful(hist, g[i - 1], r[i]) /\ g[i] = Read(g[i - 1], r[i])
  <2>1. i + 1 \in 1 .. Len(q) /\ (i + 1) - 1 = i
    BY <1>2
  <2>2. g[i - 1] = f[i] /\ g[i] = f[i + 1] /\ r[i] = q[i + 1]
    BY <1>2
  <2> QED
    BY <1>1, <2>1, <2>2
<1> HIDE DEF g, r
<1>6. Reading(hist, r, Read(a, Head(q)), b)
  BY <1>4, <1>5 DEF Reading
<1> QED
  BY <1>3, <1>6 DEF r

\* What has run is history.
LEMMA ReadingKept ==
  ASSUME NEW hist, NEW new, NEW q, NEW a, NEW b, Reading(hist, q, a, b),
         \A id \in Ids : HasRun(hist, id) => new[id] = hist[id]
  PROVE  Reading(new, q, a, b)
<1>1. ASSUME NEW r \in Readers, NEW line, Faithful(hist, r, line)
      PROVE  Faithful(new, r, line)
  <2>1. r.n \in Nat
    BY DEF Readers
  <2>2. ASSUME NEW id \in Ids, Shows(hist, id, r.n + 1, r.k, r.p.body, line.word = "error")
        PROVE  Shows(new, id, r.n + 1, r.k, r.p.body, line.word = "error")
    <3>1. HasRun(hist, id)
      BY <2>1, <2>2 DEF Shows, HasRun
    <3> QED
      BY <2>2, <3>1 DEF Shows
  <2> QED
    BY <1>1, <2>2 DEF Faithful, FaithfulBlock
<1>2. PICK f \in [0 .. Len(q) -> Readers] :
        /\ f[0] = a /\ f[Len(q)] = b /\ \A i \in 0 .. Len(q) : f[i].k <= b.k
        /\ \A i \in 1 .. Len(q) : Faithful(hist, f[i - 1], q[i]) /\ f[i] = Read(f[i - 1], q[i])
  BY DEF Reading
<1>3. \A i \in 1 .. Len(q) : f[i - 1] \in Readers
  OBVIOUS
<1> QED
  BY <1>1, <1>2, <1>3 DEF Reading

\* A line that matters to no block.
LEMMA ReadingOutside ==
  ASSUME NEW hist, NEW q \in Seq(Lines), NEW line \in Lines, NEW a, NEW p, NEW n, NEW k,
         Reading(hist, q, a, At(p, n, k)), ~p.inReply,
         line.word \notin {"begin", "output", "extended"}
  PROVE  Reading(hist, Append(q, line), a, At(p, n, k))
<1>1. At(p, n, k).p = p /\ At(p, n, k).n = n /\ At(p, n, k).k = k
  BY DEF At
<1>2. ~Closing(At(p, n, k), line) /\ ~Outputting(At(p, n, k), line)
  BY <1>1 DEF Closing, Outputting
<1>3. Read(At(p, n, k), line) = At(p, n, k)
  BY <1>1, <1>2, FeedOutside DEF Read
<1>4. Faithful(hist, At(p, n, k), line)
  BY <1>2 DEF Faithful
<1> QED
  BY <1>3, <1>4, ReadingAppend

\* The next output.
LEMMA ReadingOutput ==
  ASSUME NEW hist, NEW q \in Seq(Lines), NEW line \in Lines, NEW a, NEW p, NEW n, NEW k,
         Reading(hist, q, a, At(p, n, k)), ~p.inReply, line.word \in {"output", "extended"},
         k + 1 \in 1 .. Len(Outputs), Event(line).data = Outputs[k + 1]
  PROVE  Reading(hist, Append(q, line), a, At(p, n, k + 1))
<1>1. At(p, n, k).p = p /\ At(p, n, k).n = n /\ At(p, n, k).k = k
  BY DEF At
<1>2. ~Closing(At(p, n, k), line) /\ Outputting(At(p, n, k), line)
  BY <1>1 DEF Closing, Outputting
<1>3. Read(At(p, n, k), line) = At(p, n, k + 1)
  BY <1>1, <1>2, FeedOutside DEF Read
<1>4. Faithful(hist, At(p, n, k), line)
  BY <1>1, <1>2 DEF Faithful, FaithfulOutput
<1> QED
  BY <1>3, <1>4, ReadingAppend

\* One stream after the other.
LEMMA ReadingConcat ==
  ASSUME NEW hist, NEW q \in Seq(Lines), NEW r \in Seq(Lines), NEW a, NEW b, NEW c,
         Reading(hist, q, a, b), Reading(hist, r, b, c)
  PROVE  Reading(hist, q \o r, a, c)
<1>1. PICK f \in [0 .. Len(q) -> Readers] :
        /\ f[0] = a /\ f[Len(q)] = b /\ \A i \in 0 .. Len(q) : f[i].k <= b.k
        /\ \A i \in 1 .. Len(q) : Faithful(hist, f[i - 1], q[i]) /\ f[i] = Read(f[i - 1], q[i])
  BY DEF Reading
<1>2. PICK g \in [0 .. Len(r) -> Readers] :
        /\ g[0] = b /\ g[Len(r)] = c /\ \A i \in 0 .. Len(r) : g[i].k <= c.k
        /\ \A i \in 1 .. Len(r) : Faithful(hist, g[i - 1], r[i]) /\ g[i] = Read(g[i - 1], r[i])
  BY DEF Reading
<1> DEFINE t == q \o r
           h == [i \in 0 .. Len(q) + Len(r) |-> IF i <= Len(q) THEN f[i] ELSE g[i - Len(q)]]
<1>3. /\ Len(q) \in Nat /\ Len(r) \in Nat /\ Len(t) = Len(q) + Len(r)
      /\ \A i \in 1 .. Len(q) + Len(r) : t[i] = IF i <= Len(q) THEN q[i] ELSE r[i - Len(q)]
  BY ConcatProperties
<1>4. ASSUME NEW i \in 0 .. Len(t)
      PROVE  /\ i <= Len(q) => h[i] = f[i] /\ f[i] \in Readers
             /\ i >= Len(q) => h[i] = g[i - Len(q)] /\ g[i - Len(q)] \in Readers
  <2>1. CASE i < Len(q)
    <3>1. i \in 0 .. Len(q) /\ i <= Len(q) /\ ~(i >= Len(q)) /\ i \in 0 .. Len(q) + Len(r)
      BY <1>3, <2>1
    <3>2. h[i] = f[i] /\ f[i] \in Readers
      BY <3>1
    <3> QED
      BY <3>1, <3>2
  <2>2. CASE i = Len(q)
    <3>1. h[i] = f[i] /\ i - Len(q) = 0
      BY <1>3, <2>2
    <3>2. f[Len(q)] \in Readers /\ g[0] \in Readers
      <4>1. Len(q) \in 0 .. Len(q) /\ 0 \in 0 .. Len(r)
        BY <1>3
      <4> QED
        BY <4>1
    <3>3. f[Len(q)] = g[0]
      BY <1>1, <1>2
    <3> HIDE DEF h
    <3> QED
      BY <2>2, <3>1, <3>2, <3>3
  <2>3. CASE i > Len(q)
    <3>1. i - Len(q) \in 0 .. Len(r) /\ ~(i <= Len(q))
      BY <1>3, <2>3
    <3> QED
      BY <1>3, <2>3, <3>1
  <2> QED
    BY <1>3, <2>1, <2>2, <2>3
<1>5. h \in [0 .. Len(t) -> Readers]
  <2>1. \A i \in 0 .. Len(t) : h[i] \in Readers
    BY <1>3, <1>4
  <2> QED
    BY <1>3, <2>1
<1>9. \A i \in 0 .. Len(t) : h[i].k <= c.k
  <2>1. b \in Readers /\ c \in Readers /\ b.k <= c.k /\ b.k \in Nat /\ c.k \in Nat
    <3>1. 0 \in 0 .. Len(r) /\ Len(r) \in 0 .. Len(r)
      BY <1>3
    <3> QED
      BY <1>2, <3>1 DEF Readers
  <2>2. ASSUME NEW i \in 0 .. Len(t)
        PROVE  h[i].k <= c.k
    <3>1. CASE i <= Len(q)
      <4>1. i \in 0 .. Len(q) /\ h[i] = f[i] /\ f[i].k \in Nat
        BY <1>3, <1>4, <3>1 DEF Readers
      <4>2. f[i].k <= b.k
        BY <1>1, <4>1
      <4>3. f[i].k <= c.k
        BY <2>1, <4>1, <4>2
      <4> QED
        BY <4>1, <4>3
    <3>2. CASE ~(i <= Len(q))
      <4>1. i - Len(q) \in 0 .. Len(r) /\ i >= Len(q)
        BY <1>3, <3>2
      <4> QED
        BY <1>2, <1>4, <4>1
    <3> QED
      BY <3>1, <3>2
  <2> QED
    BY <2>2
<1>6. h[0] = a /\ h[Len(t)] = c
  <2>1. 0 \in 0 .. Len(t) /\ Len(t) \in 0 .. Len(t) /\ Len(t) - Len(q) = Len(r)
    BY <1>3
  <2>2. 0 <= Len(q) /\ Len(t) >= Len(q)
    BY <1>3
  <2> QED
    BY <1>1, <1>2, <1>4, <2>1, <2>2
<1> HIDE DEF h
<1>7. ASSUME NEW i \in 1 .. Len(t)
      PROVE  Faithful(hist, h[i - 1], t[i]) /\ h[i] = Read(h[i - 1], t[i])
  <2>1. CASE i <= Len(q)
    <3>1. i - 1 \in 0 .. Len(t) /\ i \in 0 .. Len(t) /\ i - 1 <= Len(q) /\ i \in 1 .. Len(q)
      BY <1>3, <2>1
    <3>2. h[i - 1] = f[i - 1] /\ h[i] = f[i] /\ t[i] = q[i]
      BY <1>3, <1>4, <2>1, <3>1
    <3> QED
      BY <1>1, <3>1, <3>2
  <2>2. CASE i > Len(q)
    <3>1. /\ i - 1 \in 0 .. Len(t) /\ i \in 0 .. Len(t) /\ i - 1 >= Len(q) /\ i >= Len(q)
          /\ i - Len(q) \in 1 .. Len(r) /\ (i - 1) - Len(q) = (i - Len(q)) - 1 /\ ~(i <= Len(q))
      BY <1>3, <2>2
    <3>2. h[i - 1] = g[(i - 1) - Len(q)] /\ h[i] = g[i - Len(q)] /\ t[i] = r[i - Len(q)]
      BY <1>3, <1>4, <3>1
    <3>3. PICK j \in 1 .. Len(r) : j = i - Len(q)
      BY <3>1
    <3>4. h[i - 1] = g[j - 1] /\ h[i] = g[j] /\ t[i] = r[j]
      BY <3>1, <3>2, <3>3
    <3> QED
      BY <1>2, <3>4
  <2> QED
    BY <1>3, <2>1, <2>2
<1>8. Reading(hist, t, a, c)
  BY <1>5, <1>6, <1>7, <1>9 DEF Reading
<1> QED
  BY <1>8

\* In a block, having read the lines of body.
Inside(num, body) == [inReply |-> TRUE, num |-> num, body |-> body]

\* The lines of a reply are its body.
LEMMA ReadingBody ==
  ASSUME NEW hist, NEW n \in Nat, NEW k \in Nat, NEW num \in Nat, NEW body \in Seq(Lines),
         \A i \in 1 .. Len(body) : body[i].word \in {"end", "error"} => body[i].num # num
  PROVE  Reading(hist, body, At(Inside(num, <<>>), n, k), At(Inside(num, body), n, k))
<1> DEFINE f == [i \in 0 .. Len(body) |-> At(Inside(num, SubSeq(body, 1, i)), n, k)]
<1>1. Len(body) \in Nat
  OBVIOUS
<1>2. \A i \in 0 .. Len(body) : SubSeq(body, 1, i) \in Seq(Lines)
  BY <1>1, ElementOfSeq, SubSeqProperties
<1>3. f \in [0 .. Len(body) -> Readers]
  <2>1. ASSUME NEW i \in 0 .. Len(body)
        PROVE  At(Inside(num, SubSeq(body, 1, i)), n, k) \in Readers
    BY <1>2 DEF At, Inside, Readers, Parses
  <2> QED
    BY <2>1
<1>4. f[0] = At(Inside(num, <<>>), n, k) /\ f[Len(body)] = At(Inside(num, body), n, k)
  <2>1. SubSeq(body, 1, 0) = <<>> /\ SubSeq(body, 1, Len(body)) = body
    BY SubSeqFull, SubSeqEmpty
  <2>2. 0 \in 0 .. Len(body) /\ Len(body) \in 0 .. Len(body)
    BY <1>1
  <2>3. /\ f[0] = At(Inside(num, SubSeq(body, 1, 0)), n, k)
        /\ f[Len(body)] = At(Inside(num, SubSeq(body, 1, Len(body))), n, k)
    BY <2>2
  <2> QED
    BY <2>1, <2>3
<1>5. ASSUME NEW i \in 1 .. Len(body)
      PROVE  Faithful(hist, f[i - 1], body[i]) /\ f[i] = Read(f[i - 1], body[i])
  <2>1. PICK b : b = SubSeq(body, 1, i - 1)
    OBVIOUS
  <2>2. f[i - 1] = At(Inside(num, b), n, k) /\ f[i] = At(Inside(num, SubSeq(body, 1, i)), n, k)
    BY <1>1, <2>1
  <2>3. PICK line \in Lines : line = body[i]
    BY ElementOfSeq
  <2>4. SubSeq(body, 1, i) = Append(b, line)
    <3>1. 1 \in 1 .. Len(body) /\ i \in 1 .. Len(body)
      BY <1>1
    <3>2. SubSeq(body, 1, i) = b \o <<line>>
      BY <2>1, <2>3, <3>1, SubSeqRecursiveSecond
    <3>3. b \in Seq(Lines)
      <4>1. i - 1 \in 0 .. Len(body)
        BY <1>1
      <4> QED
        BY <1>2, <2>1, <4>1
    <3> QED
      BY <3>2, <3>3, AppendIsConcat
  <2>5. /\ At(Inside(num, b), n, k).p = Inside(num, b) /\ At(Inside(num, b), n, k).n = n
        /\ At(Inside(num, b), n, k).k = k
        /\ Inside(num, b).inReply /\ Inside(num, b).num = num
    BY DEF At, Inside
  <2>6. ~Closes(Inside(num, b), line)
    BY <2>3, <2>5 DEF Closes
  <2>7. ~Closing(At(Inside(num, b), n, k), line) /\ ~Outputting(At(Inside(num, b), n, k), line)
    BY <2>5, <2>6 DEF Closing, Outputting
  <2>8. feed(Inside(num, b), line).p = Inside(num, Append(b, line))
    <3>1. PICK c : c = Append(b, line)
      OBVIOUS
    <3>2. [Inside(num, b) EXCEPT !.body = c] = Inside(num, c)
      <4>1. \A in : [[inReply |-> in, num |-> num, body |-> b] EXCEPT !.body = c]
                      = [inReply |-> in, num |-> num, body |-> c]
        OBVIOUS
      <4> QED
        BY <4>1 DEF Inside
    <3>3. Inside(num, b).body = b
      BY DEF Inside
    <3>4. feed(Inside(num, b), line).p = [Inside(num, b) EXCEPT !.body = c]
      <4>1. PICK p : p = Inside(num, b)
        OBVIOUS
      <4>2. p.inReply /\ ~Closes(p, line) /\ c = Append(p.body, line)
        BY <2>5, <2>6, <3>1, <3>3, <4>1
      <4>3. feed(p, line).p = [p EXCEPT !.body = c]
        BY <4>2, FeedBody
      <4> QED
        BY <4>1, <4>3
    <3> QED
      BY <3>1, <3>2, <3>4
  <2> QED
    BY <2>2, <2>3, <2>4, <2>5, <2>7, <2>8 DEF Read, Faithful
<1>6. \A i \in 0 .. Len(body) : f[i].k <= At(Inside(num, body), n, k).k
  <2>1. \A x : At(x, n, k).k = k
    BY DEF At
  <2>2. k <= k
    OBVIOUS
  <2>3. \A i \in 0 .. Len(body) : f[i] = At(Inside(num, SubSeq(body, 1, i)), n, k)
    OBVIOUS
  <2> QED
    BY <2>1, <2>2, <2>3
<1> HIDE DEF f
<1> QED
  BY <1>3, <1>4, <1>5, <1>6 DEF Reading

\* The block of the next number is read whole.
LEMMA ReadingBlock ==
  ASSUME NEW hist, NEW q \in Seq(Lines), NEW a, NEW n \in Nat, NEW k \in Nat, NEW body \in Seq(Lines),
         NEW err \in BOOLEAN, Reading(hist, q, a, At(Outside, n, k)),
         \A i \in 1 .. Len(body) : body[i].word \in {"end", "error"} => body[i].num # n + 1,
         n >= 1 => \E id \in Ids : Shows(hist, id, n + 1, k, body, err)
  PROVE  /\ q \o Block(n + 1, body, err) \in Seq(Lines)
         /\ Reading(hist, q \o Block(n + 1, body, err), a, At(Outside, n + 1, k))
<1>1. PICK begin \in Lines : begin = Line("begin", n + 1, <<>>)
  BY LineType
<1>2. PICK close \in Lines : close = Line(IF err THEN "error" ELSE "end", n + 1, <<>>)
  BY LineType
<1>3. /\ begin.word = "begin" /\ begin.num = n + 1 /\ close.num = n + 1
      /\ close.word \in {"end", "error"} /\ (close.word = "error" <=> err)
  BY <1>1, <1>2 DEF Line
<1>4. At(Outside, n, k) \in Readers /\ At(Outside, n, k).p = Outside /\ At(Outside, n, k).n = n
      /\ At(Outside, n, k).k = k /\ ~Outside.inReply
  BY EmptySeq DEF At, Outside, Readers, Parses
<1>5. Reading(hist, <<begin>>, At(Outside, n, k), At(Inside(n + 1, <<>>), n, k))
  <2>1. ~Closing(At(Outside, n, k), begin) /\ ~Outputting(At(Outside, n, k), begin)
    BY <1>3, <1>4 DEF Closing, Outputting
  <2>2. feed(Outside, begin).p = Inside(n + 1, <<>>)
    BY <1>3, <1>4, FeedOutside DEF Inside
  <2>3. Read(At(Outside, n, k), begin) = At(Inside(n + 1, <<>>), n, k)
    BY <1>4, <2>1, <2>2 DEF Read
  <2>4. Faithful(hist, At(Outside, n, k), begin)
    BY <2>1 DEF Faithful
  <2>5. Append(<<>>, begin) = <<begin>> /\ <<>> \in Seq(Lines)
    OBVIOUS
  <2>6. Reading(hist, <<>>, At(Outside, n, k), At(Outside, n, k))
    BY <1>4, ReadingEmpty
  <2> QED
    BY <2>3, <2>4, <2>5, <2>6, ReadingAppend
<1>6. PICK r : r = <<begin>> \o body
  OBVIOUS
<1>7. r \in Seq(Lines) /\ Reading(hist, r, At(Outside, n, k), At(Inside(n + 1, body), n, k))
  <2>1. <<begin>> \in Seq(Lines) /\ n + 1 \in Nat
    OBVIOUS
  <2>2. Reading(hist, body, At(Inside(n + 1, <<>>), n, k), At(Inside(n + 1, body), n, k))
    BY <2>1, ReadingBody
  <2> QED
    BY <1>5, <1>6, <2>1, <2>2, ReadingConcat, ConcatProperties
<1>8. PICK i : i = At(Inside(n + 1, body), n, k)
  OBVIOUS
<1>9. i.p.inReply /\ i.p.num = n + 1 /\ i.p.body = body /\ i.n = n /\ i.k = k
  BY <1>8 DEF At, Inside
<1>10. Closes(i.p, close) /\ Closing(i, close) /\ ~Outputting(i, close)
  BY <1>3, <1>9 DEF Closes, Closing, Outputting
<1>11. Read(i, close) = At(Outside, n + 1, k)
  BY <1>9, <1>10, FeedCloses DEF Read
<1>12. Faithful(hist, i, close)
  BY <1>3, <1>9, <1>10 DEF Faithful, FaithfulBlock
<1>13. Append(r, close) \in Seq(Lines) /\ Append(r, close) = Block(n + 1, body, err)
  <2>1. Block(n + 1, body, err) = r \o <<close>>
    BY <1>1, <1>2, <1>6 DEF Block
  <2> QED
    BY <1>7, <2>1, AppendIsConcat
<1>14. Reading(hist, Append(r, close), At(Outside, n, k), At(Outside, n + 1, k))
  BY <1>7, <1>8, <1>11, <1>12, ReadingAppend
<1> QED
  BY <1>13, <1>14, ReadingConcat, ConcatProperties

-----------------------------------------------------------------------------
(***************************************************************************)
(* The queue, and its changes: it grows and is cut at the end, is served   *)
(* at the head, and one of its commands runs.                              *)
(***************************************************************************)
\* A command at some position.
LEMMA QueueItem ==
  ASSUME NEW q \in Seq(Cmds), NEW i \in 1 .. Len(q)
  PROVE  q[i] \in Cmds /\ q[i].id \in Ids /\ q[i].cont \in BOOLEAN
<1>1. q[i] \in Cmds
  BY ElementOfSeq
<1> QED
  BY <1>1 DEF Cmds

\* What is aborted depends on what came before.
LEMMA AbortedPrefix ==
  ASSUME NEW hist, NEW q \in Seq(Cmds), NEW r \in Seq(Cmds), NEW n \in Nat,
         n <= Len(q), n <= Len(r), \A i \in 1 .. n : r[i] = q[i]
  PROVE  \A i \in 1 .. n : Aborted(hist, r, i) <=> Aborted(hist, q, i)
<1> SUFFICES ASSUME NEW i \in 1 .. n
             PROVE  Aborted(hist, r, i) <=> Aborted(hist, q, i)
  OBVIOUS
<1>1. \A k \in 1 .. i - 1 : k \in 1 .. n /\ \A j \in k + 1 .. i : j \in 1 .. n
  OBVIOUS
<1>2. \A k \in 1 .. i - 1 : FailedAt(hist, r, k) <=> FailedAt(hist, q, k)
  BY <1>1 DEF FailedAt
<1> QED
  BY <1>1, <1>2 DEF Aborted

\* A queue cut at the end, or that grows by commands that did not run.
LEMMA InOrderPrefix ==
  ASSUME NEW hist, NEW q \in Seq(Cmds), NEW r \in Seq(Cmds), NEW n \in Nat,
         n <= Len(q), n <= Len(r), \A i \in 1 .. n : r[i] = q[i],
         \A i \in n + 1 .. Len(r) : ~HasRun(hist, r[i].id),
         InOrder(hist, q)
  PROVE  InOrder(hist, r)
<1>1. \A i \in 1 .. n : Aborted(hist, r, i) <=> Aborted(hist, q, i)
  BY AbortedPrefix
<1>2. \A i \in 1 .. Len(r) : (i \in 1 .. n /\ i \in 1 .. Len(q)) \/ i \in n + 1 .. Len(r)
  OBVIOUS
<1>3. ASSUME NEW i \in 1 .. Len(r), Aborted(hist, r, i)
      PROVE  ~HasRun(hist, r[i].id)
  BY <1>1, <1>2, <1>3 DEF InOrder
<1>4. ASSUME NEW i \in 1 .. Len(r), NEW j \in 1 .. Len(r), i < j, HasRun(hist, r[j].id)
      PROVE  IF HasRun(hist, r[i].id) THEN hist[r[i].id].num < hist[r[j].id].num
             ELSE Aborted(hist, r, i)
  <2>1. j \in 1 .. n /\ j \in 1 .. Len(q) /\ i \in 1 .. n /\ i \in 1 .. Len(q)
    BY <1>2, <1>4
  <2>2. r[i] = q[i] /\ r[j] = q[j]
    BY <2>1
  <2>3. IF HasRun(hist, q[i].id) THEN hist[q[i].id].num < hist[q[j].id].num
        ELSE Aborted(hist, q, i)
    BY <1>4, <2>1, <2>2 DEF InOrder
  <2> QED
    BY <1>1, <2>1, <2>2, <2>3
<1> QED
  BY <1>3, <1>4 DEF InOrder

\* A queue served up to m, past which no error of the part served reaches.
LEMMA AbortedServed ==
  ASSUME NEW hist, NEW q \in Seq(Cmds), NEW r \in Seq(Cmds), NEW m \in 0 .. Len(q),
         Len(r) = Len(q) - m, \A i \in 1 .. Len(r) : r[i] = q[i + m],
         \/ \A k \in 1 .. m : ~FailedAt(hist, q, k)
         \/ m < Len(q) => ~q[m + 1].cont
  PROVE  \A i \in 1 .. Len(r) : Aborted(hist, r, i) <=> Aborted(hist, q, i + m)
<1>1. Len(q) \in Nat /\ Len(r) \in Nat /\ m \in Nat
  OBVIOUS
<1> SUFFICES ASSUME NEW i \in 1 .. Len(r)
             PROVE  Aborted(hist, r, i) <=> Aborted(hist, q, i + m)
  OBVIOUS
<1>2. ASSUME Aborted(hist, r, i)
      PROVE  Aborted(hist, q, i + m)
  <2>1. PICK k \in 1 .. i - 1 : FailedAt(hist, r, k) /\ \A j \in k + 1 .. i : r[j].cont
    BY <1>2 DEF Aborted
  <2>2. k \in 1 .. Len(r) /\ k + m \in 1 .. (i + m) - 1
    BY <1>1
  <2>3. FailedAt(hist, q, k + m)
    BY <2>1, <2>2 DEF FailedAt
  <2>4. ASSUME NEW j \in (k + m) + 1 .. i + m
        PROVE  q[j].cont
    <3>1. j - m \in k + 1 .. i /\ j - m \in 1 .. Len(r) /\ (j - m) + m = j
      BY <1>1, <2>2
    <3> QED
      BY <2>1, <3>1
  <2> QED
    BY <2>2, <2>3, <2>4 DEF Aborted
<1>3. ASSUME Aborted(hist, q, i + m)
      PROVE  Aborted(hist, r, i)
  <2>1. PICK k \in 1 .. (i + m) - 1 : FailedAt(hist, q, k) /\ \A j \in k + 1 .. i + m : q[j].cont
    BY <1>3 DEF Aborted
  <2>2. ~(k <= m)
    <3>1. SUFFICES ASSUME k <= m PROVE FALSE
      OBVIOUS
    <3>2. k \in 1 .. m /\ m < Len(q) /\ m + 1 \in k + 1 .. i + m
      BY <1>1, <3>1
    <3> QED
      BY <2>1, <3>2
  <2>3. k - m \in 1 .. i - 1 /\ k - m \in 1 .. Len(r) /\ (k - m) + m = k
    BY <1>1, <2>2
  <2>4. FailedAt(hist, r, k - m)
    BY <2>1, <2>3 DEF FailedAt
  <2>5. ASSUME NEW j \in (k - m) + 1 .. i
        PROVE  r[j].cont
    <3>1. j + m \in k + 1 .. i + m /\ j \in 1 .. Len(r)
      BY <1>1, <2>3
    <3> QED
      BY <2>1, <3>1
  <2> QED
    BY <2>3, <2>4, <2>5 DEF Aborted
<1> QED
  BY <1>2, <1>3

\* Served, it is still in order.
LEMMA InOrderServed ==
  ASSUME NEW hist, NEW q \in Seq(Cmds), NEW r \in Seq(Cmds), NEW m \in 0 .. Len(q),
         Len(r) = Len(q) - m, \A i \in 1 .. Len(r) : r[i] = q[i + m],
         \A i \in 1 .. Len(r) : Aborted(hist, r, i) <=> Aborted(hist, q, i + m)
  PROVE  /\ InOrder(hist, q) => InOrder(hist, r)
         /\ Distinct(q) => Distinct(r)
<1>1. \A i \in 1 .. Len(r) : i + m \in 1 .. Len(q) /\ i + m \in Nat
  OBVIOUS
<1>2. ASSUME InOrder(hist, q)
      PROVE  InOrder(hist, r)
  <2>1. ASSUME NEW i \in 1 .. Len(r), Aborted(hist, r, i)
        PROVE  ~HasRun(hist, r[i].id)
    BY <1>1, <1>2, <2>1 DEF InOrder
  <2>2. ASSUME NEW i \in 1 .. Len(r), NEW j \in 1 .. Len(r), i < j, HasRun(hist, r[j].id)
        PROVE  IF HasRun(hist, r[i].id) THEN hist[r[i].id].num < hist[r[j].id].num
               ELSE Aborted(hist, r, i)
    <3>1. i + m \in 1 .. Len(q) /\ j + m \in 1 .. Len(q) /\ i + m < j + m
      BY <1>1, <2>2
    <3>2. r[i] = q[i + m] /\ r[j] = q[j + m]
      OBVIOUS
    <3>3. IF HasRun(hist, q[i + m].id) THEN hist[q[i + m].id].num < hist[q[j + m].id].num
          ELSE Aborted(hist, q, i + m)
      BY <1>2, <2>2, <3>1, <3>2 DEF InOrder
    <3> QED
      BY <3>2, <3>3
  <2> QED
    BY <2>1, <2>2 DEF InOrder
<1>3. ASSUME Distinct(q)
      PROVE  Distinct(r)
  <2> SUFFICES ASSUME NEW i \in 1 .. Len(r), NEW j \in 1 .. Len(r), r[i].id = r[j].id
               PROVE  i = j
    BY DEF Distinct
  <2>1. i + m = j + m
    BY <1>1, <1>3 DEF Distinct
  <2> QED
    BY <2>1
<1> QED
  BY <1>2, <1>3

\* The next command runs, in the order of the queue; its error aborts what
\* continues its line.
LEMMA RunsNext ==
  ASSUME NEW hist \in Histories, NEW q \in Seq(Cmds), NEW p \in 1 .. Len(q),
         NEW entry \in [num: Nat, ok: BOOLEAN, n: Nat],
         Distinct(q), InOrder(hist, q), ~HasRun(hist, q[p].id), ~Aborted(hist, q, p),
         \A i \in 1 .. p - 1 : HasRun(hist, q[i].id) \/ Aborted(hist, q, i),
         \A i \in p + 1 .. Len(q) : ~HasRun(hist, q[i].id),
         entry.num > 0, \A id \in Ids : hist[id].num < entry.num,
         NEW new, new = [hist EXCEPT ![q[p].id] = entry]
  PROVE  /\ InOrder(new, q)
         /\ \A i \in 1 .. Len(q) : Aborted(new, q, i) <=>
              \/ Aborted(hist, q, i)
              \/ ~entry.ok /\ i > p /\ \A j \in p + 1 .. i : q[j].cont
<1>1. Len(q) \in Nat /\ p \in Nat /\ \A i \in 1 .. Len(q) : q[i].id \in Ids
  BY QueueItem
<1>2. /\ new[q[p].id] = entry
      /\ \A id \in Ids : id # q[p].id => new[id] = hist[id]
  BY <1>1 DEF Histories
<1>3. \A i \in 1 .. Len(q) : i # p => new[q[i].id] = hist[q[i].id]
  BY <1>1, <1>2 DEF Distinct
<1>4. \A i \in 1 .. Len(q) : i # p => /\ HasRun(new, q[i].id) <=> HasRun(hist, q[i].id)
                                      /\ FailedAt(new, q, i) <=> FailedAt(hist, q, i)
  BY <1>3 DEF HasRun, FailedAt
<1>5. ~FailedAt(hist, q, p) /\ (FailedAt(new, q, p) <=> ~entry.ok) /\ HasRun(new, q[p].id)
  BY <1>2 DEF HasRun, FailedAt
<1>6. ASSUME NEW i \in 1 .. Len(q)
      PROVE  Aborted(new, q, i) <=> \/ Aborted(hist, q, i)
                                    \/ ~entry.ok /\ i > p /\ \A j \in p + 1 .. i : q[j].cont
  <2>1. \A k \in 1 .. i - 1 : k \in 1 .. Len(q)
    BY <1>1
  <2>2. ASSUME Aborted(new, q, i)
        PROVE  Aborted(hist, q, i) \/ (~entry.ok /\ i > p /\ \A j \in p + 1 .. i : q[j].cont)
    <3>1. PICK k \in 1 .. i - 1 : FailedAt(new, q, k) /\ \A j \in k + 1 .. i : q[j].cont
      BY <2>2 DEF Aborted
    <3>2. CASE k = p
      <4>1. i > p
        BY <1>1, <3>2
      <4> QED
        BY <1>5, <3>1, <3>2, <4>1
    <3>3. CASE k # p
      BY <1>4, <2>1, <3>1, <3>3 DEF Aborted
    <3> QED
      BY <3>2, <3>3
  <2>3. ASSUME Aborted(hist, q, i)
        PROVE  Aborted(new, q, i)
    <3>1. PICK k \in 1 .. i - 1 : FailedAt(hist, q, k) /\ \A j \in k + 1 .. i : q[j].cont
      BY <2>3 DEF Aborted
    <3>2. k # p
      BY <1>5, <3>1
    <3> QED
      BY <1>4, <2>1, <3>1, <3>2 DEF Aborted
  <2>4. ASSUME ~entry.ok, i > p, \A j \in p + 1 .. i : q[j].cont
        PROVE  Aborted(new, q, i)
    <3>1. p \in 1 .. i - 1
      BY <1>1, <2>4
    <3> QED
      BY <1>5, <2>4, <3>1 DEF Aborted
  <2> QED
    BY <2>2, <2>3, <2>4
<1>7. ASSUME NEW i \in 1 .. Len(q), Aborted(new, q, i)
      PROVE  ~HasRun(new, q[i].id)
  <2>1. i # p
    BY <1>1, <1>6, <1>7
  <2>2. CASE i > p
    <3>1. i \in p + 1 .. Len(q)
      BY <1>1, <2>2
    <3> QED
      BY <1>4, <2>1, <3>1
  <2>3. CASE ~(i > p)
    <3>1. Aborted(hist, q, i)
      BY <1>6, <1>7, <2>3
    <3> QED
      BY <1>4, <2>1, <3>1 DEF InOrder
  <2> QED
    BY <2>2, <2>3
<1>8. ASSUME NEW i \in 1 .. Len(q), NEW j \in 1 .. Len(q), i < j, HasRun(new, q[j].id)
      PROVE  IF HasRun(new, q[i].id) THEN new[q[i].id].num < new[q[j].id].num
             ELSE Aborted(new, q, i)
  <2>1. j <= p /\ i # p /\ i \in 1 .. p - 1
    <3>1. ~(j \in p + 1 .. Len(q))
      <4>1. SUFFICES ASSUME j \in p + 1 .. Len(q) PROVE FALSE
        OBVIOUS
      <4>2. j # p
        BY <1>1, <4>1
      <4> QED
        BY <1>4, <1>8, <4>1, <4>2
    <3> QED
      BY <1>1, <1>8, <3>1
  <2>2. new[q[i].id] = hist[q[i].id] /\ (HasRun(new, q[i].id) <=> HasRun(hist, q[i].id))
    BY <1>3, <1>4, <2>1
  <2>3. CASE j = p
    <3>1. HasRun(hist, q[i].id) \/ Aborted(hist, q, i)
      BY <2>1
    <3>2. hist[q[i].id].num < new[q[j].id].num
      BY <1>1, <1>2, <2>3
    <3> QED
      BY <1>6, <2>2, <3>1, <3>2
  <2>4. CASE j # p
    <3>1. new[q[j].id] = hist[q[j].id] /\ HasRun(hist, q[j].id)
      BY <1>3, <1>4, <1>8, <2>4
    <3>2. IF HasRun(hist, q[i].id) THEN hist[q[i].id].num < hist[q[j].id].num
          ELSE Aborted(hist, q, i)
      BY <1>8, <3>1 DEF InOrder
    <3> QED
      BY <1>6, <2>2, <3>1, <3>2
  <2> QED
    BY <2>3, <2>4
<1> QED
  BY <1>6, <1>7, <1>8 DEF InOrder

\* What an error purges is the rest of its line: an interval, found without
\* induction, as a set that holds with a number every smaller one from 2.
LEMMA PurgedIsPrefix ==
  ASSUME pending \in Seq(Cmds), pending # <<>>
  PROVE  \E m \in 1 .. Len(pending) :
           /\ Purged = 2 .. m /\ 2 + Cardinality(Purged) = m + 1
           /\ m < Len(pending) => ~pending[m + 1].cont
<1>1. Len(pending) \in Nat /\ Len(pending) >= 1
  BY EmptySeq
<1>2. \A i \in Purged : i \in 2 .. Len(pending) /\ \A j \in 2 .. i : j \in Purged
  BY DEF Purged
<1>3. IsFiniteSet(Purged) /\ Cardinality(Purged) \in Nat
  <2>1. IsFiniteSet(2 .. Len(pending))
    BY <1>1, FS_Interval
  <2>2. Purged \in SUBSET (2 .. Len(pending))
    BY <1>2
  <2>3. IsFiniteSet(Purged)
    BY <2>1, <2>2, FS_Subset
  <2> QED
    BY <2>3, FS_CardinalityType
<1>4. PICK m : m = 1 + Cardinality(Purged)
  OBVIOUS
<1>5. \A i \in Purged : i <= m
  <2> SUFFICES ASSUME NEW i \in Purged
               PROVE  i <= m
    OBVIOUS
  <2>1. i \in Nat /\ i >= 2 /\ 2 .. i \in SUBSET Purged
    BY <1>2
  <2>2. Cardinality(2 .. i) <= Cardinality(Purged)
    BY <1>3, <2>1, FS_Subset
  <2>3. Cardinality(2 .. i) = i - 1
    BY <2>1, FS_Interval
  <2> QED
    BY <1>3, <1>4, <2>1, <2>2, <2>3
<1>6. Purged = 2 .. m
  <2>1. Purged \in SUBSET (2 .. m)
    BY <1>2, <1>4, <1>5
  <2>2. IsFiniteSet(2 .. m) /\ Cardinality(2 .. m) = Cardinality(Purged)
    BY <1>3, <1>4, FS_Interval
  <2> QED
    BY <2>1, <2>2, FS_Subset
<1>7. m \in 1 .. Len(pending)
  <2>1. CASE m = 1
    BY <1>1, <2>1
  <2>2. CASE m # 1
    <3>1. m \in Purged
      <4>1. m \in 2 .. m
        BY <1>3, <1>4, <2>2
      <4> QED
        BY <1>6, <4>1
    <3> QED
      BY <1>2, <3>1
  <2> QED
    BY <2>1, <2>2
<1>8. ASSUME m < Len(pending)
      PROVE  ~pending[m + 1].cont
  <2>1. m + 1 \in 2 .. Len(pending) /\ m + 1 \notin Purged
    BY <1>1, <1>6, <1>7, <1>8
  <2>2. PICK j \in 2 .. m + 1 : ~pending[j].cont
    BY <2>1 DEF Purged
  <2>3. CASE j = m + 1
    BY <2>2, <2>3
  <2>4. CASE j # m + 1
    <3>1. j \in Purged
      BY <1>6, <1>7, <2>4
    <3> QED
      BY <2>2, <3>1 DEF Purged
  <2> QED
    BY <2>3, <2>4
<1> QED
  BY <1>3, <1>4, <1>6, <1>7, <1>8

-----------------------------------------------------------------------------
(***************************************************************************)
(* Types.                                                                  *)
(***************************************************************************)
Replies == [lines: Seq(Lines), err: BOOLEAN, seq: Nat]

\* A block is lines.
LEMMA BlockType ==
  ASSUME NEW num \in Nat, NEW body \in Seq(Lines), NEW err \in BOOLEAN
  PROVE  Block(num, body, err) \in Seq(Lines)
<1>1. PICK begin \in Lines : begin = Line("begin", num, <<>>)
  BY LineType
<1>2. PICK close \in Lines : close = Line(IF err THEN "error" ELSE "end", num, <<>>)
  BY LineType
<1>3. <<begin>> \in Seq(Lines) /\ <<close>> \in Seq(Lines)
  OBVIOUS
<1>4. Block(num, body, err) = <<begin>> \o body \o <<close>>
  BY <1>1, <1>2 DEF Block
<1>5. <<begin>> \o body \in Seq(Lines)
  BY <1>3, ConcatProperties
<1>6. (<<begin>> \o body) \o <<close>> \in Seq(Lines)
  BY <1>3, <1>5, ConcatProperties
<1> QED
  BY <1>4, <1>6

\* So is what a pane writes.
LEMMA OutputLineType ==
  ASSUME screen \in Nat, screen < Len(Outputs), NEW style \in {"octal", "cstyle"}
  PROVE  /\ OutputLine(Outputs[screen + 1], style) \in Lines
         /\ OutputLine(Outputs[screen + 1], style).word \in {"output", "extended"}
         /\ Event(OutputLine(Outputs[screen + 1], style)).data = Outputs[screen + 1]
<1>1. Len(Outputs) \in Nat
  BY ClientAssumption
<1>2. screen + 1 \in 1 .. Len(Outputs)
  BY <1>1
<1>3. Encode(Outputs[screen + 1], style) \in Encoded
  BY <1>2 DEF Encoded
<1>4. PICK e \in Encoded : e = Encode(Outputs[screen + 1], style)
  BY <1>3
<1>5. \/ OutputLine(Outputs[screen + 1], style) = Line("output", 0, e)
      \/ OutputLine(Outputs[screen + 1], style) = Line("extended", 0, <<48>> \o Delimiter \o e)
  BY <1>4 DEF OutputLine
<1>6. /\ Line("output", 0, e).word = "output" /\ Line("output", 0, e).data = e
      /\ Line("extended", 0, <<48>> \o Delimiter \o e).word = "extended"
      /\ Line("extended", 0, <<48>> \o Delimiter \o e).data = <<48>> \o Delimiter \o e
  BY DEF Line
<1>7. Outputs[screen + 1] \in Bytes
  BY <1>2, ElementOfSeq, ClientAssumption DEF Bytes
<1>8. e \in Bytes /\ decodeOutput[e] = Outputs[screen + 1]
  BY <1>4, <1>7, EncodedIsDecoded
<1>9. splitExtendedOutput(<<48>> \o Delimiter \o e) = e
  BY <1>8, ExtendedIsSplit
<1>10. Event(Line("output", 0, e)).data = decodeOutput[e]
  BY <1>6 DEF Event
<1>11. Event(Line("extended", 0, <<48>> \o Delimiter \o e)).data = decodeOutput[e]
  <2>1. PICK line : line = Line("extended", 0, <<48>> \o Delimiter \o e)
    OBVIOUS
  <2>2. line.word = "extended" /\ splitExtendedOutput(line.data) = e
    BY <1>6, <1>9, <2>1
  <2>3. Event(line).data = decodeOutput[e]
    BY <2>2 DEF Event
  <2> QED
    BY <2>1, <2>3
<1> QED
  BY <1>5, <1>6, <1>8, <1>10, <1>11, LineType

\* The initial state has its type.
LEMMA InitType == Init => ClientTypeOK
<1> SUFFICES ASSUME Init PROVE ClientTypeOK
  OBVIOUS
<1>1. \A c \in Calls : CallLen[c] \in Nat \ {0}
  BY ClientAssumption
<1>2. Len(Outputs) \in Nat
  BY ClientAssumption
<1>3. Outside \in Parses
  BY EmptySeq DEF Outside, Parses
<1>4. NotRun \in [num: Nat, ok: BOOLEAN, n: Nat]
  BY DEF NotRun
<1>5. Cardinality(writing) <= 1
  BY FS_EmptySet DEF Init
<1>6. <<>> \in Seq(Cmds) /\ <<>> \in Seq(Lines) /\ <<>> \in Seq(Replies) /\ Len(<<>>) = 0
  BY EmptySeq
<1>7. \A i \in DOMAIN pending : pending[i].id \in Ids
  BY DEF Init
<1>8. TypeOK
  <2>1. screen \in 0 .. Len(Outputs)
    BY <1>2 DEF Init
  <2>2. \A c \in Calls : await[c] \in 1 .. CallLen[c]
    BY <1>1 DEF Init
  <2>3. state \in [Calls -> {"idle", "writing", "waiting", "ok", "failed"}]
    BY DEF Init
  <2> QED
    BY <1>5, <1>7, <2>1, <2>2, <2>3 DEF Init, TypeOK
<1>9. ran \in Histories
  BY <1>4 DEF Init, Histories
<1>10. slots \in [Ids -> Seq(Replies)]
  BY <1>6 DEF Init
<1> QED
  BY <1>3, <1>6, <1>8, <1>9, <1>10 DEF Init, ClientTypeOK, Replies

\* What tmux does.
LEMMA TmuxType ==
  ASSUME ClientTypeOK, NextNum \in Nat \ {0}, Tmux
  PROVE  ClientTypeOK'
<1> USE DEF ClientTypeOK, TypeOK
<1>1. CASE SendGuard
  <2>1. PICK err \in BOOLEAN : stdout' = stdout \o Block(1, <<>>, err) /\ alive' = ~err
    BY <1>1 DEF SendGuard
  <2>2. stdout' \in Seq(Lines)
    BY <2>1, BlockType, EmptySeq, ConcatProperties
  <2> QED
    BY <1>1, <2>1, <2>2 DEF SendGuard, readerVars, eventVars, callVars
<1>2. CASE RunCommand
  <2>1. Head(stdin) \in Cmds /\ Tail(stdin) \in Seq(Cmds)
    BY <1>2, HeadTailProperties DEF RunCommand
  <2>2. PICK cmd \in Cmds : cmd = Head(stdin)
    BY <2>1
  <2>3. cmd.id \in Ids
    BY DEF Cmds
  <2>4. CASE cmd.cont /\ skipping
    BY <1>2, <2>1, <2>2, <2>4 DEF RunCommand, readerVars, eventVars, callVars
  <2>5. CASE ~(cmd.cont /\ skipping)
    <3>1. PICK err \in BOOLEAN :
            /\ stdout' = stdout \o Block(NextNum, Body(cmd.id, NextNum), err)
            /\ skipping' = err
            /\ ran' = [ran EXCEPT ![cmd.id] = [num |-> NextNum, ok |-> ~err, n |-> screen]]
      BY <1>2, <2>2, <2>5 DEF RunCommand
    <3>2. stdout' \in Seq(Lines)
      BY <2>3, <3>1, BodyKeepsOpen, BlockType, ConcatProperties
    <3>3. screen \in Nat
      BY ClientAssumption
    <3>4. ran' \in Histories
      BY <3>1, <3>3 DEF Histories
    <3> QED
      BY <1>2, <2>1, <3>1, <3>2, <3>4 DEF RunCommand, readerVars, eventVars, callVars
  <2> QED
    BY <2>4, <2>5
<1>3. CASE Produce
  <2>1. screen \in Nat /\ screen + 1 \in 0 .. Len(Outputs)
    BY <1>3, ClientAssumption DEF Produce
  <2>2. PICK style \in {"octal", "cstyle"} :
          stdout' = Append(stdout, OutputLine(Outputs[screen + 1], style))
    BY <1>3 DEF Produce
  <2>3. stdout' \in Seq(Lines)
    BY <1>3, <2>1, <2>2, OutputLineType, AppendProperties DEF Produce
  <2> QED
    BY <1>3, <2>1, <2>3 DEF Produce, readerVars, eventVars, callVars
<1>4. CASE TmuxExits
  <2>1. stdout' \in Seq(Lines)
    <3>1. Append(stdout, Line("exit", 0, <<>>)) \in Seq(Lines)
      BY LineType, AppendProperties
    <3> QED
      BY <1>4, <3>1 DEF TmuxExits
  <2>2. stdin' \in Seq(Cmds)
    BY <1>4, EmptySeq DEF TmuxExits
  <2> QED
    BY <1>4, <2>1, <2>2 DEF TmuxExits, readerVars, eventVars, callVars
<1> QED
  BY <1>1, <1>2, <1>3, <1>4 DEF Tmux

\* What a call does.
LEMMA CallerType ==
  ASSUME ClientTypeOK, NEW c \in Calls, Caller(c)
  PROVE  ClientTypeOK'
<1> USE DEF ClientTypeOK, TypeOK
<1>1. CallLen[c] \in Nat \ {0} /\ Commands(c) \in Seq(Cmds)
  BY CommandsOfCall
<1>2. CASE StartCall(c)
  <2>1. pending' \in Seq(Cmds)
    BY <1>1, <1>2, ConcatProperties DEF StartCall
  <2>2. \A i \in DOMAIN pending' : pending'[i].id \in Ids
    BY <2>1, QueueItem, LenProperties
  <2>3. writing' = {c} /\ Cardinality(writing') <= 1
    <3>1. writing' = {c}
      BY <1>2 DEF StartCall
    <3>2. Cardinality({c}) = 1
      BY FS_Singleton
    <3> QED
      BY <3>1, <3>2
  <2>4. state' \in [Calls -> {"idle", "writing", "waiting", "ok", "failed"}]
    BY <1>2 DEF StartCall, Becomes
  <2> QED
    BY <1>2, <2>1, <2>2, <2>3, <2>4 DEF StartCall, tmuxVars, pipeVars, readerVars, eventVars
<1>3. CASE WriteLine(c)
  <2>1. stdin' \in Seq(Cmds)
    BY <1>1, <1>3, ConcatProperties DEF WriteLine
  <2>2. writing' = {} /\ Cardinality(writing') <= 1
    BY <1>3, FS_EmptySet DEF WriteLine
  <2>3. state' \in [Calls -> {"idle", "writing", "waiting", "ok", "failed"}]
    BY <1>3 DEF WriteLine, Becomes
  <2> QED
    BY <1>3, <2>1, <2>2, <2>3 DEF WriteLine, tmuxVars, readerVars, eventVars
<1>4. CASE WriteFails(c)
  <2>1. pending' \in Seq(Cmds)
    <3>1. Len(pending) \in Nat
      OBVIOUS
    <3>2. 1 \in Int /\ Len(pending) - CallLen[c] \in Int /\ Len(pending) - CallLen[c] <= Len(pending)
      BY <1>1, <3>1
    <3>3. \A i \in 1 .. Len(pending) - CallLen[c] : pending[i] \in Cmds
      BY <3>1, <3>2, ElementOfSeq
    <3> QED
      BY <1>4, <3>2, <3>3, SubSeqProperties DEF WriteFails, PendingWithout
  <2>2. \A i \in DOMAIN pending' : pending'[i].id \in Ids
    BY <2>1, QueueItem, LenProperties
  <2>3. writing' = {} /\ Cardinality(writing') <= 1
    BY <1>4, FS_EmptySet DEF WriteFails
  <2>4. state' \in [Calls -> {"idle", "writing", "waiting", "ok", "failed"}]
    BY <1>4 DEF WriteFails, Becomes
  <2> QED
    BY <1>4, <2>1, <2>2, <2>3, <2>4 DEF WriteFails, tmuxVars, pipeVars, readerVars, eventVars
<1>5. CASE TakeReply(c)
  <2>1. <<c, await[c]>> \in Ids
    BY DEF Ids
  <2>2. slots' \in [Ids -> Seq(Replies)]
    BY <1>5, <2>1, EmptySeq DEF TakeReply, Replies
  <2>3. PICK r : r = Head(slots[<<c, await[c]>>])
    OBVIOUS
  <2>4. state' \in [Calls -> {"idle", "writing", "waiting", "ok", "failed"}]
    BY <1>5, <2>3 DEF TakeReply, Becomes
  <2>5. await' = await \/ (~LastReply(c) /\ await' = [await EXCEPT ![c] = @ + 1])
    BY <1>5, <2>3 DEF TakeReply
  <2>6. await' \in [Calls -> Nat] /\ \A d \in Calls : await'[d] \in 1 .. CallLen[d]
    <3>1. CASE await' = await
      BY <3>1
    <3>2. CASE ~LastReply(c) /\ await' = [await EXCEPT ![c] = @ + 1]
      <4>1. await[c] + 1 \in 1 .. CallLen[c] /\ await[c] + 1 \in Nat
        BY <1>1, <3>2 DEF LastReply
      <4> QED
        BY <3>2, <4>1
    <3> QED
      BY <2>5, <3>1, <3>2
  <2> QED
    BY <1>5, <2>2, <2>4, <2>6 DEF TakeReply, tmuxVars, pipeVars, readerVars, eventVars, Replies
<1>6. CASE CallStranded(c) \/ CallCancelled(c)
  <2>1. state' \in [Calls -> {"idle", "writing", "waiting", "ok", "failed"}]
    BY <1>6 DEF CallStranded, CallCancelled, LeavesWaiting, Becomes
  <2>2. UNCHANGED <<alive, guardSent, screen, skipping, ran, stdin, stdinOpen, stdout, writing, pending,
                    parse, seq, guardSeen, done, quit, evEnded, evClosed, await, slots>>
    BY <1>6 DEF CallStranded, CallCancelled, LeavesWaiting, tmuxVars, pipeVars, readerVars, eventVars
  <2> QED
    BY <2>1, <2>2 DEF Replies
<1> QED
  BY <1>2, <1>3, <1>4, <1>5, <1>6 DEF Caller

\* What a reply does to the queue.
LEMMA RouteType ==
  ASSUME ClientTypeOK, pending # <<>>, NEW r \in Replies, Route(r)
  PROVE  pending' \in Seq(Cmds) /\ slots' \in [Ids -> Seq(Replies)]
<1> USE DEF ClientTypeOK, TypeOK
<1>1. pending' \in Seq(Cmds)
  <2>1. CASE r.err
    <3>1. PICK m \in 1 .. Len(pending) : 2 + Cardinality(Purged) = m + 1
      BY PurgedIsPrefix
    <3>2. Len(pending) \in Nat /\ m + 1 \in Int /\ m + 1 >= 1
      OBVIOUS
    <3>3. \A i \in m + 1 .. Len(pending) : pending[i] \in Cmds
      BY <3>2, ElementOfSeq
    <3>4. pending' = SubSeq(pending, m + 1, Len(pending))
      BY <2>1, <3>1 DEF Route, PendingAfterError
    <3> QED
      BY <3>2, <3>3, <3>4, SubSeqProperties
  <2>2. CASE ~r.err
    BY <2>2, HeadTailProperties DEF Route
  <2> QED
    BY <2>1, <2>2
<1>2. AbortReply \in Replies
  BY EmptySeq DEF AbortReply, Replies
<1>3. <<r>> \in Seq(Replies) /\ <<AbortReply>> \in Seq(Replies)
  BY <1>2
<1>4. slots' \in [Ids -> Seq(Replies)]
  BY <1>3 DEF Route, Replies
<1> QED
  BY <1>1, <1>4

\* A line that closes no block changes nothing but the parser; one that does
\* completes a reply.
LEMMA ReadCases ==
  ASSUME ClientTypeOK, ReadLine
  PROVE  /\ Head(stdout) \in Lines /\ Tail(stdout) \in Seq(Lines) /\ stdout # <<>>
         /\ parse' \in Parses /\ parse' = feed(parse, Head(stdout)).p
         /\ \/ /\ ~(parse.inReply /\ Closes(parse, Head(stdout)))
               /\ UNCHANGED <<guardSeen, pending, slots>>
            \/ /\ parse.inReply /\ Closes(parse, Head(stdout))
               /\ \E r \in Replies : /\ completeReply(r) /\ r.lines = parse.body /\ r.seq = seq + 1
                                     /\ r.err <=> Head(stdout).word = "error"
<1>1. Head(stdout) \in Lines /\ Tail(stdout) \in Seq(Lines) /\ stdout # <<>>
  BY HeadTailProperties DEF ReadLine, ClientTypeOK
<1>2. PICK fed : fed = feed(parse, Head(stdout))
  OBVIOUS
<1>3. fed.p \in Parses /\ parse' = fed.p
  BY <1>1, <1>2, FeedType DEF ReadLine, ClientTypeOK
<1>4. CASE parse.inReply /\ Closes(parse, Head(stdout))
  <2>1. /\ fed.replies # <<>>
        /\ Head(fed.replies) = [lines |-> parse.body, err |-> Head(stdout).word = "error"]
    BY <1>2, <1>4, FeedCloses
  <2>2. PICK r : r = [lines |-> parse.body, err |-> Head(stdout).word = "error", seq |-> NextSeq]
    OBVIOUS
  <2>3. r \in Replies
    BY <2>2 DEF Parses, Replies, NextSeq, ClientTypeOK, TypeOK
  <2>4. completeReply(r)
    BY <1>2, <2>1, <2>2 DEF ReadLine
  <2>5. r.lines = parse.body /\ r.seq = seq + 1
    BY <2>2 DEF NextSeq
  <2>6. r.err <=> Head(stdout).word = "error"
    BY <2>2
  <2> QED
    BY <1>1, <1>2, <1>3, <1>4, <2>3, <2>4, <2>5, <2>6
<1>5. CASE ~(parse.inReply /\ Closes(parse, Head(stdout)))
  <2>1. fed.replies = <<>>
    <3>1. PICK body : body = Append(parse.body, Head(stdout))
      OBVIOUS
    <3>2. CASE parse.inReply
      BY <1>2, <1>5, <3>1, <3>2, FeedBody
    <3>3. CASE ~parse.inReply
      BY <1>2, <3>3, FeedOutside
    <3> QED
      BY <3>2, <3>3
  <2>2. UNCHANGED <<guardSeen, pending, slots>>
    BY <1>2, <2>1 DEF ReadLine
  <2> QED
    BY <1>1, <1>2, <1>3, <1>5, <2>2
<1> QED
  BY <1>4, <1>5

\* A line is one step of the stream, and an output event or none.
LEMMA ReadEvents ==
  ASSUME ClientTypeOK, ReadLine
  PROVE  /\ seq' = seq + 1
         /\ IF ~parse.inReply /\ Head(stdout).word \in {"output", "extended"}
            THEN outs' = Append(outs, [seq |-> seq + 1, data |-> Event(Head(stdout)).data])
            ELSE outs' = outs
<1>1. PICK fed : fed = feed(parse, Head(stdout))
  OBVIOUS
<1>2. PICK ev : ev = Event(Head(stdout))
  OBVIOUS
<1>3. IF fed.events = <<>> THEN UNCHANGED <<evQueue, outs>> ELSE enqueueEvent(Head(fed.events))
  BY <1>1 DEF ReadLine
<1>4. seq' = seq + 1
  BY DEF ReadLine, NextSeq
<1>5. CASE ~parse.inReply /\ Head(stdout).word \in {"output", "extended"}
  <2>1. fed.events = <<ev>> /\ ev.kind = "output"
    BY <1>1, <1>2, <1>5, FeedEvents
  <2>2. fed.events # <<>> /\ Head(fed.events) = ev
    BY <2>1
  <2>3. outs' = Append(outs, [seq |-> seq + 1, data |-> ev.data])
    BY <1>3, <2>1, <2>2 DEF enqueueEvent, NextSeq
  <2> QED
    BY <1>2, <1>4, <1>5, <2>3
<1>6. CASE ~(~parse.inReply /\ Head(stdout).word \in {"output", "extended"})
  <2>1. fed.events = <<>> \/ (fed.events = <<ev>> /\ ev.kind # "output")
    BY <1>1, <1>2, <1>6, FeedEvents
  <2>2. CASE fed.events = <<>>
    BY <1>3, <1>4, <1>6, <2>2
  <2>3. CASE fed.events = <<ev>> /\ ev.kind # "output"
    <3>1. fed.events # <<>> /\ Head(fed.events) = ev
      BY <2>3
    <3>2. outs' = outs
      BY <1>3, <2>3, <3>1 DEF enqueueEvent
    <3> QED
      BY <1>4, <1>6, <3>2
  <2> QED
    BY <2>1, <2>2, <2>3
<1> QED
  BY <1>5, <1>6

\* What the reader, the pump, the watcher and Close do.
LEMMA ReaderType ==
  ASSUME ClientTypeOK, Reader \/ Close \/ Deliver \/ PumpCloses \/ UNCHANGED vars
  PROVE  ClientTypeOK'
<1> USE DEF ClientTypeOK, TypeOK
<1>1. CASE ReadLine
  <2>1. Head(stdout) \in Lines /\ Tail(stdout) \in Seq(Lines)
    BY <1>1, ReadCases
  <2>3. parse' \in Parses
    BY <1>1, ReadCases
  <2>4. /\ guardSeen' \in BOOLEAN /\ pending' \in Seq(Cmds)
        /\ slots' \in [Ids -> Seq(Replies)]
    <3>1. CASE UNCHANGED <<guardSeen, pending, slots>>
      BY <3>1 DEF Replies
    <3>2. CASE \E r \in Replies : completeReply(r)
      <4>1. PICK r \in Replies : completeReply(r)
        BY <3>2
      <4>2. CASE guardSeen /\ pending # <<>>
        BY <4>1, <4>2, RouteType DEF completeReply
      <4>3. CASE ~(guardSeen /\ pending # <<>>)
        BY <4>1, <4>3 DEF completeReply, Replies
      <4> QED
        BY <4>2, <4>3
    <3> QED
      BY <1>1, <3>1, <3>2, ReadCases
  <2>5. \A i \in DOMAIN pending' : pending'[i].id \in Ids
    BY <2>4, QueueItem, LenProperties
  <2>6. seq' \in Nat
    BY <1>1 DEF ReadLine, NextSeq
  <2> QED
    BY <1>1, <2>1, <2>3, <2>4, <2>5, <2>6 DEF ReadLine, tmuxVars, callVars, Replies
<1>2. CASE ReadEnd
  BY <1>2 DEF ReadEnd, EndEvents, tmuxVars, pipeVars, callVars
<1>3. CASE Close
  BY <1>3 DEF Close, tmuxVars, readerVars, callVars
<1>4. CASE Deliver
  BY <1>4 DEF Deliver, tmuxVars, pipeVars, readerVars, callVars
<1>5. CASE PumpCloses
  BY <1>5 DEF PumpCloses, tmuxVars, pipeVars, readerVars, callVars
<1>6. CASE UNCHANGED vars
  BY <1>6 DEF vars, tmuxVars, pipeVars, readerVars, eventVars, callVars
<1> QED
  BY <1>1, <1>2, <1>3, <1>4, <1>5, <1>6 DEF Reader

-----------------------------------------------------------------------------
(***************************************************************************)
(* Numbers.                                                                *)
(***************************************************************************)
\* Every number is at most the last one.
LEMMA NumberBounds ==
  ASSUME ClientTypeOK, Numbered
  PROVE  /\ NextNum \in Nat /\ NextNum >= 2 /\ NextNum = 2 + Cardinality(RunIds)
         /\ LastNum \in Nat /\ (guardSent => LastNum = NextNum - 1) /\ (~guardSent => LastNum = 0)
         /\ \A id \in Ids : ran[id].num \in Nat /\ ran[id].num <= LastNum
<1>1. NextNum = 2 + Cardinality(RunIds)
  BY DEF NextNum, RunIds, HasRun
<1>2. Cardinality(RunIds) \in Nat
  BY FS_CardinalityType DEF Numbered
<1>3. LastNum \in Nat /\ (guardSent => LastNum = NextNum - 1) /\ (~guardSent => LastNum = 0)
  BY <1>1, <1>2 DEF LastNum
<1>4. ASSUME NEW id \in Ids
      PROVE  ran[id].num \in Nat /\ ran[id].num <= LastNum
  <2>1. ran[id].num \in Nat
    BY DEF ClientTypeOK, Histories
  <2>2. CASE id \in RunIds
    BY <1>3, <2>1, <2>2 DEF Numbered
  <2>3. CASE id \notin RunIds
    BY <1>3, <2>1, <2>3 DEF RunIds, HasRun
  <2> QED
    BY <2>1, <2>2, <2>3
<1> QED
  BY <1>1, <1>2, <1>3, <1>4

\* A command that runs takes the next number.
LEMMA NumberNext ==
  ASSUME ClientTypeOK, Numbered, guardSent, guardSent', NEW target \in Ids, ~HasRun(ran, target),
         NEW entry, entry.num = NextNum, ran' = [ran EXCEPT ![target] = entry]
  PROVE  Numbered' /\ LastNum' = NextNum /\ RunIds' = RunIds \cup {target}
<1>1. /\ ran'[target] = entry /\ \A id \in Ids : id # target => ran'[id] = ran[id]
  BY DEF ClientTypeOK, Histories
<1>2. NextNum \in Nat /\ NextNum >= 2 /\ LastNum = NextNum - 1
      /\ \A id \in Ids : ran[id].num \in Nat /\ ran[id].num <= LastNum
  BY NumberBounds
<1>3. \A id \in Ids : id \in RunIds' <=> id \in RunIds \/ id = target
  BY <1>1, <1>2 DEF RunIds, HasRun
<1>4. RunIds' = RunIds \cup {target} /\ target \notin RunIds
  BY <1>3 DEF RunIds
<1>5. /\ IsFiniteSet(RunIds') /\ Cardinality(RunIds') = Cardinality(RunIds) + 1
  BY <1>4, FS_AddElement DEF Numbered
<1>6. NextNum' = 2 + Cardinality(RunIds')
  BY DEF NextNum, RunIds, HasRun
<1>7. NextNum = 2 + Cardinality(RunIds) /\ Cardinality(RunIds) \in Nat
  BY NumberBounds, FS_CardinalityType DEF Numbered
<1>8. LastNum' = NextNum
  BY <1>5, <1>6, <1>7 DEF LastNum
<1>9. ASSUME NEW id \in RunIds'
      PROVE  ran'[id].num \in 2 .. LastNum'
  <2>1. CASE id = target
    BY <1>1, <1>2, <1>8, <2>1
  <2>2. CASE id # target
    <3>1. id \in RunIds /\ id \in Ids
      BY <1>4, <2>2 DEF RunIds
    <3>2. ran'[id] = ran[id] /\ ran[id].num \in 2 .. LastNum
      BY <1>1, <2>2, <3>1 DEF Numbered
    <3> QED
      BY <1>2, <1>8, <3>2
  <2> QED
    BY <2>1, <2>2
<1>10. ASSUME NEW id \in RunIds', NEW other \in RunIds', ran'[id].num = ran'[other].num
       PROVE  id = other
  <2>1. id \in Ids /\ other \in Ids
    BY <1>10 DEF RunIds
  <2>2. \A x \in RunIds' : x # target => x \in RunIds /\ ran'[x] = ran[x] /\ ran'[x].num <= LastNum
    BY <1>1, <1>2, <1>4 DEF RunIds
  <2>3. ran'[target].num = NextNum /\ ~(NextNum <= LastNum)
    BY <1>1, <1>2
  <2> QED
    BY <1>10, <2>2, <2>3 DEF Numbered
<1> QED
  BY <1>4, <1>5, <1>8, <1>9, <1>10 DEF Numbered

\* The guard is the first block.
LEMMA NumberGuard ==
  ASSUME ClientTypeOK, Numbered, SendGuard
  PROVE  Numbered' /\ LastNum = 0 /\ LastNum' = 1 /\ RunIds = {} /\ RunIds' = {}
<1>1. RunIds = {} /\ RunIds' = RunIds /\ LastNum = 0
  BY NumberBounds DEF Numbered, SendGuard, RunIds
<1>2. Cardinality(RunIds') = 0
  BY <1>1, FS_EmptySet
<1>3. NextNum' = 2 + Cardinality(RunIds')
  BY DEF NextNum, RunIds, HasRun
<1>4. LastNum' = 1
  BY <1>2, <1>3 DEF LastNum, SendGuard
<1> QED
  BY <1>1, <1>4 DEF Numbered

\* Nothing else is numbered.
LEMMA NumberKept ==
  ASSUME UNCHANGED <<ran, guardSent>>
  PROVE  /\ Numbered => Numbered'
         /\ LastNum' = LastNum /\ RunIds' = RunIds
<1>1. RunIds' = RunIds
  BY DEF RunIds
<1>2. LastNum' = LastNum
  BY DEF LastNum, NextNum
<1> QED
  BY <1>1, <1>2 DEF Numbered

-----------------------------------------------------------------------------
(***************************************************************************)
(* The queue and the pipe.                                                 *)
(***************************************************************************)
\* The claim is that of the call that writes.
LEMMA ClaimOf ==
  ASSUME ClientTypeOK
  PROVE  /\ writing = {} => Claim = <<>>
         /\ \A c \in writing : c \in Calls /\ writing = {c} /\ Claim = Commands(c)
         /\ Claim \in Seq(Cmds) /\ Len(Claim) \in Nat
<1>1. writing = {} => Claim = <<>>
  BY DEF Claim
<1>2. ASSUME NEW c \in writing
      PROVE  c \in Calls /\ writing = {c} /\ Claim = Commands(c)
  <2>1. c \in Calls /\ writing = {c}
    BY DEF ClientTypeOK, TypeOK
  <2>2. PICK d : d = CHOOSE e \in writing : TRUE
    OBVIOUS
  <2>3. d = c
    BY <2>1, <2>2
  <2> QED
    BY <2>1, <2>2, <2>3 DEF Claim
<1>3. Claim \in Seq(Cmds) /\ Len(Claim) \in Nat
  <2>1. CASE writing = {}
    BY <1>1, <2>1, EmptySeq
  <2>2. CASE writing # {}
    <3>1. PICK c \in writing : c \in Calls /\ Claim = Commands(c)
      BY <1>2, <2>2
    <3> QED
      BY <3>1, CommandsOfCall
  <2> QED
    BY <2>1, <2>2
<1> QED
  BY <1>1, <1>2, <1>3

\* Where the parts of the queue begin.
LEMMA QueueParts ==
  ASSUME ClientTypeOK, Claimed
  PROVE  /\ Len(pending) \in Nat /\ Len(stdin) \in Nat /\ Sent \in Nat /\ Offset \in Int
         /\ Len(pending) = Sent + Len(Claim) /\ Sent <= Len(pending) /\ Sent = Offset + Len(stdin)
         /\ \A i \in 1 .. Len(pending) : i > Sent => ~HasRun(ran, pending[i].id)
<1>1. Len(pending) \in Nat /\ Len(stdin) \in Nat /\ Len(Claim) \in Nat
  BY ClaimOf DEF ClientTypeOK
<1>2. Sent \in Nat /\ Offset \in Int /\ Len(pending) = Sent + Len(Claim) /\ Sent = Offset + Len(stdin)
  BY <1>1 DEF Sent, Offset, Claimed
<1>3. ASSUME NEW i \in 1 .. Len(pending), i > Sent
      PROVE  ~HasRun(ran, pending[i].id)
  <2>1. i - Sent \in 1 .. Len(Claim) /\ Sent + (i - Sent) = i
    BY <1>1, <1>2, <1>3
  <2> QED
    BY <2>1 DEF Claimed
<1> QED
  BY <1>1, <1>2, <1>3

\* The command tmux is to run is in the queue, after what is dealt with and
\* before what is not.
LEMMA NextCommand ==
  ASSUME ClientTypeOK, Queued, alive, stdin # <<>>, ~(Head(stdin).cont /\ skipping)
  PROVE  /\ Offset + 1 \in 1 .. Sent /\ Offset + 1 \in 1 .. Len(pending)
         /\ pending[Offset + 1] = Head(stdin)
         /\ ~HasRun(ran, pending[Offset + 1].id) /\ ~Aborted(ran, pending, Offset + 1)
         /\ \A i \in 1 .. (Offset + 1) - 1 : HasRun(ran, pending[i].id) \/ Aborted(ran, pending, i)
         /\ \A i \in (Offset + 1) + 1 .. Len(pending) : ~HasRun(ran, pending[i].id)
         /\ \A i \in Offset + 1 .. Sent : pending[i] = stdin[i - Offset]
<1>1. Claimed /\ InputQueued /\ SkipsAborted
  BY DEF Queued
<1>2. /\ Len(pending) \in Nat /\ Len(stdin) \in Nat /\ Sent \in Nat /\ Offset \in Int
      /\ Sent <= Len(pending) /\ Sent = Offset + Len(stdin)
      /\ \A i \in 1 .. Len(pending) : i > Sent => ~HasRun(ran, pending[i].id)
  BY <1>1, QueueParts
<1>3. Len(stdin) >= 1 /\ Head(stdin) = stdin[1]
  BY EmptySeq DEF ClientTypeOK
<1>4. \A j \in 1 .. Len(stdin) : ~Skipped(skipping, stdin, j)
  BY <1>2, <1>3 DEF Skipped
<1>5. \A j \in 1 .. Len(stdin) :
        Offset + j >= 1 /\ pending[Offset + j] = stdin[j] /\ ~HasRun(ran, stdin[j].id)
  BY <1>1, <1>4 DEF InputQueued
<1>6. Offset + 1 \in 1 .. Sent /\ Offset + 1 \in 1 .. Len(pending) /\ (Offset + 1) - Offset = 1
      /\ 1 \in 1 .. Len(stdin)
  BY <1>2, <1>3, <1>5
<1>7. pending[Offset + 1] = Head(stdin) /\ ~HasRun(ran, pending[Offset + 1].id)
  BY <1>3, <1>5, <1>6
<1>8. ~Aborted(ran, pending, Offset + 1)
  <2>1. Offset + 1 > Offset /\ ~Skipped(skipping, stdin, (Offset + 1) - Offset)
    BY <1>2, <1>4, <1>6
  <2> QED
    BY <1>1, <1>6, <2>1 DEF SkipsAborted
<1>9. ASSUME NEW i \in 1 .. (Offset + 1) - 1
      PROVE  HasRun(ran, pending[i].id) \/ Aborted(ran, pending, i)
  <2>1. i \in 1 .. Sent /\ ~(i > Offset)
    BY <1>2
  <2> QED
    BY <1>1, <2>1 DEF SkipsAborted
<1>10. ASSUME NEW i \in Offset + 1 .. Sent
       PROVE  pending[i] = stdin[i - Offset] /\ ~HasRun(ran, pending[i].id)
  <2>1. i - Offset \in 1 .. Len(stdin) /\ Offset + (i - Offset) = i
    BY <1>2
  <2> QED
    BY <1>5, <2>1
<1>11. ASSUME NEW i \in (Offset + 1) + 1 .. Len(pending)
       PROVE  ~HasRun(ran, pending[i].id)
  <2>1. CASE i > Sent
    <3>1. i \in 1 .. Len(pending)
      BY <1>2, <2>1
    <3> QED
      BY <1>2, <2>1, <3>1
  <2>2. CASE ~(i > Sent)
    <3>1. i \in Offset + 1 .. Sent
      BY <1>2, <2>2
    <3> QED
      BY <1>10, <3>1
  <2> QED
    BY <2>1, <2>2
<1> QED
  BY <1>6, <1>7, <1>8, <1>9, <1>10, <1>11

\* Nothing that moves the queue.
LEMMA QueuedKept ==
  ASSUME Queued, UNCHANGED <<ran, pending, writing, stdin, skipping>>, alive' => alive
  PROVE  Queued'
<1>1. Claim' = Claim
  BY DEF Claim
<1>2. Sent' = Sent /\ Offset' = Offset
  BY <1>1 DEF Sent, Offset
<1>3. Claimed'
  BY <1>1, <1>2 DEF Queued, Claimed
<1>4. Distinct(pending)' /\ InOrder(ran, pending)'
  BY DEF Queued
<1>5. alive' => InputQueued' /\ SkipsAborted'
  <2>1. InputQueued => InputQueued'
    BY <1>2 DEF InputQueued
  <2>2. SkipsAborted => SkipsAborted'
    BY <1>2 DEF SkipsAborted
  <2> QED
    BY <2>1, <2>2 DEF Queued
<1> QED
  BY <1>3, <1>4, <1>5 DEF Queued

\* Tmux takes the head of its input.
LEMMA InputTaken ==
  ASSUME ClientTypeOK, Claimed, stdin # <<>>, stdin' = Tail(stdin), UNCHANGED <<pending, writing>>
  PROVE  /\ Claim' = Claim /\ Sent' = Sent /\ Offset' = Offset + 1
         /\ Len(stdin)' = Len(stdin) - 1 /\ Len(stdin) >= 1 /\ Head(stdin) = stdin[1]
         /\ \A j \in 1 .. Len(stdin) - 1 : stdin'[j] = stdin[j + 1]
<1>1. Claim' = Claim
  BY DEF Claim
<1>2. Sent' = Sent
  BY <1>1 DEF Sent
<1>3. Len(stdin)' = Len(stdin) - 1 /\ Len(stdin) \in Nat /\ Len(stdin) >= 1 /\ Head(stdin) = stdin[1]
      /\ \A j \in 1 .. Len(stdin) - 1 : stdin'[j] = stdin[j + 1]
  BY HeadTailProperties, EmptySeq DEF ClientTypeOK
<1>4. Offset' = Offset + 1
  BY <1>2, <1>3, QueueParts DEF Offset
<1> QED
  BY <1>1, <1>2, <1>3, <1>4

\* A skipped command is an aborted slot, or is not queued any more.
LEMMA QueuedSkips ==
  ASSUME ClientTypeOK, Queued, RunCommand, Head(stdin).cont /\ skipping
  PROVE  Queued'
<1>1. /\ stdin' = Tail(stdin) /\ stdin # <<>> /\ alive
      /\ UNCHANGED <<ran, pending, writing, skipping, alive>>
  BY DEF RunCommand
<1>2. Claimed /\ InputQueued /\ SkipsAborted
  BY <1>1 DEF Queued
<1>3. /\ Claim' = Claim /\ Sent' = Sent /\ Offset' = Offset + 1
      /\ Len(stdin)' = Len(stdin) - 1 /\ Len(stdin) >= 1 /\ Head(stdin) = stdin[1]
      /\ \A j \in 1 .. Len(stdin) - 1 : stdin'[j] = stdin[j + 1]
  BY <1>1, <1>2, InputTaken
<1>4. Len(stdin) \in Nat /\ Offset \in Int /\ Sent = Offset + Len(stdin)
  BY <1>2, QueueParts
<1>5. ASSUME NEW j \in 1 .. Len(stdin) - 1
      PROVE  Skipped(skipping, stdin', j) <=> Skipped(skipping, stdin, j + 1)
  <2>1. ASSUME Skipped(skipping, stdin', j), NEW l \in 1 .. j + 1
        PROVE  stdin[l].cont
    <3>1. CASE l = 1
      BY <1>3, <3>1
    <3>2. CASE l # 1
      <4>1. l - 1 \in 1 .. j /\ l - 1 \in 1 .. Len(stdin) - 1 /\ (l - 1) + 1 = l
        BY <1>4, <3>2
      <4> QED
        BY <1>3, <2>1, <4>1 DEF Skipped
    <3> QED
      BY <3>1, <3>2
  <2>2. ASSUME Skipped(skipping, stdin, j + 1), NEW l \in 1 .. j
        PROVE  stdin'[l].cont
    <3>1. l \in 1 .. Len(stdin) - 1 /\ l + 1 \in 1 .. j + 1
      BY <1>4
    <3> QED
      BY <1>3, <2>2, <3>1 DEF Skipped
  <2> QED
    BY <2>1, <2>2 DEF Skipped
<1>6. Claimed'
  <2>1. Sent' >= 0
    BY <1>2, <1>3 DEF Claimed
  <2>2. \A j \in 1 .. Len(Claim') :
          pending'[Sent' + j] = Claim'[j] /\ ~HasRun(ran', pending'[Sent' + j].id)
    BY <1>1, <1>2, <1>3 DEF Claimed
  <2> QED
    BY <2>1, <2>2 DEF Claimed
<1>7. Distinct(pending') /\ InOrder(ran', pending')
  BY <1>1 DEF Queued
<1>8. InputQueued'
  <2> SUFFICES ASSUME NEW j \in 1 .. Len(stdin)'
               PROVE  \/ Skipped(skipping', stdin', j)
                      \/ Offset' + j >= 1 /\ pending'[Offset' + j] = stdin'[j] /\ ~HasRun(ran', stdin'[j].id)
    BY DEF InputQueued
  <2>1. j \in 1 .. Len(stdin) - 1 /\ j + 1 \in 1 .. Len(stdin) /\ Offset' + j = Offset + (j + 1)
    BY <1>3, <1>4
  <2>2. stdin'[j] = stdin[j + 1] /\ (Skipped(skipping, stdin', j) <=> Skipped(skipping, stdin, j + 1))
    BY <1>3, <1>5, <2>1
  <2> QED
    BY <1>1, <1>2, <2>1, <2>2 DEF InputQueued
<1>9. SkipsAborted'
  <2> SUFFICES ASSUME NEW i \in 1 .. Sent'
               PROVE  IF i > Offset' /\ ~Skipped(skipping', stdin', i - Offset')
                      THEN ~Aborted(ran', pending', i)
                      ELSE HasRun(ran', pending'[i].id) \/ Aborted(ran', pending', i)
    BY DEF SkipsAborted
  <2>1. i \in 1 .. Sent /\ i \in Nat
    BY <1>3
  <2>2. IF i > Offset /\ ~Skipped(skipping, stdin, i - Offset)
        THEN ~Aborted(ran, pending, i)
        ELSE HasRun(ran, pending[i].id) \/ Aborted(ran, pending, i)
    BY <1>2, <2>1 DEF SkipsAborted
  <2>3. i > Offset' /\ ~Skipped(skipping', stdin', i - Offset') <=>
        i > Offset /\ ~Skipped(skipping, stdin, i - Offset)
    <3>1. CASE i > Offset + 1
      <4>1. PICK j : j = i - Offset'
        OBVIOUS
      <4>2. j \in 1 .. Len(stdin) - 1 /\ j + 1 = i - Offset /\ i > Offset' /\ i > Offset
        BY <1>3, <1>4, <2>1, <3>1, <4>1
      <4>3. Skipped(skipping', stdin', j) <=> Skipped(skipping, stdin, j + 1)
        BY <1>1, <1>5, <4>2
      <4> QED
        BY <4>1, <4>2, <4>3
    <3>2. CASE i = Offset + 1
      <4>1. i - Offset = 1 /\ ~(i > Offset')
        BY <1>3, <1>4, <3>2
      <4>2. Skipped(skipping, stdin, 1)
        BY <1>3 DEF Skipped
      <4> QED
        BY <4>1, <4>2
    <3>3. CASE i < Offset + 1
      <4>1. ~(i > Offset') /\ ~(i > Offset)
        BY <1>3, <1>4, <2>1, <3>3
      <4> QED
        BY <4>1
    <3>4. i > Offset + 1 \/ i = Offset + 1 \/ i < Offset + 1
      BY <1>4, <2>1
    <3> QED
      BY <3>1, <3>2, <3>3, <3>4
  <2> QED
    BY <1>1, <2>2, <2>3
<1> QED
  BY <1>6, <1>7, <1>8, <1>9 DEF Queued

\* A command that runs is dealt with; its error aborts what tmux then skips.
LEMMA QueuedRuns ==
  ASSUME ClientTypeOK, Numbered, Queued, RunCommand, ~(Head(stdin).cont /\ skipping)
  PROVE  Queued'
<1>1. /\ stdin' = Tail(stdin) /\ stdin # <<>> /\ alive /\ guardSent
      /\ UNCHANGED <<pending, writing, alive>>
  BY DEF RunCommand
<1>2. PICK err \in BOOLEAN :
        /\ skipping' = err
        /\ ran' = [ran EXCEPT ![Head(stdin).id] = [num |-> NextNum, ok |-> ~err, n |-> screen]]
  BY DEF RunCommand
<1>3. Claimed /\ InputQueued /\ SkipsAborted
  BY <1>1 DEF Queued
<1>4. /\ Claim' = Claim /\ Sent' = Sent /\ Offset' = Offset + 1
      /\ Len(stdin)' = Len(stdin) - 1 /\ Len(stdin) >= 1 /\ Head(stdin) = stdin[1]
      /\ \A j \in 1 .. Len(stdin) - 1 : stdin'[j] = stdin[j + 1]
  BY <1>1, <1>3, InputTaken
<1>5. /\ Len(pending) \in Nat /\ Len(stdin) \in Nat /\ Sent \in Nat /\ Offset \in Int
      /\ Sent <= Len(pending) /\ Sent = Offset + Len(stdin)
  BY <1>3, QueueParts
<1>6. PICK p \in 1 .. Len(pending) : p = Offset + 1
  BY <1>1, NextCommand
<1>7. /\ p \in 1 .. Sent /\ pending[p] = Head(stdin)
      /\ ~HasRun(ran, pending[p].id) /\ ~Aborted(ran, pending, p)
      /\ \A i \in 1 .. p - 1 : HasRun(ran, pending[i].id) \/ Aborted(ran, pending, i)
      /\ \A i \in p + 1 .. Len(pending) : ~HasRun(ran, pending[i].id)
      /\ \A i \in p .. Sent : pending[i] = stdin[i - Offset]
  BY <1>1, <1>6, NextCommand
<1>8. PICK entry \in [num: Nat, ok: BOOLEAN, n: Nat] :
        entry.num = NextNum /\ (entry.ok <=> ~err) /\ ran' = [ran EXCEPT ![pending[p].id] = entry]
  <2>1. screen \in Nat /\ NextNum \in Nat
    <3>1. screen \in 0 .. Len(Outputs) /\ Len(Outputs) \in Nat
      BY ClientAssumption DEF ClientTypeOK, TypeOK
    <3> QED
      BY <3>1, NumberBounds
  <2>2. PICK ok \in BOOLEAN : ok <=> ~err
    OBVIOUS
  <2>3. ran' = [ran EXCEPT ![pending[p].id] = [num |-> NextNum, ok |-> ok, n |-> screen]]
    BY <1>2, <1>7, <2>2
  <2>4. PICK entry : entry = [num |-> NextNum, ok |-> ok, n |-> screen]
    OBVIOUS
  <2>5. entry \in [num: Nat, ok: BOOLEAN, n: Nat] /\ entry.num = NextNum /\ entry.ok = ok
    BY <2>1, <2>4
  <2> QED
    BY <2>2, <2>3, <2>4, <2>5
<1>9. /\ InOrder(ran', pending)
      /\ \A i \in 1 .. Len(pending) : Aborted(ran', pending, i) <=>
           \/ Aborted(ran, pending, i)
           \/ err /\ i > p /\ \A j \in p + 1 .. i : pending[j].cont
  <2>1. entry.num > 0 /\ \A id \in Ids : ran[id].num < entry.num
    BY <1>1, <1>8, NumberBounds
  <2>2. ran \in Histories /\ pending \in Seq(Cmds) /\ Distinct(pending) /\ InOrder(ran, pending)
    BY DEF ClientTypeOK, Queued
  <2>3. /\ InOrder(ran', pending)
        /\ \A i \in 1 .. Len(pending) : Aborted(ran', pending, i) <=>
             \/ Aborted(ran, pending, i)
             \/ ~entry.ok /\ i > p /\ \A j \in p + 1 .. i : pending[j].cont
    BY <1>7, <1>8, <2>1, <2>2, RunsNext
  <2> QED
    BY <1>8, <2>3
<1>10. \A i \in 1 .. Len(pending) : i # p => (HasRun(ran', pending[i].id) <=> HasRun(ran, pending[i].id))
  <2>1. \A i \in 1 .. Len(pending) : pending[i].id \in Ids
    BY QueueItem DEF ClientTypeOK
  <2>2. \A i \in 1 .. Len(pending) : i # p => pending[i].id # pending[p].id
    BY DEF Queued, Distinct
  <2> QED
    BY <1>8, <2>1, <2>2 DEF HasRun, ClientTypeOK, Histories
<1>11. HasRun(ran', pending[p].id)
  <2>1. pending[p].id \in Ids
    BY QueueItem DEF ClientTypeOK
  <2>2. entry.num > 0
    BY <1>8, NumberBounds
  <2> QED
    BY <1>8, <2>1, <2>2 DEF HasRun, ClientTypeOK, Histories
<1>12. Claimed'
  <2>1. ASSUME NEW j \in 1 .. Len(Claim')
        PROVE  pending'[Sent' + j] = Claim'[j] /\ ~HasRun(ran', pending'[Sent' + j].id)
    <3>1. pending[Sent + j] = Claim[j] /\ ~HasRun(ran, pending[Sent + j].id)
      BY <1>3, <1>4 DEF Claimed
    <3>2. Sent + j \in 1 .. Len(pending) /\ Sent + j # p
      BY <1>3, <1>4, <1>5, <1>7, QueueParts, ClaimOf
    <3> QED
      BY <1>1, <1>4, <1>10, <3>1, <3>2
  <2>2. Sent' >= 0
    BY <1>4, <1>5
  <2> QED
    BY <2>1, <2>2 DEF Claimed
<1>13. ASSUME NEW j \in 1 .. Len(stdin)'
       PROVE  /\ Offset' + j \in p + 1 .. Sent /\ Offset' + j \in 1 .. Len(pending)
              /\ pending[Offset' + j] = stdin'[j] /\ ~HasRun(ran', pending[Offset' + j].id)
  <2>1. j \in 1 .. Len(stdin) - 1 /\ Offset' + j = Offset + (j + 1) /\ Offset + (j + 1) \in p + 1 .. Sent
        /\ (Offset + (j + 1)) - Offset = j + 1
    BY <1>4, <1>5, <1>6
  <2>2. Offset' + j \in 1 .. Len(pending) /\ Offset' + j # p /\ Offset' + j \in p + 1 .. Len(pending)
        /\ Offset' + j \in p .. Sent
    BY <1>5, <2>1
  <2>3. pending[Offset' + j] = stdin[j + 1]
    BY <1>7, <2>1, <2>2
  <2>4. ~HasRun(ran', pending[Offset' + j].id)
    BY <1>7, <1>10, <2>2
  <2> QED
    BY <1>4, <2>1, <2>2, <2>3, <2>4
<1>14. InputQueued'
  <2> SUFFICES ASSUME NEW j \in 1 .. Len(stdin)'
               PROVE  Offset' + j >= 1 /\ pending'[Offset' + j] = stdin'[j] /\ ~HasRun(ran', stdin'[j].id)
    BY DEF InputQueued
  <2>1. Offset' + j >= 1
    BY <1>13
  <2> QED
    BY <1>1, <1>13, <2>1
<1>15. SkipsAborted'
  <2> SUFFICES ASSUME NEW i \in 1 .. Sent'
               PROVE  IF i > Offset' /\ ~Skipped(skipping', stdin', i - Offset')
                      THEN ~Aborted(ran', pending', i)
                      ELSE HasRun(ran', pending'[i].id) \/ Aborted(ran', pending', i)
    BY DEF SkipsAborted
  <2>1. i \in 1 .. Sent /\ i \in 1 .. Len(pending) /\ i \in Nat
    BY <1>4, <1>5
  <2>2. CASE i <= p
    <3>1. ~(i > Offset')
      BY <1>4, <1>5, <1>6, <2>1, <2>2
    <3>2. HasRun(ran', pending[i].id) \/ Aborted(ran', pending, i)
      <4>1. CASE i = p
        BY <1>11, <4>1
      <4>2. CASE i # p
        <5>1. i \in 1 .. p - 1
          BY <2>1, <2>2, <4>2
        <5>2. HasRun(ran, pending[i].id) \/ Aborted(ran, pending, i)
          BY <1>7, <5>1
        <5> QED
          BY <1>9, <1>10, <2>1, <4>2, <5>2
      <4> QED
        BY <4>1, <4>2
    <3> QED
      BY <1>1, <3>1, <3>2
  <2>3. CASE i > p
    <3>1. i - Offset' \in 1 .. Len(stdin)' /\ Offset' + (i - Offset') = i /\ i > Offset'
      BY <1>4, <1>5, <1>6, <2>1, <2>3
    <3>2. Skipped(skipping', stdin', i - Offset') <=> err /\ \A j \in p + 1 .. i : pending[j].cont
      <4>1. ASSUME \A l \in 1 .. i - Offset' : stdin'[l].cont, NEW j \in p + 1 .. i
            PROVE  pending[j].cont
        <5>1. j - Offset' \in 1 .. i - Offset' /\ j - Offset' \in 1 .. Len(stdin)'
              /\ Offset' + (j - Offset') = j
          <6>1. PICK o \in Int : o = Offset'
            BY <1>4, <1>5
          <6>2. i - o \in 1 .. Len(stdin)' /\ o = p /\ Len(stdin)' \in Nat
            BY <1>4, <1>5, <1>6, <3>1, <6>1
          <6>3. j - o \in 1 .. i - o /\ j - o \in 1 .. Len(stdin)' /\ o + (j - o) = j
            BY <2>1, <6>2
          <6> QED
            BY <6>1, <6>3
        <5>2. pending[Offset' + (j - Offset')] = stdin'[j - Offset']
          BY <1>13, <5>1
        <5> QED
          BY <4>1, <5>1, <5>2
      <4>2. ASSUME \A j \in p + 1 .. i : pending[j].cont, NEW l \in 1 .. i - Offset'
            PROVE  stdin'[l].cont
        <5>1. l \in 1 .. Len(stdin)' /\ Offset' + l \in p + 1 .. i
          <6>1. PICK o \in Int : o = Offset'
            BY <1>4, <1>5
          <6>2. l \in 1 .. i - o /\ i - o \in 1 .. Len(stdin)' /\ o = p /\ Len(stdin)' \in Nat
            BY <1>4, <1>5, <1>6, <3>1, <6>1
          <6> QED
            BY <2>1, <6>1, <6>2
        <5> QED
          BY <1>13, <4>2, <5>1
      <4> QED
        BY <1>2, <4>1, <4>2 DEF Skipped
    <3>3. ~Aborted(ran, pending, i)
      <4>1. ~Skipped(skipping, stdin, i - Offset) /\ i > Offset
        <5>1. 1 \in 1 .. i - Offset /\ i > Offset
          BY <1>5, <1>6, <2>1, <2>3
        <5> QED
          BY <1>4, <5>1 DEF Skipped
      <4> QED
        BY <1>3, <2>1, <4>1 DEF SkipsAborted
    <3>4. Aborted(ran', pending, i) <=> Skipped(skipping', stdin', i - Offset')
      BY <1>9, <2>1, <2>3, <3>2, <3>3
    <3> QED
      BY <1>1, <3>1, <3>4
  <2> QED
    BY <2>1, <2>2, <2>3
<1>16. Distinct(pending')
  BY <1>1 DEF Queued
<1>17. InOrder(ran', pending')
  BY <1>1, <1>9
<1> QED
  BY <1>12, <1>14, <1>15, <1>16, <1>17 DEF Queued

\* A dead tmux reads nothing.
LEMMA QueuedExits ==
  ASSUME ClientTypeOK, Queued, TmuxExits
  PROVE  Queued'
<1>1. UNCHANGED <<ran, pending, writing>> /\ ~alive'
  BY DEF TmuxExits
<1>2. Claim' = Claim
  BY <1>1 DEF Claim
<1>3. Sent' = Sent
  BY <1>1, <1>2 DEF Sent
<1>4. Claimed'
  BY <1>1, <1>2, <1>3 DEF Queued, Claimed
<1> QED
  BY <1>1, <1>4 DEF Queued

\* A claim is made at the end of the queue, of commands nobody has heard of.
LEMMA QueuedStarts ==
  ASSUME ClientTypeOK, Fresh, Queued, NEW c \in Calls, StartCall(c)
  PROVE  Queued'
<1>1. /\ writing = {} /\ writing' = {c} /\ pending' = pending \o Commands(c) /\ state[c] = "idle"
      /\ UNCHANGED <<ran, stdin, skipping, alive>>
  BY DEF StartCall, MayStart, tmuxVars, pipeVars
<1>2. /\ CallLen[c] \in Nat \ {0} /\ Commands(c) \in Seq(Cmds) /\ Len(Commands(c)) = CallLen[c]
      /\ \A i \in 1 .. CallLen[c] : Commands(c)[i].id = <<c, i>>
  BY CommandsOfCall
<1>3. /\ Len(pending) \in Nat /\ Sent = Len(pending) /\ Offset \in Int /\ Sent = Offset + Len(stdin)
      /\ Len(stdin) \in Nat
  <2>1. Claim = <<>> /\ Len(<<>>) = 0
    BY <1>1, ClaimOf
  <2> QED
    BY <2>1, QueueParts DEF Queued
<1>4a. pending' \in Seq(Cmds)
  BY <1>1, <1>2, ConcatProperties DEF ClientTypeOK
<1>4. /\ Len(pending') = Len(pending) + CallLen[c]
      /\ \A i \in 1 .. Len(pending) : pending'[i] = pending[i]
      /\ \A j \in 1 .. CallLen[c] : pending'[Len(pending) + j] = Commands(c)[j]
  <2>1. PICK q \in Seq(Cmds) : q = Commands(c)
    BY <1>2
  <2>2. /\ Len(pending') = Len(pending) + CallLen[c]
        /\ \A i \in 1 .. Len(pending) + CallLen[c] :
             pending'[i] = IF i <= Len(pending) THEN pending[i] ELSE Commands(c)[i - Len(pending)]
    <3>1. /\ Len(pending \o q) = Len(pending) + Len(q)
          /\ \A i \in 1 .. Len(pending) + Len(q) :
               (pending \o q)[i] = IF i <= Len(pending) THEN pending[i] ELSE q[i - Len(pending)]
      BY ConcatProperties DEF ClientTypeOK
    <3>2. pending' = pending \o q /\ Len(q) = CallLen[c]
      BY <1>1, <1>2, <2>1
    <3> QED
      BY <2>1, <3>1, <3>2
  <2>3. ASSUME NEW j \in 1 .. CallLen[c]
        PROVE  pending'[Len(pending) + j] = Commands(c)[j]
    <3>1. Len(pending) + j \in 1 .. Len(pending) + CallLen[c] /\ ~(Len(pending) + j <= Len(pending))
          /\ (Len(pending) + j) - Len(pending) = j
      BY <1>2, <1>3
    <3> QED
      BY <2>2, <3>1
  <2>4. ASSUME NEW i \in 1 .. Len(pending)
        PROVE  pending'[i] = pending[i]
    <3>1. i \in 1 .. Len(pending) + CallLen[c] /\ i <= Len(pending)
      BY <1>2, <1>3
    <3> QED
      BY <2>2, <3>1
  <2> QED
    BY <2>2, <2>3, <2>4
<1>4b. CallLen[c] \in Nat \ {0} /\ Len(pending) \in Nat /\ Len(pending') = Len(pending) + CallLen[c]
  BY <1>2, <1>3, <1>4
<1>5. /\ Claim' = Commands(c) /\ Sent' = Sent /\ Offset' = Offset
  <2>1. Claim' = Commands(c)
    BY <1>1 DEF Claim
  <2>2. Sent' = Sent
    BY <1>2, <1>3, <1>4, <2>1 DEF Sent
  <2> QED
    BY <1>1, <2>1, <2>2 DEF Offset
<1>6. ASSUME NEW j \in 1 .. CallLen[c]
      PROVE  /\ <<c, j>> \in Ids /\ ~HasRun(ran, <<c, j>>)
             /\ \A i \in 1 .. Len(pending) : pending[i].id # <<c, j>>
  <2>1. PICK id \in Ids : id = <<c, j>>
    <3>1. <<c, j>> \in Ids
      BY DEF Ids
    <3> QED
      BY <3>1
  <2>2. state[id[1]] = "idle"
    BY <1>1, <2>1
  <2> QED
    BY <2>1, <2>2 DEF Fresh
<1>7. \A i \in 1 .. Len(pending') :
        \/ i \in 1 .. Len(pending)
        \/ i - Len(pending) \in 1 .. CallLen[c] /\ Len(pending) + (i - Len(pending)) = i
  BY <1>4b
<1>8. \A i \in Len(pending) + 1 .. Len(pending') :
        i - Len(pending) \in 1 .. CallLen[c] /\ pending'[i].id = <<c, i - Len(pending)>>
  <2> SUFFICES ASSUME NEW i \in Len(pending) + 1 .. Len(pending')
               PROVE  i - Len(pending) \in 1 .. CallLen[c] /\ pending'[i].id = <<c, i - Len(pending)>>
    OBVIOUS
  <2>1. i - Len(pending) \in 1 .. CallLen[c] /\ Len(pending) + (i - Len(pending)) = i
    BY <1>4b
  <2>2. PICK j \in 1 .. CallLen[c] : j = i - Len(pending)
    BY <2>1
  <2>3. pending'[i] = Commands(c)[j] /\ Commands(c)[j].id = <<c, j>>
    BY <1>2, <1>4, <2>1, <2>2
  <2> QED
    BY <2>1, <2>2, <2>3
<1>9. \A i \in Len(pending) + 1 .. Len(pending') : ~HasRun(ran, pending'[i].id)
  BY <1>6, <1>8
<1>10. Distinct(pending')
  <2> SUFFICES ASSUME NEW i \in 1 .. Len(pending'), NEW j \in 1 .. Len(pending'),
                      pending'[i].id = pending'[j].id
               PROVE  i = j
    BY DEF Distinct
  <2>1. \A k \in 1 .. Len(pending') : k \in 1 .. Len(pending) \/ k \in Len(pending) + 1 .. Len(pending')
    BY <1>3, <1>4
  <2>2. CASE i \in 1 .. Len(pending) /\ j \in 1 .. Len(pending)
    BY <1>4, <2>2 DEF Queued, Distinct
  <2>3. CASE i \in 1 .. Len(pending) /\ j \in Len(pending) + 1 .. Len(pending')
    BY <1>4, <1>6, <1>8, <2>3
  <2>4. CASE j \in 1 .. Len(pending) /\ i \in Len(pending) + 1 .. Len(pending')
    BY <1>4, <1>6, <1>8, <2>4
  <2>5. CASE i \in Len(pending) + 1 .. Len(pending') /\ j \in Len(pending) + 1 .. Len(pending')
    <3>1. <<c, i - Len(pending)>> = <<c, j - Len(pending)>>
      BY <1>8, <2>5
    <3>2. i - Len(pending) = j - Len(pending)
      BY <3>1
    <3> QED
      BY <1>3, <1>4, <3>2
  <2> QED
    BY <2>1, <2>2, <2>3, <2>4, <2>5
<1>11. InOrder(ran', pending')
  <2>1. Len(pending) <= Len(pending')
    BY <1>4b
  <2>2. pending \in Seq(Cmds) /\ InOrder(ran, pending)
    BY DEF ClientTypeOK, Queued
  <2>3. \A i \in 1 .. Len(pending) : pending'[i] = pending[i]
    BY <1>4
  <2>4. PICK q \in Seq(Cmds) : q = pending'
    BY <1>4a
  <2>5. InOrder(ran, q)
    BY <1>9, <1>4b, <2>1, <2>2, <2>3, <2>4, InOrderPrefix
  <2> QED
    BY <1>1, <2>4, <2>5
<1>12. Claimed'
  <2>1. Sent' >= 0
    BY <1>3, <1>5
  <2>2. ASSUME NEW j \in 1 .. Len(Claim')
        PROVE  pending'[Sent' + j] = Claim'[j] /\ ~HasRun(ran', pending'[Sent' + j].id)
    <3>1. j \in 1 .. CallLen[c]
      BY <1>2, <1>5
    <3>2. pending'[Sent' + j] = Commands(c)[j] /\ Commands(c)[j].id = <<c, j>>
      BY <1>2, <1>3, <1>4, <1>5, <3>1
    <3> QED
      BY <1>1, <1>5, <1>6, <3>1, <3>2
  <2> QED
    BY <2>1, <2>2 DEF Claimed
<1>13. ASSUME alive'
       PROVE  InputQueued' /\ SkipsAborted'
  <2>1. InputQueued /\ SkipsAborted
    BY <1>1, <1>13 DEF Queued
  <2>2. InputQueued'
    <3> SUFFICES ASSUME NEW j \in 1 .. Len(stdin')
                 PROVE  \/ Skipped(skipping', stdin', j)
                        \/ Offset' + j >= 1 /\ pending'[Offset' + j] = stdin'[j] /\ ~HasRun(ran', stdin'[j].id)
      BY DEF InputQueued
    <3>1. j \in 1 .. Len(stdin) /\ (Offset + j >= 1 => Offset + j \in 1 .. Len(pending))
      BY <1>1, <1>3
    <3> QED
      BY <1>1, <1>4, <1>5, <2>1, <3>1 DEF InputQueued
  <2>3. \A i \in 1 .. Len(pending) : Aborted(ran, pending', i) <=> Aborted(ran, pending, i)
    <3>1. Len(pending) <= Len(pending') /\ Len(pending) <= Len(pending)
      BY <1>4b
    <3>2. pending \in Seq(Cmds)
      BY DEF ClientTypeOK
    <3> QED
      BY <1>3, <1>4, <1>4a, <3>1, <3>2, AbortedPrefix
  <2>4. SkipsAborted'
    BY <1>1, <1>3, <1>4, <1>5, <2>1, <2>3 DEF SkipsAborted
  <2> QED
    BY <2>2, <2>4
<1> QED
  BY <1>10, <1>11, <1>12, <1>13 DEF Queued

\* The claim becomes input, a line of its own.
LEMMA QueuedWrites ==
  ASSUME ClientTypeOK, Queued, NEW c \in Calls, WriteLine(c)
  PROVE  Queued'
<1>1. /\ c \in writing /\ writing' = {} /\ stdin' = stdin \o Commands(c) /\ alive
      /\ UNCHANGED <<ran, pending, skipping, alive>>
  BY DEF WriteLine, tmuxVars
<1>2. /\ CallLen[c] \in Nat \ {0} /\ Commands(c) \in Seq(Cmds) /\ Len(Commands(c)) = CallLen[c]
      /\ \A i \in 1 .. CallLen[c] : Commands(c)[i].cont <=> i > 1
  BY CommandsOfCall
<1>3. Claim = Commands(c) /\ Claim' = <<>>
  BY <1>1, ClaimOf DEF Claim
<1>4. Claimed /\ InputQueued /\ SkipsAborted /\ Distinct(pending) /\ InOrder(ran, pending)
  BY <1>1 DEF Queued
<1>5. /\ Len(pending) \in Nat /\ Len(stdin) \in Nat /\ Sent \in Nat /\ Offset \in Int
      /\ Len(pending) = Sent + CallLen[c] /\ Sent = Offset + Len(stdin)
      /\ \A i \in 1 .. Len(pending) : i > Sent => ~HasRun(ran, pending[i].id)
  BY <1>2, <1>3, <1>4, QueueParts
<1>6. /\ Len(stdin') = Len(stdin) + CallLen[c]
      /\ \A j \in 1 .. Len(stdin) : stdin'[j] = stdin[j]
      /\ \A j \in 1 .. CallLen[c] : stdin'[Len(stdin) + j] = Commands(c)[j]
  <2>1. PICK q \in Seq(Cmds) : q = Commands(c)
    BY <1>2
  <2>2. /\ Len(stdin') = Len(stdin) + CallLen[c]
        /\ \A i \in 1 .. Len(stdin) + CallLen[c] :
             stdin'[i] = IF i <= Len(stdin) THEN stdin[i] ELSE Commands(c)[i - Len(stdin)]
    <3>1. /\ Len(stdin \o q) = Len(stdin) + Len(q)
          /\ \A i \in 1 .. Len(stdin) + Len(q) :
               (stdin \o q)[i] = IF i <= Len(stdin) THEN stdin[i] ELSE q[i - Len(stdin)]
      BY ConcatProperties DEF ClientTypeOK
    <3>2. stdin' = stdin \o q /\ Len(q) = CallLen[c]
      BY <1>1, <1>2, <2>1
    <3> QED
      BY <2>1, <3>1, <3>2
  <2>3. ASSUME NEW j \in 1 .. CallLen[c]
        PROVE  stdin'[Len(stdin) + j] = Commands(c)[j]
    <3>1. Len(stdin) + j \in 1 .. Len(stdin) + CallLen[c] /\ ~(Len(stdin) + j <= Len(stdin))
          /\ (Len(stdin) + j) - Len(stdin) = j
      BY <1>2, <1>5
    <3> QED
      BY <2>2, <3>1
  <2>4. ASSUME NEW i \in 1 .. Len(stdin)
        PROVE  stdin'[i] = stdin[i]
    <3>1. i \in 1 .. Len(stdin) + CallLen[c] /\ i <= Len(stdin)
      BY <1>2, <1>5
    <3> QED
      BY <2>2, <3>1
  <2> QED
    BY <2>2, <2>3, <2>4
<1>7. Sent' = Len(pending) /\ Offset' = Offset
  <2>1. Len(<<>>) = 0
    OBVIOUS
  <2>2. Sent' = Len(pending)
    BY <1>1, <1>3, <1>5, <2>1 DEF Sent
  <2>3. Offset' = Sent' - Len(stdin')
    BY DEF Offset
  <2>4. Offset = (Len(pending) - CallLen[c]) - Len(stdin)
    BY <1>2, <1>3 DEF Offset, Sent
  <2>5. Offset' = Len(pending) - (Len(stdin) + CallLen[c])
    BY <1>6, <2>2, <2>3
  <2> QED
    BY <1>2, <1>5, <2>2, <2>4, <2>5
<1>8. Claimed'
  BY <1>3, <1>5, <1>7 DEF Claimed
<1>9. \A j \in 1 .. Len(stdin) : Skipped(skipping, stdin', j) <=> Skipped(skipping, stdin, j)
  <2> SUFFICES ASSUME NEW j \in 1 .. Len(stdin)
               PROVE  Skipped(skipping, stdin', j) <=> Skipped(skipping, stdin, j)
    OBVIOUS
  <2>1. \A l \in 1 .. j : l \in 1 .. Len(stdin)
    BY <1>5
  <2>2. \A l \in 1 .. j : stdin'[l] = stdin[l]
    BY <1>6, <2>1
  <2> QED
    BY <2>2 DEF Skipped
<1>10. \A j \in 1 .. CallLen[c] : ~Skipped(skipping, stdin', Len(stdin) + j)
  <2> SUFFICES ASSUME NEW j \in 1 .. CallLen[c], \A l \in 1 .. Len(stdin) + j : stdin'[l].cont
               PROVE  FALSE
    BY DEF Skipped
  <2>1. Len(stdin) + 1 \in 1 .. Len(stdin) + j /\ 1 \in 1 .. CallLen[c]
    BY <1>2, <1>5
  <2>2. stdin'[Len(stdin) + 1].cont /\ stdin'[Len(stdin) + 1] = Commands(c)[1]
    BY <1>6, <2>1
  <2> QED
    BY <1>2, <2>1, <2>2
<1>11. InputQueued'
  <2> SUFFICES ASSUME NEW j \in 1 .. Len(stdin')
               PROVE  \/ Skipped(skipping', stdin', j)
                      \/ Offset' + j >= 1 /\ pending'[Offset' + j] = stdin'[j] /\ ~HasRun(ran', stdin'[j].id)
    BY DEF InputQueued
  <2>1. CASE j \in 1 .. Len(stdin)
    <3>1. stdin'[j] = stdin[j] /\ (Skipped(skipping, stdin', j) <=> Skipped(skipping, stdin, j))
      BY <1>6, <1>9, <2>1
    <3> QED
      BY <1>1, <1>4, <1>7, <2>1, <3>1 DEF InputQueued
  <2>2. CASE j \notin 1 .. Len(stdin)
    <3>1. PICK k \in 1 .. CallLen[c] : j = Len(stdin) + k
      <4>1. PICK l \in Nat, n \in Nat : l = Len(stdin) /\ n = CallLen[c]
        BY <1>2, <1>5
      <4>2. j \in 1 .. l + n /\ j \notin 1 .. l
        BY <1>6, <2>2, <4>1
      <4>3. j - l \in 1 .. n /\ j = l + (j - l)
        BY <4>2
      <4> QED
        BY <4>1, <4>3
    <3>2. Offset + j = Sent + k /\ Sent + k >= 1
      BY <1>2, <1>5, <3>1
    <3>3. pending[Sent + k] = Commands(c)[k] /\ ~HasRun(ran, pending[Sent + k].id)
      BY <1>2, <1>3, <1>4 DEF Claimed
    <3>4. stdin'[j] = Commands(c)[k]
      BY <1>6, <3>1
    <3> QED
      BY <1>1, <1>7, <3>2, <3>3, <3>4
  <2> QED
    BY <2>1, <2>2
<1>12. SkipsAborted'
  <2> SUFFICES ASSUME NEW i \in 1 .. Sent'
               PROVE  IF i > Offset' /\ ~Skipped(skipping', stdin', i - Offset')
                      THEN ~Aborted(ran', pending', i)
                      ELSE HasRun(ran', pending'[i].id) \/ Aborted(ran', pending', i)
    BY DEF SkipsAborted
  <2>1. i \in Nat /\ i \in 1 .. Len(pending)
    BY <1>5, <1>7
  <2>2. CASE i <= Sent
    <3>1. i \in 1 .. Sent
      BY <2>1, <2>2
    <3>2. i > Offset => (Skipped(skipping, stdin', i - Offset) <=> Skipped(skipping, stdin, i - Offset))
      <4>1. i > Offset => i - Offset \in 1 .. Len(stdin)
        BY <1>5, <3>1
      <4> QED
        BY <1>9, <4>1
    <3>3. IF i > Offset /\ ~Skipped(skipping, stdin, i - Offset)
          THEN ~Aborted(ran, pending, i)
          ELSE HasRun(ran, pending[i].id) \/ Aborted(ran, pending, i)
      BY <1>4, <3>1 DEF SkipsAborted
    <3> QED
      BY <1>1, <1>7, <3>2, <3>3
  <2>3. CASE ~(i <= Sent)
    <3>1. PICK k \in 1 .. CallLen[c] : i = Sent + k /\ i - Offset = Len(stdin) + k
      <4>1. i - Sent \in 1 .. CallLen[c] /\ i = Sent + (i - Sent) /\ i - Offset = Len(stdin) + (i - Sent)
        BY <1>2, <1>5, <2>1, <2>3
      <4> QED
        BY <4>1
    <3>2. i > Offset /\ ~Skipped(skipping, stdin', i - Offset)
      BY <1>5, <1>10, <2>1, <2>3, <3>1
    <3>3. ~Aborted(ran, pending, i)
      <4>1. SUFFICES ASSUME NEW m \in 1 .. i - 1, FailedAt(ran, pending, m),
                            \A j \in m + 1 .. i : pending[j].cont
                     PROVE  FALSE
        BY DEF Aborted
      <4>2. m \in 1 .. Len(pending) /\ ~(m > Sent)
        <5>1. m \in 1 .. Len(pending)
          BY <1>5, <2>1
        <5> QED
          BY <1>5, <4>1, <5>1 DEF FailedAt
      <4>3. Sent + 1 \in m + 1 .. i /\ 1 \in 1 .. CallLen[c]
        BY <1>2, <1>5, <2>1, <2>3, <4>2
      <4>4. pending[Sent + 1].cont /\ pending[Sent + 1] = Commands(c)[1]
        BY <1>2, <1>3, <1>4, <4>1, <4>3 DEF Claimed
      <4> QED
        BY <1>2, <4>3, <4>4
    <3> QED
      BY <1>1, <1>7, <3>2, <3>3
  <2> QED
    BY <2>1, <2>2, <2>3
<1> QED
  BY <1>1, <1>4, <1>8, <1>11, <1>12 DEF Queued

\* A failed write leaves no trace in the queue.
LEMMA WriteDrops ==
  ASSUME ClientTypeOK, Claimed, NEW c \in Calls, WriteFails(c)
  PROVE  /\ Claim = Commands(c) /\ Claim' = <<>> /\ Len(Claim') = 0
         /\ pending' \in Seq(Cmds) /\ Len(pending') = Sent /\ Sent \in Nat /\ Sent <= Len(pending)
         /\ \A i \in 1 .. Sent : pending'[i] = pending[i] /\ i \in 1 .. Len(pending)
<1>1. c \in writing /\ writing' = {} /\ pending' = SubSeq(pending, 1, Len(pending) - CallLen[c])
  BY DEF WriteFails, PendingWithout
<1>2. Claim = Commands(c) /\ Len(Claim) = CallLen[c] /\ Claim' = <<>> /\ Len(Claim') = 0
  BY <1>1, ClaimOf, CommandsOfCall DEF Claim
<1>3. Len(pending) \in Nat /\ Sent \in Nat /\ Sent <= Len(pending) /\ Sent = Len(pending) - CallLen[c]
  BY <1>2, QueueParts DEF Sent
<1>4. pending' = SubSeq(pending, 1, Sent)
  BY <1>1, <1>3
<1>5. \A i \in 1 .. Sent : pending[i] \in Cmds /\ i \in 1 .. Len(pending)
  BY <1>3, ElementOfSeq DEF ClientTypeOK
<1>6. PICK n \in Nat : n = Sent
  BY <1>3
<1>7. /\ SubSeq(pending, 1, n) \in Seq(Cmds) /\ Len(SubSeq(pending, 1, n)) = n
      /\ \A i \in 1 .. n : SubSeq(pending, 1, n)[i] = pending[i]
  <2>1. \A i \in 1 .. n : pending[i] \in Cmds
    BY <1>5, <1>6
  <2>2. /\ SubSeq(pending, 1, n) \in Seq(Cmds)
        /\ Len(SubSeq(pending, 1, n)) = IF 1 <= n THEN n - 1 + 1 ELSE 0
        /\ \A i \in 1 .. n - 1 + 1 : SubSeq(pending, 1, n)[i] = pending[1 + i - 1]
    BY <2>1, SubSeqProperties
  <2>3. (IF 1 <= n THEN n - 1 + 1 ELSE 0) = n /\ n - 1 + 1 = n /\ \A i \in 1 .. n : 1 + i - 1 = i
    OBVIOUS
  <2> QED
    BY <2>2, <2>3
<1> QED
  BY <1>2, <1>3, <1>4, <1>5, <1>6, <1>7

\* So the rest of it keeps its order.
LEMMA QueuedFails ==
  ASSUME ClientTypeOK, Queued, NEW c \in Calls, WriteFails(c)
  PROVE  Queued'
<1>1. UNCHANGED <<ran, stdin, skipping, alive>>
  BY DEF WriteFails, tmuxVars, pipeVars
<1>2. /\ Claim' = <<>> /\ Len(Claim') = 0
      /\ Len(pending') = Sent /\ Sent \in Nat /\ Sent <= Len(pending)
      /\ \A i \in 1 .. Sent : pending'[i] = pending[i] /\ i \in 1 .. Len(pending)
  BY WriteDrops DEF Queued
<1>3. Sent' = Sent /\ Offset' = Offset
  <2>1. Sent' = Sent
    BY <1>2 DEF Sent
  <2> QED
    BY <1>1, <2>1 DEF Offset
<1>4. Offset \in Int /\ Len(stdin) \in Nat /\ Sent = Offset + Len(stdin)
  BY QueueParts DEF Queued
<1>5. PICK q \in Seq(Cmds) : q = pending'
  BY WriteDrops DEF Queued
<1>6. PICK n \in Nat : n = Sent
  BY <1>2
<1>7. n <= Len(pending) /\ n = Len(q) /\ \A i \in 1 .. n : q[i] = pending[i]
  BY <1>2, <1>5, <1>6
<1>8. Distinct(pending')
  BY <1>2 DEF Queued, Distinct
<1>9. InOrder(ran', pending')
  <2>1. pending \in Seq(Cmds) /\ InOrder(ran, pending)
    BY DEF ClientTypeOK, Queued
  <2>2. \A i \in n + 1 .. Len(q) : FALSE
    BY <1>7
  <2>3. InOrder(ran, q)
    BY <1>7, <2>1, <2>2, InOrderPrefix
  <2> QED
    BY <1>1, <1>5, <2>3
<1>10. Claimed'
  <2>1. \A j \in 1 .. Len(Claim') : FALSE
    BY <1>2
  <2> QED
    BY <1>2, <1>3, <2>1 DEF Claimed
<1>11. ASSUME alive'
       PROVE  InputQueued' /\ SkipsAborted'
  <2>1. InputQueued /\ SkipsAborted
    BY <1>1, <1>11 DEF Queued
  <2>2. InputQueued'
    <3> SUFFICES ASSUME NEW j \in 1 .. Len(stdin')
                 PROVE  \/ Skipped(skipping', stdin', j)
                        \/ Offset' + j >= 1 /\ pending'[Offset' + j] = stdin'[j] /\ ~HasRun(ran', stdin'[j].id)
      BY DEF InputQueued
    <3>1. j \in 1 .. Len(stdin) /\ (Offset + j >= 1 => Offset + j \in 1 .. Sent)
      BY <1>1, <1>4
    <3> QED
      BY <1>1, <1>2, <1>3, <2>1, <3>1 DEF InputQueued
  <2>3. \A i \in 1 .. n : Aborted(ran, q, i) <=> Aborted(ran, pending, i)
    BY <1>7, AbortedPrefix DEF ClientTypeOK
  <2>4. SkipsAborted'
    BY <1>1, <1>2, <1>3, <1>5, <1>6, <2>1, <2>3 DEF SkipsAborted
  <2> QED
    BY <2>2, <2>4
<1> QED
  BY <1>8, <1>9, <1>10, <1>11 DEF Queued

\* A reply serves the head of the queue, and with an error what is aborted by it.
LEMMA RouteServes ==
  ASSUME ClientTypeOK, InOrder(ran, pending), Distinct(pending), pending # <<>>,
         NEW r \in Replies, Route(r),
         HasRun(ran, pending[1].id), r.err <=> ~ran[pending[1].id].ok
  PROVE  \E m \in 1 .. Len(pending) :
           /\ pending' \in Seq(Cmds) /\ Len(pending') = Len(pending) - m
           /\ \A i \in 1 .. Len(pending') : pending'[i] = pending[i + m] /\ i + m \in 1 .. Len(pending)
           /\ \A i \in 1 .. Len(pending') : Aborted(ran, pending', i) <=> Aborted(ran, pending, i + m)
           /\ \A i \in 2 .. m : Aborted(ran, pending, i)
           /\ slots'[pending[1].id] = <<r>>
           /\ \A i \in 2 .. m : slots'[pending[i].id] = <<AbortReply>>
           /\ \A id \in Ids : (\A i \in 1 .. m : pending[i].id # id) => slots'[id] = slots[id]
<1>1. pending \in Seq(Cmds) /\ Len(pending) \in Nat /\ Len(pending) >= 1 /\ Head(pending) = pending[1]
  BY EmptySeq DEF ClientTypeOK
<1>2. PICK answered : answered = {1} \cup IF r.err THEN Purged ELSE {}
  OBVIOUS
<1>3. /\ slots' = [id \in Ids |->
                     IF id = pending[1].id THEN <<r>>
                     ELSE IF \E i \in answered : pending[i].id = id THEN <<AbortReply>>
                     ELSE slots[id]]
      /\ pending' = IF r.err THEN PendingAfterError ELSE Tail(pending)
  BY <1>1, <1>2 DEF Route
<1>4. PICK m \in 1 .. Len(pending) :
        /\ answered = 1 .. m
        /\ pending' = SubSeq(pending, m + 1, Len(pending))
        /\ (\A k \in 1 .. m : ~FailedAt(ran, pending, k)) \/ (m < Len(pending) => ~pending[m + 1].cont)
        /\ \A i \in 2 .. m : Aborted(ran, pending, i)
  <2>1. CASE r.err
    <3>1. PICK m \in 1 .. Len(pending) : /\ Purged = 2 .. m /\ 2 + Cardinality(Purged) = m + 1
                                         /\ m < Len(pending) => ~pending[m + 1].cont
      BY <1>1, PurgedIsPrefix
    <3>2. pending' = SubSeq(pending, m + 1, Len(pending))
      BY <1>3, <2>1, <3>1 DEF PendingAfterError
    <3>3. {1} \cup (2 .. m) = 1 .. m
      BY <1>1
    <3>4. FailedAt(ran, pending, 1)
      BY <2>1 DEF FailedAt
    <3>5. ASSUME NEW i \in 2 .. m
          PROVE  Aborted(ran, pending, i)
      <4>1. \A j \in 2 .. i : pending[j].cont
        BY <3>1 DEF Purged
      <4>2. 1 \in 1 .. i - 1 /\ 1 + 1 = 2
        BY <1>1
      <4> QED
        BY <3>4, <4>1, <4>2 DEF Aborted
    <3>6. answered = 1 .. m
      BY <1>2, <2>1, <3>1, <3>3
    <3> QED
      BY <3>1, <3>2, <3>5, <3>6
  <2>2. CASE ~r.err
    <3>1. PICK m \in 1 .. Len(pending) : m = 1
      BY <1>1
    <3>2. pending' = SubSeq(pending, m + 1, Len(pending))
      BY <1>1, <1>3, <2>2, <3>1, TailIsSubSeq
    <3>3. answered = 1 .. m
      BY <1>2, <2>2, <3>1
    <3>4. \A k \in 1 .. m : ~FailedAt(ran, pending, k)
      BY <2>2, <3>1 DEF FailedAt
    <3>5. \A i \in 2 .. m : FALSE
      BY <3>1
    <3> QED
      BY <3>2, <3>3, <3>4, <3>5
  <2> QED
    BY <2>1, <2>2
<1>5. PICK q : q = pending'
  OBVIOUS
<1>6. /\ q \in Seq(Cmds) /\ Len(q) = Len(pending) - m
      /\ \A i \in 1 .. Len(q) : q[i] = pending[i + m] /\ i + m \in 1 .. Len(pending)
  <2>1. \A i \in m + 1 .. Len(pending) : pending[i] \in Cmds
    BY <1>1, ElementOfSeq
  <2>2. /\ q \in Seq(Cmds)
        /\ Len(q) = IF m + 1 <= Len(pending) THEN Len(pending) - (m + 1) + 1 ELSE 0
        /\ \A i \in 1 .. Len(pending) - (m + 1) + 1 : q[i] = pending[(m + 1) + i - 1]
    BY <1>1, <1>4, <1>5, <2>1, SubSeqProperties
  <2>3. Len(q) = Len(pending) - m
    BY <1>1, <2>2
  <2>4. ASSUME NEW i \in 1 .. Len(q)
        PROVE  q[i] = pending[i + m] /\ i + m \in 1 .. Len(pending)
    <3>1. i \in 1 .. Len(pending) - (m + 1) + 1 /\ (m + 1) + i - 1 = i + m /\ i + m \in 1 .. Len(pending)
      BY <1>1, <2>3
    <3> QED
      BY <2>2, <3>1
  <2> QED
    BY <2>2, <2>3, <2>4
<1>7. \A i \in 1 .. Len(q) : Aborted(ran, q, i) <=> Aborted(ran, pending, i + m)
  <2>1. m \in 0 .. Len(pending)
    BY <1>1
  <2> QED
    BY <1>1, <1>4, <1>6, <2>1, AbortedServed
<1>8. /\ slots'[pending[1].id] = <<r>>
      /\ \A i \in 2 .. m : slots'[pending[i].id] = <<AbortReply>>
  <2>1. 1 \in 1 .. Len(pending) /\ pending[1].id \in Ids
    BY <1>1, QueueItem
  <2>2. ASSUME NEW i \in 2 .. m
        PROVE  slots'[pending[i].id] = <<AbortReply>>
    <3>1. i \in 1 .. Len(pending) /\ i # 1 /\ i \in answered
      BY <1>1, <1>4
    <3>2. pending[i].id \in Ids /\ pending[i].id # pending[1].id
      BY <1>1, <2>1, <3>1, QueueItem DEF Distinct
    <3> QED
      BY <1>3, <3>1, <3>2
  <2> QED
    BY <1>3, <2>1, <2>2
<1>9. ASSUME NEW id \in Ids, \A i \in 1 .. m : pending[i].id # id
      PROVE  slots'[id] = slots[id]
  <2>1. 1 \in 1 .. m
    BY <1>1
  <2> QED
    BY <1>3, <1>4, <1>9, <2>1
<1> QED
  BY <1>4, <1>5, <1>6, <1>7, <1>8, <1>9

\* The queue served is still in order, and lines up with the input.
LEMMA QueuedRoutes ==
  ASSUME ClientTypeOK, Queued, writing = {}, pending # <<>>, NEW r \in Replies, Route(r),
         HasRun(ran, pending[1].id), r.err <=> ~ran[pending[1].id].ok,
         ran' = ran, stdin' = stdin, skipping' = skipping, writing' = writing, alive' = alive
  PROVE  Queued'
<1>1. PICK m \in 1 .. Len(pending) :
        /\ pending' \in Seq(Cmds) /\ Len(pending') = Len(pending) - m
        /\ \A i \in 1 .. Len(pending') : pending'[i] = pending[i + m] /\ i + m \in 1 .. Len(pending)
        /\ \A i \in 1 .. Len(pending') : Aborted(ran, pending', i) <=> Aborted(ran, pending, i + m)
        /\ \A i \in 2 .. m : Aborted(ran, pending, i)
  BY RouteServes DEF Queued
<1>2. PICK q : q = pending'
  OBVIOUS
<1>3. /\ q \in Seq(Cmds) /\ Len(q) = Len(pending) - m
      /\ \A i \in 1 .. Len(q) : q[i] = pending[i + m]
      /\ \A i \in 1 .. Len(q) : Aborted(ran, q, i) <=> Aborted(ran, pending, i + m)
  BY <1>1, <1>2
<1>4. /\ Len(pending) \in Nat /\ Len(stdin) \in Nat /\ Sent = Len(pending) /\ Offset \in Int
      /\ Sent = Offset + Len(stdin)
  <2>1. Claim = <<>> /\ Len(<<>>) = 0
    BY ClaimOf
  <2> QED
    BY <2>1, QueueParts DEF Queued
<1>5. Distinct(q) /\ InOrder(ran, q)
  <2>1. m \in 0 .. Len(pending) /\ pending \in Seq(Cmds)
    BY <1>4 DEF ClientTypeOK
  <2> QED
    BY <1>3, <2>1, InOrderServed DEF Queued
<1>6. /\ Claim' = <<>> /\ Len(Claim') = 0 /\ Sent' = Len(q) /\ Len(q) \in Nat
      /\ Offset' = Offset - m
  <2>1. Claim' = <<>> /\ Len(Claim') = 0
    BY DEF Claim
  <2>2. Len(q) \in Nat
    BY <1>3
  <2>3. Sent' = Len(q)
    BY <1>2, <2>1, <2>2 DEF Sent
  <2>4. Offset' = Len(q) - Len(stdin)
    BY <2>3 DEF Offset
  <2>5. Offset' = Offset - m
    <3>1. PICK n \in Nat, l \in Nat, o \in Int : n = Len(pending) /\ l = Len(stdin) /\ o = Offset
      BY <1>4
    <3>2. n = o + l /\ m \in 1 .. n
      BY <1>4, <3>1
    <3>4. Len(q) = n - m
      BY <1>3, <3>1
    <3>5. Offset' = Len(q) - l
      BY <2>4, <3>1
    <3>3. Offset' = o - m
      BY <3>2, <3>4, <3>5
    <3> QED
      BY <3>1, <3>3
  <2> QED
    BY <2>1, <2>2, <2>3, <2>5
<1>7. Claimed'
  <2>1. \A j \in 1 .. Len(Claim') : FALSE
    BY <1>6
  <2> QED
    BY <1>6, <2>1 DEF Claimed
<1>8. ASSUME alive
      PROVE  InputQueued' /\ SkipsAborted'
  <2>1. InputQueued /\ SkipsAborted
    BY <1>8 DEF Queued
  <2>2. InputQueued'
    <3> SUFFICES ASSUME NEW j \in 1 .. Len(stdin), ~Skipped(skipping, stdin, j)
                 PROVE  Offset' + j >= 1 /\ q[Offset' + j] = stdin[j] /\ ~HasRun(ran, stdin[j].id)
      BY <1>2 DEF InputQueued
    <3>1. Offset + j >= 1 /\ pending[Offset + j] = stdin[j] /\ ~HasRun(ran, stdin[j].id)
      BY <2>1 DEF InputQueued
    <3>2. PICK i \in 1 .. Len(pending) : i = Offset + j
      BY <1>4, <3>1
    <3>3. ~Aborted(ran, pending, i)
      <4>1. i \in 1 .. Sent /\ i > Offset /\ i - Offset = j
        BY <1>4, <3>2
      <4> QED
        BY <2>1, <4>1 DEF SkipsAborted
    <3>4. i # 1
      BY <3>1, <3>2
    <3>5. i - m \in 1 .. Len(q) /\ (i - m) + m = i /\ Offset' + j = i - m
      BY <1>1, <1>3, <1>4, <1>6, <3>2, <3>3, <3>4
    <3> QED
      BY <1>3, <3>1, <3>2, <3>5
  <2>3. SkipsAborted'
    <3> SUFFICES ASSUME NEW i \in 1 .. Sent'
                 PROVE  IF i > Offset' /\ ~Skipped(skipping', stdin', i - Offset')
                        THEN ~Aborted(ran', pending', i)
                        ELSE HasRun(ran', pending'[i].id) \/ Aborted(ran', pending', i)
      BY DEF SkipsAborted
    <3>1. PICK j \in 1 .. Sent : j = i + m
      <4>1. i + m \in 1 .. Sent
        <5>1. PICK n \in Nat : n = Len(pending)
          BY <1>4
        <5>2. Sent = n /\ m \in 1 .. n
          BY <1>4, <5>1
        <5>3. i \in 1 .. n - m
          BY <1>3, <1>6, <5>1
        <5> QED
          BY <5>2, <5>3
      <4> QED
        BY <4>1
    <3>2. i \in 1 .. Len(q) /\ q[i] = pending[j] /\ (Aborted(ran, q, i) <=> Aborted(ran, pending, j))
      BY <1>3, <1>6, <3>1
    <3>3. (i > Offset' <=> j > Offset) /\ i - Offset' = j - Offset
      BY <1>4, <1>6, <3>1, <3>2
    <3>4. IF j > Offset /\ ~Skipped(skipping, stdin, j - Offset)
          THEN ~Aborted(ran, pending, j)
          ELSE HasRun(ran, pending[j].id) \/ Aborted(ran, pending, j)
      BY <2>1 DEF SkipsAborted
    <3> QED
      BY <1>2, <3>2, <3>3, <3>4
  <2> QED
    BY <2>2, <2>3
<1> QED
  BY <1>2, <1>5, <1>7, <1>8 DEF Queued

-----------------------------------------------------------------------------
(***************************************************************************)
(* Calls that did not start.                                               *)
(***************************************************************************)
\* What concerns only commands of calls that started leaves the others alone.
LEMMA FreshKept ==
  ASSUME ClientTypeOK, Fresh,
         \A c \in writing' : state'[c] # "idle",
         \A c \in Calls : state'[c] = "idle" => state[c] = "idle",
         \A id \in Ids : state'[id[1]] = "idle" =>
           /\ slots[id] = <<>> => slots'[id] = <<>>
           /\ HasRun(ran', id) => HasRun(ran, id)
           /\ \A i \in 1 .. Len(pending') : pending'[i].id = id =>
                \E j \in 1 .. Len(pending) : pending[j].id = id
  PROVE  Fresh'
<1>1. ASSUME NEW id \in Ids, state'[id[1]] = "idle"
      PROVE  slots'[id] = <<>> /\ ~HasRun(ran', id) /\ \A i \in 1 .. Len(pending') : pending'[i].id # id
  <2>1. state[id[1]] = "idle"
    BY <1>1, IdParts
  <2>2. slots[id] = <<>> /\ ~HasRun(ran, id) /\ \A i \in 1 .. Len(pending) : pending[i].id # id
    BY <2>1 DEF Fresh
  <2> QED
    BY <1>1, <2>2
<1> QED
  BY <1>1 DEF Fresh

\* Tmux runs no command of such a call.
LEMMA FreshTmux ==
  ASSUME ClientTypeOK, Fresh, Queued, Tmux
  PROVE  Fresh'
<1>1. UNCHANGED <<pending, writing, state, slots>>
  BY DEF Tmux, SendGuard, RunCommand, Produce, TmuxExits, callVars
<1>2. ASSUME NEW id \in Ids, state'[id[1]] = "idle", HasRun(ran', id)
      PROVE  HasRun(ran, id)
  <2>1. CASE RunCommand /\ ~(Head(stdin).cont /\ skipping)
    <3>1. PICK p \in 1 .. Len(pending) : pending[p] = Head(stdin)
      BY <2>1, NextCommand DEF RunCommand
    <3>2. pending[p].id # id
      BY <1>1, <1>2 DEF Fresh
    <3>3. \E entry : ran' = [ran EXCEPT ![pending[p].id] = entry]
      BY <2>1, <3>1 DEF RunCommand
    <3>4. ran'[id] = ran[id]
      BY <3>2, <3>3 DEF ClientTypeOK, Histories
    <3> QED
      BY <1>2, <3>4 DEF HasRun
  <2>2. CASE ~(RunCommand /\ ~(Head(stdin).cont /\ skipping))
    <3>1. ran' = ran
      BY <2>2 DEF Tmux, SendGuard, RunCommand, Produce, TmuxExits
    <3> QED
      BY <1>2, <3>1
  <2> QED
    BY <2>1, <2>2
<1>3. \A c \in writing' : state'[c] # "idle"
  BY <1>1 DEF Fresh
<1> QED
  BY <1>1, <1>2, <1>3, FreshKept

\* A call that starts claims its own commands; the others start none.
LEMMA FreshCaller ==
  ASSUME ClientTypeOK, Fresh, Queued, NEW c \in Calls, Caller(c)
  PROVE  Fresh'
<1>1. ran' = ran
  BY DEF Caller, StartCall, WriteLine, WriteFails, TakeReply, CallStranded, CallCancelled, LeavesWaiting, tmuxVars
<1>2. state' = [state EXCEPT ![c] = state'[c]] /\ state'[c] # "idle"
  <2>1. c \in DOMAIN state /\ \E s : state' = [state EXCEPT ![c] = s] /\ s # "idle"
    <3>1. PICK s : s = IF Head(slots[<<c, await[c]>>]).err THEN "failed" ELSE IF LastReply(c) THEN "ok" ELSE "waiting"
      OBVIOUS
    <3>2. s # "idle"
      BY <3>1
    <3>3. TakeReply(c) => Becomes(c, s)
      BY <3>1 DEF TakeReply
    <3>4. Becomes(c, s) \/ Becomes(c, "writing") \/ Becomes(c, "waiting") \/ Becomes(c, "failed")
      BY <3>3 DEF Caller, StartCall, WriteLine, WriteFails, CallStranded, CallCancelled, LeavesWaiting
    <3> QED
      BY <3>2, <3>4 DEF Becomes, ClientTypeOK, TypeOK
  <2> QED
    BY <2>1
<1>3. \A d \in Calls : state'[d] = "idle" => state[d] = "idle" /\ d # c
  BY <1>2 DEF ClientTypeOK, TypeOK
<1>4. \A d \in writing' : state'[d] # "idle"
  <2>1. writing' = {c} \/ writing' = {} \/ writing' = writing
    BY DEF Caller, StartCall, WriteLine, WriteFails, TakeReply, CallStranded, CallCancelled, LeavesWaiting
  <2>2. writing \subseteq Calls
    BY DEF ClientTypeOK, TypeOK
  <2> QED
    BY <1>2, <1>3, <2>1, <2>2 DEF Fresh
<1>5. ASSUME NEW id \in Ids, slots[id] = <<>>
      PROVE  slots'[id] = <<>>
  <2>1. slots' = slots \/ \E at : slots' = [slots EXCEPT ![at] = <<>>]
    BY DEF Caller, StartCall, WriteLine, WriteFails, TakeReply, CallStranded, CallCancelled, LeavesWaiting
  <2> QED
    BY <1>5, <2>1 DEF ClientTypeOK
<1>6. ASSUME NEW id \in Ids, state'[id[1]] = "idle", NEW i \in 1 .. Len(pending'), pending'[i].id = id
      PROVE  \E j \in 1 .. Len(pending) : pending[j].id = id
  <2>1. CASE StartCall(c)
    <3>1. id[1] # c
      BY <1>3, <1>6, IdParts
    <3>2. PICK q \in Seq(Cmds) : q = Commands(c)
      BY CommandsOfCall
    <3>3. /\ Len(pending') = Len(pending) + Len(q) /\ Len(pending) \in Nat /\ Len(q) \in Nat
          /\ \A k \in 1 .. Len(pending) + Len(q) :
               pending'[k] = IF k <= Len(pending) THEN pending[k] ELSE q[k - Len(pending)]
      BY <2>1, <3>2, ConcatProperties DEF StartCall, ClientTypeOK
    <3>4. CASE i <= Len(pending)
      BY <1>6, <3>3, <3>4
    <3>5. CASE ~(i <= Len(pending))
      <4>1. i - Len(pending) \in 1 .. Len(q)
        BY <3>3, <3>5
      <4>2. pending'[i] = q[i - Len(pending)]
        BY <3>3, <3>5
      <4>3. q[i - Len(pending)].id = <<c, i - Len(pending)>>
        BY <3>2, <4>1, CommandsOfCall
      <4> QED
        BY <1>6, <3>1, <4>2, <4>3
    <3> QED
      BY <3>4, <3>5
  <2>2. CASE WriteFails(c)
    BY <1>6, <2>2, WriteDrops DEF Queued
  <2>3. CASE ~StartCall(c) /\ ~WriteFails(c)
    <3>1. pending' = pending
      BY <2>3 DEF Caller, WriteLine, TakeReply, CallStranded, CallCancelled, LeavesWaiting
    <3> QED
      BY <1>6, <3>1
  <2> QED
    BY <2>1, <2>2, <2>3
<1> QED
  BY <1>1, <1>3, <1>4, <1>5, <1>6, FreshKept

-----------------------------------------------------------------------------
(***************************************************************************)
(* The stream and the queue.                                               *)
(***************************************************************************)
\* Nothing that touches neither.
LEMMA MatchedKept ==
  ASSUME Matched, UNCHANGED <<ran, guardSent, stdout, parse, guardSeen, pending, slots, outs, screen>>
  PROVE  Matched'
<1>1. LastNum' = LastNum /\ RunIds' = RunIds
  BY NumberKept
<1>2. \A n \in Nat : Streamed(n) => Streamed(n)'
  BY <1>1 DEF Streamed
<1> QED
  BY <1>2 DEF Matched, RepliesMatch, ReaderNeverBlocks

\* The position of a reader that is one.
LEMMA AtType ==
  ASSUME ClientTypeOK, NEW n \in Nat, NEW k \in Nat
  PROVE  /\ At(parse, n, k) \in Readers
         /\ At(parse, n, k).p = parse /\ At(parse, n, k).n = n /\ At(parse, n, k).k = k
         /\ At(Outside, n, k).p = Outside /\ At(Outside, n, k).n = n /\ ~Outside.inReply
  BY DEF At, Readers, Outside, ClientTypeOK

\* The positions of the reader and of tmux in the output.
LEMMA OutputBounds ==
  ASSUME ClientTypeOK
  PROVE  Len(Outputs) \in Nat /\ screen \in Nat /\ screen <= Len(Outputs)
<1>1. Len(Outputs) \in Nat
  BY ClientAssumption
<1> QED
  BY <1>1 DEF ClientTypeOK, TypeOK

\* The guard's block is the first of the stream.
LEMMA MatchedGuard ==
  ASSUME ClientInv, SendGuard
  PROVE  Matched'
<1>1. ClientTypeOK /\ Numbered /\ LastNum = 0 /\ LastNum' = 1 /\ RunIds = {} /\ RunIds' = {}
  BY NumberGuard DEF ClientInv
<1>2. PICK n \in Nat : Streamed(n)
  BY DEF ClientInv, Matched
<1>3. n = 0
  BY <1>1, <1>2 DEF Streamed
<1>4. PICK err \in BOOLEAN : stdout' = stdout \o Block(1, <<>>, err)
  BY DEF SendGuard
<1>5. Reading(ran, stdout', At(parse, n, Len(outs)), At(Outside, 1, screen))
  <2>1. stdout \in Seq(Lines) /\ <<>> \in Seq(Lines)
    BY <1>1 DEF ClientTypeOK
  <2>2. Reading(ran, stdout, At(parse, n, Len(outs)), At(Outside, 0, screen))
    BY <1>1, <1>2 DEF Streamed
  <2>3. PICK body \in Seq(Lines) : body = <<>> /\ Len(body) = 0
    BY <2>1, EmptySeq
  <2>4. PICK z \in Nat : z = 0 /\ z + 1 = 1 /\ ~(z >= 1)
    OBVIOUS
  <2>5. Reading(ran, stdout, At(parse, n, Len(outs)), At(Outside, z, screen))
    BY <2>2, <2>4
  <2>6. Reading(ran, stdout \o Block(z + 1, body, err), At(parse, n, Len(outs)), At(Outside, z + 1, screen))
    <3>1. \A i \in 1 .. Len(body) : FALSE
      BY <2>3
    <3> QED
      BY <1>1, <2>1, <2>4, <2>5, <3>1, ReadingBlock, OutputBounds
  <2> QED
    BY <1>4, <2>3, <2>4, <2>6
<1>6. UNCHANGED <<ran, parse, guardSeen, pending, slots, outs, screen>> /\ guardSent'
  BY DEF SendGuard, readerVars
<1>7. Streamed(n)'
  BY <1>1, <1>2, <1>3, <1>5, <1>6 DEF Streamed
<1>8. RepliesMatch' /\ ReaderNeverBlocks'
  BY <1>6 DEF ClientInv, Matched, RepliesMatch, ReaderNeverBlocks
<1> QED
  BY <1>7, <1>8 DEF Matched

\* Output falls between blocks.
LEMMA MatchedProduces ==
  ASSUME ClientInv, Produce
  PROVE  Matched'
<1>1. PICK n \in Nat : Streamed(n)
  BY DEF ClientInv, Matched
<1>2. UNCHANGED <<ran, guardSent, parse, guardSeen, pending, slots, outs>> /\ guardSent /\ screen' = screen + 1
  BY DEF Produce, readerVars
<1>3. LastNum' = LastNum /\ RunIds' = RunIds
  BY <1>2, NumberKept
<1>4. ClientTypeOK /\ screen \in Nat /\ screen < Len(Outputs) /\ screen + 1 \in 1 .. Len(Outputs)
  BY OutputBounds DEF ClientInv, Produce
<1>5. PICK line \in Lines :
        /\ line.word \in {"output", "extended"} /\ Event(line).data = Outputs[screen + 1]
        /\ stdout' = Append(stdout, line)
  BY <1>4, OutputLineType DEF Produce
<1>6. Reading(ran, stdout', At(parse, n, Len(outs)), At(Outside, LastNum, screen + 1))
  <2>1. stdout \in Seq(Lines) /\ ~Outside.inReply
    BY <1>4 DEF ClientTypeOK, Outside
  <2>2. Reading(ran, stdout, At(parse, n, Len(outs)), At(Outside, LastNum, screen))
    BY <1>1 DEF Streamed
  <2> QED
    BY <1>4, <1>5, <2>1, <2>2, ReadingOutput
<1>7. Streamed(n)'
  BY <1>1, <1>2, <1>3, <1>6 DEF Streamed
<1>8. RepliesMatch' /\ ReaderNeverBlocks'
  BY <1>2 DEF ClientInv, Matched, RepliesMatch, ReaderNeverBlocks
<1> QED
  BY <1>7, <1>8 DEF Matched

\* So does the exit line.
LEMMA MatchedExits ==
  ASSUME ClientInv, TmuxExits
  PROVE  Matched'
<1>1. UNCHANGED <<ran, guardSent, parse, guardSeen, pending, slots, outs, screen>>
  BY DEF TmuxExits, readerVars
<1>2. CASE stdout' = stdout
  BY <1>1, <1>2, MatchedKept DEF ClientInv
<1>3. CASE stdout' = Append(stdout, Line("exit", 0, <<>>))
  <2>1. PICK n \in Nat : Streamed(n)
    BY DEF ClientInv, Matched
  <2>2. LastNum' = LastNum /\ RunIds' = RunIds
    BY <1>1, NumberKept
  <2>3. PICK line \in Lines : line = Line("exit", 0, <<>>)
    BY LineType
  <2>4. line.word = "exit"
    BY <2>3 DEF Line
  <2>5. stdout \in Seq(Lines) /\ ~Outside.inReply
    BY DEF ClientInv, ClientTypeOK, Outside
  <2>6. Reading(ran, stdout', At(parse, n, Len(outs)), At(Outside, LastNum, screen))
    BY <1>3, <2>1, <2>3, <2>4, <2>5, ReadingOutside DEF Streamed
  <2>7. ~guardSent => \A i \in 1 .. Len(stdout') : stdout'[i].word = "exit"
    <3>1. /\ Len(stdout') = Len(stdout) + 1 /\ Len(stdout) \in Nat /\ stdout'[Len(stdout) + 1] = line
          /\ \A i \in 1 .. Len(stdout) : stdout'[i] = stdout[i]
      BY <1>3, <2>3, <2>5, AppendProperties
    <3> QED
      BY <2>1, <2>4, <3>1 DEF Streamed
  <2>8. Streamed(n)'
    BY <1>1, <2>1, <2>2, <2>6, <2>7 DEF Streamed
  <2>9. RepliesMatch' /\ ReaderNeverBlocks'
    BY <1>1 DEF ClientInv, Matched, RepliesMatch, ReaderNeverBlocks
  <2> QED
    BY <2>8, <2>9 DEF Matched
<1> QED
  BY <1>2, <1>3 DEF TmuxExits

\* A command that runs shows what it did, in the block of the next number.
LEMMA MatchedRuns ==
  ASSUME ClientInv, RunCommand
  PROVE  Matched'
<1>1. UNCHANGED <<guardSent, parse, guardSeen, pending, slots, outs, screen>> /\ guardSent /\ alive /\ stdin # <<>>
  BY DEF RunCommand, readerVars
<1>2. CASE Head(stdin).cont /\ skipping
  <2>1. ran' = ran /\ stdout' = stdout
    BY <1>2 DEF RunCommand
  <2> QED
    BY <1>1, <2>1, MatchedKept DEF ClientInv
<1>3. CASE ~(Head(stdin).cont /\ skipping)
  <2>1. ClientTypeOK /\ Numbered /\ Queued /\ RepliesMatch /\ ReaderNeverBlocks
    BY DEF ClientInv, Matched
  <2>2. PICK p \in 1 .. Len(pending) : pending[p] = Head(stdin) /\ ~HasRun(ran, pending[p].id)
    BY <1>1, <1>3, <2>1, NextCommand
  <2>3. PICK target \in Ids : target = pending[p].id
    BY <2>1, QueueItem DEF ClientTypeOK
  <2>4. PICK err \in BOOLEAN :
          /\ stdout' = stdout \o Block(NextNum, Body(target, NextNum), err)
          /\ ran' = [ran EXCEPT ![target] = [num |-> NextNum, ok |-> ~err, n |-> screen]]
    BY <1>3, <2>2, <2>3 DEF RunCommand
  <2>5. PICK entry : entry = [num |-> NextNum, ok |-> ~err, n |-> screen]
    OBVIOUS
  <2>6. entry.num = NextNum
    BY <2>5
  <2>7. (entry.ok <=> ~err) /\ entry.n = screen
    BY <2>5
  <2>8. ran' = [ran EXCEPT ![target] = entry]
    BY <2>4, <2>5
  <2>9. ran'[target] = entry /\ \A id \in Ids : id # target => ran'[id] = ran[id]
    BY <2>1, <2>8 DEF ClientTypeOK, Histories
  <2>10. LastNum' = NextNum /\ RunIds' = RunIds \cup {target}
    BY <1>1, <2>1, <2>2, <2>3, <2>6, <2>8, NumberNext
  <2>11. NextNum \in Nat /\ NextNum >= 2 /\ LastNum \in Nat /\ LastNum = NextNum - 1
    BY <1>1, <2>1, NumberBounds
  <2>12. PICK n \in Nat : Streamed(n)
    BY DEF ClientInv, Matched
  <2>13. Reading(ran', stdout', At(parse, n, Len(outs)), At(Outside, NextNum, screen))
    <3>1. Reading(ran', stdout, At(parse, n, Len(outs)), At(Outside, LastNum, screen))
      <4>1. \A id \in Ids : HasRun(ran, id) => ran'[id] = ran[id]
        BY <2>2, <2>3, <2>9
      <4> QED
        BY <2>12, <4>1, ReadingKept DEF Streamed
    <3>2. PICK body : body = Body(target, NextNum)
      OBVIOUS
    <3>3. /\ body \in Seq(Lines)
          /\ \A i \in 1 .. Len(body) : body[i].word \in {"end", "error"} => body[i].num # NextNum
      BY <2>11, <3>2, BodyKeepsOpen
    <3>4. Shows(ran', target, NextNum, screen, body, err)
      BY <2>6, <2>7, <2>9, <3>2 DEF Shows
    <3>5. PICK l \in Nat : l = LastNum /\ l + 1 = NextNum
      BY <2>11
    <3>6. stdout \in Seq(Lines)
      BY <2>1 DEF ClientTypeOK
    <3>7. Reading(ran', stdout \o Block(l + 1, body, err), At(parse, n, Len(outs)), At(Outside, l + 1, screen))
      BY <3>1, <3>3, <3>4, <3>5, <3>6, <2>1, ReadingBlock, OutputBounds
    <3> QED
      BY <2>4, <3>2, <3>5, <3>7
  <2>14. Streamed(n)'
    <3>1. n <= LastNum' /\ NextNum > n
      BY <2>10, <2>11, <2>12 DEF Streamed
    <3>2. ASSUME NEW i \in 1 .. Len(pending), HasRun(ran', pending[i].id)
          PROVE  ran'[pending[i].id].num > n
      <4>1. pending[i].id \in Ids
        BY <2>1, QueueItem DEF ClientTypeOK
      <4>2. CASE pending[i].id = target
        BY <2>6, <2>9, <3>1, <4>2
      <4>3. CASE pending[i].id # target
        BY <2>9, <2>12, <3>2, <4>1, <4>3 DEF Streamed, HasRun
      <4> QED
        BY <4>2, <4>3
    <3>3. ASSUME NEW id \in RunIds', ran'[id].num > n
          PROVE  \E i \in 1 .. Len(pending) : pending[i].id = id
      <4>1. CASE id = target
        BY <2>3, <4>1
      <4>2. CASE id # target
        <5>1. id \in RunIds /\ id \in Ids
          BY <2>10, <4>2 DEF RunIds
        <5> QED
          BY <2>9, <2>12, <3>3, <4>2, <5>1 DEF Streamed
      <4> QED
        BY <4>1, <4>2
    <3>4. (n >= 1 <=> guardSeen') /\ guardSent'
      BY <1>1, <2>12 DEF Streamed
    <3> QED
      BY <1>1, <2>10, <2>13, <3>1, <3>2, <3>3, <3>4 DEF Streamed
  <2>15. RepliesMatch'
    <3>1. slots[target] = <<>>
      BY <2>1, <2>3, <2>2 DEF ReaderNeverBlocks, ClientTypeOK
    <3> QED
      BY <1>1, <2>1, <2>9, <3>1 DEF RepliesMatch
  <2>16. ReaderNeverBlocks'
    BY <1>1, <2>1 DEF ReaderNeverBlocks
  <2> QED
    BY <2>14, <2>15, <2>16 DEF Matched
<1> QED
  BY <1>2, <1>3

\* A claim has not run.
LEMMA MatchedStarts ==
  ASSUME ClientInv, NEW c \in Calls, StartCall(c)
  PROVE  Matched'
<1>1. UNCHANGED <<ran, guardSent, stdout, parse, guardSeen, slots, outs, screen>> /\ state[c] = "idle"
  BY DEF StartCall, MayStart, tmuxVars, pipeVars, readerVars
<1>2. LastNum' = LastNum /\ RunIds' = RunIds
  BY <1>1, NumberKept
<1>3. PICK n \in Nat : Streamed(n)
  BY DEF ClientInv, Matched
<1>4. PICK q \in Seq(Cmds) : q = Commands(c)
  BY CommandsOfCall
<1>5. /\ Len(pending') = Len(pending) + Len(q) /\ Len(pending) \in Nat /\ Len(q) \in Nat
      /\ \A k \in 1 .. Len(pending) + Len(q) :
           pending'[k] = IF k <= Len(pending) THEN pending[k] ELSE q[k - Len(pending)]
  BY <1>4, ConcatProperties DEF StartCall, ClientInv, ClientTypeOK
<1>6. \A i \in 1 .. Len(pending) : i \in 1 .. Len(pending') /\ pending'[i] = pending[i]
  BY <1>5
<1>7. ASSUME NEW i \in 1 .. Len(pending'), ~(i <= Len(pending))
      PROVE  slots[pending'[i].id] = <<>> /\ ~HasRun(ran, pending'[i].id)
  <2>1. i - Len(pending) \in 1 .. Len(q)
    BY <1>5, <1>7
  <2>2. pending'[i] = q[i - Len(pending)]
    BY <1>5, <1>7
  <2>3. PICK id : id = <<c, i - Len(pending)>>
    OBVIOUS
  <2>4. q[i - Len(pending)].id = id
    BY <1>4, <2>1, <2>3, CommandsOfCall
  <2>5. id \in Ids
    BY <1>4, <2>1, <2>4, QueueItem
  <2>6. id[1] = c
    BY <2>3
  <2> QED
    BY <1>1, <2>2, <2>4, <2>5, <2>6 DEF ClientInv, Fresh
<1>8. \A i \in 1 .. Len(pending') : i <= Len(pending) => i \in 1 .. Len(pending)
  BY <1>5
<1>9. Streamed(n)'
  <2>1. \A i \in 1 .. Len(pending') : HasRun(ran, pending'[i].id) => ran[pending'[i].id].num > n
    BY <1>3, <1>6, <1>7, <1>8 DEF Streamed
  <2>2. \A id \in RunIds : ran[id].num > n => \E i \in 1 .. Len(pending') : pending'[i].id = id
    BY <1>3, <1>6 DEF Streamed
  <2> QED
    BY <1>1, <1>2, <1>3, <2>1, <2>2 DEF Streamed
<1>10. ReaderNeverBlocks'
  <2>1. \A i \in 1 .. Len(pending') : slots[pending'[i].id] = <<>>
    <3>1. DOMAIN pending = 1 .. Len(pending)
      BY LenProperties DEF ClientInv, ClientTypeOK
    <3> QED
      BY <1>6, <1>7, <1>8, <3>1 DEF ClientInv, Matched, ReaderNeverBlocks
  <2>2. DOMAIN pending' = 1 .. Len(pending')
    <3>1. Caller(c)
      BY DEF Caller
    <3>2. ClientTypeOK'
      BY <3>1, CallerType DEF ClientInv
    <3> QED
      BY <3>2, LenProperties DEF ClientTypeOK
  <2> QED
    BY <1>1, <2>1, <2>2 DEF ReaderNeverBlocks
<1>11. RepliesMatch'
  BY <1>1 DEF ClientInv, Matched, RepliesMatch
<1> QED
  BY <1>9, <1>10, <1>11 DEF Matched

\* Neither have the slots a failed write drops.
LEMMA MatchedFails ==
  ASSUME ClientInv, NEW c \in Calls, WriteFails(c)
  PROVE  Matched'
<1>1. UNCHANGED <<ran, guardSent, stdout, parse, guardSeen, slots, outs, screen>>
  BY DEF WriteFails, tmuxVars, pipeVars, readerVars
<1>2. LastNum' = LastNum /\ RunIds' = RunIds
  BY <1>1, NumberKept
<1>3. PICK n \in Nat : Streamed(n)
  BY DEF ClientInv, Matched
<1>4. ClientTypeOK /\ Claimed /\ ReaderNeverBlocks /\ RepliesMatch
  BY DEF ClientInv, Queued, Matched
<1>5. /\ pending' \in Seq(Cmds) /\ Len(pending') = Sent /\ Sent \in Nat /\ Sent <= Len(pending)
      /\ \A i \in 1 .. Sent : pending'[i] = pending[i] /\ i \in 1 .. Len(pending)
  BY <1>4, WriteDrops
<1>6. \A i \in 1 .. Len(pending) : HasRun(ran, pending[i].id) => i \in 1 .. Sent
  <2>1. Len(pending) \in Nat /\ \A i \in 1 .. Len(pending) : i > Sent => ~HasRun(ran, pending[i].id)
    BY <1>4, QueueParts
  <2> QED
    BY <1>5, <2>1
<1>7. Streamed(n)'
  <2>1. \A i \in 1 .. Len(pending') : HasRun(ran, pending'[i].id) => ran[pending'[i].id].num > n
    BY <1>3, <1>5 DEF Streamed
  <2>2. \A id \in RunIds : ran[id].num > n => \E i \in 1 .. Len(pending') : pending'[i].id = id
    BY <1>3, <1>5, <1>6 DEF Streamed, RunIds
  <2> QED
    BY <1>1, <1>2, <1>3, <2>1, <2>2 DEF Streamed
<1>8. ReaderNeverBlocks'
  <2>1. DOMAIN pending = 1 .. Len(pending) /\ DOMAIN pending' = 1 .. Len(pending')
    BY <1>4, <1>5, LenProperties DEF ClientTypeOK
  <2> QED
    BY <1>1, <1>4, <1>5, <2>1 DEF ReaderNeverBlocks
<1>9. RepliesMatch'
  BY <1>1, <1>4 DEF RepliesMatch
<1> QED
  BY <1>7, <1>8, <1>9 DEF Matched

\* A call that takes its reply empties the slot.
LEMMA MatchedTakes ==
  ASSUME ClientInv, NEW c \in Calls, TakeReply(c)
  PROVE  Matched'
<1>1. UNCHANGED <<ran, guardSent, stdout, parse, guardSeen, pending, outs, screen>>
  BY DEF TakeReply, tmuxVars, pipeVars, readerVars
<1>2. LastNum' = LastNum /\ RunIds' = RunIds
  BY <1>1, NumberKept
<1>3. PICK n \in Nat : Streamed(n)
  BY DEF ClientInv, Matched
<1>4. Streamed(n)'
  BY <1>1, <1>2, <1>3 DEF Streamed
<1>5. \A id \in Ids : slots'[id] = slots[id] \/ slots'[id] = <<>>
  <2>1. slots' = [slots EXCEPT ![<<c, await[c]>>] = <<>>]
    BY DEF TakeReply
  <2> QED
    BY <2>1 DEF ClientInv, ClientTypeOK
<1>6. RepliesMatch'
  BY <1>1, <1>5 DEF ClientInv, Matched, RepliesMatch
<1>7. ReaderNeverBlocks'
  BY <1>1, <1>5 DEF ClientInv, Matched, ReaderNeverBlocks, ClientTypeOK, TypeOK
<1> QED
  BY <1>4, <1>6, <1>7 DEF Matched

\* A call leaves the stream in its place.
LEMMA MatchedCaller ==
  ASSUME ClientInv, NEW c \in Calls, Caller(c)
  PROVE  Matched'
<1>1. CASE WriteLine(c)
  BY <1>1, MatchedKept DEF WriteLine, ClientInv, tmuxVars, pipeVars, readerVars
<1>2. CASE CallStranded(c) \/ CallCancelled(c)
  BY <1>2, MatchedKept DEF CallStranded, CallCancelled, LeavesWaiting, ClientInv, tmuxVars, pipeVars, readerVars
<1> QED
  BY <1>1, <1>2, MatchedStarts, MatchedFails, MatchedTakes DEF Caller

-----------------------------------------------------------------------------
(***************************************************************************)
(* The reader.                                                             *)
(***************************************************************************)
\* The next block of a command is that of the oldest slot.
LEMMA ReplyOfHead ==
  ASSUME ClientInv, NEW n \in Nat, Streamed(n), n >= 1, NEW id \in Ids, ran[id].num = n + 1
  PROVE  /\ pending # <<>> /\ pending[1].id = id /\ HasRun(ran, id)
         /\ n + 1 <= LastNum
<1>1. ClientTypeOK /\ Numbered /\ InOrder(ran, pending)
  BY DEF ClientInv, Queued
<1>2. HasRun(ran, id) /\ id \in RunIds
  BY DEF HasRun, RunIds
<1>3. n + 1 <= LastNum
  BY <1>1, NumberBounds
<1>4. PICK i \in 1 .. Len(pending) : pending[i].id = id
  BY <1>2 DEF Streamed
<1>5. Len(pending) \in Nat /\ 1 \in 1 .. Len(pending) /\ pending # <<>>
  <2>1. Len(pending) \in Nat
    BY <1>1 DEF ClientTypeOK
  <2>2. Len(pending) >= 1
    BY <1>4, <2>1
  <2> QED
    BY <1>1, <2>1, <2>2, EmptySeq DEF ClientTypeOK
<1>6. i = 1
  <2> SUFFICES ASSUME i # 1 PROVE FALSE
    OBVIOUS
  <2>1. 1 < i
    OBVIOUS
  <2>2. IF HasRun(ran, pending[1].id) THEN ran[pending[1].id].num < n + 1 ELSE Aborted(ran, pending, 1)
    BY <1>1, <1>2, <1>4, <1>5, <2>1 DEF InOrder
  <2>3. ~Aborted(ran, pending, 1)
    BY DEF Aborted
  <2>4. HasRun(ran, pending[1].id) /\ ran[pending[1].id].num < n + 1
    BY <2>2, <2>3
  <2>5. ran[pending[1].id].num > n
    BY <1>5, <2>4 DEF Streamed
  <2>6. ran[pending[1].id].num \in Nat
    BY <1>1, <1>5, QueueItem, NumberBounds DEF ClientTypeOK
  <2> QED
    BY <2>4, <2>5, <2>6
<1> QED
  BY <1>2, <1>3, <1>4, <1>5, <1>6

\* What a line does to the stream that is left.
LEMMA LineRead ==
  ASSUME ClientInv, NEW n \in Nat, Streamed(n), ReadLine
  PROVE  /\ Faithful(ran, At(parse, n, Len(outs)), Head(stdout))
         /\ Closing(At(parse, n, Len(outs)), Head(stdout)) <=> parse.inReply /\ Closes(parse, Head(stdout))
         /\ Reading(ran, stdout', Read(At(parse, n, Len(outs)), Head(stdout)), At(Outside, LastNum, screen))
         /\ Read(At(parse, n, Len(outs)), Head(stdout)) =
              At(parse', IF Closing(At(parse, n, Len(outs)), Head(stdout)) THEN n + 1 ELSE n, Len(outs'))
<1>1. ClientTypeOK /\ stdout \in Seq(Lines) /\ stdout' = Tail(stdout) /\ stdout # <<>>
  BY DEF ClientInv, ClientTypeOK, ReadLine
<1>2. PICK k \in Nat : k = Len(outs)
  BY LenProperties DEF ClientInv, Emitted
<1>6. PICK a : a = At(parse, n, k)
  OBVIOUS
<1>7. a.p = parse /\ a.n = n /\ a.k = k
  BY <1>1, <1>6, AtType
<1>3. Reading(ran, stdout, At(parse, n, Len(outs)), At(Outside, LastNum, screen))
  BY DEF Streamed
<1>4. /\ Faithful(ran, At(parse, n, Len(outs)), Head(stdout))
      /\ Reading(ran, stdout', Read(At(parse, n, Len(outs)), Head(stdout)), At(Outside, LastNum, screen))
  BY <1>1, <1>3, ReadingTail
<1>5. parse' = feed(parse, Head(stdout)).p
  BY <1>1, ReadCases
<1>8. Len(outs') = IF Outputting(a, Head(stdout)) THEN k + 1 ELSE k
  <2>1. \A e : Len(Append(outs, e)) = k + 1
    <3>1. outs \in Seq([seq: Nat, data: {Outputs[i] : i \in 1 .. Len(Outputs)}])
      BY DEF ClientInv, Emitted
    <3> QED
      BY <1>2, <3>1
  <2> QED
    BY <1>1, <1>2, <1>7, <2>1, ReadEvents DEF Outputting
<1>9. /\ Closing(a, Head(stdout)) <=> parse.inReply /\ Closes(parse, Head(stdout))
      /\ Read(a, Head(stdout)) = At(parse', IF Closing(a, Head(stdout)) THEN n + 1 ELSE n, Len(outs'))
  BY <1>5, <1>7, <1>8 DEF Read, Closing
<1> QED
  BY <1>2, <1>4, <1>6, <1>9

\* A line inside a block or between two.
LEMMA ReadsOn ==
  ASSUME ClientInv, NEW n \in Nat, Streamed(n), ReadLine,
         ~(parse.inReply /\ Closes(parse, Head(stdout)))
  PROVE  UNCHANGED <<guardSeen, pending, slots>> /\ Streamed(n)'
<1>1. ClientTypeOK /\ UNCHANGED <<ran, guardSent, screen>>
  BY DEF ClientInv, ReadLine, tmuxVars
<1>2. UNCHANGED <<guardSeen, pending, slots>> /\ stdout' = Tail(stdout)
  BY <1>1, ReadCases DEF ReadLine
<1>3. LastNum' = LastNum /\ RunIds' = RunIds
  BY <1>1, NumberKept
<1>4. Reading(ran', stdout', At(parse', n, Len(outs')), At(Outside, LastNum', screen'))
  BY <1>1, <1>3, LineRead
<1>5. ASSUME ~guardSent'
      PROVE  ~parse'.inReply /\ \A i \in 1 .. Len(stdout') : stdout'[i].word = "exit"
  <2>1. ~parse.inReply /\ \A i \in 1 .. Len(stdout) : stdout[i].word = "exit"
    BY <1>1, <1>5 DEF Streamed
  <2>2. /\ Head(stdout) = stdout[1] /\ Len(stdout) \in Nat /\ Len(stdout) >= 1
        /\ Len(stdout') = Len(stdout) - 1 /\ \A i \in 1 .. Len(stdout) - 1 : stdout'[i] = stdout[i + 1]
    BY <1>1, <1>2, EmptySeq, HeadTailProperties DEF ClientTypeOK, ReadLine
  <2>3. Head(stdout).word # "begin" /\ Head(stdout) \in Lines
    <3>1. Head(stdout).word = "exit"
      BY <2>1, <2>2
    <3> QED
      BY <1>1, <3>1, ReadCases
  <2>4. parse' = parse
    BY <1>1, <2>1, <2>3, ReadCases, FeedOutside
  <2> QED
    BY <2>1, <2>2, <2>4
<1> QED
  BY <1>1, <1>2, <1>3, <1>4, <1>5 DEF Streamed

\* The end of the guard's block.
LEMMA ReadsGuard ==
  ASSUME ClientInv, Streamed(0), ReadLine, parse.inReply /\ Closes(parse, Head(stdout))
  PROVE  UNCHANGED <<pending, slots>> /\ Streamed(1)'
<1>1. ClientTypeOK /\ Numbered /\ UNCHANGED <<ran, guardSent, screen>>
  BY DEF ClientInv, ReadLine, tmuxVars
<1>2. guardSent /\ ~guardSeen
  BY DEF Streamed
<1>3. guardSeen' /\ UNCHANGED <<pending, slots>>
  BY <1>1, <1>2, ReadCases DEF completeReply
<1>4. LastNum' = LastNum /\ RunIds' = RunIds /\ 1 <= LastNum
  BY <1>1, <1>2, NumberKept, NumberBounds
<1>5. Reading(ran', stdout', At(parse', 1, Len(outs')), At(Outside, LastNum', screen'))
  <2>1. PICK z \in Nat : z = 0 /\ z + 1 = 1
    OBVIOUS
  <2>2. Streamed(z)
    BY <2>1
  <2>3. Reading(ran', stdout', At(parse', z + 1, Len(outs')), At(Outside, LastNum', screen'))
    BY <1>1, <1>4, <2>2, LineRead
  <2> QED
    BY <2>1, <2>3
<1>6. \A id \in Ids : HasRun(ran, id) => ran[id].num > 1
  BY <1>1, NumberBounds DEF Numbered, RunIds
<1>7. \A i \in 1 .. Len(pending) : HasRun(ran, pending[i].id) => ran[pending[i].id].num > 1
  BY <1>1, <1>6, QueueItem DEF ClientTypeOK
<1>8. ASSUME NEW id \in RunIds
      PROVE  \E i \in 1 .. Len(pending) : pending[i].id = id
  BY <1>8 DEF Streamed, RunIds, HasRun
<1> QED
  BY <1>1, <1>2, <1>3, <1>4, <1>5, <1>7, <1>8 DEF Streamed

\* The block that closes is routed to the oldest slot, which is of its command.
LEMMA ReplyRead ==
  ASSUME ClientInv, NEW n \in Nat, Streamed(n), n >= 1, ReadLine,
         parse.inReply /\ Closes(parse, Head(stdout))
  PROVE  \E r \in Replies : \E id \in Ids :
           /\ ran[id].num = n + 1 /\ r.lines = Body(id, n + 1) /\ (r.err <=> ~ran[id].ok)
           /\ pending # <<>> /\ pending[1].id = id /\ HasRun(ran, id) /\ n + 1 <= LastNum
           /\ guardSeen' /\ writing = {} /\ Route(r)
           /\ r.seq = seq + 1 /\ ran[id].n = Len(outs)
<1>1. ClientTypeOK
  BY DEF ClientInv
<1>2. PICK r \in Replies :
        completeReply(r) /\ r.lines = parse.body /\ r.seq = seq + 1 /\ (r.err <=> Head(stdout).word = "error")
  BY <1>1, ReadCases
<1>3. PICK id \in Ids : Shows(ran, id, n + 1, Len(outs), parse.body, Head(stdout).word = "error")
  <2>1. PICK k \in Nat : k = Len(outs)
    BY LenProperties DEF ClientInv, Emitted
  <2>2. PICK a : a = At(parse, n, k)
    OBVIOUS
  <2>3. a.p = parse /\ a.n = n /\ a.k = k
    BY <1>1, <2>2, AtType
  <2>4. FaithfulBlock(ran, a, Head(stdout))
    BY <2>1, <2>2, LineRead DEF Faithful
  <2> QED
    BY <2>1, <2>3, <2>4 DEF FaithfulBlock
<1>4. ran[id].num = n + 1 /\ r.lines = Body(id, n + 1) /\ (r.err <=> ~ran[id].ok) /\ ran[id].n = Len(outs)
  BY <1>2, <1>3 DEF Shows
<1>5. pending # <<>> /\ pending[1].id = id /\ HasRun(ran, id) /\ n + 1 <= LastNum
  BY <1>4, ReplyOfHead
<1>6. guardSeen' /\ writing = {} /\ Route(r)
  <2>1. guardSeen
    BY DEF Streamed
  <2> QED
    BY <1>2, <1>5, <2>1 DEF completeReply
<1> QED
  BY <1>2, <1>4, <1>5, <1>6

\* The end of a command's block goes to the command.
LEMMA ReadsReply ==
  ASSUME ClientInv, NEW n \in Nat, Streamed(n), n >= 1, ReadLine,
         parse.inReply /\ Closes(parse, Head(stdout))
  PROVE  Matched' /\ Queued' /\ Fresh'
<1>1. ClientTypeOK /\ Numbered /\ Fresh /\ Queued /\ RepliesMatch /\ ReaderNeverBlocks
  BY DEF ClientInv, Matched
<1>2. UNCHANGED <<ran, guardSent, screen, alive, skipping, stdin, writing, state>>
  BY DEF ReadLine, tmuxVars, callVars
<1>3. PICK r \in Replies : \E id \in Ids :
        /\ ran[id].num = n + 1 /\ r.lines = Body(id, n + 1) /\ (r.err <=> ~ran[id].ok)
        /\ pending # <<>> /\ pending[1].id = id /\ HasRun(ran, id) /\ n + 1 <= LastNum
        /\ guardSeen' /\ writing = {} /\ Route(r)
  BY ReplyRead
<1>4. PICK id \in Ids :
        /\ ran[id].num = n + 1 /\ r.lines = Body(id, n + 1) /\ (r.err <=> ~ran[id].ok)
        /\ pending # <<>> /\ pending[1].id = id /\ HasRun(ran, id) /\ n + 1 <= LastNum
        /\ guardSeen' /\ writing = {} /\ Route(r)
  BY <1>3
<1>5. ran[id].num = n + 1 /\ r.lines = Body(id, n + 1) /\ (r.err <=> ~ran[id].ok)
  BY <1>4
<1>6. pending # <<>> /\ pending[1].id = id /\ HasRun(ran, id) /\ n + 1 <= LastNum
  BY <1>4
<1>7. guardSeen' /\ writing = {} /\ Route(r)
  BY <1>4
<1>8. InOrder(ran, pending) /\ Distinct(pending)
  BY <1>1 DEF Queued
<1>9. PICK m \in 1 .. Len(pending) :
        /\ pending' \in Seq(Cmds) /\ Len(pending') = Len(pending) - m
        /\ \A i \in 1 .. Len(pending') : pending'[i] = pending[i + m] /\ i + m \in 1 .. Len(pending)
        /\ \A i \in 2 .. m : Aborted(ran, pending, i)
        /\ slots'[pending[1].id] = <<r>>
        /\ \A i \in 2 .. m : slots'[pending[i].id] = <<AbortReply>>
        /\ \A other \in Ids : (\A i \in 1 .. m : pending[i].id # other) => slots'[other] = slots[other]
  BY <1>1, <1>5, <1>6, <1>7, <1>8, RouteServes
<1>10. m \in Nat /\ m >= 1 /\ Len(pending) \in Nat /\ 1 \in 1 .. Len(pending) /\ 1 \in 1 .. m
       /\ \A i \in 1 .. m : i \in 1 .. Len(pending)
  BY <1>1 DEF ClientTypeOK
<1>11. Queued'
  BY <1>1, <1>2, <1>5, <1>6, <1>7, QueuedRoutes
<1>12. RepliesMatch'
  <2> SUFFICES ASSUME NEW other \in Ids, slots'[other] # <<>>
               PROVE  \/ Head(slots'[other]) = AbortReply
                      \/ /\ Head(slots'[other]).lines = Body(other, ran[other].num)
                         /\ Head(slots'[other]).err = ~ran[other].ok
    BY <1>2 DEF RepliesMatch, Body
  <2>1. CASE \A i \in 1 .. m : pending[i].id # other
    BY <1>1, <1>9, <2>1 DEF RepliesMatch
  <2>2. CASE other = id
    <3>1. Head(slots'[other]) = r
      BY <1>6, <1>9, <2>2
    <3>2. r.err \in BOOLEAN /\ ran[other].ok \in BOOLEAN
      BY <1>1 DEF Replies, ClientTypeOK, Histories
    <3> QED
      BY <1>5, <2>2, <3>1, <3>2
  <2>3. ASSUME NEW i \in 2 .. m, pending[i].id = other
        PROVE  Head(slots'[other]) = AbortReply
    <3>1. slots'[other] = <<AbortReply>>
      BY <1>9, <2>3
    <3> QED
      BY <3>1
  <2>4. \A i \in 1 .. m : i = 1 \/ i \in 2 .. m
    OBVIOUS
  <2> QED
    BY <1>6, <2>1, <2>2, <2>3, <2>4
<1>13. \A i \in 1 .. Len(pending') : \A k \in 1 .. m : pending[k].id # pending'[i].id
  <2> SUFFICES ASSUME NEW i \in 1 .. Len(pending'), NEW k \in 1 .. m, pending[k].id = pending'[i].id
               PROVE  FALSE
    OBVIOUS
  <2>1. pending[k].id = pending[i + m].id /\ i + m \in 1 .. Len(pending) /\ k \in 1 .. Len(pending)
    BY <1>9, <1>10
  <2>2. k = i + m
    BY <1>8, <2>1 DEF Distinct
  <2>3. Len(pending') \in Nat
    BY <1>9
  <2> QED
    BY <1>10, <2>2, <2>3
<1>14. ReaderNeverBlocks'
  <2>1. DOMAIN pending = 1 .. Len(pending) /\ DOMAIN pending' = 1 .. Len(pending')
    BY <1>1, <1>9, LenProperties DEF ClientTypeOK
  <2>2. ASSUME NEW i \in 1 .. Len(pending')
        PROVE  slots'[pending'[i].id] = <<>>
    <3>1. pending'[i].id \in Ids
      BY <1>9, QueueItem
    <3>2. slots'[pending'[i].id] = slots[pending'[i].id]
      BY <1>9, <1>13, <3>1
    <3>3. slots[pending'[i].id] = <<>>
      <4>1. pending'[i] = pending[i + m] /\ i + m \in DOMAIN pending
        BY <1>9, <2>1
      <4>2. slots[pending[i + m].id] = <<>>
        BY <1>1, <4>1 DEF ReaderNeverBlocks
      <4> QED
        BY <4>1, <4>2
    <3> QED
      BY <3>2, <3>3
  <2> QED
    BY <2>1, <2>2 DEF ReaderNeverBlocks
<1>15. Streamed(n + 1)'
  <2>1. LastNum' = LastNum /\ RunIds' = RunIds
    BY <1>2, NumberKept
  <2>2. Reading(ran', stdout', At(parse', n + 1, Len(outs')), At(Outside, LastNum', screen'))
    BY <1>2, <2>1, LineRead
  <2>3. guardSent'
    BY <1>2 DEF Streamed
  <2>4. ASSUME NEW i \in 1 .. Len(pending'), HasRun(ran, pending'[i].id)
        PROVE  ran[pending'[i].id].num > n + 1
    <3>1. pending'[i] = pending[i + m] /\ i + m \in 1 .. Len(pending) /\ 1 < i + m
      <4>1. Len(pending') \in Nat
        BY <1>9
      <4> QED
        BY <1>9, <1>10, <4>1
    <3>2. ran[pending[1].id].num < ran[pending[i + m].id].num
      BY <1>6, <1>8, <1>10, <2>4, <3>1 DEF InOrder
    <3> QED
      BY <1>5, <1>6, <3>1, <3>2
  <2>5. ASSUME NEW other \in RunIds, ran[other].num > n + 1
        PROVE  \E i \in 1 .. Len(pending') : pending'[i].id = other
    <3>1. other \in Ids /\ HasRun(ran, other) /\ ran[other].num \in Nat
      BY <1>1, NumberBounds DEF RunIds
    <3>2. PICK i \in 1 .. Len(pending) : pending[i].id = other
      <4>1. ran[other].num > n
        BY <2>5, <3>1
      <4> QED
        BY <4>1 DEF Streamed
    <3>3. i # 1
      BY <1>5, <1>6, <2>5, <3>1, <3>2
    <3>4. i \notin 2 .. m
      BY <1>8, <1>9, <3>1, <3>2 DEF InOrder
    <3>5. i - m \in 1 .. Len(pending') /\ i - m + m = i
      BY <1>9, <1>10, <3>3, <3>4
    <3>6. pending'[i - m] = pending[i]
      BY <1>9, <3>5
    <3> QED
      BY <3>2, <3>5, <3>6
  <2> QED
    BY <1>2, <1>6, <1>7, <2>1, <2>2, <2>3, <2>4, <2>5 DEF Streamed
<1>16. Fresh'
  <2> SUFFICES ASSUME NEW other \in Ids, state[other[1]] = "idle"
               PROVE  /\ slots'[other] = <<>> /\ ~HasRun(ran, other)
                      /\ \A i \in 1 .. Len(pending') : pending'[i].id # other
    BY <1>1, <1>2 DEF Fresh
  <2>1. /\ slots[other] = <<>> /\ ~HasRun(ran, other)
        /\ \A i \in 1 .. Len(pending) : pending[i].id # other
    BY <1>1 DEF Fresh
  <2>2. slots'[other] = slots[other]
    <3>1. \A i \in 1 .. m : pending[i].id # other
      BY <1>10, <2>1
    <3> QED
      BY <1>9, <3>1
  <2>3. \A i \in 1 .. Len(pending') : pending'[i].id # other
    BY <1>9, <2>1
  <2> QED
    BY <2>1, <2>2, <2>3
<1> QED
  BY <1>11, <1>12, <1>14, <1>15, <1>16 DEF Matched

\* Every line leaves the stream and the queue as they should be.
LEMMA ReadsLine ==
  ASSUME ClientInv, ReadLine
  PROVE  Matched' /\ Queued' /\ Fresh'
<1>1. PICK n \in Nat : Streamed(n)
  BY DEF ClientInv, Matched
<1>2. /\ ClientTypeOK /\ Fresh /\ Queued /\ RepliesMatch /\ ReaderNeverBlocks
      /\ UNCHANGED <<ran, alive, skipping, stdin, writing, state>>
  BY DEF ClientInv, Matched, ReadLine, tmuxVars, callVars
<1>3. CASE ~(parse.inReply /\ Closes(parse, Head(stdout)))
  <2>1. UNCHANGED <<guardSeen, pending, slots>> /\ Streamed(n)'
    BY <1>1, <1>3, ReadsOn
  <2>2. RepliesMatch' /\ ReaderNeverBlocks'
    BY <1>2, <2>1 DEF RepliesMatch, ReaderNeverBlocks
  <2>3. Queued'
    BY <1>2, <2>1, QueuedKept
  <2>4. Fresh'
    BY <1>2, <2>1 DEF Fresh
  <2> QED
    BY <2>1, <2>2, <2>3, <2>4 DEF Matched
<1>4. CASE parse.inReply /\ Closes(parse, Head(stdout)) /\ n = 0
  <2>1. UNCHANGED <<pending, slots>> /\ Streamed(1)'
    BY <1>1, <1>4, ReadsGuard
  <2>2. RepliesMatch' /\ ReaderNeverBlocks'
    BY <1>2, <2>1 DEF RepliesMatch, ReaderNeverBlocks
  <2>3. Queued'
    BY <1>2, <2>1, QueuedKept
  <2>4. Fresh'
    BY <1>2, <2>1 DEF Fresh
  <2> QED
    BY <2>1, <2>2, <2>3, <2>4 DEF Matched
<1>5. CASE parse.inReply /\ Closes(parse, Head(stdout)) /\ n >= 1
  BY <1>1, <1>5, ReadsReply
<1> QED
  BY <1>1, <1>3, <1>4, <1>5

-----------------------------------------------------------------------------
(***************************************************************************)
(* What is passed on.                                                      *)
(***************************************************************************)
\* The screen of tmux only goes on, and only the reader passes output on.
LEMMA EmittedKept ==
  ASSUME ClientTypeOK, Emitted, UNCHANGED <<outs, seq>>, screen' = screen \/ screen' = screen + 1
  PROVE  Emitted'
<1>1. screen \in Nat /\ Len(outs) \in Nat
  BY OutputBounds, LenProperties DEF Emitted
<1>2. Len(outs') <= screen'
  BY <1>1 DEF Emitted, OutputExact
<1> QED
  BY <1>2 DEF Emitted, OutputExact

\* An output line is the panes' next output.
LEMMA EmittedReads ==
  ASSUME ClientInv, ReadLine
  PROVE  Emitted'
<1>1. /\ ClientTypeOK /\ Emitted /\ screen' = screen /\ screen \in Nat /\ seq \in Nat
      /\ stdout \in Seq(Lines) /\ stdout # <<>>
  BY OutputBounds DEF ClientInv, ReadLine, tmuxVars, ClientTypeOK, TypeOK
<1>2. PICK n \in Nat : Streamed(n)
  BY DEF ClientInv, Matched
<1>3. PICK k \in Nat : k = Len(outs)
  BY <1>1, LenProperties DEF Emitted
<1>4. PICK E : E = [seq: Nat, data: {Outputs[i] : i \in 1 .. Len(Outputs)}]
  OBVIOUS
<1>5. outs \in Seq(E) /\ DOMAIN outs = 1 .. k /\ k <= screen /\ seq' = seq + 1
      /\ \A i \in 1 .. k : outs[i].seq <= seq /\ outs[i].data = Outputs[i] /\ outs[i] \in E
  <2>1. outs \in Seq(E) /\ DOMAIN outs = 1 .. k
    BY <1>1, <1>3, <1>4, LenProperties DEF Emitted
  <2>2. \A i \in 1 .. k : outs[i] \in E
    BY <1>3, <2>1, ElementOfSeq
  <2> QED
    BY <1>1, <1>3, <2>1, <2>2, ReadEvents DEF Emitted, OutputExact
<1>6. CASE ~(~parse.inReply /\ Head(stdout).word \in {"output", "extended"})
  <2>1. outs' = outs
    BY <1>1, <1>6, ReadEvents
  <2>2. \A i \in 1 .. k : outs[i].seq <= seq + 1
    <3>1. \A i \in 1 .. k : outs[i].seq \in Nat /\ outs[i].seq <= seq
      BY <1>4, <1>5
    <3> QED
      BY <1>1, <3>1
  <2> QED
    BY <1>1, <1>3, <1>5, <2>1, <2>2 DEF Emitted, OutputExact
<1>7. CASE ~parse.inReply /\ Head(stdout).word \in {"output", "extended"}
  <2>1. PICK a : a = At(parse, n, k)
    OBVIOUS
  <2>2. a.p = parse /\ a.k = k
    BY <1>1, <2>1, AtType
  <2>3. Outputting(a, Head(stdout)) /\ Faithful(ran, a, Head(stdout))
    BY <1>2, <1>3, <1>7, <2>1, <2>2, LineRead DEF Outputting
  <2>4. k + 1 \in 1 .. Len(Outputs) /\ Event(Head(stdout)).data = Outputs[k + 1]
    BY <2>2, <2>3 DEF Faithful, FaithfulOutput
  <2>5. PICK ev : ev = [seq |-> seq + 1, data |-> Outputs[k + 1]]
    OBVIOUS
  <2>6. ev \in E /\ ev.seq = seq + 1 /\ ev.data = Outputs[k + 1]
    BY <1>1, <1>4, <2>4, <2>5
  <2>7. outs' = Append(outs, ev)
    BY <1>1, <1>7, <2>4, <2>5, ReadEvents
  <2>8. /\ outs' \in Seq(E) /\ Len(outs') = k + 1 /\ DOMAIN outs' = 1 .. k + 1
        /\ outs'[k + 1] = ev /\ \A i \in 1 .. k : outs'[i] = outs[i]
    BY <1>3, <1>5, <2>6, <2>7, AppendProperties, LenProperties
  <2>9. k + 1 <= screen
    <3>1. Reading(ran, stdout', Read(a, Head(stdout)), At(Outside, LastNum, screen))
      BY <1>2, <1>3, <2>1, LineRead
    <3>2. Read(a, Head(stdout)).k = k + 1
      BY <2>2, <2>3 DEF Read, At
    <3>3. Read(a, Head(stdout)).k <= At(Outside, LastNum, screen).k
      <4>1. Len(stdout') \in Nat
        BY <1>1, ReadCases, LenProperties DEF ReadLine
      <4>2. 0 \in 0 .. Len(stdout')
        BY <4>1
      <4> QED
        BY <3>1, <4>2 DEF Reading
    <3>4. At(Outside, LastNum, screen).k = screen
      BY DEF At
    <3> QED
      BY <3>2, <3>3, <3>4
  <2>10. \A i \in 1 .. k + 1 : outs'[i].data = Outputs[i] /\ outs'[i].seq <= seq + 1
    <3>1. \A i \in 1 .. k : outs[i].seq \in Nat /\ outs[i].seq <= seq + 1
      <4>1. \A i \in 1 .. k : outs[i].seq \in Nat /\ outs[i].seq <= seq
        BY <1>4, <1>5
      <4> QED
        BY <1>1, <4>1
    <3>2. \A i \in 1 .. k + 1 : i = k + 1 \/ i \in 1 .. k
      OBVIOUS
    <3>3. seq + 1 <= seq + 1
      BY <1>1
    <3> QED
      BY <1>5, <2>6, <2>8, <3>1, <3>2, <3>3
  <2> QED
    BY <1>1, <1>4, <1>5, <2>8, <2>9, <2>10 DEF Emitted, OutputExact
<1> QED
  BY <1>6, <1>7

-----------------------------------------------------------------------------
(***************************************************************************)
(* The theorems.                                                           *)
(***************************************************************************)
\* The invariant holds at first.
LEMMA InitInv == Init => ClientInv
<1> SUFFICES ASSUME Init PROVE ClientInv
  OBVIOUS
<1>1. ClientTypeOK
  BY InitType
<1>2. \A id \in Ids : ran[id].num = 0
  BY DEF Init, NotRun
<1>3. RunIds = {} /\ IsFiniteSet(RunIds)
  BY <1>2, FS_EmptySet DEF RunIds, HasRun
<1>4. Numbered
  BY <1>3 DEF Numbered
<1>5. Len(pending) = 0 /\ Len(stdin) = 0 /\ Len(stdout) = 0
  BY EmptySeq DEF Init
<1>6. Fresh
  BY <1>2, <1>5 DEF Fresh, HasRun, Init
<1>7. Queued
  <2>1. Claim = <<>> /\ Len(Claim) = 0 /\ Sent = 0 /\ Offset = 0
    <3>1. Claim = <<>>
      BY DEF Claim, Init
    <3>2. Len(Claim) = 0
      BY <3>1
    <3> QED
      <4>1. Sent = Len(pending) - Len(Claim) /\ Offset = Sent - Len(stdin)
        BY DEF Sent, Offset
      <4> QED
        BY <1>5, <3>1, <3>2, <4>1
  <2>2. Distinct(pending) /\ InOrder(ran, pending)
    BY <1>5 DEF Distinct, InOrder
  <2>3. Claimed
    BY <2>1 DEF Claimed
  <2>4. InputQueued /\ SkipsAborted
    BY <1>5, <2>1 DEF InputQueued, SkipsAborted
  <2> QED
    BY <2>2, <2>3, <2>4 DEF Queued
<1>8. RepliesMatch /\ ReaderNeverBlocks
  <2>1. DOMAIN pending = {}
    BY DEF Init
  <2> QED
    BY <2>1 DEF RepliesMatch, ReaderNeverBlocks, Init
<1>9. Streamed(0)
  <2>1. LastNum = 0 /\ parse = Outside /\ stdout = <<>> /\ ~guardSent /\ ~guardSeen
    BY DEF LastNum, Init
  <2>4. Len(outs) = 0 /\ screen = 0
    BY EmptySeq DEF Init
  <2>2. At(Outside, 0, 0) \in Readers /\ ~Outside.inReply
    BY <1>1, <2>1, AtType DEF Readers
  <2>3. Reading(ran, stdout, At(parse, 0, Len(outs)), At(Outside, LastNum, screen))
    BY <2>1, <2>2, <2>4, ReadingEmpty
  <2> QED
    BY <1>3, <1>5, <2>1, <2>2, <2>3 DEF Streamed
<1>10. Emitted
  <2>1. outs = <<>> /\ Len(outs) = 0 /\ DOMAIN outs = {} /\ screen = 0
    BY EmptySeq DEF Init
  <2>2. outs \in Seq([seq: Nat, data: {Outputs[i] : i \in 1 .. Len(Outputs)}])
    BY <2>1, EmptySeq
  <2> QED
    BY <2>1, <2>2 DEF Emitted, OutputExact
<1> QED
  BY <1>1, <1>4, <1>6, <1>7, <1>8, <1>9, <1>10 DEF ClientInv, Matched

\* What tmux does keeps the invariant.
LEMMA TmuxKeeps ==
  ASSUME ClientInv, Tmux
  PROVE  ClientInv'
<1>1. ClientTypeOK /\ Numbered /\ Fresh /\ Queued /\ Emitted
  BY DEF ClientInv
<1>2. ClientTypeOK'
  <2>1. NextNum \in Nat /\ NextNum >= 2
    BY <1>1, NumberBounds
  <2> QED
    BY <1>1, <2>1, TmuxType
<1>3. Fresh'
  BY <1>1, FreshTmux
<1>8. Emitted'
  <2>1. UNCHANGED <<outs, seq>> /\ (screen' = screen \/ screen' = screen + 1)
    BY DEF Tmux, SendGuard, RunCommand, Produce, TmuxExits, readerVars
  <2> QED
    BY <1>1, <2>1, EmittedKept
<1>4. CASE SendGuard
  <2>1. UNCHANGED <<ran, pending, writing, stdin, skipping>> /\ (alive' => alive)
    BY <1>4 DEF SendGuard
  <2> QED
    BY <1>1, <1>2, <1>3, <1>8, <1>4, <2>1, NumberGuard, MatchedGuard, QueuedKept DEF ClientInv
<1>5. CASE RunCommand
  <2>1. Numbered'
    <3>1. CASE Head(stdin).cont /\ skipping
      BY <1>1, <1>5, <3>1, NumberKept DEF RunCommand
    <3>2. CASE ~(Head(stdin).cont /\ skipping)
      <4>1. guardSent /\ guardSent' /\ alive /\ stdin # <<>>
        BY <1>5 DEF RunCommand
      <4>2. PICK p \in 1 .. Len(pending) : pending[p] = Head(stdin) /\ ~HasRun(ran, pending[p].id)
        BY <1>1, <3>2, <4>1, NextCommand
      <4>3. PICK target \in Ids : target = pending[p].id
        BY <1>1, QueueItem DEF ClientTypeOK
      <4>4. PICK entry : entry.num = NextNum /\ ran' = [ran EXCEPT ![target] = entry]
        <5>1. PICK err \in BOOLEAN :
                ran' = [ran EXCEPT ![target] = [num |-> NextNum, ok |-> ~err, n |-> screen]]
          BY <1>5, <3>2, <4>2, <4>3 DEF RunCommand
        <5>2. PICK entry : entry = [num |-> NextNum, ok |-> ~err, n |-> screen]
          OBVIOUS
        <5>3. entry.num = NextNum
          BY <5>2
        <5> QED
          BY <5>1, <5>2, <5>3
      <4> QED
        BY <1>1, <4>1, <4>2, <4>3, <4>4, NumberNext
    <3> QED
      BY <3>1, <3>2
  <2> QED
    BY <1>1, <1>2, <1>3, <1>8, <1>5, <2>1, QueuedSkips, QueuedRuns, MatchedRuns DEF ClientInv
<1>6. CASE Produce
  <2>1. UNCHANGED <<ran, guardSent, pending, writing, stdin, skipping, alive>>
    BY <1>6 DEF Produce
  <2> QED
    BY <1>1, <1>2, <1>3, <1>8, <1>6, <2>1, NumberKept, MatchedProduces, QueuedKept DEF ClientInv
<1>7. CASE TmuxExits
  <2>1. UNCHANGED <<ran, guardSent>>
    BY <1>7 DEF TmuxExits
  <2> QED
    BY <1>1, <1>2, <1>3, <1>8, <1>7, <2>1, NumberKept, MatchedExits, QueuedExits DEF ClientInv
<1> QED
  BY <1>4, <1>5, <1>6, <1>7 DEF Tmux

\* So does what a call does.
LEMMA CallerKeeps ==
  ASSUME ClientInv, NEW c \in Calls, Caller(c)
  PROVE  ClientInv'
<1>1. ClientTypeOK /\ Numbered /\ Fresh /\ Queued /\ Emitted
  BY DEF ClientInv
<1>2. UNCHANGED <<ran, guardSent, outs, seq, screen>>
  BY DEF Caller, StartCall, WriteLine, WriteFails, TakeReply, CallStranded, CallCancelled, LeavesWaiting,
         tmuxVars, readerVars
<1>5. Emitted'
  BY <1>1, <1>2, EmittedKept
<1>3. ClientTypeOK' /\ Numbered' /\ Fresh' /\ Matched'
  BY <1>1, <1>2, CallerType, NumberKept, FreshCaller, MatchedCaller
<1>4. Queued'
  <2>1. CASE TakeReply(c) \/ CallStranded(c) \/ CallCancelled(c)
    BY <1>1, <2>1, QueuedKept
    DEF TakeReply, CallStranded, CallCancelled, LeavesWaiting, tmuxVars, pipeVars
  <2> QED
    BY <1>1, <2>1, QueuedStarts, QueuedWrites, QueuedFails DEF Caller
<1> QED
  BY <1>3, <1>4, <1>5 DEF ClientInv

\* And what the client's goroutines do.
LEMMA ClientKeeps ==
  ASSUME ClientInv, Reader \/ Close \/ Deliver \/ PumpCloses \/ UNCHANGED vars
  PROVE  ClientInv'
<1>1. ClientTypeOK /\ Numbered /\ Fresh /\ Queued /\ Emitted /\ Matched
  BY DEF ClientInv
<1>2. UNCHANGED <<ran, guardSent>>
  BY DEF Reader, ReadLine, ReadEnd, Close, Deliver, PumpCloses, vars, tmuxVars
<1>3. ClientTypeOK' /\ Numbered'
  BY <1>1, <1>2, ReaderType, NumberKept
<1>4. CASE ReadLine
  BY <1>3, <1>4, ReadsLine, EmittedReads DEF ClientInv
<1>5. CASE ~ReadLine
  <2>1. UNCHANGED <<ran, guardSent, stdout, parse, guardSeen, pending, slots, outs, screen, seq>>
    BY <1>5 DEF Reader, ReadEnd, Close, Deliver, PumpCloses, vars, tmuxVars, pipeVars, readerVars
  <2>2. UNCHANGED <<writing, stdin, skipping, alive, state>>
    BY <1>5 DEF Reader, ReadEnd, Close, Deliver, PumpCloses, vars, tmuxVars, pipeVars, callVars
  <2>3. Queued' /\ Matched'
    BY <1>1, <2>1, <2>2, QueuedKept, MatchedKept
  <2>5. Emitted'
    BY <1>1, <2>1, EmittedKept
  <2>4. Fresh'
    BY <1>1, <2>1, <2>2 DEF Fresh
  <2> QED
    BY <1>3, <2>3, <2>4, <2>5 DEF ClientInv
<1> QED
  BY <1>4, <1>5

\* The invariant is inductive.
LEMMA NextInv == ClientInv /\ [Next]_vars => ClientInv'
<1> SUFFICES ASSUME ClientInv, [Next]_vars PROVE ClientInv'
  OBVIOUS
<1>1. CASE Tmux
  BY <1>1, TmuxKeeps
<1>2. CASE Reader \/ Close \/ Deliver \/ PumpCloses \/ UNCHANGED vars
  BY <1>2, ClientKeeps
<1>3. ASSUME NEW c \in Calls, Caller(c)
      PROVE  ClientInv'
  BY <1>3, CallerKeeps
<1> QED
  BY <1>1, <1>2, <1>3 DEF Next

\* And it holds in every behaviour.
LEMMA InvHolds == Spec => []ClientInv
  BY InitInv, NextInv, PTL DEF Spec

\* The client's state keeps its types: one holder of mu at most, and no slot in
\* the queue but of a command of some call.
THEOREM ClientTypeCorrect == Spec => []TypeOK
<1>1. ClientInv => TypeOK
  BY DEF ClientInv, ClientTypeOK
<1> QED
  BY <1>1, InvHolds, PTL

\* readLoop's send to a reply channel finds it empty: a slot that is queued has
\* never been answered, so no call that gave up can block the stream.
THEOREM ReaderIsNeverBlocked == Spec => []ReaderNeverBlocks
<1>1. ClientInv => ReaderNeverBlocks
  BY DEF ClientInv, Matched
<1> QED
  BY <1>1, InvHolds, PTL

\* A call is given the reply of its own command, line by line and with its own
\* outcome, or the abort of its line: completeReply's matching by order alone
\* does not shift by failed writes, cancelled calls or aborted lines, by the
\* attach command's own reply, or by replies that show lines of the protocol.
THEOREM RepliesAreMatched == Spec => []RepliesMatch
<1>1. ClientInv => RepliesMatch
  BY DEF ClientInv, Matched
<1> QED
  BY <1>1, InvHolds, PTL

\* The output events carry the bytes the panes wrote, in order and all that was
\* read of them: decodeOutput undoes whichever escapes tmux chose, a reply that
\* shows output adds none, and the form of %extended-output loses none.
THEOREM OutputIsExact == Spec => []OutputExact
<1>1. ClientInv => OutputExact
  BY DEF ClientInv, Emitted
<1> QED
  BY <1>1, InvHolds, PTL

-----------------------------------------------------------------------------
(***************************************************************************)
(* The refinement of CommandService: the further invariants it needs.      *)
(***************************************************************************)
\* Command j of the input is the first of its line, or follows the one before.
InLine(q, j) ==
  /\ q[j].cont <=> q[j].id[2] > 1
  /\ j > 1 /\ q[j].cont => q[j - 1].id = <<q[j].id[1], q[j].id[2] - 1>>

Whole == \A j \in 1 .. Len(stdin) : InLine(stdin, j)

\* No output comes between the commands of a line.
Together ==
  stdin # <<>> /\ Head(stdin).cont /\ ~skipping =>
    \A i \in 1 .. Head(stdin).id[2] - 1 :
      LET earlier == ran[<<Head(stdin).id[1], i>>] IN earlier.ok /\ earlier.n = screen

\* A command runs after the earlier ones of its line, which succeeded.
Stepwise ==
  /\ \A id \in Ids : ran[id].ok => HasRun(ran, id)
  /\ \A c \in Calls : \A i, l \in 1 .. CallLen[c] :
       i < l /\ HasRun(ran, <<c, l>>) => ran[<<c, i>>].ok

\* The output events before position s.
Before(s) == {i \in DOMAIN outs : outs[i].seq < s}

\* Position s has been reached, after the output that the command's screen held.
Placed(id, s) == s \in Nat /\ s <= seq /\ Before(s) = 1 .. ran[id].n

\* The replies that a call has taken.
Taken(c) == IF state[c] = "ok" THEN CallLen[c] ELSE await[c] - 1

\* What a call has been told is so: its commands succeeded, at that position.
Told ==
  /\ first \in [Calls -> Nat]
  /\ \A id \in Ids : slots[id] # <<>> /\ ~Head(slots[id]).err => Placed(id, Head(slots[id]).seq)
  /\ \A c \in Calls : /\ \A i \in 1 .. Taken(c) : ran[<<c, i>>].ok
                      /\ Taken(c) > 0 => Placed(<<c, 1>>, first[c])

Writers == \A c \in writing : state[c] = "writing"

ServiceInv == Writers /\ Whole /\ Together /\ Stepwise /\ Told

\* At first no command has run and no call has been told anything.
LEMMA ServiceInit == Init => ServiceInv
<1> SUFFICES ASSUME Init PROVE ServiceInv
  OBVIOUS
<1>1. Len(stdin) = 0 /\ stdin = <<>>
  BY EmptySeq DEF Init
<1>2. Writers /\ Whole /\ Together
  BY <1>1 DEF Init, Writers, Whole, Together
<1>3. \A id \in Ids : ran[id].num = 0 /\ ~ran[id].ok
  BY DEF Init, NotRun
<1>4. \A id \in Ids : ~HasRun(ran, id) /\ ~ran[id].ok /\ slots[id] = <<>>
  BY <1>3 DEF HasRun, Init
<1>5. Stepwise
  <2>1. \A c \in Calls : \A l \in 1 .. CallLen[c] : <<c, l>> \in Ids
    BY DEF Ids
  <2> QED
    BY <1>4, <2>1 DEF Stepwise
<1>6. \A c \in Calls : Taken(c) = 0
  BY DEF Taken, Init
<1>7. first \in [Calls -> Nat]
  BY DEF Init
<1>8. Told
  BY <1>4, <1>6, <1>7 DEF Told
<1> QED
  BY <1>2, <1>5, <1>8 DEF ServiceInv

\* Whoever holds mu is writing.
LEMMA WritersKept ==
  ASSUME ClientTypeOK, Writers, Next
  PROVE  Writers'
<1>1. CASE UNCHANGED <<writing, state>>
  BY <1>1 DEF Writers
<1>2. ASSUME NEW c \in Calls, StartCall(c)
      PROVE  Writers'
  <2>1. writing' = {c} /\ state'[c] = "writing"
    BY <1>2 DEF StartCall, Becomes, ClientTypeOK, TypeOK
  <2> QED
    BY <2>1 DEF Writers
<1>3. ASSUME NEW c \in Calls, WriteLine(c) \/ WriteFails(c)
      PROVE  Writers'
  BY <1>3 DEF WriteLine, WriteFails, Writers
<1>4. ASSUME NEW c \in Calls, TakeReply(c) \/ CallStranded(c) \/ CallCancelled(c)
      PROVE  Writers'
  <2>1. state[c] = "waiting" /\ writing' = writing /\ \A d \in Calls : d # c => state'[d] = state[d]
    BY <1>4 DEF TakeReply, CallStranded, CallCancelled, LeavesWaiting, Becomes, ClientTypeOK, TypeOK
  <2>2. writing \subseteq Calls
    BY DEF ClientTypeOK, TypeOK
  <2> QED
    BY <2>1, <2>2 DEF Writers
<1>5. Tmux \/ Reader \/ Close \/ Deliver \/ PumpCloses => UNCHANGED <<writing, state>>
  BY DEF Tmux, SendGuard, RunCommand, Produce, TmuxExits, Reader, ReadLine, ReadEnd, Close, Deliver, PumpCloses,
         callVars
<1> QED
  BY <1>1, <1>2, <1>3, <1>4, <1>5 DEF Next, Caller

\* What leaves the input and the history alone.
LEMMA InputKept ==
  ASSUME Next, ~RunCommand, ~Produce, ~TmuxExits, ~(\E c \in Calls : WriteLine(c))
  PROVE  UNCHANGED <<stdin, skipping, ran, screen>>
<1>1. SendGuard \/ Reader \/ Close \/ Deliver \/ PumpCloses => UNCHANGED <<stdin, skipping, ran, screen>>
  BY DEF SendGuard, Reader, ReadLine, ReadEnd, Close, Deliver, PumpCloses, tmuxVars, pipeVars
<1>2. ASSUME NEW c \in Calls,
             StartCall(c) \/ WriteFails(c) \/ TakeReply(c) \/ CallStranded(c) \/ CallCancelled(c)
      PROVE  UNCHANGED <<stdin, skipping, ran, screen>>
  BY <1>2 DEF StartCall, WriteFails, TakeReply, CallStranded, CallCancelled, LeavesWaiting, tmuxVars, pipeVars
<1> QED
  BY <1>1, <1>2 DEF Next, Tmux, Caller

\* The input without its first command.
LEMMA InputTail ==
  ASSUME ClientTypeOK, stdin # <<>>, stdin' = Tail(stdin)
  PROVE  /\ Len(stdin) \in Nat /\ Len(stdin) >= 1 /\ Len(stdin') = Len(stdin) - 1 /\ Head(stdin) = stdin[1]
         /\ \A j \in 1 .. Len(stdin') : stdin'[j] = stdin[j + 1] /\ j + 1 \in 1 .. Len(stdin)
         /\ stdin' # <<>> => 1 \in 1 .. Len(stdin') /\ Head(stdin') = stdin[2] /\ 2 \in 1 .. Len(stdin)
<1>1. stdin \in Seq(Cmds)
  BY DEF ClientTypeOK
<1>2. PICK n \in Nat : n = Len(stdin) /\ n >= 1
  BY <1>1, EmptySeq, LenProperties
<1>3. /\ stdin' \in Seq(Cmds) /\ Len(stdin') = n - 1 /\ Head(stdin) = stdin[1]
      /\ \A j \in 1 .. n - 1 : stdin'[j] = stdin[j + 1]
  BY <1>1, <1>2, HeadTailProperties
<1>4. \A j \in 1 .. n - 1 : j + 1 \in 1 .. n
  BY <1>2
<1>5. ASSUME stdin' # <<>>
      PROVE  1 \in 1 .. Len(stdin') /\ Head(stdin') = stdin[2] /\ 2 \in 1 .. Len(stdin)
  <2>1. Len(stdin') # 0
    BY <1>3, <1>5, EmptySeq
  <2>2. 1 \in 1 .. n - 1 /\ 2 \in 1 .. n
    BY <1>2, <1>3, <2>1
  <2>3. Head(stdin') = stdin'[1]
    BY <1>3, <1>5, HeadTailProperties
  <2> QED
    BY <1>2, <1>3, <2>2, <2>3
<1> QED
  BY <1>2, <1>3, <1>4, <1>5

\* A line is written at the end of the input.
LEMMA InputWritten ==
  ASSUME ClientTypeOK, NEW c \in Calls, WriteLine(c)
  PROVE  \E m \in Nat : \E n \in Nat \ {0} :
           /\ m = Len(stdin) /\ n = CallLen[c] /\ Len(stdin') = m + n
           /\ \A j \in 1 .. m : stdin'[j] = stdin[j]
           /\ \A i \in 1 .. n : /\ stdin'[m + i].id = <<c, i>>
                                /\ stdin'[m + i].cont <=> i > 1
           /\ stdin' # <<>> /\ Head(stdin') = stdin'[1]
<1>1. PICK q \in Seq(Cmds) : q = Commands(c)
  BY CommandsOfCall
<1>2. PICK m \in Nat : m = Len(stdin)
  BY LenProperties DEF ClientTypeOK
<1>3. PICK n \in Nat \ {0} : n = CallLen[c] /\ Len(q) = n
  BY <1>1, CommandsOfCall
<1>4. stdin \in Seq(Cmds) /\ stdin' = stdin \o q
  BY <1>1 DEF ClientTypeOK, WriteLine
<1>5. /\ stdin' \in Seq(Cmds) /\ Len(stdin') = m + n
      /\ \A j \in 1 .. m + n : stdin'[j] = IF j <= m THEN stdin[j] ELSE q[j - m]
  <2>1. /\ stdin \o q \in Seq(Cmds) /\ Len(stdin \o q) = Len(stdin) + Len(q)
        /\ \A j \in 1 .. Len(stdin) + Len(q) :
             (stdin \o q)[j] = IF j <= Len(stdin) THEN stdin[j] ELSE q[j - Len(stdin)]
    BY <1>4, ConcatProperties
  <2> QED
    BY <1>2, <1>3, <1>4, <2>1
<1>6. \A j \in 1 .. m : stdin'[j] = stdin[j]
  BY <1>5
<1>7. ASSUME NEW i \in 1 .. n
      PROVE  /\ stdin'[m + i].id = <<c, i>>
             /\ stdin'[m + i].cont <=> i > 1
  <2>1. m + i \in 1 .. m + n /\ ~(m + i <= m) /\ (m + i) - m = i
    OBVIOUS
  <2>2. stdin'[m + i] = q[i]
    BY <1>5, <2>1
  <2> QED
    BY <1>1, <1>3, <2>2, CommandsOfCall
<1>8. stdin' # <<>> /\ Head(stdin') = stdin'[1]
  <2>1. m + n # 0
    OBVIOUS
  <2>2. stdin' # <<>>
    BY <1>5, <2>1, EmptySeq
  <2> QED
    BY <1>5, <2>2, HeadTailProperties
<1> QED
  BY <1>2, <1>3, <1>5, <1>6, <1>7, <1>8

\* The lines of the input stay whole.
LEMMA WholeKept ==
  ASSUME ClientTypeOK, Whole, Next
  PROVE  Whole'
<1>1. CASE RunCommand
  <2>1. /\ Len(stdin) \in Nat /\ Len(stdin') = Len(stdin) - 1
        /\ \A j \in 1 .. Len(stdin') : stdin'[j] = stdin[j + 1] /\ j + 1 \in 1 .. Len(stdin)
    BY <1>1, InputTail DEF RunCommand
  <2>2. ASSUME NEW j \in 1 .. Len(stdin')
        PROVE  InLine(stdin', j)
    <3>1. InLine(stdin, j + 1) /\ stdin'[j] = stdin[j + 1]
      BY <2>1 DEF Whole
    <3>2. j > 1 => j - 1 \in 1 .. Len(stdin') /\ (j - 1) + 1 = (j + 1) - 1
      BY <2>1
    <3>3. j > 1 => stdin'[j - 1] = stdin[(j + 1) - 1] /\ j + 1 > 1
      BY <2>1, <3>2
    <3> QED
      BY <3>1, <3>3 DEF InLine
  <2> QED
    BY <2>2 DEF Whole
<1>2. CASE TmuxExits
  <2>1. Len(stdin') = 0
    BY <1>2, EmptySeq DEF TmuxExits
  <2> QED
    BY <2>1 DEF Whole
<1>3. ASSUME NEW c \in Calls, WriteLine(c)
      PROVE  Whole'
  <2>1. PICK m \in Nat, n \in Nat \ {0} :
          /\ m = Len(stdin) /\ n = CallLen[c] /\ Len(stdin') = m + n
          /\ \A j \in 1 .. m : stdin'[j] = stdin[j]
          /\ \A i \in 1 .. n : /\ stdin'[m + i].id = <<c, i>>
                               /\ stdin'[m + i].cont <=> i > 1
    BY <1>3, InputWritten
  <2>2. ASSUME NEW j \in 1 .. m
        PROVE  InLine(stdin', j)
    <3>1. j > 1 => j - 1 \in 1 .. m
      OBVIOUS
    <3>2. InLine(stdin, j) /\ stdin'[j] = stdin[j] /\ (j > 1 => stdin'[j - 1] = stdin[j - 1])
      BY <2>1, <3>1 DEF Whole
    <3> QED
      BY <3>2 DEF InLine
  <2>3. ASSUME NEW i \in 1 .. n
        PROVE  InLine(stdin', m + i)
    <3>1. PICK x : x = stdin'[m + i]
      OBVIOUS
    <3>2. x.id = <<c, i>> /\ (x.cont <=> i > 1)
      BY <2>1, <3>1
    <3>3. x.id[1] = c /\ x.id[2] = i
      BY <3>2
    <3>4. x.cont => stdin'[(m + i) - 1].id = <<c, i - 1>>
      <4>1. i > 1 => i - 1 \in 1 .. n /\ m + (i - 1) = (m + i) - 1
        OBVIOUS
      <4>2. i > 1 => stdin'[m + (i - 1)].id = <<c, i - 1>>
        BY <2>1, <4>1
      <4> QED
        BY <3>2, <4>1, <4>2
    <3> QED
      BY <3>1, <3>2, <3>3, <3>4 DEF InLine
  <2>4. ASSUME NEW j \in 1 .. m + n
        PROVE  InLine(stdin', j)
    <3>1. CASE j \in 1 .. m
      BY <2>2, <3>1
    <3>2. CASE j \notin 1 .. m
      <4>1. PICK i \in 1 .. n : m + i = j
        <5>1. j - m \in 1 .. n /\ m + (j - m) = j
          BY <3>2
        <5> QED
          BY <5>1
      <4> QED
        BY <2>3, <4>1
    <3> QED
      BY <3>1, <3>2
  <2> QED
    BY <2>1, <2>4 DEF Whole
<1>4. CASE UNCHANGED stdin
  BY <1>4 DEF Whole, InLine
<1>5. Produce => UNCHANGED stdin
  BY DEF Produce
<1> QED
  BY <1>1, <1>2, <1>3, <1>4, <1>5, InputKept

\* A command that runs is the next of its line.
LEMMA RunStep ==
  ASSUME ClientInv, Whole, RunCommand, ~(Head(stdin).cont /\ skipping)
  PROVE  \E c \in Calls : \E i \in 1 .. CallLen[c] : \E err \in BOOLEAN :
           /\ Head(stdin).id = <<c, i>> /\ (Head(stdin).cont <=> i > 1)
           /\ <<c, i>> \in Ids /\ ~HasRun(ran, <<c, i>>) /\ slots[<<c, i>>] = <<>> /\ state[c] # "idle"
           /\ skipping' = err /\ HasRun(ran', <<c, i>>)
           /\ (ran'[<<c, i>>].ok <=> ~err) /\ ran'[<<c, i>>].n = screen
           /\ \A id \in Ids : id # <<c, i>> => ran'[id] = ran[id]
<1>1. ClientTypeOK /\ Numbered /\ Queued /\ Fresh /\ ReaderNeverBlocks
  BY DEF ClientInv, Matched
<1>2. alive /\ stdin # <<>>
  BY DEF RunCommand
<1>3. PICK p \in 1 .. Len(pending) : pending[p] = Head(stdin) /\ ~HasRun(ran, pending[p].id)
  BY <1>1, <1>2, NextCommand
<1>4. PICK target \in Ids : target = pending[p].id
  BY <1>1, QueueItem DEF ClientTypeOK
<1>5. PICK err \in BOOLEAN :
        /\ skipping' = err
        /\ ran' = [ran EXCEPT ![target] = [num |-> NextNum, ok |-> ~err, n |-> screen]]
  BY <1>3, <1>4 DEF RunCommand
<1>6. PICK entry : entry = [num |-> NextNum, ok |-> ~err, n |-> screen]
  OBVIOUS
<1>7. entry.num = NextNum /\ entry.n = screen
  BY <1>6
<1>8. entry.ok <=> ~err
  BY <1>6
<1>9. ran' = [ran EXCEPT ![target] = entry]
  BY <1>5, <1>6
<1>10. ran'[target] = entry /\ \A id \in Ids : id # target => ran'[id] = ran[id]
  BY <1>1, <1>9 DEF ClientTypeOK, Histories
<1>11. HasRun(ran', target)
  <2>1. NextNum \in Nat /\ NextNum >= 2
    BY <1>1, NumberBounds
  <2> QED
    BY <1>7, <1>10, <2>1 DEF HasRun
<1>12. PICK c \in Calls : \E l \in 1 .. CallLen[c] : target = <<c, l>>
  BY IdParts
<1>13. PICK i \in 1 .. CallLen[c] : target = <<c, i>>
  BY <1>12
<1>14. target[1] = c /\ target[2] = i
  BY <1>13
<1>15. slots[target] = <<>> /\ state[c] # "idle"
  <2>1. p \in DOMAIN pending
    BY <1>1, LenProperties DEF ClientTypeOK
  <2> QED
    BY <1>1, <1>4, <1>13, <1>14, <2>1 DEF ReaderNeverBlocks, Fresh
<1>16. Head(stdin).cont <=> i > 1
  <2>1. 1 \in 1 .. Len(stdin) /\ Head(stdin) = stdin[1]
    <3>1. stdin \in Seq(Cmds)
      BY <1>1 DEF ClientTypeOK
    <3>2. Len(stdin) \in Nat /\ Len(stdin) # 0
      BY <1>2, <3>1, EmptySeq, LenProperties
    <3>3. 1 \in 1 .. Len(stdin)
      BY <3>2
    <3> QED
      BY <1>2, <3>1, <3>3, HeadTailProperties
  <2>2. InLine(stdin, 1)
    BY <2>1 DEF Whole
  <2> QED
    BY <1>3, <1>4, <1>14, <2>1, <2>2 DEF InLine
<1>17. Head(stdin).id = target /\ ~HasRun(ran, target)
  BY <1>3, <1>4
<1>18. (ran'[target].ok <=> ~err) /\ ran'[target].n = screen
  <2>1. ran'[target].ok <=> ~err
    BY <1>8, <1>10
  <2>2. ran'[target].n = screen
    BY <1>7, <1>10
  <2> QED
    BY <2>1, <2>2
<1> QED
  BY <1>5, <1>10, <1>11, <1>13, <1>15, <1>16, <1>17, <1>18

\* Between the commands of a line nothing is written.
LEMMA TogetherKept ==
  ASSUME ClientInv, Whole, Together, Next
  PROVE  Together'
<1>1. ClientTypeOK
  BY DEF ClientInv
<1>2. CASE RunCommand /\ Head(stdin).cont /\ skipping
  BY <1>2 DEF RunCommand, Together
<1>3. CASE RunCommand /\ ~(Head(stdin).cont /\ skipping)
  <2> SUFFICES ASSUME stdin' # <<>>, Head(stdin').cont, ~skipping'
               PROVE  \A i \in 1 .. Head(stdin').id[2] - 1 :
                        /\ ran'[<<Head(stdin').id[1], i>>].ok
                        /\ ran'[<<Head(stdin').id[1], i>>].n = screen'
    BY DEF Together
  <2>1. PICK c, i, err :
          /\ c \in Calls /\ i \in 1 .. CallLen[c] /\ err \in BOOLEAN
          /\ Head(stdin).id = <<c, i>> /\ (Head(stdin).cont <=> i > 1)
          /\ <<c, i>> \in Ids
          /\ skipping' = err /\ (ran'[<<c, i>>].ok <=> ~err) /\ ran'[<<c, i>>].n = screen
          /\ \A id \in Ids : id # <<c, i>> => ran'[id] = ran[id]
    BY <1>3, RunStep
  <2>2. stdin # <<>> /\ stdin' = Tail(stdin) /\ screen' = screen
    BY <1>3 DEF RunCommand
  <2>3. /\ Head(stdin) = stdin[1] /\ Head(stdin') = stdin[2] /\ 2 \in 1 .. Len(stdin)
    BY <1>1, <2>2, InputTail
  <2>4. PICK d, l : stdin[2].id = <<d, l>> /\ d \in Calls /\ l \in 1 .. CallLen[d]
    <3>1. stdin[2].id \in Ids
      BY <1>1, <2>3, QueueItem DEF ClientTypeOK
    <3> QED
      BY <3>1, IdParts
  <2>5. d = c /\ l - 1 = i
    <3>1. InLine(stdin, 2)
      BY <2>3 DEF Whole
    <3>2. stdin[2 - 1].id = <<d, l - 1>>
      BY <2>3, <2>4, <3>1 DEF InLine
    <3>3. 2 - 1 = 1
      OBVIOUS
    <3>4. <<c, i>> = <<d, l - 1>>
      BY <2>1, <2>3, <3>2, <3>3
    <3> QED
      BY <3>4
  <2>6. Head(stdin').id[1] = c /\ Head(stdin').id[2] - 1 = i
    BY <2>3, <2>4, <2>5
  <2>7. ASSUME NEW j \in 1 .. i
        PROVE  ran'[<<c, j>>].ok /\ ran'[<<c, j>>].n = screen'
    <3>1. CASE j = i
      BY <2>1, <2>2, <3>1
    <3>2. CASE j # i
      <4>1. i \in Nat /\ CallLen[c] \in Nat
        BY <2>1, ClientAssumption
      <4>2. j \in 1 .. i - 1 /\ i > 1 /\ j \in 1 .. CallLen[c]
        BY <2>1, <3>2, <4>1
      <4>3. Head(stdin).cont /\ ~skipping
        BY <1>3, <2>1, <4>2
      <4>4. Head(stdin).id[1] = c /\ Head(stdin).id[2] = i
        BY <2>1
      <4>5. ran[<<c, j>>].ok /\ ran[<<c, j>>].n = screen
        BY <2>2, <4>2, <4>3, <4>4 DEF Together
      <4>6. <<c, j>> \in Ids /\ <<c, j>> # <<c, i>>
        BY <2>1, <3>2, <4>2 DEF Ids
      <4> QED
        BY <2>1, <2>2, <4>5, <4>6
    <3> QED
      BY <3>1, <3>2
  <2> QED
    BY <2>6, <2>7
<1>4. CASE Produce
  <2>1. stdin' = stdin /\ (stdin # <<>> => ~Head(stdin).cont)
    BY <1>4 DEF Produce
  <2> QED
    BY <2>1 DEF Together
<1>5. CASE TmuxExits
  BY <1>5 DEF TmuxExits, Together
<1>6. ASSUME NEW c \in Calls, WriteLine(c)
      PROVE  Together'
  <2>1. UNCHANGED <<skipping, ran, screen>>
    BY <1>6 DEF WriteLine, tmuxVars
  <2>2. PICK m \in Nat, n \in Nat \ {0} :
          /\ m = Len(stdin)
          /\ \A j \in 1 .. m : stdin'[j] = stdin[j]
          /\ \A i \in 1 .. n : stdin'[m + i].cont <=> i > 1
          /\ stdin' # <<>> /\ Head(stdin') = stdin'[1]
    BY <1>1, <1>6, InputWritten
  <2>3. CASE m = 0
    <3>1. 1 \in 1 .. n /\ m + 1 = 1 /\ ~(1 > 1)
      BY <2>3
    <3>2. ~Head(stdin').cont
      BY <2>2, <3>1
    <3> QED
      BY <3>2 DEF Together
  <2>4. CASE m # 0
    <3>1. 1 \in 1 .. m
      BY <2>4
    <3>2. stdin # <<>> /\ Head(stdin) = stdin[1]
      BY <1>1, <2>2, <2>4, EmptySeq, HeadTailProperties DEF ClientTypeOK
    <3>3. Head(stdin') = Head(stdin)
      BY <2>2, <3>1, <3>2
    <3> QED
      BY <2>1, <3>2, <3>3 DEF Together
  <2> QED
    BY <2>3, <2>4
<1>7. CASE UNCHANGED <<stdin, skipping, ran, screen>>
  BY <1>7 DEF Together
<1> QED
  BY <1>2, <1>3, <1>4, <1>5, <1>6, <1>7, InputKept

\* A command that runs is the next of its line: the ones before it succeeded.
LEMMA StepwiseKept ==
  ASSUME ClientInv, ServiceInv, Next
  PROVE  Stepwise'
<1>1. CASE UNCHANGED ran
  BY <1>1 DEF ServiceInv, Stepwise, HasRun
<1>2. CASE RunCommand /\ ~(Head(stdin).cont /\ skipping)
  <2>1. PICK c, i, err :
          /\ c \in Calls /\ i \in 1 .. CallLen[c] /\ err \in BOOLEAN
          /\ Head(stdin).id = <<c, i>> /\ (Head(stdin).cont <=> i > 1)
          /\ <<c, i>> \in Ids /\ ~HasRun(ran, <<c, i>>) /\ HasRun(ran', <<c, i>>)
          /\ \A id \in Ids : id # <<c, i>> => ran'[id] = ran[id]
    BY <1>2, RunStep DEF ServiceInv
  <2>2. \A id \in Ids : ran'[id].ok => HasRun(ran', id)
    <3>1. ASSUME NEW id \in Ids, id # <<c, i>>, ran'[id].ok
          PROVE  HasRun(ran', id)
      BY <2>1, <3>1 DEF ServiceInv, Stepwise, HasRun
    <3> QED
      BY <2>1, <3>1
  <2>3. ASSUME NEW d \in Calls, NEW j \in 1 .. CallLen[d], NEW l \in 1 .. CallLen[d],
               j < l, HasRun(ran', <<d, l>>)
        PROVE  ran'[<<d, j>>].ok
    <3>1. <<d, j>> \in Ids /\ <<d, l>> \in Ids
      BY DEF Ids
    <3>2. ran[<<d, j>>].ok /\ <<d, j>> # <<c, i>>
      <4>1. CASE <<d, l>> = <<c, i>>
        <5>1. d = c /\ l = i /\ j # i
          <6>1. d = c /\ l = i
            BY <4>1
          <6> QED
            BY <2>3, <6>1
        <5>2. i \in Nat /\ CallLen[c] \in Nat
          BY <2>1, ClientAssumption
        <5>3. j \in 1 .. i - 1 /\ i > 1
          BY <2>3, <5>1, <5>2
        <5>4. Head(stdin).id[1] = c /\ Head(stdin).id[2] = i
          BY <2>1
        <5>5. stdin # <<>> /\ Head(stdin).cont /\ ~skipping
          BY <1>2, <2>1, <5>3 DEF RunCommand
        <5>6. ran[<<c, j>>].ok
          BY <5>3, <5>4, <5>5 DEF ServiceInv, Together
        <5> QED
          BY <5>1, <5>6
      <4>2. CASE <<d, l>> # <<c, i>>
        <5>1. HasRun(ran, <<d, l>>)
          BY <2>1, <2>3, <3>1, <4>2 DEF HasRun
        <5>2. ran[<<d, j>>].ok
          BY <2>3, <5>1 DEF ServiceInv, Stepwise
        <5>3. HasRun(ran, <<d, j>>)
          BY <3>1, <5>2 DEF ServiceInv, Stepwise
        <5> QED
          BY <2>1, <5>2, <5>3
      <4> QED
        BY <4>1, <4>2
    <3> QED
      BY <2>1, <3>1, <3>2
  <2> QED
    BY <2>2, <2>3 DEF Stepwise
<1>3. Produce \/ TmuxExits \/ (\E c \in Calls : WriteLine(c)) => UNCHANGED ran
  BY DEF Produce, TmuxExits, WriteLine, tmuxVars
<1>4. RunCommand /\ Head(stdin).cont /\ skipping => UNCHANGED ran
  BY DEF RunCommand
<1> QED
  BY <1>1, <1>2, <1>3, <1>4, InputKept

-----------------------------------------------------------------------------
(***************************************************************************)
(* What the callers are told.                                              *)
(***************************************************************************)
\* Output that comes later has a later position.
LEMMA PlacedKept ==
  ASSUME ClientInv, NEW id \in Ids, NEW s, Placed(id, s), ran'[id].n = ran[id].n,
         ReadLine \/ UNCHANGED <<outs, seq>>
  PROVE  Placed(id, s)'
<1>1. CASE UNCHANGED <<outs, seq>>
  BY <1>1 DEF Placed, Before
<1>2. CASE ReadLine
  <2>1. ClientTypeOK /\ Emitted /\ seq \in Nat /\ seq' = seq + 1 /\ s \in Nat /\ s <= seq
    BY <1>2, ReadEvents DEF ClientInv, ClientTypeOK, TypeOK, Placed
  <2>2. s \in Nat /\ s <= seq' /\ ~(seq + 1 < s)
    BY <2>1
  <2>3. Before(s)' = Before(s)
    <3>1. CASE outs' = outs
      BY <3>1 DEF Before
    <3>2. ASSUME NEW e, e.seq = seq + 1, outs' = Append(outs, e)
          PROVE  Before(s)' = Before(s)
      <4>1. PICK k \in Nat : k = Len(outs)
        BY <2>1, LenProperties DEF Emitted
      <4>2. DOMAIN outs = 1 .. k
        BY <2>1, <4>1, LenProperties DEF Emitted
      <4>3. DOMAIN outs' = 1 .. k + 1 /\ outs'[k + 1] = e /\ \A i \in 1 .. k : outs'[i] = outs[i]
        <5>1. PICK S : outs \in Seq(S) /\ e \in S
          <6>1. PICK E : outs \in Seq(E)
            BY <2>1 DEF Emitted
          <6>2. PICK S : S = E \cup {e}
            OBVIOUS
          <6>3. outs \in Seq(S) /\ e \in S
            BY <6>1, <6>2
          <6> QED
            BY <6>3
        <5>2. outs' \in Seq(S) /\ Len(outs') = k + 1 /\ outs'[k + 1] = e /\ \A i \in 1 .. k : outs'[i] = outs[i]
          BY <3>2, <4>1, <5>1, AppendProperties
        <5> QED
          BY <5>2, LenProperties
      <4>4. \A i \in 1 .. k + 1 : i = k + 1 \/ i \in 1 .. k
        OBVIOUS
      <4>5. \A i \in 1 .. k : i \in 1 .. k + 1
        OBVIOUS
      <4>6. \A i : i \in DOMAIN outs' /\ outs'[i].seq < s <=> i \in DOMAIN outs /\ outs[i].seq < s
        BY <2>2, <3>2, <4>2, <4>3, <4>4, <4>5
      <4> QED
        BY <4>6 DEF Before
    <3>3. outs' = outs \/ \E e : e.seq = seq + 1 /\ outs' = Append(outs, e)
      <4>1. PICK e : e = [seq |-> seq + 1, data |-> Event(Head(stdout)).data]
        OBVIOUS
      <4>2. e.seq = seq + 1
        BY <4>1
      <4>3. outs' = outs \/ outs' = Append(outs, e)
        BY <1>2, <2>1, <4>1, ReadEvents
      <4> QED
        BY <4>2, <4>3
    <3> QED
      BY <3>1, <3>2, <3>3
  <2> QED
    BY <2>2, <2>3 DEF Placed
<1> QED
  BY <1>1, <1>2

\* What was told stays so when nobody is told anything.
LEMMA ToldStays ==
  ASSUME ClientInv, ServiceInv, UNCHANGED <<outs, seq, slots, first>>,
         \A c \in Calls : Taken(c)' = Taken(c),
         \A id \in Ids : ran[id].ok \/ slots[id] # <<>> => ran'[id] = ran[id]
  PROVE  Told'
<1>1. first' \in [Calls -> Nat]
  BY DEF ServiceInv, Told
<1>2. ASSUME NEW id \in Ids, slots'[id] # <<>>, ~Head(slots'[id]).err
      PROVE  Placed(id, Head(slots[id]).seq)'
  <2>1. PICK s : s = Head(slots[id]).seq
    OBVIOUS
  <2>2. Placed(id, s) /\ ran'[id] = ran[id]
    BY <1>2, <2>1 DEF ServiceInv, Told
  <2>3. Placed(id, s)'
    BY <2>2, PlacedKept
  <2> QED
    BY <2>1, <2>3 DEF Placed, Before
<1>3. ASSUME NEW c \in Calls
      PROVE  /\ \A i \in 1 .. Taken(c) : ran'[<<c, i>>].ok
             /\ Taken(c) > 0 => Placed(<<c, 1>>, first[c])'
  <2>1. CallLen[c] \in Nat \ {0} /\ Taken(c) \in 0 .. CallLen[c]
    <3>1. CallLen[c] \in Nat \ {0} /\ await[c] \in 1 .. CallLen[c]
      BY ClientAssumption DEF ClientInv, ClientTypeOK, TypeOK
    <3>2. await[c] - 1 \in 0 .. CallLen[c] /\ CallLen[c] \in 0 .. CallLen[c]
      BY <3>1
    <3> QED
      BY <3>1, <3>2 DEF Taken
  <2>2. \A i \in 1 .. Taken(c) : <<c, i>> \in Ids /\ ran[<<c, i>>].ok
    <3>1. \A i \in 1 .. Taken(c) : i \in 1 .. CallLen[c]
      BY <2>1
    <3>2. \A i \in 1 .. CallLen[c] : <<c, i>> \in Ids
      BY DEF Ids
    <3> QED
      BY <3>1, <3>2 DEF ServiceInv, Told
  <2>3. \A i \in 1 .. Taken(c) : ran'[<<c, i>>] = ran[<<c, i>>]
    BY <2>2
  <2>4. ASSUME Taken(c) > 0
        PROVE  Placed(<<c, 1>>, first[c])'
    <3>1. 1 \in 1 .. Taken(c)
      BY <2>1, <2>4
    <3>2. PICK s : s = first[c]
      OBVIOUS
    <3>3. <<c, 1>> \in Ids /\ Placed(<<c, 1>>, s) /\ ran'[<<c, 1>>] = ran[<<c, 1>>]
      BY <2>2, <2>3, <2>4, <3>1, <3>2 DEF ServiceInv, Told
    <3>4. Placed(<<c, 1>>, s)'
      BY <3>3, PlacedKept
    <3> QED
      BY <3>2, <3>4 DEF Placed, Before
  <2> QED
    BY <2>2, <2>3, <2>4
<1> QED
  BY <1>1, <1>2, <1>3 DEF Told

\* A call that takes a reply learns what its command did.
LEMMA ToldTakes ==
  ASSUME ClientInv, ServiceInv, NEW c \in Calls, TakeReply(c)
  PROVE  Told'
<1>1. /\ ClientTypeOK /\ RepliesMatch /\ CallLen[c] \in Nat \ {0} /\ await[c] \in 1 .. CallLen[c]
      /\ state[c] = "waiting"
  BY ClientAssumption DEF ClientInv, Matched, ClientTypeOK, TypeOK, TakeReply
<1>2. PICK w \in 1 .. CallLen[c] : w = await[c]
  BY <1>1
<1>3. PICK id \in Ids : id = <<c, w>>
  <2>1. <<c, w>> \in Ids
    BY DEF Ids
  <2> QED
    BY <2>1
<1>4. PICK r : r = Head(slots[id])
  OBVIOUS
<1>5. /\ UNCHANGED <<outs, seq, ran>> /\ slots[id] # <<>> /\ slots' = [slots EXCEPT ![id] = <<>>]
      /\ Becomes(c, IF r.err THEN "failed" ELSE IF w = CallLen[c] THEN "ok" ELSE "waiting")
      /\ await' = IF r.err \/ w = CallLen[c] THEN await ELSE [await EXCEPT ![c] = @ + 1]
      /\ first' = IF ~r.err /\ w = 1 THEN [first EXCEPT ![c] = r.seq] ELSE first
  BY <1>2, <1>3, <1>4 DEF TakeReply, LastReply, tmuxVars, readerVars
<1>6. ~r.err => ran[id].ok /\ Placed(id, r.seq)
  <2> SUFFICES ASSUME ~r.err PROVE ran[id].ok /\ Placed(id, r.seq)
    OBVIOUS
  <2>1. r # AbortReply
    BY DEF AbortReply
  <2>2. r.err = ~ran[id].ok
    BY <1>1, <1>4, <1>5, <2>1 DEF RepliesMatch
  <2> QED
    BY <1>4, <1>5, <2>2 DEF ServiceInv, Told
<1>7. \A d \in Calls : d # c => Taken(d)' = Taken(d) /\ first'[d] = first[d]
  <2>1. ASSUME NEW d \in Calls, d # c
        PROVE  state'[d] = state[d] /\ await'[d] = await[d] /\ first'[d] = first[d]
    <3>1. state'[d] = state[d]
      BY <1>1, <1>5, <2>1 DEF Becomes, ClientTypeOK, TypeOK
    <3>2. await'[d] = await[d]
      BY <1>1, <1>5, <2>1 DEF ClientTypeOK
    <3>3. first'[d] = first[d]
      BY <1>5, <2>1 DEF ServiceInv, Told
    <3> QED
      BY <3>1, <3>2, <3>3
  <2> QED
    BY <2>1 DEF Taken
<1>8. Taken(c) = w - 1 /\ Taken(c)' = IF r.err THEN w - 1 ELSE w
  <2>1. state'[c] = IF r.err THEN "failed" ELSE IF w = CallLen[c] THEN "ok" ELSE "waiting"
    BY <1>1, <1>5 DEF Becomes, ClientTypeOK, TypeOK
  <2>2. await'[c] = IF r.err \/ w = CallLen[c] THEN w ELSE w + 1
    BY <1>1, <1>2, <1>5 DEF ClientTypeOK
  <2>3. (w + 1) - 1 = w
    OBVIOUS
  <2> QED
    BY <1>1, <1>2, <2>1, <2>2, <2>3 DEF Taken
<1>9. first' \in [Calls -> Nat]
  BY <1>5, <1>6 DEF ServiceInv, Told, Placed
<1>10. ASSUME NEW other \in Ids, slots'[other] # <<>>, ~Head(slots'[other]).err
       PROVE  Placed(other, Head(slots[other]).seq)'
  <2>1. slots'[other] = slots[other]
    BY <1>1, <1>5, <1>10 DEF ClientTypeOK
  <2> QED
    BY <1>5, <1>10, <2>1 DEF ServiceInv, Told, Placed, Before
<1>11. ASSUME NEW d \in Calls, d # c
       PROVE  /\ \A i \in 1 .. Taken(d)' : ran'[<<d, i>>].ok
              /\ Taken(d)' > 0 => Placed(<<d, 1>>, first[d])'
  BY <1>5, <1>7, <1>11 DEF ServiceInv, Told, Placed, Before
<1>12. \A i \in 1 .. Taken(c)' : ran'[<<c, i>>].ok
  <2>1. \A i \in 1 .. Taken(c)' : i \in 1 .. Taken(c) \/ (i = w /\ ~r.err)
    BY <1>8
  <2> QED
    BY <1>3, <1>5, <1>6, <2>1 DEF ServiceInv, Told
<1>13. ASSUME Taken(c)' > 0
       PROVE  Placed(<<c, 1>>, first[c])'
  <2>1. CASE ~r.err /\ w = 1
    <3>1. first'[c] = r.seq
      BY <1>5, <2>1 DEF ServiceInv, Told
    <3> QED
      BY <1>3, <1>5, <1>6, <2>1, <3>1 DEF Placed, Before
  <2>2. CASE r.err \/ w # 1
    <3>1. first' = first /\ Taken(c) > 0
      BY <1>5, <1>8, <1>13, <2>2
    <3> QED
      BY <1>5, <3>1 DEF ServiceInv, Told, Placed, Before
  <2> QED
    BY <2>1, <2>2
<1> QED
  BY <1>9, <1>10, <1>11, <1>12, <1>13 DEF Told

\* The reply of a command is placed where its block was read: after the output
\* that its screen held, and before the rest.
LEMMA ToldReads ==
  ASSUME ClientInv, ServiceInv, ReadLine
  PROVE  Told'
<1>1. /\ ClientTypeOK /\ Emitted /\ Queued /\ UNCHANGED <<ran, state, await, first>>
      /\ seq \in Nat /\ seq' = seq + 1
  BY ReadEvents DEF ClientInv, ClientTypeOK, TypeOK, ReadLine, tmuxVars, callVars
<1>2. PICK n \in Nat : Streamed(n)
  BY DEF ClientInv, Matched
<1>3. \A id \in Ids : \A s : Placed(id, s) => Placed(id, s)'
  <2>1. ASSUME NEW id \in Ids, NEW s, Placed(id, s)
        PROVE  Placed(id, s)'
    BY <1>1, <2>1, PlacedKept
  <2> QED
    BY <2>1
<1>4. /\ first' \in [Calls -> Nat]
      /\ \A c \in Calls : /\ \A i \in 1 .. Taken(c)' : ran'[<<c, i>>].ok
                          /\ Taken(c)' > 0 => Placed(<<c, 1>>, first[c])'
  <2>1. first \in [Calls -> Nat]
    BY DEF ServiceInv, Told
  <2>2. ASSUME NEW c \in Calls
        PROVE  /\ \A i \in 1 .. Taken(c)' : ran'[<<c, i>>].ok
               /\ Taken(c)' > 0 => Placed(<<c, 1>>, first[c])'
    <3>1. Taken(c)' = Taken(c)
      BY <1>1 DEF Taken
    <3>2. <<c, 1>> \in Ids
      <4>1. 1 \in 1 .. CallLen[c]
        BY ClientAssumption
      <4> QED
        BY <4>1 DEF Ids
    <3>3. PICK s : s = first[c]
      OBVIOUS
    <3>4. Taken(c) > 0 => Placed(<<c, 1>>, s)'
      BY <1>3, <3>2, <3>3 DEF ServiceInv, Told
    <3>5. Taken(c) > 0 => Placed(<<c, 1>>, first[c])'
      BY <1>1, <3>3, <3>4 DEF Placed, Before
    <3> QED
      BY <1>1, <3>1, <3>5 DEF ServiceInv, Told
  <2> QED
    BY <1>1, <2>1, <2>2
<1>5. ASSUME NEW id \in Ids, slots'[id] = slots[id], slots'[id] # <<>>, ~Head(slots'[id]).err
      PROVE  Placed(id, Head(slots[id]).seq)'
  <2>1. PICK s : s = Head(slots[id]).seq
    OBVIOUS
  <2>2. Placed(id, s)'
    BY <1>3, <1>5, <2>1 DEF ServiceInv, Told
  <2> QED
    BY <1>5, <2>1, <2>2 DEF Placed, Before
<1>6. CASE UNCHANGED slots
  BY <1>4, <1>5, <1>6 DEF Told
<1>7. CASE parse.inReply /\ Closes(parse, Head(stdout)) /\ n >= 1
  <2>1. PICK r \in Replies : \E id \in Ids :
          /\ pending # <<>> /\ pending[1].id = id /\ HasRun(ran, id) /\ Route(r)
          /\ r.seq = seq + 1 /\ ran[id].n = Len(outs) /\ (r.err <=> ~ran[id].ok)
    BY <1>2, <1>7, ReplyRead
  <2>2. PICK id \in Ids :
          /\ pending # <<>> /\ pending[1].id = id /\ HasRun(ran, id) /\ Route(r)
          /\ r.seq = seq + 1 /\ ran[id].n = Len(outs) /\ (r.err <=> ~ran[id].ok)
    BY <2>1
  <2>3. PICK m \in 1 .. Len(pending) :
          /\ slots'[pending[1].id] = <<r>>
          /\ \A i \in 2 .. m : slots'[pending[i].id] = <<AbortReply>>
          /\ \A other \in Ids : (\A i \in 1 .. m : pending[i].id # other) => slots'[other] = slots[other]
    BY <1>1, <2>2, RouteServes DEF Queued
  <2>4. ASSUME NEW other \in Ids, slots'[other] # <<>>, ~Head(slots'[other]).err
        PROVE  Placed(other, Head(slots[other]).seq)'
    <3>1. CASE \A i \in 1 .. m : pending[i].id # other
      BY <1>5, <2>3, <2>4, <3>1
    <3>2. CASE other = id
      <4>1. PICK s : s = seq + 1
        OBVIOUS
      <4>2. Head(slots'[other]).seq = s
        BY <2>2, <2>3, <3>2, <4>1
      <4>3. outs' = outs
        BY <1>1, <1>7, ReadEvents
      <4>4. s \in Nat /\ s <= seq' /\ \A x \in Nat : x <= seq => x < s
        BY <1>1, <4>1
      <4>5. \A i \in DOMAIN outs : outs[i].seq < s
        <5>1. DOMAIN outs = 1 .. Len(outs) /\ \A i \in 1 .. Len(outs) : outs[i].seq \in Nat
          <6>1. PICK E : E = [seq: Nat, data: {Outputs[i] : i \in 1 .. Len(Outputs)}]
            OBVIOUS
          <6>2. outs \in Seq(E)
            BY <1>1, <6>1 DEF Emitted
          <6>3. DOMAIN outs = 1 .. Len(outs) /\ \A i \in 1 .. Len(outs) : outs[i] \in E
            BY <6>2, LenProperties, ElementOfSeq
          <6> QED
            BY <6>1, <6>3
        <5> QED
          BY <1>1, <4>4, <5>1 DEF Emitted
      <4>6. Before(s) = 1 .. Len(outs)
        <5>1. DOMAIN outs = 1 .. Len(outs)
          BY <1>1, LenProperties DEF Emitted
        <5> QED
          BY <4>5, <5>1 DEF Before
      <4>7. Placed(other, s)'
        BY <1>1, <2>2, <3>2, <4>3, <4>4, <4>6 DEF Placed, Before
      <4> QED
        BY <4>2, <4>7 DEF Placed, Before
    <3>3. ASSUME NEW i \in 1 .. m, pending[i].id = other, other # id
          PROVE  FALSE
      <4>1. i # 1 /\ m \in Nat
        <5>1. Len(pending) \in Nat
          BY <1>1, LenProperties DEF ClientTypeOK
        <5> QED
          BY <2>2, <3>3, <5>1
      <4>2. i \in 2 .. m
        BY <4>1
      <4>3. slots'[other] = <<AbortReply>>
        BY <2>3, <3>3, <4>2
      <4>4. Head(slots'[other]).err
        BY <4>3 DEF AbortReply
      <4> QED
        BY <2>4, <4>4
    <3> QED
      BY <3>1, <3>2, <3>3
  <2> QED
    BY <1>4, <2>4 DEF Told
<1>8. UNCHANGED slots \/ (parse.inReply /\ Closes(parse, Head(stdout)) /\ n >= 1)
  <2>1. CASE ~(parse.inReply /\ Closes(parse, Head(stdout)))
    BY <1>1, <2>1, ReadCases
  <2>2. CASE parse.inReply /\ Closes(parse, Head(stdout)) /\ ~(n >= 1)
    <3>1. Streamed(0)
      <4>1. n = 0
        BY <2>2
      <4> QED
        BY <1>2, <4>1
    <3> QED
      BY <2>2, <3>1, ReadsGuard
  <2> QED
    BY <2>1, <2>2
<1> QED
  BY <1>6, <1>7, <1>8

\* Nothing else changes what a call has been told.
LEMMA ToldKept ==
  ASSUME ClientInv, ServiceInv, Next
  PROVE  Told'
<1>1. ClientTypeOK /\ Writers /\ Stepwise
  BY DEF ClientInv, ServiceInv
<1>2. CASE RunCommand
  <2>1. UNCHANGED <<outs, seq, slots, first, state, await>>
    BY <1>2 DEF RunCommand, readerVars, callVars
  <2>2. \A c \in Calls : Taken(c)' = Taken(c)
    BY <2>1 DEF Taken
  <2>3. \A id \in Ids : ran[id].ok \/ slots[id] # <<>> => ran'[id] = ran[id]
    <3>1. CASE Head(stdin).cont /\ skipping
      BY <1>2, <3>1 DEF RunCommand
    <3>2. CASE ~(Head(stdin).cont /\ skipping)
      <4>1. PICK target \in Ids : /\ ~HasRun(ran, target) /\ slots[target] = <<>>
                                  /\ \A id \in Ids : id # target => ran'[id] = ran[id]
        BY <1>2, <3>2, RunStep DEF ServiceInv
      <4>2. ~ran[target].ok
        BY <1>1, <4>1 DEF Stepwise
      <4> QED
        BY <4>1, <4>2
    <3> QED
      BY <3>1, <3>2
  <2> QED
    BY <2>1, <2>2, <2>3, ToldStays
<1>3. CASE SendGuard \/ Produce \/ TmuxExits \/ ReadEnd \/ Close \/ Deliver \/ PumpCloses
  <2>1. UNCHANGED <<outs, seq, slots, first, state, await, ran>>
    BY <1>3 DEF SendGuard, Produce, TmuxExits, ReadEnd, Close, Deliver, PumpCloses, tmuxVars, readerVars, callVars
  <2>2. \A c \in Calls : Taken(c)' = Taken(c)
    BY <2>1 DEF Taken
  <2> QED
    BY <2>1, <2>2, ToldStays
<1>4. ASSUME NEW c \in Calls,
             StartCall(c) \/ WriteLine(c) \/ WriteFails(c) \/ CallStranded(c) \/ CallCancelled(c)
      PROVE  Told'
  <2>1. UNCHANGED <<outs, seq, slots, first, await, ran>>
    BY <1>4 DEF StartCall, WriteLine, WriteFails, CallStranded, CallCancelled, LeavesWaiting, tmuxVars, readerVars
  <2>2. PICK s \in {"writing", "waiting", "failed"} : state' = [state EXCEPT ![c] = s]
    BY <1>4 DEF StartCall, WriteLine, WriteFails, CallStranded, CallCancelled, LeavesWaiting, Becomes
  <2>3. state[c] \in {"idle", "writing", "waiting"}
    BY <1>1, <1>4 DEF StartCall, MayStart, WriteLine, WriteFails, CallStranded, CallCancelled, LeavesWaiting, Writers
  <2>4. \A d \in Calls : state'[d] = "ok" <=> state[d] = "ok"
    BY <1>1, <2>2, <2>3 DEF ClientTypeOK, TypeOK
  <2>5. \A d \in Calls : Taken(d)' = Taken(d)
    BY <2>1, <2>4 DEF Taken
  <2> QED
    BY <2>1, <2>5, ToldStays
<1> QED
  BY <1>2, <1>3, <1>4, ToldTakes, ToldReads DEF Next, Tmux, Reader, Caller

\* Every step keeps the invariants together.
LEMMA ServiceNext == ClientInv /\ ServiceInv /\ [Next]_vars => ServiceInv'
<1> SUFFICES ASSUME ClientInv, ServiceInv, [Next]_vars PROVE ServiceInv'
  OBVIOUS
<1>1. CASE Next
  <2>1. Writers' /\ Whole' /\ Together'
    BY <1>1, WritersKept, WholeKept, TogetherKept DEF ClientInv, ServiceInv
  <2>2. Stepwise' /\ Told'
    BY <1>1, StepwiseKept, ToldKept
  <2> QED
    BY <2>1, <2>2 DEF ServiceInv
<1>2. CASE UNCHANGED vars
  <2>1. UNCHANGED <<writing, state, stdin, skipping, ran, screen, outs, seq, slots, first, await>>
    BY <1>2 DEF vars, tmuxVars, pipeVars, readerVars, callVars
  <2>2. \A c \in Calls : Taken(c)' = Taken(c)
    BY <2>1 DEF Taken
  <2>3. Told'
    BY <2>1, <2>2, ToldStays
  <2> QED
    BY <2>1, <2>3 DEF ServiceInv, Writers, Whole, InLine, Together, Stepwise, HasRun
<1> QED
  BY <1>1, <1>2

\* They hold in every state.
LEMMA ServiceHolds == Spec => []ServiceInv
<1>1. Init => ServiceInv
  BY ServiceInit
<1>2. ClientInv /\ ServiceInv /\ [Next]_vars => ServiceInv'
  BY ServiceNext
<1> QED
  BY <1>1, <1>2, InvHolds, PTL DEF Spec

-----------------------------------------------------------------------------
(***************************************************************************)
(* The refinement of CommandService: the state it sees, and the steps.     *)
(***************************************************************************)
\* The commands of a call that succeeded.
Completed(c) == Cardinality({i \in 1 .. CallLen[c] : ran[<<c, i>>].ok})

AState == [c \in Calls |-> IF state[c] = "writing" THEN "waiting" ELSE state[c]]
ARan == [c \in Calls |-> IF LineRan(c) THEN Completed(c) ELSE -1]
AAt == [c \in Calls |-> IF LineRan(c) THEN ran[<<c, 1>>].n ELSE 0]
ABarrier == [c \in Calls |-> IF state[c] = "ok" THEN Cardinality(Before(first[c])) ELSE 0]

\* The initial state.
LEMMA AbstractInit ==
  ASSUME screen = 0, AState = [c \in Calls |-> "idle"], ARan = [c \in Calls |-> -1],
         AAt = [c \in Calls |-> 0], ABarrier = [c \in Calls |-> 0]
  PROVE  Service!Init
BY DEF Service!Init, AState, ARan, AAt, ABarrier, Completed, Before

\* What the service does not see.
LEMMA AbstractStutter ==
  ASSUME UNCHANGED <<AState, screen, ARan, AAt, ABarrier>>
  PROVE  UNCHANGED Service!vars
BY DEF Service!vars, AState, ARan, AAt, ABarrier, Completed, Before

\* A call starts.
LEMMA AbstractAsk ==
  ASSUME NEW c \in Calls, AState[c] = "idle", AState' = [AState EXCEPT ![c] = "waiting"],
         UNCHANGED <<screen, ARan, AAt, ABarrier>>
  PROVE  Service!Ask(c)
BY DEF Service!Ask, AState, ARan, AAt, ABarrier, Completed, Before

\* Its line has run.
LEMMA AbstractRun ==
  ASSUME NEW c \in Calls, AState[c] # "idle", ARan[c] = -1, NEW k \in 0 .. CallLen[c],
         ARan' = [ARan EXCEPT ![c] = k], AAt' = [AAt EXCEPT ![c] = screen],
         UNCHANGED <<AState, screen, ABarrier>>
  PROVE  Service!Run(c)
BY DEF Service!Run, AState, ARan, AAt, ABarrier, Completed, Before

\* A pane writes.
LEMMA AbstractOutput ==
  ASSUME screen' = screen + 1, UNCHANGED <<AState, ARan, AAt, ABarrier>>
  PROVE  Service!Output
BY DEF Service!Output, AState, ARan, AAt, ABarrier, Completed, Before

\* A call returns its barrier.
LEMMA AbstractSucceed ==
  ASSUME NEW c \in Calls, AState[c] = "waiting", ARan[c] = CallLen[c],
         AState' = [AState EXCEPT ![c] = "ok"], ABarrier' = [ABarrier EXCEPT ![c] = AAt[c]],
         UNCHANGED <<screen, ARan, AAt>>
  PROVE  Service!Succeed(c)
BY DEF Service!Succeed, AState, ARan, AAt, ABarrier, Completed, Before

\* A call returns an error.
LEMMA AbstractFail ==
  ASSUME NEW c \in Calls, AState[c] = "waiting", AState' = [AState EXCEPT ![c] = "failed"],
         UNCHANGED <<screen, ARan, AAt, ABarrier>>
  PROVE  Service!Fail(c)
BY DEF Service!Fail, AState, ARan, AAt, ABarrier, Completed, Before

\* A call changes its state, which hides whether it holds mu.
LEMMA StateStep ==
  ASSUME ClientTypeOK, NEW c \in Calls, NEW s, state' = [state EXCEPT ![c] = s]
  PROVE  AState' = [AState EXCEPT ![c] = IF s = "writing" THEN "waiting" ELSE s]
BY DEF AState, ClientTypeOK, TypeOK

\* What ran shows in the history alone.
LEMMA HistoryStep ==
  ASSUME UNCHANGED ran
  PROVE  ARan' = ARan /\ AAt' = AAt
BY DEF ARan, AAt, LineRan, Completed

\* The barrier of a call that has returned stays what its first command's screen held.
LEMMA BarrierKept ==
  ASSUME Told, Told',
         \A c \in Calls : state'[c] = "ok" <=> state[c] = "ok",
         \A c \in Calls : state[c] = "ok" => ran'[<<c, 1>>] = ran[<<c, 1>>]
  PROVE  ABarrier' = ABarrier
<1>1. ASSUME NEW c \in Calls
      PROVE  ABarrier'[c] = ABarrier[c]
  <2>1. CASE state[c] = "ok"
    <3>1. state'[c] = "ok" /\ ran'[<<c, 1>>] = ran[<<c, 1>>] /\ CallLen[c] > 0
      BY <2>1, ClientAssumption
    <3>2. Before(first[c]) = 1 .. ran[<<c, 1>>].n
      BY <2>1, <3>1 DEF Told, Taken, Placed
    <3>3. Before(first[c])' = 1 .. ran'[<<c, 1>>].n
      BY <3>1 DEF Told, Taken, Placed
    <3>4. Before(first[c])' = Before(first[c])
      BY <3>1, <3>2, <3>3
    <3> QED
      BY <2>1, <3>1, <3>4 DEF ABarrier
  <2>2. CASE state[c] # "ok"
    BY <2>2 DEF ABarrier
  <2> QED
    BY <2>1, <2>2
<1> QED
  BY <1>1 DEF ABarrier

\* Of the commands of a line, one run completes the line or leaves it to go on.
LEMMA RunImplements ==
  ASSUME ClientInv, ServiceInv, Told', RunCommand, ~(Head(stdin).cont /\ skipping)
  PROVE  [Service!Next]_(Service!vars)
<1>1. ClientTypeOK /\ UNCHANGED <<state, screen, outs, first>>
  BY DEF ClientInv, RunCommand, readerVars, callVars
<1>2. PICK c, i, err :
        /\ c \in Calls /\ i \in 1 .. CallLen[c] /\ err \in BOOLEAN
        /\ Head(stdin).id = <<c, i>> /\ (Head(stdin).cont <=> i > 1)
        /\ <<c, i>> \in Ids /\ ~HasRun(ran, <<c, i>>) /\ HasRun(ran', <<c, i>>) /\ state[c] # "idle"
        /\ (ran'[<<c, i>>].ok <=> ~err) /\ ran'[<<c, i>>].n = screen
        /\ \A id \in Ids : id # <<c, i>> => ran'[id] = ran[id]
  BY RunStep DEF ServiceInv
<1>3. CallLen[c] \in Nat \ {0} /\ i \in Nat /\ 1 \in 1 .. CallLen[c]
      /\ \A d \in Calls : \A l \in 1 .. CallLen[d] : <<d, l>> \in Ids
  BY <1>2, ClientAssumption DEF Ids
<1>4. \A d \in Calls : \A l \in 1 .. CallLen[d] :
        ~(d = c /\ l = i) => ran'[<<d, l>>] = ran[<<d, l>>]
  <2>1. \A d, l : ~(d = c /\ l = i) => <<d, l>> # <<c, i>>
    OBVIOUS
  <2> QED
    BY <1>2, <1>3, <2>1
<1>5. \A l \in 1 .. i - 1 : l \in 1 .. CallLen[c] /\ l # CallLen[c] /\ ran[<<c, l>>].ok /\ ran[<<c, l>>].n = screen
  <2>1. Head(stdin).id[1] = c /\ Head(stdin).id[2] = i /\ stdin # <<>>
    BY <1>2 DEF RunCommand
  <2>2. ASSUME NEW l \in 1 .. i - 1
        PROVE  ran[<<c, l>>].ok /\ ran[<<c, l>>].n = screen
    <3>1. i > 1
      BY <1>3
    <3>2. Head(stdin).cont /\ ~skipping
      BY <1>2, <3>1
    <3> QED
      BY <2>1, <3>2 DEF ServiceInv, Together
  <2>3. \A l \in 1 .. i - 1 : l \in 1 .. CallLen[c] /\ l # CallLen[c]
    BY <1>2, <1>3
  <2> QED
    BY <2>2, <2>3
<1>6. \A l \in 1 .. CallLen[c] : i < l => ~HasRun(ran, <<c, l>>)
  <2>1. ASSUME NEW l \in 1 .. CallLen[c], i < l, HasRun(ran, <<c, l>>)
        PROVE  FALSE
    <3>1. ran[<<c, i>>].ok
      BY <1>2, <2>1 DEF ServiceInv, Stepwise
    <3> QED
      BY <1>2, <3>1 DEF ServiceInv, Stepwise
  <2> QED
    BY <2>1
<1>7. \A l \in 1 .. CallLen[c] : l \in 1 .. i - 1 \/ l = i \/ i < l
  BY <1>2, <1>3
<1>8. \A l \in 1 .. CallLen[c] : l # i => ~(HasRun(ran, <<c, l>>) /\ (~ran[<<c, l>>].ok \/ l = CallLen[c]))
  BY <1>5, <1>6, <1>7
<1>9. ~LineRan(c)
  <2>1. \A l \in 1 .. CallLen[c] : ~(HasRun(ran, <<c, l>>) /\ (~ran[<<c, l>>].ok \/ l = CallLen[c]))
    BY <1>2, <1>8
  <2> QED
    BY <2>1 DEF LineRan, HasRun
<1>10. LineRan(c)' <=> err \/ i = CallLen[c]
  <2>1. ASSUME NEW l \in 1 .. CallLen[c], l # i
        PROVE  ~(HasRun(ran', <<c, l>>) /\ (~ran'[<<c, l>>].ok \/ l = CallLen[c]))
    <3>1. ran'[<<c, l>>] = ran[<<c, l>>]
      BY <1>2, <1>4, <2>1
    <3> QED
      BY <1>8, <2>1, <3>1 DEF HasRun
  <2>2. LineRan(c)' <=> \E l \in 1 .. CallLen[c] : HasRun(ran', <<c, l>>) /\ (~ran'[<<c, l>>].ok \/ l = CallLen[c])
    BY DEF LineRan, HasRun
  <2> QED
    BY <1>2, <2>1, <2>2
<1>11. \A d \in Calls : d # c =>
         (LineRan(d)' <=> LineRan(d)) /\ Completed(d)' = Completed(d) /\ ran'[<<d, 1>>] = ran[<<d, 1>>]
  <2>1. ASSUME NEW d \in Calls, d # c
        PROVE  (LineRan(d)' <=> LineRan(d)) /\ Completed(d)' = Completed(d) /\ ran'[<<d, 1>>] = ran[<<d, 1>>]
    <3>1. \A l \in 1 .. CallLen[d] : ran'[<<d, l>>] = ran[<<d, l>>]
      BY <1>4, <2>1
    <3>2. 1 \in 1 .. CallLen[d]
      BY ClientAssumption
    <3>3. LineRan(d)' <=> LineRan(d)
      BY <3>1 DEF LineRan
    <3>4. Completed(d)' = Completed(d)
      <4>1. {l \in 1 .. CallLen[d] : ran'[<<d, l>>].ok} = {l \in 1 .. CallLen[d] : ran[<<d, l>>].ok}
        BY <3>1
      <4> QED
        BY <4>1 DEF Completed
    <3> QED
      BY <3>1, <3>2, <3>3, <3>4
  <2> QED
    BY <2>1
<1>12. AState' = AState /\ ABarrier' = ABarrier
  BY <1>1 DEF AState, ABarrier, Before
<1>13. CASE ~(err \/ i = CallLen[c])
  <2>1. \A d \in Calls : (LineRan(d)' <=> LineRan(d)) /\ (d # c => Completed(d)' = Completed(d) /\ ran'[<<d, 1>>] = ran[<<d, 1>>])
    BY <1>9, <1>10, <1>11, <1>13
  <2>2. ARan' = ARan /\ AAt' = AAt
    BY <1>9, <2>1 DEF ARan, AAt
  <2> QED
    BY <1>1, <1>12, <2>2, AbstractStutter
<1>14. CASE err \/ i = CallLen[c]
  <2>1. ran'[<<c, 1>>].n = screen
    <3>1. CASE i = 1
      BY <1>2, <3>1
    <3>2. CASE i # 1
      <4>1. 1 \in 1 .. i - 1
        BY <1>2, <1>3, <3>2
      <4> QED
        BY <1>3, <1>4, <1>2, <1>5, <3>2, <4>1
    <3> QED
      BY <3>1, <3>2
  <2>2. PICK k \in 0 .. CallLen[c] : k = Completed(c)'
    <3>1. PICK m \in Nat : m = CallLen[c]
      BY <1>3
    <3>2. PICK S : S = {l \in 1 .. CallLen[c] : ran'[<<c, l>>].ok}
      OBVIOUS
    <3>3. S \in SUBSET (1 .. m)
      BY <3>1, <3>2
    <3>4. IsFiniteSet(1 .. m) /\ Cardinality(1 .. m) = m
      BY FS_Interval
    <3>5. IsFiniteSet(S) /\ Cardinality(S) <= m
      BY <3>3, <3>4, FS_Subset
    <3>6. Cardinality(S) \in Nat
      BY <3>5, FS_CardinalityType
    <3>7. Cardinality(S) \in 0 .. m
      BY <3>5, <3>6
    <3> QED
      BY <3>1, <3>2, <3>7 DEF Completed
  <2>3. ARan' = [ARan EXCEPT ![c] = k]
    BY <1>2, <1>10, <1>11, <1>14, <2>2 DEF ARan
  <2>4. AAt' = [AAt EXCEPT ![c] = screen]
    BY <1>2, <1>10, <1>11, <1>14, <2>1 DEF AAt
  <2>5. AState[c] # "idle" /\ ARan[c] = -1
    BY <1>2, <1>9 DEF AState, ARan
  <2>6. Service!Run(c)
    BY <1>1, <1>2, <1>12, <2>3, <2>4, <2>5, AbstractRun
  <2> QED
    BY <1>2, <2>6 DEF Service!Next
<1> QED
  BY <1>13, <1>14

\* A call that takes its last reply returns the position at which its line ran.
LEMMA TakeImplements ==
  ASSUME ClientInv, ServiceInv, Told', NEW c \in Calls, TakeReply(c)
  PROVE  [Service!Next]_(Service!vars)
<1>1. ClientTypeOK /\ UNCHANGED <<ran, screen, outs>> /\ state[c] = "waiting" /\ AState[c] = "waiting"
  BY DEF ClientInv, TakeReply, tmuxVars, readerVars, AState
<1>2. ARan' = ARan /\ AAt' = AAt
  BY <1>1, HistoryStep
<1>3. PICK s \in {"failed", "ok", "waiting"} : state' = [state EXCEPT ![c] = s]
  BY DEF TakeReply, Becomes
<1>4. AState' = [AState EXCEPT ![c] = s] /\ state'[c] = s
  BY <1>1, <1>3, StateStep DEF ClientTypeOK, TypeOK
<1>5. CASE s # "ok"
  <2>1. \A d \in Calls : state'[d] = "ok" <=> state[d] = "ok"
    BY <1>1, <1>3, <1>5 DEF ClientTypeOK, TypeOK
  <2>2. ABarrier' = ABarrier
    BY <1>1, <2>1, BarrierKept DEF ServiceInv
  <2>3. CASE s = "waiting"
    <3>1. AState' = AState
      BY <1>1, <1>4, <2>3 DEF AState
    <3> QED
      BY <1>1, <1>2, <2>2, <3>1, AbstractStutter
  <2>4. CASE s = "failed"
    <3>1. Service!Fail(c)
      BY <1>1, <1>2, <1>4, <2>2, <2>4, AbstractFail
    <3> QED
      BY <3>1 DEF Service!Next, Service!Return
  <2> QED
    BY <1>5, <2>3, <2>4
<1>6. CASE s = "ok"
  <2>1. PICK m \in Nat \ {0} : m = CallLen[c]
    BY ClientAssumption
  <2>2. Taken(c)' = m
    BY <1>4, <1>6, <2>1 DEF Taken
  <2>3. (\A i \in 1 .. m : ran'[<<c, i>>].ok) /\ Placed(<<c, 1>>, first[c])'
    BY <2>1, <2>2 DEF Told
  <2>4. \A i \in 1 .. m : ran[<<c, i>>].ok /\ <<c, i>> \in Ids
    BY <1>1, <2>1, <2>3 DEF Ids
  <2>5. LineRan(c)
    <3>1. m \in 1 .. m
      OBVIOUS
    <3>2. HasRun(ran, <<c, m>>)
      BY <2>4, <3>1 DEF ServiceInv, Stepwise
    <3> QED
      BY <2>1, <3>1, <3>2 DEF LineRan, HasRun
  <2>6. ARan[c] = CallLen[c]
    <3>1. {i \in 1 .. CallLen[c] : ran[<<c, i>>].ok} = 1 .. m
      BY <2>1, <2>4
    <3>2. Cardinality(1 .. m) = m
      BY FS_Interval
    <3> QED
      BY <2>1, <2>5, <3>1, <3>2 DEF ARan, Completed
  <2>7. PICK n \in Nat : n = ran[<<c, 1>>].n
    <3>1. 1 \in 1 .. m
      OBVIOUS
    <3>2. <<c, 1>> \in Ids
      BY <2>4, <3>1
    <3> QED
      BY <1>1, <3>2 DEF ClientTypeOK, Histories
  <2>8. AAt[c] = n
    BY <2>5, <2>7 DEF AAt
  <2>9. Before(first[c])' = 1 .. n
    BY <1>1, <2>3, <2>7 DEF Placed
  <2>10. ABarrier' = [ABarrier EXCEPT ![c] = AAt[c]]
    <3>1. Cardinality(1 .. n) = n
      BY FS_Interval
    <3>2. ABarrier'[c] = n
      BY <1>4, <1>6, <2>9, <3>1 DEF ABarrier
    <3>3. \A d \in Calls : d # c => ABarrier'[d] = ABarrier[d]
      <4>1. ASSUME NEW d \in Calls, d # c
            PROVE  ABarrier'[d] = ABarrier[d]
        <5>1. state'[d] = state[d] /\ first'[d] = first[d]
          <6>1. state'[d] = state[d]
            BY <1>1, <1>3, <4>1 DEF ClientTypeOK, TypeOK
          <6>2. first'[d] = first[d]
            BY <4>1 DEF TakeReply, ServiceInv, Told
          <6> QED
            BY <6>1, <6>2
        <5> QED
          BY <1>1, <5>1 DEF ABarrier, Before
      <4> QED
        BY <4>1
    <3> QED
      BY <2>8, <3>2, <3>3 DEF ABarrier
  <2>11. Service!Succeed(c)
    BY <1>1, <1>2, <1>4, <1>6, <2>6, <2>10, AbstractSucceed
  <2> QED
    BY <2>11 DEF Service!Next, Service!Return
<1> QED
  BY <1>5, <1>6

\* A call that starts, writes, fails or gives up.
LEMMA CallImplements ==
  ASSUME ClientInv, ServiceInv, Told', NEW c \in Calls,
         StartCall(c) \/ WriteLine(c) \/ WriteFails(c) \/ CallStranded(c) \/ CallCancelled(c)
  PROVE  [Service!Next]_(Service!vars)
<1>1. ClientTypeOK /\ Writers /\ UNCHANGED <<ran, screen>>
  BY DEF ClientInv, ServiceInv, StartCall, WriteLine, WriteFails, CallStranded, CallCancelled, LeavesWaiting, tmuxVars
<1>2. ARan' = ARan /\ AAt' = AAt
  BY <1>1, HistoryStep
<1>3. PICK s : /\ state' = [state EXCEPT ![c] = s]
               /\ \/ StartCall(c) /\ state[c] = "idle" /\ s = "writing"
                  \/ WriteLine(c) /\ state[c] = "writing" /\ s = "waiting"
                  \/ state[c] \in {"writing", "waiting"} /\ s = "failed"
  <2>1. CASE StartCall(c)
    BY <2>1 DEF StartCall, MayStart, Becomes
  <2>2. CASE WriteLine(c) \/ WriteFails(c)
    BY <1>1, <2>2 DEF WriteLine, WriteFails, Becomes, Writers
  <2>3. CASE CallStranded(c) \/ CallCancelled(c)
    BY <2>3 DEF CallStranded, CallCancelled, LeavesWaiting, Becomes
  <2> QED
    BY <2>1, <2>2, <2>3
<1>4. AState' = [AState EXCEPT ![c] = IF s = "writing" THEN "waiting" ELSE s]
  BY <1>1, <1>3, StateStep
<1>5. ABarrier' = ABarrier
  <2>1. \A d \in Calls : state'[d] = "ok" <=> state[d] = "ok"
    BY <1>1, <1>3 DEF ClientTypeOK, TypeOK
  <2> QED
    BY <1>1, <2>1, BarrierKept DEF ServiceInv
<1>6. CASE state[c] = "idle" /\ s = "writing"
  <2>1. AState[c] = "idle" /\ AState' = [AState EXCEPT ![c] = "waiting"]
    BY <1>4, <1>6 DEF AState
  <2>2. Service!Ask(c)
    BY <1>1, <1>2, <1>5, <2>1, AbstractAsk
  <2> QED
    BY <2>2 DEF Service!Next
<1>7. CASE state[c] = "writing" /\ s = "waiting"
  <2>1. AState' = AState
    BY <1>4, <1>7 DEF AState
  <2> QED
    BY <1>1, <1>2, <1>5, <2>1, AbstractStutter
<1>8. CASE state[c] \in {"writing", "waiting"} /\ s = "failed"
  <2>1. AState[c] = "waiting" /\ AState' = [AState EXCEPT ![c] = "failed"]
    BY <1>4, <1>8 DEF AState
  <2>2. Service!Fail(c)
    BY <1>1, <1>2, <1>5, <2>1, AbstractFail
  <2> QED
    BY <2>2 DEF Service!Next, Service!Return
<1> QED
  BY <1>3, <1>6, <1>7, <1>8

\* Of the other steps the service sees the output of the panes alone.
LEMMA RestImplements ==
  ASSUME ServiceInv, Told', UNCHANGED <<state, ran>>, Produce \/ UNCHANGED screen
  PROVE  [Service!Next]_(Service!vars)
<1>1. ARan' = ARan /\ AAt' = AAt /\ AState' = AState
  BY HistoryStep DEF AState
<1>2. ABarrier' = ABarrier
  BY BarrierKept DEF ServiceInv
<1>3. CASE UNCHANGED screen
  BY <1>1, <1>2, <1>3, AbstractStutter
<1>4. CASE Produce
  <2>1. Service!Output
    BY <1>1, <1>2, <1>4, AbstractOutput DEF Produce
  <2> QED
    BY <2>1 DEF Service!Next
<1> QED
  BY <1>3, <1>4

\* Every step of the client is a step of the service, or is hidden from it.
LEMMA StepImplements == ClientInv /\ ServiceInv /\ Told' /\ [Next]_vars => [Service!Next]_(Service!vars)
<1> SUFFICES ASSUME ClientInv, ServiceInv, Told', [Next]_vars PROVE [Service!Next]_(Service!vars)
  OBVIOUS
<1>1. CASE RunCommand
  <2>1. Head(stdin).cont /\ skipping => UNCHANGED <<state, ran, screen>>
    BY <1>1 DEF RunCommand, callVars
  <2> QED
    BY <1>1, <2>1, RunImplements, RestImplements
<1>2. CASE Produce
  BY <1>2, RestImplements DEF Produce, callVars
<1>3. CASE SendGuard \/ TmuxExits \/ Reader \/ Close \/ Deliver \/ PumpCloses \/ UNCHANGED vars
  <2>1. UNCHANGED <<state, ran, screen>>
    BY <1>3 DEF SendGuard, TmuxExits, Reader, ReadLine, ReadEnd, Close, Deliver, PumpCloses, vars, tmuxVars, callVars
  <2> QED
    BY <2>1, RestImplements
<1>4. ASSUME NEW c \in Calls, Caller(c)
      PROVE  [Service!Next]_(Service!vars)
  BY <1>4, TakeImplements, CallImplements DEF Caller
<1> QED
  BY <1>1, <1>2, <1>3, <1>4 DEF Next, Tmux

\* At first no call has asked for anything.
LEMMA InitImplements == Init => Service!Init
<1> SUFFICES ASSUME Init PROVE Service!Init
  OBVIOUS
<1>1. \A c \in Calls : ~LineRan(c)
  <2>1. ASSUME NEW c \in Calls, NEW i \in 1 .. CallLen[c]
        PROVE  ~(ran[<<c, i>>].num > 0)
    <3>1. <<c, i>> \in Ids
      BY DEF Ids
    <3>2. ran[<<c, i>>].num = 0
      BY <3>1 DEF Init, NotRun
    <3> QED
      BY <3>2
  <2> QED
    BY <2>1 DEF LineRan
<1>2. ARan = [c \in Calls |-> -1] /\ AAt = [c \in Calls |-> 0]
  BY <1>1 DEF ARan, AAt
<1>3. screen = 0 /\ AState = [c \in Calls |-> "idle"] /\ ABarrier = [c \in Calls |-> 0]
  BY DEF Init, AState, ABarrier
<1> QED
  BY <1>2, <1>3, AbstractInit

\* The client implements the safety of the command service: the commands of a
\* call run back to back, at one position of the output, at most once and only
\* after they were asked for; a call that succeeds ran to its end, and the
\* position of its first reply is the barrier that CommandsSeq promises: the
\* output events before it are those that the commands saw on the screen.
THEOREM ClientRefinesService == Spec => Service!SafetySpec
<1>1. Init => Service!Init
  BY InitImplements
<1>2. ServiceInv => Told
  BY DEF ServiceInv
<1>3. ClientInv /\ ServiceInv /\ Told' /\ [Next]_vars => [Service!Next]_(Service!vars)
  BY StepImplements
<1> QED
  BY <1>1, <1>2, <1>3, InvHolds, ServiceHolds, PTL DEF Spec, Service!SafetySpec
=============================================================================
