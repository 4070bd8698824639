-------------------------- MODULE DashboardProofs --------------------------
(***************************************************************************)
(* Theorems about the dashboard, for any panes, Hosts and streams: what    *)
(* Update does with the messages of its commands, in whatever order they   *)
(* come, keeps focus on a live pane, every view on one stream, and every   *)
(* keystroke on the pane it was typed for.                                 *)
(***************************************************************************)
EXTENDS Dashboard, SequenceTheorems, FiniteSetTheorems, TLAPS

Requests == [kind: {"resize", "restore", "keys"}, ref: Refs]

Views == [stream: Nat, err: BOOLEAN, exited: BOOLEAN, from: Nat, taken: Nat, mixed: BOOLEAN]

Loops == [phase: {"none", "opening", "receiving", "over"}, delivered: Nat]

Forwards == [phase: {"none", "opening", "idle", "sending", "failed", "ended"},
             request: Requests \cup {NoInput.request}, queue: Seq(Requests)]

InputTypeOK ==
  /\ driven \in [Gens -> SUBSET Refs] /\ cancelled \subseteq Gens
  /\ inputs \in [Hosts -> 0 .. MaxGens]
  /\ fwd \in [Gens -> Forwards]
  /\ \A g \in Gens : Len(fwd[g].queue) <= ForwardBuffer
  /\ \A g \in Gens : fwd[g].phase = "sending" => fwd[g].request \in Requests

DashTypeOK ==
  /\ TypeOK
  /\ asked \in Nat /\ listings \in Nat
  /\ \A answer \in listed : answer.herd \subseteq Refs /\ answer.at \in 1 .. listings
  /\ views \in [Refs -> {NoView} \cup Views]
  /\ streams \in [Watches -> Loops]
  /\ InputTypeOK

-----------------------------------------------------------------------------
(***************************************************************************)
(* Herds.                                                                  *)
(***************************************************************************)
\* A pane of an older herd that a newer one lacks has exited.
HerdsInOrder ==
  /\ panes \cap unborn = {} /\ \A answer \in listed : answer.herd \cap unborn = {}
  /\ \A old, new \in listed : old.at <= new.at /\ old # new => (old.herd \ new.herd) \cap alive = {}
  /\ \A new \in listed : new.at >= applied => (panes \ new.herd) \cap alive = {}

-----------------------------------------------------------------------------
(***************************************************************************)
(* Streams.                                                                *)
(***************************************************************************)
\* The watches of a pane are opened one after the other.
WatchesOpened ==
  \A r \in Refs : \E n \in 0 .. MaxWatches[r] :
    \A k \in 1 .. MaxWatches[r] : streams[<<r, k>>].phase # "none" <=> k <= n

\* A view has taken what the stream it is fed by delivered.
ViewFed(v, k, loop) ==
  (v.stream = k /\ loop.phase = "receiving" /\ loop.delivered # 0) =>
    v.from = k /\ v.taken = loop.delivered

ViewsFed ==
  /\ \A w \in Watches : streams[w].phase # "receiving" => streams[w].delivered = 0
  /\ \A w \in Watches : w[1] \in panes => ViewFed(views[w[1]], w[2], streams[w])

StreamInv == WatchesOpened /\ ViewsFed /\ ViewsUnmixed

-----------------------------------------------------------------------------
(***************************************************************************)
(* Input generations.                                                      *)
(***************************************************************************)
Working == {"opening", "idle", "sending", "failed"}

\* One generation of a Host at most is not retired, and it is the current one.
GensInv ==
  /\ \A g \in Gens : fwd[g].phase = "none" => fwd[g].queue = <<>> /\ driven[g] = {} /\ g \notin cancelled
  /\ \A h \in Hosts : inputs[h] # 0 => Current(h) \notin cancelled /\ fwd[Current(h)].phase \in Working
  /\ \A g \in Gens : fwd[g].phase \in Working /\ g \notin cancelled => inputs[g[1]] = g[2]

\* What is still to be sent on a stream.
Outgoing(f) == IF f.phase = "sending" THEN <<f.request>> \o f.queue ELSE f.queue

\* A stream is only about panes of its Host that have been.
OfHost(g) == {r \in Refs : HostOf[r] = g[1] /\ r \notin unborn}

LocalInv ==
  \A g \in Gens :
    /\ driven[g] \subseteq OfHost(g)
    /\ \A i \in 1 .. Len(Outgoing(fwd[g])) : Outgoing(fwd[g])[i].ref \in OfHost(g)

FocusInv == FocusIsLive /\ focus \notin forgotten

\* Once the first n requests of q are sent, the stream that drives set drives r.
Announced(set, q, r, n) ==
  \/ r \in set /\ \A l \in 1 .. n : q[l] # Request("restore", r)
  \/ \E j \in 1 .. n : /\ q[j] = Request("resize", r)
                       /\ \A l \in 1 .. n : l > j => q[l] # Request("restore", r)

\* Once the first n requests of q are sent, it does not.
Released(set, q, r, n) ==
  \/ r \notin set /\ \A l \in 1 .. n : q[l] # Request("resize", r)
  \/ \E j \in 1 .. n : /\ q[j] = Request("restore", r)
                       /\ \A l \in 1 .. n : l > j => q[l] # Request("resize", r)

Dead == Refs \ (alive \cup unborn)

Live(g) == g \notin cancelled /\ fwd[g].phase \in {"opening", "idle", "sending"}

Holds(g, r) == r = focus /\ g = Current(HostOf[r])

\* What a live stream is still to send.
StreamInOrder(g, q) ==
  /\ \A i \in 1 .. Len(q) : q[i].kind = "keys" => Announced(driven[g] \cup Dead, q, q[i].ref, i - 1)
  /\ \A r \in Refs : Holds(g, r) => Announced(driven[g] \cup Dead, q, r, Len(q))
  /\ \A r \in alive \ forgotten : ~Holds(g, r) => Released(driven[g], q, r, Len(q))

QueueInv == NoStrayKeys /\ \A g \in Gens : Live(g) => StreamInOrder(g, Outgoing(fwd[g]))

InputInv == InputTypeOK /\ GensInv /\ LocalInv /\ FocusInv /\ QueueInv

DashInv == DashTypeOK /\ HerdsInOrder /\ StreamInv /\ InputInv

-----------------------------------------------------------------------------
(***************************************************************************)
(* Types.                                                                  *)
(***************************************************************************)
\* A view is not the absence of one.
LEMMA ViewsAreViews ==
  /\ NewView \in Views /\ NewView # NoView
  /\ \A v \in Views : v # NoView
<1>1. NewView \in Views
  BY DEF NewView, Views
<1>2. ASSUME NEW v \in Views
      PROVE  v # NoView
  <2>1. "stream" \in DOMAIN v
    BY DEF Views
  <2>2. DOMAIN NoView = {}
    BY DEF NoView
  <2> QED
    BY <2>1, <2>2
<1> QED
  BY <1>1, <1>2

\* A generation is a Host and a number.
LEMMA GenParts ==
  /\ \A g \in Gens : g[1] \in Hosts /\ g[2] \in 1 .. MaxGens /\ g = <<g[1], g[2]>>
  /\ \A h \in Hosts, k \in 1 .. MaxGens : <<h, k>> \in Gens /\ <<h, k>>[1] = h /\ <<h, k>>[2] = k
  BY DEF Gens

\* So is a watch a pane and a number.
LEMMA WatchParts ==
  /\ \A w \in Watches : w[1] \in Refs /\ w[2] \in 1 .. MaxWatches[w[1]] /\ w = <<w[1], w[2]>>
  /\ \A r \in Refs : \A k \in 1 .. MaxWatches[r] :
       <<r, k>> \in Watches /\ <<r, k>>[1] = r /\ <<r, k>>[2] = k
  BY DEF Watches

\* The generation of a Host that has one.
LEMMA CurrentGen ==
  ASSUME inputs \in [Hosts -> 0 .. MaxGens], NEW h \in Hosts, inputs[h] # 0
  PROVE  Current(h) \in Gens /\ Current(h)[1] = h /\ Current(h)[2] = inputs[h]
<1>1. inputs[h] \in 1 .. MaxGens
  BY DashboardAssumption
<1> QED
  BY <1>1, GenParts DEF Current

\* A request of a kind there is.
LEMMA RequestType ==
  /\ \A r \in Refs, kind \in {"resize", "restore", "keys"} :
       /\ Request(kind, r) \in Requests
       /\ Request(kind, r).kind = kind /\ Request(kind, r).ref = r
  /\ \A kind \in {"resize", "restore", "keys"}, other \in {"resize", "restore", "keys"}, r \in Refs, s \in Refs :
       Request(kind, r) = Request(other, s) => kind = other /\ r = s
<1>1. ASSUME NEW r \in Refs, NEW kind \in {"resize", "restore", "keys"}
      PROVE  /\ Request(kind, r) \in Requests
             /\ Request(kind, r).kind = kind /\ Request(kind, r).ref = r
  BY DEF Request, Requests
<1> QED
  BY <1>1

\* The initial state has its type.
LEMMA InitType == Init => DashTypeOK
<1> SUFFICES ASSUME Init PROVE DashTypeOK
  OBVIOUS
<1>1. NoInput \in Forwards /\ NoInput.phase = "none" /\ NoInput.queue = <<>>
  <2>1. <<>> \in Seq(Requests)
    BY EmptySeq
  <2> QED
    BY <2>1 DEF NoInput, Forwards
<1>2. [phase |-> "none", delivered |-> 0] \in Loops
  BY DEF Loops
<1>3. \A g \in Gens : fwd[g] = NoInput
  BY DEF Init
<1>4. \A g \in Gens : Len(fwd[g].queue) <= ForwardBuffer
  <2>1. Len(<<>>) = 0
    BY EmptySeq
  <2> QED
    BY <1>1, <1>3, <2>1, DashboardAssumption
<1>5. fwd \in [Gens -> Forwards] /\ \A g \in Gens : fwd[g].phase # "sending"
  BY <1>1, <1>3 DEF Init
<1>6. views \in [Refs -> {NoView} \cup Views] /\ \A r \in Refs : views[r] = NoView
  BY DEF Init
<1>7. streams \in [Watches -> Loops]
  BY <1>2 DEF Init
<1>8. inputs \in [Hosts -> 0 .. MaxGens] /\ driven \in [Gens -> SUBSET Refs]
  BY DashboardAssumption DEF Init
<1>9. alive \subseteq Refs /\ unborn \subseteq Refs \ alive
  BY DEF Init
<1> QED
  BY <1>4, <1>5, <1>6, <1>7, <1>8, <1>9 DEF DashTypeOK, InputTypeOK, TypeOK, Init

\* An input queue never holds more than its capacity.
LEMMA ForwardType ==
  ASSUME fwd \in [Gens -> Forwards], NEW g \in Gens
  PROVE  /\ fwd[g] \in Forwards /\ fwd[g].queue \in Seq(Requests) /\ Len(fwd[g].queue) \in Nat
         /\ fwd[g].phase \in {"none", "opening", "idle", "sending", "failed", "ended"}
<1>1. fwd[g] \in Forwards
  OBVIOUS
<1>2. fwd[g].queue \in Seq(Requests)
  BY <1>1 DEF Forwards
<1> QED
  BY <1>1, <1>2, LenProperties DEF Forwards

-----------------------------------------------------------------------------
(***************************************************************************)
(* Requests in a row.                                                      *)
(***************************************************************************)
\* Before any is sent.
LEMMA NoRequest ==
  ASSUME NEW set, NEW q, NEW r
  PROVE  /\ Announced(set, q, r, 0) <=> r \in set
         /\ Released(set, q, r, 0) <=> r \notin set
<1>1. 1 .. 0 = {}
  OBVIOUS
<1> QED
  BY <1>1 DEF Announced, Released

\* A stream that drives more has announced as much.
LEMMA AnnouncedGrows ==
  ASSUME NEW small, NEW large, NEW q, NEW r, NEW n, r \in small => r \in large,
         Announced(small, q, r, n)
  PROVE  Announced(large, q, r, n)
  BY DEF Announced

\* A request queued leaves what is before it, and is the last to count.
LEMMA AnnouncedAppend ==
  ASSUME NEW set, NEW q, NEW b, NEW e, NEW r, NEW n \in Nat,
         \A i \in 1 .. n : b[i] = q[i], b[n + 1] = e
  PROVE  /\ \A i \in 0 .. n : Announced(set, q, r, i) => Announced(set, b, r, i)
         /\ Announced(set, q, r, n) /\ e # Request("restore", r) => Announced(set, b, r, n + 1)
         /\ e = Request("resize", r) => Announced(set, b, r, n + 1)
<1>1. \A i \in 0 .. n : \A l \in 1 .. i : l \in 1 .. n
  OBVIOUS
<1>2. \A i \in 0 .. n : Announced(set, q, r, i) => Announced(set, b, r, i)
  BY <1>1 DEF Announced
<1>3. \A l \in 1 .. n + 1 : l \in 1 .. n \/ l = n + 1
  OBVIOUS
<1>4. \A l \in 1 .. n : l \in 1 .. n + 1
  OBVIOUS
<1>5. ASSUME Announced(set, q, r, n), e # Request("restore", r)
      PROVE  Announced(set, b, r, n + 1)
  BY <1>3, <1>4, <1>5 DEF Announced
<1>6. ASSUME e = Request("resize", r)
      PROVE  Announced(set, b, r, n + 1)
  <2>1. n + 1 \in 1 .. n + 1 /\ \A l \in 1 .. n + 1 : ~(l > n + 1)
    OBVIOUS
  <2> QED
    BY <1>6, <2>1 DEF Announced
<1> QED
  BY <1>2, <1>5, <1>6

\* The same of what is released.
LEMMA ReleasedAppend ==
  ASSUME NEW set, NEW q, NEW b, NEW e, NEW r, NEW n \in Nat,
         \A i \in 1 .. n : b[i] = q[i], b[n + 1] = e
  PROVE  /\ Released(set, q, r, n) /\ e # Request("resize", r) => Released(set, b, r, n + 1)
         /\ e = Request("restore", r) => Released(set, b, r, n + 1)
<1>1. \A l \in 1 .. n + 1 : l \in 1 .. n \/ l = n + 1
  OBVIOUS
<1>2. \A l \in 1 .. n : l \in 1 .. n + 1
  OBVIOUS
<1>3. ASSUME Released(set, q, r, n), e # Request("resize", r)
      PROVE  Released(set, b, r, n + 1)
  BY <1>1, <1>2, <1>3 DEF Released
<1>4. ASSUME e = Request("restore", r)
      PROVE  Released(set, b, r, n + 1)
  <2>1. n + 1 \in 1 .. n + 1 /\ \A l \in 1 .. n + 1 : ~(l > n + 1)
    OBVIOUS
  <2> QED
    BY <1>4, <2>1 DEF Released
<1> QED
  BY <1>3, <1>4

\* The first request is sent: what it announced is driven.
LEMMA AnnouncedSent ==
  ASSUME NEW set, NEW after, NEW q, NEW b, NEW r, NEW n \in Nat,
         \A i \in 1 .. n : b[i] = q[i + 1],
         r \in set /\ q[1] # Request("restore", r) => r \in after,
         q[1] = Request("resize", r) => r \in after,
         Announced(set, q, r, n + 1)
  PROVE  Announced(after, b, r, n)
<1>1. \A l \in 1 .. n : l + 1 \in 1 .. n + 1 /\ l + 1 > 1
  OBVIOUS
<1>2. 1 \in 1 .. n + 1
  OBVIOUS
<1>3. CASE r \in set /\ \A l \in 1 .. n + 1 : q[l] # Request("restore", r)
  BY <1>1, <1>2, <1>3 DEF Announced
<1>4. ASSUME NEW j \in 1 .. n + 1, q[j] = Request("resize", r),
             \A l \in 1 .. n + 1 : l > j => q[l] # Request("restore", r)
      PROVE  Announced(after, b, r, n)
  <2>1. CASE j = 1
    BY <1>1, <1>4, <2>1 DEF Announced
  <2>2. CASE j # 1
    <3>1. j - 1 \in 1 .. n /\ (j - 1) + 1 = j
      BY <2>2
    <3>2. b[j - 1] = Request("resize", r)
      BY <1>4, <3>1
    <3>3. \A l \in 1 .. n : l > j - 1 => b[l] # Request("restore", r)
      <4>1. \A l \in 1 .. n : l > j - 1 => l + 1 > j
        OBVIOUS
      <4> QED
        BY <1>1, <1>4, <4>1
    <3> QED
      BY <3>1, <3>2, <3>3 DEF Announced
  <2> QED
    BY <2>1, <2>2
<1> QED
  BY <1>3, <1>4 DEF Announced

\* What it released is not.
LEMMA ReleasedSent ==
  ASSUME NEW set, NEW after, NEW q, NEW b, NEW r, NEW n \in Nat,
         \A i \in 1 .. n : b[i] = q[i + 1],
         r \notin set /\ q[1] # Request("resize", r) => r \notin after,
         q[1] = Request("restore", r) => r \notin after,
         Released(set, q, r, n + 1)
  PROVE  Released(after, b, r, n)
<1>1. \A l \in 1 .. n : l + 1 \in 1 .. n + 1 /\ l + 1 > 1
  OBVIOUS
<1>2. 1 \in 1 .. n + 1
  OBVIOUS
<1>3. CASE r \notin set /\ \A l \in 1 .. n + 1 : q[l] # Request("resize", r)
  BY <1>1, <1>2, <1>3 DEF Released
<1>4. ASSUME NEW j \in 1 .. n + 1, q[j] = Request("restore", r),
             \A l \in 1 .. n + 1 : l > j => q[l] # Request("resize", r)
      PROVE  Released(after, b, r, n)
  <2>1. CASE j = 1
    BY <1>1, <1>4, <2>1 DEF Released
  <2>2. CASE j # 1
    <3>1. j - 1 \in 1 .. n /\ (j - 1) + 1 = j
      BY <2>2
    <3>2. b[j - 1] = Request("restore", r)
      BY <1>4, <3>1
    <3>3. \A l \in 1 .. n : l > j - 1 => b[l] # Request("resize", r)
      <4>1. \A l \in 1 .. n : l > j - 1 => l + 1 > j
        OBVIOUS
      <4> QED
        BY <1>1, <1>4, <4>1
    <3> QED
      BY <3>1, <3>2, <3>3 DEF Released
  <2> QED
    BY <2>1, <2>2
<1> QED
  BY <1>3, <1>4 DEF Released

\* What is still to be sent on a stream, as its queue grows and shrinks.
LEMMA OutgoingType ==
  ASSUME InputTypeOK, NEW g \in Gens
  PROVE  Outgoing(fwd[g]) \in Seq(Requests)
<1>1. fwd[g].queue \in Seq(Requests)
  BY ForwardType DEF InputTypeOK
<1>2. CASE fwd[g].phase = "sending"
  <2>1. <<fwd[g].request>> \in Seq(Requests)
    BY <1>2 DEF InputTypeOK
  <2> QED
    BY <1>1, <1>2, <2>1, ConcatProperties DEF Outgoing
<1> QED
  BY <1>1, <1>2 DEF Outgoing

\* A queued request is the last.
LEMMA OutgoingAppend ==
  ASSUME NEW f, f.queue \in Seq(Requests), f.phase = "sending" => f.request \in Requests,
         NEW e \in Requests, NEW after,
         after.phase = f.phase, after.request = f.request, after.queue = Append(f.queue, e)
  PROVE  /\ Outgoing(after) \in Seq(Requests) /\ Len(Outgoing(f)) \in Nat
         /\ Len(Outgoing(after)) = Len(Outgoing(f)) + 1
         /\ \A i \in 1 .. Len(Outgoing(f)) : Outgoing(after)[i] = Outgoing(f)[i]
         /\ Outgoing(after)[Len(Outgoing(f)) + 1] = e
<1>1. Outgoing(f) \in Seq(Requests) /\ Outgoing(after) = Append(Outgoing(f), e)
  <2>1. CASE f.phase = "sending"
    <3>1. <<f.request>> \in Seq(Requests) /\ <<e>> \in Seq(Requests)
      BY <2>1
    <3>2. Outgoing(f) = <<f.request>> \o f.queue /\ Outgoing(f) \in Seq(Requests)
      BY <2>1, <3>1, ConcatProperties DEF Outgoing
    <3>3. Outgoing(after) = <<f.request>> \o Append(f.queue, e)
      BY <2>1 DEF Outgoing
    <3>4. Append(f.queue, e) = f.queue \o <<e>>
      BY AppendIsConcat
    <3>5. (<<f.request>> \o f.queue) \o <<e>> = <<f.request>> \o (f.queue \o <<e>>)
      <4>1. PICK s \in Seq(Requests), t \in Seq(Requests), u \in Seq(Requests) :
              s = <<f.request>> /\ t = f.queue /\ u = <<e>>
        BY <3>1
      <4>2. (s \o t) \o u = s \o (t \o u)
        BY ConcatAssociative
      <4> QED
        BY <4>1, <4>2
    <3>6. Append(Outgoing(f), e) = Outgoing(f) \o <<e>>
      BY <3>2, AppendIsConcat
    <3> QED
      BY <3>2, <3>3, <3>4, <3>5, <3>6
  <2>2. CASE f.phase # "sending"
    BY <2>2 DEF Outgoing
  <2> QED
    BY <2>1, <2>2
<1>2. PICK q \in Seq(Requests) : q = Outgoing(f)
  BY <1>1
<1> QED
  BY <1>1, <1>2, AppendProperties, LenProperties

\* Taking a request from the queue leaves what is to be sent.
LEMMA OutgoingTaken ==
  ASSUME NEW f, f.phase = "idle", f.queue \in Seq(Requests), f.queue # <<>>, NEW after,
         after = [phase |-> "sending", request |-> Head(f.queue), queue |-> Tail(f.queue)]
  PROVE  Outgoing(after) = Outgoing(f)
<1>1. PICK q \in Seq(Requests) : q = f.queue /\ q # <<>>
  OBVIOUS
<1>2. /\ Head(q) \in Requests /\ Head(q) = q[1] /\ Tail(q) \in Seq(Requests)
      /\ Len(Tail(q)) = Len(q) - 1 /\ Len(q) \in Nat \ {0}
      /\ \A i \in 1 .. Len(q) - 1 : Tail(q)[i] = q[i + 1]
  BY <1>1, HeadTailProperties, EmptySeq
<1>3. PICK head \in Seq(Requests) : head = <<Head(q)>> /\ Len(head) = 1 /\ head[1] = q[1]
  <2>1. <<Head(q)>> \in Seq(Requests)
    BY <1>2
  <2>2. Len(<<Head(q)>>) = 1 /\ <<Head(q)>>[1] = q[1]
    BY <1>2
  <2> QED
    BY <2>1, <2>2
<1>4. PICK tail \in Seq(Requests) : tail = Tail(q)
  BY <1>2
<1>5. /\ head \o tail \in Seq(Requests) /\ Len(head \o tail) = Len(q)
      /\ \A i \in 1 .. Len(q) : (head \o tail)[i] = q[i]
  <2>1. PICK n \in Nat \ {0} : n = Len(q)
    BY <1>2
  <2>2. /\ head \o tail \in Seq(Requests) /\ Len(head \o tail) = 1 + (n - 1)
        /\ \A i \in 1 .. 1 + (n - 1) : (head \o tail)[i] = IF i <= 1 THEN head[i] ELSE tail[i - 1]
    BY <1>2, <1>3, <1>4, <2>1, ConcatProperties
  <2>3. \A i \in 1 .. n : i \in 1 .. 1 + (n - 1) /\ (i = 1 \/ (~(i <= 1) /\ i - 1 \in 1 .. n - 1 /\ i - 1 + 1 = i))
    OBVIOUS
  <2>4. \A i \in 1 .. n : (head \o tail)[i] = q[i]
    BY <1>2, <1>3, <1>4, <2>1, <2>2, <2>3
  <2> QED
    BY <2>1, <2>2, <2>4
<1>6. head \o tail = q
  BY <1>5, SeqEqual
<1>7. Outgoing(after) = <<Head(q)>> \o Tail(q)
  BY <1>1 DEF Outgoing
<1> QED
  BY <1>1, <1>3, <1>4, <1>6, <1>7 DEF Outgoing

\* Sending the request taken leaves the queue.
LEMMA OutgoingSent ==
  ASSUME NEW f, f.phase = "sending", f.queue \in Seq(Requests), f.request \in Requests
  PROVE  /\ Outgoing(f)[1] = f.request /\ Len(f.queue) \in Nat /\ Len(Outgoing(f)) = Len(f.queue) + 1
         /\ \A i \in 1 .. Len(f.queue) : f.queue[i] = Outgoing(f)[i + 1]
<1>1. PICK q \in Seq(Requests) : q = f.queue
  OBVIOUS
<1>2. PICK n \in Nat : n = Len(q)
  BY LenProperties
<1>3. PICK head \in Seq(Requests) : head = <<f.request>> /\ Len(head) = 1 /\ head[1] = f.request
  <2>1. <<f.request>> \in Seq(Requests)
    OBVIOUS
  <2>2. Len(<<f.request>>) = 1 /\ <<f.request>>[1] = f.request
    OBVIOUS
  <2> QED
    BY <2>1, <2>2
<1>4. Outgoing(f) = head \o q
  BY <1>1, <1>3 DEF Outgoing
<1>5. /\ Len(head \o q) = 1 + n
      /\ \A i \in 1 .. 1 + n : (head \o q)[i] = IF i <= 1 THEN head[i] ELSE q[i - 1]
  BY <1>2, <1>3, ConcatProperties
<1>6. 1 \in 1 .. 1 + n /\ \A i \in 1 .. n : i + 1 \in 1 .. 1 + n /\ ~(i + 1 <= 1) /\ i + 1 - 1 = i
  OBVIOUS
<1>7. (head \o q)[1] = f.request
  BY <1>3, <1>5, <1>6
<1>8. \A i \in 1 .. n : (head \o q)[i + 1] = q[i]
  BY <1>5, <1>6
<1> QED
  BY <1>1, <1>2, <1>4, <1>5, <1>7, <1>8

-----------------------------------------------------------------------------
(***************************************************************************)
(* What steps do to the input streams.                                     *)
(***************************************************************************)
\* A stream of another Host has nothing to do with a pane.
LEMMA ForeignReleased ==
  ASSUME InputTypeOK, LocalInv, NEW g \in Gens, NEW r, r \notin OfHost(g)
  PROVE  Released(driven[g], Outgoing(fwd[g]), r, Len(Outgoing(fwd[g])))
<1>1. r \notin driven[g]
  BY DEF LocalInv
<1>2. ASSUME NEW l \in 1 .. Len(Outgoing(fwd[g])), Outgoing(fwd[g])[l] = Request("resize", r)
      PROVE  FALSE
  <2>1. Outgoing(fwd[g])[l].ref = r
    BY <1>2 DEF Request
  <2> QED
    BY <1>2, <2>1 DEF LocalInv
<1> QED
  BY <1>1, <1>2 DEF Released

\* Nothing happens to them.
LEMMA InputKept ==
  ASSUME InputInv, FocusIsLive',
         UNCHANGED <<fwd, driven, cancelled, inputs, focus, strayKey, forgotten, alive, unborn>>
  PROVE  InputInv'
<1>1. InputTypeOK' /\ GensInv' /\ LocalInv' /\ FocusInv'
  BY DEF InputInv, InputTypeOK, GensInv, LocalInv, FocusInv, Current, OfHost
<1>2. ASSUME NEW g \in Gens, Live(g)'
      PROVE  StreamInOrder(g, Outgoing(fwd[g]))'
  <2>1. Live(g)
    BY <1>2 DEF Live
  <2>2. StreamInOrder(g, Outgoing(fwd[g]))
    BY <2>1 DEF InputInv, QueueInv
  <2> QED
    BY <2>2 DEF StreamInOrder, Holds, Dead, Current
<1>3. QueueInv'
  BY <1>2 DEF QueueInv, InputInv, NoStrayKeys
<1> QED
  BY <1>1, <1>3 DEF InputInv

\* A pane opens or exits.
LEMMA InputServers ==
  ASSUME DashTypeOK, InputInv, Servers
  PROVE  InputInv'
<1>1. UNCHANGED <<fwd, driven, cancelled, inputs, focus, strayKey, forgotten, views>>
  BY DEF Servers, PaneOpens, PaneExits, inputVars, modelVars
<1>2. InputTypeOK' /\ GensInv' /\ FocusInv'
  BY <1>1 DEF InputInv, InputTypeOK, GensInv, FocusInv, FocusIsLive, Current
<1>3. /\ unborn' \subseteq unborn /\ \A r \in Refs : r \in Dead => r \in Dead'
      /\ \A r \in alive' : r \in alive \/ r \in unborn
  BY DEF Servers, PaneOpens, PaneExits, Dead
<1>4. LocalInv'
  BY <1>1, <1>3 DEF InputInv, LocalInv, OfHost
<1>5. ASSUME NEW g \in Gens, Live(g)'
      PROVE  StreamInOrder(g, Outgoing(fwd[g]))'
  <2>1. Live(g)
    BY <1>1, <1>5 DEF Live
  <2>2. PICK q : q = Outgoing(fwd[g])
    OBVIOUS
  <2>3. StreamInOrder(g, q)
    BY <2>1, <2>2 DEF InputInv, QueueInv
  <2>4. q \in Seq(Requests)
    BY <2>2, OutgoingType DEF InputInv
  <2>5. \A r \in Refs : r \in driven[g] \cup Dead => r \in driven[g] \cup Dead'
    BY <1>3
  <2>6. ASSUME NEW i \in 1 .. Len(q), q[i].kind = "keys"
        PROVE  Announced(driven[g] \cup Dead', q, q[i].ref, i - 1)
    <3>1. q[i].ref \in Refs
      <4>1. q[i] \in Requests
        BY <2>4, ElementOfSeq
      <4> QED
        BY <4>1 DEF Requests
    <3>2. Announced(driven[g] \cup Dead, q, q[i].ref, i - 1)
      BY <2>3, <2>6 DEF StreamInOrder
    <3> QED
      BY <2>5, <3>1, <3>2, AnnouncedGrows
  <2>7. ASSUME NEW r \in Refs, Holds(g, r)
        PROVE  Announced(driven[g] \cup Dead', q, r, Len(q))
    <3>1. Announced(driven[g] \cup Dead, q, r, Len(q))
      BY <2>3, <2>7 DEF StreamInOrder
    <3> QED
      BY <2>5, <3>1, AnnouncedGrows
  <2>8. ASSUME NEW r \in alive' \ forgotten, ~Holds(g, r)
        PROVE  Released(driven[g], q, r, Len(q))
    <3>1. CASE r \in alive
      BY <2>3, <2>8, <3>1 DEF StreamInOrder
    <3>2. CASE r \in unborn
      BY <2>2, <3>2, ForeignReleased DEF OfHost, InputInv
    <3> QED
      BY <1>3, <2>8, <3>1, <3>2
  <2>9. \A r : Holds(g, r)' <=> Holds(g, r)
    BY <1>1 DEF Holds, Current
  <2> QED
    BY <1>1, <2>2, <2>6, <2>7, <2>8, <2>9 DEF StreamInOrder
<1>6. QueueInv'
  BY <1>1, <1>5 DEF QueueInv, InputInv, NoStrayKeys
<1> QED
  BY <1>2, <1>4, <1>6 DEF InputInv

\* Focus is lost on a pane that exited or is forgotten.
LEMMA InputLoses ==
  ASSUME DashTypeOK, InputInv, focus' = NoRef, focus \notin alive \ forgotten',
         forgotten \subseteq forgotten', forgotten' \subseteq Refs,
         UNCHANGED <<fwd, driven, cancelled, inputs, strayKey, alive, unborn>>
  PROVE  InputInv'
<1>1. InputTypeOK' /\ GensInv' /\ LocalInv'
  BY DEF InputInv, InputTypeOK, GensInv, LocalInv, Current, OfHost
<1>2. FocusInv'
  BY DashboardAssumption DEF FocusInv, FocusIsLive
<1>3. ASSUME NEW g \in Gens, Live(g)'
      PROVE  StreamInOrder(g, Outgoing(fwd[g]))'
  <2>1. Live(g)
    BY <1>3 DEF Live
  <2>2. StreamInOrder(g, Outgoing(fwd[g]))
    BY <2>1 DEF InputInv, QueueInv
  <2>3. \A r \in Refs : ~Holds(g, r)'
    BY DashboardAssumption DEF Holds
  <2>4. \A r \in alive \ forgotten' : ~Holds(g, r)
    BY DEF Holds
  <2> QED
    BY <2>2, <2>3, <2>4 DEF StreamInOrder, Dead
<1>4. QueueInv'
  BY <1>3 DEF QueueInv, InputInv, NoStrayKeys
<1> QED
  BY <1>1, <1>2, <1>4 DEF InputInv

\* A generation is retired, with the focus on its Host.
LEMMA InputDropped ==
  ASSUME DashTypeOK, InputInv, NEW h \in Hosts, inputs[h] # 0, dropInput(h),
         UNCHANGED <<alive, unborn, strayKey>>,
         fwd' \in [Gens -> Forwards], \A g \in Gens : g # Current(h) => fwd'[g] = fwd[g],
         fwd'[Current(h)] = fwd[Current(h)] \/ fwd'[Current(h)] = [NoInput EXCEPT !.phase = "ended"],
         forgotten' \subseteq forgotten,
         \A r \in forgotten : r \in forgotten' \/ HostOf[r] = h,
         focus' # NoRef => views'[focus'] = views[focus']
  PROVE  InputInv'
<1>1. Current(h) \in Gens /\ Current(h)[1] = h /\ Current(h)[2] = inputs[h]
  BY CurrentGen DEF InputInv, InputTypeOK
<1>2. PICK cur \in Gens : cur = Current(h)
  BY <1>1
<1>3. PICK ended : ended = [NoInput EXCEPT !.phase = "ended"]
  OBVIOUS
<1>4. ended.phase = "ended" /\ ended.queue = <<>> /\ Len(ended.queue) = 0
  BY <1>3, EmptySeq DEF NoInput
<1>5. /\ cancelled' = cancelled \cup {cur}
      /\ inputs' = [inputs EXCEPT ![h] = 0]
      /\ driven' = [g \in Gens |-> IF g = cur THEN {} ELSE driven[g]]
      /\ focus' = IF focus # NoRef /\ HostOf[focus] = h THEN NoRef ELSE focus
  BY <1>2 DEF dropInput
<1>6. \A g \in Gens : fwd'[g] = fwd[g] \/ (g = cur /\ fwd'[g] = ended)
  BY <1>2, <1>3
<1>7. InputTypeOK /\ GensInv /\ LocalInv /\ FocusInv /\ QueueInv
  BY DEF InputInv
<1>8. InputTypeOK'
  <2>1. driven' \in [Gens -> SUBSET Refs] /\ cancelled' \subseteq Gens
    BY <1>5, <1>7 DEF InputTypeOK
  <2>2. inputs' \in [Hosts -> 0 .. MaxGens]
    BY <1>5, <1>7, DashboardAssumption DEF InputTypeOK
  <2>3. ASSUME NEW g \in Gens
        PROVE  Len(fwd'[g].queue) <= ForwardBuffer
    <3>1. CASE fwd'[g] = fwd[g]
      BY <1>7, <3>1 DEF InputTypeOK
    <3>2. CASE fwd'[g] = ended
      <4>1. 0 <= ForwardBuffer
        BY DashboardAssumption
      <4> QED
        BY <1>4, <3>2, <4>1
    <3> QED
      BY <1>6, <3>1, <3>2
  <2>4. \A g \in Gens : fwd'[g].phase = "sending" => fwd'[g].request \in Requests
    BY <1>4, <1>6, <1>7 DEF InputTypeOK
  <2> QED
    BY <2>1, <2>2, <2>3, <2>4 DEF InputTypeOK
<1>9. GensInv'
  <2>1. fwd[cur].phase \in Working
    BY <1>2, <1>7 DEF GensInv
  <2>2. ASSUME NEW g \in Gens, fwd'[g].phase = "none"
        PROVE  fwd'[g].queue = <<>> /\ driven'[g] = {} /\ g \notin cancelled'
    <3>1. fwd'[g] = fwd[g] /\ g # cur
      BY <1>4, <1>6, <2>1, <2>2 DEF Working
    <3> QED
      BY <1>5, <1>7, <2>2, <3>1 DEF GensInv
  <2>3. ASSUME NEW k \in Hosts, inputs'[k] # 0
        PROVE  Current(k)' \notin cancelled' /\ fwd'[Current(k)'].phase \in Working
    <3>1. k # h /\ inputs'[k] = inputs[k]
      BY <1>5, <1>7, <2>3 DEF InputTypeOK
    <3>2. Current(k)' = Current(k)
      BY <3>1 DEF Current
    <3>3. Current(k) \in Gens /\ Current(k)[1] = k
      BY <1>7, <2>3, <3>1, CurrentGen DEF InputTypeOK
    <3>4. Current(k) # cur
      BY <1>1, <1>2, <3>1, <3>3
    <3> QED
      BY <1>5, <1>6, <1>7, <2>3, <3>1, <3>2, <3>3, <3>4 DEF GensInv
  <2>4. ASSUME NEW g \in Gens, fwd'[g].phase \in Working, g \notin cancelled'
        PROVE  inputs'[g[1]] = g[2]
    <3>1. g # cur /\ g \notin cancelled /\ fwd'[g] = fwd[g]
      BY <1>5, <1>6, <2>4
    <3>2. inputs[g[1]] = g[2] /\ g[1] \in Hosts /\ g = <<g[1], g[2]>>
      BY <1>7, <2>4, <3>1, GenParts DEF GensInv
    <3>3. g[1] # h
      BY <1>2, <3>1, <3>2 DEF Current
    <3> QED
      BY <1>5, <1>7, <3>2, <3>3 DEF InputTypeOK
  <2> QED
    BY <2>2, <2>3, <2>4 DEF GensInv
<1>10. LocalInv'
  <2>1. \A g \in Gens : driven'[g] \subseteq driven[g]
    BY <1>5
  <2>2. \A g \in Gens : OfHost(g)' = OfHost(g)
    BY DEF OfHost
  <2>3. ASSUME NEW g \in Gens, NEW i \in 1 .. Len(Outgoing(fwd'[g]))
        PROVE  Outgoing(fwd'[g])[i].ref \in OfHost(g)
    <3>1. CASE fwd'[g] = fwd[g]
      BY <1>7, <2>3, <3>1 DEF LocalInv
    <3>2. CASE fwd'[g] = ended
      <4>1. Len(Outgoing(fwd'[g])) = 0
        BY <1>4, <3>2 DEF Outgoing
      <4> QED
        BY <2>3, <4>1
    <3> QED
      BY <1>6, <3>1, <3>2
  <2> QED
    BY <1>7, <2>1, <2>2, <2>3 DEF LocalInv
<1>11. FocusInv'
  <2>1. CASE focus' = NoRef
    <3>1. NoRef \notin forgotten'
      BY DashboardAssumption DEF DashTypeOK, TypeOK
    <3> QED
      BY <2>1, <3>1 DEF FocusInv, FocusIsLive
  <2>2. CASE focus' # NoRef
    <3>1. focus' = focus /\ HostOf[focus] # h /\ focus \in Refs /\ HostOf[focus] \in Hosts
      BY <1>5, <2>2, DashboardAssumption DEF DashTypeOK, TypeOK
    <3>2. inputs'[HostOf[focus]] = inputs[HostOf[focus]] /\ inputs[HostOf[focus]] # 0
      BY <1>5, <1>7, <2>2, <3>1 DEF InputTypeOK, FocusInv, FocusIsLive
    <3>3. Current(HostOf[focus])' = Current(HostOf[focus]) /\ Current(HostOf[focus])[1] = HostOf[focus]
      BY <1>7, <3>1, <3>2, CurrentGen DEF Current, InputTypeOK
    <3>4. Current(HostOf[focus]) # cur
      BY <1>1, <1>2, <3>1, <3>3
    <3> QED
      BY <1>5, <1>7, <2>2, <3>1, <3>2, <3>3, <3>4 DEF FocusInv, FocusIsLive
  <2> QED
    BY <2>1, <2>2
<1>12. ASSUME NEW g \in Gens, Live(g)'
       PROVE  StreamInOrder(g, Outgoing(fwd[g]))'
  <2>1. g # cur /\ fwd'[g] = fwd[g] /\ driven'[g] = driven[g] /\ Live(g)
    BY <1>5, <1>6, <1>12 DEF Live
  <2>2. PICK q : q = Outgoing(fwd[g])
    OBVIOUS
  <2>3. StreamInOrder(g, q)
    BY <1>7, <2>1, <2>2 DEF QueueInv
  <2>4. inputs[g[1]] = g[2] /\ g[1] \in Hosts /\ g = <<g[1], g[2]>> /\ g[1] # h
    <3>1. inputs[g[1]] = g[2] /\ g[1] \in Hosts /\ g = <<g[1], g[2]>>
      BY <1>7, <2>1, GenParts DEF GensInv, Live, Working
    <3> QED
      BY <1>2, <2>1, <3>1 DEF Current
  <2>5. ASSUME NEW r \in Refs
        PROVE  Holds(g, r)' <=> Holds(g, r)
    <3>1. \A k \in Hosts : g = Current(k) => k = g[1]
      BY DEF Current
    <3>2. \A k \in Hosts : g = Current(k)' => k = g[1]
      BY DEF Current
    <3>3. HostOf[r] \in Hosts /\ r # NoRef
      BY DashboardAssumption
    <3>4. inputs'[g[1]] = inputs[g[1]]
      BY <1>5, <1>7, <2>4 DEF InputTypeOK
    <3>5. g = Current(HostOf[r])' <=> g = Current(HostOf[r])
      BY <3>1, <3>2, <3>3, <3>4 DEF Current
    <3>6. HostOf[r] # h => (r = focus' <=> r = focus)
      BY <1>5, <3>3
    <3> QED
      BY <2>4, <3>1, <3>3, <3>5, <3>6 DEF Holds
  <2>6. ASSUME NEW r \in alive \ forgotten', ~Holds(g, r)
        PROVE  Released(driven[g], q, r, Len(q))
    <3>1. CASE r \notin forgotten
      BY <2>3, <2>6, <3>1 DEF StreamInOrder
    <3>2. CASE r \in forgotten
      <4>1. HostOf[r] = h
        BY <2>6, <3>2
      <4> QED
        BY <1>7, <2>2, <2>4, <4>1, ForeignReleased DEF OfHost
    <3> QED
      BY <3>1, <3>2
  <2>7. alive \subseteq Refs
    BY DEF DashTypeOK, TypeOK
  <2> QED
    BY <2>1, <2>2, <2>3, <2>5, <2>6, <2>7 DEF StreamInOrder, Dead
<1>13. QueueInv'
  BY <1>7, <1>12 DEF QueueInv, NoStrayKeys
<1> QED
  BY <1>8, <1>9, <1>10, <1>11, <1>13 DEF InputInv

\* A request is queued, for the pane that has, loses or is given focus.
LEMMA InputQueued ==
  ASSUME DashTypeOK, InputInv, NEW r \in Refs, r \notin unborn, inputs[HostOf[r]] # 0,
         ~Stalled(HostOf[r]), NEW kind \in {"resize", "restore", "keys"},
         Queue(Current(HostOf[r]), Request(kind, r)),
         UNCHANGED <<cancelled, inputs, driven, alive, unborn, strayKey>>,
         forgotten' = forgotten \ {r}, FocusIsLive',
         \/ kind = "resize" /\ focus \in {r, NoRef} /\ focus' = r
         \/ kind = "keys" /\ focus = r /\ focus' = r
         \/ kind = "restore" /\ focus = r /\ focus' = NoRef
  PROVE  InputInv'
<1>1. HostOf[r] \in Hosts /\ r # NoRef
  BY DashboardAssumption
<1>2. PICK h \in Hosts : h = HostOf[r]
  BY <1>1
<1>3. Current(h) \in Gens /\ Current(h)[1] = h /\ Current(h)[2] = inputs[h]
  BY <1>2, CurrentGen DEF InputInv, InputTypeOK
<1>4. PICK cur \in Gens : cur = Current(h)
  BY <1>3
<1>5. InputTypeOK /\ GensInv /\ LocalInv /\ FocusInv /\ QueueInv
  BY DEF InputInv
<1>6. PICK e \in Requests : e = Request(kind, r)
  BY RequestType
<1>7. e.ref = r /\ e.kind = kind
  BY <1>6, RequestType
<1>8. PICK after : after = [fwd[cur] EXCEPT !.queue = Append(@, e)]
  OBVIOUS
<1>9. /\ fwd[cur] \in Forwards /\ fwd[cur].queue \in Seq(Requests) /\ Len(fwd[cur].queue) \in Nat
      /\ fwd[cur].phase = "sending" => fwd[cur].request \in Requests
  BY <1>5, ForwardType DEF InputTypeOK
<1>10. /\ Append(fwd[cur].queue, e) \in Seq(Requests)
       /\ Len(Append(fwd[cur].queue, e)) = Len(fwd[cur].queue) + 1
  BY <1>9, AppendProperties
<1>11. /\ after \in Forwards /\ after.phase = fwd[cur].phase /\ after.request = fwd[cur].request
       /\ after.queue = Append(fwd[cur].queue, e)
  BY <1>8, <1>9, <1>10 DEF Forwards
<1>12. fwd' = [fwd EXCEPT ![cur] = after]
  BY <1>2, <1>4, <1>6, <1>8 DEF Queue
<1>13. fwd' \in [Gens -> Forwards] /\ fwd'[cur] = after /\ \A g \in Gens : g # cur => fwd'[g] = fwd[g]
  BY <1>5, <1>11, <1>12 DEF InputTypeOK
<1>14. InputTypeOK'
  <2>1. Len(fwd[cur].queue) # ForwardBuffer /\ Len(fwd[cur].queue) <= ForwardBuffer
    BY <1>2, <1>4, <1>5 DEF Stalled, InputTypeOK
  <2>2. Len(after.queue) <= ForwardBuffer
    BY <1>9, <1>10, <1>11, <2>1, DashboardAssumption
  <2>3. \A g \in Gens : Len(fwd'[g].queue) <= ForwardBuffer
    BY <1>5, <1>13, <2>2 DEF InputTypeOK
  <2>4. \A g \in Gens : fwd'[g].phase = "sending" => fwd'[g].request \in Requests
    BY <1>5, <1>9, <1>11, <1>13 DEF InputTypeOK
  <2> QED
    BY <1>5, <1>13, <2>3, <2>4 DEF InputTypeOK
<1>15. fwd[cur].phase \in Working /\ cur \notin cancelled
  BY <1>2, <1>4, <1>5 DEF GensInv
<1>16. GensInv'
  <2>1. \A g \in Gens : fwd'[g].phase = fwd[g].phase
    BY <1>11, <1>13
  <2>2. \A g \in Gens : fwd[g].phase = "none" => fwd'[g] = fwd[g]
    BY <1>13, <1>15 DEF Working
  <2>3. ASSUME NEW k \in Hosts, inputs'[k] # 0
        PROVE  Current(k)' \notin cancelled' /\ fwd'[Current(k)'].phase \in Working
    <3>1. Current(k)' = Current(k) /\ Current(k) \in Gens
      BY <1>5, <2>3, CurrentGen DEF Current, InputTypeOK
    <3> QED
      BY <1>5, <2>1, <2>3, <3>1 DEF GensInv
  <2> QED
    BY <1>5, <2>1, <2>2, <2>3 DEF GensInv
<1>17. PICK q \in Seq(Requests) : q = Outgoing(fwd[cur])
  BY <1>5, OutgoingType
<1>18. PICK n \in Nat : n = Len(q)
  BY LenProperties
<1>19. PICK b \in Seq(Requests) :
         /\ b = Outgoing(after) /\ Len(b) = n + 1
         /\ \A i \in 1 .. n : b[i] = q[i]
         /\ b[n + 1] = e
  <2>1. PICK f : f = fwd[cur]
    OBVIOUS
  <2>2. f.queue \in Seq(Requests) /\ (f.phase = "sending" => f.request \in Requests)
    BY <1>9, <2>1
  <2>3. after.phase = f.phase /\ after.request = f.request /\ after.queue = Append(f.queue, e)
    BY <1>11, <2>1
  <2>4. /\ Outgoing(after) \in Seq(Requests)
        /\ Len(Outgoing(after)) = Len(Outgoing(f)) + 1
        /\ \A i \in 1 .. Len(Outgoing(f)) : Outgoing(after)[i] = Outgoing(f)[i]
        /\ Outgoing(after)[Len(Outgoing(f)) + 1] = e
    BY <2>2, <2>3, OutgoingAppend
  <2> QED
    BY <1>17, <1>18, <2>1, <2>4
<1>20. LocalInv'
  <2>1. \A g \in Gens : OfHost(g)' = OfHost(g)
    BY DEF OfHost
  <2>2. r \in OfHost(cur)
    BY <1>2, <1>3, <1>4 DEF OfHost
  <2>3. \A i \in 1 .. n + 1 : i \in 1 .. n \/ i = n + 1
    OBVIOUS
  <2>4. \A i \in 1 .. Len(b) : b[i].ref \in OfHost(cur)
    <3>1. \A i \in 1 .. n : q[i].ref \in OfHost(cur)
      BY <1>5, <1>17, <1>18 DEF LocalInv
    <3>2. b[n + 1].ref \in OfHost(cur)
      BY <1>7, <1>19, <2>2
    <3> QED
      BY <1>19, <2>3, <3>1, <3>2
  <2>5. \A g \in Gens : \A i \in 1 .. Len(Outgoing(fwd'[g])) : Outgoing(fwd'[g])[i].ref \in OfHost(g)
    BY <1>5, <1>13, <1>19, <2>4 DEF LocalInv
  <2> QED
    BY <1>5, <2>1, <2>5 DEF LocalInv
<1>21. FocusInv'
  <2>1. NoRef \notin forgotten
    BY DashboardAssumption DEF DashTypeOK, TypeOK
  <2> QED
    BY <2>1 DEF FocusInv
<1>22. \A g \in Gens : \A k \in Hosts : Current(k)' = Current(k)
  BY DEF Current
<1>23. ASSUME Live(cur)'
       PROVE  StreamInOrder(cur, Outgoing(fwd[cur]))'
  <2>1. Live(cur)
    BY <1>11, <1>13, <1>23 DEF Live
  <2>2. StreamInOrder(cur, q)
    BY <1>5, <1>17, <2>1 DEF QueueInv
  <2>3. PICK set : set = driven[cur] \cup Dead
    OBVIOUS
  <2>4. \A x \in Refs : Holds(cur, x) <=> x = focus /\ cur = Current(HostOf[x])
    BY DEF Holds
  <2>5. \A x \in Refs : Holds(cur, x)' <=> x = focus' /\ cur = Current(HostOf[x])
    BY <1>22, DashboardAssumption DEF Holds
  <2>6. focus = r => Announced(set, q, r, n)
    BY <1>2, <1>4, <1>18, <2>2, <2>3, <2>4 DEF StreamInOrder
  <2>7. ASSUME NEW i \in 1 .. n + 1, b[i].kind = "keys"
        PROVE  Announced(set, b, b[i].ref, i - 1)
    <3>1. CASE i \in 1 .. n
      <4>1. Announced(set, q, q[i].ref, i - 1)
        BY <1>18, <1>19, <2>2, <2>3, <2>7, <3>1 DEF StreamInOrder
      <4>2. i - 1 \in 0 .. n
        BY <3>1
      <4> QED
        BY <1>19, <3>1, <4>1, <4>2, AnnouncedAppend
    <3>2. CASE i = n + 1
      <4>1. b[i].ref = r /\ kind = "keys"
        <5>1. b[i] = e
          BY <1>19, <3>2
        <5> QED
          BY <1>7, <2>7, <5>1
      <4>2. Announced(set, q, r, n)
        BY <2>6, <4>1
      <4>3. n \in 0 .. n /\ i - 1 = n
        BY <3>2
      <4>4. Announced(set, b, r, n)
        BY <1>19, <4>2, <4>3, AnnouncedAppend
      <4> QED
        BY <4>1, <4>3, <4>4
    <3> QED
      BY <3>1, <3>2
  <2>8. ASSUME NEW x \in Refs, Holds(cur, x)'
        PROVE  Announced(set, b, x, n + 1)
    <3>1. x = r /\ kind \in {"resize", "keys"}
      BY <2>5, <2>8, DashboardAssumption
    <3>2. CASE kind = "resize"
      <4>1. e = Request("resize", r)
        BY <1>6, <3>2
      <4>2. Announced(set, b, r, n + 1)
        BY <1>19, <4>1, AnnouncedAppend
      <4> QED
        BY <3>1, <4>2
    <3>3. CASE kind = "keys"
      <4>1. e # Request("restore", r)
        BY <1>6, <3>3, RequestType
      <4>2. Announced(set, q, r, n)
        BY <2>6, <3>3
      <4>3. Announced(set, b, r, n + 1)
        BY <1>19, <4>1, <4>2, AnnouncedAppend
      <4> QED
        BY <3>1, <4>3
    <3> QED
      BY <3>1, <3>2, <3>3
  <2>9. ASSUME NEW x \in alive \ forgotten', ~Holds(cur, x)', x \in Refs
        PROVE  Released(driven[cur], b, x, n + 1)
    <3>1. CASE x = r
      <4>1. kind = "restore"
        BY <1>2, <1>4, <2>5, <2>9, <3>1
      <4>2. e = Request("restore", r)
        BY <1>6, <4>1
      <4>3. Released(driven[cur], b, r, n + 1)
        BY <1>19, <4>2, ReleasedAppend
      <4> QED
        BY <3>1, <4>3
    <3>2. CASE x # r
      <4>1. x \notin forgotten /\ ~Holds(cur, x)
        BY <2>4, <2>9, <3>2, DashboardAssumption
      <4>2. Released(driven[cur], q, x, n)
        BY <1>18, <2>2, <2>9, <4>1 DEF StreamInOrder
      <4>3. e # Request("resize", x)
        BY <1>6, <2>9, <3>2, RequestType
      <4> QED
        BY <1>19, <4>2, <4>3, ReleasedAppend
    <3> QED
      BY <3>1, <3>2
  <2>10. alive' \subseteq Refs
    BY DEF DashTypeOK, TypeOK
  <2>11. driven' = driven /\ Dead' = Dead /\ alive' = alive
    BY DEF Dead
  <2> QED
    BY <1>13, <1>19, <2>3, <2>7, <2>8, <2>9, <2>10, <2>11 DEF StreamInOrder
<1>24. ASSUME NEW g \in Gens, g # cur, Live(g)'
       PROVE  StreamInOrder(g, Outgoing(fwd[g]))'
  <2>1. Live(g) /\ fwd'[g] = fwd[g]
    BY <1>13, <1>24 DEF Live
  <2>2. PICK p : p = Outgoing(fwd[g])
    OBVIOUS
  <2>3. StreamInOrder(g, p)
    BY <1>5, <2>1, <2>2 DEF QueueInv
  <2>4. inputs[g[1]] = g[2] /\ g[1] \in Hosts /\ g = <<g[1], g[2]>> /\ g[1] # h
    <3>1. inputs[g[1]] = g[2] /\ g[1] \in Hosts /\ g = <<g[1], g[2]>>
      BY <1>5, <2>1, GenParts DEF GensInv, Live, Working
    <3> QED
      BY <1>4, <1>24, <3>1 DEF Current
  <2>5. ASSUME NEW x \in Refs
        PROVE  (Holds(g, x)' <=> Holds(g, x)) /\ (Holds(g, x) => x # r)
    <3>1. Current(HostOf[x])' = Current(HostOf[x])
      BY <1>22, DashboardAssumption
    <3>2. g = Current(HostOf[x]) => x # r
      BY <1>2, <1>4, <1>24
    <3> QED
      BY <3>1, <3>2, DashboardAssumption DEF Holds
  <2>6. ASSUME NEW x \in alive \ forgotten', ~Holds(g, x)
        PROVE  Released(driven[g], p, x, Len(p))
    <3>1. CASE x # r
      BY <2>3, <2>6, <3>1 DEF StreamInOrder
    <3>2. CASE x = r
      BY <1>2, <1>5, <2>2, <2>4, <3>2, ForeignReleased DEF OfHost
    <3> QED
      BY <3>1, <3>2
  <2>7. alive \subseteq Refs
    BY DEF DashTypeOK, TypeOK
  <2> QED
    BY <2>1, <2>2, <2>3, <2>5, <2>6, <2>7 DEF StreamInOrder, Dead
<1>25. QueueInv'
  BY <1>5, <1>23, <1>24 DEF QueueInv, NoStrayKeys
<1> QED
  BY <1>14, <1>16, <1>20, <1>21, <1>25 DEF InputInv

\* A new generation, with the resize of the pane given focus.
LEMMA InputOpened ==
  ASSUME DashTypeOK, InputInv, NEW r \in Refs, r \notin unborn, focus = NoRef, Focusable(r),
         FocusNewInput(r), UNCHANGED <<alive, unborn, strayKey, views>>,
         forgotten' = forgotten \ {r}
  PROVE  InputInv'
<1>1. PICK h \in Hosts : h = HostOf[r]
  BY DashboardAssumption
<1>2. PICK e \in Requests : e = Request("resize", r) /\ e.ref = r /\ e.kind = "resize"
  BY RequestType
<1>3. PICK k \in 1 .. MaxGens :
        /\ fwd[<<h, k>>].phase = "none"
        /\ inputs' = [inputs EXCEPT ![h] = k]
        /\ fwd' = [fwd EXCEPT ![<<h, k>>].phase = "opening", ![<<h, k>>].queue = <<e>>]
  BY <1>1, <1>2 DEF FocusNewInput
<1>4. PICK new \in Gens : new = <<h, k>> /\ new[1] = h /\ new[2] = k
  BY GenParts
<1>5. inputs[h] = 0 /\ focus' = r /\ UNCHANGED <<cancelled, driven>>
  BY <1>1 DEF FocusNewInput
<1>6. InputTypeOK /\ GensInv /\ LocalInv /\ FocusInv /\ QueueInv
  BY DEF InputInv
<1>7. new \notin cancelled /\ driven[new] = {} /\ fwd[new] \in Forwards /\ fwd[new].phase = "none"
  BY <1>3, <1>4, <1>6 DEF GensInv, InputTypeOK
<1>8. PICK b \in Seq(Requests) : b = <<e>> /\ Len(b) = 1 /\ b[1] = e
  <2>1. <<e>> \in Seq(Requests)
    OBVIOUS
  <2>2. Len(<<e>>) = 1 /\ <<e>>[1] = e
    OBVIOUS
  <2> QED
    BY <2>1, <2>2
<1>9. PICK after : after = [fwd[new] EXCEPT !.phase = "opening", !.queue = b]
  OBVIOUS
<1>10. after \in Forwards /\ after.phase = "opening" /\ after.queue = b
  BY <1>7, <1>9 DEF Forwards
<1>11. fwd' = [fwd EXCEPT ![new] = after]
  BY <1>3, <1>4, <1>6, <1>8, <1>9 DEF InputTypeOK
<1>12. fwd' \in [Gens -> Forwards] /\ fwd'[new] = after /\ \A g \in Gens : g # new => fwd'[g] = fwd[g]
  BY <1>6, <1>10, <1>11 DEF InputTypeOK
<1>13. inputs' \in [Hosts -> 0 .. MaxGens] /\ inputs'[h] = k /\ k # 0
       /\ \A j \in Hosts : j # h => inputs'[j] = inputs[j]
  <2>1. k \in 0 .. MaxGens /\ k # 0
    OBVIOUS
  <2> QED
    BY <1>3, <1>6, <2>1 DEF InputTypeOK
<1>14. InputTypeOK'
  <2>1. 1 <= ForwardBuffer
    BY DashboardAssumption
  <2>2. \A g \in Gens : Len(fwd'[g].queue) <= ForwardBuffer
    BY <1>6, <1>8, <1>10, <1>12, <2>1 DEF InputTypeOK
  <2>3. \A g \in Gens : fwd'[g].phase = "sending" => fwd'[g].request \in Requests
    BY <1>6, <1>10, <1>12 DEF InputTypeOK
  <2> QED
    BY <1>5, <1>6, <1>12, <1>13, <2>2, <2>3 DEF InputTypeOK
<1>15. Current(h)' = new /\ \A j \in Hosts : j # h => Current(j)' = Current(j)
  BY <1>4, <1>13 DEF Current
<1>16. GensInv'
  <2>1. ASSUME NEW j \in Hosts, inputs'[j] # 0
        PROVE  Current(j)' \notin cancelled' /\ fwd'[Current(j)'].phase \in Working
    <3>1. CASE j = h
      BY <1>5, <1>7, <1>10, <1>12, <1>15, <3>1 DEF Working
    <3>2. CASE j # h
      <4>1. inputs[j] # 0 /\ Current(j)' = Current(j)
        BY <1>13, <1>15, <2>1, <3>2
      <4>2. Current(j) \in Gens /\ Current(j)[1] = j
        BY <1>6, <4>1, CurrentGen DEF InputTypeOK
      <4>3. Current(j) # new
        BY <1>4, <3>2, <4>2
      <4> QED
        BY <1>5, <1>6, <1>12, <4>1, <4>2, <4>3 DEF GensInv
    <3> QED
      BY <3>1, <3>2
  <2>2. ASSUME NEW g \in Gens, fwd'[g].phase \in Working, g \notin cancelled'
        PROVE  inputs'[g[1]] = g[2]
    <3>1. CASE g = new
      BY <1>4, <1>13, <3>1
    <3>2. CASE g # new
      <4>1. inputs[g[1]] = g[2] /\ g[1] \in Hosts /\ g[2] \in 1 .. MaxGens
        BY <1>5, <1>6, <1>12, <2>2, <3>2, GenParts DEF GensInv
      <4>2. g[1] # h
        BY <1>5, <4>1
      <4> QED
        BY <1>13, <4>1, <4>2
    <3> QED
      BY <3>1, <3>2
  <2>3. \A g \in Gens : fwd'[g].phase = "none" => fwd'[g] = fwd[g]
    BY <1>10, <1>12
  <2> QED
    BY <1>5, <1>6, <2>1, <2>2, <2>3 DEF GensInv
<1>17. Outgoing(after) = b
  BY <1>10 DEF Outgoing
<1>18. LocalInv'
  <2>1. \A g \in Gens : OfHost(g)' = OfHost(g)
    BY DEF OfHost
  <2>2. r \in OfHost(new)
    BY <1>1, <1>4 DEF OfHost
  <2>3. \A g \in Gens : \A i \in 1 .. Len(Outgoing(fwd'[g])) : Outgoing(fwd'[g])[i].ref \in OfHost(g)
    <3>1. \A i \in 1 .. Len(b) : b[i].ref \in OfHost(new)
      BY <1>2, <1>8, <2>2
    <3> QED
      BY <1>6, <1>12, <1>17, <3>1 DEF LocalInv
  <2> QED
    BY <1>5, <1>6, <2>1, <2>3 DEF LocalInv
<1>19. FocusInv'
  <2>1. inputs'[HostOf[r]] # 0 /\ Current(HostOf[r])' \notin cancelled'
    BY <1>1, <1>5, <1>7, <1>13, <1>15
  <2> QED
    BY <1>5, <2>1 DEF FocusInv, FocusIsLive, Focusable
<1>20. StreamInOrder(new, Outgoing(fwd[new]))'
  <2>1. PICK set : set = driven[new] \cup Dead
    OBVIOUS
  <2>2. driven' = driven /\ Dead' = Dead /\ alive' = alive /\ alive \subseteq Refs
    BY <1>5 DEF Dead, DashTypeOK, TypeOK
  <2>3. \A i \in 1 .. Len(b) : b[i].kind # "keys"
    BY <1>2, <1>8
  <2>4. \A x \in Refs : Holds(new, x)' <=> x = r
    BY <1>1, <1>5, <1>15 DEF Holds
  <2>5. Announced(set, b, r, 1)
    <3>1. 1 \in 1 .. 1 /\ \A l \in 1 .. 1 : ~(l > 1)
      OBVIOUS
    <3> QED
      BY <1>2, <1>8, <3>1 DEF Announced
  <2>6. ASSUME NEW x \in Refs, x # r
        PROVE  Released(driven[new], b, x, 1)
    <3>1. e # Request("resize", x)
      BY <1>2, <2>6, RequestType
    <3>2. \A l \in 1 .. 1 : b[l] # Request("resize", x)
      BY <1>8, <3>1
    <3> QED
      BY <1>7, <3>2 DEF Released
  <2> QED
    BY <1>8, <1>12, <1>17, <2>1, <2>2, <2>3, <2>4, <2>5, <2>6 DEF StreamInOrder
<1>21. ASSUME NEW g \in Gens, g # new, Live(g)'
       PROVE  StreamInOrder(g, Outgoing(fwd[g]))'
  <2>1. Live(g) /\ fwd'[g] = fwd[g]
    BY <1>5, <1>12, <1>21 DEF Live
  <2>2. PICK p : p = Outgoing(fwd[g])
    OBVIOUS
  <2>3. StreamInOrder(g, p)
    BY <1>6, <2>1, <2>2 DEF QueueInv
  <2>4. g[1] \in Hosts /\ g[1] # h
    <3>1. inputs[g[1]] = g[2] /\ g[1] \in Hosts /\ g[2] # 0
      BY <1>6, <2>1, GenParts DEF GensInv, Live, Working
    <3> QED
      BY <1>5, <3>1
  <2>5. \A x \in Refs : ~Holds(g, x) /\ ~Holds(g, x)'
    BY <1>1, <1>5, <1>15, <1>21, DashboardAssumption DEF Holds
  <2>6. ASSUME NEW x \in alive \ forgotten'
        PROVE  Released(driven[g], p, x, Len(p))
    <3>1. CASE x # r
      BY <2>3, <2>5, <2>6, <3>1 DEF StreamInOrder, DashTypeOK, TypeOK
    <3>2. CASE x = r
      BY <1>1, <1>6, <2>2, <2>4, <3>2, ForeignReleased DEF OfHost
    <3> QED
      BY <3>1, <3>2
  <2>7. alive \subseteq Refs
    BY DEF DashTypeOK, TypeOK
  <2> QED
    BY <1>5, <2>1, <2>2, <2>3, <2>5, <2>6, <2>7 DEF StreamInOrder, Dead
<1>22. QueueInv'
  BY <1>6, <1>20, <1>21 DEF QueueInv, NoStrayKeys
<1> QED
  BY <1>14, <1>16, <1>18, <1>19, <1>22 DEF InputInv

\* A forwarding command moves on: its phase, its queue and what it drives.
LEMMA InputForwards ==
  ASSUME DashTypeOK, InputInv, NEW g \in Gens, fwd[g].phase # "none",
         NEW after \in Forwards, fwd' = [fwd EXCEPT ![g] = after], after.phase # "none",
         Len(after.queue) <= ForwardBuffer, after.phase = "sending" => after.request \in Requests,
         UNCHANGED <<cancelled, inputs, focus, alive, unborn, forgotten, views>>,
         NEW set \in SUBSET Refs, set \subseteq OfHost(g), driven' = [driven EXCEPT ![g] = set],
         \A i \in 1 .. Len(Outgoing(after)) : Outgoing(after)[i].ref \in OfHost(g),
         \/ g \in cancelled
         \/ after.phase \in Working /\ fwd[g].phase \in Working,
         Live(g)' => StreamInOrder(g, Outgoing(fwd[g]))',
         NoStrayKeys'
  PROVE  InputInv'
<1>1. InputTypeOK /\ GensInv /\ LocalInv /\ FocusInv /\ QueueInv
  BY DEF InputInv
<1>2. fwd' \in [Gens -> Forwards] /\ fwd'[g] = after /\ \A x \in Gens : x # g => fwd'[x] = fwd[x]
  BY <1>1 DEF InputTypeOK
<1>3. driven' \in [Gens -> SUBSET Refs] /\ driven'[g] = set /\ \A x \in Gens : x # g => driven'[x] = driven[x]
  BY <1>1 DEF InputTypeOK
<1>4. InputTypeOK'
  <2>1. \A x \in Gens : Len(fwd'[x].queue) <= ForwardBuffer
    BY <1>1, <1>2 DEF InputTypeOK
  <2>2. \A x \in Gens : fwd'[x].phase = "sending" => fwd'[x].request \in Requests
    BY <1>1, <1>2 DEF InputTypeOK
  <2> QED
    BY <1>1, <1>2, <1>3, <2>1, <2>2 DEF InputTypeOK
<1>5. \A h \in Hosts : Current(h)' = Current(h)
  BY DEF Current
<1>6. GensInv'
  <2>1. ASSUME NEW x \in Gens, fwd'[x].phase = "none"
        PROVE  fwd'[x].queue = <<>> /\ driven'[x] = {} /\ x \notin cancelled'
    BY <1>1, <1>2, <1>3, <2>1 DEF GensInv
  <2>2. ASSUME NEW h \in Hosts, inputs'[h] # 0
        PROVE  Current(h)' \notin cancelled' /\ fwd'[Current(h)'].phase \in Working
    <3>1. Current(h)' = Current(h) /\ Current(h) \in Gens
      BY <1>1, <1>5, <2>2, CurrentGen DEF InputTypeOK
    <3>2. Current(h) \notin cancelled /\ fwd[Current(h)].phase \in Working
      BY <1>1, <2>2 DEF GensInv
    <3> QED
      BY <1>2, <3>1, <3>2
  <2>3. ASSUME NEW x \in Gens, fwd'[x].phase \in Working, x \notin cancelled'
        PROVE  inputs'[x[1]] = x[2]
    BY <1>1, <1>2, <2>3 DEF GensInv
  <2> QED
    BY <2>1, <2>2, <2>3 DEF GensInv
<1>7. LocalInv'
  <2>1. \A x \in Gens : OfHost(x)' = OfHost(x)
    BY DEF OfHost
  <2> QED
    BY <1>1, <1>2, <1>3, <2>1 DEF LocalInv
<1>8. FocusInv'
  <2>1. focus # NoRef => HostOf[focus] \in Hosts
    BY DashboardAssumption DEF DashTypeOK, TypeOK
  <2> QED
    BY <1>1, <1>5, <2>1 DEF FocusInv, FocusIsLive
<1>9. ASSUME NEW x \in Gens, x # g, Live(x)'
      PROVE  StreamInOrder(x, Outgoing(fwd[x]))'
  <2>1. Live(x) /\ fwd'[x] = fwd[x] /\ driven'[x] = driven[x]
    BY <1>2, <1>3, <1>9 DEF Live
  <2>2. StreamInOrder(x, Outgoing(fwd[x]))
    BY <1>1, <2>1 DEF QueueInv
  <2>3. \A r \in Refs : Holds(x, r)' <=> Holds(x, r)
    BY <1>5, DashboardAssumption DEF Holds
  <2>4. alive \subseteq Refs
    BY DEF DashTypeOK, TypeOK
  <2> QED
    BY <2>1, <2>2, <2>3, <2>4 DEF StreamInOrder, Dead
<1>10. QueueInv'
  BY <1>9 DEF QueueInv
<1> QED
  BY <1>4, <1>6, <1>7, <1>8, <1>10 DEF InputInv

\* What sending the first request of a stream leaves to be sent.
LEMMA RequestSent ==
  ASSUME DashTypeOK, InputInv, NEW g \in Gens, Live(g), fwd[g].phase = "sending",
         UNCHANGED <<focus, inputs, forgotten, alive, unborn>>,
         fwd'[g].queue = fwd[g].queue,
         driven' = [driven EXCEPT ![g] = Drives(g, fwd[g].request)]
  PROVE  /\ StreamInOrder(g, fwd[g].queue)'
         /\ Drives(g, fwd[g].request) \subseteq OfHost(g)
         /\ ~(fwd[g].request.kind = "keys" /\ fwd[g].request.ref \in alive \ driven[g])
<1>1. InputTypeOK /\ LocalInv /\ QueueInv
  BY DEF InputInv
<1>2. fwd[g].queue \in Seq(Requests) /\ fwd[g].request \in Requests
  BY <1>1, ForwardType DEF InputTypeOK
<1>3. PICK b \in Seq(Requests) : b = fwd[g].queue
  BY <1>2
<1>4. PICK q : q = Outgoing(fwd[g])
  OBVIOUS
<1>5. PICK e \in Requests : e = fwd[g].request
  BY <1>2
<1>6. PICK m \in Nat : m = Len(b)
  BY LenProperties
<1>7. q[1] = e /\ Len(q) = m + 1 /\ \A i \in 1 .. m : b[i] = q[i + 1]
  BY <1>2, <1>3, <1>4, <1>5, <1>6, OutgoingSent
<1>8. StreamInOrder(g, q)
  BY <1>1, <1>4 DEF QueueInv
<1>9. PICK after : after = Drives(g, e)
  OBVIOUS
<1>10. e.kind \in {"resize", "restore", "keys"} /\ e.ref \in Refs
  BY DEF Requests
<1>11. driven'[g] = after
  BY <1>1, <1>5, <1>9 DEF InputTypeOK
<1>12. /\ e.kind = "resize" => after = driven[g] \cup ({e.ref} \cap alive)
       /\ e.kind = "restore" => after = driven[g] \ {e.ref}
       /\ e.kind = "keys" => after = driven[g]
  BY <1>9 DEF Drives
<1>13. e.ref \in OfHost(g)
  <2>1. 1 \in 1 .. Len(q)
    BY <1>7
  <2> QED
    BY <1>1, <1>4, <1>7, <2>1 DEF LocalInv
<1>14. after \subseteq OfHost(g)
  BY <1>1, <1>10, <1>12, <1>13 DEF LocalInv
<1>15. ~(e.kind = "keys" /\ e.ref \in alive \ driven[g])
  <2> SUFFICES ASSUME e.kind = "keys" PROVE e.ref \notin alive \ driven[g]
    OBVIOUS
  <2>1. 1 \in 1 .. Len(q) /\ 1 - 1 = 0
    BY <1>7
  <2>2. Announced(driven[g] \cup Dead, q, e.ref, 0)
    BY <1>7, <1>8, <2>1 DEF StreamInOrder
  <2>3. e.ref \in driven[g] \cup Dead
    BY <2>2, NoRequest
  <2> QED
    BY <2>3 DEF Dead
<1>16. ASSUME NEW r \in Refs, e = Request("resize", r) => r \notin unborn
       PROVE  /\ r \in driven[g] \cup Dead /\ e # Request("restore", r) => r \in after \cup Dead
              /\ e = Request("resize", r) => r \in after \cup Dead
  <2>1. e = Request("resize", r) => e.kind = "resize" /\ e.ref = r
    BY RequestType
  <2>2. e.kind = "restore" /\ e.ref = r => e = Request("restore", r)
    BY DEF Requests, Request
  <2> QED
    BY <1>10, <1>12, <1>16, <2>1, <2>2 DEF Dead
<1>17. \A r \in Refs : e = Request("resize", r) => r \notin unborn
  BY <1>13, RequestType DEF OfHost
<1>18. \A n \in Nat, i \in Nat : n <= m /\ i \in 1 .. n => i \in 1 .. m
  OBVIOUS
<1>19. ASSUME NEW r \in Refs, NEW n \in 0 .. m, Announced(driven[g] \cup Dead, q, r, n + 1)
       PROVE  Announced(after \cup Dead, b, r, n)
  <2>1. n \in Nat /\ \A i \in 1 .. n : i \in 1 .. m
    OBVIOUS
  <2>2. \A i \in 1 .. n : b[i] = q[i + 1]
    BY <1>7, <2>1
  <2>3. PICK before : before = driven[g] \cup Dead
    OBVIOUS
  <2>4. PICK then : then = after \cup Dead
    OBVIOUS
  <2>5. r \in before /\ q[1] # Request("restore", r) => r \in then
    BY <1>7, <1>16, <1>17, <2>3, <2>4
  <2>6. q[1] = Request("resize", r) => r \in then
    BY <1>7, <1>16, <1>17, <2>4
  <2>7. Announced(before, q, r, n + 1)
    BY <1>19, <2>3
  <2>8. Announced(then, b, r, n)
    BY <2>1, <2>2, <2>5, <2>6, <2>7, AnnouncedSent
  <2> QED
    BY <2>4, <2>8
<1>20. ASSUME NEW r \in alive, r \in Refs, Released(driven[g], q, r, m + 1)
       PROVE  Released(after, b, r, m)
  <2>1. e = Request("restore", r) => e.kind = "restore" /\ e.ref = r
    BY <1>20, RequestType
  <2>2. e.kind = "resize" /\ e.ref = r => e = Request("resize", r)
    BY DEF Requests, Request
  <2>3. /\ r \notin driven[g] /\ q[1] # Request("resize", r) => r \notin after
        /\ q[1] = Request("restore", r) => r \notin after
    BY <1>7, <1>10, <1>12, <2>1, <2>2
  <2> QED
    BY <1>7, <1>20, <2>3, ReleasedSent
<1>21. \A r \in Refs : Holds(g, r)' <=> Holds(g, r)
  BY DEF Holds, Current
<1>22. ASSUME NEW i \in 1 .. m, b[i].kind = "keys"
       PROVE  Announced(after \cup Dead, b, b[i].ref, i - 1)
  <2>1. i + 1 \in 1 .. Len(q) /\ b[i] = q[i + 1] /\ (i + 1) - 1 = (i - 1) + 1 /\ i - 1 \in 0 .. m
    BY <1>7
  <2>2. b[i].ref \in Refs
    <3>1. b[i] \in Requests
      BY <1>6, ElementOfSeq
    <3> QED
      BY <3>1 DEF Requests
  <2>3. Announced(driven[g] \cup Dead, q, b[i].ref, (i + 1) - 1)
    BY <1>8, <1>22, <2>1 DEF StreamInOrder
  <2> QED
    BY <1>19, <2>1, <2>2, <2>3
<1>23. ASSUME NEW r \in Refs, Holds(g, r)
       PROVE  Announced(after \cup Dead, b, r, m)
  <2>1. Announced(driven[g] \cup Dead, q, r, Len(q))
    BY <1>8, <1>23 DEF StreamInOrder
  <2>2. Announced(driven[g] \cup Dead, q, r, m + 1)
    BY <1>7, <2>1
  <2>3. m \in 0 .. m
    OBVIOUS
  <2> QED
    BY <1>19, <2>2, <2>3
<1>24. ASSUME NEW r \in alive \ forgotten, ~Holds(g, r)
       PROVE  Released(after, b, r, m)
  <2>1. Released(driven[g], q, r, m + 1)
    BY <1>7, <1>8, <1>24 DEF StreamInOrder
  <2>2. r \in Refs
    BY DEF DashTypeOK, TypeOK
  <2> QED
    BY <1>20, <1>24, <2>1, <2>2
<1>25. StreamInOrder(g, b)'
  <2>1. Dead' = Dead /\ alive \subseteq Refs
    BY DEF Dead, DashTypeOK, TypeOK
  <2> QED
    BY <1>6, <1>11, <1>21, <1>22, <1>23, <1>24, <2>1 DEF StreamInOrder
<1>26. StreamInOrder(g, fwd[g].queue)'
  BY <1>3, <1>25 DEF StreamInOrder
<1> QED
  BY <1>5, <1>9, <1>14, <1>15, <1>26
\* It moves on without sending anything.
LEMMA InputMoves ==
  ASSUME DashTypeOK, InputInv, NEW g \in Gens, fwd[g].phase # "none",
         NEW after \in Forwards, fwd' = [fwd EXCEPT ![g] = after], after.phase # "none",
         Len(after.queue) <= ForwardBuffer, after.phase = "sending" => after.request \in Requests,
         UNCHANGED <<driven, cancelled, inputs, focus, alive, unborn, forgotten, views, strayKey>>,
         \A i \in 1 .. Len(Outgoing(after)) : Outgoing(after)[i].ref \in OfHost(g),
         \/ g \in cancelled
         \/ after.phase \in Working /\ fwd[g].phase \in Working,
         g \notin cancelled /\ after.phase # "failed" =>
           fwd[g].phase # "failed" /\ Outgoing(after) = Outgoing(fwd[g])
  PROVE  InputInv'
<1>1. InputTypeOK /\ LocalInv /\ QueueInv
  BY DEF InputInv
<1>2. fwd'[g] = after
  BY <1>1 DEF InputTypeOK
<1>3. PICK set \in SUBSET Refs : set = driven[g]
  BY <1>1 DEF InputTypeOK
<1>4. driven' = [driven EXCEPT ![g] = set]
  BY <1>1, <1>3 DEF InputTypeOK
<1>5. set \subseteq OfHost(g)
  BY <1>1, <1>3 DEF LocalInv
<1>6. ASSUME Live(g)'
      PROVE  StreamInOrder(g, Outgoing(fwd[g]))'
  <2>1. g \notin cancelled /\ after.phase # "failed"
    BY <1>2, <1>6 DEF Live
  <2>2. Live(g) /\ Outgoing(after) = Outgoing(fwd[g])
    BY <2>1 DEF Live, Working
  <2>3. PICK q : q = Outgoing(fwd[g])
    OBVIOUS
  <2>4. StreamInOrder(g, q)
    BY <1>1, <2>2, <2>3 DEF QueueInv
  <2>5. StreamInOrder(g, q)'
    BY <2>4 DEF StreamInOrder, Holds, Current, Dead
  <2>6. Outgoing(fwd'[g]) = q
    BY <1>2, <2>2, <2>3
  <2> QED
    BY <2>5, <2>6 DEF StreamInOrder
<1>7. NoStrayKeys'
  BY <1>1 DEF QueueInv, NoStrayKeys
<1> QED
  BY <1>3, <1>4, <1>5, <1>6, <1>7, InputForwards

\* The commands that forward input.
LEMMA InputForwarding ==
  ASSUME DashTypeOK, InputInv, NEW g \in Gens,
         ForwardOpens(g) \/ ForwardTakes(g) \/ ForwardSends(g) \/ ForwardSendFails(g)
  PROVE  InputInv'
<1>1. UNCHANGED <<cancelled, inputs, focus, alive, unborn, forgotten, views>>
  BY DEF ForwardOpens, ForwardTakes, ForwardSends, ForwardSendFails, serverVars, modelVars
<1>2. InputTypeOK /\ LocalInv /\ QueueInv
  BY DEF InputInv
<1>3. /\ fwd[g] \in Forwards /\ fwd[g].queue \in Seq(Requests) /\ Len(fwd[g].queue) \in Nat
      /\ Len(fwd[g].queue) <= ForwardBuffer
  BY <1>2, ForwardType DEF InputTypeOK
<1>4. ASSUME NEW phase \in {"opening", "idle", "sending", "failed", "ended"}, SetForward(g, phase)
      PROVE  \E after \in Forwards :
               /\ fwd' = [fwd EXCEPT ![g] = after] /\ fwd'[g] = after
               /\ after.phase = phase /\ after.queue = fwd[g].queue
  <2>1. PICK after : after = [fwd[g] EXCEPT !.phase = phase, !.request = NoInput.request]
    OBVIOUS
  <2>2. after \in Forwards /\ after.phase = phase /\ after.queue = fwd[g].queue
    BY <1>3, <2>1 DEF Forwards
  <2>3. fwd' = [fwd EXCEPT ![g] = after]
    BY <1>2, <1>4, <2>1 DEF SetForward, InputTypeOK
  <2> QED
    BY <1>2, <2>2, <2>3 DEF InputTypeOK
<1>5. ASSUME fwd[g].phase = "sending"
      PROVE  \A i \in 1 .. Len(fwd[g].queue) : fwd[g].queue[i].ref \in OfHost(g)
  <2>1. PICK n \in Nat : n = Len(fwd[g].queue)
    BY <1>3
  <2>2. fwd[g].request \in Requests
    BY <1>2, <1>5 DEF InputTypeOK
  <2>3. Len(Outgoing(fwd[g])) = n + 1 /\ \A i \in 1 .. n : fwd[g].queue[i] = Outgoing(fwd[g])[i + 1]
    BY <1>3, <1>5, <2>1, <2>2, OutgoingSent
  <2>4. \A i \in 1 .. n : i + 1 \in 1 .. n + 1
    OBVIOUS
  <2> QED
    BY <1>2, <2>1, <2>3, <2>4 DEF LocalInv
<1>6. ASSUME fwd[g].phase # "sending"
      PROVE  \A i \in 1 .. Len(fwd[g].queue) : fwd[g].queue[i].ref \in OfHost(g)
  BY <1>2, <1>6 DEF LocalInv, Outgoing
<1>7. CASE ForwardOpens(g)
  <2>1. PICK phase \in {"idle", "failed"} : SetForward(g, phase)
    BY <1>7 DEF ForwardOpens
  <2>2. PICK after \in Forwards : /\ fwd' = [fwd EXCEPT ![g] = after]
                                  /\ after.phase = phase /\ after.queue = fwd[g].queue
    BY <1>4, <2>1
  <2>3. fwd[g].phase = "opening" /\ UNCHANGED <<driven, strayKey>>
    BY <1>7 DEF ForwardOpens
  <2>4. Outgoing(after) = fwd[g].queue /\ Outgoing(fwd[g]) = fwd[g].queue
    BY <2>2, <2>3 DEF Outgoing
  <2>5. \A i \in 1 .. Len(Outgoing(after)) : Outgoing(after)[i].ref \in OfHost(g)
    BY <1>6, <2>3, <2>4
  <2>6. after.phase \in Working /\ fwd[g].phase \in Working /\ Len(after.queue) <= ForwardBuffer
    BY <1>3, <2>2, <2>3 DEF Working
  <2> QED
    BY <1>1, <2>2, <2>3, <2>4, <2>5, <2>6, InputMoves
<1>8. CASE ForwardTakes(g) /\ g \in cancelled
  <2>1. PICK after : after = [NoInput EXCEPT !.phase = "ended"]
    OBVIOUS
  <2>2. after.phase = "ended" /\ after.queue = <<>> /\ Len(after.queue) = 0 /\ after \in Forwards
    <3>1. <<>> \in Seq(Requests) /\ Len(<<>>) = 0
      BY EmptySeq
    <3> QED
      BY <2>1, <3>1 DEF NoInput, Forwards
  <2>3. Outgoing(after) = <<>>
    BY <2>2 DEF Outgoing
  <2>4. fwd' = [fwd EXCEPT ![g] = after] /\ fwd[g].phase # "none" /\ UNCHANGED <<driven, strayKey>>
    BY <1>8, <2>1 DEF ForwardTakes, ForwardReturns
  <2>5. \A i \in 1 .. Len(Outgoing(after)) : Outgoing(after)[i].ref \in OfHost(g)
    BY <2>2, <2>3
  <2>6. Len(after.queue) <= ForwardBuffer
    BY <2>2, DashboardAssumption
  <2> QED
    BY <1>1, <1>8, <2>2, <2>4, <2>5, <2>6, InputMoves
<1>9. CASE ForwardTakes(g) /\ g \notin cancelled
  <2>1. PICK f : f = fwd[g]
    OBVIOUS
  <2>2. f.phase = "idle" /\ f.queue # <<>> /\ UNCHANGED <<driven, strayKey>>
    BY <1>9, <2>1 DEF ForwardTakes
  <2>3. PICK after : after = [phase |-> "sending", request |-> Head(f.queue), queue |-> Tail(f.queue)]
    OBVIOUS
  <2>4. fwd' = [fwd EXCEPT ![g] = after]
    BY <1>9, <2>1, <2>3 DEF ForwardTakes
  <2>5. /\ Head(f.queue) \in Requests /\ Tail(f.queue) \in Seq(Requests)
        /\ Len(Tail(f.queue)) = Len(f.queue) - 1
    BY <1>3, <2>1, <2>2, HeadTailProperties
  <2>6. after \in Forwards /\ after.phase = "sending" /\ after.request \in Requests
    BY <2>3, <2>5 DEF Forwards
  <2>7. Len(after.queue) <= ForwardBuffer
    <3>1. after.queue = Tail(f.queue)
      BY <2>3
    <3>2. ForwardBuffer \in Nat
      BY DashboardAssumption
    <3> QED
      BY <1>3, <2>1, <2>5, <3>1, <3>2
  <2>8. Outgoing(after) = Outgoing(f)
    BY <1>3, <2>1, <2>2, <2>3, OutgoingTaken
  <2>9. \A i \in 1 .. Len(Outgoing(after)) : Outgoing(after)[i].ref \in OfHost(g)
    BY <1>2, <2>1, <2>8 DEF LocalInv
  <2>10. after.phase \in Working /\ fwd[g].phase \in Working /\ fwd[g].phase = "idle"
    BY <2>1, <2>2, <2>6 DEF Working
  <2> QED
    BY <1>1, <2>1, <2>2, <2>4, <2>6, <2>7, <2>8, <2>9, <2>10, InputMoves
<1>10. CASE ForwardSendFails(g)
  <2>1. SetForward(g, "failed") /\ fwd[g].phase = "sending" /\ UNCHANGED <<driven, strayKey>>
    BY <1>10 DEF ForwardSendFails
  <2>2. PICK after \in Forwards : /\ fwd' = [fwd EXCEPT ![g] = after]
                                  /\ after.phase = "failed" /\ after.queue = fwd[g].queue
    BY <1>4, <2>1
  <2>3. Outgoing(after) = fwd[g].queue
    BY <2>2 DEF Outgoing
  <2>4. \A i \in 1 .. Len(Outgoing(after)) : Outgoing(after)[i].ref \in OfHost(g)
    BY <1>5, <2>1, <2>3
  <2>5. after.phase \in Working /\ fwd[g].phase \in Working /\ Len(after.queue) <= ForwardBuffer
    BY <1>3, <2>1, <2>2 DEF Working
  <2> QED
    BY <1>1, <2>1, <2>2, <2>4, <2>5, InputMoves
<1>11. CASE ForwardSends(g)
  <2>1. SetForward(g, "idle") /\ fwd[g].phase = "sending" /\ g \notin cancelled
    BY <1>11 DEF ForwardSends
  <2>2. PICK after \in Forwards : /\ fwd' = [fwd EXCEPT ![g] = after] /\ fwd'[g] = after
                                  /\ after.phase = "idle" /\ after.queue = fwd[g].queue
    BY <1>4, <2>1
  <2>3. PICK set : set = Drives(g, fwd[g].request)
    OBVIOUS
  <2>4. driven' = [driven EXCEPT ![g] = set]
    BY <1>11, <2>3 DEF ForwardSends
  <2>5. Live(g)
    BY <2>1 DEF Live
  <2>6. /\ StreamInOrder(g, fwd[g].queue)'
        /\ set \subseteq OfHost(g)
        /\ ~(fwd[g].request.kind = "keys" /\ fwd[g].request.ref \in alive \ driven[g])
    BY <1>1, <2>1, <2>2, <2>3, <2>4, <2>5, RequestSent
  <2>7. set \in SUBSET Refs
    BY <2>6 DEF OfHost
  <2>8. NoStrayKeys'
    BY <1>2, <1>11, <2>6 DEF ForwardSends, QueueInv, NoStrayKeys
  <2>9. Outgoing(after) = fwd[g].queue
    BY <2>2 DEF Outgoing
  <2>10. \A i \in 1 .. Len(Outgoing(after)) : Outgoing(after)[i].ref \in OfHost(g)
    BY <1>5, <2>1, <2>9
  <2>11. after.phase \in Working /\ fwd[g].phase \in Working /\ Len(after.queue) <= ForwardBuffer
    BY <1>3, <2>1, <2>2 DEF Working
  <2>12. StreamInOrder(g, Outgoing(fwd[g]))'
    <3>1. Outgoing(fwd'[g]) = fwd'[g].queue
      BY <2>2, <2>9
    <3> QED
      BY <2>6, <3>1 DEF StreamInOrder
  <2> QED
    BY <1>1, <2>1, <2>2, <2>4, <2>6, <2>7, <2>8, <2>10, <2>11, <2>12, InputForwards
<1> QED
  BY <1>7, <1>8, <1>9, <1>10, <1>11

\* The focused pane is one that has been, and its Host has an input generation.
LEMMA FocusParts ==
  ASSUME DashTypeOK, HerdsInOrder, InputInv, focus # NoRef
  PROVE  /\ focus \in Refs /\ focus \in panes /\ focus \notin unborn /\ focus \notin forgotten
         /\ HostOf[focus] \in Hosts /\ inputs[HostOf[focus]] # 0
         /\ Current(HostOf[focus]) \notin cancelled
         /\ ~views[focus].err /\ ~views[focus].exited /\ views[focus].taken > 0
<1>1. focus \in Refs /\ focus \in panes
  BY DEF DashTypeOK, TypeOK
<1> QED
  BY <1>1, DashboardAssumption DEF HerdsInOrder, InputInv, FocusInv, FocusIsLive

\* Something is sent for the focused pane, or its generation is retired.
LEMMA InputSends ==
  ASSUME DashTypeOK, HerdsInOrder, InputInv, focus # NoRef,
         NEW kind \in {"resize", "restore", "keys"}, NEW newFocus, Send(kind, newFocus),
         newFocus = IF kind = "restore" THEN NoRef ELSE focus,
         UNCHANGED <<strayKey, forgotten, alive, unborn>>,
         kind # "restore" => UNCHANGED views
  PROVE  InputInv'
<1>1. PICK r \in Refs : r = focus
  BY FocusParts
<1>2. PICK h \in Hosts : h = HostOf[r]
  BY DashboardAssumption
<1>3. /\ r \in panes /\ r \notin unborn /\ r \notin forgotten /\ r # NoRef
      /\ inputs[h] # 0 /\ Current(h) \notin cancelled
      /\ ~views[r].err /\ ~views[r].exited /\ views[r].taken > 0
  BY <1>1, <1>2, FocusParts
<1>4. CASE Stalled(h)
  <2>1. dropInput(h) /\ UNCHANGED fwd
    BY <1>1, <1>2, <1>3, <1>4 DEF Send
  <2>2. focus' = NoRef
    BY <1>1, <1>2, <1>3, <2>1 DEF dropInput
  <2>3. fwd' \in [Gens -> Forwards]
    BY <2>1 DEF InputInv, InputTypeOK
  <2> QED
    BY <1>3, <2>1, <2>2, <2>3, InputDropped
<1>5. CASE ~Stalled(h)
  <2>1. /\ Queue(Current(h), Request(kind, r)) /\ focus' = newFocus
        /\ UNCHANGED <<cancelled, inputs, driven>>
    BY <1>1, <1>2, <1>3, <1>5 DEF Send
  <2>2. FocusIsLive'
    BY <1>1, <1>2, <1>3, <2>1 DEF FocusIsLive, Current
  <2>3. forgotten' = forgotten \ {r}
    BY <1>3
  <2>4. \/ kind = "resize" /\ focus \in {r, NoRef} /\ focus' = r
        \/ kind = "keys" /\ focus = r /\ focus' = r
        \/ kind = "restore" /\ focus = r /\ focus' = NoRef
    BY <1>1, <2>1
  <2> QED
    BY <1>2, <1>3, <1>5, <2>1, <2>2, <2>3, <2>4, InputQueued
<1> QED
  BY <1>4, <1>5

\* The views change, the focused one not to its loss.
LEMMA InputViews ==
  ASSUME InputInv,
         focus # NoRef => ~views'[focus].err /\ ~views'[focus].exited /\ views'[focus].taken > 0,
         UNCHANGED <<fwd, driven, cancelled, inputs, focus, strayKey, forgotten, alive, unborn>>
  PROVE  InputInv'
<1>1. FocusIsLive'
  BY DEF InputInv, FocusInv, FocusIsLive, Current
<1> QED
  BY <1>1, InputKept

\* Focus is given to a pane.
LEMMA InputFocuses ==
  ASSUME DashTypeOK, HerdsInOrder, InputInv, NEW r \in Refs, FocusSelected(r)
  PROVE  InputInv'
<1>1. /\ focus = NoRef /\ r \in panes /\ Focusable(r) /\ forgotten' = forgotten \ {r}
      /\ UNCHANGED <<alive, unborn, strayKey, views>>
  BY DEF FocusSelected, KeepViews, serverVars
<1>2. r \notin unborn
  BY <1>1 DEF HerdsInOrder
<1>3. CASE FocusNewInput(r)
  BY <1>1, <1>2, <1>3, InputOpened
<1>4. CASE FocusReusesInput(r)
  <2>1. PICK h \in Hosts : h = HostOf[r]
    BY DashboardAssumption
  <2>2. inputs[h] # 0
    BY <1>4, <2>1 DEF FocusReusesInput
  <2>3. CASE Stalled(h)
    <3>1. dropInput(h) /\ UNCHANGED fwd
      BY <1>4, <2>1, <2>3 DEF FocusReusesInput
    <3>2. forgotten' \subseteq forgotten /\ \A s \in forgotten : s \in forgotten' \/ HostOf[s] = h
      BY <1>1, <2>1
    <3>3. fwd' \in [Gens -> Forwards]
      BY <3>1 DEF InputInv, InputTypeOK
    <3> QED
      BY <1>1, <2>2, <3>1, <3>2, <3>3, InputDropped
  <2>4. CASE ~Stalled(h)
    <3>1. /\ Queue(Current(h), Request("resize", r)) /\ focus' = r
          /\ UNCHANGED <<cancelled, inputs, driven>>
      BY <1>4, <2>1, <2>4 DEF FocusReusesInput
    <3>2. Current(h) \notin cancelled
      BY <2>2 DEF InputInv, GensInv
    <3>3. FocusIsLive'
      BY <1>1, <2>1, <2>2, <3>1, <3>2 DEF FocusIsLive, Focusable, Current
    <3> QED
      BY <1>1, <1>2, <2>1, <2>2, <2>4, <3>1, <3>3, InputQueued
  <2> QED
    BY <2>3, <2>4
<1> QED
  BY <1>3, <1>4 DEF FocusSelected

\* A herd takes focus away only from a pane that left it.
LEMMA InputHerd ==
  ASSUME DashTypeOK, HerdsInOrder, InputInv, NEW answer \in listed, ApplyHerd(answer)
  PROVE  InputInv'
<1>1. UNCHANGED <<fwd, driven, cancelled, inputs, strayKey, alive, unborn>>
  BY DEF ApplyHerd, serverVars, inputVars
<1>2. CASE focus # NoRef /\ focus \notin answer.herd
  <2>1. focus' = NoRef /\ focus \in panes /\ focus \in Refs
    BY <1>2, FocusParts DEF ApplyHerd
  <2>2. forgotten' = IF answer.at < applied THEN forgotten \cup {focus} ELSE forgotten
    BY <1>2 DEF ApplyHerd
  <2>3. forgotten \subseteq Refs /\ applied \in Nat /\ answer.at \in Nat
    BY DEF DashTypeOK, TypeOK
  <2>4. CASE answer.at < applied
    <3>1. forgotten' = forgotten \cup {focus}
      BY <2>2, <2>4
    <3> QED
      BY <1>1, <2>1, <2>3, <3>1, InputLoses
  <2>5. CASE ~(answer.at < applied)
    <3>1. forgotten' = forgotten
      BY <2>2, <2>5
    <3>2. answer.at >= applied
      BY <2>3, <2>5
    <3>3. focus \notin alive
      BY <1>2, <2>1, <3>2 DEF HerdsInOrder
    <3> QED
      BY <1>1, <2>1, <2>3, <3>1, <3>3, InputLoses
  <2> QED
    BY <2>4, <2>5
<1>3. CASE ~(focus # NoRef /\ focus \notin answer.herd)
  <2>1. focus' = focus /\ forgotten' = forgotten
    BY <1>3 DEF ApplyHerd
  <2>2. ASSUME focus # NoRef
        PROVE  views'[focus] = views[focus]
    <3>1. focus \in answer.herd /\ focus \in Refs /\ ~views[focus].err /\ focus \in panes
      BY <1>3, <2>2, FocusParts
    <3>2. views[focus] # NoView
      BY <3>1 DEF DashTypeOK, TypeOK
    <3> QED
      BY <3>1, <3>2 DEF ApplyHerd
  <2>3. focus # NoRef => ~views'[focus].err /\ ~views'[focus].exited /\ views'[focus].taken > 0
    BY <2>2, FocusParts
  <2> QED
    BY <1>1, <2>1, <2>3, InputViews
<1> QED
  BY <1>2, <1>3

\* What a watch delivers, and how it ends.
LEMMA InputWatches ==
  ASSUME DashTypeOK, HerdsInOrder, InputInv, NEW w \in Watches,
         WatchStarted(w) \/ PaneUpdate(w) \/ PaneExited(w) \/ WatchFailed(w)
  PROVE  InputInv'
<1>1. w[1] \in Refs
  BY WatchParts
<1>2. views \in [Refs -> {NoView} \cup Views]
  BY DEF DashTypeOK
<1>3. ASSUME focus # NoRef
      PROVE  /\ focus \in Refs /\ views[focus] \in Views
             /\ ~views[focus].err /\ ~views[focus].exited /\ views[focus].taken > 0
  <2>1. focus \in Refs /\ focus \in panes
    BY <1>3, FocusParts
  <2>2. views[focus] # NoView
    BY <2>1 DEF DashTypeOK, TypeOK
  <2> QED
    BY <1>2, <1>3, <2>1, <2>2, FocusParts
<1>4. CASE WatchStarted(w)
  <2>1. UNCHANGED <<fwd, driven, cancelled, inputs, focus, strayKey, forgotten, alive, unborn>>
    BY <1>4 DEF WatchStarted, serverVars, inputVars
  <2>2. views' = views \/ views' = [views EXCEPT ![w[1]].stream = w[2]]
    BY <1>4 DEF WatchStarted
  <2>3. focus # NoRef => ~views'[focus].err /\ ~views'[focus].exited /\ views'[focus].taken > 0
    BY <1>1, <1>2, <1>3, <2>2 DEF Views
  <2> QED
    BY <2>1, <2>3, InputViews
<1>5. CASE PaneUpdate(w)
  <2>1. UNCHANGED <<fwd, driven, cancelled, inputs, focus, strayKey, forgotten, alive, unborn>>
    BY <1>5 DEF PaneUpdate, serverVars, inputVars
  <2>2. PICK n : n = streams[w].delivered + 1
    OBVIOUS
  <2>3. n \in Nat /\ n > 0
    <3>1. streams[w] \in Loops
      BY DEF DashTypeOK
    <3>2. streams[w].delivered \in Nat
      BY <3>1 DEF Loops
    <3> QED
      BY <2>2, <3>2
  <2>4. views' = views \/ views' = [views EXCEPT ![w[1]] = Folded(views[w[1]], w[2], n)]
    BY <1>5, <2>2 DEF PaneUpdate
  <2>5. ASSUME NEW v \in Views
        PROVE  /\ Folded(v, w[2], n).err = v.err /\ Folded(v, w[2], n).exited = v.exited
               /\ Folded(v, w[2], n).taken = n
    BY DEF Folded, Views
  <2>6. focus # NoRef => ~views'[focus].err /\ ~views'[focus].exited /\ views'[focus].taken > 0
    <3> SUFFICES ASSUME focus # NoRef
                 PROVE  ~views'[focus].err /\ ~views'[focus].exited /\ views'[focus].taken > 0
      OBVIOUS
    <3>1. CASE views'[focus] = views[focus]
      BY <1>3, <3>1
    <3>2. CASE views'[focus] = Folded(views[focus], w[2], n)
      BY <1>3, <2>3, <2>5, <3>2
    <3> QED
      BY <1>2, <1>3, <2>4, <3>1, <3>2
  <2> QED
    BY <2>1, <2>6, InputViews
<1>6. CASE PaneExited(w)
  <2>1. UNCHANGED <<fwd, driven, cancelled, inputs, strayKey, forgotten, alive, unborn>>
    BY <1>6 DEF PaneExited, serverVars, inputVars
  <2>2. CASE Feeds(w) /\ focus = w[1]
    <3>1. focus' = NoRef /\ focus \notin alive
      BY <1>6, <2>2 DEF PaneExited
    <3>2. forgotten \subseteq Refs
      BY DEF DashTypeOK, TypeOK
    <3> QED
      BY <2>1, <3>1, <3>2, InputLoses
  <2>3. CASE ~(Feeds(w) /\ focus = w[1])
    <3>1. focus' = focus
      BY <1>6, <2>3 DEF PaneExited
    <3>2. views' = views \/ (focus # w[1] /\ views' = [views EXCEPT ![w[1]].exited = TRUE])
      BY <1>6, <2>3 DEF PaneExited
    <3>3. focus # NoRef => ~views'[focus].err /\ ~views'[focus].exited /\ views'[focus].taken > 0
      BY <1>2, <1>3, <3>2
    <3> QED
      BY <2>1, <3>1, <3>3, InputViews
  <2> QED
    BY <2>2, <2>3
<1>7. CASE WatchFailed(w)
  <2>1. UNCHANGED <<strayKey, forgotten, alive, unborn>>
    BY <1>7 DEF WatchFailed, serverVars
  <2>2. CASE Concerns(w) /\ focus = w[1]
    <3>1. focus # NoRef
      BY <1>1, <2>2, DashboardAssumption
    <3>2. Send("restore", NoRef)
      BY <1>7, <2>2 DEF WatchFailed, unfocus
    <3> QED
      BY <2>1, <3>1, <3>2, InputSends
  <2>3. CASE ~(Concerns(w) /\ focus = w[1])
    <3>1. UNCHANGED <<fwd, cancelled, inputs, focus, driven>>
      BY <1>7, <2>3 DEF WatchFailed
    <3>2. views' = views \/ (focus # w[1] /\ views' = [views EXCEPT ![w[1]].err = TRUE])
      BY <1>7, <2>3 DEF WatchFailed
    <3>3. focus # NoRef => ~views'[focus].err /\ ~views'[focus].exited /\ views'[focus].taken > 0
      BY <1>2, <1>3, <3>2
    <3> QED
      BY <2>1, <3>1, <3>3, InputViews
  <2> QED
    BY <2>2, <2>3
<1> QED
  BY <1>4, <1>5, <1>6, <1>7

\* The end of a forwarding command that failed.
LEMMA InputFails ==
  ASSUME DashTypeOK, InputInv, NEW g \in Gens, InputFailed(g)
  PROVE  InputInv'
<1>1. PICK after : after = [NoInput EXCEPT !.phase = "ended"]
  OBVIOUS
<1>2. after.phase = "ended" /\ after.queue = <<>> /\ Len(after.queue) = 0 /\ after \in Forwards
  <2>1. <<>> \in Seq(Requests) /\ Len(<<>>) = 0
    BY EmptySeq
  <2> QED
    BY <1>1, <2>1 DEF NoInput, Forwards
<1>3. /\ fwd[g].phase = "failed" /\ fwd' = [fwd EXCEPT ![g] = after]
      /\ UNCHANGED <<alive, unborn, strayKey, views, forgotten>>
  BY <1>1 DEF InputFailed, ForwardReturns, KeepViews, serverVars
<1>4. InputTypeOK /\ GensInv
  BY DEF InputInv
<1>5. g[1] \in Hosts /\ g[2] \in 1 .. MaxGens /\ g = <<g[1], g[2]>>
  BY GenParts
<1>6. CASE IsCurrent(g)
  <2>1. dropInput(g[1]) /\ inputs[g[1]] = g[2] /\ inputs[g[1]] # 0 /\ Current(g[1]) = g
    BY <1>5, <1>6 DEF InputFailed, IsCurrent, Current
  <2>2. fwd' \in [Gens -> Forwards]
    BY <1>2, <1>3, <1>4 DEF InputTypeOK
  <2>3. \A x \in Gens : x # Current(g[1]) => fwd'[x] = fwd[x]
    BY <1>3, <1>4, <2>1 DEF InputTypeOK
  <2>4. fwd'[Current(g[1])] = after
    BY <1>3, <1>4, <2>1 DEF InputTypeOK
  <2> QED
    BY <1>1, <1>3, <1>5, <2>1, <2>2, <2>3, <2>4, InputDropped
<1>7. CASE ~IsCurrent(g)
  <2>1. UNCHANGED <<cancelled, inputs, focus, driven>>
    BY <1>7 DEF InputFailed
  <2>2. g \in cancelled
    BY <1>3, <1>4, <1>7 DEF GensInv, IsCurrent, Working
  <2>3. Outgoing(after) = <<>> /\ Len(Outgoing(after)) = 0
    BY <1>2 DEF Outgoing
  <2>4. \A i \in 1 .. Len(Outgoing(after)) : Outgoing(after)[i].ref \in OfHost(g)
    BY <2>3
  <2>5. Len(after.queue) <= ForwardBuffer
    BY <1>2, DashboardAssumption
  <2> QED
    BY <1>2, <1>3, <2>1, <2>2, <2>4, <2>5, InputMoves
<1> QED
  BY <1>6, <1>7

\* Every step keeps the input side in order.
LEMMA InputStep ==
  ASSUME DashTypeOK, HerdsInOrder, InputInv, [Next]_vars
  PROVE  InputInv'
<1>1. focus # NoRef => ~views[focus].err /\ ~views[focus].exited /\ views[focus].taken > 0
  BY FocusParts
<1>2. CASE FetchLists \/ Refresh \/ UNCHANGED vars
  <2>1. UNCHANGED <<fwd, driven, cancelled, inputs, focus, strayKey, forgotten, alive, unborn, views>>
    BY <1>2 DEF FetchLists, Refresh, vars, serverVars, inputVars, modelVars
  <2> QED
    BY <1>1, <2>1, InputViews
<1>3. CASE WindowSize
  <2>1. UNCHANGED <<strayKey, forgotten, alive, unborn, views>>
    BY <1>3 DEF WindowSize, KeepViews, serverVars
  <2>2. CASE focus # NoRef
    <3>1. Send("resize", focus)
      BY <1>3, <2>2 DEF WindowSize
    <3> QED
      BY <2>1, <2>2, <3>1, InputSends
  <2>3. CASE focus = NoRef
    <3>1. UNCHANGED <<fwd, cancelled, inputs, focus, driven>>
      BY <1>3, <2>3 DEF WindowSize
    <3> QED
      BY <1>1, <2>1, <3>1, InputViews
  <2> QED
    BY <2>2, <2>3
<1>4. CASE Leader
  <2>1. /\ focus # NoRef /\ Send("restore", NoRef)
        /\ UNCHANGED <<strayKey, forgotten, alive, unborn, views>>
    BY <1>4 DEF Leader, unfocus, KeepViews, serverVars
  <2> QED
    BY <2>1, InputSends
<1>5. CASE Type
  <2>1. /\ focus # NoRef /\ Send("keys", focus)
        /\ UNCHANGED <<strayKey, forgotten, alive, unborn, views>>
    BY <1>5 DEF Type, KeepViews, serverVars
  <2> QED
    BY <2>1, InputSends
<1>6. CASE Servers
  BY <1>6, InputServers
<1>7. ASSUME NEW g \in Gens, ForwardOpens(g) \/ ForwardTakes(g) \/ ForwardSends(g) \/ ForwardSendFails(g)
      PROVE  InputInv'
  BY <1>7, InputForwarding
<1>8. ASSUME NEW r \in Refs, FocusSelected(r)
      PROVE  InputInv'
  BY <1>8, InputFocuses
<1>9. ASSUME NEW answer \in listed, ApplyHerd(answer)
      PROVE  InputInv'
  BY <1>9, InputHerd
<1>10. ASSUME NEW w \in Watches, WatchStarted(w) \/ PaneUpdate(w) \/ PaneExited(w) \/ WatchFailed(w)
       PROVE  InputInv'
  BY <1>10, InputWatches
<1>11. ASSUME NEW g \in Gens, InputFailed(g)
       PROVE  InputInv'
  BY <1>11, InputFails
<1> QED
  BY <1>2, <1>3, <1>4, <1>5, <1>6, <1>7, <1>8, <1>9, <1>10, <1>11
     DEF Next, Commands, User, Messages

-----------------------------------------------------------------------------
(***************************************************************************)
(* What steps do to herds, views and streams.                              *)
(***************************************************************************)
Quiet == \/ Servers
         \/ \E g \in Gens : ForwardOpens(g) \/ ForwardTakes(g) \/ ForwardSends(g) \/ ForwardSendFails(g)
         \/ User
         \/ \E g \in Gens : InputFailed(g)
         \/ UNCHANGED vars

\* Most steps leave them alone.
LEMMA QuietSteps ==
  ASSUME DashTypeOK, Quiet
  PROVE  /\ UNCHANGED <<panes, views, streams, listed, listings, applied>>
         /\ asked' \in Nat /\ focus' \in panes \cup {NoRef} /\ forgotten' \subseteq Refs
         /\ alive' \subseteq Refs /\ unborn' \subseteq Refs \ alive'
         /\ unborn' \subseteq unborn /\ alive' \subseteq alive \cup unborn
<1>1. /\ asked \in Nat /\ focus \in panes \cup {NoRef} /\ forgotten \subseteq Refs
      /\ alive \subseteq Refs /\ unborn \subseteq Refs \ alive
  BY DEF DashTypeOK, TypeOK
<1>2. CASE Servers
  BY <1>1, <1>2 DEF Servers, PaneOpens, PaneExits, fetchVars, modelVars
<1>3. ASSUME NEW g \in Gens, ForwardOpens(g) \/ ForwardTakes(g) \/ ForwardSends(g) \/ ForwardSendFails(g)
      PROVE  UNCHANGED <<serverVars, fetchVars, streams, modelVars>>
  BY <1>3 DEF ForwardOpens, ForwardTakes, ForwardSends, ForwardSendFails
<1>4. \A kind, newFocus : Send(kind, newFocus) => focus' \in {newFocus, focus, NoRef}
  BY DEF Send, dropInput
<1>5. CASE User
  <2>1. CASE WindowSize
    <3>1. focus' \in {focus, NoRef}
      BY <1>4, <2>1 DEF WindowSize
    <3> QED
      BY <1>1, <2>1, <3>1 DEF WindowSize, KeepViews, serverVars, fetchVars
  <2>2. CASE Leader
    <3>1. focus' \in {focus, NoRef}
      BY <1>4, <2>2 DEF Leader, unfocus
    <3> QED
      BY <1>1, <2>2, <3>1 DEF Leader, KeepViews, serverVars, fetchVars
  <2>3. CASE Type
    <3>1. focus' \in {focus, NoRef}
      BY <1>4, <2>3 DEF Type
    <3> QED
      BY <1>1, <2>3, <3>1 DEF Type, KeepViews, serverVars, fetchVars
  <2>4. CASE Refresh
    BY <1>1, <2>4 DEF Refresh, serverVars, modelVars
  <2>5. ASSUME NEW r \in Refs, FocusSelected(r)
        PROVE  /\ UNCHANGED <<panes, views, streams, listed, listings, applied, asked, alive, unborn>>
               /\ focus' \in panes \cup {NoRef} /\ forgotten' \subseteq Refs
    <3>1. focus' \in {r, focus, NoRef} /\ r \in panes
      BY <2>5 DEF FocusSelected, FocusNewInput, FocusReusesInput, dropInput
    <3> QED
      BY <1>1, <2>5, <3>1 DEF FocusSelected, KeepViews, serverVars, fetchVars
  <2> QED
    BY <1>1, <1>5, <2>1, <2>2, <2>3, <2>4, <2>5 DEF User
<1>6. ASSUME NEW g \in Gens, InputFailed(g)
      PROVE  /\ UNCHANGED <<panes, views, streams, listed, listings, applied, asked, forgotten, alive, unborn>>
             /\ focus' \in panes \cup {NoRef}
  <2>1. focus' \in {focus, NoRef}
    BY <1>6 DEF InputFailed, dropInput
  <2> QED
    BY <1>1, <1>6, <2>1 DEF InputFailed, KeepViews, serverVars, fetchVars
<1>7. CASE UNCHANGED vars
  BY <1>1, <1>7 DEF vars, serverVars, fetchVars, modelVars
<1>8. UNCHANGED <<serverVars, fetchVars, streams, modelVars>> =>
        /\ UNCHANGED <<panes, views, streams, listed, listings, applied, asked, forgotten, alive, unborn>>
        /\ focus' \in panes \cup {NoRef}
  BY <1>1 DEF serverVars, fetchVars, modelVars
<1> QED
  BY <1>1, <1>2, <1>3, <1>5, <1>6, <1>7, <1>8 DEF Quiet

\* The steps there are.
LEMMA StepCases ==
  ASSUME [Next]_vars
  PROVE  \/ Quiet
         \/ FetchLists
         \/ \E answer \in listed : ApplyHerd(answer)
         \/ \E w \in Watches : WatchStarted(w) \/ PaneUpdate(w) \/ PaneExited(w) \/ WatchFailed(w)
  BY DEF Next, Commands, Messages, Quiet

\* What a watch delivers leaves the herds alone.
LEMMA WatchSteps ==
  ASSUME DashTypeOK, NEW w \in Watches,
         WatchStarted(w) \/ PaneUpdate(w) \/ PaneExited(w) \/ WatchFailed(w)
  PROVE  /\ UNCHANGED <<panes, listed, listings, asked, applied, forgotten, alive, unborn>>
         /\ focus' \in {focus, NoRef}
<1>1. \A kind : Send(kind, NoRef) => focus' \in {focus, NoRef}
  BY DEF Send, dropInput
<1> QED
  BY <1>1 DEF WatchStarted, PaneUpdate, PaneExited, WatchFailed, unfocus, serverVars, fetchVars

\* A pane a newer herd lacks has exited, whatever herd is applied.
LEMMA HerdsStep ==
  ASSUME DashTypeOK, HerdsInOrder, [Next]_vars
  PROVE  HerdsInOrder'
<1>1. /\ alive \subseteq Refs /\ unborn \subseteq Refs \ alive /\ listings \in Nat /\ applied \in Nat
      /\ \A answer \in listed : answer.at \in Nat /\ answer.at <= listings
  BY DEF DashTypeOK, TypeOK
<1>2. CASE Quiet
  <2>1. /\ UNCHANGED <<panes, listed, applied>>
        /\ unborn' \subseteq unborn /\ alive' \subseteq alive \cup unborn
    BY <1>2, QuietSteps
  <2> QED
    BY <2>1 DEF HerdsInOrder
<1>3. CASE FetchLists
  <2>1. PICK a : a = [herd |-> alive, at |-> listings + 1]
    OBVIOUS
  <2>2. a.herd = alive /\ a.at = listings + 1
    BY <2>1
  <2>3. listed' = listed \cup {a} /\ UNCHANGED <<panes, applied, alive, unborn>>
    BY <1>3, <2>1 DEF FetchLists, serverVars, modelVars
  <2>4. \A answer \in listed : ~(a.at <= answer.at)
    BY <1>1, <2>2
  <2>5. \A answer \in listed' : answer.herd \cap unborn' = {}
    BY <1>1, <2>2, <2>3 DEF HerdsInOrder
  <2>6. ASSUME NEW old \in listed', NEW new \in listed', old.at <= new.at, old # new
        PROVE  (old.herd \ new.herd) \cap alive' = {}
    <3>1. CASE new = a
      BY <2>2, <2>3, <3>1
    <3>2. CASE new # a
      BY <2>3, <2>4, <2>6, <3>2 DEF HerdsInOrder
    <3> QED
      BY <3>1, <3>2
  <2>7. ASSUME NEW new \in listed', new.at >= applied'
        PROVE  (panes' \ new.herd) \cap alive' = {}
    BY <2>2, <2>3, <2>7 DEF HerdsInOrder
  <2> QED
    BY <2>3, <2>5, <2>6, <2>7 DEF HerdsInOrder
<1>4. ASSUME NEW answer \in listed, ApplyHerd(answer)
      PROVE  HerdsInOrder'
  <2>1. /\ listed' = listed \ {answer} /\ panes' = answer.herd /\ UNCHANGED <<alive, unborn>>
        /\ applied' = IF answer.at > applied THEN answer.at ELSE applied
    BY <1>4 DEF ApplyHerd, serverVars
  <2>2. ASSUME NEW new \in listed', new.at >= applied'
        PROVE  (panes' \ new.herd) \cap alive' = {}
    <3>1. new \in listed /\ new # answer
      BY <2>1
    <3>2. answer.at <= new.at
      BY <1>1, <2>1, <2>2, <3>1
    <3> QED
      BY <2>1, <3>1, <3>2 DEF HerdsInOrder
  <2> QED
    BY <2>1, <2>2 DEF HerdsInOrder
<1>5. ASSUME NEW w \in Watches, WatchStarted(w) \/ PaneUpdate(w) \/ PaneExited(w) \/ WatchFailed(w)
      PROVE  HerdsInOrder'
  <2>1. UNCHANGED <<panes, listed, applied, alive, unborn>>
    BY <1>5, WatchSteps
  <2> QED
    BY <2>1 DEF HerdsInOrder
<1> QED
  BY <1>2, <1>3, <1>4, <1>5, StepCases

ViewTypeOK ==
  /\ views \in [Refs -> {NoView} \cup Views] /\ streams \in [Watches -> Loops]
  /\ \A r \in Refs : views[r] # NoView <=> r \in panes

\* One loop moves on, and the view of its pane.
LEMMA LoopChanges ==
  ASSUME ViewTypeOK, StreamInv, NEW w \in Watches, UNCHANGED panes, panes \subseteq Refs,
         NEW loop \in Loops, streams' = [streams EXCEPT ![w] = loop],
         streams[w].phase # "none", loop.phase # "none",
         loop.phase # "receiving" => loop.delivered = 0,
         NEW v \in {NoView} \cup Views, v = NoView <=> views[w[1]] = NoView,
         views' = [views EXCEPT ![w[1]] = v],
         w[1] \in panes =>
           /\ ~v.mixed /\ ViewFed(v, w[2], loop)
           /\ \/ v.stream = w[2]
              \/ /\ v.stream = views[w[1]].stream
                 /\ v.from = views[w[1]].from /\ v.taken = views[w[1]].taken
  PROVE  ViewTypeOK' /\ StreamInv'
<1>1. w[1] \in Refs /\ w[2] \in 1 .. MaxWatches[w[1]] /\ w = <<w[1], w[2]>>
  BY WatchParts
<1>2. /\ streams' \in [Watches -> Loops] /\ streams'[w] = loop
      /\ \A x \in Watches : x # w => streams'[x] = streams[x]
  BY DEF ViewTypeOK
<1>3. /\ views' \in [Refs -> {NoView} \cup Views] /\ views'[w[1]] = v
      /\ \A r \in Refs : r # w[1] => views'[r] = views[r]
  BY <1>1 DEF ViewTypeOK
<1>4. ViewTypeOK'
  BY <1>1, <1>2, <1>3 DEF ViewTypeOK
<1>5. WatchesOpened'
  <2>1. ASSUME NEW r \in Refs, NEW k \in 1 .. MaxWatches[r]
        PROVE  streams'[<<r, k>>].phase # "none" <=> streams[<<r, k>>].phase # "none"
    <3>1. <<r, k>> \in Watches
      BY WatchParts
    <3> QED
      BY <1>2, <3>1
  <2> QED
    BY <2>1 DEF StreamInv, WatchesOpened
<1>6. ViewsFed'
  <2>1. \A x \in Watches : streams'[x].phase # "receiving" => streams'[x].delivered = 0
    BY <1>2 DEF StreamInv, ViewsFed
  <2>2. ASSUME NEW x \in Watches, x[1] \in panes
        PROVE  ViewFed(views'[x[1]], x[2], streams'[x])
    <3>1. x[1] \in Refs /\ x = <<x[1], x[2]>>
      BY WatchParts
    <3>2. ViewFed(views[x[1]], x[2], streams[x])
      BY <2>2 DEF StreamInv, ViewsFed
    <3>3. CASE x = w
      BY <1>2, <1>3, <2>2, <3>3
    <3>4. CASE x # w /\ x[1] # w[1]
      BY <1>2, <1>3, <3>1, <3>2, <3>4
    <3>5. CASE x # w /\ x[1] = w[1]
      <4>1. x[2] # w[2]
        BY <1>1, <3>1, <3>5
      <4>2. streams'[x] = streams[x] /\ views'[x[1]] = v
        BY <1>2, <1>3, <3>5
      <4> QED
        BY <2>2, <3>2, <3>5, <4>1, <4>2 DEF ViewFed
    <3> QED
      BY <3>3, <3>4, <3>5
  <2> QED
    BY <2>1, <2>2 DEF ViewsFed
<1>7. ViewsUnmixed'
  BY <1>3 DEF StreamInv, ViewsUnmixed
<1> QED
  BY <1>4, <1>5, <1>6, <1>7 DEF StreamInv

\* A watch and its view, as the Client hears of it.
LEMMA WatchStep ==
  ASSUME DashTypeOK, StreamInv, NEW w \in Watches,
         WatchStarted(w) \/ PaneUpdate(w) \/ PaneExited(w) \/ WatchFailed(w)
  PROVE  ViewTypeOK' /\ StreamInv'
<1>1. ViewTypeOK /\ panes \subseteq Refs /\ panes' = panes
  BY WatchSteps DEF ViewTypeOK, DashTypeOK, TypeOK
<1>2. w[1] \in Refs /\ w[2] \in 1 .. MaxWatches[w[1]] /\ w[2] \in Nat /\ w = <<w[1], w[2]>>
  <2>1. w[1] \in Refs /\ w[2] \in 1 .. MaxWatches[w[1]] /\ w = <<w[1], w[2]>>
    BY WatchParts
  <2>2. MaxWatches[w[1]] \in Nat
    BY <2>1, DashboardAssumption
  <2> QED
    BY <2>1, <2>2
<1>3. PICK v \in {NoView} \cup Views : v = views[w[1]]
  BY <1>1, <1>2 DEF ViewTypeOK
<1>4. views[w[1]] # NoView => v \in Views /\ w[1] \in panes
  BY <1>1, <1>2, <1>3 DEF ViewTypeOK
<1>5. w[1] \in panes => v \in Views /\ ~v.mixed /\ ViewFed(v, w[2], streams[w]) /\ v # NoView
  BY <1>1, <1>2, <1>3 DEF StreamInv, ViewsFed, ViewsUnmixed, ViewTypeOK
<1>6. streams[w] \in Loops /\ streams \in [Watches -> Loops]
  BY <1>1 DEF ViewTypeOK
<1>7. PICK over \in Loops : over = [phase |-> "over", delivered |-> 0]
  BY DEF Loops
<1>8. over.phase = "over" /\ over.delivered = 0
  BY <1>7
<1>9. \A u : ViewFed(u, w[2], over)
  BY <1>8 DEF ViewFed
<1>10. ASSUME LoopEnds(w), streams[w].phase # "none", NEW u \in {NoView} \cup Views,
              u = NoView <=> v = NoView, views' = [views EXCEPT ![w[1]] = u],
              w[1] \in panes => /\ u.mixed = v.mixed /\ u.stream = v.stream
                                /\ u.from = v.from /\ u.taken = v.taken
       PROVE  ViewTypeOK' /\ StreamInv'
  <2>1. streams' = [streams EXCEPT ![w] = over]
    BY <1>7, <1>10 DEF LoopEnds
  <2> QED
    BY <1>1, <1>3, <1>5, <1>8, <1>9, <1>10, <2>1, LoopChanges
<1>11. views = [views EXCEPT ![w[1]] = v]
  BY <1>1, <1>3 DEF ViewTypeOK
<1>12. CASE WatchStarted(w)
  <2>1. streams[w].phase = "opening" /\ streams[w].delivered = 0
    BY <1>12 DEF WatchStarted, StreamInv, ViewsFed
  <2>2. CASE views[w[1]] = NoView
    BY <1>10, <1>11, <1>12, <2>1, <2>2 DEF WatchStarted
  <2>3. CASE views[w[1]] # NoView
    <3>1. PICK loop : loop = [streams[w] EXCEPT !.phase = "receiving"]
      OBVIOUS
    <3>2. loop \in Loops /\ loop.phase = "receiving" /\ loop.delivered = 0
      BY <1>6, <2>1, <3>1 DEF Loops
    <3>3. streams' = [streams EXCEPT ![w] = loop]
      BY <1>6, <1>12, <2>3, <3>1 DEF WatchStarted
    <3>4. PICK u : u = [v EXCEPT !.stream = w[2]]
      OBVIOUS
    <3>5. u \in Views /\ u.stream = w[2] /\ u.mixed = v.mixed
      BY <1>2, <1>4, <2>3, <3>4 DEF Views
    <3>6. views' = [views EXCEPT ![w[1]] = u]
      BY <1>1, <1>2, <1>3, <1>12, <2>3, <3>4 DEF WatchStarted, ViewTypeOK
    <3>7. ViewFed(u, w[2], loop)
      BY <3>2 DEF ViewFed
    <3>8. u # NoView
      BY <3>5, ViewsAreViews
    <3>9. ~u.mixed
      BY <1>4, <1>5, <2>3, <3>5
    <3> QED
      BY <1>1, <2>1, <2>3, <3>2, <3>3, <3>5, <3>6, <3>7, <3>8, <3>9, LoopChanges
  <2> QED
    BY <2>2, <2>3
<1>13. CASE PaneUpdate(w)
  <2>1. streams[w].phase = "receiving"
    BY <1>13 DEF PaneUpdate
  <2>2. CASE ~Feeds(w)
    BY <1>10, <1>11, <1>13, <2>1, <2>2 DEF PaneUpdate
  <2>3. CASE Feeds(w)
    <3>1. PICK n : n = streams[w].delivered + 1
      OBVIOUS
    <3>2. n \in Nat /\ n - 1 = streams[w].delivered /\ n > 0
      <4>1. streams[w].delivered \in Nat
        BY <1>6 DEF Loops
      <4> QED
        BY <3>1, <4>1
    <3>3. PICK loop : loop = [streams[w] EXCEPT !.delivered = n]
      OBVIOUS
    <3>4. loop \in Loops /\ loop.phase = "receiving" /\ loop.delivered = n
      BY <1>6, <2>1, <3>2, <3>3 DEF Loops
    <3>5. streams' = [streams EXCEPT ![w] = loop]
      BY <1>6, <1>13, <2>3, <3>1, <3>3 DEF PaneUpdate
    <3>6. v \in Views /\ w[1] \in panes /\ v.stream = w[2]
      BY <1>3, <1>4, <2>3 DEF Feeds
    <3>7. PICK u : u = Folded(v, w[2], n)
      OBVIOUS
    <3>8. views' = [views EXCEPT ![w[1]] = u]
      BY <1>1, <1>2, <1>3, <1>13, <2>3, <3>1, <3>7 DEF PaneUpdate, ViewTypeOK
    <3>9. CASE n = 1
      <4>1. u = [v EXCEPT !.from = w[2], !.taken = 1, !.mixed = FALSE]
        BY <3>7, <3>9 DEF Folded
      <4>2. u \in Views /\ u.stream = w[2] /\ u.from = w[2] /\ u.taken = 1
        BY <1>2, <3>6, <4>1 DEF Views
      <4>3. ~u.mixed
        BY <3>6, <4>1 DEF Views
      <4>4. ViewFed(u, w[2], loop)
        BY <3>4, <3>9, <4>2 DEF ViewFed
      <4> QED
        BY <1>1, <2>1, <3>4, <3>5, <3>6, <3>8, <4>2, <4>3, <4>4, ViewsAreViews, <1>3, LoopChanges
    <3>10. CASE n # 1
      <4>1. v.from = w[2] /\ v.taken = streams[w].delivered
        BY <1>5, <2>1, <3>2, <3>6, <3>10 DEF ViewFed
      <4>2. ~v.mixed /\ v.taken + 1 = n
        BY <1>5, <3>1, <3>6, <4>1
      <4>3. u = [v EXCEPT !.taken = n, !.mixed = v.mixed \/ v.from # w[2] \/ v.taken + 1 # n]
        BY <3>7, <3>10 DEF Folded
      <4>4. u = [v EXCEPT !.taken = n, !.mixed = FALSE]
        BY <4>1, <4>2, <4>3
      <4>5. u \in Views /\ u.stream = w[2] /\ u.from = w[2] /\ u.taken = n
        BY <3>2, <3>6, <4>1, <4>4 DEF Views
      <4>6. ~u.mixed
        BY <3>6, <4>4 DEF Views
      <4>7. ViewFed(u, w[2], loop)
        BY <3>4, <4>5 DEF ViewFed
      <4> QED
        BY <1>1, <2>1, <3>4, <3>5, <3>6, <3>8, <4>5, <4>6, <4>7, ViewsAreViews, <1>3, LoopChanges
    <3> QED
      BY <3>9, <3>10
  <2> QED
    BY <2>2, <2>3
<1>14. CASE PaneExited(w)
  <2>1. LoopEnds(w) /\ streams[w].phase = "receiving"
    BY <1>14 DEF PaneExited
  <2>2. CASE ~Feeds(w)
    BY <1>10, <1>11, <1>14, <2>1, <2>2 DEF PaneExited
  <2>3. CASE Feeds(w)
    <3>1. v \in Views
      BY <1>4, <2>3 DEF Feeds
    <3>2. PICK u : u = [v EXCEPT !.exited = TRUE]
      OBVIOUS
    <3>3. u \in Views /\ u.mixed = v.mixed /\ u.stream = v.stream /\ u.from = v.from /\ u.taken = v.taken
      BY <3>1, <3>2 DEF Views
    <3>4. views' = [views EXCEPT ![w[1]] = u]
      BY <1>1, <1>2, <1>3, <1>14, <2>3, <3>2 DEF PaneExited, ViewTypeOK
    <3> QED
      BY <1>10, <2>1, <3>1, <3>3, <3>4, ViewsAreViews
  <2> QED
    BY <2>2, <2>3
<1>15. CASE WatchFailed(w)
  <2>1. LoopEnds(w) /\ streams[w].phase # "none"
    BY <1>15 DEF WatchFailed
  <2>2. CASE ~Concerns(w)
    BY <1>10, <1>11, <1>15, <2>1, <2>2 DEF WatchFailed
  <2>3. CASE Concerns(w)
    <3>1. v \in Views
      BY <1>4, <2>3 DEF Concerns
    <3>2. PICK u : u = [v EXCEPT !.err = TRUE]
      OBVIOUS
    <3>3. u \in Views /\ u.mixed = v.mixed /\ u.stream = v.stream /\ u.from = v.from /\ u.taken = v.taken
      BY <3>1, <3>2 DEF Views
    <3>4. views' = [views EXCEPT ![w[1]] = u]
      BY <1>1, <1>2, <1>3, <1>15, <2>3, <3>2 DEF WatchFailed, ViewTypeOK
    <3> QED
      BY <1>10, <2>1, <3>1, <3>3, <3>4, ViewsAreViews
  <2> QED
    BY <2>2, <2>3
<1> QED
  BY <1>12, <1>13, <1>14, <1>15

\* The watches of a pane opened so far.
LEMMA WatchesCounted ==
  ASSUME NEW r \in Refs, NEW n \in 0 .. MaxWatches[r],
         \A k \in 1 .. MaxWatches[r] : streams[<<r, k>>].phase # "none" <=> k <= n
  PROVE  WatchCount(r) = n
<1>1. MaxWatches[r] \in Nat
  BY DashboardAssumption
<1>2. n \in Nat /\ n <= MaxWatches[r]
  BY <1>1
<1>3. \A k \in 1 .. n : k \in 1 .. MaxWatches[r] /\ k <= n
  BY <1>1, <1>2
<1>4. \A k \in 1 .. MaxWatches[r] : k <= n => k \in 1 .. n
  BY <1>1, <1>2
<1>5. {k \in 1 .. MaxWatches[r] : streams[<<r, k>>].phase # "none"} = 1 .. n
  BY <1>3, <1>4
<1>6. Cardinality(1 .. n) = n
  <2>1. 1 \in Int /\ n \in Int
    BY <1>2
  <2>2. Cardinality(1 .. n) = IF 1 > n THEN 0 ELSE n - 1 + 1
    BY <2>1, FS_Interval
  <2>3. (IF 1 > n THEN 0 ELSE n - 1 + 1) = n
    BY <1>2
  <2> QED
    BY <2>2, <2>3
<1> QED
  BY <1>5, <1>6 DEF WatchCount

\* A herd gives its new panes fresh views and a watch each.
LEMMA HerdStep ==
  ASSUME DashTypeOK, StreamInv, NEW answer \in listed, ApplyHerd(answer)
  PROVE  ViewTypeOK' /\ StreamInv'
<1>1. PICK herd : herd = answer.herd
  OBVIOUS
<1>2. herd \subseteq Refs /\ ViewTypeOK
  BY <1>1 DEF DashTypeOK, TypeOK, ViewTypeOK
<1>3. PICK rewatch : rewatch = {r \in herd : views[r] = NoView \/ (views[r] # NoView /\ views[r].err)}
  OBVIOUS
<1>4. /\ \A r \in rewatch : WatchCount(r) < MaxWatches[r]
      /\ panes' = herd
      /\ views' = [r \in Refs |-> IF r \in rewatch THEN NewView
                                  ELSE IF r \in herd THEN views[r] ELSE NoView]
      /\ streams' = [w \in Watches |-> IF w[1] \in rewatch /\ w[2] = WatchCount(w[1]) + 1
                                       THEN [streams[w] EXCEPT !.phase = "opening"] ELSE streams[w]]
  BY <1>1, <1>3 DEF ApplyHerd
<1>5. rewatch \subseteq herd /\ \A r \in herd : r \notin rewatch => views[r] # NoView
  BY <1>3
<1>6. \A w \in Watches : streams[w] \in Loops
  BY <1>2 DEF ViewTypeOK
<1>7. \A w \in Watches : [streams[w] EXCEPT !.phase = "opening"] \in Loops
  BY <1>6 DEF Loops
<1>8. streams' \in [Watches -> Loops]
  BY <1>4, <1>6, <1>7
<1>9. ViewTypeOK'
  <2>1. views' \in [Refs -> {NoView} \cup Views]
    BY <1>2, <1>4, ViewsAreViews DEF ViewTypeOK
  <2>2. \A r \in Refs : views'[r] # NoView <=> r \in panes'
    BY <1>4, <1>5, ViewsAreViews
  <2> QED
    BY <1>8, <2>1, <2>2 DEF ViewTypeOK
<1>10. ASSUME NEW r \in Refs, NEW n \in 0 .. MaxWatches[r],
              \A k \in 1 .. MaxWatches[r] : streams[<<r, k>>].phase # "none" <=> k <= n
       PROVE  /\ \E m \in 0 .. MaxWatches[r] :
                   \A k \in 1 .. MaxWatches[r] : streams'[<<r, k>>].phase # "none" <=> k <= m
              /\ \A k \in 1 .. MaxWatches[r] :
                   \/ streams'[<<r, k>>] = streams[<<r, k>>]
                   \/ /\ r \in rewatch /\ streams[<<r, k>>].phase = "none"
                      /\ streams'[<<r, k>>] = [streams[<<r, k>>] EXCEPT !.phase = "opening"]
  <2>1. WatchCount(r) = n
    BY <1>10, WatchesCounted
  <2>2. \A k \in 1 .. MaxWatches[r] :
          streams'[<<r, k>>] = IF r \in rewatch /\ k = n + 1
                               THEN [streams[<<r, k>>] EXCEPT !.phase = "opening"] ELSE streams[<<r, k>>]
    BY <1>4, <2>1, WatchParts
  <2>3. MaxWatches[r] \in Nat
    BY DashboardAssumption
  <2>4. CASE r \notin rewatch
    BY <1>10, <2>2, <2>4
  <2>5. CASE r \in rewatch
    <3>1. n < MaxWatches[r] /\ n \in Nat
      BY <1>4, <2>1, <2>3, <2>5
    <3>2. n + 1 \in 0 .. MaxWatches[r] /\ n + 1 \in 1 .. MaxWatches[r]
      BY <2>3, <3>1
    <3>3. \A k \in 1 .. MaxWatches[r] : k <= n + 1 <=> (k <= n \/ k = n + 1)
      BY <2>3, <3>1
    <3>4. streams[<<r, n + 1>>].phase = "none" /\ streams[<<r, n + 1>>] \in Loops
      <4>1. ~(n + 1 <= n)
        BY <3>1
      <4> QED
        BY <1>6, <1>10, <3>2, <4>1, WatchParts
    <3>5. streams'[<<r, n + 1>>] = [streams[<<r, n + 1>>] EXCEPT !.phase = "opening"]
      BY <2>2, <2>5, <3>2
    <3>6. streams'[<<r, n + 1>>].phase = "opening"
      BY <3>4, <3>5 DEF Loops
    <3>7. \A k \in 1 .. MaxWatches[r] : k # n + 1 => streams'[<<r, k>>] = streams[<<r, k>>]
      BY <2>2
    <3>8. \A k \in 1 .. MaxWatches[r] : streams'[<<r, k>>].phase # "none" <=> k <= n + 1
      BY <1>10, <3>3, <3>6, <3>7
    <3> QED
      BY <2>5, <3>2, <3>4, <3>5, <3>7, <3>8
  <2> QED
    BY <2>4, <2>5
<1>11. \A r \in Refs : \E n \in 0 .. MaxWatches[r] :
         \A k \in 1 .. MaxWatches[r] : streams[<<r, k>>].phase # "none" <=> k <= n
  BY DEF StreamInv, WatchesOpened
<1>12. WatchesOpened'
  BY <1>10, <1>11 DEF WatchesOpened
<1>13. ASSUME NEW w \in Watches
       PROVE  \/ streams'[w] = streams[w]
              \/ /\ w[1] \in rewatch /\ streams[w].phase = "none"
                 /\ streams'[w] = [streams[w] EXCEPT !.phase = "opening"]
  <2>1. w[1] \in Refs /\ w[2] \in 1 .. MaxWatches[w[1]] /\ w = <<w[1], w[2]>>
    BY WatchParts
  <2> QED
    BY <1>10, <1>11, <2>1
<1>14. ViewsFed'
  <2>1. ASSUME NEW w \in Watches, streams'[w].phase # "receiving"
        PROVE  streams'[w].delivered = 0
    <3>1. CASE streams'[w] = streams[w]
      BY <2>1, <3>1 DEF StreamInv, ViewsFed
    <3>2. CASE streams[w].phase = "none" /\ streams'[w] = [streams[w] EXCEPT !.phase = "opening"]
      <4>1. streams[w].delivered = 0 /\ streams[w] \in Loops
        BY <1>6, <3>2 DEF StreamInv, ViewsFed
      <4> QED
        BY <3>2, <4>1 DEF Loops
    <3> QED
      BY <1>13, <3>1, <3>2
  <2>2. ASSUME NEW w \in Watches, w[1] \in panes'
        PROVE  ViewFed(views'[w[1]], w[2], streams'[w])
    <3>1. w[1] \in Refs /\ w[2] \in 1 .. MaxWatches[w[1]]
      BY WatchParts
    <3>2. CASE w[1] \in rewatch
      <4>1. views'[w[1]] = NewView
        BY <1>4, <3>1, <3>2
      <4>2. NewView.stream = 0 /\ w[2] # 0
        BY <3>1 DEF NewView
      <4> QED
        BY <4>1, <4>2 DEF ViewFed
    <3>3. CASE w[1] \notin rewatch
      <4>1. views'[w[1]] = views[w[1]] /\ streams'[w] = streams[w]
        BY <1>4, <1>13, <2>2, <3>1, <3>3
      <4>2. w[1] \in panes
        BY <1>2, <1>4, <1>5, <2>2, <3>1, <3>3 DEF ViewTypeOK
      <4> QED
        BY <4>1, <4>2 DEF StreamInv, ViewsFed
    <3> QED
      BY <3>2, <3>3
  <2> QED
    BY <2>1, <2>2 DEF ViewsFed
<1>15. ViewsUnmixed'
  <2>1. ASSUME NEW r \in herd
        PROVE  ~views'[r].mixed
    <3>1. CASE r \in rewatch
      BY <1>2, <1>4, <3>1 DEF NewView
    <3>2. CASE r \notin rewatch
      <4>1. views'[r] = views[r] /\ r \in panes
        BY <1>2, <1>4, <1>5, <3>2 DEF ViewTypeOK
      <4> QED
        BY <4>1 DEF StreamInv, ViewsUnmixed
    <3> QED
      BY <3>1, <3>2
  <2> QED
    BY <1>4, <2>1 DEF ViewsUnmixed
<1> QED
  BY <1>9, <1>12, <1>14, <1>15 DEF StreamInv

\* Every step keeps each view on one stream.
LEMMA StreamStep ==
  ASSUME DashTypeOK, StreamInv, [Next]_vars
  PROVE  ViewTypeOK' /\ StreamInv'
<1>1. CASE Quiet \/ FetchLists
  <2>1. UNCHANGED <<panes, views, streams>>
    BY <1>1, QuietSteps DEF FetchLists, modelVars
  <2>2. ViewTypeOK
    BY DEF DashTypeOK, TypeOK, ViewTypeOK
  <2> QED
    BY <2>1, <2>2 DEF ViewTypeOK, StreamInv, WatchesOpened, ViewsFed, ViewsUnmixed
<1> QED
  BY <1>1, HerdStep, WatchStep, StepCases

\* Every step keeps the types.
LEMMA TypeStep ==
  ASSUME DashInv, [Next]_vars, InputInv', ViewTypeOK'
  PROVE  DashTypeOK'
<1>1. DashTypeOK /\ HerdsInOrder /\ InputInv
  BY DEF DashInv
<1>2. /\ asked \in Nat /\ listings \in Nat /\ applied \in 0 .. listings /\ forgotten \subseteq Refs
      /\ alive \subseteq Refs /\ unborn \subseteq Refs \ alive /\ panes \subseteq Refs
      /\ focus \in panes \cup {NoRef}
      /\ \A answer \in listed : answer.herd \subseteq Refs /\ answer.at \in 1 .. listings
  BY <1>1 DEF DashTypeOK, TypeOK
<1>3. InputTypeOK' /\ views' \in [Refs -> {NoView} \cup Views] /\ streams' \in [Watches -> Loops]
      /\ \A r \in Refs : views'[r] # NoView <=> r \in panes'
  BY DEF InputInv, ViewTypeOK
<1>4. ASSUME asked' \in Nat, listings' \in Nat, applied' \in 0 .. listings', forgotten' \subseteq Refs,
             alive' \subseteq Refs, unborn' \subseteq Refs \ alive', panes' \subseteq Refs,
             focus' \in panes' \cup {NoRef},
             \A answer \in listed' : answer.herd \subseteq Refs /\ answer.at \in 1 .. listings'
      PROVE  DashTypeOK'
  BY <1>3, <1>4 DEF DashTypeOK, TypeOK, InputTypeOK
<1>5. CASE Quiet
  BY <1>1, <1>2, <1>4, <1>5, QuietSteps
<1>6. CASE FetchLists
  <2>1. UNCHANGED <<alive, unborn, panes, focus, forgotten, applied>>
    BY <1>6 DEF FetchLists, serverVars, modelVars
  <2>2. asked' \in Nat /\ listings' \in Nat /\ applied' \in 0 .. listings'
    BY <1>2, <1>6, <2>1 DEF FetchLists
  <2>3. PICK new : new = [herd |-> alive, at |-> listings + 1]
    OBVIOUS
  <2>4. new.herd = alive /\ new.at = listings + 1 /\ listed' = listed \cup {new} /\ listings' = listings + 1
    BY <1>6, <2>3 DEF FetchLists
  <2>5. listings + 1 \in 1 .. listings + 1 /\ \A k \in 1 .. listings : k \in 1 .. listings + 1
    BY <1>2
  <2>6. \A answer \in listed' : answer.herd \subseteq Refs /\ answer.at \in 1 .. listings'
    BY <1>2, <2>4, <2>5
  <2> QED
    BY <1>2, <1>4, <2>1, <2>2, <2>6
<1>7. ASSUME NEW answer \in listed, ApplyHerd(answer)
      PROVE  DashTypeOK'
  <2>1. /\ UNCHANGED <<alive, unborn, asked, listings>>
        /\ listed' = listed \ {answer} /\ panes' = answer.herd
        /\ focus' = IF focus # NoRef /\ focus \notin answer.herd THEN NoRef ELSE focus
        /\ applied' \in {answer.at, applied} /\ forgotten' \subseteq forgotten \cup ({focus} \ {NoRef})
    BY <1>7 DEF ApplyHerd, serverVars
  <2>2. applied' \in 0 .. listings'
    BY <1>2, <2>1
  <2>3. focus' \in panes' \cup {NoRef} /\ panes' \subseteq Refs /\ forgotten' \subseteq Refs
    BY <1>2, <2>1
  <2> QED
    BY <1>2, <1>4, <2>1, <2>2, <2>3
<1>8. ASSUME NEW w \in Watches, WatchStarted(w) \/ PaneUpdate(w) \/ PaneExited(w) \/ WatchFailed(w)
      PROVE  DashTypeOK'
  BY <1>1, <1>2, <1>4, <1>8, WatchSteps
<1> QED
  BY <1>5, <1>6, <1>7, <1>8, StepCases

-----------------------------------------------------------------------------
(***************************************************************************)
(* The invariant.                                                          *)
(***************************************************************************)
\* It holds before anything is shown.
LEMMA InitInvariant == Init => DashInv
<1> SUFFICES ASSUME Init PROVE DashInv
  OBVIOUS
<1>1. DashTypeOK
  BY InitType
<1>2. HerdsInOrder
  BY DEF Init, HerdsInOrder
<1>3. \A w \in Watches : streams[w].phase = "none" /\ streams[w].delivered = 0
  BY DEF Init
<1>4. StreamInv
  <2>1. ASSUME NEW r \in Refs
        PROVE  \E n \in 0 .. MaxWatches[r] :
                 \A k \in 1 .. MaxWatches[r] : streams[<<r, k>>].phase # "none" <=> k <= n
    <3>1. 0 \in 0 .. MaxWatches[r] /\ \A k \in 1 .. MaxWatches[r] : ~(k <= 0)
      BY DashboardAssumption
    <3>2. \A k \in 1 .. MaxWatches[r] : streams[<<r, k>>].phase = "none"
      BY <1>3, WatchParts
    <3> QED
      BY <3>1, <3>2
  <2>2. ViewsFed
    BY <1>3 DEF ViewsFed, Init
  <2> QED
    BY <2>1, <2>2 DEF StreamInv, WatchesOpened, ViewsUnmixed, Init
<1>5. \A g \in Gens : fwd[g].phase = "none" /\ fwd[g].queue = <<>> /\ driven[g] = {}
  BY DEF Init, NoInput
<1>6. GensInv
  BY <1>5 DEF GensInv, Working, Init
<1>7. LocalInv
  <2>1. \A g \in Gens : Outgoing(fwd[g]) = <<>>
    BY <1>5 DEF Outgoing
  <2>2. 1 .. Len(<<>>) = {}
    <3>1. Len(<<>>) = 0
      BY EmptySeq
    <3> QED
      BY <3>1
  <2> QED
    BY <1>5, <2>1, <2>2 DEF LocalInv
<1>8. FocusInv
  BY DEF FocusInv, FocusIsLive, Init
<1>9. QueueInv
  BY <1>5 DEF QueueInv, Live, NoStrayKeys, Init
<1> QED
  BY <1>1, <1>2, <1>4, <1>6, <1>7, <1>8, <1>9 DEF DashInv, InputInv, DashTypeOK

\* And from then on.
LEMMA StepInvariant ==
  ASSUME DashInv, [Next]_vars
  PROVE  DashInv'
<1>1. DashTypeOK /\ HerdsInOrder /\ StreamInv /\ InputInv
  BY DEF DashInv
<1>2. InputInv'
  BY <1>1, InputStep
<1>3. HerdsInOrder'
  BY <1>1, HerdsStep
<1>4. StreamInv' /\ ViewTypeOK'
  BY <1>1, StreamStep
<1>5. DashTypeOK'
  BY <1>2, <1>4, TypeStep
<1> QED
  BY <1>2, <1>3, <1>4, <1>5 DEF DashInv

\* The invariant of every dashboard.
LEMMA DashboardInvariant == Spec => []DashInv
  BY InitInvariant, StepInvariant, PTL DEF Spec

-----------------------------------------------------------------------------
(***************************************************************************)
(* What the dashboard promises.                                            *)
(***************************************************************************)
\* Update keeps every view to a pane of the newest applied herd and every
\* queue within its buffer.
THEOREM DashboardTypeCorrect == Spec => []TypeOK
<1>1. DashInv => TypeOK
  BY DEF DashInv, DashTypeOK
<1> QED
  BY <1>1, DashboardInvariant, PTL

\* Messages of watches that a herd replaced, however late, never reach the
\* view of the watch that replaced them.
THEOREM ViewsNeverMix == Spec => []ViewsUnmixed
<1>1. DashInv => ViewsUnmixed
  BY DEF DashInv, StreamInv
<1> QED
  BY <1>1, DashboardInvariant, PTL

\* Whatever fails while a pane has focus takes the focus with it: a focused
\* pane has a live, sized view and an input generation to send on.
THEOREM FocusStaysLive == Spec => []FocusIsLive
<1>1. DashInv => FocusIsLive
  BY DEF DashInv, InputInv, FocusInv
<1> QED
  BY <1>1, DashboardInvariant, PTL

\* Every keystroke is sent behind the resize of the pane it is for, on the
\* same stream, with no restore between them.
THEOREM NoKeyStrays == Spec => []NoStrayKeys
<1>1. DashInv => NoStrayKeys
  BY DEF DashInv, InputInv, QueueInv
<1> QED
  BY <1>1, DashboardInvariant, PTL

\* An input stream with nothing left to send drives the focused pane and, but
\* for panes an outdated herd made the dashboard forget, no other.
THEOREM DrivenOnlyIfFocused == Spec => []DrivenIffFocused
<1>1. ASSUME DashInv, NEW g \in Gens, Settled(g)
      PROVE  driven[g] \cap (alive \ forgotten) = {r \in {focus} \cap alive : g = Current(HostOf[r])}
  <2>1. Live(g) /\ Outgoing(fwd[g]) = <<>> /\ Len(Outgoing(fwd[g])) = 0
    <3>1. Len(<<>>) = 0
      BY EmptySeq
    <3> QED
      BY <1>1, <3>1 DEF Settled, Live, Outgoing
  <2>2. StreamInOrder(g, <<>>)
    BY <1>1, <2>1 DEF DashInv, InputInv, QueueInv
  <2>3. alive \subseteq Refs /\ focus \notin forgotten
    BY <1>1 DEF DashInv, DashTypeOK, TypeOK, InputInv, FocusInv
  <2>4. ASSUME NEW r \in alive, Holds(g, r)
        PROVE  r \in driven[g]
    <3>1. PICK set : set = driven[g] \cup Dead
      OBVIOUS
    <3>2. Announced(set, <<>>, r, 0)
      BY <2>1, <2>2, <2>3, <2>4, <3>1 DEF StreamInOrder
    <3>3. r \in set
      BY <3>2, NoRequest
    <3> QED
      BY <3>1, <3>3 DEF Dead
  <2>5. ASSUME NEW r \in alive \ forgotten, ~Holds(g, r)
        PROVE  r \notin driven[g]
    <3>1. PICK set : set = driven[g]
      OBVIOUS
    <3>2. Released(set, <<>>, r, 0)
      BY <2>1, <2>2, <2>5, <3>1 DEF StreamInOrder
    <3> QED
      BY <3>1, <3>2, NoRequest
  <2> QED
    BY <2>3, <2>4, <2>5 DEF Holds
<1>2. DashInv => DrivenIffFocused
  BY <1>1 DEF DrivenIffFocused
<1> QED
  BY <1>2, DashboardInvariant, PTL

\* A step that retires a generation finds its own stream failed or its own
\* queue full.
LEMMA HealthyStep ==
  ASSUME DashInv, [Next]_vars, NEW h \in Hosts, inputs[h] # 0, inputs'[h] = 0
  PROVE  fwd[Current(h)].phase = "failed" \/ Stalled(h)
<1>1. inputs \in [Hosts -> 0 .. MaxGens] /\ \A r \in Refs : HostOf[r] \in Hosts
  BY DashboardAssumption DEF DashInv, DashTypeOK, InputTypeOK
<1>2. \A k \in Hosts : dropInput(k) => k = h
  BY <1>1 DEF dropInput
<1>3. ASSUME NEW kind, NEW newFocus, focus # NoRef, Send(kind, newFocus)
      PROVE  Stalled(h)
  <2>1. HostOf[focus] \in Hosts
    BY <1>1, <1>3 DEF DashInv, DashTypeOK, TypeOK
  <2> QED
    BY <1>2, <1>3, <2>1 DEF Send
<1>4. inputs' # inputs
  OBVIOUS
<1>5. WindowSize \/ Leader \/ Type => Stalled(h)
  BY <1>3, <1>4 DEF WindowSize, Leader, Type, unfocus
<1>6. ASSUME NEW r \in Refs, FocusSelected(r)
      PROVE  Stalled(h)
  <2>1. ~FocusNewInput(r)
    <3> SUFFICES ASSUME FocusNewInput(r) PROVE FALSE
      OBVIOUS
    <3>1. PICK k \in 1 .. MaxGens : inputs' = [inputs EXCEPT ![HostOf[r]] = k] /\ inputs[HostOf[r]] = 0
      BY DEF FocusNewInput
    <3>2. HostOf[r] # h
      BY <3>1
    <3> QED
      BY <1>1, <3>1, <3>2
  <2>2. FocusReusesInput(r)
    BY <1>6, <2>1 DEF FocusSelected
  <2> QED
    BY <1>1, <1>2, <1>4, <2>2 DEF FocusReusesInput
<1>7. ASSUME NEW w \in Watches, WatchStarted(w) \/ PaneUpdate(w) \/ PaneExited(w) \/ WatchFailed(w)
      PROVE  Stalled(h)
  <2>1. WatchFailed(w) /\ focus = w[1]
    BY <1>4, <1>7 DEF WatchStarted, PaneUpdate, PaneExited, WatchFailed
  <2>2. Send("restore", NoRef)
    BY <1>4, <2>1 DEF WatchFailed, unfocus
  <2>3. focus # NoRef
    BY <2>1, WatchParts, DashboardAssumption
  <2> QED
    BY <1>3, <2>2, <2>3
<1>8. ASSUME NEW g \in Gens, InputFailed(g)
      PROVE  fwd[Current(h)].phase = "failed"
  <2>1. dropInput(g[1]) /\ inputs[g[1]] = g[2] /\ fwd[g].phase = "failed"
    BY <1>4, <1>8 DEF InputFailed, IsCurrent
  <2>2. g[1] \in Hosts /\ g = <<g[1], g[2]>>
    BY GenParts
  <2>3. g[1] = h
    BY <1>2, <2>1, <2>2
  <2>4. Current(h) = g
    BY <2>1, <2>2, <2>3 DEF Current
  <2> QED
    BY <2>1, <2>4
<1>9. ~(Servers \/ FetchLists \/ Refresh \/ UNCHANGED vars)
  BY <1>4 DEF Servers, PaneOpens, PaneExits, FetchLists, Refresh, vars, modelVars
<1>10. \A g \in Gens : ~(ForwardOpens(g) \/ ForwardTakes(g) \/ ForwardSends(g) \/ ForwardSendFails(g))
  BY <1>4 DEF ForwardOpens, ForwardTakes, ForwardSends, ForwardSendFails, modelVars
<1>11. \A answer \in listed : ~ApplyHerd(answer)
  BY <1>4 DEF ApplyHerd
<1> QED
  BY <1>5, <1>6, <1>7, <1>8, <1>9, <1>10, <1>11 DEF Next, Commands, User, Messages

\* The late failure of a retired generation, or of another Host's, leaves a
\* healthy one alone.
THEOREM HealthyInputIsKept == Spec => HealthyInputKept
<1>1. DashInv /\ [Next]_vars =>
        [\A h \in Hosts : inputs[h] # 0 /\ inputs'[h] = 0 =>
           fwd[Current(h)].phase = "failed" \/ Stalled(h)]_vars
  BY HealthyStep
<1> QED
  BY <1>1, DashboardInvariant, PTL DEF Spec, HealthyInputKept
=============================================================================
