--------------------------- MODULE ControlParser ---------------------------
(***************************************************************************)
(* The parser of the control-mode stream (internal/tmuxctl/parse.go), and  *)
(* the escaping of pane output that it reverses.                           *)
(*                                                                         *)
(* A line is its first word, the number of the block it delimits and its   *)
(* bytes.  parser is a pure state machine: feed takes its state and a line *)
(* to the next state, the events and the replies the line completes.       *)
(***************************************************************************)
EXTENDS Integers, Sequences, FiniteSetsExt, Functions

Line(word, num, data) == [word |-> word, num |-> num, data |-> data]

-----------------------------------------------------------------------------
(***************************************************************************)
(* decodeOutput.                                                           *)
(***************************************************************************)
Backslash == 92

\* a, b, f, n, r, t, v after a backslash.
CEscape == [c \in {97, 98, 102, 110, 114, 116, 118} |->
              CASE c = 97  -> 7  [] c = 98  -> 8  [] c = 102 -> 12 [] c = 110 -> 10
                [] c = 114 -> 13 [] c = 116 -> 9  [] c = 118 -> 11]

IsOctal(c) == c \in 48 .. 55

Digits(s, k) == k < Len(s) /\ \A j \in 2 .. k + 1 : IsOctal(s[j])

OctalLengthAny(s) == Max({k \in 1 .. Len(s) : Digits(s, k)})   \* mutant: digits past the third count

\* The digits, up to three, of the octal escape at the head of s.
OctalLength(s) == Max({k \in 1 .. 3 : Digits(s, k)})

\* b<<3 on a byte.
OctalValue(digits) ==
  LET V[i \in 0 .. Len(digits)] == IF i = 0 THEN 0 ELSE (8 * V[i - 1] + digits[i] - 48) % 256
  IN V[Len(digits)]

Rest(s, n) == SubSeq(s, n + 1, Len(s))

decodeOutput[s \in Seq(0 .. 255)] ==
  IF s = <<>> THEN <<>>
  ELSE IF Head(s) # Backslash \/ Len(s) = 1 THEN <<Head(s)>> \o decodeOutput[Tail(s)]
  ELSE IF IsOctal(s[2])
       THEN <<OctalValue(SubSeq(s, 2, 1 + OctalLength(s)))>> \o decodeOutput[Rest(s, 1 + OctalLength(s))]
  ELSE IF s[2] = Backslash THEN <<Backslash>> \o decodeOutput[Rest(s, 2)]
  ELSE IF s[2] \in DOMAIN CEscape THEN <<CEscape[s[2]]>> \o decodeOutput[Rest(s, 2)]
  ELSE <<Backslash, s[2]>> \o decodeOutput[Rest(s, 2)]

\* " : "
Delimiter == <<32, 58, 32>>

\* The value of a %extended-output line is what follows the first delimiter.
splitExtendedOutput(tail) ==
  LET at == {i \in 1 .. Len(tail) - 2 : SubSeq(tail, i, i + 2) = Delimiter}
  IN IF at = {} THEN <<>> ELSE SubSeq(tail, Min(at) + 3, Len(tail))

-----------------------------------------------------------------------------
(***************************************************************************)
(* parser.                                                                 *)
(***************************************************************************)
Outside == [inReply |-> FALSE, num |-> 0, body |-> <<>>]

\* The notifications that have an event of their own; the rest is "unknown".
Event(line) ==
  CASE line.word = "output"   -> [kind |-> "output", data |-> decodeOutput[line.data]]
    [] line.word = "extended" -> [kind |-> "output", data |-> decodeOutput[splitExtendedOutput(line.data)]]
    [] line.word \in {"pause", "continue", "exit", "topology"} -> [kind |-> line.word, data |-> line.data]
    [] OTHER -> [kind |-> "unknown", data |-> line.data]

ClosesAny(p, line) == line.word \in {"end", "error"}   \* mutant: the number is not compared

\* Only the delimiter with the block's own number closes it.
Closes(p, line) == line.word \in {"end", "error"} /\ line.num = p.num

feed(p, line) ==
  CASE p.inReply /\ Closes(p, line) ->
         [p |-> Outside, events |-> <<>>,
          replies |-> <<[lines |-> p.body, err |-> line.word = "error"]>>]
    [] p.inReply /\ ~Closes(p, line) ->
         [p |-> [p EXCEPT !.body = Append(@, line)], events |-> <<>>, replies |-> <<>>]
    [] ~p.inReply /\ line.word = "begin" ->
         [p |-> [inReply |-> TRUE, num |-> line.num, body |-> <<>>], events |-> <<>>, replies |-> <<>>]
    [] OTHER -> [p |-> p, events |-> <<Event(line)>>, replies |-> <<>>]

-----------------------------------------------------------------------------
(***************************************************************************)
(* What tmux writes (external).                                            *)
(***************************************************************************)
Octal(b) == <<Backslash, 48 + (b \div 64), 48 + ((b \div 8) % 8), 48 + (b % 8)>>

CStyle(b) == <<Backslash, CHOOSE c \in DOMAIN CEscape : CEscape[c] = b>>

\* Printable text and, in C style, the bytes of valid UTF-8 are not escaped.
Plain(b, style) ==
  \/ b \in 32 .. 126 /\ b # Backslash
  \/ style = "cstyle" /\ b > 127

\* Three octal digits for whatever is not plain, or the shorter C forms of the
\* bytes that have one.
Escape(b, style) ==
  IF Plain(b, style) THEN <<b>>
  ELSE IF style = "octal" THEN Octal(b)
  ELSE IF b = Backslash THEN <<Backslash, Backslash>>
  ELSE IF b \in Range(CEscape) THEN CStyle(b)
  ELSE Octal(b)

Encode(bytes, style) ==
  LET E[i \in 0 .. Len(bytes)] == IF i = 0 THEN <<>> ELSE E[i - 1] \o Escape(bytes[i], style)
  IN E[Len(bytes)]

\* A block of a command's reply, written as one unit.
Block(num, body, err) ==
  <<Line("begin", num, <<>>)>> \o body \o <<Line(IF err THEN "error" ELSE "end", num, <<>>)>>
=============================================================================
