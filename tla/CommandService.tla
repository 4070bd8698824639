--------------------------- MODULE CommandService ---------------------------
(***************************************************************************)
(* What the control-mode client promises its callers, the watcher and the  *)
(* input service (the comments of CommandsSeq and CommandSeq in            *)
(* internal/tmuxctl/client.go): the commands of one call run back to back  *)
(* at one position of the output, at most once and only after they were    *)
(* asked for; a call that succeeds ran to its end, and the barrier it      *)
(* returns is that position; and every call returns.                       *)
(***************************************************************************)
EXTENDS Integers

CONSTANTS Calls, CallLen

VARIABLES
  state,     \* each call: "idle" | "waiting" | "ok" | "failed"
  screen,    \* output the screen has taken
  ran,       \* commands of a call that ran without error; -1 before it runs
  at,        \* the screen when it ran
  barrier    \* output that precedes the reply, as the caller was told

vars == <<state, screen, ran, at, barrier>>

Init ==
  /\ state = [c \in Calls |-> "idle"] /\ screen = 0
  /\ ran = [c \in Calls |-> -1] /\ at = [c \in Calls |-> 0]
  /\ barrier = [c \in Calls |-> 0]

Ask(c) ==
  /\ state[c] = "idle" /\ state' = [state EXCEPT ![c] = "waiting"]
  /\ UNCHANGED <<screen, ran, at, barrier>>

\* The whole line runs, up to an error of one of its commands; the caller may
\* have left.
Run(c) ==
  /\ state[c] # "idle" /\ ran[c] = -1
  /\ \E n \in 0 .. CallLen[c] : ran' = [ran EXCEPT ![c] = n]
  /\ at' = [at EXCEPT ![c] = screen]
  /\ UNCHANGED <<state, screen, barrier>>

Output ==
  /\ screen' = screen + 1
  /\ UNCHANGED <<state, ran, at, barrier>>

Succeed(c) ==
  /\ state[c] = "waiting" /\ ran[c] = CallLen[c]
  /\ state' = [state EXCEPT ![c] = "ok"]
  /\ barrier' = [barrier EXCEPT ![c] = at[c]]
  /\ UNCHANGED <<screen, ran, at>>

\* The error of a command, the end of tmux, the caller's context.
Fail(c) ==
  /\ state[c] = "waiting"
  /\ state' = [state EXCEPT ![c] = "failed"]
  /\ UNCHANGED <<screen, ran, at, barrier>>

Return(c) == Succeed(c) \/ Fail(c)

Next == Output \/ \E c \in Calls : Ask(c) \/ Run(c) \/ Return(c)

SafetySpec == Init /\ [][Next]_vars

Spec == SafetySpec /\ \A c \in Calls : WF_vars(Return(c))
=============================================================================
