-------------------------- MODULE MCControlClient --------------------------
(***************************************************************************)
(* TLC instance of ControlClient: the two commands of Attach, a            *)
(* two-command seed of the watcher and an injection of a SendInput stream. *)
(***************************************************************************)
EXTENDS ControlClient

CONSTANTS probe, flow, seed, keys

MCCallLen == [c \in Calls |-> IF c = seed THEN 2 ELSE 1]

MCAttach == <<probe, flow>>

\* Edges of the escaping: a backslash and a high byte before digits, a newline,
\* the delimiter.
MCOutputs == <<<<92, 49, 10, 32, 58, 32, 255, 55>>>>
=============================================================================
