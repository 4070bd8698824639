--------------------------- MODULE MCInputService ---------------------------
(* Instances of InputService for TLC. *)
EXTENDS InputService

CONSTANTS s1, p1

\* A multi-byte character, a blank and DEL: a quoted run and one of hex.
MCText == {<<195, 169, 32, 127>>}

\* That, and a tilde with a name.
MCKeyData == MCText \cup {<<126, 98>>}

\* tmux's home directory, in two bytes.
MCHome == <<47, 114>>
=============================================================================
