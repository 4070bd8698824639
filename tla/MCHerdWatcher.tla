--------------------------- MODULE MCHerdWatcher ---------------------------
(* TLC instances of HerdWatcher. *)
EXTENDS HerdWatcher, TLC

CONSTANTS p1, p2
=============================================================================
