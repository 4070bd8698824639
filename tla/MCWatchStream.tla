--------------------------- MODULE MCWatchStream ---------------------------
(***************************************************************************)
(* TLC instances of WatchStream.  The pane is one row of one or two cells; *)
(* a write either fills the first cell, or blanks it and fills the second  *)
(* (clipped when the pane is one cell wide).                               *)
(***************************************************************************)
EXTENDS WatchStream, TLC

CONSTANT s1

MCSizes == {<<1, 1>>, <<2, 1>>}
MCInitSize == <<2, 1>>
MCCells == {"blank", "x"}
MCCursors == {0, 1}
MCData == { [patch |-> (<<0, 0>> :> "x"), cursor |-> 0],
            [patch |-> (<<0, 0>> :> "blank" @@ <<1, 0>> :> "x"), cursor |-> 1] }
=============================================================================
