-------------------------------- MODULE Grid --------------------------------
(***************************************************************************)
(* The cell grid of internal/grid: the value the render pipeline diffs,    *)
(* the wire carries as damage and the Client rebuilds.                     *)
(*                                                                         *)
(* A grid is a record [w, h, cells], cells a function on the positions of  *)
(* a w x h screen.  A damage batch ([]CellPatch) is a function from the    *)
(* patched positions to their new cells: Diff and Snapshot emit at most    *)
(* one patch per position, so the order of a batch carries no information. *)
(***************************************************************************)
EXTENDS Integers

CONSTANTS
  Cells,        \* what one character cell can hold
  Blank         \* the zero Cell{}: what a fresh grid is filled with

ASSUME BlankAssumption == Blank \in Cells

\* A size <<w, h>> in cells; negative dimensions never reach a grid.
Size == Nat \X Nat

Positions(sz) == (0 .. sz[1] - 1) \X (0 .. sz[2] - 1)

Grids(sz) == [w: {sz[1]}, h: {sz[2]}, cells: [Positions(sz) -> Cells]]

SizeOf(g) == <<g.w, g.h>>

\* A grid of the given size with every cell default.
New(sz) == [w |-> sz[1], h |-> sz[2], cells |-> [p \in Positions(sz) |-> Blank]]

\* Apply every patch of a batch; patches outside the grid are ignored (Set).
Apply(g, patch) ==
  [w |-> g.w, h |-> g.h,
   cells |-> [p \in Positions(SizeOf(g)) |->
                IF p \in DOMAIN patch THEN patch[p] ELSE g.cells[p]]]

\* Reshape to sz, keeping the overlap and defaulting the exposed cells.
Resize(g, sz) ==
  [w |-> sz[1], h |-> sz[2],
   cells |-> [p \in Positions(sz) |->
                IF p \in Positions(SizeOf(g)) THEN g.cells[p] ELSE Blank]]

\* One patch per non-default cell: what a blank grid needs to become g.
Snapshot(g) ==
  [p \in {q \in Positions(SizeOf(g)) : g.cells[q] # Blank} |-> g.cells[p]]

\* The patches that turn prev into next.  The sizes must agree: the code
\* panics otherwise (RenderPipeline's ShadowFits).
Diff(prev, next) ==
  [p \in {q \in Positions(SizeOf(next)) : next.cells[q] # prev.cells[q]} |->
     next.cells[p]]
=============================================================================
