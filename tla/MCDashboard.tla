---------------------------- MODULE MCDashboard ----------------------------
(* An instance of Dashboard for TLC: two panes of one Host. *)
EXTENDS Dashboard

CONSTANTS r1, r2, h1

MCHostOf == [r \in Refs |-> h1]

\* One of them has streams long enough to be interleaved, and a second watch.
MCMaxUpdates == [r \in Refs |-> IF r = r1 THEN 2 ELSE 1]
MCMaxWatches == [r \in Refs |-> IF r = r1 THEN 2 ELSE 1]
=============================================================================
