------------------------------ MODULE MCTunnel ------------------------------
(* Instances of Tunnel for TLC. *)
EXTENDS Tunnel

CONSTANTS s1, s2, p1, p2
=============================================================================
