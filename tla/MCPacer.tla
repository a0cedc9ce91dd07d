------------------------------- MODULE MCPacer -------------------------------
(***************************************************************************)
(* Pacer for TLC: epochs of 2 seconds, 2 ticks a second and a platform     *)
(* clock of 3 units a second, so that a tick lasts one unit or two. The    *)
(* clock covers three epochs.                                              *)
(***************************************************************************)
EXTENDS Pacer
=============================================================================
