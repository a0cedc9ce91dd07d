---------------------------- MODULE MCCatpSystem ----------------------------
(***************************************************************************)
(* A sender and a silent one for TLC, in epochs of two ticks, of which     *)
(* every second shares its low bits, and replay windows of one entry. The  *)
(* collector's clock is one tick behind.                                   *)
(***************************************************************************)
EXTENDS CatpSystem

CONSTANTS s1, s2, stranger

\* The difference of the clocks.
Behind == -1
=============================================================================
