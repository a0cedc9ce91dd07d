----------------------------- MODULE MCColdStart -----------------------------
(***************************************************************************)
(* ColdStart for TLC: epochs of 3 seconds of one tick each, requests every *)
(* 1, 2, 3, 3, ... seconds, one boot after the first.                      *)
(***************************************************************************)
EXTENDS ColdStart
=============================================================================
