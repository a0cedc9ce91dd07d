---------------------------- MODULE MCReplayWindow ----------------------------
(***************************************************************************)
(* ReplayWindow for TLC: a bitmap of 4 entries over 10 offsets, so that a  *)
(* slide may be shorter than, equal to and longer than the bitmap and the  *)
(* ring wraps more than twice.                                             *)
(***************************************************************************)
EXTENDS ReplayWindow
=============================================================================
