--------------------------- MODULE MCProvisioning ---------------------------
(***************************************************************************)
(* Two nodes, of ids 0x11 and 0x12, and the reserved id 0. An operator may *)
(* reissue in place, to a file that sorts before all others, or to one     *)
(* outside of the collector's directory.                                   *)
(***************************************************************************)
EXTENDS Provisioning, TLC

MCIds == {0, 17, 18}
MCNodePath == 0 :> 1 @@ 17 :> 3 @@ 18 :> 4
MCOtherPaths == {2, 5}
MCListed == {1, 2, 3, 4}
MCCiphers == {0, HmacSha256T32}
MCLayouts == <<<<2, 35>>>>
=============================================================================
