----------------------------- MODULE MCPeerState -----------------------------
(***************************************************************************)
(* PeerState for TLC: epochs of 2 milliseconds, of which epochs 0 and 2    *)
(* share their low bits, and windows of 2 entries over 3 offsets.          *)
(***************************************************************************)
EXTENDS PeerState

\* Sound datagrams, forgeries, ones too long for the staging buffer, and authentic
\* ones that do not frame.
CommonFlaws == {{}, {"cipher", "mac"}, {"oversize"}, {"framing"}}

\* Sound datagrams and forgeries alone.
ForgedFlaws == {{}, {"mac"}}
=============================================================================
