---------------------------- MODULE MCPeerQuorum ----------------------------
(* Instances of PeerQuorum for TLC. *)
EXTENDS PeerQuorum

CONSTANTS p1, p2

=============================================================================
