--------------------------- MODULE MCCryptoWebRTC ---------------------------
(* Instances of the mesh for TLC.  The nodes are interchangeable, and what is *)
(* checked says what no state and no step may do.                             *)
EXTENDS CryptoWebRTC, TLC

Symmetry == Permutations(Nodes)

=============================================================================
