---------------------------- MODULE MCPeerGrants ----------------------------
(* Instances of PeerGrants for TLC. *)
EXTENDS PeerGrants, PeerGrantsInv, TLC

\* Neither a token nor a worker is told from another by anything but equality.
Symmetry == Permutations(Token) \cup Permutations(Worker)
=============================================================================
