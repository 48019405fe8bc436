---------------------------- MODULE MCClipStore ----------------------------
(* Instances of ClipStore for TLC. *)
EXTENDS ClipStore, TLC

MCDrift == {-1, 0, 1}

Symmetry == Permutations(Slot) \cup Permutations(Request) \cup Permutations(Clip)
=============================================================================
