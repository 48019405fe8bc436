--------------------------- MODULE MCFileTransfer ---------------------------
(* Instances of FileTransfer for TLC. *)
EXTENDS FileTransfer, TLC

\* Attempts and workers are told apart by equality only.
Symmetry == Permutations(Attempt) \cup Permutations(Worker)
=============================================================================
