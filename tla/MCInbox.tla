------------------------------ MODULE MCInbox ------------------------------
(* Instances of Inbox for TLC. *)
EXTENDS Inbox, TLC

\* The buttons' tasks are told apart by equality only.
Symmetry == Permutations(Button)
=============================================================================
