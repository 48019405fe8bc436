----------------------------- MODULE MCClipSync -----------------------------
(* Instances of ClipSync for TLC. *)
EXTENDS ClipSync

CONSTANTS a, b, me, other

MCEvent == [from : {me, other}, text : {a, b}]
=============================================================================
