----------------------------- MODULE MCRelayHub -----------------------------
(* Instances of RelayHub for TLC. *)
EXTENDS RelayHub, TLC

CONSTANTS s1, r1, r2

\* One client exceeds the budget, one exhausts it, one only listens.
MCFrames == s1 :> 3 @@ r1 :> 2 @@ r2 :> 0
=============================================================================
