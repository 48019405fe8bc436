------------------------------- MODULE MCTray -------------------------------
(* Instances of Tray for TLC: processes are interchangeable, and so are tasks. *)
EXTENDS Tray, TLC

Symmetry == Permutations(Process) \cup Permutations(Task)

AtWork(p) == proc[p].ui \in {"on", "clear", "relaunch"}

\* Bound: of two trays at work neither runs a server; one about to exit may.
NoServerOfTwoTrays ==
  (\E p, q \in Process : p # q /\ AtWork(p) /\ AtWork(q)) =>
    \A t \in Task : Unused(t)
=============================================================================
