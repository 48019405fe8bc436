---------------------------- MODULE MCDeviceStore ----------------------------
(* Instances of DeviceStore for TLC. *)
EXTENDS DeviceStore, TLC

Symmetry == Permutations(Device) \cup Permutations(Worker)
=============================================================================
