SPECIFICATION Spec
CONSTANTS
  Device = {d1, d2, d3}
  Name = {n1}
  Code = {c1}
  Worker = {w1, w2}
  Ttl = 0
  MaxTime = 1
  None = None
SYMMETRY Symmetry
INVARIANTS
  TypeOK
  TrustIsHandedOn
PROPERTIES
  TrustLostOnlyToStaleRename
