SPECIFICATION Spec
CONSTANTS
  Process = {p1, p2}
  Task = {t1, t2}
  None = None
  Server = {s1, s2}
  Default = s1
  MaxUses = 2
CONSTRAINT NoServerOfTwoTrays
SYMMETRY Symmetry
INVARIANTS
  TypeOK
  RightServer
  StatusIsTrue
PROPERTIES
  CodeIsTriedFirst
