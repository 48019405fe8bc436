SPECIFICATION Spec
CONSTANTS
  Slot = {r1, r2}
  Request = {q1}
  Drift <- MCDrift
  Skew = 1
  Ttl = 1
  MaxTime = 2
  None = None
  Clip = {c1, c2}
  Session = {s1}
  Life = {1}
SYMMETRY Symmetry
INVARIANTS
  TypeOK
  ToldOfWhatIsStored
  AnswersAreFresh
PROPERTIES
  RepeatsAreRefused
  TextIsLostOnlyToOverlap
