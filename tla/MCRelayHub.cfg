SPECIFICATION FairSpec
CONSTANTS
  s1 = s1
  r1 = r1
  r2 = r2
  SourceConn = {s1}
  RecipientConn = {r1, r2}
  Capacity = 1
  MaxBytes = 2
  MaxFrames <- MCFrames
  None = None
CHECK_DEADLOCK FALSE
INVARIANTS
  TypeOK
  PipeIsFaithful
  NoOrphanRoom
  SecondOnlyAfterALeave
PROPERTIES
  RoomsAreFreed
  FullDuplex
