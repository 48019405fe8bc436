SPECIFICATION Spec
CONSTANTS
  MaxTexts = 1
  MaxFiles = 2
  HistoryMax = 2
  Button = {b1, b2}
  UserFiles = {}
  None = None
SYMMETRY Symmetry
INVARIANTS
  TypeOK
  MarkersAgree
  RowsTellTheTruth
  HeldIsShown
PROPERTIES
  SlotIsKept
