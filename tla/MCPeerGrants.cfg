SPECIFICATION Spec
CONSTANTS
  Token = {t1, t2}
  Device = {src, d1}
  Source = src
  KeySets = {{src, d1}}
  Worker = {w1, w2}
  FileCount = 2
  Ttl = 1
  MaxTime = 1
  MaxChunks = 1
  None = None
SYMMETRY Symmetry
INVARIANTS
  TypeOK
  OneTransferPerFile
  DeliveredAtMostOnce
  ReservationsAccountedFor
PROPERTIES
  OnlyTheHolderSettles
  ImplementsPromise
