SPECIFICATION Spec
CONSTANTS
  Token = {t1}
  Device = {src, d1}
  Source = src
  KeySets = {{src, d1}}
  Worker = {w1}
  FileCount = 1
  Ttl = 1
  MaxTime = 1
  MaxChunks = 1
  None = None
INVARIANTS
  ReservationsAreLive
