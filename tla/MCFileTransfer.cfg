SPECIFICATION FairSpec
CONSTANTS
  Token = {t1}
  Device = {src, d1}
  Source = src
  KeySets = {{src, d1}}
  Worker = {w1, w2}
  FileCount = 2
  Ttl = 1
  MaxTime = 1
  MaxChunks = 2
  None = None
  Attempt = {a1, a2}
  Recipient = d1
  Stray = {d1}
INVARIANTS
  TypeOK
  OneAttemptPerFile
  ReceivedIsSpent
PROPERTIES
  RelayBounded
