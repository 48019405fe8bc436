SPECIFICATION FairSpec
CONSTANTS
  a = a
  b = b
  me = me
  other = other
  Text = {a, b}
  NoText = NoText
  Sensitive = {b}
  Me = me
  Other = other
  Event <- MCEvent
  Capacity = 1
  WireMax = 2
  MaxEvents = 2
INVARIANTS
  TypeOK
  EchoNeedsOverlap
PROPERTIES
  AppliedInOrder
  Delivered
