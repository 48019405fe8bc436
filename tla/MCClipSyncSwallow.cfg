SPECIFICATION Spec
CONSTANTS
  a = a
  b = b
  me = me
  other = other
  Text = {a, b}
  NoText = NoText
  Sensitive = {}
  Me = me
  Other = other
  Event <- MCEvent
  Capacity = 1
  WireMax = 1
  MaxEvents = 3
PROPERTIES
  EveryCopyIsPublished
