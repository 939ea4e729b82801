CONSTANTS
  a = a
  b = b
  ours = ours
  theirs = theirs
  Hosts = {a, b}
  Texts = {ours, theirs}
  Ours = {ours}
  RoomOf <- Room
  Typed <- Addresses
  MaxLookups = 2
  Clicks = {c1}
  Bad = Bad
  Null = Null
  Dash = Dash
  Unknown = Unknown
SPECIFICATION FairSpec
PROPERTIES
  AbsenceIsKnown
  CountOfItsRoom
  AskingEnds
CHECK_DEADLOCK FALSE
