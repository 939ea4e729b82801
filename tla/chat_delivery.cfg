CONSTANTS
  event1 = event1
  event2 = event2
  message = message
  viewer1 = viewer1
  viewer2 = viewer2
  chatter = chatter
  Events = {event1, event2}
  Msgs = {message}
  Author <- AuthorOf
  PoolCap = 1
  MaxRooms = 2
  MaxArrivals = 2
  MaxLapses = 1
  MaxRestarts = 1
SYMMETRY Swap
SPECIFICATION Spec
INVARIANTS
  TypeOK
  
  ChainMoves
  ClosedQuiet
  PublishedIsStored
PROPERTIES
  ImplementsDelivery
CHECK_DEADLOCK FALSE
