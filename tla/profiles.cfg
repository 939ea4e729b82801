CONSTANTS
  k1 = k1
  k2 = k2
  Keys = {k1, k2}
  Surfaces = {k1}
  Callers = {k2}
  Refreshable = {k2}
  Base = 2
  Cap = 2
  SlowLane = 2
  FastAttempts = 1
  MaxCacheSize = 1
  MaxAttempts = 3
SPECIFICATION Spec
INVARIANTS
  TypeOK
  DisjointBatches
  KnownIsKept
  CoolingIsTimed
  FreshIsAsked
