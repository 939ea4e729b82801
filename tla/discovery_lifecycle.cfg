CONSTANTS
  a = a
  b = b
  p = p
  q = q
  Instances = {a}
  Seedable = {a}
  Listable = {a}
  Handled = {}
  Profiles = {p,q}
  StartStamps = {}
  MaxFailures = 1
  MaxCount = 2
  DefaultEnabled = TRUE
  MaxRejects = 1
  MaxAborts = 1
  MaxRetracts = 0
SPECIFICATION FairSpec
PROPERTIES
  ShownLive
  TornDown
INVARIANTS
  HashMatchesRelay
