CONSTANTS
  a = a
  b = b
  p = p
  q = q
  Instances = {a}
  Seedable = {a}
  Listable = {a}
  Handled = {a}
  Profiles = {p}
  StartStamps = {}
  MaxFailures = 2
  MaxCount = 3
  DefaultEnabled = TRUE
  MaxRejects = 1
  MaxAborts = 1
  MaxRetracts = 1
SPECIFICATION Spec
INVARIANTS
  FailureBudget
  QuietWhenOff
  RowMatchesRelay
  CleanRetractionStands
