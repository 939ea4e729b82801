CONSTANTS
  list = list
  profile = profile
  r1 = r1
  r2 = r2
  s1 = s1
  s2 = s2
  Keys = {list, profile}
  Exempt = {profile}
  Primary = {r1}
  Fallback = {r2}
  CacheSize = 1
  Slots = {s1, s2}
  MaxVersion <- TwoLists
SPECIFICATION Spec
SYMMETRY SlotPerms
INVARIANTS
  TypeOK
  PublishedIsSeen
  CachedIsStored
PROPERTIES
  MissIsWitnessed
