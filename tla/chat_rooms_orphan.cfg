CONSTANTS
  u1 = u1
  u2 = u2
  t1 = t1
  t2 = t2
  Urls = {u1}
  Tasks = {t1, t2}
SPECIFICATION Spec
INVARIANTS
  NoOrphanListener
