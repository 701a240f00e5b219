SPECIFICATION FairSpec
CONSTANTS
  t1 = t1  t2 = t2  t3 = t3  t4 = t4  t5 = t5  w1 = w1  w2 = w2  w3 = w3
  NoTask = NoTask
  Tasks = {t1, t2, t3, t4, t5}
  Local = {t1}
  Mirrors = TRUE
  Enforced = TRUE
  Allowed = {t3}
  Workers = {w1, w2, w3}
  MaxDeaths = 2
INVARIANTS Partition
PROPERTIES Returns Implements
CHECK_DEADLOCK FALSE
