SPECIFICATION Spec
CONSTANTS
  Threads = {t1, t2}
  w1 = w1
  w2 = w2
  t1 = t1
  Weaks = {w1}
  Objects = {o1}
  Assignments = {}
  MaxLost = 0
INVARIANT PromotedIsAlive
