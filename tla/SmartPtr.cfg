SPECIFICATION Spec
CONSTANTS
  Threads = {t1, t2}
  w1 = w1
  w2 = w2
  t1 = t1
  Weaks = {w1, w2}
  Objects = {o1}
  MaxLost = 1
  Assignments <- OneWay
INVARIANTS
  TypeOK
  WeakCountExact
  CounterOutlivesUsers
  NoCounterLeak
  StrongPtrsAreAlive
PROPERTY OperationsReturn
