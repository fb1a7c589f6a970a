SPECIFICATION Spec
CONSTANTS
  t1 = t1
  t2 = t2
  t3 = t3
  o1 = o1
  o2 = o2
  j1 = j1
  j2 = j2
  j3 = j3
  Thread = {t1, t2, t3}
  Object = {o1, o2}
  nullptr = nullptr
  Job = {j1, j2, j3}
  Owner <- MCOwner
INVARIANTS SingleConsumer NoDangling Referenced
PROPERTIES IsSerial EveryJobRuns
