SPECIFICATION Spec
CONSTANTS
  NULL = NULL
  Obj = {o1, o2, o3, o4}
  MAX_THREAD_NUM = 3
  MaxInt = 1
  SleepArgs = {0, 1}
SYMMETRY Symmetry
INVARIANTS TypeOK QueueDiscipline IdTable NoDanglingThread MainStaysQueued
PROPERTIES NoOvertaking QuantumAccounting
