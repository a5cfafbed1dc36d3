SPECIFICATION Spec
CONSTANTS
  Clients = {c1, c2}
  Workers = {w1, w2}
  Tasks = {t1, t2, t3, t4}
  Configs <- MCConfigs
  CreateFails = TRUE
SYMMETRY Symmetry
INVARIANTS
  TypeOK
  CountersAgree
  OnePlacePerTask
  CapacityBound
  CheckNeverFails
  NoLostWakeup
  WaiterStrandedOnlyByShutdown
  QuiescentAfterShutdown
PROPERTY ExecutorSpec
CHECK_DEADLOCK FALSE
