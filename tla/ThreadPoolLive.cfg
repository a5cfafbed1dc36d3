SPECIFICATION FairSpec
CONSTANTS
  Clients = {c1, c2}
  Workers = {w1, w2}
  Tasks = {t1, t2}
  Configs <- MCConfigs
  CreateFails = FALSE
PROPERTIES
  AcceptedTaskEnds
  ShutdownReturns
  WaitReturns
CHECK_DEADLOCK FALSE
