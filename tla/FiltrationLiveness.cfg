SPECIFICATION FairSpec
VIEW View
CONSTANTS
  None = None
  Bindings = {b1}
  Requests = {1, 2, 3}
  Budget = 2
  Window = 2
  Sessions = {11, 12, 13, 14, 15}
  Circuits = {c1}
  Epochs = {21, 22, 23, 24, 25, 26, 27, 28}
  Receipts = {r1}
  ThermalLeases = {t1}
  Purposes = {p1}
  MaxTime = 3
  MaxGeneration = 1
  Timeout = 1
  Environments = {{"idle", "lost"}, {"idle", "orchestration"}, {"idle", "suppress"}, {"lost", "drift"}, {"lost", "stale"}}
PROPERTIES
  AttemptSettles
  CleanupEnds
