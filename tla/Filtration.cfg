SPECIFICATION Spec
VIEW View
CONSTANTS
  None = None
  Bindings = {b1}
  Requests = {1, 2, 3}
  Budget = 2
  Window = 2
  Sessions = {11, 12, 13, 14, 15}
  Circuits = {c1, c2}
  Epochs = {21, 22, 23, 24, 25, 26, 27, 28}
  Receipts = {r1}
  ThermalLeases = {t1}
  Purposes = {p1}
  MaxTime = 3
  MaxGeneration = 1
  Timeout = 1
  Environments = {
    {"thermal", "return", "lost", "orchestration"}, {"thermal", "return", "lost", "sanitation"},
    {"thermal", "unusable", "unload"}, {"thermal", "switch", "lost", "unload"},
    {"thermal", "lazy", "operator", "unload"}, {"switch", "orchestration", "lost"},
    {"unusable", "hard", "restart"}, {"drift", "spa", "lost", "stale"},
    {"suppress", "lost", "unload"}, {"idle", "thermal", "suppress"},
    {"circuit", "restart", "switch"}}
INVARIANTS
  TypeOK
  IdleMeansCurrent
  UnloadIsFinal
PROPERTIES
  ThermalIsUndisturbed
  ReenableIsTheOperators
  OneCommandAtATime
  DispatchIsEntitled
CHECK_DEADLOCK FALSE
