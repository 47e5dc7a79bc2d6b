SPECIFICATION RegistrySpec
CONSTANTS
  None = None
  Bindings = {b1}
  Requests = {q1}
  Budget = 2
  Window = 2
  Sessions = {s1, s2}
  Circuits = {c1}
  Epochs = {e1, e2}
  Receipts = {r1, r2}
  ThermalLeases = {t1}
  Purposes = {p1}
  MaxTime = 1
  MaxGeneration = 2
SYMMETRY Symmetry
INVARIANTS RegistryTypeOK SingleOwner LeaseNeverRefused TokenHasItsDonor
PROPERTIES GenerationsNeverReused TransferIsEarned OperatorKeepsDomain
