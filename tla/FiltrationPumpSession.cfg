SPECIFICATION Spec
CONSTANTS
  None = None
  Sessions = {11, 12, 13, 14, 15}
  Requests = {21, 22, 23, 24, 25, 26, 27}
  Purposes = {"ordinary", "solar"}
  Speeds = {1, 2, 3}
  Baseline <- PumpBaseline
  Ttl = 1
  Fresh = 0
  InFlight = 1
  Environments = {{"unit"}}
INVARIANTS
  FiltrationIsCurrent
