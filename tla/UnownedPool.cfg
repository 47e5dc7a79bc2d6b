SPECIFICATION Spec
CONSTANTS
  None = None
  Tokens = {1, 2, 3, 4, 5}
  Limit = 2
  Ttl = 3
  Confirmation = 2
  Fresh = 1
  Sensors = {"real", "simulated"}
  Real = {"real"}
  OutageEpochs = {1, 2, 3, 4, 5, 6}
  Timeout = 2
  Environments <- UnownedPool
PROPERTIES
  ExternalPoolIsLeft
