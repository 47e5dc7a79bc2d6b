SPECIFICATION Spec
CONSTANTS
  None = None
  Tokens = {1, 2, 3, 4, 5, 6, 7, 8, 9}
  Limit = 2
  Ttl = 1
  Environments <- GatewayEnvironments
INVARIANTS
  TypeOK
  ExplainedWasSent
PROPERTIES
  WithdrawnIsNeverSent
  RestraintOutlivesRestart
