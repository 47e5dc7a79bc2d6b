SPECIFICATION Spec
VIEW View
CONSTANTS
  None = None
  Tokens = {1, 2}
  Sessions = {1, 2}
  Limit = 1
  Ttl = 1
  Duration = 3
  Gap = 2
  Grain = 2
  MaxSaves = 2
  Environments <- SanitationEnvironments
INVARIANTS
  TypeOK
  CancelIsDurable
  AuthorityFollowsSession
PROPERTIES
  EarnedOnly
  EndedSessionSendsNothing
  SessionEnds
