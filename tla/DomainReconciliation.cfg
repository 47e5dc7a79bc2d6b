SPECIFICATION FairSpec
CONSTANTS
  Bindings = {b1, b2}
  Requests = {r1, r2, r3}
  Budget = 2
  Window = 2
  None = None
  MaxTime = 4
INVARIANTS TypeOK
PROPERTIES ConvergenceIsCausal KeepsPromise EpisodeSettles
