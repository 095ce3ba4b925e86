SPECIFICATION Spec
CONSTANTS
  Agents = 2
  RetriesMax = 1
  MaxEpoch = 4
  MaxEnvs = 2
  MaxUpsets = 1
  Levers = {"detach"}
INVARIANTS
  OneLiveLease
