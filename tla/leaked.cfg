SPECIFICATION FairSpec
CONSTANTS
  Agents = 1
  RetriesMax = 1
  MaxEpoch = 3
  MaxEnvs = 1
  MaxUpsets = 1
  Levers = {}
PROPERTIES
  ExitSettles
