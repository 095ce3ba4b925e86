SPECIFICATION FairSpec
CONSTANTS
  Agents = 1
  RetriesMax = 1
  MaxEpoch = 4
  MaxEnvs = 2
  MaxUpsets = 2
  Levers = {"stop", "detach", "pause", "restart", "requeue", "rival"}
PROPERTIES
  EndedFreesEnvironment
  HeldIsDriven
