SPECIFICATION Spec
CONSTANTS
  Agents = 1
  RetriesMax = 1
  MaxEpoch = 4
  MaxEnvs = 2
  MaxUpsets = 3
  Levers = {"stop", "detach", "pause", "restart", "requeue", "rival"}
INVARIANTS
  TypeOK
  OneLiveLease
  OneProcess
  NoForgottenWorker
  ClosedMeansLanded
PROPERTIES
  KeepsFence
  EnvHeldWhileWorking
