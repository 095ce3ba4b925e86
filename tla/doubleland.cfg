SPECIFICATION Spec
CONSTANTS
  Away = Away
  Terminal = Terminal
  c1 = c1
  c2 = c2
  main = main
  release = release
  docs = docs
  app = app
  manual = manual
  deliver = deliver
  announce = announce
  Chunks = {c1}
  Flows = {main, release}
  Repository <- Branches
  Parked = {}
  Targets <- MovingTargets
  HubNodes = {deliver}
  Edges <- LandRoutes
  StuckAfter = 1
  Codeless = {}
  MaxEpoch = 2
  MaxUpsets = 2
INVARIANTS
  LandedOnce
