SPECIFICATION Spec
CONSTANTS
  Away = Away
  Terminal = Terminal
  c1 = c1
  c2 = c2
  main = main
  release = release
  docs = docs
  app = app
  manual = manual
  deliver = deliver
  announce = announce
  Chunks = {c1}
  Flows = {main, release, docs}
  Repository <- Branches
  Parked = {}
  Targets <- MixedTargets
  HubNodes = {deliver, announce}
  Edges <- ChainRoutes
  StuckAfter = 1
  Codeless = {manual}
  MaxEpoch = 2
  MaxUpsets = 1
INVARIANTS
  LandedOnce
  StopsWhenFenced
PROPERTIES
  LandedMeansMerged
