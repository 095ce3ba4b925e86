SPECIFICATION FairSpec
CONSTANTS
  Away = Away
  Terminal = Terminal
  c1 = c1
  c2 = c2
  main = main
  release = release
  docs = docs
  app = app
  manual = manual
  deliver = deliver
  announce = announce
  Chunks = {c1}
  Flows = {main, docs}
  Repository <- Branches
  Parked = {app}
  Targets <- TwoTargets
  HubNodes = {deliver}
  Edges <- LandRoutes
  StuckAfter = 2
  Codeless = {manual}
  MaxEpoch = 1
  MaxUpsets = 1
PROPERTIES
  DeliveringEnds
