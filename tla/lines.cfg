SPECIFICATION Spec
CONSTANTS
  Away = Away
  Terminal = Terminal
  c1 = c1
  c2 = c2
  main = main
  release = release
  docs = docs
  app = app
  manual = manual
  deliver = deliver
  announce = announce
  Chunks = {c1, c2}
  Flows = {main}
  Repository <- Branches
  Parked = {}
  Targets <- OneTarget
  HubNodes = {deliver}
  Edges <- LandRoutes
  StuckAfter = 1
  Codeless = {}
  MaxEpoch = 1
  MaxUpsets = 1
SYMMETRY Symmetry
INVARIANTS
  TypeOK
  OneTurnPerFlow
  TaskOwnsTurn
  FloorCoversOpen
