SPECIFICATION Spec
CONSTANTS
  Hub = Hub
  NoOne = NoOne
  NoLease = NoLease
  NoChoice = NoChoice
  Terminal = Terminal
  NoTurn = NoTurn
  r1 = r1
  r2 = r2
  l1 = l1
  l2 = l2
  q1 = q1
  build = build
  review = review
  repair = repair
  deliver = deliver
  pass = pass
  fail = fail
  Runners = {r1, r2}
  Entry = build
  Choices = {pass, fail}
  MaxEpoch = 2
  MaxMoves = 4
  Leases = {}
  Nodes = {build, review, repair}
  HubNodes = {}
  HumanNodes = {review}
  Routes <- GateRoutes
  Gates <- RepairGated
  Questions = {q1}
  MaxInflight = 2
SYMMETRY Symmetry
CHECK_DEADLOCK FALSE
INVARIANTS
  GateHonoured
  DecisionCarriedOnce
