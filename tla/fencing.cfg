SPECIFICATION Spec
CONSTANTS
  Hub = Hub
  NoOne = NoOne
  NoLease = NoLease
  NoChoice = NoChoice
  Terminal = Terminal
  NoTurn = NoTurn
  r1 = r1
  r2 = r2
  l1 = l1
  l2 = l2
  q1 = q1
  build = build
  review = review
  repair = repair
  deliver = deliver
  pass = pass
  fail = fail
  Runners = {r1, r2}
  Entry = build
  Choices = {pass, fail}
  MaxEpoch = 3
  MaxMoves = 3
  Leases = {l1, l2}
  Nodes = {build, deliver}
  HubNodes = {deliver}
  HumanNodes = {}
  Routes <- FleetRoutes
  Gates <- NoGates
  Questions = {}
  MaxInflight = 0
SYMMETRY Symmetry
CHECK_DEADLOCK FALSE
INVARIANTS
  TypeOK
  EpochsOwned
  HolderOwnsFence
  RunnerMovesOwned
  WalkConnected
  EpochsNeverFall
  ExitsOnce
PROPERTIES
  HolderUndisturbed
  TerminalFinal
  KeepsFence
