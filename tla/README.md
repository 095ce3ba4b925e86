# A TLA+ verification of blizzard

Blizzard drives units of work (*chunks*) through graphs of nodes. A central
**hub** keeps an append-only store of facts and derives every status from them; a
fleet of **runners** claims chunks, runs agent processes at a node's worker steps and
reports back; people answer questions, resolve gates and pull levers. The hub executes
the delivery nodes itself. This directory holds TLA+ models of the parts where
concurrency, delay and crashes make that hard, the TLC instances that check them and the
TLAPS proofs of what was proved for every instance.

All paths are relative to `src/src/blizzard/`.

## 1. Inventory

| Component | State it keeps | Operations | Hard behaviour | What makes it correct |
|---|---|---|---|---|
| Chunk facts, derived status (`hub/domain/chunk`) | movements, leases, epoch owners, questions, decisions, escalations, levers | pure derivations | the newest movement is ranked over three tables | derivation agrees with the order of events |
| Execution (`hub/domain/execution`) | the same facts, written under the chunk's row lock | claim, mint, complete, decide, resolve, requeue, detach, release | zombie attempts, repeated and delayed requests, checks made before the lock | one runner at a time; a node is left once; gates are honoured |
| Operator levers (`hub/domain/operations`) | pause, stop, complete, promote, restart facts | one per lever | land in the middle of anything | a finished chunk stays finished |
| Chunk store (`hub/store/internal/chunk_*`) | the tables | guarded writes, fence | compare under lock | the fence admits only the owner of the newest epoch |
| Fact ingest (`execution/facts.py`, `high_water.py`) | a high-water mark per runner | push | overlapping pushes, lost answers, partial refusal | no fact twice, out of order, or skipped |
| Runner outbound drain (`runner/lifecycle/drain.py`, outbound store) | durable buffer, lane counter, acks | buffer, tick, ack, prune | crash between effect and ack | everything is acked in the end, nothing before it is decided |
| Hub-node steps (`hub/delivery/hub_node.py`, `flow_turn.py`) | a turn | take, commit, escalate, interrupt | a turn runs with no lock held | a stale turn records nothing |
| Flow lines (`hub/domain/delivery`, `hub/delivery/flow_driver.py`) | submissions, turns, places | submit, head, withdraw, recover | hub crash between effect and commit, cut-offs, several branches | one landing per branch at a time, no visit lost |
| Delivery actions (`hub/delivery/action_*.py`) | passes, effect log | pass, poll | effects repeated after a crash | an effect is not repeated blindly |
| Runner chunk lifecycle (`runner/lifecycle`) | leases, bindings, parks | fill, spawn, judge, submit, gate, take over, recover | crash between launch and record, stale hub views | no two workers for a chunk, no chunk forgotten |
| Dependencies (`hub/domain/chunk/dependencies.py`, `operations/queue.py`, `operations/delete.py`) | edges between chunks, items held | declare, release, group, delete, claim | two kinds of lock; claims take only one of them | no cycle, nothing left of a chunk taken away, no claim before its prerequisites |
| Queue order (`chunk_queue_store.py`) | ranks | reorder | – | – |
| Throttle, transcripts lane, host lane, close intents | floors, cursors, intents | per tick | the same lane and retry hazards | as the fact lane |
| Registration, tokens, graphs, tenancy, config, garden, cadence, observability, auth, forges, harness adapters, wire, CLI, web | records, files, processes | administration, I/O | little of their own | – |

How they interact. A runner's lifecycle *buffers* facts (lease mints, escalations,
questions, completions, decisions); the drain sends them in order over HTTP; the hub's
ingest lands each fact in one unit with its mark; the landing of a chunk's fact takes that chunk's
row lock and applies the fence. Claims, levers and resolutions are direct calls that take
the same lock. A movement into a hub node makes the flow driver take a turn, which runs
without a lock and commits under it. Everything else reads derived status.

`PROJECT.json` lists every component with its status, the hazards of the code at their
lines, and for each definition the lines it models.

## 2. Modules

| Module | Models | Run through |
|---|---|---|
| `FencedChunk` | what the hub promises about a chunk: the abstract epoch fence | refined by `ChunkHub` and `RunnerChunk` |
| `FencedChunkProofs` | what that fence gives: moves are exclusive | – |
| `ChunkHub` | one chunk at the hub: facts, derived status, every write | `MCChunkHub` (graphs, symmetry) |
| `ChunkHubProofs` | the proofs about `ChunkHub` | – |
| `ChunkHubFence` | the proof that `ChunkHub` implements `FencedChunk` | – |
| `ChunkHubGates` | the proofs about completions and gates | – |
| `FactIngest` | one runner's buffer, drain, and the hub's ingest | itself |
| `FactIngestProofs` | the proofs about the lane | – |
| `DeliveryFlow` | the lines hub nodes deliver on: driver, turns, landings | `MCDeliveryFlow` (branches, edges, symmetry) |
| `DeliveryFlowProofs` | the proofs about the lines | – |
| `RunnerChunk` | a runner's life with one chunk: tick, leases, processes, environments, outbox | itself |
| `RunnerChunkProofs` | the proofs about the runner, and that `RunnerChunk` implements `FencedChunk` | – |
| `ChunkDependencies` | the edges between chunks and the operations that write and read them | itself |
| `ChunkDependenciesProofs` | the proofs about the edges | – |

The modules meet at the hub's facts. `ChunkHub` lets any runner say anything at any
time; `RunnerChunk` is what one runner really says, against a hub cut down to what that
runner can tell apart; `DeliveryFlow` starts where a worker's completion enters a hub
node. `FencedChunk` is the contract both sides of the first seam keep.

### FencedChunk

`epoch`, its `owner`, the `holder` of the route, who `left` in which epoch, `ended`. A claim
grants the chunk at a new epoch, never from under a holder; a lease renews the grant; a detach
revokes it and leaves the epoch with its owner, whose work in flight may still land; a step of
the hub takes an epoch for the hub; only the epoch's owner, or the holder carrying on from
a step of the hub, moves the chunk in it. `KeepsFence` (the abstract `Spec` under the mapping
`Fence`) is a property of `fencing` and of `runner`.

### ChunkHub

One chunk, because every write of the hub to a chunk is made under that chunk's row lock
and reads only its facts: each critical section is one action.

*State.* `owner` is `epoch_owners`, `leased` the epochs of `lease_facts`, `lease` the
lease whose mint came first at an epoch, `latest` the newest epoch over all the tables,
`route` the live route, `moves` the transitions, migrations and restarts in recorded
order, `esc` the open escalation, `asked`/`answered` the questions,
`decisions`/`choiceOf`/`closed` the gate decisions, and four booleans the levers.
`inflight` holds resolving completions that were checked and have not reached the lock;
`turn` is the hub-node visit being executed.

*Actions.*
- Levers: `Promote`, `Demote`, `Pause`, `Resume`, `Stop`, `CompleteByHand`, `Detach`,
  `Requeue`, `Restart`.
- People: `Answer`, `ResolveDecision`.
- Runner writes: `Claim`, `Release`, `LeaseMinted`, `EscalationRecorded`,
  `QuestionAsked`, `SubmitDecision`, `PlainCompletion`, `CheckResolving`. Any runner may
  present any lease and epoch at any moment. That is stronger than a model of the network:
  it contains every loss, repetition, delay and zombie worker.
- `CheckResolving` and `CommitResolving`/`RefuseResolving` are two actions, because
  `apply` loads the facts and checks the decision *before* it takes the lock and re-reads
  under it. A committed completion may stay in flight, which is a second copy of the same
  request past the same check. Everything else that `apply` does happens under the lock and is one action.
- Hub steps: `TakeTurn` reads the visit, `CommitTransition`, `CommitMigration` and
  `CommitEscalation` commit against it later, `EndTurn` is a wait, a refusal or the turn a
  crash left unanswered.

*Abstractions.* The graph is the relation `Routes`; a cross-graph migration's landing is
resolved in it, so that one choice may lead to different places at different times.
Artifacts, envelopes, usage, labels and history are data no guard reads. The route token
is in its default `warn` mode, which refuses nothing. A refused call leaves the state alone
and is therefore no action. `record_hub_lease` clears an open escalation with
the newer lease, as `ChunkFacts` derives it.

### FactIngest

*State.* The lane counter, the retained rows and acks; the tick's slice and its one
outstanding call; the hub's handlers, each with its own copy of the mark; the mark, and
history variables for what landed, was decided or submitted.

*Actions.* `enqueue_outbound`, `prune_outbound`; `Tick`, `Send`, `AckRun`,
`TransportFailure`; `runner_high_water`, `AlreadyApplied`, `apply`, `reject`, `conflict`,
`submit`, `answer`; and the faults `SendLost`, `TimeoutOrCrash`, `fail`. A timeout leaves
its handler working at the hub, so the next tick's push of the same facts overlaps it; this
is what the compare-and-set of the mark is for. Whether the hub refuses a fact is either
answer, since the refusal depends on the chunk.

### DeliveryFlow

*State.* Per chunk the facts the lines converge on, the flows its commits resolve to, the
`merged/<repo>` markers and the no-code markers (`nocode`) of what it declares now; the submissions in
arrival order, each with its newest turn and the two clocks of its visit: `wait`, the newest uninterrupted run of
pending polls, and `review`, how long a parked change has been open; the forge (`merged`, and the merge
calls and parked changes `flying`); and the hub's memory: a `task` per open turn, the driver's `floor`,
the turns `fresh` from the last tick, and the tick itself.

*Actions.* The tick is split where the code commits or reads anew: `Tick` (a full reconcile or
a light one), `Submit`/`SkipVisit`/`RefuseVisit`, `ReadDeparted`, `CloseDeparted`,
`EndReconcile`, `end_unanswered`, `ReadLine`, `take_turn`, `Spawn`. A turn's task is `Build`, then the
gate of every repository, where one whose base already holds the declared commit gets its no-code marker
(`RecordNoCode`), then `SendMerge` and `RecordLanding` one repository after another, and `FinishBuild` or
`FinishPass` with one of `PassAnswers`. Of a repository with the `park` policy the hub only opens the change, and
the pass awaits the person who merges it. Time passes for a visit by `PollDue`, `PendingTimesOut` and
`ReviewTimesOut`. The forge settles a merge in its own time, or never (`ForgeMerges`, `ForgeRefuses`). Upsets: `FailTick`,
`TaskFails`, `CutOff`, `Crash` with the boot's `recover_turns` and `BootReconcile`. People and workers:
`WorkerDelivers`, `Stop`, `CompleteByHand`, `Restart`, `Pause`, `Resume`, `Requeue`,
`MoveBase` (configuration moves a repository's base branch).

*Abstractions.* A chunk away from the hub nodes is at `Away`. Visits of one reconcile are
taken in any order. Whether a bounce reaches its cap, and whether checks and forge make a pass
wait, fail or ask, is either answer. Clocks are counted in two steps: a pending run has begun or is overdue (an
`await` in between ends it, so that only an uninterrupted run of pending polls routes the node's timeout), a review
has begun or is overdue, from the first pass that awaits it on. `Parked` and `Codeless` say which repositories a
person merges and which may hold the declared commit already; the latter is a bound. A delivery of a worker declares any
repositories anew, which voids their no-code markers. A conflict and an inherited failure are the
`failure` choice. The fast-forward policy and a parked repository without code are left out. Of a closed
submission that has no next generation the cut-offs and clocks are dropped. The configuration read before the
chunk's lock is part of `Submit`.

### RunnerChunk

*State.* `hub` is the chunk at the hub; `leases[e]` the lease minted at epoch `e`, with its
pid, session, park, judge and closure; `envs` the environments bound; `floor` the epoch floor of
the binding tenure; `outbox` the unacknowledged facts; `procs` the live processes; `run` the tick in memory: its
place, the cached view of the hub, the leases still to visit.

*Actions.* One tick is reap, resume, reconcile leases, reconcile escalations, drain, fill,
advance, drive held chunks, in the order of `runner/loop/tick.py`, and every step ends at a call, a
durable write or the start or end of a process, so that a crash, a lever or another runner
may come there: `Reap`, `Resume`, `ReconcileLease`, `ReconcileEscalation`, `TearDown`,
`FailAttempt`, `AbandonReleases`/`AbandonCloses`, `PreemptCloses`; `GetEnvelope`, `Mint`,
`Launch`, `RecordPid`, `ConfirmDurable`, `AwaitIdentity`, `ClearPark`, `ClearMark`; `PushFact`,
`SubmitCompletion`, `Consume`, `Apply`; `InterruptedClaim`, `CountSlots`, `Reclaim`,
`PeekAndBind`, `ClaimRoute`; `AwaitSettled`, `OnUnpause`, `LaunchJudge`, `Judged`, `NotJudged`,
`DriveHeld`. Upsets: `Crash`, `Shutdown`, calls that commit and lose their answer
(`PushUnanswered`, `SubmitUnanswered`, `ClaimUnanswered`), brakes and failed launches. The operator
and others: `Stop`, `Detach`, `Pause`, `Restart`, `Requeue`, `RivalClaims`,
`RivalCompletes`, `HubNodeEnds`.

*Abstractions.* A process is armed to die with the runner until its pid is durable. Whether
a worker exits, turns stale or outlives an interrupt's budget is chosen. A push carries one fact
at a time (`FactIngest` has the batches). Buffering a completion and clearing its
elicitation is one write, and so is releasing the environments of a chunk, which the code does one at a time. A
slot is taken per chunk (`open_lease_count`), so the one chunk here takes at most one of `Agents`, however many leases
it has open. Left out: takeovers, questions, gates and decisions, usage-limit
and overload parks, escalations of an unresolvable owner, local requeue, nudges and
checks, registration, route tokens (only the view an adopt drops), node identity (a visit is
an epoch), the spend cap, several chunks, the throttle's release offers.

### ChunkDependencies

*State.* `standing` is the unreleased rows of `chunk_dependencies`; `refs` and `open` are the work
items each chunk holds and the hub items not withdrawn; `state` is what the operations tell
apart of a chunk's status (`pre_claim`, `held` with a route, `parked`, `done`, `gone`); `txns` are the
transactions between their reads and their commit.

*Actions.* `DeclareBegin`/`DeclareCommit`, `GroupBegin`/`GroupCommit`, `DeleteBegin`/`DeleteCommit`,
`ClaimBegin`/`ClaimCommit`/`ClaimDenied`: the first step takes the locks and reads, the second
writes. `Release` reads and writes in one store call under the graph lock and is one action. `OwnStep` is every
other write about one chunk, taken from `ChunkHub`: nothing but a claim gives a route, and done is for good.
Row locks are per chunk, as on Postgres; SQLite's one writer allows fewer interleavings.

*Abstractions.* Locks of one transaction are taken together (the code sorts them, and the graph
lock always comes first). `would_close_a_cycle` asks for a chunk in every set closed
under the edges that leave it, instead of the three-colour search; `plan_fold` says which edges the loop
mints and supersedes, and `FoldKeepsEdges` compares what the fold leaves with a direct definition. The clock of a declaration may
stand still or run back. All chunks are of one project. `stopped` is `parked`, which lets the model
bring a stopped chunk back: the code does not, and nothing checked depends on it.

## 3. Runs

Symmetry (permutations of runners, leases or chunks) is used only in runs that check safety.
Deadlock checking is off only where a cfg says so: a finished chunk, an empty lane
and a set of chunks all done or gone really may stop.

| Run | Instance | Shows |
|---|---|---|
| `fencing` | 2 runners, 2 leases, worker nodes and a hub node with a migration edge; 3 epochs, 3 movements | a displaced attempt cannot move the chunk (`RunnerMovesOwned`, `HolderUndisturbed`), the fence is sound (`EpochsOwned`, `HolderOwnsFence`), the movements are one walk (`WalkConnected`, `EpochsNeverFall`), nothing is applied twice (`ExitsOnce`), ended is ended (`TerminalFinal`), and all of it implements `FencedChunk` (`KeepsFence`) |
| `gates` | a graph gate, a repair node that leads back to it and is gated by the runner's configuration, a question; 2 runners, 2 epochs, 4 movements, 2 resolving completions in flight | a gate is left only by the resolution of the visit (`GateHonoured`), and by each decision once but for the walk of section 6 (`DecisionCarriedOnce`); that the runner carrying it is entitled to is proved (`RunnerMovesAreOwned`, `HoldersUndisturbed`) |
| `ingest` | 4 facts, one a submission, slices of 3, 2 handlers, 2 faults; fairness | order, no loss, no repetition, FIFO before a submission, no seq twice; every fact is acked (`EveryFactAcked`) |
| `lines` | 2 chunks on one flow; 1 epoch, 1 upset | one turn per flow (`OneTurnPerFlow`), no turn ended under its task (`TaskOwnsTurn`), no open submission below the floor (`FloorCoversOpen`) |
| `landings` | 1 chunk of two repositories, one of which may have no code to land, or of one on another branch; a landing handed on to a second hub node; 2 epochs, 1 upset | each repository lands once (`LandedOnce`), a marker is of a merge, and what closes landed has landed or is marked as without code (`LandedMeansMerged`), a turn whose chunk moved on stops (`StopsWhenFenced`) |
| `served` | 1 chunk of two repositories, one merged by a person, one that may have no code; 1 epoch, stuck after 2 cut-offs, 1 upset; fairness | every delivering visit ends (`DeliveringEnds`) |
| `runner` | 1 slot, 1 retry, 4 epochs, 2 environments, 3 upsets, every lever | one lease, one process (`OneLiveLease`, `OneProcess`), none forgotten (`NoForgottenWorker`), its environment under it but for one launch of section 6 (`EnvHeldWhileWorking`), no lease closed as transitioned that did not land (`ClosedMeansLanded`); the abstract fence (`KeepsFence`) |
| `driven` | the same with 2 upsets; fairness | an ended chunk frees what it held (`EndedFreesEnvironment`), a held chunk is driven (`HeldIsDriven`) |
| `dependencies` | 4 chunks, 3 edges standing, 2 clock readings, 2 transactions at once | no cycle and one edge per pair (`StandingGraphSound`), nothing left of a chunk taken away (`GoneLeavesNothing`), no runner ahead of a prerequisite (`HeldPrerequisitesDone`), a fold keeps what everyone waits for (`FoldKeepsEdges`) |
| `doubleland`, `twoleases`, `leaked` | small instances of the above | the disagreements of section 6 |

*Bounds.* `MaxEpoch` 3 gives an attempt, the one that displaces it and the one after, so an
epoch can be stale, reserved but unminted, and newest at once; a runner's restart and retry
need a fourth. `MaxMoves` 3 lets the walk return to a node it has left, 4 in `gates` lets it leave a gate it came back to. `MaxInflight` 2 is
the smallest race. `MaxSeq` 4 with `DrainLimit` 3 has a tick that cannot read the whole
backlog, a run before and after a submission, and rows pruned while later ones are pending.
`MaxFaults` and `MaxUpsets` bound everything that is not the program's own step, taken
together: 3 in `runner` lets a crash meet a lever and a lost answer. Cut-offs are the hub's own deadline and no
upset, so the 1 in `landings` lets a cut-off meet a restart, a moved base branch or a crash. One upset with two chunks in `lines` is enough for each of a crash,
a failed tick and a lever to fall between a tick's reads and its writes. In
`dependencies` four chunks are the fewest with two declares that share no row, and two clock readings
tell an earlier edge from a later one. `StuckAfter`
is a parameter of the model (3 in the code), 1 or 2 in the instances. All bounds are guards of
actions; the theorems of section 5 hold for every value of them.

*Fairness.*
- `ingest`: `WF(Drain)`, because the runner's loop runs the drain each tick for as long as the
  process is up, and a crash is followed by a restart over the durable buffer; `WF(Handle(h))`, because
  the hub finishes a request it took, or that is one of the finitely many faults.
- `served`: weak fairness of a begun tick, of a running task and of the clocks (a poll comes due, a pending run
  and a review time out). Strong fairness of the full reconcile, because `RECONCILE_FLOOR` runs
  one at least that often whatever the light ticks do. Strong fairness of the
  build of a stuck visit, because its cut-offs are counted before the build does anything slow
  enough to be cut off. None of the forge, nor of the person who is to merge a parked change: a visit
  ends although neither ever acts, and although each pass may choose its wait so as to reset the other clock.
- `driven`, `leaked`: `WF(Tick)`, because the loop keeps ticking and a runner that died is started again.

None for people, workers, levers or faults, and none for `ChunkHub`, where a person may
take for ever.

Each property of a passing run has a mutant: a definition changed the way a plausible
bug would change it, defined next to the original, under which TLC finds the property
violated.

## 4. Hazards and where they are caught

The list is in `PROJECT.json`. In short:

- *at the hub*: zombie and repeated completions (`ExitsOnce`, `RunnerMovesOwned`,
  `HolderUndisturbed`); the window between check and lock (`WalkConnected`,
  `DecisionCarriedOnce`); reordered mints and claims (`HolderOwnsFence`, `HolderUndisturbed`); the
  hub's own stale turn (`EpochsNeverFall`, `TerminalFinal`); a decision of an earlier visit
  (`GateHonoured`);
- *in the lane*: overlapping pushes (`AppliedInOrder`); partial refusal (`MarkCoversDecided`);
  crash before the ack (`AckedDecided`, `EveryFactAcked`); pruned sequence numbers
  (`SeqNeverReissued`);
- *on the lines*: a hub that dies, or a turn that is cut off, with a merge out (`LandedOnce`,
  `LandedMeansMerged`); a line read that levers have overtaken (`OneTurnPerFlow`); the sweep
  against running tasks (`TaskOwnsTurn`); a floor above an open submission
  (`FloorCoversOpen`); a tick that failed after it took turns (`DeliveringEnds`);
- *between chunks*: declares that share no row (`StandingGraphSound`); a delete beside a fold
  (`GoneLeavesNothing`); a claim whose reads others overtake (`HeldPrerequisitesDone`); edges that
  collapse onto one pair (`FoldKeepsEdges`);
- *at the runner*: a crash between launch and record (`NoForgottenWorker`, `OneProcess`), between
  release and close (`EnvHeldWhileWorking`), between ack and consequence (`ClosedMeansLanded`,
  `ExitSettles`); a lost claim answer and a cached view (`HeldIsDriven`); the precedence
  of what one view shows at once (`EndedFreesEnvironment`).

## 5. Proofs

`ChunkHubProofs` proves, for all sets of runners, leases, nodes and questions, all graphs
and all bounds that satisfy `PartiesAssumption`, `GraphAssumption` and
`BoundsAssumption` (the sentinels are distinct, the entry is a node, a hub node is not a
gate, only a transition ends the walk, bounds are naturals):

| Theorem | States |
|---|---|
| `TypeCorrect` | `[]TypeOK` |
| `EpochsAreOwned` | `[]EpochsOwned` |
| `OwnersAreForGood` | `OwnerForGood` |
| `HoldersOwnTheFence` | `[]HolderOwnsFence` |
| `RunnerMovesAreOwned` | `[]RunnerMovesOwned` |
| `HoldersUndisturbed` | `HolderUndisturbed` |
| `EpochsDoNotFall` | `[]EpochsNeverFall` |
| `WalksAreConnected` | `[]WalkConnected` |
| `EndsAreFinal` | `TerminalFinal` |

*The inductive invariant.* `EpochsOwned` is not inductive by itself. `IInv` adds to the type
invariant and to it that
- a turn's epoch is at most the newest (`TurnBelow`), so that a hub commit one above the
  visit admitted by the fence takes an epoch nobody owns;
- a completion past its first check carries a decision that exists (`InflightSound`), so
  that what it closes at the lock is a decision of the chunk;
- only a transition ends the walk (`TerminalByTransition`), so a chunk that is not ended
  stands at a node, which is what a restart and a migration record as their origin;
- no decision was opened above the newest epoch (`DecisionsBelow`), which makes the epoch
  of a carried resolution one that has an owner.

There is one lemma per action and `NextInv` assembles them.

*The fence argument.* `FenceMoves` sorts every step by what it does to the fence: it keeps
owner, newest epoch and route (or gives the route up), or it takes a fresh epoch for one party
and leaves the route with that party or, for the hub, where it was. `OwnersAreForGood` and
`HoldersOwnTheFence` follow from the two cases.
`MovesRecorded` sorts every step by the movement it appends: none, one of the hub's, or
one of a runner's that owned its epoch or resolved a gate a restart had landed on.
With `RestartsHubOwned` (a restart's epoch is the hub's) and owners kept for good this gives
`RunnerMovesAreOwned`; with `HoldersOwnTheFence` it gives `HoldersUndisturbed`.

*The walk argument.* `MovesRecorded` also says that a movement leaves the current node at the
newest epoch or above it, from which `EpochsDoNotFall` and `WalksAreConnected` follow. For a
runner this is the coherence check made again under the lock. For the hub it is not checked at
all: a turn commits against the node it read when it began. `TurnInv` is why that is
right: as long as the turn's epoch is still the newest, which the fence asks, nothing can have
moved the chunk, because a completion that leaves a hub node is refused at its check and
everything else that moves the chunk takes a new epoch or ends the turn.

*The end.* The store's terminal predicate and the derived status agree (`EndedIsTerminal`), and
every action but the operator's completion is refused or changes no fact once it holds.

*The abstract fence.* `FencedChunkProofs` proves, when the hub and nobody are not runners, `MovesAreExclusive`: under the
abstract fence no two runners move the chunk in one epoch. `Exclusive` needs two facts to be
inductive: nobody has moved in an epoch that has not begun (`NothingAhead`), and who moved in the
newest one owns it, or carried on from the hub and nobody else was granted the chunk
since (`MoversAnswer`).

*The refinement.* `ChunkHubFence` proves, from the same assumptions as `ChunkHubProofs`,
`HubKeepsFence` (`Spec => KeepsFence`) and from it `OneMover`: no two runners ever record a movement
of a chunk at one epoch. Each action is sorted under one abstract action: a claim is a
grant, a mint at an unowned epoch a renewal, an exit an advance, a restart and a hub commit a
step of the hub, a hub migration and everything quiet a revocation or a stutter. Two facts
carry it. A gate's resolution carried without a lease is admitted at a restart's epoch only, and that one is the
hub's (`RestartsHubOwned`). And the operator's stop gives the route up with the
write (`EndsUnrouted`), so that completing a stopped chunk takes it from nobody.

*Completions and gates.* `ChunkHubGates`, from the same assumptions:

| Theorem | States |
|---|---|
| `NodesAreLeftOnce` | `[]ExitsOnce` |
| `GatesAreHonoured` | `[]GateHonoured` |
| `DecisionsAreCarriedOnce` | `[]DecisionCarriedOnce` |

What the lock re-reads is less than what the check read, so the argument is about the completions in
between. `InflightVisit` says of each: its decision is still resolved to the choice it takes, and if no epoch was taken
since the check the chunk still stands at the gate, in the visit it was checked for. A movement
within the epoch closes the visit, which the lock's own reading sees. `CarriedOffHub` adds that no
movement of the hub carries a decision. `DecisionCarriedOnce` follows from the other two theorems and the order of
epochs; the exception it states was found by this proof (section 6).

*The lane.* `FactIngestProofs`, for any number of facts and handlers, any slices and any kinds of facts:

| Theorem | States |
|---|---|
| `LaneTypeOK` | `[]TypeOK` |
| `LandsOnceInOrder` | `[]AppliedInOrder` |
| `MarkSkipsNothing` | `[]MarkCoversDecided` |
| `AckLosesNothing` | `[]AckedDecided` |
| `FactsPrecedeSubmission` | `[]SubmissionFollowsFacts` |
| `SeqsIssuedOnce` | `SeqNeverReissued` |

The lane is right because everything in it is a prefix of something. The retained rows are the
newest of those issued without a gap (`Dense`), the acked ones a prefix of what was issued (`AckedPrefix`), the
tick's slice the oldest pending (`SlicePrefix`); a call in flight and every handler,
abandoned ones included, carry a gapless run that begins no later than one past the mark
(`CallSound`, `HandlerSound`), and the mark is never above what was issued (`MarkIssued`). A handler whose copy of the mark
is stale loses the compare-and-set, so only a fact at the mark's successor lands.

*The dependencies.* `ChunkDependenciesProofs`, for any finite set of chunks (`ChunksAssumption`):

| Theorem | States |
|---|---|
| `NoStandingCycle` | `[]StandingGraphSound` |
| `NothingLeftBehind` | `[]GoneLeavesNothing` |
| `ClaimsWaitForPrerequisites` | `[]HeldPrerequisitesDone` |
| `FoldsKeepEdges` | `FoldKeepsEdges` |

The invariant says of each transaction under way that what it read still holds (`DeclareSound`, `GroupSound`,
`DeleteSound`, `ClaimSound`): nobody else has the graph lock, nobody else writes the rows it
locked (`Locks`), and an edge onto a row it did not lock can only appear through the graph lock. A claim has no graph lock; what it read stays
true because a new prerequisite locks the dependent's row and done is for good. `SourceOfSet` turns
the cycle check into the property: where no chunk reaches itself, every set of chunks has one that
waits for none of the set.

*The lines.* `DeliveryFlowProofs`, for any chunks, flows, graph and bounds (`FlowAssumption`):

| Theorem | States |
|---|---|
| `FlowTypeOK` | `[]TypeOK` |
| `OneTurnOpenPerFlow` | `[]OneTurnPerFlow` |
| `TurnsOutliveTheirTasks` | `[]TaskOwnsTurn` |
| `FloorHidesNothing` | `[]FloorCoversOpen` |
| `LandedIsMerged` | `LandedMeansMerged` |
| `FencedTurnStops` | `[]StopsWhenFenced` |
| `EachRepositoryLandsOnce` | `[]LandedOnce`, where `FixedBases` |

The invariant says who may end a turn. Within a tick every running task was running when it began
(`TickKnowsTasks`), and the turns the tick has taken have no task yet (`TakenWait`), so the sweep ends
none under a task. A reconcile has every open submission in hand, either among those it read or among
those it submitted, and closes none mid-turn (`ReconcileCovers`), which gives the floor. A pass has
landed, marked as without code or left to land every flow of its submission (`PassCovers`), so `landed` means all of
them; that a no-code marker still stands at the turn's end is because a delivery, which declares anew, is past
the fence of the pass. A late merge was
sent past the fence and its task can only stop (`LateIsFenced`); the fence stays passed because
epochs do not fall and ends are final. `EachRepositoryLandsOnce` assumes `FixedBases`, that no repository has two base
branches among what chunks may resolve to; what a pass has left has then not landed (`LeftUnlanded`), because
two passes that could land one repository would have two turns on one flow. The assumption is needed:
`doubleland` violates `LandedOnce` without it.

*The runner.* `RunnerChunkProofs`, for any number of slots, retries, epochs, environments and upsets and any set of
levers (`RunnerAssumption`: the bounds are naturals, and all but the retries and the upsets positive):

| Theorem | States |
|---|---|
| `RunnerInvariant` | `[]IInv` |
| `RunnerTypeOK` | `[]TypeOK` |
| `RunnerForgetsNoWorker` | `[]NoForgottenWorker` |
| `RunnerClosesLanded` | `[]ClosedMeansLanded` |
| `RunnerJudgesExited` | `[]JudgeAlone`: never a worker beside its judge, with any number of slots |
| `RunnerOneLease` | `[]OneLiveLease`, with one slot |
| `RunnerOneProcess` | `[]OneProcess`, with one slot |
| `RunnerHoldsEnv` | `EnvHeldWhileWorking`, with one slot |
| `RunnerKeepsFence` | `KeepsFence`, the refinement of `FencedChunk` |

The invariant is in two halves, because a crash keeps one and drops the other. `Stored` is what is durable and is
sound wherever the tick was cut short: a judge is recorded only under an elicitation and never beside
its worker (`LeasesSound`); a lease whose completion waits in the outbox has no process and no resume mark (`PendingQuiet`),
so acting on the hub's answer kills nobody; the outbox has one entry of a kind for a lease (`BoxSound`), so an ack
strikes the entry it answers. `TickSound` says what each place of the tick may rely on: the lease in hand
is open and those still to visit are others (`InHand`), its processes are dead where the next write assumes so
(`QuietInHand`), with one slot a mint finds no other lease open (`SlotFree`), the process just launched is alive and, until its pid
is written, named by no lease (`ChildKnown`). `RunnerNext` has one lemma per action.

One slot is an assumption of three theorems and not an accident of the proof: with two, `twoleases` shows the
runner claiming a chunk it still has a lease on. The code counts a chunk as one used slot however many leases it has
open, so nothing bounds them then; what stays true is that no lease has its worker and its judge alive
together (`JudgeAlone`). The refinement needs no such
assumption: the hub takes the second claim as it takes any other, at a new epoch. Each
step is a grant, a renewal, an advance, a revocation, a step of the hub, an end or a stutter of `FencedChunk`: a
minted fact sent again renews what its runner still owns or is refused, and a completion lands once.

*Only model-checked.* `LandedOnce` where base branches move is false (`doubleland`). Liveness
(`EveryFactAcked`, `DeliveringEnds`, `EndedFreesEnvironment`, `HeldIsDriven`) is out of the
prover's reach and stays with TLC. That a submission which waits behind another chunk's is served in the end is
neither: two chunks under this fairness are more than TLC checks in five minutes, and `DeliveringEnds` is about a chunk
alone on its flows. What the line itself promises, one turn per flow and no open submission below the floor, `lines` checks with two.

## 6. Where the code and its words disagree

Each of the first three is a run in which TLC finds the quoted sentence violated by what the
code does; the quotations are under `findings` in `PROJECT.json`.

1. `doubleland`: a second landed fact of a repository is called a double land. A restart at the
   hub node while the first visit's merge call is out, with the base branch moved to another
   flow, lets both visits merge and both record a landing.
2. `twoleases`: a chunk is said to have at most one live lease. With a second slot free, a
   chunk detached after the tick's reconcile is claimed again by the runner whose lease on it
   is still open.
3. `leaked`: a worker that ended its session is said to be judged after a crash. A runner that
   dies between the ack of the completion that ended its chunk and acting on it waits
   every tick for an envelope an ended chunk never gets; the lease keeps its slot and
   its environment.

Met while modelling and not kept as runs. The models have each of these behaviours.

- The reconcile says it submits every chunk delivering at a hub node with no open submission for its
  visit. Two hub nodes whose choices migrate a chunk to one another bring it back within one
  epoch; its earlier submission there was closed with a choice, `_generation` answers `None`, and
  it stays `delivering`. `served` has no such pair of nodes.
- A no-code marker keeps a repository out of the submissions of every node, and out of the passes of the
  node that wrote it only. A visit of another node may therefore land a repository its submission does not hold, outside its line, and
  two visits may each record one. `LandedOnce` is about the landings of flows a submission holds.
- A restart from `ready` to a hub node makes a chunk `delivering` without a claim, its prerequisites
  unread. `HeldPrerequisitesDone` is therefore about chunks with a route.
- The store's invariant suite calls any transition above the newest lease fact a zombie's; a
  gate's resolution carried at a restart's hub-owned epoch, or at an epoch a claim only
  reserved, is one, and legitimate.
- A walk that returns to a graph gate within one epoch meets its own consumed decision
  under the natural key, and stands there with none open, where the deployment notes say a
  landing on a gate opens its decision. `GateDecision.resolving_refusal` does not ask whether a
  decision was carried before, so an attempt at a later epoch may carry the old one out
  again, without a person. `DecisionCarriedOnce` states exactly this exception.
- A requeue after a gate's own escalating choice re-runs a gate whose decision is consumed; a restart
  is the way out.
- The decision of a gate of the runner's configuration is tied to its epoch, which has moved on after
  a detach and a claim.
- A rejection whose answer is lost is not surfaced if a later fact of the push moved the mark:
  the replay calls it already applied.
- After a crash, `restart_disposition` abandons a lease whose chunk is `delivering`, and
  releases the environment of a chunk still routed here; it is bound again only by an
  operator's or the hub's next move. `HeldIsDriven` is therefore about chunks whose
  environment is bound.
- An abandon releases the environment before it closes the lease. A runner that dies in between keeps an open
  lease without one; if its next reconcile does not reach the hub and its buffered completion does, the
  answer starts the next node's worker with no environment (`spawn.py` passes no working directory), where the
  other launches ask for one first. It takes more upsets than `runner` has; the proof of
  `EnvHeldWhileWorking` met it, and the property states exactly this exception.
- An escalation the hub refused stays open at the runner, which then does not drive the chunk.
  `HeldIsDriven` excludes it.

## 7. Plan

Done: `ChunkHub`, `FactIngest`, `DeliveryFlow`, `RunnerChunk`, `ChunkDependencies`, `FencedChunk` and
its two refinements, and the proofs of section 5. Left, in order of importance:

1. `RunnerChunk` with questions, gates and takeovers.
2. Smaller machines: the throttle's floor, the transcripts lane, close intents.
3. `FactLane`, a FIFO with refusals, which `FactIngest` is to implement.

## 8. Not modelled, and why

Most of the repository by volume is I/O, schema, administration and presentation: tables and
migrations, command line, web, composition, configuration, harness probes and vendor
formats. None of it holds a protocol of its own. Artifacts, envelopes, usage, history and
presentation decide no state change above. Forges, trackers, worktrees and
processes are I/O behind interfaces and appear as the answers they may give. Graph authoring
and validation enter as the constants `Routes` and `Edges`. Tokens, registration, tenancy and
sign-in are checks at the edge that only remove behaviours of the open clients.

Of the parts that are modelled, these are left out: at the lines, the terms of a
landing, a chunk waiting on a person at a hub node, a build that outlives its turn, nodes without an
action, the fast-forward policy, how a parked change is found, reopened and its foreign commits reported; at the runner, the list under `RunnerChunk` above. The rest is in the plan.
