------------------------------ MODULE ChunkHub ------------------------------
(***************************************************************************)
(* One chunk at the hub: the facts the store keeps about it, the status    *)
(* derived from them, and every write the hub makes for it, each under the *)
(* chunk's row lock (hub/domain/chunk, hub/domain/execution,               *)
(* hub/domain/operations and the stores behind them).                      *)
(*                                                                         *)
(* The fence.  Every attempt at the chunk runs at an epoch.  A claim       *)
(* reserves the next epoch for the claiming runner, a lease mint may take  *)
(* a later one, a restart and a hub-node step take one for the hub.  The   *)
(* first owner of an epoch is its owner for good, and a runner's write is  *)
(* admitted only at the newest epoch and only from that epoch's owner.     *)
(*                                                                         *)
(* The clients are open: any runner may present any lease and any epoch at *)
(* any time, which covers lost and repeated requests, delayed store-and-   *)
(* forward deliveries and zombie workers.  The route token is in its       *)
(* default `warn' mode, in which it refuses nothing; `enforce' only        *)
(* removes behaviours.  Facts of one chunk are stamped in the order they   *)
(* are written, so the newest movement is the last one recorded.           *)
(***************************************************************************)
EXTENDS Naturals, Sequences, FiniteSets

CONSTANTS
    Runners,      \* runner ids
    Leases,       \* lease ids a runner may name
    Nodes,        \* the graph nodes, those of every graph a chunk may move to
    Entry,        \* the pinned graph's entry node
    HubNodes,     \* nodes the hub executes itself
    HumanNodes,   \* nodes judged by a person: the graph-declared gates
    Choices,      \* choice names
    Routes,       \* what taking a choice at a node does, see RouteType
    Gates,        \* per runner, the nodes its configuration gates
    Questions,    \* question ids
    MaxEpoch,     \* bound: epochs the chunk may consume
    MaxMoves,     \* bound: movements recorded for the chunk
    MaxInflight,  \* bound: resolving completions between check and lock
    Hub, NoOne, NoLease, NoChoice, Terminal, NoTurn

Epochs == 1 .. MaxEpoch

(* An edge, or what the migration consult makes of it, as resolved when the *)
(* choice is taken: a transition in the graph, a migration landing on a     *)
(* node of another graph, or an escalation (the reserved `escalate' target, *)
(* or a cross-graph target that names no enabled graph).                    *)
RouteType == [from : Nodes, choice : Choices,
              kind : {"transition", "migration", "escalation"},
              to : Nodes \cup {Terminal}]

ASSUME PartiesAssumption ==
    /\ Hub \notin Runners
    /\ NoOne \notin Runners
    /\ Hub # NoOne
    /\ NoLease \notin Leases
    /\ NoChoice \notin Choices
    /\ Gates \in [Runners -> SUBSET Nodes]

ASSUME GraphAssumption ==
    /\ Entry \in Nodes
    /\ Terminal \notin Nodes
    /\ HubNodes \subseteq Nodes
    /\ HumanNodes \subseteq Nodes
    /\ HubNodes \cap HumanNodes = {}
    /\ Routes \subseteq RouteType
    /\ \A t \in Routes : t.to = Terminal => t.kind = "transition"
    /\ NoTurn \notin [node : Nodes, epoch : Epochs]

ASSUME BoundsAssumption ==
    MaxEpoch \in Nat /\ MaxMoves \in Nat /\ MaxInflight \in Nat

VARIABLES
    owner,      \* epoch_owners: who took each epoch, NoOne while unowned
    lease,      \* the lease that owns an epoch: its earliest mint naming one
    leased,     \* epochs with a lease_facts row
    latest,     \* newest epoch across leases, restarts and owners; 0 before any
    route,      \* the runner of the live route, or NoOne
    moves,      \* transitions, migrations and restarts in recorded order
    esc,        \* epoch of the open escalation, 0 when none is open
    asked,      \* per question, the epoch it was asked at, 0 before
    answered,   \* questions with an answer
    decisions,  \* gate decisions recorded, keyed <<node, epoch>>
    choiceOf,   \* the resolution of a decision, NoChoice before
    closed,     \* decisions a movement, escalation or restart names
    promoted, paused, stopped, completed,
    inflight,   \* resolving completions checked but not yet at the lock
    turn        \* the hub-node visit the hub is executing, or NoTurn

fenceVars == <<owner, lease, leased, latest>>
gateVars  == <<decisions, choiceOf, closed>>
askVars   == <<asked, answered>>
leverVars == <<promoted, paused, stopped, completed>>
hubVars   == <<inflight, turn>>
vars == <<fenceVars, route, moves, esc, askVars, gateVars, leverVars, hubVars>>

Keys == Nodes \X Epochs

Movement == [kind : {"transition", "migration", "restart"},
             from : Nodes, to : Nodes \cup {Terminal}, epoch : Epochs,
             by : Runners \cup {Hub},
             gate : 0 .. MaxEpoch]   \* epoch of the decision carried, 0: none

\* Resolving completions between their check and the chunk's lock.
Submission == [runner : Runners, lease : Leases \cup {NoLease},
               epoch : Epochs, taking : Routes, gate : Epochs]

TypeOK ==
    /\ owner \in [Epochs -> Runners \cup {Hub, NoOne}]
    /\ lease \in [Epochs -> Leases \cup {NoLease}]
    /\ leased \subseteq Epochs
    /\ latest \in 0 .. MaxEpoch
    /\ route \in Runners \cup {NoOne}
    /\ moves \in Seq(Movement)
    /\ esc \in 0 .. MaxEpoch
    /\ asked \in [Questions -> 0 .. MaxEpoch]
    /\ answered \subseteq {q \in Questions : asked[q] # 0}
    /\ decisions \subseteq Keys
    /\ choiceOf \in [Keys -> Choices \cup {NoChoice}]
    /\ closed \subseteq decisions
    /\ promoted \in BOOLEAN
    /\ paused \in BOOLEAN
    /\ stopped \in BOOLEAN
    /\ completed \in BOOLEAN
    /\ inflight \subseteq Submission
    /\ turn \in [node : HubNodes, epoch : Epochs] \cup {NoTurn}

Init ==
    /\ owner = [e \in Epochs |-> NoOne]
    /\ lease = [e \in Epochs |-> NoLease]
    /\ leased = {}
    /\ latest = 0
    /\ route = NoOne
    /\ moves = <<>>
    /\ esc = 0
    /\ asked = [q \in Questions |-> 0]
    /\ answered = {}
    /\ decisions = {}
    /\ choiceOf = [k \in Keys |-> NoChoice]
    /\ closed = {}
    /\ promoted = FALSE
    /\ paused = FALSE
    /\ stopped = FALSE
    /\ completed = FALSE
    /\ inflight = {}
    /\ turn = NoTurn

-----------------------------------------------------------------------------
(* Derivations over the facts *)

latest_movement == moves[Len(moves)]

current_node == IF moves = <<>> THEN Entry ELSE latest_movement.to

newest_transition_is_terminal ==
    /\ moves # <<>>
    /\ latest_movement.kind = "transition"
    /\ latest_movement.to = Terminal

is_terminal == stopped \/ completed \/ newest_transition_is_terminal

\* The epoch of the current visit to node n; `otherwise' when the newest
\* movement does not land there.
arrival_epoch_at(n, otherwise) ==
    IF moves # <<>> /\ current_node = n THEN latest_movement.epoch ELSE otherwise

open_questions == {q \in Questions : asked[q] # 0 /\ q \notin answered}

\* A restart that names an unresolved decision closes it undecided.
open_decisions == {k \in decisions : choiceOf[k] = NoChoice /\ k \notin closed}

unclosed_decisions == decisions \ closed

latest_movement_enters_hub_node == moves # <<>> /\ current_node \in HubNodes

\* The precedence ladder, with whether the pause fact holds as an input.
status_with(isPaused) ==
    IF stopped /\ ~completed THEN "stopped"
    ELSE IF completed \/ newest_transition_is_terminal THEN "done"
    ELSE IF esc # 0 THEN "needs_human"
    ELSE IF open_questions # {} \/ open_decisions # {} THEN "waiting_on_human"
    ELSE IF isPaused THEN "paused"
    ELSE IF ~promoted /\ route = NoOne THEN "not_ready"
    ELSE IF latest_movement_enters_hub_node THEN "delivering"
    ELSE IF route # NoOne THEN "running"
    ELSE "ready"

status == status_with(paused)

is_ready_but_for_pause == status_with(FALSE) = "ready"

\* Mutant: no replay check.
NeverLanded(n, e) == FALSE

\* A completion already recorded out of node n at epoch e: the replay key.
Landed(n, e) ==
    \E i \in 1 .. Len(moves) :
        /\ moves[i].kind \in {"transition", "migration"}
        /\ moves[i].from = n
        /\ moves[i].epoch = e

\* The negation of refuse_incoherent_attempt: at the newest epoch a report
\* comes from the current node, and an attempt whose own escalation or own
\* question is open is parked.
Coherent(n, e) ==
    /\ e = latest => current_node \in {n, Terminal}
    /\ esc # e
    /\ \A q \in open_questions : asked[q] # e

-----------------------------------------------------------------------------
(* The write fence *)

\* Mutant: the current epoch or an earlier one.
admits_stale(admission, e) ==
    \/ latest = 0
    \/ admission = "CURRENT" /\ e <= latest
    \/ admission = "AT_OR_ABOVE" /\ e >= latest
    \/ admission = "ABOVE" /\ e > latest

admits(admission, e) ==
    \/ latest = 0
    \/ admission = "CURRENT" /\ e = latest
    \/ admission = "AT_OR_ABOVE" /\ e >= latest
    \/ admission = "ABOVE" /\ e > latest

\* Whether runner r's attempt under lease l owns epoch e.
owns(r, l, e) ==
    /\ owner[e] = r
    /\ lease[e] = NoLease \/ l = NoLease \/ lease[e] = l

\* Mutant: the hub's own writes are fenced by epoch alone.
fence_by_epoch(admission, e) == admits(admission, e)

\* The fence of a hub-originated write, and of a runner's.
fence(admission, e) == ~is_terminal /\ admits(admission, e)

\* Mutant: the epoch's owner is not asked for.
unclaimed_fence(admission, r, l, e) == fence(admission, e)

claimed_fence(admission, r, l, e) == fence(admission, e) /\ owns(r, l, e)

\* Mutant: the newest epoch is read from the hub's own rows only, so that a
\* claim's reservation does not raise it.
record_epoch_owner_unread(e, who) ==
    /\ owner' = [owner EXCEPT ![e] = who]
    /\ latest' = IF who = Hub THEN e ELSE latest

\* Epoch e, above the newest, is taken by who.
record_epoch_owner(e, who) ==
    /\ owner' = [owner EXCEPT ![e] = who]
    /\ latest' = e

\* A hub mint: the lease row and the epoch's hub ownership, together.
record_hub_lease(e) ==
    /\ record_epoch_owner(e, Hub)
    /\ leased' = leased \cup {e}
    /\ UNCHANGED lease

\* A landing on a graph-declared gate opens the decision of that landing,
\* unless one is already recorded at the same node and epoch.
open_graph_gate_on_arrival(n, e) ==
    decisions' = IF n \in HumanNodes THEN decisions \cup {<<n, e>>} ELSE decisions

Moved(kind, from, to, e, by, gate) ==
    /\ Len(moves) < MaxMoves
    /\ moves' = Append(moves, [kind |-> kind, from |-> from, to |-> to,
                               epoch |-> e, by |-> by, gate |-> gate])

-----------------------------------------------------------------------------
(* Queue verbs and brakes *)

Promote ==
    /\ ~promoted
    /\ ~is_terminal
    /\ promoted' = TRUE
    /\ UNCHANGED <<fenceVars, route, moves, esc, askVars, gateVars, paused,
                   stopped, completed, hubVars>>

Demote ==
    /\ promoted
    /\ is_ready_but_for_pause
    /\ promoted' = FALSE
    /\ UNCHANGED <<fenceVars, route, moves, esc, askVars, gateVars, paused,
                   stopped, completed, hubVars>>

Pause ==
    /\ ~paused
    /\ status \notin {"stopped", "done", "delivering"}
    /\ paused' = TRUE
    /\ UNCHANGED <<fenceVars, route, moves, esc, askVars, gateVars, promoted,
                   stopped, completed, hubVars>>

Resume ==
    /\ paused
    /\ paused' = FALSE
    /\ UNCHANGED <<fenceVars, route, moves, esc, askVars, gateVars, promoted,
                   stopped, completed, hubVars>>

Stop ==
    /\ ~is_terminal
    /\ stopped' = TRUE
    /\ route' = NoOne
    /\ UNCHANGED <<fenceVars, moves, esc, askVars, gateVars, promoted, paused,
                   completed, hubVars>>

\* Manual completion, from any status but `done': a stopped chunk too.
CompleteByHand ==
    /\ status # "done"
    /\ completed' = TRUE
    /\ route' = NoOne
    /\ UNCHANGED <<fenceVars, moves, esc, askVars, gateVars, promoted, paused,
                   stopped, hubVars>>

-----------------------------------------------------------------------------
(* The route: claim, detach, release *)

\* Mutant: the claim writes the route only and leaves the epoch to the mint.
ClaimUnreserved(r) ==
    /\ route = NoOne
    /\ status = "ready"
    /\ route' = r
    /\ UNCHANGED <<fenceVars, moves, esc, askVars, gateVars, leverVars, hubVars>>

\* The claim writes the route and reserves the next epoch for the runner.
Claim(r) ==
    /\ route = NoOne
    /\ status = "ready"
    /\ latest < MaxEpoch
    /\ route' = r
    /\ record_epoch_owner(latest + 1, r)
    /\ UNCHANGED <<lease, leased, moves, esc, askVars, gateVars, leverVars, hubVars>>

\* An operator's detach, and retirement's release pass; no epoch is taken.
Detach ==
    /\ route # NoOne
    /\ ~is_terminal
    /\ route' = NoOne
    /\ UNCHANGED <<fenceVars, moves, esc, askVars, gateVars, leverVars, hubVars>>

\* The holder gives its route back.
Release(r, e) ==
    /\ route = r
    /\ status = "running"
    /\ e = latest
    /\ route' = NoOne
    /\ UNCHANGED <<fenceVars, moves, esc, askVars, gateVars, leverVars, hubVars>>

-----------------------------------------------------------------------------
(* Runner facts: lease.minted, escalation.recorded, question.asked *)

\* Mutant: any runner may take the next epoch.
MintUnrouted(r, l, e) ==
    /\ ~is_terminal
    /\ admits("AT_OR_ABOVE", e)
    /\ IF owner[e] = NoOne THEN e > latest ELSE owns(r, l, e)

\* An owned epoch is minted at only by its own attempt; an unowned one only
\* above the newest epoch and only by the live route's holder, which takes it.
MintAdmitted(r, l, e) ==
    /\ ~is_terminal
    /\ admits("AT_OR_ABOVE", e)
    /\ IF owner[e] = NoOne THEN e > latest /\ route = r ELSE owns(r, l, e)

LeaseMinted(r, l, e) ==
    /\ MintAdmitted(r, l, e)
    /\ owner' = [owner EXCEPT ![e] = IF @ = NoOne THEN r ELSE @]
    /\ lease' = [lease EXCEPT ![e] = IF @ = NoLease THEN l ELSE @]
    /\ leased' = leased \cup {e}
    /\ latest' = e
    /\ esc' = 0          \* a later lease mint supersedes the escalation
    /\ UNCHANGED <<route, moves, askVars, gateVars, leverVars, hubVars>>

EscalationRecorded(r, l, e) ==
    /\ claimed_fence("AT_OR_ABOVE", r, l, e)
    /\ esc' = e
    /\ UNCHANGED <<fenceVars, route, moves, askVars, gateVars, leverVars, hubVars>>

QuestionAsked(q, r, l, e) ==
    /\ asked[q] = 0
    /\ claimed_fence("AT_OR_ABOVE", r, l, e)
    /\ asked' = [asked EXCEPT ![q] = e]
    /\ UNCHANGED <<fenceVars, route, moves, esc, answered, gateVars, leverVars, hubVars>>

\* First write wins; an ended chunk's question takes no answer.
Answer(q) ==
    /\ q \in open_questions
    /\ ~is_terminal
    /\ answered' = answered \cup {q}
    /\ UNCHANGED <<fenceVars, route, moves, esc, asked, gateVars, leverVars, hubVars>>

-----------------------------------------------------------------------------
(* A runner's completion *)

\* Mutant: an exit closes whatever decision its own node and epoch spell.
RecordExitClosingVisit(t, e, by, gate) ==
    /\ t.kind = "transition"
    /\ Moved("transition", t.from, t.to, e, by, gate)
    /\ open_graph_gate_on_arrival(t.to, e)
    /\ closed' = closed \cup {<<t.from, e>>}
    /\ UNCHANGED <<route, esc, fenceVars, askVars, choiceOf, leverVars>>

\* The write a completion makes out of t.from at epoch e for `by', carrying the
\* decision <<t.from, gate>> (gate = 0: none).  A migration gives the route
\* back unless it lands on a hub node.
RecordExit(t, e, by, gate) ==
    /\ \/ /\ t.kind = "transition"
          /\ Moved("transition", t.from, t.to, e, by, gate)
          /\ open_graph_gate_on_arrival(t.to, e)
          /\ UNCHANGED <<route, esc>>
       \/ /\ t.kind = "migration"
          /\ Moved("migration", t.from, t.to, e, by, gate)
          /\ open_graph_gate_on_arrival(t.to, e)
          /\ route' = IF t.to \in HubNodes THEN route ELSE NoOne
          /\ UNCHANGED esc
       \/ /\ t.kind = "escalation"
          /\ esc' = e
          /\ UNCHANGED <<moves, route, decisions>>
    /\ closed' = IF gate = 0 THEN closed ELSE closed \cup {<<t.from, gate>>}
    /\ UNCHANGED <<fenceVars, askVars, choiceOf, leverVars>>

\* A completion naming no decision.  A runner submits a decision instead at
\* the nodes its configuration gates.  Its other checks are made again under
\* the lock; that no decision is pending at (node, epoch) is read before it,
\* but only the epoch's own attempt could open one, so all is one step.
PlainCompletion(r, l, e, t) ==
    /\ t.from \notin HubNodes \cup HumanNodes \cup Gates[r]
    /\ <<t.from, e>> \notin unclosed_decisions
    /\ ~Landed(t.from, e)
    /\ Coherent(t.from, e)
    /\ claimed_fence("CURRENT", r, l, e)
    /\ RecordExit(t, e, r, 0)
    /\ UNCHANGED hubVars

\* Mutant: a runner-configured gate is matched by arrival, as a graph gate is.
VisitEpochByArrival(n, e) == arrival_epoch_at(n, e)

\* The epoch a decision must carry to be the one of the visit being left.
VisitEpoch(n, e) == IF n \in HumanNodes THEN arrival_epoch_at(n, e) ELSE e

\* A completion naming a decision, checked before the lock is taken: the
\* decision is this gate's, of this visit, and resolved to this choice.  The
\* runner reads the epoch from the hub, so it is never above the newest; one
\* below it can only be refused.
CheckResolving(r, l, t, g) ==
    /\ Cardinality(inflight) < MaxInflight
    /\ t.from \notin HubNodes
    /\ <<t.from, g>> \in decisions
    /\ choiceOf[<<t.from, g>>] = t.choice
    /\ g = VisitEpoch(t.from, latest)
    /\ ~Landed(t.from, latest)
    /\ Coherent(t.from, latest)
    /\ inflight' = inflight \cup
          {[runner |-> r, lease |-> l, epoch |-> latest, taking |-> t, gate |-> g]}
    /\ UNCHANGED <<fenceVars, route, moves, esc, askVars, gateVars, leverVars, turn>>

\* A restart's gate resolution is carried at its hub-owned epoch by the
\* holder of the route, without a lease of its own.
exit_claimant_waived(s) ==
    /\ route = s.runner
    /\ \E i \in 1 .. Len(moves) :
          /\ moves[i].kind = "restart"
          /\ moves[i].epoch = s.epoch
          /\ moves[i].to = s.taking.from

\* Mutant: the answer to the check made before the lock is trusted under it.
ResolvingUnread(s) ==
    /\ fence("CURRENT", s.epoch)
    /\ exit_claimant_waived(s) \/ owns(s.runner, s.lease, s.epoch)

\* Under the lock, with the facts read again.
ResolvingAdmitted(s) ==
    /\ ~Landed(s.taking.from, s.epoch)
    /\ Coherent(s.taking.from, s.epoch)
    /\ fence("CURRENT", s.epoch)
    /\ exit_claimant_waived(s) \/ owns(s.runner, s.lease, s.epoch)

\* A request sent again while the first still works is a second copy of it,
\* past the same check: what commits may stay in flight.
CommitResolving(s) ==
    /\ ResolvingAdmitted(s)
    /\ inflight' \in {inflight, inflight \ {s}}
    /\ RecordExit(s.taking, s.epoch, s.runner, s.gate)
    /\ UNCHANGED turn

RefuseResolving(s) ==
    /\ ~ResolvingAdmitted(s)
    /\ inflight' = inflight \ {s}
    /\ UNCHANGED <<fenceVars, route, moves, esc, askVars, gateVars, leverVars, turn>>

-----------------------------------------------------------------------------
(* Gate decisions, requeue and restart *)

\* A runner-configured gate parks the chunk on a decision.
SubmitDecision(r, l, e, n) ==
    /\ n \in Gates[r] \ HubNodes
    /\ <<n, e>> \notin decisions
    /\ Coherent(n, e)
    /\ claimed_fence("CURRENT", r, l, e)
    /\ decisions' = decisions \cup {<<n, e>>}
    /\ UNCHANGED <<fenceVars, route, moves, esc, askVars, choiceOf, closed,
                   leverVars, hubVars>>

\* A person resolves an open decision to one of its node's choices; the first
\* write wins, and an ended chunk's decision takes none.
ResolveDecision(k, c) ==
    /\ k \in open_decisions
    /\ ~is_terminal
    /\ \E t \in Routes : t.from = k[1] /\ t.choice = c
    /\ choiceOf' = [choiceOf EXCEPT ![k] = c]
    /\ UNCHANGED <<fenceVars, route, moves, esc, askVars, decisions, closed,
                   leverVars, hubVars>>

Requeue ==
    /\ status = "needs_human"
    /\ esc' = 0
    /\ route' = NoOne
    /\ UNCHANGED <<fenceVars, moves, askVars, gateVars, leverVars, hubVars>>

\* The newest decision no fact has consumed yet, if there is one.
newest_unclosed_decision ==
    {k \in unclosed_decisions : \A j \in unclosed_decisions : j[2] <= k[2]}

\* The forced move: the open asks are answered, the newest unclosed decision
\* is closed, a fresh epoch is taken for the hub, and the route is kept.
Restart(n) ==
    /\ ~is_terminal
    /\ latest < MaxEpoch
    /\ answered' = answered \cup open_questions
    /\ \/ newest_unclosed_decision = {} /\ closed' = closed
       \/ \E k \in newest_unclosed_decision : closed' = closed \cup {k}
    /\ Moved("restart", current_node, n, latest + 1, Hub, 0)
    /\ record_epoch_owner(latest + 1, Hub)
    /\ esc' = 0
    /\ open_graph_gate_on_arrival(n, latest + 1)
    /\ UNCHANGED <<lease, leased, route, asked, choiceOf, leverVars, hubVars>>

-----------------------------------------------------------------------------
(* The hub's own steps at a hub-executed node *)

\* The visit is read while the chunk is delivering; the action then runs with
\* no lock held.
TakeTurn ==
    /\ turn = NoTurn
    /\ status = "delivering"
    /\ turn' = [node |-> current_node, epoch |-> latest]
    /\ UNCHANGED <<fenceVars, route, moves, esc, askVars, gateVars, leverVars, inflight>>

\* Mutant: the step is recorded without the fence.
CommitTransitionUnfenced(t) ==
    /\ turn # NoTurn
    /\ t.from = turn.node /\ t.kind = "transition"
    /\ turn.epoch < MaxEpoch
    /\ ~is_terminal
    /\ record_hub_lease(turn.epoch + 1)
    /\ Moved("transition", t.from, t.to, turn.epoch + 1, Hub, 0)
    /\ route' = IF t.to = Terminal THEN NoOne ELSE route
    /\ open_graph_gate_on_arrival(t.to, turn.epoch + 1)
    /\ esc' = 0
    /\ turn' = NoTurn
    /\ UNCHANGED <<askVars, choiceOf, closed, leverVars, inflight>>

\* A transition is recorded one epoch above the visit, which the hub takes.
CommitTransition(t) ==
    /\ turn # NoTurn
    /\ t.from = turn.node /\ t.kind = "transition"
    /\ turn.epoch < MaxEpoch
    /\ fence("ABOVE", turn.epoch + 1)
    /\ record_hub_lease(turn.epoch + 1)
    /\ Moved("transition", t.from, t.to, turn.epoch + 1, Hub, 0)
    /\ route' = IF t.to = Terminal THEN NoOne ELSE route
    /\ open_graph_gate_on_arrival(t.to, turn.epoch + 1)
    /\ esc' = 0          \* a later lease mint supersedes the escalation
    /\ turn' = NoTurn
    /\ UNCHANGED <<askVars, choiceOf, closed, leverVars, inflight>>

\* A migration is recorded at the visit's own epoch.
CommitMigration(t) ==
    /\ turn # NoTurn
    /\ t.from = turn.node /\ t.kind = "migration"
    /\ fence("CURRENT", turn.epoch)
    /\ ~ \E i \in 1 .. Len(moves) :
            /\ moves[i].kind = "migration"
            /\ moves[i].from = t.from /\ moves[i].epoch = turn.epoch
    /\ Moved("migration", t.from, t.to, turn.epoch, Hub, 0)
    /\ route' = IF t.to \in HubNodes THEN route ELSE NoOne
    /\ open_graph_gate_on_arrival(t.to, turn.epoch)
    /\ turn' = NoTurn
    /\ UNCHANGED <<fenceVars, esc, askVars, choiceOf, closed, leverVars, inflight>>

\* An unroutable answer, a missing action or a crossed bounce cap.
CommitEscalation ==
    /\ turn # NoTurn
    /\ turn.epoch < MaxEpoch
    /\ fence("ABOVE", turn.epoch + 1)
    /\ record_hub_lease(turn.epoch + 1)
    /\ esc' = turn.epoch + 1
    /\ turn' = NoTurn
    /\ UNCHANGED <<route, moves, askVars, gateVars, leverVars, inflight>>

\* A wait, a refusal by the fence, or a turn the hub's crash left unanswered.
EndTurn ==
    /\ turn # NoTurn
    /\ turn' = NoTurn
    /\ UNCHANGED <<fenceVars, route, moves, esc, askVars, gateVars, leverVars, inflight>>

-----------------------------------------------------------------------------
Levers == Promote \/ Demote \/ Pause \/ Resume \/ Stop \/ CompleteByHand
          \/ Detach \/ Requeue \/ \E n \in Nodes : Restart(n)

People == \/ \E q \in Questions : Answer(q)
          \/ \E k \in decisions, c \in Choices : ResolveDecision(k, c)

RunnerWrites ==
    \E r \in Runners :
       \/ Claim(r)
       \/ \E e \in Epochs : Release(r, e)
       \/ \E l \in Leases \cup {NoLease} :
             \/ \E e \in Epochs :
                   \/ LeaseMinted(r, l, e)
                   \/ EscalationRecorded(r, l, e)
                   \/ \E q \in Questions : QuestionAsked(q, r, l, e)
                   \/ \E n \in Nodes : SubmitDecision(r, l, e, n)
                   \/ \E t \in Routes : PlainCompletion(r, l, e, t)
             \/ \E t \in Routes, g \in Epochs : CheckResolving(r, l, t, g)

Resolving == \E s \in inflight : CommitResolving(s) \/ RefuseResolving(s)

HubSteps == \/ TakeTurn \/ CommitEscalation \/ EndTurn
            \/ \E t \in Routes : CommitTransition(t) \/ CommitMigration(t)

Next == Levers \/ People \/ RunnerWrites \/ Resolving \/ HubSteps

Spec == Init /\ [][Next]_vars

-----------------------------------------------------------------------------
(* Properties *)

MoveIndex == 1 .. Len(moves)

Ended == status \in {"stopped", "done"}

IsExit(m) == m.kind \in {"transition", "migration"}

(* The fence is sound: no epoch above the newest has an owner, the newest   *)
(* and every epoch a lease or a movement was recorded at has one            *)
(* (hub:epochs-owned in the store's own invariant suite).                   *)
EpochsOwned ==
    /\ \A e \in Epochs : owner[e] # NoOne => e <= latest
    /\ latest # 0 => owner[latest] # NoOne
    /\ \A e \in leased : owner[e] # NoOne
    /\ \A i \in MoveIndex : owner[moves[i].epoch] # NoOne

(* One runner at a time: while a runner holds the route, the newest epoch,  *)
(* the only one a runner's write is admitted at, is that runner's or the    *)
(* hub's.  Nothing the previous holder still sends can pass the fence.      *)
HolderOwnsFence ==
    route # NoOne => latest # 0 /\ owner[latest] \in {route, Hub}

(* A displaced attempt never moves the chunk: a movement a runner recorded  *)
(* was recorded at an epoch that runner owns, except the resolution of a    *)
(* gate that a restart at that hub-owned epoch landed on.                   *)
RunnerMovesOwned ==
    \A i \in MoveIndex :
        moves[i].by \in Runners =>
            \/ owner[moves[i].epoch] = moves[i].by
            \/ /\ owner[moves[i].epoch] = Hub
               /\ moves[i].gate # 0
               /\ \E j \in 1 .. (i - 1) :
                     /\ moves[j].kind = "restart"
                     /\ moves[j].epoch = moves[i].epoch
                     /\ moves[j].to = moves[i].from

(* The movements are one walk from the entry node: each leaves the node the *)
(* one before it landed on, whoever recorded the two.                       *)
WalkConnected ==
    \A i \in MoveIndex :
        moves[i].from = IF i = 1 THEN Entry ELSE moves[i - 1].to

(* Epochs never fall along the walk and a restart's epoch is new, so the    *)
(* order the movements were recorded in and the (recorded_at, epoch) order  *)
(* the derivation ranks them by agree.                                      *)
EpochsNeverFall ==
    \A i, j \in MoveIndex :
        i < j => /\ moves[i].epoch <= moves[j].epoch
                 /\ moves[j].kind = "restart" => moves[i].epoch < moves[j].epoch

(* No completion is applied twice: a node is left once per epoch            *)
(* (hub:one-transition-per-node-epoch), migrations included.  A hub node    *)
(* that routed back to itself may still migrate at the epoch it arrived at. *)
ExitsOnce ==
    \A i, j \in MoveIndex :
        /\ i # j /\ IsExit(moves[i]) /\ IsExit(moves[j])
        /\ moves[i].from = moves[j].from /\ moves[i].epoch = moves[j].epoch
        => moves[i].from \in HubNodes /\ moves[i].kind # moves[j].kind

(* A gate is left only on a person's word.  An exit from a graph gate the   *)
(* chunk landed on carries a decision, and a carried decision, whoever       *)
(* declared the gate, is the one of the very visit the exit ends, consumed   *)
(* by it and resolved to a choice that leads where the exit went.            *)
GateHonoured ==
    \A i \in MoveIndex :
        LET m == moves[i]
            human == m.from \in HumanNodes
        IN  IsExit(m) =>
              /\ human /\ i > 1 => m.gate # 0
              /\ m.gate # 0 =>
                    /\ m.gate = IF human /\ i > 1 THEN moves[i - 1].epoch ELSE m.epoch
                    /\ <<m.from, m.gate>> \in closed
                    /\ \E t \in Routes :
                          /\ t.from = m.from /\ t.to = m.to
                          /\ t.choice = choiceOf[<<m.from, m.gate>>]

(* A person's word carries one exit.  The exception is a graph gate the walk *)
(* comes back to within the epoch it was left at: the landing finds the      *)
(* decision of its (node, epoch) recorded already and opens none, and an     *)
(* attempt at a later epoch may carry that decision again.                   *)
DecisionCarriedOnce ==
    \A i, j \in MoveIndex :
        (/\ i < j /\ moves[i].gate # 0
         /\ moves[i].from = moves[j].from /\ moves[i].gate = moves[j].gate)
        => /\ moves[i].from \in HumanNodes
           /\ moves[i].epoch = moves[i].gate
           /\ moves[j - 1].epoch = moves[i].gate
           /\ moves[j].epoch > moves[i].gate

(* The first owner of an epoch is its owner for good.                       *)
OwnerForGood ==
    [][\A e \in Epochs : owner[e] # NoOne => owner'[e] = owner[e]]_vars

(* A runner never moves the chunk out from under another: when a runner's   *)
(* movement is recorded, the route is its own or nobody's.                  *)
HolderUndisturbed ==
    [][ Len(moves') > Len(moves) /\ moves'[Len(moves')].by \in Runners
            => route \in {moves'[Len(moves')].by, NoOne} ]_vars

(* An ended chunk stays ended and records nothing more but the operator     *)
(* completion of a stopped one.                                             *)
TerminalFinal ==
    [][ Ended =>
          /\ Ended'
          /\ UNCHANGED <<moves, fenceVars, gateVars, askVars, stopped>>
          /\ status = "done" => UNCHANGED completed ]_vars

-----------------------------------------------------------------------------
(* The promise all this keeps *)

(* The epoch fence: FencedChunk, read off the facts.                        *)
Fence == INSTANCE FencedChunk WITH
            epoch  <- latest,
            owner  <- IF latest = 0 THEN NoOne ELSE owner[latest],
            holder <- route,
            left   <- {[epoch |-> moves[i].epoch, by |-> moves[i].by] :
                         i \in {j \in MoveIndex : moves[j].by \in Runners}},
            ended  <- is_terminal

(* Every write the hub makes is a grant, a renewal, a revocation, a fenced  *)
(* move, a step of the hub or an end, or leaves all of these alone.         *)
KeepsFence == Fence!Spec
=============================================================================
