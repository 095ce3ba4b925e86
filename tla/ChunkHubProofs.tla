--------------------------- MODULE ChunkHubProofs ---------------------------
(***************************************************************************)
(* Proofs about ChunkHub, for every set of runners, leases, nodes, routes  *)
(* and questions and every bound.                                          *)
(*                                                                         *)
(* None of the invariants is inductive by itself.  That a fresh epoch is   *)
(* unowned needs EpochsOwned; that a hub turn's epoch is not above the     *)
(* newest one, which the hub's own commits rest on, needs TurnBelow; that  *)
(* a resolving completion closes a decision there is needs InflightSound;  *)
(* that a chunk that has not ended stands at a node needs                  *)
(* TerminalByTransition.  IInv is their conjunction.  That the walk is      *)
(* connected needs TurnInv besides: a hub turn whose epoch is still the     *)
(* newest is at the node where the chunk stands.                            *)
(***************************************************************************)
EXTENDS ChunkHub, TLAPS

LeverTypes ==
    /\ promoted \in BOOLEAN
    /\ paused \in BOOLEAN
    /\ stopped \in BOOLEAN
    /\ completed \in BOOLEAN

FenceTypes ==
    /\ owner \in [Epochs -> Runners \cup {Hub, NoOne}]
    /\ lease \in [Epochs -> Leases \cup {NoLease}]
    /\ leased \subseteq Epochs
    /\ latest \in 0 .. MaxEpoch

FactTypes ==
    /\ route \in Runners \cup {NoOne}
    /\ moves \in Seq(Movement)
    /\ esc \in 0 .. MaxEpoch
    /\ asked \in [Questions -> 0 .. MaxEpoch]
    /\ answered \subseteq {q \in Questions : asked[q] # 0}

GateTypes ==
    /\ decisions \subseteq Keys
    /\ choiceOf \in [Keys -> Choices \cup {NoChoice}]
    /\ closed \subseteq decisions

HubTypes ==
    /\ inflight \subseteq Submission
    /\ turn \in [node : HubNodes, epoch : Epochs] \cup {NoTurn}

(* Only a transition ends the walk. *)
TerminalByTransition ==
    \A i \in MoveIndex : moves[i].to = Terminal => moves[i].kind = "transition"

(* The hub's turn began at an epoch the chunk had already taken. *)
TurnBelow == turn # NoTurn => turn.epoch <= latest

(* A completion past its first check carries a decision that exists. *)
InflightSound ==
    \A s \in inflight : <<s.taking.from, s.gate>> \in decisions

(* No decision is ahead of the newest epoch. *)
DecisionsBelow == \A k \in decisions : k[2] <= latest

IInv == /\ LeverTypes /\ FenceTypes /\ FactTypes /\ GateTypes /\ HubTypes
        /\ TerminalByTransition /\ EpochsOwned /\ TurnBelow /\ InflightSound
        /\ DecisionsBelow

LEMMA TypesTogether ==
    TypeOK <=> LeverTypes /\ FenceTypes /\ FactTypes /\ GateTypes /\ HubTypes
  BY Zenon DEF TypeOK, LeverTypes, FenceTypes, FactTypes, GateTypes, HubTypes

-----------------------------------------------------------------------------
(* The initial state *)

LEMMA InitInv == Init => IInv
  <1> SUFFICES ASSUME Init PROVE IInv
    OBVIOUS
  <1>1. LeverTypes
    BY DEF Init, LeverTypes
  <1>2. FenceTypes
    BY BoundsAssumption DEF Init, FenceTypes
  <1>3. FactTypes
    BY BoundsAssumption DEF Init, FactTypes
  <1>4. GateTypes
    BY DEF Init, GateTypes
  <1>5. HubTypes
    BY DEF Init, HubTypes
  <1>6. TerminalByTransition /\ EpochsOwned /\ TurnBelow /\ InflightSound /\ DecisionsBelow
    BY DEF Init, TerminalByTransition, EpochsOwned, TurnBelow, InflightSound, MoveIndex,
       DecisionsBelow
  <1> QED
    BY <1>1, <1>2, <1>3, <1>4, <1>5, <1>6 DEF IInv

-----------------------------------------------------------------------------
(* What the building blocks of the actions do *)

LEMMA RouteFields ==
    ASSUME NEW t \in Routes
    PROVE  /\ t.from \in Nodes
           /\ t.to \in Nodes \cup {Terminal}
           /\ t.kind \in {"transition", "migration", "escalation"}
           /\ t.to = Terminal => t.kind = "transition"
  BY GraphAssumption DEF RouteType

LEMMA OwnedIsOld ==
    ASSUME FenceTypes, EpochsOwned, NEW e \in Epochs
    PROVE  /\ owner[e] # NoOne => e <= latest /\ latest # 0
           /\ latest < e => owner[e] = NoOne
  BY BoundsAssumption DEF FenceTypes, EpochsOwned, Epochs

\* The chunk stands at a node until it has ended.
LEMMA StandsAtNode ==
    ASSUME FactTypes, TerminalByTransition, ~is_terminal
    PROVE  current_node \in Nodes
  <1>1. CASE moves = <<>>
    BY <1>1, GraphAssumption DEF current_node
  <1>2. CASE moves # <<>>
    <2>1. Len(moves) \in MoveIndex /\ moves[Len(moves)] \in Movement
      BY <1>2 DEF FactTypes, MoveIndex
    <2>2. moves[Len(moves)].to = Terminal => moves[Len(moves)].kind = "transition"
      BY <2>1 DEF TerminalByTransition
    <2>3. ~newest_transition_is_terminal
      BY Zenon DEF is_terminal
    <2>4. moves[Len(moves)].to # Terminal
      BY <1>2, <2>2, <2>3 DEF newest_transition_is_terminal, latest_movement
    <2> QED
      BY <1>2, <2>1, <2>4 DEF current_node, latest_movement, Movement
  <1> QED
    BY <1>1, <1>2

LEMMA MovedAppends ==
    ASSUME FactTypes,
           NEW kind \in {"transition", "migration", "restart"},
           NEW from \in Nodes, NEW to \in Nodes \cup {Terminal},
           NEW e \in Epochs, NEW by \in Runners \cup {Hub}, NEW gate \in 0 .. MaxEpoch,
           Moved(kind, from, to, e, by, gate)
    PROVE  /\ moves' \in Seq(Movement)
           /\ Len(moves') = Len(moves) + 1
           /\ \A i \in 1 .. Len(moves) : moves'[i] = moves[i]
           /\ moves'[Len(moves) + 1] = [kind |-> kind, from |-> from, to |-> to,
                                        epoch |-> e, by |-> by, gate |-> gate]
  BY DEF FactTypes, Moved, Movement

\* A movement recorded at an epoch that is owned once the step is done.
LEMMA MovedInv ==
    ASSUME FactTypes, FenceTypes, TerminalByTransition, EpochsOwned,
           NEW kind \in {"transition", "migration", "restart"},
           NEW from \in Nodes, NEW to \in Nodes \cup {Terminal},
           NEW e \in Epochs, NEW by \in Runners \cup {Hub}, NEW gate \in 0 .. MaxEpoch,
           Moved(kind, from, to, e, by, gate),
           to = Terminal => kind = "transition",
           \A x \in Epochs : owner[x] # NoOne => owner'[x] # NoOne,
           owner'[e] # NoOne
    PROVE  /\ moves' \in Seq(Movement)
           /\ TerminalByTransition'
           /\ \A i \in MoveIndex' : owner'[moves'[i].epoch] # NoOne
  <1> DEFINE m == [kind |-> kind, from |-> from, to |-> to,
                   epoch |-> e, by |-> by, gate |-> gate]
  <1>1. /\ moves' \in Seq(Movement)
        /\ Len(moves') = Len(moves) + 1
        /\ \A i \in 1 .. Len(moves) : moves'[i] = moves[i]
        /\ moves'[Len(moves) + 1] = m
    BY MovedAppends
  <1>2. Len(moves) \in Nat /\ \A i \in 1 .. Len(moves) : moves[i] \in Movement
    BY DEF FactTypes
  <1>3. \A i \in MoveIndex' : i \in 1 .. Len(moves) \/ i = Len(moves) + 1
    BY <1>1, <1>2 DEF MoveIndex
  <1>4. TerminalByTransition'
    BY <1>1, <1>2, <1>3 DEF TerminalByTransition, MoveIndex
  <1>5. ASSUME NEW i \in MoveIndex' PROVE owner'[moves'[i].epoch] # NoOne
    <2>1. CASE i \in 1 .. Len(moves)
      BY <2>1, <1>1, <1>2 DEF EpochsOwned, MoveIndex, Movement
    <2>2. CASE i = Len(moves) + 1
      BY <2>2, <1>1
    <2> QED
      BY <1>3, <2>1, <2>2
  <1> QED
    BY <1>1, <1>4, <1>5

LEMMA GateOpens ==
    ASSUME GateTypes, InflightSound,
           NEW n \in Nodes \cup {Terminal}, NEW e \in Epochs,
           open_graph_gate_on_arrival(n, e)
    PROVE  /\ decisions' \subseteq Keys
           /\ decisions \subseteq decisions'
           /\ \A k \in decisions' : k \in decisions \/ k[2] = e
  BY GraphAssumption DEF GateTypes, open_graph_gate_on_arrival, Keys

-----------------------------------------------------------------------------
(* Every step keeps the invariant *)

\* Levers and people's answers that touch neither the fence nor the walk.
LEMMA LeverSteps ==
    ASSUME IInv,
           Promote \/ Demote \/ Pause \/ Resume \/ Stop \/ CompleteByHand \/ Detach \/ Requeue
    PROVE  IInv'
  <1>1. /\ UNCHANGED <<owner, lease, leased, latest, moves, asked, answered,
                       decisions, choiceOf, closed, inflight, turn>>
        /\ route' \in {route, NoOne}
        /\ esc' \in {esc, 0}
    BY DEF Promote, Demote, Pause, Resume, Stop, CompleteByHand, Detach, Requeue,
       fenceVars, gateVars, askVars, leverVars, hubVars
  <1>2. LeverTypes'
    BY Zenon DEF Promote, Demote, Pause, Resume, Stop, CompleteByHand, Detach,
       Requeue, IInv, LeverTypes, leverVars
  <1>3. FenceTypes' /\ GateTypes' /\ HubTypes'
    BY <1>1 DEF IInv, FenceTypes, GateTypes, HubTypes
  <1>4. FactTypes'
    BY <1>1, BoundsAssumption DEF IInv, FactTypes
  <1>5. TerminalByTransition' /\ EpochsOwned' /\ TurnBelow' /\ InflightSound' /\ DecisionsBelow'
    BY <1>1 DEF IInv, TerminalByTransition, EpochsOwned, TurnBelow, InflightSound, MoveIndex,
       DecisionsBelow
  <1> QED
    BY <1>2, <1>3, <1>4, <1>5 DEF IInv

LEMMA ClaimStep ==
    ASSUME IInv, NEW r \in Runners, Claim(r)
    PROVE  IInv'
  <1>1. /\ latest + 1 \in Epochs
        /\ owner' = [owner EXCEPT ![latest + 1] = r]
        /\ latest' = latest + 1
        /\ route' = r
        /\ UNCHANGED <<lease, leased, moves, esc, asked, answered, decisions, choiceOf,
                       closed, promoted, paused, stopped, completed, inflight, turn>>
    BY BoundsAssumption DEF Claim, record_epoch_owner, IInv, FenceTypes, Epochs,
       askVars, gateVars, leverVars, hubVars
  <1>2. LeverTypes' /\ FactTypes' /\ GateTypes' /\ HubTypes'
    BY <1>1 DEF IInv, LeverTypes, FactTypes, GateTypes, HubTypes
  <1>3. FenceTypes'
    BY <1>1, BoundsAssumption DEF IInv, FenceTypes, Epochs
  <1>4. EpochsOwned'
    BY <1>1, PartiesAssumption, BoundsAssumption
       DEF IInv, FenceTypes, FactTypes, EpochsOwned, MoveIndex, Movement, Epochs
  <1>5. TerminalByTransition' /\ TurnBelow' /\ InflightSound' /\ DecisionsBelow'
    BY <1>1, BoundsAssumption
       DEF IInv, FenceTypes, GateTypes, HubTypes, TerminalByTransition, TurnBelow,
           InflightSound, DecisionsBelow, MoveIndex, Keys, Epochs
  <1> QED
    BY <1>2, <1>3, <1>4, <1>5 DEF IInv

\* Release, and the steps that only write an ask, an answer, a resolution, an
\* escalation at an owned epoch, or nothing but the hub's own bookkeeping.
LEMMA QuietSteps ==
    ASSUME IInv,
           UNCHANGED <<owner, lease, leased, latest, moves, decisions, closed,
                       promoted, paused, stopped, completed>>,
           FactTypes', GateTypes', HubTypes',
           turn' = turn \/ turn' = NoTurn,
           inflight' \subseteq inflight
    PROVE  IInv'
  <1>1. LeverTypes' /\ FenceTypes'
    BY DEF IInv, LeverTypes, FenceTypes
  <1>2. TerminalByTransition' /\ EpochsOwned' /\ TurnBelow' /\ InflightSound' /\ DecisionsBelow'
    BY DEF IInv, TerminalByTransition, EpochsOwned, TurnBelow, InflightSound, MoveIndex,
       DecisionsBelow
  <1> QED
    BY <1>1, <1>2 DEF IInv

LEMMA LeaseMintedStep ==
    ASSUME IInv, NEW r \in Runners, NEW l \in Leases \cup {NoLease}, NEW e \in Epochs,
           LeaseMinted(r, l, e)
    PROVE  IInv'
  <1>1. /\ owner' = [owner EXCEPT ![e] = IF @ = NoOne THEN r ELSE @]
        /\ lease' = [lease EXCEPT ![e] = IF @ = NoLease THEN l ELSE @]
        /\ leased' = leased \cup {e}
        /\ latest' = e
        /\ esc' = 0
        /\ UNCHANGED <<route, moves, asked, answered, decisions, choiceOf,
                       closed, promoted, paused, stopped, completed, inflight, turn>>
    BY DEF LeaseMinted, askVars, gateVars, leverVars, hubVars
  <1>2. latest <= e
    <2>1. admits("AT_OR_ABOVE", e)
      BY Zenon DEF LeaseMinted, MintAdmitted
    <2> QED
      BY <2>1, BoundsAssumption DEF admits, IInv, FenceTypes, Epochs
  <1>3. LeverTypes' /\ GateTypes' /\ HubTypes'
    BY <1>1 DEF IInv, LeverTypes, GateTypes, HubTypes
  <1>4. FactTypes'
    BY <1>1, BoundsAssumption DEF IInv, FactTypes
  <1>5. FenceTypes'
    BY <1>1, BoundsAssumption DEF IInv, FenceTypes, Epochs
  <1>6. EpochsOwned'
    BY <1>1, <1>2, PartiesAssumption, BoundsAssumption
       DEF IInv, FenceTypes, FactTypes, EpochsOwned, MoveIndex, Movement, Epochs
  <1>7. TerminalByTransition' /\ TurnBelow' /\ InflightSound' /\ DecisionsBelow'
    BY <1>1, <1>2, BoundsAssumption
       DEF IInv, FenceTypes, GateTypes, HubTypes, TerminalByTransition, TurnBelow,
           InflightSound, DecisionsBelow, MoveIndex, Keys, Epochs
  <1> QED
    BY <1>3, <1>4, <1>5, <1>6, <1>7 DEF IInv

\* A movement or an escalation out of a node at an owned epoch.
LEMMA RecordExitStep ==
    ASSUME IInv, NEW t \in Routes, NEW e \in Epochs, NEW by \in Runners,
           NEW gate \in 0 .. MaxEpoch,
           RecordExit(t, e, by, gate),
           owner[e] # NoOne,
           gate # 0 => <<t.from, gate>> \in decisions,
           turn' = turn, inflight' \subseteq inflight
    PROVE  IInv'
  <1>1. /\ UNCHANGED <<owner, lease, leased, latest, asked, answered, choiceOf,
                       promoted, paused, stopped, completed>>
        /\ closed' \subseteq closed \cup {<<t.from, gate>>}
        /\ gate = 0 => closed' = closed
    BY DEF RecordExit, fenceVars, askVars, leverVars
  <1>2. /\ route' \in {route, NoOne}
        /\ esc' \in {esc, e}
        /\ decisions' \subseteq Keys
        /\ decisions \subseteq decisions'
        /\ \A k \in decisions' : k \in decisions \/ k[2] = e
        /\ moves' \in Seq(Movement)
        /\ TerminalByTransition'
        /\ \A i \in MoveIndex' : owner'[moves'[i].epoch] # NoOne
    <2>1. CASE t.kind = "transition"
      <3>1. /\ Moved("transition", t.from, t.to, e, by, gate)
            /\ open_graph_gate_on_arrival(t.to, e)
            /\ UNCHANGED <<route, esc>>
        BY <2>1 DEF RecordExit
      <3> QED
        BY <3>1, <1>1, RouteFields, MovedInv, GateOpens DEF IInv
    <2>2. CASE t.kind = "migration"
      <3>1. /\ Moved("migration", t.from, t.to, e, by, gate)
            /\ open_graph_gate_on_arrival(t.to, e)
            /\ route' \in {route, NoOne}
            /\ UNCHANGED esc
        BY <2>2 DEF RecordExit
      <3>2. t.to # Terminal
        BY <2>2, RouteFields
      <3> QED
        BY <3>1, <3>2, <1>1, RouteFields, MovedInv, GateOpens DEF IInv
    <2>3. CASE t.kind = "escalation"
      <3>1. esc' = e /\ UNCHANGED <<moves, route, decisions>>
        BY <2>3 DEF RecordExit
      <3> QED
        BY <3>1, <1>1 DEF IInv, FactTypes, GateTypes, TerminalByTransition, EpochsOwned, MoveIndex
    <2> QED
      BY <2>1, <2>2, <2>3, RouteFields
  <1>3. LeverTypes' /\ FenceTypes'
    BY <1>1 DEF IInv, LeverTypes, FenceTypes
  <1>4. FactTypes'
    BY <1>1, <1>2, BoundsAssumption DEF IInv, FactTypes, Epochs
  <1>5. GateTypes'
    BY <1>1, <1>2 DEF IInv, GateTypes
  <1>6. HubTypes' /\ InflightSound' /\ TurnBelow'
    BY <1>1, <1>2 DEF IInv, HubTypes, InflightSound, TurnBelow
  <1>7. EpochsOwned'
    BY <1>1, <1>2 DEF IInv, EpochsOwned, MoveIndex
  <1>8. DecisionsBelow'
    <2>1. e <= latest
      BY OwnedIsOld DEF IInv
    <2> QED
      BY <2>1, <1>1, <1>2 DEF IInv, DecisionsBelow
  <1> QED
    BY <1>2, <1>3, <1>4, <1>5, <1>6, <1>7, <1>8 DEF IInv

\* A runner's claimed write is made at an owned epoch.
LEMMA ClaimedIsOwned ==
    ASSUME NEW admission, NEW r \in Runners, NEW l, NEW e \in Epochs,
           claimed_fence(admission, r, l, e)
    PROVE  owner[e] = r /\ owner[e] # NoOne /\ ~is_terminal /\ admits(admission, e)
  BY PartiesAssumption DEF claimed_fence, owns, fence

LEMMA ReleaseStep ==
    ASSUME IInv, NEW r \in Runners, NEW e \in Epochs, Release(r, e)
    PROVE  IInv'
  <1>1. /\ route' = NoOne
        /\ UNCHANGED <<owner, lease, leased, latest, moves, esc, asked, answered, decisions,
                       choiceOf, closed, promoted, paused, stopped, completed, inflight, turn>>
    BY DEF Release, fenceVars, askVars, gateVars, leverVars, hubVars
  <1>2. FactTypes' /\ GateTypes' /\ HubTypes'
    BY <1>1 DEF IInv, FactTypes, GateTypes, HubTypes
  <1> QED
    BY <1>1, <1>2, QuietSteps

LEMMA EscalationStep ==
    ASSUME IInv, NEW r \in Runners, NEW l, NEW e \in Epochs, EscalationRecorded(r, l, e)
    PROVE  IInv'
  <1>1. /\ esc' = e
        /\ UNCHANGED <<owner, lease, leased, latest, route, moves, asked, answered, decisions,
                       choiceOf, closed, promoted, paused, stopped, completed, inflight, turn>>
    BY DEF EscalationRecorded, fenceVars, askVars, gateVars, leverVars, hubVars
  <1>2. FactTypes' /\ GateTypes' /\ HubTypes'
    BY <1>1, BoundsAssumption DEF IInv, FactTypes, GateTypes, HubTypes, Epochs
  <1> QED
    BY <1>1, <1>2, QuietSteps

LEMMA QuestionStep ==
    ASSUME IInv, NEW q \in Questions, NEW r \in Runners, NEW l, NEW e \in Epochs,
           QuestionAsked(q, r, l, e)
    PROVE  IInv'
  <1>1. /\ asked' = [asked EXCEPT ![q] = e]
        /\ UNCHANGED <<owner, lease, leased, latest, route, moves, esc, answered, decisions,
                       choiceOf, closed, promoted, paused, stopped, completed, inflight, turn>>
    BY DEF QuestionAsked, fenceVars, gateVars, leverVars, hubVars
  <1>2. FactTypes'
    BY <1>1, BoundsAssumption DEF IInv, FactTypes, Epochs
  <1>3. GateTypes' /\ HubTypes'
    BY <1>1 DEF IInv, GateTypes, HubTypes
  <1> QED
    BY <1>1, <1>2, <1>3, QuietSteps

LEMMA AnswerStep ==
    ASSUME IInv, NEW q \in Questions, Answer(q)
    PROVE  IInv'
  <1>1. /\ answered' = answered \cup {q}
        /\ asked[q] # 0
        /\ UNCHANGED <<owner, lease, leased, latest, route, moves, esc, asked, decisions,
                       choiceOf, closed, promoted, paused, stopped, completed, inflight, turn>>
    BY DEF Answer, open_questions, fenceVars, gateVars, leverVars, hubVars
  <1>2. FactTypes'
    BY <1>1 DEF IInv, FactTypes
  <1>3. GateTypes' /\ HubTypes'
    BY <1>1 DEF IInv, GateTypes, HubTypes
  <1> QED
    BY <1>1, <1>2, <1>3, QuietSteps

LEMMA ResolutionStep ==
    ASSUME IInv, NEW k \in decisions, NEW c \in Choices, ResolveDecision(k, c)
    PROVE  IInv'
  <1>1. /\ choiceOf' = [choiceOf EXCEPT ![k] = c]
        /\ UNCHANGED <<owner, lease, leased, latest, route, moves, esc, asked, answered,
                       decisions, closed, promoted, paused, stopped, completed, inflight, turn>>
    BY DEF ResolveDecision, fenceVars, askVars, leverVars, hubVars
  <1>2. GateTypes'
    BY <1>1 DEF IInv, GateTypes
  <1>3. FactTypes' /\ HubTypes'
    BY <1>1 DEF IInv, FactTypes, HubTypes
  <1> QED
    BY <1>1, <1>2, <1>3, QuietSteps

\* A refused completion and a turn that recorded nothing leave no trace.
LEMMA NoWriteSteps ==
    ASSUME IInv,
           EndTurn \/ \E s \in inflight : RefuseResolving(s)
    PROVE  IInv'
  <1>1. /\ UNCHANGED <<owner, lease, leased, latest, route, moves, esc, asked, answered, decisions,
                       choiceOf, closed, promoted, paused, stopped, completed>>
        /\ turn' = turn \/ turn' = NoTurn
        /\ inflight' \subseteq inflight
    BY DEF EndTurn, RefuseResolving, fenceVars, askVars, gateVars, leverVars
  <1>2. FactTypes' /\ GateTypes' /\ HubTypes'
    BY <1>1 DEF IInv, FactTypes, GateTypes, HubTypes
  <1> QED
    BY <1>1, <1>2, QuietSteps

LEMMA PlainCompletionStep ==
    ASSUME IInv, NEW r \in Runners, NEW l, NEW e \in Epochs, NEW t \in Routes,
           PlainCompletion(r, l, e, t)
    PROVE  IInv'
  <1>1. RecordExit(t, e, r, 0) /\ claimed_fence("CURRENT", r, l, e) /\ UNCHANGED <<inflight, turn>>
    BY DEF PlainCompletion, hubVars
  <1>2. owner[e] # NoOne
    BY <1>1, ClaimedIsOwned
  <1>3. 0 \in 0 .. MaxEpoch
    BY BoundsAssumption
  <1> QED
    BY <1>1, <1>2, <1>3, RecordExitStep

LEMMA CommitResolvingStep ==
    ASSUME IInv, NEW s \in inflight, CommitResolving(s)
    PROVE  IInv'
  <1>1. /\ s.runner \in Runners /\ s.epoch \in Epochs /\ s.taking \in Routes
        /\ s.gate \in Epochs /\ s.gate \in 0 .. MaxEpoch
        /\ <<s.taking.from, s.gate>> \in decisions
    BY BoundsAssumption DEF IInv, HubTypes, InflightSound, Submission, Epochs
  <1>2. /\ RecordExit(s.taking, s.epoch, s.runner, s.gate)
        /\ inflight' \subseteq inflight
        /\ turn' = turn
        /\ exit_claimant_waived(s) \/ owns(s.runner, s.lease, s.epoch)
    BY DEF CommitResolving, ResolvingAdmitted
  <1>3. owner[s.epoch] # NoOne
    <2>1. CASE exit_claimant_waived(s)
      BY <2>1 DEF exit_claimant_waived, IInv, EpochsOwned, MoveIndex
    <2>2. CASE owns(s.runner, s.lease, s.epoch)
      BY <2>2, <1>1, PartiesAssumption DEF owns
    <2> QED
      BY <1>2, <2>1, <2>2
  <1> QED
    BY <1>1, <1>2, <1>3, RecordExitStep

LEMMA CheckResolvingStep ==
    ASSUME IInv, NEW r \in Runners, NEW l \in Leases \cup {NoLease}, NEW t \in Routes,
           NEW g \in Epochs, CheckResolving(r, l, t, g)
    PROVE  IInv'
  <1> DEFINE s == [runner |-> r, lease |-> l, epoch |-> latest, taking |-> t, gate |-> g]
  <1>1. /\ <<t.from, g>> \in decisions
        /\ inflight' = inflight \cup {s}
        /\ UNCHANGED <<owner, lease, leased, latest, route, moves, esc, asked, answered, decisions,
                       choiceOf, closed, promoted, paused, stopped, completed, turn>>
    BY DEF CheckResolving, fenceVars, askVars, gateVars, leverVars
  <1>2. latest \in Epochs
    <2>1. <<t.from, g>>[2] <= latest
      BY <1>1 DEF IInv, DecisionsBelow
    <2> QED
      BY <2>1, BoundsAssumption DEF IInv, FenceTypes, Epochs
  <1>3. s \in Submission
    BY <1>2 DEF Submission
  <1>4. LeverTypes' /\ FenceTypes' /\ FactTypes' /\ GateTypes'
    BY <1>1 DEF IInv, LeverTypes, FenceTypes, FactTypes, GateTypes
  <1>5. HubTypes' /\ InflightSound'
    BY <1>1, <1>3 DEF IInv, HubTypes, InflightSound
  <1>6. TerminalByTransition' /\ EpochsOwned' /\ TurnBelow' /\ DecisionsBelow'
    BY <1>1 DEF IInv, TerminalByTransition, EpochsOwned, TurnBelow, MoveIndex, DecisionsBelow
  <1> QED
    BY <1>4, <1>5, <1>6 DEF IInv

LEMMA SubmitDecisionStep ==
    ASSUME IInv, NEW r \in Runners, NEW l, NEW e \in Epochs, NEW n \in Nodes,
           SubmitDecision(r, l, e, n)
    PROVE  IInv'
  <1>1. /\ decisions' = decisions \cup {<<n, e>>}
        /\ claimed_fence("CURRENT", r, l, e)
        /\ UNCHANGED <<owner, lease, leased, latest, route, moves, esc, asked, answered,
                       choiceOf, closed, promoted, paused, stopped, completed, inflight, turn>>
    BY DEF SubmitDecision, fenceVars, askVars, leverVars, hubVars
  <1>2. e <= latest
    BY <1>1, ClaimedIsOwned, OwnedIsOld DEF IInv
  <1>3. LeverTypes' /\ FenceTypes' /\ FactTypes' /\ HubTypes'
    BY <1>1 DEF IInv, LeverTypes, FenceTypes, FactTypes, HubTypes
  <1>4. GateTypes' /\ InflightSound' /\ DecisionsBelow'
    BY <1>1, <1>2 DEF IInv, GateTypes, Keys, InflightSound, DecisionsBelow
  <1>5. TerminalByTransition' /\ EpochsOwned' /\ TurnBelow'
    BY <1>1 DEF IInv, TerminalByTransition, EpochsOwned, TurnBelow, MoveIndex
  <1> QED
    BY <1>3, <1>4, <1>5 DEF IInv

\* The hub takes the epoch after the newest one.
LEMMA HubTakesEpoch ==
    ASSUME FenceTypes, EpochsOwned, latest < MaxEpoch,
           record_epoch_owner(latest + 1, Hub),
           lease' = lease, leased' = leased \/ leased' = leased \cup {latest + 1}
    PROVE  /\ latest + 1 \in Epochs
           /\ latest' = latest + 1
           /\ FenceTypes'
           /\ \A e \in Epochs : owner[e] # NoOne => owner'[e] = owner[e]
           /\ owner'[latest + 1] = Hub
           /\ owner'[latest + 1] # NoOne
           /\ \A e \in Epochs : owner'[e] # NoOne => e <= latest'
           /\ latest' # 0 => owner'[latest'] # NoOne
           /\ \A e \in leased' : owner'[e] # NoOne
  <1>1. /\ owner' = [owner EXCEPT ![latest + 1] = Hub]
        /\ latest' = latest + 1
        /\ latest \in 0 .. MaxEpoch
        /\ latest + 1 \in Epochs
    BY BoundsAssumption DEF record_epoch_owner, FenceTypes, Epochs
  <1>2. FenceTypes'
    <2>1. owner' \in [Epochs -> Runners \cup {Hub, NoOne}]
      BY <1>1 DEF FenceTypes
    <2>2. leased' \subseteq Epochs
      BY <1>1 DEF FenceTypes
    <2>3. latest' \in 0 .. MaxEpoch
      BY <1>1 DEF Epochs
    <2> QED
      BY <2>1, <2>2, <2>3 DEF FenceTypes
  <1>3. \A e \in Epochs : owner'[e] = IF e = latest + 1 THEN Hub ELSE owner[e]
    BY <1>1 DEF FenceTypes
  <1>4. \A e \in Epochs : owner[e] # NoOne => e <= latest
    BY DEF EpochsOwned
  <1>5. \A e \in Epochs : owner[e] # NoOne => owner'[e] = owner[e]
    BY <1>1, <1>3, <1>4 DEF Epochs
  <1>6. owner'[latest + 1] = Hub /\ Hub # NoOne
    BY <1>1, <1>3, PartiesAssumption
  <1>7. \A e \in Epochs : owner'[e] # NoOne => e <= latest'
    BY <1>1, <1>3, <1>4 DEF Epochs
  <1>8. \A e \in leased' : owner'[e] # NoOne
    BY <1>1, <1>3, <1>6 DEF FenceTypes, EpochsOwned
  <1> QED
    BY <1>1, <1>2, <1>5, <1>6, <1>7, <1>8

\* A movement the hub records at the epoch it takes for it.
LEMMA HubMoveStep ==
    ASSUME IInv, latest < MaxEpoch,
           NEW kind \in {"transition", "restart"},
           NEW from \in Nodes, NEW to \in Nodes \cup {Terminal},
           to = Terminal => kind = "transition",
           record_epoch_owner(latest + 1, Hub),
           lease' = lease, leased' = leased \/ leased' = leased \cup {latest + 1},
           Moved(kind, from, to, latest + 1, Hub, 0),
           open_graph_gate_on_arrival(to, latest + 1),
           UNCHANGED <<asked, choiceOf, promoted, paused, stopped, completed, inflight>>,
           route' = route \/ route' = NoOne,
           esc' = 0,
           answered' \subseteq answered \cup open_questions,
           closed' \subseteq decisions,
           turn' = turn \/ turn' = NoTurn
    PROVE  IInv'
  <1>1. /\ latest + 1 \in Epochs
        /\ latest' = latest + 1
        /\ FenceTypes'
        /\ \A e \in Epochs : owner[e] # NoOne => owner'[e] # NoOne
        /\ owner'[latest + 1] # NoOne
        /\ \A e \in Epochs : owner'[e] # NoOne => e <= latest'
        /\ latest' # 0 => owner'[latest'] # NoOne
        /\ \A e \in leased' : owner'[e] # NoOne
    BY HubTakesEpoch DEF IInv
  <1>2. 0 \in 0 .. MaxEpoch /\ latest \in 0 .. MaxEpoch
    BY BoundsAssumption DEF IInv, FenceTypes
  <1>3. /\ moves' \in Seq(Movement)
        /\ TerminalByTransition'
        /\ \A i \in MoveIndex' : owner'[moves'[i].epoch] # NoOne
    <2>1. kind \in {"transition", "migration", "restart"} /\ Hub \in Runners \cup {Hub}
      OBVIOUS
    <2> QED
      BY <1>1, <1>2, <2>1, MovedInv DEF IInv
  <1>4. /\ decisions' \subseteq Keys
        /\ decisions \subseteq decisions'
        /\ \A k \in decisions' : k \in decisions \/ k[2] = latest + 1
    BY <1>1, GateOpens DEF IInv
  <1>5. EpochsOwned'
    BY <1>1, <1>3 DEF EpochsOwned
  <1>6. LeverTypes'
    BY DEF IInv, LeverTypes
  <1>7. FactTypes'
    BY <1>2, <1>3 DEF IInv, FactTypes, open_questions
  <1>8. GateTypes'
    BY <1>4 DEF IInv, GateTypes
  <1>9. HubTypes' /\ InflightSound'
    BY <1>4 DEF IInv, HubTypes, InflightSound
  <1>10. TurnBelow'
    BY <1>1, <1>2, BoundsAssumption DEF IInv, HubTypes, TurnBelow, Epochs
  <1>11. DecisionsBelow'
    BY <1>1, <1>2, <1>4, BoundsAssumption DEF IInv, GateTypes, DecisionsBelow, Keys, Epochs
  <1> QED
    BY <1>1, <1>3, <1>5, <1>6, <1>7, <1>8, <1>9, <1>10, <1>11 DEF IInv

LEMMA RestartStep ==
    ASSUME IInv, NEW n \in Nodes, Restart(n)
    PROVE  IInv'
  <1>1. current_node \in Nodes
    BY StandsAtNode DEF Restart, IInv
  <1>2. closed' \subseteq decisions
    BY DEF Restart, newest_unclosed_decision, unclosed_decisions, IInv, GateTypes
  <1>3. /\ latest < MaxEpoch
        /\ record_epoch_owner(latest + 1, Hub)
        /\ Moved("restart", current_node, n, latest + 1, Hub, 0)
        /\ open_graph_gate_on_arrival(n, latest + 1)
        /\ esc' = 0
        /\ answered' = answered \cup open_questions
        /\ UNCHANGED <<lease, leased, route, asked, choiceOf, promoted, paused, stopped,
                       completed, inflight, turn>>
    BY DEF Restart, leverVars, hubVars
  <1>4. n # Terminal
    BY GraphAssumption
  <1> QED
    BY <1>1, <1>2, <1>3, <1>4, HubMoveStep

\* A hub step above the visit's epoch is made only while that is the newest.
LEMMA TurnIsNewest ==
    ASSUME IInv, turn # NoTurn, fence("ABOVE", turn.epoch + 1)
    PROVE  turn.epoch = latest /\ turn.node \in HubNodes
  BY BoundsAssumption DEF IInv, HubTypes, FenceTypes, TurnBelow, fence, admits, Epochs

LEMMA TakeTurnStep ==
    ASSUME IInv, TakeTurn
    PROVE  IInv'
  <1>1. /\ turn' = [node |-> current_node, epoch |-> latest]
        /\ status = "delivering"
        /\ UNCHANGED <<owner, lease, leased, latest, route, moves, esc, asked, answered, decisions,
                       choiceOf, closed, promoted, paused, stopped, completed, inflight>>
    BY DEF TakeTurn, fenceVars, askVars, gateVars, leverVars
  <1>2. moves # <<>> /\ current_node \in HubNodes
    BY <1>1 DEF status, status_with, latest_movement_enters_hub_node
  <1>3. latest \in Epochs
    <2>1. Len(moves) \in MoveIndex /\ moves[Len(moves)] \in Movement
      BY <1>2 DEF IInv, FactTypes, MoveIndex
    <2>2. owner[moves[Len(moves)].epoch] # NoOne /\ moves[Len(moves)].epoch \in Epochs
      BY <2>1 DEF IInv, EpochsOwned, Movement
    <2>3. latest # 0
      BY <2>2, OwnedIsOld DEF IInv
    <2> QED
      BY <2>3, BoundsAssumption DEF IInv, FenceTypes, Epochs
  <1>4. HubTypes' /\ TurnBelow'
    BY <1>1, <1>2, <1>3 DEF IInv, HubTypes, TurnBelow, Epochs
  <1>5. LeverTypes' /\ FenceTypes' /\ FactTypes' /\ GateTypes'
    BY <1>1 DEF IInv, LeverTypes, FenceTypes, FactTypes, GateTypes
  <1>6. TerminalByTransition' /\ EpochsOwned' /\ InflightSound' /\ DecisionsBelow'
    BY <1>1 DEF IInv, TerminalByTransition, EpochsOwned, InflightSound, MoveIndex, DecisionsBelow
  <1> QED
    BY <1>4, <1>5, <1>6 DEF IInv

LEMMA CommitTransitionStep ==
    ASSUME IInv, NEW t \in Routes, CommitTransition(t)
    PROVE  IInv'
  <1>1. turn.epoch = latest
    BY TurnIsNewest DEF CommitTransition
  <1>2. /\ latest < MaxEpoch
        /\ record_epoch_owner(latest + 1, Hub)
        /\ leased' = leased \cup {latest + 1}
        /\ Moved("transition", t.from, t.to, latest + 1, Hub, 0)
        /\ open_graph_gate_on_arrival(t.to, latest + 1)
        /\ esc' = 0
        /\ turn' = NoTurn
        /\ route' = route \/ route' = NoOne
        /\ UNCHANGED <<lease, asked, answered, choiceOf, closed, promoted, paused, stopped,
                       completed, inflight>>
    BY <1>1 DEF CommitTransition, record_hub_lease, askVars, leverVars
  <1>3. closed' \subseteq decisions
    BY <1>2 DEF IInv, GateTypes
  <1>4. t.from \in Nodes /\ t.to \in Nodes \cup {Terminal}
    BY RouteFields
  <1> QED
    BY <1>2, <1>3, <1>4, HubMoveStep

LEMMA CommitMigrationStep ==
    ASSUME IInv, NEW t \in Routes, CommitMigration(t)
    PROVE  IInv'
  <1>1. /\ t.kind = "migration"
        /\ turn # NoTurn
        /\ fence("CURRENT", turn.epoch)
        /\ Moved("migration", t.from, t.to, turn.epoch, Hub, 0)
        /\ open_graph_gate_on_arrival(t.to, turn.epoch)
        /\ route' = route \/ route' = NoOne
        /\ turn' = NoTurn
        /\ UNCHANGED <<owner, lease, leased, latest, esc, asked, answered, choiceOf, closed,
                       promoted, paused, stopped, completed, inflight>>
    BY DEF CommitMigration, fenceVars, askVars, leverVars
  <1>2. turn.epoch \in Epochs /\ turn.epoch = latest /\ owner[turn.epoch] # NoOne
    BY <1>1, BoundsAssumption
       DEF IInv, HubTypes, FenceTypes, TurnBelow, EpochsOwned, fence, admits, Epochs
  <1>3. t.from \in Nodes /\ t.to \in Nodes \cup {Terminal} /\ t.to # Terminal
    BY <1>1, RouteFields
  <1>4. 0 \in 0 .. MaxEpoch
    BY BoundsAssumption
  <1>5. /\ moves' \in Seq(Movement)
        /\ TerminalByTransition'
        /\ \A i \in MoveIndex' : owner'[moves'[i].epoch] # NoOne
    BY <1>1, <1>2, <1>3, <1>4, MovedInv, ZenonT(30) DEF IInv
  <1>6. /\ decisions' \subseteq Keys
        /\ decisions \subseteq decisions'
        /\ \A k \in decisions' : k \in decisions \/ k[2] = latest
    BY <1>1, <1>2, <1>3, GateOpens DEF IInv
  <1>7. LeverTypes' /\ FenceTypes'
    BY <1>1 DEF IInv, LeverTypes, FenceTypes
  <1>8. FactTypes' /\ GateTypes'
    BY <1>1, <1>5, <1>6 DEF IInv, FactTypes, GateTypes
  <1>9. HubTypes' /\ InflightSound' /\ TurnBelow'
    BY <1>1, <1>6 DEF IInv, HubTypes, InflightSound, TurnBelow
  <1>10. EpochsOwned'
    BY <1>1, <1>5 DEF IInv, EpochsOwned
  <1>11. DecisionsBelow'
    BY <1>1, <1>6, BoundsAssumption DEF IInv, FenceTypes, DecisionsBelow
  <1> QED
    BY <1>5, <1>7, <1>8, <1>9, <1>10, <1>11 DEF IInv

LEMMA CommitEscalationStep ==
    ASSUME IInv, CommitEscalation
    PROVE  IInv'
  <1>1. turn.epoch = latest
    BY TurnIsNewest DEF CommitEscalation
  <1>2. /\ latest < MaxEpoch
        /\ record_epoch_owner(latest + 1, Hub)
        /\ leased' = leased \cup {latest + 1}
        /\ esc' = latest + 1
        /\ turn' = NoTurn
        /\ UNCHANGED <<lease, route, moves, asked, answered, decisions, choiceOf, closed, promoted,
                       paused, stopped, completed, inflight>>
    BY <1>1 DEF CommitEscalation, record_hub_lease, askVars, gateVars, leverVars
  <1>3. /\ latest + 1 \in Epochs
        /\ latest' = latest + 1
        /\ FenceTypes'
        /\ \A e \in Epochs : owner[e] # NoOne => owner'[e] = owner[e]
        /\ \A e \in Epochs : owner'[e] # NoOne => e <= latest'
        /\ latest' # 0 => owner'[latest'] # NoOne
        /\ \A e \in leased' : owner'[e] # NoOne
    BY <1>2, HubTakesEpoch DEF IInv
  <1>4. EpochsOwned'
    <2>1. ASSUME NEW i \in MoveIndex' PROVE owner'[moves'[i].epoch] # NoOne
      <3>1. i \in MoveIndex /\ moves[i] \in Movement /\ moves' = moves
        BY <1>2 DEF IInv, FactTypes, MoveIndex
      <3>2. moves[i].epoch \in Epochs /\ owner[moves[i].epoch] # NoOne
        BY <3>1 DEF IInv, EpochsOwned, Movement
      <3> QED
        BY <1>3, <3>1, <3>2
    <2> QED
      BY <1>3, <2>1 DEF EpochsOwned
  <1>5. LeverTypes' /\ GateTypes' /\ HubTypes'
    BY <1>2 DEF IInv, LeverTypes, GateTypes, HubTypes
  <1>6. FactTypes'
    BY <1>2, <1>3, BoundsAssumption DEF IInv, FactTypes, Epochs
  <1>7. TerminalByTransition' /\ TurnBelow' /\ InflightSound'
    BY <1>2 DEF IInv, TerminalByTransition, TurnBelow, InflightSound, MoveIndex
  <1>8. DecisionsBelow'
    BY <1>2, <1>3, BoundsAssumption
       DEF IInv, FenceTypes, GateTypes, DecisionsBelow, Keys, Epochs
  <1> QED
    BY <1>3, <1>4, <1>5, <1>6, <1>7, <1>8 DEF IInv

LEMMA StutterStep ==
    ASSUME IInv, UNCHANGED vars
    PROVE  IInv'
  <1>1. UNCHANGED <<owner, lease, leased, latest, route, moves, esc, asked, answered, decisions,
                    choiceOf, closed, promoted, paused, stopped, completed, inflight, turn>>
    BY DEF vars, fenceVars, askVars, gateVars, leverVars, hubVars
  <1>2. FactTypes' /\ GateTypes' /\ HubTypes'
    BY <1>1 DEF IInv, FactTypes, GateTypes, HubTypes
  <1> QED
    BY <1>1, <1>2, QuietSteps

\* IInv is inductive: one step per disjunct of Next.
LEMMA NextInv ==
    ASSUME IInv, [Next]_vars
    PROVE  IInv'
  <1>1. CASE Levers
    BY <1>1, LeverSteps, RestartStep DEF Levers
  <1>2. CASE People
    BY <1>2, AnswerStep, ResolutionStep DEF People
  <1>3. CASE RunnerWrites
    <2>1. PICK r \in Runners :
             \/ Claim(r)
             \/ \E e \in Epochs : Release(r, e)
             \/ \E l \in Leases \cup {NoLease} :
                   \/ \E e \in Epochs :
                         \/ LeaseMinted(r, l, e)
                         \/ EscalationRecorded(r, l, e)
                         \/ \E q \in Questions : QuestionAsked(q, r, l, e)
                         \/ \E n \in Nodes : SubmitDecision(r, l, e, n)
                         \/ \E t \in Routes : PlainCompletion(r, l, e, t)
                   \/ \E t \in Routes, g \in Epochs : CheckResolving(r, l, t, g)
      BY <1>3 DEF RunnerWrites
    <2> QED
      BY <2>1, ClaimStep, ReleaseStep, LeaseMintedStep, EscalationStep, QuestionStep,
         SubmitDecisionStep, PlainCompletionStep, CheckResolvingStep
  <1>4. CASE Resolving
    BY <1>4, CommitResolvingStep, NoWriteSteps DEF Resolving
  <1>5. CASE HubSteps
    BY <1>5, TakeTurnStep, CommitEscalationStep, NoWriteSteps, CommitTransitionStep,
       CommitMigrationStep DEF HubSteps
  <1>6. CASE UNCHANGED vars
    BY <1>6, StutterStep
  <1> QED
    BY <1>1, <1>2, <1>3, <1>4, <1>5, <1>6 DEF Next

LEMMA Inductive == Spec => []IInv
  BY InitInv, NextInv, PTL DEF Spec

(* Every reachable state is of the declared types, whatever the graph, the *)
(* runners and the bounds: in particular no decision is closed that was    *)
(* never opened, and no hub turn is taken outside a hub node.              *)
THEOREM TypeCorrect == Spec => []TypeOK
  <1>1. IInv => TypeOK
    BY TypesTogether DEF IInv
  <1> QED
    BY <1>1, Inductive, PTL

(* The fence is sound in every reachable state: the newest epoch, every    *)
(* leased one and every one a movement was recorded at is owned, and none  *)
(* above the newest is (record_epoch_owner, record_hub_lease).             *)
THEOREM EpochsAreOwned == Spec => []EpochsOwned
  <1>1. IInv => EpochsOwned
    BY DEF IInv
  <1> QED
    BY <1>1, Inductive, PTL

-----------------------------------------------------------------------------
(* The fence, step by step *)

(* A step leaves the owners and the newest epoch alone and the route where  *)
(* it is or free, or it takes one fresh epoch for the hub or for the runner *)
(* that then holds the route.                                               *)
FenceKept == UNCHANGED <<owner, latest>> /\ route' \in {route, NoOne}

FenceTaken ==
    /\ latest' \in Epochs /\ latest' > latest
    /\ \E who \in Runners \cup {Hub} :
          /\ owner' = [owner EXCEPT ![latest'] = who]
          /\ who = Hub \/ route' = who

LEMMA HubTaken ==
    ASSUME IInv, latest < MaxEpoch, record_epoch_owner(latest + 1, Hub)
    PROVE  FenceTaken
  <1>1. /\ latest' = latest + 1 /\ owner' = [owner EXCEPT ![latest'] = Hub]
        /\ latest' \in Epochs /\ latest' > latest
    BY BoundsAssumption DEF IInv, FenceTypes, record_epoch_owner, Epochs
  <1> QED
    BY <1>1 DEF FenceTaken

LEMMA FenceMoves ==
    ASSUME IInv, [Next]_vars
    PROVE  FenceKept \/ FenceTaken
  <1>1. ASSUME NEW n \in Nodes, Restart(n) PROVE FenceTaken
    BY <1>1, HubTaken DEF Restart
  <1>2. ASSUME NEW t \in Routes, CommitTransition(t) PROVE FenceTaken
    <2>1. turn.epoch = latest
      BY <1>2, TurnIsNewest DEF CommitTransition
    <2> QED
      BY <1>2, <2>1, HubTaken DEF CommitTransition, record_hub_lease
  <1>3. ASSUME CommitEscalation PROVE FenceTaken
    <2>1. turn.epoch = latest
      BY <1>3, TurnIsNewest DEF CommitEscalation
    <2> QED
      BY <1>3, <2>1, HubTaken DEF CommitEscalation, record_hub_lease
  <1>4. ASSUME NEW r \in Runners, Claim(r) PROVE FenceTaken
    <2>1. /\ latest' = latest + 1 /\ owner' = [owner EXCEPT ![latest'] = r] /\ route' = r
          /\ latest' \in Epochs /\ latest' > latest
      BY <1>4, BoundsAssumption DEF IInv, FenceTypes, Claim, record_epoch_owner, Epochs
    <2> QED
      BY <2>1 DEF FenceTaken
  <1>5. ASSUME NEW r \in Runners, NEW l \in Leases \cup {NoLease}, NEW e \in Epochs,
               LeaseMinted(r, l, e)
        PROVE  FenceKept \/ FenceTaken
    <2>1. /\ MintAdmitted(r, l, e) /\ latest' = e /\ UNCHANGED route
          /\ owner' = [owner EXCEPT ![e] = IF @ = NoOne THEN r ELSE @]
      BY <1>5 DEF LeaseMinted
    <2>2. CASE owner[e] = NoOne
      <3>1. e > latest /\ route = r
        BY <2>1, <2>2 DEF MintAdmitted
      <3> QED
        BY <2>1, <2>2, <3>1 DEF FenceTaken
    <2>3. CASE owner[e] # NoOne
      <3>1. e <= latest /\ latest # 0
        BY <2>3, OwnedIsOld DEF IInv
      <3>2. e >= latest
        BY <2>1, <3>1 DEF MintAdmitted, admits
      <3>3. owner' = owner
        BY <2>1, <2>3 DEF IInv, FenceTypes
      <3> QED
        BY <2>1, <3>1, <3>2, <3>3 DEF FenceKept, IInv, FenceTypes, Epochs
    <2> QED
      BY <2>2, <2>3
  <1>6. ASSUME NEW t \in Routes, NEW e, NEW by, NEW gate, RecordExit(t, e, by, gate)
        PROVE  FenceKept
    BY <1>6 DEF RecordExit, FenceKept, fenceVars
  <1>7. CASE Levers
    BY <1>1, <1>7 DEF Levers, Promote, Demote, Pause, Resume, Stop, CompleteByHand, Detach,
       Requeue, FenceKept, fenceVars
  <1>8. CASE People
    BY <1>8 DEF People, Answer, ResolveDecision, FenceKept, fenceVars
  <1>9. CASE RunnerWrites
    <2>1. ASSUME NEW r, NEW l, NEW e, NEW t \in Routes, PlainCompletion(r, l, e, t)
          PROVE  FenceKept
      BY <2>1, <1>6 DEF PlainCompletion
    <2>2. ASSUME NEW r, NEW l, NEW e, NEW q, NEW n, NEW t, NEW g,
                 \/ Release(r, e) \/ EscalationRecorded(r, l, e) \/ QuestionAsked(q, r, l, e)
                 \/ SubmitDecision(r, l, e, n) \/ CheckResolving(r, l, t, g)
          PROVE  FenceKept
      BY <2>2 DEF Release, EscalationRecorded, QuestionAsked, SubmitDecision, CheckResolving,
         FenceKept, fenceVars
    <2> QED
      BY <1>4, <1>5, <1>9, <2>1, <2>2 DEF RunnerWrites
  <1>10. CASE Resolving
    <2>1. PICK s \in inflight : CommitResolving(s) \/ RefuseResolving(s)
      BY <1>10 DEF Resolving
    <2>2. s.taking \in Routes
      BY DEF IInv, HubTypes, Submission
    <2> QED
      BY <1>6, <2>1, <2>2 DEF CommitResolving, RefuseResolving, FenceKept, fenceVars
  <1>11. CASE HubSteps
    BY <1>2, <1>3, <1>11 DEF HubSteps, TakeTurn, CommitMigration, EndTurn, FenceKept, fenceVars
  <1>12. CASE UNCHANGED vars
    BY <1>12 DEF vars, fenceVars, FenceKept
  <1> QED
    BY <1>7, <1>8, <1>9, <1>10, <1>11, <1>12 DEF Next

\* Whoever owns an epoch owns it after any step.
LEMMA OwnersKept ==
    ASSUME IInv, [Next]_vars, NEW e \in Epochs, owner[e] # NoOne
    PROVE  owner'[e] = owner[e]
  <1>1. CASE FenceKept
    BY <1>1 DEF FenceKept
  <1>2. CASE FenceTaken
    <2>1. e <= latest /\ latest' > latest /\ latest' \in Epochs /\ latest \in 0 .. MaxEpoch
      BY <1>2, OwnedIsOld DEF FenceTaken, IInv, FenceTypes
    <2>2. e # latest'
      BY <2>1, BoundsAssumption DEF Epochs
    <2> QED
      BY <1>2, <2>1, <2>2 DEF FenceTaken, IInv, FenceTypes
  <1> QED
    BY <1>1, <1>2, FenceMoves

(* No step of the hub or of any runner hands an epoch to a second owner:   *)
(* the epoch_owners row a claim, a mint or a hub step wrote first stands.  *)
THEOREM OwnersAreForGood == Spec => OwnerForGood
  <1>1. ASSUME IInv, [Next]_vars
        PROVE  [\A e \in Epochs : owner[e] # NoOne => owner'[e] = owner[e]]_vars
    BY <1>1, OwnersKept
  <1> QED
    BY <1>1, Inductive, PTL DEF Spec, OwnerForGood

LEMMA HolderStep ==
    ASSUME IInv, HolderOwnsFence, [Next]_vars
    PROVE  HolderOwnsFence'
  <1>1. CASE FenceKept
    BY <1>1 DEF FenceKept, HolderOwnsFence
  <1>2. CASE FenceTaken
    BY <1>2, BoundsAssumption DEF FenceTaken, HolderOwnsFence, IInv, FenceTypes, Epochs
  <1> QED
    BY <1>1, <1>2, FenceMoves

(* While a runner holds the route, the one epoch at which a runner's write *)
(* is admitted belongs to that runner or to the hub, however many runners  *)
(* claimed the chunk before it and whatever they still send.               *)
THEOREM HoldersOwnTheFence == Spec => []HolderOwnsFence
  <1>1. Init => HolderOwnsFence
    BY DEF Init, HolderOwnsFence
  <1> QED
    BY <1>1, HolderStep, Inductive, PTL DEF Spec

-----------------------------------------------------------------------------
(* The walk, step by step *)

(* A restart's epoch is the hub's own. *)
RestartsHubOwned ==
    \A i \in MoveIndex : moves[i].kind = "restart" => owner[moves[i].epoch] = Hub

(* No completion on its way to the lock leaves a hub-executed node. *)
InflightOffHub == \A s \in inflight : s.taking.from \notin HubNodes

(* While no epoch was taken since the hub's turn began, the chunk still    *)
(* stands at the node of the visit.                                        *)
TurnStands == turn # NoTurn /\ turn.epoch = latest => current_node = turn.node

TurnInv == InflightOffHub /\ TurnStands

(* What a step that records movement m has checked.  The movement leaves   *)
(* the current node, at the newest epoch or above it.  A runner records it *)
(* at the newest epoch, as that epoch's owner or, holding the route, as    *)
(* the one that carries the resolution of the gate a restart landed on.    *)
(* The hub ends its turn with the movement or takes a fresh epoch for it.  *)
Authorised(m) ==
    /\ m.from = current_node
    /\ m.epoch >= latest
    /\ m.kind = "restart" => m.epoch > latest /\ owner'[m.epoch] = Hub
    /\ m.by = Hub => turn' = NoTurn \/ latest' # latest
    /\ m.by \in Runners =>
          /\ m.epoch = latest
          /\ m.from \notin HubNodes
          /\ \/ owner[m.epoch] = m.by
             \/ /\ route = m.by
                /\ m.gate # 0
                /\ \E j \in MoveIndex : /\ moves[j].kind = "restart"
                                        /\ moves[j].epoch = m.epoch
                                        /\ moves[j].to = m.from

Recorded == \E m \in Movement : moves' = Append(moves, m) /\ Authorised(m)

\* A runner's exit is authorised if its epoch is.
LEMMA ExitRecorded ==
    ASSUME NEW t \in Routes, NEW e \in Epochs, NEW by \in Runners, NEW gate \in 0 .. MaxEpoch,
           RecordExit(t, e, by, gate),
           e = latest, t.from = current_node, t.from \notin HubNodes,
           \/ owner[e] = by
           \/ /\ route = by /\ gate # 0
              /\ \E j \in MoveIndex : /\ moves[j].kind = "restart"
                                      /\ moves[j].epoch = e
                                      /\ moves[j].to = t.from
    PROVE  moves' = moves \/ Recorded
  <1>1. CASE t.kind = "escalation"
    BY <1>1 DEF RecordExit
  <1>2. CASE t.kind \in {"transition", "migration"}
    <2> DEFINE m == [kind |-> t.kind, from |-> t.from, to |-> t.to, epoch |-> e,
                     by |-> by, gate |-> gate]
    <2>1. m \in Movement
      BY <1>2, RouteFields DEF Movement
    <2>2. moves' = Append(moves, m)
      BY <1>2 DEF RecordExit, Moved
    <2>3. Authorised(m)
      BY <1>2, PartiesAssumption DEF Authorised, Epochs
    <2> QED
      BY <2>1, <2>2, <2>3 DEF Recorded
  <1> QED
    BY <1>1, <1>2, RouteFields

\* A movement of the hub's own.
LEMMA HubRecorded ==
    ASSUME NEW kind \in {"transition", "migration", "restart"},
           NEW from \in Nodes, NEW to \in Nodes \cup {Terminal}, NEW e \in Epochs,
           Moved(kind, from, to, e, Hub, 0),
           from = current_node, e >= latest, turn' = NoTurn \/ latest' # latest,
           kind = "restart" => e > latest /\ owner'[e] = Hub
    PROVE  Recorded
  <1> DEFINE m == [kind |-> kind, from |-> from, to |-> to, epoch |-> e,
                   by |-> Hub, gate |-> 0]
  <1>1. m \in Movement
    BY BoundsAssumption DEF Movement
  <1>2. moves' = Append(moves, m)
    BY DEF Moved
  <1>3. Authorised(m)
    BY PartiesAssumption DEF Authorised
  <1> QED
    BY <1>1, <1>2, <1>3 DEF Recorded

\* A hub migration is recorded only while the visit's epoch is the newest.
LEMMA TurnIsCurrent ==
    ASSUME IInv, turn # NoTurn, fence("CURRENT", turn.epoch)
    PROVE  turn.epoch = latest
  BY BoundsAssumption DEF IInv, HubTypes, FenceTypes, TurnBelow, fence, admits, Epochs

\* A current epoch that has an owner is the newest.
LEMMA CurrentIsNewest ==
    ASSUME IInv, NEW e \in Epochs, admits("CURRENT", e), owner[e] # NoOne
    PROVE  e = latest
  BY OwnedIsOld DEF IInv, admits

\* A coherent report at the newest epoch comes from the current node.
LEMMA ReportsFromHere ==
    ASSUME IInv, ~is_terminal, NEW n \in Nodes, Coherent(n, latest)
    PROVE  n = current_node
  BY StandsAtNode, GraphAssumption DEF IInv, Coherent

LEMMA MovesRecorded ==
    ASSUME IInv, TurnInv, [Next]_vars
    PROVE  moves' = moves \/ Recorded
  <1>1. ASSUME NEW n \in Nodes, Restart(n) PROVE Recorded
    <2>1. /\ Moved("restart", current_node, n, latest + 1, Hub, 0)
          /\ current_node \in Nodes
          /\ latest + 1 \in Epochs /\ latest + 1 >= latest /\ latest + 1 > latest
          /\ owner'[latest + 1] = Hub /\ latest' # latest
      BY <1>1, StandsAtNode, BoundsAssumption
         DEF Restart, record_epoch_owner, IInv, FenceTypes, Epochs
    <2> QED
      BY <2>1, HubRecorded
  <1>2. ASSUME NEW t \in Routes, CommitTransition(t) \/ CommitMigration(t) PROVE Recorded
    <2>1. turn.epoch \in Epochs /\ (turn.epoch < MaxEpoch => turn.epoch + 1 \in Epochs)
      BY <1>2, BoundsAssumption DEF CommitTransition, CommitMigration, IInv, HubTypes, Epochs
    <2>2. turn.epoch = latest /\ t.from = current_node
      <3>1. turn # NoTurn /\ t.from = turn.node /\ turn.epoch = latest
        BY <1>2, <2>1, TurnIsNewest, TurnIsCurrent DEF CommitTransition, CommitMigration
      <3> QED
        BY <3>1 DEF TurnInv, TurnStands
    <2>3. CASE CommitTransition(t)
      <3>1. /\ Moved("transition", t.from, t.to, turn.epoch + 1, Hub, 0)
            /\ turn.epoch + 1 \in Epochs /\ turn.epoch + 1 >= latest /\ turn' = NoTurn
        BY <2>1, <2>2, <2>3 DEF CommitTransition, Epochs
      <3> QED
        BY <2>2, <3>1, RouteFields, HubRecorded
    <2>4. CASE CommitMigration(t)
      <3>1. /\ Moved("migration", t.from, t.to, turn.epoch, Hub, 0)
            /\ turn.epoch >= latest /\ turn' = NoTurn
        BY <2>1, <2>2, <2>4 DEF CommitMigration, Epochs
      <3> QED
        BY <2>1, <2>2, <3>1, RouteFields, HubRecorded
    <2> QED
      BY <1>2, <2>3, <2>4
  <1>3. ASSUME NEW r \in Runners, NEW l, NEW e \in Epochs, NEW t \in Routes,
               PlainCompletion(r, l, e, t)
        PROVE  moves' = moves \/ Recorded
    <2>1. RecordExit(t, e, r, 0) /\ claimed_fence("CURRENT", r, l, e)
      BY <1>3 DEF PlainCompletion
    <2>2. owner[e] = r /\ e = latest
      BY <2>1, ClaimedIsOwned, CurrentIsNewest
    <2>3. 0 \in 0 .. MaxEpoch
      BY BoundsAssumption
    <2>4. ~is_terminal /\ Coherent(t.from, latest) /\ t.from \notin HubNodes
      BY <1>3, <2>1, <2>2 DEF PlainCompletion, claimed_fence, fence
    <2>5. t.from = current_node
      BY <2>4, RouteFields, ReportsFromHere
    <2> QED
      BY <2>1, <2>2, <2>3, <2>4, <2>5, ExitRecorded
  <1>4. ASSUME NEW s \in inflight, CommitResolving(s)
        PROVE  moves' = moves \/ Recorded
    <2>1. /\ s.runner \in Runners /\ s.epoch \in Epochs /\ s.taking \in Routes
          /\ s.gate \in 0 .. MaxEpoch /\ s.gate # 0
      BY BoundsAssumption DEF IInv, HubTypes, Submission, Epochs
    <2>2. /\ RecordExit(s.taking, s.epoch, s.runner, s.gate)
          /\ fence("CURRENT", s.epoch)
          /\ exit_claimant_waived(s) \/ owns(s.runner, s.lease, s.epoch)
      BY <1>4 DEF CommitResolving, ResolvingAdmitted
    <2>3. \/ owner[s.epoch] = s.runner
          \/ /\ route = s.runner
             /\ \E j \in MoveIndex : /\ moves[j].kind = "restart"
                                     /\ moves[j].epoch = s.epoch
                                     /\ moves[j].to = s.taking.from
      BY <2>2 DEF exit_claimant_waived, owns, MoveIndex
    <2>4. owner[s.epoch] # NoOne
      BY <2>1, <2>3, PartiesAssumption DEF IInv, EpochsOwned
    <2>5. s.epoch = latest
      BY <2>1, <2>2, <2>4, CurrentIsNewest DEF fence
    <2>6. ~is_terminal /\ Coherent(s.taking.from, latest) /\ s.taking.from \notin HubNodes
      BY <1>4, <2>5 DEF CommitResolving, ResolvingAdmitted, fence, TurnInv, InflightOffHub
    <2>7. s.taking.from = current_node
      BY <2>1, <2>6, RouteFields, ReportsFromHere
    <2> QED
      BY <2>1, <2>2, <2>3, <2>5, <2>6, <2>7, ExitRecorded
  <1>5. CASE Levers
    BY <1>1, <1>5 DEF Levers, Promote, Demote, Pause, Resume, Stop, CompleteByHand, Detach, Requeue
  <1>6. CASE People
    BY <1>6 DEF People, Answer, ResolveDecision
  <1>7. CASE RunnerWrites
    <2>1. ASSUME NEW r, NEW l, NEW e, NEW q, NEW n, NEW t, NEW g,
                 \/ Claim(r) \/ Release(r, e) \/ LeaseMinted(r, l, e)
                 \/ EscalationRecorded(r, l, e) \/ QuestionAsked(q, r, l, e)
                 \/ SubmitDecision(r, l, e, n) \/ CheckResolving(r, l, t, g)
          PROVE  moves' = moves
      BY <2>1 DEF Claim, Release, LeaseMinted, EscalationRecorded, QuestionAsked,
         SubmitDecision, CheckResolving
    <2> QED
      BY <1>3, <1>7, <2>1 DEF RunnerWrites
  <1>8. CASE Resolving
    BY <1>4, <1>8 DEF Resolving, RefuseResolving
  <1>9. CASE HubSteps
    BY <1>2, <1>9 DEF HubSteps, TakeTurn, CommitEscalation, EndTurn
  <1>10. CASE UNCHANGED vars
    BY <1>10 DEF vars
  <1> QED
    BY <1>5, <1>6, <1>7, <1>8, <1>9, <1>10 DEF Next

LEMMA Appended ==
    ASSUME FactTypes, NEW m \in Movement, moves' = Append(moves, m)
    PROVE  /\ Len(moves) \in Nat
           /\ Len(moves') = Len(moves) + 1
           /\ moves'[Len(moves')] = m
           /\ \A i \in MoveIndex : i \in MoveIndex' /\ moves'[i] = moves[i]
           /\ \A i \in MoveIndex : moves[i] \in Movement
           /\ \A i \in MoveIndex' : i \in MoveIndex \/ i = Len(moves')
  BY DEF FactTypes, MoveIndex

(* The hub's turn, step by step: it stays, ends, or is taken at the newest  *)
(* epoch and the current node.                                              *)
LEMMA TurnMoves ==
    ASSUME [Next]_vars
    PROVE  turn' \in {turn, NoTurn} \/ TakeTurn
  <1>1. CASE Levers
    BY <1>1 DEF Levers, Promote, Demote, Pause, Resume, Stop, CompleteByHand, Detach, Requeue,
       Restart, hubVars
  <1>2. CASE People
    BY <1>2 DEF People, Answer, ResolveDecision, hubVars
  <1>3. CASE RunnerWrites
    <2>1. ASSUME NEW r, NEW l, NEW e, NEW q, NEW n, NEW t, NEW g,
                 \/ Claim(r) \/ Release(r, e) \/ LeaseMinted(r, l, e)
                 \/ EscalationRecorded(r, l, e) \/ QuestionAsked(q, r, l, e)
                 \/ SubmitDecision(r, l, e, n) \/ PlainCompletion(r, l, e, t)
                 \/ CheckResolving(r, l, t, g)
          PROVE  turn' = turn
      BY <2>1 DEF Claim, Release, LeaseMinted, EscalationRecorded, QuestionAsked,
         SubmitDecision, PlainCompletion, CheckResolving, hubVars
    <2> QED
      BY <1>3, <2>1 DEF RunnerWrites
  <1>4. CASE Resolving
    BY <1>4 DEF Resolving, CommitResolving, RefuseResolving
  <1>5. CASE HubSteps
    BY <1>5 DEF HubSteps, CommitEscalation, EndTurn, CommitTransition, CommitMigration
  <1>6. CASE UNCHANGED vars
    BY <1>6 DEF vars, hubVars
  <1> QED
    BY <1>1, <1>2, <1>3, <1>4, <1>5, <1>6 DEF Next

LEMMA InflightStep ==
    ASSUME InflightOffHub, [Next]_vars
    PROVE  InflightOffHub'
  <1>1. ASSUME NEW r, NEW l, NEW t \in Routes, NEW g, CheckResolving(r, l, t, g)
        PROVE  InflightOffHub'
    BY <1>1 DEF CheckResolving, InflightOffHub
  <1>2. ASSUME inflight' \subseteq inflight
        PROVE  InflightOffHub'
    BY <1>2 DEF InflightOffHub
  <1>3. CASE Levers
    BY <1>2, <1>3 DEF Levers, Promote, Demote, Pause, Resume, Stop, CompleteByHand, Detach,
       Requeue, Restart, hubVars
  <1>4. CASE People
    BY <1>2, <1>4 DEF People, Answer, ResolveDecision, hubVars
  <1>5. CASE RunnerWrites
    <2>1. ASSUME NEW r, NEW l, NEW e, NEW q, NEW n, NEW t,
                 \/ Claim(r) \/ Release(r, e) \/ LeaseMinted(r, l, e)
                 \/ EscalationRecorded(r, l, e) \/ QuestionAsked(q, r, l, e)
                 \/ SubmitDecision(r, l, e, n) \/ PlainCompletion(r, l, e, t)
          PROVE  inflight' = inflight
      BY <2>1 DEF Claim, Release, LeaseMinted, EscalationRecorded, QuestionAsked,
         SubmitDecision, PlainCompletion, hubVars
    <2> QED
      BY <1>1, <1>2, <1>5, <2>1 DEF RunnerWrites
  <1>6. CASE Resolving
    BY <1>2, <1>6 DEF Resolving, CommitResolving, RefuseResolving
  <1>7. CASE HubSteps
    BY <1>2, <1>7 DEF HubSteps, TakeTurn, CommitEscalation, EndTurn, CommitTransition,
       CommitMigration
  <1>8. CASE UNCHANGED vars
    BY <1>2, <1>8 DEF vars, hubVars
  <1> QED
    BY <1>3, <1>4, <1>5, <1>6, <1>7, <1>8 DEF Next

LEMMA TurnStep ==
    ASSUME IInv, TurnInv, [Next]_vars
    PROVE  TurnInv'
  <1>1. InflightOffHub'
    BY InflightStep DEF TurnInv
  <1>2. TurnStands'
    <2>1. CASE TakeTurn
      BY <2>1 DEF TakeTurn, TurnStands, fenceVars, current_node, latest_movement
    <2>2. CASE turn' = NoTurn
      BY <2>2 DEF TurnStands
    <2>3. CASE turn' = turn /\ turn # NoTurn
      <3>1. turn.epoch \in Epochs /\ turn.epoch <= latest /\ turn.node \in HubNodes
        BY <2>3 DEF IInv, HubTypes, TurnBelow
      <3>2. CASE FenceTaken
        <4>1. turn.epoch # latest'
          BY <3>1, <3>2, BoundsAssumption DEF FenceTaken, IInv, FenceTypes, Epochs
        <4> QED
          BY <2>3, <4>1 DEF TurnStands
      <3>3. CASE FenceKept /\ turn.epoch = latest
        <4>1. current_node = turn.node
          BY <2>3, <3>3 DEF TurnInv, TurnStands
        <4>2. CASE moves' = moves
          BY <2>3, <3>3, <4>1, <4>2 DEF TurnStands, FenceKept, current_node, latest_movement
        <4>3. CASE Recorded
          <5>1. PICK m \in Movement : Authorised(m)
            BY <4>3 DEF Recorded
          <5>2. m.from = turn.node /\ m.by \notin Runners
            BY <3>1, <4>1, <5>1 DEF Authorised
          <5>3. m.by = Hub
            BY <5>2 DEF Movement
          <5> QED
            BY <2>3, <3>3, <5>1, <5>3 DEF Authorised, FenceKept
        <4> QED
          BY <4>2, <4>3, MovesRecorded
      <3>4. CASE FenceKept /\ turn.epoch # latest
        BY <2>3, <3>4 DEF TurnStands, FenceKept
      <3> QED
        BY <3>2, <3>3, <3>4, FenceMoves
    <2> QED
      BY <2>1, <2>2, <2>3, TurnMoves
  <1> QED
    BY <1>1, <1>2 DEF TurnInv

LEMMA TurnInvariant == Spec => []TurnInv
  <1>1. Init => TurnInv
    BY DEF Init, TurnInv, InflightOffHub, TurnStands
  <1> QED
    BY <1>1, TurnStep, Inductive, PTL DEF Spec

LEMMA RestartsStep ==
    ASSUME IInv, TurnInv, RestartsHubOwned, [Next]_vars
    PROVE  RestartsHubOwned'
  <1>1. ASSUME NEW i \in MoveIndex, moves[i].kind = "restart"
        PROVE  moves[i].epoch \in Epochs /\ owner'[moves[i].epoch] = Hub
    <2>1. moves[i] \in Movement /\ owner[moves[i].epoch] = Hub
      BY <1>1 DEF IInv, FactTypes, MoveIndex, RestartsHubOwned
    <2> QED
      BY <2>1, OwnersKept, PartiesAssumption DEF Movement
  <1>2. CASE moves' = moves
    BY <1>1, <1>2 DEF RestartsHubOwned, MoveIndex
  <1>3. CASE Recorded
    <2>1. PICK m \in Movement : moves' = Append(moves, m) /\ Authorised(m)
      BY <1>3 DEF Recorded
    <2>2. /\ moves'[Len(moves')] = m
          /\ \A i \in MoveIndex : moves'[i] = moves[i]
          /\ \A i \in MoveIndex' : i \in MoveIndex \/ i = Len(moves')
      BY <2>1, Appended DEF IInv
    <2>3. m.kind = "restart" => owner'[m.epoch] = Hub
      BY <2>1 DEF Authorised
    <2> QED
      BY <1>1, <2>2, <2>3 DEF RestartsHubOwned
  <1> QED
    BY <1>2, <1>3, MovesRecorded

LEMMA RestartsInv == Spec => []RestartsHubOwned
  <1>1. Init => RestartsHubOwned
    BY DEF Init, RestartsHubOwned, MoveIndex
  <1> QED
    BY <1>1, RestartsStep, TurnInvariant, Inductive, PTL DEF Spec

LEMMA RunnerMovesStep ==
    ASSUME IInv, TurnInv, RestartsHubOwned, RunnerMovesOwned, [Next]_vars
    PROVE  RunnerMovesOwned'
  <1>1. ASSUME NEW i \in MoveIndex
        PROVE  moves[i].epoch \in Epochs /\ owner'[moves[i].epoch] = owner[moves[i].epoch]
    <2>1. moves[i] \in Movement
      BY <1>1 DEF IInv, FactTypes, MoveIndex
    <2>2. moves[i].epoch \in Epochs /\ owner[moves[i].epoch] # NoOne
      BY <1>1, <2>1 DEF IInv, EpochsOwned, Movement
    <2> QED
      BY <2>2, OwnersKept
  <1>2. CASE moves' = moves
    BY <1>1, <1>2 DEF RunnerMovesOwned, MoveIndex
  <1>3. CASE Recorded
    <2>1. PICK m \in Movement : moves' = Append(moves, m) /\ Authorised(m)
      BY <1>3 DEF Recorded
    <2>2. /\ Len(moves) \in Nat
          /\ Len(moves') = Len(moves) + 1
          /\ moves'[Len(moves')] = m
          /\ \A i \in MoveIndex : i \in MoveIndex' /\ moves'[i] = moves[i]
          /\ \A i \in MoveIndex' : i \in MoveIndex \/ i = Len(moves')
      BY <2>1, Appended DEF IInv
    <2>3. ASSUME NEW i \in MoveIndex, moves'[i].by \in Runners
          PROVE  \/ owner'[moves'[i].epoch] = moves'[i].by
                 \/ /\ owner'[moves'[i].epoch] = Hub
                    /\ moves'[i].gate # 0
                    /\ \E j \in 1 .. (i - 1) :
                          /\ moves'[j].kind = "restart"
                          /\ moves'[j].epoch = moves'[i].epoch
                          /\ moves'[j].to = moves'[i].from
      <3>1. \A j \in 1 .. (i - 1) : j \in MoveIndex
        BY <2>2 DEF MoveIndex
      <3> QED
        BY <1>1, <2>2, <2>3, <3>1 DEF RunnerMovesOwned
    <2>4. ASSUME m.by \in Runners
          PROVE  \/ owner'[m.epoch] = m.by
                 \/ /\ owner'[m.epoch] = Hub
                    /\ m.gate # 0
                    /\ \E j \in 1 .. Len(moves) :
                          /\ moves'[j].kind = "restart"
                          /\ moves'[j].epoch = m.epoch
                          /\ moves'[j].to = m.from
      <3>1. CASE owner[m.epoch] = m.by
        BY <2>4, <3>1, OwnersKept, PartiesAssumption DEF Movement
      <3>2. CASE owner[m.epoch] # m.by
        <4>1. PICK j \in MoveIndex : /\ moves[j].kind = "restart"
                                     /\ moves[j].epoch = m.epoch
                                     /\ moves[j].to = m.from
          BY <2>1, <2>4, <3>2 DEF Authorised
        <4>2. owner'[m.epoch] = Hub /\ m.gate # 0
          BY <1>1, <2>1, <2>4, <3>2, <4>1 DEF RestartsHubOwned, Authorised
        <4> QED
          BY <2>2, <4>1, <4>2 DEF MoveIndex
      <3> QED
        BY <3>1, <3>2
    <2>5. ASSUME NEW i \in MoveIndex', moves'[i].by \in Runners
          PROVE  \/ owner'[moves'[i].epoch] = moves'[i].by
                 \/ /\ owner'[moves'[i].epoch] = Hub
                    /\ moves'[i].gate # 0
                    /\ \E j \in 1 .. (i - 1) :
                          /\ moves'[j].kind = "restart"
                          /\ moves'[j].epoch = moves'[i].epoch
                          /\ moves'[j].to = moves'[i].from
      BY <2>2, <2>3, <2>4, <2>5
    <2> QED
      BY <2>5 DEF RunnerMovesOwned
  <1> QED
    BY <1>2, <1>3, MovesRecorded

(* A displaced attempt never moves the chunk, for any number of runners    *)
(* and any delay or repetition of what they send: every movement a runner  *)
(* recorded is at an epoch of its own, or carries the resolution of a gate *)
(* a restart landed on (the fence and apply's _exit_claimant).             *)
THEOREM RunnerMovesAreOwned == Spec => []RunnerMovesOwned
  <1>1. Init => RunnerMovesOwned
    BY DEF Init, RunnerMovesOwned, MoveIndex
  <1> QED
    BY <1>1, RunnerMovesStep, RestartsInv, TurnInvariant, Inductive, PTL DEF Spec

LEMMA UndisturbedStep ==
    ASSUME IInv, TurnInv, HolderOwnsFence, [Next]_vars,
           Len(moves') > Len(moves), moves'[Len(moves')].by \in Runners
    PROVE  route \in {moves'[Len(moves')].by, NoOne}
  <1>1. moves' # moves
    BY DEF IInv, FactTypes
  <1>2. PICK m \in Movement : moves' = Append(moves, m) /\ Authorised(m)
    BY <1>1, MovesRecorded DEF Recorded
  <1>3. moves'[Len(moves')] = m /\ m.by \in Runners
    BY <1>2, Appended DEF IInv
  <1>4. route = m.by \/ owner[latest] = m.by
    BY <1>2, <1>3 DEF Authorised
  <1> QED
    BY <1>3, <1>4, PartiesAssumption DEF HolderOwnsFence

(* When a runner's movement is recorded, no other runner holds the route:  *)
(* a late completion of the attempt before never pulls the chunk from      *)
(* under the attempt that has it now.                                      *)
THEOREM HoldersUndisturbed == Spec => HolderUndisturbed
  <1>1. ASSUME IInv, TurnInv, HolderOwnsFence, [Next]_vars
        PROVE  [ Len(moves') > Len(moves) /\ moves'[Len(moves')].by \in Runners
                     => route \in {moves'[Len(moves')].by, NoOne} ]_vars
    BY <1>1, UndisturbedStep
  <1> QED
    BY <1>1, Inductive, TurnInvariant, HoldersOwnTheFence, PTL DEF Spec, HolderUndisturbed
-----------------------------------------------------------------------------
(* The walk as a whole *)

LEMMA EpochsStep ==
    ASSUME IInv, TurnInv, EpochsNeverFall, [Next]_vars
    PROVE  EpochsNeverFall'
  <1>1. CASE moves' = moves
    BY <1>1 DEF EpochsNeverFall, MoveIndex
  <1>2. CASE Recorded
    <2>1. PICK m \in Movement : moves' = Append(moves, m) /\ Authorised(m)
      BY <1>2 DEF Recorded
    <2>2. /\ Len(moves) \in Nat
          /\ Len(moves') = Len(moves) + 1
          /\ moves'[Len(moves')] = m
          /\ \A i \in MoveIndex : moves'[i] = moves[i] /\ moves[i] \in Movement
          /\ \A i \in MoveIndex' : i \in MoveIndex \/ i = Len(moves')
      BY <2>1, Appended DEF IInv
    <2>3. \A i \in MoveIndex : moves[i].epoch <= latest
      BY <2>2, OwnedIsOld DEF IInv, EpochsOwned, Movement
    <2>4. m.epoch >= latest /\ (m.kind = "restart" => m.epoch > latest)
      BY <2>1 DEF Authorised
    <2>5. m.epoch \in Nat /\ latest \in Nat /\ \A i \in MoveIndex : moves[i].epoch \in Nat
      BY <2>2, BoundsAssumption DEF IInv, FenceTypes, Movement, Epochs
    <2>6. ASSUME NEW i \in MoveIndex', NEW j \in MoveIndex', i < j
          PROVE  /\ moves'[i].epoch <= moves'[j].epoch
                 /\ moves'[j].kind = "restart" => moves'[i].epoch < moves'[j].epoch
      <3>1. i \in MoveIndex
        BY <2>2, <2>6 DEF MoveIndex
      <3>2. CASE j \in MoveIndex
        BY <2>2, <2>6, <3>1, <3>2 DEF EpochsNeverFall
      <3>3. CASE j = Len(moves')
        BY <2>2, <2>3, <2>4, <2>5, <3>1, <3>3
      <3> QED
        BY <2>2, <3>2, <3>3
    <2> QED
      BY <2>6 DEF EpochsNeverFall
  <1> QED
    BY <1>1, <1>2, MovesRecorded

(* Epochs never fall along the walk, so ranking the movements of three      *)
(* tables by (recorded_at, epoch), as latest_movement does, finds the last  *)
(* one recorded.                                                            *)
THEOREM EpochsDoNotFall == Spec => []EpochsNeverFall
  <1>1. Init => EpochsNeverFall
    BY DEF Init, EpochsNeverFall, MoveIndex
  <1> QED
    BY <1>1, EpochsStep, TurnInvariant, Inductive, PTL DEF Spec

LEMMA WalkStep ==
    ASSUME IInv, TurnInv, WalkConnected, [Next]_vars
    PROVE  WalkConnected'
  <1>1. CASE moves' = moves
    BY <1>1 DEF WalkConnected, MoveIndex
  <1>2. CASE Recorded
    <2>1. PICK m \in Movement : moves' = Append(moves, m) /\ Authorised(m)
      BY <1>2 DEF Recorded
    <2>2. /\ Len(moves) \in Nat
          /\ Len(moves') = Len(moves) + 1
          /\ moves'[Len(moves')] = m
          /\ \A i \in MoveIndex : moves'[i] = moves[i]
          /\ \A i \in MoveIndex' : i \in MoveIndex \/ i = Len(moves')
      BY <2>1, Appended DEF IInv
    <2>3. m.from = IF Len(moves') = 1 THEN Entry ELSE moves'[Len(moves') - 1].to
      <3>1. CASE moves = <<>>
        BY <2>1, <2>2, <3>1 DEF Authorised, current_node
      <3>2. CASE moves # <<>>
        <4>1. Len(moves) \in MoveIndex /\ Len(moves') # 1 /\ Len(moves') - 1 = Len(moves)
          BY <2>2, <3>2 DEF IInv, FactTypes, MoveIndex
        <4> QED
          BY <2>1, <2>2, <3>2, <4>1 DEF Authorised, current_node, latest_movement
      <3> QED
        BY <3>1, <3>2
    <2>4. ASSUME NEW i \in MoveIndex'
          PROVE  moves'[i].from = IF i = 1 THEN Entry ELSE moves'[i - 1].to
      <3>1. CASE i \in MoveIndex
        <4>1. i = 1 \/ i - 1 \in MoveIndex
          BY <2>2, <3>1 DEF MoveIndex
        <4> QED
          BY <2>2, <3>1, <4>1 DEF WalkConnected
      <3>2. CASE i = Len(moves')
        BY <2>2, <2>3, <3>2
      <3> QED
        BY <2>2, <3>1, <3>2
    <2> QED
      BY <2>4 DEF WalkConnected
  <1> QED
    BY <1>1, <1>2, MovesRecorded

(* The movements are one walk through the graph, whoever recorded them: no  *)
(* runner, restart or hub turn ever leaves a node the chunk is not at       *)
(* (refuse_incoherent_attempt, the fence, the hub router's commit).         *)
THEOREM WalksAreConnected == Spec => []WalkConnected
  <1>1. Init => WalkConnected
    BY DEF Init, WalkConnected, MoveIndex
  <1> QED
    BY <1>1, WalkStep, TurnInvariant, Inductive, PTL DEF Spec

-----------------------------------------------------------------------------
(* The end *)

(* What an ended chunk leaves alone. *)
EndKept == UNCHANGED <<moves, fenceVars, gateVars, askVars, stopped>>

\* The store's terminal predicate and the derived status agree.
LEMMA EndedIsTerminal == Ended <=> is_terminal
  BY Zenon DEF Ended, is_terminal, status, status_with

LEMMA EndedStep ==
    ASSUME Ended, [Next]_vars
    PROVE  EndKept /\ (CompleteByHand \/ (UNCHANGED completed /\ UNCHANGED route))
  <1>1. is_terminal
    BY EndedIsTerminal
  <1>2. status \in {"stopped", "done"} /\ status_with(FALSE) # "ready"
    BY <1>1, Zenon DEF Ended, is_terminal, status, status_with
  <1>3. CASE Levers
    <2>1. ~Promote /\ ~Demote /\ ~Pause /\ ~Stop /\ ~Detach /\ ~Requeue
      BY <1>1, <1>2 DEF Promote, Demote, Pause, Stop, Detach, Requeue, is_ready_but_for_pause
    <2>2. \A n \in Nodes : ~Restart(n)
      BY <1>1 DEF Restart
    <2>3. CASE Resume
      BY <2>3 DEF Resume, EndKept
    <2>4. CASE CompleteByHand
      BY <2>4 DEF CompleteByHand, EndKept
    <2> QED
      BY <1>3, <2>1, <2>2, <2>3, <2>4 DEF Levers
  <1>4. CASE People
    BY <1>1, <1>4 DEF People, Answer, ResolveDecision
  <1>5. CASE RunnerWrites
    <2>1. ASSUME NEW r, NEW l, NEW e, NEW q, NEW n, NEW t,
                 \/ Claim(r) \/ Release(r, e) \/ LeaseMinted(r, l, e)
                 \/ EscalationRecorded(r, l, e) \/ QuestionAsked(q, r, l, e)
                 \/ SubmitDecision(r, l, e, n) \/ PlainCompletion(r, l, e, t)
          PROVE  FALSE
      BY <1>1, <1>2, <2>1 DEF Claim, Release, LeaseMinted, MintAdmitted, EscalationRecorded,
         QuestionAsked, SubmitDecision, PlainCompletion, claimed_fence, fence
    <2>2. ASSUME NEW r, NEW l, NEW t, NEW g, CheckResolving(r, l, t, g)
          PROVE  EndKept /\ UNCHANGED completed /\ UNCHANGED route
      BY <2>2 DEF CheckResolving, EndKept, leverVars
    <2> QED
      BY <1>5, <2>1, <2>2 DEF RunnerWrites
  <1>6. CASE Resolving
    BY <1>1, <1>6 DEF Resolving, CommitResolving, ResolvingAdmitted, RefuseResolving, fence,
       EndKept, leverVars
  <1>7. CASE HubSteps
    BY <1>1, <1>2, <1>7 DEF HubSteps, TakeTurn, CommitEscalation, EndTurn, CommitTransition,
       CommitMigration, fence, EndKept, leverVars
  <1>8. CASE UNCHANGED vars
    BY <1>8 DEF vars, leverVars, EndKept
  <1> QED
    BY <1>3, <1>4, <1>5, <1>6, <1>7, <1>8 DEF Next

\* The terminal predicate holds on when its facts are kept.
LEMMA EndLasts ==
    ASSUME is_terminal, EndKept, UNCHANGED completed \/ completed'
    PROVE  is_terminal'
  <1>1. stopped => is_terminal'
    BY Zenon DEF is_terminal, EndKept
  <1>2. completed => is_terminal'
    BY Zenon DEF is_terminal
  <1>3. newest_transition_is_terminal => is_terminal'
    BY Zenon DEF is_terminal, EndKept, newest_transition_is_terminal, latest_movement
  <1> QED
    BY <1>1, <1>2, <1>3, Zenon DEF is_terminal

(* A stopped, completed or finished chunk stays ended, whatever was under   *)
(* way at its runners or in the hub's turn when it ended; nothing more is   *)
(* recorded of it but the operator completion of a stopped one.             *)
THEOREM EndsAreFinal == Spec => TerminalFinal
  <1>1. ASSUME [Next]_vars
        PROVE  [ Ended => /\ Ended'
                          /\ UNCHANGED <<moves, fenceVars, gateVars, askVars, stopped>>
                          /\ status = "done" => UNCHANGED completed ]_vars
    <2>1. SUFFICES ASSUME Ended
                   PROVE  /\ Ended'
                          /\ EndKept
                          /\ status = "done" => UNCHANGED completed
      BY DEF EndKept
    <2>2. EndKept /\ (CompleteByHand \/ UNCHANGED completed)
      BY <1>1, <2>1, EndedStep
    <2>3. CompleteByHand => completed' /\ status # "done"
      BY DEF CompleteByHand
    <2>4. is_terminal'
      <3>1. is_terminal /\ EndKept
        BY <2>1, <2>2, EndedIsTerminal, Zenon
      <3>2. UNCHANGED completed \/ completed'
        BY <2>2, <2>3, Zenon
      <3> QED
        BY <3>1, <3>2, EndLasts, Zenon
    <2>5. Ended'
      BY <2>4, Zenon DEF Ended, is_terminal, status, status_with
    <2>6. status = "done" => UNCHANGED completed
      BY <2>2, <2>3, Zenon
    <2> QED
      BY <2>2, <2>5, <2>6, Zenon
  <1> QED
    BY <1>1, PTL DEF Spec, TerminalFinal
=============================================================================
