---------------------------- MODULE ChunkHubGates ---------------------------
(***************************************************************************)
(* The completions and the gates of ChunkHub, for every set of runners,    *)
(* leases, nodes, routes and questions and every bound: a node is left     *)
(* once per epoch, a gate only on a person's word about the very visit,    *)
(* and a decision carries one exit.                                        *)
(*                                                                         *)
(* The hard case is the resolving completion, checked before the chunk's   *)
(* lock and committed under it.  The epoch it was checked at is the newest *)
(* one when it commits; InflightVisit says what may have happened          *)
(* meanwhile at that epoch: the gate was left, and then the replay check   *)
(* refuses; the chunk ended, and then the fence does; or nothing, and the  *)
(* chunk still stands in the visit the decision was checked against.       *)
(***************************************************************************)
EXTENDS ChunkHubProofs

(* A completion on its way to the lock.                                     *)
InflightVisit ==
    \A s \in inflight :
        LET n == s.taking.from
        IN  /\ s.epoch <= latest
            /\ choiceOf[<<n, s.gate>>] = s.taking.choice
            /\ s.epoch = latest =>
                 \/ Landed(n, s.epoch)
                 \/ is_terminal
                 \/ current_node = n /\ s.gate = VisitEpoch(n, s.epoch)

(* What a step that records movement m has checked of the exit it is.       *)
HubExitChecked(m) ==
    /\ m.from \in HubNodes /\ m.gate = 0
    /\ \/ m.epoch > latest
       \/ /\ m.kind = "migration"
          /\ \A i \in MoveIndex : ~(/\ moves[i].kind = "migration"
                                    /\ moves[i].from = m.from
                                    /\ moves[i].epoch = m.epoch)

RunnerExitChecked(m) ==
    /\ m.from \notin HubNodes
    /\ ~Landed(m.from, m.epoch)
    /\ m.gate = 0 => m.from \notin HumanNodes
    /\ m.gate # 0 =>
         /\ m.gate = VisitEpoch(m.from, m.epoch)
         /\ <<m.from, m.gate>> \in closed' /\ <<m.from, m.gate>> \in Keys
         /\ \E t \in Routes : /\ t.from = m.from /\ t.to = m.to
                              /\ t.choice = choiceOf[<<m.from, m.gate>>]

ExitChecked(m) ==
    \/ m.kind = "restart" /\ m.gate = 0
    \/ IsExit(m) /\ m.by = Hub /\ HubExitChecked(m)
    \/ IsExit(m) /\ m.by \in Runners /\ RunnerExitChecked(m)

Exited == \E m \in Movement : moves' = Append(moves, m) /\ ExitChecked(m)

-----------------------------------------------------------------------------
(* Facts that are only added to *)

(* A closed decision stays closed and a resolution is never taken back.     *)
LEMMA ResolutionsKept ==
    ASSUME GateTypes, [Next]_vars
    PROVE  /\ closed \subseteq closed'
           /\ \A k \in Keys : choiceOf[k] # NoChoice => choiceOf'[k] = choiceOf[k]
  <1>1. CASE Levers
    BY <1>1 DEF Levers, Promote, Demote, Pause, Resume, Stop, CompleteByHand, Detach, Requeue,
       Restart, gateVars
  <1>2. CASE People
    BY <1>2 DEF People, Answer, ResolveDecision, open_decisions, gateVars, GateTypes
  <1>3. CASE RunnerWrites
    <2>1. ASSUME NEW r, NEW l, NEW e, NEW q, NEW n, NEW t, NEW g,
                 \/ Claim(r) \/ Release(r, e) \/ LeaseMinted(r, l, e)
                 \/ EscalationRecorded(r, l, e) \/ QuestionAsked(q, r, l, e)
                 \/ SubmitDecision(r, l, e, n) \/ PlainCompletion(r, l, e, t)
                 \/ CheckResolving(r, l, t, g)
          PROVE  closed \subseteq closed' /\ choiceOf' = choiceOf
      BY <2>1 DEF Claim, Release, LeaseMinted, EscalationRecorded, QuestionAsked,
         SubmitDecision, PlainCompletion, RecordExit, CheckResolving, gateVars
    <2> QED
      BY <1>3, <2>1 DEF RunnerWrites
  <1>4. CASE Resolving
    BY <1>4 DEF Resolving, CommitResolving, RecordExit, RefuseResolving, gateVars
  <1>5. CASE HubSteps
    BY <1>5 DEF HubSteps, TakeTurn, CommitEscalation, EndTurn, CommitTransition,
       CommitMigration, gateVars
  <1>6. CASE UNCHANGED vars
    BY <1>6 DEF vars, gateVars
  <1> QED
    BY <1>1, <1>2, <1>3, <1>4, <1>5, <1>6 DEF Next

(* A completion joins those on their way to the lock by its check only.     *)
LEMMA InflightJoins ==
    ASSUME [Next]_vars
    PROVE  \/ inflight' \subseteq inflight
           \/ \E r \in Runners, l \in Leases \cup {NoLease}, t \in Routes, g \in Epochs :
                 CheckResolving(r, l, t, g)
  <1>1. CASE Levers
    BY <1>1 DEF Levers, Promote, Demote, Pause, Resume, Stop, CompleteByHand, Detach,
       Requeue, Restart, hubVars
  <1>2. CASE People
    BY <1>2 DEF People, Answer, ResolveDecision, hubVars
  <1>3. CASE RunnerWrites
    <2>1. ASSUME NEW r, NEW l, NEW e, NEW q, NEW n, NEW t,
                 \/ Claim(r) \/ Release(r, e) \/ LeaseMinted(r, l, e)
                 \/ EscalationRecorded(r, l, e) \/ QuestionAsked(q, r, l, e)
                 \/ SubmitDecision(r, l, e, n) \/ PlainCompletion(r, l, e, t)
          PROVE  inflight' = inflight
      BY <2>1 DEF Claim, Release, LeaseMinted, EscalationRecorded, QuestionAsked,
         SubmitDecision, PlainCompletion, hubVars
    <2> QED
      BY <1>3, <2>1 DEF RunnerWrites
  <1>4. CASE Resolving
    BY <1>4 DEF Resolving, CommitResolving, RefuseResolving
  <1>5. CASE HubSteps
    BY <1>5 DEF HubSteps, TakeTurn, CommitEscalation, EndTurn, CommitTransition, CommitMigration
  <1>6. CASE UNCHANGED vars
    BY <1>6 DEF vars, hubVars
  <1> QED
    BY <1>1, <1>2, <1>3, <1>4, <1>5, <1>6 DEF Next

(* Nor is an exit taken back.                                               *)
LEMMA LandedKept ==
    ASSUME IInv, TurnInv, [Next]_vars, NEW n, NEW e, Landed(n, e)
    PROVE  Landed(n, e)'
  <1>1. CASE moves' = moves
    BY <1>1 DEF Landed
  <1>2. CASE Recorded
    <2>1. PICK m \in Movement : moves' = Append(moves, m)
      BY <1>2 DEF Recorded
    <2>2. \A i \in MoveIndex : i \in MoveIndex' /\ moves'[i] = moves[i]
      BY <2>1, Appended DEF IInv
    <2> QED
      BY <2>2 DEF Landed, MoveIndex
  <1> QED
    BY <1>1, <1>2, MovesRecorded

(* An ended chunk stays ended.                                              *)
LEMMA TerminalKept ==
    ASSUME [Next]_vars, is_terminal
    PROVE  is_terminal'
  <1>1. EndKept /\ (CompleteByHand \/ UNCHANGED completed)
    BY EndedIsTerminal, EndedStep
  <1>2. UNCHANGED completed \/ completed'
    BY <1>1 DEF CompleteByHand
  <1> QED
    BY <1>1, <1>2, EndLasts, Zenon

-----------------------------------------------------------------------------
(* Between the check and the lock *)

(* A chunk at the terminal has ended.                                       *)
LEMMA AtTerminalEnded ==
    ASSUME FactTypes, TerminalByTransition, current_node = Terminal
    PROVE  is_terminal
  BY StandsAtNode, GraphAssumption

\* Whatever happens between a resolving completion's check and its lock, the
\* decision it carries stays resolved as it was, and if no epoch was taken
\* meanwhile the chunk is still at the gate.
LEMMA VisitStep ==
    ASSUME IInv, TurnInv, InflightVisit, IInv', [Next]_vars
    PROVE  InflightVisit'
  <1> SUFFICES ASSUME NEW s \in inflight'
               PROVE  /\ s.epoch <= latest'
                      /\ choiceOf'[<<s.taking.from, s.gate>>] = s.taking.choice
                      /\ s.epoch = latest' =>
                           \/ Landed(s.taking.from, s.epoch)'
                           \/ is_terminal'
                           \/ /\ current_node' = s.taking.from
                              /\ s.gate = VisitEpoch(s.taking.from, s.epoch)'
    BY DEF InflightVisit
  <1> DEFINE n == s.taking.from
  <1>1. CASE s \in inflight
    <2>1. /\ s.epoch \in Epochs /\ s.gate \in Epochs /\ s.taking \in Routes
          /\ n \in Nodes /\ s.taking.choice \in Choices
      BY <1>1, GraphAssumption DEF IInv, HubTypes, Submission, RouteType
    <2>2. /\ s.epoch <= latest
          /\ choiceOf[<<n, s.gate>>] = s.taking.choice
          /\ s.epoch = latest => \/ Landed(n, s.epoch) \/ is_terminal
                                 \/ current_node = n /\ s.gate = VisitEpoch(n, s.epoch)
      BY <1>1 DEF InflightVisit
    <2>3. choiceOf'[<<n, s.gate>>] = s.taking.choice
      BY <2>1, <2>2, ResolutionsKept, PartiesAssumption DEF Keys, IInv
    <2>4. latest \in Nat /\ latest' \in Nat /\ latest <= latest' /\ s.epoch \in Nat
      BY <2>1, FenceMoves, BoundsAssumption
         DEF FenceKept, FenceTaken, IInv, FenceTypes, Epochs
    <2>5. ASSUME s.epoch = latest'
          PROVE  \/ Landed(n, s.epoch)' \/ is_terminal'
                 \/ current_node' = n /\ s.gate = VisitEpoch(n, s.epoch)'
      <3>1. s.epoch = latest /\ latest' = latest
        BY <2>2, <2>4, <2>5
      <3>2. CASE Landed(n, s.epoch)
        BY <3>2, LandedKept
      <3>3. CASE is_terminal
        BY <3>3, TerminalKept
      <3>4. CASE current_node = n /\ s.gate = VisitEpoch(n, s.epoch)
        <4>1. CASE moves' = moves
          BY <3>4, <4>1 DEF current_node, latest_movement, VisitEpoch, arrival_epoch_at
        <4>2. CASE Recorded
          <5>1. PICK m \in Movement : moves' = Append(moves, m) /\ Authorised(m)
            BY <4>2 DEF Recorded
          <5>2. moves'[Len(moves')] = m /\ Len(moves') \in 1 .. Len(moves') /\ Len(moves') \in MoveIndex'
            BY <5>1, Appended DEF IInv, MoveIndex
          <5>3. m.epoch \in Epochs /\ owner'[m.epoch] # NoOne
            BY <5>2 DEF Movement, IInv, EpochsOwned
          <5>4. m.epoch = latest
            <6>1. m.epoch <= latest' /\ m.epoch >= latest
              BY <5>1, <5>3 DEF IInv, EpochsOwned, Authorised
            <6> QED
              BY <2>4, <3>1, <5>3, <6>1 DEF Epochs
          <5>5. m.kind # "restart" /\ m.from = n
            BY <2>4, <3>4, <5>1, <5>4 DEF Authorised
          <5>6. m.kind \in {"transition", "migration"}
            BY <5>5 DEF Movement
          <5> QED
            BY <3>1, <5>2, <5>4, <5>5, <5>6 DEF Landed
        <4> QED
          BY <4>1, <4>2, MovesRecorded
      <3> QED
        BY <2>2, <3>1, <3>2, <3>3, <3>4
    <2> QED
      BY <2>2, <2>3, <2>4, <2>5
  <1>2. CASE s \notin inflight
    <2>1. PICK r \in Runners, l \in Leases \cup {NoLease}, t \in Routes, g \in Epochs :
             CheckResolving(r, l, t, g)
      BY <1>2, InflightJoins
    <2>2. /\ s = [runner |-> r, lease |-> l, epoch |-> latest, taking |-> t, gate |-> g]
          /\ UNCHANGED <<latest, choiceOf, moves, stopped, completed>>
          /\ choiceOf[<<t.from, g>>] = t.choice
          /\ g = VisitEpoch(t.from, latest)
          /\ Coherent(t.from, latest)
      BY <1>2, <2>1 DEF CheckResolving, fenceVars, gateVars, leverVars
    <2>3. s.epoch = latest /\ s.taking = t /\ s.gate = g /\ latest \in Nat
      BY <2>2, BoundsAssumption DEF IInv, FenceTypes
    <2>4. current_node = t.from \/ is_terminal
      BY <2>2, AtTerminalEnded DEF Coherent, IInv
    <2>5. is_terminal => is_terminal'
      BY TerminalKept
    <2>6. current_node' = current_node /\ VisitEpoch(t.from, latest)' = VisitEpoch(t.from, latest)
      BY <2>2 DEF current_node, latest_movement, VisitEpoch, arrival_epoch_at
    <2> QED
      BY <2>2, <2>3, <2>4, <2>5, <2>6
  <1> QED
    BY <1>1, <1>2

(* A completion past its check meets at the lock the visit it was checked   *)
(* against, or a refusal.                                                   *)
LEMMA VisitInvariant == Spec => []InflightVisit
  <1>1. Init => InflightVisit
    BY DEF Init, InflightVisit
  <1> QED
    BY <1>1, VisitStep, TurnInvariant, Inductive, PTL DEF Spec

-----------------------------------------------------------------------------
(* What the exits have checked *)

(* A runner's exit.                                                         *)
LEMMA RunnerExits ==
    ASSUME IInv, NEW t \in Routes, NEW e \in Epochs, NEW by \in Runners,
           NEW gate \in 0 .. MaxEpoch, RecordExit(t, e, by, gate),
           t.from \notin HubNodes, ~Landed(t.from, e),
           gate = 0 => t.from \notin HumanNodes,
           gate # 0 => /\ gate = VisitEpoch(t.from, e)
                       /\ choiceOf[<<t.from, gate>>] = t.choice
    PROVE  moves' = moves \/ Exited
  <1>1. CASE t.kind = "escalation"
    BY <1>1 DEF RecordExit
  <1>2. CASE t.kind \in {"transition", "migration"}
    <2> DEFINE m == [kind |-> t.kind, from |-> t.from, to |-> t.to, epoch |-> e,
                     by |-> by, gate |-> gate]
    <2>1. m \in Movement
      BY <1>2, RouteFields DEF Movement
    <2>2. moves' = Append(moves, m)
      BY <1>2 DEF RecordExit, Moved
    <2>3. gate # 0 => <<t.from, gate>> \in closed' /\ <<t.from, gate>> \in Keys
      BY RouteFields, BoundsAssumption DEF RecordExit, Keys, Epochs
    <2>4. RunnerExitChecked(m)
      BY <2>3 DEF RunnerExitChecked
    <2>5. ExitChecked(m)
      BY <1>2, <2>4 DEF ExitChecked, IsExit
    <2> QED
      BY <2>1, <2>2, <2>5 DEF Exited
  <1> QED
    BY <1>1, <1>2, RouteFields

(* Whatever step records a movement, it has made the checks of its kind.    *)
LEMMA ExitsChecked ==
    ASSUME IInv, TurnInv, InflightVisit, [Next]_vars
    PROVE  moves' = moves \/ Exited
  <1>1. ASSUME NEW n \in Nodes, Restart(n) PROVE Exited
    <2> DEFINE m == [kind |-> "restart", from |-> current_node, to |-> n,
                     epoch |-> latest + 1, by |-> Hub, gate |-> 0]
    <2>1. moves' = Append(moves, m) /\ current_node \in Nodes /\ latest + 1 \in Epochs
      BY <1>1, StandsAtNode, BoundsAssumption DEF Restart, Moved, IInv, FenceTypes, Epochs
    <2>2. m \in Movement /\ ExitChecked(m)
      BY <2>1, BoundsAssumption DEF Movement, ExitChecked
    <2> QED
      BY <2>1, <2>2 DEF Exited
  <1>2. ASSUME NEW t \in Routes, CommitTransition(t) PROVE Exited
    <2> DEFINE m == [kind |-> "transition", from |-> t.from, to |-> t.to,
                     epoch |-> turn.epoch + 1, by |-> Hub, gate |-> 0]
    <2>1. turn \in [node : HubNodes, epoch : Epochs] /\ t.from \in HubNodes
      BY <1>2 DEF CommitTransition, IInv, HubTypes
    <2>2. turn.epoch + 1 \in Epochs /\ turn.epoch = latest
      BY <1>2, <2>1, TurnIsNewest, BoundsAssumption DEF CommitTransition, Epochs
    <2>3. moves' = Append(moves, m) /\ m \in Movement
      BY <1>2, <2>2, RouteFields, BoundsAssumption DEF CommitTransition, Moved, Movement
    <2>4. ExitChecked(m)
      BY <2>1, <2>2 DEF ExitChecked, HubExitChecked, IsExit, Epochs
    <2> QED
      BY <2>3, <2>4 DEF Exited
  <1>3. ASSUME NEW t \in Routes, CommitMigration(t) PROVE Exited
    <2> DEFINE m == [kind |-> "migration", from |-> t.from, to |-> t.to,
                     epoch |-> turn.epoch, by |-> Hub, gate |-> 0]
    <2>1. turn.epoch \in Epochs /\ t.from \in HubNodes
      BY <1>3 DEF CommitMigration, IInv, HubTypes
    <2>2. moves' = Append(moves, m) /\ m \in Movement
      BY <1>3, <2>1, RouteFields, BoundsAssumption DEF CommitMigration, Moved, Movement
    <2>3. ~ \E i \in MoveIndex : /\ moves[i].kind = "migration"
                                 /\ moves[i].from = t.from /\ moves[i].epoch = turn.epoch
      BY <1>3 DEF CommitMigration, MoveIndex
    <2>4. ExitChecked(m)
      BY <2>1, <2>3 DEF ExitChecked, HubExitChecked, IsExit
    <2> QED
      BY <2>2, <2>4 DEF Exited
  <1>4. ASSUME NEW r \in Runners, NEW l, NEW e \in Epochs, NEW t \in Routes,
               PlainCompletion(r, l, e, t)
        PROVE  moves' = moves \/ Exited
    <2>1. /\ RecordExit(t, e, r, 0) /\ t.from \notin HubNodes /\ t.from \notin HumanNodes
          /\ ~Landed(t.from, e)
      BY <1>4 DEF PlainCompletion
    <2>2. 0 \in 0 .. MaxEpoch
      BY BoundsAssumption
    <2> QED
      BY <2>1, <2>2, RunnerExits
  <1>5. ASSUME NEW s \in inflight, CommitResolving(s)
        PROVE  moves' = moves \/ Exited
    <2>1. /\ s.runner \in Runners /\ s.epoch \in Epochs /\ s.taking \in Routes
          /\ s.gate \in 0 .. MaxEpoch /\ s.gate # 0
      BY BoundsAssumption DEF IInv, HubTypes, Submission, Epochs
    <2>2. /\ RecordExit(s.taking, s.epoch, s.runner, s.gate)
          /\ ~Landed(s.taking.from, s.epoch) /\ ~is_terminal
          /\ s.taking.from \notin HubNodes
      BY <1>5 DEF CommitResolving, ResolvingAdmitted, fence, TurnInv, InflightOffHub
    <2>3. owner[s.epoch] # NoOne
      <3>1. \/ owner[s.epoch] = s.runner
            \/ \E j \in MoveIndex : moves[j].epoch = s.epoch
        BY <1>5 DEF CommitResolving, ResolvingAdmitted, exit_claimant_waived, owns, MoveIndex
      <3> QED
        BY <2>1, <3>1, PartiesAssumption DEF IInv, EpochsOwned
    <2>4. s.epoch = latest
      BY <1>5, <2>1, <2>3, CurrentIsNewest DEF CommitResolving, ResolvingAdmitted, fence
    <2>5. /\ s.gate = VisitEpoch(s.taking.from, s.epoch)
          /\ choiceOf[<<s.taking.from, s.gate>>] = s.taking.choice
      BY <2>2, <2>4 DEF InflightVisit
    <2> QED
      BY <2>1, <2>2, <2>5, RunnerExits
  <1>6. CASE Levers
    BY <1>1, <1>6 DEF Levers, Promote, Demote, Pause, Resume, Stop, CompleteByHand, Detach, Requeue
  <1>7. CASE People
    BY <1>7 DEF People, Answer, ResolveDecision
  <1>8. CASE RunnerWrites
    <2>1. ASSUME NEW r, NEW l, NEW e, NEW q, NEW n, NEW t, NEW g,
                 \/ Claim(r) \/ Release(r, e) \/ LeaseMinted(r, l, e)
                 \/ EscalationRecorded(r, l, e) \/ QuestionAsked(q, r, l, e)
                 \/ SubmitDecision(r, l, e, n) \/ CheckResolving(r, l, t, g)
          PROVE  moves' = moves
      BY <2>1 DEF Claim, Release, LeaseMinted, EscalationRecorded, QuestionAsked,
         SubmitDecision, CheckResolving
    <2> QED
      BY <1>4, <1>8, <2>1 DEF RunnerWrites
  <1>9. CASE Resolving
    BY <1>5, <1>9 DEF Resolving, RefuseResolving
  <1>10. CASE HubSteps
    BY <1>2, <1>3, <1>10 DEF HubSteps, TakeTurn, CommitEscalation, EndTurn
  <1>11. CASE UNCHANGED vars
    BY <1>11 DEF vars
  <1> QED
    BY <1>6, <1>7, <1>8, <1>9, <1>10, <1>11 DEF Next

(* The movement a step records, with all that the step has checked.         *)
LEMMA Checked ==
    ASSUME IInv, TurnInv, InflightVisit, [Next]_vars, moves' # moves
    PROVE  \E m \in Movement :
              /\ Authorised(m) /\ ExitChecked(m)
              /\ Len(moves) \in Nat
              /\ Len(moves') = Len(moves) + 1
              /\ moves'[Len(moves')] = m
              /\ \A i \in MoveIndex : moves'[i] = moves[i] /\ moves[i] \in Movement
              /\ \A i \in MoveIndex' : i \in MoveIndex \/ i = Len(moves')
  <1>1. PICK m \in Movement : moves' = Append(moves, m) /\ Authorised(m)
    BY MovesRecorded DEF Recorded
  <1>2. PICK n \in Movement : moves' = Append(moves, n) /\ ExitChecked(n)
    BY ExitsChecked DEF Exited
  <1>3. m = n
    BY <1>1, <1>2, Appended DEF IInv
  <1> QED
    BY <1>1, <1>2, <1>3, Appended DEF IInv

-----------------------------------------------------------------------------
(* Completions *)

LEMMA ExitsOnceStep ==
    ASSUME IInv, TurnInv, InflightVisit, ExitsOnce, [Next]_vars
    PROVE  ExitsOnce'
  <1>1. CASE moves' = moves
    BY <1>1 DEF ExitsOnce, MoveIndex
  <1>2. CASE moves' # moves
    <2>1. PICK m \in Movement :
             /\ Authorised(m) /\ ExitChecked(m)
             /\ Len(moves) \in Nat
             /\ Len(moves') = Len(moves) + 1
             /\ moves'[Len(moves')] = m
             /\ \A i \in MoveIndex : moves'[i] = moves[i] /\ moves[i] \in Movement
             /\ \A i \in MoveIndex' : i \in MoveIndex \/ i = Len(moves')
      BY <1>2, Checked
    <2>2. ASSUME NEW i \in MoveIndex, IsExit(moves[i]), IsExit(m),
                 moves[i].from = m.from, moves[i].epoch = m.epoch
          PROVE  m.from \in HubNodes /\ moves[i].kind # m.kind
      <3>1. m.by \in Runners => ~Landed(m.from, m.epoch)
        BY <2>1, <2>2, PartiesAssumption DEF ExitChecked, RunnerExitChecked, IsExit
      <3>2. Landed(m.from, m.epoch)
        BY <2>2 DEF Landed, IsExit, MoveIndex
      <3>3. m.by = Hub
        BY <3>1, <3>2 DEF Movement
      <3>4. HubExitChecked(m)
        BY <2>1, <2>2, <3>3, PartiesAssumption DEF ExitChecked, IsExit
      <3>5. ~(m.epoch > latest)
        <4>1. m.epoch \in Epochs /\ owner[m.epoch] # NoOne
          BY <2>2 DEF IInv, EpochsOwned, Movement
        <4> QED
          BY <4>1, BoundsAssumption DEF IInv, EpochsOwned, FenceTypes, Epochs
      <3> QED
        BY <2>2, <3>4, <3>5 DEF HubExitChecked
    <2>3. ASSUME NEW i \in MoveIndex', NEW j \in MoveIndex', i # j,
                 IsExit(moves'[i]), IsExit(moves'[j]),
                 moves'[i].from = moves'[j].from, moves'[i].epoch = moves'[j].epoch
          PROVE  moves'[i].from \in HubNodes /\ moves'[i].kind # moves'[j].kind
      <3>1. CASE i \in MoveIndex /\ j \in MoveIndex
        BY <2>1, <2>3, <3>1 DEF ExitsOnce
      <3>2. CASE i \in MoveIndex /\ j = Len(moves')
        BY <2>1, <2>2, <2>3, <3>2
      <3>3. CASE i = Len(moves') /\ j \in MoveIndex
        BY <2>1, <2>2, <2>3, <3>3
      <3> QED
        BY <2>1, <2>3, <3>1, <3>2, <3>3
    <2> QED
      BY <2>3 DEF ExitsOnce, IsExit
  <1> QED
    BY <1>1, <1>2

(* A node is left once per epoch, however often a completion is sent, by    *)
(* whomever, and whatever its edge resolves to the second time.             *)
THEOREM NodesAreLeftOnce == Spec => []ExitsOnce
  <1>1. Init => ExitsOnce
    BY DEF Init, ExitsOnce, MoveIndex
  <1> QED
    BY <1>1, ExitsOnceStep, VisitInvariant, TurnInvariant, Inductive, PTL DEF Spec

-----------------------------------------------------------------------------
(* Gates *)

LEMMA GateStep ==
    ASSUME IInv, TurnInv, InflightVisit, GateHonoured, [Next]_vars
    PROVE  GateHonoured'
  <1> DEFINE Taken(m) == \E t \in Routes :
                            /\ t.from = m.from /\ t.to = m.to
                            /\ t.choice = choiceOf[<<m.from, m.gate>>]
  <1> DEFINE TakenNow(m) == \E t \in Routes :
                               /\ t.from = m.from /\ t.to = m.to
                               /\ t.choice = choiceOf'[<<m.from, m.gate>>]
  <1>1. ASSUME NEW m \in Movement, m.gate # 0, Taken(m) PROVE TakenNow(m)
    <2>1. PICK t \in Routes : /\ t.from = m.from /\ t.to = m.to
                              /\ t.choice = choiceOf[<<m.from, m.gate>>]
      BY <1>1
    <2>2. t.choice \in Choices /\ t.choice # NoChoice
      BY GraphAssumption, PartiesAssumption DEF RouteType
    <2>3. <<m.from, m.gate>> \in Keys
      BY <1>1, BoundsAssumption DEF Movement, Keys, Epochs
    <2> QED
      BY <2>1, <2>2, <2>3, ResolutionsKept DEF IInv
  <1>2. closed \subseteq closed'
    BY ResolutionsKept DEF IInv
  <1> DEFINE Honoured(i, m, before) ==
        IsExit(m) =>
          /\ m.from \in HumanNodes /\ i > 1 => m.gate # 0
          /\ m.gate # 0 =>
               /\ m.gate = IF m.from \in HumanNodes /\ i > 1 THEN before.epoch ELSE m.epoch
               /\ <<m.from, m.gate>> \in closed'
               /\ TakenNow(m)
  <1>3. ASSUME NEW i \in MoveIndex PROVE Honoured(i, moves[i], moves[i - 1])
    <2>1. moves[i] \in Movement
      BY DEF IInv, FactTypes, MoveIndex
    <2>2. IsExit(moves[i]) =>
            /\ moves[i].from \in HumanNodes /\ i > 1 => moves[i].gate # 0
            /\ moves[i].gate # 0 =>
                 /\ moves[i].gate = IF moves[i].from \in HumanNodes /\ i > 1
                                    THEN moves[i - 1].epoch ELSE moves[i].epoch
                 /\ <<moves[i].from, moves[i].gate>> \in closed
                 /\ Taken(moves[i])
      BY DEF GateHonoured
    <2> QED
      BY <1>1, <1>2, <2>1, <2>2
  <1>4. CASE moves' = moves
    BY <1>3, <1>4 DEF GateHonoured, MoveIndex
  <1>5. CASE moves' # moves
    <2>1. PICK m \in Movement :
             /\ Authorised(m) /\ ExitChecked(m)
             /\ Len(moves) \in Nat
             /\ Len(moves') = Len(moves) + 1
             /\ moves'[Len(moves')] = m
             /\ \A i \in MoveIndex : moves'[i] = moves[i] /\ moves[i] \in Movement
             /\ \A i \in MoveIndex' : i \in MoveIndex \/ i = Len(moves')
      BY <1>5, Checked
    <2>2. ASSUME NEW i \in MoveIndex PROVE Honoured(i, moves'[i], moves'[i - 1])
      <3>1. i > 1 => i - 1 \in MoveIndex
        BY <2>1 DEF MoveIndex
      <3>2. moves'[i] = moves[i] /\ (i > 1 => moves'[i - 1] = moves[i - 1])
        BY <2>1, <3>1
      <3> QED
        BY <1>3, <3>2
    <2>3. Honoured(Len(moves'), m, moves'[Len(moves') - 1])
      <3>1. SUFFICES ASSUME IsExit(m)
                     PROVE  /\ m.from \in HumanNodes => m.gate # 0
                            /\ m.gate # 0 =>
                                 /\ m.gate = IF m.from \in HumanNodes /\ Len(moves') > 1
                                             THEN moves'[Len(moves') - 1].epoch ELSE m.epoch
                                 /\ <<m.from, m.gate>> \in closed'
                                 /\ TakenNow(m)
        OBVIOUS
      <3>2. CASE m.by = Hub
        <4>1. m.from \in HubNodes /\ m.gate = 0
          BY <2>1, <3>1, <3>2, PartiesAssumption DEF ExitChecked, IsExit, HubExitChecked
        <4> QED
          BY <4>1, GraphAssumption
      <3>3. CASE m.by \in Runners
        <4>1. RunnerExitChecked(m)
          BY <2>1, <3>1, <3>3, PartiesAssumption DEF ExitChecked, IsExit
        <4>2. ASSUME m.gate # 0
              PROVE  m.gate = IF m.from \in HumanNodes /\ Len(moves') > 1
                              THEN moves'[Len(moves') - 1].epoch ELSE m.epoch
          <5>1. m.gate = VisitEpoch(m.from, m.epoch) /\ m.from = current_node
            BY <2>1, <4>1, <4>2 DEF RunnerExitChecked, Authorised
          <5>2. CASE moves = <<>>
            BY <2>1, <5>1, <5>2 DEF VisitEpoch, arrival_epoch_at
          <5>3. CASE moves # <<>>
            <6>1. Len(moves) \in MoveIndex /\ Len(moves') > 1 /\ Len(moves') - 1 = Len(moves)
              BY <2>1, <5>3 DEF IInv, FactTypes, MoveIndex
            <6> QED
              BY <2>1, <5>1, <5>3, <6>1 DEF VisitEpoch, arrival_epoch_at, latest_movement
          <5> QED
            BY <5>2, <5>3
        <4>3. m.gate # 0 => TakenNow(m)
          BY <1>1, <4>1 DEF RunnerExitChecked
        <4> QED
          BY <4>1, <4>2, <4>3 DEF RunnerExitChecked
      <3> QED
        BY <3>2, <3>3 DEF Movement
    <2>4. \A i \in MoveIndex' : Honoured(i, moves'[i], moves'[i - 1])
      BY <2>1, <2>2, <2>3
    <2> QED
      BY <2>4 DEF GateHonoured, IsExit
  <1> QED
    BY <1>4, <1>5

(* A gate is left only on a person's word about the visit that is left: a   *)
(* graph gate never without one, and no resolution of an earlier visit, or  *)
(* of another choice, carries an exit, whatever commits between the check   *)
(* of a resolving completion and its lock.                                  *)
THEOREM GatesAreHonoured == Spec => []GateHonoured
  <1>1. Init => GateHonoured
    BY DEF Init, GateHonoured, MoveIndex
  <1> QED
    BY <1>1, GateStep, VisitInvariant, TurnInvariant, Inductive, PTL DEF Spec

(* Only an exit, and not one of the hub's own nodes, carries a decision.    *)
CarriedOffHub ==
    \A i \in MoveIndex : moves[i].gate # 0 => IsExit(moves[i]) /\ moves[i].from \notin HubNodes

\* A movement that carries a decision is a completion's, and leaves no hub node.
LEMMA CarriedStep ==
    ASSUME IInv, TurnInv, InflightVisit, CarriedOffHub, [Next]_vars
    PROVE  CarriedOffHub'
  <1>1. CASE moves' = moves
    BY <1>1 DEF CarriedOffHub, MoveIndex, IsExit
  <1>2. CASE moves' # moves
    <2>1. PICK m \in Movement :
             /\ Authorised(m) /\ ExitChecked(m)
             /\ moves'[Len(moves')] = m
             /\ \A i \in MoveIndex : moves'[i] = moves[i]
             /\ \A i \in MoveIndex' : i \in MoveIndex \/ i = Len(moves')
      BY <1>2, Checked
    <2>2. m.gate # 0 => IsExit(m) /\ m.from \notin HubNodes
      BY <2>1 DEF ExitChecked, HubExitChecked, RunnerExitChecked
    <2> QED
      BY <2>1, <2>2 DEF CarriedOffHub, IsExit
  <1> QED
    BY <1>1, <1>2

\* No movement of the hub ever carries a decision.
LEMMA CarriedInvariant == Spec => []CarriedOffHub
  <1>1. Init => CarriedOffHub
    BY DEF Init, CarriedOffHub, MoveIndex
  <1> QED
    BY <1>1, CarriedStep, VisitInvariant, TurnInvariant, Inductive, PTL DEF Spec

(* Two exits that carry one decision: both left the same gate in visits     *)
(* that began at the decision's epoch, and epochs do not fall in between.   *)
LEMMA CarriedTwice ==
    ASSUME IInv, CarriedOffHub, GateHonoured, ExitsOnce, EpochsNeverFall
    PROVE  DecisionCarriedOnce
  <1> SUFFICES ASSUME NEW i \in MoveIndex, NEW j \in MoveIndex, i < j,
                      moves[i].gate # 0, moves[i].from = moves[j].from,
                      moves[i].gate = moves[j].gate
               PROVE  /\ moves[i].from \in HumanNodes
                      /\ moves[i].epoch = moves[i].gate
                      /\ moves[j - 1].epoch = moves[i].gate
                      /\ moves[j].epoch > moves[i].gate
    BY DEF DecisionCarriedOnce
  <1>1. /\ i \in Nat /\ j \in Nat /\ j > 1
        /\ j - 1 \in MoveIndex /\ i <= j - 1
        /\ i > 1 => i - 1 \in MoveIndex /\ i - 1 < i
    BY DEF MoveIndex, IInv, FactTypes
  <1>2. \A k \in MoveIndex : moves[k].epoch \in Nat
    <2>1. \A k \in MoveIndex : moves[k] \in Movement
      BY DEF IInv, FactTypes, MoveIndex
    <2>2. \A k \in MoveIndex : moves[k].epoch \in Epochs
      BY <2>1 DEF Movement
    <2> QED
      BY <2>2 DEF Epochs
  <1>3. /\ IsExit(moves[i]) /\ IsExit(moves[j]) /\ moves[i].from \notin HubNodes
    BY DEF CarriedOffHub
  <1>4. moves[i].epoch # moves[j].epoch
    BY <1>1, <1>3 DEF ExitsOnce
  <1>5. /\ moves[i].gate = IF moves[i].from \in HumanNodes /\ i > 1
                           THEN moves[i - 1].epoch ELSE moves[i].epoch
        /\ moves[j].gate = IF moves[j].from \in HumanNodes /\ j > 1
                           THEN moves[j - 1].epoch ELSE moves[j].epoch
    BY <1>3 DEF GateHonoured
  <1>6. moves[i].from \in HumanNodes
    BY <1>4, <1>5
  <1>7. moves[j - 1].epoch = moves[i].gate
    BY <1>1, <1>5, <1>6
  <1>8. moves[i].epoch <= moves[j - 1].epoch /\ moves[j - 1].epoch <= moves[j].epoch
    <2>1. i = j - 1 \/ i < j - 1
      BY <1>1
    <2>2. i < j - 1 => moves[i].epoch <= moves[j - 1].epoch
      BY <1>1 DEF EpochsNeverFall
    <2>3. moves[j - 1].epoch <= moves[j].epoch
      BY <1>1 DEF EpochsNeverFall
    <2> QED
      BY <1>1, <1>2, <2>1, <2>2, <2>3
  <1>9. moves[i].gate <= moves[i].epoch
    <2>1. i > 1 => moves[i - 1].epoch <= moves[i].epoch
      BY <1>1 DEF EpochsNeverFall
    <2> QED
      BY <1>2, <1>5, <2>1
  <1>10. /\ moves[i].epoch \in Nat /\ moves[j].epoch \in Nat
         /\ moves[j - 1].epoch \in Nat /\ moves[i].gate \in Nat
    BY <1>1, <1>2, <1>7
  <1>11. moves[i].epoch = moves[i].gate
    BY <1>7, <1>8, <1>9, <1>10
  <1>12. moves[j].epoch > moves[i].gate
    BY <1>4, <1>7, <1>8, <1>10, <1>11
  <1> QED
    BY <1>6, <1>7, <1>11, <1>12

(* A person's word carries one exit, except in a walk that comes back to    *)
(* the gate within the epoch the decision was opened at.                    *)
THEOREM DecisionsAreCarriedOnce == Spec => []DecisionCarriedOnce
  <1> QED
    BY CarriedTwice, CarriedInvariant, GatesAreHonoured, NodesAreLeftOnce, EpochsDoNotFall,
       Inductive, PTL

=============================================================================
