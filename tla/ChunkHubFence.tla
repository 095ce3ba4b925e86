---------------------------- MODULE ChunkHubFence ----------------------------
(***************************************************************************)
(* ChunkHub implements FencedChunk: every write of the hub to a chunk is a *)
(* grant, a renewal, a revocation, a fenced move, a step of the hub or an  *)
(* end of the abstract fence, or leaves all of it alone.                   *)
(***************************************************************************)
EXTENDS ChunkHubProofs

\* The abstract owner and moves, as Fence reads them off the facts.
FOwner == IF latest = 0 THEN NoOne ELSE owner[latest]

FLeft == {[epoch |-> moves[i].epoch, by |-> moves[i].by] :
             i \in {j \in MoveIndex : moves[j].by \in Runners}}

Fenced == [Fence!Next]_(Fence!vars)

\* What is proved about the fence, at this mapping.
Abstract == INSTANCE FencedChunkProofs WITH
               epoch <- latest, owner <- FOwner, holder <- route, left <- FLeft,
               ended <- is_terminal

\* The operator's ends give the route up with the write, so that completing
\* a stopped chunk takes it from nobody.
EndsUnrouted == stopped \/ completed => route = NoOne

-----------------------------------------------------------------------------
(* The abstract actions, over the facts *)

LEMMA ToGrant ==
    ASSUME NEW r \in Runners, ~is_terminal, is_terminal' = is_terminal, route = NoOne,
           route' = r, FOwner' = r, latest' = latest + 1, FLeft' = FLeft
    PROVE  Fenced
  <1>1. Fence!Grant(r)
    BY DEF Fence!Grant, FOwner, FLeft
  <1> QED
    BY <1>1 DEF Fenced, Fence!Next

LEMMA ToRenew ==
    ASSUME NEW r \in Runners, ~is_terminal, is_terminal' = is_terminal, route = r,
           route' = route, FOwner' = r, latest' \in Nat, latest' > latest, FLeft' = FLeft
    PROVE  Fenced
  <1>1. Fence!Renew(r)
    BY DEF Fence!Renew, FOwner, FLeft
  <1> QED
    BY <1>1 DEF Fenced, Fence!Next

LEMMA ToKeepOrRevoke ==
    ASSUME ~is_terminal, is_terminal' = is_terminal, route' \in {route, NoOne},
           FOwner' = FOwner, latest' = latest, FLeft' = FLeft
    PROVE  Fenced
  <1>1. CASE route' = route
    BY <1>1 DEF Fenced, Fence!vars, FOwner, FLeft
  <1>2. CASE route' = NoOne
    <2>1. Fence!Revoke
      BY <1>2 DEF Fence!Revoke, FOwner, FLeft
    <2> QED
      BY <2>1 DEF Fenced, Fence!Next
  <1> QED
    BY <1>1, <1>2

LEMMA ToAdvance ==
    ASSUME NEW r \in Runners, ~is_terminal, FOwner = r \/ (FOwner = Hub /\ route = r),
           FLeft' = FLeft \cup {[epoch |-> latest, by |-> r]},
           route' \in {route, NoOne}, FOwner' = FOwner, latest' = latest
    PROVE  Fenced
  <1>1. is_terminal' \in BOOLEAN
    BY DEF is_terminal
  <1>2. Fence!Advance(r)
    BY <1>1 DEF Fence!Advance, Fence!MayMove, FOwner, FLeft
  <1> QED
    BY <1>2 DEF Fenced, Fence!Next

LEMMA ToHubStep ==
    ASSUME ~is_terminal, latest' = latest + 1, FOwner' = Hub, FLeft' = FLeft,
           route' \in {route, NoOne}
    PROVE  Fenced
  <1>1. is_terminal' \in BOOLEAN
    BY DEF is_terminal
  <1>2. Fence!HubStep
    BY <1>1 DEF Fence!HubStep, FOwner, FLeft
  <1> QED
    BY <1>2 DEF Fenced, Fence!Next

LEMMA ToEnd ==
    ASSUME ~is_terminal, is_terminal', latest' = latest, FOwner' = FOwner, FLeft' = FLeft,
           route' \in {route, NoOne}
    PROVE  Fenced
  <1>1. is_terminal' = TRUE
    BY DEF is_terminal
  <1>2. Fence!End
    BY <1>1 DEF Fence!End, FOwner, FLeft
  <1> QED
    BY <1>2 DEF Fenced, Fence!Next

-----------------------------------------------------------------------------
(* What the facts a step leaves alone mean for the fence *)

LEMMA LeftKept ==
    ASSUME moves' = moves
    PROVE  FLeft' = FLeft
  BY DEF FLeft, MoveIndex

LEMMA OwnerKept ==
    ASSUME latest' = latest, owner' = owner
    PROVE  FOwner' = FOwner
  BY DEF FOwner

LEMMA TerminalKept ==
    ASSUME moves' = moves, stopped' = stopped, completed' = completed
    PROVE  is_terminal' = is_terminal
  BY DEF is_terminal, newest_transition_is_terminal, latest_movement

\* A movement of the hub's adds no runner's move.
LEMMA LeftHub ==
    ASSUME FactTypes, NEW m \in Movement, moves' = Append(moves, m), m.by = Hub
    PROVE  FLeft' = FLeft
  <1>1. {j \in MoveIndex' : moves'[j].by \in Runners} = {j \in MoveIndex : moves[j].by \in Runners}
    BY Appended, PartiesAssumption
  <1>2. \A j \in MoveIndex : moves'[j] = moves[j]
    BY Appended
  <1> QED
    BY <1>1, <1>2 DEF FLeft

\* A runner's adds its own.
LEMMA LeftRunner ==
    ASSUME FactTypes, NEW m \in Movement, moves' = Append(moves, m), m.by \in Runners
    PROVE  FLeft' = FLeft \cup {[epoch |-> m.epoch, by |-> m.by]}
  <1> DEFINE n == Len(moves')
             J == {j \in MoveIndex : moves[j].by \in Runners}
  <1>1. n \in MoveIndex'
    BY Appended DEF MoveIndex
  <1>2. {j \in MoveIndex' : moves'[j].by \in Runners} = J \cup {n}
    BY <1>1, Appended
  <1>3. \A j \in J : moves'[j] = moves[j]
    BY Appended
  <1>4. moves'[n] = m
    BY Appended
  <1> HIDE DEF n
  <1> QED
    BY <1>2, <1>3, <1>4, ZenonT(30) DEF FLeft

-----------------------------------------------------------------------------
(* The hub's steps *)

\* Nothing recorded, no epoch taken, no lever that ends the chunk.
LEMMA QuietFenced ==
    ASSUME ~is_terminal, moves' = moves, stopped' = stopped, completed' = completed,
           owner' = owner, latest' = latest, route' \in {route, NoOne}
    PROVE  Fenced
  BY LeftKept, OwnerKept, TerminalKept, ToKeepOrRevoke

LEMMA LeversFenced ==
    ASSUME IInv, ~is_terminal, Levers
    PROVE  Fenced
  <1>1. CASE Promote \/ Demote \/ Pause \/ Resume \/ Detach \/ Requeue
    BY <1>1, QuietFenced DEF Promote, Demote, Pause, Resume, Detach, Requeue, fenceVars, leverVars
  <1>2. CASE Stop \/ CompleteByHand
    <2>1. /\ moves' = moves /\ latest' = latest /\ owner' = owner /\ route' = NoOne
          /\ stopped' \/ completed'
      BY <1>2 DEF Stop, CompleteByHand, fenceVars
    <2>2. is_terminal'
      BY <2>1 DEF is_terminal
    <2> QED
      BY <2>1, <2>2, LeftKept, OwnerKept, ToEnd
  <1>3. ASSUME NEW n \in Nodes, Restart(n) PROVE Fenced
    <2> DEFINE m == [kind |-> "restart", from |-> current_node, to |-> n, epoch |-> latest + 1,
                     by |-> Hub, gate |-> 0]
    <2>1. latest + 1 \in Epochs /\ latest + 1 # 0
      BY <1>3, BoundsAssumption DEF Restart, IInv, FenceTypes, Epochs
    <2>2. m \in Movement
      <3>1. current_node \in Nodes
        BY StandsAtNode DEF IInv
      <3> QED
        BY <2>1, <3>1, BoundsAssumption DEF Movement
    <2>3. moves' = Append(moves, m) /\ m.by = Hub
      BY <1>3 DEF Restart, Moved
    <2>4. latest' = latest + 1 /\ route' = route /\ owner'[latest'] = Hub
      BY <1>3, <2>1 DEF Restart, record_epoch_owner, IInv, FenceTypes
    <2>5. FOwner' = Hub
      BY <2>1, <2>4 DEF FOwner
    <2>6. FLeft' = FLeft
      BY <2>2, <2>3, LeftHub DEF IInv
    <2> QED
      BY <2>4, <2>5, <2>6, ToHubStep
  <1> QED
    BY <1>1, <1>2, <1>3 DEF Levers

\* A runner's exit, at the newest epoch and by who may move the chunk in it.
LEMMA ExitFenced ==
    ASSUME IInv, ~is_terminal, NEW t \in Routes, NEW r \in Runners, NEW gate \in 0 .. MaxEpoch,
           latest \in Epochs, RecordExit(t, latest, r, gate),
           owner[latest] = r \/ (owner[latest] = Hub /\ route = r)
    PROVE  Fenced
  <1>1. latest' = latest /\ owner' = owner /\ route' \in {route, NoOne}
        /\ stopped' = stopped /\ completed' = completed
    BY DEF RecordExit, fenceVars, leverVars
  <1>2. CASE t.kind = "escalation"
    <2>1. moves' = moves
      BY <1>2 DEF RecordExit
    <2> QED
      BY <1>1, <2>1, QuietFenced
  <1>3. CASE t.kind \in {"transition", "migration"}
    <2> DEFINE m == [kind |-> t.kind, from |-> t.from, to |-> t.to, epoch |-> latest,
                     by |-> r, gate |-> gate]
    <2>1. m \in Movement
      BY <1>3, RouteFields DEF Movement
    <2>2. moves' = Append(moves, m) /\ m.by = r /\ m.epoch = latest
      BY <1>3 DEF RecordExit, Moved
    <2>3. FLeft' = FLeft \cup {[epoch |-> latest, by |-> r]}
      BY <2>1, <2>2, LeftRunner DEF IInv
    <2>4. FOwner = owner[latest]
      BY DEF FOwner, Epochs
    <2> QED
      BY <1>1, <2>3, <2>4, OwnerKept, ToAdvance
  <1> QED
    BY <1>2, <1>3, RouteFields

LEMMA MintFenced ==
    ASSUME IInv, ~is_terminal, NEW r \in Runners, NEW l \in Leases \cup {NoLease},
           NEW e \in Epochs, LeaseMinted(r, l, e)
    PROVE  Fenced
  <1>1. /\ MintAdmitted(r, l, e) /\ latest' = e /\ route' = route /\ moves' = moves
        /\ stopped' = stopped /\ completed' = completed
        /\ owner' = [owner EXCEPT ![e] = IF @ = NoOne THEN r ELSE @]
    BY DEF LeaseMinted, leverVars
  <1>2. CASE owner[e] = NoOne
    <2>1. e > latest /\ route = r /\ owner'[e] = r
      BY <1>1, <1>2 DEF MintAdmitted, IInv, FenceTypes
    <2>2. FOwner' = r /\ latest' \in Nat
      BY <1>1, <2>1, BoundsAssumption DEF FOwner, Epochs
    <2> QED
      BY <1>1, <2>1, <2>2, LeftKept, TerminalKept, ToRenew
  <1>3. CASE owner[e] # NoOne
    <2>1. e <= latest /\ latest # 0
      BY <1>3, OwnedIsOld DEF IInv
    <2>2. e >= latest
      BY <1>1, <2>1 DEF MintAdmitted, admits
    <2>3. owner' = owner /\ latest' = latest
      BY <1>1, <1>3, <2>1, <2>2, BoundsAssumption DEF IInv, FenceTypes, Epochs
    <2> QED
      BY <1>1, <2>3, QuietFenced
  <1> QED
    BY <1>2, <1>3

LEMMA RunnerWritesFenced ==
    ASSUME IInv, ~is_terminal, RunnerWrites
    PROVE  Fenced
  <1>1. ASSUME NEW r \in Runners, Claim(r) PROVE Fenced
    <2>1. /\ route = NoOne /\ route' = r /\ latest' = latest + 1 /\ owner'[latest'] = r
          /\ latest' # 0 /\ moves' = moves /\ stopped' = stopped /\ completed' = completed
      BY <1>1, BoundsAssumption DEF Claim, record_epoch_owner, IInv, FenceTypes, Epochs, leverVars
    <2>2. FOwner' = r
      BY <2>1 DEF FOwner
    <2> QED
      BY <2>1, <2>2, LeftKept, TerminalKept, ToGrant
  <1>2. ASSUME NEW r \in Runners, NEW l, NEW e \in Epochs, NEW t \in Routes,
               PlainCompletion(r, l, e, t)
        PROVE  Fenced
    <2>1. RecordExit(t, e, r, 0) /\ claimed_fence("CURRENT", r, l, e)
      BY <1>2 DEF PlainCompletion
    <2>2. owner[e] = r /\ e = latest
      BY <2>1, ClaimedIsOwned, CurrentIsNewest
    <2>3. 0 \in 0 .. MaxEpoch
      BY BoundsAssumption
    <2> QED
      BY <2>1, <2>2, <2>3, ExitFenced
  <1>3. ASSUME NEW r, NEW l, NEW e, NEW q, NEW n, NEW t, NEW g,
               \/ Release(r, e) \/ EscalationRecorded(r, l, e) \/ QuestionAsked(q, r, l, e)
               \/ SubmitDecision(r, l, e, n) \/ CheckResolving(r, l, t, g)
        PROVE  Fenced
    BY <1>3, QuietFenced DEF Release, EscalationRecorded, QuestionAsked, SubmitDecision,
       CheckResolving, fenceVars, leverVars
  <1> QED
    BY <1>1, <1>2, <1>3, MintFenced DEF RunnerWrites

\* A resolution is carried by the epoch's owner, or by the holder at the epoch
\* of a restart, which is the hub's.
LEMMA ResolvingFenced ==
    ASSUME IInv, RestartsHubOwned, ~is_terminal, Resolving
    PROVE  Fenced
  <1>1. PICK s \in inflight : CommitResolving(s) \/ RefuseResolving(s)
    BY DEF Resolving
  <1>2. CASE RefuseResolving(s)
    BY <1>2, QuietFenced DEF RefuseResolving, fenceVars, leverVars
  <1>3. CASE CommitResolving(s)
    <2>1. /\ s.runner \in Runners /\ s.epoch \in Epochs /\ s.taking \in Routes
          /\ s.gate \in 0 .. MaxEpoch
      BY BoundsAssumption DEF IInv, HubTypes, Submission, Epochs
    <2>2. /\ RecordExit(s.taking, s.epoch, s.runner, s.gate)
          /\ fence("CURRENT", s.epoch)
          /\ exit_claimant_waived(s) \/ owns(s.runner, s.lease, s.epoch)
      BY <1>3 DEF CommitResolving, ResolvingAdmitted
    <2>3. owner[s.epoch] = s.runner \/ (owner[s.epoch] = Hub /\ route = s.runner)
      BY <2>2 DEF exit_claimant_waived, owns, RestartsHubOwned, MoveIndex
    <2>4. s.epoch = latest
      BY <2>1, <2>2, <2>3, CurrentIsNewest, PartiesAssumption DEF fence
    <2> QED
      BY <2>1, <2>2, <2>3, <2>4, ExitFenced
  <1> QED
    BY <1>1, <1>2, <1>3

LEMMA HubStepsFenced ==
    ASSUME IInv, ~is_terminal, HubSteps
    PROVE  Fenced
  <1>1. CASE TakeTurn \/ EndTurn
    BY <1>1, QuietFenced DEF TakeTurn, EndTurn, fenceVars, leverVars
  <1>2. ASSUME turn # NoTurn, turn.epoch < MaxEpoch, fence("ABOVE", turn.epoch + 1),
               record_hub_lease(turn.epoch + 1)
        PROVE  turn.epoch = latest /\ latest + 1 \in Epochs
               /\ latest' = latest + 1 /\ FOwner' = Hub
    <2>1. turn.epoch = latest
      BY <1>2, TurnIsNewest
    <2>2. latest + 1 \in Epochs /\ latest + 1 # 0
      BY <1>2, <2>1, BoundsAssumption DEF IInv, FenceTypes, Epochs
    <2>3. latest' = latest + 1 /\ owner'[latest'] = Hub
      BY <1>2, <2>1, <2>2 DEF record_hub_lease, record_epoch_owner, IInv, FenceTypes
    <2> QED
      BY <2>1, <2>2, <2>3 DEF FOwner
  <1>3. CASE CommitEscalation
    <2>1. latest' = latest + 1 /\ FOwner' = Hub
      BY <1>2, <1>3 DEF CommitEscalation
    <2>2. route' = route /\ moves' = moves
      BY <1>3 DEF CommitEscalation
    <2> QED
      BY <2>1, <2>2, LeftKept, ToHubStep
  <1>4. ASSUME NEW t \in Routes, CommitTransition(t) PROVE Fenced
    <2> DEFINE m == [kind |-> "transition", from |-> t.from, to |-> t.to,
                     epoch |-> turn.epoch + 1, by |-> Hub, gate |-> 0]
    <2>1. turn.epoch = latest /\ latest + 1 \in Epochs /\ latest' = latest + 1 /\ FOwner' = Hub
      BY <1>2, <1>4 DEF CommitTransition
    <2>2. m \in Movement
      BY <2>1, RouteFields, BoundsAssumption DEF Movement
    <2>3. moves' = Append(moves, m) /\ m.by = Hub /\ route' \in {route, NoOne}
      BY <1>4 DEF CommitTransition, Moved
    <2>4. FLeft' = FLeft
      BY <2>2, <2>3, LeftHub DEF IInv
    <2> QED
      BY <2>1, <2>3, <2>4, ToHubStep
  <1>5. ASSUME NEW t \in Routes, CommitMigration(t) PROVE Fenced
    <2> DEFINE m == [kind |-> "migration", from |-> t.from, to |-> t.to,
                     epoch |-> turn.epoch, by |-> Hub, gate |-> 0]
    <2>1. turn.epoch \in Epochs
      BY <1>5 DEF CommitMigration, IInv, HubTypes
    <2>2. m \in Movement
      BY <2>1, RouteFields, BoundsAssumption DEF Movement
    <2>3. /\ moves' = Append(moves, m) /\ m.by = Hub /\ route' \in {route, NoOne}
          /\ latest' = latest /\ owner' = owner /\ stopped' = stopped /\ completed' = completed
      BY <1>5 DEF CommitMigration, Moved, fenceVars, leverVars
    <2>4. FLeft' = FLeft
      BY <2>2, <2>3, LeftHub DEF IInv
    <2>5. ~newest_transition_is_terminal'
      <3>1. moves'[Len(moves')].kind = "migration"
        BY <2>2, <2>3, Appended DEF IInv
      <3> QED
        BY <3>1 DEF newest_transition_is_terminal, latest_movement
    <2>6. is_terminal' = is_terminal
      BY <2>3, <2>5 DEF is_terminal
    <2> QED
      BY <2>3, <2>4, <2>6, OwnerKept, ToKeepOrRevoke
  <1> QED
    BY <1>1, <1>3, <1>4, <1>5 DEF HubSteps

\* Once the chunk has ended nothing the fence speaks of changes.
LEMMA EndedFenced ==
    ASSUME EndsUnrouted, is_terminal, [Next]_vars
    PROVE  Fenced
  <1>1. EndKept /\ (CompleteByHand \/ (UNCHANGED completed /\ UNCHANGED route))
    BY EndedIsTerminal, EndedStep
  <1>2. is_terminal'
    BY <1>1, EndLasts DEF CompleteByHand
  <1>3. route' = route
    <2>1. CASE CompleteByHand
      <3>1. stopped
        BY <2>1, Zenon DEF CompleteByHand, is_terminal, status, status_with
      <3> QED
        BY <2>1, <3>1 DEF EndsUnrouted, CompleteByHand
    <2> QED
      BY <1>1, <2>1
  <1>4. moves' = moves /\ latest' = latest /\ owner' = owner
    BY <1>1 DEF EndKept, fenceVars
  <1>5. is_terminal' = is_terminal
    BY <1>2 DEF is_terminal
  <1>6. FLeft' = FLeft /\ FOwner' = FOwner
    BY <1>4, LeftKept, OwnerKept
  <1> QED
    BY <1>3, <1>4, <1>5, <1>6 DEF Fenced, Fence!vars, FOwner, FLeft

LEMMA StepFenced ==
    ASSUME IInv, RestartsHubOwned, EndsUnrouted, [Next]_vars
    PROVE  Fenced
  <1>1. CASE is_terminal
    BY <1>1, EndedFenced
  <1>2. ASSUME ~is_terminal, People PROVE Fenced
    BY <1>2, QuietFenced DEF People, Answer, ResolveDecision, fenceVars, leverVars
  <1>3. ASSUME ~is_terminal, UNCHANGED vars PROVE Fenced
    BY <1>3, QuietFenced DEF vars, fenceVars, leverVars
  <1> QED
    BY <1>1, <1>2, <1>3, LeversFenced, RunnerWritesFenced, ResolvingFenced, HubStepsFenced DEF Next

-----------------------------------------------------------------------------
(* The route of a chunk the operator ended *)

\* Only the operator's levers stop or complete a chunk.
LEMMA LeversAlone ==
    ASSUME [Next]_vars, ~Levers
    PROVE  stopped' = stopped /\ completed' = completed
  <1>1. CASE People
    BY <1>1 DEF People, Answer, ResolveDecision, leverVars
  <1>2. CASE RunnerWrites
    <2>1. ASSUME NEW r, NEW l, NEW e, NEW q, NEW n, NEW t, NEW g,
                 \/ Claim(r) \/ Release(r, e) \/ LeaseMinted(r, l, e)
                 \/ EscalationRecorded(r, l, e) \/ QuestionAsked(q, r, l, e)
                 \/ SubmitDecision(r, l, e, n) \/ CheckResolving(r, l, t, g)
          PROVE  stopped' = stopped /\ completed' = completed
      BY <2>1 DEF Claim, Release, LeaseMinted, EscalationRecorded, QuestionAsked,
         SubmitDecision, CheckResolving, leverVars
    <2>2. ASSUME NEW r, NEW l, NEW e, NEW t, PlainCompletion(r, l, e, t)
          PROVE  stopped' = stopped /\ completed' = completed
      BY <2>2 DEF PlainCompletion, RecordExit, leverVars
    <2> QED
      BY <1>2, <2>1, <2>2 DEF RunnerWrites
  <1>3. CASE Resolving
    BY <1>3 DEF Resolving, CommitResolving, RefuseResolving, RecordExit, leverVars
  <1>4. CASE HubSteps
    BY <1>4 DEF HubSteps, TakeTurn, CommitEscalation, EndTurn, CommitTransition,
       CommitMigration, leverVars
  <1>5. CASE UNCHANGED vars
    BY <1>5 DEF vars, leverVars
  <1> QED
    BY <1>1, <1>2, <1>3, <1>4, <1>5 DEF Next

LEMMA EndsUnroutedStep ==
    ASSUME IInv, EndsUnrouted, [Next]_vars
    PROVE  EndsUnrouted'
  <1>1. CASE is_terminal
    <2>1. EndKept /\ (CompleteByHand \/ (UNCHANGED completed /\ UNCHANGED route))
      BY <1>1, EndedIsTerminal, EndedStep
    <2> QED
      BY <2>1 DEF EndsUnrouted, EndKept, CompleteByHand
  <1>2. CASE ~is_terminal
    <2>1. ~stopped /\ ~completed
      BY <1>2 DEF is_terminal
    <2>2. CASE Levers
      BY <2>1, <2>2 DEF Levers, Promote, Demote, Pause, Resume, Stop, CompleteByHand, Detach,
         Requeue, Restart, EndsUnrouted, leverVars
    <2>3. CASE ~Levers
      <3>1. stopped' = stopped /\ completed' = completed
        BY <2>3, LeversAlone
      <3> QED
        BY <2>1, <3>1 DEF EndsUnrouted
    <2> QED
      BY <2>2, <2>3
  <1> QED
    BY <1>1, <1>2

(* The hub implements the abstract fence: whatever runners, the operator,   *)
(* people and the hub's own turns do to a chunk, and in whichever order, is *)
(* a step FencedChunk allows.                                               *)
THEOREM HubKeepsFence == Spec => KeepsFence
  <1>1. Init => Fence!Init /\ EndsUnrouted
    <2> SUFFICES ASSUME Init PROVE Fence!Init /\ EndsUnrouted
      OBVIOUS
    <2>1. latest = 0 /\ route = NoOne /\ moves = <<>>
      BY DEF Init
    <2>2. FLeft = {} /\ FOwner = NoOne
      BY <2>1 DEF FLeft, FOwner, MoveIndex
    <2>3. is_terminal = FALSE
      BY DEF Init, is_terminal, newest_transition_is_terminal
    <2> QED
      BY <2>1, <2>2, <2>3 DEF Fence!Init, FLeft, FOwner, EndsUnrouted
  <1>2. IInv /\ EndsUnrouted /\ [Next]_vars => EndsUnrouted'
    BY EndsUnroutedStep
  <1>3. IInv /\ RestartsHubOwned /\ EndsUnrouted /\ [Next]_vars => [Fence!Next]_(Fence!vars)
    BY StepFenced DEF Fenced
  <1> QED
    BY <1>1, <1>2, <1>3, Inductive, RestartsInv, PTL DEF Spec, KeepsFence, Fence!Spec

OneMoverPerEpoch ==
    \A i, j \in MoveIndex :
        /\ moves[i].by \in Runners /\ moves[j].by \in Runners
        /\ moves[i].epoch = moves[j].epoch
        => moves[i].by = moves[j].by

(* No two runners ever record a movement of the chunk at one epoch, however *)
(* often it was claimed, detached, restarted and claimed again.             *)
THEOREM OneMover == Spec => []OneMoverPerEpoch
  <1>1. Abstract!Parties
    BY PartiesAssumption DEF Abstract!Parties
  <1>2. Abstract!Spec => []Abstract!Exclusive
    BY <1>1, Abstract!MovesAreExclusive
  <1>3. KeepsFence => Abstract!Spec
    BY DEF KeepsFence, Fence!Spec, Abstract!Spec, Fence!Init, Abstract!Init, Fence!Next,
       Abstract!Next, Fence!vars, Abstract!vars, FOwner, FLeft,
       Fence!Grant, Abstract!Grant, Fence!Renew, Abstract!Renew, Fence!Revoke, Abstract!Revoke,
       Fence!MayMove, Abstract!MayMove, Fence!Advance, Abstract!Advance, Fence!HubStep,
       Abstract!HubStep, Fence!End, Abstract!End
  <1>4. Abstract!Exclusive => OneMoverPerEpoch
    <2> SUFFICES ASSUME Abstract!Exclusive, NEW i \in MoveIndex, NEW j \in MoveIndex,
                        moves[i].by \in Runners, moves[j].by \in Runners,
                        moves[i].epoch = moves[j].epoch
                 PROVE  moves[i].by = moves[j].by
      BY DEF OneMoverPerEpoch
    <2> DEFINE a == [epoch |-> moves[i].epoch, by |-> moves[i].by]
               b == [epoch |-> moves[j].epoch, by |-> moves[j].by]
    <2>1. a \in FLeft /\ b \in FLeft
      BY DEF FLeft
    <2>2. a.epoch = b.epoch => a.by = b.by
      BY <2>1 DEF Abstract!Exclusive
    <2> QED
      BY <2>2
  <1> QED
    BY <1>2, <1>3, <1>4, HubKeepsFence, PTL
=============================================================================
