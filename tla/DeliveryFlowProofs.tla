-------------------------- MODULE DeliveryFlowProofs --------------------------
(***************************************************************************)
(* Proofs about DeliveryFlow, for any chunks, flows, graph and bounds.     *)
(*                                                                         *)
(* A turn outlives the steps that read it: the driver takes it and starts  *)
(* its task later, the task reads its visit, calls the forge and answers   *)
(* later still, while sweeps, levers and reconciles run.  The invariant    *)
(* says who may end a turn meanwhile: the tick that took it, then its task *)
(* alone, because a tick knows every task that was running when it began   *)
(* and no task starts within one.                                          *)
(***************************************************************************)
EXTENDS DeliveryFlow, FiniteSetTheorems, WellFoundedInduction, TLAPS

-----------------------------------------------------------------------------
(* The inductive invariant *)

\* A submission with an open turn is open, and so are those with a task.
TurnsOpen == \A i \in Ids : subs[i].turn => subs[i].closed = Open

\* Within a tick every task was running when it began; none runs at boot.
TickKnowsTasks ==
    /\ drv.pc # "idle" => Running \subseteq drv.running
    /\ drv.pc = "recover" => drv.running = {}

\* The turns a tick has taken are open and have no task yet.
TakenWait ==
    /\ drv.taken # {} => drv.pc = "admit"
    /\ \A i \in drv.taken : subs[i].turn /\ i \notin Running

\* A reconcile has every open submission in hand, and closes none mid-turn.
ReconcileCovers ==
    /\ drv.pc = "submit" => open_submissions_from(0) \subseteq drv.opened \cup drv.submitted
    /\ drv.pc = "close" =>
          /\ open_submissions_from(0)
                \subseteq drv.kept \cup drv.submitted \cup {k[1] : k \in drv.closing}
          /\ \A k \in drv.closing : ~subs[k[1]].turn

\* The floor is at most the next arrival.
FloorBound == floor <= Len(subs) + 1

Landing == {"gate", "pass", "call", "fenced"}

\* No submission is of an epoch its chunk has not reached.
SubsBehind == \A i \in Ids : subs[i].epoch <= facts[subs[i].chunk].epoch

\* While its chunk has not moved on, a pass has landed, has found without
\* code, or has left to land every flow its submission holds; and only a task
\* at the forge has a merge under way.
PassCovers ==
    \A i \in Ids :
        /\ task[i].phase # "call" => task[i].doing = {}
        /\ task[i].phase \in Landing =>
              /\ task[i].doing \subseteq task[i].left
              /\ facts[subs[i].chunk].epoch <= subs[i].epoch =>
                    \A f \in subs[i].flows : f \in task[i].left \/ finished(subs[i].chunk, f)

\* A merge sent late was sent past the fence, and nothing is sent after it.
LateIsFenced ==
    \A i \in Ids : \/ task[i].late = 0
                   \/ task[i].late = 1 /\ task[i].phase \in {"call", "fenced"} /\ PastFence(i)

IInv ==
    /\ TypeOK
    /\ TurnsOpen
    /\ OneTurnPerFlow
    /\ TaskOwnsTurn
    /\ TickKnowsTasks
    /\ TakenWait
    /\ ReconcileCovers
    /\ FloorBound
    /\ FloorCoversOpen
    /\ SubsBehind
    /\ PassCovers
    /\ LateIsFenced

\* No repository has two base branches among what chunks may resolve to.
FixedBases ==
    \A t, u \in Targets : \A f \in t, g \in u : Repository[f] = Repository[g] => f = g

\* What a pass has left to land on a flow it holds has not landed on one.
LeftUnlanded ==
    \A i \in Ids : task[i].phase \in Landing => \A f \in task[i].left \cap subs[i].flows :
        /\ f \in UNION Targets
        /\ \A m \in markers[subs[i].chunk] : m.held => m.repo # Repository[f]

(* What each step keeps.  The last two are about the step itself. *)

\* What LandedMeansMerged says of one step.
Settled ==
    /\ \A c \in Chunks : \A m \in markers'[c] \ markers[c] :
          \E f \in merged[c] : Repository[f] = m.repo
    /\ \A i \in Ids : subs[i].closed # "landed" /\ subs'[i].closed = "landed" =>
          \A f \in subs[i].flows : finished(subs[i].chunk, f)

LandedKept ==
    FixedBases /\ LeftUnlanded /\ LandedOnce => LeftUnlanded' /\ LandedOnce'

Kept == IInv' /\ Settled /\ LandedKept

-----------------------------------------------------------------------------
(* Numbers and rows *)

\* A set of numbers has a least one.
LEMMA LeastNumber ==
    ASSUME NEW T \in SUBSET Nat, T # {}
    PROVE  \E x \in T : \A y \in T : x <= y
<1>1. PICK x \in T : \A y \in T : ~(<<y, x>> \in OpToRel(<, Nat))
  BY NatLessThanWellFounded, WFMin, Zenon
<1>2. \A y \in T : ~(y < x)
  BY <1>1 DEF OpToRel
<1> QED BY <1>2

\* Min and Max of a set of arrivals.
LEMMA MinMax ==
    ASSUME NEW n \in Nat, NEW T \in SUBSET (1 .. n), T # {}
    PROVE  /\ Min(T) \in T /\ \A y \in T : Min(T) <= y
           /\ Max(T) \in T
<1>1. \E x \in T : \A y \in T : x <= y
  BY LeastNumber
<1>2. Min(T) \in T /\ \A y \in T : Min(T) <= y
  BY <1>1 DEF Min
<1>3. \E x \in T : \A y \in T : x >= y
  <2> DEFINE U == {n - y : y \in T}
  <2>1. U \in SUBSET Nat /\ U # {}
    <3>1. \A y \in T : n - y \in Nat
      OBVIOUS
    <3> QED BY <3>1
  <2> HIDE DEF U
  <2>2. PICK u \in U : \A v \in U : u <= v
    BY <2>1, LeastNumber
  <2>3. PICK x \in T : u = n - x
    BY DEF U
  <2>4. \A y \in T : n - x <= n - y
    BY <2>2, <2>3 DEF U
  <2> QED BY <2>4
<1>4. Max(T) \in T
  BY <1>3 DEF Max
<1> QED BY <1>2, <1>4

\* A function on the first n numbers is a sequence.
LEMMA FunctionSeq ==
    ASSUME NEW S, NEW n \in Nat, NEW f \in [1 .. n -> S]
    PROVE  f \in Seq(S) /\ Len(f) = n
OBVIOUS

LEMMA SeqFunction ==
    ASSUME NEW S, NEW s \in Seq(S)
    PROVE  s \in [1 .. Len(s) -> S] /\ Len(s) \in Nat
OBVIOUS

Closures == {Open, "landed", "failure"} \cup Withdrawals

\* What a turn's end or a reconcile closes a departed submission with.
LEMMA WithdrawalType ==
    \A f, s : /\ withdrawal_for(f, s) \in Withdrawals \cup {Open}
              /\ withdrawal_for(f, s) \in Closures
              /\ withdrawal_for(f, s) # "landed"
BY DEF withdrawal_for, Withdrawals, Closures, Open

\* Rows new, written over subs without a new submission, a new turn or an end
\* of a turn but those of X: what is closed stays as it was closed, and what
\* is mid-turn is not closed.
Eased(new, X) ==
    /\ new \in Seq(Submission) /\ Len(new) = Len(subs)
    /\ \A i \in Ids :
          /\ new[i].chunk = subs[i].chunk /\ new[i].node = subs[i].node
          /\ new[i].epoch = subs[i].epoch /\ new[i].flows = subs[i].flows
          /\ new[i].turn => subs[i].turn /\ new[i].closed = subs[i].closed
          /\ subs[i].closed # Open => new[i].closed = subs[i].closed
          /\ i \notin X => new[i].turn = subs[i].turn

\* The rows closed as landed anew.
NewLanded(new) == {i \in Ids : new[i].closed = "landed" /\ subs[i].closed # "landed"}

LEMMA CloseKeeps ==
    ASSUME NEW row \in Submission, NEW closure \in Closures
    PROVE  /\ Close(row, closure) \in Submission
           /\ Close(row, closure).chunk = row.chunk /\ Close(row, closure).node = row.node
           /\ Close(row, closure).epoch = row.epoch /\ Close(row, closure).flows = row.flows
           /\ Close(row, closure).turn = row.turn
           /\ Close(row, closure).closed = IF row.closed = Open THEN closure ELSE row.closed
<1> DEFINE none == NoReview
           a == [row EXCEPT !.closed = closure]
           b == [row EXCEPT !.closed = closure, !.cuts = 0, !.due = TRUE, !.wait = "none",
                            !.review = none]
<1>1. none \in [Flows -> {"none", "open", "overdue"}]
  BY DEF NoReview
<1>2. closure \in {Open, "landed", "failure"} \cup Withdrawals
  BY DEF Closures
<1> HIDE DEF none
<1>3. /\ a \in Submission
      /\ a.chunk = row.chunk /\ a.node = row.node /\ a.epoch = row.epoch
      /\ a.flows = row.flows /\ a.turn = row.turn /\ a.closed = closure
  BY <1>2 DEF Submission
<1>4. /\ b \in Submission
      /\ b.chunk = row.chunk /\ b.node = row.node /\ b.epoch = row.epoch
      /\ b.flows = row.flows /\ b.turn = row.turn /\ b.closed = closure
  BY <1>1, <1>2 DEF Submission
<1> HIDE DEF a, b
<1>5. CASE row.closed # Open
  <2>1. Close(row, closure) = row
    BY <1>5 DEF Close
  <2> QED BY <2>1, <1>5
<1>6. CASE row.closed = Open
  <2>1. Close(row, closure) \in {a, b}
    BY <1>6 DEF Close, a, b, none
  <2> QED BY <2>1, <1>3, <1>4, <1>6
<1> QED BY <1>5, <1>6

\* The end of a turn touches its own row, and closes it as landed only when told.
LEMMA EndedEased ==
    ASSUME TypeOK, NEW i \in Ids, NEW closure \in Closures, NEW base \in Submission,
           base.chunk = subs[i].chunk, base.node = subs[i].node, base.epoch = subs[i].epoch,
           base.flows = subs[i].flows, base.closed = subs[i].closed
    PROVE  /\ Eased(Ended(i, base, closure), {i})
           /\ closure # "landed" => NewLanded(Ended(i, base, closure)) = {}
           /\ NewLanded(Ended(i, base, closure)) \subseteq {i}
<1> DEFINE new == Ended(i, base, closure)
           over == [base EXCEPT !.turn = FALSE]
           row == Close(over, closure)
<1>1. subs \in [1 .. Len(subs) -> Submission] /\ Len(subs) \in Nat
  BY SeqFunction DEF TypeOK
<1>2. /\ over \in Submission /\ over.chunk = base.chunk /\ over.node = base.node
      /\ over.epoch = base.epoch /\ over.flows = base.flows /\ over.turn = FALSE
      /\ over.closed = base.closed
  BY DEF Submission
<1>3. new = [subs EXCEPT ![i] = row]
  BY DEF Ended
<1> HIDE DEF over
<1>4. /\ row \in Submission
      /\ row.chunk = over.chunk /\ row.node = over.node
      /\ row.epoch = over.epoch /\ row.flows = over.flows
      /\ row.turn = over.turn
      /\ row.closed = IF over.closed = Open THEN closure ELSE over.closed
  BY <1>2, CloseKeeps
<1> HIDE DEF new, row
<1>5. new \in [1 .. Len(subs) -> Submission] /\ new[i] = row /\ \A j \in Ids \ {i} : new[j] = subs[j]
  BY <1>1, <1>3, <1>4 DEF Ids
<1>6. new \in Seq(Submission) /\ Len(new) = Len(subs)
  BY <1>1, <1>5, FunctionSeq
<1> QED BY <1>2, <1>4, <1>5, <1>6 DEF Eased, NewLanded, new, Open

LEMMA EndTurnEased ==
    ASSUME TypeOK, NEW i \in Ids, NEW closure \in Closures, NEW cuts \in Nat
    PROVE  /\ Eased(EndTurn(i, closure, cuts), {i})
           /\ closure # "landed" => NewLanded(EndTurn(i, closure, cuts)) = {}
           /\ NewLanded(EndTurn(i, closure, cuts)) \subseteq {i}
<1> DEFINE base == [subs[i] EXCEPT !.cuts = cuts]
<1>1. subs[i] \in Submission
  BY SeqFunction DEF TypeOK, Ids
<1>2. /\ base \in Submission /\ base.chunk = subs[i].chunk /\ base.node = subs[i].node
      /\ base.epoch = subs[i].epoch /\ base.flows = subs[i].flows
      /\ base.closed = subs[i].closed
  BY <1>1 DEF Submission
<1>3. EndTurn(i, closure, cuts) = Ended(i, base, closure)
  BY DEF EndTurn
<1> HIDE DEF base
<1> QED BY <1>2, <1>3, EndedEased

\* One that ends without landing adds no landing.
LEMMA EndTurnUnlanded ==
    ASSUME TypeOK, NEW i \in Ids, NEW closure \in Closures, closure # "landed", NEW cuts \in Nat
    PROVE  /\ Eased(EndTurn(i, closure, cuts), {i})
           /\ NewLanded(EndTurn(i, closure, cuts)) = {}
  BY EndTurnEased

\* A lever's withdrawal leaves every open turn and every closed row alone.
LEMMA WithdrawEased ==
    ASSUME TypeOK, TurnsOpen, NEW c, NEW outcome \in Withdrawals
    PROVE  /\ Eased(withdraw_waiting(c, outcome), {})
           /\ NewLanded(withdraw_waiting(c, outcome)) = {}
<1> DEFINE new == withdraw_waiting(c, outcome)
<1>1. subs \in [1 .. Len(subs) -> Submission] /\ Len(subs) \in Nat
  BY SeqFunction DEF TypeOK
<1>2. ASSUME NEW i \in Ids
      PROVE  /\ new[i] \in Submission
             /\ new[i].chunk = subs[i].chunk /\ new[i].node = subs[i].node
             /\ new[i].epoch = subs[i].epoch /\ new[i].flows = subs[i].flows
             /\ new[i].turn = subs[i].turn
             /\ subs[i].turn \/ subs[i].closed # Open => new[i].closed = subs[i].closed
             /\ new[i].closed \in {subs[i].closed, outcome}
  <2>1. subs[i] \in Submission
    BY <1>1 DEF Ids
  <2>2. new[i] = IF subs[i].chunk = c /\ subs[i].closed = Open /\ ~subs[i].turn
                 THEN Close(subs[i], outcome) ELSE subs[i]
    BY DEF withdraw_waiting
  <2>3. outcome \in Closures
    BY DEF Closures
  <2> HIDE DEF new
  <2> QED BY <2>1, <2>2, <2>3, CloseKeeps
<1>3. new \in [1 .. Len(subs) -> Submission]
  BY <1>2 DEF withdraw_waiting, Ids
<1>4. new \in Seq(Submission) /\ Len(new) = Len(subs)
  BY <1>1, <1>3, FunctionSeq
<1> HIDE DEF new
<1> QED BY <1>2, <1>4 DEF Eased, NewLanded, new, Withdrawals

LEMMA SameEased ==
    ASSUME TypeOK
    PROVE  Eased(subs, {}) /\ NewLanded(subs) = {}
BY DEF Eased, NewLanded, TypeOK

-----------------------------------------------------------------------------
(* What a step of each shape keeps *)

\* No chunk comes back below a fence it has passed.
FactsKept ==
    /\ facts' \in [Chunks -> Facts]
    /\ \A c \in Chunks : /\ facts[c].epoch <= facts'[c].epoch
                         /\ is_terminal(facts[c]) => is_terminal(facts'[c])

\* A chunk's no-code markers stay while its epoch does.
NoCodeKept ==
    /\ nocode' \in [Chunks -> SUBSET NoCode]
    /\ \A c \in Chunks : \/ nocode[c] \subseteq nocode'[c]
                         \/ facts[c].epoch < facts'[c].epoch

\* The tasks of X are over, some others may be, and none begins.
TasksEased(X) ==
    /\ task' \in Seq(Task) /\ Len(task') = Len(task)
    /\ \A i \in Ids : task'[i] \in {task[i], NoTask}
    /\ \A i \in X \cap Ids : task'[i].phase = "none"

LEMMA Typed ==
    ASSUME TypeOK
    PROVE  /\ Len(subs) \in Nat
           /\ Ids = 1 .. Len(subs)
           /\ \A i \in Ids : subs[i] \in Submission /\ subs[i].chunk \in Chunks
           /\ \A i \in Ids : task[i] \in Task
<1>1. subs \in [1 .. Len(subs) -> Submission] /\ Len(subs) \in Nat
  BY SeqFunction DEF TypeOK
<1>2. task \in [1 .. Len(subs) -> Task]
  BY SeqFunction DEF TypeOK
<1>3. \A i \in Ids : subs[i].chunk \in Chunks
  BY <1>1 DEF Ids, Submission
<1> QED BY <1>1, <1>2, <1>3 DEF Ids

\* No turn opens, and none ends but where its task is over.
LEMMA KeepTurns ==
    ASSUME IInv, NEW X \in SUBSET Ids, Eased(subs', X), TasksEased(X)
    PROVE  TurnsOpen' /\ OneTurnPerFlow' /\ TaskOwnsTurn'
<1>1. Ids' = Ids
  BY DEF Eased, Ids
<1>2. \A i \in Ids : subs'[i].turn =>
          subs[i].turn /\ subs'[i].closed = subs[i].closed /\ subs'[i].flows = subs[i].flows
  BY DEF Eased
<1>3. TurnsOpen'
  BY <1>1, <1>2 DEF IInv, TurnsOpen, Open
<1>4. OneTurnPerFlow'
  BY <1>1, <1>2 DEF IInv, OneTurnPerFlow, open_turns
<1>5. ASSUME NEW i \in Running' PROVE subs'[i].turn /\ subs'[i].closed = Open
  <2>1. i \in Ids /\ task'[i].phase # "none"
    BY <1>1 DEF Running
  <2>2. i \in Running /\ i \notin X
    BY <2>1 DEF TasksEased, NoTask, Running
  <2> QED BY <2>1, <2>2, <1>2 DEF IInv, TaskOwnsTurn, Eased
<1>6. TaskOwnsTurn'
  BY <1>5 DEF TaskOwnsTurn, Open
<1> QED BY <1>3, <1>4, <1>6

\* A pass goes on covering its flows while its chunk's markers and epoch stay.
LEMMA KeepPass ==
    ASSUME IInv, NEW X \in SUBSET Ids, Eased(subs', X), TasksEased(X), FactsKept, NoCodeKept,
           markers' = markers
    PROVE  SubsBehind' /\ PassCovers'
<1>1. Ids' = Ids
  BY DEF Eased, Ids
<1>2. ASSUME NEW i \in Ids
      PROVE  /\ subs[i].chunk \in Chunks /\ subs[i].epoch \in Nat
             /\ facts[subs[i].chunk].epoch \in Nat /\ facts'[subs[i].chunk].epoch \in Nat
             /\ subs[i].epoch <= facts[subs[i].chunk].epoch
             /\ facts[subs[i].chunk].epoch <= facts'[subs[i].chunk].epoch
             /\ subs'[i].flows = subs[i].flows /\ subs'[i].chunk = subs[i].chunk
             /\ subs'[i].epoch = subs[i].epoch
  <2>1. subs[i].chunk \in Chunks /\ subs[i].epoch \in Nat
    BY Typed DEF IInv, Submission
  <2>2. facts[subs[i].chunk].epoch \in Nat /\ facts'[subs[i].chunk].epoch \in Nat
    BY <2>1 DEF FactsKept, IInv, TypeOK, Facts
  <2> QED BY <2>1, <2>2 DEF IInv, SubsBehind, FactsKept, Eased
<1>3. ASSUME NEW i \in Ids PROVE subs'[i].epoch <= facts'[subs'[i].chunk].epoch
  BY <1>2
<1>4. SubsBehind'
  BY <1>1, <1>3 DEF SubsBehind
<1>5. ASSUME NEW i \in Ids, task'[i].phase \in Landing
      PROVE  task'[i] = task[i] /\ task[i].phase \in Landing
  BY <1>5 DEF TasksEased, NoTask, Landing
<1>6. \A i \in Ids : task'[i].phase # "call" => task'[i].doing = {}
  BY DEF TasksEased, NoTask, IInv, PassCovers
<1>7. ASSUME NEW i \in Ids, task'[i].phase \in Landing,
             facts'[subs'[i].chunk].epoch <= subs'[i].epoch, NEW f \in subs'[i].flows
      PROVE  f \in task'[i].left \/ finished(subs[i].chunk, f)'
  <2> DEFINE c == subs[i].chunk
  <2>1. facts[c].epoch <= subs[i].epoch /\ ~(facts[c].epoch < facts'[c].epoch)
    BY <1>2, <1>7
  <2>2. nocode[c] \subseteq nocode'[c]
    BY <2>1, <1>2 DEF NoCodeKept
  <2>3. f \in task[i].left \/ finished(c, f)
    BY <2>1, <1>2, <1>5, <1>7 DEF IInv, PassCovers
  <2>4. finished(c, f) => finished(c, f)'
    BY <2>2, <1>2 DEF finished, no_code_flows, LandedRepos
  <2> QED BY <2>3, <2>4, <1>2, <1>5, <1>7
<1>8. \A i \in Ids : task'[i].phase \in Landing => task'[i].doing \subseteq task'[i].left
  BY <1>5 DEF IInv, PassCovers
<1> QED BY <1>1, <1>4, <1>6, <1>7, <1>8 DEF PassCovers

\* A step that writes no marker and closes nothing as landed.
LEMMA NothingLands ==
    ASSUME UNCHANGED markers, NewLanded(subs') = {}
    PROVE  Settled
BY DEF Settled, NewLanded

\* A step that begins no pass and records no landing.
LEMMA KeepLanded ==
    ASSUME markers' = markers,
           \A i \in Ids' : task'[i].phase \in Landing =>
              /\ i \in Ids /\ task[i].phase \in Landing
              /\ task'[i].left \subseteq task[i].left
              /\ subs'[i].chunk = subs[i].chunk /\ subs'[i].flows = subs[i].flows
    PROVE  LandedKept
BY DEF LandedKept, LeftUnlanded, LandedOnce

LEMMA EasedKeepsLanded ==
    ASSUME NEW X \in SUBSET Ids, Eased(subs', X), TasksEased(X), markers' = markers
    PROVE  LandedKept
<1>1. Ids' = Ids
  BY DEF Eased, Ids
<1>2. ASSUME NEW i \in Ids, task'[i].phase \in Landing
      PROVE  /\ task'[i] = task[i]
             /\ subs'[i].chunk = subs[i].chunk /\ subs'[i].flows = subs[i].flows
  BY <1>2 DEF TasksEased, NoTask, Landing, Eased
<1> QED BY <1>1, <1>2, KeepLanded

\* A turn past its fence stays past it: epochs do not fall and ends are final.
LEMMA FenceStays ==
    ASSUME IInv, FactsKept, NEW X \in SUBSET Ids, Eased(subs', X), NEW i \in Ids, PastFence(i)
    PROVE  PastFence(i)'
<1>1. subs[i].chunk \in Chunks /\ subs[i].epoch \in Nat
  BY Typed DEF IInv, Submission
<1>2. subs'[i].chunk = subs[i].chunk /\ subs'[i].epoch = subs[i].epoch
  BY DEF Eased
<1>3. facts[subs[i].chunk].epoch \in Nat /\ facts'[subs[i].chunk].epoch \in Nat
  BY <1>1 DEF FactsKept, IInv, TypeOK, Facts
<1>4. is_terminal(facts[subs[i].chunk]) \/ subs[i].epoch < facts[subs[i].chunk].epoch
  BY <1>1, <1>3 DEF PastFence, fence
<1>5. is_terminal(facts'[subs[i].chunk]) \/ subs[i].epoch < facts'[subs[i].chunk].epoch
  BY <1>1, <1>3, <1>4 DEF FactsKept
<1> QED BY <1>2, <1>3, <1>5, <1>1 DEF PastFence, fence

\* A late merge stays a turn's only one.
LEMMA KeepLate ==
    ASSUME IInv, FactsKept, NEW X \in SUBSET Ids, Eased(subs', X), TasksEased(X)
    PROVE  LateIsFenced'
<1>1. Ids' = Ids
  BY DEF Eased, Ids
<1>2. ASSUME NEW i \in Ids
      PROVE  \/ task'[i].late = 0
             \/ task'[i].late = 1 /\ task'[i].phase \in {"call", "fenced"} /\ PastFence(i)'
  <2>1. CASE task'[i] = NoTask
    BY <2>1 DEF NoTask
  <2>2. CASE task'[i] = task[i]
    BY <2>2, FenceStays DEF IInv, LateIsFenced
  <2> QED BY <2>1, <2>2 DEF TasksEased
<1> QED BY <1>1, <1>2 DEF LateIsFenced

\* The driver's side, where it does not step itself.
LEMMA KeepDriver ==
    ASSUME IInv, NEW X \in SUBSET Ids, Eased(subs', X), TasksEased(X),
           X \cap drv.taken = {}, drv' = drv, floor' = floor
    PROVE  TickKnowsTasks' /\ TakenWait' /\ ReconcileCovers' /\ FloorBound' /\ FloorCoversOpen'
<1>1. Ids' = Ids
  BY DEF Eased, Ids
<1>2. Running' \subseteq Running
  BY <1>1 DEF TasksEased, NoTask, Running
<1>3. TickKnowsTasks'
  BY <1>2 DEF IInv, TickKnowsTasks
<1>4. drv.taken \subseteq Ids
  BY DEF IInv, TypeOK, TickType
<1>5. TakenWait'
  BY <1>2, <1>4 DEF IInv, TakenWait, Eased
<1>6. open_submissions_from(0)' \subseteq open_submissions_from(0)
  BY <1>1 DEF open_submissions_from, Eased, Open
<1>7. \A k \in drv.closing : k[1] \in Ids
  BY DEF IInv, TypeOK, TickType
<1>8. ReconcileCovers'
  BY <1>6, <1>7 DEF IInv, ReconcileCovers, Eased
<1>9. FloorBound' /\ FloorCoversOpen'
  BY <1>6 DEF IInv, FloorBound, FloorCoversOpen, Eased
<1> QED BY <1>3, <1>5, <1>8, <1>9

LEMMA SameNoCode ==
    ASSUME TypeOK, UNCHANGED nocode
    PROVE  NoCodeKept
BY DEF TypeOK, NoCodeKept

\* A step of a task, a lever, a worker, the forge or the sweep: no step of the
\* driver's own tick and no landing recorded.
LEMMA RowsStep ==
    ASSUME IInv, NEW X \in SUBSET Ids, Eased(subs', X), TasksEased(X),
           X \cap drv.taken = {}, FactsKept, NoCodeKept,
           \A i \in NewLanded(subs') : \A f \in subs[i].flows : finished(subs[i].chunk, f),
           \A c \in Chunks : merged[c] \subseteq merged'[c],
           merged' \in [Chunks -> SUBSET Flows], flying' \subseteq Chunks \X Flows,
           target' \in [Chunks -> Targets], exited' \subseteq Visit, upsets' \in 0 .. MaxUpsets,
           UNCHANGED <<markers, floor, fresh, drv>>
    PROVE  Kept
<1>1. Ids' = Ids
  BY DEF Eased, Ids
<1>2. TypeOK'
  BY <1>1 DEF IInv, TypeOK, TickType, Eased, TasksEased, FactsKept, NoCodeKept,
              Marker, NoCode, Repos
<1>3. Settled
  BY DEF Settled, NewLanded
<1> QED BY <1>2, <1>3, KeepTurns, KeepPass, KeepLate, KeepDriver, EasedKeepsLanded DEF IInv, Kept

LEMMA RowStep ==
    ASSUME IInv, NEW X \in SUBSET Ids, Eased(subs', X), TasksEased(X),
           X \cap drv.taken = {}, FactsKept,
           \A i \in NewLanded(subs') : \A f \in subs[i].flows : finished(subs[i].chunk, f),
           \A c \in Chunks : merged[c] \subseteq merged'[c],
           merged' \in [Chunks -> SUBSET Flows], flying' \subseteq Chunks \X Flows,
           target' \in [Chunks -> Targets], exited' \subseteq Visit, upsets' \in 0 .. MaxUpsets,
           UNCHANGED <<markers, nocode, floor, fresh, drv>>
    PROVE  Kept
<1>1. NoCodeKept
  BY SameNoCode DEF IInv
<1> QED BY <1>1, RowsStep

\* A step of the driver's that only reads, or writes one chunk's facts.
LEMMA DriverStep ==
    ASSUME IInv, FactsKept, exited' \subseteq Visit, upsets' \in 0 .. MaxUpsets,
           UNCHANGED <<target, subs, task, markers, nocode, merged, flying>>,
           drv' \in TickType, floor' \in Nat, fresh' \subseteq Ids,
           TickKnowsTasks', TakenWait', ReconcileCovers', FloorBound', FloorCoversOpen'
    PROVE  Kept
<1>1. Ids' = Ids
  BY DEF Ids
<1>2. TypeOK'
  BY <1>1 DEF IInv, TypeOK, TickType, FactsKept, Marker, NoCode, Repos
<1>3. Eased(subs', {}) /\ NewLanded(subs') = {} /\ TasksEased({}) /\ NoCodeKept
  BY SameEased, SameNoCode DEF IInv, TasksEased, TypeOK
<1>4. {} \in SUBSET Ids
  OBVIOUS
<1> QED BY <1>2, <1>3, <1>4, KeepTurns, KeepPass, KeepLate, NothingLands, EasedKeepsLanded
        DEF IInv, Kept

LEMMA SameFacts ==
    ASSUME TypeOK, facts' = facts
    PROVE  FactsKept
<1>1. \A c \in Chunks : facts[c].epoch \in Nat
  BY DEF TypeOK, Facts
<1> QED BY <1>1 DEF TypeOK, FactsKept

LEMMA FactsWritten ==
    ASSUME TypeOK, NEW c \in Chunks, NEW f \in Facts, facts' = [facts EXCEPT ![c] = f],
           facts[c].epoch <= f.epoch, is_terminal(facts[c]) => is_terminal(f)
    PROVE  FactsKept
<1>1. \A d \in Chunks : facts[d].epoch \in Nat
  BY DEF TypeOK, Facts
<1> QED BY <1>1 DEF TypeOK, FactsKept

LEMMA TaskWritten ==
    ASSUME TypeOK, NEW i \in Ids, NEW t \in Task
    PROVE  LET new == [task EXCEPT ![i] = t]
           IN /\ new \in Seq(Task) /\ Len(new) = Len(task)
              /\ new[i] = t /\ \A j \in Ids \ {i} : new[j] = task[j]
<1>1. task \in [1 .. Len(task) -> Task] /\ Len(task) \in Nat /\ Len(task) = Len(subs)
  BY SeqFunction DEF TypeOK
<1> DEFINE new == [task EXCEPT ![i] = t]
<1>2. new \in [1 .. Len(task) -> Task] /\ new[i] = t /\ \A j \in Ids \ {i} : new[j] = task[j]
  BY <1>1 DEF Ids
<1> HIDE DEF new
<1>3. new \in Seq(Task) /\ Len(new) = Len(task)
  BY <1>1, <1>2, FunctionSeq
<1> QED BY <1>2, <1>3 DEF new

LEMMA TaskOver ==
    ASSUME TypeOK, NEW i \in Ids, task' = [task EXCEPT ![i] = NoTask]
    PROVE  TasksEased({i})
<1>1. NoTask \in Task
  BY DEF NoTask, Task
<1>2. NoTask.phase = "none"
  BY DEF NoTask
<1> QED BY <1>1, <1>2, TaskWritten DEF TasksEased

LEMMA SameTasks ==
    ASSUME TypeOK, task' = task
    PROVE  TasksEased({})
BY DEF TypeOK, TasksEased

-----------------------------------------------------------------------------
(* The levers, the workers, the configuration and the forge *)

LEMMA LeverStep ==
    ASSUME IInv, NEW c \in Chunks, NEW f \in Facts, NEW rows, Write(c, f, rows),
           Eased(rows, {}), NewLanded(rows) = {}, upsets' \in 0 .. MaxUpsets,
           facts[c].epoch <= f.epoch, is_terminal(facts[c]) => is_terminal(f)
    PROVE  Kept
<1>1. FactsKept
  BY FactsWritten DEF Write, IInv
<1>2. TasksEased({})
  BY SameTasks DEF Write, memory, IInv
<1>3. {} \in SUBSET Ids
  OBVIOUS
<1>4. subs' = rows
  BY DEF Write
<1>5. Eased(subs', {}) /\ NewLanded(subs') = {}
  BY <1>4
<1> QED BY <1>1, <1>2, <1>3, <1>5, RowStep DEF Write, memory, forgeVars, IInv, TypeOK

LEMMA UpsetBound ==
    ASSUME TypeOK, Upset \/ upsets' = upsets
    PROVE  upsets' \in 0 .. MaxUpsets
BY FlowAssumption DEF TypeOK, Upset

\* A lever or a worker writes one chunk's facts and closes only what waits.
LEMMA PeopleStep == ASSUME IInv, People PROVE Kept
<1>0. TypeOK /\ TurnsOpen
  BY DEF IInv
<1>1. PICK c \in Chunks :
        \/ Stop(c) \/ CompleteByHand(c) \/ Pause(c) \/ Resume(c) \/ Requeue(c)
        \/ \E n \in HubNodes \cup {Away} : Restart(c, n)
        \/ \E n \in HubNodes : WorkerDelivers(c, n)
  BY DEF People
<1>2. facts[c] \in Facts /\ facts[c].epoch \in Nat
  BY <1>0 DEF TypeOK, Facts
<1>3. Eased(subs, {}) /\ NewLanded(subs) = {}
  BY <1>0, SameEased
<1>4. \A o \in Withdrawals :
        Eased(withdraw_waiting(c, o), {}) /\ NewLanded(withdraw_waiting(c, o)) = {}
  BY <1>0, WithdrawEased
<1>5. {"stopped", "completed", "restarted"} \subseteq Withdrawals
  BY DEF Withdrawals
<1>6. upsets' \in 0 .. MaxUpsets
  BY <1>0, <1>1, UpsetBound DEF Stop, CompleteByHand, Pause, Resume, Requeue, Restart, WorkerDelivers
<1>7. CASE Stop(c)
  <2> DEFINE f == [facts[c] EXCEPT !.ended = "stopped"]
  <2>1. f \in Facts /\ f.epoch = facts[c].epoch /\ is_terminal(f)
    BY <1>2 DEF Facts, is_terminal
  <2>2. Write(c, f, withdraw_waiting(c, "stopped"))
    BY <1>7 DEF Stop
  <2> HIDE DEF f
  <2> QED BY <2>1, <2>2, <1>2, <1>4, <1>5, <1>6, LeverStep
<1>8. CASE CompleteByHand(c)
  <2> DEFINE f == [facts[c] EXCEPT !.ended = "completed"]
  <2>1. f \in Facts /\ f.epoch = facts[c].epoch /\ is_terminal(f)
    BY <1>2 DEF Facts, is_terminal
  <2>2. Write(c, f, withdraw_waiting(c, "completed"))
    BY <1>8 DEF CompleteByHand
  <2> HIDE DEF f
  <2> QED BY <2>1, <2>2, <1>2, <1>4, <1>5, <1>6, LeverStep
<1>9. CASE Pause(c)
  <2> DEFINE f == [facts[c] EXCEPT !.paused = TRUE]
  <2>1. f \in Facts /\ f.epoch = facts[c].epoch /\ (is_terminal(facts[c]) => is_terminal(f))
    BY <1>2 DEF Facts, is_terminal
  <2>2. Write(c, f, subs)
    BY <1>9 DEF Pause
  <2> HIDE DEF f
  <2> QED BY <2>1, <2>2, <1>2, <1>3, <1>6, LeverStep
<1>10. CASE Resume(c)
  <2> DEFINE f == [facts[c] EXCEPT !.paused = FALSE]
  <2>1. f \in Facts /\ f.epoch = facts[c].epoch /\ (is_terminal(facts[c]) => is_terminal(f))
    BY <1>2 DEF Facts, is_terminal
  <2>2. Write(c, f, subs)
    BY <1>10 DEF Resume
  <2> HIDE DEF f
  <2> QED BY <2>1, <2>2, <1>2, <1>3, <1>6, LeverStep
<1>11. CASE Requeue(c)
  <2> DEFINE f == [facts[c] EXCEPT !.esc = FALSE]
  <2>1. f \in Facts /\ f.epoch = facts[c].epoch /\ (is_terminal(facts[c]) => is_terminal(f))
    BY <1>2 DEF Facts, is_terminal
  <2>2. Write(c, f, subs)
    BY <1>11 DEF Requeue
  <2> HIDE DEF f
  <2> QED BY <2>1, <2>2, <1>2, <1>3, <1>6, LeverStep
<1>12. ASSUME NEW n \in HubNodes \cup {Away}, Restart(c, n) PROVE Kept
  <2> DEFINE e == facts[c].epoch + 1
             f == [facts[c] EXCEPT !.at = n, !.epoch = e, !.esc = FALSE, !.restarted = e]
  <2>0. e \in Nat /\ e >= facts[c].epoch
    BY <1>2
  <2> HIDE DEF e
  <2>1. f \in Facts /\ f.epoch = e
    BY <2>0, <1>2 DEF Facts
  <2>2. ~is_terminal(facts[c]) /\ Write(c, f, withdraw_waiting(c, "restarted"))
    BY <1>12 DEF Restart, e
  <2> HIDE DEF f
  <2> QED BY <2>0, <2>1, <2>2, <1>2, <1>4, <1>5, <1>6, LeverStep
<1>13. ASSUME NEW n \in HubNodes, WorkerDelivers(c, n) PROVE Kept
  <2> DEFINE e == facts[c].epoch + 1
             f == [facts[c] EXCEPT !.at = n, !.epoch = e, !.esc = FALSE]
  <2>0. e \in Nat /\ facts[c].epoch < e
    BY <1>2
  <2>1. ~is_terminal(facts[c]) /\ facts' = [facts EXCEPT ![c] = f]
    BY <1>13 DEF WorkerDelivers
  <2> HIDE DEF e
  <2>2. f \in Facts /\ f.epoch = e
    BY <2>0, <1>2 DEF Facts
  <2> HIDE DEF f
  <2>3. facts[c].epoch <= f.epoch /\ (is_terminal(facts[c]) => is_terminal(f))
    BY <2>0, <2>1, <2>2, <1>2
  <2>4. FactsKept
    BY <2>1, <2>2, <2>3, <1>0, FactsWritten
  <2>5. NoCodeKept
    <3>1. PICK declared \in SUBSET Repos :
            nocode' = [nocode EXCEPT ![c] = {k \in @ : Repository[k[1]] \notin declared}]
      BY <1>13 DEF WorkerDelivers
    <3>2. nocode \in [Chunks -> SUBSET NoCode] /\ facts \in [Chunks -> Facts]
      BY <1>0 DEF TypeOK
    <3>3. nocode' \in [Chunks -> SUBSET NoCode] /\ \A d \in Chunks \ {c} : nocode'[d] = nocode[d]
      BY <3>1, <3>2
    <3>4. facts[c].epoch < facts'[c].epoch
      BY <3>2, <2>0, <2>1, <2>2
    <3> QED BY <3>3, <3>4 DEF NoCodeKept
  <2>6. /\ UNCHANGED <<target, exited, subs, markers, merged, flying, task, floor, fresh, drv, upsets>>
        /\ Eased(subs', {}) /\ NewLanded(subs') = {} /\ TasksEased({}) /\ {} \in SUBSET Ids
    BY <1>0, <1>3, <1>13, SameTasks DEF WorkerDelivers, memory, forgeVars
  <2> QED BY <2>4, <2>5, <2>6, <1>0, <1>6, RowsStep DEF TypeOK
<1> QED BY <1>1, <1>7, <1>8, <1>9, <1>10, <1>11, <1>12, <1>13

\* Steps that leave every row and task as it is.
LEMMA OutsideStep ==
    ASSUME IInv, UNCHANGED <<facts, exited, subs, markers, nocode, memory>>,
           \A c \in Chunks : merged[c] \subseteq merged'[c],
           merged' \in [Chunks -> SUBSET Flows], flying' \subseteq Chunks \X Flows,
           target' \in [Chunks -> Targets], upsets' \in 0 .. MaxUpsets
    PROVE  Kept
<1>1. FactsKept /\ TasksEased({})
  BY SameFacts, SameTasks DEF IInv, memory
<1>2. Eased(subs', {}) /\ NewLanded(subs') = {}
  BY SameEased DEF IInv
<1>3. {} \in SUBSET Ids
  OBVIOUS
<1> QED BY <1>1, <1>2, <1>3, RowStep DEF IInv, TypeOK, memory

\* The forge settles a merge call: what it merged it keeps.
LEMMA ForgeStep == ASSUME IInv, ForgeSteps PROVE Kept
<1>1. PICK c \in Chunks, f \in Flows : ForgeMerges(c, f) \/ ForgeRefuses(c, f)
  BY DEF ForgeSteps
<1>2. /\ \A d \in Chunks : merged[d] \subseteq merged'[d]
      /\ merged' \in [Chunks -> SUBSET Flows] /\ flying' \subseteq Chunks \X Flows
  BY <1>1, SMTT(30) DEF ForgeMerges, ForgeRefuses, IInv, TypeOK
<1> QED BY <1>1, <1>2, OutsideStep DEF ForgeMerges, ForgeRefuses, hubRows, IInv, TypeOK

LEMMA MoveBaseStep ==
    ASSUME IInv, NEW c \in Chunks, NEW t \in Targets, MoveBase(c, t)
    PROVE  Kept
<1>1. upsets' \in 0 .. MaxUpsets
  BY UpsetBound DEF MoveBase, IInv
<1> QED BY <1>1, OutsideStep DEF MoveBase, forgeVars, IInv, TypeOK

\* The sweep and the recovery end a turn no task answers for.
LEMMA EndInterruptedStep ==
    ASSUME IInv, NEW i \in Ids, EndInterrupted(i), i \notin Running, i \notin drv.taken
    PROVE  Kept
<1> DEFINE closure == withdrawal_for(facts[subs[i].chunk], subs[i])
<1>1. closure \in Closures /\ closure # "landed"
  BY WithdrawalType
<1>2. subs[i].cuts \in Nat
  BY Typed DEF IInv, Submission
<1>3. Eased(subs', {i}) /\ NewLanded(subs') = {}
  <2> DEFINE n == subs[i].cuts
  <2>1. subs' = EndTurn(i, closure, n) /\ n \in Nat /\ TypeOK
    BY <1>2 DEF EndInterrupted, IInv
  <2> HIDE DEF closure, n
  <2>2. Eased(EndTurn(i, closure, n), {i}) /\ NewLanded(EndTurn(i, closure, n)) = {}
    BY <2>1, <1>1, EndTurnUnlanded, Zenon
  <2> QED BY <2>1, <2>2
<1>4. FactsKept
  BY SameFacts DEF EndInterrupted, IInv
<1>5. TasksEased({i})
  BY DEF EndInterrupted, Running, TasksEased, IInv, TypeOK
<1>6. {i} \in SUBSET Ids /\ {i} \cap drv.taken = {}
  OBVIOUS
<1> QED BY <1>3, <1>4, <1>5, <1>6, RowStep DEF EndInterrupted, forgeVars, IInv, TypeOK

\* The turns swept are none of a running task's: the tick knows them all.
LEMMA EndUnansweredStep ==
    ASSUME IInv, NEW i \in Ids, end_unanswered(i) \/ recover_turns(i)
    PROVE  Kept
<1>1. EndInterrupted(i)
  BY DEF end_unanswered, recover_turns
<1>2. i \notin Running
  BY DEF end_unanswered, recover_turns, Unanswered, IInv, TickKnowsTasks
<1>3. i \notin drv.taken
  BY DEF end_unanswered, recover_turns, IInv, TakenWait
<1> QED BY <1>1, <1>2, <1>3, EndInterruptedStep

LEMMA TimesStep ==
    ASSUME IInv, NEW i \in Ids, NEW row \in Submission, Times(i, row),
           row.chunk = subs[i].chunk, row.node = subs[i].node, row.epoch = subs[i].epoch,
           row.flows = subs[i].flows, row.turn = subs[i].turn, row.closed = subs[i].closed
    PROVE  Kept
<1>1. subs \in [1 .. Len(subs) -> Submission] /\ Len(subs) \in Nat
  BY SeqFunction DEF IInv, TypeOK, Ids
<1>2. subs' = [subs EXCEPT ![i] = row]
  BY DEF Times
<1>3. subs' \in [1 .. Len(subs) -> Submission] /\ subs'[i] = row
      /\ \A j \in Ids \ {i} : subs'[j] = subs[j]
  BY <1>1, <1>2 DEF Ids
<1>4. subs' \in Seq(Submission) /\ Len(subs') = Len(subs)
  BY <1>1, <1>3, FunctionSeq
<1>5. Eased(subs', {}) /\ NewLanded(subs') = {}
  BY <1>3, <1>4 DEF Eased, NewLanded
<1>6. FactsKept /\ TasksEased({})
  BY SameFacts, SameTasks DEF IInv, memory, Times
<1>7. {} \in SUBSET Ids
  OBVIOUS
<1> QED BY <1>5, <1>6, <1>7, RowStep DEF IInv, TypeOK, memory, Times, forgeVars

\* Time moves a submission's clocks and nothing else of its row.
LEMMA TimePassesStep ==
    ASSUME IInv, NEW i \in Ids, TimePasses(i)
    PROVE  Kept
<1>1. subs[i] \in Submission
  BY Typed DEF IInv
<1>2. ASSUME PollDue(i) PROVE Kept
  <2> DEFINE row == [subs[i] EXCEPT !.due = TRUE]
  <2>1. /\ row \in Submission
        /\ row.chunk = subs[i].chunk /\ row.node = subs[i].node /\ row.epoch = subs[i].epoch
        /\ row.flows = subs[i].flows /\ row.turn = subs[i].turn /\ row.closed = subs[i].closed
    BY <1>1 DEF Submission
  <2>2. Times(i, row)
    BY <1>2 DEF PollDue
  <2> HIDE DEF row
  <2> QED BY <2>1, <2>2, TimesStep
<1>3. ASSUME PendingTimesOut(i) PROVE Kept
  <2> DEFINE row == [subs[i] EXCEPT !.wait = "overdue"]
  <2>1. /\ row \in Submission
        /\ row.chunk = subs[i].chunk /\ row.node = subs[i].node /\ row.epoch = subs[i].epoch
        /\ row.flows = subs[i].flows /\ row.turn = subs[i].turn /\ row.closed = subs[i].closed
    BY <1>1 DEF Submission
  <2>2. Times(i, row)
    BY <1>3 DEF PendingTimesOut
  <2> HIDE DEF row
  <2> QED BY <2>1, <2>2, TimesStep
<1>4. ASSUME NEW f \in Flows, ReviewTimesOut(i, f) PROVE Kept
  <2> DEFINE review == [subs[i].review EXCEPT ![f] = "overdue"]
             row == [subs[i] EXCEPT !.review = review]
  <2>1. review \in [Flows -> {"none", "open", "overdue"}]
    BY <1>1 DEF Submission
  <2>2. Times(i, row)
    BY <1>1, <1>4 DEF ReviewTimesOut
  <2> HIDE DEF review
  <2>3. /\ row \in Submission
        /\ row.chunk = subs[i].chunk /\ row.node = subs[i].node /\ row.epoch = subs[i].epoch
        /\ row.flows = subs[i].flows /\ row.turn = subs[i].turn /\ row.closed = subs[i].closed
    BY <1>1, <2>1 DEF Submission
  <2> HIDE DEF row
  <2> QED BY <2>2, <2>3, TimesStep
<1> QED BY <1>2, <1>3, <1>4 DEF TimePasses

-----------------------------------------------------------------------------
(* The turn's end *)

\* What routing an answer may write: the turn's end and the chunk's facts, and
\* `landed' only where the choice was and the chunk has not moved on.
Routed(i, choice) ==
    /\ \E closure \in Closures :
          /\ subs' = EndTurn(i, closure, 0)
          /\ closure = "landed" =>
                choice = "landed" /\ facts[subs[i].chunk].epoch <= subs[i].epoch
    /\ FactsKept
    /\ exited' \subseteq Visit

\* A person is handed the chunk above the visit's epoch, or it is left alone.
LEMMA EscalatedKeeps ==
    ASSUME TypeOK, NEW i \in Ids, NEW choice, Escalated(i)
    PROVE  Routed(i, choice)
<1> DEFINE s == subs[i]
           f == facts[s.chunk]
           g == IF fence(f, "ABOVE", s.epoch + 1)
                THEN [f EXCEPT !.esc = TRUE, !.epoch = s.epoch + 1] ELSE f
<1>1. s \in Submission /\ s.chunk \in Chunks /\ s.epoch \in Nat
  BY Typed DEF Submission
<1>2. f \in Facts /\ f.epoch \in Nat
  BY <1>1 DEF TypeOK, Facts
<1>3. /\ g \in Facts /\ f.epoch <= g.epoch
      /\ is_terminal(f) => is_terminal(g)
  <2>1. CASE fence(f, "ABOVE", s.epoch + 1)
    <3>1. s.epoch + 1 > f.epoch /\ ~is_terminal(f)
      BY <2>1 DEF fence
    <3> DEFINE e == s.epoch + 1
    <3>2. e \in Nat /\ e > f.epoch
      BY <3>1, <1>1
    <3>3. g = [f EXCEPT !.esc = TRUE, !.epoch = e]
      BY <2>1
    <3> HIDE DEF e, f, g, s
    <3>4. g \in Facts /\ g.epoch = e
      BY <3>2, <3>3, <1>2 DEF Facts
    <3> QED BY <3>1, <3>2, <3>4, <1>2
  <2>2. CASE ~fence(f, "ABOVE", s.epoch + 1)
    BY <2>2, <1>2
  <2> QED BY <2>1, <2>2
<1>4. facts' = [facts EXCEPT ![s.chunk] = g] /\ subs' = EndTurn(i, withdrawal_for(g, s), 0)
      /\ exited' = exited
  BY DEF Escalated
<1> HIDE DEF s, f, g
<1>5. FactsKept
  BY <1>1, <1>3, <1>4, FactsWritten DEF f
<1> QED BY <1>4, <1>5, WithdrawalType DEF Routed, TypeOK

\* An admitted edge takes the chunk no lower than it was.
LEMMA MoveKeeps ==
    ASSUME TypeOK, NEW v \in Visit, NEW choice, NEW x \in Leaving(v, choice),
           Admits(v, x), Move(v, x)
    PROVE  FactsKept /\ exited' \subseteq Visit
<1> DEFINE f == facts[v.chunk]
           g == IF x.kind = "transition"
                THEN [f EXCEPT !.at = x.to, !.epoch = v.epoch + 1, !.esc = FALSE]
                ELSE [f EXCEPT !.at = x.to]
<1>1. v.chunk \in Chunks /\ v.epoch \in Nat
  BY DEF Visit
<1>2. f \in Facts /\ f.epoch \in Nat
  BY <1>1 DEF TypeOK, Facts
<1>3. x.to \in HubNodes \cup {Away, Terminal} /\ x.kind \in {"transition", "migration"}
  BY FlowAssumption DEF Leaving
<1>4. ~is_terminal(f) /\ (x.kind = "transition" => v.epoch + 1 > f.epoch)
  BY DEF Admits, fence
<1>5. g \in Facts /\ f.epoch <= g.epoch
  <2>1. CASE x.kind = "transition"
    <3> DEFINE e == v.epoch + 1
    <3>1. e \in Nat /\ e > f.epoch
      BY <2>1, <1>1, <1>4
    <3>2. g = [f EXCEPT !.at = x.to, !.epoch = e, !.esc = FALSE]
      BY <2>1
    <3> HIDE DEF e, f, g
    <3>3. g \in Facts /\ g.epoch = e
      BY <3>1, <3>2, <1>2, <1>3 DEF Facts
    <3> QED BY <3>1, <3>3, <1>2
  <2>2. CASE x.kind # "transition"
    <3>1. [f EXCEPT !.at = x.to] \in Facts /\ [f EXCEPT !.at = x.to].epoch = f.epoch
      BY <1>2, <1>3 DEF Facts
    <3> QED BY <3>1, <2>2, <1>2
  <2> QED BY <2>1, <2>2
<1>6. facts' = [facts EXCEPT ![v.chunk] = g]
  BY DEF Move
<1> HIDE DEF f, g
<1>7. FactsKept
  BY <1>1, <1>4, <1>5, <1>6, FactsWritten DEF f
<1> QED BY <1>7 DEF Move, TypeOK

LEMMA UnroutedKeeps ==
    ASSUME TypeOK, NEW i \in Ids, NEW choice, NEW closure \in Withdrawals \cup {Open},
           EndUnrouted(i, closure, 0)
    PROVE  Routed(i, choice)
<1>1. closure \in Closures /\ closure # "landed"
  BY DEF Closures, Withdrawals, Open
<1> QED BY <1>1, SameFacts DEF EndUnrouted, Routed, TypeOK

\* Routing an answer ends the turn, with `landed' only for a landed choice.
LEMMA RouteKeeps ==
    ASSUME TypeOK, NEW i \in Ids, NEW choice \in {"landed", "failure"}, NEW kickback,
           Route(i, choice, kickback)
    PROVE  Routed(i, choice)
<1> DEFINE s == subs[i]
           v == VisitOf(s)
<1>1. v \in Visit
  BY Typed DEF VisitOf, Visit, Submission
<1>2. withdrawal_for(facts[s.chunk], s) \in Withdrawals \cup {Open}
  BY WithdrawalType
<1>3. ASSUME NEW x \in Leaving(v, choice), Admits(v, x), Move(v, x),
             subs' = EndTurn(i, choice, 0)
      PROVE  Routed(i, choice)
  <2>1. FactsKept /\ exited' \subseteq Visit
    BY <1>1, <1>3, MoveKeeps
  <2>2. s.chunk \in Chunks /\ s.epoch \in Nat /\ facts[s.chunk].epoch \in Nat
    <3>1. s.chunk \in Chunks /\ s.epoch \in Nat
      BY Typed DEF Submission
    <3> QED BY <3>1 DEF TypeOK, Facts
  <2>3. v.chunk = s.chunk /\ v.epoch = s.epoch
    BY DEF VisitOf
  <2>4. facts[s.chunk].epoch <= s.epoch
    <3> HIDE DEF v, s
    <3> QED BY <1>3, <2>2, <2>3 DEF Admits, fence
  <2>5. choice \in Closures
    BY DEF Closures
  <2>6. subs' = EndTurn(i, choice, 0)
    BY <1>3
  <2> QED BY <2>1, <2>4, <2>5, <2>6 DEF Routed
<1>4. CASE EndUnrouted(i, withdrawal_for(facts[s.chunk], s), 0)
  BY <1>2, <1>4, UnroutedKeeps
<1>5. CASE Escalated(i)
  BY <1>5, EscalatedKeeps
<1> QED BY <1>3, <1>4, <1>5 DEF Route

\* A task's answer is written and the task is over.
LEMMA AnswerStep ==
    ASSUME IInv, NEW i \in Ids, NEW choice, task[i].phase # "none", Routed(i, choice),
           choice = "landed" /\ facts[subs[i].chunk].epoch <= subs[i].epoch =>
              \A f \in subs[i].flows : finished(subs[i].chunk, f),
           SetTask(i, NoTask), UNCHANGED <<target, markers, nocode, forgeVars, upsets>>
    PROVE  Kept
<1>1. PICK closure \in Closures : subs' = EndTurn(i, closure, 0)
                                  /\ (closure = "landed" => choice = "landed" /\
                                        facts[subs[i].chunk].epoch <= subs[i].epoch)
  BY DEF Routed
<1>2. /\ Eased(subs', {i})
      /\ NewLanded(subs') # {} => closure = "landed"
      /\ NewLanded(subs') \subseteq {i}
  BY <1>1, EndTurnEased DEF IInv
<1>3. TasksEased({i})
  BY TaskOver DEF SetTask, IInv
<1>4. {i} \in SUBSET Ids /\ {i} \cap drv.taken = {}
  BY DEF IInv, TakenWait, Running
<1>5. \A j \in NewLanded(subs') :
        \A f \in subs[j].flows : finished(subs[j].chunk, f)
  BY <1>1, <1>2
<1> QED BY <1>2, <1>3, <1>4, <1>5, RowStep DEF Routed, SetTask, forgeVars, IInv, TypeOK

LEMMA FinishBuildStep ==
    ASSUME IInv, NEW i \in Ids, FinishBuild(i)
    PROVE  Kept
<1>1. TypeOK
  BY DEF IInv
<1>2. withdrawal_for(facts[subs[i].chunk], subs[i]) \in Withdrawals \cup {Open}
      /\ "superseded" \in Withdrawals
  BY WithdrawalType DEF Withdrawals
<1>3. /\ task[i].phase # "none"
      /\ Routed(i, "failure")
  BY <1>1, <1>2, UnroutedKeeps, EscalatedKeeps, RouteKeeps DEF FinishBuild
<1> QED BY <1>3, AnswerStep DEF FinishBuild

LEMMA FinishPassStep ==
    ASSUME IInv, NEW i \in Ids, NEW w \in PassSays, FinishPass(i, w)
    PROVE  Kept
<1>1. TypeOK
  BY DEF IInv
<1>2. task[i].phase \in Landing /\ (w = "landed" => task[i].left = {})
  BY DEF FinishPass, PassAnswers, Landing, Passing
<1>3. w = "landed" /\ facts[subs[i].chunk].epoch <= subs[i].epoch =>
        \A f \in subs[i].flows : finished(subs[i].chunk, f)
  BY <1>2 DEF IInv, PassCovers
<1>4. CASE w \notin {"wait", "await"}
  <2>1. Routed(i, w)
    BY <1>1, <1>4, EscalatedKeeps, RouteKeeps DEF FinishPass, PassSays
  <2> QED BY <2>1, <1>2, <1>3, AnswerStep DEF FinishPass, Landing
<1>5. CASE w \in {"wait", "await"}
  <2> DEFINE closure == withdrawal_for(facts[subs[i].chunk], subs[i])
             wait == WaitAfter(i, w)
             review == ReviewAfter(i, w)
             base == [subs[i] EXCEPT !.cuts = 0, !.due = FALSE, !.wait = wait, !.review = review]
  <2>1. closure \in Closures /\ closure # "landed"
    BY WithdrawalType
  <2>2. subs[i] \in Submission
    BY <1>1, Typed
  <2>3. wait \in {"none", "pending", "overdue"}
    BY <2>2 DEF WaitAfter, Submission
  <2>4. review \in [Flows -> {"none", "open", "overdue"}]
    BY <2>2 DEF ReviewAfter, Submission
  <2>5. subs' = Ended(i, base, closure) /\ facts' = facts /\ exited' = exited
    BY <1>5 DEF FinishPass
  <2> HIDE DEF closure, wait, review
  <2>6. /\ base \in Submission /\ base.chunk = subs[i].chunk /\ base.node = subs[i].node
        /\ base.epoch = subs[i].epoch /\ base.flows = subs[i].flows
        /\ base.closed = subs[i].closed
    BY <2>2, <2>3, <2>4 DEF Submission
  <2> HIDE DEF base
  <2>9. Eased(Ended(i, base, closure), {i}) /\ NewLanded(Ended(i, base, closure)) = {}
    BY <2>1, <2>6, <1>1, EndedEased
  <2>10. Eased(subs', {i}) /\ NewLanded(subs') = {}
    BY <2>5, <2>9
  <2>11. FactsKept
    BY <2>5, <1>1, SameFacts
  <2>12. TasksEased({i})
    BY <1>1, TaskOver DEF FinishPass, SetTask
  <2>13. {i} \in SUBSET Ids /\ {i} \cap drv.taken = {}
    BY <1>2 DEF IInv, TakenWait, Running, Landing
  <2> QED BY <2>5, <2>10, <2>11, <2>12, <2>13, RowStep
          DEF FinishPass, SetTask, forgeVars, IInv, TypeOK
<1> QED BY <1>4, <1>5

\* A task cut off ends its turn; one that died leaves it to the sweep.
LEMMA CutOffStep ==
    ASSUME IInv, NEW i \in Ids, CutOff(i)
    PROVE  Kept
<1> DEFINE closure == withdrawal_for(facts[subs[i].chunk], subs[i])
<1>1. closure \in Closures /\ closure # "landed"
  BY WithdrawalType
<1>2. CutsAfter(subs[i]) \in Nat
  BY Typed, FlowAssumption DEF IInv, Submission, CutsAfter
<1>3. Eased(subs', {i}) /\ NewLanded(subs') = {}
  <2> DEFINE n == CutsAfter(subs[i])
  <2>1. subs' = EndTurn(i, closure, n)
    BY DEF CutOff
  <2> HIDE DEF closure, n
  <2>2. n \in Nat
    BY <1>2 DEF n
  <2>3. TypeOK
    BY DEF IInv
  <2>4. Eased(EndTurn(i, closure, n), {i}) /\ NewLanded(EndTurn(i, closure, n)) = {}
    BY <2>2, <2>3, <1>1, EndTurnUnlanded, Zenon
  <2> QED BY <2>1, <2>4
<1>4. FactsKept /\ TasksEased({i})
  BY SameFacts, TaskOver DEF CutOff, SetTask, IInv
<1>5. {i} \in SUBSET Ids /\ {i} \cap drv.taken = {}
  <2>1. task[i].phase # "none"
    BY DEF CutOff, Passing
  <2> QED BY <2>1 DEF IInv, TakenWait, Running
<1> QED BY <1>3, <1>4, <1>5, RowStep DEF CutOff, SetTask, forgeVars, IInv, TypeOK

LEMMA TaskFailsStep ==
    ASSUME IInv, NEW i \in Ids, TaskFails(i)
    PROVE  Kept
<1>1. upsets' \in 0 .. MaxUpsets
  BY UpsetBound DEF TaskFails, IInv
<1>2. Eased(subs', {}) /\ NewLanded(subs') = {}
  BY SameEased DEF TaskFails, hubRows, IInv
<1>3. FactsKept /\ TasksEased({i})
  BY SameFacts, TaskOver DEF TaskFails, SetTask, hubRows, IInv
<1>4. TasksEased({})
  BY <1>3 DEF TasksEased
<1>5. {} \in SUBSET Ids
  OBVIOUS
<1> QED BY <1>1, <1>2, <1>3, <1>4, <1>5, RowStep
        DEF TaskFails, SetTask, hubRows, forgeVars, IInv, TypeOK

-----------------------------------------------------------------------------
(* The tick *)

LEMMA ReconcilingType ==
    ASSUME TypeOK, NEW tick \in TickType, NEW from \in Nat
    PROVE  LET r == Reconciling(tick, from)
           IN /\ r \in TickType
              /\ r.pc = "submit" /\ r.opened = open_submissions_from(from)
              /\ r.running = tick.running /\ r.taken = tick.taken
<1> DEFINE opened == open_submissions_from(from)
           live == {c \in Chunks : status(facts[c]) = "delivering"}
           visits == {v \in {Standing(c) : c \in live} : OfVisit(v) \cap opened = {}}
           closing == Departed({i \in opened : subs[i].chunk \in live})
<1>1. opened \in SUBSET Ids
  BY DEF open_submissions_from
<1>2. live \in SUBSET Chunks
  OBVIOUS
<1>3. visits \in SUBSET Visit
  <2>1. ASSUME NEW c \in live PROVE Standing(c) \in Visit
    <3>1. facts[c] \in Facts /\ facts[c].epoch \in Nat
      BY DEF TypeOK, Facts
    <3>2. facts[c].at \in HubNodes
      BY DEF status
    <3> QED BY <3>1, <3>2 DEF Standing, Visit
  <2> QED BY <2>1
<1>4. closing \in SUBSET (Ids \X Withdrawals)
  BY WithdrawalType DEF Departed, open_submissions_from
<1>5. Reconciling(tick, from) = [tick EXCEPT !.pc = "submit", !.opened = opened, !.live = live,
                                             !.visits = visits, !.closing = closing]
  BY DEF Reconciling
<1> HIDE DEF opened, live, visits, closing
<1>6. /\ Reconciling(tick, from) \in TickType
      /\ Reconciling(tick, from).pc = "submit" /\ Reconciling(tick, from).opened = opened
      /\ Reconciling(tick, from).running = tick.running
      /\ Reconciling(tick, from).taken = tick.taken
  <2> DEFINE r == [tick EXCEPT !.pc = "submit", !.opened = opened, !.live = live,
                               !.visits = visits, !.closing = closing]
  <2>1. /\ r \in TickType /\ r.pc = "submit" /\ r.opened = opened
        /\ r.running = tick.running /\ r.taken = tick.taken
    BY <1>1, <1>2, <1>3, <1>4 DEF TickType
  <2> HIDE DEF r
  <2>2. Reconciling(tick, from) = r
    BY <1>5 DEF r
  <2> QED BY <2>1, <2>2
<1> QED BY <1>6 DEF opened

LEMMA NoTickType ==
    /\ NoTick \in TickType
    /\ NoTick.pc = "idle" /\ NoTick.running = {} /\ NoTick.taken = {}
BY DEF NoTick, TickType

\* A tick begins by knowing every running task and every open submission.
LEMMA TickStep == ASSUME IInv, NEW full \in BOOLEAN, Tick(full) PROVE Kept
<1> DEFINE tick == [NoTick EXCEPT !.running = Running]
<1>1. TypeOK /\ floor \in Nat
  BY DEF IInv, TypeOK
<1>2. tick \in TickType /\ tick.running = Running /\ tick.taken = {}
  BY DEF NoTick, TickType, Running
<1>3. open_submissions_from(floor) = open_submissions_from(0)
  BY DEF IInv, FloorCoversOpen, open_submissions_from, Ids
<1>4. /\ drv' \in TickType /\ drv'.running = Running /\ drv'.taken = {}
      /\ \/ drv'.pc = "submit" /\ drv'.opened = open_submissions_from(0)
         \/ drv'.pc = "sweep"
  <2>1. CASE full
    <3>1. drv' = Reconciling(tick, floor)
      BY <2>1 DEF Tick
    <3> HIDE DEF tick
    <3> QED BY <3>1, <1>1, <1>2, <1>3, ReconcilingType
  <2>2. CASE ~full
    <3>1. drv' = [tick EXCEPT !.pc = "sweep"]
      BY <2>2 DEF Tick
    <3> HIDE DEF tick
    <3> QED BY <3>1, <1>2 DEF TickType
  <2> QED BY <2>1, <2>2
<1>5. UNCHANGED <<facts, target, exited, subs, markers, nocode, merged, flying, task, floor, fresh, upsets>>
  BY DEF Tick, hubRows, forgeVars
<1>6. TickKnowsTasks' /\ TakenWait'
  BY <1>4, <1>5 DEF TickKnowsTasks, TakenWait, Running, Ids
<1>7. ReconcileCovers'
  BY <1>4, <1>5 DEF ReconcileCovers, open_submissions_from, Ids
<1>8. FloorBound' /\ FloorCoversOpen'
  BY <1>5 DEF IInv, FloorBound, FloorCoversOpen, open_submissions_from, Ids
<1>9. FactsKept
  BY <1>1, <1>5, SameFacts
<1> QED BY <1>4, <1>5, <1>6, <1>7, <1>8, <1>9, DriverStep DEF IInv, TypeOK

\* A visit dropped from a reconcile's list.
LEMMA VisitDropped ==
    ASSUME IInv, NEW v, drv' = [drv EXCEPT !.visits = @ \ {v}],
           UNCHANGED <<subs, task, floor>>
    PROVE  /\ drv' \in TickType
           /\ TickKnowsTasks' /\ TakenWait' /\ ReconcileCovers' /\ FloorBound' /\ FloorCoversOpen'
<1>1. drv \in TickType
  BY DEF IInv, TypeOK
<1>2. /\ drv' \in TickType
      /\ drv'.pc = drv.pc /\ drv'.running = drv.running /\ drv'.taken = drv.taken
      /\ drv'.opened = drv.opened /\ drv'.submitted = drv.submitted
      /\ drv'.kept = drv.kept /\ drv'.closing = drv.closing
  BY <1>1 DEF TickType
<1> QED BY <1>2 DEF IInv, TickKnowsTasks, TakenWait, ReconcileCovers, FloorBound,
           FloorCoversOpen, Running, open_submissions_from, Ids

LEMMA SkipVisitStep ==
    ASSUME IInv, NEW v, SkipVisit(v)
    PROVE  Kept
<1>1. FactsKept /\ upsets' \in 0 .. MaxUpsets
  BY SameFacts, UpsetBound DEF SkipVisit, hubRows, IInv
<1>2. UNCHANGED <<target, exited, subs, markers, nocode, merged, flying, task, floor, fresh>>
  BY DEF SkipVisit, hubRows, forgeVars
<1>3. drv' = [drv EXCEPT !.visits = @ \ {v}]
  BY DEF SkipVisit
<1>4. exited' \subseteq Visit /\ floor' \in Nat /\ fresh' \subseteq Ids
  BY <1>2 DEF IInv, TypeOK
<1> QED BY <1>1, <1>2, <1>3, <1>4, VisitDropped, DriverStep

LEMMA RefuseVisitStep ==
    ASSUME IInv, NEW v \in drv.visits, RefuseVisit(v)
    PROVE  Kept
<1>1. TypeOK /\ v \in Visit /\ v.chunk \in Chunks /\ v.epoch \in Nat
  BY DEF IInv, TypeOK, TickType, Visit
<1>2. FactsKept /\ exited' \subseteq Visit
  <2>1. ASSUME NEW x \in Leaving(v, "failure"), Admits(v, x), Move(v, x)
        PROVE  FactsKept /\ exited' \subseteq Visit
    BY <1>1, <2>1, MoveKeeps
  <2>2. ASSUME facts' = [facts EXCEPT ![v.chunk].esc = TRUE, ![v.chunk].epoch = v.epoch + 1],
               exited' = exited
        PROVE  FactsKept /\ exited' \subseteq Visit
    <3> DEFINE f == facts[v.chunk]
               e == v.epoch + 1
               g == [f EXCEPT !.esc = TRUE, !.epoch = e]
    <3>1. f \in Facts /\ f.epoch \in Nat /\ f.epoch = v.epoch /\ ~is_terminal(f)
      BY <1>1 DEF RefuseVisit, may_pass, status, is_current, TypeOK, Facts
    <3>2. e \in Nat /\ f.epoch <= e
      BY <1>1, <3>1
    <3>3. facts' = [facts EXCEPT ![v.chunk] = g]
      BY <2>2, <1>1 DEF TypeOK, Facts
    <3> HIDE DEF f, e
    <3>4. g \in Facts /\ g.epoch = e
      BY <3>1, <3>2 DEF Facts
    <3> HIDE DEF g
    <3>5. FactsKept
      BY <3>1, <3>2, <3>3, <3>4, <1>1, FactsWritten DEF f
    <3> QED BY <3>5, <2>2, <1>1 DEF TypeOK
  <2> QED BY <2>1, <2>2 DEF RefuseVisit
<1>3. UNCHANGED <<target, subs, markers, nocode, merged, flying, task, floor, fresh, upsets>>
  BY DEF RefuseVisit, forgeVars
<1>4. drv' = [drv EXCEPT !.visits = @ \ {v}]
  BY DEF RefuseVisit
<1>5. floor' \in Nat /\ fresh' \subseteq Ids /\ upsets' \in 0 .. MaxUpsets
  BY <1>1, <1>3 DEF TypeOK
<1> QED BY <1>2, <1>3, <1>4, <1>5, VisitDropped, DriverStep

\* What is not to be closed is kept: nothing open falls out of the reconcile.
LEMMA ReadDepartedStep == ASSUME IInv, ReadDeparted PROVE Kept
<1> DEFINE judged == drv.closing \cup Departed({i \in drv.opened : subs[i].chunk \notin drv.live})
           closing == {k \in judged : ~subs[k[1]].turn}
           kept == KeptOpen(closing)
<1>1. drv \in TickType /\ TypeOK
  BY DEF IInv, TypeOK
<1>2. closing \in SUBSET (Ids \X Withdrawals) /\ \A k \in closing : ~subs[k[1]].turn
  <2>1. drv.closing \subseteq Ids \X Withdrawals /\ drv.opened \subseteq Ids
    BY <1>1 DEF TickType
  <2>2. Departed({i \in drv.opened : subs[i].chunk \notin drv.live}) \subseteq Ids \X Withdrawals
    BY <2>1, WithdrawalType DEF Departed
  <2> QED BY <2>1, <2>2
<1>3. kept \in SUBSET Ids /\ drv.opened \subseteq kept \cup {k[1] : k \in closing}
  BY <1>1 DEF KeptOpen, TickType
<1>4. drv' = [drv EXCEPT !.pc = "close", !.closing = closing, !.live = {}, !.kept = kept]
  BY DEF ReadDeparted
<1> HIDE DEF judged, closing, kept
<1>5. /\ drv' \in TickType
      /\ drv'.pc = "close" /\ drv'.running = drv.running /\ drv'.taken = drv.taken
      /\ drv'.submitted = drv.submitted /\ drv'.kept = kept /\ drv'.closing = closing
  BY <1>1, <1>2, <1>3, <1>4 DEF TickType
<1>6. UNCHANGED <<facts, target, exited, subs, markers, nocode, merged, flying, task, floor, fresh, upsets>>
  BY DEF ReadDeparted, hubRows, forgeVars
<1>7. TickKnowsTasks' /\ TakenWait'
  BY <1>5, <1>6 DEF ReadDeparted, IInv, TickKnowsTasks, TakenWait, Running, Ids
<1>8. ReconcileCovers'
  <2>1. open_submissions_from(0)' = open_submissions_from(0)
    BY <1>6 DEF open_submissions_from, Ids
  <2>2. open_submissions_from(0) \subseteq drv.opened \cup drv.submitted
    BY DEF ReadDeparted, IInv, ReconcileCovers
  <2> QED BY <2>1, <2>2, <1>2, <1>3, <1>5, <1>6 DEF ReconcileCovers
<1>9. FloorBound' /\ FloorCoversOpen'
  BY <1>6 DEF IInv, FloorBound, FloorCoversOpen, open_submissions_from, Ids
<1>10. FactsKept
  BY <1>1, <1>6, SameFacts
<1> QED BY <1>5, <1>6, <1>7, <1>8, <1>9, <1>10, DriverStep DEF IInv, TypeOK

\* The new floor is below everything open: what was kept, submitted, or is
\* above all that was read.
LEMMA EndReconcileStep == ASSUME IInv, EndReconcile PROVE Kept
<1> DEFINE arrivals == drv.kept \cup drv.submitted
<1>1. drv \in TickType /\ TypeOK /\ Len(subs) \in Nat /\ Ids = 1 .. Len(subs)
  BY Typed DEF IInv, TypeOK
<1>2. arrivals \in SUBSET (1 .. Len(subs)) /\ drv.opened \in SUBSET (1 .. Len(subs))
  BY <1>1 DEF TickType
<1>3. open_submissions_from(0) \subseteq arrivals
  BY DEF EndReconcile, IInv, ReconcileCovers
<1>4. floor' = IF arrivals # {} THEN Min(arrivals)
               ELSE IF drv.opened # {} THEN Max(drv.opened) + 1 ELSE floor
  BY DEF EndReconcile
<1> HIDE DEF arrivals
<1>5. /\ floor' \in Nat /\ floor' <= Len(subs) + 1
      /\ \A i \in open_submissions_from(0) : i >= floor'
  <2>1. CASE arrivals # {}
    <3>1. Min(arrivals) \in arrivals /\ \A y \in arrivals : Min(arrivals) <= y
      BY <2>1, <1>1, <1>2, MinMax
    <3>2. floor' = Min(arrivals) /\ Min(arrivals) \in 1 .. Len(subs)
      BY <3>1, <2>1, <1>2, <1>4
    <3>3. \A i \in open_submissions_from(0) : i >= Min(arrivals)
      BY <3>1, <3>2, <1>2, <1>3
    <3> HIDE DEF Min
    <3> QED BY <3>2, <3>3, <1>1
  <2>2. CASE arrivals = {} /\ drv.opened # {}
    <3>1. Max(drv.opened) \in drv.opened
      BY <2>2, <1>1, <1>2, MinMax
    <3>2. floor' = Max(drv.opened) + 1
      BY <2>2, <1>4
    <3>3. Max(drv.opened) \in 1 .. Len(subs)
      BY <3>1, <1>2
    <3> QED BY <3>2, <3>3, <2>2, <1>1, <1>3
  <2>3. CASE arrivals = {} /\ drv.opened = {}
    BY <2>3, <1>1, <1>3, <1>4 DEF TypeOK, IInv, FloorBound
  <2> QED BY <2>1, <2>2, <2>3
<1>6. /\ drv' \in TickType /\ drv'.pc \in {"idle", "sweep"} /\ drv'.taken \subseteq drv.taken
      /\ drv'.pc = "sweep" => drv'.running = drv.running
  <2>1. CASE drv.boot
    BY <2>1, NoTickType DEF EndReconcile
  <2>2. CASE ~drv.boot
    <3>1. drv' = [drv EXCEPT !.pc = "sweep", !.opened = {}, !.kept = {}, !.submitted = {}]
      BY <2>2 DEF EndReconcile
    <3> QED BY <3>1, <1>1, ZenonT(30) DEF TickType
  <2> QED BY <2>1, <2>2
<1>7. UNCHANGED <<facts, target, exited, subs, markers, nocode, merged, flying, task, fresh, upsets>>
  BY DEF EndReconcile, hubRows, forgeVars
<1>8. TickKnowsTasks' /\ TakenWait' /\ ReconcileCovers'
  BY <1>6, <1>7 DEF EndReconcile, IInv, TickKnowsTasks, TakenWait, ReconcileCovers, Running, Ids
<1>9. FloorBound' /\ FloorCoversOpen'
  BY <1>5, <1>7 DEF FloorBound, FloorCoversOpen, open_submissions_from, Ids
<1>10. FactsKept
  BY <1>1, <1>7, SameFacts
<1> QED BY <1>5, <1>6, <1>7, <1>8, <1>9, <1>10, DriverStep DEF IInv, TypeOK

\* A closing judged before is written only if the submission still waits.
LEMMA CloseDepartedStep ==
    ASSUME IInv, NEW k \in drv.closing, CloseDeparted(k)
    PROVE  Kept
<1>1. drv \in TickType /\ TypeOK
  BY DEF IInv, TypeOK
<1>2. k[1] \in Ids /\ k[2] \in Withdrawals /\ drv.pc = "close" /\ ~subs[k[1]].turn
  BY <1>1 DEF TickType, CloseDeparted, IInv, ReconcileCovers
<1>3. /\ Eased(subs', {}) /\ NewLanded(subs') = {}
      /\ subs'[k[1]].closed # Open
  <2>1. CASE subs[k[1]].closed # Open
    BY <2>1, <1>1, SameEased DEF CloseDeparted
  <2>2. CASE subs[k[1]].closed = Open
    <3> DEFINE row == Close(subs[k[1]], k[2])
    <3>1. subs \in [1 .. Len(subs) -> Submission] /\ Len(subs) \in Nat
          /\ subs[k[1]] \in Submission
      BY <1>1, <1>2, SeqFunction DEF TypeOK, Ids
    <3>2. /\ row \in Submission
          /\ row.chunk = subs[k[1]].chunk /\ row.node = subs[k[1]].node
          /\ row.epoch = subs[k[1]].epoch /\ row.flows = subs[k[1]].flows
          /\ row.turn = subs[k[1]].turn /\ row.closed = k[2]
      <4>1. k[2] \in Closures
        BY <1>2 DEF Closures
      <4> QED BY <4>1, <3>1, <2>2, CloseKeeps
    <3>3. subs' = [subs EXCEPT ![k[1]] = row]
      BY <2>2, <1>2, <3>1 DEF CloseDeparted, Ids
    <3> HIDE DEF row
    <3>4. subs' \in [1 .. Len(subs) -> Submission] /\ subs'[k[1]] = row
          /\ \A j \in Ids \ {k[1]} : subs'[j] = subs[j]
      BY <3>1, <3>2, <3>3, <1>2 DEF Ids
    <3>5. subs' \in Seq(Submission) /\ Len(subs') = Len(subs)
      BY <3>1, <3>4, FunctionSeq
    <3>6. k[2] # Open /\ k[2] # "landed"
      BY <1>2 DEF Withdrawals, Open
    <3> QED BY <3>2, <3>4, <3>5, <3>6, <1>2, <2>2 DEF Eased, NewLanded
  <2> QED BY <2>1, <2>2
<1>4. UNCHANGED <<facts, target, exited, markers, nocode, merged, flying, task, floor, fresh, upsets>>
  BY DEF CloseDeparted, forgeVars
<1>5. FactsKept /\ TasksEased({}) /\ NoCodeKept
  BY <1>1, <1>4, SameFacts, SameTasks, SameNoCode
<1>6. {} \in SUBSET Ids /\ Ids' = Ids
  BY <1>3 DEF Eased, Ids
<1>7. /\ drv' \in TickType
      /\ drv'.pc = drv.pc /\ drv'.running = drv.running /\ drv'.taken = drv.taken
      /\ drv'.submitted = drv.submitted /\ drv'.kept = drv.kept
      /\ drv'.closing = drv.closing \ {k}
  BY <1>1 DEF CloseDeparted, TickType
<1>8. TypeOK'
  BY <1>1, <1>3, <1>4, <1>6, <1>7 DEF TypeOK, TickType, Eased, Marker, NoCode, Repos
<1>9. Running' = Running
  BY <1>4, <1>6 DEF Running
<1>10. TickKnowsTasks' /\ TakenWait'
  BY <1>2, <1>7, <1>9 DEF IInv, TickKnowsTasks, TakenWait
<1>11. /\ open_submissions_from(0)' \subseteq open_submissions_from(0)
       /\ k[1] \notin open_submissions_from(0)'
  BY <1>3, <1>6 DEF open_submissions_from, Eased, Open
<1>12. ReconcileCovers'
  <2>1. open_submissions_from(0)
          \subseteq drv.kept \cup drv.submitted \cup {j[1] : j \in drv.closing}
    BY <1>2 DEF IInv, ReconcileCovers
  <2>2. open_submissions_from(0)'
          \subseteq drv.kept \cup drv.submitted \cup {j[1] : j \in drv.closing \ {k}}
    BY <2>1, <1>11
  <2>3. \A j \in drv.closing \ {k} : ~subs'[j[1]].turn
    <3>1. \A j \in drv.closing : j[1] \in Ids /\ ~subs[j[1]].turn
      BY <1>1, <1>2 DEF TickType, IInv, ReconcileCovers
    <3> QED BY <3>1, <1>3 DEF Eased
  <2> QED BY <2>2, <2>3, <1>2, <1>7 DEF ReconcileCovers
<1>13. FloorBound' /\ FloorCoversOpen'
  BY <1>3, <1>4, <1>11 DEF IInv, FloorBound, FloorCoversOpen, Eased
<1> QED BY <1>3, <1>4, <1>5, <1>6, <1>8, <1>10, <1>12, <1>13,
           KeepTurns, KeepPass, KeepLate, NothingLands, EasedKeepsLanded DEF IInv, Kept

LEMMA ReadLineStep == ASSUME IInv, ReadLine PROVE Kept
<1> DEFINE line == open_submissions_from(floor)
           nexts == {i \in line : is_next(i)}
           passed == {i \in line : ~eligible(i)}
<1>1. drv \in TickType /\ TypeOK
  BY DEF IInv, TypeOK
<1>2. nexts \in SUBSET Ids /\ passed \in SUBSET Ids
  BY DEF open_submissions_from
<1>3. drv' = [drv EXCEPT !.pc = "admit", !.nexts = nexts, !.passed = passed]
  BY DEF ReadLine
<1> HIDE DEF nexts, passed
<1>4. /\ drv' \in TickType /\ drv'.pc = "admit" /\ drv'.running = drv.running
      /\ drv'.taken = drv.taken
  BY <1>1, <1>2, <1>3 DEF TickType
<1>5. UNCHANGED <<facts, target, exited, subs, markers, nocode, merged, flying, task, floor, fresh, upsets>>
  BY DEF ReadLine, hubRows, forgeVars
<1>6. TickKnowsTasks' /\ TakenWait' /\ ReconcileCovers'
  BY <1>4, <1>5 DEF ReadLine, IInv, TickKnowsTasks, TakenWait, ReconcileCovers, Running, Ids
<1>7. FloorBound' /\ FloorCoversOpen'
  BY <1>5 DEF IInv, FloorBound, FloorCoversOpen, open_submissions_from, Ids
<1>8. FactsKept
  BY <1>1, <1>5, SameFacts
<1> QED BY <1>4, <1>5, <1>6, <1>7, <1>8, DriverStep DEF IInv, TypeOK

LEMMA BootReconcileStep == ASSUME IInv, BootReconcile PROVE Kept
<1>1. drv \in TickType /\ TypeOK /\ 0 \in Nat
  BY DEF IInv, TypeOK
<1>2. drv' = Reconciling(drv, 0)
  BY DEF BootReconcile
<1>3. /\ drv' \in TickType /\ drv'.pc = "submit" /\ drv'.running = drv.running
      /\ drv'.taken = drv.taken /\ drv'.opened = open_submissions_from(0)
  BY <1>1, <1>2, ReconcilingType
<1>4. UNCHANGED <<facts, target, exited, subs, markers, nocode, merged, flying, task, floor, fresh, upsets>>
  BY DEF BootReconcile, hubRows, forgeVars
<1>5. TickKnowsTasks' /\ TakenWait'
  BY <1>3, <1>4 DEF BootReconcile, IInv, TickKnowsTasks, TakenWait, Running, Ids
<1>6. ReconcileCovers'
  BY <1>3, <1>4 DEF ReconcileCovers, open_submissions_from, Ids
<1>7. FloorBound' /\ FloorCoversOpen'
  BY <1>4 DEF IInv, FloorBound, FloorCoversOpen, open_submissions_from, Ids
<1>8. FactsKept
  BY <1>1, <1>4, SameFacts
<1> QED BY <1>3, <1>4, <1>5, <1>6, <1>7, <1>8, DriverStep DEF IInv, TypeOK

LEMMA FailTickStep == ASSUME IInv, FailTick PROVE Kept
<1>1. drv \in TickType /\ TypeOK
  BY DEF IInv, TypeOK
<1>2. drv' \in TickType /\ drv'.pc = "idle" /\ drv'.taken = {}
  BY NoTickType DEF FailTick
<1>3. UNCHANGED <<facts, target, exited, subs, markers, nocode, merged, flying, task, floor>>
  BY DEF FailTick, hubRows, forgeVars
<1>4. TickKnowsTasks' /\ TakenWait' /\ ReconcileCovers'
  BY <1>2 DEF TickKnowsTasks, TakenWait, ReconcileCovers
<1>5. FloorBound' /\ FloorCoversOpen'
  BY <1>3 DEF IInv, FloorBound, FloorCoversOpen, open_submissions_from, Ids
<1>6. FactsKept /\ upsets' \in 0 .. MaxUpsets
  BY <1>1, <1>3, SameFacts, UpsetBound DEF FailTick
<1>7. fresh' \subseteq Ids
  BY <1>1 DEF FailTick, TickType
<1> QED BY <1>2, <1>3, <1>4, <1>5, <1>6, <1>7, DriverStep DEF IInv, TypeOK

\* A crash forgets the tasks, and leaves their turns to the boot.
LEMMA CrashStep == ASSUME IInv, Crash PROVE Kept
<1>1. TypeOK /\ Len(subs) \in Nat /\ Ids = 1 .. Len(subs)
  BY Typed DEF IInv
<1>2. NoTask \in Task /\ NoTask.phase = "none"
  BY DEF NoTask, Task
<1>3. task' = [i \in Ids |-> NoTask] /\ floor' = 0 /\ fresh' = {}
      /\ drv' = [NoTick EXCEPT !.pc = "recover", !.boot = TRUE]
  BY DEF Crash
<1>4. task' \in Seq(Task) /\ Len(task') = Len(subs) /\ \A i \in Ids : task'[i] = NoTask
  <2>1. task' \in [1 .. Len(subs) -> Task]
    BY <1>1, <1>2, <1>3
  <2>2. task' \in Seq(Task) /\ Len(task') = Len(subs)
    BY <2>1, <1>1, FunctionSeq
  <2> QED BY <2>2, <1>3
<1>5. drv' \in TickType /\ drv'.pc = "recover" /\ drv'.running = {} /\ drv'.taken = {}
  BY <1>3 DEF NoTick, TickType
<1>6. UNCHANGED <<facts, target, exited, subs, markers, nocode, merged, flying>>
  BY DEF Crash, hubRows, forgeVars
<1>7. Ids' = Ids /\ Running' = {}
  BY <1>2, <1>4, <1>6 DEF Ids, Running
<1>8. upsets' \in 0 .. MaxUpsets
  BY <1>1, UpsetBound DEF Crash
<1>9. TypeOK'
  BY <1>1, <1>3, <1>4, <1>5, <1>6, <1>7, <1>8 DEF TypeOK, TickType, Marker, NoCode, Repos
<1>10. TickKnowsTasks' /\ TakenWait' /\ ReconcileCovers'
  BY <1>5, <1>7 DEF TickKnowsTasks, TakenWait, ReconcileCovers
<1>11. FloorBound' /\ FloorCoversOpen'
  BY <1>1, <1>3, <1>6, <1>7 DEF FloorBound, FloorCoversOpen, open_submissions_from
<1>12. FactsKept /\ NoCodeKept
  BY <1>1, <1>6, SameFacts, SameNoCode
<1>13. TasksEased({})
  BY <1>1, <1>4 DEF TasksEased, TypeOK
<1>14. Eased(subs', {}) /\ NewLanded(subs') = {} /\ {} \in SUBSET Ids
  BY <1>1, <1>6, SameEased
<1> QED BY <1>6, <1>9, <1>10, <1>11, <1>12, <1>13, <1>14,
           KeepTurns, KeepPass, KeepLate, NothingLands, EasedKeepsLanded DEF IInv, Kept

\* A turn is taken only where its flows are not busy.
LEMMA TakeTurnStep == ASSUME IInv, take_turn PROVE Kept
<1> DEFINE i == Min(drv.nexts)
           may == /\ subs[i].closed = Open /\ ~subs[i].turn
                  /\ subs[i].flows # {} => ~busy(subs[i].flows) /\ ahead_on(i) \subseteq drv.passed
<1>1. drv \in TickType /\ TypeOK /\ Len(subs) \in Nat /\ Ids = 1 .. Len(subs)
  BY Typed DEF IInv, TypeOK
<1>2. i \in Ids
  <2>1. drv.nexts \in SUBSET (1 .. Len(subs)) /\ drv.nexts # {}
    BY <1>1 DEF TickType, take_turn
  <2> QED BY <2>1, <1>1, MinMax
<1>3. /\ drv' = [drv EXCEPT !.nexts = @ \ {i}, !.taken = IF may THEN @ \cup {i} ELSE @]
      /\ subs' = IF may THEN [subs EXCEPT ![i].turn = TRUE] ELSE subs
      /\ drv.pc = "admit"
  BY DEF take_turn
<1>4. UNCHANGED <<facts, target, exited, markers, nocode, merged, flying, task, floor, fresh, upsets>>
  BY DEF take_turn, forgeVars
<1>5. may => /\ subs[i].closed = Open /\ ~subs[i].turn
             /\ subs[i].flows # {} => ~busy(subs[i].flows)
  OBVIOUS
<1> HIDE DEF i, may
<1>6. /\ drv' \in TickType
      /\ drv'.pc = "admit" /\ drv'.running = drv.running
      /\ drv'.taken = IF may THEN drv.taken \cup {i} ELSE drv.taken
  <2> DEFINE N == drv.nexts \ {i}
             T == IF may THEN drv.taken \cup {i} ELSE drv.taken
  <2>1. N \in SUBSET Ids /\ T \in SUBSET Ids
    BY <1>1, <1>2 DEF TickType
  <2>2. drv' = [drv EXCEPT !.nexts = N, !.taken = T]
    BY <1>3
  <2> HIDE DEF N, T
  <2>3. drv' \in TickType /\ drv'.pc = drv.pc /\ drv'.running = drv.running /\ drv'.taken = T
    BY <2>1, <2>2, <1>1 DEF TickType
  <2> QED BY <2>3, <1>3 DEF T
<1>7. /\ subs' \in Seq(Submission) /\ Len(subs') = Len(subs)
      /\ \A j \in Ids : /\ subs'[j].chunk = subs[j].chunk /\ subs'[j].node = subs[j].node
                        /\ subs'[j].epoch = subs[j].epoch /\ subs'[j].flows = subs[j].flows
                        /\ subs'[j].closed = subs[j].closed
                        /\ subs'[j].turn <=> (may /\ j = i) \/ subs[j].turn
  <2>1. subs \in [1 .. Len(subs) -> Submission] /\ \A j \in Ids : subs[j] \in Submission
    BY <1>1, SeqFunction DEF TypeOK
  <2>2. CASE ~may
    <3>1. subs' = subs
      BY <2>2, <1>3
    <3> QED BY <2>2, <3>1, <1>1 DEF TypeOK
  <2>3. CASE may
    <3> DEFINE row == [subs[i] EXCEPT !.turn = TRUE]
    <3>1. /\ row \in Submission
          /\ row.chunk = subs[i].chunk /\ row.node = subs[i].node
          /\ row.epoch = subs[i].epoch /\ row.flows = subs[i].flows
          /\ row.closed = subs[i].closed /\ row.turn = TRUE
      BY <2>1, <1>2 DEF Submission
    <3>2. subs' = [subs EXCEPT ![i] = row]
      BY <2>1, <2>3, <1>1, <1>2, <1>3
    <3> HIDE DEF row
    <3>3. subs' \in [1 .. Len(subs) -> Submission] /\ subs'[i] = row
          /\ \A j \in Ids \ {i} : subs'[j] = subs[j]
      BY <2>1, <3>1, <3>2, <1>1, <1>2
    <3>4. subs' \in Seq(Submission) /\ Len(subs') = Len(subs)
      BY <3>3, <1>1, FunctionSeq
    <3> QED BY <2>3, <3>1, <3>3, <3>4
  <2> QED BY <2>2, <2>3
<1>8. Ids' = Ids /\ Running' = Running
  BY <1>4, <1>7 DEF Ids, Running
<1>9. TypeOK'
  BY <1>1, <1>4, <1>6, <1>7, <1>8 DEF TypeOK, TickType, Marker, NoCode, Repos
<1>10. TurnsOpen'
  BY <1>5, <1>7, <1>8 DEF IInv, TurnsOpen, Open
<1>11. OneTurnPerFlow'
  <2>1. may => \A j \in open_turns : subs[j].flows \cap subs[i].flows = {}
    BY <1>5 DEF busy
  <2> QED BY <2>1, <1>7, <1>8 DEF IInv, OneTurnPerFlow, open_turns
<1>12. TaskOwnsTurn'
  BY <1>7, <1>8 DEF IInv, TaskOwnsTurn, Running, Open
<1>13. TickKnowsTasks'
  BY <1>3, <1>6, <1>8 DEF IInv, TickKnowsTasks
<1>14. TakenWait'
  <2>1. \A j \in drv.taken : j \in Ids /\ subs[j].turn /\ j \notin Running
    BY <1>1 DEF IInv, TakenWait, TickType
  <2>2. may => i \notin Running
    BY <1>5 DEF IInv, TaskOwnsTurn
  <2> QED BY <2>1, <2>2, <1>2, <1>6, <1>7, <1>8 DEF TakenWait
<1>15. ReconcileCovers'
  BY <1>6 DEF ReconcileCovers
<1>16. FloorBound' /\ FloorCoversOpen'
  BY <1>4, <1>7, <1>8 DEF IInv, FloorBound, FloorCoversOpen, open_submissions_from, Open
<1>17. SubsBehind' /\ PassCovers'
  <2>1. SubsBehind'
    BY <1>4, <1>7, <1>8 DEF IInv, SubsBehind
  <2>2. PassCovers'
    BY <1>4, <1>7, <1>8 DEF IInv, PassCovers, finished, LandedRepos, no_code_flows
  <2> QED BY <2>1, <2>2
<1>18. Settled /\ LandedKept
  <2>1. Settled
    BY <1>4, <1>7, NothingLands DEF NewLanded
  <2>2. LandedKept
    BY <1>4, <1>7, <1>8, KeepLanded
  <2> QED BY <2>1, <2>2
<1>19. LateIsFenced'
  BY <1>4, <1>7, <1>8 DEF IInv, LateIsFenced, PastFence, fence, is_terminal
<1> QED BY <1>9, <1>10, <1>11, <1>12, <1>13, <1>14, <1>15, <1>16, <1>17, <1>18, <1>19
        DEF IInv, Kept

-----------------------------------------------------------------------------
(* A task's own steps *)

\* Task i goes on as t: its turn, the rows and the driver are as they were,
\* and markers may be added: of a landing, for what the forge has merged.
LEMMA TaskGoesOn ==
    ASSUME IInv, NEW i \in Ids, NEW t \in Task, task[i].phase # "none", SetTask(i, t),
           UNCHANGED <<facts, target, exited, subs, merged, upsets>>,
           flying' \subseteq Chunks \X Flows,
           markers' \in [Chunks -> SUBSET Marker],
           nocode' \in [Chunks -> SUBSET NoCode],
           \A c \in Chunks :
              /\ markers[c] \subseteq markers'[c] /\ nocode[c] \subseteq nocode'[c]
              /\ \A m \in markers'[c] \ markers[c] : \E f \in merged[c] : Repository[f] = m.repo,
           t.phase # "call" => t.doing = {},
           t.phase \in Landing =>
              /\ t.doing \subseteq t.left
              /\ facts[subs[i].chunk].epoch <= subs[i].epoch =>
                    \A f \in subs[i].flows : f \in t.left \/ finished(subs[i].chunk, f)',
           LandedKept,
           t.late = 0 \/ (t.late = 1 /\ t.phase \in {"call", "fenced"} /\ PastFence(i))
    PROVE  Kept
<1>1. TypeOK /\ Ids' = Ids /\ UNCHANGED <<floor, fresh, drv>>
  BY DEF IInv, Ids, SetTask
<1>2. /\ task' \in Seq(Task) /\ Len(task') = Len(task)
      /\ task'[i] = t /\ \A j \in Ids \ {i} : task'[j] = task[j]
  BY <1>1, TaskWritten DEF SetTask
<1>3. \A j \in Ids : subs[j].chunk \in Chunks
  BY <1>1, Typed
<1>4. Running' \subseteq Running
  BY <1>1, <1>2 DEF Running
<1>5. TypeOK'
  BY <1>1, <1>2 DEF TypeOK, TickType, Marker, NoCode, Repos
<1>6. TurnsOpen' /\ OneTurnPerFlow'
  BY <1>1 DEF IInv, TurnsOpen, OneTurnPerFlow, open_turns, Open
<1>7. TaskOwnsTurn'
  BY <1>4 DEF IInv, TaskOwnsTurn, Open
<1>8. TickKnowsTasks' /\ TakenWait'
  BY <1>1, <1>4 DEF IInv, TickKnowsTasks, TakenWait
<1>9. ReconcileCovers' /\ FloorBound' /\ FloorCoversOpen'
  BY <1>1 DEF IInv, ReconcileCovers, FloorBound, FloorCoversOpen, open_submissions_from
<1>10. \A j \in Ids : \A f : finished(subs[j].chunk, f) => finished(subs[j].chunk, f)'
  BY <1>3 DEF finished, LandedRepos, no_code_flows
<1>11. PassCovers'
  <2>1. ASSUME NEW j \in Ids
        PROVE  /\ task'[j].phase # "call" => task'[j].doing = {}
               /\ task'[j].phase \in Landing =>
                     /\ task'[j].doing \subseteq task'[j].left
                     /\ facts[subs[j].chunk].epoch <= subs[j].epoch =>
                           \A f \in subs[j].flows : f \in task'[j].left \/ finished(subs[j].chunk, f)'
    <3>1. CASE j = i
      BY <3>1, <1>2
    <3>2. CASE j # i
      BY <3>2, <1>2, <1>10 DEF IInv, PassCovers
    <3> QED BY <3>1, <3>2
  <2>2. facts' = facts /\ subs' = subs
    OBVIOUS
  <2> QED BY <2>1, <2>2, <1>1 DEF PassCovers
<1>12. SubsBehind' /\ Settled
  BY <1>1 DEF IInv, SubsBehind, Settled
<1>13. LateIsFenced'
  <2>1. \A j \in Ids : PastFence(j)' <=> PastFence(j)
    BY DEF PastFence, fence, is_terminal
  <2> QED BY <2>1, <1>1, <1>2 DEF IInv, LateIsFenced
<1> QED BY <1>5, <1>6, <1>7, <1>8, <1>9, <1>11, <1>12, <1>13 DEF IInv, Kept

\* The markers as they were.
LEMMA SameMarkers ==
    ASSUME IInv, UNCHANGED <<markers, nocode>>
    PROVE  /\ markers' \in [Chunks -> SUBSET Marker] /\ nocode' \in [Chunks -> SUBSET NoCode]
           /\ \A c \in Chunks :
                 /\ markers[c] \subseteq markers'[c] /\ nocode[c] \subseteq nocode'[c]
                 /\ \A m \in markers'[c] \ markers[c] : \E f \in merged[c] : Repository[f] = m.repo
           /\ \A c, f : finished(c, f)' <=> finished(c, f)
BY DEF IInv, TypeOK, finished, LandedRepos, no_code_flows

\* Task i goes on with nothing new to land, and no landing is recorded.
LEMMA TaskKeepsLanded ==
    ASSUME IInv, NEW i \in Ids, NEW t \in Task, SetTask(i, t), UNCHANGED <<subs, markers>>,
           t.phase \in Landing => task[i].phase \in Landing /\ t.left \subseteq task[i].left
    PROVE  LandedKept
<1>1. task'[i] = t /\ \A j \in Ids \ {i} : task'[j] = task[j]
  BY TaskWritten DEF IInv, SetTask
<1> QED BY <1>1, KeepLanded DEF Ids

\* A build reads its visit, and a pass holds what it has left to land.
LEMMA BuildStep ==
    ASSUME IInv, NEW i \in Ids, Build(i)
    PROVE  Kept
<1>1. TypeOK /\ task[i] \in Task /\ task[i].phase = "build"
  BY Typed DEF IInv, Build
<1>2. task[i].doing = {} /\ task[i].late = 0
  BY <1>1 DEF IInv, PassCovers, LateIsFenced
<1>3. UNCHANGED <<facts, target, exited, subs, markers, nocode, merged, flying, upsets>>
  BY DEF Build, hubRows, forgeVars
<1>4. flying' \subseteq Chunks \X Flows
  BY <1>1, <1>3 DEF TypeOK
<1>5. ASSUME NEW w \in BuildSays, SetTask(i, [task[i] EXCEPT !.phase = w])
      PROVE  Kept
  <2> DEFINE t == [task[i] EXCEPT !.phase = w]
  <2>1. t \in Task /\ t.phase = w /\ t.doing = {} /\ t.late = 0
    BY <1>1, <1>2 DEF Task
  <2>2. t.phase \notin Landing
    BY <2>1 DEF BuildSays, Landing
  <2>3. SetTask(i, t)
    BY <1>5
  <2> HIDE DEF t
  <2>4. LandedKept
    BY <2>1, <2>2, <2>3, <1>3, TaskKeepsLanded
  <2> QED BY <2>1, <2>2, <2>3, <2>4, <1>1, <1>3, <1>4, SameMarkers, TaskGoesOn
<1>6. ASSUME ~resources_moved(i),
             SetTask(i, [task[i] EXCEPT !.phase = "gate",
                                        !.left = unlanded(subs[i].chunk, subs[i].node)])
      PROVE  Kept
  <2> DEFINE c == subs[i].chunk
             left == unlanded(c, subs[i].node)
             t == [task[i] EXCEPT !.phase = "gate", !.left = left]
  <2>1. subs[i].flows \subseteq target[c] /\ c \in Chunks /\ target[c] \in Targets
    BY <1>1, <1>6, Typed DEF resources_moved, TypeOK
  <2>2. \A f \in subs[i].flows : f \in left \/ finished(c, f)
    BY <2>1 DEF unlanded, finished, no_code_flows
  <2>3. \A f \in left : f \in UNION Targets /\ Repository[f] \notin LandedRepos(c)
    BY <2>1 DEF unlanded
  <2>4. left \in SUBSET Flows
    BY <2>1, FlowAssumption DEF unlanded
  <2>5. SetTask(i, t)
    BY <1>6
  <2> HIDE DEF left
  <2>6. t \in Task /\ t.phase = "gate" /\ t.left = left /\ t.doing = {} /\ t.late = 0
    BY <1>1, <1>2, <2>4 DEF Task, Passing
  <2> HIDE DEF t
  <2>7. \A f \in subs[i].flows : f \in t.left \/ finished(c, f)'
    BY <2>2, <2>6, <1>3, SameMarkers
  <2>8. LandedKept
    <3>1. task'[i] = t /\ \A j \in Ids \ {i} : task'[j] = task[j]
      BY <1>1, <2>5, <2>6, TaskWritten DEF SetTask
    <3> SUFFICES ASSUME LeftUnlanded, LandedOnce PROVE LeftUnlanded' /\ LandedOnce'
      BY DEF LandedKept
    <3>2. Ids' = Ids /\ subs' = subs /\ markers' = markers
      BY <1>3 DEF Ids
    <3>3. \A f \in t.left : \A m \in markers[c] : m.repo # Repository[f]
      BY <2>3, <2>6 DEF LandedRepos
    <3>4. LeftUnlanded'
      BY <2>3, <2>6, <3>1, <3>2, <3>3 DEF LeftUnlanded
    <3> QED BY <3>2, <3>4 DEF LandedOnce
  <2> QED BY <2>5, <2>6, <2>7, <2>8, <1>1, <1>3, <1>4, SameMarkers, TaskGoesOn
<1>7. \/ \E w \in BuildSays : SetTask(i, [task[i] EXCEPT !.phase = w])
      \/ /\ ~resources_moved(i)
         /\ SetTask(i, [task[i] EXCEPT !.phase = "gate",
                                       !.left = unlanded(subs[i].chunk, subs[i].node)])
  BY DEF Build, BuildSays
<1> QED BY <1>5, <1>6, <1>7

\* A flow found without code to land is marked so before the pass leaves it.
LEMMA RecordNoCodeStep ==
    ASSUME IInv, NEW i \in Ids, NEW f \in Flows, RecordNoCode(i, f)
    PROVE  Kept
<1> DEFINE c == subs[i].chunk
           k == <<f, subs[i].node>>
           t == [task[i] EXCEPT !.left = @ \ {f}]
<1>1. /\ TypeOK /\ task[i] \in Task /\ subs[i] \in Submission /\ c \in Chunks
      /\ task[i].phase = "gate"
  BY Typed DEF IInv, RecordNoCode
<1>2. UNCHANGED <<facts, target, exited, subs, markers, merged, flying, upsets>> /\ SetTask(i, t)
  BY DEF RecordNoCode, forgeVars
<1>3. t \in Task /\ t.phase = "gate" /\ t.left = task[i].left \ {f} /\ t.doing = task[i].doing
      /\ t.late = task[i].late
  BY <1>1 DEF Task
<1>4. k \in NoCode /\ nocode \in [Chunks -> SUBSET NoCode] /\ k[1] = f
  BY <1>1 DEF NoCode, Submission, TypeOK
<1>5. nocode' = [nocode EXCEPT ![c] = @ \cup {k}]
  BY DEF RecordNoCode
<1>6. task[i].doing = {} /\ task[i].late = 0
  BY <1>1 DEF IInv, PassCovers, LateIsFenced
<1> HIDE DEF t, k
<1>7. nocode' \in [Chunks -> SUBSET NoCode] /\ nocode'[c] = nocode[c] \cup {k}
      /\ \A d \in Chunks : nocode[d] \subseteq nocode'[d]
  BY <1>1, <1>4, <1>5
<1>8. facts[c].epoch <= subs[i].epoch =>
        \A g \in subs[i].flows : g \in t.left \/ finished(c, g)'
  <2> SUFFICES ASSUME facts[c].epoch <= subs[i].epoch, NEW g \in subs[i].flows
               PROVE  g \in t.left \/ finished(c, g)'
    OBVIOUS
  <2>1. g \in task[i].left \/ finished(c, g)
    BY <1>1 DEF IInv, PassCovers, Landing
  <2>2. finished(c, f)' /\ (finished(c, g) => finished(c, g)')
    BY <1>2, <1>4, <1>7 DEF finished, LandedRepos, no_code_flows
  <2> QED BY <2>1, <2>2, <1>3
<1>9. LandedKept
  BY <1>1, <1>2, <1>3, TaskKeepsLanded DEF Landing
<1>10. markers' \in [Chunks -> SUBSET Marker] /\ flying' \subseteq Chunks \X Flows
  BY <1>1, <1>2 DEF TypeOK
<1> QED BY <1>1, <1>2, <1>3, <1>6, <1>7, <1>8, <1>9, <1>10, TaskGoesOn

\* A merge sent past the fence is the turn's first such.
LEMMA SendMergeStep ==
    ASSUME IInv, NEW i \in Ids, NEW f \in Flows, SendMerge(i, f)
    PROVE  Kept
<1> DEFINE late == PastFence(i) /\ Repository[f] \notin Parked
           n == IF late THEN task[i].late + 1 ELSE task[i].late
           one == {f}
           t == [task[i] EXCEPT !.phase = "call", !.doing = one, !.late = n]
<1>1. /\ TypeOK /\ task[i] \in Task /\ f \in task[i].left
      /\ task[i].phase \in {"gate", "pass"}
  BY Typed DEF IInv, SendMerge, Passing
<1>2. task[i].late = 0
  BY <1>1 DEF IInv, LateIsFenced
<1>3. UNCHANGED <<facts, target, exited, subs, markers, nocode, merged, upsets>> /\ SetTask(i, t)
  BY DEF SendMerge, hubRows
<1>4. flying' \subseteq Chunks \X Flows
  <2>1. flying' = flying \cup {<<subs[i].chunk, f>>} /\ flying \subseteq Chunks \X Flows
    BY <1>1 DEF SendMerge, TypeOK
  <2>2. subs[i].chunk \in Chunks
    BY <1>1, Typed
  <2> QED BY <2>1, <2>2
<1>5. n \in {0, 1} /\ (n = 1 => PastFence(i))
  BY <1>2
<1>6. one \in SUBSET Flows /\ n \in Nat
  BY <1>5
<1> HIDE DEF n, one
<1>7. /\ t \in Task /\ t.phase = "call" /\ t.doing = one /\ t.late = n
      /\ t.left = task[i].left
  BY <1>1, <1>6 DEF Task
<1> HIDE DEF t
<1>8. /\ t.doing \subseteq t.left
      /\ facts[subs[i].chunk].epoch <= subs[i].epoch =>
            \A g \in subs[i].flows : g \in t.left \/ finished(subs[i].chunk, g)'
  <2>1. facts[subs[i].chunk].epoch <= subs[i].epoch =>
            \A g \in subs[i].flows : g \in task[i].left \/ finished(subs[i].chunk, g)
    BY <1>1 DEF IInv, PassCovers, Landing
  <2> QED BY <2>1, <1>1, <1>3, <1>7, SameMarkers DEF one
<1>9. LandedKept
  BY <1>1, <1>3, <1>7, TaskKeepsLanded DEF Landing
<1> QED BY <1>1, <1>3, <1>4, <1>5, <1>7, <1>8, <1>9, SameMarkers, TaskGoesOn

\* A landing recorded on a flow the submission holds is the repository's first
\* such, and no other pass of the chunk holds the flow: its turn would be open
\* on it too.
LEMMA RecordKeepsLanded ==
    ASSUME IInv, NEW i \in Ids, NEW f \in Flows, RecordLanding(i, f)
    PROVE  LandedKept
<1> SUFFICES ASSUME FixedBases, LeftUnlanded, LandedOnce
             PROVE  LeftUnlanded' /\ LandedOnce'
  BY DEF LandedKept
<1> DEFINE c == subs[i].chunk
           m == [repo |-> Repository[f], node |-> subs[i].node, epoch |-> subs[i].epoch,
                 held |-> f \in subs[i].flows]
<1>1. subs' = subs /\ Ids' = Ids /\ c \in Chunks /\ markers \in [Chunks -> SUBSET Marker]
  BY Typed DEF RecordLanding, Ids, IInv, TypeOK
<1>2. task[i].phase \in Landing /\ f \in task[i].left
  BY DEF RecordLanding, LandedSeen, IInv, PassCovers, Landing, Passing
<1>3. f \in subs[i].flows =>
        f \in UNION Targets /\ \A k \in markers[c] : k.held => k.repo # Repository[f]
  BY <1>2 DEF LeftUnlanded
<1>4. /\ m.repo = Repository[f] /\ (m.held <=> f \in subs[i].flows)
      /\ markers' = [markers EXCEPT ![c] = @ \cup {m}]
  BY DEF RecordLanding
<1> HIDE DEF m
<1>5. markers'[c] = markers[c] \cup {m} /\ \A d \in Chunks \ {c} : markers'[d] = markers[d]
  BY <1>1, <1>4
<1>6. LandedOnce'
  BY <1>3, <1>4, <1>5 DEF LandedOnce
<1>7. /\ task'[i].left = task[i].left \ {f}
      /\ \A j \in Ids \ {i} : task'[j] = task[j]
  <2>1. task \in [Ids -> Task] /\ task[i] \in Task
    BY SeqFunction, Typed DEF IInv, TypeOK
  <2>2. \E w : task' = [task EXCEPT ![i] = [task[i] EXCEPT !.phase = w, !.left = @ \ {f}, !.doing = {}]]
    BY DEF RecordLanding, SetTask
  <2> QED BY <2>1, <2>2 DEF Task
<1>8. ASSUME NEW j \in Ids, task'[j].phase \in Landing, NEW g \in task'[j].left \cap subs[j].flows
      PROVE  g \in UNION Targets /\ \A k \in markers'[subs[j].chunk] : k.held => k.repo # Repository[g]
  <2>1. task[j].phase \in Landing /\ g \in task[j].left
    BY <1>2, <1>7, <1>8
  <2>2. g \in UNION Targets /\ \A k \in markers[subs[j].chunk] : k.held => k.repo # Repository[g]
    BY <2>1, <1>8 DEF LeftUnlanded
  <2>3. CASE subs[j].chunk # c
    <3>1. subs[j].chunk \in Chunks
      BY Typed DEF IInv
    <3> QED BY <2>2, <2>3, <3>1, <1>5
  <2>4. CASE subs[j].chunk = c /\ f \notin subs[i].flows
    BY <2>2, <2>4, <1>4, <1>5
  <2>5. CASE subs[j].chunk = c /\ f \in subs[i].flows
    <3>1. g # f
      <4>1. CASE j = i
        BY <4>1, <1>7, <1>8
      <4>2. CASE j # i
        <5>1. i \in open_turns /\ j \in open_turns
          BY <1>2, <2>1 DEF IInv, TaskOwnsTurn, Running, Landing, open_turns
        <5>2. subs[i].flows \cap subs[j].flows = {}
          BY <5>1, <4>2 DEF IInv, OneTurnPerFlow
        <5> QED BY <5>2, <2>5, <1>8
      <4> QED BY <4>1, <4>2
    <3>2. Repository[g] # Repository[f]
      BY <3>1, <2>2, <2>5, <1>3 DEF FixedBases
    <3> QED BY <2>2, <2>5, <3>2, <1>4, <1>5
  <2> QED BY <2>3, <2>4, <2>5
<1>9. LeftUnlanded'
  BY <1>1, <1>8 DEF LeftUnlanded
<1> QED BY <1>6, <1>9

\* A landing recorded is one the forge holds.
LEMMA RecordLandingStep ==
    ASSUME IInv, NEW i \in Ids, NEW f \in Flows, RecordLanding(i, f)
    PROVE  Kept
<1> DEFINE c == subs[i].chunk
           held == f \in subs[i].flows
           m == [repo |-> Repository[f], node |-> subs[i].node, epoch |-> subs[i].epoch,
                 held |-> held]
           w == FencedPhase(i)
           t == [task[i] EXCEPT !.phase = w, !.left = @ \ {f}, !.doing = {}]
<1>1. TypeOK /\ task[i] \in Task /\ subs[i] \in Submission /\ c \in Chunks
  BY Typed DEF IInv
<1>2. task[i].phase \in {"gate", "pass", "call"} /\ f \in task[i].left /\ f \in merged[c]
  BY DEF RecordLanding, LandedSeen, IInv, PassCovers, Landing, Passing
<1>3. UNCHANGED <<facts, target, exited, subs, nocode, merged, flying, upsets>> /\ SetTask(i, t)
  BY DEF RecordLanding, forgeVars
<1>4. m \in Marker /\ m.repo = Repository[f]
  <2>1. held \in BOOLEAN
    OBVIOUS
  <2> HIDE DEF held
  <2> QED BY <2>1, <1>1 DEF Marker, Repos, Submission
<1>5. markers' = [markers EXCEPT ![c] = @ \cup {m}] /\ markers \in [Chunks -> SUBSET Marker]
  BY <1>1 DEF RecordLanding, TypeOK
<1> HIDE DEF m
<1>6. markers' \in [Chunks -> SUBSET Marker] /\ markers'[c] = markers[c] \cup {m}
      /\ \A d \in Chunks \ {c} : markers'[d] = markers[d]
  BY <1>1, <1>4, <1>5
<1>7. \A d \in Chunks :
        /\ markers[d] \subseteq markers'[d] /\ nocode[d] \subseteq nocode'[d]
        /\ \A k \in markers'[d] \ markers[d] : \E g \in merged[d] : Repository[g] = k.repo
  BY <1>2, <1>3, <1>4, <1>6
<1>8. w \in {"pass", "fenced"} /\ (PastFence(i) => w = "fenced")
  BY DEF FencedPhase
<1> HIDE DEF w
<1>9. /\ t \in Task /\ t.phase = w /\ t.left = task[i].left \ {f}
      /\ t.doing = {} /\ t.late = task[i].late
  BY <1>1, <1>8 DEF Task, Passing
<1> HIDE DEF t
<1>10. facts[c].epoch <= subs[i].epoch =>
         \A g \in subs[i].flows : g \in t.left \/ finished(c, g)'
  <2> SUFFICES ASSUME facts[c].epoch <= subs[i].epoch, NEW g \in subs[i].flows
               PROVE  g \in t.left \/ finished(c, g)'
    OBVIOUS
  <2>1. g \in task[i].left \/ finished(c, g)
    BY <1>2 DEF IInv, PassCovers, Landing
  <2>2. finished(c, f)' /\ (finished(c, g) => finished(c, g)')
    BY <1>3, <1>4, <1>6 DEF finished, LandedRepos, no_code_flows
  <2> QED BY <2>1, <2>2, <1>9
<1>11. t.late = 0 \/ (t.late = 1 /\ t.phase \in {"call", "fenced"} /\ PastFence(i))
  BY <1>8, <1>9 DEF IInv, LateIsFenced
<1>12. flying' \subseteq Chunks \X Flows /\ nocode' \in [Chunks -> SUBSET NoCode]
       /\ task[i].phase # "none"
  BY <1>1, <1>2, <1>3 DEF TypeOK
<1>13. LandedKept
  BY RecordKeepsLanded
<1> QED BY <1>3, <1>6, <1>7, <1>8, <1>9, <1>10, <1>11, <1>12, <1>13, TaskGoesOn

-----------------------------------------------------------------------------
(* New submissions and new tasks *)

\* A submission arrives above the floor, with no turn and no task.
LEMMA SubmitStep ==
    ASSUME IInv, NEW v \in drv.visits, Submit(v)
    PROVE  Kept
<1> DEFINE c == v.chunk
           again == OfVisit(v) # {}
           last == subs[Max(OfVisit(v))]
           new == [chunk |-> c, node |-> v.node, epoch |-> v.epoch,
                   flows |-> held_resources(c), closed |-> Open, turn |-> FALSE,
                   cuts |-> IF again THEN last.cuts ELSE 0,
                   due |-> IF again THEN last.due ELSE TRUE,
                   wait |-> IF again THEN last.wait ELSE "none",
                   review |-> IF again THEN last.review ELSE NoReview]
<1>1. /\ TypeOK /\ drv \in TickType /\ v \in Visit
      /\ v.chunk \in Chunks /\ v.node \in HubNodes /\ v.epoch \in Nat
      /\ drv.pc = "submit"
  BY DEF IInv, TypeOK, TickType, Visit, Submit
<1>2. UNCHANGED <<facts, target, exited, markers, nocode, merged, flying, floor, fresh, upsets>>
  BY DEF Submit, forgeVars
<1>3. ASSUME drv' = [drv EXCEPT !.visits = @ \ {v}], UNCHANGED <<subs, task>>
      PROVE  Kept
  <2>1. exited' \subseteq Visit /\ floor' \in Nat /\ fresh' \subseteq Ids /\ upsets' \in 0 .. MaxUpsets
    BY <1>1, <1>2 DEF TypeOK
  <2>2. FactsKept
    BY <1>1, <1>2, SameFacts
  <2> QED BY <1>2, <1>3, <2>1, <2>2, VisitDropped, DriverStep
<1>4. ASSUME subs' = Append(subs, new), task' = Append(task, NoTask),
             drv' = [drv EXCEPT !.visits = @ \ {v}, !.submitted = @ \cup {Len(subs) + 1}]
      PROVE  Kept
  <2>1. Len(subs) \in Nat /\ Ids = 1 .. Len(subs) /\ \A i \in Ids : subs[i] \in Submission
    BY <1>1, Typed
  <2>2. new \in Submission
    <3>1. again => last \in Submission
      <4>1. OfVisit(v) \in SUBSET (1 .. Len(subs))
        BY <2>1 DEF OfVisit
      <4> QED BY <4>1, <2>1, MinMax
    <3>2. held_resources(c) \in SUBSET Flows
      BY <1>1, FlowAssumption DEF held_resources, TypeOK
    <3> DEFINE cu == IF again THEN last.cuts ELSE 0
               du == IF again THEN last.due ELSE TRUE
               wa == IF again THEN last.wait ELSE "none"
               re == IF again THEN last.review ELSE NoReview
    <3>3. /\ cu \in Nat /\ du \in BOOLEAN /\ wa \in {"none", "pending", "overdue"}
          /\ re \in [Flows -> {"none", "open", "overdue"}]
      BY <3>1 DEF Submission, NoReview
    <3> HIDE DEF cu, du, wa, re
    <3>4. [chunk |-> c, node |-> v.node, epoch |-> v.epoch,
           flows |-> held_resources(c), closed |-> Open, turn |-> FALSE,
           cuts |-> cu, due |-> du, wait |-> wa, review |-> re] \in Submission
      BY <1>1, <3>2, <3>3 DEF Submission
    <3> QED BY <3>4 DEF cu, du, wa, re
  <2>3. new.closed = Open /\ new.turn = FALSE /\ new.chunk = c /\ new.epoch = v.epoch
    OBVIOUS
  <2> DEFINE k == Len(subs) + 1
  <2> HIDE DEF new
  <2>4. /\ subs' \in Seq(Submission) /\ Len(subs') = k /\ subs'[k] = new
        /\ \A i \in Ids : subs'[i] = subs[i]
    BY <1>1, <1>4, <2>1, <2>2 DEF TypeOK
  <2>5. NoTask \in Task /\ NoTask.phase = "none" /\ NoTask.late = 0 /\ NoTask.doing = {}
    BY DEF NoTask, Task
  <2>6. /\ task' \in Seq(Task) /\ Len(task') = k /\ task'[k] = NoTask
        /\ \A i \in Ids : task'[i] = task[i]
    BY <1>1, <1>4, <2>1, <2>5 DEF TypeOK
  <2>7. k \in Nat /\ Ids' = Ids \cup {k} /\ k \notin Ids /\ floor <= k
    BY <2>1, <2>4 DEF Ids, IInv, FloorBound
  <2>8. Running' = Running
    BY <2>5, <2>6, <2>7 DEF Running
  <2>9. k + 1 \in Nat /\ k <= k + 1
    BY <2>7
  <2>10. /\ drv' \in TickType'
         /\ drv'.pc = "submit" /\ drv'.running = drv.running /\ drv'.taken = drv.taken
         /\ drv'.opened = drv.opened /\ drv'.submitted = drv.submitted \cup {k}
    <3>1. drv' = [drv EXCEPT !.visits = @ \ {v}, !.submitted = @ \cup {k}]
      BY <1>4
    <3> HIDE DEF k
    <3>2. drv.closing \in SUBSET (Ids' \X Withdrawals)
      BY <1>1, <2>7 DEF TickType
    <3> QED BY <1>1, <2>7, <3>1, <3>2 DEF TickType
  <2> HIDE DEF k
  <2>11. TypeOK'
    BY <1>1, <1>2, <2>4, <2>6, <2>7, <2>10 DEF TypeOK, Marker, NoCode, Repos
  <2>12. TurnsOpen'
    BY <2>3, <2>4, <2>7 DEF IInv, TurnsOpen, Open
  <2>13. open_turns' = open_turns
    BY <2>3, <2>4, <2>7 DEF open_turns
  <2>14. OneTurnPerFlow'
    BY <2>4, <2>13 DEF IInv, OneTurnPerFlow, open_turns
  <2>15. TaskOwnsTurn'
    BY <2>4, <2>8 DEF IInv, TaskOwnsTurn, Open, Running
  <2>16. TickKnowsTasks' /\ TakenWait'
    <3>1. drv.taken \subseteq Ids
      BY <1>1 DEF TickType
    <3> QED BY <1>1, <3>1, <2>4, <2>8, <2>10 DEF IInv, TickKnowsTasks, TakenWait
  <2>17. open_submissions_from(0)' \subseteq open_submissions_from(0) \cup {k}
    BY <2>1, <2>4, <2>7 DEF open_submissions_from, Open
  <2>18. ReconcileCovers'
    BY <1>1, <2>10, <2>17 DEF IInv, ReconcileCovers
  <2>19. FloorBound' /\ FloorCoversOpen'
    BY <1>2, <2>4, <2>7, <2>9, <2>17, <1>1 DEF FloorBound, FloorCoversOpen, IInv, TypeOK
  <2>20. PassCovers' /\ SubsBehind'
    <3>1. PassCovers'
      BY <1>2, <2>4, <2>5, <2>6, <2>7
         DEF IInv, PassCovers, finished, LandedRepos, no_code_flows, Landing
    <3>2. facts[c].epoch = v.epoch
      BY <1>4, <2>1, <2>4, <2>7 DEF Submit, may_pass, is_current
    <3>3. SubsBehind'
      BY <1>1, <1>2, <2>3, <2>4, <2>7, <3>2 DEF IInv, SubsBehind
    <3> QED BY <3>1, <3>3
  <2>21. Settled /\ LandedKept
    <3>1. Settled
      BY <1>2, <2>4, NothingLands DEF NewLanded
    <3>2. LandedKept
      BY <1>2, <2>4, <2>5, <2>6, <2>7, KeepLanded DEF Landing
    <3> QED BY <3>1, <3>2
  <2>22. LateIsFenced'
    BY <1>2, <2>4, <2>5, <2>6, <2>7 DEF IInv, LateIsFenced, PastFence, fence, is_terminal
  <2> QED BY <2>11, <2>12, <2>14, <2>15, <2>16, <2>18, <2>19, <2>20, <2>21, <2>22
         DEF IInv, Kept
<1> QED BY <1>3, <1>4 DEF Submit

\* A task is started only for a turn the tick took and nobody has ended.
LEMMA SpawnStep == ASSUME IInv, Spawn PROVE Kept
<1> DEFINE t == [NoTask EXCEPT !.phase = "build"]
<1>1. TypeOK /\ drv \in TickType /\ Len(subs) \in Nat /\ Ids = 1 .. Len(subs)
      /\ \A i \in Ids : task[i] \in Task
  BY Typed DEF IInv, TypeOK
<1>2. UNCHANGED <<facts, target, exited, subs, markers, nocode, merged, flying, floor, upsets>>
      /\ drv' = NoTick /\ fresh' = drv.taken
  BY DEF Spawn, hubRows, forgeVars
<1>3. t \in Task /\ t.phase = "build" /\ t.late = 0 /\ t.doing = {}
  BY DEF NoTask, Task
<1>4. task' = [i \in Ids |-> IF i \in drv.taken THEN t ELSE task[i]]
  BY DEF Spawn
<1> HIDE DEF t
<1>5. task' \in [1 .. Len(subs) -> Task]
      /\ \A i \in Ids : task'[i] = IF i \in drv.taken THEN t ELSE task[i]
  BY <1>1, <1>3, <1>4
<1>6. task' \in Seq(Task) /\ Len(task') = Len(subs)
  BY <1>1, <1>5, FunctionSeq
<1>7. Ids' = Ids
  BY <1>2 DEF Ids
<1>8. drv.taken \subseteq Ids
  BY <1>1 DEF TickType
<1>9. TypeOK'
  <2>1. NoTick \in TickType'
    BY <1>7, NoTickType DEF TickType
  <2> QED BY <1>1, <1>2, <1>6, <1>7, <1>8, <2>1 DEF TypeOK, Marker, NoCode, Repos
<1>10. TurnsOpen' /\ OneTurnPerFlow'
  BY <1>2, <1>7 DEF IInv, TurnsOpen, OneTurnPerFlow, open_turns, Open
<1>11. \A i \in Running' : i \in Ids /\ (i \in Running \/ i \in drv.taken)
  BY <1>5, <1>7 DEF Running
<1>12. TaskOwnsTurn'
  BY <1>2, <1>7, <1>8, <1>11 DEF IInv, TaskOwnsTurn, TakenWait, TurnsOpen, Open
<1>13. TickKnowsTasks' /\ TakenWait' /\ ReconcileCovers'
  BY <1>2, NoTickType DEF TickKnowsTasks, TakenWait, ReconcileCovers
<1>14. FloorBound' /\ FloorCoversOpen'
  BY <1>2, <1>7 DEF IInv, FloorBound, FloorCoversOpen, open_submissions_from
<1>15. PassCovers'
  BY <1>2, <1>3, <1>5, <1>7 DEF IInv, PassCovers, finished, LandedRepos, no_code_flows, Landing
<1>16. SubsBehind' /\ Settled /\ LandedKept
  <2>1. SubsBehind'
    BY <1>2, <1>7 DEF IInv, SubsBehind
  <2>2. Settled
    BY <1>2, NothingLands DEF NewLanded
  <2>3. LandedKept
    BY <1>2, <1>3, <1>5, <1>7, KeepLanded DEF Landing
  <2> QED BY <2>1, <2>2, <2>3
<1>17. LateIsFenced'
  BY <1>2, <1>3, <1>5, <1>7 DEF IInv, LateIsFenced, PastFence, fence, is_terminal
<1> QED BY <1>9, <1>10, <1>12, <1>13, <1>14, <1>15, <1>16, <1>17 DEF IInv, Kept

-----------------------------------------------------------------------------
(* The specification keeps the invariant *)

LEMMA InitHolds == Init => IInv
<1> SUFFICES ASSUME Init PROVE IInv
  OBVIOUS
<1>1. subs = <<>> /\ task = <<>> /\ Ids = {} /\ Len(subs) = 0
  BY DEF Init, Ids
<1>2. facts \in [Chunks -> Facts]
  BY DEF Init, Facts
<1>3. 0 \in 0 .. MaxUpsets
  BY FlowAssumption
<1>4. TypeOK
  <2>1. subs \in Seq(Submission) /\ task \in Seq(Task) /\ Len(task) = Len(subs)
    BY <1>1
  <2>2. /\ markers \in [Chunks -> SUBSET Marker] /\ nocode \in [Chunks -> SUBSET NoCode]
        /\ merged \in [Chunks -> SUBSET Flows]
    BY DEF Init
  <2>3. /\ target \in [Chunks -> Targets] /\ exited \subseteq Visit
        /\ flying \subseteq Chunks \X Flows /\ floor \in Nat /\ fresh \subseteq Ids
        /\ upsets \in 0 .. MaxUpsets /\ drv \in TickType
    BY <1>3, NoTickType DEF Init
  <2> QED BY <1>2, <2>1, <2>2, <2>3 DEF TypeOK
<1>5. TurnsOpen /\ OneTurnPerFlow /\ TaskOwnsTurn /\ SubsBehind /\ PassCovers /\ LateIsFenced
  BY <1>1 DEF TurnsOpen, OneTurnPerFlow, open_turns, TaskOwnsTurn, Running, SubsBehind, PassCovers,
              LateIsFenced
<1>6. TickKnowsTasks /\ TakenWait /\ ReconcileCovers
  BY NoTickType DEF Init, TickKnowsTasks, TakenWait, ReconcileCovers
<1>7. FloorBound /\ FloorCoversOpen
  BY <1>1 DEF Init, FloorBound, FloorCoversOpen, open_submissions_from
<1> QED BY <1>4, <1>5, <1>6, <1>7 DEF IInv

LEMMA NextHolds == IInv /\ [Next]_vars => Kept
<1> SUFFICES ASSUME IInv, [Next]_vars PROVE Kept
  OBVIOUS
<1>1. CASE UNCHANGED vars
  BY <1>1, OutsideStep DEF vars, memory, IInv, TypeOK
<1>2. ASSUME NEW full \in BOOLEAN, Tick(full) PROVE Kept
  BY <1>2, TickStep
<1>3. CASE TickSteps
  <2>1. ASSUME NEW v \in drv.visits, Submit(v) \/ RefuseVisit(v) PROVE Kept
    BY <2>1, SubmitStep, RefuseVisitStep
  <2>2. ASSUME NEW k \in drv.closing, CloseDeparted(k) PROVE Kept
    BY <2>2, CloseDepartedStep
  <2>3. ASSUME NEW i \in Ids, end_unanswered(i) \/ recover_turns(i) PROVE Kept
    BY <2>3, EndUnansweredStep
  <2> QED BY <1>3, <2>1, <2>2, <2>3, ReadDepartedStep, EndReconcileStep, ReadLineStep,
             TakeTurnStep, SpawnStep, BootReconcileStep DEF TickSteps
<1>4. ASSUME NEW i \in Ids, TaskSteps(i) \/ CutOff(i) \/ TimePasses(i) PROVE Kept
  <2>1. ASSUME NEW f \in Flows, RecordNoCode(i, f) \/ SendMerge(i, f) \/ RecordLanding(i, f)
        PROVE  Kept
    BY <2>1, RecordNoCodeStep, SendMergeStep, RecordLandingStep
  <2>2. ASSUME NEW w \in PassSays, FinishPass(i, w) PROVE Kept
    BY <2>2, FinishPassStep
  <2> QED BY <1>4, <2>1, <2>2, BuildStep, FinishBuildStep, CutOffStep, TimePassesStep
          DEF TaskSteps
<1>5. CASE ForgeSteps
  BY <1>5, ForgeStep
<1>6. CASE Upsets
  <2>1. ASSUME NEW v \in drv.visits, SkipVisit(v) PROVE Kept
    BY <2>1, SkipVisitStep
  <2>2. ASSUME NEW i \in Ids, TaskFails(i) PROVE Kept
    BY <2>2, TaskFailsStep
  <2>3. ASSUME NEW c \in Chunks, NEW t \in Targets, MoveBase(c, t) PROVE Kept
    BY <2>3, MoveBaseStep
  <2> QED BY <1>6, <2>1, <2>2, <2>3, FailTickStep, CrashStep DEF Upsets
<1>7. CASE People
  BY <1>7, PeopleStep
<1> QED BY <1>1, <1>2, <1>3, <1>4, <1>5, <1>6, <1>7 DEF Next

LEMMA Invariance == Spec => []IInv
<1>1. IInv /\ [Next]_vars => IInv'
  BY NextHolds DEF Kept
<1> QED BY <1>1, InitHolds, PTL DEF Spec

\* Every row and every memory of the hub keeps its type, whatever the rows say
\* when a transaction writes: a submission is closed only with an outcome
\* close_submission knows, and the driver holds only arrivals that exist.
THEOREM FlowTypeOK == Spec => []TypeOK
<1>1. IInv => TypeOK
  BY DEF IInv
<1> QED BY <1>1, Invariance, PTL

\* hub:one-turn-per-flow, for any flows and chunks: take_turn checks the flows
\* again in its own transaction, so a line judged on a stale bulk read never
\* opens a second turn on a flow.
THEOREM OneTurnOpenPerFlow == Spec => []OneTurnPerFlow
<1>1. IInv => OneTurnPerFlow
  BY DEF IInv
<1> QED BY <1>1, Invariance, PTL

\* Nobody ends a turn under its running task: the sweep spares the turns its
\* tick saw running and those the last tick took, and the levers and the
\* reconcile leave a submission mid-turn to the turn's end.
THEOREM TurnsOutliveTheirTasks == Spec => []TaskOwnsTurn
<1>1. IInv => TaskOwnsTurn
  BY DEF IInv
<1> QED BY <1>1, Invariance, PTL

\* The arrival floor a reconcile leaves behind never passes a submission still
\* open, although levers, turns and crashes step between its reads and its
\* end (LineReconciliation.floor).
THEOREM FloorHidesNothing == Spec => []FloorCoversOpen
<1>1. IInv => FloorCoversOpen
  BY DEF IInv
<1> QED BY <1>1, Invariance, PTL

\* A merged/<repo> marker is written only for what the forge has merged, and a
\* submission closed as landed has, as it closes, every flow it held landed or
\* marked as without code to land, over crashes, cut-offs, retries of half a
\* delivery and other declarations of the worker's (merge_on_checks, _land).
THEOREM LandedIsMerged == Spec => LandedMeansMerged
<1>1. IInv /\ [Next]_vars =>
        [/\ \A c \in Chunks : \A m \in markers'[c] \ markers[c] :
               \E f \in merged[c] : Repository[f] = m.repo
         /\ \A i \in Ids : subs[i].closed # "landed" /\ subs'[i].closed = "landed" =>
               \A f \in subs[i].flows : finished(subs[i].chunk, f)]_vars
  BY NextHolds DEF Kept, Settled
<1> QED BY <1>1, Invariance, PTL DEF Spec, LandedMeansMerged

\* A turn sends at most one merge once its chunk has moved past it: recording
\* that one meets the fence and stops the pass (LandingFenced).
THEOREM FencedTurnStops == Spec => []StopsWhenFenced
<1>1. IInv => StopsWhenFenced
  <2> SUFFICES ASSUME IInv, NEW i \in Ids PROVE task[i].late <= 1
    BY DEF StopsWhenFenced
  <2> QED BY DEF IInv, LateIsFenced
<1> QED BY <1>1, Invariance, PTL

-----------------------------------------------------------------------------
(* Each repository lands once while base branches stay where they are *)

\* hub:per-repo-land-idempotent, wherever no repository's base branch moves:
\* each repository of a chunk is recorded landed once on the flows its
\* submissions hold, over all its visits, turns cut off mid-merge, restarts and
\* crashes.  The `doubleland' run shows that the assumption on the bases is
\* needed.
THEOREM EachRepositoryLandsOnce ==
    ASSUME FixedBases
    PROVE  Spec => []LandedOnce
<1> DEFINE LandInv == LeftUnlanded /\ LandedOnce
<1>1. Init => LandInv
  BY DEF Init, LeftUnlanded, LandedOnce, Ids
<1>2. IInv /\ LandInv /\ [Next]_vars => LandInv'
  BY NextHolds DEF Kept, LandedKept
<1>3. LandInv => LandedOnce
  OBVIOUS
<1> QED BY <1>1, <1>2, <1>3, Invariance, PTL DEF Spec
=============================================================================
