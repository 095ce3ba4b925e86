----------------------------- MODULE DeliveryFlow -----------------------------
(***************************************************************************)
(* The delivery flow lines of one tenant: chunks standing at a hub node    *)
(* are submitted to the flows (a repository's branch each) they land on,   *)
(* a submission takes its turn when no earlier one on its flows may, and a *)
(* turn's task runs the node's action: it merges at the forge and writes a *)
(* marker per repository landed, or one that says the base already holds   *)
(* the declared commit (hub/domain/delivery, hub/delivery,                 *)
(* hub/domain/chunk/no_code.py, hub/store/internal/flow_store.py,          *)
(* flow_rows.py).                                                          *)
(*                                                                         *)
(* Three kinds of actor run at once: the driver's tick, which reads in     *)
(* bulk and writes one submission or turn per transaction; one task per    *)
(* turn, which reads its visit without a lock and ends its turn under the  *)
(* chunk's; and the operator's levers and the workers, which move chunks   *)
(* in between.  A crash of the hub forgets the tasks, the driver's floor   *)
(* and its tick, and keeps the rows and whatever the forge was asked.      *)
(*                                                                         *)
(* A chunk away from the hub nodes is at `Away': the workers' part of its  *)
(* walk is ChunkHub's.  Time is abstract: a poll comes due, a deadline     *)
(* passes, or a wait or a review that has begun times out, whenever it may.*)
(***************************************************************************)
EXTENDS Naturals, Sequences, FiniteSets, FiniteSetsExt

CONSTANTS
    Chunks,
    Flows,        \* the flow lines: a repository's branch each
    Repository,   \* Repository[f]: the repository the flow's branch is of
    Parked,       \* the repositories whose changes a person merges (policy `park')
    Targets,      \* what a chunk's commits may resolve to, as sets of flows
    HubNodes,     \* the nodes whose step the hub runs
    Away,         \* any node a worker runs
    Terminal,     \* the reserved terminal node
    Edges,        \* the authored edges leaving the hub nodes
    StuckAfter,   \* STUCK_AFTER: turns cut off in a row before a person is asked
    Codeless,     \* bound: the repositories that may already hold what is declared
    MaxEpoch,     \* bound: newest epoch a worker, a restart or a requeue works on
    MaxUpsets     \* bound: crashes, failures, levers pulled, moved configuration

ASSUME FlowAssumption ==
    /\ {StuckAfter, MaxEpoch, MaxUpsets} \subseteq Nat
    /\ StuckAfter > 0
    /\ IsFiniteSet(Flows)
    /\ Parked \cup Codeless \subseteq {Repository[f] : f \in Flows}
    /\ Targets \subseteq SUBSET Flows
    /\ \A t \in Targets : \A f, g \in t : Repository[f] = Repository[g] => f = g
    /\ Away \notin HubNodes /\ Terminal \notin HubNodes /\ Away # Terminal
    /\ Edges \subseteq [from : HubNodes, choice : {"landed", "failure"},
                        kind : {"transition", "migration"},
                        to : HubNodes \cup {Away, Terminal}]

VARIABLES
    facts,    \* facts[c]: the chunk's facts the lines converge on
    target,   \* target[c]: the flows configuration resolves the chunk's commits to
    exited,   \* migrations recorded, by chunk, node and epoch
    subs,     \* the submissions in arrival order, each with its newest turn
    markers,  \* markers[c]: the merged/<repo> markers, by repository and visit
    nocode,   \* nocode[c]: the no-code markers of what the chunk declares now
    merged,   \* merged[c]: the flows the forge has merged the chunk's work into
    flying,   \* merge calls and parked changes the forge has not settled
    task,     \* task[i]: submission i's turn as its task holds it, in memory
    floor,    \* the arrival floor the driver reads open submissions from
    fresh,    \* the submissions the newest finished tick took a turn for
    drv,      \* the driver's tick: where it stands and what it read
    upsets    \* how often anything but the hub, its forge and the workers stepped in

hubRows == <<facts, target, exited, subs, markers, nocode>>
forgeVars == <<merged, flying>>
memory == <<task, floor, fresh, drv>>
vars == <<facts, target, exited, subs, markers, nocode, merged, flying,
          task, floor, fresh, drv, upsets>>

Ids == 1 .. Len(subs)
Open == "open"
Repos == {Repository[f] : f \in Flows}

Facts == [at : HubNodes \cup {Away, Terminal}, epoch : Nat, esc : BOOLEAN,
          paused : BOOLEAN, ended : {"no", "stopped", "completed"}, restarted : Nat]

Withdrawals == {"stopped", "completed", "restarted", "superseded"}

\* `wait' is the newest uninterrupted run of pending polls, `review' how long
\* the visit has had a parked change open.
Submission == [chunk : Chunks, node : HubNodes, epoch : Nat, flows : SUBSET Flows,
               closed : {Open, "landed", "failure"} \cup Withdrawals,
               turn : BOOLEAN, cuts : Nat, due : BOOLEAN,
               wait : {"none", "pending", "overdue"},
               review : [Flows -> {"none", "open", "overdue"}]]

Visit == [chunk : Chunks, node : HubNodes, epoch : Nat]

\* `held' says the landing was recorded on a flow the submission holds too.
Marker == [repo : Repos, node : HubNodes, epoch : Nat, held : BOOLEAN]

\* A no-code marker names the whole declaration, its base branch with it, and
\* the node whose pass wrote it.
NoCode == Flows \X HubNodes

NoTask == [phase |-> "none", left |-> {}, doing |-> {}, late |-> 0]

\* What a build answers without a pass, and what a pass answers.
BuildSays == {"superseded", "ask", "timeout", "refuse", "moved", "raised"}
PassSays == {"wait", "await", "escalate", "failure", "landed"}

\* A pass gates every repository first, then lands them.
Passing == {"gate", "pass"}

Task == [phase : {"none", "build", "call", "fenced"} \cup Passing \cup BuildSays,
         left : SUBSET Flows, doing : SUBSET Flows, late : Nat]

\* Between ticks the driver holds nothing but its floor and the instant its
\* last tick began, which `fresh' stands for.
NoTick == [pc |-> "idle", boot |-> FALSE, running |-> {}, visits |-> {},
           live |-> {}, opened |-> {}, submitted |-> {}, closing |-> {},
           kept |-> {}, nexts |-> {}, passed |-> {}, taken |-> {}]

TickType == [pc : {"idle", "recover", "submit", "close", "sweep", "admit"}, boot : BOOLEAN,
             running : SUBSET Ids, visits : SUBSET Visit, live : SUBSET Chunks,
             opened : SUBSET Ids, submitted : SUBSET Ids,
             closing : SUBSET (Ids \X Withdrawals), kept : SUBSET Ids,
             nexts : SUBSET Ids, passed : SUBSET Ids, taken : SUBSET Ids]

TypeOK ==
    /\ facts \in [Chunks -> Facts]
    /\ target \in [Chunks -> Targets]
    /\ exited \subseteq Visit
    /\ subs \in Seq(Submission)
    /\ markers \in [Chunks -> SUBSET Marker]
    /\ nocode \in [Chunks -> SUBSET NoCode]
    /\ merged \in [Chunks -> SUBSET Flows]
    /\ flying \subseteq Chunks \X Flows
    /\ task \in Seq(Task) /\ Len(task) = Len(subs)
    /\ floor \in Nat /\ fresh \subseteq Ids /\ upsets \in 0 .. MaxUpsets
    /\ drv \in TickType

Init ==
    /\ facts = [c \in Chunks |-> [at |-> Away, epoch |-> 0, esc |-> FALSE, paused |-> FALSE,
                                  ended |-> "no", restarted |-> 0]]
    /\ target \in [Chunks -> Targets]
    /\ exited = {}
    /\ subs = <<>>
    /\ markers = [c \in Chunks |-> {}]
    /\ nocode = [c \in Chunks |-> {}]
    /\ merged = [c \in Chunks |-> {}]
    /\ flying = {}
    /\ task = <<>>
    /\ floor = 0
    /\ fresh = {}
    /\ drv = NoTick
    /\ upsets = 0

-----------------------------------------------------------------------------
(* Where a chunk stands, read from its facts *)

is_terminal(f) == f.ended # "no" \/ f.at = Terminal

\* The status ladder, as far as the lines tell statuses apart.
status(f) ==
    IF f.ended = "stopped" THEN "stopped"
    ELSE IF is_terminal(f) THEN "done"
    ELSE IF f.esc THEN "needs_human"
    ELSE IF f.paused THEN "paused"
    ELSE IF f.at \in HubNodes THEN "delivering"
    ELSE "working"

\* Both take a submission or a visit: what names a chunk's node and epoch.
is_current(f, s) == f.at = s.node /\ f.epoch = s.epoch

may_pass(f, s) == status(f) = "delivering" /\ is_current(f, s)

held_by_a_person(f, s) ==
    /\ f.at = s.node
    /\ f.epoch > s.epoch
    /\ status(f) \in {"needs_human", "paused"}

withdrawal_for(f, s) ==
    CASE status(f) = "stopped" -> "stopped"
      [] f.ended = "completed" -> "completed"
      [] is_current(f, s) \/ held_by_a_person(f, s) -> Open
      [] f.restarted > s.epoch -> "restarted"
      [] OTHER -> "superseded"

\* The write fence, of the hub's own writes.
fence(f, admission, e) ==
    /\ ~is_terminal(f)
    /\ CASE admission = "ABOVE" -> e > f.epoch
         [] admission = "AT_OR_ABOVE" -> e >= f.epoch
         [] admission = "CURRENT" -> e = f.epoch

-----------------------------------------------------------------------------
(* The lines, read from the rows *)

open_submissions_from(k) == {i \in Ids : i >= k /\ subs[i].closed = Open}

open_turns == {i \in Ids : subs[i].turn}

\* Mutant: only the landings of the visit the chunk stands at are seen.
LandedReposOfVisit(c) ==
    {m.repo : m \in {k \in markers[c] : k.node = facts[c].at /\ k.epoch = facts[c].epoch}}

\* What the chunk's markers say has landed, whatever visit wrote them.
LandedRepos(c) == {m.repo : m \in markers[c]}

\* The flows a no-code marker resolves, whatever node it was written at.
no_code_flows(c) == {k[1] : k \in nocode[c]}

\* What a flow of the chunk needs no merge for any more.
finished(c, f) == Repository[f] \in LandedRepos(c) \/ f \in no_code_flows(c)

held_resources(c) == {f \in target[c] : ~finished(c, f)}

\* What a pass at node n sets out to land: the no-code markers of other nodes
\* are not its own.
unlanded(c, n) == {f \in target[c] : /\ Repository[f] \notin LandedRepos(c)
                                     /\ <<f, n>> \notin nocode[c]}

resources_moved(i) ==
    LET s == subs[i] IN
    ~ (held_resources(s.chunk) \subseteq s.flows /\ s.flows \subseteq target[s.chunk])

OfVisit(v) == {i \in Ids : /\ subs[i].chunk = v.chunk
                           /\ subs[i].node = v.node
                           /\ subs[i].epoch = v.epoch}

\* A visit has a generation left to submit when it was never submitted, or
\* its newest submission was closed `superseded'.
generation(v) == OfVisit(v) # {} => subs[Max(OfVisit(v))].closed = "superseded"

\* Mutant: turns cut off are never counted.
never_stuck(s) == FALSE

is_stuck(s) == s.cuts >= StuckAfter

\* Only the newest StuckAfter turns are asked about.
CutsAfter(s) == IF s.cuts < StuckAfter THEN s.cuts + 1 ELSE StuckAfter

eligible(i) == may_pass(facts[subs[i].chunk], subs[i]) /\ ~subs[i].turn /\ subs[i].due

is_next(i) ==
    /\ eligible(i)
    /\ ~ \E j \in open_submissions_from(floor) :
            j < i /\ subs[j].flows \cap subs[i].flows # {} /\ eligible(j)

\* Mutant: a flow with an open turn is not seen to be busy.
never_busy(fs) == FALSE

busy(fs) == \E j \in open_turns : subs[j].flows \cap fs # {}

ahead_on(i) == {j \in open_submissions_from(0) : j < i /\ subs[j].flows \cap subs[i].flows # {}}

-----------------------------------------------------------------------------
(* Writes to a submission's rows *)

NoReview == [f \in Flows |-> "none"]

\* A row closed; the first closure written stands.  Only one closed
\* `superseded' has a next generation to read its waits and cut-offs, so of
\* any other they are dropped.
Close(row, closure) ==
    CASE row.closed # Open -> row
      [] row.closed = Open /\ closure \in {Open, "superseded"} -> [row EXCEPT !.closed = closure]
      [] OTHER -> [row EXCEPT !.closed = closure, !.cuts = 0, !.due = TRUE,
                              !.wait = "none", !.review = NoReview]

\* The turn's end, with the closure its transaction decided.  A turn that was
\* cut off lengthens the run of cut-offs, an interrupted one leaves it, any
\* other answer ends it.
Ended(i, row, closure) == [subs EXCEPT ![i] = Close([row EXCEPT !.turn = FALSE], closure)]

EndTurn(i, closure, cuts) == Ended(i, [subs[i] EXCEPT !.cuts = cuts], closure)

\* A lever closes the chunk's submissions that wait; one mid-turn is left to
\* the turn's end.
withdraw_waiting(c, outcome) ==
    [i \in Ids |-> IF subs[i].chunk = c /\ subs[i].closed = Open /\ ~subs[i].turn
                   THEN Close(subs[i], outcome) ELSE subs[i]]

-----------------------------------------------------------------------------
(* The tick: reconcile, sweep, admission *)

\* Anything that steps in from outside counts against the bound.
Upset ==
    /\ upsets < MaxUpsets
    /\ upsets' = upsets + 1

Running == {i \in Ids : task[i].phase # "none"}

Standing(c) == [chunk |-> c, node |-> facts[c].at, epoch |-> facts[c].epoch]

\* The submissions among `open' to be closed, on the facts as they are now.
Departed(open) ==
    {k \in {<<i, withdrawal_for(facts[subs[i].chunk], subs[i])>> : i \in open} : k[2] # Open}

\* What a full reconcile reads first: the open submissions from the floor
\* `from', and the facts of the chunks delivering.  It will submit those whose
\* visit has no open submission, and these facts judge their old visits'.
Reconciling(tick, from) ==
    LET opened == open_submissions_from(from)
        live == {c \in Chunks : status(facts[c]) = "delivering"}
    IN [tick EXCEPT !.pc = "submit", !.opened = opened, !.live = live,
                    !.visits = {v \in {Standing(c) : c \in live} : OfVisit(v) \cap opened = {}},
                    !.closing = Departed({i \in opened : subs[i].chunk \in live})]

\* A tick begins with a snapshot of the turns a task is running.  It
\* reconciles when due: when woken, when the tenant's rows changed, or once
\* the reconcile floor elapsed.
Tick(full) ==
    /\ drv.pc = "idle"
    /\ LET tick == [NoTick EXCEPT !.running = Running]
       IN drv' = IF full THEN Reconciling(tick, floor) ELSE [tick EXCEPT !.pc = "sweep"]
    /\ UNCHANGED <<hubRows, forgeVars, task, floor, fresh, upsets>>

\* Submit one visit, decided on the chunk's facts and the visit's newest
\* submission read again under the chunk's lock.  What configuration resolves
\* to is read just before: no other actor writes submissions.  A visit's
\* waits and its run of cut-offs are the visit's, whatever its generation.
Submit(v) ==
    /\ drv.pc = "submit" /\ v \in drv.visits
    /\ LET c == v.chunk
           again == OfVisit(v) # {}
           last == subs[Max(OfVisit(v))]
           new == [chunk |-> c, node |-> v.node, epoch |-> v.epoch,
                   flows |-> held_resources(c), closed |-> Open, turn |-> FALSE,
                   cuts |-> IF again THEN last.cuts ELSE 0,
                   due |-> IF again THEN last.due ELSE TRUE,
                   wait |-> IF again THEN last.wait ELSE "none",
                   review |-> IF again THEN last.review ELSE NoReview]
       IN IF may_pass(facts[c], v) /\ generation(v)
          THEN /\ subs' = Append(subs, new)
               /\ task' = Append(task, NoTask)
               /\ drv' = [drv EXCEPT !.visits = @ \ {v}, !.submitted = @ \cup {Len(subs) + 1}]
          ELSE /\ drv' = [drv EXCEPT !.visits = @ \ {v}]
               /\ UNCHANGED <<subs, task>>
    /\ UNCHANGED <<facts, target, exited, markers, nocode, forgeVars, floor, fresh, upsets>>

\* One visit's failure is logged and the visit skipped.
SkipVisit(v) ==
    /\ drv.pc = "submit" /\ v \in drv.visits
    /\ Upset
    /\ drv' = [drv EXCEPT !.visits = @ \ {v}]
    /\ UNCHANGED <<hubRows, forgeVars, task, floor, fresh>>

\* Mutant: a submission mid-turn is not kept among the open ones.
KeptOpenUnturned(closing) == {i \in drv.opened : ~subs[i].turn} \ {k[1] : k \in closing}

\* The submissions that stay open keep the floor down.
KeptOpen(closing) == drv.opened \ {k[1] : k \in closing}

\* The second pass judges every open submission without an open turn, on the
\* facts read first for the chunks that were delivering then, on fresh ones
\* for the others.
ReadDeparted ==
    /\ drv.pc = "submit" /\ drv.visits = {}
    /\ LET judged == drv.closing \cup Departed({i \in drv.opened : subs[i].chunk \notin drv.live})
           closing == {k \in judged : ~subs[k[1]].turn}
       IN drv' = [drv EXCEPT !.pc = "close", !.closing = closing, !.live = {},
                             !.kept = KeptOpen(closing)]
    /\ UNCHANGED <<hubRows, forgeVars, task, floor, fresh, upsets>>

CloseDeparted(k) ==
    /\ drv.pc = "close" /\ k \in drv.closing
    /\ drv' = [drv EXCEPT !.closing = @ \ {k}]
    /\ subs' = IF subs[k[1]].closed = Open /\ ~subs[k[1]].turn
               THEN [subs EXCEPT ![k[1]] = Close(@, k[2])] ELSE subs
    /\ UNCHANGED <<facts, target, exited, markers, nocode, forgeVars, task, floor, fresh, upsets>>

\* The next floor: the lowest arrival left open or just submitted.
EndReconcile ==
    /\ drv.pc = "close" /\ drv.closing = {}
    /\ LET arrivals == drv.kept \cup drv.submitted
       IN floor' = IF arrivals # {} THEN Min(arrivals)
                   ELSE IF drv.opened # {} THEN Max(drv.opened) + 1 ELSE floor
    /\ drv' = IF drv.boot THEN NoTick
              ELSE [drv EXCEPT !.pc = "sweep", !.opened = {}, !.kept = {}, !.submitted = {}]
    /\ UNCHANGED <<hubRows, forgeVars, task, fresh, upsets>>

\* Mutant: the sweep does not ask which turns a task is running.
UnansweredByAge == open_turns \ fresh

\* The turns no task answers for, of those taken before the last tick began.
Unanswered == open_turns \ (drv.running \cup fresh)

\* Mutant: the turn's outcome is written as its submission's closure.
EndInterruptedClosing(i) ==
    /\ subs' = EndTurn(i, "interrupted", subs[i].cuts)
    /\ UNCHANGED <<facts, target, exited, markers, nocode, forgeVars, task, floor, fresh, drv, upsets>>

EndInterrupted(i) ==
    /\ subs' = EndTurn(i, withdrawal_for(facts[subs[i].chunk], subs[i]), subs[i].cuts)
    /\ UNCHANGED <<facts, target, exited, markers, nocode, forgeVars, task, floor, fresh, drv, upsets>>

end_unanswered(i) ==
    /\ drv.pc = "sweep" /\ i \in Unanswered
    /\ EndInterrupted(i)

\* Admission judges the whole line on one bulk read.
ReadLine ==
    /\ drv.pc = "sweep" /\ Unanswered = {}
    /\ LET line == open_submissions_from(floor)
       IN drv' = [drv EXCEPT !.pc = "admit",
                             !.nexts = {i \in line : is_next(i)},
                             !.passed = {i \in line : ~eligible(i)}]
    /\ UNCHANGED <<hubRows, forgeVars, task, floor, fresh, upsets>>

\* A turn is taken oldest arrival first, checked again under the flows'
\* locks: nothing ahead of it but what was judged ineligible.
take_turn ==
    /\ drv.pc = "admit" /\ drv.nexts # {}
    /\ LET i == Min(drv.nexts)
           may == /\ subs[i].closed = Open /\ ~subs[i].turn
                  /\ subs[i].flows # {} => ~busy(subs[i].flows) /\ ahead_on(i) \subseteq drv.passed
       IN /\ drv' = [drv EXCEPT !.nexts = @ \ {i}, !.taken = IF may THEN @ \cup {i} ELSE @]
          /\ subs' = IF may THEN [subs EXCEPT ![i].turn = TRUE] ELSE subs
    /\ UNCHANGED <<facts, target, exited, markers, nocode, forgeVars, task, floor, fresh, upsets>>

\* The tick is over: a task is started for each turn it took.
Spawn ==
    /\ drv.pc = "admit" /\ drv.nexts = {}
    /\ task' = [i \in Ids |-> IF i \in drv.taken THEN [NoTask EXCEPT !.phase = "build"] ELSE task[i]]
    /\ fresh' = drv.taken
    /\ drv' = NoTick
    /\ UNCHANGED <<hubRows, forgeVars, floor, upsets>>

\* A tick that raises is logged and over; the turns it took have no task.
FailTick ==
    /\ drv.pc # "idle" /\ ~drv.boot
    /\ Upset
    /\ fresh' = drv.taken
    /\ drv' = NoTick
    /\ UNCHANGED <<hubRows, forgeVars, task, floor>>

-----------------------------------------------------------------------------
(* Crash and boot *)

\* The rows and the forge keep what they hold; a merge call sent is not
\* called back.
Crash ==
    /\ Upset
    /\ task' = [i \in Ids |-> NoTask]
    /\ floor' = 0
    /\ fresh' = {}
    /\ drv' = [NoTick EXCEPT !.pc = "recover", !.boot = TRUE]
    /\ UNCHANGED <<hubRows, forgeVars>>

\* Before the hub serves: every open turn ended with the process that ran it.
recover_turns(i) ==
    /\ drv.pc = "recover" /\ i \in open_turns
    /\ EndInterrupted(i)

BootReconcile ==
    /\ drv.pc = "recover" /\ open_turns = {}
    /\ drv' = Reconciling(drv, 0)
    /\ UNCHANGED <<hubRows, forgeVars, task, floor, fresh, upsets>>

Serving == ~drv.boot

-----------------------------------------------------------------------------
(* A turn's task: the build, the pass, the answer *)

SetTask(i, t) ==
    /\ task' = [task EXCEPT ![i] = t]
    /\ UNCHANGED <<floor, fresh, drv>>

\* The visit is read without a lock; what it answers is written later.
Build(i) ==
    /\ task[i].phase = "build"
    /\ LET s == subs[i]
           reads(w) == SetTask(i, [task[i] EXCEPT !.phase = w])
       IN \/ ~may_pass(facts[s.chunk], s) /\ reads("superseded")
          \/ /\ may_pass(facts[s.chunk], s)
             /\ \/ is_stuck(s) /\ reads("ask")
                \/ ~is_stuck(s) /\ s.wait = "overdue" /\ reads("timeout")
                \/ /\ ~is_stuck(s) /\ s.wait # "overdue"
                   /\ \/ reads("refuse")      \* the visit cannot name its resources
                      \/ reads("raised")      \* anything the build raised
                      \/ resources_moved(i) /\ reads("moved")
                      \/ ~resources_moved(i) /\ reads("ask")  \* a forge lacks a capability
                      \/ /\ ~resources_moved(i)
                         /\ SetTask(i, [task[i] EXCEPT !.phase = "gate",
                                                       !.left = unlanded(s.chunk, s.node)])
    /\ UNCHANGED <<hubRows, forgeVars, upsets>>

\* Whether the chunk has left the visit, as the fence of its markers reads it.
PastFence(i) == ~fence(facts[subs[i].chunk], "AT_OR_ABOVE", subs[i].epoch)

\* The head is gated and the base already holds the declared commit: a
\* marker says so.  Every repository is gated before any is landed, and the
\* marker is refused past the fence.
RecordNoCode(i, f) ==
    /\ task[i].phase = "gate" /\ f \in task[i].left
    /\ Repository[f] \in Codeless \ Parked
    /\ f \notin merged[subs[i].chunk] /\ ~PastFence(i)
    /\ nocode' = [nocode EXCEPT ![subs[i].chunk] = @ \cup {<<f, subs[i].node>>}]
    /\ SetTask(i, [task[i] EXCEPT !.left = @ \ {f}])
    /\ UNCHANGED <<facts, target, exited, subs, markers, forgeVars, upsets>>

\* The repositories are landed one after the other, each recorded before the
\* next is touched.  A merge the forge already holds is not sent again.  Of a
\* parked repository the hub only opens the change, or finds it open.
SendMerge(i, f) ==
    /\ task[i].phase \in Passing /\ f \in task[i].left
    /\ f \notin merged[subs[i].chunk]
    /\ flying' = flying \cup {<<subs[i].chunk, f>>}
    /\ LET late == PastFence(i) /\ Repository[f] \notin Parked
       IN SetTask(i, [task[i] EXCEPT !.phase = "call", !.doing = {f},
                                     !.late = IF late THEN @ + 1 ELSE @])
    /\ UNCHANGED <<hubRows, merged, upsets>>

\* The forge settles a merge call in its own time, whoever still waits for it;
\* a person merges or closes a parked change in theirs.
ForgeMerges(c, f) ==
    /\ <<c, f>> \in flying
    /\ merged' = [merged EXCEPT ![c] = @ \cup {f}]
    /\ flying' = flying \ {<<c, f>>}
    /\ UNCHANGED <<hubRows, memory, upsets>>

ForgeRefuses(c, f) ==
    /\ <<c, f>> \in flying
    /\ flying' = flying \ {<<c, f>>}
    /\ UNCHANGED <<hubRows, merged, memory, upsets>>

\* Mutant: a merge is recorded when it is sent, not when it has landed.
LandedSeenOnSending(i) == IF task[i].phase = "call" THEN task[i].doing ELSE {}

\* The landing a pass finds at the forge: the merge it called for, or one an
\* earlier turn called for and nobody recorded.
LandedSeen(i) ==
    LET asked == CASE task[i].phase = "call" -> task[i].doing
                   [] task[i].phase \in Passing -> task[i].left
                   [] OTHER -> {}
    IN asked \cap merged[subs[i].chunk]

\* Mutant: a landing written past the fence does not stop the pass.
FencedPhaseGoesOn(i) == "pass"

FencedPhase(i) == IF PastFence(i) THEN "fenced" ELSE "pass"

\* The marker is written whatever the fence says, once per visit, and on the
\* flow with it where the submission holds one; past the fence the pass
\* touches no other repository.  The deadline waits for this write.
RecordLanding(i, f) ==
    /\ f \in LandedSeen(i)
    /\ LET s == subs[i]
           m == [repo |-> Repository[f], node |-> s.node, epoch |-> s.epoch,
                 held |-> f \in s.flows]
       IN markers' = [markers EXCEPT ![s.chunk] = @ \cup {m}]
    /\ SetTask(i, [task[i] EXCEPT !.phase = FencedPhase(i), !.left = @ \ {f}, !.doing = {}])
    /\ UNCHANGED <<facts, target, exited, subs, nocode, forgeVars, upsets>>

\* A parked change at the forge, and one that stayed open for its
\* park_timeout_hours.
Watching(i) == \E f \in task[i].doing : Repository[f] \in Parked
ReviewOverdue(i) == \E f \in task[i].doing : subs[i].review[f] = "overdue"

\* A pass that only watched a parked change, on a forge of its own, and found it
\* merged leaves the verdict to the next poll.
Watched(i) == task[i].phase = "pass" /\ \E f \in subs[i].flows : Repository[f] \in Parked

\* What a pass may answer: landed once nothing is left; while something is,
\* the checks or the forge may have it wait, fail, or ask for a person.  A
\* merge call refused or unanswered waits, or asks for a person when the
\* forge refuses the method; a parked change awaits its merge until its
\* review is overdue, and then a person is asked.
PassAnswers(i) ==
    CASE task[i].phase \in Passing /\ task[i].left = {} ->
            {"landed"} \cup (IF Watched(i) THEN {"wait"} ELSE {})
      [] task[i].phase \in Passing -> {"wait", "failure", "escalate"}
      [] task[i].phase = "call" ->
            {"wait", "escalate"} \cup (IF Watching(i) THEN {"failure"} ELSE {})
                                \cup (IF Watching(i) /\ ~ReviewOverdue(i) THEN {"await"} ELSE {})
      [] task[i].phase = "fenced" -> {"failure"}
      [] OTHER -> {}

\* The build's bound or the pass's deadline: nothing is routed and the task
\* is over.  A write in flight is finished first; a merge call in flight is
\* not called back.
CutOff(i) ==
    /\ task[i].phase \in {"build", "call", "fenced"} \cup Passing
    /\ subs' = EndTurn(i, withdrawal_for(facts[subs[i].chunk], subs[i]), CutsAfter(subs[i]))
    /\ SetTask(i, NoTask)
    /\ UNCHANGED <<facts, target, exited, markers, nocode, forgeVars, upsets>>

\* The task dies of something nobody caught: its turn stays open.
TaskFails(i) ==
    /\ task[i].phase # "none"
    /\ Upset
    /\ SetTask(i, NoTask)
    /\ UNCHANGED <<hubRows, forgeVars>>

-----------------------------------------------------------------------------
(* The turn's end, in the transaction that routes its answer *)

EndUnrouted(i, closure, cuts) ==
    /\ subs' = EndTurn(i, closure, cuts)
    /\ UNCHANGED <<facts, exited>>

\* Handed to a person one epoch above the visit, unless fenced off; the
\* submission keeps its place while they hold it.
Escalated(i) ==
    LET s == subs[i]
        f == facts[s.chunk]
        g == IF fence(f, "ABOVE", s.epoch + 1)
             THEN [f EXCEPT !.esc = TRUE, !.epoch = s.epoch + 1] ELSE f
    IN /\ facts' = [facts EXCEPT ![s.chunk] = g]
       /\ subs' = EndTurn(i, withdrawal_for(g, s), 0)
       /\ UNCHANGED exited

Leaving(v, choice) == {x \in Edges : x.from = v.node /\ x.choice = choice}

VisitOf(s) == [chunk |-> s.chunk, node |-> s.node, epoch |-> s.epoch]

\* A transition is recorded one epoch above the visit, a migration at the
\* visit's own epoch and once.
Admits(v, x) ==
    IF x.kind = "transition" THEN fence(facts[v.chunk], "ABOVE", v.epoch + 1)
    ELSE fence(facts[v.chunk], "CURRENT", v.epoch) /\ v \notin exited

Move(v, x) ==
    /\ facts' = [facts EXCEPT ![v.chunk] =
          IF x.kind = "transition"
          THEN [@ EXCEPT !.at = x.to, !.epoch = v.epoch + 1, !.esc = FALSE]
          ELSE [@ EXCEPT !.at = x.to]]
    /\ exited' = IF x.kind = "migration" THEN exited \cup {v} ELSE exited

\* The choice routed along its edge.  A choice no edge routes escalates; a
\* kick-back may cross the node's bounce cap and escalate.
Route(i, choice, kickback) ==
    LET s == subs[i]
        v == VisitOf(s)
    IN \/ \E x \in Leaving(v, choice) :
             \/ Admits(v, x) /\ Move(v, x) /\ subs' = EndTurn(i, choice, 0)
             \/ ~Admits(v, x) /\ EndUnrouted(i, withdrawal_for(facts[s.chunk], s), 0)
             \/ x.kind = "transition" /\ kickback /\ Escalated(i)
       \/ /\ Leaving(v, choice) = {}
          /\ IF may_pass(facts[s.chunk], s) THEN Escalated(i)
             ELSE EndUnrouted(i, withdrawal_for(facts[s.chunk], s), 0)

\* A delivery that leaves a repository neither landed nor without code to
\* land is a kick-back.
Incomplete(i) == \E f \in subs[i].flows : ~finished(subs[i].chunk, f)

KickedBack(i, choice) ==
    Incomplete(i) /\ \A x \in Leaving(VisitOf(subs[i]), choice) : x.to # Terminal

\* What the build read, acted on under the chunk's lock.
FinishBuild(i) ==
    /\ LET s == subs[i]
           w == task[i].phase
           closure == withdrawal_for(facts[s.chunk], s)
       IN \/ w = "superseded" /\ EndUnrouted(i, closure, 0)
          \/ w = "moved" /\ EndUnrouted(i, "superseded", 0)
          \/ w = "ask" /\ Escalated(i)
          \/ w = "timeout" /\ Route(i, "failure", TRUE)
          \/ w = "raised" /\ Route(i, "failure", FALSE)
          \/ /\ w = "refuse"
             /\ IF may_pass(facts[s.chunk], s) THEN Route(i, "failure", FALSE)
                ELSE EndUnrouted(i, closure, 0)
    /\ SetTask(i, NoTask)
    /\ UNCHANGED <<target, markers, nocode, forgeVars, upsets>>

\* A pending poll begins a run or lengthens it; one awaiting a merge ends the
\* run, and begins the review of the change it awaits.
WaitAfter(i, w) ==
    CASE w = "await" -> "none"
      [] w = "wait" /\ subs[i].wait = "none" -> "pending"
      [] OTHER -> subs[i].wait

ReviewAfter(i, w) ==
    [f \in Flows |-> IF w = "await" /\ f \in task[i].doing THEN "open" ELSE subs[i].review[f]]

FinishPass(i, w) ==
    /\ w \in PassAnswers(i)
    /\ \/ /\ w \in {"wait", "await"}
          /\ LET closure == withdrawal_for(facts[subs[i].chunk], subs[i])
             IN subs' = Ended(i, [subs[i] EXCEPT !.cuts = 0, !.due = FALSE,
                                                 !.wait = WaitAfter(i, w),
                                                 !.review = ReviewAfter(i, w)], closure)
          /\ UNCHANGED <<facts, exited>>
       \/ w = "escalate" /\ Escalated(i)
       \/ w \in {"landed", "failure"} /\ Route(i, w, KickedBack(i, w))
    /\ SetTask(i, NoTask)
    /\ UNCHANGED <<target, markers, nocode, forgeVars, upsets>>

\* A visit that cannot name its resources is refused before it is submitted:
\* its failure choice is routed, with no turn to end.
RefuseVisit(v) ==
    /\ drv.pc = "submit" /\ v \in drv.visits
    /\ may_pass(facts[v.chunk], v) /\ generation(v)
    /\ \/ \E x \in Leaving(v, "failure") : Admits(v, x) /\ Move(v, x)
       \/ /\ Leaving(v, "failure") = {}
          /\ facts' = [facts EXCEPT ![v.chunk].esc = TRUE, ![v.chunk].epoch = v.epoch + 1]
          /\ UNCHANGED exited
    /\ drv' = [drv EXCEPT !.visits = @ \ {v}]
    /\ UNCHANGED <<target, subs, markers, nocode, forgeVars, task, floor, fresh, upsets>>

\* Time passes for an open submission: its next poll is due, its run of
\* pending polls has lasted the node's poll_timeout, or a parked change of its
\* has been open for its repository's park_timeout_hours.
Times(i, s) ==
    /\ subs[i].closed = Open
    /\ subs' = [subs EXCEPT ![i] = s]
    /\ UNCHANGED <<facts, target, exited, markers, nocode, forgeVars, memory, upsets>>

PollDue(i) == ~subs[i].due /\ Times(i, [subs[i] EXCEPT !.due = TRUE])

PendingTimesOut(i) ==
    subs[i].wait = "pending" /\ Times(i, [subs[i] EXCEPT !.wait = "overdue"])

ReviewTimesOut(i, f) ==
    subs[i].review[f] = "open" /\ Times(i, [subs[i] EXCEPT !.review[f] = "overdue"])

TimePasses(i) == PollDue(i) \/ PendingTimesOut(i) \/ \E f \in Flows : ReviewTimesOut(i, f)

-----------------------------------------------------------------------------
(* The workers, the operator and the configuration *)

\* One chunk's facts written, with the submissions withdrawn beside them.
Write(c, f, rows) ==
    /\ Serving
    /\ facts' = [facts EXCEPT ![c] = f]
    /\ subs' = rows
    /\ UNCHANGED <<target, exited, markers, nocode, forgeVars, memory>>

\* A worker's attempt, at an epoch of its own, ends at a hub node.  It may have
\* declared other commits, which no marker written so far is about.
WorkerDelivers(c, n) ==
    /\ Serving
    /\ facts[c].at = Away /\ ~is_terminal(facts[c])
    /\ facts[c].epoch < MaxEpoch
    /\ facts' = [facts EXCEPT ![c].at = n, ![c].epoch = @ + 1, ![c].esc = FALSE]
    /\ \E declared \in SUBSET Repos :
          nocode' = [nocode EXCEPT ![c] = {k \in @ : Repository[k[1]] \notin declared}]
    /\ UNCHANGED <<target, exited, subs, markers, forgeVars, memory, upsets>>

Stop(c) ==
    /\ Upset
    /\ ~is_terminal(facts[c])
    /\ Write(c, [facts[c] EXCEPT !.ended = "stopped"], withdraw_waiting(c, "stopped"))

CompleteByHand(c) ==
    /\ Upset
    /\ status(facts[c]) # "done"
    /\ Write(c, [facts[c] EXCEPT !.ended = "completed"], withdraw_waiting(c, "completed"))

Restart(c, n) ==
    /\ Upset
    /\ ~is_terminal(facts[c])
    /\ facts[c].epoch < MaxEpoch
    /\ Write(c, [facts[c] EXCEPT !.at = n, !.epoch = @ + 1, !.esc = FALSE,
                                 !.restarted = facts[c].epoch + 1],
             withdraw_waiting(c, "restarted"))

Pause(c) ==
    /\ Upset
    /\ ~facts[c].paused
    /\ status(facts[c]) \notin {"stopped", "done", "delivering"}
    /\ Write(c, [facts[c] EXCEPT !.paused = TRUE], subs)

Resume(c) ==
    /\ facts[c].paused
    /\ Write(c, [facts[c] EXCEPT !.paused = FALSE], subs)
    /\ UNCHANGED upsets

Requeue(c) ==
    /\ Upset
    /\ status(facts[c]) = "needs_human"
    /\ facts[c].epoch <= MaxEpoch
    /\ Write(c, [facts[c] EXCEPT !.esc = FALSE], subs)

\* An operator changes a repository's base branch: the chunk's commits
\* resolve to other flows from now on.
MoveBase(c, t) ==
    /\ Serving
    /\ t # target[c]
    /\ Upset
    /\ target' = [target EXCEPT ![c] = t]
    /\ UNCHANGED <<facts, exited, subs, markers, nocode, forgeVars, memory>>

-----------------------------------------------------------------------------
TickSteps ==
    \/ \E v \in drv.visits : Submit(v) \/ RefuseVisit(v)
    \/ ReadDeparted
    \/ \E k \in drv.closing : CloseDeparted(k)
    \/ EndReconcile
    \/ \E i \in Ids : end_unanswered(i) \/ recover_turns(i)
    \/ ReadLine \/ take_turn \/ Spawn \/ BootReconcile

TaskSteps(i) ==
    \/ Build(i) \/ FinishBuild(i)
    \/ \E f \in Flows : RecordNoCode(i, f) \/ SendMerge(i, f) \/ RecordLanding(i, f)
    \/ \E w \in PassSays : FinishPass(i, w)

Upsets ==
    \/ FailTick \/ Crash
    \/ \E v \in drv.visits : SkipVisit(v)
    \/ \E i \in Ids : TaskFails(i)
    \/ \E c \in Chunks, t \in Targets : MoveBase(c, t)

People ==
    \E c \in Chunks :
       \/ Stop(c) \/ CompleteByHand(c) \/ Pause(c) \/ Resume(c) \/ Requeue(c)
       \/ \E n \in HubNodes \cup {Away} : Restart(c, n)
       \/ \E n \in HubNodes : WorkerDelivers(c, n)

ForgeSteps == \E c \in Chunks, f \in Flows : ForgeMerges(c, f) \/ ForgeRefuses(c, f)

Next ==
    \/ \E full \in BOOLEAN : Tick(full)
    \/ TickSteps
    \/ \E i \in Ids : TaskSteps(i) \/ CutOff(i) \/ TimePasses(i)
    \/ ForgeSteps
    \/ Upsets
    \/ People

Spec == Init /\ [][Next]_vars

\* What the hub's scheduling gives: a tick that began goes on, a task that
\* runs goes on, time passes, and a full reconcile is never put off for good
\* (RECONCILE_FLOOR).  A visit's cut-offs are counted before the build does
\* anything slow, so the build of a stuck one is not cut off for ever.
\* Nothing makes the forge, a person, a worker, a failure or a deadline act.
Fairness ==
    /\ WF_vars(TickSteps)
    /\ SF_vars(Tick(TRUE))
    /\ \A c \in Chunks :
          LET Of(i) == subs[i].chunk = c
          IN /\ WF_vars(\E i \in Ids : Of(i) /\ TaskSteps(i))
             /\ WF_vars(\E i \in Ids : Of(i) /\ PollDue(i))
             /\ WF_vars(\E i \in Ids : Of(i) /\ PendingTimesOut(i))
             /\ WF_vars(\E i \in Ids, f \in Flows : Of(i) /\ ReviewTimesOut(i, f))
             /\ SF_vars(\E i \in Ids : Of(i) /\ is_stuck(subs[i]) /\ Build(i))

FairSpec == Spec /\ Fairness

-----------------------------------------------------------------------------
(* Properties *)

\* hub:one-turn-per-flow: whatever the driver judged a submission on, two
\* turns are never open on one flow (flow_store.take_turn).
OneTurnPerFlow ==
    \A i, j \in open_turns : i # j => subs[i].flows \cap subs[j].flows = {}

\* A task runs only while the turn it answers for is open: the sweep, the
\* levers and the reconcile never end or close one under it
\* (reconcile.end_unanswered, flow_rows.withdraw_waiting).
TaskOwnsTurn ==
    \A i \in Running : subs[i].turn /\ subs[i].closed = Open

\* The floor never passes an open submission: one below it would never be
\* judged or served again (LineReconciliation.floor).
FloorCoversOpen == \A i \in open_submissions_from(0) : i >= floor

\* Each repository of a chunk lands at most once on the flows its submissions
\* hold, over all its visits, turns cut off mid-merge, restarts and crashes
\* (hub:per-repo-land-idempotent).  A landing no line holds is left out: two
\* visits of a node may each record one where another node's no-code marker
\* kept the repository out of their submissions.
LandedOnce ==
    \A c \in Chunks : \A m, n \in markers[c] : m.held /\ n.held /\ m.repo = n.repo => m = n

\* A marker is written of what the forge has merged; and when a submission
\* closes `landed', each flow it held has landed or is marked as without code
\* to land, by a marker of what the chunk declares then (merge_on_checks,
\* no_code_repos).
LandedMeansMerged ==
    [][/\ \A c \in Chunks : \A m \in markers'[c] \ markers[c] :
             \E f \in merged[c] : Repository[f] = m.repo
       /\ \A i \in Ids : subs[i].closed # "landed" /\ subs'[i].closed = "landed" =>
             \A f \in subs[i].flows : finished(subs[i].chunk, f)]_vars

\* A turn whose chunk has moved on or ended sends at most one more merge to
\* the forge: recording it tells the turn so (LandingFenced).
StopsWhenFenced == \A i \in Ids : task[i].late <= 1

\* A delivering visit is eventually over: landed, kicked back, handed to a
\* person or moved by one.  Waits of either kind, in any alternation, turns cut
\* off or nobody answers for, and a forge that never settles a merge do not keep
\* it there for good.
DeliveringEnds ==
    \A c \in Chunks, n \in HubNodes, e \in 1 .. MaxEpoch :
        LET there == may_pass(facts[c], [chunk |-> c, node |-> n, epoch |-> e])
        IN there ~> ~there

=============================================================================
