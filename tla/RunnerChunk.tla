----------------------------- MODULE RunnerChunk -----------------------------
(***************************************************************************)
(* One runner and one chunk: the tick that reaps, resumes, reconciles,     *)
(* drains, fills and advances (runner/loop/tick.py, steps.py), the leases  *)
(* it mints and closes (runner/lifecycle), the environments it binds, the  *)
(* worker and judge processes it launches and kills, and the outbox it     *)
(* drains to the hub.                                                      *)
(*                                                                         *)
(* The tick is a sequence of small steps, each ending where another actor  *)
(* or a crash may come between: at a call to the hub, at a durable write,  *)
(* at the start or the end of a process.  What the runner knows of the hub *)
(* within a tick is one cached view.  The hub's rules for a chunk (claim,  *)
(* fence, completion, levers) are ChunkHub's, cut down to what this runner *)
(* can tell apart: `other' is any other runner.                            *)
(*                                                                         *)
(* A launched process is armed until the runner confirms that its pid is   *)
(* durable: an armed one dies with the runner.  Time is abstract: a worker *)
(* turns stale, and an interrupt's budget runs out, whenever it may.       *)
(***************************************************************************)
EXTENDS Naturals, Sequences, FiniteSets, FiniteSetsExt

CONSTANTS
    Agents,       \* the runner's slots: chunks it may work at once
    RetriesMax,   \* retries_max: failed attempts retried before a person is asked
    MaxEpoch,     \* bound: newest epoch
    MaxEnvs,      \* bound: environments the workspace has
    MaxUpsets,    \* bound: crashes, failed calls and starts, brakes, levers pulled
    Levers        \* the levers pulled: a subset of AllLevers

AllLevers == {"stop", "detach", "pause", "restart", "requeue", "rival"}

ASSUME RunnerAssumption ==
    /\ {Agents, RetriesMax, MaxEpoch, MaxEnvs, MaxUpsets} \subseteq Nat
    /\ Agents > 0 /\ MaxEpoch > 0 /\ MaxEnvs > 0
    /\ Levers \subseteq AllLevers

VARIABLES
    hub,      \* the chunk's facts at the hub
    leases,   \* leases[e]: the lease this runner minted at epoch e, if any
    envs,     \* environments bound to the chunk
    floor,    \* lease_epoch_floor: newest local epoch at the last release
    outbox,   \* facts and completions the hub has not acknowledged, oldest first
    procs,    \* the live processes
    run,      \* the tick, in memory: where it stands and what it holds
    upsets    \* how often anything but the runner's own steps stepped in

vars == <<hub, leases, envs, floor, outbox, procs, run, upsets>>
store == <<leases, envs, floor, outbox>>

-----------------------------------------------------------------------------
(* Types *)

Epochs == 1 .. MaxEpoch

\* Bound: the pids told apart, two for every lease there can be, and two more.
MaxProcs == 2 * MaxEpoch + 2

Outcomes == {"NEXT", "HUB_NODE_TAKEN", "MIGRATED", "DONE"}

HubType == [route : {"none", "us", "other"}, end : {"no", "stopped", "done"},
            paused : BOOLEAN, epoch : 0 .. MaxEpoch, restart : 0 .. MaxEpoch,
            owner : {"none", "us", "other", "hub"}, esc : 0 .. MaxEpoch,
            at : {"runner", "hub"}, landed : [Epochs -> {"none"} \cup Outcomes]]

Statuses == {"stopped", "done", "needs_human", "paused", "delivering", "running", "ready"}

View == [route : {"none", "us", "other"}, status : Statuses, paused : BOOLEAN,
         epoch : 0 .. MaxEpoch, restart : 0 .. MaxEpoch]

NoView == [status |-> "unread"]

Reasons == {"transitioned", "failed", "released", "preempted", "escalated", "resolved"}

Closed(reason) ==
    [reason |-> reason, pid |-> 0, session |-> FALSE, resume |-> FALSE,
     park |-> FALSE, elicited |-> FALSE, judge |-> 0]

Minted == Closed("open")

NoLease == Closed("none")

LeaseType == {NoLease} \cup {Closed(r) : r \in Reasons}
             \cup [reason : {"open"}, pid : 0 .. MaxProcs, session : BOOLEAN,
                   resume : BOOLEAN, park : BOOLEAN, elicited : BOOLEAN,
                   judge : 0 .. MaxProcs]

\* seen: the hub's ledger has the fact, and the acknowledgement was lost.
FactType == [kind : {"minted", "escalation", "completion"}, epoch : Epochs,
             seen : BOOLEAN]

Steps == {"reap", "resume", "reconcile", "escalations", "drain", "fill",
          "slots", "claim", "advance", "held"}

Places == Steps \cup {"down", "idle", "failing", "closing", "abandoning", "releasing",
                      "released", "preempting", "preempted", "envelope", "mint",
                      "launch", "record", "confirm", "identity", "unpark", "unmark",
                      "reclaiming", "claiming", "consume", "apply"}

RunType == [pc : Places, back : Steps \cup {"idle"}, view : View \cup {NoView},
            todo : SUBSET Epochs, lease : 0 .. MaxEpoch, env : 0 .. MaxEpoch,
            kind : {"none", "spawn", "unpause", "resume", "judge"} \cup Outcomes \cup {"FAILURE"},
            child : 0 .. MaxProcs, left : 0 .. (3 * MaxEpoch + Agents)]

Down == [pc |-> "down", back |-> "idle", view |-> NoView, todo |-> {},
         lease |-> 0, env |-> 0, kind |-> "none", child |-> 0, left |-> 0]

Idle == [Down EXCEPT !.pc = "idle"]

TypeOK ==
    /\ hub \in HubType
    /\ leases \in [Epochs -> LeaseType]
    /\ envs \in 0 .. MaxEnvs
    /\ floor \in 0 .. MaxEpoch
    /\ outbox \in Seq(FactType)
    /\ procs \subseteq 1 .. MaxProcs
    /\ run \in RunType
    /\ upsets \in 0 .. MaxUpsets

\* A promoted chunk nobody has claimed yet, and a runner that never held it.
Init ==
    /\ hub = [route |-> "none", end |-> "no", paused |-> FALSE, epoch |-> 0,
              restart |-> 0, owner |-> "none", esc |-> 0, at |-> "runner",
              landed |-> [e \in Epochs |-> "none"]]
    /\ leases = [e \in Epochs |-> NoLease]
    /\ envs = 0
    /\ floor = 0
    /\ outbox = <<>>
    /\ procs = {}
    /\ run = Idle
    /\ upsets = 0

-----------------------------------------------------------------------------
(* What the hub answers *)

status ==
    IF hub.end # "no" THEN hub.end
    ELSE IF hub.esc # 0 THEN "needs_human"
    ELSE IF hub.paused THEN "paused"
    ELSE IF hub.at = "hub" THEN "delivering"
    ELSE IF hub.route # "none" THEN "running"
    ELSE "ready"

HubView == [route |-> hub.route, status |-> status, paused |-> hub.paused,
            epoch |-> hub.epoch, restart |-> hub.restart]

\* The claim writes the route and reserves the next epoch.
Claimed(r) == [hub EXCEPT !.route = r, !.epoch = @ + 1, !.owner = r]

Claimable == status = "ready" /\ hub.epoch < MaxEpoch

\* Mutant: a fact below the newest epoch is taken too.
IngestedStale(f) ==
    LET ours == IF f.epoch > hub.epoch THEN hub.route = "us" ELSE hub.owner = "us"
    IN  IF f.seen \/ hub.end # "no" \/ ~ours THEN hub
        ELSE IF f.kind = "minted"
             THEN [hub EXCEPT !.epoch = f.epoch, !.owner = "us", !.esc = 0]
        ELSE IF f.epoch = hub.epoch THEN [hub EXCEPT !.esc = f.epoch]
        ELSE hub

\* A buffered fact as the hub ingests it: an inadmissible one is acknowledged
\* and changes nothing.  An epoch above the newest has no owner, and only the
\* route's holder may take it.
Ingested(f) ==
    LET ours == IF f.epoch > hub.epoch THEN hub.route = "us" ELSE hub.owner = "us"
        admitted == hub.end = "no" /\ f.epoch >= hub.epoch /\ ours
    IN  IF f.seen \/ ~admitted THEN hub
        ELSE IF f.kind = "minted"
             THEN [hub EXCEPT !.epoch = f.epoch, !.owner = "us", !.esc = 0]
        ELSE IF f.epoch = hub.epoch THEN [hub EXCEPT !.esc = f.epoch]
        ELSE hub

\* What a completion at epoch e may do: a landed one is answered again as it
\* was; one the fence turns away fails; any other leaves its node, for the
\* next node, a hub node, another graph or the end.  A runner's transition to
\* the end releases no route.
Applied(e) ==
    IF hub.landed[e] # "none" THEN {<<hub.landed[e], hub>>}
    ELSE IF hub.end # "no" \/ e # hub.epoch \/ hub.owner # "us"
            \/ hub.at = "hub" \/ hub.esc = e
    THEN {<<"FAILURE", hub>>}
    ELSE {<<o, [hub EXCEPT !.landed[e] = o,
                           !.at = IF o = "HUB_NODE_TAKEN" THEN "hub" ELSE "runner",
                           !.end = IF o = "DONE" THEN "done" ELSE @,
                           !.route = IF o = "MIGRATED" THEN "none" ELSE @]>>
            : o \in Outcomes}

-----------------------------------------------------------------------------
(* The runner's own records *)

Open == {e \in Epochs : leases[e].reason = "open"}

latest_epoch == Max({0} \cup {e \in Epochs : leases[e] # NoLease})

has_lease_in_binding_tenure == latest_epoch > floor

\* The leases of the visit: minted since the newest completed step, the ones
\* superseded or let go left out.
attempt_count ==
    LET boundary == Max({0} \cup {e \in Epochs : leases[e].reason = "transitioned"})
    IN  Cardinality({e \in Epochs : /\ e > boundary
                                    /\ leases[e] # NoLease
                                    /\ leases[e].reason \notin {"preempted", "released"}})

\* The open escalation: the newest lease closed escalated, nothing having
\* superseded it.
open_escalation ==
    IF latest_epoch > 0 /\ leases[latest_epoch].reason = "escalated" THEN latest_epoch ELSE 0

spawned(l) == l.pid # 0 /\ l.session

alive(l) == l.pid \in procs

pending_submission(e) ==
    \E i \in 1 .. Len(outbox) : outbox[i].kind = "completion" /\ outbox[i].epoch = e

Fact(kind, e) == [kind |-> kind, epoch |-> e, seen |-> FALSE]

\* A pid no live process has and no open lease names: a recorded one is told
\* from its successor by its start time.
FreshPid ==
    Min((1 .. MaxProcs) \ (procs \cup UNION {{leases[e].pid, leases[e].judge} : e \in Open}))

next_lease_epoch(env) == Max({latest_epoch, env}) + 1

-----------------------------------------------------------------------------
(* The moves, read off a view *)

routed_away(v) == v.route # "us"

\* An unread view is never taken for a detach, nor for a pause.
detached(v) == v # NoView /\ routed_away(v)

chunk_paused(v) == v # NoView /\ v.paused

\* A newer epoch, or a restart at or above this one.
Fenced(v, e) == v.epoch > e \/ v.restart >= e

owns_node_entry(v, escalation) ==
    IF v.epoch = latest_epoch THEN escalation # latest_epoch
    ELSE \/ v.epoch > latest_epoch /\ v.epoch = v.restart
         \/ ~has_lease_in_binding_tenure

\* What becomes of a binding with no active lease behind it.
interrupted_claim_move(v) ==
    IF v.status = "running" /\ ~routed_away(v)
    THEN IF owns_node_entry(v, open_escalation) THEN "adopt" ELSE "hold"
    ELSE IF v.status = "ready" THEN "reclaim"
    ELSE IF routed_away(v) THEN "release"
    ELSE "hold"

\* Mutant: an advanced node is left to someone else.
held_chunk_move_waiting(v) ==
    IF v.status \in {"done", "stopped"} THEN "release"
    ELSE IF v.status = "delivering" THEN "poll"
    ELSE "hold"

held_chunk_move(v) ==
    IF v.status \in {"done", "stopped"} THEN "release"
    ELSE IF v.status = "running" /\ v.epoch > latest_epoch /\ ~owns_node_entry(v, 0)
    THEN "spawn"
    ELSE IF v.status = "delivering" THEN "poll"
    ELSE "hold"

\* Mutant: the pause outranks the detach.
lease_reconcile_move_pause_first(v, e) ==
    IF v.paused THEN IF spawned(leases[e]) /\ ~leases[e].park THEN "park" ELSE "none"
    ELSE IF v.status = "stopped" \/ routed_away(v) THEN "abandon"
    ELSE IF Fenced(v, e) THEN "preempt"
    ELSE "none"

lease_reconcile_move(v, e) ==
    IF v.status = "stopped" \/ routed_away(v) THEN "abandon"
    ELSE IF v.paused THEN IF spawned(leases[e]) /\ ~leases[e].park THEN "park" ELSE "none"
    ELSE IF Fenced(v, e) THEN "preempt"
    ELSE "none"

restart_disposition(v, e) ==
    IF routed_away(v) THEN "abandon"
    ELSE IF v.paused THEN "park"
    ELSE IF Fenced(v, e) THEN "preempt"
    ELSE IF v.status = "running" THEN "restart"
    ELSE "abandon"

superseded_by(v, e) == v.status \in {"done", "stopped"} \/ routed_away(v) \/ Fenced(v, e)

-----------------------------------------------------------------------------
(* Moving through the tick *)

Upset == upsets < MaxUpsets /\ upsets' = upsets + 1

Calm == upsets' = upsets

\* The chunk's view as a step gets it: the cached one, else the hub's, else
\* none when the hub cannot be read.
Sees(v) ==
    \/ run.view # NoView /\ v = run.view /\ Calm
    \/ run.view = NoView /\ v = HubView /\ Calm
    \/ run.view = NoView /\ v = NoView /\ Upset

Known == IF run.view = NoView THEN HubView ELSE run.view

\* The view is kept as it was got.
With(v) == [run EXCEPT !.view = v]

Goto(r, place) == [r EXCEPT !.pc = place]

\* Back to the step that called, with what the call held dropped.
Return(r) ==
    IF r.back = "idle" THEN Idle
    ELSE [r EXCEPT !.pc = r.back, !.lease = 0, !.env = 0, !.kind = "none", !.child = 0]

\* An exception ends the tick; the drain catches its own and the tick goes on.
Raise(r) == IF r.back = "drain" THEN [Return(r) EXCEPT !.pc = "fill", !.left = 0] ELSE Idle

\* A step takes lease e from the leases it read and hands it to `place'.
Take(r, e, place) ==
    [r EXCEPT !.pc = place, !.back = r.pc, !.todo = @ \ {e}, !.lease = e]

Skip(r, e) == [r EXCEPT !.todo = @ \ {e}]

\* The step after s.
following(s) ==
    CASE s = "reap" -> "resume" [] s = "resume" -> "reconcile"
      [] s = "reconcile" -> "escalations" [] s = "advance" -> "held"

Put(e, l) == leases' = [leases EXCEPT ![e] = l]

\* Mutant: a release is not idempotent.
ReleaseAgain == envs' = envs - 1 /\ floor' = latest_epoch

\* release_chunk: every binding of the chunk, with the floor of its leases.
ReleaseChunk == envs' = 0 /\ floor' = IF envs > 0 THEN latest_epoch ELSE floor

KeepEnvs == UNCHANGED <<envs, floor>>

\* One tick begins: the view is read ahead if the runner holds anything.
BeginTick ==
    /\ run.pc = "idle"
    /\ LET begun == [Idle EXCEPT !.pc = "reap", !.todo = Open]
       IN  IF Open # {} \/ open_escalation # 0 \/ envs > 0
           THEN \E v \in {HubView, NoView} : Sees(v) /\ run' = [begun EXCEPT !.view = v]
           ELSE Calm /\ run' = begun
    /\ UNCHANGED <<hub, store, procs>>

\* A step with no lease left: the next one reads the open leases again.
NextStep ==
    /\ run.pc \in {"reap", "resume", "reconcile", "advance"} /\ run.todo = {}
    /\ run' = [run EXCEPT !.pc = following(run.pc),
                          !.todo = IF run.pc \in {"reap", "resume"} THEN Open ELSE {}]
    /\ Calm /\ UNCHANGED <<hub, store, procs>>

-----------------------------------------------------------------------------
(* REAP, RESUME, and the reconciles of PULL *)

\* A parked lease is left alone, an unspawned one reaped, an exited worker
\* left to ADVANCE, and a live one reaped once stale.
Reap(e) ==
    /\ run.pc = "reap" /\ e \in run.todo
    /\ LET l == leases[e] IN
       \/ ~l.park /\ ~spawned(l) /\ Calm /\ run' = Take(run, e, "failing")
       \/ ~l.park /\ spawned(l) /\ alive(l) /\ Upset /\ run' = Take(run, e, "failing")
       \/ (l.park \/ spawned(l)) /\ Calm /\ run' = Skip(run, e)
    /\ UNCHANGED <<hub, store, procs>>

Parked(l) == [l EXCEPT !.park = TRUE, !.resume = FALSE]

\* A lease marked at a shutdown or a crash is woken in place, parked, torn
\* down or given up.  The brake is asked before the survivor is killed.
Resume(e) ==
    /\ run.pc = "resume" /\ e \in run.todo
    /\ \E v \in {run.view, HubView, NoView} :
        LET move == IF ~leases[e].resume \/ v = NoView THEN "none" ELSE restart_disposition(v, e)
        IN  /\ IF leases[e].resume THEN Sees(v) ELSE v = run.view /\ Calm
            /\ \/ move = "none" /\ run' = Skip(With(v), e) /\ UNCHANGED <<leases, procs>>
               \/ /\ move = "park" /\ run' = Skip(With(v), e)
                  /\ Put(e, Parked(leases[e])) /\ UNCHANGED procs
               \/ /\ move = "preempt" /\ run' = Take(With(v), e, "preempting")
                  /\ UNCHANGED <<leases, procs>>
               \/ /\ move = "abandon" /\ run' = Take(With(v), e, "abandoning")
                  /\ UNCHANGED <<leases, procs>>
               \/ /\ move = "restart"
                  /\ run' = IF envs = 0 THEN Take(With(v), e, "abandoning")
                            ELSE [Take(With(v), e, "launch") EXCEPT !.kind = "resume"]
                  /\ procs' = procs \ {leases[e].pid}
                  /\ UNCHANGED leases
    /\ UNCHANGED <<hub, envs, floor, outbox>>

\* The brake holds a marked lease's restart: the mark stays.
ResumeBraked(e) ==
    /\ run.pc = "resume" /\ e \in run.todo
    /\ leases[e].resume /\ restart_disposition(Known, e) = "restart"
    /\ Upset /\ run' = Skip(With(Known), e)
    /\ UNCHANGED <<hub, store, procs>>

\* The interrupt sent to a parked lease's processes only asks them to exit.
ReconcileLease(e) ==
    /\ run.pc = "reconcile" /\ e \in run.todo
    /\ \E v \in {run.view, HubView, NoView} :
        LET move == IF v = NoView THEN "none" ELSE lease_reconcile_move(v, e)
        IN  /\ Sees(v)
            /\ run' = CASE move = "abandon" -> Take(With(v), e, "abandoning")
                        [] move = "preempt" -> Take(With(v), e, "preempting")
                        [] OTHER -> Skip(With(v), e)
            /\ IF move = "park" THEN Put(e, Parked(leases[e])) ELSE UNCHANGED leases
    /\ UNCHANGED <<hub, envs, floor, outbox, procs>>

ReconcileEscalation ==
    /\ run.pc = "escalations"
    /\ LET e == open_escalation IN
        IF e = 0
        THEN Calm /\ UNCHANGED leases
             /\ run' = [run EXCEPT !.pc = "drain", !.left = Len(outbox)]
        ELSE \E v \in {run.view, HubView, NoView} :
                /\ Sees(v)
                /\ run' = [With(v) EXCEPT !.pc = "drain", !.left = Len(outbox)]
                /\ IF v # NoView /\ superseded_by(v, e)
                   THEN Put(e, Closed("resolved")) ELSE UNCHANGED leases
    /\ UNCHANGED <<hub, envs, floor, outbox, procs>>

-----------------------------------------------------------------------------
(* Ending an attempt: fail, abandon, preempt *)

\* Mutant: the judge is left to end by itself.
TearDownWorker ==
    /\ run.pc \in {"failing", "abandoning", "preempting"}
    /\ procs' = procs \ {leases[run.lease].pid}
    /\ run' = Goto(run, CASE run.pc = "failing" -> "closing"
                          [] run.pc = "abandoning" -> "releasing"
                          [] run.pc = "preempting" -> "preempted")
    /\ Calm /\ UNCHANGED <<hub, store>>

\* Mutant: an abandoned worker is left to end by itself.
TearDownRetried ==
    /\ run.pc \in {"failing", "abandoning", "preempting"}
    /\ procs' = IF run.pc = "abandoning" THEN procs
                ELSE procs \ {leases[run.lease].pid, leases[run.lease].judge}
    /\ run' = Goto(run, CASE run.pc = "failing" -> "closing"
                          [] run.pc = "abandoning" -> "releasing"
                          [] run.pc = "preempting" -> "preempted")
    /\ Calm /\ UNCHANGED <<hub, store>>

\* Every ending kills the worker and its judge first.
TearDown ==
    /\ run.pc \in {"failing", "abandoning", "preempting"}
    /\ procs' = procs \ {leases[run.lease].pid, leases[run.lease].judge}
    /\ run' = Goto(run, CASE run.pc = "failing" -> "closing"
                          [] run.pc = "abandoning" -> "releasing"
                          [] run.pc = "preempting" -> "preempted")
    /\ Calm /\ UNCHANGED <<hub, store>>

\* A failed attempt on a chunk routed elsewhere is given up; then retried
\* while the budget lasts; then escalated, unless the brake defers that.
FailAttempt ==
    /\ run.pc = "closing"
    /\ \E v \in {run.view, HubView, NoView} :
        /\ Sees(v)
        /\ \/ /\ detached(v)
              /\ run' = Goto(With(v), "releasing") /\ UNCHANGED <<leases, outbox>>
           \/ /\ ~detached(v)
              /\ attempt_count - 1 < RetriesMax
              /\ Put(run.lease, Closed("failed"))
              /\ run' = Goto(With(v), "envelope") /\ UNCHANGED outbox
           \/ /\ ~detached(v)
              /\ attempt_count - 1 >= RetriesMax
              /\ Put(run.lease, Closed("escalated"))
              /\ outbox' = Append(outbox, Fact("escalation", run.lease))
              /\ run' = Return(With(v))
    /\ UNCHANGED <<hub, envs, floor, procs>>

\* The brake defers an escalation: the lease stays open, its worker dead.
DeferEscalation ==
    /\ run.pc = "closing" /\ attempt_count - 1 >= RetriesMax
    /\ ~routed_away(Known)
    /\ Upset /\ run' = Return(With(Known))
    /\ UNCHANGED <<hub, store, procs>>

AbandonReleases ==
    /\ run.pc = "releasing"
    /\ ReleaseChunk
    /\ run' = Goto(run, "released")
    /\ Calm /\ UNCHANGED <<hub, leases, outbox, procs>>

AbandonCloses ==
    /\ run.pc = "released"
    /\ Put(run.lease, Closed("released"))
    /\ run' = Return(run)
    /\ Calm /\ UNCHANGED <<hub, envs, floor, outbox, procs>>

PreemptCloses ==
    /\ run.pc = "preempted"
    /\ Put(run.lease, Closed("preempted"))
    /\ run' = Goto(run, "envelope")
    /\ Calm /\ UNCHANGED <<hub, envs, floor, outbox, procs>>

-----------------------------------------------------------------------------
(* Starting an attempt: the envelope, the mint, the launch *)

\* The envelope is read again before a spawn: an ended chunk's environments
\* are released, an unreachable hub leaves everything to the next tick.
GetEnvelope ==
    /\ run.pc = "envelope"
    /\ \/ envs = 0 /\ Calm /\ KeepEnvs /\ run' = Return(run)
       \/ envs > 0 /\ hub.end # "no" /\ Calm /\ ReleaseChunk /\ run' = Return(run)
       \/ envs > 0 /\ hub.end = "no" /\ Calm /\ KeepEnvs
          /\ run' = [run EXCEPT !.pc = "mint", !.env = hub.epoch]
       \/ envs > 0 /\ Upset /\ KeepEnvs /\ run' = Return(run)
    /\ UNCHANGED <<hub, leases, outbox, procs>>

\* A brake, the chunk's pause as last seen, or the throttle suppress a spawn;
\* an unread view does not.  The lease and its fact are one transaction.
Mint ==
    /\ run.pc = "mint"
    /\ \E v \in {run.view, HubView, NoView} :
        /\ Sees(v)
        /\ IF chunk_paused(v) \/ next_lease_epoch(run.env) > MaxEpoch
           THEN run' = Return(With(v)) /\ UNCHANGED <<leases, outbox>>
           ELSE LET e == next_lease_epoch(run.env)
                IN  /\ Put(e, Minted)
                    /\ outbox' = Append(outbox, Fact("minted", e))
                    /\ run' = [With(v) EXCEPT !.pc = "launch", !.lease = e, !.env = 0,
                                              !.kind = "spawn"]
    /\ UNCHANGED <<hub, envs, floor, procs>>

SpawnBraked ==
    /\ run.pc = "mint"
    /\ Upset /\ run' = Return(run)
    /\ UNCHANGED <<hub, store, procs>>

\* The process exists, armed; nothing about it is durable yet.
Launch ==
    /\ run.pc = "launch"
    /\ procs' = procs \cup {FreshPid}
    /\ run' = [run EXCEPT !.pc = "record", !.child = FreshPid]
    /\ Calm /\ UNCHANGED <<hub, store>>

LaunchFails ==
    /\ run.pc = "launch"
    /\ Upset /\ run' = Raise(run)
    /\ UNCHANGED <<hub, store, procs>>

RecordPid ==
    /\ run.pc = "record"
    /\ LET l == leases[run.lease]
       IN  Put(run.lease, IF run.kind = "judge" THEN [l EXCEPT !.judge = run.child]
                          ELSE [l EXCEPT !.pid = run.child])
    /\ run' = Goto(run, "confirm")
    /\ Calm /\ UNCHANGED <<hub, envs, floor, outbox, procs>>

\* Disarmed only now: from here the process outlives the runner.
ConfirmDurable ==
    /\ run.pc = "confirm"
    /\ run' = CASE run.kind = "spawn" -> [run EXCEPT !.pc = "identity", !.child = 0]
                [] run.kind = "unpause" -> [run EXCEPT !.pc = "unpark", !.child = 0]
                [] run.kind = "resume" -> [run EXCEPT !.pc = "unmark", !.child = 0]
                [] run.kind = "judge" -> Return(run)
    /\ Calm /\ UNCHANGED <<hub, store, procs>>

AwaitIdentity ==
    /\ run.pc = "identity"
    /\ Put(run.lease, [leases[run.lease] EXCEPT !.session = TRUE])
    /\ run' = Return(run)
    /\ Calm /\ UNCHANGED <<hub, envs, floor, outbox, procs>>

\* The unidentified process is killed, its lease left open for REAP.
IdentityFails ==
    /\ run.pc = "identity"
    /\ procs' = procs \ {leases[run.lease].pid}
    /\ Upset /\ run' = Raise(run)
    /\ UNCHANGED <<hub, store>>

ClearPark ==
    /\ run.pc = "unpark"
    /\ Put(run.lease, [leases[run.lease] EXCEPT !.park = FALSE])
    /\ run' = Return(run)
    /\ Calm /\ UNCHANGED <<hub, envs, floor, outbox, procs>>

ClearMark ==
    /\ run.pc = "unmark"
    /\ Put(run.lease, [leases[run.lease] EXCEPT !.resume = FALSE])
    /\ run' = Return(run)
    /\ Calm /\ UNCHANGED <<hub, envs, floor, outbox, procs>>

-----------------------------------------------------------------------------
(* DRAIN: the outbox, oldest first, as far as it reached when the drain began *)

Unread(r) == [r EXCEPT !.view = NoView]

DrainEnds ==
    /\ run.pc = "drain" /\ run.left = 0
    /\ run' = Goto(run, "fill")
    /\ Calm /\ UNCHANGED <<hub, store, procs>>

\* A fact the hub took is acknowledged, taken or rejected, and the cached view
\* is dropped.  Facts go up in one request; the hub takes them one at a time
\* and never twice.
PushFact ==
    /\ run.pc = "drain" /\ run.left > 0 /\ Head(outbox).kind # "completion"
    /\ hub' = Ingested(Head(outbox))
    /\ outbox' = Tail(outbox)
    /\ run' = [Unread(run) EXCEPT !.left = @ - 1]
    /\ Calm /\ UNCHANGED <<leases, envs, floor, procs>>

\* The hub took the fact and the answer was lost: it is sent again.
PushUnanswered ==
    /\ run.pc = "drain" /\ run.left > 0 /\ Head(outbox).kind # "completion"
    /\ hub' = Ingested(Head(outbox))
    /\ outbox' = <<[Head(outbox) EXCEPT !.seen = TRUE]>> \o Tail(outbox)
    /\ Upset /\ run' = [run EXCEPT !.pc = "fill", !.left = 0]
    /\ UNCHANGED <<leases, envs, floor, procs>>

\* A completion is applied, then acknowledged, then acted on if its lease is
\* still open.
SubmitCompletion ==
    /\ run.pc = "drain" /\ run.left > 0 /\ Head(outbox).kind = "completion"
    /\ \E a \in Applied(Head(outbox).epoch) :
        /\ hub' = a[2]
        /\ run' = LET acked == [Unread(run) EXCEPT !.left = @ - 1]
                  IN  IF Head(outbox).epoch \in Open
                      THEN [acked EXCEPT !.pc = "consume", !.back = "drain",
                                         !.lease = Head(outbox).epoch, !.kind = a[1],
                                         !.env = a[2].epoch]
                      ELSE acked
    /\ outbox' = Tail(outbox)
    /\ Calm /\ UNCHANGED <<leases, envs, floor, procs>>

SubmitUnanswered ==
    /\ run.pc = "drain" /\ run.left > 0 /\ Head(outbox).kind = "completion"
    /\ \E a \in Applied(Head(outbox).epoch) : hub' = a[2]
    /\ Upset /\ run' = [run EXCEPT !.pc = "fill", !.left = 0]
    /\ UNCHANGED <<store, procs>>

\* Nothing reached the hub; the backlog waits for the next tick.
DrainFails ==
    /\ run.pc = "drain" /\ run.left > 0
    /\ Upset /\ run' = [run EXCEPT !.pc = "fill", !.left = 0]
    /\ UNCHANGED <<hub, store, procs>>

\* Mutant: a rejected completion closes its lease as any other.
ConsumeAnyAnswer ==
    /\ run.pc = "consume"
    /\ run' = Goto(run, "apply") /\ Put(run.lease, Closed("transitioned"))
    /\ Calm /\ UNCHANGED <<hub, envs, floor, outbox, procs>>

\* completion_move: a rejected completion fails the attempt, any other closes it.
Consume ==
    /\ run.pc = "consume"
    /\ IF run.kind = "FAILURE"
       THEN run' = [run EXCEPT !.pc = "failing", !.kind = "none", !.env = 0] /\ UNCHANGED leases
       ELSE run' = Goto(run, "apply") /\ Put(run.lease, Closed("transitioned"))
    /\ Calm /\ UNCHANGED <<hub, envs, floor, outbox, procs>>

\* apply_move: a paused chunk's next node waits; an unread view holds nothing.
Apply ==
    /\ run.pc = "apply"
    /\ \/ /\ run.kind = "NEXT" /\ KeepEnvs
          /\ \E v \in {run.view, HubView, NoView} :
                /\ Sees(v)
                /\ run' = IF chunk_paused(v) THEN Return(With(v)) ELSE Goto(With(v), "mint")
       \/ run.kind = "HUB_NODE_TAKEN" /\ Calm /\ KeepEnvs /\ run' = Return(run)
       \/ run.kind \in {"DONE", "MIGRATED"} /\ Calm /\ ReleaseChunk /\ run' = Return(run)
    /\ UNCHANGED <<hub, leases, outbox, procs>>

-----------------------------------------------------------------------------
(* FILL: interrupted claims, then new ones *)

\* An adopt whose route token is missing fetches one, which drops the view.
InterruptedClaim ==
    /\ run.pc = "fill"
    /\ IF envs = 0 \/ Open # {}
       THEN run' = Goto(run, "slots") /\ Calm /\ KeepEnvs
       ELSE \E v \in {run.view, HubView, NoView} :
              LET move == IF v = NoView THEN "hold" ELSE interrupted_claim_move(v)
              IN  /\ Sees(v)
                  /\ IF move = "release" THEN ReleaseChunk ELSE KeepEnvs
                  /\ \/ /\ move = "adopt"
                        /\ \E kept \in {v, NoView} :
                              run' = [With(kept) EXCEPT !.pc = "envelope", !.back = "slots"]
                     \/ /\ move = "reclaim"
                        /\ run' = [With(v) EXCEPT !.pc = "reclaiming", !.back = "slots"]
                     \/ move \in {"hold", "release"} /\ run' = Goto(With(v), "slots")
    /\ UNCHANGED <<hub, leases, outbox, procs>>

ToAdvance(r) == [r EXCEPT !.pc = "advance", !.todo = Open, !.left = 0]

\* Mutant: the leases held take no slot.
CountAllSlots ==
    /\ run.pc = "slots"
    /\ run' = [run EXCEPT !.pc = "claim", !.left = Agents]
    /\ Calm /\ UNCHANGED <<hub, store, procs>>

\* A chunk takes one slot, however many of its leases are open.
open_lease_count == IF Open = {} THEN 0 ELSE 1

\* The slots are counted once, the interrupted claims settled.
CountSlots ==
    /\ run.pc = "slots"
    /\ run' = IF open_lease_count < Agents
              THEN [run EXCEPT !.pc = "claim", !.left = Agents - open_lease_count]
              ELSE ToAdvance(run)
    /\ Calm /\ UNCHANGED <<hub, store, procs>>

\* A brake or the throttle holds every new claim of this tick back.
FillHeldBack ==
    /\ run.pc \in {"reclaiming", "slots", "claim"}
    /\ Upset /\ run' = ToAdvance(run)
    /\ UNCHANGED <<hub, store, procs>>

\* The claim that never landed is made now, with the binding held.
Reclaim ==
    /\ run.pc = "reclaiming"
    /\ \/ /\ Claimable /\ Calm /\ KeepEnvs
          /\ hub' = Claimed("us")
          /\ run' = [Unread(run) EXCEPT !.pc = "mint", !.env = hub'.epoch]
       \/ /\ ~Claimable /\ Calm /\ ReleaseChunk
          /\ run' = Return(run) /\ UNCHANGED hub
    /\ UNCHANGED <<leases, outbox, procs>>

\* A claim whose answer was lost may or may not have committed.
ClaimUnanswered ==
    /\ run.pc \in {"reclaiming", "claiming"}
    /\ Upset
    /\ \/ UNCHANGED hub
       \/ Claimable /\ hub' = Claimed("us")
    /\ run' = IF run.pc = "reclaiming" THEN Return(run)
              ELSE ToAdvance(Return(run))
    /\ UNCHANGED <<store, procs>>

\* The queue is peeked afresh for each slot; an environment is bound before
\* the claim is made.
PeekAndBind ==
    /\ run.pc = "claim"
    /\ IF run.left > 0 /\ status = "ready" /\ envs < MaxEnvs
       THEN envs' = envs + 1 /\ run' = [run EXCEPT !.pc = "claiming", !.back = "claim"]
       ELSE envs' = envs /\ run' = ToAdvance(run)
    /\ Calm /\ UNCHANGED <<hub, leases, floor, outbox, procs>>

\* A won claim enters the node; a lost one gives its own environment back.
ClaimRoute ==
    /\ run.pc = "claiming"
    /\ \/ /\ Claimable /\ KeepEnvs
          /\ hub' = Claimed("us")
          /\ run' = [Unread(run) EXCEPT !.pc = "mint", !.env = hub'.epoch, !.left = @ - 1]
       \/ /\ ~Claimable /\ UNCHANGED hub
          /\ envs' = envs - 1 /\ floor' = latest_epoch
          /\ run' = [run EXCEPT !.pc = "claim", !.left = @ - 1]
    /\ Calm /\ UNCHANGED <<leases, outbox, procs>>

-----------------------------------------------------------------------------
(* ADVANCE: dormant sessions, exited workers, held chunks *)

\* Whether ADVANCE has anything to do for the lease before its worker exits.
Advances(e) ==
    LET l == leases[e] IN spawned(l) /\ ~l.resume /\ ~pending_submission(e)

AdvanceSkips(e) ==
    /\ run.pc = "advance" /\ e \in run.todo
    /\ ~Advances(e) \/ (~leases[e].park /\ alive(leases[e]))
    /\ run' = Skip(run, e)
    /\ Calm /\ UNCHANGED <<hub, store, procs>>

\* Mutant: a park waits for and kills the judge alone.
JudgeProcess(l) == procs \cap {l.judge}

Processes(l) == procs \cap {l.pid, l.judge}

\* The interrupted processes are given their time.
AwaitSettled(e) ==
    /\ run.pc = "advance" /\ e \in run.todo
    /\ Advances(e) /\ leases[e].park /\ Processes(leases[e]) # {}
    /\ run' = Skip(run, e)
    /\ Calm /\ UNCHANGED <<hub, store, procs>>

\* Past it they are killed and the interrupted judgement dropped; the session
\* is woken once the pause is seen lifted on a chunk still routed here.
OnUnpause(e) ==
    /\ run.pc = "advance" /\ e \in run.todo
    /\ Advances(e) /\ leases[e].park
    /\ procs' = procs \ Processes(leases[e])
    /\ Put(e, [leases[e] EXCEPT !.elicited = FALSE, !.judge = 0])
    /\ \E v \in {run.view, HubView, NoView} :
        /\ Sees(v)
        /\ run' = IF v = NoView \/ v.paused \/ routed_away(v) \/ envs = 0
                  THEN Skip(With(v), e)
                  ELSE [Take(With(v), e, "launch") EXCEPT !.kind = "unpause"]
    /\ UNCHANGED <<hub, envs, floor, outbox>>

Exited(e) ==
    Advances(e) /\ ~leases[e].park /\ ~alive(leases[e])

\* An exit is judged in its environment, against an envelope the hub hands over.
Judgeable(e) == Exited(e) /\ envs > 0 /\ hub.end = "no"

\* No environment, an ended chunk or an unreachable hub, a judge still running,
\* or a brake: the exit waits.
ExitWaits(e) ==
    /\ run.pc = "advance" /\ e \in run.todo
    /\ Exited(e)
    /\ \/ Calm /\ (~Judgeable(e) \/ leases[e].judge \in procs)
       \/ Upset
    /\ run' = Skip(run, e)
    /\ UNCHANGED <<hub, store, procs>>

\* The elicitation is recorded before the judge is launched, first or again.
LaunchJudge(e) ==
    /\ run.pc = "advance" /\ e \in run.todo
    /\ Judgeable(e) /\ leases[e].judge \notin procs
    /\ \E v \in {run.view, HubView, NoView} :
        /\ Sees(v)
        /\ IF chunk_paused(v)
           THEN run' = Skip(With(v), e) /\ UNCHANGED leases
           ELSE /\ Put(e, [leases[e] EXCEPT !.elicited = TRUE, !.judge = 0])
                /\ run' = [Take(With(v), e, "launch") EXCEPT !.kind = "judge"]
    /\ UNCHANGED <<hub, envs, floor, outbox, procs>>

\* A judge that ran and exited left a verdict: the completion is buffered.
Judged(e) ==
    /\ run.pc = "advance" /\ e \in run.todo
    /\ Judgeable(e) /\ leases[e].elicited
    /\ leases[e].judge # 0 /\ leases[e].judge \notin procs
    /\ outbox' = Append(outbox, Fact("completion", e))
    /\ Put(e, [leases[e] EXCEPT !.elicited = FALSE, !.judge = 0])
    /\ run' = Skip(run, e)
    /\ Calm /\ UNCHANGED <<hub, envs, floor, procs>>

\* No verdict, a choice its checks refuse, or a judge past its bound.
NotJudged(e) ==
    /\ run.pc = "advance" /\ e \in run.todo
    /\ Judgeable(e) /\ leases[e].elicited
    /\ run' = Take(run, e, "failing")
    /\ Calm /\ UNCHANGED <<hub, store, procs>>

\* A chunk held with no open lease.
DriveHeld ==
    /\ run.pc = "held"
    /\ IF envs = 0 \/ Open # {}
       THEN run' = Idle /\ Calm /\ KeepEnvs
       ELSE \E v \in {run.view, HubView, NoView} :
              LET move == IF v = NoView THEN "hold" ELSE held_chunk_move(v)
              IN  /\ Sees(v)
                  /\ IF move = "release" THEN ReleaseChunk ELSE KeepEnvs
                  /\ run' = IF move = "spawn"
                            THEN [With(v) EXCEPT !.pc = "envelope", !.back = "idle"]
                            ELSE Idle
    /\ UNCHANGED <<hub, leases, outbox, procs>>

-----------------------------------------------------------------------------
(* Crash, shutdown and start *)

\* The armed process dies with the runner, every other outlives it.
Crash ==
    /\ run.pc # "down"
    /\ run' = Down
    /\ procs' = procs \ {run.child}
    /\ Upset /\ UNCHANGED <<hub, store>>

resumable(e) ==
    /\ e \in Open /\ spawned(leases[e])
    /\ ~leases[e].park /\ ~leases[e].elicited /\ ~pending_submission(e)

\* Every lease in flight is marked, then the marked ones' workers are drained;
\* the runner may die between.
Shutdown ==
    /\ run.pc = "idle"
    /\ leases' = [e \in Epochs |-> IF resumable(e) THEN [leases[e] EXCEPT !.resume = TRUE]
                                   ELSE leases[e]]
    /\ procs' \in {procs, procs \ {leases[e].pid : e \in {e \in Open : resumable(e) \/ leases[e].resume}}}
    /\ run' = Down
    /\ Upset /\ UNCHANGED <<hub, envs, floor, outbox>>

\* The leases a crash orphaned are marked: those whose worker is gone without
\* having declared itself done or gone stale before.
Start ==
    /\ run.pc = "down"
    /\ \E marked \in SUBSET {e \in Open : resumable(e) /\ ~alive(leases[e])} :
          leases' = [e \in Epochs |-> IF e \in marked THEN [leases[e] EXCEPT !.resume = TRUE]
                                     ELSE leases[e]]
    /\ run' = Idle
    /\ Calm /\ UNCHANGED <<hub, envs, floor, outbox, procs>>

\* A worker or a judge ends by itself.
ProcessExits(p) ==
    /\ p \in procs \ {run.child}
    /\ procs' = procs \ {p}
    /\ Calm /\ UNCHANGED <<hub, store, run>>

-----------------------------------------------------------------------------
(* The hub's other clients *)

HubMoves(h) == hub' = h /\ UNCHANGED <<store, procs, run>>

Pull(lever) == lever \in Levers /\ Upset

Stop ==
    /\ hub.end = "no" /\ Pull("stop")
    /\ HubMoves([hub EXCEPT !.end = "stopped", !.route = "none"])

Detach ==
    /\ hub.end = "no" /\ hub.route # "none" /\ Pull("detach")
    /\ HubMoves([hub EXCEPT !.route = "none"])

Pause ==
    /\ hub.end = "no" /\ ~hub.paused /\ Pull("pause")
    /\ HubMoves([hub EXCEPT !.paused = TRUE])

Unpause ==
    /\ hub.paused /\ Calm
    /\ HubMoves([hub EXCEPT !.paused = FALSE])

\* The forced move to a runner's node: a fresh epoch for the hub, the route kept.
Restart ==
    /\ hub.end = "no" /\ hub.epoch < MaxEpoch /\ Pull("restart")
    /\ HubMoves([hub EXCEPT !.epoch = @ + 1, !.restart = hub.epoch + 1,
                             !.owner = "hub", !.esc = 0, !.at = "runner"])

Requeue ==
    /\ status = "needs_human" /\ Pull("requeue")
    /\ HubMoves([hub EXCEPT !.esc = 0, !.route = "none"])

\* Another runner claims the chunk, and may bring it to its end.
RivalClaims ==
    /\ Claimable /\ Pull("rival")
    /\ HubMoves(Claimed("other"))

RivalCompletes ==
    /\ hub.route = "other" /\ status = "running" /\ Calm
    /\ HubMoves([hub EXCEPT !.end = "done"])

\* The hub's own node ends the chunk or sends it back to a runner's, one epoch up.
HubNodeEnds ==
    /\ status = "delivering" /\ hub.epoch < MaxEpoch /\ Calm
    /\ \/ HubMoves([hub EXCEPT !.epoch = @ + 1, !.owner = "hub",
                                !.end = "done", !.route = "none"])
       \/ HubMoves([hub EXCEPT !.epoch = @ + 1, !.owner = "hub", !.at = "runner"])

-----------------------------------------------------------------------------
Tick ==
    \/ BeginTick \/ NextStep \/ ReconcileEscalation
    \/ \E e \in run.todo : \/ Reap(e) \/ Resume(e) \/ ReconcileLease(e)
                           \/ AdvanceSkips(e) \/ AwaitSettled(e) \/ OnUnpause(e)
                           \/ ExitWaits(e) \/ LaunchJudge(e) \/ Judged(e) \/ NotJudged(e)
    \/ TearDown \/ FailAttempt \/ AbandonReleases \/ AbandonCloses \/ PreemptCloses
    \/ GetEnvelope \/ Mint \/ Launch \/ RecordPid \/ ConfirmDurable
    \/ AwaitIdentity \/ ClearPark \/ ClearMark
    \/ DrainEnds \/ PushFact \/ SubmitCompletion \/ Consume \/ Apply
    \/ InterruptedClaim \/ CountSlots \/ Reclaim \/ PeekAndBind \/ ClaimRoute
    \/ DriveHeld \/ Start

Faults ==
    \/ \E e \in run.todo : ResumeBraked(e)
    \/ DeferEscalation \/ SpawnBraked \/ LaunchFails \/ IdentityFails
    \/ PushUnanswered \/ SubmitUnanswered \/ DrainFails \/ FillHeldBack \/ ClaimUnanswered
    \/ Crash \/ Shutdown

Others ==
    \/ \E p \in procs : ProcessExits(p)
    \/ Stop \/ Detach \/ Pause \/ Unpause \/ Restart \/ Requeue
    \/ RivalClaims \/ RivalCompletes \/ HubNodeEnds

Next == Tick \/ Faults \/ Others

Spec == Init /\ [][Next]_vars

\* The loop keeps ticking and a stopped runner is started again.
FairSpec == Spec /\ WF_vars(Tick)

-----------------------------------------------------------------------------
(* Properties *)

\* At most one lease of the chunk is open: an attempt is closed before the
\* next is minted, whichever of the retry, the preempt, the adopt, the
\* reclaim, the spawn of an advanced node and a fresh claim mints it.
OneLiveLease == Cardinality(Open) <= 1

\* One process works the chunk at a time: a worker is dead or killed before it
\* is woken again or another is launched, and a judge runs only once its
\* worker is gone, across crashes, shutdowns, parks and wakes.
OneProcess == Cardinality(procs) <= 1

\* Every live process is named by an open lease, so that some later tick can
\* wait for it or kill it; only the one still armed to die with the runner is
\* not.
NoForgottenWorker ==
    \A p \in procs \ {run.child} : \E e \in Open : p \in {leases[e].pid, leases[e].judge}

\* While a process of the chunk lives, its environment is bound to the chunk:
\* none is given back under a running worker or judge, and none is launched
\* without one.  The exception is a next node entered on the hub's answer to a
\* completion: an abandon cut short between the release and the close leaves
\* the lease open without an environment, its buffered completion may still
\* land, and the next worker is launched with no environment at all.
EnvHeldWhileWorking ==
    [][/\ envs' < envs => procs' = {}
       /\ procs' \subseteq procs \/ envs > 0 \/ run.back = "drain"]_vars

\* A lease closed as transitioned had its completion applied at the hub, also
\* when the answer was lost, the runner died before acting on it, or the
\* completion was replayed at a chunk that had moved on.
ClosedMeansLanded ==
    \A e \in Epochs : leases[e].reason = "transitioned" => hub.landed[e] # "none"

\* Once the chunk has ended at the hub and its route is gone (the operator's
\* stop, the hub's own delivery, another runner) or no lease of this runner is
\* left open, this runner sooner or later has no process and no environment
\* left for it, and never again.
EndedFreesEnvironment ==
    [](hub.end # "no" /\ (hub.route # "us" \/ Open = {}) => <>[](envs = 0 /\ procs = {}))

\* A chunk that runs at the hub routed here, with its environment still bound
\* and no escalation of this runner open.
Held ==
    /\ hub.route = "us" /\ status = "running" /\ envs > 0 /\ open_escalation = 0
    /\ latest_epoch < MaxEpoch /\ hub.epoch < MaxEpoch

\* Such a chunk is driven: some tick mints a lease for it, unless it stops
\* being one first.  The adopt, the reclaim and the spawn of an advanced node
\* leave no gap between them.
HeldIsDriven == Held ~> (~Held \/ Open # {})

\* The hub as FencedChunk has it; `other' is any other runner.
Fence == INSTANCE FencedChunk WITH
            Runners <- {"us", "other"}, Hub <- "hub", NoOne <- "none",
            epoch <- hub.epoch, owner <- hub.owner, holder <- hub.route,
            left <- {[epoch |-> e, by |-> "us"] : e \in {x \in Epochs : hub.landed[x] # "none"}},
            ended <- hub.end # "no"

\* What this runner does to the chunk at the hub, over lost answers, replayed
\* facts and completions, crashes and second claims, keeps the epoch fence.
KeepsFence == Fence!Spec

\* What the recovery page says of a worker that ended its session before a
\* crash: "exit-is-done, ADVANCE judging the completed work", so its lease does
\* not stay open for ever.  At a chunk its own completion ended, which keeps
\* its route, no envelope comes and every tick waits for one.
ExitSettles ==
    \A e \in Epochs : (hub.end # "no" /\ Exited(e)) ~> e \notin Open
=============================================================================
