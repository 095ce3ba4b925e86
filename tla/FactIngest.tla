----------------------------- MODULE FactIngest -----------------------------
(***************************************************************************)
(* One runner's outbound lane: the durable buffer its facts wait in, the   *)
(* drain that sends them once per tick, and the hub's ingest of them       *)
(* against the runner's high-water mark (runner/lifecycle/drain.py,        *)
(* runner/store/internal/outbound_store.py,                                *)
(* hub/domain/execution/facts.py, hub/store/internal/high_water.py).       *)
(*                                                                         *)
(* The drain is one FIFO: it batches the facts up to the next submission   *)
(* (a completion or a gate decision) into one request and sends each       *)
(* submission by itself, stopping the tick at the first request that does  *)
(* not come back.  A request may be lost, its answer may be lost, and a    *)
(* runner that gave up on one leaves a handler behind at the hub, so the   *)
(* next tick's push of the same facts overlaps it.                         *)
(*                                                                         *)
(* Whether the hub takes a fact is the route token's and the write fence's *)
(* verdict, which ChunkHub models; here it is either answer.               *)
(***************************************************************************)
EXTENDS Naturals, Sequences, FiniteSets

CONSTANTS
    Submissions,  \* the seqs that carry a completion or a decision
    Handlers,     \* hub request handlers; bound on overlapping requests
    DrainLimit,   \* DRAIN_LIMIT: facts one tick reads
    MaxSeq,       \* bound: facts the runner buffers
    MaxFaults,    \* bound: lost messages, timeouts, crashes
    NoHandler, NoCall, Idle, Unread

Seqs == 1 .. MaxSeq

Request == [run : SUBSET Seqs, by : Handlers \cup {NoHandler},
            answered : BOOLEAN, rejected : SUBSET Seqs]

Handler == [run : SUBSET Seqs, todo : SUBSET Seqs,
            mark : 0 .. MaxSeq \cup {Unread}, rejected : SUBSET Seqs]

ASSUME LaneAssumption ==
    /\ {MaxSeq, MaxFaults, DrainLimit} \subseteq Nat
    /\ DrainLimit > 0
    /\ Submissions \subseteq Seqs
    /\ NoHandler \notin Handlers
    /\ NoCall \notin Request
    /\ Idle \notin Handler
    /\ Unread \notin 0 .. MaxSeq

VARIABLES
    last_seq,   \* outbox_counters: the greatest seq issued
    rows,       \* outbound_buffer: the seqs retained
    acked,      \* seqs acked, pruned rows included
    slice,      \* what is left of the facts this tick read
    call,       \* the drain's outstanding request
    handlers,   \* the hub's request handlers
    mark,       \* the runner's high-water mark at the hub
    applied,    \* facts landed, in the order they landed
    decided,    \* facts the hub has landed or refused at least once
    submitted,  \* submissions that have reached their own routes
    faults

runnerVars == <<last_seq, rows, acked, slice, call>>
hubVars    == <<handlers, mark, applied, decided, submitted>>
vars == <<runnerVars, hubVars, faults>>

TypeOK ==
    /\ last_seq \in 0 .. MaxSeq
    /\ rows \subseteq 1 .. last_seq
    /\ acked \subseteq 1 .. last_seq
    /\ slice \subseteq rows
    /\ call \in Request \cup {NoCall}
    /\ handlers \in [Handlers -> Handler \cup {Idle}]
    /\ mark \in 0 .. MaxSeq
    /\ applied \in Seq(Seqs)
    /\ decided \subseteq Seqs
    /\ submitted \subseteq Submissions
    /\ faults \in 0 .. MaxFaults

Init ==
    /\ last_seq = 0
    /\ rows = {}
    /\ acked = {}
    /\ slice = {}
    /\ call = NoCall
    /\ handlers = [h \in Handlers |-> Idle]
    /\ mark = 0
    /\ applied = <<>>
    /\ decided = {}
    /\ submitted = {}
    /\ faults = 0

-----------------------------------------------------------------------------
(* The buffer *)

pending == rows \ acked

\* Mutant: the next seq is read off the retained rows.
enqueue_after_rows ==
    LET top == IF rows = {} THEN 0 ELSE CHOOSE s \in rows : \A t \in rows : t <= s
    IN  /\ top < MaxSeq
        /\ last_seq' = IF top + 1 > last_seq THEN top + 1 ELSE last_seq
        /\ rows' = rows \cup {top + 1}
        /\ acked' = acked \ {top + 1}
        /\ UNCHANGED <<slice, call, hubVars, faults>>

\* The lane's counter advances in the transaction that writes the row.
enqueue_outbound ==
    /\ last_seq < MaxSeq
    /\ last_seq' = last_seq + 1
    /\ rows' = rows \cup {last_seq + 1}
    /\ UNCHANGED <<acked, slice, call, hubVars, faults>>

\* Mutant: rows go by age alone.
prune_by_age(cutoff) ==
    /\ rows' = {s \in rows : s > cutoff}
    /\ UNCHANGED <<last_seq, acked, slice, call, hubVars, faults>>

\* Acked rows go once they are older than the retention window (those up to
\* `cutoff'), but only below the lowest pending seq.
prune_outbound(cutoff) ==
    LET old == {s \in rows \cap acked : s <= cutoff /\ \A p \in pending : s < p}
    IN  /\ old # {}
        /\ rows' = rows \ old
        /\ UNCHANGED <<last_seq, acked, slice, call, hubVars, faults>>

-----------------------------------------------------------------------------
(* The drain *)

\* The first DrainLimit pending facts by seq.
pending_outbound == {s \in pending : Cardinality({t \in pending : t < s}) < DrainLimit}

Tick ==
    /\ slice = {} /\ call = NoCall
    /\ pending # {}
    /\ slice' = pending_outbound
    /\ UNCHANGED <<last_seq, rows, acked, call, hubVars, faults>>

\* What the drain sends next: the facts ahead of the next submission, or that
\* submission alone when it is at the head.
next_run ==
    LET ahead == {s \in slice : \A t \in slice \cap Submissions : s < t}
    IN  IF ahead # {} THEN ahead
        ELSE {s \in slice : \A t \in slice : s <= t}

Send(h) ==
    /\ slice # {} /\ call = NoCall
    /\ handlers[h] = Idle
    /\ call' = [run |-> next_run, by |-> h, answered |-> FALSE, rejected |-> {}]
    /\ handlers' = [handlers EXCEPT ![h] =
          [run |-> next_run, todo |-> next_run, mark |-> Unread, rejected |-> {}]]
    /\ UNCHANGED <<last_seq, rows, acked, slice, mark, applied, decided,
                   submitted, faults>>

\* The request never reaches the hub.
SendLost ==
    /\ slice # {} /\ call = NoCall
    /\ faults < MaxFaults
    /\ faults' = faults + 1
    /\ call' = [run |-> next_run, by |-> NoHandler, answered |-> FALSE, rejected |-> {}]
    /\ UNCHANGED <<last_seq, rows, acked, slice, hubVars>>

\* Mutant: the drain goes on with the rest of its slice.
SkipRun ==
    /\ slice' = IF call = NoCall THEN {} ELSE slice \ call.run
    /\ call' = NoCall
    /\ UNCHANGED <<last_seq, rows, acked, hubVars>>

\* HubClientError: the run stays buffered and the tick's drain stops.
StopTick ==
    /\ slice' = {}
    /\ call' = NoCall
    /\ UNCHANGED <<last_seq, rows, acked, hubVars>>

TransportFailure ==
    /\ call # NoCall /\ call.by = NoHandler /\ ~call.answered
    /\ StopTick
    /\ UNCHANGED faults

\* The client gives up while the hub still works on the request, or the
\* runner dies: buffer and acks are durable, the tick is not.
TimeoutOrCrash ==
    /\ slice # {}
    /\ faults < MaxFaults
    /\ faults' = faults + 1
    /\ StopTick

\* Mutant: a run is acked as soon as it is sent.
AckSent ==
    /\ call # NoCall
    /\ acked' = acked \cup call.run
    /\ slice' = slice \ call.run
    /\ call' = NoCall
    /\ UNCHANGED <<last_seq, rows, hubVars, faults>>

\* Mutant: a rejected fact stays pending.
AckAccepted ==
    /\ call # NoCall /\ call.answered
    /\ acked' = acked \cup (call.run \ call.rejected)
    /\ slice' = slice \ call.run
    /\ call' = NoCall
    /\ UNCHANGED <<last_seq, rows, hubVars, faults>>

\* The answer has come: rejections are logged, then every seq of the run is
\* acked in one transaction, rejected ones included.
AckRun ==
    /\ call # NoCall /\ call.answered
    /\ acked' = acked \cup call.run
    /\ slice' = slice \ call.run
    /\ call' = NoCall
    /\ UNCHANGED <<last_seq, rows, hubVars, faults>>

-----------------------------------------------------------------------------
(* The hub: one push, one handler *)

Working(h) == handlers[h] # Idle /\ handlers[h].todo # {}

\* Mutant: the facts of a push in any order.
AnyFact(h, s) == s \in handlers[h].todo

\* The facts of a push are taken in seq order.
NextFact(h, s) ==
    /\ s \in handlers[h].todo
    /\ \A t \in handlers[h].todo : s <= t

runner_high_water(h) ==
    /\ Working(h)
    /\ handlers[h].run \cap Submissions = {}
    /\ handlers[h].mark = Unread
    /\ handlers' = [handlers EXCEPT ![h].mark = mark]
    /\ UNCHANGED <<runnerVars, mark, applied, decided, submitted, faults>>

\* At or below the mark this push last read or set: reported already applied.
AlreadyApplied(h, s) ==
    /\ Working(h) /\ handlers[h].mark # Unread /\ NextFact(h, s)
    /\ s <= handlers[h].mark
    /\ handlers' = [handlers EXCEPT ![h].todo = @ \ {s}]
    /\ UNCHANGED <<runnerVars, mark, applied, decided, submitted, faults>>

\* Mutant: the mark is written whatever it stands at.
apply_overwriting(h, s) ==
    /\ Working(h) /\ handlers[h].mark # Unread /\ NextFact(h, s)
    /\ s > handlers[h].mark
    /\ mark' = s
    /\ applied' = Append(applied, s)
    /\ decided' = decided \cup {s}
    /\ handlers' = [handlers EXCEPT ![h].mark = s, ![h].todo = @ \ {s}]
    /\ UNCHANGED <<runnerVars, submitted, faults>>

\* The fact lands in one unit with the mark's advance from the value this
\* push last read or set.
apply(h, s) ==
    /\ Working(h) /\ handlers[h].mark # Unread /\ NextFact(h, s)
    /\ s > handlers[h].mark
    /\ mark = handlers[h].mark
    /\ mark' = s
    /\ applied' = Append(applied, s)
    /\ decided' = decided \cup {s}
    /\ handlers' = [handlers EXCEPT ![h].mark = s, ![h].todo = @ \ {s}]
    /\ UNCHANGED <<runnerVars, submitted, faults>>

\* An unknown kind, the route token or the fence refuses the fact before the
\* mark is looked at; the mark does not move.
reject(h, s) ==
    /\ Working(h) /\ handlers[h].mark # Unread /\ NextFact(h, s)
    /\ s > handlers[h].mark
    /\ decided' = decided \cup {s}
    /\ handlers' = [handlers EXCEPT ![h].todo = @ \ {s}, ![h].rejected = @ \cup {s}]
    /\ UNCHANGED <<runnerVars, mark, applied, submitted, faults>>

\* HighWaterConflict: the unit rolls back and the mark is read again.
conflict(h) ==
    /\ Working(h) /\ handlers[h].mark # Unread
    /\ \E s \in Seqs : NextFact(h, s) /\ s > handlers[h].mark
    /\ mark # handlers[h].mark
    /\ handlers' = [handlers EXCEPT ![h].mark = mark]
    /\ UNCHANGED <<runnerVars, mark, applied, decided, submitted, faults>>

\* A completion or a decision at its own route: it does not touch the mark.
submit(h) ==
    /\ Working(h)
    /\ handlers[h].run \cap Submissions # {}
    /\ submitted' = submitted \cup handlers[h].run
    /\ handlers' = [handlers EXCEPT ![h].todo = {}]
    /\ UNCHANGED <<runnerVars, mark, applied, decided, faults>>

\* The answer goes to the runner, if it still waits for it.
answer(h) ==
    /\ handlers[h] # Idle /\ handlers[h].todo = {}
    /\ call' = IF call # NoCall /\ call.by = h
               THEN [call EXCEPT !.answered = TRUE, !.by = NoHandler,
                                 !.rejected = handlers[h].rejected]
               ELSE call
    /\ handlers' = [handlers EXCEPT ![h] = Idle]
    /\ UNCHANGED <<last_seq, rows, acked, slice, mark, applied, decided,
                   submitted, faults>>

\* The hub dies, refuses a retired runner, or its answer is lost: what the
\* handler's committed units wrote stays.
fail(h) ==
    /\ handlers[h] # Idle
    /\ faults < MaxFaults
    /\ faults' = faults + 1
    /\ call' = IF call # NoCall /\ call.by = h THEN [call EXCEPT !.by = NoHandler]
               ELSE call
    /\ handlers' = [handlers EXCEPT ![h] = Idle]
    /\ UNCHANGED <<last_seq, rows, acked, slice, mark, applied, decided,
                   submitted>>

-----------------------------------------------------------------------------
Buffer == enqueue_outbound \/ \E cutoff \in Seqs : prune_outbound(cutoff)

Drain == Tick \/ (\E h \in Handlers : Send(h)) \/ AckRun \/ TransportFailure

Faults == SendLost \/ TimeoutOrCrash \/ \E h \in Handlers : fail(h)

Handle(h) ==
    \/ runner_high_water(h)
    \/ \E s \in Seqs : AlreadyApplied(h, s) \/ apply(h, s) \/ reject(h, s)
    \/ conflict(h)
    \/ submit(h)
    \/ answer(h)

Next == Buffer \/ Drain \/ Faults \/ \E h \in Handlers : Handle(h)

Spec == Init /\ [][Next]_vars

(* The runner's loop ticks for ever and the hub serves every request it has *)
(* taken; nothing obliges a fact to be buffered, pruned or lost.            *)
FairSpec == Spec /\ WF_vars(Drain) /\ \A h \in Handlers : WF_vars(Handle(h))

-----------------------------------------------------------------------------
(* Properties *)

AppliedIndex == 1 .. Len(applied)

(* No fact lands twice and facts land in seq order, whichever overlapping   *)
(* push landed them; the mark is the last one that did.                     *)
AppliedInOrder ==
    /\ \A i, j \in AppliedIndex : i < j => applied[i] < applied[j]
    /\ mark = IF applied = <<>> THEN 0 ELSE applied[Len(applied)]

(* Nothing is skipped: a fact at or below the mark, which every later push   *)
(* calls already applied, has itself been landed or refused.                *)
MarkCoversDecided ==
    \A s \in Seqs \ Submissions : s <= mark => s \in decided

(* Nothing is lost: a fact the runner acked, and so never sends again, has  *)
(* reached the hub and been decided there.                                  *)
AckedDecided == acked \subseteq decided \cup submitted

(* "One FIFO drain, so a lease fact always precedes the completion minted   *)
(* under it": a submission reaches the hub only after every earlier fact.   *)
SubmissionFollowsFacts ==
    \A s \in submitted : 1 .. (s - 1) \subseteq decided \cup submitted

(* "A pruned row's seq is never issued again": a new row is above every seq *)
(* acked before it and above the hub's mark, so that it is never taken for  *)
(* one already applied.                                                     *)
SeqNeverReissued ==
    [][ \A s \in rows' \ rows : s > mark /\ \A t \in acked : t < s ]_vars

(* Every buffered fact is delivered once the faults stop: the drain never   *)
(* wedges behind a fact, a stale handler or a rejection.                    *)
EveryFactAcked == \A s \in Seqs : s \in rows ~> s \in acked
=============================================================================
