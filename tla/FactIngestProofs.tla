-------------------------- MODULE FactIngestProofs --------------------------
(***************************************************************************)
(* The outbound lane for every number of facts, handlers and faults: what  *)
(* the runner acks has been decided at the hub, in order, once, and a      *)
(* submission only after everything buffered before it.                    *)
(*                                                                         *)
(* The argument.  The seqs are issued densely and every one of them is     *)
(* retained or acked (Dense); the drain reads, sends and acks from the     *)
(* bottom, so what is acked is a prefix of what was issued, and with the   *)
(* slice, the outstanding run or any handler's run added it still is one   *)
(* (AckedPrefix, SlicePrefix, CallPrefix, RunPrefix).  A handler works its *)
(* run off from the bottom too, so what lies below its next fact is acked  *)
(* or decided: that is what allows the mark to move to the fact, and the   *)
(* submission to be taken.  The runs of overlapping handlers stay prefixes *)
(* however stale they are, because acks are never withdrawn.               *)
(***************************************************************************)
EXTENDS FactIngest, FiniteSetTheorems, TLAPS

Reached == decided \cup submitted

\* A run holds no submission, or is one.
Uniform(run) == run \cap Submissions = {} \/ \A s, t \in run : s = t

\* `upper' on top of what is acked leaves no hole.
OnAcked(upper) == \A s \in upper : \A t \in 1 .. s : t \in acked \cup upper

Dense == 1 .. last_seq \subseteq rows \cup acked

AckedPrefix == \A s \in acked : \A t \in 1 .. s : t \in acked

SlicePrefix == slice \cap acked = {} /\ OnAcked(slice)

\* The outstanding request: a run off the bottom of the slice, the very one
\* its handler works on; once it is answered all of it has reached the hub.
CallSound ==
    call # NoCall =>
      /\ call.run \subseteq slice /\ OnAcked(call.run)
      /\ call.answered => call.run \subseteq Reached
      /\ call.by \in Handlers =>
           handlers[call.by] # Idle /\ handlers[call.by].run = call.run

\* A handler's run, however old its push is.
HandlerSound(h) ==
    handlers[h] # Idle =>
      /\ handlers[h].run \subseteq 1 .. last_seq
      /\ OnAcked(handlers[h].run)
      /\ Uniform(handlers[h].run)
      /\ handlers[h].todo \subseteq handlers[h].run
      /\ handlers[h].run \ handlers[h].todo \subseteq Reached
      /\ handlers[h].mark # Unread =>
           /\ handlers[h].mark <= mark
           /\ handlers[h].run \cap Submissions = {}

MarkIssued == mark <= last_seq

IInv ==
    /\ TypeOK
    /\ Dense
    /\ AckedPrefix
    /\ SlicePrefix
    /\ CallSound
    /\ \A h \in Handlers : HandlerSound(h)
    /\ MarkIssued
    /\ AppliedInOrder
    /\ MarkCoversDecided
    /\ AckedDecided
    /\ SubmissionFollowsFacts

-----------------------------------------------------------------------------
(* The operators *)

(* What the drain sends next is a bottom piece of its slice, and holds no   *)
(* submission or is one.                                                    *)
LEMMA NextRun ==
    ASSUME slice \subseteq Nat
    PROVE  /\ next_run \subseteq slice
           /\ \A s \in next_run : \A t \in slice : t < s => t \in next_run
           /\ Uniform(next_run)
<1> DEFINE ahead == {s \in slice : \A t \in slice \cap Submissions : s < t}
<1>1. CASE ahead # {}
  <2>1. next_run = ahead
    BY <1>1 DEF next_run
  <2>2. ASSUME NEW s \in ahead, NEW t \in slice, t < s PROVE t \in ahead
    BY <2>2
  <2>3. ASSUME NEW s \in ahead, s \in Submissions PROVE FALSE
    <3>1. s \in slice \cap Submissions /\ s \in Nat
      BY <2>3
    <3>2. s < s
      BY <3>1
    <3> QED BY <3>1, <3>2
  <2> QED BY <2>1, <2>2, <2>3 DEF Uniform
<1>2. CASE ahead = {}
  <2>1. next_run = {s \in slice : \A t \in slice : s <= t}
    BY <1>2 DEF next_run
  <2> QED BY <2>1 DEF Uniform
<1> QED BY <1>1, <1>2

(* One tick reads a bottom piece of what is pending.                        *)
LEMMA PendingOutbound ==
    ASSUME TypeOK
    PROVE  /\ pending_outbound \subseteq pending
           /\ \A s \in pending_outbound : \A t \in pending :
                t < s => t \in pending_outbound
<1>1. pending_outbound \subseteq pending
  BY DEF pending_outbound
<1>2. ASSUME NEW s \in pending_outbound, NEW t \in pending, t < s
      PROVE  t \in pending_outbound
  <2> DEFINE Below(x) == {u \in pending : u < x}
  <2>1. last_seq \in Nat /\ pending \subseteq 1 .. last_seq
    BY LaneAssumption DEF TypeOK, pending, Seqs
  <2>2. IsFiniteSet(1 .. last_seq)
    BY <2>1, FS_Interval
  <2>3. Below(s) \subseteq 1 .. last_seq /\ Below(t) \subseteq Below(s)
    <3>1. s \in Nat /\ t \in Nat /\ \A u \in pending : u \in Nat
      BY <1>1, <2>1
    <3>2. ASSUME NEW u \in Below(t) PROVE u \in Below(s)
      BY <1>2, <3>1
    <3> QED BY <2>1, <3>2
  <2>4. IsFiniteSet(Below(s))
    BY <2>2, <2>3, FS_Subset
  <2>5. /\ IsFiniteSet(Below(t))
        /\ Cardinality(Below(t)) <= Cardinality(Below(s))
    BY <2>3, <2>4, FS_Subset
  <2>6. Cardinality(Below(s)) < DrainLimit
    BY DEF pending_outbound
  <2>7. /\ Cardinality(Below(s)) \in Nat
        /\ Cardinality(Below(t)) \in Nat
        /\ DrainLimit \in Nat
    BY <2>4, <2>5, FS_CardinalityType, LaneAssumption
  <2>8. Cardinality(Below(t)) < DrainLimit
    BY <2>5, <2>6, <2>7
  <2> QED BY <2>8 DEF pending_outbound
<1> QED BY <1>1, <1>2

-----------------------------------------------------------------------------
(* The inductive invariant *)

(* An empty lane and an idle hub satisfy it.                                *)
LEMMA InitInv == Init => IInv
<1> SUFFICES ASSUME Init PROVE IInv
  OBVIOUS
<1>1. TypeOK
  BY LaneAssumption DEF Init, TypeOK, Seqs
<1>2. CallSound /\ \A h \in Handlers : HandlerSound(h)
  BY DEF Init, CallSound, HandlerSound
<1>3. AppliedInOrder
  BY DEF Init, AppliedInOrder, AppliedIndex
<1> QED BY <1>1, <1>2, <1>3 DEF Init, IInv, Dense, AckedPrefix, SlicePrefix,
         OnAcked, MarkIssued, MarkCoversDecided, AckedDecided,
         SubmissionFollowsFacts, Seqs

(* The state of the hub and its promises carry over a step that leaves it   *)
(* alone and only lets the lane grow.                                       *)
LEMMA HubUnchanged ==
    ASSUME IInv, UNCHANGED <<mark, applied, decided, submitted>>,
           last_seq' \in Nat, last_seq <= last_seq'
    PROVE  /\ MarkIssued' /\ AppliedInOrder' /\ MarkCoversDecided'
           /\ SubmissionFollowsFacts'
<1>1. MarkIssued'
  BY DEF IInv, TypeOK, MarkIssued
<1>2. AppliedInOrder'
  BY DEF IInv, AppliedInOrder, AppliedIndex
<1>3. MarkCoversDecided' /\ SubmissionFollowsFacts'
  BY DEF IInv, MarkCoversDecided, SubmissionFollowsFacts
<1> QED BY <1>1, <1>2, <1>3

(* So do the handlers' runs.                                                *)
LEMMA HandlersUnchanged ==
    ASSUME IInv, UNCHANGED <<handlers, mark, applied, decided, submitted>>,
           last_seq' \in Nat, last_seq <= last_seq', acked \subseteq acked'
    PROVE  \A h \in Handlers : HandlerSound(h)'
<1> SUFFICES ASSUME NEW h \in Handlers, handlers[h] # Idle
             PROVE  HandlerSound(h)'
  BY DEF HandlerSound
<1>1. HandlerSound(h)
  BY DEF IInv
<1>2. OnAcked(handlers[h].run)'
  BY <1>1 DEF HandlerSound, OnAcked
<1>3. last_seq \in Nat
  BY LaneAssumption DEF IInv, TypeOK
<1> QED BY <1>1, <1>2, <1>3 DEF HandlerSound, Uniform, Reached

(* The buffer: a new fact goes on top, a pruned one was acked.              *)
LEMMA BufferInv == IInv /\ Buffer => IInv'
<1> SUFFICES ASSUME IInv, Buffer PROVE IInv'
  OBVIOUS
<1> USE LaneAssumption
<1>1. /\ UNCHANGED <<acked, slice, call, handlers, mark, applied, decided,
                     submitted, faults>>
      /\ last_seq' \in 0 .. MaxSeq /\ last_seq <= last_seq'
  BY DEF Buffer, enqueue_outbound, prune_outbound, hubVars, IInv, TypeOK
<1>2. rows' \subseteq 1 .. last_seq' /\ slice' \subseteq rows' /\ Dense'
  <2>1. CASE enqueue_outbound
    <3>1. /\ last_seq \in Nat /\ last_seq' = last_seq + 1
          /\ rows' = rows \cup {last_seq + 1} /\ slice' = slice /\ acked' = acked
          /\ rows \subseteq 1 .. last_seq /\ slice \subseteq rows
          /\ 1 .. last_seq \subseteq rows \cup acked
      BY <2>1 DEF enqueue_outbound, hubVars, IInv, TypeOK, Dense
    <3>2. 1 .. (last_seq + 1) = 1 .. last_seq \cup {last_seq + 1}
      BY <3>1
    <3> QED BY <3>1, <3>2 DEF Dense
  <2>2. ASSUME NEW cutoff \in Seqs, prune_outbound(cutoff)
        PROVE  rows' \subseteq 1 .. last_seq' /\ slice' \subseteq rows' /\ Dense'
    BY <2>2 DEF prune_outbound, hubVars, IInv, TypeOK, Dense, SlicePrefix
  <2> QED BY <2>1, <2>2 DEF Buffer
<1>3. TypeOK'
  BY <1>1, <1>2 DEF IInv, TypeOK
<1>4. AckedPrefix' /\ SlicePrefix' /\ AckedDecided'
  BY <1>1 DEF IInv, AckedPrefix, SlicePrefix, OnAcked, AckedDecided
<1>5. CallSound'
  BY <1>1 DEF IInv, CallSound, OnAcked, Reached
<1>6. \A h \in Handlers : HandlerSound(h)'
  BY <1>1, HandlersUnchanged
<1>7. MarkIssued' /\ AppliedInOrder' /\ MarkCoversDecided' /\ SubmissionFollowsFacts'
  BY <1>1, HubUnchanged
<1> QED BY <1>2, <1>3, <1>4, <1>5, <1>6, <1>7 DEF IInv

(* The tick's read: the slice is a bottom piece of what is pending.         *)
LEMMA TickInv == IInv /\ Tick => IInv'
<1> SUFFICES ASSUME IInv, Tick PROVE IInv'
  OBVIOUS
<1> USE LaneAssumption
<1>1. /\ UNCHANGED <<last_seq, rows, acked, call, handlers, mark, applied,
                     decided, submitted, faults>>
      /\ call = NoCall /\ slice' = pending_outbound
  BY DEF Tick, hubVars
<1>2. /\ pending_outbound \subseteq pending
      /\ \A s \in pending_outbound : \A t \in pending : t < s => t \in pending_outbound
  BY PendingOutbound DEF IInv
<1>3. TypeOK'
  BY <1>1, <1>2 DEF IInv, TypeOK, pending
<1>4. SlicePrefix'
  <2>1. slice' \cap acked' = {}
    BY <1>1, <1>2 DEF pending
  <2>2. ASSUME NEW s \in slice', NEW t \in 1 .. s PROVE t \in acked' \cup slice'
    <3>1. s \in 1 .. last_seq /\ t \in 1 .. last_seq /\ last_seq \in Nat
      BY <1>1, <1>2 DEF IInv, TypeOK, pending
    <3>2. t \in acked \/ t \in pending
      BY <3>1 DEF IInv, Dense, pending
    <3>3. t = s \/ t < s
      BY <3>1
    <3> QED BY <1>1, <1>2, <3>2, <3>3
  <2> QED BY <2>1, <2>2 DEF SlicePrefix, OnAcked
<1>5. Dense' /\ AckedPrefix' /\ AckedDecided' /\ CallSound'
  BY <1>1 DEF IInv, AckedPrefix, Dense, AckedDecided, CallSound
<1>6. last_seq' \in Nat /\ last_seq <= last_seq' /\ acked \subseteq acked'
  BY <1>1 DEF IInv, TypeOK
<1>7. \A h \in Handlers : HandlerSound(h)'
  BY <1>1, <1>6, HandlersUnchanged
<1>8. MarkIssued' /\ AppliedInOrder' /\ MarkCoversDecided' /\ SubmissionFollowsFacts'
  BY <1>1, <1>6, HubUnchanged
<1> QED BY <1>3, <1>4, <1>5, <1>7, <1>8 DEF IInv

(* What is sent is a bottom piece of the slice, so that nothing is missing  *)
(* between it and what is acked.                                            *)
LEMMA SentRun ==
    ASSUME IInv
    PROVE  /\ next_run \subseteq slice
           /\ next_run \subseteq 1 .. last_seq
           /\ next_run \subseteq Seqs
           /\ OnAcked(next_run)
           /\ Uniform(next_run)
<1> USE LaneAssumption
<1>1. slice \subseteq Nat /\ slice \subseteq 1 .. last_seq /\ slice \subseteq Seqs
  BY DEF IInv, TypeOK, Seqs
<1>2. /\ next_run \subseteq slice
      /\ \A s \in next_run : \A t \in slice : t < s => t \in next_run
      /\ Uniform(next_run)
  BY <1>1, NextRun
<1>3. ASSUME NEW s \in next_run, NEW t \in 1 .. s
      PROVE  t \in acked \cup next_run
  <2>1. t \in acked \cup slice
    BY <1>2 DEF IInv, SlicePrefix, OnAcked
  <2>2. t = s \/ t < s
    BY <1>1, <1>2
  <2> QED BY <1>2, <2>1, <2>2
<1> QED BY <1>1, <1>2, <1>3 DEF OnAcked

(* A request taken by a handler: the handler starts on the very run.        *)
LEMMA SendInv ==
    ASSUME IInv, NEW h \in Handlers, Send(h)
    PROVE  IInv'
<1> USE LaneAssumption
<1>1. /\ UNCHANGED <<last_seq, rows, acked, slice, mark, applied, decided,
                     submitted, faults>>
      /\ handlers[h] = Idle
      /\ call' = [run |-> next_run, by |-> h, answered |-> FALSE, rejected |-> {}]
      /\ handlers' = [handlers EXCEPT ![h] =
            [run |-> next_run, todo |-> next_run, mark |-> Unread, rejected |-> {}]]
  BY DEF Send
<1>2. /\ next_run \subseteq slice /\ next_run \subseteq 1 .. last_seq
      /\ next_run \subseteq Seqs
      /\ OnAcked(next_run) /\ Uniform(next_run)
  BY SentRun
<1>3. /\ call' \in Request
      /\ [run |-> next_run, todo |-> next_run, mark |-> Unread, rejected |-> {}]
           \in Handler
  BY <1>1, <1>2 DEF Request, Handler
<1>4. TypeOK'
  BY <1>1, <1>3 DEF IInv, TypeOK
<1>5. OnAcked(call.run)'
  BY <1>1, <1>2 DEF OnAcked
<1>6. handlers'[h] = [run |-> next_run, todo |-> next_run, mark |-> Unread, rejected |-> {}]
  BY <1>1 DEF IInv, TypeOK
<1>7. CallSound'
  <2>1. handlers'[h] # Idle /\ handlers'[h].run = next_run
    BY <1>3, <1>6
  <2> QED BY <1>1, <1>2, <1>5, <2>1 DEF CallSound
<1>8. ASSUME NEW g \in Handlers PROVE HandlerSound(g)'
  <2>1. CASE g = h
    <3>1. /\ handlers'[g].run = next_run /\ handlers'[g].todo = next_run
          /\ handlers'[g].mark = Unread
      BY <1>6, <2>1
    <3>2. OnAcked(handlers[g].run)'
      BY <1>1, <1>2, <3>1 DEF OnAcked
    <3>3. Uniform(handlers[g].run)'
      BY <1>2, <3>1 DEF Uniform
    <3> QED BY <1>1, <1>2, <3>1, <3>2, <3>3 DEF HandlerSound
  <2>2. CASE g # h
    <3>1. handlers'[g] = handlers[g]
      BY <1>1, <2>2 DEF IInv, TypeOK
    <3> QED BY <1>1, <3>1 DEF IInv, HandlerSound, OnAcked, Uniform, Reached
  <2> QED BY <2>1, <2>2
<1>9. Dense' /\ AckedPrefix' /\ SlicePrefix' /\ AckedDecided'
  BY <1>1 DEF IInv, AckedPrefix, Dense, AckedDecided, SlicePrefix, OnAcked
<1>10. MarkIssued' /\ AppliedInOrder' /\ MarkCoversDecided' /\ SubmissionFollowsFacts'
  <2>1. last_seq' \in Nat /\ last_seq <= last_seq'
    BY <1>1 DEF IInv, TypeOK
  <2> QED BY <1>1, <2>1, HubUnchanged
<1> QED BY <1>4, <1>7, <1>8, <1>9, <1>10 DEF IInv

(* A run that gets no further, for whatever reason, is dropped with its     *)
(* slice; the buffer and the acks are as they were.                         *)
LEMMA StopInv ==
    ASSUME IInv, StopTick, faults' \in 0 .. MaxFaults
    PROVE  IInv'
<1> USE LaneAssumption
<1>1. /\ slice' = {} /\ call' = NoCall
      /\ UNCHANGED <<last_seq, rows, acked, handlers, mark, applied, decided, submitted>>
  BY DEF StopTick, hubVars
<1>2. TypeOK'
  BY <1>1 DEF IInv, TypeOK
<1>3. Dense' /\ AckedPrefix' /\ SlicePrefix' /\ AckedDecided' /\ CallSound'
  BY <1>1 DEF IInv, AckedPrefix, Dense, AckedDecided, SlicePrefix, OnAcked, CallSound
<1>4. last_seq' \in Nat /\ last_seq <= last_seq' /\ acked \subseteq acked'
  BY <1>1 DEF IInv, TypeOK
<1>5. \A h \in Handlers : HandlerSound(h)'
  BY <1>1, <1>4, HandlersUnchanged
<1>6. MarkIssued' /\ AppliedInOrder' /\ MarkCoversDecided' /\ SubmissionFollowsFacts'
  BY <1>1, <1>4, HubUnchanged
<1> QED BY <1>2, <1>3, <1>5, <1>6 DEF IInv

(* A request that never reaches the hub.                                    *)
LEMMA SendLostInv == IInv /\ SendLost => IInv'
<1> SUFFICES ASSUME IInv, SendLost PROVE IInv'
  OBVIOUS
<1> USE LaneAssumption
<1>1. /\ call' = [run |-> next_run, by |-> NoHandler, answered |-> FALSE, rejected |-> {}]
      /\ faults < MaxFaults /\ faults' = faults + 1
      /\ UNCHANGED <<last_seq, rows, acked, slice, handlers, mark, applied,
                     decided, submitted>>
  BY DEF SendLost, hubVars
<1>2. next_run \subseteq slice /\ next_run \subseteq Seqs /\ OnAcked(next_run)
  BY SentRun
<1>3. call' \in Request /\ faults' \in 0 .. MaxFaults
  BY <1>1, <1>2 DEF Request, IInv, TypeOK
<1>4. TypeOK'
  BY <1>1, <1>3 DEF IInv, TypeOK
<1>5. CallSound'
  <2>1. /\ call'.run = next_run /\ ~call'.answered
        /\ call'.by = NoHandler
    BY <1>1
  <2> QED BY <1>1, <1>2, <2>1 DEF CallSound, OnAcked
<1>6. Dense' /\ AckedPrefix' /\ SlicePrefix' /\ AckedDecided'
  BY <1>1 DEF IInv, AckedPrefix, Dense, AckedDecided, SlicePrefix, OnAcked
<1>7. last_seq' \in Nat /\ last_seq <= last_seq' /\ acked \subseteq acked'
  BY <1>1 DEF IInv, TypeOK
<1>8. \A h \in Handlers : HandlerSound(h)'
  BY <1>1, <1>7, HandlersUnchanged
<1>9. MarkIssued' /\ AppliedInOrder' /\ MarkCoversDecided' /\ SubmissionFollowsFacts'
  BY <1>1, <1>7, HubUnchanged
<1> QED BY <1>4, <1>5, <1>6, <1>8, <1>9 DEF IInv

(* The ack of an answered run: the acked prefix grows by the run, all of    *)
(* which has reached the hub.                                               *)
LEMMA AckRunInv == IInv /\ AckRun => IInv'
<1> SUFFICES ASSUME IInv, AckRun PROVE IInv'
  OBVIOUS
<1> USE LaneAssumption
<1>1. /\ call # NoCall /\ call.answered
      /\ acked' = acked \cup call.run /\ slice' = slice \ call.run /\ call' = NoCall
      /\ UNCHANGED <<last_seq, rows, handlers, mark, applied, decided, submitted, faults>>
  BY DEF AckRun, hubVars
<1>2. /\ call.run \subseteq slice /\ OnAcked(call.run) /\ call.run \subseteq Reached
  BY <1>1 DEF IInv, CallSound
<1>3. TypeOK'
  BY <1>1, <1>2 DEF IInv, TypeOK
<1>4. AckedPrefix' /\ SlicePrefix'
  <2>1. ASSUME NEW s \in acked', NEW t \in 1 .. s PROVE t \in acked'
    BY <1>1, <1>2 DEF IInv, AckedPrefix, OnAcked
  <2>2. ASSUME NEW s \in slice', NEW t \in 1 .. s PROVE t \in acked' \cup slice'
    BY <1>1, <1>2 DEF IInv, SlicePrefix, OnAcked
  <2>3. slice' \cap acked' = {}
    BY <1>1 DEF IInv, SlicePrefix
  <2> QED BY <2>1, <2>2, <2>3 DEF AckedPrefix, SlicePrefix, OnAcked
<1>5. Dense' /\ AckedDecided' /\ CallSound'
  BY <1>1, <1>2 DEF IInv, Dense, AckedDecided, CallSound, Reached
<1>6. last_seq' \in Nat /\ last_seq <= last_seq' /\ acked \subseteq acked'
  BY <1>1 DEF IInv, TypeOK
<1>7. \A h \in Handlers : HandlerSound(h)'
  BY <1>1, <1>6, HandlersUnchanged
<1>8. MarkIssued' /\ AppliedInOrder' /\ MarkCoversDecided' /\ SubmissionFollowsFacts'
  BY <1>1, <1>6, HubUnchanged
<1> QED BY <1>3, <1>4, <1>5, <1>7, <1>8 DEF IInv

(* The end of a handler, answered or not: the runner's call stays sound     *)
(* because an answered handler has worked its whole run off.                *)
LEMMA HandlerEnds ==
    ASSUME IInv, NEW h \in Handlers, answer(h) \/ fail(h)
    PROVE  IInv'
<1> USE LaneAssumption
<1>1. /\ UNCHANGED <<last_seq, rows, acked, slice, mark, applied, decided, submitted>>
      /\ faults' \in 0 .. MaxFaults
      /\ handlers[h] # Idle
      /\ handlers' = [handlers EXCEPT ![h] = Idle]
  BY DEF answer, fail, IInv, TypeOK
<1>2. /\ handlers[h] \in Handler /\ HandlerSound(h)
      /\ handlers[h].rejected \subseteq Seqs
  BY <1>1 DEF IInv, TypeOK, Handler
<1>3. call' \in Request \cup {NoCall} /\ CallSound'
  <2>1. CASE call = NoCall \/ call.by # h
    <3>1. call' = call
      BY <2>1 DEF answer, fail
    <3>2. ASSUME call # NoCall, call.by \in Handlers
          PROVE  handlers'[call.by] = handlers[call.by]
      BY <1>1, <2>1, <3>2 DEF IInv, TypeOK
    <3> QED BY <1>1, <3>1, <3>2 DEF IInv, TypeOK, CallSound, OnAcked, Reached
  <2>2. CASE call # NoCall /\ call.by = h
    <3>1. /\ call \in Request /\ call.by = h /\ handlers[h].run = call.run
          /\ call.run \subseteq slice /\ OnAcked(call.run)
          /\ call.answered => call.run \subseteq Reached
      BY <2>2 DEF IInv, TypeOK, CallSound
    <3>2. /\ call' \in Request /\ call'.run = call.run /\ call'.by = NoHandler
          /\ call'.answered => handlers[h].todo = {} \/ call.answered
      <4>1. CASE answer(h)
        BY <1>2, <2>2, <3>1, <4>1 DEF answer, Request
      <4>2. CASE fail(h)
        BY <2>2, <3>1, <4>2 DEF fail, Request
      <4> QED BY <4>1, <4>2
    <3>3. call'.answered => call.run \subseteq Reached
      BY <1>1, <1>2, <3>1, <3>2 DEF HandlerSound
    <3> QED BY <1>1, <3>1, <3>2, <3>3 DEF CallSound, OnAcked, Reached
  <2> QED BY <2>1, <2>2
<1>4. TypeOK'
  BY <1>1, <1>3 DEF IInv, TypeOK
<1>5. ASSUME NEW g \in Handlers PROVE HandlerSound(g)'
  <2>1. g # h => handlers'[g] = handlers[g]
    BY <1>1 DEF IInv, TypeOK
  <2>2. g = h => handlers'[g] = Idle
    BY <1>1 DEF IInv, TypeOK
  <2> QED BY <1>1, <2>1, <2>2 DEF IInv, HandlerSound, OnAcked, Uniform, Reached
<1>6. Dense' /\ AckedPrefix' /\ SlicePrefix' /\ AckedDecided'
  BY <1>1 DEF IInv, AckedPrefix, Dense, AckedDecided, SlicePrefix, OnAcked
<1>7. MarkIssued' /\ AppliedInOrder' /\ MarkCoversDecided' /\ SubmissionFollowsFacts'
  <2>1. last_seq' \in Nat /\ last_seq <= last_seq'
    BY <1>1 DEF IInv, TypeOK
  <2> QED BY <1>1, <2>1, HubUnchanged
<1> QED BY <1>3, <1>4, <1>5, <1>6, <1>7 DEF IInv

(* A handler's step on its own run.  It leaves the lane alone; `todo' only  *)
(* loses what has reached the hub, and the mark it holds is never ahead of  *)
(* the hub's.                                                               *)
LEMMA HandlerWorks ==
    ASSUME IInv, NEW h \in Handlers, handlers[h] # Idle,
           UNCHANGED runnerVars, UNCHANGED faults,
           NEW new \in Handler, handlers' = [handlers EXCEPT ![h] = new],
           new.run = handlers[h].run, new.todo \subseteq new.run,
           new.run \ new.todo \subseteq decided' \cup submitted',
           new.mark # Unread => new.mark <= mark' /\ new.run \cap Submissions = {},
           mark' \in 0 .. MaxSeq, mark <= mark', mark' <= last_seq,
           decided \subseteq decided', submitted \subseteq submitted'
    PROVE  /\ Dense' /\ AckedPrefix' /\ SlicePrefix' /\ CallSound' /\ MarkIssued'
           /\ AckedDecided' /\ \A g \in Handlers : HandlerSound(g)'
           /\ handlers' \in [Handlers -> Handler \cup {Idle}]
<1> USE LaneAssumption
<1>1. UNCHANGED <<last_seq, rows, acked, slice, call>>
  BY DEF runnerVars
<1>2. /\ handlers'[h] = new /\ new # Idle
      /\ \A g \in Handlers \ {h} : handlers'[g] = handlers[g]
      /\ handlers' \in [Handlers -> Handler \cup {Idle}]
  BY DEF IInv, TypeOK
<1>3. Dense' /\ AckedPrefix' /\ SlicePrefix' /\ AckedDecided'
  BY <1>1 DEF IInv, AckedPrefix, Dense, AckedDecided, SlicePrefix, OnAcked
<1>4. MarkIssued'
  BY <1>1 DEF MarkIssued
<1>5. CallSound'
  <2>1. ASSUME call # NoCall, call.by \in Handlers
        PROVE  handlers'[call.by] # Idle /\ handlers'[call.by].run = call.run
    BY <1>2, <2>1 DEF IInv, CallSound
  <2> QED BY <1>1, <2>1 DEF IInv, CallSound, OnAcked, Reached
<1>6. ASSUME NEW g \in Handlers PROVE HandlerSound(g)'
  <2>1. CASE g = h
    <3>1. HandlerSound(h)
      BY DEF IInv
    <3> QED BY <1>1, <1>2, <2>1, <3>1 DEF HandlerSound, OnAcked, Uniform, Reached
  <2>2. CASE g # h
    <3>1. HandlerSound(g) /\ handlers'[g] = handlers[g]
      BY <1>2, <2>2 DEF IInv
    <3>2. ASSUME handlers[g] # Idle, handlers[g].mark # Unread
          PROVE  handlers[g].mark <= mark'
      <4>1. handlers[g].mark \in Nat /\ mark \in Nat /\ handlers[g].mark <= mark
        BY <3>1, <3>2 DEF HandlerSound, IInv, TypeOK, Handler
      <4> QED BY <4>1
    <3> QED BY <1>1, <3>1, <3>2 DEF HandlerSound, OnAcked, Uniform, Reached
  <2> QED BY <2>1, <2>2
<1> QED BY <1>2, <1>3, <1>4, <1>5, <1>6

(* What a working handler has before it.                                    *)
LEMMA WorkingRun ==
    ASSUME IInv, NEW h \in Handlers, handlers[h] # Idle
    PROVE  /\ handlers[h] \in Handler /\ HandlerSound(h)
           /\ handlers[h].run \subseteq Seqs /\ handlers[h].todo \subseteq Seqs
           /\ handlers[h].mark # Unread => handlers[h].mark \in 0 .. MaxSeq
BY LaneAssumption DEF IInv, TypeOK, Handler

(* Below a handler's next fact everything has reached the hub: its run      *)
(* stands on what is acked, and the run itself is worked off upwards.       *)
LEMMA BelowNext ==
    ASSUME IInv, NEW h \in Handlers, handlers[h] # Idle,
           NEW s \in handlers[h].todo, \A t \in handlers[h].todo : s <= t
    PROVE  1 .. (s - 1) \subseteq Reached
<1> USE LaneAssumption
<1>1. HandlerSound(h) /\ handlers[h].todo \subseteq Seqs
  BY WorkingRun
<1>2. ASSUME NEW t \in 1 .. (s - 1) PROVE t \in Reached
  <2>1. s \in Nat /\ t \in 1 .. s /\ t < s
    BY <1>1 DEF Seqs
  <2>2. t \in acked \cup handlers[h].run
    BY <1>1, <2>1 DEF HandlerSound, OnAcked
  <2>3. t \notin handlers[h].todo
    BY <1>1, <2>1 DEF Seqs
  <2> QED BY <1>1, <2>2, <2>3 DEF HandlerSound, IInv, AckedDecided, Reached
<1> QED BY <1>2

(* Reading the mark, first or again after a conflict, and finding a fact    *)
(* already applied: the mark a handler holds never passes the hub's, and a  *)
(* fact at or below the mark has been decided.                              *)
LEMMA ReadInv ==
    ASSUME IInv, NEW h \in Handlers,
           runner_high_water(h) \/ conflict(h) \/ \E s \in Seqs : AlreadyApplied(h, s)
    PROVE  IInv'
<1> USE LaneAssumption
<1>1. /\ handlers[h] # Idle
      /\ UNCHANGED <<runnerVars, mark, applied, decided, submitted, faults>>
  BY DEF runner_high_water, conflict, AlreadyApplied, Working
<1>2. /\ handlers[h] \in Handler /\ HandlerSound(h)
      /\ handlers[h].run \subseteq Seqs /\ handlers[h].todo \subseteq Seqs
      /\ handlers[h].mark # Unread => handlers[h].mark \in 0 .. MaxSeq
  BY <1>1, WorkingRun
<1>3. \E new \in Handler :
        /\ handlers' = [handlers EXCEPT ![h] = new]
        /\ new.run = handlers[h].run /\ new.todo \subseteq new.run
        /\ new.run \ new.todo \subseteq decided' \cup submitted'
        /\ new.mark # Unread => new.mark <= mark' /\ new.run \cap Submissions = {}
  <2>1. CASE runner_high_water(h) \/ conflict(h)
    <3> DEFINE new == [handlers[h] EXCEPT !.mark = mark]
    <3>1. /\ handlers' = [handlers EXCEPT ![h] = new]
          /\ handlers[h].run \cap Submissions = {}
      BY <1>2, <2>1 DEF runner_high_water, conflict, HandlerSound
    <3>2. /\ new \in Handler /\ new.run = handlers[h].run
          /\ new.todo = handlers[h].todo /\ new.mark = mark
      BY <1>2 DEF Handler, IInv, TypeOK
    <3> HIDE DEF new
    <3> USE <3>2
    <3> WITNESS new \in Handler
    <3> QED BY <1>1, <1>2, <3>1, <3>2 DEF HandlerSound, Reached, IInv, TypeOK
  <2>2. ASSUME NEW s \in Seqs, AlreadyApplied(h, s)
        PROVE  \E new \in Handler :
                 /\ handlers' = [handlers EXCEPT ![h] = new]
                 /\ new.run = handlers[h].run /\ new.todo \subseteq new.run
                 /\ new.run \ new.todo \subseteq decided' \cup submitted'
                 /\ new.mark # Unread => new.mark <= mark' /\ new.run \cap Submissions = {}
    <3> DEFINE new == [handlers[h] EXCEPT !.todo = @ \ {s}]
    <3>1. handlers' = [handlers EXCEPT ![h] = new]
      BY <2>2 DEF AlreadyApplied
    <3>2. /\ new \in Handler /\ new.run = handlers[h].run
          /\ new.todo = handlers[h].todo \ {s} /\ new.mark = handlers[h].mark
      BY <1>2 DEF Handler
    <3>3. s \in decided
      <4>1. /\ handlers[h].mark # Unread /\ s <= handlers[h].mark /\ s \in handlers[h].run
        BY <1>2, <2>2 DEF AlreadyApplied, NextFact, HandlerSound
      <4>2. s \notin Submissions /\ s <= mark
        BY <1>2, <4>1 DEF HandlerSound, Seqs, IInv, TypeOK
      <4> QED BY <4>2 DEF IInv, MarkCoversDecided
    <3> HIDE DEF new
    <3> USE <3>2
    <3> WITNESS new \in Handler
    <3> QED BY <1>1, <1>2, <3>1, <3>2, <3>3 DEF HandlerSound, Reached
  <2> QED BY <2>1, <2>2
<1>4. mark' \in 0 .. MaxSeq /\ mark <= mark' /\ mark' <= last_seq
  BY <1>1 DEF IInv, TypeOK, MarkIssued
<1>5. /\ Dense' /\ AckedPrefix' /\ SlicePrefix' /\ CallSound' /\ MarkIssued'
      /\ AckedDecided' /\ \A g \in Handlers : HandlerSound(g)'
      /\ handlers' \in [Handlers -> Handler \cup {Idle}]
  BY <1>1, <1>3, <1>4, HandlerWorks
<1>6. TypeOK'
  BY <1>1, <1>5 DEF IInv, TypeOK, runnerVars
<1>7. AppliedInOrder' /\ MarkCoversDecided' /\ SubmissionFollowsFacts'
  <2>1. last_seq' \in Nat /\ last_seq <= last_seq'
    BY <1>1 DEF IInv, TypeOK, runnerVars
  <2> QED BY <1>1, <2>1, HubUnchanged
<1> QED BY <1>5, <1>6, <1>7 DEF IInv

(* A fact refused, landed or submitted reaches the hub; whatever the step,  *)
(* the hub's promises hold on.  The mark moves from the value the handler   *)
(* holds to its next fact, with nothing undecided in between.               *)
LEMMA DecideInv ==
    ASSUME IInv, NEW h \in Handlers, NEW s \in Seqs, apply(h, s) \/ reject(h, s)
    PROVE  IInv'
<1> USE LaneAssumption
<1>1. /\ handlers[h] # Idle
      /\ UNCHANGED <<runnerVars, submitted, faults>>
      /\ decided' = decided \cup {s}
      /\ handlers[h].mark # Unread
      /\ s \in handlers[h].todo /\ \A t \in handlers[h].todo : s <= t
      /\ s > handlers[h].mark
  BY DEF apply, reject, Working, NextFact
<1>2. /\ handlers[h] \in Handler /\ HandlerSound(h)
      /\ handlers[h].run \subseteq Seqs /\ handlers[h].todo \subseteq Seqs
      /\ handlers[h].mark \in 0 .. MaxSeq
  BY <1>1, WorkingRun
<1>3. /\ handlers[h].run \cap Submissions = {} /\ s \in handlers[h].run
      /\ s \in 1 .. last_seq /\ last_seq \in Nat
  BY <1>1, <1>2 DEF HandlerSound, IInv, TypeOK
<1>4. 1 .. (s - 1) \subseteq Reached
  BY <1>1, BelowNext
<1>5. \/ mark' = mark /\ applied' = applied
      \/ mark < s /\ mark' = s /\ applied' = Append(applied, s)
  BY <1>1 DEF apply, reject
<1>6. mark' \in 0 .. MaxSeq /\ mark <= mark' /\ mark' <= last_seq
  BY <1>3, <1>5 DEF IInv, TypeOK, MarkIssued, Seqs
<1>7. \E new \in Handler :
        /\ handlers' = [handlers EXCEPT ![h] = new]
        /\ new.run = handlers[h].run /\ new.todo \subseteq new.run
        /\ new.run \ new.todo \subseteq decided' \cup submitted'
        /\ new.mark # Unread => new.mark <= mark' /\ new.run \cap Submissions = {}
  <2>1. CASE apply(h, s)
    <3> DEFINE new == [handlers[h] EXCEPT !.mark = s, !.todo = @ \ {s}]
    <3>1. handlers' = [handlers EXCEPT ![h] = new] /\ mark' = s
      BY <2>1 DEF apply
    <3>2. /\ new \in Handler /\ new.run = handlers[h].run
          /\ new.todo = handlers[h].todo \ {s} /\ new.mark = s
      <4>1. s \in 0 .. MaxSeq
        BY DEF Seqs
      <4> QED BY <1>2, <4>1 DEF Handler
    <3> HIDE DEF new
    <3> USE <3>2
    <3> WITNESS new \in Handler
    <3> QED BY <1>1, <1>2, <1>3, <3>1 DEF HandlerSound, Reached
  <2>2. CASE reject(h, s)
    <3> DEFINE new == [handlers[h] EXCEPT !.todo = @ \ {s}, !.rejected = @ \cup {s}]
    <3>1. handlers' = [handlers EXCEPT ![h] = new] /\ mark' = mark
      BY <2>2 DEF reject
    <3>2. /\ new \in Handler /\ new.run = handlers[h].run
          /\ new.todo = handlers[h].todo \ {s} /\ new.mark = handlers[h].mark
      BY <1>2 DEF Handler
    <3> HIDE DEF new
    <3> USE <3>2
    <3> WITNESS new \in Handler
    <3> QED BY <1>1, <1>2, <1>3, <3>1 DEF HandlerSound, Reached
  <2> QED BY <2>1, <2>2
<1>8. /\ Dense' /\ AckedPrefix' /\ SlicePrefix' /\ CallSound' /\ MarkIssued'
      /\ AckedDecided' /\ \A g \in Handlers : HandlerSound(g)'
      /\ handlers' \in [Handlers -> Handler \cup {Idle}]
  BY <1>1, <1>6, <1>7, HandlerWorks
<1>9. applied \in Seq(Seqs) /\ applied' \in Seq(Seqs)
  BY <1>5 DEF IInv, TypeOK
<1>10. TypeOK'
  BY <1>1, <1>6, <1>8, <1>9 DEF IInv, TypeOK, runnerVars
<1>11. AppliedInOrder'
  <2>1. CASE mark' = mark /\ applied' = applied
    BY <2>1 DEF IInv, AppliedInOrder, AppliedIndex
  <2>2. CASE mark < s /\ mark' = s /\ applied' = Append(applied, s)
    <3>1. /\ \A i, j \in 1 .. Len(applied) : i < j => applied[i] < applied[j]
          /\ mark = IF applied = <<>> THEN 0 ELSE applied[Len(applied)]
      BY DEF IInv, AppliedInOrder, AppliedIndex
    <3>2. /\ Len(applied) \in Nat /\ Len(applied') = Len(applied) + 1
          /\ \A i \in 1 .. Len(applied) : applied'[i] = applied[i] /\ applied[i] \in Seqs
          /\ applied'[Len(applied) + 1] = s /\ applied' # <<>>
      BY <1>9, <2>2
    <3>3. \A i \in 1 .. Len(applied) : applied[i] < s
      <4> SUFFICES ASSUME NEW i \in 1 .. Len(applied) PROVE applied[i] < s
        OBVIOUS
      <4>1. applied # <<>> /\ mark = applied[Len(applied)]
        BY <3>1, <3>2, <1>9
      <4>2. i = Len(applied) \/ applied[i] < applied[Len(applied)]
        BY <3>1, <3>2
      <4>3. applied[i] \in Nat /\ mark \in Nat /\ s \in Nat
        BY <3>2 DEF Seqs, IInv, TypeOK
      <4> QED BY <2>2, <4>1, <4>2, <4>3
    <3>4. ASSUME NEW i \in 1 .. Len(applied'), NEW j \in 1 .. Len(applied'), i < j
          PROVE  applied'[i] < applied'[j]
      BY <3>1, <3>2, <3>3, <3>4
    <3> QED BY <2>2, <3>2, <3>4 DEF AppliedInOrder, AppliedIndex
  <2> QED BY <1>5, <2>1, <2>2
<1>12. MarkCoversDecided'
  <2> SUFFICES ASSUME NEW t \in Seqs \ Submissions, t <= mark' PROVE t \in decided'
    BY DEF MarkCoversDecided
  <2>1. CASE t <= mark
    BY <1>1, <2>1 DEF IInv, MarkCoversDecided
  <2>2. CASE mark' = s
    <3>1. t = s \/ t \in 1 .. (s - 1)
      BY <2>2 DEF Seqs
    <3> QED BY <1>1, <1>4, <3>1 DEF Reached, IInv, TypeOK
  <2> QED BY <1>5, <2>1, <2>2
<1>13. SubmissionFollowsFacts'
  BY <1>1 DEF IInv, SubmissionFollowsFacts
<1> QED BY <1>8, <1>10, <1>11, <1>12, <1>13 DEF IInv

(* A submission is alone in its run, so that all that lies below it is      *)
(* acked: it reaches the hub after every fact buffered before it.           *)
LEMMA SubmitInv ==
    ASSUME IInv, NEW h \in Handlers, submit(h)
    PROVE  IInv'
<1> USE LaneAssumption
<1>1. /\ handlers[h] # Idle
      /\ UNCHANGED <<runnerVars, mark, applied, decided, faults>>
      /\ handlers[h].run \cap Submissions # {}
      /\ submitted' = submitted \cup handlers[h].run
      /\ handlers' = [handlers EXCEPT ![h].todo = {}]
  BY DEF submit, Working
<1>2. /\ handlers[h] \in Handler /\ HandlerSound(h)
      /\ handlers[h].run \subseteq Seqs
  BY <1>1, WorkingRun
<1>3. PICK s \in Submissions : handlers[h].run = {s}
  BY <1>1, <1>2 DEF HandlerSound, Uniform
<1>4. s \in Nat /\ 1 .. (s - 1) \subseteq acked
  <2>1. s \in Nat
    BY DEF Seqs
  <2>2. ASSUME NEW t \in 1 .. (s - 1) PROVE t \in acked
    <3>1. t \in 1 .. s /\ t # s
      BY <2>1
    <3> QED BY <1>2, <1>3, <3>1 DEF HandlerSound, OnAcked
  <2> QED BY <2>1, <2>2
<1>5. mark' \in 0 .. MaxSeq /\ mark <= mark' /\ mark' <= last_seq
  BY <1>1 DEF IInv, TypeOK, MarkIssued
<1>6. \E new \in Handler :
        /\ handlers' = [handlers EXCEPT ![h] = new]
        /\ new.run = handlers[h].run /\ new.todo \subseteq new.run
        /\ new.run \ new.todo \subseteq decided' \cup submitted'
        /\ new.mark # Unread => new.mark <= mark' /\ new.run \cap Submissions = {}
  <2> DEFINE new == [handlers[h] EXCEPT !.todo = {}]
  <2>1. handlers' = [handlers EXCEPT ![h] = new]
    BY <1>1
  <2>2. /\ new \in Handler /\ new.run = handlers[h].run
        /\ new.todo = {} /\ new.mark = handlers[h].mark
    BY <1>2 DEF Handler
  <2> HIDE DEF new
  <2> USE <2>2
  <2> WITNESS new \in Handler
  <2> QED BY <1>1, <1>2, <2>1 DEF HandlerSound
<1>7. /\ Dense' /\ AckedPrefix' /\ SlicePrefix' /\ CallSound' /\ MarkIssued'
      /\ AckedDecided' /\ \A g \in Handlers : HandlerSound(g)'
      /\ handlers' \in [Handlers -> Handler \cup {Idle}]
  BY <1>1, <1>5, <1>6, HandlerWorks
<1>8. submitted' = submitted \cup {s}
  BY <1>1, <1>3
<1>9. TypeOK'
  BY <1>1, <1>7, <1>8 DEF IInv, TypeOK, runnerVars
<1>10. AppliedInOrder' /\ MarkCoversDecided'
  BY <1>1 DEF IInv, AppliedInOrder, AppliedIndex, MarkCoversDecided
<1>11. SubmissionFollowsFacts'
  <2>1. acked \subseteq decided' \cup submitted'
    BY <1>1 DEF IInv, AckedDecided
  <2>2. ASSUME NEW t \in submitted' PROVE 1 .. (t - 1) \subseteq decided' \cup submitted'
    <3>1. CASE t = s
      BY <1>4, <2>1, <3>1
    <3>2. CASE t \in submitted
      BY <1>1, <3>2 DEF IInv, SubmissionFollowsFacts
    <3> QED BY <1>8, <3>1, <3>2
  <2> QED BY <2>2 DEF SubmissionFollowsFacts
<1> QED BY <1>7, <1>9, <1>10, <1>11 DEF IInv

-----------------------------------------------------------------------------
(* The lane keeps its invariant, for every step the runner, the hub or the  *)
(* faults take.                                                             *)
LEMMA NextInv == IInv /\ [Next]_vars => IInv'
<1> SUFFICES ASSUME IInv, [Next]_vars PROVE IInv'
  OBVIOUS
<1>1. CASE Buffer
  BY <1>1, BufferInv
<1>2. CASE Drain
  <2>1. CASE TransportFailure
    BY <2>1, StopInv DEF TransportFailure, IInv, TypeOK
  <2> QED BY <1>2, <2>1, TickInv, SendInv, AckRunInv DEF Drain
<1>3. CASE Faults
  <2>1. CASE TimeoutOrCrash
    <3>1. faults' \in 0 .. MaxFaults
      BY <2>1, LaneAssumption DEF TimeoutOrCrash, IInv, TypeOK
    <3> QED BY <2>1, <3>1, StopInv DEF TimeoutOrCrash
  <2> QED BY <1>3, <2>1, SendLostInv, HandlerEnds DEF Faults
<1>4. ASSUME NEW h \in Handlers, Handle(h) PROVE IInv'
  BY <1>4, ReadInv, DecideInv, SubmitInv, HandlerEnds DEF Handle
<1>5. CASE UNCHANGED vars
  BY <1>5 DEF vars, runnerVars, hubVars, IInv, TypeOK, Dense, AckedPrefix,
     SlicePrefix, OnAcked, CallSound, HandlerSound, Uniform, Reached,
     MarkIssued, AppliedInOrder, AppliedIndex, MarkCoversDecided,
     AckedDecided, SubmissionFollowsFacts
<1> QED BY <1>1, <1>2, <1>3, <1>4, <1>5 DEF Next

(* The lane's inductive invariant holds of every behaviour.                 *)
LEMMA LaneInvariant == Spec => []IInv
<1> QED BY InitInv, NextInv, PTL DEF Spec

(* The lane's types: the buffer's rows and acks stay within the seqs        *)
(* issued, what a tick drains within the rows retained, for every number    *)
(* of facts, handlers and faults.                                           *)
THEOREM LaneTypeOK == Spec => []TypeOK
<1>1. IInv => TypeOK
  BY DEF IInv
<1> QED BY <1>1, LaneInvariant, PTL

(* Whatever pushes overlap, no fact lands twice at the hub, facts land in   *)
(* seq order, and the high-water mark is the last that did.                 *)
THEOREM LandsOnceInOrder == Spec => []AppliedInOrder
<1>1. IInv => AppliedInOrder
  BY DEF IInv
<1> QED BY <1>1, LaneInvariant, PTL

(* The mark skips nothing: each fact at or below it was landed or refused.  *)
THEOREM MarkSkipsNothing == Spec => []MarkCoversDecided
<1>1. IInv => MarkCoversDecided
  BY DEF IInv
<1> QED BY <1>1, LaneInvariant, PTL

(* An ack loses nothing: what the runner will not send again has reached    *)
(* the hub and been decided, lost requests and answers, timeouts and        *)
(* crashes on either side included.                                         *)
THEOREM AckLosesNothing == Spec => []AckedDecided
<1>1. IInv => AckedDecided
  BY DEF IInv
<1> QED BY <1>1, LaneInvariant, PTL

(* A completion or a decision reaches the hub only after every fact that    *)
(* was buffered before it.                                                  *)
THEOREM FactsPrecedeSubmission == Spec => []SubmissionFollowsFacts
<1>1. IInv => SubmissionFollowsFacts
  BY DEF IInv
<1> QED BY <1>1, LaneInvariant, PTL

(* A seq is issued once: a new row lies above every ack and above the mark, *)
(* although pruning may have emptied the buffer.                            *)
THEOREM SeqsIssuedOnce == Spec => SeqNeverReissued
<1> DEFINE Above == \A s \in rows' \ rows : s > mark /\ \A t \in acked : t < s
<1>1. IInv /\ [Next]_vars => [Above]_vars
  <2> SUFFICES ASSUME IInv, Next, NEW s \in rows' \ rows
               PROVE  s > mark /\ \A t \in acked : t < s
    OBVIOUS
  <2>1. rows' \subseteq rows \/ enqueue_outbound
    <3>1. CASE Buffer
      BY <3>1 DEF Buffer, prune_outbound
    <3>2. CASE Drain \/ Faults
      BY <3>2 DEF Drain, Tick, Send, AckRun, TransportFailure, StopTick, Faults, SendLost,
         TimeoutOrCrash, fail, runnerVars
    <3>3. CASE \E h \in Handlers : Handle(h)
      <4>1. PICK h \in Handlers : Handle(h)
        BY <3>3
      <4>2. CASE \E q \in Seqs : AlreadyApplied(h, q) \/ apply(h, q) \/ reject(h, q)
        BY <4>2 DEF AlreadyApplied, apply, reject, runnerVars
      <4>3. CASE runner_high_water(h) \/ conflict(h) \/ submit(h) \/ answer(h)
        BY <4>3 DEF runner_high_water, conflict, submit, answer, runnerVars
      <4> QED BY <4>1, <4>2, <4>3 DEF Handle
    <3> QED BY <3>1, <3>2, <3>3 DEF Next
  <2>2. s = last_seq + 1
    BY <2>1 DEF enqueue_outbound
  <2>3. last_seq \in Nat /\ mark \in Nat
    BY LaneAssumption DEF IInv, TypeOK
  <2>4. mark <= last_seq /\ acked \subseteq 1 .. last_seq
    BY DEF IInv, TypeOK, MarkIssued
  <2> QED BY <2>2, <2>3, <2>4
<1> QED BY <1>1, LaneInvariant, PTL DEF Spec, SeqNeverReissued

=============================================================================
