-------------------------- MODULE RunnerChunkProofs --------------------------
(***************************************************************************)
(* Proofs about RunnerChunk, for any number of slots, epochs and upsets.   *)
(*                                                                         *)
(* The invariant has two halves.  What is durable is sound by itself,      *)
(* whatever the tick is doing: a crash drops the tick and leaves it so.    *)
(* What the tick holds in memory is sound against it, place by place: the  *)
(* lease it ends or starts is open, the processes it counts dead are dead, *)
(* the slot it fills is free.                                              *)
(***************************************************************************)
EXTENDS RunnerChunk, FiniteSetTheorems, SequenceTheorems, WellFoundedInduction, TLAPS

-----------------------------------------------------------------------------
(* The inductive invariant: what is durable *)

Named(e) == {leases[e].pid, leases[e].judge}

\* A judge is recorded only under an elicitation, a marked lease has none, and
\* a worker and its judge never run together.
LeasesSound ==
    \A e \in Open : /\ leases[e].judge # 0 => leases[e].elicited
                    /\ leases[e].resume => ~leases[e].elicited
                    /\ leases[e].pid \in procs => leases[e].judge \notin procs

\* A lease whose completion waits has no process and is not marked.
PendingQuiet ==
    \A e \in Open : pending_submission(e) => ~leases[e].resume /\ Named(e) \cap procs = {}

\* The outbox holds one entry of a kind for a lease, and only of leases minted.
BoxSound ==
    /\ \A i, j \in 1 .. Len(outbox) :
          outbox[i].kind = outbox[j].kind /\ outbox[i].epoch = outbox[j].epoch => i = j
    /\ \A i \in 1 .. Len(outbox) :
          /\ leases[outbox[i].epoch] # NoLease
          /\ outbox[i].kind = "escalation" =>
                leases[outbox[i].epoch].reason \in {"escalated", "resolved"}

StoreTyped ==
    /\ hub \in HubType
    /\ leases \in [Epochs -> LeaseType]
    /\ envs \in 0 .. MaxEnvs
    /\ floor \in 0 .. MaxEpoch
    /\ outbox \in Seq(FactType)
    /\ procs \subseteq 1 .. MaxProcs
    /\ upsets \in 0 .. MaxUpsets

Stored ==
    /\ StoreTyped
    /\ LeasesSound
    /\ PendingQuiet
    /\ BoxSound
    /\ ClosedMeansLanded

-----------------------------------------------------------------------------
(* The inductive invariant: what the tick holds *)

\* Where the tick is in a step of its own, or in none; elsewhere it is in a
\* call, and `back' is the step that called.
Pauses == Steps \cup {"down", "idle"}

Stepping == IF run.pc \in Pauses THEN run.pc ELSE run.back

Loops == {"reap", "resume", "reconcile", "advance"}

\* Where the lease in hand is open, where its processes are dead.
Holding == {"failing", "closing", "abandoning", "releasing", "released", "preempting",
            "preempted", "launch", "record", "confirm", "identity", "unpark", "unmark",
            "consume"}

Quiet == {"closing", "releasing", "released", "preempted", "consume", "launch", "record"}

Launching == {"launch", "record", "confirm"}

InHand ==
    /\ run.pc \in Holding => run.lease \in Open
    /\ run.todo \subseteq Open \ {run.lease}
    /\ run.todo # {} => Stepping \in Loops
    /\ run.pc \in Pauses \cup {"claiming", "reclaiming"} => run.lease = 0
    /\ run.pc \in Launching => run.kind \in {"spawn", "unpause", "resume", "judge"}
    /\ run.pc \in {"consume", "apply"} => run.back = "drain"
    /\ Stepping = "drain" => run.left <= Len(outbox)

\* A launch has an environment, but for the one on a completion's answer.
EnvInHand ==
    /\ run.pc \in {"claiming", "reclaiming"} => envs > 0
    /\ run.pc \in {"mint", "launch"} => envs > 0 \/ run.back = "drain"

\* With one slot, the open leases.  A runner with more counts a chunk's leases
\* as one slot, and nothing bounds them by its slots (run twoleases).
Counted == IF Agents = 1 THEN Cardinality(Open) ELSE 0

\* With one slot, a mint has it free, and a slot counted free is.
SlotFree ==
    /\ Counted <= Agents
    /\ run.pc \in {"envelope", "mint", "apply", "reclaiming"} => Counted < Agents
    /\ Stepping = "claim" => Counted + run.left <= Agents
    /\ Stepping = "claim" /\ run.pc \notin {"claim", "claiming"} =>
          run.pc \in {"mint", "launch", "record", "confirm", "identity", "unpark", "unmark"}
    /\ Stepping = "claim" /\ run.pc = "mint" => Counted + run.left < Agents
    /\ run.pc = "claiming" => run.back = "claim" /\ run.left > 0

\* The armed process is alive and, once recorded, named.
ChildKnown ==
    /\ run.child # 0 => run.pc \in {"record", "confirm"}
    /\ run.pc \in {"record", "confirm"} => run.child \in procs
    /\ run.pc = "confirm" => run.child \in Named(run.lease)
    /\ run.pc = "record" => \A e \in Open : run.child \notin Named(e)

QuietInHand ==
    /\ run.pc \in Quiet => Named(run.lease) \cap procs = {}
    /\ run.pc \in Launching => ~pending_submission(run.lease)
    /\ run.pc \in {"launch", "record"} /\ run.kind = "judge" => leases[run.lease].elicited
    /\ run.pc = "consume" /\ run.kind # "FAILURE" => hub.landed[run.lease] # "none"

TickSound ==
    /\ run \in RunType
    /\ InHand
    /\ EnvInHand
    /\ SlotFree
    /\ ChildKnown
    /\ NoForgottenWorker
    /\ QuietInHand

IInv == Stored /\ TickSound

-----------------------------------------------------------------------------
(* Numbers, views and the tick's record *)

LEMMA Bounds ==
    /\ Agents \in Nat /\ RetriesMax \in Nat /\ MaxEpoch \in Nat /\ MaxEnvs \in Nat
    /\ MaxUpsets \in Nat /\ Agents > 0 /\ MaxEpoch > 0 /\ MaxEnvs > 0
    /\ MaxProcs \in Nat /\ MaxProcs = 2 * MaxEpoch + 2
    /\ 3 * MaxEpoch + Agents \in Nat
  BY RunnerAssumption DEF MaxProcs

LEMMA Zeros ==
    0 \in 0 .. MaxEpoch /\ 0 \in 0 .. MaxProcs /\ 0 \in 0 .. (3 * MaxEpoch + Agents)
  BY Bounds

\* A set of numbers has a least one.
LEMMA LeastNumber ==
    ASSUME NEW T \in SUBSET Nat, T # {}
    PROVE  \E x \in T : \A y \in T : x <= y
<1>1. PICK x \in T : \A y \in T : ~(<<y, x>> \in OpToRel(<, Nat))
  BY NatLessThanWellFounded, WFMin, Zenon
<1>2. \A y \in T : ~(y < x)
  BY <1>1 DEF OpToRel
<1> QED BY <1>2

LEMMA GreatestNumber ==
    ASSUME NEW n \in Nat, NEW T \in SUBSET (0 .. n), T # {}
    PROVE  Max(T) \in T /\ \A y \in T : Max(T) >= y
<1> DEFINE U == {n - y : y \in T}
<1>1. U \in SUBSET Nat /\ U # {}
  <2>1. \A y \in T : n - y \in Nat
    OBVIOUS
  <2> QED BY <2>1
<1> HIDE DEF U
<1>2. PICK u \in U : \A v \in U : u <= v
  BY <1>1, LeastNumber
<1>3. PICK x \in T : u = n - x
  BY DEF U
<1>4. \A y \in T : n - x <= n - y
  BY <1>2, <1>3 DEF U
<1>5. \A y \in T : x >= y
  BY <1>4
<1> QED BY <1>5 DEF Max

\* The newest lease is the newest.
LEMMA LatestEpoch ==
    ASSUME leases \in [Epochs -> LeaseType]
    PROVE  latest_epoch \in 0 .. MaxEpoch /\ \A e \in Epochs : leases[e] # NoLease => e <= latest_epoch
<1> DEFINE T == {0} \cup {e \in Epochs : leases[e] # NoLease}
<1>1. T \in SUBSET (0 .. MaxEpoch) /\ T # {} /\ MaxEpoch \in Nat
  BY Bounds DEF Epochs
<1> HIDE DEF T
<1>2. Max(T) \in T /\ \A y \in T : Max(T) >= y
  BY <1>1, GreatestNumber
<1>3. latest_epoch = Max(T)
  BY DEF latest_epoch, T
<1>4. \A e \in Epochs : leases[e] # NoLease => e \in T
  BY DEF T
<1> HIDE DEF latest_epoch
<1> QED BY <1>1, <1>2, <1>3, <1>4, Bounds DEF Epochs

LEMMA NextEpoch ==
    ASSUME leases \in [Epochs -> LeaseType], NEW n \in 0 .. MaxEpoch
    PROVE  next_lease_epoch(n) \in Nat /\ next_lease_epoch(n) > latest_epoch
<1> DEFINE T == {latest_epoch, n}
<1>1. T \in SUBSET (0 .. MaxEpoch) /\ T # {} /\ MaxEpoch \in Nat
  BY Bounds, LatestEpoch
<1>2. Max(T) \in T /\ \A y \in T : Max(T) >= y
  BY <1>1, GreatestNumber
<1>3. Max(T) \in Nat /\ Max(T) >= latest_epoch
  BY <1>1, <1>2
<1>4. next_lease_epoch(n) = Max(T) + 1
  BY DEF next_lease_epoch
<1> HIDE DEF T, next_lease_epoch, latest_epoch
<1> QED BY <1>3, <1>4, LatestEpoch

Views == View \cup {NoView}

LEMMA HubViewType ==
    ASSUME hub \in HubType
    PROVE  HubView \in View /\ HubView \in Views /\ NoView \in Views
<1>1. status \in Statuses
  BY DEF status, Statuses, HubType
<1> HIDE DEF status
<1> QED BY <1>1 DEF HubView, View, HubType, Views

LEMMA UpsetType ==
    ASSUME upsets \in 0 .. MaxUpsets, Upset \/ Calm
    PROVE  upsets' \in 0 .. MaxUpsets
  BY Bounds DEF Upset, Calm

LEMMA SeesType ==
    ASSUME StoreTyped, NEW v, Sees(v), run \in RunType
    PROVE  v \in Views /\ upsets' \in 0 .. MaxUpsets
<1>1. run.view \in Views
  BY DEF RunType, Views
<1>2. v \in Views
  BY <1>1, HubViewType DEF Sees, StoreTyped
<1>3. Upset \/ Calm
  BY DEF Sees
<1> QED BY <1>2, <1>3, UpsetType DEF StoreTyped

LEMMA RunFields ==
    ASSUME NEW r \in RunType
    PROVE  /\ r.pc \in Places /\ r.back \in Steps \cup {"idle"} /\ r.view \in Views
           /\ r.todo \subseteq Epochs /\ r.lease \in 0 .. MaxEpoch /\ r.env \in 0 .. MaxEpoch
           /\ r.child \in 0 .. MaxProcs /\ r.left \in 0 .. (3 * MaxEpoch + Agents)
           /\ r.left \in Nat
  BY Bounds DEF RunType, Views

LEMMA WithFields ==
    ASSUME run \in RunType, NEW v \in Views
    PROVE  /\ With(v) \in RunType
           /\ With(v).pc = run.pc /\ With(v).back = run.back /\ With(v).todo = run.todo
           /\ With(v).lease = run.lease /\ With(v).env = run.env /\ With(v).kind = run.kind
           /\ With(v).child = run.child /\ With(v).left = run.left
  BY DEF With, RunType, Views

LEMMA WithSelf ==
    ASSUME run \in RunType
    PROVE  With(run.view) = run /\ run.view \in Views
  BY DEF With, RunType, Views

LEMMA GotoFields ==
    ASSUME NEW r \in RunType, NEW p \in Places
    PROVE  LET s == Goto(r, p) IN
           /\ s \in RunType
           /\ s.pc = p /\ s.back = r.back /\ s.todo = r.todo
           /\ s.lease = r.lease /\ s.env = r.env /\ s.kind = r.kind
           /\ s.child = r.child /\ s.left = r.left
  BY DEF Goto, RunType

LEMMA IdleType ==
    /\ Idle \in RunType /\ Idle.pc = "idle" /\ Idle.todo = {} /\ Idle.lease = 0
    /\ Idle.child = 0 /\ Idle.back = "idle" /\ Idle.left = 0
    /\ Down \in RunType /\ Down.pc = "down" /\ Down.todo = {} /\ Down.lease = 0
    /\ Down.child = 0 /\ Down.back = "idle" /\ Down.left = 0
  BY Bounds DEF Idle, Down, RunType, Places, NoView

LEMMA ReturnFields ==
    ASSUME NEW r \in RunType
    PROVE  LET s == Return(r) IN
           /\ s \in RunType
           /\ s.pc = r.back /\ s.lease = 0 /\ s.child = 0
           /\ s.todo = IF r.back = "idle" THEN {} ELSE r.todo
           /\ s.left = IF r.back = "idle" THEN 0 ELSE r.left
           /\ s.back = r.back
<1>1. CASE r.back = "idle"
  BY <1>1, IdleType DEF Return
<1>2. CASE r.back # "idle"
  <2>1. r.back \in Places
    BY RunFields DEF Places
  <2>2. PICK b \in Places : b = r.back
    BY <2>1
  <2> DEFINE s == [r EXCEPT !.pc = b, !.lease = 0, !.env = 0, !.kind = "none", !.child = 0]
  <2>3. Return(r) = s
    BY <1>2, <2>2 DEF Return
  <2>4. s \in RunType
    BY <2>2, Zeros DEF RunType
  <2>5. s.pc = b /\ s.lease = 0 /\ s.child = 0
    BY DEF RunType
  <2>6. s.todo = r.todo /\ s.left = r.left /\ s.back = r.back
    BY DEF RunType
  <2> HIDE DEF s
  <2> QED BY <2>2, <2>3, <2>4, <2>5, <2>6, <1>2
<1> QED BY <1>1, <1>2

LEMMA TakeFields ==
    ASSUME NEW r \in RunType, r.pc \in Steps, NEW e \in Epochs, NEW p \in Places
    PROVE  LET s == Take(r, e, p) IN
           /\ s \in RunType
           /\ s.pc = p /\ s.back = r.pc /\ s.todo = r.todo \ {e} /\ s.lease = e
           /\ s.env = r.env /\ s.kind = r.kind /\ s.child = r.child /\ s.left = r.left
<1> DEFINE T == r.todo \ {e}
<1>1. T \in SUBSET Epochs /\ e \in 0 .. MaxEpoch
  BY Bounds DEF RunType, Epochs
<1> DEFINE t == [r EXCEPT !.pc = p, !.back = r.pc, !.todo = T, !.lease = e]
<1>2. Take(r, e, p) = t
  BY DEF Take, RunType
<1> HIDE DEF T
<1>3. t \in RunType
  BY <1>1 DEF RunType
<1>4. t.pc = p /\ t.back = r.pc /\ t.todo = T /\ t.lease = e
  BY <1>1 DEF RunType
<1>5. t.env = r.env /\ t.kind = r.kind /\ t.child = r.child /\ t.left = r.left
  BY DEF RunType
<1> HIDE DEF t
<1> QED BY <1>2, <1>3, <1>4, <1>5 DEF T

LEMMA SkipFields ==
    ASSUME NEW r \in RunType, NEW e
    PROVE  LET s == Skip(r, e) IN
           /\ s \in RunType
           /\ s.pc = r.pc /\ s.back = r.back /\ s.todo = r.todo \ {e} /\ s.lease = r.lease
           /\ s.env = r.env /\ s.kind = r.kind /\ s.child = r.child /\ s.left = r.left
<1> DEFINE T == r.todo \ {e}
<1>1. T \in SUBSET Epochs
  BY DEF RunType
<1>2. Skip(r, e) = [r EXCEPT !.todo = T]
  BY DEF Skip, RunType
<1> HIDE DEF T
<1>3. LET s == Skip(r, e) IN
           /\ s \in RunType
           /\ s.pc = r.pc /\ s.back = r.back /\ s.todo = T /\ s.lease = r.lease
           /\ s.env = r.env /\ s.kind = r.kind /\ s.child = r.child /\ s.left = r.left
  BY <1>1, <1>2 DEF RunType
<1> QED BY <1>3 DEF T

LEMMA ToAdvanceFields ==
    ASSUME NEW r \in RunType
    PROVE  LET s == ToAdvance(r) IN
           /\ s \in RunType
           /\ s.pc = "advance" /\ s.todo = Open /\ s.lease = r.lease
           /\ s.child = r.child /\ s.left = 0
<1>1. Open \in SUBSET Epochs
  BY DEF Open
<1> HIDE DEF Open
<1>2. "advance" \in Places
  BY DEF Places, Steps
<1> QED BY <1>1, <1>2, Zeros DEF ToAdvance, RunType

-----------------------------------------------------------------------------
(* Leases *)

OpenLease == [reason : {"open"}, pid : 0 .. MaxProcs, session : BOOLEAN, resume : BOOLEAN,
              park : BOOLEAN, elicited : BOOLEAN, judge : 0 .. MaxProcs]

LEMMA OpenTyped ==
    ASSUME leases \in [Epochs -> LeaseType], NEW e \in Open
    PROVE  e \in Epochs /\ leases[e] \in OpenLease
<1>1. e \in Epochs /\ leases[e] \in LeaseType /\ leases[e].reason = "open"
  BY DEF Open
<1>2. \A r : Closed(r).reason = r
  BY DEF Closed
<1>3. leases[e] # NoLease /\ \A r \in Reasons : leases[e] # Closed(r)
  BY <1>1, <1>2 DEF NoLease, Reasons
<1> QED BY <1>1, <1>3 DEF LeaseType, OpenLease

LEMMA ClosedFields ==
    ASSUME NEW r \in Reasons
    PROVE  /\ Closed(r) \in LeaseType /\ Closed(r).reason = r /\ Closed(r) # NoLease
           /\ Closed(r).reason # "open"
<1>1. Closed(r).reason = r /\ NoLease.reason = "none"
  BY DEF Closed, NoLease
<1>2. r # "open" /\ r # "none"
  BY DEF Reasons
<1>3. Closed(r) \in LeaseType
  BY DEF LeaseType
<1> QED BY <1>1, <1>2, <1>3

\* A write over an open lease that leaves it open.
LEMMA PutOpen ==
    ASSUME leases \in [Epochs -> LeaseType], NEW e \in Open, NEW l \in OpenLease, Put(e, l)
    PROVE  /\ leases' \in [Epochs -> LeaseType]
           /\ Open' = Open
           /\ leases'[e] = l /\ \A f \in Epochs \ {e} : leases'[f] = leases[f]
<1>1. l \in LeaseType /\ l.reason = "open"
  BY DEF OpenLease, LeaseType
<1>2. e \in Epochs /\ leases[e].reason = "open"
  BY DEF Open
<1>3. /\ leases' \in [Epochs -> LeaseType]
      /\ leases'[e] = l /\ \A f \in Epochs \ {e} : leases'[f] = leases[f]
  BY <1>1, <1>2 DEF Put
<1>4. Open' = Open
  BY <1>1, <1>2, <1>3 DEF Open
<1> QED BY <1>3, <1>4

LEMMA PutClosed ==
    ASSUME leases \in [Epochs -> LeaseType], NEW e \in Epochs, NEW r \in Reasons,
           Put(e, Closed(r))
    PROVE  /\ leases' \in [Epochs -> LeaseType]
           /\ Open' = Open \ {e}
           /\ leases'[e] = Closed(r) /\ leases'[e] # NoLease /\ leases'[e].reason = r
           /\ \A f \in Epochs \ {e} : leases'[f] = leases[f]
<1> DEFINE l == Closed(r)
<1>1. l \in LeaseType /\ l.reason = r /\ l # NoLease /\ l.reason # "open"
  BY ClosedFields
<1>2. leases' = [leases EXCEPT ![e] = l]
  BY DEF Put
<1> HIDE DEF l
<1>3. /\ leases' \in [Epochs -> LeaseType]
      /\ leases'[e] = l /\ \A f \in Epochs \ {e} : leases'[f] = leases[f]
  BY <1>1, <1>2
<1>4. Open' = Open \ {e}
  BY <1>1, <1>3 DEF Open
<1> QED BY <1>1, <1>3, <1>4 DEF l

LEMMA MintedFields ==
    /\ Minted \in OpenLease /\ Minted # NoLease /\ Minted \in LeaseType
    /\ Minted.reason = "open" /\ Minted.pid = 0 /\ Minted.judge = 0
    /\ Minted.resume = FALSE /\ Minted.elicited = FALSE
<1>1. /\ Minted.reason = "open" /\ Minted.pid = 0 /\ Minted.judge = 0
      /\ Minted.resume = FALSE /\ Minted.elicited = FALSE /\ NoLease.reason = "none"
  BY DEF Minted, NoLease, Closed
<1>2. Minted \in OpenLease
  BY Zeros DEF Minted, Closed, OpenLease
<1> QED BY <1>1, <1>2 DEF OpenLease, LeaseType

LEMMA PutMinted ==
    ASSUME leases \in [Epochs -> LeaseType], NEW e \in Epochs, leases[e] = NoLease,
           Put(e, Minted)
    PROVE  /\ leases' \in [Epochs -> LeaseType]
           /\ e \notin Open /\ Open' = Open \cup {e}
           /\ leases'[e] = Minted /\ \A f \in Epochs \ {e} : leases'[f] = leases[f]
<1>1. NoLease.reason = "none"
  BY DEF NoLease, Closed
<1>2. leases' = [leases EXCEPT ![e] = Minted]
  BY DEF Put
<1>3. /\ leases' \in [Epochs -> LeaseType]
      /\ leases'[e] = Minted /\ \A f \in Epochs \ {e} : leases'[f] = leases[f]
  BY <1>2, MintedFields
<1> QED BY <1>1, <1>3, MintedFields DEF Open

LEMMA OpenFinite ==
    /\ IsFiniteSet(Open) /\ Cardinality(Open) \in Nat
    /\ Cardinality(Open) = 0 <=> Open = {}
<1>1. IsFiniteSet(Epochs)
  BY Bounds, FS_Interval DEF Epochs
<1>2. Open \in SUBSET Epochs
  BY DEF Open
<1> HIDE DEF Open
<1>3. IsFiniteSet(Open)
  BY <1>1, <1>2, FS_Subset
<1> QED BY <1>3, FS_CardinalityType, FS_EmptySet

LEMMA OpenFew == Cardinality(Open) <= MaxEpoch
<1>1. IsFiniteSet(Epochs) /\ Cardinality(Epochs) = MaxEpoch
  BY Bounds, FS_Interval DEF Epochs
<1>2. Open \in SUBSET Epochs
  BY DEF Open
<1> HIDE DEF Open
<1> QED BY <1>1, <1>2, FS_Subset

LEMMA CountedNat == Counted \in Nat /\ (Open = {} => Counted = 0)
  BY OpenFinite DEF Counted

LEMMA CountedLess ==
    ASSUME NEW e \in Open, Open' = Open \ {e}
    PROVE  Counted' <= Counted /\ (Counted <= Agents => Counted' < Agents)
<1>1. Cardinality(Open') = Cardinality(Open) - 1
  <2> HIDE DEF Open
  <2> QED BY OpenFinite, FS_RemoveElement
<1> QED BY <1>1, OpenFinite, Bounds DEF Counted

LEMMA CountedMore ==
    ASSUME NEW e, e \notin Open, Open' = Open \cup {e}
    PROVE  Counted' <= Counted + 1
<1>1. Cardinality(Open') = Cardinality(Open) + 1
  <2> HIDE DEF Open
  <2> QED BY OpenFinite, FS_AddElement
<1> QED BY <1>1, OpenFinite, Bounds DEF Counted

LEMMA CountedSame ==
    ASSUME Open' = Open
    PROVE  Counted' = Counted
  BY DEF Counted

\* The open leases name at most two pids each: one is left for the next process.
LEMMA FreshPidFree ==
    ASSUME StoreTyped,
           \A p \in procs : \E e \in Open : p \in Named(e)
    PROVE  /\ FreshPid \in 1 .. MaxProcs
           /\ FreshPid \notin procs
           /\ \A e \in Open : FreshPid \notin Named(e)
<1> DEFINE P == {leases[e].pid : e \in Open}
           J == {leases[e].judge : e \in Open}
           f == [e \in Open |-> leases[e].pid]
           g == [e \in Open |-> leases[e].judge]
           U == UNION {{leases[e].pid, leases[e].judge} : e \in Open}
           F == (1 .. MaxProcs) \ (procs \cup U)
<1>1. f \in Surjection(Open, P) /\ g \in Surjection(Open, J)
  BY DEF Surjection
<1>2. IsFiniteSet(Open) /\ Cardinality(Open) \in Nat
  BY OpenFinite
<1>3. procs \cup U \subseteq P \cup J
  BY DEF Named
<1>4. \A e \in Open : Named(e) \subseteq U
  BY DEF Named
<1>5. FreshPid = Min(F)
  BY DEF FreshPid
<1> HIDE DEF P, J, f, g, Open, U
<1>6. IsFiniteSet(P) /\ Cardinality(P) <= Cardinality(Open)
  BY <1>1, <1>2, FS_Surjection
<1>7. IsFiniteSet(J) /\ Cardinality(J) <= Cardinality(Open)
  BY <1>1, <1>2, FS_Surjection
<1>8. Cardinality(P) \in Nat /\ Cardinality(J) \in Nat /\ Cardinality(P \cap J) \in Nat
  BY <1>6, <1>7, FS_CardinalityType, FS_Intersection
<1>9. IsFiniteSet(P \cup J) /\ Cardinality(P \cup J) <= 2 * MaxEpoch
  <2>1. /\ IsFiniteSet(P \cup J)
        /\ Cardinality(P \cup J) = Cardinality(P) + Cardinality(J) - Cardinality(P \cap J)
    BY <1>6, <1>7, FS_Union
  <2> QED BY <2>1, <1>2, <1>6, <1>7, <1>8, OpenFew, Bounds
<1>10. Cardinality(1 .. MaxProcs) = MaxProcs
  BY Bounds, FS_Interval
<1>11. ~(1 .. MaxProcs \subseteq P \cup J)
  <2>1. 1 .. MaxProcs \subseteq P \cup J => Cardinality(1 .. MaxProcs) <= Cardinality(P \cup J)
    BY <1>9, FS_Subset
  <2>2. Cardinality(P \cup J) \in Nat
    BY <1>9, FS_CardinalityType
  <2> QED BY <2>1, <2>2, <1>9, <1>10, Bounds
<1>12. F # {} /\ F \in SUBSET Nat
  BY <1>3, <1>11, Bounds
<1> HIDE DEF FreshPid
<1>13. \E x \in F : \A y \in F : x <= y
  BY <1>12, LeastNumber
<1>14. Min(F) \in F
  <2> HIDE DEF F
  <2> QED BY <1>13 DEF Min
<1> QED BY <1>4, <1>5, <1>14

-----------------------------------------------------------------------------
(* The outbox *)

Kinds == {"minted", "escalation", "completion"}

LEMMA BoxTyped ==
    ASSUME outbox \in Seq(FactType)
    PROVE  /\ Len(outbox) \in Nat
           /\ \A i \in 1 .. Len(outbox) :
                 /\ outbox[i] \in FactType /\ outbox[i].epoch \in Epochs
                 /\ outbox[i].kind \in Kinds
<1>1. Len(outbox) \in Nat /\ \A i \in 1 .. Len(outbox) : outbox[i] \in FactType
  OBVIOUS
<1> QED BY <1>1 DEF FactType, Kinds

\* Three kinds, so at most three entries a lease.
LEMMA BoxBound ==
    ASSUME outbox \in Seq(FactType), BoxSound
    PROVE  Len(outbox) \in 0 .. (3 * MaxEpoch + Agents)
<1> DEFINE n == Len(outbox)
           K == Kinds \X Epochs
           f == [i \in 1 .. n |-> <<outbox[i].kind, outbox[i].epoch>>]
<1>1. n \in Nat /\ \A i \in 1 .. n : outbox[i] \in FactType
  OBVIOUS
<1>2. \A i \in 1 .. n : <<outbox[i].kind, outbox[i].epoch>> \in K
  BY <1>1 DEF FactType, Kinds
<1>3. \A i, j \in 1 .. n : <<outbox[i].kind, outbox[i].epoch>> = <<outbox[j].kind, outbox[j].epoch>>
                              => i = j
  BY DEF BoxSound
<1>4. f \in [1 .. n -> K] /\ \A i, j \in 1 .. n : f[i] = f[j] => i = j
  BY <1>2, <1>3
<1>5. IsFiniteSet(Epochs) /\ Cardinality(Epochs) = MaxEpoch
  BY Bounds, FS_Interval DEF Epochs
<1>6. IsFiniteSet(Kinds) /\ Cardinality(Kinds) = 3
  <2>1. IsFiniteSet({"minted"}) /\ Cardinality({"minted"}) = 1
    BY FS_Singleton
  <2> DEFINE A == {"minted"}
             B == A \cup {"escalation"}
             C == B \cup {"completion"}
  <2>2. "escalation" \notin A /\ "completion" \notin B /\ Kinds = C
    BY DEF Kinds
  <2>3. IsFiniteSet(B) /\ Cardinality(B) = IF "escalation" \in A THEN Cardinality(A) ELSE Cardinality(A) + 1
    <3> HIDE DEF A
    <3> QED BY <2>1, FS_AddElement DEF A
  <2>4. IsFiniteSet(C) /\ Cardinality(C) = IF "completion" \in B THEN Cardinality(B) ELSE Cardinality(B) + 1
    <3> HIDE DEF B
    <3> QED BY <2>3, FS_AddElement
  <2> HIDE DEF A, B, C
  <2> QED BY <2>1, <2>2, <2>3, <2>4 DEF A
<1>7. IsFiniteSet(1 .. n) /\ Cardinality(1 .. n) = n
  <2> HIDE DEF n
  <2>1. IsFiniteSet(1 .. n) /\ Cardinality(1 .. n) = IF 1 > n THEN 0 ELSE n - 1 + 1
    BY <1>1, FS_Interval
  <2> QED BY <2>1, <1>1
<1> HIDE DEF n, K, f
<1>8. IsFiniteSet(K) /\ Cardinality(K) = 3 * MaxEpoch
  BY <1>5, <1>6, FS_Product DEF K
<1>9. Cardinality(1 .. n) <= Cardinality(K)
  BY <1>4, <1>7, <1>8, FS_CardinalityType, FS_PigeonHole
<1> QED BY <1>1, <1>7, <1>8, <1>9, Bounds DEF n

-----------------------------------------------------------------------------
(* What keeps the durable half *)

AllNamed == \A p \in procs : \E e \in Open : p \in Named(e)

LandedGrows == \A e \in Epochs : hub.landed[e] # "none" => hub'.landed[e] # "none"

LEMMA PendingSame ==
    ASSUME outbox' = outbox
    PROVE  \A e : pending_submission(e)' <=> pending_submission(e)
  BY DEF pending_submission

\* Nothing is written, and at most a process ends.
LEMMA StoredKept ==
    ASSUME Stored, StoreTyped', leases' = leases, outbox' = outbox, procs' \subseteq procs,
           LandedGrows
    PROVE  Stored'
<1>1. Open' = Open
  BY DEF Open
<1>2. LeasesSound'
  BY <1>1 DEF Stored, LeasesSound
<1>3. PendingQuiet'
  BY <1>1, PendingSame DEF Stored, PendingQuiet, Named
<1>4. BoxSound'
  BY DEF Stored, BoxSound
<1>5. ClosedMeansLanded'
  BY DEF Stored, ClosedMeansLanded, LandedGrows
<1> QED BY <1>2, <1>3, <1>4, <1>5 DEF Stored

\* An open lease is written over.
LEMMA StoredEdit ==
    ASSUME Stored, StoreTyped', NEW e \in Open, NEW l \in OpenLease, Put(e, l),
           outbox' = outbox, procs' \subseteq procs, hub' = hub,
           l.judge # 0 => l.elicited,
           l.resume => ~l.elicited,
           l.pid \in procs' => l.judge \notin procs',
           pending_submission(e) => ~l.resume /\ l.pid \notin procs' /\ l.judge \notin procs'
    PROVE  Stored' /\ Open' = Open
<1>1. /\ Open' = Open /\ leases'[e] = l /\ e \in Epochs
      /\ \A f \in Epochs \ {e} : leases'[f] = leases[f]
  BY PutOpen DEF Stored, StoreTyped, Open
<1>2. Open \subseteq Epochs
  BY DEF Open
<1>3. l.reason = "open" /\ leases[e].reason = "open"
  BY DEF OpenLease, Open
<1>4. NoLease.reason = "none"
  BY DEF NoLease, Closed
<1>5. LeasesSound'
  BY <1>1, <1>2 DEF Stored, LeasesSound
<1>6. PendingQuiet'
  BY <1>1, <1>2, PendingSame DEF Stored, PendingQuiet, Named
<1>7. \A i \in 1 .. Len(outbox) : outbox[i].epoch \in Epochs
  BY BoxTyped DEF Stored, StoreTyped
<1>8. BoxSound'
  BY <1>1, <1>3, <1>4, <1>7 DEF Stored, BoxSound
<1>9. ClosedMeansLanded'
  BY <1>1, <1>3 DEF Stored, ClosedMeansLanded
<1> QED BY <1>1, <1>5, <1>6, <1>8, <1>9 DEF Stored

\* A lease is closed.
LEMMA StoredClose ==
    ASSUME Stored, StoreTyped', NEW e \in Open, NEW r \in Reasons, Put(e, Closed(r)),
           outbox' = outbox, procs' \subseteq procs, hub' = hub,
           r = "transitioned" => hub.landed[e] # "none"
    PROVE  Stored' /\ Open' = Open \ {e}
<1>1. /\ Open' = Open \ {e} /\ e \in Epochs
      /\ leases'[e] # NoLease /\ leases'[e].reason = r
      /\ \A f \in Epochs \ {e} : leases'[f] = leases[f]
  BY PutClosed DEF Stored, StoreTyped, Open
<1>2. Open \subseteq Epochs /\ leases[e].reason = "open"
  BY DEF Open
<1>3. LeasesSound'
  BY <1>1, <1>2 DEF Stored, LeasesSound
<1>4. PendingQuiet'
  BY <1>1, <1>2, PendingSame DEF Stored, PendingQuiet, Named
<1>5. \A i \in 1 .. Len(outbox) : outbox[i].epoch \in Epochs
  BY BoxTyped DEF Stored, StoreTyped
<1>6. BoxSound'
  BY <1>1, <1>2, <1>5 DEF Stored, BoxSound
<1>7. ClosedMeansLanded'
  BY <1>1 DEF Stored, ClosedMeansLanded
<1> QED BY <1>1, <1>3, <1>4, <1>6, <1>7 DEF Stored

-----------------------------------------------------------------------------
(* Where the tick arrives *)

LEMMA CountedPrime == Counted' \in Nat
<1>1. IsFiniteSet(Epochs)
  BY Bounds, FS_Interval DEF Epochs
<1>2. Open' \in SUBSET Epochs
  BY DEF Open
<1>3. Cardinality(Open') \in Nat
  <2> HIDE DEF Open
  <2> QED BY <1>1, <1>2, FS_Subset, FS_CardinalityType
<1> QED BY <1>3 DEF Counted

LEMMA ZeroNoLease == 0 \notin Epochs /\ 0 \notin Open /\ Open \subseteq Epochs
  BY Bounds DEF Epochs, Open

\* In a step of its own the tick holds no lease and no process.
LEMMA AtPause ==
    ASSUME IInv, run.pc \in Pauses \cup {"claiming", "reclaiming"}
    PROVE  run.lease = 0 /\ run.child = 0
<1>1. run.pc \notin {"record", "confirm"}
  BY DEF Pauses, Steps
<1> QED BY <1>1 DEF IInv, TickSound, InHand, ChildKnown

LEMMA Unarmed ==
    ASSUME IInv, run.pc \notin {"record", "confirm"}
    PROVE  run.child = 0 /\ AllNamed
<1>1. run.child = 0
  BY DEF IInv, TickSound, ChildKnown
<1>2. 0 \notin procs
  BY Bounds DEF IInv, Stored, StoreTyped
<1> QED BY <1>1, <1>2 DEF IInv, TickSound, NoForgottenWorker, AllNamed, Named

LEMMA Arrive ==
    ASSUME Stored', run' \in RunType, run'.pc \in Pauses, run'.child = 0, run'.lease = 0,
           run'.todo \subseteq Open', run'.todo # {} => run'.pc \in Loops,
           run'.pc = "drain" => run'.left <= Len(outbox'),
           Counted' <= Agents,
           run'.pc = "claim" => Counted' + run'.left <= Agents,
           AllNamed'
    PROVE  IInv'
<1>1. Stepping' = run'.pc
  BY DEF Stepping
<1>2. 0 \notin Open'
  BY ZeroNoLease DEF Open
<1>3. run'.pc \notin Holding /\ run'.pc \notin Quiet /\ run'.pc \notin Launching
      /\ run'.pc \notin {"claiming", "reclaiming", "mint", "launch", "envelope", "apply",
                         "record", "confirm", "consume"}
  BY DEF Pauses, Steps, Holding, Quiet, Launching
<1>4. InHand'
  BY <1>1, <1>2, <1>3 DEF InHand
<1>5. EnvInHand'
  BY <1>3 DEF EnvInHand
<1>6. SlotFree'
  BY <1>1, <1>3 DEF SlotFree
<1>7. ChildKnown'
  BY <1>3 DEF ChildKnown
<1>8. NoForgottenWorker'
  BY DEF AllNamed, NoForgottenWorker, Named
<1>9. QuietInHand'
  BY <1>3 DEF QuietInHand
<1> QED BY <1>4, <1>5, <1>6, <1>7, <1>8, <1>9 DEF IInv, TickSound

\* A step is done with one of its leases.
LEMMA SkipMove ==
    ASSUME IInv, Stored', run.pc \in Loops, NEW v \in Views, NEW e,
           run' = Skip(With(v), e), Open' = Open, AllNamed'
    PROVE  IInv'
<1>1. run \in RunType
  BY DEF IInv, TickSound
<1>2. With(v) \in RunType
  BY <1>1, WithFields
<1>3. /\ run' \in RunType /\ run'.pc = run.pc /\ run'.todo = run.todo \ {e}
      /\ run'.lease = run.lease /\ run'.child = run.child
  BY <1>1, <1>2, SkipFields, WithFields
<1>4. run.pc \in Pauses /\ run.pc # "drain" /\ run.pc # "claim"
  BY DEF Loops, Pauses, Steps
<1>5. run.lease = 0 /\ run.child = 0
  BY <1>4, AtPause
<1>6. run.todo \subseteq Open /\ Counted <= Agents
  BY DEF IInv, TickSound, InHand, SlotFree
<1> QED BY <1>3, <1>4, <1>5, <1>6, Arrive, CountedSame

\* A call ends and its step goes on.
LEMMA ReturnMove ==
    ASSUME IInv, Stored', run.pc \notin Pauses, NEW v \in Views, run' = Return(With(v)),
           run.todo \subseteq Open', Counted' <= Counted,
           Len(outbox) <= Len(outbox'), AllNamed'
    PROVE  IInv'
<1>1. run \in RunType
  BY DEF IInv, TickSound
<1>2. With(v) \in RunType /\ With(v).back = run.back /\ With(v).todo = run.todo
      /\ With(v).left = run.left
  BY <1>1, WithFields
<1>3. /\ run' \in RunType /\ run'.pc = run.back /\ run'.lease = 0 /\ run'.child = 0
      /\ run'.todo = IF run.back = "idle" THEN {} ELSE run.todo
      /\ run'.left = IF run.back = "idle" THEN 0 ELSE run.left
  BY <1>2, ReturnFields
<1>4. run.back \in Pauses /\ Stepping = run.back
  BY <1>1, RunFields DEF Pauses, Stepping
<1>5. /\ run.todo # {} => run.back \in Loops
      /\ run.back = "drain" => run.left <= Len(outbox)
      /\ Counted <= Agents
      /\ run.back = "claim" => Counted + run.left <= Agents
  BY <1>4 DEF IInv, TickSound, InHand, SlotFree
<1>6. Counted \in Nat /\ Counted' \in Nat
  BY CountedNat, CountedPrime
<1>7. Len(outbox) \in Nat /\ Len(outbox') \in Nat /\ run.left \in Nat
  BY <1>1, RunFields DEF IInv, Stored, StoreTyped
<1>8. Counted' <= Agents /\ (run'.pc = "claim" => Counted' + run'.left <= Agents)
  <2>1. Counted' <= Counted /\ Counted <= Agents /\ Agents \in Nat
    BY <1>5, Bounds
  <2>2. Counted' <= Agents
    BY <2>1, <1>6
  <2>3. CASE run'.pc = "claim"
    <3>1. run.back = "claim" /\ run'.left = run.left
      BY <2>3, <1>3
    <3>2. Counted + run.left <= Agents
      BY <3>1, <1>5
    <3> QED BY <3>1, <3>2, <2>1, <2>2, <1>6, <1>7
  <2> QED BY <2>2, <2>3
<1>9. /\ run'.todo # {} => run'.pc \in Loops
      /\ run'.pc = "drain" => run'.left <= Len(outbox')
      /\ run'.pc \in Pauses /\ run'.todo \subseteq Open'
  BY <1>3, <1>4, <1>5, <1>7 DEF Pauses
<1> QED BY <1>3, <1>8, <1>9, Arrive

\* Only the tick's record changes.
LEMMA StoreSame ==
    ASSUME IInv, UNCHANGED <<hub, store, procs>>, upsets' \in 0 .. MaxUpsets
    PROVE  /\ Stored' /\ Open' = Open /\ leases' = leases /\ outbox' = outbox /\ procs' = procs
           /\ envs' = envs
           /\ AllNamed => AllNamed'
<1>1. hub' = hub /\ leases' = leases /\ envs' = envs /\ floor' = floor /\ outbox' = outbox
      /\ procs' = procs
  BY DEF store
<1>2. StoreTyped'
  BY <1>1 DEF IInv, Stored, StoreTyped
<1>3. LandedGrows
  BY <1>1 DEF LandedGrows
<1>4. Stored'
  BY <1>1, <1>2, <1>3, StoredKept DEF IInv
<1>5. Open' = Open
  BY <1>1 DEF Open
<1>6. AllNamed => AllNamed'
  BY <1>1, <1>5 DEF AllNamed, Named
<1> QED BY <1>1, <1>4, <1>5, <1>6

LEMMA LoopsPause ==
    /\ Loops \subseteq Pauses /\ Loops \subseteq Steps /\ Steps \subseteq Pauses
    /\ "drain" \notin Loops /\ "claim" \notin Loops
    /\ \A p \in Pauses : p \notin {"record", "confirm"}
  BY DEF Loops, Pauses, Steps

\* A step hands one of its leases over to be ended.
LEMMA TakeMove ==
    ASSUME IInv, Stored', run.pc \in Loops, NEW v \in Views, NEW e \in run.todo,
           NEW p \in {"failing", "abandoning", "preempting"}, run' = Take(With(v), e, p),
           leases' = leases, outbox' = outbox, procs' \subseteq procs
    PROVE  IInv'
<1>1. run \in RunType /\ e \in Epochs /\ run.todo \subseteq Open \ {run.lease}
  BY ZeroNoLease DEF IInv, TickSound, InHand
<1>2. With(v) \in RunType /\ With(v).pc \in Steps /\ p \in Places
  BY <1>1, WithFields, LoopsPause DEF Places
<1>3. /\ run' \in RunType /\ run'.pc = p /\ run'.back = run.pc /\ run'.todo = run.todo \ {e}
      /\ run'.lease = e /\ run'.child = run.child
  BY <1>1, <1>2, TakeFields, WithFields
<1>4. run.child = 0 /\ AllNamed
  BY Unarmed, LoopsPause
<1>5. Open' = Open
  BY DEF Open
<1>6. p \in Holding /\ p \notin Pauses /\ p \notin Launching /\ p \notin Quiet
  BY DEF Holding, Pauses, Steps, Launching, Quiet
<1>7. Stepping' = run.pc
  BY <1>3, <1>6 DEF Stepping
<1>8. InHand'
  BY <1>1, <1>3, <1>5, <1>6, <1>7, LoopsPause DEF InHand
<1>9. EnvInHand'
  BY <1>3 DEF EnvInHand
<1>10. SlotFree'
  BY <1>3, <1>5, <1>7, LoopsPause, CountedSame DEF IInv, TickSound, SlotFree
<1>11. ChildKnown'
  BY <1>3, <1>4 DEF ChildKnown
<1>12. NoForgottenWorker'
  BY <1>4, <1>5 DEF AllNamed, NoForgottenWorker, Named
<1>13. QuietInHand'
  BY <1>3, <1>6 DEF QuietInHand
<1> QED BY <1>3, <1>8, <1>9, <1>10, <1>11, <1>12, <1>13 DEF IInv, TickSound

\* A step hands one of its leases over to be woken or judged.
LEMMA LaunchMove ==
    ASSUME IInv, Stored', run.pc \in Loops, NEW v \in Views, NEW e \in run.todo,
           NEW k \in {"unpause", "resume", "judge"},
           run' = [Take(With(v), e, "launch") EXCEPT !.kind = k],
           Open' = Open, envs' > 0, AllNamed', Named(e)' \cap procs' = {},
           ~pending_submission(e)', k = "judge" => leases'[e].elicited
    PROVE  IInv'
<1>1. run \in RunType /\ e \in Epochs /\ run.todo \subseteq Open \ {run.lease}
  BY ZeroNoLease DEF IInv, TickSound, InHand
<1>2. With(v) \in RunType /\ With(v).pc \in Steps /\ "launch" \in Places
  BY <1>1, WithFields, LoopsPause DEF Places
<1> DEFINE t == Take(With(v), e, "launch")
<1>3. /\ t \in RunType /\ t.pc = "launch" /\ t.back = run.pc /\ t.todo = run.todo \ {e}
      /\ t.lease = e /\ t.child = run.child
  BY <1>1, <1>2, TakeFields, WithFields
<1> HIDE DEF t
<1>4. /\ run' \in RunType /\ run'.pc = "launch" /\ run'.back = run.pc
      /\ run'.todo = run.todo \ {e} /\ run'.lease = e /\ run'.child = run.child /\ run'.kind = k
  BY <1>3 DEF RunType, t
<1>5. run.child = 0
  BY Unarmed, LoopsPause
<1>6. "launch" \in Holding /\ "launch" \notin Pauses /\ "launch" \in Launching /\ "launch" \in Quiet
  BY DEF Holding, Pauses, Steps, Launching, Quiet
<1>7. Stepping' = run.pc
  BY <1>4, <1>6 DEF Stepping
<1>8. InHand'
  BY <1>1, <1>4, <1>6, <1>7, LoopsPause DEF InHand
<1>9. EnvInHand'
  BY <1>4 DEF EnvInHand
<1>10. SlotFree'
  BY <1>4, <1>7, LoopsPause, CountedSame DEF IInv, TickSound, SlotFree
<1>11. ChildKnown'
  BY <1>4, <1>5 DEF ChildKnown
<1>12. NoForgottenWorker'
  BY DEF AllNamed, NoForgottenWorker, Named
<1>13. QuietInHand'
  BY <1>4 DEF QuietInHand, Named, pending_submission
<1> QED BY <1>4, <1>8, <1>9, <1>10, <1>11, <1>12, <1>13 DEF IInv, TickSound

-----------------------------------------------------------------------------
(* The tick's own steps *)

LEMMA BeginTickStep == ASSUME IInv, BeginTick PROVE IInv'
<1> DEFINE begun == [Idle EXCEPT !.pc = "reap", !.todo = Open]
<1>1. PICK v \in Views : run' = [begun EXCEPT !.view = v] /\ upsets' \in 0 .. MaxUpsets
  <2>1. CASE Open # {} \/ open_escalation # 0 \/ envs > 0
    <3>1. PICK v \in {HubView, NoView} : Sees(v) /\ run' = [begun EXCEPT !.view = v]
      BY <2>1 DEF BeginTick
    <3> QED BY <3>1, SeesType DEF IInv, Stored, TickSound
  <2>2. CASE ~(Open # {} \/ open_escalation # 0 \/ envs > 0)
    <3>1. Calm /\ run' = begun
      BY <2>2 DEF BeginTick
    <3>2. begun = [begun EXCEPT !.view = NoView]
      <4>1. Idle.view = NoView /\ Idle \in RunType
        BY IdleType DEF Idle, Down
      <4> HIDE DEF Idle, Open
      <4> QED BY <4>1 DEF RunType
    <3> QED BY <3>1, <3>2, UpsetType DEF Views, IInv, Stored, StoreTyped
  <2> QED BY <2>1, <2>2
<1>2. Open \in SUBSET Epochs /\ "reap" \in Places
  BY DEF Open, Places, Steps
<1>3. /\ run' \in RunType /\ run'.pc = "reap" /\ run'.todo = Open /\ run'.lease = 0 /\ run'.child = 0
  <2> HIDE DEF Open
  <2> QED BY <1>1, <1>2, IdleType DEF RunType, Views
<1>4. Stored' /\ Open' = Open /\ (AllNamed => AllNamed')
  BY <1>1, StoreSame DEF BeginTick
<1>5. AllNamed
  BY Unarmed DEF BeginTick
<1>6. "reap" \in Pauses /\ "reap" \in Loops /\ Counted <= Agents
  BY DEF Pauses, Steps, Loops, IInv, TickSound, SlotFree
<1> QED BY <1>3, <1>4, <1>5, <1>6, Arrive, CountedSame

LEMMA NextStepStep == ASSUME IInv, NextStep PROVE IInv'
<1> DEFINE p == following(run.pc)
           T == IF run.pc \in {"reap", "resume"} THEN Open ELSE {}
<1>1. run' = [run EXCEPT !.pc = p, !.todo = T] /\ run.pc \in {"reap", "resume", "reconcile", "advance"}
  BY DEF NextStep
<1>2. /\ p \in {"resume", "reconcile", "escalations", "held"}
      /\ T # {} => p \in Loops
  BY <1>1 DEF following, Loops
<1>3. p \in Places /\ p \in Pauses /\ p # "drain" /\ p # "claim" /\ run.pc \in Pauses
  BY <1>1, <1>2 DEF Places, Pauses, Steps
<1>4. T \in SUBSET Epochs /\ T \subseteq Open
  BY DEF Open
<1>5. run.lease = 0 /\ run.child = 0 /\ AllNamed /\ run \in RunType /\ Counted <= Agents
  BY <1>3, AtPause, Unarmed, LoopsPause DEF IInv, TickSound, SlotFree
<1> HIDE DEF p, T
<1>6. run' \in RunType /\ run'.pc = p /\ run'.todo = T /\ run'.lease = run.lease /\ run'.child = run.child
  BY <1>1, <1>3, <1>4, <1>5 DEF RunType
<1>7. Stored' /\ Open' = Open /\ (AllNamed => AllNamed')
  BY StoreSame, UpsetType DEF NextStep, IInv, Stored, StoreTyped
<1> QED BY <1>2, <1>3, <1>4, <1>5, <1>6, <1>7, Arrive, CountedSame

LEMMA ReapStep == ASSUME IInv, NEW e \in run.todo, Reap(e) PROVE IInv'
<1>1. run.pc \in Loops /\ With(run.view) = run /\ run.view \in Views
  BY WithSelf DEF Reap, Loops, IInv, TickSound
<1>2. Upset \/ Calm
  BY DEF Reap
<1>3. upsets' \in 0 .. MaxUpsets
  BY <1>2, UpsetType DEF IInv, Stored, StoreTyped
<1>4. /\ Stored' /\ Open' = Open /\ leases' = leases /\ outbox' = outbox /\ procs' = procs
      /\ AllNamed => AllNamed'
  BY <1>3, StoreSame DEF Reap
<1>5. AllNamed
  BY <1>1, Unarmed, LoopsPause
<1>6. run' = Take(With(run.view), e, "failing") \/ run' = Skip(With(run.view), e)
  BY <1>1 DEF Reap
<1> QED BY <1>1, <1>4, <1>5, <1>6, TakeMove, SkipMove

-----------------------------------------------------------------------------
(* The reconciles *)

LEMMA LeaseEdits ==
    ASSUME NEW l \in OpenLease
    PROVE  /\ Parked(l) \in OpenLease /\ Parked(l).pid = l.pid /\ Parked(l).judge = l.judge
           /\ Parked(l).elicited = l.elicited /\ ~Parked(l).resume
           /\ [l EXCEPT !.session = TRUE] \in OpenLease
           /\ [l EXCEPT !.park = FALSE] \in OpenLease
           /\ [l EXCEPT !.resume = FALSE] \in OpenLease
  BY DEF OpenLease, Parked

\* A flag of an open lease is written, its processes left as they are.
LEMMA FlagStored ==
    ASSUME IInv, NEW e \in Open, NEW l \in OpenLease, Put(e, l),
           l.pid = leases[e].pid, l.judge = leases[e].judge,
           l.elicited <=> leases[e].elicited, l.resume => leases[e].resume,
           UNCHANGED <<hub, envs, floor, outbox, procs>>, upsets' \in 0 .. MaxUpsets
    PROVE  /\ Stored' /\ Open' = Open
           /\ AllNamed => AllNamed'
<1>1. /\ leases' \in [Epochs -> LeaseType] /\ Open' = Open /\ leases'[e] = l
      /\ \A f \in Epochs \ {e} : leases'[f] = leases[f]
  BY PutOpen DEF IInv, Stored, StoreTyped
<1>2. StoreTyped'
  BY <1>1 DEF IInv, Stored, StoreTyped
<1>3. /\ leases[e].judge # 0 => leases[e].elicited
      /\ leases[e].resume => ~leases[e].elicited
      /\ leases[e].pid \in procs => leases[e].judge \notin procs
      /\ pending_submission(e) => /\ ~leases[e].resume /\ leases[e].pid \notin procs
                                  /\ leases[e].judge \notin procs
  BY DEF IInv, Stored, LeasesSound, PendingQuiet, Named
<1>4. Stored'
  BY <1>2, <1>3, StoredEdit DEF IInv
<1>5. AllNamed => AllNamed'
  BY <1>1, ZeroNoLease DEF AllNamed, Named
<1> QED BY <1>1, <1>4, <1>5

LEMMA TodoOpen ==
    ASSUME IInv, NEW e \in run.todo
    PROVE  e \in Open /\ e \in Epochs /\ leases[e] \in OpenLease
  BY OpenTyped, ZeroNoLease DEF IInv, TickSound, InHand, Stored, StoreTyped

LEMMA ResumeStep == ASSUME IInv, NEW e \in run.todo, Resume(e) PROVE IInv'
<1>0. e \in Open /\ e \in Epochs /\ leases[e] \in OpenLease
  BY TodoOpen
<1>1. run.pc \in Loops /\ run \in RunType /\ StoreTyped
  BY DEF Resume, Loops, IInv, TickSound, Stored
<1>2. AllNamed
  BY <1>1, Unarmed, LoopsPause
<1>3. UNCHANGED <<hub, envs, floor, outbox>>
  BY DEF Resume
<1>4. PICK v \in {run.view, HubView, NoView} :
        LET move == IF ~leases[e].resume \/ v = NoView THEN "none" ELSE restart_disposition(v, e)
        IN  /\ IF leases[e].resume THEN Sees(v) ELSE v = run.view /\ Calm
            /\ \/ move = "none" /\ run' = Skip(With(v), e) /\ UNCHANGED <<leases, procs>>
               \/ /\ move = "park" /\ run' = Skip(With(v), e)
                  /\ Put(e, Parked(leases[e])) /\ UNCHANGED procs
               \/ /\ move = "preempt" /\ run' = Take(With(v), e, "preempting")
                  /\ UNCHANGED <<leases, procs>>
               \/ /\ move = "abandon" /\ run' = Take(With(v), e, "abandoning")
                  /\ UNCHANGED <<leases, procs>>
               \/ /\ move = "restart"
                  /\ run' = IF envs = 0 THEN Take(With(v), e, "abandoning")
                            ELSE [Take(With(v), e, "launch") EXCEPT !.kind = "resume"]
                  /\ procs' = procs \ {leases[e].pid}
                  /\ UNCHANGED leases
  BY DEF Resume
<1>5. v \in Views /\ upsets' \in 0 .. MaxUpsets
  BY <1>1, <1>4, SeesType, WithSelf, UpsetType DEF StoreTyped
<1>6. CASE run' = Skip(With(v), e) /\ UNCHANGED <<leases, procs>>
  <2>1. Stored' /\ Open' = Open /\ (AllNamed => AllNamed')
    BY <1>3, <1>5, <1>6, StoreSame DEF store
  <2> QED BY <2>1, <1>1, <1>2, <1>5, <1>6, SkipMove
<1>7. CASE run' = Skip(With(v), e) /\ Put(e, Parked(leases[e])) /\ UNCHANGED procs
  <2> DEFINE l == Parked(leases[e])
  <2>1. /\ l \in OpenLease /\ l.pid = leases[e].pid /\ l.judge = leases[e].judge
        /\ l.elicited = leases[e].elicited /\ ~l.resume /\ Put(e, l)
    BY <1>0, <1>7, LeaseEdits
  <2> HIDE DEF l
  <2>2. Stored' /\ Open' = Open /\ (AllNamed => AllNamed')
    BY <2>1, <1>0, <1>3, <1>5, <1>7, FlagStored
  <2> QED BY <2>2, <1>1, <1>2, <1>5, <1>7, SkipMove
<1>8. CASE /\ \E p \in {"preempting", "abandoning"} : run' = Take(With(v), e, p)
           /\ UNCHANGED <<leases, procs>>
  <2>1. Stored'
    BY <1>3, <1>5, <1>8, StoreSame DEF store
  <2> QED BY <2>1, <1>1, <1>3, <1>5, <1>8, TakeMove
<1>9. CASE /\ leases[e].resume
           /\ run' = IF envs = 0 THEN Take(With(v), e, "abandoning")
                     ELSE [Take(With(v), e, "launch") EXCEPT !.kind = "resume"]
           /\ procs' = procs \ {leases[e].pid}
           /\ UNCHANGED leases
  <2>1. StoreTyped' /\ procs' \subseteq procs /\ Open' = Open
    BY <1>1, <1>3, <1>5, <1>9 DEF StoreTyped, Open
  <2>2. Stored'
    BY <2>1, <1>3, <1>9, StoredKept DEF IInv, LandedGrows
  <2>3. AllNamed'
    BY <2>1, <1>2, <1>9 DEF AllNamed, Named
  <2>4. CASE envs = 0
    BY <2>1, <2>2, <2>4, <1>1, <1>3, <1>5, <1>9, TakeMove
  <2>5. CASE envs # 0
    <3>1. leases[e].judge = 0 /\ ~pending_submission(e)
      BY <1>0, <1>9 DEF IInv, Stored, LeasesSound, PendingQuiet
    <3>2. Named(e)' \cap procs' = {}
      <4>1. 0 \notin procs
        BY <1>1, Bounds DEF StoreTyped
      <4>2. Named(e)' = {leases[e].pid, 0}
        BY <3>1, <1>9 DEF Named
      <4> QED BY <4>1, <4>2, <1>9
    <3>3. ~pending_submission(e)'
      BY <3>1, <1>3, PendingSame
    <3>4. envs' > 0
      BY <2>5, <1>1, <1>3, Bounds DEF StoreTyped
    <3> QED BY <2>1, <2>2, <2>3, <2>5, <3>2, <3>3, <3>4, <1>1, <1>5, <1>9, LaunchMove
  <2> QED BY <2>4, <2>5
<1> QED BY <1>4, <1>6, <1>7, <1>8, <1>9

LEMMA KnownType ==
    ASSUME IInv
    PROVE  Known \in Views
  BY HubViewType, WithSelf DEF Known, IInv, Stored, StoreTyped, TickSound

LEMMA ResumeBrakedStep == ASSUME IInv, NEW e \in run.todo, ResumeBraked(e) PROVE IInv'
<1>1. run.pc \in Loops /\ run' = Skip(With(Known), e) /\ Known \in Views
  BY KnownType DEF ResumeBraked, Loops
<1>2. upsets' \in 0 .. MaxUpsets
  BY UpsetType DEF ResumeBraked, IInv, Stored, StoreTyped
<1>3. Stored' /\ Open' = Open /\ (AllNamed => AllNamed')
  BY <1>2, StoreSame DEF ResumeBraked
<1>4. AllNamed
  BY <1>1, Unarmed, LoopsPause
<1> QED BY <1>1, <1>3, <1>4, SkipMove

LEMMA ReconcileLeaseStep == ASSUME IInv, NEW e \in run.todo, ReconcileLease(e) PROVE IInv'
<1>0. e \in Open /\ e \in Epochs /\ leases[e] \in OpenLease
  BY TodoOpen
<1>1. run.pc \in Loops /\ run \in RunType /\ StoreTyped
  BY DEF ReconcileLease, Loops, IInv, TickSound, Stored
<1>2. AllNamed
  BY <1>1, Unarmed, LoopsPause
<1>3. UNCHANGED <<hub, envs, floor, outbox, procs>>
  BY DEF ReconcileLease
<1>4. PICK v \in {run.view, HubView, NoView} :
        LET move == IF v = NoView THEN "none" ELSE lease_reconcile_move(v, e)
        IN  /\ Sees(v)
            /\ run' = CASE move = "abandon" -> Take(With(v), e, "abandoning")
                        [] move = "preempt" -> Take(With(v), e, "preempting")
                        [] OTHER -> Skip(With(v), e)
            /\ IF move = "park" THEN Put(e, Parked(leases[e])) ELSE UNCHANGED leases
  BY DEF ReconcileLease
<1>5. v \in Views /\ upsets' \in 0 .. MaxUpsets
  BY <1>1, <1>4, SeesType
<1>6. CASE run' = Skip(With(v), e) /\ UNCHANGED leases
  <2>1. Stored' /\ Open' = Open /\ (AllNamed => AllNamed')
    BY <1>3, <1>5, <1>6, StoreSame DEF store
  <2> QED BY <2>1, <1>1, <1>2, <1>5, <1>6, SkipMove
<1>7. CASE run' = Skip(With(v), e) /\ Put(e, Parked(leases[e]))
  <2> DEFINE l == Parked(leases[e])
  <2>1. /\ l \in OpenLease /\ l.pid = leases[e].pid /\ l.judge = leases[e].judge
        /\ l.elicited = leases[e].elicited /\ ~l.resume /\ Put(e, l)
    BY <1>0, <1>7, LeaseEdits
  <2> HIDE DEF l
  <2>2. Stored' /\ Open' = Open /\ (AllNamed => AllNamed')
    BY <2>1, <1>0, <1>3, <1>5, FlagStored
  <2> QED BY <2>2, <1>1, <1>2, <1>5, <1>7, SkipMove
<1>8. CASE /\ \E p \in {"preempting", "abandoning"} : run' = Take(With(v), e, p)
           /\ UNCHANGED leases
  <2>1. Stored'
    BY <1>3, <1>5, <1>8, StoreSame DEF store
  <2> QED BY <2>1, <1>1, <1>3, <1>5, <1>8, TakeMove
<1>9. \/ run' = Skip(With(v), e) /\ UNCHANGED leases
      \/ run' = Skip(With(v), e) /\ Put(e, Parked(leases[e]))
      \/ (\E p \in {"preempting", "abandoning"} : run' = Take(With(v), e, p)) /\ UNCHANGED leases
  BY <1>4
<1> QED BY <1>6, <1>7, <1>8, <1>9

\* A resolved escalation was closed already.
LEMMA StoredResolve ==
    ASSUME IInv, NEW e \in Epochs, leases[e].reason = "escalated", Put(e, Closed("resolved")),
           UNCHANGED <<hub, envs, floor, outbox, procs>>, upsets' \in 0 .. MaxUpsets
    PROVE  /\ Stored' /\ Open' = Open
           /\ AllNamed => AllNamed'
<1>1. "resolved" \in Reasons
  BY DEF Reasons
<1>2. /\ leases' \in [Epochs -> LeaseType] /\ Open' = Open \ {e}
      /\ leases'[e] # NoLease /\ leases'[e].reason = "resolved"
      /\ \A f \in Epochs \ {e} : leases'[f] = leases[f]
  BY <1>1, PutClosed DEF IInv, Stored, StoreTyped
<1>3. Open' = Open /\ Open \subseteq Epochs /\ e \notin Open
  BY <1>2 DEF Open
<1>4. StoreTyped'
  BY <1>2 DEF IInv, Stored, StoreTyped
<1>5. LeasesSound'
  BY <1>2, <1>3 DEF IInv, Stored, LeasesSound
<1>6. PendingQuiet'
  BY <1>2, <1>3, PendingSame DEF IInv, Stored, PendingQuiet, Named
<1>7. \A i \in 1 .. Len(outbox) : outbox[i].epoch \in Epochs
  BY BoxTyped DEF IInv, Stored, StoreTyped
<1>8. BoxSound'
  BY <1>2, <1>7 DEF IInv, Stored, BoxSound
<1>9. ClosedMeansLanded'
  BY <1>2 DEF IInv, Stored, ClosedMeansLanded
<1>10. AllNamed => AllNamed'
  BY <1>2, <1>3 DEF AllNamed, Named
<1> QED BY <1>3, <1>4, <1>5, <1>6, <1>8, <1>9, <1>10 DEF Stored

LEMMA ReconcileEscalationStep == ASSUME IInv, ReconcileEscalation PROVE IInv'
<1> DEFINE e == open_escalation
<1>1. run.pc = "escalations" /\ run \in RunType /\ StoreTyped /\ run.todo = {}
      /\ Counted <= Agents
  BY DEF ReconcileEscalation, IInv, TickSound, Stored, InHand, SlotFree, Stepping, Loops, Pauses, Steps
<1>2. run.lease = 0 /\ run.child = 0 /\ AllNamed
  BY <1>1, AtPause, Unarmed DEF Pauses, Steps
<1>3. UNCHANGED <<hub, envs, floor, outbox, procs>>
  BY DEF ReconcileEscalation
<1>4. PICK v \in Views :
        /\ upsets' \in 0 .. MaxUpsets
        /\ run' = [With(v) EXCEPT !.pc = "drain", !.left = Len(outbox)]
        /\ (e # 0 /\ Put(e, Closed("resolved"))) \/ UNCHANGED leases
  <2>1. CASE e = 0
    <3>1. Calm /\ UNCHANGED leases /\ run' = [run EXCEPT !.pc = "drain", !.left = Len(outbox)]
      BY <2>1 DEF ReconcileEscalation
    <3>2. With(run.view) = run /\ run.view \in Views /\ upsets' \in 0 .. MaxUpsets
      BY <3>1, <1>1, WithSelf, UpsetType DEF StoreTyped
    <3> QED BY <3>1, <3>2
  <2>2. CASE e # 0
    <3>1. PICK v \in {run.view, HubView, NoView} :
                /\ Sees(v)
                /\ run' = [With(v) EXCEPT !.pc = "drain", !.left = Len(outbox)]
                /\ IF v # NoView /\ superseded_by(v, e)
                   THEN Put(e, Closed("resolved")) ELSE UNCHANGED leases
      BY <2>2 DEF ReconcileEscalation
    <3>2. v \in Views /\ upsets' \in 0 .. MaxUpsets
      BY <3>1, <1>1, SeesType
    <3> QED BY <3>1, <3>2, <2>2
  <2> QED BY <2>1, <2>2
<1>5. e # 0 => e \in Epochs /\ leases[e].reason = "escalated"
  <2>1. latest_epoch \in 0 .. MaxEpoch
    BY <1>1, LatestEpoch DEF StoreTyped
  <2> HIDE DEF latest_epoch
  <2> QED BY <2>1, Bounds DEF open_escalation, Epochs
<1> HIDE DEF e
<1>6. Stored' /\ Open' = Open /\ (AllNamed => AllNamed')
  <2>1. CASE e # 0 /\ Put(e, Closed("resolved"))
    BY <2>1, <1>3, <1>4, <1>5, StoredResolve
  <2>2. CASE UNCHANGED leases
    BY <2>2, <1>3, <1>4, StoreSame DEF store
  <2> QED BY <1>4, <2>1, <2>2
<1>7. Len(outbox) \in 0 .. (3 * MaxEpoch + Agents) /\ "drain" \in Places /\ "drain" \in Pauses
  BY BoxBound DEF IInv, Stored, StoreTyped, Places, Pauses, Steps
<1>8. /\ With(v) \in RunType /\ With(v).todo = run.todo /\ With(v).lease = run.lease
      /\ With(v).child = run.child
  BY <1>1, WithFields
<1>9. /\ run' \in RunType /\ run'.pc = "drain" /\ run'.left = Len(outbox)
      /\ run'.todo = run.todo /\ run'.lease = run.lease /\ run'.child = run.child
  BY <1>4, <1>7, <1>8 DEF RunType
<1>10. run'.left <= Len(outbox')
  BY <1>3, <1>7, <1>9, Bounds
<1> QED BY <1>1, <1>2, <1>6, <1>7, <1>9, <1>10, Arrive, CountedSame

-----------------------------------------------------------------------------
(* Ending an attempt *)

\* The lease in hand stays in hand.
LEMMA HoldMove ==
    ASSUME IInv, Stored', run.pc \in Holding,
           NEW p \in {"failing", "closing", "releasing", "released", "preempted", "identity",
                      "unpark", "unmark"},
           run' \in RunType, run'.pc = p, run'.back = run.back, run'.todo = run.todo,
           run'.lease = run.lease, run'.left = run.left, run'.child = 0,
           Open' = Open, outbox' = outbox, AllNamed',
           p \in Quiet => Named(run.lease)' \cap procs' = {},
           run.back = "claim" => p \in {"identity", "unpark", "unmark"}
    PROVE  IInv'
<1>1. p \in Holding /\ p \notin Pauses /\ p \notin Launching /\ run.pc \notin Pauses
      /\ p \notin {"consume", "apply"}
  BY DEF Holding, Pauses, Steps, Launching
<1>2. Stepping' = run.back /\ Stepping = run.back
  BY <1>1 DEF Stepping
<1>3. InHand'
  BY <1>1, <1>2 DEF IInv, TickSound, InHand
<1>4. EnvInHand'
  BY DEF EnvInHand
<1>5. SlotFree'
  BY <1>1, <1>2, CountedSame DEF IInv, TickSound, SlotFree
<1>6. ChildKnown'
  BY DEF ChildKnown
<1>7. NoForgottenWorker'
  BY DEF AllNamed, NoForgottenWorker, Named
<1>8. QuietInHand'
  BY <1>1 DEF QuietInHand, Named
<1> QED BY <1>3, <1>4, <1>5, <1>6, <1>7, <1>8 DEF IInv, TickSound

Ending == {"failing", "closing", "abandoning", "releasing", "released", "preempting",
           "preempted", "consume"}

\* An attempt being ended was not handed over by the filling of a slot.
LEMMA EndingFacts ==
    ASSUME IInv, run.pc \in Ending
    PROVE  /\ run \in RunType /\ StoreTyped /\ run.pc \in Holding /\ run.pc \notin Pauses
           /\ run.lease \in Open /\ run.lease \in Epochs /\ leases[run.lease] \in OpenLease
           /\ run.child = 0 /\ AllNamed /\ run.back # "claim"
           /\ run.todo \subseteq Open \ {run.lease}
           /\ Counted <= Agents
<1>1. run.pc \in Holding /\ run.pc \notin Pauses /\ run.pc \notin {"record", "confirm"}
      /\ run.pc \notin {"claim", "claiming", "mint", "launch", "identity", "unpark", "unmark"}
  BY DEF Ending, Holding, Pauses, Steps
<1>2. run.lease \in Open /\ run.todo \subseteq Open \ {run.lease}
  BY <1>1 DEF IInv, TickSound, InHand
<1>3. Stepping = run.back
  BY <1>1 DEF Stepping
<1>4. run.back # "claim" /\ Counted <= Agents
  BY <1>1, <1>3 DEF IInv, TickSound, SlotFree
<1> QED BY <1>1, <1>2, <1>4, Unarmed, OpenTyped DEF IInv, TickSound, Stored, StoreTyped

LEMMA TearDownStep == ASSUME IInv, TearDown PROVE IInv'
<1> DEFINE p == CASE run.pc = "failing" -> "closing"
                  [] run.pc = "abandoning" -> "releasing"
                  [] run.pc = "preempting" -> "preempted"
<1>1. run' = Goto(run, p) /\ p \in {"closing", "releasing", "preempted"}
      /\ procs' = procs \ Named(run.lease) /\ run.pc \in Ending
  BY DEF TearDown, Ending, Named
<1> HIDE DEF p
<1>2. UNCHANGED <<hub, leases, envs, floor, outbox>> /\ upsets' = upsets
  BY DEF TearDown, store, Calm
<1>3. p \in Places
  BY <1>1 DEF Places
<1>4. /\ run' \in RunType /\ run'.pc = p /\ run'.back = run.back /\ run'.todo = run.todo
      /\ run'.lease = run.lease /\ run'.left = run.left /\ run'.child = run.child
  BY <1>1, <1>3, EndingFacts, GotoFields
<1>5. StoreTyped'
  BY <1>1, <1>2, EndingFacts DEF StoreTyped
<1>6. Stored'
  BY <1>1, <1>2, <1>5, StoredKept DEF IInv, LandedGrows
<1>7. Open' = Open
  BY <1>2 DEF Open
<1>8. AllNamed' /\ Named(run.lease)' \cap procs' = {}
  BY <1>1, <1>2, <1>4, <1>7, EndingFacts DEF AllNamed, Named
<1> QED BY <1>1, <1>2, <1>4, <1>6, <1>7, <1>8, EndingFacts, HoldMove

\* The lease in hand is closed, its processes dead: the others are named still.
LEMMA CloseNamed ==
    ASSUME AllNamed, NEW e \in Open, Named(e) \cap procs = {}, procs' = procs,
           Open' = Open \ {e}, \A f \in Epochs \ {e} : leases'[f] = leases[f]
    PROVE  AllNamed'
  BY ZeroNoLease DEF AllNamed, Named

\* The lease in hand is closed, and the next attempt asks for its envelope.
LEMMA EnvelopeMove ==
    ASSUME IInv, Stored', run.pc \in Ending, NEW v \in Views,
           run' = Goto(With(v), "envelope"), Open' = Open \ {run.lease}, outbox' = outbox,
           AllNamed'
    PROVE  IInv'
<1>1. "envelope" \in Places /\ "envelope" \notin Pauses /\ "envelope" \notin Holding
      /\ "envelope" \notin Launching /\ "envelope" \notin Quiet
  BY DEF Places, Pauses, Steps, Holding, Launching, Quiet
<1>2. /\ With(v) \in RunType /\ With(v).back = run.back /\ With(v).todo = run.todo
      /\ With(v).lease = run.lease /\ With(v).left = run.left /\ With(v).child = run.child
  BY EndingFacts, WithFields
<1>3. /\ run' \in RunType /\ run'.pc = "envelope" /\ run'.back = run.back
      /\ run'.todo = run.todo /\ run'.lease = run.lease /\ run'.left = run.left
      /\ run'.child = 0
  BY <1>1, <1>2, EndingFacts, GotoFields
<1>4. Stepping' = run.back /\ Stepping = run.back
  BY <1>1, <1>3, EndingFacts DEF Stepping
<1>5. Counted' <= Counted /\ (Counted <= Agents => Counted' < Agents)
  BY EndingFacts, CountedLess, CountedNat, CountedPrime
<1>6. InHand'
  BY <1>1, <1>3, <1>4, EndingFacts DEF IInv, TickSound, InHand
<1>7. EnvInHand'
  BY <1>3 DEF EnvInHand
<1>8. SlotFree'
  BY <1>3, <1>4, <1>5, EndingFacts, Bounds, CountedNat, CountedPrime DEF SlotFree
<1>9. ChildKnown'
  BY <1>3 DEF ChildKnown
<1>10. NoForgottenWorker'
  BY DEF AllNamed, NoForgottenWorker, Named
<1>11. QuietInHand'
  BY <1>1, <1>3 DEF QuietInHand
<1> QED BY <1>3, <1>6, <1>7, <1>8, <1>9, <1>10, <1>11 DEF IInv, TickSound

\* A lease is closed escalated, with its fact.
LEMMA StoredEscalate ==
    ASSUME Stored, NEW e \in Open, Put(e, Closed("escalated")),
           outbox' = Append(outbox, Fact("escalation", e)),
           UNCHANGED <<hub, envs, floor, procs>>, upsets' \in 0 .. MaxUpsets
    PROVE  Stored' /\ Open' = Open \ {e} /\ \A f \in Epochs \ {e} : leases'[f] = leases[f]
<1>1. "escalated" \in Reasons
  BY DEF Reasons
<1>2. /\ leases' \in [Epochs -> LeaseType] /\ Open' = Open \ {e} /\ e \in Epochs
      /\ leases'[e] # NoLease /\ leases'[e].reason = "escalated"
      /\ \A f \in Epochs \ {e} : leases'[f] = leases[f]
  BY <1>1, PutClosed DEF Stored, StoreTyped, Open
<1>3. Open \subseteq Epochs /\ leases[e].reason = "open"
  BY DEF Open
<1>4. /\ Fact("escalation", e) \in FactType /\ Fact("escalation", e).kind = "escalation"
      /\ Fact("escalation", e).epoch = e
  BY <1>2 DEF Fact, FactType
<1> DEFINE n == Len(outbox)
<1>5. /\ n \in Nat /\ \A i \in 1 .. n : outbox[i].epoch \in Epochs
  BY BoxTyped DEF Stored, StoreTyped
<1>6. outbox' \in Seq(FactType) /\ Len(outbox') = n + 1
  BY <1>4 DEF Stored, StoreTyped
<1>7. \A i \in 1 .. n : outbox'[i] = outbox[i]
  BY <1>5 DEF Stored, StoreTyped
<1>8. outbox'[n + 1] = Fact("escalation", e)
  BY <1>5 DEF Stored, StoreTyped
<1> HIDE DEF n
<1>9. StoreTyped'
  BY <1>2, <1>6 DEF Stored, StoreTyped
<1>10. LeasesSound'
  BY <1>2, <1>3 DEF Stored, LeasesSound
<1>11. \A f \in Open' : pending_submission(f)' => pending_submission(f)
  BY <1>4, <1>5, <1>6, <1>7, <1>8 DEF pending_submission, n
<1>12. PendingQuiet'
  BY <1>2, <1>3, <1>11 DEF Stored, PendingQuiet, Named
<1>13. \A i \in 1 .. n : ~(outbox[i].kind = "escalation" /\ outbox[i].epoch = e)
  BY <1>3 DEF Stored, BoxSound, n
<1>14. \A i \in 1 .. n + 1 : i \in 1 .. n \/ i = n + 1
  BY <1>5
<1>15. \A i, j \in 1 .. n + 1 :
          outbox'[i].kind = outbox'[j].kind /\ outbox'[i].epoch = outbox'[j].epoch => i = j
  BY <1>4, <1>7, <1>8, <1>13, <1>14 DEF Stored, BoxSound, n
<1>16. \A i \in 1 .. n + 1 :
          /\ leases'[outbox'[i].epoch] # NoLease
          /\ outbox'[i].kind = "escalation" =>
                leases'[outbox'[i].epoch].reason \in {"escalated", "resolved"}
  BY <1>2, <1>3, <1>4, <1>5, <1>7, <1>8, <1>14 DEF Stored, BoxSound, n
<1>17. BoxSound'
  BY <1>6, <1>15, <1>16 DEF BoxSound
<1>18. ClosedMeansLanded'
  BY <1>2 DEF Stored, ClosedMeansLanded
<1> QED BY <1>2, <1>9, <1>10, <1>12, <1>17, <1>18 DEF Stored

LEMMA FailAttemptStep == ASSUME IInv, FailAttempt PROVE IInv'
<1> DEFINE e == run.lease
<1>1. run.pc = "closing" /\ run.pc \in Ending /\ UNCHANGED <<hub, envs, floor, procs>>
  BY DEF FailAttempt, Ending
<1>2. Named(e) \cap procs = {}
  BY <1>1 DEF IInv, TickSound, QuietInHand, Quiet
<1>3. PICK v \in {run.view, HubView, NoView} :
        /\ Sees(v)
        /\ \/ run' = Goto(With(v), "releasing") /\ UNCHANGED <<leases, outbox>>
           \/ /\ Put(e, Closed("failed"))
              /\ run' = Goto(With(v), "envelope") /\ UNCHANGED outbox
           \/ /\ Put(e, Closed("escalated"))
              /\ outbox' = Append(outbox, Fact("escalation", e))
              /\ run' = Return(With(v))
  BY DEF FailAttempt
<1>4. v \in Views /\ upsets' \in 0 .. MaxUpsets
  BY <1>1, <1>3, EndingFacts, SeesType
<1>5. CASE run' = Goto(With(v), "releasing") /\ UNCHANGED <<leases, outbox>>
  <2>1. /\ Stored' /\ Open' = Open /\ leases' = leases /\ outbox' = outbox /\ procs' = procs
        /\ AllNamed'
    BY <1>1, <1>4, <1>5, StoreSame, EndingFacts DEF store
  <2>2. "releasing" \in Places
    BY DEF Places
  <2>3. /\ With(v) \in RunType /\ With(v).back = run.back /\ With(v).todo = run.todo
        /\ With(v).lease = run.lease /\ With(v).left = run.left /\ With(v).child = run.child
    BY <1>1, <1>4, EndingFacts, WithFields
  <2>4. /\ run' \in RunType /\ run'.pc = "releasing" /\ run'.back = run.back
        /\ run'.todo = run.todo /\ run'.lease = run.lease /\ run'.left = run.left
        /\ run'.child = 0
    BY <2>2, <2>3, <1>1, <1>5, EndingFacts, GotoFields
  <2>5. Named(run.lease)' \cap procs' = {}
    BY <2>1, <2>4, <1>2 DEF Named
  <2> QED BY <2>1, <2>4, <2>5, <1>1, EndingFacts, HoldMove
<1>6. CASE /\ Put(e, Closed("failed"))
           /\ run' = Goto(With(v), "envelope") /\ UNCHANGED outbox
  <2>1. "failed" \in Reasons /\ "failed" # "transitioned"
    BY DEF Reasons
  <2>2. leases' \in [Epochs -> LeaseType] /\ \A f \in Epochs \ {e} : leases'[f] = leases[f]
    BY <2>1, <1>1, <1>6, EndingFacts, PutClosed DEF StoreTyped
  <2>3. StoreTyped'
    BY <2>2, <1>1, <1>4, <1>6, EndingFacts DEF StoreTyped
  <2>4. Stored' /\ Open' = Open \ {e}
    BY <2>1, <2>3, <1>1, <1>6, EndingFacts, StoredClose DEF IInv
  <2>5. AllNamed'
    BY <2>2, <2>4, <1>1, <1>2, EndingFacts, CloseNamed
  <2> QED BY <2>4, <2>5, <1>1, <1>4, <1>6, EnvelopeMove
<1>7. CASE /\ Put(e, Closed("escalated"))
           /\ outbox' = Append(outbox, Fact("escalation", e))
           /\ run' = Return(With(v))
  <2>1. Stored' /\ Open' = Open \ {e} /\ \A f \in Epochs \ {e} : leases'[f] = leases[f]
    BY <1>1, <1>4, <1>7, EndingFacts, StoredEscalate DEF IInv
  <2>2. AllNamed'
    BY <2>1, <1>1, <1>2, EndingFacts, CloseNamed
  <2>3. Counted' <= Counted /\ (Counted <= Agents => Counted' < Agents)
    BY <2>1, <1>1, EndingFacts, CountedLess, CountedNat, CountedPrime
  <2>4. Len(outbox) <= Len(outbox')
    BY <1>7, BoxTyped DEF IInv, Stored, StoreTyped
  <2>5. run.todo \subseteq Open'
    BY <2>1, <1>1, EndingFacts
  <2>6. Counted' <= Counted
    BY <2>3
  <2> QED BY <2>1, <2>2, <2>4, <2>5, <2>6, <1>1, <1>4, <1>7, EndingFacts, ReturnMove
<1> QED BY <1>3, <1>5, <1>6, <1>7

LEMMA DeferEscalationStep == ASSUME IInv, DeferEscalation PROVE IInv'
<1>1. run.pc \in Ending /\ run' = Return(With(Known)) /\ Known \in Views
  BY KnownType DEF DeferEscalation, Ending
<1>2. upsets' \in 0 .. MaxUpsets
  BY UpsetType DEF DeferEscalation, IInv, Stored, StoreTyped
<1>3. Stored' /\ Open' = Open /\ outbox' = outbox /\ AllNamed'
  BY <1>1, <1>2, StoreSame, EndingFacts DEF DeferEscalation
<1>4. Counted' <= Counted /\ Len(outbox) <= Len(outbox')
      /\ run.todo \subseteq Open'
  BY <1>1, <1>3, CountedNat, EndingFacts, BoxTyped, CountedSame DEF StoreTyped
<1> QED BY <1>1, <1>3, <1>4, EndingFacts, ReturnMove

LEMMA ReleaseTyped ==
    ASSUME StoreTyped, ReleaseChunk \/ KeepEnvs
    PROVE  envs' \in 0 .. MaxEnvs /\ floor' \in 0 .. MaxEpoch
<1>1. latest_epoch \in 0 .. MaxEpoch
  BY LatestEpoch DEF StoreTyped
<1> HIDE DEF latest_epoch
<1> QED BY <1>1, Bounds DEF ReleaseChunk, KeepEnvs, StoreTyped

\* Environments are given back or kept, the rest of the store left alone.
LEMMA EnvsStored ==
    ASSUME IInv, envs' \in 0 .. MaxEnvs, floor' \in 0 .. MaxEpoch, upsets' \in 0 .. MaxUpsets,
           hub' \in HubType, LandedGrows, UNCHANGED <<leases, outbox, procs>>
    PROVE  /\ Stored' /\ Open' = Open
           /\ AllNamed => AllNamed'
<1>1. StoreTyped'
  BY DEF IInv, Stored, StoreTyped
<1>2. Stored'
  BY <1>1, StoredKept DEF IInv
<1>3. Open' = Open
  BY DEF Open
<1>4. AllNamed => AllNamed'
  BY <1>3 DEF AllNamed, Named
<1> QED BY <1>2, <1>3, <1>4

LEMMA AbandonReleasesStep == ASSUME IInv, AbandonReleases PROVE IInv'
<1>1. run.pc = "releasing" /\ run.pc \in Ending /\ run' = Goto(run, "released") /\ ReleaseChunk
      /\ UNCHANGED <<hub, leases, outbox, procs>> /\ upsets' = upsets
  BY DEF AbandonReleases, Ending, Calm
<1>2. Stored' /\ Open' = Open /\ AllNamed'
  BY <1>1, ReleaseTyped, EndingFacts, EnvsStored DEF LandedGrows, StoreTyped
<1>3. "released" \in Places
  BY DEF Places
<1>4. /\ run' \in RunType /\ run'.pc = "released" /\ run'.back = run.back
      /\ run'.todo = run.todo /\ run'.lease = run.lease /\ run'.left = run.left
      /\ run'.child = 0
  BY <1>1, <1>3, EndingFacts, GotoFields
<1>5. Named(run.lease)' \cap procs' = {}
  BY <1>1, <1>4 DEF IInv, TickSound, QuietInHand, Quiet, Named
<1> QED BY <1>1, <1>2, <1>4, <1>5, EndingFacts, HoldMove

\* The lease in hand is closed as r.
LEMMA CloseStep ==
    ASSUME IInv, run.pc \in Ending, run.pc \in Quiet, NEW r \in Reasons,
           Put(run.lease, Closed(r)), r = "transitioned" => hub.landed[run.lease] # "none",
           UNCHANGED <<hub, envs, floor, outbox, procs>>, upsets' = upsets
    PROVE  Stored' /\ Open' = Open \ {run.lease} /\ AllNamed'
<1>1. /\ leases' \in [Epochs -> LeaseType]
      /\ \A f \in Epochs \ {run.lease} : leases'[f] = leases[f]
  BY EndingFacts, PutClosed DEF StoreTyped
<1>2. StoreTyped'
  BY <1>1, EndingFacts DEF StoreTyped
<1>3. Stored' /\ Open' = Open \ {run.lease}
  BY <1>2, EndingFacts, StoredClose DEF IInv
<1>4. Named(run.lease) \cap procs = {}
  BY DEF IInv, TickSound, QuietInHand
<1> QED BY <1>1, <1>3, <1>4, EndingFacts, CloseNamed

LEMMA AbandonClosesStep == ASSUME IInv, AbandonCloses PROVE IInv'
<1>1. run.pc \in Ending /\ run.pc \in Quiet /\ run' = Return(run) /\ outbox' = outbox
  BY DEF AbandonCloses, Ending, Quiet
<1>2. "released" \in Reasons /\ "released" # "transitioned"
  BY DEF Reasons
<1>3. Stored' /\ Open' = Open \ {run.lease} /\ AllNamed'
  BY <1>1, <1>2, CloseStep DEF AbandonCloses, Calm
<1>4. run' = Return(With(run.view)) /\ run.view \in Views
  BY <1>1, EndingFacts, WithSelf
<1>5. Counted' <= Counted /\ (Counted <= Agents => Counted' < Agents)
  BY <1>1, <1>3, EndingFacts, CountedLess, CountedNat, CountedPrime
<1>6. Counted' <= Counted /\ Len(outbox) <= Len(outbox')
      /\ run.todo \subseteq Open'
  BY <1>1, <1>3, <1>5, EndingFacts, BoxTyped DEF StoreTyped
<1> QED BY <1>1, <1>3, <1>4, <1>6, EndingFacts, ReturnMove

LEMMA PreemptClosesStep == ASSUME IInv, PreemptCloses PROVE IInv'
<1>1. run.pc \in Ending /\ run.pc \in Quiet /\ run' = Goto(run, "envelope") /\ outbox' = outbox
  BY DEF PreemptCloses, Ending, Quiet
<1>2. "preempted" \in Reasons /\ "preempted" # "transitioned"
  BY DEF Reasons
<1>3. Stored' /\ Open' = Open \ {run.lease} /\ AllNamed'
  BY <1>1, <1>2, CloseStep DEF PreemptCloses, Calm
<1>4. run' = Goto(With(run.view), "envelope") /\ run.view \in Views
  BY <1>1, EndingFacts, WithSelf
<1> QED BY <1>1, <1>3, <1>4, EnvelopeMove

-----------------------------------------------------------------------------
(* Starting an attempt *)

\* Within a call, the step that called.
LEMMA InCall ==
    ASSUME IInv, run.pc \notin Pauses
    PROVE  /\ run \in RunType /\ StoreTyped /\ Stepping = run.back
           /\ run.todo \subseteq Open \ {run.lease} /\ run.todo \subseteq Open
           /\ run.back \notin Loops => run.todo = {}
           /\ run.back = "drain" => run.left <= Len(outbox)
           /\ Counted <= Agents
           /\ With(run.view) = run /\ run.view \in Views
           /\ Len(outbox) \in Nat
<1>1. Stepping = run.back /\ run \in RunType /\ StoreTyped
  BY DEF Stepping, IInv, TickSound, Stored
<1>2. /\ run.todo \subseteq Open \ {run.lease}
      /\ run.back \notin Loops => run.todo = {}
      /\ run.back = "drain" => run.left <= Len(outbox)
      /\ Counted <= Agents
  BY <1>1 DEF IInv, TickSound, InHand, SlotFree
<1> QED BY <1>1, <1>2, WithSelf, BoxTyped DEF StoreTyped

\* A call ends with the store's leases as they were.
LEMMA ReturnSame ==
    ASSUME IInv, Stored', run.pc \notin Pauses, NEW v \in Views, run' = Return(With(v)),
           Open' = Open, outbox' = outbox, AllNamed'
    PROVE  IInv'
<1>1. Counted' <= Counted
  BY CountedNat, CountedSame
<1>2. Len(outbox) <= Len(outbox') /\ run.todo \subseteq Open'
  BY InCall
<1> QED BY <1>1, <1>2, ReturnMove

\* An exception ends the tick, or the drain.
LEMMA RaiseMove ==
    ASSUME IInv, Stored', run.pc \notin Pauses, run' = Raise(run), Open' = Open, AllNamed'
    PROVE  IInv'
<1>1. CASE run.back = "drain"
  <2> DEFINE s == Return(run)
  <2>1. s \in RunType /\ s.lease = 0 /\ s.child = 0 /\ s.todo = run.todo
    BY <1>1, InCall, ReturnFields
  <2>2. run' = [s EXCEPT !.pc = "fill", !.left = 0]
    BY <1>1 DEF Raise
  <2>3. "fill" \in Places /\ "fill" \in Pauses /\ "drain" \notin Loops
    BY DEF Places, Pauses, Steps, Loops
  <2> HIDE DEF s
  <2>4. run' \in RunType /\ run'.pc = "fill" /\ run'.lease = 0 /\ run'.child = 0 /\ run'.todo = run.todo
    BY <2>1, <2>2, <2>3, Zeros DEF RunType
  <2> QED BY <2>3, <2>4, <1>1, InCall, Arrive, CountedSame
<1>2. CASE run.back # "drain"
  <2>1. run' = Idle
    BY <1>2 DEF Raise
  <2>2. run' \in RunType /\ run'.pc = "idle" /\ run'.lease = 0 /\ run'.child = 0 /\ run'.todo = {}
    BY <2>1, IdleType
  <2>3. "idle" \in Pauses
    BY DEF Pauses
  <2> QED BY <2>2, <2>3, InCall, Arrive, CountedSame
<1> QED BY <1>1, <1>2

\* The next attempt is about to be minted.
LEMMA MintMove ==
    ASSUME Stored', run' \in RunType, run'.pc = "mint", run'.child = 0,
           run'.todo \subseteq Open' \ {run'.lease},
           run'.back \notin Loops => run'.todo = {},
           run'.back = "drain" => run'.left <= Len(outbox'),
           envs' > 0 \/ run'.back = "drain",
           Counted' < Agents,
           run'.back = "claim" => Counted' + run'.left < Agents,
           AllNamed'
    PROVE  IInv'
<1>1. "mint" \notin Pauses /\ "mint" \notin Holding /\ "mint" \notin Launching /\ "mint" \notin Quiet
  BY DEF Pauses, Steps, Holding, Launching, Quiet
<1>2. Stepping' = run'.back
  BY <1>1 DEF Stepping
<1>3. InHand'
  BY <1>1, <1>2 DEF InHand
<1>4. EnvInHand'
  BY DEF EnvInHand
<1>5. Counted' \in Nat /\ run'.left \in Nat
  BY CountedPrime, RunFields
<1>6. SlotFree'
  BY <1>2, <1>5, Bounds DEF SlotFree
<1>7. ChildKnown'
  BY DEF ChildKnown
<1>8. NoForgottenWorker'
  BY DEF AllNamed, NoForgottenWorker, Named
<1>9. QuietInHand'
  BY <1>1 DEF QuietInHand
<1> QED BY <1>3, <1>4, <1>6, <1>7, <1>8, <1>9 DEF IInv, TickSound

LEMMA GetEnvelopeStep == ASSUME IInv, GetEnvelope PROVE IInv'
<1>1. run.pc = "envelope" /\ run.pc \notin Pauses /\ run.pc \notin {"record", "confirm"}
      /\ UNCHANGED <<hub, leases, outbox, procs>>
  BY DEF GetEnvelope, Pauses, Steps
<1>2. AllNamed /\ run.child = 0
  BY <1>1, Unarmed
<1>3. (ReleaseChunk \/ KeepEnvs) /\ (Upset \/ Calm)
  BY DEF GetEnvelope
<1>4. Stored' /\ Open' = Open /\ AllNamed'
  BY <1>1, <1>2, <1>3, InCall, ReleaseTyped, UpsetType, EnvsStored DEF LandedGrows, StoreTyped
<1>5. CASE run' = Return(run)
  BY <1>1, <1>4, <1>5, InCall, ReturnSame
<1>6. CASE envs > 0 /\ KeepEnvs /\ run' = [run EXCEPT !.pc = "mint", !.env = hub.epoch]
  <2>1. hub.epoch \in 0 .. MaxEpoch /\ "mint" \in Places
    BY <1>1, InCall DEF StoreTyped, HubType, Places
  <2>2. /\ run' \in RunType /\ run'.pc = "mint" /\ run'.child = 0 /\ run'.todo = run.todo
        /\ run'.back = run.back /\ run'.left = run.left /\ run'.lease = run.lease
    BY <2>1, <1>1, <1>2, <1>6, InCall DEF RunType
  <2>3. Counted < Agents /\ run.back # "claim"
    BY <1>1, InCall DEF IInv, TickSound, SlotFree
  <2>4. envs' > 0
    BY <1>6 DEF KeepEnvs
  <2> QED BY <2>2, <2>3, <2>4, <1>1, <1>4, InCall, MintMove, CountedSame
<1> QED BY <1>5, <1>6 DEF GetEnvelope

\* A lease is minted, with its fact.
LEMMA StoredMint ==
    ASSUME Stored, NEW e \in Epochs, leases[e] = NoLease, Put(e, Minted),
           outbox' = Append(outbox, Fact("minted", e)),
           UNCHANGED <<hub, envs, floor, procs>>, upsets' \in 0 .. MaxUpsets
    PROVE  /\ Stored' /\ e \notin Open /\ Open' = Open \cup {e} /\ leases'[e] = Minted
           /\ ~pending_submission(e)' /\ Len(outbox') = Len(outbox) + 1
           /\ AllNamed => AllNamed'
<1>1. /\ leases' \in [Epochs -> LeaseType] /\ e \notin Open /\ Open' = Open \cup {e}
      /\ leases'[e] = Minted /\ \A f \in Epochs \ {e} : leases'[f] = leases[f]
  BY PutMinted DEF Stored, StoreTyped
<1>2. Open \subseteq Epochs
  BY DEF Open
<1>3. /\ Fact("minted", e) \in FactType /\ Fact("minted", e).kind = "minted"
      /\ Fact("minted", e).epoch = e
  BY DEF Fact, FactType
<1> DEFINE n == Len(outbox)
<1>4. n \in Nat /\ \A i \in 1 .. n : outbox[i].epoch \in Epochs
  BY BoxTyped DEF Stored, StoreTyped
<1>5. outbox' \in Seq(FactType) /\ Len(outbox') = n + 1
  BY <1>3 DEF Stored, StoreTyped
<1>6. \A i \in 1 .. n : outbox'[i] = outbox[i]
  BY <1>4 DEF Stored, StoreTyped
<1>7. outbox'[n + 1] = Fact("minted", e)
  BY <1>4 DEF Stored, StoreTyped
<1>8. \A i \in 1 .. n : leases[outbox[i].epoch] # NoLease
  BY DEF Stored, BoxSound
<1> HIDE DEF n
<1>9. \A i \in 1 .. n + 1 : i \in 1 .. n \/ i = n + 1
  BY <1>4
<1>10. \A i \in 1 .. n : outbox[i].epoch # e
  BY <1>8
<1>11. StoreTyped'
  BY <1>1, <1>5 DEF Stored, StoreTyped
<1>12. \A f : pending_submission(f)' => pending_submission(f)
  BY <1>3, <1>4, <1>5, <1>6, <1>7, <1>9 DEF pending_submission, n
<1>13. ~pending_submission(e)'
  BY <1>10, <1>12 DEF pending_submission, n
<1>14. 0 \notin procs
  BY Bounds DEF Stored, StoreTyped
<1>15. LeasesSound'
  BY <1>1, <1>2, <1>14, MintedFields DEF Stored, LeasesSound
<1>16. PendingQuiet'
  BY <1>1, <1>2, <1>12, <1>13 DEF Stored, PendingQuiet, Named
<1>17. \A i, j \in 1 .. n + 1 :
          outbox'[i].kind = outbox'[j].kind /\ outbox'[i].epoch = outbox'[j].epoch => i = j
  BY <1>3, <1>6, <1>7, <1>9, <1>10 DEF Stored, BoxSound, n
<1>18. \A i \in 1 .. n + 1 :
          /\ leases'[outbox'[i].epoch] # NoLease
          /\ outbox'[i].kind = "escalation" =>
                leases'[outbox'[i].epoch].reason \in {"escalated", "resolved"}
  <2>1. \A i \in 1 .. n : leases'[outbox[i].epoch] = leases[outbox[i].epoch]
    BY <1>1, <1>4, <1>10
  <2>2. \A i \in 1 .. n :
          /\ leases'[outbox'[i].epoch] # NoLease
          /\ outbox'[i].kind = "escalation" =>
                leases'[outbox'[i].epoch].reason \in {"escalated", "resolved"}
    BY <2>1, <1>6 DEF Stored, BoxSound, n
  <2>3. leases'[outbox'[n + 1].epoch] # NoLease /\ outbox'[n + 1].kind # "escalation"
    BY <1>1, <1>3, <1>7, MintedFields
  <2> QED BY <2>2, <2>3, <1>9
<1>19. BoxSound'
  BY <1>5, <1>17, <1>18 DEF BoxSound
<1>20. ClosedMeansLanded'
  BY <1>1, MintedFields DEF Stored, ClosedMeansLanded
<1>21. AllNamed => AllNamed'
  BY <1>1, <1>2 DEF AllNamed, Named
<1> QED BY <1>1, <1>5, <1>11, <1>13, <1>15, <1>16, <1>19, <1>20, <1>21 DEF Stored, n

LEMMA MintStep == ASSUME IInv, Mint PROVE IInv'
<1> DEFINE e == next_lease_epoch(run.env)
<1>1. run.pc = "mint" /\ run.pc \notin Pauses /\ run.pc \notin {"record", "confirm"}
      /\ UNCHANGED <<hub, envs, floor, procs>>
  BY DEF Mint, Pauses, Steps
<1>2. AllNamed /\ run.child = 0
  BY <1>1, Unarmed
<1>3. PICK v \in {run.view, HubView, NoView} :
        /\ Sees(v)
        /\ \/ run' = Return(With(v)) /\ UNCHANGED <<leases, outbox>>
           \/ /\ ~(e > MaxEpoch)
              /\ Put(e, Minted)
              /\ outbox' = Append(outbox, Fact("minted", e))
              /\ run' = [With(v) EXCEPT !.pc = "launch", !.lease = e, !.env = 0, !.kind = "spawn"]
  BY DEF Mint
<1>4. v \in Views /\ upsets' \in 0 .. MaxUpsets
  BY <1>1, <1>3, InCall, SeesType
<1>5. CASE run' = Return(With(v)) /\ UNCHANGED <<leases, outbox>>
  <2>1. Stored' /\ Open' = Open /\ AllNamed'
    BY <1>1, <1>2, <1>4, <1>5, StoreSame DEF store
  <2> QED BY <2>1, <1>1, <1>4, <1>5, ReturnSame
<1>6. CASE /\ ~(e > MaxEpoch)
           /\ Put(e, Minted)
           /\ outbox' = Append(outbox, Fact("minted", e))
           /\ run' = [With(v) EXCEPT !.pc = "launch", !.lease = e, !.env = 0, !.kind = "spawn"]
  <2>0. PICK n : /\ n = e /\ ~(n > MaxEpoch) /\ Put(n, Minted)
                 /\ outbox' = Append(outbox, Fact("minted", n))
                 /\ run' = [With(v) EXCEPT !.pc = "launch", !.lease = n, !.env = 0, !.kind = "spawn"]
    BY <1>6
  <2> HIDE DEF e
  <2>1. n \in Nat /\ n > latest_epoch /\ latest_epoch \in 0 .. MaxEpoch
        /\ \A f \in Epochs : leases[f] # NoLease => f <= latest_epoch
    BY <2>0, <1>1, InCall, RunFields, NextEpoch, LatestEpoch DEF StoreTyped, e
  <2> HIDE DEF latest_epoch
  <2>2. n \in Epochs
    <3>1. latest_epoch \in Nat /\ MaxEpoch \in Nat
      BY <2>1, Bounds
    <3>2. n \in Nat /\ n > 0 /\ n <= MaxEpoch
      BY <3>1, <2>0, <2>1
    <3> QED BY <3>1, <3>2 DEF Epochs
  <2>3. leases[n] = NoLease
    BY <2>1, <2>2, Bounds
  <2>4. /\ Stored' /\ n \notin Open /\ Open' = Open \cup {n} /\ leases'[n] = Minted
        /\ ~pending_submission(n)' /\ Len(outbox') = Len(outbox) + 1 /\ AllNamed'
    BY <2>2, <2>3, <1>1, <1>2, <1>4, <2>0, StoredMint DEF IInv
  <2>5. "launch" \in Places /\ "launch" \notin Pauses /\ "launch" \in Holding
        /\ "launch" \in Launching /\ n \in 0 .. MaxEpoch
    BY <2>2, Bounds DEF Places, Pauses, Steps, Holding, Launching, Epochs
  <2>6. /\ With(v) \in RunType /\ With(v).back = run.back /\ With(v).todo = run.todo
        /\ With(v).left = run.left /\ With(v).child = run.child
    BY <1>1, <1>4, InCall, WithFields
  <2>7. /\ run' \in RunType /\ run'.pc = "launch" /\ run'.lease = n /\ run'.kind = "spawn"
        /\ run'.back = run.back /\ run'.todo = run.todo /\ run'.left = run.left /\ run'.child = 0
    BY <2>5, <2>6, <1>2, <2>0, Zeros DEF RunType
  <2>8. Stepping' = run.back
    BY <2>5, <2>7 DEF Stepping
  <2>9. run.left \in Nat
    BY <1>1, InCall, RunFields
  <2>10. InHand'
    <3>1. run'.todo \subseteq Open' \ {run'.lease}
      BY <2>4, <2>7, <1>1, InCall
    <3>2. Stepping' = "drain" => run'.left <= Len(outbox')
      BY <2>4, <2>7, <2>8, <2>9, <1>1, InCall
    <3>3. run'.pc \notin Pauses \cup {"claiming", "reclaiming"}
      BY <2>5, <2>7
    <3> QED BY <3>1, <3>2, <3>3, <2>4, <2>5, <2>7, <2>8, <1>1, InCall DEF InHand
  <2>11. EnvInHand'
    BY <2>7, <1>1 DEF IInv, TickSound, EnvInHand
  <2>12. Counted' <= Counted + 1 /\ Counted \in Nat
    BY <2>4, CountedMore, CountedNat, CountedPrime
  <2>13. Counted < Agents /\ (run.back = "claim" => Counted + run.left < Agents)
    BY <1>1, InCall DEF IInv, TickSound, SlotFree
  <2>14. SlotFree'
    BY <2>7, <2>8, <2>9, <2>12, <2>13, Bounds, CountedNat, CountedPrime DEF SlotFree
  <2>15. ChildKnown'
    BY <2>7 DEF ChildKnown
  <2>16. NoForgottenWorker'
    BY <2>4 DEF AllNamed, NoForgottenWorker, Named
  <2>17. 0 \notin procs'
    BY <1>1, InCall, Bounds DEF StoreTyped
  <2>18. leases'[n].pid = 0 /\ leases'[n].judge = 0
    BY <2>4, MintedFields
  <2>19. QuietInHand'
    BY <2>4, <2>7, <2>17, <2>18 DEF QuietInHand, Named, pending_submission
  <2> QED BY <2>4, <2>7, <2>10, <2>11, <2>14, <2>15, <2>16, <2>19 DEF IInv, TickSound
<1> QED BY <1>3, <1>5, <1>6

LEMMA SpawnBrakedStep == ASSUME IInv, SpawnBraked PROVE IInv'
<1>1. run.pc = "mint" /\ run.pc \notin Pauses /\ run.pc \notin {"record", "confirm"}
  BY DEF SpawnBraked, Pauses, Steps
<1>2. upsets' \in 0 .. MaxUpsets
  BY UpsetType DEF SpawnBraked, IInv, Stored, StoreTyped
<1>3. Stored' /\ Open' = Open /\ outbox' = outbox /\ AllNamed'
  BY <1>1, <1>2, Unarmed, StoreSame DEF SpawnBraked
<1> QED BY <1>1, <1>3, InCall, ReturnSame DEF SpawnBraked

\* A process starts whose pid no open lease names.
LEMMA StoredLaunch ==
    ASSUME Stored, NEW c \in 1 .. MaxProcs, \A e \in Open : c \notin Named(e),
           procs' = procs \cup {c}, UNCHANGED <<hub, leases, envs, floor, outbox, upsets>>
    PROVE  Stored' /\ Open' = Open
<1>1. Open' = Open
  BY DEF Open
<1>2. StoreTyped'
  BY DEF Stored, StoreTyped
<1>3. LeasesSound'
  BY <1>1 DEF Stored, LeasesSound, Named
<1>4. PendingQuiet'
  BY <1>1, PendingSame DEF Stored, PendingQuiet, Named
<1>5. BoxSound'
  BY DEF Stored, BoxSound
<1>6. ClosedMeansLanded'
  BY DEF Stored, ClosedMeansLanded
<1> QED BY <1>1, <1>2, <1>3, <1>4, <1>5, <1>6 DEF Stored

LEMMA LaunchStep == ASSUME IInv, Launch PROVE IInv'
<1>1. run.pc = "launch" /\ run.pc \notin Pauses /\ run.pc \notin {"record", "confirm"}
      /\ run.pc \in Holding /\ run.pc \in Quiet /\ run.pc \in Launching
  BY DEF Launch, Pauses, Steps, Holding, Quiet, Launching
<1>2. AllNamed /\ run.child = 0
  BY <1>1, Unarmed
<1>3. PICK c : /\ c = FreshPid /\ procs' = procs \cup {c}
               /\ run' = [run EXCEPT !.pc = "record", !.child = c]
  BY DEF Launch
<1>4. UNCHANGED <<hub, leases, envs, floor, outbox, upsets>>
  BY DEF Launch, store, Calm
<1>5. c \in 1 .. MaxProcs /\ c \notin procs /\ \A e \in Open : c \notin Named(e)
  BY <1>1, <1>2, <1>3, InCall, FreshPidFree DEF AllNamed
<1>6. Stored' /\ Open' = Open
  BY <1>3, <1>4, <1>5, StoredLaunch DEF IInv
<1>7. "record" \in Places /\ "record" \notin Pauses /\ "record" \in Holding
      /\ "record" \in Launching /\ c \in 0 .. MaxProcs
  BY <1>5, Bounds DEF Places, Pauses, Steps, Holding, Launching
<1>8. /\ run' \in RunType /\ run'.pc = "record" /\ run'.child = c /\ run'.lease = run.lease
      /\ run'.kind = run.kind /\ run'.back = run.back /\ run'.todo = run.todo
      /\ run'.left = run.left
  BY <1>1, <1>3, <1>7, InCall DEF RunType
<1>9. Stepping' = run.back /\ Stepping = run.back
  BY <1>1, <1>7, <1>8, InCall DEF Stepping
<1>10. run.lease \in Open
  BY <1>1 DEF IInv, TickSound, InHand
<1>11. InHand'
  <2>1. run'.pc \notin Pauses \cup {"claiming", "reclaiming"}
    BY <1>7, <1>8
  <2> QED BY <2>1, <1>1, <1>4, <1>6, <1>7, <1>8, <1>9, <1>10, InCall DEF IInv, TickSound, InHand
<1>12. EnvInHand'
  BY <1>8 DEF EnvInHand
<1>13. SlotFree'
  BY <1>1, <1>6, <1>8, <1>9, CountedSame DEF IInv, TickSound, SlotFree
<1>14. ChildKnown'
  BY <1>3, <1>4, <1>5, <1>6, <1>8 DEF ChildKnown, Named
<1>15. NoForgottenWorker'
  BY <1>2, <1>3, <1>4, <1>6, <1>8 DEF AllNamed, NoForgottenWorker, Named
<1>16. QuietInHand'
  <2>1. Named(run.lease) \cap procs = {} /\ ~pending_submission(run.lease)
        /\ (run.kind = "judge" => leases[run.lease].elicited)
    BY <1>1 DEF IInv, TickSound, QuietInHand
  <2>2. Named(run.lease) \cap procs' = {}
    BY <2>1, <1>3, <1>5, <1>10
  <2> QED BY <2>1, <2>2, <1>4, <1>8 DEF QuietInHand, Named, pending_submission
<1> QED BY <1>6, <1>8, <1>11, <1>12, <1>13, <1>14, <1>15, <1>16 DEF IInv, TickSound

LEMMA LaunchFailsStep == ASSUME IInv, LaunchFails PROVE IInv'
<1>1. run.pc \notin Pauses /\ run.pc \notin {"record", "confirm"}
  BY DEF LaunchFails, Pauses, Steps
<1>2. upsets' \in 0 .. MaxUpsets
  BY UpsetType DEF LaunchFails, IInv, Stored, StoreTyped
<1>3. Stored' /\ Open' = Open /\ AllNamed'
  BY <1>1, <1>2, Unarmed, StoreSame DEF LaunchFails
<1> QED BY <1>1, <1>3, RaiseMove DEF LaunchFails

\* The lease with its process' pid.
LEMMA RecordedLease ==
    ASSUME NEW l \in OpenLease, NEW c \in 0 .. MaxProcs
    PROVE  /\ [l EXCEPT !.judge = c] \in OpenLease
           /\ [l EXCEPT !.judge = c].judge = c /\ [l EXCEPT !.judge = c].pid = l.pid
           /\ [l EXCEPT !.judge = c].elicited = l.elicited
           /\ [l EXCEPT !.judge = c].resume = l.resume
           /\ [l EXCEPT !.pid = c] \in OpenLease
           /\ [l EXCEPT !.pid = c].pid = c /\ [l EXCEPT !.pid = c].judge = l.judge
           /\ [l EXCEPT !.pid = c].elicited = l.elicited
           /\ [l EXCEPT !.pid = c].resume = l.resume
  BY DEF OpenLease

LEMMA RecordPidStep == ASSUME IInv, RecordPid PROVE IInv'
<1>1. run.pc = "record" /\ run.pc \notin Pauses /\ run.pc \in Holding /\ run.pc \in Quiet
      /\ run.pc \in Launching
  BY DEF RecordPid, Pauses, Steps, Holding, Quiet, Launching
<1>2. PICK e, c : e = run.lease /\ c = run.child
  OBVIOUS
<1>3. e \in Open /\ e \in Epochs /\ leases[e] \in OpenLease /\ c \in 0 .. MaxProcs
      /\ c \in procs
  BY <1>1, <1>2, InCall, OpenTyped, RunFields DEF IInv, TickSound, InHand, ChildKnown, StoreTyped
<1>4. /\ Named(e) \cap procs = {} /\ ~pending_submission(e)
      /\ run.kind = "judge" => leases[e].elicited
  BY <1>1, <1>2 DEF IInv, TickSound, QuietInHand
<1> DEFINE l == IF run.kind = "judge" THEN [leases[e] EXCEPT !.judge = c]
                ELSE [leases[e] EXCEPT !.pid = c]
<1>5. UNCHANGED <<hub, envs, floor, outbox, procs, upsets>> /\ run' = Goto(run, "confirm")
      /\ Put(e, l)
  BY <1>2 DEF RecordPid, Calm
<1>6. /\ leases[e].judge # 0 => leases[e].elicited
      /\ leases[e].resume => ~leases[e].elicited
  BY <1>3 DEF IInv, Stored, LeasesSound
<1>7. /\ l \in OpenLease /\ c \in {l.pid, l.judge} /\ l.resume = leases[e].resume
      /\ l.elicited = leases[e].elicited
      /\ l.judge # 0 => l.elicited
      /\ l.resume => ~l.elicited
      /\ l.pid \in procs => l.judge \notin procs
  <2>1. CASE run.kind = "judge"
    <3> DEFINE m == [leases[e] EXCEPT !.judge = c]
    <3>1. m \in OpenLease /\ m.judge = c /\ m.pid = leases[e].pid
          /\ m.elicited = leases[e].elicited /\ m.resume = leases[e].resume
      BY <1>3, RecordedLease
    <3>2. l = m
      BY <2>1
    <3> HIDE DEF m, l
    <3> QED BY <3>1, <3>2, <2>1, <1>3, <1>4, <1>6 DEF Named
  <2>2. CASE run.kind # "judge"
    <3> DEFINE m == [leases[e] EXCEPT !.pid = c]
    <3>1. m \in OpenLease /\ m.pid = c /\ m.judge = leases[e].judge
          /\ m.elicited = leases[e].elicited /\ m.resume = leases[e].resume
      BY <1>3, RecordedLease
    <3>2. l = m
      BY <2>2
    <3> HIDE DEF m, l
    <3> QED BY <3>1, <3>2, <2>2, <1>3, <1>4, <1>6 DEF Named
  <2> QED BY <2>1, <2>2
<1> HIDE DEF l
<1>8. /\ leases' \in [Epochs -> LeaseType] /\ Open' = Open /\ leases'[e] = l
      /\ \A f \in Epochs \ {e} : leases'[f] = leases[f]
  BY <1>3, <1>5, <1>7, PutOpen DEF IInv, Stored, StoreTyped
<1>9. StoreTyped'
  BY <1>5, <1>8 DEF IInv, Stored, StoreTyped
<1>10. Stored'
  BY <1>3, <1>4, <1>5, <1>7, <1>9, StoredEdit DEF IInv
<1>11. "confirm" \in Places /\ "confirm" \notin Pauses /\ "confirm" \in Holding
       /\ "confirm" \in Launching /\ "confirm" \notin Quiet
  BY DEF Places, Pauses, Steps, Holding, Launching, Quiet
<1>12. /\ run' \in RunType /\ run'.pc = "confirm" /\ run'.child = c /\ run'.lease = e
       /\ run'.kind = run.kind /\ run'.back = run.back /\ run'.todo = run.todo
       /\ run'.left = run.left
  BY <1>1, <1>2, <1>5, <1>11, InCall, GotoFields
<1>13. Stepping' = run.back /\ Stepping = run.back
  BY <1>1, <1>11, <1>12, InCall DEF Stepping
<1>14. InHand'
  <2>1. run'.pc \notin Pauses \cup {"claiming", "reclaiming"}
    BY <1>11, <1>12
  <2> QED BY <2>1, <1>1, <1>2, <1>3, <1>5, <1>8, <1>11, <1>12, <1>13, InCall
          DEF IInv, TickSound, InHand
<1>15. EnvInHand'
  BY <1>12 DEF EnvInHand
<1>16. SlotFree'
  BY <1>1, <1>8, <1>12, <1>13, CountedSame DEF IInv, TickSound, SlotFree
<1>17. ChildKnown'
  BY <1>3, <1>5, <1>7, <1>8, <1>12 DEF ChildKnown, Named
<1>18. NoForgottenWorker'
  <2>1. \A p \in procs \ {c} : \E f \in Open \ {e} : p \in Named(f)
    BY <1>2, <1>4 DEF IInv, TickSound, NoForgottenWorker, Named
  <2> QED BY <2>1, <1>5, <1>8, <1>12, ZeroNoLease DEF NoForgottenWorker, Named
<1>19. QuietInHand'
  BY <1>4, <1>5, <1>11, <1>12 DEF QuietInHand, pending_submission
<1> QED BY <1>10, <1>12, <1>14, <1>15, <1>16, <1>17, <1>18, <1>19 DEF IInv, TickSound

LEMMA ConfirmDurableStep == ASSUME IInv, ConfirmDurable PROVE IInv'
<1>1. run.pc = "confirm" /\ run.pc \notin Pauses /\ run.pc \in Holding /\ run.pc \in Launching
  BY DEF ConfirmDurable, Pauses, Steps, Holding, Launching
<1>2. run.lease \in Open /\ run.child \in Named(run.lease)
      /\ run.kind \in {"spawn", "unpause", "resume", "judge"}
  BY <1>1 DEF IInv, TickSound, InHand, ChildKnown
<1>3. AllNamed
  BY <1>2 DEF IInv, TickSound, NoForgottenWorker, AllNamed, Named
<1>4. upsets' \in 0 .. MaxUpsets
  BY UpsetType DEF ConfirmDurable, IInv, Stored, StoreTyped
<1>5. Stored' /\ Open' = Open /\ outbox' = outbox /\ AllNamed'
  BY <1>3, <1>4, StoreSame DEF ConfirmDurable
<1>6. CASE run.kind = "judge"
  <2>1. run' = Return(run)
    BY <1>6 DEF ConfirmDurable
  <2> QED BY <2>1, <1>1, <1>5, InCall, ReturnSame
<1>7. CASE run.kind # "judge"
  <2>1. PICK p \in {"identity", "unpark", "unmark"} : run' = [run EXCEPT !.pc = p, !.child = 0]
    BY <1>2, <1>7 DEF ConfirmDurable
  <2>2. p \in Places /\ p \notin Quiet
    BY <2>1 DEF Places, Quiet
  <2>3. /\ run' \in RunType /\ run'.pc = p /\ run'.child = 0 /\ run'.lease = run.lease
        /\ run'.back = run.back /\ run'.todo = run.todo /\ run'.left = run.left
    BY <2>1, <2>2, <1>1, InCall, Zeros DEF RunType
  <2> QED BY <2>1, <2>2, <2>3, <1>1, <1>5, HoldMove
<1> QED BY <1>6, <1>7

\* A started attempt writes the last flag of its lease.
LEMMA FlagReturn ==
    ASSUME IInv, run.pc \in {"identity", "unpark", "unmark"}, NEW l \in OpenLease,
           l.pid = leases[run.lease].pid, l.judge = leases[run.lease].judge,
           l.elicited <=> leases[run.lease].elicited, l.resume => leases[run.lease].resume,
           Put(run.lease, l), run' = Return(run), Calm,
           UNCHANGED <<hub, envs, floor, outbox, procs>>
    PROVE  IInv'
<1>1. run.pc \notin Pauses /\ run.pc \in Holding /\ run.pc \notin {"record", "confirm"}
  BY DEF Pauses, Steps, Holding
<1>2. run.lease \in Open /\ AllNamed
  BY <1>1, Unarmed DEF IInv, TickSound, InHand
<1>3. upsets' \in 0 .. MaxUpsets
  BY UpsetType DEF IInv, Stored, StoreTyped
<1>4. Stored' /\ Open' = Open /\ AllNamed'
  BY <1>2, <1>3, FlagStored
<1> QED BY <1>1, <1>4, InCall, ReturnSame

LEMMA StartedLease ==
    ASSUME IInv, run.pc \in {"identity", "unpark", "unmark"}
    PROVE  leases[run.lease] \in OpenLease
<1>1. run.pc \in Holding
  BY DEF Holding
<1>2. run.lease \in Open
  BY <1>1 DEF IInv, TickSound, InHand
<1> QED BY <1>2, OpenTyped DEF IInv, Stored, StoreTyped

LEMMA AwaitIdentityStep == ASSUME IInv, AwaitIdentity PROVE IInv'
<1> DEFINE l == [leases[run.lease] EXCEPT !.session = TRUE]
<1>1. leases[run.lease] \in OpenLease /\ run.pc = "identity"
  BY StartedLease DEF AwaitIdentity
<1>2. /\ l \in OpenLease /\ l.pid = leases[run.lease].pid /\ l.judge = leases[run.lease].judge
      /\ l.elicited = leases[run.lease].elicited /\ l.resume = leases[run.lease].resume
  BY <1>1 DEF OpenLease
<1>3. /\ Put(run.lease, l) /\ run' = Return(run) /\ Calm
      /\ UNCHANGED <<hub, envs, floor, outbox, procs>>
  BY DEF AwaitIdentity
<1> HIDE DEF l
<1> QED BY <1>1, <1>2, <1>3, FlagReturn

LEMMA ClearParkStep == ASSUME IInv, ClearPark PROVE IInv'
<1> DEFINE l == [leases[run.lease] EXCEPT !.park = FALSE]
<1>1. leases[run.lease] \in OpenLease /\ run.pc = "unpark"
  BY StartedLease DEF ClearPark
<1>2. /\ l \in OpenLease /\ l.pid = leases[run.lease].pid /\ l.judge = leases[run.lease].judge
      /\ l.elicited = leases[run.lease].elicited /\ l.resume = leases[run.lease].resume
  BY <1>1 DEF OpenLease
<1>3. /\ Put(run.lease, l) /\ run' = Return(run) /\ Calm
      /\ UNCHANGED <<hub, envs, floor, outbox, procs>>
  BY DEF ClearPark
<1> HIDE DEF l
<1> QED BY <1>1, <1>2, <1>3, FlagReturn

LEMMA ClearMarkStep == ASSUME IInv, ClearMark PROVE IInv'
<1> DEFINE l == [leases[run.lease] EXCEPT !.resume = FALSE]
<1>1. leases[run.lease] \in OpenLease /\ run.pc = "unmark"
  BY StartedLease DEF ClearMark
<1>2. /\ l \in OpenLease /\ l.pid = leases[run.lease].pid /\ l.judge = leases[run.lease].judge
      /\ l.elicited = leases[run.lease].elicited /\ l.resume = FALSE
  BY <1>1 DEF OpenLease
<1>3. /\ Put(run.lease, l) /\ run' = Return(run) /\ Calm
      /\ UNCHANGED <<hub, envs, floor, outbox, procs>>
  BY DEF ClearMark
<1> HIDE DEF l
<1> QED BY <1>1, <1>2, <1>3, FlagReturn

LEMMA IdentityFailsStep == ASSUME IInv, IdentityFails PROVE IInv'
<1>1. run.pc \notin Pauses /\ run.pc \notin {"record", "confirm"}
      /\ procs' \subseteq procs /\ UNCHANGED <<hub, leases, envs, floor, outbox>>
      /\ run' = Raise(run)
  BY DEF IdentityFails, Pauses, Steps, store
<1>2. upsets' \in 0 .. MaxUpsets
  BY UpsetType DEF IdentityFails, IInv, Stored, StoreTyped
<1>3. StoreTyped'
  BY <1>1, <1>2 DEF IInv, Stored, StoreTyped
<1>4. Stored'
  BY <1>1, <1>3, StoredKept DEF IInv, LandedGrows
<1>5. Open' = Open
  BY <1>1 DEF Open
<1>6. AllNamed'
  BY <1>1, <1>5, Unarmed DEF AllNamed, Named
<1> QED BY <1>1, <1>4, <1>5, <1>6, RaiseMove

-----------------------------------------------------------------------------
(* The drain *)

\* In a step of its own.
LEMMA InStep ==
    ASSUME IInv, run.pc \in Pauses
    PROVE  /\ run \in RunType /\ StoreTyped /\ run.lease = 0 /\ run.child = 0 /\ AllNamed
           /\ run.todo \subseteq Open
           /\ run.pc \notin Loops => run.todo = {}
           /\ run.pc = "drain" => run.left <= Len(outbox)
           /\ Counted <= Agents
           /\ run.pc = "claim" => Counted + run.left <= Agents
           /\ With(run.view) = run /\ run.view \in Views
           /\ run.left \in Nat
<1>1. Stepping = run.pc /\ run \in RunType /\ StoreTyped
  BY DEF Stepping, IInv, TickSound, Stored
<1>2. /\ run.todo \subseteq Open
      /\ run.pc \notin Loops => run.todo = {}
      /\ run.pc = "drain" => run.left <= Len(outbox)
      /\ Counted <= Agents
      /\ run.pc = "claim" => Counted + run.left <= Agents
  BY <1>1 DEF IInv, TickSound, InHand, SlotFree
<1> QED BY <1>1, <1>2, WithSelf, AtPause, Unarmed, LoopsPause, RunFields

\* The tick goes to a step with no lease to go through.
LEMMA StepMove ==
    ASSUME IInv, Stored', run' \in RunType, run'.pc \in Pauses, run'.pc \notin {"drain", "claim"},
           run'.child = 0, run'.lease = 0, run'.todo = {}, Open' = Open, AllNamed'
    PROVE  IInv'
<1>1. Counted <= Agents
  BY DEF IInv, TickSound, SlotFree
<1> QED BY <1>1, Arrive, CountedSame

LEMMA ToFill ==
    ASSUME run \in RunType
    PROVE  LET s == [run EXCEPT !.pc = "fill", !.left = 0] IN
           s \in RunType /\ s.pc = "fill" /\ s.lease = run.lease /\ s.child = run.child /\ s.todo = run.todo
<1>1. "fill" \in Places
  BY DEF Places, Steps
<1> QED BY <1>1, Zeros DEF RunType

LEMMA DrainPlace ==
    /\ "drain" \in Pauses /\ "drain" \notin Loops
    /\ "fill" \in Pauses /\ "fill" \notin Loops /\ "fill" \in Places
  BY DEF Pauses, Steps, Loops, Places

LEMMA DrainEndsStep == ASSUME IInv, DrainEnds PROVE IInv'
<1>1. run.pc = "drain" /\ run' = Goto(run, "fill")
  BY DEF DrainEnds
<1>2. run' \in RunType /\ run'.pc = "fill" /\ run'.lease = 0 /\ run'.child = 0 /\ run'.todo = {}
  BY <1>1, DrainPlace, InStep, GotoFields
<1>3. upsets' \in 0 .. MaxUpsets
  BY UpsetType DEF DrainEnds, IInv, Stored, StoreTyped
<1>4. Stored' /\ Open' = Open /\ AllNamed'
  BY <1>1, <1>3, DrainPlace, InStep, StoreSame DEF DrainEnds
<1> QED BY <1>2, <1>4, DrainPlace, StepMove

LEMMA DrainFailsStep == ASSUME IInv, DrainFails PROVE IInv'
<1>1. run.pc = "drain" /\ run' = [run EXCEPT !.pc = "fill", !.left = 0]
  BY DEF DrainFails
<1>2. run' \in RunType /\ run'.pc = "fill" /\ run'.lease = 0 /\ run'.child = 0 /\ run'.todo = {}
  BY <1>1, DrainPlace, InStep, ToFill
<1>3. upsets' \in 0 .. MaxUpsets
  BY UpsetType DEF DrainFails, IInv, Stored, StoreTyped
<1>4. Stored' /\ Open' = Open /\ AllNamed'
  BY <1>1, <1>3, DrainPlace, InStep, StoreSame DEF DrainFails
<1> QED BY <1>2, <1>4, DrainPlace, StepMove

LEMMA IngestedType ==
    ASSUME hub \in HubType, NEW f \in FactType
    PROVE  Ingested(f) \in HubType /\ Ingested(f).landed = hub.landed
<1>1. f.epoch \in 0 .. MaxEpoch
  BY Bounds DEF FactType, Epochs
<1> DEFINE a == [hub EXCEPT !.epoch = f.epoch, !.owner = "us", !.esc = 0]
           b == [hub EXCEPT !.esc = f.epoch]
<1>2. a \in HubType /\ b \in HubType /\ a.landed = hub.landed /\ b.landed = hub.landed
  BY <1>1, Zeros DEF HubType
<1>3. Ingested(f) \in {hub, a, b}
  BY DEF Ingested
<1> HIDE DEF a, b
<1> QED BY <1>2, <1>3

LEMMA AppliedType ==
    ASSUME hub \in HubType, NEW e \in Epochs, NEW a \in Applied(e)
    PROVE  /\ a[2] \in HubType /\ a[1] \in Outcomes \cup {"FAILURE"}
           /\ \A f \in Epochs : hub.landed[f] # "none" => a[2].landed[f] # "none"
           /\ a[1] # "FAILURE" => a[2].landed[e] # "none"
<1>0. "none" \notin Outcomes /\ "FAILURE" \notin Outcomes
  BY DEF Outcomes
<1>1. CASE hub.landed[e] # "none"
  <2>1. a = <<hub.landed[e], hub>>
    BY <1>1 DEF Applied
  <2>2. hub.landed[e] \in Outcomes
    BY <1>1 DEF HubType
  <2> QED BY <2>1, <2>2, <1>1
<1>2. CASE /\ hub.landed[e] = "none"
           /\ hub.end # "no" \/ e # hub.epoch \/ hub.owner # "us" \/ hub.at = "hub" \/ hub.esc = e
  <2>1. a = <<"FAILURE", hub>>
    BY <1>2 DEF Applied
  <2> QED BY <2>1
<1>3. CASE /\ hub.landed[e] = "none"
           /\ ~(hub.end # "no" \/ e # hub.epoch \/ hub.owner # "us" \/ hub.at = "hub" \/ hub.esc = e)
  <2>1. PICK o \in Outcomes : a = <<o, [hub EXCEPT !.landed[e] = o,
                           !.at = IF o = "HUB_NODE_TAKEN" THEN "hub" ELSE "runner",
                           !.end = IF o = "DONE" THEN "done" ELSE @,
                           !.route = IF o = "MIGRATED" THEN "none" ELSE @]>>
    BY <1>3 DEF Applied
  <2> DEFINE L == [hub.landed EXCEPT ![e] = o]
             at == IF o = "HUB_NODE_TAKEN" THEN "hub" ELSE "runner"
             end == IF o = "DONE" THEN "done" ELSE hub.end
             route == IF o = "MIGRATED" THEN "none" ELSE hub.route
  <2>2. a = <<o, [hub EXCEPT !.landed = L, !.at = at, !.end = end, !.route = route]>>
    BY <2>1 DEF HubType
  <2>3. /\ L \in [Epochs -> {"none"} \cup Outcomes] /\ L[e] = o
        /\ \A f \in Epochs \ {e} : L[f] = hub.landed[f]
    BY DEF HubType
  <2>4. at \in {"runner", "hub"} /\ end \in {"no", "stopped", "done"}
        /\ route \in {"none", "us", "other"}
    BY DEF HubType
  <2> HIDE DEF L, at, end, route
  <2>5. a[1] = o /\ a[2] \in HubType /\ a[2].landed = L
    BY <2>2, <2>3, <2>4 DEF HubType
  <2> QED BY <2>3, <2>5, <1>0
<1> QED BY <1>1, <1>2, <1>3

LEMMA TailFacts ==
    ASSUME outbox \in Seq(FactType), Len(outbox) > 0
    PROVE  /\ Head(outbox) = outbox[1] /\ Head(outbox) \in FactType
           /\ 1 \in 1 .. Len(outbox)
           /\ Tail(outbox) \in Seq(FactType) /\ Len(Tail(outbox)) = Len(outbox) - 1
           /\ \A i \in 1 .. Len(outbox) - 1 : /\ i + 1 \in 1 .. Len(outbox)
                                              /\ Tail(outbox)[i] = outbox[i + 1]
<1>1. Len(outbox) \in Nat /\ outbox # <<>>
  OBVIOUS
<1>2. Head(outbox) = outbox[1] /\ Head(outbox) \in FactType
  BY <1>1
<1>3. Tail(outbox) \in Seq(FactType) /\ Len(Tail(outbox)) = Len(outbox) - 1
  BY <1>1
<1>4. \A i \in 1 .. Len(outbox) - 1 : Tail(outbox)[i] = outbox[i + 1]
  BY <1>1, <1>3
<1>5. \A i \in 1 .. Len(outbox) - 1 : i + 1 \in 1 .. Len(outbox)
  BY <1>1
<1> QED BY <1>1, <1>2, <1>3, <1>4, <1>5

\* The oldest entry is acknowledged.
LEMMA StoredTail ==
    ASSUME Stored, hub' \in HubType, LandedGrows, Len(outbox) > 0, outbox' = Tail(outbox),
           UNCHANGED <<leases, envs, floor, procs>>, upsets' \in 0 .. MaxUpsets
    PROVE  /\ Stored' /\ Open' = Open /\ Len(outbox') = Len(outbox) - 1
           /\ AllNamed => AllNamed'
<1> DEFINE n == Len(outbox)
<1>1. /\ n \in Nat /\ outbox' \in Seq(FactType) /\ Len(outbox') = n - 1
      /\ \A i \in 1 .. n - 1 : i + 1 \in 1 .. n /\ outbox'[i] = outbox[i + 1]
  BY TailFacts, BoxTyped DEF Stored, StoreTyped
<1>2. Open' = Open /\ Open \subseteq Epochs
  BY DEF Open
<1> HIDE DEF n
<1>3. StoreTyped'
  BY <1>1 DEF Stored, StoreTyped
<1>4. LeasesSound'
  BY <1>2 DEF Stored, LeasesSound
<1>5. \A e : pending_submission(e)' => pending_submission(e)
  <2> SUFFICES ASSUME NEW e, NEW i \in 1 .. Len(outbox'),
                      outbox'[i].kind = "completion", outbox'[i].epoch = e
               PROVE  pending_submission(e)
    BY DEF pending_submission
  <2>1. i + 1 \in 1 .. n /\ outbox'[i] = outbox[i + 1]
    BY <1>1
  <2> QED BY <2>1 DEF pending_submission, n
<1>6. PendingQuiet'
  BY <1>2, <1>5 DEF Stored, PendingQuiet, Named
<1>7. \A i, j \in 1 .. n - 1 :
          outbox'[i].kind = outbox'[j].kind /\ outbox'[i].epoch = outbox'[j].epoch => i = j
  <2> SUFFICES ASSUME NEW i \in 1 .. n - 1, NEW j \in 1 .. n - 1,
                      outbox'[i].kind = outbox'[j].kind, outbox'[i].epoch = outbox'[j].epoch
               PROVE  i = j
    OBVIOUS
  <2>1. i + 1 \in 1 .. n /\ j + 1 \in 1 .. n
        /\ outbox'[i] = outbox[i + 1] /\ outbox'[j] = outbox[j + 1]
    BY <1>1
  <2>2. i + 1 = j + 1
    BY <2>1 DEF Stored, BoxSound, n
  <2> QED BY <2>2, <1>1
<1>8. \A i \in 1 .. n - 1 :
          /\ leases'[outbox'[i].epoch] # NoLease
          /\ outbox'[i].kind = "escalation" =>
                leases'[outbox'[i].epoch].reason \in {"escalated", "resolved"}
  <2> SUFFICES ASSUME NEW i \in 1 .. n - 1
               PROVE  /\ leases'[outbox'[i].epoch] # NoLease
                      /\ outbox'[i].kind = "escalation" =>
                            leases'[outbox'[i].epoch].reason \in {"escalated", "resolved"}
    OBVIOUS
  <2>1. i + 1 \in 1 .. n /\ outbox'[i] = outbox[i + 1]
    BY <1>1
  <2> QED BY <2>1 DEF Stored, BoxSound, n
<1>9. BoxSound'
  BY <1>1, <1>7, <1>8 DEF BoxSound
<1>10. ClosedMeansLanded'
  BY DEF Stored, ClosedMeansLanded, LandedGrows
<1>11. AllNamed => AllNamed'
  BY <1>2 DEF AllNamed, Named
<1> QED BY <1>1, <1>2, <1>3, <1>4, <1>6, <1>9, <1>10, <1>11 DEF Stored, n

\* The oldest entry is sent, with what is left of the drain.
LEMMA HeadSent ==
    ASSUME IInv, run.pc = "drain", run.left > 0
    PROVE  /\ Len(outbox) > 0 /\ Head(outbox) \in FactType /\ Head(outbox).epoch \in Epochs
           /\ Head(outbox) = outbox[1] /\ 1 \in 1 .. Len(outbox)
           /\ Len(outbox) \in Nat /\ outbox \in Seq(FactType)
<1>1. Len(outbox) \in Nat /\ outbox \in Seq(FactType)
  BY BoxTyped DEF IInv, Stored, StoreTyped
<1>2. run.left <= Len(outbox) /\ run.left \in Nat
  BY DrainPlace, InStep
<1>3. Len(outbox) > 0
  BY <1>1, <1>2
<1> QED BY <1>1, <1>3, TailFacts DEF FactType

\* An acknowledged entry leaves the drain one less to do.
LEMMA Acked ==
    ASSUME run \in RunType, run.left > 0
    PROVE  LET s == [Unread(run) EXCEPT !.left = @ - 1] IN
           /\ s \in RunType /\ s.pc = run.pc /\ s.lease = run.lease /\ s.child = run.child
           /\ s.todo = run.todo /\ s.left = run.left - 1 /\ s.back = run.back
<1> DEFINE k == run.left - 1
           u == Unread(run)
<1>1. k \in 0 .. (3 * MaxEpoch + Agents)
  BY RunFields, Bounds
<1>2. /\ u \in RunType /\ u.pc = run.pc /\ u.lease = run.lease /\ u.child = run.child
      /\ u.todo = run.todo /\ u.left = run.left /\ u.back = run.back
  BY DEF Unread, RunType
<1>3. [Unread(run) EXCEPT !.left = @ - 1] = [u EXCEPT !.left = k]
  BY <1>2 DEF RunType
<1> HIDE DEF k, u
<1>4. LET s == [Unread(run) EXCEPT !.left = @ - 1] IN
           /\ s \in RunType /\ s.pc = run.pc /\ s.lease = run.lease /\ s.child = run.child
           /\ s.todo = run.todo /\ s.left = k /\ s.back = run.back
  BY <1>1, <1>2, <1>3 DEF RunType
<1> QED BY <1>4 DEF k

LEMMA AckedMove ==
    ASSUME IInv, run.pc = "drain", run.left > 0, run' = [Unread(run) EXCEPT !.left = @ - 1],
           Stored', Open' = Open, AllNamed', Len(outbox') = Len(outbox) - 1
    PROVE  IInv'
<1>1. /\ run' \in RunType /\ run'.pc = "drain" /\ run'.lease = 0 /\ run'.child = 0
      /\ run'.todo = {} /\ run'.left = run.left - 1
  BY DrainPlace, InStep, Acked
<1>2. run'.left <= Len(outbox')
  BY <1>1, DrainPlace, InStep, HeadSent
<1> QED BY <1>1, <1>2, DrainPlace, InStep, Arrive, CountedSame

LEMMA PushFactStep == ASSUME IInv, PushFact PROVE IInv'
<1>1. /\ run.pc = "drain" /\ run.left > 0 /\ hub' = Ingested(Head(outbox))
      /\ outbox' = Tail(outbox) /\ run' = [Unread(run) EXCEPT !.left = @ - 1]
      /\ UNCHANGED <<leases, envs, floor, procs>> /\ Calm
  BY DEF PushFact
<1>2. hub' \in HubType /\ LandedGrows
  BY <1>1, HeadSent, IngestedType DEF LandedGrows, IInv, Stored, StoreTyped
<1>3. upsets' \in 0 .. MaxUpsets
  BY <1>1, UpsetType DEF IInv, Stored, StoreTyped
<1>4. Stored' /\ Open' = Open /\ Len(outbox') = Len(outbox) - 1 /\ (AllNamed => AllNamed')
  BY <1>1, <1>2, <1>3, HeadSent, StoredTail DEF IInv
<1> QED BY <1>1, <1>4, DrainPlace, InStep, AckedMove

\* The outbox' entries are for the same leases and of the same kinds.
LEMMA StoredResent ==
    ASSUME Stored, hub' \in HubType, LandedGrows, outbox' \in Seq(FactType),
           Len(outbox') = Len(outbox),
           \A i \in 1 .. Len(outbox) : /\ outbox'[i].kind = outbox[i].kind
                                       /\ outbox'[i].epoch = outbox[i].epoch,
           UNCHANGED <<leases, envs, floor, procs>>, upsets' \in 0 .. MaxUpsets
    PROVE  /\ Stored' /\ Open' = Open
           /\ AllNamed => AllNamed'
<1>1. Open' = Open
  BY DEF Open
<1>2. StoreTyped'
  BY DEF Stored, StoreTyped
<1>3. LeasesSound'
  BY <1>1 DEF Stored, LeasesSound
<1>4. \A e : pending_submission(e)' => pending_submission(e)
  BY DEF pending_submission
<1>5. PendingQuiet'
  BY <1>1, <1>4 DEF Stored, PendingQuiet, Named
<1>6. BoxSound'
  BY DEF Stored, BoxSound
<1>7. ClosedMeansLanded'
  BY DEF Stored, ClosedMeansLanded, LandedGrows
<1>8. AllNamed => AllNamed'
  BY <1>1 DEF AllNamed, Named
<1> QED BY <1>1, <1>2, <1>3, <1>5, <1>6, <1>7, <1>8 DEF Stored

LEMMA Prepend ==
    ASSUME NEW g \in FactType, NEW t \in Seq(FactType)
    PROVE  /\ <<g>> \o t \in Seq(FactType) /\ Len(<<g>> \o t) = Len(t) + 1
           /\ (<<g>> \o t)[1] = g
           /\ \A i \in 1 .. Len(t) : (<<g>> \o t)[i + 1] = t[i]
<1> DEFINE u == <<g>>
           s == u \o t
<1>1. u \in Seq(FactType) /\ Len(u) = 1 /\ u[1] = g /\ Len(t) \in Nat
  OBVIOUS
<1> HIDE DEF u
<1>2. /\ u \o t \in Seq(FactType) /\ Len(u \o t) = Len(u) + Len(t)
      /\ \A i \in 1 .. Len(u) + Len(t) :
            (u \o t)[i] = IF i <= Len(u) THEN u[i] ELSE t[i - Len(u)]
  BY <1>1, ConcatProperties, Zenon
<1> HIDE DEF s
<1>3. /\ s \in Seq(FactType) /\ Len(s) = Len(u) + Len(t)
      /\ \A i \in 1 .. Len(u) + Len(t) : s[i] = IF i <= Len(u) THEN u[i] ELSE t[i - Len(u)]
  BY <1>2, Zenon DEF s
<1>4. s[1] = g /\ Len(s) = Len(t) + 1
  BY <1>1, <1>3
<1>5. \A i \in 1 .. Len(t) : s[i + 1] = t[i]
  <2> SUFFICES ASSUME NEW i \in 1 .. Len(t) PROVE s[i + 1] = t[i]
    OBVIOUS
  <2>1. i + 1 \in 1 .. Len(u) + Len(t) /\ ~(i + 1 <= Len(u)) /\ (i + 1) - Len(u) = i
    BY <1>1
  <2> QED BY <2>1, <1>3
<1> QED BY <1>3, <1>4, <1>5, Zenon DEF s, u

LEMMA PushUnansweredStep == ASSUME IInv, PushUnanswered PROVE IInv'
<1>1. /\ run.pc = "drain" /\ run.left > 0 /\ hub' = Ingested(Head(outbox))
      /\ outbox' = <<[Head(outbox) EXCEPT !.seen = TRUE]>> \o Tail(outbox)
      /\ run' = [run EXCEPT !.pc = "fill", !.left = 0]
      /\ UNCHANGED <<leases, envs, floor, procs>> /\ Upset
  BY DEF PushUnanswered
<1>2. hub' \in HubType /\ LandedGrows
  BY <1>1, HeadSent, IngestedType DEF LandedGrows, IInv, Stored, StoreTyped
<1>3. upsets' \in 0 .. MaxUpsets
  BY <1>1, UpsetType DEF IInv, Stored, StoreTyped
<1> DEFINE n == Len(outbox)
<1>4. PICK f, t :
        /\ f = Head(outbox) /\ t = Tail(outbox)
        /\ f \in FactType /\ f = outbox[1] /\ t \in Seq(FactType) /\ Len(t) = n - 1 /\ n \in Nat
        /\ n > 0 /\ \A i \in 1 .. n - 1 : t[i] = outbox[i + 1]
  BY <1>1, HeadSent, TailFacts
<1> HIDE DEF n
<1>5. PICK g : g = [f EXCEPT !.seen = TRUE]
  OBVIOUS
<1>6. g \in FactType /\ g.kind = f.kind /\ g.epoch = f.epoch
  BY <1>4, <1>5 DEF FactType
<1>7. outbox' = <<g>> \o t
  BY <1>1, <1>4, <1>5
<1>8. /\ outbox' \in Seq(FactType) /\ Len(outbox') = Len(t) + 1 /\ outbox'[1] = g
       /\ \A i \in 1 .. Len(t) : outbox'[i + 1] = t[i]
  BY <1>4, <1>6, <1>7, Prepend, Zenon
<1>9. \A i \in 1 .. n : i = 1 \/ (i - 1 \in 1 .. n - 1 /\ i = (i - 1) + 1)
  BY <1>4
<1>10. \A i \in 1 .. n - 1 : outbox'[i + 1] = outbox[i + 1]
  BY <1>4, <1>8
<1>11. \A i \in 1 .. n : outbox'[i].kind = outbox[i].kind /\ outbox'[i].epoch = outbox[i].epoch
  <2> SUFFICES ASSUME NEW i \in 1 .. n
               PROVE  outbox'[i].kind = outbox[i].kind /\ outbox'[i].epoch = outbox[i].epoch
    OBVIOUS
  <2>1. CASE i = 1
    BY <2>1, <1>4, <1>6, <1>8
  <2>2. CASE i # 1
    <3>1. i - 1 \in 1 .. n - 1 /\ i = (i - 1) + 1
      BY <2>2, <1>9
    <3>2. outbox'[(i - 1) + 1] = outbox[(i - 1) + 1]
      BY <3>1, <1>10
    <3> QED BY <3>1, <3>2
  <2> QED BY <2>1, <2>2
<1>12. Len(outbox') = n
  BY <1>4, <1>8
<1>13. Stored' /\ Open' = Open /\ (AllNamed => AllNamed')
  BY <1>1, <1>2, <1>3, <1>8, <1>11, <1>12, StoredResent DEF IInv, n
<1>14. run' \in RunType /\ run'.pc = "fill" /\ run'.lease = 0 /\ run'.child = 0 /\ run'.todo = {}
  BY <1>1, DrainPlace, InStep, ToFill
<1> QED BY <1>1, <1>13, <1>14, DrainPlace, InStep, StepMove

LEMMA SubmitUnansweredStep == ASSUME IInv, SubmitUnanswered PROVE IInv'
<1>1. /\ run.pc = "drain" /\ run.left > 0 /\ Upset
      /\ run' = [run EXCEPT !.pc = "fill", !.left = 0]
      /\ UNCHANGED <<leases, envs, floor, outbox, procs>>
      /\ \E a \in Applied(Head(outbox).epoch) : hub' = a[2]
  BY DEF SubmitUnanswered, store
<1>2. hub' \in HubType /\ LandedGrows
  BY <1>1, HeadSent, AppliedType DEF LandedGrows, IInv, Stored, StoreTyped
<1>3. upsets' \in 0 .. MaxUpsets
  BY <1>1, UpsetType DEF IInv, Stored, StoreTyped
<1>4. Stored' /\ Open' = Open /\ (AllNamed => AllNamed')
  BY <1>1, <1>2, <1>3, EnvsStored DEF IInv, Stored, StoreTyped
<1>5. run' \in RunType /\ run'.pc = "fill" /\ run'.lease = 0 /\ run'.child = 0 /\ run'.todo = {}
  BY <1>1, DrainPlace, InStep, ToFill
<1> QED BY <1>1, <1>4, <1>5, DrainPlace, InStep, StepMove

LEMMA SubmitCompletionStep == ASSUME IInv, SubmitCompletion PROVE IInv'
<1> DEFINE acked == [Unread(run) EXCEPT !.left = @ - 1]
<1>0. PICK e : e = Head(outbox).epoch
  OBVIOUS
<1>1. /\ run.pc = "drain" /\ run.left > 0 /\ Head(outbox).kind = "completion"
      /\ outbox' = Tail(outbox) /\ UNCHANGED <<leases, envs, floor, procs>> /\ Calm
  BY DEF SubmitCompletion
<1>2. PICK a \in Applied(e) :
        /\ hub' = a[2]
        /\ run' = IF e \in Open
                  THEN [acked EXCEPT !.pc = "consume", !.back = "drain", !.lease = e,
                                     !.kind = a[1], !.env = a[2].epoch]
                  ELSE acked
  BY <1>0 DEF SubmitCompletion
<1>3. e \in Epochs /\ pending_submission(e)
  BY <1>0, <1>1, HeadSent DEF pending_submission
<1>4. /\ hub' \in HubType /\ LandedGrows /\ a[1] \in Outcomes \cup {"FAILURE"}
      /\ a[1] # "FAILURE" => hub'.landed[e] # "none"
  BY <1>2, <1>3, AppliedType DEF LandedGrows, IInv, Stored, StoreTyped
<1>5. upsets' \in 0 .. MaxUpsets
  BY <1>1, UpsetType DEF IInv, Stored, StoreTyped
<1>6. Stored' /\ Open' = Open /\ Len(outbox') = Len(outbox) - 1 /\ (AllNamed => AllNamed')
  BY <1>1, <1>4, <1>5, HeadSent, StoredTail DEF IInv
<1>7. AllNamed'
  BY <1>1, <1>6, DrainPlace, InStep
<1>8. CASE e \notin Open
  BY <1>1, <1>2, <1>6, <1>7, <1>8, AckedMove
<1>9. CASE e \in Open
  <2>1. /\ acked \in RunType /\ acked.lease = 0 /\ acked.child = 0 /\ acked.todo = {}
        /\ acked.left = run.left - 1
    BY <1>1, DrainPlace, InStep, Acked
  <2> HIDE DEF acked
  <2>2. e \in 0 .. MaxEpoch /\ hub'.epoch \in 0 .. MaxEpoch /\ "consume" \in Places /\ "drain" \in Steps
    BY <1>3, <1>4, Bounds DEF Epochs, HubType, Places, Steps
  <2>3. run' = [acked EXCEPT !.pc = "consume", !.back = "drain", !.lease = e,
                             !.kind = a[1], !.env = hub'.epoch]
    BY <1>2, <1>9
  <2>4. /\ run' \in RunType /\ run'.pc = "consume" /\ run'.back = "drain" /\ run'.lease = e
        /\ run'.kind = a[1] /\ run'.child = 0 /\ run'.todo = {} /\ run'.left = run.left - 1
    BY <2>1, <2>2, <2>3, <1>4 DEF RunType
  <2>5. "consume" \notin Pauses /\ "consume" \notin Launching
    BY DEF Pauses, Steps, Launching
  <2>6. Stepping' = "drain"
    BY <2>4, <2>5 DEF Stepping
  <2>7. run'.left <= Len(outbox')
    BY <2>4, <1>1, <1>6, DrainPlace, InStep, HeadSent
  <2>8. InHand'
    BY <2>4, <2>5, <2>6, <2>7, <1>6, <1>9 DEF InHand
  <2>9. EnvInHand'
    BY <2>4 DEF EnvInHand
  <2>10. SlotFree'
    BY <2>4, <2>6, <1>1, <1>6, DrainPlace, InStep, CountedSame DEF SlotFree
  <2>11. ChildKnown'
    BY <2>4 DEF ChildKnown
  <2>12. NoForgottenWorker'
    BY <1>7 DEF AllNamed, NoForgottenWorker, Named
  <2>13. Named(e) \cap procs = {}
    BY <1>3, <1>9 DEF IInv, Stored, PendingQuiet
  <2>14. QuietInHand'
    BY <2>4, <2>5, <2>13, <1>1, <1>4 DEF QuietInHand, Named
  <2> QED BY <2>4, <2>8, <2>9, <2>10, <2>11, <2>12, <2>14, <1>6 DEF IInv, TickSound
<1> QED BY <1>8, <1>9

LEMMA ConsumeStep == ASSUME IInv, Consume PROVE IInv'
<1>1. /\ run.pc = "consume" /\ run.pc \in Ending /\ run.pc \in Quiet /\ Calm
      /\ UNCHANGED <<hub, envs, floor, outbox, procs>>
  BY DEF Consume, Ending, Quiet
<1>2. CASE run.kind = "FAILURE"
  <2>1. run' = [run EXCEPT !.pc = "failing", !.kind = "none", !.env = 0] /\ UNCHANGED leases
    BY <1>2 DEF Consume
  <2>2. "failing" \in Places /\ "failing" \notin Quiet
    BY DEF Places, Quiet
  <2>3. /\ run' \in RunType /\ run'.pc = "failing" /\ run'.back = run.back
        /\ run'.todo = run.todo /\ run'.lease = run.lease /\ run'.left = run.left
        /\ run'.child = 0
    BY <2>1, <2>2, <1>1, EndingFacts, Zeros DEF RunType
  <2>4. upsets' \in 0 .. MaxUpsets
    BY <1>1, UpsetType DEF IInv, Stored, StoreTyped
  <2>5. Stored' /\ Open' = Open /\ AllNamed'
    BY <2>1, <2>4, <1>1, EndingFacts, StoreSame DEF store
  <2> QED BY <2>2, <2>3, <2>5, <1>1, EndingFacts, HoldMove
<1>3. CASE run.kind # "FAILURE"
  <2>1. run' = Goto(run, "apply") /\ Put(run.lease, Closed("transitioned"))
    BY <1>3 DEF Consume
  <2>2. hub.landed[run.lease] # "none" /\ run.back = "drain"
    BY <1>1, <1>3 DEF IInv, TickSound, QuietInHand, InHand
  <2>3. "transitioned" \in Reasons
    BY DEF Reasons
  <2>4. Stored' /\ Open' = Open \ {run.lease} /\ AllNamed'
    BY <2>1, <2>2, <2>3, <1>1, CloseStep DEF Calm
  <2>5. "apply" \in Places /\ "apply" \notin Pauses /\ "apply" \notin Holding
        /\ "apply" \notin Launching /\ "apply" \notin Quiet
    BY DEF Places, Pauses, Steps, Holding, Launching, Quiet
  <2>6. /\ run' \in RunType /\ run'.pc = "apply" /\ run'.back = "drain"
        /\ run'.todo = run.todo /\ run'.lease = run.lease /\ run'.left = run.left
        /\ run'.child = 0
    BY <2>1, <2>2, <2>5, <1>1, EndingFacts, GotoFields
  <2>7. Stepping' = "drain"
    BY <2>5, <2>6 DEF Stepping
  <2>8. Counted' <= Counted /\ (Counted <= Agents => Counted' < Agents)
    BY <2>4, <1>1, EndingFacts, CountedLess, CountedNat, CountedPrime
  <2>9. /\ run.todo = {} /\ run.left <= Len(outbox) /\ Counted <= Agents
    BY <2>2, <1>1, EndingFacts, InCall, LoopsPause
  <2>10. InHand'
    BY <2>5, <2>6, <2>7, <2>9, <1>1 DEF InHand
  <2>11. EnvInHand'
    BY <2>6 DEF EnvInHand
  <2>12. SlotFree'
    BY <2>6, <2>7, <2>8, <2>9, Bounds, CountedNat, CountedPrime DEF SlotFree
  <2>13. ChildKnown'
    BY <2>6 DEF ChildKnown
  <2>14. NoForgottenWorker'
    BY <2>4 DEF AllNamed, NoForgottenWorker, Named
  <2>15. QuietInHand'
    BY <2>5, <2>6 DEF QuietInHand
  <2> QED BY <2>4, <2>6, <2>10, <2>11, <2>12, <2>13, <2>14, <2>15 DEF IInv, TickSound
<1> QED BY <1>2, <1>3

LEMMA ApplyStep == ASSUME IInv, Apply PROVE IInv'
<1>1. /\ run.pc = "apply" /\ run.pc \notin Pauses /\ run.pc \notin {"record", "confirm"}
      /\ UNCHANGED <<hub, leases, outbox, procs>>
  BY DEF Apply, Pauses, Steps
<1>2. AllNamed /\ run.child = 0 /\ run.back = "drain" /\ Counted < Agents
  BY <1>1, Unarmed DEF IInv, TickSound, InHand, SlotFree
<1>3. (ReleaseChunk \/ KeepEnvs) /\ upsets' \in 0 .. MaxUpsets
      /\ \E v \in Views : run' = Return(With(v)) \/ run' = Goto(With(v), "mint")
  <2>1. CASE \E v \in {run.view, HubView, NoView} :
                /\ Sees(v) /\ KeepEnvs
                /\ run' = IF chunk_paused(v) THEN Return(With(v)) ELSE Goto(With(v), "mint")
    <3>1. PICK v : /\ Sees(v) /\ KeepEnvs
                   /\ run' = IF chunk_paused(v) THEN Return(With(v)) ELSE Goto(With(v), "mint")
      BY <2>1
    <3>2. v \in Views /\ upsets' \in 0 .. MaxUpsets
      BY <3>1, <1>1, InCall, SeesType
    <3> QED BY <3>1, <3>2
  <2>2. CASE (ReleaseChunk \/ KeepEnvs) /\ Calm /\ run' = Return(run)
    <3>1. upsets' \in 0 .. MaxUpsets
      BY <2>2, UpsetType DEF IInv, Stored, StoreTyped
    <3>2. With(run.view) = run /\ run.view \in Views
      BY <1>1, InCall
    <3> QED BY <2>2, <3>1, <3>2
  <2> QED BY <2>1, <2>2 DEF Apply
<1>4. Stored' /\ Open' = Open /\ AllNamed'
  BY <1>1, <1>2, <1>3, InCall, ReleaseTyped, EnvsStored DEF LandedGrows, StoreTyped
<1>5. PICK v \in Views : run' = Return(With(v)) \/ run' = Goto(With(v), "mint")
  BY <1>3
<1>6. CASE run' = Return(With(v))
  BY <1>1, <1>4, <1>6, ReturnSame
<1>7. CASE run' = Goto(With(v), "mint")
  <2>1. "mint" \in Places
    BY DEF Places
  <2>2. /\ With(v) \in RunType /\ With(v).back = run.back /\ With(v).todo = run.todo
        /\ With(v).lease = run.lease /\ With(v).left = run.left /\ With(v).child = run.child
    BY <1>1, InCall, WithFields
  <2>3. /\ run' \in RunType /\ run'.pc = "mint" /\ run'.back = run.back /\ run'.todo = run.todo
        /\ run'.lease = run.lease /\ run'.left = run.left /\ run'.child = 0
    BY <2>1, <2>2, <1>2, <1>7, GotoFields
  <2> QED BY <2>3, <1>1, <1>2, <1>4, InCall, MintMove, CountedSame
<1> QED BY <1>5, <1>6, <1>7

-----------------------------------------------------------------------------
(* The fill *)

\* A step without leases of its own starts a call.
LEMMA CallMove ==
    ASSUME Stored', run' \in RunType, run'.pc \in {"envelope", "reclaiming"}, run'.child = 0,
           run'.lease = 0, run'.todo = {}, run'.back \notin {"drain", "claim"},
           Open' = {}, run'.pc = "reclaiming" => envs' > 0, AllNamed'
    PROVE  IInv'
<1>1. run'.pc \notin Pauses /\ run'.pc \notin Holding /\ run'.pc \notin Launching
      /\ run'.pc \notin Quiet
  BY DEF Pauses, Steps, Holding, Launching, Quiet
<1>2. Stepping' = run'.back
  BY <1>1 DEF Stepping
<1>3. Counted' < Agents
  BY FS_EmptySet, Bounds DEF Counted
<1>4. InHand'
  BY <1>1, <1>2 DEF InHand
<1>5. EnvInHand'
  BY DEF EnvInHand
<1>6. Counted' \in Nat
  BY CountedPrime
<1>7. SlotFree'
  BY <1>2, <1>3, <1>6, Bounds DEF SlotFree
<1>8. ChildKnown'
  BY DEF ChildKnown
<1>9. NoForgottenWorker'
  BY DEF AllNamed, NoForgottenWorker, Named
<1>10. QuietInHand'
  BY <1>1 DEF QuietInHand
<1> QED BY <1>4, <1>5, <1>7, <1>8, <1>9, <1>10 DEF IInv, TickSound

LEMMA InterruptedClaimStep == ASSUME IInv, InterruptedClaim PROVE IInv'
<1>1. run.pc = "fill" /\ UNCHANGED <<hub, leases, outbox, procs>>
  BY DEF InterruptedClaim
<1>2. /\ run \in RunType /\ StoreTyped /\ run.lease = 0 /\ run.child = 0 /\ AllNamed
      /\ run.todo = {} /\ With(run.view) = run /\ run.view \in Views
  BY <1>1, DrainPlace, InStep
<1>3. /\ upsets' \in 0 .. MaxUpsets /\ (ReleaseChunk \/ KeepEnvs)
      /\ \E v \in Views :
            \/ run' = Goto(With(v), "slots")
            \/ /\ Open = {}
               /\ run' = [With(v) EXCEPT !.pc = "envelope", !.back = "slots"]
            \/ /\ Open = {} /\ envs' > 0
               /\ run' = [With(v) EXCEPT !.pc = "reclaiming", !.back = "slots"]
  <2>1. CASE envs = 0 \/ Open # {}
    <3>1. run' = Goto(run, "slots") /\ Calm /\ KeepEnvs
      BY <2>1 DEF InterruptedClaim
    <3>2. upsets' \in 0 .. MaxUpsets
      BY <3>1, <1>2, UpsetType DEF StoreTyped
    <3> QED BY <3>1, <3>2, <1>2
  <2>2. CASE ~(envs = 0 \/ Open # {})
    <3>1. PICK v \in {run.view, HubView, NoView} :
              LET move == IF v = NoView THEN "hold" ELSE interrupted_claim_move(v)
              IN  /\ Sees(v)
                  /\ IF move = "release" THEN ReleaseChunk ELSE KeepEnvs
                  /\ \/ /\ move = "adopt"
                        /\ \E kept \in {v, NoView} :
                              run' = [With(kept) EXCEPT !.pc = "envelope", !.back = "slots"]
                     \/ /\ move = "reclaim"
                        /\ run' = [With(v) EXCEPT !.pc = "reclaiming", !.back = "slots"]
                     \/ move \in {"hold", "release"} /\ run' = Goto(With(v), "slots")
      BY <2>2 DEF InterruptedClaim
    <3>2. v \in Views /\ NoView \in Views /\ upsets' \in 0 .. MaxUpsets
      BY <3>1, <1>2, SeesType, HubViewType DEF StoreTyped
    <3>3. envs > 0
      BY <2>2, <1>2, Bounds DEF StoreTyped
    <3>4. KeepEnvs => envs' > 0
      BY <3>3 DEF KeepEnvs
    <3> QED BY <2>2, <3>1, <3>2, <3>4
  <2> QED BY <2>1, <2>2
<1>4. Stored' /\ Open' = Open /\ AllNamed'
  BY <1>1, <1>2, <1>3, ReleaseTyped, EnvsStored DEF LandedGrows, StoreTyped
<1>5. PICK v \in Views :
            \/ run' = Goto(With(v), "slots")
            \/ /\ Open = {}
               /\ run' = [With(v) EXCEPT !.pc = "envelope", !.back = "slots"]
            \/ /\ Open = {} /\ envs' > 0
               /\ run' = [With(v) EXCEPT !.pc = "reclaiming", !.back = "slots"]
  BY <1>3
<1>6. /\ With(v) \in RunType /\ With(v).todo = {} /\ With(v).lease = 0 /\ With(v).child = 0
  BY <1>2, WithFields
<1>7. "slots" \in Steps /\ {"slots", "envelope", "reclaiming"} \subseteq Places
      /\ "slots" \in Pauses
  BY DEF Steps, Places, Pauses
<1>8. CASE run' = Goto(With(v), "slots")
  <2>1. run' \in RunType /\ run'.pc = "slots" /\ run'.lease = 0 /\ run'.child = 0 /\ run'.todo = {}
    BY <1>6, <1>7, <1>8, GotoFields
  <2> QED BY <2>1, <1>4, <1>7, StepMove
<1>9. CASE /\ Open = {}
           /\ \E p \in {"envelope", "reclaiming"} :
                 /\ run' = [With(v) EXCEPT !.pc = p, !.back = "slots"]
                 /\ p = "reclaiming" => envs' > 0
  <2>1. PICK p \in {"envelope", "reclaiming"} :
                 /\ run' = [With(v) EXCEPT !.pc = p, !.back = "slots"]
                 /\ p = "reclaiming" => envs' > 0
    BY <1>9
  <2>2. /\ run' \in RunType /\ run'.pc = p /\ run'.back = "slots" /\ run'.lease = 0
        /\ run'.child = 0 /\ run'.todo = {}
    BY <2>1, <1>6, <1>7 DEF RunType
  <2> QED BY <2>1, <2>2, <1>4, <1>9, CallMove
<1> QED BY <1>5, <1>8, <1>9

LEMMA AdvanceMove ==
    ASSUME IInv, Stored', NEW r \in RunType, r.lease = 0, r.child = 0, run' = ToAdvance(r),
           Open' = Open, AllNamed'
    PROVE  IInv'
<1>1. /\ run' \in RunType /\ run'.pc = "advance" /\ run'.todo = Open /\ run'.lease = 0
      /\ run'.child = 0
  BY ToAdvanceFields
<1>2. "advance" \in Pauses /\ "advance" \in Loops /\ Counted <= Agents
  BY DEF Pauses, Steps, Loops, IInv, TickSound, SlotFree
<1> QED BY <1>1, <1>2, Arrive, CountedSame

LEMMA CountSlotsStep == ASSUME IInv, CountSlots PROVE IInv'
<1>1. run.pc = "slots" /\ run.pc \in Pauses /\ run.pc \notin Loops
  BY DEF CountSlots, Pauses, Steps, Loops
<1>2. upsets' \in 0 .. MaxUpsets
  BY UpsetType DEF CountSlots, IInv, Stored, StoreTyped
<1>3. Stored' /\ Open' = Open /\ AllNamed'
  BY <1>1, <1>2, InStep, StoreSame DEF CountSlots
<1>4. CASE run' = ToAdvance(run)
  BY <1>1, <1>3, <1>4, InStep, AdvanceMove
<1>5. CASE /\ open_lease_count < Agents
           /\ run' = [run EXCEPT !.pc = "claim", !.left = Agents - open_lease_count]
  <2> DEFINE k == Agents - open_lease_count
  <2>1. k \in 0 .. (3 * MaxEpoch + Agents) /\ Counted + k <= Agents
    <3>1. Counted = 0
      <4>1. CASE Agents = 1
        BY <4>1, <1>5, CountedNat DEF open_lease_count
      <4>2. CASE Agents # 1
        BY <4>2 DEF Counted
      <4> QED BY <4>1, <4>2
    <3>2. open_lease_count \in {0, 1}
      BY DEF open_lease_count
    <3> QED BY <3>1, <3>2, <1>5, Bounds
  <2>2. run' = [run EXCEPT !.pc = "claim", !.left = k]
    BY <1>5
  <2>3. "claim" \in Places /\ "claim" \in Pauses
    BY DEF Places, Pauses, Steps
  <2> HIDE DEF k
  <2>4. /\ run' \in RunType /\ run'.pc = "claim" /\ run'.left = k /\ run'.lease = 0
        /\ run'.child = 0 /\ run'.todo = {}
    BY <2>1, <2>2, <2>3, <1>1, InStep DEF RunType
  <2>5. Counted' + run'.left <= Agents
    BY <2>1, <2>4, <1>3, CountedSame
  <2> QED BY <2>3, <2>4, <2>5, <1>1, <1>3, InStep, Arrive, CountedSame
<1> QED BY <1>4, <1>5 DEF CountSlots

\* In the filling of a slot, or of an interrupted claim.
LEMMA InFill ==
    ASSUME IInv, run.pc \in {"reclaiming", "claiming", "slots", "claim"}
    PROVE  /\ run \in RunType /\ StoreTyped /\ run.lease = 0 /\ run.child = 0 /\ AllNamed
           /\ With(run.view) = run /\ run.view \in Views
<1>1. run.pc \in Pauses \cup {"claiming", "reclaiming"} /\ run.pc \notin {"record", "confirm"}
  BY DEF Pauses, Steps
<1> QED BY <1>1, AtPause, Unarmed, WithSelf DEF IInv, TickSound, Stored

LEMMA FillHeldBackStep == ASSUME IInv, FillHeldBack PROVE IInv'
<1>1. run.pc \in {"reclaiming", "claiming", "slots", "claim"} /\ run' = ToAdvance(run)
  BY DEF FillHeldBack
<1>2. upsets' \in 0 .. MaxUpsets
  BY UpsetType DEF FillHeldBack, IInv, Stored, StoreTyped
<1>3. Stored' /\ Open' = Open /\ AllNamed'
  BY <1>1, <1>2, InFill, StoreSame DEF FillHeldBack
<1> QED BY <1>1, <1>3, InFill, AdvanceMove

LEMMA ClaimedType ==
    ASSUME hub \in HubType, Claimable, NEW r \in {"us", "other"}
    PROVE  /\ Claimed(r) \in HubType /\ Claimed(r).landed = hub.landed
           /\ Claimed(r).epoch \in 0 .. MaxEpoch
<1> DEFINE k == hub.epoch + 1
<1>1. k \in 0 .. MaxEpoch
  BY Bounds DEF Claimable, HubType
<1>2. Claimed(r) = [hub EXCEPT !.route = r, !.epoch = k, !.owner = r]
  BY DEF Claimed, HubType
<1> HIDE DEF k
<1> QED BY <1>1, <1>2 DEF HubType

\* A won claim goes on to the mint, with d slots used up.
LEMMA ClaimedRun ==
    ASSUME run \in RunType, NEW h \in 0 .. MaxEpoch, NEW k \in 0 .. (3 * MaxEpoch + Agents)
    PROVE  LET s == [Unread(run) EXCEPT !.pc = "mint", !.env = h, !.left = k] IN
           /\ s \in RunType /\ s.pc = "mint" /\ s.lease = run.lease /\ s.child = run.child
           /\ s.todo = run.todo /\ s.left = k /\ s.back = run.back
<1> DEFINE u == Unread(run)
<1>1. /\ u \in RunType /\ u.lease = run.lease /\ u.child = run.child
      /\ u.todo = run.todo /\ u.back = run.back
  BY DEF Unread, RunType
<1>2. "mint" \in Places
  BY DEF Places
<1> HIDE DEF u
<1>3. LET s == [u EXCEPT !.pc = "mint", !.env = h, !.left = k] IN
           /\ s \in RunType /\ s.pc = "mint" /\ s.lease = run.lease /\ s.child = run.child
           /\ s.todo = run.todo /\ s.left = k /\ s.back = run.back
  BY <1>1, <1>2 DEF RunType
<1> QED BY <1>3 DEF u

LEMMA ReclaimStep == ASSUME IInv, Reclaim PROVE IInv'
<1>1. /\ run.pc = "reclaiming" /\ run.pc \notin Pauses /\ UNCHANGED <<leases, outbox, procs>>
      /\ Calm
  BY DEF Reclaim, Pauses, Steps
<1>2. upsets' \in 0 .. MaxUpsets
  BY <1>1, UpsetType DEF IInv, Stored, StoreTyped
<1>3. CASE Claimable /\ KeepEnvs /\ hub' = Claimed("us")
           /\ run' = [Unread(run) EXCEPT !.pc = "mint", !.env = hub'.epoch]
  <2>1. hub' \in HubType /\ hub'.landed = hub.landed /\ hub'.epoch \in 0 .. MaxEpoch
    BY <1>3, ClaimedType DEF IInv, Stored, StoreTyped
  <2>2. Stored' /\ Open' = Open /\ AllNamed'
    BY <2>1, <1>1, <1>2, <1>3, InFill, ReleaseTyped, EnvsStored DEF LandedGrows
  <2> DEFINE k == run.left
  <2>3. run' = [Unread(run) EXCEPT !.pc = "mint", !.env = hub'.epoch, !.left = k]
        /\ k \in 0 .. (3 * MaxEpoch + Agents)
    BY <1>1, <1>3, InFill, RunFields DEF Unread, RunType
  <2> HIDE DEF k
  <2>4. /\ run' \in RunType /\ run'.pc = "mint" /\ run'.lease = 0 /\ run'.child = 0
        /\ run'.todo = run.todo /\ run'.left = k /\ run'.back = run.back
    <3>1. PICK h \in 0 .. MaxEpoch : h = hub'.epoch
      BY <2>1
    <3>2. run' = [Unread(run) EXCEPT !.pc = "mint", !.env = h, !.left = k]
      BY <2>3, <3>1
    <3>3. run \in RunType /\ run.lease = 0 /\ run.child = 0
      BY <1>1, InFill
    <3>4. k \in 0 .. (3 * MaxEpoch + Agents)
      BY <2>3
    <3>5. LET s == [Unread(run) EXCEPT !.pc = "mint", !.env = h, !.left = k] IN
          /\ s \in RunType /\ s.pc = "mint" /\ s.lease = run.lease /\ s.child = run.child
          /\ s.todo = run.todo /\ s.left = k /\ s.back = run.back
      BY <3>3, <3>4, ClaimedRun, Zenon
    <3> QED BY <3>2, <3>3, <3>5, Zenon
  <2>5. envs > 0 /\ Counted < Agents /\ run.back # "claim"
    BY <1>1, InCall DEF IInv, TickSound, EnvInHand, SlotFree
  <2>6. envs' > 0
    BY <2>5, <1>3 DEF KeepEnvs
  <2>7. run'.todo \subseteq Open' \ {run'.lease}
    BY <2>2, <2>4, <1>1, InFill, InCall
  <2> QED BY <2>2, <2>4, <2>5, <2>6, <2>7, <1>1, InCall, MintMove, CountedSame DEF k
<1>4. CASE ReleaseChunk /\ run' = Return(run) /\ UNCHANGED hub
  <2>1. Stored' /\ Open' = Open /\ AllNamed'
    BY <1>1, <1>2, <1>4, InFill, ReleaseTyped, EnvsStored DEF LandedGrows, StoreTyped
  <2> QED BY <2>1, <1>1, <1>4, InCall, ReturnSame
<1> QED BY <1>3, <1>4 DEF Reclaim

LEMMA ClaimUnansweredStep == ASSUME IInv, ClaimUnanswered PROVE IInv'
<1>1. /\ run.pc \in {"reclaiming", "claiming"} /\ run.pc \notin Pauses /\ Upset
      /\ UNCHANGED <<leases, envs, floor, outbox, procs>>
      /\ UNCHANGED hub \/ (Claimable /\ hub' = Claimed("us"))
      /\ run' = Return(run) \/ run' = ToAdvance(Return(run))
  BY DEF ClaimUnanswered, Pauses, Steps, store
<1>2. upsets' \in 0 .. MaxUpsets
  BY <1>1, UpsetType DEF IInv, Stored, StoreTyped
<1>3. hub' \in HubType /\ LandedGrows
  BY <1>1, ClaimedType DEF IInv, Stored, StoreTyped, LandedGrows
<1>4. Stored' /\ Open' = Open /\ AllNamed'
  BY <1>1, <1>2, <1>3, InFill, EnvsStored DEF StoreTyped
<1>5. Return(run) \in RunType /\ Return(run).lease = 0 /\ Return(run).child = 0
  BY <1>1, InFill, ReturnFields
<1>6. CASE run' = Return(run)
  BY <1>1, <1>4, <1>6, InCall, ReturnSame
<1>7. CASE run' = ToAdvance(Return(run))
  BY <1>4, <1>5, <1>7, AdvanceMove
<1> QED BY <1>1, <1>6, <1>7

LEMMA PeekAndBindStep == ASSUME IInv, PeekAndBind PROVE IInv'
<1>1. run.pc = "claim" /\ run.pc \in Pauses /\ run.pc \notin Loops /\ Calm
      /\ UNCHANGED <<hub, leases, floor, outbox, procs>>
  BY DEF PeekAndBind, Pauses, Steps, Loops
<1>2. upsets' \in 0 .. MaxUpsets
  BY <1>1, UpsetType DEF IInv, Stored, StoreTyped
<1>3. CASE envs' = envs /\ run' = ToAdvance(run)
  <2>1. Stored' /\ Open' = Open /\ AllNamed'
    BY <1>1, <1>2, <1>3, InStep, StoreSame DEF store
  <2> QED BY <2>1, <1>1, <1>3, InStep, AdvanceMove
<1>4. CASE /\ run.left > 0 /\ envs < MaxEnvs /\ envs' = envs + 1
           /\ run' = [run EXCEPT !.pc = "claiming", !.back = "claim"]
  <2>1. envs' \in 0 .. MaxEnvs /\ envs' > 0
    <3>1. envs \in 0 .. MaxEnvs
      BY <1>1, InStep DEF StoreTyped
    <3> QED BY <3>1, <1>4, Bounds
  <2>2. Stored' /\ Open' = Open /\ AllNamed'
    BY <2>1, <1>1, <1>2, InStep, EnvsStored DEF LandedGrows, StoreTyped
  <2>3. "claiming" \in Places /\ "claim" \in Steps /\ "claiming" \notin Pauses
        /\ "claiming" \notin Holding /\ "claiming" \notin Launching /\ "claiming" \notin Quiet
    BY DEF Places, Steps, Pauses, Holding, Launching, Quiet
  <2>4. /\ run' \in RunType /\ run'.pc = "claiming" /\ run'.back = "claim" /\ run'.lease = 0
        /\ run'.child = 0 /\ run'.todo = {} /\ run'.left = run.left
    BY <2>3, <1>1, <1>4, InStep DEF RunType
  <2>5. Stepping' = "claim"
    BY <2>3, <2>4 DEF Stepping
  <2>6. InHand'
    BY <2>3, <2>4, <2>5 DEF InHand
  <2>7. EnvInHand'
    BY <2>1, <2>4 DEF EnvInHand
  <2>8. SlotFree'
    BY <2>2, <2>4, <2>5, <1>1, <1>4, InStep, CountedSame DEF SlotFree
  <2>9. ChildKnown'
    BY <2>4 DEF ChildKnown
  <2>10. NoForgottenWorker'
    BY <2>2 DEF AllNamed, NoForgottenWorker, Named
  <2>11. QuietInHand'
    BY <2>3, <2>4 DEF QuietInHand
  <2> QED BY <2>2, <2>4, <2>6, <2>7, <2>8, <2>9, <2>10, <2>11 DEF IInv, TickSound
<1> QED BY <1>3, <1>4 DEF PeekAndBind

LEMMA ClaimRouteStep == ASSUME IInv, ClaimRoute PROVE IInv'
<1> DEFINE k == run.left - 1
<1>1. /\ run.pc = "claiming" /\ run.pc \notin Pauses /\ UNCHANGED <<leases, outbox, procs>>
      /\ Calm
  BY DEF ClaimRoute, Pauses, Steps
<1>2. upsets' \in 0 .. MaxUpsets
  BY <1>1, UpsetType DEF IInv, Stored, StoreTyped
<1>3. /\ run.left > 0 /\ run.back = "claim" /\ envs > 0
      /\ Counted + run.left <= Agents
  BY <1>1, InCall DEF IInv, TickSound, EnvInHand, SlotFree
<1>4. Counted \in Nat /\ run.left \in 0 .. (3 * MaxEpoch + Agents)
  BY <1>1, InFill, CountedNat, RunFields
<1>5. /\ k \in 0 .. (3 * MaxEpoch + Agents) /\ Counted + k < Agents
      /\ Counted < Agents /\ Counted + k <= Agents
  BY <1>3, <1>4, Bounds
<1>6. run.todo = {}
  BY <1>1, <1>3, InCall, LoopsPause
<1>7. CASE /\ Claimable /\ KeepEnvs /\ hub' = Claimed("us")
           /\ run' = [Unread(run) EXCEPT !.pc = "mint", !.env = hub'.epoch, !.left = @ - 1]
  <2>1. hub' \in HubType /\ hub'.landed = hub.landed /\ hub'.epoch \in 0 .. MaxEpoch
    BY <1>7, ClaimedType DEF IInv, Stored, StoreTyped
  <2>2. Stored' /\ Open' = Open /\ AllNamed'
    BY <2>1, <1>1, <1>2, <1>7, InFill, ReleaseTyped, EnvsStored DEF LandedGrows
  <2>3. run' = [Unread(run) EXCEPT !.pc = "mint", !.env = hub'.epoch, !.left = k]
    BY <1>1, <1>7, InFill DEF Unread, RunType
  <2> HIDE DEF k
  <2>4. /\ run' \in RunType /\ run'.pc = "mint" /\ run'.lease = 0 /\ run'.child = 0
        /\ run'.todo = {} /\ run'.left = k /\ run'.back = "claim"
    <3>1. PICK h \in 0 .. MaxEpoch : h = hub'.epoch
      BY <2>1
    <3>2. run' = [Unread(run) EXCEPT !.pc = "mint", !.env = h, !.left = k]
      BY <2>3, <3>1
    <3>3. run \in RunType /\ run.lease = 0 /\ run.child = 0
      BY <1>1, InFill
    <3> QED BY <3>2, <3>3, <1>3, <1>5, <1>6, ClaimedRun
  <2>5. envs' > 0
    BY <1>3, <1>7 DEF KeepEnvs
  <2> QED BY <2>2, <2>4, <2>5, <1>5, MintMove, CountedSame
<1>8. CASE /\ UNCHANGED hub /\ envs' = envs - 1 /\ floor' = latest_epoch
           /\ run' = [run EXCEPT !.pc = "claim", !.left = @ - 1]
  <2>1. latest_epoch \in 0 .. MaxEpoch
    BY <1>1, InFill, LatestEpoch DEF StoreTyped
  <2>2. envs' \in 0 .. MaxEnvs /\ floor' \in 0 .. MaxEpoch
    <3> HIDE DEF latest_epoch
    <3>1. envs \in 0 .. MaxEnvs
      BY <1>1, InFill DEF StoreTyped
    <3>2. envs - 1 \in 0 .. MaxEnvs
      BY <3>1, <1>3, Bounds
    <3> QED BY <3>2, <2>1, <1>8
  <2>3. Stored' /\ Open' = Open /\ AllNamed'
    BY <2>2, <1>1, <1>2, <1>8, InFill, EnvsStored DEF LandedGrows, StoreTyped
  <2>4. "claim" \in Places /\ "claim" \in Pauses
    BY DEF Places, Pauses, Steps
  <2>5. run' = [run EXCEPT !.pc = "claim", !.left = k]
    BY <1>1, <1>8, InFill DEF RunType
  <2> HIDE DEF k
  <2>6. /\ run' \in RunType /\ run'.pc = "claim" /\ run'.lease = 0 /\ run'.child = 0
        /\ run'.todo = {} /\ run'.left = k
    BY <2>4, <2>5, <1>1, <1>5, <1>6, InFill DEF RunType
  <2>7. Counted' <= Agents /\ Counted' + run'.left <= Agents
    BY <2>3, <2>6, <1>4, <1>5, Bounds, CountedSame
  <2> QED BY <2>3, <2>4, <2>6, <2>7, Arrive
<1> QED BY <1>7, <1>8 DEF ClaimRoute

-----------------------------------------------------------------------------
(* The advance *)

LEMMA AdvanceFacts ==
    ASSUME IInv, run.pc = "advance", NEW e \in run.todo
    PROVE  /\ run.pc \in Loops /\ run.pc \in Pauses /\ run \in RunType /\ StoreTyped /\ AllNamed
           /\ With(run.view) = run /\ run.view \in Views
           /\ e \in Open /\ e \in Epochs /\ leases[e] \in OpenLease
           /\ 0 \notin procs
<1>1. run.pc \in Loops /\ run.pc \in Pauses
  BY DEF Loops, Pauses, Steps
<1>2. StoreTyped /\ 0 \notin procs
  BY Bounds DEF IInv, Stored, StoreTyped
<1> QED BY <1>1, <1>2, InStep, TodoOpen

LEMMA SkipUnchanged ==
    ASSUME IInv, run.pc = "advance", NEW e \in run.todo, run' = Skip(run, e), Upset \/ Calm,
           UNCHANGED <<hub, store, procs>>
    PROVE  IInv'
<1>1. upsets' \in 0 .. MaxUpsets
  BY UpsetType DEF IInv, Stored, StoreTyped
<1>2. Stored' /\ Open' = Open /\ AllNamed'
  BY <1>1, AdvanceFacts, StoreSame
<1> QED BY <1>2, AdvanceFacts, SkipMove

LEMMA AdvanceSkipsStep == ASSUME IInv, NEW e \in run.todo, AdvanceSkips(e) PROVE IInv'
  BY SkipUnchanged DEF AdvanceSkips

LEMMA AwaitSettledStep == ASSUME IInv, NEW e \in run.todo, AwaitSettled(e) PROVE IInv'
  BY SkipUnchanged DEF AwaitSettled

LEMMA ExitWaitsStep == ASSUME IInv, NEW e \in run.todo, ExitWaits(e) PROVE IInv'
  BY SkipUnchanged DEF ExitWaits

LEMMA NotJudgedStep == ASSUME IInv, NEW e \in run.todo, NotJudged(e) PROVE IInv'
<1>1. run.pc = "advance" /\ run' = Take(run, e, "failing") /\ Calm /\ UNCHANGED <<hub, store, procs>>
  BY DEF NotJudged
<1>2. upsets' \in 0 .. MaxUpsets
  BY <1>1, UpsetType DEF IInv, Stored, StoreTyped
<1>3. Stored' /\ leases' = leases /\ outbox' = outbox /\ procs' = procs
  BY <1>1, <1>2, StoreSame
<1> QED BY <1>1, <1>3, AdvanceFacts, TakeMove

\* The judgement of a lease with no live process is begun, dropped or settled.
LEMMA JudgeLease ==
    ASSUME NEW l \in OpenLease, NEW b \in BOOLEAN
    PROVE  LET m == [l EXCEPT !.elicited = b, !.judge = 0] IN
           /\ m \in OpenLease /\ m.judge = 0 /\ m.pid = l.pid /\ m.resume = l.resume
           /\ m.elicited = b
  BY Zeros DEF OpenLease

LEMMA StoredJudge ==
    ASSUME IInv, NEW e \in Open, NEW b \in BOOLEAN,
           Put(e, [leases[e] EXCEPT !.elicited = b, !.judge = 0]),
           procs' = procs \ {leases[e].pid, leases[e].judge}, ~leases[e].resume, AllNamed,
           ~pending_submission(e), UNCHANGED <<hub, envs, floor, outbox>>,
           upsets' \in 0 .. MaxUpsets
    PROVE  /\ Stored' /\ Open' = Open /\ AllNamed'
           /\ Named(e)' \cap procs' = {} /\ ~pending_submission(e)'
           /\ leases'[e].elicited = b
<1>0. leases[e] \in OpenLease /\ e \in Epochs /\ 0 \notin procs
  <2>1. StoreTyped
    BY DEF IInv, Stored
  <2>2. leases[e] \in OpenLease /\ e \in Epochs
    BY <2>1, OpenTyped DEF StoreTyped
  <2>3. 0 \notin procs
    BY <2>1, Bounds DEF StoreTyped
  <2> QED BY <2>2, <2>3
<1>1. PICK m \in OpenLease : /\ m.judge = 0 /\ m.pid = leases[e].pid /\ m.resume = leases[e].resume
                             /\ m.elicited = b /\ Put(e, m)
  BY <1>0, JudgeLease
<1>2. /\ leases' \in [Epochs -> LeaseType] /\ Open' = Open /\ leases'[e] = m
      /\ \A f \in Epochs \ {e} : leases'[f] = leases[f]
  BY <1>1, PutOpen DEF IInv, Stored, StoreTyped
<1>3. StoreTyped'
  BY <1>2 DEF IInv, Stored, StoreTyped
<1>4. m.pid \notin procs' /\ procs' \subseteq procs
  BY <1>1
<1>5. Stored'
  BY <1>1, <1>3, <1>4, StoredEdit DEF IInv
<1>6. AllNamed'
  BY <1>2, ZeroNoLease DEF AllNamed, Named
<1>7. Named(e)' \cap procs' = {}
  BY <1>0, <1>1, <1>2, <1>4 DEF Named
<1>8. ~pending_submission(e)'
  BY PendingSame
<1> QED BY <1>1, <1>2, <1>5, <1>6, <1>7, <1>8

LEMMA OnUnpauseStep == ASSUME IInv, NEW e \in run.todo, OnUnpause(e) PROVE IInv'
<1>1. /\ run.pc = "advance" /\ ~leases[e].resume /\ ~pending_submission(e)
      /\ Put(e, [leases[e] EXCEPT !.elicited = FALSE, !.judge = 0])
      /\ procs' = procs \ {leases[e].pid, leases[e].judge}
      /\ UNCHANGED <<hub, envs, floor, outbox>>
  BY DEF OnUnpause, Advances, Processes
<1>2. PICK v \in {run.view, HubView, NoView} :
        /\ Sees(v)
        /\ \/ run' = Skip(With(v), e)
           \/ envs # 0 /\ run' = [Take(With(v), e, "launch") EXCEPT !.kind = "unpause"]
  BY DEF OnUnpause
<1>3. v \in Views /\ upsets' \in 0 .. MaxUpsets
  BY <1>1, <1>2, AdvanceFacts, SeesType
<1>4. /\ Stored' /\ Open' = Open /\ AllNamed'
      /\ Named(e)' \cap procs' = {} /\ ~pending_submission(e)'
  BY <1>1, <1>3, AdvanceFacts, StoredJudge
<1>5. CASE run' = Skip(With(v), e)
  BY <1>1, <1>3, <1>4, <1>5, AdvanceFacts, SkipMove
<1>6. CASE envs # 0 /\ run' = [Take(With(v), e, "launch") EXCEPT !.kind = "unpause"]
  <2>1. envs \in 0 .. MaxEnvs
    BY DEF IInv, Stored, StoreTyped
  <2>2. envs' > 0
    BY <2>1, <1>1, <1>6, Bounds
  <2> QED BY <2>2, <1>1, <1>3, <1>4, <1>6, AdvanceFacts, LaunchMove
<1> QED BY <1>2, <1>5, <1>6

LEMMA LaunchJudgeStep == ASSUME IInv, NEW e \in run.todo, LaunchJudge(e) PROVE IInv'
<1>1. /\ run.pc = "advance" /\ ~leases[e].resume /\ ~pending_submission(e)
      /\ leases[e].pid \notin procs /\ leases[e].judge \notin procs /\ envs > 0
      /\ UNCHANGED <<hub, envs, floor, outbox, procs>>
  BY DEF LaunchJudge, Judgeable, Exited, Advances, alive
<1>2. PICK v \in {run.view, HubView, NoView} :
        /\ Sees(v)
        /\ \/ run' = Skip(With(v), e) /\ UNCHANGED leases
           \/ /\ Put(e, [leases[e] EXCEPT !.elicited = TRUE, !.judge = 0])
              /\ run' = [Take(With(v), e, "launch") EXCEPT !.kind = "judge"]
  BY DEF LaunchJudge
<1>3. v \in Views /\ upsets' \in 0 .. MaxUpsets
  BY <1>1, <1>2, AdvanceFacts, SeesType
<1>4. CASE run' = Skip(With(v), e) /\ UNCHANGED leases
  <2>1. Stored' /\ Open' = Open /\ AllNamed'
    BY <1>1, <1>3, <1>4, AdvanceFacts, StoreSame DEF store
  <2> QED BY <2>1, <1>1, <1>3, <1>4, AdvanceFacts, SkipMove
<1>5. CASE /\ Put(e, [leases[e] EXCEPT !.elicited = TRUE, !.judge = 0])
           /\ run' = [Take(With(v), e, "launch") EXCEPT !.kind = "judge"]
  <2>1. procs' = procs \ {leases[e].pid, leases[e].judge} /\ envs' > 0
    BY <1>1
  <2>2. /\ Stored' /\ Open' = Open /\ AllNamed'
        /\ Named(e)' \cap procs' = {} /\ ~pending_submission(e)' /\ leases'[e].elicited = TRUE
    BY <2>1, <1>1, <1>3, <1>5, AdvanceFacts, StoredJudge
  <2>3. leases'[e].elicited
    BY <2>2
  <2> QED BY <2>1, <2>2, <2>3, <1>1, <1>3, <1>5, AdvanceFacts, LaunchMove
<1> QED BY <1>2, <1>4, <1>5

\* A lease's completion is buffered, its processes dead.
LEMMA StoredComplete ==
    ASSUME IInv, NEW e \in Open, Put(e, [leases[e] EXCEPT !.elicited = FALSE, !.judge = 0]),
           outbox' = Append(outbox, Fact("completion", e)),
           leases[e].pid \notin procs, leases[e].judge \notin procs, ~leases[e].resume, AllNamed,
           ~pending_submission(e), UNCHANGED <<hub, envs, floor, procs>>,
           upsets' \in 0 .. MaxUpsets
    PROVE  Stored' /\ Open' = Open /\ AllNamed'
<1>0. leases[e] \in OpenLease /\ e \in Epochs /\ 0 \notin procs
  <2>1. leases \in [Epochs -> LeaseType] /\ procs \subseteq 1 .. MaxProcs
    BY DEF IInv, Stored, StoreTyped
  <2>2. 0 \notin procs
    BY <2>1, Bounds
  <2> QED BY <2>1, <2>2, OpenTyped
<1>1. PICK m \in OpenLease : /\ m.judge = 0 /\ m.pid = leases[e].pid /\ m.resume = leases[e].resume
                             /\ m.elicited = FALSE /\ Put(e, m)
  BY <1>0, JudgeLease
<1>2. /\ leases' \in [Epochs -> LeaseType] /\ Open' = Open /\ leases'[e] = m
      /\ \A f \in Epochs \ {e} : leases'[f] = leases[f]
  BY <1>1, PutOpen DEF IInv, Stored, StoreTyped
<1>3. Open \subseteq Epochs /\ leases[e].reason = "open" /\ m.reason = "open" /\ NoLease.reason = "none"
  BY DEF Open, OpenLease, NoLease, Closed
<1>4. /\ Fact("completion", e) \in FactType /\ Fact("completion", e).kind = "completion"
      /\ Fact("completion", e).epoch = e
  BY <1>0 DEF Fact, FactType
<1> DEFINE n == Len(outbox)
<1>5. n \in Nat /\ \A i \in 1 .. n : outbox[i].epoch \in Epochs
  BY BoxTyped DEF IInv, Stored, StoreTyped
<1>6. outbox' \in Seq(FactType) /\ Len(outbox') = n + 1
  BY <1>4 DEF IInv, Stored, StoreTyped
<1>7. \A i \in 1 .. n : outbox'[i] = outbox[i]
  BY <1>5 DEF IInv, Stored, StoreTyped
<1>8. outbox'[n + 1] = Fact("completion", e)
  BY <1>5 DEF IInv, Stored, StoreTyped
<1>9. \A i \in 1 .. n : ~(outbox[i].kind = "completion" /\ outbox[i].epoch = e)
  BY DEF pending_submission
<1>10. /\ \A i, j \in 1 .. n :
             outbox[i].kind = outbox[j].kind /\ outbox[i].epoch = outbox[j].epoch => i = j
       /\ \A i \in 1 .. n :
             /\ leases[outbox[i].epoch] # NoLease
             /\ outbox[i].kind = "escalation" =>
                   leases[outbox[i].epoch].reason \in {"escalated", "resolved"}
  BY DEF IInv, Stored, BoxSound
<1>11. \A f : (\E i \in 1 .. n : outbox[i].kind = "completion" /\ outbox[i].epoch = f)
                 <=> pending_submission(f)
  BY DEF pending_submission
<1> HIDE DEF n
<1>12. \A i \in 1 .. n + 1 : i \in 1 .. n \/ i = n + 1
  BY <1>5
<1>13. StoreTyped'
  BY <1>2, <1>6 DEF IInv, Stored, StoreTyped
<1>14. LeasesSound'
  BY <1>0, <1>1, <1>2, <1>3 DEF IInv, Stored, LeasesSound
<1>15. \A f : f # e /\ pending_submission(f)' => pending_submission(f)
  <2> SUFFICES ASSUME NEW f, f # e, NEW i \in 1 .. Len(outbox'),
                      outbox'[i].kind = "completion", outbox'[i].epoch = f
               PROVE  pending_submission(f)
    BY DEF pending_submission
  <2>1. i \in 1 .. n
    BY <1>4, <1>6, <1>8, <1>12
  <2> QED BY <2>1, <1>7, <1>11
<1>16. PendingQuiet'
  <2>1. \A f \in Open \ {e} : pending_submission(f)' => ~leases'[f].resume /\ Named(f)' \cap procs' = {}
    BY <1>2, <1>3, <1>15 DEF IInv, Stored, PendingQuiet, Named
  <2>2. ~leases'[e].resume /\ Named(e)' \cap procs' = {}
    BY <1>0, <1>1, <1>2 DEF Named
  <2> QED BY <2>1, <2>2, <1>2 DEF PendingQuiet
<1>17. \A i, j \in 1 .. n + 1 :
          outbox'[i].kind = outbox'[j].kind /\ outbox'[i].epoch = outbox'[j].epoch => i = j
  <2>1. \A i, j \in 1 .. n :
          outbox'[i].kind = outbox'[j].kind /\ outbox'[i].epoch = outbox'[j].epoch => i = j
    BY <1>7, <1>10
  <2>2. \A i \in 1 .. n : ~(/\ outbox'[i].kind = outbox'[n + 1].kind
                           /\ outbox'[i].epoch = outbox'[n + 1].epoch)
    BY <1>4, <1>7, <1>8, <1>9
  <2> QED BY <2>1, <2>2, <1>12
<1>18. \A i \in 1 .. n + 1 :
          /\ leases'[outbox'[i].epoch] # NoLease
          /\ outbox'[i].kind = "escalation" =>
                leases'[outbox'[i].epoch].reason \in {"escalated", "resolved"}
  <2>1. \A i \in 1 .. n :
          /\ leases'[outbox'[i].epoch] # NoLease
          /\ outbox'[i].kind = "escalation" =>
                leases'[outbox'[i].epoch].reason \in {"escalated", "resolved"}
    <3>1. \A f \in Epochs : /\ leases[f] # NoLease => leases'[f] # NoLease
                            /\ leases'[f].reason = leases[f].reason
      BY <1>2, <1>3
    <3> SUFFICES ASSUME NEW i \in 1 .. n
                 PROVE  /\ leases'[outbox'[i].epoch] # NoLease
                        /\ outbox'[i].kind = "escalation" =>
                              leases'[outbox'[i].epoch].reason \in {"escalated", "resolved"}
      OBVIOUS
    <3>2. outbox'[i] = outbox[i] /\ outbox[i].epoch \in Epochs
      BY <1>5, <1>7
    <3>3. /\ leases[outbox[i].epoch] # NoLease
          /\ outbox[i].kind = "escalation" =>
                leases[outbox[i].epoch].reason \in {"escalated", "resolved"}
      BY <1>10
    <3> QED BY <3>1, <3>2, <3>3
  <2>2. leases'[outbox'[n + 1].epoch] # NoLease /\ outbox'[n + 1].kind # "escalation"
    BY <1>2, <1>3, <1>4, <1>8
  <2> QED BY <2>1, <2>2, <1>12
<1>19. BoxSound'
  BY <1>6, <1>17, <1>18 DEF BoxSound
<1>20. ClosedMeansLanded'
  BY <1>2, <1>3 DEF IInv, Stored, ClosedMeansLanded
<1>21. AllNamed'
  BY <1>2, ZeroNoLease DEF AllNamed, Named
<1> QED BY <1>2, <1>13, <1>14, <1>16, <1>19, <1>20, <1>21 DEF Stored

LEMMA JudgedStep == ASSUME IInv, NEW e \in run.todo, Judged(e) PROVE IInv'
<1>1. /\ run.pc = "advance" /\ ~leases[e].resume /\ ~pending_submission(e)
      /\ leases[e].pid \notin procs /\ leases[e].judge \notin procs /\ Calm
      /\ Put(e, [leases[e] EXCEPT !.elicited = FALSE, !.judge = 0])
      /\ outbox' = Append(outbox, Fact("completion", e))
      /\ UNCHANGED <<hub, envs, floor, procs>> /\ run' = Skip(run, e)
  BY DEF Judged, Judgeable, Exited, Advances, alive
<1>2. upsets' \in 0 .. MaxUpsets
  BY <1>1, UpsetType DEF IInv, Stored, StoreTyped
<1>3. Stored' /\ Open' = Open /\ AllNamed'
  BY <1>1, <1>2, AdvanceFacts, StoredComplete
<1> QED BY <1>1, <1>3, AdvanceFacts, SkipMove

LEMMA DriveHeldStep == ASSUME IInv, DriveHeld PROVE IInv'
<1>1. run.pc = "held" /\ run.pc \in Pauses /\ run.pc \notin Loops
      /\ UNCHANGED <<hub, leases, outbox, procs>>
  BY DEF DriveHeld, Pauses, Steps, Loops
<1>2. /\ run \in RunType /\ StoreTyped /\ run.lease = 0 /\ run.child = 0 /\ AllNamed
      /\ run.todo = {} /\ run.view \in Views
  BY <1>1, InStep
<1>3. /\ upsets' \in 0 .. MaxUpsets /\ (ReleaseChunk \/ KeepEnvs)
      /\ \/ run' = Idle
         \/ /\ Open = {}
            /\ \E v \in Views : run' = [With(v) EXCEPT !.pc = "envelope", !.back = "idle"]
  <2>1. CASE envs = 0 \/ Open # {}
    <3>1. run' = Idle /\ Calm /\ KeepEnvs
      BY <2>1 DEF DriveHeld
    <3> QED BY <3>1, <1>2, UpsetType DEF StoreTyped
  <2>2. CASE ~(envs = 0 \/ Open # {})
    <3>1. PICK v \in {run.view, HubView, NoView} :
              LET move == IF v = NoView THEN "hold" ELSE held_chunk_move(v)
              IN  /\ Sees(v)
                  /\ IF move = "release" THEN ReleaseChunk ELSE KeepEnvs
                  /\ run' = IF move = "spawn"
                            THEN [With(v) EXCEPT !.pc = "envelope", !.back = "idle"]
                            ELSE Idle
      BY <2>2 DEF DriveHeld
    <3>2. v \in Views /\ upsets' \in 0 .. MaxUpsets
      BY <3>1, <1>2, SeesType
    <3> QED BY <2>2, <3>1, <3>2
  <2> QED BY <2>1, <2>2
<1>4. Stored' /\ Open' = Open /\ AllNamed'
  BY <1>1, <1>2, <1>3, ReleaseTyped, EnvsStored DEF LandedGrows, StoreTyped
<1>5. CASE run' = Idle
  <2>1. run' \in RunType /\ run'.pc = "idle" /\ run'.lease = 0 /\ run'.child = 0 /\ run'.todo = {}
        /\ "idle" \in Pauses
    BY <1>5, IdleType DEF Pauses
  <2> QED BY <2>1, <1>4, StepMove
<1>6. CASE /\ Open = {}
           /\ \E v \in Views : run' = [With(v) EXCEPT !.pc = "envelope", !.back = "idle"]
  <2>1. PICK v \in Views : run' = [With(v) EXCEPT !.pc = "envelope", !.back = "idle"]
    BY <1>6
  <2>2. With(v) \in RunType /\ With(v).todo = {} /\ With(v).lease = 0 /\ With(v).child = 0
    BY <1>2, WithFields
  <2>3. "envelope" \in Places
    BY DEF Places
  <2>4. /\ run' \in RunType /\ run'.pc = "envelope" /\ run'.back = "idle" /\ run'.lease = 0
        /\ run'.child = 0 /\ run'.todo = {}
    BY <2>1, <2>2, <2>3 DEF RunType
  <2> QED BY <2>4, <1>4, <1>6, CallMove
<1> QED BY <1>3, <1>5, <1>6

-----------------------------------------------------------------------------
(* Crash, shutdown and start; the processes and the hub's other clients *)

LEMMA CrashStep == ASSUME IInv, Crash PROVE IInv'
<1>1. run' = Down /\ procs' = procs \ {run.child} /\ Upset
      /\ UNCHANGED <<hub, leases, envs, floor, outbox>>
  BY DEF Crash, store
<1>2. upsets' \in 0 .. MaxUpsets
  BY <1>1, UpsetType DEF IInv, Stored, StoreTyped
<1>3. StoreTyped'
  BY <1>1, <1>2 DEF IInv, Stored, StoreTyped
<1>4. Stored'
  BY <1>1, <1>3, StoredKept DEF IInv, LandedGrows
<1>5. Open' = Open
  BY <1>1 DEF Open
<1>6. AllNamed'
  BY <1>1, <1>5 DEF IInv, TickSound, NoForgottenWorker, AllNamed, Named
<1>7. run' \in RunType /\ run'.pc = "down" /\ run'.lease = 0 /\ run'.child = 0 /\ run'.todo = {}
      /\ "down" \in Pauses
  BY <1>1, IdleType DEF Pauses
<1> QED BY <1>4, <1>5, <1>6, <1>7, StepMove

\* Leases in flight are marked to be resumed.
LEMMA MarkStored ==
    ASSUME IInv, NEW M \in SUBSET Epochs, \A e \in M : resumable(e),
           leases' = [e \in Epochs |-> IF e \in M THEN [leases[e] EXCEPT !.resume = TRUE]
                                       ELSE leases[e]],
           procs' \subseteq procs, UNCHANGED <<hub, envs, floor, outbox>>,
           upsets' \in 0 .. MaxUpsets
    PROVE  /\ Stored' /\ Open' = Open
           /\ AllNamed => AllNamed'
<1>1. \A e \in M : /\ e \in Open /\ ~leases[e].elicited /\ ~pending_submission(e)
                   /\ leases[e] \in OpenLease
  BY OpenTyped DEF resumable, IInv, Stored, StoreTyped
<1>2. \A l \in OpenLease : LET m == [l EXCEPT !.resume = TRUE] IN
          /\ m \in LeaseType /\ m.reason = "open" /\ m.pid = l.pid /\ m.judge = l.judge
          /\ m.elicited = l.elicited
  BY DEF OpenLease, LeaseType
<1>3. \A e \in M : /\ leases'[e] = [leases[e] EXCEPT !.resume = TRUE]
                   /\ leases'[e] \in LeaseType /\ leases'[e].reason = "open"
                   /\ leases'[e].pid = leases[e].pid /\ leases'[e].judge = leases[e].judge
                   /\ leases'[e].elicited = leases[e].elicited
  BY <1>1, <1>2
<1>4. \A e \in Epochs \ M : leases'[e] = leases[e]
  OBVIOUS
<1>5. leases' \in [Epochs -> LeaseType]
  <2>1. \A e \in Epochs : leases'[e] \in LeaseType
    BY <1>3, <1>4 DEF IInv, Stored, StoreTyped
  <2>2. leases' = [e \in Epochs |-> leases'[e]]
    OBVIOUS
  <2> QED BY <2>1, <2>2, Zenon
<1>6. Open' = Open /\ Open \subseteq Epochs
  BY <1>1, <1>3, <1>4 DEF Open
<1>7. StoreTyped'
  BY <1>5 DEF IInv, Stored, StoreTyped
<1>8. \A e \in Epochs : /\ leases'[e].pid = leases[e].pid /\ leases'[e].judge = leases[e].judge
                        /\ leases'[e].elicited <=> leases[e].elicited
  BY <1>3, <1>4
<1>9. \A e \in Open : leases'[e].resume => e \in M \/ leases[e].resume
  BY <1>4, <1>6
<1>10. LeasesSound'
  BY <1>1, <1>6, <1>8, <1>9 DEF IInv, Stored, LeasesSound
<1>11. PendingQuiet'
  BY <1>1, <1>6, <1>8, <1>9, PendingSame DEF IInv, Stored, PendingQuiet, Named
<1>12. NoLease.reason = "none"
  BY DEF NoLease, Closed
<1>13. \A e \in Epochs : /\ leases[e] # NoLease => leases'[e] # NoLease
                         /\ leases'[e].reason = leases[e].reason
  BY <1>1, <1>3, <1>4, <1>12 DEF OpenLease
<1>14. \A i \in 1 .. Len(outbox) : outbox[i].epoch \in Epochs
  BY BoxTyped DEF IInv, Stored, StoreTyped
<1>15. BoxSound'
  BY <1>13, <1>14 DEF IInv, Stored, BoxSound
<1>16. ClosedMeansLanded'
  BY <1>13 DEF IInv, Stored, ClosedMeansLanded
<1>17. AllNamed => AllNamed'
  BY <1>6, <1>8 DEF AllNamed, Named
<1> QED BY <1>6, <1>7, <1>10, <1>11, <1>15, <1>16, <1>17 DEF Stored

LEMMA ShutdownStep == ASSUME IInv, Shutdown PROVE IInv'
<1> DEFINE M == {e \in Epochs : resumable(e)}
<1>1. /\ run.pc = "idle" /\ run' = Down /\ Upset /\ procs' \subseteq procs
      /\ UNCHANGED <<hub, envs, floor, outbox>>
  BY DEF Shutdown
<1>2. leases' = [e \in Epochs |-> IF e \in M THEN [leases[e] EXCEPT !.resume = TRUE]
                                  ELSE leases[e]]
  BY DEF Shutdown
<1>3. M \in SUBSET Epochs /\ \A e \in M : resumable(e)
  OBVIOUS
<1>4. upsets' \in 0 .. MaxUpsets
  BY <1>1, UpsetType DEF IInv, Stored, StoreTyped
<1> HIDE DEF M
<1>5. Stored' /\ Open' = Open /\ (AllNamed => AllNamed')
  BY <1>1, <1>2, <1>3, <1>4, MarkStored
<1>6. AllNamed
  BY <1>1, Unarmed
<1>7. run' \in RunType /\ run'.pc = "down" /\ run'.lease = 0 /\ run'.child = 0 /\ run'.todo = {}
      /\ "down" \in Pauses
  BY <1>1, IdleType DEF Pauses
<1> QED BY <1>5, <1>6, <1>7, StepMove

LEMMA StartStep == ASSUME IInv, Start PROVE IInv'
<1>1. /\ run.pc = "down" /\ run' = Idle /\ Calm /\ procs' \subseteq procs
      /\ UNCHANGED <<hub, envs, floor, outbox>>
  BY DEF Start
<1>2. PICK M \in SUBSET {e \in Open : resumable(e) /\ ~alive(leases[e])} :
          leases' = [e \in Epochs |-> IF e \in M THEN [leases[e] EXCEPT !.resume = TRUE]
                                     ELSE leases[e]]
  BY DEF Start
<1>3. M \in SUBSET Epochs /\ \A e \in M : resumable(e)
  BY ZeroNoLease
<1>4. upsets' \in 0 .. MaxUpsets
  BY <1>1, UpsetType DEF IInv, Stored, StoreTyped
<1>5. Stored' /\ Open' = Open /\ (AllNamed => AllNamed')
  BY <1>1, <1>2, <1>3, <1>4, MarkStored
<1>6. AllNamed
  BY <1>1, Unarmed
<1>7. run' \in RunType /\ run'.pc = "idle" /\ run'.lease = 0 /\ run'.child = 0 /\ run'.todo = {}
      /\ "idle" \in Pauses
  BY <1>1, IdleType DEF Pauses
<1> QED BY <1>5, <1>6, <1>7, StepMove

\* The runner does not move: the hub does, or a process of its own ends.
LEMMA RunnerStill ==
    ASSUME IInv, hub' \in HubType, LandedGrows, procs' \subseteq procs,
           run.child \in procs => run.child \in procs',
           UNCHANGED <<leases, envs, floor, outbox, run>>, upsets' \in 0 .. MaxUpsets
    PROVE  IInv'
<1>1. StoreTyped'
  BY DEF IInv, Stored, StoreTyped
<1>2. Stored'
  BY <1>1, StoredKept DEF IInv
<1>3. Open' = Open /\ Open \subseteq Epochs /\ Stepping' = Stepping
  BY DEF Open, Stepping
<1>4. InHand'
  BY <1>3 DEF IInv, TickSound, InHand
<1>5. EnvInHand'
  BY DEF IInv, TickSound, EnvInHand
<1>6. SlotFree'
  BY <1>3, CountedSame DEF IInv, TickSound, SlotFree
<1>7. ChildKnown'
  BY <1>3 DEF IInv, TickSound, ChildKnown, Named
<1>8. NoForgottenWorker'
  BY <1>3 DEF IInv, TickSound, NoForgottenWorker
<1>9. run.pc = "consume" => run.lease \in Epochs
  BY <1>3 DEF IInv, TickSound, InHand, Holding
<1>10. QuietInHand'
  <2>1. pending_submission(run.lease)' <=> pending_submission(run.lease)
    BY DEF pending_submission
  <2> QED BY <2>1, <1>9 DEF IInv, TickSound, QuietInHand, Named, LandedGrows
<1> QED BY <1>2, <1>4, <1>5, <1>6, <1>7, <1>8, <1>10 DEF IInv, TickSound

LEMMA ProcessExitsStep == ASSUME IInv, NEW p \in procs, ProcessExits(p) PROVE IInv'
<1>1. upsets' \in 0 .. MaxUpsets /\ hub' \in HubType /\ LandedGrows
  BY UpsetType DEF ProcessExits, IInv, Stored, StoreTyped, LandedGrows
<1> QED BY <1>1, RunnerStill DEF ProcessExits, store

\* A move of the hub's other clients: a well-formed hub with what landed kept.
LEMMA HubMovesStep ==
    ASSUME IInv, NEW h \in HubType, h.landed = hub.landed, HubMoves(h), Upset \/ Calm
    PROVE  IInv'
<1>1. upsets' \in 0 .. MaxUpsets /\ hub' \in HubType /\ LandedGrows
  BY UpsetType DEF HubMoves, IInv, Stored, StoreTyped, LandedGrows
<1> QED BY <1>1, RunnerStill DEF HubMoves, store

LEMMA NextUp ==
    ASSUME hub \in HubType, hub.epoch < MaxEpoch
    PROVE  hub.epoch + 1 \in 0 .. MaxEpoch /\ 0 \in 0 .. MaxEpoch
  BY Bounds DEF HubType

LEMMA LeversStep ==
    ASSUME IInv, Stop \/ Detach \/ Pause \/ Unpause \/ Restart \/ Requeue \/ RivalClaims
                 \/ RivalCompletes \/ HubNodeEnds
    PROVE  IInv'
<1>0. hub \in HubType
  BY DEF IInv, Stored, StoreTyped
<1>1. CASE Stop
  <2> DEFINE h == [hub EXCEPT !.end = "stopped", !.route = "none"]
  <2>1. h \in HubType /\ h.landed = hub.landed
    BY <1>0 DEF HubType
  <2> QED BY <2>1, <1>1, HubMovesStep DEF Stop, Pull
<1>2. CASE Detach
  <2> DEFINE h == [hub EXCEPT !.route = "none"]
  <2>1. h \in HubType /\ h.landed = hub.landed
    BY <1>0 DEF HubType
  <2> QED BY <2>1, <1>2, HubMovesStep DEF Detach, Pull
<1>3. CASE Pause
  <2> DEFINE h == [hub EXCEPT !.paused = TRUE]
  <2>1. h \in HubType /\ h.landed = hub.landed
    BY <1>0 DEF HubType
  <2> QED BY <2>1, <1>3, HubMovesStep DEF Pause, Pull
<1>4. CASE Unpause
  <2> DEFINE h == [hub EXCEPT !.paused = FALSE]
  <2>1. h \in HubType /\ h.landed = hub.landed
    BY <1>0 DEF HubType
  <2> QED BY <2>1, <1>4, HubMovesStep DEF Unpause
<1>5. CASE Restart
  <2> DEFINE k == hub.epoch + 1
             h == [hub EXCEPT !.epoch = k, !.restart = k, !.owner = "hub", !.esc = 0,
                              !.at = "runner"]
  <2>1. k \in 0 .. MaxEpoch /\ 0 \in 0 .. MaxEpoch
    BY <1>0, <1>5, NextUp DEF Restart
  <2>2. HubMoves(h) /\ Upset
    BY <1>0, <1>5 DEF Restart, Pull, HubType
  <2> HIDE DEF k
  <2>3. h \in HubType /\ h.landed = hub.landed
    BY <2>1, <1>0 DEF HubType
  <2> QED BY <2>2, <2>3, HubMovesStep
<1>6. CASE Requeue
  <2> DEFINE h == [hub EXCEPT !.esc = 0, !.route = "none"]
  <2>1. h \in HubType /\ h.landed = hub.landed
    BY <1>0, Zeros DEF HubType
  <2> QED BY <2>1, <1>6, HubMovesStep DEF Requeue, Pull
<1>7. CASE RivalClaims
  <2>1. Claimed("other") \in HubType /\ Claimed("other").landed = hub.landed
    BY <1>0, <1>7, ClaimedType DEF RivalClaims
  <2> QED BY <2>1, <1>7, HubMovesStep DEF RivalClaims, Pull
<1>8. CASE RivalCompletes
  <2> DEFINE h == [hub EXCEPT !.end = "done"]
  <2>1. h \in HubType /\ h.landed = hub.landed
    BY <1>0 DEF HubType
  <2> QED BY <2>1, <1>8, HubMovesStep DEF RivalCompletes
<1>9. CASE HubNodeEnds
  <2> DEFINE k == hub.epoch + 1
             g == [hub EXCEPT !.epoch = k, !.owner = "hub", !.end = "done", !.route = "none"]
             h == [hub EXCEPT !.epoch = k, !.owner = "hub", !.at = "runner"]
  <2>1. k \in 0 .. MaxEpoch
    BY <1>0, <1>9, NextUp DEF HubNodeEnds
  <2>2. (HubMoves(g) \/ HubMoves(h)) /\ Calm
    BY <1>0, <1>9 DEF HubNodeEnds, HubType
  <2> HIDE DEF k
  <2>3. g \in HubType /\ g.landed = hub.landed /\ h \in HubType /\ h.landed = hub.landed
    BY <2>1, <1>0 DEF HubType
  <2> QED BY <2>2, <2>3, HubMovesStep
<1> QED BY <1>1, <1>2, <1>3, <1>4, <1>5, <1>6, <1>7, <1>8, <1>9

-----------------------------------------------------------------------------
(* The invariant *)

LEMMA RunnerInit == Init => IInv
<1> SUFFICES ASSUME Init PROVE IInv
  OBVIOUS
<1>1. Open = {}
  <2>1. NoLease.reason = "none"
    BY DEF NoLease, Closed
  <2> QED BY <2>1 DEF Init, Open
<1>2. StoreTyped
  <2>1. hub \in HubType
    BY Zeros DEF Init, HubType
  <2>2. leases \in [Epochs -> LeaseType]
    <3>1. NoLease \in LeaseType
      BY DEF LeaseType
    <3> QED BY <3>1 DEF Init
  <2>3. outbox \in Seq(FactType) /\ procs \subseteq 1 .. MaxProcs
    BY DEF Init
  <2>4. envs \in 0 .. MaxEnvs /\ floor \in 0 .. MaxEpoch /\ upsets \in 0 .. MaxUpsets
    BY Bounds DEF Init
  <2> QED BY <2>1, <2>2, <2>3, <2>4 DEF StoreTyped
<1>3. LeasesSound /\ PendingQuiet
  BY <1>1 DEF LeasesSound, PendingQuiet
<1>4. BoxSound
  <2>1. Len(outbox) = 0
    BY DEF Init
  <2> QED BY <2>1 DEF BoxSound
<1>5. ClosedMeansLanded
  <2>1. \A e \in Epochs : leases[e].reason = "none"
    BY DEF Init, NoLease, Closed
  <2> QED BY <2>1 DEF ClosedMeansLanded
<1>6. run \in RunType /\ run.pc = "idle" /\ run.todo = {} /\ run.lease = 0 /\ run.child = 0
  BY IdleType DEF Init
<1>7. /\ "idle" \in Pauses /\ "idle" \notin Holding /\ "idle" \notin Launching
      /\ "idle" \notin Quiet
  BY DEF Pauses, Steps, Holding, Launching, Quiet
<1>8. Stepping = "idle"
  BY <1>6, <1>7 DEF Stepping
<1>9. InHand
  BY <1>6, <1>7, <1>8 DEF InHand
<1>10. EnvInHand /\ ChildKnown
  BY <1>6 DEF EnvInHand, ChildKnown
<1>11. SlotFree
  BY <1>1, <1>6, <1>8, CountedNat, Bounds DEF SlotFree
<1>12. NoForgottenWorker
  BY DEF Init, NoForgottenWorker
<1>13. QuietInHand
  BY <1>6, <1>7 DEF QuietInHand
<1> QED BY <1>2, <1>3, <1>4, <1>5, <1>6, <1>9, <1>10, <1>11, <1>12, <1>13
        DEF IInv, Stored, TickSound

LEMMA RunnerNext == IInv /\ [Next]_vars => IInv'
<1> SUFFICES ASSUME IInv, [Next]_vars PROVE IInv'
  OBVIOUS
<1>1. CASE UNCHANGED vars
  <2>1. /\ UNCHANGED <<leases, envs, floor, outbox, run>> /\ hub' = hub /\ procs' = procs
        /\ upsets' = upsets
    BY <1>1 DEF vars
  <2>2. hub' \in HubType /\ LandedGrows /\ upsets' \in 0 .. MaxUpsets
    BY <2>1 DEF IInv, Stored, StoreTyped, LandedGrows
  <2> QED BY <2>1, <2>2, RunnerStill
<1>2. CASE Tick
  <2>1. CASE \E e \in run.todo : \/ Reap(e) \/ Resume(e) \/ ReconcileLease(e)
                                 \/ AdvanceSkips(e) \/ AwaitSettled(e) \/ OnUnpause(e)
                                 \/ ExitWaits(e) \/ LaunchJudge(e) \/ Judged(e) \/ NotJudged(e)
    BY <2>1, ReapStep, ResumeStep, ReconcileLeaseStep, AdvanceSkipsStep, AwaitSettledStep,
       OnUnpauseStep, ExitWaitsStep, LaunchJudgeStep, JudgedStep, NotJudgedStep
  <2>2. CASE BeginTick \/ NextStep \/ ReconcileEscalation
    BY <2>2, BeginTickStep, NextStepStep, ReconcileEscalationStep
  <2>3. CASE TearDown \/ FailAttempt \/ AbandonReleases \/ AbandonCloses \/ PreemptCloses
    BY <2>3, TearDownStep, FailAttemptStep, AbandonReleasesStep, AbandonClosesStep,
       PreemptClosesStep
  <2>4. CASE GetEnvelope \/ Mint \/ Launch \/ RecordPid \/ ConfirmDurable
             \/ AwaitIdentity \/ ClearPark \/ ClearMark
    BY <2>4, GetEnvelopeStep, MintStep, LaunchStep, RecordPidStep, ConfirmDurableStep,
       AwaitIdentityStep, ClearParkStep, ClearMarkStep
  <2>5. CASE DrainEnds \/ PushFact \/ SubmitCompletion \/ Consume \/ Apply
    BY <2>5, DrainEndsStep, PushFactStep, SubmitCompletionStep, ConsumeStep, ApplyStep
  <2>6. CASE InterruptedClaim \/ CountSlots \/ Reclaim \/ PeekAndBind \/ ClaimRoute
             \/ DriveHeld \/ Start
    BY <2>6, InterruptedClaimStep, CountSlotsStep, ReclaimStep, PeekAndBindStep,
       ClaimRouteStep, DriveHeldStep, StartStep
  <2> QED BY <1>2, <2>1, <2>2, <2>3, <2>4, <2>5, <2>6 DEF Tick
<1>3. CASE Faults
  BY <1>3, ResumeBrakedStep, DeferEscalationStep, SpawnBrakedStep, LaunchFailsStep,
     IdentityFailsStep, PushUnansweredStep, SubmitUnansweredStep, DrainFailsStep,
     FillHeldBackStep, ClaimUnansweredStep, CrashStep, ShutdownStep DEF Faults
<1>4. CASE Others
  BY <1>4, ProcessExitsStep, LeversStep DEF Others
<1> QED BY <1>1, <1>2, <1>3, <1>4 DEF Next

\* The invariant holds in every behaviour of the runner, for any number of
\* slots, epochs, environments and upsets.
THEOREM RunnerInvariant == Spec => []IInv
<1> QED BY RunnerInit, RunnerNext, PTL DEF Spec

-----------------------------------------------------------------------------
(* What follows from it *)

\* Every store row, outbox entry and in-memory value of the tick stays well
\* formed: no counter, epoch or pid leaves its range.
THEOREM RunnerTypeOK == Spec => []TypeOK
<1>1. IInv => TypeOK
  BY DEF IInv, Stored, StoreTyped, TickSound, TypeOK
<1> QED BY <1>1, RunnerInvariant, PTL

\* Every live process is named by an open lease or armed to die with the
\* runner, across crashes, shutdowns, failed launches and restarts.
THEOREM RunnerForgetsNoWorker == Spec => []NoForgottenWorker
<1>1. IInv => NoForgottenWorker
  BY DEF IInv, TickSound
<1> QED BY <1>1, RunnerInvariant, PTL

\* A lease closed as transitioned had its completion applied at the hub.
THEOREM RunnerClosesLanded == Spec => []ClosedMeansLanded
<1>1. IInv => ClosedMeansLanded
  BY DEF IInv, Stored
<1> QED BY <1>1, RunnerInvariant, PTL

\* However many slots the runner has and leases it holds, a lease's worker and
\* its judge are never both alive.
JudgeAlone == \A e \in Open : leases[e].pid \in procs => leases[e].judge \notin procs

\* A judge is launched only once its lease's worker is dead, and the worker is
\* woken only once the judge is, across crashes, parks, wakes and shutdowns.
THEOREM RunnerJudgesExited == Spec => []JudgeAlone
<1>1. IInv => JudgeAlone
  BY DEF IInv, Stored, LeasesSound, JudgeAlone
<1> QED BY <1>1, RunnerInvariant, PTL

\* A runner with one slot never has two leases open.
THEOREM RunnerOneLease == ASSUME Agents = 1 PROVE Spec => []OneLiveLease
<1>1. IInv => OneLiveLease
  BY DEF IInv, TickSound, SlotFree, Counted, OneLiveLease
<1> QED BY <1>1, RunnerInvariant, PTL

LEMMA OnlyOpen ==
    ASSUME Agents = 1, Counted <= Agents, NEW e \in Open, NEW f \in Open
    PROVE  e = f
<1> DEFINE S == Open \ {e}
<1>1. /\ IsFiniteSet(Open) /\ Cardinality(Open) \in Nat
      /\ Cardinality(Open) <= 1
  BY OpenFinite DEF Counted
<1> HIDE DEF Open
<1>2. IsFiniteSet(S) /\ Cardinality(S) = Cardinality(Open) - 1
  BY <1>1, FS_RemoveElement
<1>3. Cardinality(S) \in Nat
  BY <1>2, FS_CardinalityType
<1>4. Cardinality(S) = 0
  BY <1>1, <1>2, <1>3
<1>5. S = {}
  BY <1>2, <1>4, FS_EmptySet
<1> QED BY <1>5

\* With one slot, the live processes are the one armed or one of the only lease's.
LEMMA OnlyProcess ==
    ASSUME Agents = 1, IInv, NEW p \in procs, NEW q \in procs
    PROVE  p = q
<1>1. Counted <= Agents
  BY DEF IInv, TickSound, SlotFree
<1>2. CASE run.pc = "record"
  <2>1. run.lease \in Open /\ Named(run.lease) \cap procs = {}
    BY <1>2 DEF IInv, TickSound, InHand, Holding, QuietInHand, Quiet
  <2>2. \A x \in procs \ {run.child} : \E e \in Open : x \in Named(e)
    BY DEF IInv, TickSound, NoForgottenWorker, Named
  <2>3. \A x \in procs : x = run.child
    BY <2>1, <2>2, <1>1, OnlyOpen
  <2> QED BY <2>3
<1>3. CASE run.pc # "record"
  <2>1. AllNamed
    <3>1. CASE run.pc = "confirm"
      BY <3>1 DEF IInv, TickSound, InHand, Holding, ChildKnown, NoForgottenWorker, AllNamed, Named
    <3>2. CASE run.pc # "confirm"
      BY <3>2, <1>3, Unarmed
    <3> QED BY <3>1, <3>2
  <2>2. PICK e \in Open : p \in Named(e)
    BY <2>1 DEF AllNamed
  <2>3. PICK f \in Open : q \in Named(f)
    BY <2>1 DEF AllNamed
  <2>4. e = f
    BY <1>1, OnlyOpen
  <2>5. leases[e].pid \in procs => leases[e].judge \notin procs
    BY DEF IInv, Stored, LeasesSound
  <2> QED BY <2>2, <2>3, <2>4, <2>5 DEF Named
<1> QED BY <1>2, <1>3

\* A runner with one slot never has two processes on the chunk: a worker is dead
\* before it is woken again, before another is launched and before it is judged.
THEOREM RunnerOneProcess == ASSUME Agents = 1 PROVE Spec => []OneProcess
<1>1. IInv => OneProcess
  <2> SUFFICES ASSUME IInv PROVE OneProcess
    OBVIOUS
  <2>1. CASE procs = {}
    BY <2>1, FS_EmptySet DEF OneProcess
  <2>2. CASE procs # {}
    <3>1. PICK p \in procs : TRUE
      BY <2>2
    <3>2. procs = {p}
      BY <3>1, OnlyProcess
    <3>3. Cardinality({p}) = 1
      BY FS_Singleton
    <3> QED BY <3>2, <3>3 DEF OneProcess
  <2> QED BY <2>1, <2>2
<1> QED BY <1>1, RunnerInvariant, PTL

-----------------------------------------------------------------------------
(* The environment under the processes *)

EnvRule ==
    /\ envs' < envs => procs' = {}
    /\ procs' \subseteq procs \/ envs > 0 \/ run.back = "drain"

LEMMA EnvsKept ==
    ASSUME IInv, envs' = envs, procs' \subseteq procs
    PROVE  EnvRule
  BY Bounds DEF EnvRule, IInv, Stored, StoreTyped

\* Given back where nothing runs.
LEMMA EnvsReleased ==
    ASSUME procs = {}, procs' = procs
    PROVE  EnvRule
  BY DEF EnvRule

LEMMA NoOpenNoProcess ==
    ASSUME IInv, run.pc \notin {"record", "confirm"}, Open = {}
    PROVE  procs = {}
  BY Unarmed DEF AllNamed

LEMMA FreeSlotNoOpen ==
    ASSUME Agents = 1, Counted < Agents
    PROVE  Open = {}
<1>1. Cardinality(Open) = 0
  BY OpenFinite DEF Counted
<1> QED BY <1>1, OpenFinite

\* The only lease's processes are dead.
LEMMA QuietNoProcess ==
    ASSUME Agents = 1, IInv, run.pc \in Ending, Named(run.lease) \cap procs = {}
    PROVE  procs = {}
  BY EndingFacts, OnlyOpen DEF AllNamed

LEMMA ReleasesKeepRule ==
    ASSUME Agents = 1, IInv, AbandonReleases \/ GetEnvelope \/ Apply \/ InterruptedClaim
                             \/ Reclaim \/ ClaimRoute \/ DriveHeld
    PROVE  EnvRule
<1>1. CASE AbandonReleases
  <2>1. run.pc = "releasing" /\ run.pc \in Ending /\ procs' = procs
    BY <1>1 DEF AbandonReleases, Ending
  <2>2. Named(run.lease) \cap procs = {}
    BY <2>1 DEF IInv, TickSound, QuietInHand, Quiet
  <2> QED BY <2>1, <2>2, QuietNoProcess, EnvsReleased
<1>2. CASE GetEnvelope \/ Apply \/ Reclaim
  <2>1. run.pc \in {"envelope", "apply", "reclaiming"} /\ procs' = procs
    BY <1>2 DEF GetEnvelope, Apply, Reclaim
  <2>2. Counted < Agents
    BY <2>1 DEF IInv, TickSound, SlotFree
  <2> QED BY <2>1, <2>2, FreeSlotNoOpen, NoOpenNoProcess, EnvsReleased
<1>3. CASE ClaimRoute
  <2>1. run.pc = "claiming" /\ run.pc \notin Pauses /\ procs' = procs
    BY <1>3 DEF ClaimRoute, Pauses, Steps
  <2>2. run.left > 0 /\ Counted + run.left <= Agents
    BY <2>1, InCall DEF IInv, TickSound, SlotFree
  <2>3. run.left \in Nat /\ Counted \in Nat
    BY <2>1, InCall, RunFields, CountedNat
  <2>4. Counted < Agents
    BY <2>2, <2>3, Bounds
  <2> QED BY <2>1, <2>4, FreeSlotNoOpen, NoOpenNoProcess, EnvsReleased
<1>4. CASE InterruptedClaim \/ DriveHeld
  <2>1. run.pc \in {"fill", "held"} /\ procs' = procs
    BY <1>4 DEF InterruptedClaim, DriveHeld
  <2>2. CASE Open # {}
    <3>1. envs' = envs
      BY <2>2, <1>4 DEF InterruptedClaim, DriveHeld, KeepEnvs
    <3> QED BY <2>1, <3>1, EnvsKept
  <2>3. CASE Open = {}
    BY <2>1, <2>3, NoOpenNoProcess, EnvsReleased
  <2> QED BY <2>2, <2>3
<1> QED BY <1>1, <1>2, <1>3, <1>4

LEMMA NextKeepsRule ==
    ASSUME Agents = 1, IInv, Next
    PROVE  EnvRule
<1>1. CASE Tick
  <2>1. ASSUME NEW e \in run.todo, \/ Reap(e) \/ Resume(e) \/ ReconcileLease(e)
                                   \/ AdvanceSkips(e) \/ AwaitSettled(e) \/ OnUnpause(e)
                                   \/ ExitWaits(e) \/ LaunchJudge(e) \/ Judged(e) \/ NotJudged(e)
        PROVE  EnvRule
    <3>1. CASE Reap(e) \/ ReconcileLease(e) \/ AdvanceSkips(e) \/ AwaitSettled(e)
               \/ ExitWaits(e) \/ LaunchJudge(e) \/ Judged(e) \/ NotJudged(e)
      <4>1. envs' = envs /\ procs' = procs
        BY <3>1 DEF Reap, ReconcileLease, AdvanceSkips, AwaitSettled, ExitWaits, LaunchJudge,
                    Judged, NotJudged, store
      <4> QED BY <4>1, EnvsKept
    <3>2. CASE Resume(e) \/ OnUnpause(e)
      <4>1. envs' = envs /\ procs' \subseteq procs
        BY <3>2 DEF Resume, OnUnpause
      <4> QED BY <4>1, EnvsKept
    <3> QED BY <2>1, <3>1, <3>2
  <2>2. CASE BeginTick \/ NextStep \/ ReconcileEscalation \/ TearDown \/ FailAttempt
             \/ AbandonCloses \/ PreemptCloses \/ DrainEnds \/ PushFact \/ SubmitCompletion
             \/ Consume \/ CountSlots \/ Start
    <3>1. envs' = envs /\ procs' \subseteq procs
      BY <2>2 DEF BeginTick, NextStep, ReconcileEscalation, TearDown, FailAttempt, AbandonCloses,
                  PreemptCloses, DrainEnds, PushFact, SubmitCompletion, Consume, CountSlots,
                  Start, store
    <3> QED BY <3>1, EnvsKept
  <2>3. CASE Mint \/ RecordPid \/ ConfirmDurable \/ AwaitIdentity \/ ClearPark \/ ClearMark
    <3>1. envs' = envs /\ procs' \subseteq procs
      BY <2>3 DEF Mint, RecordPid, ConfirmDurable, AwaitIdentity, ClearPark, ClearMark, store
    <3> QED BY <3>1, EnvsKept
  <2>4. CASE AbandonReleases \/ GetEnvelope \/ Apply \/ InterruptedClaim \/ Reclaim
             \/ ClaimRoute \/ DriveHeld
    BY <2>4, ReleasesKeepRule
  <2>5. CASE PeekAndBind
    <3>1. procs' = procs /\ (envs' = envs \/ envs' = envs + 1)
      BY <2>5 DEF PeekAndBind
    <3>2. envs \in 0 .. MaxEnvs
      BY DEF IInv, Stored, StoreTyped
    <3>3. ~(envs' < envs)
      BY <3>1, <3>2, Bounds
    <3> QED BY <3>1, <3>3 DEF EnvRule
  <2>6. CASE Launch
    <3>1. envs' = envs /\ run.pc = "launch"
      BY <2>6 DEF Launch, store
    <3>2. envs > 0 \/ run.back = "drain"
      BY <3>1 DEF IInv, TickSound, EnvInHand
    <3>3. envs \in 0 .. MaxEnvs
      BY DEF IInv, Stored, StoreTyped
    <3> QED BY <3>1, <3>2, <3>3, Bounds DEF EnvRule
  <2> QED BY <1>1, <2>1, <2>2, <2>3, <2>4, <2>5, <2>6 DEF Tick
<1>2. CASE Faults
  <2>1. envs' = envs /\ procs' \subseteq procs
    BY <1>2 DEF Faults, ResumeBraked, DeferEscalation, SpawnBraked, LaunchFails, IdentityFails,
                PushUnanswered, SubmitUnanswered, DrainFails, FillHeldBack, ClaimUnanswered,
                Crash, Shutdown, store
  <2> QED BY <2>1, EnvsKept
<1>3. CASE Others
  <2>1. envs' = envs /\ procs' \subseteq procs
    BY <1>3 DEF Others, ProcessExits, HubMoves, Stop, Detach, Pause, Unpause, Restart, Requeue,
                RivalClaims, RivalCompletes, HubNodeEnds, store
  <2> QED BY <2>1, EnvsKept
<1> QED BY <1>1, <1>2, <1>3 DEF Next

\* A runner with one slot gives no environment back under a live worker or
\* judge, and launches none without one but on a completion's answer.
THEOREM RunnerHoldsEnv == ASSUME Agents = 1 PROVE Spec => EnvHeldWhileWorking
<1>1. IInv /\ [Next]_vars => [EnvRule]_vars
  BY NextKeepsRule
<1> QED BY <1>1, RunnerInvariant, PTL DEF Spec, EnvHeldWhileWorking, EnvRule

-----------------------------------------------------------------------------
(* The epoch fence *)

\* The runner's moves, as Fence reads them off what landed.
FLeft == {[epoch |-> e, by |-> "us"] : e \in {x \in Epochs : hub.landed[x] # "none"}}

FencedStep == [Fence!Next]_(Fence!vars)

\* Nothing the fence sees changes, or the route is given up.
LEMMA FenceKeepOrRevoke ==
    ASSUME hub'.epoch = hub.epoch, hub'.owner = hub.owner, hub'.landed = hub.landed,
           hub'.end = hub.end,
           hub'.route = hub.route \/ (hub.end = "no" /\ hub'.route = "none")
    PROVE  FencedStep
<1>1. FLeft' = FLeft
  BY DEF FLeft
<1>2. CASE hub'.route = hub.route
  BY <1>1, <1>2 DEF FencedStep, Fence!vars, FLeft
<1>3. CASE hub.end = "no" /\ hub'.route = "none"
  <2>1. Fence!Revoke
    BY <1>1, <1>3 DEF Fence!Revoke, FLeft
  <2> QED BY <2>1 DEF FencedStep, Fence!Next
<1> QED BY <1>2, <1>3

LEMMA FenceHub ==
    ASSUME hub' = hub
    PROVE  FencedStep
  BY FenceKeepOrRevoke

\* A restart or the hub's own node: an epoch up, and the hub's.
LEMMA FenceHubStep ==
    ASSUME hub.end = "no", hub'.epoch = hub.epoch + 1, hub'.owner = "hub",
           hub'.landed = hub.landed, hub'.route \in {hub.route, "none"}
    PROVE  FencedStep
<1>1. FLeft' = FLeft
  BY DEF FLeft
<1>2. Fence!HubStep
  BY <1>1 DEF Fence!HubStep, FLeft
<1> QED BY <1>2 DEF FencedStep, Fence!Next

LEMMA FenceEnd ==
    ASSUME hub.end = "no", hub'.end # "no", hub'.epoch = hub.epoch, hub'.owner = hub.owner,
           hub'.landed = hub.landed, hub'.route \in {hub.route, "none"}
    PROVE  FencedStep
<1>1. FLeft' = FLeft
  BY DEF FLeft
<1>2. Fence!End
  BY <1>1 DEF Fence!End, FLeft
<1> QED BY <1>2 DEF FencedStep, Fence!Next

\* A claim finds nobody holding the chunk.
LEMMA FenceClaimed ==
    ASSUME hub \in HubType, Claimable, NEW r \in {"us", "other"}, hub' = Claimed(r)
    PROVE  FencedStep
<1>1. hub.end = "no" /\ hub.route = "none"
  BY DEF Claimable, status, HubType
<1>2. /\ hub'.route = r /\ hub'.owner = r /\ hub'.epoch = hub.epoch + 1
      /\ hub'.landed = hub.landed /\ hub'.end = hub.end
  BY DEF Claimed, HubType
<1>3. FLeft' = FLeft
  BY <1>2 DEF FLeft
<1>4. Fence!Grant(r)
  BY <1>1, <1>2, <1>3 DEF Fence!Grant, FLeft
<1> QED BY <1>4 DEF FencedStep, Fence!Next

\* A minted fact renews the grant its runner holds, or repeats the newest epoch;
\* an escalation changes nothing of the fence.
LEMMA FenceIngested ==
    ASSUME hub \in HubType, NEW f \in FactType, hub' = Ingested(f)
    PROVE  FencedStep
<1>1. f.epoch \in Nat /\ hub.epoch \in Nat
  BY Bounds DEF FactType, Epochs, HubType
<1>2. CASE hub' = hub
  BY <1>2, FenceHub
<1>3. CASE hub' = [hub EXCEPT !.esc = f.epoch]
  <2>1. /\ hub'.epoch = hub.epoch /\ hub'.owner = hub.owner /\ hub'.landed = hub.landed
        /\ hub'.end = hub.end /\ hub'.route = hub.route
    BY <1>3 DEF HubType
  <2> QED BY <2>1, FenceKeepOrRevoke
<1>4. CASE /\ hub.end = "no" /\ f.epoch >= hub.epoch
           /\ IF f.epoch > hub.epoch THEN hub.route = "us" ELSE hub.owner = "us"
           /\ hub' = [hub EXCEPT !.epoch = f.epoch, !.owner = "us", !.esc = 0]
  <2>1. /\ hub'.epoch = f.epoch /\ hub'.owner = "us" /\ hub'.landed = hub.landed
        /\ hub'.end = hub.end /\ hub'.route = hub.route
    BY <1>4 DEF HubType
  <2>2. CASE f.epoch > hub.epoch
    <3>1. FLeft' = FLeft
      BY <2>1 DEF FLeft
    <3>2. Fence!Renew("us")
      BY <2>1, <2>2, <3>1, <1>1, <1>4 DEF Fence!Renew, FLeft
    <3> QED BY <3>2 DEF FencedStep, Fence!Next
  <2>3. CASE ~(f.epoch > hub.epoch)
    <3>1. f.epoch = hub.epoch /\ hub.owner = "us"
      BY <2>3, <1>1, <1>4
    <3> QED BY <2>1, <3>1, FenceKeepOrRevoke
  <2> QED BY <2>2, <2>3
<1> QED BY <1>2, <1>3, <1>4 DEF Ingested

\* A completion that lands moves the chunk in the epoch its runner owns; a
\* replayed or a rejected one changes nothing.
LEMMA FenceApplied ==
    ASSUME hub \in HubType, NEW e \in Epochs, NEW a \in Applied(e), hub' = a[2]
    PROVE  FencedStep
<1>1. CASE hub' = hub
  BY <1>1, FenceHub
<1>2. CASE /\ hub.landed[e] = "none" /\ hub.end = "no" /\ e = hub.epoch /\ hub.owner = "us"
           /\ \E o \in Outcomes :
                 hub' = [hub EXCEPT !.landed[e] = o,
                           !.at = IF o = "HUB_NODE_TAKEN" THEN "hub" ELSE "runner",
                           !.end = IF o = "DONE" THEN "done" ELSE @,
                           !.route = IF o = "MIGRATED" THEN "none" ELSE @]
  <2>1. PICK o \in Outcomes :
           /\ hub'.landed = [hub.landed EXCEPT ![e] = o] /\ hub'.epoch = hub.epoch
           /\ hub'.owner = hub.owner /\ hub'.route \in {hub.route, "none"}
    BY <1>2 DEF HubType
  <2>2. "none" \notin Outcomes
    BY DEF Outcomes
  <2>3. {x \in Epochs : hub'.landed[x] # "none"} = {x \in Epochs : hub.landed[x] # "none"} \cup {e}
    BY <2>1, <2>2 DEF HubType
  <2>4. FLeft' = FLeft \cup {[epoch |-> e, by |-> "us"]}
    BY <2>3, Zenon DEF FLeft
  <2>5. Fence!Advance("us")
    BY <2>1, <2>4, <1>2 DEF Fence!Advance, Fence!MayMove, FLeft
  <2> QED BY <2>5 DEF FencedStep, Fence!Next
<1>3. CASE hub.landed[e] # "none"
  <2>1. a = <<hub.landed[e], hub>>
    BY <1>3 DEF Applied
  <2> QED BY <2>1, <1>1
<1>4. CASE /\ hub.landed[e] = "none"
           /\ hub.end # "no" \/ e # hub.epoch \/ hub.owner # "us" \/ hub.at = "hub" \/ hub.esc = e
  <2>1. a = <<"FAILURE", hub>>
    BY <1>4 DEF Applied
  <2> QED BY <2>1, <1>1
<1>5. CASE /\ hub.landed[e] = "none"
           /\ ~(hub.end # "no" \/ e # hub.epoch \/ hub.owner # "us" \/ hub.at = "hub" \/ hub.esc = e)
  <2>1. PICK o \in Outcomes : a = <<o, [hub EXCEPT !.landed[e] = o,
                           !.at = IF o = "HUB_NODE_TAKEN" THEN "hub" ELSE "runner",
                           !.end = IF o = "DONE" THEN "done" ELSE @,
                           !.route = IF o = "MIGRATED" THEN "none" ELSE @]>>
    BY <1>5 DEF Applied
  <2> QED BY <2>1, <1>2, <1>5
<1> QED BY <1>3, <1>4, <1>5

LEMMA FenceLevers ==
    ASSUME hub \in HubType, Stop \/ Detach \/ Pause \/ Unpause \/ Restart \/ Requeue
                            \/ RivalClaims \/ RivalCompletes \/ HubNodeEnds
    PROVE  FencedStep
<1>1. CASE Stop \/ RivalCompletes
  <2>1. /\ hub.end = "no" /\ hub'.end # "no" /\ hub'.epoch = hub.epoch
        /\ hub'.owner = hub.owner /\ hub'.landed = hub.landed
        /\ hub'.route \in {hub.route, "none"}
    BY <1>1 DEF Stop, RivalCompletes, HubMoves, status, HubType
  <2> QED BY <2>1, FenceEnd
<1>2. CASE Detach \/ Pause \/ Unpause \/ Requeue
  <2>1. /\ hub'.epoch = hub.epoch /\ hub'.owner = hub.owner /\ hub'.landed = hub.landed
        /\ hub'.end = hub.end
        /\ hub'.route = hub.route \/ (hub.end = "no" /\ hub'.route = "none")
    BY <1>2 DEF Detach, Pause, Unpause, Requeue, HubMoves, status, HubType
  <2> QED BY <2>1, FenceKeepOrRevoke
<1>3. CASE Restart \/ HubNodeEnds
  <2>1. /\ hub.end = "no" /\ hub'.epoch = hub.epoch + 1 /\ hub'.owner = "hub"
        /\ hub'.landed = hub.landed /\ hub'.route \in {hub.route, "none"}
    BY <1>3 DEF Restart, HubNodeEnds, HubMoves, status, HubType
  <2> QED BY <2>1, FenceHubStep
<1>4. CASE RivalClaims
  BY <1>4, FenceClaimed DEF RivalClaims, HubMoves
<1> QED BY <1>1, <1>2, <1>3, <1>4

LEMMA FenceNext ==
    ASSUME IInv, Next
    PROVE  FencedStep
<1>0. hub \in HubType
  BY DEF IInv, Stored, StoreTyped
<1>1. CASE Tick
  <2>1. CASE \E e \in run.todo : \/ Reap(e) \/ Resume(e) \/ ReconcileLease(e)
                                 \/ AdvanceSkips(e) \/ AwaitSettled(e) \/ OnUnpause(e)
                                 \/ ExitWaits(e) \/ LaunchJudge(e) \/ Judged(e) \/ NotJudged(e)
    <3>1. hub' = hub
      BY <2>1 DEF Reap, Resume, ReconcileLease, AdvanceSkips, AwaitSettled, OnUnpause, ExitWaits,
                  LaunchJudge, Judged, NotJudged
    <3> QED BY <3>1, FenceHub
  <2>2. CASE BeginTick \/ NextStep \/ ReconcileEscalation \/ TearDown \/ FailAttempt
             \/ AbandonReleases \/ AbandonCloses \/ PreemptCloses \/ GetEnvelope \/ Mint
             \/ Launch \/ RecordPid \/ ConfirmDurable \/ AwaitIdentity \/ ClearPark \/ ClearMark
    <3>1. hub' = hub
      BY <2>2 DEF BeginTick, NextStep, ReconcileEscalation, TearDown, FailAttempt,
                  AbandonReleases, AbandonCloses, PreemptCloses, GetEnvelope, Mint, Launch,
                  RecordPid, ConfirmDurable, AwaitIdentity, ClearPark, ClearMark
    <3> QED BY <3>1, FenceHub
  <2>3. CASE DrainEnds \/ Consume \/ Apply \/ InterruptedClaim \/ CountSlots \/ PeekAndBind
             \/ DriveHeld \/ Start
    <3>1. hub' = hub
      BY <2>3 DEF DrainEnds, Consume, Apply, InterruptedClaim, CountSlots, PeekAndBind,
                  DriveHeld, Start
    <3> QED BY <3>1, FenceHub
  <2>4. CASE PushFact
    BY <2>4, <1>0, HeadSent, FenceIngested DEF PushFact
  <2>5. CASE SubmitCompletion
    <3>1. \E a \in Applied(Head(outbox).epoch) : hub' = a[2]
      BY <2>5 DEF SubmitCompletion
    <3>2. Head(outbox).epoch \in Epochs
      BY <2>5, HeadSent DEF SubmitCompletion
    <3> QED BY <3>1, <3>2, <1>0, FenceApplied
  <2>6. CASE Reclaim \/ ClaimRoute
    <3>1. hub' = hub \/ (Claimable /\ hub' = Claimed("us"))
      BY <2>6 DEF Reclaim, ClaimRoute
    <3> QED BY <3>1, <1>0, FenceHub, FenceClaimed
  <2> QED BY <1>1, <2>1, <2>2, <2>3, <2>4, <2>5, <2>6 DEF Tick
<1>2. CASE Faults
  <2>1. CASE \/ \E e \in run.todo : ResumeBraked(e)
             \/ DeferEscalation \/ SpawnBraked \/ LaunchFails \/ IdentityFails
             \/ DrainFails \/ FillHeldBack \/ Crash \/ Shutdown
    <3>1. hub' = hub
      BY <2>1 DEF ResumeBraked, DeferEscalation, SpawnBraked, LaunchFails, IdentityFails,
                  DrainFails, FillHeldBack, Crash, Shutdown
    <3> QED BY <3>1, FenceHub
  <2>2. CASE PushUnanswered
    BY <2>2, <1>0, HeadSent, FenceIngested DEF PushUnanswered
  <2>3. CASE SubmitUnanswered
    <3>1. \E a \in Applied(Head(outbox).epoch) : hub' = a[2]
      BY <2>3 DEF SubmitUnanswered
    <3>2. Head(outbox).epoch \in Epochs
      BY <2>3, HeadSent DEF SubmitUnanswered
    <3> QED BY <3>1, <3>2, <1>0, FenceApplied
  <2>4. CASE ClaimUnanswered
    <3>1. hub' = hub \/ (Claimable /\ hub' = Claimed("us"))
      BY <2>4 DEF ClaimUnanswered
    <3> QED BY <3>1, <1>0, FenceHub, FenceClaimed
  <2> QED BY <1>2, <2>1, <2>2, <2>3, <2>4 DEF Faults
<1>3. CASE Others
  <2>1. CASE \E p \in procs : ProcessExits(p)
    <3>1. hub' = hub
      BY <2>1 DEF ProcessExits
    <3> QED BY <3>1, FenceHub
  <2> QED BY <2>1, <1>0, <1>3, FenceLevers DEF Others
<1> QED BY <1>1, <1>2, <1>3 DEF Next

\* One runner, over lost answers, replayed facts and completions, crashes and
\* second claims, keeps the epoch fence at the hub: every step of its tick, and
\* every lever pulled meanwhile, is a step of FencedChunk or leaves it alone.
THEOREM RunnerKeepsFence == Spec => KeepsFence
<1>1. Init => Fence!Init
  BY DEF Init, Fence!Init
<1>2. IInv /\ [Next]_vars => FencedStep
  <2> SUFFICES ASSUME IInv, [Next]_vars PROVE FencedStep
    OBVIOUS
  <2>1. CASE UNCHANGED vars
    BY <2>1, FenceHub DEF vars
  <2> QED BY <2>1, FenceNext
<1> QED BY <1>1, <1>2, RunnerInvariant, PTL DEF Spec, KeepsFence, Fence!Spec, FencedStep
=============================================================================
