----------------------- MODULE ChunkDependenciesProofs -----------------------
(***************************************************************************)
(* Proofs about ChunkDependencies, for any finite set of chunks and any    *)
(* number of transactions in flight.                                       *)
(*                                                                         *)
(* What a transaction read when it took its locks must still be so when it *)
(* commits.  For the four that write edges that is the graph lock's doing  *)
(* (one of them at a time, so the edges stand still meanwhile) and the row *)
(* locks' (the states of the chunks they name stand still too).  The claim *)
(* takes no graph lock: an edge of its chunk may be minted after its read, *)
(* but only by a fold of a prerequisite it did read, and that one is gone  *)
(* when the claim looks at it.                                             *)
(***************************************************************************)
EXTENDS ChunkDependencies, FiniteSetTheorems, WellFoundedInduction, TLAPS

-----------------------------------------------------------------------------
(* The inductive invariant *)

Edges == [dep : Chunks, pre : Chunks, at : 1 .. MaxAt]

Types ==
    /\ state \in [Chunks -> {"pre_claim", "held", "parked", "done", "gone"}]
    /\ standing \subseteq Edges
    /\ refs \in [Chunks -> SUBSET Chunks]
    /\ open \subseteq Chunks

\* Two transactions in flight lock no common row, and at most one writes edges.
Locks ==
    /\ \A t, u \in txns : t # u => t.rows \cap u.rows = {}
    /\ \A t, u \in txns : t.op # "claim" /\ u.op # "claim" => t = u

\* What a declare found is still so.
DeclareSound(t) ==
    /\ t.dep \in Chunks /\ t.pre \in Chunks /\ {t.dep, t.pre} \subseteq t.rows
    /\ Standing(t.dep, t.pre) = {}
    /\ state[t.dep] = "pre_claim" /\ state[t.pre] # "gone"
    /\ ~would_close_a_cycle({Pair(e) : e \in standing} \cup {<<t.dep, t.pre>>})

\* The plan a fold carries is the plan of the edges that stand.
GroupSound(t) ==
    LET plan == plan_fold(t.survivor, t.targets)
    IN /\ t.survivor \in Chunks /\ t.targets \subseteq Chunks \ {t.survivor}
       /\ t.targets \cup {t.survivor} \subseteq t.rows
       /\ \A c \in t.targets \cup {t.survivor} : state[c] = "pre_claim"
       /\ t.mint = plan.mint
       /\ t.release = standing \ plan.remaining
       /\ ~would_close_a_cycle({Pair(e) : e \in plan.remaining \cup plan.mint})

\* Nobody has come to wait for a chunk that is about to be deleted.
DeleteSound(t) ==
    /\ t.chunk \in Chunks /\ t.chunk \in t.rows
    /\ state[t.chunk] = "pre_claim"
    /\ \A e \in standing : e.pre # t.chunk

\* A claim has read every prerequisite its chunk has now, or one it has read
\* is gone, and then it is denied.
ClaimSound(t) ==
    /\ t.chunk \in Chunks /\ t.chunk \in t.rows
    /\ t.prerequisites \subseteq Chunks
    /\ state[t.chunk] = "pre_claim"
    /\ \/ Prerequisites(t.chunk) \subseteq t.prerequisites
       \/ \E q \in t.prerequisites : state[q] = "gone"

Sound(t) ==
    /\ t.op \in {"declare", "group", "delete", "claim"}
    /\ t.op = "declare" => DeclareSound(t)
    /\ t.op = "group" => GroupSound(t)
    /\ t.op = "delete" => DeleteSound(t)
    /\ t.op = "claim" => ClaimSound(t)

IInv ==
    /\ Types
    /\ Locks
    /\ \A t \in txns : Sound(t)
    /\ StandingGraphSound
    /\ GoneLeavesNothing
    /\ HeldPrerequisitesDone

-----------------------------------------------------------------------------
(* Reachability *)

\* A set of numbers has a least one.
LEMMA LeastNumber ==
    ASSUME NEW T \in SUBSET Nat, T # {}
    PROVE  \E x \in T : \A y \in T : x <= y
<1>1. PICK x \in T : \A y \in T : ~(<<y, x>> \in OpToRel(<, Nat))
  BY NatLessThanWellFounded, WFMin, Zenon
<1>2. \A y \in T : ~(y < x)
  BY <1>1 DEF OpToRel
<1> QED BY <1>2

Below(pairs, S) == {q[2] : q \in {r \in pairs : r[1] \in S}}

\* What is reached from c in one or more steps.
Reached(pairs, c) ==
    {x \in Chunks : \A S \in SUBSET Chunks :
        Below(pairs, {c}) \subseteq S /\ Below(pairs, S) \subseteq S => x \in S}

\* Where no chunk is reached from itself, any set of chunks has one with
\* nothing of the set right below it: the one that reaches least.
LEMMA SourceOfSet ==
    ASSUME NEW pairs \in SUBSET (Chunks \X Chunks), ~would_close_a_cycle(pairs),
           NEW S \in SUBSET Chunks, S # {}
    PROVE  \E c \in S : \A q \in pairs : ~(q[1] = c /\ q[2] \in S)
<1>1. \A c \in Chunks : c \notin Reached(pairs, c)
  BY DEF would_close_a_cycle, Reached, Below
<1>2. \A c \in Chunks : /\ IsFiniteSet(Reached(pairs, c))
                        /\ Cardinality(Reached(pairs, c)) \in Nat
  <2> TAKE c \in Chunks
  <2>1. Reached(pairs, c) \in SUBSET Chunks
    BY DEF Reached
  <2> QED BY <2>1, FS_Subset, FS_CardinalityType, ChunksAssumption
<1>3. PICK c \in S : \A d \in S :
            Cardinality(Reached(pairs, c)) <= Cardinality(Reached(pairs, d))
  <2> DEFINE T == {Cardinality(Reached(pairs, d)) : d \in S}
  <2>1. T \in SUBSET Nat /\ T # {}
    BY <1>2
  <2> HIDE DEF T
  <2>2. PICK x \in T : \A y \in T : x <= y
    BY <2>1, LeastNumber
  <2> QED BY <2>2 DEF T
<1>4. ASSUME NEW q \in pairs, q[1] = c, q[2] \in S PROVE FALSE
  <2> DEFINE d == q[2]
  <2>1. d \in Below(pairs, {c})
    BY <1>4 DEF Below
  <2>2. d \in Reached(pairs, c)
    BY <2>1, <1>4 DEF Reached
  <2>3. Below(pairs, {d}) \subseteq Reached(pairs, c)
    <3> SUFFICES ASSUME NEW r \in pairs, r[1] = d PROVE r[2] \in Reached(pairs, c)
      BY DEF Below
    <3>1. r[2] \in Chunks
      OBVIOUS
    <3>2. ASSUME NEW U \in SUBSET Chunks, Below(pairs, {c}) \subseteq U,
                 Below(pairs, U) \subseteq U
          PROVE  r[2] \in U
      <4>1. d \in U
        BY <2>1, <3>2
      <4> QED BY <4>1, <3>2 DEF Below
    <3> QED BY <3>1, <3>2 DEF Reached
  <2>4. Below(pairs, Reached(pairs, c)) \subseteq Reached(pairs, c)
    <3> SUFFICES ASSUME NEW r \in pairs, r[1] \in Reached(pairs, c)
                 PROVE  r[2] \in Reached(pairs, c)
      BY DEF Below
    <3>1. r[2] \in Chunks
      OBVIOUS
    <3>2. ASSUME NEW U \in SUBSET Chunks, Below(pairs, {c}) \subseteq U,
                 Below(pairs, U) \subseteq U
          PROVE  r[2] \in U
      <4>1. r[1] \in U
        BY <3>2 DEF Reached
      <4> QED BY <4>1, <3>2 DEF Below
    <3> QED BY <3>1, <3>2 DEF Reached
  <2>5. Reached(pairs, d) \subseteq Reached(pairs, c)
    <3>1. Reached(pairs, c) \in SUBSET Chunks
      BY DEF Reached
    <3>2. ASSUME NEW x \in Reached(pairs, d) PROVE x \in Reached(pairs, c)
      <4>1. \A U \in SUBSET Chunks :
              Below(pairs, {d}) \subseteq U /\ Below(pairs, U) \subseteq U => x \in U
        BY DEF Reached
      <4> QED BY <4>1, <3>1, <2>3, <2>4
    <3> QED BY <3>2
  <2>6. Reached(pairs, d) # Reached(pairs, c)
    BY <2>2, <1>1, <1>4
  <2>7. Cardinality(Reached(pairs, d)) < Cardinality(Reached(pairs, c))
    <3>1. Reached(pairs, d) \in SUBSET Reached(pairs, c)
      BY <2>5
    <3>2. /\ Cardinality(Reached(pairs, d)) <= Cardinality(Reached(pairs, c))
          /\ Cardinality(Reached(pairs, c)) = Cardinality(Reached(pairs, d)) =>
                Reached(pairs, c) = Reached(pairs, d)
      BY <3>1, <1>2, FS_Subset
    <3> QED BY <3>2, <2>6, <1>2, <1>4
  <2> QED BY <2>7, <1>3, <1>2, <1>4
<1> QED BY <1>4

\* Released edges close no cycle.
LEMMA FewerEdges ==
    ASSUME Types, StandingGraphSound, standing' \subseteq standing
    PROVE  StandingGraphSound'
BY DEF StandingGraphSound, Prerequisites, Standing, Pair

\* Edges that pass the test and repeat no pair are a sound graph.
LEMMA TestedEdges ==
    ASSUME NEW E \in SUBSET Edges,
           ~would_close_a_cycle({Pair(e) : e \in E}),
           \A e, f \in E : Pair(e) = Pair(f) => e = f,
           standing' = E
    PROVE  StandingGraphSound'
<1> DEFINE pairs == {Pair(e) : e \in E}
<1>1. pairs \in SUBSET (Chunks \X Chunks)
  BY DEF Edges, Pair
<1>2. ASSUME NEW S \in SUBSET Chunks, S # {}
      PROVE  \E c \in S : Prerequisites(c)' \cap S = {}
  <2> HIDE DEF pairs
  <2>1. PICK c \in S : \A q \in pairs : ~(q[1] = c /\ q[2] \in S)
    BY <1>1, <1>2, SourceOfSet DEF pairs
  <2>2. ASSUME NEW e \in E, e.dep = c PROVE e.pre \notin S
    <3>1. <<e.dep, e.pre>> \in pairs
      BY DEF pairs, Pair
    <3> QED BY <3>1, <2>1, <2>2
  <2> QED BY <2>2 DEF Prerequisites
<1>3. \A e \in standing' : Standing(e.dep, e.pre)' = {e}
  BY DEF Standing, Pair
<1> QED BY <1>2, <1>3 DEF StandingGraphSound

\* No chunk waits for itself.
LEMMA NoSelfEdge ==
    ASSUME Types, StandingGraphSound, NEW e \in standing
    PROVE  e.dep # e.pre
<1>1. e.dep \in Chunks
  BY DEF Types, Edges
<1>2. {e.dep} \in (SUBSET Chunks) \ {{}}
  BY <1>1
<1>3. Prerequisites(e.dep) \cap {e.dep} = {}
  BY <1>2 DEF StandingGraphSound
<1> QED BY <1>3 DEF Prerequisites

-----------------------------------------------------------------------------
(* The fold *)

Remap(survivor, folded, c) == IF c \in folded THEN survivor ELSE c

\* The edges of E read with the survivor in place of the folded chunks.
Image(survivor, folded, E) ==
    {[dep |-> Remap(survivor, folded, e.dep), pre |-> Remap(survivor, folded, e.pre),
      at |-> e.at] : e \in E}

\* Of these, each pair's earliest, without the ones that collapse.
Earliest(I) ==
    {m \in I : m.dep # m.pre /\ \A n \in I : Pair(n) = Pair(m) => m.at <= n.at}

Touched(folded) == {e \in standing : {e.dep, e.pre} \cap folded # {}}

\* plan_fold in these terms.
LEMMA PlanParts ==
    ASSUME NEW survivor, NEW folded
    PROVE  LET plan == plan_fold(survivor, folded)
               rest == standing \ Touched(folded)
           IN /\ plan.mint =
                    {m \in Earliest(Image(survivor, folded, Touched(folded))) :
                        \A f \in rest : Pair(f) = Pair(m) => m.at < f.at}
              /\ plan.remaining =
                    {f \in rest : \A m \in plan.mint : Pair(m) # Pair(f)}
BY DEF plan_fold, Image, Earliest, Touched, Remap

\* What a fold leaves standing: edges that repeat no pair and name no folded
\* chunk; a minted one comes of an edge that named one.
LEMMA FoldPlan ==
    ASSUME Types, StandingGraphSound, NEW survivor \in Chunks,
           NEW folded \in SUBSET (Chunks \ {survivor})
    PROVE  LET plan == plan_fold(survivor, folded)
               E == plan.remaining \cup plan.mint
           IN /\ E \subseteq Edges
              /\ plan.remaining \subseteq standing
              /\ \A e, f \in E : Pair(e) = Pair(f) => e = f
              /\ \A e \in E : e.dep \notin folded /\ e.pre \notin folded
              /\ \A m \in plan.mint : \E e \in Touched(folded) :
                    /\ m.dep = Remap(survivor, folded, e.dep)
                    /\ m.pre = Remap(survivor, folded, e.pre)
<1> DEFINE plan == plan_fold(survivor, folded)
           I == Image(survivor, folded, Touched(folded))
           rest == standing \ Touched(folded)
<1>1. /\ plan.mint = {m \in Earliest(I) : \A f \in rest : Pair(f) = Pair(m) => m.at < f.at}
      /\ plan.remaining = {f \in rest : \A m \in plan.mint : Pair(m) # Pair(f)}
  BY PlanParts
<1>2. \A m \in I : /\ m \in Edges
                   /\ m.dep \notin folded /\ m.pre \notin folded
                   /\ \E e \in Touched(folded) :
                         /\ m.dep = Remap(survivor, folded, e.dep)
                         /\ m.pre = Remap(survivor, folded, e.pre)
  BY DEF Image, Touched, Remap, Types, Edges
<1>3. plan.mint \subseteq I
  BY <1>1 DEF Earliest
<1>4. \A m, n \in plan.mint : Pair(m) = Pair(n) => m = n
  <2> SUFFICES ASSUME NEW m \in plan.mint, NEW n \in plan.mint, Pair(m) = Pair(n)
               PROVE  m = n
    OBVIOUS
  <2>1. m \in Edges /\ n \in Edges
    BY <1>2, <1>3
  <2>2. m.at <= n.at /\ n.at <= m.at
    BY <1>1, <1>3 DEF Earliest
  <2> QED BY <2>1, <2>2 DEF Pair, Edges
<1>5. \A e, f \in plan.remaining : Pair(e) = Pair(f) => e = f
  BY <1>1 DEF StandingGraphSound, Standing, Pair
<1>6. \A e \in plan.remaining, m \in plan.mint : Pair(m) # Pair(e)
  BY <1>1
<1>7. \A e \in plan.remaining : e \in standing /\ e \in Edges
                                /\ e.dep \notin folded /\ e.pre \notin folded
  BY <1>1 DEF Touched, Types
<1> HIDE DEF plan, I, rest
<1>8. \A e, f \in plan.remaining \cup plan.mint : Pair(e) = Pair(f) => e = f
  BY <1>4, <1>5, <1>6
<1> QED BY <1>2, <1>3, <1>7, <1>8 DEF plan

\* What a fold leaves standing is each pair's earliest edge, survivor for folded.
LEMMA FoldIsEarliest ==
    ASSUME Types, StandingGraphSound, NEW survivor \in Chunks,
           NEW folded \in SUBSET (Chunks \ {survivor})
    PROVE  LET plan == plan_fold(survivor, folded)
           IN plan.remaining \cup plan.mint = Earliest(Image(survivor, folded, standing))
<1> DEFINE plan == plan_fold(survivor, folded)
           I == Image(survivor, folded, Touched(folded))
           rest == standing \ Touched(folded)
<1>1. plan.mint = {m \in Earliest(I) : \A f \in rest : Pair(f) = Pair(m) => m.at < f.at}
  BY PlanParts
<1>2. plan.remaining = {f \in rest : \A m \in plan.mint : Pair(m) # Pair(f)}
  BY PlanParts
<1>3. Image(survivor, folded, standing) = I \cup rest
  <2>1. \A e \in rest :
            /\ e \in Edges
            /\ [dep |-> Remap(survivor, folded, e.dep), pre |-> Remap(survivor, folded, e.pre),
                at |-> e.at] = e
    BY DEF Touched, Remap, Types, Edges
  <2>2. I \cup rest \subseteq Image(survivor, folded, standing)
    BY <2>1 DEF Image, Touched
  <2>3. Image(survivor, folded, standing) \subseteq I \cup rest
    BY <2>1 DEF Image
  <2> QED BY <2>2, <2>3
<1>4. I \subseteq Edges /\ rest \subseteq Edges
  BY DEF Image, Touched, Remap, Types, Edges
<1>5. \A m \in Edges : m.at \in Nat
  BY DEF Edges
<1>6. \A e, f \in rest : Pair(e) = Pair(f) => e = f
  BY DEF StandingGraphSound, Standing, Pair
<1>7. \A e \in rest : e.dep # e.pre
  BY NoSelfEdge
<1> HIDE DEF plan, I, rest
<1>8. ASSUME NEW m \in plan.mint PROVE m \in Earliest(I \cup rest)
  <2>1. m \in I /\ m.dep # m.pre
    BY <1>1 DEF Earliest
  <2>2. \A n \in I : Pair(n) = Pair(m) => m.at <= n.at
    BY <1>1 DEF Earliest
  <2>3. \A n \in rest : Pair(n) = Pair(m) => m.at <= n.at
    BY <1>1, <2>1, <1>4, <1>5
  <2> QED BY <2>1, <2>2, <2>3 DEF Earliest
<1>9. ASSUME NEW m \in plan.remaining PROVE m \in Earliest(I \cup rest)
  <2>1. m \in rest /\ m.dep # m.pre
    BY <1>2, <1>7
  <2>2. ASSUME NEW n \in I, Pair(n) = Pair(m), ~(m.at <= n.at) PROVE FALSE
    <3> DEFINE T == {k.at : k \in {l \in I : Pair(l) = Pair(m)}}
    <3>1. T \in SUBSET Nat /\ T # {}
      BY <1>4, <1>5, <2>2
    <3> HIDE DEF T
    <3>2. PICK x \in T : \A y \in T : x <= y
      BY <3>1, LeastNumber
    <3>3. PICK k \in I : Pair(k) = Pair(m) /\ k.at = x
      BY DEF T
    <3>4. \A l \in I : Pair(l) = Pair(k) => k.at <= l.at
      BY <3>2, <3>3 DEF T
    <3>5. k.dep # k.pre
      BY <2>1, <3>3 DEF Pair
    <3>6. k.at < m.at
      BY <3>3, <3>4, <2>2, <2>1, <1>4, <1>5
    <3>7. \A f \in rest : Pair(f) = Pair(k) => k.at < f.at
      BY <3>3, <3>6, <2>1, <1>6
    <3>8. k \in plan.mint
      BY <3>4, <3>5, <3>7, <1>1 DEF Earliest
    <3> QED BY <3>8, <3>3, <1>2
  <2>3. \A n \in rest : Pair(n) = Pair(m) => m.at <= n.at
    BY <2>1, <1>6, <1>4, <1>5
  <2> QED BY <2>1, <2>2, <2>3 DEF Earliest
<1>10. ASSUME NEW m \in Earliest(I \cup rest) PROVE m \in plan.remaining \cup plan.mint
  <2>1. /\ m \in I \cup rest /\ m.dep # m.pre
        /\ \A n \in I \cup rest : Pair(n) = Pair(m) => m.at <= n.at
    BY DEF Earliest
  <2>2. CASE m \in rest
    <3>1. ASSUME NEW k \in plan.mint, Pair(k) = Pair(m) PROVE FALSE
      <4>1. k \in I /\ k.at < m.at
        BY <1>1, <2>2, <3>1 DEF Earliest
      <4>2. m.at <= k.at
        BY <4>1, <2>1, <3>1
      <4> QED BY <4>1, <4>2, <2>2, <1>4, <1>5
    <3> QED BY <3>1, <2>2, <1>2
  <2>3. CASE m \notin rest
    <3>1. m \in I
      BY <2>1, <2>3
    <3>2. ASSUME NEW f \in rest, Pair(f) = Pair(m) PROVE m.at < f.at
      <4>1. m.at <= f.at
        BY <2>1, <3>2
      <4>2. m.at # f.at
        BY <3>1, <3>2, <2>3, <1>4 DEF Pair, Edges
      <4> QED BY <4>1, <4>2, <3>1, <1>4, <1>5
    <3> QED BY <3>1, <3>2, <2>1, <1>1 DEF Earliest
  <2> QED BY <2>2, <2>3
<1>11. plan.remaining \cup plan.mint = Earliest(I \cup rest)
  BY <1>8, <1>9, <1>10
<1> QED BY <1>11, <1>3 DEF plan

-----------------------------------------------------------------------------
(* What the locks keep *)

\* A transaction stays sound while the edges stand still, its rows keep their
\* state, and what is gone stays gone.
LEMMA StaysSound ==
    ASSUME NEW t, Sound(t), standing' = standing,
           \A c \in t.rows : state'[c] = state[c],
           \A c \in Chunks : state[c] = "gone" => state'[c] = "gone"
    PROVE  Sound(t)'
<1>1. CASE t.op = "declare"
  BY <1>1 DEF Sound, DeclareSound, Standing, would_close_a_cycle, Pair
<1>2. CASE t.op = "group"
  <2>1. plan_fold(t.survivor, t.targets)' = plan_fold(t.survivor, t.targets)
    BY DEF plan_fold, Pair
  <2>2. GroupSound(t)
    BY <1>2 DEF Sound
  <2>3. ~would_close_a_cycle({Pair(e) : e \in plan_fold(t.survivor, t.targets).remaining
                                    \cup plan_fold(t.survivor, t.targets).mint})'
    BY <2>1, <2>2 DEF GroupSound, would_close_a_cycle, Pair
  <2>4. \A c \in t.targets \cup {t.survivor} : state'[c] = "pre_claim"
    BY <2>2 DEF GroupSound
  <2>5. GroupSound(t)'
    BY <2>1, <2>2, <2>3, <2>4 DEF GroupSound
  <2> QED BY <1>2, <2>5 DEF Sound
<1>3. CASE t.op = "delete"
  BY <1>3 DEF Sound, DeleteSound
<1>4. CASE t.op = "claim"
  BY <1>4 DEF Sound, ClaimSound, Prerequisites
<1> QED BY <1>1, <1>2, <1>3, <1>4 DEF Sound

\* A transaction that has taken its locks and found what it needs.
LEMMA Begun ==
    ASSUME IInv, NEW new, Sound(new),
           \A t \in txns : t.rows \cap new.rows = {},
           new.op = "claim" \/ \A t \in txns : t.op = "claim",
           txns' = txns \cup {new}, UNCHANGED <<state, standing, refs, open>>
    PROVE  IInv'
<1>1. Types'
  BY DEF IInv, Types
<1>2. Locks'
  BY DEF IInv, Locks
<1>3. \A t \in txns' : Sound(t)'
  BY StaysSound DEF IInv
<1>4. StandingGraphSound' /\ GoneLeavesNothing' /\ HeldPrerequisitesDone'
  BY DEF IInv, StandingGraphSound, GoneLeavesNothing, HeldPrerequisitesDone,
         Prerequisites, Standing, Pair, met_by
<1> QED BY <1>1, <1>2, <1>3, <1>4 DEF IInv

\* While a transaction that writes edges commits, the others are claims, and
\* of other chunks.
LEMMA OnlyClaims ==
    ASSUME IInv, NEW t \in txns, t.op # "claim", txns' = txns \ {t}
    PROVE  /\ Locks'
           /\ \A u \in txns' : u.op = "claim" /\ ClaimSound(u) /\ u.rows \cap t.rows = {}
BY DEF IInv, Locks, Sound

\* Every item not withdrawn has one holder.
Holder(i, c) == state[c] # "gone" /\ i \in refs[c]

OneHolder ==
    \A i \in open : \E c \in Chunks : \A d \in Chunks : Holder(i, d) <=> d = c

\* That is what GoneLeavesNothing counts.
LEMMA HolderCount ==
    /\ GoneLeavesNothing => OneHolder
    /\ Types /\ OneHolder
         /\ (\A e \in standing : state[e.dep] # "gone" /\ state[e.pre] # "gone")
       => GoneLeavesNothing
<1> DEFINE H(i) == {c \in Chunks : state[c] # "gone" /\ i \in refs[c]}
<1>1. \A i : IsFiniteSet(H(i))
  <2> TAKE i
  <2>1. H(i) \in SUBSET Chunks
    OBVIOUS
  <2> QED BY <2>1, FS_Subset, ChunksAssumption
<1>2. \A i : Cardinality(H(i)) = 1 <=> \E c : H(i) = {c}
  BY <1>1, FS_Singleton
<1>3. \A i : (\E c : H(i) = {c})
               <=> \E c \in Chunks : \A d \in Chunks : Holder(i, d) <=> d = c
  BY DEF Holder
<1> QED BY <1>2, <1>3 DEF GoneLeavesNothing, OneHolder

-----------------------------------------------------------------------------
(* The steps *)

\* Each step keeps the invariant: first the requests that take locks and read.
LEMMA DeclareBeginStep ==
    ASSUME IInv, NEW d \in Chunks, NEW p \in Chunks, DeclareBegin(d, p)
    PROVE  IInv'
<1> DEFINE new == [op |-> "declare", rows |-> {d, p}, dep |-> d, pre |-> p]
<1>1. Sound(new)
  BY DEF DeclareBegin, Sound, DeclareSound
<1> QED BY <1>1, Begun DEF DeclareBegin, cycle_lock, lock_chunks

LEMMA GroupBeginStep ==
    ASSUME IInv, NEW c \in Chunks, NEW targets \in SUBSET (Chunks \ {c}),
           GroupBegin(c, targets)
    PROVE  IInv'
<1> DEFINE plan == plan_fold(c, targets)
           new == [op |-> "group", rows |-> targets \cup {c}, survivor |-> c,
                   targets |-> targets, mint |-> plan.mint,
                   release |-> standing \ plan.remaining]
<1>1. Sound(new)
  BY DEF GroupBegin, Sound, GroupSound
<1> QED BY <1>1, Begun DEF GroupBegin, cycle_lock, lock_chunks

LEMMA DeleteBeginStep ==
    ASSUME IInv, NEW c \in Chunks, DeleteBegin(c)
    PROVE  IInv'
<1> DEFINE new == [op |-> "delete", rows |-> {c}, chunk |-> c]
<1>1. Sound(new)
  BY DEF DeleteBegin, Sound, DeleteSound
<1> QED BY <1>1, Begun DEF DeleteBegin, cycle_lock, lock_chunks

LEMMA ClaimBeginStep ==
    ASSUME IInv, NEW c \in Chunks, ClaimBegin(c)
    PROVE  IInv'
<1> DEFINE new == [op |-> "claim", rows |-> {c}, chunk |-> c,
                   prerequisites |-> Prerequisites(c)]
<1>1. Prerequisites(c) \subseteq Chunks
  BY DEF IInv, Types, Edges, Prerequisites
<1>2. Sound(new)
  BY <1>1 DEF ClaimBegin, Sound, ClaimSound
<1> QED BY <1>2, Begun DEF ClaimBegin, lock_chunks

\* A declared edge was tested against the edges that stand; no claim is of its dependent.
LEMMA DeclareCommitStep ==
    ASSUME IInv, NEW t \in txns, DeclareCommit(t)
    PROVE  IInv'
<1> PICK at \in 1 .. MaxAt :
        standing' = standing \cup {[dep |-> t.dep, pre |-> t.pre, at |-> at]}
  BY DEF DeclareCommit
<1> DEFINE new == [dep |-> t.dep, pre |-> t.pre, at |-> at]
<1>1. DeclareSound(t)
  BY DEF IInv, Sound, DeclareCommit
<1>2. new \in Edges
  BY <1>1 DEF DeclareSound, Edges
<1>3. Types'
  BY <1>2 DEF IInv, Types, DeclareCommit
<1>4. Locks' /\ \A u \in txns' : u.op = "claim" /\ ClaimSound(u) /\ u.rows \cap t.rows = {}
  BY OnlyClaims DEF DeclareCommit
<1>5. \A u \in txns' : Sound(u)'
  <2> TAKE u \in txns'
  <2>1. u.op = "claim" /\ ClaimSound(u) /\ u.chunk # t.dep
    BY <1>1, <1>4 DEF ClaimSound, DeclareSound
  <2>2. Prerequisites(u.chunk)' = Prerequisites(u.chunk)
    BY <2>1 DEF Prerequisites
  <2> QED BY <2>1, <2>2 DEF Sound, ClaimSound, DeclareCommit
<1>6. StandingGraphSound'
  <2> DEFINE E == standing \cup {new}
  <2>1. E \in SUBSET Edges
    BY <1>2 DEF IInv, Types
  <2>2. {Pair(e) : e \in E} = {Pair(e) : e \in standing} \cup {<<t.dep, t.pre>>}
    <3>1. Pair(new) = <<t.dep, t.pre>>
      BY DEF Pair
    <3> QED BY <3>1
  <2>3. \A e, f \in E : Pair(e) = Pair(f) => e = f
    <3>1. \A e, f \in standing : Pair(e) = Pair(f) => e = f
      BY DEF IInv, StandingGraphSound, Standing, Pair
    <3>2. \A e \in standing : Pair(e) # Pair(new)
      BY <1>1 DEF DeclareSound, Standing, Pair
    <3> QED BY <3>1, <3>2
  <2>4. ~would_close_a_cycle({Pair(e) : e \in E})
    BY <1>1, <2>2 DEF DeclareSound
  <2> QED BY <2>1, <2>3, <2>4, TestedEdges
<1>7. GoneLeavesNothing'
  BY <1>1 DEF IInv, GoneLeavesNothing, DeclareCommit, DeclareSound
<1>8. HeldPrerequisitesDone'
  BY <1>1 DEF IInv, HeldPrerequisitesDone, DeclareCommit, DeclareSound, met_by
<1> QED BY <1>3, <1>4, <1>5, <1>6, <1>7, <1>8 DEF IInv

\* A release runs alone among the writers and only takes an edge away.
LEMMA ReleaseStep ==
    ASSUME IInv, NEW d \in Chunks, NEW p \in Chunks, Release(d, p)
    PROVE  IInv'
<1>1. standing' \subseteq standing
  BY DEF Release
<1>2. Types' /\ Locks'
  BY <1>1 DEF IInv, Types, Locks, Release
<1>3. \A t \in txns' : Sound(t)'
  <2> TAKE t \in txns'
  <2>1. t.op = "claim" /\ ClaimSound(t)
    BY DEF IInv, Sound, Release, cycle_lock
  <2>2. Prerequisites(t.chunk)' \subseteq Prerequisites(t.chunk)
    BY <1>1 DEF Prerequisites
  <2> QED BY <2>1, <2>2 DEF Sound, ClaimSound, Release
<1>4. StandingGraphSound'
  BY <1>1, FewerEdges DEF IInv
<1>5. GoneLeavesNothing' /\ HeldPrerequisitesDone'
  BY <1>1 DEF IInv, GoneLeavesNothing, HeldPrerequisitesDone, Release, met_by
<1> QED BY <1>2, <1>3, <1>4, <1>5 DEF IInv

\* The edges after a fold.
LEMMA GroupCommitEdges ==
    ASSUME IInv, NEW t \in txns, GroupCommit(t)
    PROVE  /\ GroupSound(t)
           /\ standing' = plan_fold(t.survivor, t.targets).remaining
                             \cup plan_fold(t.survivor, t.targets).mint
<1> DEFINE plan == plan_fold(t.survivor, t.targets)
<1>1. GroupSound(t)
  BY DEF IInv, Sound, GroupCommit
<1>2. plan.remaining \subseteq standing
  BY <1>1, FoldPlan DEF IInv, GroupSound
<1> QED BY <1>1, <1>2 DEF GroupCommit, GroupSound

\* A fold: a minted edge of a claimed chunk comes of a prerequisite now gone.
LEMMA GroupCommitStep ==
    ASSUME IInv, NEW t \in txns, GroupCommit(t)
    PROVE  IInv'
<1> DEFINE plan == plan_fold(t.survivor, t.targets)
<1>1. GroupSound(t) /\ standing' = plan.remaining \cup plan.mint
  BY GroupCommitEdges
<1>2. /\ t.survivor \in Chunks /\ t.targets \in SUBSET (Chunks \ {t.survivor})
      /\ t.targets \cup {t.survivor} \subseteq t.rows
      /\ \A c \in t.targets \cup {t.survivor} : state[c] = "pre_claim"
  BY <1>1 DEF GroupSound
<1>3. /\ standing' \subseteq Edges
      /\ plan.remaining \subseteq standing
      /\ \A e, f \in standing' : Pair(e) = Pair(f) => e = f
      /\ \A e \in standing' : e.dep \notin t.targets /\ e.pre \notin t.targets
      /\ \A m \in plan.mint : \E e \in Touched(t.targets) :
            /\ m.dep = Remap(t.survivor, t.targets, e.dep)
            /\ m.pre = Remap(t.survivor, t.targets, e.pre)
  BY <1>1, <1>2, FoldPlan DEF IInv
<1> HIDE DEF plan
<1>4. state' = [c \in Chunks |-> IF c \in t.targets THEN "gone" ELSE state[c]]
  BY DEF GroupCommit
<1>5. Types'
  BY <1>2, <1>3, <1>4 DEF IInv, Types, GroupCommit
<1>6. Locks' /\ \A u \in txns' : u.op = "claim" /\ ClaimSound(u) /\ u.rows \cap t.rows = {}
  BY OnlyClaims DEF GroupCommit
<1>7. \A u \in txns' : Sound(u)'
  <2> TAKE u \in txns'
  <2>1. u.op = "claim" /\ ClaimSound(u) /\ u.chunk \notin t.targets \cup {t.survivor}
    BY <1>2, <1>6 DEF ClaimSound
  <2>2. CASE \E q \in u.prerequisites : state[q] = "gone"
    BY <2>1, <2>2, <1>4 DEF Sound, ClaimSound
  <2>3. CASE /\ Prerequisites(u.chunk) \subseteq u.prerequisites
             /\ Prerequisites(u.chunk) \cap t.targets # {}
    BY <2>1, <2>3, <1>4 DEF Sound, ClaimSound
  <2>4. CASE /\ Prerequisites(u.chunk) \subseteq u.prerequisites
             /\ Prerequisites(u.chunk) \cap t.targets = {}
    <3>1. ASSUME NEW m \in plan.mint, m.dep = u.chunk PROVE FALSE
      <4>1. PICK e \in Touched(t.targets) : m.dep = Remap(t.survivor, t.targets, e.dep)
        BY <1>3
      <4>2. e.dep = u.chunk
        BY <4>1, <3>1, <2>1 DEF Remap
      <4>3. e.pre \in t.targets /\ e \in standing
        BY <4>1, <4>2, <2>1 DEF Touched
      <4> QED BY <4>2, <4>3, <2>4 DEF Prerequisites
    <3>2. Prerequisites(u.chunk)' \subseteq Prerequisites(u.chunk)
      BY <3>1, <1>1, <1>3 DEF Prerequisites
    <3> QED BY <3>2, <2>1, <2>4, <1>4 DEF Sound, ClaimSound
  <2> QED BY <2>1, <2>2, <2>3, <2>4 DEF ClaimSound
<1>8. StandingGraphSound'
  <2>1. ~would_close_a_cycle({Pair(e) : e \in plan.remaining \cup plan.mint})
    BY <1>1 DEF GroupSound, plan
  <2> QED BY <2>1, <1>1, <1>3, TestedEdges
<1>9. \A e \in standing' : state[e.dep] # "gone" /\ state[e.pre] # "gone"
  <2> SUFFICES ASSUME NEW m \in plan.mint
               PROVE  state[m.dep] # "gone" /\ state[m.pre] # "gone"
    BY <1>1, <1>3 DEF IInv, GoneLeavesNothing
  <2>1. PICK e \in Touched(t.targets) : /\ m.dep = Remap(t.survivor, t.targets, e.dep)
                                        /\ m.pre = Remap(t.survivor, t.targets, e.pre)
    BY <1>3
  <2>2. state[e.dep] # "gone" /\ state[e.pre] # "gone"
    BY DEF Touched, IInv, GoneLeavesNothing
  <2> QED BY <2>1, <2>2, <1>2 DEF Remap
<1>10. GoneLeavesNothing'
  <2>1. OneHolder
    BY HolderCount DEF IInv
  <2>2. refs' = [refs EXCEPT ![t.survivor] = @ \cup UNION {refs[c] : c \in t.targets}]
    BY DEF GroupCommit
  <2>3. ASSUME NEW i \in open'
        PROVE  \E c \in Chunks : \A d \in Chunks : Holder(i, d)' <=> d = c
    <3>1. PICK h \in Chunks : \A d \in Chunks : Holder(i, d) <=> d = h
      BY <2>1 DEF OneHolder, GroupCommit
    <3>2. \A d \in Chunks : d # t.survivor => refs'[d] = refs[d]
      BY <2>2 DEF IInv, Types
    <3>3. refs'[t.survivor] = refs[t.survivor] \cup UNION {refs[c] : c \in t.targets}
      BY <2>2, <1>2 DEF IInv, Types
    <3>4. i \in refs'[t.survivor] <=> h \in t.targets \cup {t.survivor}
      BY <3>1, <3>3, <1>2 DEF Holder
    <3>5. \A d \in Chunks : state'[d] # "gone" <=> state[d] # "gone" /\ d \notin t.targets
      BY <1>4
    <3>6. CASE h \in t.targets
      <4>1. \A d \in Chunks : Holder(i, d)' <=> d = t.survivor
        BY <3>1, <3>2, <3>4, <3>5, <3>6, <1>2 DEF Holder
      <4> QED BY <4>1, <1>2
    <3>7. CASE h \notin t.targets
      <4>1. \A d \in Chunks : Holder(i, d)' <=> d = h
        BY <3>1, <3>2, <3>4, <3>5, <3>7, <1>2 DEF Holder
      <4> QED BY <4>1
    <3> QED BY <3>6, <3>7
  <2>4. OneHolder'
    BY <2>3 DEF OneHolder
  <2>5. \A e \in standing' : state'[e.dep] # "gone" /\ state'[e.pre] # "gone"
    BY <1>3, <1>4, <1>9 DEF Edges
  <2>6. (Types /\ OneHolder
          /\ (\A e \in standing : state[e.dep] # "gone" /\ state[e.pre] # "gone")
         => GoneLeavesNothing)'
    BY HolderCount, PTL
  <2> QED BY <2>4, <2>5, <2>6, <1>5
<1>11. HeldPrerequisitesDone'
  <2>1. ASSUME NEW e \in plan.remaining, state'[e.dep] = "held"
        PROVE  state'[e.pre] = "done"
    BY <2>1, <1>1, <1>3, <1>4 DEF IInv, HeldPrerequisitesDone, met_by, Edges
  <2>2. ASSUME NEW m \in plan.mint, state'[m.dep] = "held"
        PROVE  FALSE
    <3>1. PICK e \in Touched(t.targets) : m.dep = Remap(t.survivor, t.targets, e.dep)
      BY <1>3
    <3>2. m \in Edges /\ m.dep \notin t.targets /\ m.dep # t.survivor
      BY <2>2, <1>1, <1>2, <1>3, <1>4 DEF Edges
    <3>3. e.dep = m.dep /\ e.pre \in t.targets /\ e \in standing
      BY <3>1, <3>2 DEF Remap, Touched
    <3>4. state[e.pre] = "done"
      BY <3>2, <3>3, <2>2, <1>4 DEF IInv, HeldPrerequisitesDone, met_by, Edges
    <3> QED BY <3>3, <3>4, <1>2
  <2> QED BY <2>1, <2>2, <1>1 DEF HeldPrerequisitesDone, met_by
<1> QED BY <1>5, <1>6, <1>7, <1>8, <1>10, <1>11 DEF IInv

\* A delete takes the chunk's own edges with it; there are no others.
LEMMA DeleteCommitStep ==
    ASSUME IInv, NEW t \in txns, DeleteCommit(t)
    PROVE  IInv'
<1>1. DeleteSound(t)
  BY DEF IInv, Sound, DeleteCommit
<1>2. standing' \subseteq standing /\ \A e \in standing' : e.dep # t.chunk /\ e.pre # t.chunk
  BY <1>1 DEF DeleteCommit, DeleteSound
<1>3. /\ state' \in [Chunks -> {"pre_claim", "held", "parked", "done", "gone"}]
      /\ \A c \in Chunks : state'[c] = IF c = t.chunk THEN "gone" ELSE state[c]
  BY <1>1 DEF DeleteCommit, DeleteSound, IInv, Types
<1>4. Types'
  BY <1>2, <1>3 DEF IInv, Types, DeleteCommit
<1>5. Locks' /\ \A u \in txns' : u.op = "claim" /\ ClaimSound(u) /\ u.rows \cap t.rows = {}
  BY OnlyClaims DEF DeleteCommit
<1>6. \A u \in txns' : Sound(u)'
  <2> TAKE u \in txns'
  <2>1. u.op = "claim" /\ ClaimSound(u) /\ u.chunk # t.chunk
    BY <1>1, <1>5 DEF ClaimSound, DeleteSound
  <2>2. Prerequisites(u.chunk)' \subseteq Prerequisites(u.chunk)
    BY <1>2 DEF Prerequisites
  <2> QED BY <2>1, <2>2, <1>3 DEF Sound, ClaimSound
<1>7. StandingGraphSound'
  BY <1>2, FewerEdges DEF IInv
<1>8. GoneLeavesNothing'
  <2>1. OneHolder
    BY HolderCount DEF IInv
  <2>2. OneHolder'
    BY <2>1, <1>3 DEF OneHolder, Holder, DeleteCommit
  <2>3. \A e \in standing' : state'[e.dep] # "gone" /\ state'[e.pre] # "gone"
    <3>1. \A e \in standing' : /\ e.dep \in Chunks /\ e.pre \in Chunks
                               /\ state[e.dep] # "gone" /\ state[e.pre] # "gone"
      BY <1>2 DEF IInv, Types, Edges, GoneLeavesNothing
    <3> QED BY <3>1, <1>2, <1>3
  <2>4. (Types /\ OneHolder
          /\ (\A e \in standing : state[e.dep] # "gone" /\ state[e.pre] # "gone")
         => GoneLeavesNothing)'
    BY HolderCount, PTL
  <2> QED BY <2>2, <2>3, <2>4, <1>4
<1>9. HeldPrerequisitesDone'
  <2>1. \A e \in standing' : /\ e.dep \in Chunks /\ e.pre \in Chunks
                             /\ state[e.dep] = "held" => state[e.pre] = "done"
    BY <1>2 DEF IInv, Types, Edges, HeldPrerequisitesDone, met_by
  <2> QED BY <2>1, <1>2, <1>3 DEF HeldPrerequisitesDone, met_by
<1> QED BY <1>4, <1>5, <1>6, <1>7, <1>8, <1>9 DEF IInv

\* A chunk neither gone nor done changes its state, under its row lock.
LEMMA OneChunkMoves ==
    ASSUME IInv, NEW c \in Chunks, NEW s \in {"pre_claim", "held", "parked", "done"},
           state[c] \notin {"gone", "done"}, state' = [state EXCEPT ![c] = s],
           s = "held" => \A e \in standing : e.dep = c => state[e.pre] = "done",
           txns' \subseteq txns, \A t \in txns' : c \notin t.rows,
           UNCHANGED <<standing, refs, open>>
    PROVE  IInv'
<1>1. /\ state' \in [Chunks -> {"pre_claim", "held", "parked", "done", "gone"}]
      /\ \A d \in Chunks : state'[d] = IF d = c THEN s ELSE state[d]
  BY DEF IInv, Types
<1>2. Types' /\ Locks'
  BY <1>1 DEF IInv, Types, Locks
<1>3. \A d \in Chunks : state'[d] = "gone" <=> state[d] = "gone"
  BY <1>1
<1>4. \A t \in txns' : Sound(t)'
  <2> TAKE t \in txns'
  <2>1. \A d \in t.rows : state'[d] = state[d]
    BY DEF IInv, Types
  <2> QED BY <2>1, <1>3, StaysSound DEF IInv
<1>5. StandingGraphSound'
  BY FewerEdges DEF IInv
<1>6. GoneLeavesNothing'
  <2>1. \A e \in standing : e.dep \in Chunks /\ e.pre \in Chunks
    BY DEF IInv, Types, Edges
  <2>2. \A i : {d \in Chunks : state'[d] # "gone" /\ i \in refs[d]}
               = {d \in Chunks : state[d] # "gone" /\ i \in refs[d]}
    BY <1>3
  <2> QED BY <2>1, <2>2, <1>3 DEF IInv, GoneLeavesNothing
<1>7. HeldPrerequisitesDone'
  <2>1. \A e \in standing : e.dep \in Chunks /\ e.pre \in Chunks
    BY DEF IInv, Types, Edges
  <2>2. \A d \in Chunks : state[d] = "done" => state'[d] = "done"
    BY <1>1
  <2>3. ASSUME NEW e \in standing, state'[e.dep] = "held" PROVE state[e.pre] = "done"
    BY <2>1, <2>3, <1>1 DEF IInv, HeldPrerequisitesDone, met_by
  <2> QED BY <2>1, <2>2, <2>3 DEF HeldPrerequisitesDone, met_by
<1> QED BY <1>2, <1>4, <1>5, <1>6, <1>7 DEF IInv

\* No write of its own gives a chunk a route.
LEMMA OwnStepStep ==
    ASSUME IInv, NEW c \in Chunks, OwnStep(c)
    PROVE  IInv'
<1>1. PICK s \in OwnSteps : state[c] = s[1] /\ state' = [state EXCEPT ![c] = s[2]]
  BY DEF OwnStep
<1>2. /\ s[1] \notin {"gone", "done"}
      /\ s[2] \in {"pre_claim", "held", "parked", "done"} /\ s[2] # "held"
  BY DEF OwnSteps
<1> QED BY <1>1, <1>2, OneChunkMoves DEF OwnStep

\* A claim that commits has seen every prerequisite done.
LEMMA ClaimCommitStep ==
    ASSUME IInv, NEW t \in txns, ClaimCommit(t)
    PROVE  IInv'
<1>1. ClaimSound(t)
  BY DEF IInv, Sound, ClaimCommit
<1>2. Prerequisites(t.chunk) \subseteq t.prerequisites
  BY <1>1 DEF ClaimSound, ClaimCommit, met_by
<1>3. \A e \in standing : e.dep = t.chunk => state[e.pre] = "done"
  BY <1>2 DEF Prerequisites, ClaimCommit, met_by
<1>4. \A u \in txns' : t.chunk \notin u.rows
  BY <1>1 DEF ClaimSound, ClaimCommit, IInv, Locks
<1> QED BY <1>1, <1>3, <1>4, OneChunkMoves DEF ClaimCommit, ClaimSound

LEMMA ClaimDeniedStep ==
    ASSUME IInv, NEW t \in txns, ClaimDenied(t)
    PROVE  IInv'
<1>1. Types' /\ Locks'
  BY DEF IInv, Types, Locks, ClaimDenied
<1>2. \A u \in txns' : Sound(u)'
  BY StaysSound DEF IInv, ClaimDenied
<1>3. StandingGraphSound' /\ GoneLeavesNothing' /\ HeldPrerequisitesDone'
  BY DEF IInv, StandingGraphSound, GoneLeavesNothing, HeldPrerequisitesDone,
         Prerequisites, Standing, Pair, met_by, ClaimDenied
<1> QED BY <1>1, <1>2, <1>3 DEF IInv

-----------------------------------------------------------------------------
(* The theorems *)

LEMMA InitHolds == Init => IInv
<1> SUFFICES ASSUME Init PROVE IInv
  OBVIOUS
<1>1. Types /\ Locks /\ \A t \in txns : Sound(t)
  BY DEF Init, Types, Locks
<1>2. StandingGraphSound /\ HeldPrerequisitesDone
  BY DEF Init, StandingGraphSound, HeldPrerequisitesDone, Prerequisites
<1>3. OneHolder
  BY DEF Init, OneHolder, Holder
<1>4. \A e \in standing : state[e.dep] # "gone" /\ state[e.pre] # "gone"
  BY DEF Init
<1> QED BY <1>1, <1>2, <1>3, <1>4, HolderCount DEF IInv

LEMMA NextHolds == IInv /\ [Next]_vars => IInv'
<1> SUFFICES ASSUME IInv, [Next]_vars PROVE IInv'
  OBVIOUS
<1>1. ASSUME NEW c \in Chunks, DeleteBegin(c) PROVE IInv'
  BY <1>1, DeleteBeginStep
<1>2. ASSUME NEW c \in Chunks, ClaimBegin(c) PROVE IInv'
  BY <1>2, ClaimBeginStep
<1>3. ASSUME NEW c \in Chunks, OwnStep(c) PROVE IInv'
  BY <1>3, OwnStepStep
<1>4. ASSUME NEW c \in Chunks, NEW p \in Chunks, DeclareBegin(c, p) PROVE IInv'
  BY <1>4, DeclareBeginStep
<1>5. ASSUME NEW c \in Chunks, NEW p \in Chunks, Release(c, p) PROVE IInv'
  BY <1>5, ReleaseStep
<1>6. ASSUME NEW c \in Chunks, NEW targets \in SUBSET (Chunks \ {c}), GroupBegin(c, targets)
      PROVE  IInv'
  BY <1>6, GroupBeginStep
<1>7. ASSUME NEW t \in txns, DeclareCommit(t) PROVE IInv'
  BY <1>7, DeclareCommitStep
<1>8. ASSUME NEW t \in txns, GroupCommit(t) PROVE IInv'
  BY <1>8, GroupCommitStep
<1>9. ASSUME NEW t \in txns, DeleteCommit(t) PROVE IInv'
  BY <1>9, DeleteCommitStep
<1>10. ASSUME NEW t \in txns, ClaimCommit(t) PROVE IInv'
  BY <1>10, ClaimCommitStep
<1>11. ASSUME NEW t \in txns, ClaimDenied(t) PROVE IInv'
  BY <1>11, ClaimDeniedStep
<1>12. CASE UNCHANGED vars
  <2>1. Types' /\ Locks'
    BY <1>12 DEF IInv, Types, Locks, vars
  <2>2. \A u \in txns' : Sound(u)'
    BY <1>12, StaysSound DEF IInv, vars
  <2>3. StandingGraphSound' /\ GoneLeavesNothing' /\ HeldPrerequisitesDone'
    BY <1>12 DEF IInv, StandingGraphSound, GoneLeavesNothing, HeldPrerequisitesDone,
           Prerequisites, Standing, Pair, met_by, vars
  <2> QED BY <2>1, <2>2, <2>3 DEF IInv
<1> QED
  BY <1>1, <1>2, <1>3, <1>4, <1>5, <1>6, <1>7, <1>8, <1>9, <1>10, <1>11, <1>12
     DEF Next, Requests, Settle

LEMMA GraphInvariant == Spec => []IInv
BY InitHolds, NextHolds, PTL DEF Spec

(* Declares, releases and folds, however they interleave, leave no chunks    *)
(* waiting for one another and no pair with two edges (validate_declaration, *)
(* declare_dependency, record_fold_locked).                                  *)
THEOREM NoStandingCycle == Spec => []StandingGraphSound
<1>1. IInv => StandingGraphSound
  BY DEF IInv
<1> QED BY <1>1, GraphInvariant, PTL

(* A chunk grouped away or deleted leaves no edge and no item behind         *)
(* (group, delete_chunk).                                                    *)
THEOREM NothingLeftBehind == Spec => []GoneLeavesNothing
<1>1. IInv => GoneLeavesNothing
  BY DEF IInv
<1> QED BY <1>1, GraphInvariant, PTL

(* A chunk that has a route has no unmet prerequisite, although the claim    *)
(* takes no graph lock (claim).                                              *)
THEOREM ClaimsWaitForPrerequisites == Spec => []HeldPrerequisitesDone
<1>1. IInv => HeldPrerequisitesDone
  BY DEF IInv
<1> QED BY <1>1, GraphInvariant, PTL

\* The step that takes a fold out of the transactions in flight is its commit,
\* and leaves each pair's earliest edge.
LEMMA FoldStep ==
    ASSUME IInv, Next, NEW t \in txns, t.op = "group", t \notin txns'
    PROVE  standing' = Earliest(Image(t.survivor, t.targets, standing))
<1>1. PICK u \in txns : Settle(u)
  BY DEF Next, Requests, DeleteBegin, ClaimBegin, OwnStep, DeclareBegin, Release, GroupBegin
<1>2. u = t
  BY <1>1 DEF Settle, DeclareCommit, GroupCommit, DeleteCommit, ClaimCommit, ClaimDenied
<1>3. GroupCommit(t)
  BY <1>1, <1>2 DEF Settle, DeclareCommit, DeleteCommit, ClaimCommit, ClaimDenied
<1>4. GroupSound(t) /\ standing' = plan_fold(t.survivor, t.targets).remaining
                             \cup plan_fold(t.survivor, t.targets).mint
  BY <1>3, GroupCommitEdges
<1> QED BY <1>4, FoldIsEarliest DEF IInv, GroupSound

(* A fold keeps what everyone waits for, each pair since its earliest        *)
(* declaration (plan_fold, record_fold_locked).                              *)
THEOREM FoldsKeepEdges == Spec => FoldKeepsEdges
<1>1. IInv /\ [Next]_vars =>
        [\A t \in txns : t.op = "group" /\ t \notin txns' =>
            LET remap(c) == IF c \in t.targets THEN t.survivor ELSE c
                image == {[dep |-> remap(e.dep), pre |-> remap(e.pre), at |-> e.at] :
                            e \in standing}
            IN standing' = {m \in image :
                              /\ m.dep # m.pre
                              /\ \A n \in image : Pair(n) = Pair(m) => m.at <= n.at}
        ]_vars
  BY FoldStep DEF Earliest, Image, Remap
<1> QED BY <1>1, GraphInvariant, PTL DEF Spec, FoldKeepsEdges
=============================================================================
