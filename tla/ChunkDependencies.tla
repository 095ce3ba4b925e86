-------------------------- MODULE ChunkDependencies --------------------------
(***************************************************************************)
(* The dependency edges between chunks and the operations that write them: *)
(* declare and release, the group fold, the delete, and the claim that     *)
(* reads them (hub/domain/chunk/dependencies.py, hub/domain/operations,    *)
(* hub/domain/execution/claim.py and chunk_dependencies_store).            *)
(*                                                                         *)
(* An operation is a transaction in two steps: it takes its locks and      *)
(* reads, then it writes and commits.  Two kinds of lock are in play: the  *)
(* row lock of each chunk it names, and one lock over the whole graph that *)
(* declare, release, group and delete share and the claim does not take.   *)
(* A request that is refused, or that replays a standing edge, writes      *)
(* nothing and is no step.  A transaction cut off before its commit is one *)
(* that was never made.                                                    *)
(*                                                                         *)
(* Of a chunk's own status only what these operations tell apart is kept;  *)
(* ChunkHub derives it.  `held' has a route, `parked' is every status      *)
(* without one that is neither pre-claim nor done.  Every chunk starts     *)
(* with one open hub item.                                                 *)
(***************************************************************************)
EXTENDS Naturals, FiniteSets, TLC

CONSTANTS
    Chunks,
    MaxAt,     \* bound: the clock readings an edge may be declared at
    MaxEdges,  \* bound: edges standing when one more is declared
    MaxTxns    \* bound: transactions between their reads and their commit

ASSUME ChunksAssumption == IsFiniteSet(Chunks)

ASSUME BoundsAssumption == MaxAt \in Nat /\ MaxEdges \in Nat /\ MaxTxns \in Nat

VARIABLES
    state,     \* pre_claim, held, parked, done or gone (grouped away, deleted)
    standing,  \* chunk_dependencies rows with no released_at
    refs,      \* per chunk, the items it holds, named for their first holder
    open,      \* items not withdrawn
    txns       \* transactions that hold their locks

vars == <<state, standing, refs, open, txns>>

Init ==
    /\ state = [c \in Chunks |-> "pre_claim"]
    /\ standing = {}
    /\ refs = [c \in Chunks |-> {c}]
    /\ open = Chunks
    /\ txns = {}

-----------------------------------------------------------------------------
(* Locks *)

\* Mutant: the row locks are thought to be enough.
cycle_lock_unused == TRUE

\* The per-tenant lock: no transaction that writes edges is between its
\* reads and its commit.
cycle_lock == \A t \in txns : t.op = "claim"

lock_chunks(ids) ==
    /\ Cardinality(txns) < MaxTxns
    /\ \A t \in txns : t.rows \cap ids = {}

Pair(e) == <<e.dep, e.pre>>

Standing(d, p) == {e \in standing : Pair(e) = <<d, p>>}

Prerequisites(c) == {e.pre : e \in {f \in standing : f.dep = c}}

\* Some chunk is reached from itself along the pairs: it is in every set that
\* holds what lies right below it and, with a chunk, what lies below that.
would_close_a_cycle(pairs) ==
    LET below(S) == {q[2] : q \in {r \in pairs : r[1] \in S}}
    IN \E c \in Chunks : \A S \in SUBSET Chunks :
          below({c}) \subseteq S /\ below(S) \subseteq S => c \in S

-----------------------------------------------------------------------------
(* Declare and release *)

\* Mutant: the dependent's row is not locked, only the prerequisite's.
DeclareBeginUnlocked(d, p) ==
    /\ cycle_lock /\ lock_chunks({p})
    /\ Standing(d, p) = {}
    /\ state[d] = "pre_claim" /\ state[p] # "gone"
    /\ ~would_close_a_cycle({Pair(e) : e \in standing} \cup {<<d, p>>})
    /\ Cardinality(standing) < MaxEdges
    /\ txns' = txns \cup {[op |-> "declare", rows |-> {p}, dep |-> d, pre |-> p]}
    /\ UNCHANGED <<state, standing, refs, open>>

DeclareBegin(d, p) ==
    /\ cycle_lock /\ lock_chunks({d, p})
    /\ Standing(d, p) = {}
    /\ state[d] = "pre_claim" /\ state[p] # "gone"
    /\ ~would_close_a_cycle({Pair(e) : e \in standing} \cup {<<d, p>>})
    /\ Cardinality(standing) < MaxEdges
    /\ txns' = txns \cup {[op |-> "declare", rows |-> {d, p}, dep |-> d, pre |-> p]}
    /\ UNCHANGED <<state, standing, refs, open>>

\* The clock may stand still or be set back between two declarations.
DeclareCommit(t) ==
    /\ t.op = "declare"
    /\ \E at \in 1 .. MaxAt :
          standing' = standing \cup {[dep |-> t.dep, pre |-> t.pre, at |-> at]}
    /\ txns' = txns \ {t}
    /\ UNCHANGED <<state, refs, open>>

\* One statement pair on one connection: whichever edge stands for the pair.
Release(d, p) ==
    /\ cycle_lock
    /\ Standing(d, p) # {}
    /\ \E e \in Standing(d, p) : standing' = standing \ {e}
    /\ UNCHANGED <<state, refs, open, txns>>

-----------------------------------------------------------------------------
(* The group fold *)

\* Mutant: a standing edge wins over a folded one, however late it is.
plan_fold_standing_wins(survivor, folded) ==
    LET remap(c) == IF c \in folded THEN survivor ELSE c
        touched == {e \in standing : {e.dep, e.pre} \cap folded # {}}
        image == {[dep |-> remap(e.dep), pre |-> remap(e.pre), at |-> e.at] : e \in touched}
        mint == {m \in image : /\ m.dep # m.pre
                               /\ \A n \in image : Pair(n) = Pair(m) => m.at <= n.at
                               /\ \A f \in standing \ touched : Pair(f) # Pair(m)}
    IN [mint |-> mint, remaining |-> standing \ touched]

\* An edge naming a folded chunk is released and minted anew on the survivor,
\* the earliest of its pair, unless it collapses or a remaining edge of that
\* pair is as old; a later one is superseded.
plan_fold(survivor, folded) ==
    LET remap(c) == IF c \in folded THEN survivor ELSE c
        touched == {e \in standing : {e.dep, e.pre} \cap folded # {}}
        image == {[dep |-> remap(e.dep), pre |-> remap(e.pre), at |-> e.at] : e \in touched}
        mint == {m \in image :
                   /\ m.dep # m.pre
                   /\ \A n \in image : Pair(n) = Pair(m) => m.at <= n.at
                   /\ \A f \in standing \ touched : Pair(f) = Pair(m) => m.at < f.at}
    IN [mint |-> mint,
        remaining |-> {f \in standing \ touched : \A m \in mint : Pair(m) # Pair(f)}]

GroupBegin(survivor, targets) ==
    LET plan == plan_fold(survivor, targets)
        rows == targets \cup {survivor}
    IN /\ cycle_lock /\ lock_chunks(rows)
       /\ \A c \in rows : state[c] = "pre_claim"
       /\ ~would_close_a_cycle({Pair(e) : e \in plan.remaining \cup plan.mint})
       /\ txns' = txns \cup {[op |-> "group", rows |-> rows, survivor |-> survivor,
                              targets |-> targets, mint |-> plan.mint,
                              release |-> standing \ plan.remaining]}
       /\ UNCHANGED <<state, standing, refs, open>>

\* The survivor takes the items over (add_work_refs_locked), then each target's
\* grouped row and its share of the plan are written (record_fold_locked).
GroupCommit(t) ==
    /\ t.op = "group"
    /\ refs' = [refs EXCEPT ![t.survivor] = @ \cup UNION {refs[c] : c \in t.targets}]
    /\ standing' = (standing \ t.release) \cup t.mint
    /\ state' = [c \in Chunks |-> IF c \in t.targets THEN "gone" ELSE state[c]]
    /\ txns' = txns \ {t}
    /\ UNCHANGED open

-----------------------------------------------------------------------------
(* The delete *)

\* Mutant: the row lock alone.
DeleteBeginUnlocked(c) ==
    /\ lock_chunks({c})
    /\ state[c] = "pre_claim"
    /\ \A e \in standing : e.pre # c
    /\ txns' = txns \cup {[op |-> "delete", rows |-> {c}, chunk |-> c]}
    /\ UNCHANGED <<state, standing, refs, open>>

DeleteBegin(c) ==
    /\ cycle_lock /\ lock_chunks({c})
    /\ state[c] = "pre_claim"
    /\ \A e \in standing : e.pre # c
    /\ txns' = txns \cup {[op |-> "delete", rows |-> {c}, chunk |-> c]}
    /\ UNCHANGED <<state, standing, refs, open>>

DeleteCommit(t) ==
    /\ t.op = "delete"
    /\ state' = [state EXCEPT ![t.chunk] = "gone"]
    /\ standing' = {e \in standing : e.dep # t.chunk}
    /\ open' = open \ refs[t.chunk]
    /\ txns' = txns \ {t}
    /\ UNCHANGED refs

-----------------------------------------------------------------------------
(* The claim, and what else happens to a chunk *)

\* The claim reads the edges, then the facts of the prerequisites they name;
\* no lock of either covers the time in between.
ClaimBegin(c) ==
    /\ lock_chunks({c})
    /\ state[c] = "pre_claim"
    /\ txns' = txns \cup {[op |-> "claim", rows |-> {c}, chunk |-> c,
                           prerequisites |-> Prerequisites(c)]}
    /\ UNCHANGED <<state, standing, refs, open>>

met_by(c) == state[c] = "done"

ClaimCommit(t) ==
    /\ t.op = "claim"
    /\ \A p \in t.prerequisites : met_by(p)
    /\ state' = [state EXCEPT ![t.chunk] = "held"]
    /\ txns' = txns \ {t}
    /\ UNCHANGED <<standing, refs, open>>

ClaimDenied(t) ==
    /\ t.op = "claim"
    /\ \E p \in t.prerequisites : ~met_by(p)
    /\ txns' = txns \ {t}
    /\ UNCHANGED <<state, standing, refs, open>>

\* Every other write about one chunk, under its row lock: pause, restart and
\* stop park it, detach and release give it back, and it may end from
\* anywhere.  Done is for good; nothing but a claim gives it a route.
OwnSteps ==
    {<<"pre_claim", "parked">>, <<"parked", "pre_claim">>, <<"held", "pre_claim">>,
     <<"held", "parked">>, <<"pre_claim", "done">>, <<"parked", "done">>,
     <<"held", "done">>}

OwnStep(c) ==
    /\ \A t \in txns : c \notin t.rows
    /\ \E s \in OwnSteps :
          /\ state[c] = s[1]
          /\ state' = [state EXCEPT ![c] = s[2]]
    /\ UNCHANGED <<standing, refs, open, txns>>

-----------------------------------------------------------------------------
Requests ==
    \E c \in Chunks :
        \/ DeleteBegin(c)
        \/ ClaimBegin(c)
        \/ OwnStep(c)
        \/ \E p \in Chunks : DeclareBegin(c, p) \/ Release(c, p)
        \/ \E targets \in (SUBSET (Chunks \ {c})) \ {{}} : GroupBegin(c, targets)

Settle(t) ==
    \/ DeclareCommit(t)
    \/ GroupCommit(t)
    \/ DeleteCommit(t)
    \/ ClaimCommit(t)
    \/ ClaimDenied(t)

Next == Requests \/ \E t \in txns : Settle(t)

Spec == Init /\ [][Next]_vars

Symmetry == Permutations(Chunks)

-----------------------------------------------------------------------------
(* Properties *)

(* The standing edges form no cycle (hub:no-standing-dependency-cycle): in  *)
(* any set of chunks one waits for none of the others, so that declares,    *)
(* releases and folds, however they interleave, never leave chunks waiting  *)
(* for one another.  And a pair has one edge                                *)
(* (hub:no-duplicate-standing-dependency), or one release would not do.     *)
StandingGraphSound ==
    /\ \A S \in (SUBSET Chunks) \ {{}} :
          \E c \in S : Prerequisites(c) \cap S = {}
    /\ \A e \in standing : Standing(e.dep, e.pre) = {e}

(* A chunk grouped away or deleted leaves nothing behind, whatever ran      *)
(* beside it: no standing edge names it                                     *)
(* (hub:no-standing-dependency-onto-ephemeral-chunk), and an item not       *)
(* withdrawn has exactly one chunk left to deliver it.                      *)
GoneLeavesNothing ==
    /\ \A e \in standing : state[e.dep] # "gone" /\ state[e.pre] # "gone"
    /\ \A i \in open :
          Cardinality({c \in Chunks : state[c] # "gone" /\ i \in refs[c]}) = 1

(* A chunk that has a route has no unmet prerequisite: no declaration, fold *)
(* or re-declaration puts one under a runner, and no claim races past one.  *)
HeldPrerequisitesDone ==
    \A e \in standing : state[e.dep] = "held" => met_by(e.pre)

(* A fold keeps what everyone waits for: once it has committed, the edges   *)
(* are the ones that stood, read with the survivor in place of the folded   *)
(* chunks, each pair since its earliest declaration.                        *)
FoldKeepsEdges ==
    [][\A t \in txns : t.op = "group" /\ t \notin txns' =>
        LET remap(c) == IF c \in t.targets THEN t.survivor ELSE c
            image == {[dep |-> remap(e.dep), pre |-> remap(e.pre), at |-> e.at] :
                        e \in standing}
        IN standing' = {m \in image :
                          /\ m.dep # m.pre
                          /\ \A n \in image : Pair(n) = Pair(m) => m.at <= n.at}
      ]_vars
=============================================================================
