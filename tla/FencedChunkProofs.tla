-------------------------- MODULE FencedChunkProofs --------------------------
(***************************************************************************)
(* What the abstract fence gives, whoever the runners are: two of them     *)
(* never move the chunk in one epoch.                                      *)
(***************************************************************************)
EXTENDS FencedChunk, TLAPS

\* The hub and nobody are not runners.
Parties == Hub \notin Runners /\ NoOne \notin Runners /\ Hub # NoOne

\* Nobody has moved the chunk in an epoch that has not begun.
NothingAhead == \A a \in left : a.epoch <= epoch

\* Who moved the chunk in the newest epoch still answers for it: the epoch is
\* its own, or the hub's and not granted to anyone else since.
MoversAnswer ==
    \A a \in left : a.epoch = epoch =>
        a.by = owner \/ (owner = Hub /\ holder \in {NoOne, a.by})

IInv == TypeOK /\ NothingAhead /\ MoversAnswer /\ Exclusive

(* A runner that may move the chunk is the only one that has in this epoch. *)
LEMMA MoverAlone ==
    ASSUME Parties, IInv, NEW r \in Runners, MayMove(r),
           NEW a \in left, a.epoch = epoch
    PROVE  a.by = r
<1>1. a.by \in Runners
  BY DEF IInv, TypeOK
<1>2. a.by = owner \/ (owner = Hub /\ holder \in {NoOne, a.by})
  BY DEF IInv, MoversAnswer
<1> QED
  BY <1>1, <1>2 DEF MayMove, Parties

(* Every step that takes a new epoch leaves the recorded moves behind it. *)
LEMMA NewEpoch ==
    ASSUME IInv, left' = left, epoch' \in Nat, epoch' > epoch
    PROVE  NothingAhead' /\ MoversAnswer' /\ Exclusive'
<1>1. \A a \in left : a.epoch \in Nat /\ a.epoch <= epoch
  BY DEF IInv, TypeOK, NothingAhead
<1>2. epoch \in Nat
  BY DEF IInv, TypeOK
<1>3. \A a \in left : a.epoch <= epoch' /\ a.epoch # epoch'
  BY <1>1, <1>2
<1> QED
  BY <1>3 DEF NothingAhead, MoversAnswer, Exclusive, IInv

LEMMA NextInv ==
    ASSUME Parties, IInv, [Next]_vars
    PROVE  IInv'
<1>1. ASSUME NEW r \in Runners, Grant(r)
      PROVE  IInv'
  <2>1. TypeOK' /\ left' = left /\ epoch' \in Nat /\ epoch' > epoch
    BY <1>1 DEF Grant, IInv, TypeOK
  <2> QED
    BY <2>1, NewEpoch DEF IInv
<1>2. ASSUME NEW r \in Runners, Renew(r)
      PROVE  IInv'
  <2>1. TypeOK' /\ left' = left /\ epoch' \in Nat /\ epoch' > epoch
    BY <1>2 DEF Renew, IInv, TypeOK
  <2> QED
    BY <2>1, NewEpoch DEF IInv
<1>3. ASSUME NEW r \in Runners, Advance(r)
      PROVE  IInv'
  <2> DEFINE m == [epoch |-> epoch, by |-> r]
  <2>1. left' = left \cup {m} /\ epoch' = epoch /\ owner' = owner
        /\ holder' \in {holder, NoOne} /\ MayMove(r)
    BY <1>3 DEF Advance
  <2>2. TypeOK'
    <3>1. m \in [epoch : Nat, by : Runners]
      BY DEF IInv, TypeOK
    <3> QED
      BY <1>3, <2>1, <3>1 DEF Advance, IInv, TypeOK
  <2>3. \A a \in left : a.epoch = epoch => a.by = r
    BY <2>1, MoverAlone
  <2>4. NothingAhead'
    BY <2>1 DEF NothingAhead, IInv, TypeOK
  <2>5. MoversAnswer'
    BY <2>1, <2>3 DEF MoversAnswer, MayMove
  <2>6. Exclusive'
    BY <2>1, <2>3 DEF Exclusive, IInv
  <2> QED
    BY <2>2, <2>4, <2>5, <2>6 DEF IInv
<1>4. CASE Revoke
  BY <1>4 DEF Revoke, IInv, TypeOK, NothingAhead, MoversAnswer, Exclusive
<1>5. CASE HubStep
  <2>1. TypeOK' /\ left' = left /\ epoch' \in Nat /\ epoch' > epoch
    BY <1>5 DEF HubStep, IInv, TypeOK
  <2> QED
    BY <2>1, NewEpoch DEF IInv
<1>6. CASE End
  BY <1>6 DEF End, IInv, TypeOK, NothingAhead, MoversAnswer, Exclusive
<1>7. CASE UNCHANGED vars
  BY <1>7 DEF vars, IInv, TypeOK, NothingAhead, MoversAnswer, Exclusive
<1> QED
  BY <1>1, <1>2, <1>3, <1>4, <1>5, <1>6, <1>7 DEF Next

(* No two runners move the chunk in one epoch, whatever was granted, revoked *)
(* and granted again in between: what Claimant.owns and the new epoch of     *)
(* every claim are for.                                                      *)
THEOREM MovesAreExclusive ==
    ASSUME Parties
    PROVE  Spec => []Exclusive
<1>1. Init => IInv
  <2> SUFFICES ASSUME Init PROVE IInv
    OBVIOUS
  <2>1. TypeOK
    <3>1. epoch \in Nat /\ left \subseteq [epoch : Nat, by : Runners]
      BY DEF Init
    <3> QED
      BY <3>1 DEF Init, TypeOK
  <2>2. \A a \in left : FALSE
    BY DEF Init
  <2> QED
    BY <2>1, <2>2 DEF IInv, NothingAhead, MoversAnswer, Exclusive
<1>2. IInv /\ [Next]_vars => IInv'
  BY NextInv
<1>3. IInv => Exclusive
  BY DEF IInv
<1> QED
  BY <1>1, <1>2, <1>3, PTL DEF Spec
=============================================================================
