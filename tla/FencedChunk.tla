----------------------------- MODULE FencedChunk -----------------------------
(***************************************************************************)
(* What the hub promises about one chunk, whatever it runs through: work on *)
(* it is fenced by an epoch.  A claim grants the chunk to one runner at a   *)
(* new epoch, a lease renews the grant at a later one, a step of the hub    *)
(* takes an epoch for the hub, and only the epoch's owner, or the holder    *)
(* carrying on from a step of the hub, moves the chunk in it.               *)
(*                                                                         *)
(* ChunkHub, the hub's own facts, and RunnerChunk, one runner's view of     *)
(* them across crashes and lost answers, both implement it.                 *)
(***************************************************************************)
EXTENDS Naturals

CONSTANTS
    Runners,     \* who may be granted the chunk
    Hub, NoOne

VARIABLES
    epoch,       \* the newest epoch, 0 before any
    owner,       \* the newest epoch's owner
    holder,      \* the runner the chunk is granted to, or NoOne
    left,        \* who moved the chunk on, and in which epoch
    ended        \* whether the chunk has ended, for good

vars == <<epoch, owner, holder, left, ended>>

Init ==
    /\ epoch = 0
    /\ owner = NoOne
    /\ holder = NoOne
    /\ left = {}
    /\ ended = FALSE

\* A claim: never from under another holder, always at a new epoch.
Grant(r) ==
    /\ ~ended /\ holder = NoOne
    /\ holder' = r /\ owner' = r /\ epoch' = epoch + 1
    /\ UNCHANGED <<left, ended>>

\* The holder's next attempt takes a later epoch.
Renew(r) ==
    /\ ~ended /\ holder = r
    /\ owner' = r /\ epoch' \in Nat /\ epoch' > epoch
    /\ UNCHANGED <<holder, left, ended>>

\* Detach, release, requeue: the epoch stays with its owner, whose work in
\* flight may still land.
Revoke ==
    /\ ~ended
    /\ holder' = NoOne
    /\ UNCHANGED <<epoch, owner, left, ended>>

MayMove(r) == owner = r \/ (owner = Hub /\ holder = r)

\* A runner moves the chunk on, perhaps to its end, perhaps giving it back.
Advance(r) ==
    /\ ~ended /\ MayMove(r)
    /\ left' = left \cup {[epoch |-> epoch, by |-> r]}
    /\ holder' \in {holder, NoOne}
    /\ ended' \in BOOLEAN
    /\ UNCHANGED <<epoch, owner>>

\* A restart, or a step of the hub's own node: one epoch up, and the hub's.
HubStep ==
    /\ ~ended
    /\ epoch' = epoch + 1 /\ owner' = Hub
    /\ holder' \in {holder, NoOne}
    /\ ended' \in BOOLEAN
    /\ UNCHANGED left

\* The operator's stop or completion.
End ==
    /\ ~ended
    /\ ended' = TRUE
    /\ holder' \in {holder, NoOne}
    /\ UNCHANGED <<epoch, owner, left>>

Next ==
    \/ \E r \in Runners : Grant(r) \/ Renew(r) \/ Advance(r)
    \/ Revoke \/ HubStep \/ End

Spec == Init /\ [][Next]_vars

-----------------------------------------------------------------------------
TypeOK ==
    /\ epoch \in Nat
    /\ owner \in Runners \cup {Hub, NoOne}
    /\ holder \in Runners \cup {NoOne}
    /\ left \subseteq [epoch : Nat, by : Runners]
    /\ ended \in BOOLEAN

(* No two runners move the chunk in one epoch, whatever was granted, revoked *)
(* and granted again in between.                                             *)
Exclusive == \A a, b \in left : a.epoch = b.epoch => a.by = b.by
=============================================================================
