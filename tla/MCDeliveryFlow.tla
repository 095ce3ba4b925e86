---------------------------- MODULE MCDeliveryFlow ----------------------------
(* Instances of DeliveryFlow for TLC. *)
EXTENDS DeliveryFlow, TLC

CONSTANTS c1, c2, main, release, docs, app, manual, deliver, announce

\* Flows of two repositories: two branches of the first, one of the second.
Branches == (main :> app) @@ (release :> app) @@ (docs :> manual)

Edge(from, choice, kind, to) == [from |-> from, choice |-> choice, kind |-> kind, to |-> to]

\* One hub node: landed ends the walk, failure kicks back to a worker.
LandRoutes == {Edge(deliver, "landed", "transition", Terminal),
               Edge(deliver, "failure", "transition", Away)}

\* A landing handed to a second hub node of another graph, and back to a
\* worker when that one fails.
ChainRoutes == {Edge(deliver, "landed", "migration", announce),
                Edge(deliver, "failure", "transition", Away),
                Edge(announce, "landed", "transition", Terminal)}

OneTarget == {{main}}
TwoTargets == {{main, docs}}
MovingTargets == {{main}, {release}}
MixedTargets == {{main, docs}, {release}}

Symmetry == Permutations(Chunks)
=============================================================================
