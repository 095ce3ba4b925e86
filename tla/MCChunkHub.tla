---------------------------- MODULE MCChunkHub ----------------------------
(***************************************************************************)
(* Instances of ChunkHub for TLC.  The graphs are small cuts of the shipped *)
(* shape: a worker node, a gate behind it, a hub node that delivers.        *)
(***************************************************************************)
EXTENDS ChunkHub, TLC

CONSTANTS r1, r2, l1, l2, q1, build, review, repair, deliver, pass, fail

edge(n, c, k, m) == [from |-> n, choice |-> c, kind |-> k, to |-> m]

(* A worker node and a gate behind it that passes, or sends to a repair that *)
(* comes back to it: within the epoch, or at a later one.                    *)
GateRoutes == {edge(build, pass, "transition", review),
               edge(build, fail, "migration", review),
               edge(review, pass, "transition", Terminal),
               edge(review, fail, "transition", repair),
               edge(repair, pass, "transition", review)}

(* A worker node and a hub node that lands, kicks back or moves on. *)
DeliveryRoutes == {edge(build, pass, "transition", deliver),
                   edge(deliver, pass, "transition", Terminal),
                   edge(deliver, fail, "transition", build),
                   edge(deliver, fail, "migration", deliver)}

(* A worker node that may also migrate onto itself or end the walk, and that *)
(* hub node.  Two edges for one choice stand for two graphs.                 *)
FleetRoutes == DeliveryRoutes \cup {edge(build, fail, "migration", build),
                                    edge(build, pass, "transition", Terminal)}

RepairGated == [r \in Runners |-> {repair}]

NoGates == [r \in Runners |-> {}]

Symmetry == Permutations(Runners) \cup Permutations(Leases)
=============================================================================
