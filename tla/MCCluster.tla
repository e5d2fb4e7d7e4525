----------------------------- MODULE MCCluster -----------------------------
(* Two ingesters that replicate to each other; one, two or three tables. *)
EXTENDS Cluster, TLC

CONSTANTS a, b, t1, t2, t3

MCPeer == a :> b @@ b :> a
MCOrder == <<a, b>>
MCHash == t1 :> 0 @@ t2 :> 1 @@ t3 :> 2
MCPlans == {<<{t1}, {t1}>>, <<{t1, t2}>>, <<{t3}>>}
=============================================================================
