--------------------------- MODULE MCMaintenance ---------------------------
(* Three rows in two hours, flushed together and apart, on two nodes. *)
EXTENDS Maintenance

CONSTANTS a, b, k1, k2, k3

MCKeyTs == k1 :> 0 @@ k2 :> 1 @@ k3 :> 2
MCBatches == {{k1, k2}, {k1, k3}}
MCLateBatches == {{k1, k2}, {k1}, {k2}}
MCDeletes == {[keys |-> {k1}, lo |-> 0, hi |-> 2]}
MCOwnAll == [n \in Node |-> Parts]
MCSeqApart == a :> 0 @@ b :> 10
=============================================================================
