------------------------------- MODULE Rollup -------------------------------
(***************************************************************************)
(* Downsampling by the compactors (materialize_rollups_at): which          *)
(* compactor owns a rollup, how it learns who its peers are (static        *)
(* configuration or Consul, crates/discovery), and the pass that seals     *)
(* each bucket of the source into the target once.                         *)
(*                                                                         *)
(* One rollup, one tag group.  Time is counted in hours, the unit of a     *)
(* partition; an aggregate is the set of rows it was computed from.        *)
(***************************************************************************)
EXTENDS Integers, Sequences, SequencesExt, FiniteSets, FiniteSetsExt

CONSTANTS
    Fleets,          \* the clusters considered: [backend, nodes], the node
                     \* ids being numbers in the order of their names
    Hash,            \* fnv1a of the rollup's database and name
    Interval, Lookback,
    Retain,          \* the source's retention; 0 for none
    Late,            \* how far in the past a row may lie when it arrives
    WatermarkFails,  \* whether the query for the watermark may fail
    MaxTime, MaxRows,
    MaxFaults        \* bound: crashes, failed calls

VARIABLES
    fleet,     \* the cluster of this behaviour
    now,
    rows,      \* every source row that was accepted: [time, arrived]
    kept,      \* those retention has not dropped
    target,    \* the rows of the target: [bucket, rows, by, filed]
    passing,   \* the ids Consul lists as healthy
    up,        \* the compactors that run
    members,   \* ConsulDiscovery::members or StaticDiscovery::peers
    shard,     \* Engine::compactor_shard, a cell that is set once
    pass,      \* the maintenance tick of each compactor
    faults

vars == <<fleet, now, rows, kept, target, passing, up, members, shard, pass, faults>>
cluster == <<passing, up, members, shard>>

Ids == UNION {f.nodes : f \in Fleets}
Unset == <<>>
Idle == [at |-> "idle", ran |-> -1, high |-> 0, lower |-> <<>>, out |-> {}]

\* RollupDef::validate and the retention check of set_rollup.
validate == Interval > 0 /\ Lookback >= Interval
set_rollup == validate /\ ~(Retain # 0 /\ Retain <= Lookback)

Init ==
    /\ set_rollup
    /\ fleet \in Fleets
    /\ now = 0
    /\ rows = {} /\ kept = {}
    /\ target = <<>>
    /\ passing = {}
    /\ up = {}
    /\ members = [c \in Ids |-> {}]
    /\ shard = [c \in Ids |-> Unset]
    /\ pass = [c \in Ids |-> Idle]
    /\ faults = 0

Fault == faults < MaxFaults /\ faults' = faults + 1

-----------------------------------------------------------------------------
(* Who is there.  start and refresh of ConsulDiscovery register, pass the  *)
(* check and fetch; a call that fails leaves the last good snapshot, and   *)
(* on the first refresh that is the empty one.                             *)

registered(c) == passing \cup {c}

\* compactor_shard: the place among the sorted ids, oneself included.
compactor_shard(c, peers) ==
    LET ids == SetToSortSeq(peers \cup {c}, <)
    IN  <<(CHOOSE i \in DOMAIN ids : ids[i] = c) - 1, Len(ids)>>

\* set_compactor_shard: the cell takes the first value it is given.
set_compactor_shard(c, value) ==
    shard' = [shard EXCEPT ![c] = IF @ = Unset THEN value ELSE @]

Started(c, peers) ==
    /\ members' = [members EXCEPT ![c] = peers]
    /\ set_compactor_shard(c, compactor_shard(c, peers))
    /\ up' = up \cup {c}
    /\ UNCHANGED <<fleet, now, rows, kept, target, pass>>

boot_static(c) ==
    /\ fleet.backend = "static" /\ c \in fleet.nodes \ up
    /\ Started(c, fleet.nodes \ {c})
    /\ UNCHANGED <<passing, faults>>

boot_consul(c) ==
    /\ fleet.backend = "consul" /\ c \in fleet.nodes \ up
    /\ passing' = registered(c)
    /\ Started(c, passing \ {c})
    /\ UNCHANGED faults

boot_unreachable(c) ==
    /\ fleet.backend = "consul" /\ c \in fleet.nodes \ up
    /\ Fault
    /\ Started(c, {})
    /\ UNCHANGED passing

refresh(c) ==
    /\ fleet.backend = "consul" /\ c \in up
    /\ passing' = registered(c)
    /\ members' = [members EXCEPT ![c] = passing \ {c}]
    /\ UNCHANGED <<fleet, now, rows, kept, target, up, shard, pass, faults>>

\* spawn_refresh on a compactor hands the members on.
reapply(c) ==
    /\ c \in up
    /\ set_compactor_shard(c, compactor_shard(c, members[c]))
    /\ UNCHANGED <<fleet, now, rows, kept, target, passing, up, members, pass, faults>>

stop(c) ==
    /\ c \in up
    /\ Fault
    /\ up' = up \ {c}
    /\ members' = [members EXCEPT ![c] = {}]
    /\ shard' = [shard EXCEPT ![c] = Unset]
    /\ pass' = [pass EXCEPT ![c] = Idle]
    /\ UNCHANGED <<fleet, now, rows, kept, target, passing>>

\* The check of a node that no longer passes it lapses.
lapse(c) ==
    /\ c \in passing \ up
    /\ passing' = passing \ {c}
    /\ UNCHANGED <<fleet, now, rows, kept, target, up, members, shard, pass, faults>>

-----------------------------------------------------------------------------
(* The source.                                                             *)

Write(t) ==
    /\ Cardinality(rows) < MaxRows
    /\ LET r == [time |-> t, arrived |-> now]
       IN  rows' = rows \cup {r} /\ kept' = kept \cup {r}
    /\ UNCHANGED <<fleet, now, target, cluster, pass, faults>>

\* enforce_retention: whole hours before the hour that is Retain ago.
Expired(r) == r.time < now - Retain

enforce_retention ==
    /\ Retain # 0 /\ \E r \in kept : Expired(r)
    /\ kept' = {r \in kept : ~Expired(r)}
    /\ UNCHANGED <<fleet, now, rows, target, cluster, pass, faults>>

\* An hour goes by; within each of them every compactor gets to its tick,
\* which comes every 30 seconds: an outage is shorter than an hour.
Hour ==
    /\ now < MaxTime
    /\ \A c \in fleet.nodes : pass[c].ran = now
    /\ now' = now + 1
    /\ UNCHANGED <<fleet, rows, kept, target, cluster, pass, faults>>

-----------------------------------------------------------------------------
(* materialize_rollups_at, one await at a time, and the flush after it.    *)

owns_rollup(s) == s[2] <= 1 \/ Hash % s[2] = s[1]

At(c, where) == c \in up /\ pass[c].at = where
Goes(c, p) == pass' = [pass EXCEPT ![c] = p]
Elsewhere == UNCHANGED <<fleet, now, rows, kept, cluster>>

Bucket(t) == (t \div Interval) * Interval

\* The horizon rounded down to a bucket.
high(t) == Bucket(t - Lookback)

materialize(c) ==
    /\ At(c, "idle")
    /\ Goes(c, IF owns_rollup(shard[c])
               THEN [Idle EXCEPT !.at = "watermark", !.ran = now, !.high = high(now)]
               ELSE [Idle EXCEPT !.ran = now])
    /\ Elsewhere /\ UNCHANGED <<target, faults>>

\* target_watermark, which answers from files and this node's own buffer.
Visible(c) == {i \in DOMAIN target : target[i].filed \/ target[i].by = c}
Watermark(c) == {target[i].bucket : i \in Visible(c)}

\* The lower bound, a sequence of at most one number.
lower_same_bucket(c) == IF Watermark(c) = {} THEN <<>> ELSE <<Max(Watermark(c))>>
lower(c) == IF Watermark(c) = {} THEN <<>> ELSE <<Max(Watermark(c)) + Interval>>

Window(c, lo) ==
    LET p == pass[c]
    IN  Goes(c, IF lo # <<>> /\ lo[1] >= p.high THEN [p EXCEPT !.at = "flush"]
                ELSE [p EXCEPT !.at = "aggregate", !.lower = lo])

\* An error of that query is taken for an empty target.
target_watermark(c) ==
    /\ At(c, "watermark")
    /\ \E lo \in {lower(c)} \cup (IF WatermarkFails THEN {<<>>} ELSE {}) : Window(c, lo)
    /\ Elsewhere /\ UNCHANGED <<target, faults>>

\* build_rollup_sql: the rows of the window, grouped by bucket.
build_rollup(p) ==
    LET in == {r \in kept : r.time < p.high /\ (p.lower # <<>> => r.time >= p.lower[1])}
    IN  {[bucket |-> b, rows |-> {r \in in : Bucket(r.time) = b}] :
            b \in {Bucket(r.time) : r \in in}}

aggregate(c) ==
    /\ At(c, "aggregate")
    /\ LET p == pass[c]
           out == build_rollup(p)
       IN  Goes(c, [p EXCEPT !.at = IF out = {} THEN "flush" ELSE "write", !.out = out])
    /\ Elsewhere /\ UNCHANGED <<target, faults>>

\* write_lp_internal to the target: all of the rows or, on an error, none.
write_target(c) ==
    /\ At(c, "write")
    /\ LET sealed == SetToSortSeq(pass[c].out, LAMBDA x, y : x.bucket < y.bucket)
       IN  target' = target \o [i \in DOMAIN sealed |->
               [bucket |-> sealed[i].bucket, rows |-> sealed[i].rows,
                by |-> c, filed |-> FALSE]]
    /\ Goes(c, [pass[c] EXCEPT !.at = "flush", !.out = {}])
    /\ Elsewhere /\ UNCHANGED faults

write_fails(c) ==
    /\ At(c, "write")
    /\ Fault
    /\ Goes(c, [pass[c] EXCEPT !.at = "flush", !.out = {}])
    /\ Elsewhere /\ UNCHANGED target

Ended(c) == Goes(c, [Idle EXCEPT !.ran = pass[c].ran])

flush(c) ==
    /\ At(c, "flush")
    /\ target' = [i \in DOMAIN target |->
           [target[i] EXCEPT !.filed = @ \/ target[i].by = c]]
    /\ Ended(c)
    /\ Elsewhere /\ UNCHANGED faults

flush_fails(c) ==
    /\ At(c, "flush") /\ \E i \in DOMAIN target : target[i].by = c /\ ~target[i].filed
    /\ Fault
    /\ Ended(c)
    /\ Elsewhere /\ UNCHANGED target

Next ==
    \/ \E ago \in 0 .. Late : Write(now - ago)
    \/ enforce_retention \/ Hour
    \/ \E c \in Ids :
          \/ boot_static(c) \/ boot_consul(c) \/ boot_unreachable(c)
          \/ refresh(c) \/ reapply(c) \/ stop(c) \/ lapse(c)
          \/ materialize(c) \/ target_watermark(c) \/ aggregate(c)
          \/ write_target(c) \/ write_fails(c) \/ flush(c) \/ flush_fails(c)

Spec == Init /\ [][Next]_vars

-----------------------------------------------------------------------------
\* "The target never carries a duplicate primary key" (materialize_rollups_at)
\* and "two compactors never both seal a bucket" (owns_rollup): no bucket is
\* in the target twice.
SealedOnce ==
    \A i, j \in DOMAIN target : target[i].bucket = target[j].bucket => i = j

\* "Late data arriving within lookback of a bucket is still counted before
\* the bucket is sealed", and the source outlives the grace "so a sealing
\* bucket still has its rows": once a bucket is sealed, it and every bucket
\* before it account for all the rows that arrived in time.
SealedWhole ==
    \A i \in DOMAIN target : \A r \in rows :
        /\ Bucket(r.time) <= target[i].bucket
        /\ r.arrived < Bucket(r.time) + Interval + Lookback
        => \E j \in DOMAIN target : r \in target[j].rows

\* Every row that arrives in time is in exactly one sealed bucket.
SealedExactly == SealedOnce /\ SealedWhole
=============================================================================
