------------------------------ MODULE Cluster ------------------------------
(***************************************************************************)
(* A cluster (crates/server: router, replication, querier; crates/cluster, *)
(* discovery): a router shards writes over ingesters, an ingester ships    *)
(* every frame to its peer before it acknowledges, a querier unions the    *)
(* files of the shared catalog with the live rows of every ingester, and   *)
(* an operator has the peer of a dead ingester replay its frames.          *)
(*                                                                         *)
(* A row is a write and the table one of its lines names.  The manifest    *)
(* log is the sequence of what flushes committed (Catalog, ManifestLog); a *)
(* log file of an ingester is the set of rows that replay from it (Wal);   *)
(* within an ingester flushes fail and overlap as in Engine, here they do  *)
(* not fail.                                                               *)
(***************************************************************************)
EXTENDS Integers, Sequences, FiniteSets, FiniteSetsExt, Functions

CONSTANTS
    Ingester,
    Peer,           \* the ingester each one replicates to
    Order,          \* the ingesters sorted by id
    Table,
    Hash,           \* FNV-1a of a table's name
    Plans,          \* what a client may send: for each body, its tables
    Declared,       \* tables whose declaration these lines do not meet
    TickInRecovery, \* the maintenance tick may flush while a recovery runs
    DropsDead,      \* membership is live: discovery drops a node that is down
    MaxEvents       \* bound: crashes, recoveries, queries and membership
                    \* refreshes, together

ASSUME ClusterAssumption ==
    /\ Peer \in [Ingester -> Ingester]
    /\ \A n \in Ingester : Peer[n] # n
    /\ Range(Order) = Ingester
    /\ Hash \in [Table -> Nat]
    /\ Plans \subseteq Seq((SUBSET Table) \ {{}})
    /\ Declared \subseteq Table
    /\ {TickInRecovery, DropsDead} \subseteq BOOLEAN
    /\ MaxEvents \in Nat

VARIABLES
    up,         \* ingesters that run
    gone,       \* ingesters whose machine is lost, disk and all
    wal,        \* rows in each ingester's own log
    replica,    \* rows in each ingester's copy of its peer's log
    buffer,     \* rows in memory
    hold,       \* Engine::flushing
    flush,      \* the flushes under way, by who called flush_all
    recovery,   \* recover_from_replica under way
    log,        \* the manifest log: the rows each flush committed
    head,       \* catalog head of each ingester
    targets,    \* RouterState::targets
    req,        \* the body the router is at
    plan,       \* the bodies of this behaviour
    sent,       \* how many of them have been sent
    acked,      \* history: rows of bodies answered 204
    paired,     \* history: rows the peer has confirmed
    refused,    \* history: bodies answered 400
    query,      \* one query at a time
    qhead,      \* the querier's catalog head
    qlive,      \* RemoteBuffers::live
    events      \* crashes, recoveries, queries and refreshes

disks == <<wal, replica>>
memory == <<buffer, hold, flush, recovery, head>>
router == <<targets, req, plan, sent, acked, paired, refused>>
querier == <<query, qhead, qlive>>
vars == <<up, gone, disks, memory, log, router, querier, events>>

Callers == {"tick", "recover"}
NoFlush == [stage |-> "idle", rows |-> {}, sealed |-> {}]
NoRecovery == [stage |-> "idle", frames |-> {}]
NoQuery == [stage |-> "idle", table |-> 0, want |-> {}, todo |-> {}, half |-> {},
            head |-> 0, rows |-> {}]
NoReq == [stage |-> "idle", write |-> 0, body |-> {}, to |-> <<>>, todo |-> {}]

TablesOf(rows) == {r.table : r \in rows}

\* shard_of.
ShardOf(t, n) == 1 + (Hash[t] % n)

\* The shard the router is forwarding, its lines and its target.
Shard == Min(req.todo)
Lines == {[write |-> req.write, table |-> t] :
            t \in {u \in req.body : ShardOf(u, Len(req.to)) = Shard}}
Target == req.to[Shard]

\* A write holds the ingest gate from its append to its apply.
Gated(n) == req.stage \in {"replicate", "apply"} /\ Target = n

Committed == UNION Range(log)

Event == events < MaxEvents /\ events' = events + 1
-----------------------------------------------------------------------------
Init ==
    /\ up = Ingester
    /\ gone = {}
    /\ wal = [n \in Ingester |-> {}]
    /\ replica = [n \in Ingester |-> {}]
    /\ buffer = [n \in Ingester |-> {}]
    /\ hold = [n \in Ingester |-> {}]
    /\ flush = [n \in Ingester |-> [c \in Callers |-> NoFlush]]
    /\ recovery = [n \in Ingester |-> NoRecovery]
    /\ log = <<>>
    /\ head = [n \in Ingester |-> 0]
    /\ targets = Order
    /\ req = NoReq
    /\ plan \in Plans
    /\ sent = 0
    /\ acked = {} /\ paired = {} /\ refused = {}
    /\ query = NoQuery
    /\ qhead = 0
    /\ qlive = {}
    /\ events = 0

(***************************************************************************)
(* The router.                                                             *)
(***************************************************************************)
\* write, up to the grouping by shard: a body with a line that does not
\* parse is answered 400 before anything is forwarded, and a router that
\* knows no ingester answers 503.
Accept(poison) ==
    /\ req.stage = "idle" /\ sent < Len(plan)
    /\ sent' = sent + 1
    /\ IF targets = <<>> THEN UNCHANGED <<req, refused>>
       ELSE IF poison
       THEN refused' = refused \cup {sent'} /\ UNCHANGED req
       ELSE /\ req' = [stage |-> "forward", write |-> sent', body |-> plan[sent'], to |-> targets,
                       todo |-> {ShardOf(t, Len(targets)) : t \in plan[sent']}]
            /\ UNCHANGED refused
    /\ UNCHANGED <<up, gone, disks, memory, log, targets, plan, acked, paired,
                   querier, events>>

\* The ingester takes a shard: validate_declared, then the append to its log.
Append204(n) ==
    /\ req.stage = "forward" /\ n = Target /\ n \in up
    /\ TablesOf(Lines) \cap Declared = {}
    /\ wal' = [wal EXCEPT ![n] = @ \cup Lines]
    /\ req' = [req EXCEPT !.stage = "replicate"]
    /\ UNCHANGED <<up, gone, replica, memory, log, targets, plan, sent, acked,
                   paired, refused, querier, events>>

\* The ingester's 400 is passed through; shards before this one have landed.
Reject400(n) ==
    /\ req.stage = "forward" /\ n = Target /\ n \in up
    /\ TablesOf(Lines) \cap Declared # {}
    /\ refused' = refused \cup {req.write}
    /\ req' = NoReq
    /\ UNCHANGED <<up, gone, disks, memory, log, targets, plan, sent, acked, paired,
                   querier, events>>

\* An ingester that is down, or answers 429: the client is told to retry.
Unreachable(n) ==
    /\ req.stage = "forward" /\ n = Target
    /\ n \notin up
    /\ req' = NoReq
    /\ UNCHANGED <<up, gone, disks, memory, log, targets, plan, sent, acked, paired,
                   refused, querier, events>>

\* replicate: the peer has the frame on disk before it answers; it cannot
\* take one while a recovery holds the replica log.
Replicate(n) ==
    /\ req.stage = "replicate" /\ n = Target
    /\ Peer[n] \in up /\ recovery[Peer[n]].stage = "idle"
    /\ replica' = [replica EXCEPT ![Peer[n]] = @ \cup Lines]
    /\ paired' = paired \cup Lines
    /\ req' = [req EXCEPT !.stage = "apply"]
    /\ UNCHANGED <<up, gone, wal, buffer, hold, flush, recovery, head, log, targets,
                   plan, sent,
                   acked, refused, querier, events>>

\* No answer in time: the write goes on alone.  A peer that is only slow
\* has the frame nevertheless.
Degrade(n, late) ==
    /\ req.stage = "replicate" /\ n = Target
    /\ late => Peer[n] \in up /\ recovery[Peer[n]].stage = "idle"
    /\ ~late => Peer[n] \notin up \/ recovery[Peer[n]].stage # "idle"
    /\ replica' = IF late THEN [replica EXCEPT ![Peer[n]] = @ \cup Lines] ELSE replica
    /\ req' = [req EXCEPT !.stage = "apply"]
    /\ UNCHANGED <<up, gone, wal, buffer, hold, flush, recovery, head, log, targets,
                   plan, sent,
                   acked, paired, refused, querier, events>>

\* The rows reach the buffer and the shard is answered; the client has its
\* 204 when no shard is left.
Apply(n) ==
    /\ req.stage = "apply" /\ n = Target
    /\ buffer' = [buffer EXCEPT ![n] = @ \cup Lines]
    /\ IF req.todo = {Shard}
       THEN /\ acked' = acked \cup [write : {req.write}, table : req.body]
            /\ req' = NoReq
       ELSE /\ req' = [req EXCEPT !.stage = "forward", !.todo = @ \ {Shard}]
            /\ UNCHANGED acked
    /\ UNCHANGED <<up, gone, disks, hold, flush, recovery, head, log, targets, plan,
                   sent, paired, refused, querier, events>>

\* RouterState::update; a body under way keeps the set it began with.
UpdateTargets(ns) ==
    /\ Event
    /\ targets' = SelectSeq(Order, LAMBDA n : n \in ns)
    /\ targets' # targets
    /\ UNCHANGED <<up, gone, disks, memory, log, req, plan, sent, acked, paired,
                   refused, querier>>

(***************************************************************************)
(* An ingester's flushes, crashes and recoveries.                          *)
(***************************************************************************)
\* flush_all up to the end of the handover.
HandOver(n, c) ==
    /\ ~Gated(n)
    /\ buffer[n] # {}
    /\ hold' = [hold EXCEPT ![n] = {r \in @ : r.table \notin TablesOf(buffer[n])}
                                    \cup buffer[n]]
    /\ buffer' = [buffer EXCEPT ![n] = {}]
    /\ flush' = [flush EXCEPT ![n][c] = [stage |-> "commit", rows |-> buffer[n],
                                         sealed |-> wal[n]]]

FlushTick(n) ==
    /\ n \in up
    /\ flush[n]["tick"].stage = "idle"
    /\ TickInRecovery \/ recovery[n].stage = "idle"
    /\ HandOver(n, "tick")
    /\ UNCHANGED <<up, gone, disks, recovery, head, log, router, querier, events>>

FlushCommit(n, c) ==
    /\ n \in up /\ flush[n][c].stage = "commit"
    /\ log' = Append(log, flush[n][c].rows)
    /\ head' = [head EXCEPT ![n] = Len(log')]
    /\ flush' = [flush EXCEPT ![n][c].stage = "reclaim"]
    /\ UNCHANGED <<up, gone, disks, buffer, hold, recovery, router, querier, events>>

FlushReclaimAll(n, c) ==
    /\ n \in up /\ flush[n][c].stage = "reclaim"
    /\ hold' = [hold EXCEPT ![n] = {r \in @ : r.table \notin TablesOf(flush[n][c].rows)}]
    /\ wal' = [wal EXCEPT ![n] = {}]
    /\ flush' = [flush EXCEPT ![n][c] = NoFlush]
    /\ UNCHANGED <<up, gone, replica, buffer, recovery, head, log, router, querier,
                   events>>

FlushReclaim(n, c) ==
    /\ n \in up /\ flush[n][c].stage = "reclaim"
    /\ hold' = [hold EXCEPT ![n] = {r \in @ : r.table \notin TablesOf(flush[n][c].rows)}]
    /\ wal' = [wal EXCEPT ![n] = @ \ flush[n][c].sealed]
    /\ flush' = [flush EXCEPT ![n][c] = NoFlush]
    /\ UNCHANGED <<up, gone, replica, buffer, recovery, head, log, router, querier,
                   events>>

\* recover_from_replica: every frame of the copy goes to the buffer, not to
\* this node's own log.
RecoverApply(n) ==
    /\ n \in up /\ Event
    /\ recovery[n].stage = "idle"
    /\ TickInRecovery \/ flush[n]["tick"].stage = "idle"
    /\ recovery' = [recovery EXCEPT ![n] = [stage |-> "flush", frames |-> replica[n]]]
    /\ buffer' = [buffer EXCEPT ![n] = @ \cup replica[n]]
    /\ UNCHANGED <<up, gone, disks, hold, flush, head, log, router, querier>>

\* Its flush_all; with nothing in the buffer it returns at once.
RecoverFlush(n) ==
    /\ n \in up /\ recovery[n].stage = "flush"
    /\ \/ HandOver(n, "recover")
       \/ buffer[n] = {} /\ ~Gated(n) /\ UNCHANGED <<buffer, hold, flush>>
    /\ recovery' = [recovery EXCEPT ![n].stage = "consume"]
    /\ UNCHANGED <<up, gone, disks, head, log, router, querier, events>>

RecoverConsumeEarly(n) ==
    /\ n \in up /\ recovery[n].stage = "consume"
    /\ replica' = [replica EXCEPT ![n] = @ \ recovery[n].frames]
    /\ recovery' = [recovery EXCEPT ![n] = NoRecovery]
    /\ UNCHANGED <<up, gone, wal, buffer, hold, flush, head, log, router, querier,
                   events>>

RecoverConsume(n) ==
    /\ n \in up /\ recovery[n].stage = "consume"
    /\ flush[n]["recover"].stage = "idle"
    /\ replica' = [replica EXCEPT ![n] = @ \ recovery[n].frames]
    /\ recovery' = [recovery EXCEPT ![n] = NoRecovery]
    /\ UNCHANGED <<up, gone, wal, buffer, hold, flush, head, log, router, querier,
                   events>>

\* A process dies, or the machine with its disk; one machine at most.  The
\* router's request to it fails.
Crash(n, machine) ==
    /\ n \in up /\ Event
    /\ machine => gone = {}
    /\ up' = up \ {n}
    /\ gone' = IF machine THEN {n} ELSE gone
    /\ wal' = IF machine THEN [wal EXCEPT ![n] = {}] ELSE wal
    /\ replica' = IF machine THEN [replica EXCEPT ![n] = {}] ELSE replica
    /\ buffer' = [buffer EXCEPT ![n] = {}]
    /\ hold' = [hold EXCEPT ![n] = {}]
    /\ flush' = [flush EXCEPT ![n] = [c \in Callers |-> NoFlush]]
    /\ recovery' = [recovery EXCEPT ![n] = NoRecovery]
    /\ req' = IF Gated(n) THEN NoReq ELSE req
    /\ UNCHANGED <<head, log, targets, plan, sent, acked, paired, refused, querier>>

\* Engine::open replays its own log; enable_replica_wal applies nothing.
Restart(n) ==
    /\ n \notin up \cup gone
    /\ up' = up \cup {n}
    /\ buffer' = [buffer EXCEPT ![n] = wal[n]]
    /\ head' = [head EXCEPT ![n] = Len(log)]
    /\ UNCHANGED <<gone, disks, hold, flush, recovery, log, router, querier, events>>

(***************************************************************************)
(* The querier: sql_batches with remote buffers, for a query that names    *)
(* one table.                                                              *)
(***************************************************************************)
\* catch_up_catalog(target).
CaughtUp(target) == IF target > 0 /\ qhead >= target THEN qhead ELSE Len(log)
FilesUpTo(h, t) == {r \in UNION {log[i] : i \in 1 .. h} : r.table = t}

\* refresh_live and the table list, in one step: the live tables of every
\* ingester that answers, the catalog up to the highest head.  The list of
\* live tables only shrinks when all have answered; a table nobody knows is
\* an error, which leaves the query where it was.
Ask(t) ==
    LET heads == {0} \cup {head[n] : n \in up}
        seen == UNION {TablesOf(buffer[n] \cup hold[n]) : n \in up}
    IN  /\ query.stage = "idle" /\ Event
        /\ qlive' = IF up = Ingester THEN seen ELSE qlive \cup seen
        /\ qhead' = CaughtUp(Max(heads))
        /\ t \in qlive' \/ FilesUpTo(qhead', t) # {}
        /\ query' = [stage |-> "snapshot", table |-> t, want |-> {r \in acked : r.table = t},
                     todo |-> IF DropsDead THEN up ELSE Ingester, half |-> {}, head |-> 0, rows |-> {}]
        /\ UNCHANGED <<up, gone, disks, memory, log, router>>

\* snapshot_ipc on one ingester, and then the head it reports.
Snapshot(n) ==
    /\ query.stage = "snapshot" /\ n \in query.todo \cap up
    /\ query' = [query EXCEPT !.todo = @ \ {n}, !.half = @ \cup {n},
                              !.rows = @ \cup {r \in buffer[n] \cup hold[n] :
                                                 r.table = query.table}]
    /\ UNCHANGED <<up, gone, disks, memory, log, router, qhead, qlive, events>>

SnapshotHead(n) ==
    /\ query.stage = "snapshot" /\ n \in query.half \cap up
    /\ query' = [query EXCEPT !.half = @ \ {n}, !.head = Max({@, head[n]})]
    /\ UNCHANGED <<up, gone, disks, memory, log, router, qhead, qlive, events>>

\* One ingester that cannot be read refuses the query.
Refuse ==
    /\ query.stage = "snapshot"
    /\ ~(query.todo \cup query.half \subseteq up)
    /\ query' = [query EXCEPT !.stage = "refused"]
    /\ UNCHANGED <<up, gone, disks, memory, log, router, qhead, qlive, events>>

\* The watermark, and only then the file list.
ReadFilesNoWatermark ==
    /\ query.stage = "snapshot" /\ query.todo \cup query.half = {}
    /\ query' = [query EXCEPT !.stage = "answered",
                              !.rows = @ \cup FilesUpTo(qhead, query.table)]
    /\ UNCHANGED <<up, gone, disks, memory, log, router, qhead, qlive, events>>

ReadFiles ==
    /\ query.stage = "snapshot" /\ query.todo \cup query.half = {}
    /\ qhead' = IF query.head > qhead THEN CaughtUp(query.head) ELSE qhead
    /\ query' = [query EXCEPT !.stage = "answered",
                              !.rows = @ \cup FilesUpTo(qhead', query.table)]
    /\ UNCHANGED <<up, gone, disks, memory, log, router, qlive, events>>

Finish ==
    /\ query.stage \in {"answered", "refused"}
    /\ query' = NoQuery
    /\ UNCHANGED <<up, gone, disks, memory, log, router, qhead, qlive, events>>

RouterStep ==
    \E n \in Ingester : \/ Append204(n) \/ Reject400(n) \/ Unreachable(n)
                        \/ Replicate(n) \/ (\E late \in BOOLEAN : Degrade(n, late))
                        \/ Apply(n)
FlushStep(n) == \E c \in Callers : FlushCommit(n, c) \/ FlushReclaim(n, c)
RecoveryStep(n) == RecoverFlush(n) \/ RecoverConsume(n)
QueryStep ==
    \/ \E n \in Ingester : Snapshot(n) \/ SnapshotHead(n)
    \/ Refuse \/ ReadFiles \/ Finish

Next ==
    \/ \E poison \in BOOLEAN : Accept(poison)
    \/ RouterStep \/ (\E ns \in SUBSET Ingester : UpdateTargets(ns))
    \/ \E n \in Ingester : \/ FlushTick(n) \/ FlushStep(n)
                            \/ RecoverApply(n) \/ RecoveryStep(n)
                            \/ (\E machine \in BOOLEAN : Crash(n, machine)) \/ Restart(n)
    \/ (\E t \in Table : Ask(t)) \/ QueryStep

Spec == Init /\ [][Next]_vars
-----------------------------------------------------------------------------
Row == [write : 1 .. Len(plan), table : Table]

\* Types of the state; a node that is down holds nothing in memory.
TypeOK ==
    /\ gone \subseteq Ingester \ up
    /\ \A n \in Ingester : wal[n] \cup replica[n] \cup buffer[n] \cup hold[n] \subseteq Row
    /\ \A n \in Ingester \ up : buffer[n] \cup hold[n] = {}
    /\ log \in Seq(SUBSET Row)
    /\ Range(targets) \subseteq Ingester
    /\ req.todo \subseteq DOMAIN req.to
    /\ qhead \in 0 .. Len(log)

\* A row whose 204 the client has and whose frame the peer confirmed is in
\* the catalog or on a disk that is left, whichever one machine is lost and
\* whatever crashes and recoveries do (replicate, recover_from_replica).
PairDurable ==
    \A r \in acked \cap paired :
        r \in Committed \/ \E n \in Ingester : r \in wal[n] \cup replica[n]

\* A row whose 204 the client has survives every crash of processes, also
\* when its ingester ran degraded.
AloneDurable ==
    gone = {} => \A r \in acked : r \in Committed \/ \E n \in Ingester : r \in wal[n]

\* An answer holds every row of its table that was acknowledged before the
\* query began: none is missed between a buffer and the catalog, and an
\* ingester that cannot be read makes the query fail (sql_batches, snapshot).
AnswersComplete == query.stage = "answered" => query.want \subseteq query.rows

\* A body answered 400 has left no row anywhere (write: the whole body is
\* parsed before a shard is forwarded).
RefusedWritesNothing ==
    \A n \in Ingester : \A r \in wal[n] \cup replica[n] \cup buffer[n] \cup Committed :
        r.write \notin refused
=============================================================================
