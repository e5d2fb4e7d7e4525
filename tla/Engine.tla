------------------------------- MODULE Engine -------------------------------
(***************************************************************************)
(* A node's write path (crates/server): a write goes to the write-ahead    *)
(* log, then into its tables' buffers, then the client has its 204; a      *)
(* flush moves the buffers through a holding area to data files, commits   *)
(* them to the catalog and reclaims the log; a restart replays the log.    *)
(* DROP TABLE flushes, commits a drop and purges memory.  Queries read     *)
(* buffer and holding area together, then the catalog.                     *)
(*                                                                         *)
(* Rows are identified by the write and the table they belong to.  The log *)
(* is the one module Wal describes, the catalog the one module Catalog     *)
(* describes, each operation of theirs one step here.  Threads are those   *)
(* that call flush_all: the maintenance tick, and a request that drops a   *)
(* table.                                                                  *)
(***************************************************************************)
EXTENDS Integers, FiniteSets, Functions

CONSTANTS
    Write,          \* write requests, each sent once
    Table,
    TablesOf,       \* the tables a write has rows for
    BadWrite,       \* writes whose rows clash with a column's type
    Tick,           \* the maintenance task's thread
    Dropper,        \* threads that serve DROP TABLE
    Casts,          \* bound: the writes and the threads of a behaviour
    None,
    Overlap,        \* whether flushes of different threads may overlap
    MaxGen,         \* bound: the highest log generation
    MaxCrashes,     \* bound: crashes in a behaviour
    MaxStoreFails,  \* bound: object or manifest puts that fail
    MaxLogFails     \* bound: log rotations and reclaims that fail

Thread == {Tick} \cup Dropper

ASSUME EngineAssumption ==
    /\ TablesOf \in [Write -> SUBSET Table \ {{}}]
    /\ BadWrite \subseteq Write
    /\ Tick \notin Dropper
    /\ None \notin Table
    /\ Overlap \in BOOLEAN
    /\ Casts \subseteq [writes : SUBSET Write, threads : SUBSET Thread]
    /\ {MaxGen, MaxCrashes, MaxStoreFails, MaxLogFails} \subseteq Nat

VARIABLES
    gens,       \* the log's generation files: number -> writes in them
    generation, \* Wal::generation
    active,     \* the generation appends go to
    up,         \* the process runs
    wpc,        \* how far each write request is
    buffer,     \* Engine::dbs
    hold,       \* Engine::flushing
    files,      \* rows in the live data files of the catalog
    th,         \* the flush_all (and drop_table) each thread is in
    query,      \* one query under way
    exempt,     \* rows a drop was allowed to take
    gone,       \* rows a drop that returned Ok has promised to have removed
    crashes, storeFails, logFails

bounds == <<crashes, storeFails, logFails>>
vars == <<gens, generation, active, up, wpc, buffer, hold, files, th, query,
          exempt, gone, crashes, storeFails, logFails>>

NoRows == [t \in Table |-> {}]

\* The locals of flush_all, and the table drop_table is about.
Idle == [pc |-> "idle", snap |-> NoRows, todo |-> {}, done |-> {}, failed |-> {},
         sealed |-> 0, target |-> None, before |-> {}]
Absent == [Idle EXCEPT !.pc = "absent"]

NoQuery == [pc |-> "idle", table |-> None, want |-> {}, got |-> {}]

RowsOf(ws, t) == {w \in ws : t \in TablesOf[w]}
Acked(t) == {w \in Write : wpc[w] = "acked" /\ t \in TablesOf[w]}
Logged == UNION Range(gens)
LastGen == CHOOSE g \in DOMAIN gens : \A h \in DOMAIN gens : h <= g
-----------------------------------------------------------------------------
Init ==
    /\ gens = [g \in {0} |-> {}]
    /\ generation = 0
    /\ active = 0
    /\ up = TRUE
    /\ \E cast \in Casts :
           /\ wpc = [w \in Write |-> IF w \in cast.writes THEN "new" ELSE "unsent"]
           /\ th = [f \in Thread |-> IF f \in cast.threads THEN Idle ELSE Absent]
    /\ buffer = NoRows
    /\ hold = NoRows
    /\ files = NoRows
    /\ query = NoQuery
    /\ exempt = NoRows
    /\ gone = NoRows
    /\ crashes = 0
    /\ storeFails = 0
    /\ logFails = 0

\* write_lp_internal up to the sync of the log.  The ingest gate is held for
\* reading from here to the end of the write.
LogWrite(w) ==
    /\ up /\ wpc[w] = "new"
    /\ gens' = [gens EXCEPT ![active] = @ \cup {w}]
    /\ wpc' = [wpc EXCEPT ![w] = "logged"]
    /\ UNCHANGED <<generation, active, up, buffer, hold, files, th, query, exempt,
                   gone, bounds>>

\* apply: every row into its buffer, under one lock; then the 204.
ApplyWrite(w) ==
    /\ up /\ wpc[w] = "logged" /\ w \notin BadWrite
    /\ buffer' = [t \in Table |-> buffer[t] \cup RowsOf({w}, t)]
    /\ wpc' = [wpc EXCEPT ![w] = "acked"]
    /\ UNCHANGED <<gens, generation, active, up, hold, files, th, query, exempt,
                   gone, bounds>>

\* A row whose type clashes ends the loop: rows before it stay, the client
\* has a 400.
RefuseWrite(w, some) ==
    /\ up /\ wpc[w] = "logged" /\ w \in BadWrite
    /\ some \in SUBSET TablesOf[w]
    /\ buffer' = [t \in Table |-> IF t \in some THEN buffer[t] \cup {w} ELSE buffer[t]]
    /\ wpc' = [wpc EXCEPT ![w] = "refused"]
    /\ UNCHANGED <<gens, generation, active, up, hold, files, th, query, exempt,
                   gone, bounds>>

FinishWrite(w) == ApplyWrite(w) \/ \E some \in SUBSET Table : RefuseWrite(w, some)

(***************************************************************************)
(* flush_all.                                                              *)
(***************************************************************************)
\* The ingest gate is taken for writing: no write is between log and buffer.
GateFree == \A w \in Write : wpc[w] # "logged"
Owned == {t \in Table : buffer[t] # {}}
Flushing(f) == th[f].pc \in {"upload", "unhold", "reclaim"}

\* What a drop of the table that starts now promises to remove: what was
\* acknowledged, short of what racing an earlier drop left in the log.
Promised(target) == IF target = None THEN {} ELSE Acked(target) \ exempt[target]

\* Entering flush_all: from the tick, or as the first step of drop_table.
Enters(f, target) ==
    /\ up /\ GateFree
    /\ th[f].pc = "idle"
    /\ (f = Tick) = (target = None)
    /\ target # None => buffer[target] \cup hold[target] \cup files[target] # {}
    /\ Overlap \/ \A h \in Thread : ~Flushing(h)

\* Wal::rotate: the generation is sealed, an empty one takes appends.
SealLogDropsSealed ==
    /\ generation < MaxGen
    /\ generation' = generation + 1
    /\ active' = generation'
    /\ gens' = [g \in {active'} |-> {}]

SealLog ==
    /\ generation < MaxGen
    /\ generation' = generation + 1
    /\ active' = generation'
    /\ gens' = [g \in DOMAIN gens \cup {active'} |->
                    IF g = active' THEN {} ELSE gens[g]]

\* Rows out of the buffers and into the holding area, where a table has room
\* for one batch.
HandOverNoHold ==
    /\ buffer' = NoRows
    /\ UNCHANGED hold

HandOverKeepsBuffer ==
    /\ hold' = [t \in Table |-> IF t \in Owned THEN buffer[t] ELSE hold[t]]
    /\ UNCHANGED buffer

HandOver ==
    /\ hold' = [t \in Table |-> IF t \in Owned THEN buffer[t] ELSE hold[t]]
    /\ buffer' = NoRows

\* The critical section that begins a flush: log sealed, rows handed over.
FlushBegin(f, target) ==
    /\ Enters(f, target)
    /\ Owned # {}
    /\ SealLog
    /\ HandOver
    /\ th' = [th EXCEPT ![f] = [Idle EXCEPT !.pc = "upload", !.snap = buffer,
                !.todo = Owned, !.sealed = generation, !.target = target,
                !.before = Promised(target)]]
    /\ UNCHANGED <<up, wpc, files, query, exempt, gone, bounds>>

\* The rotation fails: the buffers were taken already and go with the error,
\* and the log may have counted its generation up.
FlushRotateFails(f, target) ==
    /\ Enters(f, target)
    /\ Owned # {} /\ generation < MaxGen
    /\ logFails < MaxLogFails
    /\ logFails' = logFails + 1
    /\ generation' \in {generation, generation + 1}
    /\ buffer' = NoRows
    /\ UNCHANGED <<gens, active, up, wpc, hold, files, th, query, exempt, gone,
                   crashes, storeFails>>

\* Nothing buffered: flush_all returns Ok(0), and a drop goes on.
FlushSkipped(f, target) ==
    /\ Enters(f, target)
    /\ target # None
    /\ th' = [th EXCEPT ![f] = [Idle EXCEPT !.pc = "drop", !.target = target,
                                            !.before = Promised(target)]]
    /\ UNCHANGED <<gens, generation, active, up, wpc, buffer, hold, files, query,
                   exempt, gone, bounds>>

FlushNothing(f, target) ==
    /\ Enters(f, target)
    /\ Owned = {} /\ target # None
    /\ th' = [th EXCEPT ![f] = [Idle EXCEPT !.pc = "drop", !.target = target,
                                            !.before = Promised(target)]]
    /\ UNCHANGED <<gens, generation, active, up, wpc, buffer, hold, files, query,
                   exempt, gone, bounds>>

\* flush_one: one table's file is encoded and put.
FlushOneReleases(f, t) ==
    /\ up /\ th[f].pc = "upload" /\ t \in th[f].todo
    /\ th' = [th EXCEPT ![f].todo = @ \ {t}, ![f].done = @ \cup {t}]
    /\ hold' = [hold EXCEPT ![t] = {}]
    /\ UNCHANGED <<gens, generation, active, up, wpc, buffer, files, query,
                   exempt, gone, bounds>>

FlushOne(f, t) ==
    /\ up /\ th[f].pc = "upload" /\ t \in th[f].todo
    /\ th' = [th EXCEPT ![f].todo = @ \ {t}, ![f].done = @ \cup {t}]
    /\ UNCHANGED <<gens, generation, active, up, wpc, buffer, hold, files, query,
                   exempt, gone, bounds>>

\* Its failure is recorded, the other tables go on.
FlushOneFails(f, t) ==
    /\ up /\ th[f].pc = "upload" /\ t \in th[f].todo
    /\ storeFails < MaxStoreFails
    /\ storeFails' = storeFails + 1
    /\ th' = [th EXCEPT ![f].todo = @ \ {t}, ![f].failed = @ \cup {t}]
    /\ UNCHANGED <<gens, generation, active, up, wpc, buffer, hold, files, query,
                   exempt, gone, crashes, logFails>>

Committed(f) ==
    [t \in Table |-> files[t] \cup (IF t \in th[f].done THEN th[f].snap[t] ELSE {})]

\* commit_add makes the files of this flush visible, all at once.
FlushCommit(f) ==
    /\ up /\ th[f].pc = "upload" /\ th[f].todo = {}
    /\ files' = Committed(f)
    /\ th' = [th EXCEPT ![f].pc = "unhold"]
    /\ UNCHANGED <<gens, generation, active, up, wpc, buffer, hold, query, exempt,
                   gone, bounds>>

\* commit_add returns an error, whether or not the entry landed: flush_all
\* returns it, and the holding area and the log keep what they have.
FlushCommitFails(f) ==
    /\ up /\ th[f].pc = "upload" /\ th[f].todo = {}
    /\ storeFails < MaxStoreFails
    /\ storeFails' = storeFails + 1
    /\ files' \in {files, Committed(f)}
    /\ th' = [th EXCEPT ![f] = Idle]
    /\ UNCHANGED <<gens, generation, active, up, wpc, buffer, hold, query, exempt,
                   gone, crashes, logFails>>

FlushUnhold(f) ==
    /\ up /\ th[f].pc = "unhold"
    /\ hold' = [t \in Table |-> IF t \in th[f].done THEN {} ELSE hold[t]]
    /\ th' = [th EXCEPT ![f].pc = "reclaim"]
    /\ UNCHANGED <<gens, generation, active, up, wpc, buffer, files, query, exempt,
                   gone, bounds>>

\* The generations left by delete_generations_upto, called unless a table
\* failed.
ReclaimedAnyway(f) ==
    Restrict(gens, {g \in DOMAIN gens : g > th[f].sealed \/ g = generation})

Reclaimed(f) ==
    IF th[f].failed # {} THEN gens
    ELSE Restrict(gens, {g \in DOMAIN gens : g > th[f].sealed \/ g = generation})

\* The end of flush_all; a table that failed also ends the drop that began
\* with this flush.
FlushReclaim(f) ==
    /\ up /\ th[f].pc = "reclaim"
    /\ gens' = Reclaimed(f)
    /\ th' = [th EXCEPT ![f] = IF @.failed # {} \/ @.target = None THEN Idle
                               ELSE [@ EXCEPT !.pc = "drop"]]
    /\ UNCHANGED <<generation, active, up, wpc, buffer, hold, files, query, exempt,
                   gone, bounds>>

\* A file cannot be removed: the older ones are, the error is returned.
FlushReclaimFails(f) ==
    /\ up /\ th[f].pc = "reclaim" /\ th[f].failed = {}
    /\ logFails < MaxLogFails
    /\ logFails' = logFails + 1
    /\ \E g \in DOMAIN gens :
           /\ g <= th[f].sealed /\ g # generation
           /\ gens' = Restrict(gens, {h \in DOMAIN gens : h >= g})
    /\ th' = [th EXCEPT ![f] = Idle]
    /\ UNCHANGED <<generation, active, up, wpc, buffer, hold, files, query, exempt,
                   gone, crashes, storeFails>>

(***************************************************************************)
(* drop_table after its flush.                                             *)
(***************************************************************************)
\* commit_drop: the table's files leave the catalog.  From here the rows
\* written so far may go, the ones of a racing write among them.
CommitDrop(f) ==
    /\ up /\ th[f].pc = "drop"
    /\ LET t == th[f].target
       IN  /\ files' = [files EXCEPT ![t] = {}]
           /\ exempt' = [exempt EXCEPT ![t] = @ \cup Acked(t)]
    /\ th' = [th EXCEPT ![f].pc = "purgeHold"]
    /\ UNCHANGED <<gens, generation, active, up, wpc, buffer, hold, query, gone, bounds>>

\* commit_drop returns an error, whether or not the entry landed.
CommitDropFails(f) ==
    /\ up /\ th[f].pc = "drop"
    /\ storeFails < MaxStoreFails
    /\ storeFails' = storeFails + 1
    /\ LET t == th[f].target
       IN  /\ files' \in {files, [files EXCEPT ![t] = {}]}
           /\ exempt' = [exempt EXCEPT ![t] = @ \cup Acked(t)]
    /\ th' = [th EXCEPT ![f] = Idle]
    /\ UNCHANGED <<gens, generation, active, up, wpc, buffer, hold, query, gone,
                   crashes, logFails>>

\* The holding area forgets the table, then the buffers do, each under its
\* own lock; then the drop returns Ok.
PurgeHold(f) ==
    /\ up /\ th[f].pc = "purgeHold"
    /\ LET t == th[f].target
       IN  /\ hold' = [hold EXCEPT ![t] = {}]
           /\ exempt' = [exempt EXCEPT ![t] = @ \cup Acked(t)]
    /\ th' = [th EXCEPT ![f].pc = "purgeBuffer"]
    /\ UNCHANGED <<gens, generation, active, up, wpc, buffer, files, query, gone, bounds>>

PurgeBuffer(f) ==
    /\ up /\ th[f].pc = "purgeBuffer"
    /\ LET t == th[f].target
       IN  /\ buffer' = [buffer EXCEPT ![t] = {}]
           /\ exempt' = [exempt EXCEPT ![t] = @ \cup Acked(t)]
           /\ gone' = [gone EXCEPT ![t] = @ \cup th[f].before]
    /\ th' = [th EXCEPT ![f] = Idle]
    /\ UNCHANGED <<gens, generation, active, up, wpc, hold, files, query, bounds>>

(***************************************************************************)
(* sql_batches over one table: live rows first, then the catalog.          *)
(***************************************************************************)
QueryLive(t) ==
    /\ up /\ query.pc = "idle"
    /\ query' = [pc |-> "live", table |-> t, want |-> Acked(t),
                 got |-> buffer[t] \cup hold[t]]
    /\ UNCHANGED <<gens, generation, active, up, wpc, buffer, hold, files, th,
                   exempt, gone, bounds>>

QueryFiles ==
    /\ up /\ query.pc = "live"
    /\ query' = [query EXCEPT !.pc = "answered", !.got = @ \cup files[query.table]]
    /\ UNCHANGED <<gens, generation, active, up, wpc, buffer, hold, files, th,
                   exempt, gone, bounds>>

QueryDone ==
    /\ query.pc = "answered"
    /\ query' = NoQuery
    /\ UNCHANGED <<gens, generation, active, up, wpc, buffer, hold, files, th,
                   exempt, gone, bounds>>

(***************************************************************************)
(* The process dies: memory goes, a write in flight is never answered.     *)
(***************************************************************************)
Crash ==
    /\ up /\ crashes < MaxCrashes
    /\ crashes' = crashes + 1
    /\ up' = FALSE
    /\ wpc' = [w \in Write |-> IF wpc[w] = "logged" THEN "unanswered" ELSE wpc[w]]
    /\ buffer' = NoRows
    /\ hold' = NoRows
    /\ th' = [f \in Thread |-> IF th[f] = Absent THEN Absent ELSE Idle]
    /\ query' = NoQuery
    /\ UNCHANGED <<gens, generation, active, files, exempt, gone, storeFails,
                   logFails>>

\* open_with_stack: the catalog is loaded, every generation of the log is
\* replayed into the buffers, and appends go on in the last one.  A write
\* refused before may clash again, or find its columns free.
RestartLastOnly ==
    /\ ~up
    /\ up' = TRUE
    /\ buffer' = [t \in Table |-> RowsOf(gens[LastGen], t)]
    /\ generation' = LastGen
    /\ active' = LastGen
    /\ UNCHANGED <<gens, wpc, hold, files, th, query, exempt, gone, bounds>>

Restart ==
    /\ ~up
    /\ up' = TRUE
    /\ \E took \in [BadWrite -> SUBSET Table] :
           buffer' = [t \in Table |-> {w \in RowsOf(Logged, t) :
                                        w \in BadWrite => t \in took[w]}]
    /\ generation' = LastGen
    /\ active' = LastGen
    /\ UNCHANGED <<gens, wpc, hold, files, th, query, exempt, gone, bounds>>

FlushStep(f) ==
    \/ \E t \in Table : FlushOne(f, t)
    \/ FlushCommit(f) \/ FlushUnhold(f) \/ FlushReclaim(f)
    \/ CommitDrop(f) \/ PurgeHold(f) \/ PurgeBuffer(f)

FlushFault(f) ==
    \/ \E t \in Table : FlushOneFails(f, t)
    \/ FlushCommitFails(f) \/ FlushReclaimFails(f) \/ CommitDropFails(f)
    \/ \E target \in Table \cup {None} : FlushRotateFails(f, target)

\* flush_if_needed: a table has rows enough, or rows old enough.  Time is
\* not modelled, so rows may be old at any moment.
BeginFullOnly(f) ==
    \E target \in Table \cup {None} :
        /\ Cardinality(UNION Range(buffer)) > 1
        /\ FlushBegin(f, target) \/ FlushNothing(f, target)

Begin(f) ==
    \E target \in Table \cup {None} : FlushBegin(f, target) \/ FlushNothing(f, target)

Next ==
    \/ \E w \in Write : LogWrite(w) \/ FinishWrite(w)
    \/ \E f \in Thread : Begin(f) \/ FlushStep(f) \/ FlushFault(f)
    \/ \E t \in Table : QueryLive(t)
    \/ QueryFiles \/ QueryDone
    \/ Crash \/ Restart

Spec == Init /\ [][Next]_vars
-----------------------------------------------------------------------------
\* The rows of a table a restart would find, and those a query would.
Durable(t) == RowsOf(Logged, t) \cup files[t]
Readable(t) == buffer[t] \cup hold[t] \cup files[t]

\* "Acknowledged writes are never lost": at every instant every row behind a
\* 204 is in a committed file or in a generation of the log, unless its
\* table was dropped after it.
AckedDurable == \A t \in Table : Acked(t) \ exempt[t] \subseteq Durable(t)

\* While the node runs, every row behind a 204 is in the buffer, the holding
\* area or a committed file, however far a flush is ("never neither").
AckedReadable ==
    up => \A t \in Table : Acked(t) \ exempt[t] \subseteq Readable(t)

\* No row is in the buffer and in the holding area at once ("never both"),
\* so no flush makes a query count a row twice.
OneLivePlace == \A t \in Table : buffer[t] \cap hold[t] = {}

\* A query that began after a row's 204 returns the row, although it reads
\* the live rows and the catalog at different times and a flush may commit
\* in between (buffer before catalog in sql_batches).
QuerySeesAcked ==
    query.pc = "answered" => query.want \ exempt[query.table] \subseteq query.got

\* Once DROP TABLE has returned, rows acknowledged before it began are never
\* seen again, not after a restart either ("once it returns there is nothing
\* left to replay").
DropStays ==
    \A t \in Table : gone[t] \cap (IF up THEN Readable(t) ELSE Durable(t)) = {}

\* The node implements the table store of module TableStore: what a client
\* can read, or could after a restart, changes only by whole writes and by
\* drops, in every step of a flush, crash and restart.  A write that clashes
\* is refused and promises nothing, so it is left out.
Visible ==
    [t \in Table |-> (IF up THEN Readable(t) ELSE Durable(t)) \ BadWrite]
Abstract == INSTANCE TableStore WITH rows <- Visible

ImplementsTableStore == Abstract!Spec

(***************************************************************************)
(* Fairness: a write that reached the log is applied, a flush goes on, the *)
(* tick comes round and a stopped process is started again.                *)
(***************************************************************************)
FairSpec ==
    /\ Spec
    /\ \A w \in Write : WF_vars(FinishWrite(w))
    /\ \A f \in Thread : WF_vars(FlushStep(f))
    /\ WF_vars(Begin(Tick))
    /\ WF_vars(Restart)

\* Every acknowledged row ends up in a committed file, whatever crashes come
\* in between: the log is a waiting room, not a resting place.
AckedReachFiles ==
    \A w \in Write : \A t \in Table :
        w \in Acked(t) ~> w \in files[t] \cup exempt[t]

TypeOK ==
    /\ DOMAIN gens \subseteq 0 .. MaxGen
    /\ \A g \in DOMAIN gens : gens[g] \subseteq Write
    /\ generation \in 0 .. MaxGen
    /\ active \in DOMAIN gens /\ active <= generation
    /\ up \in BOOLEAN
    /\ wpc \in [Write -> {"unsent", "new", "logged", "acked", "refused", "unanswered"}]
    /\ {buffer, hold, files, exempt, gone} \subseteq [Table -> SUBSET Write]
    /\ th \in [Thread -> [pc : {"absent", "idle", "upload", "unhold", "reclaim", "drop",
                                "purgeHold", "purgeBuffer"},
                          snap : [Table -> SUBSET Write], todo : SUBSET Table,
                          done : SUBSET Table, failed : SUBSET Table,
                          sealed : 0 .. MaxGen, target : Table \cup {None},
                          before : SUBSET Write]]
    /\ query \in [pc : {"idle", "live", "answered"}, table : Table \cup {None},
                  want : SUBSET Write, got : SUBSET Write]
    /\ crashes \in 0 .. MaxCrashes
    /\ storeFails \in 0 .. MaxStoreFails
    /\ logFails \in 0 .. MaxLogFails
=============================================================================
