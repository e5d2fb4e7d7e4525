---------------------------- MODULE Maintenance ----------------------------
(***************************************************************************)
(* The maintenance of data files (crates/server, compact, query): flushes  *)
(* add files, and on every node one task goes round the stages of a tick:  *)
(* merge files of a partition, rewrite files under a targeted delete, drop *)
(* expired partitions, and delete superseded objects once a grace period   *)
(* has passed.  Queries hold the file list they began with.                *)
(*                                                                         *)
(* One table.  A row is a key, which fixes its timestamp, and the number   *)
(* of the flush that wrote it.  Objects are named as the code names them:  *)
(* partition, prefix, highest timestamp, per-process sequence number.  A   *)
(* commit is one step on the shared manifest log, which is what modules    *)
(* Catalog and ManifestLog establish; a node works from the list it had    *)
(* when it last committed or tailed.  Time is kept as ages.                *)
(***************************************************************************)
EXTENDS Integers, FiniteSets, FiniteSetsExt, Functions, TLC

CONSTANTS
    Node,           \* processes that run maintenance on one store
    Compactor,      \* those with role compactor; the others flush
    Keys,
    KeyTs,          \* the timestamp of a key's row
    HourLen,        \* timestamps in one hour partition
    Batches,        \* the sets of keys a flush may carry
    Deletes,        \* targeted deletes a client may ask for: [keys, lo, hi]
    Owned,          \* the partitions each node compacts (compactor_shard)
    Seq0,           \* file_seq of each node when the behaviour begins
    MinFiles,       \* compact_min_files
    MaxGroups,      \* MAX_GROUPS_PER_TICK
    MaxRewrites,    \* MAX_FILES_PER_TICK
    Grace,          \* gc_grace_secs
    Timeout,        \* query_timeout_secs
    MaxFlushes,     \* bound: flushes in a behaviour
    MaxHour,        \* bound: the retention cutoff, in hours
    MaxWait,        \* bound: how long a query waits for admission
    MaxQueries,     \* bound: queries in a behaviour
    MaxEvents       \* bound: targeted deletes, hours that pass and commits
                    \* that fail, together

HourPartition(ts) == ts \div HourLen
Parts == {HourPartition(KeyTs[k]) : k \in Keys}

ASSUME MaintenanceAssumption ==
    /\ IsFiniteSet(Node) /\ Compactor \subseteq Node
    /\ IsFiniteSet(Keys) /\ KeyTs \in [Keys -> Nat]
    /\ HourLen \in Nat \ {0}
    /\ Batches \subseteq (SUBSET Keys) \ {{}}
    /\ Deletes \subseteq [keys : SUBSET Keys, lo : Int, hi : Int]
    /\ Owned \in [Node -> SUBSET Parts]
    /\ Seq0 \in [Node -> Nat]
    /\ {MinFiles, MaxGroups, MaxRewrites, Grace, Timeout, MaxFlushes, MaxHour,
        MaxWait, MaxQueries, MaxEvents} \subseteq Nat

VARIABLES
    objects,    \* the object store: path -> rows
    live,       \* the files of the manifest log
    tombs,      \* the targeted deletes of the manifest log
    view,       \* each node's in-memory catalog
    seq,        \* Engine::file_seq
    gc,         \* Engine::pending_gc, with the age of each entry
    task,       \* where each node's maintenance task is
    query,      \* one query at a time
    cutoff,     \* the oldest hour that retention keeps
    flushes,    \* flushes so far
    latest,     \* history: the last flush of each key, 0 if none
    queries,    \* queries so far
    events,     \* deletes, hours and failures so far
    failed      \* history: a commit has failed

log == <<live, tombs>>
clocks == <<cutoff, flushes, latest, queries, events, failed>>
vars == <<objects, live, tombs, view, seq, gc, task, query, cutoff, flushes,
          latest, queries, events, failed>>

\* The locals of compact_once and apply_tombstones_once: groups of files
\* still to do, the deletes of the pass, the rewrites it has made, and a
\* rewrite that is uploaded and not committed.
Idle == [stage |-> "idle", todo |-> {}, dels |-> {}, done |-> 0, ins |-> {}, out |-> {}]
NoQuery == [pc |-> "idle", files |-> {}, age |-> 0]

(***************************************************************************)
(* Paths and files.                                                        *)
(***************************************************************************)
\* {partition}/{prefix}{max_ts:020}-{seq:06}; flushes have no prefix.
PathOf(kind, rows, s) ==
    LET ts == {KeyTs[r.key] : r \in rows}
    IN  [part |-> HourPartition(Max(ts)), kind |-> kind, max |-> Max(ts), seq |-> s]

\* FileMeta, with the bounds flush::time_bounds computes.
MetaOf(path, rows) ==
    [path |-> path, lo |-> Min({KeyTs[r.key] : r \in rows}),
     hi |-> Max({KeyTs[r.key] : r \in rows})]

\* The order of paths as strings: a digit, then c, then t.
KindRank == [flush |-> 0, c |-> 1, t |-> 2]
PathBefore(p, q) ==
    \/ KindRank[p.kind] < KindRank[q.kind]
    \/ /\ p.kind = q.kind
       /\ p.max < q.max \/ (p.max = q.max /\ p.seq < q.seq)

PathsOf(fs) == {f.path : f \in fs}

\* merge_files: all rows; of two with one key the one in the later path.
MergeFiles(fs) ==
    UNION {{r \in objects[p] :
              \A q \in PathsOf(fs) \ {p} :
                 (\E s \in objects[q] : s.key = r.key) => PathBefore(q, p)} :
           p \in PathsOf(fs)}

\* has_overlap: the sort by bounds and the scan with the furthest end say
\* that some file begins strictly before an earlier one ends.
HasOverlap(fs) ==
    \E f \in fs : \E g \in fs \ {f} :
        /\ f.lo < g.lo \/ (f.lo = g.lo /\ f.hi <= g.hi)
        /\ g.lo < f.hi

\* trigger_for: the count first, then overlap.
TriggerFor(fs) ==
    IF Cardinality(fs) >= Max({MinFiles, 2}) THEN "file_count"
    ELSE IF HasOverlap(fs) THEN "overlap" ELSE "none"

\* The sort key of todo: overlap before count, then most files.
Before(g, h) ==
    \/ TriggerFor(g) = "overlap" /\ TriggerFor(h) # "overlap"
    \/ /\ (TriggerFor(g) = "overlap") = (TriggerFor(h) = "overlap")
       /\ Cardinality(g) > Cardinality(h)

\* The list a pass works from: a compactor tails the catalog first.
Current == [files |-> live, tombs |-> tombs]
Base(n) == IF n \in Compactor THEN Current ELSE view[n]

\* The groups compact_once picks from a node's list, cut to its maximum.
Groups(n) ==
    {g \in {{f \in Base(n).files : f.path.part = p} : p \in Owned[n]} :
       TriggerFor(g) # "none"}
Picked(n) ==
    {T \in SUBSET Groups(n) :
       /\ Cardinality(T) = Min({MaxGroups, Cardinality(Groups(n))})
       /\ \A g \in T, h \in Groups(n) \ T : ~Before(h, g)}

\* apply_tombstone: the rows a set of deletes matches.
Deleted(rows, dels) ==
    {r \in rows : \E d \in dels : /\ r.key \in d.keys
                                  /\ d.lo <= KeyTs[r.key]
                                  /\ KeyTs[r.key] <= d.hi}

\* tombstone_overlaps_file.
OverlappingStrict(dels, f) == {d \in dels : d.lo < f.hi /\ d.hi > f.lo}
Overlapping(dels, f) == {d \in dels : d.lo <= f.hi /\ d.hi >= f.lo}

\* The files of a node's list that apply_tombstones_once rewrites or fails
\* to read; the ones in which it finds no row to delete it leaves alone.
Doomed(f, dels) == Deleted(objects[f.path], Overlapping(dels, f))
Touched(n) ==
    {f \in Base(n).files :
       /\ Overlapping(Base(n).tombs, f) # {}
       /\ f.path \in DOMAIN objects => Doomed(f, Base(n).tombs) # {}}
-----------------------------------------------------------------------------
Init ==
    /\ objects = [p \in {} |-> {}]
    /\ live = {}
    /\ tombs = {}
    /\ view = [n \in Node |-> [files |-> {}, tombs |-> {}]]
    /\ seq = Seq0
    /\ gc = [n \in Node |-> {}]
    /\ task = [n \in Node |-> Idle]
    /\ query = NoQuery
    /\ cutoff = 0
    /\ flushes = 0
    /\ latest = [k \in Keys |-> 0]
    /\ queries = 0
    /\ events = 0
    /\ failed = FALSE

\* Catalog::commit by n: what it removes goes, what it adds comes, and n has
\* folded the log up to its own entry.
Commit(n, remove, add, dels) ==
    /\ live' = {f \in live : f.path \notin remove} \cup add
    /\ tombs' = tombs \cup dels
    /\ view' = [view EXCEPT ![n] = [files |-> live', tombs |-> tombs']]

\* put overwrites whatever has that name.
Put(path, rows) ==
    objects' = [p \in {path} \cup DOMAIN objects |-> IF p = path THEN rows ELSE objects[p]]

\* defer_gc.
DeferGc(n, paths) == gc' = [gc EXCEPT ![n] = @ \cup [path : paths, age : {0}]]

Go(n, t) == task' = [task EXCEPT ![n] = t]

Event == events < MaxEvents /\ events' = events + 1

(***************************************************************************)
(* Clients.                                                                *)
(***************************************************************************)
\* flush_one for every partition of the batch, and one commit_add.
Flush(n, ks) ==
    LET rows == {[key |-> k, ver |-> flushes + 1] : k \in ks}
        hours == {HourPartition(KeyTs[k]) : k \in ks}
        Part(h) == {r \in rows : HourPartition(KeyTs[r.key]) = h}
        Path(h) == PathOf("flush", Part(h),
                          seq[n] + Cardinality({g \in hours : g < h}))
        new == {Path(h) : h \in hours}
    IN  /\ n \notin Compactor
        /\ flushes < MaxFlushes
        /\ objects' = [p \in new \cup DOMAIN objects |->
                         IF p \in new THEN Part(p.part) ELSE objects[p]]
        /\ Commit(n, {}, {MetaOf(Path(h), Part(h)) : h \in hours}, {})
        /\ seq' = [seq EXCEPT ![n] = @ + Cardinality(hours)]
        /\ flushes' = flushes + 1
        /\ latest' = [k \in Keys |-> IF k \in ks THEN flushes' ELSE latest[k]]
        /\ UNCHANGED <<gc, task, query, cutoff, queries, events, failed>>

\* delete_where: one more standing predicate; asking again changes nothing.
DeleteWhere(n, d) ==
    /\ n \notin Compactor
    /\ d \notin tombs
    /\ view[n].files # {}
    /\ Event
    /\ Commit(n, {}, {}, {d})
    /\ UNCHANGED <<objects, seq, gc, task, query, cutoff, flushes, latest,
                   queries, failed>>

\* sql_batches takes the file list from a catalog that is tailed, then
\* run_sql_env waits for a permit, and only then does the timeout begin.
QueryBegin ==
    /\ query.pc = "idle"
    /\ live # {}
    /\ queries < MaxQueries
    /\ queries' = queries + 1
    /\ query' = [pc |-> "waiting", files |-> live, age |-> 0]
    /\ UNCHANGED <<objects, log, view, seq, gc, task, cutoff, flushes, latest, events,
                   failed>>

QueryAdmit ==
    /\ query.pc = "waiting"
    /\ query' = [query EXCEPT !.pc = "running", !.age = 0]
    /\ UNCHANGED <<objects, log, view, seq, gc, task, clocks>>

QueryEnd ==
    /\ query.pc = "running"
    /\ query' = NoQuery
    /\ UNCHANGED <<objects, log, view, seq, gc, task, clocks>>

\* Time passes: entries of the deletion queue age, and so does the query,
\* which its deadline ends.
Tick ==
    /\ query.pc = "running" => query.age < Timeout
    /\ query.pc = "waiting" => query.age < MaxWait
    /\ query.pc # "idle" \/ \E n \in Node : \E e \in gc[n] : e.age < Grace
    /\ query' = IF query.pc = "idle" THEN query ELSE [query EXCEPT !.age = @ + 1]
    /\ gc' = [n \in Node |->
               {[e EXCEPT !.age = Min({@ + 1, Grace})] : e \in gc[n]}]
    /\ UNCHANGED <<objects, log, view, seq, task, clocks>>

\* Another hour falls out of the retention window.
HourPasses ==
    /\ cutoff < MaxHour
    /\ Event
    /\ cutoff' = cutoff + 1
    /\ UNCHANGED <<objects, log, view, seq, gc, task, query, flushes, latest,
                   queries, failed>>
(***************************************************************************)
(* The tick of a node.  Its stages follow each other on one task; a stage  *)
(* that finds nothing to do, or fails at its first read, changes nothing   *)
(* and is no step here.                                                    *)
(***************************************************************************)
\* compact_once up to the put of one merged file: the first group of the
\* pass when the task is idle, else the next one.  An input that cannot be
\* read ends the stage.
Merge(n) ==
    \E T \in IF task[n].stage = "idle" THEN Picked(n) ELSE {task[n].todo} :
    \E g \in T :
        LET readable == PathsOf(g) \subseteq DOMAIN objects
            rows == MergeFiles(g)
            path == PathOf("c", rows, seq[n])
        IN  /\ task[n].stage \in {"idle", "merge"}
            /\ task[n].stage = "idle" => readable
            /\ \A h \in T : ~Before(h, g)
            /\ IF readable
               THEN /\ Put(path, rows)
                    /\ seq' = [seq EXCEPT ![n] = @ + 1]
                    /\ Go(n, [Idle EXCEPT !.stage = "commit", !.todo = T \ {g},
                                          !.ins = g, !.out = {MetaOf(path, rows)}])
               ELSE Go(n, Idle) /\ UNCHANGED <<objects, seq>>
            /\ UNCHANGED <<log, view, gc, query, clocks>>

MergeAgain(n) ==
    Go(n, IF task[n].todo = {} THEN Idle
          ELSE [Idle EXCEPT !.stage = "merge", !.todo = task[n].todo])

\* commit_replace lands: every input is still live.
CommitMergeDefersOutput(n) ==
    LET ins == PathsOf(task[n].ins)
    IN  /\ task[n].stage = "commit"
        /\ ins \subseteq PathsOf(live)
        /\ Commit(n, ins, task[n].out, {})
        /\ DeferGc(n, PathsOf(task[n].out))
        /\ MergeAgain(n)
        /\ UNCHANGED <<objects, seq, query, clocks>>

CommitMerge(n) ==
    LET ins == PathsOf(task[n].ins)
    IN  /\ task[n].stage = "commit"
        /\ ins \subseteq PathsOf(live)
        /\ Commit(n, ins, task[n].out, {})
        /\ DeferGc(n, ins)
        /\ MergeAgain(n)
        /\ UNCHANGED <<objects, seq, query, clocks>>

\* commit_replace finds an input gone: the output is handed to deletion.
StaleMergeLeaks(n) ==
    /\ task[n].stage = "commit"
    /\ ~(PathsOf(task[n].ins) \subseteq PathsOf(live))
    /\ view' = [view EXCEPT ![n] = Current]
    /\ MergeAgain(n)
    /\ UNCHANGED <<objects, log, seq, gc, query, clocks>>

StaleMerge(n) ==
    /\ task[n].stage = "commit"
    /\ ~(PathsOf(task[n].ins) \subseteq PathsOf(live))
    /\ view' = [view EXCEPT ![n] = Current]
    /\ DeferGc(n, PathsOf(task[n].out))
    /\ MergeAgain(n)
    /\ UNCHANGED <<objects, log, seq, query, clocks>>

\* apply_tombstones_once up to the put: one file of the pass's list, and
\* the deletes as they stood when the pass began.  Of a file that loses
\* every row nothing is put.
Rewrite(n) ==
    \E p \in IF task[n].stage = "idle"
             THEN {[Idle EXCEPT !.dels = Base(n).tombs, !.todo = {{f} : f \in Touched(n)}]}
             ELSE {task[n]} :
    \E f \in UNION p.todo :
        LET readable == f.path \in DOMAIN objects
            rows == objects[f.path] \ Doomed(f, p.dels)
            path == PathOf("t", rows, seq[n])
            swap == [p EXCEPT !.stage = "swap", !.todo = @ \ {{f}}, !.ins = {f}]
        IN  /\ task[n].stage \in {"idle", "rewrite"}
            /\ task[n].stage = "idle" => readable
            /\ IF ~readable THEN Go(n, Idle) /\ UNCHANGED <<objects, seq>>
               ELSE IF rows = {} THEN Go(n, swap) /\ UNCHANGED <<objects, seq>>
               ELSE /\ Put(path, rows)
                    /\ seq' = [seq EXCEPT ![n] = @ + 1]
                    /\ Go(n, [swap EXCEPT !.out = {MetaOf(path, rows)}])
            /\ UNCHANGED <<log, view, gc, query, clocks>>

\* The commit of a rewrite has no fence.  The pass ends with its list or at
\* its maximum.
Swap(n) ==
    /\ task[n].stage = "swap"
    /\ Commit(n, PathsOf(task[n].ins), task[n].out, {})
    /\ DeferGc(n, PathsOf(task[n].ins))
    /\ Go(n, IF task[n].todo = {} \/ task[n].done + 1 >= MaxRewrites THEN Idle
             ELSE [task[n] EXCEPT !.stage = "rewrite", !.ins = {}, !.out = {},
                                  !.done = @ + 1])
    /\ UNCHANGED <<objects, seq, query, clocks>>

\* A manifest commit that fails ends its stage; what was put stays behind.
FailCommit(n) ==
    /\ task[n].stage \in {"commit", "swap"}
    /\ Event
    /\ failed' = TRUE
    /\ Go(n, Idle)
    /\ UNCHANGED <<objects, log, view, seq, gc, query, cutoff, flushes, latest, queries>>

\* enforce_retention: one commit for all expired files of the node's list.
EnforceRetentionHourEarly(n) ==
    LET expired == PathsOf({f \in view[n].files : f.path.part <= cutoff})
    IN  /\ task[n].stage = "idle"
        /\ expired # {}
        /\ Commit(n, expired, {}, {})
        /\ DeferGc(n, expired)
        /\ UNCHANGED <<objects, seq, task, query, clocks>>

EnforceRetention(n) ==
    LET expired == PathsOf({f \in view[n].files : f.path.part < cutoff})
    IN  /\ task[n].stage = "idle"
        /\ expired # {}
        /\ Commit(n, expired, {}, {})
        /\ DeferGc(n, expired)
        /\ UNCHANGED <<objects, seq, task, query, clocks>>

\* run_gc, which the compactor's tick does not call.
DueEarly(n) == {e \in gc[n] : e.age + 1 >= Grace}
Due(n) == {e \in gc[n] : e.age >= Grace}
RunGc(n) ==
    /\ n \notin Compactor
    /\ task[n].stage = "idle"
    /\ Due(n) # {}
    /\ objects' = Restrict(objects, DOMAIN objects \ {e.path : e \in Due(n)})
    /\ gc' = [gc EXCEPT ![n] = @ \ Due(n)]
    /\ UNCHANGED <<log, view, seq, task, query, clocks>>

\* A process starts again: memory goes, file_seq begins at 0.
Restart(n) ==
    /\ seq' = [seq EXCEPT ![n] = 0]
    /\ view' = [view EXCEPT ![n] = Current]
    /\ gc' = [gc EXCEPT ![n] = {}]
    /\ Go(n, Idle)
    /\ UNCHANGED <<objects, log, query, clocks>>

Maintain(n) ==
    \/ Merge(n) \/ CommitMerge(n) \/ StaleMerge(n) \/ Rewrite(n) \/ Swap(n)
    \/ EnforceRetention(n)

Next ==
    \/ \E n \in Node : Maintain(n) \/ RunGc(n) \/ FailCommit(n)
    \/ \E n \in Node, ks \in Batches : Flush(n, ks)
    \/ \E n \in Node, d \in Deletes : DeleteWhere(n, d)
    \/ QueryBegin \/ QueryAdmit \/ QueryEnd \/ Tick \/ HourPasses

Spec == Init /\ [][Next]_vars

\* With restarts in it.  The runs leave them out: see LiveFilesIntact.
SpecRestart == Init /\ [][Next \/ \E n \in Node : Restart(n)]_vars

\* The tick of every node comes round (a tokio interval), queries are
\* admitted and end, time passes.
FairSpec ==
    /\ Spec
    /\ \A n \in Node : WF_vars(Maintain(n)) /\ SF_vars(RunGc(n))
    /\ WF_vars(QueryAdmit) /\ WF_vars(QueryEnd) /\ WF_vars(Tick)
-----------------------------------------------------------------------------
\* Every file of the catalog is in the store, with the rows its bounds and
\* its name were computed from: neither deferred deletion (run_gc) nor a
\* second put under one name (flush_one, compact_once) touches a live file.
\* SpecRestart does not keep it: names can come up again after a restart.
LiveFilesIntact ==
    \A f \in live : /\ f.path \in DOMAIN objects
                    /\ MetaOf(f.path, objects[f.path]) = f

\* A running query finds every file it planned to read (gc_grace_secs).
QueryFilesExist ==
    query.pc = "running" => PathsOf(query.files) \subseteq DOMAIN objects

Hidden(k) == Deleted({[key |-> k, ver |-> 0]}, tombs) # {}
Expired(k) == HourPartition(KeyTs[k]) < cutoff
LiveRows == UNION {objects[p] : p \in PathsOf(live) \cap DOMAIN objects}

\* A key that was flushed is in a live file until a targeted delete matches
\* it or its hour expires, whatever compactions, rewrites, retention and
\* deletion of the nodes do between their steps.
KeysKept ==
    \A k \in Keys : latest[k] > 0 /\ ~Hidden(k) /\ ~Expired(k)
                    => \E r \in LiveRows : r.key = k

\* The row of the last flush of a key is never lost to an older one (FR-5,
\* the order compact_once gives to merge_files).
LastWriteWins ==
    \A k \in Keys : latest[k] > 0 /\ ~Hidden(k) /\ ~Expired(k)
                    => [key |-> k, ver |-> latest[k]] \in LiveRows

\* Once clients stop, no partition is left with files to merge, with rows
\* under a targeted delete, or expired (compact_once, apply_tombstones_once,
\* enforce_retention).
Settled ==
    /\ \A p \in Parts : TriggerFor({f \in live : f.path.part = p}) = "none"
    /\ Deleted(LiveRows, tombs) = {}
    /\ \A f \in live : f.path.part >= cutoff
Settles == <>[]Settled

\* Superseded objects leave the store, unless a commit failed after its put
\* (defer_gc, run_gc).
GarbageGoes == <>failed \/ <>[](DOMAIN objects = PathsOf(live))
=============================================================================
