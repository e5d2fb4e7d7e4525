----------------------------- MODULE LastValue ------------------------------
(***************************************************************************)
(* The last-value cache (crates/lastvalue) between the write path that     *)
(* feeds it, the operators who switch it on and off per table, DROP, and   *)
(* the last_cache() function that answers from it.  Engine::apply appends  *)
(* a batch to the buffer under the dbs lock and observes its rows after    *)
(* the lock is released, one by one, each under the cache's own lock.      *)
(*                                                                         *)
(* A row is a record of its table, series, time, fields and a number that  *)
(* tells its values from those of every other row.  The cache is the list  *)
(* of its readings, most recently used first.                              *)
(***************************************************************************)
EXTENDS Naturals, Sequences, SequencesExt, FiniteSets, FiniteSetsExt, Functions

CONSTANTS
    Writer,   \* concurrent writes; each sends one batch
    Batches,  \* the choices of batches: functions from Writer to sequences of rows
    Tables,
    Cap,      \* TIMELAKE_LAST_CACHE_MAX
    Reenable, \* whether a table may be enabled while a write is being applied
    MaxAdmin  \* bound on what operators do and on restarts, together

VARIABLES
    batch,   \* the batches of this behaviour
    at,      \* writer -> "start", "apply", the row to observe next, or "done"
    files, buffer, wal, \* the rows of the tables, and the log's frames
    dead,    \* series whose rows a tombstone hides from every scan
    enabled, \* Inner::enabled
    map,     \* Inner::map
    drop,    \* the table whose DROP is under way and its stage
    admin,   \* operator calls and restarts so far
    seen     \* history: the rows observed that the cache should still know of

vars == <<batch, at, files, buffer, wal, dead, enabled, map, drop, admin, seen>>

NoDrop == [table |-> "none", stage |-> "none"]
Null == 0

-----------------------------------------------------------------------------
(* LastValueCache.                                                         *)

\* LruCache: the least recently used reading goes when there are too many.
Capped(m) == SubSeq(m, 1, Min({Cap, Len(m)}))

\* observe: only a strictly newer row replaces the reading; any row of the
\* series makes it the most recently used one.
observe_or_equal(m, on, r) ==
    LET mine == {i \in DOMAIN m : m[i].series = r.series}
        i == CHOOSE j \in mine : TRUE
    IN  IF r.table \notin on THEN m
        ELSE IF mine = {} THEN Capped(<<r>> \o m)
        ELSE <<IF r.time >= m[i].time THEN r ELSE m[i]>> \o RemoveAt(m, i)

observe(m, on, r) ==
    LET mine == {i \in DOMAIN m : m[i].series = r.series}
        i == CHOOSE j \in mine : TRUE
    IN  IF r.table \notin on THEN m
        ELSE IF mine = {} THEN Capped(<<r>> \o m)
        ELSE <<IF r.time > m[i].time THEN r ELSE m[i]>> \o RemoveAt(m, i)

\* disable, what it does to the readings; snapshot.
without(m, t) == SelectSeq(m, LAMBDA e : e.table # t)
snapshot(m, t) == ToSet(SelectSeq(m, LAMBDA e : e.table = t))

\* build_batch: a column for every field that some reading has, null in the
\* rows of the readings that lack it.
build_batch(rows) ==
    LET columns == UNION {r.fields : r \in rows}
    IN  {[series |-> r.series, time |-> r.time,
          values |-> [c \in columns |-> IF c \in r.fields THEN r.n ELSE Null]] : r \in rows}

\* LastCacheFunc::call
last_cache(t) == build_batch(snapshot(map, t))

-----------------------------------------------------------------------------
(* What the cache should know: the rows observed for the series it holds,  *)
(* in their order; at Cap + 1 series, the one not written for longest is   *)
(* forgotten.                                                              *)

SeriesIn(rows) == {r.series : r \in ToSet(rows)}
LastAt(rows, s) == Max({i \in DOMAIN rows : rows[i].series = s})
Remembered(rows) ==
    IF Cardinality(SeriesIn(rows)) <= Cap THEN rows
    ELSE LET oldest == CHOOSE s \in SeriesIn(rows) :
                          \A q \in SeriesIn(rows) : LastAt(rows, s) <= LastAt(rows, q)
         IN  SelectSeq(rows, LAMBDA r : r.series # oldest)
Noted(rows, on, r) == IF r.table \in on THEN Remembered(Append(rows, r)) ELSE rows

\* The first of the newest rows of a series.
Newest(rows, s) ==
    LET own == SelectSeq(rows, LAMBDA r : r.series = s)
    IN  own[CHOOSE i \in DOMAIN own :
                /\ \A j \in DOMAIN own : own[j].time <= own[i].time
                /\ \A j \in 1 .. i - 1 : own[j].time < own[i].time]

-----------------------------------------------------------------------------
Init ==
    /\ batch \in Batches
    /\ at = [w \in Writer |-> "start"]
    /\ files = {} /\ buffer = {} /\ wal = <<>> /\ dead = {}
    /\ enabled \in {{}, Tables}
    /\ map = <<>> /\ drop = NoDrop /\ admin = 0 /\ seen = <<>>

\* write_lp_internal up to apply's dbs lock: the frame is in the log and the
\* rows are in the buffer.
append(w) ==
    /\ at[w] = "start"
    /\ wal' = wal \o batch[w]
    /\ buffer' = buffer \cup ToSet(batch[w])
    /\ at' = [at EXCEPT ![w] = "apply"]
    /\ UNCHANGED <<batch, files, dead, enabled, map, drop, admin, seen>>

\* is_active, asked once per batch.
is_active(w) ==
    /\ at[w] = "apply"
    /\ at' = [at EXCEPT ![w] = IF enabled = {} THEN "done" ELSE "row1"]
    /\ UNCHANGED <<batch, files, buffer, wal, dead, enabled, map, drop, admin, seen>>

Step(i) == CASE i = 1 -> "row1" [] i = 2 -> "row2" [] OTHER -> "done"

observe_row(w) ==
    \E i \in DOMAIN batch[w] :
        /\ at[w] = Step(i)
        /\ map' = observe(map, enabled, batch[w][i])
        /\ seen' = Noted(seen, enabled, batch[w][i])
        /\ at' = [at EXCEPT ![w] = IF i = Len(batch[w]) THEN "done" ELSE Step(i + 1)]
        /\ UNCHANGED <<batch, files, buffer, wal, dead, enabled, drop, admin>>

\* The ingest gate is held from the log to the end of apply.
GateFree == \A w \in Writer : at[w] \in {"start", "done"}

\* flush_all, as a whole: the buffer becomes files and the log is reclaimed.
Flushed == files' = files \cup buffer /\ buffer' = {} /\ wal' = <<>>
flush_all ==
    /\ GateFree /\ buffer # {} /\ Flushed
    /\ UNCHANGED <<batch, at, dead, enabled, map, drop, admin, seen>>

Operator == admin < MaxAdmin /\ admin' = admin + 1

enable_last_cache(t) ==
    /\ Operator /\ (Reenable \/ GateFree)
    /\ enabled' = enabled \cup {t}
    /\ UNCHANGED <<batch, at, files, buffer, wal, dead, map, drop, seen>>

\* The set and the readings change under one hold of the lock.
disable(t) ==
    /\ enabled' = enabled \ {t}
    /\ map' = without(map, t)
    /\ seen' = without(seen, t)

disable_last_cache(t) ==
    /\ Operator /\ t \in enabled /\ disable(t)
    /\ UNCHANGED <<batch, at, files, buffer, wal, dead, drop>>

\* drop_table: the flush, the commit of the drop marker, the purge of the
\* buffer, and the cache's part, each of which a write can come between.
Of(rows, t) == {r \in rows : r.table = t}
drop_table(t) ==
    /\ drop = NoDrop /\ Of(files \cup buffer, t) # {} /\ Operator
    /\ GateFree /\ Flushed
    /\ drop' = [table |-> t, stage |-> "flushed"]
    /\ UNCHANGED <<batch, at, dead, enabled, map, seen>>
commit_drop ==
    /\ drop.stage = "flushed"
    /\ files' = files \ Of(files, drop.table)
    /\ dead' = dead \ {s \in dead : s[1] = drop.table}
    /\ drop' = [drop EXCEPT !.stage = "committed"]
    /\ UNCHANGED <<batch, at, buffer, wal, enabled, map, admin, seen>>
purge ==
    /\ drop.stage = "committed"
    /\ buffer' = buffer \ Of(buffer, drop.table)
    /\ drop' = [drop EXCEPT !.stage = "purged"]
    /\ UNCHANGED <<batch, at, files, wal, dead, enabled, map, admin, seen>>
drop_last_cache ==
    /\ drop.stage = "purged"
    /\ IF drop.table \in enabled THEN disable(drop.table)
       ELSE UNCHANGED <<enabled, map, seen>>
    /\ drop' = NoDrop
    /\ UNCHANGED <<batch, at, files, buffer, wal, dead, admin>>

\* delete_where: a standing tombstone over one series of a table that exists.
\* The cache is not told of it.
delete_where(s) ==
    /\ Operator /\ s \notin dead
    /\ dead' = dead \cup {s}
    /\ UNCHANGED <<batch, at, files, buffer, wal, enabled, map, drop, seen>>

\* A restart: the enabled tables are read from their document, the cache
\* starts empty, and the log is replayed through apply.
Replayed == FoldLeft(LAMBDA m, r : observe(m, enabled, r), <<>>, wal)
restart ==
    /\ Operator
    /\ at' = [w \in Writer |-> IF at[w] = "start" THEN "start" ELSE "done"]
    /\ buffer' = ToSet(wal)
    /\ map' = Replayed
    /\ seen' = FoldLeft(LAMBDA m, r : Noted(m, enabled, r), <<>>, wal)
    /\ drop' = NoDrop
    /\ UNCHANGED <<batch, files, wal, dead, enabled>>

Next ==
    \/ \E w \in Writer : append(w) \/ is_active(w) \/ observe_row(w)
    \/ \E t \in Tables : enable_last_cache(t) \/ disable_last_cache(t) \/ drop_table(t)
    \/ \E r \in files \cup buffer : delete_where(r.series)
    \/ flush_all \/ commit_drop \/ purge \/ drop_last_cache \/ restart

Spec == Init /\ [][Next]_vars

-----------------------------------------------------------------------------
\* last_cache() returns, for the Cap series written most recently, the newest
\* row that was observed since the series came into the cache (the first of
\* them where several have the same time), whatever the order in which the
\* rows of concurrent batches are observed; and nothing of a table that was
\* dropped or switched off, unless its DROP is still under way.
LastIsNewest ==
    \A t \in Tables :
        LET rows == snapshot(map, t)
            known == {s \in SeriesIn(seen) : s[1] = t}
        IN  /\ last_cache(t) = build_batch({Newest(seen, s) : s \in known})
            /\ rows # {} => t \in enabled
            /\ t # drop.table => rows \subseteq files \cup buffer

\* A row that delete_where hid is not returned either.
DeletedHidden == \A e \in ToSet(map) : e.series \notin dead
=============================================================================
