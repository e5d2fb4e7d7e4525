----------------------------- MODULE TableData -----------------------------
(***************************************************************************)
(* The rows of one table and what a scan makes of them: the write buffer   *)
(* with its typed columns, the schema registry that gives a column its     *)
(* type across flushes and restarts, the sorted and split Parquet files    *)
(* with row groups and statistics, and the scan that prunes files, groups  *)
(* and rows before the query engine filters again.                         *)
(*                                                                         *)
(* A row is a function from the columns it has to their values; a field's  *)
(* value is the number of its write, so two writes are never confused.     *)
(* Who flushes, compacts and replays when is the subject of Engine and     *)
(* Maintenance; here each of them is the change it makes to the data.      *)
(***************************************************************************)
EXTENDS Integers, Sequences, SequencesExt, FiniteSets, FiniteSetsExt, Functions, TLC

CONSTANTS
    Lines,       \* writes: [time, tags, fields], tags to values, fields to types
    Queries,     \* [min, max, eq, cols]: pushed filters and the columns selected
    Deletes,     \* targeted deletes: [eq, min, max]
    Leading,     \* the tag column compaction clusters by
    HourLen,     \* length of a partition
    RgRows,      \* rows in a row group
    MaxWrites, MaxFlushes, MaxCompacts, MaxRestarts,  \* bounds
    InGate       \* whether the registry learns a snapshot's columns in the gate

VARIABLES
    buffer,      \* TableBuffer: rows and column types
    holding,     \* Engine::flushing: the snapshot being written
    files,       \* the table's files, by number
    registry,    \* Engine::schemas: column -> type
    wal,         \* lines not yet reclaimed
    sealed,      \* how many of them the snapshot holds
    tombstones,  \* active targeted deletes
    count        \* writes, flushes, compactions, restarts so far

vars == <<buffer, holding, files, registry, wal, sealed, tombstones, count>>

Time == "time"
Null == 0
Empty == [rows |-> <<>>, types |-> <<>>]
NoBound == -1
Hour(t) == t \div HourLen
Value(row, c) == IF c \in DOMAIN row THEN row[c] ELSE Null
-----------------------------------------------------------------------------
\* FieldCol::accepts: integers go into float columns, nothing else is mixed.
accepts(col, ty) == col = ty \/ (col = "float" /\ ty \in {"int", "uint"})

\* The type a field lands in: its column's, the established one of a column
\* that a flush drained (col_for_datatype), or its own.
column_for(buf, established, c, ty) ==
    IF c \in DOMAIN buf.types THEN buf.types[c]
    ELSE IF c \in DOMAIN established
         THEN (IF established[c] = "dict" THEN "str" ELSE established[c])
    ELSE ty

\* TableBuffer::append: every field is checked before any column is touched.
Accepted(buf, line, established) ==
    \A c \in DOMAIN line.fields :
        accepts(column_for(buf, established, c, line.fields[c]), line.fields[c])

append(buf, line, n, established) ==
    LET row == (Time :> line.time) @@ line.tags @@ [c \in DOMAIN line.fields |-> n]
    IN  [rows |-> Append(buf.rows, row),
         types |-> buf.types @@ [c \in DOMAIN line.tags |-> "dict"]
                   @@ [c \in DOMAIN line.fields |->
                          column_for(buf, established, c, line.fields[c])]]

\* schema_union: refused when one name has two types.
Compatible(a, b) == \A c \in DOMAIN a \cap DOMAIN b : a[c] = b[c]
schema_union(a, b) == a @@ b

\* Engine::apply: append, then the registry is brought up to date if the
\* buffer has more columns than it; a rejected line changes nothing.
apply(buf, reg, line, n) ==
    LET new == append(buf, line, n, reg)
        grown == Cardinality(DOMAIN new.types) > Cardinality(DOMAIN reg)
    IN  IF ~Accepted(buf, line, reg) THEN [buffer |-> buf, registry |-> reg]
        ELSE [buffer |-> new,
              registry |-> IF grown /\ Compatible(reg, new.types)
                           THEN schema_union(reg, new.types) ELSE reg]
-----------------------------------------------------------------------------
\* prepare_ordered: rows sorted by primary key (time and every tag, the
\* leading tag first if there is one), the last write of a key kept.
TagsOf(types) == {c \in DOMAIN types : types[c] = "dict"}
SameKey(r, s, types) == \A c \in TagsOf(types) \cup {Time} : Value(r, c) = Value(s, c)
KeyBefore(r, s, types, leading) ==
    LET tags == TagsOf(types)
        lead == IF leading \in tags THEN <<leading>> ELSE <<>>
        order == lead \o <<Time>> \o SetToSeq(tags \ {leading})
    IN  \E i \in DOMAIN order :
            /\ Value(r, order[i]) < Value(s, order[i])
            /\ \A j \in 1 .. i - 1 : Value(r, order[j]) = Value(s, order[j])

kept(rows, types) ==
    {i \in DOMAIN rows : \A j \in DOMAIN rows : j > i => ~SameKey(rows[i], rows[j], types)}

prepare_ordered(rows, types, leading) ==
    LET sorted == SetToSortSeq(kept(rows, types),
                               LAMBDA i, j : KeyBefore(rows[i], rows[j], types, leading))
    IN  [k \in DOMAIN sorted |-> rows[sorted[k]]]

\* split by UTC hour, with the time bounds of each part.
HourPart(rows, h) == SelectSeq(rows, LAMBDA r : Hour(r[Time]) = h)
Hours(rows) == {Hour(rows[i][Time]) : i \in DOMAIN rows}
Times(rows) == {rows[i][Time] : i \in DOMAIN rows}
FileFor(rows, types, rg) ==
    [rows |-> rows, types |-> types, rg |-> rg,
     min |-> Min(Times(rows)), max |-> Max(Times(rows))]

\* flush_one: one file per hour, in the order of the hours.
Flushed(snapshot, first) ==
    LET rows == prepare_ordered(snapshot.rows, snapshot.types, "")
        hours == SetToSortSeq(Hours(rows), <)
    IN  [n \in first .. first + Len(hours) - 1 |->
            FileFor(HourPart(rows, hours[n - first + 1]), snapshot.types, Len(rows))]

NextFile == IF DOMAIN files = {} THEN 1 ELSE Max(DOMAIN files) + 1

\* Path order: partition, then last timestamp, then sequence number.
PathBefore(m, n) ==
    LET f == files[m]  g == files[n]
    IN  \/ Hour(f.max) < Hour(g.max)
        \/ Hour(f.max) = Hour(g.max) /\ f.max < g.max
        \/ f.max = g.max /\ m < n
InPathOrder(ns) == SetToSortSeq(ns, PathBefore)
-----------------------------------------------------------------------------
Init ==
    /\ buffer = Empty
    /\ holding = Empty
    /\ files = <<>>
    /\ registry = <<>>
    /\ wal = <<>>
    /\ sealed = 0
    /\ tombstones = {}
    /\ count = [writes |-> 0, flushes |-> 0, compacts |-> 0, restarts |-> 0]

Write(line) ==
    /\ count.writes < MaxWrites
    /\ LET n == count.writes + 1
           done == apply(buffer, registry, line, n)
       IN  /\ buffer' = done.buffer
           /\ registry' = done.registry
           /\ wal' = Append(wal, [line |-> line, n |-> n])
    /\ count' = [count EXCEPT !.writes = @ + 1]
    /\ UNCHANGED <<holding, files, sealed, tombstones>>

\* flush_all, in the gate: the buffer is swapped out, its snapshot is held
\* (in the place of one whose flush failed).
Drain ==
    /\ count.flushes < MaxFlushes
    /\ buffer.rows # <<>>
    /\ holding.rows = <<>> \/ ~Compatible(registry, holding.types)
    /\ buffer' = Empty
    /\ holding' = buffer
    /\ sealed' = Len(wal)
    /\ registry' = IF InGate /\ Compatible(registry, buffer.types)
                   THEN schema_union(registry, buffer.types) ELSE registry
    /\ count' = [count EXCEPT !.flushes = @ + 1]
    /\ UNCHANGED <<files, wal, tombstones>>

\* flush_one and the rest of flush_all, after the gate: the registry learns
\* the snapshot's columns, the files are written, the log is reclaimed.
FlushOne ==
    /\ holding.rows # <<>>
    /\ Compatible(registry, holding.types)
    /\ registry' = schema_union(registry, holding.types)
    /\ files' = files @@ Flushed(holding, NextFile)
    /\ holding' = Empty
    /\ wal' = SubSeq(wal, sealed + 1, Len(wal))
    /\ sealed' = 0
    /\ UNCHANGED <<buffer, tombstones, count>>

\* compaction of one hour: its files in path order, one file out, clustered.
Compact(h) ==
    LET ns == {n \in DOMAIN files : Hour(files[n].max) = h}
        order == InPathOrder(ns)
        rows == FlattenSeq([i \in DOMAIN order |-> files[order[i]].rows])
        types == FoldFunctionOnSet(LAMBDA t, acc : acc @@ t, <<>>,
                                   [n \in DOMAIN files |-> files[n].types], ns)
    IN  /\ count.compacts < MaxCompacts
        /\ Cardinality(ns) > 1
        /\ \A m, n \in ns : Compatible(files[m].types, files[n].types)
        /\ files' = Restrict(files, DOMAIN files \ ns) @@
                    (NextFile :> FileFor(prepare_ordered(rows, types, Leading), types, RgRows))
        /\ count' = [count EXCEPT !.compacts = @ + 1]
        /\ UNCHANGED <<buffer, holding, registry, wal, sealed, tombstones>>

Delete(d) ==
    /\ d \notin tombstones
    /\ tombstones' = tombstones \cup {d}
    /\ UNCHANGED <<buffer, holding, files, registry, wal, sealed, count>>

\* Engine::open: the registry starts from the newest file by path alone
\* (refresh_schema_registry), then the log is replayed.
Restart ==
    /\ count.restarts < MaxRestarts
    /\ LET known == IF DOMAIN files = {} THEN <<>>
                    ELSE files[Last(InPathOrder(DOMAIN files))].types
           replayed == FoldLeft(LAMBDA s, w : apply(s.buffer, s.registry, w.line, w.n),
                                [buffer |-> Empty, registry |-> known], wal)
       IN  /\ buffer' = replayed.buffer
           /\ registry' = replayed.registry
    /\ holding' = Empty
    /\ sealed' = 0
    /\ count' = [count EXCEPT !.restarts = @ + 1]
    /\ UNCHANGED <<files, wal, tombstones>>

Next ==
    \/ \E line \in Lines : Write(line)
    \/ Drain
    \/ FlushOne
    \/ \E h \in 0 .. 1 : Compact(h)
    \/ \E d \in Deletes : Delete(d)
    \/ Restart

Spec == Init /\ [][Next]_vars
-----------------------------------------------------------------------------
\* Row groups: runs of rg rows; the statistics of a tag in a group are the
\* bounds of its non-null values, and a bloom filter knows them all.
Groups(f) == {SubSeq(f.rows, (g - 1) * f.rg + 1, IF g * f.rg < Len(f.rows) THEN g * f.rg ELSE Len(f.rows)) :
                 g \in 1 .. (Len(f.rows) + f.rg - 1) \div f.rg}
ValuesIn(group, c) == {Value(group[i], c) : i \in DOMAIN group} \ {Null}

\* stats_keep_row_groups and bloom_keep_row_groups: a column the file lacks,
\* or one without statistics, excludes nothing.
stats_keep(f, group, eq) ==
    \A c \in DOMAIN eq \cap DOMAIN f.types :
        LET vs == ValuesIn(group, c) IN vs = {} \/ (Min(vs) <= eq[c] /\ eq[c] <= Max(vs))
bloom_keep(f, group, eq) ==
    \A c \in DOMAIN eq \cap DOMAIN f.types : eq[c] \in ValuesIn(group, c)

\* load_one_file: pruned by the catalog's time bounds, then by group, then
\* row by row on the tags it has; only the needed columns are decoded.
time_keep(f, q) ==
    /\ q.min # NoBound => f.max >= q.min
    /\ q.max # NoBound => f.min <= q.max

Project(row, cols) == Restrict(row, DOMAIN row \cap cols)
Batch(rows, types, cols) ==
    [rows |-> [i \in DOMAIN rows |-> Project(rows[i], cols)], cols |-> (DOMAIN types \cup {Time}) \cap cols]

load_one_file(f, q, needed, blooms) ==
    LET row_filter(r) == \A c \in DOMAIN q.eq \cap DOMAIN f.types : Value(r, c) = q.eq[c]
        groups == {g \in Groups(f) : stats_keep(f, g, q.eq) /\ (blooms => bloom_keep(f, g, q.eq))}
        read == IF ~time_keep(f, q) THEN <<>>
                ELSE SelectSeq(f.rows, LAMBDA r : row_filter(r) /\ \E g \in groups : r \in ToSet(g))
    IN  Batch(read, f.types, needed)

\* Restriction::required_columns and apply_tombstone: a delete that names a
\* tag the batch lacks matches nothing.
required_columns_none(deletes) == {}

required_columns(deletes) ==
    IF deletes = {} THEN {} ELSE {Time} \cup UNION {DOMAIN d.eq : d \in deletes}

Within(t, d) == (d.min # NoBound => t >= d.min) /\ (d.max # NoBound => t <= d.max)
Hits(d, row, cols) ==
    /\ DOMAIN d.eq \subseteq cols
    /\ \A c \in DOMAIN d.eq : Value(row, c) = d.eq[c]
    /\ \/ d.min = NoBound /\ d.max = NoBound
       \/ Time \in cols /\ Within(row[Time], d)
apply_tombstone(batch, deletes) ==
    SelectSeq(batch.rows, LAMBDA r : ~\E d \in deletes : Hits(d, r, batch.cols))

\* The filters as the query engine applies them again, and the columns it asks
\* the scan for because of them.
Matches(row, q) ==
    /\ \A c \in DOMAIN q.eq : Value(row, c) = q.eq[c]
    /\ q.min # NoBound => row[Time] >= q.min
    /\ q.max # NoBound => row[Time] <= q.max
FilterColumns(q) ==
    DOMAIN q.eq \cup (IF q.min # NoBound \/ q.max # NoBound THEN {Time} ELSE {})

\* LazyTable::scan: a projection of no columns (COUNT) reads the time column;
\* what restrictions test is read as well and dropped again by align_to.
scan(q, blooms) ==
    LET target == q.cols \cup FilterColumns(q)
        needed == (IF target = {} THEN {Time} ELSE target) \cup required_columns(tombstones)
        order == InPathOrder(DOMAIN files)
        batches == << Batch(buffer.rows, buffer.types, needed),
                      Batch(holding.rows, holding.types, needed) >>
                   \o [i \in DOMAIN order |-> load_one_file(files[order[i]], q, needed, blooms)]
        aligned == FlattenSeq([i \in DOMAIN batches |-> apply_tombstone(batches[i], tombstones)])
    IN  [i \in DOMAIN aligned |-> Project(aligned[i], target)]

\* sql_batches: the schema presented is the registry's with that of every live
\* batch; where they disagree the table is an ErrorTable.
Presentable == Compatible(registry, holding.types)
               /\ Compatible(schema_union(registry, holding.types), buffer.types)
Presented == DOMAIN registry \cup DOMAIN holding.types \cup DOMAIN buffer.types \cup {Time}
-----------------------------------------------------------------------------
\* Every row stored, and what a query asks for of them.
Stored ==
    LET ns == SetToSeq(DOMAIN files)
    IN  holding.rows \o buffer.rows \o FlattenSeq([i \in DOMAIN ns |-> files[ns[i]].rows])
Answer(rows, q) ==
    LET hit == SelectSeq(rows, LAMBDA r : Matches(r, q))
    IN  [i \in DOMAIN hit |-> Project(hit[i], q.cols)]
SameRows(a, b) ==
    /\ Len(a) = Len(b)
    /\ \A r \in ToSet(a) \cup ToSet(b) :
          Cardinality({i \in DOMAIN a : a[i] = r}) = Cardinality({i \in DOMAIN b : b[i] = r})

(***************************************************************************)
(* A scan that skips files by their time bounds, row groups by statistics  *)
(* or bloom filters, rows by tag, and columns by projection, gives a query *)
(* exactly the stored rows it asks for, less the deleted ones: the same    *)
(* rows, each as often, whatever columns it selects (provider.rs scan,     *)
(* load_one_file; query lib.rs apply_tombstone; buffer prepare_ordered).   *)
(***************************************************************************)
ScanIsExact ==
    Presentable =>
        \A q \in {r \in Queries : r.cols \cup DOMAIN r.eq \subseteq Presented} :
            \A blooms \in BOOLEAN :
                SameRows(Answer(scan(q, blooms), q),
                         Answer(SelectSeq(Stored, LAMBDA r :
                                    ~\E d \in tombstones : Hits(d, r, DOMAIN r)), q))

(***************************************************************************)
(* A column has one type: the registry, the buffer, the snapshot being     *)
(* flushed and every file agree on it, so that the next flush, compaction  *)
(* or query can merge them (server lib.rs apply and flush_one, buffer      *)
(* append).                                                                *)
(***************************************************************************)
OneTypePerColumn ==
    LET schemas == {registry, buffer.types, holding.types} \cup {files[n].types : n \in DOMAIN files}
    IN  \A a, b \in schemas : Compatible(a, b)
=============================================================================
