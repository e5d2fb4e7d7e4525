------------------------------- MODULE Audit -------------------------------
(***************************************************************************)
(* The audit trail (crates/audit): hash-chained records in a live segment  *)
(* that is rotated by size or age, with old segments pruned on request,    *)
(* and the health flag that fails mutations closed.                        *)
(*                                                                         *)
(* A sink is a value, its operations are functions from sink to sink; who  *)
(* calls them, and when, is in module AdminApi.  Digests are abstract: the *)
(* hash of a record is the list of all records of its chain, which is what *)
(* an injective digest of contents and predecessor stands for.             *)
(***************************************************************************)
EXTENDS Integers, Sequences, SequencesExt, FiniteSets, FiniteSetsExt, Functions, TLC

CONSTANTS
    RotateRecords,  \* Policy::rotate_bytes, counted in records
    RetainSegments, \* Policy::retain_days: whether old segments are deleted
    Live            \* the name of the live segment, greater than any seq

GENESIS == <<>>
compute_hash(r) == Append(r.prev, <<r.seq, r.payload>>)

\* What a write that did not finish leaves at the end of a segment, and the
\* line it makes together with the next record: neither parses.
Fragment == [seq |-> 0, payload |-> "fragment", prev |-> GENESIS]
Corrupt == [seq |-> 0, payload |-> "corrupt", prev |-> GENESIS]
Unreadable == {Fragment, Corrupt}

\* segments_in_order: the rotated segments by the seq in their name, the
\* live one last; read_all, which fails on a line that does not parse.
segments_in_order(files) == SetToSortSeq(DOMAIN files, <)
read_all(files) ==
    LET names == segments_in_order(files)
    IN  FlattenSeq([i \in DOMAIN names |-> files[names[i]]])
readable(files) == \A n \in DOMAIN files : Unreadable \cap ToSet(files[n]) = {}

\* verify_records, short of the recomputed hash: seqs and hashes link up.
linked(rs) ==
    \A i \in 1 .. Len(rs) - 1 :
        /\ rs[i + 1].seq = rs[i].seq + 1
        /\ rs[i + 1].prev = compute_hash(rs[i])

verify_records(rs) == linked(rs) /\ (rs # <<>> => rs[1].prev = GENESIS)

\* AuditSink::open_with and AuditLog::open_with: seq and head come from the
\* whole trail, and a trail just opened counts as healthy.
open_with_live_only(files, old) ==
    LET rs == IF Live \in DOMAIN files THEN files[Live] ELSE <<>>
    IN  [files |-> files @@ (Live :> <<>>),
         writer |-> Live,
         next |-> IF rs = <<>> THEN 1 ELSE Last(rs).seq + 1,
         head |-> IF rs = <<>> THEN GENESIS ELSE compute_hash(Last(rs)),
         written |-> Len(rs),
         old |-> old,
         healthy |-> TRUE]

open_with(files, old) ==
    LET rs == read_all(files)
    IN  [files |-> files @@ (Live :> <<>>),
         writer |-> Live,
         next |-> IF rs = <<>> THEN 1 ELSE Last(rs).seq + 1,
         head |-> IF rs = <<>> THEN GENESIS ELSE compute_hash(Last(rs)),
         written |-> IF Live \in DOMAIN files THEN Len(files[Live]) ELSE 0,
         old |-> old,
         healthy |-> TRUE]

\* A sink on an empty directory.
NewSink == open_with(<<>>, {})

\* should_rotate: never an empty segment; by size, or because its time is up.
should_rotate(s, due) == s.written > 0 /\ (s.written + 1 > RotateRecords \/ due)

\* prune: segments older than the retention, the live one excepted.
prune(s) ==
    IF ~RetainSegments THEN s
    ELSE LET keep == {n \in DOMAIN s.files : n = Live \/ n \notin s.old}
         IN  [s EXCEPT !.files = Restrict(s.files, keep), !.old = @ \cap keep]

Renamed(s, last) ==
    [n \in (DOMAIN s.files \ {Live}) \cup {last} |->
        IF n = last THEN s.files[Live] ELSE s.files[n]]
RenamedOld(s, last) == (s.old \ {Live}) \cup (IF Live \in s.old THEN {last} ELSE {})

\* rotate: the live segment is renamed after its last seq and an empty one
\* opened.  A target that exists is left alone.  The rename fails when there
\* is no live file, and the open can fail after the rename: the writer then
\* goes on in the renamed file.
rotate(s, fault) ==
    LET last == s.next - 1
    IN  IF last \in DOMAIN s.files THEN [ok |-> TRUE, sink |-> s]
        ELSE IF Live \notin DOMAIN s.files THEN [ok |-> FALSE, sink |-> s]
        ELSE IF fault = "reopen"
             THEN [ok |-> FALSE,
                   sink |-> [s EXCEPT !.files = Renamed(s, last), !.writer = last,
                                      !.old = RenamedOld(s, last)]]
        ELSE [ok |-> TRUE,
              sink |-> prune([s EXCEPT !.files = Renamed(s, last) @@ (Live :> <<>>),
                                       !.writer = Live, !.written = 0,
                                       !.old = RenamedOld(s, last)])]

\* Bytes at the end of the writer's segment, behind a fragment or not; the
\* segment is young again.
Written(s, line) ==
    LET f == s.files[s.writer]
        g == IF f # <<>> /\ Last(f) = Fragment THEN Append(Front(f), Corrupt)
             ELSE Append(f, line)
    IN  [s EXCEPT !.files[s.writer] = g, !.old = @ \ {s.writer}]

\* append: rotate if due, write, flush, sync; only then does the chain
\* advance.  The outcomes of the write: "ok"; "refused", no byte written;
\* "torn", some of them; "unsynced", the whole line, and then an error.
append(s, payload, fault, due) ==
    LET r == [seq |-> s.next, payload |-> payload, prev |-> s.head]
        turned == IF should_rotate(s, due) THEN rotate(s, fault)
                  ELSE [ok |-> TRUE, sink |-> s]
        t == turned.sink
    IN  IF ~turned.ok THEN [t EXCEPT !.healthy = FALSE]
        ELSE CASE fault = "refused" -> [t EXCEPT !.healthy = FALSE]
               [] fault = "torn" -> [Written(t, Fragment) EXCEPT !.healthy = FALSE]
               [] fault = "unsynced" -> [Written(t, r) EXCEPT !.healthy = FALSE]
               [] OTHER -> [Written(t, r) EXCEPT !.next = @ + 1, !.written = @ + 1,
                                !.head = compute_hash(r), !.healthy = TRUE]

\* AuditLog::record says whether it succeeded by the health it leaves.
recorded(s) == s.healthy

\* gate: a mutation may start.
gate(s, failOpen) == s.healthy \/ failOpen
=============================================================================
