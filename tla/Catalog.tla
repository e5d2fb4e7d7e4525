------------------------------ MODULE Catalog ------------------------------
(***************************************************************************)
(* The manifest-log catalog (crates/catalog).                              *)
(*                                                                         *)
(* Every node of a cluster, a replica here, keeps in memory which data     *)
(* files are live, which delete predicates stand and which schemas are     *)
(* declared, all of it folded from one log of numbered manifest objects in *)
(* the shared object store.  Nodes never talk to each other about it: a    *)
(* commit is a conditional put of the object numbered head + 1, and a      *)
(* commit that finds the number taken reads what it missed and tries       *)
(* again.  A compaction commits through a fence: its inputs must still be  *)
(* live at the instant it lands.                                           *)
(*                                                                         *)
(* A step is what another thread or node can observe.  The code holds      *)
(* commit_lock over a whole commit or catch-up, so a replica runs one of   *)
(* them at a time (op), but other replicas, crashes and store errors fall  *)
(* between its steps.                                                      *)
(***************************************************************************)
EXTENDS ManifestReplay

CONSTANTS
    Replica,        \* nodes with a catalog over the same store
    Path,           \* object paths of data files
    Table,          \* (database, table) pairs
    Tombstone,      \* delete predicates, by their content-derived id
    Schema,         \* declared schemas
    NoSchema,       \* a table nobody declared
    Version,        \* the manifest format each replica's binary reads
    Edits,          \* the files a commit may add and remove together
    MaxAttempts,    \* MAX_COMMIT_ATTEMPTS
    MaxOps,         \* bound: commits begun in a behaviour
    MaxFaults       \* bound: store errors and crashes in a behaviour

ASSUME CatalogAssumption ==
    /\ TableOf \in [Path \cup Tombstone -> Table]
    /\ Version \in [Replica -> Nat]
    /\ Edits \subseteq [add : SUBSET Path, remove : SUBSET Path]
    /\ NoSchema \notin Schema
    /\ MaxAttempts \in Nat \ {0}
    /\ MaxOps \in Nat
    /\ MaxFaults \in Nat

VARIABLES
    log,        \* the manifest objects in the store, log[i] at number i
    head,       \* Catalog::seq of each replica
    view,       \* files, tombstones and declared_schemas of each replica
    applied,    \* how many entries view has folded (new_head while folding)
    pc,         \* where the holder of commit_lock is
    op,         \* what it is committing
    attempts,   \* CAS attempts used by the current commit
    upto,       \* the last entry of the listing being folded
    issued,     \* commits begun so far
    result,     \* what each commit returned to its caller
    faults      \* store errors and crashes so far

vars == <<log, head, view, applied, pc, op, attempts, upto, issued, result, faults>>

NoDecl == [t \in Table |-> NoSchema]

\* The arguments of commit_guarded; id only tells commits apart.
Op == [kind   : {"none", "load", "catch_up", "commit"},
       id     : 0 .. MaxOps,
       add    : SUBSET Path,
       remove : SUBSET Path,
       tombs  : SUBSET Tombstone,
       decl   : [Table -> Schema \cup {NoSchema}],
       drops  : SUBSET Table,
       fenced : BOOLEAN]

\* A catch-up or a load has no arguments, an idle catalog has no task.
Task(kind) == [kind |-> kind, id |-> 0, add |-> {}, remove |-> {}, tombs |-> {},
               decl |-> NoDecl, drops |-> {}, fenced |-> FALSE]
NoOp == Task("none")

\* ManifestEntry.  fenced and id are not written: they are kept to state
\* which commit an entry came from and whether it went through the fence.
Entry == [format : Nat,
          seq    : Nat,
          add    : SUBSET Path,
          remove : SUBSET Path,
          tombs  : SUBSET Tombstone,
          decl   : [Table -> Schema \cup {NoSchema}],
          drops  : SUBSET Table,
          fenced : BOOLEAN,
          id     : 0 .. MaxOps]

Phase == {"down", "idle", "check", "put", "publish", "apply", "list", "fold"}
Outcome == {"none", "pending", "ok", "stale", "busy", "error", "crashed"}

\* The in-memory catalog.  files is a list per table and may hold a path
\* more than once, so it is kept as the number of copies of each path;
\* tombs holds created_seq, 0 for a tombstone that does not stand.
View == [copies : [Path -> Nat],
         tombs  : [Tombstone -> Nat],
         decl   : [Table -> Schema \cup {NoSchema}]]

EmptyView == [copies |-> [p \in Path |-> 0],
              tombs  |-> [k \in Tombstone |-> 0],
              decl   |-> NoDecl]

\* apply_entry on the files: removals come before adds, an add is pushed
\* whether or not the path is there, a drop empties its table last.
ApplyFilesCounting(v, e) ==
    [p \in Path |->
        IF TableOf[p] \in e.drops THEN 0
        ELSE (IF p \in e.remove THEN v.copies[p] - 1 ELSE v.copies[p])
             + (IF p \in e.add THEN 1 ELSE 0)]

ApplyFiles(v, e) ==
    [p \in Path |->
        IF TableOf[p] \in e.drops THEN 0
        ELSE (IF p \in e.remove THEN 0 ELSE v.copies[p])
             + (IF p \in e.add THEN 1 ELSE 0)]

\* A tombstone is kept only if its id is new, and with the number of its entry.
ApplyTombsLastWins(v, e) ==
    [k \in Tombstone |->
        IF TableOf[k] \in e.drops THEN 0
        ELSE IF k \in e.tombs THEN e.seq
        ELSE v.tombs[k]]

ApplyTombs(v, e) ==
    [k \in Tombstone |->
        IF TableOf[k] \in e.drops THEN 0
        ELSE IF v.tombs[k] = 0 /\ k \in e.tombs THEN e.seq
        ELSE v.tombs[k]]

\* A declared schema replaces the one before it.
ApplySchemasKeepsDropped(v, e) ==
    [t \in Table |-> IF e.decl[t] # NoSchema THEN e.decl[t] ELSE v.decl[t]]

ApplySchemas(v, e) ==
    [t \in Table |->
        IF t \in e.drops THEN NoSchema
        ELSE IF e.decl[t] # NoSchema THEN e.decl[t]
        ELSE v.decl[t]]

ApplyEntry(v, e) ==
    [copies |-> ApplyFiles(v, e), tombs |-> ApplyTombs(v, e), decl |-> ApplySchemas(v, e)]

\* first_absent is None: every input of a replacement is still live.
InputsPresent(v, remove) == \A p \in remove : v.copies[p] > 0

\* read_entry accepts every manifest object of the log.
Readable(r) == \A i \in 1 .. Len(log) : log[i].format <= Version[r]

\* The manifest entry a commit attempts at number seq.
EntryOf(r, seq) ==
    [format |-> Version[r], seq |-> seq, add |-> op[r].add,
     remove |-> op[r].remove, tombs |-> op[r].tombs, decl |-> op[r].decl,
     drops |-> op[r].drops, fenced |-> op[r].fenced, id |-> op[r].id]
-----------------------------------------------------------------------------
Init ==
    /\ log = <<>>
    /\ head = [r \in Replica |-> 0]
    /\ view = [r \in Replica |-> EmptyView]
    /\ applied = [r \in Replica |-> 0]
    /\ pc = [r \in Replica |-> "down"]
    /\ op = [r \in Replica |-> NoOp]
    /\ attempts = [r \in Replica |-> 0]
    /\ upto = [r \in Replica |-> 0]
    /\ issued = 0
    /\ result = [i \in 1 .. MaxOps |-> "none"]
    /\ faults = 0

\* Hand the lock back; a commit also reports what became of it.
Return(r, outcome) ==
    /\ pc' = [pc EXCEPT ![r] = IF op[r].kind = "load" /\ outcome # "ok"
                               THEN "down" ELSE "idle"]
    /\ op' = [op EXCEPT ![r] = NoOp]
    /\ attempts' = [attempts EXCEPT ![r] = 0]
    /\ upto' = [upto EXCEPT ![r] = 0]
    /\ result' = IF op[r].kind = "commit"
                 THEN [result EXCEPT ![op[r].id] = outcome] ELSE result

Fault ==
    /\ faults < MaxFaults
    /\ faults' = faults + 1

\* Catalog::load, and with it the start of the node.
Load(r) ==
    /\ pc[r] = "down"
    /\ pc' = [pc EXCEPT ![r] = "list"]
    /\ op' = [op EXCEPT ![r] = Task("load")]
    /\ UNCHANGED <<log, head, view, applied, attempts, upto, issued, result, faults>>

\* The public catch_up: a querier's tail, or a query folding forward.
CatchUp(r) ==
    /\ pc[r] = "idle"
    /\ pc' = [pc EXCEPT ![r] = "list"]
    /\ op' = [op EXCEPT ![r] = Task("catch_up")]
    /\ UNCHANGED <<log, head, view, applied, attempts, upto, issued, result, faults>>

\* Entering commit_guarded: commit_lock is taken.
CommitGuarded(r, add, remove, tombs, decl, drops, fenced) ==
    /\ pc[r] = "idle"
    /\ issued < MaxOps
    /\ issued' = issued + 1
    /\ result' = [result EXCEPT ![issued + 1] = "pending"]
    /\ op' = [op EXCEPT ![r] =
                [kind |-> "commit", id |-> issued + 1, add |-> add,
                 remove |-> remove, tombs |-> tombs, decl |-> decl,
                 drops |-> drops, fenced |-> fenced]]
    /\ pc' = [pc EXCEPT ![r] = "check"]
    /\ UNCHANGED <<log, head, view, applied, attempts, upto, faults>>

\* commit_add (a flush) and commit (retention, tombstone rewrite).
Commit(r) ==
    \E e \in Edits : CommitGuarded(r, e.add, e.remove, {}, NoDecl, {}, FALSE)

\* commit_replace: a compaction, of at least one input.
CommitReplace(r) ==
    \E e \in Edits :
        /\ e.remove # {}
        /\ CommitGuarded(r, e.add, e.remove, {}, NoDecl, {}, TRUE)

CommitTombstone(r) ==
    \E k \in Tombstone : CommitGuarded(r, {}, {}, {k}, NoDecl, {}, FALSE)

CommitSchema(r) ==
    \E t \in Table, s \in Schema :
        CommitGuarded(r, {}, {}, {}, [NoDecl EXCEPT ![t] = s], {}, FALSE)

CommitDrop(r) ==
    \E t \in Table : CommitGuarded(r, {}, {}, {}, NoDecl, {t}, FALSE)

\* The head of the retry loop: the attempts are counted and the fence is
\* checked against the view as it is on this attempt.
CheckFenceOnce(r) ==
    /\ pc[r] = "check"
    /\ attempts[r] < MaxAttempts
    /\ op[r].fenced /\ attempts[r] = 0 => InputsPresent(view[r], op[r].remove)
    /\ pc' = [pc EXCEPT ![r] = "put"]
    /\ UNCHANGED <<log, head, view, applied, op, attempts, upto, issued, result, faults>>

CheckFence(r) ==
    /\ pc[r] = "check"
    /\ attempts[r] < MaxAttempts
    /\ op[r].fenced => InputsPresent(view[r], op[r].remove)
    /\ pc' = [pc EXCEPT ![r] = "put"]
    /\ UNCHANGED <<log, head, view, applied, op, attempts, upto, issued, result, faults>>

\* AlreadyExists: another writer replaced these inputs.
RefuseStale(r) ==
    /\ pc[r] = "check"
    /\ attempts[r] < MaxAttempts
    /\ op[r].fenced /\ ~InputsPresent(view[r], op[r].remove)
    /\ Return(r, "stale")
    /\ UNCHANGED <<log, head, view, applied, issued, faults>>

\* ResourceBusy: every attempt lost its race.
GiveUp(r) ==
    /\ pc[r] = "check"
    /\ attempts[r] = MaxAttempts
    /\ Return(r, "busy")
    /\ UNCHANGED <<log, head, view, applied, issued, faults>>

\* put_if_absent created the object numbered head + 1.
WinCas(r) ==
    /\ pc[r] = "put"
    /\ head[r] + 1 = Len(log) + 1
    /\ log' = Append(log, EntryOf(r, head[r] + 1))
    /\ pc' = [pc EXCEPT ![r] = "publish"]
    /\ UNCHANGED <<head, view, applied, op, attempts, upto, issued, result, faults>>

\* put_if_absent found the number taken: read what was missed.
LoseCasIgnored(r) ==
    /\ pc[r] = "put"
    /\ head[r] + 1 <= Len(log)
    /\ pc' = [pc EXCEPT ![r] = "publish"]
    /\ UNCHANGED <<log, head, view, applied, op, attempts, upto, issued, result, faults>>

LoseCasSpins(r) ==
    /\ pc[r] = "put"
    /\ head[r] + 1 <= Len(log)
    /\ pc' = [pc EXCEPT ![r] = "check"]
    /\ UNCHANGED <<log, head, view, applied, op, attempts, upto, issued, result, faults>>

LoseCas(r) ==
    /\ pc[r] = "put"
    /\ head[r] + 1 <= Len(log)
    /\ attempts' = [attempts EXCEPT ![r] = @ + 1]
    /\ pc' = [pc EXCEPT ![r] = "list"]
    /\ UNCHANGED <<log, head, view, applied, op, upto, issued, result, faults>>

\* put_if_absent returned an error: the object may be there all the same,
\* and the commit returns the error without retrying.
PutErrorRetries(r) ==
    /\ pc[r] = "put"
    /\ Fault
    /\ \/ log' = log
       \/ /\ head[r] = Len(log)
          /\ log' = Append(log, EntryOf(r, head[r] + 1))
    /\ attempts' = [attempts EXCEPT ![r] = @ + 1]
    /\ pc' = [pc EXCEPT ![r] = "list"]
    /\ UNCHANGED <<head, view, applied, op, upto, issued, result>>

PutErrorApplies(r) ==
    /\ pc[r] = "put"
    /\ Fault
    /\ \/ log' = log
       \/ /\ head[r] = Len(log)
          /\ log' = Append(log, EntryOf(r, head[r] + 1))
    /\ view' = [view EXCEPT ![r] = ApplyEntry(@, EntryOf(r, head[r] + 1))]
    /\ Return(r, "error")
    /\ UNCHANGED <<head, applied, issued>>

PutError(r) ==
    /\ pc[r] = "put"
    /\ Fault
    /\ \/ log' = log
       \/ /\ head[r] = Len(log)
          /\ log' = Append(log, EntryOf(r, head[r] + 1))
    /\ Return(r, "error")
    /\ UNCHANGED <<head, view, applied, issued>>

\* seq.store comes first: for a moment head names an entry the view lacks.
PublishHead(r) ==
    /\ pc[r] = "publish"
    /\ head' = [head EXCEPT ![r] = @ + 1]
    /\ pc' = [pc EXCEPT ![r] = "apply"]
    /\ UNCHANGED <<log, view, applied, op, attempts, upto, issued, result, faults>>

\* Under the three data locks: fold our own entry, and return its number.
ApplyOwn(r) ==
    /\ pc[r] = "apply"
    /\ view' = [view EXCEPT ![r] = ApplyEntry(@, EntryOf(r, head[r]))]
    /\ applied' = [applied EXCEPT ![r] = head[r]]
    /\ Return(r, "ok")
    /\ UNCHANGED <<log, head, issued, faults>>

\* catch_up_locked lists and reads the log; entries at or below head are
\* left out, later ones are folded next.
ListManifest(r) ==
    /\ pc[r] = "list"
    /\ Readable(r)
    /\ upto' = [upto EXCEPT ![r] = Len(log)]
    /\ pc' = [pc EXCEPT ![r] = "fold"]
    /\ UNCHANGED <<log, head, view, applied, op, attempts, issued, result, faults>>

\* An entry of a newer format, or an error of the store, ends the whole
\* catch-up (and the commit or the load around it) before anything is folded.
ListRefused(r) ==
    /\ pc[r] = "list"
    /\ ~Readable(r)
    /\ Return(r, "error")
    /\ UNCHANGED <<log, head, view, applied, issued, faults>>

ListError(r) ==
    /\ pc[r] = "list"
    /\ Fault
    /\ Return(r, "error")
    /\ UNCHANGED <<log, head, view, applied, issued>>

\* One turn of the folding loop, in the order of the numbers.
FoldEntry(r) ==
    /\ pc[r] = "fold"
    /\ applied[r] < upto[r]
    /\ view' = [view EXCEPT ![r] = ApplyEntry(@, log[applied[r] + 1])]
    /\ applied' = [applied EXCEPT ![r] = @ + 1]
    /\ UNCHANGED <<log, head, pc, op, attempts, upto, issued, result, faults>>

\* The data locks are dropped, then the new head is stored; a commit goes
\* back to the top of its loop.
StoreHeadForgotten(r) ==
    /\ pc[r] = "fold"
    /\ applied[r] = upto[r]
    /\ \/ /\ op[r].kind = "commit"
          /\ pc' = [pc EXCEPT ![r] = "check"]
          /\ upto' = [upto EXCEPT ![r] = 0]
          /\ UNCHANGED <<op, attempts, result>>
       \/ op[r].kind # "commit" /\ Return(r, "ok")
    /\ UNCHANGED <<log, head, view, applied, issued, faults>>

StoreHead(r) ==
    /\ pc[r] = "fold"
    /\ applied[r] = upto[r]
    /\ head' = [head EXCEPT ![r] = upto[r]]
    /\ \/ /\ op[r].kind = "commit"
          /\ pc' = [pc EXCEPT ![r] = "check"]
          /\ upto' = [upto EXCEPT ![r] = 0]
          /\ UNCHANGED <<op, attempts, result>>
       \/ op[r].kind # "commit" /\ Return(r, "ok")
    /\ UNCHANGED <<log, view, applied, issued, faults>>

\* The process dies: only the log survives.
Crash(r) ==
    /\ pc[r] # "down"
    /\ Fault
    /\ pc' = [pc EXCEPT ![r] = "down"]
    /\ head' = [head EXCEPT ![r] = 0]
    /\ view' = [view EXCEPT ![r] = EmptyView]
    /\ applied' = [applied EXCEPT ![r] = 0]
    /\ op' = [op EXCEPT ![r] = NoOp]
    /\ attempts' = [attempts EXCEPT ![r] = 0]
    /\ upto' = [upto EXCEPT ![r] = 0]
    /\ result' = IF op[r].kind = "commit"
                 THEN [result EXCEPT ![op[r].id] = "crashed"] ELSE result
    /\ UNCHANGED <<log, issued>>

Request(r) ==
    \/ Commit(r) \/ CommitReplace(r) \/ CommitTombstone(r)
    \/ CommitSchema(r) \/ CommitDrop(r)

\* The steps of whoever holds the lock: each runs on without waiting.
Step(r) ==
    \/ CheckFence(r) \/ RefuseStale(r) \/ GiveUp(r)
    \/ WinCas(r) \/ LoseCas(r) \/ PublishHead(r) \/ ApplyOwn(r)
    \/ ListManifest(r) \/ ListRefused(r) \/ FoldEntry(r) \/ StoreHead(r)

Next ==
    \E r \in Replica :
        \/ Load(r) \/ CatchUp(r) \/ Request(r) \/ Step(r)
        \/ PutError(r) \/ ListError(r) \/ Crash(r)

Spec == Init /\ [][Next]_vars
-----------------------------------------------------------------------------
\* Every replica's in-memory catalog is exactly what the log entries it has
\* folded mean, each counted once: no entry is skipped, repeated or taken
\* out of order whatever commits, catch-ups, store errors and crashes met
\* (apply_entry, commit_guarded, catch_up_locked).  This is the property
\* the catch-up race of docs/FINDING_catalog_catch_up_race.md broke.
FilesAreReplay ==
    \A r \in Replica : \A p \in Path :
        view[r].copies[p] = Cardinality(AddsStanding(log, p, applied[r]))

\* A tombstone stands on a replica exactly when an entry it has folded set
\* it and no later one dropped its table, and created_seq is the number of
\* that entry even when a lost race moved the commit to a later number
\* (the stamping in commit_guarded).
TombstonesAreReplay ==
    \A r \in Replica : \A k \in Tombstone :
        LET set == TombsStanding(log, k, applied[r])
        IN  IF set = {} THEN view[r].tombs[k] = 0
            ELSE /\ view[r].tombs[k] \in set
                 /\ \A i \in set : view[r].tombs[k] <= i

\* The declared schema of a table on a replica is the last one declared
\* since the table was last dropped (last-wins in apply_entry).
SchemasAreReplay ==
    \A r \in Replica : \A t \in Table :
        LET set == {i \in 1 .. applied[r] :
                        /\ log[i].decl[t] # NoSchema
                        /\ ~DroppedIn(log, t, i, applied[r])}
        IN  IF set = {} THEN view[r].decl[t] = NoSchema
            ELSE \E i \in set : /\ \A j \in set : j <= i
                                /\ view[r].decl[t] = log[i].decl[t]

\* The fence: a replacement is in the log only if every file it removes was
\* live immediately before it, so no file is ever replaced twice and no row
\* is carried by two merges (commit_replace).
FenceSound ==
    \A i \in 1 .. Len(log) :
        log[i].fenced => \A p \in log[i].remove : LiveAt(log, p, i - 1)

\* No head is ahead of the log, and a replica that is neither folding nor
\* between its two stores has folded exactly what its head says: a reader
\* that compares heads (the querier's freshness test) compares views.
HeadIsFolded ==
    \A r \in Replica :
        /\ head[r] <= Len(log)
        /\ pc[r] \in {"idle", "check", "put", "publish", "list"} => applied[r] = head[r]
        /\ pc[r] = "apply" => applied[r] + 1 = head[r]

\* A commit is in the log at most once, one that returned Ok exactly once,
\* and one that was refused as stale or gave up not at all: the caller may
\* delete what it wrote (the losing compactor's merged file).
OutcomeMatchesLog ==
    \A id \in 1 .. MaxOps :
        LET at == {i \in 1 .. Len(log) : log[i].id = id}
        IN  /\ Cardinality(at) <= 1
            /\ result[id] = "ok" => at # {}
            /\ result[id] \in {"stale", "busy"} => at = {}

\* The detailed catalog implements the abstract log: a commit takes effect
\* in the one step that creates its manifest object, and a published head
\* only moves forward until the process dies (commit_guarded, catch_up).
Abstract == INSTANCE ManifestLog WITH seen <- head

ImplementsManifestLog == Abstract!Spec

(***************************************************************************)
(* Fairness: a thread inside commit_guarded or catch_up waits for nobody,  *)
(* a node that is down is started again, and every node keeps tailing the  *)
(* log (a querier's one-second tail; a query's own catch-up).              *)
(***************************************************************************)
FairSpec ==
    /\ Spec
    /\ \A r \in Replica : WF_vars(Step(r)) /\ WF_vars(Load(r)) /\ WF_vars(CatchUp(r))

\* Every commit returns: the retry loop ends by winning, by refusal or at
\* MAX_COMMIT_ATTEMPTS, however the races go.
CommitReturns ==
    \A r \in Replica : pc[r] = "check" ~> pc[r] \in {"idle", "down"}

\* Whatever lands in the log is eventually in every replica's published
\* view, through store errors and restarts (the only way a querier learns
\* of a commit).
TailConverges ==
    \A r \in Replica : \A n \in 1 .. MaxOps : Len(log) >= n ~> head[r] >= n

TypeOK ==
    /\ log \in Seq(Entry)
    /\ head \in [Replica -> Nat]
    /\ view \in [Replica -> View]
    /\ applied \in [Replica -> Nat]
    /\ pc \in [Replica -> Phase]
    /\ op \in [Replica -> Op]
    /\ attempts \in [Replica -> 0 .. MaxAttempts]
    /\ upto \in [Replica -> Nat]
    /\ issued \in 0 .. MaxOps
    /\ result \in [1 .. MaxOps -> Outcome]
    /\ faults \in 0 .. MaxFaults
=============================================================================
