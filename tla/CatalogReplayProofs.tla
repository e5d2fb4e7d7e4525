------------------------ MODULE CatalogReplayProofs ------------------------
(***************************************************************************)
(* Proofs about Catalog: tombstones and schemas are replays of the log,    *)
(* and what a commit returned agrees with what is in the log.              *)
(***************************************************************************)
EXTENDS CatalogProofs

USE ZenonT(30)

-----------------------------------------------------------------------------
(* Tombstones *)

\* Entries after the first n do not change which tombstones the first n set.
LEMMA TombsPrefix ==
    ASSUME NEW l, NEW m, NEW n \in Nat, \A i \in 1 .. n : m[i] = l[i], NEW k
    PROVE  TombsStanding(m, k, n) = TombsStanding(l, k, n)
  BY SMTT(20) DEF TombsStanding, DroppedIn

\* One more entry either drops the tombstone's table, or adds itself to the
\* entries that set the tombstone (apply_entry).
LEMMA TombsStep ==
    ASSUME NEW l, NEW k, NEW n \in Nat
    PROVE  TombsStanding(l, k, n + 1) =
             IF TableOf[k] \in l[n + 1].drops THEN {}
             ELSE TombsStanding(l, k, n)
                  \cup (IF k \in l[n + 1].tombs THEN {n + 1} ELSE {})
  <1>1. CASE TableOf[k] \in l[n + 1].drops
    BY <1>1, SMTT(20) DEF TombsStanding, DroppedIn
  <1>2. CASE TableOf[k] \notin l[n + 1].drops
    <2>1. ASSUME NEW i \in 1 .. n
          PROVE  i \in TombsStanding(l, k, n + 1) <=> i \in TombsStanding(l, k, n)
      <3>1. i .. (n + 1) = (i .. n) \cup {n + 1}
        BY SMTT(20)
      <3>. QED  BY <1>2, <3>1, SMTT(20) DEF TombsStanding, DroppedIn
    <2>2. n + 1 \in TombsStanding(l, k, n + 1) <=> k \in l[n + 1].tombs
      BY <1>2, SMTT(20) DEF TombsStanding, DroppedIn
    <2>3. /\ TombsStanding(l, k, n + 1) \subseteq (1 .. n) \cup {n + 1}
          /\ TombsStanding(l, k, n) \subseteq 1 .. n
      BY SMTT(20) DEF TombsStanding
    <2>. QED  BY <1>2, <2>1, <2>2, <2>3
  <1>. QED  BY <1>1, <1>2

\* s is the number of the first of the entries in set, 0 if there is none.
FirstOf(s, set) ==
    IF set = {} THEN s = 0 ELSE s \in set /\ \A i \in set : s <= i

\* An entry carries its own number: the one it is stored under.
Numbered == \A i \in 1 .. Len(log) : log[i].seq = i

\* commit_guarded stamps the number it attempts into the entry, and an
\* attempt that lost its race is stamped again.
LEMMA NumberedStep == TypeOK /\ Numbered /\ [Next]_vars => Numbered'
  <1>. SUFFICES ASSUME TypeOK, Numbered, [Next]_vars PROVE Numbered'
    OBVIOUS
  <1>1. CASE UNCHANGED log
    BY <1>1 DEF Numbered
  <1>2. ASSUME NEW r \in Replica, head[r] = Len(log),
               log' = Append(log, EntryOf(r, head[r] + 1))
        PROVE  Numbered'
    <2>1. /\ Len(log) \in Nat /\ Len(log') = Len(log) + 1
          /\ \A i \in 1 .. Len(log) : log'[i] = log[i]
          /\ log'[Len(log) + 1] = EntryOf(r, head[r] + 1)
      BY <1>2, EntryOfType, SMTT(20) DEF TypeOK
    <2>2. log'[Len(log) + 1].seq = Len(log) + 1
      BY <1>2, <2>1, SMTT(20) DEF EntryOf
    <2>. QED  BY <2>1, <2>2, SMTT(20) DEF Numbered
  <1>. QED  BY <1>1, <1>2, LogStep

\* apply_entry keeps created_seq the number of the first entry that set the
\* tombstone since its table was last dropped.
LEMMA TombStep ==
    ASSUME NEW v \in View, NEW l, NEW n \in Nat, l[n + 1] \in Entry,
           l[n + 1].seq = n + 1, NEW k \in Tombstone,
           FirstOf(v.tombs[k], TombsStanding(l, k, n))
    PROVE  FirstOf(ApplyEntry(v, l[n + 1]).tombs[k], TombsStanding(l, k, n + 1))
  <1>. DEFINE e == l[n + 1]  old == TombsStanding(l, k, n)
  <1>1. ApplyEntry(v, e).tombs[k] =
          IF TableOf[k] \in e.drops THEN 0
          ELSE IF v.tombs[k] = 0 /\ k \in e.tombs THEN n + 1
          ELSE v.tombs[k]
    BY DEF ApplyEntry, ApplyTombs
  <1>2. TombsStanding(l, k, n + 1) =
          IF TableOf[k] \in e.drops THEN {}
          ELSE old \cup (IF k \in e.tombs THEN {n + 1} ELSE {})
    BY TombsStep
  <1>3. old \subseteq 1 .. n /\ v.tombs[k] \in Nat
    BY DEF TombsStanding, View
  <1>4. FirstOf(v.tombs[k], old)
    OBVIOUS
  <1>. HIDE DEF e, old
  <1>5. CASE TableOf[k] \in e.drops
    BY <1>1, <1>2, <1>5 DEF FirstOf, e
  <1>6. CASE TableOf[k] \notin e.drops /\ k \in e.tombs
    <2>1. TombsStanding(l, k, n + 1) = old \cup {n + 1}
      BY <1>2, <1>6
    <2>2. CASE old = {}
      <3>1. v.tombs[k] = 0
        BY <1>4, <2>2 DEF FirstOf
      <3>2. ApplyEntry(v, e).tombs[k] = n + 1
        BY <1>1, <1>6, <3>1
      <3>. QED  BY <2>1, <2>2, <3>2, SMTT(20) DEF FirstOf, e
    <2>3. CASE old # {}
      <3>1. v.tombs[k] \in old /\ \A i \in old : v.tombs[k] <= i
        BY <1>4, <2>3 DEF FirstOf
      <3>2. ApplyEntry(v, e).tombs[k] = v.tombs[k] /\ v.tombs[k] <= n + 1
        BY <1>1, <1>3, <1>6, <3>1, SMTT(20)
      <3>. QED  BY <2>1, <3>1, <3>2 DEF FirstOf, e
    <2>. QED  BY <2>2, <2>3
  <1>7. CASE TableOf[k] \notin e.drops /\ k \notin e.tombs
    BY <1>1, <1>2, <1>3, <1>4, <1>7 DEF FirstOf, e
  <1>. QED  BY <1>5, <1>6, <1>7
-----------------------------------------------------------------------------
(* Declared schemas *)

\* The entries that declare a schema for the table and that stand after n
\* entries, as SchemasAreReplay counts them.
DeclsStanding(l, t, n) ==
    {i \in 1 .. n : l[i].decl[t] # NoSchema /\ ~DroppedIn(l, t, i, n)}

\* s is what the last of the entries in set declares, NoSchema if none does.
LastOf(s, l, t, set) ==
    IF set = {} THEN s = NoSchema
    ELSE \E i \in set : (\A j \in set : j <= i) /\ s = l[i].decl[t]

\* Entries after the first n do not change what the first n declare.
LEMMA DeclsPrefix ==
    ASSUME NEW l, NEW m, NEW n \in Nat, \A i \in 1 .. n : m[i] = l[i], NEW t, NEW s
    PROVE  /\ DeclsStanding(m, t, n) = DeclsStanding(l, t, n)
           /\ LastOf(s, m, t, DeclsStanding(m, t, n))
                <=> LastOf(s, l, t, DeclsStanding(l, t, n))
  <1>1. DeclsStanding(m, t, n) = DeclsStanding(l, t, n)
    BY SMTT(20) DEF DeclsStanding, DroppedIn
  <1>2. DeclsStanding(l, t, n) \subseteq 1 .. n
    BY DEF DeclsStanding
  <1>. QED  BY <1>1, <1>2 DEF LastOf

\* One more entry either drops the table, or adds itself to the entries that
\* declare it (apply_entry).
LEMMA DeclsStep ==
    ASSUME NEW l, NEW t, NEW n \in Nat
    PROVE  DeclsStanding(l, t, n + 1) =
             IF t \in l[n + 1].drops THEN {}
             ELSE DeclsStanding(l, t, n)
                  \cup (IF l[n + 1].decl[t] # NoSchema THEN {n + 1} ELSE {})
  <1>1. CASE t \in l[n + 1].drops
    BY <1>1, SMTT(20) DEF DeclsStanding, DroppedIn
  <1>2. CASE t \notin l[n + 1].drops
    <2>1. ASSUME NEW i \in 1 .. n
          PROVE  i \in DeclsStanding(l, t, n + 1) <=> i \in DeclsStanding(l, t, n)
      <3>1. i .. (n + 1) = (i .. n) \cup {n + 1}
        BY SMTT(20)
      <3>. QED  BY <1>2, <3>1, SMTT(20) DEF DeclsStanding, DroppedIn
    <2>2. n + 1 \in DeclsStanding(l, t, n + 1) <=> l[n + 1].decl[t] # NoSchema
      BY <1>2, SMTT(20) DEF DeclsStanding, DroppedIn
    <2>3. /\ DeclsStanding(l, t, n + 1) \subseteq (1 .. n) \cup {n + 1}
          /\ DeclsStanding(l, t, n) \subseteq 1 .. n
      BY SMTT(20) DEF DeclsStanding
    <2>. QED  BY <1>2, <2>1, <2>2, <2>3
  <1>. QED  BY <1>1, <1>2

\* apply_entry keeps the last declaration since the table was last dropped.
LEMMA DeclStep ==
    ASSUME NEW v \in View, NEW l, NEW n \in Nat, l[n + 1] \in Entry, NEW t \in Table,
           LastOf(v.decl[t], l, t, DeclsStanding(l, t, n))
    PROVE  LastOf(ApplyEntry(v, l[n + 1]).decl[t], l, t, DeclsStanding(l, t, n + 1))
  <1>. DEFINE e == l[n + 1]  old == DeclsStanding(l, t, n)  new == DeclsStanding(l, t, n + 1)
  <1>1. ApplyEntry(v, e).decl[t] =
          IF t \in e.drops THEN NoSchema
          ELSE IF e.decl[t] # NoSchema THEN e.decl[t]
          ELSE v.decl[t]
    BY DEF ApplyEntry, ApplySchemas
  <1>2. new = IF t \in e.drops THEN {}
              ELSE old \cup (IF e.decl[t] # NoSchema THEN {n + 1} ELSE {})
    BY DeclsStep
  <1>3. old \subseteq 1 .. n
    BY DEF DeclsStanding
  <1>4. LastOf(v.decl[t], l, t, old)
    OBVIOUS
  <1>. HIDE DEF old, new
  <1>5. CASE t \in e.drops
    BY <1>1, <1>2, <1>5 DEF LastOf, new
  <1>6. CASE t \notin e.drops /\ e.decl[t] # NoSchema
    <2>0. new = old \cup {n + 1}
      BY <1>2, <1>6
    <2>1. n + 1 \in new /\ \A j \in new : j <= n + 1
      BY <1>3, <2>0, SMTT(20)
    <2>. QED  BY <1>1, <1>6, <2>1 DEF LastOf, new
  <1>7. CASE t \notin e.drops /\ e.decl[t] = NoSchema
    <2>1. new = old
      BY <1>2, <1>7
    <2>. QED  BY <1>1, <1>4, <1>7, <2>1 DEF new
  <1>. QED  BY <1>5, <1>6, <1>7
-----------------------------------------------------------------------------
(* Views are replays in all three parts *)

\* Every step keeps the tombstones and the schemas of every replica the
\* replay of the log up to what it has folded (apply_entry).
LEMMA ReplayStep ==
    IInv /\ Numbered /\ TombstonesAreReplay /\ SchemasAreReplay /\ [Next]_vars
        => TombstonesAreReplay' /\ SchemasAreReplay'
  <1>. SUFFICES ASSUME IInv, Numbered, TombstonesAreReplay, SchemasAreReplay, [Next]_vars,
                       NEW r \in Replica
                PROVE  /\ \A k \in Tombstone :
                             FirstOf(view'[r].tombs[k], TombsStanding(log', k, applied'[r]))
                       /\ \A t \in Table :
                             LastOf(view'[r].decl[t], log', t, DeclsStanding(log', t, applied'[r]))
    BY DEF TombstonesAreReplay, SchemasAreReplay, FirstOf, LastOf, DeclsStanding
  <1>0. /\ Len(log) \in Nat /\ applied[r] \in Nat /\ applied[r] <= Len(log)
        /\ \A i \in 1 .. Len(log) : log'[i] = log[i]
    <2>1. /\ head[r] \in Nat /\ applied[r] \in Nat /\ upto[r] \in Nat
          /\ upto[r] <= Len(log) /\ pc[r] \in Phase
      BY DEF IInv, TypeOK, Bounds
    <2>. QED  BY <2>1, LenStep, SMTT(20) DEF IInv, Folded, Phase
  <1>1. /\ \A k \in Tombstone : FirstOf(view[r].tombs[k], TombsStanding(log, k, applied[r]))
        /\ \A t \in Table :
              LastOf(view[r].decl[t], log, t, DeclsStanding(log, t, applied[r]))
    BY DEF TombstonesAreReplay, SchemasAreReplay, FirstOf, LastOf, DeclsStanding
  <1>2. CASE view'[r] = view[r] /\ applied'[r] = applied[r]
    <2>1. \A i \in 1 .. applied[r] : log'[i] = log[i]
      BY <1>0, SMTT(20)
    <2>2. \A k : TombsStanding(log', k, applied[r]) = TombsStanding(log, k, applied[r])
      BY <1>0, <2>1, TombsPrefix
    <2>3. \A t, s : LastOf(s, log', t, DeclsStanding(log', t, applied[r]))
                      <=> LastOf(s, log, t, DeclsStanding(log, t, applied[r]))
      BY <1>0, <2>1, DeclsPrefix
    <2>. QED  BY <1>1, <1>2, <2>2, <2>3
  <1>3. CASE /\ applied[r] < Len(log)
             /\ view'[r] = ApplyEntry(view[r], log[applied[r] + 1])
             /\ applied'[r] = applied[r] + 1
             /\ log' = log
    <2>1. /\ log[applied[r] + 1] \in Entry /\ view[r] \in View
          /\ log[applied[r] + 1].seq = applied[r] + 1
      <3>1. applied[r] + 1 \in 1 .. Len(log)
        BY <1>0, <1>3, SMTT(20)
      <3>2. log \in Seq(Entry) /\ view[r] \in View
        BY DEF IInv, TypeOK
      <3>. QED  BY <3>1, <3>2, SMTT(20) DEF Numbered
    <2>2. \A k \in Tombstone :
            FirstOf(view'[r].tombs[k], TombsStanding(log', k, applied'[r]))
      BY <1>0, <1>1, <1>3, <2>1, TombStep
    <2>3. \A t \in Table :
            LastOf(view'[r].decl[t], log', t, DeclsStanding(log', t, applied'[r]))
      BY <1>0, <1>1, <1>3, <2>1, DeclStep
    <2>. QED  BY <2>2, <2>3
  <1>4. CASE view'[r] = EmptyView /\ applied'[r] = 0
    <2>1. \A k : TombsStanding(log', k, 0) = {} /\ DeclsStanding(log', k, 0) = {}
      BY SMTT(20) DEF TombsStanding, DeclsStanding
    <2>. QED  BY <1>4, <2>1, SMTT(20) DEF EmptyView, NoDecl, FirstOf, LastOf
  <1>. QED
    BY <1>2, <1>3, <1>4, ViewStep DEF IInv

\* For any number of nodes and commits: which delete predicates stand on a
\* node, and the created_seq of each, are what the entries it has folded say,
\* and its declared schemas are the last ones they declare.
LEMMA CatalogIsReplay == Spec => [](TombstonesAreReplay /\ SchemasAreReplay)
  <1>. DEFINE I == Numbered /\ TombstonesAreReplay /\ SchemasAreReplay
  <1>1. Init => I
    <2>. SUFFICES ASSUME Init PROVE I
      OBVIOUS
    <2>1. Numbered
      BY SMTT(20) DEF Init, Numbered
    <2>2. TombstonesAreReplay
      BY SMTT(20) DEF Init, TombstonesAreReplay, TombsStanding, EmptyView
    <2>3. SchemasAreReplay
      BY SMTT(20) DEF Init, SchemasAreReplay, EmptyView, NoDecl
    <2>. QED  BY <2>1, <2>2, <2>3
  <1>2. IInv /\ I /\ [Next]_vars => I'
    BY NumberedStep, ReplayStep DEF IInv
  <1>. QED
    BY <1>1, <1>2, Inductive, PTL DEF Spec

\* The delete predicates that stand on a node, and the created_seq of each,
\* are those of the entries it has folded (apply_entry).
THEOREM StandingTombstones == Spec => []TombstonesAreReplay
  BY CatalogIsReplay, PTL

\* The declared schemas of a node are the last ones the entries it has
\* folded declare (apply_entry).
THEOREM StandingSchemas == Spec => []SchemasAreReplay
  BY CatalogIsReplay, PTL

-----------------------------------------------------------------------------
(* What a commit returned, and what is in the log *)

\* The commits in flight and the commits in the log carry ids of their own.
\* A commit that holds the lock is pending; it has an entry in the log
\* exactly between its put and its return.
InLog(l, id) == \E i \in 1 .. Len(l) : l[i].id = id

Committing(r) == op[r].kind = "commit"

CommitIds ==
    /\ \A r \in Replica :
          /\ pc[r] \in {"check", "put", "publish", "apply"} => Committing(r)
          /\ Committing(r) =>
                /\ op[r].id \in 1 .. issued
                /\ result[op[r].id] = "pending"
                /\ pc[r] \in {"publish", "apply"} <=> InLog(log, op[r].id)
          /\ \A q \in Replica : q # r /\ Committing(r) /\ Committing(q) => op[q].id # op[r].id
    /\ \A i \in 1 .. Len(log) : log[i].id \in 1 .. issued
    /\ \A i, j \in 1 .. Len(log) : log[i].id = log[j].id => i = j
    /\ \A id \in 1 .. MaxOps :
          /\ id > issued => result[id] = "none"
          /\ result[id] = "ok" => InLog(log, id)
          /\ result[id] \in {"stale", "busy"} => ~InLog(log, id)

\* What a step does to the commits: nothing but move within a phase, start a
\* catch-up, begin a commit, land an entry, or end a call with an outcome.
CommitStep(r) ==
    \/ /\ UNCHANGED <<op, result, issued, log>>
       /\ \E x \in Phase : /\ pc' = [pc EXCEPT ![r] = x]
                           /\ x \in {"publish", "apply"} <=> pc[r] \in {"publish", "apply"}
                           /\ x \in {"check", "put", "publish", "apply"} => Committing(r)
    \/ /\ UNCHANGED <<result, issued, log>>
       /\ pc' = [pc EXCEPT ![r] = "list"]
       /\ \E k \in {"load", "catch_up"} : op' = [op EXCEPT ![r] = Task(k)]
    \/ /\ issued < MaxOps /\ issued' = issued + 1
       /\ result' = [result EXCEPT ![issued + 1] = "pending"]
       /\ pc' = [pc EXCEPT ![r] = "check"]
       /\ \E o \in Op : o.kind = "commit" /\ o.id = issued + 1 /\ op' = [op EXCEPT ![r] = o]
       /\ UNCHANGED log
    \/ /\ pc[r] = "put" /\ pc' = [pc EXCEPT ![r] = "publish"]
       /\ log' = Append(log, EntryOf(r, head[r] + 1))
       /\ UNCHANGED <<op, result, issued>>
    \/ /\ op' = [op EXCEPT ![r] = NoOp]
       /\ \E x \in {"down", "idle"} : pc' = [pc EXCEPT ![r] = x]
       /\ \E out \in {"ok", "stale", "busy", "error", "crashed"} :
             /\ result' = IF Committing(r) THEN [result EXCEPT ![op[r].id] = out] ELSE result
             /\ out = "ok" => pc[r] = "apply" \/ ~Committing(r)
             /\ out \in {"stale", "busy"} => pc[r] = "check" /\ UNCHANGED log
       /\ UNCHANGED issued
       /\ \/ UNCHANGED log
          \/ pc[r] = "put" /\ log' = Append(log, EntryOf(r, head[r] + 1))

\* Every step of a replica is one of those (commit_guarded, catch_up, load).
LEMMA CommitStepOf ==
    ASSUME TypeOK, CommitIds, NEW r \in Replica,
           Load(r) \/ CatchUp(r) \/ Request(r) \/ Step(r) \/ PutError(r) \/ ListError(r)
           \/ Crash(r)
    PROVE  CommitStep(r)
  <1>0. /\ pc \in [Replica -> Phase] /\ op \in [Replica -> Op]
        /\ pc[r] \in {"check", "put", "publish", "apply"} => Committing(r)
    BY DEF TypeOK, CommitIds
  <1>1. CASE Load(r) \/ CatchUp(r)
    BY <1>1 DEF Load, CatchUp, CommitStep
  <1>2. CASE Request(r)
    <2>1. PICK a \in SUBSET Path, d \in SUBSET Path, k \in SUBSET Tombstone,
               s \in [Table -> Schema \cup {NoSchema}], t \in SUBSET Table, f \in BOOLEAN :
                  CommitGuarded(r, a, d, k, s, t, f)
      <3>1. NoDecl \in [Table -> Schema \cup {NoSchema}]
        BY DEF NoDecl
      <3>2. \A t \in Table, s \in Schema :
                [NoDecl EXCEPT ![t] = s] \in [Table -> Schema \cup {NoSchema}]
        BY <3>1
      <3>3. CASE Commit(r) \/ CommitReplace(r)
        BY <3>1, <3>3, CatalogAssumption DEF Commit, CommitReplace
      <3>4. CASE CommitTombstone(r)
        BY <3>1, <3>4 DEF CommitTombstone
      <3>5. CASE CommitSchema(r)
        BY <3>2, <3>5 DEF CommitSchema
      <3>6. CASE CommitDrop(r)
        BY <3>1, <3>6 DEF CommitDrop
      <3>. QED  BY <1>2, <3>3, <3>4, <3>5, <3>6 DEF Request
    <2>. DEFINE o == [kind |-> "commit", id |-> issued + 1, add |-> a, remove |-> d,
                      tombs |-> k, decl |-> s, drops |-> t, fenced |-> f]
    <2>2. o \in Op
      BY <2>1, CatalogAssumption, SMTT(20) DEF CommitGuarded, TypeOK, Op
    <2>3. o.kind = "commit" /\ o.id = issued + 1
      OBVIOUS
    <2>4. /\ issued < MaxOps /\ issued' = issued + 1
          /\ result' = [result EXCEPT ![issued + 1] = "pending"]
          /\ pc' = [pc EXCEPT ![r] = "check"] /\ op' = [op EXCEPT ![r] = o]
          /\ UNCHANGED log
      BY <2>1 DEF CommitGuarded
    <2>. HIDE DEF o
    <2>. QED  BY <2>2, <2>3, <2>4 DEF CommitStep
  <1>3. CASE CheckFence(r) \/ LoseCas(r) \/ PublishHead(r) \/ ListManifest(r)
    BY <1>0, <1>3 DEF CheckFence, LoseCas, PublishHead, ListManifest, CommitStep, Phase
  <1>4. CASE FoldEntry(r)
    <2>1. pc' = [pc EXCEPT ![r] = pc[r]]
      BY <1>0, <1>4 DEF FoldEntry
    <2>. QED  BY <1>0, <1>4, <2>1 DEF FoldEntry, CommitStep
  <1>5. CASE WinCas(r)
    BY <1>5 DEF WinCas, CommitStep
  <1>6. ASSUME NEW out \in {"ok", "stale", "busy", "error"}, Return(r, out), UNCHANGED issued,
               out = "ok" => pc[r] = "apply" \/ ~Committing(r),
               out \in {"stale", "busy"} => pc[r] = "check" /\ UNCHANGED log,
               \/ UNCHANGED log
               \/ pc[r] = "put" /\ log' = Append(log, EntryOf(r, head[r] + 1))
        PROVE  CommitStep(r)
    BY <1>6 DEF Return, CommitStep, Committing
  <1>7. CASE RefuseStale(r)
    BY <1>6, <1>7 DEF RefuseStale
  <1>8. CASE GiveUp(r)
    BY <1>6, <1>8 DEF GiveUp
  <1>9. CASE ApplyOwn(r)
    BY <1>6, <1>9 DEF ApplyOwn
  <1>10. CASE ListRefused(r) \/ ListError(r)
    BY <1>6, <1>10 DEF ListRefused, ListError
  <1>11. CASE PutError(r)
    BY <1>6, <1>11 DEF PutError
  <1>12. CASE StoreHead(r)
    <2>1. CASE op[r].kind # "commit"
      BY <1>6, <1>12, <2>1 DEF StoreHead, Committing
    <2>2. CASE op[r].kind = "commit"
      BY <1>0, <1>12, <2>2 DEF StoreHead, Committing, CommitStep, Phase
    <2>. QED  BY <2>1, <2>2
  <1>13. CASE Crash(r)
    BY <1>13 DEF Crash, CommitStep, Committing
  <1>. QED
    BY <1>1, <1>2, <1>3, <1>4, <1>5, <1>7, <1>8, <1>9, <1>10, <1>11, <1>12, <1>13 DEF Step

\* Each of those steps keeps the ids and outcomes of commits in order.
LEMMA CommitIdsStep ==
    ASSUME TypeOK, CommitIds, NEW r \in Replica, CommitStep(r)
    PROVE  CommitIds'
  <1>0. /\ pc \in [Replica -> Phase] /\ op \in [Replica -> Op] /\ issued \in 0 .. MaxOps
        /\ result \in [1 .. MaxOps -> Outcome] /\ MaxOps \in Nat
        /\ log \in Seq(Entry) /\ Len(log) \in Nat
    BY CatalogAssumption, SMTT(20) DEF TypeOK
  <1>1. ASSUME UNCHANGED <<op, result, issued, log>>,
               NEW x \in Phase, pc' = [pc EXCEPT ![r] = x],
               x \in {"publish", "apply"} <=> pc[r] \in {"publish", "apply"},
               x \in {"check", "put", "publish", "apply"} => Committing(r)
        PROVE  CommitIds'
    <2>1. /\ op' = op /\ result' = result /\ issued' = issued /\ log' = log
          /\ pc'[r] = x /\ \A q \in Replica : q # r => pc'[q] = pc[q]
      BY <1>0, <1>1
    <2>2. \A q \in Replica :
              /\ pc'[q] \in {"check", "put", "publish", "apply"} => Committing(q)
              /\ pc'[q] \in {"publish", "apply"} <=> pc[q] \in {"publish", "apply"}
      BY <1>1, <2>1, SMTT(20) DEF CommitIds
    <2>3. \A q \in Replica : Committing(q)' <=> Committing(q)
      BY <2>1 DEF Committing
    <2>. QED  BY <2>1, <2>2, <2>3, SMTT(20) DEF CommitIds
  <1>2. ASSUME UNCHANGED <<result, issued, log>>, pc' = [pc EXCEPT ![r] = "list"],
               NEW k \in {"load", "catch_up"}, op' = [op EXCEPT ![r] = Task(k)]
        PROVE  CommitIds'
    <2>1. ~Committing(r)'
      BY <1>0, <1>2 DEF Committing, Task
    <2>2. \A q \in Replica : q # r => op'[q] = op[q] /\ pc'[q] = pc[q]
      BY <1>0, <1>2
    <2>3. pc'[r] = "list" /\ result' = result /\ issued' = issued /\ log' = log
      BY <1>0, <1>2
    <2>4. \A q \in Replica : q # r => (Committing(q)' <=> Committing(q))
      BY <2>2 DEF Committing
    <2>5. \A q \in Replica : pc'[q] \in {"check", "put", "publish", "apply"} => Committing(q)'
      BY <2>2, <2>3, <2>4 DEF CommitIds
    <2>. QED  BY <2>1, <2>2, <2>3, <2>4, <2>5, SMTT(20) DEF CommitIds
  <1>3. ASSUME issued < MaxOps, issued' = issued + 1,
               result' = [result EXCEPT ![issued + 1] = "pending"],
               pc' = [pc EXCEPT ![r] = "check"],
               NEW o \in Op, o.kind = "commit", o.id = issued + 1,
               op' = [op EXCEPT ![r] = o], UNCHANGED log
        PROVE  CommitIds'
    <2>1. /\ op'[r].kind = "commit" /\ op'[r].id = issued + 1 /\ pc'[r] = "check"
          /\ \A q \in Replica : q # r => op'[q] = op[q] /\ pc'[q] = pc[q]
      BY <1>0, <1>3
    <2>2. /\ result'[issued + 1] = "pending"
          /\ \A id \in 1 .. MaxOps : id # issued + 1 => result'[id] = result[id]
          /\ issued \in Nat
      BY <1>0, <1>3, SMTT(20)
    <2>3. ~InLog(log, issued + 1)
      BY <1>0, SMTT(20) DEF CommitIds, InLog
    <2>4. \A id : InLog(log', id) <=> InLog(log, id)
      BY <1>3 DEF InLog
    <2>5. \A q \in Replica : q # r => (Committing(q)' <=> Committing(q))
      BY <2>1 DEF Committing
    <2>6. \A q \in Replica : q # r /\ Committing(q)' =>
              /\ op'[q].id \in 1 .. issued' /\ result'[op'[q].id] = "pending"
              /\ op'[q].id # issued + 1
              /\ pc'[q] \in {"publish", "apply"} <=> InLog(log', op'[q].id)
      BY <1>0, <1>3, <2>1, <2>2, <2>4, <2>5, SMTT(20) DEF CommitIds
    <2>7. \A q \in Replica : pc'[q] \in {"check", "put", "publish", "apply"} => Committing(q)'
      BY <2>1, <2>5 DEF CommitIds, Committing
    <2>8. Committing(r)' => /\ op'[r].id \in 1 .. issued' /\ result'[op'[r].id] = "pending"
                            /\ pc'[r] \in {"publish", "apply"} <=> InLog(log', op'[r].id)
      BY <1>0, <1>3, <2>1, <2>2, <2>3, <2>4, SMTT(20)
    <2>9. \A p, q \in Replica : q # p /\ Committing(p)' /\ Committing(q)' => op'[q].id # op'[p].id
      BY <2>1, <2>5, <2>6, SMTT(20) DEF CommitIds
    <2>10. /\ \A i \in 1 .. Len(log') : log'[i].id \in 1 .. issued'
           /\ \A i, j \in 1 .. Len(log') : log'[i].id = log'[j].id => i = j
      <3>1. /\ \A i \in 1 .. Len(log) : log[i].id \in 1 .. issued
            /\ \A i, j \in 1 .. Len(log) : log[i].id = log[j].id => i = j
        BY DEF CommitIds
      <3>2. \A id \in 1 .. issued : id \in 1 .. (issued + 1)
        BY <2>2, SMTT(20)
      <3>. QED  BY <1>3, <3>1, <3>2
    <2>11. \A id \in 1 .. MaxOps :
              /\ id > issued' => result'[id] = "none"
              /\ result'[id] = "ok" => InLog(log', id)
              /\ result'[id] \in {"stale", "busy"} => ~InLog(log', id)
      BY <1>0, <1>3, <2>2, <2>4, SMTT(20) DEF CommitIds
    <2>. QED  BY <2>6, <2>7, <2>8, <2>9, <2>10, <2>11, SMTT(20) DEF CommitIds
  <1>4. ASSUME pc[r] = "put", log' = Append(log, EntryOf(r, head[r] + 1))
        PROVE  /\ \A id : InLog(log', id) <=> InLog(log, id) \/ id = op[r].id
               /\ Committing(r) /\ result[op[r].id] = "pending" /\ op[r].id \in 1 .. issued
               /\ \A i \in 1 .. Len(log') : log'[i].id \in 1 .. issued
               /\ \A i, j \in 1 .. Len(log') : log'[i].id = log'[j].id => i = j
    <2>1. /\ Len(log') = Len(log) + 1
          /\ \A i \in 1 .. Len(log) : log'[i] = log[i]
          /\ log'[Len(log) + 1] = EntryOf(r, head[r] + 1)
      BY <1>0, <1>4, EntryOfType, SMTT(20) DEF TypeOK
    <2>2. log'[Len(log) + 1].id = op[r].id
      BY <2>1, SMTT(20) DEF EntryOf
    <2>3. /\ Committing(r) /\ result[op[r].id] = "pending" /\ op[r].id \in 1 .. issued
          /\ ~InLog(log, op[r].id)
      BY <1>4 DEF CommitIds
    <2>4. \A i \in 1 .. Len(log') : i = Len(log) + 1 \/ i \in 1 .. Len(log)
      BY <1>0, <2>1, SMTT(20)
    <2>5. \A id : InLog(log', id) <=> InLog(log, id) \/ id = op[r].id
      BY <1>0, <2>1, <2>2, <2>4, SMTT(20) DEF InLog
    <2>6. \A i \in 1 .. Len(log') : log'[i].id \in 1 .. issued
      BY <2>1, <2>2, <2>3, <2>4 DEF CommitIds
    <2>7. \A i, j \in 1 .. Len(log') : log'[i].id = log'[j].id => i = j
      BY <2>1, <2>2, <2>3, <2>4, SMTT(20) DEF CommitIds, InLog
    <2>. QED  BY <2>3, <2>5, <2>6, <2>7
  <1>5. ASSUME pc[r] = "put", pc' = [pc EXCEPT ![r] = "publish"],
               log' = Append(log, EntryOf(r, head[r] + 1)), UNCHANGED <<op, result, issued>>
        PROVE  CommitIds'
    <2>1. /\ pc'[r] = "publish" /\ \A q \in Replica : q # r => pc'[q] = pc[q]
          /\ op' = op /\ result' = result /\ issued' = issued
      BY <1>0, <1>5
    <2>2. \A q \in Replica : Committing(q)' <=> Committing(q)
      BY <2>1 DEF Committing
    <2>3. /\ \A id : InLog(log', id) <=> InLog(log, id) \/ id = op[r].id
          /\ Committing(r) /\ result[op[r].id] = "pending" /\ op[r].id \in 1 .. issued
          /\ \A i \in 1 .. Len(log') : log'[i].id \in 1 .. issued
          /\ \A i, j \in 1 .. Len(log') : log'[i].id = log'[j].id => i = j
      BY <1>4, <1>5
    <2>4. \A q \in Replica : q # r /\ Committing(q) => op[q].id # op[r].id
      BY <2>3, SMTT(20) DEF CommitIds
    <2>5. \A q \in Replica : Committing(q) =>
              /\ op[q].id \in 1 .. issued /\ result[op[q].id] = "pending"
              /\ pc'[q] \in {"publish", "apply"} <=> InLog(log', op[q].id)
      BY <2>1, <2>3, <2>4 DEF CommitIds
    <2>6. \A q \in Replica : pc'[q] \in {"check", "put", "publish", "apply"} => Committing(q)
      BY <2>1, <2>3 DEF CommitIds
    <2>7. \A id \in 1 .. MaxOps :
              /\ id > issued => result[id] = "none"
              /\ result[id] = "ok" => InLog(log', id)
              /\ result[id] \in {"stale", "busy"} => ~InLog(log', id)
      BY <2>3 DEF CommitIds
    <2>. QED  BY <2>1, <2>2, <2>3, <2>5, <2>6, <2>7, SMTT(20) DEF CommitIds
  <1>6. ASSUME op' = [op EXCEPT ![r] = NoOp],
               NEW x \in {"down", "idle"}, pc' = [pc EXCEPT ![r] = x],
               NEW out \in {"ok", "stale", "busy", "error", "crashed"},
               result' = IF Committing(r) THEN [result EXCEPT ![op[r].id] = out] ELSE result,
               out = "ok" => pc[r] = "apply" \/ ~Committing(r),
               out \in {"stale", "busy"} => pc[r] = "check" /\ UNCHANGED log,
               UNCHANGED issued,
               \/ UNCHANGED log
               \/ pc[r] = "put" /\ log' = Append(log, EntryOf(r, head[r] + 1))
        PROVE  CommitIds'
    <2>1. /\ ~Committing(r)' /\ pc'[r] \in {"down", "idle"}
          /\ \A q \in Replica : q # r => op'[q] = op[q] /\ pc'[q] = pc[q]
      BY <1>0, <1>6 DEF Committing, NoOp, Task
    <2>2. \A q \in Replica : q # r => (Committing(q)' <=> Committing(q))
      BY <2>1 DEF Committing
    <2>3. \A id \in 1 .. MaxOps :
              result'[id] = IF Committing(r) /\ id = op[r].id THEN out ELSE result[id]
      BY <1>0, <1>6
    <2>4. /\ \A id : InLog(log, id) => InLog(log', id)
          /\ \A id : InLog(log', id) /\ ~InLog(log, id) => pc[r] = "put" /\ id = op[r].id
          /\ \A i \in 1 .. Len(log') : log'[i].id \in 1 .. issued
          /\ \A i, j \in 1 .. Len(log') : log'[i].id = log'[j].id => i = j
      <3>1. CASE UNCHANGED log
        BY <3>1 DEF CommitIds, InLog
      <3>2. CASE pc[r] = "put" /\ log' = Append(log, EntryOf(r, head[r] + 1))
        BY <1>4, <3>2
      <3>. QED  BY <1>6, <3>1, <3>2
    <2>5. Committing(r) => op[r].id \in 1 .. MaxOps /\ op[r].id <= issued
                           /\ (pc[r] \in {"publish", "apply"} <=> InLog(log, op[r].id))
      BY <1>0, SMTT(20) DEF CommitIds
    <2>6. \A q \in Replica : q # r /\ Committing(q) =>
              /\ op[q].id \in 1 .. issued /\ result'[op[q].id] = "pending"
              /\ pc[q] \in {"publish", "apply"} <=> InLog(log', op[q].id)
      <3>. SUFFICES ASSUME NEW q \in Replica, q # r, Committing(q)
                    PROVE  /\ op[q].id \in 1 .. issued /\ result'[op[q].id] = "pending"
                           /\ pc[q] \in {"publish", "apply"} <=> InLog(log', op[q].id)
        OBVIOUS
      <3>1. /\ op[q].id \in 1 .. issued /\ result[op[q].id] = "pending"
            /\ pc[q] \in {"publish", "apply"} <=> InLog(log, op[q].id)
        BY DEF CommitIds
      <3>2. Committing(r) => op[q].id # op[r].id
        BY SMTT(20) DEF CommitIds
      <3>3. pc[r] = "put" => Committing(r)
        BY DEF CommitIds
      <3>4. op[q].id \in 1 .. MaxOps
        BY <1>0, <3>1, SMTT(20)
      <3>. QED  BY <2>3, <2>4, <3>1, <3>2, <3>3, <3>4
    <2>7. \A id \in 1 .. MaxOps :
              /\ id > issued => result'[id] = "none"
              /\ result'[id] = "ok" => InLog(log', id)
              /\ result'[id] \in {"stale", "busy"} => ~InLog(log', id)
      <3>. SUFFICES ASSUME NEW id \in 1 .. MaxOps
                    PROVE  /\ id > issued => result'[id] = "none"
                           /\ result'[id] = "ok" => InLog(log', id)
                           /\ result'[id] \in {"stale", "busy"} => ~InLog(log', id)
        OBVIOUS
      <3>1. CASE Committing(r) /\ id = op[r].id
        <4>1. result'[id] = out /\ id <= issued
          BY <2>3, <2>5, <3>1
        <4>2. out = "ok" => InLog(log', id)
          BY <1>6, <2>4, <2>5, <3>1
        <4>3. out \in {"stale", "busy"} => ~InLog(log', id)
          BY <1>6, <2>4, <2>5, <3>1
        <4>. QED  BY <1>0, <4>1, <4>2, <4>3, SMTT(20)
      <3>2. CASE ~(Committing(r) /\ id = op[r].id)
        <4>1. result'[id] = result[id]
          BY <2>3, <3>2
        <4>2. pc[r] = "put" => Committing(r)
          BY DEF CommitIds
        <4>3. InLog(log', id) <=> InLog(log, id)
          BY <2>4, <3>2, <4>2
        <4>. QED  BY <4>1, <4>3 DEF CommitIds
      <3>. QED  BY <3>1, <3>2
    <2>8. \A p, q \in Replica : q # p /\ Committing(p)' /\ Committing(q)' => op'[q].id # op'[p].id
      BY <2>1, <2>2, SMTT(20) DEF CommitIds
    <2>9. \A q \in Replica : pc'[q] \in {"check", "put", "publish", "apply"} => Committing(q)'
      BY <2>1, <2>2 DEF CommitIds
    <2>. QED  BY <1>6, <2>1, <2>2, <2>4, <2>6, <2>7, <2>8, <2>9, SMTT(20) DEF CommitIds
  <1>. QED
    BY <1>1, <1>2, <1>3, <1>5, <1>6 DEF CommitStep

\* For any number of nodes, commits, retries, store errors and crashes: a
\* commit is in the log at most once, an Ok means exactly once, and a refusal
\* as stale or busy means never, so a losing compactor may delete its output
\* (commit_guarded).
THEOREM OutcomesMatchLog == Spec => []OutcomeMatchesLog
  <1>1. Init => CommitIds
    BY CatalogAssumption, SMTT(20) DEF Init, CommitIds, Committing, InLog, NoOp, Task
  <1>2. IInv /\ CommitIds /\ [Next]_vars => CommitIds'
    <2>. SUFFICES ASSUME IInv, CommitIds, [Next]_vars PROVE CommitIds'
      OBVIOUS
    <2>1. CASE UNCHANGED vars
      BY <2>1, SMTT(20) DEF vars, CommitIds, Committing, InLog
    <2>. QED  BY <2>1, CommitStepOf, CommitIdsStep DEF Next, IInv
  <1>3. CommitIds => OutcomeMatchesLog
    <2>. SUFFICES ASSUME CommitIds, NEW id \in 1 .. MaxOps
                  PROVE  LET at == {i \in 1 .. Len(log) : log[i].id = id}
                         IN  /\ Cardinality(at) <= 1
                             /\ result[id] = "ok" => at # {}
                             /\ result[id] \in {"stale", "busy"} => at = {}
      BY DEF OutcomeMatchesLog
    <2>. DEFINE at == {i \in 1 .. Len(log) : log[i].id = id}
    <2>1. \A i, j \in at : i = j
      BY SMTT(20) DEF CommitIds
    <2>2. InLog(log, id) <=> at # {}
      BY DEF InLog
    <2>3. Cardinality(at) <= 1
      <3>1. CASE at = {}
        <4>1. Cardinality({}) = 0
          BY FS_EmptySet
        <4>. HIDE DEF at
        <4>. QED  BY <3>1, <4>1, SMTT(20)
      <3>2. CASE at # {}
        <4>1. PICK i : at = {i}
          BY <2>1, <3>2
        <4>2. Cardinality(at) = 1
          BY <4>1, FS_Singleton
        <4>. HIDE DEF at
        <4>. QED  BY <4>2, SMTT(20)
      <3>. QED  BY <3>1, <3>2
    <2>. QED  BY <2>2, <2>3 DEF CommitIds
  <1>. QED
    BY <1>1, <1>2, <1>3, Inductive, PTL DEF Spec
=============================================================================
