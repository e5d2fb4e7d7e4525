--------------------------- MODULE CatalogProofs ---------------------------
(***************************************************************************)
(* Proofs about Catalog, for any number of replicas, files, tables and     *)
(* commits and any bound on retries and faults.                            *)
(***************************************************************************)
EXTENDS Catalog, FiniteSetTheorems, TLAPS

USE ZenonT(30)

-----------------------------------------------------------------------------
(* Type correctness *)

\* Folding an entry into a view gives a view (apply_entry).
LEMMA ApplyEntryType ==
    ASSUME NEW v \in View, NEW e \in Entry
    PROVE  ApplyEntry(v, e) \in View
  BY CatalogAssumption, SMTT(20) DEF View, Entry, ApplyEntry, ApplyFiles, ApplyTombs, ApplySchemas, NoDecl

\* The view Catalog::load starts from is a view.
LEMMA EmptyViewType == EmptyView \in View
  BY DEF EmptyView, View, NoDecl

\* A call without an entry of its own is an operation (load, catch_up).
LEMMA TaskType == \A k \in {"none", "load", "catch_up"} : Task(k) \in Op
  BY CatalogAssumption, SMTT(20) DEF Task, Op, NoDecl

\* What commit_guarded puts in the store is a manifest entry.
LEMMA EntryOfType ==
    ASSUME TypeOK, NEW r \in Replica, NEW seq \in Nat
    PROVE  EntryOf(r, seq) \in Entry
  <1>1. op[r] \in Op
    BY DEF TypeOK
  <1>2. Version[r] \in Nat
    BY CatalogAssumption
  <1>. QED
    BY <1>1, <1>2 DEF EntryOf, Entry, Op

\* Entering a commit with well-typed arguments.
LEMMA CommitGuardedType ==
    ASSUME TypeOK, NEW r \in Replica,
           NEW a \in SUBSET Path, NEW d \in SUBSET Path, NEW k \in SUBSET Tombstone,
           NEW s \in [Table -> Schema \cup {NoSchema}], NEW t \in SUBSET Table,
           NEW f \in BOOLEAN, CommitGuarded(r, a, d, k, s, t, f)
    PROVE  TypeOK'
  <1>1. [kind |-> "commit", id |-> issued + 1, add |-> a, remove |-> d,
         tombs |-> k, decl |-> s, drops |-> t, fenced |-> f] \in Op
    BY CatalogAssumption, SMTT(20) DEF CommitGuarded, TypeOK, Op
  <1>2. /\ op' \in [Replica -> Op]
        /\ pc' \in [Replica -> Phase]
    BY <1>1 DEF CommitGuarded, TypeOK, Phase
  <1>3. issued' \in 0 .. MaxOps /\ result' \in [1 .. MaxOps -> Outcome]
    BY CatalogAssumption, SMTT(20) DEF CommitGuarded, TypeOK, Outcome
  <1>. QED
    BY <1>2, <1>3 DEF CommitGuarded, TypeOK

\* Starting any catalog call keeps the types.
LEMMA RequestType ==
    ASSUME TypeOK, NEW r \in Replica, Request(r)
    PROVE  TypeOK'
  <1>. USE CatalogAssumption
  <1>1. NoDecl \in [Table -> Schema \cup {NoSchema}]
    BY DEF NoDecl
  <1>2. CASE Commit(r)
    BY <1>1, <1>2, CommitGuardedType DEF Commit
  <1>3. CASE CommitReplace(r)
    BY <1>1, <1>3, CommitGuardedType DEF CommitReplace
  <1>4. CASE CommitTombstone(r)
    BY <1>1, <1>4, CommitGuardedType DEF CommitTombstone
  <1>5. CASE CommitSchema(r)
    <2>1. PICK t \in Table, s \in Schema :
              CommitGuarded(r, {}, {}, {}, [NoDecl EXCEPT ![t] = s], {}, FALSE)
      BY <1>5 DEF CommitSchema
    <2>2. [NoDecl EXCEPT ![t] = s] \in [Table -> Schema \cup {NoSchema}]
      BY <1>1
    <2>. QED  BY <2>1, <2>2, CommitGuardedType
  <1>6. CASE CommitDrop(r)
    BY <1>1, <1>6, CommitGuardedType DEF CommitDrop
  <1>. QED
    BY <1>2, <1>3, <1>4, <1>5, <1>6 DEF Request

\* Handing the lock back.
LEMMA ReturnType ==
    ASSUME TypeOK, NEW r \in Replica,
           NEW out \in {"ok", "stale", "busy", "error"}, Return(r, out)
    PROVE  /\ pc' \in [Replica -> Phase]
           /\ op' \in [Replica -> Op]
           /\ attempts' \in [Replica -> 0 .. MaxAttempts]
           /\ upto' \in [Replica -> Nat]
           /\ result' \in [1 .. MaxOps -> Outcome]
  <1>1. op' \in [Replica -> Op]
    BY TaskType DEF Return, TypeOK, NoOp
  <1>2. attempts' \in [Replica -> 0 .. MaxAttempts] /\ upto' \in [Replica -> Nat]
    BY CatalogAssumption, SMTT(20) DEF Return, TypeOK
  <1>3. pc' \in [Replica -> Phase]
    BY DEF Return, TypeOK, Phase
  <1>4. result' \in [1 .. MaxOps -> Outcome]
    BY DEF Return, TypeOK, Outcome
  <1>. QED
    BY <1>1, <1>2, <1>3, <1>4

\* What typing needs besides types: a put is attempted only while attempts
\* are left, and a listing never reaches past the log.
Bounds ==
    \A r \in Replica :
        /\ pc[r] = "put" => attempts[r] < MaxAttempts
        /\ upto[r] <= Len(log)

\* Every step of every catalog call keeps the types.
LEMMA TypeStep == TypeOK /\ Bounds /\ [Next]_vars => TypeOK'
  <1>. SUFFICES ASSUME TypeOK, Bounds, [Next]_vars PROVE TypeOK'
    OBVIOUS
  <1>. USE DEF TypeOK
  <1>1. CASE UNCHANGED vars
    BY <1>1 DEF vars
  <1>2. ASSUME NEW r \in Replica, Load(r) PROVE TypeOK'
    BY <1>2, TaskType DEF Load, Phase
  <1>3. ASSUME NEW r \in Replica, CatchUp(r) PROVE TypeOK'
    BY <1>3, TaskType DEF CatchUp, Phase
  <1>4. ASSUME NEW r \in Replica, Request(r) PROVE TypeOK'
    BY <1>4, RequestType
  <1>5. ASSUME NEW r \in Replica, CheckFence(r) PROVE TypeOK'
    BY <1>5 DEF CheckFence, Phase
  <1>6. ASSUME NEW r \in Replica, RefuseStale(r) PROVE TypeOK'
    BY <1>6, ReturnType DEF RefuseStale
  <1>7. ASSUME NEW r \in Replica, GiveUp(r) PROVE TypeOK'
    BY <1>7, ReturnType DEF GiveUp
  <1>8. ASSUME NEW r \in Replica, WinCas(r) PROVE TypeOK'
    <2>1. EntryOf(r, head[r] + 1) \in Entry
      BY EntryOfType, SMTT(20)
    <2>. QED  BY <1>8, <2>1, SMTT(20) DEF WinCas, Phase
  <1>9. ASSUME NEW r \in Replica, LoseCas(r) PROVE TypeOK'
    <2>1. attempts[r] + 1 \in 0 .. MaxAttempts
      BY <1>9, CatalogAssumption, SMTT(20) DEF LoseCas, Bounds
    <2>. QED  BY <1>9, <2>1 DEF LoseCas, Phase
  <1>10. ASSUME NEW r \in Replica, PutError(r) PROVE TypeOK'
    <2>1. EntryOf(r, head[r] + 1) \in Entry
      BY EntryOfType, SMTT(20)
    <2>2. faults' \in 0 .. MaxFaults
      BY <1>10, CatalogAssumption, SMTT(20) DEF PutError, Fault
    <2>3. log' \in Seq(Entry)
      <3>1. CASE log' = log
        BY <3>1
      <3>2. CASE log' = Append(log, EntryOf(r, head[r] + 1))
        BY <2>1, <3>2, SMTT(20)
      <3>. QED  BY <1>10, <3>1, <3>2 DEF PutError
    <2>. QED  BY <1>10, <2>2, <2>3, ReturnType DEF PutError
  <1>11. ASSUME NEW r \in Replica, PublishHead(r) PROVE TypeOK'
    BY <1>11, SMTT(20) DEF PublishHead, Phase
  <1>12. ASSUME NEW r \in Replica, ApplyOwn(r) PROVE TypeOK'
    <2>1. ApplyEntry(view[r], EntryOf(r, head[r])) \in View
      BY EntryOfType, ApplyEntryType
    <2>. QED  BY <1>12, <2>1, ReturnType DEF ApplyOwn
  <1>13. ASSUME NEW r \in Replica, ListManifest(r) PROVE TypeOK'
    BY <1>13, SMTT(20) DEF ListManifest, Phase
  <1>14. ASSUME NEW r \in Replica, ListRefused(r) PROVE TypeOK'
    BY <1>14, ReturnType DEF ListRefused
  <1>15. ASSUME NEW r \in Replica, ListError(r) PROVE TypeOK'
    <2>1. faults' \in 0 .. MaxFaults
      BY <1>15, CatalogAssumption, SMTT(20) DEF ListError, Fault
    <2>. QED  BY <1>15, <2>1, ReturnType DEF ListError
  <1>16. ASSUME NEW r \in Replica, FoldEntry(r) PROVE TypeOK'
    <2>1. log[applied[r] + 1] \in Entry
      BY <1>16, SMTT(20) DEF FoldEntry, Bounds
    <2>2. ApplyEntry(view[r], log[applied[r] + 1]) \in View
      BY <2>1, ApplyEntryType
    <2>. QED  BY <1>16, <2>2, SMTT(20) DEF FoldEntry
  <1>17. ASSUME NEW r \in Replica, StoreHead(r) PROVE TypeOK'
    <2>1. CASE op[r].kind = "commit"
      <3>1. pc' \in [Replica -> Phase]
        BY <1>17, <2>1 DEF StoreHead, Phase
      <3>2. head' \in [Replica -> Nat]
        <4>1. head' = [head EXCEPT ![r] = upto[r]] /\ upto[r] \in Nat
          BY <1>17 DEF StoreHead
        <4>. QED  BY <4>1
      <3>3. upto' \in [Replica -> Nat]
        <4>1. upto' = [upto EXCEPT ![r] = 0]
          BY <1>17, <2>1 DEF StoreHead
        <4>. QED  BY <4>1
      <3>. QED  BY <1>17, <2>1, <3>1, <3>2, <3>3 DEF StoreHead
    <2>2. CASE op[r].kind # "commit"
      BY <1>17, <2>2, ReturnType DEF StoreHead
    <2>. QED  BY <2>1, <2>2
  <1>18. ASSUME NEW r \in Replica, Crash(r) PROVE TypeOK'
    <2>1. op' \in [Replica -> Op] /\ view' \in [Replica -> View]
      BY <1>18, EmptyViewType, TaskType DEF Crash, NoOp
    <2>2. faults' \in 0 .. MaxFaults /\ attempts' \in [Replica -> 0 .. MaxAttempts]
      BY <1>18, CatalogAssumption, SMTT(20) DEF Crash, Fault
    <2>3. result' \in [1 .. MaxOps -> Outcome]
      BY <1>18 DEF Crash, Outcome
    <2>. QED  BY <1>18, <2>1, <2>2, <2>3 DEF Crash, Phase
  <1>. QED
    BY <1>1, <1>2, <1>3, <1>4, <1>5, <1>6, <1>7, <1>8, <1>9, <1>10, <1>11,
       <1>12, <1>13, <1>14, <1>15, <1>16, <1>17, <1>18 DEF Next, Step

\* Beginning a commit touches nothing but the lock and the commit's record.
LEMMA RequestFrame ==
    ASSUME NEW r \in Replica, Request(r)
    PROVE  /\ pc[r] = "idle"
           /\ pc' = [pc EXCEPT ![r] = "check"]
           /\ UNCHANGED <<log, head, view, applied, attempts, upto, faults>>
  BY DEF Request, Commit, CommitReplace, CommitTombstone, CommitSchema, CommitDrop,
     CommitGuarded

\* The log only grows, by the entry of the replica whose conditional put it is.
LEMMA LogStep ==
    ASSUME TypeOK, [Next]_vars
    PROVE  \/ UNCHANGED log
           \/ \E r \in Replica : /\ pc[r] = "put"
                                 /\ head[r] = Len(log)
                                 /\ log' = Append(log, EntryOf(r, head[r] + 1))
                                 /\ WinCas(r) \/ PutError(r)
  <1>1. ASSUME NEW r \in Replica, WinCas(r)
        PROVE  /\ pc[r] = "put" /\ head[r] = Len(log)
               /\ log' = Append(log, EntryOf(r, head[r] + 1))
    BY <1>1, SMTT(20) DEF WinCas, TypeOK
  <1>2. ASSUME NEW r \in Replica, PutError(r)
        PROVE  \/ UNCHANGED log
               \/ /\ pc[r] = "put" /\ head[r] = Len(log)
                  /\ log' = Append(log, EntryOf(r, head[r] + 1))
    BY <1>2 DEF PutError
  <1>3. ASSUME NEW r \in Replica, Load(r) \/ CatchUp(r) \/ Request(r) \/ ListError(r)
                                  \/ Crash(r)
        PROVE  UNCHANGED log
    BY <1>3, RequestFrame DEF Load, CatchUp, ListError, Crash
  <1>4. ASSUME NEW r \in Replica, Step(r), ~WinCas(r)
        PROVE  UNCHANGED log
    BY <1>4 DEF Step, CheckFence, RefuseStale, GiveUp, LoseCas, PublishHead, ApplyOwn,
       ListManifest, ListRefused, FoldEntry, StoreHead
  <1>5. CASE UNCHANGED vars
    BY <1>5 DEF vars
  <1>. QED
    BY <1>1, <1>2, <1>3, <1>4, <1>5 DEF Next

\* No call ever looks past the end of the log: what catch_up_locked
\* listed, and the entry a commit is about to fold, are there.
LEMMA BoundsStep == TypeOK /\ Bounds /\ [Next]_vars => Bounds'
  <1>. SUFFICES ASSUME TypeOK, Bounds, [Next]_vars PROVE Bounds'
    OBVIOUS
  <1>1. /\ Len(log) \in Nat /\ Len(log)' \in Nat
        /\ Len(log) <= Len(log)'
    <2>1. ASSUME NEW r \in Replica, log' = Append(log, EntryOf(r, head[r] + 1))
          PROVE  Len(log)' = Len(log) + 1
      BY <2>1, EntryOfType, SMTT(20) DEF TypeOK
    <2>. QED  BY <2>1, LogStep, SMTT(20) DEF TypeOK
  <1>. SUFFICES ASSUME NEW r \in Replica
                PROVE  /\ upto'[r] \in {0, upto[r], Len(log)}
                       /\ pc'[r] = "put" => attempts'[r] < MaxAttempts
    <2>1. \A r \in Replica : upto[r] \in Nat /\ upto[r] <= Len(log)
      BY DEF TypeOK, Bounds
    <2>. QED  BY <1>1, <2>1, SMTT(20) DEF Bounds
  <1>. USE DEF TypeOK, Bounds
  <1>2. CASE UNCHANGED vars
    BY <1>2 DEF vars
  <1>3. ASSUME NEW q \in Replica, Load(q) \/ CatchUp(q) \/ Request(q)
        PROVE  /\ upto'[r] \in {0, upto[r], Len(log)}
               /\ pc'[r] = "put" => attempts'[r] < MaxAttempts
    BY <1>3, RequestFrame DEF Load, CatchUp
  <1>4. ASSUME NEW q \in Replica, CheckFence(q) \/ WinCas(q) \/ LoseCas(q)
                                  \/ PublishHead(q) \/ ListManifest(q) \/ FoldEntry(q)
        PROVE  /\ upto'[r] \in {0, upto[r], Len(log)}
               /\ pc'[r] = "put" => attempts'[r] < MaxAttempts
    BY <1>4 DEF CheckFence, WinCas, LoseCas, PublishHead, ListManifest, FoldEntry
  <1>5. ASSUME NEW q \in Replica, NEW out, Return(q, out)
        PROVE  /\ upto'[r] \in {0, upto[r], Len(log)}
               /\ pc'[r] = "put" => attempts'[r] < MaxAttempts
    BY <1>5 DEF Return
  <1>6. ASSUME NEW q \in Replica, RefuseStale(q) \/ GiveUp(q) \/ ApplyOwn(q)
                                  \/ ListRefused(q) \/ PutError(q) \/ ListError(q)
        PROVE  \E out : Return(q, out)
    BY <1>6 DEF RefuseStale, GiveUp, ApplyOwn, ListRefused, PutError, ListError
  <1>7. ASSUME NEW q \in Replica, StoreHead(q)
        PROVE  /\ upto'[r] \in {0, upto[r], Len(log)}
               /\ pc'[r] = "put" => attempts'[r] < MaxAttempts
    BY <1>5, <1>7 DEF StoreHead
  <1>8. ASSUME NEW q \in Replica, Crash(q)
        PROVE  /\ upto'[r] \in {0, upto[r], Len(log)}
               /\ pc'[r] = "put" => attempts'[r] < MaxAttempts
    BY <1>8 DEF Crash
  <1>. QED
    BY <1>2, <1>3, <1>4, <1>5, <1>6, <1>7, <1>8 DEF Next, Step

\* Every behaviour of the catalog is well typed: no counter, phase, view or
\* manifest entry ever leaves its domain (Catalog::load to commit_guarded).
THEOREM TypeCorrect == Spec => []TypeOK
  <1>1. Init => TypeOK /\ Bounds
    BY EmptyViewType, TaskType, CatalogAssumption, SMTT(20)
    DEF Init, TypeOK, Bounds, Phase, Outcome, NoOp
  <1>2. TypeOK /\ Bounds /\ [Next]_vars => (TypeOK /\ Bounds)'
    BY TypeStep, BoundsStep
  <1>. QED
    BY <1>1, <1>2, PTL DEF Spec
-----------------------------------------------------------------------------
(* Heads and folding *)

\* HeadIsFolded with what makes it inductive: where the fold has got to in
\* every phase of the lock's holder.
Folded ==
    \A r \in Replica :
        /\ head[r] <= Len(log)
        /\ pc[r] \in {"down", "idle", "check", "put", "list"} => applied[r] = head[r]
        /\ pc[r] = "publish" => applied[r] = head[r] /\ head[r] < Len(log)
        /\ pc[r] = "apply" => applied[r] + 1 = head[r]
        /\ pc[r] = "fold" => head[r] <= applied[r] /\ applied[r] <= upto[r]

\* The log only grows, and never changes what it holds (put_if_absent).
LEMMA LenStep ==
    ASSUME TypeOK, [Next]_vars
    PROVE  /\ Len(log) \in Nat /\ Len(log)' \in Nat
           /\ Len(log) <= Len(log)'
           /\ \A i \in 1 .. Len(log) : log'[i] = log[i]
  <1>1. ASSUME NEW r \in Replica, log' = Append(log, EntryOf(r, head[r] + 1))
        PROVE  Len(log)' = Len(log) + 1 /\ \A i \in 1 .. Len(log) : log'[i] = log[i]
    BY <1>1, EntryOfType, SMTT(20) DEF TypeOK
  <1>. QED
    BY <1>1, LogStep, SMTT(20) DEF TypeOK

\* Whoever is not in the middle of a fold has folded exactly what its
\* head says (seq.store and apply_entry in commit_guarded and catch_up).
LEMMA FoldedStep == TypeOK /\ Bounds /\ Folded /\ [Next]_vars => Folded'
  <1>. SUFFICES ASSUME TypeOK, Bounds, Folded, [Next]_vars, NEW r \in Replica
                PROVE  /\ head'[r] <= Len(log)'
                       /\ pc'[r] \in {"down", "idle", "check", "put", "list"}
                             => applied'[r] = head'[r]
                       /\ pc'[r] = "publish" => applied'[r] = head'[r] /\ head'[r] < Len(log)'
                       /\ pc'[r] = "apply" => applied'[r] + 1 = head'[r]
                       /\ pc'[r] = "fold" => head'[r] <= applied'[r] /\ applied'[r] <= upto'[r]
    BY DEF Folded
  <1>. DEFINE Goal == /\ head'[r] <= Len(log)'
                      /\ pc'[r] \in {"down", "idle", "check", "put", "list"}
                            => applied'[r] = head'[r]
                      /\ pc'[r] = "publish" => applied'[r] = head'[r] /\ head'[r] < Len(log)'
                      /\ pc'[r] = "apply" => applied'[r] + 1 = head'[r]
                      /\ pc'[r] = "fold" => head'[r] <= applied'[r] /\ applied'[r] <= upto'[r]
  <1>0. /\ Len(log) \in Nat /\ Len(log)' \in Nat /\ Len(log) <= Len(log)'
        /\ \A q \in Replica : /\ head[q] \in Nat /\ applied[q] \in Nat /\ upto[q] \in Nat
                              /\ upto[q] <= Len(log)
    BY LenStep DEF TypeOK, Bounds
  <1>. USE DEF TypeOK
  <1>1. CASE UNCHANGED vars
    BY <1>1, <1>0 DEF vars, Folded
  <1>2. ASSUME NEW q \in Replica, Load(q) \/ CatchUp(q) \/ Request(q) \/ CheckFence(q)
                                  \/ LoseCas(q)
        PROVE  Goal
    BY <1>2, <1>0, RequestFrame DEF Folded, Load, CatchUp, CheckFence, LoseCas
  <1>3. ASSUME NEW q \in Replica, WinCas(q)
        PROVE  Goal
    <2>1. head[q] < Len(log)'
      BY <1>3, <1>0, EntryOfType, SMTT(20) DEF WinCas
    <2>. QED  BY <1>3, <1>0, <2>1, SMTT(20) DEF Folded, WinCas
  <1>4. ASSUME NEW q \in Replica, PublishHead(q)
        PROVE  Goal
    BY <1>4, <1>0, SMTT(20) DEF Folded, PublishHead
  <1>5. ASSUME NEW q \in Replica, RefuseStale(q) \/ GiveUp(q) \/ ListRefused(q)
                                  \/ PutError(q) \/ ListError(q)
        PROVE  Goal
    BY <1>5, <1>0, SMTT(20) DEF Folded, RefuseStale, GiveUp, ListRefused, PutError, ListError, Return
  <1>6. ASSUME NEW q \in Replica, ApplyOwn(q)
        PROVE  Goal
    BY <1>6, <1>0 DEF Folded, ApplyOwn, Return
  <1>7. ASSUME NEW q \in Replica, ListManifest(q)
        PROVE  Goal
    BY <1>7, <1>0, SMTT(20) DEF Folded, ListManifest
  <1>10. ASSUME NEW q \in Replica, FoldEntry(q)
        PROVE  Goal
    <2>1. /\ pc[q] = "fold" /\ applied[q] < upto[q]
          /\ applied' = [applied EXCEPT ![q] = applied[q] + 1]
          /\ UNCHANGED <<log, head, pc, upto>>
      BY <1>10 DEF FoldEntry
    <2>. QED  BY <1>0, <2>1, SMTT(20) DEF Folded
  <1>8. ASSUME NEW q \in Replica, StoreHead(q)
        PROVE  Goal
    <2>1. /\ applied[q] = upto[q] /\ head' = [head EXCEPT ![q] = upto[q]]
          /\ UNCHANGED <<log, applied>>
          /\ \E x \in {"check", "down", "idle"} : pc' = [pc EXCEPT ![q] = x]
          /\ upto' = [upto EXCEPT ![q] = 0]
      BY <1>8 DEF StoreHead, Return
    <2>. QED  BY <1>0, <2>1 DEF Folded
  <1>9. ASSUME NEW q \in Replica, Crash(q)
        PROVE  Goal
    <2>1. /\ head' = [head EXCEPT ![q] = 0] /\ applied' = [applied EXCEPT ![q] = 0]
          /\ pc' = [pc EXCEPT ![q] = "down"] /\ upto' = [upto EXCEPT ![q] = 0]
          /\ UNCHANGED log
      BY <1>9 DEF Crash
    <2>. QED  BY <1>0, <2>1, SMTT(20) DEF Folded
  <1>. QED
    BY <1>1, <1>2, <1>3, <1>4, <1>5, <1>6, <1>7, <1>8, <1>9, <1>10 DEF Next, Step
-----------------------------------------------------------------------------
(* What one more entry does to the meaning of a log *)

\* Entries after the first n do not change what the first n mean.
LEMMA PrefixMeaning ==
    ASSUME NEW l, NEW m, NEW n \in Nat, \A i \in 1 .. n : m[i] = l[i], NEW p
    PROVE  AddsStanding(m, p, n) = AddsStanding(l, p, n)
  BY SMTT(20) DEF AddsStanding, DroppedIn

\* What one more entry does to the additions of a path that stand: the
\* recurrence that apply_entry computes.
LEMMA AddsStep ==
    ASSUME NEW l, NEW p, NEW n \in Nat
    PROVE  AddsStanding(l, p, n + 1) =
             IF TableOf[p] \in l[n + 1].drops THEN {}
             ELSE (IF p \in l[n + 1].remove THEN {} ELSE AddsStanding(l, p, n))
                  \cup (IF p \in l[n + 1].add THEN {n + 1} ELSE {})
  <1>1. CASE TableOf[p] \in l[n + 1].drops
    BY <1>1, SMTT(20) DEF AddsStanding, DroppedIn
  <1>2. CASE TableOf[p] \notin l[n + 1].drops
    <2>1. ASSUME NEW i \in 1 .. n
          PROVE  i \in AddsStanding(l, p, n + 1)
                   <=> p \notin l[n + 1].remove /\ i \in AddsStanding(l, p, n)
      <3>1. (i + 1) .. (n + 1) = ((i + 1) .. n) \cup {n + 1}
        BY SMTT(20)
      <3>2. i .. (n + 1) = (i .. n) \cup {n + 1}
        BY SMTT(20)
      <3>. QED  BY <1>2, <3>1, <3>2, SMTT(20) DEF AddsStanding, DroppedIn
    <2>2. n + 1 \in AddsStanding(l, p, n + 1) <=> p \in l[n + 1].add
      BY <1>2, SMTT(20) DEF AddsStanding, DroppedIn
    <2>3. /\ AddsStanding(l, p, n + 1) \subseteq (1 .. n) \cup {n + 1}
          /\ AddsStanding(l, p, n) \subseteq 1 .. n
      BY SMTT(20) DEF AddsStanding
    <2>. QED  BY <1>2, <2>1, <2>2, <2>3
  <1>. QED  BY <1>1, <1>2

\* The additions of a path that stand are finitely many, so the copies of
\* it that apply_entry pushes can be counted.
LEMMA AddsFinite ==
    ASSUME NEW l, NEW p, NEW n \in Nat
    PROVE  IsFiniteSet(AddsStanding(l, p, n)) /\ Cardinality(AddsStanding(l, p, n)) \in Nat
  <1>1. IsFiniteSet(1 .. n)
    BY FS_Interval, SMTT(20)
  <1>2. AddsStanding(l, p, n) \subseteq 1 .. n
    BY DEF AddsStanding
  <1>. QED  BY <1>1, <1>2, FS_Subset, FS_CardinalityType

\* apply_entry on the copies of a path does what AddsStanding says of the
\* entry: the heart of the proof that a view is a replay.
LEMMA CopiesStep ==
    ASSUME NEW v \in View, NEW l, NEW n \in Nat, l[n + 1] \in Entry, NEW p \in Path,
           v.copies[p] = Cardinality(AddsStanding(l, p, n))
    PROVE  ApplyEntry(v, l[n + 1]).copies[p] = Cardinality(AddsStanding(l, p, n + 1))
  <1>. DEFINE e == l[n + 1]  old == AddsStanding(l, p, n)
  <1>0. n + 1 \notin old
    BY SMTT(20) DEF AddsStanding
  <1>1. IsFiniteSet(old) /\ Cardinality(old) \in Nat
    BY AddsFinite
  <1>2. Cardinality({}) = 0 /\ Cardinality({n + 1}) = 1
    BY FS_EmptySet, FS_Singleton
  <1>3. Cardinality(old \cup {n + 1}) = Cardinality(old) + 1
    BY <1>0, <1>1, FS_AddElement
  <1>4. ApplyEntry(v, e).copies[p] =
          IF TableOf[p] \in e.drops THEN 0
          ELSE (IF p \in e.remove THEN 0 ELSE v.copies[p]) + (IF p \in e.add THEN 1 ELSE 0)
    BY DEF ApplyEntry, ApplyFiles
  <1>5. AddsStanding(l, p, n + 1) =
          IF TableOf[p] \in e.drops THEN {}
          ELSE (IF p \in e.remove THEN {} ELSE old) \cup (IF p \in e.add THEN {n + 1} ELSE {})
    BY AddsStep
  <1>. HIDE DEF e, old
  <1>6. CASE TableOf[p] \in e.drops
    BY <1>2, <1>4, <1>5, <1>6 DEF e
  <1>7. CASE TableOf[p] \notin e.drops /\ p \in e.remove
    <2>1. AddsStanding(l, p, n + 1) = IF p \in e.add THEN {n + 1} ELSE {}
      BY <1>5, <1>7
    <2>. QED  BY <1>2, <1>4, <1>7, <2>1, SMTT(20) DEF e
  <1>8. CASE TableOf[p] \notin e.drops /\ p \notin e.remove
    <2>1. AddsStanding(l, p, n + 1) = IF p \in e.add THEN old \cup {n + 1} ELSE old
      BY <1>5, <1>8
    <2>2. v.copies[p] = Cardinality(old)
      BY DEF old
    <2>. QED  BY <1>1, <1>3, <1>4, <1>8, <2>1, <2>2, SMTT(20) DEF e
  <1>. QED  BY <1>6, <1>7, <1>8
-----------------------------------------------------------------------------
(* The view is a replay, and the fence holds *)

\* Between the conditional put and the fold, the entry in the log at the
\* number just won is the one the commit is about to apply.
OwnEntryOf(r) ==
    /\ pc[r] = "publish" => log[head[r] + 1] = EntryOf(r, head[r] + 1)
    /\ pc[r] = "apply" => log[head[r]] = EntryOf(r, head[r])

OwnEntry == \A r \in Replica : OwnEntryOf(r)

\* A fenced commit that is about to put has its inputs in its own view.
FenceChecked ==
    \A r \in Replica :
        pc[r] = "put" /\ op[r].fenced => InputsPresent(view[r], op[r].remove)

\* The inductive invariant of the catalog.
IInv == /\ TypeOK /\ Bounds /\ Folded /\ OwnEntry
        /\ FilesAreReplay /\ FenceChecked /\ FenceSound

\* The entry a winner folds after put_if_absent is the one in the log under
\* its number (commit_guarded).
LEMMA OwnEntryStep == TypeOK /\ Bounds /\ Folded /\ OwnEntry /\ [Next]_vars => OwnEntry'
  <1>. SUFFICES ASSUME TypeOK, Bounds, Folded, OwnEntry, [Next]_vars, NEW r \in Replica
                PROVE  OwnEntryOf(r)'
    BY DEF OwnEntry
  <1>0. /\ Len(log) \in Nat /\ head[r] \in Nat /\ applied[r] \in Nat
        /\ \A i \in 1 .. Len(log) : log'[i] = log[i]
        /\ pc \in [Replica -> Phase] /\ op \in [Replica -> Op] /\ head \in [Replica -> Nat]
    BY LenStep DEF TypeOK
  \* A replica that did not move keeps the entry it had won.
  <1>1. ASSUME pc'[r] = pc[r], head'[r] = head[r], op'[r] = op[r] PROVE OwnEntryOf(r)'
    <2>2. pc[r] = "publish" => head[r] + 1 \in 1 .. Len(log)
      BY <1>0, SMTT(20) DEF Folded
    <2>3. pc[r] = "apply" => head[r] \in 1 .. Len(log)
      BY <1>0, SMTT(20) DEF Folded
    <2>. QED  BY <1>0, <1>1, <2>2, <2>3, SMTT(20) DEF OwnEntry, OwnEntryOf, EntryOf
  <1>2. ASSUME pc'[r] \notin {"publish", "apply"} PROVE OwnEntryOf(r)'
    BY <1>2 DEF OwnEntryOf
  <1>3. ASSUME WinCas(r) PROVE OwnEntryOf(r)'
    <2>1. head' = head /\ op' = op /\ pc'[r] = "publish" /\ head[r] + 1 = Len(log) + 1
      BY <1>0, <1>3 DEF WinCas
    <2>2. log'[head[r] + 1] = EntryOf(r, head[r] + 1)
      BY <1>0, <1>3, <2>1, EntryOfType, SMTT(20) DEF WinCas, TypeOK
    <2>. QED  BY <2>1, <2>2 DEF OwnEntryOf, EntryOf
  <1>4. ASSUME PublishHead(r) PROVE OwnEntryOf(r)'
    <2>1. /\ head'[r] = head[r] + 1 /\ pc'[r] = "apply" /\ pc[r] = "publish"
          /\ log' = log /\ op' = op
      BY <1>0, <1>4 DEF PublishHead
    <2>. QED  BY <2>1 DEF OwnEntry, OwnEntryOf, EntryOf
  <1>5. CASE UNCHANGED vars
    BY <1>1, <1>5 DEF vars
  <1>6. ASSUME NEW q \in Replica, q # r,
               Load(q) \/ CatchUp(q) \/ Request(q) \/ Step(q) \/ PutError(q)
               \/ ListError(q) \/ Crash(q)
        PROVE  pc'[r] = pc[r] /\ head'[r] = head[r] /\ op'[r] = op[r]
    <2>1. ASSUME Request(q) PROVE pc'[r] = pc[r] /\ head'[r] = head[r] /\ op'[r] = op[r]
      BY <1>0, <1>6, <2>1 DEF Request, Commit, CommitReplace, CommitTombstone,
         CommitSchema, CommitDrop, CommitGuarded
    <2>2. ASSUME Step(q) PROVE pc'[r] = pc[r] /\ head'[r] = head[r] /\ op'[r] = op[r]
      BY <1>0, <1>6, <2>2 DEF Step, CheckFence, RefuseStale, GiveUp, WinCas, LoseCas,
         PublishHead, ApplyOwn, ListManifest, ListRefused, FoldEntry, StoreHead, Return
    <2>. QED
      BY <1>0, <1>6, <2>1, <2>2 DEF Load, CatchUp, PutError, ListError, Crash, Return
  <1>7. ASSUME Load(r) \/ CatchUp(r) \/ Request(r) \/ CheckFence(r) \/ LoseCas(r)
               \/ ListManifest(r) \/ FoldEntry(r) \/ Crash(r)
        PROVE  pc'[r] \notin {"publish", "apply"}
    BY <1>0, <1>7, RequestFrame DEF Load, CatchUp, CheckFence, LoseCas, ListManifest,
       FoldEntry, Crash
  <1>8. ASSUME RefuseStale(r) \/ GiveUp(r) \/ ApplyOwn(r) \/ ListRefused(r)
               \/ StoreHead(r) \/ PutError(r) \/ ListError(r)
        PROVE  pc'[r] \notin {"publish", "apply"}
    BY <1>0, <1>8 DEF RefuseStale, GiveUp, ApplyOwn, ListRefused, StoreHead, PutError,
       ListError, Return
  <1>. QED
    BY <1>1, <1>2, <1>3, <1>4, <1>5, <1>6, <1>7, <1>8 DEF Next, Step

\* A view changes in two ways only: it folds the next entry of the log, or
\* the process starts again.
LEMMA ViewStep ==
    ASSUME TypeOK, Bounds, Folded, OwnEntry, [Next]_vars, NEW r \in Replica
    PROVE  \/ view'[r] = view[r] /\ applied'[r] = applied[r]
           \/ /\ applied[r] < Len(log)
              /\ view'[r] = ApplyEntry(view[r], log[applied[r] + 1])
              /\ applied'[r] = applied[r] + 1
              /\ log' = log
           \/ view'[r] = EmptyView /\ applied'[r] = 0
  <1>0. /\ Len(log) \in Nat /\ head[r] \in Nat /\ applied[r] \in Nat /\ upto[r] \in Nat
        /\ view \in [Replica -> View] /\ applied \in [Replica -> Nat]
        /\ upto[r] <= Len(log)
    BY LenStep DEF TypeOK, Bounds
  <1>1. CASE UNCHANGED <<view, applied>>
    BY <1>1
  <1>2. ASSUME NEW q \in Replica, ApplyOwn(q)
        PROVE  \/ view'[r] = view[r] /\ applied'[r] = applied[r]
               \/ /\ applied[r] < Len(log)
                  /\ view'[r] = ApplyEntry(view[r], log[applied[r] + 1])
                  /\ applied'[r] = applied[r] + 1
                  /\ log' = log
    <2>1. CASE q # r
      BY <1>0, <1>2, <2>1 DEF ApplyOwn
    <2>2. CASE q = r
      <3>1. applied[r] + 1 = head[r] /\ head[r] <= Len(log) /\ pc[r] = "apply"
        BY <1>2, <2>2 DEF ApplyOwn, Folded
      <3>2. log[head[r]] = EntryOf(r, head[r])
        BY <3>1 DEF OwnEntry, OwnEntryOf
      <3>. QED  BY <1>0, <1>2, <2>2, <3>1, <3>2, SMTT(20) DEF ApplyOwn
    <2>. QED  BY <2>1, <2>2
  <1>3. ASSUME NEW q \in Replica, FoldEntry(q)
        PROVE  \/ view'[r] = view[r] /\ applied'[r] = applied[r]
               \/ /\ applied[r] < Len(log)
                  /\ view'[r] = ApplyEntry(view[r], log[applied[r] + 1])
                  /\ applied'[r] = applied[r] + 1
                  /\ log' = log
    BY <1>0, <1>3, SMTT(20) DEF FoldEntry
  <1>4. ASSUME NEW q \in Replica, Crash(q)
        PROVE  \/ view'[r] = view[r] /\ applied'[r] = applied[r]
               \/ view'[r] = EmptyView /\ applied'[r] = 0
    BY <1>0, <1>4 DEF Crash
  <1>5. ASSUME NEW q \in Replica, Load(q) \/ CatchUp(q) \/ Request(q) \/ PutError(q)
                                  \/ ListError(q)
        PROVE  UNCHANGED <<view, applied>>
    BY <1>5, RequestFrame DEF Load, CatchUp, PutError, ListError
  <1>6. ASSUME NEW q \in Replica, Step(q), ~ApplyOwn(q), ~FoldEntry(q)
        PROVE  UNCHANGED <<view, applied>>
    BY <1>6 DEF Step, CheckFence, RefuseStale, GiveUp, WinCas, LoseCas, PublishHead,
       ListManifest, ListRefused, StoreHead
  <1>7. CASE UNCHANGED vars
    BY <1>7 DEF vars
  <1>. QED
    BY <1>1, <1>2, <1>3, <1>4, <1>5, <1>6, <1>7 DEF Next

\* Every step keeps the file list of every replica the replay of the log
\* up to what it has folded (apply_entry, commit_guarded, catch_up).
LEMMA FilesStep ==
    TypeOK /\ Bounds /\ Folded /\ OwnEntry /\ FilesAreReplay /\ [Next]_vars
        => FilesAreReplay'
  <1>. SUFFICES ASSUME TypeOK, Bounds, Folded, OwnEntry, FilesAreReplay, [Next]_vars,
                       NEW r \in Replica, NEW p \in Path
                PROVE  view'[r].copies[p] = Cardinality(AddsStanding(log', p, applied'[r]))
    BY DEF FilesAreReplay
  <1>0. /\ Len(log) \in Nat /\ applied[r] \in Nat /\ applied[r] <= Len(log)
        /\ \A i \in 1 .. Len(log) : log'[i] = log[i]
    <2>1. /\ head[r] \in Nat /\ applied[r] \in Nat /\ upto[r] \in Nat
          /\ upto[r] <= Len(log) /\ pc[r] \in Phase
      BY DEF TypeOK, Bounds
    <2>. QED  BY <2>1, LenStep, SMTT(20) DEF Folded, Phase
  <1>1. view[r].copies[p] = Cardinality(AddsStanding(log, p, applied[r]))
    BY DEF FilesAreReplay
  <1>2. CASE view'[r] = view[r] /\ applied'[r] = applied[r]
    <2>1. AddsStanding(log', p, applied[r]) = AddsStanding(log, p, applied[r])
      BY <1>0, PrefixMeaning, SMTT(20)
    <2>. QED  BY <1>1, <1>2, <2>1
  <1>3. CASE /\ applied[r] < Len(log)
             /\ view'[r] = ApplyEntry(view[r], log[applied[r] + 1])
             /\ applied'[r] = applied[r] + 1
             /\ log' = log
    <2>1. log[applied[r] + 1] \in Entry /\ view[r] \in View
      BY <1>0, <1>3, SMTT(20) DEF TypeOK
    <2>. QED  BY <1>0, <1>1, <1>3, <2>1, CopiesStep, SMTT(20)
  <1>4. CASE view'[r] = EmptyView /\ applied'[r] = 0
    <2>1. AddsStanding(log', p, 0) = {}
      BY SMTT(20) DEF AddsStanding
    <2>. QED  BY <1>4, <2>1, FS_EmptySet, SMTT(20) DEF EmptyView
  <1>. QED
    BY <1>2, <1>3, <1>4, ViewStep

\* Between the fence check of commit_guarded and its put, the view the check
\* read does not change: the commit lock keeps every other fold out.
LEMMA FenceCheckedStep == TypeOK /\ FenceChecked /\ [Next]_vars => FenceChecked'
  <1>. SUFFICES ASSUME TypeOK, FenceChecked, [Next]_vars, NEW r \in Replica,
                       pc'[r] = "put", op'[r].fenced
                PROVE  InputsPresent(view'[r], op'[r].remove)
    BY DEF FenceChecked
  <1>0. /\ pc \in [Replica -> Phase] /\ op \in [Replica -> Op]
        /\ view \in [Replica -> View]
    BY DEF TypeOK
  <1>1. CASE pc[r] = "put" /\ op'[r] = op[r] /\ view'[r] = view[r]
    BY <1>1 DEF FenceChecked
  <1>2. CASE CheckFence(r)
    BY <1>2 DEF CheckFence
  <1>3. CASE UNCHANGED vars
    BY <1>1, <1>3 DEF vars
  <1>4. ASSUME NEW q \in Replica, q # r,
               Load(q) \/ CatchUp(q) \/ Request(q) \/ Step(q) \/ PutError(q)
               \/ ListError(q) \/ Crash(q)
        PROVE  pc'[r] = pc[r] /\ view'[r] = view[r] /\ op'[r] = op[r]
    <2>1. ASSUME Request(q) PROVE pc'[r] = pc[r] /\ view'[r] = view[r] /\ op'[r] = op[r]
      BY <1>0, <1>4, <2>1 DEF Request, Commit, CommitReplace, CommitTombstone,
         CommitSchema, CommitDrop, CommitGuarded
    <2>2. ASSUME Step(q) PROVE pc'[r] = pc[r] /\ view'[r] = view[r] /\ op'[r] = op[r]
      BY <1>0, <1>4, <2>2 DEF Step, CheckFence, RefuseStale, GiveUp, WinCas, LoseCas,
         PublishHead, ApplyOwn, ListManifest, ListRefused, FoldEntry, StoreHead, Return
    <2>. QED
      BY <1>0, <1>4, <2>1, <2>2 DEF Load, CatchUp, PutError, ListError, Crash, Return
  <1>5. ASSUME Load(r) \/ CatchUp(r) \/ Request(r) \/ Step(r) \/ PutError(r)
               \/ ListError(r) \/ Crash(r)
        PROVE  CheckFence(r)
    <2>1. ~Request(r)
      BY <1>0, RequestFrame
    <2>. QED
      BY <1>0, <1>5, <2>1 DEF Step, RefuseStale, GiveUp, WinCas, LoseCas, PublishHead,
         ApplyOwn, ListManifest, ListRefused, FoldEntry, StoreHead, Return, Load,
         CatchUp, PutError, ListError, Crash
  <1>. QED
    BY <1>1, <1>2, <1>3, <1>4, <1>5 DEF Next

\* The entry a conditional put lands at the end of the log finds its inputs
\* live there when it is fenced: the view it was checked against is the whole
\* log, because the number it won is the next one.
LEMMA LandingIsFenced ==
    ASSUME TypeOK, Folded, FilesAreReplay, FenceChecked,
           NEW r \in Replica, pc[r] = "put", head[r] = Len(log),
           op[r].fenced, NEW p \in op[r].remove
    PROVE  LiveAt(log, p, Len(log))
  <1>1. applied[r] = Len(log) /\ Len(log) \in Nat
    BY DEF Folded, TypeOK
  <1>2. p \in Path
    BY DEF TypeOK, Op
  <1>3. view[r].copies[p] > 0
    BY DEF FenceChecked, InputsPresent
  <1>4. Cardinality(AddsStanding(log, p, Len(log))) > 0
    BY <1>1, <1>2, <1>3 DEF FilesAreReplay
  <1>5. Cardinality({}) = 0
    BY FS_EmptySet
  <1>6. ASSUME AddsStanding(log, p, Len(log)) = {} PROVE FALSE
    <2>1. Cardinality(AddsStanding(log, p, Len(log))) = 0
      BY <1>5, <1>6
    <2>. QED  BY <1>4, <2>1, SMTT(20)
  <1>. QED
    BY <1>6 DEF LiveAt

\* Every step keeps the fence: a replacement already in the log keeps its
\* inputs' standing, and one that lands now had it checked.
LEMMA FenceSoundStep ==
    TypeOK /\ Folded /\ FilesAreReplay /\ FenceChecked /\ FenceSound /\ [Next]_vars
        => FenceSound'
  <1>. SUFFICES ASSUME TypeOK, Folded, FilesAreReplay, FenceChecked, FenceSound,
                       [Next]_vars
                PROVE  FenceSound'
    OBVIOUS
  <1>1. CASE UNCHANGED log
    BY <1>1 DEF FenceSound
  <1>2. ASSUME NEW r \in Replica, pc[r] = "put", head[r] = Len(log),
               log' = Append(log, EntryOf(r, head[r] + 1))
        PROVE  FenceSound'
    <2>1. /\ Len(log) \in Nat /\ Len(log') = Len(log) + 1
          /\ \A i \in 1 .. Len(log) : log'[i] = log[i]
          /\ log'[Len(log) + 1] = EntryOf(r, head[r] + 1)
      BY <1>2, EntryOfType, SMTT(20) DEF TypeOK
    <2>. SUFFICES ASSUME NEW i \in 1 .. Len(log'), log'[i].fenced,
                         NEW p \in log'[i].remove
                  PROVE  LiveAt(log', p, i - 1)
      BY DEF FenceSound
    <2>2. i - 1 \in Nat /\ i - 1 <= Len(log)
      BY <2>1, SMTT(20)
    <2>3. LiveAt(log', p, i - 1) <=> LiveAt(log, p, i - 1)
      <3>0. PICK n \in Nat : n = i - 1
        BY <2>2
      <3>1. \A j \in 1 .. n : log'[j] = log[j]
        BY <2>1, <2>2, <3>0, SMTT(20)
      <3>2. AddsStanding(log', p, n) = AddsStanding(log, p, n)
        BY <3>1, PrefixMeaning
      <3>. QED  BY <3>0, <3>2 DEF LiveAt
    <2>4. CASE i <= Len(log)
      BY <2>1, <2>3, <2>4, SMTT(20) DEF FenceSound
    <2>5. CASE i = Len(log) + 1
      <3>1. op[r].fenced /\ p \in op[r].remove
        BY <2>1, <2>5, SMTT(20) DEF EntryOf
      <3>. QED  BY <1>2, <2>1, <2>3, <2>5, <3>1, LandingIsFenced, SMTT(20)
    <2>. QED  BY <2>1, <2>4, <2>5, SMTT(20)
  <1>. QED
    BY <1>1, <1>2, LogStep

\* The inductive invariant holds before any replica has loaded.
LEMMA InitIInv == Init => IInv
  <1>. SUFFICES ASSUME Init PROVE IInv
    OBVIOUS
  <1>1. TypeOK
    BY EmptyViewType, TaskType, CatalogAssumption, SMTT(20) DEF Init, TypeOK, Phase, Outcome, NoOp
  <1>2. FilesAreReplay
    <2>1. \A p : AddsStanding(<<>>, p, 0) = {}
      BY SMTT(20) DEF AddsStanding
    <2>. QED  BY <2>1, FS_EmptySet DEF Init, FilesAreReplay, EmptyView
  <1>3. Bounds /\ Folded /\ OwnEntry /\ FenceChecked /\ FenceSound
    BY SMTT(20) DEF Init, Bounds, Folded, OwnEntry, OwnEntryOf, FenceChecked, FenceSound
  <1>. QED
    BY <1>1, <1>2, <1>3 DEF IInv

\* Every step of every catalog call keeps the inductive invariant.
LEMMA IInvStep == IInv /\ [Next]_vars => IInv'
  BY TypeStep, BoundsStep, FoldedStep, OwnEntryStep, FilesStep, FenceCheckedStep,
     FenceSoundStep DEF IInv

\* The inductive invariant holds in every state of every behaviour.
THEOREM Inductive == Spec => []IInv
  BY InitIInv, IInvStep, PTL DEF Spec

\* For any number of nodes, files, tables, commits, retries, store errors and
\* crashes: each node's list of live files is exactly what the manifest
\* entries it has folded mean (apply_entry, commit_guarded, catch_up_locked).
THEOREM ViewsAreReplays == Spec => []FilesAreReplay
  BY Inductive, PTL DEF IInv

\* A compaction's replacement is in the log only if each file it removes was
\* live immediately before it (the fence of commit_replace).
THEOREM FenceHolds == Spec => []FenceSound
  BY Inductive, PTL DEF IInv

\* The published head never runs ahead of the log, and outside a fold it is
\* exactly what has been folded (Catalog::head as the querier reads it).
THEOREM HeadsAreFolded == Spec => []HeadIsFolded
  <1>1. IInv => HeadIsFolded
    BY DEF IInv, Folded, HeadIsFolded
  <1>. QED
    BY <1>1, Inductive, PTL
-----------------------------------------------------------------------------
(* The catalog implements the abstract manifest log *)

\* The abstract log and the catalog mean the same by a live file.
LEMMA AbstractLive ==
    \A l, p, n : Abstract!LiveAt(l, p, n) <=> LiveAt(l, p, n)
  BY DEF Abstract!LiveAt, LiveAt, Abstract!AddsStanding, AddsStanding,
     Abstract!DroppedIn, DroppedIn

\* Every step of a commit, a tail or a crash is a step of the abstract log
\* or leaves it alone (commit_guarded, catch_up_locked, load).
LEMMA AbstractStep == IInv /\ [Next]_vars => [Abstract!Next]_(Abstract!vars)
  <1>. SUFFICES ASSUME IInv, [Next]_vars PROVE [Abstract!Next]_(Abstract!vars)
    OBVIOUS
  <1>0. /\ Len(log) \in Nat
        /\ \A q \in Replica : head[q] \in Nat /\ upto[q] \in Nat /\ upto[q] <= Len(log)
    BY SMTT(20) DEF IInv, TypeOK, Bounds
  <1>1. ASSUME NEW r \in Replica, pc[r] = "put", head[r] = Len(log),
               log' = Append(log, EntryOf(r, head[r] + 1)), UNCHANGED head
        PROVE  Abstract!Land
    <2>1. /\ Len(log') = Len(log) + 1
          /\ \A i \in 1 .. Len(log) : log'[i] = log[i]
          /\ log'[Len(log) + 1] = EntryOf(r, head[r] + 1)
      BY <1>1, EntryOfType, SMTT(20) DEF IInv, TypeOK
    <2>2. op[r].fenced => \A p \in op[r].remove : LiveAt(log, p, Len(log))
      BY <1>1, LandingIsFenced DEF IInv
    <2>3. /\ log'[Len(log) + 1].fenced = op[r].fenced
          /\ log'[Len(log) + 1].remove = op[r].remove
      BY <2>1, SMTT(20) DEF EntryOf
    <2>4. op[r].fenced => \A p \in op[r].remove : Abstract!LiveAt(log, p, Len(log))
      BY <2>2, AbstractLive
    <2>. QED
      BY <1>1, <2>1, <2>3, <2>4 DEF Abstract!Land
  <1>2. ASSUME NEW r \in Replica, PublishHead(r)
        PROVE  Abstract!Follow(r)
    <2>1. head[r] + 1 \in head[r] .. Len(log)
      BY <1>0, <1>2, SMTT(20) DEF PublishHead, IInv, Folded
    <2>. QED  BY <1>2, <2>1 DEF PublishHead, Abstract!Follow
  <1>3. ASSUME NEW r \in Replica, StoreHead(r)
        PROVE  Abstract!Follow(r)
    <2>1. upto[r] \in head[r] .. Len(log)
      BY <1>0, <1>3, SMTT(20) DEF StoreHead, IInv, Folded, TypeOK
    <2>. QED  BY <1>3, <2>1 DEF StoreHead, Abstract!Follow
  <1>4. ASSUME NEW r \in Replica, Crash(r)
        PROVE  Abstract!Restart(r)
    BY <1>4 DEF Crash, Abstract!Restart
  <1>5. ASSUME NEW r \in Replica, Load(r) \/ CatchUp(r) \/ Request(r) \/ PutError(r)
                                  \/ ListError(r)
        PROVE  UNCHANGED head
    BY <1>5, RequestFrame DEF Load, CatchUp, PutError, ListError
  <1>6. ASSUME NEW r \in Replica, Step(r), ~PublishHead(r), ~StoreHead(r)
        PROVE  UNCHANGED head
    BY <1>6 DEF Step, CheckFence, RefuseStale, GiveUp, WinCas, LoseCas, ApplyOwn,
       ListManifest, ListRefused, FoldEntry
  <1>7. CASE UNCHANGED head
    <2>1. CASE UNCHANGED log
      BY <1>7, <2>1 DEF Abstract!vars
    <2>2. CASE ~UNCHANGED log
      <3>1. TypeOK
        BY DEF IInv
      <3>. QED  BY <1>1, <1>7, <2>2, <3>1, LogStep DEF Abstract!Next
    <2>. QED  BY <2>1, <2>2
  <1>. QED
    BY <1>2, <1>3, <1>4, <1>5, <1>6, <1>7 DEF Next, Abstract!Next, vars

\* The detailed catalog, with its retries, partial publication, store errors
\* and crashes, implements the abstract log: a commit takes effect in one
\* step, at the end, fenced, and a head only advances until a restart.
THEOREM Refinement == Spec => ImplementsManifestLog
  <1>1. Init => Abstract!Init
    BY DEF Init, Abstract!Init
  <1>. QED
    BY <1>1, AbstractStep, Inductive, PTL DEF Spec, ImplementsManifestLog, Abstract!Spec
=============================================================================
