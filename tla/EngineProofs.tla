---------------------------- MODULE EngineProofs ----------------------------
(***************************************************************************)
(* Proofs about Engine.  Types and OneLivePlace hold of every behaviour,   *)
(* with overlapping flushes and every failure.  The others hold of nodes   *)
(* whose flushes do not overlap, for as long as no put and no log          *)
(* operation has failed, through any number of crashes: the runs that      *)
(* violate AckedDurable show that neither restriction can be left out.     *)
(***************************************************************************)
EXTENDS Engine, TLAPS

USE ZenonT(30)

\* The write is in some generation of the log.
InLog(w) == \E g \in DOMAIN gens : w \in gens[g]

\* What holds in every behaviour.  Appends go to the last generation there
\* is, and the flush that will reclaim sealed an earlier one.
LogOrder ==
    /\ \A g \in DOMAIN gens : g <= active
    /\ \A f \in Thread : Flushing(f) => th[f].sealed < active

\* A write that has not been applied is in no buffer, one that has not been
\* sent not in the log either; one in between is in the active generation,
\* because the gate keeps it from being sealed; only sound writes are
\* acknowledged.
Unapplied ==
    \A w \in Write :
        /\ wpc[w] \in {"unsent", "new"} => ~InLog(w)
        /\ wpc[w] \in {"unsent", "new", "logged"} =>
              \A t \in Table : w \notin buffer[t] /\ w \notin hold[t]
        /\ wpc[w] = "logged" =>
              w \in gens[active] /\ \A g \in DOMAIN gens : w \in gens[g] => g = active
        /\ wpc[w] = "acked" => w \notin BadWrite

\* A stopped process has no memory and no thread.
Stopped ==
    ~up => /\ \A t \in Table : buffer[t] = {} /\ hold[t] = {}
           /\ \A w \in Write : wpc[w] # "logged"
           /\ \A f \in Thread : th[f].pc \in {"idle", "absent"}
           /\ query.pc = "idle"

QueryHasTable == query.pc # "idle" => query.table \in Table

Base == TypeOK /\ LogOrder /\ Unapplied /\ Stopped /\ QueryHasTable /\ OneLivePlace

\* No put and no operation on the log has failed so far.
NoFailure == storeFails = 0 /\ logFails = 0

\* One flush at a time, and none has a table that failed.
OneFlush ==
    /\ generation = active
    /\ \A f, h \in Thread : Flushing(f) /\ Flushing(h) => f = h
    /\ \A f \in Thread :
          /\ th[f].failed = {}
          /\ th[f].pc \in {"unhold", "reclaim"} => th[f].todo = {}
          /\ th[f].pc \in {"drop", "purgeHold", "purgeBuffer"} => th[f].target \in Table

\* The holding area has rows of the flush under way only.
HeldBySomeone ==
    \A t \in Table : \A w \in hold[t] :
        \E f \in Thread : /\ th[f].pc \in {"upload", "unhold"}
                          /\ t \in th[f].todo \cup th[f].done
                          /\ w \in th[f].snap[t]

\* Rows that the flush under way may let go of: what it will reclaim of the
\* log, and, after its commit, what it holds, is or will be in files.
FlushKeeps ==
    \A f \in Thread : \A t \in Table : \A w \in Acked(t) \ exempt[t] :
        /\ Flushing(f) /\ (\E g \in DOMAIN gens : g <= th[f].sealed /\ w \in gens[g])
              => \/ w \in files[t]
                 \/ /\ th[f].pc = "upload"
                    /\ t \in th[f].todo \cup th[f].done
                    /\ w \in th[f].snap[t]
        /\ th[f].pc = "unhold" /\ w \in hold[t] => w \in files[t]

\* Every other row in the log is in its buffer.
LogIsBuffered ==
    up => \A t \in Table : \A w \in Acked(t) \ exempt[t] : \A g \in DOMAIN gens :
              w \in gens[g] => \/ w \in buffer[t]
                               \/ \E f \in Thread : Flushing(f) /\ g <= th[f].sealed

\* The acknowledged row of w in table t is in no place it could come back from.
NoWayBack(w, t) ==
    /\ wpc[w] = "acked"
    /\ ~InLog(w) /\ w \notin buffer[t] /\ w \notin hold[t]
    /\ \A f \in Thread : th[f].pc = "upload" => w \notin th[f].snap[t]

\* How far a DROP TABLE has got with the rows it promised to remove.
DropProgress ==
    /\ \A f \in Thread : \A t \in Table : \A w \in th[f].before :
          t = th[f].target =>
             /\ Flushing(f) => /\ wpc[w] = "acked" /\ w \notin buffer[t]
                               /\ \A g \in DOMAIN gens : w \in gens[g] => g <= th[f].sealed
             /\ th[f].pc \in {"drop", "purgeHold", "purgeBuffer"} => NoWayBack(w, t)
             /\ th[f].pc \in {"purgeHold", "purgeBuffer"} => w \notin files[t]
    /\ \A t \in Table : \A w \in gone[t] : NoWayBack(w, t) /\ w \notin files[t]

\* A query that has read the live rows finds the rest in the catalog.
QueryCanFinish ==
    /\ query.pc # "idle" => query.want \subseteq Acked(query.table)
    /\ query.pc = "live" =>
          query.want \ exempt[query.table] \subseteq query.got \cup files[query.table]

Core == /\ OneFlush /\ HeldBySomeone /\ FlushKeeps /\ LogIsBuffered /\ DropProgress
        /\ QueryCanFinish /\ AckedDurable /\ AckedReadable /\ QuerySeesAcked

\* The inductive invariant.
IInv == Base /\ (NoFailure => Core)
-----------------------------------------------------------------------------
(* Types *)

\* The locals of a flush_all.
Locals == [pc : {"absent", "idle", "upload", "unhold", "reclaim", "drop",
                 "purgeHold", "purgeBuffer"},
           snap : [Table -> SUBSET Write], todo : SUBSET Table,
           done : SUBSET Table, failed : SUBSET Table,
           sealed : 0 .. MaxGen, target : Table \cup {None},
           before : SUBSET Write]

\* A table without rows, a thread that is idle and one that is not there
\* have their types.
LEMMA IdleType ==
    /\ NoRows \in [Table -> SUBSET Write]
    /\ Idle \in Locals /\ Absent \in Locals
    /\ Idle.pc = "idle" /\ Absent.pc = "absent"
    /\ Idle.failed = {} /\ Absent.failed = {}
  BY EngineAssumption, SMTT(20) DEF NoRows, Idle, Absent, Locals

\* A generation is in the log's domain exactly when its writes are logged.
LEMMA LoggedIs ==
    /\ \A w : w \in Logged <=> InLog(w)
    /\ \A w, t : w \in RowsOf(Logged, t) <=> InLog(w) /\ t \in TablesOf[w]
    /\ \A w, t : w \in RowsOf(Logged, t)' <=> InLog(w)' /\ t \in TablesOf[w]
  BY DEF Logged, InLog, RowsOf, Range

\* AckedDurable and AckedReadable, row by row.
LEMMA AckedAre ==
    /\ AckedDurable <=>
          \A t \in Table : \A w \in Acked(t) : w \notin exempt[t] => InLog(w) \/ w \in files[t]
    /\ AckedReadable <=>
          (up => \A t \in Table : \A w \in Acked(t) :
                    w \notin exempt[t] =>
                       w \in buffer[t] \/ w \in hold[t] \/ w \in files[t])
    /\ AckedDurable' <=>
          \A t \in Table : \A w \in Acked(t)' :
             w \notin exempt'[t] => InLog(w)' \/ w \in files'[t]
    /\ AckedReadable' <=>
          (up' => \A t \in Table : \A w \in Acked(t)' :
                     w \notin exempt'[t] =>
                        w \in buffer'[t] \/ w \in hold'[t] \/ w \in files'[t])
  <1>1. \A t \in Table : \A w \in Acked(t) : t \in TablesOf[w]
    BY DEF Acked
  <1>2. \A t \in Table : \A w \in Acked(t)' : t \in TablesOf[w]
    BY DEF Acked
  <1>3. AckedDurable <=>
          \A t \in Table : \A w \in Acked(t) : w \notin exempt[t] => InLog(w) \/ w \in files[t]
    BY <1>1, LoggedIs DEF AckedDurable, Durable
  <1>4. AckedDurable' <=>
          \A t \in Table : \A w \in Acked(t)' :
             w \notin exempt'[t] => InLog(w)' \/ w \in files'[t]
    BY <1>2, LoggedIs DEF AckedDurable, Durable
  <1>5. AckedReadable <=>
          (up => \A t \in Table : \A w \in Acked(t) :
                    w \notin exempt[t] =>
                       w \in buffer[t] \/ w \in hold[t] \/ w \in files[t])
    BY DEF AckedReadable, Readable
  <1>6. AckedReadable' <=>
          (up' => \A t \in Table : \A w \in Acked(t)' :
                     w \notin exempt'[t] =>
                        w \in buffer'[t] \/ w \in hold'[t] \/ w \in files'[t])
    BY DEF AckedReadable, Readable
  <1>. QED  BY <1>3, <1>4, <1>5, <1>6

\* The generation a restart appends to is the one that took appends before.
LEMMA LastGenIsActive == Base => LastGen = active
  <1>. SUFFICES ASSUME Base PROVE LastGen = active
    OBVIOUS
  <1>1. /\ active \in DOMAIN gens /\ \A h \in DOMAIN gens : h <= active
        /\ \A h \in DOMAIN gens : h \in Nat
    BY EngineAssumption, SMTT(20) DEF Base, LogOrder, TypeOK
  <1>. DEFINE IsLast(g) == g \in DOMAIN gens /\ \A h \in DOMAIN gens : h <= g
  <1>2. IsLast(active)
    BY <1>1
  <1>3. IsLast(CHOOSE g : IsLast(g))
    BY <1>2
  <1>4. LastGen = CHOOSE g : IsLast(g)
    BY DEF LastGen
  <1>. QED  BY <1>1, <1>2, <1>3, <1>4, SMTT(20)

\* What the steps of a thread do to its locals keeps their type.
LEMMA EnterType ==
    ASSUME Base, NEW f \in Thread, NEW target \in Table \cup {None},
           FlushBegin(f, target) \/ FlushNothing(f, target)
    PROVE  th' \in [Thread -> Locals]
  <1>0. /\ th \in [Thread -> Locals] /\ buffer \in [Table -> SUBSET Write]
        /\ generation \in 0 .. MaxGen
    BY DEF Base, TypeOK, Locals
  <1>1. Owned \in SUBSET Table /\ Promised(target) \in SUBSET Write
    BY DEF Owned, Promised, Acked
  <1>2. [Idle EXCEPT !.pc = "upload", !.snap = buffer, !.todo = Owned,
                     !.sealed = generation, !.target = target,
                     !.before = Promised(target)] \in Locals
    BY <1>0, <1>1, IdleType DEF Locals
  <1>3. [Idle EXCEPT !.pc = "drop", !.target = target, !.before = Promised(target)] \in Locals
    BY <1>1, IdleType DEF Locals
  <1>. QED  BY <1>0, <1>2, <1>3 DEF FlushBegin, FlushNothing

\* The same for the steps that follow.
LEMMA ThreadType ==
    ASSUME Base, NEW f \in Thread, FlushStep(f) \/ FlushFault(f)
    PROVE  th' \in [Thread -> Locals]
  <1>0. th \in [Thread -> Locals] /\ Idle \in Locals
    BY IdleType DEF Base, TypeOK, Locals
  <1>1. ASSUME NEW t \in Table, FlushOne(f, t) \/ FlushOneFails(f, t)
        PROVE  th' \in [Thread -> Locals]
    <2>1. /\ [th[f] EXCEPT !.todo = @ \ {t}, !.done = @ \cup {t}] \in Locals
          /\ [th[f] EXCEPT !.todo = @ \ {t}, !.failed = @ \cup {t}] \in Locals
      BY <1>0 DEF Locals
    <2>. QED  BY <1>0, <1>1, <2>1 DEF FlushOne, FlushOneFails
  <1>2. \A x \in {"unhold", "reclaim", "drop", "purgeHold", "purgeBuffer"} :
            [th[f] EXCEPT !.pc = x] \in Locals
    BY <1>0 DEF Locals
  <1>3. CASE FlushCommit(f) \/ FlushUnhold(f) \/ CommitDrop(f) \/ PurgeHold(f)
    BY <1>0, <1>2, <1>3 DEF FlushCommit, FlushUnhold, CommitDrop, PurgeHold
  <1>4. CASE FlushReclaim(f)
    BY <1>0, <1>2, <1>4 DEF FlushReclaim
  <1>5. CASE PurgeBuffer(f) \/ FlushCommitFails(f) \/ FlushReclaimFails(f)
             \/ CommitDropFails(f)
    BY <1>0, <1>5 DEF PurgeBuffer, FlushCommitFails, FlushReclaimFails, CommitDropFails
  <1>6. ASSUME NEW target \in Table \cup {None}, FlushRotateFails(f, target)
        PROVE  th' \in [Thread -> Locals]
    BY <1>0, <1>6 DEF FlushRotateFails
  <1>. QED  BY <1>1, <1>3, <1>4, <1>5, <1>6 DEF FlushStep, FlushFault

\* Every step keeps the types (write_lp_internal, flush_all, drop_table,
\* sql_batches, open_with_stack), with every failure and any overlap.
LEMMA TypeStep == Base /\ [Next]_vars => TypeOK'
  <1>. SUFFICES ASSUME Base, [Next]_vars PROVE TypeOK'
    OBVIOUS
  <1>0. /\ TypeOK
        /\ th \in [Thread -> Locals] /\ NoRows \in [Table -> SUBSET Write]
        /\ \A f \in Thread : Flushing(f) => th[f].sealed < active
        /\ \A f \in Thread : th[f].sealed \in 0 .. MaxGen /\ th[f].snap \in [Table -> SUBSET Write]
        /\ \A t \in Table : Acked(t) \subseteq Write
        /\ {MaxGen, MaxCrashes, MaxStoreFails, MaxLogFails} \subseteq Nat
    BY IdleType, EngineAssumption DEF Base, LogOrder, TypeOK, Locals, Acked
  <1>. DEFINE RowsType == /\ buffer \in [Table -> SUBSET Write]
                          /\ hold \in [Table -> SUBSET Write]
                          /\ files \in [Table -> SUBSET Write]
                          /\ exempt \in [Table -> SUBSET Write]
                          /\ gone \in [Table -> SUBSET Write]
              QueryType == query \in [pc : {"idle", "live", "answered"},
                                      table : Table \cup {None},
                                      want : SUBSET Write, got : SUBSET Write]
              LogType == /\ DOMAIN gens \subseteq 0 .. MaxGen
                         /\ \A g \in DOMAIN gens : gens[g] \subseteq Write
                         /\ generation \in 0 .. MaxGen
                         /\ active \in DOMAIN gens /\ active <= generation
  <1>01. /\ LogType /\ RowsType /\ QueryType
         /\ up \in BOOLEAN
         /\ wpc \in [Write -> {"unsent", "new", "logged", "acked", "refused", "unanswered"}]
         /\ crashes \in 0 .. MaxCrashes
         /\ storeFails \in 0 .. MaxStoreFails
         /\ logFails \in 0 .. MaxLogFails
    BY <1>0 DEF TypeOK
  <1>02. /\ LogType' /\ RowsType' /\ QueryType' /\ th' \in [Thread -> Locals]
         /\ up' \in BOOLEAN
         /\ wpc' \in [Write -> {"unsent", "new", "logged", "acked", "refused", "unanswered"}]
         /\ crashes' \in 0 .. MaxCrashes
         /\ storeFails' \in 0 .. MaxStoreFails
         /\ logFails' \in 0 .. MaxLogFails
         => TypeOK'
    BY DEF TypeOK, Locals
  <1>1. CASE UNCHANGED vars
    BY <1>0, <1>1 DEF vars, bounds, TypeOK
  <1>2. ASSUME NEW w \in Write, LogWrite(w) PROVE TypeOK'
    BY <1>0, <1>2 DEF LogWrite, bounds, TypeOK
  <1>3. ASSUME NEW w \in Write, FinishWrite(w) PROVE TypeOK'
    <2>1. buffer' \in [Table -> SUBSET Write]
      BY <1>0, <1>3, SMTT(20) DEF FinishWrite, ApplyWrite, RefuseWrite, RowsOf, TypeOK
    <2>2. /\ wpc' \in [Write -> {"unsent", "new", "logged", "acked", "refused", "unanswered"}]
          /\ UNCHANGED <<gens, generation, active, up, hold, files, th, query, exempt, gone,
                         crashes, storeFails, logFails>>
      BY <1>01, <1>3, SMTT(20) DEF FinishWrite, ApplyWrite, RefuseWrite, bounds
    <2>. QED  BY <1>0, <1>01, <1>02, <2>1, <2>2
  <1>4. ASSUME NEW f \in Thread, Begin(f) PROVE TypeOK'
    <2>1. PICK target \in Table \cup {None} : FlushBegin(f, target) \/ FlushNothing(f, target)
      BY <1>4 DEF Begin
    <2>2. th' \in [Thread -> Locals]
      BY <2>1, EnterType
    <2>3. CASE FlushBegin(f, target)
      <3>1. LogType'
        BY <1>0, <1>01, <2>3, SMTT(20) DEF FlushBegin, SealLog
      <3>2. hold' \in [Table -> SUBSET Write] /\ buffer' \in [Table -> SUBSET Write]
        BY <1>0, <2>3 DEF FlushBegin, HandOver, TypeOK
      <3>. QED  BY <1>0, <2>2, <2>3, <3>1, <3>2, <1>01, <1>02 DEF FlushBegin, bounds, TypeOK
    <2>4. CASE FlushNothing(f, target)
      BY <1>0, <2>2, <2>4, <1>01, <1>02 DEF FlushNothing, bounds, TypeOK
    <2>. QED  BY <2>1, <2>3, <2>4
  <1>5. ASSUME NEW f \in Thread, FlushStep(f) PROVE TypeOK'
    <2>1. th' \in [Thread -> Locals]
      BY <1>5, ThreadType
    <2>2. ASSUME NEW t \in Table, FlushOne(f, t) PROVE TypeOK'
      BY <1>0, <2>1, <2>2, <1>01, <1>02 DEF FlushOne, bounds, TypeOK
    <2>3. CASE FlushCommit(f)
      <3>1. files' \in [Table -> SUBSET Write]
        BY <1>0, <2>3, SMTT(20) DEF FlushCommit, Committed, TypeOK
      <3>. QED  BY <1>0, <2>1, <2>3, <3>1, <1>01, <1>02 DEF FlushCommit, bounds, TypeOK
    <2>4. CASE FlushUnhold(f)
      <3>1. hold' \in [Table -> SUBSET Write]
        BY <1>0, <2>4 DEF FlushUnhold, TypeOK
      <3>. QED  BY <1>0, <2>1, <2>4, <3>1, <1>01, <1>02 DEF FlushUnhold, bounds, TypeOK
    <2>5. CASE FlushReclaim(f)
      <3>1. LogType'
        BY <1>0, <1>01, <2>5 DEF FlushReclaim, Flushing, Reclaimed, Restrict
      <3>. QED  BY <1>0, <2>1, <2>5, <3>1, <1>01, <1>02 DEF FlushReclaim, bounds, TypeOK
    <2>6. CASE CommitDrop(f) \/ PurgeHold(f) \/ PurgeBuffer(f)
      <3>1. RowsType'
        <4>1. th[f].before \subseteq Write
          BY <1>0 DEF Locals
        <4>2. CASE CommitDrop(f)
          BY <1>0, <1>01, <4>2 DEF CommitDrop, TypeOK
        <4>3. CASE PurgeHold(f)
          BY <1>0, <1>01, <4>3 DEF PurgeHold, TypeOK
        <4>4. CASE PurgeBuffer(f)
          BY <1>0, <1>01, <4>1, <4>4 DEF PurgeBuffer, TypeOK
        <4>. QED  BY <2>6, <4>2, <4>3, <4>4
      <3>. QED
        BY <1>0, <2>1, <2>6, <3>1, <1>01, <1>02 DEF CommitDrop, PurgeHold, PurgeBuffer, bounds, TypeOK
    <2>. QED  BY <1>5, <2>2, <2>3, <2>4, <2>5, <2>6 DEF FlushStep
  <1>6. ASSUME NEW f \in Thread, FlushFault(f) PROVE TypeOK'
    <2>1. th' \in [Thread -> Locals]
      BY <1>6, ThreadType
    <2>2. ASSUME NEW t \in Table, FlushOneFails(f, t) PROVE TypeOK'
      BY <1>0, <2>1, <2>2, <1>01, <1>02, SMTT(20) DEF FlushOneFails, TypeOK
    <2>3. CASE FlushCommitFails(f)
      <3>1. files' \in [Table -> SUBSET Write]
        BY <1>0, <2>3, SMTT(20) DEF FlushCommitFails, Committed, TypeOK
      <3>. QED  BY <1>0, <2>1, <2>3, <3>1, <1>01, <1>02, SMTT(20) DEF FlushCommitFails, TypeOK
    <2>4. CASE FlushReclaimFails(f)
      <3>1. LogType'
        BY <1>0, <1>01, <2>4, SMTT(20) DEF FlushReclaimFails, Flushing, Restrict
      <3>2. logFails' \in 0 .. MaxLogFails
        BY <1>0, <1>01, <2>4, SMTT(20) DEF FlushReclaimFails
      <3>. QED  BY <1>01, <1>02, <2>1, <2>4, <3>1, <3>2 DEF FlushReclaimFails
    <2>5. CASE CommitDropFails(f)
      <3>1. RowsType'
        BY <1>0, <1>01, <2>5 DEF CommitDropFails, TypeOK
      <3>. QED  BY <1>0, <2>1, <2>5, <3>1, <1>01, <1>02, SMTT(20) DEF CommitDropFails, TypeOK
    <2>6. ASSUME NEW target \in Table \cup {None}, FlushRotateFails(f, target) PROVE TypeOK'
      <3>1. LogType'
        BY <1>0, <1>01, <2>6, SMTT(20) DEF FlushRotateFails
      <3>. QED  BY <1>0, <2>1, <2>6, <3>1, <1>01, <1>02, SMTT(20) DEF FlushRotateFails, TypeOK
    <2>. QED  BY <1>6, <2>2, <2>3, <2>4, <2>5, <2>6 DEF FlushFault
  <1>7. ASSUME (\E t \in Table : QueryLive(t)) \/ QueryFiles \/ QueryDone PROVE TypeOK'
    <2>1. QueryType'
      <3>1. ASSUME NEW t \in Table, QueryLive(t)
            PROVE  QueryType'
        BY <1>0, <3>1, SMTT(20) DEF QueryLive, TypeOK
      <3>2. CASE QueryFiles
        <4>1. files[query.table] \subseteq Write
          BY <1>01, <3>2 DEF QueryFiles, Base, QueryHasTable
        <4>. QED  BY <1>01, <3>2, <4>1 DEF QueryFiles
      <3>3. CASE QueryDone
        BY <3>3 DEF QueryDone, NoQuery
      <3>. QED  BY <1>7, <3>1, <3>2, <3>3
    <2>2. UNCHANGED <<gens, generation, active, up, wpc, buffer, hold, files, th, exempt, gone,
                      crashes, storeFails, logFails>>
      BY <1>7 DEF QueryLive, QueryFiles, QueryDone, bounds
    <2>. QED  BY <1>0, <1>01, <1>02, <2>1, <2>2
  <1>8. CASE Crash
    <2>1. th' \in [Thread -> Locals]
      BY <1>8, IdleType DEF Crash
    <2>2. /\ wpc' \in [Write -> {"unsent", "new", "logged", "acked", "refused", "unanswered"}]
          /\ crashes' \in 0 .. MaxCrashes
      BY <1>0, <1>01, <1>8, SMTT(20) DEF Crash
    <2>3. RowsType' /\ QueryType' /\ LogType'
      BY <1>0, <1>01, <1>8 DEF Crash, NoQuery
    <2>. QED  BY <1>01, <1>02, <1>8, <2>1, <2>2, <2>3 DEF Crash
  <1>9. CASE Restart
    <2>1. buffer' \in [Table -> SUBSET Write]
      BY <1>0, <1>9, LoggedIs, SMTT(20) DEF Restart, RowsOf, Logged, InLog, TypeOK
    <2>2. LogType'
      BY <1>01, <1>9, LastGenIsActive, SMTT(20) DEF Restart
    <2>. QED  BY <1>0, <1>9, <2>1, <2>2, <1>01, <1>02 DEF Restart, bounds, TypeOK
  <1>. QED
    BY <1>1, <1>2, <1>3, <1>4, <1>5, <1>6, <1>7, <1>8, <1>9 DEF Next
-----------------------------------------------------------------------------
(* What holds with every failure and any overlap *)

\* What a step of a thread may do to the locals of any thread: a flush that
\* runs has sealed what it had, or seals the active generation now.
LEMMA FlushingStep ==
    ASSUME Base, [Next]_vars, NEW f \in Thread, Flushing(f)'
    PROVE  \/ Flushing(f) /\ th'[f].sealed = th[f].sealed
           \/ th'[f].sealed = generation /\ SealLog
  <1>0. th \in [Thread -> Locals]
    BY DEF Base, TypeOK, Locals
  <1>1. CASE UNCHANGED th
    BY <1>1 DEF Flushing
  <1>2. ASSUME NEW h \in Thread, Begin(h)
        PROVE  \/ Flushing(f) /\ th'[f].sealed = th[f].sealed
               \/ th'[f].sealed = generation /\ SealLog
    <2>1. CASE h # f
      BY <1>0, <1>2, <2>1 DEF Begin, FlushBegin, FlushNothing, Flushing
    <2>2. CASE h = f
      <3>1. PICK target : FlushBegin(f, target) \/ FlushNothing(f, target)
        BY <1>2, <2>2 DEF Begin
      <3>2. CASE FlushNothing(f, target)
        <4>1. th'[f].pc = "drop"
          BY <1>0, <3>2 DEF FlushNothing, Idle
        <4>. QED  BY <4>1 DEF Flushing
      <3>3. CASE FlushBegin(f, target)
        BY <1>0, <3>3 DEF FlushBegin, Idle
      <3>. QED  BY <3>1, <3>2, <3>3
    <2>. QED  BY <2>1, <2>2
  <1>3. ASSUME NEW h \in Thread, FlushStep(h)
        PROVE  Flushing(f) /\ th'[f].sealed = th[f].sealed
    <2>0. th[h] \in Locals
      BY <1>0
    <2>1. ASSUME NEW t \in Table, FlushOne(h, t)
          PROVE  Flushing(f) /\ th'[f].sealed = th[f].sealed
      BY <1>0, <2>0, <2>1 DEF FlushOne, Flushing, Locals
    <2>2. CASE FlushCommit(h) \/ FlushUnhold(h)
      <3>1. /\ th[h].pc \in {"upload", "unhold"}
            /\ \E x \in {"unhold", "reclaim"} : th' = [th EXCEPT ![h].pc = x]
        BY <2>2 DEF FlushCommit, FlushUnhold
      <3>. QED  BY <1>0, <2>0, <3>1, SMTT(20) DEF Flushing, Locals
    <2>4. CASE CommitDrop(h) \/ PurgeHold(h)
      BY <1>0, <2>0, <2>4, SMTT(20) DEF CommitDrop, PurgeHold, Flushing, Locals
    <2>5. CASE PurgeBuffer(h)
      BY <1>0, <2>5, IdleType DEF PurgeBuffer, Flushing
    <2>3. CASE FlushReclaim(h)
      BY <1>0, <2>0, <2>3, IdleType DEF FlushReclaim, Flushing, Locals
    <2>. QED  BY <1>3, <2>1, <2>2, <2>3, <2>4, <2>5 DEF FlushStep
  <1>4. ASSUME NEW h \in Thread, FlushFault(h)
        PROVE  Flushing(f) /\ th'[f].sealed = th[f].sealed
    <2>0. th[h] \in Locals
      BY <1>0
    <2>1. ASSUME NEW t \in Table, FlushOneFails(h, t)
          PROVE  Flushing(f) /\ th'[f].sealed = th[f].sealed
      BY <1>0, <2>0, <2>1 DEF FlushOneFails, Flushing, Locals
    <2>2. CASE FlushCommitFails(h) \/ FlushReclaimFails(h) \/ CommitDropFails(h)
      BY <1>0, <2>0, <2>2, IdleType
      DEF FlushCommitFails, FlushReclaimFails, CommitDropFails, Flushing, Locals
    <2>3. ASSUME NEW target \in Table \cup {None}, FlushRotateFails(h, target)
          PROVE  Flushing(f) /\ th'[f].sealed = th[f].sealed
      BY <1>0, <2>3 DEF FlushRotateFails, Flushing
    <2>. QED  BY <1>4, <2>1, <2>2, <2>3 DEF FlushFault
  <1>5. CASE Crash
    BY <1>0, <1>5, IdleType DEF Crash, Flushing
  <1>6. ASSUME \/ \E w \in Write : LogWrite(w) \/ FinishWrite(w)
               \/ \E t \in Table : QueryLive(t)
               \/ QueryFiles \/ QueryDone \/ Restart \/ UNCHANGED vars
        PROVE  UNCHANGED th
    BY <1>6 DEF LogWrite, FinishWrite, ApplyWrite, RefuseWrite, QueryLive, QueryFiles,
       QueryDone, Restart, vars
  <1>. QED
    BY <1>1, <1>2, <1>3, <1>4, <1>5, <1>6 DEF Next

\* What a step does to the log: nothing, a write appended to the active
\* generation, a generation sealed, or generations removed from below.
LogStep ==
    \/ UNCHANGED <<gens, active>>
    \/ \E w \in Write : /\ wpc[w] = "new" /\ wpc' = [wpc EXCEPT ![w] = "logged"]
                        /\ gens' = [gens EXCEPT ![active] = @ \cup {w}]
                        /\ UNCHANGED active
    \/ SealLog
    \/ /\ UNCHANGED active
       /\ \E keep \in SUBSET DOMAIN gens : active \in keep /\ gens' = Restrict(gens, keep)

\* Wal::append, rotate and delete_generations_upto are all that changes it.
LEMMA LogStepOf == Base /\ [Next]_vars => LogStep
  <1>. SUFFICES ASSUME Base, [Next]_vars PROVE LogStep
    OBVIOUS
  <1>0. /\ active \in DOMAIN gens /\ DOMAIN gens \subseteq 0 .. MaxGen
        /\ \A f \in Thread : Flushing(f) => th[f].sealed < active /\ th[f].sealed \in 0 .. MaxGen
        /\ MaxGen \in Nat
    BY EngineAssumption DEF Base, LogOrder, TypeOK
  <1>1. ASSUME NEW w \in Write, LogWrite(w) \/ FinishWrite(w) PROVE LogStep
    BY <1>1 DEF LogWrite, FinishWrite, ApplyWrite, RefuseWrite, LogStep
  <1>2. ASSUME NEW f \in Thread, Begin(f) PROVE LogStep
    BY <1>2 DEF Begin, FlushBegin, FlushNothing, LogStep
  <1>3. ASSUME NEW f \in Thread, FlushStep(f) PROVE LogStep
    <2>1. CASE FlushReclaim(f)
      <3>1. CASE th[f].failed # {}
        BY <2>1, <3>1 DEF FlushReclaim, Reclaimed, LogStep
      <3>2. CASE th[f].failed = {}
        <4>. DEFINE keep == {g \in DOMAIN gens : g > th[f].sealed \/ g = generation}
        <4>1. keep \in SUBSET DOMAIN gens /\ active \in keep
          BY <1>0, <2>1 DEF FlushReclaim, Flushing
        <4>2. gens' = Restrict(gens, keep) /\ UNCHANGED active
          BY <2>1, <3>2 DEF FlushReclaim, Reclaimed
        <4>. HIDE DEF keep
        <4>. QED  BY <4>1, <4>2 DEF LogStep
      <3>. QED  BY <3>1, <3>2
    <2>2. CASE ~FlushReclaim(f)
      BY <1>3, <2>2 DEF FlushStep, FlushOne, FlushCommit, FlushUnhold, CommitDrop, PurgeHold,
         PurgeBuffer, LogStep
    <2>. QED  BY <2>1, <2>2
  <1>4. ASSUME NEW f \in Thread, FlushFault(f) PROVE LogStep
    <2>1. CASE FlushReclaimFails(f)
      <3>1. PICK g \in DOMAIN gens :
               /\ g <= th[f].sealed
               /\ gens' = Restrict(gens, {h \in DOMAIN gens : h >= g})
        BY <2>1 DEF FlushReclaimFails
      <3>. DEFINE keep == {h \in DOMAIN gens : h >= g}
      <3>2. keep \in SUBSET DOMAIN gens /\ active \in keep
        BY <1>0, <2>1, <3>1, SMTT(20) DEF FlushReclaimFails, Flushing
      <3>. HIDE DEF keep
      <3>. QED  BY <2>1, <3>1, <3>2 DEF FlushReclaimFails, LogStep, keep
    <2>2. CASE ~FlushReclaimFails(f)
      BY <1>4, <2>2 DEF FlushFault, FlushOneFails, FlushCommitFails, CommitDropFails,
         FlushRotateFails, LogStep
    <2>. QED  BY <2>1, <2>2
  <1>5. CASE Restart
    BY <1>5, LastGenIsActive DEF Restart, LogStep
  <1>6. ASSUME (\E t \in Table : QueryLive(t)) \/ QueryFiles \/ QueryDone \/ Crash
               \/ UNCHANGED vars
        PROVE  LogStep
    BY <1>6 DEF QueryLive, QueryFiles, QueryDone, Crash, vars, LogStep
  <1>. QED
    BY <1>1, <1>2, <1>3, <1>4, <1>5, <1>6 DEF Next

\* The generation that takes appends stays the last, and above what the
\* flushes under way will reclaim.
LEMMA LogOrderStep == Base /\ [Next]_vars => LogOrder'
  <1>. SUFFICES ASSUME Base, [Next]_vars PROVE LogOrder'
    OBVIOUS
  <1>0. /\ active \in DOMAIN gens /\ DOMAIN gens \subseteq 0 .. MaxGen /\ MaxGen \in Nat
        /\ generation \in 0 .. MaxGen /\ active <= generation
        /\ \A g \in DOMAIN gens : g <= active
        /\ \A f \in Thread : th[f].sealed \in 0 .. MaxGen
        /\ \A f \in Thread : Flushing(f) => th[f].sealed < active
    BY EngineAssumption DEF Base, TypeOK, LogOrder
  <1>1. active <= active' /\ active' \in 0 .. MaxGen
    BY <1>0, LogStepOf, TypeStep, SMTT(20) DEF LogStep, SealLog, TypeOK
  <1>2. \A g \in DOMAIN gens' : g <= active'
    BY <1>0, LogStepOf, SMTT(20) DEF LogStep, SealLog, Restrict
  <1>3. ASSUME NEW f \in Thread, Flushing(f)' PROVE th'[f].sealed < active'
    <2>1. CASE Flushing(f) /\ th'[f].sealed = th[f].sealed
      BY <1>0, <1>1, <2>1, SMTT(20)
    <2>2. CASE th'[f].sealed = generation /\ SealLog
      BY <1>0, <2>2, SMTT(20) DEF SealLog
    <2>. QED  BY <1>3, <2>1, <2>2, FlushingStep
  <1>. QED  BY <1>2, <1>3 DEF LogOrder

\* What a step does to the rows in memory: a write is applied; rows leave;
\* the buffers are handed over; a restart fills them from the log; or the
\* process dies.
MemoryStep ==
    \/ \E w \in Write : \E x \in {"acked", "refused"} :
          /\ wpc[w] = "logged" /\ wpc' = [wpc EXCEPT ![w] = x]
          /\ x = "acked" => w \notin BadWrite
          /\ \A t \in Table : buffer'[t] \subseteq buffer[t] \cup {w} /\ hold'[t] = hold[t]
    \/ /\ wpc' = wpc \/ \E w \in Write : wpc[w] = "new" /\ wpc' = [wpc EXCEPT ![w] = "logged"]
       /\ \A t \in Table : buffer'[t] \subseteq buffer[t] /\ hold'[t] \subseteq hold[t]
    \/ /\ wpc' = wpc
       /\ \A t \in Table : buffer'[t] = {} /\ hold'[t] \subseteq buffer[t] \cup hold[t]
    \/ /\ ~up /\ wpc' = wpc
       /\ \A t \in Table : hold'[t] = {} /\ \A w \in buffer'[t] : InLog(w)
    \/ Crash

\* Those are all the ways memory changes (apply, flush_all, drop_table,
\* open_with_stack).
LEMMA MemoryStepOf == Base /\ [Next]_vars => MemoryStep
  <1>. SUFFICES ASSUME Base, [Next]_vars PROVE MemoryStep
    OBVIOUS
  <1>0. /\ buffer \in [Table -> SUBSET Write] /\ hold \in [Table -> SUBSET Write]
        /\ wpc \in [Write -> {"unsent", "new", "logged", "acked", "refused", "unanswered"}]
    BY DEF Base, TypeOK
  <1>1. ASSUME NEW w \in Write, LogWrite(w) PROVE MemoryStep
    BY <1>1 DEF LogWrite, MemoryStep
  <1>2. ASSUME NEW w \in Write, FinishWrite(w) PROVE MemoryStep
    <2>1. CASE ApplyWrite(w)
      <3>1. \A t \in Table : buffer'[t] \subseteq buffer[t] \cup {w} /\ hold'[t] = hold[t]
        BY <2>1 DEF ApplyWrite, RowsOf
      <3>. QED  BY <2>1, <3>1 DEF ApplyWrite, MemoryStep
    <2>2. ASSUME NEW some, RefuseWrite(w, some) PROVE MemoryStep
      <3>1. \A t \in Table : buffer'[t] \subseteq buffer[t] \cup {w} /\ hold'[t] = hold[t]
        BY <2>2 DEF RefuseWrite
      <3>. QED  BY <2>2, <3>1 DEF RefuseWrite, MemoryStep
    <2>. QED  BY <1>2, <2>1, <2>2 DEF FinishWrite
  <1>3. ASSUME NEW f \in Thread, Begin(f) PROVE MemoryStep
    <2>1. PICK target : FlushBegin(f, target) \/ FlushNothing(f, target)
      BY <1>3 DEF Begin
    <2>2. CASE FlushBegin(f, target)
      <3>1. \A t \in Table : buffer'[t] = {} /\ hold'[t] \subseteq buffer[t] \cup hold[t]
        BY <2>2 DEF FlushBegin, HandOver, NoRows
      <3>. QED  BY <2>2, <3>1 DEF FlushBegin, MemoryStep
    <2>3. CASE FlushNothing(f, target)
      BY <2>3 DEF FlushNothing, MemoryStep
    <2>. QED  BY <2>1, <2>2, <2>3
  <1>4. ASSUME NEW f \in Thread, FlushStep(f) PROVE MemoryStep
    <2>1. wpc' = wpc
      BY <1>4 DEF FlushStep, FlushOne, FlushCommit, FlushUnhold, FlushReclaim, CommitDrop,
         PurgeHold, PurgeBuffer
    <2>2. \A t \in Table : buffer'[t] \subseteq buffer[t] /\ hold'[t] \subseteq hold[t]
      BY <1>0, <1>4 DEF FlushStep, FlushOne, FlushCommit, FlushUnhold, FlushReclaim,
         CommitDrop, PurgeHold, PurgeBuffer
    <2>. QED  BY <2>1, <2>2 DEF MemoryStep
  <1>5. ASSUME NEW f \in Thread, FlushFault(f) PROVE MemoryStep
    <2>1. wpc' = wpc
      BY <1>5 DEF FlushFault, FlushOneFails, FlushCommitFails, FlushReclaimFails,
         CommitDropFails, FlushRotateFails
    <2>2. \A t \in Table : buffer'[t] \subseteq buffer[t] /\ hold'[t] \subseteq hold[t]
      BY <1>0, <1>5 DEF FlushFault, FlushOneFails, FlushCommitFails, FlushReclaimFails,
         CommitDropFails, FlushRotateFails, NoRows
    <2>. QED  BY <2>1, <2>2 DEF MemoryStep
  <1>6. CASE Restart
    <2>1. ~up /\ wpc' = wpc /\ hold' = hold
      BY <1>6 DEF Restart
    <2>2. \A t \in Table : hold[t] = {}
      BY <2>1 DEF Base, Stopped
    <2>3. \A t \in Table : \A w \in buffer'[t] : InLog(w)
      BY <1>6, LoggedIs DEF Restart
    <2>. QED  BY <2>1, <2>2, <2>3 DEF MemoryStep
  <1>7. ASSUME (\E t \in Table : QueryLive(t)) \/ QueryFiles \/ QueryDone \/ UNCHANGED vars
        PROVE  MemoryStep
    BY <1>7 DEF QueryLive, QueryFiles, QueryDone, vars, MemoryStep
  <1>8. CASE Crash
    BY <1>8 DEF MemoryStep
  <1>. QED
    BY <1>1, <1>2, <1>3, <1>4, <1>5, <1>6, <1>7, <1>8 DEF Next

\* What a step adds to the log is a write on its way.
LEMMA LogGrows ==
    ASSUME Base, [Next]_vars, NEW w \in Write, InLog(w)', ~InLog(w)
    PROVE  wpc[w] = "new" /\ wpc'[w] = "logged"
  <1>0. /\ wpc \in [Write -> {"unsent", "new", "logged", "acked", "refused", "unanswered"}]
        /\ active \in DOMAIN gens
    BY DEF Base, TypeOK
  <1>1. CASE UNCHANGED <<gens, active>>
    BY <1>1 DEF InLog
  <1>2. ASSUME NEW v \in Write, wpc[v] = "new", wpc' = [wpc EXCEPT ![v] = "logged"],
               gens' = [gens EXCEPT ![active] = @ \cup {v}]
        PROVE  wpc[w] = "new" /\ wpc'[w] = "logged"
    BY <1>0, <1>2 DEF InLog
  <1>3. CASE SealLog
    BY <1>3 DEF InLog, SealLog
  <1>4. ASSUME NEW keep \in SUBSET DOMAIN gens, gens' = Restrict(gens, keep)
        PROVE  FALSE
    BY <1>4 DEF InLog, Restrict
  <1>. QED  BY <1>1, <1>2, <1>3, <1>4, LogStepOf DEF LogStep

\* The log is sealed only while no write is between log and buffer.
LEMMA SealGated == Base /\ [Next]_vars /\ SealLog => GateFree
  <1>. SUFFICES ASSUME Base, [Next]_vars, SealLog PROVE GateFree
    OBVIOUS
  <1>1. active' # active
    BY SMTT(20) DEF SealLog, Base, TypeOK
  <1>2. ASSUME NEW f \in Thread, Begin(f) PROVE GateFree
    BY <1>1, <1>2 DEF Begin, FlushBegin, FlushNothing, Enters
  <1>3. ASSUME NEW f \in Thread, FlushStep(f) \/ FlushFault(f) PROVE UNCHANGED active
    BY <1>3 DEF FlushStep, FlushFault, FlushOne,
       FlushCommit, FlushUnhold, FlushReclaim, CommitDrop, PurgeHold, PurgeBuffer,
       FlushOneFails, FlushCommitFails, FlushReclaimFails, CommitDropFails, FlushRotateFails
  <1>4. ASSUME \/ \E w \in Write : LogWrite(w) \/ FinishWrite(w)
               \/ \E t \in Table : QueryLive(t)
               \/ QueryFiles \/ QueryDone \/ Crash \/ UNCHANGED vars
        PROVE  UNCHANGED active
    BY <1>4 DEF LogWrite, FinishWrite, ApplyWrite, RefuseWrite, QueryLive, QueryFiles,
       QueryDone, Crash, vars
  <1>5. CASE Restart
    BY <1>1, <1>5, LastGenIsActive DEF Restart
  <1>. QED  BY <1>1, <1>2, <1>3, <1>4, <1>5 DEF Next

\* A write gets into the log by being logged.
LEMMA LogsOnly ==
    ASSUME Base, [Next]_vars, NEW w \in Write, wpc[w] # "logged", wpc'[w] = "logged"
    PROVE  wpc[w] = "new" /\ LogWrite(w)
  <1>0. wpc \in [Write -> {"unsent", "new", "logged", "acked", "refused", "unanswered"}]
    BY DEF Base, TypeOK
  <1>1. ASSUME NEW v \in Write, LogWrite(v) PROVE wpc[w] = "new" /\ LogWrite(w)
    BY <1>0, <1>1 DEF LogWrite
  <1>2. ASSUME NEW v \in Write, FinishWrite(v) PROVE FALSE
    BY <1>0, <1>2 DEF FinishWrite, ApplyWrite, RefuseWrite
  <1>3. ASSUME NEW f \in Thread, Begin(f) \/ FlushStep(f) \/ FlushFault(f)
        PROVE  UNCHANGED wpc
    BY <1>3 DEF Begin, FlushBegin, FlushNothing, FlushStep, FlushFault, FlushOne,
       FlushCommit, FlushUnhold, FlushReclaim, CommitDrop, PurgeHold, PurgeBuffer,
       FlushOneFails, FlushCommitFails, FlushReclaimFails, CommitDropFails, FlushRotateFails
  <1>4. CASE Crash
    BY <1>4 DEF Crash
  <1>5. ASSUME (\E t \in Table : QueryLive(t)) \/ QueryFiles \/ QueryDone \/ Restart
               \/ UNCHANGED vars
        PROVE  UNCHANGED wpc
    BY <1>5 DEF QueryLive, QueryFiles, QueryDone, Restart, vars
  <1>. QED  BY <1>1, <1>2, <1>3, <1>4, <1>5 DEF Next

\* Every step keeps writes out of memory until they are applied, and no row
\* in buffer and holding area at once.
LEMMA UnappliedStep == Base /\ [Next]_vars => Unapplied' /\ OneLivePlace'
  <1>. SUFFICES ASSUME Base, [Next]_vars PROVE Unapplied' /\ OneLivePlace'
    OBVIOUS
  <1>0. /\ wpc \in [Write -> {"unsent", "new", "logged", "acked", "refused", "unanswered"}]
        /\ buffer \in [Table -> SUBSET Write] /\ hold \in [Table -> SUBSET Write]
        /\ {buffer', hold'} \subseteq [Table -> SUBSET Write]
        /\ Unapplied /\ Stopped /\ OneLivePlace
    BY TypeStep DEF Base, TypeOK
  <1>1. \A w \in Write : wpc'[w] \in {"unsent", "new"} => wpc[w] = wpc'[w]
    BY <1>0, MemoryStepOf DEF MemoryStep, Crash
  <1>2. \A w \in Write : wpc'[w] \in {"unsent", "new"} => ~InLog(w)'
    BY <1>0, <1>1, LogGrows DEF Unapplied
  <1>3. /\ \A w \in Write : wpc'[w] \in {"unsent", "new", "logged"} =>
              \A t \in Table : w \notin buffer'[t] /\ w \notin hold'[t]
        /\ \A w \in Write : wpc'[w] = "acked" => w \notin BadWrite
        /\ \A t \in Table : buffer'[t] \cap hold'[t] = {}
    <2>1. ASSUME NEW v \in Write, NEW x \in {"acked", "refused"},
                 wpc[v] = "logged", wpc' = [wpc EXCEPT ![v] = x],
                 x = "acked" => v \notin BadWrite,
                 \A t \in Table : buffer'[t] \subseteq buffer[t] \cup {v} /\ hold'[t] = hold[t]
          PROVE  <1>3!:
      BY <1>0, <2>1, SMTT(20) DEF Unapplied, OneLivePlace
    <2>2. CASE /\ wpc' = wpc \/ \E v \in Write : wpc[v] = "new" /\ wpc' = [wpc EXCEPT ![v] = "logged"]
               /\ \A t \in Table : buffer'[t] \subseteq buffer[t] /\ hold'[t] \subseteq hold[t]
      BY <1>0, <2>2, SMTT(20) DEF Unapplied, OneLivePlace
    <2>3. CASE /\ wpc' = wpc
               /\ \A t \in Table : buffer'[t] = {} /\ hold'[t] \subseteq buffer[t] \cup hold[t]
      BY <1>0, <2>3 DEF Unapplied, OneLivePlace
    <2>4. CASE /\ ~up /\ wpc' = wpc
               /\ \A t \in Table : hold'[t] = {} /\ \A w \in buffer'[t] : InLog(w)
      BY <1>0, <2>4 DEF Unapplied, OneLivePlace, Stopped
    <2>5. CASE Crash
      BY <1>0, <2>5 DEF Crash, NoRows, Unapplied
    <2>. QED  BY <2>1, <2>2, <2>3, <2>4, <2>5, MemoryStepOf DEF MemoryStep
  <1>4. ASSUME NEW w \in Write, wpc'[w] = "logged"
        PROVE  w \in gens'[active'] /\ \A g \in DOMAIN gens' : w \in gens'[g] => g = active'
    <2>0. active \in DOMAIN gens
      BY DEF Base, TypeOK
    <2>1. CASE wpc[w] = "logged"
      <3>1. w \in gens[active] /\ \A g \in DOMAIN gens : w \in gens[g] => g = active
        BY <1>0, <2>1 DEF Unapplied
      <3>2. ~SealLog
        BY <2>1, SealGated DEF GateFree
      <3>3. ASSUME NEW v \in Write, gens' = [gens EXCEPT ![active] = @ \cup {v}], UNCHANGED active
            PROVE  w \in gens'[active'] /\ \A g \in DOMAIN gens' : w \in gens'[g] => g = active'
        BY <2>0, <3>1, <3>3
      <3>4. ASSUME NEW keep \in SUBSET DOMAIN gens, active \in keep,
                   gens' = Restrict(gens, keep), UNCHANGED active
            PROVE  w \in gens'[active'] /\ \A g \in DOMAIN gens' : w \in gens'[g] => g = active'
        BY <3>1, <3>4 DEF Restrict
      <3>. QED  BY <3>1, <3>2, <3>3, <3>4, LogStepOf DEF LogStep
    <2>2. CASE wpc[w] # "logged"
      <3>1. wpc[w] = "new" /\ LogWrite(w)
        BY <1>0, <1>4, <2>2, LogsOnly
      <3>2. ~InLog(w)
        BY <1>0, <3>1 DEF Unapplied
      <3>. QED  BY <2>0, <3>1, <3>2 DEF LogWrite, InLog
    <2>. QED  BY <2>1, <2>2
  <1>. QED  BY <1>2, <1>3, <1>4 DEF Unapplied, OneLivePlace

\* A process that is not running does nothing but start.
LEMMA StoppedStep == Base /\ [Next]_vars => Stopped' /\ QueryHasTable'
  <1>. SUFFICES ASSUME Base, [Next]_vars PROVE Stopped' /\ QueryHasTable'
    OBVIOUS
  <1>0. Stopped /\ QueryHasTable
    BY DEF Base
  <1>1. CASE Crash
    <2>1. /\ \A f \in Thread : th'[f].pc \in {"idle", "absent"}
          /\ \A w \in Write : wpc'[w] # "logged"
          /\ query'.pc = "idle"
          /\ \A t \in Table : buffer'[t] = {} /\ hold'[t] = {}
      BY <1>1, IdleType DEF Crash, NoRows, NoQuery
    <2>. QED  BY <2>1 DEF Stopped, QueryHasTable
  <1>2. CASE Restart
    BY <1>0, <1>2 DEF Restart, Stopped, QueryHasTable
  <1>3. ASSUME NEW t \in Table, QueryLive(t) PROVE Stopped' /\ QueryHasTable'
    BY <1>0, <1>3 DEF QueryLive, Stopped, QueryHasTable
  <1>4. CASE QueryFiles
    BY <1>0, <1>4 DEF QueryFiles, Stopped, QueryHasTable, Base, TypeOK
  <1>5. CASE QueryDone
    BY <1>0, <1>5 DEF QueryDone, NoQuery, Stopped, QueryHasTable
  <1>6. CASE UNCHANGED vars
    BY <1>0, <1>6 DEF vars, Stopped, QueryHasTable
  <1>7. ASSUME up, up' = up, query' = query PROVE Stopped' /\ QueryHasTable'
    BY <1>0, <1>7 DEF Stopped, QueryHasTable
  <1>8. ASSUME NEW w \in Write, LogWrite(w) \/ FinishWrite(w)
        PROVE  up /\ up' = up /\ query' = query
    BY <1>8 DEF LogWrite, FinishWrite, ApplyWrite, RefuseWrite
  <1>9. ASSUME NEW f \in Thread, Begin(f) \/ FlushStep(f) \/ FlushFault(f)
        PROVE  up /\ up' = up /\ query' = query
    BY <1>9 DEF Begin, FlushBegin, FlushNothing, Enters, FlushStep, FlushFault, FlushOne,
       FlushCommit, FlushUnhold, FlushReclaim, CommitDrop, PurgeHold, PurgeBuffer,
       FlushOneFails, FlushCommitFails, FlushReclaimFails, CommitDropFails, FlushRotateFails
  <1>. QED
    BY <1>1, <1>2, <1>3, <1>4, <1>5, <1>6, <1>7, <1>8, <1>9 DEF Next

\* What holds in every behaviour holds at the start and is kept.
LEMMA BaseInit == Init => Base
  <1>. SUFFICES ASSUME Init PROVE Base
    OBVIOUS
  <1>0. /\ NoRows \in [Table -> SUBSET Write] /\ Idle \in Locals /\ Absent \in Locals
        /\ Idle.pc = "idle" /\ Absent.pc = "absent"
        /\ {MaxGen, MaxCrashes, MaxStoreFails, MaxLogFails} \subseteq Nat
    BY IdleType, EngineAssumption
  <1>1. /\ th \in [Thread -> Locals]
        /\ wpc \in [Write -> {"unsent", "new", "logged", "acked", "refused", "unanswered"}]
        /\ \A f \in Thread : th[f].pc \in {"idle", "absent"}
        /\ \A w \in Write : wpc[w] \in {"unsent", "new"}
    BY <1>0 DEF Init
  <1>2. /\ DOMAIN gens = {0} /\ gens[0] = {} /\ generation = 0 /\ active = 0 /\ up = TRUE
        /\ query = NoQuery /\ buffer = NoRows /\ hold = NoRows /\ files = NoRows
        /\ exempt = NoRows /\ gone = NoRows
        /\ crashes = 0 /\ storeFails = 0 /\ logFails = 0
    BY DEF Init
  <1>3. TypeOK
    BY <1>0, <1>1, <1>2, SMTT(20) DEF TypeOK, Locals, NoQuery
  <1>4. LogOrder /\ Unapplied /\ Stopped
    BY <1>0, <1>1, <1>2, SMTT(20) DEF LogOrder, Flushing, Unapplied, Stopped, InLog, NoRows
  <1>5. QueryHasTable /\ OneLivePlace
    BY <1>2 DEF QueryHasTable, NoQuery, OneLivePlace, NoRows
  <1>. QED  BY <1>3, <1>4, <1>5 DEF Base

\* The same for every step.
LEMMA BaseStep == Base /\ [Next]_vars => Base'
  BY TypeStep, LogOrderStep, UnappliedStep, StoppedStep DEF Base

\* Whatever fails and whatever overlaps, no row is in the buffer and in the
\* holding area at once ("never both" in flush_all).
THEOREM NeverBoth == Spec => []OneLivePlace
  <1>1. Base => OneLivePlace
    BY DEF Base
  <1>. QED  BY <1>1, BaseInit, BaseStep, PTL DEF Spec
-----------------------------------------------------------------------------
(* What holds of serial flushes as long as nothing has failed *)

\* A step after which nothing has failed is not a failure.
LEMMA Quiet ==
    ASSUME Base, [Next]_vars, NoFailure'
    PROVE  NoFailure /\ \A f \in Thread : ~FlushFault(f)
  <1>0. storeFails \in Nat /\ logFails \in Nat
    BY EngineAssumption, SMTT(20) DEF Base, TypeOK
  <1>1. ASSUME NEW f \in Thread, FlushFault(f) PROVE FALSE
    <2>1. storeFails' = storeFails + 1 \/ logFails' = logFails + 1
      BY <1>1 DEF FlushFault, FlushOneFails, FlushCommitFails, FlushReclaimFails,
         CommitDropFails, FlushRotateFails
    <2>. QED  BY <1>0, <2>1, SMTT(20) DEF NoFailure
  <1>2. ASSUME NEW f \in Thread, Begin(f) \/ FlushStep(f) PROVE UNCHANGED <<storeFails, logFails>>
    BY <1>2 DEF Begin, FlushBegin, FlushNothing, FlushStep, FlushOne, FlushCommit,
       FlushUnhold, FlushReclaim, CommitDrop, PurgeHold, PurgeBuffer, bounds
  <1>3. ASSUME \/ \E w \in Write : LogWrite(w) \/ FinishWrite(w)
               \/ \E t \in Table : QueryLive(t)
               \/ QueryFiles \/ QueryDone \/ Crash \/ Restart \/ UNCHANGED vars
        PROVE  UNCHANGED <<storeFails, logFails>>
    BY <1>3 DEF LogWrite, FinishWrite, ApplyWrite, RefuseWrite, QueryLive, QueryFiles,
       QueryDone, Crash, Restart, vars, bounds
  <1>. QED  BY <1>1, <1>2, <1>3 DEF Next, NoFailure

\* Logging and applying a write (write_lp_internal).
LEMMA WriteCore ==
    ASSUME Base, Core, NEW w \in Write, LogWrite(w) \/ FinishWrite(w)
    PROVE  Core'
  <1>0. /\ wpc \in [Write -> {"unsent", "new", "logged", "acked", "refused", "unanswered"}]
        /\ buffer \in [Table -> SUBSET Write]
        /\ active \in DOMAIN gens
    BY DEF Base, TypeOK
  <1>1. /\ DOMAIN gens' = DOMAIN gens
        /\ UNCHANGED <<generation, active, up, hold, files, th, query, exempt, gone>>
        /\ wpc[w] \in {"new", "logged"} /\ up
    BY DEF LogWrite, FinishWrite, ApplyWrite, RefuseWrite
  <1>2. ASSUME NEW u \in Write, wpc[u] = "acked"
        PROVE  /\ u # w /\ wpc'[u] = "acked"
               /\ \A g \in DOMAIN gens : u \in gens'[g] <=> u \in gens[g]
               /\ \A t \in Table : u \in buffer'[t] <=> u \in buffer[t]
    <2>1. u # w
      BY <1>1, <1>2
    <2>. QED
      BY <1>0, <1>2, <2>1, SMTT(20) DEF LogWrite, FinishWrite, ApplyWrite, RefuseWrite, RowsOf
  <1>3. ASSUME NEW u \in Write, wpc'[u] = "acked", wpc[u] # "acked"
        PROVE  /\ u = w /\ wpc[w] = "logged" /\ gens' = gens
               /\ \A t \in TablesOf[w] : t \in Table => w \in buffer'[t]
    BY <1>0, <1>3, SMTT(20) DEF LogWrite, FinishWrite, ApplyWrite, RefuseWrite, RowsOf
  <1>4. /\ wpc[w] = "logged" => /\ w \in gens[active]
                                /\ \A g \in DOMAIN gens : w \in gens[g] => g = active
                                /\ \A t \in Table : w \notin hold[t]
        /\ \A f \in Thread : Flushing(f) => th[f].sealed < active
    BY DEF Base, Unapplied, LogOrder
  <1>5. \A f \in Thread : Flushing(f) => ~(active <= th[f].sealed)
    BY <1>4, EngineAssumption, SMTT(20) DEF Base, TypeOK
  <1>6. \A f \in Thread : Flushing(f)' <=> Flushing(f)
    BY <1>1 DEF Flushing
  <1>7. \A t \in Table : \A u \in Acked(t)' : u \in Acked(t) \/ (u = w /\ w \notin Acked(t) /\ wpc'[w] = "acked" /\ wpc[w] # "acked" /\ t \in TablesOf[w])
    BY <1>2, <1>3 DEF Acked
  <1>8. \A t \in Table : Acked(t) \subseteq Acked(t)'
    BY <1>2 DEF Acked
  <1>10. OneFlush' /\ HeldBySomeone'
    BY <1>1, <1>6 DEF Core, OneFlush, HeldBySomeone
  <1>11. FlushKeeps'
    <2>. SUFFICES ASSUME NEW f \in Thread, NEW t \in Table, NEW u \in Acked(t)', u \notin exempt[t]
                  PROVE  /\ Flushing(f) /\ (\E g \in DOMAIN gens : g <= th[f].sealed /\ u \in gens'[g])
                              => \/ u \in files[t]
                                 \/ /\ th[f].pc = "upload"
                                    /\ t \in th[f].todo \cup th[f].done
                                    /\ u \in th[f].snap[t]
                         /\ th[f].pc = "unhold" /\ u \in hold[t] => u \in files[t]
      BY <1>1, <1>6, SMTT(20) DEF FlushKeeps
    <2>1. CASE u \in Acked(t)
      BY <1>2, <2>1 DEF Acked, Core, FlushKeeps
    <2>2. CASE u = w /\ wpc'[w] = "acked" /\ wpc[w] # "acked"
      BY <1>3, <1>4, <1>5, <2>2
    <2>. QED  BY <1>7, <2>1, <2>2
  <1>12. LogIsBuffered'
    <2>. SUFFICES ASSUME NEW t \in Table, NEW u \in Acked(t)', u \notin exempt[t],
                         NEW g \in DOMAIN gens, u \in gens'[g]
                  PROVE  u \in buffer'[t] \/ \E f \in Thread : Flushing(f) /\ g <= th[f].sealed
      BY <1>1, <1>6 DEF LogIsBuffered
    <2>1. CASE u \in Acked(t)
      BY <1>1, <1>2, <2>1 DEF Acked, Core, LogIsBuffered
    <2>2. CASE u = w /\ wpc'[w] = "acked" /\ wpc[w] # "acked" /\ t \in TablesOf[w]
      BY <1>3, <2>2
    <2>. QED  BY <1>7, <2>1, <2>2
  <1>13. ASSUME NEW u \in Write, NEW t \in Table, NoWayBack(u, t)
         PROVE  NoWayBack(u, t)'
    BY <1>1, <1>2, <1>13 DEF NoWayBack, InLog
  <1>14. DropProgress'
    <2>1. /\ \A f \in Thread : th[f].before \in SUBSET Write
          /\ \A t \in Table : gone[t] \in SUBSET Write
      BY DEF Base, TypeOK
    <2>. QED  BY <1>1, <1>2, <1>6, <1>13, <2>1, SMTT(20) DEF Core, DropProgress
  <1>15. QueryCanFinish' /\ QuerySeesAcked'
    BY <1>1, <1>8 DEF Core, QueryCanFinish, QuerySeesAcked, Base, QueryHasTable
  <1>16. AckedDurable'
    <2>. SUFFICES ASSUME NEW t \in Table, NEW u \in Acked(t)', u \notin exempt[t]
                  PROVE  (InLog(u)' /\ t \in TablesOf[u]) \/ u \in files[t]
      BY <1>1, LoggedIs DEF AckedDurable, Durable
    <2>1. CASE u \in Acked(t)
      <3>1. InLog(u) \/ u \in files[t]
        BY <2>1, LoggedIs DEF Core, AckedDurable, Durable
      <3>. QED  BY <1>1, <1>2, <2>1, <3>1 DEF Acked, InLog
    <2>2. CASE u = w /\ wpc'[w] = "acked" /\ wpc[w] # "acked" /\ t \in TablesOf[w]
      BY <1>0, <1>1, <1>3, <1>4, <2>2 DEF InLog
    <2>. QED  BY <1>7, <2>1, <2>2
  <1>17. AckedReadable'
    <2>. SUFFICES ASSUME NEW t \in Table, NEW u \in Acked(t)', u \notin exempt[t]
                  PROVE  u \in buffer'[t] \/ u \in hold[t] \/ u \in files[t]
      BY <1>1 DEF AckedReadable, Readable
    <2>1. CASE u \in Acked(t)
      BY <1>1, <1>2, <2>1 DEF Acked, Core, AckedReadable, Readable
    <2>2. CASE u = w /\ wpc'[w] = "acked" /\ wpc[w] # "acked" /\ t \in TablesOf[w]
      BY <1>3, <2>2
    <2>. QED  BY <1>7, <2>1, <2>2
  <1>. QED
    BY <1>10, <1>11, <1>12, <1>14, <1>15, <1>16, <1>17 DEF Core

\* While no flush runs, the holding area is empty.
LEMMA NothingHeld ==
    ASSUME Core, \A h \in Thread : ~Flushing(h)
    PROVE  \A t \in Table : hold[t] = {}
  BY DEF Core, HeldBySomeone, Flushing

\* The critical section that begins a flush (flush_all).
LEMMA FlushBeginCore ==
    ASSUME Base, Core, ~Overlap, NEW f \in Thread, NEW target \in Table \cup {None},
           FlushBegin(f, target)
    PROVE  Core'
  <1>0. /\ th \in [Thread -> Locals] /\ buffer \in [Table -> SUBSET Write]
        /\ DOMAIN gens \subseteq 0 .. MaxGen /\ MaxGen \in Nat /\ generation \in 0 .. MaxGen
        /\ generation = active /\ \A g \in DOMAIN gens : g <= active
    BY EngineAssumption DEF Base, TypeOK, Locals, LogOrder, Core, OneFlush
  <1>1. up /\ \A h \in Thread : ~Flushing(h)
    BY DEF FlushBegin, Enters
  <1>2. /\ UNCHANGED <<up, wpc, files, query, exempt, gone>>
        /\ \A t \in Table : Acked(t)' = Acked(t)
    BY DEF FlushBegin, Acked
  <1>3. \A t \in Table : buffer'[t] = {} /\ hold'[t] = buffer[t]
    <2>1. \A t \in Table : hold[t] = {}
      BY <1>1, NothingHeld
    <2>. QED  BY <2>1 DEF FlushBegin, HandOver, Owned, NoRows
  <1>4. /\ generation' = generation + 1 /\ active' = generation'
        /\ DOMAIN gens' = DOMAIN gens \cup {active'} /\ gens'[active'] = {}
        /\ \A g \in DOMAIN gens : gens'[g] = gens[g]
    BY <1>0, SMTT(20) DEF FlushBegin, SealLog
  <1>5. /\ th'[f].pc = "upload" /\ th'[f].snap = buffer /\ th'[f].todo = Owned
        /\ th'[f].done = {} /\ th'[f].failed = {} /\ th'[f].sealed = generation
        /\ th'[f].target = target /\ th'[f].before = Promised(target)
    BY <1>0 DEF FlushBegin, Idle
  <1>6. \A h \in Thread : h # f => th'[h] = th[h]
    BY <1>0 DEF FlushBegin
  <1>7. \A h \in Thread : Flushing(h)' <=> h = f
    BY <1>1, <1>5, <1>6 DEF Flushing
  <1>8. /\ \A w : InLog(w)' <=> InLog(w)
        /\ \A w : \A g \in DOMAIN gens' : w \in gens'[g] => g \in DOMAIN gens /\ w \in gens[g]
    BY <1>4 DEF InLog
  <1>9. \A t \in Table : \A w \in buffer[t] : t \in Owned
    BY DEF Owned
  <1>10. OneFlush'
    <2>1. \A h \in Thread : h # f => th'[h].pc \notin {"upload", "unhold", "reclaim"}
      BY <1>1, <1>6 DEF Flushing
    <2>. QED  BY <1>4, <1>5, <1>6, <1>7, <2>1 DEF OneFlush, Core
  <1>11. HeldBySomeone'
    BY <1>3, <1>5, <1>9 DEF HeldBySomeone
  <1>12. FlushKeeps'
    <2>. SUFFICES ASSUME NEW h \in Thread, NEW t \in Table, NEW w \in Acked(t), w \notin exempt[t]
                  PROVE  /\ h = f /\ (\E g \in DOMAIN gens' : g <= th'[h].sealed /\ w \in gens'[g])
                              => \/ w \in files[t]
                                 \/ /\ th'[h].pc = "upload"
                                    /\ t \in th'[h].todo \cup th'[h].done
                                    /\ w \in th'[h].snap[t]
                         /\ th'[h].pc = "unhold" /\ w \in hold'[t] => w \in files[t]
      BY <1>2, <1>7 DEF FlushKeeps
    <2>1. InLog(w) => w \in buffer[t]
      BY <1>1 DEF Core, LogIsBuffered, InLog
    <2>2. th'[h].pc # "unhold"
      BY <1>1, <1>5, <1>6 DEF Flushing
    <2>. QED  BY <1>5, <1>8, <1>9, <2>1, <2>2 DEF InLog
  <1>13. LogIsBuffered'
    BY <1>0, <1>2, <1>5, <1>7, <1>8, SMTT(20) DEF LogIsBuffered
  <1>14. ASSUME NEW w \in Write, NEW t \in Table, NoWayBack(w, t)
         PROVE  NoWayBack(w, t)'
    <2>1. \A h \in Thread : th'[h].pc = "upload" => w \notin th'[h].snap[t]
      BY <1>5, <1>6, <1>14 DEF NoWayBack
    <2>. QED  BY <1>2, <1>3, <1>8, <1>14, <2>1 DEF NoWayBack
  <1>15. DropProgress'
    <2>1. /\ \A h \in Thread : th[h].before \in SUBSET Write
          /\ \A t \in Table : gone[t] \in SUBSET Write
      BY DEF Base, TypeOK
    <2>2. ASSUME NEW h \in Thread, NEW t \in Table, NEW w \in th'[h].before, t = th'[h].target
          PROVE  /\ h = f => /\ wpc'[w] = "acked" /\ w \notin buffer'[t]
                             /\ \A g \in DOMAIN gens' : w \in gens'[g] => g <= th'[h].sealed
                 /\ th'[h].pc \in {"drop", "purgeHold", "purgeBuffer"} => NoWayBack(w, t)'
                 /\ th'[h].pc \in {"purgeHold", "purgeBuffer"} => w \notin files'[t]
      <3>1. CASE h = f
        <4>1. w \in Acked(target) /\ target \in Table
          BY <1>5, <2>2, <3>1, EngineAssumption DEF Promised
        <4>. QED  BY <1>0, <1>2, <1>3, <1>5, <1>8, <3>1, <4>1, SMTT(20) DEF Acked
      <3>2. CASE h # f
        BY <1>2, <1>6, <1>14, <2>1, <2>2, <3>2 DEF Core, DropProgress
      <3>. QED  BY <3>1, <3>2
    <2>3. \A t \in Table : \A w \in gone'[t] : NoWayBack(w, t)' /\ w \notin files'[t]
      BY <1>2, <1>14, <2>1 DEF Core, DropProgress
    <2>. QED  BY <1>7, <2>2, <2>3 DEF DropProgress
  <1>16. QueryCanFinish' /\ QuerySeesAcked'
    BY <1>2 DEF Core, QueryCanFinish, QuerySeesAcked, Base, QueryHasTable
  <1>17. AckedDurable' /\ AckedReadable'
    <2>1. \A t \in Table : \A w \in Acked(t)' :
             w \notin exempt'[t] => InLog(w)' \/ w \in files'[t]
      BY <1>2, <1>8, AckedAre DEF Core
    <2>2. \A t \in Table : \A w \in Acked(t)' :
             w \notin exempt'[t] => w \in buffer'[t] \/ w \in hold'[t] \/ w \in files'[t]
      BY <1>1, <1>2, <1>3, AckedAre, NothingHeld DEF Core
    <2>. QED  BY <2>1, <2>2, AckedAre
  <1>. QED
    BY <1>10, <1>11, <1>12, <1>13, <1>15, <1>16, <1>17 DEF Core

\* A drop that finds nothing buffered: what it promised to remove is in
\* files only (drop_table after a flush_all that returned Ok(0)).
LEMMA FlushNothingCore ==
    ASSUME Base, Core, ~Overlap, NEW f \in Thread, NEW target \in Table \cup {None},
           FlushNothing(f, target)
    PROVE  Core'
  <1>0. /\ th \in [Thread -> Locals] /\ target \in Table
        /\ up /\ Owned = {} /\ \A h \in Thread : ~Flushing(h)
    BY DEF Base, TypeOK, Locals, FlushNothing, Enters
  <1>1. UNCHANGED <<gens, generation, active, up, wpc, buffer, hold, files, query, exempt, gone>>
    BY DEF FlushNothing
  <1>2. /\ th'[f].pc = "drop" /\ th'[f].failed = {} /\ th'[f].target = target
        /\ th'[f].before = Promised(target)
        /\ \A h \in Thread : h # f => th'[h] = th[h]
    BY <1>0 DEF FlushNothing, Idle
  <1>3. \A h \in Thread : ~Flushing(h)'
    BY <1>0, <1>2 DEF Flushing
  <1>4. \A t \in Table : buffer[t] = {} /\ hold[t] = {}
    BY <1>0, NothingHeld DEF Owned
  <1>5. \A t \in Table : Acked(t)' = Acked(t)
    BY <1>1 DEF Acked
  <1>6. \A h \in Thread : th[h].pc \notin {"upload", "unhold"} /\ th'[h].pc \notin {"upload", "unhold"}
    BY <1>0, <1>3 DEF Flushing
  <1>7. OneFlush' /\ HeldBySomeone' /\ FlushKeeps' /\ LogIsBuffered'
    <2>1. OneFlush'
      BY <1>0, <1>1, <1>2, <1>3 DEF Core, OneFlush
    <2>2. HeldBySomeone'
      BY <1>1, <1>4 DEF HeldBySomeone
    <2>3. FlushKeeps'
      BY <1>3, <1>6 DEF FlushKeeps
    <2>4. LogIsBuffered'
      BY <1>0, <1>1, <1>5 DEF Core, LogIsBuffered
    <2>. QED  BY <2>1, <2>2, <2>3, <2>4
  <1>8. ASSUME NEW w \in Write, NEW t \in Table, wpc[w] = "acked", ~InLog(w)
        PROVE  NoWayBack(w, t)'
    BY <1>1, <1>4, <1>6, <1>8 DEF NoWayBack, InLog
  <1>9. ASSUME NEW w \in Promised(target)
        PROVE  w \in Write /\ wpc[w] = "acked" /\ ~InLog(w)
    <2>1. w \in Acked(target) \ exempt[target]
      BY <1>0, <1>9, EngineAssumption DEF Promised
    <2>2. ~InLog(w)
      BY <1>0, <1>4, <2>1 DEF Core, LogIsBuffered, InLog
    <2>. QED  BY <2>1, <2>2 DEF Acked
  <1>10. DropProgress'
    <2>1. /\ \A h \in Thread : th[h].before \in SUBSET Write
          /\ \A t \in Table : gone[t] \in SUBSET Write
      BY DEF Base, TypeOK
    <2>2. ASSUME NEW h \in Thread, NEW t \in Table, NEW w \in th'[h].before, t = th'[h].target
          PROVE  /\ th'[h].pc \in {"drop", "purgeHold", "purgeBuffer"} => NoWayBack(w, t)'
                 /\ th'[h].pc \in {"purgeHold", "purgeBuffer"} => w \notin files'[t]
      <3>1. CASE h = f
        BY <1>2, <1>8, <1>9, <2>2, <3>1
      <3>2. CASE h # f
        BY <1>1, <1>2, <1>8, <2>1, <2>2, <3>2, SMTT(20) DEF Core, DropProgress, NoWayBack
      <3>. QED  BY <3>1, <3>2
    <2>3. \A t \in Table : \A w \in gone'[t] : NoWayBack(w, t)' /\ w \notin files'[t]
      BY <1>1, <1>8, <2>1 DEF Core, DropProgress, NoWayBack
    <2>. QED  BY <1>3, <2>2, <2>3 DEF DropProgress
  <1>11. QueryCanFinish' /\ QuerySeesAcked'
    BY <1>1, <1>5 DEF Core, QueryCanFinish, QuerySeesAcked, Base, QueryHasTable
  <1>12. AckedDurable' /\ AckedReadable'
    <2>1. \A t \in Table : Durable(t)' = Durable(t) /\ Readable(t)' = Readable(t)
      BY <1>1 DEF Durable, Readable, RowsOf, Logged
    <2>. QED  BY <1>1, <1>5, <2>1 DEF Core, AckedDurable, AckedReadable
  <1>. QED
    BY <1>7, <1>10, <1>11, <1>12 DEF Core

\* A table's file is put (flush_one): the rows stay where they were.
LEMMA FlushOneCore ==
    ASSUME Base, Core, NEW f \in Thread, NEW s \in Table, FlushOne(f, s)
    PROVE  Core'
  <1>0. th \in [Thread -> Locals]
    BY DEF Base, TypeOK, Locals
  <1>1. UNCHANGED <<gens, generation, active, up, wpc, buffer, hold, files, query, exempt, gone>>
    BY DEF FlushOne
  <1>2. \A h \in Thread :
           /\ th'[h].pc = th[h].pc /\ th'[h].snap = th[h].snap /\ th'[h].failed = th[h].failed
           /\ th'[h].sealed = th[h].sealed /\ th'[h].target = th[h].target
           /\ th'[h].before = th[h].before
           /\ th'[h].todo \cup th'[h].done = th[h].todo \cup th[h].done
           /\ th[h].pc # "upload" => th'[h].todo = th[h].todo
    BY <1>0, SMTT(20) DEF FlushOne, Locals
  <1>3. /\ \A h \in Thread : Flushing(h)' <=> Flushing(h)
        /\ \A t \in Table : Acked(t)' = Acked(t)
    BY <1>1, <1>2 DEF Flushing, Acked
  <1>4. OneFlush' /\ HeldBySomeone'
    BY <1>1, <1>2, <1>3, SMTT(20) DEF Core, OneFlush, HeldBySomeone
  <1>5. FlushKeeps'
    BY <1>1, <1>2, <1>3, SMTT(20) DEF Core, FlushKeeps
  <1>6. LogIsBuffered'
    BY <1>1, <1>2, <1>3, SMTT(20) DEF Core, LogIsBuffered
  <1>7. \A w, t : NoWayBack(w, t)' <=> NoWayBack(w, t)
    BY <1>1, <1>2, SMTT(20) DEF NoWayBack, InLog
  <1>8. DropProgress'
    BY <1>1, <1>2, <1>3, <1>7, SMTT(20) DEF Core, DropProgress
  <1>9. QueryCanFinish' /\ QuerySeesAcked'
    BY <1>1, <1>3 DEF Core, QueryCanFinish, QuerySeesAcked, Base, QueryHasTable
  <1>10. AckedDurable' /\ AckedReadable'
    <2>1. \A t \in Table : Durable(t)' = Durable(t) /\ Readable(t)' = Readable(t)
      BY <1>1 DEF Durable, Readable, RowsOf, Logged
    <2>. QED  BY <1>1, <1>3, <2>1 DEF Core, AckedDurable, AckedReadable
  <1>. QED
    BY <1>4, <1>5, <1>6, <1>8, <1>9, <1>10 DEF Core

\* A step that gives no row a way back and leaves a thread where its drop has
\* got keeps what that drop has done (drop_table).
LEMMA DropKept ==
    ASSUME Base, DropProgress, NEW h \in Thread, UNCHANGED <<wpc, gens>>,
           th'[h].before = th[h].before, th'[h].target = th[h].target,
           th'[h].sealed = th[h].sealed, Flushing(h)' => Flushing(h),
           th'[h].pc \in {"drop", "purgeHold", "purgeBuffer"} => th'[h].pc = th[h].pc,
           \A t \in Table : buffer'[t] \subseteq buffer[t],
           \A t \in Table : \A w \in Write : NoWayBack(w, t) => NoWayBack(w, t)',
           \A t \in Table : \A w \in Write :
              NoWayBack(w, t) /\ w \notin files[t] => w \notin files'[t]
    PROVE  \A t \in Table : \A w \in th'[h].before : t = th'[h].target =>
              /\ Flushing(h)' =>
                    /\ wpc'[w] = "acked" /\ w \notin buffer'[t]
                    /\ \A g \in DOMAIN gens' : w \in gens'[g] => g <= th'[h].sealed
              /\ th'[h].pc \in {"drop", "purgeHold", "purgeBuffer"} => NoWayBack(w, t)'
              /\ th'[h].pc \in {"purgeHold", "purgeBuffer"} => w \notin files'[t]
  <1>1. TAKE t \in Table
  <1>2. TAKE w \in th'[h].before
  <1>3. HAVE t = th'[h].target
  <1>4. w \in th[h].before /\ t = th[h].target /\ w \in Write
    BY <1>3 DEF Base, TypeOK
  <1>5. /\ Flushing(h) => /\ wpc[w] = "acked" /\ w \notin buffer[t]
                          /\ \A g \in DOMAIN gens : w \in gens[g] => g <= th[h].sealed
        /\ th[h].pc \in {"drop", "purgeHold", "purgeBuffer"} => NoWayBack(w, t)
        /\ th[h].pc \in {"purgeHold", "purgeBuffer"} => w \notin files[t]
    BY <1>4 DEF DropProgress
  <1>6. Flushing(h)' => /\ wpc'[w] = "acked" /\ w \notin buffer'[t]
                        /\ \A g \in DOMAIN gens' : w \in gens'[g] => g <= th'[h].sealed
    BY <1>5
  <1>7. th'[h].pc \in {"drop", "purgeHold", "purgeBuffer"} => NoWayBack(w, t)'
    BY <1>4, <1>5
  <1>8. th'[h].pc \in {"purgeHold", "purgeBuffer"} => w \notin files'[t]
    BY <1>4, <1>5
  <1>. QED  BY <1>6, <1>7, <1>8

\* commit_add: what the flush holds is in files when its rows may be let go.
LEMMA FlushCommitCore ==
    ASSUME Base, Core, NEW f \in Thread, FlushCommit(f)
    PROVE  Core'
  <1>0. th \in [Thread -> Locals]
    BY DEF Base, TypeOK, Locals
  <1>1. /\ UNCHANGED <<gens, generation, active, up, wpc, buffer, hold, query, exempt, gone>>
        /\ th[f].pc = "upload" /\ th[f].todo = {}
        /\ \A t \in Table : files'[t] = files[t] \cup (IF t \in th[f].done THEN th[f].snap[t] ELSE {})
    BY DEF FlushCommit, Committed
  <1>2. /\ th'[f].pc = "unhold"
        /\ \A h \in Thread : h # f => th'[h] = th[h]
        /\ \A h \in Thread :
              /\ th'[h].snap = th[h].snap /\ th'[h].failed = th[h].failed
              /\ th'[h].sealed = th[h].sealed /\ th'[h].target = th[h].target
              /\ th'[h].before = th[h].before
              /\ th'[h].todo = th[h].todo /\ th'[h].done = th[h].done
    BY <1>0 DEF FlushCommit, Locals
  <1>3. /\ \A h \in Thread : Flushing(h)' <=> Flushing(h)
        /\ \A t \in Table : Acked(t)' = Acked(t)
        /\ \A h \in Thread : Flushing(h) => h = f
    BY <1>1, <1>2 DEF Flushing, Acked, Core, OneFlush
  <1>4. OneFlush' /\ HeldBySomeone'
    <2>1. OneFlush'
      BY <1>1, <1>2, <1>3, SMTT(20) DEF Core, OneFlush
    <2>2. HeldBySomeone'
      BY <1>1, <1>2, <1>3, SMTT(20) DEF Core, HeldBySomeone
    <2>. QED  BY <2>1, <2>2
  <1>5. FlushKeeps'
    <2>. SUFFICES ASSUME NEW h \in Thread, NEW t \in Table, NEW w \in Acked(t), w \notin exempt[t]
                  PROVE  /\ Flushing(h) /\ (\E g \in DOMAIN gens : g <= th[h].sealed /\ w \in gens[g])
                              => w \in files'[t]
                         /\ th'[h].pc = "unhold" /\ w \in hold[t] => w \in files'[t]
      BY <1>1, <1>2, <1>3, SMTT(20) DEF FlushKeeps
    <2>1. Flushing(h) /\ (\E g \in DOMAIN gens : g <= th[h].sealed /\ w \in gens[g])
             => w \in files'[t]
      BY <1>1, <1>3, SMTT(20) DEF Core, FlushKeeps
    <2>2. w \in hold[t] => w \in files'[t]
      BY <1>1, <1>3 DEF Core, HeldBySomeone, Flushing
    <2>. QED  BY <2>1, <2>2
  <1>6. LogIsBuffered'
    BY <1>1, <1>2, <1>3, SMTT(20) DEF Core, LogIsBuffered
  <1>7. \A w, t : NoWayBack(w, t) => NoWayBack(w, t)'
    BY <1>1, <1>2 DEF NoWayBack, InLog
  <1>8. \A t \in Table : \A w \in Write :
           NoWayBack(w, t) /\ w \notin files[t] => w \notin files'[t]
    BY <1>1 DEF NoWayBack
  <1>9. DropProgress'
    <2>1. /\ \A h \in Thread : th[h].before \in SUBSET Write
          /\ \A t \in Table : gone[t] \in SUBSET Write
      BY DEF Base, TypeOK
    <2>2. \A h \in Thread : th'[h].pc \in {"drop", "purgeHold", "purgeBuffer"} => th'[h].pc = th[h].pc
      BY <1>2
    <2>3. UNCHANGED <<wpc, gens, buffer, gone>> /\ DropProgress
      BY <1>1 DEF Core
    <2>4. \A t \in Table : \A w \in gone'[t] : NoWayBack(w, t)' /\ w \notin files'[t]
      BY <1>7, <1>8, <2>1, <2>3 DEF DropProgress
    <2>. QED  BY <1>2, <1>3, <1>7, <1>8, <2>2, <2>3, <2>4, DropKept DEF DropProgress
  <1>10. QueryCanFinish' /\ QuerySeesAcked'
    BY <1>1, <1>3 DEF Core, QueryCanFinish, QuerySeesAcked, Base, QueryHasTable
  <1>11. AckedDurable' /\ AckedReadable'
    <2>1. \A t \in Table : Durable(t) \subseteq Durable(t)' /\ Readable(t) \subseteq Readable(t)'
      BY <1>1 DEF Durable, Readable, RowsOf, Logged
    <2>. QED  BY <1>1, <1>3, <2>1 DEF Core, AckedDurable, AckedReadable
  <1>. QED
    BY <1>4, <1>5, <1>6, <1>9, <1>10, <1>11 DEF Core

\* The flushing slots of committed tables are cleared.
LEMMA FlushUnholdCore ==
    ASSUME Base, Core, NEW f \in Thread, FlushUnhold(f)
    PROVE  Core'
  <1>0. th \in [Thread -> Locals]
    BY DEF Base, TypeOK, Locals
  <1>1. /\ UNCHANGED <<gens, generation, active, up, wpc, buffer, files, query, exempt, gone>>
        /\ th[f].pc = "unhold"
        /\ \A t \in Table : hold'[t] \subseteq hold[t]
    BY DEF FlushUnhold
  <1>2. /\ th'[f].pc = "reclaim"
        /\ \A h \in Thread : h # f => th'[h] = th[h]
        /\ \A h \in Thread :
              /\ th'[h].snap = th[h].snap /\ th'[h].failed = th[h].failed
              /\ th'[h].sealed = th[h].sealed /\ th'[h].target = th[h].target
              /\ th'[h].before = th[h].before
              /\ th'[h].todo = th[h].todo /\ th'[h].done = th[h].done
    BY <1>0 DEF FlushUnhold, Locals
  <1>3. /\ \A h \in Thread : Flushing(h)' <=> Flushing(h)
        /\ \A t \in Table : Acked(t)' = Acked(t)
        /\ \A h \in Thread : Flushing(h) => h = f
    BY <1>1, <1>2 DEF Flushing, Acked, Core, OneFlush
  <1>4. \A t \in Table : hold'[t] = {}
    <2>1. \A t \in Table : \A w \in hold[t] : t \in th[f].done
      BY <1>1, <1>3 DEF Core, OneFlush, HeldBySomeone, Flushing
    <2>. QED  BY <1>1, <2>1 DEF FlushUnhold
  <1>5. OneFlush' /\ HeldBySomeone'
    <2>1. OneFlush'
      BY <1>1, <1>2, <1>3, SMTT(20) DEF Core, OneFlush
    <2>2. HeldBySomeone'
      BY <1>4 DEF HeldBySomeone
    <2>. QED  BY <2>1, <2>2
  <1>6. FlushKeeps'
    <2>1. \A h \in Thread : th'[h].pc # "unhold"
      BY <1>2, <1>3 DEF Flushing
    <2>. QED  BY <1>1, <1>2, <1>3, <2>1, SMTT(20) DEF Core, FlushKeeps
  <1>7. LogIsBuffered'
    BY <1>1, <1>2, <1>3, SMTT(20) DEF Core, LogIsBuffered
  <1>8. \A t \in Table : \A w \in Write : NoWayBack(w, t) => NoWayBack(w, t)'
    BY <1>1, <1>2 DEF NoWayBack, InLog
  <1>9. DropProgress'
    <2>1. /\ \A h \in Thread : th[h].before \in SUBSET Write
          /\ \A t \in Table : gone[t] \in SUBSET Write
      BY DEF Base, TypeOK
    <2>2. \A h \in Thread : th'[h].pc \in {"drop", "purgeHold", "purgeBuffer"} => th'[h].pc = th[h].pc
      BY <1>2
    <2>3. UNCHANGED <<wpc, gens, buffer, files, gone>> /\ DropProgress
      BY <1>1 DEF Core
    <2>4. \A t \in Table : \A w \in gone'[t] : NoWayBack(w, t)' /\ w \notin files'[t]
      BY <1>8, <2>1, <2>3 DEF DropProgress
    <2>. QED  BY <1>2, <1>3, <1>8, <2>2, <2>3, <2>4, DropKept DEF DropProgress
  <1>10. QueryCanFinish' /\ QuerySeesAcked'
    BY <1>1, <1>3 DEF Core, QueryCanFinish, QuerySeesAcked, Base, QueryHasTable
  <1>11. AckedDurable' /\ AckedReadable'
    <2>1. \A t \in Table : \A w \in Acked(t)' :
             w \notin exempt'[t] => InLog(w)' \/ w \in files'[t]
      BY <1>1, <1>3, AckedAre DEF Core, InLog
    <2>2. ASSUME up PROVE \A t \in Table : \A w \in Acked(t)' :
             w \notin exempt'[t] => w \in buffer'[t] \/ w \in hold'[t] \/ w \in files'[t]
      <3>1. \A t \in Table : \A w \in Acked(t) : w \notin exempt[t] =>
               (w \in hold[t] => w \in files[t])
        BY <1>1 DEF Core, FlushKeeps
      <3>. QED  BY <1>1, <1>3, <2>2, <3>1, AckedAre DEF Core
    <2>. QED  BY <1>1, <2>1, <2>2, AckedAre
  <1>. QED
    BY <1>5, <1>6, <1>7, <1>9, <1>10, <1>11 DEF Core

\* delete_generations_upto: the generations that go have their rows in files.
LEMMA FlushReclaimCore ==
    ASSUME Base, Core, NEW f \in Thread, FlushReclaim(f)
    PROVE  Core'
  <1>0. /\ th \in [Thread -> Locals] /\ MaxGen \in Nat /\ DOMAIN gens \subseteq 0 .. MaxGen
        /\ th[f].failed = {} /\ generation = active /\ active \in DOMAIN gens
        /\ \A h \in Thread : th[h].sealed \in 0 .. MaxGen
    BY EngineAssumption DEF Base, TypeOK, Locals, Core, OneFlush
  <1>1. /\ UNCHANGED <<generation, active, up, wpc, buffer, hold, files, query, exempt, gone>>
        /\ th[f].pc = "reclaim" /\ Flushing(f) /\ up
    BY DEF FlushReclaim, Flushing
  <1>2. /\ \A g : g \in DOMAIN gens' <=> g \in DOMAIN gens /\ g > th[f].sealed
        /\ \A g \in DOMAIN gens' : gens'[g] = gens[g]
    <2>1. gens' = Restrict(gens, {g \in DOMAIN gens : g > th[f].sealed \/ g = generation})
      BY <1>0 DEF FlushReclaim, Reclaimed
    <2>2. generation > th[f].sealed
      BY <1>0, <1>1 DEF Base, LogOrder
    <2>. QED  BY <2>1, <2>2 DEF Restrict
  <1>3. /\ \A h \in Thread : h # f => th'[h] = th[h]
        /\ th'[f] = Idle \/ /\ th'[f] = [th[f] EXCEPT !.pc = "drop"]
                            /\ th[f].target \in Table
    BY <1>0 DEF FlushReclaim, Locals
  <1>4. /\ \A h \in Thread : Flushing(h) => h = f
        /\ \A t \in Table : Acked(t)' = Acked(t)
    BY <1>1 DEF Acked, Core, OneFlush
  <1>5. \A h \in Thread : ~Flushing(h)'
    BY <1>0, <1>3, <1>4, IdleType, SMTT(20) DEF Flushing, Locals
  <1>6. \A t \in Table : hold[t] = {}
    BY <1>1, <1>4 DEF Core, HeldBySomeone, Flushing
  <1>7. \A w : InLog(w)' <=> \E g \in DOMAIN gens : g > th[f].sealed /\ w \in gens[g]
    BY <1>2 DEF InLog
  <1>8. \A h \in Thread : th'[h].pc \notin {"upload", "unhold"}
    BY <1>5 DEF Flushing
  <1>9. OneFlush' /\ HeldBySomeone' /\ FlushKeeps'
    <2>1. \A h \in Thread :
            /\ th'[h].failed = {}
            /\ th'[h].pc \in {"drop", "purgeHold", "purgeBuffer"} => th'[h].target \in Table
      <3>1. /\ th[f].failed = {}
            /\ \A h \in Thread : h # f =>
                  /\ th'[h].failed = {}
                  /\ th'[h].pc \in {"drop", "purgeHold", "purgeBuffer"} => th'[h].target \in Table
        BY <1>3 DEF Core, OneFlush
      <3>2. CASE th'[f] = Idle
        BY <3>1, <3>2, IdleType
      <3>3. CASE th'[f] = [th[f] EXCEPT !.pc = "drop"] /\ th[f].target \in Table
        <4>1. th'[f].failed = th[f].failed /\ th'[f].target = th[f].target
          BY <1>0, <3>3 DEF Locals
        <4>. QED  BY <3>1, <3>3, <4>1
      <3>. QED  BY <1>3, <3>2, <3>3
    <2>2. OneFlush'
      BY <1>0, <1>1, <1>5, <2>1 DEF OneFlush, Flushing
    <2>3. HeldBySomeone'
      BY <1>1, <1>6 DEF HeldBySomeone
    <2>4. FlushKeeps'
      BY <1>5, <1>8 DEF FlushKeeps
    <2>. QED  BY <2>2, <2>3, <2>4
  <1>10. LogIsBuffered'
    <2>. SUFFICES ASSUME NEW t \in Table, NEW w \in Acked(t), w \notin exempt[t],
                         NEW g \in DOMAIN gens', w \in gens'[g]
                  PROVE  w \in buffer[t]
      BY <1>1, <1>4 DEF LogIsBuffered
    <2>1. \/ w \in buffer[t]
          \/ \E h \in Thread : Flushing(h) /\ g <= th[h].sealed
      BY <1>1, <1>2 DEF Core, LogIsBuffered
    <2>. QED  BY <1>0, <1>2, <1>4, <2>1, SMTT(20)
  <1>11. \A t \in Table : \A w \in Write : NoWayBack(w, t) => NoWayBack(w, t)'
    <2>1. \A w : InLog(w)' => InLog(w)
      BY <1>7 DEF InLog
    <2>. QED  BY <1>1, <1>8, <2>1 DEF NoWayBack
  <1>12. DropProgress'
    <2>1. /\ \A h \in Thread : th[h].before \in SUBSET Write
          /\ \A t \in Table : gone[t] \in SUBSET Write
      BY DEF Base, TypeOK
    <2>2. ASSUME NEW h \in Thread, NEW t \in Table, NEW w \in th'[h].before, t = th'[h].target
          PROVE  /\ th'[h].pc \in {"drop", "purgeHold", "purgeBuffer"} => NoWayBack(w, t)'
                 /\ th'[h].pc \in {"purgeHold", "purgeBuffer"} => w \notin files'[t]
      <3>1. CASE h # f
        BY <1>1, <1>3, <1>11, <2>1, <2>2, <3>1 DEF Core, DropProgress
      <3>2. CASE h = f /\ th'[f] = Idle
        BY <3>2, IdleType
      <3>3. CASE h = f /\ th'[f] = [th[f] EXCEPT !.pc = "drop"]
        <4>1. th'[f].pc = "drop" /\ th'[f].before = th[f].before /\ th'[f].target = th[f].target
          BY <1>0, <3>3, SMTT(20) DEF Locals
        <4>2. /\ wpc[w] = "acked" /\ w \notin buffer[t]
              /\ \A g \in DOMAIN gens : w \in gens[g] => g <= th[f].sealed
          BY <1>1, <2>2, <3>3, <4>1, SMTT(20) DEF Core, DropProgress
        <4>3. ~InLog(w)'
          BY <1>0, <1>7, <4>2, SMTT(20)
        <4>4. NoWayBack(w, t)'
          BY <1>1, <1>6, <1>8, <4>2, <4>3 DEF NoWayBack
        <4>. QED  BY <3>3, <4>1, <4>4
      <3>. QED  BY <1>3, <3>1, <3>2, <3>3
    <2>3. \A t \in Table : \A w \in gone'[t] : NoWayBack(w, t)' /\ w \notin files'[t]
      BY <1>1, <1>11, <2>1 DEF Core, DropProgress
    <2>. QED  BY <1>5, <2>2, <2>3 DEF DropProgress
  <1>13. QueryCanFinish' /\ QuerySeesAcked'
    BY <1>1, <1>4 DEF Core, QueryCanFinish, QuerySeesAcked, Base, QueryHasTable
  <1>14. AckedDurable' /\ AckedReadable'
    <2>1. \A t \in Table : \A w \in Acked(t)' :
             w \notin exempt'[t] => InLog(w)' \/ w \in files'[t]
      <3>. SUFFICES ASSUME NEW t \in Table, NEW w \in Acked(t), w \notin exempt[t]
                    PROVE  InLog(w)' \/ w \in files[t]
        BY <1>1, <1>4
      <3>1. InLog(w) \/ w \in files[t]
        BY AckedAre DEF Core
      <3>2. ASSUME NEW g \in DOMAIN gens, w \in gens[g], g <= th[f].sealed
            PROVE  w \in files[t]
        BY <1>1, <3>2 DEF Core, FlushKeeps
      <3>. QED  BY <1>0, <1>7, <3>1, <3>2, SMTT(20) DEF InLog
    <2>2. AckedReadable'
      BY <1>1, <1>4, AckedAre DEF Core
    <2>. QED  BY <2>1, <2>2, AckedAre
  <1>. QED
    BY <1>9, <1>10, <1>12, <1>13, <1>14 DEF Core

\* The three steps of drop_table that take rows away: the rows written so far
\* are no longer promised, and those promised to the drop have no way back.
LEMMA DropCore ==
    ASSUME Base, Core, NEW f \in Thread, CommitDrop(f) \/ PurgeHold(f) \/ PurgeBuffer(f)
    PROVE  Core'
  <1>. DEFINE s == th[f].target
  <1>0. /\ th \in [Thread -> Locals] /\ s \in Table
        /\ th[f].pc \in {"drop", "purgeHold", "purgeBuffer"}
        /\ \A v \in {buffer, hold, files, exempt, gone} : v \in [Table -> SUBSET Write]
    BY DEF Base, TypeOK, Locals, Core, OneFlush, CommitDrop, PurgeHold, PurgeBuffer
  <1>1. /\ UNCHANGED <<gens, generation, active, up, wpc, query>>
        /\ \A t \in Table : /\ buffer'[t] \subseteq buffer[t]
                            /\ hold'[t] \subseteq hold[t]
                            /\ files'[t] \subseteq files[t]
        /\ \A t \in Table : t # s => /\ buffer'[t] = buffer[t] /\ hold'[t] = hold[t]
                                     /\ files'[t] = files[t] /\ exempt'[t] = exempt[t]
        /\ exempt'[s] = exempt[s] \cup Acked(s)
    BY <1>0 DEF CommitDrop, PurgeHold, PurgeBuffer
  <1>2. /\ \A h \in Thread : h # f => th'[h] = th[h]
        /\ th'[f].failed = {}
        /\ \/ /\ th[f].pc = "drop" /\ th'[f].pc = "purgeHold" /\ files'[s] = {}
              /\ th'[f].before = th[f].before /\ th'[f].target = s
              /\ UNCHANGED gone
           \/ /\ th[f].pc = "purgeHold" /\ th'[f].pc = "purgeBuffer"
              /\ th'[f].before = th[f].before /\ th'[f].target = s
              /\ UNCHANGED gone
           \/ /\ th[f].pc = "purgeBuffer" /\ th'[f] = Idle
              /\ gone' = [gone EXCEPT ![s] = @ \cup th[f].before]
    <2>1. th[f].failed = {}
      BY DEF Core, OneFlush
    <2>2. CASE CommitDrop(f)
      BY <1>0, <2>1, <2>2 DEF CommitDrop, Locals
    <2>3. CASE PurgeHold(f)
      BY <1>0, <2>1, <2>3 DEF PurgeHold, Locals
    <2>4. CASE PurgeBuffer(f)
      BY <1>0, <2>1, <2>4, IdleType DEF PurgeBuffer, Locals
    <2>. QED  BY <2>2, <2>3, <2>4
  <1>3. /\ \A h \in Thread : Flushing(h)' <=> Flushing(h)
        /\ \A h \in Thread : Flushing(h) \/ th'[h].pc \in {"upload", "unhold"} => th'[h] = th[h]
    BY <1>0, <1>2, IdleType DEF Flushing
  <1>4. /\ \A t \in Table : Acked(t)' = Acked(t)
        /\ \A t \in Table : \A w \in Acked(t) : w \notin exempt'[t] => t # s /\ w \notin exempt[t]
    BY <1>1 DEF Acked
  <1>. HIDE DEF s
  <1>5. OneFlush' /\ HeldBySomeone'
    <2>1. OneFlush'
      <3>1. \A h \in Thread : th'[h].failed = {}
        BY <1>2 DEF Core, OneFlush
      <3>2. \A h \in Thread : th'[h].pc \in {"drop", "purgeHold", "purgeBuffer"} => th'[h].target \in Table
        BY <1>0, <1>2, IdleType DEF Core, OneFlush
      <3>3. \A h \in Thread : th'[h].pc \in {"unhold", "reclaim"} => th'[h].todo = {}
        BY <1>3 DEF Core, OneFlush, Flushing
      <3>. QED  BY <1>1, <1>3, <3>1, <3>2, <3>3 DEF Core, OneFlush
    <2>2. HeldBySomeone'
      BY <1>1, <1>3 DEF Core, HeldBySomeone, Flushing
    <2>. QED  BY <2>1, <2>2
  <1>6. FlushKeeps'
    <2>. SUFFICES ASSUME NEW h \in Thread, NEW t \in Table, NEW w \in Acked(t), w \notin exempt[t],
                         t # s, th'[h] = th[h]
                  PROVE  /\ Flushing(h) /\ (\E g \in DOMAIN gens : g <= th[h].sealed /\ w \in gens[g])
                              => \/ w \in files[t]
                                 \/ /\ th[h].pc = "upload"
                                    /\ t \in th[h].todo \cup th[h].done
                                    /\ w \in th[h].snap[t]
                         /\ th[h].pc = "unhold" /\ w \in hold[t] => w \in files[t]
      BY <1>1, <1>3, <1>4, SMTT(20) DEF FlushKeeps
    <2>. QED  BY DEF Core, FlushKeeps
  <1>7. LogIsBuffered'
    BY <1>1, <1>3, <1>4, SMTT(20) DEF Core, LogIsBuffered
  <1>8. \A t \in Table : \A w \in Write : NoWayBack(w, t) => NoWayBack(w, t)'
    BY <1>1, <1>3, SMTT(20) DEF NoWayBack, InLog
  <1>9. DropProgress'
    <2>1. /\ \A h \in Thread : th[h].before \in SUBSET Write
          /\ \A t \in Table : gone[t] \in SUBSET Write
      BY DEF Base, TypeOK
    <2>2. ASSUME NEW h \in Thread, NEW t \in Table, NEW w \in th'[h].before, t = th'[h].target
          PROVE  /\ Flushing(h)' =>
                       /\ wpc'[w] = "acked" /\ w \notin buffer'[t]
                       /\ \A g \in DOMAIN gens' : w \in gens'[g] => g <= th'[h].sealed
                 /\ th'[h].pc \in {"drop", "purgeHold", "purgeBuffer"} => NoWayBack(w, t)'
                 /\ th'[h].pc \in {"purgeHold", "purgeBuffer"} => w \notin files'[t]
      <3>1. CASE h # f
        <4>1. th'[h] = th[h] /\ UNCHANGED <<wpc, gens>> /\ DropProgress
          BY <1>1, <1>2, <3>1 DEF Core
        <4>. QED  BY <1>1, <1>3, <1>8, <2>2, <4>1, DropKept
      <3>2. CASE h = f /\ th'[f] = Idle
        BY <1>3, <3>2, IdleType DEF Flushing
      <3>3. CASE h = f /\ th'[f].pc \in {"purgeHold", "purgeBuffer"}
        <4>1. /\ th[f].pc \in {"drop", "purgeHold", "purgeBuffer"} /\ th'[f].target = s
              /\ w \in th[f].before
              /\ th'[f].pc = "purgeHold" => files'[s] = {}
              /\ th'[f].pc = "purgeBuffer" => th[f].pc = "purgeHold"
          BY <1>2, <2>2, <3>3, IdleType
        <4>2. /\ NoWayBack(w, s)
              /\ th[f].pc = "purgeHold" => w \notin files[s]
          BY <1>0, <4>1 DEF Core, DropProgress, s
        <4>3. NoWayBack(w, t)' /\ ~Flushing(f)'
          BY <1>0, <1>8, <2>1, <2>2, <3>3, <4>1, <4>2 DEF Flushing
        <4>. QED  BY <1>0, <1>1, <2>2, <3>3, <4>1, <4>2, <4>3
      <3>. QED  BY <1>2, <3>1, <3>2, <3>3
    <2>3. ASSUME NEW t \in Table, NEW w \in gone'[t]
          PROVE  NoWayBack(w, t)' /\ w \notin files'[t]
      <3>1. CASE w \in gone[t]
        BY <1>1, <1>8, <2>1, <3>1 DEF Core, DropProgress
      <3>2. CASE th[f].pc = "purgeBuffer" /\ t = s /\ w \in th[f].before
        BY <1>0, <1>1, <1>8, <2>1, <3>2, SMTT(20) DEF Core, DropProgress, s
      <3>. QED  BY <1>0, <1>2, <2>3, <3>1, <3>2
    <2>. QED  BY <2>2, <2>3 DEF DropProgress
  <1>10. QueryCanFinish' /\ QuerySeesAcked'
    <2>1. CASE query.pc = "idle"
      BY <1>1, <2>1 DEF QueryCanFinish, QuerySeesAcked
    <2>2. CASE query.pc # "idle"
      <3>1. query.table \in Table /\ query.want \subseteq Acked(query.table)
        BY <2>2 DEF Base, QueryHasTable, Core, QueryCanFinish
      <3>. QED  BY <1>1, <1>4, <3>1, SMTT(20) DEF Core, QueryCanFinish, QuerySeesAcked
    <2>. QED  BY <2>1, <2>2
  <1>11. AckedDurable' /\ AckedReadable'
    <2>1. \A t \in Table : \A w \in Acked(t)' :
             w \notin exempt'[t] => InLog(w)' \/ w \in files'[t]
      BY <1>1, <1>4, AckedAre, SMTT(20) DEF Core, InLog
    <2>2. ASSUME up PROVE \A t \in Table : \A w \in Acked(t)' :
             w \notin exempt'[t] => w \in buffer'[t] \/ w \in hold'[t] \/ w \in files'[t]
      BY <1>1, <1>4, <2>2, AckedAre DEF Core
    <2>. QED  BY <1>1, <2>1, <2>2, AckedAre
  <1>. QED
    BY <1>5, <1>6, <1>7, <1>9, <1>10, <1>11 DEF Core

\* The three steps of a query change nothing else (sql_batches).
LEMMA QueryCore ==
    ASSUME Base, Core, (\E t \in Table : QueryLive(t)) \/ QueryFiles \/ QueryDone
    PROVE  Core'
  <1>1. UNCHANGED <<gens, generation, active, up, wpc, buffer, hold, files, th, exempt, gone>>
    BY DEF QueryLive, QueryFiles, QueryDone
  <1>2. /\ \A h \in Thread : Flushing(h)' <=> Flushing(h)
        /\ \A t \in Table : Acked(t)' = Acked(t)
        /\ \A w, t : NoWayBack(w, t)' <=> NoWayBack(w, t)
    BY <1>1 DEF Flushing, Acked, NoWayBack, InLog
  <1>3. OneFlush' /\ HeldBySomeone' /\ FlushKeeps' /\ LogIsBuffered' /\ DropProgress'
    <2>1. OneFlush' /\ HeldBySomeone'
      BY <1>1, <1>2 DEF Core, OneFlush, HeldBySomeone
    <2>2. FlushKeeps'
      BY <1>1, <1>2, SMTT(20) DEF Core, FlushKeeps
    <2>3. LogIsBuffered'
      BY <1>1, <1>2 DEF Core, LogIsBuffered
    <2>4. DropProgress'
      BY <1>1, <1>2, SMTT(20) DEF Core, DropProgress
    <2>. QED  BY <2>1, <2>2, <2>3, <2>4
  <1>4. AckedDurable' /\ AckedReadable'
    <2>1. \A t \in Table : Durable(t)' = Durable(t) /\ Readable(t)' = Readable(t)
      BY <1>1 DEF Durable, Readable, RowsOf, Logged
    <2>. QED  BY <1>1, <1>2, <2>1 DEF Core, AckedDurable, AckedReadable
  <1>5. QueryCanFinish' /\ QuerySeesAcked'
    <2>1. ASSUME NEW t \in Table, QueryLive(t)
          PROVE  QueryCanFinish' /\ QuerySeesAcked'
      <3>1. /\ query'.pc = "live" /\ query'.table = t /\ query'.want = Acked(t)
            /\ query'.got = buffer[t] \cup hold[t] /\ up
        BY <2>1 DEF QueryLive
      <3>2. Acked(t) \ exempt[t] \subseteq buffer[t] \cup hold[t] \cup files[t]
        BY <3>1 DEF Core, AckedReadable, Readable
      <3>. QED  BY <1>1, <1>2, <3>1, <3>2 DEF QueryCanFinish, QuerySeesAcked
    <2>2. CASE QueryFiles
      <3>1. /\ query.pc = "live" /\ query'.pc = "answered" /\ query'.table = query.table
            /\ query'.want = query.want /\ query'.got = query.got \cup files[query.table]
            /\ query.table \in Table
        BY <2>2 DEF QueryFiles, Base, TypeOK, QueryHasTable
      <3>. QED  BY <1>1, <1>2, <3>1 DEF Core, QueryCanFinish, QuerySeesAcked
    <2>3. CASE QueryDone
      BY <2>3 DEF QueryDone, NoQuery, QueryCanFinish, QuerySeesAcked
    <2>. QED  BY <2>1, <2>2, <2>3
  <1>. QED
    BY <1>3, <1>4, <1>5 DEF Core

\* The process dies.
LEMMA CrashCore ==
    ASSUME Base, Core, Crash
    PROVE  Core'
  <1>1. /\ UNCHANGED <<gens, generation, active, files, exempt, gone>> /\ up' = FALSE
        /\ \A t \in Table : buffer'[t] = {} /\ hold'[t] = {}
        /\ query'.pc = "idle"
    BY DEF Crash, NoRows, NoQuery
  <1>2. \A h \in Thread : /\ th'[h].pc \in {"idle", "absent"} /\ th'[h].failed = {}
                          /\ th'[h].before = {}
    BY DEF Crash, Idle, Absent
  <1>3. wpc \in [Write -> {"unsent", "new", "logged", "acked", "refused", "unanswered"}]
    BY DEF Base, TypeOK
  <1>4. /\ \A w \in Write : wpc'[w] = "acked" <=> wpc[w] = "acked"
        /\ \A t \in Table : Acked(t)' = Acked(t)
        /\ \A h \in Thread : ~Flushing(h)'
    BY <1>2, <1>3 DEF Crash, Acked, Flushing
  <1>5. OneFlush' /\ HeldBySomeone' /\ FlushKeeps' /\ LogIsBuffered'
    <2>1. OneFlush'
      BY <1>1, <1>2, <1>4 DEF Core, OneFlush
    <2>2. HeldBySomeone'
      BY <1>1 DEF HeldBySomeone
    <2>3. FlushKeeps'
      BY <1>2, <1>4 DEF FlushKeeps
    <2>4. LogIsBuffered'
      BY <1>1 DEF LogIsBuffered
    <2>. QED  BY <2>1, <2>2, <2>3, <2>4
  <1>6. \A t \in Table : \A w \in Write : NoWayBack(w, t) => NoWayBack(w, t)'
    BY <1>1, <1>2, <1>4 DEF NoWayBack, InLog
  <1>7. DropProgress'
    <2>1. \A t \in Table : gone[t] \in SUBSET Write
      BY DEF Base, TypeOK
    <2>. QED  BY <1>1, <1>2, <1>6, <2>1 DEF Core, DropProgress
  <1>8. QueryCanFinish' /\ QuerySeesAcked' /\ AckedReadable'
    BY <1>1 DEF QueryCanFinish, QuerySeesAcked, AckedReadable
  <1>9. AckedDurable'
    <2>1. \A t \in Table : Durable(t)' = Durable(t)
      BY <1>1 DEF Durable, RowsOf, Logged
    <2>. QED  BY <1>1, <1>4, <2>1 DEF Core, AckedDurable
  <1>. QED
    BY <1>5, <1>7, <1>8, <1>9 DEF Core

\* open_with_stack replays every generation there is into the buffers.
LEMMA RestartCore ==
    ASSUME Base, Core, Restart
    PROVE  Core'
  <1>1. /\ UNCHANGED <<gens, wpc, hold, files, th, query, exempt, gone>> /\ ~up /\ up'
        /\ generation' = active /\ active' = active
    BY LastGenIsActive DEF Restart, Core, OneFlush
  <1>2. /\ \A h \in Thread : th[h].pc \in {"idle", "absent"} /\ ~Flushing(h) /\ ~Flushing(h)'
        /\ \A t \in Table : hold[t] = {}
        /\ query.pc = "idle"
        /\ \A t \in Table : Acked(t)' = Acked(t)
    BY <1>1 DEF Base, Stopped, Flushing, Acked
  <1>3. /\ \A t \in Table : \A w \in buffer'[t] : InLog(w)
        /\ \A t \in Table : \A w \in Acked(t) : InLog(w) => w \in buffer'[t]
    <2>1. PICK took \in [BadWrite -> SUBSET Table] :
             buffer' = [t \in Table |-> {w \in RowsOf(Logged, t) : w \in BadWrite => t \in took[w]}]
      BY DEF Restart
    <2>2. \A t \in Table : \A w \in Acked(t) : w \notin BadWrite /\ t \in TablesOf[w]
      BY DEF Acked, Base, Unapplied
    <2>. QED  BY <2>1, <2>2, LoggedIs
  <1>4. OneFlush' /\ HeldBySomeone' /\ FlushKeeps' /\ LogIsBuffered'
    <2>1. OneFlush'
      BY <1>1, <1>2 DEF Core, OneFlush
    <2>2. HeldBySomeone'
      BY <1>1, <1>2 DEF HeldBySomeone
    <2>3. FlushKeeps'
      BY <1>1, <1>2 DEF FlushKeeps
    <2>4. LogIsBuffered'
      BY <1>1, <1>2, <1>3, SMTT(20) DEF LogIsBuffered, InLog
    <2>. QED  BY <2>1, <2>2, <2>3, <2>4
  <1>5. \A t \in Table : \A w \in Write : NoWayBack(w, t) => NoWayBack(w, t)'
    BY <1>1, <1>2, <1>3 DEF NoWayBack, InLog
  <1>6. DropProgress'
    <2>1. \A t \in Table : gone[t] \in SUBSET Write
      BY DEF Base, TypeOK
    <2>. QED  BY <1>1, <1>2, <1>5, <2>1 DEF Core, DropProgress
  <1>7. QueryCanFinish' /\ QuerySeesAcked'
    BY <1>1, <1>2 DEF QueryCanFinish, QuerySeesAcked
  <1>8. AckedDurable' /\ AckedReadable'
    <2>1. \A t \in Table : \A w \in Acked(t)' :
             w \notin exempt'[t] => InLog(w)' \/ w \in files'[t]
      BY <1>1, <1>2, AckedAre DEF Core, InLog
    <2>2. \A t \in Table : \A w \in Acked(t)' :
             w \notin exempt'[t] => w \in buffer'[t] \/ w \in hold'[t] \/ w \in files'[t]
      BY <1>1, <1>2, <1>3, AckedAre DEF Core
    <2>. QED  BY <2>1, <2>2, AckedAre
  <1>. QED
    BY <1>4, <1>6, <1>7, <1>8 DEF Core

\* A new node has no rows to lose.
LEMMA CoreInit == ASSUME Init PROVE Core
  <1>1. /\ \A t \in Table : buffer[t] = {} /\ hold[t] = {} /\ files[t] = {} /\ gone[t] = {}
        /\ \A h \in Thread : /\ th[h].pc \in {"idle", "absent"} /\ th[h].failed = {}
                             /\ th[h].before = {}
        /\ \A t \in Table : Acked(t) = {}
        /\ query.pc = "idle" /\ generation = active
    BY SMTT(20) DEF Init, NoRows, NoQuery, Idle, Absent, Acked
  <1>2. \A h \in Thread : ~Flushing(h)
    BY <1>1 DEF Flushing
  <1>3. OneFlush /\ HeldBySomeone /\ FlushKeeps /\ LogIsBuffered /\ DropProgress
    BY <1>1, <1>2 DEF OneFlush, HeldBySomeone, FlushKeeps, LogIsBuffered, DropProgress
  <1>4. QueryCanFinish /\ AckedDurable /\ AckedReadable /\ QuerySeesAcked
    BY <1>1 DEF QueryCanFinish, AckedDurable, AckedReadable, QuerySeesAcked
  <1>. QED
    BY <1>3, <1>4 DEF Core

\* Nothing happens.
LEMMA StutterCore ==
    ASSUME Core, UNCHANGED vars
    PROVE  Core'
  <1>1. /\ UNCHANGED <<gens, generation, active, up, wpc, buffer, hold, files, th, query,
                      exempt, gone>>
        /\ \A h \in Thread : Flushing(h)' <=> Flushing(h)
        /\ \A t : Acked(t)' = Acked(t)
        /\ \A w, t : NoWayBack(w, t)' <=> NoWayBack(w, t)
        /\ \A t : Durable(t)' = Durable(t) /\ Readable(t)' = Readable(t)
    BY DEF vars, Flushing, Acked, NoWayBack, InLog, Durable, Readable, RowsOf, Logged
  <1>2. OneFlush' /\ HeldBySomeone' /\ FlushKeeps'
    BY <1>1, SMTT(20) DEF Core, OneFlush, HeldBySomeone, FlushKeeps
  <1>3. LogIsBuffered' /\ DropProgress'
    BY <1>1, SMTT(20) DEF Core, LogIsBuffered, DropProgress
  <1>4. QueryCanFinish' /\ AckedDurable' /\ AckedReadable' /\ QuerySeesAcked'
    BY <1>1 DEF Core, QueryCanFinish, AckedDurable, AckedReadable, QuerySeesAcked
  <1>. QED  BY <1>2, <1>3, <1>4 DEF Core

\* Every step of a node whose flushes do not overlap keeps Core, unless the
\* step is itself a failure.
LEMMA CoreStep ==
    ASSUME Base, NoFailure => Core, ~Overlap, [Next]_vars
    PROVE  NoFailure' => Core'
  <1>. SUFFICES ASSUME NoFailure' PROVE Core'
    OBVIOUS
  <1>1. Core /\ \A f \in Thread : ~FlushFault(f)
    BY Quiet
  <1>2. CASE \E w \in Write : LogWrite(w) \/ FinishWrite(w)
    BY <1>1, <1>2, WriteCore
  <1>3. CASE \E f \in Thread : Begin(f)
    BY <1>1, <1>3, FlushBeginCore, FlushNothingCore DEF Begin
  <1>4. CASE \E f \in Thread : FlushStep(f)
    BY <1>1, <1>4, FlushOneCore, FlushCommitCore, FlushUnholdCore, FlushReclaimCore, DropCore
       DEF FlushStep
  <1>5. CASE (\E t \in Table : QueryLive(t)) \/ QueryFiles \/ QueryDone
    BY <1>1, <1>5, QueryCore
  <1>6. CASE Crash
    BY <1>1, <1>6, CrashCore
  <1>7. CASE Restart
    BY <1>1, <1>7, RestartCore
  <1>8. CASE UNCHANGED vars
    BY <1>1, <1>8, StutterCore
  <1>. QED
    BY <1>1, <1>2, <1>3, <1>4, <1>5, <1>6, <1>7, <1>8 DEF Next

\* IInv holds of every behaviour of a node whose flushes do not overlap.
LEMMA Inductive ==
    ASSUME ~Overlap
    PROVE  Spec => []IInv
  <1>1. Init => IInv
    BY BaseInit, CoreInit DEF IInv
  <1>2. IInv /\ [Next]_vars => IInv'
    BY BaseStep, CoreStep DEF IInv
  <1>. QED  BY <1>1, <1>2, PTL DEF Spec

\* "Acknowledged writes are never lost" (write_lp_internal, flush_all,
\* open_with_stack): however writes, flushes, drops and queries interleave
\* and however often the process dies, every row behind a 204 is in the log
\* or in a committed file.
THEOREM AckedNeverLost ==
    ASSUME ~Overlap
    PROVE  Spec => [](NoFailure => AckedDurable)
  <1>1. IInv => (NoFailure => AckedDurable)
    BY DEF IInv, Core
  <1>. QED  BY <1>1, Inductive, PTL

\* ... and while the process runs it can be read: a flush moves a row from
\* buffer to holding area to file without a gap ("never neither").
THEOREM AckedAlwaysReadable ==
    ASSUME ~Overlap
    PROVE  Spec => [](NoFailure => AckedReadable)
  <1>1. IInv => (NoFailure => AckedReadable)
    BY DEF IInv, Core
  <1>. QED  BY <1>1, Inductive, PTL

\* A query returns every row acknowledged before it began, because
\* sql_batches reads the live rows before the catalog.
THEOREM QueriesSeeAcked ==
    ASSUME ~Overlap
    PROVE  Spec => [](NoFailure => QuerySeesAcked)
  <1>1. IInv => (NoFailure => QuerySeesAcked)
    BY DEF IInv, Core
  <1>. QED  BY <1>1, Inductive, PTL

\* What was acknowledged before a drop_table began is gone for good once it
\* has returned, restarts and racing flushes of other threads included.
THEOREM DropsStay ==
    ASSUME ~Overlap
    PROVE  Spec => [](NoFailure => DropStays)
  <1>1. IInv => (NoFailure => DropStays)
    <2>. SUFFICES ASSUME IInv, NoFailure, NEW t \in Table, NEW w \in gone[t]
                  PROVE  w \notin Readable(t) /\ w \notin Durable(t)
      BY DEF DropStays
    <2>1. NoWayBack(w, t) /\ w \notin files[t]
      BY DEF IInv, Core, DropProgress
    <2>. QED  BY <2>1, LoggedIs DEF NoWayBack, Readable, Durable
  <1>. QED  BY <1>1, Inductive, PTL
=============================================================================
