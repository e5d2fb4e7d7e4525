-------------------------- MODULE TableStoreProofs --------------------------
(***************************************************************************)
(* Engine implements TableStore when its flushes do not overlap, one       *)
(* thread drops tables and nothing fails: what a client can read changes   *)
(* by whole writes and by drops only.  Drops of two tables at once can     *)
(* take rows of both in one step, which the abstract store cannot.         *)
(***************************************************************************)
EXTENDS EngineProofs

USE ZenonT(30)

OneDropper == \A d, e \in Dropper : d = e

Dropping(d) == th[d].pc \in {"drop", "purgeHold", "purgeBuffer"}

\* The write has all its rows there.
Whole(w, rows) == \A t \in Table : t \in TablesOf[w] => w \in rows[t]

\* Only DROP TABLE gets past its flush.
TickFlushes == ~Dropping(Tick) /\ (Flushing(Tick) => th[Tick].target = None)

\* Every row in memory is in the log, a buffered one where no flush under
\* way reclaims it.
Logs ==
    \A t \in Table :
        /\ \A w \in buffer[t] :
              /\ t \in TablesOf[w]
              /\ \E g \in DOMAIN gens :
                    w \in gens[g] /\ \A f \in Thread : Flushing(f) => th[f].sealed < g
        /\ \A w \in hold[t] : t \in TablesOf[w] /\ InLog(w)

\* Since the flush of a drop began, no table has lost buffered rows, and
\* other flushes have taken writes as a whole.
Fresh ==
    \A d \in Dropper :
        /\ Flushing(d) \/ Dropping(d) =>
              \A t \in Table : \A w \in buffer[t] : w \in BadWrite \/ Whole(w, buffer)
        /\ Dropping(d) =>
              \A f \in Thread : th[f].pc = "upload" =>
                 \A t \in Table : \A w \in th[f].snap[t] :
                    w \in BadWrite \/ Whole(w, th[f].snap)

\* What a flush is about to commit is held, or belongs to a whole write; what
\* it holds after its commit is in files, short of what a drop took.
Taken ==
    \A f \in Thread : \A t \in Table :
        /\ th[f].pc = "upload" => \A w \in th[f].snap[t] :
              /\ t \in TablesOf[w] /\ t \in th[f].todo \cup th[f].done
              /\ w \in hold[t] \/ w \in BadWrite \/ Whole(w, th[f].snap)
        /\ th[f].pc = "unhold" => \A w \in hold[t] :
              \/ w \in files[t]
              \/ \E d \in Dropper : th[d].pc = "purgeHold" /\ th[d].target = t

Traces == TickFlushes /\ Logs /\ Fresh /\ Taken

\* A new node has no rows.
LEMMA TracesInit == ASSUME Init PROVE Traces
  <1>1. /\ \A t \in Table : buffer[t] = {} /\ hold[t] = {}
        /\ \A h \in Thread : th[h].pc \in {"idle", "absent"}
    BY SMTT(20) DEF Init, NoRows, Idle, Absent
  <1>2. \A h \in Thread : ~Flushing(h) /\ ~Dropping(h)
    BY <1>1 DEF Flushing, Dropping
  <1>3. Tick \in Thread /\ Dropper \subseteq Thread
    BY DEF Thread
  <1>. QED  BY <1>1, <1>2, <1>3 DEF Traces, TickFlushes, Logs, Fresh, Taken

\* Steps of a query, and of no one.
LEMMA TracesQuery ==
    ASSUME Traces, UNCHANGED <<gens, buffer, hold, files, th>>
    PROVE  Traces'
  <1>1. \A h \in Thread : (Flushing(h)' <=> Flushing(h)) /\ (Dropping(h)' <=> Dropping(h))
    BY DEF Flushing, Dropping
  <1>2. /\ \A w : InLog(w)' <=> InLog(w)
        /\ Tick \in Thread /\ Dropper \subseteq Thread
    BY DEF InLog, Thread
  <1>3. TickFlushes' /\ Logs'
    BY <1>1, <1>2 DEF Traces, TickFlushes, Logs
  <1>4. Fresh'
    BY <1>1, <1>2 DEF Traces, Fresh
  <1>5. Taken'
    BY DEF Traces, Taken
  <1>. QED  BY <1>3, <1>4, <1>5 DEF Traces

\* A write is logged before it is buffered, and buffered as a whole unless
\* it is refused (write_lp_internal).
LEMMA TracesWrite ==
    ASSUME Base, Traces, NEW w \in Write, LogWrite(w) \/ FinishWrite(w)
    PROVE  Traces'
  <1>0. /\ buffer \in [Table -> SUBSET Write] /\ active \in DOMAIN gens
        /\ \A f \in Thread : Flushing(f) => th[f].sealed < active
        /\ wpc[w] = "logged" => w \in gens[active]
        /\ Tick \in Thread /\ Dropper \subseteq Thread
    BY DEF Base, TypeOK, LogOrder, Unapplied, Thread
  <1>1. /\ DOMAIN gens' = DOMAIN gens /\ \A g \in DOMAIN gens : gens[g] \subseteq gens'[g]
        /\ UNCHANGED <<hold, files, th>>
        /\ \A t \in Table : buffer[t] \subseteq buffer'[t]
        /\ \A t \in Table : \A u \in buffer'[t] : u \in buffer[t] \/ u = w
    <2>1. CASE LogWrite(w)
      BY <1>0, <2>1 DEF LogWrite
    <2>2. CASE ApplyWrite(w)
      BY <1>0, <2>2 DEF ApplyWrite, RowsOf
    <2>3. CASE \E some \in SUBSET Table : RefuseWrite(w, some)
      <3>1. PICK some \in SUBSET Table : RefuseWrite(w, some)
        BY <2>3
      <3>2. \A t \in Table : \A u : /\ u \in buffer[t] => u \in buffer'[t]
                                    /\ u \in buffer'[t] => u \in buffer[t] \/ u = w
        BY <3>1, SMTT(20) DEF RefuseWrite
      <3>3. gens' = gens /\ UNCHANGED <<hold, files, th>>
        BY <3>1 DEF RefuseWrite
      <3>4. DOMAIN gens' = DOMAIN gens /\ \A g \in DOMAIN gens : gens[g] \subseteq gens'[g]
        BY <3>3
      <3>5. \A t \in Table : buffer[t] \subseteq buffer'[t]
        BY <3>2
      <3>6. \A t \in Table : \A u \in buffer'[t] : u \in buffer[t] \/ u = w
        BY <3>2
      <3>. QED  BY <3>3, <3>4, <3>5, <3>6
    <2>. QED  BY <2>1, <2>2, <2>3 DEF FinishWrite
  <1>2. \A h \in Thread : (Flushing(h)' <=> Flushing(h)) /\ (Dropping(h)' <=> Dropping(h))
    BY <1>1 DEF Flushing, Dropping
  <1>3. \A u : InLog(u) => InLog(u)'
    BY <1>1 DEF InLog
  <1>4. ASSUME NEW t \in Table, w \in buffer'[t], w \notin buffer[t]
        PROVE  /\ w \in gens'[active] /\ t \in TablesOf[w]
               /\ w \in BadWrite \/ Whole(w, buffer')
    <2>1. FinishWrite(w)
      BY <1>4 DEF LogWrite
    <2>2. wpc[w] = "logged"
      BY <2>1 DEF FinishWrite, ApplyWrite, RefuseWrite
    <2>3. w \in gens'[active]
      BY <1>0, <1>1, <2>2
    <2>4. CASE ApplyWrite(w)
      BY <1>4, <2>3, <2>4 DEF ApplyWrite, Whole, RowsOf
    <2>5. CASE \E some \in SUBSET Table : RefuseWrite(w, some)
      BY <1>4, <2>3, <2>5 DEF RefuseWrite
    <2>. QED  BY <2>1, <2>4, <2>5 DEF FinishWrite
  <1>5. TickFlushes'
    BY <1>0, <1>1, <1>2 DEF Traces, TickFlushes
  <1>6. Logs'
    <2>1. ASSUME NEW t \in Table, NEW u \in buffer'[t]
          PROVE  /\ t \in TablesOf[u]
                 /\ \E g \in DOMAIN gens' :
                       u \in gens'[g] /\ \A f \in Thread : Flushing(f)' => th'[f].sealed < g
      <3>1. CASE u \in buffer[t]
        BY <1>1, <1>2, <3>1 DEF Traces, Logs
      <3>2. CASE u \notin buffer[t]
        BY <1>0, <1>1, <1>2, <1>4, <2>1, <3>2
      <3>. QED  BY <3>1, <3>2
    <2>. QED  BY <1>1, <1>3, <2>1 DEF Traces, Logs
  <1>7. Fresh'
    <2>1. \A t \in Table : \A u \in buffer'[t] :
             (\A s \in Table : \A v \in buffer[s] : v \in BadWrite \/ Whole(v, buffer))
                => u \in BadWrite \/ Whole(u, buffer')
      BY <1>1, <1>4 DEF Whole
    <2>. QED  BY <1>0, <1>1, <1>2, <2>1 DEF Traces, Fresh
  <1>8. Taken'
    BY <1>0, <1>1 DEF Traces, Taken
  <1>. QED  BY <1>5, <1>6, <1>7, <1>8 DEF Traces

\* The critical section that begins a flush (flush_all).
LEMMA TracesBegin ==
    ASSUME Base, Core, Traces, ~Overlap, NEW f \in Thread,
           NEW target \in Table \cup {None}, FlushBegin(f, target)
    PROVE  Traces'
  <1>0. /\ th \in [Thread -> Locals] /\ buffer \in [Table -> SUBSET Write]
        /\ Tick \in Thread /\ Dropper \subseteq Thread /\ Tick \notin Dropper
        /\ \A h \in Thread : ~Flushing(h)
        /\ (f = Tick) = (target = None)
        /\ gens' = [g \in DOMAIN gens \cup {active'} |-> IF g = active' THEN {} ELSE gens[g]]
        /\ active' = generation + 1 /\ generation \in Nat
        /\ \A g \in DOMAIN gens : g \in Nat /\ g <= generation
    BY EngineAssumption, SMTT(20) DEF Base, TypeOK, Locals, FlushBegin, Enters, SealLog, Thread, LogOrder
  <1>1. /\ \A t \in Table : buffer'[t] = {} /\ hold'[t] = buffer[t]
        /\ files' = files
    <2>1. \A t \in Table : hold[t] = {}
      BY <1>0, NothingHeld
    <2>. QED  BY <2>1 DEF FlushBegin, HandOver, NoRows, Owned
  <1>2. /\ \A h \in Thread : h # f => th'[h] = th[h]
        /\ th'[f].pc = "upload" /\ th'[f].snap = buffer /\ th'[f].target = target
        /\ th'[f].todo = Owned /\ th[f].pc = "idle"
    BY <1>0, SMTT(20) DEF FlushBegin, Idle, Enters
  <1>3. /\ \A h \in Thread : h # f => ~Flushing(h)' /\ (Dropping(h)' <=> Dropping(h))
        /\ ~Dropping(f)'
    BY <1>0, <1>2 DEF Flushing, Dropping
  <1>4. \A g \in DOMAIN gens : g # active'
    BY <1>0, SMTT(20)
  <1>5. \A w : InLog(w) => InLog(w)'
    BY <1>0, <1>4 DEF InLog
  <1>6. TickFlushes'
    BY <1>0, <1>2, <1>3 DEF Traces, TickFlushes
  <1>7. Logs'
    BY <1>1, <1>5 DEF Traces, Logs, InLog
  <1>8. Fresh'
    <2>1. ASSUME NEW d \in Dropper, Dropping(d)', NEW h \in Thread, th'[h].pc = "upload",
                 NEW t \in Table, NEW w \in th'[h].snap[t]
          PROVE  w \in BadWrite \/ Whole(w, th'[h].snap)
      <3>1. h = f
        BY <1>3, <2>1 DEF Flushing
      <3>2. d # f /\ Dropping(d)
        BY <1>0, <1>3, <2>1
      <3>3. w \in buffer[t]
        BY <1>2, <2>1, <3>1
      <3>4. w \in BadWrite \/ Whole(w, buffer)
        BY <3>2, <3>3 DEF Traces, Fresh
      <3>. QED  BY <1>2, <3>1, <3>4
    <2>. QED  BY <1>1, <2>1 DEF Fresh
  <1>9. Taken'
    <2>1. ASSUME NEW h \in Thread, NEW t \in Table, th'[h].pc = "upload", NEW w \in th'[h].snap[t]
          PROVE  t \in TablesOf[w] /\ t \in th'[h].todo /\ w \in hold'[t]
      <3>1. h = f
        BY <1>3, <2>1 DEF Flushing
      <3>. QED  BY <1>1, <1>2, <2>1, <3>1 DEF Owned, Traces, Logs
    <2>2. \A h \in Thread : th'[h].pc # "unhold"
      BY <1>2, <1>3 DEF Flushing
    <2>. QED  BY <2>1, <2>2 DEF Taken
  <1>. QED  BY <1>6, <1>7, <1>8, <1>9 DEF Traces

\* A drop that finds nothing buffered goes on at once (flush_all).
LEMMA TracesNothing ==
    ASSUME Base, Core, Traces, ~Overlap, NEW f \in Thread,
           NEW target \in Table \cup {None}, FlushNothing(f, target)
    PROVE  Traces'
  <1>0. /\ th \in [Thread -> Locals]
        /\ Tick \in Thread /\ Dropper \subseteq Thread
        /\ \A h \in Thread : ~Flushing(h)
        /\ f # Tick /\ UNCHANGED <<gens, buffer, hold, files>>
        /\ \A t \in Table : buffer[t] = {}
    BY DEF Base, TypeOK, Locals, FlushNothing, Enters, Thread, Owned
  <1>1. /\ \A h \in Thread : h # f => th'[h] = th[h]
        /\ th'[f].pc = "drop"
    BY <1>0, SMTT(20) DEF FlushNothing, Idle
  <1>2. /\ \A h \in Thread : ~Flushing(h)'
        /\ \A h \in Thread : h # f => (Dropping(h)' <=> Dropping(h))
        /\ \A t \in Table : hold[t] = {}
    BY <1>0, <1>1, NothingHeld DEF Flushing, Dropping
  <1>3. TickFlushes'
    BY <1>0, <1>1, <1>2 DEF Traces, TickFlushes
  <1>4. Logs' /\ Fresh' /\ Taken'
    BY <1>0, <1>2 DEF Logs, Fresh, Taken, Flushing
  <1>. QED  BY <1>3, <1>4 DEF Traces

\* One table's file is put (flush_one).
LEMMA TracesOne ==
    ASSUME Base, Traces, NEW f \in Thread, NEW s \in Table, FlushOne(f, s)
    PROVE  Traces'
  <1>0. /\ th \in [Thread -> Locals] /\ Tick \in Thread /\ Dropper \subseteq Thread
        /\ UNCHANGED <<gens, buffer, hold, files>>
    BY DEF Base, TypeOK, Locals, Thread, FlushOne
  <1>1. \A h \in Thread : /\ th'[h].pc = th[h].pc /\ th'[h].snap = th[h].snap
                          /\ th'[h].sealed = th[h].sealed /\ th'[h].target = th[h].target
                          /\ th'[h].todo \cup th'[h].done = th[h].todo \cup th[h].done
    BY <1>0, SMTT(20) DEF FlushOne, Locals
  <1>2. \A h \in Thread : (Flushing(h)' <=> Flushing(h)) /\ (Dropping(h)' <=> Dropping(h))
    BY <1>1 DEF Flushing, Dropping
  <1>3. \A w : InLog(w)' <=> InLog(w)
    BY <1>0 DEF InLog
  <1>4. TickFlushes' /\ Logs'
    <2>1. \A h \in Thread : th'[h].sealed = th[h].sealed /\ th'[h].target = th[h].target
      BY <1>1
    <2>2. TickFlushes'
      BY <1>0, <1>2, <2>1 DEF Traces, TickFlushes
    <2>3. Logs'
      BY <1>0, <1>2, <1>3, <2>1 DEF Traces, Logs
    <2>. QED  BY <2>2, <2>3
  <1>5. Fresh'
    BY <1>0, <1>1, <1>2 DEF Traces, Fresh
  <1>6. Taken'
    <2>1. ASSUME NEW h \in Thread, NEW t \in Table
          PROVE  /\ th'[h].pc = th[h].pc /\ th'[h].snap = th[h].snap
                 /\ t \in th'[h].todo \cup th'[h].done <=> t \in th[h].todo \cup th[h].done
      BY <1>1
    <2>2. \A d \in Dropper : th'[d].pc = th[d].pc /\ th'[d].target = th[d].target
      BY <1>0, <1>1
    <2>. USE DEF Traces, Taken
    <2>3. ASSUME NEW h \in Thread, NEW t \in Table, th'[h].pc = "upload", NEW w \in th'[h].snap[t]
          PROVE  /\ t \in TablesOf[w] /\ t \in th'[h].todo \cup th'[h].done
                 /\ w \in hold'[t] \/ w \in BadWrite \/ Whole(w, th'[h].snap)
      BY <1>0, <2>1, <2>3
    <2>4. ASSUME NEW h \in Thread, NEW t \in Table, th'[h].pc = "unhold", NEW w \in hold'[t]
          PROVE  \/ w \in files'[t]
                 \/ \E d \in Dropper : th'[d].pc = "purgeHold" /\ th'[d].target = t
      <3>1. w \in hold[t] /\ th[h].pc = "unhold" /\ UNCHANGED files
        BY <1>0, <2>1, <2>4
      <3>2. w \in files[t] \/ \E d \in Dropper : th[d].pc = "purgeHold" /\ th[d].target = t
        BY <3>1
      <3>. QED  BY <2>2, <3>1, <3>2
    <2>. QED  BY <2>3, <2>4
  <1>. QED  BY <1>4, <1>5, <1>6 DEF Traces

\* The flush commits its files (commit_add), and lets go of what it held.
LEMMA TracesCommit ==
    ASSUME Base, Core, Traces, NEW f \in Thread, FlushCommit(f) \/ FlushUnhold(f)
    PROVE  Traces'
  <1>0. /\ th \in [Thread -> Locals] /\ Tick \in Thread /\ Dropper \subseteq Thread
        /\ UNCHANGED <<gens, buffer>>
        /\ hold \in [Table -> SUBSET Write]
        /\ \A h \in Thread : Flushing(h) => h = f
    <2>1. Flushing(f)
      BY DEF FlushCommit, FlushUnhold, Flushing
    <2>. QED
      BY <2>1 DEF Base, TypeOK, Locals, Thread, FlushCommit, FlushUnhold, Core, OneFlush
  <1>1. /\ \A h \in Thread : h # f => th'[h] = th[h]
        /\ th'[f].pc \in {"unhold", "reclaim"} /\ th[f].pc \in {"upload", "unhold"}
        /\ th'[f].sealed = th[f].sealed /\ th'[f].target = th[f].target
    BY <1>0, SMTT(20) DEF FlushCommit, FlushUnhold, Locals
  <1>2. \A h \in Thread : /\ Flushing(h)' <=> Flushing(h)
                          /\ Dropping(h)' <=> Dropping(h)
                          /\ th'[h].pc = "purgeHold" <=> th[h].pc = "purgeHold"
                          /\ th'[h].sealed = th[h].sealed /\ th'[h].target = th[h].target
                          /\ th'[h].pc # "upload"
    BY <1>0, <1>1 DEF Flushing, Dropping
  <1>3. /\ \A w : InLog(w)' <=> InLog(w)
        /\ \A t \in Table : hold'[t] \subseteq hold[t]
    BY <1>0 DEF InLog, FlushCommit, FlushUnhold
  <1>4. TickFlushes' /\ Logs'
    BY <1>0, <1>2, <1>3 DEF Traces, TickFlushes, Logs
  <1>5. Fresh'
    BY <1>0, <1>2 DEF Traces, Fresh
  <1>6. ASSUME FlushCommit(f), NEW t \in Table, NEW w \in hold[t]
        PROVE  w \in files'[t]
    <2>1. PICK h \in Thread : /\ th[h].pc \in {"upload", "unhold"}
                              /\ t \in th[h].todo \cup th[h].done /\ w \in th[h].snap[t]
      BY <1>6 DEF Core, HeldBySomeone
    <2>2. h = f
      BY <1>0, <2>1 DEF Flushing
    <2>. QED  BY <1>6, <2>1, <2>2 DEF FlushCommit, Committed
  <1>7. Taken'
    <2>1. CASE FlushCommit(f)
      BY <1>2, <1>3, <1>6, <2>1 DEF Taken
    <2>2. CASE FlushUnhold(f)
      <3>1. \A h \in Thread : th'[h].pc # "unhold"
        <4>1. th'[f].pc = "reclaim"
          BY <1>0, <2>2, SMTT(20) DEF FlushUnhold, Locals
        <4>. QED  BY <1>0, <1>1, <4>1 DEF Flushing
      <3>. QED  BY <1>2, <3>1 DEF Taken
    <2>. QED  BY <2>1, <2>2
  <1>. QED  BY <1>4, <1>5, <1>7 DEF Traces

\* The flush ends (delete_generations_upto), and a drop goes on from there.
LEMMA TracesReclaim ==
    ASSUME Base, Core, Traces, NEW f \in Thread, FlushReclaim(f)
    PROVE  Traces'
  <1>0. /\ th \in [Thread -> Locals] /\ Tick \in Thread /\ Dropper \subseteq Thread
        /\ Tick \notin Dropper
        /\ UNCHANGED <<buffer, hold, files>>
        /\ Flushing(f) /\ th[f].pc = "reclaim" /\ th[f].failed = {}
        /\ \A h \in Thread : Flushing(h) => h = f
    <2>1. Flushing(f)
      BY DEF FlushReclaim, Flushing
    <2>. QED
      BY <2>1, EngineAssumption DEF Base, TypeOK, Locals, Thread, FlushReclaim, Core, OneFlush
  <1>1. /\ \A h \in Thread : h # f => th'[h] = th[h]
        /\ th'[f].pc = "idle" \/ (th'[f].pc = "drop" /\ th[f].target # None)
    <2>1. CASE th[f].target = None
      BY <1>0, <2>1, IdleType DEF FlushReclaim
    <2>2. CASE th[f].target # None
      BY <1>0, <2>2, SMTT(20) DEF FlushReclaim, Locals
    <2>. QED  BY <2>1, <2>2
  <1>2. \A h \in Thread : /\ ~Flushing(h)' /\ th'[h].pc \notin {"upload", "unhold"}
                          /\ Dropping(h)' => Dropping(h) \/ Flushing(h)
    BY <1>0, <1>1 DEF Flushing, Dropping
  <1>3. \A t \in Table : hold[t] = {}
    BY <1>0 DEF Core, HeldBySomeone, Flushing
  <1>4. \A g \in DOMAIN gens : th[f].sealed < g => g \in DOMAIN gens' /\ gens'[g] = gens[g]
    <2>1. gens' = Restrict(gens, {g \in DOMAIN gens : g > th[f].sealed \/ g = generation})
      BY <1>0 DEF FlushReclaim, Reclaimed
    <2>2. \A g \in DOMAIN gens : th[f].sealed < g => g > th[f].sealed
      BY <1>0, SMTT(20) DEF Base, TypeOK, Locals
    <2>. QED  BY <2>1, <2>2 DEF Restrict
  <1>5. TickFlushes'
    BY <1>0, <1>1, <1>2 DEF Traces, TickFlushes, Dropping
  <1>6. Logs'
    <2>1. ASSUME NEW t \in Table, NEW w \in buffer[t]
          PROVE  t \in TablesOf[w] /\ \E g \in DOMAIN gens' : w \in gens'[g]
      <3>1. PICK g \in DOMAIN gens :
               w \in gens[g] /\ \A h \in Thread : Flushing(h) => th[h].sealed < g
        BY DEF Traces, Logs
      <3>2. t \in TablesOf[w]
        BY DEF Traces, Logs
      <3>. QED  BY <1>0, <1>4, <3>1, <3>2
    <2>. QED  BY <1>0, <1>2, <1>3, <2>1 DEF Logs
  <1>7. Fresh'
    BY <1>0, <1>2 DEF Traces, Fresh
  <1>8. Taken'
    BY <1>2 DEF Taken
  <1>. QED  BY <1>5, <1>6, <1>7, <1>8 DEF Traces

\* drop_table after its flush: the catalog, the holding area, the buffers.
LEMMA TracesDrop ==
    ASSUME Base, Core, Traces, OneDropper, NEW f \in Thread,
           CommitDrop(f) \/ PurgeHold(f) \/ PurgeBuffer(f)
    PROVE  Traces'
  <1>. DEFINE s == th[f].target
  <1>0. /\ th \in [Thread -> Locals] /\ Tick \in Thread /\ Dropper \subseteq Thread
        /\ \A v \in {buffer, hold, files} : v \in [Table -> SUBSET Write]
        /\ UNCHANGED gens
        /\ Dropping(f) /\ s \in Table
    <2>1. th[f].pc \in {"drop", "purgeHold", "purgeBuffer"} /\ UNCHANGED gens
      BY DEF CommitDrop, PurgeHold, PurgeBuffer
    <2>2. s \in Table
      BY <2>1 DEF Core, OneFlush
    <2>. QED  BY <2>1, <2>2 DEF Base, TypeOK, Locals, Thread, Dropping
  <1>1. f \in Dropper /\ \A d \in Dropper : d = f
    BY <1>0 DEF Traces, TickFlushes, Thread, OneDropper
  <1>2. /\ \A h \in Thread : h # f => th'[h] = th[h]
        /\ \/ CommitDrop(f) /\ th'[f].pc = "purgeHold" /\ th'[f].target = s
           \/ PurgeHold(f) /\ th[f].pc = "purgeHold" /\ th'[f].pc = "purgeBuffer"
           \/ PurgeBuffer(f) /\ th[f].pc = "purgeBuffer" /\ th'[f].pc = "idle"
    <2>1. CASE PurgeBuffer(f)
      BY <1>0, <2>1, IdleType DEF PurgeBuffer
    <2>2. CASE CommitDrop(f) \/ PurgeHold(f)
      BY <1>0, <2>2, SMTT(20) DEF CommitDrop, PurgeHold, Locals
    <2>. QED  BY <2>1, <2>2
  <1>3. /\ \A h \in Thread : Flushing(h)' <=> Flushing(h)
        /\ \A h \in Thread : h # f => (Dropping(h)' <=> Dropping(h))
        /\ \A h \in Thread : Flushing(h) \/ th'[h].pc \in {"upload", "unhold"} => h # f /\ th'[h] = th[h]
    BY <1>0, <1>2 DEF Flushing, Dropping
  <1>4. /\ \A t \in Table : t # s => buffer'[t] = buffer[t] /\ hold'[t] = hold[t] /\ files'[t] = files[t]
        /\ CommitDrop(f) => UNCHANGED <<buffer, hold>>
        /\ PurgeHold(f) => UNCHANGED <<buffer, files>> /\ hold'[s] = {}
        /\ PurgeBuffer(f) => UNCHANGED <<hold, files>> /\ buffer'[s] = {}
    BY <1>0 DEF CommitDrop, PurgeHold, PurgeBuffer
  <1>. HIDE DEF s
  <1>5. TickFlushes'
    BY <1>0, <1>1, <1>3 DEF Traces, TickFlushes, Thread
  <1>6. Logs'
    <2>1. \A w : InLog(w)' <=> InLog(w)
      BY <1>0 DEF InLog
    <2>2. \A t \in Table : buffer'[t] \subseteq buffer[t] /\ hold'[t] \subseteq hold[t]
      BY <1>0, <1>2, <1>4
    <2>3. \A h \in Thread : Flushing(h)' => Flushing(h) /\ th'[h].sealed = th[h].sealed
      BY <1>3
    <2>4. \A t \in Table : \A w \in buffer'[t] :
             /\ t \in TablesOf[w]
             /\ \E g \in DOMAIN gens' :
                   w \in gens'[g] /\ \A h \in Thread : Flushing(h)' => th'[h].sealed < g
      <3>1. TAKE t \in Table
      <3>2. TAKE w \in buffer'[t]
      <3>3. w \in buffer[t]
        BY <2>2
      <3>4. t \in TablesOf[w]
        BY <3>3 DEF Traces, Logs
      <3>5. PICK g \in DOMAIN gens :
               w \in gens[g] /\ \A h \in Thread : Flushing(h) => th[h].sealed < g
        BY <3>3 DEF Traces, Logs
      <3>6. \A h \in Thread : Flushing(h)' => th'[h].sealed < g
        BY <2>3, <3>5
      <3>. QED  BY <1>0, <3>4, <3>5, <3>6
    <2>5. \A t \in Table : \A w \in hold'[t] : t \in TablesOf[w] /\ InLog(w)'
      BY <2>1, <2>2 DEF Traces, Logs
    <2>. QED  BY <2>4, <2>5 DEF Logs
  <1>7. Fresh'
    <2>1. CASE PurgeBuffer(f)
      <3>1. th'[f].pc = "idle"
        BY <1>0, <2>1, IdleType DEF PurgeBuffer
      <3>2. \A d \in Dropper : ~Flushing(d)' /\ ~Dropping(d)'
        BY <1>1, <3>1 DEF Flushing, Dropping
      <3>. QED  BY <3>2 DEF Fresh
    <2>2. CASE ~PurgeBuffer(f)
      <3>1. UNCHANGED buffer
        BY <1>2, <1>4, <2>2
      <3>2. /\ \A t \in Table : \A w \in buffer[t] : w \in BadWrite \/ Whole(w, buffer)
            /\ \A h \in Thread : th[h].pc = "upload" =>
                  \A t \in Table : \A w \in th[h].snap[t] : w \in BadWrite \/ Whole(w, th[h].snap)
        BY <1>0, <1>1 DEF Traces, Fresh
      <3>. QED  BY <1>3, <3>1, <3>2 DEF Fresh, Whole
    <2>. QED  BY <2>1, <2>2
  <1>8. Taken'
    <2>1. ASSUME NEW h \in Thread, NEW t \in Table, th'[h].pc = "upload", NEW w \in th'[h].snap[t]
          PROVE  /\ t \in TablesOf[w] /\ t \in th'[h].todo \cup th'[h].done
                 /\ w \in hold'[t] \/ w \in BadWrite \/ Whole(w, th'[h].snap)
      <3>1. th'[h] = th[h]
        BY <1>3, <2>1
      <3>2. w \in BadWrite \/ Whole(w, th[h].snap)
        BY <1>0, <1>1, <2>1, <3>1 DEF Traces, Fresh
      <3>. QED  BY <2>1, <3>1, <3>2 DEF Traces, Taken
    <2>2. ASSUME NEW h \in Thread, NEW t \in Table, th'[h].pc = "unhold", NEW w \in hold'[t]
          PROVE  w \in files'[t] \/ \E d \in Dropper : th'[d].pc = "purgeHold" /\ th'[d].target = t
      <3>1. th'[h] = th[h]
        BY <1>3, <2>2
      <3>2. CASE t # s
        <4>1. w \in hold[t] /\ files'[t] = files[t]
          BY <1>4, <2>2, <3>2
        <4>2. w \in files[t] \/ th[f].target = t
          BY <1>1, <2>2, <3>1, <4>1 DEF Traces, Taken
        <4>. QED  BY <3>2, <4>1, <4>2 DEF s
      <3>3. CASE t = s
        <4>1. CASE CommitDrop(f)
          BY <1>1, <1>2, <3>3, <4>1 DEF CommitDrop, PurgeHold, PurgeBuffer
        <4>2. CASE PurgeHold(f)
          BY <1>4, <2>2, <3>3, <4>2
        <4>3. CASE PurgeBuffer(f)
          <5>1. w \in hold[t] /\ files'[t] = files[t] /\ th[f].pc # "purgeHold"
            BY <1>4, <2>2, <4>3 DEF PurgeBuffer
          <5>. QED  BY <1>1, <2>2, <3>1, <5>1 DEF Traces, Taken
        <4>. QED  BY <1>2, <4>1, <4>2, <4>3
      <3>. QED  BY <3>2, <3>3
    <2>. QED  BY <2>1, <2>2 DEF Taken
  <1>. QED  BY <1>5, <1>6, <1>7, <1>8 DEF Traces

\* The process dies and is started again (open_with_stack).
LEMMA TracesCrash ==
    ASSUME Base, Traces, Crash \/ Restart
    PROVE  Traces'
  <1>0. Tick \in Thread /\ Dropper \subseteq Thread
    BY DEF Thread
  <1>1. \A h \in Thread : th'[h].pc \in {"idle", "absent"}
    BY IdleType DEF Crash, Restart, Base, Stopped
  <1>2. \A h \in Thread : ~Flushing(h)' /\ ~Dropping(h)'
    BY <1>1 DEF Flushing, Dropping
  <1>3. /\ \A t \in Table : hold'[t] = {}
        /\ \A t \in Table : \A w \in buffer'[t] :
              t \in TablesOf[w] /\ \E g \in DOMAIN gens' : w \in gens'[g]
    <2>1. CASE Crash
      BY <2>1 DEF Crash, NoRows
    <2>2. CASE Restart
      <3>1. \A t \in Table : buffer'[t] \subseteq RowsOf(Logged, t)
        BY <2>2 DEF Restart
      <3>2. \A t \in Table : hold'[t] = {}
        BY <2>2 DEF Restart, Base, Stopped
      <3>. QED  BY <2>2, <3>1, <3>2, LoggedIs DEF InLog, Restart
    <2>. QED  BY <2>1, <2>2
  <1>4. TickFlushes' /\ Logs'
    BY <1>0, <1>2, <1>3 DEF TickFlushes, Logs
  <1>5. Fresh' /\ Taken'
    BY <1>0, <1>1, <1>2 DEF Fresh, Taken
  <1>. QED  BY <1>4, <1>5 DEF Traces

\* Every step that is not a failure keeps Traces.
LEMMA TracesStep ==
    ASSUME Base, Core, Traces, ~Overlap, OneDropper, [Next]_vars, NoFailure'
    PROVE  Traces'
  <1>1. \A f \in Thread : ~FlushFault(f)
    BY Quiet
  <1>2. CASE \E w \in Write : LogWrite(w) \/ FinishWrite(w)
    BY <1>2, TracesWrite
  <1>3. CASE \E f \in Thread : Begin(f)
    BY <1>3, TracesBegin, TracesNothing DEF Begin
  <1>4. CASE \E f \in Thread : FlushStep(f)
    BY <1>4, TracesOne, TracesCommit, TracesReclaim, TracesDrop DEF FlushStep
  <1>5. CASE (\E t \in Table : QueryLive(t)) \/ QueryFiles \/ QueryDone \/ UNCHANGED vars
    <2>1. UNCHANGED <<gens, buffer, hold, files, th>>
      BY <1>5 DEF QueryLive, QueryFiles, QueryDone, vars
    <2>. QED  BY <2>1, TracesQuery
  <1>6. CASE Crash \/ Restart
    BY <1>6, TracesCrash
  <1>. QED  BY <1>1, <1>2, <1>3, <1>4, <1>5, <1>6 DEF Next

\* What a client sees, row by row.
Seen(w, t) ==
    /\ w \notin BadWrite
    /\ IF up THEN w \in buffer[t] \/ w \in hold[t] \/ w \in files[t]
       ELSE (InLog(w) /\ t \in TablesOf[w]) \/ w \in files[t]

\* Seen is membership in Visible, the refinement mapping, before and after a
\* step (what run_query scans while the node is up, what replay rebuilds).
LEMMA SeenIs ==
    /\ \A t \in Table : \A w : w \in Visible[t] <=> Seen(w, t)
    /\ \A t \in Table : \A w : w \in Visible'[t] <=> Seen(w, t)'
    /\ DOMAIN Visible = Table /\ DOMAIN Visible' = Table
  BY LoggedIs DEF Visible, Seen, Readable, Durable

\* How a change of what is seen is a step of the table store.
LEMMA SeenSame ==
    ASSUME \A t \in Table : \A w : Seen(w, t)' <=> Seen(w, t)
    PROVE  UNCHANGED Visible
  <1>1. \A t \in Table : Visible'[t] = Visible[t]
    BY SeenIs
  <1>. QED  BY <1>1 DEF Visible

\* Rows of whole writes appear: the store's Add (apply, commit_add, replay).
LEMMA SeenAdded ==
    ASSUME NEW ws \in SUBSET Write,
           \A t \in Table : \A w : Seen(w, t)' <=> Seen(w, t) \/ (w \in ws /\ t \in TablesOf[w])
    PROVE  Abstract!Next
  <1>1. \A t \in Table : Visible'[t] = Visible[t] \cup {w \in ws : t \in TablesOf[w]}
    BY SeenIs
  <1>2. Visible' = [t \in Table |-> Visible[t] \cup {w \in ws : t \in TablesOf[w]}]
    BY <1>1 DEF Visible
  <1>. QED  BY <1>2 DEF Abstract!Next, Abstract!Add

\* Rows of one table vanish: the store's Drop (drop_measurement).
LEMMA SeenDropped ==
    ASSUME NEW s \in Table,
           \A t \in Table : \A w : Seen(w, t)' => Seen(w, t),
           \A t \in Table : t # s => \A w : Seen(w, t) => Seen(w, t)'
    PROVE  Abstract!Next
  <1>1. \A t \in Table : t # s => Visible'[t] = Visible[t]
    BY SeenIs
  <1>2. Visible'[s] \in SUBSET Visible[s]
    BY SeenIs
  <1>3. Visible' = [Visible EXCEPT ![s] = Visible'[s]]
    BY <1>1 DEF Visible
  <1>. QED  BY <1>2, <1>3 DEF Abstract!Next, Abstract!Drop

\* A write appears when it is applied, all of it (apply under one lock).
LEMMA WriteIsAdd ==
    ASSUME Base, NEW w \in Write, LogWrite(w) \/ FinishWrite(w)
    PROVE  [Abstract!Next]_Visible
  <1>0. up /\ UNCHANGED <<up, hold, files>>
    BY DEF LogWrite, FinishWrite, ApplyWrite, RefuseWrite
  <1>1. CASE ApplyWrite(w)
    <2>1. \A t \in Table : \A u : u \in buffer'[t] <=> u \in buffer[t] \/ (u = w /\ t \in TablesOf[w])
      BY <1>1 DEF ApplyWrite, RowsOf
    <2>2. w \notin BadWrite
      BY <1>1 DEF ApplyWrite
    <2>3. \A t \in Table : \A u : u \in buffer'[t] <=> u \in buffer[t] \/ (u \in {w} /\ t \in TablesOf[u])
      <3>1. \A t \in Table : \A u : (u \in {w} /\ t \in TablesOf[u]) <=> (u = w /\ t \in TablesOf[w])
        OBVIOUS
      <3>. QED  BY <2>1, <3>1
    <2>4. {w} \in SUBSET Write /\ \A u \in {w} : u \notin BadWrite
      BY <2>2
    <2>5. \A t \in Table : \A u : Seen(u, t)' <=> Seen(u, t) \/ (u \in {w} /\ t \in TablesOf[u])
      BY <1>0, <2>3, <2>4 DEF Seen
    <2>. QED  BY <2>4, <2>5, SeenAdded
  <1>2. CASE ~ApplyWrite(w)
    <2>1. \A t \in Table : \A u : u \notin BadWrite => (u \in buffer'[t] <=> u \in buffer[t])
      <3>1. CASE LogWrite(w)
        BY <3>1 DEF LogWrite
      <3>2. CASE \E some \in SUBSET Table : RefuseWrite(w, some)
        <4>1. PICK some \in SUBSET Table : RefuseWrite(w, some)
          BY <3>2
        <4>2. w \in BadWrite
          BY <4>1 DEF RefuseWrite
        <4>3. \A t \in Table : \A u : u # w => (u \in buffer'[t] <=> u \in buffer[t])
          BY <4>1, SMTT(20) DEF RefuseWrite
        <4>. QED  BY <4>2, <4>3
      <3>. QED  BY <1>2, <3>1, <3>2 DEF FinishWrite
    <2>2. \A t \in Table : \A u : Seen(u, t)' <=> Seen(u, t)
      BY <1>0, <2>1 DEF Seen
    <2>. QED  BY <2>2, SeenSame
  <1>. QED  BY <1>1, <1>2

\* A flush moves rows between the places where they are seen.
LEMMA BeginIsSame ==
    ASSUME Base, Core, ~Overlap, NEW f \in Thread, Begin(f)
    PROVE  UNCHANGED Visible
  <1>1. \A t \in Table : hold[t] = {}
    <2>1. \A h \in Thread : ~Flushing(h)
      BY DEF Begin, FlushBegin, FlushNothing, Enters
    <2>. QED  BY <2>1, NothingHeld
  <1>2. PICK target \in Table \cup {None} : FlushBegin(f, target) \/ FlushNothing(f, target)
    BY DEF Begin
  <1>3. up /\ UNCHANGED <<up, files>>
    BY <1>2 DEF FlushBegin, FlushNothing, Enters
  <1>4. \A t \in Table : \A w : w \in buffer'[t] \/ w \in hold'[t] <=> w \in buffer[t] \/ w \in hold[t]
    <2>1. CASE FlushBegin(f, target)
      BY <1>1, <2>1 DEF FlushBegin, HandOver, NoRows, Owned
    <2>2. CASE FlushNothing(f, target)
      BY <2>2 DEF FlushNothing
    <2>. QED  BY <1>2, <2>1, <2>2
  <1>5. \A t \in Table : \A w : Seen(w, t)' <=> Seen(w, t)
    BY <1>3, <1>4 DEF Seen
  <1>. QED  BY <1>5, SeenSame

\* The commit of a flush shows nothing new, short of rows that a drop racing
\* it had taken from the holding area: they come back with their write.
LEMMA CommitIsAdd ==
    ASSUME Base, Core, Traces, NEW f \in Thread, FlushCommit(f)
    PROVE  [Abstract!Next]_Visible
  <1>. DEFINE ws == {w \in Write : w \notin BadWrite /\ Whole(w, th[f].snap)
                                   /\ \E t \in Table : w \in th[f].snap[t]}
  <1>0. /\ th \in [Thread -> Locals] /\ up /\ up' /\ UNCHANGED <<buffer, hold>>
        /\ th[f].pc = "upload" /\ th[f].todo = {}
        /\ \A w \in Write : TablesOf[w] \subseteq Table
    BY EngineAssumption DEF Base, TypeOK, Locals, FlushCommit
  <1>1. \A t \in Table : \A w : w \in files'[t] <=>
           w \in files[t] \/ (t \in th[f].done /\ w \in th[f].snap[t])
    BY DEF FlushCommit, Committed
  <1>2. \A t \in Table : \A w \in th[f].snap[t] :
           /\ t \in th[f].done /\ w \in Write /\ t \in TablesOf[w]
           /\ w \in hold[t] \/ w \in BadWrite \/ Whole(w, th[f].snap)
    <2>1. \A t \in Table : \A w \in th[f].snap[t] :
             /\ t \in TablesOf[w] /\ t \in th[f].todo \cup th[f].done
             /\ w \in hold[t] \/ w \in BadWrite \/ Whole(w, th[f].snap)
      BY <1>0 DEF Traces, Taken
    <2>2. th[f].snap \in [Table -> SUBSET Write]
      BY <1>0 DEF Locals
    <2>. QED  BY <1>0, <2>1, <2>2
  <1>3. ASSUME NEW t \in Table, NEW w, Seen(w, t)'
        PROVE  Seen(w, t) \/ (w \in ws /\ t \in TablesOf[w])
    <2>1. CASE Seen(w, t)
      BY <2>1
    <2>2. CASE ~Seen(w, t)
      <3>1. w \notin BadWrite /\ w \in th[f].snap[t] /\ w \notin hold[t]
        BY <1>0, <1>1, <1>3, <2>2 DEF Seen
      <3>2. Whole(w, th[f].snap) /\ w \in Write /\ t \in TablesOf[w]
        BY <1>2, <3>1
      <3>. QED  BY <3>1, <3>2
    <2>. QED  BY <2>1, <2>2
  <1>4. ASSUME NEW t \in Table, NEW w, Seen(w, t) \/ (w \in ws /\ t \in TablesOf[w])
        PROVE  Seen(w, t)'
    <2>1. CASE Seen(w, t)
      BY <1>0, <1>1, <2>1 DEF Seen
    <2>2. CASE w \in ws /\ t \in TablesOf[w]
      <3>1. w \in th[f].snap[t] /\ w \notin BadWrite
        BY <2>2 DEF Whole
      <3>. QED  BY <1>0, <1>1, <1>2, <3>1 DEF Seen
    <2>. QED  BY <1>4, <2>1, <2>2
  <1>5. ws \in SUBSET Write
    OBVIOUS
  <1>. HIDE DEF ws
  <1>. QED  BY <1>3, <1>4, <1>5, SeenAdded

\* The holding area lets go of rows that are in files, short of those of the
\* one table whose drop has committed since.
LEMMA UnholdIsDrop ==
    ASSUME Base, Core, Traces, OneDropper, NEW f \in Thread, FlushUnhold(f)
    PROVE  [Abstract!Next]_Visible
  <1>0. /\ up /\ up' /\ UNCHANGED <<buffer, files>> /\ th[f].pc = "unhold"
        /\ \A t \in Table : hold'[t] \subseteq hold[t]
    BY DEF FlushUnhold
  <1>1. \A t \in Table : \A w : Seen(w, t)' => Seen(w, t)
    BY <1>0 DEF Seen
  <1>2. ASSUME NEW t \in Table, NEW w, Seen(w, t), ~Seen(w, t)'
        PROVE  \E d \in Dropper : th[d].pc = "purgeHold" /\ th[d].target = t
    <2>1. w \in hold[t] /\ w \notin files[t]
      BY <1>0, <1>2 DEF Seen
    <2>. QED  BY <1>0, <2>1 DEF Traces, Taken
  <1>3. CASE \A t \in Table : \A w : Seen(w, t) => Seen(w, t)'
    BY <1>1, <1>3, SeenSame
  <1>4. ASSUME NEW s \in Table, NEW u, Seen(u, s), ~Seen(u, s)'
        PROVE  Abstract!Next
    <2>1. PICK d \in Dropper : th[d].target = s
      BY <1>2, <1>4
    <2>2. \A e \in Dropper : e = d
      BY DEF OneDropper
    <2>3. \A t \in Table : t # s => \A w : Seen(w, t) => Seen(w, t)'
      BY <1>2, <2>1, <2>2
    <2>. QED  BY <1>1, <2>3, SeenDropped
  <1>. QED  BY <1>3, <1>4

\* Each step of drop_table takes rows of its table only.
LEMMA DropIsDrop ==
    ASSUME Base, Core, NEW f \in Thread, CommitDrop(f) \/ PurgeHold(f) \/ PurgeBuffer(f)
    PROVE  Abstract!Next
  <1>0. /\ th[f].target \in Table /\ up /\ up'
        /\ \A v \in {buffer, hold, files} : v \in [Table -> SUBSET Write]
    BY DEF Base, TypeOK, Core, OneFlush, CommitDrop, PurgeHold, PurgeBuffer
  <1>1. /\ \A t \in Table : t # th[f].target =>
              buffer'[t] = buffer[t] /\ hold'[t] = hold[t] /\ files'[t] = files[t]
        /\ \A t \in Table : /\ buffer'[t] \subseteq buffer[t] /\ hold'[t] \subseteq hold[t]
                            /\ files'[t] \subseteq files[t]
    BY <1>0 DEF CommitDrop, PurgeHold, PurgeBuffer
  <1>2. /\ \A t \in Table : \A w : Seen(w, t)' => Seen(w, t)
        /\ \A t \in Table : t # th[f].target => \A w : Seen(w, t) => Seen(w, t)'
    BY <1>0, <1>1 DEF Seen
  <1>. QED  BY <1>0, <1>2, SeenDropped

\* A crash loses no row a client could see: what was in memory only is in the
\* log.  Writes in the log that nobody was told of appear.
LEMMA CrashIsAdd ==
    ASSUME Base, Traces, Crash
    PROVE  Abstract!Next
  <1>. DEFINE ws == {w \in Write : w \notin BadWrite /\ InLog(w)}
  <1>0. up /\ ~up' /\ UNCHANGED <<gens, files>>
    BY DEF Crash
  <1>1. /\ \A w : InLog(w)' <=> InLog(w)
        /\ \A w : InLog(w) => w \in Write
    <2>1. \A g \in DOMAIN gens : gens[g] \subseteq Write
      BY DEF Base, TypeOK
    <2>. QED  BY <1>0, <2>1 DEF InLog
  <1>2. \A t \in Table : \A w : w \in buffer[t] => InLog(w) /\ t \in TablesOf[w]
    BY DEF Traces, Logs, InLog
  <1>3. \A t \in Table : \A w : w \in hold[t] => InLog(w) /\ t \in TablesOf[w]
    BY DEF Traces, Logs
  <1>4. \A t \in Table : \A w : Seen(w, t)' <=> Seen(w, t) \/ (w \in ws /\ t \in TablesOf[w])
    BY <1>0, <1>1, <1>2, <1>3 DEF Seen
  <1>5. ws \in SUBSET Write
    OBVIOUS
  <1>. HIDE DEF ws
  <1>. QED  BY <1>4, <1>5, SeenAdded

\* A restart shows what the log and the files hold (open_with_stack).
LEMMA RestartIsSame ==
    ASSUME Base, Restart
    PROVE  UNCHANGED Visible
  <1>0. ~up /\ up' /\ UNCHANGED <<gens, files, hold>>
    BY DEF Restart
  <1>1. \A t \in Table : hold[t] = {}
    BY <1>0 DEF Base, Stopped
  <1>2. \A t \in Table : \A w : w \notin BadWrite =>
           (w \in buffer'[t] <=> InLog(w) /\ t \in TablesOf[w])
    <2>1. PICK took \in [BadWrite -> SUBSET Table] :
             buffer' = [t \in Table |-> {w \in RowsOf(Logged, t) : w \in BadWrite => t \in took[w]}]
      BY DEF Restart
    <2>. QED  BY <2>1, LoggedIs
  <1>3. \A t \in Table : \A w : Seen(w, t)' <=> Seen(w, t)
    BY <1>0, <1>1, <1>2 DEF Seen
  <1>. QED  BY <1>3, SeenSame

\* Every step that is not a failure is a step of the table store or none.
LEMMA StoreStep ==
    ASSUME Base, Core, Traces, ~Overlap, OneDropper, [Next]_vars, NoFailure'
    PROVE  [Abstract!Next]_Visible
  <1>1. \A f \in Thread : ~FlushFault(f)
    BY Quiet
  <1>2. CASE \E w \in Write : LogWrite(w) \/ FinishWrite(w)
    BY <1>2, WriteIsAdd
  <1>3. CASE \E f \in Thread : Begin(f)
    BY <1>3, BeginIsSame
  <1>4. CASE \E f \in Thread : FlushStep(f)
    <2>1. PICK f \in Thread : FlushStep(f)
      BY <1>4
    <2>2. CASE (\E t \in Table : FlushOne(f, t)) \/ FlushReclaim(f)
      <3>1. up /\ UNCHANGED <<up, buffer, hold, files>>
        BY <2>2 DEF FlushOne, FlushReclaim
      <3>2. \A t \in Table : \A w : Seen(w, t)' <=> Seen(w, t)
        BY <3>1 DEF Seen
      <3>. QED  BY <3>2, SeenSame
    <2>. QED
      BY <2>1, <2>2, CommitIsAdd, UnholdIsDrop, DropIsDrop DEF FlushStep
  <1>5. CASE (\E t \in Table : QueryLive(t)) \/ QueryFiles \/ QueryDone \/ UNCHANGED vars
    <2>1. UNCHANGED <<up, gens, buffer, hold, files>>
      BY <1>5 DEF QueryLive, QueryFiles, QueryDone, vars
    <2>2. \A t \in Table : \A w : Seen(w, t)' <=> Seen(w, t)
      BY <2>1 DEF Seen, InLog
    <2>. QED  BY <2>2, SeenSame
  <1>6. CASE Crash
    BY <1>6, CrashIsAdd
  <1>7. CASE Restart
    BY <1>7, RestartIsSame
  <1>. QED  BY <1>1, <1>2, <1>3, <1>4, <1>5, <1>6, <1>7 DEF Next

\* As long as nothing fails, a node on which tables are dropped one after the
\* other implements the table store: through flushes, drops, crashes and
\* replays, what a client can read changes by whole writes and by drops only
\* (write_lp_internal, flush_all, drop_table, open_with_stack).
THEOREM TablesAreStores ==
    ASSUME ~Overlap, OneDropper
    PROVE  Spec /\ []NoFailure => ImplementsTableStore
  <1>1. Init => Abstract!Init
    <2>. SUFFICES ASSUME Init PROVE Visible = [t \in Table |-> {}]
      BY DEF Abstract!Init
    <2>1. \A t \in Table : Readable(t) = {}
      BY DEF Init, NoRows, Readable
    <2>2. up
      BY DEF Init
    <2>. QED  BY <2>1, <2>2 DEF Visible
  <1>2. IInv /\ Traces /\ NoFailure /\ [Next]_vars /\ NoFailure' => Traces'
    BY TracesStep DEF IInv
  <1>3. IInv /\ Traces /\ NoFailure /\ [Next]_vars /\ NoFailure' => [Abstract!Next]_Visible
    BY StoreStep DEF IInv
  <1>. QED
    BY <1>1, <1>2, <1>3, TracesInit, Inductive, PTL DEF Spec, ImplementsTableStore, Abstract!Spec
=============================================================================
