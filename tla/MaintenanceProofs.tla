------------------------- MODULE MaintenanceProofs --------------------------
(***************************************************************************)
(* Proofs about Maintenance: no live file is deleted or overwritten, a     *)
(* query finds its files, and no key is lost, for any number of nodes,     *)
(* keys, deletes and passes.  The names of files are unique as long as no  *)
(* node's file_seq reaches the number another node began with (Apart).     *)
(***************************************************************************)
EXTENDS MaintenanceSteps

USE ZenonT(30)

(***************************************************************************)
(* Steps that put.                                                         *)
(***************************************************************************)
\* A number that n takes from its counter is in no name yet.
LEMMA Fresh ==
    ASSUME Types, Types', Names, ApartAtStart, Apart, Apart', NEW n \in Node,
           NEW p, p.seq \in Nat, seq[n] <= p.seq, p.seq < seq'[n]
    PROVE  ~Used(p) /\ Used(p)'
  <1>1. \A m \in Node : seq[m] \in Nat /\ seq'[m] \in Nat /\ Seq0[m] \in Nat
    BY MaintenanceAssumption DEF Types
  <1>2. \A m \in Node : Seq0[m] <= seq[m]
    BY DEF Names
  <1>3. Used(p)'
    <2>1. Seq0[n] <= p.seq
      BY <1>1, <1>2, SMTT(20)
    <2>. QED  BY <2>1 DEF Used
  <1>4. ASSUME NEW m \in Node, Seq0[m] <= p.seq, p.seq < seq[m] PROVE FALSE
    <2>1. CASE m = n
      BY <1>1, <1>4, <2>1, SMTT(20)
    <2>2. CASE Seq0[n] < Seq0[m]
      <3>1. seq'[n] <= Seq0[m]
        BY <2>2 DEF Apart
      <3>. QED  BY <1>1, <1>4, <3>1, SMTT(20)
    <2>3. CASE Seq0[m] < Seq0[n]
      <3>1. seq[m] <= Seq0[n]
        BY <2>3 DEF Apart
      <3>. QED  BY <1>1, <1>2, <1>4, <3>1, SMTT(20)
    <2>4. m # n => Seq0[m] # Seq0[n]
      BY DEF ApartAtStart
    <2>. QED  BY <1>1, <2>1, <2>2, <2>3, <2>4, SMTT(20)
  <1>. QED  BY <1>3, <1>4 DEF Used

\* What the task of n is after it put a file: the file holds every key of
\* the inputs that no delete matches.
Uploaded(n, kind, rows, t) ==
    /\ t \in Tasks /\ t.stage \in {"commit", "swap"} /\ t.dels \subseteq tombs
    /\ t.out = {MetaOf(PathOf(kind, rows, seq[n]), rows)}
    /\ \A f \in t.ins : Known(f.path)
    /\ \A g \in t.todo : \A f \in g : Known(f.path)
    /\ \A g \in t.todo : g # {} /\ \A f, h \in g : f.path.part = h.path.part
    /\ \A k \in Keys : HasKey(t.ins, k) => Hidden(k) \/ \E r \in rows : r.key = k

Upload(n, kind, rows, t) ==
    /\ Put(PathOf(kind, rows, seq[n]), rows)
    /\ seq' = [seq EXCEPT ![n] = @ + 1]
    /\ Go(n, t)
    /\ UNCHANGED <<log, view, gc, query, clocks>>

LEMMA PutStep ==
    ASSUME IInv, ApartAtStart, Apart, Apart', NEW n \in Node,
           NEW rows, NEW h, HourRows(rows, h), NEW kind \in {"flush", "c", "t"},
           NEW t, Uploaded(n, kind, rows, t), Upload(n, kind, rows, t)
    PROVE  IInv'
  <1>t. /\ t \in Tasks /\ t.stage \in {"commit", "swap"} /\ t.dels \subseteq tombs
        /\ t.out = {MetaOf(PathOf(kind, rows, seq[n]), rows)}
        /\ \A f \in t.ins : Known(f.path)
        /\ \A g \in t.todo : \A f \in g : Known(f.path)
        /\ \A g \in t.todo : g # {} /\ \A f, h1 \in g : f.path.part = h1.path.part
        /\ \A k \in Keys : HasKey(t.ins, k) => Hidden(k) \/ \E r \in rows : r.key = k
    BY DEF Uploaded
  <1>u. /\ Put(PathOf(kind, rows, seq[n]), rows) /\ seq' = [seq EXCEPT ![n] = @ + 1]
        /\ Go(n, t) /\ UNCHANGED <<log, view, gc, query, clocks>>
    BY DEF Upload
  <1>r. /\ rows \subseteq Rows /\ rows # {}
        /\ \A r \in rows : HourPartition(KeyTs[r.key]) = h
    BY DEF HourRows
  <1>0. Types /\ seq[n] \in Nat
    BY DEF IInv, Types
  <1>a. PICK path : path = PathOf(kind, rows, seq[n])
    OBVIOUS
  <1>b. PICK o : o = MetaOf(path, rows)
    OBVIOUS
  <1>1. /\ path \in Paths /\ path.seq = seq[n] /\ path.part = h
        /\ o \in Files /\ o.path = path
    BY <1>0, <1>a, <1>b, NewFile, SMTT(20)
  <1>2. t.out = {o}
    BY <1>a, <1>b, <1>t
  <1>4. /\ DOMAIN objects' = {path} \cup DOMAIN objects /\ objects'[path] = rows
        /\ \A p \in DOMAIN objects : p # path => objects'[p] = objects[p]
    BY <1>a, <1>u DEF Put
  <1>5. /\ task' \in [Node -> Tasks] /\ task'[n] = t
        /\ \A m \in Node : m # n => task'[m] = task[m]
    BY <1>0, <1>t, <1>u, TaskSet
  <1>6. /\ live' = live /\ tombs' = tombs /\ view' = view /\ gc' = gc
        /\ query' = query /\ latest' = latest /\ cutoff' = cutoff /\ flushes' = flushes
    BY <1>u DEF log, clocks
  <1>7. /\ seq' \in [Node -> Nat] /\ seq'[n] = seq[n] + 1
        /\ \A m \in Node : seq[m] <= seq'[m]
    BY <1>0, <1>u, SMTT(20) DEF Types
  <1>8. Types'
    BY <1>0, <1>1, <1>4, <1>5, <1>6, <1>7 DEF Types
  <1>9. ~Used(path) /\ Used(path)'
    <2>1. seq[n] <= path.seq /\ path.seq < seq'[n] /\ path.seq \in Nat
      BY <1>0, <1>1, <1>7, SMTT(20)
    <2>. QED  BY <1>8, <2>1, Fresh DEF IInv
  <1>10. path \notin DOMAIN objects
    BY <1>9 DEF IInv, Names
  <1>11. Grow /\ Removes
    <2>1. \A p \in DOMAIN objects' :
             IF p \in DOMAIN objects THEN objects'[p] = objects[p] ELSE ~Used(p) /\ Used(p)'
      BY <1>4, <1>9, <1>10
    <2>2. Removes
      BY <1>4 DEF Removes
    <2>. QED  BY <1>6, <1>7, <2>1, <2>2 DEF Grow
  <1>12. ActsAt(n)
    BY <1>5, <1>6 DEF ActsAt
  <1>13. \A p : Known(p)' => Known(p)
    <2>. DEFINE X == {}
    <2>1. /\ \A f \in live' : f \in live
          /\ \A f \in view'[n].files : Known(f.path)
          /\ \A f \in task'[n].ins : Known(f.path)
          /\ \A g \in task'[n].todo : \A f \in g : Known(f.path)
      BY <1>5, <1>6, <1>t, KnownOf
    <2>2. \A p : p \notin X
      OBVIOUS
    <2>. HIDE DEF X
    <2>3. \A p : Known(p)' => Known(p) \/ p \in X
      BY <1>12, <2>1, KnownStep
    <2>. QED  BY <2>2, <2>3
  <1>14. Names'
    <2>1. \A m \in Node : \A e \in gc'[m] : Pending(m, e.path)
      BY <1>6 DEF Pending
    <2>. QED  BY <1>6, <1>8, <1>11, <1>13, <2>1, NamesKept DEF IInv
  <1>15. Contents'
    <2>1. \A p \in DOMAIN objects' \ DOMAIN objects : p = path
      BY <1>4
    <2>. QED  BY <1>1, <1>4, <1>11, <1>r, <2>1, ContentsKept DEF IInv
  <1>16. Passes'
    <2>1. PassAt(n)'
      BY <1>5, <1>6, <1>t DEF PassAt, IInv, Passes
    <2>. QED  BY <1>6, <1>12, <2>1, PassesKept DEF IInv
  <1>17. Good(o)'
    <2>1. MetaOf(path, objects[path])' = o
      BY <1>b, <1>4 DEF MetaOf
    <2>2. o.path = path /\ path \in DOMAIN objects'
      BY <1>1, <1>4
    <2>. QED  BY <2>1, <2>2 DEF Good
  <1>18. Outputs'
    BY <1>0, <1>1, <1>2, <1>5, <1>6, <1>9, <1>11, <1>12, <1>13, <1>17, OutputsFresh DEF IInv
  <1>19. Deferred'
    <2>1. \A m \in Node : \A p : Pending(m, p)' = Pending(m, p)
      BY <1>6 DEF Pending
    <2>. QED  BY <1>6, <2>1 DEF IInv, Deferred
  <1>20. LiveFilesIntact'
    BY <1>6, <1>11, IntactKept DEF IInv
  <1>21. Covers'
    <2>1. ASSUME NEW m \in Node, m # n PROVE CoversAt(m)'
      <3>1. task'[m].ins = task[m].ins /\ task'[m].out = task[m].out
        BY <1>5, <2>1
      <3>. QED  BY <1>11, <3>1, CoverKept DEF IInv, Covers
    <2>2. CoversAt(n)'
      <3>1. SUFFICES ASSUME NEW k \in Keys, HasKey(task[n].ins, k)'
                     PROVE  Hidden(k)' \/ HasKey(task[n].out, k)'
        BY DEF CoversAt
      <3>2. \A f \in t.ins : f.path # path
        <4>1. t.ins \subseteq Files
          BY <1>t DEF Tasks
        <4>. QED  BY <1>1, <1>9, <1>t, <4>1 DEF IInv, Names
      <3>3. HasKey(t.ins, k)
        BY <1>4, <1>5, <3>1, <3>2 DEF HasKey
      <3>4. CASE Hidden(k)
        BY <1>11, <3>4, HiddenKept
      <3>5. CASE \E r \in rows : r.key = k
        BY <1>1, <1>2, <1>4, <1>5, <3>5 DEF HasKey
      <3>. QED  BY <1>t, <3>3, <3>4, <3>5
    <2>. QED  BY <2>1, <2>2 DEF Covers
  <1>22. Kept'
    <2>1. \A k \in Keys : HasKey(live, k) => HasKey(live, k)'
      BY <1>4, <1>6, <1>10 DEF HasKey
    <2>2. cutoff <= cutoff'
      BY <1>0, <1>6, SMTT(20) DEF Types
    <2>. QED  BY <1>6, <1>8, <1>11, <2>1, <2>2, KeptStep DEF IInv
  <1>23. MaxWait + Timeout < Grace => Reading'
    BY <1>4, <1>6, <1>8, ReadingKept DEF IInv
  <1>. QED  BY <1>8, <1>14, <1>15, <1>16, <1>18, <1>19, <1>20, <1>21, <1>22, <1>23 DEF IInv

LEMMA BaseOf ==
    ASSUME IInv, NEW n \in Node
    PROVE  /\ Base(n).files \subseteq Files /\ Base(n).tombs \subseteq tombs
           /\ \A f \in Base(n).files : Known(f.path)
  <1>1. CASE n \in Compactor
    <2>1. Base(n).files = live /\ Base(n).tombs = tombs
      BY <1>1 DEF Base, Current
    <2>. QED  BY <2>1, KnownOf DEF IInv, Types
  <1>2. CASE n \notin Compactor
    <2>1. Base(n) = view[n]
      BY <1>2 DEF Base
    <2>. QED  BY <2>1, KnownOf DEF IInv, Types, Views, Passes
  <1>. QED  BY <1>1, <1>2

LEMMA MaxOfTwo ==
    ASSUME NEW a \in Nat, NEW b \in Nat
    PROVE  Max({a, b}) \in Nat /\ Max({a, b}) >= b
  <1>1. \E x \in {a, b} : \A y \in {a, b} : x >= y
    BY SMTT(20)
  <1>2. Max({a, b}) \in {a, b} /\ \A y \in {a, b} : Max({a, b}) >= y
    BY <1>1 DEF Max
  <1>. QED  BY <1>2

\* trigger_for does not pick an empty partition.
LEMMA Triggered ==
    ASSUME NEW g, TriggerFor(g) # "none"
    PROVE  g # {}
  <1>1. SUFFICES ASSUME g = {} PROVE FALSE
    OBVIOUS
  <1>2. Cardinality(g) = 0
    BY <1>1, FS_EmptySet
  <1>3. Max({MinFiles, 2}) \in Nat /\ Max({MinFiles, 2}) >= 2
    BY MaintenanceAssumption, MaxOfTwo
  <1>4. ~(Cardinality(g) >= Max({MinFiles, 2}))
    BY <1>2, <1>3, SMTT(20)
  <1>5. ~HasOverlap(g)
    BY <1>1 DEF HasOverlap
  <1>. QED  BY <1>4, <1>5 DEF TriggerFor

\* A group that compact_once works on.
IsGroup(g) ==
    /\ g \subseteq Files /\ g # {} /\ \A f \in g : Known(f.path)
    /\ \A f, h \in g : f.path.part = h.path.part

LEMMA Groups1 ==
    ASSUME IInv, NEW n \in Node,
           NEW T \in IF task[n].stage = "idle" THEN Picked(n) ELSE {task[n].todo}
    PROVE  \A g \in T : IsGroup(g)
  <1>1. CASE task[n].stage = "idle"
    <2>1. T \subseteq Groups(n)
      BY <1>1 DEF Picked
    <2>2. ASSUME NEW g \in T PROVE IsGroup(g)
      <3>1. PICK p \in Owned[n] : g = {f \in Base(n).files : f.path.part = p}
        BY <2>1, <2>2 DEF Groups
      <3>2. g # {}
        BY <2>1, <2>2, Triggered DEF Groups
      <3>. QED  BY <3>1, <3>2, BaseOf DEF IsGroup
    <2>. QED  BY <2>2
  <1>2. CASE task[n].stage # "idle"
    <2>1. T = task[n].todo /\ task[n].todo \subseteq SUBSET Files
      BY <1>2 DEF IInv, Types, Tasks
    <2>. QED  BY <2>1, KnownOf, SMTT(20) DEF IInv, Passes, IsGroup
  <1>. QED  BY <1>1, <1>2

LEMMA MergeStep ==
    ASSUME IInv, ApartAtStart, Apart, Apart', NEW n \in Node, Merge(n)
    PROVE  IInv'
  <1>1. PICK T \in IF task[n].stage = "idle" THEN Picked(n) ELSE {task[n].todo} :
             \E g \in T :
                /\ IF PathsOf(g) \subseteq DOMAIN objects
                   THEN /\ Put(PathOf("c", MergeFiles(g), seq[n]), MergeFiles(g))
                        /\ seq' = [seq EXCEPT ![n] = @ + 1]
                        /\ Go(n, [Idle EXCEPT !.stage = "commit", !.todo = T \ {g}, !.ins = g,
                                     !.out = {MetaOf(PathOf("c", MergeFiles(g), seq[n]),
                                                     MergeFiles(g))}])
                   ELSE Go(n, Idle) /\ UNCHANGED <<objects, seq>>
                /\ UNCHANGED <<log, view, gc, query, clocks>>
    BY DEF Merge
  <1>2. PICK g \in T :
                /\ IF PathsOf(g) \subseteq DOMAIN objects
                   THEN /\ Put(PathOf("c", MergeFiles(g), seq[n]), MergeFiles(g))
                        /\ seq' = [seq EXCEPT ![n] = @ + 1]
                        /\ Go(n, [Idle EXCEPT !.stage = "commit", !.todo = T \ {g}, !.ins = g,
                                     !.out = {MetaOf(PathOf("c", MergeFiles(g), seq[n]),
                                                     MergeFiles(g))}])
                   ELSE Go(n, Idle) /\ UNCHANGED <<objects, seq>>
                /\ UNCHANGED <<log, view, gc, query, clocks>>
    BY <1>1
  <1>3. \A h \in T : IsGroup(h)
    BY Groups1
  <1>4. CASE ~(PathsOf(g) \subseteq DOMAIN objects)
    <2>1. Go(n, Idle) /\ UNCHANGED <<objects, log, view, seq, gc, query, cutoff, latest, flushes>>
      BY <1>2, <1>4 DEF clocks
    <2>. QED  BY <2>1, AbandonStep
  <1>5. CASE PathsOf(g) \subseteq DOMAIN objects
    <2>1. PICK rows : rows = MergeFiles(g)
      OBVIOUS
    <2>2. PICK t : t = [Idle EXCEPT !.stage = "commit", !.todo = T \ {g}, !.ins = g,
                          !.out = {MetaOf(PathOf("c", rows, seq[n]), rows)}]
      OBVIOUS
    <2>3. PICK h : \A f \in g : f.path.part = h
      <3>1. PICK f \in g : TRUE
        BY <1>3 DEF IsGroup
      <3>2. \A f1 \in g : f1.path.part = f.path.part
        BY <1>3 DEF IsGroup
      <3>. QED  BY <3>2
    <2>4. IsGroup(g) /\ g \in SUBSET Files
      BY <1>3 DEF IsGroup
    <2>5. \A f \in g : Used(f.path)
      BY <2>4 DEF IInv, Names, IsGroup, Files
    <2>6. /\ HourRows(rows, h)
          /\ \A k \in Keys : HasKey(g, k) => \E r \in rows : r.key = k
      <3>1. g # {} /\ Types /\ Contents
        BY <2>4 DEF IsGroup, IInv
      <3>. QED  BY <1>5, <2>1, <2>3, <2>4, <2>5, <3>1, Merged DEF HourRows
    <2>7. seq[n] \in Nat /\ MetaOf(PathOf("c", rows, seq[n]), rows) \in Files
      <3>1. seq[n] \in Nat
        BY DEF IInv, Types
      <3>. QED  BY <2>6, <3>1, NewFile, SMTT(20)
    <2>8. T \subseteq SUBSET Files
      BY <1>3 DEF IsGroup
    <2>9. /\ t \in Tasks /\ t.stage = "commit" /\ t.todo = T \ {g} /\ t.ins = g /\ t.dels = {}
          /\ t.out = {MetaOf(PathOf("c", rows, seq[n]), rows)}
      BY <2>2, <2>4, <2>7, <2>8 DEF Idle, Tasks, Stages
    <2>10. /\ Put(PathOf("c", rows, seq[n]), rows) /\ seq' = [seq EXCEPT ![n] = @ + 1]
           /\ Go(n, t) /\ UNCHANGED <<log, view, gc, query, clocks>>
      BY <1>2, <1>5, <2>1, <2>2
    <2>11. /\ \A f \in t.ins : Known(f.path)
           /\ \A g1 \in t.todo : \A f \in g1 : Known(f.path)
           /\ \A g1 \in t.todo : g1 # {} /\ \A f, g2 \in g1 : f.path.part = g2.path.part
      BY <1>3, <2>4, <2>9 DEF IsGroup
    <2>12. \A k \in Keys : HasKey(t.ins, k) => Hidden(k) \/ \E r \in rows : r.key = k
      BY <2>6, <2>9
    <2>13. t.stage \in {"commit", "swap"} /\ t.dels \subseteq tombs
      BY <2>9
    <2>14. Uploaded(n, "c", rows, t)
      BY <2>9, <2>11, <2>12, <2>13 DEF Uploaded
    <2>15. Upload(n, "c", rows, t)
      BY <2>10 DEF Upload
    <2>. QED  BY <2>6, <2>14, <2>15, PutStep
  <1>. QED  BY <1>4, <1>5

LEMMA DoomedHidden ==
    ASSUME Types, NEW f, NEW dels, dels \subseteq tombs, NEW r, r \in Doomed(f, dels)
    PROVE  Hidden(r.key)
  <1>1. PICK d \in tombs : /\ r.key \in d.keys /\ d.lo <= KeyTs[r.key]
                           /\ KeyTs[r.key] <= d.hi
    BY DEF Doomed, Deleted, Overlapping
  <1>2. [key |-> r.key, ver |-> 0] \in Deleted({[key |-> r.key, ver |-> 0]}, tombs)
    BY <1>1 DEF Deleted
  <1>. QED  BY <1>2 DEF Hidden

\* The pass p of apply_tombstones_once that a rewrite begins or goes on with.
LEMMA RewritePass ==
    ASSUME IInv, NEW n \in Node, task[n].stage \in {"idle", "rewrite"},
           NEW p \in IF task[n].stage = "idle"
                     THEN {[Idle EXCEPT !.dels = Base(n).tombs,
                                        !.todo = {{f} : f \in Touched(n)}]}
                     ELSE {task[n]}
    PROVE  /\ p \in Tasks /\ p.out = {} /\ p.dels \subseteq tombs
           /\ \A g \in p.todo : \A f \in g : Known(f.path)
           /\ \A g \in p.todo : g # {} /\ \A f, h \in g : f.path.part = h.path.part
  <1>0. tombs \subseteq Deletes /\ task[n] \in Tasks
    BY DEF IInv, Types
  <1>1. CASE task[n].stage = "idle"
    <2>. DEFINE S == {{f} : f \in Touched(n)}
    <2>1. p = [Idle EXCEPT !.dels = Base(n).tombs, !.todo = S]
      BY <1>1
    <2>2. Touched(n) \subseteq Base(n).files
      BY DEF Touched
    <2>3. /\ S \subseteq SUBSET Files
          /\ \A g \in S : \A f \in g : Known(f.path)
          /\ \A g \in S : g # {} /\ \A f, h \in g : f.path.part = h.path.part
      BY <2>2, BaseOf, SMTT(20)
    <2>. HIDE DEF S
    <2>4. Base(n).tombs \subseteq tombs
      BY BaseOf
    <2>5. p.todo = S /\ p.dels = Base(n).tombs /\ p.out = {} /\ p \in Tasks
      BY <1>0, <2>1, <2>3, <2>4 DEF Idle, Tasks, Stages
    <2>. QED  BY <2>3, <2>4, <2>5
  <1>2. CASE task[n].stage = "rewrite"
    <2>1. p = task[n]
      BY <1>2
    <2>. QED  BY <1>0, <1>2, <2>1, KnownOf DEF IInv, Passes
  <1>. QED  BY <1>1, <1>2

\* A rewrite that leaves no row puts nothing.
LEMMA EmptyRewriteStep ==
    ASSUME IInv, NEW n \in Node, task[n].stage \in {"idle", "rewrite"},
           NEW t \in Tasks, Go(n, t), t.stage = "swap", t.out = {}, t.dels \subseteq tombs,
           \A f \in t.ins : Known(f.path),
           \A g \in t.todo : \A f \in g : Known(f.path),
           \A g \in t.todo : g # {} /\ \A f, h \in g : f.path.part = h.path.part,
           \A k \in Keys : HasKey(t.ins, k) => Hidden(k),
           UNCHANGED <<objects, log, view, seq, gc, query, clocks>>
    PROVE  IInv'
  <1>. DEFINE X == {}  Y == {}
  <1>0. Types
    BY DEF IInv
  <1>1. /\ task' \in [Node -> Tasks] /\ task'[n] = t
        /\ \A m \in Node : m # n => task'[m] = task[m]
    BY <1>0, TaskSet
  <1>2. /\ live' = live /\ tombs' = tombs /\ view' = view /\ gc' = gc /\ objects' = objects
        /\ seq' = seq
        /\ query' = query /\ latest' = latest /\ cutoff' = cutoff /\ flushes' = flushes
    BY DEF log, clocks
  <1>3. Types'
    BY <1>0, <1>1, <1>2 DEF Types
  <1>4. ActsAt(n)
    BY <1>1, <1>2 DEF ActsAt
  <1>5. PassAt(n)'
    BY <1>1, <1>2 DEF IInv, Passes, PassAt
  <1>6. CoversAt(n)'
    <2>1. \A k \in Keys : HasKey(task[n].ins, k)' => HasKey(t.ins, k)
      BY <1>1, <1>2 DEF HasKey
    <2>2. \A k \in Keys : Hidden(k) => Hidden(k)'
      BY <1>2 DEF Hidden, Deleted
    <2>. QED  BY <2>1, <2>2 DEF CoversAt
  <1>7. \A k \in Keys : HasKey(live, k) => HasKey(live, k)'
    BY <1>2 DEF HasKey
  <1>8. /\ X \subseteq PathsOf(task[n].out) /\ \A f \in live' : f.path \notin Y /\ f \in live
        /\ \A o \in task'[n].out : o.path \notin X /\ o.path \notin Y
        /\ \A p \in Y : Known(p)
    BY <1>2
  <1>9. /\ task'[n].out \subseteq task[n].out
        /\ \A m \in Node : \A e \in gc'[m] : e \in gc[m]
        /\ \A f \in view'[n].files : Known(f.path)
        /\ \A f \in task'[n].ins : Known(f.path)
        /\ \A g \in task'[n].todo : \A f \in g : Known(f.path)
    BY <1>1, <1>2, KnownOf
  <1>. HIDE DEF X, Y
  <1>. QED  BY <1>2, <1>3, <1>4, <1>5, <1>6, <1>7, <1>8, <1>9, QuietStep

LEMMA RewriteStep ==
    ASSUME IInv, ApartAtStart, Apart, Apart', NEW n \in Node, Rewrite(n)
    PROVE  IInv'
  <1>. DEFINE Left(f, p) == objects[f.path] \ Doomed(f, p.dels)
              Swapping(f, p) == [p EXCEPT !.stage = "swap", !.todo = @ \ {{f}}, !.ins = {f}]
              Step(f, p) ==
                /\ task[n].stage \in {"idle", "rewrite"}
                /\ IF ~(f.path \in DOMAIN objects) THEN Go(n, Idle) /\ UNCHANGED <<objects, seq>>
                   ELSE IF Left(f, p) = {}
                   THEN Go(n, Swapping(f, p)) /\ UNCHANGED <<objects, seq>>
                   ELSE /\ Put(PathOf("t", Left(f, p), seq[n]), Left(f, p))
                        /\ seq' = [seq EXCEPT ![n] = @ + 1]
                        /\ Go(n, [Swapping(f, p) EXCEPT
                                    !.out = {MetaOf(PathOf("t", Left(f, p), seq[n]), Left(f, p))}])
                /\ UNCHANGED <<log, view, gc, query, clocks>>
  <1>1. PICK p \in IF task[n].stage = "idle"
                   THEN {[Idle EXCEPT !.dels = Base(n).tombs,
                                      !.todo = {{f} : f \in Touched(n)}]}
                   ELSE {task[n]} : \E f \in UNION p.todo : Step(f, p)
    BY DEF Rewrite
  <1>. HIDE DEF Step, Left, Swapping
  <1>2. PICK f \in UNION p.todo : Step(f, p)
    BY <1>1
  <1>3. /\ p \in Tasks /\ p.out = {} /\ p.dels \subseteq tombs
        /\ \A g \in p.todo : \A f1 \in g : Known(f1.path)
        /\ \A g \in p.todo : g # {} /\ \A f1, h \in g : f1.path.part = h.path.part
    <2>1. task[n].stage \in {"idle", "rewrite"}
      BY <1>2 DEF Step
    <2>. QED  BY <1>1, <2>1, RewritePass
  <1>4. f \in Files /\ Known(f.path)
    BY <1>3 DEF Tasks
  <1>5. CASE f.path \notin DOMAIN objects
    <2>1. Go(n, Idle) /\ UNCHANGED <<objects, log, view, seq, gc, query, cutoff, latest, flushes>>
      BY <1>2, <1>5 DEF Step, clocks
    <2>. QED  BY <2>1, AbandonStep
  <1>6. CASE f.path \in DOMAIN objects
    <2>1. PICK rows : rows = Left(f, p)
      OBVIOUS
    <2>2. PICK s : s = Swapping(f, p)
      OBVIOUS
    <2>3. /\ s \in Tasks /\ s.stage = "swap" /\ s.out = {} /\ s.dels = p.dels /\ s.ins = {f}
          /\ s.todo \subseteq p.todo
      BY <1>3, <1>4, <2>2 DEF Swapping, Tasks, Stages
    <2>4. \A k \in Keys : HasKey(s.ins, k) => Hidden(k) \/ \E r \in rows : r.key = k
      <3>1. SUFFICES ASSUME NEW r \in objects[f.path], r \notin rows PROVE Hidden(r.key)
        BY <2>3 DEF HasKey
      <3>2. r \in Doomed(f, p.dels)
        BY <2>1, <3>1 DEF Left
      <3>. QED  BY <1>3, <3>2, DoomedHidden DEF IInv
    <2>5. /\ \A f1 \in s.ins : Known(f1.path)
          /\ \A g \in s.todo : \A f1 \in g : Known(f1.path)
          /\ \A g \in s.todo : g # {} /\ \A f1, h \in g : f1.path.part = h.path.part
          /\ s.dels \subseteq tombs
      BY <1>3, <1>4, <2>3
    <2>6. CASE rows = {}
      <3>1. /\ Go(n, s) /\ task[n].stage \in {"idle", "rewrite"}
            /\ UNCHANGED <<objects, log, view, seq, gc, query, clocks>>
        BY <1>2, <1>6, <2>1, <2>2, <2>6 DEF Step
      <3>2. \A k \in Keys : HasKey(s.ins, k) => Hidden(k)
        BY <2>4, <2>6
      <3>. QED  BY <2>3, <2>5, <3>1, <3>2, EmptyRewriteStep
    <2>7. CASE rows # {}
      <3>1. HourRows(rows, f.path.part)
        BY <1>6, <2>1, <2>7 DEF Left, HourRows, IInv, Contents
      <3>2. seq[n] \in Nat
        BY DEF IInv, Types
      <3>3. MetaOf(PathOf("t", rows, seq[n]), rows) \in Files
        BY <3>1, <3>2, NewFile, SMTT(20)
      <3>4. PICK t : t = [s EXCEPT !.out = {MetaOf(PathOf("t", rows, seq[n]), rows)}]
        OBVIOUS
      <3>5. /\ t \in Tasks /\ t.stage = "swap" /\ t.dels = s.dels /\ t.ins = s.ins
            /\ t.todo = s.todo /\ t.out = {MetaOf(PathOf("t", rows, seq[n]), rows)}
        BY <2>3, <3>3, <3>4 DEF Tasks, Stages
      <3>6. Uploaded(n, "t", rows, t)
        <4>1. t.stage \in {"commit", "swap"}
          BY <3>5
        <4>. QED  BY <2>4, <2>5, <3>5, <4>1 DEF Uploaded
      <3>7. Upload(n, "t", rows, t)
        BY <1>2, <1>6, <2>1, <2>2, <2>7, <3>4 DEF Step, Upload
      <3>. QED  BY <3>1, <3>6, <3>7, PutStep
    <2>. QED  BY <2>6, <2>7
  <1>. QED  BY <1>5, <1>6
-----------------------------------------------------------------------------
(***************************************************************************)
(* A flush: one file for every hour of the batch.                          *)
(***************************************************************************)
HoursOf(ks) == {HourPartition(KeyTs[k]) : k \in ks}
PartOf(ks, v, h) ==
    {r \in {[key |-> k, ver |-> v] : k \in ks} : HourPartition(KeyTs[r.key]) = h}
FlushPath(ks, v, s, h) ==
    PathOf("flush", PartOf(ks, v, h), s + Cardinality({g \in HoursOf(ks) : g < h}))

LEMMA HoursCount ==
    ASSUME NEW ks \in Batches
    PROVE  /\ Cardinality(HoursOf(ks)) \in Nat
           /\ \A h \in HoursOf(ks) :
                 /\ Cardinality({g \in HoursOf(ks) : g < h}) \in Nat
                 /\ Cardinality({g \in HoursOf(ks) : g < h}) < Cardinality(HoursOf(ks))
  <1>. DEFINE H == HoursOf(ks)
              f == [k \in ks |-> HourPartition(KeyTs[k])]
  <1>1. ks \subseteq Keys /\ IsFiniteSet(ks)
    BY MaintenanceAssumption, FS_Subset
  <1>2. f \in Surjection(ks, H)
    BY DEF Surjection, HoursOf
  <1>3. \A h \in H : h \in Int
    BY <1>1, HourInt DEF HoursOf
  <1>. HIDE DEF H, f
  <1>4. IsFiniteSet(H)
    BY <1>1, <1>2, FS_Surjection
  <1>5. Cardinality(H) \in Nat
    BY <1>4, FS_CardinalityType
  <1>6. ASSUME NEW h \in H
        PROVE  LET G == {g \in H : g < h}
               IN  Cardinality(G) \in Nat /\ Cardinality(G) < Cardinality(H)
    <2>. DEFINE G == {g \in H : g < h}
    <2>1. G \in SUBSET H /\ h \notin G
      BY <1>3, <1>6, SMTT(20)
    <2>. HIDE DEF G
    <2>2. /\ IsFiniteSet(G) /\ Cardinality(G) <= Cardinality(H)
          /\ Cardinality(H) = Cardinality(G) => H = G
      BY <1>4, <2>1, FS_Subset
    <2>3. Cardinality(G) \in Nat
      BY <2>2, FS_CardinalityType
    <2>4. H # G
      BY <2>1
    <2>5. Cardinality(G) < Cardinality(H)
      BY <1>5, <2>2, <2>3, <2>4, SMTT(20)
    <2>. QED  BY <2>3, <2>5 DEF G
  <1>. QED  BY <1>5, <1>6 DEF H

LEMMA FlushFile ==
    ASSUME NEW ks \in Batches, NEW v \in Nat, NEW s \in Nat, NEW h \in HoursOf(ks)
    PROVE  /\ HourRows(PartOf(ks, v, h), h)
           /\ FlushPath(ks, v, s, h) \in Paths /\ FlushPath(ks, v, s, h).part = h
           /\ s <= FlushPath(ks, v, s, h).seq
           /\ FlushPath(ks, v, s, h).seq < s + Cardinality(HoursOf(ks))
           /\ MetaOf(FlushPath(ks, v, s, h), PartOf(ks, v, h)) \in Files
           /\ MetaOf(FlushPath(ks, v, s, h), PartOf(ks, v, h)).path = FlushPath(ks, v, s, h)
  <1>. DEFINE c == Cardinality({g \in HoursOf(ks) : g < h})
              rows == PartOf(ks, v, h)
              p == FlushPath(ks, v, s, h)
  <1>1. Cardinality(HoursOf(ks)) \in Nat /\ c \in Nat /\ c < Cardinality(HoursOf(ks))
    BY HoursCount
  <1>2. HourRows(rows, h)
    <2>1. PICK k \in ks : h = HourPartition(KeyTs[k])
      BY DEF HoursOf
    <2>2. [key |-> k, ver |-> v] \in rows
      BY <2>1 DEF PartOf
    <2>3. ks \subseteq Keys
      BY MaintenanceAssumption
    <2>. QED  BY <2>2, <2>3, SMTT(20) DEF PartOf, HourRows, Rows
  <1>3. p = PathOf("flush", rows, s + c)
    BY DEF FlushPath
  <1>. HIDE DEF c, rows, p
  <1>4. s + c \in Nat /\ s <= s + c /\ s + c < s + Cardinality(HoursOf(ks))
    BY <1>1, SMTT(20)
  <1>5. /\ p \in Paths /\ p.seq = s + c /\ p.part = h
        /\ MetaOf(p, rows) \in Files /\ MetaOf(p, rows).path = p
    BY <1>2, <1>3, <1>4, NewFile, SMTT(20)
  <1>. QED  BY <1>2, <1>4, <1>5 DEF rows, p

LEMMA FlushStep ==
    ASSUME IInv, ApartAtStart, Apart, Apart', NEW n \in Node, NEW ks \in Batches, Flush(n, ks)
    PROVE  IInv'
  <1>a. PICK v : v = flushes + 1
    OBVIOUS
  <1>b. PICK s : s = seq[n]
    OBVIOUS
  <1>. DEFINE H == HoursOf(ks)  Path(h) == FlushPath(ks, v, s, h)  Part(h) == PartOf(ks, v, h)
              New == {Path(h) : h \in H}
              Add == {MetaOf(Path(h), Part(h)) : h \in H}
  <1>0. Types /\ v \in Nat /\ s \in Nat /\ ks \subseteq Keys /\ flushes \in Nat
    BY <1>a, <1>b, MaintenanceAssumption, SMTT(20) DEF IInv, Types
  <1>1. objects' = [p \in New \cup DOMAIN objects |-> IF p \in New THEN Part(p.part) ELSE objects[p]]
    <2>. DEFINE P(h) == FlushPath(ks, flushes + 1, seq[n], h)
                N == {P(h) : h \in H}
    <2>1. objects' = [p \in N \cup DOMAIN objects |->
                        IF p \in N THEN PartOf(ks, flushes + 1, p.part) ELSE objects[p]]
      BY DEF Flush, HoursOf, PartOf, FlushPath
    <2>2. N = New
      BY <1>a, <1>b
    <2>3. \A p : PartOf(ks, flushes + 1, p.part) = Part(p.part)
      BY <1>a
    <2>. HIDE DEF N, New, Part
    <2>. QED  BY <2>1, <2>2, <2>3
  <1>2. Commit(n, {}, Add, {})
    BY <1>a, <1>b DEF Flush, HoursOf, PartOf, FlushPath
  <1>3. /\ seq' = [seq EXCEPT ![n] = @ + Cardinality(H)] /\ flushes' = flushes + 1
        /\ latest' = [k \in Keys |-> IF k \in ks THEN flushes' ELSE latest[k]]
        /\ gc' = gc /\ task' = task /\ query' = query /\ cutoff' = cutoff
    BY DEF Flush, HoursOf
  <1>4. \A h \in H : /\ HourRows(Part(h), h) /\ Path(h) \in Paths /\ Path(h).part = h
                     /\ s <= Path(h).seq /\ Path(h).seq < s + Cardinality(H)
                     /\ MetaOf(Path(h), Part(h)) \in Files
                     /\ MetaOf(Path(h), Part(h)).path = Path(h)
    BY <1>0, FlushFile, SMTT(20)
  <1>5. Cardinality(H) \in Nat /\ \A k \in ks : HourPartition(KeyTs[k]) \in H
    BY HoursCount DEF HoursOf
  <1>6. \A k \in ks : [key |-> k, ver |-> v] \in Part(HourPartition(KeyTs[k]))
    BY DEF PartOf
  <1>. HIDE DEF H, Path, Part
  <1>7. /\ DOMAIN objects' = New \cup DOMAIN objects
        /\ \A h \in H : objects'[Path(h)] = Part(h)
        /\ \A p \in DOMAIN objects : p \notin New => objects'[p] = objects[p]
    BY <1>1, <1>4
  <1>8. New \subseteq Paths /\ Add \subseteq Files /\ \A f \in Add : f.path \in New
    BY <1>4
  <1>9. /\ live' \subseteq Files /\ tombs' \subseteq Deletes /\ view' \in [Node -> Views]
        /\ view'[n].files = live' /\ view'[n].tombs = tombs'
        /\ \A m \in Node : m # n => view'[m] = view[m]
    <2>. HIDE DEF Add
    <2>. QED  BY <1>0, <1>2, <1>8, CommitSet, SMTT(20)
  <1>10. live' = live \cup Add /\ tombs' = tombs
    BY <1>2 DEF Commit
  <1>11. /\ seq' \in [Node -> Nat] /\ seq'[n] = s + Cardinality(H)
         /\ \A m \in Node : seq[m] <= seq'[m]
    BY <1>b, <1>0, <1>3, <1>5, SMTT(20) DEF Types
  <1>12. latest' \in [Keys -> Nat] /\ flushes' = v
    BY <1>a, <1>0, <1>3 DEF Types
  <1>13. Types'
    BY <1>0, <1>3, <1>7, <1>8, <1>9, <1>11, <1>12 DEF Types
  <1>14. ASSUME NEW p \in New PROVE ~Used(p) /\ Used(p)' /\ p \notin DOMAIN objects
    <2>1. p.seq \in Nat /\ seq[n] <= p.seq /\ p.seq < seq'[n]
      BY <1>b, <1>4, <1>11, <1>14, SMTT(20) DEF Paths
    <2>2. ~Used(p) /\ Used(p)'
      BY <1>13, <2>1, Fresh DEF IInv
    <2>. QED  BY <2>2 DEF IInv, Names
  <1>15. Grow /\ Removes
    <2>1. \A p \in DOMAIN objects' :
             IF p \in DOMAIN objects THEN objects'[p] = objects[p] ELSE ~Used(p) /\ Used(p)'
      BY <1>7, <1>14
    <2>2. Removes
      BY <1>7 DEF Removes
    <2>. QED  BY <1>10, <1>11, <2>1, <2>2 DEF Grow
  <1>16. ActsAt(n)
    BY <1>3, <1>9 DEF ActsAt
  <1>17. \A f \in live' : f \in live \/ f.path \in New
    BY <1>8, <1>10
  <1>18. \A f \in Add : Good(f)'
    <2>1. SUFFICES ASSUME NEW h \in H PROVE Good(MetaOf(Path(h), Part(h)))'
      OBVIOUS
    <2>2. PICK o : o = MetaOf(Path(h), Part(h))
      OBVIOUS
    <2>3. o.path = Path(h) /\ Path(h) \in DOMAIN objects' /\ objects'[Path(h)] = Part(h)
      BY <1>4, <1>7, <2>2
    <2>4. PICK q : q = Path(h)
      OBVIOUS
    <2>5. PICK rows : rows = Part(h)
      OBVIOUS
    <2>6. MetaOf(q, objects[q])' = o
      BY <2>2, <2>3, <2>4, <2>5 DEF MetaOf
    <2>7. Good(o)'
      BY <2>3, <2>4, <2>6 DEF Good
    <2>. QED  BY <2>2, <2>7
  <1>. HIDE DEF New, Add
  <1>19. \A p : Known(p)' => Known(p) \/ p \in New
    <2>1. /\ \A f \in view'[n].files : Known(f.path) \/ f.path \in New
          /\ \A f \in task'[n].ins : Known(f.path)
          /\ \A g \in task'[n].todo : \A f \in g : Known(f.path)
      BY <1>3, <1>9, <1>17, KnownOf
    <2>. QED  BY <1>16, <1>17, <2>1, KnownStep
  <1>20. Names'
    <2>1. \A m \in Node : \A e \in gc'[m] : Pending(m, e.path)
      BY <1>3 DEF Pending
    <2>. QED  BY <1>3, <1>7, <1>13, <1>15, <1>19, <2>1, NamesKept DEF IInv
  <1>21. Contents'
    <2>1. ASSUME NEW p \in DOMAIN objects' \ DOMAIN objects
          PROVE  /\ objects'[p] \subseteq Rows /\ objects'[p] # {}
                 /\ \A r \in objects'[p] : HourPartition(KeyTs[r.key]) = p.part
      <3>1. PICK h \in H : p = Path(h)
        BY <1>7, <2>1 DEF New
      <3>. QED  BY <1>4, <1>7, <3>1, SMTT(20) DEF HourRows
    <2>. QED  BY <1>15, <2>1, ContentsKept DEF IInv
  <1>22. Passes'
    <2>1. PassAt(n)'
      BY <1>3, <1>9, <1>10 DEF IInv, Passes, PassAt
    <2>. QED  BY <1>10, <1>16, <2>1, PassesKept DEF IInv
  <1>23. Outputs'
    <2>. DEFINE Y == {}
    <2>1. ASSUME NEW m \in Node, NEW o \in task'[m].out PROVE o.path \notin New
      <3>1. Used(o.path)
        BY <1>3, <2>1 DEF IInv, Outputs, Good, Names
      <3>. QED  BY <1>14, <3>1
    <2>2. \A p : p \notin Y
      OBVIOUS
    <2>3. \A m \in Node : \A p : Pending(m, p)' => Pending(m, p)
      BY <1>3 DEF Pending
    <2>. HIDE DEF Y
    <2>. QED  BY <1>3, <1>15, <1>19, <2>1, <2>2, <2>3, OutputsKept DEF IInv
  <1>24. Deferred'
    <2>1. \A m \in Node : \A p : Pending(m, p)' = Pending(m, p)
      BY <1>3 DEF Pending
    <2>2. \A m \in Node : \A p \in New : ~Pending(m, p)
      BY <1>14 DEF IInv, Names, Pending
    <2>. QED  BY <1>17, <2>1, <2>2 DEF IInv, Deferred
  <1>25. LiveFilesIntact'
    BY <1>10, <1>15, <1>18, IntactKept DEF IInv
  <1>26. Covers'
    BY <1>3, <1>15, CoverKept DEF IInv, Covers
  <1>27. Kept'
    <2>1. SUFFICES ASSUME NEW k \in Keys, latest'[k] > 0, ~Hidden(k)', ~Expired(k)'
                   PROVE  HasKey(live, k)'
      BY DEF Kept
    <2>2. CASE k \in ks
      <3>1. PICK h \in H : h = HourPartition(KeyTs[k]) /\ [key |-> k, ver |-> v] \in Part(h)
        BY <1>5, <1>6, <2>2
      <3>2. PICK f \in Add : f = MetaOf(Path(h), Part(h)) /\ f.path = Path(h)
        BY <1>4 DEF Add
      <3>3. f \in live' /\ f.path \in DOMAIN objects' /\ objects'[f.path] = Part(h)
        BY <1>7, <1>10, <3>2 DEF New
      <3>. QED  BY <3>1, <3>3, SMTT(20) DEF HasKey
    <2>3. CASE k \notin ks
      <3>1. latest[k] > 0
        BY <1>3, <2>1, <2>3
      <3>2. ~Hidden(k) /\ ~Expired(k)
        BY <1>3, <1>15, <2>1, HiddenKept DEF Expired
      <3>3. PICK f \in live : f.path \in DOMAIN objects /\ \E r \in objects[f.path] : r.key = k
        BY <3>1, <3>2 DEF IInv, Kept, HasKey
      <3>4. f \in live' /\ f.path \in DOMAIN objects' /\ objects'[f.path] = objects[f.path]
        BY <1>7, <1>10, <1>14, <3>3
      <3>. QED  BY <3>3, <3>4 DEF HasKey
    <2>. QED  BY <2>2, <2>3
  <1>28. MaxWait + Timeout < Grace => Reading'
    BY <1>3, <1>7, <1>13, ReadingKept DEF IInv
  <1>. QED  BY <1>13, <1>20, <1>21, <1>22, <1>23, <1>24, <1>25, <1>26, <1>27, <1>28 DEF IInv
-----------------------------------------------------------------------------
(***************************************************************************)
(* The theorems.                                                           *)
(***************************************************************************)
LEMMA InitInv == Init => IInv
  <1>1. SUFFICES ASSUME Init PROVE IInv
    OBVIOUS
  <1>2. DOMAIN objects = {} /\ live = {} /\ tombs = {} /\ \A n \in Node : task[n] = Idle
    BY <1>1 DEF Init
  <1>3. Types
    BY <1>1, IdleTask, MaintenanceAssumption DEF Init, Types, Views, NoQuery
  <1>4. /\ \A p : ~Known(p)
        /\ \A n \in Node : gc[n] = {} /\ view[n].tombs = {} /\ Seq0[n] <= seq[n]
        /\ query.files = {} /\ query.pc = "idle"
    BY <1>1, <1>2, IdleTask, MaintenanceAssumption, SMTT(20) DEF Init, Known, PathsOf, NoQuery
  <1>5. Names
    BY <1>2, <1>4 DEF Names
  <1>6. Contents /\ Deferred /\ LiveFilesIntact
    BY <1>2 DEF Contents, Deferred, LiveFilesIntact
  <1>7. Passes /\ Outputs
    BY <1>2, <1>4, IdleTask DEF Passes, Outputs
  <1>8. Covers /\ Reading
    BY <1>2, <1>4, IdleTask DEF Covers, CoversAt, HasKey, Reading
  <1>9. Kept
    BY <1>1, SMTT(20) DEF Init, Kept
  <1>. QED  BY <1>3, <1>5, <1>6, <1>7, <1>8, <1>9 DEF IInv

LEMMA Inductive ==
    ASSUME IInv, ApartAtStart, Apart, Apart', [Next]_vars
    PROVE  IInv'
  <1>1. ASSUME NEW n \in Node, Maintain(n) PROVE IInv'
    BY <1>1, MergeStep, CommitMergeStep, StaleMergeStep, RewriteStep, SwapStep, RetentionStep
    DEF Maintain
  <1>2. ASSUME NEW n \in Node, RunGc(n) \/ FailCommit(n) PROVE IInv'
    BY <1>2, RunGcStep, FailCommitStep
  <1>3. ASSUME NEW n \in Node, NEW ks \in Batches, Flush(n, ks) PROVE IInv'
    BY <1>3, FlushStep
  <1>4. ASSUME NEW n \in Node, NEW d \in Deletes, DeleteWhere(n, d) PROVE IInv'
    BY <1>4, DeleteWhereStep
  <1>5. ASSUME QueryBegin \/ QueryAdmit \/ QueryEnd \/ Tick \/ HourPasses PROVE IInv'
    BY <1>5, QueryBeginStep, QueryAdmitStep, QueryEndStep, TickStep, HourPassesStep
  <1>6. ASSUME UNCHANGED vars PROVE IInv'
    <2>1. /\ UNCHANGED <<objects, live, tombs, view, seq, task, latest>>
          /\ gc' = gc /\ query' = query /\ cutoff' = cutoff /\ flushes' = flushes
      BY <1>6 DEF vars
    <2>2. Types' /\ cutoff <= cutoff'
      BY <2>1, SMTT(20) DEF IInv, Types
    <2>3. MaxWait + Timeout < Grace => Reading'
      BY <2>1 DEF IInv, Reading, Waited
    <2>4. \A m \in Node : \A p : Pending(m, p)' => Pending(m, p)
      BY <2>1 DEF Pending
    <2>. QED  BY <2>1, <2>2, <2>3, <2>4, ClockStep
  <1>. QED  BY <1>1, <1>2, <1>3, <1>4, <1>5, <1>6 DEF Next

\* Neither the deletion queues (run_gc) of any number of nodes nor their
\* flushes, merges and rewrites touch a file of the catalog, as long as no
\* node's file_seq reaches the number another node began with.
THEOREM LiveFilesStay ==
    ASSUME ApartAtStart
    PROVE  Spec /\ []Apart => []LiveFilesIntact
  <1>1. IInv /\ Apart /\ Apart' /\ [Next]_vars => IInv'
    BY Inductive
  <1>2. IInv => LiveFilesIntact
    BY DEF IInv
  <1>. QED  BY <1>1, <1>2, InitInv, PTL DEF Spec

\* No key is lost: what compact_once merges, apply_tombstones_once rewrites
\* and enforce_retention drops leaves every flushed key that no delete
\* matches and that has not expired in a live file.
THEOREM KeysStay ==
    ASSUME ApartAtStart
    PROVE  Spec /\ []Apart => []KeysKept
  <1>1. IInv /\ Apart /\ Apart' /\ [Next]_vars => IInv'
    BY Inductive
  <1>2. IInv => KeysKept
    BY KeysKeptIff DEF IInv
  <1>. QED  BY <1>1, <1>2, InitInv, PTL DEF Spec

\* A query finds its files if gc_grace_secs exceeds the wait for admission
\* and query_timeout_secs together.
THEOREM QueriesFindFiles ==
    ASSUME ApartAtStart, MaxWait + Timeout < Grace
    PROVE  Spec /\ []Apart => []QueryFilesExist
  <1>1. IInv /\ Apart /\ Apart' /\ [Next]_vars => IInv'
    BY Inductive
  <1>2. IInv => QueryFilesExist
    BY DEF IInv, Reading, QueryFilesExist, PathsOf
  <1>. QED  BY <1>1, <1>2, InitInv, PTL DEF Spec
=============================================================================
