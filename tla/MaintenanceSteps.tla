-------------------------- MODULE MaintenanceSteps --------------------------
(***************************************************************************)
(* The invariant of Maintenance that MaintenanceProofs rests on, the       *)
(* lemmas about numbers, names and files it needs, and the steps that put  *)
(* no file: each preserves it.                                             *)
(***************************************************************************)
EXTENDS Maintenance, FiniteSetTheorems, WellFoundedInduction, TLAPS

USE ZenonT(30)

\* file_seq of every node began elsewhere, and none has reached where
\* another one began.
ApartAtStart == \A m, n \in Node : m # n => Seq0[m] # Seq0[n]
Apart == \A m, n \in Node : Seq0[m] < Seq0[n] => seq[m] <= Seq0[n]

Rows == [key : Keys, ver : Nat]
Times == {KeyTs[k] : k \in Keys}
Paths == [part : Parts, kind : {"flush", "c", "t"}, max : Times, seq : Nat]
Files == [path : Paths, lo : Nat, hi : Nat]
Views == [files : SUBSET Files, tombs : SUBSET Deletes]
Stages == {"idle", "merge", "commit", "rewrite", "swap"}
Tasks == [stage : Stages, todo : SUBSET SUBSET Files, dels : SUBSET Deletes, done : Nat,
          ins : SUBSET Files, out : SUBSET Files]

Types ==
    /\ DOMAIN objects \subseteq Paths /\ live \subseteq Files /\ tombs \subseteq Deletes
    /\ view \in [Node -> Views] /\ seq \in [Node -> Nat] /\ task \in [Node -> Tasks]
    /\ gc \in [Node -> SUBSET [path : Paths, age : Nat]]
    /\ latest \in [Keys -> Nat] /\ flushes \in Nat /\ cutoff \in Nat
    /\ query \in [pc : {"idle", "waiting", "running"}, files : SUBSET Files, age : Nat]

\* A name that has been given.
Used(p) == \E n \in Node : Seq0[n] <= p.seq /\ p.seq < seq[n]

\* f is in the store, as it was put.
Good(f) == f.path \in DOMAIN objects /\ MetaOf(f.path, objects[f.path]) = f

\* A path that a node may name in a commit.
Known(p) ==
    \/ p \in PathsOf(live)
    \/ \E n \in Node : \/ p \in PathsOf(view[n].files)
                       \/ p \in PathsOf(task[n].ins)
                       \/ p \in PathsOf(UNION task[n].todo)

Pending(n, p) == \E e \in gc[n] : e.path = p

\* Counters only go up, and whatever is named has been given its name.
Names ==
    /\ \A n \in Node : Seq0[n] <= seq[n]
    /\ \A p \in DOMAIN objects : Used(p)
    /\ \A p \in Paths : Known(p) => Used(p)
    /\ \A n \in Node : \A e \in gc[n] : Used(e.path)
    /\ \A f \in query.files : Used(f.path)

\* An object holds rows of its partition's hour.
Contents ==
    \A p \in DOMAIN objects :
        /\ objects[p] \subseteq Rows /\ objects[p] # {}
        /\ \A r \in objects[p] : HourPartition(KeyTs[r.key]) = p.part

\* The groups of a pass are of one partition each.
Passes ==
    \A n \in Node :
        /\ \A g \in task[n].todo : g # {} /\ \A f, h \in g : f.path.part = h.path.part
        /\ task[n].stage \notin {"commit", "swap"} => task[n].out = {}
        /\ task[n].dels \subseteq tombs /\ view[n].tombs \subseteq tombs

\* The output of a pass is its own until it is committed or given up.
Outputs ==
    \A n \in Node : \A o \in task[n].out :
        /\ Good(o) /\ ~Known(o.path)
        /\ \A m \in Node : ~Pending(m, o.path)
        /\ \A m \in Node : m # n => o.path \notin PathsOf(task[m].out)

\* No live file waits for deletion.
Deferred == \A n \in Node : \A f \in live : ~Pending(n, f.path)

\* A pass has every key of its inputs that no delete matches.
HasKey(fs, k) == \E f \in fs : f.path \in DOMAIN objects /\ \E r \in objects[f.path] : r.key = k
CoversAt(n) ==
    \A k \in Keys : HasKey(task[n].ins, k) => Hidden(k) \/ HasKey(task[n].out, k)
Covers == \A n \in Node : CoversAt(n)

\* KeysKept, of files.
Kept ==
    \A k \in Keys : latest[k] > 0 /\ ~Hidden(k) /\ ~Expired(k) => HasKey(live, k)

\* What a query reads has waited for deletion no longer than the query runs.
Waited == IF query.pc = "running" THEN query.age + MaxWait ELSE query.age
Reading ==
    query.pc # "idle" =>
        /\ query.age <= IF query.pc = "running" THEN Timeout ELSE MaxWait
        /\ \A f \in query.files :
              /\ f.path \in DOMAIN objects
              /\ \A n \in Node : \A e \in gc[n] : e.path = f.path => e.age <= Waited

IInv ==
    /\ Types /\ Names /\ Contents /\ Passes /\ Outputs /\ Deferred /\ LiveFilesIntact
    /\ Covers /\ Kept
    /\ MaxWait + Timeout < Grace => Reading
-----------------------------------------------------------------------------
(***************************************************************************)
(* Numbers and finite sets of numbers.                                     *)
(***************************************************************************)
\* A set of naturals has a least member.
LEMMA NatMin ==
    ASSUME NEW T, T \subseteq Nat, T # {}
    PROVE  \E x \in T : \A y \in T : x <= y
  <1>. DEFINE R == {ss \in Nat \X Nat : ss[1] < ss[2]}
  <1>1. IsWellFoundedOn(R, Nat)
    BY NatLessThanWellFounded DEF OpToRel
  <1>. HIDE DEF R
  <1>2. PICK x \in T : \A y \in T : ~(<<y, x>> \in R)
    BY <1>1, WFMin
  <1>3. \A y \in T : ~(y < x)
    BY <1>2 DEF R
  <1>. QED  BY <1>3, SMTT(20)

\* Finitely many naturals have a bound: a least n for which f has none
\* cannot be.
LEMMA FiniteBound ==
    ASSUME NEW n \in Nat, NEW f, \A i \in 1 .. n : f[i] \in Nat
    PROVE  \E b \in Nat : \A i \in 1 .. n : f[i] <= b
  <1>. DEFINE Bounded(j) == \E b \in Nat : \A i \in 1 .. j : f[i] <= b
              Bad == {j \in 0 .. n : ~Bounded(j)}
  <1>1. SUFFICES ASSUME Bad # {} PROVE FALSE
    <2>1. n \in 0 .. n
      BY SMTT(20)
    <2>2. n \notin Bad => Bounded(n)
      BY <2>1
    <2>. QED  BY <2>2
  <1>2. PICK j \in Bad : \A i \in Bad : j <= i
    <2>. HIDE DEF Bad
    <2>1. Bad \subseteq Nat
      BY SMTT(20) DEF Bad
    <2>. QED  BY <1>1, <2>1, NatMin
  <1>3. j # 0
    <2>1. Bounded(0)
      <3>1. \A i \in 1 .. 0 : f[i] <= 0
        BY SMTT(20)
      <3>. QED  BY <3>1
    <2>. QED  BY <2>1
  <1>4. PICK b \in Nat : \A i \in 1 .. (j - 1) : f[i] <= b
    <2>1. j - 1 \in 0 .. n /\ ~(j <= j - 1)
      BY <1>3, SMTT(20)
    <2>. QED  BY <1>2, <2>1
  <1>5. PICK c \in Nat : b <= c /\ f[j] <= c
    <2>1. f[j] \in Nat
      BY <1>3, SMTT(20)
    <2>2. b + f[j] \in Nat /\ b <= b + f[j] /\ f[j] <= b + f[j]
      BY <2>1, SMTT(20)
    <2>. QED  BY <2>2
  <1>6. \A i \in 1 .. j : f[i] <= c
    <2>1. SUFFICES ASSUME NEW i \in 1 .. j PROVE f[i] <= c
      OBVIOUS
    <2>2. CASE i = j
      BY <1>5, <2>2
    <2>3. CASE i # j
      <3>1. i \in 1 .. (j - 1) /\ i \in 1 .. n /\ j \in Nat
        BY <2>3, SMTT(20)
      <3>2. f[i] \in Nat /\ f[i] <= b
        BY <1>4, <3>1
      <3>. QED  BY <1>5, <3>2, SMTT(20)
    <2>. QED  BY <2>2, <2>3
  <1>. QED  BY <1>6

\* A finite set of naturals has a greatest member.
LEMMA FiniteMax ==
    ASSUME NEW S, IsFiniteSet(S), S \subseteq Nat, S # {}
    PROVE  \E x \in S : \A y \in S : y <= x
  <1>1. PICK f : f \in Bijection(1 .. Cardinality(S), S) /\ Cardinality(S) \in Nat
    BY FS_CardinalityType DEF ExistsBijection
  <1>2. /\ \A i \in 1 .. Cardinality(S) : f[i] \in S
        /\ \A y \in S : \E i \in 1 .. Cardinality(S) : f[i] = y
    BY <1>1 DEF Bijection, Injection, Surjection
  <1>3. PICK b \in Nat : \A i \in 1 .. Cardinality(S) : f[i] <= b
    BY <1>1, <1>2, FiniteBound
  <1>4. \A y \in S : y <= b
    BY <1>2, <1>3
  <1>. DEFINE T == {b - y : y \in S}
  <1>5. PICK x \in T : \A y \in T : x <= y
    <2>1. \A y \in S : b - y \in Nat
      BY <1>4, SMTT(20)
    <2>2. T \subseteq Nat /\ T # {}
      BY <2>1
    <2>. HIDE DEF T
    <2>. QED  BY <2>2, NatMin
  <1>6. PICK z \in S : x = b - z
    OBVIOUS
  <1>7. \A y \in S : b - z <= b - y
    BY <1>5, <1>6
  <1>. QED  BY <1>7, SMTT(20)
-----------------------------------------------------------------------------
(***************************************************************************)
(* Files: their names, their bounds, and what a merge holds.               *)
(***************************************************************************)
LEMMA Stamps ==
    ASSUME NEW rows, rows \subseteq Rows, rows # {}
    PROVE  LET ts == {KeyTs[r.key] : r \in rows}
           IN  ts \subseteq Nat /\ Max(ts) \in ts /\ Min(ts) \in ts
  <1>. DEFINE D == {KeyTs[k] : k \in Keys}
              ts == {KeyTs[r.key] : r \in rows}
  <1>1. KeyTs \in Surjection(Keys, D) /\ IsFiniteSet(Keys) /\ D \subseteq Nat
    BY MaintenanceAssumption DEF Surjection
  <1>2. ts \subseteq D /\ ts # {}
    BY DEF Rows
  <1>. HIDE DEF D, ts
  <1>3. IsFiniteSet(D)
    BY <1>1, FS_Surjection
  <1>4. IsFiniteSet(ts) /\ ts \subseteq Nat
    BY <1>1, <1>2, <1>3, FS_Subset
  <1>5. \E x \in ts : \A y \in ts : x >= y
    <2>1. PICK x \in ts : \A y \in ts : y <= x
      BY <1>2, <1>4, FiniteMax
    <2>. QED  BY <1>4, <2>1
  <1>6. \E x \in ts : \A y \in ts : x <= y
    BY <1>2, <1>4, NatMin
  <1>7. Max(ts) \in ts
    BY <1>5 DEF Max
  <1>8. Min(ts) \in ts
    BY <1>6 DEF Min
  <1>9. ts \subseteq Nat /\ Max(ts) \in ts /\ Min(ts) \in ts
    BY <1>4, <1>7, <1>8
  <1>. QED  BY <1>9 DEF ts

LEMMA HourInt ==
    ASSUME NEW k \in Keys
    PROVE  HourPartition(KeyTs[k]) \in Int /\ HourPartition(KeyTs[k]) \in Parts
  <1>1. KeyTs[k] \in Nat /\ HourLen \in Nat \ {0}
    BY MaintenanceAssumption
  <1>2. \A i \in Nat, j \in Nat \ {0} : i \div j \in Int
    BY SMTT(20)
  <1>. QED  BY <1>1, <1>2 DEF HourPartition, Parts

\* Some rows, all of one hour.
HourRows(rows, h) ==
    /\ rows \subseteq Rows /\ rows # {}
    /\ \A r \in rows : HourPartition(KeyTs[r.key]) = h

\* A file made of rows of one hour is named for that hour.
LEMMA NewFile ==
    ASSUME NEW rows, NEW h, HourRows(rows, h), NEW kind \in {"flush", "c", "t"},
           NEW s \in Nat, NEW p, p = PathOf(kind, rows, s)
    PROVE  /\ p \in Paths /\ p.seq = s /\ p.part = h
           /\ MetaOf(p, rows) \in Files /\ MetaOf(p, rows).path = p
  <1>. DEFINE ts == {KeyTs[r.key] : r \in rows}
  <1>. /\ rows \subseteq Rows /\ rows # {}
       /\ \A r \in rows : HourPartition(KeyTs[r.key]) = h
    BY DEF HourRows
  <1>1. ts \subseteq Nat /\ Max(ts) \in ts /\ Min(ts) \in ts
    BY Stamps
  <1>2. PICK r \in rows : Max(ts) = KeyTs[r.key]
    BY <1>1
  <1>3. HourPartition(Max(ts)) = h /\ h \in Parts
    BY <1>2, HourInt DEF Rows
  <1>. HIDE DEF ts
  <1>4. p = [part |-> h, kind |-> kind, max |-> Max(ts), seq |-> s]
    BY <1>3 DEF PathOf, ts
  <1>5. MetaOf(p, rows) = [path |-> p, lo |-> Min(ts), hi |-> Max(ts)]
    BY DEF MetaOf, ts
  <1>6. Max(ts) \in Nat /\ Min(ts) \in Nat /\ Max(ts) \in Times
    BY <1>1, <1>2 DEF Rows, Times
  <1>7. p \in Paths /\ p.seq = s /\ p.part = h
    BY <1>3, <1>4, <1>6, SMTT(20) DEF Paths
  <1>8. MetaOf(p, rows) \in Files /\ MetaOf(p, rows).path = p
    BY <1>5, <1>6, <1>7, SMTT(20) DEF Files
  <1>. QED  BY <1>7, <1>8

LEMMA BoundedMax ==
    ASSUME NEW T, T \subseteq Nat, T # {}, NEW b \in Nat, \A t \in T : t <= b
    PROVE  \E x \in T : \A y \in T : y <= x
  <1>1. IsFiniteSet(T)
    BY FS_BoundedSetOfNaturals
  <1>. QED  BY <1>1, FiniteMax

LEMMA ImageMax ==
    ASSUME NEW S, IsFiniteSet(S), NEW f \in [S -> Nat]
    PROVE  \E b \in Nat : \A x \in S : f[x] <= b
  <1>. DEFINE D == {f[x] : x \in S}
  <1>1. f \in Surjection(S, D) /\ D \subseteq Nat
    BY DEF Surjection
  <1>2. CASE S = {}
    BY <1>2
  <1>3. CASE S # {}
    <2>1. D # {}
      BY <1>3
    <2>2. \A x \in S : f[x] \in D
      OBVIOUS
    <2>. HIDE DEF D
    <2>3. IsFiniteSet(D)
      BY <1>1, FS_Surjection
    <2>4. PICK b \in D : \A y \in D : y <= b
      BY <1>1, <2>1, <2>3, FiniteMax
    <2>. QED  BY <1>1, <2>2, <2>4
  <1>. QED  BY <1>2, <1>3

\* Of some files of one partition one has the name that comes last, which
\* is the one merge_files takes a key from.
LEMMA LastPath ==
    ASSUME Types, NEW P, P \subseteq Paths, P # {}, \A p \in P : Used(p),
           \A p, q \in P : p.part = q.part
    PROVE  \E p \in P : \A q \in P \ {p} : PathBefore(q, p)
  <1>. DEFINE Rank(p) == KindRank[p.kind]
  <1>1. \A p \in Paths : /\ Rank(p) \in Nat /\ Rank(p) <= 2
                         /\ \A q \in Paths : Rank(p) = Rank(q) => p.kind = q.kind
    BY SMTT(20) DEF Paths, KindRank
  <1>2. PICK b \in Nat : \A k \in Keys : KeyTs[k] <= b
    BY ImageMax, MaintenanceAssumption
  <1>3. PICK c \in Nat : \A n \in Node : seq[n] <= c
    <2>1. seq \in [Node -> Nat] /\ IsFiniteSet(Node)
      BY MaintenanceAssumption DEF Types
    <2>. QED  BY <2>1, ImageMax
  <1>4. PICK p1 \in P : \A q \in P : Rank(q) <= Rank(p1)
    <2>. DEFINE T == {Rank(p) : p \in P}
    <2>1. T \subseteq Nat /\ T # {} /\ \A t \in T : t <= 2
      BY <1>1
    <2>. HIDE DEF T
    <2>2. PICK x \in T : \A y \in T : y <= x
      BY <2>1, BoundedMax
    <2>. QED  BY <2>2 DEF T
  <1>. DEFINE P1 == {p \in P : Rank(p) = Rank(p1)}
  <1>5. PICK p2 \in P1 : \A q \in P1 : q.max <= p2.max
    <2>. DEFINE T == {p.max : p \in P1}
    <2>1. \A p \in P : p.max \in Nat /\ p.max <= b
      BY <1>2, MaintenanceAssumption DEF Paths, Times
    <2>2. T \subseteq Nat /\ T # {} /\ \A t \in T : t <= b
      BY <2>1
    <2>. HIDE DEF T
    <2>3. PICK x \in T : \A y \in T : y <= x
      BY <2>2, BoundedMax
    <2>. QED  BY <2>3 DEF T
  <1>. DEFINE P2 == {p \in P1 : p.max = p2.max}
  <1>6. PICK p3 \in P2 : \A q \in P2 : q.seq <= p3.seq
    <2>. DEFINE T == {p.seq : p \in P2}
    <2>1. \A p \in P : p.seq \in Nat /\ p.seq <= c
      BY <1>3, SMTT(20) DEF Paths, Used, Types
    <2>2. T \subseteq Nat /\ T # {} /\ \A t \in T : t <= c
      BY <2>1
    <2>. HIDE DEF T
    <2>3. PICK x \in T : \A y \in T : y <= x
      BY <2>2, BoundedMax
    <2>. QED  BY <2>3 DEF T
  <1>7. ASSUME NEW q \in P, q # p3 PROVE PathBefore(q, p3)
    <2>. p3 \in P /\ Rank(p3) = Rank(p1) /\ p3.max = p2.max /\ p3 \in Paths /\ q \in Paths
      OBVIOUS
    <2>1. CASE Rank(q) # Rank(p1)
      <3>1. Rank(q) < Rank(p3)
        BY <1>1, <1>4, <2>1, SMTT(20)
      <3>. QED  BY <3>1 DEF PathBefore
    <2>2. CASE Rank(q) = Rank(p1) /\ q.max # p2.max
      <3>1. q.max < p3.max
        <4>1. q.max <= p2.max
          BY <1>5, <2>2
        <4>2. q.max \in Nat /\ p2.max \in Nat
          BY MaintenanceAssumption, SMTT(20) DEF Paths, Times
        <4>. QED  BY <2>2, <4>1, <4>2, SMTT(20)
      <3>2. q.kind = p3.kind
        BY <1>1, <2>2
      <3>. QED  BY <3>1, <3>2 DEF PathBefore
    <2>3. CASE Rank(q) = Rank(p1) /\ q.max = p2.max
      <3>1. q.kind = p3.kind /\ q.seq <= p3.seq /\ q.part = p3.part /\ q.max = p3.max
        BY <1>1, <1>6, <2>3, SMTT(20)
      <3>2. q.seq # p3.seq
        BY <1>7, <3>1, SMTT(20) DEF Paths
      <3>3. q.seq < p3.seq
        BY <3>1, <3>2, SMTT(20) DEF Paths
      <3>. QED  BY <3>1, <3>3 DEF PathBefore
    <2>. QED  BY <2>1, <2>2, <2>3
  <1>. QED  BY <1>7

\* merge_files: the rows of the inputs, of every key at least one.
LEMMA Merged ==
    ASSUME Types, Contents, NEW fs \in SUBSET Files, PathsOf(fs) \subseteq DOMAIN objects,
           \A f \in fs : Used(f.path), NEW h, \A f \in fs : f.path.part = h, fs # {}
    PROVE  /\ MergeFiles(fs) \subseteq Rows /\ MergeFiles(fs) # {}
           /\ \A r \in MergeFiles(fs) : HourPartition(KeyTs[r.key]) = h
           /\ \A k : HasKey(fs, k) => \E r \in MergeFiles(fs) : r.key = k
  <1>1. \A p \in PathsOf(fs) : /\ p \in Paths /\ p \in DOMAIN objects /\ Used(p)
                               /\ p.part = h
    BY DEF PathsOf, Files
  <1>2. \A r \in MergeFiles(fs) : \E p \in PathsOf(fs) : r \in objects[p]
    BY DEF MergeFiles
  <1>3. \A r \in MergeFiles(fs) : r \in Rows /\ HourPartition(KeyTs[r.key]) = h
    BY <1>1, <1>2, SMTT(20) DEF Contents
  <1>4. ASSUME NEW k, HasKey(fs, k) PROVE \E r \in MergeFiles(fs) : r.key = k
    <2>. DEFINE P == {p \in PathsOf(fs) : \E s \in objects[p] : s.key = k}
    <2>1. P \subseteq Paths /\ (\A p \in P : Used(p)) /\ \A p, q \in P : p.part = q.part
      BY <1>1
    <2>2. P # {}
      BY <1>4 DEF HasKey, PathsOf
    <2>3. PICK p \in P : \A q \in P \ {p} : PathBefore(q, p)
      <3>. HIDE DEF P
      <3>. QED  BY <2>1, <2>2, LastPath
    <2>4. PICK r \in objects[p] : r.key = k
      OBVIOUS
    <2>5. \A q \in PathsOf(fs) \ {p} :
             (\E s \in objects[q] : s.key = r.key) => PathBefore(q, p)
      BY <2>3, <2>4
    <2>6. r \in MergeFiles(fs)
      BY <2>4, <2>5, SMTT(20) DEF MergeFiles
    <2>. QED  BY <2>4, <2>6
  <1>5. MergeFiles(fs) # {}
    <2>1. PICK f \in fs : TRUE
      OBVIOUS
    <2>2. f.path \in DOMAIN objects /\ objects[f.path] # {}
      BY DEF PathsOf, Contents
    <2>3. PICK r \in objects[f.path] : TRUE
      BY <2>2
    <2>4. HasKey(fs, r.key)
      BY <2>2 DEF HasKey
    <2>. QED  BY <1>4, <2>4
  <1>. QED  BY <1>3, <1>4, <1>5

LEMMA KeysKeptIff == KeysKept <=> Kept
  <1>1. ASSUME NEW k PROVE (\E r \in LiveRows : r.key = k) <=> HasKey(live, k)
    BY DEF LiveRows, HasKey, PathsOf
  <1>. QED  BY <1>1 DEF KeysKept, Kept
-----------------------------------------------------------------------------
(***************************************************************************)
(* What every step keeps.                                                  *)
(***************************************************************************)
\* No name is given twice, no object changes under its name, no delete is
\* taken back.
Grow ==
    /\ \A n \in Node : seq[n] <= seq'[n]
    /\ tombs \subseteq tombs'
    /\ \A p \in DOMAIN objects' :
          IF p \in DOMAIN objects THEN objects'[p] = objects[p] ELSE ~Used(p) /\ Used(p)'

\* Only n's memory changes.
ActsAt(n) == \A m \in Node : m # n => task'[m] = task[m] /\ view'[m] = view[m]

LEMMA UsedKept ==
    ASSUME Types, Types', Grow, NEW p, p.seq \in Nat, Used(p)
    PROVE  Used(p)'
  <1>1. PICK n \in Node : Seq0[n] <= p.seq /\ p.seq < seq[n]
    BY DEF Used
  <1>2. seq[n] \in Nat /\ seq'[n] \in Nat /\ seq[n] <= seq'[n]
    BY DEF Types, Grow
  <1>3. p.seq < seq'[n]
    BY <1>1, <1>2, SMTT(20)
  <1>. QED  BY <1>1, <1>3 DEF Used

LEMMA HiddenKept ==
    ASSUME Grow, NEW k, Hidden(k)
    PROVE  Hidden(k)'
  BY DEF Grow, Hidden, Deleted

LEMMA GoodKept ==
    ASSUME Grow, NEW f, Good(f), f.path \in DOMAIN objects'
    PROVE  Good(f)'
  <1>1. objects'[f.path] = objects[f.path]
    BY DEF Good, Grow
  <1>. QED  BY <1>1 DEF Good, MetaOf

LEMMA KnownStep ==
    ASSUME NEW n \in Node, ActsAt(n), NEW X,
           \A f \in live' : f \in live \/ f.path \in X,
           \A f \in view'[n].files : Known(f.path) \/ f.path \in X,
           \A f \in task'[n].ins : Known(f.path),
           \A g \in task'[n].todo : \A f \in g : Known(f.path)
    PROVE  \A p : Known(p)' => Known(p) \/ p \in X
  <1>1. SUFFICES ASSUME NEW p, Known(p)', p \notin X PROVE Known(p)
    OBVIOUS
  <1>2. CASE p \in PathsOf(live)'
    BY <1>1, <1>2 DEF Known, PathsOf
  <1>3. ASSUME NEW m \in Node, \/ p \in PathsOf(view[m].files)'
                               \/ p \in PathsOf(task[m].ins)'
                               \/ p \in PathsOf(UNION task[m].todo)'
        PROVE  Known(p)
    <2>1. CASE m = n
      BY <1>1, <1>3, <2>1 DEF PathsOf
    <2>2. CASE m # n
      BY <1>3, <2>2 DEF PathsOf, ActsAt, Known
    <2>. QED  BY <2>1, <2>2
  <1>. QED  BY <1>1, <1>2, <1>3 DEF Known

LEMMA NamesKept ==
    ASSUME Types, Types', Names, Grow,
           \A p \in Paths : Known(p)' => Known(p) \/ p \in DOMAIN objects',
           \A n \in Node : \A e \in gc'[n] :
              Pending(n, e.path) \/ Known(e.path) \/ e.path \in DOMAIN objects,
           query'.files \subseteq query.files \cup live
    PROVE  Names'
  <1>1. \A n \in Node : Seq0[n] <= seq'[n]
    BY MaintenanceAssumption, SMTT(20) DEF Names, Grow, Types
  <1>2. \A p \in Paths : Used(p) => Used(p)'
    BY UsedKept DEF Paths
  <1>3. \A p \in DOMAIN objects' : Used(p)'
    BY <1>2 DEF Names, Grow, Types
  <1>4. \A p \in Paths : Known(p)' => Used(p)'
    BY <1>2, <1>3 DEF Names
  <1>5. ASSUME NEW n \in Node, NEW e \in gc'[n] PROVE Used(e.path)'
    <2>1. e.path \in Paths
      BY SMTT(20) DEF Types
    <2>2. Used(e.path)
      BY <2>1 DEF Names, Pending
    <2>. QED  BY <1>2, <2>1, <2>2
  <1>6. ASSUME NEW f \in query'.files PROVE Used(f.path)'
    <2>1. f.path \in Paths
      BY DEF Types, Files
    <2>2. f \in live => Known(f.path)
      BY DEF Known, PathsOf
    <2>3. Used(f.path)
      BY <2>1, <2>2 DEF Names
    <2>. QED  BY <1>2, <2>1, <2>3
  <1>. QED  BY <1>1, <1>3, <1>4, <1>5, <1>6 DEF Names

LEMMA ContentsKept ==
    ASSUME Contents, Grow,
           \A p \in DOMAIN objects' \ DOMAIN objects :
              /\ objects'[p] \subseteq Rows /\ objects'[p] # {}
              /\ \A r \in objects'[p] : HourPartition(KeyTs[r.key]) = p.part
    PROVE  Contents'
  BY DEF Contents, Grow

\* What is not pending is not removed.
Removes == \A p \in DOMAIN objects \ DOMAIN objects' : \E m \in Node : Pending(m, p)

\* No output is new; X becomes known and Y pending.
LEMMA OutputsKept ==
    ASSUME Outputs, Grow, Removes, NEW X, NEW Y,
           \A m \in Node : task'[m].out \subseteq task[m].out,
           \A p : Known(p)' => Known(p) \/ p \in X,
           \A m \in Node : \A p : Pending(m, p)' => Pending(m, p) \/ p \in Y,
           \A m \in Node : \A o \in task'[m].out : o.path \notin X /\ o.path \notin Y
    PROVE  Outputs'
  <1>1. SUFFICES ASSUME NEW m \in Node, NEW o \in task'[m].out
                 PROVE  /\ Good(o)' /\ ~Known(o.path)'
                        /\ \A k \in Node : ~Pending(k, o.path)'
                        /\ \A k \in Node : k # m => o.path \notin PathsOf(task[k].out)'
    BY DEF Outputs
  <1>2. o \in task[m].out
    OBVIOUS
  <1>3. /\ Good(o) /\ ~Known(o.path)
        /\ \A k \in Node : ~Pending(k, o.path)
        /\ \A k \in Node : k # m => o.path \notin PathsOf(task[k].out)
    BY <1>2 DEF Outputs
  <1>4. o.path \in DOMAIN objects'
    BY <1>3 DEF Removes, Good
  <1>5. Good(o)'
    BY <1>3, <1>4, GoodKept
  <1>6. \A k \in Node : k # m => o.path \notin PathsOf(task[k].out)'
    BY <1>3 DEF PathsOf
  <1>. QED  BY <1>3, <1>5, <1>6

\* A fresh path is the output of n.
LEMMA OutputsFresh ==
    ASSUME Types, Names, Outputs, Grow, Removes, NEW n \in Node, ActsAt(n), NEW o \in Files,
           task'[n].out = {o}, ~Used(o.path), Good(o)', gc' = gc,
           \A p : Known(p)' => Known(p)
    PROVE  Outputs'
  <1>1. ~Known(o.path) /\ \A k \in Node : ~Pending(k, o.path)
    BY DEF Names, Files, Pending
  <1>2. \A k \in Node : o.path \notin PathsOf(task[k].out)
    <2>1. ASSUME NEW k \in Node, NEW q \in task[k].out PROVE Used(q.path)
      BY DEF Outputs, Good, Names
    <2>. QED  BY <2>1 DEF PathsOf
  <1>3. \A k \in Node : k # n => task'[k].out = task[k].out
    BY DEF ActsAt
  <1>4. ASSUME NEW m \in Node, NEW q \in task'[m].out
        PROVE  /\ Good(q)' /\ ~Known(q.path)'
               /\ \A k \in Node : ~Pending(k, q.path)'
               /\ \A k \in Node : k # m => q.path \notin PathsOf(task[k].out)'
    <2>0. \A k \in Node : \A p : Pending(k, p)' = Pending(k, p)
      BY DEF Pending
    <2>1. CASE m = n
      <3>1. q = o
        BY <2>1
      <3>2. \A k \in Node : k # m => o.path \notin PathsOf(task[k].out)'
        BY <1>2, <1>3, <2>1 DEF PathsOf
      <3>. QED  BY <1>1, <2>0, <3>1, <3>2
    <2>2. CASE m # n
      <3>1. /\ Good(q) /\ ~Known(q.path) /\ q \in task[m].out
            /\ \A k \in Node : ~Pending(k, q.path)
            /\ \A k \in Node : k # m => q.path \notin PathsOf(task[k].out)
        BY <1>3, <2>2 DEF Outputs
      <3>2. Good(q)'
        <4>1. q.path \in DOMAIN objects'
          BY <3>1 DEF Removes, Good
        <4>. QED  BY <3>1, <4>1, GoodKept
      <3>3. q.path # o.path
        BY <1>2, <3>1 DEF PathsOf
      <3>4. \A k \in Node : k # m => q.path \notin PathsOf(task[k].out)'
        <4>1. \A k \in Node : k # m /\ k # n => q.path \notin PathsOf(task[k].out)'
          BY <1>3, <3>1 DEF PathsOf
        <4>2. q.path \notin PathsOf(task[n].out)'
          BY <3>3 DEF PathsOf
        <4>. QED  BY <4>1, <4>2
      <3>. QED  BY <2>0, <3>1, <3>2, <3>4
    <2>. QED  BY <2>1, <2>2
  <1>. QED  BY <1>4 DEF Outputs

LEMMA DeferredKept ==
    ASSUME Deferred, NEW Y,
           \A m \in Node : \A p : Pending(m, p)' => Pending(m, p) \/ p \in Y,
           \A f \in live' : /\ f.path \notin Y
                            /\ f \in live \/ \A m \in Node : ~Pending(m, f.path)
    PROVE  Deferred'
  BY DEF Deferred

LEMMA IntactKept ==
    ASSUME LiveFilesIntact, Deferred, Grow, Removes,
           \A f \in live' : f \in live \/ Good(f)'
    PROVE  LiveFilesIntact'
  <1>1. SUFFICES ASSUME NEW f \in live' PROVE Good(f)'
    BY DEF LiveFilesIntact, Good
  <1>2. CASE f \in live
    <2>1. Good(f) /\ \A m \in Node : ~Pending(m, f.path)
      BY <1>2 DEF LiveFilesIntact, Good, Deferred
    <2>2. f.path \in DOMAIN objects'
      BY <2>1 DEF Removes, Good
    <2>. QED  BY <2>1, <2>2, GoodKept
  <1>. QED  BY <1>2

\* A pass that goes on keeps covering its inputs.
LEMMA CoverKept ==
    ASSUME Types, Names, Outputs, Grow, Removes, NEW m \in Node, CoversAt(m),
           task'[m].ins = task[m].ins, task'[m].out = task[m].out
    PROVE  CoversAt(m)'
  <1>1. SUFFICES ASSUME NEW k \in Keys, HasKey(task[m].ins, k)'
                 PROVE  Hidden(k)' \/ HasKey(task[m].out, k)'
    BY DEF CoversAt
  <1>. DEFINE I == task[m].ins  O == task[m].out
  <1>2. \A f \in I : Used(f.path)
    BY SMTT(20) DEF Names, Known, PathsOf, Types, Tasks, Files
  <1>3. \A o \in O : o.path \in DOMAIN objects'
    BY DEF Outputs, Good, Removes
  <1>4. HasKey(I, k)
    <2>1. \E f \in I : f.path \in DOMAIN objects' /\ \E r \in objects'[f.path] : r.key = k
      BY <1>1 DEF HasKey
    <2>. QED  BY <1>2, <2>1 DEF HasKey, Grow
  <1>5. Hidden(k) \/ HasKey(O, k)
    BY <1>4 DEF CoversAt
  <1>6. HasKey(O, k) => HasKey(task[m].out, k)'
    BY <1>3 DEF HasKey, Grow
  <1>. QED  BY <1>5, <1>6, HiddenKept

LEMMA KeptStep ==
    ASSUME Types, Types', Kept, Grow, latest' = latest, cutoff <= cutoff',
           \A k \in Keys : HasKey(live, k) => HasKey(live, k)' \/ Hidden(k)' \/ Expired(k)'
    PROVE  Kept'
  <1>1. \A k \in Keys : Expired(k) => Expired(k)'
    BY HourInt, SMTT(20) DEF Expired, Types
  <1>. QED  BY <1>1, HiddenKept DEF Kept

\* The query goes on; entries of the queue are old or new.
LEMMA ReadingKept ==
    ASSUME Types, Types', Reading, query' = query, MaxWait + Timeout < Grace,
           \A p \in DOMAIN objects \ DOMAIN objects' :
              \E m \in Node : \E e \in gc[m] : e.path = p /\ e.age >= Grace,
           \A m \in Node : \A e \in gc'[m] : e \in gc[m] \/ e.age = 0
    PROVE  Reading'
  <1>1. SUFFICES ASSUME query.pc # "idle", NEW f \in query.files
                 PROVE  /\ f.path \in DOMAIN objects'
                        /\ \A n \in Node : \A e \in gc'[n] : e.path = f.path => e.age <= Waited
    BY DEF Reading, Waited
  <1>2. MaxWait \in Nat /\ Timeout \in Nat /\ Grace \in Nat /\ query.age \in Nat
    BY MaintenanceAssumption DEF Types
  <1>3. Waited \in Nat /\ Waited < Grace
    BY <1>1, <1>2, SMTT(20) DEF Waited, Reading
  <1>4. \A n \in Node : \A e \in gc[n] : e.age \in Nat
    BY SMTT(20) DEF Types
  <1>5. f.path \in DOMAIN objects /\ \A n \in Node : \A e \in gc[n] :
                                        e.path = f.path => e.age <= Waited
    BY <1>1 DEF Reading
  <1>6. f.path \in DOMAIN objects'
    <2>1. SUFFICES ASSUME f.path \notin DOMAIN objects' PROVE FALSE
      OBVIOUS
    <2>2. PICK m \in Node : \E e \in gc[m] : e.path = f.path /\ e.age >= Grace
      BY <1>5, <2>1
    <2>3. PICK e \in gc[m] : e.path = f.path /\ e.age >= Grace
      BY <2>2
    <2>4. e.age <= Waited /\ e.age \in Nat
      BY <1>4, <1>5, <2>3
    <2>. QED  BY <1>2, <1>3, <2>3, <2>4, SMTT(20)
  <1>7. \A n \in Node : \A e \in gc'[n] : e.path = f.path => e.age <= Waited
    BY <1>3, <1>5, SMTT(20)
  <1>. QED  BY <1>6, <1>7
-----------------------------------------------------------------------------
(***************************************************************************)
(* Steps that put and remove nothing.                                      *)
(***************************************************************************)
PassAt(n) ==
    /\ \A g \in task[n].todo : g # {} /\ \A f, h \in g : f.path.part = h.path.part
    /\ task[n].stage \notin {"commit", "swap"} => task[n].out = {}
    /\ task[n].dels \subseteq tombs /\ view[n].tombs \subseteq tombs

LEMMA PassesKept ==
    ASSUME Passes, NEW n \in Node, ActsAt(n), tombs \subseteq tombs', PassAt(n)'
    PROVE  Passes'
  BY SMTT(20) DEF Passes, PassAt, ActsAt

\* Outputs X of n become live, and Y waits for deletion from now on.
LEMMA QuietStep ==
    ASSUME IInv, Types', NEW n \in Node, ActsAt(n),
           objects' = objects, seq' = seq, tombs \subseteq tombs', query' = query,
           latest' = latest, cutoff' = cutoff, NEW X, NEW Y,
           \A f \in live' : f.path \notin Y /\ (f \in live \/ (f \in task[n].out /\ f.path \in X)),
           X \subseteq PathsOf(task[n].out),
           \A f \in view'[n].files : Known(f.path) \/ f.path \in X,
           \A f \in task'[n].ins : Known(f.path),
           \A g \in task'[n].todo : \A f \in g : Known(f.path),
           \A m \in Node : \A e \in gc'[m] : e \in gc[m] \/ (e.age = 0 /\ e.path \in Y),
           \A p \in Y : Known(p) \/ p \in PathsOf(task[n].out),
           task'[n].out \subseteq task[n].out,
           \A o \in task'[n].out : o.path \notin X /\ o.path \notin Y,
           PassAt(n)', CoversAt(n)',
           \A k \in Keys : HasKey(live, k) => HasKey(live, k)' \/ Hidden(k)' \/ Expired(k)'
    PROVE  IInv'
  <1>1. Grow /\ Removes
    BY SMTT(20) DEF Grow, Removes, IInv, Types
  <1>2. \A p : Known(p)' => Known(p) \/ p \in X
    BY KnownStep
  <1>3. \A m \in Node : \A p : Pending(m, p)' => Pending(m, p) \/ p \in Y
    BY DEF Pending
  <1>4. \A o \in task[n].out : /\ o.path \in DOMAIN objects /\ Good(o)
                               /\ \A m \in Node : ~Pending(m, o.path)
    BY DEF IInv, Outputs, Good
  <1>5. Names'
    <2>1. \A p \in X \cup Y : Known(p) \/ p \in DOMAIN objects
      BY <1>4, SMTT(20) DEF PathsOf
    <2>2. \A m \in Node : \A e \in gc'[m] :
             Pending(m, e.path) \/ Known(e.path) \/ e.path \in DOMAIN objects
      BY <2>1 DEF Pending
    <2>3. \A p \in Paths : Known(p)' => Known(p) \/ p \in DOMAIN objects'
      BY <1>2, <2>1
    <2>. QED  BY <1>1, <2>2, <2>3, NamesKept DEF IInv
  <1>6. Contents'
    BY <1>1, ContentsKept DEF IInv
  <1>7. Passes'
    BY PassesKept DEF IInv
  <1>8. Outputs'
    <2>1. \A m \in Node : task'[m].out \subseteq task[m].out
      BY DEF ActsAt
    <2>2. ASSUME NEW m \in Node, NEW o \in task'[m].out
          PROVE  o.path \notin X /\ o.path \notin Y
      <3>1. CASE m = n
        BY <3>1
      <3>2. CASE m # n
        BY <2>1, <3>2 DEF IInv, Outputs
      <3>. QED  BY <3>1, <3>2
    <2>. QED  BY <1>1, <1>2, <1>3, <2>1, <2>2, OutputsKept DEF IInv
  <1>9. Deferred'
    <2>1. \A f \in live' : f \in live \/ \A m \in Node : ~Pending(m, f.path)
      BY <1>4
    <2>. QED  BY <1>3, <2>1, DeferredKept DEF IInv
  <1>10. LiveFilesIntact'
    <2>1. \A f \in live' : f \in live \/ Good(f)'
      BY <1>1, <1>4, GoodKept
    <2>. QED  BY <1>1, <2>1, IntactKept DEF IInv
  <1>11. Covers'
    <2>1. ASSUME NEW m \in Node, m # n PROVE CoversAt(m)'
      <3>1. task'[m].ins = task[m].ins /\ task'[m].out = task[m].out
        BY <2>1 DEF ActsAt
      <3>. QED  BY <1>1, <3>1, CoverKept DEF IInv, Covers
    <2>. QED  BY <2>1 DEF Covers
  <1>12. Kept'
    <2>1. cutoff <= cutoff'
      BY SMTT(20) DEF IInv, Types
    <2>. QED  BY <1>1, <2>1, KeptStep DEF IInv
  <1>13. MaxWait + Timeout < Grace => Reading'
    <2>1. \A m \in Node : \A e \in gc'[m] : e \in gc[m] \/ e.age = 0
      OBVIOUS
    <2>. QED  BY <2>1, ReadingKept DEF IInv
  <1>. QED  BY <1>5, <1>6, <1>7, <1>8, <1>9, <1>10, <1>11, <1>12, <1>13 DEF IInv

LEMMA TaskSet ==
    ASSUME Types, NEW n \in Node, NEW t \in Tasks, Go(n, t)
    PROVE  /\ task' \in [Node -> Tasks] /\ task'[n] = t
           /\ \A m \in Node : m # n => task'[m] = task[m]
  BY DEF Types, Go

LEMMA CommitSet ==
    ASSUME Types, NEW n \in Node, NEW R, NEW A \in SUBSET Files, NEW D \in SUBSET Deletes,
           Commit(n, R, A, D)
    PROVE  /\ live' \subseteq Files /\ tombs' \subseteq Deletes /\ view' \in [Node -> Views]
           /\ view'[n].files = live' /\ view'[n].tombs = tombs'
           /\ \A m \in Node : m # n => view'[m] = view[m]
  <1>1. live' \subseteq Files /\ tombs' \subseteq Deletes
    BY DEF Types, Commit
  <1>2. [files |-> live', tombs |-> tombs'] \in Views
    BY <1>1 DEF Views
  <1>3. view' = [view EXCEPT ![n] = [files |-> live', tombs |-> tombs']] /\ view \in [Node -> Views]
    BY DEF Types, Commit
  <1>. QED  BY <1>1, <1>2, <1>3

LEMMA GcSet ==
    ASSUME Types, NEW n \in Node, NEW Y \in SUBSET Paths, DeferGc(n, Y)
    PROVE  /\ gc' \in [Node -> SUBSET [path : Paths, age : Nat]]
           /\ \A m \in Node : \A e \in gc'[m] : e \in gc[m] \/ (e.age = 0 /\ e.path \in Y)
  <1>1. [path : Y, age : {0}] \subseteq [path : Paths, age : Nat]
    BY SMTT(20)
  <1>. QED  BY <1>1 DEF Types, DeferGc

LEMMA KnownOf ==
    ASSUME NEW n \in Node
    PROVE  /\ \A f \in live : Known(f.path)
           /\ \A f \in view[n].files : Known(f.path)
           /\ \A f \in task[n].ins : Known(f.path)
           /\ \A g \in task[n].todo : \A f \in g : Known(f.path)
  BY DEF Known, PathsOf

\* A commit of the output of a pass in place of its inputs.
LEMMA ReplaceStep ==
    ASSUME IInv, NEW n \in Node, NEW t \in Tasks, Go(n, t),
           Commit(n, PathsOf(task[n].ins), task[n].out, {}),
           DeferGc(n, PathsOf(task[n].ins)),
           t.ins = {}, t.out = {}, t.todo \subseteq task[n].todo, t.dels \subseteq task[n].dels,
           UNCHANGED <<objects, seq, query, clocks>>
    PROVE  IInv'
  <1>. DEFINE I == task[n].ins  O == task[n].out  X == PathsOf(O)  Y == PathsOf(I)
  <1>0. Types /\ I \subseteq Files /\ O \subseteq Files
    BY DEF IInv, Types, Tasks
  <1>1. Y \subseteq Paths
    BY <1>0 DEF PathsOf, Files
  <1>2. /\ task' \in [Node -> Tasks] /\ task'[n] = t
        /\ \A m \in Node : m # n => task'[m] = task[m]
    BY <1>0, TaskSet
  <1>3. /\ live' \subseteq Files /\ tombs' \subseteq Deletes /\ view' \in [Node -> Views]
        /\ view'[n].files = live' /\ view'[n].tombs = tombs'
        /\ \A m \in Node : m # n => view'[m] = view[m]
    BY <1>0, CommitSet
  <1>4. /\ gc' \in [Node -> SUBSET [path : Paths, age : Nat]]
        /\ \A m \in Node : \A e \in gc'[m] : e \in gc[m] \/ (e.age = 0 /\ e.path \in Y)
    BY <1>0, <1>1, GcSet
  <1>5. Types'
    BY <1>0, <1>2, <1>3, <1>4 DEF Types, clocks
  <1>6. ActsAt(n)
    BY <1>2, <1>3 DEF ActsAt
  <1>7. tombs' = tombs /\ live' = {f \in live : f.path \notin Y} \cup O
    BY DEF Commit
  <1>8. \A o \in O : ~Known(o.path)
    BY DEF IInv, Outputs
  <1>9. \A f \in live' : f.path \notin Y /\ (f \in live \/ (f \in O /\ f.path \in X))
    BY <1>7, <1>8, KnownOf DEF PathsOf
  <1>10. \A f \in view'[n].files : Known(f.path) \/ f.path \in X
    BY <1>3, <1>9, KnownOf
  <1>11. \A g \in task'[n].todo : \A f \in g : Known(f.path)
    BY <1>2, KnownOf
  <1>12. \A p \in Y : Known(p)
    BY KnownOf DEF PathsOf
  <1>13. PassAt(n)'
    BY <1>2, <1>3, <1>7, SMTT(20) DEF IInv, Passes, PassAt
  <1>14. CoversAt(n)'
    BY <1>2 DEF CoversAt, HasKey
  <1>15. ASSUME NEW k \in Keys, HasKey(live, k)
         PROVE  HasKey(live, k)' \/ Hidden(k)'
    <2>1. PICK f \in live : f.path \in DOMAIN objects /\ \E r \in objects[f.path] : r.key = k
      BY <1>15 DEF HasKey
    <2>2. CASE f.path \notin Y
      BY <1>7, <2>1, <2>2 DEF HasKey
    <2>3. CASE f.path \in Y
      <3>1. HasKey(I, k)
        BY <2>1, <2>3 DEF HasKey, PathsOf
      <3>2. Hidden(k) \/ HasKey(O, k)
        BY <3>1 DEF IInv, Covers, CoversAt
      <3>3. HasKey(O, k) => HasKey(live, k)'
        BY <1>7 DEF HasKey
      <3>4. Hidden(k)' = Hidden(k)
        BY <1>7 DEF Hidden, Deleted
      <3>. QED  BY <3>2, <3>3, <3>4
    <2>. QED  BY <2>2, <2>3
  <1>16. query' = query /\ objects' = objects /\ seq' = seq /\ latest' = latest
         /\ cutoff' = cutoff
    BY DEF clocks
  <1>17. task'[n].out = {} /\ task'[n].ins = {}
    BY <1>2
  <1>. HIDE DEF X, Y, I, O
  <1>18. /\ X \subseteq PathsOf(task[n].out)
         /\ \A f \in live' : f.path \notin Y /\ (f \in live \/ (f \in task[n].out /\ f.path \in X))
    BY <1>9 DEF X, O
  <1>19. /\ \A f \in task'[n].ins : Known(f.path)
         /\ task'[n].out \subseteq task[n].out
         /\ \A o \in task'[n].out : o.path \notin X /\ o.path \notin Y
    BY <1>17
  <1>20. /\ \A p \in Y : Known(p) \/ p \in PathsOf(task[n].out)
         /\ \A k \in Keys : HasKey(live, k) => HasKey(live, k)' \/ Hidden(k)' \/ Expired(k)'
         /\ tombs \subseteq tombs'
    BY <1>7, <1>12, <1>15
  <1>. QED  BY <1>4, <1>5, <1>6, <1>10, <1>11, <1>13, <1>14, <1>16, <1>18, <1>19, <1>20,
               QuietStep

\* What compact_once goes on with.
LEMMA AgainTask ==
    ASSUME Types, NEW n \in Node, MergeAgain(n)
    PROVE  \E t \in Tasks : /\ Go(n, t) /\ t.ins = {} /\ t.out = {} /\ t.dels = {}
                            /\ t.todo \subseteq task[n].todo
                            /\ t.stage \in {"idle", "merge"}
  <1>. DEFINE t == IF task[n].todo = {} THEN Idle
                   ELSE [Idle EXCEPT !.stage = "merge", !.todo = task[n].todo]
  <1>1. Go(n, t)
    BY DEF MergeAgain
  <1>2. task[n].todo \subseteq SUBSET Files
    BY DEF Types, Tasks
  <1>3. /\ t \in Tasks /\ t.ins = {} /\ t.out = {} /\ t.dels = {}
        /\ t.todo \subseteq task[n].todo /\ t.stage \in {"idle", "merge"}
    BY <1>2 DEF Tasks, Stages, Idle
  <1>. QED  BY <1>1, <1>3

LEMMA CommitMergeStep ==
    ASSUME IInv, NEW n \in Node, CommitMerge(n)
    PROVE  IInv'
  <1>1. PICK t \in Tasks : /\ Go(n, t) /\ t.ins = {} /\ t.out = {} /\ t.dels = {}
                           /\ t.todo \subseteq task[n].todo
    BY AgainTask DEF CommitMerge, IInv
  <1>2. /\ Commit(n, PathsOf(task[n].ins), task[n].out, {})
        /\ DeferGc(n, PathsOf(task[n].ins))
        /\ UNCHANGED <<objects, seq, query, clocks>>
    BY DEF CommitMerge
  <1>. QED  BY <1>1, <1>2, ReplaceStep

LEMMA SwapStep ==
    ASSUME IInv, NEW n \in Node, Swap(n)
    PROVE  IInv'
  <1>. DEFINE t == IF task[n].todo = {} \/ task[n].done + 1 >= MaxRewrites THEN Idle
                   ELSE [task[n] EXCEPT !.stage = "rewrite", !.ins = {}, !.out = {},
                                        !.done = @ + 1]
  <1>1. task[n] \in Tasks
    BY DEF IInv, Types
  <1>2. /\ t \in Tasks /\ t.ins = {} /\ t.out = {} /\ t.dels \subseteq task[n].dels
        /\ t.todo \subseteq task[n].todo
    <2>1. CASE t = Idle
      BY <2>1 DEF Tasks, Stages, Idle
    <2>2. CASE t = [task[n] EXCEPT !.stage = "rewrite", !.ins = {}, !.out = {}, !.done = @ + 1]
      <3>. HIDE DEF t
      <3>1. task[n].done + 1 \in Nat
        BY <1>1, SMTT(20) DEF Tasks
      <3>. QED  BY <1>1, <2>2, <3>1 DEF Tasks, Stages
    <2>. QED  BY <2>1, <2>2
  <1>3. /\ Commit(n, PathsOf(task[n].ins), task[n].out, {})
        /\ DeferGc(n, PathsOf(task[n].ins)) /\ Go(n, t)
        /\ UNCHANGED <<objects, seq, query, clocks>>
    BY DEF Swap
  <1>. HIDE DEF t
  <1>. QED  BY <1>2, <1>3, ReplaceStep

LEMMA IdleTask == Idle \in Tasks /\ Idle.ins = {} /\ Idle.out = {} /\ Idle.todo = {}
                  /\ Idle.dels = {} /\ Idle.stage = "idle"
  BY DEF Idle, Tasks, Stages

\* A pass gives its output up, which Y may hold.
LEMMA GiveUpStep ==
    ASSUME IInv, NEW n \in Node, NEW t \in Tasks, Go(n, t), t.ins = {}, t.out = {}, t.dels = {},
           t.todo \subseteq task[n].todo,
           NEW Y \in SUBSET PathsOf(task[n].out), DeferGc(n, Y),
           view' = view \/ view' = [view EXCEPT ![n] = Current],
           UNCHANGED <<objects, log, seq, query, cutoff, latest, flushes>>
    PROVE  IInv'
  <1>. DEFINE X == {}
  <1>0. Types /\ task[n].out \subseteq Files
    BY DEF IInv, Types, Tasks
  <1>1. Y \subseteq Paths
    BY <1>0 DEF PathsOf, Files
  <1>2. /\ task' \in [Node -> Tasks] /\ task'[n] = t
        /\ \A m \in Node : m # n => task'[m] = task[m]
    BY <1>0, TaskSet
  <1>3. /\ view' \in [Node -> Views]
        /\ \A m \in Node : m # n => view'[m] = view[m]
        /\ view'[n] = view[n] \/ view'[n] = Current
    <2>1. Current \in Views
      BY <1>0 DEF Types, Current, Views
    <2>. QED  BY <1>0, <2>1 DEF Types
  <1>4. /\ gc' \in [Node -> SUBSET [path : Paths, age : Nat]]
        /\ \A m \in Node : \A e \in gc'[m] : e \in gc[m] \/ (e.age = 0 /\ e.path \in Y)
    BY <1>0, <1>1, GcSet
  <1>5. Types'
    BY <1>0, <1>2, <1>3, <1>4 DEF Types, log
  <1>6. ActsAt(n)
    BY <1>2, <1>3 DEF ActsAt
  <1>7. \A o \in task[n].out : ~Known(o.path)
    BY DEF IInv, Outputs
  <1>8. \A f \in live' : f.path \notin Y /\ f \in live
    BY <1>7, KnownOf, SMTT(20) DEF PathsOf, log
  <1>9. \A f \in view'[n].files : Known(f.path)
    BY <1>3, KnownOf, SMTT(20) DEF Current
  <1>10. \A g \in task'[n].todo : \A f \in g : Known(f.path)
    BY <1>2, KnownOf
  <1>11. PassAt(n)'
    BY <1>2, <1>3, SMTT(20) DEF IInv, Passes, PassAt, Current, log
  <1>12. CoversAt(n)'
    BY <1>2 DEF CoversAt, HasKey
  <1>13. \A k \in Keys : HasKey(live, k) => HasKey(live, k)'
    BY DEF HasKey, log
  <1>14. query' = query /\ objects' = objects /\ seq' = seq /\ latest' = latest
         /\ cutoff' = cutoff /\ tombs' = tombs
    BY DEF log
  <1>15. task'[n].out = {} /\ task'[n].ins = {} /\ X \subseteq PathsOf(task[n].out)
    BY <1>2
  <1>. HIDE DEF X
  <1>. QED  BY <1>4, <1>5, <1>6, <1>8, <1>9, <1>10, <1>11, <1>12, <1>13, <1>14, <1>15,
               QuietStep

LEMMA DeferNone ==
    ASSUME Types, NEW n \in Node, gc' = gc
    PROVE  DeferGc(n, {})
  <1>1. [path : {}, age : {0}] = {}
    OBVIOUS
  <1>2. gc = [gc EXCEPT ![n] = gc[n] \cup {}]
    BY DEF Types
  <1>. QED  BY <1>1, <1>2 DEF DeferGc

LEMMA StaleMergeStep ==
    ASSUME IInv, NEW n \in Node, StaleMerge(n)
    PROVE  IInv'
  <1>1. PICK t \in Tasks : /\ Go(n, t) /\ t.ins = {} /\ t.out = {} /\ t.dels = {}
                           /\ t.todo \subseteq task[n].todo
    BY AgainTask DEF StaleMerge, IInv
  <1>2. /\ view' = [view EXCEPT ![n] = Current] /\ DeferGc(n, PathsOf(task[n].out))
        /\ UNCHANGED <<objects, log, seq, query, cutoff, latest, flushes>>
    BY DEF StaleMerge, clocks
  <1>. QED  BY <1>1, <1>2, GiveUpStep

\* A stage that fails: compact_once or apply_tombstones_once returns.
LEMMA AbandonStep ==
    ASSUME IInv, NEW n \in Node, Go(n, Idle),
           UNCHANGED <<objects, log, view, seq, gc, query, cutoff, latest, flushes>>
    PROVE  IInv'
  <1>1. DeferGc(n, {})
    BY DeferNone DEF IInv
  <1>2. {} \in SUBSET PathsOf(task[n].out) /\ Idle.todo \subseteq task[n].todo
    BY IdleTask
  <1>3. /\ view' = view
        /\ UNCHANGED <<objects, log, seq, query, cutoff, latest, flushes>>
    OBVIOUS
  <1>. QED  BY <1>1, <1>2, <1>3, IdleTask, GiveUpStep

LEMMA FailCommitStep ==
    ASSUME IInv, NEW n \in Node, FailCommit(n)
    PROVE  IInv'
  <1>1. /\ Go(n, Idle)
        /\ UNCHANGED <<objects, log, view, seq, gc, query, cutoff, latest, flushes>>
    BY DEF FailCommit
  <1>. QED  BY <1>1, AbandonStep

LEMMA RetentionStep ==
    ASSUME IInv, NEW n \in Node, EnforceRetention(n)
    PROVE  IInv'
  <1>. DEFINE Old == {f \in view[n].files : f.path.part < cutoff}
              X == {}  Y == PathsOf(Old)
  <1>0. Types /\ view[n].files \subseteq Files
    BY DEF IInv, Types, Views
  <1>1. Y \subseteq Paths
    BY <1>0 DEF PathsOf, Files
  <1>2. /\ Commit(n, Y, {}, {}) /\ DeferGc(n, Y) /\ task' = task /\ task[n].stage = "idle"
        /\ query' = query /\ objects' = objects /\ seq' = seq /\ latest' = latest
        /\ cutoff' = cutoff /\ flushes' = flushes
    BY DEF EnforceRetention, clocks
  <1>3. /\ live' \subseteq Files /\ tombs' \subseteq Deletes /\ view' \in [Node -> Views]
        /\ view'[n].files = live' /\ view'[n].tombs = tombs'
        /\ \A m \in Node : m # n => view'[m] = view[m]
    BY <1>0, <1>2, CommitSet, SMTT(20)
  <1>4. /\ gc' \in [Node -> SUBSET [path : Paths, age : Nat]]
        /\ \A m \in Node : \A e \in gc'[m] : e \in gc[m] \/ (e.age = 0 /\ e.path \in Y)
    BY <1>0, <1>1, <1>2, GcSet
  <1>5. Types'
    BY <1>0, <1>2, <1>3, <1>4 DEF Types
  <1>6. ActsAt(n)
    BY <1>2, <1>3 DEF ActsAt
  <1>7. tombs' = tombs /\ live' = {f \in live : f.path \notin Y}
    BY <1>2 DEF Commit
  <1>8. \A f \in live' : f.path \notin Y /\ f \in live
    BY <1>7
  <1>9. \A f \in view'[n].files : Known(f.path)
    BY <1>3, <1>8, KnownOf
  <1>10. \A p \in Y : Known(p)
    BY KnownOf DEF PathsOf
  <1>11. task'[n].out = {} /\ task'[n] = task[n]
    BY <1>2 DEF IInv, Passes
  <1>12. PassAt(n)'
    BY <1>3, <1>7, <1>11, SMTT(20) DEF IInv, Passes, PassAt
  <1>13. CoversAt(n)'
    <2>1. Grow /\ Removes
      BY <1>0, <1>2, <1>7, SMTT(20) DEF Grow, Removes, Types
    <2>. QED  BY <1>11, <2>1, CoverKept DEF IInv, Covers
  <1>14. ASSUME NEW k \in Keys, HasKey(live, k)
         PROVE  HasKey(live, k)' \/ Expired(k)'
    <2>1. PICK f \in live : f.path \in DOMAIN objects /\ \E r \in objects[f.path] : r.key = k
      BY <1>14 DEF HasKey
    <2>2. CASE f.path \notin Y
      BY <1>2, <1>7, <2>1, <2>2 DEF HasKey
    <2>3. CASE f.path \in Y
      <3>1. f.path.part < cutoff
        BY <2>3 DEF PathsOf
      <3>2. HourPartition(KeyTs[k]) = f.path.part
        BY <2>1 DEF IInv, Contents
      <3>. QED  BY <1>2, <3>1, <3>2 DEF Expired
    <2>. QED  BY <2>2, <2>3
  <1>15. \A f \in task'[n].ins : Known(f.path)
    BY <1>11, KnownOf
  <1>16. \A g \in task'[n].todo : \A f \in g : Known(f.path)
    BY <1>11, KnownOf
  <1>17. X \subseteq PathsOf(task[n].out)
    OBVIOUS
  <1>. HIDE DEF X, Y
  <1>. QED  BY <1>2, <1>4, <1>5, <1>6, <1>7, <1>8, <1>9, <1>10, <1>11, <1>12, <1>13, <1>14,
               <1>15, <1>16, <1>17, QuietStep

LEMMA DeleteWhereStep ==
    ASSUME IInv, NEW n \in Node, NEW d \in Deletes, DeleteWhere(n, d)
    PROVE  IInv'
  <1>. DEFINE X == {}  Y == {}
  <1>0. Types
    BY DEF IInv
  <1>2. /\ Commit(n, {}, {}, {d}) /\ task' = task /\ gc' = gc
        /\ query' = query /\ objects' = objects /\ seq' = seq /\ latest' = latest
        /\ cutoff' = cutoff /\ flushes' = flushes
    BY DEF DeleteWhere
  <1>3. /\ live' \subseteq Files /\ tombs' \subseteq Deletes /\ view' \in [Node -> Views]
        /\ view'[n].files = live' /\ view'[n].tombs = tombs'
        /\ \A m \in Node : m # n => view'[m] = view[m]
    BY <1>0, <1>2, CommitSet, SMTT(20)
  <1>5. Types'
    BY <1>0, <1>2, <1>3 DEF Types
  <1>6. ActsAt(n)
    BY <1>2, <1>3 DEF ActsAt
  <1>7. tombs \subseteq tombs' /\ live' = live
    BY <1>2 DEF Commit
  <1>8. \A f \in live' : f.path \notin Y /\ f \in live
    BY <1>7
  <1>9. \A f \in view'[n].files : Known(f.path)
    BY <1>3, <1>8, KnownOf
  <1>10. task'[n] = task[n]
    BY <1>2
  <1>11. PassAt(n)'
    BY <1>3, <1>7, <1>10, SMTT(20) DEF IInv, Passes, PassAt
  <1>12. CoversAt(n)'
    <2>1. Grow /\ Removes
      BY <1>0, <1>2, <1>7, SMTT(20) DEF Grow, Removes, Types
    <2>. QED  BY <1>10, <2>1, CoverKept DEF IInv, Covers
  <1>13. \A k \in Keys : HasKey(live, k) => HasKey(live, k)'
    BY <1>2, <1>7 DEF HasKey
  <1>14. \A f \in task'[n].ins : Known(f.path)
    BY <1>10, KnownOf
  <1>15. \A g \in task'[n].todo : \A f \in g : Known(f.path)
    BY <1>10, KnownOf
  <1>16. /\ X \subseteq PathsOf(task[n].out)
         /\ \A o \in task'[n].out : o.path \notin X /\ o.path \notin Y
         /\ \A p \in Y : Known(p)
    OBVIOUS
  <1>17. \A m \in Node : \A e \in gc'[m] : e \in gc[m]
    BY <1>2
  <1>. HIDE DEF X, Y
  <1>. QED  BY <1>2, <1>5, <1>6, <1>7, <1>8, <1>9, <1>10, <1>11, <1>12, <1>13, <1>14,
               <1>15, <1>16, <1>17, QuietStep

\* Queries and time.
LEMMA ClockStep ==
    ASSUME IInv, Types', UNCHANGED <<objects, live, tombs, view, seq, task, latest>>,
           \A m \in Node : \A p : Pending(m, p)' => Pending(m, p),
           query'.files \subseteq query.files \cup live, cutoff <= cutoff',
           MaxWait + Timeout < Grace => Reading'
    PROVE  IInv'
  <1>1. Grow /\ Removes
    BY SMTT(20) DEF Grow, Removes, IInv, Types
  <1>2. \A p : Known(p)' = Known(p)
    BY DEF Known, PathsOf
  <1>3. Names'
    <2>1. \A m \in Node : \A e \in gc'[m] : Pending(m, e.path)
      <3>1. \A m \in Node : \A e \in gc'[m] : Pending(m, e.path)'
        BY DEF Pending
      <3>. QED  BY <3>1
    <2>. QED  BY <1>1, <1>2, <2>1, NamesKept DEF IInv
  <1>4. Contents'
    BY <1>1, ContentsKept DEF IInv
  <1>5. Passes'
    BY DEF IInv, Passes
  <1>6. Outputs'
    <2>. DEFINE X == {}
    <2>1. \A m \in Node : \A o \in task'[m].out : o.path \notin X
      OBVIOUS
    <2>. HIDE DEF X
    <2>. QED  BY <1>1, <1>2, <2>1, OutputsKept DEF IInv
  <1>7. Deferred' /\ LiveFilesIntact'
    BY DEF IInv, Deferred, LiveFilesIntact, MetaOf
  <1>8. Covers'
    BY <1>1, CoverKept DEF IInv, Covers
  <1>9. Kept'
    <2>1. \A k \in Keys : HasKey(live, k) => HasKey(live, k)'
      BY DEF HasKey
    <2>. QED  BY <1>1, <2>1, KeptStep DEF IInv
  <1>. QED  BY <1>3, <1>4, <1>5, <1>6, <1>7, <1>8, <1>9 DEF IInv

LEMMA QueryBeginStep ==
    ASSUME IInv, QueryBegin
    PROVE  IInv'
  <1>1. /\ UNCHANGED <<objects, live, tombs, view, seq, task, latest>> /\ gc' = gc
        /\ cutoff' = cutoff /\ flushes' = flushes
        /\ query' = [pc |-> "waiting", files |-> live, age |-> 0]
    BY DEF QueryBegin, log
  <1>2. Types'
    BY <1>1 DEF IInv, Types
  <1>3. Reading'
    <2>1. \A f \in live : f.path \in DOMAIN objects /\ \A n \in Node : ~Pending(n, f.path)
      BY DEF IInv, LiveFilesIntact, Deferred
    <2>2. 0 <= MaxWait
      BY MaintenanceAssumption, SMTT(20)
    <2>. QED  BY <1>1, <2>1, <2>2 DEF Reading, Waited, Pending
  <1>4. \A m \in Node : \A p : Pending(m, p)' => Pending(m, p)
    BY <1>1 DEF Pending
  <1>5. cutoff <= cutoff' /\ query'.files \subseteq query.files \cup live
    BY <1>1, SMTT(20) DEF IInv, Types
  <1>. QED  BY <1>1, <1>2, <1>3, <1>4, <1>5, ClockStep

LEMMA QueryAdmitStep ==
    ASSUME IInv, QueryAdmit
    PROVE  IInv'
  <1>1. /\ UNCHANGED <<objects, live, tombs, view, seq, task, latest>> /\ gc' = gc
        /\ cutoff' = cutoff /\ flushes' = flushes /\ query.pc = "waiting"
        /\ query' = [query EXCEPT !.pc = "running", !.age = 0]
    BY DEF QueryAdmit, log, clocks
  <1>2. /\ query'.pc = "running" /\ query'.files = query.files /\ query'.age = 0
        /\ query.files \subseteq Files /\ query.age \in Nat
        /\ query' \in [pc : {"idle", "waiting", "running"}, files : SUBSET Files, age : Nat]
    BY <1>1 DEF IInv, Types
  <1>3. Types'
    BY <1>1, <1>2 DEF IInv, Types
  <1>4. MaxWait + Timeout < Grace => Reading'
    <2>0. SUFFICES ASSUME Reading PROVE Reading'
      BY DEF IInv
    <2>1. /\ query.age <= MaxWait
          /\ \A f \in query.files :
                /\ f.path \in DOMAIN objects
                /\ \A n \in Node : \A e \in gc[n] : e.path = f.path => e.age <= query.age
      BY <1>1, <2>0 DEF Reading, Waited
    <2>2. \A n \in Node : \A e \in gc[n] : e.age \in Nat
      BY SMTT(20) DEF IInv, Types
    <2>3. MaxWait \in Nat /\ Timeout \in Nat
      BY MaintenanceAssumption
    <2>4. Waited' = MaxWait
      BY <1>2, <2>3, SMTT(20) DEF Waited
    <2>. QED  BY <1>1, <1>2, <2>1, <2>2, <2>3, <2>4, SMTT(20) DEF Reading
  <1>5. \A m \in Node : \A p : Pending(m, p)' => Pending(m, p)
    BY <1>1 DEF Pending
  <1>6. cutoff <= cutoff' /\ query'.files \subseteq query.files \cup live
    BY <1>1, <1>2, SMTT(20) DEF IInv, Types
  <1>. QED  BY <1>1, <1>3, <1>4, <1>5, <1>6, ClockStep

LEMMA QueryEndStep ==
    ASSUME IInv, QueryEnd
    PROVE  IInv'
  <1>1. /\ UNCHANGED <<objects, live, tombs, view, seq, task, latest>> /\ gc' = gc
        /\ cutoff' = cutoff /\ flushes' = flushes /\ query' = NoQuery
    BY DEF QueryEnd, log, clocks
  <1>2. Types' /\ Reading'
    BY <1>1 DEF IInv, Types, Reading, NoQuery
  <1>3. \A m \in Node : \A p : Pending(m, p)' => Pending(m, p)
    BY <1>1 DEF Pending
  <1>4. cutoff <= cutoff' /\ query'.files \subseteq query.files \cup live
    BY <1>1, SMTT(20) DEF IInv, Types, NoQuery
  <1>. QED  BY <1>1, <1>2, <1>3, <1>4, ClockStep

LEMMA HourPassesStep ==
    ASSUME IInv, HourPasses
    PROVE  IInv'
  <1>1. /\ UNCHANGED <<objects, live, tombs, view, seq, task, latest>> /\ gc' = gc
        /\ cutoff' = cutoff + 1 /\ flushes' = flushes /\ query' = query
    BY DEF HourPasses, log
  <1>2. Types' /\ cutoff <= cutoff'
    BY <1>1, SMTT(20) DEF IInv, Types
  <1>3. MaxWait + Timeout < Grace => Reading'
    BY <1>1 DEF IInv, Reading, Waited
  <1>4. \A m \in Node : \A p : Pending(m, p)' => Pending(m, p)
    BY <1>1 DEF Pending
  <1>. QED  BY <1>1, <1>2, <1>3, <1>4, ClockStep

LEMMA MinOfTwo ==
    ASSUME NEW a \in Nat, NEW b \in Nat
    PROVE  Min({a, b}) \in Nat /\ Min({a, b}) <= a
  <1>1. \E x \in {a, b} : \A y \in {a, b} : x <= y
    BY SMTT(20)
  <1>2. Min({a, b}) \in {a, b} /\ \A y \in {a, b} : Min({a, b}) <= y
    BY <1>1 DEF Min
  <1>. QED  BY <1>2

LEMMA TickStep ==
    ASSUME IInv, Tick
    PROVE  IInv'
  <1>. DEFINE Older(e) == [e EXCEPT !.age = Min({@ + 1, Grace})]
  <1>1. /\ UNCHANGED <<objects, live, tombs, view, seq, task, latest>>
        /\ cutoff' = cutoff /\ flushes' = flushes
        /\ query' = IF query.pc = "idle" THEN query ELSE [query EXCEPT !.age = @ + 1]
        /\ gc' = [n \in Node |-> {Older(e) : e \in gc[n]}]
    BY DEF Tick, log, clocks
  <1>2. ASSUME NEW n \in Node, NEW e \in gc[n]
        PROVE  /\ Older(e) \in [path : Paths, age : Nat] /\ Older(e).path = e.path
               /\ Older(e).age <= e.age + 1
    <2>1. e \in [path : Paths, age : Nat] /\ Grace \in Nat
      BY MaintenanceAssumption DEF IInv, Types
    <2>2. Min({e.age + 1, Grace}) \in Nat /\ Min({e.age + 1, Grace}) <= e.age + 1
      BY <2>1, MinOfTwo, SMTT(20)
    <2>3. /\ Older(e) = [path |-> e.path, age |-> Min({e.age + 1, Grace})]
      BY <2>1, SMTT(20)
    <2>. HIDE DEF Older
    <2>. QED  BY <2>1, <2>2, <2>3, SMTT(20)
  <1>. HIDE DEF Older
  <1>3. /\ query' \in [pc : {"idle", "waiting", "running"}, files : SUBSET Files, age : Nat]
        /\ query'.files = query.files /\ query'.pc = query.pc
        /\ query.pc # "idle" => query'.age = query.age + 1
        /\ query.age \in Nat
    BY <1>1, SMTT(20) DEF IInv, Types
  <1>4. Types'
    <2>1. gc' \in [Node -> SUBSET [path : Paths, age : Nat]]
      BY <1>1, <1>2
    <2>. QED  BY <1>1, <1>3, <2>1 DEF IInv, Types
  <1>5. \A m \in Node : \A p : Pending(m, p)' => Pending(m, p)
    BY <1>1, <1>2, SMTT(20) DEF Pending
  <1>6. MaxWait + Timeout < Grace => Reading'
    <2>0. SUFFICES ASSUME Reading, query.pc # "idle" PROVE Reading'
      BY <1>3 DEF IInv, Reading
    <2>1. MaxWait \in Nat /\ Timeout \in Nat
      BY MaintenanceAssumption
    <2>2. Waited \in Nat /\ Waited' = Waited + 1
      BY <1>3, <2>0, <2>1, SMTT(20) DEF Waited
    <2>3. query'.age <= IF query'.pc = "running" THEN Timeout ELSE MaxWait
      BY <1>3, <2>0, <2>1, SMTT(20) DEF Tick, IInv, Types
    <2>4. ASSUME NEW f \in query.files, NEW n \in Node, NEW e \in gc'[n], e.path = f.path
          PROVE  e.age <= Waited'
      <3>1. PICK d \in gc[n] : e = Older(d)
        BY <1>1, <2>4
      <3>2. d.path = f.path /\ e.age <= d.age + 1 /\ e.age \in Nat
        BY <1>2, <2>4, <3>1
      <3>3. d.age <= Waited /\ d.age \in Nat
        BY <2>0, <3>2, SMTT(20) DEF Reading, IInv, Types
      <3>. QED  BY <2>2, <3>2, <3>3, SMTT(20)
    <2>. QED  BY <1>1, <1>3, <2>0, <2>3, <2>4 DEF Reading
  <1>7. cutoff <= cutoff' /\ query'.files \subseteq query.files \cup live
    BY <1>1, <1>3, SMTT(20) DEF IInv, Types
  <1>. QED  BY <1>1, <1>4, <1>5, <1>6, <1>7, ClockStep
-----------------------------------------------------------------------------
(***************************************************************************)
(* Deletion.                                                               *)
(***************************************************************************)
LEMMA RunGcStep ==
    ASSUME IInv, NEW n \in Node, RunGc(n)
    PROVE  IInv'
  <1>. DEFINE Gone == {e.path : e \in Due(n)}
  <1>0. Types
    BY DEF IInv
  <1>1. /\ live' = live /\ tombs' = tombs /\ view' = view /\ seq' = seq /\ task' = task
        /\ query' = query /\ latest' = latest /\ cutoff' = cutoff /\ flushes' = flushes
    BY DEF RunGc, log, clocks
  <1>2. /\ DOMAIN objects' = DOMAIN objects \ Gone
        /\ \A p \in DOMAIN objects' : objects'[p] = objects[p]
    BY DEF RunGc, Restrict
  <1>3. /\ gc' \in [Node -> SUBSET [path : Paths, age : Nat]]
        /\ \A m \in Node : gc'[m] \subseteq gc[m]
    BY <1>0 DEF RunGc, Types
  <1>4. \A p \in Gone : \E e \in gc[n] : e.path = p /\ e.age >= Grace
    BY DEF Due
  <1>. HIDE DEF Gone
  <1>5. Types'
    BY <1>0, <1>1, <1>2, <1>3 DEF Types
  <1>6. Grow /\ Removes
    <2>1. \A m \in Node : seq[m] <= seq'[m]
      BY <1>0, <1>1, SMTT(20) DEF Types
    <2>. QED  BY <1>1, <1>2, <1>4, <2>1 DEF Grow, Removes, Pending
  <1>7. \A p : Known(p)' = Known(p)
    BY <1>1 DEF Known, PathsOf
  <1>8. \A m \in Node : \A p : Pending(m, p)' => Pending(m, p)
    BY <1>3 DEF Pending
  <1>9. Names'
    <2>1. \A m \in Node : \A e \in gc'[m] : Pending(m, e.path)
      BY <1>3 DEF Pending
    <2>. QED  BY <1>1, <1>5, <1>6, <1>7, <2>1, NamesKept DEF IInv
  <1>10. Contents'
    BY <1>2, <1>6, ContentsKept DEF IInv
  <1>11. Passes'
    BY <1>1 DEF IInv, Passes
  <1>12. Outputs'
    <2>. DEFINE X == {}
    <2>1. \A m \in Node : \A o \in task'[m].out : o.path \notin X
      OBVIOUS
    <2>. HIDE DEF X
    <2>. QED  BY <1>1, <1>6, <1>7, <1>8, <2>1, OutputsKept DEF IInv
  <1>13. Deferred'
    BY <1>1, <1>8 DEF IInv, Deferred
  <1>14. LiveFilesIntact'
    BY <1>1, <1>6, IntactKept DEF IInv
  <1>15. Covers'
    BY <1>1, <1>6, CoverKept DEF IInv, Covers
  <1>16. Kept'
    <2>1. \A f \in live : f.path \in DOMAIN objects'
      BY <1>1, <1>14 DEF LiveFilesIntact
    <2>2. ASSUME NEW k \in Keys, HasKey(live, k) PROVE HasKey(live, k)'
      BY <1>1, <1>2, <2>1, <2>2 DEF HasKey
    <2>3. cutoff <= cutoff'
      BY <1>0, <1>1, SMTT(20) DEF Types
    <2>. QED  BY <1>1, <1>5, <1>6, <2>2, <2>3, KeptStep DEF IInv
  <1>17. MaxWait + Timeout < Grace => Reading'
    <2>1. \A p \in DOMAIN objects \ DOMAIN objects' :
             \E m \in Node : \E e \in gc[m] : e.path = p /\ e.age >= Grace
      BY <1>2, <1>4
    <2>2. \A m \in Node : \A e \in gc'[m] : e \in gc[m]
      BY <1>3
    <2>. QED  BY <1>1, <1>5, <2>1, <2>2, ReadingKept DEF IInv
  <1>. QED  BY <1>5, <1>9, <1>10, <1>11, <1>12, <1>13, <1>14, <1>15, <1>16, <1>17 DEF IInv
=============================================================================
