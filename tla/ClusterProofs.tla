---------------------------- MODULE ClusterProofs ----------------------------
(***************************************************************************)
(* Proofs about Cluster: an acknowledged row is never lost, alone or with  *)
(* a peer, and no answer misses one.  They hold for any number of          *)
(* ingesters and tables, wherever no tick flushes while a recovery runs    *)
(* (~TickInRecovery) and, for the answers, where membership keeps a node   *)
(* that is down (~DropsDead).                                              *)
(***************************************************************************)
EXTENDS Cluster, SequenceTheorems, TLAPS

USE ZenonT(30)

Rows == [write : Nat, table : Table]
Flushes == [stage : {"idle", "commit", "reclaim"}, rows : SUBSET Rows, sealed : SUBSET Rows]
Recoveries == [stage : {"idle", "flush", "consume"}, frames : SUBSET Rows]

NodeTypes ==
    /\ up \subseteq Ingester /\ gone \subseteq Ingester
    /\ \A n \in gone : n \notin up
    /\ \A m, n \in gone : m = n
    /\ wal \in [Ingester -> SUBSET Rows] /\ replica \in [Ingester -> SUBSET Rows]
    /\ buffer \in [Ingester -> SUBSET Rows] /\ hold \in [Ingester -> SUBSET Rows]
    /\ flush \in [Ingester -> [Callers -> Flushes]]
    /\ recovery \in [Ingester -> Recoveries]
    /\ head \in [Ingester -> Nat]
    /\ \A n \in Ingester : head[n] <= Len(log)
    /\ log \in Seq(SUBSET Rows)

RouterTypes ==
    /\ plan \in Seq(SUBSET Table) /\ sent \in Nat
    /\ req = [stage |-> req.stage, write |-> req.write, body |-> req.body, to |-> req.to,
              todo |-> req.todo]
    /\ req.write \in Nat /\ req.body \subseteq Table
    /\ acked \subseteq Rows /\ paired \subseteq Rows

\* Bodies are numbered as they come: an acknowledged row is of an earlier
\* body than the one the router is at.
Numbered ==
    /\ \A r \in acked : r.write <= sent
    /\ req.stage # "idle" => req.write = sent /\ \A r \in acked : r.write < sent

\* The catalog as far as n has read it holds r.
Kept(n, r) == \E i \in Nat : 1 <= i /\ i <= head[n] /\ r \in log[i]

\* r came to n and can only be missing there with n's disk.
At(n, r) == n \in gone \/ r \in wal[n] \/ Kept(n, r)

Flushing(n, r) == \E c \in Callers : flush[n][c].stage = "commit" /\ r \in flush[n][c].rows

\* One flush at a time, and no recovery without its node.
OneFlush(n) ==
    /\ n \notin up => recovery[n].stage = "idle"
    /\ recovery[n].stage # "consume" => flush[n]["recover"].stage = "idle"
    /\ recovery[n].stage # "idle" => flush[n]["tick"].stage = "idle"

\* What a flush will delete of the log is in the catalog or in the flush,
\* the holding area holds what is being flushed, and every row of the log
\* of a node that runs can be read.
Memory(n) ==
    /\ \A c \in Callers :
          flush[n][c].stage # "idle" =>
             \A r \in flush[n][c].sealed : Kept(n, r) \/ Flushing(n, r)
    /\ \A r \in hold[n] : Kept(n, r) \/ Flushing(n, r)
    /\ \A r \in Rows : Flushing(n, r) => r \in hold[n]
    /\ n \in up => \A r \in wal[n] :
          Kept(n, r) \/ r \in buffer[n] \/ r \in hold[n] \/ (Gated(n) /\ r \in Lines)

\* The catalog holds r.
Written(r) == \E i \in Nat : 1 <= i /\ i <= Len(log) /\ r \in log[i]

\* The frames a recovery will delete are on their way to the catalog.
Recovering(n) ==
    \A r \in recovery[n].frames :
        /\ recovery[n].stage = "flush" => Written(r) \/ r \in buffer[n]
        /\ recovery[n].stage = "consume" => Written(r) \/ Flushing(n, r)

Nodes == \A n \in Ingester : OneFlush(n) /\ Memory(n) /\ Recovering(n)

\* The shard under way is in its ingester's log.
Gate == \A n \in Ingester : Gated(n) => n \in up /\ \A r \in Lines : At(n, r)

\* The rows of the shards that have been answered.
Done(r) ==
    /\ req.stage # "idle" /\ r.write = req.write /\ r.table \in req.body
    /\ ShardOf(r.table, Len(req.to)) \notin req.todo

Stored == \A r \in Rows : r \in acked \/ Done(r) => \E n \in Ingester : At(n, r)

\* A row the query must return is in what it has, or with an ingester it
\* will still ask, or in the catalog as far as it will read.
Covered ==
    /\ query = [stage |-> query.stage, table |-> query.table, want |-> query.want,
                todo |-> query.todo, half |-> query.half, head |-> query.head,
                rows |-> query.rows]
    /\ query.head \in Nat /\ query.head <= Len(log)
    /\ qhead \in Nat /\ qhead <= Len(log)
    /\ query.stage = "snapshot" =>
          /\ query.want \subseteq acked
          /\ \A r \in query.want :
                /\ r.table = query.table
                /\ \/ r \in query.rows
                   \/ \E n \in Ingester : n \in query.todo /\ At(n, r)
                   \/ \E n \in Ingester : n \in query.half /\ Kept(n, r)
                   \/ \E i \in Nat : 1 <= i /\ i <= query.head /\ r \in log[i]
    /\ AnswersComplete

Reads == ~DropsDead => Covered

\* A confirmed row has two copies, less those on the machine that is lost.
Twice ==
    \A r \in paired :
        \/ Written(r)
        \/ \E n \in Ingester : /\ n \in gone \/ r \in wal[n]
                               /\ Peer[n] \in gone \/ r \in replica[Peer[n]]

IInv ==
    /\ NodeTypes /\ RouterTypes /\ Numbered
    /\ Nodes /\ Gate /\ Stored /\ Reads /\ Twice
-----------------------------------------------------------------------------
(* What no step takes back *)

\* The catalog only grows, no node forgets how far it has read it, and a row
\* leaves a log only for the catalog or with the disk.
Grow ==
    /\ \A n \in gone : n \in gone'
    /\ Len(log) <= Len(log') /\ Len(log') \in Nat
    /\ \A i \in Nat : 1 <= i /\ i <= Len(log) => log'[i] = log[i]
    /\ \A n \in Ingester : head'[n] \in Nat /\ head[n] <= head'[n]
    /\ \A n \in Ingester : \A r \in wal[n] : r \in wal'[n] \/ n \in gone' \/ Kept(n, r)

LEMMA Stays ==
    ASSUME NodeTypes, Grow
    PROVE  /\ \A n \in Ingester : \A r : Kept(n, r) => Kept(n, r)'
           /\ \A n \in Ingester : \A r : At(n, r) => At(n, r)'
           /\ \A r : Written(r) => Written(r)'
  <1>1. Len(log) \in Nat /\ Len(log') \in Nat /\ Len(log) <= Len(log')
    BY SMTT(20) DEF NodeTypes, Grow
  <1>2. ASSUME NEW n \in Ingester, NEW r, Kept(n, r)
        PROVE  Kept(n, r)'
    <2>1. PICK i \in Nat : 1 <= i /\ i <= head[n] /\ r \in log[i]
      BY <1>2 DEF Kept
    <2>2. head[n] \in Nat /\ head[n] <= Len(log) /\ head'[n] \in Nat /\ head[n] <= head'[n]
      BY DEF NodeTypes, Grow
    <2>3. i <= Len(log) /\ i <= head'[n]
      BY <1>1, <2>1, <2>2, SMTT(20)
    <2>. QED  BY <2>1, <2>3 DEF Kept, Grow
  <1>3. ASSUME NEW r, Written(r)
        PROVE  Written(r)'
    <2>1. PICK i \in Nat : 1 <= i /\ i <= Len(log) /\ r \in log[i]
      BY <1>3 DEF Written
    <2>2. i <= Len(log')
      BY <1>1, <2>1, SMTT(20)
    <2>. QED  BY <2>1, <2>2 DEF Written, Grow
  <1>4. ASSUME NEW n \in Ingester, NEW r, At(n, r)
        PROVE  At(n, r)'
    BY <1>2, <1>4 DEF At, Grow
  <1>. QED  BY <1>2, <1>3, <1>4

\* What a node has read is in the catalog.
LEMMA KeptWritten ==
    ASSUME NodeTypes, NEW n \in Ingester, NEW r, Kept(n, r)
    PROVE  Written(r)
  <1>1. PICK i \in Nat : 1 <= i /\ i <= head[n] /\ r \in log[i]
    BY DEF Kept
  <1>2. head[n] \in Nat /\ head[n] <= Len(log) /\ Len(log) \in Nat
    BY SMTT(20) DEF NodeTypes
  <1>3. i <= Len(log)
    BY <1>1, <1>2, SMTT(20)
  <1>. QED  BY <1>1, <1>3 DEF Written

LEMMA WrittenIs ==
    ASSUME NodeTypes, NEW r
    PROVE  r \in Committed <=> Written(r)
  <1>1. log \in Seq(SUBSET Rows) /\ Len(log) \in Nat /\ DOMAIN log = 1 .. Len(log)
    BY SMTT(20) DEF NodeTypes
  <1>2. \A i \in Nat : i \in 1 .. Len(log) <=> 1 <= i /\ i <= Len(log)
    BY <1>1, SMTT(20)
  <1>3. \A i \in 1 .. Len(log) : i \in Nat
    BY <1>1, SMTT(20)
  <1>. QED  BY <1>1, <1>2, <1>3 DEF Committed, Range, Written

\* The shard under way.
LEMMA LinesAre ==
    ASSUME RouterTypes
    PROVE  \A r : r \in Lines <=>
              /\ r \in Rows /\ r.write = req.write /\ r.table \in req.body
              /\ ShardOf(r.table, Len(req.to)) = Shard
  BY SMTT(20) DEF RouterTypes, Lines, Rows

LEMMA SameLines ==
    ASSUME req'.write = req.write, req'.body = req.body, req'.to = req.to, req'.todo = req.todo
    PROVE  Lines' = Lines /\ Target' = Target /\ Shard' = Shard
  BY DEF Lines, Target, Shard

\* A node an action leaves alone.
LEMMA NodeKept ==
    ASSUME NodeTypes, Grow, NEW n \in Ingester,
           OneFlush(n), Memory(n), Recovering(n),
           flush'[n] = flush[n], hold'[n] = hold[n], wal'[n] = wal[n],
           buffer'[n] = buffer[n], recovery'[n] = recovery[n],
           n \in up' <=> n \in up,
           \A r : Gated(n) /\ r \in Lines => (Gated(n) /\ r \in Lines)'
    PROVE  OneFlush(n)' /\ Memory(n)' /\ Recovering(n)'
  <1>1. \A r : Kept(n, r) => Kept(n, r)'
    BY Stays
  <1>2. \A r : Written(r) => Written(r)'
    BY Stays
  <1>3. \A r : Flushing(n, r)' <=> Flushing(n, r)
    BY DEF Flushing
  <1>4. OneFlush(n)'
    BY DEF OneFlush
  <1>5. Memory(n)'
    BY <1>1, <1>3 DEF Memory
  <1>6. Recovering(n)'
    BY <1>2, <1>3 DEF Recovering
  <1>. QED  BY <1>4, <1>5, <1>6

\* The nodes when only the router or the querier moves.
LEMMA NodesKept ==
    ASSUME NodeTypes, Grow, Nodes, UNCHANGED <<flush, hold, wal, buffer, recovery, up>>,
           \A n \in Ingester : \A r : Gated(n) /\ r \in Lines => (Gated(n) /\ r \in Lines)'
    PROVE  Nodes'
  <1>. SUFFICES ASSUME NEW n \in Ingester
                PROVE  OneFlush(n)' /\ Memory(n)' /\ Recovering(n)'
    BY DEF Nodes
  <1>. QED  BY NodeKept DEF Nodes

LEMMA GateKept ==
    ASSUME NodeTypes, Grow, Gate,
           \A n \in Ingester : Gated(n)' => Gated(n) /\ n \in up' /\ Lines' = Lines
    PROVE  Gate'
  <1>. SUFFICES ASSUME NEW n \in Ingester, Gated(n)'
                PROVE  n \in up' /\ \A r \in Lines' : At(n, r)'
    BY DEF Gate
  <1>. QED  BY Stays DEF Gate

LEMMA StoredKept ==
    ASSUME NodeTypes, Grow, Stored,
           \A r \in Rows : (r \in acked \/ Done(r))' =>
              r \in acked \/ Done(r) \/ \E n \in Ingester : At(n, r)
    PROVE  Stored'
  <1>. SUFFICES ASSUME NEW r \in Rows, (r \in acked \/ Done(r))'
                PROVE  \E n \in Ingester : At(n, r)'
    BY DEF Stored
  <1>1. PICK n \in Ingester : At(n, r)
    BY DEF Stored
  <1>. QED  BY <1>1, Stays

LEMMA TwiceKept ==
    ASSUME NodeTypes, Grow, Twice, paired' = paired,
           Peer \in [Ingester -> Ingester],
           \A n \in Ingester : \A r \in replica[n] :
              r \in replica'[n] \/ n \in gone' \/ Written(r)'
    PROVE  Twice'
  <1>. SUFFICES ASSUME NEW r \in paired, ~Written(r)'
                PROVE  \E n \in Ingester : /\ n \in gone' \/ r \in wal'[n]
                                           /\ Peer[n] \in gone' \/ r \in replica'[Peer[n]]
    BY DEF Twice
  <1>1. ~Written(r)
    BY Stays
  <1>2. PICK n \in Ingester : /\ n \in gone \/ r \in wal[n]
                              /\ Peer[n] \in gone \/ r \in replica[Peer[n]]
    BY <1>1 DEF Twice
  <1>3. n \in gone' \/ r \in wal'[n]
    BY <1>1, <1>2, KeptWritten DEF Grow
  <1>4. Peer[n] \in gone' \/ r \in replica'[Peer[n]]
    BY <1>2 DEF Grow
  <1>. QED  BY <1>3, <1>4

LEMMA ReadsKept ==
    ASSUME NodeTypes, Grow, Reads, UNCHANGED <<query, qhead>>, acked \subseteq acked'
    PROVE  Reads'
  <1>. SUFFICES ASSUME ~DropsDead PROVE Covered'
    BY DEF Reads
  <1>. Covered
    BY DEF Reads
  <1>0. Len(log) \in Nat /\ Len(log') \in Nat /\ Len(log) <= Len(log')
    BY SMTT(20) DEF NodeTypes, Grow
  <1>1. query' = query /\ qhead' = qhead
    OBVIOUS
  <1>2. /\ query.head \in Nat /\ query.head <= Len(log)
        /\ qhead \in Nat /\ qhead <= Len(log)
    BY DEF Covered
  <1>3. query.head <= Len(log') /\ qhead <= Len(log')
    BY <1>0, <1>2, SMTT(20)
  <1>4. \A i \in Nat : 1 <= i /\ i <= query.head => log'[i] = log[i]
    BY <1>0, <1>2, SMTT(20) DEF Grow
  <1>5. AnswersComplete'
    BY <1>1 DEF Covered, AnswersComplete
  <1>6. ASSUME query.stage = "snapshot", NEW r \in query.want
        PROVE  /\ r.table = query.table
               /\ \/ r \in query.rows
                  \/ \E n \in Ingester : n \in query.todo /\ At(n, r)'
                  \/ \E n \in Ingester : n \in query.half /\ Kept(n, r)'
                  \/ \E i \in Nat : 1 <= i /\ i <= query.head /\ r \in log'[i]
    <2>1. /\ r.table = query.table
          /\ \/ r \in query.rows
             \/ \E n \in Ingester : n \in query.todo /\ At(n, r)
             \/ \E n \in Ingester : n \in query.half /\ Kept(n, r)
             \/ \E i \in Nat : 1 <= i /\ i <= query.head /\ r \in log[i]
      BY <1>6 DEF Covered
    <2>2. (\E n \in Ingester : n \in query.todo /\ At(n, r))
             => \E n \in Ingester : n \in query.todo /\ At(n, r)'
      BY Stays
    <2>3. (\E n \in Ingester : n \in query.half /\ Kept(n, r))
             => \E n \in Ingester : n \in query.half /\ Kept(n, r)'
      BY Stays
    <2>. QED  BY <1>4, <2>1, <2>2, <2>3
  <1>7. query.stage = "snapshot" => query.want \subseteq acked'
    BY DEF Covered
  <1>8. query = [stage |-> query.stage, table |-> query.table, want |-> query.want,
                 todo |-> query.todo, half |-> query.half, head |-> query.head,
                 rows |-> query.rows]
    BY DEF Covered
  <1>. QED  BY <1>1, <1>2, <1>3, <1>5, <1>6, <1>7, <1>8 DEF Covered
-----------------------------------------------------------------------------
(* The router *)

LEMMA GrowKept ==
    ASSUME NodeTypes, UNCHANGED <<gone, log, head>>,
           \A n \in Ingester : \A r \in wal[n] : r \in wal'[n] \/ Kept(n, r)
    PROVE  Grow
  <1>1. Len(log) \in Nat /\ \A n \in Ingester : head[n] \in Nat
    BY SMTT(20) DEF NodeTypes
  <1>2. log' = log /\ head' = head /\ gone' = gone
    OBVIOUS
  <1>. QED  BY <1>1, <1>2, SMTT(20) DEF Grow

LEMMA NodeTypesKept ==
    ASSUME NodeTypes, UNCHANGED <<up, gone, disks, memory, log>>
    PROVE  NodeTypes' /\ Grow
  <1>1. NodeTypes'
    BY DEF NodeTypes, disks, memory
  <1>. QED  BY <1>1, GrowKept DEF disks, memory

\* A step of the router before or after the gate.
LEMMA UngatedStep ==
    ASSUME IInv, UNCHANGED <<up, gone, disks, memory, log, acked, paired, query, qhead>>,
           RouterTypes', Numbered',
           \A n \in Ingester : ~Gated(n) /\ ~Gated(n)',
           \A r \in Rows : Done(r)' => Done(r)
    PROVE  IInv'
  <1>1. NodeTypes' /\ Grow
    BY NodeTypesKept DEF IInv
  <1>2. Nodes'
    BY <1>1, NodesKept DEF IInv, disks, memory
  <1>3. Gate'
    BY <1>1, GateKept DEF IInv
  <1>4. Stored'
    <2>1. \A r \in Rows : r \in acked' => r \in acked
      OBVIOUS
    <2>. QED  BY <1>1, <2>1, StoredKept DEF IInv
  <1>5. Twice'
    BY <1>1, TwiceKept, ClusterAssumption DEF IInv, disks
  <1>6. Reads'
    BY <1>1, ReadsKept DEF IInv
  <1>. QED  BY <1>1, <1>2, <1>3, <1>4, <1>5, <1>6 DEF IInv

LEMMA AcceptStep ==
    ASSUME IInv, NEW poison \in BOOLEAN, Accept(poison)
    PROVE  IInv'
  <1>0. /\ req.stage = "idle" /\ sent < Len(plan) /\ sent' = sent + 1
        /\ UNCHANGED <<up, gone, disks, memory, log, targets, plan, acked, paired, querier>>
    BY DEF Accept
  <1>1. /\ plan \in Seq(SUBSET Table) /\ sent \in Nat /\ acked \subseteq Rows
        /\ \A r \in acked : r.write \in Nat /\ r.write <= sent
    BY DEF IInv, RouterTypes, Numbered, Rows
  <1>2. sent' \in Nat /\ sent' \in 1 .. Len(plan) /\ \A r \in acked : r.write < sent'
    BY <1>0, <1>1, SMTT(20)
  <1>3. CASE UNCHANGED req
    <2>1. RouterTypes'
      BY <1>0, <1>2, <1>3 DEF IInv, RouterTypes
    <2>2. \A r \in acked' : r.write <= sent'
      BY <1>0, <1>1, <1>2, SMTT(20)
    <2>3. Numbered'
      BY <1>0, <1>3, <2>2 DEF Numbered
    <2>4. \A n \in Ingester : ~Gated(n) /\ ~Gated(n)'
      BY <1>0, <1>3 DEF Gated
    <2>5. \A r \in Rows : Done(r)' => Done(r)
      BY <1>0, <1>3 DEF Done
    <2>. QED  BY <1>0, <2>1, <2>3, <2>4, <2>5, UngatedStep DEF querier
  <1>4. CASE req' = [stage |-> "forward", write |-> sent', body |-> plan[sent'], to |-> targets,
                     todo |-> {ShardOf(t, Len(targets)) : t \in plan[sent']}]
    <2>0. /\ req'.stage = "forward" /\ req'.write = sent' /\ req'.body = plan[sent']
          /\ req'.to = targets /\ req'.todo = {ShardOf(t, Len(targets)) : t \in plan[sent']}
      BY <1>4
    <2>1. RouterTypes'
      <3>1. plan[sent'] \subseteq Table
        BY <1>1, <1>2, SMTT(20)
      <3>2. req' = [stage |-> req'.stage, write |-> req'.write, body |-> req'.body,
                    to |-> req'.to, todo |-> req'.todo]
        BY <1>4, <2>0
      <3>. QED  BY <1>0, <1>1, <1>2, <2>0, <3>1, <3>2 DEF RouterTypes, IInv
    <2>2. \A r \in acked' : r.write <= sent' /\ r.write < sent'
      BY <1>0, <1>1, <1>2, SMTT(20)
    <2>3. Numbered'
      BY <2>0, <2>2 DEF Numbered
    <2>4. \A n \in Ingester : ~Gated(n) /\ ~Gated(n)'
      BY <1>0, <2>0 DEF Gated
    <2>5. \A r \in Rows : Done(r)' => Done(r)
      <3>. SUFFICES ASSUME NEW r \in Rows, r.table \in req'.body
                    PROVE  ShardOf(r.table, Len(req'.to)) \in req'.todo
        BY DEF Done
      <3>. QED  BY <2>0 DEF ShardOf
    <2>. QED  BY <1>0, <2>1, <2>3, <2>4, <2>5, UngatedStep DEF querier
  <1>. QED  BY <1>3, <1>4 DEF Accept

\* A body refused or given up, and a change of membership.
LEMMA AbandonStep ==
    ASSUME IInv, NEW n \in Ingester, Reject400(n) \/ Unreachable(n)
    PROVE  IInv'
  <1>0. /\ req.stage = "forward" /\ req' = NoReq
        /\ UNCHANGED <<up, gone, disks, memory, log, plan, sent, acked, paired, querier>>
    BY DEF Reject400, Unreachable
  <1>1. RouterTypes'
    BY <1>0 DEF IInv, RouterTypes, NoReq
  <1>2. Numbered'
    BY <1>0 DEF IInv, Numbered, NoReq
  <1>3. \A m \in Ingester : ~Gated(m) /\ ~Gated(m)'
    BY <1>0 DEF Gated, NoReq
  <1>4. \A r \in Rows : Done(r)' => Done(r)
    BY <1>0 DEF Done, NoReq
  <1>. QED  BY <1>0, <1>1, <1>2, <1>3, <1>4, UngatedStep DEF querier

\* The next stage of a shard.
LEMMA NextStage ==
    ASSUME IInv, NEW s, s # "idle", req.stage # "idle", req' = [req EXCEPT !.stage = s],
           UNCHANGED <<plan, sent, acked>>, paired' \subseteq Rows
    PROVE  /\ RouterTypes' /\ Numbered' /\ req'.stage = s
           /\ Lines' = Lines /\ Target' = Target
           /\ \A r \in Rows : (r \in acked \/ Done(r))' => r \in acked \/ Done(r)
  <1>1. req = [stage |-> req.stage, write |-> req.write, body |-> req.body, to |-> req.to,
               todo |-> req.todo]
    BY DEF IInv, RouterTypes
  <1>2. req' = [stage |-> s, write |-> req.write, body |-> req.body, to |-> req.to,
                todo |-> req.todo]
    BY <1>1
  <1>3. /\ req'.stage = s /\ req'.write = req.write /\ req'.body = req.body
        /\ req'.to = req.to /\ req'.todo = req.todo
    BY <1>2
  <1>. QED  BY <1>2, <1>3, SameLines DEF IInv, RouterTypes, Numbered, Done

LEMMA AppendStep ==
    ASSUME IInv, NEW n \in Ingester, Append204(n)
    PROVE  IInv'
  <1>0. /\ req.stage = "forward" /\ n = Target /\ n \in up
        /\ wal' = [wal EXCEPT ![n] = @ \cup Lines] /\ req' = [req EXCEPT !.stage = "replicate"]
        /\ UNCHANGED <<up, gone, replica, buffer, hold, flush, recovery, head, log>>
        /\ UNCHANGED <<plan, sent, acked, paired, query, qhead>>
    BY DEF Append204, memory, querier
  <1>1. /\ RouterTypes' /\ Numbered' /\ req'.stage = "replicate"
        /\ Lines' = Lines /\ Target' = Target
        /\ \A r \in Rows : (r \in acked \/ Done(r))' => r \in acked \/ Done(r)
    BY <1>0, NextStage DEF IInv, RouterTypes
  <1>2. \A r \in Lines : r \in Rows
    BY LinesAre DEF IInv
  <1>3. /\ wal' \in [Ingester -> SUBSET Rows] /\ wal'[n] = wal[n] \cup Lines
        /\ \A m \in Ingester : m # n => wal'[m] = wal[m]
    BY <1>0, <1>2 DEF IInv, NodeTypes
  <1>4. NodeTypes'
    BY <1>0, <1>3 DEF IInv, NodeTypes
  <1>5. Grow
    BY <1>0, <1>3, GrowKept DEF IInv
  <1>6. \A m \in Ingester : ~Gated(m) /\ (Gated(m)' <=> m = n)
    BY <1>0, <1>1 DEF Gated
  <1>7. Nodes'
    <2>. SUFFICES ASSUME NEW m \in Ingester
                  PROVE  OneFlush(m)' /\ Memory(m)' /\ Recovering(m)'
      BY DEF Nodes
    <2>1. OneFlush(m) /\ Memory(m) /\ Recovering(m)
      BY DEF IInv, Nodes
    <2>2. CASE m # n
      BY <1>0, <1>3, <1>5, <1>6, <2>1, <2>2, NodeKept DEF IInv
    <2>3. CASE m = n
      <3>1. \A r : (Kept(m, r)' <=> Kept(m, r)) /\ (Flushing(m, r)' <=> Flushing(m, r))
                      /\ (Written(r)' <=> Written(r))
        BY <1>0 DEF Kept, Flushing, Written
      <3>2. OneFlush(m)'
        BY <1>0, <2>1 DEF OneFlush
      <3>3. Recovering(m)'
        BY <1>0, <2>1, <3>1 DEF Recovering
      <3>4. Memory(m)'
        BY <1>0, <1>1, <1>3, <1>6, <2>1, <2>3, <3>1 DEF Memory
      <3>. QED  BY <3>2, <3>3, <3>4
    <2>. QED  BY <2>2, <2>3
  <1>8. Gate'
    BY <1>0, <1>1, <1>3, <1>6 DEF Gate, At
  <1>9. Stored'
    BY <1>1, <1>5, StoredKept DEF IInv
  <1>10. Twice'
    BY <1>0, <1>5, TwiceKept, ClusterAssumption DEF IInv
  <1>11. Reads'
    BY <1>0, <1>5, ReadsKept DEF IInv
  <1>. QED  BY <1>1, <1>4, <1>7, <1>8, <1>9, <1>10, <1>11 DEF IInv

\* The peer's answer, or none.
LEMMA ReplicateStep ==
    ASSUME IInv, NEW n \in Ingester, Replicate(n) \/ \E late \in BOOLEAN : Degrade(n, late)
    PROVE  IInv'
  <1>0. /\ req.stage = "replicate" /\ n = Target /\ req' = [req EXCEPT !.stage = "apply"]
        /\ UNCHANGED <<up, gone, wal, buffer, hold, flush, recovery, head, log>>
        /\ UNCHANGED <<plan, sent, acked, query, qhead>>
    BY DEF Replicate, Degrade, querier
  <1>1. \A r \in Lines : r \in Rows
    BY LinesAre DEF IInv
  <1>2. /\ Peer[n] \in Ingester
        /\ \/ replica' = [replica EXCEPT ![Peer[n]] = @ \cup Lines] /\ paired' = paired \cup Lines
           \/ replica' = [replica EXCEPT ![Peer[n]] = @ \cup Lines] /\ paired' = paired
           \/ replica' = replica /\ paired' = paired
    BY ClusterAssumption DEF Replicate, Degrade
  <1>3. /\ replica' \in [Ingester -> SUBSET Rows] /\ paired' \subseteq Rows
        /\ \A m \in Ingester : \A r \in replica[m] : r \in replica'[m]
    BY <1>1, <1>2 DEF IInv, NodeTypes, RouterTypes
  <1>4. /\ RouterTypes' /\ Numbered' /\ req'.stage = "apply"
        /\ Lines' = Lines /\ Target' = Target
        /\ \A r \in Rows : (r \in acked \/ Done(r))' => r \in acked \/ Done(r)
    BY <1>0, <1>3, NextStage
  <1>5. NodeTypes'
    BY <1>0, <1>3 DEF IInv, NodeTypes
  <1>6. Grow
    BY <1>0, GrowKept DEF IInv
  <1>7. \A m \in Ingester : Gated(m)' <=> Gated(m)
    BY <1>0, <1>4 DEF Gated
  <1>8. Nodes'
    BY <1>0, <1>4, <1>6, <1>7, NodesKept DEF IInv
  <1>9. Gate'
    BY <1>0, <1>4, <1>6, <1>7, GateKept DEF IInv, Gate
  <1>10. Stored'
    BY <1>4, <1>6, StoredKept DEF IInv
  <1>11. Twice'
    <2>1. CASE paired' = paired
      BY <1>3, <1>6, <2>1, TwiceKept, ClusterAssumption DEF IInv
    <2>2. CASE /\ replica' = [replica EXCEPT ![Peer[n]] = @ \cup Lines]
               /\ paired' = paired \cup Lines
      <3>. SUFFICES ASSUME NEW r \in paired', ~Written(r)'
                    PROVE  \E m \in Ingester : /\ m \in gone' \/ r \in wal'[m]
                                               /\ Peer[m] \in gone' \/ r \in replica'[Peer[m]]
        BY DEF Twice
      <3>0. ~Written(r)
        BY <1>6, Stays DEF IInv
      <3>1. CASE r \in paired
        <4>1. PICK m \in Ingester : /\ m \in gone \/ r \in wal[m]
                                    /\ Peer[m] \in gone \/ r \in replica[Peer[m]]
          BY <3>0, <3>1 DEF IInv, Twice
        <4>2. Peer[m] \in Ingester
          BY ClusterAssumption
        <4>. QED  BY <1>0, <1>3, <4>1, <4>2
      <3>2. CASE r \in Lines
        <4>1. At(n, r)
          BY <1>0, <3>2 DEF IInv, Gate, Gated
        <4>2. n \in gone' \/ r \in wal'[n]
          BY <1>0, <3>0, <4>1, KeptWritten DEF At, IInv
        <4>3. r \in replica'[Peer[n]]
          BY <1>2, <2>2, <3>2 DEF IInv, NodeTypes
        <4>. QED  BY <4>2, <4>3
      <3>. QED  BY <2>2, <3>1, <3>2
    <2>. QED  BY <1>2, <2>1, <2>2
  <1>12. Reads'
    BY <1>0, <1>6, ReadsKept DEF IInv
  <1>. QED  BY <1>4, <1>5, <1>8, <1>9, <1>10, <1>11, <1>12 DEF IInv

LEMMA ApplyStep ==
    ASSUME IInv, NEW n \in Ingester, Apply(n)
    PROVE  IInv'
  <1>0. /\ req.stage = "apply" /\ n = Target
        /\ buffer' = [buffer EXCEPT ![n] = @ \cup Lines]
        /\ UNCHANGED <<up, gone, wal, replica, hold, flush, recovery, head, log>>
        /\ UNCHANGED <<plan, sent, paired, query, qhead>>
        /\ Gated(n) /\ \A m \in Ingester : Gated(m) => m = n
    BY DEF Apply, disks, querier, Gated
  <1>1. \A r : r \in Lines <=>
           /\ r \in Rows /\ r.write = req.write /\ r.table \in req.body
           /\ ShardOf(r.table, Len(req.to)) = Shard
    BY LinesAre DEF IInv
  <1>2. /\ buffer' \in [Ingester -> SUBSET Rows] /\ buffer'[n] = buffer[n] \cup Lines
        /\ \A m \in Ingester : m # n => buffer'[m] = buffer[m]
    BY <1>0, <1>1 DEF IInv, NodeTypes
  <1>3. NodeTypes'
    BY <1>0, <1>2 DEF IInv, NodeTypes
  <1>4. Grow
    BY <1>0, GrowKept DEF IInv
  <1>5. req = [stage |-> req.stage, write |-> req.write, body |-> req.body, to |-> req.to,
               todo |-> req.todo]
    BY DEF IInv, RouterTypes
  <1>6. \/ /\ req.todo = {Shard} /\ req' = NoReq
           /\ acked' = acked \cup [write : {req.write}, table : req.body]
        \/ /\ req' = [stage |-> "forward", write |-> req.write, body |-> req.body,
                      to |-> req.to, todo |-> req.todo \ {Shard}]
           /\ acked' = acked
    BY <1>5 DEF Apply
  <1>7. \A m \in Ingester : ~Gated(m)'
    BY <1>6, SMTT(20) DEF Gated, NoReq
  <1>8. /\ req.write \in Nat /\ req.body \subseteq Table /\ req.write = sent
        /\ \A r \in acked : r.write \in Nat /\ r.write < sent
    BY <1>0 DEF IInv, RouterTypes, Rows, Numbered
  <1>9. \A r : r \in [write : {req.write}, table : req.body] <=>
           r \in Rows /\ r.write = req.write /\ r.table \in req.body
    BY <1>8 DEF Rows
  <1>10. RouterTypes'
    BY <1>0, <1>6, <1>8, <1>9, SMTT(20) DEF IInv, RouterTypes, NoReq
  <1>11. Numbered'
    BY <1>0, <1>6, <1>8, <1>9, SMTT(20) DEF Numbered, NoReq
  <1>12. Nodes'
    <2>. SUFFICES ASSUME NEW m \in Ingester
                  PROVE  OneFlush(m)' /\ Memory(m)' /\ Recovering(m)'
      BY DEF Nodes
    <2>1. OneFlush(m) /\ Memory(m) /\ Recovering(m)
      BY DEF IInv, Nodes
    <2>2. CASE m # n
      BY <1>0, <1>2, <1>4, <2>1, <2>2, NodeKept DEF IInv
    <2>3. CASE m = n
      <3>1. \A r : (Kept(m, r)' <=> Kept(m, r)) /\ (Flushing(m, r)' <=> Flushing(m, r))
                      /\ (Written(r)' <=> Written(r))
        BY <1>0 DEF Kept, Flushing, Written
      <3>2. OneFlush(m)'
        BY <1>0, <2>1 DEF OneFlush
      <3>3. Recovering(m)'
        BY <1>0, <1>2, <2>1, <2>3, <3>1 DEF Recovering
      <3>4. Memory(m)'
        BY <1>0, <1>2, <1>7, <2>1, <2>3, <3>1 DEF Memory
      <3>. QED  BY <3>2, <3>3, <3>4
    <2>. QED  BY <2>2, <2>3
  <1>13. Gate'
    BY <1>7 DEF Gate
  <1>14. Stored'
    <2>1. ASSUME NEW r \in Rows, (r \in acked \/ Done(r))'
          PROVE  r \in acked \/ Done(r) \/ \E m \in Ingester : At(m, r)
      <3>1. r \in Lines => At(n, r)
        BY <1>0 DEF IInv, Gate
      <3>2. CASE r \in Lines
        BY <3>1, <3>2
      <3>3. CASE r \in acked
        BY <3>3
      <3>4. CASE /\ r \notin Lines /\ r \notin acked
                 /\ req.todo = {Shard} /\ req' = NoReq
                 /\ acked' = acked \cup [write : {req.write}, table : req.body]
        BY <1>0, <1>1, <1>9, <2>1, <3>4 DEF Done, NoReq
      <3>5. CASE /\ r \notin Lines /\ r \notin acked /\ acked' = acked
                 /\ req' = [stage |-> "forward", write |-> req.write, body |-> req.body,
                            to |-> req.to, todo |-> req.todo \ {Shard}]
        BY <1>0, <1>1, <2>1, <3>5 DEF Done
      <3>. QED  BY <1>6, <3>2, <3>3, <3>4, <3>5
    <2>. QED  BY <1>4, <2>1, StoredKept DEF IInv
  <1>15. Twice'
    BY <1>0, <1>4, TwiceKept, ClusterAssumption DEF IInv
  <1>16. Reads'
    BY <1>0, <1>4, <1>6, ReadsKept DEF IInv
  <1>. QED  BY <1>3, <1>10, <1>11, <1>12, <1>13, <1>14, <1>15, <1>16 DEF IInv
-----------------------------------------------------------------------------
(* An ingester *)

\* A step of one ingester touches no other.
LEMMA NodeStep ==
    ASSUME IInv, NEW n \in Ingester, NodeTypes', Grow,
           UNCHANGED <<plan, sent, req, acked, paired, query, qhead>>,
           \A m \in up : m \in up',
           \A m \in Ingester : m # n =>
              /\ flush'[m] = flush[m] /\ hold'[m] = hold[m] /\ wal'[m] = wal[m]
              /\ buffer'[m] = buffer[m] /\ recovery'[m] = recovery[m]
              /\ m \in up' <=> m \in up,
           \A m \in Ingester : \A r \in replica[m] : r \in replica'[m] \/ Written(r)',
           OneFlush(n)', Memory(n)', Recovering(n)'
    PROVE  IInv'
  <1>1. Lines' = Lines /\ \A m \in Ingester : Gated(m)' <=> Gated(m)
    BY DEF Lines, Gated, Target, Shard
  <1>2. Nodes'
    <2>. SUFFICES ASSUME NEW m \in Ingester, m # n
                  PROVE  OneFlush(m)' /\ Memory(m)' /\ Recovering(m)'
      BY DEF Nodes
    <2>1. OneFlush(m) /\ Memory(m) /\ Recovering(m)
      BY DEF IInv, Nodes
    <2>. QED  BY <1>1, <2>1, NodeKept DEF IInv
  <1>3. Gate'
    <2>1. \A m \in Ingester : Gated(m) => m \in up'
      BY DEF IInv, Gate
    <2>. QED  BY <1>1, <2>1, GateKept DEF IInv
  <1>4. Stored'
    <2>1. \A r \in Rows : (r \in acked \/ Done(r))' => r \in acked \/ Done(r)
      BY DEF Done
    <2>. QED  BY <2>1, StoredKept DEF IInv
  <1>5. Twice'
    BY TwiceKept, ClusterAssumption DEF IInv
  <1>6. Reads'
    BY ReadsKept DEF IInv
  <1>7. RouterTypes' /\ Numbered'
    BY DEF IInv, RouterTypes, Numbered
  <1>. QED  BY <1>2, <1>3, <1>4, <1>5, <1>6, <1>7 DEF IInv

\* The handover of flush_all, with no other flush under way.
LEMMA HandOverStep ==
    ASSUME IInv, NEW n \in Ingester, n \in up, NEW c \in Callers, HandOver(n, c),
           \A d \in Callers : flush[n][d].stage = "idle",
           UNCHANGED <<up, gone, wal, replica, head, log>>,
           recovery' \in [Ingester -> Recoveries]
    PROVE  /\ NodeTypes' /\ Grow /\ Memory(n)'
           /\ flush'[n][c].stage = "commit"
           /\ \A d \in Callers : d # c => flush'[n][d] = flush[n][d]
           /\ \A m \in Ingester : m # n =>
                 flush'[m] = flush[m] /\ hold'[m] = hold[m] /\ buffer'[m] = buffer[m]
           /\ \A r \in buffer[n] : Flushing(n, r)'
  <1>. DEFINE f == [stage |-> "commit", rows |-> buffer[n], sealed |-> wal[n]]
  <1>0. /\ ~Gated(n)
        /\ hold' = [hold EXCEPT ![n] = {r \in @ : r.table \notin TablesOf(buffer[n])}
                                          \cup buffer[n]]
        /\ buffer' = [buffer EXCEPT ![n] = {}]
        /\ flush' = [flush EXCEPT ![n][c] = f]
    BY DEF HandOver
  <1>1. /\ buffer[n] \in SUBSET Rows /\ wal[n] \in SUBSET Rows /\ hold[n] \in SUBSET Rows
        /\ flush \in [Ingester -> [Callers -> Flushes]]
        /\ hold \in [Ingester -> SUBSET Rows] /\ buffer \in [Ingester -> SUBSET Rows]
    BY DEF IInv, NodeTypes
  <1>2. f \in Flushes
    BY <1>1 DEF Flushes
  <1>3. /\ flush' \in [Ingester -> [Callers -> Flushes]] /\ flush'[n][c] = f
        /\ \A d \in Callers : d # c => flush'[n][d] = flush[n][d]
        /\ \A m \in Ingester : m # n => flush'[m] = flush[m]
    BY <1>0, <1>1, <1>2
  <1>4. /\ hold' \in [Ingester -> SUBSET Rows] /\ \A r \in buffer[n] : r \in hold'[n]
        /\ \A r \in hold'[n] : r \in buffer[n] \/ r \in hold[n]
        /\ \A m \in Ingester : m # n => hold'[m] = hold[m]
    BY <1>0, <1>1
  <1>5. /\ buffer' \in [Ingester -> SUBSET Rows]
        /\ \A m \in Ingester : m # n => buffer'[m] = buffer[m]
    BY <1>0, <1>1
  <1>6. NodeTypes'
    BY <1>3, <1>4, <1>5 DEF IInv, NodeTypes
  <1>7. Grow
    BY GrowKept DEF IInv
  <1>8. f.stage = "commit" /\ f.rows = buffer[n] /\ f.sealed = wal[n]
    OBVIOUS
  <1>. HIDE DEF f
  <1>9. \A r : ~Flushing(n, r) /\ (Flushing(n, r)' <=> r \in buffer[n])
    BY <1>3, <1>8 DEF Flushing
  <1>10. \A r : Kept(n, r)' <=> Kept(n, r)
    BY DEF Kept
  <1>11. Memory(n)
    BY DEF IInv, Nodes
  <1>12. Memory(n)'
    <2>1. ASSUME NEW r \in wal[n], n \in up
          PROVE  Kept(n, r) \/ r \in buffer[n]
      BY <1>0, <1>9, <1>11, <2>1 DEF Memory
    <2>2. \A r \in hold'[n] : Kept(n, r)' \/ Flushing(n, r)'
      BY <1>4, <1>9, <1>10, <1>11 DEF Memory
    <2>3. \A r \in Rows : Flushing(n, r)' => r \in hold'[n]
      BY <1>4, <1>9
    <2>4. n \in up' => \A r \in wal'[n] : Kept(n, r)' \/ r \in hold'[n]
      BY <1>4, <1>10, <2>1
    <2>5. ASSUME n \in up, NEW d \in Callers, flush'[n][d].stage # "idle"
          PROVE  \A r \in flush'[n][d].sealed : Kept(n, r)' \/ Flushing(n, r)'
      BY <1>3, <1>8, <1>9, <1>10, <2>1, <2>5
    <2>. QED  BY <2>2, <2>3, <2>4, <2>5 DEF Memory
  <1>. QED  BY <1>3, <1>4, <1>5, <1>6, <1>7, <1>8, <1>9, <1>12

LEMMA FlushTickStep ==
    ASSUME IInv, ~TickInRecovery, NEW n \in Ingester, FlushTick(n)
    PROVE  IInv'
  <1>0. /\ n \in up /\ flush[n]["tick"].stage = "idle" /\ recovery[n].stage = "idle"
        /\ HandOver(n, "tick")
        /\ UNCHANGED <<up, gone, wal, replica, recovery, head, log>>
        /\ UNCHANGED <<plan, sent, req, acked, paired, query, qhead>>
    BY DEF FlushTick, disks, router, querier
  <1>1. OneFlush(n) /\ Memory(n) /\ Recovering(n)
    BY DEF IInv, Nodes
  <1>2. \A d \in Callers : flush[n][d].stage = "idle"
    BY <1>0, <1>1 DEF OneFlush, Callers
  <1>3. recovery' \in [Ingester -> Recoveries] /\ "tick" \in Callers
    BY <1>0 DEF IInv, NodeTypes, Callers
  <1>4. /\ NodeTypes' /\ Grow /\ Memory(n)'
        /\ \A d \in Callers : d # "tick" => flush'[n][d] = flush[n][d]
        /\ \A m \in Ingester : m # n =>
              flush'[m] = flush[m] /\ hold'[m] = hold[m] /\ buffer'[m] = buffer[m]
    BY <1>0, <1>2, <1>3, HandOverStep
  <1>5. OneFlush(n)'
    BY <1>0, <1>1, <1>4 DEF OneFlush, Callers
  <1>6. Recovering(n)'
    BY <1>0 DEF Recovering
  <1>. QED  BY <1>0, <1>4, <1>5, <1>6, NodeStep

LEMMA RecoverFlushStep ==
    ASSUME IInv, NEW n \in Ingester, RecoverFlush(n)
    PROVE  IInv'
  <1>0. /\ n \in up /\ recovery[n].stage = "flush"
        /\ recovery' = [recovery EXCEPT ![n].stage = "consume"]
        /\ UNCHANGED <<up, gone, wal, replica, head, log>>
        /\ UNCHANGED <<plan, sent, req, acked, paired, query, qhead>>
    BY DEF RecoverFlush, disks, router, querier
  <1>1. OneFlush(n) /\ Memory(n) /\ Recovering(n)
    BY DEF IInv, Nodes
  <1>2. \A d \in Callers : flush[n][d].stage = "idle"
    BY <1>0, <1>1, SMTT(20) DEF OneFlush, Callers
  <1>3. /\ recovery' \in [Ingester -> Recoveries] /\ "recover" \in Callers
        /\ recovery'[n].stage = "consume" /\ recovery'[n].frames = recovery[n].frames
        /\ \A m \in Ingester : m # n => recovery'[m] = recovery[m]
    BY <1>0 DEF IInv, NodeTypes, Callers, Recoveries
  <1>4. \A r : Written(r)' <=> Written(r)
    BY <1>0 DEF Written
  <1>5. CASE HandOver(n, "recover")
    <2>1. /\ NodeTypes' /\ Grow /\ Memory(n)'
          /\ \A d \in Callers : d # "recover" => flush'[n][d] = flush[n][d]
          /\ \A m \in Ingester : m # n =>
                flush'[m] = flush[m] /\ hold'[m] = hold[m] /\ buffer'[m] = buffer[m]
          /\ \A r \in buffer[n] : Flushing(n, r)'
      BY <1>0, <1>2, <1>3, <1>5, HandOverStep
    <2>2. OneFlush(n)'
      BY <1>0, <1>2, <1>3, <2>1 DEF OneFlush, Callers
    <2>3. Recovering(n)'
      BY <1>0, <1>1, <1>3, <1>4, <2>1 DEF Recovering
    <2>. QED  BY <1>0, <1>3, <2>1, <2>2, <2>3, NodeStep
  <1>6. CASE buffer[n] = {} /\ UNCHANGED <<buffer, hold, flush>>
    <2>1. NodeTypes'
      BY <1>0, <1>3, <1>6 DEF IInv, NodeTypes
    <2>2. Grow
      BY <1>0, GrowKept DEF IInv
    <2>3. OneFlush(n)'
      BY <1>0, <1>2, <1>3, <1>6 DEF OneFlush, Callers
    <2>4. Recovering(n)'
      BY <1>0, <1>1, <1>3, <1>4, <1>6 DEF Recovering
    <2>5. Memory(n)'
      <3>1. \A r : (Kept(n, r)' <=> Kept(n, r)) /\ (Flushing(n, r)' <=> Flushing(n, r))
        BY <1>0, <1>6 DEF Kept, Flushing
      <3>2. \A r : (Gated(n) /\ r \in Lines) => (Gated(n) /\ r \in Lines)'
        BY <1>0 DEF Gated, Lines, Target, Shard
      <3>. QED  BY <1>0, <1>1, <1>6, <3>1, <3>2 DEF Memory
    <2>. QED  BY <1>0, <1>3, <1>6, <2>1, <2>2, <2>3, <2>4, <2>5, NodeStep
  <1>. QED  BY <1>5, <1>6 DEF RecoverFlush

LEMMA FlushCommitStep ==
    ASSUME IInv, NEW n \in Ingester, NEW c \in Callers, FlushCommit(n, c)
    PROVE  IInv'
  <1>. DEFINE f == flush[n][c]
  <1>0. /\ n \in up /\ f.stage = "commit"
        /\ log' = Append(log, f.rows) /\ head' = [head EXCEPT ![n] = Len(log')]
        /\ flush' = [flush EXCEPT ![n][c].stage = "reclaim"]
        /\ UNCHANGED <<up, gone, wal, replica, buffer, hold, recovery>>
        /\ UNCHANGED <<plan, sent, req, acked, paired, query, qhead>>
    BY DEF FlushCommit, disks, router, querier
  <1>1. /\ log \in Seq(SUBSET Rows) /\ Len(log) \in Nat /\ f \in Flushes /\ f.rows \in SUBSET Rows
        /\ flush \in [Ingester -> [Callers -> Flushes]]
        /\ head \in [Ingester -> Nat] /\ \A m \in Ingester : head[m] <= Len(log)
    BY SMTT(20) DEF IInv, NodeTypes, Flushes
  <1>2. /\ flush' \in [Ingester -> [Callers -> Flushes]]
        /\ flush'[n][c].stage = "reclaim" /\ flush'[n][c].sealed = f.sealed
        /\ \A d \in Callers : d # c => flush'[n][d] = flush[n][d]
        /\ \A m \in Ingester : m # n => flush'[m] = flush[m]
    BY <1>0, <1>1 DEF Flushes
  <1>. HIDE DEF f
  <1>3. /\ log' \in Seq(SUBSET Rows) /\ Len(log') = Len(log) + 1 /\ log'[Len(log')] = f.rows
        /\ \A i \in Nat : 1 <= i /\ i <= Len(log) => log'[i] = log[i]
    BY <1>0, <1>1, AppendProperties, SMTT(20)
  <1>4. Len(log') \in Nat /\ Len(log) <= Len(log') /\ 1 <= Len(log')
    BY <1>1, <1>3, SMTT(20)
  <1>5. /\ head' \in [Ingester -> Nat] /\ head'[n] = Len(log')
        /\ \A m \in Ingester : head[m] <= head'[m] /\ head'[m] <= Len(log')
    <2>1. head' \in [Ingester -> Nat] /\ head'[n] = Len(log')
             /\ \A m \in Ingester : m # n => head'[m] = head[m]
      BY <1>0, <1>1, <1>4
    <2>2. \A m \in Ingester : head[m] \in Nat /\ head[m] <= Len(log')
      BY <1>1, <1>4, SMTT(20)
    <2>. QED  BY <1>4, <2>1, <2>2, SMTT(20)
  <1>6. NodeTypes'
    BY <1>0, <1>2, <1>3, <1>5 DEF IInv, NodeTypes
  <1>7. Grow
    BY <1>0, <1>3, <1>4, <1>5 DEF Grow
  <1>8. \A r : (Kept(n, r) => Kept(n, r)') /\ (Written(r) => Written(r)')
    BY <1>7, Stays DEF IInv
  <1>9. \A r \in f.rows : Kept(n, r)' /\ Written(r)'
    BY <1>3, <1>4, <1>5 DEF Kept, Written
  <1>10. \A r : Flushing(n, r) => (Kept(n, r)' /\ Written(r)') \/ Flushing(n, r)'
    BY <1>2, <1>9 DEF Flushing, f
  <1>11. \A r : Flushing(n, r)' => Flushing(n, r)
    BY <1>2 DEF Flushing, Callers
  <1>12. OneFlush(n) /\ Memory(n) /\ Recovering(n)
    BY DEF IInv, Nodes
  <1>13. OneFlush(n)'
    BY <1>0, <1>2, <1>12 DEF OneFlush, Callers, f
  <1>14. Recovering(n)'
    BY <1>0, <1>8, <1>10, <1>12 DEF Recovering
  <1>15. Memory(n)'
    <2>1. ASSUME NEW d \in Callers, flush'[n][d].stage # "idle"
          PROVE  \A r \in flush'[n][d].sealed : Kept(n, r)' \/ Flushing(n, r)'
      <3>1. flush[n][d].stage # "idle" /\ flush'[n][d].sealed = flush[n][d].sealed
        BY <1>0, <1>2, <2>1 DEF f
      <3>. QED  BY <1>8, <1>10, <1>12, <3>1 DEF Memory
    <2>2. \A r : (Gated(n) /\ r \in Lines) => (Gated(n) /\ r \in Lines)'
      BY <1>0 DEF Gated, Lines, Target, Shard
    <2>3. \A r \in hold'[n] : Kept(n, r)' \/ Flushing(n, r)'
      BY <1>0, <1>8, <1>10, <1>12 DEF Memory
    <2>4. \A r \in Rows : Flushing(n, r)' => r \in hold'[n]
      BY <1>0, <1>11, <1>12 DEF Memory
    <2>5. n \in up' => \A r \in wal'[n] :
             Kept(n, r)' \/ r \in buffer'[n] \/ r \in hold'[n] \/ (Gated(n) /\ r \in Lines)'
      BY <1>0, <1>8, <1>12, <2>2 DEF Memory
    <2>. QED  BY <2>1, <2>3, <2>4, <2>5 DEF Memory
  <1>. QED  BY <1>0, <1>2, <1>6, <1>7, <1>13, <1>14, <1>15, NodeStep

LEMMA FlushReclaimStep ==
    ASSUME IInv, NEW n \in Ingester, NEW c \in Callers, FlushReclaim(n, c)
    PROVE  IInv'
  <1>0. /\ n \in up /\ flush[n][c].stage = "reclaim"
        /\ hold' = [hold EXCEPT ![n] = {r \in @ : r.table \notin TablesOf(flush[n][c].rows)}]
        /\ wal' = [wal EXCEPT ![n] = @ \ flush[n][c].sealed]
        /\ flush' = [flush EXCEPT ![n][c] = NoFlush]
        /\ UNCHANGED <<up, gone, replica, buffer, recovery, head, log>>
        /\ UNCHANGED <<plan, sent, req, acked, paired, query, qhead>>
    BY DEF FlushReclaim, router, querier
  <1>1. OneFlush(n) /\ Memory(n) /\ Recovering(n)
    BY DEF IInv, Nodes
  <1>2. /\ flush \in [Ingester -> [Callers -> Flushes]] /\ NoFlush \in Flushes
        /\ hold \in [Ingester -> SUBSET Rows] /\ wal \in [Ingester -> SUBSET Rows]
        /\ NoFlush.stage = "idle"
    BY DEF IInv, NodeTypes, NoFlush, Flushes
  <1>3. \A d \in Callers : d # c => flush[n][d].stage = "idle"
    BY <1>0, <1>1 DEF OneFlush, Callers
  <1>4. /\ flush' \in [Ingester -> [Callers -> Flushes]]
        /\ \A d \in Callers : flush'[n][d].stage = "idle"
        /\ \A m \in Ingester : m # n => flush'[m] = flush[m]
    BY <1>0, <1>2, <1>3
  <1>5. /\ hold' \in [Ingester -> SUBSET Rows] /\ \A r \in hold'[n] : r \in hold[n]
        /\ \A m \in Ingester : m # n => hold'[m] = hold[m]
    BY <1>0, <1>2
  <1>6. /\ wal' \in [Ingester -> SUBSET Rows] /\ wal'[n] = wal[n] \ flush[n][c].sealed
        /\ \A m \in Ingester : m # n => wal'[m] = wal[m]
    BY <1>0, <1>2
  <1>7. \A r : ~Flushing(n, r) /\ ~Flushing(n, r)'
    BY <1>0, <1>3, <1>4 DEF Flushing
  <1>8. \A r : (Kept(n, r)' <=> Kept(n, r)) /\ (Written(r)' <=> Written(r))
    BY <1>0 DEF Kept, Written
  <1>9. /\ \A r \in hold[n] : Kept(n, r)
        /\ \A r \in flush[n][c].sealed : Kept(n, r)
    BY <1>0, <1>1, <1>7 DEF Memory
  <1>10. NodeTypes'
    BY <1>0, <1>4, <1>5, <1>6 DEF IInv, NodeTypes
  <1>11. Grow
    BY <1>0, <1>6, <1>9, GrowKept DEF IInv
  <1>12. OneFlush(n)'
    BY <1>0, <1>1, <1>4 DEF OneFlush, Callers
  <1>13. Recovering(n)'
    BY <1>0, <1>1, <1>7, <1>8 DEF Recovering
  <1>14. Memory(n)'
    <2>1. \A r : (Gated(n) /\ r \in Lines) => (Gated(n) /\ r \in Lines)'
      BY <1>0 DEF Gated, Lines, Target, Shard
    <2>2. \A r \in hold'[n] : Kept(n, r)'
      BY <1>5, <1>8, <1>9
    <2>3. n \in up' => \A r \in wal'[n] :
             Kept(n, r)' \/ r \in buffer'[n] \/ (Gated(n) /\ r \in Lines)'
      BY <1>0, <1>1, <1>6, <1>8, <1>9, <2>1 DEF Memory
    <2>. QED  BY <1>4, <1>7, <2>2, <2>3 DEF Memory
  <1>. QED  BY <1>0, <1>4, <1>5, <1>6, <1>10, <1>11, <1>12, <1>13, <1>14, NodeStep

LEMMA RecoverApplyStep ==
    ASSUME IInv, ~TickInRecovery, NEW n \in Ingester, RecoverApply(n)
    PROVE  IInv'
  <1>. DEFINE x == [stage |-> "flush", frames |-> replica[n]]
  <1>0. /\ n \in up /\ recovery[n].stage = "idle" /\ flush[n]["tick"].stage = "idle"
        /\ recovery' = [recovery EXCEPT ![n] = x]
        /\ buffer' = [buffer EXCEPT ![n] = @ \cup replica[n]]
        /\ UNCHANGED <<up, gone, wal, replica, hold, flush, head, log>>
        /\ UNCHANGED <<plan, sent, req, acked, paired, query, qhead>>
    BY DEF RecoverApply, disks, router, querier
  <1>1. OneFlush(n) /\ Memory(n) /\ Recovering(n)
    BY DEF IInv, Nodes
  <1>2. /\ recovery \in [Ingester -> Recoveries] /\ x \in Recoveries
        /\ buffer \in [Ingester -> SUBSET Rows] /\ replica[n] \in SUBSET Rows
    BY DEF IInv, NodeTypes, Recoveries
  <1>3. /\ recovery' \in [Ingester -> Recoveries]
        /\ recovery'[n].stage = "flush" /\ recovery'[n].frames = replica[n]
        /\ \A m \in Ingester : m # n => recovery'[m] = recovery[m]
    BY <1>0, <1>2
  <1>4. /\ buffer' \in [Ingester -> SUBSET Rows] /\ buffer'[n] = buffer[n] \cup replica[n]
        /\ \A m \in Ingester : m # n => buffer'[m] = buffer[m]
    BY <1>0, <1>2
  <1>5. NodeTypes'
    BY <1>0, <1>3, <1>4 DEF IInv, NodeTypes
  <1>6. Grow
    BY <1>0, GrowKept DEF IInv
  <1>7. OneFlush(n)'
    BY <1>0, <1>1, <1>3 DEF OneFlush
  <1>8. Recovering(n)'
    BY <1>3, <1>4 DEF Recovering
  <1>9. Memory(n)'
    <2>1. \A r : (Kept(n, r)' <=> Kept(n, r)) /\ (Flushing(n, r)' <=> Flushing(n, r))
      BY <1>0 DEF Kept, Flushing
    <2>2. \A r : (Gated(n) /\ r \in Lines) => (Gated(n) /\ r \in Lines)'
      BY <1>0 DEF Gated, Lines, Target, Shard
    <2>. QED  BY <1>0, <1>1, <1>4, <2>1, <2>2 DEF Memory
  <1>. QED  BY <1>0, <1>3, <1>4, <1>5, <1>6, <1>7, <1>8, <1>9, NodeStep

LEMMA RecoverConsumeStep ==
    ASSUME IInv, NEW n \in Ingester, RecoverConsume(n)
    PROVE  IInv'
  <1>0. /\ n \in up /\ recovery[n].stage = "consume" /\ flush[n]["recover"].stage = "idle"
        /\ replica' = [replica EXCEPT ![n] = @ \ recovery[n].frames]
        /\ recovery' = [recovery EXCEPT ![n] = NoRecovery]
        /\ UNCHANGED <<up, gone, wal, buffer, hold, flush, head, log>>
        /\ UNCHANGED <<plan, sent, req, acked, paired, query, qhead>>
    BY DEF RecoverConsume, router, querier
  <1>1. OneFlush(n) /\ Memory(n) /\ Recovering(n)
    BY DEF IInv, Nodes
  <1>2. /\ recovery \in [Ingester -> Recoveries] /\ NoRecovery \in Recoveries
        /\ NoRecovery.stage = "idle" /\ replica \in [Ingester -> SUBSET Rows]
    BY DEF IInv, NodeTypes, NoRecovery, Recoveries
  <1>3. /\ recovery' \in [Ingester -> Recoveries] /\ recovery'[n].stage = "idle"
        /\ \A m \in Ingester : m # n => recovery'[m] = recovery[m]
    BY <1>0, <1>2
  <1>4. \A r : ~Flushing(n, r)
    BY <1>0, <1>1 DEF OneFlush, Flushing, Callers
  <1>5. \A r \in recovery[n].frames : Written(r)'
    <2>1. \A r : Written(r)' <=> Written(r)
      BY <1>0 DEF Written
    <2>. QED  BY <1>0, <1>1, <1>4, <2>1 DEF Recovering
  <1>6. /\ replica' \in [Ingester -> SUBSET Rows]
        /\ \A m \in Ingester : \A r \in replica[m] : r \in replica'[m] \/ Written(r)'
    BY <1>0, <1>2, <1>5
  <1>7. NodeTypes'
    BY <1>0, <1>3, <1>6 DEF IInv, NodeTypes
  <1>8. Grow
    BY <1>0, GrowKept DEF IInv
  <1>9. OneFlush(n)'
    BY <1>0, <1>1, <1>3 DEF OneFlush
  <1>10. Recovering(n)'
    BY <1>3 DEF Recovering
  <1>11. Memory(n)'
    <2>1. \A r : (Kept(n, r)' <=> Kept(n, r)) /\ (Flushing(n, r)' <=> Flushing(n, r))
      BY <1>0 DEF Kept, Flushing
    <2>2. \A r : (Gated(n) /\ r \in Lines) => (Gated(n) /\ r \in Lines)'
      BY <1>0 DEF Gated, Lines, Target, Shard
    <2>. QED  BY <1>0, <1>1, <2>1, <2>2 DEF Memory
  <1>. QED  BY <1>0, <1>3, <1>6, <1>7, <1>8, <1>9, <1>10, <1>11, NodeStep

LEMMA RestartStep ==
    ASSUME IInv, NEW n \in Ingester, Restart(n)
    PROVE  IInv'
  <1>0. /\ n \notin up /\ n \notin gone /\ up' = up \cup {n}
        /\ buffer' = [buffer EXCEPT ![n] = wal[n]] /\ head' = [head EXCEPT ![n] = Len(log)]
        /\ UNCHANGED <<gone, wal, replica, hold, flush, recovery, log>>
        /\ UNCHANGED <<plan, sent, req, acked, paired, query, qhead>>
    BY DEF Restart, disks, router, querier
  <1>1. OneFlush(n) /\ Memory(n) /\ Recovering(n)
    BY DEF IInv, Nodes
  <1>2. /\ buffer \in [Ingester -> SUBSET Rows] /\ wal[n] \in SUBSET Rows
        /\ Len(log) \in Nat /\ head \in [Ingester -> Nat]
        /\ \A m \in Ingester : head[m] <= Len(log)
    BY SMTT(20) DEF IInv, NodeTypes
  <1>3. /\ buffer' \in [Ingester -> SUBSET Rows] /\ buffer'[n] = wal[n]
        /\ \A m \in Ingester : m # n => buffer'[m] = buffer[m]
    BY <1>0, <1>2
  <1>4. /\ head' \in [Ingester -> Nat]
        /\ \A m \in Ingester : head[m] <= head'[m] /\ head'[m] <= Len(log)
    BY <1>0, <1>2, SMTT(20)
  <1>5. NodeTypes'
    BY <1>0, <1>3, <1>4 DEF IInv, NodeTypes
  <1>6. Grow
    BY <1>0, <1>2, <1>4 DEF Grow
  <1>7. OneFlush(n)' /\ Recovering(n)'
    BY <1>0, <1>1 DEF OneFlush, Recovering
  <1>8. Memory(n)'
    <2>1. \A r : (Kept(n, r) => Kept(n, r)') /\ (Flushing(n, r)' <=> Flushing(n, r))
      BY <1>0, <1>6, Stays DEF IInv, Flushing
    <2>. QED  BY <1>0, <1>1, <1>3, <2>1 DEF Memory
  <1>. QED  BY <1>0, <1>3, <1>5, <1>6, <1>7, <1>8, NodeStep

LEMMA CrashStep ==
    ASSUME IInv, NEW n \in Ingester, NEW machine \in BOOLEAN, Crash(n, machine)
    PROVE  IInv'
  <1>. DEFINE none == [c \in Callers |-> NoFlush]
  <1>0. /\ n \in up /\ (machine => gone = {}) /\ up' = up \ {n}
        /\ gone' = IF machine THEN {n} ELSE gone
        /\ wal' = IF machine THEN [wal EXCEPT ![n] = {}] ELSE wal
        /\ replica' = IF machine THEN [replica EXCEPT ![n] = {}] ELSE replica
        /\ buffer' = [buffer EXCEPT ![n] = {}] /\ hold' = [hold EXCEPT ![n] = {}]
        /\ flush' = [flush EXCEPT ![n] = none]
        /\ recovery' = [recovery EXCEPT ![n] = NoRecovery]
        /\ req' = IF Gated(n) THEN NoReq ELSE req
        /\ UNCHANGED <<head, log, plan, sent, acked, paired, query, qhead>>
    BY DEF Crash, querier
  <1>1. /\ wal \in [Ingester -> SUBSET Rows] /\ replica \in [Ingester -> SUBSET Rows]
        /\ buffer \in [Ingester -> SUBSET Rows] /\ hold \in [Ingester -> SUBSET Rows]
        /\ flush \in [Ingester -> [Callers -> Flushes]] /\ recovery \in [Ingester -> Recoveries]
        /\ NoFlush \in Flushes /\ NoRecovery \in Recoveries
        /\ NoFlush.stage = "idle" /\ NoRecovery.stage = "idle"
    BY DEF IInv, NodeTypes, NoFlush, Flushes, NoRecovery, Recoveries
  <1>2. /\ wal' \in [Ingester -> SUBSET Rows] /\ replica' \in [Ingester -> SUBSET Rows]
        /\ \A m \in Ingester : m # n => wal'[m] = wal[m] /\ replica'[m] = replica[m]
        /\ ~machine => wal' = wal /\ replica' = replica
    BY <1>0, <1>1
  <1>3. /\ buffer' \in [Ingester -> SUBSET Rows] /\ hold' \in [Ingester -> SUBSET Rows]
        /\ hold'[n] = {}
        /\ \A m \in Ingester : m # n => buffer'[m] = buffer[m] /\ hold'[m] = hold[m]
    BY <1>0, <1>1
  <1>4. /\ flush' \in [Ingester -> [Callers -> Flushes]]
        /\ \A c \in Callers : flush'[n][c].stage = "idle"
        /\ \A m \in Ingester : m # n => flush'[m] = flush[m]
    BY <1>0, <1>1
  <1>5. /\ recovery' \in [Ingester -> Recoveries] /\ recovery'[n].stage = "idle"
        /\ \A m \in Ingester : m # n => recovery'[m] = recovery[m]
    BY <1>0, <1>1
  <1>6. /\ \A m \in gone : m \in gone'
        /\ machine => n \in gone'
        /\ \A m \in gone' : m \in Ingester /\ m \notin up'
        /\ \A l, m \in gone' : l = m
    BY <1>0 DEF IInv, NodeTypes
  <1>7. NodeTypes'
    BY <1>0, <1>2, <1>3, <1>4, <1>5, <1>6 DEF IInv, NodeTypes
  <1>8. Grow
    <2>1. Len(log) \in Nat /\ \A m \in Ingester : head[m] \in Nat
      BY SMTT(20) DEF IInv, NodeTypes
    <2>2. log' = log /\ head' = head
      BY <1>0
    <2>3. \A m \in Ingester : \A r \in wal[m] : r \in wal'[m] \/ m \in gone'
      BY <1>2, <1>6
    <2>. QED  BY <1>6, <2>1, <2>2, <2>3, SMTT(20) DEF Grow
  <1>9. \A m \in Ingester : Gated(m)' => Gated(m) /\ m # n /\ Lines' = Lines
    <2>1. CASE Gated(n)
      BY <1>0, <2>1 DEF Gated, NoReq
    <2>2. CASE ~Gated(n)
      <3>1. req' = req
        BY <1>0, <2>2
      <3>2. \A m \in Ingester : Gated(m)' <=> Gated(m)
        BY <3>1 DEF Gated, Target, Shard
      <3>3. Lines' = Lines
        BY <3>1 DEF Lines, Shard
      <3>. QED  BY <2>2, <3>2, <3>3
    <2>. QED  BY <2>1, <2>2
  <1>10. \A m \in Ingester : m # n => \A r :
            Gated(m) /\ r \in Lines => (Gated(m) /\ r \in Lines)'
    <2>1. CASE Gated(n)
      BY <2>1 DEF Gated
    <2>2. CASE ~Gated(n)
      BY <1>0, <2>2 DEF Gated, Lines, Target, Shard
    <2>. QED  BY <2>1, <2>2
  <1>11. Nodes'
    <2>. SUFFICES ASSUME NEW m \in Ingester
                  PROVE  OneFlush(m)' /\ Memory(m)' /\ Recovering(m)'
      BY DEF Nodes
    <2>1. OneFlush(m) /\ Memory(m) /\ Recovering(m)
      BY DEF IInv, Nodes
    <2>2. CASE m # n
      <3>1. m \in up' <=> m \in up
        BY <1>0, <2>2
      <3>. QED  BY <1>2, <1>3, <1>4, <1>5, <1>8, <1>10, <2>1, <2>2, <3>1, NodeKept DEF IInv
    <2>3. CASE m = n
      <3>1. \A r : ~Flushing(m, r)'
        BY <1>4, <2>3 DEF Flushing
      <3>2. m \notin up'
        BY <1>0, <2>3
      <3>. QED  BY <1>3, <1>4, <1>5, <2>3, <3>1, <3>2 DEF OneFlush, Memory, Recovering, Callers
    <2>. QED  BY <2>2, <2>3
  <1>12. Gate'
    <2>1. \A m \in Ingester : Gated(m) /\ m # n => m \in up'
      BY <1>0 DEF IInv, Gate
    <2>. QED  BY <1>8, <1>9, <2>1, GateKept DEF IInv
  <1>13. Stored'
    <2>1. \A r \in Rows : (r \in acked \/ Done(r))' => r \in acked \/ Done(r)
      <3>1. CASE Gated(n)
        BY <1>0, <3>1 DEF Done, NoReq
      <3>2. CASE ~Gated(n)
        BY <1>0, <3>2 DEF Done
      <3>. QED  BY <3>1, <3>2
    <2>. QED  BY <1>8, <2>1, StoredKept DEF IInv
  <1>14. Twice'
    <2>1. \A m \in Ingester : \A r \in replica[m] : r \in replica'[m] \/ m \in gone'
      BY <1>2, <1>6
    <2>. QED  BY <1>0, <1>8, <2>1, TwiceKept, ClusterAssumption DEF IInv
  <1>15. Reads'
    BY <1>0, <1>8, ReadsKept DEF IInv
  <1>16. RouterTypes' /\ Numbered'
    <2>1. CASE Gated(n)
      BY <1>0, <2>1 DEF IInv, RouterTypes, Numbered, NoReq
    <2>2. CASE ~Gated(n)
      BY <1>0, <2>2 DEF IInv, RouterTypes, Numbered
    <2>. QED  BY <2>1, <2>2
  <1>. QED  BY <1>7, <1>11, <1>12, <1>13, <1>14, <1>15, <1>16 DEF IInv
-----------------------------------------------------------------------------
(* The querier *)

\* Only the query moves.
LEMMA QueryOnly ==
    ASSUME IInv, UNCHANGED <<up, gone, disks, memory, log, req, plan, sent, acked, paired>>,
           Reads'
    PROVE  IInv'
  <1>1. NodeTypes' /\ Grow
    BY NodeTypesKept DEF IInv
  <1>2. Lines' = Lines /\ \A n \in Ingester : Gated(n)' <=> Gated(n)
    BY DEF Lines, Gated, Target, Shard
  <1>3. Nodes'
    BY <1>1, <1>2, NodesKept DEF IInv, disks, memory
  <1>4. Gate'
    <2>1. \A n \in Ingester : Gated(n) => n \in up'
      BY DEF IInv, Gate
    <2>. QED  BY <1>1, <1>2, <2>1, GateKept DEF IInv
  <1>5. Stored'
    <2>1. \A r \in Rows : (r \in acked \/ Done(r))' => r \in acked \/ Done(r)
      BY DEF Done
    <2>. QED  BY <1>1, <2>1, StoredKept DEF IInv
  <1>6. Twice'
    BY <1>1, TwiceKept, ClusterAssumption DEF IInv, disks
  <1>7. RouterTypes' /\ Numbered'
    BY DEF IInv, RouterTypes, Numbered
  <1>. QED  BY <1>1, <1>3, <1>4, <1>5, <1>6, <1>7 DEF IInv

\* Nothing that counts moves.
LEMMA StutterStep ==
    ASSUME IInv, UNCHANGED <<up, gone, disks, memory, log, req, plan, sent, acked, paired>>,
           UNCHANGED <<query, qhead>>
    PROVE  IInv'
  <1>1. Grow
    BY NodeTypesKept DEF IInv
  <1>2. Reads'
    BY <1>1, ReadsKept DEF IInv
  <1>. QED  BY <1>2, QueryOnly

LEMMA MaxOfTwo ==
    ASSUME NEW a \in Nat, NEW b \in Nat
    PROVE  /\ Max({a, b}) \in {a, b}
           /\ a <= Max({a, b}) /\ b <= Max({a, b})
  <1>1. \E x \in {a, b} : \A y \in {a, b} : x >= y
    <2>1. CASE a >= b
      BY <2>1, SMTT(20)
    <2>2. CASE b >= a
      BY <2>2, SMTT(20)
    <2>. QED  BY <2>1, <2>2, SMTT(20)
  <1>2. Max({a, b}) \in {a, b} /\ \A y \in {a, b} : Max({a, b}) >= y
    BY <1>1 DEF Max
  <1>. QED  BY <1>2

\* What a query relies on is not touched by its own steps.
LEMMA QueryFrame ==
    ASSUME IInv, UNCHANGED <<up, gone, disks, memory, log, router>>,
           ~DropsDead => Covered'
    PROVE  IInv'
  BY QueryOnly DEF router, Reads

LEMMA SameKept ==
    ASSUME UNCHANGED <<up, gone, disks, memory, log, router>>
    PROVE  /\ log' = log /\ acked' = acked
           /\ \A n, r : (Kept(n, r)' <=> Kept(n, r)) /\ (At(n, r)' <=> At(n, r))
  BY DEF Kept, At, disks, memory, router

LEMMA AskStep ==
    ASSUME IInv, NEW t \in Table, Ask(t)
    PROVE  IInv'
  <1>0. /\ UNCHANGED <<up, gone, disks, memory, log, router>>
        /\ \E h : qhead' = CaughtUp(h)
    BY DEF Ask
  <1>. SUFFICES ASSUME ~DropsDead PROVE Covered'
    BY <1>0, QueryFrame
  <1>1. Covered
    BY DEF IInv, Reads
  <1>2. query' = [stage |-> "snapshot", table |-> t, want |-> {r \in acked : r.table = t},
                  todo |-> Ingester, half |-> {}, head |-> 0, rows |-> {}]
    BY DEF Ask
  <1>3. /\ query'.stage = "snapshot" /\ query'.table = t
        /\ query'.want = {r \in acked : r.table = t} /\ query'.todo = Ingester
        /\ query'.half = {} /\ query'.head = 0 /\ query'.rows = {}
    BY <1>2
  <1>4. Len(log) \in Nat /\ qhead \in Nat /\ qhead <= Len(log)
    BY <1>1, SMTT(20) DEF IInv, NodeTypes, Covered
  <1>5. qhead' = qhead \/ qhead' = Len(log)
    BY <1>0 DEF CaughtUp
  <1>6. qhead' \in Nat /\ qhead' <= Len(log') /\ query'.head \in Nat /\ query'.head <= Len(log')
    BY <1>0, <1>3, <1>4, <1>5, SMTT(20)
  <1>7. \A r \in query'.want : r.table = query'.table /\ r \in acked'
                                  /\ \E n \in Ingester : n \in query'.todo /\ At(n, r)'
    <2>. SUFFICES ASSUME NEW r \in acked PROVE \E n \in Ingester : At(n, r)'
      BY <1>0, <1>3, SameKept
    <2>1. r \in Rows
      BY DEF IInv, RouterTypes
    <2>. QED  BY <1>0, <2>1, SameKept DEF IInv, Stored
  <1>8. AnswersComplete'
    BY <1>3 DEF AnswersComplete
  <1>. QED  BY <1>2, <1>3, <1>6, <1>7, <1>8 DEF Covered

\* A row that has come to a node that runs and is acknowledged can be read
\* there: it is not of the shard under way.
LEMMA Readable ==
    ASSUME IInv, NEW n \in up, NEW r \in acked, At(n, r)
    PROVE  Kept(n, r) \/ r \in buffer[n] \/ r \in hold[n]
  <1>1. n \in Ingester /\ n \notin gone
    BY DEF IInv, NodeTypes
  <1>2. ~(Gated(n) /\ r \in Lines)
    <2>. SUFFICES ASSUME Gated(n), r \in Lines PROVE FALSE
      OBVIOUS
    <2>1. r.write = req.write
      BY LinesAre DEF IInv
    <2>2. req.stage # "idle"
      BY DEF Gated
    <2>3. r.write \in Nat /\ req.write = sent /\ r.write < sent
      BY <2>2 DEF IInv, RouterTypes, Numbered, Rows
    <2>. QED  BY <2>1, <2>3, SMTT(20)
  <1>. QED  BY <1>1, <1>2 DEF IInv, Nodes, Memory, At

LEMMA SnapshotStep ==
    ASSUME IInv, NEW n \in Ingester, Snapshot(n)
    PROVE  IInv'
  <1>. DEFINE new == {r \in buffer[n] \cup hold[n] : r.table = query.table}
  <1>0. /\ UNCHANGED <<up, gone, disks, memory, log, router, qhead>>
        /\ query.stage = "snapshot" /\ n \in query.todo /\ n \in up
        /\ query' = [query EXCEPT !.todo = @ \ {n}, !.half = @ \cup {n}, !.rows = @ \cup new]
    BY DEF Snapshot
  <1>. SUFFICES ASSUME ~DropsDead PROVE Covered'
    BY <1>0, QueryFrame
  <1>1. Covered
    BY DEF IInv, Reads
  <1>2. query' = [stage |-> "snapshot", table |-> query.table, want |-> query.want,
                  todo |-> query.todo \ {n}, half |-> query.half \cup {n},
                  head |-> query.head, rows |-> query.rows \cup new]
    BY <1>0, <1>1 DEF Covered
  <1>3. /\ query'.stage = "snapshot" /\ query'.table = query.table
        /\ query'.want = query.want /\ query'.todo = query.todo \ {n}
        /\ query'.half = query.half \cup {n} /\ query'.head = query.head
        /\ query'.rows = query.rows \cup new
    BY <1>2
  <1>4. log' = log /\ acked' = acked /\ qhead' = qhead
           /\ \A m, r : (Kept(m, r)' <=> Kept(m, r)) /\ (At(m, r)' <=> At(m, r))
    BY <1>0, SameKept
  <1>5. ASSUME NEW r \in query.want
        PROVE  /\ r.table = query'.table
               /\ \/ r \in query'.rows
                  \/ \E m \in Ingester : m \in query'.todo /\ At(m, r)'
                  \/ \E m \in Ingester : m \in query'.half /\ Kept(m, r)'
                  \/ \E i \in Nat : 1 <= i /\ i <= query'.head /\ r \in log'[i]
    <2>1. /\ r.table = query.table /\ r \in acked
          /\ \/ r \in query.rows
             \/ \E m \in Ingester : m \in query.todo /\ At(m, r)
             \/ \E m \in Ingester : m \in query.half /\ Kept(m, r)
             \/ \E i \in Nat : 1 <= i /\ i <= query.head /\ r \in log[i]
      BY <1>0, <1>1 DEF Covered
    <2>2. ASSUME At(n, r)
          PROVE  r \in query'.rows \/ (n \in query'.half /\ Kept(n, r)')
      BY <1>0, <1>3, <1>4, <2>1, <2>2, Readable
    <2>3. ASSUME NEW m \in Ingester, m \in query.todo, At(m, r)
          PROVE  \/ r \in query'.rows
                 \/ \E l \in Ingester : l \in query'.todo /\ At(l, r)'
                 \/ \E l \in Ingester : l \in query'.half /\ Kept(l, r)'
      <3>1. CASE m = n
        BY <2>2, <2>3, <3>1
      <3>2. CASE m # n
        BY <1>3, <1>4, <2>3, <3>2
      <3>. QED  BY <3>1, <3>2
    <2>4. ASSUME NEW m \in Ingester, m \in query.half, Kept(m, r)
          PROVE  \E l \in Ingester : l \in query'.half /\ Kept(l, r)'
      BY <1>3, <1>4, <2>4
    <2>5. r \in query.rows => r \in query'.rows
      BY <1>3
    <2>. QED  BY <1>3, <1>4, <2>1, <2>3, <2>4, <2>5
  <1>6. AnswersComplete'
    BY <1>3 DEF AnswersComplete
  <1>. HIDE DEF new
  <1>. QED  BY <1>1, <1>0, <1>2, <1>3, <1>4, <1>5, <1>6 DEF Covered

LEMMA SnapshotHeadStep ==
    ASSUME IInv, NEW n \in Ingester, SnapshotHead(n)
    PROVE  IInv'
  <1>. DEFINE h == Max({query.head, head[n]})
  <1>0. /\ UNCHANGED <<up, gone, disks, memory, log, router, qhead>>
        /\ query.stage = "snapshot" /\ n \in query.half
        /\ query' = [query EXCEPT !.half = @ \ {n}, !.head = Max({@, head[n]})]
    BY DEF SnapshotHead
  <1>. SUFFICES ASSUME ~DropsDead PROVE Covered'
    BY <1>0, QueryFrame
  <1>1. Covered
    BY DEF IInv, Reads
  <1>2. query' = [stage |-> "snapshot", table |-> query.table, want |-> query.want,
                  todo |-> query.todo, half |-> query.half \ {n}, head |-> h,
                  rows |-> query.rows]
    BY <1>0, <1>1 DEF Covered
  <1>3. /\ query'.stage = "snapshot" /\ query'.table = query.table
        /\ query'.want = query.want /\ query'.todo = query.todo
        /\ query'.half = query.half \ {n} /\ query'.head = h /\ query'.rows = query.rows
    BY <1>2
  <1>4. log' = log /\ acked' = acked /\ qhead' = qhead
           /\ \A m, r : (Kept(m, r)' <=> Kept(m, r)) /\ (At(m, r)' <=> At(m, r))
    BY <1>0, SameKept
  <1>5. /\ query.head \in Nat /\ query.head <= Len(log)
        /\ head[n] \in Nat /\ head[n] <= Len(log) /\ Len(log) \in Nat
    BY <1>1, SMTT(20) DEF Covered, IInv, NodeTypes
  <1>6. h \in {query.head, head[n]} /\ query.head <= h /\ head[n] <= h
    BY <1>5, MaxOfTwo
  <1>. HIDE DEF h
  <1>7. h \in Nat /\ h <= Len(log)
    BY <1>5, <1>6
  <1>8. ASSUME NEW r \in query.want
        PROVE  /\ r.table = query'.table
               /\ \/ r \in query'.rows
                  \/ \E m \in Ingester : m \in query'.todo /\ At(m, r)'
                  \/ \E m \in Ingester : m \in query'.half /\ Kept(m, r)'
                  \/ \E i \in Nat : 1 <= i /\ i <= query'.head /\ r \in log'[i]
    <2>1. /\ r.table = query.table
          /\ \/ r \in query.rows
             \/ \E m \in Ingester : m \in query.todo /\ At(m, r)
             \/ \E m \in Ingester : m \in query.half /\ Kept(m, r)
             \/ \E i \in Nat : 1 <= i /\ i <= query.head /\ r \in log[i]
      BY <1>0, <1>1 DEF Covered
    <2>2. ASSUME NEW i \in Nat, 1 <= i, i <= query.head \/ i <= head[n], r \in log[i]
          PROVE  \E j \in Nat : 1 <= j /\ j <= query'.head /\ r \in log'[j]
      <3>1. i <= h
        BY <1>5, <1>6, <1>7, <2>2, SMTT(20)
      <3>. QED  BY <1>3, <1>4, <2>2, <3>1
    <2>3. ASSUME NEW m \in Ingester, m \in query.half, Kept(m, r)
          PROVE  \/ m \in query'.half /\ Kept(m, r)'
                 \/ \E j \in Nat : 1 <= j /\ j <= query'.head /\ r \in log'[j]
      <3>1. CASE m = n
        BY <2>2, <2>3, <3>1 DEF Kept
      <3>2. CASE m # n
        BY <1>3, <1>4, <2>3, <3>2
      <3>. QED  BY <3>1, <3>2
    <2>. QED  BY <1>3, <1>4, <2>1, <2>2, <2>3
  <1>9. AnswersComplete'
    BY <1>3 DEF AnswersComplete
  <1>. QED  BY <1>0, <1>1, <1>2, <1>3, <1>4, <1>7, <1>8, <1>9 DEF Covered

LEMMA ReadFilesStep ==
    ASSUME IInv, ReadFiles
    PROVE  IInv'
  <1>. DEFINE found == FilesUpTo(qhead', query.table)
  <1>0. /\ UNCHANGED <<up, gone, disks, memory, log, router>>
        /\ query.stage = "snapshot" /\ query.todo \cup query.half = {}
        /\ qhead' = IF query.head > qhead THEN CaughtUp(query.head) ELSE qhead
        /\ query' = [query EXCEPT !.stage = "answered", !.rows = @ \cup found]
    BY DEF ReadFiles
  <1>. SUFFICES ASSUME ~DropsDead PROVE Covered'
    BY <1>0, QueryFrame
  <1>1. Covered
    BY DEF IInv, Reads
  <1>2. query' = [stage |-> "answered", table |-> query.table, want |-> query.want,
                  todo |-> query.todo, half |-> query.half, head |-> query.head,
                  rows |-> query.rows \cup found]
    BY <1>0, <1>1 DEF Covered
  <1>3. /\ query'.stage = "answered" /\ query'.want = query.want /\ query'.head = query.head
        /\ query'.rows = query.rows \cup found
    BY <1>2
  <1>4. /\ query.head \in Nat /\ query.head <= Len(log)
        /\ qhead \in Nat /\ qhead <= Len(log) /\ Len(log) \in Nat /\ log' = log
    BY <1>0, <1>1, SMTT(20) DEF Covered, IInv, NodeTypes
  <1>5. qhead' \in Nat /\ qhead' <= Len(log) /\ query.head <= qhead'
    <2>1. CASE query.head > qhead
      <3>1. ~(query.head > 0 /\ qhead >= query.head)
        BY <1>4, <2>1, SMTT(20)
      <3>2. qhead' = Len(log)
        BY <1>0, <2>1, <3>1 DEF CaughtUp
      <3>. QED  BY <1>4, <3>2, SMTT(20)
    <2>2. CASE ~(query.head > qhead)
      BY <1>0, <1>4, <2>2, SMTT(20)
    <2>. QED  BY <2>1, <2>2
  <1>6. ASSUME NEW r \in query.want
        PROVE  r \in query'.rows
    <2>1. /\ r.table = query.table
          /\ \/ r \in query.rows
             \/ \E i \in Nat : 1 <= i /\ i <= query.head /\ r \in log[i]
      BY <1>0, <1>1 DEF Covered
    <2>2. ASSUME NEW i \in Nat, 1 <= i, i <= query.head, r \in log[i]
          PROVE  r \in found
      <3>1. i \in 1 .. qhead'
        BY <1>4, <1>5, <2>2, SMTT(20)
      <3>2. r \in UNION {log[j] : j \in 1 .. qhead'}
        BY <2>2, <3>1
      <3>. QED  BY <2>1, <3>2 DEF FilesUpTo
    <2>. QED  BY <1>3, <2>1, <2>2
  <1>7. AnswersComplete'
    BY <1>3, <1>6 DEF AnswersComplete
  <1>. HIDE DEF found
  <1>. QED  BY <1>2, <1>3, <1>4, <1>5, <1>7 DEF Covered

\* A query refused, or over.
LEMMA QueryEndStep ==
    ASSUME IInv, Refuse \/ Finish
    PROVE  IInv'
  <1>0. /\ UNCHANGED <<up, gone, disks, memory, log, router, qhead>>
        /\ query' = [query EXCEPT !.stage = "refused"] \/ query' = NoQuery
    BY DEF Refuse, Finish
  <1>. SUFFICES ASSUME ~DropsDead PROVE Covered'
    BY <1>0, QueryFrame
  <1>1. Covered
    BY DEF IInv, Reads
  <1>2. Len(log) \in Nat /\ log' = log /\ qhead' = qhead
    BY <1>0, SMTT(20) DEF IInv, NodeTypes
  <1>3. CASE query' = [query EXCEPT !.stage = "refused"]
    <2>1. query' = [stage |-> "refused", table |-> query.table, want |-> query.want,
                    todo |-> query.todo, half |-> query.half, head |-> query.head,
                    rows |-> query.rows]
      BY <1>1, <1>3 DEF Covered
    <2>. QED  BY <1>1, <1>2, <2>1 DEF Covered, AnswersComplete
  <1>4. CASE query' = NoQuery
    BY <1>1, <1>2, <1>4, SMTT(20) DEF Covered, AnswersComplete, NoQuery
  <1>. QED  BY <1>0, <1>3, <1>4
-----------------------------------------------------------------------------
(* Every behaviour *)

LEMMA IInvInit == Init => IInv
  <1>. SUFFICES ASSUME Init PROVE IInv
    OBVIOUS
  <1>0. /\ up = Ingester /\ gone = {} /\ wal = [n \in Ingester |-> {}]
        /\ replica = [n \in Ingester |-> {}] /\ buffer = [n \in Ingester |-> {}]
        /\ hold = [n \in Ingester |-> {}] /\ flush = [n \in Ingester |-> [c \in Callers |-> NoFlush]]
        /\ recovery = [n \in Ingester |-> NoRecovery] /\ log = <<>>
        /\ head = [n \in Ingester |-> 0] /\ req = NoReq /\ plan \in Plans /\ sent = 0
        /\ acked = {} /\ paired = {} /\ query = NoQuery /\ qhead = 0
    BY DEF Init
  <1>1. NoFlush \in Flushes /\ NoRecovery \in Recoveries
           /\ NoFlush.stage = "idle" /\ NoRecovery.stage = "idle"
    BY DEF NoFlush, NoRecovery, Flushes, Recoveries
  <1>2. log \in Seq(SUBSET Rows) /\ Len(log) = 0 /\ Len(log) \in Nat
    BY <1>0, SMTT(20)
  <1>3. flush \in [Ingester -> [Callers -> Flushes]] /\ recovery \in [Ingester -> Recoveries]
    BY <1>0, <1>1
  <1>4. head \in [Ingester -> Nat] /\ \A n \in Ingester : head[n] <= Len(log)
    BY <1>0, <1>2, SMTT(20)
  <1>5. NodeTypes
    BY <1>0, <1>2, <1>3, <1>4 DEF NodeTypes
  <1>6. plan \in Seq(SUBSET Table)
    <2>1. plan \in Seq((SUBSET Table) \ {{}})
      BY <1>0, ClusterAssumption
    <2>. QED  BY <2>1, SMTT(20)
  <1>7. RouterTypes
    BY <1>0, <1>6 DEF RouterTypes, NoReq
  <1>8. Numbered
    BY <1>0 DEF Numbered, NoReq
  <1>9. Nodes
    BY <1>0, <1>1 DEF Nodes, OneFlush, Memory, Recovering, Flushing, Callers
  <1>10. Gate
    BY <1>0 DEF Gate, Gated, NoReq
  <1>11. Stored
    BY <1>0 DEF Stored, Done, NoReq
  <1>12. Reads
    BY <1>0, <1>2, SMTT(20) DEF Reads, Covered, AnswersComplete, NoQuery
  <1>13. Twice
    BY <1>0 DEF Twice
  <1>. QED  BY <1>5, <1>7, <1>8, <1>9, <1>10, <1>11, <1>12, <1>13 DEF IInv

LEMMA IInvStep == ~TickInRecovery /\ IInv /\ [Next]_vars => IInv'
  <1>. SUFFICES ASSUME ~TickInRecovery, IInv, [Next]_vars PROVE IInv'
    OBVIOUS
  <1>1. CASE RouterStep
    BY <1>1, AppendStep, AbandonStep, ReplicateStep, ApplyStep DEF RouterStep
  <1>2. ASSUME NEW ns \in SUBSET Ingester, UpdateTargets(ns) PROVE IInv'
    BY <1>2, StutterStep DEF UpdateTargets, querier
  <1>3. ASSUME NEW n \in Ingester, FlushStep(n) PROVE IInv'
    BY <1>3, FlushCommitStep, FlushReclaimStep DEF FlushStep
  <1>4. ASSUME NEW n \in Ingester, RecoveryStep(n) PROVE IInv'
    BY <1>4, RecoverFlushStep, RecoverConsumeStep DEF RecoveryStep
  <1>5. CASE QueryStep
    BY <1>5, SnapshotStep, SnapshotHeadStep, ReadFilesStep, QueryEndStep DEF QueryStep
  <1>6. CASE UNCHANGED vars
    BY <1>6, StutterStep DEF vars, router, querier
  <1>. QED
    BY <1>1, <1>2, <1>3, <1>4, <1>5, <1>6, AcceptStep, FlushTickStep, RecoverApplyStep,
       CrashStep, RestartStep, AskStep DEF Next

\* IInv holds in every behaviour in which no tick flushes during a recovery.
LEMMA Inductive ==
    ASSUME ~TickInRecovery
    PROVE  Spec => []IInv
  BY IInvInit, IInvStep, PTL DEF Spec

\* A row whose 204 the client has and whose frame the peer confirmed is in
\* the catalog or on a disk that is left, whichever one machine is lost
\* (replicate, recover_from_replica), with any number of ingesters.
THEOREM PairsSurvive ==
    ASSUME ~TickInRecovery
    PROVE  Spec => []PairDurable
  <1>1. IInv => PairDurable
    <2>. SUFFICES ASSUME IInv, NEW r \in acked \cap paired, r \notin Committed
                  PROVE  \E n \in Ingester : r \in wal[n] \cup replica[n]
      BY DEF PairDurable
    <2>1. ~Written(r)
      BY WrittenIs DEF IInv
    <2>2. PICK n \in Ingester : /\ n \in gone \/ r \in wal[n]
                                /\ Peer[n] \in gone \/ r \in replica[Peer[n]]
      BY <2>1 DEF IInv, Twice
    <2>3. Peer[n] \in Ingester /\ ~(n \in gone /\ Peer[n] \in gone)
      BY ClusterAssumption DEF IInv, NodeTypes
    <2>. QED  BY <2>2, <2>3
  <1>. QED  BY <1>1, Inductive, PTL

\* A row whose 204 the client has survives every crash of processes, also
\* when its ingester ran degraded: its log gives it up only to the catalog.
THEOREM AloneSurvives ==
    ASSUME ~TickInRecovery
    PROVE  Spec => []AloneDurable
  <1>1. IInv => AloneDurable
    <2>. SUFFICES ASSUME IInv, gone = {}, NEW r \in acked
                  PROVE  r \in Committed \/ \E n \in Ingester : r \in wal[n]
      BY DEF AloneDurable
    <2>1. PICK n \in Ingester : At(n, r)
      BY DEF IInv, Stored, RouterTypes
    <2>2. Kept(n, r) => r \in Committed
      BY KeptWritten, WrittenIs DEF IInv
    <2>. QED  BY <2>1, <2>2 DEF At
  <1>. QED  BY <1>1, Inductive, PTL

\* An answer holds every row of its table that was acknowledged before the
\* query began, whatever is flushed, recovered, crashed and restarted while
\* it asks the ingesters one by one (sql_batches, snapshot).
THEOREM NoAnswerMisses ==
    ASSUME ~TickInRecovery, ~DropsDead
    PROVE  Spec => []AnswersComplete
  <1>1. IInv => AnswersComplete
    BY DEF IInv, Reads, Covered
  <1>. QED  BY <1>1, Inductive, PTL
=============================================================================
