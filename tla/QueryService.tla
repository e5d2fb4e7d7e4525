---------------------------- MODULE QueryService ----------------------------
(***************************************************************************)
(* The life of a query on one node: the per-client cap of either front     *)
(* door (HTTP and Flight SQL), the admission semaphore, planning under the *)
(* read-only guard, the threads of load_pruned that share out the files of *)
(* a scan, the deadline, the single accounting point, and the bounded      *)
(* queue of self-monitoring rows behind it.                                *)
(*                                                                         *)
(* What a scan makes of one file is in TableData, where a query's files    *)
(* and buffers come from in Engine and Cluster: here a file is a number of *)
(* rows, and a query is known by what goes wrong with it.                  *)
(***************************************************************************)
EXTENDS Integers, Sequences, SequencesExt, FiniteSets, FiniteSetsExt

CONSTANTS
    Request,      \* the queries
    Worker,       \* scan_threads(files)
    Casts,        \* what each request is: choices of [Request -> plan], a
                  \* plan being [door, client, fault, files]
    Nobody,       \* the client key of a caller the transport cannot name
    Cap,          \* ClientLimiter::cap; 0 turns it off
    Permits,      \* QueryEnv::admission
    MaxRows,      \* max_result_rows
    Capacity,     \* of SelfMonitor::pending
    TickFails,    \* whether the write of a self-monitoring sample may fail
    MaxFaults     \* bound: files that fail to load, deadlines, hang-ups
                  \* and ticks, together

VARIABLES
    plan,      \* the requests of this behaviour
    at,        \* where each request is
    told,      \* what each caller was told, "" before
    answer,    \* the rows of the answer, each named by its file
    recorded,  \* the outcomes QueryMetrics::record has counted, in order
    active,    \* ClientLimiter::active
    free,      \* permits left in the semaphore
    queue,     \* those waiting for one, first come first served
    load,      \* load_pruned of each request: next, at, slots, failed
    mon,       \* SelfMonitor: offered, pending, dropped, written
    faults

vars == <<plan, at, told, answer, recorded, active, free, queue, load, mon, faults>>

NoLoad == [next |-> 1, at |-> [w \in Worker |-> -1], slots |-> <<>>, failed |-> FALSE]

Init ==
    /\ plan \in Casts
    /\ at = [r \in Request |-> "new"]
    /\ told = [r \in Request |-> ""]
    /\ answer = [r \in Request |-> <<>>]
    /\ recorded = <<>>
    /\ active = <<>>
    /\ free = Permits
    /\ queue = <<>>
    /\ load = [r \in Request |-> NoLoad]
    /\ mon = [offered |-> 0, pending |-> 0, dropped |-> 0, written |-> 0]
    /\ faults = 0

Fault == faults < MaxFaults /\ faults' = faults + 1

-----------------------------------------------------------------------------
(* ClientLimiter: a guard is held from admit to the end of the request, and *)
(* its drop gives the slot back, removing the entry of an idle client.      *)

Capped(k) == Cap # 0 /\ k # Nobody
Count(k) == IF k \in DOMAIN active THEN active[k] ELSE 0

with_count(k, n) ==
    [c \in {c \in DOMAIN active \cup {k} : c # k \/ n > 0} |-> IF c = k THEN n ELSE active[c]]

at_cap_off_by_one(k) == Capped(k) /\ Count(k) > Cap
at_cap(k) == Capped(k) /\ Count(k) >= Cap

guard_taken(k) == IF Capped(k) THEN with_count(k, Count(k) + 1) ELSE active
guard_dropped(k) ==
    IF Capped(k) /\ k \in DOMAIN active THEN with_count(k, Count(k) - 1) ELSE active

-----------------------------------------------------------------------------
(* The ends of a request.                                                  *)

Holding(r) == at[r] \in {"running", "loading"}

\* Everything a request holds is released when its future is dropped, by a
\* return or by the caller hanging up: the permit, its place in the queue
\* and the guard.
Release(r) ==
    /\ at' = [at EXCEPT ![r] = "done"]
    /\ active' = IF at[r] = "new" THEN active ELSE guard_dropped(plan[r].client)
    /\ free' = IF Holding(r) THEN free + 1 ELSE free
    /\ queue' = SelectSeq(queue, LAMBDA q : q # r)

Tell(r, what) == told' = [told EXCEPT ![r] = what]

\* An answer given before the query was admitted: nothing is recorded.
Reply(r, what) ==
    /\ Release(r)
    /\ Tell(r, what)
    /\ UNCHANGED <<plan, answer, recorded, load, mon, faults>>

\* enqueue: a full queue drops the row and counts it.
enqueue(m) ==
    IF m.pending >= Capacity
    THEN [m EXCEPT !.offered = @ + 1, !.dropped = @ + 1]
    ELSE [m EXCEPT !.offered = @ + 1, !.pending = @ + 1]

\* finish, the one place where a query becomes a number: the metrics, then
\* the observer, which queues a self-monitoring row.
finish(r, outcome) ==
    /\ recorded' = Append(recorded, <<r, outcome>>)
    /\ mon' = enqueue(mon)
    /\ Tell(r, outcome)
    /\ Release(r)

-----------------------------------------------------------------------------
(* Up to the permit.  rate_limit_sql runs before the HTTP handler and so   *)
(* before authentication; do_get_statement authenticates first.            *)

admit(r) ==
    /\ at[r] = "new"
    /\ plan[r].door = "flight" => plan[r].fault # "denied"
    /\ IF at_cap(plan[r].client)
       THEN Reply(r, "too many")
       ELSE /\ active' = guard_taken(plan[r].client)
            /\ at' = [at EXCEPT ![r] = "open"]
            /\ UNCHANGED <<plan, told, answer, recorded, free, queue, load, mon, faults>>

authenticate(r) ==
    /\ plan[r].fault = "denied"
    /\ at[r] = IF plan[r].door = "http" THEN "open" ELSE "new"
    /\ Reply(r, "denied")

\* sql_batches up to run_sql_env, which queues for admission.
sql_batches(r) ==
    /\ at[r] = "open" /\ plan[r].fault # "denied"
    /\ IF plan[r].fault = "missing"
       THEN Reply(r, "no database")
       ELSE /\ at' = [at EXCEPT ![r] = "queued"]
            /\ queue' = Append(queue, r)
            /\ UNCHANGED <<plan, told, answer, recorded, active, free, load, mon, faults>>

acquire(r) ==
    /\ queue # <<>> /\ Head(queue) = r
    /\ free > 0
    /\ free' = free - 1
    /\ queue' = Tail(queue)
    /\ at' = [at EXCEPT ![r] = "running"]
    /\ UNCHANGED <<plan, told, answer, recorded, active, load, mon, faults>>

-----------------------------------------------------------------------------
(* run_sql_env under its permit.                                           *)

\* register, plan, ensure_read_only; then the scan starts its threads.
run(r) ==
    /\ at[r] = "running"
    /\ CASE plan[r].fault = "plan" -> finish(r, "failed") /\ UNCHANGED load
         [] plan[r].fault = "effect" -> finish(r, "refused") /\ UNCHANGED load
         [] OTHER ->
              /\ at' = [at EXCEPT ![r] = "loading"]
              /\ load' = [load EXCEPT ![r] =
                    [next |-> 1, at |-> [w \in Worker |-> 0], failed |-> FALSE,
                     slots |-> [i \in DOMAIN plan[r].files |-> <<>>]]]
              /\ UNCHANGED <<told, recorded, active, free, queue, mon>>
    /\ UNCHANGED <<plan, answer, faults>>

\* A thread's turn round its loop: stop at a failure or when the files are
\* used up, and take the next file.
Claim(r, w) ==
    LET l == load[r] IN
    /\ l.at[w] = 0
    /\ load' = [load EXCEPT ![r] =
          IF l.failed THEN [l EXCEPT !.at[w] = -1]
          ELSE IF l.next > Len(plan[r].files)
               THEN [l EXCEPT !.at[w] = -1, !.next = @ + 1]
          ELSE [l EXCEPT !.at[w] = l.next, !.next = @ + 1]]
    /\ UNCHANGED <<plan, at, told, answer, recorded, active, free, queue, mon, faults>>

\* load_one_file: the rows go to the file's own slot; a file without any is
\* passed over.
Loaded(r, w) ==
    LET i == load[r].at[w] IN
    /\ i > 0
    /\ load' = [load EXCEPT ![r].slots[i] = [j \in 1 .. plan[r].files[i] |-> i],
                            ![r].at[w] = 0]
    /\ UNCHANGED <<plan, at, told, answer, recorded, active, free, queue, mon, faults>>

\* A file that cannot be read, does not fit the memory pool, or comes up
\* after the deadline fails the scan and ends the thread.
LoadFails_skips(r, w) ==
    /\ load[r].at[w] > 0
    /\ Fault
    /\ load' = [load EXCEPT ![r].at[w] = 0]
    /\ UNCHANGED <<plan, at, told, answer, recorded, active, free, queue, mon>>

LoadFails(r, w) ==
    /\ load[r].at[w] > 0
    /\ Fault
    /\ load' = [load EXCEPT ![r].failed = TRUE, ![r].at[w] = -1]
    /\ UNCHANGED <<plan, at, told, answer, recorded, active, free, queue, mon>>

\* The scope joins its threads; the batches are taken in file order and
\* counted against the cap as they stream.
collected(r) == FlattenSeq(load[r].slots)

joined(r) ==
    /\ at[r] = "loading"
    /\ \A w \in Worker : load[r].at[w] = -1
    /\ IF load[r].failed
       THEN finish(r, "failed") /\ UNCHANGED answer
       ELSE IF Len(collected(r)) > MaxRows
       THEN finish(r, "refused") /\ UNCHANGED answer
       ELSE finish(r, "ok") /\ answer' = [answer EXCEPT ![r] = collected(r)]
    /\ UNCHANGED <<plan, load, faults>>

\* timeout(env.timeout, work): the query returns; the threads of a scan it
\* was waiting for go on by themselves.
timed_out(r) ==
    /\ Holding(r)
    /\ Fault
    /\ finish(r, "timeout")
    /\ UNCHANGED <<plan, answer, load>>

\* The caller goes away: the handler's future is dropped where it stands.
hang_up(r) ==
    /\ at[r] \in {"open", "queued"} \/ Holding(r)
    /\ Fault
    /\ Release(r)
    /\ UNCHANGED <<plan, told, answer, recorded, load, mon>>

\* selfmon_tick: sample the exposition, take all that is pending, write it.
\* Rows whose write fails are gone.
selfmon_tick ==
    LET m == enqueue(mon) IN
    /\ Fault
    /\ \E ok \in {TRUE} \cup (IF TickFails THEN {FALSE} ELSE {}) :
           mon' = [m EXCEPT !.pending = 0, !.written = IF ok THEN @ + m.pending ELSE @]
    /\ UNCHANGED <<plan, at, told, answer, recorded, active, free, queue, load>>

Next ==
    \/ selfmon_tick
    \/ \E r \in Request :
          \/ admit(r) \/ authenticate(r) \/ sql_batches(r) \/ acquire(r) \/ run(r)
          \/ joined(r) \/ timed_out(r) \/ hang_up(r)
          \/ \E w \in Worker : Claim(r, w) \/ Loaded(r, w) \/ LoadFails(r, w)

Spec == Init /\ [][Next]_vars

-----------------------------------------------------------------------------
Outcomes == {"ok", "failed", "refused", "timeout"}
Whole(r) == FlattenSeq([i \in DOMAIN plan[r].files |-> [j \in 1 .. plan[r].files[i] |-> i]])
Times(r) == Cardinality({i \in DOMAIN recorded : recorded[i][1] = r})

\* A partial answer is never returned as a whole one: a caller told "ok" got
\* the rows of every file, each once and in file order, however the threads
\* shared them out and whatever failed, and no more rows than the cap.  What
\* a caller was told by the query path is what was recorded, once, and every
\* self-monitoring row is stored, pending or counted as dropped.
AnswersWhole ==
    /\ \A r \in Request : told[r] = "ok" => answer[r] = Whole(r) /\ Len(answer[r]) <= MaxRows
    /\ \A r \in Request : Times(r) = IF told[r] \in Outcomes THEN 1 ELSE 0
    /\ \A i \in DOMAIN recorded : told[recorded[i][1]] = recorded[i][2]
    /\ mon.offered = mon.pending + mon.dropped + mon.written

InFlight == {r \in Request : at[r] \notin {"new", "done"}}
Clients == {plan[r].client : r \in InFlight}

\* The cap is "below the global budget so at least one permit is always
\* reachable by another client" (ratelimit.rs): while only one named client
\* has queries in flight it leaves a permit free and nobody waits for one.
\* No slot, permit or place in the queue is ever leaked or given back twice,
\* whichever way a query ends.
PermitsReachable ==
    /\ Cap > 0 /\ Cap < Permits =>
          \A k \in Clients \ {Nobody} : Clients = {k} =>
              free - Len(queue) >= Permits - Cap
    /\ free = Permits - Cardinality({r \in Request : Holding(r)})
    /\ \A k \in DOMAIN active : active[k] \in 1 .. Cap
    /\ InFlight = {} => active = <<>> /\ queue = <<>> /\ free = Permits
=============================================================================
