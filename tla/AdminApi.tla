------------------------------ MODULE AdminApi ------------------------------
(***************************************************************************)
(* The admin surface of the nodes of a cluster (crates/api, the admin      *)
(* operations of crates/server, crates/auth): a request is checked and     *)
(* gated, changes a document in memory and in the store the nodes share,   *)
(* is recorded in the audit trail of module Audit and answered.  Several   *)
(* requests run at once, on one node or two; the maintenance tick reloads  *)
(* tokens and rollups; a node may restart anywhere.                        *)
(*                                                                         *)
(* A document is a function from its keys to values, None for an absent    *)
(* key.  What a request asks for is in its plan.  Time is not modelled: a  *)
(* session may expire and a login may still be backed off at any moment.   *)
(***************************************************************************)
EXTENDS Audit, Settings

CONSTANTS
    Node,
    Req,            \* admin requests, each sent once
    Plans,          \* what the requests of a behaviour ask for
    Stored,         \* the documents in the store at the start
    Opened,         \* the sessions open at the start, of any node
    RoleOf,         \* user -> role
    MinRole,        \* setting -> the role that may change it
    FailOpen,       \* TIMELAKE_AUDIT_FAIL_OPEN
    AuditFaults,    \* the ways an append to the trail may fail
    FreeAttempts,   \* failed logins before the backoff
    MaxEvents       \* bound: faults, restarts, expiries and idle reloads

ASSUME AdminAssumption ==
    /\ \A p \in Plans : DOMAIN p = Req /\ \A r \in Req : p[r].node \in Node
    /\ FailOpen \in BOOLEAN
    /\ AuditFaults \subseteq {"refused", "torn", "unsynced", "reopen"}
    /\ {FreeAttempts, MaxEvents} \subseteq Nat

VARIABLES
    plan,       \* the requests of this behaviour
    req,        \* how far each request is
    mem,        \* each node's copy of the documents
    store,      \* the documents in the object store
    cfg,        \* the running configuration (ArcSwap)
    sessions, failures,     \* Auth::sessions and Auth::failures
    loaded,     \* Auth::tokens_loaded_hash
    tick,       \* the bytes a reload has read and not applied yet
    audit,      \* each node's audit sink
    up,
    botched,    \* documents a put has failed for
    events

docs == <<mem, store, cfg, loaded, botched>>
who == <<sessions, failures>>
vars == <<plan, req, mem, store, cfg, sessions, failures, loaded, tick, audit, up,
          botched, events>>

Event == events < MaxEvents /\ events' = events + 1
NoEvent == UNCHANGED events

Rank == [viewer |-> 0, operator |-> 1, admin |-> 2]
allows(role, needed) == Rank[role] >= Rank[needed]

node(r) == plan[r].node
key(r) == plan[r].key
val(r) == plan[r].val
At(r, op, stage) == up[node(r)] /\ plan[r].op = op /\ req[r].stage = stage
doc(r, d) == mem[node(r)][d]
changed(r, d, v) == [doc(r, d) EXCEPT ![key(r)] = v]

Fresh == [stage |-> "start", result |-> "none", copy |-> None, status |-> 0]
Answer(r, status) == req' = [req EXCEPT ![r].stage = "done", ![r].status = status]
Move(r, stage) == req' = [req EXCEPT ![r].stage = stage]
Result(r, result) == req' = [req EXCEPT ![r].stage = "record", ![r].result = result]

Init ==
    /\ plan \in Plans
    /\ req = [r \in Req |-> Fresh]
    /\ mem = [n \in Node |-> Stored]
    /\ store = Stored
    /\ cfg = [n \in Node |-> materialize(Stored["settings"])]
    /\ sessions = [n \in Node |-> Opened]
    /\ failures = [n \in Node |-> [u \in DOMAIN RoleOf |-> 0]]
    /\ loaded = [n \in Node |-> Stored["tokens"]]
    /\ tick = [n \in Node |-> None]
    /\ audit = [n \in Node |-> append(NewSink, <<"start", "ok">>, "ok", FALSE)]
    /\ up = [n \in Node |-> TRUE]
    /\ botched = {}
    /\ events = 0
-----------------------------------------------------------------------------
(***************************************************************************)
(* Admission: session, token, forced rotation, role, arguments, gate.      *)
(***************************************************************************)
\* Auth::session; an expired one is forgotten on the way.
session(r) == {s \in sessions[node(r)] : s.id = plan[r].session}

\* admin_guard.  The seeded credential can change its password, see its
\* session and end it.  Every operation here but audit_list mutates.
MayRotate == {"change_password", "session_logout"}
admin_guard(r) ==
    IF session(r) = {} THEN 401
    ELSE LET s == CHOOSE s \in session(r) : TRUE
         IN  IF plan[r].op # "audit_list" /\ ~plan[r].token THEN 403
             ELSE IF s.must /\ plan[r].op \notin MayRotate THEN 403
             ELSE 200

\* require: the session's role must allow the operation.
require(r, needed) == \A s \in session(r) : allows(s.role, needed)

\* audit_gate.
audit_gate(r) == gate(audit[node(r)], FailOpen)

\* The checks of a handler up to its mutation, and the answer of the first
\* that fails.
Admission(r, needed, valid) ==
    IF admin_guard(r) # 200 THEN admin_guard(r)
    ELSE IF ~require(r, needed) THEN 403
    ELSE IF ~valid THEN 400
    ELSE IF ~audit_gate(r) THEN 503
    ELSE 200

Enter(r, op, needed, valid) ==
    /\ At(r, op, "start")
    /\ LET status == Admission(r, needed, valid)
       IN  IF status = 200 THEN Move(r, "apply") ELSE Answer(r, status)
    /\ NoEvent
    /\ UNCHANGED <<plan, docs, who, tick, audit, up>>

\* The session has been idle, or open, for too long.
Expire(r) ==
    /\ up[node(r)] /\ req[r].stage = "start" /\ session(r) # {}
    /\ Event
    /\ sessions' = [sessions EXCEPT ![node(r)] = @ \ session(r)]
    /\ Answer(r, 401)
    /\ UNCHANGED <<plan, docs, failures, tick, audit, up>>

\* retention_set: shortening a policy, introducing one and widening its
\* scope to every database destroy data, and need the higher role.
destructive(r) ==
    LET policies == doc(r, "retention")
        current == policies[key(r)]
    IN  \/ current = None
        \/ current # None /\ val(r) < current

retention_set(r) ==
    Enter(r, "retention_set", IF destructive(r) THEN "admin" ELSE "operator", val(r) > 0)

retention_delete(r) == Enter(r, "retention_delete", "admin", TRUE)
last_cache_set(r) == Enter(r, "last_cache_set", "operator", TRUE)
last_cache_delete(r) == Enter(r, "last_cache_delete", "operator", TRUE)
tables_create(r) == Enter(r, "tables_create", "admin", TRUE)
tables_drop(r) == Enter(r, "tables_drop", "admin", TRUE)
rollups_set(r) == Enter(r, "rollups_set", "admin", val(r) > 0)
rollups_delete(r) == Enter(r, "rollups_delete", "admin", TRUE)
admin_delete(r) == Enter(r, "admin_delete", "admin", TRUE)
tokens_issue(r) == Enter(r, "tokens_issue", "admin", TRUE)
tokens_revoke(r) == Enter(r, "tokens_revoke", "admin", TRUE)
cert_grants_set(r) == Enter(r, "cert_grants_set", "admin", TRUE)
cert_grants_remove(r) == Enter(r, "cert_grants_remove", "admin", TRUE)
change_password(r) == Enter(r, "change_password", "viewer", TRUE)
config_set(r) == Enter(r, "config_set", MinRole[key(r)], TRUE)
config_delete(r) == Enter(r, "config_delete", MinRole[key(r)], TRUE)

\* config_set with dry_run: validated on a copy, neither gated nor recorded.
config_dry_run(r) ==
    /\ At(r, "config_dry_run", "start")
    /\ Answer(r, IF admin_guard(r) # 200 THEN admin_guard(r)
                 ELSE IF ~require(r, MinRole[key(r)]) THEN 403
                 ELSE IF set_accepts(doc(r, "settings"), key(r), val(r)) THEN 200
                 ELSE 409)
    /\ NoEvent
    /\ UNCHANGED <<plan, docs, who, tick, audit, up>>

(***************************************************************************)
(* Mutation.  Retention, rollups and settings change in memory and in the  *)
(* store under one lock; the other documents change in memory first and    *)
(* are put afterwards.  A put that fails leaves the change in memory.      *)
(***************************************************************************)
Remember(r, d, new) == mem' = [mem EXCEPT ![node(r)][d] = new]
PutDoc(d, new) == store' = [store EXCEPT ![d] = new]

PutOk(r, d, new) ==
    /\ PutDoc(d, new)
    /\ Result(r, "ok")
    /\ NoEvent
    /\ UNCHANGED botched

PutFails(r, d) ==
    /\ Event
    /\ botched' = botched \cup {d}
    /\ Result(r, "error")
    /\ UNCHANGED store

LockedChange_puts_first(r, d, new) ==
    /\ Remember(r, d, new)
    /\ PutOk(r, d, doc(r, d)) \/ PutFails(r, d)
    /\ UNCHANGED <<plan, who, loaded, tick, audit, up>>

LockedChange(r, d, new) ==
    /\ Remember(r, d, new)
    /\ PutOk(r, d, new) \/ PutFails(r, d)
    /\ UNCHANGED <<plan, who, loaded, tick, audit, up>>

set_retention(r) ==
    /\ At(r, "retention_set", "apply")
    /\ LockedChange(r, "retention", changed(r, "retention", val(r)))
    /\ UNCHANGED cfg

remove_retention(r) ==
    /\ At(r, "retention_delete", "apply")
    /\ LockedChange(r, "retention", changed(r, "retention", None))
    /\ UNCHANGED cfg

\* The source must be kept for longer than the lookback, by its own policy
\* or else by the one for every database.
Outlasts(r) ==
    LET policies == doc(r, "retention")
        secs == IF policies["db.t"] # None THEN policies["db.t"] ELSE policies["*.t"]
    IN  secs = None \/ secs > val(r)

set_rollup(r) ==
    /\ At(r, "rollups_set", "apply") /\ Outlasts(r)
    /\ LockedChange(r, "rollups", changed(r, "rollups", val(r)))
    /\ UNCHANGED cfg

\* The outcome of an operation that changes nothing and is recorded.
Refused(r, op, result) ==
    /\ At(r, op, "apply")
    /\ Result(r, result)
    /\ NoEvent
    /\ UNCHANGED <<plan, docs, who, tick, audit, up>>

refuse_rollup(r) == Refused(r, "rollups_set", "denied") /\ ~Outlasts(r)

remove_rollup(r) ==
    /\ At(r, "rollups_delete", "apply")
    /\ LockedChange(r, "rollups", changed(r, "rollups", None))
    /\ UNCHANGED cfg

\* set_config and revert_config: only after the put is the running
\* configuration replaced.
Rematerialize(r) ==
    cfg' = IF req'[r].result = "ok"
           THEN [cfg EXCEPT ![node(r)] = materialize(mem'[node(r)]["settings"])]
           ELSE cfg

set_config(r) ==
    /\ At(r, "config_set", "apply")
    /\ set_accepts(doc(r, "settings"), key(r), val(r))
    /\ LockedChange(r, "settings", proposed(doc(r, "settings"), key(r), val(r)))
    /\ Rematerialize(r)

reject_config(r) ==
    /\ Refused(r, "config_set", "rejected")
    /\ ~set_accepts(doc(r, "settings"), key(r), val(r))

revert_config(r) ==
    /\ At(r, "config_delete", "apply")
    /\ revert_accepts(doc(r, "settings"), key(r))
    /\ doc(r, "settings")[key(r)] # None
    /\ LockedChange(r, "settings", reverted(doc(r, "settings"), key(r)))
    /\ Rematerialize(r)

\* Nothing to revert: answered, and recorded, as a success.
revert_nothing(r) ==
    /\ Refused(r, "config_delete", "ok")
    /\ revert_accepts(doc(r, "settings"), key(r))
    /\ doc(r, "settings")[key(r)] = None

revert_pinned(r) ==
    /\ Refused(r, "config_delete", "rejected")
    /\ ~revert_accepts(doc(r, "settings"), key(r))

\* Changes that are put in a later step.
LooseChange(r, d, new) ==
    /\ Remember(r, d, new)
    /\ Move(r, "persist")
    /\ NoEvent
    /\ UNCHANGED <<plan, store, cfg, loaded, botched, who, tick, audit, up>>

issue_token(r) ==
    /\ At(r, "tokens_issue", "apply")
    /\ LooseChange(r, "tokens", changed(r, "tokens", "live"))

\* revoke_token marks the record; one that is absent or revoked is a 404.
revoke_token(r) ==
    /\ At(r, "tokens_revoke", "apply") /\ doc(r, "tokens")[key(r)] = "live"
    /\ LooseChange(r, "tokens", changed(r, "tokens", "revoked"))

revoke_nothing(r) ==
    /\ Refused(r, "tokens_revoke", "noop")
    /\ doc(r, "tokens")[key(r)] # "live"

set_cert_grants(r) ==
    /\ At(r, "cert_grants_set", "apply")
    /\ LooseChange(r, "cert_grants", changed(r, "cert_grants", val(r)))

remove_cert_grants(r) ==
    /\ At(r, "cert_grants_remove", "apply") /\ doc(r, "cert_grants")[key(r)] # None
    /\ LooseChange(r, "cert_grants", changed(r, "cert_grants", None))

remove_no_grants(r) ==
    /\ Refused(r, "cert_grants_remove", "noop")
    /\ doc(r, "cert_grants")[key(r)] = None

\* Auth::change_password: the current one is required, the new one differs.
PasswordFits(r) ==
    /\ doc(r, "principals")[key(r)].pw = plan[r].old
    /\ val(r) # plan[r].old

rotate_password(r) ==
    /\ At(r, "change_password", "apply") /\ PasswordFits(r)
    /\ LooseChange(r, "principals",
                   changed(r, "principals", [pw |-> val(r), must |-> FALSE]))

refuse_password(r) == Refused(r, "change_password", "denied") /\ ~PasswordFits(r)

enable_last_cache(r) ==
    /\ At(r, "last_cache_set", "apply")
    /\ LooseChange(r, "last_cache", changed(r, "last_cache", "on"))

disable_last_cache(r) ==
    /\ At(r, "last_cache_delete", "apply")
    /\ LooseChange(r, "last_cache", changed(r, "last_cache", None))

\* persist_tokens, persist_cert_grants, Auth::persist: the memory of this
\* moment is put, under a lock that keeps writers out.  A password that is
\* stored ends the sessions of its user.
DocPut == [tokens_issue |-> "tokens", tokens_revoke |-> "tokens",
           cert_grants_set |-> "cert_grants", cert_grants_remove |-> "cert_grants",
           change_password |-> "principals"]

persist(r) ==
    /\ up[node(r)] /\ plan[r].op \in DOMAIN DocPut /\ req[r].stage = "persist"
    /\ LET d == DocPut[plan[r].op]
       IN  \/ /\ PutOk(r, d, doc(r, d))
              /\ loaded' = IF d = "tokens" THEN [loaded EXCEPT ![node(r)] = doc(r, d)]
                           ELSE loaded
              /\ sessions' = IF d = "principals"
                             THEN [sessions EXCEPT ![node(r)] =
                                      {s \in @ : s.user # key(r)}]
                             ELSE sessions
           \/ /\ PutFails(r, d)
              /\ UNCHANGED <<loaded, sessions>>
    /\ UNCHANGED <<plan, mem, cfg, failures, tick, audit, up>>

\* persist_last_cache copies the enabled tables and puts the copy, with no
\* lock in between.
CachePut == {"last_cache_set", "last_cache_delete", "tables_drop"}
copy_last_cache(r) ==
    /\ up[node(r)] /\ plan[r].op \in CachePut /\ req[r].stage = "persist"
    /\ req' = [req EXCEPT ![r].stage = "put", ![r].copy = doc(r, "last_cache")]
    /\ NoEvent
    /\ UNCHANGED <<plan, docs, who, tick, audit, up>>

\* drop_table lets the failure of this put go.
put_last_cache(r) ==
    /\ up[node(r)] /\ req[r].stage = "put"
    /\ \/ PutOk(r, "last_cache", req[r].copy)
       \/ /\ PutFails(r, "last_cache") /\ plan[r].op # "tables_drop"
       \/ /\ plan[r].op = "tables_drop"
          /\ Event
          /\ botched' = botched \cup {"last_cache"}
          /\ Result(r, "ok")
          /\ UNCHANGED store
    /\ UNCHANGED <<plan, mem, cfg, who, loaded, tick, audit, up>>

\* create_table, drop_table and delete_where commit to the catalog first (see
\* modules Catalog and Engine); a commit that fails changes nothing here.
CatalogChange(r, k, v, stage) ==
    /\ \/ /\ store' = [store EXCEPT !["catalog"][k] = v]
          /\ req' = [req EXCEPT ![r].stage = stage, ![r].result = "ok"]
          /\ NoEvent
       \/ /\ Event
          /\ Result(r, "error")
          /\ UNCHANGED store
    /\ UNCHANGED <<plan, mem, cfg, loaded, botched, who, tick, audit, up>>

exists(r) == store["catalog"][key(r)] # None

create_table(r) ==
    /\ At(r, "tables_create", "apply") /\ ~exists(r)
    /\ CatalogChange(r, key(r), "declared", "record")

drop_table(r) ==
    /\ At(r, "tables_drop", "apply") /\ exists(r)
    /\ CatalogChange(r, key(r), None,
                     IF doc(r, "last_cache")[key(r)] = None THEN "record" ELSE "uncache")

\* A last-value cache the table had opted into goes with it.
drop_last_cache(r) ==
    /\ At(r, "tables_drop", "uncache")
    /\ LooseChange(r, "last_cache", changed(r, "last_cache", None))

delete_where(r) ==
    /\ At(r, "admin_delete", "apply") /\ exists(r)
    /\ CatalogChange(r, "tombstone", val(r), "record")

refuse_table(r) ==
    \/ Refused(r, "tables_create", "error") /\ exists(r)
    \/ Refused(r, "tables_drop", "error") /\ ~exists(r)
    \/ Refused(r, "admin_delete", "denied") /\ ~exists(r)
-----------------------------------------------------------------------------
(***************************************************************************)
(* Recording and answering.                                                *)
(***************************************************************************)
\* One append to the node's trail, which may fail in the ways allowed.
Appended(n, payload, fault) ==
    /\ IF fault = "ok" THEN NoEvent ELSE Event
    /\ audit' = [audit EXCEPT ![n] = append(audit[n], payload, fault, FALSE)]

\* audit_record: a change whose record cannot be written is answered 503,
\* though it has happened; a refusal is answered whatever its record does.
audit_record_lenient(r) ==
    /\ up[node(r)] /\ req[r].stage = "record"
    /\ \E fault \in AuditFaults \cup {"ok"} :
           Appended(node(r), <<r, req[r].result>>, fault)
    /\ Answer(r, IF req[r].result = "ok" THEN 200 ELSE 400)
    /\ UNCHANGED <<plan, docs, who, tick, up>>

Silent(r) ==
    \/ req[r].result = "noop"
    \/ plan[r].op = "config_delete" /\ req[r].result # "ok"

audit_record(r) ==
    /\ up[node(r)] /\ req[r].stage = "record" /\ ~Silent(r)
    /\ \E fault \in AuditFaults \cup {"ok"} :
           Appended(node(r), <<r, req[r].result>>, fault)
    /\ Answer(r, IF req[r].result # "ok" THEN 400
                 ELSE IF recorded(audit'[node(r)]) \/ FailOpen THEN 200 ELSE 503)
    /\ UNCHANGED <<plan, docs, who, tick, up>>

\* The failures that leave no record.
reply_unrecorded(r) ==
    /\ up[node(r)] /\ req[r].stage = "record" /\ Silent(r)
    /\ Answer(r, 404)
    /\ NoEvent
    /\ UNCHANGED <<plan, docs, who, tick, audit, up>>

\* record_best_effort: appended or not, the request is answered the same.
BestEffort(r, result, status) ==
    /\ \E fault \in AuditFaults \cup {"ok"} : Appended(node(r), <<r, result>>, fault)
    /\ Answer(r, status)

\* audit_list: a trail that does not parse is a 500; a read is recorded.
audit_list(r) ==
    /\ At(r, "audit_list", "start")
    /\ IF admin_guard(r) # 200
       THEN Answer(r, admin_guard(r)) /\ NoEvent /\ UNCHANGED audit
       ELSE IF ~readable(audit[node(r)].files)
            THEN Answer(r, 500) /\ NoEvent /\ UNCHANGED audit
            ELSE BestEffort(r, "read", 200)
    /\ UNCHANGED <<plan, docs, who, tick, up>>

(***************************************************************************)
(* Sessions.                                                               *)
(***************************************************************************)
\* login, first half: the backoff, and the password of a copy of the
\* principal.
Matches(r) == doc(r, "principals")[key(r)].pw = plan[r].old

login_limited(r) ==
    /\ At(r, "session_login", "start")
    /\ failures[node(r)][key(r)] > FreeAttempts
    /\ BestEffort(r, "limited", 429)
    /\ UNCHANGED <<plan, docs, who, tick, up>>

login_denied(r) ==
    /\ At(r, "session_login", "start") /\ ~Matches(r)
    /\ failures' = [failures EXCEPT ![node(r)][key(r)] = @ + 1]
    /\ BestEffort(r, "denied", 401)
    /\ UNCHANGED <<plan, docs, sessions, tick, up>>

login_verified(r) ==
    /\ At(r, "session_login", "start") /\ Matches(r)
    /\ req' = [req EXCEPT ![r].stage = "login", ![r].copy = doc(r, "principals")[key(r)]]
    /\ NoEvent
    /\ UNCHANGED <<plan, docs, who, tick, audit, up>>

\* login, second half: a session with what the copy says; the time of the
\* login is stored with the principals, and a failure to do so ignored.
session_login(r) ==
    /\ At(r, "session_login", "login")
    /\ sessions' = [sessions EXCEPT ![node(r)] = @ \cup
          {[id |-> plan[r].session, user |-> key(r), role |-> RoleOf[key(r)],
            must |-> req[r].copy.must]}]
    /\ failures' = [failures EXCEPT ![node(r)][key(r)] = 0]
    /\ BestEffort(r, "ok", 200)
    /\ store' \in {store, [store EXCEPT !["principals"] = doc(r, "principals")]}
    /\ UNCHANGED <<plan, mem, cfg, loaded, botched, tick, up>>

session_logout(r) ==
    /\ At(r, "session_logout", "start")
    /\ IF admin_guard(r) # 200
       THEN Answer(r, admin_guard(r)) /\ NoEvent /\ UNCHANGED <<audit, sessions>>
       ELSE /\ sessions' = [sessions EXCEPT ![node(r)] = @ \ session(r)]
            /\ BestEffort(r, "ok", 200)
    /\ UNCHANGED <<plan, docs, failures, tick, up>>

(***************************************************************************)
(* The tick: reload_tokens and reload_rollups read the document, and swap  *)
(* it in later.  A reload of tokens does nothing when the bytes are those  *)
(* it loaded or stored last.                                               *)
(***************************************************************************)
Reloaded == {"tokens", "rollups"}

\* A read with nothing new in it is counted, a read of news is not.
News(n, d) == store[d] # (IF d = "tokens" THEN loaded[n] ELSE mem[n][d])
reload_read(n, d) ==
    /\ up[n] /\ tick[n] = None
    /\ IF News(n, d) THEN NoEvent ELSE Event
    /\ tick' = [tick EXCEPT ![n] = [doc |-> d, bytes |-> store[d]]]
    /\ UNCHANGED <<plan, req, docs, who, audit, up>>

reload_marks(n) ==
    /\ up[n] /\ tick[n] # None
    /\ tick' = [tick EXCEPT ![n] = None]
    /\ LET d == tick[n].doc
           swap == d = "rollups"
       IN  /\ mem' = IF swap THEN [mem EXCEPT ![n][d] = tick[n].bytes] ELSE mem
           /\ loaded' = IF d = "tokens" THEN [loaded EXCEPT ![n] = tick[n].bytes]
                        ELSE loaded
    /\ NoEvent
    /\ UNCHANGED <<plan, req, store, cfg, botched, who, audit, up>>

reload_swap(n) ==
    /\ up[n] /\ tick[n] # None
    /\ tick' = [tick EXCEPT ![n] = None]
    /\ LET d == tick[n].doc
           swap == d = "rollups" \/ tick[n].bytes # loaded[n]
       IN  /\ mem' = IF swap THEN [mem EXCEPT ![n][d] = tick[n].bytes] ELSE mem
           /\ loaded' = IF d = "tokens" THEN [loaded EXCEPT ![n] = tick[n].bytes]
                        ELSE loaded
    /\ NoEvent
    /\ UNCHANGED <<plan, req, store, cfg, botched, who, audit, up>>

\* The oldest segments pass the retention's age.
AgeSegments(n) ==
    /\ RetainSegments /\ up[n]
    /\ Event
    /\ LET young == DOMAIN audit[n].files \ audit[n].old
       IN  /\ young # {}
           /\ audit' = [audit EXCEPT ![n].old = @ \cup {Min(young)}]
    /\ UNCHANGED <<plan, req, docs, who, tick, up>>

\* The process stops; requests under way are never answered.  open_with_stack
\* loads every document and the trail, and fails on a trail that does not
\* parse.
Restart(n) ==
    /\ up[n] /\ Event
    /\ req' = [r \in Req |-> IF node(r) = n /\ req[r].stage \notin {"start", "done"}
                             THEN [req[r] EXCEPT !.stage = "lost"] ELSE req[r]]
    /\ sessions' = [sessions EXCEPT ![n] = {}]
    /\ failures' = [failures EXCEPT ![n] = [u \in DOMAIN RoleOf |-> 0]]
    /\ tick' = [tick EXCEPT ![n] = None]
    /\ mem' = [mem EXCEPT ![n] = store]
    /\ cfg' = [cfg EXCEPT ![n] = materialize(store["settings"])]
    /\ loaded' = [loaded EXCEPT ![n] = store["tokens"]]
    /\ LET sink == audit[n]
       IN  IF readable(sink.files)
           THEN audit' = [audit EXCEPT ![n] = open_with(sink.files, sink.old)] /\ UNCHANGED up
           ELSE up' = [up EXCEPT ![n] = FALSE] /\ UNCHANGED audit
    /\ UNCHANGED <<plan, store, botched>>
-----------------------------------------------------------------------------
Check(r) ==
    \/ retention_set(r) \/ retention_delete(r) \/ last_cache_set(r)
    \/ last_cache_delete(r) \/ tables_create(r) \/ tables_drop(r) \/ rollups_set(r)
    \/ rollups_delete(r) \/ admin_delete(r) \/ tokens_issue(r) \/ tokens_revoke(r)
    \/ cert_grants_set(r) \/ cert_grants_remove(r) \/ change_password(r)
    \/ config_set(r) \/ config_delete(r) \/ config_dry_run(r)

Apply(r) ==
    \/ set_retention(r) \/ remove_retention(r) \/ set_rollup(r) \/ refuse_rollup(r)
    \/ remove_rollup(r) \/ set_config(r) \/ reject_config(r) \/ revert_config(r)
    \/ revert_nothing(r) \/ revert_pinned(r) \/ issue_token(r) \/ revoke_token(r)
    \/ revoke_nothing(r) \/ set_cert_grants(r) \/ remove_cert_grants(r)
    \/ remove_no_grants(r) \/ rotate_password(r) \/ refuse_password(r)
    \/ enable_last_cache(r) \/ disable_last_cache(r) \/ create_table(r)
    \/ drop_table(r) \/ drop_last_cache(r) \/ delete_where(r) \/ refuse_table(r)

Finish(r) ==
    \/ persist(r) \/ copy_last_cache(r) \/ put_last_cache(r)
    \/ audit_record(r) \/ reply_unrecorded(r)

Session(r) ==
    \/ login_limited(r) \/ login_denied(r) \/ login_verified(r) \/ session_login(r)
    \/ session_logout(r) \/ audit_list(r) \/ Expire(r)

Reload(n) == (\E d \in Reloaded : reload_read(n, d)) \/ reload_swap(n)

\* The nodes some request goes to; another one only reloads.
Serving == {node(r) : r \in Req}

Next ==
    \/ \E r \in Req : Check(r) \/ Apply(r) \/ Finish(r) \/ Session(r)
    \/ \E n \in Node : Reload(n)
    \/ \E n \in Serving : AgeSegments(n) \/ Restart(n)

Spec == Init /\ [][Next]_vars

\* A request under way goes on, and the tick comes round.
FairSpec ==
    /\ Spec
    /\ \A r \in Req : WF_vars(Apply(r) \/ Finish(r))
    /\ \A n \in Node : WF_vars(reload_swap(n)) /\ WF_vars(reload_read(n, "tokens"))
-----------------------------------------------------------------------------
Trail(n) == {audit[n].head[i][2] : i \in DOMAIN audit[n].head}
Times(n, payload) ==
    Cardinality({i \in DOMAIN audit[n].head : audit[n].head[i][2] = payload})
Done(r) == req[r].stage = "done"

\* While the trail fails closed, every change answered with a success is
\* recorded once on the node's chain, whatever failures and restarts came in
\* between; and what the chain calls a success has reached the store.
TrailIsTrue ==
    \A r \in Req :
        /\ Done(r) /\ req[r].status = 200 /\ req[r].result = "ok" /\ ~FailOpen
              => Times(node(r), <<r, "ok">>) = 1
        /\ <<r, "ok">> \in Trail(node(r)) /\ plan[r].op \notin {"session_login", "session_logout"}
              => req[r].result = "ok"

\* The trail on disk is one chain, over rotations, pruning, failed appends
\* and restarts; it ends where memory says, and each rotated segment ends
\* with the record it is named after; while its first record is there, it
\* passes the check of verify.
ChainHolds ==
    \A n \in Node : up[n] =>
        LET sink == audit[n]
            rs == read_all(sink.files)
        IN  /\ readable(sink.files) /\ linked(rs)
            /\ rs # <<>> /\ rs[1].seq = 1 => verify_records(rs)
            /\ rs # <<>> => sink.next = Last(rs).seq + 1 /\ sink.head = compute_hash(Last(rs))
            /\ \A s \in DOMAIN sink.files \ {Live} : Last(sink.files[s]).seq = s

\* A change answered with a success is what a restart finds, unless another
\* request was about the same key, another node wrote the document from its
\* own copy, or a put of it failed.
DocOf(op) ==
    CASE op \in {"retention_set", "retention_delete"} -> "retention"
      [] op \in {"rollups_set", "rollups_delete"} -> "rollups"
      [] op \in {"config_set", "config_delete"} -> "settings"
      [] op \in {"last_cache_set", "last_cache_delete"} -> "last_cache"
      [] op \in {"tokens_issue", "tokens_revoke"} -> "tokens"
      [] op \in {"cert_grants_set", "cert_grants_remove"} -> "cert_grants"
      [] OTHER -> "none"

Alone(r) ==
    \A q \in Req \ {r} : DocOf(plan[q].op) = DocOf(plan[r].op) =>
        key(q) # key(r) /\ node(q) = node(r)

Survives(d) ==
    \A r \in Req :
        /\ Done(r) /\ req[r].status = 200 /\ req[r].result = "ok"
        /\ DocOf(plan[r].op) = d /\ Alone(r) /\ d \notin botched
        => store[d][key(r)] = val(r)

PasswordSurvives ==
    \A r \in Req :
        /\ Done(r) /\ req[r].status = 200 /\ plan[r].op = "change_password"
        /\ \A q \in Req \ {r} : plan[q].op # "change_password"
        /\ "principals" \notin botched
        => store["principals"][key(r)] = [pw |-> val(r), must |-> FALSE]

SettingsSurvive ==
    /\ \A d \in {"settings", "retention", "cert_grants"} : Survives(d)
    /\ PasswordSurvives
    /\ \A n \in Node : up[n] /\ "settings" \notin botched
           => cfg[n] = materialize(mem[n]["settings"])

\* The documents the tick reloads, and the one that is put from a copy, can
\* lose a change answered with a success: this is not an invariant.
ReloadedSurvive == Survives("rollups") /\ Survives("tokens") /\ Survives("last_cache")

\* The running configuration keeps a replaced file for longer than a query
\* may run ("gc_grace_secs must exceed query_timeout_secs").
GraceExceedsTimeout ==
    \A n \in Node : cfg[n]["gc_grace_secs"] > cfg[n]["query_timeout_secs"]

\* A token issued or revoked on one node is, in the end, what every node
\* that runs holds, unless a put of the tokens failed.
TokensConverge ==
    <>[](\A n \in Node : up[n] /\ "tokens" \notin botched
                              => mem[n]["tokens"] = store["tokens"])
=============================================================================
