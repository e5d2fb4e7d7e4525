------------------------------- MODULE MCAdmin -------------------------------
(* Pairs of admin requests for TLC, on one node and on two. *)
EXTENDS AdminApi

CONSTANTS a, b, r1, r2

Ask(n, s, op, k, v) ==
    [node |-> n, session |-> s, op |-> op, key |-> k, val |-> v, old |-> "pw",
     token |-> TRUE]

MCBounds ==
    [gc_grace_secs |-> [min |-> 1, max |-> 9, opt |-> FALSE],
     query_timeout_secs |-> [min |-> 1, max |-> 9, opt |-> FALSE],
     l0_row_group_rows |-> [min |-> 1, max |-> 3, opt |-> TRUE],
     data_auth |-> [min |-> 1, max |-> 3, opt |-> FALSE]]
MCSetting == DOMAIN MCBounds
MCProperty ==
    [gc_grace_secs |-> 4, query_timeout_secs |-> 2, l0_row_group_rows |-> Unset,
     data_auth |-> 1]
MCMinRole ==
    [gc_grace_secs |-> "admin", query_timeout_secs |-> "operator",
     l0_row_group_rows |-> "operator", data_auth |-> "admin"]
MCPinned == {"data_auth"}

MCRoleOf == [root |-> "admin", oper |-> "operator", seed |-> "admin"]
MCOpened ==
    {[id |-> "s-root", user |-> "root", role |-> "admin", must |-> FALSE],
     [id |-> "s-oper", user |-> "oper", role |-> "operator", must |-> FALSE],
     [id |-> "s-seed", user |-> "seed", role |-> "admin", must |-> TRUE]}

MCStored ==
    [settings |-> [gc_grace_secs |-> 6, query_timeout_secs |-> None,
                   l0_row_group_rows |-> None, data_auth |-> None],
     retention |-> ("db.t" :> 3) @@ ("*.t" :> None),
     rollups |-> ("hourly" :> None) @@ ("daily" :> None),
     last_cache |-> ("t" :> "on") @@ ("u" :> None) @@ ("v" :> None),
     tokens |-> ("k1" :> "live") @@ ("k2" :> None) @@ ("k3" :> None),
     cert_grants |-> ("cn1" :> "all") @@ ("cn2" :> None),
     principals |-> [u \in DOMAIN MCRoleOf |-> [pw |-> "pw", must |-> u = "seed"]],
     catalog |-> ("t" :> "declared") @@ ("u" :> None) @@ ("tombstone" :> None)]

Root(op, k, v) == Ask(a, "s-root", op, k, v)
Oper(op, k, v) == Ask(a, "s-oper", op, k, v)
Seed(op, k, v) == Ask(a, "s-seed", op, k, v)
Peer(op, k, v) == Ask(b, "s-root", op, k, v)

MCPairs == {
    <<Oper("config_set", "query_timeout_secs", 3), Root("config_set", "gc_grace_secs", 5)>>,
    <<Oper("config_set", "query_timeout_secs", 5), Root("config_delete", "gc_grace_secs", None)>>,
    <<Oper("config_set", "l0_row_group_rows", Unset), Root("config_set", "gc_grace_secs", Unset)>>,
    <<Oper("config_dry_run", "query_timeout_secs", 7), Root("config_delete", "data_auth", None)>>,
    <<Oper("config_delete", "l0_row_group_rows", None), Root("config_set", "query_timeout_secs", 6)>>,
    <<Oper("retention_set", "db.t", 2), Root("retention_set", "*.t", 5)>>,
    <<Oper("retention_set", "db.t", 4), Root("retention_delete", "db.t", None)>>,
    <<Root("rollups_set", "hourly", 2), Root("retention_set", "db.t", 1)>>,
    <<Root("rollups_set", "hourly", 4), Root("rollups_delete", "daily", None)>>,
    <<Oper("last_cache_set", "u", "on"), Oper("last_cache_delete", "t", None)>>,
    <<Root("tables_create", "u", "declared"), Root("tables_drop", "u", None)>>,
    <<Root("tables_create", "u", "declared"), Root("tables_create", "u", "declared")>>,
    <<Root("tables_drop", "t", None), Root("admin_delete", "t", "where")>>,
    <<Root("tokens_issue", "k2", "live"), Root("tokens_revoke", "k1", "revoked")>>,
    <<Root("tokens_issue", "k2", "live"), Peer("tokens_revoke", "k1", "revoked")>>,
    <<Root("tokens_revoke", "k3", "revoked"), Peer("tokens_issue", "k3", "live")>>,
    <<Root("cert_grants_set", "cn2", "some"), Root("cert_grants_remove", "cn1", None)>>,
    <<Root("cert_grants_remove", "cn2", None), Root("audit_list", "t", None)>>,
    <<Seed("change_password", "seed", "new"), Seed("retention_delete", "db.t", None)>>,
    <<[Seed("change_password", "seed", "new") EXCEPT !.old = "no"],
      [Root("session_login", "root", None) EXCEPT !.old = "no", !.session = "s-1"]>>,
    <<Seed("change_password", "seed", "new"),
      [Root("session_login", "seed", None) EXCEPT !.session = "s-1"]>>,
    <<[Root("session_login", "root", None) EXCEPT !.old = "no", !.session = "s-1"],
      [Root("session_login", "root", None) EXCEPT !.session = "s-2"]>>,
    <<Root("session_logout", "root", None),
      [Root("retention_set", "*.t", 4) EXCEPT !.token = FALSE]>>}

MCPlans == {[r \in Req |-> IF r = r1 THEN p[1] ELSE p[2]] : p \in MCPairs}
=============================================================================
