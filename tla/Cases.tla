-------------------------------- MODULE Cases --------------------------------
(***************************************************************************)
(* The small instances of StoreStack, TableData, QueryService, Rollup and  *)
(* LastValue.                                                              *)
(***************************************************************************)
EXTENDS Integers, Sequences, TLC

(* StoreStack: reads inside a chunk, across two, and past the end. *)
RangeCases == {<<0, 1>>, <<1, 2>>, <<2, 3>>}

(* TableData: two series over two hours; a column met with two types. *)
Line(t, k, fields) == [time |-> t, tags |-> "k" :> k, fields |-> fields]
LineCases ==
    {Line(1, 1, "f" :> "float"), Line(1, 2, "f" :> "int"),
     Line(3, 2, "g" :> "float"), Line(1, 2, "g" :> "str")}
QueryCases ==
    {[min |-> min, max |-> max, eq |-> eq, cols |-> cols] :
        min \in {-1, 1, 3}, max \in {-1, 1, 3}, eq \in {<<>>, "k" :> 2},
        cols \in {{}, {"f"}, {"k", "g"}}}
DeleteCases == {[eq |-> "k" :> 2, min |-> -1, max |-> 1]}

(* QueryService: three queries, of one client or of several, whole, too     *)
(* large, and going wrong at each stage.                                    *)
Plan(door, client, fault, files) ==
    [door |-> door, client |-> client, fault |-> fault, files |-> files]
QueryPlans ==
    {<<Plan("http", "k", "none", <<1, 0, 1>>), Plan("flight", "k", "none", <<1>>),
       Plan("http", "j", "plan", <<>>)>>,
     <<Plan("http", "k", "none", <<2, 1>>), Plan("http", "k", "denied", <<>>),
       Plan("flight", "k", "effect", <<>>)>>,
     <<Plan("flight", "k", "denied", <<>>), Plan("http", "k", "missing", <<>>),
       Plan("http", "nobody", "none", <<1, 1>>)>>}

(* Rollup: two compactors that know each other from the start; one, or two, *)
(* that find each other through Consul.                                     *)
StaticFleets ==
    {[backend |-> "static", nodes |-> {1, 2}], [backend |-> "consul", nodes |-> {1}]}
ConsulFleet == {[backend |-> "consul", nodes |-> {1, 2}]}

(* LastValue: late and equal rows of one series, and two other series.      *)
Reading(t, k, time, fields, n) ==
    [table |-> t, series |-> <<t, k>>, time |-> time, fields |-> fields, n |-> n]
LastBatches ==
    {<<<<Reading("t", 1, 2, {"f"}, 1), Reading("t", 2, 1, {"g"}, 2)>>,
       <<Reading("t", 1, 1, {"f"}, 3), Reading("u", 1, 1, {"f"}, 4)>>,
       <<Reading("t", 1, 2, {"f", "g"}, 5)>>>>}
=============================================================================
