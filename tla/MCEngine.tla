------------------------------ MODULE MCEngine ------------------------------
(* Instances of Engine for TLC: writes to one or two tables. *)
EXTENDS Engine

CONSTANTS w1, w2, w3, ta, tb

\* Three writes, one of them refused, and the tick; two writes, the tick and
\* a DROP TABLE; or everyone at once.
MCCasts ==
    {[writes |-> Write, threads |-> {Tick}],
     [writes |-> Write \ BadWrite, threads |-> Thread]}
MCAll == {[writes |-> Write, threads |-> Thread]}

\* One write to each table, and one with rows for both.
MCTablesOf == [w \in Write |-> CASE w = w1 -> {ta}
                                 [] w = w2 -> {ta, tb}
                                 [] OTHER -> {tb}]

=============================================================================
