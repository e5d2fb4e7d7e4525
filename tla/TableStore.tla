----------------------------- MODULE TableStore -----------------------------
(***************************************************************************)
(* What a node promises the clients of its tables, crashes and all: a      *)
(* table is a set of rows, a write adds all its rows at once, and rows     *)
(* leave only when their table is dropped.                                 *)
(***************************************************************************)
CONSTANTS Write,        \* write requests
          Table,
          TablesOf      \* the tables a write has rows for

VARIABLE rows           \* the writes each table has the rows of

Init == rows = [t \in Table |-> {}]

\* Writes appear: one that was acknowledged, or those a restart found in
\* the log although nobody was told.
Add(ws) ==
    rows' = [t \in Table |-> rows[t] \cup {w \in ws : t \in TablesOf[w]}]

\* A drop takes rows of one table and no others.
Drop(t) ==
    \E left \in SUBSET rows[t] : rows' = [rows EXCEPT ![t] = left]

Next == (\E ws \in SUBSET Write : Add(ws)) \/ (\E t \in Table : Drop(t))

Spec == Init /\ [][Next]_rows
=============================================================================
