--------------------------- MODULE ManifestReplay ---------------------------
(***************************************************************************)
(* What a manifest log means, said without folding it entry by entry: a    *)
(* file is live after n entries once for every entry that added it and     *)
(* that no later entry undid.                                              *)
(***************************************************************************)
EXTENDS Naturals, Sequences, FiniteSets

CONSTANT TableOf    \* the table a path, or a tombstone, belongs to

\* Some entry numbered i to n drops the table.
DroppedIn(l, t, i, n) == \E j \in i .. n : t \in l[j].drops

\* The entries that put a copy of the file into the catalog that is still
\* there after n entries.  An entry removes before it adds, and drops last.
AddsStanding(l, p, n) ==
    {i \in 1 .. n : /\ p \in l[i].add
                    /\ \A j \in (i + 1) .. n : p \notin l[j].remove
                    /\ ~DroppedIn(l, TableOf[p], i, n)}

LiveAt(l, p, n) == AddsStanding(l, p, n) # {}

\* The entries that set a tombstone that still stands after n entries.
TombsStanding(l, k, n) ==
    {i \in 1 .. n : k \in l[i].tombs /\ ~DroppedIn(l, TableOf[k], i, n)}
=============================================================================
