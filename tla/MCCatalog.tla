----------------------------- MODULE MCCatalog -----------------------------
(***************************************************************************)
(* Small instances of Catalog for TLC.                                     *)
(***************************************************************************)
EXTENDS Catalog, TLC

CONSTANTS r1, r2, p1, p2, t1, k1, s1

MCTableOf == (p1 :> t1) @@ (p2 :> t1) @@ (k1 :> t1)
MCTableOfFiles == (p1 :> t1)

MCSameVersion == (r1 :> 1) @@ (r2 :> 1)
\* A rolling upgrade: r2 already writes a format r1 does not read.
MCMixedVersion == (r1 :> 1) @@ (r2 :> 2)

\* A flush of one file, and its replacement by another.
MCEdits == {[add |-> {p1}, remove |-> {}], [add |-> {p2}, remove |-> {p1}]}
\* The same with a replacement that keeps the name of the file.
MCOneFile == {[add |-> {p1}, remove |-> {}], [add |-> {p1}, remove |-> {p1}]}
=============================================================================
