---------------------------- MODULE ManifestLog ----------------------------
(***************************************************************************)
(* What the catalog promises its callers: one log that all replicas agree  *)
(* on, to which whole commits are appended one at a time, a replacement    *)
(* only while all its inputs are live; and replicas that follow the log    *)
(* without ever going back, except by starting again from nothing.         *)
(***************************************************************************)
EXTENDS ManifestReplay

CONSTANT Replica

VARIABLES log,      \* the commits, in the order everyone sees them
          seen      \* how much of the log each replica has published

vars == <<log, seen>>

Init ==
    /\ log = <<>>
    /\ seen = [r \in Replica |-> 0]

\* A commit takes effect: entirely, once, and at the end of the log.
Land ==
    /\ Len(log') = Len(log) + 1
    /\ \A i \in 1 .. Len(log) : log'[i] = log[i]
    /\ LET e == log'[Len(log) + 1]
       IN  e.fenced => \A p \in e.remove : LiveAt(log, p, Len(log))
    /\ UNCHANGED seen

Follow(r) ==
    /\ \E n \in seen[r] .. Len(log) : seen' = [seen EXCEPT ![r] = n]
    /\ UNCHANGED log

Restart(r) ==
    /\ seen' = [seen EXCEPT ![r] = 0]
    /\ UNCHANGED log

Next == Land \/ \E r \in Replica : Follow(r) \/ Restart(r)

Spec == Init /\ [][Next]_vars
=============================================================================
