---------------------------- MODULE MCRunLifecycle ----------------------------
(* Small instances of RunLifecycle for TLC. *)
EXTENDS RunLifecycle, TLC

CONSTANTS r1, r2, s1, s2

OneRun == {r1}
TwoRuns == {r1, r2}
OneSocket == {s1}
TwoSockets == {s1, s2}
\* Runs and sockets are only compared for equality.
Interchangeable == Permutations(TwoRuns) \cup Permutations(TwoSockets)

=============================================================================
