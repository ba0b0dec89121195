----------------------------- MODULE MCRunLogTail -----------------------------
(* The run-log viewer on small instances; the runs are interchangeable.      *)
EXTENDS RunLogTail, TLC

Perms == Permutations(Files)
=============================================================================
