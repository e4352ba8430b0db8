---------------------------- MODULE MCShareUsage ----------------------------
(* A small instance of ShareUsage for TLC. *)
EXTENDS ShareUsage, TLC

CONSTANTS s1, s2, q1, e1, e2, r1, r2

Symmetric ==
    Permutations(Shares) \cup Permutations(Requests) \cup Permutations(Events)
       \cup Permutations(Reporters)
=============================================================================
