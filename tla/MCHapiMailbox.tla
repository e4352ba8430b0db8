---------------------------- MODULE MCHapiMailbox ----------------------------
(* Small instances of HapiMailbox for TLC. *)
EXTENDS HapiMailbox, TLC

CONSTANTS p1, p2, r1, r2, s1, s2, s3

\* Two attempts at one request id, and a request of its own.
Retried == (s1 :> r1) @@ (s2 :> r1) @@ (s3 :> r2)

Symmetric == Permutations({p1, p2}) \cup Permutations({s1, s2})
=============================================================================
