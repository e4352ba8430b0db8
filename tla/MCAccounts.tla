----------------------------- MODULE MCAccounts -----------------------------
(* Small instances of AccountLifecycle for TLC. *)
EXTENDS AccountLifecycle, TLC

CONSTANTS u1, u2, u3, q1, q2, s1, s2

SymmetricSessions == Permutations({s1, s2})
SymmetricRequests == Permutations({q1, q2}) \cup SymmetricSessions
=============================================================================
