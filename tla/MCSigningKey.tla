---------------------------- MODULE MCSigningKey ----------------------------
(* A small instance of SigningKey for TLC. *)
EXTENDS SigningKey, TLC

CONSTANTS p1, p2, p3, k1, k2, k3, k4

\* The third process has a key of its own.
OneConfigured == (p1 :> None) @@ (p2 :> None) @@ (p3 :> k4)

Symmetric == Permutations({p1, p2}) \cup Permutations({k1, k2, k3})
=============================================================================
