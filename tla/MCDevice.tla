------------------------------ MODULE MCDevice ------------------------------
(* A small instance of DeviceLifecycle for TLC. *)
EXTENDS DeviceLifecycle, TLC

CONSTANTS h1, h2, u1, u2

Everyone == {{h1, h2}}

Symmetric == Permutations({h1, h2}) \cup Permutations({u1, u2})
=============================================================================
