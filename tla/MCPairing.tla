------------------------------ MODULE MCPairing ------------------------------
(* Small instances of Pairing, and of the device alone, for TLC. *)
EXTENDS Pairing, TLC

CONSTANTS a1, a2, c1, c2, h1, h2, h3, k1, u1, u2

\* Three requests of the device; one of them beside a maker of codes and two
\* agents that confirm.
DeviceOrCodes == {{h1, h2, h3}, {h1, k1, a1, a2}}

Symmetric ==
    Permutations({a1, a2}) \cup Permutations({c1, c2}) \cup Permutations({u1, u2})
=============================================================================
