----------------------------- MODULE MCListener -----------------------------
(* Small instances of Listener for TLC. *)
EXTENDS Listener, TLC

CONSTANTS k1, k2, k3

\* TLC: connections are interchangeable.
Symmetric == Permutations(Client)
=============================================================================
