------------------------------ MODULE MCRelayApp ------------------------------
(* An instance of RelayApp: three launches, a database of any version. *)
EXTENDS RelayApp, TLC

CONSTANTS r1, r2, r3

Interchangeable == Permutations(Relays)
=============================================================================
