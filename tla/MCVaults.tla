------------------------------ MODULE MCVaults ------------------------------
(* A small instance of module Vaults: no symmetry, for it checks liveness. *)
EXTENDS Vaults

CONSTANTS c1, c2, c3, p1, p2

Calls == {c1, c2, c3}
Processes == {p1, p2}

=============================================================================
