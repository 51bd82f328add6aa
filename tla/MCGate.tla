------------------------------ MODULE MCGate ------------------------------
(* Small instances of the gate.  There is no symmetry: liveness is checked. *)
EXTENDS Gate
=============================================================================
