---------------------------- MODULE MCInstances ----------------------------
(* Small instances of the control plane. *)
EXTENDS Instances
=============================================================================
