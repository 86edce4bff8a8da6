---------------------------- MODULE MCConnectionGate ----------------------------
(* ConnectionGate on a small instance. *)
EXTENDS ConnectionGate
================================================================================
