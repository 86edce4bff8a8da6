----------------------------- MODULE MCStreamState -----------------------------
(* StreamState on small instances. *)
EXTENDS StreamState
================================================================================
