-------------------------- MODULE MCStreamingDecoder --------------------------
(* StreamingDecoder on small instances. *)
EXTENDS StreamingDecoder
================================================================================
