------------------------------ MODULE MCUploadBody ------------------------------
(* UploadBody on small instances. *)
EXTENDS UploadBody
================================================================================
