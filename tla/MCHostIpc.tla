------------------------------ MODULE MCHostIpc ------------------------------
(* Model-checking instances of HostIpc. *)
EXTENDS HostIpc
=============================================================================
