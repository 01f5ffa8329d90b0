------------------------------ MODULE MCClient ------------------------------
(* Client with its constants bounded by client_core.cfg. *)
EXTENDS Client
=============================================================================
