------------------------------ MODULE MCApiSend ------------------------------
(* ApiSend on small instances: every one gives the constants in its cfg.   *)
EXTENDS ApiSend
=============================================================================
