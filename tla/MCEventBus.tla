----------------------------- MODULE MCEventBus -----------------------------
(* EventBus on small instances: every one gives the constants in its cfg.  *)
EXTENDS EventBus
=============================================================================
