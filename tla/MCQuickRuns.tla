----------------------------- MODULE MCQuickRuns -----------------------------
(* QuickRuns on small instances: every one gives the constants in its cfg. *)
EXTENDS QuickRuns
=============================================================================
