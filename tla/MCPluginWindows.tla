--------------------------- MODULE MCPluginWindows ---------------------------
(* PluginWindows on small instances: every one gives the constants in its cfg. *)
EXTENDS PluginWindows
=============================================================================
