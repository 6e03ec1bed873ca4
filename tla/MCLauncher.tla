----------------------------- MODULE MCLauncher -----------------------------
(* The query field holds nothing, a command's prefix with a body, or the body *)
(* alone, which is what the command's plugin is handed.                       *)
EXTENDS Launcher

MCLaunchInput == [q \in Queries |-> IF q = "pb" THEN "b" ELSE q]

=============================================================================
