--------------------------- MODULE MCSshSessions ---------------------------
(***************************************************************************)
(* Small instances of SshSessions for TLC.  The cfg files give the model   *)
(* values; here are the functions over them and the symmetry sets.         *)
(***************************************************************************)
EXTENDS SshSessions, TLC

CONSTANT p1

OneProfile == [s \in Sid |-> p1]

Interchangeable == Permutations(Conn)
=============================================================================
