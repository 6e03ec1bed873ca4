--------------------------- MODULE MCApiWorkspace ---------------------------
(* A folder with a request with a case.                                       *)
EXTENDS ApiWorkspace, TLC

MCStored == <<Folder(1, None), Endpoint(2, 1), Row(3, "case", 2, 1)>>

Threads == Permutations(Task)

=============================================================================
