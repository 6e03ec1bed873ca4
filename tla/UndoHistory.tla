----------------------------- MODULE UndoHistory -----------------------------
(***************************************************************************)
(* What an editor promises about undo: the documents it can return to, the *)
(* one it shows, and the documents a redo brings back.  An edit either     *)
(* adds the current document to the past or, when it continues a run of    *)
(* typing, replaces the current one; undo and redo only move along what is *)
(* there, so that no document appears that was never in the field.  What   *)
(* an edit writes, and what the owner resets the field to, is not said.    *)
(***************************************************************************)
EXTENDS Sequences, SequencesExt

VARIABLES past,     \* documents undo returns to, the nearest one last
          doc,      \* the document
          future    \* documents redo returns to, the nearest one last

vars == <<past, doc, future>>

Init == past = <<>> /\ future = <<>>

\* One edit, or the several edits one command makes.
Edit ==
    /\ IsPrefix(Append(past, doc), past')
    /\ future' = <<>>

Amend == past # <<>> /\ UNCHANGED past /\ future' = <<>>

Undo ==
    /\ past # <<>>
    /\ doc' = Last(past) /\ past' = Front(past)
    /\ future' = Append(future, doc)

Redo ==
    /\ future # <<>>
    /\ doc' = Last(future) /\ future' = Front(future)
    /\ past' = Append(past, doc)

Reset == past' = <<>> /\ future' = <<>>

Next == Edit \/ Amend \/ Undo \/ Redo \/ Reset

Spec == Init /\ [][Next]_vars
==============================================================================
