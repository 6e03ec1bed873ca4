------------------------------- MODULE ApiSlot -------------------------------
(***************************************************************************)
(* What the API debugger promises about its one request slot: a request is *)
(* sent while the slot is free, its answer arrives while it is the one     *)
(* waited for, a cancel frees the slot, and an answer that arrived stays   *)
(* until the view takes it or the next request is sent.  Nothing an        *)
(* abandoned request does shows.                                           *)
(***************************************************************************)
EXTENDS Naturals

VARIABLES sent,     \* number of requests sent so far; the last one is `sent`
          busy,     \* the slot waits for the answer to request `sent`
          answer,   \* the request whose answer waits for the view, 0 if none
          error     \* the request whose error message waits for the view

vars == <<sent, busy, answer, error>>

Init == sent = 0 /\ busy = FALSE /\ answer = 0 /\ error = 0

Send ==
    /\ ~busy
    /\ sent' = sent + 1 /\ busy' = TRUE
    /\ answer' = 0 /\ error' = 0

Answer ==
    /\ busy /\ busy' = FALSE
    /\ answer' = sent
    /\ error' \in {0, sent}
    /\ UNCHANGED sent

Cancel == busy' = FALSE /\ UNCHANGED <<sent, answer, error>>

TakeAnswer == answer # 0 /\ answer' = 0 /\ UNCHANGED <<sent, busy, error>>
TakeError == error # 0 /\ error' = 0 /\ UNCHANGED <<sent, busy, answer>>

Next == Send \/ Answer \/ Cancel \/ TakeAnswer \/ TakeError

Spec == Init /\ [][Next]_vars
=============================================================================
