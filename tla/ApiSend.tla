------------------------------- MODULE ApiSend -------------------------------
(***************************************************************************)
(* Sending a request in qingqi-feature-api-debugger: ApiService            *)
(* (service.rs), the worker thread of each request, the variable store and *)
(* the history they write, and the view (view/request.rs) that runs on the *)
(* UI thread.  A block under the state mutex is one step; the generation   *)
(* counter, the store and the history are touched outside it.              *)
(***************************************************************************)
EXTENDS Naturals, Sequences, FiniteSets

CONSTANTS Var,        \* variables the `extract` rules of the requests name
          MaxSend,    \* bound: requests sent in a behaviour
          MaxCancel   \* bound: clicks on the cancel button

ASSUME ApiAssumption == MaxSend \in Nat /\ MaxCancel \in Nat

VARIABLES generation, \* ApiService.generation
          inFlight,   \* state.in_flight
          response,   \* state.pending_response: the request it answers, 0 for None
          error,      \* state.pending_error, likewise
          worker,     \* the threads, in the order of their requests
          stored,     \* Var -> request whose extracted value the store holds
          history,    \* rows of http_history, by request
          ui,         \* where the UI thread is
          view        \* the response and the button the view shows, cancels clicked

slot == <<generation, inFlight, response, error>>
vars == <<slot, worker, stored, history, ui, view>>

Sent == Len(worker)
Request == 1..Sent

Init ==
    /\ generation = 0 /\ inFlight = FALSE /\ response = 0 /\ error = 0
    /\ worker = <<>>
    /\ stored = [v \in Var |-> 0]
    /\ history = <<>>
    /\ ui = "idle"
    /\ view = [shown |-> 0, button |-> "send", cancels |-> 0]

-----------------------------------------------------------------------------
(* The worker thread of request r.                                         *)

Goto(r, pc) == worker' = [worker EXCEPT ![r].pc = pc]

\* list_variables, before the request goes out.
LoadStore(r) ==
    /\ worker[r].pc = "load"
    /\ worker' = [worker EXCEPT ![r].pc = "perform", ![r].seen = stored]
    /\ UNCHANGED <<slot, stored, history, ui, view>>

\* perform_request: an error, or a response from which the rules extract.
Perform(r) ==
    /\ worker[r].pc = "perform"
    /\ \E ok \in BOOLEAN, found \in SUBSET Var :
          /\ ~ok => found = {}
          /\ worker' = [worker EXCEPT ![r].pc = "check", ![r].ok = ok, ![r].found = found]
    /\ UNCHANGED <<slot, stored, history, ui, view>>

\* A result nobody waits for any more is dropped here.
Check(r) ==
    /\ worker[r].pc = "check"
    /\ Goto(r, IF generation = worker[r].gen THEN "extract" ELSE "dropped")
    /\ UNCHANGED <<slot, stored, history, ui, view>>

\* (Fault: INSERT ... ON CONFLICT DO NOTHING.)
InsertOnce(v, r) == stored' = [stored EXCEPT ![v] = IF @ = 0 THEN r ELSE @]
Upsert(v, r) == stored' = [stored EXCEPT ![v] = r]

\* upsert_variable, once per extracted value and each on its own; a failed
\* one is logged and skipped.
Extract(r) ==
    /\ worker[r].pc = "extract"
    /\ \E v \in worker[r].found :
          \/ /\ worker' = [worker EXCEPT ![r].found = @ \ {v}, ![r].wrote = @ \union {v}]
             /\ Upsert(v, r)
          \/ /\ worker' = [worker EXCEPT ![r].found = @ \ {v}]
             /\ UNCHANGED stored
    /\ UNCHANGED <<slot, history, ui, view>>

\* (Faults: the second check forgotten; the slot left taken.)
Unchecked(r) == TRUE
StillCurrent(r) == generation = worker[r].gen
FreesNothing == UNCHANGED inFlight
Frees == inFlight' = FALSE

\* The second check, under the lock, and the publication.
Publish(r) ==
    /\ worker[r].pc = "extract" /\ worker[r].found = {}
    /\ IF StillCurrent(r)
       THEN /\ Frees
            /\ response' = r
            /\ error' = IF worker[r].ok THEN 0 ELSE r
            /\ Goto(r, "record")
       ELSE Goto(r, "dropped") /\ UNCHANGED <<inFlight, response, error>>
    /\ UNCHANGED <<generation, stored, history, ui, view>>

\* insert_history, after the lock; an insert that fails is logged.
Record(r) ==
    /\ worker[r].pc = "record"
    /\ history' \in {history, Append(history, r)}
    /\ Goto(r, "done")
    /\ UNCHANGED <<slot, stored, ui, view>>

WorkerStep(r) == LoadStore(r) \/ Perform(r) \/ Check(r) \/ Extract(r) \/ Publish(r) \/ Record(r)

-----------------------------------------------------------------------------
(* The UI thread.  Rendering drains the pending results, each under a lock *)
(* of its own, and then chooses the button.                                *)

\* (Fault: a request is sent over one in flight.)
FreeOrNot == TRUE
Free == ~inFlight
Clears == response' = 0 /\ error' = 0

\* The send button, or Enter in the path whatever button is shown; it fails on a
\* taken slot.
Send ==
    /\ ui = "idle" /\ Sent < MaxSend
    /\ IF Free
       THEN /\ inFlight' = TRUE /\ Clears
            /\ generation' = generation + 1
            /\ worker' = Append(worker, [pc |-> "load", gen |-> generation + 1, ok |-> TRUE,
                                         found |-> {}, wrote |-> {}, seen |-> stored])
       ELSE UNCHANGED <<slot, worker>>
    /\ UNCHANGED <<stored, history, ui, view>>

\* cancel_request: the generation first, the flag under the lock.
CancelBump ==
    /\ ui = "idle" /\ view.button = "cancel" /\ view.cancels < MaxCancel
    /\ generation' = generation + 1
    /\ view' = [view EXCEPT !.cancels = @ + 1]
    /\ ui' = "cancel"
    /\ UNCHANGED <<inFlight, response, error, worker, stored, history>>

CancelFree ==
    /\ ui = "cancel"
    /\ Frees
    /\ ui' = "idle"
    /\ UNCHANGED <<generation, response, error, worker, stored, history, view>>

\* Some event makes the view render.
Render ==
    /\ ui = "idle"
    /\ ui' = "response"
    /\ UNCHANGED <<slot, worker, stored, history, view>>

TakeResponse ==
    /\ ui = "response"
    /\ response' = 0
    /\ view' = IF response = 0 THEN view ELSE [view EXCEPT !.shown = response]
    /\ ui' = "error"
    /\ UNCHANGED <<generation, inFlight, error, worker, stored, history>>

TakeError ==
    /\ ui = "error"
    /\ error' = 0
    /\ ui' = "button"
    /\ UNCHANGED <<generation, inFlight, response, worker, stored, history, view>>

ShowButton ==
    /\ ui = "button"
    /\ view' = [view EXCEPT !.button = IF inFlight THEN "cancel" ELSE "send"]
    /\ ui' = "idle"
    /\ UNCHANGED <<slot, worker, stored, history>>

Cancel == CancelBump \/ CancelFree
Drain == TakeResponse \/ TakeError \/ ShowButton

Next ==
    \/ \E r \in Request : WorkerStep(r)
    \/ Send \/ Cancel \/ Render \/ Drain

Spec == Init /\ [][Next]_vars

\* Threads are scheduled, and perform_request ends: its client gives up on a
\* request after 30 seconds.  cancel_request runs to its end once it began.
\* Nothing obliges the user to click, nor the view to render.
FairSpec == Spec /\ WF_vars(CancelFree) /\ \A r \in 1..MaxSend : WF_vars(r \in Request /\ WorkerStep(r))

-----------------------------------------------------------------------------
Pc == {"load", "perform", "check", "extract", "record", "done", "dropped"}
Thread == [pc : Pc, gen : Nat, ok : BOOLEAN, found : SUBSET Var, wrote : SUBSET Var, seen : [Var -> Nat]]

\* The shapes of the variables; what waits for the view answers the last
\* request sent.
TypeOK ==
    /\ generation \in Nat /\ inFlight \in BOOLEAN
    /\ response \in {0, Sent} /\ error \in {0, Sent}
    /\ worker \in Seq(Thread)
    /\ stored \in [Var -> Nat]
    /\ history \in Seq(Nat)
    /\ ui \in {"idle", "cancel", "response", "error", "button"}
    /\ view \in [shown : Nat, button : {"send", "cancel"}, cancels : Nat]

\* The slot is never taken for nobody: while it is, the worker it waits for
\* is on its way to publish, unless a cancel is about to free it.
Waiting(r) == worker[r].pc \in {"load", "perform", "check", "extract"} /\ worker[r].gen = generation
SlotHasOwner == inFlight => ui = "cancel" \/ \E r \in Request : Waiting(r)

\* The view never goes back to the response of an earlier request.
ShownAdvances == [][view'.shown >= view.shown]_vars

\* A request that was cancelled or superseded is never published, however far
\* its thread had come.
CancelWins == [][\A r \in Request :
    /\ worker[r].gen # generation
    /\ worker[r].pc # "record"
    => worker'[r].pc # "record"]_vars

\* The slot implements the abstract one.
Slot == INSTANCE ApiSlot WITH sent <- Sent, busy <- inFlight, answer <- response
Refinement == Slot!Spec

\* Chaining: what a published answer stored is what later requests resolve,
\* unless a later answer replaced it, or a request that was given up and wrote
\* all the same: the writes do not look at the generation again.
Published(r) == worker[r].pc \in {"record", "done"}
ChainedValues == \A q, r \in Request :
    q < r /\ Published(q) /\ worker[r].pc # "load" => \A v \in worker[q].wrote :
        LET source == worker[r].seen[v] IN source >= q \/ (source > 0 /\ ~Published(source))

\* A request never holds the slot for ever, whether it is cancelled or not.
SlotIsFreed == inFlight ~> ~inFlight
=============================================================================
