-------------------------- MODULE ApiDebugger_proofs --------------------------
(***************************************************************************)
(* Proofs about the API debugger.  About sending (ApiSend): for any         *)
(* variables and any number of requests and cancels.  About the workspace  *)
(* (ApiWorkspace), after it: for any collection it starts with, any threads *)
(* and any bounds.                                                         *)
(***************************************************************************)
EXTENDS ApiSend, ApiWorkspace, FiniteSetTheorems, SequenceTheorems, WellFoundedInduction, TLAPS

Pre == {"load", "perform", "check", "extract"}

\* Only the last request can be current, and only while the slot waits for it;
\* once a cancel began, none is.
Current ==
    /\ \A r \in Request : worker[r].gen <= generation
    /\ \A r \in Request : worker[r].gen = generation => r = Sent /\ ui # "cancel"
    /\ \A r \in Request : Waiting(r) => inFlight

ShownPast == view.shown <= Sent

Inv == TypeOK /\ Current /\ SlotHasOwner /\ ShownPast

\* A thread that moves leaves the others and the number of requests alone.
LEMMA WorkerMoves ==
    ASSUME TypeOK, NEW r \in Request, NEW f \in Thread, worker' = [worker EXCEPT ![r] = f]
    PROVE /\ worker' \in Seq(Thread) /\ Sent' = Sent /\ Request' = Request
          /\ \A q \in Request : worker'[q] = IF q = r THEN f ELSE worker[q]
  BY DEF TypeOK, Request, Sent

LEMMA GotoMoves ==
    ASSUME TypeOK, NEW r \in Request, NEW pc \in Pc, Goto(r, pc)
    PROVE /\ worker' \in Seq(Thread) /\ Sent' = Sent /\ Request' = Request
          /\ \A q \in Request : /\ worker'[q].pc = IF q = r THEN pc ELSE worker[q].pc
                                /\ worker'[q].gen = worker[q].gen
  <1>1. worker \in Seq(Thread) /\ r \in 1..Len(worker) /\ worker[r] \in Thread
    BY DEF TypeOK, Request, Sent
  <1>2. PICK f \in Thread : f.pc = pc /\ f.gen = worker[r].gen /\ worker' = [worker EXCEPT ![r] = f]
    <2>1. [worker[r] EXCEPT !.pc = pc] \in Thread
      BY <1>1 DEF Thread
    <2> WITNESS [worker[r] EXCEPT !.pc = pc] \in Thread
    <2> QED BY <1>1 DEF Goto, Thread
  <1>3. /\ worker' \in Seq(Thread) /\ Sent' = Sent /\ Request' = Request
        /\ \A q \in Request : worker'[q] = IF q = r THEN f ELSE worker[q]
    BY <1>2, WorkerMoves
  <1> QED BY <1>2, <1>3

LEMMA Shapes == ASSUME TypeOK
    PROVE /\ Sent \in Nat /\ \A r \in Request : r \in Nat /\ r >= 1 /\ r <= Sent /\ worker[r] \in Thread
          /\ Sent \in Request \/ Sent = 0
  BY DEF TypeOK, Sent, Request

\* A step of a thread: the threads and the slot, before and after.
LEMMA Threads ==
    ASSUME TypeOK, NEW r \in Request, WorkerStep(r)
    PROVE /\ worker' \in Seq(Thread) /\ Sent' = Sent /\ Request' = Request
          /\ \A q \in Request : worker'[q].gen = worker[q].gen /\ (q # r => worker'[q].pc = worker[q].pc)
          /\ UNCHANGED <<generation, ui, view>>
          /\ stored' \in [Var -> Nat] /\ history' \in Seq(Nat)
          /\ worker[r].pc \in Pre \union {"record"}
  <1>0. r \in Nat /\ worker[r] \in Thread /\ stored \in [Var -> Nat] /\ history \in Seq(Nat)
    BY Shapes DEF TypeOK
  <1>1. CASE LoadStore(r)
    <2>1. PICK f \in Thread : f.gen = worker[r].gen /\ worker' = [worker EXCEPT ![r] = f]
      <3>1. [worker[r] EXCEPT !.pc = "perform", !.seen = stored] \in Thread
        BY <1>0 DEF Thread, Pc
      <3> WITNESS [worker[r] EXCEPT !.pc = "perform", !.seen = stored] \in Thread
      <3> QED BY <1>0, <1>1 DEF LoadStore, Thread
    <2>2. /\ worker' \in Seq(Thread) /\ Sent' = Sent /\ Request' = Request
          /\ \A q \in Request : worker'[q] = IF q = r THEN f ELSE worker[q]
      BY <2>1, WorkerMoves
    <2>3. UNCHANGED <<generation, ui, view, stored, history>> /\ worker[r].pc \in Pre
      BY <1>1 DEF LoadStore, slot, Pre
    <2> QED BY <1>0, <2>1, <2>2, <2>3
  <1>2. CASE Perform(r)
    <2>1. PICK ok \in BOOLEAN, found \in SUBSET Var :
             worker' = [worker EXCEPT ![r].pc = "check", ![r].ok = ok, ![r].found = found]
      BY <1>2 DEF Perform
    <2>2. PICK f \in Thread : f.gen = worker[r].gen /\ worker' = [worker EXCEPT ![r] = f]
      <3>1. [worker[r] EXCEPT !.pc = "check", !.ok = ok, !.found = found] \in Thread
        BY <1>0 DEF Thread, Pc
      <3> WITNESS [worker[r] EXCEPT !.pc = "check", !.ok = ok, !.found = found] \in Thread
      <3> QED BY <1>0, <2>1 DEF Thread
    <2>3. /\ worker' \in Seq(Thread) /\ Sent' = Sent /\ Request' = Request
          /\ \A q \in Request : worker'[q] = IF q = r THEN f ELSE worker[q]
      BY <2>2, WorkerMoves
    <2>4. UNCHANGED <<generation, ui, view, stored, history>> /\ worker[r].pc \in Pre
      BY <1>2 DEF Perform, slot, Pre
    <2> QED BY <1>0, <2>2, <2>3, <2>4
  <1>3. CASE Extract(r)
    <2>1. PICK v \in worker[r].found :
          \/ worker' = [worker EXCEPT ![r].found = @ \ {v}, ![r].wrote = @ \union {v}] /\ Upsert(v, r)
          \/ worker' = [worker EXCEPT ![r].found = @ \ {v}] /\ UNCHANGED stored
      BY <1>3 DEF Extract
    <2> DEFINE f == [worker[r] EXCEPT !.found = @ \ {v}, !.wrote = @ \union {v}]
               g == [worker[r] EXCEPT !.found = @ \ {v}]
    <2>2. /\ f \in Thread /\ f.gen = worker[r].gen /\ g \in Thread /\ g.gen = worker[r].gen
          /\ worker' = [worker EXCEPT ![r] = f] \/ worker' = [worker EXCEPT ![r] = g]
      BY <1>0, <2>1 DEF Thread
    <2>3. stored' \in [Var -> Nat]
      BY <1>0, <2>1 DEF Upsert
    <2> HIDE DEF f, g
    <2> QED BY <1>0, <1>3, <2>2, <2>3, WorkerMoves DEF Extract, slot, Pre
  <1>4. CASE Check(r)
    BY <1>0, <1>4, GotoMoves DEF Check, slot, Pc, Pre
  <1>5. CASE Publish(r)
    BY <1>0, <1>5, GotoMoves DEF Publish, Pc, Pre
  <1>6. CASE Record(r)
    <2>1. history' \in Seq(Nat)
      BY <1>0, <1>6 DEF Record
    <2> QED BY <1>0, <1>6, <2>1, GotoMoves DEF Record, slot, Pc, Pre
  <1> QED BY <1>1, <1>2, <1>3, <1>4, <1>5, <1>6 DEF WorkerStep

\* Only Publish touches the slot, and only for the last request.
LEMMA SlotOfThread ==
    ASSUME Inv, NEW r \in Request, WorkerStep(r)
    PROVE \/ /\ UNCHANGED <<inFlight, response, error>>
             /\ worker[r].pc \in Pre /\ worker[r].gen = generation => worker'[r].pc \in Pre
             /\ worker'[r].pc = "record" => worker[r].pc = "record"
             /\ worker'[r].pc \in Pre => worker[r].pc \in Pre
          \/ /\ inFlight /\ inFlight' = FALSE /\ r = Sent /\ worker[r].gen = generation
             /\ worker'[r].pc = "record"
             /\ response' = Sent /\ error' \in {0, Sent}
  <1> /\ TypeOK /\ Current /\ worker[r] \in Thread /\ r \in 1..Len(worker) /\ worker \in Seq(Thread)
      /\ Len(worker) \in Nat
    BY Shapes DEF Inv, TypeOK, Request, Sent
  <1>1. CASE LoadStore(r) \/ Perform(r) \/ Extract(r)
    <2>1. LoadStore(r) => worker'[r].pc \in Pre
      BY DEF LoadStore, Thread, Pre
    <2>2. Perform(r) => worker'[r].pc \in Pre
      BY DEF Perform, Thread, Pre
    <2>3. Extract(r) => worker'[r].pc \in Pre
      BY DEF Extract, Thread, Pre
    <2> QED BY <1>1, <2>1, <2>2, <2>3 DEF LoadStore, Perform, Extract, slot, Pre
  <1>2. CASE Check(r)
    <2>1. worker'[r].pc = IF generation = worker[r].gen THEN "extract" ELSE "dropped"
      BY <1>2, GotoMoves DEF Check, Pc
    <2> QED BY <1>2, <2>1 DEF Check, slot, Pre
  <1>3. CASE Record(r)
    <2>1. worker'[r].pc = "done"
      BY <1>3, GotoMoves DEF Record, Pc
    <2> QED BY <1>3, <2>1 DEF Record, slot, Pre
  <1>4. CASE Publish(r) /\ ~StillCurrent(r)
    <2>1. worker'[r].pc = "dropped"
      BY <1>4, GotoMoves DEF Publish, Pc
    <2> QED BY <1>4, <2>1 DEF Publish, StillCurrent, Pre
  <1>5. CASE Publish(r) /\ StillCurrent(r)
    <2>1. worker'[r].pc = "record"
      BY <1>5, GotoMoves DEF Publish, Pc
    <2>2. Waiting(r)
      BY <1>5 DEF Publish, StillCurrent, Waiting
    <2> QED BY <1>5, <2>1, <2>2 DEF Publish, StillCurrent, Frees, Current
  <1> QED BY <1>1, <1>2, <1>3, <1>4, <1>5 DEF WorkerStep

-----------------------------------------------------------------------------
LEMMA InitInv == Init => Inv
  <1> SUFFICES ASSUME Init PROVE Inv
    OBVIOUS
  <1>1. Sent = 0 /\ Request = {}
    BY DEF Init, Sent, Request
  <1>2. TypeOK
    <2>1. worker \in Seq(Thread) /\ history \in Seq(Nat)
      BY DEF Init
    <2>2. view \in [shown : Nat, button : {"send", "cancel"}, cancels : Nat]
      BY DEF Init
    <2>3. stored \in [Var -> Nat]
      BY DEF Init
    <2> QED BY <1>1, <2>1, <2>2, <2>3 DEF Init, TypeOK
  <1> QED BY <1>1, <1>2 DEF Init, Inv, Current, SlotHasOwner, ShownPast

\* What a step of a thread does to the invariant.
LEMMA ThreadStep == ASSUME Inv, NEW r \in Request, WorkerStep(r) PROVE Inv'
  <1> TypeOK /\ Current /\ SlotHasOwner /\ ShownPast
    BY DEF Inv
  <1>1. /\ worker' \in Seq(Thread) /\ Sent' = Sent /\ Request' = Request
        /\ \A q \in Request : worker'[q].gen = worker[q].gen /\ (q # r => worker'[q].pc = worker[q].pc)
        /\ UNCHANGED <<generation, ui, view>>
        /\ stored' \in [Var -> Nat] /\ history' \in Seq(Nat)
        /\ worker[r].pc \in Pre \union {"record"}
    BY Threads
  <1>2. TypeOK'
    <2>1. inFlight' \in BOOLEAN /\ response' \in {0, Sent} /\ error' \in {0, Sent}
      <3>1. CASE UNCHANGED <<inFlight, response, error>>
        BY <3>1 DEF TypeOK
      <3>2. CASE inFlight' = FALSE /\ response' = Sent /\ error' \in {0, Sent}
        BY <3>2
      <3> QED BY <3>1, <3>2, SlotOfThread
    <2> QED BY <1>1, <2>1 DEF TypeOK
  <1>3. \A q \in Request : Waiting(q)' => Waiting(q) /\ (q = r => UNCHANGED inFlight)
    BY <1>1, SlotOfThread DEF Waiting, Pre
  <1>4. Current'
    <2>1. \A q \in Request : worker'[q].gen <= generation' /\ (worker'[q].gen = generation' => q = Sent' /\ ui' # "cancel")
      BY <1>1 DEF Current
    <2>2. \A q \in Request : Waiting(q)' => inFlight'
      BY <1>1, <1>3, SlotOfThread DEF Current, Waiting
    <2> QED BY <1>1, <2>1, <2>2 DEF Current
  <1>5. SlotHasOwner'
    <2> SUFFICES ASSUME inFlight', ui' # "cancel" PROVE \E q \in Request : Waiting(q)'
      BY <1>1 DEF SlotHasOwner
    <2>1. inFlight /\ UNCHANGED inFlight
      BY SlotOfThread
    <2>2. PICK q \in Request : Waiting(q)
      BY <1>1, <2>1 DEF SlotHasOwner
    <2>3. worker[q].pc \in Pre /\ worker[q].gen = generation
      BY <2>2 DEF Waiting, Pre
    <2>4. worker'[q].pc \in Pre
      BY <1>1, <2>1, <2>3, SlotOfThread
    <2> QED BY <1>1, <2>3, <2>4 DEF Waiting, Pre
  <1>6. ShownPast'
    BY <1>1 DEF ShownPast
  <1> QED BY <1>2, <1>4, <1>5, <1>6 DEF Inv

\* A new request starts a new generation, so every older one is past.
LEMMA SendStep == ASSUME Inv, Send PROVE Inv'
  <1> TypeOK /\ Current /\ SlotHasOwner /\ ShownPast /\ worker \in Seq(Thread)
    BY DEF Inv, TypeOK
  <1>0. CASE ~Free
    BY <1>0 DEF Send, Inv, TypeOK, Current, SlotHasOwner, ShownPast, slot, Sent, Request, Waiting
  <1>1. CASE Free
    <2> DEFINE new == [pc |-> "load", gen |-> generation + 1, ok |-> TRUE,
                       found |-> {}, wrote |-> {}, seen |-> stored]
    <2>1. new \in Thread /\ new.pc = "load" /\ new.gen = generation + 1 /\ generation \in Nat
      BY DEF TypeOK, Thread, Pc
    <2>2. worker' = Append(worker, new)
      BY <1>1 DEF Send
    <2>3. PICK n \in Nat : n = Sent + 1
      BY Shapes
    <2> HIDE DEF new
    <2>4. /\ worker' \in Seq(Thread) /\ Sent' = n /\ worker'[n] = new
          /\ \A q \in Request : worker'[q] = worker[q]
      BY <2>1, <2>2, <2>3 DEF Sent, Request
    <2>5. Request' = Request \union {n} /\ \A q \in Request : q # n /\ q <= Sent
      BY <2>3, <2>4, Shapes DEF Request
    <2>6. /\ inFlight' = TRUE /\ response' = 0 /\ error' = 0 /\ generation' = generation + 1
          /\ ui = "idle" /\ UNCHANGED <<stored, history, ui, view>>
      BY <1>1 DEF Send, Clears
    <2>7. TypeOK'
      BY <2>1, <2>4, <2>6 DEF TypeOK
    <2>8. Waiting(n)'
      BY <2>1, <2>4, <2>6 DEF Waiting
    <2>9. \A q \in Request : worker'[q].gen < generation'
      <3> SUFFICES ASSUME NEW q \in Request PROVE worker'[q].gen < generation'
        OBVIOUS
      <3>1. worker[q].gen \in Nat /\ worker[q].gen <= generation
        BY Shapes DEF Current, Thread
      <3> QED BY <2>1, <2>4, <2>6, <3>1
    <2>10. Current'
      <3>1. ASSUME NEW q \in Request' PROVE worker'[q].gen <= generation' /\ (worker'[q].gen = generation' => q = n)
        <4>1. CASE q = n
          BY <2>1, <2>4, <2>6, <4>1
        <4>2. CASE q \in Request
          <5>1. worker'[q].gen \in Nat /\ worker'[q].gen < generation' /\ generation' \in Nat
            BY <2>1, <2>4, <2>6, <2>9, <4>2, Shapes DEF Thread
          <5> QED BY <5>1
        <4> QED BY <2>5, <4>1, <4>2
      <3> QED BY <2>4, <2>6, <3>1 DEF Current
    <2>11. SlotHasOwner'
      BY <2>5, <2>8 DEF SlotHasOwner
    <2>12. ShownPast'
      BY <2>3, <2>4, <2>6, Shapes DEF ShownPast, TypeOK
    <2> QED BY <2>7, <2>10, <2>11, <2>12 DEF Inv
  <1> QED BY <1>0, <1>1

LEMMA UiStep == ASSUME Inv, Cancel \/ Render \/ Drain PROVE Inv'
  <1> TypeOK /\ Current /\ SlotHasOwner /\ ShownPast
    BY DEF Inv
  <1>0. /\ UNCHANGED <<worker, stored, history>> /\ Sent' = Sent /\ Request' = Request /\ Sent \in Nat
        /\ \A r \in Request : worker[r] \in Thread
    BY Shapes DEF Cancel, CancelBump, CancelFree, Render, Drain, TakeResponse, TakeError, ShowButton, slot, Sent, Request
  <1>1. CASE CancelBump
    <2>1. generation' = generation + 1 /\ generation \in Nat /\ ui' = "cancel"
      BY <1>1 DEF CancelBump, TypeOK
    <2>2. \A r \in Request : worker[r].gen \in Nat /\ worker[r].gen < generation'
      BY <1>0, <2>1 DEF Current, Thread
    <2>3. TypeOK' /\ ShownPast'
      <3>1. TypeOK'
        <4>1. view' \in [shown : Nat, button : {"send", "cancel"}, cancels : Nat]
          <5>1. view \in [shown : Nat, button : {"send", "cancel"}, cancels : Nat]
            BY DEF TypeOK
          <5>2. view' = [view EXCEPT !.cancels = view.cancels + 1]
            BY <1>1 DEF CancelBump
          <5> QED BY <5>1, <5>2
        <4> QED BY <1>0, <1>1, <4>1 DEF CancelBump, TypeOK
      <3>2. ShownPast'
        BY <1>0, <1>1 DEF CancelBump, ShownPast
      <3> QED BY <3>1, <3>2
    <2>4. Current' /\ SlotHasOwner'
      BY <1>0, <2>1, <2>2 DEF Current, SlotHasOwner, Waiting
    <2> QED BY <2>3, <2>4 DEF Inv
  <1>2. CASE CancelFree
    <2>1. \A r \in Request : ~Waiting(r)'
      BY <1>0, <1>2 DEF CancelFree, Current, Waiting
    <2> QED BY <1>0, <1>2, <2>1 DEF CancelFree, Frees, Inv, TypeOK, Current, SlotHasOwner, ShownPast
  <1>3. CASE Render \/ Drain
    <2>1. /\ UNCHANGED <<generation, inFlight>> /\ ui # "cancel" /\ ui' # "cancel"
          /\ \A r \in Request : Waiting(r)' = Waiting(r)
      BY <1>0, <1>3 DEF Render, Drain, TakeResponse, TakeError, ShowButton, slot, Waiting
    <2>2. TypeOK'
      BY <1>0, <1>3 DEF Render, Drain, TakeResponse, TakeError, ShowButton, slot, TypeOK
    <2>3. ShownPast'
      <3>1. CASE UNCHANGED view
        BY <1>0, <3>1 DEF ShownPast
      <3>2. CASE TakeResponse
        BY <1>0, <3>2 DEF TakeResponse, ShownPast, TypeOK
      <3>3. CASE TakeError
        BY <1>0, <3>3 DEF TakeError, ShownPast, TypeOK
      <3>4. CASE ShowButton
        BY <1>0, <3>4 DEF ShowButton, ShownPast
      <3> QED BY <1>3, <3>1, <3>2, <3>3, <3>4 DEF Render, Drain
    <2>4. Current' /\ SlotHasOwner'
      BY <1>0, <2>1 DEF Current, SlotHasOwner
    <2> QED BY <2>2, <2>3, <2>4 DEF Inv
  <1> QED BY <1>1, <1>2, <1>3 DEF Cancel

\* The inductive invariant.
THEOREM Invariance == Spec => []Inv
  <1>1. Inv /\ [Next]_vars => Inv'
    <2> SUFFICES ASSUME Inv, [Next]_vars PROVE Inv'
      OBVIOUS
    <2>1. CASE UNCHANGED vars
      BY <2>1 DEF vars, slot, Inv, TypeOK, Current, SlotHasOwner, ShownPast, Sent, Request, Waiting
    <2> QED BY <2>1, ThreadStep, SendStep, UiStep DEF Next
  <1> QED BY InitInv, <1>1, PTL DEF Spec

\* The variables keep their shapes, and what waits for the view is the answer
\* to the last request sent.
THEOREM TypeCorrect == Spec => []TypeOK
  <1>1. Inv => TypeOK
    BY DEF Inv
  <1> QED BY <1>1, Invariance, PTL

\* The slot is never taken for nobody: see SlotHasOwner.
THEOREM SlotOwned == Spec => []SlotHasOwner
  <1>1. Inv => SlotHasOwner
    BY DEF Inv
  <1> QED BY <1>1, Invariance, PTL

\* A cancelled or superseded request is never published: see CancelWins.
THEOREM CancelFinal == Spec => CancelWins
  <1>1. Inv /\ [Next]_vars => [\A r \in Request :
              /\ worker[r].gen # generation
              /\ worker[r].pc # "record"
              => worker'[r].pc # "record"]_vars
    <2> SUFFICES ASSUME Inv, Next, NEW r \in Request, worker[r].gen # generation, worker[r].pc # "record"
                 PROVE worker'[r].pc # "record"
      BY DEF vars, Request, Sent
    <2> TypeOK /\ worker[r] \in Thread
      BY Shapes DEF Inv
    <2>1. ASSUME NEW q \in Request, WorkerStep(q) PROVE worker'[r].pc # "record"
      BY <2>1, Threads, SlotOfThread
    <2>2. CASE Send
      <3>1. worker' = worker \/ \E f : worker' = Append(worker, f)
        BY <2>2 DEF Send
      <3>2. worker'[r] = worker[r]
        BY <3>1 DEF TypeOK, Request, Sent
      <3> QED BY <3>2
    <2>3. CASE Cancel \/ Render \/ Drain
      BY <2>3 DEF Cancel, CancelBump, CancelFree, Render, Drain, TakeResponse, TakeError, ShowButton
    <2> QED BY <2>1, <2>2, <2>3 DEF Next
  <1> QED BY <1>1, Invariance, PTL DEF Spec, CancelWins

\* The view never goes back to an earlier response: see ShownAdvances.
THEOREM ViewAdvances == Spec => ShownAdvances
  <1>1. Inv /\ [Next]_vars => [view'.shown >= view.shown]_vars
    <2> SUFFICES ASSUME Inv, Next PROVE view'.shown >= view.shown
      BY DEF vars
    <2> TypeOK /\ ShownPast /\ view.shown \in Nat /\ Sent \in Nat
      BY Shapes DEF Inv, TypeOK
    <2>1. ASSUME NEW q \in Request, WorkerStep(q) PROVE view' = view
      BY <2>1, Threads
    <2>2. CASE TakeResponse
      BY <2>2 DEF TakeResponse, TypeOK, ShownPast
    <2>3. CASE Send \/ Cancel \/ Render \/ TakeError \/ ShowButton
      BY <2>3 DEF Send, Cancel, CancelBump, CancelFree, Render, TakeError, ShowButton, TypeOK
    <2> QED BY <2>1, <2>2, <2>3 DEF Next, Drain
  <1> QED BY <1>1, Invariance, PTL DEF Spec, ShownAdvances

\* The threads, the cancel and the view together are ApiSlot: see Refinement.
THEOREM Implements == Spec => Refinement
  <1>1. Init => Slot!Init
    BY DEF Init, Slot!Init, Sent
  <1>2. Inv /\ [Next]_vars => [Slot!Next]_(Slot!vars)
    <2> SUFFICES ASSUME Inv, Next PROVE Slot!Next \/ UNCHANGED <<Sent, inFlight, response, error>>
      BY DEF vars, slot, Slot!vars, Sent
    <2> TypeOK /\ Sent \in Nat
      BY Shapes DEF Inv
    <2>1. ASSUME NEW r \in Request, WorkerStep(r)
          PROVE Slot!Answer \/ UNCHANGED <<Sent, inFlight, response, error>>
      BY <2>1, Threads, SlotOfThread DEF Slot!Answer, TypeOK
    <2>2. CASE Send
      <3>1. ~Free => UNCHANGED <<Sent, inFlight, response, error>>
        BY <2>2 DEF Send, slot, Sent
      <3>2. Free => Sent' = Sent + 1
        BY <2>2 DEF Send, Sent, TypeOK
      <3> QED BY <2>2, <3>1, <3>2 DEF Send, Free, Clears, Slot!Next, Slot!Send
    <2>3. CASE Cancel \/ Render \/ Drain
      <3>1. Sent' = Sent
        BY <2>3 DEF Cancel, CancelBump, CancelFree, Render, Drain, TakeResponse, TakeError, ShowButton, Sent
      <3> QED BY <2>3, <3>1 DEF Cancel, CancelBump, CancelFree, Frees, Render, Drain, TakeResponse, TakeError, ShowButton, slot,
            Slot!Next, Slot!Cancel, Slot!TakeAnswer, Slot!TakeError
    <2> QED BY <2>1, <2>2, <2>3 DEF Next, Slot!Next
  <1> QED BY <1>1, <1>2, Invariance, PTL DEF Spec, Refinement, Slot!Spec

-----------------------------------------------------------------------------
(* Chaining.  What a request wrote is in the store until a later request,  *)
(* or one that is never published, writes over it: only the last request   *)
(* can still be published.                                                 *)

Lasting(x, q) == x >= q \/ (x > 0 /\ ~Published(x))
KnownValues ==
    /\ \A v \in Var : stored[v] <= Sent
    /\ \A r \in Request, v \in Var : worker[r].seen[v] <= Sent
WritesLast == \A q \in Request : \A v \in worker[q].wrote : Lasting(stored[v], q)
Chain == KnownValues /\ WritesLast /\ ChainedValues

\* A step of a thread: what it read from the store and wrote to it.
LEMMA ThreadData ==
    ASSUME TypeOK, NEW r \in Request, WorkerStep(r)
    PROVE  /\ \A q \in Request : q # r => worker'[q] = worker[q]
           /\ worker'[r].pc = "done" => Published(r)
           /\ \/ /\ worker'[r].seen = stored /\ worker'[r].wrote = worker[r].wrote /\ stored' = stored
                 /\ worker[r].pc = "load" /\ worker'[r].pc = "perform"
              \/ /\ worker'[r].seen = worker[r].seen /\ worker[r].pc # "load"
                 /\ worker'[r].wrote = worker[r].wrote /\ stored' = stored
              \/ /\ worker'[r].seen = worker[r].seen /\ worker[r].pc = "extract" /\ worker'[r].pc = "extract"
                 /\ \E v \in Var : /\ worker'[r].wrote = worker[r].wrote \union {v}
                                   /\ stored' = [stored EXCEPT ![v] = r]
  <1>0. worker \in Seq(Thread) /\ r \in 1..Len(worker) /\ worker[r] \in Thread /\ Request = 1..Len(worker)
    BY Shapes DEF TypeOK, Request, Sent
  <1>1. CASE LoadStore(r)
    BY <1>0, <1>1 DEF LoadStore, Thread
  <1>2. CASE Perform(r)
    BY <1>0, <1>2 DEF Perform, Thread
  <1>3. CASE Extract(r)
    <2>1. PICK v \in worker[r].found :
          \/ worker' = [worker EXCEPT ![r].found = @ \ {v}, ![r].wrote = @ \union {v}] /\ Upsert(v, r)
          \/ worker' = [worker EXCEPT ![r].found = @ \ {v}] /\ UNCHANGED stored
      BY <1>3 DEF Extract
    <2>2. v \in Var /\ worker[r].pc = "extract"
      BY <1>0, <1>3, <2>1 DEF Thread, Extract
    <2>3. CASE worker' = [worker EXCEPT ![r].found = @ \ {v}, ![r].wrote = @ \union {v}] /\ Upsert(v, r)
      <3>1. PICK f : f = [worker[r] EXCEPT !.found = @ \ {v}, !.wrote = @ \union {v}]
        OBVIOUS
      <3>2. worker' = [worker EXCEPT ![r] = f]
        BY <1>0, <2>3, <3>1 DEF Thread
      <3>3. f.pc = worker[r].pc /\ f.seen = worker[r].seen /\ f.wrote = worker[r].wrote \union {v}
        BY <1>0, <3>1 DEF Thread
      <3>4. worker'[r] = f /\ \A q \in Request : q # r => worker'[q] = worker[q]
        BY <1>0, <3>2
      <3> QED BY <2>2, <2>3, <3>3, <3>4 DEF Upsert
    <2>4. CASE worker' = [worker EXCEPT ![r].found = @ \ {v}] /\ UNCHANGED stored
      BY <1>0, <2>2, <2>4 DEF Thread
    <2> QED BY <2>1, <2>3, <2>4
  <1>4. ASSUME NEW pc, Goto(r, pc), worker[r].pc # "load", stored' = stored
        PROVE  /\ \A q \in Request : q # r => worker'[q] = worker[q]
               /\ worker'[r].seen = worker[r].seen /\ worker'[r].wrote = worker[r].wrote /\ worker'[r].pc = pc
    BY <1>0, <1>4 DEF Goto, Thread
  <1>5. CASE Check(r) \/ Publish(r) \/ Record(r)
    BY <1>4, <1>5 DEF Check, Publish, Record, Published
  <1> QED BY <1>1, <1>2, <1>3, <1>5 DEF WorkerStep

LEMMA ChainThread ==
    ASSUME Inv, Chain, NEW r \in Request, WorkerStep(r)
    PROVE  Chain'
  <1>0. TypeOK /\ r \in Nat /\ r > 0 /\ Sent \in Nat /\ stored \in [Var -> Nat]
    BY Shapes DEF Inv, TypeOK
  <1>1. /\ Sent' = Sent /\ Request' = Request
        /\ \A q \in Request : q # r => worker'[q] = worker[q]
        /\ \A q \in Request : q \in Nat /\ q > 0 /\ q <= Sent /\ worker[q] \in Thread
    BY <1>0, Threads, ThreadData, Shapes
  <1>2. \A x \in Request : x # Sent /\ Published(x)' => Published(x)
    BY <1>0, <1>1, SlotOfThread, ThreadData DEF Published
  <1>3. ASSUME NEW x \in Nat, x <= Sent, NEW q \in Request, Lasting(x, q)
        PROVE  Lasting(x, q)'
    <2>1. CASE x >= q
      BY <2>1 DEF Lasting
    <2>2. CASE ~(x >= q)
      <3>1. x > 0 /\ ~Published(x) /\ x \in Request /\ x # Sent
        BY <1>0, <1>1, <1>3, <2>2 DEF Lasting, Request
      <3> QED BY <1>2, <3>1 DEF Lasting
    <2> QED BY <2>1, <2>2
  <1>4. CASE stored' = stored /\ worker'[r].wrote = worker[r].wrote
             /\ \/ worker'[r].seen = stored
                \/ worker'[r].seen = worker[r].seen /\ worker[r].pc # "load"
    <2>1. \A q \in Request : worker'[q].wrote = worker[q].wrote
      BY <1>1, <1>4
    <2>2. \A q \in Request, v \in Var : worker'[q].seen[v] \in {worker[q].seen[v], stored[v]}
      BY <1>1, <1>4
    <2>3. KnownValues'
      BY <1>1, <1>4, <2>2 DEF Chain, KnownValues
    <2>4. WritesLast'
      <3> SUFFICES ASSUME NEW q \in Request, NEW v \in worker[q].wrote PROVE Lasting(stored[v], q)'
        BY <1>1, <2>1 DEF WritesLast
      <3>1. v \in Var /\ stored[v] \in Nat /\ stored[v] <= Sent /\ Lasting(stored[v], q)
        BY <1>0, <1>1 DEF Chain, WritesLast, KnownValues, Thread
      <3>2. PICK x : x = stored[v]
        OBVIOUS
      <3>3. Lasting(x, q)'
        BY <1>3, <3>1, <3>2
      <3> QED BY <1>4, <3>2, <3>3 DEF Lasting
    <2>5. ASSUME NEW q \in Request, NEW p \in Request, q < p, Published(q)', worker'[p].pc # "load",
                 NEW v \in worker'[q].wrote
          PROVE  Lasting(worker[p].seen[v], q)'
      <3>1. Published(q) /\ v \in worker[q].wrote /\ v \in Var
        BY <1>1, <1>2, <2>1, <2>5 DEF Thread
      <3>2. PICK x : x = worker'[p].seen[v]
        OBVIOUS
      <3>3. CASE x = stored[v]
        BY <1>0, <1>3, <2>5, <3>1, <3>2, <3>3 DEF Chain, WritesLast, KnownValues
      <3>4. CASE x = worker[p].seen[v] /\ worker[p].pc # "load"
        <4>1. Lasting(x, q)
          BY <2>5, <3>1, <3>4 DEF Chain, ChainedValues, Lasting
        <4>2. x \in Nat /\ x <= Sent
          BY <1>1, <3>1, <3>4 DEF Chain, KnownValues, Thread
        <4> QED BY <1>3, <3>2, <4>1, <4>2
      <3> QED BY <1>1, <1>4, <2>5, <3>2, <3>3, <3>4
    <2>6. ChainedValues'
      BY <1>1, <2>5 DEF ChainedValues, Lasting
    <2> QED BY <2>3, <2>4, <2>6 DEF Chain
  <1>5. CASE /\ worker'[r].seen = worker[r].seen /\ worker[r].pc = "extract" /\ worker'[r].pc = "extract"
             /\ \E v \in Var : /\ worker'[r].wrote = worker[r].wrote \union {v}
                               /\ stored' = [stored EXCEPT ![v] = r]
    <2>0. PICK w \in Var : worker'[r].wrote = worker[r].wrote \union {w} /\ stored' = [stored EXCEPT ![w] = r]
      BY <1>5
    <2>1. stored'[w] = r /\ \A v \in Var : v # w => stored'[v] = stored[v]
      BY <1>0, <2>0
    <2>2. \A q \in Request : worker'[q].seen = worker[q].seen
      BY <1>1, <1>5
    <2>3. KnownValues'
      BY <1>1, <2>1, <2>2 DEF Chain, KnownValues
    <2>4. WritesLast'
      <3> SUFFICES ASSUME NEW q \in Request, NEW v \in worker'[q].wrote PROVE Lasting(stored[v], q)'
        BY <1>1 DEF WritesLast
      <3>1. CASE v = w
        <4>1. Lasting(r, q)'
          BY <1>0, <1>1, <1>5 DEF Lasting, Published
        <4> QED BY <2>1, <3>1, <4>1 DEF Lasting
      <3>2. CASE v # w
        <4>1. v \in worker[q].wrote /\ v \in Var
          BY <1>1, <2>0, <3>2 DEF Thread
        <4>2. stored[v] \in Nat /\ stored[v] <= Sent /\ Lasting(stored[v], q)
          BY <1>0, <4>1 DEF Chain, WritesLast, KnownValues
        <4>3. PICK x : x = stored[v]
          OBVIOUS
        <4>4. Lasting(x, q)'
          BY <1>3, <4>2, <4>3
        <4> QED BY <2>1, <3>2, <4>1, <4>3, <4>4 DEF Lasting
      <3> QED BY <3>1, <3>2
    <2>5. ASSUME NEW q \in Request, NEW p \in Request, q < p, Published(q)', worker'[p].pc # "load",
                 NEW v \in worker'[q].wrote
          PROVE  Lasting(worker[p].seen[v], q)'
      <3>1. Published(q) /\ q # r
        BY <1>1, <1>2, <1>5, <2>5 DEF Published
      <3>2. v \in worker[q].wrote /\ v \in Var /\ worker[p].pc # "load"
        BY <1>1, <1>5, <2>5, <3>1 DEF Thread
      <3>3. PICK x : x = worker[p].seen[v]
        OBVIOUS
      <3>4. Lasting(x, q)
        BY <2>5, <3>1, <3>2, <3>3 DEF Chain, ChainedValues, Lasting
      <3>5. x \in Nat /\ x <= Sent
        BY <1>1, <3>2, <3>3 DEF Chain, KnownValues, Thread
      <3>6. Lasting(x, q)'
        BY <1>3, <3>4, <3>5
      <3> QED BY <2>2, <3>3, <3>6
    <2>6. ChainedValues'
      BY <1>1, <2>5 DEF ChainedValues, Lasting
    <2> QED BY <2>3, <2>4, <2>6 DEF Chain
  <1> QED BY <1>0, <1>4, <1>5, ThreadData

LEMMA ChainSend ==
    ASSUME Inv, Chain, Send
    PROVE  Chain'
  <1>0. TypeOK /\ Sent \in Nat /\ stored \in [Var -> Nat] /\ worker \in Seq(Thread) /\ generation \in Nat
    BY Shapes DEF Inv, TypeOK
  <1>1. CASE ~Free
    <2>1. UNCHANGED <<worker, stored>> /\ Sent' = Sent /\ Request' = Request
      BY <1>1 DEF Send, Sent, Request
    <2> QED BY <2>1 DEF Chain, KnownValues, WritesLast, ChainedValues, Lasting, Published
  <1>2. CASE Free
    <2>1. PICK new : new = [pc |-> "load", gen |-> generation + 1, ok |-> TRUE,
                            found |-> {}, wrote |-> {}, seen |-> stored]
      OBVIOUS
    <2>2. new \in Thread /\ new.pc = "load" /\ new.wrote = {} /\ new.seen = stored
      BY <1>0, <2>1 DEF Thread, Pc
    <2>3. worker' = Append(worker, new) /\ stored' = stored
      BY <1>2, <2>1 DEF Send
    <2>4. PICK n \in Nat : n = Sent + 1
      BY <1>0
    <2>5. /\ Sent' = n /\ worker'[n] = new /\ Request' = Request \union {n}
          /\ \A q \in Request : worker'[q] = worker[q] /\ q \in Nat /\ q <= Sent
          /\ \A q \in Request : worker[q] \in Thread
      BY <1>0, <2>2, <2>3, <2>4, Shapes DEF Sent, Request
    <2>6. ASSUME NEW x \in Nat, x <= Sent, NEW q \in Request, Lasting(x, q)
          PROVE  Lasting(x, q)'
      <3>1. x > 0 => x \in Request
        BY <1>0, <2>6 DEF Request
      <3> QED BY <2>5, <2>6, <3>1 DEF Lasting, Published
    <2>7. KnownValues'
      <3>1. \A v \in Var : stored[v] \in Nat /\ stored[v] <= Sent'
        BY <1>0, <2>4, <2>5 DEF Chain, KnownValues
      <3>2. \A p \in Request, v \in Var : worker[p].seen[v] \in Nat /\ worker[p].seen[v] <= Sent'
        BY <1>0, <2>4, <2>5 DEF Chain, KnownValues, Thread
      <3> QED BY <2>2, <2>3, <2>5, <3>1, <3>2 DEF KnownValues
    <2>8. ASSUME NEW q \in Request, NEW v \in worker[q].wrote
          PROVE  Lasting(stored[v], q)'
      <3>1. v \in Var /\ stored[v] \in Nat /\ stored[v] <= Sent /\ Lasting(stored[v], q)
        BY <1>0, <2>5 DEF Chain, WritesLast, KnownValues, Thread
      <3>2. PICK x : x = stored[v]
        OBVIOUS
      <3>3. Lasting(x, q)'
        BY <2>6, <3>1, <3>2
      <3> QED BY <2>3, <3>2, <3>3
    <2>9. WritesLast'
      BY <2>2, <2>5, <2>8 DEF WritesLast
    <2>10. ASSUME NEW q \in Request', NEW p \in Request', q < p, Published(q)', worker'[p].pc # "load",
                  NEW v \in worker'[q].wrote
           PROVE  Lasting(worker[p].seen[v], q)'
      <3>1. q \in Request /\ p \in Request
        BY <2>2, <2>5, <2>10
      <3>2. Published(q) /\ v \in worker[q].wrote /\ v \in Var /\ worker[p].pc # "load"
        BY <2>5, <2>10, <3>1 DEF Published, Thread
      <3>3. PICK x : x = worker[p].seen[v]
        OBVIOUS
      <3>4. Lasting(x, q) /\ x \in Nat /\ x <= Sent
        BY <2>5, <2>10, <3>1, <3>2, <3>3 DEF Chain, ChainedValues, KnownValues, Lasting, Thread
      <3>5. Lasting(x, q)'
        BY <2>6, <3>1, <3>4
      <3> QED BY <2>5, <3>1, <3>3, <3>5
    <2>11. ChainedValues'
      BY <2>10 DEF ChainedValues, Lasting
    <2> QED BY <2>7, <2>9, <2>11 DEF Chain
  <1> QED BY <1>1, <1>2

\* (service.rs: send_request, upsert_variable) What a published answer stored
\* is what later requests resolve, unless a later request or one that was given
\* up wrote over it: see ChainedValues.
THEOREM ValuesChain == Spec => []ChainedValues
  <1>1. Init => Chain
    <2> SUFFICES ASSUME Init PROVE Chain
      OBVIOUS
    <2>1. Sent = 0 /\ Request = {}
      BY DEF Init, Sent, Request
    <2> QED BY <2>1 DEF Init, Chain, KnownValues, WritesLast, ChainedValues
  <1>2. Inv /\ Chain /\ [Next]_vars => Chain'
    <2> SUFFICES ASSUME Inv, Chain, [Next]_vars PROVE Chain'
      OBVIOUS
    <2>1. CASE Cancel \/ Render \/ Drain \/ UNCHANGED vars
      <3>1. UNCHANGED <<worker, stored>>
        BY <2>1 DEF Cancel, CancelBump, CancelFree, Render, Drain, TakeResponse, TakeError, ShowButton, vars
      <3>2. Sent' = Sent /\ Request' = Request
        BY <3>1 DEF Sent, Request
      <3> QED BY <3>1, <3>2 DEF Chain, KnownValues, WritesLast, ChainedValues, Lasting, Published
    <2> QED BY <2>1, ChainThread, ChainSend DEF Next
  <1>3. Chain => ChainedValues
    BY DEF Chain
  <1> QED BY <1>1, <1>2, <1>3, Invariance, PTL DEF Spec

-----------------------------------------------------------------------------
(* Induction over a set of natural numbers, from the fact that the finite   *)
(* sets are well-founded under inclusion.                                   *)

LEMMA Induction ==
    ASSUME NEW S, 0 \in S, \A n \in Nat : n \in S => n + 1 \in S
    PROVE  Nat \subseteq S
  <1> SUFFICES ASSUME NEW n \in Nat, n \notin S PROVE FALSE
    OBVIOUS
  <1> DEFINE T == {0..k : k \in Nat \ S}
             R == StrictSubsetOrdering(Nat)
             F == FiniteSubsetsOf(Nat)
  <1>1. IsWellFoundedOn(R, F)
    BY FS_StrictSubsetOrderingWellFounded
  <1>2. T \subseteq F /\ T # {}
    <2>1. \A k \in Nat : 0..k \in SUBSET Nat /\ IsFiniteSet(0..k)
      BY FS_Interval
    <2> QED BY <2>1 DEF FiniteSubsetsOf
  <1>3. PICK x \in T : \A y \in T : <<y, x>> \notin R
    <2> HIDE DEF T, R, F
    <2> QED BY <1>1, <1>2, WFMin
  <1>4. PICK k \in Nat \ S : x = 0..k
    OBVIOUS
  <1>5. k # 0 /\ k - 1 \in Nat \ S
    OBVIOUS
  <1>6. <<0..(k - 1), x>> \in R
    <2>1. /\ 0..(k - 1) \subseteq 0..k /\ k \in 0..k /\ k \notin 0..(k - 1)
          /\ 0..k \subseteq Nat /\ 0..(k - 1) \subseteq Nat
      BY <1>4, <1>5
    <2>2. 0..(k - 1) # 0..k
      BY <2>1
    <2> QED BY <2>1, <2>2, <1>4 DEF StrictSubsetOrdering
  <1>7. 0..(k - 1) \in T
    BY <1>5
  <1> QED BY <1>3, <1>6, <1>7

\* The same up to a bound.
LEMMA InductionTo ==
    ASSUME NEW n \in Nat, NEW S, 0 \in S, \A k \in 0..n : k < n /\ k \in S => k + 1 \in S
    PROVE  0..n \subseteq S
  <1> DEFINE G == S \union {k \in Nat : k > n}
  <1>1. 0 \in G /\ \A k \in Nat : k \in G => k + 1 \in G
    OBVIOUS
  <1> HIDE DEF G
  <1>2. Nat \subseteq G
    BY <1>1, Induction
  <1> QED BY <1>2 DEF G

-----------------------------------------------------------------------------
(* A function defined by recursion over its arguments 0..n.                *)

Recurs(X, b, n, F) == \E g \in [0..n -> X] : g[0] = b /\ \A k \in 1..n : g[k] = F[k][g[k - 1]]

LEMMA Recursion ==
    ASSUME NEW X, NEW b \in X, NEW n \in Nat, NEW F \in [1..n -> [X -> X]]
    PROVE  Recurs(X, b, n, F)
  <1> DEFINE Starts(m) == {g \in [0..m -> X] : g[0] = b /\ \A k \in 1..m : g[k] = F[k][g[k - 1]]}
             S == {m \in 0..n : Starts(m) # {}}
  <1>1. 0 \in S
    <2>1. [k \in 0..0 |-> b] \in Starts(0)
      OBVIOUS
    <2> QED BY <2>1
  <1>2. ASSUME NEW m \in 0..n, m < n, m \in S PROVE m + 1 \in S
    <2>1. PICK g \in [0..m -> X] : g[0] = b /\ \A k \in 1..m : g[k] = F[k][g[k - 1]]
      BY <1>2
    <2> DEFINE h == [k \in 0..(m + 1) |-> IF k = m + 1 THEN F[k][g[m]] ELSE g[k]]
    <2>2. F[m + 1] \in [X -> X] /\ g[m] \in X
      BY <1>2
    <2>3. h \in [0..(m + 1) -> X]
      BY <2>2
    <2>4. h[0] = b /\ \A k \in 1..(m + 1) : h[k] = F[k][h[k - 1]]
      BY <2>1
    <2>5. h \in Starts(m + 1)
      BY <2>3, <2>4
    <2>6. m + 1 \in 0..n
      BY <1>2
    <2> HIDE DEF Starts, h
    <2> QED BY <2>5, <2>6
  <1> HIDE DEF S
  <1>3. 0..n \subseteq S
    BY <1>1, <1>2, InductionTo
  <1>4. n \in S
    BY <1>3
  <1> QED BY <1>4 DEF S, Recurs

-----------------------------------------------------------------------------
(* Operators of the collection.                                            *)

LEMMA InSeq ==
    ASSUME NEW D, NEW n \in Nat, NEW f \in [1..n -> D]
    PROVE  f \in Seq(D)
  BY SeqDef

\* What is kept of a list: the elements at the positions, each once.
KeptAt(list, I, o, n, h) ==
    /\ h \in [1..Len(o) -> {i \in 1..n : i \in I}]
    /\ \A k \in 1..Len(o) : o[k] = list[h[k]]
    /\ \A k, m \in 1..Len(o) : h[k] = h[m] => k = m
    /\ \A i \in 1..n : i \in I => \E k \in 1..Len(o) : h[k] = i

Kept(list, I, o, n) == \E h : KeptAt(list, I, o, n, h)

LEMMA OnlyIs ==
    ASSUME NEW C, NEW list \in Seq(C), NEW I
    PROVE  Only(list, I) \in Seq(C) /\ Kept(list, I, Only(list, I), Len(list))
  <1> DEFINE N == Len(list)
             F == [n \in 1..N |-> [x \in Seq(C) |-> IF n \in I THEN Append(x, list[n]) ELSE x]]
             Is(f) == f = [n \in 0..N |-> IF n = 0 THEN <<>>
                                          ELSE IF n \in I THEN Append(f[n - 1], list[n]) ELSE f[n - 1]]
  <1>1. N \in Nat /\ \A n \in 1..N : list[n] \in C
    OBVIOUS
  <1>2. F \in [1..N -> [Seq(C) -> Seq(C)]]
    <2>1. \A n \in 1..N, x \in Seq(C) : (IF n \in I THEN Append(x, list[n]) ELSE x) \in Seq(C)
      BY <1>1, AppendProperties
    <2> QED BY <2>1
  <1>3. PICK g \in [0..N -> Seq(C)] : g[0] = <<>> /\ \A n \in 1..N : g[n] = F[n][g[n - 1]]
    <2> DEFINE X == Seq(C)
               b == <<>>
    <2>1. N \in Nat /\ b \in X /\ F \in [1..N -> [X -> X]]
      BY <1>1, <1>2
    <2> HIDE DEF F, N, X, b
    <2>2. Recurs(X, b, N, F)
      BY <2>1, Recursion
    <2> QED BY <2>2 DEF Recurs, X, b
  <1>4. ASSUME NEW n \in 1..N PROVE g[n] = IF n \in I THEN Append(g[n - 1], list[n]) ELSE g[n - 1]
    <2>1. n - 1 \in 0..N /\ g[n - 1] \in Seq(C)
      OBVIOUS
    <2>2. g[n] = F[n][g[n - 1]]
      BY <1>3
    <2> QED BY <2>1, <2>2
  <1>5. Is(g)
    <2> HIDE DEF F, N
    <2>1. \A n \in 0..N : g[n] = IF n = 0 THEN <<>>
                                 ELSE IF n \in I THEN Append(g[n - 1], list[n]) ELSE g[n - 1]
      <3>1. \A n \in 0..N : n = 0 \/ n \in 1..N
        BY <1>1
      <3>2. \A n \in 1..N : n # 0
        BY <1>1
      <3> QED BY <3>1, <3>2, <1>3, <1>4
    <2>2. g = [n \in 0..N |-> g[n]]
      BY <1>3
    <2> QED BY <2>1, <2>2
  <1> DEFINE kept == CHOOSE f : Is(f)
  <1>6. Is(kept)
    <2> HIDE DEF Is
    <2> QED BY <1>5
  <1>7. Only(list, I) = kept[N]
    BY DEF Only
  <1> HIDE DEF kept, F
  <1> DEFINE S == {n \in 0..N : kept[n] \in Seq(C) /\ Kept(list, I, kept[n], n)}
  <1>8. 0 \in S
    <2>1. kept[0] = <<>>
      BY <1>1, <1>6
    <2>2. KeptAt(list, I, <<>>, 0, [k \in 1..0 |-> 0])
      BY DEF KeptAt
    <2>3. Kept(list, I, <<>>, 0)
      BY <2>2 DEF Kept
    <2>4. <<>> \in Seq(C) /\ 0 \in 0..N
      BY <1>1
    <2> HIDE DEF N
    <2> QED BY <2>1, <2>3, <2>4
  <1>9. ASSUME NEW n \in 0..N, n < N, n \in S PROVE n + 1 \in S
    <2>1. /\ kept[n + 1] = IF n + 1 \in I THEN Append(kept[n], list[n + 1]) ELSE kept[n]
          /\ n + 1 \in 1..N /\ n + 1 \in 0..N
      <3>1. n + 1 \in 0..N /\ n + 1 # 0 /\ (n + 1) - 1 = n /\ n + 1 \in 1..N
        BY <1>9, <1>1
      <3> HIDE DEF N
      <3> QED BY <3>1, <1>6
    <2>2. PICK h : KeptAt(list, I, kept[n], n, h)
      BY <1>9 DEF Kept
    <2>3. CASE n + 1 \notin I
      <3>1. KeptAt(list, I, kept[n], n + 1, h)
        <4>1. \A i \in 1..(n + 1) : i \in I => i \in 1..n
          BY <2>3, <1>1
        <4>2. \A i \in 1..n : i \in 1..(n + 1)
          BY <1>1
        <4> QED BY <2>2, <4>1, <4>2 DEF KeptAt
      <3> QED BY <3>1, <2>1, <2>3, <1>9 DEF Kept
    <2>4. CASE n + 1 \in I
      <3> DEFINE o == kept[n]
                 a == Append(o, list[n + 1])
                 e == [k \in 1..(Len(o) + 1) |-> IF k = Len(o) + 1 THEN n + 1 ELSE h[k]]
      <3>1. o \in Seq(C) /\ list[n + 1] \in C
        BY <1>9, <1>1, <2>1
      <3>2. /\ a \in Seq(C) /\ Len(a) = Len(o) + 1 /\ a[Len(o) + 1] = list[n + 1]
            /\ \A k \in 1..Len(o) : a[k] = o[k]
        BY <3>1, AppendProperties
      <3>3. KeptAt(list, I, a, n + 1, e)
        <4> HIDE DEF o, a
        <4>1. Len(o) \in Nat
          BY <3>1
        <4>2. /\ h \in [1..Len(o) -> {i \in 1..n : i \in I}]
              /\ \A k \in 1..Len(o) : o[k] = list[h[k]]
              /\ \A k, m \in 1..Len(o) : h[k] = h[m] => k = m
              /\ \A i \in 1..n : i \in I => \E k \in 1..Len(o) : h[k] = i
          BY <2>2 DEF KeptAt, o
        <4>3. \A k \in 1..Len(o) : k \in 1..(Len(o) + 1) /\ k # Len(o) + 1 /\ h[k] \in 1..n /\ h[k] \in I
          BY <4>1, <4>2
        <4>4. \A k \in 1..(Len(o) + 1) : k = Len(o) + 1 \/ k \in 1..Len(o)
          BY <4>1
        <4>5. n \in Nat /\ \A i \in 1..n : i # n + 1 /\ i \in 1..(n + 1)
          BY <1>1
        <4>6. \A k \in 1..Len(o) : e[k] = h[k]
          BY <4>3
        <4>7. e[Len(o) + 1] = n + 1
          BY <4>1
        <4>8. e \in [1..Len(a) -> {i \in 1..(n + 1) : i \in I}]
          BY <2>4, <3>2, <4>3, <4>4, <4>5
        <4>9. \A k \in 1..Len(a) : a[k] = list[e[k]]
          BY <3>2, <4>2, <4>4, <4>6, <4>7
        <4>10. \A k, m \in 1..Len(a) : e[k] = e[m] => k = m
          BY <3>2, <4>2, <4>3, <4>4, <4>5, <4>6, <4>7
        <4>11. \A i \in 1..(n + 1) : i \in I => \E k \in 1..Len(a) : e[k] = i
          <5> TAKE i \in 1..(n + 1)
          <5>1. CASE i = n + 1
            BY <5>1, <4>7, <4>1, <3>2
          <5>2. CASE i # n + 1 /\ i \in I
            <6>1. i \in 1..n
              BY <5>2
            <6>2. PICK k \in 1..Len(o) : h[k] = i
              BY <6>1, <5>2, <4>2
            <6> QED BY <6>2, <4>6, <4>3, <3>2
          <5> QED BY <5>1, <5>2
        <4> HIDE DEF e
        <4> QED BY <4>8, <4>9, <4>10, <4>11 DEF KeptAt
      <3> HIDE DEF e
      <3> QED BY <3>2, <3>3, <2>1, <2>4 DEF Kept
    <2> QED BY <2>3, <2>4
  <1>10. N \in S
    <2> HIDE DEF S, N
    <2>1. 0..N \subseteq S
      BY <1>1, <1>8, <1>9, InductionTo
    <2> QED BY <2>1, <1>1
  <1> QED BY <1>10, <1>7

LEMMA OnlySet ==
    ASSUME NEW C, NEW list \in Seq(C), NEW I
    PROVE  /\ Only(list, I) \in Seq(C)
           /\ \A x : x \in ToSet(Only(list, I)) <=> \E i \in DOMAIN list : i \in I /\ x = list[i]
  <1> DEFINE o == Only(list, I)
  <1>1. o \in Seq(C) /\ Kept(list, I, o, Len(list))
    BY OnlyIs
  <1> HIDE DEF o
  <1>2. PICK h : KeptAt(list, I, o, Len(list), h)
    BY <1>1 DEF Kept
  <1>3. DOMAIN list = 1..Len(list) /\ DOMAIN o = 1..Len(o)
    BY <1>1
  <1>4. ASSUME NEW x, x \in ToSet(o) PROVE \E i \in DOMAIN list : i \in I /\ x = list[i]
    <2>1. PICK k \in 1..Len(o) : x = o[k]
      BY <1>4, <1>3 DEF ToSet
    <2> QED BY <2>1, <1>2, <1>3 DEF KeptAt
  <1>5. ASSUME NEW i \in DOMAIN list, i \in I PROVE list[i] \in ToSet(o)
    <2>1. PICK k \in 1..Len(o) : h[k] = i
      BY <1>5, <1>2, <1>3 DEF KeptAt
    <2>2. o[k] = list[i]
      BY <2>1, <1>2 DEF KeptAt
    <2> QED BY <2>1, <2>2, <1>3 DEF ToSet
  <1>6. \A x : x \in ToSet(o) <=> \E i \in DOMAIN list : i \in I /\ x = list[i]
    BY <1>4, <1>5
  <1> QED BY <1>1, <1>6 DEF o

LEMMA JoinSet ==
    ASSUME NEW C, NEW s \in Seq(C), NEW u \in Seq(C)
    PROVE  s \o u \in Seq(C) /\ \A x : x \in ToSet(s \o u) <=> x \in ToSet(s) \/ x \in ToSet(u)
  <1> DEFINE v == s \o u
  <1>1. /\ v \in Seq(C) /\ Len(v) = Len(s) + Len(u)
        /\ \A i \in 1..(Len(s) + Len(u)) : v[i] = IF i <= Len(s) THEN s[i] ELSE u[i - Len(s)]
    BY ConcatProperties
  <1> HIDE DEF v
  <1>2. Len(s) \in Nat /\ Len(u) \in Nat
    OBVIOUS
  <1>3. DOMAIN s = 1..Len(s) /\ DOMAIN u = 1..Len(u) /\ DOMAIN v = 1..(Len(s) + Len(u))
    BY <1>1
  <1>4. ASSUME NEW x, x \in ToSet(v) PROVE x \in ToSet(s) \/ x \in ToSet(u)
    <2>1. PICK i \in 1..(Len(s) + Len(u)) : x = v[i]
      BY <1>4, <1>3 DEF ToSet
    <2>2. CASE i <= Len(s)
      <3>1. i \in 1..Len(s) /\ x = s[i]
        BY <2>1, <2>2, <1>1, <1>2
      <3> QED BY <3>1, <1>3 DEF ToSet
    <2>3. CASE ~(i <= Len(s))
      <3>1. i - Len(s) \in 1..Len(u) /\ x = u[i - Len(s)]
        BY <2>1, <2>3, <1>1, <1>2
      <3> QED BY <3>1, <1>3 DEF ToSet
    <2> QED BY <2>2, <2>3
  <1>5. ASSUME NEW i \in 1..Len(s) PROVE s[i] \in ToSet(v)
    <2>1. i \in 1..(Len(s) + Len(u)) /\ i <= Len(s)
      BY <1>2
    <2>2. v[i] = s[i]
      BY <2>1, <1>1
    <2> QED BY <2>1, <2>2, <1>3 DEF ToSet
  <1>6. ASSUME NEW i \in 1..Len(u) PROVE u[i] \in ToSet(v)
    <2>1. Len(s) + i \in 1..(Len(s) + Len(u)) /\ ~(Len(s) + i <= Len(s)) /\ (Len(s) + i) - Len(s) = i
      BY <1>2
    <2>2. v[Len(s) + i] = u[i]
      BY <2>1, <1>1
    <2> QED BY <2>1, <2>2, <1>3 DEF ToSet
  <1>7. \A x : x \in ToSet(s) \/ x \in ToSet(u) => x \in ToSet(v)
    BY <1>5, <1>6, <1>3 DEF ToSet
  <1> QED BY <1>1, <1>4, <1>7 DEF v

LEMMA Flattened ==
    ASSUME NEW C, NEW s \in Seq(Seq(C))
    PROVE  /\ FlattenSeq(s) \in Seq(C)
           /\ \A x : x \in ToSet(FlattenSeq(s)) <=> \E k \in DOMAIN s : x \in ToSet(s[k])
  <1>1. CASE Len(s) = 0
    <2>1. s = <<>> /\ DOMAIN s = {}
      BY <1>1, EmptySeq
    <2>2. FlattenSeq(s) = <<>>
      BY <1>1, <2>1 DEF FlattenSeq
    <2>3. <<>> \in Seq(C) /\ ToSet(<<>>) = {}
      BY DEF ToSet
    <2> QED BY <2>1, <2>2, <2>3
  <1>2. CASE Len(s) # 0
    <2> DEFINE n == Len(s)
               F == [k \in 1..n |-> [x \in Seq(C) |-> IF k = 1 THEN s[1] ELSE x \o s[k]]]
               Is(f) == f = [i \in 1..n |-> IF i = 1 THEN s[i] ELSE f[i - 1] \o s[i]]
    <2>1. n \in Nat \ {0} /\ \A k \in 1..n : s[k] \in Seq(C)
      BY <1>2
    <2>2. F \in [1..n -> [Seq(C) -> Seq(C)]]
      <3>1. \A k \in 1..n, x \in Seq(C) : (IF k = 1 THEN s[1] ELSE x \o s[k]) \in Seq(C)
        BY <2>1, ConcatProperties
      <3> QED BY <3>1
    <2>3. <<>> \in Seq(C)
      OBVIOUS
    <2>4. PICK g \in [0..n -> Seq(C)] : g[0] = <<>> /\ \A k \in 1..n : g[k] = F[k][g[k - 1]]
      <3> DEFINE X == Seq(C)
                 b == <<>>
      <3>1. n \in Nat /\ b \in X /\ F \in [1..n -> [X -> X]]
        BY <2>1, <2>2, <2>3
      <3> HIDE DEF F, n, X, b
      <3>2. Recurs(X, b, n, F)
        BY <3>1, Recursion
      <3> QED BY <3>2 DEF Recurs, X, b
    <2> DEFINE f == [k \in 1..n |-> g[k]]
    <2>5. Is(f)
      <3>1. ASSUME NEW k \in 1..n PROVE f[k] = IF k = 1 THEN s[k] ELSE f[k - 1] \o s[k]
        <4>1. g[k] = F[k][g[k - 1]] /\ g[k - 1] \in Seq(C)
          <5>1. k - 1 \in 0..n
            BY <2>1
          <5> HIDE DEF F, n
          <5> QED BY <2>4, <5>1
        <4>2. g[k] = IF k = 1 THEN s[1] ELSE g[k - 1] \o s[k]
          BY <4>1
        <4>3. k # 1 => k - 1 \in 1..n
          OBVIOUS
        <4> QED BY <4>2, <4>3
      <3> QED BY <3>1
    <2> DEFINE h == CHOOSE x : Is(x)
    <2> HIDE DEF f
    <2>6. Is(h)
      <3> HIDE DEF Is
      <3> QED BY <2>5
    <2>7. FlattenSeq(s) = h[n]
      BY <1>2 DEF FlattenSeq
    <2> HIDE DEF h
    <2> DEFINE Holds(k) == /\ h[k] \in Seq(C)
                           /\ \A x : x \in ToSet(h[k]) <=> \E m \in 1..k : x \in ToSet(s[m])
    <2>8. ASSUME NEW k \in 0..n, k < n, k = 0 \/ Holds(k) PROVE Holds(k + 1)
      <3>1. k + 1 \in 1..n /\ (k + 1) - 1 = k /\ (k + 1 = 1 <=> k = 0)
        BY <2>8, <2>1
      <3>2. h[k + 1] = IF k + 1 = 1 THEN s[k + 1] ELSE h[(k + 1) - 1] \o s[k + 1]
        BY <3>1, <2>6
      <3>3. s[k + 1] \in Seq(C)
        BY <2>1, <3>1
      <3>4. CASE k = 0
        <4>1. h[k + 1] = s[k + 1] /\ \A m \in 1..(k + 1) : m = k + 1
          BY <3>4, <3>1, <3>2
        <4>2. k + 1 \in 1..(k + 1)
          BY <3>1
        <4> HIDE DEF h, n
        <4> QED BY <4>1, <4>2, <3>3
      <3>5. CASE k # 0
        <4>1. h[k + 1] = h[k] \o s[k + 1] /\ Holds(k)
          BY <3>5, <3>1, <3>2, <2>8
        <4>2. /\ h[k + 1] \in Seq(C)
              /\ \A x : x \in ToSet(h[k + 1]) <=> x \in ToSet(h[k]) \/ x \in ToSet(s[k + 1])
          BY <4>1, <3>3, JoinSet
        <4>3. \A m : m \in 1..(k + 1) <=> m \in 1..k \/ m = k + 1
          BY <2>1
        <4> HIDE DEF n
        <4> QED BY <4>1, <4>2, <4>3
      <3> QED BY <3>4, <3>5
    <2> DEFINE S == {k \in 0..n : k = 0 \/ Holds(k)}
    <2> HIDE DEF Holds
    <2>9. 0..n \subseteq S
      <3> HIDE DEF n
      <3>1. 0 \in S
        BY <2>1
      <3>2. \A k \in 0..n : k < n /\ k \in S => k + 1 \in S
        BY <2>8, <2>1
      <3> HIDE DEF S
      <3> QED BY <2>1, <3>1, <3>2, InductionTo
    <2>10. Holds(n)
      BY <2>9, <2>1
    <2>11. DOMAIN s = 1..n
      OBVIOUS
    <2> QED BY <2>7, <2>10, <2>11 DEF Holds
  <1> QED BY <1>1, <1>2

\* A walk over what has ranks that grow from a node to those next to it.
Ranked(next, S, rank, N) ==
    /\ next \in [S -> Seq(S)] /\ rank \in [S -> 0..N]
    /\ \A p \in S : \A i \in DOMAIN next[p] : rank[p] < rank[next[p][i]]

Step(own, next, w, p) == own[p] \o FlattenSeq([i \in DOMAIN next[p] |-> w[next[p][i]]])

Gathers(own, next, w, p, s) ==
    \A x : x \in ToSet(s) <=> x \in ToSet(own[p]) \/ \E i \in DOMAIN next[p] : x \in ToSet(w[next[p][i]])

LEMMA StepIs ==
    ASSUME NEW S, NEW C, NEW own \in [S -> Seq(C)], NEW next \in [S -> Seq(S)], NEW w, NEW p \in S,
           \A i \in DOMAIN next[p] : w[next[p][i]] \in Seq(C)
    PROVE  /\ Step(own, next, w, p) \in Seq(C)
           /\ Gathers(own, next, w, p, Step(own, next, w, p))
  <1> DEFINE s == [i \in DOMAIN next[p] |-> w[next[p][i]]]
  <1>1. next[p] \in Seq(S) /\ own[p] \in Seq(C)
    OBVIOUS
  <1>2. s \in Seq(Seq(C)) /\ DOMAIN s = DOMAIN next[p]
    <2>1. DOMAIN next[p] = 1..Len(next[p]) /\ Len(next[p]) \in Nat
      BY <1>1
    <2>2. s \in [1..Len(next[p]) -> Seq(C)]
      BY <2>1
    <2> HIDE DEF s
    <2>3. s \in Seq(Seq(C))
      <3> DEFINE D == Seq(C)
                 n == Len(next[p])
      <3>1. n \in Nat /\ s \in [1..n -> D]
        BY <2>1, <2>2
      <3> HIDE DEF D, n
      <3> QED BY <3>1, InSeq DEF D
    <2>4. DOMAIN s = DOMAIN next[p]
      BY DEF s
    <2> QED BY <2>3, <2>4
  <1>3. \A i \in DOMAIN s : s[i] = w[next[p][i]]
    OBVIOUS
  <1> HIDE DEF s
  <1>4. /\ FlattenSeq(s) \in Seq(C)
        /\ \A x : x \in ToSet(FlattenSeq(s)) <=> \E k \in DOMAIN s : x \in ToSet(s[k])
    BY <1>2, Flattened
  <1>5. /\ own[p] \o FlattenSeq(s) \in Seq(C)
        /\ \A x : x \in ToSet(own[p] \o FlattenSeq(s)) <=>
               x \in ToSet(own[p]) \/ x \in ToSet(FlattenSeq(s))
    BY <1>1, <1>4, JoinSet
  <1>6. Step(own, next, w, p) = own[p] \o FlattenSeq(s)
    BY DEF Step, s
  <1> QED BY <1>2, <1>3, <1>4, <1>5, <1>6 DEF Gathers

LEMMA WalkIs ==
    ASSUME NEW S, NEW C, NEW own \in [S -> Seq(C)], NEW next, NEW N \in Nat, NEW rank,
           Ranked(next, S, rank, N)
    PROVE  /\ Walk(own, next) \in [S -> Seq(C)]
           /\ \A p \in S : Gathers(own, next, Walk(own, next), p, Walk(own, next)[p])
  <1> DEFINE X == [S -> Seq(C)]
             All(w) == [p \in S |-> Step(own, next, w, p)]
             F == [n \in 1..(N + 1) |-> [w \in X |-> All(w)]]
  <1>1. next \in [S -> Seq(S)] /\ DOMAIN own = S
    BY DEF Ranked
  <1>2. \A p \in S : \A i \in DOMAIN next[p] :
            next[p][i] \in S /\ rank[p] \in 0..N /\ rank[next[p][i]] \in 0..N /\ rank[p] < rank[next[p][i]]
    BY DEF Ranked
  <1>3. ASSUME NEW w \in X PROVE All(w) \in X
    <2>1. ASSUME NEW p \in S PROVE Step(own, next, w, p) \in Seq(C)
      <3>1. \A i \in DOMAIN next[p] : w[next[p][i]] \in Seq(C)
        BY <1>2
      <3> QED BY <3>1, <1>1, StepIs
    <2> QED BY <2>1
  <1>4. PICK g \in [0..(N + 1) -> X] : \A n \in 1..(N + 1) : g[n] = F[n][g[n - 1]]
    <2> DEFINE M == N + 1
               Z == X
    <2>1. M \in Nat /\ own \in Z /\ F \in [1..M -> [Z -> Z]]
      BY <1>3
    <2> HIDE DEF F, M, Z
    <2>2. Recurs(Z, own, M, F)
      BY <2>1, Recursion
    <2> QED BY <2>2 DEF Recurs, M, Z
  <1>5. ASSUME NEW n \in 0..N PROVE g[n + 1] = All(g[n]) /\ g[n] \in X /\ g[n + 1] \in X
    <2>1. n + 1 \in 1..(N + 1) /\ n \in 0..(N + 1) /\ (n + 1) - 1 = n /\ n + 1 \in 0..(N + 1)
      OBVIOUS
    <2>2. g[n + 1] = F[n + 1][g[n]] /\ g[n] \in X /\ g[n + 1] \in X
      <3> HIDE DEF F, X
      <3> QED BY <2>1, <1>4
    <2> HIDE DEF X
    <2> QED BY <2>1, <2>2
  <1> HIDE DEF F, X
  <1> DEFINE Same(n) == \A p \in S : N < rank[p] + n => g[n][p] = Step(own, next, g[n], p)
             T == {n \in 0..(N + 1) : Same(n)}
  <1>6. 0 \in T
    BY DEF Ranked
  <1>7. ASSUME NEW n \in 0..(N + 1), n < N + 1, n \in T PROVE n + 1 \in T
    <2>1. n \in 0..N /\ n + 1 \in 0..(N + 1)
      BY <1>7
    <2>2. ASSUME NEW p \in S, N < rank[p] + (n + 1) PROVE g[n + 1][p] = Step(own, next, g[n + 1], p)
      <3>1. ASSUME NEW i \in DOMAIN next[p] PROVE g[n + 1][next[p][i]] = g[n][next[p][i]]
        <4>1. next[p][i] \in S /\ N < rank[next[p][i]] + n
          BY <1>2, <2>1, <2>2
        <4>2. g[n][next[p][i]] = Step(own, next, g[n], next[p][i])
          BY <4>1, <1>7
        <4> QED BY <4>1, <4>2, <1>5, <2>1
      <3>2. Step(own, next, g[n + 1], p) = Step(own, next, g[n], p)
        <4>1. [i \in DOMAIN next[p] |-> g[n + 1][next[p][i]]] = [i \in DOMAIN next[p] |-> g[n][next[p][i]]]
          BY <3>1
        <4> QED BY <4>1 DEF Step
      <3>3. g[n + 1][p] = Step(own, next, g[n], p)
        BY <1>5, <2>1
      <3> QED BY <3>2, <3>3
    <2> QED BY <2>1, <2>2
  <1>8. N + 1 \in T
    <2> DEFINE M == N + 1
    <2>1. M \in Nat /\ M \in 0..M
      OBVIOUS
    <2>2. 0 \in T /\ \A n \in 0..M : n < M /\ n \in T => n + 1 \in T
      BY <1>6, <1>7
    <2> HIDE DEF T, M
    <2>3. 0..M \subseteq T
      BY <2>1, <2>2, InductionTo
    <2> QED BY <2>1, <2>3 DEF M
  <1> DEFINE Is(f) == f = [p \in DOMAIN own |-> own[p] \o FlattenSeq([i \in DOMAIN next[p] |-> f[next[p][i]]])]
             f1 == [p \in S |-> g[N + 1][p]]
  <1>9. Is(f1)
    <2>1. g[N + 1] \in X /\ \A p \in S : g[N + 1][p] = Step(own, next, g[N + 1], p)
      <3>1. \A p \in S : N < rank[p] + (N + 1)
        BY DEF Ranked
      <3>2. N + 1 \in 0..(N + 1)
        OBVIOUS
      <3> QED BY <1>4, <1>8, <3>1, <3>2
    <2>2. f1 = g[N + 1]
      BY <2>1 DEF X
    <2> DEFINE f2 == g[N + 1]
    <2>3. f2 \in [S -> Seq(C)] /\ \A p \in S : f2[p] = Step(own, next, f2, p)
      BY <2>1 DEF X
    <2> HIDE DEF f2
    <2>4. f2 = [p \in S |-> own[p] \o FlattenSeq([i \in DOMAIN next[p] |-> f2[next[p][i]]])]
      BY <2>3 DEF Step
    <2> HIDE DEF f1
    <2> QED BY <2>2, <2>4, <1>1 DEF f2
  <1> DEFINE w == CHOOSE f : Is(f)
  <1>10. Is(w)
    <2> HIDE DEF Is, f1
    <2> QED BY <1>9
  <1>11. Walk(own, next) = w
    BY DEF Walk
  <1> HIDE DEF w
  <1>12. \A p \in S : w[p] = Step(own, next, w, p)
    BY <1>1, <1>10 DEF Step
  <1>13. w = [p \in S |-> w[p]]
    BY <1>1, <1>10
  <1> DEFINE U == {n \in 0..(N + 1) : \A p \in S : N < rank[p] + n => w[p] \in Seq(C)}
  <1>14. 0 \in U
    BY DEF Ranked
  <1>15. ASSUME NEW n \in 0..(N + 1), n < N + 1, n \in U PROVE n + 1 \in U
    <2>1. n + 1 \in 0..(N + 1)
      BY <1>15
    <2>2. ASSUME NEW p \in S, N < rank[p] + (n + 1) PROVE w[p] \in Seq(C)
      <3>1. ASSUME NEW i \in DOMAIN next[p] PROVE w[next[p][i]] \in Seq(C)
        <4>1. next[p][i] \in S /\ N < rank[next[p][i]] + n
          BY <1>2, <2>2
        <4> QED BY <4>1, <1>15
      <3>2. Step(own, next, w, p) \in Seq(C)
        BY <3>1, <1>1, StepIs
      <3> QED BY <3>2, <1>12
    <2> QED BY <2>1, <2>2
  <1>16. N + 1 \in U
    <2> DEFINE M == N + 1
    <2>1. M \in Nat /\ M \in 0..M
      OBVIOUS
    <2>2. 0 \in U /\ \A n \in 0..M : n < M /\ n \in U => n + 1 \in U
      BY <1>14, <1>15
    <2> HIDE DEF U, M
    <2>3. 0..M \subseteq U
      BY <2>1, <2>2, InductionTo
    <2> QED BY <2>1, <2>3 DEF M
  <1>17. \A p \in S : w[p] \in Seq(C)
    <2>1. \A p \in S : N < rank[p] + (N + 1)
      BY DEF Ranked
    <2> QED BY <1>16, <2>1
  <1>18. w \in [S -> Seq(C)]
    BY <1>13, <1>17
  <1>19. ASSUME NEW p \in S PROVE Gathers(own, next, w, p, w[p])
    <2>1. \A i \in DOMAIN next[p] : w[next[p][i]] \in Seq(C)
      BY <1>2, <1>17
    <2>2. Gathers(own, next, w, p, Step(own, next, w, p))
      BY <2>1, <1>1, StepIs
    <2> QED BY <2>2, <1>12
  <1> QED BY <1>11, <1>18, <1>19

-----------------------------------------------------------------------------
(* What the variables of the workspace hold.                               *)

Forms      == [head : Text, data : Text]
Items      == [id : Nat, text : Text]
Requests   == [id : Text, text : Text, cases : Seq(Items)]
Trees      == [folders : SUBSET Nat, requests : Seq(Requests)]
Listed     == [id : Text, head : Text, data : Text]
EnvsTo(n)  == {e \in Listed : e.id \in 0..n}
RowsTo(n)  == {r \in Rows : r.id <= n}
Lists      == {l \in Seq(Listed) : l # <<>>}

\* The steps of a command, once so many ids were given out.
Steps(b) ==
         [do : {"tree"}]
    \cup [do : {"envs"}, tree : Trees]
    \cup [do : {"publish"}, tree : Trees, envs : Lists]
    \cup [do : {"insert"}, row : RowsTo(b.node)]
    \cup {s \in [do : {"parent"}, parent : Nat, id : 0..b.node] : s.parent < s.id}
    \cup [do : {"check", "list", "read", "delete"}, id : Nat]
    \cup [do : {"write"}, id : Nat, text : Text]
    \cup [do : {"insertenv"}, env : EnvsTo(b.env)]
    \cup [do : {"checkenv", "dropenv", "wipe"}, id : Nat]
    \cup [do : {"head"}, id : Nat, head : Text]
    \cup [do : {"fill"}, id : Nat, ok : BOOLEAN, data : Text]
    \cup [do : {"duplicate", "importenvs"}, at : Text, x : 0..b.env]
    \cup [do : {"drop"}, at : Nat, x : {None}]
    \cup [do : {"save"}, at : Nat, x : [head : Text, data : Text, ok : BOOLEAN]]

\* There is something at each selected position.
Drawn(v) ==
    /\ v.request \in DOMAIN v.tree.requests
    /\ v.case \in {0} \union DOMAIN v.tree.requests[v.request].cases
    /\ v.env \in DOMAIN v.envs

Frames == [tree : Trees, request : Nat, case : Nat, envs : Lists, env : Nat, listed : Nat,
           body : Text, form : Forms]
Panels == {v \in Frames : Drawn(v)}

Typed ==
    /\ born \in [node : Nat, env : Nat]
    /\ rows \in Seq(RowsTo(born.node))
    /\ envs \in Seq(EnvsTo(born.env))
    /\ job \in [Task -> Seq(Steps(born))]
    /\ pending.tree = <<>> \/ (Len(pending.tree) = 1 /\ pending.tree[1] \in Trees)
    /\ pending.envs = <<>> \/ (Len(pending.envs) = 1 /\ pending.envs[1] \in Lists)
    /\ pending = [tree |-> pending.tree, envs |-> pending.envs]
    /\ panel \in Panels
    /\ drawing \in BOOLEAN /\ orderly \in BOOLEAN

-----------------------------------------------------------------------------
(* What holds of commands that do not overlap.                             *)

Starters  == {"parent", "list", "read", "duplicate", "drop", "save", "importenvs"}
Reloading == {"tree", "envs", "publish"}

\* What the panel shows of a tree, and of what a tree has by id.
Shows(tree)   == IF tree.requests = <<>> THEN EmptyTree ELSE tree
ShowsIds(ids) == IF ids.requests = <<>> THEN IdsOf(EmptyTree) ELSE ids

\* Where a row stands in the collection, without what it holds.
Spot(r)   == [id |-> r.id, kind |-> r.kind, parent |-> r.parent]
Spots(rs) == {Spot(rs[i]) : i \in DOMAIN rs}

\* The panel shows the tree and the environments with these ids, or what it is
\* left does.
Shown(ids, eids, p, v) ==
    /\ IF p.tree = <<>> THEN IdsOf(v.tree) = ShowsIds(ids) ELSE IdsOf(p.tree[1]) = ids
    /\ RowIds(IF p.envs = <<>> THEN v.envs ELSE p.envs[1]) = eids

\* The rows a command inserts before its i-th step, the ids it still deletes.
Planned(j, i) == {Spot(j[k].row) : k \in {n \in 1..(i - 1) : j[n].do = "insert"}}
Left(j)       == {j[i].id : i \in {n \in DOMAIN j : j[n].do = "delete"}}

\* The parent of a row is among others.
Above(R, r) == r.parent = None
               \/ \E q \in R : q.id = r.parent /\ q.kind = IF r.kind = "case" THEN "endpoint"
                                                           ELSE "folder"

InsertFits(R, j, i) ==
    /\ \A q \in R \union Planned(j, i) : q.id < j[i].row.id
    /\ Above(R \union Planned(j, i), Spot(j[i].row))
    /\ Left(j) = {}

CheckFits(R, j, i) ==
    /\ \E q \in R \union Planned(j, i) : q.id = j[i].id
    /\ Left(j) = {}

\* What a step of a command finds when it is taken: rows that stand there, a tree
\* and environments with these ids.
StepFits(R, ids, eids, j, i) ==
    /\ j[i].do = "insert" => InsertFits(R, j, i)
    /\ j[i].do = "check" => CheckFits(R, j, i)
    /\ j[i].do = "parent" => \A q \in R : q.id < j[i].id
    /\ j[i].do = "insertenv" => i = 1 /\ \A e \in ToSet(eids) : e < j[i].env.id
    /\ j[i].do = "checkenv" => \/ i = 1 /\ j[i].id \in ToSet(eids)
                               \/ i = 2 /\ j[1].do = "insertenv" /\ j[1].env.id = j[i].id
    /\ j[i].do = "duplicate" => \A e \in ToSet(eids) : e < j[i].x
    /\ j[i].do = "dropenv" => i = 1 /\ j[i].id \in ToSet(eids) /\ \E e \in ToSet(eids) : e # j[i].id
    /\ j[i].do \in {"envs", "publish"} => i = 1 /\ IdsOf(j[i].tree) = ids
    /\ j[i].do = "publish" => RowIds(j[i].envs) = eids

\* A command either has changed nothing yet, or will read all of it again.
Starting(j) == \A i \in DOMAIN j : j[i].do \in Starters

Fits(R, ids, eids, j) ==
    /\ Starting(j) => Len(j) <= 1
    /\ ~Starting(j) => \A i \in DOMAIN j : /\ j[i].do \notin Starters
                                           /\ j[i].do \in Reloading <=> i = Len(j)
    /\ \A i \in DOMAIN j : StepFits(R, ids, eids, j, i)
    /\ \A r \in R : r.id \in Left(j) \/ Above({q \in R : q.id \notin Left(j)}, r)

\* All is well with a command, and with what the panel shows.
Well(R, ids, eids, p, v, j) ==
    /\ Fits(R, ids, eids, j)
    /\ Starting(j) => Shown(ids, eids, p, v)

Alone == \A t, u \in Task : job[t] # <<>> /\ job[u] # <<>> => t = u

\* Ids tell rows of different kinds apart, and environments.
Distinct(R, eids) ==
    /\ \A r, q \in R : r.id = q.id => r.kind = q.kind
    /\ \A i, k \in DOMAIN eids : eids[i] = eids[k] => i = k
    /\ eids # <<>>

\* The rows are what they are after a panic too.
RowsTyped == born.node \in Nat /\ rows \in Seq(RowsTo(born.node))

AllWell ==
    /\ Alone
    /\ \A t \in Task : job[t] # <<>> =>
           Well(Spots(rows), IdsOf(Tree(rows)), RowIds(envs), pending, panel, job[t])
    /\ Idle => Well(Spots(rows), IdsOf(Tree(rows)), RowIds(envs), pending, panel, <<>>)
    /\ Distinct(Spots(rows), RowIds(envs))

Orderly == orderly => AllWell

-----------------------------------------------------------------------------
(* The tree of a collection.                                               *)

LEMMA RowIs ==
    ASSUME NEW n \in Nat, NEW r \in RowsTo(n)
    PROVE  /\ r \in Rows /\ r.id \in Nat /\ r.id <= n /\ r.kind \in {"folder", "endpoint", "case"}
           /\ r.parent \in Text /\ r.text \in Text
           /\ r.parent # None => r.parent \in Nat /\ r.parent < r.id
           /\ r = [id |-> r.id, kind |-> r.kind, parent |-> r.parent, text |-> r.text]
  BY DEF RowsTo, Rows, Text

Ids(rs) == {rs[i].id : i \in DOMAIN rs}

LEMMA IdsAre ==
    ASSUME NEW n \in Nat, NEW rs \in Seq(RowsTo(n))
    PROVE  /\ DOMAIN rs = 1..Len(rs) /\ Len(rs) \in Nat
           /\ \A i \in DOMAIN rs : rs[i] \in RowsTo(n) /\ rs[i].id \in Ids(rs)
           /\ Ids(rs) \subseteq 0..n
           /\ RowIds(rs) \in Seq(Ids(rs)) /\ DOMAIN RowIds(rs) = DOMAIN rs
           /\ \A i \in DOMAIN rs : RowIds(rs)[i] = rs[i].id
  <1>1. DOMAIN rs = 1..Len(rs) /\ Len(rs) \in Nat /\ \A i \in DOMAIN rs : rs[i] \in RowsTo(n)
    OBVIOUS
  <1>2. \A i \in DOMAIN rs : rs[i].id \in Ids(rs) /\ rs[i].id \in 0..n
    <2>1. \A i \in DOMAIN rs : rs[i].id \in Nat /\ rs[i].id <= n
      BY <1>1, RowIs
    <2> QED BY <2>1 DEF Ids
  <1>3. RowIds(rs) = [i \in 1..Len(rs) |-> rs[i].id]
    BY <1>1 DEF RowIds
  <1>4. RowIds(rs) \in [1..Len(rs) -> Ids(rs)]
    BY <1>1, <1>2, <1>3
  <1>5. RowIds(rs) \in Seq(Ids(rs))
    BY <1>1, <1>4, InSeq
  <1> QED BY <1>1, <1>2, <1>3, <1>5 DEF Ids

LEMMA OfIs ==
    ASSUME NEW n \in Nat, NEW rs \in Seq(RowsTo(n)), NEW kind, NEW p
    PROVE  /\ Of(rs, kind, p) \in Seq(Ids(rs))
           /\ \A x : x \in ToSet(Of(rs, kind, p)) <=>
                  \E i \in DOMAIN rs : rs[i].kind = kind /\ rs[i].parent = p /\ x = rs[i].id
  <1> DEFINE I == {i \in DOMAIN rs : rs[i].kind = kind /\ rs[i].parent = p}
             l == RowIds(rs)
  <1>1. l \in Seq(Ids(rs)) /\ DOMAIN l = DOMAIN rs /\ \A i \in DOMAIN rs : l[i] = rs[i].id
    BY IdsAre
  <1> HIDE DEF l
  <1>2. /\ Only(l, I) \in Seq(Ids(rs))
        /\ \A x : x \in ToSet(Only(l, I)) <=> \E i \in DOMAIN l : i \in I /\ x = l[i]
    BY <1>1, OnlySet
  <1>3. Of(rs, kind, p) = Only(l, I)
    BY DEF Of, l
  <1> QED BY <1>1, <1>2, <1>3

LEMMA UnderIs ==
    ASSUME NEW n \in Nat, NEW rs \in Seq(RowsTo(n)), NEW p
    PROVE  /\ Under(rs, p) \in Seq(Ids(rs))
           /\ \A x : x \in ToSet(Under(rs, p)) <=> \E i \in DOMAIN rs : rs[i].parent = p /\ x = rs[i].id
  <1> DEFINE I == {i \in DOMAIN rs : rs[i].parent = p}
             l == RowIds(rs)
  <1>1. l \in Seq(Ids(rs)) /\ DOMAIN l = DOMAIN rs /\ \A i \in DOMAIN rs : l[i] = rs[i].id
    BY IdsAre
  <1> HIDE DEF l
  <1>2. /\ Only(l, I) \in Seq(Ids(rs))
        /\ \A x : x \in ToSet(Only(l, I)) <=> \E i \in DOMAIN l : i \in I /\ x = l[i]
    BY <1>1, OnlySet
  <1>3. Under(rs, p) = Only(l, I)
    BY DEF Under, l
  <1> QED BY <1>1, <1>2, <1>3

\* The root comes before every row, and a row before what is under it.
RankIn(rs) == [p \in Parents(rs) |-> IF p = None THEN 0 ELSE p + 1]

LEMMA SubsRanked ==
    ASSUME NEW n \in Nat, NEW rs \in Seq(RowsTo(n))
    PROVE  Ranked(Subs(rs), Parents(rs), RankIn(rs), n + 1)
  <1>1. Parents(rs) = {None} \union Ids(rs) /\ Ids(rs) \subseteq 0..n
    BY IdsAre DEF Parents, Ids
  <1>2. \A p \in Parents(rs) : Of(rs, "folder", p) \in Seq(Parents(rs))
    <2> TAKE p \in Parents(rs)
    <2>1. Of(rs, "folder", p) \in Seq(Ids(rs)) /\ Ids(rs) \subseteq Parents(rs)
      BY <1>1, OfIs
    <2> QED BY <2>1, SeqMonotonic
  <1>3. RankIn(rs) \in [Parents(rs) -> 0..(n + 1)]
    BY <1>1 DEF RankIn
  <1>4. ASSUME NEW p \in Parents(rs), NEW i \in DOMAIN Of(rs, "folder", p)
        PROVE  RankIn(rs)[p] < RankIn(rs)[Of(rs, "folder", p)[i]]
    <2> DEFINE x == Of(rs, "folder", p)[i]
    <2>1. x \in ToSet(Of(rs, "folder", p))
      BY DEF ToSet
    <2>2. PICK k \in DOMAIN rs : rs[k].parent = p /\ x = rs[k].id
      BY <2>1, OfIs
    <2>3. rs[k] \in RowsTo(n)
      BY IdsAre
    <2>4. x \in Nat /\ (p # None => p \in Nat /\ p < x)
      BY <2>2, <2>3, RowIs
    <2>5. x \in Parents(rs) /\ x # None
      BY <2>2, <2>4, WorkspaceAssumption DEF Parents
    <2> HIDE DEF x
    <2>6. RankIn(rs)[p] < RankIn(rs)[x]
      BY <2>4, <2>5 DEF RankIn
    <2> QED BY <2>6 DEF x
  <1> QED BY <1>2, <1>3, <1>4 DEF Ranked, Subs

LEMMA OrderIs ==
    ASSUME NEW n \in Nat, NEW rs \in Seq(RowsTo(n))
    PROVE  /\ Order(rs) \in Seq(Ids(rs))
           /\ ToSet(Walk(Subs(rs), Subs(rs))[None]) \subseteq Nat
           /\ \A i \in DOMAIN rs :
                  /\ rs[i].kind = "endpoint"
                  /\ rs[i].parent = None \/ rs[i].parent \in ToSet(Of(rs, "folder", None))
                  => rs[i].id \in ToSet(Order(rs))
  <1> DEFINE S == Parents(rs)
             own == [p \in S |-> Of(rs, "endpoint", p)]
             sub == Subs(rs)
             w == Walk(own, sub)
  <1>1. Ranked(sub, S, RankIn(rs), n + 1) /\ n + 1 \in Nat /\ None \in S
    BY SubsRanked DEF Parents
  <1>2. Subs(rs) \in [S -> Seq(Ids(rs))]
    BY OfIs DEF Subs
  <1>3. own \in [S -> Seq(Ids(rs))]
    BY OfIs
  <1>4. /\ w \in [S -> Seq(Ids(rs))]
        /\ \A p \in S : Gathers(own, sub, w, p, w[p])
    <2> HIDE DEF own, sub, S
    <2> QED BY <1>1, <1>3, WalkIs
  <1>5. Walk(sub, sub) \in [S -> Seq(Ids(rs))]
    <2> HIDE DEF own, S
    <2> QED BY <1>1, <1>2, WalkIs
  <1>6. ToSet(Walk(sub, sub)[None]) \subseteq Nat
    <2>1. Walk(sub, sub)[None] \in Seq(Ids(rs)) /\ Ids(rs) \subseteq Nat
      BY <1>1, <1>5, IdsAre
    <2> QED BY <2>1 DEF ToSet
  <1>7. Order(rs) = w[None]
    BY DEF Order
  <1> HIDE DEF w
  <1>9. ASSUME NEW i \in DOMAIN rs, rs[i].kind = "endpoint", rs[i].parent \in S
        PROVE  rs[i].id \in ToSet(w[rs[i].parent])
    <2>1. rs[i].id \in ToSet(own[rs[i].parent])
      BY <1>9, OfIs
    <2> HIDE DEF own, sub, S
    <2> QED BY <2>1, <1>4, <1>9 DEF Gathers
  <1>10. ASSUME NEW i \in DOMAIN rs, rs[i].kind = "endpoint",
                rs[i].parent = None \/ rs[i].parent \in ToSet(Of(rs, "folder", None))
         PROVE  rs[i].id \in ToSet(w[None])
    <2>1. CASE rs[i].parent = None
      BY <2>1, <1>1, <1>9, <1>10
    <2>2. CASE rs[i].parent \in ToSet(Of(rs, "folder", None))
      <3>1. PICK k \in DOMAIN Of(rs, "folder", None) : rs[i].parent = Of(rs, "folder", None)[k]
        BY <2>2 DEF ToSet
      <3>2. sub[None] = Of(rs, "folder", None)
        BY <1>1 DEF Subs
      <3>3. rs[i].parent \in S
        <4>1. sub[None] \in Seq(S)
          BY <1>1 DEF Ranked
        <4> QED BY <4>1, <3>1, <3>2
      <3>4. rs[i].id \in ToSet(w[sub[None][k]]) /\ k \in DOMAIN sub[None]
        BY <3>1, <3>2, <3>3, <1>9, <1>10
      <3> HIDE DEF own, sub, S
      <3> QED BY <3>4, <1>1, <1>4 DEF Gathers
    <2> QED BY <2>1, <2>2, <1>10
  <1>11. Order(rs) \in Seq(Ids(rs))
    BY <1>1, <1>4, <1>7
  <1> HIDE DEF S, own
  <1> QED BY <1>6, <1>7, <1>10, <1>11

LEMMA GetIs ==
    ASSUME NEW rs, NEW id, Has(rs, id)
    PROVE  \E i \in DOMAIN rs : Get(rs, id) = rs[i] /\ rs[i].id = id
  BY DEF Has, Get

LEMMA RequestIs ==
    ASSUME NEW n \in Nat, NEW rs \in Seq(RowsTo(n)), NEW id \in Ids(rs)
    PROVE  RequestOf(rs, id) \in Requests
  <1> DEFINE cs == Of(rs, "case", id)
             l == [i \in DOMAIN cs |-> [id |-> cs[i], text |-> Get(rs, cs[i]).text]]
  <1>1. ASSUME NEW x \in Ids(rs) PROVE x \in Nat /\ Get(rs, x).text \in Text
    <2>1. Has(rs, x)
      BY DEF Has, Ids
    <2>2. PICK i \in DOMAIN rs : Get(rs, x) = rs[i] /\ rs[i].id = x
      BY <2>1, GetIs
    <2>3. rs[i] \in RowsTo(n)
      BY IdsAre
    <2> QED BY <2>2, <2>3, RowIs
  <1>2. cs \in Seq(Ids(rs))
    BY OfIs
  <1> HIDE DEF cs
  <1>3. DOMAIN cs = 1..Len(cs) /\ Len(cs) \in Nat /\ \A i \in DOMAIN cs : cs[i] \in Ids(rs)
    BY <1>2
  <1>4. l \in [1..Len(cs) -> Items]
    BY <1>1, <1>3 DEF Items
  <1>5. l \in Seq(Items)
    <2> HIDE DEF l
    <2> QED BY <1>3, <1>4, InSeq
  <1>6. RequestOf(rs, id) = [id |-> id, text |-> Get(rs, id).text, cases |-> l]
    BY DEF RequestOf, cs
  <1> HIDE DEF l
  <1> QED BY <1>1, <1>5, <1>6 DEF Requests, Text

\* What the panel is given of any collection is a tree.
LEMMA TreeIs ==
    ASSUME NEW n \in Nat, NEW rs \in Seq(RowsTo(n))
    PROVE  Tree(rs) \in Trees /\ DOMAIN Tree(rs).requests = DOMAIN Order(rs)
  <1> DEFINE o == Order(rs)
             l == [i \in DOMAIN o |-> RequestOf(rs, o[i])]
  <1>1. o \in Seq(Ids(rs)) /\ ToSet(Walk(Subs(rs), Subs(rs))[None]) \subseteq Nat
    BY OrderIs
  <1> HIDE DEF o
  <1>2. DOMAIN o = 1..Len(o) /\ Len(o) \in Nat /\ \A i \in DOMAIN o : o[i] \in Ids(rs)
    BY <1>1
  <1>3. l \in [1..Len(o) -> Requests]
    BY <1>2, RequestIs
  <1>4. l \in Seq(Requests)
    <2> HIDE DEF l
    <2> QED BY <1>2, <1>3, InSeq
  <1>5. Tree(rs) = [folders |-> ToSet(Walk(Subs(rs), Subs(rs))[None]), requests |-> l]
    BY DEF Tree, o
  <1>6. DOMAIN l = DOMAIN o
    OBVIOUS
  <1> HIDE DEF l
  <1> QED BY <1>1, <1>4, <1>5, <1>6 DEF Trees, o

LEMMA EmptyTreeIs == EmptyTree \in Trees /\ EmptyTree.requests # <<>> /\ Len(EmptyTree.requests) = 1
                     /\ EmptyTree.requests[1].cases = <<>>
  <1>1. Placeholder \in Requests
    BY DEF Placeholder, Requests, Text
  <1>2. EmptyTree = [folders |-> {}, requests |-> <<Placeholder>>]
    BY DEF EmptyTree
  <1>3. <<Placeholder>> \in Seq(Requests) /\ <<Placeholder>> # <<>> /\ Len(<<Placeholder>>) = 1
        /\ <<Placeholder>>[1] = Placeholder
    BY <1>1
  <1> QED BY <1>2, <1>3 DEF Trees, Placeholder

\* A new panel has a request to show.
LEMMA FirstIs ==
    ASSUME NEW n \in Nat, NEW rs \in Seq(RowsTo(n))
    PROVE  /\ FirstTree(rs) \in Trees /\ FirstTree(rs).requests # <<>>
           /\ FirstTree(rs) = Tree(rs) \/ FirstTree(rs) = EmptyTree
  <1>1. CASE FirstTree(rs) = EmptyTree
    BY <1>1, EmptyTreeIs
  <1>2. CASE FirstTree(rs) # EmptyTree
    <2>1. FirstTree(rs) = Tree(rs)
      BY <1>2 DEF FirstTree
    <2>2. PICK i \in DOMAIN rs : /\ rs[i].kind = "endpoint"
                                 /\ rs[i].parent = None \/ rs[i].parent \in ToSet(Of(rs, "folder", None))
      BY <1>2 DEF FirstTree
    <2>3. rs[i].id \in ToSet(Order(rs))
      BY <2>2, OrderIs
    <2>4. DOMAIN Tree(rs).requests # {}
      BY <2>3, TreeIs DEF ToSet
    <2>5. Tree(rs).requests # <<>>
      BY <2>4
    <2> QED BY <2>1, <2>5, TreeIs
  <1> QED BY <1>1, <1>2

-----------------------------------------------------------------------------
(* A text that is written changes no tree.                                 *)

Alike(rs, qs) == /\ DOMAIN qs = DOMAIN rs
                 /\ \A i \in DOMAIN rs : /\ qs[i].id = rs[i].id /\ qs[i].kind = rs[i].kind
                                         /\ qs[i].parent = rs[i].parent

LEMMA AlikeTrees ==
    ASSUME NEW n \in Nat, NEW rs \in Seq(RowsTo(n)), NEW qs \in Seq(RowsTo(n)), Alike(rs, qs)
    PROVE  IdsOf(Tree(qs)) = IdsOf(Tree(rs))
  <1>1. RowIds(qs) = RowIds(rs)
    BY DEF Alike, RowIds
  <1>2. Parents(qs) = Parents(rs)
    BY DEF Alike, Parents
  <1>3. ASSUME NEW kind, NEW p PROVE Of(qs, kind, p) = Of(rs, kind, p)
    <2>1. {i \in DOMAIN qs : qs[i].kind = kind /\ qs[i].parent = p}
          = {i \in DOMAIN rs : rs[i].kind = kind /\ rs[i].parent = p}
      BY DEF Alike
    <2> QED BY <2>1, <1>1 DEF Of
  <1>4. Subs(qs) = Subs(rs)
    BY <1>2, <1>3 DEF Subs
  <1>5. [p \in Parents(qs) |-> Of(qs, "endpoint", p)] = [p \in Parents(rs) |-> Of(rs, "endpoint", p)]
    BY <1>2, <1>3
  <1>6. Order(qs) = Order(rs)
    BY <1>4, <1>5 DEF Order
  <1>7. ASSUME NEW ps, ps \in {qs, rs}
        PROVE  IdsOf(Tree(ps)) = [folders  |-> ToSet(Walk(Subs(rs), Subs(rs))[None]),
                                  requests |-> [i \in DOMAIN Order(rs) |->
                                      <<Order(rs)[i], [k \in DOMAIN Of(rs, "case", Order(rs)[i]) |->
                                                           Of(rs, "case", Order(rs)[i])[k]]>>]]
    <2> DEFINE o == Order(rs)
               l == Tree(ps).requests
    <2>1. Subs(ps) = Subs(rs) /\ Order(ps) = o /\ \A kind, p : Of(ps, kind, p) = Of(rs, kind, p)
      BY <1>3, <1>4, <1>6, <1>7
    <2>2. l = [i \in DOMAIN o |-> RequestOf(ps, o[i])]
          /\ Tree(ps).folders = ToSet(Walk(Subs(rs), Subs(rs))[None])
      BY <2>1 DEF Tree
    <2> HIDE DEF o, l
    <2>3. ASSUME NEW i \in DOMAIN l
          PROVE  /\ l[i].id = o[i]
                 /\ RowIds(l[i].cases) = [k \in DOMAIN Of(rs, "case", o[i]) |-> Of(rs, "case", o[i])[k]]
      <3> DEFINE cs == Of(rs, "case", o[i])
      <3>1. i \in DOMAIN o /\ l[i] = RequestOf(ps, o[i])
        BY <2>2, <2>3
      <3>2. Of(ps, "case", o[i]) = cs
        BY <2>1
      <3> HIDE DEF cs
      <3>3. /\ RequestOf(ps, o[i]).id = o[i]
            /\ RequestOf(ps, o[i]).cases = [k \in DOMAIN cs |-> [id |-> cs[k], text |-> Get(ps, cs[k]).text]]
        BY <3>2 DEF RequestOf
      <3>4. RowIds(RequestOf(ps, o[i]).cases) = [k \in DOMAIN cs |-> cs[k]]
        BY <3>3 DEF RowIds
      <3> QED BY <3>1, <3>3, <3>4 DEF cs
    <2>4. DOMAIN l = DOMAIN o
      BY <2>2
    <2>5. [i \in DOMAIN l |-> <<l[i].id, RowIds(l[i].cases)>>]
          = [i \in DOMAIN o |-> <<o[i], [k \in DOMAIN Of(rs, "case", o[i]) |-> Of(rs, "case", o[i])[k]]>>]
      BY <2>3, <2>4
    <2>6. IdsOf(Tree(ps)) = [folders  |-> Tree(ps).folders,
                             requests |-> [i \in DOMAIN l |-> <<l[i].id, RowIds(l[i].cases)>>]]
      BY DEF IdsOf, l
    <2> QED BY <2>2, <2>5, <2>6 DEF o
  <1> QED BY <1>7

\* The rows a delete goes through are all that is under the row.
LEMMA DoomedIs ==
    ASSUME NEW n \in Nat, NEW rs \in Seq(RowsTo(n)), NEW id \in Nat
    PROVE  /\ Doomed(rs, id) \in Seq(Nat) /\ id \in ToSet(Doomed(rs, id))
           /\ \A i \in DOMAIN rs : rs[i].parent \in ToSet(Doomed(rs, id))
                                   => rs[i].id \in ToSet(Doomed(rs, id))
  <1> DEFINE S == {id} \union {rs[i].id : i \in DOMAIN rs}
             kids == [p \in S |-> Under(rs, p)]
             next == [p \in S |-> Reverse(kids[p])]
             N == n + id
             rank == [p \in S |-> p]
             w == Walk(kids, next)
  <1>1. N \in Nat /\ S \subseteq 0..N /\ Ids(rs) \subseteq S /\ S = {id} \union Ids(rs)
    <2>1. Ids(rs) \subseteq 0..n
      BY IdsAre
    <2> QED BY <2>1 DEF Ids
  <1>2. ASSUME NEW p \in S
        PROVE  /\ kids[p] \in Seq(S) /\ next[p] \in Seq(S)
               /\ DOMAIN next[p] = DOMAIN kids[p]
               /\ \A i \in DOMAIN kids[p] : next[p][i] \in ToSet(kids[p])
               /\ \A i \in DOMAIN kids[p] : \E k \in DOMAIN kids[p] : next[p][k] = kids[p][i]
    <2> DEFINE s == Under(rs, p)
    <2>1. s \in Seq(Ids(rs)) /\ Ids(rs) \subseteq S
      BY <1>1, UnderIs
    <2> HIDE DEF s, S
    <2>2. s \in Seq(S) /\ Len(s) \in Nat /\ DOMAIN s = 1..Len(s)
      BY <2>1, SeqMonotonic
    <2>3. /\ DOMAIN Reverse(s) = 1..Len(s)
          /\ \A i \in 1..Len(s) : Reverse(s)[i] = s[(Len(s) - i) + 1] /\ (Len(s) - i) + 1 \in 1..Len(s)
      BY <2>2 DEF Reverse
    <2>4. \A i \in 1..Len(s) : Reverse(s)[i] \in ToSet(s) /\ Reverse(s)[i] \in S
      BY <2>2, <2>3 DEF ToSet
    <2>5. Reverse(s) \in [1..Len(s) -> S]
      BY <2>3, <2>4 DEF Reverse
    <2>6. Reverse(s) \in Seq(S)
      BY <2>2, <2>5, InSeq
    <2>7. \A i \in 1..Len(s) : Reverse(s)[(Len(s) - i) + 1] = s[i]
      <3> TAKE i \in 1..Len(s)
      <3>1. (Len(s) - i) + 1 \in 1..Len(s) /\ (Len(s) - ((Len(s) - i) + 1)) + 1 = i
        BY <2>2
      <3> QED BY <3>1, <2>3
    <2>8. \A i \in DOMAIN s : Reverse(s)[i] \in ToSet(s) /\ \E k \in DOMAIN s : Reverse(s)[k] = s[i]
      BY <2>2, <2>3, <2>4, <2>7
    <2>9. kids[p] = s /\ next[p] = Reverse(s)
      BY DEF s
    <2> HIDE DEF kids, next
    <2> QED BY <2>2, <2>3, <2>6, <2>8, <2>9
  <1>3. Ranked(next, S, rank, N)
    <2>1. ASSUME NEW p \in S, NEW i \in DOMAIN next[p] PROVE next[p][i] \in S /\ p < next[p][i]
      <3> DEFINE x == next[p][i]
      <3>1. x \in ToSet(Under(rs, p)) /\ x \in S
        <4>1. kids[p] = Under(rs, p)
          OBVIOUS
        <4> HIDE DEF kids, next, S
        <4>2. i \in DOMAIN kids[p] /\ next[p] \in Seq(S)
          BY <1>2
        <4> QED BY <4>1, <4>2, <1>2
      <3>2. PICK k \in DOMAIN rs : rs[k].parent = p /\ x = rs[k].id
        <4> HIDE DEF x, kids, next, S
        <4>1. x \in ToSet(Under(rs, p))
          BY <3>1
        <4> QED BY <4>1, UnderIs
      <3>3. rs[k] \in RowsTo(n)
        BY IdsAre
      <3>4. p \in Nat
        BY <1>1
      <3> HIDE DEF x
      <3>5. p < x
        BY <3>2, <3>3, <3>4, RowIs, WorkspaceAssumption
      <3> QED BY <3>1, <3>5 DEF x
    <2>2. next \in [S -> Seq(S)]
      BY <1>2
    <2>3. rank \in [S -> 0..N]
      BY <1>1
    <2>4. \A p \in S : \A i \in DOMAIN next[p] : rank[p] < rank[next[p][i]]
      BY <2>1
    <2> HIDE DEF next, S, rank, N
    <2> QED BY <2>2, <2>3, <2>4 DEF Ranked
  <1>4. kids \in [S -> Seq(S)]
    BY <1>2
  <1>5. w \in [S -> Seq(S)] /\ \A p \in S : Gathers(kids, next, w, p, w[p])
    <2> HIDE DEF next, S, rank, N, kids
    <2> QED BY <1>1, <1>3, <1>4, WalkIs
  <1>6. Doomed(rs, id) = <<id>> \o w[id]
    BY DEF Doomed
  <1> HIDE DEF w
  <1> DEFINE Closed(p) == \A q \in ToSet(w[p]) : \A i \in DOMAIN rs : rs[i].parent = q => rs[i].id \in ToSet(w[p])
             T == {m \in 0..(N + 1) : \A p \in S : N < p + m => Closed(p)}
  <1>7. ASSUME NEW p \in S, NEW i \in DOMAIN rs, rs[i].parent = p PROVE rs[i].id \in ToSet(kids[p])
    BY <1>7, UnderIs
  <1>8. ASSUME NEW p \in S, \A i \in DOMAIN next[p] : Closed(next[p][i]) PROVE Closed(p)
    <2> SUFFICES ASSUME NEW q \in ToSet(w[p]), NEW i \in DOMAIN rs, rs[i].parent = q
                 PROVE  rs[i].id \in ToSet(w[p])
      OBVIOUS
    <2> HIDE DEF Closed, T, kids, next, S
    <2>1. CASE q \in ToSet(kids[p])
      <3>1. PICK m \in DOMAIN kids[p] : q = kids[p][m]
        BY <2>1 DEF ToSet
      <3>2. PICK k \in DOMAIN next[p] : next[p][k] = q
        BY <3>1, <1>2
      <3>3. q \in S
        BY <3>1, <1>2
      <3>4. rs[i].id \in ToSet(kids[q])
        BY <3>3, <1>7
      <3>5. rs[i].id \in ToSet(w[q])
        BY <3>3, <3>4, <1>5 DEF Gathers
      <3> QED BY <3>2, <3>5, <1>5 DEF Gathers
    <2>2. CASE q \notin ToSet(kids[p])
      <3>1. PICK k \in DOMAIN next[p] : q \in ToSet(w[next[p][k]])
        BY <2>2, <1>5 DEF Gathers
      <3>2. rs[i].id \in ToSet(w[next[p][k]])
        BY <3>1, <1>8 DEF Closed
      <3> QED BY <3>1, <3>2, <1>5 DEF Gathers
    <2> QED BY <2>1, <2>2
  <1> HIDE DEF Closed
  <1>9. 0 \in T
    <2>1. \A p \in S : ~(N < p + 0)
      <3> HIDE DEF S, N
      <3> QED BY <1>1
    <2>2. 0 \in 0..(N + 1)
      BY <1>1
    <2> HIDE DEF S, N
    <2> QED BY <2>1, <2>2
  <1>10. ASSUME NEW m \in 0..(N + 1), m < N + 1, m \in T PROVE m + 1 \in T
    <2>1. m + 1 \in 0..(N + 1)
      BY <1>10, <1>1
    <2>2. ASSUME NEW p \in S, N < p + (m + 1) PROVE Closed(p)
      <3>1. ASSUME NEW i \in DOMAIN next[p] PROVE Closed(next[p][i])
        <4>1. next[p][i] \in S /\ rank[p] < rank[next[p][i]]
          <5> HIDE DEF next, rank, S, N
          <5> QED BY <1>3 DEF Ranked
        <4>2. p < next[p][i]
          <5> HIDE DEF next
          <5> QED BY <4>1
        <4> HIDE DEF next, S, N
        <4>3. N < next[p][i] + m
          <5>1. N \in Nat /\ p \in Nat /\ next[p][i] \in Nat /\ m \in Nat
            BY <4>1, <1>1
          <5> QED BY <5>1, <4>2, <2>2
        <4> QED BY <4>1, <4>3, <1>10
      <3> HIDE DEF S, N, next
      <3> QED BY <3>1, <1>8
    <2> HIDE DEF S
    <2> QED BY <2>1, <2>2
  <1>11. N + 1 \in T
    <2> DEFINE M == N + 1
    <2>1. M \in Nat /\ M \in 0..M
      BY <1>1
    <2>2. 0 \in T /\ \A m \in 0..M : m < M /\ m \in T => m + 1 \in T
      BY <1>9, <1>10
    <2> HIDE DEF T, M
    <2>3. 0..M \subseteq T
      BY <2>1, <2>2, InductionTo
    <2> QED BY <2>1, <2>3 DEF M
  <1>12. Closed(id)
    <2>1. id \in S /\ N < id + (N + 1)
      BY <1>1
    <2> HIDE DEF S, N
    <2> QED BY <2>1, <1>11
  <1> DEFINE d == Doomed(rs, id)
             u == <<id>>
  <1>13. u \in Seq(Nat) /\ \A x : x \in ToSet(u) <=> x = id
    BY DEF ToSet
  <1>14. w[id] \in Seq(Nat)
    <2>1. w[id] \in Seq(S) /\ S \subseteq Nat
      BY <1>1, <1>5
    <2> HIDE DEF S
    <2> QED BY <2>1, SeqMonotonic
  <1>15. d \in Seq(Nat) /\ \A x : x \in ToSet(d) <=> x = id \/ x \in ToSet(w[id])
    <2>1. d = u \o w[id]
      BY <1>6
    <2> HIDE DEF d, u
    <2>2. u \o w[id] \in Seq(Nat) /\ \A x : x \in ToSet(u \o w[id]) <=> x \in ToSet(u) \/ x \in ToSet(w[id])
      BY <1>13, <1>14, JoinSet
    <2> QED BY <2>1, <2>2, <1>13
  <1>16. ASSUME NEW i \in DOMAIN rs, rs[i].parent \in ToSet(d) PROVE rs[i].id \in ToSet(d)
    <2> HIDE DEF d
    <2>1. CASE rs[i].parent = id
      <3>1. id \in S /\ rs[i].id \in ToSet(kids[id])
        BY <2>1, <1>1, <1>7
      <3> HIDE DEF kids, next, S
      <3>2. rs[i].id \in ToSet(w[id])
        BY <3>1, <1>5 DEF Gathers
      <3> QED BY <3>2, <1>15
    <2>2. CASE rs[i].parent \in ToSet(w[id])
      BY <2>2, <1>12, <1>15 DEF Closed
    <2> QED BY <2>1, <2>2, <1>15, <1>16
  <1> HIDE DEF d
  <1> QED BY <1>15, <1>16 DEF d

-----------------------------------------------------------------------------
(* The panel.                                                              *)

LEMMA FrameIs ==
    ASSUME NEW v \in Frames
    PROVE  /\ v.tree \in Trees /\ v.request \in Nat /\ v.case \in Nat /\ v.envs \in Lists
           /\ v.env \in Nat /\ v.listed \in Nat /\ v.body \in Text /\ v.form \in Forms
           /\ v.tree.folders \in SUBSET Nat /\ v.tree.requests \in Seq(Requests)
           /\ v.form.head \in Text /\ v.form.data \in Text
           /\ v.envs \in Seq(Listed) /\ v.envs # <<>>
           /\ \A i \in DOMAIN v.tree.requests : v.tree.requests[i] \in Requests
           /\ \A i \in DOMAIN v.envs : v.envs[i] \in Listed
  BY DEF Frames, Trees, Lists, Forms

LEMMA RequestHas ==
    ASSUME NEW r \in Requests
    PROVE  /\ r.id \in Text /\ r.text \in Text /\ r.cases \in Seq(Items)
           /\ \A i \in DOMAIN r.cases : r.cases[i] \in Items /\ r.cases[i].id \in Nat
                                        /\ r.cases[i].text \in Text
  <1>1. r.id \in Text /\ r.text \in Text /\ r.cases \in Seq(Items)
    BY DEF Requests
  <1>2. \A i \in DOMAIN r.cases : r.cases[i] \in Items
    BY <1>1
  <1> QED BY <1>1, <1>2 DEF Items

LEMMA SelectedIs ==
    ASSUME NEW v \in Panels
    PROVE  Selected(v).id \in Text /\ Selected(v).text \in Text
  <1>1. v \in Frames /\ Drawn(v)
    BY DEF Panels
  <1>2. v.tree.requests[v.request] \in Requests
    BY <1>1, FrameIs DEF Drawn
  <1>3. CASE InCase(v)
    <2>1. v.case \in DOMAIN v.tree.requests[v.request].cases
      BY <1>1, <1>3 DEF Drawn, InCase
    <2> QED BY <2>1, <1>2, <1>3, RequestHas DEF Selected, Text
  <1>4. CASE ~InCase(v)
    BY <1>2, <1>4, RequestHas DEF Selected
  <1> QED BY <1>3, <1>4

LEMMA WithEditorIs ==
    ASSUME NEW v \in Panels
    PROVE  WithEditor(v) \in Panels /\ WithEditor(v).tree = v.tree /\ WithEditor(v).envs = v.envs
  <1>1. v \in Frames /\ Drawn(v) /\ Selected(v).text \in Text
    BY SelectedIs DEF Panels
  <1> DEFINE x == Selected(v).text
             u == [v EXCEPT !.body = x]
  <1>2. u = WithEditor(v)
    BY DEF WithEditor
  <1> HIDE DEF x
  <1>3. /\ u \in Frames /\ u.tree = v.tree /\ u.envs = v.envs /\ u.request = v.request
        /\ u.case = v.case /\ u.env = v.env
    BY <1>1 DEF Frames, x
  <1> HIDE DEF u
  <1> QED BY <1>1, <1>2, <1>3 DEF Panels, Drawn

LEMMA WithFormIs ==
    ASSUME NEW v \in Panels
    PROVE  WithForm(v) \in Panels /\ WithForm(v).tree = v.tree /\ WithForm(v).envs = v.envs
  <1>1. v \in Frames /\ Drawn(v)
    BY DEF Panels
  <1> DEFINE x == [head |-> v.envs[v.env].head, data |-> v.envs[v.env].data]
             u == [v EXCEPT !.form = x]
  <1>2. u = WithForm(v)
    BY DEF WithForm
  <1>3. x \in Forms
    <2>1. v.envs[v.env] \in Listed
      BY <1>1, FrameIs DEF Drawn
    <2> QED BY <2>1 DEF Listed, Forms
  <1> HIDE DEF x
  <1>4. /\ u \in Frames /\ u.tree = v.tree /\ u.envs = v.envs /\ u.request = v.request
        /\ u.case = v.case /\ u.env = v.env
    BY <1>1, <1>3 DEF Frames
  <1> HIDE DEF u
  <1> QED BY <1>1, <1>2, <1>4 DEF Panels, Drawn

\* A frame that differs in one part.
ShowingTree(v, t) == [v EXCEPT !.tree = t]
ShowingEnvs(v, l) == [v EXCEPT !.envs = l]

LEMMA FrameWith ==
    ASSUME NEW v \in Frames, NEW t \in Trees, NEW u, u = ShowingTree(v, t)
    PROVE  /\ u \in Frames /\ u.tree = t /\ u.envs = v.envs /\ u.request = v.request /\ u.case = v.case
           /\ u.env = v.env /\ u.body = v.body /\ u.form = v.form
  BY DEF Frames, ShowingTree

LEMMA FrameWithEnvs ==
    ASSUME NEW v \in Frames, NEW l \in Lists, NEW u, u = ShowingEnvs(v, l)
    PROVE  /\ u \in Frames /\ u.tree = v.tree /\ u.envs = l /\ u.request = v.request /\ u.case = v.case
           /\ u.env = v.env
  BY DEF Frames, ShowingEnvs

\* Whatever is taken, what is made of it can be drawn.
LEMMA RendersIs ==
    ASSUME NEW v \in Frames, v.request # 0, v.env # 0
    PROVE  /\ Renders(v) \in Panels /\ Renders(v).tree = Shows(v.tree) /\ Renders(v).envs = v.envs
  <1> DEFINE none   == v.tree.requests = <<>>
             tree   == IF none THEN EmptyTree ELSE v.tree
             past   == none \/ v.request > Len(tree.requests)
             at     == IF past THEN 1 ELSE v.request
             inside == ~past /\ v.case \in DOMAIN tree.requests[at].cases
             list   == IF v.envs = <<>> THEN <<DefaultEnv>> ELSE v.envs
             case   == IF inside THEN v.case ELSE 0
             env    == IF v.env > Len(list) THEN Len(list) ELSE v.env
             listed == IF Len(list) > v.listed THEN Len(list) ELSE v.listed
             u      == Renders(v)
  <1>1. u = [v EXCEPT !.tree = tree, !.request = at, !.case = case, !.envs = list, !.env = env, !.listed = listed]
    BY DEF Renders
  <1>2. tree = Shows(v.tree) /\ tree \in Trees /\ tree.requests # <<>>
    BY FrameIs, EmptyTreeIs DEF Shows
  <1>3. tree.requests \in Seq(Requests)
    BY <1>2 DEF Trees
  <1> HIDE DEF none, tree
  <1>4. Len(tree.requests) \in Nat \ {0} /\ DOMAIN tree.requests = 1..Len(tree.requests)
    BY <1>2, <1>3
  <1>5. at \in DOMAIN tree.requests /\ at \in Nat
    <2>1. v.request \in Nat
      BY FrameIs
    <2> QED BY <1>4, <2>1
  <1> HIDE DEF at, past
  <1>6. case \in {0} \union DOMAIN tree.requests[at].cases /\ case \in Nat
    <2>1. v.case \in Nat
      BY FrameIs
    <2> QED BY <2>1
  <1>7. list = v.envs /\ list \in Lists /\ Len(list) \in Nat \ {0} /\ DOMAIN list = 1..Len(list)
    BY FrameIs
  <1> HIDE DEF list, case, inside
  <1>8. env \in DOMAIN list /\ env \in Nat /\ listed \in Nat
    BY <1>7, FrameIs
  <1> HIDE DEF env, listed, u
  <1>9. /\ u \in Frames /\ u.tree = tree /\ u.request = at /\ u.case = case /\ u.envs = list /\ u.env = env
    BY <1>1, <1>2, <1>5, <1>6, <1>7, <1>8 DEF Frames
  <1>10. u \in Panels
    BY <1>5, <1>6, <1>8, <1>9 DEF Panels, Drawn
  <1> QED BY <1>2, <1>7, <1>9, <1>10 DEF u

\* Writing the editors back changes texts only.
SameIds(u, v) == IdsOf(u.tree) = IdsOf(v.tree) /\ RowIds(u.envs) = RowIds(v.envs)

LEMMA SeqWith ==
    ASSUME NEW D, NEW s \in Seq(D), NEW i \in DOMAIN s, NEW e \in D
    PROVE  LET u == [s EXCEPT ![i] = e]
           IN  /\ u \in Seq(D) /\ DOMAIN u = DOMAIN s
               /\ \A k \in DOMAIN s : u[k] = IF k = i THEN e ELSE s[k]
  BY ExceptSeq

\* A text in place of another.
ShowingRequest(v, q) ==
    ShowingTree(v, [v.tree EXCEPT !.requests = [v.tree.requests EXCEPT ![v.request] = q]])

LEMMA TextWith ==
    ASSUME NEW v \in Panels, NEW q \in Requests, q.id = v.tree.requests[v.request].id,
           RowIds(q.cases) = RowIds(v.tree.requests[v.request].cases),
           NEW u, u = ShowingRequest(v, q)
    PROVE  /\ u \in Panels /\ SameIds(u, v) /\ u.tree.folders = v.tree.folders
           /\ u.form = v.form /\ u.envs = v.envs /\ u.env = v.env /\ u.body = v.body
           /\ DOMAIN u.tree.requests = DOMAIN v.tree.requests
           /\ \A i \in DOMAIN v.tree.requests :
                  DOMAIN u.tree.requests[i].cases = DOMAIN v.tree.requests[i].cases
           /\ u.request = v.request /\ u.case = v.case
  <1> DEFINE s == v.tree.requests
             r == [s EXCEPT ![v.request] = q]
             t == [v.tree EXCEPT !.requests = r]
  <1>1. v \in Frames /\ Drawn(v)
    BY DEF Panels
  <1>2. s \in Seq(Requests) /\ v.request \in DOMAIN s
    BY <1>1, FrameIs DEF Drawn
  <1>3. /\ r \in Seq(Requests) /\ DOMAIN r = DOMAIN s
        /\ \A k \in DOMAIN s : r[k] = IF k = v.request THEN q ELSE s[k]
    <2> HIDE DEF s
    <2> QED BY <1>2, SeqWith
  <1>4. t \in Trees /\ t.requests = r /\ t.folders = v.tree.folders
    <2>1. v.tree \in Trees
      BY <1>1, FrameIs
    <2> HIDE DEF r
    <2> QED BY <2>1, <1>3 DEF Trees
  <1>5. u = ShowingTree(v, t)
    BY DEF ShowingRequest
  <1> HIDE DEF r, t
  <1>6. \A k \in DOMAIN s : /\ r[k].id = s[k].id /\ RowIds(r[k].cases) = RowIds(s[k].cases)
                            /\ DOMAIN r[k].cases = DOMAIN s[k].cases
    <2>1. DOMAIN q.cases = DOMAIN v.tree.requests[v.request].cases
      <3>1. \A l : DOMAIN RowIds(l) = DOMAIN l
        BY DEF RowIds
      <3> QED BY <3>1
    <2> QED BY <2>1, <1>3
  <1>7. IdsOf(t) = IdsOf(v.tree)
    <2>1. [k \in DOMAIN r |-> <<r[k].id, RowIds(r[k].cases)>>]
          = [k \in DOMAIN s |-> <<s[k].id, RowIds(s[k].cases)>>]
      BY <1>3, <1>6
    <2> QED BY <2>1, <1>4 DEF IdsOf
  <1>8. /\ u \in Frames /\ u.tree = t /\ u.envs = v.envs /\ u.request = v.request /\ u.case = v.case
        /\ u.env = v.env /\ u.form = v.form /\ u.body = v.body
    <2>1. v \in Frames /\ t \in Trees
      BY <1>1, <1>4
    <2> QED BY <2>1, <1>5, FrameWith
  <1>9. u \in Panels
    <2>1. u.request \in DOMAIN u.tree.requests /\ u.env \in DOMAIN u.envs
      BY <1>1, <1>3, <1>4, <1>8 DEF Drawn
    <2>2. u.case \in {0} \union DOMAIN u.tree.requests[u.request].cases
      BY <1>1, <1>2, <1>4, <1>6, <1>8 DEF Drawn
    <2> QED BY <2>1, <2>2, <1>8 DEF Panels, Drawn
  <1> QED BY <1>3, <1>4, <1>6, <1>7, <1>8, <1>9 DEF SameIds

LEMMA RequestSyncedIs ==
    ASSUME NEW v \in Panels
    PROVE  LET u == RequestSynced(v)
           IN  /\ u \in Panels /\ SameIds(u, v) /\ u.tree.folders = v.tree.folders
               /\ u.form = v.form /\ u.envs = v.envs /\ u.env = v.env /\ u.body = v.body
               /\ DOMAIN u.tree.requests = DOMAIN v.tree.requests
               /\ \A i \in DOMAIN v.tree.requests :
                      DOMAIN u.tree.requests[i].cases = DOMAIN v.tree.requests[i].cases
  <1> DEFINE x == v.tree.requests[v.request]
  <1>1. v \in Frames /\ Drawn(v) /\ x \in Requests /\ v.body \in Text
    BY FrameIs DEF Drawn, Panels
  <1>2. CASE InCase(v)
    <2> DEFINE c == x.cases[v.case]
               d == [c EXCEPT !.text = v.body]
               cs == [x.cases EXCEPT ![v.case] = d]
               q == [x EXCEPT !.cases = cs]
    <2>1. x.cases \in Seq(Items) /\ v.case \in DOMAIN x.cases /\ c \in Items
      BY <1>1, <1>2, RequestHas DEF Drawn, InCase
    <2>2. d \in Items /\ d.id = c.id
      BY <1>1, <2>1 DEF Items
    <2>3. /\ cs \in Seq(Items) /\ DOMAIN cs = DOMAIN x.cases
          /\ \A k \in DOMAIN x.cases : cs[k] = IF k = v.case THEN d ELSE x.cases[k]
      <3> HIDE DEF d, x
      <3> QED BY <2>1, <2>2, SeqWith
    <2>4. RowIds(cs) = RowIds(x.cases)
      <3> HIDE DEF d, cs, x
      <3>1. \A k \in DOMAIN x.cases : cs[k].id = x.cases[k].id
        BY <2>2, <2>3
      <3> QED BY <3>1, <2>3 DEF RowIds
    <2>5. q \in Requests /\ q.id = x.id /\ q.cases = cs
      <3> HIDE DEF cs, x
      <3> QED BY <1>1, <2>3 DEF Requests
    <2>6. RequestSynced(v) = [v EXCEPT !.tree = [v.tree EXCEPT !.requests = [v.tree.requests EXCEPT ![v.request] = q]]]
      BY <1>2 DEF RequestSynced
    <2>7. q.id = v.tree.requests[v.request].id /\ RowIds(q.cases) = RowIds(v.tree.requests[v.request].cases)
      BY <2>4, <2>5
    <2> DEFINE u == RequestSynced(v)
    <2> HIDE DEF q, cs, x, u
    <2>8. u = ShowingRequest(v, q)
      BY <2>6 DEF u, ShowingRequest, ShowingTree
    <2> HIDE DEF c, d
    <2> QED BY <2>5, <2>7, <2>8, TextWith DEF u
  <1>3. CASE ~InCase(v)
    <2> DEFINE q == [x EXCEPT !.text = v.body]
    <2>1. q \in Requests /\ q.id = x.id /\ q.cases = x.cases
      BY <1>1 DEF Requests
    <2>2. RequestSynced(v) = [v EXCEPT !.tree = [v.tree EXCEPT !.requests = [v.tree.requests EXCEPT ![v.request] = q]]]
      BY <1>3 DEF RequestSynced
    <2> DEFINE u == RequestSynced(v)
    <2>3. q.id = v.tree.requests[v.request].id /\ RowIds(q.cases) = RowIds(v.tree.requests[v.request].cases)
      BY <2>1
    <2> HIDE DEF q, x, u
    <2>4. u = ShowingRequest(v, q)
      BY <2>2 DEF u, ShowingRequest, ShowingTree
    <2> QED BY <2>1, <2>3, <2>4, TextWith DEF u
  <1> QED BY <1>2, <1>3

LEMMA SyncedIs ==
    ASSUME NEW v \in Panels
    PROVE  LET u == Synced(v)
           IN  /\ u \in Panels /\ SameIds(u, v) /\ u.tree.folders = v.tree.folders
               /\ DOMAIN u.tree.requests = DOMAIN v.tree.requests /\ DOMAIN u.envs = DOMAIN v.envs
               /\ \A i \in DOMAIN v.tree.requests :
                      DOMAIN u.tree.requests[i].cases = DOMAIN v.tree.requests[i].cases
               /\ u.env = v.env
  <1> DEFINE w == RequestSynced(v)
             e == [w.envs[v.env] EXCEPT !.head = v.form.head, !.data = v.form.data]
             l == [w.envs EXCEPT ![v.env] = e]
             u == Synced(v)
  <1>1. /\ w \in Panels /\ SameIds(w, v) /\ w.tree.folders = v.tree.folders
        /\ w.form = v.form /\ w.envs = v.envs /\ w.env = v.env /\ w.body = v.body
        /\ DOMAIN w.tree.requests = DOMAIN v.tree.requests
        /\ \A i \in DOMAIN v.tree.requests :
               DOMAIN w.tree.requests[i].cases = DOMAIN v.tree.requests[i].cases
    BY RequestSyncedIs
  <1>2. u = [w EXCEPT !.envs[v.env].head = v.form.head, !.envs[v.env].data = v.form.data]
    BY DEF Synced
  <1> HIDE DEF w
  <1>3. w \in Frames /\ Drawn(w) /\ v \in Frames
    BY <1>1 DEF Panels
  <1>4. w.envs \in Seq(Listed) /\ w.envs # <<>> /\ v.env \in DOMAIN w.envs /\ w.envs[v.env] \in Listed
        /\ v.form.head \in Text /\ v.form.data \in Text
    BY <1>1, <1>3, FrameIs DEF Drawn
  <1>5. e \in Listed /\ e.id = w.envs[v.env].id
    BY <1>4 DEF Listed
  <1>6. /\ l \in Seq(Listed) /\ DOMAIN l = DOMAIN w.envs
        /\ \A k \in DOMAIN w.envs : l[k] = IF k = v.env THEN e ELSE w.envs[k]
    <2> HIDE DEF e
    <2> QED BY <1>4, <1>5, SeqWith
  <1>7. u = ShowingEnvs(w, l)
    BY <1>2, <1>3, <1>4 DEF Frames, Lists, Listed, ShowingEnvs
  <1> HIDE DEF l, e, u
  <1>8. RowIds(l) = RowIds(w.envs)
    <2>1. \A k \in DOMAIN w.envs : l[k].id = w.envs[k].id
      BY <1>5, <1>6
    <2> QED BY <2>1, <1>6 DEF RowIds
  <1>9. l \in Lists
    <2>1. DOMAIN l # {}
      BY <1>4, <1>6
    <2>2. l # <<>>
      BY <2>1
    <2> QED BY <2>2, <1>6 DEF Lists
  <1>10. /\ u \in Frames /\ u.tree = w.tree /\ u.envs = l /\ u.request = w.request /\ u.case = w.case
         /\ u.env = w.env
    BY <1>3, <1>7, <1>9, FrameWithEnvs
  <1>11. u \in Panels
    BY <1>3, <1>6, <1>10 DEF Panels, Drawn
  <1> QED BY <1>1, <1>6, <1>8, <1>10, <1>11 DEF SameIds, u

-----------------------------------------------------------------------------
(* The variables keep their types, and the panel can always be drawn.      *)

LEMMA ListedAre ==
    ASSUME Typed
    PROVE  /\ ListedEnvs \in Lists /\ envs \in Seq(Listed)
           /\ envs # <<>> => ListedEnvs = envs
  <1>1. DefaultEnv \in Listed
    BY DEF DefaultEnv, Env, Listed, Text
  <1>2. envs \in Seq(Listed)
    <2>1. EnvsTo(born.env) \subseteq Listed
      BY DEF EnvsTo
    <2> QED BY <2>1, SeqMonotonic DEF Typed
  <1>3. <<DefaultEnv>> \in Seq(Listed) /\ <<DefaultEnv>> # <<>>
    BY <1>1
  <1> QED BY <1>2, <1>3 DEF ListedEnvs, Lists

LEMMA Opens ==
    ASSUME NEW tree \in Trees, tree.requests # <<>>, NEW l \in Lists
    PROVE  Opened(tree, l) \in Panels /\ Opened(tree, l).tree = tree /\ Opened(tree, l).envs = l
  <1> DEFINE case == IF tree.requests[1].cases = <<>> THEN 0 ELSE 1
             v == [tree |-> tree, request |-> 1, case |-> case, envs |-> l, env |-> 1, listed |-> Len(l),
                   body |-> None, form |-> [head |-> None, data |-> None]]
  <1>1. tree \in Trees /\ tree.requests # <<>>
    OBVIOUS
  <1>2. l \in Lists
    OBVIOUS
  <1>3. Opened(tree, l) = WithForm(WithEditor(v))
    BY DEF Opened
  <1>4. l \in Seq(Listed) /\ l # <<>> /\ 1 \in DOMAIN l /\ Len(l) \in Nat
    BY <1>2 DEF Lists
  <1>5. tree.requests \in Seq(Requests) /\ 1 \in DOMAIN tree.requests /\ tree.requests[1] \in Requests
    BY <1>1 DEF Trees
  <1>6. case \in Nat /\ case \in {0} \union DOMAIN tree.requests[1].cases
    <2>1. tree.requests[1].cases \in Seq(Items)
      BY <1>5, RequestHas
    <2> QED BY <2>1
  <1> HIDE DEF case
  <1>7. v \in Frames
    BY <1>1, <1>2, <1>4, <1>6 DEF Frames, Forms, Text
  <1>8. v \in Panels
    BY <1>4, <1>5, <1>6, <1>7 DEF Panels, Drawn
  <1>9. v.tree = tree /\ v.envs = l
    OBVIOUS
  <1> HIDE DEF v
  <1>10. WithEditor(v) \in Panels /\ WithEditor(v).tree = tree /\ WithEditor(v).envs = l
    BY <1>8, <1>9, WithEditorIs
  <1> QED BY <1>3, <1>10, WithFormIs

LEMMA ReadsAre ==
    ASSUME Typed
    PROVE  EnvsRead \subseteq Lists /\ TreesRead \subseteq Trees
  <1>1. <<DefaultEnv>> \in Lists
    <2>1. DefaultEnv \in Listed
      BY DEF DefaultEnv, Env, Listed, Text
    <2>2. <<DefaultEnv>> \in Seq(Listed) /\ <<DefaultEnv>> # <<>>
      BY <2>1
    <2> QED BY <2>2 DEF Lists
  <1>2. Tree(rows) \in Trees
    BY TreeIs DEF Typed
  <1>3. [folders |-> {}, requests |-> <<>>] \in Trees
    BY DEF Trees
  <1> QED BY <1>1, <1>2, <1>3, ListedAre DEF EnvsRead, TreesRead

LEMMA OpenedIs ==
    ASSUME Typed, NEW tree \in {FirstTree(rows), EmptyTree}, NEW l \in EnvsRead
    PROVE  Opened(tree, l) \in Panels /\ Opened(tree, l).tree = tree /\ Opened(tree, l).envs = l
  <1>1. born.node \in Nat /\ rows \in Seq(RowsTo(born.node)) /\ l \in Lists
    BY ReadsAre DEF Typed
  <1>2. tree \in Trees /\ tree.requests # <<>>
    BY <1>1, FirstIs, EmptyTreeIs
  <1> QED BY <1>1, <1>2, Opens

LEMMA WithTextIs ==
    ASSUME NEW n \in Nat, NEW rs \in Seq(RowsTo(n)), NEW id, NEW txt \in Text
    PROVE  WithText(rs, id, txt) \in Seq(RowsTo(n)) /\ Alike(rs, WithText(rs, id, txt))
  <1> DEFINE Row2(r) == IF r.id = id THEN [r EXCEPT !.text = txt] ELSE r
             qs == WithText(rs, id, txt)
  <1>1. ASSUME NEW r \in RowsTo(n)
        PROVE  Row2(r) \in RowsTo(n) /\ Row2(r).id = r.id /\ Row2(r).kind = r.kind /\ Row2(r).parent = r.parent
    BY DEF RowsTo, Rows
  <1>2. DOMAIN rs = 1..Len(rs) /\ Len(rs) \in Nat /\ \A i \in DOMAIN rs : rs[i] \in RowsTo(n)
    OBVIOUS
  <1>3. qs = [i \in 1..Len(rs) |-> Row2(rs[i])]
    BY <1>2 DEF WithText
  <1> HIDE DEF Row2, qs
  <1>4. qs \in [1..Len(rs) -> RowsTo(n)]
    BY <1>1, <1>2, <1>3
  <1>5. qs \in Seq(RowsTo(n))
    BY <1>2, <1>4, InSeq
  <1>6. Alike(rs, qs)
    BY <1>1, <1>2, <1>3 DEF Alike
  <1> QED BY <1>5, <1>6 DEF qs

LEMMA PersistedIs ==
    ASSUME Typed, NEW v \in Panels
    PROVE  Persisted(v) \in Seq(RowsTo(born.node)) /\ Alike(rows, Persisted(v))
  <1>1. born.node \in Nat /\ rows \in Seq(RowsTo(born.node)) /\ Selected(v).text \in Text
    BY SelectedIs DEF Typed
  <1>2. Alike(rows, rows)
    BY DEF Alike
  <1>3. WithText(rows, Selected(v).id, Selected(v).text) \in Seq(RowsTo(born.node))
        /\ Alike(rows, WithText(rows, Selected(v).id, Selected(v).text))
    BY <1>1, WithTextIs
  <1> QED BY <1>1, <1>2, <1>3 DEF Persisted

LEMMA WithoutIs ==
    ASSUME NEW C, NEW rs \in Seq(C), NEW id
    PROVE  /\ Without(rs, id) \in Seq(C)
           /\ \A r : r \in ToSet(Without(rs, id)) <=> r \in ToSet(rs) /\ r.id # id
  <1> DEFINE I == {i \in DOMAIN rs : rs[i].id # id}
             o == Only(rs, I)
  <1>1. o \in Seq(C) /\ \A x : x \in ToSet(o) <=> \E i \in DOMAIN rs : i \in I /\ x = rs[i]
    BY OnlySet
  <1>2. o = Without(rs, id)
    BY DEF Without
  <1> HIDE DEF o
  <1>3. \A r : r \in ToSet(rs) <=> \E i \in DOMAIN rs : r = rs[i]
    BY DEF ToSet
  <1> QED BY <1>1, <1>2, <1>3

\* What a step holds, by what it does.
LEMMA StepHas ==
    ASSUME NEW b \in [node : Nat, env : Nat], NEW s \in Steps(b)
    PROVE  /\ s.do = "envs" => s.tree \in Trees
           /\ s.do = "publish" => s.tree \in Trees /\ s.envs \in Lists
           /\ s.do = "insert" => s.row \in RowsTo(b.node)
           /\ s.do = "parent" => s.parent \in Nat /\ s.id \in 0..b.node /\ s.parent < s.id
           /\ s.do \in {"check", "list", "read", "delete", "checkenv", "dropenv"} => s.id \in Nat
           /\ s.do = "write" => s.id \in Nat /\ s.text \in Text
           /\ s.do = "insertenv" => s.env \in EnvsTo(b.env)
           /\ s.do = "head" => s.head \in Text
           /\ s.do = "fill" => s.data \in Text /\ s.ok \in BOOLEAN
           /\ s.do \in {"duplicate", "importenvs"} => s.x \in 0..b.env
           /\ s.do = "save" => s.x.head \in Text /\ s.x.data \in Text /\ s.x.ok \in BOOLEAN
  BY DEF Steps

LEMMA StepIn ==
    ASSUME NEW b \in [node : Nat, env : Nat]
    PROVE  /\ [do |-> "tree"] \in Steps(b)
           /\ \A t \in Trees : [do |-> "envs", tree |-> t] \in Steps(b)
           /\ \A t \in Trees, l \in Lists : [do |-> "publish", tree |-> t, envs |-> l] \in Steps(b)
           /\ \A r \in RowsTo(b.node) : [do |-> "insert", row |-> r] \in Steps(b)
           /\ \A p \in Nat, i \in 0..b.node : p < i => [do |-> "parent", parent |-> p, id |-> i] \in Steps(b)
           /\ \A w \in {"check", "list", "read", "delete"}, i \in Nat : [do |-> w, id |-> i] \in Steps(b)
           /\ \A i \in Nat, x \in Text : [do |-> "write", id |-> i, text |-> x] \in Steps(b)
           /\ \A e \in EnvsTo(b.env) : [do |-> "insertenv", env |-> e] \in Steps(b)
           /\ \A w \in {"checkenv", "dropenv", "wipe"}, i \in Nat : [do |-> w, id |-> i] \in Steps(b)
           /\ \A i \in Nat, x \in Text : [do |-> "head", id |-> i, head |-> x] \in Steps(b)
           /\ \A i \in Nat, k \in BOOLEAN, x \in Text : [do |-> "fill", id |-> i, ok |-> k, data |-> x] \in Steps(b)
           /\ \A w \in {"duplicate", "importenvs"}, i \in Text, x \in 0..b.env :
                  [do |-> w, at |-> i, x |-> x] \in Steps(b)
           /\ \A i \in Nat : [do |-> "drop", at |-> i, x |-> None] \in Steps(b)
           /\ \A i \in Nat, h \in Text, d \in Text, k \in BOOLEAN :
                  [do |-> "save", at |-> i, x |-> [head |-> h, data |-> d, ok |-> k]] \in Steps(b)
  BY DEF Steps

LEMMA NowIs ==
    ASSUME Typed, NEW t \in Task, job[t] # <<>>
    PROVE  /\ born \in [node : Nat, env : Nat] /\ born.node \in Nat /\ born.env \in Nat
           /\ job[t] \in Seq(Steps(born)) /\ Now(t) \in Steps(born) /\ Now(t) = job[t][1]
           /\ Tail(job[t]) \in Seq(Steps(born)) /\ Len(job[t]) \in Nat \ {0}
           /\ Len(Tail(job[t])) = Len(job[t]) - 1
           /\ \A i \in 1..Len(Tail(job[t])) : Tail(job[t])[i] = job[t][i + 1]
  <1>1. job[t] \in Seq(Steps(born)) /\ born \in [node : Nat, env : Nat]
    BY DEF Typed
  <1>2. Head(job[t]) \in Steps(born) /\ Head(job[t]) = job[t][1] /\ Tail(job[t]) \in Seq(Steps(born))
        /\ Len(Tail(job[t])) = Len(job[t]) - 1 /\ Len(job[t]) \in Nat \ {0}
        /\ \A i \in 1..Len(Tail(job[t])) : Tail(job[t])[i] = job[t][i + 1]
    <2> DEFINE S == Steps(born)
               s == job[t]
    <2>1. s \in Seq(S) /\ s # <<>>
      BY <1>1
    <2> HIDE DEF S, s
    <2>2. /\ Head(s) \in S /\ Head(s) = s[1] /\ Tail(s) \in Seq(S) /\ Len(Tail(s)) = Len(s) - 1
          /\ Len(s) \in Nat \ {0}
          /\ \A i \in 1..Len(Tail(s)) : Tail(s)[i] = s[i + 1]
      BY <2>1, HeadTailProperties
    <2> QED BY <2>2 DEF S, s
  <1> QED BY <1>1, <1>2 DEF Now

LEMMA GoesIs ==
    ASSUME Typed, NEW t \in Task, job[t] # <<>>, NEW on \in Seq(Steps(born)), Goes(t, on)
    PROVE  /\ job' \in [Task -> Seq(Steps(born))]
           /\ job'[t] = on \o Tail(job[t]) /\ \A u \in Task : u # t => job'[u] = job[u]
  <1> DEFINE j == on \o Tail(job[t])
  <1>1. j \in Seq(Steps(born))
    BY NowIs, ConcatProperties
  <1>2. job' = [job EXCEPT ![t] = j]
    BY DEF Goes
  <1>3. job \in [Task -> Seq(Steps(born))]
    BY DEF Typed
  <1> HIDE DEF j
  <1>4. job' \in [Task -> Seq(Steps(born))] /\ job'[t] = j /\ \A u \in Task : u # t => job'[u] = job[u]
    BY <1>1, <1>2, <1>3
  <1> QED BY <1>4 DEF j

LEMMA DoneIs ==
    ASSUME Typed, NEW t \in Task, job[t] # <<>>, Done(t)
    PROVE  /\ job' \in [Task -> Seq(Steps(born))]
           /\ job'[t] = Tail(job[t]) /\ \A u \in Task : u # t => job'[u] = job[u]
  <1>1. <<>> \in Seq(Steps(born)) /\ Goes(t, <<>>)
    BY DEF Done
  <1>2. <<>> \o Tail(job[t]) = Tail(job[t])
    BY NowIs, ConcatEmptySeq
  <1> QED BY <1>1, <1>2, GoesIs

LEMMA FailsIs ==
    ASSUME Typed, NEW t \in Task, Fails(t)
    PROVE  /\ job' \in [Task -> Seq(Steps(born))]
           /\ job'[t] = <<>> /\ \A u \in Task : u # t => job'[u] = job[u]
  BY DEF Typed, Fails

PendingTyped ==
    /\ pending.tree = <<>> \/ (Len(pending.tree) = 1 /\ pending.tree[1] \in Trees)
    /\ pending.envs = <<>> \/ (Len(pending.envs) = 1 /\ pending.envs[1] \in Lists)
    /\ pending = [tree |-> pending.tree, envs |-> pending.envs]

\* The sequences commands consist of.
LEMMA JobsIn ==
    ASSUME NEW b \in [node : Nat, env : Nat]
    PROVE  /\ Reload \in Seq(Steps(b))
           /\ \A r \in RowsTo(b.node) : Insertion(r) \in Seq(Steps(b)) /\ CreateCommand(r) \in Seq(Steps(b))
           /\ \A r, q \in RowsTo(b.node) : ImportCommand(r, q) \in Seq(Steps(b))
           /\ \A e \in EnvsTo(b.env) : NewEnv(e) \in Seq(Steps(b)) /\ NewEnv(e) \o Reload \in Seq(Steps(b))
  <1> DEFINE S == Steps(b)
  <1>1. Reload \in Seq(S)
    <2>1. [do |-> "tree"] \in S
      BY StepIn
    <2> HIDE DEF S
    <2> QED BY <2>1 DEF Reload
  <1>2. ASSUME NEW r \in RowsTo(b.node) PROVE Insertion(r) \in Seq(S)
    <2>1. [do |-> "insert", row |-> r] \in S /\ [do |-> "check", id |-> r.id] \in S
      BY StepIn, RowIs
    <2> HIDE DEF S
    <2> QED BY <2>1 DEF Insertion
  <1>3. ASSUME NEW e \in EnvsTo(b.env) PROVE NewEnv(e) \in Seq(S)
    <2>1. e.id \in Nat
      BY DEF EnvsTo
    <2>2. [do |-> "insertenv", env |-> e] \in S /\ [do |-> "checkenv", id |-> e.id] \in S
      BY <2>1, StepIn
    <2> HIDE DEF S
    <2> QED BY <2>2 DEF NewEnv
  <1> HIDE DEF S
  <1>4. \A s, u \in Seq(S) : s \o u \in Seq(S)
    BY ConcatProperties
  <1>5. \A r \in RowsTo(b.node) : CreateCommand(r) \in Seq(S)
    BY <1>1, <1>2, <1>4 DEF CreateCommand
  <1>6. \A r, q \in RowsTo(b.node) : ImportCommand(r, q) \in Seq(S)
    <2> TAKE r, q \in RowsTo(b.node)
    <2>1. Insertion(r) \in Seq(S) /\ Insertion(q) \in Seq(S)
      BY <1>2
    <2>2. Insertion(r) \o Insertion(q) \in Seq(S)
      BY <2>1, <1>4
    <2> QED BY <2>2, <1>1, <1>4 DEF ImportCommand
  <1>7. \A e \in EnvsTo(b.env) : NewEnv(e) \o Reload \in Seq(S)
    BY <1>1, <1>3, <1>4
  <1> QED BY <1>1, <1>2, <1>3, <1>5, <1>6, <1>7 DEF S

LEMMA Moved ==
    ASSUME Typed, job' \in [Task -> Seq(Steps(born))], rows' \in Seq(RowsTo(born.node)),
           envs' \in Seq(EnvsTo(born.env)), PendingTyped', orderly' \in BOOLEAN,
           UNCHANGED <<born, panel, drawing>>
    PROVE  Typed'
  BY DEF Typed, PendingTyped

\* The steps on the rows.
LEMMA RowStepsTyped ==
    ASSUME Typed, NEW t \in Task,
           Insert(t) \/ CheckRow(t) \/ ReadParent(t) \/ ListDoomed(t) \/ Delete(t) \/ ReadRow(t) \/ WriteRow(t)
    PROVE  Typed'
  <1> DEFINE S == Steps(born)
  <1>1. job[t] # <<>>
    BY DEF Insert, CheckRow, ReadParent, ListDoomed, Delete, ReadRow, WriteRow, At
  <1>2. /\ born \in [node : Nat, env : Nat] /\ born.node \in Nat /\ Now(t) \in S
        /\ rows \in Seq(RowsTo(born.node)) /\ envs \in Seq(EnvsTo(born.env)) /\ PendingTyped
        /\ orderly \in BOOLEAN
    BY <1>1, NowIs DEF Typed, PendingTyped
  <1>3. \A id : Has(rows, id) => Get(rows, id) \in RowsTo(born.node) /\ Get(rows, id).id = id
    <2> TAKE id
    <2> HAVE Has(rows, id)
    <2>1. PICK i \in DOMAIN rows : Get(rows, id) = rows[i] /\ rows[i].id = id
      BY GetIs
    <2> QED BY <2>1, <1>2, IdsAre
  <1>4. UNCHANGED pending => PendingTyped'
    BY <1>2 DEF PendingTyped
  <1> SUFFICES job' \in [Task -> Seq(S)] /\ rows' \in Seq(RowsTo(born.node))
      <2>1. UNCHANGED <<envs, born, pending, panel, drawing, orderly>>
        BY DEF Insert, CheckRow, ReadParent, ListDoomed, Delete, ReadRow, WriteRow
      <2> QED BY <2>1, <1>2, <1>4, Moved
  <1>5. CASE Insert(t)
    <2>1. Done(t) /\ rows' = Append(rows, Now(t).row) /\ Now(t).row \in RowsTo(born.node)
      BY <1>2, <1>5, StepHas DEF Insert, At, Now
    <2> QED BY <2>1, <1>1, <1>2, DoneIs, AppendProperties
  <1>6. CASE CheckRow(t)
    <2>1. (Done(t) \/ Fails(t)) /\ rows' = rows
      BY <1>6 DEF CheckRow, Else
    <2> QED BY <2>1, <1>1, <1>2, DoneIs, FailsIs
  <1>7. CASE ReadParent(t)
    <2> DEFINE p == Now(t).parent
               r == Row(Now(t).id, "case", p, Get(rows, p).text)
    <2>1. rows' = rows /\ Now(t).do = "parent"
      BY <1>7 DEF ReadParent, At, Now
    <2>2. CASE Has(rows, p)
      <3>1. p \in Nat /\ Now(t).id \in 0..born.node /\ p < Now(t).id
        BY <2>1, <1>2, StepHas
      <3>2. Get(rows, p).text \in Text
        BY <2>2, <1>2, <1>3, RowIs
      <3>3. r \in RowsTo(born.node)
        BY <3>1, <3>2 DEF Row, RowsTo, Rows, Text
      <3>4. CreateCommand(r) \in Seq(S)
        BY <3>3, <1>2, JobsIn
      <3>5. Goes(t, CreateCommand(r)) \/ Fails(t)
        BY <1>7 DEF ReadParent
      <3> QED BY <3>4, <3>5, <1>1, <1>2, <2>1, GoesIs, FailsIs
    <2>3. CASE ~Has(rows, p)
      BY <1>1, <1>2, <1>7, <2>1, <2>3, FailsIs DEF ReadParent
    <2> QED BY <2>2, <2>3
  <1>8. CASE ListDoomed(t)
    <2> DEFINE ids == Doomed(rows, Now(t).id)
               ds == [i \in DOMAIN ids |-> [do |-> "delete", id |-> ids[i]]]
    <2>1. Goes(t, ds \o Reload) /\ rows' = rows /\ Now(t).do = "list"
      BY <1>8 DEF ListDoomed, At, Now
    <2>2. ids \in Seq(Nat)
      BY <2>1, <1>2, StepHas, DoomedIs
    <2> HIDE DEF ids
    <2>3. ds \in [1..Len(ids) -> S] /\ Len(ids) \in Nat
      <3>1. Len(ids) \in Nat /\ DOMAIN ids = 1..Len(ids) /\ \A i \in DOMAIN ids : ids[i] \in Nat
        BY <2>2
      <3>2. \A i \in Nat : [do |-> "delete", id |-> i] \in S
        BY <1>2, StepIn
      <3> HIDE DEF S
      <3> QED BY <3>1, <3>2
    <2> HIDE DEF ds, S
    <2>4. ds \in Seq(S)
      BY <2>3, InSeq
    <2>5. ds \o Reload \in Seq(S)
      BY <2>4, <1>2, JobsIn, ConcatProperties DEF S
    <2> QED BY <2>1, <2>5, <1>1, <1>2, GoesIs DEF S
  <1>9. CASE Delete(t)
    <2>1. Done(t) /\ rows' = Without(rows, Now(t).id)
      BY <1>9 DEF Delete
    <2> QED BY <2>1, <1>1, <1>2, DoneIs, WithoutIs
  <1>10. CASE ReadRow(t)
    <2> DEFINE w == <<[do |-> "write", id |-> Now(t).id, text |-> Get(rows, Now(t).id).text]>>
    <2>1. rows' = rows /\ Now(t).do = "read"
      BY <1>10 DEF ReadRow, At, Now
    <2>2. CASE Has(rows, Now(t).id)
      <3>1. Get(rows, Now(t).id).text \in Text /\ Now(t).id \in Nat
        BY <2>1, <2>2, <1>2, <1>3, RowIs, StepHas
      <3>2. [do |-> "write", id |-> Now(t).id, text |-> Get(rows, Now(t).id).text] \in S
        BY <3>1, <1>2, StepIn
      <3>3. w \in Seq(S)
        <4> HIDE DEF S
        <4> QED BY <3>2
      <3> HIDE DEF w
      <3>4. w \o Reload \in Seq(S)
        BY <3>3, <1>2, JobsIn, ConcatProperties
      <3>5. Goes(t, w \o Reload)
        BY <1>10, <2>2 DEF ReadRow, w
      <3> QED BY <3>4, <3>5, <1>1, <1>2, <2>1, GoesIs
    <2>3. CASE ~Has(rows, Now(t).id)
      BY <1>1, <1>2, <1>10, <2>1, <2>3, FailsIs DEF ReadRow
    <2> QED BY <2>2, <2>3
  <1>11. CASE WriteRow(t)
    <2>1. Done(t) /\ rows' = WithText(rows, Now(t).id, Now(t).text) /\ Now(t).text \in Text
      BY <1>2, <1>11, StepHas DEF WriteRow, At, Now
    <2> QED BY <2>1, <1>1, <1>2, DoneIs, WithTextIs
  <1> QED BY <1>5, <1>6, <1>7, <1>8, <1>9, <1>10, <1>11

LEMMA EnvHas ==
    ASSUME NEW n \in Nat, NEW e \in EnvsTo(n)
    PROVE  e \in Listed /\ e.id \in 0..n /\ e.id \in Nat /\ e.head \in Text /\ e.data \in Text
  BY DEF EnvsTo, Listed

LEMMA EnvIn ==
    ASSUME NEW n \in Nat, NEW id \in 0..n, NEW h \in Text, NEW d \in Text
    PROVE  Env(id, h, d) \in EnvsTo(n) /\ Env(id, h, d).id = id
  BY DEF Env, EnvsTo, Listed, Text

LEMMA WithEnvIs ==
    ASSUME Typed, NEW id, NEW field \in {"head", "data"}, NEW value \in Text
    PROVE  /\ WithEnv(id, field, value) \in Seq(EnvsTo(born.env))
           /\ RowIds(WithEnv(id, field, value)) = RowIds(envs)
           /\ Len(WithEnv(id, field, value)) = Len(envs)
           /\ DOMAIN WithEnv(id, field, value) = DOMAIN envs
           /\ \A i \in DOMAIN envs : WithEnv(id, field, value)[i].id = envs[i].id
  <1> DEFINE n == born.env
             Env2(e) == IF e.id = id THEN [e EXCEPT ![field] = value] ELSE e
             l == WithEnv(id, field, value)
  <1>1. n \in Nat /\ envs \in Seq(EnvsTo(n))
    BY DEF Typed
  <1>2. DOMAIN envs = 1..Len(envs) /\ Len(envs) \in Nat /\ \A i \in DOMAIN envs : envs[i] \in EnvsTo(n)
    BY <1>1
  <1>3. ASSUME NEW e \in EnvsTo(n) PROVE Env2(e) \in EnvsTo(n) /\ Env2(e).id = e.id
    BY DEF EnvsTo, Listed
  <1>4. l = [i \in 1..Len(envs) |-> Env2(envs[i])]
    BY <1>2 DEF WithEnv
  <1> HIDE DEF Env2, l
  <1>5. l \in [1..Len(envs) -> EnvsTo(n)]
    BY <1>2, <1>3, <1>4
  <1>6. l \in Seq(EnvsTo(n)) /\ DOMAIN l = DOMAIN envs /\ Len(l) = Len(envs)
    BY <1>2, <1>5, InSeq
  <1>7. \A i \in DOMAIN envs : l[i].id = envs[i].id
    BY <1>2, <1>3, <1>4
  <1>8. RowIds(l) = RowIds(envs)
    BY <1>6, <1>7 DEF RowIds
  <1> QED BY <1>6, <1>7, <1>8 DEF l

\* The steps on the environments, and the reload.
LEMMA EnvStepsTyped ==
    ASSUME Typed, NEW t \in Task,
           \/ InsertEnv(t) \/ CheckEnv(t) \/ PickEnv(t) \/ DropEnv(t) \/ WriteEnv(t) \/ ImportEnvs(t)
           \/ ReadTree(t) \/ ReadEnvs(t) \/ LeaveForPanel(t)
    PROVE  Typed'
  <1> DEFINE S == Steps(born)
             n == born.env
  <1>1. job[t] # <<>>
    BY DEF InsertEnv, CheckEnv, PickEnv, DropEnv, WriteEnv, ImportEnvs, ReadTree, ReadEnvs, LeaveForPanel, At
  <1>2. /\ born \in [node : Nat, env : Nat] /\ n \in Nat /\ Now(t) \in S
        /\ rows \in Seq(RowsTo(born.node)) /\ envs \in Seq(EnvsTo(n)) /\ PendingTyped
        /\ orderly \in BOOLEAN
    BY <1>1, NowIs DEF Typed, PendingTyped
  <1>3. UNCHANGED pending => PendingTyped'
    BY <1>2 DEF PendingTyped
  <1>4. Reload \in Seq(S) /\ \A s, u \in Seq(S) : s \o u \in Seq(S)
    BY <1>2, JobsIn, ConcatProperties
  <1> SUFFICES /\ job' \in [Task -> Seq(S)] /\ envs' \in Seq(EnvsTo(n))
               /\ PendingTyped' /\ orderly' \in BOOLEAN
      <2>1. UNCHANGED <<rows, born, panel, drawing>>
        BY DEF InsertEnv, CheckEnv, PickEnv, DropEnv, WriteEnv, ImportEnvs, ReadTree, ReadEnvs, LeaveForPanel
      <2> QED BY <2>1, <1>2, Moved
  <1>5. CASE InsertEnv(t)
    <2>1. /\ Done(t) /\ envs' = Append(envs, Now(t).env) /\ Now(t).env \in EnvsTo(n)
          /\ UNCHANGED <<pending, orderly>>
      BY <1>2, <1>5, StepHas DEF InsertEnv, At, Now
    <2>2. envs' \in Seq(EnvsTo(n))
      BY <2>1, <1>2, AppendProperties
    <2> QED BY <2>1, <2>2, <1>1, <1>2, <1>3, DoneIs
  <1>6. CASE CheckEnv(t)
    <2>1. (Done(t) \/ Fails(t)) /\ UNCHANGED <<envs, pending, orderly>>
      BY <1>6 DEF CheckEnv, Else
    <2> QED BY <2>1, <1>1, <1>2, <1>3, DoneIs, FailsIs
  <1>7. CASE PickEnv(t)
    <2>1. UNCHANGED <<envs, pending, orderly>>
      BY <1>7 DEF PickEnv
    <2>2. ASSUME NEW at, at \in DOMAIN envs PROVE envs[at] \in EnvsTo(n)
      BY <1>2, <2>2
    <2>3. CASE Fails(t)
      BY <2>1, <2>3, <1>1, <1>2, <1>3, FailsIs
    <2>4. CASE At(t, "duplicate") /\ ~Fails(t)
      <3> DEFINE e == Env(Now(t).x, envs[Now(t).at].head, None)
                 f == <<[do |-> "fill", id |-> Now(t).x, ok |-> TRUE, data |-> envs[Now(t).at].data]>>
      <3>1. Goes(t, NewEnv(e) \o f \o Reload) /\ Now(t).at \in DOMAIN envs
        BY <1>7, <2>4 DEF PickEnv, At
      <3>2. Now(t).x \in 0..n
        BY <2>4, <1>2, StepHas DEF At, Now
      <3>3. envs[Now(t).at].head \in Text /\ envs[Now(t).at].data \in Text
        BY <3>1, <2>2, <1>2, EnvHas
      <3>4. e \in EnvsTo(n)
        BY <3>2, <3>3, <1>2, EnvIn DEF Text
      <3>5. NewEnv(e) \in Seq(S)
        <4> HIDE DEF e
        <4> QED BY <3>4, <1>2, JobsIn
      <3>6. [do |-> "fill", id |-> Now(t).x, ok |-> TRUE, data |-> envs[Now(t).at].data] \in S
        <4>1. Now(t).x \in Nat /\ TRUE \in BOOLEAN
          BY <3>2, <1>2
        <4> HIDE DEF S, n
        <4> QED BY <4>1, <3>3, <1>2, StepIn DEF S
      <3>7. f \in Seq(S)
        <4> HIDE DEF S
        <4> QED BY <3>6
      <3> HIDE DEF e, f, S
      <3>8. NewEnv(e) \o f \o Reload \in Seq(S)
        BY <3>5, <3>7, <1>4
      <3> QED BY <3>1, <3>8, <2>1, <1>1, <1>2, <1>3, GoesIs DEF S
    <2>5. CASE At(t, "drop") /\ ~Fails(t)
      <3> DEFINE d == <<[do |-> "dropenv", id |-> envs[Now(t).at].id]>>
      <3>1. Goes(t, d \o Reload) /\ Now(t).at \in DOMAIN envs
        BY <1>7, <2>5 DEF PickEnv, At
      <3>2. [do |-> "dropenv", id |-> envs[Now(t).at].id] \in S
        BY <3>1, <2>2, <1>2, EnvHas, StepIn
      <3>3. d \in Seq(S)
        <4> HIDE DEF S
        <4> QED BY <3>2
      <3> HIDE DEF d, S
      <3>4. d \o Reload \in Seq(S)
        BY <3>3, <1>4
      <3> QED BY <3>1, <3>4, <2>1, <1>1, <1>2, <1>3, GoesIs DEF S
    <2>6. CASE At(t, "save") /\ ~Fails(t)
      <3> DEFINE id == envs[Now(t).at].id
                 d == <<[do |-> "head", id |-> id, head |-> Now(t).x.head], [do |-> "wipe", id |-> id],
                        [do |-> "fill", id |-> id, ok |-> Now(t).x.ok, data |-> Now(t).x.data]>>
      <3>1. Goes(t, d \o Reload) /\ Now(t).at \in DOMAIN envs
        BY <1>7, <2>6 DEF PickEnv, At
      <3>2. id \in Nat
        BY <3>1, <2>2, <1>2, EnvHas
      <3>3. Now(t).x.head \in Text /\ Now(t).x.data \in Text /\ Now(t).x.ok \in BOOLEAN
        BY <2>6, <1>2, StepHas DEF At, Now
      <3> HIDE DEF id
      <3>4. /\ [do |-> "head", id |-> id, head |-> Now(t).x.head] \in S
            /\ [do |-> "wipe", id |-> id] \in S
            /\ [do |-> "fill", id |-> id, ok |-> Now(t).x.ok, data |-> Now(t).x.data] \in S
        BY <3>2, <3>3, <1>2, StepIn
      <3>5. d \in Seq(S)
        <4> HIDE DEF S
        <4> QED BY <3>4
      <3> HIDE DEF d, S
      <3>6. d \o Reload \in Seq(S)
        BY <3>5, <1>4
      <3> QED BY <3>1, <3>6, <2>1, <1>1, <1>2, <1>3, GoesIs DEF S
    <2> QED BY <1>7, <2>3, <2>4, <2>5, <2>6 DEF PickEnv
  <1>8. CASE DropEnv(t)
    <2>1. (Done(t) \/ Fails(t)) /\ envs' = Without(envs, Now(t).id) /\ UNCHANGED <<pending, orderly>>
      BY <1>8 DEF DropEnv, Else
    <2>2. envs' \in Seq(EnvsTo(n))
      BY <2>1, <1>2, WithoutIs
    <2> QED BY <2>1, <2>2, <1>1, <1>2, <1>3, DoneIs, FailsIs
  <1>9. CASE WriteEnv(t)
    <2>1. UNCHANGED pending /\ (Done(t) \/ Fails(t)) /\ orderly' \in BOOLEAN
      BY <1>2, <1>9 DEF WriteEnv, Else
    <2>2. envs' \in Seq(EnvsTo(n))
      <3>1. CASE At(t, "head")
        <4>1. envs' = WithEnv(Now(t).id, "head", Now(t).head) /\ Now(t).head \in Text
          BY <3>1, <1>2, <1>9, StepHas DEF WriteEnv, At, Now
        <4> QED BY <4>1, WithEnvIs
      <3>2. CASE At(t, "wipe")
        <4>1. envs' = WithEnv(Now(t).id, "data", None) /\ None \in Text
          BY <3>2, <1>9 DEF WriteEnv, At, Text
        <4> QED BY <4>1, WithEnvIs
      <3>3. CASE At(t, "fill")
        <4>1. Now(t).data \in Text /\ (envs' = WithEnv(Now(t).id, "data", Now(t).data) \/ envs' = envs)
          BY <3>3, <1>2, <1>9, StepHas DEF WriteEnv, At, Now
        <4>2. WithEnv(Now(t).id, "data", Now(t).data) \in Seq(EnvsTo(n))
          BY <4>1, WithEnvIs
        <4> QED BY <4>1, <4>2, <1>2
      <3> QED BY <3>1, <3>2, <3>3, <1>9 DEF WriteEnv
    <2> QED BY <2>1, <2>2, <1>1, <1>2, <1>3, DoneIs, FailsIs
  <1>10. CASE ImportEnvs(t)
    <2> DEFINE e == Env(Now(t).x, Now(t).x, Now(t).x)
    <2>1. Goes(t, Reload) /\ envs' = <<e>> /\ Now(t).x \in 0..n /\ UNCHANGED <<pending, orderly>>
      BY <1>2, <1>10, StepHas DEF ImportEnvs, At, Now
    <2>2. e \in EnvsTo(n)
      <3>1. n \in Nat /\ Now(t).x \in 0..n /\ Now(t).x \in Text
        BY <2>1, <1>2 DEF Text
      <3> QED BY <3>1, EnvIn
    <2>3. <<e>> \in Seq(EnvsTo(n))
      <3> HIDE DEF e
      <3> QED BY <2>2
    <2> QED BY <2>1, <2>3, <1>1, <1>2, <1>3, <1>4, GoesIs
  <1>11. CASE ReadTree(t)
    <2>4. UNCHANGED <<envs, pending>> /\ orderly' \in BOOLEAN
      BY <1>2, <1>11 DEF ReadTree
    <2>5. PICK tree \in TreesRead : Goes(t, <<[do |-> "envs", tree |-> tree]>>)
      BY <1>11 DEF ReadTree
    <2> DEFINE d == <<[do |-> "envs", tree |-> tree]>>
    <2>1. Goes(t, d) /\ UNCHANGED <<envs, pending>> /\ orderly' \in BOOLEAN
      BY <2>4, <2>5
    <2>2. [do |-> "envs", tree |-> tree] \in S
      BY <1>2, ReadsAre, StepIn
    <2>3. d \in Seq(S)
      <3> HIDE DEF S
      <3> QED BY <2>2
    <2> QED BY <2>1, <2>3, <1>1, <1>2, <1>3, GoesIs
  <1>12. CASE ReadEnvs(t)
    <2>4. UNCHANGED <<envs, pending>> /\ orderly' \in BOOLEAN /\ Now(t).tree \in Trees
      BY <1>2, <1>12, StepHas DEF ReadEnvs, At, Now
    <2>5. PICK list \in EnvsRead : Goes(t, <<[do |-> "publish", tree |-> Now(t).tree, envs |-> list]>>)
      BY <1>12 DEF ReadEnvs
    <2> DEFINE d == <<[do |-> "publish", tree |-> Now(t).tree, envs |-> list]>>
    <2>1. Goes(t, d) /\ UNCHANGED <<envs, pending>> /\ orderly' \in BOOLEAN /\ Now(t).tree \in Trees
      BY <2>4, <2>5
    <2>2. [do |-> "publish", tree |-> Now(t).tree, envs |-> list] \in S
      BY <2>1, <1>2, ReadsAre, StepIn
    <2>3. d \in Seq(S)
      <3> HIDE DEF S
      <3> QED BY <2>2
    <2> QED BY <2>1, <2>3, <1>1, <1>2, <1>3, GoesIs
  <1>13. CASE LeaveForPanel(t)
    <2>1. /\ Done(t) /\ UNCHANGED <<envs, orderly>> /\ Now(t).tree \in Trees /\ Now(t).envs \in Lists
          /\ pending' = [tree |-> <<Now(t).tree>>, envs |-> <<Now(t).envs>>]
      BY <1>2, <1>13, StepHas DEF LeaveForPanel, At, Now
    <2>2. PendingTyped'
      BY <2>1 DEF PendingTyped
    <2> QED BY <2>1, <2>2, <1>1, <1>2, DoneIs
  <1> QED BY <1>5, <1>6, <1>7, <1>8, <1>9, <1>10, <1>11, <1>12, <1>13

\* The panel takes what was left.
LEMMA TakeGroupsIs ==
    ASSUME Typed, TakeGroups
    PROVE  /\ Typed' /\ pending'.tree = <<>> /\ pending'.envs = pending.envs
           /\ pending.tree = <<>> => panel' = panel
           /\ pending.tree # <<>> => panel'.tree = Shows(pending.tree[1]) /\ panel'.envs = panel.envs
  <1>1. /\ panel \in Frames /\ Drawn(panel) /\ PendingTyped /\ panel.request # 0 /\ panel.env # 0
    <2>1. panel \in Frames /\ Drawn(panel)
      BY DEF Typed, Panels
    <2>2. panel.tree.requests \in Seq(Requests) /\ panel.envs \in Seq(Listed)
      BY <2>1, FrameIs
    <2> QED BY <2>1, <2>2 DEF Typed, PendingTyped, Drawn
  <1>2. /\ pending' = [tree |-> <<>>, envs |-> pending.envs] /\ PendingTyped'
    BY <1>1 DEF TakeGroups, PendingTyped
  <1>3. CASE pending.tree = <<>>
    <2>1. panel' = panel
      BY <1>3 DEF TakeGroups
    <2> QED BY <1>2, <1>3, <2>1 DEF TakeGroups, Typed, PendingTyped
  <1>4. CASE pending.tree # <<>>
    <2> DEFINE v == ShowingTree(panel, pending.tree[1])
    <2>1. pending.tree[1] \in Trees
      BY <1>1, <1>4 DEF PendingTyped
    <2>2. panel' = Renders(v)
      BY <1>4 DEF TakeGroups, ShowingTree
    <2> HIDE DEF v
    <2>3. v \in Frames /\ v.tree = pending.tree[1] /\ v.envs = panel.envs /\ v.request # 0 /\ v.env # 0
      BY <1>1, <2>1, FrameWith DEF v
    <2>4. panel' \in Panels /\ panel'.tree = Shows(pending.tree[1]) /\ panel'.envs = panel.envs
      BY <2>2, <2>3, RendersIs
    <2> QED BY <1>2, <1>4, <2>4 DEF TakeGroups, Typed, PendingTyped
  <1> QED BY <1>3, <1>4

LEMMA TakeEnvsIs ==
    ASSUME Typed, TakeEnvs
    PROVE  /\ Typed' /\ pending'.envs = <<>> /\ pending'.tree = pending.tree /\ panel'.tree = panel.tree
           /\ pending.envs = <<>> => panel' = panel
           /\ pending.envs # <<>> => panel'.envs = pending.envs[1]
  <1>1. /\ panel \in Frames /\ Drawn(panel) /\ PendingTyped /\ panel.request # 0 /\ panel.env # 0
        /\ panel.tree.requests # <<>>
    <2>1. panel \in Frames /\ Drawn(panel)
      BY DEF Typed, Panels
    <2>2. panel.tree.requests \in Seq(Requests) /\ panel.envs \in Seq(Listed)
      BY <2>1, FrameIs
    <2> QED BY <2>1, <2>2 DEF Typed, PendingTyped, Drawn
  <1>2. /\ pending' = [tree |-> pending.tree, envs |-> <<>>] /\ PendingTyped'
    BY <1>1 DEF TakeEnvs, PendingTyped
  <1>3. CASE pending.envs = <<>>
    <2>1. panel' = panel
      BY <1>3 DEF TakeEnvs
    <2> QED BY <1>2, <1>3, <2>1 DEF TakeEnvs, Typed, PendingTyped
  <1>4. CASE pending.envs # <<>>
    <2> DEFINE v == ShowingEnvs(panel, pending.envs[1])
    <2>1. pending.envs[1] \in Lists
      BY <1>1, <1>4 DEF PendingTyped
    <2>2. panel' = Renders(v)
      BY <1>4 DEF TakeEnvs, ShowingEnvs
    <2> HIDE DEF v
    <2>3. v \in Frames /\ v.envs = pending.envs[1] /\ v.tree = panel.tree /\ v.request # 0 /\ v.env # 0
      BY <1>1, <2>1, FrameWithEnvs DEF v
    <2>4. panel' \in Panels /\ panel'.envs = pending.envs[1] /\ panel'.tree = panel.tree
      BY <1>1, <2>2, <2>3, RendersIs DEF Shows
    <2> QED BY <1>2, <1>4, <2>4 DEF TakeEnvs, Typed, PendingTyped
  <1> QED BY <1>3, <1>4

\* Ids are given out, never taken back.
LEMMA Grows ==
    ASSUME NEW b \in [node : Nat, env : Nat], NEW c \in [node : Nat, env : Nat],
           b.node <= c.node, b.env <= c.env
    PROVE  /\ Seq(RowsTo(b.node)) \subseteq Seq(RowsTo(c.node))
           /\ Seq(EnvsTo(b.env)) \subseteq Seq(EnvsTo(c.env))
           /\ Seq(Steps(b)) \subseteq Seq(Steps(c))
  <1>1. RowsTo(b.node) \subseteq RowsTo(c.node)
    <2> SUFFICES ASSUME NEW r \in RowsTo(b.node) PROVE r \in RowsTo(c.node)
      OBVIOUS
    <2>1. r \in Rows /\ r.id \in Nat /\ r.id <= b.node
      BY RowIs
    <2> QED BY <2>1 DEF RowsTo
  <1>2. EnvsTo(b.env) \subseteq EnvsTo(c.env) /\ 0..b.env \subseteq 0..c.env /\ 0..b.node \subseteq 0..c.node
    BY DEF EnvsTo
  <1>3. Steps(b) \subseteq Steps(c)
    BY <1>1, <1>2 DEF Steps
  <1>4. \A A, B : A \subseteq B => Seq(A) \subseteq Seq(B)
    BY SeqMonotonic
  <1> QED BY <1>1, <1>2, <1>3, <1>4

\* A command on its thread.
LEMMA SpawnIs ==
    ASSUME Typed, NEW steps \in Seq(Steps(born')), born' \in [node : Nat, env : Nat],
           born.node <= born'.node, born.env <= born'.env,
           Spawn(steps)
    PROVE  /\ job' \in [Task -> Seq(Steps(born'))] /\ orderly' = (orderly /\ Idle)
           /\ \E t \in Task : /\ job[t] = <<>> /\ job'[t] = steps
                              /\ \A u \in Task : u # t => job'[u] = job[u]
  <1>1. job \in [Task -> Seq(Steps(born'))]
    BY Grows DEF Typed
  <1>2. PICK t \in Task : job[t] = <<>> /\ job' = [job EXCEPT ![t] = steps] /\ orderly' = (orderly /\ Idle)
    BY DEF Spawn
  <1> QED BY <1>1, <1>2

LEMMA Spawned ==
    ASSUME Typed, NEW steps \in Seq(Steps(born')), born' \in [node : Nat, env : Nat],
           born.node <= born'.node, born.env <= born'.env, Spawn(steps),
           UNCHANGED <<rows, envs, pending, drawing>>, panel' \in Panels
    PROVE  Typed'
  <1>1. job' \in [Task -> Seq(Steps(born'))] /\ orderly' \in BOOLEAN
    BY SpawnIs DEF Typed
  <1>2. rows' \in Seq(RowsTo(born'.node)) /\ envs' \in Seq(EnvsTo(born'.env))
    BY Grows DEF Typed
  <1> QED BY <1>1, <1>2 DEF Typed

LEMMA MenuIs ==
    ASSUME Typed, NEW menu \in MenuIds \union {None}
    PROVE  menu \in Text
  <1>1. panel \in Frames
    BY DEF Typed, Panels
  <1>2. CASE menu \in panel.tree.folders
    BY <1>1, <1>2, FrameIs DEF Text
  <1>3. CASE menu \in {panel.tree.requests[i].id : i \in DOMAIN panel.tree.requests}
    BY <1>1, <1>3, FrameIs, RequestHas
  <1>4. CASE menu \in UNION {ToSet(RowIds(panel.tree.requests[i].cases)) : i \in DOMAIN panel.tree.requests}
    <2>1. PICK i \in DOMAIN panel.tree.requests : menu \in ToSet(RowIds(panel.tree.requests[i].cases))
      BY <1>4
    <2> DEFINE cs == panel.tree.requests[i].cases
    <2>2. \A k \in DOMAIN cs : cs[k].id \in Nat
      BY <1>1, <2>1, FrameIs, RequestHas
    <2>3. PICK k \in DOMAIN cs : menu = cs[k].id
      BY <2>1 DEF ToSet, RowIds
    <2> QED BY <2>2, <2>3 DEF Text
  <1>5. CASE menu = None
    BY <1>5 DEF Text
  <1> QED BY <1>2, <1>3, <1>4, <1>5 DEF MenuIds

\* What a row that is there has.
LEMMA RowAt ==
    ASSUME NEW n \in Nat, NEW rs \in Seq(RowsTo(n)), NEW id, Has(rs, id)
    PROVE  /\ id \in 0..n
           /\ Get(rs, id).parent # None => Get(rs, id).parent \in 0..n
           /\ Get(rs, id).kind \in {"folder", "endpoint", "case"}
  <1>1. PICK i \in DOMAIN rs : Get(rs, id) = rs[i] /\ rs[i].id = id
    BY GetIs
  <1>2. rs[i] \in RowsTo(n)
    OBVIOUS
  <1> QED BY <1>1, <1>2, RowIs

\* Where a new row goes there is a row, or it is the root.
LEMMA PlaceIs ==
    ASSUME Typed, NEW new \in {"folder", "endpoint", "case"}, NEW menu
    PROVE  Place(new, menu) # None => Place(new, menu) \in 0..born.node
  <1>1. born.node \in Nat /\ rows \in Seq(RowsTo(born.node))
    BY DEF Typed
  <1>3. ASSUME NEW id PROVE ParentOf(id) # None => ParentOf(id) \in 0..born.node
    <2>1. CASE id # None /\ Has(rows, id)
      <3>1. ParentOf(id) = Get(rows, id).parent
        BY <2>1 DEF ParentOf
      <3>2. Get(rows, id).parent # None => Get(rows, id).parent \in 0..born.node
        BY <2>1, <1>1, RowAt
      <3> QED BY <3>1, <3>2
    <2>2. CASE ~(id # None /\ Has(rows, id))
      BY <2>2 DEF ParentOf
    <2> QED BY <2>1, <2>2
  <1>4. CASE menu = None \/ ~Has(rows, menu)
    BY <1>4 DEF Place
  <1>5. CASE ~(menu = None \/ ~Has(rows, menu))
    <2> Has(rows, menu)
      BY <1>5
    <2>1. menu \in 0..born.node /\ Get(rows, menu).kind \in {"folder", "endpoint", "case"}
      BY <1>1, RowAt
    <2>2. CASE Get(rows, menu).kind = "folder"
      <3>1. Place(new, menu) = IF new = "case" THEN None ELSE menu
        BY <1>5, <2>2 DEF Place
      <3> QED BY <3>1, <2>1
    <2>3. CASE Get(rows, menu).kind = "endpoint"
      <3>1. Place(new, menu) = IF new = "case" THEN menu ELSE ParentOf(menu)
        BY <1>5, <2>3 DEF Place
      <3>2. ParentOf(menu) # None => ParentOf(menu) \in 0..born.node
        BY <1>3
      <3> QED BY <3>1, <3>2, <2>1
    <2>4. CASE Get(rows, menu).kind = "case"
      <3>1. Place(new, menu) = IF new = "case" THEN ParentOf(menu) ELSE ParentOf(ParentOf(menu))
        BY <1>5, <2>4 DEF Place
      <3>2. /\ ParentOf(menu) # None => ParentOf(menu) \in 0..born.node
            /\ ParentOf(ParentOf(menu)) # None => ParentOf(ParentOf(menu)) \in 0..born.node
        BY <1>3
      <3> QED BY <3>1, <3>2
    <2> QED BY <2>1, <2>2, <2>3, <2>4
  <1> QED BY <1>4, <1>5

\* What the user does to the panel and to the rows.
LEMMA PanelActsTyped ==
    ASSUME Typed, SyncAndSave \/ SaveTable \/ ResetEnvironment \/ Reopen
                  \/ (\E i \in DOMAIN panel.tree.requests :
                          \E c \in {0} \union DOMAIN panel.tree.requests[i].cases : Select(i, c))
                  \/ (\E i \in DOMAIN panel.envs : SelectEnvironment(i))
    PROVE  Typed'
  <1> DEFINE w == Synced(panel)
  <1>1. /\ panel \in Panels /\ panel \in Frames /\ born.node \in Nat
        /\ panel.tree.requests \in Seq(Requests) /\ panel.envs \in Seq(Listed)
    BY FrameIs DEF Typed, Panels
  <1>2. w \in Panels /\ w \in Frames
    BY <1>1, SyncedIs DEF Panels
  <1>3. /\ DOMAIN w.tree.requests = DOMAIN panel.tree.requests /\ DOMAIN w.envs = DOMAIN panel.envs
        /\ \A i \in DOMAIN panel.tree.requests :
               DOMAIN w.tree.requests[i].cases = DOMAIN panel.tree.requests[i].cases
    BY <1>1, SyncedIs
  <1>4. CASE SyncAndSave
    <2>1. panel' = w /\ rows' = Persisted(w)
      BY <1>4 DEF SyncAndSave
    <2> HIDE DEF w
    <2>2. panel' \in Panels /\ rows' \in Seq(RowsTo(born.node))
      BY <2>1, <1>2, PersistedIs
    <2> QED BY <2>2, <1>4 DEF SyncAndSave, Typed
  <1>5. CASE SaveTable
    <2> DEFINE x == RequestSynced(panel)
    <2>1. panel' = x /\ rows' = Persisted(x) /\ x \in Panels
      BY <1>1, <1>5, RequestSyncedIs DEF SaveTable
    <2> HIDE DEF x
    <2>2. panel' \in Panels /\ rows' \in Seq(RowsTo(born.node))
      BY <2>1, PersistedIs
    <2> QED BY <2>2, <1>5 DEF SaveTable, Typed
  <1>6. CASE ResetEnvironment
    <2>1. panel' \in Panels
      BY <1>1, <1>6, WithFormIs DEF ResetEnvironment
    <2> QED BY <2>1, <1>6 DEF ResetEnvironment, Typed
  <1>7. CASE Reopen
    <2>1. PICK tree \in {FirstTree(rows), EmptyTree}, list \in EnvsRead : panel' = Opened(tree, list)
      BY <1>7 DEF Reopen
    <2>2. panel' \in Panels
      BY <2>1, OpenedIs
    <2>3. UNCHANGED <<rows, envs, born, job, pending, drawing>> /\ orderly' \in BOOLEAN
      BY <1>7 DEF Reopen, Typed
    <2> QED BY <2>2, <2>3 DEF Typed
  <1>8. ASSUME NEW i \in DOMAIN panel.tree.requests, NEW c \in {0} \union DOMAIN panel.tree.requests[i].cases,
               Select(i, c)
        PROVE  Typed'
    <2> DEFINE u == [w EXCEPT !.request = i, !.case = c]
    <2>1. panel' = WithEditor(u)
      BY <1>8 DEF Select
    <2> HIDE DEF w
    <2>2. i \in Nat /\ c \in Nat
      <3>1. panel.tree.requests[i].cases \in Seq(Items)
        BY <1>1, RequestHas
      <3> QED BY <1>1, <3>1
    <2>3. /\ u \in Frames /\ u.request = i /\ u.case = c /\ u.tree = w.tree /\ u.envs = w.envs /\ u.env = w.env
      BY <1>2, <2>2 DEF Frames
    <2> HIDE DEF u
    <2>4. u \in Panels
      BY <1>2, <1>3, <2>3 DEF Panels, Drawn
    <2>5. panel' \in Panels
      BY <2>1, <2>4, WithEditorIs
    <2> QED BY <2>5, <1>8 DEF Select, Typed
  <1>9. ASSUME NEW i \in DOMAIN panel.envs, SelectEnvironment(i)
        PROVE  Typed'
    <2> DEFINE u == [w EXCEPT !.env = i, !.listed = Len(panel.envs)]
    <2>1. panel' = WithForm(u) /\ rows' = Persisted(w)
      BY <1>9 DEF SelectEnvironment
    <2> HIDE DEF w
    <2>2. i \in Nat /\ Len(panel.envs) \in Nat
      BY <1>1
    <2>3. /\ u \in Frames /\ u.request = w.request /\ u.case = w.case /\ u.tree = w.tree /\ u.envs = w.envs
          /\ u.env = i
      BY <1>2, <2>2 DEF Frames
    <2> HIDE DEF u
    <2>4. u \in Panels
      BY <1>2, <1>3, <2>3 DEF Panels, Drawn
    <2>5. panel' \in Panels
      BY <2>1, <2>4, WithFormIs
    <2>6. rows' \in Seq(RowsTo(born.node))
      BY <2>1, <1>2, PersistedIs
    <2> QED BY <2>5, <2>6, <1>9 DEF SelectEnvironment, Typed
  <1> QED BY <1>4, <1>5, <1>6, <1>7, <1>8, <1>9

\* The ids a click gives out.
LEMMA BornIs ==
    ASSUME Typed
    PROVE  /\ \A n \in Nat : BornNodes(n) => born' = [node |-> born.node + n, env |-> born.env]
           /\ BornEnv => born' = [node |-> born.node, env |-> born.env + 1]
           /\ born.node \in Nat /\ born.env \in Nat
  BY DEF Typed, BornNodes, BornEnv

\* What the user has done to the rows.
LEMMA RowCommandsTyped ==
    ASSUME Typed, NEW menu \in MenuIds \union {None},
           CreateEndpoint(menu) \/ CreateFolder(menu) \/ CreateCase(menu) \/ DeleteItem(menu)
           \/ Rename(menu) \/ ImportCollection
    PROVE  Typed'
  <1> DEFINE n == born.node + 1
             S == Steps(born')
  <1>1. menu \in Text /\ born.node \in Nat /\ born.env \in Nat /\ panel \in Panels /\ n \in Nat
        /\ born \in [node : Nat, env : Nat]
    BY MenuIs DEF Typed
  <1>2. ASSUME NEW id \in Nat, born.node < id, NEW p \in Text, p # None => p \in 0..born.node
        PROVE  Endpoint(id, p) \in Rows /\ Folder(id, p) \in Rows /\ Endpoint(id, p).id = id /\ Folder(id, p).id = id
    BY <1>1, <1>2 DEF Endpoint, Folder, Row, Rows, Text
  <1>3. ASSUME NEW new \in {"folder", "endpoint", "case"}
        PROVE  /\ Place(new, menu) \in Text
               /\ Place(new, menu) # None => Place(new, menu) \in 0..born.node
    <2>1. Place(new, menu) # None => Place(new, menu) \in 0..born.node
      BY PlaceIs
    <2> QED BY <2>1, <1>1 DEF Text
  <1>4. CASE CreateEndpoint(menu)
    <2> DEFINE r == Endpoint(n, Place("endpoint", menu))
    <2>1. born' = [node |-> n, env |-> born.env] /\ Spawn(CreateCommand(r)) /\ panel' = panel
          /\ UNCHANGED <<rows, envs, pending, drawing>>
      BY <1>4, BornIs DEF CreateEndpoint
    <2>2. r \in RowsTo(n)
      BY <1>1, <1>2, <1>3 DEF RowsTo
    <2> HIDE DEF r
    <2>3. CreateCommand(r) \in Seq(S)
      BY <1>1, <2>1, <2>2, JobsIn
    <2> QED BY <1>1, <2>1, <2>3, Spawned
  <1>5. CASE CreateFolder(menu)
    <2> DEFINE r == Folder(n, Place("folder", menu))
    <2>1. born' = [node |-> n, env |-> born.env] /\ Spawn(CreateCommand(r)) /\ panel' = panel
          /\ UNCHANGED <<rows, envs, pending, drawing>>
      BY <1>5, BornIs DEF CreateFolder
    <2>2. r \in RowsTo(n)
      BY <1>1, <1>2, <1>3 DEF RowsTo
    <2> HIDE DEF r
    <2>3. CreateCommand(r) \in Seq(S)
      BY <1>1, <2>1, <2>2, JobsIn
    <2> QED BY <1>1, <2>1, <2>3, Spawned
  <1>6. CASE CreateCase(menu)
    <2> DEFINE p == Place("case", menu)
               s == [do |-> "parent", parent |-> p, id |-> n]
    <2>1. born' = [node |-> n, env |-> born.env] /\ Spawn(<<s>>) /\ panel' = panel /\ p # None
          /\ UNCHANGED <<rows, envs, pending, drawing>>
      BY <1>6, BornIs DEF CreateCase, CaseCommand
    <2>2. p \in Nat /\ p < n
      BY <1>1, <1>3, <2>1
    <2> HIDE DEF p
    <2>3. s \in S
      BY <1>1, <2>1, <2>2, StepIn
    <2> HIDE DEF s, S
    <2>4. <<s>> \in Seq(S)
      BY <2>3
    <2>5. born' \in [node : Nat, env : Nat] /\ born.node <= born'.node /\ born.env <= born'.env
      BY <1>1, <2>1
    <2> QED BY <1>1, <2>1, <2>4, <2>5, Spawned DEF S
  <1>7. CASE DeleteItem(menu)
    <2> DEFINE s == [do |-> "list", id |-> menu]
    <2>1. born' = born /\ Spawn(<<s>>) /\ panel' = panel /\ menu # None
          /\ UNCHANGED <<rows, envs, pending, drawing>>
      BY <1>7 DEF DeleteItem, DeleteCommand
    <2>2. menu \in Nat
      BY <1>1, <2>1 DEF Text
    <2>3. s \in S
      BY <1>1, <2>1, <2>2, StepIn
    <2> HIDE DEF s, S
    <2>4. <<s>> \in Seq(S)
      BY <2>3
    <2>5. born' \in [node : Nat, env : Nat] /\ born.node <= born'.node /\ born.env <= born'.env
      BY <1>1, <2>1
    <2> QED BY <1>1, <2>1, <2>4, <2>5, Spawned DEF S
  <1>8. CASE Rename(menu)
    <2> DEFINE s == [do |-> "read", id |-> menu]
    <2>1. born' = born /\ Spawn(<<s>>) /\ panel' = panel /\ menu # None
          /\ UNCHANGED <<rows, envs, pending, drawing>>
      BY <1>8 DEF Rename, RenameCommand
    <2>2. menu \in Nat
      BY <1>1, <2>1 DEF Text
    <2>3. s \in S
      BY <1>1, <2>1, <2>2, StepIn
    <2> HIDE DEF s, S
    <2>4. <<s>> \in Seq(S)
      BY <2>3
    <2>5. born' \in [node : Nat, env : Nat] /\ born.node <= born'.node /\ born.env <= born'.env
      BY <1>1, <2>1
    <2> QED BY <1>1, <2>1, <2>4, <2>5, Spawned DEF S
  <1>9. CASE ImportCollection
    <2> DEFINE r == Folder(n, None)
               q == Endpoint(n + 1, n)
    <2>1. born' = [node |-> born.node + 2, env |-> born.env] /\ panel' = panel
          /\ UNCHANGED <<rows, envs, pending, drawing>>
      BY <1>9, BornIs DEF ImportCollection
    <2>2. Spawn(ImportCommand(r, q))
      BY <1>1, <1>9 DEF ImportCollection
    <2>3. r \in RowsTo(born.node + 2)
      <3>1. Folder(n, None) \in Rows /\ Folder(n, None).id = n
        BY <1>1 DEF Folder, Row, Rows, Text
      <3> QED BY <1>1, <3>1 DEF RowsTo
    <2>4. q \in RowsTo(born.node + 2)
      BY <1>1, WorkspaceAssumption DEF RowsTo, Endpoint, Row, Rows, Text
    <2> HIDE DEF r, q
    <2>5. ImportCommand(r, q) \in Seq(S)
      BY <1>1, <2>1, <2>3, <2>4, JobsIn
    <2> QED BY <1>1, <2>1, <2>2, <2>5, Spawned
  <1> QED BY <1>4, <1>5, <1>6, <1>7, <1>8, <1>9

\* What the user has done to the environments.
LEMMA EnvCommandsTyped ==
    ASSUME Typed, CreateEnvironment \/ DuplicateEnvironment \/ DeleteEnvironment \/ ImportEnvironments
                  \/ (\E distinct \in BOOLEAN : SaveEnvironment(distinct))
    PROVE  Typed'
  <1> DEFINE n == born.env + 1
             S == Steps(born')
  <1>1. /\ born.node \in Nat /\ born.env \in Nat /\ panel \in Panels /\ n \in Nat
        /\ born \in [node : Nat, env : Nat] /\ panel.env \in Nat
        /\ panel.form.head \in Text /\ panel.form.data \in Text
    BY FrameIs DEF Typed, Panels
  <1>2. Synced(panel) \in Panels
    BY <1>1, SyncedIs
  <1>3. CASE CreateEnvironment
    <2> DEFINE e == Env(n, n, None)
    <2>1. born' = [node |-> born.node, env |-> n] /\ Spawn(NewEnv(e) \o Reload) /\ panel' = panel
          /\ UNCHANGED <<rows, envs, pending, drawing>>
      BY <1>3, BornIs DEF CreateEnvironment
    <2>2. e \in EnvsTo(n)
      BY <1>1 DEF Env, EnvsTo, Listed, Text
    <2> HIDE DEF e
    <2>3. NewEnv(e) \o Reload \in Seq(S)
      BY <1>1, <2>1, <2>2, JobsIn
    <2>4. born' \in [node : Nat, env : Nat] /\ born.node <= born'.node /\ born.env <= born'.env
      BY <1>1, <2>1
    <2> QED BY <1>1, <2>1, <2>3, <2>4, Spawned
  <1>4. CASE DuplicateEnvironment
    <2> DEFINE s == [do |-> "duplicate", at |-> panel.env, x |-> n]
    <2>1. born' = [node |-> born.node, env |-> n] /\ Spawn(<<s>>) /\ panel' = Synced(panel)
          /\ UNCHANGED <<rows, envs, pending, drawing>>
      BY <1>4, BornIs DEF DuplicateEnvironment, EnvCommand
    <2>2. s \in S
      <3>1. panel.env \in Text
        BY <1>1 DEF Text
      <3> QED BY <1>1, <2>1, <3>1, StepIn
    <2> HIDE DEF s, S
    <2>3. <<s>> \in Seq(S)
      BY <2>2
    <2>4. born' \in [node : Nat, env : Nat] /\ born.node <= born'.node /\ born.env <= born'.env
      BY <1>1, <2>1
    <2> QED BY <1>1, <1>2, <2>1, <2>3, <2>4, Spawned DEF S
  <1>5. CASE DeleteEnvironment
    <2> DEFINE s == [do |-> "drop", at |-> panel.env, x |-> None]
    <2>1. born' = born /\ Spawn(<<s>>) /\ panel' = Synced(panel)
          /\ UNCHANGED <<rows, envs, pending, drawing>>
      BY <1>5 DEF DeleteEnvironment, EnvCommand
    <2>2. s \in S
      BY <1>1, <2>1, StepIn
    <2> HIDE DEF s, S
    <2>3. <<s>> \in Seq(S)
      BY <2>2
    <2>4. born' \in [node : Nat, env : Nat] /\ born.node <= born'.node /\ born.env <= born'.env
      BY <1>1, <2>1
    <2> QED BY <1>1, <1>2, <2>1, <2>3, <2>4, Spawned DEF S
  <1>6. CASE ImportEnvironments
    <2> DEFINE s == [do |-> "importenvs", at |-> None, x |-> n]
    <2>1. born' = [node |-> born.node, env |-> n] /\ Spawn(<<s>>) /\ panel' = panel
          /\ UNCHANGED <<rows, envs, pending, drawing>>
      BY <1>6, BornIs DEF ImportEnvironments, EnvCommand
    <2>2. s \in S
      <3>1. None \in Text
        BY DEF Text
      <3> QED BY <1>1, <2>1, <3>1, StepIn
    <2> HIDE DEF s, S
    <2>3. <<s>> \in Seq(S)
      BY <2>2
    <2>4. born' \in [node : Nat, env : Nat] /\ born.node <= born'.node /\ born.env <= born'.env
      BY <1>1, <2>1
    <2> QED BY <1>1, <1>2, <2>1, <2>3, <2>4, Spawned DEF S
  <1>7. ASSUME NEW k \in BOOLEAN, SaveEnvironment(k)
        PROVE  Typed'
    <2> DEFINE x == [head |-> panel.form.head, data |-> panel.form.data, ok |-> k]
               s == [do |-> "save", at |-> panel.env, x |-> x]
    <2>1. born' = born /\ Spawn(<<s>>) /\ panel' = Synced(panel)
          /\ UNCHANGED <<rows, envs, pending, drawing>>
      BY <1>7 DEF SaveEnvironment, EnvCommand
    <2>2. s \in S
      BY <1>1, <2>1, StepIn
    <2> HIDE DEF s, S
    <2>3. <<s>> \in Seq(S)
      BY <2>2
    <2>4. born' \in [node : Nat, env : Nat] /\ born.node <= born'.node /\ born.env <= born'.env
      BY <1>1, <2>1
    <2> QED BY <1>1, <1>2, <2>1, <2>3, <2>4, Spawned DEF S
  <1> QED BY <1>3, <1>4, <1>5, <1>6, <1>7

LEMMA TypedInit == WorkspaceInit => Typed
  <1> SUFFICES ASSUME WorkspaceInit PROVE Typed
    OBVIOUS
  <1> DEFINE n == Len(Stored)
  <1>1. n \in Nat /\ rows = Stored /\ Stored \in Seq(Rows) /\ born = [node |-> n, env |-> 1]
    BY WorkspaceAssumption DEF WorkspaceInit
  <1>2. rows \in Seq(RowsTo(n))
    <2>1. \A i \in 1..n : Stored[i] \in RowsTo(n)
      BY <1>1, WorkspaceAssumption DEF RowsTo
    <2>2. Stored \in [1..n -> RowsTo(n)]
      BY <1>1, <2>1
    <2> QED BY <1>1, <2>2, InSeq
  <1>3. envs \in Seq(EnvsTo(1)) /\ envs = <<Env(1, 1, 1)>>
    <2>1. Env(1, 1, 1) \in EnvsTo(1)
      BY DEF Env, EnvsTo, Listed, Text
    <2> QED BY <2>1 DEF WorkspaceInit
  <1>4. job \in [Task -> Seq(Steps(born))]
    BY DEF WorkspaceInit
  <1>5. ListedEnvs \in Lists
    <2>1. Env(1, 1, 1) \in Listed
      BY DEF Env, Listed, Text
    <2> QED BY <1>3, <2>1 DEF ListedEnvs, Lists
  <1>6. Opened(FirstTree(rows), ListedEnvs) \in Panels
    <2>1. FirstTree(rows) \in Trees /\ FirstTree(rows).requests # <<>>
      BY <1>1, <1>2, FirstIs
    <2> QED BY <1>5, <2>1, Opens
  <1>7. /\ pending.tree = <<>> /\ pending.envs = <<>> /\ pending = [tree |-> pending.tree, envs |-> pending.envs]
        /\ panel = Opened(FirstTree(rows), ListedEnvs) /\ drawing = FALSE
    BY DEF WorkspaceInit, Nothing
  <1>8. orderly \in BOOLEAN
    BY DEF WorkspaceInit, Known
  <1>9. born \in [node : Nat, env : Nat] /\ born.node = n /\ born.env = 1
    BY <1>1
  <1> QED BY <1>1, <1>2, <1>3, <1>4, <1>6, <1>7, <1>8, <1>9 DEF Typed

\* A panic comes from what can be drawn, and nothing comes after it.
Runs == panicked \/ Typed

LEMMA TypedNext == Runs /\ [WorkspaceNext]_workspaceVars => Runs'
  <1> SUFFICES ASSUME Runs, [WorkspaceNext]_workspaceVars, ~panicked' PROVE Typed'
    BY DEF Runs
  <1>5. ~panicked /\ Typed
    BY DEF Runs, WorkspaceNext, workspaceVars
  <1>1. CASE UNCHANGED workspaceVars
    BY <1>1, <1>5 DEF Typed, workspaceVars
  <1>2. ASSUME NEW t \in Task, Commands(t) PROVE Typed'
    BY <1>2, <1>5, RowStepsTyped, EnvStepsTyped DEF Commands
  <1>3. CASE TakeGroups \/ TakeEnvs
    BY <1>3, <1>5, TakeGroupsIs, TakeEnvsIs
  <1>4. CASE User
    <2>1. ASSUME NEW menu \in MenuIds \union {None},
                 CreateEndpoint(menu) \/ CreateFolder(menu) \/ CreateCase(menu)
                 \/ DeleteItem(menu) \/ Rename(menu)
          PROVE  Typed'
      BY <1>5, <2>1, RowCommandsTyped
    <2>2. CASE ImportCollection
      <3>1. None \in MenuIds \union {None}
        OBVIOUS
      <3> QED BY <1>5, <2>2, <3>1, RowCommandsTyped
    <2>3. CASE SyncAndSave \/ SaveTable \/ ResetEnvironment \/ Reopen
               \/ (\E i \in DOMAIN panel.tree.requests :
                       \E c \in {0} \union DOMAIN panel.tree.requests[i].cases : Select(i, c))
               \/ (\E i \in DOMAIN panel.envs : SelectEnvironment(i))
      BY <1>5, <2>3, PanelActsTyped
    <2>4. CASE CreateEnvironment \/ DuplicateEnvironment \/ DeleteEnvironment \/ ImportEnvironments
               \/ (\E distinct \in BOOLEAN : SaveEnvironment(distinct))
      BY <1>5, <2>4, EnvCommandsTyped
    <2> QED BY <1>4, <2>1, <2>2, <2>3, <2>4 DEF User
  <1>6. ASSUME NEW i, SelectMissing(i) PROVE FALSE
    BY <1>6 DEF SelectMissing
  <1> QED BY <1>1, <1>2, <1>3, <1>4, <1>6 DEF WorkspaceNext

\* Whatever the commands of the user do, in whatever order and at the same time,
\* every variable of the workspace keeps its kind of value, for as long as there was
\* no panic: a row is newer than its parent, and what the panel has selected is there.
THEOREM WorkspaceTyped == WorkspaceSpec => []Runs
  <1>1. WorkspaceInit => Runs
    BY TypedInit DEF Runs
  <1> QED BY <1>1, TypedNext, PTL DEF WorkspaceSpec

\* There is always a request, a case and an environment at the positions the panel
\* has selected: what drawing, syncing the editors and sending take for granted.  It
\* fails in one way only, when the user selects a row of an environment editor that
\* was drawn before a reload left the panel fewer environments.
THEOREM AlwaysRenderable == WorkspaceSpec => []Renderable
  <1>1. Runs => Renderable
    BY DEF Runs, Typed, Panels, Drawn, Renderable
  <1> QED BY <1>1, WorkspaceTyped, PTL

-----------------------------------------------------------------------------
(* Commands that do not overlap: what is left of one after a step.         *)

LEMMA LeftIs ==
    ASSUME NEW j, NEW x
    PROVE  x \in Left(j) <=> \E i \in DOMAIN j : j[i].do = "delete" /\ x = j[i].id
  BY DEF Left

LEMMA PlannedIs ==
    ASSUME NEW j, NEW i, NEW x
    PROVE  x \in Planned(j, i) <=> \E k \in 1..(i - 1) : j[k].do = "insert" /\ x = Spot(j[k].row)
  BY DEF Planned

LEMMA TailIs ==
    ASSUME NEW D, NEW j \in Seq(D), j # <<>>
    PROVE  /\ Tail(j) \in Seq(D) /\ Len(j) \in Nat /\ Len(j) >= 1 /\ Len(Tail(j)) = Len(j) - 1
           /\ DOMAIN j = 1..Len(j) /\ DOMAIN Tail(j) = 1..(Len(j) - 1)
           /\ \A i \in 1..(Len(j) - 1) : Tail(j)[i] = j[i + 1]
           /\ \A x : x \in Left(j) <=> x \in Left(Tail(j)) \/ (j[1].do = "delete" /\ x = j[1].id)
           /\ \A i \in 1..(Len(j) - 1) : \A x : x \in Planned(j, i + 1)
                  <=> x \in Planned(Tail(j), i) \/ (j[1].do = "insert" /\ x = Spot(j[1].row))
  <1> DEFINE k == Tail(j)
             n == Len(j)
  <1>1. /\ k \in Seq(D) /\ n \in Nat /\ n >= 1 /\ Len(k) = n - 1 /\ DOMAIN j = 1..n /\ DOMAIN k = 1..(n - 1)
        /\ \A i \in 1..(n - 1) : k[i] = j[i + 1]
    BY HeadTailProperties, EmptySeq
  <1> HIDE DEF k, n
  <1>2. ASSUME NEW x
        PROVE  x \in Left(j) <=> x \in Left(k) \/ (j[1].do = "delete" /\ x = j[1].id)
    <2>1. ASSUME x \in Left(j) PROVE x \in Left(k) \/ (j[1].do = "delete" /\ x = j[1].id)
      <3>1. PICK i \in 1..n : j[i].do = "delete" /\ x = j[i].id
        BY <1>1, <2>1, LeftIs
      <3>2. CASE i # 1
        <4>1. i - 1 \in 1..(n - 1) /\ k[i - 1] = j[(i - 1) + 1] /\ (i - 1) + 1 = i
          BY <1>1, <3>2
        <4> QED BY <1>1, <3>1, <4>1, LeftIs
      <3> QED BY <3>1, <3>2
    <2>2. ASSUME x \in Left(k) PROVE x \in Left(j)
      <3>1. PICK i \in 1..(n - 1) : k[i].do = "delete" /\ x = k[i].id
        BY <1>1, <2>2, LeftIs
      <3>2. i + 1 \in 1..n /\ k[i] = j[i + 1]
        BY <1>1
      <3> QED BY <1>1, <3>1, <3>2, LeftIs
    <2>3. ASSUME j[1].do = "delete", x = j[1].id PROVE x \in Left(j)
      BY <1>1, <2>3, LeftIs
    <2> QED BY <2>1, <2>2, <2>3
  <1>3. ASSUME NEW i \in 1..(n - 1), NEW x
        PROVE  x \in Planned(j, i + 1) <=> x \in Planned(k, i) \/ (j[1].do = "insert" /\ x = Spot(j[1].row))
    <2>1. ASSUME x \in Planned(j, i + 1)
          PROVE  x \in Planned(k, i) \/ (j[1].do = "insert" /\ x = Spot(j[1].row))
      <3>1. PICK m \in 1..i : j[m].do = "insert" /\ x = Spot(j[m].row)
        <4>1. (i + 1) - 1 = i
          BY <1>1
        <4> QED BY <2>1, <4>1, PlannedIs
      <3>2. CASE m # 1
        <4>1. m - 1 \in 1..(i - 1) /\ k[m - 1] = j[(m - 1) + 1] /\ (m - 1) + 1 = m
          BY <1>1, <3>2
        <4> QED BY <3>1, <4>1, PlannedIs
      <3> QED BY <3>1, <3>2
    <2>2. ASSUME x \in Planned(k, i) PROVE x \in Planned(j, i + 1)
      <3>1. PICK m \in 1..(i - 1) : k[m].do = "insert" /\ x = Spot(k[m].row)
        BY <2>2, PlannedIs
      <3>2. m + 1 \in 1..((i + 1) - 1) /\ k[m] = j[m + 1]
        BY <1>1
      <3> QED BY <3>1, <3>2, PlannedIs
    <2>3. ASSUME j[1].do = "insert", x = Spot(j[1].row) PROVE x \in Planned(j, i + 1)
      <3>1. 1 \in 1..((i + 1) - 1)
        BY <1>1
      <3> QED BY <2>3, <3>1, PlannedIs
    <2> QED BY <2>1, <2>2, <2>3
  <1> QED BY <1>1, <1>2, <1>3 DEF k, n

\* A step that is not the last leaves a command that fits.
LEMMA FitsTail ==
    ASSUME NEW D, NEW j \in Seq(D), j # <<>>, NEW R, NEW ids, NEW eids,
           Fits(R, ids, eids, j), ~Starting(j), j[1].do \notin Reloading,
           NEW R2, NEW ids2, NEW eids2,
           j[1].do = "insert" => R2 = R \union {Spot(j[1].row)},
           j[1].do = "delete" => R2 = {q \in R : q.id # j[1].id},
           j[1].do \notin {"insert", "delete"} => R2 = R,
           j[1].do = "insertenv" => j[1].env.id \in ToSet(eids2)
    PROVE  Fits(R2, ids2, eids2, Tail(j)) /\ ~Starting(Tail(j))
  <1> DEFINE k == Tail(j)
             n == Len(j)
  <1>1. /\ k \in Seq(D) /\ n \in Nat /\ n >= 1 /\ Len(k) = n - 1 /\ DOMAIN j = 1..n /\ DOMAIN k = 1..(n - 1)
        /\ \A i \in 1..(n - 1) : k[i] = j[i + 1]
    BY TailIs
  <1>2. /\ \A x : x \in Left(j) <=> x \in Left(k) \/ (j[1].do = "delete" /\ x = j[1].id)
        /\ \A i \in 1..(n - 1) : \A x : x \in Planned(j, i + 1)
               <=> x \in Planned(k, i) \/ (j[1].do = "insert" /\ x = Spot(j[1].row))
    BY TailIs
  <1>3. \A i \in 1..n : /\ j[i].do \notin Starters
                        /\ j[i].do \in Reloading <=> i = n
                        /\ StepFits(R, ids, eids, j, i)
    BY <1>1 DEF Fits, n
  <1> HIDE DEF k, n
  <1>4. n >= 2
    BY <1>1, <1>3
  <1>5. ASSUME NEW i \in 1..(n - 1)
        PROVE  /\ i + 1 \in 1..n /\ i + 1 # 1 /\ k[i] = j[i + 1]
               /\ k[i].do \notin Starters
               /\ k[i].do \in Reloading <=> i = n - 1
    BY <1>1, <1>3
  <1>6. ~Starting(k)
    <2>1. n - 1 \in DOMAIN k /\ k[n - 1].do \notin Starters
      BY <1>1, <1>4, <1>5
    <2> QED BY <2>1 DEF Starting
  <1>7. ASSUME NEW i \in 1..(n - 1), Left(j) = {}
        PROVE  R2 \union Planned(k, i) = R \union Planned(j, i + 1) /\ Left(k) = {}
    <2>1. j[1].do # "delete"
      BY <1>2, <1>7
    <2>2. Left(k) = {}
      BY <1>2, <1>7
    <2>3. CASE j[1].do = "insert"
      <3>1. Planned(j, i + 1) = Planned(k, i) \union {Spot(j[1].row)}
        BY <1>2, <2>3
      <3> QED BY <2>2, <2>3, <3>1
    <2>4. CASE j[1].do # "insert"
      <3>1. Planned(j, i + 1) = Planned(k, i)
        BY <1>2, <2>4
      <3> QED BY <2>1, <2>2, <2>4, <3>1
    <2> QED BY <2>3, <2>4
  <1>8. ASSUME NEW i \in 1..(n - 1)
        PROVE  StepFits(R2, ids2, eids2, k, i)
    <2>1. StepFits(R, ids, eids, j, i + 1) /\ i + 1 # 1 /\ k[i] = j[i + 1] /\ k[i].do \notin Starters
      BY <1>3, <1>5
    <2>2. k[i].do \notin {"parent", "duplicate", "insertenv", "dropenv", "envs", "publish"}
      BY <2>1 DEF StepFits, Starters
    <2>3. k[i].do = "insert" => InsertFits(R2, k, i)
      <3> SUFFICES ASSUME k[i].do = "insert" PROVE InsertFits(R2, k, i)
        OBVIOUS
      <3>1. InsertFits(R, j, i + 1)
        BY <2>1 DEF StepFits
      <3>2. Left(j) = {}
        BY <3>1 DEF InsertFits
      <3>3. R2 \union Planned(k, i) = R \union Planned(j, i + 1) /\ Left(k) = {}
        BY <3>2, <1>7
      <3> QED BY <2>1, <3>1, <3>3 DEF InsertFits
    <2>4. k[i].do = "check" => CheckFits(R2, k, i)
      <3> SUFFICES ASSUME k[i].do = "check" PROVE CheckFits(R2, k, i)
        OBVIOUS
      <3>1. CheckFits(R, j, i + 1)
        BY <2>1 DEF StepFits
      <3>2. Left(j) = {}
        BY <3>1 DEF CheckFits
      <3>3. R2 \union Planned(k, i) = R \union Planned(j, i + 1) /\ Left(k) = {}
        BY <3>2, <1>7
      <3> QED BY <2>1, <3>1, <3>3 DEF CheckFits
    <2>5. k[i].do = "checkenv" => i = 1 /\ k[i].id \in ToSet(eids2)
      <3> SUFFICES ASSUME k[i].do = "checkenv" PROVE i = 1 /\ k[i].id \in ToSet(eids2)
        OBVIOUS
      <3>1. i + 1 = 2 /\ j[1].do = "insertenv" /\ j[1].env.id = j[i + 1].id
        BY <2>1 DEF StepFits
      <3> QED BY <2>1, <3>1
    <2> QED BY <2>2, <2>3, <2>4, <2>5 DEF StepFits
  <1>9. ASSUME NEW r \in R2
        PROVE  r.id \in Left(k) \/ Above({q \in R2 : q.id \notin Left(k)}, r)
    <2>1. CASE j[1].do = "insert"
      <3>1. InsertFits(R, j, 1)
        BY <1>1, <1>3, <2>1 DEF StepFits
      <3>2. Left(j) = {} /\ Above(R \union Planned(j, 1), Spot(j[1].row)) /\ Planned(j, 1) = {}
        BY <3>1 DEF InsertFits, Planned
      <3>3. Left(k) = {} /\ R2 = R \union {Spot(j[1].row)}
        BY <3>2, <1>2, <2>1
      <3>4. CASE r \in R
        <4>1. Above({q \in R : q.id \notin Left(j)}, r)
          BY <3>2, <3>4 DEF Fits
        <4> QED BY <3>2, <3>3, <4>1 DEF Above
      <3>5. CASE r = Spot(j[1].row)
        <4>1. Above(R, r)
          BY <3>2, <3>5
        <4> QED BY <3>3, <4>1 DEF Above
      <3> QED BY <3>3, <3>4, <3>5
    <2>2. CASE j[1].do = "delete"
      <3>1. r \in R /\ r.id # j[1].id
        BY <2>2
      <3>2. {q \in R2 : q.id \notin Left(k)} = {q \in R : q.id \notin Left(j)}
        BY <1>2, <2>2
      <3>3. r.id \in Left(j) => r.id \in Left(k)
        BY <1>2, <3>1
      <3> QED BY <3>1, <3>2, <3>3 DEF Fits
    <2>3. CASE j[1].do \notin {"insert", "delete"}
      <3>1. R2 = R /\ \A x : x \in Left(j) <=> x \in Left(k)
        BY <1>2, <2>3
      <3>2. {q \in R2 : q.id \notin Left(k)} = {q \in R : q.id \notin Left(j)}
        BY <3>1
      <3> QED BY <3>1, <3>2 DEF Fits
    <2> QED BY <2>1, <2>2, <2>3
  <1> QED BY <1>1, <1>5, <1>6, <1>8, <1>9 DEF Fits, k

-----------------------------------------------------------------------------
(* The commands there are.                                                 *)

Joins(s, u, w) == /\ Len(w) = Len(s) + Len(u)
                  /\ \A i \in 1..Len(s) : w[i] = s[i]
                  /\ \A i \in 1..Len(u) : w[Len(s) + i] = u[i]

LEMMA Joined ==
    ASSUME NEW S, NEW s \in Seq(S), NEW u \in Seq(S), NEW w \in Seq(S), Joins(s, u, w)
    PROVE  s \o u = w
  <1>1. /\ s \o u \in Seq(S) /\ Len(s \o u) = Len(s) + Len(u)
        /\ \A i \in 1..(Len(s) + Len(u)) : (s \o u)[i] = IF i <= Len(s) THEN s[i] ELSE u[i - Len(s)]
    BY ConcatProperties
  <1> Len(s) \in Nat /\ Len(u) \in Nat
    OBVIOUS
  <1>2. ASSUME NEW i \in 1..Len(w) PROVE (s \o u)[i] = w[i]
    <2>1. CASE i <= Len(s)
      BY <1>1, <2>1 DEF Joins
    <2>2. CASE ~(i <= Len(s))
      <3>1. i - Len(s) \in 1..Len(u) /\ Len(s) + (i - Len(s)) = i
        BY <2>2 DEF Joins
      <3>2. w[Len(s) + (i - Len(s))] = u[i - Len(s)]
        BY <3>1 DEF Joins
      <3> QED BY <1>1, <2>2, <3>1, <3>2
    <2> QED BY <2>1, <2>2
  <1> QED BY <1>1, <1>2, SeqEqual DEF Joins

LEMMA JoinTwo ==
    ASSUME NEW a, NEW b
    PROVE  <<a>> \o <<b>> = <<a, b>> /\ <<a, b>> \o <<>> = <<a, b>>
  <1> DEFINE S == {a, b}
  <1>1. <<a>> \in Seq(S) /\ <<b>> \in Seq(S) /\ <<a, b>> \in Seq(S)
    OBVIOUS
  <1> HIDE DEF S
  <1> DEFINE s == <<a>>
             u == <<b>>
             w == <<a, b>>
  <1>2. /\ s \in Seq(S) /\ u \in Seq(S) /\ w \in Seq(S) /\ Len(s) = 1 /\ Len(u) = 1 /\ Len(w) = 2
        /\ s[1] = a /\ u[1] = b /\ w[1] = a /\ w[2] = b
    BY <1>1
  <1> HIDE DEF s, u, w
  <1>3. Joins(s, u, w)
    <2>1. \A i \in 1..1 : i = 1
      OBVIOUS
    <2> QED BY <1>2, <2>1 DEF Joins
  <1>4. s \o u = w
    BY <1>2, <1>3, Joined
  <1>5. w \o <<>> = w
    BY <1>2, ConcatEmptySeq
  <1> QED BY <1>4, <1>5 DEF s, u, w

LEMMA JoinThree ==
    ASSUME NEW a, NEW b, NEW c
    PROVE  <<a, b>> \o <<c>> = <<a, b, c>> /\ <<a, b, c>> \o <<>> = <<a, b, c>>
  <1> DEFINE S == {a, b, c}
  <1>1. <<a, b>> \in Seq(S) /\ <<c>> \in Seq(S) /\ <<a, b, c>> \in Seq(S)
    OBVIOUS
  <1> HIDE DEF S
  <1>3. Joins(<<a, b>>, <<c>>, <<a, b, c>>)
    BY DEF Joins
  <1>4. <<a, b, c>> \o <<>> = <<a, b, c>>
    BY <1>1, ConcatEmptySeq
  <1> QED BY <1>1, <1>3, <1>4, Joined

LEMMA JoinFour ==
    ASSUME NEW a, NEW b, NEW c, NEW d
    PROVE  <<a, b, c>> \o <<d>> = <<a, b, c, d>> /\ <<a, b, c, d>> \o <<>> = <<a, b, c, d>>
  <1> DEFINE S == {a, b, c, d}
  <1>1. <<a, b, c>> \in Seq(S) /\ <<d>> \in Seq(S) /\ <<a, b, c, d>> \in Seq(S)
    OBVIOUS
  <1> HIDE DEF S
  <1>3. Joins(<<a, b, c>>, <<d>>, <<a, b, c, d>>)
    BY DEF Joins
  <1>4. <<a, b, c, d>> \o <<>> = <<a, b, c, d>>
    BY <1>1, ConcatEmptySeq
  <1> QED BY <1>1, <1>3, <1>4, Joined

LEMMA JoinPairs ==
    ASSUME NEW a, NEW b, NEW c, NEW d
    PROVE  <<a, b>> \o <<c, d>> = <<a, b, c, d>> /\ <<a, b, c, d>> \o <<>> = <<a, b, c, d>>
  <1> DEFINE S == {a, b, c, d}
  <1>1. <<a, b>> \in Seq(S) /\ <<c, d>> \in Seq(S) /\ <<a, b, c, d>> \in Seq(S)
    OBVIOUS
  <1> HIDE DEF S
  <1>3. Joins(<<a, b>>, <<c, d>>, <<a, b, c, d>>)
    BY DEF Joins
  <1>4. <<a, b, c, d>> \o <<>> = <<a, b, c, d>>
    BY <1>1, ConcatEmptySeq
  <1> QED BY <1>1, <1>3, <1>4, Joined

LEMMA JoinFive ==
    ASSUME NEW a, NEW b, NEW c, NEW d, NEW e
    PROVE  <<a, b, c, d>> \o <<e>> = <<a, b, c, d, e>> /\ <<a, b, c, d, e>> \o <<>> = <<a, b, c, d, e>>
  <1> DEFINE S == {a, b, c, d, e}
  <1>1. <<a, b, c, d>> \in Seq(S) /\ <<e>> \in Seq(S) /\ <<a, b, c, d, e>> \in Seq(S)
    OBVIOUS
  <1> HIDE DEF S
  <1>3. Joins(<<a, b, c, d>>, <<e>>, <<a, b, c, d, e>>)
    BY DEF Joins
  <1>4. <<a, b, c, d, e>> \o <<>> = <<a, b, c, d, e>>
    BY <1>1, ConcatEmptySeq
  <1> QED BY <1>1, <1>3, <1>4, Joined

\* Nothing to do, or one step that reads or has changed nothing.
LEMMA FitsNone ==
    ASSUME NEW R, NEW ids, NEW eids
    PROVE  /\ Fits(R, ids, eids, <<>>) <=> \A r \in R : Above(R, r)
           /\ Starting(<<>>)
  <1>1. Left(<<>>) = {}
    BY DEF Left
  <1>2. Starting(<<>>)
    BY DEF Starting
  <1>3. \A r : Above({q \in R : q.id \notin {}}, r) <=> Above(R, r)
    <2>1. {q \in R : q.id \notin {}} = R
      OBVIOUS
    <2> QED BY <2>1
  <1> QED BY <1>1, <1>2, <1>3 DEF Fits

LEMMA FitsOne ==
    ASSUME NEW R, NEW ids, NEW eids, NEW s, \A r \in R : Above(R, r),
           s.do \in Reloading \union Starters,
           s.do \in {"envs", "publish"} => IdsOf(s.tree) = ids,
           s.do = "publish" => RowIds(s.envs) = eids,
           s.do = "parent" => \A q \in R : q.id < s.id,
           s.do = "duplicate" => \A e \in ToSet(eids) : e < s.x
    PROVE  Fits(R, ids, eids, <<s>>) /\ (Starting(<<s>>) <=> s.do \in Starters)
  <1> DEFINE j == <<s>>
  <1>1. DOMAIN j = {1} /\ Len(j) = 1 /\ j[1] = s
    OBVIOUS
  <1> HIDE DEF j
  <1>2. Left(j) = {}
    BY <1>1 DEF Left, Reloading, Starters
  <1>3. {q \in R : q.id \notin Left(j)} = R
    BY <1>2
  <1>4. StepFits(R, ids, eids, j, 1)
    BY <1>1 DEF StepFits, Reloading, Starters
  <1>5. Starting(j) <=> s.do \in Starters
    BY <1>1 DEF Starting
  <1>6. s.do \in Starters <=> s.do \notin Reloading
    BY DEF Starters, Reloading
  <1> QED BY <1>1, <1>3, <1>4, <1>5, <1>6 DEF Fits, j

\* A command of a few steps that ends by reading all of it again.
Changing == {"insert", "check", "write", "insertenv", "checkenv", "dropenv", "head", "wipe", "fill"}

Ends(R, ids, eids, j) ==
    /\ Len(j) \in DOMAIN j /\ j[Len(j)].do = "tree"
    /\ \A i \in DOMAIN j : i # Len(j) => /\ j[i].do \in Changing
                                         /\ Left(j) = {} => StepFits(R, ids, eids, j, i)

LEMMA FitsSome ==
    ASSUME NEW R, NEW ids, NEW eids, \A r \in R : Above(R, r), NEW j, Ends(R, ids, eids, j)
    PROVE  Fits(R, ids, eids, j) /\ ~Starting(j)
  <1>1. \A i \in DOMAIN j : j[i].do \in Changing \union {"tree"}
    BY DEF Ends
  <1>2. Left(j) = {}
    BY <1>1 DEF Left, Changing
  <1>3. {q \in R : q.id \notin Left(j)} = R
    BY <1>2
  <1>4. \A i \in DOMAIN j : StepFits(R, ids, eids, j, i)
    <2>1. StepFits(R, ids, eids, j, Len(j))
      BY DEF StepFits, Ends
    <2> QED BY <1>2, <2>1 DEF Ends
  <1>5. \A i \in DOMAIN j : j[i].do \notin Starters /\ (j[i].do \in Reloading <=> i = Len(j))
    <2> TAKE i \in DOMAIN j
    <2>1. CASE i = Len(j)
      BY <2>1 DEF Ends, Starters, Reloading
    <2>2. CASE i # Len(j)
      BY <2>2 DEF Ends, Starters, Reloading, Changing
    <2> QED BY <2>1, <2>2
  <1>6. ~Starting(j)
    BY <1>5 DEF Starting, Ends
  <1> QED BY <1>3, <1>4, <1>5, <1>6 DEF Fits

\* The rest of a command, once its first step has looked up what it is about.
Begins(R, ids, eids, j) == Fits(R, ids, eids, j) /\ ~Starting(j) /\ j \o <<>> = j

LEMMA FitsCreate ==
    ASSUME NEW R, NEW ids, NEW eids, \A r \in R : Above(R, r),
           NEW row, \A q \in R : q.id < row.id, Above(R, Spot(row))
    PROVE  Begins(R, ids, eids, CreateCommand(row))
  <1> DEFINE a == [do |-> "insert", row |-> row]
             b == [do |-> "check", id |-> row.id]
             j == <<a, b, [do |-> "tree"]>>
  <1>1. CreateCommand(row) = j /\ j \o <<>> = j
    BY JoinThree DEF CreateCommand, Insertion, Reload
  <1>2. DOMAIN j = 1..3 /\ Len(j) = 3 /\ j[1] = a /\ j[2] = b /\ j[3].do = "tree"
    OBVIOUS
  <1> HIDE DEF j
  <1>3. Planned(j, 1) = {} /\ Planned(j, 2) = {Spot(row)}
    BY <1>2 DEF Planned
  <1>4. ASSUME Left(j) = {} PROVE StepFits(R, ids, eids, j, 1) /\ StepFits(R, ids, eids, j, 2)
    <2>1. InsertFits(R, j, 1)
      BY <1>2, <1>3, <1>4 DEF InsertFits
    <2>2. CheckFits(R, j, 2)
      BY <1>2, <1>3, <1>4 DEF CheckFits, Spot
    <2> QED BY <1>2, <2>1, <2>2 DEF StepFits
  <1>5. Ends(R, ids, eids, j)
    BY <1>2, <1>4 DEF Changing, Ends
  <1> QED BY <1>1, <1>5, FitsSome DEF Begins

LEMMA FitsImport ==
    ASSUME NEW R, NEW ids, NEW eids, \A r \in R : Above(R, r),
           NEW row, \A q \in R : q.id < row.id, row.parent = None, row.kind = "folder", row.id \in Nat,
           NEW row2, row2.id = row.id + 1, row2.parent = row.id, row2.kind = "endpoint",
           \A q \in R : q.id \in Nat
    PROVE  Fits(R, ids, eids, ImportCommand(row, row2)) /\ ~Starting(ImportCommand(row, row2))
  <1> DEFINE a == [do |-> "insert", row |-> row]
             b == [do |-> "check", id |-> row.id]
             c == [do |-> "insert", row |-> row2]
             d == [do |-> "check", id |-> row2.id]
             j == <<a, b, c, d, [do |-> "tree"]>>
  <1>1. ImportCommand(row, row2) = j
    <2>1. Insertion(row) = <<a, b>> /\ Insertion(row2) = <<c, d>> /\ Reload = <<[do |-> "tree"]>>
      BY DEF Insertion, Reload
    <2> HIDE DEF a, b, c, d
    <2>2. (<<a, b>> \o <<c, d>>) \o <<[do |-> "tree"]>> = j
      <3>1. <<a, b>> \o <<c, d>> = <<a, b, c, d>>
        BY JoinPairs
      <3>2. <<a, b, c, d>> \o <<[do |-> "tree"]>> = j
        BY JoinFive
      <3> QED BY <3>1, <3>2
    <2> QED BY <2>1, <2>2 DEF ImportCommand
  <1>2. DOMAIN j = 1..5 /\ Len(j) = 5 /\ j[1] = a /\ j[2] = b /\ j[3] = c /\ j[4] = d /\ j[5].do = "tree"
    OBVIOUS
  <1> HIDE DEF j
  <1>3. Planned(j, 1) = {} /\ Spot(row) \in Planned(j, 2) /\ Planned(j, 3) = {Spot(row)} /\ Spot(row2) \in Planned(j, 4)
    <2>1. \A x, i : x \in Planned(j, i) <=> \E k \in 1..(i - 1) : j[k].do = "insert" /\ x = Spot(j[k].row)
      BY PlannedIs
    <2>2. Planned(j, 1) = {}
      BY <2>1
    <2>3. Spot(row) \in Planned(j, 2)
      <3>1. 1 \in 1..(2 - 1)
        OBVIOUS
      <3> QED BY <2>1, <3>1, <1>2
    <2>4. \A x : x \in Planned(j, 3) <=> x = Spot(row)
      <3>1. 1..(3 - 1) = {1, 2}
        OBVIOUS
      <3> QED BY <2>1, <3>1, <1>2
    <2>5. Spot(row2) \in Planned(j, 4)
      <3>1. 3 \in 1..(4 - 1)
        OBVIOUS
      <3> QED BY <2>1, <3>1, <1>2
    <2> QED BY <2>2, <2>3, <2>4, <2>5
  <1>4. /\ Spot(row).id = row.id /\ Spot(row).kind = "folder" /\ Spot(row).parent = None
        /\ Spot(row2).id = row2.id /\ Spot(row2).kind = "endpoint" /\ Spot(row2).parent = row.id
    BY DEF Spot
  <1>5. ASSUME Left(j) = {}
        PROVE  /\ StepFits(R, ids, eids, j, 1) /\ StepFits(R, ids, eids, j, 2)
               /\ StepFits(R, ids, eids, j, 3) /\ StepFits(R, ids, eids, j, 4)
    <2>1. InsertFits(R, j, 1)
      BY <1>2, <1>3, <1>4, <1>5 DEF InsertFits, Above
    <2>2. CheckFits(R, j, 2)
      BY <1>2, <1>3, <1>4, <1>5 DEF CheckFits
    <2>3. InsertFits(R, j, 3)
      <3>1. \A q \in R \union Planned(j, 3) : q.id < row2.id
        BY <1>3, <1>4
      <3>2. Above(R \union Planned(j, 3), Spot(row2))
        BY <1>3, <1>4 DEF Above
      <3> QED BY <1>2, <1>5, <3>1, <3>2 DEF InsertFits
    <2>4. CheckFits(R, j, 4)
      BY <1>2, <1>3, <1>4, <1>5 DEF CheckFits
    <2>5. StepFits(R, ids, eids, j, 1)
      BY <1>2, <2>1 DEF StepFits
    <2>6. StepFits(R, ids, eids, j, 2)
      BY <1>2, <2>2 DEF StepFits
    <2>7. StepFits(R, ids, eids, j, 3)
      BY <1>2, <2>3 DEF StepFits
    <2>8. StepFits(R, ids, eids, j, 4)
      BY <1>2, <2>4 DEF StepFits
    <2> QED BY <2>5, <2>6, <2>7, <2>8
  <1>6. Ends(R, ids, eids, j)
    BY <1>2, <1>5 DEF Changing, Ends
  <1> QED BY <1>1, <1>6, FitsSome

\* The commands on the environments, and a rename.
LEMMA FitsTwo ==
    ASSUME NEW R, NEW ids, NEW eids, \A r \in R : Above(R, r), NEW a,
           a.do = "write" \/ (/\ a.do = "dropenv" /\ a.id \in ToSet(eids)
                              /\ \E e \in ToSet(eids) : e # a.id)
    PROVE  Begins(R, ids, eids, <<a>> \o Reload)
  <1> DEFINE j == <<a, [do |-> "tree"]>>
  <1>1. <<a>> \o Reload = j /\ j \o <<>> = j
    BY JoinTwo DEF Reload
  <1>2. DOMAIN j = 1..2 /\ Len(j) = 2 /\ j[1] = a /\ j[2].do = "tree"
    OBVIOUS
  <1> HIDE DEF j
  <1>3. StepFits(R, ids, eids, j, 1)
    BY <1>2 DEF StepFits
  <1>4. Ends(R, ids, eids, j)
    BY <1>2, <1>3 DEF Changing, Ends
  <1> QED BY <1>1, <1>4, FitsSome DEF Begins

LEMMA FitsSave ==
    ASSUME NEW R, NEW ids, NEW eids, \A r \in R : Above(R, r), NEW a, NEW b, NEW c,
           a.do = "head", b.do = "wipe", c.do = "fill"
    PROVE  Begins(R, ids, eids, <<a, b, c>> \o Reload)
  <1> DEFINE j == <<a, b, c, [do |-> "tree"]>>
  <1>1. <<a, b, c>> \o Reload = j /\ j \o <<>> = j
    <2>1. <<a, b, c>> \o <<[do |-> "tree"]>> = j /\ j \o <<>> = j
      BY JoinFour
    <2> QED BY <2>1 DEF Reload
  <1>2. DOMAIN j = 1..4 /\ Len(j) = 4 /\ j[1] = a /\ j[2] = b /\ j[3] = c /\ j[4].do = "tree"
    OBVIOUS
  <1> HIDE DEF j
  <1>3. \A i \in DOMAIN j : i # Len(j) => j[i].do \in {"head", "wipe", "fill"}
    BY <1>2
  <1>4. \A i \in DOMAIN j : i # Len(j) => j[i].do \in Changing /\ StepFits(R, ids, eids, j, i)
    BY <1>3 DEF Changing, StepFits
  <1>5. Ends(R, ids, eids, j)
    BY <1>2, <1>4 DEF Ends
  <1> QED BY <1>1, <1>5, FitsSome DEF Begins

LEMMA FitsNewEnv ==
    ASSUME NEW R, NEW ids, NEW eids, \A r \in R : Above(R, r),
           NEW env, \A e \in ToSet(eids) : e < env.id
    PROVE  /\ Begins(R, ids, eids, NewEnv(env) \o Reload)
           /\ \A c : c.do = "fill" => Begins(R, ids, eids, (NewEnv(env) \o <<c>>) \o Reload)
  <1> DEFINE a == [do |-> "insertenv", env |-> env]
             b == [do |-> "checkenv", id |-> env.id]
             d == [do |-> "tree"]
  <1>1. /\ NewEnv(env) \o Reload = <<a, b, d>>
        /\ \A c : (NewEnv(env) \o <<c>>) \o Reload = <<a, b, c, d>>
    <2>1. NewEnv(env) = <<a, b>> /\ Reload = <<d>>
      BY DEF NewEnv, Reload
    <2> HIDE DEF a, b, d
    <2>2. <<a, b>> \o <<d>> = <<a, b, d>> /\ \A c : (<<a, b>> \o <<c>>) \o <<d>> = <<a, b, c, d>>
      <3>1. <<a, b>> \o <<d>> = <<a, b, d>>
        BY JoinThree
      <3>2. ASSUME NEW c PROVE (<<a, b>> \o <<c>>) \o <<d>> = <<a, b, c, d>>
        <4>1. <<a, b>> \o <<c>> = <<a, b, c>>
          BY JoinThree
        <4>2. <<a, b, c>> \o <<d>> = <<a, b, c, d>>
          BY JoinFour
        <4> QED BY <4>1, <4>2
      <3> QED BY <3>1, <3>2
    <2> QED BY <2>1, <2>2
  <1>2. ASSUME NEW j, j[1] = a, j[2] = b
        PROVE  StepFits(R, ids, eids, j, 1) /\ StepFits(R, ids, eids, j, 2)
    BY <1>2 DEF StepFits
  <1>3. Begins(R, ids, eids, <<a, b, d>>)
    <2> DEFINE j == <<a, b, d>>
    <2>1. DOMAIN j = 1..3 /\ Len(j) = 3 /\ j[1] = a /\ j[2] = b /\ j[3].do = "tree"
      OBVIOUS
    <2> HIDE DEF j
    <2>2. Ends(R, ids, eids, j)
      BY <1>2, <2>1 DEF Changing, Ends
    <2>3. Fits(R, ids, eids, j) /\ ~Starting(j)
      BY <2>2, FitsSome
    <2> QED BY <2>3, JoinThree DEF j, Begins
  <1>4. ASSUME NEW c, c.do = "fill"
        PROVE  Begins(R, ids, eids, <<a, b, c, d>>)
    <2> DEFINE j == <<a, b, c, d>>
    <2>1. DOMAIN j = 1..4 /\ Len(j) = 4 /\ j[1] = a /\ j[2] = b /\ j[3] = c /\ j[4].do = "tree"
      OBVIOUS
    <2> HIDE DEF j
    <2>2. StepFits(R, ids, eids, j, 3)
      BY <1>4, <2>1 DEF StepFits
    <2>3. Ends(R, ids, eids, j)
      BY <1>2, <1>4, <2>1, <2>2 DEF Changing, Ends
    <2>4. Fits(R, ids, eids, j) /\ ~Starting(j)
      BY <2>3, FitsSome
    <2> QED BY <2>4, JoinFour DEF j, Begins
  <1> QED BY <1>1, <1>3, <1>4

LEMMA FitsDelete ==
    ASSUME NEW R, NEW ids, NEW eids, \A r \in R : Above(R, r), NEW d \in Seq(Nat),
           \A r \in R : r.parent \in ToSet(d) => r.id \in ToSet(d)
    PROVE  LET j == [i \in DOMAIN d |-> [do |-> "delete", id |-> d[i]]] \o Reload
           IN  Begins(R, ids, eids, j)
  <1> DEFINE D == [do : {"delete"}, id : Nat] \cup [do : {"tree"}]
             s == [i \in DOMAIN d |-> [do |-> "delete", id |-> d[i]]]
             n == Len(d)
             j == s \o Reload
  <1>1. n \in Nat /\ DOMAIN d = 1..n /\ \A i \in 1..n : d[i] \in Nat
    OBVIOUS
  <1>2. s \in Seq(D) /\ Len(s) = n /\ \A i \in 1..n : s[i].do = "delete" /\ s[i].id = d[i]
    <2>1. s \in [1..n -> D]
      BY <1>1
    <2>2. \A i \in 1..n : s[i].do = "delete" /\ s[i].id = d[i]
      BY <1>1
    <2> HIDE DEF s, D
    <2> QED BY <1>1, <2>1, <2>2, InSeq
  <1>3. Reload \in Seq(D) /\ Len(Reload) = 1 /\ Reload[1].do = "tree"
    <2>1. [do |-> "tree"] \in D
      OBVIOUS
    <2> HIDE DEF D
    <2> QED BY <2>1 DEF Reload
  <1> HIDE DEF s, D, n
  <1>4. /\ DOMAIN j = 1..(n + 1) /\ Len(j) = n + 1
        /\ \A i \in 1..(n + 1) : j[i] = IF i <= n THEN s[i] ELSE Reload[i - n]
    <2>1. /\ s \o Reload \in Seq(D) /\ Len(s \o Reload) = n + 1
          /\ \A i \in 1..(n + 1) : (s \o Reload)[i] = IF i <= n THEN s[i] ELSE Reload[i - n]
      <3>1. /\ s \o Reload \in Seq(D) /\ Len(s \o Reload) = Len(s) + Len(Reload)
            /\ \A i \in 1..(Len(s) + Len(Reload)) :
                   (s \o Reload)[i] = IF i <= Len(s) THEN s[i] ELSE Reload[i - Len(s)]
        <4>1. s \in Seq(D) /\ Reload \in Seq(D)
          BY <1>2, <1>3
        <4> QED BY <4>1, ConcatProperties
      <3> QED BY <1>2, <1>3, <3>1
    <2>2. j = s \o Reload
      OBVIOUS
    <2> HIDE DEF j
    <2> QED BY <2>1, <2>2
  <1>0. j \o <<>> = j
    <2>1. s \o Reload \in Seq(D)
      <3>1. s \in Seq(D) /\ Reload \in Seq(D)
        BY <1>2, <1>3
      <3> QED BY <3>1, ConcatProperties
    <2> QED BY <2>1, ConcatEmptySeq
  <1> HIDE DEF j
  <1>5. \A i \in 1..n : j[i].do = "delete" /\ j[i].id = d[i]
    BY <1>1, <1>2, <1>4
  <1>6. j[n + 1].do = "tree"
    <2>1. n + 1 \in 1..(n + 1) /\ ~(n + 1 <= n) /\ (n + 1) - n = 1
      BY <1>1
    <2> QED BY <1>3, <1>4, <2>1
  <1>7. \A i \in 1..(n + 1) : i = n + 1 \/ i \in 1..n
    BY <1>1
  <1>8. \A x : x \in Left(j) <=> x \in ToSet(d)
    <2>1. \A x : x \in ToSet(d) <=> \E i \in 1..n : x = d[i]
      BY <1>1 DEF ToSet
    <2>2. \A x : x \in Left(j) <=> \E i \in 1..(n + 1) : j[i].do = "delete" /\ x = j[i].id
      BY <1>4, LeftIs
    <2>3. \A i \in 1..n : i \in 1..(n + 1)
      BY <1>1
    <2> QED BY <1>5, <1>6, <1>7, <2>1, <2>2, <2>3
  <1>9. ASSUME NEW i \in 1..(n + 1)
        PROVE  /\ j[i].do \notin Starters
               /\ j[i].do \in Reloading <=> i = n + 1
               /\ StepFits(R, ids, eids, j, i)
    <2>1. CASE i = n + 1
      BY <1>6, <2>1 DEF Starters, Reloading, StepFits
    <2>2. CASE i \in 1..n
      <3>1. i # n + 1
        BY <1>1, <2>2
      <3> QED BY <1>5, <2>2, <3>1 DEF Starters, Reloading, StepFits
    <2> QED BY <1>7, <2>1, <2>2
  <1>10. ~Starting(j)
    <2>1. n + 1 \in DOMAIN j
      BY <1>1, <1>4
    <2> QED BY <1>4, <1>9, <2>1 DEF Starting
  <1>11. ASSUME NEW r \in R, r.id \notin Left(j)
         PROVE  Above({q \in R : q.id \notin Left(j)}, r)
    <2>1. r.parent \notin Left(j)
      BY <1>8, <1>11
    <2>2. Above(R, r)
      OBVIOUS
    <2> QED BY <2>1, <2>2 DEF Above
  <1>12. Fits(R, ids, eids, j)
    BY <1>4, <1>9, <1>10, <1>11 DEF Fits
  <1> QED BY <1>0, <1>10, <1>12 DEF Begins, j, s

\* A command that has changed nothing, and one that is at its last steps.
LEMMA StarterIs ==
    ASSUME NEW D, NEW j \in Seq(D), j # <<>>, NEW R, NEW ids, NEW eids, NEW p, NEW v,
           Well(R, ids, eids, p, v, j), j[1].do \in Starters
    PROVE  /\ Starting(j) /\ Len(j) = 1 /\ Tail(j) = <<>> /\ Shown(ids, eids, p, v)
           /\ \A r \in R : Above(R, r)
           /\ StepFits(R, ids, eids, j, 1) /\ Well(R, ids, eids, p, v, <<>>)
  <1>1. Len(j) \in Nat /\ Len(j) >= 1 /\ DOMAIN j = 1..Len(j) /\ Tail(j) \in Seq(D) /\ Len(Tail(j)) = Len(j) - 1
    BY TailIs
  <1>2. Fits(R, ids, eids, j) /\ 1 \in DOMAIN j
    BY <1>1 DEF Well
  <1>3. Starting(j)
    BY <1>2 DEF Fits
  <1>4. Len(j) = 1
    BY <1>1, <1>2, <1>3 DEF Fits
  <1>5. Tail(j) = <<>>
    <2>1. Len(Tail(j)) = 0
      BY <1>1, <1>4
    <2> QED BY <1>1, <2>1, EmptySeq
  <1>6. Left(j) = {}
    BY <1>1, <1>4 DEF Left, Starters
  <1>7. {q \in R : q.id \notin Left(j)} = R
    BY <1>6
  <1>8. \A r \in R : Above(R, r)
    BY <1>2, <1>6, <1>7 DEF Fits
  <1>9. Shown(ids, eids, p, v) /\ StepFits(R, ids, eids, j, 1)
    BY <1>2, <1>3 DEF Well, Fits
  <1> QED BY <1>3, <1>4, <1>5, <1>8, <1>9, FitsNone DEF Well

LEMMA ReloaderIs ==
    ASSUME NEW D, NEW j \in Seq(D), j # <<>>, NEW R, NEW ids, NEW eids,
           Fits(R, ids, eids, j), j[1].do \in Reloading
    PROVE  /\ ~Starting(j) /\ Len(j) = 1 /\ Tail(j) = <<>>
           /\ \A r \in R : Above(R, r)
           /\ StepFits(R, ids, eids, j, 1)
  <1>1. Len(j) \in Nat /\ Len(j) >= 1 /\ DOMAIN j = 1..Len(j) /\ Tail(j) \in Seq(D) /\ Len(Tail(j)) = Len(j) - 1
    BY TailIs
  <1>2. 1 \in DOMAIN j
    BY <1>1
  <1>3. ~Starting(j)
    BY <1>2 DEF Starting, Starters, Reloading
  <1>4. Len(j) = 1
    BY <1>2, <1>3 DEF Fits
  <1>5. Tail(j) = <<>>
    <2>1. Len(Tail(j)) = 0
      BY <1>1, <1>4
    <2> QED BY <1>1, <2>1, EmptySeq
  <1>6. Left(j) = {}
    BY <1>1, <1>4 DEF Left, Reloading
  <1>7. {q \in R : q.id \notin Left(j)} = R
    BY <1>6
  <1> QED BY <1>2, <1>3, <1>4, <1>5, <1>6, <1>7 DEF Fits

\* A step that is neither the first of a command nor one of its last leaves it well.
LEMMA WellTail ==
    ASSUME NEW D, NEW j \in Seq(D), j # <<>>, NEW R, NEW ids, NEW eids, NEW p, NEW v,
           Well(R, ids, eids, p, v, j), j[1].do \notin Starters, j[1].do \notin Reloading,
           NEW R2, NEW ids2, NEW eids2, NEW p2, NEW v2,
           j[1].do = "insert" => R2 = R \union {Spot(j[1].row)},
           j[1].do = "delete" => R2 = {q \in R : q.id # j[1].id},
           j[1].do \notin {"insert", "delete"} => R2 = R,
           j[1].do = "insertenv" => j[1].env.id \in ToSet(eids2)
    PROVE  Well(R2, ids2, eids2, p2, v2, Tail(j)) /\ StepFits(R, ids, eids, j, 1)
  <1>1. 1 \in DOMAIN j
    BY TailIs
  <1>2. ~Starting(j)
    BY <1>1 DEF Starting
  <1>3. Fits(R, ids, eids, j)
    BY DEF Well
  <1>4. Fits(R2, ids2, eids2, Tail(j)) /\ ~Starting(Tail(j))
    BY <1>2, <1>3, FitsTail
  <1>5. StepFits(R, ids, eids, j, 1)
    BY <1>1, <1>3 DEF Fits
  <1> QED BY <1>4, <1>5 DEF Well

-----------------------------------------------------------------------------
(* Commands that do not overlap: their steps.                              *)

\* The step of a command leaves all well when it leaves that command well.
LEMMA Rest ==
    ASSUME AllWell, NEW t \in Task, job[t] # <<>>, \A u \in Task : u # t => job'[u] = job[u],
           Well(Spots(rows'), IdsOf(Tree(rows')), RowIds(envs'), pending', panel', job'[t]),
           Distinct(Spots(rows'), RowIds(envs'))
    PROVE  AllWell'
  <1>1. \A u \in Task : u # t => job'[u] = <<>>
    BY DEF AllWell, Alone
  <1>2. Alone'
    BY <1>1 DEF Alone
  <1>3. Idle' => job'[t] = <<>>
    BY DEF Idle
  <1> QED BY <1>1, <1>2, <1>3 DEF AllWell

\* What is well with the command of a thread that has one.
LEMMA BusyWell ==
    ASSUME AllWell, NEW t \in Task, job[t] # <<>>
    PROVE  /\ Well(Spots(rows), IdsOf(Tree(rows)), RowIds(envs), pending, panel, job[t])
           /\ Distinct(Spots(rows), RowIds(envs))
  BY DEF AllWell

LEMMA SpotsAre ==
    ASSUME NEW n \in Nat, NEW rs \in Seq(RowsTo(n))
    PROVE  /\ \A r \in RowsTo(n) : Spots(Append(rs, r)) = Spots(rs) \union {Spot(r)}
           /\ \A id : Spots(Without(rs, id)) = {q \in Spots(rs) : q.id # id}
           /\ \A qs : Alike(rs, qs) => Spots(qs) = Spots(rs)
           /\ \A q \in Spots(rs) : /\ q.id \in Nat /\ q.id <= n /\ q.parent \in Text
                                   /\ q.kind \in {"folder", "endpoint", "case"}
           /\ \A q : q \in Spots(rs) <=> \E i \in DOMAIN rs : q = Spot(rs[i])
           /\ \A id : Has(rs, id) <=> \E q \in Spots(rs) : q.id = id
  <1>1. DOMAIN rs = 1..Len(rs) /\ Len(rs) \in Nat /\ \A i \in DOMAIN rs : rs[i] \in RowsTo(n)
    BY IdsAre
  <1>2. \A q : q \in Spots(rs) <=> \E i \in DOMAIN rs : q = Spot(rs[i])
    BY DEF Spots
  <1>3. \A r : Spot(r).id = r.id /\ Spot(r).kind = r.kind /\ Spot(r).parent = r.parent
    BY DEF Spot
  <1>4. ASSUME NEW r \in RowsTo(n) PROVE Spots(Append(rs, r)) = Spots(rs) \union {Spot(r)}
    <2> DEFINE l == Append(rs, r)
               m == Len(rs)
    <2>1. DOMAIN l = 1..(m + 1) /\ (\A i \in 1..m : l[i] = rs[i]) /\ l[m + 1] = r
      BY <1>1, AppendProperties
    <2> HIDE DEF l, m
    <2>2. \A i \in 1..(m + 1) : i \in 1..m \/ i = m + 1
      BY <1>1 DEF m
    <2>3. \A i \in 1..m : i \in 1..(m + 1)
      BY <1>1 DEF m
    <2>4. m + 1 \in 1..(m + 1)
      BY <1>1 DEF m
    <2>5. \A q : q \in Spots(l) <=> \E i \in 1..(m + 1) : q = Spot(l[i])
      BY <2>1 DEF Spots
    <2>6. \A q : q \in Spots(rs) <=> \E i \in 1..m : q = Spot(rs[i])
      BY <1>1, <1>2 DEF m
    <2>7. \A q : q \in Spots(l) <=> q \in Spots(rs) \/ q = Spot(r)
      BY <2>1, <2>2, <2>3, <2>4, <2>5, <2>6
    <2> QED BY <2>7 DEF l
  <1>5. ASSUME NEW id PROVE Spots(Without(rs, id)) = {q \in Spots(rs) : q.id # id}
    <2> DEFINE l == Without(rs, id)
    <2>1. \A r : r \in ToSet(l) <=> r \in ToSet(rs) /\ r.id # id
      BY WithoutIs
    <2> HIDE DEF l
    <2>2. \A q : q \in Spots(l) <=> \E r \in ToSet(l) : q = Spot(r)
      BY DEF Spots, ToSet
    <2>3. \A q : q \in Spots(rs) <=> \E r \in ToSet(rs) : q = Spot(r)
      BY DEF Spots, ToSet
    <2>4. \A q : q \in Spots(l) <=> q \in Spots(rs) /\ q.id # id
      BY <1>3, <2>1, <2>2, <2>3
    <2> QED BY <2>4 DEF l
  <1>6. ASSUME NEW qs, Alike(rs, qs) PROVE Spots(qs) = Spots(rs)
    <2>1. DOMAIN qs = DOMAIN rs /\ \A i \in DOMAIN rs : Spot(qs[i]) = Spot(rs[i])
      BY <1>6 DEF Alike, Spot
    <2> QED BY <2>1 DEF Spots
  <1>7. \A q \in Spots(rs) : /\ q.id \in Nat /\ q.id <= n /\ q.parent \in Text
                             /\ q.kind \in {"folder", "endpoint", "case"}
    BY <1>1, <1>2, <1>3, RowIs
  <1>8. \A id : Has(rs, id) <=> \E q \in Spots(rs) : q.id = id
    BY <1>2, <1>3 DEF Has
  <1> QED BY <1>2, <1>4, <1>5, <1>6, <1>7, <1>8

\* The commands on the rows.
LEMMA RowStepsWell ==
    ASSUME Typed, AllWell, NEW t \in Task, Insert(t) \/ CheckRow(t) \/ Delete(t) \/ WriteRow(t)
    PROVE  AllWell'
  <1> DEFINE D == Steps(born)
             j == job[t]
             s == j[1]
             n == born.node
             R == Spots(rows)
             R2 == Spots(rows')
             E == RowIds(envs)
             T == IdsOf(Tree(rows))
             T2 == IdsOf(Tree(rows'))
  <1>1. j # <<>>
    BY DEF Insert, CheckRow, Delete, WriteRow, At
  <1>2. /\ j \in Seq(D) /\ Now(t) = s /\ s \in D /\ n \in Nat /\ rows \in Seq(RowsTo(n))
        /\ born \in [node : Nat, env : Nat]
    BY <1>1, NowIs DEF Typed
  <1>3. /\ s.do = "insert" => s.row \in RowsTo(n)
        /\ s.do = "write" => s.id \in Nat /\ s.text \in Text
    BY <1>2, StepHas
  <1>4. Well(R, T, E, pending, panel, j) /\ Distinct(R, E)
    BY <1>1, BusyWell
  <1>5. s.do \notin Starters /\ s.do \notin Reloading
        /\ envs' = envs /\ pending' = pending /\ panel' = panel
    BY <1>2 DEF Insert, CheckRow, Delete, WriteRow, At, Now, Starters, Reloading
  <1>6. /\ s.do = "insert" => R2 = R \union {Spot(s.row)}
        /\ s.do = "delete" => R2 = {q \in R : q.id # s.id}
        /\ s.do \notin {"insert", "delete"} => R2 = R
    <2>1. CASE Insert(t)
      <3>1. s.do = "insert" /\ rows' = Append(rows, s.row)
        BY <1>2, <2>1 DEF Insert, At, Now
      <3> QED BY <1>2, <1>3, <3>1, SpotsAre
    <2>2. CASE CheckRow(t)
      <3>1. s.do = "check" /\ rows' = rows
        BY <1>2, <2>2 DEF CheckRow, At, Now
      <3> QED BY <3>1
    <2>3. CASE Delete(t)
      <3>1. s.do = "delete" /\ rows' = Without(rows, s.id)
        BY <1>2, <2>3 DEF Delete, At, Now
      <3> QED BY <1>2, <3>1, SpotsAre
    <2>4. CASE WriteRow(t)
      <3>1. s.do = "write" /\ rows' = WithText(rows, s.id, s.text)
        BY <1>2, <2>4 DEF WriteRow, At, Now
      <3>2. Alike(rows, rows')
        BY <1>2, <1>3, <3>1, WithTextIs
      <3> QED BY <1>2, <3>1, <3>2, SpotsAre
    <2> QED BY <2>1, <2>2, <2>3, <2>4
  <1>7. s.do # "insertenv"
    BY <1>2 DEF Insert, CheckRow, Delete, WriteRow, At, Now
  <1> HIDE DEF R, R2, T, T2, E, D, j, s
  <1>8. Well(R2, T2, E, pending, panel, Tail(j)) /\ StepFits(R, T, E, j, 1)
    BY <1>1, <1>2, <1>4, <1>5, <1>6, <1>7, WellTail DEF s
  <1>9. Done(t)
    <2>1. CASE CheckRow(t)
      <3>1. s.do = "check" /\ Else(t, Has(rows, s.id))
        BY <1>2, <2>1 DEF CheckRow, At, Now, j
      <3>2. CheckFits(R, j, 1)
        BY <1>8, <3>1 DEF StepFits, s
      <3>3. Planned(j, 1) = {}
        BY DEF Planned
      <3>4. \E q \in R : q.id = s.id
        BY <3>2, <3>3 DEF CheckFits, s
      <3>5. Has(rows, s.id)
        BY <1>2, <3>4, SpotsAre DEF R
      <3> QED BY <3>1, <3>5 DEF Else
    <2> QED BY <2>1 DEF Insert, Delete, WriteRow
  <1>10. job'[t] = Tail(j) /\ \A u \in Task : u # t => job'[u] = job[u]
    BY <1>1, <1>9, DoneIs DEF j
  <1>11. Distinct(R2, E)
    <2>1. CASE s.do = "insert"
      <3>1. InsertFits(R, j, 1) /\ Planned(j, 1) = {}
        BY <1>8, <2>1 DEF StepFits, Planned, s
      <3>2. \A q \in R : q.id < s.row.id
        BY <3>1 DEF InsertFits, s
      <3>3. s.row.id \in Nat /\ Spot(s.row).id = s.row.id
        BY <1>2, <1>3, <2>1, RowIs DEF Spot
      <3>4. \A q \in R : q.id # s.row.id
        BY <3>2, <3>3
      <3> QED BY <1>4, <1>6, <2>1, <3>3, <3>4 DEF Distinct
    <2>2. CASE s.do # "insert"
      <3>1. R2 \subseteq R
        BY <1>6, <2>2
      <3> QED BY <1>4, <3>1 DEF Distinct
    <2> QED BY <2>1, <2>2
  <1> QED BY <1>1, <1>5, <1>8, <1>10, <1>11, Rest DEF R2, T2, E, j

\* The first step of a command looks up what the command is about, and fails or
\* goes on.
LEMMA Started ==
    ASSUME Typed, AllWell, NEW t \in Task, job[t] # <<>>, Now(t).do \in Starters,
           UNCHANGED <<rows, envs, pending, panel>>,
           \/ Fails(t)
           \/ \E on : Goes(t, on) /\ Begins(Spots(rows), IdsOf(Tree(rows)), RowIds(envs), on)
    PROVE  AllWell'
  <1> DEFINE D == Steps(born)
             j == job[t]
             R == Spots(rows)
             E == RowIds(envs)
             T == IdsOf(Tree(rows))
  <1>1. j \in Seq(D) /\ Now(t) = j[1] /\ job \in [Task -> Seq(D)]
    BY NowIs DEF Typed
  <1>2. Well(R, T, E, pending, panel, j) /\ Distinct(R, E)
    BY BusyWell
  <1> HIDE DEF D, j, R, E, T
  <1>3. Tail(j) = <<>> /\ Well(R, T, E, pending, panel, <<>>)
    BY <1>1, <1>2, StarterIs DEF j
  <1>4. /\ \A u \in Task : u # t => job'[u] = job[u]
        /\ Well(R, T, E, pending, panel, job'[t])
    <2>1. CASE Fails(t)
      <3>1. job'[t] = <<>> /\ \A u \in Task : u # t => job'[u] = job[u]
        BY <1>1, <2>1 DEF Fails
      <3> QED BY <1>3, <3>1
    <2>2. CASE \E on : Goes(t, on) /\ Begins(R, T, E, on)
      <3>1. PICK on : Goes(t, on) /\ Begins(R, T, E, on)
        BY <2>2
      <3>2. job'[t] = on \o Tail(job[t]) /\ \A u \in Task : u # t => job'[u] = job[u]
        BY <1>1, <3>1 DEF Goes
      <3>3. job'[t] = on
        BY <1>3, <3>1, <3>2 DEF Begins, j
      <3> QED BY <3>1, <3>2, <3>3 DEF Begins, Well
    <2> QED BY <2>1, <2>2 DEF R, T, E
  <1> QED BY <1>2, <1>4, Rest DEF R, E, T

LEMMA RowStartersWell ==
    ASSUME Typed, AllWell, NEW t \in Task, ReadParent(t) \/ ListDoomed(t) \/ ReadRow(t)
    PROVE  AllWell'
  <1> DEFINE D == Steps(born)
             j == job[t]
             s == Now(t)
             n == born.node
             R == Spots(rows)
             E == RowIds(envs)
             T == IdsOf(Tree(rows))
             Goal == Fails(t) \/ \E on : Goes(t, on) /\ Begins(R, T, E, on)
  <1>1. j # <<>> /\ UNCHANGED <<rows, envs, pending, panel>>
    BY DEF ReadParent, ListDoomed, ReadRow, At
  <1>2. /\ j \in Seq(D) /\ s = j[1] /\ s \in D /\ n \in Nat /\ rows \in Seq(RowsTo(n))
        /\ born \in [node : Nat, env : Nat]
    BY <1>1, NowIs DEF Typed
  <1>3. /\ s.do = "parent" => s.parent \in Nat /\ s.id \in 0..n
        /\ s.do = "list" => s.id \in Nat
    BY <1>2, StepHas
  <1>4. s.do \in Starters
    BY DEF ReadParent, ListDoomed, ReadRow, At, Now, Starters
  <1>5. Well(R, T, E, pending, panel, j)
    BY <1>1, BusyWell
  <1>6. \A q \in R : /\ q.id \in Nat /\ q.parent \in Text
    BY <1>2, SpotsAre
  <1>10. \A id : Has(rows, id) => Spot(Get(rows, id)) \in R /\ Get(rows, id).id = id
    <2> TAKE id
    <2> HAVE Has(rows, id)
    <2>1. PICK i \in DOMAIN rows : Get(rows, id) = rows[i] /\ rows[i].id = id
      BY GetIs
    <2> QED BY <2>1 DEF Spots
  <1> HIDE DEF R, E, T, D, j, s
  <1>7. (\A r \in R : Above(R, r)) /\ StepFits(R, T, E, j, 1)
    BY <1>1, <1>2, <1>4, <1>5, StarterIs DEF j
  <1>8. Goal
    <2>1. CASE ReadParent(t)
      <3> DEFINE x == Get(rows, s.parent).text
                 r == Row(s.id, "case", s.parent, x)
      <3>1. CASE Has(rows, s.parent) /\ Get(rows, s.parent).kind = "endpoint"
        <4>1. s.do = "parent" /\ Goes(t, CreateCommand(r))
          BY <2>1, <3>1 DEF ReadParent, At, Now, s
        <4>2. \A q \in R : q.id < s.id
          BY <1>2, <1>7, <4>1 DEF StepFits
        <4> HIDE DEF x
        <4>3. r.id = s.id /\ Spot(r).kind = "case" /\ Spot(r).parent = s.parent
          BY DEF Row, Spot
        <4>4. Above(R, Spot(r))
          <5>1. /\ Spot(Get(rows, s.parent)) \in R /\ Spot(Get(rows, s.parent)).kind = "endpoint"
                /\ Spot(Get(rows, s.parent)).id = s.parent
            BY <1>10, <3>1 DEF Spot
          <5> QED BY <4>3, <5>1 DEF Above
        <4> HIDE DEF r
        <4>5. Begins(R, T, E, CreateCommand(r))
          BY <1>7, <4>2, <4>3, <4>4, FitsCreate
        <4> QED BY <4>1, <4>5
      <3>2. CASE ~(Has(rows, s.parent) /\ Get(rows, s.parent).kind = "endpoint")
        BY <2>1, <3>2 DEF ReadParent, s
      <3> QED BY <3>1, <3>2
    <2>2. CASE ListDoomed(t)
      <3> DEFINE d == Doomed(rows, s.id)
                 on == [i \in DOMAIN d |-> [do |-> "delete", id |-> d[i]]] \o Reload
      <3>1. s.do = "list" /\ Goes(t, on)
        BY <2>2 DEF ListDoomed, At, Now, s
      <3>2. d \in Seq(Nat) /\ \A i \in DOMAIN rows : rows[i].parent \in ToSet(d) => rows[i].id \in ToSet(d)
        BY <1>2, <1>3, <3>1, DoomedIs
      <3> HIDE DEF d
      <3>3. \A q \in R : q.parent \in ToSet(d) => q.id \in ToSet(d)
        BY <3>2 DEF R, Spots, Spot
      <3>4. Begins(R, T, E, on)
        BY <1>7, <3>2, <3>3, FitsDelete
      <3> QED BY <3>1, <3>4
    <2>3. CASE ReadRow(t)
      <3> DEFINE w == [do |-> "write", id |-> s.id, text |-> Get(rows, s.id).text]
      <3>1. CASE Has(rows, s.id)
        <4>1. Goes(t, <<w>> \o Reload)
          BY <2>3, <3>1 DEF ReadRow, s
        <4>2. w.do = "write"
          OBVIOUS
        <4> HIDE DEF w
        <4>3. Begins(R, T, E, <<w>> \o Reload)
          BY <1>7, <4>2, FitsTwo
        <4> QED BY <4>1, <4>3
      <3>2. CASE ~Has(rows, s.id)
        BY <2>3, <3>2 DEF ReadRow, s
      <3> QED BY <3>1, <3>2
    <2> QED BY <2>1, <2>2, <2>3
  <1> QED BY <1>1, <1>4, <1>8, Started DEF R, E, T, s, j

\* The last steps: the tree is read, then the environments, and both are left.
LEMMA ReloadStepsWell ==
    ASSUME Typed, AllWell, orderly', NEW t \in Task, ReadTree(t) \/ ReadEnvs(t) \/ LeaveForPanel(t)
    PROVE  AllWell'
  <1> DEFINE D == Steps(born)
             j == job[t]
             s == Now(t)
             R == Spots(rows)
             E == RowIds(envs)
             T == IdsOf(Tree(rows))
  <1>1. j # <<>> /\ UNCHANGED <<rows, envs, panel>>
    BY DEF ReadTree, ReadEnvs, LeaveForPanel, At
  <1>2. j \in Seq(D) /\ s = j[1] /\ job \in [Task -> Seq(D)]
    BY <1>1, NowIs DEF Typed
  <1>3. s.do \in Reloading
    BY DEF ReadTree, ReadEnvs, LeaveForPanel, At, Now, Reloading
  <1>4. Well(R, T, E, pending, panel, j) /\ Distinct(R, E)
    BY <1>1, BusyWell
  <1>10. RowIds(ListedEnvs) = E
    <2>1. envs # <<>>
      <3>1. envs = <<>> => RowIds(envs) = <<>>
        BY DEF RowIds
      <3> QED BY <1>4, <3>1 DEF Distinct
    <2> QED BY <2>1 DEF ListedEnvs
  <1> HIDE DEF R, E, T, D, j, s
  <1>5. (\A r \in R : Above(R, r)) /\ StepFits(R, T, E, j, 1) /\ Tail(j) = <<>>
    BY <1>1, <1>2, <1>3, <1>4, ReloaderIs DEF Well
  <1>6. \A on : Goes(t, on) => job'[t] = on \o <<>> /\ \A u \in Task : u # t => job'[u] = job[u]
    BY <1>2, <1>5 DEF Goes, j
  <1>7. \A x : <<x>> \o <<>> = <<x>>
    <2> TAKE x
    <2>1. <<x>> \in Seq({x})
      OBVIOUS
    <2> QED BY <2>1, ConcatEmptySeq
  <1>8. CASE ReadTree(t)
    <2> DEFINE w == [do |-> "envs", tree |-> Tree(rows)]
    <2>1. Goes(t, <<w>>) /\ pending' = pending
      <3>1. PICK tree \in TreesRead : /\ Goes(t, <<[do |-> "envs", tree |-> tree]>>)
                                      /\ orderly' = (orderly /\ tree = Tree(rows))
        BY <1>8 DEF ReadTree
      <3>2. tree = Tree(rows)
        BY <3>1
      <3> QED BY <1>8, <3>1, <3>2 DEF ReadTree
    <2>2. w.do = "envs" /\ IdsOf(w.tree) = T
      BY DEF T
    <2> HIDE DEF w
    <2>3. Fits(R, T, E, <<w>>) /\ ~Starting(<<w>>)
      BY <1>5, <2>2, FitsOne DEF Reloading, Starters
    <2>4. job'[t] = <<w>> /\ \A u \in Task : u # t => job'[u] = job[u]
      BY <1>6, <1>7, <2>1
    <2> QED BY <1>1, <1>4, <2>1, <2>3, <2>4, Rest DEF R, E, T, j, Well
  <1>9. CASE ReadEnvs(t)
    <2> DEFINE w == [do |-> "publish", tree |-> s.tree, envs |-> ListedEnvs]
    <2>1. Goes(t, <<w>>) /\ pending' = pending /\ s.do = "envs"
      <3>1. PICK list \in EnvsRead : /\ Goes(t, <<[do |-> "publish", tree |-> s.tree, envs |-> list]>>)
                                     /\ orderly' = (orderly /\ list = ListedEnvs)
        BY <1>9 DEF ReadEnvs, s
      <3>2. list = ListedEnvs
        BY <3>1
      <3> QED BY <1>9, <3>1, <3>2 DEF ReadEnvs, s, At, Now
    <2>2. IdsOf(s.tree) = T
      BY <1>2, <1>5, <2>1 DEF StepFits
    <2>3. w.do = "publish" /\ IdsOf(w.tree) = T /\ RowIds(w.envs) = E
      BY <2>2, <1>10
    <2> HIDE DEF w
    <2>4. Fits(R, T, E, <<w>>) /\ ~Starting(<<w>>)
      BY <1>5, <2>3, FitsOne DEF Reloading, Starters
    <2>5. job'[t] = <<w>> /\ \A u \in Task : u # t => job'[u] = job[u]
      BY <1>6, <1>7, <2>1
    <2> QED BY <1>1, <1>4, <2>1, <2>4, <2>5, Rest DEF R, E, T, j, Well
  <1>11. CASE LeaveForPanel(t)
    <2>1. Done(t) /\ pending' = [tree |-> <<s.tree>>, envs |-> <<s.envs>>] /\ s.do = "publish"
      BY <1>11 DEF LeaveForPanel, s, At, Now
    <2>2. IdsOf(s.tree) = T /\ RowIds(s.envs) = E
      BY <1>2, <1>5, <2>1 DEF StepFits
    <2>3. job'[t] = <<>> /\ \A u \in Task : u # t => job'[u] = job[u]
      <3>1. <<>> \o <<>> = <<>>
        OBVIOUS
      <3> QED BY <1>6, <2>1, <3>1 DEF Done
    <2>4. /\ pending'.tree # <<>> /\ pending'.tree[1] = s.tree
          /\ pending'.envs # <<>> /\ pending'.envs[1] = s.envs
      BY <2>1
    <2>5. Shown(T, E, pending', panel)
      BY <2>2, <2>4 DEF Shown
    <2>6. Well(R, T, E, pending', panel, <<>>)
      BY <1>5, <2>5, FitsNone DEF Well
    <2> QED BY <1>1, <1>4, <2>3, <2>6, Rest DEF R, E, T, j
  <1> QED BY <1>8, <1>9, <1>11

LEMMA EnvIds ==
    ASSUME NEW n \in Nat, NEW es \in Seq(EnvsTo(n))
    PROVE  /\ DOMAIN es = 1..Len(es) /\ Len(es) \in Nat /\ DOMAIN RowIds(es) = DOMAIN es
           /\ \A i \in DOMAIN es : RowIds(es)[i] = es[i].id /\ es[i].id \in Nat
           /\ \A id : Has(es, id) <=> id \in ToSet(RowIds(es))
           /\ \A id : id \in ToSet(RowIds(es)) <=> \E i \in DOMAIN es : id = es[i].id
           /\ RowIds(es) = <<>> <=> es = <<>>
  <1>1. DOMAIN es = 1..Len(es) /\ Len(es) \in Nat /\ \A i \in DOMAIN es : es[i] \in EnvsTo(n)
    OBVIOUS
  <1>2. \A i \in DOMAIN es : es[i].id \in Nat
    BY <1>1, EnvHas
  <1>3. DOMAIN RowIds(es) = DOMAIN es /\ \A i \in DOMAIN es : RowIds(es)[i] = es[i].id
    BY DEF RowIds
  <1>4. \A id : id \in ToSet(RowIds(es)) <=> \E i \in DOMAIN es : id = es[i].id
    BY <1>3 DEF ToSet
  <1>5. RowIds(es) = <<>> <=> es = <<>>
    <2>1. RowIds(es) = <<>> => DOMAIN es = {}
      BY <1>3
    <2>2. DOMAIN es = {} => es = <<>>
      BY <1>1, EmptySeq
    <2>3. es = <<>> => RowIds(es) = <<>>
      BY DEF RowIds
    <2> QED BY <2>1, <2>2, <2>3
  <1> QED BY <1>1, <1>2, <1>3, <1>4, <1>5 DEF Has

\* The rows are what they were.
LEMMA RestEnvs ==
    ASSUME AllWell, NEW t \in Task, job[t] # <<>>, \A u \in Task : u # t => job'[u] = job[u],
           UNCHANGED <<rows, pending, panel>>,
           Well(Spots(rows), IdsOf(Tree(rows)), RowIds(envs'), pending, panel, job'[t]),
           \A i, k \in DOMAIN RowIds(envs') : RowIds(envs')[i] = RowIds(envs')[k] => i = k,
           RowIds(envs') # <<>>
    PROVE  AllWell'
  <1>1. Distinct(Spots(rows), RowIds(envs))
    BY BusyWell
  <1>2. Distinct(Spots(rows), RowIds(envs'))
    BY <1>1 DEF Distinct
  <1> QED BY <1>2, Rest

\* The commands on the environments.
LEMMA EnvStepsWell ==
    ASSUME Typed, AllWell, NEW t \in Task, orderly',
           InsertEnv(t) \/ CheckEnv(t) \/ DropEnv(t) \/ WriteEnv(t)
    PROVE  AllWell'
  <1> DEFINE D == Steps(born)
             j == job[t]
             s == Now(t)
             n == born.env
             R == Spots(rows)
             E == RowIds(envs)
             E2 == RowIds(envs')
             T == IdsOf(Tree(rows))
  <1>1. j # <<>> /\ UNCHANGED <<rows, pending, panel>>
    BY DEF InsertEnv, CheckEnv, DropEnv, WriteEnv, At
  <1>2. /\ j \in Seq(D) /\ s = j[1] /\ s \in D /\ n \in Nat /\ envs \in Seq(EnvsTo(n))
        /\ born \in [node : Nat, env : Nat]
    BY <1>1, NowIs DEF Typed
  <1>3. /\ s.do = "insertenv" => s.env \in EnvsTo(n)
        /\ s.do = "fill" => s.data \in Text
        /\ s.do = "head" => s.head \in Text
    BY <1>2, StepHas
  <1>4. Well(R, T, E, pending, panel, j) /\ Distinct(R, E)
    BY <1>1, BusyWell
  <1>5. s.do \in {"insertenv", "checkenv", "dropenv", "head", "wipe", "fill"}
    BY DEF InsertEnv, CheckEnv, DropEnv, WriteEnv, At, Now
  <1>6. /\ \A i \in DOMAIN envs : E[i] = envs[i].id /\ envs[i].id \in Nat
        /\ DOMAIN E = DOMAIN envs /\ DOMAIN envs = 1..Len(envs) /\ Len(envs) \in Nat
        /\ \A id : Has(envs, id) <=> id \in ToSet(E)
        /\ \A id : id \in ToSet(E) <=> \E i \in DOMAIN envs : id = envs[i].id
    BY <1>2, EnvIds
  <1> HIDE DEF R, E, E2, T, D, j, s
  <1>7. StepFits(R, T, E, j, 1)
    <2>1. j[1].do \notin Starters /\ j[1].do \notin Reloading /\ j[1].do \notin {"insert", "delete"}
      BY <1>2, <1>5 DEF Starters, Reloading
    <2>2. ~Starting(j) /\ Fits(R, T, E, j) /\ 1 \in DOMAIN j
      <3>1. 1 \in DOMAIN j
        BY <1>1, <1>2, TailIs
      <3> QED BY <3>1, <2>1, <1>4 DEF Well, Starting
    <2> QED BY <2>2 DEF Fits
  <1>8. /\ Done(t)
        /\ s.do = "insertenv" => s.env.id \in ToSet(E2)
        /\ \A i, k \in DOMAIN E2 : E2[i] = E2[k] => i = k
        /\ E2 # <<>>
    <2>1. CASE InsertEnv(t)
      <3> DEFINE e == s.env
                 m == Len(envs)
      <3>1. s.do = "insertenv" /\ Done(t) /\ envs' = Append(envs, e) /\ e \in EnvsTo(n)
        BY <1>3, <2>1 DEF InsertEnv, At, Now, s
      <3>2. \A i \in ToSet(E) : i < e.id
        BY <1>2, <1>7, <3>1 DEF StepFits
      <3>3. e.id \in Nat
        BY <1>2, <3>1, EnvHas
      <3> HIDE DEF e
      <3>4. /\ envs' \in Seq(EnvsTo(n)) /\ DOMAIN envs' = 1..(m + 1)
            /\ (\A i \in 1..m : envs'[i] = envs[i]) /\ envs'[m + 1] = e
        BY <1>2, <1>6, <3>1, AppendProperties
      <3>5. DOMAIN E2 = DOMAIN envs' /\ \A i \in DOMAIN envs' : E2[i] = envs'[i].id
        BY DEF E2, RowIds
      <3>6. m + 1 \in DOMAIN E2 /\ E2[m + 1] = e.id
        BY <1>6, <3>4, <3>5
      <3>7. \A i \in 1..(m + 1) : i = m + 1 \/ i \in 1..m
        BY <1>6
      <3>8. \A i \in 1..m : E2[i] = E[i] /\ E2[i] \in ToSet(E)
        <4> TAKE i \in 1..m
        <4>1. i \in 1..(m + 1)
          BY <1>6
        <4> QED BY <4>1, <1>6, <3>4, <3>5
      <3>9. \A i \in 1..m : E2[i] # e.id
        BY <3>2, <3>3, <3>8
      <3>10. \A i, k \in DOMAIN E2 : E2[i] = E2[k] => i = k
        BY <1>4, <1>6, <3>4, <3>5, <3>6, <3>7, <3>8, <3>9 DEF Distinct
      <3>11. E2 # <<>>
        BY <3>6
      <3>12. e.id \in ToSet(E2)
        BY <3>6 DEF ToSet
      <3> QED BY <3>1, <3>10, <3>11, <3>12 DEF e
    <2>2. CASE CheckEnv(t)
      <3>1. s.do = "checkenv" /\ Else(t, Has(envs, s.id)) /\ envs' = envs
        BY <2>2 DEF CheckEnv, At, Now, s
      <3>2. s.id \in ToSet(E)
        BY <1>2, <1>7, <3>1 DEF StepFits
      <3>3. Done(t)
        BY <1>6, <3>1, <3>2 DEF Else
      <3> QED BY <1>4, <3>1, <3>3 DEF Distinct, E2, E
    <2>3. CASE DropEnv(t)
      <3> DEFINE I == {i \in DOMAIN envs : envs[i].id # s.id}
                 l == Only(envs, I)
      <3>1. s.do = "dropenv" /\ Else(t, Has(envs, s.id)) /\ envs' = l
        BY <2>3 DEF DropEnv, At, Now, s, Without
      <3>2. s.id \in ToSet(E) /\ \E e \in ToSet(E) : e # s.id
        BY <1>2, <1>7, <3>1 DEF StepFits
      <3>3. Done(t)
        BY <1>6, <3>1, <3>2 DEF Else
      <3> HIDE DEF l
      <3>4. l \in Seq(EnvsTo(n)) /\ Kept(envs, I, l, Len(envs))
        BY <1>2, OnlyIs DEF l
      <3>5. PICK h : KeptAt(envs, I, l, Len(envs), h)
        BY <3>4 DEF Kept
      <3>6. DOMAIN l = 1..Len(l) /\ DOMAIN E2 = DOMAIN l /\ \A k \in DOMAIN l : E2[k] = l[k].id
        BY <3>1, <3>4 DEF E2, RowIds
      <3>7. \A k \in 1..Len(l) : h[k] \in DOMAIN envs /\ E2[k] = E[h[k]]
        BY <1>6, <3>5, <3>6 DEF KeptAt
      <3>8. \A i, k \in DOMAIN E2 : E2[i] = E2[k] => i = k
        BY <1>4, <1>6, <3>5, <3>6, <3>7 DEF Distinct, KeptAt
      <3>9. PICK i \in DOMAIN envs : envs[i].id # s.id
        BY <1>6, <3>2
      <3>10. \E k \in 1..Len(l) : h[k] = i
        BY <1>6, <3>5, <3>9 DEF KeptAt
      <3>11. E2 # <<>>
        BY <3>6, <3>10
      <3> QED BY <3>1, <3>3, <3>8, <3>11
    <2>4. CASE WriteEnv(t)
      <3>1. s.do \in {"head", "wipe", "fill"} /\ Done(t)
        BY <2>4 DEF WriteEnv, At, Now, s, Else
      <3>2. E2 = E
        <4>1. \/ \E field \in {"head", "data"}, value \in Text : envs' = WithEnv(s.id, field, value)
              \/ envs' = envs
          <5>1. None \in Text
            BY DEF Text
          <5>2. CASE At(t, "head")
            BY <1>3, <2>4, <5>2 DEF WriteEnv, At, Now, s
          <5>3. CASE At(t, "wipe")
            BY <5>1, <2>4, <5>3 DEF WriteEnv, At, Now, s
          <5>4. CASE At(t, "fill")
            BY <1>3, <2>4, <5>4 DEF WriteEnv, At, Now, s
          <5> QED BY <2>4, <5>2, <5>3, <5>4 DEF WriteEnv
        <4> QED BY <4>1, WithEnvIs DEF E2, E
      <3> QED BY <1>4, <3>1, <3>2 DEF Distinct
    <2> QED BY <2>1, <2>2, <2>3, <2>4
  <1>9. Well(R, T, E2, pending, panel, Tail(j))
    <2>1. j[1].do \notin Starters /\ j[1].do \notin Reloading /\ j[1].do \notin {"insert", "delete"}
      BY <1>2, <1>5 DEF Starters, Reloading
    <2>2. j[1].do = "insertenv" => j[1].env.id \in ToSet(E2)
      BY <1>2, <1>8
    <2> QED BY <1>1, <1>2, <1>4, <2>1, <2>2, WellTail
  <1>10. job'[t] = Tail(j) /\ \A u \in Task : u # t => job'[u] = job[u]
    BY <1>1, <1>8, DoneIs DEF j
  <1> QED BY <1>1, <1>8, <1>9, <1>10, RestEnvs DEF R, E, E2, T, j

LEMMA EnvStartersWell ==
    ASSUME Typed, AllWell, NEW t \in Task, PickEnv(t) \/ ImportEnvs(t)
    PROVE  AllWell'
  <1> DEFINE D == Steps(born)
             j == job[t]
             s == Now(t)
             n == born.env
             R == Spots(rows)
             E == RowIds(envs)
             T == IdsOf(Tree(rows))
  <1>1. j # <<>> /\ UNCHANGED <<rows, pending, panel>>
    BY DEF PickEnv, ImportEnvs, At
  <1>2. /\ j \in Seq(D) /\ s = j[1] /\ s \in D /\ n \in Nat /\ envs \in Seq(EnvsTo(n))
        /\ born \in [node : Nat, env : Nat] /\ job \in [Task -> Seq(D)]
    BY <1>1, NowIs DEF Typed
  <1>3. s.do \in Starters
    BY DEF PickEnv, ImportEnvs, At, Now, Starters
  <1>4. Well(R, T, E, pending, panel, j) /\ Distinct(R, E)
    BY <1>1, BusyWell
  <1>5. /\ \A i \in DOMAIN envs : E[i] = envs[i].id /\ envs[i].id \in Nat
        /\ DOMAIN E = DOMAIN envs /\ DOMAIN envs = 1..Len(envs) /\ Len(envs) \in Nat
        /\ \A id : id \in ToSet(E) <=> \E i \in DOMAIN envs : id = envs[i].id
    BY <1>2, EnvIds
  <1> HIDE DEF R, E, T, D, j, s
  <1>6. (\A r \in R : Above(R, r)) /\ StepFits(R, T, E, j, 1) /\ Tail(j) = <<>>
    BY <1>1, <1>2, <1>3, <1>4, StarterIs DEF j
  <1>7. CASE PickEnv(t)
    <2>1. Fails(t) \/ \E on : Goes(t, on) /\ Begins(R, T, E, on)
      <3>1. CASE Fails(t)
        BY <3>1
      <3>2. CASE At(t, "duplicate") /\ ~Fails(t)
        <4> DEFINE e == Env(s.x, envs[s.at].head, None)
                   c == [do |-> "fill", id |-> s.x, ok |-> TRUE, data |-> envs[s.at].data]
        <4>1. Goes(t, (NewEnv(e) \o <<c>>) \o Reload) /\ s.do = "duplicate"
          BY <1>7, <3>2 DEF PickEnv, At, Now, s
        <4>2. (\A i \in ToSet(E) : i < e.id) /\ c.do = "fill"
          BY <1>2, <1>6, <4>1 DEF StepFits, Env
        <4> HIDE DEF e, c
        <4>3. Begins(R, T, E, (NewEnv(e) \o <<c>>) \o Reload)
          BY <1>6, <4>2, FitsNewEnv
        <4> QED BY <4>1, <4>3
      <3>3. CASE At(t, "drop") /\ ~Fails(t)
        <4> DEFINE d == [do |-> "dropenv", id |-> envs[s.at].id]
        <4>1. Goes(t, <<d>> \o Reload) /\ Len(envs) > 1 /\ s.at \in DOMAIN envs
          BY <1>7, <3>3 DEF PickEnv, At, Now, s
        <4>2. d.do = "dropenv" /\ d.id = E[s.at] /\ d.id \in ToSet(E)
          BY <1>5, <4>1
        <4>3. \E e \in ToSet(E) : e # d.id
          <5>1. 1 \in DOMAIN envs /\ 2 \in DOMAIN envs
            BY <1>5, <4>1
          <5>2. E[1] \in ToSet(E) /\ E[2] \in ToSet(E) /\ E[1] # E[2]
            BY <1>4, <1>5, <5>1 DEF Distinct
          <5> QED BY <5>2
        <4> HIDE DEF d
        <4>4. Begins(R, T, E, <<d>> \o Reload)
          BY <1>6, <4>2, <4>3, FitsTwo
        <4> QED BY <4>1, <4>4
      <3>4. CASE At(t, "save") /\ ~Fails(t)
        <4> DEFINE id == envs[s.at].id
                   a == [do |-> "head", id |-> id, head |-> s.x.head]
                   b == [do |-> "wipe", id |-> id]
                   c == [do |-> "fill", id |-> id, ok |-> s.x.ok, data |-> s.x.data]
        <4>1. Goes(t, <<a, b, c>> \o Reload)
          BY <1>7, <3>4 DEF PickEnv, At, Now, s
        <4>2. a.do = "head" /\ b.do = "wipe" /\ c.do = "fill"
          OBVIOUS
        <4> HIDE DEF a, b, c
        <4>3. Begins(R, T, E, <<a, b, c>> \o Reload)
          BY <1>6, <4>2, FitsSave
        <4> QED BY <4>1, <4>3
      <3> QED BY <1>7, <3>1, <3>2, <3>3, <3>4 DEF PickEnv
    <2>2. UNCHANGED <<rows, envs, pending, panel>>
      BY <1>7 DEF PickEnv
    <2> QED BY <1>1, <1>3, <2>1, <2>2, Started DEF R, E, T, s, j
  <1>8. CASE ImportEnvs(t)
    <2> DEFINE w == [do |-> "tree"]
               e == Env(s.x, s.x, s.x)
    <2>1. Goes(t, <<w>>) /\ envs' = <<e>>
      BY <1>8 DEF ImportEnvs, s, Reload
    <2>2. w.do = "tree" /\ e.id = s.x
      BY DEF Env
    <2> HIDE DEF w, e
    <2>3. <<w>> \o <<>> = <<w>>
      <3>1. <<w>> \in Seq({w})
        OBVIOUS
      <3> QED BY <3>1, ConcatEmptySeq
    <2>4. job'[t] = <<w>> /\ \A u \in Task : u # t => job'[u] = job[u]
      BY <1>2, <1>6, <2>1, <2>3 DEF Goes, j
    <2>5. DOMAIN RowIds(envs') = {1}
      BY <2>1 DEF RowIds
    <2>6. Fits(R, T, RowIds(envs'), <<w>>) /\ ~Starting(<<w>>)
      BY <1>6, <2>2, FitsOne DEF Reloading, Starters
    <2>7. (\A i, k \in DOMAIN RowIds(envs') : i = k) /\ RowIds(envs') # <<>>
      BY <2>5
    <2> QED BY <1>1, <2>4, <2>6, <2>7, RestEnvs DEF R, T, j, Well
  <1> QED BY <1>7, <1>8

-----------------------------------------------------------------------------
(* Commands that do not overlap: the panel and the user.                   *)

LEMMA ShowsIdsIs ==
    ASSUME NEW x \in Trees
    PROVE  IdsOf(Shows(x)) = ShowsIds(IdsOf(x))
  <1>1. x.requests \in Seq(Requests)
    BY DEF Trees
  <1>2. DOMAIN IdsOf(x).requests = DOMAIN x.requests
    BY DEF IdsOf
  <1>3. IdsOf(x).requests = <<>> <=> x.requests = <<>>
    <2>1. x.requests = <<>> => IdsOf(x).requests = <<>>
      BY DEF IdsOf
    <2>2. IdsOf(x).requests = <<>> => DOMAIN x.requests = {}
      BY <1>2
    <2>3. DOMAIN x.requests = {} => x.requests = <<>>
      <3>1. DOMAIN x.requests = 1..Len(x.requests) /\ Len(x.requests) \in Nat
        BY <1>1
      <3>2. DOMAIN x.requests = {} => Len(x.requests) = 0
        <4>1. Len(x.requests) # 0 => 1 \in 1..Len(x.requests)
          BY <3>1
        <4> QED BY <3>1, <4>1
      <3> QED BY <1>1, <3>2, EmptySeq
    <2> QED BY <2>1, <2>2, <2>3
  <1> QED BY <1>3 DEF Shows, ShowsIds

\* No thread moves, and nothing changes by id.
LEMMA StillWell ==
    ASSUME AllWell, job' = job, Spots(rows') = Spots(rows), IdsOf(Tree(rows')) = IdsOf(Tree(rows)),
           RowIds(envs') = RowIds(envs),
           Shown(IdsOf(Tree(rows)), RowIds(envs), pending, panel)
               => Shown(IdsOf(Tree(rows)), RowIds(envs), pending', panel')
    PROVE  AllWell'
  <1> DEFINE R == Spots(rows)
             E == RowIds(envs)
             T == IdsOf(Tree(rows))
  <1>1. \A x : Well(R, T, E, pending, panel, x) => Well(R, T, E, pending', panel', x)
    BY DEF Well
  <1> HIDE DEF R, E, T
  <1>2. /\ Alone /\ \A t \in Task : job[t] # <<>> => Well(R, T, E, pending', panel', job[t])
        /\ Idle => Well(R, T, E, pending', panel', <<>>)
        /\ Distinct(R, E)
    BY <1>1 DEF AllWell, R, E, T
  <1>3. Spots(rows') = R /\ IdsOf(Tree(rows')) = T /\ RowIds(envs') = E
    BY DEF R, E, T
  <1>4. Alone' /\ (Idle' => Idle)
    BY <1>2 DEF Alone, Idle
  <1> QED BY <1>2, <1>3, <1>4 DEF AllWell

LEMMA TakesWell ==
    ASSUME Typed, AllWell, TakeGroups \/ TakeEnvs
    PROVE  AllWell'
  <1> DEFINE T == IdsOf(Tree(rows))
             E == RowIds(envs)
  <1>1. UNCHANGED <<rows, envs, job>>
    BY DEF TakeGroups, TakeEnvs
  <1>2. ASSUME Shown(T, E, pending, panel) PROVE Shown(T, E, pending', panel')
    <2>1. CASE TakeGroups
      <3>1. /\ pending'.tree = <<>> /\ pending'.envs = pending.envs /\ panel'.envs = panel.envs
            /\ pending.tree = <<>> => panel' = panel
            /\ pending.tree # <<>> => panel'.tree = Shows(pending.tree[1])
        BY <2>1, TakeGroupsIs
      <3>2. pending.tree # <<>> => IdsOf(panel'.tree) = ShowsIds(IdsOf(pending.tree[1]))
        <4>1. pending.tree # <<>> => pending.tree[1] \in Trees
          BY DEF Typed
        <4> QED BY <3>1, <4>1, ShowsIdsIs
      <3> QED BY <1>2, <3>1, <3>2 DEF Shown
    <2>2. CASE TakeEnvs
      <3>1. /\ pending'.envs = <<>> /\ pending'.tree = pending.tree /\ panel'.tree = panel.tree
            /\ pending.envs = <<>> => panel' = panel
            /\ pending.envs # <<>> => panel'.envs = pending.envs[1]
        BY <2>2, TakeEnvsIs
      <3> QED BY <1>2, <3>1 DEF Shown
    <2> QED BY <2>1, <2>2
  <1> QED BY <1>1, <1>2, StillWell

\* The editors that are written into what is selected change nothing by id, nor
\* does the text that is stored.
LEMMA TextsWell ==
    ASSUME Typed, AllWell, UNCHANGED <<envs, job, pending>>, Alike(rows, rows'),
           rows' \in Seq(RowsTo(born.node)), SameIds(panel', panel)
    PROVE  AllWell'
  <1>1. born.node \in Nat /\ rows \in Seq(RowsTo(born.node))
    BY DEF Typed
  <1>2. Spots(rows') = Spots(rows)
    BY <1>1, SpotsAre
  <1>3. IdsOf(Tree(rows')) = IdsOf(Tree(rows))
    BY <1>1, AlikeTrees
  <1>4. ASSUME NEW T, NEW E, Shown(T, E, pending, panel) PROVE Shown(T, E, pending', panel')
    BY <1>4 DEF Shown, SameIds
  <1> QED BY <1>2, <1>3, <1>4, StillWell

\* A new panel shows what is stored, unless it takes it for empty.
LEMMA OpenedShows ==
    ASSUME NEW n \in Nat, rows \in Seq(RowsTo(n)), Known
    PROVE  IdsOf(FirstTree(rows)) = ShowsIds(IdsOf(Tree(rows)))
  <1>1. Tree(rows) \in Trees
    BY TreeIs
  <1>2. CASE FirstTree(rows) = EmptyTree
    <2>1. Tree(rows).requests = <<>>
      BY <1>2 DEF Known
    <2>2. Shows(Tree(rows)) = EmptyTree
      BY <2>1 DEF Shows
    <2> QED BY <1>1, <1>2, <2>2, ShowsIdsIs
  <1>3. CASE FirstTree(rows) # EmptyTree
    <2>1. FirstTree(rows) = Tree(rows) /\ FirstTree(rows).requests # <<>>
      BY <1>3, FirstIs
    <2>2. Shows(Tree(rows)) = Tree(rows)
      BY <2>1 DEF Shows
    <2> QED BY <1>1, <2>1, <2>2, ShowsIdsIs
  <1> QED BY <1>2, <1>3

LEMMA PanelActsWell ==
    ASSUME Typed, AllWell, orderly',
           SyncAndSave \/ SaveTable \/ ResetEnvironment \/ Reopen
               \/ (\E i \in DOMAIN panel.tree.requests :
                       \E c \in {0} \union DOMAIN panel.tree.requests[i].cases : Select(i, c))
               \/ (\E i \in DOMAIN panel.envs : SelectEnvironment(i))
    PROVE  AllWell'
  <1> DEFINE w == Synced(panel)
  <1>1. /\ panel \in Panels /\ panel \in Frames /\ born.node \in Nat /\ rows \in Seq(RowsTo(born.node))
    BY DEF Typed, Panels
  <1>2. w \in Panels /\ w \in Frames /\ SameIds(w, panel)
    BY <1>1, SyncedIs DEF Panels
  <1>3. /\ DOMAIN w.tree.requests = DOMAIN panel.tree.requests /\ DOMAIN w.envs = DOMAIN panel.envs
        /\ \A i \in DOMAIN panel.tree.requests :
               DOMAIN w.tree.requests[i].cases = DOMAIN panel.tree.requests[i].cases
    BY <1>1, SyncedIs
  <1>10. Alike(rows, rows) /\ panel.tree.requests \in Seq(Requests) /\ panel.envs \in Seq(Listed)
    BY <1>1, FrameIs DEF Alike
  <1>4. CASE SyncAndSave
    <2>1. panel' = w /\ rows' = Persisted(w) /\ UNCHANGED <<envs, job, pending>>
      BY <1>4 DEF SyncAndSave
    <2> HIDE DEF w
    <2>2. rows' \in Seq(RowsTo(born.node)) /\ Alike(rows, rows')
      BY <2>1, <1>2, PersistedIs
    <2> QED BY <1>2, <2>1, <2>2, TextsWell
  <1>5. CASE SaveTable
    <2> DEFINE x == RequestSynced(panel)
    <2>1. panel' = x /\ rows' = Persisted(x) /\ x \in Panels /\ SameIds(x, panel) /\ UNCHANGED <<envs, job, pending>>
      BY <1>1, <1>5, RequestSyncedIs DEF SaveTable
    <2> HIDE DEF x
    <2>2. rows' \in Seq(RowsTo(born.node)) /\ Alike(rows, rows')
      BY <2>1, PersistedIs
    <2> QED BY <2>1, <2>2, TextsWell
  <1>6. CASE ResetEnvironment
    <2>1. panel' = WithForm(panel) /\ UNCHANGED <<rows, envs, job, pending>>
      BY <1>6 DEF ResetEnvironment
    <2>2. SameIds(panel', panel)
      BY <1>1, <2>1, WithFormIs DEF SameIds
    <2> QED BY <1>1, <1>10, <2>1, <2>2, TextsWell
  <1>7. CASE Reopen
    <2>1. panel' = Opened(FirstTree(rows), ListedEnvs) /\ UNCHANGED <<rows, envs, job, pending>> /\ Known
      BY <1>7 DEF Reopen
    <2>2. panel'.tree = FirstTree(rows) /\ panel'.envs = ListedEnvs
      BY <2>1, OpenedIs DEF EnvsRead
    <2>3. IdsOf(panel'.tree) = ShowsIds(IdsOf(Tree(rows)))
      BY <1>1, <2>1, <2>2, OpenedShows
    <2>4. RowIds(panel'.envs) = RowIds(envs)
      <3>1. envs # <<>>
        <4>1. envs = <<>> => RowIds(envs) = <<>>
          BY DEF RowIds
        <4> QED BY <4>1 DEF AllWell, Distinct
      <3> QED BY <2>2, <3>1 DEF ListedEnvs
    <2>5. Shown(IdsOf(Tree(rows)), RowIds(envs), pending, panel)
              => Shown(IdsOf(Tree(rows)), RowIds(envs), pending', panel')
      BY <2>1, <2>3, <2>4 DEF Shown
    <2> QED BY <2>1, <2>5, StillWell
  <1>8. ASSUME NEW i \in DOMAIN panel.tree.requests, NEW c \in {0} \union DOMAIN panel.tree.requests[i].cases,
               Select(i, c)
        PROVE  AllWell'
    <2> DEFINE u == [w EXCEPT !.request = i, !.case = c]
    <2>1. panel' = WithEditor(u) /\ UNCHANGED <<rows, envs, job, pending>>
      BY <1>8 DEF Select
    <2> HIDE DEF w
    <2>2. i \in Nat /\ c \in Nat
      <3>1. panel.tree.requests[i].cases \in Seq(Items)
        BY <1>10, RequestHas
      <3> QED BY <1>10, <3>1
    <2>3. /\ u \in Frames /\ u.request = i /\ u.case = c /\ u.tree = w.tree /\ u.envs = w.envs /\ u.env = w.env
      BY <1>2, <2>2 DEF Frames
    <2> HIDE DEF u
    <2>4. u \in Panels
      BY <1>2, <1>3, <2>3 DEF Panels, Drawn
    <2>5. SameIds(panel', panel)
      BY <1>2, <2>1, <2>3, <2>4, WithEditorIs DEF SameIds
    <2> QED BY <1>1, <1>10, <2>1, <2>5, TextsWell
  <1>9. ASSUME NEW i \in DOMAIN panel.envs, SelectEnvironment(i)
        PROVE  AllWell'
    <2> DEFINE u == [w EXCEPT !.env = i, !.listed = Len(panel.envs)]
    <2>1. panel' = WithForm(u) /\ rows' = Persisted(w) /\ UNCHANGED <<envs, job, pending>>
      BY <1>9 DEF SelectEnvironment
    <2> HIDE DEF w
    <2>2. i \in Nat /\ Len(panel.envs) \in Nat
      BY <1>10
    <2>3. /\ u \in Frames /\ u.request = w.request /\ u.case = w.case /\ u.tree = w.tree /\ u.envs = w.envs
          /\ u.env = i
      BY <1>2, <2>2 DEF Frames
    <2> HIDE DEF u
    <2>4. u \in Panels
      BY <1>2, <1>3, <2>3 DEF Panels, Drawn
    <2>5. SameIds(panel', panel)
      BY <1>2, <2>1, <2>3, <2>4, WithFormIs DEF SameIds
    <2>6. rows' \in Seq(RowsTo(born.node)) /\ Alike(rows, rows')
      BY <2>1, <1>2, PersistedIs
    <2> QED BY <2>1, <2>5, <2>6, TextsWell
  <1> QED BY <1>4, <1>5, <1>6, <1>7, <1>8, <1>9

\* The editors are written out before the environment that is missing is.
LEMMA MissingWell ==
    ASSUME Typed, AllWell, NEW i, SelectMissing(i)
    PROVE  AllWell' /\ rows' \in Seq(RowsTo(born.node)) /\ UNCHANGED born
  <1> DEFINE w == Synced(panel)
             u == [w EXCEPT !.env = i]
  <1>1. panel' = u /\ rows' = Persisted(w) /\ UNCHANGED <<envs, job, pending, born>>
    BY DEF SelectMissing
  <1>2. w \in Panels /\ w \in Frames /\ SameIds(w, panel)
    BY SyncedIs DEF Typed, Panels
  <1> HIDE DEF w
  <1>3. u.tree = w.tree /\ u.envs = w.envs
    BY <1>2 DEF Frames
  <1> HIDE DEF u
  <1>4. SameIds(panel', panel)
    BY <1>1, <1>2, <1>3 DEF SameIds
  <1>5. rows' \in Seq(RowsTo(born.node)) /\ Alike(rows, rows')
    BY <1>1, <1>2, PersistedIs
  <1> QED BY <1>1, <1>4, <1>5, TextsWell

\* A command is given to a thread when there is no other.
LEMMA SpawnWell ==
    ASSUME Typed, AllWell, orderly', NEW steps, Spawn(steps), UNCHANGED <<rows, envs, pending>>,
           SameIds(panel', panel), Fits(Spots(rows), IdsOf(Tree(rows)), RowIds(envs), steps)
    PROVE  AllWell'
  <1> DEFINE R == Spots(rows)
             T == IdsOf(Tree(rows))
             E == RowIds(envs)
  <1>1. Idle
    BY DEF Spawn
  <1>2. PICK t \in Task : job' = [job EXCEPT ![t] = steps]
    BY DEF Spawn
  <1>3. job'[t] = steps /\ \A u \in Task : u # t => job'[u] = <<>>
    <2>1. job \in [Task -> Seq(Steps(born))] /\ \A u \in Task : job[u] = <<>>
      BY <1>1 DEF Typed, Idle
    <2> QED BY <1>2, <2>1
  <1>4. Shown(T, E, pending', panel') /\ \A r \in R : Above(R, r)
    <2>1. Well(R, T, E, pending, panel, <<>>)
      BY <1>1 DEF AllWell, R, T, E
    <2>2. Shown(T, E, pending, panel) /\ \A r \in R : Above(R, r)
      BY <2>1, FitsNone DEF Well
    <2> QED BY <2>2 DEF Shown, SameIds
  <1>5. Distinct(R, E) /\ Fits(R, T, E, steps)
    BY DEF AllWell, R, T, E
  <1>6. Spots(rows') = R /\ IdsOf(Tree(rows')) = T /\ RowIds(envs') = E
    BY DEF R, T, E
  <1> HIDE DEF R, T, E
  <1>7. Well(R, T, E, pending', panel', <<>>) /\ Well(R, T, E, pending', panel', steps)
    BY <1>4, <1>5, FitsNone DEF Well
  <1>8. Alone'
    BY <1>3 DEF Alone
  <1>9. \A u \in Task : job'[u] # <<>> => Well(R, T, E, pending', panel', job'[u])
    BY <1>3, <1>7
  <1> QED BY <1>5, <1>6, <1>7, <1>8, <1>9 DEF AllWell

\* A row with its parent, by their places.
LEMMA KindIs ==
    ASSUME RowsTyped, Distinct(Spots(rows), RowIds(envs)), \A r \in Spots(rows) : Above(Spots(rows), r),
           NEW id, Has(rows, id)
    PROVE  /\ Get(rows, id).kind \in {"folder", "endpoint", "case"}
           /\ \E q \in Spots(rows) : q.id = id /\ q.kind = Get(rows, id).kind
           /\ \A q \in Spots(rows) : q.id = id => q.kind = Get(rows, id).kind
           /\ ParentOf(id) # None =>
                  \E q \in Spots(rows) : /\ q.id = ParentOf(id)
                                         /\ q.kind = IF Get(rows, id).kind = "case" THEN "endpoint" ELSE "folder"
  <1>1. born.node \in Nat /\ rows \in Seq(RowsTo(born.node))
    BY DEF RowsTyped
  <1>2. PICK i \in DOMAIN rows : Get(rows, id) = rows[i] /\ rows[i].id = id
    BY GetIs
  <1> DEFINE r == Spot(rows[i])
  <1>3. r.id = id /\ r.kind = Get(rows, id).kind /\ r.parent = Get(rows, id).parent
    BY <1>2 DEF Spot
  <1>4. r \in Spots(rows)
    BY <1>1, SpotsAre
  <1> HIDE DEF r
  <1>5. r.kind \in {"folder", "endpoint", "case"}
    BY <1>1, <1>4, SpotsAre
  <1>6. \A q \in Spots(rows) : q.id = id => q.kind = Get(rows, id).kind
    BY <1>3, <1>4 DEF Distinct
  <1>7. Above(Spots(rows), r)
    BY <1>4
  <1>8. ParentOf(id) # None => ParentOf(id) = r.parent
    BY <1>3 DEF ParentOf
  <1> QED BY <1>3, <1>4, <1>5, <1>6, <1>7, <1>8 DEF Above

\* Where the panel puts a new row there is what belongs above it.
LEMMA PlaceAbove ==
    ASSUME Typed, Distinct(Spots(rows), RowIds(envs)), \A r \in Spots(rows) : Above(Spots(rows), r),
           NEW new \in {"folder", "endpoint", "case"}, NEW menu, Place(new, menu) # None
    PROVE  \E q \in Spots(rows) : /\ q.id = Place(new, menu)
                                  /\ q.kind = IF new = "case" THEN "endpoint" ELSE "folder"
  <1> DEFINE k == Get(rows, menu).kind
             p == ParentOf(menu)
  <1>0. RowsTyped
    BY DEF Typed, RowsTyped
  <1>1. menu # None /\ Has(rows, menu)
    BY DEF Place
  <1>2. /\ k \in {"folder", "endpoint", "case"}
        /\ \E q \in Spots(rows) : q.id = menu /\ q.kind = k
        /\ p # None => \E q \in Spots(rows) : /\ q.id = p
                                              /\ q.kind = IF k = "case" THEN "endpoint" ELSE "folder"
    BY <1>0, <1>1, KindIs
  <1>3. /\ k = "folder" => Place(new, menu) = IF new = "case" THEN None ELSE menu
        /\ k = "endpoint" => Place(new, menu) = IF new = "case" THEN menu ELSE p
        /\ k = "case" => Place(new, menu) = IF new = "case" THEN p ELSE ParentOf(p)
    BY <1>1 DEF Place
  <1> HIDE DEF k, p
  <1>4. CASE k = "folder"
    BY <1>2, <1>3, <1>4
  <1>5. CASE k = "endpoint"
    BY <1>2, <1>3, <1>5
  <1>6. CASE k = "case" /\ new = "case"
    BY <1>2, <1>3, <1>6
  <1>7. CASE k = "case" /\ new # "case"
    <2>1. Place(new, menu) = ParentOf(p) /\ ParentOf(p) # None
      BY <1>3, <1>7
    <2>2. p # None /\ Has(rows, p)
      BY <2>1 DEF ParentOf
    <2>3. Get(rows, p).kind = "endpoint"
      <3>1. \E q \in Spots(rows) : q.id = p /\ q.kind = "endpoint"
        BY <1>2, <1>7, <2>2
      <3>2. \A q \in Spots(rows) : q.id = p => q.kind = Get(rows, p).kind
        BY <1>0, <2>2, KindIs
      <3> QED BY <3>1, <3>2
    <2> QED BY <1>0, <1>7, <2>1, <2>2, <2>3, KindIs
  <1> QED BY <1>2, <1>4, <1>5, <1>6, <1>7

\* What a command finds that is given to a thread now.
LEMMA Quiet ==
    ASSUME Typed, AllWell, orderly', NEW steps, Spawn(steps)
    PROVE  /\ \A r \in Spots(rows) : Above(Spots(rows), r)
           /\ Distinct(Spots(rows), RowIds(envs))
           /\ \A q \in Spots(rows) : q.id \in Nat /\ q.id <= born.node
           /\ \A e \in ToSet(RowIds(envs)) : e < born.env + 1
           /\ born.node \in Nat /\ born.env \in Nat
  <1>1. Idle
    BY DEF Spawn
  <1>2. /\ born.node \in Nat /\ rows \in Seq(RowsTo(born.node))
        /\ born.env \in Nat /\ envs \in Seq(EnvsTo(born.env))
    BY DEF Typed
  <1>3. \A r \in Spots(rows) : Above(Spots(rows), r)
    <2>1. Well(Spots(rows), IdsOf(Tree(rows)), RowIds(envs), pending, panel, <<>>)
      BY <1>1 DEF AllWell
    <2> QED BY <2>1, FitsNone DEF Well
  <1>4. ASSUME NEW e \in ToSet(RowIds(envs)) PROVE e < born.env + 1
    <2>1. PICK i \in DOMAIN envs : e = envs[i].id
      BY <1>2, EnvIds
    <2>2. envs[i] \in EnvsTo(born.env)
      BY <1>2
    <2>3. e \in 0..born.env
      BY <1>2, <2>1, <2>2, EnvHas
    <2> QED BY <1>2, <2>3
  <1>5. \A q \in Spots(rows) : q.id \in Nat /\ q.id <= born.node
    BY <1>2, SpotsAre
  <1> QED BY <1>2, <1>3, <1>4, <1>5 DEF AllWell

LEMMA RowCommandsWell ==
    ASSUME Typed, AllWell, orderly', NEW menu,
           CreateEndpoint(menu) \/ CreateFolder(menu) \/ CreateCase(menu) \/ DeleteItem(menu)
           \/ Rename(menu) \/ ImportCollection
    PROVE  AllWell'
  <1> DEFINE R == Spots(rows)
             T == IdsOf(Tree(rows))
             E == RowIds(envs)
  <1>1. UNCHANGED <<rows, envs, pending, panel>>
    BY DEF CreateEndpoint, CreateFolder, CreateCase, DeleteItem, Rename, ImportCollection
  <1>2. SameIds(panel', panel)
    BY <1>1 DEF SameIds
  <1>3. ASSUME NEW steps, Spawn(steps), Fits(R, T, E, steps) PROVE AllWell'
    BY <1>1, <1>2, <1>3, SpawnWell
  <1>4. ASSUME NEW row, row.id = born.node + 1, row.kind # "case", Spawn(CreateCommand(row)),
               row.parent # None => \E q \in R : q.id = row.parent /\ q.kind = "folder"
        PROVE  AllWell'
    <2>1. /\ \A r \in R : Above(R, r)
          /\ \A q \in R : q.id \in Nat /\ q.id <= born.node
          /\ born.node \in Nat
      BY <1>4, Quiet
    <2>2. Above(R, Spot(row))
      <3>1. Spot(row).parent = row.parent /\ Spot(row).kind = row.kind
        BY DEF Spot
      <3> QED BY <1>4, <3>1 DEF Above
    <2>3. \A q \in R : q.id < row.id
      BY <1>4, <2>1
    <2> HIDE DEF R, T, E
    <2>4. Begins(R, T, E, CreateCommand(row))
      BY <2>1, <2>2, <2>3, FitsCreate
    <2> QED BY <1>3, <1>4, <2>4 DEF Begins
  <1>5. ASSUME NEW s, s.do \in {"parent", "list", "read"}, Spawn(<<s>>),
               s.do = "parent" => s.id = born.node + 1
        PROVE  AllWell'
    <2>1. /\ \A r \in R : Above(R, r)
          /\ \A q \in R : q.id \in Nat /\ q.id <= born.node
          /\ born.node \in Nat
      BY <1>5, Quiet
    <2>2. s.do = "parent" => \A q \in R : q.id < s.id
      BY <1>5, <2>1
    <2> HIDE DEF R, T, E
    <2>3. Fits(R, T, E, <<s>>)
      BY <1>5, <2>1, <2>2, FitsOne DEF Starters, Reloading
    <2> QED BY <1>3, <1>5, <2>3
  <1>6. ASSUME NEW new \in {"folder", "endpoint"}, NEW steps, Spawn(steps), Place(new, menu) # None
        PROVE  \E q \in R : q.id = Place(new, menu) /\ q.kind = "folder"
    <2>1. /\ \A r \in R : Above(R, r)
          /\ Distinct(R, E)
      BY <1>6, Quiet
    <2> QED BY <1>6, <2>1, PlaceAbove
  <1>7. CASE CreateEndpoint(menu)
    <2> DEFINE row == Endpoint(born.node + 1, Place("endpoint", menu))
    <2>1. Spawn(CreateCommand(row))
      BY <1>7 DEF CreateEndpoint
    <2>2. row.id = born.node + 1 /\ row.kind = "endpoint" /\ row.parent = Place("endpoint", menu)
      BY DEF Endpoint, Row
    <2> HIDE DEF row, R, T, E
    <2> QED BY <1>4, <1>6, <2>1, <2>2
  <1>8. CASE CreateFolder(menu)
    <2> DEFINE row == Folder(born.node + 1, Place("folder", menu))
    <2>1. Spawn(CreateCommand(row))
      BY <1>8 DEF CreateFolder
    <2>2. row.id = born.node + 1 /\ row.kind = "folder" /\ row.parent = Place("folder", menu)
      BY DEF Folder, Row
    <2> HIDE DEF row, R, T, E
    <2> QED BY <1>4, <1>6, <2>1, <2>2
  <1>9. CASE CreateCase(menu)
    <2> DEFINE s == [do |-> "parent", parent |-> Place("case", menu), id |-> born.node + 1]
    <2>1. Spawn(<<s>>) /\ s.do = "parent" /\ s.id = born.node + 1
      BY <1>9 DEF CreateCase, CaseCommand
    <2> HIDE DEF s
    <2> QED BY <1>5, <2>1
  <1>10. CASE DeleteItem(menu)
    <2> DEFINE s == [do |-> "list", id |-> menu]
    <2>1. Spawn(<<s>>) /\ s.do = "list"
      BY <1>10 DEF DeleteItem, DeleteCommand
    <2> HIDE DEF s
    <2> QED BY <1>5, <2>1
  <1>11. CASE Rename(menu)
    <2> DEFINE s == [do |-> "read", id |-> menu]
    <2>1. Spawn(<<s>>) /\ s.do = "read"
      BY <1>11 DEF Rename, RenameCommand
    <2> HIDE DEF s
    <2> QED BY <1>5, <2>1
  <1>12. CASE ImportCollection
    <2> DEFINE row == Folder(born.node + 1, None)
               row2 == Endpoint(born.node + 2, born.node + 1)
    <2>1. Spawn(ImportCommand(row, row2))
      BY <1>12 DEF ImportCollection
    <2>2. /\ \A r \in R : Above(R, r)
          /\ \A q \in R : q.id \in Nat /\ q.id <= born.node
          /\ born.node \in Nat
      BY <2>1, Quiet
    <2>3. /\ row.id = born.node + 1 /\ row.parent = None /\ row.kind = "folder"
          /\ row2.id = row.id + 1 /\ row2.parent = row.id /\ row2.kind = "endpoint"
      BY <2>2 DEF Folder, Endpoint, Row
    <2> HIDE DEF row, row2, R, T, E
    <2>4. row.id \in Nat /\ (\A q \in R : q.id < row.id) /\ \A q \in R : q.id \in Nat
      BY <2>2, <2>3
    <2>5. Fits(R, T, E, ImportCommand(row, row2))
      BY <2>2, <2>3, <2>4, FitsImport
    <2> QED BY <1>3, <2>1, <2>5
  <1> QED BY <1>7, <1>8, <1>9, <1>10, <1>11, <1>12

LEMMA EnvCommandsWell ==
    ASSUME Typed, AllWell, orderly',
           CreateEnvironment \/ DuplicateEnvironment \/ DeleteEnvironment \/ ImportEnvironments
           \/ (\E distinct \in BOOLEAN : SaveEnvironment(distinct))
    PROVE  AllWell'
  <1> DEFINE R == Spots(rows)
             T == IdsOf(Tree(rows))
             E == RowIds(envs)
  <1>1. UNCHANGED <<rows, envs, pending>>
    BY DEF CreateEnvironment, DuplicateEnvironment, DeleteEnvironment, ImportEnvironments, SaveEnvironment
  <1>2. SameIds(panel', panel)
    <2>1. panel' = panel \/ panel' = Synced(panel)
      BY DEF CreateEnvironment, DuplicateEnvironment, DeleteEnvironment, ImportEnvironments, SaveEnvironment
    <2>2. SameIds(Synced(panel), panel)
      BY SyncedIs DEF Typed
    <2> QED BY <2>1, <2>2 DEF SameIds
  <1>3. ASSUME NEW steps, Spawn(steps), Fits(R, T, E, steps) PROVE AllWell'
    BY <1>1, <1>2, <1>3, SpawnWell
  <1>4. ASSUME NEW what \in {"duplicate", "drop", "save", "importenvs"}, NEW i, NEW x,
               Spawn(EnvCommand(what, i, x)), what = "duplicate" => x = born.env + 1
        PROVE  AllWell'
    <2> DEFINE s == [do |-> what, at |-> i, x |-> x]
    <2>1. EnvCommand(what, i, x) = <<s>> /\ s.do = what /\ s.x = x
      BY DEF EnvCommand
    <2>2. /\ \A r \in R : Above(R, r)
          /\ \A e \in ToSet(E) : e < born.env + 1
      BY <1>4, Quiet
    <2> HIDE DEF s, R, T, E
    <2>3. Fits(R, T, E, <<s>>)
      BY <1>4, <2>1, <2>2, FitsOne DEF Starters, Reloading
    <2> QED BY <1>3, <1>4, <2>1, <2>3
  <1>5. CASE CreateEnvironment
    <2> DEFINE e == Env(born.env + 1, born.env + 1, None)
    <2>1. Spawn(NewEnv(e) \o Reload)
      BY <1>5 DEF CreateEnvironment
    <2>2. e.id = born.env + 1
      BY DEF Env
    <2>3. /\ \A r \in R : Above(R, r)
          /\ \A y \in ToSet(E) : y < born.env + 1
      BY <2>1, Quiet
    <2> HIDE DEF e, R, T, E
    <2>4. Begins(R, T, E, NewEnv(e) \o Reload)
      BY <2>2, <2>3, FitsNewEnv
    <2> QED BY <1>3, <2>1, <2>4 DEF Begins
  <1>6. CASE DuplicateEnvironment
    BY <1>4, <1>6 DEF DuplicateEnvironment
  <1>7. CASE DeleteEnvironment
    BY <1>4, <1>7 DEF DeleteEnvironment
  <1>8. CASE ImportEnvironments
    BY <1>4, <1>8 DEF ImportEnvironments
  <1>9. ASSUME NEW distinct \in BOOLEAN, SaveEnvironment(distinct) PROVE AllWell'
    BY <1>4, <1>9 DEF SaveEnvironment
  <1> QED BY <1>5, <1>6, <1>7, <1>8, <1>9

LEMMA OrderlyInit == WorkspaceInit => Orderly
  <1> SUFFICES ASSUME WorkspaceInit, orderly PROVE AllWell
    BY DEF Orderly
  <1> DEFINE R == Spots(rows)
             T == IdsOf(Tree(rows))
             E == RowIds(envs)
  <1>1. Typed
    BY TypedInit
  <1>2. /\ rows = Stored /\ Intact(rows) /\ \A i \in DOMAIN rows : rows[i].id = i
        /\ envs = <<Env(1, 1, 1)>> /\ pending.tree = <<>> /\ pending.envs = <<>>
        /\ panel = Opened(FirstTree(rows), ListedEnvs) /\ Known /\ \A t \in Task : job[t] = <<>>
    BY WorkspaceAssumption DEF WorkspaceInit, Nothing
  <1>3. born.node \in Nat /\ rows \in Seq(RowsTo(born.node))
    BY <1>1 DEF Typed
  <1>4. ASSUME NEW r \in R PROVE Above(R, r)
    <2>1. PICK i \in DOMAIN rows : r = Spot(rows[i])
      BY <1>3, SpotsAre
    <2>2. Placed(rows, rows[i]) /\ r.parent = rows[i].parent /\ r.kind = rows[i].kind
      BY <1>2, <2>1 DEF Intact, Spot
    <2>3. CASE r.parent # None
      <3>1. /\ Has(rows, r.parent)
            /\ Get(rows, r.parent).kind = IF r.kind = "case" THEN "endpoint" ELSE "folder"
        BY <2>2, <2>3 DEF Placed
      <3>2. PICK k \in DOMAIN rows : Get(rows, r.parent) = rows[k] /\ rows[k].id = r.parent
        BY <3>1, GetIs
      <3>3. Spot(rows[k]) \in R /\ Spot(rows[k]).id = r.parent
            /\ Spot(rows[k]).kind = IF r.kind = "case" THEN "endpoint" ELSE "folder"
        BY <1>3, <3>1, <3>2, SpotsAre DEF Spot
      <3> HIDE DEF R
      <3> QED BY <3>3 DEF Above
    <2> QED BY <2>3 DEF Above
  <1>5. Distinct(R, E)
    <2>1. \A r \in R : r.id \in DOMAIN rows /\ r = Spot(rows[r.id])
      <3>1. ASSUME NEW r \in R PROVE r.id \in DOMAIN rows /\ r = Spot(rows[r.id])
        <4>1. PICK i \in DOMAIN rows : r = Spot(rows[i])
          BY <1>3, SpotsAre
        <4>2. r.id = i
          BY <1>2, <4>1 DEF Spot
        <4> QED BY <4>1, <4>2
      <3> QED BY <3>1
    <2>2. DOMAIN E = {1}
      BY <1>2 DEF RowIds
    <2> HIDE DEF R, E
    <2>3. \A i, k \in DOMAIN E : i = k
      BY <2>2
    <2>4. E # <<>>
      BY <2>2
    <2>5. \A r, q \in R : r.id = q.id => r.kind = q.kind
      BY <2>1
    <2> QED BY <2>3, <2>4, <2>5 DEF Distinct
  <1>6. Shown(T, E, pending, panel)
    <2>1. panel.tree = FirstTree(rows) /\ panel.envs = ListedEnvs
      BY <1>1, <1>2, OpenedIs DEF EnvsRead
    <2>2. IdsOf(panel.tree) = ShowsIds(T)
      BY <1>2, <1>3, <2>1, OpenedShows
    <2>3. ListedEnvs = envs
      BY <1>2 DEF ListedEnvs
    <2> QED BY <1>2, <2>1, <2>2, <2>3 DEF Shown
  <1> HIDE DEF R, T, E
  <1>7. Well(R, T, E, pending, panel, <<>>)
    BY <1>4, <1>6, FitsNone DEF Well
  <1> QED BY <1>2, <1>5, <1>7 DEF AllWell, Alone, R, T, E

\* What has once overlapped stays so.
LEMMA StaysOrderly == [WorkspaceNext]_workspaceVars /\ orderly' => orderly
  <1> SUFFICES ASSUME [WorkspaceNext]_workspaceVars, orderly' PROVE orderly
    OBVIOUS
  <1>1. CASE UNCHANGED workspaceVars
    BY <1>1 DEF workspaceVars
  <1>2. ASSUME NEW t \in Task, Commands(t) PROVE orderly
    BY <1>2 DEF Commands, Insert, CheckRow, ReadParent, ListDoomed, Delete, ReadRow, WriteRow, InsertEnv,
                CheckEnv, PickEnv, DropEnv, WriteEnv, ImportEnvs, ReadTree, ReadEnvs, LeaveForPanel
  <1>3. CASE TakeGroups \/ TakeEnvs
    BY <1>3 DEF TakeGroups, TakeEnvs
  <1>4. CASE User
    BY <1>4 DEF User, SyncAndSave, SaveTable, Select, SelectEnvironment, ResetEnvironment, Reopen, Spawn,
                CreateEndpoint, CreateFolder, CreateCase, DeleteItem, Rename, ImportCollection,
                CreateEnvironment, DuplicateEnvironment, DeleteEnvironment, SaveEnvironment,
                ImportEnvironments
  <1>5. ASSUME NEW i, SelectMissing(i) PROVE orderly
    BY <1>5 DEF SelectMissing
  <1> QED BY <1>1, <1>2, <1>3, <1>4, <1>5 DEF WorkspaceNext

\* What holds after a panic too.
Remains == RowsTyped /\ Orderly

LEMMA RowsTypedNext == Runs /\ RowsTyped /\ [WorkspaceNext]_workspaceVars => RowsTyped'
  <1> SUFFICES ASSUME Runs, RowsTyped, [WorkspaceNext]_workspaceVars PROVE RowsTyped'
    OBVIOUS
  <1>1. CASE ~panicked'
    <2>1. Typed'
      BY <1>1, TypedNext DEF Runs
    <2> QED BY <2>1 DEF Typed, RowsTyped
  <1>2. CASE UNCHANGED workspaceVars
    BY <1>2 DEF workspaceVars, RowsTyped
  <1>3. CASE panicked' /\ WorkspaceNext
    <2>1. ~panicked /\ Typed
      BY <1>3 DEF WorkspaceNext, Runs
    <2>2. PICK i : SelectMissing(i)
      BY <1>3, <2>1 DEF WorkspaceNext
    <2>3. panel \in Panels
      BY <2>1 DEF Typed
    <2>4. Synced(panel) \in Panels
      BY <2>3, SyncedIs
    <2>5. rows' = Persisted(Synced(panel)) /\ born' = born
      BY <2>2 DEF SelectMissing
    <2> QED BY <2>1, <2>4, <2>5, PersistedIs DEF RowsTyped
  <1> QED BY <1>1, <1>2, <1>3

LEMMA OrderlyNext == Runs /\ Orderly /\ [WorkspaceNext]_workspaceVars => Orderly'
  <1> SUFFICES ASSUME Runs, Orderly, [WorkspaceNext]_workspaceVars, orderly' PROVE AllWell'
    BY DEF Orderly
  <1>1. AllWell
    BY StaysOrderly DEF Orderly
  <1>2. CASE UNCHANGED workspaceVars
    <2>1. UNCHANGED <<rows, envs, job, pending, panel>>
      BY <1>2 DEF workspaceVars
    <2> QED BY <1>1, <2>1, StillWell
  <1> SUFFICES ASSUME WorkspaceNext PROVE AllWell'
    BY <1>2
  <1>6. Typed
    BY DEF WorkspaceNext, Runs
  <1>3. ASSUME NEW t \in Task, Commands(t) PROVE AllWell'
    BY <1>1, <1>3, <1>6, RowStepsWell, RowStartersWell, ReloadStepsWell, EnvStepsWell, EnvStartersWell DEF Commands
  <1>4. CASE TakeGroups \/ TakeEnvs
    BY <1>1, <1>4, <1>6, TakesWell
  <1>7. ASSUME NEW i, SelectMissing(i) PROVE AllWell'
    BY <1>1, <1>6, <1>7, MissingWell
  <1>5. CASE User
    <2>1. ASSUME NEW menu \in MenuIds \union {None},
                 CreateEndpoint(menu) \/ CreateFolder(menu) \/ CreateCase(menu)
                 \/ DeleteItem(menu) \/ Rename(menu)
          PROVE  AllWell'
      BY <1>1, <1>6, <2>1, RowCommandsWell
    <2>2. CASE ImportCollection
      BY <1>1, <1>6, <2>2, RowCommandsWell
    <2>3. CASE SyncAndSave \/ SaveTable \/ ResetEnvironment \/ Reopen
               \/ (\E i \in DOMAIN panel.tree.requests :
                       \E c \in {0} \union DOMAIN panel.tree.requests[i].cases : Select(i, c))
               \/ (\E i \in DOMAIN panel.envs : SelectEnvironment(i))
      BY <1>1, <1>6, <2>3, PanelActsWell
    <2>4. CASE CreateEnvironment \/ DuplicateEnvironment \/ DeleteEnvironment \/ ImportEnvironments
               \/ (\E distinct \in BOOLEAN : SaveEnvironment(distinct))
      BY <1>1, <1>6, <2>4, EnvCommandsWell
    <2> QED BY <1>5, <2>1, <2>2, <2>3, <2>4 DEF User
  <1> QED BY <1>3, <1>4, <1>5, <1>7 DEF WorkspaceNext

-----------------------------------------------------------------------------
(* What holds of the workspace.                                            *)

\* Of commands that do not overlap there is at most one under way; each of its steps
\* finds the rows and environments it takes for granted, the rows it does not itself
\* delete have their parents, and until it begins the panel shows, or is left, what
\* is stored.
THEOREM AlwaysOrderly == WorkspaceSpec => []Remains
  <1>1. WorkspaceInit => Remains
    BY TypedInit, OrderlyInit DEF Remains, RowsTyped, Typed
  <1>2. Runs /\ Remains /\ [WorkspaceNext]_workspaceVars => Remains'
    BY OrderlyNext, RowsTypedNext DEF Remains
  <1> QED BY <1>1, <1>2, WorkspaceTyped, PTL DEF WorkspaceSpec

\* Once the last of several commands that did not overlap is done and its result
\* taken, the requests, cases, folders and environments the panel shows are those of
\* the database, in its order.
THEOREM PanelShowsStored == WorkspaceSpec => []ShownIsStored
  <1>1. Remains => ShownIsStored
    <2> SUFFICES ASSUME RowsTyped, Orderly, orderly, Idle, pending = Nothing
                 PROVE  /\ IdsOf(panel.tree)
                               = IdsOf(IF Tree(rows).requests = <<>> THEN EmptyTree ELSE Tree(rows))
                        /\ RowIds(panel.envs) = RowIds(ListedEnvs)
      BY DEF ShownIsStored, Remains
    <2>1. /\ IdsOf(panel.tree) = ShowsIds(IdsOf(Tree(rows))) /\ RowIds(panel.envs) = RowIds(envs)
          /\ RowIds(envs) # <<>>
      <3>1. Shown(IdsOf(Tree(rows)), RowIds(envs), pending, panel) /\ RowIds(envs) # <<>>
        BY FitsNone DEF Orderly, AllWell, Well, Distinct
      <3>2. pending.tree = <<>> /\ pending.envs = <<>>
        BY DEF Nothing
      <3> QED BY <3>1, <3>2 DEF Shown
    <2>2. IdsOf(Shows(Tree(rows))) = ShowsIds(IdsOf(Tree(rows)))
      <3>1. Tree(rows) \in Trees
        BY TreeIs DEF RowsTyped
      <3> QED BY <3>1, ShowsIdsIs
    <2>3. ListedEnvs = envs
      <3>1. envs # <<>>
        BY <2>1 DEF RowIds
      <3> QED BY <3>1 DEF ListedEnvs
    <2> QED BY <2>1, <2>2, <2>3 DEF Shows
  <1> QED BY <1>1, AlwaysOrderly, PTL

\* Commands that do not overlap leave no row that no tree shows: a row is created under
\* a parent that is still there, and a delete takes everything under what it deletes.
THEOREM NoRowIsOrphaned == WorkspaceSpec => []NoOrphans
  <1>1. Remains => NoOrphans
    <2> SUFFICES ASSUME RowsTyped, Orderly, orderly, Idle, NEW i \in DOMAIN rows, rows[i].parent # None
                 PROVE  /\ Has(rows, rows[i].parent)
                        /\ Get(rows, rows[i].parent).kind
                               = IF rows[i].kind = "case" THEN "endpoint" ELSE "folder"
      BY DEF NoOrphans, Intact, Placed, Remains
    <2> DEFINE p == rows[i].parent
               k == IF rows[i].kind = "case" THEN "endpoint" ELSE "folder"
    <2>1. (\A r \in Spots(rows) : Above(Spots(rows), r)) /\ Distinct(Spots(rows), RowIds(envs))
      BY FitsNone DEF Orderly, AllWell, Well
    <2>2. born.node \in Nat /\ rows \in Seq(RowsTo(born.node))
      BY DEF RowsTyped
    <2>3. Spot(rows[i]) \in Spots(rows) /\ Spot(rows[i]).parent = p /\ Spot(rows[i]).kind = rows[i].kind
      BY <2>2, SpotsAre DEF Spot
    <2>4. PICK q \in Spots(rows) : q.id = p /\ q.kind = k
      BY <2>1, <2>3 DEF Above
    <2>5. Has(rows, p)
      BY <2>2, <2>4, SpotsAre
    <2> HIDE DEF p, k
    <2>6. Get(rows, p).kind = k
      BY <2>1, <2>4, <2>5, KindIs
    <2> QED BY <2>5, <2>6 DEF p, k
  <1> QED BY <1>1, AlwaysOrderly, PTL

\* Commands that do not overlap never delete the last environment: the one that does
\* the deleting has seen another, and nothing else was under way.
THEOREM LastEnvironmentKept == WorkspaceSpec => []KeepsOne
  <1>1. Remains => KeepsOne
    <2> SUFFICES ASSUME Orderly, orderly PROVE envs # <<>>
      BY DEF KeepsOne, Remains
    <2>1. RowIds(envs) # <<>>
      BY DEF Orderly, AllWell, Distinct
    <2>2. envs = <<>> => RowIds(envs) = <<>>
      BY DEF RowIds
    <2> QED BY <2>1, <2>2
  <1> QED BY <1>1, AlwaysOrderly, PTL
=============================================================================
