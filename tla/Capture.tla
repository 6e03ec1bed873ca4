-------------------------------- MODULE Capture --------------------------------
(***************************************************************************)
(* The capture panel of qingqi-feature-http-capture (view.rs) over the      *)
(* store of exchanges (store.rs) that the handlers of the proxy threads     *)
(* fill (proxy_handler.rs).  The panel lists a page of the store, reads it  *)
(* anew when its filter or page changes and when an event tells of a new    *)
(* exchange, and runs one such task at a time: a new one drops the last,    *)
(* whatever it was at.  An exchange is its id and whether its status is one *)
(* of an error, the one filter kept here.                                   *)
(***************************************************************************)
EXTENDS CaptureEngine, SequencesExt

CONSTANTS PageSize,
          MaxRows, MaxClicks, MaxFaults    \* bounds: exchanges recorded, what the
                                           \* user does, statements that fail

\* The task of the panel: it reads a page, or clears the store.
Task == [do : {"read"}, only : BOOLEAN, from : Nat] \union [do : {"clear"}]

ASSUME PageAssumption == PageSize \in Nat \ {0} /\ None \notin Task

VARIABLES rows,      \* captured_exchanges, oldest first
          born,      \* the last id given out
          view,      \* the panel, or None while its window is closed
          loose,     \* clears whose task was dropped while they were running
          unseen,    \* history variable: such a clear came after the last read
          clicks, faults

panelVars == <<rows, born, view, loose, unseen, clicks, faults>>
vars == <<engineVars, panelVars>>

Matching(stored, only) == SelectSeq(stored, LAMBDA r : only => r.bad)
Page(stored, only, from) ==
    LET found == Reverse(Matching(stored, only))
        last  == IF from + PageSize < Len(found) THEN from + PageSize ELSE Len(found)
    IN  [shown |-> IF from < last THEN SubSeq(found, from + 1, last) ELSE <<>>,
         total |-> Len(found)]
Nowhere == [shown |-> <<>>, total |-> 0]
Error   == [shown |-> None, total |-> 0]

\* The panel with the task of refresh_from_store, which has got nothing yet, and a
\* panel just made, whose event task has not run yet.
Refreshing(v) ==
    [v EXCEPT !.loading = TRUE, !.failed = FALSE, !.got = None,
              !.task = [do |-> "read", only |-> v.only, from |-> v.from]]
NewPanel ==
    Refreshing([list |-> Nowhere, only |-> FALSE, from |-> 0,
                selected |-> None, detail |-> None, fetch |-> None,
                loading |-> FALSE, failed |-> FALSE, task |-> None, got |-> None,
                listens |-> FALSE, heard |-> 0, batch |-> FALSE])

Init ==
    /\ EngineInit
    /\ rows = <<>> /\ born = 0 /\ view = None
    /\ loose = 0 /\ unseen = FALSE /\ clicks = 0 /\ faults = 0

\* A task is dropped: a clear the pool has not begun is lost, one that has begun
\* will end unheard.
Drops ==
    LET clear == view # None /\ view.task # None /\ view.task.do = "clear"
    IN  \E begun \in BOOLEAN :
            loose' = loose + (IF clear /\ view.got = None /\ begun THEN 1 ELSE 0)

Published(v) == IF v # None /\ v.listens THEN [v EXCEPT !.heard = @ + 1] ELSE v

Fault == faults < MaxFaults /\ faults' = faults + 1

-----------------------------------------------------------------------------
(* The proxy threads: capture_and_store.                                    *)

Record(i) ==
    /\ proxy[i].pc = "serving" /\ born < MaxRows
    /\ proxy' = [proxy EXCEPT ![i].owes = @ + 1]
    /\ \/ /\ born' = born + 1
          /\ \E bad \in BOOLEAN : rows' = Append(rows, [id |-> born + 1, bad |-> bad])
          /\ UNCHANGED faults
       \/ Fault /\ UNCHANGED <<born, rows>>
    /\ UNCHANGED <<engine, starting, view, loose, unseen, clicks>>

Announce(i) ==
    /\ proxy[i].owes > 0
    /\ proxy' = [proxy EXCEPT ![i].owes = @ - 1]
    /\ view' = Published(view)
    /\ UNCHANGED <<engine, starting, rows, born, loose, unseen, clicks, faults>>

-----------------------------------------------------------------------------
(* The tasks of the panel: a part on the pool, then one on the UI thread.   *)

Doing(do)  == view # None /\ view.task # None /\ view.task.do = do
Got(x)     == view' = [view EXCEPT !.got = x]

\* The query and the count, under the lock of the store.  The event task was
\* spawned first and has run, and subscribed, before this task starts.
ReadPage ==
    /\ Doing("read") /\ view.got = None /\ view.listens
    /\ \/ Got(Page(rows, view.task.only, view.task.from)) /\ unseen' = FALSE /\ UNCHANGED faults
       \/ Got(Error) /\ Fault /\ UNCHANGED unseen
    /\ UNCHANGED <<engineVars, rows, born, loose, clicks>>

ShowPage ==
    /\ Free /\ Doing("read") /\ view.got # None
    /\ view' = [view EXCEPT !.task = None, !.got = None, !.loading = FALSE,
                            !.selected = None, !.detail = None,
                            !.failed = view.got.shown = None,
                            !.list = IF view.got.shown = None THEN Nowhere ELSE view.got]
    /\ UNCHANGED <<engineVars, rows, born, loose, unseen, clicks, faults>>

ClearStore ==
    /\ Doing("clear") /\ view.got = None
    /\ \/ Got("done") /\ rows' = <<>> /\ UNCHANGED faults
       \/ Got("error") /\ Fault /\ UNCHANGED rows
    /\ UNCHANGED <<engineVars, born, loose, unseen, clicks>>

LooseClear ==
    /\ loose > 0 /\ loose' = loose - 1
    /\ rows' = <<>> /\ unseen' = TRUE
    /\ UNCHANGED <<engineVars, born, view, clicks, faults>>

EndClear ==
    /\ Free /\ Doing("clear") /\ view.got # None
    /\ view' = Refreshing(view)
    /\ UNCHANGED <<engineVars, rows, born, loose, unseen, clicks, faults>>

ReadDetail ==
    /\ view # None /\ view.fetch # None /\ ~view.fetch.read
    /\ LET id == view.fetch.id
       IN  view' = [view EXCEPT !.fetch.read = TRUE, !.fetch.got =
                       IF \E r \in ToSet(rows) : r.id = id THEN id ELSE None]
    /\ UNCHANGED <<engineVars, rows, born, loose, unseen, clicks, faults>>

\* (Fault: whatever is selected by now.)
ShowDetailAnyway ==
    /\ Free /\ view # None /\ view.fetch # None /\ view.fetch.read
    /\ view' = [view EXCEPT !.fetch = None, !.detail = view.fetch.got]
    /\ UNCHANGED <<engineVars, rows, born, loose, unseen, clicks, faults>>

ShowDetail ==
    /\ Free /\ view # None /\ view.fetch # None /\ view.fetch.read
    /\ view' = [view EXCEPT !.fetch = None,
                            !.detail = IF view.selected = view.fetch.id THEN view.fetch.got
                                       ELSE @]
    /\ UNCHANGED <<engineVars, rows, born, loose, unseen, clicks, faults>>

-----------------------------------------------------------------------------
(* The event task: it subscribes, collects events for 80 ms from the first, *)
(* and has the panel refresh.                                               *)

Listen ==
    /\ Free /\ view # None /\ ~view.listens
    /\ view' = [view EXCEPT !.listens = TRUE]
    /\ UNCHANGED <<engineVars, rows, born, loose, unseen, clicks, faults>>

Collect ==
    /\ view # None /\ view.heard > 0 /\ ~view.batch
    /\ \E left \in 0..view.heard - 1 :
           view' = [view EXCEPT !.batch = TRUE, !.heard = left]
    /\ UNCHANGED <<engineVars, rows, born, loose, unseen, clicks, faults>>

\* (Fault: a panel that is loading already does not load again.)
HandleUnlessLoading ==
    /\ Free /\ view # None /\ view.batch
    /\ view' = IF view.loading THEN [view EXCEPT !.batch = FALSE]
               ELSE Refreshing([view EXCEPT !.batch = FALSE])
    /\ Drops
    /\ UNCHANGED <<engineVars, rows, born, unseen, clicks, faults>>

HandleEvents ==
    /\ Free /\ view # None /\ view.batch
    /\ view' = Refreshing([view EXCEPT !.batch = FALSE])
    /\ Drops
    /\ UNCHANGED <<engineVars, rows, born, unseen, clicks, faults>>

-----------------------------------------------------------------------------
(* The user.                                                                *)

Click == Free /\ clicks < MaxClicks /\ clicks' = clicks + 1

Open ==
    /\ Click /\ view = None
    /\ view' = NewPanel
    /\ UNCHANGED <<engineVars, rows, born, loose, unseen, faults>>

Close ==
    /\ Click /\ view # None
    /\ view' = None /\ Drops
    /\ UNCHANGED <<engineVars, rows, born, unseen, faults>>

\* A filter is switched; or one of the two fields of the panel notifies it, which
\* also happens without a change, at each blink of its cursor.
Filter(only) ==
    /\ Click /\ view # None
    /\ view' = Refreshing([view EXCEPT !.only = only, !.from = 0])
    /\ Drops
    /\ UNCHANGED <<engineVars, rows, born, unseen, faults>>

Turn ==
    /\ Click /\ view # None
    /\ \/ /\ view.from + PageSize < view.list.total
          /\ view' = Refreshing([view EXCEPT !.from = @ + PageSize])
       \/ /\ view.from > 0
          /\ view' = Refreshing([view EXCEPT !.from = IF @ > PageSize THEN @ - PageSize ELSE 0])
    /\ Drops
    /\ UNCHANGED <<engineVars, rows, born, unseen, faults>>

\* A row of the page, or of the tree view, whose rows are all of the store when it
\* was loaded: neither the filter nor a clear takes one away.
Select(id) ==
    /\ Click /\ view # None
    /\ view' = [view EXCEPT !.selected = id, !.detail = None,
                            !.fetch = [id |-> id, read |-> FALSE, got |-> None]]
    /\ UNCHANGED <<engineVars, rows, born, loose, unseen, faults>>

ClearAll ==
    /\ Click /\ view # None
    /\ view' = [view EXCEPT !.loading = TRUE, !.failed = FALSE, !.got = None,
                            !.task = [do |-> "clear"]]
    /\ Drops
    /\ UNCHANGED <<engineVars, rows, born, unseen, faults>>

StartProxy ==
    /\ Click /\ view # None /\ Bind
    /\ UNCHANGED <<rows, born, view, loose, unseen, faults>>

\* The UI thread goes on; a proxy that runs is announced.
ProxyAnswers ==
    /\ \/ Started /\ view' = Published(view)
       \/ (StartFails \/ StartTimesOut) /\ UNCHANGED view
    /\ UNCHANGED <<rows, born, loose, unseen, clicks, faults>>

StopProxy ==
    /\ Click /\ view # None /\ Stop
    /\ view' = Published(view)
    /\ UNCHANGED <<rows, born, loose, unseen, faults>>

-----------------------------------------------------------------------------
ProxyThreads ==
    \/ Threads /\ UNCHANGED panelVars
    \/ \E i \in DOMAIN proxy : Record(i) \/ Announce(i)
PanelTasks ==
    \/ ReadPage \/ ShowPage \/ ClearStore \/ LooseClear \/ EndClear
    \/ ReadDetail \/ ShowDetail \/ Listen \/ Collect \/ HandleEvents
User ==
    \/ Open \/ Close \/ Turn \/ ClearAll \/ StartProxy \/ ProxyAnswers \/ StopProxy
    \/ \E only \in BOOLEAN : Filter(only)
    \/ \E id \in 1..born : Select(id)

Next == ProxyThreads \/ PanelTasks \/ User

Spec == Init /\ [][Next]_vars

-----------------------------------------------------------------------------
(* What holds of them.                                                      *)

\* Once no task of the panel is under way, and every exchange is announced and its
\* event handled, the panel does not show itself as loading and lists what the
\* store holds at that page under that filter, unless its query failed: no
\* exchange arrives between a read and the subscription, the batches or a task
\* that was dropped.  Only a clear that was dropped half-way is not seen.
ListIsCurrent ==
    /\ view # None /\ view.task = None /\ view.heard = 0 /\ ~view.batch
    /\ \A i \in DOMAIN proxy : proxy[i].owes = 0
    => /\ ~view.loading
       /\ ~view.failed /\ ~unseen => view.list = Page(rows, view.only, view.from)

\* The details shown are those of the exchange that is selected, however late they
\* come, and whatever was selected, listed or cleared since they were asked for.
DetailMatches ==
    view # None /\ view.detail # None => view.detail = view.selected

=============================================================================
