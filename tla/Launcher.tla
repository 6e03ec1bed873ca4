------------------------------- MODULE Launcher -------------------------------
(***************************************************************************)
(* The launcher window of qingqi-app (launcher.rs, opened and closed by    *)
(* window_controller.rs) over the application index and the command        *)
(* catalogue: what it shows is read from two tables when the window opens, *)
(* 70 ms after the query was last edited, when a view inside it is closed, *)
(* and at each CommandsChanged event its event task receives.  The task    *)
(* subscribes to the bus only when it first runs, after the window is open,*)
(* and dies with the window.  Scoring and order of the results are left    *)
(* out: a list stands for the query, applications and commands it is of.   *)
(***************************************************************************)
EXTENDS AppIndex, Sequences

CONSTANTS Queries, Blank,    \* texts of the query field; the empty one
          LaunchInput        \* query -> the text a chosen result hands its plugin

ASSUME LauncherAssumption ==
    /\ Blank \in Queries /\ None \notin Queries
    /\ LaunchInput \in [Queries -> Queries]

VARIABLES offers,      \* version of the commands the plugins offer
          unannounced, \* they were saved and the event is not published yet
          catalog,     \* version in the command catalogue's table
          window,      \* the launcher, or None when it has no window
          events,      \* CommandsChanged events its receiver holds, by source
          strayed,     \* history variable: the last query searched for that was not
                       \* remembered as last_query, or None
          missed,      \* history variable: an event of the index had no receiver
          unheard      \* history variable: an event of a plugin had no receiver, or the
                       \* catalogue could not be rebuilt for it

launcherVars == <<offers, unannounced, catalog, window, events, strayed,
                  missed, unheard>>
vars == <<indexVars, launcherVars>>

-----------------------------------------------------------------------------
(* Reading the tables.                                                     *)

\* query_commands and default_results; a failed read finds no application.
Shown(q, cat, failed) ==
    [query |-> q, apps |-> IF failed THEN {} ELSE store, commands |-> cat, failed |-> failed]

\* w with the results of a search made now, in a step that has spent so much of the
\* bound; search_database keeps its error for the settings view.
Search(w, q, cat, spent) ==
    \E failed \in BOOLEAN :
        /\ happened' = happened + spent + (IF failed THEN 1 ELSE 0)
        /\ happened' <= MaxEvents
        /\ error' = IF failed THEN "read" ELSE error
        /\ window' = [w EXCEPT !.results = Shown(q, cat, failed)]
        /\ missed' = FALSE
        /\ UNCHANGED <<disk, store, memory, scanning, icons, probe, at, found, overlapped,
                       heeded>>

NoSearch == UNCHANGED <<serviceVars, missed>>

\* An event reaches the receiver of the event task, if it has subscribed.
Announce(source) ==
    IF window # None /\ window.listening
    THEN events' = Append(events, source) /\ UNCHANGED <<missed, unheard>>
    ELSE /\ missed' = (missed \/ source = "index")
         /\ unheard' = (unheard \/ source = "plugin")
         /\ UNCHANGED events

Init ==
    /\ IndexInit
    /\ offers = 0 /\ unannounced = FALSE /\ catalog = 0
    /\ window = None /\ events = <<>>
    /\ strayed = None /\ missed = FALSE /\ unheard = FALSE

-----------------------------------------------------------------------------
(* The world around the launcher.                                          *)

\* The user installs an application or forces a scan; threads and probe go on.
Around ==
    /\ \/ \E app \in Apps : Install(app)
       \/ ForceRescan
       \/ ProbeStep
       \/ Quiet
    /\ UNCHANGED launcherVars

RefreshAnnounces ==
    /\ Announcing
    /\ Announce("index")
    /\ UNCHANGED <<offers, unannounced, catalog, window, strayed>>

\* A plugin saves what its commands are made of (an action of quick launch) ...
SaveCommands ==
    /\ Event /\ ~unannounced
    /\ offers' = offers + 1
    /\ unannounced' = TRUE
    /\ UNCHANGED <<serviceVars, catalog, window, events, strayed, missed, unheard>>

\* ... and publishes CommandsChanged (bump_revision).
AnnounceCommands ==
    /\ unannounced
    /\ unannounced' = FALSE
    /\ Announce("plugin")
    /\ UNCHANGED <<indexVars, offers, catalog, window, strayed>>

\* The program ends, at any time, and is started again: the catalogue is rebuilt.
Restart ==
    /\ Event
    /\ IndexRestart
    /\ catalog' = offers /\ unannounced' = FALSE
    /\ window' = None /\ events' = <<>>
    /\ strayed' = None /\ missed' = FALSE /\ unheard' = FALSE
    /\ UNCHANGED offers

-----------------------------------------------------------------------------
(* The window.                                                             *)

\* open_launcher: Launcher::new reads both tables; the event task is only spawned.
OpenWindow ==
    /\ window = None
    /\ Search([listening |-> FALSE, mode |-> "search", query |-> Blank, last |-> Blank,
               pending |-> Blank, timer |-> None, results |-> None], Blank, catalog, 1)
    /\ strayed' = None
    /\ UNCHANGED <<offers, unannounced, catalog, events, unheard>>

\* show_launcher with the window open: refresh_on_show.
Show ==
    /\ window # None
    /\ Search(window, window.query, catalog, 1)
    /\ strayed' = window.query
    /\ UNCHANGED <<offers, unannounced, catalog, events, unheard>>

\* toggle_launcher, Escape on an empty query, or a result that opens elsewhere:
\* the entity is dropped, and its tasks and receiver with it.
CloseWindow ==
    /\ window # None
    /\ window' = None /\ events' = <<>>
    /\ unheard' = (unheard \/ \E i \in DOMAIN events : events[i] = "plugin")
    /\ NoSearch /\ UNCHANGED happened
    /\ UNCHANGED <<offers, unannounced, catalog, strayed>>

\* The event task runs for the first time.
Listen ==
    /\ window # None /\ ~window.listening
    /\ window' = [window EXCEPT !.listening = TRUE]
    /\ NoSearch /\ UNCHANGED happened
    /\ UNCHANGED <<offers, unannounced, catalog, events, strayed, unheard>>

\* schedule_search: a new timer, the old one is dropped with its task.  (Fault: a
\* timer that runs is left to run.)
ScheduledOnce(w) ==
    [w EXCEPT !.pending = w.query, !.timer = IF w.timer = None THEN w.query ELSE w.timer]
Scheduled(w) == [w EXCEPT !.pending = w.query, !.timer = w.query]

\* handle_query_changed: only the search itself waits; a view is asked at once.
Changed(w) == IF w.mode = "search" THEN Scheduled(w) ELSE w

\* The user edits the query, or clears it with Escape (dismiss).
EditQuery(q) ==
    /\ window # None /\ q # window.query
    /\ Event
    /\ window' = Changed([window EXCEPT !.query = q])
    /\ NoSearch
    /\ UNCHANGED <<offers, unannounced, catalog, events, strayed, unheard>>

\* The field notifies without a new text: the blinking cursor, a selection.  With
\* the query already pending it would restart a timer as it is, or one that finds
\* nothing to do.
Blink ==
    /\ window # None /\ window.pending # window.query /\ Changed(window) # window
    /\ window' = Changed(window)
    /\ NoSearch /\ UNCHANGED happened
    /\ UNCHANGED <<offers, unannounced, catalog, events, strayed, unheard>>

\* The timer: nothing when the pending query is the last one searched for.
Timer ==
    /\ window # None /\ window.timer # None
    /\ IF window.pending = window.last
       THEN window' = [window EXCEPT !.timer = None] /\ NoSearch /\ UNCHANGED happened
       ELSE Search([window EXCEPT !.timer = None, !.last = window.timer,
                                  !.pending = window.timer], window.timer, catalog, 0)
    /\ UNCHANGED <<offers, unannounced, catalog, events, strayed, unheard>>

\* Enter on a plugin with an inline or list view (open_command): the view takes the
\* window over, the field is given the launch input, and that counts as searched for.
OpenView ==
    /\ window # None /\ window.mode = "search"
    /\ Event
    /\ LET input == LaunchInput[window.query]
       IN  window' = [window EXCEPT !.mode = "view", !.query = input,
                                    !.last = input, !.pending = input]
    /\ NoSearch
    /\ UNCHANGED <<offers, unannounced, catalog, events, strayed, unheard>>

\* Escape in a view: close_plugin_mode searches at once for the query of the field,
\* and leaves last_query and pending_query as they are.
CloseView ==
    /\ window # None /\ window.mode = "view"
    /\ Search([window EXCEPT !.mode = "search"], window.query, catalog, 0)
    /\ strayed' = window.query
    /\ UNCHANGED <<offers, unannounced, catalog, events, unheard>>

\* refresh_results_after_commands_changed: in a view the results are left alone.
Refreshed(cat) ==
    IF window.mode = "search"
    THEN Search([window EXCEPT !.last = window.query, !.pending = window.query],
                window.query, cat, 0)
    ELSE UNCHANGED <<window, happened>> /\ NoSearch

\* rebuild_command_catalog, for an event of a plugin only: one transaction, and an
\* error of it is logged.
Rebuild(source) ==
    \/ source = "plugin" /\ catalog' = offers /\ unheard' = FALSE
    \/ source = "plugin" /\ unheard' = TRUE /\ UNCHANGED catalog
    \/ source # "plugin" /\ UNCHANGED <<catalog, unheard>>

\* The event task receives: a plugin's commands are collected into the catalogue,
\* if that can be done, before the tables are read again.  (Fault: after.)
HandleEventEarly ==
    /\ window # None /\ events # <<>>
    /\ events' = Tail(events)
    /\ Rebuild(Head(events))
    /\ Refreshed(catalog)
    /\ UNCHANGED <<offers, unannounced, strayed>>
HandleEvent ==
    /\ window # None /\ events # <<>>
    /\ events' = Tail(events)
    /\ Rebuild(Head(events))
    /\ Refreshed(catalog')
    /\ UNCHANGED <<offers, unannounced, strayed>>

Next ==
    \/ Around \/ RefreshAnnounces
    \/ SaveCommands \/ AnnounceCommands \/ Restart
    \/ OpenWindow \/ Show \/ CloseWindow \/ Listen
    \/ (\E q \in Queries : EditQuery(q)) \/ Blink \/ Timer
    \/ OpenView \/ CloseView \/ HandleEvent

Spec == Init /\ [][Next]_vars

-----------------------------------------------------------------------------
Results == [query : Queries, apps : SUBSET Apps, commands : 0..MaxEvents, failed : BOOLEAN]

Windows ==
    [listening : BOOLEAN, mode : {"search", "view"}, query : Queries, last : Queries,
     pending : Queries, timer : Queries \cup {None}, results : Results]

\* None is no window.
ASSUME WindowAssumption == None \notin Windows

\* The index and the launcher keep their shapes; only an open window that has
\* subscribed holds events, and what it searched for last is what it waits for
\* unless a timer runs.
TypeOK ==
    /\ IndexTypeOK
    /\ offers \in 0..MaxEvents /\ catalog \in 0..offers /\ unannounced \in BOOLEAN
    /\ window \in Windows \cup {None}
    /\ events \in Seq({"index", "plugin"})
    /\ strayed \in Queries \cup {None} /\ missed \in BOOLEAN /\ unheard \in BOOLEAN
    /\ events # <<>> => window # None /\ window.listening
    /\ window # None /\ window.timer = None => window.pending = window.last

\* The launcher has nothing left to do: it searches, no timer runs, it has
\* subscribed and handled every event, and nothing is about to be announced.
AtRest ==
    /\ window # None /\ window.mode = "search" /\ window.timer = None
    /\ window.listening /\ events = <<>>
    /\ Busy = {} /\ ~unannounced

\* The list answers the text in the field: once the timer has run, the results are
\* those of the query shown, or else of the one query that close_plugin_mode or
\* refresh_on_show searched for without making it last_query.
AnswersQuery ==
    window # None /\ window.mode = "search" /\ window.timer = None =>
        window.results.query \in {window.query, strayed}

\* Nothing in the list is out of date: at rest it was read from the tables as they
\* are, and the catalogue is what the plugins offer, whatever scans, saves and views
\* came between -- unless the read or the rebuilding of the catalogue failed, or the
\* event was published with no launcher open, or before the task of a new one had
\* subscribed.
ListIsFresh ==
    AtRest /\ ~missed =>
        /\ window.results.failed \/ window.results.apps = store
        /\ window.results.commands = IF unheard THEN catalog ELSE offers

=============================================================================
