------------------------------- MODULE AppIndex -------------------------------
(***************************************************************************)
(* AppIndexService of qingqi-app (app_index.rs): the applications found on *)
(* the disk, held in memory and in the table the launcher searches         *)
(* (app_index_store.rs).  A refresh is a thread: it walks the disk, shows  *)
(* what it found early, collects icons, saves, and then ends the scan.     *)
(* One probe at the start of the program asks for a refresh when the paths *)
(* on the disk are not those in memory; the settings view may force one at *)
(* any time.  An entry is its path here: names and icons are left out.     *)
(***************************************************************************)
EXTENDS Naturals

CONSTANTS Apps,        \* paths an application may be installed at
          Threads,     \* the refresh threads that may run at once
          None,
          MaxEvents    \* bound: what the user and the world do, and failures

ASSUME IndexAssumption ==
    /\ None \notin {"save", "read"}
    /\ MaxEvents \in Nat

VARIABLES disk,        \* applications installed
          store,       \* rows of the app index table
          memory,      \* AppIndexState.apps
          scanning,    \* scan_running
          icons,       \* icon_refresh_running
          error,       \* last_error: None, "save" or "read"
          probe,       \* the probe thread: its step and the paths it read
          at,          \* thread -> the step of refresh_index it is at
          found,       \* thread -> the applications it found
          happened,    \* counter of the bound
          overlapped,  \* history variable: two refreshes have run at once
          heeded       \* history variable: no change since the probe's read, no
                       \* forced scan before its end, and its request not skipped

serviceVars == <<disk, store, memory, scanning, icons, error, probe, at, found,
                 overlapped, heeded>>
indexVars == <<serviceVars, happened>>

\* One more of what the bound counts.
Event == happened < MaxEvents /\ happened' = happened + 1

Busy == {t \in Threads : at[t] # "idle"}

ProbeSpawned == [at |-> "read", paths |-> {}]
AllIdle == [t \in Threads |-> "idle"]
NothingFound == [t \in Threads |-> {}]

\* AppIndexService::build, and the probe start_background spawns; no table yet.
IndexInit ==
    /\ disk \in SUBSET Apps /\ store = {} /\ memory = store
    /\ scanning = FALSE /\ icons = FALSE /\ error = None
    /\ probe = ProbeSpawned /\ at = AllIdle /\ found = NothingFound
    /\ happened = 0
    /\ overlapped = FALSE /\ heeded = TRUE

\* The program ends, at any time, and is started again: the table is loaded.
IndexRestart ==
    /\ memory' = store
    /\ scanning' = FALSE /\ icons' = FALSE /\ error' = None
    /\ probe' = ProbeSpawned /\ at' = AllIdle /\ found' = NothingFound
    /\ overlapped' = FALSE /\ heeded' = TRUE
    /\ UNCHANGED <<disk, store>>

\* The user installs or removes an application.
Install(app) ==
    /\ Event
    /\ disk' = IF app \in disk THEN disk \ {app} ELSE disk \cup {app}
    /\ heeded' = (heeded /\ probe.at = "read")
    /\ UNCHANGED <<store, memory, scanning, icons, error, probe, at, found, overlapped>>

-----------------------------------------------------------------------------
(* request_scan_inner, as a change of scanning, icons, error and the threads. *)

Start(t) ==
    /\ at[t] = "idle"
    /\ at' = [at EXCEPT ![t] = "walk"]
    /\ scanning' = TRUE /\ icons' = FALSE /\ error' = None
    /\ overlapped' = (overlapped \/ Busy # {})

Skipped == scanning

RequestScan ==
    IF Skipped
    THEN UNCHANGED <<at, scanning, icons, error, overlapped>>
    ELSE \E t \in Threads : Start(t)

\* force_rescan, from the settings view.
ForceRescan ==
    /\ Event
    /\ \E t \in Threads : Start(t)
    /\ heeded' = (heeded /\ probe.at = "done")
    /\ UNCHANGED <<disk, store, memory, probe, found>>

-----------------------------------------------------------------------------
(* probe_and_maybe_scan.                                                   *)

\* scan_application_paths.
ProbeRead ==
    /\ probe.at = "read"
    /\ probe' = [at |-> "compare", paths |-> disk]
    /\ UNCHANGED <<disk, store, memory, scanning, icons, error, at, found, happened,
                   overlapped, heeded>>

\* The paths in memory under the lock, and probe_running cleared.
ProbeCompare ==
    /\ probe.at = "compare"
    /\ probe' = [probe EXCEPT !.at = IF probe.paths # memory THEN "request" ELSE "done"]
    /\ UNCHANGED <<disk, store, memory, scanning, icons, error, at, found, happened,
                   overlapped, heeded>>

\* The request: nothing is started while a refresh runs, whatever that has read.
ProbeRequest ==
    /\ probe.at = "request"
    /\ probe' = [probe EXCEPT !.at = "done"]
    /\ RequestScan
    /\ heeded' = (heeded /\ ~Skipped)
    /\ UNCHANGED <<disk, store, memory, found, happened>>

-----------------------------------------------------------------------------
(* refresh_index, in a thread.                                             *)

\* scan_application_metadata.
Walk(t) ==
    /\ at[t] = "walk"
    /\ at' = [at EXCEPT ![t] = "early"]
    /\ found' = [found EXCEPT ![t] = disk]
    /\ UNCHANGED <<disk, store, memory, scanning, icons, error, probe, happened,
                   overlapped, heeded>>

\* publish_metadata_early; the event is announced with it.
PublishEarly(t) ==
    /\ at[t] = "early"
    /\ at' = [at EXCEPT ![t] = "save"]
    /\ memory' = found[t]
    /\ icons' = TRUE
    /\ UNCHANGED <<disk, store, scanning, error, probe, found, happened,
                   overlapped, heeded>>

\* Icons, then AppIndexStore::save: one transaction, which may fail.
Save(t) ==
    /\ at[t] = "save"
    /\ \/ at' = [at EXCEPT ![t] = "saved"]
          /\ store' = found[t]
          /\ UNCHANGED happened
       \/ Event
          /\ at' = [at EXCEPT ![t] = "failed"]
          /\ UNCHANGED store
    /\ UNCHANGED <<disk, memory, scanning, icons, error, probe, found, overlapped,
                   heeded>>

\* (Fault: a failed save leaves refresh_index early.)
FinishOrLeave(t) ==
    /\ at[t] \in {"saved", "failed"}
    /\ at' = [at EXCEPT ![t] = "idle"]
    /\ IF at[t] = "saved" THEN memory' = found[t] /\ scanning' = FALSE /\ icons' = FALSE
                          ELSE UNCHANGED <<memory, scanning, icons>>
    /\ error' = IF at[t] = "failed" THEN "save" ELSE None
    /\ UNCHANGED <<disk, store, probe, found, happened, overlapped, heeded>>

\* The last lock of refresh_index; the event is announced with it.
Finish(t) ==
    /\ at[t] \in {"saved", "failed"}
    /\ at' = [at EXCEPT ![t] = "idle"]
    /\ memory' = found[t]
    /\ scanning' = FALSE /\ icons' = FALSE
    /\ error' = IF at[t] = "failed" THEN "save" ELSE None
    /\ UNCHANGED <<disk, store, probe, found, happened, overlapped, heeded>>

Quiet == \E t \in Threads : Walk(t) \/ Save(t)
Announcing == \E t \in Threads : PublishEarly(t) \/ Finish(t)
ProbeStep == ProbeRead \/ ProbeCompare \/ ProbeRequest

-----------------------------------------------------------------------------
IndexTypeOK ==
    /\ disk \subseteq Apps /\ store \subseteq Apps /\ memory \subseteq Apps
    /\ scanning \in BOOLEAN /\ icons \in BOOLEAN /\ error \in {None, "save", "read"}
    /\ probe \in [at : {"read", "compare", "request", "done"}, paths : SUBSET Apps]
    /\ at \in [Threads -> {"idle", "walk", "early", "save", "saved", "failed"}]
    /\ found \in [Threads -> SUBSET Apps]
    /\ happened \in 0..MaxEvents
    /\ overlapped \in BOOLEAN /\ heeded \in BOOLEAN

\* What a refresh leaves behind.  It is never shown as running when none is.  What the
\* settings view shows is what the launcher finds: without an error, memory and table
\* hold the same applications, unless a forced scan has overlapped another, as the
\* order of their saves may not be the order in which they end.  And the probe
\* catches what was installed while the program was not running, unless the disk has
\* changed since or a scan was forced meanwhile: that one may have read the disk before
\* the probe did, and the request made after the probe is then skipped.
IndexAtRest ==
    Busy = {} =>
        /\ ~scanning /\ ~icons
        /\ error = None /\ ~overlapped => memory = store
        /\ probe.at = "done" /\ heeded => memory = disk

=============================================================================
