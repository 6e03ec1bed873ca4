---------------------------- MODULE Launcher_proofs ----------------------------
(***************************************************************************)
(* Proofs about the application index, the launcher and the event bus.     *)
(* The index keeps its invariant whatever the launcher does: one lemma for *)
(* each of its steps.  The launcher's own steps are then taken one by one, *)
(* with what the rest of the program may do to the tables summed up by     *)
(* TablesKeep.  The bus comes last, over its own variables: the launcher   *)
(* is one of its receivers, the index and the catalogue publish on it.     *)
(***************************************************************************)
EXTENDS Launcher, EventBus, TLAPS

(* What the index keeps between the steps of its threads: IndexAtRest says *)
(* what holds when none runs, these what the running ones will bring.      *)
NoneRuns == Busy = {} => ~scanning /\ ~icons

InTurn ==
    ~overlapped =>
        /\ \A t, u \in Busy : t = u
        /\ Busy = {} /\ error = None => memory = store
        /\ \A t \in Threads : at[t] = "saved" => store = found[t]

Heeding ==
    heeded =>
        /\ probe.at # "done" => Busy = {}
        /\ probe.at \in {"compare", "request"} => probe.paths = disk
        /\ probe.at = "done" =>
            /\ Busy = {} => memory = disk
            /\ \A t \in Threads : at[t] \notin {"idle", "walk"} => found[t] = disk

IndexInv == IndexTypeOK /\ NoneRuns /\ InTurn /\ Heeding

LEMMA IndexInitInv == ASSUME IndexInit PROVE IndexInv
<1>1. IndexTypeOK
  <2>1. /\ at \in [Threads -> {"idle", "walk", "early", "save", "saved", "failed"}]
        /\ found \in [Threads -> SUBSET Apps]
    BY DEF IndexInit, AllIdle, NothingFound
  <2>2. probe \in [at : {"read", "compare", "request", "done"}, paths : SUBSET Apps]
    BY DEF IndexInit, ProbeSpawned
  <2>3. /\ scanning \in BOOLEAN /\ icons \in BOOLEAN
        /\ overlapped \in BOOLEAN /\ heeded \in BOOLEAN
    BY Zenon DEF IndexInit
  <2>4. /\ happened \in 0..MaxEvents
        /\ disk \subseteq Apps /\ store \subseteq Apps /\ memory \subseteq Apps
    BY IndexAssumption DEF IndexInit
  <2>5. error \in {None, "save", "read"}
    BY DEF IndexInit
  <2>. QED
    BY <2>1, <2>2, <2>3, <2>4, <2>5 DEF IndexTypeOK
<1>2. Busy = {}
  BY DEF IndexInit, Busy, AllIdle
<1>3. NoneRuns /\ InTurn /\ Heeding
  BY <1>2 DEF IndexInit, NoneRuns, InTurn, Heeding, ProbeSpawned, AllIdle
<1>. QED
  BY <1>1, <1>3 DEF IndexInv

LEMMA IndexRestartInv ==
  ASSUME IndexInv, IndexRestart, happened' \in 0..MaxEvents
  PROVE  IndexInv'
  BY IndexAssumption
     DEF IndexRestart, IndexInv, IndexTypeOK, NoneRuns, InTurn, Heeding, Busy, AllIdle,
         ProbeSpawned, NothingFound

LEMMA EventBound ==
  ASSUME IndexTypeOK, Event
  PROVE  happened' \in 0..MaxEvents
  BY IndexAssumption DEF IndexTypeOK, Event

LEMMA InstallInv ==
  ASSUME IndexInv, NEW app \in Apps, Install(app)
  PROVE  IndexInv'
<1>1. happened' \in 0..MaxEvents
  BY EventBound DEF Install, IndexInv
<1>2. IndexTypeOK'
  BY <1>1 DEF Install, IndexInv, IndexTypeOK
<1>3. Busy' = Busy
  BY DEF Install, Busy
<1>4. NoneRuns' /\ InTurn'
  BY <1>3 DEF Install, IndexInv, NoneRuns, InTurn
<1>5. Heeding'
  BY <1>3 DEF Install, IndexInv, Heeding
<1>. QED
  BY <1>2, <1>4, <1>5 DEF IndexInv

\* Starting a refresh keeps the order of refreshes: when none runs, or another does,
\* and then the two overlap.
LEMMA StartInTurn ==
  ASSUME IndexInv, NEW t \in Threads, Start(t), UNCHANGED <<store, memory, found>>
  PROVE  /\ at' \in [Threads -> {"idle", "walk", "early", "save", "saved", "failed"}]
         /\ Busy' = Busy \cup {t}
         /\ InTurn'
         /\ Busy = {} => \A u \in Threads : at'[u] \in {"idle", "walk"}
<1>1. /\ at \in [Threads -> {"idle", "walk", "early", "save", "saved", "failed"}]
      /\ at' = [at EXCEPT ![t] = "walk"] /\ at[t] = "idle"
  BY DEF Start, IndexInv, IndexTypeOK
<1>2. at' \in [Threads -> {"idle", "walk", "early", "save", "saved", "failed"}]
  BY <1>1
<1>3. Busy' = Busy \cup {t}
  BY <1>1 DEF Busy
<1>4. InTurn'
  BY <1>1, <1>3 DEF Start, IndexInv, InTurn, Busy
<1>5. Busy = {} => \A u \in Threads : at'[u] \in {"idle", "walk"}
  BY <1>1 DEF Busy
<1>. QED
  BY <1>2, <1>3, <1>4, <1>5

LEMMA ForceRescanInv ==
  ASSUME IndexInv, ForceRescan
  PROVE  IndexInv'
<1>1. PICK t \in Threads : Start(t)
  BY DEF ForceRescan
<1>2. /\ at' \in [Threads -> {"idle", "walk", "early", "save", "saved", "failed"}]
      /\ Busy' = Busy \cup {t}
      /\ InTurn'
  BY <1>1, StartInTurn DEF ForceRescan
<1>3. happened' \in 0..MaxEvents
  BY EventBound DEF ForceRescan, IndexInv
<1>4. IndexTypeOK'
  BY <1>1, <1>2, <1>3 DEF ForceRescan, Start, IndexInv, IndexTypeOK
<1>5. NoneRuns'
  BY <1>2 DEF NoneRuns
<1>6. Heeding'
  BY <1>1, <1>2 DEF ForceRescan, Start, IndexInv, IndexTypeOK, Heeding
<1>. QED
  BY <1>2, <1>4, <1>5, <1>6 DEF IndexInv

LEMMA ProbeInv ==
  ASSUME IndexInv, ProbeStep
  PROVE  IndexInv'
<1>1. CASE ProbeRead
  BY <1>1 DEF ProbeRead, IndexInv, IndexTypeOK, NoneRuns, InTurn, Heeding, Busy
<1>2. CASE ProbeCompare
  <2>1. IndexTypeOK'
    BY <1>2 DEF ProbeCompare, IndexInv, IndexTypeOK
  <2>2. Busy' = Busy /\ NoneRuns' /\ InTurn'
    BY <1>2 DEF ProbeCompare, IndexInv, NoneRuns, InTurn, Busy
  <2>3. Heeding'
    BY <1>2, <2>2 DEF ProbeCompare, IndexInv, IndexTypeOK, Heeding, Busy
  <2>. QED
    BY <2>1, <2>2, <2>3 DEF IndexInv
<1>3. CASE ProbeRequest
  <2>1. CASE scanning
    BY <1>3, <2>1
       DEF ProbeRequest, RequestScan, Skipped, IndexInv, IndexTypeOK, NoneRuns, InTurn,
           Heeding, Busy
  <2>2. CASE ~scanning
    <3>1. PICK t \in Threads : Start(t)
      BY <1>3, <2>2 DEF ProbeRequest, RequestScan, Skipped
    <3>2. /\ at' \in [Threads -> {"idle", "walk", "early", "save", "saved", "failed"}]
          /\ Busy' = Busy \cup {t}
          /\ InTurn'
          /\ Busy = {} => \A u \in Threads : at'[u] \in {"idle", "walk"}
      BY <1>3, <3>1, StartInTurn DEF ProbeRequest
    <3>3. IndexTypeOK'
      BY <1>3, <3>1, <3>2 DEF ProbeRequest, Start, IndexInv, IndexTypeOK
    <3>4. NoneRuns'
      BY <3>2 DEF NoneRuns
    <3>5. Heeding'
      BY <1>3, <3>2 DEF ProbeRequest, IndexInv, IndexTypeOK, Heeding
    <3>. QED
      BY <3>2, <3>3, <3>4, <3>5 DEF IndexInv
  <2>. QED
    BY <2>1, <2>2
<1>. QED
  BY <1>1, <1>2, <1>3 DEF ProbeStep

LEMMA WalkInv ==
  ASSUME IndexInv, NEW t \in Threads, Walk(t)
  PROVE  IndexInv'
<1>1. IndexTypeOK'
  BY DEF Walk, IndexInv, IndexTypeOK
<1>2. Busy' = Busy
  BY DEF Walk, Busy, IndexInv, IndexTypeOK
<1>3. NoneRuns' /\ InTurn'
  BY <1>2 DEF Walk, IndexInv, IndexTypeOK, NoneRuns, InTurn
<1>4. Heeding'
  BY <1>2 DEF Walk, IndexInv, IndexTypeOK, Heeding
<1>. QED
  BY <1>1, <1>3, <1>4 DEF IndexInv

LEMMA PublishEarlyInv ==
  ASSUME IndexInv, NEW t \in Threads, PublishEarly(t)
  PROVE  IndexInv'
<1>1. IndexTypeOK'
  BY DEF PublishEarly, IndexInv, IndexTypeOK
<1>2. Busy' = Busy /\ t \in Busy
  BY DEF PublishEarly, Busy, IndexInv, IndexTypeOK
<1>3. NoneRuns' /\ InTurn'
  BY <1>2 DEF PublishEarly, IndexInv, IndexTypeOK, NoneRuns, InTurn
<1>4. Heeding'
  BY <1>2 DEF PublishEarly, IndexInv, IndexTypeOK, Heeding
<1>. QED
  BY <1>1, <1>3, <1>4 DEF IndexInv

LEMMA SaveInv ==
  ASSUME IndexInv, NEW t \in Threads, Save(t)
  PROVE  IndexInv'
<1>1. IndexTypeOK'
  BY EventBound DEF Save, IndexInv, IndexTypeOK
<1>2. Busy' = Busy /\ t \in Busy
  BY DEF Save, Busy, IndexInv, IndexTypeOK
<1>3. NoneRuns'
  BY <1>2 DEF Save, IndexInv, NoneRuns
<1>4. InTurn'
  <2>. SUFFICES ASSUME ~overlapped
                PROVE  /\ \A u, v \in Busy : u = v
                       /\ \A u \in Threads : at'[u] = "saved" => store' = found[u]
    BY <1>2 DEF Save, InTurn
  <2>1. \A u, v \in Busy : u = v
    BY DEF IndexInv, InTurn
  <2>2. ASSUME NEW u \in Threads, at'[u] = "saved"
        PROVE  u = t
    BY <2>1, <2>2, <1>2 DEF Save, IndexInv, IndexTypeOK, Busy
  <2>3. at'[t] = "saved" => store' = found[t]
    BY DEF Save, IndexInv, IndexTypeOK
  <2>. QED
    BY <2>1, <2>2, <2>3
<1>5. Heeding'
  BY <1>2 DEF Save, IndexInv, IndexTypeOK, Heeding
<1>. QED
  BY <1>1, <1>3, <1>4, <1>5 DEF IndexInv

LEMMA FinishInv ==
  ASSUME IndexInv, NEW t \in Threads, Finish(t)
  PROVE  IndexInv'
<1>1. IndexTypeOK'
  BY DEF Finish, IndexInv, IndexTypeOK
<1>2. Busy' = Busy \ {t} /\ t \in Busy
  BY DEF Finish, Busy, IndexInv, IndexTypeOK
<1>3. NoneRuns'
  BY DEF Finish, NoneRuns
<1>4. InTurn'
  <2>1. ASSUME ~overlapped, error' = None
        PROVE  memory' = store
    BY <2>1, IndexAssumption DEF Finish, IndexInv, InTurn
  <2>2. ASSUME NEW u \in Threads, at'[u] = "saved"
        PROVE  at[u] = "saved"
    BY <2>2 DEF Finish, IndexInv, IndexTypeOK
  <2>. QED
    BY <1>2, <2>1, <2>2 DEF Finish, IndexInv, InTurn
<1>5. Heeding'
  <2>1. heeded => probe.at = "done"
    BY <1>2 DEF IndexInv, IndexTypeOK, Heeding
  <2>2. heeded => found[t] = disk
    BY <2>1 DEF Finish, IndexInv, Heeding
  <2>3. ASSUME NEW u \in Threads, at'[u] \notin {"idle", "walk"}
        PROVE  at[u] \notin {"idle", "walk"}
    BY <2>3 DEF Finish, IndexInv, IndexTypeOK
  <2>. QED
    BY <2>1, <2>2, <2>3 DEF Finish, IndexInv, Heeding
<1>. QED
  BY <1>1, <1>3, <1>4, <1>5 DEF IndexInv

LEMMA NoSearchInv ==
  ASSUME IndexInv, NoSearch, happened' \in 0..MaxEvents
  PROVE  IndexInv'
  BY DEF IndexInv, NoSearch, serviceVars, IndexTypeOK, NoneRuns, InTurn, Heeding, Busy

LEMMA SearchInv ==
  ASSUME IndexInv, NEW w, NEW q, NEW cat, NEW spent \in Nat, Search(w, q, cat, spent)
  PROVE  IndexInv'
<1>1. happened' \in 0..MaxEvents
  BY IndexAssumption DEF Search, IndexInv, IndexTypeOK
<1>2. error' \in {"read", error}
  BY DEF Search
<1>3. UNCHANGED <<disk, store, memory, scanning, icons, probe, at, found, overlapped, heeded>>
  BY DEF Search
<1>4. IndexTypeOK' /\ Busy' = Busy
  BY <1>1, <1>2, <1>3 DEF IndexInv, IndexTypeOK, Busy
<1>5. NoneRuns' /\ Heeding'
  BY <1>3, <1>4 DEF IndexInv, NoneRuns, Heeding
<1>6. InTurn'
  BY <1>2, <1>3, <1>4, IndexAssumption DEF IndexInv, InTurn
<1>. QED
  BY <1>4, <1>5, <1>6 DEF IndexInv

\* What the steps around the launcher do to the index, and so to the table it reads:
\* unless a thread has saved and not finished, the table is as it was.
Saving == \E t \in Threads : at[t] = "saved"

LEMMA AroundInv ==
  ASSUME IndexInv, Around
  PROVE  IndexInv'
<1>1. CASE \E app \in Apps : Install(app)
  BY <1>1, InstallInv
<1>2. CASE ForceRescan
  BY <1>2, ForceRescanInv
<1>3. CASE ProbeStep
  BY <1>3, ProbeInv
<1>4. CASE Quiet
  BY <1>4, WalkInv, SaveInv DEF Quiet
<1>. QED
  BY <1>1, <1>2, <1>3, <1>4 DEF Around

LEMMA TablesKeep ==
  ASSUME IndexInv, Around, ~Saving'
  PROVE  store' = store /\ ~Saving
<1>1. CASE \E app \in Apps : Install(app)
  BY <1>1 DEF Install, Saving
<1>2. ASSUME NEW t \in Threads, Start(t), UNCHANGED store
      PROVE  store' = store /\ ~Saving
  BY <1>2 DEF Start, Saving, IndexInv, IndexTypeOK
<1>3. CASE ForceRescan
  BY <1>2, <1>3 DEF ForceRescan
<1>4. CASE ProbeRead \/ ProbeCompare
  BY <1>4 DEF ProbeRead, ProbeCompare, Saving
<1>5. CASE ProbeRequest
  BY <1>2, <1>5 DEF ProbeRequest, RequestScan, Saving
<1>6. ASSUME NEW t \in Threads, Walk(t)
      PROVE  store' = store /\ ~Saving
  BY <1>6 DEF Walk, Saving, IndexInv, IndexTypeOK
<1>7. ASSUME NEW t \in Threads, Save(t)
      PROVE  store' = store /\ ~Saving
  BY <1>7 DEF Save, Saving, IndexInv, IndexTypeOK
<1>. QED
  BY <1>1, <1>3, <1>4, <1>5, <1>6, <1>7 DEF Around, ProbeStep, Quiet

LEMMA AroundHappens == ASSUME IndexInv, Around PROVE happened <= happened'
  BY IndexAssumption
     DEF Around, Install, ForceRescan, ProbeStep, ProbeRead, ProbeCompare, ProbeRequest,
         Quiet, Walk, Save, Event, IndexInv, IndexTypeOK

-----------------------------------------------------------------------------
(* What the launcher keeps.  A timer runs for the query in the field, or   *)
(* finds nothing to do; the results are those of last_query or of the one  *)
(* search that did not set it; and they are as fresh as the tables unless  *)
(* a thread or an event of it is still to come.                            *)
Awaited ==
    \/ window.timer = window.query /\ window.pending = window.query
    \/ window.results.query \in {window.query, strayed} /\ window.pending = window.last

Searched ==
    /\ window.results.query \in {window.last, strayed}
    /\ window.timer # None => Awaited
    /\ window.timer = None => window.results.query \in {window.query, strayed}
    /\ window.results.commands = catalog
    /\ ~missed /\ events = <<>> /\ ~Saving =>
           window.results.failed \/ window.results.apps = store

WindowInv ==
    window # None =>
        /\ window.mode = "view" => window.pending = window.last
        /\ window.mode = "search" => Searched

NoPluginIn(es) == \A i \in DOMAIN es : es[i] # "plugin"

CatalogInv == ~unannounced /\ ~unheard /\ NoPluginIn(events) => catalog = offers

\* The window that a search leaves, from w, which may be the draft of a new window.
Drafts ==
    [listening : BOOLEAN, mode : {"search", "view"}, query : Queries, last : Queries,
     pending : Queries, timer : Queries \cup {None}, results : Results \cup {None}]

LEMMA Seek ==
  ASSUME IndexInv, NEW w \in Drafts, NEW q \in Queries, NEW cat \in 0..MaxEvents,
         NEW spent \in Nat, Search(w, q, cat, spent)
  PROVE  /\ IndexInv' /\ store' = store
         /\ window' \in Windows
         /\ window'.listening = w.listening /\ window'.mode = w.mode
         /\ window'.query = w.query /\ window'.last = w.last
         /\ window'.pending = w.pending /\ window'.timer = w.timer
         /\ window'.results.query = q
         /\ window'.results.commands = cat
         /\ window'.results.failed \/ window'.results.apps = store'
         /\ ~missed' /\ missed' \in BOOLEAN
         /\ happened <= happened' /\ happened' \in Nat
<1>1. PICK failed \in BOOLEAN :
         /\ window' = [w EXCEPT !.results = Shown(q, cat, failed)]
         /\ happened' = happened + spent + (IF failed THEN 1 ELSE 0)
  BY DEF Search
<1>2. store \subseteq Apps /\ store' = store /\ happened \in Nat
  BY IndexAssumption DEF Search, IndexInv, IndexTypeOK
<1>3. Shown(q, cat, failed) \in Results
  BY <1>2 DEF Shown, Results
<1>4. /\ window' \in Windows /\ window'.results = Shown(q, cat, failed)
      /\ window'.listening = w.listening /\ window'.mode = w.mode
      /\ window'.query = w.query /\ window'.last = w.last
      /\ window'.pending = w.pending /\ window'.timer = w.timer
  BY <1>1, <1>3 DEF Windows, Drafts
<1>5. /\ window'.results.query = q
      /\ window'.results.commands = cat
      /\ window'.results.failed \/ window'.results.apps = store'
  BY <1>2, <1>4 DEF Shown
<1>6. happened <= happened' /\ happened' \in Nat
  BY <1>1, <1>2
<1>7. ~missed' /\ missed' \in BOOLEAN
  BY Zenon DEF Search
<1>. QED
  BY <1>2, <1>4, <1>5, <1>6, <1>7, SearchInv

\* The types of the launcher's variables, and with them the inductive invariant.
LaunchTypeOK ==
    /\ offers \in 0..MaxEvents /\ catalog \in 0..offers /\ unannounced \in BOOLEAN
    /\ window \in Windows \cup {None}
    /\ events \in Seq({"index", "plugin"})
    /\ strayed \in Queries \cup {None} /\ missed \in BOOLEAN /\ unheard \in BOOLEAN
    /\ events # <<>> => window # None /\ window.listening
    /\ window # None /\ window.timer = None => window.pending = window.last

IInv ==
    /\ IndexInv /\ LaunchTypeOK
    /\ offers <= happened
    /\ WindowInv /\ CatalogInv

\* The type of the launcher in the form the provers take it best.
LEMMA Bounds ==
  ASSUME IInv
  PROVE  /\ MaxEvents \in Nat /\ happened \in Nat /\ happened <= MaxEvents
         /\ offers \in Nat /\ catalog \in Nat
         /\ catalog \in 0..MaxEvents /\ catalog <= offers /\ offers <= happened
         /\ IndexInv /\ LaunchTypeOK /\ WindowInv /\ CatalogInv
  BY IndexAssumption DEF IInv, LaunchTypeOK, IndexInv, IndexTypeOK

LEMMA AroundStep ==
  ASSUME IInv, Around
  PROVE  IInv'
<1>1. IndexInv' /\ happened <= happened' /\ happened' \in Nat
  BY Bounds, AroundInv, AroundHappens DEF IndexInv, IndexTypeOK
<1>2. UNCHANGED launcherVars
  BY DEF Around
<1>3. LaunchTypeOK' /\ CatalogInv' /\ offers' <= happened'
  BY Bounds, <1>1, <1>2 DEF launcherVars, LaunchTypeOK, CatalogInv, NoPluginIn
<1>4. WindowInv'
  BY Bounds, <1>2, TablesKeep DEF launcherVars, WindowInv, Searched, Awaited
<1>. QED
  BY <1>1, <1>3, <1>4 DEF IInv

LEMMA AnnounceIndexStep ==
  ASSUME IInv, RefreshAnnounces
  PROVE  IInv'
<1>1. PICK t \in Threads : PublishEarly(t) \/ Finish(t)
  BY DEF RefreshAnnounces, Announcing
<1>2. IndexInv' /\ UNCHANGED <<store, happened>>
  BY <1>1, Bounds, PublishEarlyInv, FinishInv DEF PublishEarly, Finish
<1>3. UNCHANGED <<offers, unannounced, catalog, window, strayed>> /\ Announce("index")
  BY DEF RefreshAnnounces
<1>4. CASE window # None /\ window.listening
  <2>1. events' = Append(events, "index") /\ UNCHANGED <<missed, unheard>>
    BY <1>3, <1>4 DEF Announce
  <2>2. events' \in Seq({"index", "plugin"}) /\ events' # <<>>
    BY <2>1, Bounds DEF LaunchTypeOK
  <2>3. LaunchTypeOK'
    BY <1>3, <1>4, <2>1, <2>2, Bounds DEF LaunchTypeOK
  <2>4. WindowInv'
    BY <1>3, <2>1, <2>2, Bounds DEF WindowInv, Searched, Awaited
  <2>5. NoPluginIn(events') => NoPluginIn(events)
    BY <2>1, Bounds DEF NoPluginIn, LaunchTypeOK
  <2>6. CatalogInv'
    BY <1>3, <2>1, <2>5, Bounds DEF CatalogInv
  <2>. QED
    BY <1>2, <1>3, <2>3, <2>4, <2>6, Bounds DEF IInv
<1>5. CASE ~(window # None /\ window.listening)
  <2>1. missed' /\ unheard' = unheard /\ events' = events
    BY <1>3, <1>5, Bounds DEF Announce, LaunchTypeOK
  <2>2. LaunchTypeOK'
    BY <1>3, <1>5, <2>1, Bounds DEF Announce, LaunchTypeOK
  <2>3. WindowInv' /\ CatalogInv'
    BY <1>3, <2>1, Bounds DEF WindowInv, Searched, Awaited, CatalogInv, NoPluginIn
  <2>. QED
    BY <1>2, <1>3, <2>2, <2>3, Bounds DEF IInv
<1>. QED
  BY <1>4, <1>5

LEMMA SaveCommandsStep ==
  ASSUME IInv, SaveCommands
  PROVE  IInv'
<1>1. /\ offers' = offers + 1 /\ unannounced'
      /\ UNCHANGED <<serviceVars, catalog, window, events, strayed, missed, unheard>>
      /\ happened' = happened + 1 /\ happened' \in 0..MaxEvents
  BY Bounds, EventBound DEF SaveCommands, Event, IndexInv
<1>2. IndexInv'
  BY <1>1, Bounds, NoSearchInv DEF NoSearch
<1>3. LaunchTypeOK' /\ offers' <= happened'
  BY <1>1, Bounds DEF LaunchTypeOK, SaveCommands
<1>4. WindowInv' /\ CatalogInv'
  BY <1>1, Bounds
     DEF serviceVars, WindowInv, Searched, Awaited, Saving, CatalogInv
<1>. QED
  BY <1>2, <1>3, <1>4 DEF IInv

LEMMA AnnounceCommandsStep ==
  ASSUME IInv, AnnounceCommands
  PROVE  IInv'
<1>1. UNCHANGED <<indexVars, offers, catalog, window, strayed>> /\ Announce("plugin")
  BY DEF AnnounceCommands
<1>2. IndexInv' /\ UNCHANGED <<store, happened, at>>
  BY <1>1, Bounds, NoSearchInv
     DEF indexVars, serviceVars, IndexInv, IndexTypeOK, NoneRuns, InTurn, Heeding, Busy
<1>3. ~unannounced' /\ unannounced' \in BOOLEAN
  BY Zenon DEF AnnounceCommands
<1>4. CASE window # None /\ window.listening
  <2>1. events' = Append(events, "plugin") /\ UNCHANGED <<missed, unheard>>
    BY <1>1, <1>4 DEF Announce
  <2>2. /\ events' \in Seq({"index", "plugin"}) /\ events' # <<>>
        /\ Len(events) + 1 \in DOMAIN events' /\ events'[Len(events) + 1] = "plugin"
    BY <2>1, Bounds DEF LaunchTypeOK
  <2>3. LaunchTypeOK'
    BY <1>1, <1>3, <1>4, <2>1, <2>2, Bounds DEF LaunchTypeOK
  <2>4. WindowInv'
    BY <1>1, <2>1, <2>2, Bounds DEF WindowInv, Searched, Awaited
  <2>5. CatalogInv'
    BY <2>2 DEF CatalogInv, NoPluginIn
  <2>. QED
    BY <1>1, <1>2, <2>3, <2>4, <2>5, Bounds DEF IInv
<1>5. CASE ~(window # None /\ window.listening)
  <2>1. unheard' /\ events' = events /\ missed' = missed
    BY <1>1, <1>5, Bounds DEF Announce, LaunchTypeOK
  <2>2. LaunchTypeOK'
    <3>1. unheard' \in BOOLEAN
      BY <1>1, <1>5, Zenon DEF Announce
    <3>. QED
      BY <1>1, <1>3, <1>5, <2>1, <3>1, Bounds DEF LaunchTypeOK
  <2>3. WindowInv' /\ CatalogInv'
    BY <1>1, <1>2, <2>1, Bounds DEF WindowInv, Searched, Awaited, Saving, CatalogInv
  <2>. QED
    BY <1>1, <1>2, <2>2, <2>3, Bounds DEF IInv
<1>. QED
  BY <1>4, <1>5

LEMMA RestartStep ==
  ASSUME IInv, Restart
  PROVE  IInv'
<1>1. IndexInv' /\ happened <= happened' /\ happened' \in Nat
  BY Bounds, EventBound, IndexRestartInv DEF Restart, Event, IndexInv
<1>2. LaunchTypeOK' /\ offers' <= happened'
  <2>1. unannounced' \in BOOLEAN /\ missed' \in BOOLEAN /\ unheard' \in BOOLEAN
    BY Zenon DEF Restart
  <2>. QED
    BY <2>1, Bounds, <1>1 DEF Restart, LaunchTypeOK
<1>3. WindowInv' /\ CatalogInv'
  BY Bounds DEF Restart, WindowInv, CatalogInv
<1>. QED
  BY <1>1, <1>2, <1>3 DEF IInv

-----------------------------------------------------------------------------
(* The steps of the window.                                                *)

LEMMA Open == ASSUME IInv, window # None PROVE window \in Windows /\ window \in Drafts
  BY Bounds DEF LaunchTypeOK, Windows, Drafts

LEMMA OpenWindowStep ==
  ASSUME IInv, OpenWindow
  PROVE  IInv'
<1> DEFINE draft == [listening |-> FALSE, mode |-> "search", query |-> Blank, last |-> Blank,
                     pending |-> Blank, timer |-> None, results |-> None]
<1>1. draft \in Drafts /\ Blank \in Queries
  BY LauncherAssumption DEF Drafts
<1>2. Search(draft, Blank, catalog, 1) /\ strayed' = None
      /\ UNCHANGED <<offers, unannounced, catalog, events, unheard>>
  BY DEF OpenWindow
<1>. HIDE DEF draft
<1>3. /\ IndexInv' /\ store' = store
      /\ window' \in Windows
      /\ window'.listening = draft.listening /\ window'.mode = draft.mode
      /\ window'.query = draft.query /\ window'.last = draft.last
      /\ window'.pending = draft.pending /\ window'.timer = draft.timer
      /\ window'.results.query = Blank
      /\ window'.results.commands = catalog
      /\ window'.results.failed \/ window'.results.apps = store'
      /\ ~missed' /\ missed' \in BOOLEAN
      /\ happened <= happened' /\ happened' \in Nat
  BY <1>1, <1>2, Seek, Bounds
<1>4. /\ draft.mode = "search" /\ draft.query = Blank /\ draft.last = Blank
      /\ draft.pending = Blank /\ draft.timer = None
  BY DEF draft
<1>5. events = <<>>
  BY Bounds DEF OpenWindow, LaunchTypeOK
<1>6. LaunchTypeOK'
  BY <1>2, <1>3, <1>4, <1>5, Bounds DEF LaunchTypeOK
<1>7. WindowInv'
  BY <1>2, <1>3, <1>4 DEF WindowInv, Searched, Awaited
<1>8. CatalogInv' /\ offers' <= happened'
  BY <1>2, <1>3, Bounds DEF CatalogInv
<1>. QED
  BY <1>3, <1>6, <1>7, <1>8 DEF IInv

\* A search of the open window that leaves its texts and the catalogue as they are.
LEMMA SoughtAgain ==
  ASSUME IInv, window # None, NEW w \in Windows, NEW spent \in Nat,
         Search(w, window.query, catalog, spent),
         w.listening = window.listening, w.query = window.query,
         w.timer = window.timer, w.last = window.last, w.pending = window.pending,
         strayed' = window.query,
         w.mode = "view" => window.mode = "view",
         w.mode = "search" /\ window.mode = "view" => window.pending = window.last,
         UNCHANGED <<offers, unannounced, catalog, events, unheard>>
  PROVE  IInv'
<1>1. window.query \in Queries /\ w \in Drafts
  BY Open DEF Windows, Drafts
<1>2. /\ IndexInv' /\ store' = store
      /\ window' \in Windows
      /\ window'.listening = w.listening /\ window'.mode = w.mode
      /\ window'.query = w.query /\ window'.last = w.last
      /\ window'.pending = w.pending /\ window'.timer = w.timer
      /\ window'.results.query = window.query
      /\ window'.results.commands = catalog
      /\ window'.results.failed \/ window'.results.apps = store'
      /\ ~missed' /\ missed' \in BOOLEAN
      /\ happened <= happened' /\ happened' \in Nat
  BY <1>1, Seek, Bounds
<1>3. LaunchTypeOK'
  BY <1>1, <1>2, Bounds, WindowAssumption DEF LaunchTypeOK
<1>4. CatalogInv' /\ offers' <= happened'
  BY <1>2, Bounds DEF CatalogInv
<1>5. WindowInv'
  <2>1. window'.mode = "view" => window'.pending = window'.last
    BY <1>2, Bounds DEF WindowInv
  <2>2. ASSUME window'.mode = "search", window'.timer # None
        PROVE  Awaited'
    <3>1. CASE window.mode = "search"
      BY <1>2, <2>2, <3>1, Bounds DEF WindowInv, Searched, Awaited
    <3>2. CASE window.mode = "view"
      BY <1>2, <2>2, <3>2 DEF Awaited
    <3>. QED
      BY <3>1, <3>2, Open DEF Windows
  <2>3. window'.mode = "search" => Searched'
    BY <1>2, <2>2 DEF Searched
  <2>. QED
    BY <2>1, <2>3 DEF WindowInv
<1>. QED
  BY <1>2, <1>3, <1>4, <1>5 DEF IInv

LEMMA ShowStep == ASSUME IInv, Show PROVE IInv'
<1>1. window # None /\ window \in Windows
  BY Open DEF Show
<1>2. window.mode = "view" => window.pending = window.last
  BY <1>1, Bounds DEF WindowInv
<1>3. ~(window.mode = "search" /\ window.mode = "view")
  OBVIOUS
<1>. QED
  BY <1>1, <1>2, <1>3, SoughtAgain DEF Show

LEMMA CloseViewStep == ASSUME IInv, CloseView PROVE IInv'
<1> DEFINE w == [window EXCEPT !.mode = "search"]
<1>1. /\ w \in Windows /\ w.mode = "search"
      /\ w.listening = window.listening /\ w.query = window.query
      /\ w.timer = window.timer /\ w.last = window.last /\ w.pending = window.pending
  BY Open DEF CloseView, Windows
<1>2. Search(w, window.query, catalog, 0) /\ window # None /\ strayed' = window.query
      /\ UNCHANGED <<offers, unannounced, catalog, events, unheard>>
  BY DEF CloseView
<1>3. window.pending = window.last
  BY Bounds DEF CloseView, WindowInv
<1>. HIDE DEF w
<1>. QED
  BY <1>1, <1>2, <1>3, SoughtAgain

LEMMA CloseWindowStep == ASSUME IInv, CloseWindow PROVE IInv'
<1>1. IndexInv'
  BY Bounds, NoSearchInv DEF CloseWindow
<1>2. LaunchTypeOK' /\ offers' <= happened'
  <2>1. unheard' \in BOOLEAN
    BY Zenon DEF CloseWindow
  <2>. QED
    BY <2>1, Bounds DEF CloseWindow, NoSearch, LaunchTypeOK
<1>3. WindowInv'
  BY DEF CloseWindow, WindowInv
<1>4. CatalogInv'
  BY Bounds DEF CloseWindow, CatalogInv, NoPluginIn
<1>. QED
  BY <1>1, <1>2, <1>3, <1>4 DEF IInv

\* A step of the window that reads no table.
LEMMA NoTable ==
  ASSUME IInv, NoSearch, happened' \in 0..MaxEvents, happened <= happened',
         UNCHANGED <<offers, unannounced, catalog, events, unheard>>,
         window # None, window' \in Windows, window.listening => window'.listening,
         window'.timer = None => window'.pending = window'.last,
         WindowInv', strayed' = strayed
  PROVE  IInv'
<1>1. IndexInv'
  BY Bounds, NoSearchInv
<1>2. LaunchTypeOK' /\ offers' <= happened'
  BY Bounds, WindowAssumption DEF NoSearch, LaunchTypeOK
<1>3. CatalogInv'
  BY Bounds DEF CatalogInv
<1>. QED
  BY <1>1, <1>2, <1>3 DEF IInv

LEMMA ListenStep == ASSUME IInv, Listen PROVE IInv'
<1>1. /\ window' \in Windows /\ window'.listening
      /\ window'.mode = window.mode /\ window'.query = window.query
      /\ window'.last = window.last /\ window'.pending = window.pending
      /\ window'.timer = window.timer /\ window'.results = window.results
  BY Open DEF Listen, Windows
<1>2. /\ window # None /\ NoSearch /\ happened' = happened
      /\ UNCHANGED <<offers, unannounced, catalog, events, strayed, unheard>>
  BY DEF Listen
<1>3. WindowInv'
  BY <1>1, <1>2, Bounds DEF NoSearch, serviceVars, WindowInv, Searched, Awaited, Saving
<1>4. window'.timer = None => window'.pending = window'.last
  BY <1>1, <1>2, Bounds DEF LaunchTypeOK
<1>5. happened' \in 0..MaxEvents
  BY <1>2, Bounds
<1>. QED
  BY <1>1, <1>2, <1>3, <1>4, <1>5, Bounds, NoTable

\* The window after the field has changed: in a view nothing is scheduled.
LEMMA ChangedWindow ==
  ASSUME IInv, window # None, NEW w \in Windows, window' = Changed(w), NoSearch,
         w.listening = window.listening, w.mode = window.mode, w.last = window.last,
         w.pending = window.pending, w.timer = window.timer, w.results = window.results,
         UNCHANGED <<catalog, events, strayed>>
  PROVE  /\ window' \in Windows /\ window'.listening = window.listening
         /\ window'.timer = None => window'.pending = window'.last
         /\ WindowInv'
<1>1. CASE w.mode = "search"
  <2>1. /\ window' \in Windows /\ window'.listening = window.listening
        /\ window'.mode = "search" /\ window'.query = w.query /\ window'.last = window.last
        /\ window'.pending = w.query /\ window'.timer = w.query
        /\ window'.results = window.results
    BY <1>1 DEF Changed, Scheduled, Windows
  <2>2. window'.timer # None
    BY <2>1, LauncherAssumption DEF Windows
  <2>3. WindowInv'
    BY <1>1, <2>1, <2>2, Bounds
       DEF NoSearch, serviceVars, WindowInv, Searched, Awaited, Saving
  <2>. QED
    BY <2>1, <2>2, <2>3
<1>2. CASE w.mode # "search"
  <2>1. window' = w /\ w.mode = "view"
    BY <1>2 DEF Changed, Windows
  <2>. QED
    BY <2>1, Bounds DEF WindowInv, LaunchTypeOK
<1>. QED
  BY <1>1, <1>2

LEMMA EditQueryStep == ASSUME IInv, NEW q \in Queries, EditQuery(q) PROVE IInv'
<1> DEFINE w == [window EXCEPT !.query = q]
<1>1. /\ w \in Windows
      /\ w.listening = window.listening /\ w.mode = window.mode /\ w.last = window.last
      /\ w.pending = window.pending /\ w.timer = window.timer /\ w.results = window.results
  BY Open DEF EditQuery, Windows
<1>2. /\ window # None /\ window' = Changed(w) /\ NoSearch
      /\ UNCHANGED <<offers, unannounced, catalog, events, strayed, unheard>>
  BY DEF EditQuery
<1>3. happened' \in 0..MaxEvents /\ happened <= happened'
  BY Bounds, EventBound DEF EditQuery, Event, IndexInv
<1>. HIDE DEF w
<1>. QED
  BY <1>1, <1>2, <1>3, ChangedWindow, NoTable

LEMMA BlinkStep == ASSUME IInv, Blink PROVE IInv'
<1>1. happened' \in 0..MaxEvents /\ happened <= happened' /\ window \in Windows
  BY Bounds, Open DEF Blink
<1>. QED
  BY <1>1, ChangedWindow, NoTable DEF Blink

LEMMA TimerStep == ASSUME IInv, Timer PROVE IInv'
<1>1. /\ window # None /\ window.timer # None /\ window \in Windows
      /\ UNCHANGED <<offers, unannounced, catalog, events, strayed, unheard>>
  BY Open DEF Timer
<1>2. CASE window.pending = window.last
  <2>1. window' = [window EXCEPT !.timer = None] /\ NoSearch /\ happened' = happened
    BY <1>2 DEF Timer
  <2>2. /\ window' \in Windows /\ window'.listening = window.listening
        /\ window'.mode = window.mode /\ window'.query = window.query
        /\ window'.last = window.last /\ window'.pending = window.pending
        /\ window'.timer = None /\ window'.results = window.results
    BY <1>1, <2>1 DEF Windows
  <2>3. WindowInv'
    BY <1>1, <1>2, <2>1, <2>2, Bounds
       DEF NoSearch, serviceVars, WindowInv, Searched, Awaited, Saving
  <2>. QED
    BY <1>1, <1>2, <2>1, <2>2, <2>3, Bounds, NoTable
<1>3. CASE window.pending # window.last
  <2> DEFINE w == [window EXCEPT !.timer = None, !.last = window.timer,
                                 !.pending = window.timer]
  <2>1. /\ window.mode = "search" /\ window.timer = window.query
    BY <1>1, <1>3, Bounds DEF WindowInv, Searched, Awaited, Windows
  <2>2. /\ w \in Drafts /\ w.mode = "search" /\ w.timer = None
        /\ w.listening = window.listening /\ w.query = window.query
        /\ w.last = window.query /\ w.pending = window.query /\ window.query \in Queries
    BY <1>1, <2>1 DEF Windows, Drafts
  <2>3. Search(w, window.query, catalog, 0)
    BY <1>3, <2>1 DEF Timer
  <2>. HIDE DEF w
  <2>4. /\ IndexInv' /\ store' = store
        /\ window' \in Windows
        /\ window'.listening = w.listening /\ window'.mode = w.mode
        /\ window'.query = w.query /\ window'.last = w.last
        /\ window'.pending = w.pending /\ window'.timer = w.timer
        /\ window'.results.query = window.query
        /\ window'.results.commands = catalog
        /\ window'.results.failed \/ window'.results.apps = store'
        /\ ~missed' /\ missed' \in BOOLEAN
        /\ happened <= happened' /\ happened' \in Nat
    BY <2>2, <2>3, Seek, Bounds
  <2>5. LaunchTypeOK'
    BY <1>1, <2>2, <2>4, Bounds, WindowAssumption DEF LaunchTypeOK
  <2>6. WindowInv'
    BY <1>1, <2>2, <2>4 DEF WindowInv, Searched, Awaited
  <2>7. CatalogInv' /\ offers' <= happened'
    BY <1>1, <2>4, Bounds DEF CatalogInv
  <2>. QED
    BY <2>4, <2>5, <2>6, <2>7 DEF IInv
<1>. QED
  BY <1>2, <1>3

LEMMA OpenViewStep == ASSUME IInv, OpenView PROVE IInv'
<1>1. /\ window # None /\ window \in Windows /\ NoSearch
      /\ UNCHANGED <<offers, unannounced, catalog, events, strayed, unheard>>
  BY Open DEF OpenView
<1>2. LaunchInput[window.query] \in Queries
  BY <1>1, LauncherAssumption DEF Windows
<1>3. /\ window' \in Windows /\ window'.listening = window.listening
      /\ window'.mode = "view" /\ window'.pending = window'.last
  BY <1>1, <1>2 DEF OpenView, Windows
<1>4. WindowInv'
  BY <1>3 DEF WindowInv
<1>5. happened' \in 0..MaxEvents /\ happened <= happened'
  BY Bounds, EventBound DEF OpenView, Event, IndexInv
<1>. QED
  BY <1>1, <1>3, <1>4, <1>5, NoTable

\* The events left, and the catalogue: a plugin's event brings what is offered now,
\* or is as good as unheard.
LEMMA Received ==
  ASSUME IInv, HandleEvent
  PROVE  /\ events' \in Seq({"index", "plugin"})
         /\ catalog' \in 0..MaxEvents /\ catalog' \in 0..offers
         /\ window.listening /\ unheard' \in BOOLEAN
         /\ CatalogInv'
<1>1. /\ events \in Seq({"index", "plugin"}) /\ events # <<>> /\ events' = Tail(events)
      /\ UNCHANGED <<offers, unannounced>> /\ window.listening
      /\ Rebuild(Head(events))
  BY Bounds DEF HandleEvent, LaunchTypeOK
<1>2. events' \in Seq({"index", "plugin"})
  BY <1>1
<1>3. catalog' \in 0..offers /\ catalog' \in 0..MaxEvents
  <2>1. catalog' \in {catalog, offers}
    BY <1>1 DEF Rebuild
  <2>. QED
    BY <2>1, Bounds
<1>4. unheard' \in BOOLEAN
  <2>1. unheard \in BOOLEAN
    BY Bounds DEF LaunchTypeOK
  <2>2. CASE Head(events) = "plugin"
    BY <1>1, <2>2, Zenon DEF Rebuild
  <2>3. CASE Head(events) # "plugin"
    BY <1>1, <2>1, <2>3, Zenon DEF Rebuild
  <2>. QED
    BY <2>2, <2>3
<1>5. ASSUME Head(events) = "plugin" PROVE CatalogInv'
  <2>1. catalog' = offers' \/ unheard'
    BY <1>1, <1>5 DEF Rebuild
  <2>. QED
    BY <2>1 DEF CatalogInv
<1>6. ASSUME Head(events) # "plugin" PROVE CatalogInv'
  <2>1. catalog' = catalog /\ (unheard' <=> unheard)
    BY <1>1, <1>6 DEF Rebuild
  <2>2. NoPluginIn(events') => NoPluginIn(events)
    <3>1. ASSUME NoPluginIn(events'), NEW i \in DOMAIN events
          PROVE  events[i] # "plugin"
      <4>1. CASE i = 1
        BY <1>1, <1>6, <4>1
      <4>2. CASE i # 1
        <5>1. i - 1 \in DOMAIN events' /\ events'[i - 1] = events[i]
          BY <1>1, <4>2
        <5>. QED
          BY <3>1, <5>1 DEF NoPluginIn
      <4>. QED
        BY <4>1, <4>2
    <3>. QED
      BY <3>1 DEF NoPluginIn
  <2>3. ASSUME ~unannounced', ~unheard', NoPluginIn(events')
        PROVE  catalog' = offers'
    <3>1. ~unannounced /\ ~unheard
      BY <1>1, <2>1, <2>3
    <3>. QED
      BY <1>1, <2>1, <2>2, <2>3, <3>1, Bounds DEF CatalogInv
  <2>. QED
    BY <2>3 DEF CatalogInv
<1>. QED
  BY <1>1, <1>2, <1>3, <1>4, <1>5, <1>6

LEMMA HandleEventStep == ASSUME IInv, HandleEvent PROVE IInv'
<1>1. /\ window # None /\ window \in Windows
      /\ UNCHANGED <<offers, unannounced, strayed>> /\ Refreshed(catalog')
  BY Open DEF HandleEvent
<1>2. CASE window.mode = "search"
  <2> DEFINE w == [window EXCEPT !.last = window.query, !.pending = window.query]
  <2>1. /\ w \in Drafts /\ w.mode = "search" /\ w.timer = window.timer
        /\ w.listening = window.listening /\ w.query = window.query
        /\ w.last = window.query /\ w.pending = window.query /\ window.query \in Queries
    BY <1>1, <1>2 DEF Windows, Drafts
  <2>2. Search(w, window.query, catalog', 0)
    BY <1>1, <1>2 DEF Refreshed
  <2>. HIDE DEF w
  <2>3. /\ IndexInv' /\ store' = store
        /\ window' \in Windows
        /\ window'.listening = w.listening /\ window'.mode = w.mode
        /\ window'.query = w.query /\ window'.last = w.last
        /\ window'.pending = w.pending /\ window'.timer = w.timer
        /\ window'.results.query = window.query
        /\ window'.results.commands = catalog'
        /\ window'.results.failed \/ window'.results.apps = store'
        /\ ~missed' /\ missed' \in BOOLEAN
        /\ happened <= happened' /\ happened' \in Nat
    BY <2>1, <2>2, Received, Seek, Bounds
  <2>4. LaunchTypeOK'
    BY <1>1, <2>1, <2>3, Received, Bounds, WindowAssumption DEF LaunchTypeOK
  <2>5. WindowInv'
    BY <2>1, <2>3 DEF WindowInv, Searched, Awaited
  <2>6. offers' <= happened'
    BY <1>1, <2>3, Bounds
  <2>. QED
    BY <2>3, <2>4, <2>5, <2>6, Received DEF IInv
<1>3. CASE window.mode # "search"
  <2>1. window' = window /\ happened' = happened /\ NoSearch
    BY <1>1, <1>3 DEF Refreshed
  <2>2. IndexInv'
    BY <2>1, Bounds, NoSearchInv
  <2>3. LaunchTypeOK' /\ offers' <= happened'
    BY <1>1, <2>1, Received, Bounds DEF NoSearch, LaunchTypeOK
  <2>4. WindowInv'
    BY <1>3, <2>1, Bounds DEF WindowInv
  <2>. QED
    BY <2>2, <2>3, <2>4, Received DEF IInv
<1>. QED
  BY <1>2, <1>3

-----------------------------------------------------------------------------
LEMMA InitInv == Init => IInv
<1>. SUFFICES ASSUME Init PROVE IInv
  OBVIOUS
<1>1. IndexInv /\ happened = 0
  BY IndexInitInv DEF Init, IndexInit
<1>2. missed \in BOOLEAN /\ unheard \in BOOLEAN /\ unannounced \in BOOLEAN
  BY Zenon DEF Init
<1>3. LaunchTypeOK /\ offers <= happened
  BY <1>1, <1>2, IndexAssumption DEF Init, LaunchTypeOK
<1>4. WindowInv /\ CatalogInv
  BY DEF Init, WindowInv, CatalogInv
<1>. QED
  BY <1>1, <1>3, <1>4 DEF IInv

LEMMA StepInv == IInv /\ [Next]_vars => IInv'
<1>. SUFFICES ASSUME IInv, [Next]_vars PROVE IInv'
  OBVIOUS
<1>1. CASE UNCHANGED vars
  <2>1. UNCHANGED indexVars /\ UNCHANGED launcherVars
    BY <1>1 DEF vars
  <2>2. IndexInv'
    BY <2>1, Bounds
       DEF indexVars, serviceVars, IndexInv, IndexTypeOK, NoneRuns, InTurn, Heeding, Busy
  <2>3. LaunchTypeOK' /\ WindowInv' /\ CatalogInv' /\ offers' <= happened'
    BY <2>1, Bounds
       DEF indexVars, serviceVars, launcherVars, LaunchTypeOK, WindowInv, Searched,
           Awaited, Saving, CatalogInv
  <2>. QED
    BY <2>2, <2>3 DEF IInv
<1>2. CASE Around \/ RefreshAnnounces
  BY <1>2, AroundStep, AnnounceIndexStep
<1>3. CASE SaveCommands \/ AnnounceCommands \/ Restart
  BY <1>3, SaveCommandsStep, AnnounceCommandsStep, RestartStep
<1>4. CASE OpenWindow \/ Show \/ CloseWindow \/ Listen
  BY <1>4, OpenWindowStep, ShowStep, CloseWindowStep, ListenStep
<1>5. CASE (\E q \in Queries : EditQuery(q)) \/ Blink \/ Timer
  BY <1>5, EditQueryStep, BlinkStep, TimerStep
<1>6. CASE OpenView \/ CloseView \/ HandleEvent
  BY <1>6, OpenViewStep, CloseViewStep, HandleEventStep
<1>. QED
  BY <1>1, <1>2, <1>3, <1>4, <1>5, <1>6 DEF Next

LEMMA Inductive == Spec => []IInv
  BY InitInv, StepInv, PTL DEF Spec

\* The index and the launcher keep their shapes, and only a window that has
\* subscribed to the bus holds events.
THEOREM TypeCorrect == Spec => []TypeOK
<1>1. IInv => TypeOK
  BY DEF IInv, IndexInv, LaunchTypeOK, TypeOK
<1>. QED
  BY <1>1, Inductive, PTL

\* Whatever refreshes overlap, fail or are skipped: none is shown as running when none
\* runs, and memory, table and disk agree when no forced scan came in between.
THEOREM IndexSettles == Spec => []IndexAtRest
<1>1. IInv => IndexAtRest
  BY DEF IInv, IndexInv, NoneRuns, InTurn, Heeding, IndexAtRest
<1>. QED
  BY <1>1, Inductive, PTL

\* When the timer has run, the list is that of the text in the field, however the
\* text was edited while timers were replaced, views opened and events handled.
THEOREM ListAnswers == Spec => []AnswersQuery
<1>1. IInv => AnswersQuery
  BY DEF IInv, WindowInv, Searched, AnswersQuery
<1>. QED
  BY <1>1, Inductive, PTL

\* At rest the list is what the tables hold and the catalogue what the plugins offer,
\* unless an event had no receiver or the read failed.
THEOREM FreshAtRest == Spec => []ListIsFresh
<1>1. IInv => ListIsFresh
  <2>. SUFFICES ASSUME IInv, AtRest, ~missed
                PROVE  /\ window.results.failed \/ window.results.apps = store
                       /\ window.results.commands = IF unheard THEN catalog ELSE offers
    BY DEF ListIsFresh
  <2>1. ~Saving
    BY DEF AtRest, Busy, Saving
  <2>2. Searched /\ events = <<>> /\ ~unannounced
    BY Bounds DEF AtRest, WindowInv
  <2>3. ~unheard => catalog = offers
    BY <2>2, Bounds DEF CatalogInv, NoPluginIn
  <2>. QED
    BY <2>1, <2>2, <2>3 DEF Searched
<1>. QED
  BY <1>1, Inductive, PTL

-----------------------------------------------------------------------------
(* AppEventBus, on which the index and the plugins publish and to which    *)
(* the launcher and views subscribe, for any publishers, receivers and     *)
(* number of events.                                                       *)

\* A publication under way has a revision of its own, which nobody has got yet.
OwnRevision == \A p \in Publishers : pc[p] # "idle" =>
    /\ held[p] <= revision
    /\ \A q \in Publishers : q # p /\ pc[q] # "idle" => held[q] # held[p]
    /\ \A r \in Receivers : ~Got(r, held[p])

\* Only revisions that were drawn are sent, and only to those who subscribed.
DrawnOnly == \A r \in Receivers : \A i \in DOMAIN sent[r] : sent[r][i] <= revision
Subscribed == alive \subseteq subscribers /\ \A r \in Receivers : since[r] <= revision

BusInv == /\ BusTypeOK /\ OwnRevision /\ DrawnOnly /\ Subscribed
       /\ NothingLost /\ NoDuplicateDelivery /\ SameOrderEverywhere

-----------------------------------------------------------------------------
LEMMA BusTypeStep == ASSUME BusAssumption, BusTypeOK, [BusNext]_busVars PROVE BusTypeOK'
<1> USE DEF BusAssumption, BusTypeOK, Steps
<1>1. ASSUME NEW p \in Publishers, DrawRevision(p)
      PROVE  BusTypeOK'
  BY <1>1 DEF DrawRevision, Drawn
<1>2. ASSUME NEW p \in Publishers, StoreLast(p)
      PROVE  BusTypeOK'
  BY <1>2 DEF StoreLast
<1>3. ASSUME NEW p \in Publishers, Broadcast(p)
      PROVE  BusTypeOK'
  <2>1. held[p] \in 1..MaxRevision
    BY <1>3 DEF Broadcast
  <2>2. ASSUME NEW r \in Receivers
        PROVE  Append(sent[r], held[p]) \in Seq(1..MaxRevision)
    BY <2>1
  <2>3. sent' \in [Receivers -> Seq(1..MaxRevision)]
    BY <1>3, <2>2 DEF Broadcast, Reached
  <2>4. QED
    BY <1>3, <2>3 DEF Broadcast, Reached
<1>4. ASSUME NEW r \in Receivers, Subscribe(r)
      PROVE  BusTypeOK'
  BY <1>4 DEF Subscribe
<1>5. ASSUME NEW r \in Receivers, DropReceiver(r)
      PROVE  BusTypeOK'
  BY <1>5 DEF DropReceiver
<1>6. CASE UNCHANGED busVars
  BY <1>6 DEF busVars
<1>7. QED
  BY <1>1, <1>2, <1>3, <1>4, <1>5, <1>6 DEF BusNext

\* What a broadcast leaves in each channel: what was there, and for those it
\* reaches one event more.
LEMMA Channels ==
    ASSUME BusTypeOK, NEW p \in Publishers, Broadcast(p), NEW r \in Receivers
    PROVE  /\ Len(sent[r]) \in Nat /\ DOMAIN sent[r] = 1..Len(sent[r])
           /\ DOMAIN sent'[r] = 1..(IF r \in Reached THEN Len(sent[r]) + 1 ELSE Len(sent[r]))
           /\ \A i \in 1..Len(sent[r]) : sent'[r][i] = sent[r][i]
           /\ r \in Reached => sent'[r][Len(sent[r]) + 1] = held[p]
<1>1. sent[r] \in Seq(1..MaxRevision)
  BY DEF BusTypeOK
<1>2. sent'[r] = IF r \in Reached THEN Append(sent[r], held[p]) ELSE sent[r]
  BY DEF Broadcast
<1>3. QED
  BY <1>1, <1>2

\* What a broadcast adds, to whom; nobody had it before.
LEMMA Delivers ==
    ASSUME BusInv, NEW p \in Publishers, Broadcast(p), NEW r \in Receivers
    PROVE  /\ \A i \in DOMAIN sent'[r] :
                 (i \in DOMAIN sent[r] /\ sent'[r][i] = sent[r][i]) \/ sent'[r][i] = held[p]
           /\ \A i \in DOMAIN sent[r] :
                 i \in DOMAIN sent'[r] /\ sent'[r][i] = sent[r][i] /\ sent[r][i] # held[p]
           /\ r \in Reached => \E i \in DOMAIN sent'[r] : sent'[r][i] = held[p]
<1>1. \A i \in DOMAIN sent[r] : sent[r][i] # held[p]
  BY DEF BusInv, OwnRevision, Broadcast, Got
<1>2. QED
  BY <1>1, Channels DEF BusInv

-----------------------------------------------------------------------------
LEMMA BusDrawStep == ASSUME BusAssumption, BusInv, NEW p \in Publishers, DrawRevision(p) PROVE BusInv'
<1>1. BusTypeOK'
  BY BusTypeStep DEF BusInv, BusNext
<1>2. /\ revision' = revision + 1 /\ revision \in Nat
      /\ pc' = [pc EXCEPT ![p] = "drawn"] /\ held' = [held EXCEPT ![p] = revision + 1]
      /\ UNCHANGED <<subscribers, alive, sent, since>>
  BY DEF DrawRevision, Drawn, BusInv, BusTypeOK
<1>3. \A r \in Receivers : /\ sent[r] \in Seq(Nat) /\ since[r] \in Nat
                           /\ \A i \in DOMAIN sent[r] : sent[r][i] \in Nat
  BY DEF BusInv, BusTypeOK
<1>4. \A q \in Publishers : held[q] \in Nat /\ (q # p => pc'[q] = pc[q] /\ held'[q] = held[q])
  BY <1>2 DEF BusInv, BusTypeOK
<1>5. pc'[p] = "drawn" /\ held'[p] = revision + 1
  BY <1>2 DEF BusInv, BusTypeOK
<1>6. OwnRevision'
  <2>1. \A r \in Receivers : ~Got(r, revision + 1)
    BY <1>2, <1>3 DEF BusInv, DrawnOnly, Got
  <2>2. \A q \in Publishers : q # p /\ pc[q] # "idle" => held[q] <= revision /\ held[q] # revision + 1
    BY <1>2, <1>4 DEF BusInv, OwnRevision
  <2>4. ASSUME NEW q \in Publishers, pc'[q] # "idle", q # p
        PROVE  /\ held'[q] <= revision'
               /\ \A o \in Publishers : o # q /\ pc'[o] # "idle" => held'[o] # held'[q]
               /\ \A r \in Receivers : ~Got(r, held'[q])
    BY <1>2, <1>4, <1>5, <2>2, <2>4 DEF BusInv, OwnRevision
  <2>5. /\ held'[p] <= revision'
        /\ \A o \in Publishers : o # p /\ pc'[o] # "idle" => held'[o] # held'[p]
        /\ \A r \in Receivers : ~Got(r, held'[p])
    BY <1>2, <1>4, <1>5, <2>1, <2>2
  <2>6. QED
    BY <1>2, <2>4, <2>5 DEF OwnRevision, Got
<1>7. DrawnOnly' /\ Subscribed'
  BY <1>2, <1>3 DEF BusInv, DrawnOnly, Subscribed
<1>8. NothingLost'
  <2> SUFFICES ASSUME NEW r \in alive, NEW rev \in (since[r] + 1)..(revision + 1)
               PROVE  Got(r, rev) \/ InFlight(rev)'
    BY <1>2 DEF NothingLost, Got
  <2>1. CASE rev = revision + 1
    BY <1>5, <2>1 DEF InFlight
  <2>2. CASE rev # revision + 1
    <3>1. Got(r, rev) \/ InFlight(rev)
      BY <1>2, <1>3, <2>2 DEF BusInv, NothingLost, BusTypeOK
    <3>2. InFlight(rev) => InFlight(rev)'
      BY <1>4 DEF InFlight, DrawRevision
    <3>3. QED
      BY <3>1, <3>2
  <2>3. QED
    BY <2>1, <2>2
<1>9. QED
  BY <1>1, <1>2, <1>6, <1>7, <1>8 DEF BusInv, NoDuplicateDelivery, SameOrderEverywhere

LEMMA BusStoreStep == ASSUME BusAssumption, BusInv, NEW p \in Publishers, StoreLast(p) PROVE BusInv'
<1>1. BusTypeOK'
  BY BusTypeStep DEF BusInv, BusNext
<1>2. /\ pc[p] = "drawn" /\ pc' = [pc EXCEPT ![p] = "stored"]
      /\ UNCHANGED <<revision, subscribers, alive, held, sent, since>>
  BY DEF StoreLast
<1>3. \A q \in Publishers : pc'[q] # "idle" <=> pc[q] # "idle"
  BY <1>2 DEF BusInv, BusTypeOK
<1>4. OwnRevision' /\ \A rev : InFlight(rev)' <=> InFlight(rev)
  BY <1>2, <1>3 DEF BusInv, OwnRevision, Got, InFlight
<1>5. NothingLost'
  BY <1>2, <1>4 DEF BusInv, NothingLost, Got
<1>6. QED
  BY <1>1, <1>2, <1>4, <1>5 DEF BusInv, DrawnOnly, Subscribed, NoDuplicateDelivery, SameOrderEverywhere

LEMMA BusBroadcastStep == ASSUME BusAssumption, BusInv, NEW p \in Publishers, Broadcast(p) PROVE BusInv'
<1>1. BusTypeOK'
  BY BusTypeStep DEF BusInv, BusNext
<1>2. /\ pc[p] = "stored" /\ pc' = [pc EXCEPT ![p] = "idle"]
      /\ subscribers' = Reached /\ alive \subseteq Reached
      /\ UNCHANGED <<revision, alive, held, since>>
  BY DEF Broadcast, Reached, BusInv, Subscribed
<1>3. pc'[p] = "idle" /\ \A q \in Publishers : q # p => pc'[q] = pc[q]
  BY <1>2 DEF BusInv, BusTypeOK
<1>4. OwnRevision'
  <2> SUFFICES ASSUME NEW q \in Publishers, pc'[q] # "idle"
               PROVE  /\ held[q] <= revision
                      /\ \A o \in Publishers : o # q /\ pc'[o] # "idle" => held[o] # held[q]
                      /\ \A r \in Receivers : \A i \in DOMAIN sent'[r] : sent'[r][i] # held[q]
    BY <1>2 DEF OwnRevision, Got
  <2>1. q # p /\ pc[q] # "idle" /\ held[q] # held[p]
    BY <1>2, <1>3 DEF BusInv, OwnRevision
  <2>2. \A r \in Receivers : \A i \in DOMAIN sent[r] : sent[r][i] # held[q]
    BY <2>1 DEF BusInv, OwnRevision, Got
  <2>3. \A r \in Receivers : \A i \in DOMAIN sent'[r] : sent'[r][i] # held[q]
    BY <2>1, <2>2, Delivers
  <2>4. QED
    BY <1>3, <2>1, <2>3 DEF BusInv, OwnRevision
<1>5. DrawnOnly' /\ Subscribed'
  <2>1. held[p] <= revision
    BY <1>2 DEF BusInv, OwnRevision
  <2>2. DrawnOnly'
    <3> SUFFICES ASSUME NEW r \in Receivers, NEW i \in DOMAIN sent'[r]
                 PROVE  sent'[r][i] <= revision
      BY <1>2 DEF DrawnOnly
    <3>1. QED
      BY <2>1, Delivers DEF BusInv, DrawnOnly
  <2>3. QED
    BY <1>2, <2>2 DEF BusInv, Subscribed
<1>6. NothingLost'
  <2> SUFFICES ASSUME NEW r \in alive, NEW rev \in (since[r] + 1)..revision
               PROVE  (\E i \in DOMAIN sent'[r] : sent'[r][i] = rev) \/ InFlight(rev)'
    BY <1>2 DEF NothingLost, Got
  <2>1. r \in Receivers /\ r \in Reached
    BY <1>2 DEF BusInv, BusTypeOK
  <2>2. Got(r, rev) \/ InFlight(rev)
    BY DEF BusInv, NothingLost
  <2>3. CASE Got(r, rev) \/ rev = held[p]
    BY <2>1, <2>3, Delivers DEF Got
  <2>4. CASE InFlight(rev) /\ rev # held[p]
    BY <1>2, <1>3, <2>4 DEF InFlight
  <2>5. QED
    BY <2>2, <2>3, <2>4
<1>7. NoDuplicateDelivery'
  <2> SUFFICES ASSUME NEW r \in Receivers, NEW i \in DOMAIN sent'[r], NEW j \in DOMAIN sent'[r], i # j
               PROVE  sent'[r][i] # sent'[r][j]
    BY DEF NoDuplicateDelivery
  <2>1. \A k \in DOMAIN sent[r] : sent'[r][k] = sent[r][k] /\ sent[r][k] # held[p]
    BY Delivers
  <2>2. i \in DOMAIN sent[r] \/ j \in DOMAIN sent[r]
    BY Channels DEF BusInv
  <2>3. i \in DOMAIN sent[r] /\ j \in DOMAIN sent[r] => sent[r][i] # sent[r][j]
    BY DEF BusInv, NoDuplicateDelivery
  <2>4. \A k \in DOMAIN sent'[r] : k \notin DOMAIN sent[r] => sent'[r][k] = held[p]
    BY Delivers
  <2>5. QED
    BY <2>1, <2>2, <2>3, <2>4
<1>8. SameOrderEverywhere'
  <2> SUFFICES ASSUME NEW r \in Receivers, NEW s \in Receivers,
                      NEW i \in DOMAIN sent'[r], NEW j \in DOMAIN sent'[r],
                      NEW k \in DOMAIN sent'[s], NEW l \in DOMAIN sent'[s],
                      sent'[r][i] = sent'[s][k], sent'[r][j] = sent'[s][l], i < j
               PROVE  k < l
    BY DEF SameOrderEverywhere
  <2>1. \A q \in Receivers : \A m \in DOMAIN sent[q] : sent[q][m] # held[p]
    BY Delivers
  <2>2. i \in DOMAIN sent[r] /\ sent'[r][i] = sent[r][i]
    BY Channels DEF BusInv
  <2>3. k \in DOMAIN sent[s] /\ sent'[s][k] = sent[s][k]
    <3>1. sent'[s][k] # held[p]
      BY <2>1, <2>2
    <3>2. QED
      BY <3>1, Delivers
  <2>4. CASE l \in DOMAIN sent[s]
    <3>1. j \in DOMAIN sent[r] /\ sent'[r][j] = sent[r][j] /\ sent'[s][l] = sent[s][l]
      BY <2>4, Delivers
    <3>2. QED
      BY <2>2, <2>3, <2>4, <3>1 DEF BusInv, SameOrderEverywhere
  <2>5. CASE l \notin DOMAIN sent[s]
    BY <2>3, <2>5, Channels DEF BusInv
  <2>6. QED
    BY <2>4, <2>5
<1>9. QED
  BY <1>1, <1>4, <1>5, <1>6, <1>7, <1>8 DEF BusInv

LEMMA BusSubscribeStep == ASSUME BusAssumption, BusInv, NEW r \in Receivers, Subscribe(r) PROVE BusInv'
<1>1. BusTypeOK'
  BY BusTypeStep DEF BusInv, BusNext
<1>2. /\ alive' = alive \cup {r} /\ subscribers' = subscribers \cup {r}
      /\ since' = [since EXCEPT ![r] = revision] /\ revision \in Nat
      /\ UNCHANGED <<revision, pc, held, sent>>
  BY DEF Subscribe, BusInv, BusTypeOK
<1>3. Subscribed'
  BY <1>2 DEF BusInv, Subscribed, BusTypeOK
<1>4. NothingLost'
  <2>1. ASSUME NEW s \in alive, s # r, NEW rev \in (since[s] + 1)..revision
        PROVE  Got(s, rev) \/ InFlight(rev)
    BY <1>2, <2>1 DEF BusInv, NothingLost, Got, InFlight
  <2>2. since'[r] = revision /\ \A s \in alive : s # r => since'[s] = since[s]
    BY <1>2 DEF BusInv, BusTypeOK
  <2>3. QED
    BY <1>2, <2>1, <2>2 DEF NothingLost, Got, InFlight
<1>5. QED
  BY <1>1, <1>2, <1>3, <1>4
     DEF BusInv, OwnRevision, DrawnOnly, NoDuplicateDelivery, SameOrderEverywhere, Got

LEMMA BusDropStep == ASSUME BusAssumption, BusInv, NEW r \in Receivers, DropReceiver(r) PROVE BusInv'
<1>1. BusTypeOK'
  BY BusTypeStep DEF BusInv, BusNext
<1>2. alive' = alive \ {r} /\ UNCHANGED <<revision, subscribers, pc, held, sent, since>>
  BY DEF DropReceiver
<1>3. QED
  BY <1>1, <1>2
     DEF BusInv, OwnRevision, DrawnOnly, Subscribed, NothingLost, NoDuplicateDelivery,
         SameOrderEverywhere, Got, InFlight

-----------------------------------------------------------------------------
\* The inductive invariant of the bus holds in every state publish(),
\* subscribe() and dropped receivers can reach.
THEOREM BusInvariance == BusSpec => []BusInv
<1> USE BusAssumption
<1>1. BusInit => BusInv
  BY DEF BusAssumption, BusInit, BusInv, BusTypeOK, Steps, OwnRevision, DrawnOnly, Subscribed,
         NothingLost, NoDuplicateDelivery, SameOrderEverywhere
<1>2. BusInv /\ [BusNext]_busVars => BusInv'
  <2>1. BusInv /\ UNCHANGED busVars => BusInv'
    BY DEF busVars, BusInv, BusTypeOK, OwnRevision, DrawnOnly, Subscribed, NothingLost,
           NoDuplicateDelivery, SameOrderEverywhere, Got, InFlight
  <2>2. QED
    BY <2>1, BusDrawStep, BusStoreStep, BusBroadcastStep, BusSubscribeStep, BusDropStep DEF BusNext
<1>3. QED
  BY <1>1, <1>2, PTL DEF BusSpec

\* Every variable of the bus keeps its shape, and an event being published
\* has a revision of at least 1 (publish(), fetch_add + 1).
THEOREM BusTypeCorrect == BusSpec => []BusTypeOK
<1>1. BusInv => BusTypeOK
  BY DEF BusInv
<1>2. QED
  BY <1>1, BusInvariance, PTL

\* No live subscriber misses an event drawn after it subscribed, however many
\* publishers interleave inside publish() and whoever else is dropped.
THEOREM BusComplete == BusSpec => []NothingLost
<1>1. BusInv => NothingLost
  BY DEF BusInv
<1>2. QED
  BY <1>1, BusInvariance, PTL

\* No subscriber gets an event twice: fetch_add gives each its own revision,
\* and publish() sends it once.
THEOREM BusAtMostOnce == BusSpec => []NoDuplicateDelivery
<1>1. BusInv => NoDuplicateDelivery
  BY DEF BusInv
<1>2. QED
  BY <1>1, BusInvariance, PTL

\* All subscribers agree on the order of the events they share, since
\* publish() sends each to all of them under one lock.
THEOREM BusOneOrder == BusSpec => []SameOrderEverywhere
<1>1. BusInv => SameOrderEverywhere
  BY DEF BusInv
<1>2. QED
  BY <1>1, BusInvariance, PTL
=============================================================================
