----------------------------- MODULE Capture_proofs -----------------------------
(***************************************************************************)
(* Proofs about CaptureEngine and Capture, for any number of proxies,      *)
(* exchanges, clicks and failed statements and any size of the page.       *)
(***************************************************************************)
EXTENDS Capture, TLAPS

-----------------------------------------------------------------------------
(* The engine.                                                             *)

ProxyRec == [pc : {"building", "serving", "over"}, told : BOOLEAN,
             said : {"nothing", "ok", "error"}, owes : Nat]

\* While start() waits the engine is stopped; otherwise it runs a proxy or none.
EngineInv ==
    /\ proxy \in Seq(ProxyRec)
    /\ engine = Stopped \/ \E i \in DOMAIN proxy : engine = Running(i)
    /\ starting # None => starting \in DOMAIN proxy /\ engine = Stopped
    /\ NoGhostProxy

\* One thread goes on: it is told nothing, and one that is over stays over.
LEMMA ProxyMoves ==
    ASSUME EngineInv, NEW i \in DOMAIN proxy, NEW f \in ProxyRec, proxy' = [proxy EXCEPT ![i] = f]
    PROVE  /\ proxy' \in Seq(ProxyRec) /\ DOMAIN proxy' = DOMAIN proxy
           /\ \A j \in DOMAIN proxy : proxy'[j] = IF j = i THEN f ELSE proxy[j]
  BY DEF EngineInv

LEMMA ThreadGoesOn ==
    ASSUME EngineInv, NEW i \in DOMAIN proxy, NEW f \in ProxyRec, proxy' = [proxy EXCEPT ![i] = f],
           f.told = proxy[i].told, f.pc # "over" => proxy[i].pc # "over", UNCHANGED <<engine, starting>>
    PROVE  EngineInv'
  <1>1. /\ proxy' \in Seq(ProxyRec) /\ DOMAIN proxy' = DOMAIN proxy
        /\ \A j \in DOMAIN proxy : proxy'[j] = IF j = i THEN f ELSE proxy[j]
    BY ProxyMoves
  <1>2. NoGhostProxy'
    BY <1>1 DEF EngineInv, NoGhostProxy
  <1> QED BY <1>1, <1>2 DEF EngineInv

LEMMA ProxyShape ==
    ASSUME EngineInv
    PROVE  /\ Len(proxy) \in Nat /\ DOMAIN proxy = 1..Len(proxy)
           /\ \A i \in DOMAIN proxy : proxy[i] \in ProxyRec /\ i # None
           /\ engine.running => engine.tx \in DOMAIN proxy /\ engine = Running(engine.tx)
           /\ ~engine.running => engine = Stopped
  <1>1. proxy \in Seq(ProxyRec)
    BY DEF EngineInv
  <1>2. /\ Len(proxy) \in Nat /\ DOMAIN proxy = 1..Len(proxy)
        /\ \A i \in DOMAIN proxy : proxy[i] \in ProxyRec /\ i # None
    BY <1>1, EngineAssumption
  <1>3. (engine.running => engine.tx \in DOMAIN proxy /\ engine = Running(engine.tx)) /\ (~engine.running => engine = Stopped)
    BY DEF EngineInv, Stopped, Running
  <1> QED BY <1>2, <1>3

LEMMA ThreadsStep ==
    ASSUME EngineInv, Threads
    PROVE  EngineInv'
  <1>1. PICK i \in DOMAIN proxy : Build(i) \/ Ends(i)
    BY DEF Threads
  <1>2. proxy[i] \in ProxyRec
    BY ProxyShape
  <1>3. UNCHANGED <<engine, starting>>
    BY <1>1 DEF Build, Ends
  <1>4. ASSUME NEW pc \in {"serving", "over"}, NEW said \in {"nothing", "ok", "error"},
               proxy[i].pc # "over", proxy' = [proxy EXCEPT ![i].pc = pc, ![i].said = said]
        PROVE  EngineInv'
    <2> DEFINE f == [proxy[i] EXCEPT !.pc = pc, !.said = said]
    <2>1. f \in ProxyRec /\ f.told = proxy[i].told /\ proxy' = [proxy EXCEPT ![i] = f]
      BY <1>2, <1>4 DEF ProxyRec
    <2> HIDE DEF f
    <2> QED BY <1>3, <1>4, <2>1, ThreadGoesOn
  <1>5. CASE Ends(i)
    <2> DEFINE f == [proxy[i] EXCEPT !.pc = "over"]
    <2>1. f \in ProxyRec /\ f.told = proxy[i].told /\ f.pc = "over" /\ proxy' = [proxy EXCEPT ![i] = f]
      BY <1>2, <1>5 DEF Ends, ProxyRec
    <2> HIDE DEF f
    <2> QED BY <1>3, <2>1, ThreadGoesOn
  <1> QED BY <1>1, <1>4, <1>5 DEF Build

\* Recording and announcing change what a thread owes.
LEMMA OwesStep ==
    ASSUME EngineInv, NEW i \in DOMAIN proxy, NEW n \in Nat,
           proxy' = [proxy EXCEPT ![i].owes = n], UNCHANGED <<engine, starting>>
    PROVE  EngineInv' /\ DOMAIN proxy' = DOMAIN proxy /\ proxy'[i].owes = n
  <1> DEFINE f == [proxy[i] EXCEPT !.owes = n]
  <1>1. proxy[i] \in ProxyRec
    BY ProxyShape
  <1>2. f \in ProxyRec /\ f.told = proxy[i].told /\ f.pc = proxy[i].pc /\ f.owes = n
    BY <1>1 DEF ProxyRec
  <1>3. proxy' = [proxy EXCEPT ![i] = f]
    BY <1>1
  <1> HIDE DEF f
  <1> QED BY <1>2, <1>3, ThreadGoesOn, ProxyMoves

LEMMA BindStep ==
    ASSUME EngineInv, Bind
    PROVE  EngineInv'
  <1> DEFINE n == Len(proxy) + 1
  <1>1. Newborn \in ProxyRec
    BY DEF Newborn, ProxyRec
  <1>2. /\ proxy' \in Seq(ProxyRec) /\ DOMAIN proxy' = DOMAIN proxy \union {n} /\ proxy'[n] = Newborn
        /\ n \notin DOMAIN proxy /\ n \in Nat
        /\ \A j \in DOMAIN proxy : proxy'[j] = proxy[j]
    <2> HIDE DEF Newborn
    <2> QED BY <1>1 DEF Bind, EngineInv
  <1>3. engine = Stopped /\ engine' = engine /\ starting' = n
    BY ProxyShape DEF Bind
  <1>4. \A j \in DOMAIN proxy : proxy[j].pc = "over"
    BY DEF Bind, PortFree
  <1> HIDE DEF n
  <1>5. NoGhostProxy'
    BY <1>2, <1>3, <1>4 DEF NoGhostProxy
  <1> QED BY <1>2, <1>3, <1>5 DEF EngineInv

\* start() gives its proxy to the engine, or leaves it over or told to end.
LEMMA StartEnds ==
    ASSUME EngineInv, Started \/ StartFails \/ StartTimesOut
    PROVE  EngineInv' /\ DOMAIN proxy' = DOMAIN proxy
  <1>0. starting \in DOMAIN proxy /\ engine = Stopped /\ proxy[starting] \in ProxyRec
    BY ProxyShape DEF Started, StartFails, StartTimesOut, Free, EngineInv
  <1>1. CASE Started \/ StartFails
    <2>1. proxy' = proxy /\ starting' = None
      BY <1>1 DEF Started, StartFails
    <2>2. engine' = Running(starting) \/ (engine' = engine /\ proxy[starting].pc = "over")
      BY <1>1 DEF Started, StartFails
    <2>3. engine' = Stopped \/ \E i \in DOMAIN proxy : engine' = Running(i)
      BY <1>0, <2>2
    <2>4. NoGhostProxy'
      <3> SUFFICES ASSUME NEW i \in DOMAIN proxy, proxy[i].pc # "over", ~proxy[i].told
                   PROVE  engine' = Running(i)
        BY <2>1 DEF NoGhostProxy
      <3>1. engine = Running(i) \/ starting = i
        BY DEF EngineInv, NoGhostProxy
      <3>2. engine # Running(i)
        BY <1>0 DEF Stopped, Running
      <3> QED BY <2>2, <3>1, <3>2
    <2> QED BY <2>1, <2>3, <2>4 DEF EngineInv
  <1>2. CASE StartTimesOut
    <2> DEFINE f == [proxy[starting] EXCEPT !.told = TRUE]
    <2>1. f \in ProxyRec /\ f.told = TRUE /\ proxy' = [proxy EXCEPT ![starting] = f]
      BY <1>0, <1>2 DEF StartTimesOut, ProxyRec
    <2> HIDE DEF f
    <2>2. /\ proxy' \in Seq(ProxyRec) /\ DOMAIN proxy' = DOMAIN proxy
          /\ \A j \in DOMAIN proxy : proxy'[j] = IF j = starting THEN f ELSE proxy[j]
      BY <1>0, <2>1, ProxyMoves
    <2>3. NoGhostProxy' /\ engine' = engine /\ starting' = None
      BY <1>2, <2>1, <2>2 DEF StartTimesOut, EngineInv, NoGhostProxy
    <2> QED BY <2>2, <2>3 DEF EngineInv
  <1> QED BY <1>1, <1>2

LEMMA StopStep ==
    ASSUME EngineInv, Stop
    PROVE  EngineInv'
  <1> DEFINE i == engine.tx
             f == [proxy[i] EXCEPT !.told = TRUE]
  <1>0. i \in DOMAIN proxy /\ engine = Running(i) /\ proxy[i] \in ProxyRec
    BY ProxyShape DEF Stop
  <1>1. /\ f \in ProxyRec /\ f.told = TRUE /\ proxy' = [proxy EXCEPT ![i] = f]
        /\ engine' = Stopped /\ starting' = starting /\ starting = None
    BY <1>0 DEF Stop, Free, ProxyRec
  <1> HIDE DEF f, i
  <1>2. /\ proxy' \in Seq(ProxyRec) /\ DOMAIN proxy' = DOMAIN proxy
        /\ \A j \in DOMAIN proxy : proxy'[j] = IF j = i THEN f ELSE proxy[j]
    BY <1>0, <1>1, ProxyMoves
  <1>3. NoGhostProxy'
    <2> SUFFICES ASSUME NEW j \in DOMAIN proxy, j # i, proxy[j].pc # "over", ~proxy[j].told
                 PROVE  FALSE
      BY <1>1, <1>2 DEF NoGhostProxy
    <2>1. engine = Running(j) \/ starting = j
      BY DEF EngineInv, NoGhostProxy
    <2>2. Running(j) # Running(i)
      BY DEF Running
    <2> QED BY <1>0, <1>1, <2>1, <2>2, ProxyShape
  <1> QED BY <1>1, <1>2, <1>3 DEF EngineInv

-----------------------------------------------------------------------------
(* The panel.                                                              *)

\* The panel's fields.  Two of its values are not looked into: a list and what
\* a task got.
IsPanel(v) ==
    v = [list |-> v.list, only |-> v.only, from |-> v.from,
         selected |-> v.selected, detail |-> v.detail, fetch |-> v.fetch,
         loading |-> v.loading, failed |-> v.failed, task |-> v.task, got |-> v.got,
         listens |-> v.listens, heard |-> v.heard, batch |-> v.batch]

Shape(v) ==
    IsPanel(v) /\ v.only \in BOOLEAN /\ v.from \in Nat /\ v.heard \in Nat /\ v.task \in Task \union {None}

\* What is selected, shown and fetched.
IsFetch(f) == f = [id |-> f.id, read |-> f.read, got |-> f.got]
Details(v) ==
    /\ v.detail # None => v.detail = v.selected
    /\ v.fetch # None => IsFetch(v.fetch) /\ v.fetch.got \in {v.fetch.id, None}

\* A page is the one the store holds, or the panel has yet to hear that it is
\* not, or a clear that was dropped has run.
Owed == \E i \in DOMAIN proxy : proxy[i].owes # 0
Told(v) == v.heard # 0 \/ v.batch \/ Owed
Fresh(v, page) == page = Page(rows, v.only, v.from) \/ unseen \/ Told(v)

\* A panel without a task lists such a page; a task that has read one reads for
\* the filter the panel has now; and both have subscribed.
Reading(v) == v.task # None /\ v.task.do = "read"
Current(v) ==
    /\ v.task = None => ~v.loading /\ v.listens /\ (v.failed \/ Fresh(v, v.list))
    /\ Reading(v) => v.task.only = v.only /\ v.task.from = v.from
    /\ Reading(v) /\ v.got # None => v.listens /\ (v.got.shown = None \/ Fresh(v, v.got))

Panel(v) == v # None => Shape(v) /\ Details(v) /\ Current(v)

Inv == EngineInv /\ Panel(view)

\* Three fields say what is listed, two what is selected of it.
Listing(u, v) == u.list = v.list /\ u.only = v.only /\ u.from = v.from
Chosen(u, v) == u.selected = v.selected /\ u.detail = v.detail /\ u.fetch = v.fetch
Tasks(u, v) == u.loading = v.loading /\ u.failed = v.failed /\ u.task = v.task
Events(u, v) == u.listens = v.listens /\ u.heard = v.heard /\ u.batch = v.batch

LEMMA RefreshingFields ==
    ASSUME NEW v, IsPanel(v), NEW u, u = Refreshing(v)
    PROVE  /\ IsPanel(u) /\ Listing(u, v) /\ Chosen(u, v) /\ Events(u, v)
           /\ u.got = None
           /\ u.task = [do |-> "read", only |-> v.only, from |-> v.from]
  <1>1. u = [v EXCEPT !.loading = TRUE, !.failed = FALSE, !.got = None,
              !.task = [do |-> "read", only |-> v.only, from |-> v.from]]
    BY DEF Refreshing
  <1>2. Listing(u, v) /\ Chosen(u, v) /\ Events(u, v)
    BY <1>1 DEF IsPanel, Listing, Chosen, Events
  <1>3. u.got = None /\ u.task = [do |-> "read", only |-> v.only, from |-> v.from]
    BY <1>1 DEF IsPanel
  <1>4. IsPanel(u)
    BY <1>1 DEF IsPanel
  <1> QED BY <1>2, <1>3, <1>4

\* A panel that refreshes has nothing yet that could be stale.
LEMMA Refreshes ==
    ASSUME NEW v, Shape(v), Details(v), NEW u, u = Refreshing(v)
    PROVE  /\ Shape(u) /\ Details(u) /\ u.got = None
           /\ u.task # None /\ u.task.do = "read" /\ u.task.only = u.only /\ u.task.from = u.from
  <1>1. /\ IsPanel(u) /\ Listing(u, v) /\ Chosen(u, v) /\ Events(u, v) /\ u.got = None
        /\ u.task = [do |-> "read", only |-> v.only, from |-> v.from]
    BY RefreshingFields DEF Shape
  <1>2. u.task \in Task /\ u.task # None
    BY <1>1, PageAssumption DEF Shape, Task
  <1>3. u.task.do = "read" /\ u.task.only = u.only /\ u.task.from = u.from
    BY <1>1 DEF Listing
  <1>4. Shape(u)
    BY <1>1, <1>2 DEF Shape, Listing, Events
  <1>5. Details(u)
    BY <1>1 DEF Details, Listing, Chosen
  <1> QED BY <1>1, <1>2, <1>3, <1>4, <1>5

LEMMA RefreshStep ==
    ASSUME NEW v, Shape(v), Details(v), view' = Refreshing(v)
    PROVE  Panel(view)'
  <1>1. /\ Shape(view') /\ Details(view') /\ view'.got = None
        /\ view'.task # None /\ view'.task.do = "read" /\ view'.task.only = view'.only /\ view'.task.from = view'.from
    BY Refreshes
  <1>2. Current(view)'
    BY <1>1 DEF Current, Reading
  <1> QED BY <1>1, <1>2 DEF Panel

\* The panel does not change; what it has to hear of, it will hear of.
LEMMA Untouched ==
    ASSUME Panel(view), UNCHANGED view, rows' = rows \/ Owed' \/ unseen', Owed => Owed', unseen => unseen'
    PROVE  Panel(view)'
  <1>1. \A page : Fresh(view, page) => Fresh(view, page)'
    BY DEF Fresh, Told
  <1>2. Current(view) => Current(view)'
    BY <1>1 DEF Current, Reading
  <1> QED BY <1>2 DEF Panel

LEMMA EngineKept == ASSUME EngineInv, UNCHANGED engineVars PROVE EngineInv' /\ (Owed' <=> Owed)
  BY DEF EngineInv, NoGhostProxy, engineVars, Owed

\* An event that is published is heard, or the panel has not read yet.
LEMMA PublishedStep ==
    ASSUME Panel(view), view' = Published(view)
    PROVE  Panel(view)'
  <1> SUFFICES ASSUME view' # None PROVE Shape(view') /\ Details(view') /\ Current(view)'
    BY DEF Panel
  <1>1. CASE view # None /\ view.listens
    <2>1. view' = [view EXCEPT !.heard = @ + 1] /\ Shape(view) /\ Details(view) /\ Current(view) /\ IsPanel(view)
      BY <1>1 DEF Published, Panel, Shape
    <2>2. /\ Listing(view', view) /\ Chosen(view', view) /\ Tasks(view', view)
          /\ view'.heard = view.heard + 1 /\ view'.listens = view.listens /\ view'.got = view.got
      BY <2>1 DEF IsPanel, Listing, Chosen, Tasks
    <2>3. IsPanel(view')
      BY <2>1 DEF IsPanel
    <2>4. Shape(view') /\ view'.heard # 0
      BY <2>1, <2>2, <2>3 DEF Shape, Listing, Tasks
    <2>5. Details(view')
      BY <2>1, <2>2 DEF Details, Listing, Chosen
    <2>6. \A page : Fresh(view, page)'
      BY <2>4 DEF Fresh, Told
    <2>7. Current(view)'
      BY <2>1, <2>2, <2>6 DEF Current, Reading, Listing, Tasks
    <2> QED BY <2>4, <2>5, <2>7
  <1>2. CASE view # None /\ ~view.listens
    <2>1. view' = view /\ Shape(view) /\ Details(view) /\ Current(view)
      BY <1>2 DEF Published, Panel
    <2>2. Current(view)'
      BY <1>2, <2>1 DEF Current, Reading
    <2> QED BY <2>1, <2>2
  <1>3. CASE view = None
    BY <1>3 DEF Published
  <1> QED BY <1>1, <1>2, <1>3

-----------------------------------------------------------------------------
(* The proxy threads and the engine's operations.                          *)

LEMMA ProxyThreadsStep ==
    ASSUME Inv, ProxyThreads
    PROVE  Inv'
  <1>1. CASE Threads /\ UNCHANGED panelVars
    <2>1. EngineInv'
      BY <1>1, ThreadsStep DEF Inv
    <2>2. Owed => Owed'
      <3> SUFFICES ASSUME NEW j \in DOMAIN proxy, proxy[j].owes # 0 PROVE Owed'
        BY DEF Owed
      <3>1. PICK i \in DOMAIN proxy : Build(i) \/ Ends(i)
        BY <1>1 DEF Threads
      <3>2. proxy[i] \in ProxyRec /\ proxy[j] \in ProxyRec
        BY ProxyShape DEF Inv
      <3>3. DOMAIN proxy' = DOMAIN proxy /\ proxy'[j].owes = proxy[j].owes
        <4>1. CASE Ends(i)
          BY <3>2, <4>1 DEF Ends, ProxyRec, Inv, EngineInv
        <4>2. ASSUME NEW pc, NEW said, proxy' = [proxy EXCEPT ![i].pc = pc, ![i].said = said]
              PROVE  DOMAIN proxy' = DOMAIN proxy /\ proxy'[j].owes = proxy[j].owes
          <5> DEFINE f == [proxy[i] EXCEPT !.pc = pc, !.said = said]
          <5>1. f.owes = proxy[i].owes
            BY <3>2 DEF ProxyRec
          <5>2. proxy' = [proxy EXCEPT ![i] = f]
            BY <3>2, <4>2 DEF ProxyRec
          <5> HIDE DEF f
          <5> QED BY <5>1, <5>2
        <4> QED BY <3>1, <4>1, <4>2 DEF Build
      <3> QED BY <3>3 DEF Owed
    <2>3. Panel(view)'
      BY <1>1, <2>2, Untouched DEF Inv, panelVars
    <2> QED BY <2>1, <2>3 DEF Inv
  <1>2. ASSUME NEW i \in DOMAIN proxy, Record(i) PROVE Inv'
    <2>1. proxy[i] \in ProxyRec /\ proxy[i].owes \in Nat
      BY ProxyShape DEF Inv, ProxyRec
    <2>2. EngineInv' /\ DOMAIN proxy' = DOMAIN proxy /\ proxy'[i].owes = proxy[i].owes + 1
      <3>1. proxy' = [proxy EXCEPT ![i].owes = proxy[i].owes + 1] /\ UNCHANGED <<engine, starting>>
        BY <1>2, <2>1 DEF Record
      <3>2. proxy[i].owes + 1 \in Nat
        BY <2>1
      <3> QED BY <3>1, <3>2, OwesStep DEF Inv
    <2>3. Owed'
      BY <2>1, <2>2 DEF Owed
    <2>4. Panel(view)'
      BY <1>2, <2>3, Untouched DEF Inv, Record
    <2> QED BY <2>2, <2>4 DEF Inv
  <1>3. ASSUME NEW i \in DOMAIN proxy, Announce(i) PROVE Inv'
    <2>1. proxy[i] \in ProxyRec /\ proxy[i].owes \in Nat
      BY ProxyShape DEF Inv, ProxyRec
    <2>2. EngineInv'
      <3>1. proxy' = [proxy EXCEPT ![i].owes = proxy[i].owes - 1] /\ UNCHANGED <<engine, starting>>
        BY <1>3, <2>1 DEF Announce
      <3>2. proxy[i].owes - 1 \in Nat
        BY <1>3, <2>1 DEF Announce
      <3> QED BY <3>1, <3>2, OwesStep DEF Inv
    <2>3. Panel(view)'
      BY <1>3, PublishedStep DEF Announce, Inv
    <2> QED BY <2>2, <2>3 DEF Inv
  <1> QED BY <1>1, <1>2, <1>3 DEF ProxyThreads

LEMMA EngineUserStep ==
    ASSUME Inv, StartProxy \/ ProxyAnswers \/ StopProxy
    PROVE  Inv'
  <1>1. CASE StartProxy
    <2>1. EngineInv'
      BY <1>1, BindStep DEF StartProxy, Inv
    <2>2. Owed => Owed'
      <3> SUFFICES ASSUME NEW j \in DOMAIN proxy, proxy[j].owes # 0 PROVE Owed'
        BY DEF Owed
      <3>1. proxy' = Append(proxy, Newborn) /\ proxy \in Seq(ProxyRec) /\ Newborn \in ProxyRec
        BY <1>1 DEF StartProxy, Bind, Inv, EngineInv, Newborn, ProxyRec
      <3> HIDE DEF Newborn
      <3>2. j \in DOMAIN proxy' /\ proxy'[j] = proxy[j]
        BY <3>1
      <3> QED BY <3>2 DEF Owed
    <2>3. Panel(view)'
      BY <1>1, <2>2, Untouched DEF StartProxy, Inv
    <2> QED BY <2>1, <2>3 DEF Inv
  <1>2. CASE StopProxy
    BY <1>2, StopStep, PublishedStep DEF StopProxy, Inv
  <1>3. CASE Started /\ view' = Published(view)
    BY <1>3, StartEnds, PublishedStep DEF Inv
  <1>4. CASE (StartFails \/ StartTimesOut) /\ UNCHANGED <<view, rows, unseen>>
    <2>1. EngineInv' /\ DOMAIN proxy' = DOMAIN proxy
      BY <1>4, StartEnds DEF Inv
    <2>2. Owed => Owed'
      <3> SUFFICES ASSUME NEW j \in DOMAIN proxy, proxy[j].owes # 0 PROVE Owed'
        BY DEF Owed
      <3>1. proxy[j] \in ProxyRec
        BY ProxyShape DEF Inv
      <3>2. CASE StartFails
        BY <3>2 DEF StartFails, Owed
      <3>3. CASE StartTimesOut
        <4>1. proxy' = [proxy EXCEPT ![starting].told = TRUE] /\ starting \in DOMAIN proxy /\ proxy[starting] \in ProxyRec
          BY <3>3, ProxyShape DEF StartTimesOut, Free, Inv, EngineInv
        <4>2. proxy'[j].owes = proxy[j].owes
          BY <3>1, <4>1 DEF ProxyRec
        <4> QED BY <2>1, <4>2 DEF Owed
      <3> QED BY <1>4, <3>2, <3>3
    <2>3. Panel(view)'
      BY <1>4, <2>2, Untouched DEF Inv
    <2> QED BY <2>1, <2>3 DEF Inv
  <1> QED BY <1>1, <1>2, <1>3, <1>4 DEF ProxyAnswers

-----------------------------------------------------------------------------
(* The tasks of the panel.                                                 *)

LEMMA GotFields ==
    ASSUME NEW v, IsPanel(v), NEW x, NEW u, u = [v EXCEPT !.got = x]
    PROVE  /\ IsPanel(u) /\ Listing(u, v) /\ Chosen(u, v) /\ Events(u, v) /\ Tasks(u, v)
           /\ u.got = x
  <1>1. IsPanel(u) /\ u.got = x
    BY DEF IsPanel
  <1>2. Listing(u, v) /\ Chosen(u, v) /\ Events(u, v) /\ Tasks(u, v)
    BY DEF IsPanel, Listing, Chosen, Events, Tasks
  <1> QED BY <1>1, <1>2

\* What a task gets is what the step makes sure of; the rest of the panel stays.
LEMMA GotStep ==
    ASSUME Panel(view), view # None, view.task # None, NEW x, view' = [view EXCEPT !.got = x],
           view.task.do = "read" => view.listens /\ (x = None \/ x.shown = None \/ x = Page(rows', view.only, view.from))
    PROVE  Panel(view)'
  <1>1. Shape(view) /\ Details(view) /\ Current(view) /\ IsPanel(view)
    BY DEF Panel, Shape
  <1>2. /\ IsPanel(view') /\ Listing(view', view) /\ Chosen(view', view) /\ Events(view', view) /\ Tasks(view', view)
        /\ view'.got = x
    BY <1>1, GotFields
  <1>3. Shape(view') /\ Details(view')
    BY <1>1, <1>2 DEF Shape, Details, Listing, Chosen, Events, Tasks
  <1>4. Current(view)'
    <2>1. view'.task # None
      BY <1>2 DEF Tasks
    <2>2. Reading(view)' => Reading(view) /\ view.listens /\ (x = None \/ x.shown = None \/ x = Page(rows', view.only, view.from))
      BY <1>2 DEF Reading, Tasks
    <2>3. Reading(view)' => view'.task.only = view'.only /\ view'.task.from = view'.from
      BY <1>1, <1>2, <2>2 DEF Current, Tasks, Listing
    <2>4. Reading(view)' /\ view'.got # None => view'.listens /\ (view'.got.shown = None \/ Fresh(view, view.got)')
      BY <1>2, <2>2 DEF Events, Listing, Fresh
    <2> QED BY <2>1, <2>3, <2>4 DEF Current
  <1> QED BY <1>3, <1>4 DEF Panel

LEMMA PoolStep ==
    ASSUME Inv, ReadPage \/ ClearStore
    PROVE  Inv'
  <1>1. EngineInv'
    BY EngineKept DEF Inv, ReadPage, ClearStore
  <1>2. CASE ReadPage
    <2>1. view # None /\ view.task # None /\ view.task.do = "read" /\ view.listens /\ rows' = rows
      BY <1>2 DEF ReadPage, Doing
    <2>2. view.task.only = view.only /\ view.task.from = view.from
      BY <2>1 DEF Inv, Panel, Current, Reading
    <2>3. PICK x : /\ view' = [view EXCEPT !.got = x]
                   /\ x = Page(rows, view.task.only, view.task.from) \/ x = Error
      BY <1>2 DEF ReadPage, Got
    <2>4. x = Page(rows', view.only, view.from) \/ x.shown = None
      BY <2>1, <2>2, <2>3 DEF Error
    <2> QED BY <1>1, <2>1, <2>3, <2>4, GotStep DEF Inv
  <1>3. CASE ClearStore
    <2>1. view # None /\ view.task # None /\ view.task.do # "read"
      BY <1>3 DEF ClearStore, Doing
    <2>2. PICK x : view' = [view EXCEPT !.got = x]
      BY <1>3 DEF ClearStore, Got
    <2> QED BY <1>1, <2>1, <2>2, GotStep DEF Inv
  <1> QED BY <1>2, <1>3

LEMMA ShowPageStep ==
    ASSUME Inv, ShowPage
    PROVE  Inv'
  <1>1. EngineInv' /\ (Owed' <=> Owed)
    BY EngineKept DEF Inv, ShowPage
  <1>2. Shape(view) /\ Details(view) /\ Current(view) /\ IsPanel(view) /\ Reading(view) /\ view.got # None
    BY DEF Inv, ShowPage, Doing, Panel, Shape, Reading
  <1> DEFINE bad == view.got.shown = None
             page == IF view.got.shown = None THEN Nowhere ELSE view.got
  <1>3. view' = [view EXCEPT !.task = None, !.got = None, !.loading = FALSE,
                             !.selected = None, !.detail = None, !.failed = bad, !.list = page]
    BY DEF ShowPage
  <1>4. bad \/ Fresh(view, page)
    BY <1>2 DEF Current
  <1> HIDE DEF bad, page
  <1>5. /\ view'.task = None /\ view'.loading = FALSE /\ view'.selected = None /\ view'.detail = None
        /\ view'.failed = bad /\ view'.list = page /\ view'.fetch = view.fetch
    BY <1>2, <1>3 DEF IsPanel
  <1>6. Events(view', view) /\ view'.only = view.only /\ view'.from = view.from
    BY <1>2, <1>3 DEF IsPanel, Events
  <1>7. IsPanel(view')
    BY <1>2, <1>3 DEF IsPanel
  <1>8. Shape(view') /\ Details(view')
    BY <1>2, <1>5, <1>6, <1>7 DEF Shape, Details, Events
  <1>9. Current(view)'
    <2>1. rows' = rows /\ unseen' = unseen
      BY DEF ShowPage
    <2>2. Fresh(view, page) => (page = Page(rows', view'.only, view'.from) \/ unseen' \/ view'.heard # 0 \/ view'.batch \/ Owed')
      BY <1>1, <1>6, <2>1 DEF Fresh, Told, Events
    <2>3. view'.failed \/ Fresh(view, view.list)'
      BY <1>4, <1>5, <2>2 DEF Fresh, Told
    <2>4. view'.listens
      BY <1>2, <1>6 DEF Current, Events
    <2> QED BY <1>5, <2>3, <2>4 DEF Current, Reading
  <1> QED BY <1>1, <1>8, <1>9 DEF Inv, Panel

\* A clear that ends, and events that are handled, refresh the panel.
LEMMA RefreshingStep ==
    ASSUME Inv, EndClear \/ HandleEvents
    PROVE  Inv'
  <1>1. EngineInv'
    BY EngineKept DEF Inv, EndClear, HandleEvents
  <1>2. Shape(view) /\ Details(view) /\ IsPanel(view)
    BY DEF Inv, EndClear, HandleEvents, Doing, Panel, Shape
  <1>3. CASE EndClear
    BY <1>1, <1>2, <1>3, RefreshStep DEF EndClear, Inv
  <1>4. CASE HandleEvents
    <2>1. PICK u : u = [view EXCEPT !.batch = FALSE]
      OBVIOUS
    <2>2. /\ Listing(u, view) /\ Chosen(u, view) /\ Tasks(u, view)
          /\ u.heard = view.heard
      BY <1>2, <2>1 DEF IsPanel, Listing, Chosen, Tasks
    <2>3. IsPanel(u)
      BY <1>2, <2>1 DEF IsPanel
    <2>4. view' = Refreshing(u)
      BY <1>4, <2>1 DEF HandleEvents
    <2>5. Shape(u) /\ Details(u)
      BY <1>2, <2>2, <2>3 DEF Shape, Details, Listing, Chosen, Tasks
    <2> QED BY <1>1, <2>4, <2>5, RefreshStep DEF Inv
  <1> QED BY <1>3, <1>4

LEMMA LooseClearStep ==
    ASSUME Inv, LooseClear
    PROVE  Inv'
  BY EngineKept, Untouched DEF Inv, LooseClear

\* The details that come belong to what was asked for.
LEMMA DetailStep ==
    ASSUME Inv, ReadDetail \/ ShowDetail
    PROVE  Inv'
  <1>1. EngineInv' /\ (Owed' <=> Owed) /\ rows' = rows /\ unseen' = unseen
    BY EngineKept DEF Inv, ReadDetail, ShowDetail
  <1>2. /\ view # None /\ Shape(view) /\ Details(view) /\ Current(view) /\ IsPanel(view)
        /\ view.fetch # None /\ IsFetch(view.fetch) /\ view.fetch.got \in {view.fetch.id, None}
    BY DEF Inv, ReadDetail, ShowDetail, Panel, Shape, Details
  <1>3. PICK detail, fetch :
          /\ view' = [view EXCEPT !.fetch = fetch, !.detail = detail]
          /\ detail = view.detail \/ detail = None \/ detail = view.selected
          /\ fetch # None => IsFetch(fetch) /\ fetch.got \in {fetch.id, None}
    <2>1. CASE ReadDetail
      <3> DEFINE got == IF \E r \in ToSet(rows) : r.id = view.fetch.id THEN view.fetch.id ELSE None
      <3>1. view' = [view EXCEPT !.fetch.read = TRUE, !.fetch.got = got]
        BY <2>1 DEF ReadDetail
      <3>2. got \in {view.fetch.id, None}
        OBVIOUS
      <3> HIDE DEF got
      <3>3. PICK f : f = [view.fetch EXCEPT !.read = TRUE, !.got = got]
        OBVIOUS
      <3>4. IsFetch(f)
        BY <1>2, <3>3 DEF IsFetch
      <3>5. f.id = view.fetch.id /\ f.got = got
        BY <1>2, <3>3 DEF IsFetch
      <3>6. view' = [view EXCEPT !.fetch = f, !.detail = view.detail]
        BY <1>2, <3>1, <3>3 DEF IsPanel
      <3> QED BY <3>2, <3>4, <3>5, <3>6
    <2>2. CASE ShowDetail
      <3> DEFINE d == IF view.selected = view.fetch.id THEN view.fetch.got ELSE view.detail
      <3>1. view' = [view EXCEPT !.fetch = None, !.detail = d]
        BY <2>2 DEF ShowDetail
      <3>2. d = view.detail \/ d = None \/ d = view.selected
        BY <1>2
      <3> QED BY <3>1, <3>2
    <2> QED BY <2>1, <2>2
  <1>4. /\ Listing(view', view) /\ Events(view', view) /\ Tasks(view', view)
        /\ view'.selected = view.selected /\ view'.detail = detail /\ view'.fetch = fetch
        /\ view'.got = view.got
    BY <1>2, <1>3 DEF IsPanel, Listing, Events, Tasks
  <1>5. IsPanel(view')
    BY <1>2, <1>3 DEF IsPanel
  <1>6. Shape(view')
    BY <1>2, <1>4, <1>5 DEF Shape, Listing, Events, Tasks
  <1>7. Details(view')
    BY <1>2, <1>3, <1>4 DEF Details, Listing
  <1>8. Current(view)'
    <2>1. \A page : Fresh(view, page) => (page = Page(rows', view'.only, view'.from) \/ unseen' \/ view'.heard # 0 \/ view'.batch \/ Owed')
      BY <1>1, <1>4 DEF Fresh, Told, Listing, Events
    <2>2. Fresh(view, view.list) => Fresh(view, view.list)'
      BY <1>4, <2>1 DEF Fresh, Told, Listing
    <2>3. Fresh(view, view.got) => Fresh(view, view.got)'
      BY <1>4, <2>1 DEF Fresh, Told
    <2> QED BY <1>2, <1>4, <2>2, <2>3 DEF Current, Reading, Listing, Events, Tasks
  <1> QED BY <1>1, <1>6, <1>7, <1>8 DEF Inv, Panel

LEMMA ListenStep ==
    ASSUME Inv, Listen \/ Collect
    PROVE  Inv'
  <1>1. EngineInv' /\ (Owed' <=> Owed) /\ rows' = rows /\ unseen' = unseen
    BY EngineKept DEF Inv, Listen, Collect
  <1>2. /\ view # None /\ Shape(view) /\ Details(view) /\ Current(view) /\ IsPanel(view)
    BY DEF Inv, Listen, Collect, Panel, Shape
  <1>3. /\ IsPanel(view') /\ Listing(view', view) /\ Chosen(view', view) /\ Tasks(view', view)
        /\ view'.got = view.got /\ view'.heard \in Nat
        /\ view.listens => view'.listens
        /\ view.heard # 0 \/ view.batch => view'.heard # 0 \/ view'.batch
    <2>1. CASE Listen
      <3>1. view' = [view EXCEPT !.listens = TRUE]
        BY <2>1 DEF Listen
      <3>2. IsPanel(view')
        BY <1>2, <3>1 DEF IsPanel
      <3>3. Listing(view', view) /\ Chosen(view', view) /\ Tasks(view', view) /\ view'.got = view.got
        BY <1>2, <3>1 DEF IsPanel, Listing, Chosen, Tasks
      <3>4. view'.heard = view.heard /\ view'.batch = view.batch /\ view'.listens = TRUE
        BY <1>2, <3>1 DEF IsPanel
      <3> QED BY <1>2, <3>2, <3>3, <3>4 DEF Shape
    <2>2. CASE Collect
      <3>1. PICK left \in 0..view.heard - 1 : view' = [view EXCEPT !.batch = TRUE, !.heard = left]
        BY <2>2 DEF Collect
      <3>2. IsPanel(view')
        BY <1>2, <3>1 DEF IsPanel
      <3>3. Listing(view', view) /\ Chosen(view', view) /\ Tasks(view', view) /\ view'.got = view.got
        BY <1>2, <3>1 DEF IsPanel, Listing, Chosen, Tasks
      <3>4. view'.heard = left /\ view'.batch = TRUE /\ view'.listens = view.listens
        BY <1>2, <3>1 DEF IsPanel
      <3> QED BY <1>2, <3>2, <3>3, <3>4 DEF Shape
    <2> QED BY <2>1, <2>2
  <1>4. Shape(view') /\ Details(view')
    BY <1>2, <1>3 DEF Shape, Details, Listing, Chosen, Tasks
  <1>5. Current(view)'
    <2>1. \A page : Fresh(view, page) => (page = Page(rows', view'.only, view'.from) \/ unseen' \/ view'.heard # 0 \/ view'.batch \/ Owed')
      BY <1>1, <1>3 DEF Fresh, Told, Listing
    <2>2. Fresh(view, view.list) => Fresh(view, view.list)'
      BY <1>3, <2>1 DEF Fresh, Told, Listing
    <2>3. Fresh(view, view.got) => Fresh(view, view.got)'
      BY <1>3, <2>1 DEF Fresh, Told
    <2> QED BY <1>2, <1>3, <2>2, <2>3 DEF Current, Reading, Listing, Tasks
  <1> QED BY <1>1, <1>4, <1>5 DEF Inv, Panel

LEMMA PanelTasksStep ==
    ASSUME Inv, PanelTasks
    PROVE  Inv'
  BY PoolStep, ShowPageStep, RefreshingStep, LooseClearStep, DetailStep, ListenStep DEF PanelTasks

-----------------------------------------------------------------------------
(* The user.                                                               *)

LEMMA OpenStep ==
    ASSUME Inv, Open
    PROVE  Inv'
  <1>1. EngineInv'
    BY EngineKept DEF Inv, Open
  <1> DEFINE v == [list |-> Nowhere, only |-> FALSE, from |-> 0,
                   selected |-> None, detail |-> None, fetch |-> None,
                   loading |-> FALSE, failed |-> FALSE, task |-> None, got |-> None,
                   listens |-> FALSE, heard |-> 0, batch |-> FALSE]
  <1>2. view' = Refreshing(v)
    BY DEF Open, NewPanel
  <1>3. IsPanel(v)
    BY DEF IsPanel
  <1>4. Shape(v)
    BY <1>3 DEF Shape
  <1>5. Details(v)
    BY DEF Details
  <1> HIDE DEF v
  <1> QED BY <1>1, <1>2, <1>4, <1>5, RefreshStep DEF Inv

\* The filter, or the page, is another one.
LEMMA BrowseStep ==
    ASSUME Inv, Turn \/ \E only \in BOOLEAN : Filter(only)
    PROVE  Inv'
  <1>1. EngineInv'
    BY EngineKept DEF Inv, Turn, Filter
  <1>2. view # None /\ Shape(view) /\ Details(view) /\ IsPanel(view)
    BY DEF Inv, Turn, Filter, Panel, Shape
  <1>3. PICK only \in BOOLEAN, from \in Nat :
           \E u : u = [view EXCEPT !.only = only, !.from = from] /\ view' = Refreshing(u)
    <2>1. ASSUME NEW only \in BOOLEAN, Filter(only)
          PROVE  \E u : u = [view EXCEPT !.only = only, !.from = 0] /\ view' = Refreshing(u)
      BY <2>1 DEF Filter
    <2>2. ASSUME NEW from, view' = Refreshing([view EXCEPT !.from = from])
          PROVE  \E u : u = [view EXCEPT !.only = view.only, !.from = from] /\ view' = Refreshing(u)
      <3>1. [view EXCEPT !.from = from] = [view EXCEPT !.only = view.only, !.from = from]
        BY <1>2 DEF IsPanel
      <3> QED BY <2>2, <3>1
    <2>3. CASE Turn
      <3>1. PICK from \in Nat : view' = Refreshing([view EXCEPT !.from = from])
        <4>1. view.from \in Nat /\ PageSize \in Nat
          BY <1>2, PageAssumption DEF Shape
        <4>2. CASE view' = Refreshing([view EXCEPT !.from = @ + PageSize])
          BY <4>1, <4>2
        <4>3. CASE view' = Refreshing([view EXCEPT !.from = IF @ > PageSize THEN @ - PageSize ELSE 0])
          <5> DEFINE n == IF view.from > PageSize THEN view.from - PageSize ELSE 0
          <5>1. n \in Nat
            BY <4>1
          <5>2. view' = Refreshing([view EXCEPT !.from = n])
            BY <4>3
          <5> HIDE DEF n
          <5> QED BY <5>1, <5>2
        <4>4. \/ view' = Refreshing([view EXCEPT !.from = @ + PageSize])
              \/ view' = Refreshing([view EXCEPT !.from = IF @ > PageSize THEN @ - PageSize ELSE 0])
          BY <2>3 DEF Turn
        <4> QED BY <4>2, <4>3, <4>4
      <3>2. PICK u : u = [view EXCEPT !.only = view.only, !.from = from] /\ view' = Refreshing(u)
        BY <2>2, <3>1
      <3>3. view.only \in BOOLEAN
        BY <1>2 DEF Shape
      <3> QED BY <3>2, <3>3
    <2> QED BY <2>1, <2>3
  <1>4. PICK u : u = [view EXCEPT !.only = only, !.from = from] /\ view' = Refreshing(u)
    BY <1>3
  <1>5. IsPanel(u)
    BY <1>2, <1>4 DEF IsPanel
  <1>6. u.list = view.list /\ u.only = only /\ u.from = from
    BY <1>2, <1>4 DEF IsPanel
  <1>7. Chosen(u, view) /\ Events(u, view) /\ Tasks(u, view)
    BY <1>2, <1>4 DEF IsPanel, Chosen, Events, Tasks
  <1>8. Shape(u) /\ Details(u)
    BY <1>2, <1>3, <1>5, <1>6, <1>7 DEF Shape, Details, Chosen, Events, Tasks
  <1> QED BY <1>1, <1>4, <1>8, RefreshStep DEF Inv

\* The details of what was selected before are put away with it.
LEMMA SelectStep ==
    ASSUME Inv, NEW id, Select(id)
    PROVE  Inv'
  <1>1. EngineInv' /\ (Owed' <=> Owed) /\ rows' = rows /\ unseen' = unseen
    BY EngineKept DEF Inv, Select
  <1>2. Shape(view) /\ Current(view) /\ IsPanel(view)
    BY DEF Inv, Panel, Shape, Select
  <1>3. PICK fetch : fetch = [id |-> id, read |-> FALSE, got |-> None]
    OBVIOUS
  <1>4. view' = [view EXCEPT !.selected = id, !.detail = None, !.fetch = fetch]
    BY <1>3 DEF Select
  <1>5. /\ Listing(view', view) /\ Events(view', view) /\ Tasks(view', view)
        /\ view'.selected = id /\ view'.detail = None /\ view'.fetch = fetch
        /\ view'.got = view.got
    BY <1>2, <1>4 DEF IsPanel, Listing, Events, Tasks
  <1>6. IsPanel(view')
    BY <1>2, <1>4 DEF IsPanel
  <1>7. Shape(view')
    BY <1>2, <1>5, <1>6 DEF Shape, Listing, Events, Tasks
  <1>8. Details(view')
    <2>1. IsFetch(fetch) /\ fetch.got = None
      BY <1>3 DEF IsFetch
    <2> QED BY <1>5, <2>1 DEF Details, Listing
  <1>9. Current(view)'
    <2>1. \A page : Fresh(view, page) => (page = Page(rows', view'.only, view'.from) \/ unseen' \/ view'.heard # 0 \/ view'.batch \/ Owed')
      BY <1>1, <1>5 DEF Fresh, Told, Listing, Events
    <2>2. Fresh(view, view.list) => Fresh(view, view.list)'
      BY <1>5, <2>1 DEF Fresh, Told, Listing
    <2>3. Fresh(view, view.got) => Fresh(view, view.got)'
      BY <1>5, <2>1 DEF Fresh, Told
    <2> QED BY <1>2, <1>5, <2>2, <2>3 DEF Current, Reading, Listing, Events, Tasks
  <1> QED BY <1>1, <1>7, <1>8, <1>9 DEF Inv, Panel

LEMMA ClearAllStep ==
    ASSUME Inv, ClearAll
    PROVE  Inv'
  <1>1. EngineInv'
    BY EngineKept DEF Inv, ClearAll
  <1>2. Shape(view) /\ Details(view) /\ IsPanel(view)
    BY DEF Inv, ClearAll, Panel, Shape
  <1>3. PICK task : task = [do |-> "clear"]
    OBVIOUS
  <1>4. view' = [view EXCEPT !.loading = TRUE, !.failed = FALSE, !.got = None, !.task = task]
    BY <1>3 DEF ClearAll
  <1>5. task \in Task /\ task # None /\ task.do # "read"
    BY <1>3, PageAssumption DEF Task
  <1>6. Listing(view', view) /\ Chosen(view', view) /\ Events(view', view) /\ view'.task = task
    BY <1>2, <1>4 DEF IsPanel, Listing, Chosen, Events
  <1>7. IsPanel(view')
    BY <1>2, <1>4 DEF IsPanel
  <1>8. Shape(view') /\ Details(view')
    BY <1>2, <1>5, <1>6, <1>7 DEF Shape, Details, Listing, Chosen, Events
  <1>9. Current(view)'
    BY <1>5, <1>6 DEF Current, Reading
  <1> QED BY <1>1, <1>8, <1>9 DEF Inv, Panel

LEMMA UserStep ==
    ASSUME Inv, User
    PROVE  Inv'
  <1>1. CASE Close
    BY <1>1, EngineKept DEF Close, Inv, Panel
  <1>2. ASSUME NEW id, Select(id) PROVE Inv'
    BY <1>2, SelectStep
  <1> QED BY <1>1, <1>2, OpenStep, BrowseStep, ClearAllStep, EngineUserStep DEF User

-----------------------------------------------------------------------------

LEMMA Initially == ASSUME Init PROVE Inv
  <1>1. proxy = <<>> /\ engine = Stopped /\ starting = None /\ view = None
    BY DEF Init, EngineInit
  <1>2. EngineInv
    BY <1>1 DEF EngineInv, NoGhostProxy
  <1> QED BY <1>1, <1>2 DEF Inv, Panel

LEMMA EveryStep == ASSUME Inv, [Next]_vars PROVE Inv'
  <1>1. CASE UNCHANGED vars
    <2>1. UNCHANGED <<engineVars, rows, view, unseen>>
      BY <1>1 DEF vars, panelVars
    <2> QED BY <2>1, EngineKept, Untouched DEF Inv
  <1> QED BY <1>1, ProxyThreadsStep, PanelTasksStep, UserStep DEF Next

\* The engine and the panel are as the invariant says in every state.
THEOREM Invariance == Spec => []Inv
  BY Initially, EveryStep, PTL DEF Spec

\* However start() ends - the verdict, an error, a panic, the two seconds - and
\* whatever the thread does next, a proxy that may go on is one stop() can end.
THEOREM NoGhosts == Spec => []NoGhostProxy
  <1>1. Inv => NoGhostProxy
    BY DEF Inv, EngineInv
  <1> QED BY <1>1, Invariance, PTL

\* The panel shows what the store holds once nothing is left to hear or to do.
THEOREM ListCurrent == Spec => []ListIsCurrent
  <1>1. ASSUME Inv PROVE ListIsCurrent
    <2> SUFFICES ASSUME view # None, view.task = None, view.heard = 0, ~view.batch,
                        \A i \in DOMAIN proxy : proxy[i].owes = 0
                 PROVE  ~view.loading /\ (~view.failed /\ ~unseen => view.list = Page(rows, view.only, view.from))
      BY DEF ListIsCurrent
    <2>1. Current(view)
      BY <1>1 DEF Inv, Panel
    <2>2. ~Told(view)
      BY DEF Told, Owed
    <2> QED BY <2>1, <2>2 DEF Current, Fresh
  <1> QED BY <1>1, Invariance, PTL

\* The details are never those of an exchange that is not selected: those that come
\* late, after another was selected or the page read anew, are not shown.
THEOREM DetailsBelong == Spec => []DetailMatches
  <1>1. Inv => DetailMatches
    BY DEF Inv, Panel, Details, DetailMatches
  <1> QED BY <1>1, Invariance, PTL
=============================================================================
