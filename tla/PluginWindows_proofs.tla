-------------------------- MODULE PluginWindows_proofs --------------------------
(***************************************************************************)
(* Proofs about PluginWindows, for any plugins, whichever of them are on   *)
(* top, in the Dock or both, and any number of windows, agents and failed  *)
(* spawns.  The invariant has one clause per plugin: a plugin whose open   *)
(* window asked for an icon has an entry, and its agents that run are the  *)
(* one the entry names.                                                    *)
(***************************************************************************)
EXTENDS PluginWindows, FiniteSetTheorems, TLAPS

WindowRec == [plugin : Plugin, open : BOOLEAN, docked : BOOLEAN]
AgentRec == [plugin : Plugin, state : {"up", "told", "none", "down"},
             why : {"runs", "user", "failure", "told"}, out : Seq({"activate", "quit", "exited"})]

\* A plugin has one open window at most.
Windows ==
    /\ window \in Seq(WindowRec) /\ table \in [Plugin -> Window \union {0}]
    /\ \A w \in Window : window[w].docked <=> window[w].plugin \in Docked
    /\ \A v, w \in Window :
         window[v].open /\ window[w].open /\ window[v].plugin = window[w].plugin => v = w

\* An agent that says it exited is gone.
Honest(f) == \A i \in 1..Len(f.out) : f.out[i] = "exited" => f.state = "down"
Agents(ag) == ag \in Seq(AgentRec) /\ \A g \in 1..Len(ag) : Honest(ag[g])

\* No agent of p runs; or only the one entry e names does.
NoIcon(p, ag) == \A g \in 1..Len(ag) : ag[g].plugin = p => ag[g].state # "up"
Manages(p, e, ag) ==
    /\ e \in Entry /\ ~e.stopping /\ e.restarts \in {0, 1}
    /\ e.process \in {0, e.generation} /\ e.process \in 0..Len(ag)
    /\ \A g \in 1..Len(ag) : ag[g].plugin = p /\ ag[g].state = "up" => e.process = g
\* What an entry without an agent has behind it, after f failed spawns.
Tried(e, f) == e.process = 0 => e.restarts = 1 \/ f > 0

Fine(p) ==
    IF p \in Docked /\ OpenOf(p) # {}
    THEN entry[p].leases = 1 /\ Manages(p, entry[p], agent) /\ Tried(entry[p], fails)
    ELSE entry[p] = None /\ NoIcon(p, agent)

Inv ==
    /\ Windows /\ Agents(agent) /\ fails \in Nat /\ DOMAIN entry = Plugin
    /\ \A p \in Plugin : Fine(p)

-----------------------------------------------------------------------------
(* The agents.  From ag to bg no agent starts; or none but p's.             *)

Fewer(ag, bg) ==
    /\ Len(bg) = Len(ag)
    /\ \A g \in 1..Len(ag) : bg[g].plugin = ag[g].plugin /\ (bg[g].state = "up" => ag[g].state = "up")

Others(p, ag, bg) ==
    /\ Len(ag) <= Len(bg)
    /\ \A g \in 1..Len(bg) : bg[g].plugin # p /\ bg[g].state = "up" =>
         g \in 1..Len(ag) /\ ag[g].plugin = bg[g].plugin /\ ag[g].state = "up"

\* Fewer agents disturb no entry.
LEMMA FewerKeeps ==
    ASSUME NEW ag, NEW bg, Agents(ag), Agents(bg), Fewer(ag, bg)
    PROVE  /\ \A p : Others(p, ag, bg)
           /\ \A p : NoIcon(p, ag) => NoIcon(p, bg)
           /\ \A p, e : Manages(p, e, ag) => Manages(p, e, bg)
  <1>1. Len(ag) \in Nat /\ Len(bg) = Len(ag)
    BY DEF Agents, Fewer
  <1>2. \A p : Others(p, ag, bg)
    <2> TAKE p
    <2>1. Len(ag) <= Len(bg)
      BY <1>1
    <2>2. ASSUME NEW g \in 1..Len(bg), bg[g].state = "up"
          PROVE  g \in 1..Len(ag) /\ ag[g].plugin = bg[g].plugin /\ ag[g].state = "up"
      BY <1>1, <2>2 DEF Fewer
    <2> QED BY <2>1, <2>2 DEF Others
  <1>3. \A p : NoIcon(p, ag) => NoIcon(p, bg)
    BY <1>1 DEF Fewer, NoIcon
  <1>4. \A p, e : Manages(p, e, ag) => Manages(p, e, bg)
    BY <1>1 DEF Fewer, Manages
  <1> QED BY <1>2, <1>3, <1>4

\* One agent changes, and does not start.
LEMMA OneAgent ==
    ASSUME NEW ag, Agents(ag), NEW g \in 1..Len(ag), NEW f \in AgentRec,
           f.plugin = ag[g].plugin, f.state = "up" => ag[g].state = "up",
           Honest(f), NEW bg, bg = [ag EXCEPT ![g] = f]
    PROVE  Agents(bg) /\ Fewer(ag, bg)
  <1>1. /\ bg \in Seq(AgentRec) /\ Len(bg) = Len(ag) /\ Len(ag) \in Nat
        /\ \A h \in 1..Len(ag) : bg[h] = IF h = g THEN f ELSE ag[h]
    BY DEF Agents
  <1>2. Agents(bg)
    BY <1>1 DEF Agents
  <1>3. Fewer(ag, bg)
    BY <1>1 DEF Fewer
  <1> QED BY <1>2, <1>3

LEMMA StopKeeps ==
    ASSUME NEW ag, Agents(ag), NEW p, NEW e, Manages(p, e, ag),
           NEW bg, bg = StopProcess(ag, e.process)
    PROVE  Agents(bg) /\ Fewer(ag, bg) /\ NoIcon(p, bg)
  <1>0. Len(ag) \in Nat /\ e.process \in 0..Len(ag)
    BY DEF Agents, Manages
  <1>1. CASE e.process # 0 /\ ag[e.process].state = "up"
    <2> DEFINE g == e.process
               f == [ag[g] EXCEPT !.state = "told"]
    <2>1. g \in 1..Len(ag) /\ ag[g] \in AgentRec
      BY <1>0, <1>1 DEF Agents
    <2>2. f \in AgentRec /\ f.plugin = ag[g].plugin /\ f.state = "told" /\ f.out = ag[g].out
      BY <2>1 DEF AgentRec
    <2>3. bg = [ag EXCEPT ![g] = f]
      BY <1>1, <2>1 DEF StopProcess
    <2>4. Honest(f)
      BY <1>1, <2>1, <2>2 DEF Agents, Honest
    <2> HIDE DEF f
    <2>5. Agents(bg) /\ Fewer(ag, bg)
      BY <2>1, <2>2, <2>3, <2>4, OneAgent
    <2>6. NoIcon(p, bg)
      BY <1>0, <2>1, <2>2, <2>3, <2>5 DEF NoIcon, Manages, Fewer, Agents
    <2> QED BY <2>5, <2>6
  <1>2. CASE ~(e.process # 0 /\ ag[e.process].state = "up")
    <2>1. bg = ag
      BY <1>2 DEF StopProcess
    <2>2. Fewer(ag, bg)
      BY <2>1 DEF Fewer
    <2>3. NoIcon(p, bg)
      <3> SUFFICES ASSUME NEW g \in 1..Len(ag), ag[g].plugin = p, ag[g].state = "up"
                   PROVE  FALSE
        BY <2>1 DEF NoIcon
      <3>1. e.process = g /\ g # 0
        BY <1>0 DEF Manages
      <3> QED BY <1>2, <3>1
    <2> QED BY <2>1, <2>2, <2>3
  <1> QED BY <1>1, <1>2

LEMMA RestKeeps ==
    ASSUME NEW ag, Agents(ag), NEW g \in 1..Len(ag), ag[g].out # <<>>,
           NEW bg, bg = Rest(ag, g)
    PROVE  Agents(bg) /\ Fewer(ag, bg)
  <1> DEFINE f == [ag[g] EXCEPT !.out = Tail(ag[g].out)]
  <1>0. ag[g] \in AgentRec
    BY DEF Agents
  <1>1. /\ ag[g].out \in Seq({"activate", "quit", "exited"})
        /\ Tail(ag[g].out) \in Seq({"activate", "quit", "exited"})
        /\ \A i \in 1..Len(Tail(ag[g].out)) : Tail(ag[g].out)[i] = ag[g].out[i + 1] /\ i + 1 \in 1..Len(ag[g].out)
    <2>1. ag[g].out \in Seq({"activate", "quit", "exited"})
      BY <1>0 DEF AgentRec
    <2> QED BY <2>1
  <1>2. /\ f \in AgentRec /\ f.plugin = ag[g].plugin /\ f.state = ag[g].state
        /\ f.out = Tail(ag[g].out)
    BY <1>0, <1>1 DEF AgentRec
  <1>3. \A i \in 1..Len(f.out) : f.out[i] = ag[g].out[i + 1] /\ i + 1 \in 1..Len(ag[g].out)
    BY <1>1, <1>2
  <1>4. bg = [ag EXCEPT ![g] = f]
    BY DEF Rest
  <1> HIDE DEF f
  <1>5. Honest(f)
    BY <1>2, <1>3 DEF Agents, Honest
  <1> QED BY <1>2, <1>4, <1>5, OneAgent

\* ensure_process: p alone gets an agent, and its entry names it.
LEMMA EnsureKeeps ==
    ASSUME Agents(agent), NEW p \in Plugin, NEW e, Manages(p, e, agent), NEW ok \in BOOLEAN,
           NEW s, s = Ensure(p, e, ok)
    PROVE  /\ Agents(s.agent) /\ Others(p, agent, s.agent) /\ Manages(p, s.entry, s.agent)
           /\ s.entry.leases = e.leases /\ s.entry.restarts = e.restarts
           /\ s.entry.process = 0 => ~ok /\ s.agent # agent
           /\ \A g \in Generation : g \in 1..Len(s.agent) /\ s.agent[g] = agent[g]
  <1>0. agent \in Seq(AgentRec) /\ Len(agent) \in Nat /\ e \in Entry /\ ~e.stopping
    BY DEF Agents, Manages
  <1>1. CASE e.process # 0
    <2>1. s.agent = agent /\ s.entry = e
      BY <1>1 DEF Ensure
    <2> QED BY <1>0, <1>1, <2>1 DEF Others, Generation
  <1>2. CASE e.process = 0
    <2> DEFINE n == Len(agent) + 1
               f == [plugin |-> p, state |-> IF ok THEN "up" ELSE "none", why |-> "runs", out |-> <<>>]
               d == IF ok THEN [e EXCEPT !.generation = n, !.process = n] ELSE e
    <2>1. s.agent = Append(agent, f) /\ s.entry = d
      BY <1>0, <1>2 DEF Ensure
    <2>2. f \in AgentRec /\ f.plugin = p /\ f.out = <<>> /\ (f.state = "up" <=> ok)
      BY DEF AgentRec
    <2>3. /\ d \in Entry /\ d.leases = e.leases /\ d.restarts = e.restarts /\ d.stopping = e.stopping
          /\ ok => d.process = n /\ d.generation = n
          /\ ~ok => d = e
      <3>1. n \in Nat
        BY <1>0
      <3>2. CASE ok
        BY <1>0, <3>1, <3>2 DEF Entry
      <3>3. CASE ~ok
        BY <1>0, <3>3
      <3> QED BY <3>2, <3>3
    <2> HIDE DEF f, d
    <2>4. /\ s.agent \in Seq(AgentRec) /\ Len(s.agent) = n /\ s.agent[n] = f
          /\ \A g \in 1..Len(agent) : s.agent[g] = agent[g]
      BY <1>0, <2>1, <2>2
    <2>5. Agents(s.agent)
      <3>1. Honest(f)
        BY <2>2 DEF Honest
      <3> QED BY <1>0, <2>4, <3>1 DEF Agents
    <2>6. Others(p, agent, s.agent)
      BY <1>0, <2>2, <2>4 DEF Others
    <2>7. Manages(p, s.entry, s.agent)
      BY <1>0, <1>2, <2>1, <2>2, <2>3, <2>4 DEF Manages
    <2> QED BY <1>0, <1>2, <2>1, <2>3, <2>4, <2>5, <2>6, <2>7 DEF Generation
  <1> QED BY <1>1, <1>2

LEMMA OthersThenFewer ==
    ASSUME NEW p, NEW ag, NEW bg, NEW cg, Agents(bg), Others(p, ag, bg), Fewer(bg, cg)
    PROVE  Others(p, ag, cg)
  <1>1. Len(bg) \in Nat
    BY DEF Agents
  <1>2. Len(cg) = Len(bg) /\ Len(ag) <= Len(cg)
    BY DEF Others, Fewer
  <1>3. ASSUME NEW g \in 1..Len(cg), cg[g].plugin # p, cg[g].state = "up"
        PROVE  g \in 1..Len(ag) /\ ag[g].plugin = cg[g].plugin /\ ag[g].state = "up"
    <2>1. g \in 1..Len(bg) /\ bg[g].plugin = cg[g].plugin /\ bg[g].state = "up"
      BY <1>2, <1>3 DEF Fewer
    <2> QED BY <1>3, <2>1 DEF Others
  <1> QED BY <1>2, <1>3 DEF Others

-----------------------------------------------------------------------------
(* The windows.                                                            *)

LEMMA Shapes ==
    ASSUME Windows
    PROVE  /\ window \in Seq(WindowRec) /\ Len(window) \in Nat
           /\ \A w \in Window : w \in Nat /\ w # 0 /\ window[w] \in WindowRec
  BY DEF Windows, Window

\* Find gives the window of a plugin, if it has one.
LEMMA Found ==
    ASSUME Windows, NEW p \in Plugin
    PROVE  /\ Find(p) = 0 => OpenOf(p) = {}
           /\ Find(p) # 0 => Find(p) \in Window /\ window[Find(p)].open /\ window[Find(p)].plugin = p
                             /\ OpenOf(p) = {Find(p)}
           /\ Find(p) \in Window \union {0}
  <1>0. 0 \notin OpenOf(p)
    BY Shapes DEF OpenOf
  <1>1. Find(p) \in OpenOf(p) \/ (Find(p) = 0 /\ OpenOf(p) = {})
    <2>1. OpenOf(p) # {} => (CHOOSE w \in OpenOf(p) : TRUE) \in OpenOf(p)
      OBVIOUS
    <2> QED BY <2>1 DEF Find
  <1>2. \A w \in OpenOf(p) : OpenOf(p) = {w} /\ w \in Window /\ window[w].open /\ window[w].plugin = p
    BY DEF OpenOf, Windows
  <1> QED BY <1>0, <1>1, <1>2

LEMMA WindowCloses ==
    ASSUME Windows, NEW p \in Plugin, NEW w \in Window \union {0}, OpenOf(p) \subseteq {w},
           w # 0 => window[w].plugin = p
    PROVE  /\ Closed(w) \in Seq(WindowRec) /\ Len(Closed(w)) = Len(window)
           /\ \A v \in Window : /\ Closed(w)[v].plugin = window[v].plugin /\ Closed(w)[v].docked = window[v].docked
                                /\ Closed(w)[v].open <=> window[v].open /\ window[v].plugin # p
  <1>1. \A v \in Window : Closed(w)[v] = IF v = w THEN [window[v] EXCEPT !.open = FALSE] ELSE window[v]
    BY DEF Closed
  <1>2. \A v \in Window :
          /\ Closed(w)[v] \in WindowRec
          /\ Closed(w)[v].plugin = window[v].plugin /\ Closed(w)[v].docked = window[v].docked
          /\ v = w => ~Closed(w)[v].open
          /\ v # w => Closed(w)[v] = window[v]
    BY <1>1, Shapes DEF WindowRec
  <1>3. Closed(w) \in [1..Len(window) -> WindowRec]
    BY <1>2 DEF Closed, Window
  <1>4. Closed(w) \in Seq(WindowRec) /\ Len(Closed(w)) = Len(window)
    BY <1>3, Shapes
  <1>5. ASSUME NEW v \in Window
        PROVE  Closed(w)[v].open <=> window[v].open /\ window[v].plugin # p
    <2>1. CASE v = w
      BY <1>2, <2>1, Shapes
    <2>2. CASE v # w
      <3>1. ~(window[v].open /\ window[v].plugin = p)
        BY <2>2 DEF OpenOf
      <3> QED BY <1>2, <2>2, <3>1
    <2> QED BY <2>1, <2>2
  <1> QED BY <1>2, <1>4, <1>5

\* A plugin loses its window, and no other plugin does.
LEMMA NoWindow ==
    ASSUME Windows, NEW p \in Plugin, NEW w \in Window \union {0}, OpenOf(p) \subseteq {w},
           w # 0 => window[w].plugin = p, window' = Closed(w), table' = [table EXCEPT ![p] = 0]
    PROVE  Windows' /\ OpenOf(p)' = {} /\ \A q \in Plugin \ {p} : OpenOf(q)' = OpenOf(q)
  <1>1. /\ window' \in Seq(WindowRec) /\ Window' = Window
        /\ \A v \in Window : /\ window'[v].plugin = window[v].plugin /\ window'[v].docked = window[v].docked
                             /\ window'[v].open <=> window[v].open /\ window[v].plugin # p
    BY WindowCloses DEF Window
  <1>2. table' \in [Plugin -> Window' \union {0}]
    BY <1>1 DEF Windows
  <1>3. Windows'
    BY <1>1, <1>2 DEF Windows
  <1>4. OpenOf(p)' = {} /\ \A q \in Plugin \ {p} : OpenOf(q)' = OpenOf(q)
    BY <1>1 DEF OpenOf
  <1> QED BY <1>3, <1>4

\* A plugin has a new window instead of the one it had, if it had one.
LEMMA NewWindow ==
    ASSUME Windows, NEW p \in Plugin, NEW w \in Window \union {0}, OpenOf(p) \subseteq {w},
           w # 0 => window[w].plugin = p,
           window' = Append(Closed(w), [plugin |-> p, open |-> TRUE, docked |-> p \in Docked]),
           table' = [table EXCEPT ![p] = IF w = 0 THEN Len(window) + 1 ELSE 0]
    PROVE  Windows' /\ OpenOf(p)' # {} /\ \A q \in Plugin \ {p} : OpenOf(q)' = OpenOf(q)
  <1> DEFINE n == Len(window) + 1
             f == [plugin |-> p, open |-> TRUE, docked |-> p \in Docked]
  <1>0. Len(window) \in Nat /\ f \in WindowRec /\ f.plugin = p /\ f.open /\ (f.docked <=> p \in Docked)
    <2>1. (p \in Docked) \in BOOLEAN
      OBVIOUS
    <2>2. f.plugin = p /\ f.open = TRUE /\ f.docked = (p \in Docked)
      OBVIOUS
    <2>3. f \in WindowRec
      BY <2>1 DEF WindowRec
    <2> QED BY <2>2, <2>3, Shapes
  <1>1. /\ Closed(w) \in Seq(WindowRec) /\ Len(Closed(w)) = Len(window)
        /\ \A v \in Window : /\ Closed(w)[v].plugin = window[v].plugin /\ Closed(w)[v].docked = window[v].docked
                             /\ Closed(w)[v].open <=> window[v].open /\ window[v].plugin # p
    BY WindowCloses
  <1>2. window' = Append(Closed(w), f)
    OBVIOUS
  <1> HIDE DEF f
  <1>3. /\ window' \in Seq(WindowRec) /\ Len(window') = n /\ window'[n] = f
        /\ \A v \in Window : window'[v] = Closed(w)[v]
    BY <1>0, <1>1, <1>2 DEF Window
  <1>4. Window' = Window \union {n} /\ n \notin Window
    BY <1>0, <1>3 DEF Window
  <1>5. table' \in [Plugin -> Window' \union {0}]
    BY <1>4 DEF Windows
  <1>6. \A v \in Window : /\ window'[v].plugin = window[v].plugin /\ window'[v].docked = window[v].docked
                          /\ window'[v].open <=> window[v].open /\ window[v].plugin # p
    BY <1>1, <1>3
  <1> HIDE DEF n
  <1>7. \A v \in Window' : window'[v].docked <=> window'[v].plugin \in Docked
    <2> TAKE v \in Window'
    <2>1. CASE v = n
      BY <1>0, <1>3, <2>1
    <2>2. CASE v # n
      <3>1. v \in Window
        BY <1>4, <2>2
      <3> QED BY <1>6, <3>1 DEF Windows
    <2> QED BY <2>1, <2>2
  <1>8. ASSUME NEW v \in Window', NEW u \in Window',
               window'[v].open, window'[u].open, window'[v].plugin = window'[u].plugin
        PROVE  v = u
    <2>1. CASE v = n \/ u = n
      <3>1. \A x \in Window : ~(window'[x].open /\ window'[x].plugin = p)
        BY <1>6
      <3>2. window'[n].plugin = p
        BY <1>0, <1>3
      <3>3. ASSUME NEW x \in Window', window'[x].open, window'[x].plugin = p
            PROVE  x = n
        BY <1>4, <3>1, <3>3
      <3> QED BY <1>8, <2>1, <3>2, <3>3
    <2>2. CASE v # n /\ u # n
      <3>1. v \in Window /\ u \in Window
        BY <1>4, <2>2
      <3>2. window[v].open /\ window[u].open /\ window[v].plugin = window[u].plugin
        BY <1>6, <1>8, <3>1
      <3> QED BY <3>1, <3>2 DEF Windows
    <2> QED BY <2>1, <2>2
  <1>9. Windows'
    BY <1>3, <1>5, <1>7, <1>8 DEF Windows
  <1>10. n \in OpenOf(p)'
    BY <1>0, <1>3, <1>4 DEF OpenOf
  <1>11. \A q \in Plugin \ {p} : OpenOf(q)' = OpenOf(q)
    <2> TAKE q \in Plugin \ {p}
    <2>1. window'[n].plugin # q
      BY <1>0, <1>3
    <2>2. ASSUME NEW v \in Window
          PROVE  window'[v].plugin = q /\ window'[v].open <=> window[v].plugin = q /\ window[v].open
      BY <1>6
    <2> QED BY <1>4, <2>1, <2>2 DEF OpenOf
  <1> QED BY <1>9, <1>10, <1>11

-----------------------------------------------------------------------------
(* Steps.                                                                  *)

\* What is left to show of a step that is about plugin p.
LEMMA StepOf ==
    ASSUME Inv, NEW p \in Plugin, NEW e, entry' = [entry EXCEPT ![p] = e],
           Windows', Agents(agent'), Others(p, agent, agent'), fails' \in Nat, fails' >= fails,
           \A q \in Plugin \ {p} : OpenOf(q)' = OpenOf(q),
           IF p \in Docked /\ OpenOf(p)' # {}
           THEN e.leases = 1 /\ Manages(p, e, agent') /\ Tried(e, fails')
           ELSE e = None /\ NoIcon(p, agent')
    PROVE  Inv'
  <1>0. /\ Len(agent) \in Nat /\ Len(agent') \in Nat /\ Len(agent) <= Len(agent')
        /\ DOMAIN entry' = Plugin /\ entry'[p] = e
        /\ \A q \in Plugin \ {p} : entry'[q] = entry[q]
    BY DEF Inv, Agents, Others
  <1>1. Fine(p)'
    BY <1>0 DEF Fine
  <1>2. ASSUME NEW q \in Plugin \ {p} PROVE Fine(q)'
    <2>1. ASSUME NEW g \in 1..Len(agent'), agent'[g].plugin = q, agent'[g].state = "up"
          PROVE  g \in 1..Len(agent) /\ agent[g].plugin = q /\ agent[g].state = "up"
      BY <2>1 DEF Others
    <2>2. NoIcon(q, agent) => NoIcon(q, agent')
      BY <2>1 DEF NoIcon
    <2>3. Manages(q, entry[q], agent) => Manages(q, entry[q], agent')
      BY <1>0, <2>1 DEF Manages
    <2>4. Tried(entry[q], fails) => Tried(entry[q], fails')
      BY DEF Tried, Inv
    <2>5. Fine(q)
      BY DEF Inv
    <2> QED BY <1>0, <2>2, <2>3, <2>4, <2>5 DEF Fine
  <1> QED BY <1>0, <1>1, <1>2 DEF Inv

\* A step that leaves the windows and the entries alone.
LEMMA QuietStep ==
    ASSUME Inv, UNCHANGED <<window, entry, fails>>, Agents(agent'), Fewer(agent, agent'),
           table' \in [Plugin -> Window \union {0}]
    PROVE  Inv'
  <1>1. /\ \A p : NoIcon(p, agent) => NoIcon(p, agent')
        /\ \A p, e : Manages(p, e, agent) => Manages(p, e, agent')
    BY FewerKeeps DEF Inv
  <1>2. Windows' /\ \A p \in Plugin : OpenOf(p)' = OpenOf(p)
    BY DEF Inv, Windows, Window, OpenOf
  <1>3. \A p \in Plugin : Fine(p)'
    BY <1>1, <1>2 DEF Inv, Fine
  <1> QED BY <1>2, <1>3 DEF Inv

\* The last lease of a plugin goes: what Close and OnQuit do to the manager.
LEMMA LeaseGoes ==
    ASSUME Inv, NEW p \in Plugin, NEW w \in Window, window[w].open, window[w].plugin = p,
           NEW ag, Agents(ag), Fewer(agent, ag),
           NEW e, p \notin Docked => e = None,
           p \in Docked => e.leases = 1 /\ e.process = entry[p].process,
           NEW s, s = Released(w, [entry |-> e, agent |-> ag])
    PROVE  s.entry = None /\ NoIcon(p, s.agent) /\ Agents(s.agent) /\ Fewer(ag, s.agent) /\ Others(p, agent, s.agent)
  <1>0. Fine(p) /\ w \in OpenOf(p) /\ w # 0 /\ Agents(agent) /\ Len(ag) \in Nat
    BY Shapes DEF Inv, OpenOf, Agents
  <1>1. window[w].docked <=> p \in Docked
    BY DEF Inv, Windows
  <1>2. CASE p \in Docked
    <2>1. Manages(p, entry[p], ag)
      BY <1>0, <1>2, FewerKeeps DEF Fine
    <2>2. s.entry = None /\ s.agent = StopProcess(ag, entry[p].process)
      BY <1>0, <1>1, <1>2 DEF Released, Release
    <2>3. Agents(s.agent) /\ Fewer(ag, s.agent) /\ NoIcon(p, s.agent)
      BY <2>1, <2>2, StopKeeps
    <2>4. Others(p, agent, ag)
      BY <1>0, FewerKeeps
    <2> QED BY <2>2, <2>3, <2>4, OthersThenFewer
  <1>3. CASE p \notin Docked
    <2>1. s.entry = None /\ s.agent = ag
      BY <1>0, <1>1, <1>3 DEF Released
    <2>2. NoIcon(p, ag) /\ Others(p, agent, ag)
      BY <1>0, <1>3, FewerKeeps DEF Fine
    <2>3. Fewer(ag, s.agent)
      BY <2>1 DEF Fewer
    <2> QED BY <2>1, <2>2, <2>3
  <1> QED BY <1>2, <1>3

LEMMA CloseStep ==
    ASSUME Inv, NEW p \in Plugin, NEW w \in Window, window[w].open, window[w].plugin = p, Close(p, w)
    PROVE  Inv'
  <1> DEFINE s == Released(w, [entry |-> entry[p], agent |-> agent])
  <1>1. OpenOf(p) = {w} /\ Windows
    BY DEF Inv, Windows, OpenOf
  <1>2. Windows' /\ OpenOf(p)' = {} /\ \A q \in Plugin \ {p} : OpenOf(q)' = OpenOf(q)
    BY <1>1, NoWindow DEF Close
  <1>3. Agents(agent) /\ Fewer(agent, agent) /\ Fine(p)
    BY DEF Inv, Fewer
  <1>4. s.entry = None /\ NoIcon(p, s.agent) /\ Agents(s.agent) /\ Others(p, agent, s.agent)
    <2>1. p \notin Docked => entry[p] = None
      BY <1>3 DEF Fine
    <2>2. p \in Docked => entry[p].leases = 1
      BY <1>1, <1>3 DEF Fine
    <2> HIDE DEF s
    <2>3. s = Released(w, [entry |-> entry[p], agent |-> agent])
      BY DEF s
    <2> QED BY <1>3, <2>1, <2>2, <2>3, LeaseGoes
  <1>5. entry' = [entry EXCEPT ![p] = s.entry] /\ agent' = s.agent /\ fails' = fails
    BY DEF Close, Commit
  <1> HIDE DEF s
  <1>6. fails' \in Nat /\ fails' >= fails
    BY <1>5 DEF Inv
  <1> QED BY <1>2, <1>4, <1>5, <1>6, StepOf

\* What acquire gives to a plugin in the Dock, with or without an open window.
LEMMA AcquireKeeps ==
    ASSUME Inv, NEW p \in Docked, NEW ok \in BOOLEAN, NEW s, s = Acquire(p, ok)
    PROVE  /\ Agents(s.agent) /\ Others(p, agent, s.agent) /\ Manages(p, s.entry, s.agent)
           /\ s.entry.leases = IF OpenOf(p) = {} THEN 1 ELSE 2
           /\ s.entry.process = 0 => ~ok /\ s.agent # agent
  <1>0. p \in Plugin /\ Fine(p) /\ Agents(agent) /\ Len(agent) \in Nat /\ None \notin Entry
    BY WindowsAssumption DEF Inv, Agents
  <1>1. CASE OpenOf(p) = {}
    <2> DEFINE e == [leases |-> 1, generation |-> 0, restarts |-> 0, stopping |-> FALSE, process |-> 0]
    <2>1. entry[p] = None /\ NoIcon(p, agent)
      BY <1>0, <1>1 DEF Fine
    <2>2. Manages(p, e, agent) /\ e.leases = 1
      BY <1>0, <2>1 DEF Manages, NoIcon, Entry
    <2>3. s = Ensure(p, e, ok)
      BY <2>1 DEF Acquire
    <2> HIDE DEF e
    <2> QED BY <1>0, <1>1, <2>2, <2>3, EnsureKeeps
  <1>2. CASE OpenOf(p) # {}
    <2> DEFINE e == [entry[p] EXCEPT !.leases = @ + 1]
    <2>1. entry[p].leases = 1 /\ Manages(p, entry[p], agent) /\ entry[p] \in Entry /\ entry[p] # None
      BY <1>0, <1>2 DEF Fine, Manages
    <2>2. /\ e \in Entry /\ e.leases = 2 /\ e.generation = entry[p].generation /\ e.process = entry[p].process
          /\ e.restarts = entry[p].restarts /\ e.stopping = entry[p].stopping
      BY <2>1 DEF Entry
    <2>3. s = Ensure(p, e, ok)
      BY <2>1 DEF Acquire
    <2> HIDE DEF e
    <2>4. Manages(p, e, agent)
      BY <2>1, <2>2 DEF Manages
    <2> QED BY <1>0, <1>2, <2>2, <2>3, <2>4, EnsureKeeps
  <1> QED BY <1>1, <1>2

LEMMA OpenNewStep ==
    ASSUME Inv, NEW p \in Plugin, OpenNew(p, Find(p))
    PROVE  Inv'
  <1> DEFINE w == Find(p)
  <1>0. /\ Windows /\ Agents(agent) /\ Fine(p) /\ fails \in Nat
        /\ w \in Window \union {0} /\ OpenOf(p) \subseteq {w}
        /\ w # 0 => window[w].plugin = p /\ w \in Window /\ OpenOf(p) # {}
        /\ w = 0 => OpenOf(p) = {}
    BY Found DEF Inv
  <1>1. Windows' /\ OpenOf(p)' # {} /\ \A q \in Plugin \ {p} : OpenOf(q)' = OpenOf(q)
    BY <1>0, NewWindow DEF OpenNew
  <1>2. w # 0 => (window[w].docked <=> p \in Docked)
    BY <1>0 DEF Windows
  <1>3. CASE p \in Docked
    <2>1. PICK ok \in BOOLEAN :
            LET s == Acquire(p, ok)
                failed == s.agent # agent /\ ~ok
            IN  /\ fails' = IF failed THEN fails + 1 ELSE fails
                /\ Commit(p, Released(w, s))
      BY <1>3 DEF OpenNew
    <2> DEFINE s == Acquire(p, ok)
               r == Released(w, s)
    <2>2. /\ Agents(s.agent) /\ Others(p, agent, s.agent) /\ Manages(p, s.entry, s.agent)
          /\ s.entry.leases = IF OpenOf(p) = {} THEN 1 ELSE 2
          /\ s.entry.process = 0 => ~ok /\ s.agent # agent
      BY <1>3, AcquireKeeps
    <2>3. /\ fails' \in Nat /\ fails' >= fails
          /\ s.entry.process = 0 => fails' > 0
      BY <1>0, <2>1, <2>2
    <2>4. entry' = [entry EXCEPT ![p] = r.entry] /\ agent' = r.agent
      BY <2>1 DEF Commit
    <2>5. /\ r.agent = s.agent /\ r.entry.leases = 1
          /\ Manages(p, r.entry, r.agent) /\ Tried(r.entry, fails')
      <3>1. CASE w = 0
        <4>1. r = s
          BY <3>1 DEF Released
        <4> QED BY <1>0, <2>2, <2>3, <3>1, <4>1 DEF Tried
      <3>2. CASE w # 0
        <4> HIDE DEF s
        <4>1. s.entry \in Entry /\ s.entry.leases = 2
          BY <1>0, <2>2, <3>2 DEF Manages
        <4>2. r = [s EXCEPT !.entry.leases = @ - 1]
          BY <1>2, <1>3, <3>2, <4>1 DEF Released, Release
        <4>3. r.agent = s.agent /\ r.entry = [s.entry EXCEPT !.leases = @ - 1]
          BY <4>2 DEF s
        <4>4. /\ r.entry \in Entry /\ r.entry.leases = 1 /\ r.entry.generation = s.entry.generation
              /\ r.entry.process = s.entry.process /\ r.entry.restarts = s.entry.restarts
              /\ r.entry.stopping = s.entry.stopping
          BY <4>1, <4>3 DEF Entry
        <4> HIDE DEF r
        <4> QED BY <2>2, <2>3, <4>3, <4>4 DEF Manages, Tried
      <3> QED BY <3>1, <3>2
    <2> HIDE DEF r, s
    <2> QED BY <1>1, <1>3, <2>2, <2>3, <2>4, <2>5, StepOf
  <1>4. CASE p \notin Docked
    <2>1. PICK ok \in BOOLEAN :
            LET s == [entry |-> entry[p], agent |-> agent]
                failed == s.agent # agent /\ ~ok
            IN  /\ fails' = IF failed THEN fails + 1 ELSE fails
                /\ Commit(p, Released(w, s))
      BY <1>4 DEF OpenNew
    <2>2. Released(w, [entry |-> entry[p], agent |-> agent]) = [entry |-> entry[p], agent |-> agent]
      BY <1>2, <1>4 DEF Released
    <2>3. entry' = [entry EXCEPT ![p] = entry[p]] /\ agent' = agent /\ fails' = fails
      <3> DEFINE s == [entry |-> entry[p], agent |-> agent]
      <3>1. /\ fails' = IF s.agent # agent /\ ~ok THEN fails + 1 ELSE fails
            /\ entry' = [entry EXCEPT ![p] = s.entry] /\ agent' = s.agent
        BY <2>1, <2>2 DEF Commit
      <3>2. s.agent = agent /\ s.entry = entry[p]
        OBVIOUS
      <3> HIDE DEF s
      <3> QED BY <3>1, <3>2
    <2>4. entry[p] = None /\ NoIcon(p, agent)
      BY <1>0, <1>4 DEF Fine
    <2>5. Others(p, agent, agent)
      BY <1>0 DEF Others, Agents
    <2>6. Agents(agent') /\ fails' \in Nat /\ fails' >= fails /\ NoIcon(p, agent') /\ Others(p, agent, agent')
      BY <1>0, <2>3, <2>4, <2>5
    <2> QED BY <1>1, <1>4, <2>3, <2>4, <2>6, StepOf
  <1> QED BY <1>3, <1>4

LEMMA OpenStep ==
    ASSUME Inv, NEW p \in Plugin, Open(p)
    PROVE  Inv'
  <1>1. CASE OpenFails(p, Find(p))
    <2>1. Find(p) \in Window /\ window[Find(p)].open /\ window[Find(p)].plugin = p
      BY <1>1, Found DEF OpenFails, Inv
    <2> QED BY <1>1, <2>1, CloseStep DEF OpenFails
  <1>2. CASE Activate(p)
    <2>1. table' \in [Plugin -> Window \union {0}]
      BY <1>2, Found DEF Activate, Inv, Windows
    <2>2. Agents(agent') /\ Fewer(agent, agent')
      BY <1>2 DEF Activate, Inv, Fewer
    <2> QED BY <1>2, <2>1, <2>2, QuietStep DEF Activate
  <1> QED BY <1>1, <1>2, OpenNewStep DEF Open

\* An agent stops, or writes a line: it never starts by itself.
LEMMA DockStep ==
    ASSUME Inv, NEW g \in Generation, Dock(g)
    PROVE  Inv'
  <1> DEFINE Line == {"activate", "quit", "exited"}
  <1>0. /\ Agents(agent) /\ g \in 1..Len(agent) /\ agent[g] \in AgentRec /\ agent[g].out \in Seq(Line)
    <2>1. Agents(agent) /\ g \in 1..Len(agent) /\ agent[g] \in AgentRec
      BY DEF Inv, Agents, Generation
    <2> QED BY <2>1 DEF AgentRec
  <1>1. UNCHANGED <<window, table, entry, fails>>
    BY DEF Dock, ClickIcon, QuitIcon, StartupFails, Crash, Obey
  <1>2. Agents(agent') /\ Fewer(agent, agent')
    <2>1. ASSUME NEW why \in {"runs", "user", "failure", "told"}, NEW lines \in Seq(Line), Ends(g, why, lines)
          PROVE  Agents(agent') /\ Fewer(agent, agent')
      <3> DEFINE f == [agent[g] EXCEPT !.state = "down", !.why = why, !.out = @ \o lines]
      <3>1. agent[g].out \o lines \in Seq(Line)
        BY <1>0
      <3>2. f \in AgentRec /\ f.plugin = agent[g].plugin /\ f.state = "down"
        BY <1>0, <3>1 DEF AgentRec
      <3>3. agent' = [agent EXCEPT ![g] = f]
        BY <1>0, <2>1 DEF Ends
      <3> HIDE DEF f
      <3>4. Honest(f)
        BY <3>2 DEF Honest
      <3> QED BY <1>0, <3>2, <3>3, <3>4, OneAgent
    <2>2. CASE ClickIcon(g)
      <3> DEFINE f == [agent[g] EXCEPT !.out = Append(@, "activate")]
      <3>1. /\ Append(agent[g].out, "activate") \in Seq(Line)
            /\ \A i \in 1..Len(Append(agent[g].out, "activate")) :
                 Append(agent[g].out, "activate")[i] = "exited" => i \in 1..Len(agent[g].out) /\ agent[g].out[i] = "exited"
        BY <1>0
      <3>2. f \in AgentRec /\ f.plugin = agent[g].plugin /\ f.state = agent[g].state /\ f.out = Append(agent[g].out, "activate")
        BY <1>0, <3>1 DEF AgentRec
      <3>3. agent' = [agent EXCEPT ![g] = f]
        BY <1>0, <2>2 DEF ClickIcon
      <3> HIDE DEF f
      <3>4. Honest(f)
        BY <1>0, <3>1, <3>2 DEF Honest, Agents
      <3> QED BY <1>0, <3>2, <3>3, <3>4, OneAgent
    <2>3. <<"exited">> \in Seq(Line) /\ <<"quit", "exited">> \in Seq(Line)
      OBVIOUS
    <2> HIDE DEF Line
    <2> QED BY <2>1, <2>2, <2>3 DEF Dock, QuitIcon, StartupFails, Crash, Obey
  <1> QED BY <1>1, <1>2, QuietStep DEF Inv, Windows

-----------------------------------------------------------------------------

\* What a line of an agent is read from.
LEMMA Reads ==
    ASSUME Inv, NEW g \in Generation, agent[g].out # <<>>
    PROVE  /\ Agents(Rest(agent, g)) /\ Fewer(agent, Rest(agent, g))
           /\ agent[g].plugin \in Plugin
           /\ Head(agent[g].out) = "exited" => agent[g].state = "down"
  <1>1. g \in 1..Len(agent) /\ Agents(agent) /\ agent[g] \in AgentRec
    BY DEF Inv, Generation, Agents
  <1>2. agent[g].out \in Seq({"activate", "quit", "exited"}) /\ agent[g].plugin \in Plugin
    BY <1>1 DEF AgentRec
  <1>3. Head(agent[g].out) = agent[g].out[1] /\ 1 \in 1..Len(agent[g].out)
    BY <1>2
  <1>4. Honest(agent[g])
    BY <1>1 DEF Agents
  <1> QED BY <1>1, <1>2, <1>3, <1>4, RestKeeps DEF Honest

\* An entry is of a plugin in the Dock that has an open window.
LEMMA Current ==
    ASSUME Inv, NEW p \in Plugin, entry[p] # None
    PROVE  /\ p \in Docked /\ OpenOf(p) # {} /\ Find(p) # 0
           /\ entry[p].leases = 1 /\ Manages(p, entry[p], agent) /\ Tried(entry[p], fails)
  BY Found DEF Inv, Fine

LEMMA ActivateStep ==
    ASSUME Inv, NEW g \in Generation, OnActivate(g)
    PROVE  Inv'
  <1> DEFINE p == agent[g].plugin
  <1>1. Agents(Rest(agent, g)) /\ Fewer(agent, Rest(agent, g)) /\ p \in Plugin
    BY Reads DEF OnActivate, Read
  <1>2. table' \in [Plugin -> Window \union {0}]
    BY <1>1, Found DEF OnActivate, Inv, Windows
  <1> QED BY <1>1, <1>2, QuietStep DEF OnActivate

LEMMA QuitStep ==
    ASSUME Inv, NEW g \in Generation, OnQuit(g)
    PROVE  Inv'
  <1>0. PICK p \in Plugin : p = agent[g].plugin
    BY Reads DEF OnQuit, Read
  <1> DEFINE w == Find(p)
             ag == Rest(agent, g)
             e == [entry[p] EXCEPT !.stopping = TRUE]
             s == Released(w, [entry |-> e, agent |-> ag])
  <1>1. Agents(ag) /\ Fewer(agent, ag)
    BY Reads DEF OnQuit, Read
  <1>2. CASE ~IsCurrent(g)
    BY <1>1, <1>2, QuietStep DEF OnQuit, Inv, Windows
  <1>3. CASE IsCurrent(g)
    <2>1. /\ p \in Docked /\ w # 0 /\ entry[p].leases = 1 /\ entry[p] \in Entry
      BY <1>0, <1>3, Current DEF IsCurrent, Manages
    <2>2. w \in Window /\ window[w].open /\ window[w].plugin = p /\ OpenOf(p) = {w}
      BY <1>1, <2>1, Found DEF Inv
    <2>3. e.leases = 1 /\ e.process = entry[p].process
      BY <2>1 DEF Entry
    <2>4. /\ entry' = [entry EXCEPT ![p] = s.entry] /\ agent' = s.agent /\ fails' = fails
          /\ window' = Closed(w) /\ table' = [table EXCEPT ![p] = 0]
      BY <1>0, <1>3 DEF OnQuit, Commit
    <2>5. s = Released(w, [entry |-> e, agent |-> ag])
      OBVIOUS
    <2> HIDE DEF s, e, ag, w
    <2>6. s.entry = None /\ NoIcon(p, s.agent) /\ Agents(s.agent) /\ Others(p, agent, s.agent)
      BY <1>1, <2>1, <2>2, <2>3, <2>5, LeaseGoes
    <2>7. Windows' /\ OpenOf(p)' = {} /\ \A q \in Plugin \ {p} : OpenOf(q)' = OpenOf(q)
      BY <1>1, <2>2, <2>4, NoWindow DEF Inv
    <2>8. fails' \in Nat /\ fails' >= fails
      BY <2>4 DEF Inv
    <2> QED BY <1>1, <2>4, <2>6, <2>7, <2>8, StepOf
  <1> QED BY <1>2, <1>3

LEMMA ExitedStep ==
    ASSUME Inv, NEW g \in Generation, OnExited(g)
    PROVE  Inv'
  <1>0. PICK p \in Plugin : p = agent[g].plugin
    BY Reads DEF OnExited, Read
  <1> DEFINE ag == Rest(agent, g)
             gone == [entry[p] EXCEPT !.process = 0]
  <1>1. /\ Agents(ag) /\ Fewer(agent, ag) /\ agent[g].state = "down" /\ Len(agent) \in Nat
        /\ UNCHANGED <<window, table>> /\ Agents(agent) /\ fails \in Nat
        /\ g \in 1..Len(agent) /\ agent[g].out # <<>>
    BY Reads DEF OnExited, Read, Inv, Agents, Generation
  <1>2. CASE ~IsCurrent(g)
    <2>1. UNCHANGED <<entry, fails>> /\ agent' = ag
      BY <1>2 DEF OnExited
    <2> QED BY <1>1, <2>1, QuietStep DEF Inv, Windows
  <1>3. CASE IsCurrent(g)
    <2>1. /\ p \in Docked /\ OpenOf(p) # {} /\ entry[p].leases = 1 /\ Manages(p, entry[p], agent)
          /\ entry[p] \in Entry /\ entry[p].generation = g
      BY <1>0, <1>3, Current DEF IsCurrent, Manages
    <2>2. /\ gone \in Entry /\ gone.leases = 1 /\ gone.process = 0 /\ gone.generation = g
          /\ gone.restarts = entry[p].restarts /\ gone.stopping = entry[p].stopping
      BY <2>1 DEF Entry
    <2>3. NoIcon(p, agent)
      <3> SUFFICES ASSUME NEW h \in 1..Len(agent), agent[h].plugin = p, agent[h].state = "up"
                   PROVE  FALSE
        BY DEF NoIcon
      <3>1. entry[p].process = h /\ h # 0
        BY <2>1 DEF Manages
      <3>2. h = g
        BY <2>1, <3>1 DEF Manages
      <3> QED BY <1>1, <3>2
    <2>4. /\ Windows' /\ OpenOf(p)' # {} /\ \A q \in Plugin \ {p} : OpenOf(q)' = OpenOf(q)
      BY <1>1, <2>1 DEF Inv, Windows, Window, OpenOf
    <2>5. CASE ~Restarts(gone)
      <3>1. agent' = ag /\ entry' = [entry EXCEPT ![p] = gone] /\ fails' = fails
        BY <1>0, <1>3, <2>5 DEF OnExited
      <3>2. gone.restarts = 1
        BY <2>1, <2>2, <2>5 DEF Manages, Restarts
      <3>3. Manages(p, gone, ag) /\ Tried(gone, fails')
        <4> HIDE DEF gone, ag
        <4>1. NoIcon(p, ag) /\ Len(ag) \in Nat
          BY <1>1, <2>3, FewerKeeps DEF Agents
        <4> QED BY <2>1, <2>2, <3>2, <4>1 DEF Manages, NoIcon, Tried
      <3>4. Others(p, agent, ag)
        BY <1>1, FewerKeeps
      <3>5. fails' \in Nat /\ fails' >= fails
        BY <1>1, <3>1
      <3> HIDE DEF gone, ag
      <3> QED BY <1>1, <2>1, <2>2, <2>4, <3>1, <3>3, <3>4, <3>5, StepOf
    <2>6. CASE Restarts(gone)
      <3> DEFINE e == [gone EXCEPT !.restarts = @ + 1]
      <3>1. PICK ok \in BOOLEAN :
              LET s == Ensure(p, e, ok)
              IN  /\ fails' = IF ok THEN fails ELSE fails + 1
                  /\ Commit(p, [s EXCEPT !.agent = Rest(@, g)])
        BY <1>0, <1>3, <2>6 DEF OnExited
      <3> DEFINE s == Ensure(p, e, ok)
      <3>2. /\ e \in Entry /\ e.leases = 1 /\ e.process = 0 /\ e.generation = g /\ e.restarts = 1 /\ ~e.stopping
        <4> HIDE DEF gone
        <4> QED BY <2>1, <2>2, <2>6 DEF Entry, Restarts
      <3>3. Manages(p, e, agent)
        <4> HIDE DEF e
        <4> QED BY <1>1, <2>3, <3>2 DEF Manages, NoIcon
      <3>4. /\ Agents(s.agent) /\ Others(p, agent, s.agent) /\ Manages(p, s.entry, s.agent)
            /\ s.entry.leases = 1 /\ s.entry.restarts = 1
            /\ g \in 1..Len(s.agent) /\ s.agent[g] = agent[g]
        <4> HIDE DEF e
        <4> QED BY <1>1, <3>2, <3>3, EnsureKeeps
      <3>5. entry' = [entry EXCEPT ![p] = s.entry] /\ agent' = Rest(s.agent, g)
        <4>1. s = [entry |-> s.entry, agent |-> s.agent]
          <5> HIDE DEF e
          <5> QED BY DEF Ensure
        <4>2. /\ [s EXCEPT !.agent = Rest(@, g)].entry = s.entry
              /\ [s EXCEPT !.agent = Rest(@, g)].agent = Rest(s.agent, g)
          <5> HIDE DEF s
          <5> QED BY <4>1
        <4> HIDE DEF s
        <4> QED BY <3>1, <4>2 DEF Commit, s
      <3>6. fails' \in Nat /\ fails' >= fails
        BY <1>1, <3>1
      <3> HIDE DEF s, e
      <3>7. Agents(agent') /\ Fewer(s.agent, agent')
        BY <1>1, <3>4, <3>5, RestKeeps
      <3>8. Others(p, agent, agent') /\ Manages(p, s.entry, agent')
        BY <3>4, <3>7, OthersThenFewer, FewerKeeps
      <3>9. Tried(s.entry, fails')
        BY <3>4 DEF Tried
      <3> QED BY <2>1, <2>4, <3>4, <3>5, <3>6, <3>7, <3>8, <3>9, StepOf
    <2> QED BY <2>5, <2>6
  <1> QED BY <1>2, <1>3

-----------------------------------------------------------------------------

LEMMA Initially == ASSUME Init PROVE Inv
  <1>1. Window = {} /\ Len(agent) = 0 /\ agent = <<>>
    BY DEF Init, Window
  <1>2. Windows /\ Agents(agent)
    BY <1>1 DEF Init, Windows, Agents
  <1>3. \A p \in Plugin : OpenOf(p) = {} /\ NoIcon(p, agent)
    BY <1>1 DEF OpenOf, NoIcon
  <1> QED BY <1>2, <1>3 DEF Init, Inv, Fine

LEMMA EveryStep == ASSUME Inv, [Next]_vars PROVE Inv'
  <1>1. ASSUME NEW w \in Window, CloseByUser(w) PROVE Inv'
    <2>1. window[w].plugin \in Plugin
      BY Shapes DEF Inv, WindowRec
    <2>2. PICK p \in Plugin : p = window[w].plugin
      BY <2>1
    <2> QED BY <1>1, <2>2, CloseStep DEF CloseByUser
  <1>2. CASE UNCHANGED vars
    <2>1. UNCHANGED <<window, table, entry, agent, fails>>
      BY <1>2 DEF vars
    <2>2. Agents(agent') /\ Fewer(agent, agent')
      BY <2>1 DEF Inv, Fewer
    <2> QED BY <2>1, <2>2, QuietStep DEF Inv, Windows
  <1> QED BY <1>1, <1>2, OpenStep, DockStep, ActivateStep, QuitStep, ExitedStep DEF Next, Event

\* The link table, the windows, the leases and the agents agree in every state.
THEOREM Invariance == Spec => []Inv
  BY Initially, EveryStep, PTL DEF Spec

\* However a window was opened, replaced or closed, and whichever end of the pipe
\* asked for it: a plugin has one window, and its leases are those of its windows.
THEOREM LeasesCount == Spec => []WindowsAreCounted
  <1>1. ASSUME Inv PROVE WindowsAreCounted
    <2> SUFFICES ASSUME NEW p \in Plugin
                 PROVE  LET leasing == Cardinality({w \in OpenOf(p) : window[w].docked})
                        IN  /\ Cardinality(OpenOf(p)) <= 1
                            /\ IF entry[p] = None THEN leasing = 0 ELSE entry[p].leases = leasing
      BY DEF WindowsAreCounted
    <2> DEFINE D == {w \in OpenOf(p) : window[w].docked}
    <2>1. Fine(p) /\ Windows /\ None \notin Entry
      BY <1>1, WindowsAssumption DEF Inv
    <2>2. CASE OpenOf(p) = {}
      <3>1. D = {} /\ entry[p] = None
        BY <2>1, <2>2 DEF Fine
      <3> QED BY <2>2, <3>1, FS_EmptySet
    <2>3. CASE OpenOf(p) # {}
      <3>1. PICK w \in OpenOf(p) : OpenOf(p) = {w} /\ (window[w].docked <=> p \in Docked)
        BY <2>1, <2>3 DEF OpenOf, Windows
      <3>2. Cardinality(OpenOf(p)) = 1
        BY <3>1, FS_Singleton
      <3>3. CASE p \in Docked
        <4>1. D = {w} /\ entry[p].leases = 1 /\ entry[p] # None
          BY <2>1, <2>3, <3>1, <3>3 DEF Fine, Manages
        <4> QED BY <3>2, <4>1, FS_Singleton
      <3>4. CASE p \notin Docked
        <4>1. D = {} /\ entry[p] = None
          BY <2>1, <3>1, <3>4 DEF Fine
        <4>2. Cardinality(D) = 0
          BY <4>1, FS_EmptySet
        <4> HIDE DEF D
        <4>3. IF entry[p] = None THEN Cardinality(D) = 0 ELSE entry[p].leases = Cardinality(D)
          BY <4>1, <4>2
        <4>4. Cardinality(OpenOf(p)) <= 1
          BY <3>2
        <4> QED BY <4>3, <4>4 DEF D
      <3> QED BY <3>3, <3>4
    <2> QED BY <2>2, <2>3
  <1> QED BY <1>1, Invariance, PTL

\* An icon in the Dock that was not told to go is the one of its plugin's window,
\* and no window is left without one but after its restart or a failed spawn.
THEOREM IconsFollow == Spec => []IconFollowsWindow
  <1>1. ASSUME Inv PROVE IconFollowsWindow
    <2>1. ASSUME NEW g \in Generation, agent[g].state = "up"
          PROVE  entry[agent[g].plugin] # None /\ entry[agent[g].plugin].process = g
      <3>1. agent[g] \in AgentRec /\ g \in 1..Len(agent)
        BY <1>1 DEF Inv, Agents, Generation
      <3>2. PICK p \in Plugin : p = agent[g].plugin
        BY <3>1 DEF AgentRec
      <3>3. Fine(p) /\ None \notin Entry
        BY <1>1, WindowsAssumption DEF Inv
      <3>4. ~NoIcon(p, agent)
        BY <2>1, <3>1, <3>2 DEF NoIcon
      <3> QED BY <2>1, <3>1, <3>2, <3>3, <3>4 DEF Fine, Manages
    <2>2. ASSUME NEW p \in Plugin, entry[p] # None
          PROVE  ~entry[p].stopping /\ (entry[p].process = 0 => entry[p].restarts = 1 \/ fails > 0)
      BY <1>1, <2>2, Current DEF Manages, Tried
    <2> QED BY <2>1, <2>2 DEF IconFollowsWindow
  <1> QED BY <1>1, Invariance, PTL

-----------------------------------------------------------------------------
(* A line of an agent that is not its plugin's.                            *)

\* What the manager does to a plugin leaves the lines of the agents there are.
LEMMA LinesStay ==
    ASSUME NEW ag, Agents(ag), NEW e, NEW w, NEW r, r = Released(w, [entry |-> e, agent |-> ag])
    PROVE  \A g \in 1..Len(ag) : r.agent[g].out = ag[g].out
  <1>1. r.agent = ag \/ r.agent = StopProcess(ag, e.process)
    <2> DEFINE s == [entry |-> e, agent |-> ag]
    <2>1. s.agent = ag /\ s.entry = e /\ s = [entry |-> e, agent |-> ag]
      OBVIOUS
    <2>2. [s EXCEPT !.entry.leases = @ - 1].agent = ag
      OBVIOUS
    <2>3. r = s \/ r = [s EXCEPT !.entry.leases = @ - 1] \/ r = [entry |-> None, agent |-> StopProcess(s.agent, s.entry.process)]
      BY DEF Released, Release
    <2> HIDE DEF s
    <2> QED BY <2>1, <2>2, <2>3
  <1>2. \A g \in 1..Len(ag) : StopProcess(ag, e.process)[g].out = ag[g].out
    <2> TAKE g \in 1..Len(ag)
    <2>1. ag[g] \in AgentRec
      BY DEF Agents
    <2> QED BY <2>1 DEF StopProcess, Agents, AgentRec
  <1> QED BY <1>1, <1>2

LEMMA AcquireLines ==
    ASSUME Inv, NEW p \in Docked, NEW ok \in BOOLEAN, NEW s, s = Acquire(p, ok)
    PROVE  /\ s = [entry |-> s.entry, agent |-> s.agent]
           /\ \A g \in Generation : g \in 1..Len(s.agent) /\ s.agent[g] = agent[g]
  <1>1. PICK e : s = Ensure(p, e, ok)
    BY DEF Acquire
  <1>2. s = [entry |-> s.entry, agent |-> s.agent]
    <2>1. CASE e.process # 0 \/ e.stopping
      BY <1>1, <2>1 DEF Ensure
    <2>2. CASE ~(e.process # 0 \/ e.stopping)
      BY <1>1, <2>2 DEF Ensure
    <2> QED BY <2>1, <2>2
  <1>3. s.agent = agent \/ \E f : s.agent = Append(agent, f)
    BY <1>1 DEF Ensure
  <1>4. agent \in Seq(AgentRec)
    BY DEF Inv, Agents
  <1>5. ASSUME NEW f, NEW g \in Generation
        PROVE  g \in 1..Len(Append(agent, f)) /\ Append(agent, f)[g] = agent[g]
    BY <1>4 DEF Generation
  <1> QED BY <1>2, <1>3, <1>5 DEF Generation

LEMMA OpenLines ==
    ASSUME Inv, (\E p \in Plugin : Open(p)) \/ (\E w \in Window : CloseByUser(w))
    PROVE  \A g \in Generation : agent'[g].out = agent[g].out
  <1>0. Agents(agent)
    BY DEF Inv
  <1>1. ASSUME NEW p, NEW w, Close(p, w)
        PROVE  \A g \in Generation : agent'[g].out = agent[g].out
    BY <1>0, <1>1, LinesStay DEF Close, Commit, Generation
  <1>2. ASSUME NEW p \in Plugin, OpenNew(p, Find(p))
        PROVE  \A g \in Generation : agent'[g].out = agent[g].out
    <2>1. PICK ok \in BOOLEAN :
            LET s == IF p \in Docked THEN Acquire(p, ok) ELSE [entry |-> entry[p], agent |-> agent]
            IN  Commit(p, Released(Find(p), s))
      BY <1>2 DEF OpenNew
    <2>2. CASE p \in Docked
      <3> DEFINE s == Acquire(p, ok)
      <3>1. /\ Agents(s.agent) /\ s = [entry |-> s.entry, agent |-> s.agent]
            /\ \A g \in Generation : g \in 1..Len(s.agent) /\ s.agent[g] = agent[g]
        BY <2>2, AcquireKeeps, AcquireLines
      <3>2. agent' = Released(Find(p), s).agent
        BY <2>1, <2>2 DEF Commit
      <3> HIDE DEF s
      <3> QED BY <3>1, <3>2, LinesStay
    <2>3. CASE p \notin Docked
      <3>1. agent' = Released(Find(p), [entry |-> entry[p], agent |-> agent]).agent
        BY <2>1, <2>3 DEF Commit
      <3> QED BY <1>0, <3>1, LinesStay DEF Generation
    <2> QED BY <2>2, <2>3
  <1> QED BY <1>1, <1>2 DEF Open, OpenFails, Activate, CloseByUser

\* A line that is read is the reader's; nobody else's lines change.
LEMMA EventLines ==
    ASSUME Inv, NEW h \in Generation, Event(h), NEW g \in Generation, agent'[g].out # agent[g].out
    PROVE  g = h
  <1> SUFFICES ASSUME g # h PROVE agent'[g].out = agent[g].out
    OBVIOUS
  <1>0. Agents(agent) /\ agent \in Seq(AgentRec) /\ g \in 1..Len(agent) /\ h \in 1..Len(agent)
    BY DEF Inv, Agents, Generation
  <1> DEFINE ag == Rest(agent, h)
             p == agent[h].plugin
  <1>1. Agents(ag) /\ Len(ag) = Len(agent) /\ p \in Plugin
    BY Reads DEF Event, OnActivate, OnQuit, OnExited, Read, Fewer
  <1>2. ag[g] = agent[g]
    BY <1>0 DEF Rest
  <1>3. CASE agent' = ag
    BY <1>2, <1>3
  <1>4. CASE OnQuit(h) /\ IsCurrent(h)
    <2>1. agent' = Released(Find(p), [entry |-> [entry[p] EXCEPT !.stopping = TRUE], agent |-> ag]).agent
      BY <1>4 DEF OnQuit, Commit
    <2> HIDE DEF ag, p
    <2> QED BY <1>0, <1>1, <1>2, <2>1, LinesStay
  <1>5. CASE OnExited(h) /\ agent' # ag
    <2>1. PICK e, ok : agent' = [Ensure(p, e, ok) EXCEPT !.agent = Rest(@, h)].agent
      BY <1>5 DEF OnExited, Commit
    <2> DEFINE s == Ensure(p, e, ok)
    <2>2. s = [entry |-> s.entry, agent |-> s.agent] /\ (s.agent = agent \/ \E f : s.agent = Append(agent, f))
      BY DEF Ensure
    <2> HIDE DEF s
    <2>3. s.agent[g] = agent[g] /\ g \in DOMAIN s.agent
      BY <1>0, <2>2
    <2>4. agent' = Rest(s.agent, h)
      BY <2>1, <2>2 DEF s
    <2> QED BY <2>3, <2>4 DEF Rest
  <1> QED BY <1>3, <1>4, <1>5 DEF Event, OnActivate, OnQuit

\* Whatever a replaced agent left in its pipe, and whenever the UI thread reads
\* it: no window closes and no entry changes, but by a line of the agent in place.
THEOREM StaleLines == Spec => StaleAgentIsHarmless
  <1> DEFINE Quiet == \A g \in Generation :
                agent'[g].out # agent[g].out /\ ~(\E p \in Plugin : entry[p] # None /\ entry[p].generation = g)
                => UNCHANGED <<window, entry>>
  <1>1. ASSUME Inv, [Next]_vars PROVE Quiet
    <2> SUFFICES ASSUME NEW g \in Generation, agent'[g].out # agent[g].out,
                        ~(\E p \in Plugin : entry[p] # None /\ entry[p].generation = g)
                 PROVE  UNCHANGED <<window, entry>>
      OBVIOUS
    <2>1. CASE (\E p \in Plugin : Open(p)) \/ (\E w \in Window : CloseByUser(w))
      BY <1>1, <2>1, OpenLines
    <2>2. ASSUME NEW h \in Generation, Dock(h) PROVE UNCHANGED <<window, entry>>
      BY <2>2 DEF Dock, ClickIcon, QuitIcon, StartupFails, Crash, Obey
    <2>3. ASSUME NEW h \in Generation, Event(h) PROVE UNCHANGED <<window, entry>>
      <3>1. g = h
        BY <1>1, <2>3, EventLines
      <3>2. agent[h].plugin \in Plugin
        BY <1>1, <2>3, Reads DEF Event, OnActivate, OnQuit, OnExited, Read
      <3>3. ~IsCurrent(h)
        BY <3>1, <3>2 DEF IsCurrent
      <3> QED BY <2>3, <3>3 DEF Event, OnActivate, OnQuit, OnExited
    <2>4. CASE UNCHANGED vars
      BY <2>4 DEF vars
    <2> QED BY <1>1, <2>1, <2>2, <2>3, <2>4 DEF Next
  <1> QED BY <1>1, Invariance, PTL DEF Spec, StaleAgentIsHarmless
=============================================================================
