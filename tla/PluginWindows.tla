---------------------------- MODULE PluginWindows ----------------------------
(***************************************************************************)
(* The windows of the plugins and their Dock icons in qingqi-app:          *)
(* WindowController (window_controller.rs) and DockAgentManager            *)
(* (dock_agent.rs).  Both live on the UI thread, so a callback there is    *)
(* one step, with the deferred removals and releases GPUI flushes at its   *)
(* end; the Dock agents are processes of their own, whose lines arrive     *)
(* through a pipe one callback at a time.  The views inside the windows    *)
(* and the close_idle hooks of the plugins are left out.                   *)
(***************************************************************************)
EXTENDS Naturals, Sequences, FiniteSets

CONSTANTS Plugin,
          OnTop,      \* manifest.window.always_on_top
          Docked,     \* manifest.window.show_in_dock
          None,       \* no entry
          MaxWindow,  \* bound: windows opened in a behaviour
          MaxFail,    \* bound: spawns that fail
          MaxOut      \* bound: lines an agent has written and nobody read

\* An entry of dock_agents.agents.
Entry == [leases : Nat, generation : Nat, restarts : Nat, stopping : BOOLEAN, process : Nat]

ASSUME WindowsAssumption ==
    /\ OnTop \subseteq Plugin /\ Docked \subseteq Plugin /\ None \notin Entry
    /\ {MaxWindow, MaxFail, MaxOut} \subseteq Nat

VARIABLES window,  \* the windows ever opened: plugin, open, dock_agent_registered
          table,   \* plugin_windows: Plugin -> window, 0 for none
          entry,   \* dock_agents.agents: Plugin -> entry or None
          agent,   \* the agents spawned, by generation: plugin, state, why it quit, unread lines
          fails    \* spawns that failed

vars == <<window, table, entry, agent, fails>>

Window == 1..Len(window)
Generation == 1..Len(agent)

Init ==
    /\ window = <<>> /\ agent = <<>> /\ fails = 0
    /\ table = [p \in Plugin |-> 0] /\ entry = [p \in Plugin |-> None]

-----------------------------------------------------------------------------
(* DockAgentManager.  Each operator takes the entry and the agents and     *)
(* gives them back, as [entry, agent].                                     *)

\* ensure_process: a new generation, even when the process cannot be spawned.
Ensure(p, e, ok) ==
    IF e.process # 0 \/ e.stopping THEN [entry |-> e, agent |-> agent]
    ELSE LET g == Len(agent) + 1
         IN  [entry |-> IF ok THEN [e EXCEPT !.generation = g, !.process = g] ELSE e,
              agent |-> Append(agent, [plugin |-> p, state |-> IF ok THEN "up" ELSE "none",
                                       why |-> "runs", out |-> <<>>])]

Acquire(p, ok) ==
    IF entry[p] # None THEN Ensure(p, [entry[p] EXCEPT !.leases = @ + 1], ok)
    ELSE Ensure(p, [leases |-> 1, generation |-> 0, restarts |-> 0, stopping |-> FALSE, process |-> 0], ok)

\* stop_process: the agent is told to shut down.
StopProcess(agents, g) ==
    IF g # 0 /\ agents[g].state = "up" THEN [agents EXCEPT ![g].state = "told"] ELSE agents

\* (Fault: an off-by-one, the entry survives its last lease.)
ReleaseLate(s) == [s EXCEPT !.entry.leases = IF @ > 1 THEN @ - 1 ELSE @]
Release(s) ==
    IF s.entry.leases > 1 THEN [s EXCEPT !.entry.leases = @ - 1]
    ELSE [entry |-> None, agent |-> StopProcess(s.agent, s.entry.process)]

\* What the release of window w's PluginWindow does to the manager.
Released(w, s) == IF w # 0 /\ window[w].docked THEN Release(s) ELSE s

-----------------------------------------------------------------------------
(* WindowController.                                                       *)

OpenOf(p) == {w \in Window : window[w].plugin = p /\ window[w].open}

\* The window the table names when it is still open, else one a scan of
\* cx.windows() finds.  (Fault: no scan.)
FindStored(p) == IF table[p] \in OpenOf(p) THEN table[p] ELSE 0
Find(p) == IF table[p] \in OpenOf(p) THEN table[p]
           ELSE IF OpenOf(p) = {} THEN 0 ELSE CHOOSE w \in OpenOf(p) : TRUE

Closed(w) == [v \in Window |-> IF v = w THEN [window[v] EXCEPT !.open = FALSE] ELSE window[v]]

Commit(p, s) == entry' = [entry EXCEPT ![p] = s.entry] /\ agent' = s.agent

\* The window w of plugin p is removed and its PluginWindow released, which
\* clears the table by the plugin's id.
Close(p, w) ==
    /\ window' = Closed(w)
    /\ table' = [table EXCEPT ![p] = 0]
    /\ Commit(p, Released(w, [entry |-> entry[p], agent |-> agent]))
    /\ UNCHANGED fails

\* open_plugin of a plugin without a window, or that reopens in the active
\* space: the old window is removed only after the new one is in place.
OpenNew(p, old) ==
    /\ Len(window) < MaxWindow
    /\ \E ok \in BOOLEAN :
          LET s == IF p \in Docked THEN Acquire(p, ok) ELSE [entry |-> entry[p], agent |-> agent]
              failed == s.agent # agent /\ ~ok
          IN  /\ failed => fails < MaxFail
              /\ fails' = IF failed THEN fails + 1 ELSE fails
              /\ Commit(p, Released(old, s))
    /\ window' = Append(Closed(old), [plugin |-> p, open |-> TRUE, docked |-> p \in Docked])
    /\ table' = [table EXCEPT ![p] = IF old = 0 THEN Len(window) + 1 ELSE 0]

\* The plugin gives no view, or GPUI no window.
OpenFails(p, old) == old # 0 /\ Close(p, old)

Activate(p) ==
    /\ Find(p) # 0
    /\ table' = [table EXCEPT ![p] = Find(p)]
    /\ UNCHANGED <<window, entry, agent, fails>>

Open(p) ==
    IF p \in OnTop \/ Find(p) = 0 THEN OpenNew(p, Find(p)) \/ OpenFails(p, Find(p)) ELSE Activate(p)

\* The user closes a window: Escape, the button, the system.
CloseByUser(w) == window[w].open /\ Close(window[w].plugin, w)

-----------------------------------------------------------------------------
(* The agents.                                                             *)

Ends(g, why, lines) ==
    agent' = [agent EXCEPT ![g].state = "down", ![g].why = why, ![g].out = @ \o lines]

\* The user clicks the icon, or quits the agent from the Dock.
ClickIcon(g) ==
    /\ agent[g].state \in {"up", "told"} /\ Len(agent[g].out) < MaxOut
    /\ agent' = [agent EXCEPT ![g].out = Append(@, "activate")]
    /\ UNCHANGED <<window, table, entry, fails>>

QuitIcon(g) ==
    /\ agent[g].state \in {"up", "told"}
    /\ Ends(g, "user", <<"quit", "exited">>)
    /\ UNCHANGED <<window, table, entry, fails>>

\* configure_dock_agent fails: the agent quits, which runs the same hook.
StartupFails(g) ==
    /\ agent[g].state \in {"up", "told"} /\ agent[g].out = <<>>
    /\ Ends(g, "failure", <<"quit", "exited">>)
    /\ UNCHANGED <<window, table, entry, fails>>

Crash(g) ==
    /\ agent[g].state \in {"up", "told"}
    /\ Ends(g, "failure", <<"exited">>)
    /\ UNCHANGED <<window, table, entry, fails>>

\* The shutdown line, or the SIGKILL that follows it after 100 ms.
Obey(g) ==
    /\ agent[g].state = "told"
    /\ Ends(g, "told", <<"exited">>)
    /\ UNCHANGED <<window, table, entry, fails>>

-----------------------------------------------------------------------------
(* handle_dock_agent_event, for a line of the agent of generation g.       *)

Read(g, line) == agent[g].out # <<>> /\ Head(agent[g].out) = line
Rest(agents, g) == [agents EXCEPT ![g].out = Tail(@)]

\* (Fault: a line of an earlier agent of the plugin counts.)
AnyAgent(g) == entry[agent[g].plugin] # None
IsCurrent(g) == LET e == entry[agent[g].plugin] IN e # None /\ e.generation = g

OnActivate(g) ==
    LET p == agent[g].plugin
    IN  /\ Read(g, "activate")
        /\ agent' = Rest(agent, g)
        /\ table' = IF IsCurrent(g) /\ ~entry[p].stopping /\ Find(p) # 0
                    THEN [table EXCEPT ![p] = Find(p)] ELSE table
        /\ UNCHANGED <<window, entry, fails>>

\* mark_stopping, and the window goes.
OnQuit(g) ==
    LET p == agent[g].plugin
        s == [entry |-> [entry[p] EXCEPT !.stopping = TRUE], agent |-> Rest(agent, g)]
    IN  /\ Read(g, "quit")
        /\ IF ~IsCurrent(g) THEN agent' = Rest(agent, g) /\ UNCHANGED <<window, table, entry>>
           ELSE /\ Commit(p, Released(Find(p), s))
                /\ window' = Closed(Find(p))
                /\ table' = [table EXCEPT ![p] = 0]
        /\ UNCHANGED fails

\* handle_exit: an agent that was not told to stop is restarted once.
\* (Fault: the attempt is counted before it is looked at.)
RestartsLater(e) == ~e.stopping /\ e.restarts = 1
Restarts(e) == ~e.stopping /\ e.restarts = 0

OnExited(g) ==
    LET p == agent[g].plugin
        gone == [entry[p] EXCEPT !.process = 0]
    IN  /\ Read(g, "exited")
        /\ \/ /\ ~IsCurrent(g)
              /\ agent' = Rest(agent, g) /\ UNCHANGED <<entry, fails>>
           \/ /\ IsCurrent(g) /\ ~Restarts(gone)
              /\ agent' = Rest(agent, g)
              /\ entry' = [entry EXCEPT ![p] = gone] /\ UNCHANGED fails
           \/ /\ IsCurrent(g) /\ Restarts(gone)
              /\ \E ok \in BOOLEAN :
                    LET s == Ensure(p, [gone EXCEPT !.restarts = @ + 1], ok)
                    IN  /\ ~ok => fails < MaxFail
                        /\ fails' = IF ok THEN fails ELSE fails + 1
                        /\ Commit(p, [s EXCEPT !.agent = Rest(@, g)])
        /\ UNCHANGED <<window, table>>

Dock(g) == ClickIcon(g) \/ QuitIcon(g) \/ StartupFails(g) \/ Crash(g) \/ Obey(g)
Event(g) == OnActivate(g) \/ OnQuit(g) \/ OnExited(g)

Next ==
    \/ \E p \in Plugin : Open(p)
    \/ \E w \in Window : CloseByUser(w)
    \/ \E g \in Generation : Dock(g) \/ Event(g)

Spec == Init /\ [][Next]_vars

\* The reader task of an agent runs as long as it has lines.  Nobody has to
\* click, nothing has to crash.
FairSpec == Spec /\ \A g \in 1..(2 * MaxWindow + MaxFail) : WF_vars(g \in Generation /\ Event(g))

-----------------------------------------------------------------------------
\* A plugin has one window, although the table loses the window that replaces
\* another in the active space; and its leases count its open windows that asked
\* for an icon, so that the icon goes with the last of them.
WindowsAreCounted == \A p \in Plugin :
    LET leasing == Cardinality({w \in OpenOf(p) : window[w].docked})
    IN  /\ Cardinality(OpenOf(p)) <= 1
        /\ IF entry[p] = None THEN leasing = 0 ELSE entry[p].leases = leasing

\* Icons follow windows.  An agent nobody told to stop is the one its plugin's
\* entry knows, so no icon stays in the Dock without a window behind it, and none
\* is there twice; and an open window without an agent has used up its restart, or
\* its agent could not be spawned: `stopping`, which forbids an agent for good, is
\* never left set on a plugin whose window stays.
IconFollowsWindow ==
    /\ \A g \in Generation : agent[g].state = "up" =>
         entry[agent[g].plugin] # None /\ entry[agent[g].plugin].process = g
    /\ \A p \in Plugin : entry[p] # None =>
         /\ ~entry[p].stopping
         /\ entry[p].process = 0 => entry[p].restarts = 1 \/ fails > 0

\* The test stale_generation_cannot_stop_replacement_agent: what an agent of an
\* earlier generation wrote never closes a window, whenever it is read.
StaleAgentIsHarmless == [][\A g \in Generation :
    agent'[g].out # agent[g].out /\ ~(\E p \in Plugin : entry[p] # None /\ entry[p].generation = g)
    => UNCHANGED <<window, entry>>]_vars

\* Quitting the icon closes the window.
QuitCloses == \A g \in 1..(2 * MaxWindow + MaxFail) :
    (g \in Generation /\ agent[g].why = "user" /\ IsCurrent(g)) ~> ~(g \in Generation /\ IsCurrent(g))
=============================================================================
