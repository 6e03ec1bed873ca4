------------------------------ MODULE QuickRuns ------------------------------
(***************************************************************************)
(* Running, stopping and deleting the actions of qingqi-feature-quick-     *)
(* launch (service.rs).  Starts, stops and deletes come from the UI thread *)
(* and from background tasks of the view at once; each run is a task of    *)
(* the tokio runtime next to its child process.  The execution table, the  *)
(* table of Notify's and the store have a mutex each: a block under one of *)
(* them is a step.                                                         *)
(***************************************************************************)
EXTENDS Naturals, Sequences, FiniteSets

CONSTANTS Action,   \* the actions the store holds at first
          Call,     \* calls of stop_action
          Deletable, \* bound: the actions someone may delete
          MaxRun,   \* bound: runs
          MaxQuit   \* bound: calls of shutdown_all

ASSUME RunsAssumption == Deletable \subseteq Action /\ MaxRun \in Nat /\ MaxQuit \in {0, 1}

VARIABLES store,     \* the actions that have a row
          running,   \* execution.running_action_ids
          activePid, \* execution.active_pids: the run whose process it is, 0 for none
          notify,    \* stop_notify: the run whose Notify it is, 0 for none
          permit,    \* the runs whose Notify was signalled and not yet heard
          starting,  \* actions a start_action has read and not yet marked
          run,       \* the runs, in the order they were marked running
          stop,      \* Call -> a call of stop_action
          deleting,  \* actions whose deletion passed its check
          history,   \* rows of quick_launch_runs, by run
          quit       \* shutdown_all: where it is, and the pids it read

execution == <<running, activePid>>
calls == <<starting, stop, deleting>>
vars == <<store, execution, notify, permit, run, calls, history, quit>>

Run == 1..Len(run)

Init ==
    /\ store = Action /\ running = {} /\ activePid = [a \in Action |-> 0]
    /\ notify = [a \in Action |-> 0] /\ permit = {}
    /\ run = <<>> /\ history = <<>> /\ starting = {} /\ deleting = {}
    /\ stop = [c \in Call |-> [pc |-> "idle", action |-> 0, pid |-> 0, to |-> 0]]
    /\ quit = [pc |-> "no", pids |-> {}]

Goto(r, pc) == run' = [run EXCEPT ![r].pc = pc]

\* (Fault: the capture of a branch is lost.)
EndsWithout(r, status, pc) == Goto(r, pc)
Ends(r, status, pc) == run' = [run EXCEPT ![r].status = status, ![r].pc = pc]

-----------------------------------------------------------------------------
(* start_action_with_values.                                               *)

\* get_action and prepare_action.
Start(a) ==
    /\ a \in store
    /\ starting' = starting \union {a}
    /\ UNCHANGED <<store, execution, notify, permit, run, stop, deleting, history, quit>>

\* (Fault: a second run of an action that runs.)
MayRunTwice(a) == TRUE
MayRun(a) == a \notin running

\* Other calls of start_action for the same action may wait behind this one.
MarkRunning(a) ==
    /\ a \in starting /\ Len(run) < MaxRun
    /\ starting' \in {starting, starting \ {a}}
    /\ IF MayRun(a)
       THEN /\ running' = running \union {a}
            /\ activePid' = [activePid EXCEPT ![a] = 0]
            /\ run' = Append(run, [action |-> a, pc |-> "register", status |-> "none", process |-> "none"])
       ELSE UNCHANGED <<execution, run>>
    /\ UNCHANGED <<store, notify, permit, stop, deleting, history, quit>>

\* The run's own Notify goes into the table, and the task is spawned.
Register(r) ==
    /\ run[r].pc = "register"
    /\ notify' = [notify EXCEPT ![run[r].action] = r]
    /\ Goto(r, "task")
    /\ UNCHANGED <<store, execution, permit, calls, history, quit>>

-----------------------------------------------------------------------------
(* The task of run r: run_script_action_async, the record, the end.        *)

\* A process, or a result without one: an error, or `open` ran to its end.
Spawn(r) ==
    /\ run[r].pc = "task"
    /\ \/ run' = [run EXCEPT ![r].process = "live", ![r].pc = "spawned"]
       \/ \E status \in {"Success", "Failed", "Error"} : Ends(r, status, "record")
    /\ UNCHANGED <<store, execution, notify, permit, calls, history, quit>>

SetActivePid(r) ==
    /\ run[r].pc = "spawned"
    /\ activePid' = [activePid EXCEPT ![run[r].action] = r]
    /\ Goto(r, "select")
    /\ UNCHANGED <<store, running, notify, permit, calls, history, quit>>

\* (Fault: a branch that forgets clear_active_pid.)
KeepsActivePid(r) == UNCHANGED activePid
ClearActivePid(r) == activePid' = [activePid EXCEPT ![run[r].action] = 0]

Alive == {"live", "spared"}   \* "spared": although it was sent a SIGKILL

\* select!: the process ended; the timeout, of an action that has one, passed;
\* the Notify was signalled.
HearExit(r) ==
    /\ run[r].pc = "select" /\ run[r].process \notin Alive
    /\ ClearActivePid(r)
    /\ \E status \in {"Success", "Failed", "Error"} :
          /\ run[r].process = "terminated" => status # "Success"
          /\ Ends(r, status, "record")
    /\ UNCHANGED <<store, running, notify, permit, calls, history, quit>>

HearTimeout(r) ==
    /\ run[r].pc = "select"
    /\ Ends(r, "Timeout", "kill")
    /\ UNCHANGED <<store, execution, notify, permit, calls, history, quit>>

HearStop(r) ==
    /\ run[r].pc = "select" /\ r \in permit
    /\ permit' = permit \ {r}
    /\ Ends(r, "Stopped", "kill")
    /\ UNCHANGED <<store, execution, notify, calls, history, quit>>

\* SIGTERM, 250 ms, SIGKILL.  signal_process fails off Unix, and for a process
\* of another user; no caller looks at its result.  (Fault: no SIGKILL.)
OnlyTerminate(p) == IF p \in Alive THEN {p, "terminated"} ELSE {p}
AfterKill(p) == IF p \in Alive THEN {"killed", "spared"} ELSE {p}

Kill(r) ==
    /\ run[r].pc = "kill"
    /\ \E p \in AfterKill(run[r].process) :
          run' = [run EXCEPT ![r].process = p, ![r].pc = "clear"]
    /\ UNCHANGED <<store, execution, notify, permit, calls, history, quit>>

Killed(r) ==
    /\ run[r].pc = "clear"
    /\ ClearActivePid(r)
    /\ Goto(r, "record")
    /\ UNCHANGED <<store, running, notify, permit, calls, history, quit>>

\* record_run; when it fails the run ends as an error that is not recorded.
Record(r) ==
    /\ run[r].pc = "record"
    /\ \/ history' = Append(history, r) /\ Goto(r, "finish")
       \/ Ends(r, "Error", "finish") /\ UNCHANGED history
    /\ UNCHANGED <<store, execution, notify, permit, calls, quit>>

MarkFinished(r) ==
    /\ run[r].pc = "finish"
    /\ running' = running \ {run[r].action}
    /\ ClearActivePid(r)
    /\ Goto(r, "clean")
    /\ UNCHANGED <<store, notify, permit, calls, history, quit>>

\* The entry of the action is removed, whoever's Notify it holds by now.
Clean(r) ==
    /\ run[r].pc = "clean"
    /\ notify' = [notify EXCEPT ![run[r].action] = 0]
    /\ Goto(r, "over")
    /\ UNCHANGED <<store, execution, permit, calls, history, quit>>

\* The child process ends by itself.
Exit(r) ==
    /\ run[r].process \in Alive
    /\ run' = [run EXCEPT ![r].process = "exited"]
    /\ UNCHANGED <<store, execution, notify, permit, calls, history, quit>>

Launch(a) == Start(a) \/ MarkRunning(a)
Select(r) == HearExit(r) \/ HearTimeout(r) \/ HearStop(r)
Task(r) == Spawn(r) \/ SetActivePid(r) \/ Select(r) \/ Kill(r) \/ Killed(r) \/ Record(r) \/ MarkFinished(r) \/ Clean(r)

-----------------------------------------------------------------------------
(* stop_action: the table, SIGTERM to the pid it held, then the Notify.    *)

StopMark(c, a) ==
    /\ stop[c].pc = "idle" /\ a \in store /\ a \in running
    /\ stop' = [stop EXCEPT ![c] = [pc |-> "term", action |-> a, pid |-> activePid[a], to |-> 0]]
    /\ UNCHANGED <<store, execution, notify, permit, starting, deleting, run, history, quit>>

StopTerm(c) ==
    /\ stop[c].pc = "term"
    /\ stop' = [stop EXCEPT ![c].pc = "notify"]
    /\ \/ UNCHANGED run
       \/ LET r == stop[c].pid
          IN  r # 0 /\ run[r].process \in Alive /\ run' = [run EXCEPT ![r].process = "terminated"]
    /\ UNCHANGED <<store, execution, notify, permit, starting, deleting, history, quit>>

\* notify_one leaves a permit for a task that does not listen yet.
\* (Fault: notify_waiters, which does not.)
NotifyWaiters(r) == permit' = permit \union (IF run[r].pc = "select" THEN {r} ELSE {})
NotifyOne(r) == permit' = permit \union {r}

StopNotify(c) ==
    LET r == notify[stop[c].action]
    IN  /\ stop[c].pc = "notify"
        /\ stop' = [stop EXCEPT ![c].pc = "over", ![c].to = r]
        /\ IF r = 0 THEN UNCHANGED permit ELSE NotifyOne(r)
        /\ UNCHANGED <<store, execution, notify, starting, deleting, run, history, quit>>

-----------------------------------------------------------------------------
(* delete_action checks the execution table, then deletes the row.         *)

DeleteCheck(a) ==
    /\ a \in Deletable /\ a \notin running /\ a \in store
    /\ deleting' = deleting \union {a}
    /\ UNCHANGED <<store, execution, notify, permit, run, starting, stop, history, quit>>

DeleteRow(a) ==
    /\ a \in deleting
    /\ deleting' = deleting \ {a}
    /\ store' = store \ {a}
    /\ UNCHANGED <<execution, notify, permit, run, starting, stop, history, quit>>

\* shutdown_all: the pids of the table, then SIGTERM, 200 ms, SIGKILL to each,
\* which reaches some of them.
ShutdownRead ==
    /\ quit.pc = "no" /\ MaxQuit = 1
    /\ quit' = [pc |-> "signal", pids |-> {activePid[a] : a \in Action} \ {0}]
    /\ UNCHANGED <<store, execution, notify, permit, run, calls, history>>

ShutdownSignal ==
    /\ quit.pc = "signal"
    /\ quit' = [quit EXCEPT !.pc = "done"]
    /\ \E reached \in SUBSET quit.pids :
          run' = [r \in Run |-> IF r \in quit.pids /\ run[r].process \in Alive
                                THEN [run[r] EXCEPT !.process = IF r \in reached THEN "killed" ELSE "spared"]
                                ELSE run[r]]
    /\ UNCHANGED <<store, execution, notify, permit, calls, history>>

Stop(c) == (\E a \in Action : StopMark(c, a)) \/ StopTerm(c) \/ StopNotify(c)
Delete(a) == DeleteCheck(a) \/ DeleteRow(a)
Shutdown == ShutdownRead \/ ShutdownSignal

Next ==
    \/ \E a \in Action : Launch(a) \/ Delete(a)
    \/ \E r \in Run : Register(r) \/ Task(r) \/ Exit(r)
    \/ \E c \in Call : Stop(c)
    \/ Shutdown

Spec == Init /\ [][Next]_vars

\* The runtime polls its tasks and its timers.  A process may run for ever and
\* an action need not have a timeout, so `select!` alone owes nothing: it
\* only hears a Notify that was signalled.
FairSpec == Spec /\ \A r \in 1..MaxRun :
    WF_vars(r \in Run /\ (Task(r) /\ (run[r].pc = "select" => r \in permit)))

-----------------------------------------------------------------------------
Status == {"none", "Success", "Failed", "Error", "Timeout", "Stopped"}
Process == {"none", "exited", "terminated", "killed"} \union Alive
Active == {"register", "task", "spawned", "select", "kill", "clear", "record", "finish"}
After == {"clean", "over"}

\* The shapes of the variables; a row has a status.
TypeOK ==
    /\ store \subseteq Action /\ running \subseteq Action /\ starting \subseteq Action /\ deleting \subseteq Action
    /\ activePid \in [Action -> Run \union {0}] /\ notify \in [Action -> Run \union {0}]
    /\ permit \subseteq Run
    /\ run \in Seq([action : Action, pc : Active \union After, status : Status, process : Process])
    /\ stop \in [Call -> [pc : {"idle", "term", "notify", "over"}, action : Action \union {0},
                          pid : Run \union {0}, to : Run \union {0}]]
    /\ history \in Seq({r \in Run : run[r].status # "none"})
    /\ quit \in [pc : {"no", "signal", "done"}, pids : SUBSET Run]

\* An action runs once at a time, and runs exactly while the table says so.
OneRunEach == \A a \in Action : LET now == {r \in Run : run[r].action = a /\ run[r].pc \in Active}
                               IN  Cardinality(now) = IF a \in running THEN 1 ELSE 0

\* The pid a stop or the shutdown finds is the pid of the run in progress,
\* never one left by a run that has its result.
PidIsCurrent == \A a \in Action : activePid[a] # 0 =>
    LET r == run[activePid[a]] IN r.action = a /\ r.pc \in {"select", "kill", "clear"}

\* A run with a result leaves no process behind, however it ended, unless
\* the SIGKILL to this very process failed.
NoOrphan == \A r \in Run : run[r].pc \in {"record", "finish"} \union After => run[r].process # "live"

\* A Notify that was signalled ends its run, however early the signal came.
StopIsHeard == \A c \in Call : stop[c].to # 0 ~> stop[c].to \in Run /\ run[stop[c].to].pc \in After
=============================================================================
