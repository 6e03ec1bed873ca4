---------------------------- MODULE QuickRuns_proofs ----------------------------
(***************************************************************************)
(* Proofs about QuickRuns, for any actions, calls of stop_action and number *)
(* of runs.  A run is a task, a process and an entry in each of three       *)
(* tables; the invariant says how far the task is when the entries hold.    *)
(***************************************************************************)
EXTENDS QuickRuns, FiniteSetTheorems, TLAPS

RunRec == [action : Action, pc : Active \union After, status : Status, process : Process]

\* The table of actions that run, said by its runs.
Alone ==
    \A r, q \in Run :
        run[r].pc \in Active /\ run[q].pc \in Active /\ run[r].action = run[q].action => r = q
Marked ==
    \A a \in Action : a \in running <=> \E r \in Run : run[r].action = a /\ run[r].pc \in Active

\* A process is there from Spawn on, and is gone when the task records its run;
\* a result is there from the end of `select!` on.
Progress ==
    \A r \in Run :
        /\ run[r].pc \in {"register", "task"} => run[r].process = "none"
        /\ run[r].pc \in {"clear", "record", "finish"} \union After => run[r].process # "live"
        /\ run[r].pc \in {"kill", "clear", "record", "finish"} \union After => run[r].status # "none"

\* A call of stop_action under way is about an action.
Calls == \A c \in Call : stop[c].pc # "idle" => stop[c].action \in Action

Inv == TypeOK /\ Alone /\ Marked /\ PidIsCurrent /\ Progress /\ Calls

\* What the type says of one run.
LEMMA Shapes == ASSUME TypeOK
    PROVE /\ run \in Seq(RunRec) /\ Len(run) \in Nat
          /\ \A r \in Run : r \in Nat /\ r # 0 /\ run[r] \in RunRec
  <1>1. run \in Seq(RunRec)
    BY DEF TypeOK, RunRec
  <1> HIDE DEF TypeOK
  <1> QED BY <1>1 DEF Run

\* One run moves: it stays a run of its action, and the others do not change.
LEMMA Moves ==
    ASSUME TypeOK, NEW r \in Run, NEW f \in RunRec, run' = [run EXCEPT ![r] = f]
    PROVE  /\ run' \in Seq(RunRec) /\ Run' = Run
           /\ \A q \in Run : run'[q] = IF q = r THEN f ELSE run[q]
  BY Shapes DEF Run

\* A run that goes on without becoming active or ending leaves the table right.
LEMMA TableKeeps ==
    ASSUME Inv, NEW r \in Run, NEW f \in RunRec, run' = [run EXCEPT ![r] = f],
           f.action = run[r].action, f.pc \in Active <=> run[r].pc \in Active,
           UNCHANGED running
    PROVE  Alone' /\ Marked'
  <1>0. Run' = Run /\ \A q \in Run : run'[q] = IF q = r THEN f ELSE run[q]
    BY Moves DEF Inv
  <1>1. \A q \in Run : /\ run'[q].action = run[q].action
                       /\ run'[q].pc \in Active <=> run[q].pc \in Active
    BY <1>0
  <1>2. Alone'
    BY <1>0, <1>1 DEF Inv, Alone
  <1>3. Marked'
    BY <1>0, <1>1 DEF Inv, Marked
  <1> QED BY <1>2, <1>3

\* The rows of the history are of runs that have a result, which none loses.
LEMMA RowsKeep ==
    ASSUME TypeOK, run' \in Seq(RunRec), Run \subseteq Run',
           \A q \in Run : run[q].status # "none" => run'[q].status # "none",
           history' = history
    PROVE  history' \in Seq({r \in Run : run[r].status # "none"})'
  <1> DEFINE S == {r \in Run : run[r].status # "none"}
  <1>1. history \in Seq(S) /\ S \subseteq S'
    BY DEF TypeOK
  <1>2. \A i \in 1..Len(history) : history[i] \in S
    BY <1>1
  <1> QED BY <1>1, <1>2

-----------------------------------------------------------------------------
(* Steps that leave the runs and the execution table alone.                 *)

LEMMA RunsKept ==
    ASSUME Inv, UNCHANGED <<execution, run>>
    PROVE  /\ Alone' /\ Marked' /\ PidIsCurrent' /\ Progress' /\ Run' = Run
  BY DEF Inv, execution, Alone, Marked, PidIsCurrent, Progress, Run

LEMMA AsideStep ==
    ASSUME Inv, (\E a \in Action : Start(a) \/ Delete(a)) \/ ShutdownRead
    PROVE  Inv'
  <1>1. /\ UNCHANGED <<execution, run, notify, permit, stop, history>>
        /\ store' \subseteq store /\ deleting' \subseteq Action /\ starting' \subseteq Action
        /\ quit' \in [pc : {"no", "signal", "done"}, pids : SUBSET Run]
    <2>1. ASSUME NEW a \in Action, Start(a) \/ Delete(a)
          PROVE  /\ UNCHANGED <<execution, run, notify, permit, stop, history, quit>>
                 /\ store' \subseteq store /\ deleting' \subseteq Action /\ starting' \subseteq Action
      BY <2>1 DEF Start, Delete, DeleteCheck, DeleteRow, Inv, TypeOK
    <2>2. CASE ShutdownRead
      BY <2>2 DEF ShutdownRead, calls, Inv, TypeOK
    <2> QED BY <2>1, <2>2 DEF Inv, TypeOK
  <1>2. TypeOK'
    BY <1>1, RunsKept DEF Inv, TypeOK, execution, Run
  <1>3. Calls'
    BY <1>1 DEF Inv, Calls
  <1> QED BY <1>1, <1>2, <1>3, RunsKept DEF Inv

LEMMA StopCallStep ==
    ASSUME Inv, NEW c \in Call, (\E a \in Action : StopMark(c, a)) \/ StopNotify(c)
    PROVE  Inv'
  <1> DEFINE Rec == [pc : {"idle", "term", "notify", "over"}, action : Action \union {0},
                     pid : Run \union {0}, to : Run \union {0}]
  <1>0. stop \in [Call -> Rec]
    BY DEF Inv, TypeOK
  <1>1. /\ UNCHANGED <<execution, run, notify, store, deleting, starting, history, quit>>
        /\ permit' \subseteq Run
        /\ \E s \in Rec : s.action \in Action /\ stop' = [stop EXCEPT ![c] = s]
    <2>1. ASSUME NEW a \in Action, StopMark(c, a)
          PROVE  \E s \in Rec : s.action \in Action /\ stop' = [stop EXCEPT ![c] = s]
      <3> DEFINE s == [pc |-> "term", action |-> a, pid |-> activePid[a], to |-> 0]
      <3>1. s \in Rec /\ s.action = a
        BY DEF Inv, TypeOK
      <3>2. stop' = [stop EXCEPT ![c] = s]
        BY <2>1 DEF StopMark
      <3> HIDE DEF s
      <3> QED BY <3>1, <3>2
    <2>2. CASE StopNotify(c)
      <3> DEFINE r == notify[stop[c].action]
                 s == [stop[c] EXCEPT !.pc = "over", !.to = r]
      <3>1. stop[c].action \in Action
        BY <2>2 DEF StopNotify, Inv, Calls
      <3>2. r \in Run \union {0}
        BY <3>1 DEF Inv, TypeOK
      <3>3. s \in Rec /\ s.action = stop[c].action
        BY <1>0, <3>2
      <3>4. stop' = [stop EXCEPT ![c] = s]
        BY <1>0, <2>2 DEF StopNotify
      <3>5. permit' \subseteq Run
        BY <2>2, <3>2 DEF StopNotify, NotifyOne, Inv, TypeOK
      <3> HIDE DEF s
      <3> QED BY <2>2, <3>1, <3>3, <3>4, <3>5 DEF StopNotify
    <2> QED BY <2>1, <2>2 DEF StopMark, StopNotify, NotifyOne, Inv, TypeOK
  <1>2. stop' \in [Call -> Rec] /\ Calls'
    BY <1>0, <1>1 DEF Inv, Calls
  <1>3. TypeOK'
    BY <1>1, <1>2, RunsKept DEF Inv, TypeOK, execution
  <1> QED BY <1>1, <1>2, <1>3, RunsKept DEF Inv

-----------------------------------------------------------------------------
(* Steps of a run: f is the run after the step.                            *)

HasPid == {"select", "kill", "clear"}

\* What Progress says of one run.
Fits(f) ==
    /\ f.pc \in {"register", "task"} => f.process = "none"
    /\ f.pc \in {"clear", "record", "finish"} \union After => f.process # "live"
    /\ f.pc \in {"kill", "clear", "record", "finish"} \union After => f.status # "none"

LEMMA GotoRec ==
    ASSUME TypeOK, NEW r \in Run, NEW pc \in Active \union After, Goto(r, pc)
    PROVE  \E f \in RunRec :
              /\ f.action = run[r].action /\ f.pc = pc
              /\ f.status = run[r].status /\ f.process = run[r].process
              /\ run' = [run EXCEPT ![r] = f]
  <1> DEFINE f == [run[r] EXCEPT !.pc = pc]
  <1>1. run[r] \in RunRec
    BY Shapes
  <1>2. f \in RunRec
    BY <1>1 DEF RunRec
  <1> WITNESS f \in RunRec
  <1> QED BY <1>1 DEF Goto, RunRec

LEMMA EndsRec ==
    ASSUME TypeOK, NEW r \in Run, NEW status \in Status, NEW pc \in Active \union After,
           Ends(r, status, pc)
    PROVE  \E f \in RunRec :
              /\ f.action = run[r].action /\ f.pc = pc
              /\ f.status = status /\ f.process = run[r].process
              /\ run' = [run EXCEPT ![r] = f]
  <1> DEFINE f == [run[r] EXCEPT !.status = status, !.pc = pc]
  <1>1. run[r] \in RunRec
    BY Shapes
  <1>2. f \in RunRec
    BY <1>1 DEF RunRec
  <1> WITNESS f \in RunRec
  <1> QED BY <1>1 DEF Ends, RunRec

\* What Spawn and Kill do to the process.
Becomes(r, p, pc) == run' = [run EXCEPT ![r].process = p, ![r].pc = pc]

LEMMA ProcessRec ==
    ASSUME TypeOK, NEW r \in Run, NEW p \in Process, NEW pc \in Active \union After,
           Becomes(r, p, pc)
    PROVE  \E f \in RunRec :
              /\ f.action = run[r].action /\ f.pc = pc
              /\ f.status = run[r].status /\ f.process = p
              /\ run' = [run EXCEPT ![r] = f]
  <1> DEFINE f == [run[r] EXCEPT !.process = p, !.pc = pc]
  <1>1. run[r] \in RunRec
    BY Shapes
  <1>2. f \in RunRec
    BY <1>1 DEF RunRec
  <1> WITNESS f \in RunRec
  <1> QED BY <1>1 DEF Becomes, RunRec

\* The pid of an action is kept while its run has one, set to its run, or cleared.
PidMoves(r, f) ==
    \/ UNCHANGED activePid /\ (run[r].pc \in HasPid => f.pc \in HasPid)
    \/ activePid' = [activePid EXCEPT ![run[r].action] = 0]
    \/ activePid' = [activePid EXCEPT ![run[r].action] = r] /\ f.pc \in HasPid

\* What every step of a run keeps, but for the table of actions that run.
LEMMA RunMoves ==
    ASSUME Inv, NEW r \in Run, NEW f \in RunRec, run' = [run EXCEPT ![r] = f],
           f.action = run[r].action, Fits(f), run[r].status # "none" => f.status # "none",
           PidMoves(r, f),
           history' = history \/ (history' = Append(history, r) /\ f.status # "none"),
           notify' \in [Action -> Run \union {0}], permit' \subseteq Run, running' \subseteq Action,
           UNCHANGED <<store, starting, deleting, quit>>,
           UNCHANGED stop
    PROVE  TypeOK' /\ PidIsCurrent' /\ Progress' /\ Calls'
  <1>0. /\ run' \in Seq(RunRec) /\ Run' = Run
        /\ \A q \in Run : run'[q] = IF q = r THEN f ELSE run[q]
    BY Moves DEF Inv
  <1>1. activePid' \in [Action -> Run \union {0}]
    BY Shapes DEF Inv, TypeOK, PidMoves
  <1>2. history' \in Seq({q \in Run : run[q].status # "none"})'
    <2> DEFINE S == {q \in Run : run[q].status # "none"}
    <2>1. history \in Seq(S') /\ Len(history) \in Nat
      <3>1. history \in Seq(S) /\ S \subseteq S'
        BY <1>0 DEF Inv, TypeOK
      <3> HIDE DEF S
      <3>2. \A i \in 1..Len(history) : history[i] \in S
        BY <3>1
      <3> QED BY <3>1, <3>2
    <2>2. history' = Append(history, r) /\ f.status # "none" => r \in S'
      BY <1>0
    <2> HIDE DEF S
    <2>3. history' \in Seq(S')
      BY <2>1, <2>2
    <2> QED BY <2>3 DEF S
  <1>3. TypeOK'
    BY <1>0, <1>1, <1>2 DEF Inv, TypeOK, RunRec
  <1>4. PidIsCurrent'
    <2> SUFFICES ASSUME NEW a \in Action, activePid'[a] # 0
                 PROVE  run'[activePid'[a]].action = a /\ run'[activePid'[a]].pc \in HasPid
      BY DEF PidIsCurrent, HasPid
    <2>1. CASE activePid'[a] = activePid[a]
      <3>1. activePid[a] \in Run /\ run[activePid[a]].action = a /\ run[activePid[a]].pc \in HasPid
        BY <2>1 DEF Inv, TypeOK, PidIsCurrent, HasPid
      <3>2. activePid[a] = r => f.pc \in HasPid
        BY <2>1, <3>1, Shapes DEF PidMoves, RunRec, Inv, TypeOK
      <3> QED BY <1>0, <2>1, <3>1, <3>2
    <2>2. CASE activePid'[a] # activePid[a]
      <3>1. run[r].action = a /\ activePid'[a] = r /\ f.pc \in HasPid
        BY <2>2 DEF PidMoves, Inv, TypeOK
      <3> QED BY <1>0, <3>1
    <2> QED BY <2>1, <2>2
  <1>5. Progress'
    BY <1>0 DEF Inv, Progress, Fits
  <1>6. Calls'
    BY DEF Inv, Calls
  <1> QED BY <1>3, <1>4, <1>5, <1>6

\* A step of a run that is active before and after, or over before and after.
LEMMA RunGoesOn ==
    ASSUME Inv, NEW r \in Run, NEW f \in RunRec, run' = [run EXCEPT ![r] = f],
           f.action = run[r].action, f.pc \in Active <=> run[r].pc \in Active,
           Fits(f), run[r].status # "none" => f.status # "none",
           PidMoves(r, f),
           history' = history \/ (history' = Append(history, r) /\ f.status # "none"),
           notify' \in [Action -> Run \union {0}], permit' \subseteq Run,
           UNCHANGED <<running, store, starting, deleting, quit>>,
           UNCHANGED stop
    PROVE  Inv'
  <1>1. running' \subseteq Action
    BY DEF Inv, TypeOK
  <1>2. TypeOK' /\ PidIsCurrent' /\ Progress' /\ Calls'
    BY <1>1, RunMoves
  <1>3. Alone' /\ Marked'
    BY TableKeeps
  <1> QED BY <1>2, <1>3 DEF Inv

LEMMA TaskStep ==
    ASSUME Inv, NEW r \in Run,
           Register(r) \/ Spawn(r) \/ SetActivePid(r) \/ Select(r) \/ Kill(r) \/ Killed(r)
             \/ Record(r) \/ Clean(r) \/ Exit(r)
    PROVE  Inv'
  <1>0. /\ TypeOK /\ run[r] \in RunRec /\ Fits(run[r]) /\ run[r].action \in Action
        /\ notify \in [Action -> Run \union {0}] /\ permit \subseteq Run
    BY Shapes DEF Inv, Progress, Fits, RunRec, TypeOK
  <1>1. CASE Register(r)
    <2>1. PICK f \in RunRec :
              /\ f.action = run[r].action /\ f.pc = "task"
              /\ f.status = run[r].status /\ f.process = run[r].process
              /\ run' = [run EXCEPT ![r] = f]
      BY <1>0, <1>1, GotoRec DEF Register, Active
    <2>2. Fits(f) /\ PidMoves(r, f) /\ (f.pc \in Active <=> run[r].pc \in Active)
      BY <1>0, <1>1, <2>1 DEF Register, execution, Fits, PidMoves, HasPid, Active, After
    <2>3. notify' \in [Action -> Run \union {0}]
      BY <1>0, <1>1 DEF Register
    <2> QED BY <1>0, <1>1, <2>1, <2>2, <2>3, RunGoesOn DEF Register, execution, calls
  <1>2. CASE Spawn(r)
    <2>1. CASE Becomes(r, "live", "spawned")
      <3>1. PICK f \in RunRec :
              /\ f.action = run[r].action /\ f.pc = "spawned"
              /\ f.status = run[r].status /\ f.process = "live"
              /\ run' = [run EXCEPT ![r] = f]
        BY <1>0, <2>1, ProcessRec DEF Active, Process, Alive
      <3>2. Fits(f) /\ PidMoves(r, f) /\ (f.pc \in Active <=> run[r].pc \in Active)
        BY <1>2, <3>1 DEF Spawn, execution, Fits, PidMoves, HasPid, Active, After
      <3> QED BY <1>0, <1>2, <3>1, <3>2, RunGoesOn DEF Spawn, execution, calls
    <2>2. ASSUME NEW status \in {"Success", "Failed", "Error"}, Ends(r, status, "record")
          PROVE  Inv'
      <3>1. PICK f \in RunRec :
              /\ f.action = run[r].action /\ f.pc = "record"
              /\ f.status = status /\ f.process = run[r].process
              /\ run' = [run EXCEPT ![r] = f]
        BY <1>0, <2>2, EndsRec DEF Active, Status
      <3>2. Fits(f) /\ PidMoves(r, f) /\ (f.pc \in Active <=> run[r].pc \in Active)
        BY <1>0, <1>2, <3>1 DEF Spawn, execution, Fits, PidMoves, HasPid, Active, After
      <3> QED BY <1>0, <1>2, <3>1, <3>2, RunGoesOn DEF Spawn, execution, calls
    <2> QED BY <1>2, <2>1, <2>2 DEF Spawn, Becomes
  <1>3. CASE SetActivePid(r)
    <2>1. PICK f \in RunRec :
              /\ f.action = run[r].action /\ f.pc = "select"
              /\ f.status = run[r].status /\ f.process = run[r].process
              /\ run' = [run EXCEPT ![r] = f]
      BY <1>0, <1>3, GotoRec DEF SetActivePid, Active
    <2>2. Fits(f) /\ PidMoves(r, f) /\ (f.pc \in Active <=> run[r].pc \in Active)
      BY <1>0, <1>3, <2>1 DEF SetActivePid, Fits, PidMoves, HasPid, Active, After
    <2> QED BY <1>0, <1>3, <2>1, <2>2, RunGoesOn DEF SetActivePid, calls
  <1>4. CASE HearExit(r)
    <2>1. PICK status \in {"Success", "Failed", "Error"} : Ends(r, status, "record")
      BY <1>4 DEF HearExit
    <2>2. PICK f \in RunRec :
              /\ f.action = run[r].action /\ f.pc = "record"
              /\ f.status = status /\ f.process = run[r].process
              /\ run' = [run EXCEPT ![r] = f]
      BY <1>0, <2>1, EndsRec DEF Active, Status
    <2>3. Fits(f) /\ PidMoves(r, f) /\ (f.pc \in Active <=> run[r].pc \in Active)
      BY <1>0, <1>4, <2>2 DEF HearExit, Alive, ClearActivePid, Fits, PidMoves, HasPid, Active, After
    <2> QED BY <1>0, <1>4, <2>2, <2>3, RunGoesOn DEF HearExit, calls
  <1>5. CASE HearTimeout(r) \/ HearStop(r)
    <2>1. PICK status \in {"Timeout", "Stopped"} : Ends(r, status, "kill")
      BY <1>5 DEF HearTimeout, HearStop
    <2>2. PICK f \in RunRec :
              /\ f.action = run[r].action /\ f.pc = "kill"
              /\ f.status = status /\ f.process = run[r].process
              /\ run' = [run EXCEPT ![r] = f]
      BY <1>0, <2>1, EndsRec DEF Active, Status
    <2>3. Fits(f) /\ PidMoves(r, f) /\ (f.pc \in Active <=> run[r].pc \in Active)
      BY <1>0, <1>5, <2>2 DEF HearTimeout, HearStop, execution, Fits, PidMoves, HasPid, Active, After
    <2>4. permit' \subseteq Run
      BY <1>0, <1>5 DEF HearTimeout, HearStop
    <2> QED BY <1>0, <1>5, <2>2, <2>3, <2>4, RunGoesOn DEF HearTimeout, HearStop, execution, calls
  <1>6. CASE Kill(r)
    <2>1. PICK p \in Process : p # "live" /\ Becomes(r, p, "clear")
      BY <1>0, <1>6 DEF Kill, AfterKill, Alive, RunRec, Process, Becomes
    <2>2. PICK f \in RunRec :
              /\ f.action = run[r].action /\ f.pc = "clear"
              /\ f.status = run[r].status /\ f.process = p
              /\ run' = [run EXCEPT ![r] = f]
      BY <1>0, <2>1, ProcessRec DEF Active
    <2>3. Fits(f) /\ PidMoves(r, f) /\ (f.pc \in Active <=> run[r].pc \in Active)
      BY <1>0, <1>6, <2>1, <2>2 DEF Kill, execution, Fits, PidMoves, HasPid, Active, After
    <2> QED BY <1>0, <1>6, <2>2, <2>3, RunGoesOn DEF Kill, execution, calls
  <1>7. CASE Killed(r)
    <2>1. PICK f \in RunRec :
              /\ f.action = run[r].action /\ f.pc = "record"
              /\ f.status = run[r].status /\ f.process = run[r].process
              /\ run' = [run EXCEPT ![r] = f]
      BY <1>0, <1>7, GotoRec DEF Killed, Active
    <2>2. Fits(f) /\ PidMoves(r, f) /\ (f.pc \in Active <=> run[r].pc \in Active)
      BY <1>0, <1>7, <2>1 DEF Killed, ClearActivePid, Fits, PidMoves, HasPid, Active, After
    <2> QED BY <1>0, <1>7, <2>1, <2>2, RunGoesOn DEF Killed, calls
  <1>8. CASE Record(r)
    <2>1. PICK f \in RunRec :
              /\ f.action = run[r].action /\ f.pc = "finish"
              /\ f.status \in {run[r].status, "Error"} /\ f.process = run[r].process
              /\ run' = [run EXCEPT ![r] = f]
      <3>1. CASE Goto(r, "finish")
        BY <1>0, <3>1, GotoRec DEF Active
      <3>2. CASE Ends(r, "Error", "finish")
        BY <1>0, <3>2, EndsRec DEF Active, Status
      <3> QED BY <1>8, <3>1, <3>2 DEF Record
    <2>2. Fits(f) /\ PidMoves(r, f) /\ (f.pc \in Active <=> run[r].pc \in Active) /\ f.status # "none"
      BY <1>0, <1>8, <2>1 DEF Record, execution, Fits, PidMoves, HasPid, Active, After
    <2>3. history' = history \/ history' = Append(history, r)
      BY <1>8 DEF Record
    <2> QED BY <1>0, <1>8, <2>1, <2>2, <2>3, RunGoesOn DEF Record, execution, calls
  <1>9. CASE Clean(r)
    <2>1. PICK f \in RunRec :
              /\ f.action = run[r].action /\ f.pc = "over"
              /\ f.status = run[r].status /\ f.process = run[r].process
              /\ run' = [run EXCEPT ![r] = f]
      BY <1>0, <1>9, GotoRec DEF Clean, After
    <2>2. Fits(f) /\ PidMoves(r, f) /\ (f.pc \in Active <=> run[r].pc \in Active)
      BY <1>0, <1>9, <2>1 DEF Clean, execution, Fits, PidMoves, HasPid, Active, After
    <2>3. notify' \in [Action -> Run \union {0}]
      BY <1>0, <1>9 DEF Clean
    <2> QED BY <1>0, <1>9, <2>1, <2>2, <2>3, RunGoesOn DEF Clean, execution, calls
  <1>10. CASE Exit(r)
    <2>1. Becomes(r, "exited", run[r].pc)
      BY <1>0, <1>10, Shapes DEF Exit, RunRec, Becomes
    <2>2. PICK f \in RunRec :
              /\ f.action = run[r].action /\ f.pc = run[r].pc
              /\ f.status = run[r].status /\ f.process = "exited"
              /\ run' = [run EXCEPT ![r] = f]
      BY <1>0, <2>1, ProcessRec DEF Process, RunRec
    <2>3. Fits(f) /\ PidMoves(r, f)
      BY <1>0, <1>10, <2>2 DEF Exit, Alive, execution, Fits, PidMoves
    <2> QED BY <1>0, <1>10, <2>2, <2>3, RunGoesOn DEF Exit, execution, calls
  <1> QED BY <1>1, <1>2, <1>3, <1>4, <1>5, <1>6, <1>7, <1>8, <1>9, <1>10 DEF Select

\* The end of a run takes its action out of the table: no other run has it.
LEMMA FinishStep ==
    ASSUME Inv, NEW r \in Run, MarkFinished(r)
    PROVE  Inv'
  <1>0. /\ TypeOK /\ run[r] \in RunRec /\ Fits(run[r]) /\ run[r].action \in Action
        /\ notify \in [Action -> Run \union {0}] /\ permit \subseteq Run /\ running \subseteq Action
    BY Shapes DEF Inv, Progress, Fits, RunRec, TypeOK
  <1>1. PICK f \in RunRec :
            /\ f.action = run[r].action /\ f.pc = "clean"
            /\ f.status = run[r].status /\ f.process = run[r].process
            /\ run' = [run EXCEPT ![r] = f]
    BY <1>0, GotoRec DEF MarkFinished, After
  <1>2. Fits(f) /\ PidMoves(r, f)
    BY <1>0, <1>1 DEF MarkFinished, ClearActivePid, Fits, PidMoves, HasPid, After
  <1>3. TypeOK' /\ PidIsCurrent' /\ Progress' /\ Calls'
    BY <1>0, <1>1, <1>2, RunMoves DEF MarkFinished, calls
  <1>4. /\ Run' = Run
        /\ run'[r].action = run[r].action /\ run'[r].pc \notin Active
        /\ \A q \in Run : q # r => run'[q] = run[q]
    <2>1. Run' = Run /\ \A q \in Run : run'[q] = IF q = r THEN f ELSE run[q]
      BY <1>0, <1>1, Moves
    <2>2. f.pc \notin Active
      BY <1>1 DEF Active
    <2> QED BY <1>1, <2>1, <2>2
  <1>5. Alone'
    <2> SUFFICES ASSUME NEW p \in Run, NEW q \in Run,
                        run'[p].pc \in Active, run'[q].pc \in Active, run'[p].action = run'[q].action
                 PROVE  p = q
      BY <1>4 DEF Alone
    <2>1. run[p].pc \in Active /\ run[q].pc \in Active /\ run[p].action = run[q].action
      BY <1>4
    <2> QED BY <2>1 DEF Inv, Alone
  <1>6. run[r].pc \in Active /\ running' = running \ {run[r].action}
    BY DEF MarkFinished, Active
  <1>7. Marked'
    <2> SUFFICES ASSUME NEW a \in Action
                 PROVE  a \in running' <=> \E q \in Run : run'[q].action = a /\ run'[q].pc \in Active
      BY <1>4 DEF Marked
    <2>1. \A q \in Run : run[q].pc \in Active /\ run[q].action = run[r].action => q = r
      BY <1>6 DEF Inv, Alone
    <2>2. a \in running <=> \E q \in Run : run[q].action = a /\ run[q].pc \in Active
      BY DEF Inv, Marked
    <2>3. CASE a = run[r].action
      BY <1>4, <1>6, <2>1, <2>3
    <2>4. CASE a # run[r].action
      <3>1. \A q \in Run : run'[q].action = a /\ run'[q].pc \in Active <=> run[q].action = a /\ run[q].pc \in Active
        BY <1>4, <2>4
      <3> QED BY <1>6, <2>2, <2>4, <3>1
    <2> QED BY <2>3, <2>4
  <1> QED BY <1>3, <1>5, <1>7 DEF Inv

\* Whoever ends processes leaves the invariant: StopTerm and the shutdown do.
LEMMA ProcessesEnd ==
    ASSUME Inv, run' \in Seq(RunRec), Run' = Run,
           \A q \in Run : /\ run'[q].action = run[q].action /\ run'[q].pc = run[q].pc
                          /\ run'[q].status = run[q].status
                          /\ \/ run'[q].process = run[q].process
                             \/ run[q].process # "none" /\ run'[q].process # "live",
           stop' \in [Call -> [pc : {"idle", "term", "notify", "over"}, action : Action \union {0},
                               pid : Run \union {0}, to : Run \union {0}]],
           \A c \in Call : /\ stop'[c].action = stop[c].action
                           /\ stop'[c].pc # "idle" => stop[c].pc # "idle",
           quit' \in [pc : {"no", "signal", "done"}, pids : SUBSET Run],
           UNCHANGED <<store, execution, notify, permit, starting, deleting, history>>
    PROVE  Inv'
  <1>1. history' \in Seq({r \in Run : run[r].status # "none"})'
    BY RowsKeep DEF Inv
  <1>2. TypeOK'
    BY <1>1 DEF Inv, TypeOK, execution, RunRec
  <1>3. Alone' /\ Marked'
    BY DEF Inv, Alone, Marked, execution
  <1>4. PidIsCurrent'
    <2>1. \A a \in Action : activePid[a] # 0 => activePid[a] \in Run
      BY DEF Inv, TypeOK
    <2> QED BY <2>1 DEF Inv, PidIsCurrent, execution
  <1>5. Progress'
    BY DEF Inv, Progress
  <1>6. Calls'
    BY DEF Inv, Calls
  <1> QED BY <1>2, <1>3, <1>4, <1>5, <1>6 DEF Inv

LEMMA StopTermStep ==
    ASSUME Inv, NEW c \in Call, StopTerm(c)
    PROVE  Inv'
  <1> DEFINE Rec == [pc : {"idle", "term", "notify", "over"}, action : Action \union {0},
                     pid : Run \union {0}, to : Run \union {0}]
  <1>0. stop \in [Call -> Rec] /\ TypeOK
    BY DEF Inv, TypeOK
  <1>1. stop' \in [Call -> Rec]
    BY <1>0 DEF StopTerm
  <1>2. \A d \in Call : /\ stop'[d].action = stop[d].action
                        /\ stop'[d].pc # "idle" => stop[d].pc # "idle"
    BY <1>0 DEF StopTerm
  <1>3. /\ run' \in Seq(RunRec) /\ Run' = Run
        /\ \A q \in Run : /\ run'[q].action = run[q].action /\ run'[q].pc = run[q].pc
                          /\ run'[q].status = run[q].status
                          /\ \/ run'[q].process = run[q].process
                             \/ run[q].process # "none" /\ run'[q].process # "live"
    <2>1. CASE UNCHANGED run
      BY <1>0, <2>1, Shapes DEF Run
    <2>2. CASE LET r == stop[c].pid
               IN  r # 0 /\ run[r].process \in Alive /\ run' = [run EXCEPT ![r].process = "terminated"]
      <3> DEFINE r == stop[c].pid
                 f == [run[r] EXCEPT !.process = "terminated"]
      <3>1. r \in Run /\ run[r] \in RunRec /\ run[r].process # "none"
        BY <1>0, <2>2, Shapes DEF Alive
      <3>2. f \in RunRec /\ f.action = run[r].action /\ f.pc = run[r].pc /\ f.status = run[r].status /\ f.process # "live"
        BY <3>1 DEF RunRec, Process
      <3>3. run' = [run EXCEPT ![r] = f]
        BY <2>2, <3>1 DEF RunRec
      <3> HIDE DEF f, r
      <3>4. /\ run' \in Seq(RunRec) /\ Run' = Run
            /\ \A q \in Run : run'[q] = IF q = r THEN f ELSE run[q]
        BY <1>0, <3>1, <3>2, <3>3, Moves
      <3> QED BY <3>1, <3>2, <3>4
    <2> QED BY <2>1, <2>2 DEF StopTerm
  <1>4. /\ UNCHANGED <<store, execution, notify, permit, starting, deleting, history>>
        /\ quit' \in [pc : {"no", "signal", "done"}, pids : SUBSET Run]
    BY DEF StopTerm, Inv, TypeOK
  <1> QED BY <1>1, <1>2, <1>3, <1>4, ProcessesEnd

LEMMA ShutdownSignalStep ==
    ASSUME Inv, ShutdownSignal
    PROVE  Inv'
  <1>0. TypeOK /\ run \in Seq(RunRec) /\ Len(run) \in Nat /\ \A r \in Run : run[r] \in RunRec
    BY Shapes DEF Inv
  <1>1. PICK reached \in SUBSET quit.pids :
            run' = [r \in Run |-> IF r \in quit.pids /\ run[r].process \in Alive
                                  THEN [run[r] EXCEPT !.process = IF r \in reached THEN "killed" ELSE "spared"]
                                  ELSE run[r]]
    BY DEF ShutdownSignal
  <1>2. \A r \in Run : /\ run'[r] \in RunRec
                       /\ run'[r].action = run[r].action /\ run'[r].pc = run[r].pc
                       /\ run'[r].status = run[r].status
                       /\ \/ run'[r].process = run[r].process
                          \/ run[r].process # "none" /\ run'[r].process # "live"
    BY <1>0, <1>1 DEF RunRec, Process, Alive
  <1>3. run' \in Seq(RunRec) /\ Run' = Run
    <2>1. run' \in [1..Len(run) -> RunRec]
      BY <1>1, <1>2 DEF Run
    <2>2. run' \in Seq(RunRec) /\ Len(run') = Len(run)
      BY <1>0, <2>1
    <2> QED BY <2>2 DEF Run
  <1>4. /\ UNCHANGED <<store, execution, notify, permit, starting, deleting, history, stop>>
        /\ quit' \in [pc : {"no", "signal", "done"}, pids : SUBSET Run]
    BY DEF ShutdownSignal, calls, Inv, TypeOK
  <1>5. /\ stop' \in [Call -> [pc : {"idle", "term", "notify", "over"}, action : Action \union {0},
                               pid : Run \union {0}, to : Run \union {0}]]
        /\ \A c \in Call : /\ stop'[c].action = stop[c].action
                           /\ stop'[c].pc # "idle" => stop[c].pc # "idle"
    BY <1>4 DEF Inv, TypeOK
  <1> QED BY <1>2, <1>3, <1>4, <1>5, ProcessesEnd

-----------------------------------------------------------------------------
(* A run begins: no run of the action is active, for the table says so.     *)

LEMMA BeginStep ==
    ASSUME Inv, NEW a \in Action, MarkRunning(a)
    PROVE  Inv'
  <1>0. TypeOK /\ run \in Seq(RunRec) /\ Len(run) \in Nat /\ \A r \in Run : r \in Nat /\ r # 0 /\ run[r] \in RunRec
    BY Shapes DEF Inv
  <1>1. CASE ~MayRun(a)
    <2>1. UNCHANGED <<execution, run, store, notify, permit, stop, deleting, history, quit>> /\ starting' \subseteq Action
      BY <1>1 DEF MarkRunning, Inv, TypeOK
    <2>2. TypeOK'
      BY <2>1, RunsKept DEF Inv, TypeOK, execution
    <2> QED BY <2>1, <2>2, RunsKept DEF Inv, Calls
  <1>2. CASE MayRun(a)
    <2> DEFINE f == [action |-> a, pc |-> "register", status |-> "none", process |-> "none"]
               n == Len(run) + 1
    <2>1. /\ run' = Append(run, f) /\ running' = running \union {a}
          /\ activePid' = [activePid EXCEPT ![a] = 0] /\ starting' \subseteq Action
          /\ UNCHANGED <<store, notify, permit, stop, deleting, history, quit>>
      BY <1>2 DEF MarkRunning, Inv, TypeOK
    <2>2. f \in RunRec /\ f.action = a /\ f.pc = "register" /\ f.process = "none" /\ f.status = "none"
      BY DEF RunRec, Active, Status, Process, Alive
    <2> HIDE DEF f
    <2>3. /\ run' \in Seq(RunRec) /\ Run' = Run \union {n} /\ n \notin Run
          /\ run'[n] = f /\ \A q \in Run : run'[q] = run[q]
      <3>1. run' \in Seq(RunRec) /\ Len(run') = n
        BY <1>0, <2>1, <2>2
      <3>2. run'[n] = f /\ \A q \in Run : run'[q] = run[q]
        BY <1>0, <2>1, <2>2 DEF Run
      <3> QED BY <1>0, <3>1, <3>2 DEF Run
    <2> HIDE DEF n
    <2>4. TypeOK'
      <3>1. history' \in Seq({r \in Run : run[r].status # "none"})'
        BY <2>1, <2>3, <1>0, RowsKeep
      <3>2. /\ activePid' \in [Action -> Run' \union {0}] /\ notify' \in [Action -> Run' \union {0}]
            /\ permit' \subseteq Run'
        BY <1>0, <2>1, <2>3 DEF TypeOK
      <3>3. stop' \in [Call -> [pc : {"idle", "term", "notify", "over"}, action : Action \union {0},
                                pid : Run' \union {0}, to : Run' \union {0}]]
        <4> DEFINE Old == [pc : {"idle", "term", "notify", "over"}, action : Action \union {0},
                           pid : Run \union {0}, to : Run \union {0}]
                   New == [pc : {"idle", "term", "notify", "over"}, action : Action \union {0},
                           pid : Run' \union {0}, to : Run' \union {0}]
        <4>1. stop \in [Call -> Old]
          BY <1>0 DEF TypeOK
        <4>2. Old \subseteq New
          BY <2>3
        <4> HIDE DEF Old, New
        <4>3. stop' \in [Call -> New]
          BY <2>1, <4>1, <4>2
        <4> QED BY <4>3 DEF New
      <3>4. quit' \in [pc : {"no", "signal", "done"}, pids : SUBSET Run']
        <4>1. quit \in [pc : {"no", "signal", "done"}, pids : SUBSET Run]
          BY <1>0 DEF TypeOK
        <4>2. quit.pids \subseteq Run'
          BY <4>1, <2>3
        <4> QED BY <2>1, <4>1, <4>2
      <3> QED BY <1>0, <2>1, <2>3, <3>1, <3>2, <3>3, <3>4 DEF TypeOK, RunRec
    <2>5. a \notin running /\ \A q \in Run : run[q].pc \in Active => run[q].action # a
      BY <1>2 DEF MayRun, Inv, Marked
    <2>6. Alone'
      BY <2>2, <2>3, <2>5 DEF Inv, Alone
    <2>7. Marked'
      <3>1. f.pc \in Active
        BY <2>2 DEF Active
      <3> SUFFICES ASSUME NEW b \in Action
                   PROVE  b \in running' <=> \E q \in Run' : run'[q].action = b /\ run'[q].pc \in Active
        BY DEF Marked
      <3>2. b \in running <=> \E q \in Run : run[q].action = b /\ run[q].pc \in Active
        BY DEF Inv, Marked
      <3>3. CASE b = a
        BY <2>1, <2>2, <2>3, <3>1, <3>3
      <3>4. CASE b # a
        BY <2>1, <2>2, <2>3, <3>2, <3>4
      <3> QED BY <3>3, <3>4
    <2>8. PidIsCurrent'
      <3>1. \A b \in Action : activePid'[b] = IF b = a THEN 0 ELSE activePid[b]
        BY <1>0, <2>1 DEF TypeOK
      <3>2. \A b \in Action : activePid'[b] # 0 => activePid[b] \in Run /\ run'[activePid[b]] = run[activePid[b]]
        BY <1>0, <2>3, <3>1 DEF TypeOK
      <3> QED BY <3>1, <3>2 DEF Inv, PidIsCurrent
    <2>9. Progress'
      BY <2>2, <2>3 DEF Inv, Progress, After
    <2>10. Calls'
      BY <2>1 DEF Inv, Calls
    <2> QED BY <2>4, <2>6, <2>7, <2>8, <2>9, <2>10 DEF Inv
  <1> QED BY <1>1, <1>2

-----------------------------------------------------------------------------

LEMMA Initially == ASSUME Init PROVE Inv
  <1>1. Run = {}
    BY DEF Init, Run
  <1>2. TypeOK
    BY <1>1 DEF Init, TypeOK
  <1> QED BY <1>1, <1>2 DEF Init, Inv, Alone, Marked, PidIsCurrent, Progress, Calls

LEMMA EveryStep == ASSUME Inv, [Next]_vars PROVE Inv'
  <1>1. ASSUME NEW a \in Action, Launch(a) \/ Delete(a) PROVE Inv'
    BY <1>1, AsideStep, BeginStep DEF Launch
  <1>2. ASSUME NEW r \in Run, Register(r) \/ Task(r) \/ Exit(r) PROVE Inv'
    BY <1>2, TaskStep, FinishStep DEF Task
  <1>3. ASSUME NEW c \in Call, Stop(c) PROVE Inv'
    BY <1>3, StopCallStep, StopTermStep DEF Stop
  <1>4. CASE Shutdown
    BY <1>4, AsideStep, ShutdownSignalStep DEF Shutdown
  <1>5. CASE UNCHANGED vars
    <2>1. UNCHANGED <<execution, run, store, notify, permit, starting, stop, deleting, history, quit>>
      BY <1>5 DEF vars, calls
    <2>2. TypeOK'
      BY <2>1, RunsKept DEF Inv, TypeOK, execution
    <2> QED BY <2>1, <2>2, RunsKept DEF Inv, Calls
  <1> QED BY <1>1, <1>2, <1>3, <1>4, <1>5 DEF Next

\* The tables, the tasks and the processes agree in every state.
THEOREM Invariance == Spec => []Inv
  BY Initially, EveryStep, PTL DEF Spec

\* The types of the tables; a row of quick_launch_runs is of a run with a result.
THEOREM TypeCorrect == Spec => []TypeOK
  <1>1. Inv => TypeOK
    BY DEF Inv
  <1> QED BY <1>1, Invariance, PTL

\* start_action_with_values never runs an action that runs, whichever call
\* marked it, and mark_finished unmarks exactly the action whose run is over.
THEOREM RunsAlone == Spec => []OneRunEach
  <1>1. ASSUME Inv PROVE OneRunEach
    <2> SUFFICES ASSUME NEW a \in Action
                 PROVE  Cardinality({r \in Run : run[r].action = a /\ run[r].pc \in Active})
                          = IF a \in running THEN 1 ELSE 0
      BY DEF OneRunEach
    <2> DEFINE now == {r \in Run : run[r].action = a /\ run[r].pc \in Active}
    <2>1. CASE a \in running
      <3>1. PICK r \in Run : run[r].action = a /\ run[r].pc \in Active
        BY <1>1, <2>1 DEF Inv, Marked
      <3>2. now = {r}
        BY <1>1, <3>1 DEF Inv, Alone
      <3> QED BY <2>1, <3>2, FS_Singleton
    <2>2. CASE a \notin running
      <3>1. now = {}
        BY <1>1, <2>2 DEF Inv, Marked
      <3> QED BY <2>2, <3>1, FS_EmptySet
    <2> QED BY <2>1, <2>2
  <1> QED BY <1>1, Invariance, PTL

\* A pid in active_pids is of the run of that action whose task has spawned it
\* and has not yet cleared it: a stop never signals another run's process.
THEOREM PidSound == Spec => []PidIsCurrent
  <1>1. Inv => PidIsCurrent
    BY DEF Inv
  <1> QED BY <1>1, Invariance, PTL

\* However `select!` ended, the process is gone before the run is recorded,
\* unless the SIGKILL to it failed (signal_process, whose result is dropped).
THEOREM NothingLeft == Spec => []NoOrphan
  <1>1. Inv => NoOrphan
    BY DEF Inv, Progress, NoOrphan
  <1> QED BY <1>1, Invariance, PTL
=============================================================================
