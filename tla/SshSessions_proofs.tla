------------------------- MODULE SshSessions_proofs -------------------------
(***************************************************************************)
(* Proofs about SshSessions, for any number of sessions, profiles and      *)
(* connections.                                                            *)
(***************************************************************************)
EXTENDS SshSessions, TLAPS

\* The places of a task where it holds the connection of its role, the
\* terminal connection, the file connection.
Holding == {"dial", "dropping", "ftpCheck", "ftpDial", "ftpRegister", "restore"}
Ftp == {"ftpGet", "ftpCheck", "ftpDial", "ftpRegister"}

\* A task is where its goal may lead it, and holds what it needs there.
PlaceOK(t, x) ==
    /\ x.pc # "idle" => /\ x.goal # "none"
                        /\ x.goal = "open" <=> t[2] = "open"
                        /\ x.goal = "close" <=> t[2] = "close"
    /\ x.pc \in Ftp => x.goal = "open" /\ x.role = "Sftp" /\ P(t) \notin Ssh
    /\ x.pc = "fail" => x.goal = "open"
    /\ x.pc \in {"drop", "dropping"} => x.goal \in {"open", "close"}
    /\ x.pc = "restore" => x.goal \in {"sftp", "shared", "terminal"}
    /\ x.goal = "close" => x.pc \in {"drop", "dropping"}
    /\ x.goal = "terminal" => x.role = "Terminal"
    /\ x.goal \in {"sftp", "shared"} => x.role = "Sftp"
    /\ x.pc \in Holding => x.got[x.role] # None
    /\ x.pc \in {"terminal", "opening"} =>
          /\ x.goal \in {"open", "terminal"}
          /\ x.got["Terminal"] # None
          /\ x.goal = "open" => x.got["Sftp"] # None
    /\ x.pc \in {"list", "working"} => x.got["Sftp"] # None

GoalOK == \A t \in Task : PlaceOK(t, task[t])

\* Whoever refers to a connection refers to one made for that use.
PoolKeyed == \A k \in Key : pool[k] # None => key[pool[k]] = k /\ k = PoolKey(k[1], k[2])
ProtoKeyed == \A s \in Sid, r \in Role : proto[s][r] # None => key[proto[s][r]] = PoolKey(ProfileOf[s], r)
TaskKeyed == \A t \in Task, r \in Role : task[t].got[r] # None => key[task[t].got[r]] = PoolKey(P(t), r)
Keyed == PoolKeyed /\ ProtoKeyed /\ TaskKeyed

\* What is known of the handles: a connection that has one has a key, one being
\* dialled has not been connected nor taken by the shutdown, one being torn down
\* has left the pool, and an SSH connection in the pool has finished connecting.
HandleKeyed == \A c \in Conn : handle[c] # "none" => key[c] \in Key
DialsNew == \A t \in Task : task[t].pc = "dial" =>
    Got(t) \notin quit.taken /\ (P(t) \in Ssh => handle[Got(t)] = "new")
DropsUnpooled == \A t \in Task : task[t].pc = "dropping" => pool[<<P(t), task[t].role>>] = None
PooledAlive == \A k \in Key : k[1] \in Ssh /\ pool[k] # None =>
    handle[pool[k]] \in Alive /\ pool[k] \notin quit.taken
Handles == HandleKeyed /\ DialsNew /\ DropsUnpooled /\ PooledAlive

\* A session not yet opened has no open task, an open one no close task: what
\* OpenSession and CloseSession spawn replaces nothing.
Started == \A s \in Sid :
    /\ status[s] = "new" => task[<<s, "open">>].pc = "idle"
    /\ status[s] # "closed" => task[<<s, "close">>].pc = "idle"

Inv == TypeOK /\ GoalOK /\ Started /\ OneAtATime /\ Keyed /\ Handles

-----------------------------------------------------------------------------
LEMMA Init_TypeOK == ASSUME SessionsAssumption, Init PROVE TypeOK
  BY DEF SessionsAssumption, Init, TypeOK, ConnsOK, Status, NoConns, Idle, Ref, Label, Goal, TaskRec, Role, Key, Task

LEMMA TaskShape == ASSUME SessionsAssumption, TypeOK, NEW t \in Task
    PROVE /\ t = <<t[1], t[2]>> /\ t[1] \in Sid /\ t[2] \in {"open", "close", "use"}
          /\ P(t) \in Profile /\ KeyOf(t) \in Key
          /\ task[t] \in TaskRec /\ task[t].role \in Role /\ Got(t) \in Ref
  BY DEF SessionsAssumption, TypeOK, TaskRec, Task, P, KeyOf, Got, PoolKey, Key, Role

LEMMA Idle_Type == ASSUME SessionsAssumption PROVE Idle \in TaskRec
  BY DEF Idle, NoConns, TaskRec, Label, Goal, Role, Ref

\* Moving a task, or changing what it holds, leaves it a task record.
LEMMA Answered_Type ==
    ASSUME SessionsAssumption, TypeOK, NEW t \in Task, NEW c \in Ref
    PROVE Answered(t, c) \in TaskRec
  <1> DEFINE rec       == [task[t] EXCEPT !.got[task[t].role] = c]
             Moved(l)  == [rec EXCEPT !.pc = l]
             Turned(l) == [rec EXCEPT !.pc = l, !.role = "Sftp"]
             Round     == [Idle EXCEPT !.pc = "drop", !.goal = "open", !.role = "Terminal"]
             After     == {"get", "terminal", "restore"}
  <1>1. task[t] \in TaskRec /\ task[t].role \in Role /\ Idle \in TaskRec
    BY TaskShape, Idle_Type
  <1>2. rec \in TaskRec
    BY <1>1 DEF TaskRec
  <1>3. \A l \in After : Moved(l) \in TaskRec /\ Turned(l) \in TaskRec
    BY <1>2 DEF TaskRec, Label, Role
  <1>4. Round \in TaskRec
    BY <1>1 DEF TaskRec, Label, Goal, Role
  <1>5. \/ Answered(t, c) \in {Idle, Round}
        \/ \E l \in After : Answered(t, c) \in {Moved(l), Turned(l)}
    BY DEF Answered
  <1> HIDE DEF rec, Moved, Turned, Round
  <1> QED BY <1>1, <1>3, <1>4, <1>5

LEMMA NextDrop_Type == ASSUME SessionsAssumption, TypeOK, NEW t \in Task
    PROVE NextDrop(t) \in TaskRec
  <1>1. task[t] \in TaskRec /\ Idle \in TaskRec
    BY TaskShape, Idle_Type
  <1>2. NoConns \in [Role -> Ref]
    BY DEF NoConns, Ref
  <1>3. \A r \in {"Terminal", "Sftp"} : [task[t] EXCEPT !.pc = "drop", !.role = r, !.got = NoConns] \in TaskRec
    BY <1>1, <1>2 DEF TaskRec, Label, Role
  <1>4. [Idle EXCEPT !.pc = "fail", !.goal = "open"] \in TaskRec
    BY <1>1 DEF TaskRec, Label, Goal
  <1> QED BY <1>1, <1>3, <1>4 DEF NextDrop

LEMMA Send_Type == ASSUME SessionsAssumption, TypeOK, NEW c \in Conn, key[c] \in Key, Send(c)
    PROVE notices' \in Seq(Key) /\ Len(notices') <= NoticeCap
  <1> DEFINE old == IF Len(notices) < NoticeCap THEN notices ELSE Tail(notices)
  <1>1. notices \in Seq(Key) /\ Len(notices) <= NoticeCap /\ NoticeCap \in Nat \ {0}
    BY DEF TypeOK, SessionsAssumption
  <1>2. old \in Seq(Key) /\ Len(old) < NoticeCap
    BY <1>1
  <1>3. ASSUME NEW q \in Seq(Key), NEW k \in Key PROVE Append(q, k) \in Seq(Key) /\ Len(Append(q, k)) = Len(q) + 1
    OBVIOUS
  <1>4. notices' = Append(old, key[c])
    BY DEF Send
  <1> HIDE DEF old
  <1>5. notices' \in Seq(Key) /\ Len(notices') = Len(old) + 1 /\ Len(old) \in Nat
    BY <1>2, <1>3, <1>4
  <1> QED BY <1>1, <1>2, <1>5

LEMMA Step_Type == ASSUME TypeOK, NEW t \in Task, NEW rec \in TaskRec, Step(t, rec)
    PROVE task' \in [Task -> TaskRec]
  BY DEF TypeOK, Step

LEMMA Goto_Type == ASSUME TypeOK, NEW t \in Task, NEW l \in Label, Goto(t, l)
    PROVE task' \in [Task -> TaskRec]
  BY DEF TypeOK, Step, Goto, TaskRec

LEMMA Hold_Type == ASSUME TypeOK, NEW t \in Task, NEW l \in Label, NEW r \in Role, NEW c \in Ref
    PROVE [task[t] EXCEPT !.pc = l, !.got[r] = c] \in TaskRec
  BY DEF TypeOK, TaskRec

LEMMA Patch_Type ==
    ASSUME TypeOK, NEW s \in Sid, NEW r \in Role, NEW c \in Ref, Patch(s, r, c)
    PROVE proto' \in [Sid -> [Role -> Ref]]
  BY DEF TypeOK, Patch

LEMMA Set_Type == ASSUME TypeOK, NEW s \in Sid, NEW v \in {"connected", "failed"}, Set(s, v)
    PROVE status' \in [Sid -> Status]
  BY DEF TypeOK, Set, Status

LEMMA Conn_Type == ASSUME TypeOK, NEW c \in Conn
    PROVE /\ \A k \in Key : Create(c, k) => ConnsOK'
          /\ Drop(c) => ConnsOK'
  <1>1. ASSUME NEW k \in Key, Create(c, k) PROVE ConnsOK'
    BY <1>1 DEF TypeOK, ConnsOK, Create
  <1>2. ASSUME Drop(c) PROVE ConnsOK'
    <2>1. Dropped(c) \in {"none", "ending"} \union {handle[c]}
      BY DEF Dropped
    <2> QED BY <1>2, <2>1 DEF TypeOK, ConnsOK, Drop
  <1> QED BY <1>1, <1>2

\* A task that holds a connection holds one that exists.
LEMMA GotConn == ASSUME SessionsAssumption, Inv, NEW t \in Task
    PROVE /\ task[t].pc \in Holding => Got(t) \in Conn
          /\ task[t].pc \in {"list", "working"} => task[t].got["Sftp"] \in Conn
          /\ task[t].pc \in {"terminal", "opening"} => task[t].got["Terminal"] \in Conn
  BY TaskShape DEF Inv, GoalOK, PlaceOK, Got, TaskRec, Role, Ref

-----------------------------------------------------------------------------
LEMMA TaskTypeStep == ASSUME SessionsAssumption, Inv, NEW t \in Task, TaskStep(t) PROVE TypeOK'
  <1> USE DEF Inv
  <1>1. CASE Reuse(t)
    <2>1. task' \in [Task -> TaskRec]
      BY <1>1, TaskShape, Answered_Type, Step_Type DEF Reuse, Ref, TypeOK
    <2> QED BY <1>1, <2>1, TaskShape DEF Reuse, TypeOK, ConnsOK, conns
  <1>2. CASE Dial(t)
    <2>1. PICK c \in Conn : /\ Create(c, KeyOf(t))
                            /\ Step(t, [task[t] EXCEPT !.pc = "dial", !.got[task[t].role] = c])
      BY <1>2 DEF Dial
    <2>2. task' \in [Task -> TaskRec]
      BY <2>1, TaskShape, Hold_Type, Step_Type DEF Label, Ref
    <2> QED BY <1>2, <2>1, <2>2, TaskShape, Conn_Type DEF Dial, TypeOK, Ref
  <1>3. CASE DialOk(t)
    <2>1. task' \in [Task -> TaskRec]
      BY <1>3, TaskShape, Answered_Type, Step_Type DEF DialOk, GoalOK, PlaceOK, Holding, Ref
    <2> QED BY <1>3, <2>1, TaskShape, GotConn DEF DialOk, TypeOK, conns, ConnsOK, Ref
  <1>4. CASE DialErr(t)
    <2>1. task' \in [Task -> TaskRec]
      BY <1>4, TaskShape, Answered_Type, Step_Type DEF DialErr, Ref
    <2> QED BY <1>4, <2>1, TaskShape, GotConn DEF DialErr, TypeOK, conns, ConnsOK
  <1>5. CASE DropNothing(t)
    <2>1. task' \in [Task -> TaskRec]
      BY <1>5, TaskShape, NextDrop_Type, Step_Type DEF DropNothing
    <2> QED BY <1>5, <2>1, TaskShape DEF DropNothing, TypeOK, ConnsOK, conns
  <1>6. CASE DropBegin(t)
    <2>1. pool[<<P(t), task[t].role>>] \in Ref
      BY TaskShape DEF TypeOK, Key
    <2>2. task' \in [Task -> TaskRec]
      BY <1>6, <2>1, TaskShape, Hold_Type, Step_Type DEF DropBegin, Label
    <2> QED BY <1>6, <2>1, <2>2, TaskShape DEF DropBegin, TypeOK, ConnsOK, conns, Ref
  <1>7. CASE DropEnd(t)
    <2>1. task' \in [Task -> TaskRec]
      BY <1>7, TaskShape, NextDrop_Type, Step_Type DEF DropEnd
    <2> QED BY <1>7, <2>1, TaskShape, GotConn, Conn_Type DEF DropEnd, TypeOK, conns, Holding
  <1>8. CASE BeginTerminal(t)
    <2>1. task' \in [Task -> TaskRec]
      BY <1>8, TaskShape, Goto_Type, Step_Type, Idle_Type DEF BeginTerminal, Label
    <2> QED BY <1>8, <2>1, TaskShape DEF BeginTerminal, TypeOK, ConnsOK, conns
  <1>9. CASE EndTerminal(t)
    <2>1. task' \in [Task -> TaskRec]
      BY <1>9, TaskShape, Goto_Type, Step_Type, Idle_Type DEF EndTerminal, Label
    <2> QED BY <1>9, <2>1, TaskShape, Patch_Type DEF EndTerminal, TypeOK, ConnsOK, conns, Role, TaskRec
  <1>10. CASE BeginWork(t)
    <2>1. task' \in [Task -> TaskRec]
      BY <1>10, TaskShape, Goto_Type DEF BeginWork, Label
    <2> QED BY <1>10, <2>1, TaskShape DEF BeginWork, TypeOK, ConnsOK, conns
  <1>11. CASE EndWork(t)
    <2>1. task' \in [Task -> TaskRec]
      BY <1>11, TaskShape, Step_Type, Idle_Type DEF EndWork, Worked
    <2> QED BY <1>11, <2>1, TaskShape, GotConn DEF EndWork, TypeOK, conns, Worked, ConnsOK
  <1>12. CASE Publish(t)
    <2>1. task' \in [Task -> TaskRec]
      BY <1>12, TaskShape, Step_Type, Idle_Type DEF Publish, Worked
    <2> QED BY <1>12, <2>1, TaskShape, GotConn, Set_Type DEF Publish, TypeOK, conns, Worked, ConnsOK, TaskRec, Role
  <1>13. CASE Fail(t)
    <2>1. task' \in [Task -> TaskRec]
      BY <1>13, TaskShape, Step_Type, Idle_Type DEF Fail
    <2> QED BY <1>13, <2>1, TaskShape, Set_Type DEF Fail, TypeOK, ConnsOK, conns
  <1>14. CASE Restore(t)
    <2>1. task' \in [Task -> TaskRec]
      BY <1>14, TaskShape, Goto_Type, Step_Type, Idle_Type DEF Restore, Label
    <2> QED BY <1>14, <2>1, TaskShape, Patch_Type, Set_Type DEF Restore, TypeOK, ConnsOK, conns, TaskRec
  <1>15. CASE FtpGet(t)
    <2>1. PICK d \in Conn : /\ Create(d, KeyOf(t)) \/ UNCHANGED conns
                            /\ Step(t, [task[t] EXCEPT !.pc = "ftpCheck", !.got["Sftp"] = d])
      BY <1>15, TaskShape DEF FtpGet, TypeOK, Ref
    <2>2. task' \in [Task -> TaskRec]
      BY <2>1, TaskShape, Hold_Type, Step_Type DEF Label, Ref, Role
    <2>3. ConnsOK'
      BY <2>1, TaskShape, Conn_Type DEF TypeOK, ConnsOK, conns
    <2> QED BY <1>15, <2>2, <2>3 DEF FtpGet, TypeOK
  <1>16. CASE FtpCheck(t)
    <2>1. task' \in [Task -> TaskRec]
      BY <1>16, TaskShape, Goto_Type DEF FtpCheck, Label
    <2> QED BY <1>16, <2>1, TaskShape, Patch_Type DEF FtpCheck, TypeOK, ConnsOK, conns, Role
  <1>17. CASE FtpDialOk(t)
    <2>1. task' \in [Task -> TaskRec]
      BY <1>17, TaskShape, Goto_Type DEF FtpDialOk, Label
    <2> QED BY <1>17, <2>1, TaskShape, GotConn DEF FtpDialOk, TypeOK, conns, ConnsOK
  <1>18. CASE FtpDialErr(t)
    <2>1. task' \in [Task -> TaskRec]
      BY <1>18, Idle_Type, Step_Type DEF FtpDialErr, TaskRec, Label, Goal, Role
    <2> QED BY <1>18, <2>1, TaskShape DEF FtpDialErr, TypeOK, ConnsOK, conns
  <1>19. CASE FtpRegister(t)
    <2>1. task' \in [Task -> TaskRec]
      BY <1>19, TaskShape, Goto_Type DEF FtpRegister, Label
    <2> QED BY <1>19, <2>1, TaskShape DEF FtpRegister, TypeOK, ConnsOK, conns
  <1> QED BY <1>1, <1>2, <1>3, <1>4, <1>5, <1>6, <1>7, <1>8, <1>9, <1>10, <1>11, <1>12, <1>13, <1>14, <1>15, <1>16, <1>17, <1>18, <1>19 DEF TaskStep, PoolStep, WorkStep, FtpStep

LEMMA TypeStep == ASSUME SessionsAssumption, Inv, [Next]_vars PROVE TypeOK'
  <1> USE DEF Inv
  <1>1. CASE \E t \in Task : TaskStep(t)
    BY <1>1, TaskTypeStep
  <1>2. ASSUME NEW s \in Sid, UserStep(s) PROVE TypeOK'
    <2> /\ <<s, "open">> \in Task /\ <<s, "close">> \in Task /\ <<s, "use">> \in Task
      BY DEF Task
    <2>1. CASE OpenSession(s)
      <3>1. task' \in [Task -> TaskRec]
        BY <2>1, Idle_Type, Step_Type DEF OpenSession, TaskRec, Label, Goal, Role
      <3> QED BY <2>1, <3>1 DEF OpenSession, TypeOK, ConnsOK, conns, Status
    <2>2. CASE CloseSession(s)
      <3>1. task' \in [Task -> TaskRec]
        BY <2>2, Idle_Type, Step_Type DEF CloseSession, TypeOK, TaskRec, Label, Goal, Role
      <3>2. NoConns \in [Role -> Ref]
        BY DEF NoConns, Ref
      <3> QED BY <2>2, <3>1, <3>2 DEF CloseSession, TypeOK, ConnsOK, conns, Status, Open
    <2>3. CASE UseTerminal(s)
      <3>1. task' \in [Task -> TaskRec]
        BY <2>3, Idle_Type, Step_Type DEF UseTerminal, TaskRec, Label, Goal, Role
      <3> QED BY <2>3, <3>1 DEF UseTerminal, TypeOK, ConnsOK, conns
    <2>4. ASSUME NEW goal \in {"sftp", "shared"}, UseFiles(s, goal) PROVE TypeOK'
      <3>1. proto[s]["Sftp"] \in Ref
        BY DEF TypeOK, Role
      <3>2. /\ [Idle EXCEPT !.pc = "list", !.goal = goal, !.got["Sftp"] = proto[s]["Sftp"]] \in TaskRec
            /\ [Idle EXCEPT !.pc = "get", !.goal = goal] \in TaskRec
        BY <3>1, Idle_Type DEF TaskRec, Label, Goal, Role
      <3>3. task' \in [Task -> TaskRec]
        BY <2>4, <3>2, Step_Type DEF UseFiles
      <3> QED BY <2>4, <3>3 DEF UseFiles, TypeOK, ConnsOK, conns
    <2> QED BY <1>2, <2>1, <2>2, <2>3, <2>4 DEF UserStep
  <1>3. ASSUME NEW c \in Conn, ConnStep(c) PROVE TypeOK'
    <2>0. handle[c] # "none" => key[c] \in Key
      BY DEF Handles, HandleKeyed
    <2>1. CASE ServerDrops(c)
      BY <2>0, <2>1, Send_Type DEF ServerDrops, TypeOK, ConnsOK
    <2>2. CASE HandlerEnds(c)
      BY <2>0, <2>2, Send_Type DEF HandlerEnds, TypeOK, ConnsOK
    <2>3. CASE ArcDropped(c)
      BY <2>3, Conn_Type DEF ArcDropped, TypeOK
    <2> QED BY <1>3, <2>1, <2>2, <2>3 DEF ConnStep
  <1>4. CASE Deliver
    <2>1. Head(notices) \in Key /\ Tail(notices) \in Seq(Key) /\ Len(Tail(notices)) <= NoticeCap
      BY <1>4 DEF Deliver, TypeOK, SessionsAssumption
    <2>2. Head(notices)[2] \in Role
      BY <2>1 DEF Key
    <2>3. status' \in [Sid -> Status] /\ proto' \in [Sid -> [Role -> Ref]]
      BY <1>4, <2>2 DEF Deliver, TypeOK, Status, Ref
    <2> QED BY <1>4, <2>1, <2>3 DEF Deliver, TypeOK, ConnsOK, conns
  <1>5. CASE Shutdown
    <2>1. CASE ShutdownBegin
      BY <2>1 DEF ShutdownBegin, TypeOK, ConnsOK, conns, Status, NoConns, Ref
    <2>2. CASE ShutdownTake
      BY <2>2 DEF ShutdownTake, TypeOK, ConnsOK, conns, Ref
    <2>3. CASE ShutdownEnd
      BY <2>3 DEF ShutdownEnd, TypeOK, ConnsOK, conns
    <2>4. ASSUME NEW c \in Conn, ShutdownDrop(c) PROVE TypeOK'
      BY <2>4, Conn_Type DEF ShutdownDrop, TypeOK
    <2> QED BY <1>5, <2>1, <2>2, <2>3, <2>4 DEF Shutdown
  <1>6. CASE UNCHANGED vars
    BY <1>6 DEF vars, conns, TypeOK, ConnsOK
  <1> QED BY <1>1, <1>2, <1>3, <1>4, <1>5, <1>6 DEF Next, Rest
-----------------------------------------------------------------------------
LEMMA Step_Goal ==
    ASSUME TypeOK, GoalOK, NEW t \in Task, NEW rec \in TaskRec, Step(t, rec), PlaceOK(t, rec)
    PROVE GoalOK'
  BY DEF TypeOK, GoalOK, PlaceOK, Step, P

LEMMA Idle_Goal == ASSUME NEW t \in Task PROVE PlaceOK(t, Idle)
  BY DEF PlaceOK, Idle, Ftp, Holding

LEMMA Answered_Goal ==
    ASSUME SessionsAssumption, Inv, NEW t \in Task, NEW c \in Ref, task[t].pc \in {"get", "dial"}
    PROVE PlaceOK(t, Answered(t, c))
  <1> DEFINE rec == [task[t] EXCEPT !.got[task[t].role] = c]
  <1>1. PlaceOK(t, task[t]) /\ task[t] \in TaskRec
    BY TaskShape DEF Inv, GoalOK
  <1>2. /\ rec \in TaskRec /\ rec.goal = task[t].goal /\ rec.role = task[t].role
        /\ rec.got[rec.role] = c
    BY <1>1 DEF TaskRec
  <1>3. /\ rec.goal # "none" /\ rec.goal # "close"
        /\ rec.goal = "open" <=> t[2] = "open"
        /\ t[2] # "close"
    BY <1>1, <1>2 DEF PlaceOK, TaskRec, Ftp, Holding
  <1> HIDE DEF rec
  <1>4. CASE rec.goal = "open" /\ rec.role = "Terminal"
    <2>1. Answered(t, c) = [rec EXCEPT !.pc = "get", !.role = "Sftp"]
      BY <1>4 DEF Answered, rec
    <2> QED BY <2>1, <1>2, <1>3, <1>4 DEF PlaceOK, TaskRec, Ftp, Holding
  <1>5. CASE rec.goal = "open" /\ rec.role = "Sftp" /\ None \in {rec.got[r] : r \in Role}
    <2>1. Answered(t, c) = [Idle EXCEPT !.pc = "drop", !.goal = "open", !.role = "Terminal"]
      BY <1>5 DEF Answered, rec
    <2> QED BY <2>1, <1>3, <1>5 DEF PlaceOK, Idle, Ftp, Holding
  <1>6. CASE rec.goal = "open" /\ rec.role = "Sftp" /\ None \notin {rec.got[r] : r \in Role}
    <2>1. Answered(t, c) = [rec EXCEPT !.pc = "terminal"]
      BY <1>6 DEF Answered, rec
    <2>2. rec.got["Terminal"] # None
      BY <1>6 DEF Role
    <2> QED BY <2>1, <2>2, <1>2, <1>3, <1>6 DEF PlaceOK, TaskRec, Ftp, Holding
  <1>7. CASE rec.goal # "open" /\ c = None
    <2>1. Answered(t, c) = Idle
      BY <1>7 DEF Answered, rec
    <2> QED BY <2>1, Idle_Goal
  <1>8. CASE rec.goal = "terminal" /\ c # None
    <2>1. Answered(t, c) = [rec EXCEPT !.pc = "terminal"]
      BY <1>8 DEF Answered, rec
    <2>2. rec.role = "Terminal"
      BY <1>1, <1>2, <1>8 DEF PlaceOK
    <2> QED BY <2>1, <2>2, <1>2, <1>3, <1>8 DEF PlaceOK, TaskRec, Ftp, Holding
  <1>9. CASE rec.goal \notin {"open", "terminal"} /\ c # None
    <2>1. Answered(t, c) = [rec EXCEPT !.pc = "restore"]
      BY <1>9 DEF Answered, rec
    <2>2. rec.goal \in {"sftp", "shared"} /\ rec.role = "Sftp"
      BY <1>1, <1>2, <1>3, <1>9 DEF TaskRec, Goal, PlaceOK
    <2> QED BY <2>1, <2>2, <1>2, <1>3, <1>9 DEF PlaceOK, TaskRec, Ftp, Holding
  <1> QED BY <1>2, <1>4, <1>5, <1>6, <1>7, <1>8, <1>9 DEF TaskRec, Role

LEMMA NextDrop_Goal == 
    ASSUME SessionsAssumption, Inv, NEW t \in Task, task[t].pc \in {"drop", "dropping"}
    PROVE PlaceOK(t, NextDrop(t))
  <1>1. PlaceOK(t, task[t]) /\ task[t] \in TaskRec
    BY TaskShape DEF Inv, GoalOK
  <1> QED BY <1>1, Idle_Goal DEF PlaceOK, NextDrop, TaskRec, Idle, NoConns, Role, Ftp, Holding, Goal, Label

LEMMA Goto_Goal ==
    ASSUME TypeOK, GoalOK, NEW t \in Task, NEW l \in Label, Goto(t, l),
           PlaceOK(t, [task[t] EXCEPT !.pc = l])
    PROVE GoalOK'
  BY DEF TypeOK, GoalOK, PlaceOK, Goto, Step, P

LEMMA TaskGoalStep == ASSUME SessionsAssumption, Inv, NEW t \in Task, TaskStep(t) PROVE GoalOK'
  <1> TypeOK /\ GoalOK /\ PlaceOK(t, task[t]) /\ task[t] \in TaskRec
    BY TaskShape DEF Inv, GoalOK
  <1> DEFINE at(l) == [task[t] EXCEPT !.pc = l]
  <1>0. ASSUME NEW l \in Label PROVE Goto(t, l) /\ PlaceOK(t, at(l)) => GoalOK'
    BY Goto_Goal
  <1>1. CASE Reuse(t) \/ DialOk(t) \/ DialErr(t)
    <2>1. PICK c \in Ref : Step(t, Answered(t, c)) /\ task[t].pc \in {"get", "dial"}
      BY <1>1, TaskShape DEF Reuse, DialOk, DialErr, TypeOK, Ref
    <2> QED BY <2>1, Answered_Goal, Answered_Type, Step_Goal
  <1>2. CASE Dial(t)
    <2>1. PICK c \in Conn : Step(t, [task[t] EXCEPT !.pc = "dial", !.got[task[t].role] = c])
      BY <1>2 DEF Dial
    <2> DEFINE rec == [task[t] EXCEPT !.pc = "dial", !.got[task[t].role] = c]
    <2>2. rec \in TaskRec
      BY TaskShape, Hold_Type DEF Label, Ref
    <2>3. PlaceOK(t, rec)
      BY <1>2 DEF Dial, PlaceOK, TaskRec, Ftp, Holding, SessionsAssumption
    <2> QED BY <2>1, <2>2, <2>3, Step_Goal
  <1>3. CASE DropNothing(t) \/ DropEnd(t)
    BY <1>3, NextDrop_Goal, NextDrop_Type, Step_Goal DEF DropNothing, DropEnd
  <1>4. CASE DropBegin(t)
    <2> DEFINE c == pool[<<P(t), task[t].role>>]
               rec == [task[t] EXCEPT !.pc = "dropping", !.got[task[t].role] = c]
    <2>1. c \in Ref /\ c # None /\ Step(t, rec)
      BY <1>4, TaskShape DEF DropBegin, TypeOK, Key
    <2>2. rec \in TaskRec
      BY <2>1, TaskShape, Hold_Type DEF Label
    <2> HIDE DEF c
    <2>3. PlaceOK(t, rec)
      BY <1>4, <2>1 DEF DropBegin, PlaceOK, TaskRec, Ftp, Holding
    <2> QED BY <2>1, <2>2, <2>3, Step_Goal
  <1>5. CASE BeginTerminal(t)
    <2>1. PlaceOK(t, at("opening")) /\ "opening" \in Label
      BY <1>5 DEF BeginTerminal, PlaceOK, TaskRec, Ftp, Holding, Label
    <2>2. task[t].goal # "open" => PlaceOK(t, at("restore")) /\ "restore" \in Label
      BY <1>5 DEF BeginTerminal, PlaceOK, TaskRec, Ftp, Holding, Label
    <2>3. Goto(t, "opening") \/ (task[t].goal # "open" /\ Goto(t, "restore")) \/ Step(t, Idle)
      BY <1>5 DEF BeginTerminal
    <2> QED BY <2>1, <2>2, <2>3, <1>0, Idle_Goal, Idle_Type, Step_Goal
  <1>6. CASE EndTerminal(t)
    <2>1. task[t].goal = "open" => PlaceOK(t, at("list")) /\ Goto(t, "list") /\ "list" \in Label
      BY <1>6 DEF EndTerminal, PlaceOK, TaskRec, Ftp, Holding, Label
    <2>2. task[t].goal # "open" => PlaceOK(t, at("restore")) /\ "restore" \in Label
      BY <1>6 DEF EndTerminal, PlaceOK, TaskRec, Ftp, Holding, Label
    <2>3. task[t].goal # "open" => Goto(t, "restore") \/ Step(t, Idle)
      BY <1>6 DEF EndTerminal
    <2> QED BY <2>1, <2>2, <2>3, <1>0, Idle_Goal, Idle_Type, Step_Goal
  <1>7. CASE BeginWork(t)
    <2>1. PlaceOK(t, at("working")) /\ Goto(t, "working") /\ "working" \in Label
      BY <1>7 DEF BeginWork, PlaceOK, TaskRec, Ftp, Holding, Label
    <2> QED BY <2>1, <1>0
  <1>8. CASE EndWork(t) \/ Publish(t) \/ Fail(t)
    BY <1>8, Idle_Goal, Idle_Type, Step_Goal DEF EndWork, Publish, Fail, Worked
  <1>9. CASE Restore(t)
    <2>1. PlaceOK(t, at("list")) \/ task[t].goal = "terminal"
      BY <1>9 DEF Restore, PlaceOK, TaskRec, Ftp, Holding
    <2>2. IF task[t].goal = "terminal" THEN Step(t, Idle) ELSE Goto(t, "list")
      BY <1>9 DEF Restore
    <2> QED BY <2>1, <2>2, <1>0, Idle_Goal, Idle_Type, Step_Goal DEF Label
  <1>10. CASE FtpGet(t)
    <2>1. PICK d \in Conn : Step(t, [task[t] EXCEPT !.pc = "ftpCheck", !.got["Sftp"] = d])
      BY <1>10, TaskShape DEF FtpGet, TypeOK, Ref
    <2> DEFINE rec == [task[t] EXCEPT !.pc = "ftpCheck", !.got["Sftp"] = d]
    <2>2. rec \in TaskRec
      BY Hold_Type DEF Label, Ref, Role
    <2>3. PlaceOK(t, rec)
      BY <1>10 DEF FtpGet, PlaceOK, TaskRec, Ftp, Holding, SessionsAssumption
    <2> QED BY <2>1, <2>2, <2>3, Step_Goal
  <1>11. CASE FtpCheck(t)
    <2>1. PlaceOK(t, at("list")) /\ PlaceOK(t, at("ftpDial"))
      BY <1>11 DEF FtpCheck, PlaceOK, TaskRec, Ftp, Holding
    <2>2. Goto(t, "list") \/ Goto(t, "ftpDial")
      BY <1>11 DEF FtpCheck
    <2> QED BY <2>1, <2>2, <1>0 DEF Label
  <1>12. CASE FtpDialOk(t) \/ FtpRegister(t)
    <2>1. PlaceOK(t, at("list")) /\ PlaceOK(t, at("ftpRegister"))
      BY <1>12 DEF FtpDialOk, FtpRegister, PlaceOK, TaskRec, Ftp, Holding
    <2>2. Goto(t, "list") \/ Goto(t, "ftpRegister")
      BY <1>12 DEF FtpDialOk, FtpRegister
    <2> QED BY <2>1, <2>2, <1>0 DEF Label
  <1>13. CASE FtpDialErr(t)
    <2> DEFINE rec == [Idle EXCEPT !.pc = "drop", !.goal = "open", !.role = "Terminal"]
    <2>1. rec \in TaskRec
      BY Idle_Type DEF TaskRec, Label, Goal, Role
    <2>2. PlaceOK(t, rec)
      BY <1>13 DEF FtpDialErr, PlaceOK, Idle, Ftp, Holding
    <2> QED BY <1>13, <2>1, <2>2, Step_Goal DEF FtpDialErr
  <1> QED BY <1>1, <1>2, <1>3, <1>4, <1>5, <1>6, <1>7, <1>8, <1>9, <1>10, <1>11, <1>12, <1>13 DEF TaskStep, PoolStep, WorkStep, FtpStep

LEMMA GoalStep == ASSUME SessionsAssumption, Inv, [Next]_vars PROVE GoalOK'
  <1> TypeOK /\ GoalOK
    BY DEF Inv
  <1>1. CASE \E t \in Task : TaskStep(t)
    BY <1>1, TaskGoalStep
  <1>2. ASSUME NEW s \in Sid, UserStep(s) PROVE GoalOK'
    <2> /\ <<s, "open">> \in Task /\ <<s, "close">> \in Task /\ <<s, "use">> \in Task
      BY DEF Task
    <2>1. CASE OpenSession(s)
      <3> DEFINE ssh == [Idle EXCEPT !.pc = "get", !.goal = "open", !.role = "Terminal"]
                 ftp == [Idle EXCEPT !.pc = "ftpGet", !.goal = "open"]
      <3>1. ssh \in TaskRec /\ ftp \in TaskRec
        BY Idle_Type DEF TaskRec, Label, Goal, Role
      <3>2. PlaceOK(<<s, "open">>, ssh) /\ (ProfileOf[s] \notin Ssh => PlaceOK(<<s, "open">>, ftp))
        BY DEF PlaceOK, Idle, Ftp, Holding, P
      <3> QED BY <2>1, <3>1, <3>2, Step_Goal DEF OpenSession
    <2>2. CASE CloseSession(s)
      <3> DEFINE rec == [Idle EXCEPT !.pc = "drop", !.goal = "close", !.role = "Terminal"]
      <3>1. rec \in TaskRec /\ PlaceOK(<<s, "close">>, rec)
        BY Idle_Type DEF TaskRec, Label, Goal, Role, PlaceOK, Idle, Ftp, Holding
      <3>2. Step(<<s, "close">>, rec) \/ UNCHANGED task
        BY <2>2 DEF CloseSession
      <3>3. UNCHANGED task => GoalOK'
        BY DEF GoalOK, PlaceOK, P
      <3> QED BY <3>1, <3>2, <3>3, Step_Goal
    <2>3. CASE UseTerminal(s)
      <3> DEFINE rec == [Idle EXCEPT !.pc = "get", !.goal = "terminal", !.role = "Terminal"]
      <3>1. rec \in TaskRec /\ PlaceOK(<<s, "use">>, rec)
        BY Idle_Type DEF TaskRec, Label, Goal, Role, PlaceOK, Idle, Ftp, Holding
      <3> QED BY <2>3, <3>1, Step_Goal DEF UseTerminal
    <2>4. ASSUME NEW goal \in {"sftp", "shared"}, UseFiles(s, goal) PROVE GoalOK'
      <3> DEFINE c == proto[s]["Sftp"]
                 list == [Idle EXCEPT !.pc = "list", !.goal = goal, !.got["Sftp"] = c]
                 get == [Idle EXCEPT !.pc = "get", !.goal = goal]
      <3>1. c \in Ref
        BY DEF TypeOK, Role
      <3> HIDE DEF c
      <3>2. list \in TaskRec /\ get \in TaskRec
        BY <3>1, Idle_Type DEF TaskRec, Label, Goal, Role
      <3>3. PlaceOK(<<s, "use">>, get) /\ (c # None => PlaceOK(<<s, "use">>, list))
        BY <3>1 DEF PlaceOK, Idle, NoConns, Role, Ftp, Holding
      <3>4. (c # None /\ Step(<<s, "use">>, list)) \/ Step(<<s, "use">>, get)
        BY <2>4 DEF UseFiles, c
      <3> HIDE DEF list, get
      <3> QED BY <3>2, <3>3, <3>4, Step_Goal
    <2> QED BY <1>2, <2>1, <2>2, <2>3, <2>4 DEF UserStep
  <1>3. ASSUME UNCHANGED task PROVE GoalOK'
    BY <1>3 DEF GoalOK, PlaceOK, P
  <1>4. CASE Deliver \/ Shutdown \/ UNCHANGED vars
    BY <1>3, <1>4 DEF Deliver, Shutdown, ShutdownBegin, ShutdownTake, ShutdownDrop, ShutdownEnd, vars
  <1>5. ASSUME NEW c \in Conn, ConnStep(c) PROVE GoalOK'
    BY <1>3, <1>5 DEF ConnStep, ServerDrops, HandlerEnds, ArcDropped
  <1> QED BY <1>1, <1>2, <1>4, <1>5 DEF Next, Rest
-----------------------------------------------------------------------------
\* Only one task moves in a step.
LEMMA Step_At ==
    ASSUME TypeOK, NEW t \in Task, NEW rec, Step(t, rec), NEW u \in Task
    PROVE task'[u] = IF u = t THEN rec ELSE task[u]
  BY DEF TypeOK, Step

LEMMA Goto_At ==
    ASSUME TypeOK, NEW t \in Task, NEW l, Goto(t, l), NEW u \in Task
    PROVE /\ task'[u].pc = IF u = t THEN l ELSE task[u].pc
          /\ task'[u].role = task[u].role /\ task'[u].got = task[u].got
          /\ task'[u].goal = task[u].goal
  BY DEF TypeOK, Step, Goto, TaskRec

LEMMA Elsewhere ==
    ASSUME SessionsAssumption, Inv, NEW t \in Task
    PROVE /\ \A c \in Ref : Answered(t, c).pc \notin {"dial", "dropping"}
          /\ NextDrop(t).pc \notin {"dial", "dropping"}
          /\ Idle.pc \notin {"dial", "dropping"}
          /\ None \notin Task
  <1>1. task[t] \in TaskRec
    BY TaskShape DEF Inv
  <1>2. Idle.pc \notin {"dial", "dropping"}
    BY DEF Idle
  <1>3. ASSUME NEW c \in Ref PROVE Answered(t, c).pc \notin {"dial", "dropping"}
    BY <1>1 DEF Answered, TaskRec, Idle, Role
  <1>4. NextDrop(t).pc \notin {"dial", "dropping"}
    BY <1>1 DEF NextDrop, TaskRec, Idle
  <1> QED BY <1>2, <1>3, <1>4 DEF SessionsAssumption

LEMMA LockStep == ASSUME SessionsAssumption, Inv, [Next]_vars PROVE OneAtATime'
  <1> TypeOK /\ OneAtATime
    BY DEF Inv
  <1> DEFINE At(u) == task[u].pc \in {"dial", "dropping"}
             In(u) == task'[u].pc \in {"dial", "dropping"}
  <1>0. \A u \in Task : At(u) <=> lock = u
    BY DEF OneAtATime
  <1>1. ASSUME \A u \in Task : In(u) <=> lock' = u PROVE OneAtATime'
    BY <1>1 DEF OneAtATime
  <1>2. ASSUME NEW t \in Task, TaskStep(t) PROVE OneAtATime'
    <2>1. CASE lock' = lock /\ ~At(t) /\ \A u \in Task : In(u) <=> (IF u = t THEN FALSE ELSE At(u))
      BY <2>1, <1>0, <1>1
    <2>2. CASE lock = None /\ lock' = t /\ \A u \in Task : In(u) <=> (IF u = t THEN TRUE ELSE At(u))
      BY <2>2, <1>0, <1>1, Elsewhere
    <2>3. CASE At(t) /\ lock' = None /\ \A u \in Task : In(u) <=> (IF u = t THEN FALSE ELSE At(u))
      BY <2>3, <1>0, <1>1, Elsewhere
    <2> HIDE DEF At, In
    <2>4. ASSUME NEW l \in Label \ {"dial", "dropping"}, Goto(t, l) PROVE \A u \in Task : In(u) <=> (IF u = t THEN FALSE ELSE At(u))
      BY <2>4, Goto_At DEF At, In
    <2>5. ASSUME NEW rec, rec.pc \notin {"dial", "dropping"}, Step(t, rec) PROVE \A u \in Task : In(u) <=> (IF u = t THEN FALSE ELSE At(u))
      BY <2>5, Step_At DEF At, In
    <2>6. ASSUME NEW rec, rec.pc \in {"dial", "dropping"}, Step(t, rec) PROVE \A u \in Task : In(u) <=> (IF u = t THEN TRUE ELSE At(u))
      BY <2>6, Step_At DEF At, In
    <2>7. CASE Reuse(t) \/ DropNothing(t)
      <3>1. PICK rec : rec.pc \notin {"dial", "dropping"} /\ Step(t, rec)
        BY <2>7, Elsewhere, TaskShape DEF Reuse, DropNothing, TypeOK
      <3> QED BY <2>7, <2>1, <2>5, <3>1 DEF Reuse, DropNothing, At
    <2>8. CASE Dial(t) \/ DropBegin(t)
      <3>1. task[t] \in TaskRec
        BY TaskShape DEF Inv
      <3>2. ASSUME NEW l, NEW c PROVE [task[t] EXCEPT !.pc = l, !.got[task[t].role] = c].pc = l
        BY <3>1 DEF TaskRec
      <3>3. PICK l \in {"dial", "dropping"} : \E c : Step(t, [task[t] EXCEPT !.pc = l, !.got[task[t].role] = c])
        BY <2>8 DEF Dial, DropBegin
      <3>4. PICK c : Step(t, [task[t] EXCEPT !.pc = l, !.got[task[t].role] = c])
        BY <3>3
      <3>5. lock = None /\ lock' = t
        BY <2>8 DEF Dial, DropBegin
      <3> DEFINE rec == [task[t] EXCEPT !.pc = l, !.got[task[t].role] = c]
      <3>6. rec.pc \in {"dial", "dropping"} /\ Step(t, rec)
        BY <3>2, <3>4
      <3> HIDE DEF rec
      <3>7. \A u \in Task : In(u) <=> (IF u = t THEN TRUE ELSE At(u))
        BY <2>6, <3>6
      <3> QED BY <2>2, <3>5, <3>7
    <2>9. CASE DialOk(t) \/ DialErr(t) \/ DropEnd(t)
      <3>1. PICK rec : rec.pc \notin {"dial", "dropping"} /\ Step(t, rec)
        BY <2>9, Elsewhere, TaskShape DEF DialOk, DialErr, DropEnd, Ref
      <3> QED BY <2>9, <2>3, <2>5, <3>1 DEF DialOk, DialErr, DropEnd, At
    <2>10. CASE EndWork(t) \/ Publish(t) \/ Fail(t)
      <3>1. Step(t, Idle) /\ ~At(t) /\ UNCHANGED lock
        BY <2>10 DEF EndWork, Publish, Fail, Worked, At
      <3> QED BY <2>1, <2>5, <3>1, Elsewhere
    <2>11. CASE Restore(t) \/ BeginTerminal(t) \/ EndTerminal(t)
      <3>1. ~At(t) /\ UNCHANGED lock
        BY <2>11 DEF Restore, BeginTerminal, EndTerminal, At
      <3>2. Step(t, Idle) \/ Goto(t, "list") \/ Goto(t, "restore") \/ Goto(t, "opening")
        BY <2>11 DEF Restore, BeginTerminal, EndTerminal
      <3> QED BY <2>1, <2>4, <2>5, <3>1, <3>2, Elsewhere DEF Label
    <2>12. CASE BeginWork(t) \/ FtpCheck(t) \/ FtpDialOk(t) \/ FtpRegister(t)
      <3>1. ~At(t) /\ UNCHANGED lock
        BY <2>12 DEF BeginWork, FtpCheck, FtpDialOk, FtpRegister, At
      <3>2. PICK l \in Label \ {"dial", "dropping"} : Goto(t, l)
        BY <2>12 DEF BeginWork, FtpCheck, FtpDialOk, FtpRegister, Label
      <3> QED BY <2>1, <2>4, <3>1, <3>2
    <2>13. CASE FtpGet(t) \/ FtpDialErr(t)
      <3>1. ~At(t) /\ UNCHANGED lock
        BY <2>13 DEF FtpGet, FtpDialErr, At
      <3>2. PICK rec : rec.pc \notin {"dial", "dropping"} /\ Step(t, rec)
        BY <2>13, TaskShape DEF FtpGet, FtpDialErr, Idle, TaskRec, Inv
      <3> QED BY <2>1, <2>5, <3>1, <3>2
    <2> QED BY <1>2, <2>7, <2>8, <2>9, <2>10, <2>11, <2>12, <2>13 DEF TaskStep, PoolStep, WorkStep, FtpStep
  <1>3. ASSUME NEW s \in Sid, UserStep(s) PROVE OneAtATime'
    <2> /\ <<s, "open">> \in Task /\ <<s, "close">> \in Task /\ <<s, "use">> \in Task
      BY DEF Task
    <2>1. lock' = lock
      BY <1>3 DEF UserStep, OpenSession, CloseSession, UseTerminal, UseFiles
    <2>2. CASE UNCHANGED task
      BY <2>1, <2>2, <1>0, <1>1
    <2>3. ASSUME NEW t \in Task, NEW rec, rec.pc \notin {"dial", "dropping"}, ~At(t), Step(t, rec) PROVE OneAtATime'
      BY <2>1, <2>3, <1>0, <1>1, Step_At
    <2>4. CASE OpenSession(s)
      <3>1. PICK rec \in {[Idle EXCEPT !.pc = "get", !.goal = "open", !.role = "Terminal"],
                          [Idle EXCEPT !.pc = "ftpGet", !.goal = "open"]} : Step(<<s, "open">>, rec)
        BY <2>4 DEF OpenSession
      <3>3. rec.pc \notin {"dial", "dropping"}
        BY DEF Idle
      <3>2. ~At(<<s, "open">>)
        BY <2>4 DEF OpenSession, Inv, Started
      <3> QED BY <2>3, <3>1, <3>2, <3>3
    <2>5. CASE CloseSession(s)
      <3>1. Step(<<s, "close">>, [Idle EXCEPT !.pc = "drop", !.goal = "close", !.role = "Terminal"]) \/ UNCHANGED task
        BY <2>5 DEF CloseSession
      <3>2. ~At(<<s, "close">>)
        BY <2>5 DEF CloseSession, Open, Inv, Started
      <3>3. [Idle EXCEPT !.pc = "drop", !.goal = "close", !.role = "Terminal"].pc \notin {"dial", "dropping"}
        BY DEF Idle
      <3> QED BY <2>2, <2>3, <3>1, <3>2, <3>3
    <2>6. CASE UseTerminal(s)
      <3> DEFINE rec == [Idle EXCEPT !.pc = "get", !.goal = "terminal", !.role = "Terminal"]
      <3>1. Step(<<s, "use">>, rec)
        BY <2>6 DEF UseTerminal
      <3>3. rec.pc \notin {"dial", "dropping"}
        BY DEF Idle
      <3>2. ~At(<<s, "use">>)
        BY <2>6 DEF UseTerminal
      <3> QED BY <2>3, <3>1, <3>2, <3>3
    <2>7. ASSUME NEW goal \in {"sftp", "shared"}, UseFiles(s, goal) PROVE OneAtATime'
      <3>1. PICK rec \in {[Idle EXCEPT !.pc = "list", !.goal = goal, !.got["Sftp"] = proto[s]["Sftp"]],
                          [Idle EXCEPT !.pc = "get", !.goal = goal]} : Step(<<s, "use">>, rec)
        BY <2>7 DEF UseFiles
      <3>3. rec.pc \notin {"dial", "dropping"}
        BY DEF Idle
      <3>2. ~At(<<s, "use">>)
        BY <2>7 DEF UseFiles
      <3> QED BY <2>3, <3>1, <3>2, <3>3
    <2> QED BY <1>3, <2>4, <2>5, <2>6, <2>7 DEF UserStep
  <1>4. ASSUME UNCHANGED <<lock, task>> PROVE OneAtATime'
    BY <1>4 DEF OneAtATime
  <1>5. CASE Deliver \/ Shutdown \/ UNCHANGED vars
    BY <1>4, <1>5 DEF Deliver, Shutdown, ShutdownBegin, ShutdownTake, ShutdownDrop, ShutdownEnd, vars
  <1>6. ASSUME NEW c \in Conn, ConnStep(c) PROVE OneAtATime'
    BY <1>4, <1>6 DEF ConnStep, ServerDrops, HandlerEnds, ArcDropped
  <1> QED BY <1>2, <1>3, <1>5, <1>6 DEF Next, Rest

LEMMA StartedStep == ASSUME SessionsAssumption, Inv, [Next]_vars PROVE Started'
  <1> TypeOK /\ Started
    BY DEF Inv
  <1> DEFINE Kept(s) == /\ status[s] # "new" => status'[s] # "new"
                        /\ status[s] = "closed" => status'[s] = "closed"
  <1> \A s \in Sid : /\ <<s, "open">> \in Task /\ <<s, "close">> \in Task /\ <<s, "use">> \in Task
    BY DEF Task
  <1>1. ASSUME NEW t \in Task, TaskStep(t) PROVE Started'
    <2>1. t[1] \in Sid /\ task[t].pc # "idle"
      BY <1>1, TaskShape DEF TaskStep, PoolStep, WorkStep, FtpStep, Reuse, Dial, DialOk, DialErr,
         DropNothing, DropBegin, DropEnd, BeginTerminal, EndTerminal, BeginWork, EndWork, Publish, Worked,
         Fail, Restore, FtpGet, FtpCheck, FtpDialOk, FtpDialErr, FtpRegister
    <2>2. UNCHANGED status \/ Set(t[1], "connected") \/ Set(t[1], "failed")
      BY <1>1 DEF TaskStep, PoolStep, WorkStep, FtpStep, Reuse, Dial, DialOk, DialErr,
         DropNothing, DropBegin, DropEnd, BeginTerminal, EndTerminal, BeginWork, EndWork, Publish,
         Fail, Restore, FtpGet, FtpCheck, FtpDialOk, FtpDialErr, FtpRegister
    <2>3. \A s \in Sid : (status'[s] = "new" <=> status[s] = "new") /\ (status'[s] = "closed" <=> status[s] = "closed")
      BY <2>1, <2>2 DEF Set, Open, TypeOK
    <2>4. PICK rec : Step(t, rec)
      BY <1>1 DEF TaskStep, PoolStep, WorkStep, FtpStep, Reuse, Dial, DialOk, DialErr,
         DropNothing, DropBegin, DropEnd, BeginTerminal, EndTerminal, BeginWork, EndWork, Publish, Worked,
         Fail, Restore, FtpGet, FtpCheck, FtpDialOk, FtpDialErr, FtpRegister, Goto
    <2>5. \A u \in Task : u # t => task'[u] = task[u]
      BY <2>4, Step_At
    <2> t = <<t[1], t[2]>> /\ t[1] \in Sid
      BY TaskShape
    <2>6. t[2] = "open" => status[t[1]] # "new"
      <3>1. status[t[1]] = "new" => task[<<t[1], "open">>].pc = "idle"
        BY DEF Started
      <3> QED BY <2>1, <3>1
    <2>7. t[2] = "close" => status[t[1]] = "closed"
      <3>1. status[t[1]] # "closed" => task[<<t[1], "close">>].pc = "idle"
        BY DEF Started
      <3> QED BY <2>1, <3>1
    <2> SUFFICES ASSUME NEW s \in Sid
                 PROVE /\ status'[s] = "new" => task'[<<s, "open">>].pc = "idle"
                       /\ status'[s] # "closed" => task'[<<s, "close">>].pc = "idle"
      BY DEF Started
    <2>8. status'[s] = "new" => <<s, "open">> # t
      BY <2>3, <2>6
    <2>9. status'[s] # "closed" => <<s, "close">> # t
      BY <2>3, <2>7
    <2> QED BY <2>3, <2>5, <2>8, <2>9 DEF Started
  <1>2. ASSUME NEW s \in Sid, UserStep(s) PROVE Started'
    <2>1. CASE OpenSession(s)
      <3>1. \E rec : Step(<<s, "open">>, rec)
        BY <2>1 DEF OpenSession
      <3>2. \A u \in Task : u # <<s, "open">> => task'[u] = task[u]
        BY <3>1, Step_At
      <3>3. \A o \in Sid : status'[o] = IF o = s THEN "connecting" ELSE status[o]
        BY <2>1 DEF OpenSession, TypeOK
      <3>4. status[s] = "new"
        BY <2>1 DEF OpenSession
      <3> QED BY <3>2, <3>3, <3>4 DEF Started
    <2>2. CASE CloseSession(s)
      <3>1. (\E rec : Step(<<s, "close">>, rec)) \/ UNCHANGED task
        BY <2>2 DEF CloseSession
      <3>2. \A o \in Sid : task'[<<o, "open">>] = task[<<o, "open">>] /\ (o # s => task'[<<o, "close">>] = task[<<o, "close">>])
        BY <3>1, Step_At
      <3> QED BY <2>2, <3>2 DEF CloseSession, Started, TypeOK
    <2>3. ASSUME NEW rec, Step(<<s, "use">>, rec), UNCHANGED status PROVE Started'
      <3>1. \A u \in Task : u # <<s, "use">> => task'[u] = task[u]
        BY <2>3, Step_At
      <3>2. \A o \in Sid : /\ <<o, "open">> \in Task /\ <<o, "open">> # <<s, "use">>
                           /\ <<o, "close">> \in Task /\ <<o, "close">> # <<s, "use">>
        BY DEF Task
      <3> QED BY <2>3, <3>1, <3>2 DEF Started
    <2> QED BY <1>2, <2>1, <2>2, <2>3 DEF UserStep, UseTerminal, UseFiles
  <1>3. ASSUME UNCHANGED task, \A s \in Sid : (status'[s] = "new" => status[s] = "new") /\ (status[s] = "closed" => status'[s] = "closed")
        PROVE Started'
    BY <1>3 DEF Started
  <1>4. CASE Deliver
    BY <1>3, <1>4 DEF Deliver, Affected, TypeOK
  <1>5. CASE Shutdown \/ UNCHANGED vars
    BY <1>3, <1>5 DEF Shutdown, ShutdownBegin, ShutdownTake, ShutdownDrop, ShutdownEnd, vars, Open
  <1>6. ASSUME NEW c \in Conn, ConnStep(c) PROVE Started'
    BY <1>3, <1>6 DEF ConnStep, ServerDrops, HandlerEnds, ArcDropped
  <1> QED BY <1>1, <1>2, <1>4, <1>5, <1>6 DEF Next, Rest

-----------------------------------------------------------------------------
\* The key of a connection in use never changes, so a step only has to get
\* the references it makes right.
KeyKept == \A c \in Conn : Referenced(c) => key'[c] = key[c]

LEMMA KeyKeptStep == ASSUME SessionsAssumption, Inv, [Next]_vars PROVE KeyKept
  <1> key \in [Conn -> Key \union {None}]
    BY DEF Inv, TypeOK, ConnsOK
  <1>1. ASSUME NEW c \in Conn, NEW k, Create(c, k) PROVE KeyKept
    BY <1>1 DEF Create, Fresh, KeyKept
  <1>2. CASE UNCHANGED key
    BY <1>2 DEF KeyKept
  <1>3. CASE \E t \in Task : TaskStep(t)
    <2>1. (\E c \in Conn, k \in Key : Create(c, k)) \/ UNCHANGED key
      BY <1>3, TaskShape DEF TaskStep, PoolStep, WorkStep, FtpStep, Reuse, Dial, DialOk, DialErr,
         DropNothing, DropBegin, DropEnd, BeginTerminal, EndTerminal, BeginWork, EndWork, Publish, Worked,
         Fail, Restore, FtpGet, FtpCheck, FtpDialOk, FtpDialErr, FtpRegister, Drop, conns, Inv
    <2> QED BY <2>1, <1>1, <1>2
  <1>4. CASE \/ \E s \in Sid : UserStep(s)
             \/ \E c \in Conn : ConnStep(c)
             \/ Deliver \/ Shutdown \/ UNCHANGED vars
    BY <1>2, <1>4 DEF UserStep, OpenSession, CloseSession, UseTerminal, UseFiles, ConnStep, ServerDrops,
       HandlerEnds, ArcDropped, Drop, Deliver, Shutdown, ShutdownBegin, ShutdownTake, ShutdownDrop,
       ShutdownEnd, conns, vars
  <1> QED BY <1>3, <1>4 DEF Next, Rest

LEMMA Pool_Kept ==
    ASSUME TypeOK, PoolKeyed, KeyKept, \A k \in Key : pool'[k] \in {pool[k], None}
    PROVE PoolKeyed'
  <1>1. \A k \in Key : pool[k] # None => pool[k] \in Conn /\ Referenced(pool[k])
    BY DEF TypeOK, Ref, Referenced
  <1> QED BY <1>1 DEF PoolKeyed, KeyKept

LEMMA Pool_Put ==
    ASSUME TypeOK, PoolKeyed, KeyKept, NEW k \in Key, NEW c,
           pool' = [pool EXCEPT ![k] = c], key'[c] = k, k = PoolKey(k[1], k[2])
    PROVE PoolKeyed'
  <1>1. \A l \in Key : pool[l] # None => pool[l] \in Conn /\ Referenced(pool[l])
    BY DEF TypeOK, Ref, Referenced
  <1>2. \A l \in Key : pool'[l] = IF l = k THEN c ELSE pool[l]
    BY DEF TypeOK
  <1> QED BY <1>1, <1>2 DEF PoolKeyed, KeyKept

LEMMA Proto_Kept ==
    ASSUME TypeOK, ProtoKeyed, KeyKept, \A s \in Sid, r \in Role : proto'[s][r] \in {proto[s][r], None}
    PROVE ProtoKeyed'
  <1>1. \A s \in Sid, r \in Role : proto[s][r] # None => proto[s][r] \in Conn /\ Referenced(proto[s][r])
    BY DEF TypeOK, Ref, Referenced
  <1> QED BY <1>1 DEF ProtoKeyed, KeyKept

LEMMA Proto_Patch ==
    ASSUME TypeOK, ProtoKeyed, KeyKept, NEW s \in Sid, NEW q \in Role, NEW c,
           Patch(s, q, c), c # None => key'[c] = PoolKey(ProfileOf[s], q)
    PROVE ProtoKeyed'
  <1>1. \A o \in Sid, r \in Role : proto[o][r] # None => proto[o][r] \in Conn /\ Referenced(proto[o][r])
    BY DEF TypeOK, Ref, Referenced
  <1>2. \A o \in Sid, r \in Role : proto'[o][r] \in {proto[o][r]} \union (IF o = s /\ r = q THEN {c} ELSE {})
    BY DEF TypeOK, Patch
  <1> QED BY <1>1, <1>2 DEF ProtoKeyed, KeyKept

LEMMA Task_Step ==
    ASSUME SessionsAssumption, TypeOK, TaskKeyed, KeyKept, NEW t \in Task, NEW rec, Step(t, rec),
           \A r \in Role : rec.got[r] # None => key'[rec.got[r]] = PoolKey(P(t), r)
    PROVE TaskKeyed'
  <1>1. \A u \in Task, r \in Role : task[u].got[r] # None => task[u].got[r] \in Conn /\ Referenced(task[u].got[r])
    BY DEF TypeOK, TaskRec, Ref, Referenced
  <1>2. \A u \in Task : task'[u] = IF u = t THEN rec ELSE task[u]
    BY Step_At
  <1> QED BY <1>1, <1>2 DEF TaskKeyed, KeyKept, P

LEMMA Task_Goto ==
    ASSUME SessionsAssumption, TypeOK, TaskKeyed, KeyKept, NEW t \in Task, NEW l, Goto(t, l) \/ UNCHANGED task
    PROVE TaskKeyed'
  <1>1. \A u \in Task, r \in Role : task[u].got[r] # None => task[u].got[r] \in Conn /\ Referenced(task[u].got[r])
    BY DEF TypeOK, TaskRec, Ref, Referenced
  <1>2. \A u \in Task : task'[u].got = task[u].got
    BY Goto_At
  <1> QED BY <1>1, <1>2 DEF TaskKeyed, KeyKept, P

\* What a task holds after the pool answered it, and when it lets go.
LEMMA Gots ==
    ASSUME SessionsAssumption, TypeOK, NEW t \in Task
    PROVE /\ \A r \in Role : Idle.got[r] = None
          /\ \A r \in Role : NextDrop(t).got[r] = None
          /\ \A c \in Ref, r \in Role :
                Answered(t, c).got[r] \in {None, IF r = task[t].role THEN c ELSE task[t].got[r]}
  <1>1. task[t] \in TaskRec
    BY TaskShape
  <1>2. \A r \in Role : Idle.got[r] = None
    BY DEF Idle, NoConns
  <1>3. \A r \in Role : NextDrop(t).got[r] = None
    BY <1>1 DEF NextDrop, TaskRec, Idle, NoConns
  <1>4. ASSUME NEW c \in Ref, NEW r \in Role
        PROVE Answered(t, c).got[r] \in {None, IF r = task[t].role THEN c ELSE task[t].got[r]}
    BY <1>1, <1>2 DEF Answered, TaskRec, Idle, NoConns
  <1> QED BY <1>2, <1>3, <1>4

LEMMA Held ==
    ASSUME SessionsAssumption, TypeOK, TaskKeyed, KeyKept, NEW t \in Task, NEW r \in Role, task[t].got[r] # None
    PROVE key'[task[t].got[r]] = PoolKey(P(t), r)
  <1>1. task[t].got[r] \in Conn /\ Referenced(task[t].got[r])
    BY DEF TypeOK, TaskRec, Ref, Referenced
  <1> QED BY <1>1 DEF TaskKeyed, KeyKept

LEMMA Task_Hold ==
    ASSUME SessionsAssumption, TypeOK, TaskKeyed, KeyKept, NEW t \in Task, NEW l, NEW q \in Role, NEW c,
           Step(t, [task[t] EXCEPT !.pc = l, !.got[q] = c]), key'[c] = PoolKey(P(t), q)
    PROVE TaskKeyed'
  <1> DEFINE rec == [task[t] EXCEPT !.pc = l, !.got[q] = c]
  <1>1. \A r \in Role : rec.got[r] = IF r = q THEN c ELSE task[t].got[r]
    BY TaskShape DEF TaskRec
  <1>2. Step(t, rec)
    OBVIOUS
  <1> HIDE DEF rec
  <1> QED BY <1>1, <1>2, Held, Task_Step

LEMMA KeyedStep == ASSUME SessionsAssumption, Inv, [Next]_vars PROVE Keyed'
  <1> TypeOK /\ GoalOK /\ PoolKeyed /\ ProtoKeyed /\ TaskKeyed /\ KeyKept
    BY KeyKeptStep DEF Inv, Keyed
  <1>0. /\ UNCHANGED pool => PoolKeyed'
        /\ UNCHANGED proto => ProtoKeyed'
        /\ UNCHANGED task => TaskKeyed'
    <2>1. \A u \in Task, r \in Role : task[u].got[r] # None => task[u].got[r] \in Conn /\ Referenced(task[u].got[r])
      BY DEF TypeOK, TaskRec, Ref, Referenced
    <2>2. UNCHANGED task => TaskKeyed'
      BY <2>1 DEF TaskKeyed, KeyKept, P
    <2> QED BY <2>2, Pool_Kept, Proto_Kept
  <1>1. ASSUME NEW t \in Task, PoolStep(t) PROVE Keyed'
    <2>1. CASE Reuse(t)
      <3> DEFINE c == pool[KeyOf(t)]
      <3>1. c \in Conn /\ Referenced(c) /\ key[c] = KeyOf(t) /\ Step(t, Answered(t, c))
        BY <2>1, TaskShape DEF Reuse, TypeOK, Ref, Referenced, PoolKeyed
      <3>2. key'[c] = PoolKey(P(t), task[t].role) /\ c \in Ref
        BY <3>1 DEF KeyKept, KeyOf, Ref
      <3> HIDE DEF c
      <3>3. TaskKeyed'
        BY <3>1, <3>2, Gots, Held, Task_Step
      <3> QED BY <2>1, <3>3, <1>0 DEF Reuse, Keyed
    <2>2. CASE Dial(t)
      <3>1. PICK c \in Conn : Create(c, KeyOf(t)) /\ Step(t, [task[t] EXCEPT !.pc = "dial", !.got[task[t].role] = c])
        BY <2>2 DEF Dial
      <3>2. key'[c] = PoolKey(P(t), task[t].role)
        BY <3>1 DEF Create, KeyOf, TypeOK, ConnsOK
      <3>3. TaskKeyed'
        BY <3>1, <3>2, TaskShape, Task_Hold
      <3>4. PoolKeyed'
        BY <2>2, Pool_Kept DEF Dial, TypeOK
      <3> QED BY <2>2, <3>3, <3>4, <1>0 DEF Dial, Keyed
    <2>3. CASE DialOk(t)
      <3>1. Got(t) # None /\ Got(t) \in Ref /\ task[t].role \in Role
        BY <2>3, TaskShape DEF DialOk, GoalOK, PlaceOK, Got, Holding
      <3>2. key'[Got(t)] = PoolKey(P(t), task[t].role)
        BY <3>1, Held DEF Got
      <3>3. TaskKeyed'
        BY <2>3, <3>1, <3>2, Gots, Held, Task_Step DEF DialOk
      <3>4. KeyOf(t) = PoolKey(KeyOf(t)[1], KeyOf(t)[2])
        BY DEF KeyOf, PoolKey
      <3>5. PoolKeyed'
        BY <2>3, <3>2, <3>4, TaskShape, Pool_Put DEF DialOk, KeyOf
      <3> QED BY <2>3, <3>3, <3>5, <1>0 DEF DialOk, Keyed
    <2>4. CASE DialErr(t)
      <3>1. TaskKeyed'
        BY <2>4, Gots, Held, Task_Step DEF DialErr, Ref
      <3> QED BY <2>4, <3>1, <1>0 DEF DialErr, Keyed
    <2>5. CASE DropNothing(t) \/ DropEnd(t)
      <3>1. TaskKeyed'
        BY <2>5, Gots, Task_Step DEF DropNothing, DropEnd
      <3> QED BY <2>5, <3>1, <1>0 DEF DropNothing, DropEnd, Keyed
    <2>6. CASE DropBegin(t)
      <3> DEFINE k == <<P(t), task[t].role>>
                 c == pool[k]
      <3>1. k \in Key /\ c \in Conn /\ Referenced(c) /\ key[c] = k /\ k = PoolKey(P(t), task[t].role)
        BY <2>6, TaskShape DEF DropBegin, TypeOK, Key, Ref, Referenced, PoolKeyed
      <3>2. key'[c] = PoolKey(P(t), task[t].role)
        BY <3>1 DEF KeyKept
      <3>3. Step(t, [task[t] EXCEPT !.pc = "dropping", !.got[task[t].role] = c])
        BY <2>6 DEF DropBegin
      <3> HIDE DEF c, k
      <3>4. TaskKeyed'
        BY <3>2, <3>3, TaskShape, Task_Hold
      <3>5. PoolKeyed'
        BY <2>6, Pool_Kept DEF DropBegin, TypeOK
      <3> QED BY <2>6, <3>4, <3>5, <1>0 DEF DropBegin, Keyed
    <2> QED BY <1>1, <2>1, <2>2, <2>3, <2>4, <2>5, <2>6 DEF PoolStep
  <1>2. ASSUME NEW t \in Task, WorkStep(t) PROVE Keyed'
    <2>1. PoolKeyed'
      BY <1>2, <1>0 DEF WorkStep, BeginTerminal, EndTerminal, BeginWork, EndWork, Publish, Worked, Fail, Restore
    <2>2. (\E l : Goto(t, l)) \/ Step(t, Idle)
      BY <1>2 DEF WorkStep, BeginTerminal, EndTerminal, BeginWork, EndWork, Publish, Worked, Fail, Restore
    <2>3. TaskKeyed'
      BY <2>2, Task_Goto, Task_Step, Gots
    <2>4. CASE UNCHANGED proto
      BY <2>1, <2>3, <2>4, <1>0 DEF Keyed
    <2>5. ASSUME NEW r \in Role, Patch(t[1], r, task[t].got[r]) PROVE ProtoKeyed'
      BY <2>5, TaskShape, Held, Proto_Patch DEF P
    <2>6. CASE Publish(t)
      <3>1. ASSUME NEW r \in Role PROVE PoolKey(P(t), r) = PoolKey(P(t), "Sftp") \/ P(t) \in Ssh
        BY DEF PoolKey
      <3> DEFINE both(r) == IF P(t) \in Ssh THEN task[t].got[r] ELSE task[t].got["Sftp"]
      <3>2. \A r \in Role : both(r) # None => key'[both(r)] = PoolKey(P(t), r)
        BY <3>1, Held DEF Role
      <3>3. \A o \in Sid, r \in Role : proto'[o][r] = proto[o][r] \/ (o = t[1] /\ proto'[o][r] = both(r))
        BY <2>6, TaskShape DEF Publish, TypeOK, TaskRec, Role
      <3>4. \A o \in Sid, r \in Role : proto[o][r] # None => proto[o][r] \in Conn /\ Referenced(proto[o][r])
        BY DEF TypeOK, Ref, Referenced
      <3> HIDE DEF both
      <3>5. ProtoKeyed'
        BY <3>2, <3>3, <3>4 DEF ProtoKeyed, KeyKept, P
      <3> QED BY <2>1, <2>3, <3>5 DEF Keyed
    <2> QED BY <1>2, <2>1, <2>3, <2>4, <2>5, <2>6, TaskShape DEF WorkStep, BeginTerminal, EndTerminal, BeginWork, EndWork, Fail, Restore, Keyed, Got, Role
  <1>3. ASSUME NEW t \in Task, FtpStep(t) PROVE Keyed'
    <2>1. P(t) \notin Ssh /\ task[t].role = "Sftp" /\ KeyOf(t) = PoolKey(P(t), "Sftp") /\ PoolKey(P(t), "Terminal") = KeyOf(t)
      BY <1>3 DEF FtpStep, FtpGet, FtpCheck, FtpDialOk, FtpDialErr, FtpRegister, GoalOK, PlaceOK, Ftp, KeyOf, PoolKey
    <2>2. CASE FtpGet(t)
      <3>1. PICK d \in Conn : /\ key'[d] = KeyOf(t)
                              /\ Step(t, [task[t] EXCEPT !.pc = "ftpCheck", !.got["Sftp"] = d])
        <4> DEFINE c == pool[KeyOf(t)]
                   use(d) == Step(t, [task[t] EXCEPT !.pc = "ftpCheck", !.got["Sftp"] = d])
        <4>1. (c # None /\ use(c)) \/ \E d \in Conn : Create(d, KeyOf(t)) /\ use(d)
          BY <2>2 DEF FtpGet
        <4>2. c # None => c \in Conn /\ Referenced(c) /\ key[c] = KeyOf(t)
          BY TaskShape DEF TypeOK, Ref, Referenced, PoolKeyed
        <4>3. \A d \in Conn : Create(d, KeyOf(t)) => key'[d] = KeyOf(t)
          BY DEF Create, TypeOK, ConnsOK
        <4> HIDE DEF c, use
        <4>4. \E d \in Conn : key'[d] = KeyOf(t) /\ use(d)
          BY <4>1, <4>2, <4>3 DEF KeyKept
        <4> QED BY <4>4 DEF use
      <3>2. TaskKeyed'
        BY <2>1, <3>1, Task_Hold DEF Role
      <3> QED BY <2>2, <3>2, <1>0 DEF FtpGet, Keyed
    <2>3. CASE FtpCheck(t)
      <3>1. TaskKeyed' /\ PoolKeyed'
        BY <2>3, <1>0, Task_Goto DEF FtpCheck
      <3>2. Got(t) # None => key'[Got(t)] = PoolKey(ProfileOf[t[1]], "Terminal")
        BY <2>1, Held DEF Got, P, Role
      <3>3. ProtoKeyed'
        BY <2>3, <3>2, TaskShape, Proto_Patch DEF FtpCheck, Role
      <3> QED BY <3>1, <3>3 DEF Keyed
    <2>4. CASE FtpDialOk(t)
      BY <2>4, <1>0, Task_Goto DEF FtpDialOk, Keyed
    <2>5. CASE FtpDialErr(t)
      <3>1. TaskKeyed'
        <4> DEFINE rec == [Idle EXCEPT !.pc = "drop", !.goal = "open", !.role = "Terminal"]
        <4>1. Step(t, rec)
          BY <2>5 DEF FtpDialErr
        <4>2. \A r \in Role : rec.got[r] = None
          BY DEF Idle, NoConns
        <4> HIDE DEF rec
        <4> QED BY <4>1, <4>2, Task_Step
      <3> QED BY <2>5, <3>1, <1>0 DEF FtpDialErr, Keyed
    <2>6. CASE FtpRegister(t)
      <3>1. Got(t) # None /\ task[t].role \in Role
        BY <2>6, TaskShape DEF FtpRegister, GoalOK, PlaceOK, Got, Holding
      <3>2. key'[Got(t)] = KeyOf(t)
        BY <2>1, <3>1, Held DEF Got
      <3>3. KeyOf(t) = PoolKey(KeyOf(t)[1], KeyOf(t)[2])
        BY DEF KeyOf, PoolKey
      <3>4. PoolKeyed'
        BY <2>6, <3>2, <3>3, TaskShape, Pool_Put DEF FtpRegister
      <3> QED BY <2>6, <3>4, <1>0, Task_Goto DEF FtpRegister, Keyed
    <2> QED BY <1>3, <2>2, <2>3, <2>4, <2>5, <2>6 DEF FtpStep
  <1>4. ASSUME NEW s \in Sid, UserStep(s) PROVE Keyed'
    <2> /\ <<s, "open">> \in Task /\ <<s, "close">> \in Task /\ <<s, "use">> \in Task
      BY DEF Task
    <2>1. ASSUME NEW t \in Task, NEW rec, Step(t, rec), rec.got = NoConns PROVE TaskKeyed'
      BY <2>1, Task_Step DEF NoConns
    <2>2. CASE OpenSession(s)
      <3>1. TaskKeyed'
        <4>1. PICK rec \in {[Idle EXCEPT !.pc = "get", !.goal = "open", !.role = "Terminal"],
                            [Idle EXCEPT !.pc = "ftpGet", !.goal = "open"]} : Step(<<s, "open">>, rec)
          BY <2>2 DEF OpenSession
        <4>2. rec.got = NoConns
          BY DEF Idle
        <4> QED BY <2>1, <4>1, <4>2
      <3> QED BY <2>2, <3>1, <1>0 DEF OpenSession, Keyed
    <2>3. CASE CloseSession(s)
      <3>1. TaskKeyed'
        <4> DEFINE rec == [Idle EXCEPT !.pc = "drop", !.goal = "close", !.role = "Terminal"]
        <4>1. rec.got = NoConns
          BY DEF Idle
        <4>2. Step(<<s, "close">>, rec) \/ UNCHANGED task
          BY <2>3 DEF CloseSession
        <4> HIDE DEF rec
        <4> QED BY <2>1, <4>1, <4>2, <1>0
      <3>2. ProtoKeyed'
        BY <2>3, Proto_Kept DEF CloseSession, TypeOK, NoConns
      <3> QED BY <2>3, <3>1, <3>2, <1>0 DEF CloseSession, Keyed
    <2>4. CASE UseTerminal(s)
      <3>1. TaskKeyed'
        <4> DEFINE rec == [Idle EXCEPT !.pc = "get", !.goal = "terminal", !.role = "Terminal"]
        <4>1. rec.got = NoConns
          BY DEF Idle
        <4>2. Step(<<s, "use">>, rec)
          BY <2>4 DEF UseTerminal
        <4> HIDE DEF rec
        <4> QED BY <2>1, <4>1, <4>2
      <3> QED BY <2>4, <3>1, <1>0 DEF UseTerminal, Keyed
    <2>5. ASSUME NEW goal \in {"sftp", "shared"}, UseFiles(s, goal) PROVE Keyed'
      <3> DEFINE c == proto[s]["Sftp"]
                 list == [Idle EXCEPT !.pc = "list", !.goal = goal, !.got["Sftp"] = c]
                 get == [Idle EXCEPT !.pc = "get", !.goal = goal]
      <3>1. c # None => key'[c] = PoolKey(P(<<s, "use">>), "Sftp")
        BY DEF TypeOK, Role, Ref, Referenced, ProtoKeyed, KeyKept, P
      <3>2. list.got["Sftp"] = c /\ list.got["Terminal"] = None /\ get.got = NoConns
        BY DEF Idle, NoConns, Role
      <3>3. Step(<<s, "use">>, list) \/ Step(<<s, "use">>, get)
        BY <2>5 DEF UseFiles
      <3> HIDE DEF list, get
      <3>4. TaskKeyed'
        BY <2>1, <3>1, <3>2, <3>3, Task_Step DEF Role
      <3> QED BY <2>5, <3>4, <1>0 DEF UseFiles, Keyed
    <2> QED BY <1>4, <2>2, <2>3, <2>4, <2>5 DEF UserStep
  <1>5. ASSUME NEW c \in Conn, ConnStep(c) PROVE Keyed'
    BY <1>0, <1>5 DEF ConnStep, ServerDrops, HandlerEnds, ArcDropped, Keyed
  <1>6. CASE Deliver
    <2>1. ProtoKeyed'
      BY <1>6, Proto_Kept DEF Deliver, TypeOK
    <2> QED BY <1>6, <2>1, <1>0 DEF Deliver, Keyed
  <1>7. CASE ShutdownBegin \/ ShutdownEnd \/ UNCHANGED vars
    <2>1. ProtoKeyed'
      BY <1>7, Proto_Kept DEF ShutdownBegin, ShutdownEnd, vars, NoConns
    <2> QED BY <1>7, <2>1, <1>0 DEF ShutdownBegin, ShutdownEnd, vars, Keyed
  <1>8. CASE ShutdownTake \/ \E c \in Conn : ShutdownDrop(c)
    <2>1. PoolKeyed'
      BY <1>8, Pool_Kept DEF ShutdownTake, ShutdownDrop
    <2> QED BY <1>8, <2>1, <1>0 DEF ShutdownTake, ShutdownDrop, Keyed
  <1> QED BY <1>1, <1>2, <1>3, <1>4, <1>5, <1>6, <1>7, <1>8 DEF Next, Rest, TaskStep, Shutdown

-----------------------------------------------------------------------------
\* A task that is neither dialling nor tearing down moves to a place that is
\* neither, and the handles and the pool stay as they are.
LEMMA Handles_Kept ==
    ASSUME SessionsAssumption, Inv, UNCHANGED <<handle, key>>,
           quit'.taken \subseteq quit.taken,
           \A k \in Key : pool'[k] \in {pool[k], None},
           \A t \in Task : task'[t].pc \in {"dial", "dropping"} => task'[t] = task[t]
    PROVE Handles'
  <1>1. HandleKeyed'
    BY DEF Inv, Handles, HandleKeyed
  <1>2. DialsNew'
    BY DEF Inv, Handles, DialsNew, Got, P
  <1>3. DropsUnpooled'
    BY TaskShape DEF Inv, Handles, DropsUnpooled, P, Key
  <1>4. PooledAlive'
    BY DEF Inv, Handles, PooledAlive
  <1> QED BY <1>1, <1>2, <1>3, <1>4 DEF Handles

\* Who holds the lock is the only one to dial or tear down.
LEMMA Alone ==
    ASSUME SessionsAssumption, Inv, NEW t \in Task
    PROVE /\ lock = None => task[t].pc \notin {"dial", "dropping"}
          /\ \A u \in Task : task[t].pc \in {"dial", "dropping"} /\ u # t => task[u].pc \notin {"dial", "dropping"}
  BY DEF Inv, OneAtATime, SessionsAssumption

\* A step that moves a task out of its dial or its teardown leaves none there.
LEMMA AloneAfter ==
    ASSUME SessionsAssumption, Inv, NEW t \in Task, task[t].pc \in {"dial", "dropping"},
           NEW rec, rec.pc \notin {"dial", "dropping"}, Step(t, rec)
    PROVE \A u \in Task : task'[u].pc \notin {"dial", "dropping"}
  BY Alone, Step_At DEF Inv

LEMMA HandlesPoolStep == ASSUME SessionsAssumption, Inv, NEW t \in Task, PoolStep(t) PROVE Handles'
  <1> /\ TypeOK /\ GoalOK /\ PoolKeyed /\ TaskKeyed /\ HandleKeyed /\ DialsNew /\ DropsUnpooled /\ PooledAlive
      /\ task[t] \in TaskRec /\ KeyOf(t) \in Key
    BY TaskShape DEF Inv, Keyed, Handles
  <1>1. CASE Reuse(t) \/ DropNothing(t)
    <2>1. PICK rec : rec.pc \notin {"dial", "dropping"} /\ Step(t, rec)
      BY <1>1, Elsewhere, TaskShape DEF Reuse, DropNothing, TypeOK
    <2>2. \A u \in Task : task'[u].pc \in {"dial", "dropping"} => task'[u] = task[u]
      BY <2>1, Step_At
    <2> QED BY <1>1, <2>2, Handles_Kept DEF Reuse, DropNothing, conns
  <1>2. CASE Dial(t)
    <2>1. PICK c \in Conn : Create(c, KeyOf(t)) /\ Step(t, [task[t] EXCEPT !.pc = "dial", !.got[task[t].role] = c])
      BY <1>2 DEF Dial
    <2>2. /\ handle' = [handle EXCEPT ![c] = "new"] /\ key' = [key EXCEPT ![c] = KeyOf(t)]
          /\ handle[c] = "none" /\ ~Referenced(c) /\ UNCHANGED quit
      BY <1>2, <2>1 DEF Create, Fresh, Dial
    <2>3. \A k \in Key : pool'[k] \in {pool[k], None} /\ pool[k] # c
      BY <1>2, <2>2 DEF Dial, TypeOK, Referenced
    <2>4. HandleKeyed'
      BY <2>2 DEF HandleKeyed, TypeOK, ConnsOK
    <2> DEFINE rec == [task[t] EXCEPT !.pc = "dial", !.got[task[t].role] = c]
    <2>5. rec.pc = "dial" /\ rec.got[rec.role] = c
      BY DEF TaskRec
    <2>6. \A u \in Task : task'[u] = IF u = t THEN rec ELSE task[u]
      BY <2>1, Step_At
    <2>7. \A u \in Task : task[u].pc \notin {"dial", "dropping"}
      BY <1>2, Alone DEF Dial
    <2> HIDE DEF rec
    <2>8. DialsNew'
      BY <2>2, <2>5, <2>6, <2>7 DEF DialsNew, Got, P, Referenced, TypeOK, ConnsOK
    <2>9. DropsUnpooled'
      BY <2>5, <2>6, <2>7 DEF DropsUnpooled
    <2>10. PooledAlive'
      BY <2>2, <2>3 DEF PooledAlive, TypeOK, ConnsOK
    <2> QED BY <2>4, <2>8, <2>9, <2>10 DEF Handles
  <1>3. CASE DialOk(t)
    <2>1. Got(t) \in Conn /\ key[Got(t)] = KeyOf(t) /\ Got(t) \notin quit.taken
      BY <1>3, GotConn, TaskShape DEF DialOk, Holding, TaskKeyed, Got, KeyOf, GoalOK, PlaceOK, DialsNew
    <2>2. \A u \in Task : task'[u].pc \notin {"dial", "dropping"}
      BY <1>3, <2>1, Elsewhere, AloneAfter DEF DialOk, Ref
    <2>3. HandleKeyed'
      BY <1>3, <2>1 DEF DialOk, HandleKeyed, TypeOK, ConnsOK
    <2>4. PooledAlive'
      BY <1>3, <2>1 DEF DialOk, PooledAlive, TypeOK, ConnsOK, Alive
    <2> QED BY <2>2, <2>3, <2>4 DEF Handles, DialsNew, DropsUnpooled
  <1>4. CASE DialErr(t)
    <2>1. Got(t) \in Conn /\ key[Got(t)] = KeyOf(t)
      BY <1>4, GotConn, TaskShape DEF DialErr, Holding, TaskKeyed, Got, KeyOf, GoalOK, PlaceOK
    <2>2. \A u \in Task : task'[u].pc \notin {"dial", "dropping"}
      BY <1>4, Elsewhere, AloneAfter DEF DialErr, Ref
    <2>3. HandleKeyed'
      BY <1>4, <2>1 DEF DialErr, HandleKeyed, TypeOK, ConnsOK
    <2>4. \A k \in Key : k[1] \in Ssh /\ pool[k] # None => pool[k] # Got(t)
      <3> SUFFICES ASSUME NEW k \in Key, k[1] \in Ssh, pool[k] # None, pool[k] = Got(t) PROVE FALSE
        OBVIOUS
      <3>1. k = KeyOf(t)
        BY <2>1 DEF PoolKeyed
      <3>2. P(t) \in Ssh
        BY <3>1 DEF KeyOf, PoolKey
      <3> QED BY <1>4, <3>2 DEF DialErr, DialsNew, PooledAlive, Alive
    <2>5. PooledAlive'
      BY <1>4, <2>1, <2>4 DEF DialErr, PooledAlive, TypeOK, ConnsOK, Ref
    <2> QED BY <2>2, <2>3, <2>5 DEF Handles, DialsNew, DropsUnpooled
  <1>5. CASE DropBegin(t)
    <2> DEFINE k == <<P(t), task[t].role>>
               rec == [task[t] EXCEPT !.pc = "dropping", !.got[task[t].role] = pool[k]]
    <2>1. k \in Key
      BY TaskShape DEF Key
    <2>2. rec.pc = "dropping" /\ rec.role = task[t].role
      BY DEF TaskRec
    <2>3. Step(t, rec)
      BY <1>5 DEF DropBegin
    <2> HIDE DEF rec
    <2>4. \A u \in Task : task'[u] = IF u = t THEN rec ELSE task[u]
      BY <2>3, Step_At
    <2>5. \A u \in Task : task[u].pc \notin {"dial", "dropping"}
      BY <1>5, Alone DEF DropBegin
    <2>6. DialsNew'
      BY <2>2, <2>4, <2>5 DEF DialsNew
    <2>7. pool' = [pool EXCEPT ![k] = None]
      BY <1>5 DEF DropBegin
    <2>8. DropsUnpooled'
      BY <2>1, <2>2, <2>4, <2>5, <2>7 DEF DropsUnpooled, TypeOK, P
    <2>9. HandleKeyed' /\ PooledAlive'
      BY <1>5, <2>7 DEF DropBegin, conns, HandleKeyed, PooledAlive, TypeOK
    <2> QED BY <2>6, <2>8, <2>9 DEF Handles
  <1>6. CASE DropEnd(t)
    <2>1. Got(t) \in Conn /\ key[Got(t)] = KeyOf(t)
      BY <1>6, GotConn, TaskShape DEF DropEnd, Holding, TaskKeyed, Got, KeyOf, GoalOK, PlaceOK
    <2>2. \A u \in Task : task'[u].pc \notin {"dial", "dropping"}
      BY <1>6, Elsewhere, AloneAfter DEF DropEnd
    <2>3. HandleKeyed'
      BY <1>6, <2>1 DEF DropEnd, Drop, Dropped, HandleKeyed, TypeOK, ConnsOK
    <2>4. \A k \in Key : k[1] \in Ssh /\ pool[k] # None => pool[k] # Got(t)
      <3> SUFFICES ASSUME NEW k \in Key, k[1] \in Ssh, pool[k] # None, pool[k] = Got(t) PROVE FALSE
        OBVIOUS
      <3>1. k = KeyOf(t)
        BY <2>1 DEF PoolKeyed
      <3>2. k = <<P(t), task[t].role>>
        BY <3>1 DEF KeyOf, PoolKey
      <3> QED BY <1>6, <3>2 DEF DropEnd, DropsUnpooled
    <2>5. PooledAlive'
      BY <1>6, <2>1, <2>4 DEF DropEnd, Drop, PooledAlive, TypeOK, ConnsOK, Ref
    <2> QED BY <2>2, <2>3, <2>5 DEF Handles, DialsNew, DropsUnpooled
  <1> QED BY <1>1, <1>2, <1>3, <1>4, <1>5, <1>6 DEF PoolStep

\* A connection the pool does not hold and nobody dials may change its handle.
LEMMA Handle_Changed ==
    ASSUME SessionsAssumption, Inv, NEW c \in Conn, NEW h,
           handle' = [handle EXCEPT ![c] = h], UNCHANGED <<key, pool, task>>,
           quit'.taken \subseteq quit.taken,
           h # "none" => key[c] \in Key,
           \A k \in Key : k[1] \in Ssh /\ pool[k] = c => h \in Alive,
           \A t \in Task : task[t].pc = "dial" => Got(t) # c
    PROVE Handles'
  <1>1. HandleKeyed'
    BY DEF Inv, Handles, HandleKeyed, TypeOK, ConnsOK
  <1>2. DialsNew'
    BY GotConn DEF Inv, Handles, DialsNew, Got, P, TypeOK, ConnsOK, Holding
  <1>3. DropsUnpooled'
    BY DEF Inv, Handles, DropsUnpooled, P
  <1>4. PooledAlive'
    BY DEF Inv, Handles, PooledAlive, TypeOK, ConnsOK, Ref
  <1> QED BY <1>1, <1>2, <1>3, <1>4 DEF Handles

LEMMA HandlesWorkStep == ASSUME SessionsAssumption, Inv, NEW t \in Task, WorkStep(t) PROVE Handles'
  <1> TypeOK
    BY DEF Inv
  <1>1. task[t].pc \notin {"dial", "dropping"} /\ UNCHANGED <<pool, handle, key, quit>>
    BY DEF WorkStep, BeginTerminal, EndTerminal, BeginWork, EndWork, Publish, Worked, Fail, Restore, conns
  <1>2. Step(t, Idle) \/ \E l \in Label \ {"dial", "dropping"} : Goto(t, l)
    BY DEF WorkStep, BeginTerminal, EndTerminal, BeginWork, EndWork, Publish, Worked, Fail, Restore, Label
  <1>3. \A u \in Task : task'[u].pc \in {"dial", "dropping"} => task'[u] = task[u]
    <2>1. CASE Step(t, Idle)
      BY <2>1, Step_At, Elsewhere
    <2>2. ASSUME NEW l \in Label \ {"dial", "dropping"}, Goto(t, l)
          PROVE \A u \in Task : task'[u].pc \in {"dial", "dropping"} => task'[u] = task[u]
      <3>1. \A u \in Task : task'[u].pc = IF u = t THEN l ELSE task[u].pc
        BY <2>2, Goto_At
      <3>2. \A u \in Task : u # t => task'[u] = task[u]
        BY <2>2, Step_At DEF Goto
      <3> QED BY <3>1, <3>2
    <2> QED BY <1>2, <2>1, <2>2
  <1> QED BY <1>1, <1>3, Handles_Kept

LEMMA HandlesFtpStep == ASSUME SessionsAssumption, Inv, NEW t \in Task, FtpStep(t) PROVE Handles'
  <1> /\ TypeOK /\ GoalOK /\ PoolKeyed /\ TaskKeyed /\ HandleKeyed /\ DialsNew /\ DropsUnpooled /\ PooledAlive
      /\ task[t] \in TaskRec /\ KeyOf(t) \in Key
    BY TaskShape DEF Inv, Keyed, Handles
  <1>0. P(t) \notin Ssh /\ task[t].role = "Sftp" /\ KeyOf(t)[1] = P(t) /\ task[t].pc \notin {"dial", "dropping"}
    BY DEF FtpStep, FtpGet, FtpCheck, FtpDialOk, FtpDialErr, FtpRegister, GoalOK, PlaceOK, Ftp, KeyOf, PoolKey
  <1>1. \A u \in Task : task'[u].pc \in {"dial", "dropping"} => task'[u] = task[u]
    <2>1. CASE FtpGet(t) \/ FtpDialErr(t)
      <3>1. PICK rec : rec.pc \notin {"dial", "dropping"} /\ Step(t, rec)
        BY <2>1, TaskShape DEF FtpGet, FtpDialErr, Idle, TaskRec
      <3> QED BY <3>1, Step_At
    <2>2. CASE FtpCheck(t) \/ FtpDialOk(t) \/ FtpRegister(t)
      <3>1. PICK l \in Label \ {"dial", "dropping"} : Goto(t, l)
        BY <2>2 DEF FtpCheck, FtpDialOk, FtpRegister, Label
      <3>2. \A u \in Task : task'[u].pc = IF u = t THEN l ELSE task[u].pc
        BY <3>1, Goto_At
      <3>3. \A u \in Task : u # t => task'[u] = task[u]
        BY <3>1, Step_At DEF Goto
      <3> QED BY <3>2, <3>3
    <2> QED BY <2>1, <2>2 DEF FtpStep
  <1>2. CASE FtpCheck(t) \/ FtpDialErr(t)
    BY <1>1, <1>2, Handles_Kept DEF FtpCheck, FtpDialErr, conns
  <1>3. CASE FtpGet(t)
    <2>1. UNCHANGED <<pool, quit>>
      BY <1>3 DEF FtpGet
    <2>2. UNCHANGED conns \/ \E d \in Conn : Create(d, KeyOf(t))
      BY <1>3 DEF FtpGet
    <2>3. CASE UNCHANGED conns
      BY <1>1, <2>1, <2>3, Handles_Kept DEF conns
    <2>4. ASSUME NEW d \in Conn, Create(d, KeyOf(t)) PROVE Handles'
      <3>1. /\ handle' = [handle EXCEPT ![d] = "new"] /\ key' = [key EXCEPT ![d] = KeyOf(t)]
            /\ ~Referenced(d)
        BY <2>4 DEF Create, Fresh
      <3>2. HandleKeyed'
        BY <3>1 DEF HandleKeyed, TypeOK, ConnsOK
      <3>3. \A u \in Task : task[u].pc \notin {"dial", "dropping"}
        BY <1>3, Alone DEF FtpGet
      <3>4. \A k \in Key : pool[k] # d
        BY <3>1 DEF Referenced
      <3>5. PooledAlive'
        BY <2>1, <3>1, <3>4 DEF PooledAlive, TypeOK, ConnsOK, Ref
      <3>6. \A u \in Task : task'[u].pc \notin {"dial", "dropping"}
        BY <1>1, <3>3
      <3> QED BY <3>2, <3>5, <3>6 DEF Handles, DialsNew, DropsUnpooled
    <2> QED BY <2>2, <2>3, <2>4
  <1>4. CASE FtpDialOk(t)
    <2>1. Got(t) \in Conn /\ key[Got(t)] = KeyOf(t)
      BY <1>4, GotConn, TaskShape DEF FtpDialOk, Holding, TaskKeyed, Got, KeyOf, GoalOK, PlaceOK
    <2>2. handle' = [handle EXCEPT ![Got(t)] = "up"] /\ UNCHANGED <<key, pool, quit>>
      BY <1>4 DEF FtpDialOk
    <2>3. HandleKeyed'
      BY <2>1, <2>2 DEF HandleKeyed, TypeOK, ConnsOK
    <2>4. PooledAlive'
      BY <2>1, <2>2 DEF PooledAlive, TypeOK, ConnsOK, Alive
    <2>5. DropsUnpooled'
      BY <1>1, <2>2 DEF DropsUnpooled, P
    <2>6. DialsNew'
      <3> SUFFICES ASSUME NEW u \in Task, task'[u].pc = "dial"
                   PROVE Got(u)' \notin quit'.taken /\ (P(u) \in Ssh => handle'[Got(u)'] = "new")
        BY DEF DialsNew, P
      <3>1. task[u].pc = "dial" /\ Got(u)' = Got(u)
        BY <1>1 DEF Got
      <3>2. P(u) \in Ssh => Got(u) # Got(t)
        <4> SUFFICES ASSUME P(u) \in Ssh, Got(u) = Got(t) PROVE FALSE
          OBVIOUS
        <4>1. key[Got(u)] = PoolKey(P(u), task[u].role)
          BY <3>1, TaskShape DEF GoalOK, PlaceOK, Holding, TaskKeyed, Got
        <4> QED BY <4>1, <2>1, <1>0 DEF PoolKey, KeyOf
      <3>3. Got(u) \in Conn
        BY <3>1, GotConn DEF Holding
      <3> QED BY <2>2, <3>1, <3>2, <3>3 DEF DialsNew, TypeOK, ConnsOK
    <2> QED BY <2>3, <2>4, <2>5, <2>6 DEF Handles
  <1>5. CASE FtpRegister(t)
    <2>1. UNCHANGED <<handle, key, quit>> /\ pool' = [pool EXCEPT ![KeyOf(t)] = Got(t)] /\ lock = None
      BY <1>5 DEF FtpRegister, conns
    <2>2. \A u \in Task : task'[u].pc \notin {"dial", "dropping"}
      BY <1>1, <2>1, Alone
    <2>3. HandleKeyed' /\ PooledAlive'
      BY <1>0, <2>1 DEF HandleKeyed, PooledAlive, TypeOK
    <2> QED BY <2>2, <2>3 DEF Handles, DialsNew, DropsUnpooled
  <1> QED BY <1>2, <1>3, <1>4, <1>5 DEF FtpStep

LEMMA HandlesStep == ASSUME SessionsAssumption, Inv, [Next]_vars PROVE Handles'
  <1> TypeOK /\ GoalOK /\ HandleKeyed /\ DialsNew /\ DropsUnpooled /\ PooledAlive
    BY DEF Inv, Handles
  <1>1. ASSUME NEW t \in Task, TaskStep(t) PROVE Handles'
    BY <1>1, HandlesPoolStep, HandlesWorkStep, HandlesFtpStep DEF TaskStep
  <1>2. ASSUME NEW s \in Sid, UserStep(s) PROVE Handles'
    <2> /\ <<s, "open">> \in Task /\ <<s, "close">> \in Task /\ <<s, "use">> \in Task
      BY DEF Task
    <2>1. UNCHANGED <<pool, handle, key, quit>>
      BY <1>2 DEF UserStep, OpenSession, CloseSession, UseTerminal, UseFiles, conns
    <2>2. \/ UNCHANGED task
          \/ \E t \in Task : \E rec : Step(t, rec) /\ rec.pc \notin {"dial", "dropping"}
      <3> DEFINE recs == {[Idle EXCEPT !.pc = "get", !.goal = "open", !.role = "Terminal"],
                          [Idle EXCEPT !.pc = "ftpGet", !.goal = "open"],
                          [Idle EXCEPT !.pc = "drop", !.goal = "close", !.role = "Terminal"],
                          [Idle EXCEPT !.pc = "get", !.goal = "terminal", !.role = "Terminal"]}
      <3>1. \A rec \in recs : rec.pc \notin {"dial", "dropping"}
        BY DEF Idle
      <3>2. \A goal, c : /\ [Idle EXCEPT !.pc = "list", !.goal = goal, !.got["Sftp"] = c].pc = "list"
                         /\ [Idle EXCEPT !.pc = "get", !.goal = goal].pc = "get"
        BY DEF Idle
      <3>3. CASE OpenSession(s) \/ CloseSession(s) \/ UseTerminal(s)
        <4>1. UNCHANGED task \/ \E t \in Task, rec \in recs : Step(t, rec)
          BY <3>3 DEF OpenSession, CloseSession, UseTerminal
        <4> HIDE DEF recs
        <4> QED BY <3>1, <4>1
      <3>4. ASSUME NEW goal, UseFiles(s, goal)
            PROVE \E t \in Task : \E rec : Step(t, rec) /\ rec.pc \notin {"dial", "dropping"}
        <4> DEFINE list == [Idle EXCEPT !.pc = "list", !.goal = goal, !.got["Sftp"] = proto[s]["Sftp"]]
                   get == [Idle EXCEPT !.pc = "get", !.goal = goal]
        <4>1. Step(<<s, "use">>, list) \/ Step(<<s, "use">>, get)
          BY <3>4 DEF UseFiles
        <4>2. list.pc = "list" /\ get.pc = "get"
          BY <3>2
        <4> HIDE DEF list, get
        <4> QED BY <4>1, <4>2
      <3> QED BY <1>2, <3>3, <3>4 DEF UserStep
    <2>3. \A u \in Task : task'[u].pc \in {"dial", "dropping"} => task'[u] = task[u]
      BY <2>2, Step_At
    <2> QED BY <2>1, <2>3, Handles_Kept
  <1>3. ASSUME NEW c \in Conn, ConnStep(c) PROVE Handles'
    <2>0. \A t \in Task : task[t].pc = "dial" => Referenced(Got(t)) /\ key[Got(t)] = KeyOf(t)
      BY GotConn, TaskShape DEF Referenced, Got, Inv, Keyed, TaskKeyed, KeyOf, GoalOK, PlaceOK, Holding
    <2>1. CASE ServerDrops(c)
      <3>1. handle' = [handle EXCEPT ![c] = "lost"] /\ handle[c] = "up" /\ UNCHANGED <<key, pool, task, quit>>
        BY <2>1 DEF ServerDrops
      <3>2. HandleKeyed' /\ PooledAlive' /\ DropsUnpooled'
        BY <3>1 DEF HandleKeyed, PooledAlive, DropsUnpooled, TypeOK, ConnsOK, Alive, P
      <3>3. DialsNew'
        BY <3>1, GotConn DEF DialsNew, TypeOK, ConnsOK, P, Got, Holding
      <3> QED BY <3>2, <3>3 DEF Handles
    <2>2. CASE HandlerEnds(c)
      <3>1. handle' = [handle EXCEPT ![c] = "none"] /\ handle[c] = "ending" /\ UNCHANGED <<key, pool, task, quit>>
        BY <2>2 DEF HandlerEnds
      <3>2. HandleKeyed' /\ PooledAlive' /\ DropsUnpooled'
        BY <3>1 DEF HandleKeyed, PooledAlive, DropsUnpooled, TypeOK, ConnsOK, Alive, P, Ref
      <3>3. DialsNew'
        BY <3>1, GotConn DEF DialsNew, TypeOK, ConnsOK, P, Got, Holding
      <3> QED BY <3>2, <3>3 DEF Handles
    <2>3. CASE ArcDropped(c)
      <3>1. /\ handle' = [handle EXCEPT ![c] = Dropped(c)] /\ UNCHANGED <<key, pool, task, quit>>
            /\ handle[c] # "none" /\ ~Referenced(c)
        BY <2>3 DEF ArcDropped, Drop
      <3>2. \A k \in Key : pool[k] # c
        BY <3>1 DEF Referenced
      <3> QED BY <2>0, <3>1, <3>2, Handle_Changed DEF HandleKeyed
    <2> QED BY <1>3, <2>1, <2>2, <2>3 DEF ConnStep
  <1>4. CASE Deliver \/ ShutdownBegin \/ ShutdownEnd \/ UNCHANGED vars
    BY <1>4, Handles_Kept DEF Deliver, ShutdownBegin, ShutdownEnd, vars, conns, TypeOK
  <1>5. CASE ShutdownTake
    <2>1. lock = None /\ UNCHANGED <<handle, key, task>> /\ pool' = [k \in Key |-> None]
      BY <1>5 DEF ShutdownTake, conns
    <2>2. \A u \in Task : task'[u].pc \notin {"dial", "dropping"}
      BY <2>1, Alone
    <2>3. HandleKeyed' /\ PooledAlive'
      BY <2>1 DEF HandleKeyed, PooledAlive
    <2> QED BY <2>2, <2>3 DEF Handles, DialsNew, DropsUnpooled
  <1>6. ASSUME NEW c \in Conn, ShutdownDrop(c) PROVE Handles'
    <2>1. /\ c \in quit.taken /\ quit'.taken \subseteq quit.taken
          /\ handle' = [handle EXCEPT ![c] = Dropped(c)] /\ UNCHANGED <<key, pool, task>>
      BY <1>6 DEF ShutdownDrop, Drop, TypeOK
    <2>2. \A k \in Key : k[1] \in Ssh => pool[k] # c
      BY <2>1 DEF PooledAlive, SessionsAssumption
    <2>3. Dropped(c) # "none" => key[c] \in Key
      BY DEF Dropped, HandleKeyed
    <2>4. \A t \in Task : task[t].pc = "dial" => Got(t) # c
      BY <2>1 DEF DialsNew
    <2> HIDE DEF Inv, Handles
    <2> QED BY <2>1, <2>2, <2>3, <2>4, Handle_Changed
  <1> QED BY <1>1, <1>2, <1>3, <1>4, <1>5, <1>6 DEF Next, Rest, Shutdown

-----------------------------------------------------------------------------
LEMMA InitInv == ASSUME SessionsAssumption, Init PROVE Inv
  <1>1. TypeOK
    BY Init_TypeOK
  <1>2. GoalOK
    BY Idle_Goal DEF Init, GoalOK
  <1>3. Started
    BY DEF Init, Started, Task, Idle
  <1>4. OneAtATime
    BY DEF Init, OneAtATime, Idle, SessionsAssumption
  <1>5. Keyed
    BY DEF Init, Keyed, PoolKeyed, ProtoKeyed, TaskKeyed, Idle, NoConns
  <1>6. Handles
    BY DEF Init, Handles, HandleKeyed, DialsNew, DropsUnpooled, PooledAlive, Idle
  <1> QED BY <1>1, <1>2, <1>3, <1>4, <1>5, <1>6 DEF Inv

\* The inductive invariant, from which the others follow.
THEOREM Invariance == Spec => []Inv
  <1>1. Init => Inv
    BY SessionsAssumption, InitInv
  <1>2. Inv /\ [Next]_vars => Inv'
    BY SessionsAssumption, TypeStep, GoalStep, StartedStep, LockStep, KeyedStep, HandlesStep DEF Inv
  <1> QED BY <1>1, <1>2, PTL DEF Spec

\* Whatever the sizes of the sets, the variables keep their shapes and the
\* disconnect channel its bound.
THEOREM TypeCorrect == Spec => []TypeOK
  <1>1. Inv => TypeOK
    BY DEF Inv
  <1> QED BY <1>1, Invariance, PTL

\* The pool's mutex makes dialling and tearing down exclusive: see OneAtATime.
THEOREM LockExclusive == Spec => []OneAtATime
  <1>1. Inv => OneAtATime
    BY DEF Inv
  <1> QED BY <1>1, Invariance, PTL

\* Nobody is ever handed an SSH connection of another profile or role, one
\* still being dialled or one that was torn down: see PooledIsReal.
THEOREM PoolSound == Spec => []PooledIsReal
  <1>1. Inv => PooledIsReal
    BY DEF Inv, Keyed, PoolKeyed, Handles, PooledAlive, PooledIsReal
  <1> QED BY <1>1, Invariance, PTL

\* Terminals and files never share an SSH connection: see OwnConnection.
THEOREM ConnectionsSeparate == Spec => []OwnConnection
  <1>1. Inv => OwnConnection
    BY DEF Inv, Keyed, ProtoKeyed, OwnConnection, PoolKey
  <1> QED BY <1>1, Invariance, PTL

-----------------------------------------------------------------------------
\* The refinement of SessionLifecycle, step by step.
Awaited == {s \in Sid : task[<<s, "open">>].pc # "idle"}

LEMMA OpenGoal ==
    ASSUME SessionsAssumption, Inv, NEW t \in Task, task[t].pc # "idle"
    PROVE task[t].goal = "open" <=> t[2] = "open"
  BY DEF Inv, GoalOK, PlaceOK

LEMMA AwaitedSame ==
    ASSUME SessionsAssumption, Inv, NEW t \in Task, NEW rec, Step(t, rec),
           t[2] = "open" => task[t].pc # "idle" /\ rec.pc # "idle"
    PROVE Awaited' = Awaited
  <1>1. \A s \in Sid : <<s, "open">> \in Task
    BY DEF Task
  <1>2. \A u \in Task : task'[u] = IF u = t THEN rec ELSE task[u]
    BY Step_At DEF Inv
  <1> QED BY <1>1, <1>2 DEF Awaited

LEMMA AwaitedDone ==
    ASSUME SessionsAssumption, Inv, NEW t \in Task, t[2] = "open", Step(t, Idle)
    PROVE Awaited' = Awaited \ {t[1]}
  <1>1. \A s \in Sid : <<s, "open">> \in Task
    BY DEF Task
  <1>2. \A u \in Task : task'[u] = IF u = t THEN Idle ELSE task[u]
    BY Step_At DEF Inv
  <1>3. t = <<t[1], "open">> /\ Idle.pc = "idle"
    BY TaskShape DEF Idle, Inv
  <1> QED BY <1>1, <1>2, <1>3 DEF Awaited

\* A step of a task is the verdict of its session, brings the session back, or
\* does not show.
LEMMA TaskRefines ==
    ASSUME SessionsAssumption, Inv, NEW t \in Task, TaskStep(t)
    PROVE \/ UNCHANGED <<status, Awaited>>
          \/ Lifecycle!Restore(t[1])
          \/ Lifecycle!Verdict(t[1])
  <1> /\ TypeOK /\ task[t] \in TaskRec /\ t[1] \in Sid /\ t = <<t[1], t[2]>>
      /\ Idle.pc = "idle" /\ Idle \in TaskRec /\ GoalOK
    BY TaskShape, Idle_Type DEF Inv, Idle
  <1>0. task[t].pc # "idle" /\ (task[t].goal = "open" <=> t[2] = "open")
    BY OpenGoal DEF TaskStep, PoolStep, WorkStep, FtpStep, Reuse, Dial, DialOk, DialErr,
       DropNothing, DropBegin, DropEnd, BeginTerminal, EndTerminal, BeginWork, EndWork, Publish, Worked,
       Fail, Restore, FtpGet, FtpCheck, FtpDialOk, FtpDialErr, FtpRegister
  <1>1. ASSUME NEW rec, Step(t, rec), task[t].goal = "open" => rec.pc # "idle" PROVE Awaited' = Awaited
    BY <1>0, <1>1, AwaitedSame
  <1>2. ASSUME NEW l \in Label \ {"idle"}, Goto(t, l) PROVE Awaited' = Awaited
    <2> DEFINE rec == [task[t] EXCEPT !.pc = l]
    <2>1. Step(t, rec) /\ rec.pc # "idle"
      BY <1>2 DEF Goto, TaskRec
    <2> HIDE DEF rec
    <2> QED BY <2>1, <1>1
  <1>3. CASE Reuse(t) \/ DialOk(t) \/ DialErr(t)
    <2>1. PICK c \in Ref : Step(t, Answered(t, c))
      BY <1>3, TaskShape DEF Reuse, DialOk, DialErr, TypeOK, Ref
    <2>2. task[t].goal = "open" => Answered(t, c).pc # "idle"
      BY DEF Answered, TaskRec, Role, Idle
    <2> QED BY <1>1, <1>3, <2>1, <2>2 DEF Reuse, DialOk, DialErr
  <1>4. CASE Dial(t) \/ DropBegin(t) \/ FtpGet(t)
    <2>1. PICK l \in {"dial", "dropping", "ftpCheck"}, r \in Role : \E c : Step(t, [task[t] EXCEPT !.pc = l, !.got[r] = c])
      BY <1>4, TaskShape DEF Dial, DropBegin, FtpGet, Role
    <2>2. PICK c : Step(t, [task[t] EXCEPT !.pc = l, !.got[r] = c])
      BY <2>1
    <2> DEFINE rec == [task[t] EXCEPT !.pc = l, !.got[r] = c]
    <2>3. rec.pc = l
      BY DEF TaskRec
    <2>4. Step(t, rec)
      BY <2>2
    <2> HIDE DEF rec
    <2> QED BY <1>1, <1>4, <2>3, <2>4 DEF Dial, DropBegin, FtpGet
  <1>5. CASE DropNothing(t) \/ DropEnd(t)
    <2>1. task[t].goal = "open" => NextDrop(t).pc # "idle"
      BY DEF NextDrop, TaskRec, Idle
    <2> QED BY <1>1, <1>5, <2>1 DEF DropNothing, DropEnd
  <1>6. CASE BeginWork(t) \/ FtpCheck(t) \/ FtpDialOk(t) \/ FtpRegister(t)
    <2>1. PICK l \in Label \ {"idle"} : Goto(t, l)
      BY <1>6 DEF BeginWork, FtpCheck, FtpDialOk, FtpRegister, Label
    <2> QED BY <1>2, <1>6, <2>1 DEF BeginWork, FtpCheck, FtpDialOk, FtpRegister
  <1>7. CASE BeginTerminal(t) \/ EndTerminal(t)
    <2>1. (\E l \in Label \ {"idle"} : Goto(t, l)) \/ (task[t].goal # "open" /\ Step(t, Idle))
      BY <1>7 DEF BeginTerminal, EndTerminal, Label
    <2> QED BY <1>1, <1>2, <1>7, <2>1 DEF BeginTerminal, EndTerminal
  <1>8. CASE EndWork(t)
    BY <1>1, <1>8 DEF EndWork, Worked
  <1>9. CASE FtpDialErr(t)
    <2>1. [Idle EXCEPT !.pc = "drop", !.goal = "open", !.role = "Terminal"].pc # "idle"
      BY DEF Idle
    <2> QED BY <1>1, <1>9, <2>1 DEF FtpDialErr
  <1>10. CASE Publish(t) \/ Fail(t)
    <2>1. task[t].goal = "open" /\ Step(t, Idle)
      BY <1>10 DEF Publish, Fail, Worked, GoalOK, PlaceOK
    <2>2. Awaited' = Awaited \ {t[1]} /\ t[1] \in Awaited
      BY <1>0, <2>1, AwaitedDone DEF Awaited
    <2>3. Set(t[1], "connected") \/ Set(t[1], "failed")
      BY <1>10 DEF Publish, Fail
    <2> QED BY <2>2, <2>3 DEF Lifecycle!Verdict, Lifecycle!Shown, Awaited, Set, Open
  <1>11. CASE Restore(t)
    <2>1. Step(t, Idle) \/ Goto(t, "list")
      BY <1>11 DEF Restore
    <2>2. task[t].goal # "open"
      BY <1>11 DEF Restore, GoalOK, PlaceOK
    <2>3. Awaited' = Awaited
      BY <1>1, <1>2, <2>1, <2>2 DEF Label
    <2>4. CASE Restores(t)
      BY <1>11, <2>3, <2>4 DEF Restore, Restores, Set, Open, Lifecycle!Restore, Awaited
    <2> QED BY <1>11, <2>3, <2>4 DEF Restore
  <1> QED BY <1>3, <1>4, <1>5, <1>6, <1>7, <1>8, <1>9, <1>10, <1>11 DEF TaskStep, PoolStep, WorkStep, FtpStep

LEMMA StepRefines == ASSUME SessionsAssumption, Inv, [Next]_vars
    PROVE [Lifecycle!Next]_(Lifecycle!vars)
  <1> TypeOK
    BY DEF Inv
  <1> SUFFICES Lifecycle!Next \/ UNCHANGED <<status, Awaited>>
    BY DEF Lifecycle!vars, Awaited
  <1>0. UNCHANGED task => Awaited' = Awaited
    BY DEF Awaited
  <1>1. ASSUME NEW t \in Task, TaskStep(t) PROVE Lifecycle!Next \/ UNCHANGED <<status, Awaited>>
    BY <1>1, TaskRefines, TaskShape DEF Lifecycle!Next
  <1>2. ASSUME NEW s \in Sid, UserStep(s) PROVE Lifecycle!Next \/ UNCHANGED <<status, Awaited>>
    <2> /\ <<s, "open">> \in Task /\ <<s, "close">> \in Task /\ <<s, "use">> \in Task
      BY DEF Task
    <2>1. CASE OpenSession(s)
      <3>1. PICK rec \in {[Idle EXCEPT !.pc = "get", !.goal = "open", !.role = "Terminal"],
                          [Idle EXCEPT !.pc = "ftpGet", !.goal = "open"]} : Step(<<s, "open">>, rec)
        BY <2>1 DEF OpenSession
      <3>2. rec.pc # "idle"
        BY DEF Idle
      <3>3. \A o \in Sid : task'[<<o, "open">>] = IF o = s THEN rec ELSE task[<<o, "open">>]
        BY <3>1, Step_At DEF Task
      <3>4. Awaited' = Awaited \union {s}
        BY <3>2, <3>3 DEF Awaited
      <3>5. Lifecycle!Open(s)
        BY <2>1, <3>4 DEF OpenSession, Lifecycle!Open, Awaited
      <3> QED BY <3>5 DEF Lifecycle!Next
    <2>2. CASE CloseSession(s)
      <3>1. (\E rec : Step(<<s, "close">>, rec)) \/ UNCHANGED task
        BY <2>2 DEF CloseSession
      <3>2. Awaited' = Awaited
        BY <3>1, <1>0, AwaitedSame
      <3>3. Lifecycle!Close({s})
        BY <2>2, <3>2 DEF CloseSession, Lifecycle!Close, Lifecycle!Shown, Open, Awaited, TypeOK
      <3> QED BY <3>3 DEF Lifecycle!Next
    <2>3. CASE UseTerminal(s) \/ \E goal \in {"sftp", "shared"} : UseFiles(s, goal)
      <3>1. UNCHANGED status /\ \E rec : Step(<<s, "use">>, rec)
        BY <2>3 DEF UseTerminal, UseFiles
      <3> QED BY <3>1, AwaitedSame
    <2> QED BY <1>2, <2>1, <2>2, <2>3 DEF UserStep
  <1>3. CASE Deliver
    <2> DEFINE hit == Affected(Head(notices))
    <2>1. hit \in SUBSET Sid /\ \A s \in hit : status[s] \in {"connecting", "connected"}
      BY DEF Affected
    <2>2. status' = [s \in Sid |-> IF s \in hit THEN "disconnected" ELSE status[s]] /\ Awaited' = Awaited
      BY <1>0, <1>3 DEF Deliver
    <2> HIDE DEF hit
    <2>3. Lifecycle!Lose(hit)
      BY <2>1, <2>2 DEF Lifecycle!Lose, Awaited
    <2> QED BY <2>1, <2>3 DEF Lifecycle!Next
  <1>4. CASE ShutdownBegin
    <2>1. Awaited' = Awaited /\ Open \in SUBSET Sid
      BY <1>0, <1>4 DEF ShutdownBegin, Open
    <2>2. Lifecycle!Close(Open)
      BY <1>4, <2>1 DEF ShutdownBegin, Lifecycle!Close, Lifecycle!Shown, Open, Awaited
    <2> QED BY <2>1, <2>2 DEF Lifecycle!Next
  <1>5. CASE \/ ShutdownTake \/ ShutdownEnd \/ \E c \in Conn : ShutdownDrop(c)
             \/ \E c \in Conn : ConnStep(c)
             \/ UNCHANGED vars
    BY <1>0, <1>5 DEF ShutdownTake, ShutdownEnd, ShutdownDrop, ConnStep, ServerDrops, HandlerEnds, ArcDropped, vars
  <1> QED BY <1>1, <1>2, <1>3, <1>4, <1>5 DEF Next, Rest, Shutdown

\* The tabs behave as SessionLifecycle promises, whatever the connections do:
\* see Refinement.
THEOREM Implements == Spec => Refinement
  <1>1. Init => Lifecycle!Init
    BY DEF Init, Lifecycle!Init, Task, Idle
  <1>2. Inv /\ [Next]_vars => [Lifecycle!Next]_(Lifecycle!vars)
    BY SessionsAssumption, StepRefines
  <1> QED BY <1>1, <1>2, Invariance, PTL DEF Spec, Refinement, Lifecycle!Spec

=============================================================================
