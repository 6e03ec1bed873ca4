----------------------------- MODULE SshSessions -----------------------------
(***************************************************************************)
(* The sessions of qingqi-feature-ssh: SshService (service.rs), its        *)
(* ConnectionPool (connection.rs) and the two protocols (protocol/ssh.rs,  *)
(* protocol/ftp.rs), as one concurrent system.                             *)
(*                                                                         *)
(* Every tokio task is a process: the open task of a session, the          *)
(* disconnect task close_session spawns, and one user operation per        *)
(* session (browse, transfer, type).  The pool's tokio mutex is `lock`: a  *)
(* task that dials or tears down through the pool keeps it across the      *)
(* await.  The std mutex over the sessions is never held across an await,  *)
(* so a block under it is one step.                                        *)
(***************************************************************************)
EXTENDS Naturals, Sequences, FiniteSets

CONSTANTS Sid,        \* sessions that may be opened, SessionId::new is unique
          Profile,    \* stored profiles
          Conn,       \* protocol objects (Arc<dyn RemoteProtocol>) that may exist at once
          None,
          ProfileOf,  \* Sid -> Profile it is opened on
          Ssh,        \* the profiles that speak SSH; the others speak FTP
          Users,      \* sessions on which the user issues operations
          NoticeCap,  \* capacity of the disconnect broadcast channel (64 in the code)
          MayQuit     \* whether the application may shut down

Role == {"Terminal", "Sftp"}
Key == Profile \X Role
Task == Sid \X {"open", "close", "use"}

ASSUME SessionsAssumption ==
    /\ ProfileOf \in [Sid -> Profile]
    /\ Ssh \subseteq Profile
    /\ Users \subseteq Sid
    /\ None \notin Conn \union Task
    /\ NoticeCap \in Nat \ {0}
    /\ MayQuit \in BOOLEAN

VARIABLES status,   \* Sid -> summary.status, "new" before open, "closed" once removed
          proto,    \* Sid -> terminal_protocol and sftp_protocol of its SessionState
          pool,     \* ConnectionPool.connections
          lock,     \* holder of the mutex over it
          handle,   \* Conn -> state of its handle or stream
          key,      \* Conn -> profile and role it was created for
          ready,    \* SSH connections whose SFTP subsystem is up
          task,     \* Task -> where it is and what it holds
          notices,  \* the disconnect broadcast channel, oldest first
          quit      \* progress of shutdown_all and the connections it took

conns == <<handle, key, ready>>
vars == <<status, proto, pool, lock, conns, task, notices, quit>>

-----------------------------------------------------------------------------
\* SshService's side of a session that is still in the map.
Open == {s \in Sid : status[s] \notin {"new", "closed"}}

NoConns == [r \in Role |-> None]
Idle == [pc |-> "idle", goal |-> "none", role |-> "Sftp", got |-> NoConns]

\* (Faults, to test the properties: a key that forgets the role, the profile.)
PoolKeyNoRole(p, r) == <<p, "Sftp">>
PoolKeyNoProfile(p, r) == <<CHOOSE q \in Profile : TRUE, IF p \in Ssh THEN r ELSE "Sftp">>

\* pool_key: FTP keeps one connection for both roles.
PoolKey(p, r) == <<p, IF p \in Ssh THEN r ELSE "Sftp">>

P(t) == ProfileOf[t[1]]
KeyOf(t) == PoolKey(P(t), task[t].role)
Got(t) == task[t].got[task[t].role]

\* A task opening a terminal holds the handle mutex of c; one that works on
\* files holds its sftp mutex (FTP: the stream mutex), and the handle mutex too
\* while it starts the SFTP subsystem.
Opening(c) == \E t \in Task :
    task[t].pc = "opening" /\ task[t].got["Terminal"] = c /\ P(t) \in Ssh
Working(c) == \E t \in Task : task[t].pc = "working" /\ task[t].got["Sftp"] = c
Busy(c) == Opening(c) \/ (Working(c) /\ c \notin ready)

\* is_connected: try_lock on the handle, and it is Some.  A connection the
\* server dropped keeps its handle, so it still counts.
Alive == {"up", "lost"}
IsConnected(c) == handle[c] \in Alive /\ ~Busy(c)

Referenced(c) ==
    \/ \E k \in Key : pool[k] = c
    \/ \E s \in Sid, r \in Role : proto[s][r] = c
    \/ \E t \in Task, r \in Role : task[t].got[r] = c
    \/ c \in quit.taken

Fresh == {c \in Conn : handle[c] = "none" /\ ~Referenced(c)}

Create(c, k) ==
    /\ c \in Fresh
    /\ handle' = [handle EXCEPT ![c] = "new"]
    /\ key' = [key EXCEPT ![c] = k]
    /\ UNCHANGED ready

\* The fate of a handle that is dropped: russh calls `disconnected` later,
\* once, unless it has done so already; FTP has no such callback.
Dropped(c) == IF handle[c] = "up" /\ key[c][1] \in Ssh THEN "ending" ELSE "none"

Drop(c) ==
    /\ handle' = [handle EXCEPT ![c] = Dropped(c)]
    /\ ready' = ready \ {c}
    /\ UNCHANGED key

\* broadcast::Sender::send: a full channel forgets its oldest value, which
\* the listener sees as Lagged and skips.
Send(c) == notices' = Append(IF Len(notices) < NoticeCap THEN notices ELSE Tail(notices), key[c])

\* Writes of the tasks to a session that is still there.
\* (Fault: write to a closed session.)
SetAnyway(s, v) == status' = [status EXCEPT ![s] = v]
Patch(s, r, c) == proto' = IF s \in Open THEN [proto EXCEPT ![s][r] = c] ELSE proto
Set(s, v) == status' = IF s \in Open THEN [status EXCEPT ![s] = v] ELSE status

Step(t, rec) == task' = [task EXCEPT ![t] = rec]
Goto(t, label) == Step(t, [task[t] EXCEPT !.pc = label])

Init ==
    /\ status = [s \in Sid |-> "new"]
    /\ proto = [s \in Sid |-> NoConns]
    /\ pool = [k \in Key |-> None]
    /\ lock = None
    /\ handle = [c \in Conn |-> "none"]
    /\ key = [c \in Conn |-> None]
    /\ ready = {}
    /\ task = [t \in Task |-> Idle]
    /\ notices = <<>>
    /\ quit = [pc |-> "no", taken |-> {}]

-----------------------------------------------------------------------------
(* ConnectionPool::get_or_connect, for any task at "get".                  *)

\* Where a task goes once the pool answered its request for its role with
\* connection c, or with None for an error.
Answered(t, c) ==
    LET rec == [task[t] EXCEPT !.got[task[t].role] = c] IN
    CASE rec.goal = "open" /\ rec.role = "Terminal" -> [rec EXCEPT !.pc = "get", !.role = "Sftp"]
      [] rec.goal = "open" /\ rec.role = "Sftp" ->
            IF None \in {rec.got[r] : r \in Role}
            THEN [Idle EXCEPT !.pc = "drop", !.goal = "open", !.role = "Terminal"]
            ELSE [rec EXCEPT !.pc = "terminal"]
      [] rec.goal # "open" /\ c = None -> Idle
      [] rec.goal = "terminal" /\ c # None -> [rec EXCEPT !.pc = "terminal"]
      [] OTHER -> [rec EXCEPT !.pc = "restore"]

\* The pooled connection is connected: share it.
Reuse(t) ==
    /\ task[t].pc = "get" /\ lock = None
    /\ pool[KeyOf(t)] # None /\ IsConnected(pool[KeyOf(t)])
    /\ Step(t, Answered(t, pool[KeyOf(t)]))
    /\ UNCHANGED <<status, proto, pool, lock, conns, notices, quit>>

\* Forget a dead (or busy) entry and dial a new connection under the lock.
Dial(t) ==
    /\ task[t].pc = "get" /\ lock = None
    /\ pool[KeyOf(t)] # None => ~IsConnected(pool[KeyOf(t)])
    /\ pool' = [pool EXCEPT ![KeyOf(t)] = None]
    /\ lock' = t
    /\ \E c \in Conn :
          /\ Create(c, KeyOf(t))
          /\ Step(t, [task[t] EXCEPT !.pc = "dial", !.got[task[t].role] = c])
    /\ UNCHANGED <<status, proto, notices, quit>>

DialOk(t) ==
    /\ task[t].pc = "dial"
    /\ handle' = [handle EXCEPT ![Got(t)] = "up"]
    /\ pool' = [pool EXCEPT ![KeyOf(t)] = Got(t)]
    /\ lock' = None
    /\ Step(t, Answered(t, Got(t)))
    /\ UNCHANGED <<status, proto, key, ready, notices, quit>>

\* connect() fails, before the SSH transport is up ("none") or after, in
\* authentication ("ending": its handler will still report a disconnect).
DialErr(t) ==
    /\ task[t].pc = "dial"
    /\ \E h \in IF P(t) \in Ssh THEN {"none", "ending"} ELSE {"none"} :
          handle' = [handle EXCEPT ![Got(t)] = h]
    /\ lock' = None
    /\ Step(t, Answered(t, None))
    /\ UNCHANGED <<status, proto, pool, key, ready, notices, quit>>

-----------------------------------------------------------------------------
(* ConnectionPool::disconnect_all, for any task at "drop": Terminal, then  *)
(* Sftp, each under the lock and across the disconnect().                  *)

\* (Fault: the roles are gone through for ever.)
NextDropRound(t) ==
    [task[t] EXCEPT !.pc = "drop", !.role = IF @ = "Sftp" THEN "Terminal" ELSE "Sftp", !.got = NoConns]

NextDrop(t) ==
    IF task[t].role = "Terminal" THEN [task[t] EXCEPT !.pc = "drop", !.role = "Sftp", !.got = NoConns]
    ELSE IF task[t].goal = "open" THEN [Idle EXCEPT !.pc = "fail", !.goal = "open"]
    ELSE Idle

DropNothing(t) ==
    /\ task[t].pc = "drop" /\ lock = None
    /\ pool[<<P(t), task[t].role>>] = None
    /\ Step(t, NextDrop(t))
    /\ UNCHANGED <<status, proto, pool, lock, conns, notices, quit>>

\* (Faults: remove the entry without the lock; leave it in the pool.)
DropBeginUnlocked(t) ==
    LET k == <<P(t), task[t].role>> IN
    /\ task[t].pc = "drop" /\ pool[k] # None
    /\ pool' = [pool EXCEPT ![k] = None]
    /\ lock' = t
    /\ Step(t, [task[t] EXCEPT !.pc = "dropping", !.got[task[t].role] = pool[k]])
    /\ UNCHANGED <<status, proto, conns, notices, quit>>

DropBeginPeek(t) ==
    LET k == <<P(t), task[t].role>> IN
    /\ task[t].pc = "drop" /\ lock = None /\ pool[k] # None
    /\ lock' = t
    /\ Step(t, [task[t] EXCEPT !.pc = "dropping", !.got[task[t].role] = pool[k]])
    /\ UNCHANGED <<status, proto, pool, conns, notices, quit>>

DropBegin(t) ==
    LET k == <<P(t), task[t].role>> IN
    /\ task[t].pc = "drop" /\ lock = None
    /\ pool[k] # None
    /\ pool' = [pool EXCEPT ![k] = None]
    /\ lock' = t
    /\ Step(t, [task[t] EXCEPT !.pc = "dropping", !.got[task[t].role] = pool[k]])
    /\ UNCHANGED <<status, proto, conns, notices, quit>>

\* disconnect() needs every mutex of the connection.
DropEnd(t) ==
    /\ task[t].pc = "dropping"
    /\ ~Opening(Got(t)) /\ ~Working(Got(t))
    /\ Drop(Got(t))
    /\ lock' = None
    /\ Step(t, NextDrop(t))
    /\ UNCHANGED <<status, proto, pool, notices, quit>>

-----------------------------------------------------------------------------
(* What a task does with the connections it got.                           *)

\* The open task has an engine; reopen_terminal_channel gives up on a session
\* that was closed, and has nothing to open for one whose terminal never was.
BeginTerminal(t) ==
    /\ task[t].pc = "terminal"
    /\ \/ /\ task[t].goal = "open" \/ t[1] \in Open
          /\ ~Opening(task[t].got["Terminal"])
          /\ Goto(t, "opening")
       \/ task[t].goal # "open" /\ t[1] \in Open /\ Goto(t, "restore")
       \/ task[t].goal # "open" /\ t[1] \notin Open /\ Step(t, Idle)
    /\ UNCHANGED <<status, proto, pool, lock, conns, notices, quit>>

\* The open task shows the terminal at once and goes on without one if it
\* could not be opened; an operation that needed it gives up.
EndTerminal(t) ==
    LET c == task[t].got["Terminal"] IN
    /\ task[t].pc = "opening"
    /\ \E ok \in IF P(t) \in Ssh THEN {FALSE, handle[c] = "up"} ELSE {TRUE} :
          IF task[t].goal = "open"
          THEN Goto(t, "list") /\ (IF ok THEN Patch(t[1], "Terminal", c) ELSE UNCHANGED proto)
          ELSE (IF ok THEN Goto(t, "restore") ELSE Step(t, Idle)) /\ UNCHANGED proto
    /\ UNCHANGED <<status, pool, lock, conns, notices, quit>>

BeginWork(t) ==
    /\ task[t].pc = "list"
    /\ ~Working(task[t].got["Sftp"])
    /\ Goto(t, "working")
    /\ UNCHANGED <<status, proto, pool, lock, conns, notices, quit>>

Worked(t) ==
    LET c == task[t].got["Sftp"] IN
    /\ task[t].pc = "working"
    /\ IF P(t) \in Ssh /\ handle[c] = "up" THEN ready' \in {ready, ready \union {c}}
       ELSE UNCHANGED ready
    /\ Step(t, Idle)
    /\ UNCHANGED <<pool, lock, handle, key, notices, quit>>

\* A user operation ends and leaves the session alone.
EndWork(t) == task[t].goal # "open" /\ Worked(t) /\ UNCHANGED <<status, proto>>

\* The open task, whether or not the listing worked, publishes the session,
\* if it still exists, over whatever was written to it meanwhile.
Publish(t) ==
    LET got == task[t].got
        both == IF P(t) \in Ssh THEN got ELSE [r \in Role |-> got["Sftp"]] IN
    /\ task[t].goal = "open"
    /\ Worked(t)
    /\ Set(t[1], "connected")
    /\ proto' = IF t[1] \in Open THEN [proto EXCEPT ![t[1]] = both] ELSE proto

\* The open task failed and has torn the profile's connections down.
Fail(t) ==
    /\ task[t].pc = "fail"
    /\ Set(t[1], "failed")
    /\ Step(t, Idle)
    /\ UNCHANGED <<proto, pool, lock, conns, notices, quit>>

\* (Fault: any session a connection is restored to shows as connected.)
RestoresAny(t) == task[t].goal # "shared"

\* restore_session_protocol: a session shown as disconnected is back; the
\* variant the transfer tasks use ("shared") stores the connection only.
Restores(t) == task[t].goal # "shared" /\ status[t[1]] = "disconnected"

Restore(t) ==
    /\ task[t].pc = "restore"
    /\ Patch(t[1], task[t].role, Got(t))
    /\ IF Restores(t) THEN Set(t[1], "connected") ELSE UNCHANGED status
    /\ IF task[t].goal = "terminal" THEN Step(t, Idle) ELSE Goto(t, "list")
    /\ UNCHANGED <<pool, lock, conns, notices, quit>>

-----------------------------------------------------------------------------
(* connect_ftp_session: one protocol object, dialled outside the pool.     *)

FtpGet(t) ==
    LET c == pool[KeyOf(t)]
        use(d) == Step(t, [task[t] EXCEPT !.pc = "ftpCheck", !.got["Sftp"] = d]) IN
    /\ task[t].pc = "ftpGet" /\ lock = None
    /\ IF c # None /\ IsConnected(c)
       THEN use(c) /\ UNCHANGED conns
       ELSE \E d \in Conn : Create(d, KeyOf(t)) /\ use(d)
    /\ UNCHANGED <<status, proto, pool, lock, notices, quit>>

\* The log terminal is shown before the connection is known to be there.
FtpCheck(t) ==
    /\ task[t].pc = "ftpCheck"
    /\ Patch(t[1], "Terminal", Got(t))
    /\ Goto(t, IF IsConnected(Got(t)) THEN "list" ELSE "ftpDial")
    /\ UNCHANGED <<status, pool, lock, conns, notices, quit>>

\* connect() stores the new stream over the old one, if there is one.
FtpDialOk(t) ==
    /\ task[t].pc = "ftpDial"
    /\ ~Working(Got(t))
    /\ handle' = [handle EXCEPT ![Got(t)] = "up"]
    /\ Goto(t, "ftpRegister")
    /\ UNCHANGED <<status, proto, pool, lock, key, ready, notices, quit>>

\* It fails, or there was no protocol object to be had in the first place.
FtpDialErr(t) ==
    /\ \/ task[t].pc = "ftpDial"
       \/ /\ task[t].pc = "ftpGet" /\ lock = None
          /\ pool[KeyOf(t)] # None => ~IsConnected(pool[KeyOf(t)])
    /\ Step(t, [Idle EXCEPT !.pc = "drop", !.goal = "open", !.role = "Terminal"])
    /\ UNCHANGED <<status, proto, pool, lock, conns, notices, quit>>

FtpRegister(t) ==
    /\ task[t].pc = "ftpRegister" /\ lock = None
    /\ pool' = [pool EXCEPT ![KeyOf(t)] = Got(t)]
    /\ Goto(t, "list")
    /\ UNCHANGED <<status, proto, lock, conns, notices, quit>>

-----------------------------------------------------------------------------
(* What the user does, on the UI thread.                                   *)

OpenSession(s) ==
    /\ quit.pc = "no" /\ status[s] = "new"
    /\ status' = [status EXCEPT ![s] = "connecting"]
    /\ Step(<<s, "open">>,
            IF ProfileOf[s] \in Ssh
            THEN [Idle EXCEPT !.pc = "get", !.goal = "open", !.role = "Terminal"]
            ELSE [Idle EXCEPT !.pc = "ftpGet", !.goal = "open"])
    /\ UNCHANGED <<proto, pool, lock, conns, notices, quit>>

\* The last session of a profile takes the profile's connections with it.
LastOf(s) == \A o \in Open \ {s} : ProfileOf[o] # ProfileOf[s]

CloseSession(s) ==
    /\ quit.pc = "no" /\ s \in Open
    /\ status' = [status EXCEPT ![s] = "closed"]
    /\ proto' = [proto EXCEPT ![s] = NoConns]
    /\ IF LastOf(s)
       THEN Step(<<s, "close">>, [Idle EXCEPT !.pc = "drop", !.goal = "close", !.role = "Terminal"])
       ELSE UNCHANGED task
    /\ UNCHANGED <<pool, lock, conns, notices, quit>>

\* ensure_sftp_protocol and ensure_sftp_shared ("shared"), then the work.
UseFiles(s, goal) ==
    LET t == <<s, "use">>
        c == proto[s]["Sftp"] IN
    /\ quit.pc = "no" /\ s \in Open \intersect Users
    /\ task[t].pc = "idle"
    /\ IF c # None /\ IsConnected(c)
       THEN Step(t, [Idle EXCEPT !.pc = "list", !.goal = goal, !.got["Sftp"] = c])
       ELSE Step(t, [Idle EXCEPT !.pc = "get", !.goal = goal])
    /\ UNCHANGED <<status, proto, pool, lock, conns, notices, quit>>

\* ensure_terminal_protocol, when the terminal is not connected.
UseTerminal(s) ==
    LET c == proto[s]["Terminal"] IN
    /\ quit.pc = "no" /\ s \in Open \intersect Users
    /\ task[<<s, "use">>].pc = "idle"
    /\ c # None => ~IsConnected(c)
    /\ Step(<<s, "use">>, [Idle EXCEPT !.pc = "get", !.goal = "terminal", !.role = "Terminal"])
    /\ UNCHANGED <<status, proto, pool, lock, conns, notices, quit>>

-----------------------------------------------------------------------------
(* The network, russh, reference counting and the disconnect listener.     *)

\* The server or an inactivity timeout ends a connection.  Only russh tells.
ServerDrops(c) ==
    /\ handle[c] = "up"
    /\ handle' = [handle EXCEPT ![c] = "lost"]
    /\ IF key[c][1] \in Ssh THEN Send(c) ELSE UNCHANGED notices
    /\ UNCHANGED <<status, proto, pool, lock, key, ready, task, quit>>

\* The session loop of a dropped handle ends and calls `disconnected`.
HandlerEnds(c) ==
    /\ handle[c] = "ending"
    /\ handle' = [handle EXCEPT ![c] = "none"]
    /\ Send(c)
    /\ UNCHANGED <<status, proto, pool, lock, key, ready, task, quit>>

\* The last Arc to a protocol object goes away, and its handle with it.
ArcDropped(c) ==
    /\ handle[c] \in {"new", "up", "lost"} /\ ~Referenced(c)
    /\ Drop(c)
    /\ UNCHANGED <<status, proto, pool, lock, task, notices, quit>>

\* mark_sessions_disconnected: by profile and role, whichever connection the
\* notice was about.
Affected(k) == {s \in Sid : ProfileOf[s] = k[1] /\ status[s] \in {"connected", "connecting"}}

Deliver ==
    /\ notices # <<>>
    /\ LET k == Head(notices)
           hit == Affected(k) IN
          /\ status' = [s \in Sid |-> IF s \in hit THEN "disconnected" ELSE status[s]]
          /\ proto' = [s \in Sid |-> IF s \in hit THEN [proto[s] EXCEPT ![k[2]] = None] ELSE proto[s]]
    /\ notices' = Tail(notices)
    /\ UNCHANGED <<pool, lock, conns, task, quit>>

-----------------------------------------------------------------------------
(* shutdown_all: clear the sessions, take the whole pool, disconnect what  *)
(* was in it.  Tasks still under way are not stopped.                      *)

ShutdownBegin ==
    /\ MayQuit /\ quit.pc = "no"
    /\ status' = [s \in Sid |-> IF s \in Open THEN "closed" ELSE status[s]]
    /\ proto' = [s \in Sid |-> NoConns]
    /\ quit' = [quit EXCEPT !.pc = "take"]
    /\ UNCHANGED <<pool, lock, conns, task, notices>>

ShutdownTake ==
    /\ quit.pc = "take" /\ lock = None
    /\ quit' = [pc |-> "drain", taken |-> {pool[k] : k \in Key} \ {None}]
    /\ pool' = [k \in Key |-> None]
    /\ UNCHANGED <<status, proto, lock, conns, task, notices>>

ShutdownDrop(c) ==
    /\ c \in quit.taken
    /\ ~Opening(c) /\ ~Working(c)
    /\ Drop(c)
    /\ quit' = [quit EXCEPT !.taken = @ \ {c}]
    /\ UNCHANGED <<status, proto, pool, lock, task, notices>>

ShutdownEnd ==
    /\ quit.pc = "drain" /\ quit.taken = {}
    /\ quit' = [quit EXCEPT !.pc = "done"]
    /\ UNCHANGED <<status, proto, pool, lock, conns, task, notices>>

-----------------------------------------------------------------------------
PoolStep(t) ==
    \/ Reuse(t) \/ Dial(t) \/ DialOk(t) \/ DialErr(t)
    \/ DropNothing(t) \/ DropBegin(t) \/ DropEnd(t)

WorkStep(t) ==
    \/ BeginTerminal(t) \/ EndTerminal(t)
    \/ BeginWork(t) \/ EndWork(t) \/ Publish(t) \/ Fail(t) \/ Restore(t)

FtpStep(t) == FtpGet(t) \/ FtpCheck(t) \/ FtpDialOk(t) \/ FtpDialErr(t) \/ FtpRegister(t)

TaskStep(t) == PoolStep(t) \/ WorkStep(t) \/ FtpStep(t)

UserStep(s) ==
    \/ OpenSession(s) \/ CloseSession(s) \/ UseTerminal(s)
    \/ \E goal \in {"sftp", "shared"} : UseFiles(s, goal)

ConnStep(c) == ServerDrops(c) \/ HandlerEnds(c) \/ ArcDropped(c)

Shutdown == ShutdownBegin \/ ShutdownTake \/ ShutdownEnd \/ \E c \in Conn : ShutdownDrop(c)

\* Nothing is under way: the plugin may rest here for ever.
Rest == (\A t \in Task : task[t].pc = "idle") /\ UNCHANGED vars

Next ==
    \/ \E t \in Task : TaskStep(t)
    \/ \E s \in Sid : UserStep(s)
    \/ \E c \in Conn : ConnStep(c)
    \/ Deliver
    \/ Shutdown
    \/ Rest

Spec == Init /\ [][Next]_vars

\* tokio mutexes queue fairly and every await on the network ends, by an
\* answer, an error or a timeout: a task is never passed over for ever.
FairSpec == Spec /\ \A t \in Task : SF_vars(TaskStep(t))

-----------------------------------------------------------------------------
\* The sets the variables range over.
Label == {"idle", "get", "dial", "drop", "dropping", "terminal", "opening", "list", "working",
          "fail", "restore", "ftpGet", "ftpCheck", "ftpDial", "ftpRegister"}
Status == {"new", "connecting", "connected", "disconnected", "failed", "closed"}
Goal == {"none", "open", "close", "sftp", "shared", "terminal"}
Ref == Conn \union {None}
TaskRec == [pc : Label, goal : Goal, role : Role, got : [Role -> Ref]]

ConnsOK ==
    /\ handle \in [Conn -> {"none", "new", "up", "lost", "ending"}]
    /\ key \in [Conn -> Key \union {None}]
    /\ ready \subseteq Conn

\* The variables keep the shapes the code gives them; the broadcast channel
\* never holds more than its capacity.
TypeOK ==
    /\ status \in [Sid -> Status]
    /\ proto \in [Sid -> [Role -> Ref]]
    /\ pool \in [Key -> Ref]
    /\ lock \in Task \union {None}
    /\ ConnsOK
    /\ task \in [Task -> TaskRec]
    /\ notices \in Seq(Key) /\ Len(notices) <= NoticeCap
    /\ quit \in [pc : {"no", "take", "drain", "done"}, taken : SUBSET Conn]

\* Whoever dials through the pool or tears down one of its connections does
\* so alone, across the await: no key is dialled twice at once, and no
\* connection is handed out while it is being disconnected.
OneAtATime == \A t \in Task : task[t].pc \in {"dial", "dropping"} <=> lock = t

\* What the pool hands out for an SSH profile and role is a connection made
\* for them, which finished connecting and which nobody disconnected.
PooledIsReal == \A k \in Key : k[1] \in Ssh /\ pool[k] # None =>
    key[pool[k]] = k /\ handle[pool[k]] \in Alive

\* A session never works over a connection of another profile or role: an
\* SSH terminal and its files use TCP sessions of their own.
OwnConnection == \A s \in Sid, r \in Role :
    LET c == proto[s][r] IN
    c # None =>
        key[c] = <<ProfileOf[s], IF ProfileOf[s] \in Ssh THEN r ELSE "Sftp">>

\* The tab of a session behaves as SessionLifecycle promises.
Lifecycle == INSTANCE SessionLifecycle
    WITH awaited <- {s \in Sid : task[<<s, "open">>].pc # "idle"}
Refinement == Lifecycle!Spec

\* An opening session gets its verdict and the teardown a close started is
\* carried through, whoever else waits for the pool.
OpensAndClosesEnd == \A s \in Sid : \A kind \in {"open", "close"} :
    task[<<s, kind>>].pc # "idle" ~> task[<<s, kind>>].pc = "idle"
=============================================================================
