-------------------------- MODULE SessionLifecycle --------------------------
(***************************************************************************)
(* What a user of the SSH plugin may rely on about one session tab,        *)
(* whatever the connections underneath do.  A session is opened once, its  *)
(* open task delivers one verdict, it may be told that a connection died   *)
(* and it may come back; a failed session never comes back and a closed    *)
(* one never shows again.  SshSessions implements this specification.      *)
(***************************************************************************)
CONSTANT Sid

VARIABLES status,   \* Sid -> what the tab shows
          awaited   \* sessions whose open task has not delivered its verdict

vars == <<status, awaited>>

Status == {"new", "connecting", "connected", "disconnected", "failed", "closed"}

Shown == {s \in Sid : status[s] \notin {"new", "closed"}}

Init ==
    /\ status = [s \in Sid |-> "new"]
    /\ awaited = {}

Open(s) ==
    /\ status[s] = "new"
    /\ status' = [status EXCEPT ![s] = "connecting"]
    /\ awaited' = awaited \union {s}

\* The verdict of the open task; a session closed meanwhile ignores it.
Verdict(s) ==
    /\ s \in awaited
    /\ awaited' = awaited \ {s}
    /\ IF s \in Shown
       THEN \E v \in {"connected", "failed"} : status' = [status EXCEPT ![s] = v]
       ELSE UNCHANGED status

\* Sessions learn, together, that a connection they shared died.
Lose(S) ==
    /\ \A s \in S : status[s] \in {"connecting", "connected"}
    /\ status' = [s \in Sid |-> IF s \in S THEN "disconnected" ELSE status[s]]
    /\ UNCHANGED awaited

Restore(s) ==
    /\ status[s] = "disconnected"
    /\ status' = [status EXCEPT ![s] = "connected"]
    /\ UNCHANGED awaited

Close(S) ==
    /\ S \subseteq Shown
    /\ status' = [s \in Sid |-> IF s \in S THEN "closed" ELSE status[s]]
    /\ UNCHANGED awaited

Next ==
    \/ \E s \in Sid : Open(s) \/ Verdict(s) \/ Restore(s)
    \/ \E S \in SUBSET Sid : Lose(S) \/ Close(S)

Spec == Init /\ [][Next]_vars
=============================================================================
