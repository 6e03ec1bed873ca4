------------------------------ MODULE EventBus ------------------------------
(***************************************************************************)
(* AppEventBus of qingqi-plugin (events.rs): the process-wide bus on which *)
(* plugins and services announce CommandsChanged and FeatureChanged.       *)
(*                                                                         *)
(* publish() is not one critical section: it draws a revision from an      *)
(* atomic counter, then stores last_event under one mutex, then sends to   *)
(* every subscriber under another.  Two threads that publish at once       *)
(* interleave between those three steps.                                   *)
(***************************************************************************)
EXTENDS Naturals, Sequences

CONSTANTS Publishers,    \* the threads that call publish()
          Receivers,     \* the receivers subscribe() may hand out
          MaxRevision    \* bound: events published in a behaviour

ASSUME BusAssumption == MaxRevision \in Nat

VARIABLES revision,      \* AppEventBus.revision, the atomic counter
          lastEvent,     \* revision of AppEventBus.last_event, 0 for None
          subscribers,   \* receivers whose Sender is in the subscribers list
          alive,         \* receivers not dropped by their owner
          pc,            \* publisher -> the step of publish() it is at
          held,          \* publisher -> revision of the event it publishes
          sent,          \* receiver -> revisions sent to it, in order
          since          \* history: revision counter when the receiver subscribed

busVars == <<revision, lastEvent, subscribers, alive, pc, held, sent, since>>

Steps == {"idle", "drawn", "stored"}

BusInit ==
    /\ revision = 0
    /\ lastEvent = 0
    /\ subscribers = {}
    /\ alive = {}
    /\ pc = [p \in Publishers |-> "idle"]
    /\ held = [p \in Publishers |-> 0]
    /\ sent = [r \in Receivers |-> <<>>]
    /\ since = [r \in Receivers |-> 0]

-----------------------------------------------------------------------------
(* publish(), its three steps.                                             *)

\* The revision fetch_add gives the event.
Drawn == revision + 1

\* fetch_add on the revision counter, and the event built from it.
DrawRevision(p) ==
    /\ pc[p] = "idle"
    /\ revision < MaxRevision
    /\ revision' = revision + 1
    /\ held' = [held EXCEPT ![p] = Drawn]
    /\ pc' = [pc EXCEPT ![p] = "drawn"]
    /\ UNCHANGED <<lastEvent, subscribers, alive, sent, since>>

\* last_event.lock(), *last_event = Some(event).
StoreLast(p) ==
    /\ pc[p] = "drawn"
    /\ lastEvent' = held[p]
    /\ pc' = [pc EXCEPT ![p] = "stored"]
    /\ UNCHANGED <<revision, subscribers, alive, held, sent, since>>

\* The subscribers a broadcast reaches and retains: a send fails exactly when
\* the receiver has been dropped.  (Fault: the first failure ends it.)
ReachedUntilError == IF subscribers \subseteq alive THEN subscribers ELSE {}
Reached == subscribers \cap alive

\* (Fault: the subscribers lock is released between two sends.)
BroadcastUnlocked(p) ==
    /\ pc[p] = "stored"
    /\ \E r \in subscribers \cap alive :
         /\ \A i \in DOMAIN sent[r] : sent[r][i] # held[p]
         /\ sent' = [sent EXCEPT ![r] = Append(@, held[p])]
         /\ pc' = [pc EXCEPT ![p] = IF \A q \in (subscribers \cap alive) \ {r} :
                                          \E i \in DOMAIN sent[q] : sent[q][i] = held[p]
                                    THEN "idle" ELSE "stored"]
    /\ UNCHANGED <<revision, lastEvent, subscribers, alive, held, since>>

\* subscribers.lock(), retain the subscribers whose send succeeds.
Broadcast(p) ==
    /\ pc[p] = "stored"
    /\ sent' = [r \in Receivers |-> IF r \in Reached THEN Append(sent[r], held[p]) ELSE sent[r]]
    /\ subscribers' = Reached
    /\ pc' = [pc EXCEPT ![p] = "idle"]
    /\ UNCHANGED <<revision, lastEvent, alive, held, since>>

\* subscribe(): a new channel; r stands for its receiving end.
Subscribe(r) ==
    /\ r \notin alive \cup subscribers
    /\ sent[r] = <<>>
    /\ alive' = alive \cup {r}
    /\ subscribers' = subscribers \cup {r}
    /\ since' = [since EXCEPT ![r] = revision]
    /\ UNCHANGED <<revision, lastEvent, pc, held, sent>>

\* The owner of a receiver drops it (a view closes); the bus learns of it only
\* at its next broadcast.
DropReceiver(r) ==
    /\ r \in alive
    /\ alive' = alive \ {r}
    /\ UNCHANGED <<revision, lastEvent, subscribers, pc, held, sent, since>>

BusNext ==
    \/ \E p \in Publishers : DrawRevision(p) \/ StoreLast(p) \/ Broadcast(p)
    \/ \E r \in Receivers : Subscribe(r) \/ DropReceiver(r)

BusSpec == BusInit /\ [][BusNext]_busVars

-----------------------------------------------------------------------------
\* Every variable keeps its shape; the bus is the state of AppEventBus plus the
\* position of each thread inside publish().
BusTypeOK ==
    /\ revision \in 0..MaxRevision
    /\ lastEvent \in 0..MaxRevision
    /\ subscribers \subseteq Receivers
    /\ alive \subseteq Receivers
    /\ pc \in [Publishers -> Steps]
    /\ held \in [Publishers -> 0..MaxRevision]
    /\ \A p \in Publishers : pc[p] # "idle" => held[p] # 0
    /\ sent \in [Receivers -> Seq(1..MaxRevision)]
    /\ since \in [Receivers -> 0..MaxRevision]

InFlight(rev) == \E p \in Publishers : pc[p] # "idle" /\ held[p] = rev

Got(r, rev) == \E i \in DOMAIN sent[r] : sent[r][i] = rev

\* A receiver that is still alive misses no event: every revision drawn after
\* its subscription is in its channel unless its publisher has not reached the
\* broadcast, however many publishers interleave and whichever other receivers
\* are dropped meanwhile (the retain in publish()).
NothingLost ==
    \A r \in alive : \A rev \in (since[r] + 1)..revision :
        Got(r, rev) \/ InFlight(rev)

\* The subscribers lock makes one broadcast atomic, so two receivers see the
\* events they both get in the same order, even where that order is not the
\* order of the revisions.
SameOrderEverywhere ==
    \A r, s \in Receivers :
        \A i, j \in DOMAIN sent[r] : \A k, l \in DOMAIN sent[s] :
            (sent[r][i] = sent[s][k] /\ sent[r][j] = sent[s][l] /\ i < j) => k < l

\* A revision names one event: no receiver gets the same revision twice.
NoDuplicateDelivery ==
    \A r \in Receivers : \A i, j \in DOMAIN sent[r] :
        i # j => sent[r][i] # sent[r][j]

=============================================================================
