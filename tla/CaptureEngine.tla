----------------------------- MODULE CaptureEngine -----------------------------
(***************************************************************************)
(* CaptureEngine of qingqi-feature-http-capture (engine.rs): the proxy that *)
(* records the traffic sent through it.  start() binds the port, hands it   *)
(* to a thread of its own and waits at most two seconds for the thread's    *)
(* verdict; stop() signals the thread and leaves it to end by itself.  Both *)
(* are called on the UI thread only, which does nothing else while it       *)
(* waits.  There is one port: the panel has no field for another.           *)
(***************************************************************************)
EXTENDS Naturals, Sequences

CONSTANTS None,
          MaxProxies    \* bound: proxy threads ever started

ASSUME EngineAssumption == None \notin Nat

VARIABLES engine,       \* proxy_state and shutdown_tx
          proxy,        \* the proxy threads, in the order they were started
          starting      \* the proxy start() waits for, or None

engineVars == <<engine, proxy, starting>>

Stopped    == [running |-> FALSE, tx |-> None]
Running(i) == [running |-> TRUE, tx |-> i]

\* "owes": exchanges it has recorded and not announced yet.
Newborn == [pc |-> "building", told |-> FALSE, said |-> "nothing", owes |-> 0]

EngineInit == engine = Stopped /\ proxy = <<>> /\ starting = None

\* The UI thread does not wait for a proxy.
Free == starting = None

\* Whatever becomes of a proxy, it has its listener until its thread is over.
PortFree == \A i \in DOMAIN proxy : proxy[i].pc = "over"

\* start, up to the wait.  When the engine runs already, the certificate cannot
\* be made or the port is held, it fails and changes nothing.
Bind ==
    /\ Free /\ ~engine.running /\ PortFree /\ Len(proxy) < MaxProxies
    /\ proxy' = Append(proxy, Newborn)
    /\ starting' = Len(proxy) + 1
    /\ UNCHANGED engine

\* The thread sets the proxy up and says so, says why it cannot, or panics.
Build(i) ==
    /\ proxy[i].pc = "building"
    /\ \/ proxy' = [proxy EXCEPT ![i].pc = "serving", ![i].said = "ok"]
       \/ \E said \in {"error", "nothing"} :
              proxy' = [proxy EXCEPT ![i].pc = "over", ![i].said = said]
    /\ UNCHANGED <<engine, starting>>

\* The verdict arrives.
Started ==
    /\ ~Free /\ proxy[starting].said = "ok"
    /\ engine' = Running(starting)
    /\ starting' = None
    /\ UNCHANGED proxy

\* An error, or a thread that is gone without a word: it is joined.
StartFails ==
    /\ ~Free /\ proxy[starting].said # "ok" /\ proxy[starting].pc = "over"
    /\ starting' = None
    /\ UNCHANGED <<engine, proxy>>

\* (Fault: its shutdown sender is handed, unused, to the thread that joins it.)
StartGivesUp ==
    /\ ~Free /\ proxy[starting].said = "nothing"
    /\ starting' = None
    /\ UNCHANGED <<engine, proxy>>

\* Two seconds have passed: the thread, still building, is told to end.
StartTimesOut ==
    /\ ~Free /\ proxy[starting].said = "nothing"
    /\ proxy' = [proxy EXCEPT ![starting].told = TRUE]
    /\ starting' = None
    /\ UNCHANGED engine

Stop ==
    /\ Free /\ engine.running
    /\ proxy' = [proxy EXCEPT ![engine.tx].told = TRUE]
    /\ engine' = Stopped
    /\ UNCHANGED starting

\* A proxy that was told, or fails by itself, finishes what it is at and ends.
Ends(i) ==
    /\ proxy[i].pc = "serving" /\ proxy[i].owes = 0
    /\ proxy' = [proxy EXCEPT ![i].pc = "over"]
    /\ UNCHANGED <<engine, starting>>

Threads == \E i \in DOMAIN proxy : Build(i) \/ Ends(i)

-----------------------------------------------------------------------------
\* No traffic is intercepted behind the user's back: a proxy nobody told to end is
\* the one the engine runs and can stop, or the one start() waits for.
NoGhostProxy ==
    \A i \in DOMAIN proxy :
        proxy[i].pc # "over" /\ ~proxy[i].told => engine = Running(i) \/ starting = i

=============================================================================
