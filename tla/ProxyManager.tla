---------------------------- MODULE ProxyManager -----------------------------
(***************************************************************************)
(* torbrowser_driver/_proxy_intercept_substrate.py, class ProxyManager:    *)
(* the daemon thread that runs the intercept proxy, against the thread     *)
(* that starts and stops it.  One manager per driver session; the sessions *)
(* of a process want the same intercept port.                              *)
(*                                                                         *)
(* A shutdown is a coroutine handed to the daemon's loop: it acts on the   *)
(* master and the adapter as they were when it was handed over, and only   *)
(* when the loop awaits something.                                         *)
(***************************************************************************)
EXTENDS SessionIds

CONSTANT NoOne      \* nobody listens on the intercept port

ASSUME NoOneAssumption == NoOne \notin Sessions

VARIABLES
    thread,         \* where each manager's daemon thread is
    startEvent,     \* _start_event
    startError,     \* _start_error is set
    adapter,        \* _adapter is assigned and serving
    master,         \* _master is assigned
    shutdown,       \* the shutdown its loop still has to run
    listener        \* the manager whose master holds the intercept port

mgrVars == <<thread, startEvent, startError, adapter, master, shutdown, listener>>

NoShutdown == [asked |-> FALSE, master |-> FALSE, adapter |-> FALSE]
ThreadStates == {"none", "starting", "serving", "building", "ready", "binding",
                 "listening", "failing", "exited"}
Alive(s) == thread[s] \notin {"none", "exited"}
LoopRunning(s) == Alive(s) /\ thread[s] # "starting"

MgrTypeOK ==
    /\ thread \in [Sessions -> ThreadStates]
    /\ startEvent \in [Sessions -> BOOLEAN]
    /\ startError \in [Sessions -> BOOLEAN]
    /\ adapter \in [Sessions -> BOOLEAN]
    /\ master \in [Sessions -> BOOLEAN]
    /\ shutdown \in [Sessions -> [asked : BOOLEAN, master : BOOLEAN, adapter : BOOLEAN]]
    /\ listener \in Sessions \cup {NoOne}

MgrInit ==
    /\ thread = [s \in Sessions |-> "none"]
    /\ startEvent = [s \in Sessions |-> FALSE]
    /\ startError = [s \in Sessions |-> FALSE]
    /\ adapter = [s \in Sessions |-> FALSE]
    /\ master = [s \in Sessions |-> FALSE]
    /\ shutdown = [s \in Sessions |-> NoShutdown]
    /\ listener = NoOne

-----------------------------------------------------------------------------
(* The thread that calls start() and stop().                               *)

\* start(): the daemon thread is created.
MgrStart(s) ==
    /\ thread' = [thread EXCEPT ![s] = "starting"]
    /\ UNCHANGED <<startEvent, startError, adapter, master, shutdown, listener>>

\* _signal_shutdown: nothing is asked of a loop that does not run.
SignalShutdown(s) ==
    /\ shutdown' = IF LoopRunning(s)
                   THEN [shutdown EXCEPT ![s] = [asked |-> TRUE, master |-> master[s],
                                                 adapter |-> adapter[s]]]
                   ELSE shutdown
    /\ UNCHANGED <<thread, startEvent, startError, adapter, master, listener>>

-----------------------------------------------------------------------------
(* The daemon thread: _run and _main.                                      *)

ThreadStep(s, from, to) == thread[s] = from /\ thread' = [thread EXCEPT ![s] = to]

\* The thread ends: the adapter is closed, the port is free, start() is released.
Exit(s) ==
    /\ thread' = [thread EXCEPT ![s] = "exited"]
    /\ adapter' = [adapter EXCEPT ![s] = FALSE]
    /\ startEvent' = [startEvent EXCEPT ![s] = TRUE]
    /\ shutdown' = [shutdown EXCEPT ![s] = NoShutdown]
    /\ listener' = IF listener = s THEN NoOne ELSE listener

LoopBegins(s) ==
    /\ ThreadStep(s, "starting", "serving")
    /\ UNCHANGED <<startEvent, startError, adapter, master, shutdown, listener>>

AdapterServes(s) ==
    /\ ThreadStep(s, "serving", "building")
    /\ adapter' = [adapter EXCEPT ![s] = TRUE]
    /\ UNCHANGED <<startEvent, startError, master, shutdown, listener>>

MasterBuilt(s) ==
    /\ ThreadStep(s, "building", "ready")
    /\ master' = [master EXCEPT ![s] = TRUE]
    /\ UNCHANGED <<startEvent, startError, adapter, shutdown, listener>>

\* The adapter cannot bind, or the master cannot be built: start() is released ...
StartFails(s) ==
    /\ thread[s] \in {"serving", "building"}
    /\ thread' = [thread EXCEPT ![s] = "failing"]
    /\ startError' = [startError EXCEPT ![s] = TRUE]
    /\ startEvent' = [startEvent EXCEPT ![s] = TRUE]
    /\ UNCHANGED <<adapter, master, shutdown, listener>>

\* ... and the adapter closed then, which may take its time.
FailureEnds(s) ==
    /\ thread[s] = "failing"
    /\ Exit(s)
    /\ UNCHANGED <<startError, master>>

\* start() is released before master.run() has bound the intercept port.
Signals(s) ==
    /\ ThreadStep(s, "ready", "binding")
    /\ startEvent' = [startEvent EXCEPT ![s] = TRUE]
    /\ UNCHANGED <<startError, adapter, master, shutdown, listener>>

Binds(s) ==
    /\ listener = NoOne
    /\ ThreadStep(s, "binding", "listening")
    /\ listener' = s
    /\ UNCHANGED <<startEvent, startError, adapter, master, shutdown>>

\* master.run() raises: the port is taken, or a later failure.
RunFails(s) ==
    /\ \/ thread[s] = "binding" /\ listener # NoOne
       \/ thread[s] = "listening"
    /\ Exit(s)
    /\ UNCHANGED <<startError, master>>

\* The loop reaches an await and runs the shutdown it was handed.
RunShutdown(s) ==
    /\ shutdown[s].asked
    /\ thread[s] \in {"serving", "binding", "listening", "failing"}
    /\ IF shutdown[s].master
       THEN Exit(s)
       ELSE /\ adapter' = [adapter EXCEPT ![s] = @ /\ ~shutdown[s].adapter]
            /\ shutdown' = [shutdown EXCEPT ![s] = NoShutdown]
            /\ UNCHANGED <<thread, startEvent, listener>>
    /\ UNCHANGED <<startError, master>>

Daemon(s) ==
    \/ LoopBegins(s)
    \/ AdapterServes(s)
    \/ MasterBuilt(s)
    \/ StartFails(s)
    \/ FailureEnds(s)
    \/ Signals(s)
    \/ Binds(s)
    \/ RunFails(s)
    \/ RunShutdown(s)

\* The process dies, its managers and their threads with it.
ThreadsDie ==
    /\ thread' = [s \in Sessions |-> "none"]
    /\ startEvent' = [s \in Sessions |-> FALSE]
    /\ startError' = [s \in Sessions |-> FALSE]
    /\ adapter' = [s \in Sessions |-> FALSE]
    /\ master' = [s \in Sessions |-> FALSE]
    /\ shutdown' = [s \in Sessions |-> NoShutdown]
    /\ listener' = NoOne
=============================================================================
