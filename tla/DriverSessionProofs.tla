------------------------ MODULE DriverSessionProofs -------------------------
(***************************************************************************)
(* Theorems about DriverSession for every number of sessions, every set of *)
(* capabilities and all faults.                                            *)
(***************************************************************************)
EXTENDS DriverSession, TLAPS

(***************************************************************************)
(* The inductive invariant ties each field of the driver to the thing it   *)
(* stands for, by where the session is in __enter__ or close().            *)
(***************************************************************************)

\* Sessions follow one another.
OneAtATime ==
    \A s, t \in Sessions : pc[s] \notin Ended /\ pc[t] \notin Ended => s = t

\* A tor that may run is _tor_process's, unless it is still being launched or has
\* been left by a crash.
TorIsOwned ==
    \A s \in Sessions :
       /\ pc[s] \notin {"bootstrap", "authenticate", "crashed"}
             => tor[s] \in {"none", "down"} \/ torProcess[s]
       /\ pc[s] \in {"new", "preflight", "removeDir", "closed"} => tor[s] \in {"none", "down"}

AfterBridgeClosed == {"stopProxy", "join", "restore", "rewrite", "quit", "stopTor",
                      "removeDir", "closed"}

\* close() has stopped what it has passed.
PartsAreStopped ==
    \A s \in Sessions :
       /\ pc[s] \in AfterBridgeClosed => ~bridge[s]
       /\ pc[s] \in {"stopTor", "removeDir", "closed"} => ~browser[s]
       /\ pc[s] = "closed" => ~dir[s]

\* No daemon runs, and none has failed, before ProxyManager.start().
BeforeProxy == {"new", "preflight", "bootstrap", "authenticate", "bridge", "snapshot",
                "merge", "probe"}
DaemonIsLate == \A s \in Sessions : pc[s] \in BeforeProxy => ~Alive(s) /\ ~startError[s]

\* A daemon that lives is being waited for, is _proxy_manager's, or is overdue.
DaemonIsKnown ==
    \A s \in Sessions :
       Alive(s) => \/ s \in overdue
                   \/ pc[s] \in {"proxy", "join"}
                   \/ manager[s] /\ pc[s] \in {"browser", "helper", "up", "close", "stopProxy"}

\* What is written back has been read from a snapshot.
HeldIsRead == \A s \in Sessions : pc[s] = "rewrite" => held[s] \in Files

\* Where _policies_snapshot_dir may be assigned.
Installed == {"probe", "proxy", "browser", "helper", "up", "close", "stopProxy", "join",
              "restore"}
InstalledIsPlaced == \A s \in Sessions : snapshotDir[s] => pc[s] \in Installed

\* As long as nothing has befallen policies.json, it is the owner's, or a session
\* has what the owner's file was: in its snapshot, or read to be written back.
OriginIsKept ==
    damage = {} =>
       /\ (\A s \in Sessions : ~snapshotDir[s] /\ pc[s] # "rewrite") => policies = origin
       /\ \A s \in Sessions :
             /\ snapshotDir[s] \/ pc[s] = "merge" => snapshot[s] = origin
             /\ pc[s] = "rewrite" => held[s] = origin

\* The owner's policies are in the file, or in what is about to be written to it,
\* and in every snapshot that may be.
OwnerIsKept ==
    origin = Content({Owner}) /\ "torn" \notin damage =>
       /\ (\A s \in Sessions : pc[s] # "rewrite") => Owner \in policies.says
       /\ \A s \in Sessions :
             /\ snapshot[s] = NoSnapshot \/ Owner \in snapshot[s].says
             /\ pc[s] \in {"merge", "rewrite"} => Owner \in held[s].says

\* The inductive invariant.
IInv == /\ TypeOK /\ HeldIsRead /\ OneAtATime /\ TorIsOwned /\ PartsAreStopped
        /\ DaemonIsLate /\ DaemonIsKnown /\ InstalledIsPlaced /\ OriginIsKept /\ OwnerIsKept

\* Where a session may be.
Places == Entering \cup Closing \cup Ended \cup {"up"}

\* The fields hold what they may.
FieldTypeOK ==
    /\ caps \in [Sessions -> SUBSET Caps]
    /\ tor \in [Sessions -> TorStates]
    /\ bridge \in [Sessions -> BOOLEAN] /\ browser \in [Sessions -> BOOLEAN]
    /\ torProcess \in [Sessions -> BOOLEAN] /\ manager \in [Sessions -> BOOLEAN]
    /\ snapshotDir \in [Sessions -> BOOLEAN]
    /\ dir \in [Sessions -> BOOLEAN] /\ old \in [Sessions -> BOOLEAN]
    /\ origin \in Files
    /\ damage \subseteq {"installed", "torn", "reaped"}
    /\ overdue \subseteq Sessions

-----------------------------------------------------------------------------
(* What a step may change.                                                *)

\* The managers move by their daemons, by start() and stop(), and with the process.
LEMMA MgrFrame ==
    [Next]_vars =>
        \/ \E s \in Sessions : Daemon(s) \/ MgrStart(s) \/ SignalShutdown(s)
        \/ ThreadsDie
        \/ UNCHANGED mgrVars
BY DEF Next, Driver, DaemonStep, Enter, Preflight, Bootstrap, Authenticate,
       StartBridge, Snapshot, Merge, StartProxy, ProxyStarted, ProxyTimesOut,
       StartBrowser, InstallHelper, StepRaises, Exits, CloseBridge, StopProxy, Join,
       Restore, Rewrite, RewriteFails, Quit, StopTor, RemoveDir, Crash, KillOrphan,
       Age, NeighbourEnters, vars

\* policies.json and its snapshots move by the certificate policy's callers, and by
\* what removes directories.
LEMMA PolicyFrame ==
    [Next]_vars =>
        \/ \E s \in Sessions : \/ Snapshot(s) \/ Merge(s) \/ Restore(s) \/ Rewrite(s)
                               \/ Enter(s) \/ RemoveDir(s) \/ Crash(s)
        \/ NeighbourEnters
        \/ UNCHANGED policyVars
BY DEF Next, Driver, DaemonStep, Preflight, Bootstrap, Authenticate, StartBridge,
       StartProxy, ProxyStarted, ProxyTimesOut, StartBrowser, InstallHelper,
       StepRaises, Exits, CloseBridge, StopProxy, Join, RewriteFails, Quit, StopTor,
       KillOrphan, Age, vars

\* No step forgets what has befallen policies.json, or what it was.
LEMMA HistoryFrame ==
    ASSUME [Next]_vars
    PROVE  damage \subseteq damage' /\ origin' = origin
<1>1. ASSUME NEW s \in Sessions, Driver(s)
      PROVE  damage \subseteq damage' /\ origin' = origin
  BY <1>1 DEF Driver, Preflight, Bootstrap, Authenticate, StartBridge, Snapshot,
              Merge, StartProxy, ProxyStarted, ProxyTimesOut, StartBrowser,
              InstallHelper, StepRaises, CloseBridge, StopProxy, Join, Restore,
              Rewrite, RewriteFails, Quit, StopTor, RemoveDir, historyVars
<1>2. ASSUME NEW s \in Sessions, Enter(s) \/ Exits(s) \/ DaemonStep(s)
                                 \/ Crash(s) \/ KillOrphan(s) \/ Age(s)
      PROVE  damage \subseteq damage' /\ origin' = origin
  BY <1>2 DEF Enter, Exits, DaemonStep, Crash, KillOrphan, Age, historyVars
<1>3. CASE NeighbourEnters \/ UNCHANGED vars
  BY <1>3 DEF NeighbourEnters, historyVars, vars
<1> QED
  BY <1>1, <1>2, <1>3 DEF Next

\* A driver moves when it is entered, or while it is being entered, up or closed.
LEMMA Moves ==
    ASSUME TypeOK, [Next]_vars
    PROVE  \/ pc' = pc
           \/ \E s \in Sessions : Enter(s)
           \/ \E s \in Sessions, p \in Places :
                 pc[s] \notin Ended /\ pc' = [pc EXCEPT ![s] = p]
<1> USE DEF Places, Entering, Closing, Ended
<1>1. ASSUME NEW s \in Sessions, Driver(s)
      PROVE  \E p \in Places : pc[s] \notin Ended /\ pc' = [pc EXCEPT ![s] = p]
  BY <1>1 DEF Driver, Preflight, Bootstrap, Authenticate, StartBridge, Snapshot,
              Merge, StartProxy, ProxyStarted, ProxyTimesOut, StartBrowser,
              InstallHelper, StepRaises, CloseBridge, StopProxy, Join, Restore,
              Rewrite, RewriteFails, Quit, StopTor, RemoveDir, Goto, Raise,
              AfterTor, AfterBridge
<1>2. ASSUME NEW s \in Sessions, Exits(s) \/ Crash(s)
      PROVE  \E p \in Places : pc[s] \notin Ended /\ pc' = [pc EXCEPT ![s] = p]
  BY <1>2 DEF Exits, Crash, Goto, Raise, Set
<1>3. ASSUME NEW s \in Sessions, DaemonStep(s) \/ KillOrphan(s) \/ Age(s)
      PROVE  pc' = pc
  BY <1>3 DEF DaemonStep, KillOrphan, Age
<1>4. CASE NeighbourEnters \/ UNCHANGED vars
  BY <1>4 DEF NeighbourEnters, vars
<1> QED
  BY <1>1, <1>2, <1>3, <1>4 DEF Next

-----------------------------------------------------------------------------
(* Types.                                                                  *)

\* What the certificate policy writes is a file.
LEMMA FilesTyped ==
    /\ Absent \in Files /\ Malformed \in Files
    /\ \A says \in SUBSET (Sessions \cup {Owner}) : Content(says) \in Files
    /\ \A f \in Files \cup {NoSnapshot} : f.says \in SUBSET (Sessions \cup {Owner})
    /\ NoSnapshot \notin Files
<1>1. \A says \in SUBSET (Sessions \cup {Owner}) : Content(says) \in Files
  BY DEF Files, Content
<1> QED
  BY <1>1 DEF Files, Content, Absent, Malformed, NoSnapshot

\* A daemon thread that ends leaves its manager well typed.
LEMMA ExitType ==
    ASSUME MgrTypeOK, NEW s \in Sessions, Exit(s)
    PROVE  /\ thread' \in [Sessions -> ThreadStates]
           /\ startEvent' \in [Sessions -> BOOLEAN]
           /\ adapter' \in [Sessions -> BOOLEAN]
           /\ shutdown' \in [Sessions -> [asked : BOOLEAN, master : BOOLEAN, adapter : BOOLEAN]]
           /\ listener' \in Sessions \cup {NoOne}
<1>1. NoShutdown \in [asked : BOOLEAN, master : BOOLEAN, adapter : BOOLEAN]
  BY DEF NoShutdown
<1> QED
  BY <1>1 DEF Exit, MgrTypeOK, ThreadStates

\* The managers stay well typed.
LEMMA MgrType ==
    ASSUME MgrTypeOK, [Next]_vars
    PROVE  MgrTypeOK'
<1>1. ASSUME NEW s \in Sessions, Daemon(s)
      PROVE  MgrTypeOK'
  <2>1. CASE LoopBegins(s) \/ AdapterServes(s) \/ MasterBuilt(s) \/ Signals(s) \/ Binds(s)
    BY <2>1 DEF LoopBegins, AdapterServes, MasterBuilt, Signals, Binds, ThreadStep,
                MgrTypeOK, ThreadStates
  <2>2. CASE StartFails(s) \/ FailureEnds(s) \/ RunFails(s)
    BY <2>2, ExitType DEF StartFails, FailureEnds, RunFails, MgrTypeOK, ThreadStates
  <2>3. CASE RunShutdown(s) /\ shutdown[s].master
    BY <2>3, ExitType DEF RunShutdown, MgrTypeOK
  <2>4. CASE RunShutdown(s) /\ ~shutdown[s].master
    <3>1. NoShutdown \in [asked : BOOLEAN, master : BOOLEAN, adapter : BOOLEAN]
      BY DEF NoShutdown
    <3> QED
      BY <2>4, <3>1 DEF RunShutdown, MgrTypeOK
  <2> QED
    BY <1>1, <2>1, <2>2, <2>3, <2>4 DEF Daemon
<1>2. ASSUME NEW s \in Sessions, MgrStart(s)
      PROVE  MgrTypeOK'
  BY <1>2 DEF MgrStart, MgrTypeOK, ThreadStates
<1>3. ASSUME NEW s \in Sessions, SignalShutdown(s)
      PROVE  MgrTypeOK'
  <2>1. [asked |-> TRUE, master |-> master[s], adapter |-> adapter[s]]
           \in [asked : BOOLEAN, master : BOOLEAN, adapter : BOOLEAN]
    BY DEF MgrTypeOK
  <2> QED
    BY <1>3, <2>1 DEF SignalShutdown, MgrTypeOK
<1>4. CASE ThreadsDie
  BY <1>4 DEF ThreadsDie, MgrTypeOK, ThreadStates, NoShutdown
<1>5. CASE UNCHANGED mgrVars
  BY <1>5 DEF mgrVars, MgrTypeOK
<1> QED
  BY <1>1, <1>2, <1>3, <1>4, <1>5, MgrFrame

\* policies.json, its snapshots and what is held of them stay well typed.
LEMMA PolicyType ==
    ASSUME TypeOK, HeldIsRead, [Next]_vars
    PROVE  PolicyTypeOK'
<1> USE DEF TypeOK, PolicyTypeOK
<1>1. ASSUME NEW s \in Sessions, Snapshot(s)
      PROVE  PolicyTypeOK'
  BY <1>1 DEF Snapshot, TakeSnapshot
<1>2. ASSUME NEW s \in Sessions, Merge(s)
      PROVE  PolicyTypeOK'
  <2>1. held[s].says \cup {s} \in SUBSET (Sessions \cup {Owner})
    BY FilesTyped
  <2> QED
    BY <1>2, <2>1, FilesTyped DEF Merge, WriteMerged
<1>3. ASSUME NEW s \in Sessions, Restore(s)
      PROVE  PolicyTypeOK'
  <2>1. {} \in SUBSET (Sessions \cup {Owner})
    OBVIOUS
  <2>2. CASE RestoreAbsence(s)
    BY <2>2, FilesTyped DEF RestoreAbsence
  <2>3. CASE RestoreTruncate(s)
    BY <2>3, <2>1, FilesTyped DEF RestoreTruncate
  <2>4. CASE UNCHANGED policyVars
    BY <2>4 DEF policyVars
  <2> QED
    BY <1>3, <2>2, <2>3, <2>4 DEF Restore
<1>4. ASSUME NEW s \in Sessions, Rewrite(s)
      PROVE  PolicyTypeOK'
  BY <1>4 DEF Rewrite, RestoreWrite, Goto, HeldIsRead
<1>5. ASSUME NEW s \in Sessions, Enter(s) \/ RemoveDir(s) \/ Crash(s)
      PROVE  PolicyTypeOK'
  BY <1>5 DEF Enter, Reap, RemoveDir, Crash, Set
<1>6. CASE NeighbourEnters
  BY <1>6 DEF NeighbourEnters, Reap
<1>7. CASE UNCHANGED policyVars
  BY <1>7 DEF policyVars
<1> QED
  BY <1>1, <1>2, <1>3, <1>4, <1>5, <1>6, <1>7, PolicyFrame

\* Where a driver goes next is a place.
LEMMA PcType ==
    ASSUME TypeOK, [Next]_vars
    PROVE  pc' \in [Sessions -> Places]
<1>1. pc \in [Sessions -> Places] /\ "preflight" \in Places
  BY DEF TypeOK, Places, Entering
<1> QED
  BY <1>1, Moves DEF Enter, Goto

\* The fields of the driver and what they stand for stay well typed.
LEMMA FieldType ==
    ASSUME TypeOK, [Next]_vars
    PROVE  FieldTypeOK'
<1> USE DEF TorStates, Set
<1>1. FieldTypeOK
  BY DEF TypeOK, FieldTypeOK
<1>2. ASSUME NEW s \in Sessions, Enter(s)
      PROVE  FieldTypeOK'
  BY <1>1, <1>2, CapSetsAssumption DEF Enter, Reap, FieldTypeOK, partVars,
                                       historyVars, Nowhere
<1>3. ASSUME NEW s \in Sessions, Preflight(s) \/ Bootstrap(s) \/ Authenticate(s)
                                 \/ StartBridge(s)
      PROVE  FieldTypeOK'
  BY <1>1, <1>3 DEF Preflight, Bootstrap, Authenticate, StartBridge, FieldTypeOK,
                    fieldVars, dirVars, historyVars
<1>4. ASSUME NEW s \in Sessions, Snapshot(s) \/ Merge(s) \/ StartProxy(s)
                                 \/ ProxyStarted(s) \/ ProxyTimesOut(s)
      PROVE  FieldTypeOK'
  BY <1>1, <1>4 DEF Snapshot, Merge, StartProxy, ProxyStarted, ProxyTimesOut,
                    FieldTypeOK, fieldVars, dirVars, historyVars, partVars
<1>5. ASSUME NEW s \in Sessions, StartBrowser(s) \/ InstallHelper(s)
                                 \/ StepRaises(s) \/ Exits(s) \/ CloseBridge(s)
      PROVE  FieldTypeOK'
  BY <1>1, <1>5 DEF StartBrowser, InstallHelper, StepRaises, Exits, CloseBridge,
                    FieldTypeOK, fieldVars, dirVars, historyVars, partVars
<1>6. ASSUME NEW s \in Sessions, StopProxy(s) \/ Join(s) \/ Restore(s)
                                 \/ Rewrite(s) \/ RewriteFails(s)
      PROVE  FieldTypeOK'
  BY <1>1, <1>6 DEF StopProxy, Join, Restore, Rewrite, RewriteFails, FieldTypeOK,
                    fieldVars, dirVars, historyVars, partVars
<1>7. ASSUME NEW s \in Sessions, Quit(s) \/ StopTor(s) \/ RemoveDir(s)
      PROVE  FieldTypeOK'
  BY <1>1, <1>7 DEF Quit, StopTor, RemoveDir, FieldTypeOK, fieldVars, dirVars,
                    historyVars, partVars
<1>8. ASSUME NEW s \in Sessions, Crash(s)
      PROVE  FieldTypeOK'
  BY <1>1, <1>8 DEF Crash, FieldTypeOK, fieldVars, dirVars, historyVars, partVars,
                    Nowhere
<1>9. ASSUME NEW s \in Sessions, KillOrphan(s) \/ Age(s) \/ DaemonStep(s)
      PROVE  FieldTypeOK'
  BY <1>1, <1>9 DEF KillOrphan, Age, DaemonStep, FieldTypeOK, fieldVars, dirVars,
                    historyVars, partVars, Nowhere
<1>10. CASE NeighbourEnters
  BY <1>1, <1>10 DEF NeighbourEnters, Reap, FieldTypeOK, fieldVars, historyVars,
                     partVars, Nowhere
<1>11. CASE UNCHANGED vars
  BY <1>1, <1>11 DEF FieldTypeOK, fieldVars, dirVars, historyVars, partVars, vars
<1> QED
  BY <1>2, <1>3, <1>4, <1>5, <1>6, <1>7, <1>8, <1>9, <1>10, <1>11 DEF Next, Driver

-----------------------------------------------------------------------------
(* The parts of the invariant, one at a time.                              *)

\* Only __enter__ of a new session makes one active, and only when no other is.
LEMMA OneAtATimeStep ==
    ASSUME TypeOK, OneAtATime, [Next]_vars
    PROVE  OneAtATime'
<1>1. pc \in [Sessions -> Places]
  BY DEF TypeOK, Places
<1>2. ASSUME NEW s \in Sessions, Enter(s)
      PROVE  OneAtATime'
  BY <1>1, <1>2 DEF Enter, Goto, OneAtATime
<1>3. ASSUME NEW s \in Sessions, NEW p \in Places, pc[s] \notin Ended,
             pc' = [pc EXCEPT ![s] = p]
      PROVE  OneAtATime'
  BY <1>1, <1>3 DEF OneAtATime
<1>4. CASE pc' = pc
  BY <1>4 DEF OneAtATime
<1> QED
  BY <1>2, <1>3, <1>4, Moves

\* tor and _tor_process keep in step; a crash finds no other session to forget.
LEMMA TorIsOwnedStep ==
    ASSUME TypeOK, OneAtATime, TorIsOwned, [Next]_vars
    PROVE  TorIsOwned'
<1> USE DEF TorStates, Set, Goto, Raise, TorIsOwned
<1>1. /\ pc \in [Sessions -> Places]
      /\ tor \in [Sessions -> TorStates]
      /\ torProcess \in [Sessions -> BOOLEAN]
  BY DEF TypeOK, Places
<1>2. ASSUME NEW s \in Sessions, Enter(s)
      PROVE  TorIsOwned'
  BY <1>1, <1>2 DEF Enter, partVars
<1>3. ASSUME NEW s \in Sessions, Preflight(s) \/ Bootstrap(s) 
      PROVE  TorIsOwned'
  BY <1>1, <1>3 DEF Preflight, Bootstrap, fieldVars
<1>4. ASSUME NEW s \in Sessions, Authenticate(s) \/ StartBridge(s)
      PROVE  TorIsOwned'
  BY <1>1, <1>4 DEF Authenticate, StartBridge, AfterTor, AfterBridge, fieldVars
<1>5. ASSUME NEW s \in Sessions, Snapshot(s) \/ Merge(s) \/ StartProxy(s)
                                 \/ ProxyStarted(s) \/ ProxyTimesOut(s)
      PROVE  TorIsOwned'
  BY <1>1, <1>5 DEF Snapshot, Merge, StartProxy, ProxyStarted, ProxyTimesOut,
                    fieldVars, partVars
<1>6. ASSUME NEW s \in Sessions, StartBrowser(s) \/ InstallHelper(s)
                                 \/ StepRaises(s) \/ Exits(s) \/ CloseBridge(s)
      PROVE  TorIsOwned'
  BY <1>1, <1>6 DEF StartBrowser, InstallHelper, StepRaises, Exits, CloseBridge,
                    fieldVars, partVars
<1>7. ASSUME NEW s \in Sessions, StopProxy(s) \/ Join(s) \/ Restore(s)
                                 \/ Rewrite(s) \/ RewriteFails(s)
      PROVE  TorIsOwned'
  BY <1>1, <1>7 DEF StopProxy, Join, Restore, Rewrite, RewriteFails, fieldVars,
                    partVars
<1>8. ASSUME NEW s \in Sessions, Quit(s) \/ StopTor(s) \/ RemoveDir(s)
      PROVE  TorIsOwned'
  BY <1>1, <1>8 DEF Quit, StopTor, RemoveDir, fieldVars, partVars
<1>9. ASSUME NEW s \in Sessions, Crash(s)
      PROVE  TorIsOwned'
  BY <1>1, <1>9 DEF Crash, Nowhere, OneAtATime, Ended
<1>10. ASSUME NEW s \in Sessions, KillOrphan(s) \/ Age(s) \/ DaemonStep(s)
      PROVE  TorIsOwned'
  BY <1>1, <1>10 DEF KillOrphan, Age, DaemonStep, fieldVars, partVars
<1>11. CASE NeighbourEnters \/ UNCHANGED vars
  BY <1>1, <1>11 DEF NeighbourEnters, fieldVars, partVars, vars
<1> QED
  BY <1>2, <1>3, <1>5, <1>6, <1>7, <1>8, <1>9, <1>10, <1>11, <1>4 DEF Next, Driver

\* What close() has passed, nothing starts again.
LEMMA PartsAreStoppedStep ==
    ASSUME TypeOK, PartsAreStopped, [Next]_vars
    PROVE  PartsAreStopped'
<1> USE DEF Set, Goto, Raise, PartsAreStopped, AfterBridgeClosed
<1>1. /\ pc \in [Sessions -> Places]
      /\ bridge \in [Sessions -> BOOLEAN] /\ browser \in [Sessions -> BOOLEAN]
      /\ dir \in [Sessions -> BOOLEAN]
  BY DEF TypeOK, Places
<1>2. ASSUME NEW s \in Sessions, Enter(s)
      PROVE  PartsAreStopped'
  BY <1>1, <1>2 DEF Enter, Reap, partVars
<1>3. ASSUME NEW s \in Sessions, Preflight(s) \/ Bootstrap(s) \/ Authenticate(s)
                                 \/ StartBridge(s)
      PROVE  PartsAreStopped'
  BY <1>1, <1>3 DEF Preflight, Bootstrap, Authenticate, StartBridge, AfterTor,
                    AfterBridge, dirVars
<1>4. ASSUME NEW s \in Sessions, Snapshot(s) \/ Merge(s) \/ StartProxy(s)
                                 \/ ProxyStarted(s) \/ ProxyTimesOut(s)
      PROVE  PartsAreStopped'
  BY <1>1, <1>4 DEF Snapshot, Merge, StartProxy, ProxyStarted, ProxyTimesOut,
                    dirVars, partVars
<1>5. ASSUME NEW s \in Sessions, StartBrowser(s) \/ InstallHelper(s)
                                 \/ StepRaises(s) \/ Exits(s) \/ CloseBridge(s)
      PROVE  PartsAreStopped'
  BY <1>1, <1>5 DEF StartBrowser, InstallHelper, StepRaises, Exits, CloseBridge,
                    dirVars, partVars
<1>6. ASSUME NEW s \in Sessions, StopProxy(s) \/ Join(s) \/ Restore(s)
                                 \/ Rewrite(s) \/ RewriteFails(s)
      PROVE  PartsAreStopped'
  BY <1>1, <1>6 DEF StopProxy, Join, Restore, Rewrite, RewriteFails, dirVars,
                    partVars
<1>7. ASSUME NEW s \in Sessions, Quit(s) \/ StopTor(s) \/ RemoveDir(s)
      PROVE  PartsAreStopped'
  BY <1>1, <1>7 DEF Quit, StopTor, RemoveDir, dirVars, partVars
<1>8. ASSUME NEW s \in Sessions, Crash(s)
      PROVE  PartsAreStopped'
  BY <1>1, <1>8 DEF Crash, Nowhere, Ended, dirVars
<1>9. ASSUME NEW s \in Sessions, KillOrphan(s) \/ Age(s) \/ DaemonStep(s)
      PROVE  PartsAreStopped'
  BY <1>1, <1>9 DEF KillOrphan, Age, DaemonStep, dirVars, partVars
<1>10. CASE NeighbourEnters \/ UNCHANGED vars
  BY <1>1, <1>10 DEF NeighbourEnters, Reap, dirVars, partVars, vars
<1> QED
  BY <1>2, <1>3, <1>4, <1>5, <1>6, <1>7, <1>8, <1>9, <1>10 DEF Next, Driver

\* start() is the first that has anything to do with a daemon.
LEMMA DaemonIsLateStep ==
    ASSUME TypeOK, DaemonIsLate, [Next]_vars
    PROVE  DaemonIsLate'
<1> USE DEF Set, Goto, Raise, DaemonIsLate, BeforeProxy
<1>1. /\ pc \in [Sessions -> Places]
      /\ startError \in [Sessions -> BOOLEAN]
      /\ thread \in [Sessions -> ThreadStates]
  BY DEF TypeOK, Places, MgrTypeOK
<1>2. ASSUME NEW s \in Sessions, Enter(s) \/ Exits(s)
      PROVE  DaemonIsLate'
  BY <1>1, <1>2 DEF Enter, Exits, mgrVars, Alive
<1>3. ASSUME NEW s \in Sessions, Preflight(s) \/ Bootstrap(s) \/ Authenticate(s)
                                 \/ StartBridge(s)
      PROVE  DaemonIsLate'
  BY <1>1, <1>3 DEF Preflight, Bootstrap, Authenticate, StartBridge, AfterTor,
                    AfterBridge, mgrVars, Alive
<1>4. ASSUME NEW s \in Sessions, Snapshot(s) \/ Merge(s) \/ StartProxy(s)
                                 \/ ProxyStarted(s) \/ ProxyTimesOut(s)
      PROVE  DaemonIsLate'
  BY <1>1, <1>4 DEF Snapshot, Merge, StartProxy, MgrStart, ProxyStarted,
                    ProxyTimesOut, SignalShutdown, mgrVars, Alive
<1>5. ASSUME NEW s \in Sessions, StartBrowser(s) \/ InstallHelper(s)
                                 \/ StepRaises(s) \/ CloseBridge(s)
      PROVE  DaemonIsLate'
  BY <1>1, <1>5 DEF StartBrowser, InstallHelper, StepRaises, CloseBridge, mgrVars,
                    Alive
<1>6. ASSUME NEW s \in Sessions, StopProxy(s) \/ Join(s) \/ Restore(s)
                                 \/ Rewrite(s) \/ RewriteFails(s)
      PROVE  DaemonIsLate'
  BY <1>1, <1>6 DEF StopProxy, Join, Restore, Rewrite, RewriteFails, SignalShutdown,
                    mgrVars, Alive
<1>7. ASSUME NEW s \in Sessions, Quit(s) \/ StopTor(s) \/ RemoveDir(s)
      PROVE  DaemonIsLate'
  BY <1>1, <1>7 DEF Quit, StopTor, RemoveDir, mgrVars, Alive
<1>8. ASSUME NEW s \in Sessions, Crash(s)
      PROVE  DaemonIsLate'
  BY <1>1, <1>8 DEF Crash, ThreadsDie, Alive
<1>9. ASSUME NEW s \in Sessions, DaemonStep(s)
      PROVE  DaemonIsLate'
  BY <1>1, <1>9 DEF DaemonStep, Daemon, LoopBegins, AdapterServes, MasterBuilt,
                    StartFails, FailureEnds, Signals, Binds, RunFails, RunShutdown, Exit,
                    ThreadStep, Alive, ThreadStates
<1>10. ASSUME NEW s \in Sessions, KillOrphan(s) \/ Age(s)
      PROVE  DaemonIsLate'
  BY <1>1, <1>10 DEF KillOrphan, Age, mgrVars, Alive
<1>11. CASE NeighbourEnters \/ UNCHANGED vars
  BY <1>1, <1>11 DEF NeighbourEnters, mgrVars, vars, Alive
<1> QED
  BY <1>2, <1>3, <1>4, <1>5, <1>6, <1>7, <1>8, <1>9, <1>10, <1>11 DEF Next, Driver

LEMMA DaemonsEnd ==
    ASSUME MgrTypeOK, NEW s \in Sessions, Daemon(s)
    PROVE  \A t \in Sessions : Alive(t)' => Alive(t)
BY DEF Daemon, LoopBegins, AdapterServes, MasterBuilt, StartFails, FailureEnds, Signals, Binds,
       RunFails, RunShutdown, Exit, ThreadStep, Alive, MgrTypeOK, ThreadStates

\* stop() hands the daemon to a join, and a wait that ends early makes it overdue.
LEMMA DaemonIsKnownStep ==
    ASSUME TypeOK, OneAtATime, DaemonIsLate, DaemonIsKnown, [Next]_vars
    PROVE  DaemonIsKnown'
<1> USE DEF Set, Goto, Raise, DaemonIsKnown
<1>1. /\ pc \in [Sessions -> Places]
      /\ manager \in [Sessions -> BOOLEAN] /\ startError \in [Sessions -> BOOLEAN]
      /\ startEvent \in [Sessions -> BOOLEAN]
      /\ thread \in [Sessions -> ThreadStates]
  BY DEF TypeOK, Places, MgrTypeOK
<1>2. ASSUME NEW s \in Sessions, Enter(s)
      PROVE  DaemonIsKnown'
  BY <1>1, <1>2 DEF Enter, mgrVars, historyVars, Alive
<1>3. ASSUME NEW s \in Sessions, Preflight(s) \/ Bootstrap(s) \/ Authenticate(s)
                                 \/ StartBridge(s)
      PROVE  DaemonIsKnown'
  BY <1>1, <1>3 DEF Preflight, Bootstrap, Authenticate, StartBridge, AfterTor,
                    AfterBridge, mgrVars, fieldVars, historyVars, Alive
<1>4. ASSUME NEW s \in Sessions, Snapshot(s) \/ Merge(s)
      PROVE  DaemonIsKnown'
  BY <1>1, <1>4 DEF Snapshot, Merge, mgrVars, fieldVars, historyVars, Alive
<1>5. ASSUME NEW s \in Sessions, StartProxy(s)
      PROVE  DaemonIsKnown'
  BY <1>1, <1>5 DEF DaemonIsLate, BeforeProxy, StartProxy, MgrStart, fieldVars,
                    historyVars, Alive
<1>6. ASSUME NEW s \in Sessions, ProxyStarted(s) \/ ProxyTimesOut(s)
      PROVE  DaemonIsKnown'
  BY <1>1, <1>6 DEF ProxyStarted, ProxyTimesOut, SignalShutdown, mgrVars, fieldVars,
                    historyVars, Alive
<1>7. ASSUME NEW s \in Sessions, StartBrowser(s) \/ InstallHelper(s)
                                 \/ StepRaises(s) \/ Exits(s) \/ CloseBridge(s)
      PROVE  DaemonIsKnown'
  BY <1>1, <1>7 DEF StartBrowser, InstallHelper, StepRaises, Exits, CloseBridge,
                    mgrVars, fieldVars, historyVars, Alive
<1>8. ASSUME NEW s \in Sessions, StopProxy(s) \/ Join(s)
      PROVE  DaemonIsKnown'
  BY <1>1, <1>8 DEF StopProxy, SignalShutdown, Join, mgrVars, fieldVars,
                    historyVars, Alive
<1>9. ASSUME NEW s \in Sessions, Restore(s) \/ Rewrite(s) \/ RewriteFails(s)
      PROVE  DaemonIsKnown'
  BY <1>1, <1>9 DEF Restore, Rewrite, RewriteFails, mgrVars, fieldVars, historyVars,
                    Alive
<1>10. ASSUME NEW s \in Sessions, Quit(s) \/ StopTor(s) \/ RemoveDir(s)
      PROVE  DaemonIsKnown'
  BY <1>1, <1>10 DEF Quit, StopTor, RemoveDir, mgrVars, fieldVars, historyVars,
                     Alive
<1>11. ASSUME NEW s \in Sessions, Crash(s)
      PROVE  DaemonIsKnown'
  BY <1>1, <1>11 DEF Crash, ThreadsDie, Alive
<1>12. ASSUME NEW s \in Sessions, DaemonStep(s)
      PROVE  DaemonIsKnown'
  <2>1. \A t \in Sessions : Alive(t)' => Alive(t)
    BY <1>12, DaemonsEnd DEF DaemonStep, TypeOK
  <2> QED
    BY <1>12, <2>1 DEF DaemonStep, fieldVars, historyVars
<1>13. ASSUME NEW s \in Sessions, KillOrphan(s) \/ Age(s)
      PROVE  DaemonIsKnown'
  BY <1>1, <1>13 DEF KillOrphan, Age, mgrVars, fieldVars, historyVars, Alive
<1>14. CASE NeighbourEnters \/ UNCHANGED vars
  BY <1>1, <1>14 DEF NeighbourEnters, mgrVars, fieldVars, historyVars, vars, Alive
<1> QED
  BY <1>2, <1>3, <1>4, <1>7, <1>8, <1>10, <1>11, <1>12, <1>13, <1>14, <1>5, <1>6,
     <1>9
     DEF Next, Driver

\* _policies_snapshot_dir is assigned by the merge and cleared by the restoring.
LEMMA InstalledIsPlacedStep ==
    ASSUME TypeOK, InstalledIsPlaced, [Next]_vars
    PROVE  InstalledIsPlaced'
<1> USE DEF Set, Goto, Raise, InstalledIsPlaced, Installed
<1>1. /\ pc \in [Sessions -> Places]
      /\ snapshotDir \in [Sessions -> BOOLEAN]
  BY DEF TypeOK, Places
<1>2. ASSUME NEW s \in Sessions, Enter(s) \/ Exits(s)
      PROVE  InstalledIsPlaced'
  BY <1>1, <1>2 DEF Enter, Exits, fieldVars
<1>3. ASSUME NEW s \in Sessions, Preflight(s) \/ Bootstrap(s) \/ Authenticate(s)
                                 \/ StartBridge(s)
      PROVE  InstalledIsPlaced'
  BY <1>1, <1>3 DEF Preflight, Bootstrap, Authenticate, StartBridge, AfterTor,
                    AfterBridge, fieldVars
<1>4. ASSUME NEW s \in Sessions, Snapshot(s) \/ Merge(s) \/ StartProxy(s)
                                 \/ ProxyStarted(s) \/ ProxyTimesOut(s)
      PROVE  InstalledIsPlaced'
  BY <1>1, <1>4 DEF Snapshot, Merge, StartProxy, ProxyStarted, ProxyTimesOut,
                    fieldVars
<1>5. ASSUME NEW s \in Sessions, StartBrowser(s) \/ InstallHelper(s)
                                 \/ StepRaises(s) \/ CloseBridge(s)
      PROVE  InstalledIsPlaced'
  BY <1>1, <1>5 DEF StartBrowser, InstallHelper, StepRaises, CloseBridge, fieldVars
<1>6. ASSUME NEW s \in Sessions, StopProxy(s) \/ Join(s) \/ Restore(s)
                                 \/ Rewrite(s) \/ RewriteFails(s)
      PROVE  InstalledIsPlaced'
  BY <1>1, <1>6 DEF StopProxy, Join, Restore, Rewrite, RewriteFails, fieldVars
<1>7. ASSUME NEW s \in Sessions, Quit(s) \/ StopTor(s) \/ RemoveDir(s)
      PROVE  InstalledIsPlaced'
  BY <1>1, <1>7 DEF Quit, StopTor, RemoveDir, fieldVars
<1>8. ASSUME NEW s \in Sessions, Crash(s)
      PROVE  InstalledIsPlaced'
  BY <1>1, <1>8 DEF Crash, Nowhere
<1>9. ASSUME NEW s \in Sessions, KillOrphan(s) \/ Age(s) \/ DaemonStep(s)
      PROVE  InstalledIsPlaced'
  BY <1>1, <1>9 DEF KillOrphan, Age, DaemonStep, fieldVars
<1>10. CASE NeighbourEnters \/ UNCHANGED vars
  BY <1>1, <1>10 DEF NeighbourEnters, fieldVars, vars
<1> QED
  BY <1>2, <1>3, <1>4, <1>5, <1>6, <1>7, <1>8, <1>9, <1>10 DEF Next, Driver

\* Only a snapshot that is a file is read to be written back.
LEMMA HeldIsReadStep ==
    ASSUME TypeOK, HeldIsRead, [Next]_vars
    PROVE  HeldIsRead'
<1> USE DEF Set, Goto, Raise, HeldIsRead
<1>1. /\ pc \in [Sessions -> Places]
      /\ snapshot \in [Sessions -> Files \cup {NoSnapshot}]
      /\ held \in [Sessions -> Files \cup {NoSnapshot}]
  BY DEF TypeOK, Places, PolicyTypeOK
<1>2. ASSUME NEW s \in Sessions, Enter(s) \/ Exits(s) \/ Crash(s)
      PROVE  HeldIsRead'
  BY <1>1, <1>2 DEF Enter, Exits, Crash, policyVars
<1>3. ASSUME NEW s \in Sessions, Preflight(s) \/ Bootstrap(s) \/ Authenticate(s)
                                 \/ StartBridge(s)
      PROVE  HeldIsRead'
  BY <1>1, <1>3 DEF Preflight, Bootstrap, Authenticate, StartBridge, AfterTor,
                    AfterBridge, policyVars
<1>4. ASSUME NEW s \in Sessions, Snapshot(s) \/ Merge(s) \/ StartProxy(s)
                                 \/ ProxyStarted(s) \/ ProxyTimesOut(s)
      PROVE  HeldIsRead'
  BY <1>1, <1>4 DEF Snapshot, TakeSnapshot, Merge, WriteMerged, StartProxy,
                    ProxyStarted, ProxyTimesOut, policyVars
<1>5. ASSUME NEW s \in Sessions, StartBrowser(s) \/ InstallHelper(s)
                                 \/ StepRaises(s) \/ CloseBridge(s)
      PROVE  HeldIsRead'
  BY <1>1, <1>5 DEF StartBrowser, InstallHelper, StepRaises, CloseBridge, policyVars
<1>6. ASSUME NEW s \in Sessions, StopProxy(s) \/ Join(s) \/ Rewrite(s)
                                 \/ RewriteFails(s)
      PROVE  HeldIsRead'
  BY <1>1, <1>6 DEF StopProxy, Join, Rewrite, RestoreWrite, RewriteFails, policyVars
<1>7. ASSUME NEW s \in Sessions, Restore(s)
      PROVE  HeldIsRead'
  BY <1>1, <1>7 DEF Restore, RestoreAbsence, RestoreTruncate, policyVars
<1>8. ASSUME NEW s \in Sessions, Quit(s) \/ StopTor(s) \/ RemoveDir(s)
      PROVE  HeldIsRead'
  BY <1>1, <1>8 DEF Quit, StopTor, RemoveDir, policyVars
<1>9. ASSUME NEW s \in Sessions, KillOrphan(s) \/ Age(s) \/ DaemonStep(s)
      PROVE  HeldIsRead'
  BY <1>1, <1>9 DEF KillOrphan, Age, DaemonStep, policyVars
<1>10. CASE NeighbourEnters \/ UNCHANGED vars
  BY <1>1, <1>10 DEF NeighbourEnters, policyVars, vars
<1> QED
  BY <1>2, <1>3, <1>4, <1>5, <1>6, <1>7, <1>8, <1>9, <1>10 DEF Next, Driver

\* Through snapshot, merge, restoring and rewriting somebody has the file as it was.
LEMMA OriginIsKeptStep ==
    ASSUME TypeOK, OneAtATime, InstalledIsPlaced, OriginIsKept, [Next]_vars
    PROVE  OriginIsKept'
<1> SUFFICES ASSUME damage' = {}
             PROVE  OriginIsKept'
  BY DEF OriginIsKept
<1> USE DEF Set, Goto, Raise, OriginIsKept
<1>1. /\ pc \in [Sessions -> Places]
      /\ snapshotDir \in [Sessions -> BOOLEAN]
      /\ snapshot \in [Sessions -> Files \cup {NoSnapshot}]
      /\ held \in [Sessions -> Files \cup {NoSnapshot}]
      /\ damage = {} /\ origin' = origin
      /\ origin \in Files /\ NoSnapshot \notin Files
  BY HistoryFrame, FilesTyped DEF TypeOK, Places, PolicyTypeOK
<1>2. ASSUME NEW s \in Sessions, Enter(s)
      PROVE  OriginIsKept'
  BY <1>1, <1>2 DEF Enter, Reap, InstalledIsPlaced, Installed, Ended, fieldVars
<1>3. ASSUME NEW s \in Sessions, Snapshot(s)
      PROVE  OriginIsKept'
  BY <1>1, <1>3 DEF Snapshot, TakeSnapshot, InstalledIsPlaced, Installed,
                    OneAtATime, Ended, fieldVars
<1>4. ASSUME NEW s \in Sessions, Merge(s)
      PROVE  OriginIsKept'
  BY <1>1, <1>4 DEF Merge, WriteMerged
<1>5. ASSUME NEW s \in Sessions, Restore(s)
      PROVE  OriginIsKept'
  <2>1. CASE RestoreAbsence(s)
    BY <1>1, <1>5, <2>1 DEF Restore, RestoreAbsence, RestoreTruncate, policyVars
  <2>2. CASE RestoreTruncate(s)
    BY <1>1, <1>5, <2>2 DEF Restore, RestoreAbsence, RestoreTruncate, policyVars
  <2>3. CASE ~RestoreAbsence(s) /\ ~RestoreTruncate(s)
    BY <1>1, <1>5, <2>3 DEF Restore, policyVars
  <2> QED
    BY <2>1, <2>2, <2>3
<1>6. ASSUME NEW s \in Sessions, Rewrite(s)
      PROVE  OriginIsKept'
  BY <1>1, <1>6 DEF Rewrite, RestoreWrite, InstalledIsPlaced, Installed, fieldVars
<1>7. ASSUME NEW s \in Sessions, RewriteFails(s)
      PROVE  OriginIsKept'
  BY <1>7 DEF RewriteFails
<1>8. ASSUME NEW s \in Sessions, RemoveDir(s)
      PROVE  OriginIsKept'
  BY <1>1, <1>8 DEF RemoveDir, InstalledIsPlaced, Installed
<1>9. ASSUME NEW s \in Sessions, Crash(s)
      PROVE  OriginIsKept'
  BY <1>1, <1>9 DEF Crash, Nowhere, OneAtATime, InstalledIsPlaced, Installed, Ended
<1>10. CASE NeighbourEnters
  BY <1>1, <1>10 DEF NeighbourEnters, Reap, InstalledIsPlaced, Installed, Ended,
                     fieldVars
<1>11. ASSUME NEW s \in Sessions, Preflight(s) \/ Bootstrap(s)
                                  \/ Authenticate(s) \/ StartBridge(s)
      PROVE  OriginIsKept'
  BY <1>1, <1>11 DEF Preflight, Bootstrap, Authenticate, StartBridge, AfterTor,
                     AfterBridge, policyVars, fieldVars
<1>12. ASSUME NEW s \in Sessions, StartProxy(s) \/ ProxyStarted(s)
                                  \/ ProxyTimesOut(s) \/ StartBrowser(s)
      PROVE  OriginIsKept'
  BY <1>1, <1>12 DEF StartProxy, ProxyStarted, ProxyTimesOut, StartBrowser,
                     policyVars, fieldVars
<1>13. ASSUME NEW s \in Sessions, InstallHelper(s) \/ StepRaises(s) \/ Exits(s)
                                  \/ CloseBridge(s)
      PROVE  OriginIsKept'
  BY <1>1, <1>13 DEF InstallHelper, StepRaises, Exits, CloseBridge, policyVars,
                     fieldVars
<1>14. ASSUME NEW s \in Sessions, StopProxy(s) \/ Join(s) \/ Quit(s) \/ StopTor(s)
      PROVE  OriginIsKept'
  BY <1>1, <1>14 DEF StopProxy, Join, Quit, StopTor, policyVars, fieldVars
<1>15. ASSUME NEW s \in Sessions, KillOrphan(s) \/ Age(s) \/ DaemonStep(s)
      PROVE  OriginIsKept'
  BY <1>1, <1>15 DEF KillOrphan, Age, DaemonStep, policyVars, fieldVars
<1>16. CASE UNCHANGED vars
  BY <1>1, <1>16 DEF policyVars, fieldVars, vars
<1> QED
  BY <1>2, <1>3, <1>4, <1>5, <1>6, <1>7, <1>8, <1>9, <1>10, <1>11, <1>12, <1>13,
     <1>14, <1>15, <1>16
     DEF Next, Driver

\* No merge, snapshot or restoring loses what the owner wrote.
LEMMA OwnerIsKeptStep ==
    ASSUME TypeOK, OneAtATime, OwnerIsKept, [Next]_vars
    PROVE  OwnerIsKept'
<1> SUFFICES ASSUME origin' = Content({Owner}), "torn" \notin damage'
             PROVE  OwnerIsKept'
  BY DEF OwnerIsKept
<1> USE DEF Set, Goto, Raise, OwnerIsKept
<1>1. /\ pc \in [Sessions -> Places]
      /\ snapshot \in [Sessions -> Files \cup {NoSnapshot}]
      /\ held \in [Sessions -> Files \cup {NoSnapshot}]
      /\ origin = Content({Owner}) /\ "torn" \notin damage /\ origin' = origin
  BY HistoryFrame DEF TypeOK, Places, PolicyTypeOK
<1>2. ASSUME NEW s \in Sessions, Enter(s)
      PROVE  OwnerIsKept'
  BY <1>1, <1>2 DEF Enter, Reap
<1>3. ASSUME NEW s \in Sessions, Snapshot(s)
      PROVE  OwnerIsKept'
  BY <1>1, <1>3 DEF Snapshot, TakeSnapshot, OneAtATime, Ended
<1>4. ASSUME NEW s \in Sessions, Merge(s)
      PROVE  OwnerIsKept'
  BY <1>1, <1>4 DEF Merge, WriteMerged, Content
<1>5. ASSUME NEW s \in Sessions, Restore(s)
      PROVE  OwnerIsKept'
  <2>1. CASE RestoreAbsence(s)
    BY <1>1, <2>1 DEF RestoreAbsence, Absent, NoSnapshot
  <2>2. CASE RestoreTruncate(s) /\ pc[s] = "restore" /\ pc' = [pc EXCEPT ![s] = "rewrite"]
    BY <1>1, <2>2 DEF RestoreTruncate
  <2>3. CASE UNCHANGED policyVars /\ pc[s] = "restore" /\ pc' = [pc EXCEPT ![s] = "quit"]
    BY <1>1, <2>3 DEF policyVars
  <2> QED
    BY <1>5, <2>1, <2>2, <2>3 DEF Restore
<1>6. ASSUME NEW s \in Sessions, Rewrite(s)
      PROVE  OwnerIsKept'
  BY <1>1, <1>6 DEF Rewrite, RestoreWrite
<1>7. ASSUME NEW s \in Sessions, RewriteFails(s)
      PROVE  OwnerIsKept'
  BY <1>7 DEF RewriteFails
<1>8. ASSUME NEW s \in Sessions, RemoveDir(s)
      PROVE  OwnerIsKept'
  BY <1>1, <1>8 DEF RemoveDir
<1>9. ASSUME NEW s \in Sessions, Crash(s)
      PROVE  OwnerIsKept'
  BY <1>1, <1>9 DEF Crash
<1>10. CASE NeighbourEnters
  BY <1>1, <1>10 DEF NeighbourEnters, Reap
<1>11. ASSUME NEW s \in Sessions, Preflight(s) \/ Bootstrap(s)
                                  \/ Authenticate(s) \/ StartBridge(s)
      PROVE  OwnerIsKept'
  BY <1>1, <1>11 DEF Preflight, Bootstrap, Authenticate, StartBridge, AfterTor,
                     AfterBridge, policyVars
<1>12. ASSUME NEW s \in Sessions, StartProxy(s) \/ ProxyStarted(s)
                                  \/ ProxyTimesOut(s) \/ StartBrowser(s)
      PROVE  OwnerIsKept'
  BY <1>1, <1>12 DEF StartProxy, ProxyStarted, ProxyTimesOut, StartBrowser,
                     policyVars
<1>13. ASSUME NEW s \in Sessions, InstallHelper(s) \/ StepRaises(s) \/ Exits(s)
                                  \/ CloseBridge(s)
      PROVE  OwnerIsKept'
  BY <1>1, <1>13 DEF InstallHelper, StepRaises, Exits, CloseBridge, policyVars
<1>14. ASSUME NEW s \in Sessions, StopProxy(s) \/ Join(s) \/ Quit(s) \/ StopTor(s)
      PROVE  OwnerIsKept'
  BY <1>1, <1>14 DEF StopProxy, Join, Quit, StopTor, policyVars
<1>15. ASSUME NEW s \in Sessions, KillOrphan(s) \/ Age(s) \/ DaemonStep(s)
      PROVE  OwnerIsKept'
  BY <1>1, <1>15 DEF KillOrphan, Age, DaemonStep, policyVars
<1>16. CASE UNCHANGED vars
  BY <1>1, <1>16 DEF policyVars, vars
<1> QED
  BY <1>2, <1>3, <1>4, <1>5, <1>6, <1>7, <1>8, <1>9, <1>10, <1>11, <1>12, <1>13,
     <1>14, <1>15, <1>16
     DEF Next, Driver

-----------------------------------------------------------------------------
(* The theorems.                                                          *)

\* The invariant holds before any session.
LEMMA InitIInv == Init => IInv
<1> SUFFICES ASSUME Init
             PROVE  IInv
  OBVIOUS
<1> USE DEF Init
<1>1. TypeOK
  <2>1. MgrTypeOK
    BY DEF MgrInit, MgrTypeOK, ThreadStates, NoShutdown
  <2>2. {Owner} \in SUBSET (Sessions \cup {Owner})
    OBVIOUS
  <2>3. PolicyTypeOK /\ origin \in Files
    BY <2>2, FilesTyped DEF PolicyInit, PolicyTypeOK
  <2> QED
    BY <2>1, <2>3 DEF TypeOK, Ended, TorStates, Nowhere
<1>2. HeldIsRead /\ OneAtATime /\ TorIsOwned /\ PartsAreStopped /\ InstalledIsPlaced
  BY DEF HeldIsRead, OneAtATime, TorIsOwned, PartsAreStopped, InstalledIsPlaced,
         Ended, AfterBridgeClosed, Nowhere
<1>3. DaemonIsLate /\ DaemonIsKnown
  BY DEF DaemonIsLate, DaemonIsKnown, MgrInit, Alive
<1>4. OriginIsKept
  BY DEF OriginIsKept, PolicyInit, Nowhere
<1>5. OwnerIsKept
  BY DEF OwnerIsKept, PolicyInit, Content
<1> QED
  BY <1>1, <1>2, <1>3, <1>4, <1>5 DEF IInv

\* Every step keeps the invariant.
LEMMA IInvStep == IInv /\ [Next]_vars => IInv'
<1> SUFFICES ASSUME IInv, [Next]_vars
             PROVE  IInv'
  OBVIOUS
<1> USE DEF IInv
<1>1. TypeOK'
  BY MgrType, PolicyType, PcType, FieldType DEF TypeOK, FieldTypeOK, Places
<1> QED
  BY <1>1, HeldIsReadStep, OneAtATimeStep, TorIsOwnedStep, PartsAreStoppedStep,
     DaemonIsLateStep, DaemonIsKnownStep, InstalledIsPlacedStep, OriginIsKeptStep,
     OwnerIsKeptStep

\* The invariant holds throughout.
LEMMA SpecIInv == Spec => []IInv
BY InitIInv, IInvStep, PTL DEF Spec

\* Every variable of the driver, its manager and policies.json has its type.
THEOREM TypeCorrect == Spec => []TypeOK
BY SpecIInv, PTL DEF IInv

\* README.md's promise that teardown restores policies.json, for any number of
\* sessions whichever of their steps raise, and with the owner's policies in force
\* meanwhile.  The exceptions are the ones PoliciesAreReturned names.
THEOREM PoliciesComeBack == Spec => []OwnersFileComesBack
<1>1. IInv => OwnersFileComesBack
  BY DEF IInv, OwnersFileComesBack, PoliciesAreReturned, OwnerPoliciesSurvive,
         OriginIsKept, OwnerIsKept, InstalledIsPlaced, Installed, Ended
<1> QED
  BY <1>1, SpecIInv, PTL

\* Whatever step of __enter__ raised, close() leaves no tor, bridge, browser or
\* directory of the session behind.
THEOREM NothingIsLeft == Spec => []ClosedLeavesNothing
<1>1. IInv => ClosedLeavesNothing
  BY DEF IInv, ClosedLeavesNothing, TorIsOwned, PartsAreStopped, AfterBridgeClosed
<1> QED
  BY <1>1, SpecIInv, PTL

\* A daemon thread of ProxyManager outlives its session only when start() or stop()
\* has given it up.
THEOREM LeftoverIsOverdue == Spec => []LeftoverDaemonIsOverdue
<1>1. IInv => LeftoverDaemonIsOverdue
  BY DEF IInv, LeftoverDaemonIsOverdue, DaemonIsKnown
<1> QED
  BY <1>1, SpecIInv, PTL
=============================================================================
