---------------------------- MODULE DriverSession ----------------------------
(***************************************************************************)
(* torbrowser_driver/driver.py: what a TorBrowserDriver starts when it is  *)
(* entered and tears down in close(), composed with the daemon of the      *)
(* intercept proxy and with policies.json.                                 *)
(*                                                                         *)
(* Sessions follow one another, as _proxy_intercept_policies.py asks of    *)
(* sessions that share an install.  Every step of entering may raise; the  *)
(* process may crash anywhere, and a tor or a browser may survive it.      *)
(***************************************************************************)
EXTENDS ProxyManager, CertificatePolicy

CONSTANTS
    CapSets,        \* the enabled capabilities that are tried
    Faults          \* what may go wrong beside a step that raises

Caps == {"helper-extension", "proxy-intercept"}

ASSUME CapSetsAssumption == CapSets \subseteq SUBSET Caps
ASSUME FaultsAssumption == Faults \subseteq {"crash", "reap", "diskFull"}

VARIABLES
    pc,             \* where each session is in __enter__ and close()
    caps,           \* its enabled capabilities, of those that start something
    tor,            \* its bundled tor
    torProcess,     \* _tor_process is assigned
    bridge,         \* its helper bridge listens
    browser,        \* its browser runs
    manager,        \* _proxy_manager is assigned
    snapshotDir,    \* _policies_snapshot_dir is assigned
    dir,            \* its session directory exists
    old,            \* ... and is older than the reaper's 24 hours
    origin,         \* policies.json before the first session
    damage,         \* what has befallen a session's policies.json: a crash with
                    \* the certificate "installed", a "torn" rewriting, or a
                    \* "reaped" snapshot
    overdue         \* the sessions whose wait for the daemon timed out

partVars == <<tor, bridge, browser>>
fieldVars == <<caps, torProcess, manager, snapshotDir>>
dirVars == <<dir, old>>
historyVars == <<origin, damage, overdue>>
vars == <<mgrVars, policyVars, pc, partVars, fieldVars, dirVars, historyVars>>

Entering == {"preflight", "bootstrap", "authenticate", "bridge", "snapshot", "merge",
             "probe", "proxy", "browser", "helper"}
Closing == {"close", "stopProxy", "join", "restore", "rewrite", "quit", "stopTor",
            "removeDir"}
Ended == {"new", "closed", "crashed"}
TorStates == {"none", "starting", "running", "down"}

\* Every variable has its type.
TypeOK ==
    /\ MgrTypeOK /\ PolicyTypeOK
    /\ pc \in [Sessions -> Entering \cup Closing \cup Ended \cup {"up"}]
    /\ caps \in [Sessions -> SUBSET Caps]
    /\ tor \in [Sessions -> TorStates]
    /\ \A f \in {bridge, browser, torProcess, manager, snapshotDir, dir, old} :
          f \in [Sessions -> BOOLEAN]
    /\ origin \in Files
    /\ damage \subseteq {"installed", "torn", "reaped"}
    /\ overdue \subseteq Sessions

Nowhere == [s \in Sessions |-> FALSE]

Init ==
    /\ MgrInit /\ PolicyInit
    /\ pc = [s \in Sessions |-> "new"]
    /\ caps = [s \in Sessions |-> {}]
    /\ tor = [s \in Sessions |-> "none"]
    /\ bridge = Nowhere /\ browser = Nowhere
    /\ torProcess = Nowhere /\ manager = Nowhere /\ snapshotDir = Nowhere
    /\ dir = Nowhere /\ old = Nowhere
    /\ origin = policies
    /\ damage = {}
    /\ overdue = {}

Goto(s, from, to) == pc[s] = from /\ pc' = [pc EXCEPT ![s] = to]
Set(f, s, v) == [f EXCEPT ![s] = v]

\* __enter__ raises: its handler calls close().
Raise(s, from) == Goto(s, from, "close")

-----------------------------------------------------------------------------
(* __enter__ up to an authenticated controller: launch_tor.                *)

\* The reaper removes old session directories, whoever they belong to.
Reap(created) ==
    /\ dir' = [t \in Sessions |-> t \in created \/ (dir[t] /\ ~old[t])]
    /\ old' = Nowhere
    /\ snapshot' = [t \in Sessions |-> IF old[t] THEN NoSnapshot ELSE snapshot[t]]

Enter(s) ==
    /\ \A t \in Sessions \ {s} : pc[t] \in Ended /\ (t < s => pc[t] # "new")
    /\ Goto(s, "new", "preflight")
    /\ \E c \in CapSets : caps' = Set(caps, s, c)
    /\ Reap({s})
    /\ UNCHANGED <<mgrVars, policies, held, partVars, torProcess, manager, snapshotDir, historyVars>>

\* preflight_ports: a tor that a crashed process left behind holds the ports,
\* or is about to.
Preflight(s) ==
    /\ \/ /\ \E t \in Sessions : tor[t] \in {"starting", "running"}
          /\ Raise(s, "preflight")
          /\ UNCHANGED tor
       \/ /\ \A t \in Sessions : tor[t] # "running"
          /\ Goto(s, "preflight", "bootstrap")
          /\ tor' = Set(tor, s, "starting")
    /\ UNCHANGED <<mgrVars, policyVars, bridge, browser, fieldVars, dirVars, historyVars>>

\* stem returns when tor has bootstrapped, and raises when tor exits first.
Bootstrap(s) ==
    /\ \/ Goto(s, "bootstrap", "authenticate") /\ tor' = Set(tor, s, "running")
       \/ Raise(s, "bootstrap") /\ tor' = Set(tor, s, "down")
    /\ UNCHANGED <<mgrVars, policyVars, bridge, browser, fieldVars, dirVars, historyVars>>

AfterBridge(c) == IF "proxy-intercept" \in c THEN "snapshot" ELSE "browser"
AfterTor(c) == IF "helper-extension" \in c THEN "bridge" ELSE AfterBridge(c)

\* Mutant: a controller that cannot be had leaves the process running.
AuthenticateLeaksTor(s) ==
    /\ \/ Goto(s, "authenticate", AfterTor(caps[s])) /\ torProcess' = Set(torProcess, s, TRUE)
       \/ Raise(s, "authenticate") /\ UNCHANGED torProcess
    /\ UNCHANGED <<mgrVars, policyVars, partVars, caps, manager, snapshotDir, dirVars, historyVars>>

\* Controller.from_port and authenticate(); launch_tor ends the process itself
\* when they raise, for __enter__ has not been given it yet.
Authenticate(s) ==
    /\ \/ /\ Goto(s, "authenticate", AfterTor(caps[s]))
          /\ torProcess' = Set(torProcess, s, TRUE)
          /\ UNCHANGED tor
       \/ /\ Raise(s, "authenticate")
          /\ tor' = Set(tor, s, "down")
          /\ UNCHANGED torProcess
    /\ UNCHANGED <<mgrVars, policyVars, bridge, browser, caps, manager, snapshotDir,
                   dirVars, historyVars>>

-----------------------------------------------------------------------------
(* The rest of __enter__.                                                  *)

StartBridge(s) ==
    /\ Goto(s, "bridge", AfterBridge(caps[s]))
    /\ bridge' = Set(bridge, s, TRUE)
    /\ UNCHANGED <<mgrVars, policyVars, tor, browser, fieldVars, dirVars, historyVars>>

\* install_certificate_policy: a file that cannot be merged into raises once
\* its snapshot is taken.  The directory is made again if it has been reaped.
Snapshot(s) ==
    /\ IF policies = Malformed THEN Raise(s, "snapshot") ELSE Goto(s, "snapshot", "merge")
    /\ TakeSnapshot(s)
    /\ dir' = Set(dir, s, TRUE)
    /\ UNCHANGED <<mgrVars, partVars, fieldVars, old, historyVars>>

\* Mutant: the snapshot directory is assigned only when the proxy has started.
MergeForgetsSnapshot(s) ==
    /\ Goto(s, "merge", "probe")
    /\ WriteMerged(s)
    /\ UNCHANGED <<mgrVars, partVars, fieldVars, dirVars, historyVars>>

\* The directory is assigned once the certificate is installed.
Merge(s) ==
    /\ Goto(s, "merge", "probe")
    /\ WriteMerged(s)
    /\ snapshotDir' = Set(snapshotDir, s, TRUE)
    /\ UNCHANGED <<mgrVars, partVars, caps, torProcess, manager, dirVars, historyVars>>

\* The probe of tor's SOCKS port succeeds and ProxyManager.start() begins.
StartProxy(s) ==
    /\ Goto(s, "probe", "proxy")
    /\ MgrStart(s)
    /\ UNCHANGED <<policyVars, partVars, fieldVars, dirVars, historyVars>>

\* start() is released by the daemon.  If that failed, start() raises once the thread
\* has ended, or has not for too long.
ProxyStarted(s) ==
    /\ startEvent[s]
    /\ IF startError[s]
       THEN /\ Raise(s, "proxy") /\ UNCHANGED manager
            /\ overdue' = IF Alive(s) THEN overdue \cup {s} ELSE overdue
       ELSE /\ Goto(s, "proxy", "browser") /\ manager' = Set(manager, s, TRUE)
            /\ UNCHANGED overdue
    /\ UNCHANGED <<mgrVars, policyVars, partVars, caps, torProcess, snapshotDir, dirVars,
                   origin, damage>>

\* Mutant: start() waits as long as the daemon lives.
ProxyTimesOutIfDead(s) ==
    /\ ~startEvent[s] /\ ~Alive(s)
    /\ Raise(s, "proxy")
    /\ SignalShutdown(s)
    /\ overdue' = overdue \cup {s}
    /\ UNCHANGED <<policyVars, partVars, fieldVars, dirVars, origin, damage>>

\* start() gives the daemon up; _proxy_manager is not assigned yet.
ProxyTimesOut(s) ==
    /\ ~startEvent[s]
    /\ Raise(s, "proxy")
    /\ SignalShutdown(s)
    /\ overdue' = overdue \cup {s}
    /\ UNCHANGED <<policyVars, partVars, fieldVars, dirVars, origin, damage>>

StartBrowser(s) ==
    /\ Goto(s, "browser", IF "helper-extension" \in caps[s] THEN "helper" ELSE "up")
    /\ browser' = Set(browser, s, TRUE)
    /\ UNCHANGED <<mgrVars, policyVars, tor, bridge, fieldVars, dirVars, historyVars>>

\* install_helper closes the bridge itself when the extension does not answer.
InstallHelper(s) ==
    /\ \/ Goto(s, "helper", "up") /\ UNCHANGED bridge
       \/ Raise(s, "helper") /\ bridge' = Set(bridge, s, FALSE)
    /\ UNCHANGED <<mgrVars, policyVars, tor, browser, fieldVars, dirVars, historyVars>>

\* Any of these steps raises before it has changed anything.
StepRaises(s) ==
    /\ \E p \in {"preflight", "bridge", "snapshot", "merge", "probe", "browser"} :
          Raise(s, p)
    /\ UNCHANGED <<mgrVars, policyVars, partVars, fieldVars, dirVars, historyVars>>

-----------------------------------------------------------------------------
(* close()                                                                 *)

Exits(s) ==
    /\ Raise(s, "up")
    /\ UNCHANGED <<mgrVars, policyVars, partVars, fieldVars, dirVars, historyVars>>

CloseBridge(s) ==
    /\ Goto(s, "close", "stopProxy")
    /\ bridge' = Set(bridge, s, FALSE)
    /\ UNCHANGED <<mgrVars, policyVars, tor, browser, fieldVars, dirVars, historyVars>>

\* Mutant: stop() joins the thread without asking it to end.
StopProxySilently(s) ==
    /\ Goto(s, "stopProxy", "restore")
    /\ manager' = Set(manager, s, FALSE)
    /\ UNCHANGED <<mgrVars, policyVars, partVars, caps, torProcess, snapshotDir, dirVars,
                   historyVars>>

\* ProxyManager.stop() up to the join.
StopProxy(s) ==
    /\ manager' = Set(manager, s, FALSE)
    /\ IF manager[s]
       THEN Goto(s, "stopProxy", "join") /\ SignalShutdown(s)
       ELSE Goto(s, "stopProxy", "restore") /\ UNCHANGED mgrVars
    /\ UNCHANGED <<policyVars, partVars, caps, torProcess, snapshotDir, dirVars, historyVars>>

\* The join ends with the thread, or after its timeout.
Join(s) ==
    /\ Goto(s, "join", "restore")
    /\ overdue' = IF Alive(s) THEN overdue \cup {s} ELSE overdue
    /\ UNCHANGED <<mgrVars, policyVars, partVars, fieldVars, dirVars, origin, damage>>

\* restore_certificate_policy, up to the rewriting of a file that was there.
\* Without a snapshot the file is left as it is, with a marker beside it.
Restore(s) ==
    /\ snapshotDir' = Set(snapshotDir, s, FALSE)
    /\ \/ /\ snapshotDir[s]
          /\ RestoreAbsence(s)
          /\ Goto(s, "restore", "quit")
       \/ /\ snapshotDir[s]
          /\ RestoreTruncate(s)
          /\ Goto(s, "restore", "rewrite")
       \/ /\ ~snapshotDir[s] \/ snapshot[s] = NoSnapshot
          /\ UNCHANGED policyVars
          /\ Goto(s, "restore", "quit")
    /\ UNCHANGED <<mgrVars, partVars, caps, torProcess, manager, dirVars, historyVars>>

Rewrite(s) ==
    /\ Goto(s, "rewrite", "quit")
    /\ RestoreWrite(s)
    /\ UNCHANGED <<mgrVars, partVars, fieldVars, dirVars, historyVars>>

\* The disk is full: the error is logged and the file stays cut short.
RewriteFails(s) ==
    /\ "diskFull" \in Faults
    /\ Goto(s, "rewrite", "quit")
    /\ damage' = damage \cup {"torn"}
    /\ UNCHANGED <<mgrVars, policyVars, partVars, fieldVars, dirVars, origin, overdue>>

Quit(s) ==
    /\ Goto(s, "quit", "stopTor")
    /\ browser' = Set(browser, s, FALSE)
    /\ UNCHANGED <<mgrVars, policyVars, tor, bridge, fieldVars, dirVars, historyVars>>

StopTor(s) ==
    /\ Goto(s, "stopTor", "removeDir")
    /\ torProcess' = Set(torProcess, s, FALSE)
    /\ tor' = IF torProcess[s] THEN Set(tor, s, "down") ELSE tor
    /\ UNCHANGED <<mgrVars, policyVars, bridge, browser, caps, manager, snapshotDir, dirVars,
                   historyVars>>

RemoveDir(s) ==
    /\ Goto(s, "removeDir", "closed")
    /\ dir' = Set(dir, s, FALSE)
    /\ old' = Set(old, s, FALSE)
    /\ snapshot' = Set(snapshot, s, NoSnapshot)
    /\ caps' = Set(caps, s, {})
    /\ UNCHANGED <<mgrVars, policies, held, partVars, torProcess, manager, snapshotDir,
                   historyVars>>

-----------------------------------------------------------------------------
(* The world around the sessions.                                          *)

\* The process is killed: its memory and its threads go, its children may survive.
Crash(s) ==
    /\ "crash" \in Faults
    /\ pc[s] \notin Ended
    /\ pc' = Set(pc, s, "crashed")
    /\ \E survive \in BOOLEAN :
          /\ tor' = IF survive THEN tor ELSE Set(tor, s, "down")
          /\ browser' = IF survive THEN browser ELSE Set(browser, s, FALSE)
    /\ ThreadsDie
    /\ bridge' = Nowhere
    /\ caps' = Set(caps, s, {})
    /\ torProcess' = Nowhere /\ manager' = Nowhere /\ snapshotDir' = Nowhere
    /\ held' = Set(held, s, NoSnapshot)
    /\ damage' = damage \cup (IF snapshotDir[s] THEN {"installed"} ELSE {})
                        \cup (IF pc[s] = "rewrite" THEN {"torn"} ELSE {})
    /\ UNCHANGED <<policies, snapshot, dirVars, origin, overdue>>

\* The user ends a tor that a crash left behind, as preflight_ports tells them.
KillOrphan(s) ==
    /\ pc[s] = "crashed" /\ tor[s] \in {"starting", "running"}
    /\ tor' = Set(tor, s, "down")
    /\ UNCHANGED <<mgrVars, policyVars, pc, bridge, browser, fieldVars, dirVars, historyVars>>

\* 24 hours pass, for a session that is up or a directory that a crash has left.
Age(s) ==
    /\ "reap" \in Faults
    /\ pc[s] \in {"up", "crashed"}
    /\ dir[s] /\ ~old[s]
    /\ old' = Set(old, s, TRUE)
    /\ UNCHANGED <<mgrVars, policyVars, pc, partVars, fieldVars, dir, historyVars>>

\* A driver that shares only the temporary directory is entered.
NeighbourEnters ==
    /\ "reap" \in Faults
    /\ \E s \in Sessions : old[s]
    /\ Reap({})
    /\ damage' = IF \E s \in Sessions : old[s] /\ pc[s] \notin Ended
                 THEN damage \cup {"reaped"} ELSE damage
    /\ UNCHANGED <<mgrVars, policies, held, pc, partVars, fieldVars, origin, overdue>>

-----------------------------------------------------------------------------

Driver(s) ==
    \/ Preflight(s) \/ Bootstrap(s) \/ Authenticate(s) \/ StartBridge(s)
    \/ Snapshot(s) \/ Merge(s) \/ StartProxy(s) \/ ProxyStarted(s) \/ ProxyTimesOut(s)
    \/ StartBrowser(s) \/ InstallHelper(s) \/ StepRaises(s)
    \/ CloseBridge(s) \/ StopProxy(s) \/ Join(s) \/ Restore(s) \/ Rewrite(s)
    \/ RewriteFails(s) \/ Quit(s) \/ StopTor(s) \/ RemoveDir(s)

DaemonStep(s) == Daemon(s) /\ UNCHANGED <<policyVars, pc, partVars, fieldVars, dirVars,
                                          historyVars>>

Next ==
    \/ \E s \in Sessions : Enter(s) \/ Driver(s) \/ Exits(s) \/ DaemonStep(s)
    \/ \E s \in Sessions : Crash(s) \/ KillOrphan(s) \/ Age(s)
    \/ NeighbourEnters

Spec == Init /\ [][Next]_vars

\* The thread in __enter__ or close() runs on, and tor bootstraps or exits.
\* Nothing is assumed of the daemon, of the user or of the world.
FairSpec == Spec /\ \A s \in Sessions : WF_vars(Driver(s))

-----------------------------------------------------------------------------
(* Properties                                                              *)

\* README.md promises that teardown restores the prior state of policies.json:
\* over any number of sessions, whichever step of each raised or crashed, the
\* file is what it was before the first whenever none is open.  The exceptions
\* are a crash with a certificate installed, one in (or a failure of) the
\* rewriting of the file, and a snapshot that was reaped.
PoliciesAreReturned ==
    (damage = {} /\ \A s \in Sessions : pc[s] \in Ended) => policies = origin

\* Whatever crashes and whatever is reaped, the owner's policies stay in the
\* file, unless the rewriting of it was cut short: the merge is renamed into
\* place, and keeps all it finds, a crashed session's certificate included.
OwnerPoliciesSurvive ==
    (origin = Content({Owner}) /\ "torn" \notin damage
        /\ \A s \in Sessions : pc[s] # "rewrite")
    => Owner \in policies.says

\* policies.json is the owner's: it comes back, and is in force meanwhile.
OwnersFileComesBack == PoliciesAreReturned /\ OwnerPoliciesSurvive

\* Whatever step raised, a session that has been closed leaves no tor, no
\* bridge, no browser and no directory.
ClosedLeavesNothing ==
    \A s \in Sessions : pc[s] = "closed" =>
        /\ tor[s] \in {"none", "down"}
        /\ ~bridge[s] /\ ~browser[s] /\ ~dir[s]

\* A daemon that outlives its session has outlasted a wait of start() or stop().
LeftoverDaemonIsOverdue ==
    \A s \in Sessions : pc[s] = "closed" /\ Alive(s) => s \in overdue

\* A session that is being entered or closed gets up, or ends: no daemon that
\* hangs, and no step that raises, keeps it in between.
EverySessionResolves ==
    \A s \in Sessions : pc[s] \in Entering \cup Closing ~> pc[s] \in Ended \cup {"up"}

\* README.md:125: the driver "restores the prior state on teardown", of a
\* session that nothing has killed and whose disk never failed.
ClosedRestoresPolicies ==
    (damage \subseteq {"reaped"} /\ \A s \in Sessions : pc[s] \in {"new", "closed"})
        => policies = origin
=============================================================================
