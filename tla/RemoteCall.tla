----------------------------- MODULE RemoteCall -----------------------------
(***************************************************************************)
(* What HelperBridge.request() promises its caller, with the transport     *)
(* hidden: a call is refused without any effect, or it is opened and the   *)
(* extension executes its method at most once.  A call that returns a      *)
(* result was applied, one that raises the extension's own error was       *)
(* rejected, and one that raises a timeout or a disconnect leaves the      *)
(* caller not knowing: the method may have run, may run later or never.    *)
(***************************************************************************)

CONSTANT Calls         \* the invocations of request()

VARIABLES
    phase,             \* what the caller of each invocation has seen
    executed           \* what the extension has done about it

vars == <<phase, executed>>

Phases     == {"idle", "open", "refused", "ok", "remote", "unknown"}
Executions == {"no", "applied", "rejected"}

TypeOK ==
    /\ phase \in [Calls -> Phases]
    /\ executed \in [Calls -> Executions]

Init ==
    /\ phase = [c \in Calls |-> "idle"]
    /\ executed = [c \in Calls |-> "no"]

\* The bridge is closed or not connected: nothing was sent, nothing will be.
Refuse(c) ==
    /\ phase[c] = "idle"
    /\ phase' = [phase EXCEPT ![c] = "refused"]
    /\ UNCHANGED executed

Open(c) ==
    /\ phase[c] = "idle"
    /\ phase' = [phase EXCEPT ![c] = "open"]
    /\ UNCHANGED executed

\* The extension runs the method, once.  The caller may have given up long ago.
Execute(c, how) ==
    /\ phase[c] \notin {"idle", "refused"}
    /\ executed[c] = "no"
    /\ how # "no"
    /\ executed' = [executed EXCEPT ![c] = how]
    /\ UNCHANGED phase

ReturnResult(c) ==
    /\ phase[c] = "open"
    /\ executed[c] = "applied"
    /\ phase' = [phase EXCEPT ![c] = "ok"]
    /\ UNCHANGED executed

RaiseRemoteError(c) ==
    /\ phase[c] = "open"
    /\ executed[c] = "rejected"
    /\ phase' = [phase EXCEPT ![c] = "remote"]
    /\ UNCHANGED executed

GiveUp(c) ==
    /\ phase[c] = "open"
    /\ phase' = [phase EXCEPT ![c] = "unknown"]
    /\ UNCHANGED executed

Next ==
    \E c \in Calls :
        \/ Refuse(c) \/ Open(c)
        \/ \E how \in Executions : Execute(c, how)
        \/ ReturnResult(c) \/ RaiseRemoteError(c) \/ GiveUp(c)

Spec == Init /\ [][Next]_vars
=============================================================================
