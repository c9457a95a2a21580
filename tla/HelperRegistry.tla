--------------------------- MODULE HelperRegistry ---------------------------
(***************************************************************************)
(* torbrowser_driver/_helper_extension_primitives.py and background.js:    *)
(* the driver's tables of routes and init scripts and the extension's own, *)
(* kept in step by calls over the bridge.  Tools run on threads of their   *)
(* own; the bridge is what RemoteCall says of it, with its frames in       *)
(* order.  Mock routes live in the proxy and make no call.                 *)
(***************************************************************************)
EXTENDS Naturals, Sequences

CONSTANTS
    Calls,          \* tool invocations; each makes at most one bridge call
    Routes,         \* route ids browser_route may draw
    Mocks,          \* those of them that are mock routes
    Scripts         \* script ids browser_add_init_script may draw

ASSUME MocksAssumption == Mocks \subseteq Routes
ASSUME IdsAssumption == Routes \cap Scripts = {}

VARIABLES
    phase, executed,    \* RemoteCall
    up,                 \* bridge.connected
    frames,             \* calls whose frames the page has not received, in order
    registering,        \* calls awaiting contentScripts.register in the page
    pc, tool,           \* where each invocation is, and what it was asked
    routes,             \* _helper_routes
    scripts,            \* _helper_init_scripts
    mocks,              \* the proxy's mock routes
    extRoutes, extScripts

Remote == INSTANCE RemoteCall

bridgeVars == <<phase, executed, up, frames>>
driverVars == <<routes, scripts, mocks>>
pageVars   == <<registering, extRoutes, extScripts>>
vars == <<bridgeVars, driverVars, pageVars, pc, tool>>

Kinds == {"none", "route", "unroute", "addScript", "removeScript"}

\* settled: the ids whose own browser_route was over when the call began.
Tool(kind, ids, settled) == [kind |-> kind, ids |-> ids, settled |-> settled]

Init ==
    /\ Remote!Init
    /\ up = TRUE /\ frames = << >> /\ registering = {}
    /\ pc = [c \in Calls |-> "idle"]
    /\ tool = [c \in Calls |-> Tool("none", {}, {})]
    /\ routes = {} /\ scripts = {} /\ mocks = {}
    /\ extRoutes = {} /\ extScripts = {}

Used(i) == \E c \in Calls : i \in tool[c].ids
Over(r) == \A c \in Calls : tool[c].kind = "route" /\ r \in tool[c].ids => pc[c] = "done"

\* An invocation passes its checks, the bridge's state among them.
Enter(c, kind, ids, to) ==
    /\ up
    /\ pc[c] = "idle" /\ pc' = [pc EXCEPT ![c] = to]
    /\ tool' = [tool EXCEPT ![c] = Tool(kind, ids, {i \in ids : Over(i)})]

Leave(c, from) == pc[c] = from /\ pc' = [pc EXCEPT ![c] = "done"]

-----------------------------------------------------------------------------
(* bridge.request(), called by every tool after its checks                 *)

Request(c) ==
    /\ pc[c] = "entered" /\ pc' = [pc EXCEPT ![c] = "called"]
    /\ IF up
         THEN Remote!Open(c) /\ frames' = Append(frames, c)
         ELSE Remote!Refuse(c) /\ UNCHANGED frames
    /\ UNCHANGED <<up, driverVars, pageVars, tool>>

\* The bridge answers the caller, or gives up on the call.
Answer(c) ==
    /\ Remote!ReturnResult(c) \/ Remote!RaiseRemoteError(c) \/ Remote!GiveUp(c)
    /\ UNCHANGED <<up, frames, driverVars, pageVars, pc, tool>>

Raised(c) == phase[c] \in {"refused", "remote", "unknown"}

\* The watchdog or close(): for good.
Disconnect ==
    /\ up /\ up' = FALSE
    /\ UNCHANGED <<phase, executed, frames, driverVars, pageVars, pc, tool>>

-----------------------------------------------------------------------------
(* browser_route                                                           *)

\* A redirect or header route is in the table before the extension knows it.
RouteEnter(c, r) ==
    /\ r \notin Mocks /\ ~Used(r)
    /\ Enter(c, "route", {r}, "entered")
    /\ routes' = routes \cup {r}
    /\ UNCHANGED <<bridgeVars, pageVars, scripts, mocks>>

\* Mutant: the route stays listed when the extension was not told.
RouteLeaveKeeps(c) ==
    /\ tool[c].kind = "route" /\ Leave(c, "called")
    /\ phase[c] = "ok" \/ Raised(c)
    /\ UNCHANGED <<bridgeVars, pageVars, scripts, mocks, tool, routes>>

RouteLeave(c) ==
    /\ tool[c].kind = "route" /\ Leave(c, "called")
    /\ \/ phase[c] = "ok" /\ UNCHANGED routes
       \/ Raised(c) /\ routes' = routes \ tool[c].ids
    /\ UNCHANGED <<bridgeVars, pageVars, scripts, mocks, tool>>

\* Mutant: a mock route is sent to the extension as well.
RouteMockSent(c, r) ==
    /\ r \in Mocks /\ ~Used(r)
    /\ Enter(c, "route", {r}, "entered")
    /\ mocks' = mocks \cup {r} /\ routes' = routes \cup {r}
    /\ UNCHANGED <<bridgeVars, pageVars, scripts>>

\* A mock route is registered with the proxy first, then listed.
RouteMock(c, r) ==
    /\ r \in Mocks /\ ~Used(r)
    /\ Enter(c, "route", {r}, "mocked")
    /\ mocks' = mocks \cup {r}
    /\ UNCHANGED <<bridgeVars, pageVars, scripts, routes>>

RouteMockListed(c) ==
    /\ tool[c].kind = "route" /\ Leave(c, "mocked")
    /\ routes' = routes \cup tool[c].ids
    /\ UNCHANGED <<bridgeVars, pageVars, scripts, mocks, tool>>

-----------------------------------------------------------------------------
(* browser_unroute: the victims leave the table first and are not put      *)
(* back.  browser_route_list and a pattern reach routes whose              *)
(* browser_route is still running.                                         *)

UnrouteId(c, r) ==
    /\ r \in routes
    /\ Enter(c, "unroute", {r}, "popped")
    /\ routes' = routes \ {r}
    /\ UNCHANGED <<bridgeVars, pageVars, scripts, mocks>>

\* The routes with the pattern are found first; another thread may pop one of
\* them before this one does.
UnroutePattern(c, ids) ==
    /\ ids # {} /\ ids \subseteq routes
    /\ Enter(c, "unroute", ids, "found")
    /\ UNCHANGED <<bridgeVars, pageVars, driverVars>>

UnroutePop(c) ==
    /\ pc[c] = "found" /\ pc' = [pc EXCEPT ![c] = "popped"]
    /\ routes' = routes \ tool[c].ids
    /\ UNCHANGED <<bridgeVars, pageVars, scripts, mocks, tool>>

\* Mutant: the routes leave the table but mocks stay with the proxy.
UnrouteMocksLeft(c) ==
    /\ pc[c] = "popped"
    /\ pc' = [pc EXCEPT ![c] =
                 IF tool[c].ids \subseteq Mocks THEN "done" ELSE "entered"]
    /\ UNCHANGED <<bridgeVars, driverVars, pageVars, tool>>

\* The mocks among the victims leave the proxy; the others need a call.
UnrouteMocks(c) ==
    /\ pc[c] = "popped"
    /\ mocks' = mocks \ tool[c].ids
    /\ pc' = [pc EXCEPT ![c] =
                 IF tool[c].ids \subseteq Mocks THEN "done" ELSE "entered"]
    /\ UNCHANGED <<bridgeVars, pageVars, routes, scripts, tool>>

\* Whatever the answer, the routes are not put back.
UnrouteLeave(c) ==
    /\ tool[c].kind = "unroute" /\ Leave(c, "called")
    /\ phase[c] = "ok" \/ Raised(c)
    /\ UNCHANGED <<bridgeVars, pageVars, driverVars, tool>>

-----------------------------------------------------------------------------
(* browser_add_init_script and browser_remove_init_script                  *)

AddScript(c, s) ==
    /\ ~Used(s)
    /\ Enter(c, "addScript", {s}, "entered")
    /\ UNCHANGED <<bridgeVars, pageVars, driverVars>>

AddScriptLeave(c) ==
    /\ tool[c].kind = "addScript" /\ Leave(c, "called")
    /\ \/ phase[c] = "ok" /\ scripts' = scripts \cup tool[c].ids
       \/ Raised(c) /\ UNCHANGED scripts
    /\ UNCHANGED <<bridgeVars, pageVars, routes, mocks, tool>>

RemoveScript(c, s) ==
    /\ s \in scripts
    /\ Enter(c, "removeScript", {s}, "entered")
    /\ UNCHANGED <<bridgeVars, pageVars, driverVars>>

\* Mutant: the id is forgotten whether or not the extension removed it.
RemoveScriptLeaveForgets(c) ==
    /\ tool[c].kind = "removeScript" /\ Leave(c, "called")
    /\ phase[c] = "ok" \/ Raised(c)
    /\ scripts' = scripts \ tool[c].ids
    /\ UNCHANGED <<bridgeVars, pageVars, routes, mocks, tool>>

\* The id is forgotten only when the extension has removed the script.
RemoveScriptLeave(c) ==
    /\ tool[c].kind = "removeScript" /\ Leave(c, "called")
    /\ \/ phase[c] = "ok" /\ scripts' = scripts \ tool[c].ids
       \/ Raised(c) /\ UNCHANGED scripts
    /\ UNCHANGED <<bridgeVars, pageVars, routes, mocks, tool>>

-----------------------------------------------------------------------------
(* background.js: dispatchRequest                                          *)

Received(c) == frames # << >> /\ c = Head(frames) /\ frames' = Tail(frames)

\* The /poll that carried the frame was abandoned.
FrameLost(c) ==
    /\ Received(c)
    /\ UNCHANGED <<phase, executed, up, driverVars, pageVars, pc, tool>>

AddRoute(c) ==
    /\ Received(c) /\ tool[c].kind = "route"
    /\ Remote!Execute(c, "applied")
    /\ extRoutes' = extRoutes \cup tool[c].ids
    /\ UNCHANGED <<up, registering, extScripts, driverVars, pc, tool>>

\* Ids it does not know are skipped, so a call never fails.
RemoveRoute(c) ==
    /\ Received(c) /\ tool[c].kind = "unroute"
    /\ Remote!Execute(c, "applied")
    /\ extRoutes' = extRoutes \ tool[c].ids
    /\ UNCHANGED <<up, registering, extScripts, driverVars, pc, tool>>

\* registerInitScript awaits the browser; other frames are handled meanwhile.
RegisterBegin(c) ==
    /\ Received(c) /\ tool[c].kind = "addScript"
    /\ registering' = registering \cup {c}
    /\ UNCHANGED <<phase, executed, up, extRoutes, extScripts, driverVars, pc, tool>>

RegisterEnd(c, how) ==
    /\ c \in registering
    /\ registering' = registering \ {c}
    /\ Remote!Execute(c, how)
    /\ extScripts' = IF how = "applied" THEN extScripts \cup tool[c].ids ELSE extScripts
    /\ UNCHANGED <<up, frames, extRoutes, driverVars, pc, tool>>

Unregister(c) ==
    /\ Received(c) /\ tool[c].kind = "removeScript"
    /\ Remote!Execute(c, "applied")
    /\ extScripts' = extScripts \ tool[c].ids
    /\ UNCHANGED <<up, registering, extRoutes, driverVars, pc, tool>>

-----------------------------------------------------------------------------
ToolStep(c) ==
    \/ \E r \in Routes : RouteEnter(c, r) \/ RouteMock(c, r)
    \/ RouteLeave(c) \/ RouteMockListed(c)
    \/ \E r \in Routes : UnrouteId(c, r)
    \/ \E ids \in SUBSET Routes : UnroutePattern(c, ids)
    \/ UnroutePop(c) \/ UnrouteMocks(c) \/ UnrouteLeave(c)
    \/ \E s \in Scripts : AddScript(c, s) \/ RemoveScript(c, s)
    \/ AddScriptLeave(c) \/ RemoveScriptLeave(c)

PageStep(c) ==
    \/ FrameLost(c) \/ AddRoute(c) \/ RemoveRoute(c)
    \/ RegisterBegin(c) \/ Unregister(c)
    \/ \E how \in {"applied", "rejected"} : RegisterEnd(c, how)

Next ==
    \/ \E c \in Calls : ToolStep(c) \/ Request(c) \/ Answer(c) \/ PageStep(c)
    \/ Disconnect

Spec == Init /\ [][Next]_vars

-----------------------------------------------------------------------------
(* Type correctness of the tables, the calls and the page. *)
TypeOK ==
    /\ Remote!TypeOK
    /\ up \in BOOLEAN /\ frames \in Seq(Calls) /\ registering \subseteq Calls
    /\ pc \in [Calls -> {"idle", "entered", "mocked", "found", "popped", "called", "done"}]
    /\ tool \in [Calls -> [kind : Kinds, ids : SUBSET (Routes \cup Scripts),
                           settled : SUBSET (Routes \cup Scripts)]]
    /\ routes \subseteq Routes /\ scripts \subseteq Scripts
    /\ mocks \subseteq Mocks
    /\ extRoutes \subseteq Routes \ Mocks /\ extScripts \subseteq Scripts

By(c, kind, i) == tool[c].kind = kind /\ i \in tool[c].ids

\* A route that is listed once its browser_route is over is in force: in the
\* extension, or in the proxy for a mock, whatever other calls are doing.
ListedRoutesAreInForce ==
    \A r \in routes :
        IF r \in Mocks THEN r \in mocks
        ELSE Over(r) => r \in extRoutes

\* A route in force that the driver no longer lists has a cause: a call on it
\* still runs, or did not reach the extension for certain, or removed it
\* while its browser_route was still running.
UnlistedRoutesHaveACause ==
    \A r \in extRoutes \ routes :
        \E c \in Calls :
            /\ r \in tool[c].ids
            /\ \/ pc[c] # "done"
               \/ phase[c] \in {"refused", "unknown"}
               \/ By(c, "unroute", r) /\ r \notin tool[c].settled

\* The driver's table and what is in force agree, up to calls that are not over or
\* have not told.
RouteTablesAgree == ListedRoutesAreInForce /\ UnlistedRoutesHaveACause

\* Once browser_unroute has returned, the routes that were settled when it
\* began are never in force again: no frame of theirs is still on its way.
UnroutedIsFinal ==
    \A c \in Calls :
        tool[c].kind = "unroute" /\ pc[c] = "done" /\ phase[c] \in {"idle", "ok"} =>
            tool[c].settled \cap (extRoutes \cup mocks) = {}

\* A script the extension runs whose browser_add_init_script returned can
\* still be named to browser_remove_init_script: a removal that failed can be
\* tried again, and a script nobody tried to remove is there.
ScriptsStayRemovable ==
    /\ \A s \in extScripts \ scripts :
           \E c \in Calls :
               By(c, "addScript", s) /\ (pc[c] # "done" \/ phase[c] = "unknown")
    /\ \A s \in scripts \ extScripts : \E c \in Calls : By(c, "removeScript", s)
=============================================================================
