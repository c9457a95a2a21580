------------------------ MODULE HelperRegistryProofs ------------------------
(***************************************************************************)
(* Theorems about HelperRegistry: for any number of tools in flight, the   *)
(* driver's tables and the extension's agree as far as they can, what was  *)
(* unrouted stays out, and scripts can be removed.  The inductive invariant *)
(* follows each id through the calls that name it; nothing is needed of the *)
(* frames on their way, for the extension runs each call at most once.     *)
(***************************************************************************)
EXTENDS HelperRegistry, TLAPS

\* Where a call can be, by its kind, and what it has seen and done by then.
CallFits(c) ==
    /\ pc[c] = "idle" <=> tool[c].kind = "none"
    /\ tool[c].kind = "none" => tool[c].ids = {}
    /\ tool[c].settled \subseteq tool[c].ids
    /\ tool[c].kind = "route" => tool[c].ids \subseteq Routes /\ pc[c] \in {"entered", "mocked", "called", "done"}
    /\ tool[c].kind = "route" /\ pc[c] = "mocked" => tool[c].ids \subseteq Mocks
    /\ tool[c].kind = "route" /\ (pc[c] = "entered" \/ phase[c] # "idle") => tool[c].ids \cap Mocks = {}
    /\ tool[c].kind = "unroute" =>
          tool[c].ids \subseteq Routes /\ pc[c] \in {"found", "popped", "entered", "called", "done"}
    /\ tool[c].kind \in {"addScript", "removeScript"} =>
          tool[c].ids \subseteq Scripts /\ pc[c] \in {"entered", "called", "done"}
    /\ pc[c] \in {"idle", "entered", "mocked", "found", "popped"} => phase[c] = "idle"
    /\ pc[c] = "called" => phase[c] # "idle"
    /\ pc[c] = "done" => phase[c] # "open" /\ (phase[c] = "idle" => tool[c].ids \subseteq Mocks)
    /\ phase[c] = "ok" => executed[c] = "applied"
    /\ phase[c] = "remote" => executed[c] = "rejected"
    /\ phase[c] \in {"idle", "refused"} => executed[c] = "no"
    /\ tool[c].kind \in {"route", "unroute", "removeScript"} => executed[c] # "rejected"
    /\ c \in registering => tool[c].kind = "addScript"

CallsFit == \A c \in Calls : CallFits(c)

\* An id is drawn by one call.
SameDrawn(c, d, i) ==
    (By(c, "route", i) /\ By(d, "route", i)) \/ (By(c, "addScript", i) /\ By(d, "addScript", i))
    => c = d

IdsAreDrawnOnce == \A c, d \in Calls, i \in Routes \cup Scripts : SameDrawn(c, d, i)

\* A route that is listed was drawn, ...
Drawn(r) == \E d \in Calls : By(d, "route", r)
ListedIsDrawn == \A r \in routes : Drawn(r)

\* ... is the extension's once it has been told ...
Told(d, r) ==
    r \in routes \ Mocks /\ By(d, "route", r) =>
       /\ pc[d] = "done" => phase[d] = "ok"
       /\ executed[d] = "applied" => r \in extRoutes

ListedIsTold == \A d \in Calls, r \in Routes : Told(d, r)

\* ... or, a mock, with the proxy, and its browser_route is over.
MockSet(d, r) ==
    r \in routes \cap Mocks => r \in mocks /\ (By(d, "route", r) => pc[d] = "done")

ListedMockIsSet == \A d \in Calls, r \in Routes : MockSet(d, r)

\* A mock that is not listed yet is with the proxy and nobody takes it away.
New(d, r) ==
    pc[d] = "mocked" /\ By(d, "route", r) =>
       r \in mocks /\ r \notin routes /\ \A c \in Calls : ~By(c, "unroute", r)

MockedIsNew == \A d \in Calls, r \in Routes : New(d, r)

\* What browser_unroute has taken stays gone: from the table, from the proxy and, if it
\* was settled, from the extension.
Gone(c, r) ==
    By(c, "unroute", r) =>
       /\ pc[c] \in {"popped", "entered", "called", "done"} => r \notin routes
       /\ pc[c] \in {"entered", "called", "done"} => r \notin mocks
       /\ executed[c] = "applied" /\ r \in tool[c].settled => r \notin extRoutes

TakenIsGone == \A c \in Calls, r \in Routes : Gone(c, r)

\* The browser_route of a settled route is over, and the extension has seen it.
Settled(c, d, r) ==
    By(c, "unroute", r) /\ r \in tool[c].settled /\ By(d, "route", r) =>
       pc[d] = "done" /\ (r \notin Mocks => executed[d] = "applied")

SettledIsOver == \A c, d \in Calls, r \in Routes : Settled(c, d, r)

\* A route that went while its browser_route still runs was taken unsettled.
TakenUnsettled(r) == \E c \in Calls : By(c, "unroute", r) /\ r \notin tool[c].settled
Early(d, r) ==
    r \notin routes /\ By(d, "route", r) /\ pc[d] \in {"entered", "called"} => TakenUnsettled(r)

TakenEarly == \A d \in Calls, r \in Routes : Early(d, r)

\* A script that the extension runs was applied by one who added it, ...
Applied(s) == \E c \in Calls : By(c, "addScript", s) /\ executed[c] = "applied"
RunsAreApplied == \A s \in extScripts : Applied(s)

\* ... one that the driver lists was added with success, ...
Added(s) == \E c \in Calls : By(c, "addScript", s) /\ pc[c] = "done" /\ phase[c] = "ok"
ListedAreAdded == \A s \in scripts : Added(s)

\* ... one that was applied is run until somebody removes it ...
Removing(s) == \E d \in Calls : By(d, "removeScript", s)
Runs(c, s) ==
    s \notin extScripts /\ By(c, "addScript", s) /\ executed[c] = "applied" => Removing(s)

AppliedRuns == \A c \in Calls, s \in Scripts : Runs(c, s)

\* ... and is not run again once it has been removed.
Removed(c, d, s) ==
    By(c, "addScript", s) /\ By(d, "removeScript", s) =>
       executed[c] = "applied" /\ (executed[d] = "applied" => s \notin extScripts)

RemovedStaysOut == \A c, d \in Calls, s \in Scripts : Removed(c, d, s)

\* A call that is over stays over with its answer, and what was applied stays applied.
EndKept(c) ==
    /\ pc[c] = "done" => pc'[c] = "done" /\ (phase[c] = "ok" => phase'[c] = "ok")
    /\ executed[c] = "applied" => executed'[c] = "applied"

\* What UnlistedRoutesHaveACause asks of a call ...
Cause(c, r) ==
    /\ r \in tool[c].ids
    /\ \/ pc[c] # "done"
       \/ phase[c] \in {"refused", "unknown"}
       \/ By(c, "unroute", r) /\ r \notin tool[c].settled

\* ... for one route, ...
HasCause(r) == r \in extRoutes \ routes => \E c \in Calls : Cause(c, r)

\* ... and ScriptsStayRemovable, ...
AddedButUntold(c, s) == By(c, "addScript", s) /\ (pc[c] # "done" \/ phase[c] = "unknown")

\* ... for one script.
Untold(s) == s \in extScripts \ scripts => \E c \in Calls : AddedButUntold(c, s)

\* A tool is entered: what its call is, and that no other changes.
Begins(a, kind, ids, to) ==
    /\ pc[a] = "idle" /\ pc'[a] = to
    /\ tool'[a].kind = kind /\ tool'[a].ids = ids
    /\ tool'[a].settled = {i \in ids : Over(i)}
    /\ \A d \in Calls \ {a} : pc'[d] = pc[d] /\ tool'[d] = tool[d]
    /\ UNCHANGED <<bridgeVars, pageVars, scripts>>

\* The calls of tools.
ToolCalls ==
    [kind : Kinds, ids : SUBSET (Routes \cup Scripts), settled : SUBSET (Routes \cup Scripts)]

\* The types of what entering a tool changes.
CallsTyped ==
    /\ pc \in [Calls -> {"idle", "entered", "mocked", "found", "popped", "called", "done"}]
    /\ tool \in [Calls -> ToolCalls]

\* Steps that nothing below depends on.
Quiet ==
    UNCHANGED <<phase, executed, driverVars, extRoutes, extScripts, pc, tool>>

\* The inductive invariant.
RegistryInv ==
    /\ TypeOK /\ CallsFit /\ IdsAreDrawnOnce
    /\ ListedIsDrawn /\ ListedIsTold /\ ListedMockIsSet /\ MockedIsNew
    /\ TakenIsGone /\ SettledIsOver /\ TakenEarly
    /\ RunsAreApplied /\ ListedAreAdded /\ AppliedRuns /\ RemovedStaysOut
    /\ \A r \in Routes : HasCause(r)
    /\ \A s \in Scripts : Untold(s)

\* A call is a call.
LEMMA ToolTyped ==
    ASSUME NEW kind \in Kinds, NEW ids \in SUBSET (Routes \cup Scripts),
           NEW settled \in SUBSET ids
    PROVE  Tool(kind, ids, settled) \in ToolCalls
BY DEF Tool, ToolCalls

\* Frames are calls.
LEMMA FramesTyped ==
    ASSUME NEW S, NEW f \in Seq(S), NEW c \in S
    PROVE  Append(f, c) \in Seq(S) /\ (f # << >> => Tail(f) \in Seq(S))
OBVIOUS

\* Entering a tool keeps the types.
LEMMA EnterTyped ==
    ASSUME TypeOK, NEW c \in Calls, NEW kind \in Kinds,
           NEW ids \in SUBSET (Routes \cup Scripts),
           NEW to \in {"entered", "mocked", "found", "popped"}, Enter(c, kind, ids, to)
    PROVE  /\ pc' \in [Calls -> {"idle", "entered", "mocked", "found", "popped", "called", "done"}]
           /\ tool' \in [Calls -> ToolCalls]
<1>1. {i \in ids : Over(i)} \in SUBSET ids
  OBVIOUS
<1>2. Tool(kind, ids, {i \in ids : Over(i)}) \in ToolCalls
  BY <1>1, ToolTyped
<1>3. QED
  BY <1>2 DEF Enter, TypeOK, ToolCalls

\* What entering each tool does to the calls and to the tables.
LEMMA BeginsEffect ==
    ASSUME TypeOK, NEW a \in Calls
    PROVE  /\ \A x \in Routes :
                 /\ RouteEnter(a, x) => /\ Begins(a, "route", {x}, "entered") /\ x \notin Mocks /\ ~Used(x)
                                        /\ routes' = routes \cup {x} /\ UNCHANGED mocks
                 /\ RouteMock(a, x) => /\ Begins(a, "route", {x}, "mocked") /\ x \in Mocks /\ ~Used(x)
                                       /\ mocks' = mocks \cup {x} /\ UNCHANGED routes
                 /\ UnrouteId(a, x) => /\ Begins(a, "unroute", {x}, "popped") /\ x \in routes
                                       /\ routes' = routes \ {x} /\ UNCHANGED mocks
           /\ \A x \in SUBSET Routes :
                 UnroutePattern(a, x) => /\ Begins(a, "unroute", x, "found") /\ x \subseteq routes
                                         /\ UNCHANGED <<routes, mocks>>
           /\ \A x \in Scripts :
                 /\ AddScript(a, x) => Begins(a, "addScript", {x}, "entered") /\ ~Used(x) /\ UNCHANGED <<routes, mocks>>
                 /\ RemoveScript(a, x) =>
                       Begins(a, "removeScript", {x}, "entered") /\ x \in scripts /\ UNCHANGED <<routes, mocks>>
<1>1. \A kind, ids, to : Enter(a, kind, ids, to) /\ UNCHANGED <<bridgeVars, pageVars, scripts>> => Begins(a, kind, ids, to)
  BY DEF Enter, Tool, TypeOK, Begins
<1> QED
  BY <1>1 DEF RouteEnter, RouteMock, UnrouteId, UnroutePattern, AddScript,
              RemoveScript, bridgeVars, pageVars, driverVars

\* Entering each tool keeps the types.
LEMMA BeginsTyped ==
    ASSUME TypeOK, NEW a \in Calls
    PROVE  /\ \A x \in Routes : RouteEnter(a, x) \/ RouteMock(a, x) \/ UnrouteId(a, x) => CallsTyped'
           /\ \A x \in SUBSET Routes : UnroutePattern(a, x) => CallsTyped'
           /\ \A x \in Scripts : AddScript(a, x) \/ RemoveScript(a, x) => CallsTyped'
<1>1. \A ids \in SUBSET (Routes \cup Scripts) :
        \A kind \in Kinds, to \in {"entered", "mocked", "found", "popped"} :
           Enter(a, kind, ids, to) => CallsTyped'
  BY EnterTyped DEF CallsTyped
<1>2. \A x \in Routes : {x} \in SUBSET (Routes \cup Scripts)
  OBVIOUS
<1>3. \A x \in Scripts : {x} \in SUBSET (Routes \cup Scripts)
  OBVIOUS
<1> QED
  BY <1>1, <1>2, <1>3 DEF RouteEnter, RouteMock, UnrouteId, UnroutePattern,
                          AddScript, RemoveScript, Kinds

\* The steps that are quiet.
LEMMA QuietEffect ==
    /\ \A a \in Calls : FrameLost(a) \/ RegisterBegin(a) => Quiet
    /\ Disconnect => Quiet
    /\ UNCHANGED vars => Quiet
BY DEF Quiet, FrameLost, RegisterBegin, Disconnect, vars, bridgeVars, driverVars,
       pageVars

\* Every step keeps the types.
LEMMA TypedStep ==
    ASSUME TypeOK, CallsFit, [Next]_vars
    PROVE  TypeOK'
<1> USE MocksAssumption, IdsAssumption
<1>1. \A a \in Calls : CallFits(a)
  BY DEF CallsFit
<1>2. \A c \in Calls : frames # << >> => Tail(frames) \in Seq(Calls)
  BY FramesTyped DEF TypeOK
<1>3. ASSUME NEW a \in Calls, NEW x \in Routes, RouteEnter(a, x)
             \/ RouteMock(a, x) \/ UnrouteId(a, x)
      PROVE  TypeOK'
  BY <1>3, <1>1, <1>2, BeginsEffect, BeginsTyped
     DEF TypeOK, Remote!TypeOK, Remote!Phases, Remote!Executions, CallFits, Kinds,
         Begins, Used, bridgeVars, pageVars, CallsTyped, ToolCalls
<1>4. ASSUME NEW a \in Calls, NEW x \in SUBSET Routes, UnroutePattern(a, x)
      PROVE  TypeOK'
  BY <1>4, <1>1, <1>2, BeginsEffect, BeginsTyped
     DEF TypeOK, Remote!TypeOK, Remote!Phases, Remote!Executions, CallFits, Kinds,
         Begins, Used, bridgeVars, pageVars, CallsTyped, ToolCalls
<1>5. ASSUME NEW a \in Calls, NEW x \in Scripts, AddScript(a, x)
             \/ RemoveScript(a, x)
      PROVE  TypeOK'
  BY <1>5, <1>1, <1>2, BeginsEffect, BeginsTyped
     DEF TypeOK, Remote!TypeOK, Remote!Phases, Remote!Executions, CallFits, Kinds,
         Begins, Used, bridgeVars, pageVars, CallsTyped, ToolCalls
<1>6. ASSUME NEW a \in Calls, RouteLeave(a) \/ RouteMockListed(a)
             \/ UnrouteLeave(a) \/ AddScriptLeave(a) \/ RemoveScriptLeave(a)
      PROVE  TypeOK'
  BY <1>6, <1>1, <1>2 DEF TypeOK, Remote!TypeOK, Remote!Phases, Remote!Executions,
                          CallFits, Kinds, RouteLeave, Leave, Raised,
                          RouteMockListed, UnrouteLeave, AddScriptLeave,
                          RemoveScriptLeave, bridgeVars, driverVars, pageVars
<1>7. ASSUME NEW a \in Calls, UnroutePop(a) \/ UnrouteMocks(a)
      PROVE  TypeOK'
  BY <1>7, <1>1, <1>2 DEF TypeOK, Remote!TypeOK, Remote!Phases, Remote!Executions,
                          CallFits, Kinds, UnroutePop, UnrouteMocks, bridgeVars,
                          driverVars, pageVars
<1>8. ASSUME NEW a \in Calls, Answer(a)
      PROVE  TypeOK'
  BY <1>8, <1>1, <1>2 DEF TypeOK, Remote!TypeOK, Remote!Phases, Remote!Executions,
                          CallFits, Kinds, Answer, Remote!ReturnResult,
                          Remote!RaiseRemoteError, Remote!GiveUp, bridgeVars,
                          driverVars, pageVars
<1>9. ASSUME NEW a \in Calls, Request(a)
      PROVE  TypeOK'
  <2>1. frames' = frames \/ frames' = Append(frames, a)
    BY <1>9 DEF Request
  <2>2. frames' \in Seq(Calls)
    BY <2>1 DEF TypeOK
  <2>3. QED
    BY <1>9, <2>2 DEF TypeOK, Remote!TypeOK, Remote!Phases, Remote!Executions,
                      Request, Remote!Open, Remote!Refuse, driverVars, pageVars
<1>10. ASSUME NEW a \in Calls, AddRoute(a) \/ RemoveRoute(a) \/ Unregister(a)
      PROVE  TypeOK'
  BY <1>10, <1>1, <1>2 DEF TypeOK, Remote!TypeOK, Remote!Phases, Remote!Executions,
                           CallFits, Kinds, AddRoute, Received, Remote!Execute,
                           RemoveRoute, Unregister, bridgeVars, driverVars, pageVars
<1>11. ASSUME NEW a \in Calls, NEW how \in {"applied", "rejected"}, RegisterEnd(a, how)
      PROVE  TypeOK'
  BY <1>11, <1>1, <1>2 DEF TypeOK, Remote!TypeOK, Remote!Phases, Remote!Executions,
                           CallFits, Kinds, RegisterEnd, Remote!Execute, bridgeVars,
                           driverVars, pageVars
<1>12. ASSUME NEW a \in Calls, FrameLost(a) \/ RegisterBegin(a)
      PROVE  TypeOK'
  BY <1>12, <1>1, <1>2 DEF TypeOK, Remote!TypeOK, Remote!Phases, Remote!Executions,
                           CallFits, Kinds, FrameLost, RegisterBegin, Received,
                           bridgeVars, driverVars, pageVars
<1>13. CASE Disconnect
  BY <1>13, <1>1, <1>2 DEF TypeOK, Remote!TypeOK, Remote!Phases, Remote!Executions,
                           CallFits, Kinds, Disconnect, driverVars, pageVars
<1>14. CASE UNCHANGED vars
  BY <1>14, <1>1, <1>2 DEF TypeOK, Remote!TypeOK, Remote!Phases, Remote!Executions,
                           CallFits, Kinds, vars, bridgeVars, driverVars, pageVars
<1> QED
  BY <1>3, <1>4, <1>5, <1>6, <1>7, <1>8, <1>9, <1>10, <1>11, <1>12, <1>13, <1>14
     DEF Next, ToolStep, PageStep

\* Every step keeps CallsFit.
LEMMA CallsFitStep ==
    ASSUME TypeOK, CallsFit, NEW c \in Calls, [Next]_vars
    PROVE  CallFits(c)'
<1> USE MocksAssumption, IdsAssumption
<1>1. /\ pc \in [Calls -> {"idle", "entered", "mocked", "found", "popped", "called", "done"}]
      /\ phase \in [Calls -> {"idle", "open", "refused", "ok", "remote", "unknown"}]
      /\ executed \in [Calls -> {"no", "applied", "rejected"}]
  BY DEF TypeOK, Remote!TypeOK, Remote!Phases, Remote!Executions
<1>2. \A a \in Calls : CallFits(a)
  BY DEF CallsFit
<1>3. tool[c].kind \in Kinds
  BY DEF TypeOK
<1>4. ASSUME NEW a \in Calls, NEW x \in Routes, RouteEnter(a, x)
             \/ RouteMock(a, x) \/ UnrouteId(a, x)
      PROVE  CallFits(c)'
  BY <1>4, <1>1, <1>2, <1>3, BeginsEffect DEF CallFits, Kinds, Begins, Used,
                                              bridgeVars, pageVars
<1>5. ASSUME NEW a \in Calls, NEW x \in SUBSET Routes, UnroutePattern(a, x)
      PROVE  CallFits(c)'
  BY <1>5, <1>1, <1>2, <1>3, BeginsEffect DEF CallFits, Kinds, Begins, Used,
                                              bridgeVars, pageVars
<1>6. ASSUME NEW a \in Calls, NEW x \in Scripts, AddScript(a, x)
             \/ RemoveScript(a, x)
      PROVE  CallFits(c)'
  BY <1>6, <1>1, <1>2, <1>3, BeginsEffect DEF CallFits, Kinds, Begins, Used,
                                              bridgeVars, pageVars
<1>7. ASSUME NEW a \in Calls, RouteLeave(a) \/ RouteMockListed(a)
             \/ UnrouteLeave(a) \/ AddScriptLeave(a) \/ RemoveScriptLeave(a)
      PROVE  CallFits(c)'
  BY <1>7, <1>1, <1>2, <1>3 DEF CallFits, Kinds, RouteLeave, Leave, Raised,
                                RouteMockListed, UnrouteLeave, AddScriptLeave,
                                RemoveScriptLeave, bridgeVars, driverVars, pageVars
<1>8. ASSUME NEW a \in Calls, UnroutePop(a) \/ UnrouteMocks(a)
      PROVE  CallFits(c)'
  BY <1>8, <1>1, <1>2, <1>3 DEF CallFits, Kinds, UnroutePop, UnrouteMocks,
                                bridgeVars, driverVars, pageVars
<1>9. ASSUME NEW a \in Calls, Request(a) \/ Answer(a)
      PROVE  CallFits(c)'
  BY <1>9, <1>1, <1>2, <1>3 DEF CallFits, Kinds, Request, Remote!Open,
                                Remote!Refuse, Answer, Remote!ReturnResult,
                                Remote!RaiseRemoteError, Remote!GiveUp, bridgeVars,
                                driverVars, pageVars
<1>10. ASSUME NEW a \in Calls, AddRoute(a) \/ RemoveRoute(a) \/ Unregister(a)
      PROVE  CallFits(c)'
  BY <1>10, <1>1, <1>2, <1>3 DEF CallFits, Kinds, AddRoute, Received,
                                 Remote!Execute, RemoveRoute, Unregister,
                                 bridgeVars, driverVars, pageVars
<1>11. ASSUME NEW a \in Calls, NEW how \in {"applied", "rejected"}, RegisterEnd(a, how)
      PROVE  CallFits(c)'
  BY <1>11, <1>1, <1>2, <1>3 DEF CallFits, Kinds, RegisterEnd, Remote!Execute,
                                 bridgeVars, driverVars, pageVars
<1>12. ASSUME NEW a \in Calls, FrameLost(a) \/ RegisterBegin(a)
      PROVE  CallFits(c)'
  BY <1>12, <1>1, <1>2, <1>3 DEF CallFits, Kinds, FrameLost, RegisterBegin,
                                 Received, bridgeVars, driverVars, pageVars
<1>13. CASE Disconnect
  BY <1>13, <1>1, <1>2, <1>3 DEF CallFits, Kinds, Disconnect, driverVars, pageVars
<1>14. CASE UNCHANGED vars
  BY <1>14, <1>1, <1>2, <1>3 DEF CallFits, Kinds, vars, bridgeVars, driverVars,
                                 pageVars
<1> QED
  BY <1>4, <1>5, <1>6, <1>7, <1>8, <1>9, <1>10, <1>11, <1>12, <1>13, <1>14
     DEF Next, ToolStep, PageStep

\* Every step keeps IdsAreDrawnOnce: an id is drawn unused.
LEMMA DrawnOnceStep ==
    ASSUME TypeOK, CallsFit, IdsAreDrawnOnce, NEW c \in Calls, NEW d \in Calls,
           NEW i \in Routes \cup Scripts, [Next]_vars
    PROVE  SameDrawn(c, d, i)'
<1> USE MocksAssumption, IdsAssumption
<1>1. SameDrawn(c, d, i)
  BY DEF IdsAreDrawnOnce, SameDrawn
<1>2. ASSUME NEW a \in Calls, NEW x \in Routes, RouteEnter(a, x)
             \/ RouteMock(a, x) \/ UnrouteId(a, x)
      PROVE  SameDrawn(c, d, i)'
  BY <1>2, <1>1, BeginsEffect DEF SameDrawn, By, Begins, Used, bridgeVars, pageVars
<1>3. ASSUME NEW a \in Calls, NEW x \in SUBSET Routes, UnroutePattern(a, x)
      PROVE  SameDrawn(c, d, i)'
  BY <1>3, <1>1, BeginsEffect DEF SameDrawn, By, Begins, Used, bridgeVars, pageVars
<1>4. ASSUME NEW a \in Calls, NEW x \in Scripts, AddScript(a, x)
             \/ RemoveScript(a, x)
      PROVE  SameDrawn(c, d, i)'
  BY <1>4, <1>1, BeginsEffect DEF SameDrawn, By, Begins, Used, bridgeVars, pageVars
<1>5. ASSUME NEW a \in Calls, RouteLeave(a) \/ RouteMockListed(a)
             \/ UnrouteLeave(a) \/ AddScriptLeave(a) \/ RemoveScriptLeave(a)
      PROVE  SameDrawn(c, d, i)'
  BY <1>5, <1>1 DEF SameDrawn, By, RouteLeave, Leave, Raised, RouteMockListed,
                    UnrouteLeave, AddScriptLeave, RemoveScriptLeave, bridgeVars,
                    driverVars, pageVars
<1>6. ASSUME NEW a \in Calls, UnroutePop(a) \/ UnrouteMocks(a)
      PROVE  SameDrawn(c, d, i)'
  BY <1>6, <1>1 DEF SameDrawn, By, UnroutePop, UnrouteMocks, bridgeVars, driverVars,
                    pageVars
<1>7. ASSUME NEW a \in Calls, Request(a) \/ Answer(a)
      PROVE  SameDrawn(c, d, i)'
  BY <1>7, <1>1 DEF SameDrawn, By, Request, Remote!Open, Remote!Refuse, Answer,
                    Remote!ReturnResult, Remote!RaiseRemoteError, Remote!GiveUp,
                    bridgeVars, driverVars, pageVars
<1>8. ASSUME NEW a \in Calls, AddRoute(a) \/ RemoveRoute(a) \/ Unregister(a)
      PROVE  SameDrawn(c, d, i)'
  BY <1>8, <1>1 DEF SameDrawn, By, AddRoute, Received, Remote!Execute, RemoveRoute,
                    Unregister, bridgeVars, driverVars, pageVars
<1>9. ASSUME NEW a \in Calls, NEW how \in {"applied", "rejected"}, RegisterEnd(a, how)
      PROVE  SameDrawn(c, d, i)'
  BY <1>9, <1>1 DEF SameDrawn, By, RegisterEnd, Remote!Execute, bridgeVars,
                    driverVars, pageVars
<1>10. CASE Quiet
  BY <1>10, <1>1 DEF SameDrawn, By, Quiet, driverVars
<1> QED
  BY QuietEffect, <1>2, <1>3, <1>4, <1>5, <1>6, <1>7, <1>8, <1>9, <1>10
     DEF Next, ToolStep, PageStep

\* What a call was asked does not change once it has begun.
LEMMA ToolStays ==
    ASSUME TypeOK, CallsFit, NEW c \in Calls, tool[c].kind # "none", [Next]_vars
    PROVE  tool'[c] = tool[c]
<1> USE MocksAssumption, IdsAssumption
<1>1. pc[c] # "idle"
  BY DEF CallsFit, CallFits
<1>2. ASSUME NEW a \in Calls, NEW x \in Routes, RouteEnter(a, x)
             \/ RouteMock(a, x) \/ UnrouteId(a, x)
      PROVE  tool'[c] = tool[c]
  BY <1>2, <1>1, BeginsEffect DEF Begins, Used, bridgeVars, pageVars
<1>3. ASSUME NEW a \in Calls, NEW x \in SUBSET Routes, UnroutePattern(a, x)
      PROVE  tool'[c] = tool[c]
  BY <1>3, <1>1, BeginsEffect DEF Begins, Used, bridgeVars, pageVars
<1>4. ASSUME NEW a \in Calls, NEW x \in Scripts, AddScript(a, x)
             \/ RemoveScript(a, x)
      PROVE  tool'[c] = tool[c]
  BY <1>4, <1>1, BeginsEffect DEF Begins, Used, bridgeVars, pageVars
<1>5. ASSUME NEW a \in Calls, RouteLeave(a) \/ RouteMockListed(a)
             \/ UnrouteLeave(a) \/ AddScriptLeave(a) \/ RemoveScriptLeave(a)
      PROVE  tool'[c] = tool[c]
  BY <1>5, <1>1 DEF RouteLeave, Leave, Raised, RouteMockListed, UnrouteLeave,
                    AddScriptLeave, RemoveScriptLeave, bridgeVars, driverVars,
                    pageVars
<1>6. ASSUME NEW a \in Calls, UnroutePop(a) \/ UnrouteMocks(a)
      PROVE  tool'[c] = tool[c]
  BY <1>6, <1>1 DEF UnroutePop, UnrouteMocks, bridgeVars, driverVars, pageVars
<1>7. ASSUME NEW a \in Calls, Request(a) \/ Answer(a)
      PROVE  tool'[c] = tool[c]
  BY <1>7, <1>1 DEF Request, Remote!Open, Remote!Refuse, Answer,
                    Remote!ReturnResult, Remote!RaiseRemoteError, Remote!GiveUp,
                    bridgeVars, driverVars, pageVars
<1>8. ASSUME NEW a \in Calls, AddRoute(a) \/ RemoveRoute(a) \/ Unregister(a)
      PROVE  tool'[c] = tool[c]
  BY <1>8, <1>1 DEF AddRoute, Received, Remote!Execute, RemoveRoute, Unregister,
                    bridgeVars, driverVars, pageVars
<1>9. ASSUME NEW a \in Calls, NEW how \in {"applied", "rejected"}, RegisterEnd(a, how)
      PROVE  tool'[c] = tool[c]
  BY <1>9, <1>1 DEF RegisterEnd, Remote!Execute, bridgeVars, driverVars, pageVars
<1>10. CASE Quiet
  BY <1>10, <1>1 DEF Quiet, driverVars
<1> QED
  BY QuietEffect, <1>2, <1>3, <1>4, <1>5, <1>6, <1>7, <1>8, <1>9, <1>10
     DEF Next, ToolStep, PageStep

\* How a call ended does not change.
LEMMA EndStays ==
    ASSUME TypeOK, CallsFit, NEW c \in Calls, [Next]_vars
    PROVE  EndKept(c)
<1> USE MocksAssumption, IdsAssumption
<1>1. /\ pc \in [Calls -> {"idle", "entered", "mocked", "found", "popped", "called", "done"}]
      /\ phase \in [Calls -> {"idle", "open", "refused", "ok", "remote", "unknown"}]
      /\ executed \in [Calls -> {"no", "applied", "rejected"}]
  BY DEF TypeOK, Remote!TypeOK, Remote!Phases, Remote!Executions
<1>2. pc[c] = "idle" => phase[c] = "idle" /\ executed[c] = "no"
  BY DEF CallsFit, CallFits
<1>3. ASSUME NEW a \in Calls, NEW x \in Routes, RouteEnter(a, x)
             \/ RouteMock(a, x) \/ UnrouteId(a, x)
      PROVE  EndKept(c)
  BY <1>3, <1>1, <1>2, BeginsEffect DEF EndKept, Begins, Used, bridgeVars, pageVars
<1>4. ASSUME NEW a \in Calls, NEW x \in SUBSET Routes, UnroutePattern(a, x)
      PROVE  EndKept(c)
  BY <1>4, <1>1, <1>2, BeginsEffect DEF EndKept, Begins, Used, bridgeVars, pageVars
<1>5. ASSUME NEW a \in Calls, NEW x \in Scripts, AddScript(a, x)
             \/ RemoveScript(a, x)
      PROVE  EndKept(c)
  BY <1>5, <1>1, <1>2, BeginsEffect DEF EndKept, Begins, Used, bridgeVars, pageVars
<1>6. ASSUME NEW a \in Calls, RouteLeave(a) \/ RouteMockListed(a)
             \/ UnrouteLeave(a) \/ AddScriptLeave(a) \/ RemoveScriptLeave(a)
      PROVE  EndKept(c)
  BY <1>6, <1>1, <1>2 DEF EndKept, RouteLeave, Leave, Raised, RouteMockListed,
                          UnrouteLeave, AddScriptLeave, RemoveScriptLeave,
                          bridgeVars, driverVars, pageVars
<1>7. ASSUME NEW a \in Calls, UnroutePop(a) \/ UnrouteMocks(a)
      PROVE  EndKept(c)
  BY <1>7, <1>1, <1>2 DEF EndKept, UnroutePop, UnrouteMocks, bridgeVars, driverVars,
                          pageVars
<1>8. ASSUME NEW a \in Calls, Request(a) \/ Answer(a)
      PROVE  EndKept(c)
  BY <1>8, <1>1, <1>2 DEF EndKept, Request, Remote!Open, Remote!Refuse, Answer,
                          Remote!ReturnResult, Remote!RaiseRemoteError,
                          Remote!GiveUp, bridgeVars, driverVars, pageVars
<1>9. ASSUME NEW a \in Calls, AddRoute(a) \/ RemoveRoute(a) \/ Unregister(a)
      PROVE  EndKept(c)
  BY <1>9, <1>1, <1>2 DEF EndKept, AddRoute, Received, Remote!Execute, RemoveRoute,
                          Unregister, bridgeVars, driverVars, pageVars
<1>10. ASSUME NEW a \in Calls, NEW how \in {"applied", "rejected"}, RegisterEnd(a, how)
      PROVE  EndKept(c)
  BY <1>10, <1>1, <1>2 DEF EndKept, RegisterEnd, Remote!Execute, bridgeVars,
                           driverVars, pageVars
<1>11. CASE Quiet
  BY <1>11, <1>1, <1>2 DEF EndKept, Quiet, driverVars
<1> QED
  BY QuietEffect, <1>3, <1>4, <1>5, <1>6, <1>7, <1>8, <1>9, <1>10, <1>11
     DEF Next, ToolStep, PageStep

\* What calls have done to an id stays done.
LEMMA CausesStay ==
    ASSUME TypeOK, CallsFit, [Next]_vars, NEW i
    PROVE  /\ Drawn(i) => Drawn(i)'
           /\ TakenUnsettled(i) => TakenUnsettled(i)'
           /\ Applied(i) => Applied(i)'
           /\ Added(i) => Added(i)'
           /\ Removing(i) => Removing(i)'
<1>1. \A c \in Calls : tool[c].kind # "none" => tool'[c] = tool[c]
  BY ToolStays
<1>2. \A c \in Calls : EndKept(c)
  BY EndStays
<1>3. \A c \in Calls, kind \in Kinds \ {"none"} : By(c, kind, i) => By(c, kind, i)' /\ tool'[c] = tool[c]
  BY <1>1 DEF By, Kinds
<1>4. QED
  BY <1>2, <1>3 DEF Drawn, TakenUnsettled, Applied, Added, Removing, EndKept, Kinds

\* Every step keeps ListedIsDrawn.
LEMMA DrawnStep ==
    ASSUME TypeOK, CallsFit, ListedIsDrawn, NEW r \in Routes, [Next]_vars
    PROVE  (r \in routes => Drawn(r))'
<1> USE MocksAssumption, IdsAssumption
<1>1. r \in routes => Drawn(r)
  BY DEF ListedIsDrawn
<1>2. Drawn(r) => Drawn(r)'
  BY CausesStay
<1>3. ASSUME NEW a \in Calls, NEW x \in Routes, RouteMock(a, x) \/ UnrouteId(a, x)
      PROVE  (r \in routes => Drawn(r))'
  BY <1>3, <1>1, <1>2, BeginsEffect DEF Begins, Used, bridgeVars, pageVars
<1>4. ASSUME NEW a \in Calls, NEW x \in Routes, RouteEnter(a, x)
      PROVE  (r \in routes => Drawn(r))'
  BY <1>4, <1>1, <1>2, BeginsEffect DEF Begins, Used, bridgeVars, pageVars, Drawn,
                                        By
<1>5. ASSUME NEW a \in Calls, NEW x \in SUBSET Routes, UnroutePattern(a, x)
      PROVE  (r \in routes => Drawn(r))'
  BY <1>5, <1>1, <1>2, BeginsEffect DEF Begins, Used, bridgeVars, pageVars
<1>6. ASSUME NEW a \in Calls, NEW x \in Scripts, AddScript(a, x)
             \/ RemoveScript(a, x)
      PROVE  (r \in routes => Drawn(r))'
  BY <1>6, <1>1, <1>2, BeginsEffect DEF Begins, Used, bridgeVars, pageVars
<1>7. ASSUME NEW a \in Calls, RouteLeave(a) \/ UnrouteLeave(a)
             \/ AddScriptLeave(a) \/ RemoveScriptLeave(a)
      PROVE  (r \in routes => Drawn(r))'
  BY <1>7, <1>1, <1>2 DEF RouteLeave, Leave, Raised, UnrouteLeave, AddScriptLeave,
                          RemoveScriptLeave, bridgeVars, driverVars, pageVars
<1>8. ASSUME NEW a \in Calls, RouteMockListed(a)
      PROVE  (r \in routes => Drawn(r))'
  BY <1>8, <1>1, <1>2 DEF RouteMockListed, Leave, bridgeVars, driverVars, pageVars,
                          Drawn, By
<1>9. ASSUME NEW a \in Calls, UnroutePop(a) \/ UnrouteMocks(a)
      PROVE  (r \in routes => Drawn(r))'
  BY <1>9, <1>1, <1>2 DEF UnroutePop, UnrouteMocks, bridgeVars, driverVars, pageVars
<1>10. ASSUME NEW a \in Calls, Request(a) \/ Answer(a)
      PROVE  (r \in routes => Drawn(r))'
  BY <1>10, <1>1, <1>2 DEF Request, Remote!Open, Remote!Refuse, Answer,
                           Remote!ReturnResult, Remote!RaiseRemoteError,
                           Remote!GiveUp, bridgeVars, driverVars, pageVars
<1>11. ASSUME NEW a \in Calls, AddRoute(a) \/ RemoveRoute(a) \/ Unregister(a)
      PROVE  (r \in routes => Drawn(r))'
  BY <1>11, <1>1, <1>2 DEF AddRoute, Received, Remote!Execute, RemoveRoute,
                           Unregister, bridgeVars, driverVars, pageVars
<1>12. ASSUME NEW a \in Calls, NEW how \in {"applied", "rejected"}, RegisterEnd(a, how)
      PROVE  (r \in routes => Drawn(r))'
  BY <1>12, <1>1, <1>2 DEF RegisterEnd, Remote!Execute, bridgeVars, driverVars,
                           pageVars
<1>13. CASE Quiet
  BY <1>13, <1>1, <1>2 DEF Quiet, driverVars
<1> QED
  BY QuietEffect, <1>3, <1>4, <1>5, <1>6, <1>7, <1>8, <1>9, <1>10, <1>11, <1>12,
     <1>13
     DEF Next, ToolStep, PageStep

\* Every step keeps MockedIsNew: an id that is not listed is not named to browser_unroute.
LEMMA NewStep ==
    ASSUME TypeOK, CallsFit, IdsAreDrawnOnce, ListedIsDrawn, TakenIsGone, MockedIsNew,
           NEW d \in Calls, NEW r \in Routes, [Next]_vars
    PROVE  New(d, r)'
<1> USE MocksAssumption, IdsAssumption
<1>1. /\ pc \in [Calls -> {"idle", "entered", "mocked", "found", "popped", "called", "done"}]
      /\ phase \in [Calls -> {"idle", "open", "refused", "ok", "remote", "unknown"}]
      /\ executed \in [Calls -> {"no", "applied", "rejected"}]
  BY DEF TypeOK, Remote!TypeOK, Remote!Phases, Remote!Executions
<1>2. \A a \in Calls : CallFits(a)
  BY DEF CallsFit
<1>3. New(d, r)
  BY DEF MockedIsNew
<1>4. r \in routes => \E e \in Calls : By(e, "route", r)
  BY DEF ListedIsDrawn, Drawn
<1>5. \A a \in Calls : By(a, "route", r) /\ By(d, "route", r) => a = d
  BY DEF IdsAreDrawnOnce, SameDrawn
<1>6. \A a \in Calls : pc[a] \in {"found", "popped"} => tool[a].kind = "unroute"
  BY DEF TypeOK, CallsFit, CallFits, Kinds
<1>7. ASSUME NEW a \in Calls, NEW x \in Routes, RouteEnter(a, x)
             \/ RouteMock(a, x) \/ UnrouteId(a, x)
      PROVE  New(d, r)'
  BY <1>7, <1>1, <1>2, <1>3, <1>4, <1>5, <1>6, BeginsEffect
     DEF New, By, CallFits, Begins, Used, bridgeVars, pageVars
<1>8. ASSUME NEW a \in Calls, NEW x \in SUBSET Routes, UnroutePattern(a, x)
      PROVE  New(d, r)'
  BY <1>8, <1>1, <1>2, <1>3, <1>4, <1>5, <1>6, BeginsEffect
     DEF New, By, CallFits, Begins, Used, bridgeVars, pageVars
<1>9. ASSUME NEW a \in Calls, NEW x \in Scripts, AddScript(a, x)
             \/ RemoveScript(a, x)
      PROVE  New(d, r)'
  BY <1>9, <1>1, <1>2, <1>3, <1>4, <1>5, <1>6, BeginsEffect
     DEF New, By, CallFits, Begins, Used, bridgeVars, pageVars
<1>10. ASSUME NEW a \in Calls, RouteLeave(a) \/ RouteMockListed(a)
              \/ UnrouteLeave(a) \/ AddScriptLeave(a) \/ RemoveScriptLeave(a)
      PROVE  New(d, r)'
  BY <1>10, <1>1, <1>2, <1>3, <1>4, <1>5, <1>6
     DEF New, By, CallFits, RouteLeave, Leave, Raised, RouteMockListed,
         UnrouteLeave, AddScriptLeave, RemoveScriptLeave, bridgeVars, driverVars,
         pageVars
<1>11. ASSUME NEW a \in Calls, UnroutePop(a) \/ UnrouteMocks(a)
      PROVE  New(d, r)'
  BY <1>11, <1>1, <1>2, <1>3, <1>4, <1>5, <1>6
     DEF New, By, CallFits, UnroutePop, UnrouteMocks, bridgeVars, driverVars,
         pageVars
<1>12. ASSUME NEW a \in Calls, Request(a) \/ Answer(a)
      PROVE  New(d, r)'
  BY <1>12, <1>1, <1>2, <1>3, <1>4, <1>5, <1>6
     DEF New, By, CallFits, Request, Remote!Open, Remote!Refuse, Answer,
         Remote!ReturnResult, Remote!RaiseRemoteError, Remote!GiveUp, bridgeVars,
         driverVars, pageVars
<1>13. ASSUME NEW a \in Calls, AddRoute(a) \/ RemoveRoute(a) \/ Unregister(a)
      PROVE  New(d, r)'
  BY <1>13, <1>1, <1>2, <1>3, <1>4, <1>5, <1>6
     DEF New, By, CallFits, AddRoute, Received, Remote!Execute, RemoveRoute,
         Unregister, bridgeVars, driverVars, pageVars
<1>14. ASSUME NEW a \in Calls, NEW how \in {"applied", "rejected"}, RegisterEnd(a, how)
      PROVE  New(d, r)'
  BY <1>14, <1>1, <1>2, <1>3, <1>4, <1>5, <1>6
     DEF New, By, CallFits, RegisterEnd, Remote!Execute, bridgeVars, driverVars,
         pageVars
<1>15. CASE Quiet
  BY <1>15, <1>1, <1>2, <1>3, <1>4, <1>5, <1>6
     DEF New, By, CallFits, Quiet, driverVars
<1> QED
  BY QuietEffect, <1>7, <1>8, <1>9, <1>10, <1>11, <1>12, <1>13, <1>14, <1>15
     DEF Next, ToolStep, PageStep

\* Every step keeps ListedIsTold: who takes a route away has taken it off the list first.
LEMMA ToldStep ==
    ASSUME TypeOK, CallsFit, IdsAreDrawnOnce, ListedIsTold, SettledIsOver, TakenIsGone,
           NEW d \in Calls, NEW r \in Routes, [Next]_vars
    PROVE  Told(d, r)'
<1> USE MocksAssumption, IdsAssumption
<1>1. /\ pc \in [Calls -> {"idle", "entered", "mocked", "found", "popped", "called", "done"}]
      /\ phase \in [Calls -> {"idle", "open", "refused", "ok", "remote", "unknown"}]
      /\ executed \in [Calls -> {"no", "applied", "rejected"}]
  BY DEF TypeOK, Remote!TypeOK, Remote!Phases, Remote!Executions
<1>2. \A a \in Calls : CallFits(a)
  BY DEF CallsFit
<1>3. Told(d, r)
  BY DEF ListedIsTold
<1>4. \A c \in Calls : Gone(c, r)
  BY DEF TakenIsGone
<1>5. \A a \in Calls : By(a, "route", r) /\ By(d, "route", r) => a = d
  BY DEF IdsAreDrawnOnce, SameDrawn
<1>6. ASSUME NEW a \in Calls, NEW x \in Routes, RouteEnter(a, x)
             \/ RouteMock(a, x) \/ UnrouteId(a, x)
      PROVE  Told(d, r)'
  BY <1>6, <1>1, <1>2, <1>3, <1>4, <1>5, BeginsEffect
     DEF Told, By, CallFits, Begins, Used, bridgeVars, pageVars
<1>7. ASSUME NEW a \in Calls, NEW x \in SUBSET Routes, UnroutePattern(a, x)
      PROVE  Told(d, r)'
  BY <1>7, <1>1, <1>2, <1>3, <1>4, <1>5, BeginsEffect
     DEF Told, By, CallFits, Begins, Used, bridgeVars, pageVars
<1>8. ASSUME NEW a \in Calls, NEW x \in Scripts, AddScript(a, x)
             \/ RemoveScript(a, x)
      PROVE  Told(d, r)'
  BY <1>8, <1>1, <1>2, <1>3, <1>4, <1>5, BeginsEffect
     DEF Told, By, CallFits, Begins, Used, bridgeVars, pageVars
<1>9. ASSUME NEW a \in Calls, RouteLeave(a) \/ RouteMockListed(a)
             \/ UnrouteLeave(a) \/ AddScriptLeave(a) \/ RemoveScriptLeave(a)
      PROVE  Told(d, r)'
  BY <1>9, <1>1, <1>2, <1>3, <1>4, <1>5 DEF Told, By, CallFits, RouteLeave, Leave,
                                            Raised, RouteMockListed, UnrouteLeave,
                                            AddScriptLeave, RemoveScriptLeave,
                                            bridgeVars, driverVars, pageVars
<1>10. ASSUME NEW a \in Calls, UnroutePop(a) \/ UnrouteMocks(a)
      PROVE  Told(d, r)'
  BY <1>10, <1>1, <1>2, <1>3, <1>4, <1>5 DEF Told, By, CallFits, UnroutePop,
                                             UnrouteMocks, bridgeVars, driverVars,
                                             pageVars
<1>11. ASSUME NEW a \in Calls, Request(a) \/ Answer(a)
      PROVE  Told(d, r)'
  BY <1>11, <1>1, <1>2, <1>3, <1>4, <1>5 DEF Told, By, CallFits, Request,
                                             Remote!Open, Remote!Refuse, Answer,
                                             Remote!ReturnResult,
                                             Remote!RaiseRemoteError, Remote!GiveUp,
                                             bridgeVars, driverVars, pageVars
<1>12. ASSUME NEW a \in Calls, AddRoute(a) \/ Unregister(a)
      PROVE  Told(d, r)'
  BY <1>12, <1>1, <1>2, <1>3, <1>4, <1>5 DEF Told, By, CallFits, AddRoute, Received,
                                             Remote!Execute, Unregister, bridgeVars,
                                             driverVars, pageVars
<1>13. ASSUME NEW a \in Calls, RemoveRoute(a)
      PROVE  Told(d, r)'
  BY <1>13, <1>1, <1>2, <1>3, <1>4, <1>5 DEF Told, By, CallFits, RemoveRoute,
                                             Received, Remote!Execute, bridgeVars,
                                             driverVars, pageVars, Gone
<1>14. ASSUME NEW a \in Calls, NEW how \in {"applied", "rejected"}, RegisterEnd(a, how)
      PROVE  Told(d, r)'
  BY <1>14, <1>1, <1>2, <1>3, <1>4, <1>5 DEF Told, By, CallFits, RegisterEnd,
                                             Remote!Execute, bridgeVars, driverVars,
                                             pageVars
<1>15. CASE Quiet
  BY <1>15, <1>1, <1>2, <1>3, <1>4, <1>5 DEF Told, By, CallFits, Quiet, driverVars
<1> QED
  BY QuietEffect, <1>6, <1>7, <1>8, <1>9, <1>10, <1>11, <1>12, <1>13, <1>14, <1>15
     DEF Next, ToolStep, PageStep

\* Every step keeps ListedMockIsSet.
LEMMA MockSetStep ==
    ASSUME TypeOK, CallsFit, IdsAreDrawnOnce, ListedIsDrawn, ListedMockIsSet,
           MockedIsNew, TakenIsGone, NEW d \in Calls, NEW r \in Routes, [Next]_vars
    PROVE  MockSet(d, r)'
<1> USE MocksAssumption, IdsAssumption
<1>1. /\ pc \in [Calls -> {"idle", "entered", "mocked", "found", "popped", "called", "done"}]
      /\ phase \in [Calls -> {"idle", "open", "refused", "ok", "remote", "unknown"}]
      /\ executed \in [Calls -> {"no", "applied", "rejected"}]
  BY DEF TypeOK, Remote!TypeOK, Remote!Phases, Remote!Executions
<1>2. \A a \in Calls : CallFits(a)
  BY DEF CallsFit
<1>3. MockSet(d, r)
  BY DEF ListedMockIsSet
<1>4. \A c \in Calls : Gone(c, r)
  BY DEF TakenIsGone
<1>5. \A a \in Calls : By(a, "route", r) /\ By(d, "route", r) => a = d
  BY DEF IdsAreDrawnOnce, SameDrawn
<1>6. \A c \in Calls : New(c, r)
  BY DEF MockedIsNew
<1>7. \A a \in Calls : pc[a] \in {"found", "popped"} => tool[a].kind = "unroute"
  BY DEF TypeOK, CallsFit, CallFits, Kinds
<1>8. r \in routes => \E e \in Calls : By(e, "route", r)
  BY DEF ListedIsDrawn, Drawn
<1>9. ASSUME NEW a \in Calls, NEW x \in Routes, RouteEnter(a, x)
             \/ RouteMock(a, x) \/ UnrouteId(a, x)
      PROVE  MockSet(d, r)'
  BY <1>9, <1>1, <1>2, <1>3, <1>4, <1>5, <1>6, <1>7, <1>8, BeginsEffect
     DEF MockSet, By, CallFits, Begins, Used, bridgeVars, pageVars
<1>10. ASSUME NEW a \in Calls, NEW x \in SUBSET Routes, UnroutePattern(a, x)
      PROVE  MockSet(d, r)'
  BY <1>10, <1>1, <1>2, <1>3, <1>4, <1>5, <1>6, <1>7, <1>8, BeginsEffect
     DEF MockSet, By, CallFits, Begins, Used, bridgeVars, pageVars
<1>11. ASSUME NEW a \in Calls, NEW x \in Scripts, AddScript(a, x)
              \/ RemoveScript(a, x)
      PROVE  MockSet(d, r)'
  BY <1>11, <1>1, <1>2, <1>3, <1>4, <1>5, <1>6, <1>7, <1>8, BeginsEffect
     DEF MockSet, By, CallFits, Begins, Used, bridgeVars, pageVars
<1>12. ASSUME NEW a \in Calls, RouteLeave(a) \/ UnrouteLeave(a)
              \/ AddScriptLeave(a) \/ RemoveScriptLeave(a)
      PROVE  MockSet(d, r)'
  BY <1>12, <1>1, <1>2, <1>3, <1>4, <1>5, <1>6, <1>7, <1>8
     DEF MockSet, By, CallFits, RouteLeave, Leave, Raised, UnrouteLeave,
         AddScriptLeave, RemoveScriptLeave, bridgeVars, driverVars, pageVars
<1>13. ASSUME NEW a \in Calls, RouteMockListed(a)
      PROVE  MockSet(d, r)'
  BY <1>13, <1>1, <1>2, <1>3, <1>4, <1>5, <1>6, <1>7, <1>8
     DEF MockSet, By, CallFits, RouteMockListed, Leave, bridgeVars, driverVars,
         pageVars, New
<1>14. ASSUME NEW a \in Calls, UnroutePop(a)
      PROVE  MockSet(d, r)'
  BY <1>14, <1>1, <1>2, <1>3, <1>4, <1>5, <1>6, <1>7, <1>8
     DEF MockSet, By, CallFits, UnroutePop, bridgeVars, driverVars, pageVars
<1>15. ASSUME NEW a \in Calls, UnrouteMocks(a)
      PROVE  MockSet(d, r)'
  BY <1>15, <1>1, <1>2, <1>3, <1>4, <1>5, <1>6, <1>7, <1>8
     DEF MockSet, By, CallFits, UnrouteMocks, bridgeVars, driverVars, pageVars, Gone
<1>16. ASSUME NEW a \in Calls, Request(a) \/ Answer(a)
      PROVE  MockSet(d, r)'
  BY <1>16, <1>1, <1>2, <1>3, <1>4, <1>5, <1>6, <1>7, <1>8
     DEF MockSet, By, CallFits, Request, Remote!Open, Remote!Refuse, Answer,
         Remote!ReturnResult, Remote!RaiseRemoteError, Remote!GiveUp, bridgeVars,
         driverVars, pageVars
<1>17. ASSUME NEW a \in Calls, AddRoute(a) \/ RemoveRoute(a) \/ Unregister(a)
      PROVE  MockSet(d, r)'
  BY <1>17, <1>1, <1>2, <1>3, <1>4, <1>5, <1>6, <1>7, <1>8
     DEF MockSet, By, CallFits, AddRoute, Received, Remote!Execute, RemoveRoute,
         Unregister, bridgeVars, driverVars, pageVars
<1>18. ASSUME NEW a \in Calls, NEW how \in {"applied", "rejected"}, RegisterEnd(a, how)
      PROVE  MockSet(d, r)'
  BY <1>18, <1>1, <1>2, <1>3, <1>4, <1>5, <1>6, <1>7, <1>8
     DEF MockSet, By, CallFits, RegisterEnd, Remote!Execute, bridgeVars, driverVars,
         pageVars
<1>19. CASE Quiet
  BY <1>19, <1>1, <1>2, <1>3, <1>4, <1>5, <1>6, <1>7, <1>8
     DEF MockSet, By, CallFits, Quiet, driverVars
<1> QED
  BY QuietEffect, <1>9, <1>10, <1>11, <1>12, <1>13, <1>14, <1>15, <1>16, <1>17,
     <1>18, <1>19
     DEF Next, ToolStep, PageStep

\* Every step keeps TakenIsGone: nobody lists or applies a settled route again.
LEMMA GoneStep ==
    ASSUME TypeOK, CallsFit, IdsAreDrawnOnce, ListedIsDrawn, ListedIsTold, MockedIsNew,
           SettledIsOver, TakenIsGone, NEW d \in Calls, NEW r \in Routes, [Next]_vars
    PROVE  Gone(d, r)'
<1> USE MocksAssumption, IdsAssumption
<1>1. /\ pc \in [Calls -> {"idle", "entered", "mocked", "found", "popped", "called", "done"}]
      /\ phase \in [Calls -> {"idle", "open", "refused", "ok", "remote", "unknown"}]
      /\ executed \in [Calls -> {"no", "applied", "rejected"}]
  BY DEF TypeOK, Remote!TypeOK, Remote!Phases, Remote!Executions
<1>2. \A a \in Calls : CallFits(a)
  BY DEF CallsFit
<1>3. Gone(d, r)
  BY DEF TakenIsGone
<1>4. \A c \in Calls : New(c, r)
  BY DEF MockedIsNew
<1>5. \A c \in Calls : Settled(d, c, r)
  BY DEF SettledIsOver
<1>6. ASSUME NEW a \in Calls, NEW x \in Routes, RouteEnter(a, x)
             \/ RouteMock(a, x) \/ UnrouteId(a, x)
      PROVE  Gone(d, r)'
  BY <1>6, <1>1, <1>2, <1>3, <1>4, <1>5, BeginsEffect
     DEF Gone, By, CallFits, Begins, Used, bridgeVars, pageVars
<1>7. ASSUME NEW a \in Calls, NEW x \in SUBSET Routes, UnroutePattern(a, x)
      PROVE  Gone(d, r)'
  BY <1>7, <1>1, <1>2, <1>3, <1>4, <1>5, BeginsEffect
     DEF Gone, By, CallFits, Begins, Used, bridgeVars, pageVars
<1>8. ASSUME NEW a \in Calls, NEW x \in Scripts, AddScript(a, x)
             \/ RemoveScript(a, x)
      PROVE  Gone(d, r)'
  BY <1>8, <1>1, <1>2, <1>3, <1>4, <1>5, BeginsEffect
     DEF Gone, By, CallFits, Begins, Used, bridgeVars, pageVars
<1>9. ASSUME NEW a \in Calls, RouteLeave(a) \/ UnrouteLeave(a)
             \/ AddScriptLeave(a) \/ RemoveScriptLeave(a)
      PROVE  Gone(d, r)'
  BY <1>9, <1>1, <1>2, <1>3, <1>4, <1>5 DEF Gone, By, CallFits, RouteLeave, Leave,
                                            Raised, UnrouteLeave, AddScriptLeave,
                                            RemoveScriptLeave, bridgeVars,
                                            driverVars, pageVars
<1>10. ASSUME NEW a \in Calls, RouteMockListed(a)
      PROVE  Gone(d, r)'
  BY <1>10, <1>1, <1>2, <1>3, <1>4, <1>5 DEF Gone, By, CallFits, RouteMockListed,
                                             Leave, bridgeVars, driverVars,
                                             pageVars, New
<1>11. ASSUME NEW a \in Calls, UnroutePop(a) \/ UnrouteMocks(a)
      PROVE  Gone(d, r)'
  BY <1>11, <1>1, <1>2, <1>3, <1>4, <1>5 DEF Gone, By, CallFits, UnroutePop,
                                             UnrouteMocks, bridgeVars, driverVars,
                                             pageVars
<1>12. ASSUME NEW a \in Calls, Request(a) \/ Answer(a)
      PROVE  Gone(d, r)'
  BY <1>12, <1>1, <1>2, <1>3, <1>4, <1>5 DEF Gone, By, CallFits, Request,
                                             Remote!Open, Remote!Refuse, Answer,
                                             Remote!ReturnResult,
                                             Remote!RaiseRemoteError, Remote!GiveUp,
                                             bridgeVars, driverVars, pageVars
<1>13. ASSUME NEW a \in Calls, RemoveRoute(a) \/ Unregister(a)
      PROVE  Gone(d, r)'
  BY <1>13, <1>1, <1>2, <1>3, <1>4, <1>5 DEF Gone, By, CallFits, RemoveRoute,
                                             Received, Remote!Execute, Unregister,
                                             bridgeVars, driverVars, pageVars
<1>14. ASSUME NEW a \in Calls, AddRoute(a)
      PROVE  Gone(d, r)'
  BY <1>14, <1>1, <1>2, <1>3, <1>4, <1>5 DEF Gone, By, CallFits, AddRoute, Received,
                                             Remote!Execute, bridgeVars, driverVars,
                                             pageVars, Settled
<1>15. ASSUME NEW a \in Calls, NEW how \in {"applied", "rejected"}, RegisterEnd(a, how)
      PROVE  Gone(d, r)'
  BY <1>15, <1>1, <1>2, <1>3, <1>4, <1>5 DEF Gone, By, CallFits, RegisterEnd,
                                             Remote!Execute, bridgeVars, driverVars,
                                             pageVars
<1>16. CASE Quiet
  BY <1>16, <1>1, <1>2, <1>3, <1>4, <1>5 DEF Gone, By, CallFits, Quiet, driverVars
<1> QED
  BY QuietEffect, <1>6, <1>7, <1>8, <1>9, <1>10, <1>11, <1>12, <1>13, <1>14, <1>15,
     <1>16
     DEF Next, ToolStep, PageStep

\* Every step keeps SettledIsOver: a listed route whose call is over has been applied.
LEMMA SettledStep ==
    ASSUME TypeOK, CallsFit, ListedIsTold, SettledIsOver, NEW c \in Calls,
           NEW d \in Calls, NEW r \in Routes, [Next]_vars
    PROVE  Settled(c, d, r)'
<1> USE MocksAssumption, IdsAssumption
<1>1. /\ pc \in [Calls -> {"idle", "entered", "mocked", "found", "popped", "called", "done"}]
      /\ phase \in [Calls -> {"idle", "open", "refused", "ok", "remote", "unknown"}]
      /\ executed \in [Calls -> {"no", "applied", "rejected"}]
  BY DEF TypeOK, Remote!TypeOK, Remote!Phases, Remote!Executions
<1>2. \A a \in Calls : CallFits(a)
  BY DEF CallsFit
<1>3. Settled(c, d, r)
  BY DEF SettledIsOver
<1>4. Told(d, r)
  BY DEF ListedIsTold
<1>5. ASSUME NEW a \in Calls, NEW x \in Routes, RouteEnter(a, x)
             \/ RouteMock(a, x) \/ UnrouteId(a, x)
      PROVE  Settled(c, d, r)'
  BY <1>5, <1>1, <1>2, <1>3, <1>4, BeginsEffect
     DEF Settled, By, CallFits, Begins, Used, bridgeVars, pageVars, Over, Told
<1>6. ASSUME NEW a \in Calls, NEW x \in SUBSET Routes, UnroutePattern(a, x)
      PROVE  Settled(c, d, r)'
  BY <1>6, <1>1, <1>2, <1>3, <1>4, BeginsEffect
     DEF Settled, By, CallFits, Begins, Used, bridgeVars, pageVars, Over, Told
<1>7. ASSUME NEW a \in Calls, NEW x \in Scripts, AddScript(a, x)
             \/ RemoveScript(a, x)
      PROVE  Settled(c, d, r)'
  BY <1>7, <1>1, <1>2, <1>3, <1>4, BeginsEffect
     DEF Settled, By, CallFits, Begins, Used, bridgeVars, pageVars, Over, Told
<1>8. ASSUME NEW a \in Calls, RouteLeave(a) \/ RouteMockListed(a)
             \/ UnrouteLeave(a) \/ AddScriptLeave(a) \/ RemoveScriptLeave(a)
      PROVE  Settled(c, d, r)'
  BY <1>8, <1>1, <1>2, <1>3, <1>4 DEF Settled, By, CallFits, RouteLeave, Leave,
                                      Raised, RouteMockListed, UnrouteLeave,
                                      AddScriptLeave, RemoveScriptLeave, bridgeVars,
                                      driverVars, pageVars
<1>9. ASSUME NEW a \in Calls, UnroutePop(a) \/ UnrouteMocks(a)
      PROVE  Settled(c, d, r)'
  BY <1>9, <1>1, <1>2, <1>3, <1>4 DEF Settled, By, CallFits, UnroutePop,
                                      UnrouteMocks, bridgeVars, driverVars, pageVars
<1>10. ASSUME NEW a \in Calls, Request(a) \/ Answer(a)
      PROVE  Settled(c, d, r)'
  BY <1>10, <1>1, <1>2, <1>3, <1>4 DEF Settled, By, CallFits, Request, Remote!Open,
                                       Remote!Refuse, Answer, Remote!ReturnResult,
                                       Remote!RaiseRemoteError, Remote!GiveUp,
                                       bridgeVars, driverVars, pageVars
<1>11. ASSUME NEW a \in Calls, AddRoute(a) \/ RemoveRoute(a) \/ Unregister(a)
      PROVE  Settled(c, d, r)'
  BY <1>11, <1>1, <1>2, <1>3, <1>4 DEF Settled, By, CallFits, AddRoute, Received,
                                       Remote!Execute, RemoveRoute, Unregister,
                                       bridgeVars, driverVars, pageVars
<1>12. ASSUME NEW a \in Calls, NEW how \in {"applied", "rejected"}, RegisterEnd(a, how)
      PROVE  Settled(c, d, r)'
  BY <1>12, <1>1, <1>2, <1>3, <1>4 DEF Settled, By, CallFits, RegisterEnd,
                                       Remote!Execute, bridgeVars, driverVars,
                                       pageVars
<1>13. CASE Quiet
  BY <1>13, <1>1, <1>2, <1>3, <1>4 DEF Settled, By, CallFits, Quiet, driverVars
<1> QED
  BY QuietEffect, <1>5, <1>6, <1>7, <1>8, <1>9, <1>10, <1>11, <1>12, <1>13
     DEF Next, ToolStep, PageStep

\* Every step keeps TakenEarly: only browser_unroute takes a route whose call runs.
LEMMA EarlyStep ==
    ASSUME TypeOK, CallsFit, IdsAreDrawnOnce, SettledIsOver, TakenEarly,
           NEW d \in Calls, NEW r \in Routes, [Next]_vars
    PROVE  Early(d, r)'
<1> USE MocksAssumption, IdsAssumption
<1>1. /\ pc \in [Calls -> {"idle", "entered", "mocked", "found", "popped", "called", "done"}]
      /\ phase \in [Calls -> {"idle", "open", "refused", "ok", "remote", "unknown"}]
      /\ executed \in [Calls -> {"no", "applied", "rejected"}]
  BY DEF TypeOK, Remote!TypeOK, Remote!Phases, Remote!Executions
<1>2. \A a \in Calls : CallFits(a)
  BY DEF CallsFit
<1>3. Early(d, r)
  BY DEF TakenEarly
<1>4. \A c \in Calls : Settled(c, d, r)
  BY DEF SettledIsOver
<1>5. \A a \in Calls : By(a, "route", r) /\ By(d, "route", r) => a = d
  BY DEF IdsAreDrawnOnce, SameDrawn
<1>6. \A a \in Calls : pc[a] \in {"found", "popped"} => tool[a].kind = "unroute"
  BY DEF TypeOK, CallsFit, CallFits, Kinds
<1>7. TakenUnsettled(r) => TakenUnsettled(r)'
  BY CausesStay
<1>8. ASSUME NEW a \in Calls, NEW x \in Routes, RouteEnter(a, x) \/ RouteMock(a, x)
      PROVE  Early(d, r)'
  BY <1>8, <1>1, <1>2, <1>3, <1>4, <1>5, <1>6, <1>7, BeginsEffect
     DEF Early, By, CallFits, Begins, Used, bridgeVars, pageVars
<1>9. ASSUME NEW a \in Calls, NEW x \in Routes, UnrouteId(a, x)
      PROVE  Early(d, r)'
  <2>1. Begins(a, "unroute", {x}, "popped") /\ routes' = routes \ {x} /\ x \in routes
    BY <1>9, BeginsEffect
  <2>2. CASE r = x
    <3>1. SUFFICES ASSUME By(d, "route", r)', pc'[d] \in {"entered", "called"}
                   PROVE  TakenUnsettled(r)'
      BY DEF Early
    <3>2. d # a /\ By(d, "route", r) /\ pc[d] # "done"
      BY <2>1, <3>1 DEF By, Begins
    <3>3. By(a, "unroute", r)' /\ r \notin tool'[a].settled
      BY <2>1, <2>2, <3>2 DEF By, Over, Begins
    <3>4. QED
      BY <3>3 DEF TakenUnsettled
  <2>3. CASE r # x
    BY <2>1, <2>3, <1>1, <1>2, <1>3, <1>4, <1>5, <1>6, <1>7 DEF Early, By, Begins
  <2>4. QED
    BY <2>2, <2>3
<1>10. ASSUME NEW a \in Calls, NEW x \in SUBSET Routes, UnroutePattern(a, x)
      PROVE  Early(d, r)'
  BY <1>10, <1>1, <1>2, <1>3, <1>4, <1>5, <1>6, <1>7, BeginsEffect
     DEF Early, By, CallFits, Begins, Used, bridgeVars, pageVars
<1>11. ASSUME NEW a \in Calls, NEW x \in Scripts, AddScript(a, x)
              \/ RemoveScript(a, x)
      PROVE  Early(d, r)'
  BY <1>11, <1>1, <1>2, <1>3, <1>4, <1>5, <1>6, <1>7, BeginsEffect
     DEF Early, By, CallFits, Begins, Used, bridgeVars, pageVars
<1>12. ASSUME NEW a \in Calls, RouteLeave(a) \/ RouteMockListed(a)
              \/ UnrouteLeave(a) \/ AddScriptLeave(a) \/ RemoveScriptLeave(a)
      PROVE  Early(d, r)'
  BY <1>12, <1>1, <1>2, <1>3, <1>4, <1>5, <1>6, <1>7
     DEF Early, By, CallFits, RouteLeave, Leave, Raised, RouteMockListed,
         UnrouteLeave, AddScriptLeave, RemoveScriptLeave, bridgeVars, driverVars,
         pageVars
<1>13. ASSUME NEW a \in Calls, UnrouteMocks(a)
      PROVE  Early(d, r)'
  BY <1>13, <1>1, <1>2, <1>3, <1>4, <1>5, <1>6, <1>7
     DEF Early, By, CallFits, UnrouteMocks, bridgeVars, driverVars, pageVars
<1>14. ASSUME NEW a \in Calls, UnroutePop(a)
      PROVE  Early(d, r)'
  <2>1. pc[a] = "found" /\ pc' = [pc EXCEPT ![a] = "popped"] /\ routes' = routes \ tool[a].ids /\ UNCHANGED tool
    BY <1>14 DEF UnroutePop
  <2>2. SUFFICES ASSUME r \notin routes', By(d, "route", r)', pc'[d] \in {"entered", "called"}
                 PROVE  TakenUnsettled(r)'
    BY DEF Early
  <2>3. By(d, "route", r) /\ pc[d] \in {"entered", "called"}
    BY <2>1, <2>2, <1>1, <1>2, <1>3, <1>4, <1>5, <1>6, <1>7 DEF By
  <2>4. CASE r \in tool[a].ids
    <3>1. By(a, "unroute", r) /\ r \notin tool[a].settled
      BY <2>1, <2>3, <2>4, <1>1, <1>2, <1>3, <1>4, <1>5, <1>6, <1>7 DEF By, Settled
    <3>2. QED
      BY <2>1, <3>1 DEF TakenUnsettled, By
  <2>5. CASE r \notin tool[a].ids
    BY <2>1, <2>2, <2>3, <2>5, <1>1, <1>2, <1>3, <1>4, <1>5, <1>6, <1>7 DEF Early
  <2>6. QED
    BY <2>4, <2>5
<1>15. ASSUME NEW a \in Calls, Request(a) \/ Answer(a)
      PROVE  Early(d, r)'
  BY <1>15, <1>1, <1>2, <1>3, <1>4, <1>5, <1>6, <1>7
     DEF Early, By, CallFits, Request, Remote!Open, Remote!Refuse, Answer,
         Remote!ReturnResult, Remote!RaiseRemoteError, Remote!GiveUp, bridgeVars,
         driverVars, pageVars
<1>16. ASSUME NEW a \in Calls, AddRoute(a) \/ RemoveRoute(a) \/ Unregister(a)
      PROVE  Early(d, r)'
  BY <1>16, <1>1, <1>2, <1>3, <1>4, <1>5, <1>6, <1>7
     DEF Early, By, CallFits, AddRoute, Received, Remote!Execute, RemoveRoute,
         Unregister, bridgeVars, driverVars, pageVars
<1>17. ASSUME NEW a \in Calls, NEW how \in {"applied", "rejected"}, RegisterEnd(a, how)
      PROVE  Early(d, r)'
  BY <1>17, <1>1, <1>2, <1>3, <1>4, <1>5, <1>6, <1>7
     DEF Early, By, CallFits, RegisterEnd, Remote!Execute, bridgeVars, driverVars,
         pageVars
<1>18. CASE Quiet
  BY <1>18, <1>1, <1>2, <1>3, <1>4, <1>5, <1>6, <1>7
     DEF Early, By, CallFits, Quiet, driverVars
<1> QED
  BY QuietEffect, <1>8, <1>9, <1>10, <1>11, <1>12, <1>13, <1>14, <1>15, <1>16,
     <1>17, <1>18
     DEF Next, ToolStep, PageStep

\* Every step keeps RunsAreApplied.
LEMMA AppliedStep ==
    ASSUME TypeOK, CallsFit, RunsAreApplied, NEW s \in Scripts, [Next]_vars
    PROVE  (s \in extScripts => Applied(s))'
<1> USE MocksAssumption, IdsAssumption
<1>1. /\ pc \in [Calls -> {"idle", "entered", "mocked", "found", "popped", "called", "done"}]
      /\ phase \in [Calls -> {"idle", "open", "refused", "ok", "remote", "unknown"}]
      /\ executed \in [Calls -> {"no", "applied", "rejected"}]
  BY DEF TypeOK, Remote!TypeOK, Remote!Phases, Remote!Executions
<1>2. \A a \in Calls : CallFits(a)
  BY DEF CallsFit
<1>3. s \in extScripts => Applied(s)
  BY DEF RunsAreApplied
<1>4. Applied(s) => Applied(s)'
  BY CausesStay
<1>5. ASSUME NEW a \in Calls, NEW x \in Routes, RouteEnter(a, x)
             \/ RouteMock(a, x) \/ UnrouteId(a, x)
      PROVE  (s \in extScripts => Applied(s))'
  BY <1>5, <1>1, <1>2, <1>3, <1>4, BeginsEffect
     DEF CallFits, Begins, Used, bridgeVars, pageVars
<1>6. ASSUME NEW a \in Calls, NEW x \in SUBSET Routes, UnroutePattern(a, x)
      PROVE  (s \in extScripts => Applied(s))'
  BY <1>6, <1>1, <1>2, <1>3, <1>4, BeginsEffect
     DEF CallFits, Begins, Used, bridgeVars, pageVars
<1>7. ASSUME NEW a \in Calls, NEW x \in Scripts, AddScript(a, x)
             \/ RemoveScript(a, x)
      PROVE  (s \in extScripts => Applied(s))'
  BY <1>7, <1>1, <1>2, <1>3, <1>4, BeginsEffect
     DEF CallFits, Begins, Used, bridgeVars, pageVars
<1>8. ASSUME NEW a \in Calls, RouteLeave(a) \/ RouteMockListed(a)
             \/ UnrouteLeave(a) \/ AddScriptLeave(a) \/ RemoveScriptLeave(a)
      PROVE  (s \in extScripts => Applied(s))'
  BY <1>8, <1>1, <1>2, <1>3, <1>4 DEF CallFits, RouteLeave, Leave, Raised,
                                      RouteMockListed, UnrouteLeave, AddScriptLeave,
                                      RemoveScriptLeave, bridgeVars, driverVars,
                                      pageVars
<1>9. ASSUME NEW a \in Calls, UnroutePop(a) \/ UnrouteMocks(a)
      PROVE  (s \in extScripts => Applied(s))'
  BY <1>9, <1>1, <1>2, <1>3, <1>4 DEF CallFits, UnroutePop, UnrouteMocks,
                                      bridgeVars, driverVars, pageVars
<1>10. ASSUME NEW a \in Calls, Request(a) \/ Answer(a)
      PROVE  (s \in extScripts => Applied(s))'
  BY <1>10, <1>1, <1>2, <1>3, <1>4 DEF CallFits, Request, Remote!Open,
                                       Remote!Refuse, Answer, Remote!ReturnResult,
                                       Remote!RaiseRemoteError, Remote!GiveUp,
                                       bridgeVars, driverVars, pageVars
<1>11. ASSUME NEW a \in Calls, AddRoute(a) \/ RemoveRoute(a) \/ Unregister(a)
      PROVE  (s \in extScripts => Applied(s))'
  BY <1>11, <1>1, <1>2, <1>3, <1>4 DEF CallFits, AddRoute, Received, Remote!Execute,
                                       RemoveRoute, Unregister, bridgeVars,
                                       driverVars, pageVars
<1>12. ASSUME NEW a \in Calls, NEW how \in {"applied", "rejected"}, RegisterEnd(a, how)
      PROVE  (s \in extScripts => Applied(s))'
  BY <1>12, <1>1, <1>2, <1>3, <1>4 DEF CallFits, RegisterEnd, Remote!Execute,
                                       bridgeVars, driverVars, pageVars, Applied, By
<1>13. CASE Quiet
  BY <1>13, <1>1, <1>2, <1>3, <1>4 DEF CallFits, Quiet, driverVars
<1> QED
  BY QuietEffect, <1>5, <1>6, <1>7, <1>8, <1>9, <1>10, <1>11, <1>12, <1>13
     DEF Next, ToolStep, PageStep

\* Every step keeps ListedAreAdded.
LEMMA AddedStep ==
    ASSUME TypeOK, CallsFit, ListedAreAdded, NEW s \in Scripts, [Next]_vars
    PROVE  (s \in scripts => Added(s))'
<1> USE MocksAssumption, IdsAssumption
<1>1. /\ pc \in [Calls -> {"idle", "entered", "mocked", "found", "popped", "called", "done"}]
      /\ phase \in [Calls -> {"idle", "open", "refused", "ok", "remote", "unknown"}]
      /\ executed \in [Calls -> {"no", "applied", "rejected"}]
  BY DEF TypeOK, Remote!TypeOK, Remote!Phases, Remote!Executions
<1>2. \A a \in Calls : CallFits(a)
  BY DEF CallsFit
<1>3. s \in scripts => Added(s)
  BY DEF ListedAreAdded
<1>4. Added(s) => Added(s)'
  BY CausesStay
<1>5. ASSUME NEW a \in Calls, NEW x \in Routes, RouteEnter(a, x)
             \/ RouteMock(a, x) \/ UnrouteId(a, x)
      PROVE  (s \in scripts => Added(s))'
  BY <1>5, <1>1, <1>2, <1>3, <1>4, BeginsEffect
     DEF CallFits, Begins, Used, bridgeVars, pageVars
<1>6. ASSUME NEW a \in Calls, NEW x \in SUBSET Routes, UnroutePattern(a, x)
      PROVE  (s \in scripts => Added(s))'
  BY <1>6, <1>1, <1>2, <1>3, <1>4, BeginsEffect
     DEF CallFits, Begins, Used, bridgeVars, pageVars
<1>7. ASSUME NEW a \in Calls, NEW x \in Scripts, AddScript(a, x)
             \/ RemoveScript(a, x)
      PROVE  (s \in scripts => Added(s))'
  BY <1>7, <1>1, <1>2, <1>3, <1>4, BeginsEffect
     DEF CallFits, Begins, Used, bridgeVars, pageVars
<1>8. ASSUME NEW a \in Calls, RouteLeave(a) \/ RouteMockListed(a)
             \/ UnrouteLeave(a) \/ RemoveScriptLeave(a)
      PROVE  (s \in scripts => Added(s))'
  BY <1>8, <1>1, <1>2, <1>3, <1>4 DEF CallFits, RouteLeave, Leave, Raised,
                                      RouteMockListed, UnrouteLeave,
                                      RemoveScriptLeave, bridgeVars, driverVars,
                                      pageVars
<1>9. ASSUME NEW a \in Calls, AddScriptLeave(a)
      PROVE  (s \in scripts => Added(s))'
  BY <1>9, <1>1, <1>2, <1>3, <1>4 DEF CallFits, AddScriptLeave, Leave, Raised,
                                      bridgeVars, driverVars, pageVars, Added, By
<1>10. ASSUME NEW a \in Calls, UnroutePop(a) \/ UnrouteMocks(a)
      PROVE  (s \in scripts => Added(s))'
  BY <1>10, <1>1, <1>2, <1>3, <1>4 DEF CallFits, UnroutePop, UnrouteMocks,
                                       bridgeVars, driverVars, pageVars
<1>11. ASSUME NEW a \in Calls, Request(a) \/ Answer(a)
      PROVE  (s \in scripts => Added(s))'
  BY <1>11, <1>1, <1>2, <1>3, <1>4 DEF CallFits, Request, Remote!Open,
                                       Remote!Refuse, Answer, Remote!ReturnResult,
                                       Remote!RaiseRemoteError, Remote!GiveUp,
                                       bridgeVars, driverVars, pageVars
<1>12. ASSUME NEW a \in Calls, AddRoute(a) \/ RemoveRoute(a) \/ Unregister(a)
      PROVE  (s \in scripts => Added(s))'
  BY <1>12, <1>1, <1>2, <1>3, <1>4 DEF CallFits, AddRoute, Received, Remote!Execute,
                                       RemoveRoute, Unregister, bridgeVars,
                                       driverVars, pageVars
<1>13. ASSUME NEW a \in Calls, NEW how \in {"applied", "rejected"}, RegisterEnd(a, how)
      PROVE  (s \in scripts => Added(s))'
  BY <1>13, <1>1, <1>2, <1>3, <1>4 DEF CallFits, RegisterEnd, Remote!Execute,
                                       bridgeVars, driverVars, pageVars
<1>14. CASE Quiet
  BY <1>14, <1>1, <1>2, <1>3, <1>4 DEF CallFits, Quiet, driverVars
<1> QED
  BY QuietEffect, <1>5, <1>6, <1>7, <1>8, <1>9, <1>10, <1>11, <1>12, <1>13, <1>14
     DEF Next, ToolStep, PageStep

\* Every step keeps AppliedRuns.
LEMMA RunsStep ==
    ASSUME TypeOK, CallsFit, AppliedRuns, NEW c \in Calls, NEW s \in Scripts, [Next]_vars
    PROVE  Runs(c, s)'
<1> USE MocksAssumption, IdsAssumption
<1>1. /\ pc \in [Calls -> {"idle", "entered", "mocked", "found", "popped", "called", "done"}]
      /\ phase \in [Calls -> {"idle", "open", "refused", "ok", "remote", "unknown"}]
      /\ executed \in [Calls -> {"no", "applied", "rejected"}]
  BY DEF TypeOK, Remote!TypeOK, Remote!Phases, Remote!Executions
<1>2. \A a \in Calls : CallFits(a)
  BY DEF CallsFit
<1>3. Runs(c, s)
  BY DEF AppliedRuns
<1>4. Removing(s) => Removing(s)'
  BY CausesStay
<1>5. ASSUME NEW a \in Calls, NEW x \in Routes, RouteEnter(a, x)
             \/ RouteMock(a, x) \/ UnrouteId(a, x)
      PROVE  Runs(c, s)'
  BY <1>5, <1>1, <1>2, <1>3, <1>4, BeginsEffect
     DEF Runs, By, CallFits, Begins, Used, bridgeVars, pageVars
<1>6. ASSUME NEW a \in Calls, NEW x \in SUBSET Routes, UnroutePattern(a, x)
      PROVE  Runs(c, s)'
  BY <1>6, <1>1, <1>2, <1>3, <1>4, BeginsEffect
     DEF Runs, By, CallFits, Begins, Used, bridgeVars, pageVars
<1>7. ASSUME NEW a \in Calls, NEW x \in Scripts, AddScript(a, x)
             \/ RemoveScript(a, x)
      PROVE  Runs(c, s)'
  BY <1>7, <1>1, <1>2, <1>3, <1>4, BeginsEffect
     DEF Runs, By, CallFits, Begins, Used, bridgeVars, pageVars
<1>8. ASSUME NEW a \in Calls, RouteLeave(a) \/ RouteMockListed(a)
             \/ UnrouteLeave(a) \/ AddScriptLeave(a) \/ RemoveScriptLeave(a)
      PROVE  Runs(c, s)'
  BY <1>8, <1>1, <1>2, <1>3, <1>4 DEF Runs, By, CallFits, RouteLeave, Leave, Raised,
                                      RouteMockListed, UnrouteLeave, AddScriptLeave,
                                      RemoveScriptLeave, bridgeVars, driverVars,
                                      pageVars
<1>9. ASSUME NEW a \in Calls, UnroutePop(a) \/ UnrouteMocks(a)
      PROVE  Runs(c, s)'
  BY <1>9, <1>1, <1>2, <1>3, <1>4 DEF Runs, By, CallFits, UnroutePop, UnrouteMocks,
                                      bridgeVars, driverVars, pageVars
<1>10. ASSUME NEW a \in Calls, Request(a) \/ Answer(a)
      PROVE  Runs(c, s)'
  BY <1>10, <1>1, <1>2, <1>3, <1>4 DEF Runs, By, CallFits, Request, Remote!Open,
                                       Remote!Refuse, Answer, Remote!ReturnResult,
                                       Remote!RaiseRemoteError, Remote!GiveUp,
                                       bridgeVars, driverVars, pageVars
<1>11. ASSUME NEW a \in Calls, AddRoute(a) \/ RemoveRoute(a)
      PROVE  Runs(c, s)'
  BY <1>11, <1>1, <1>2, <1>3, <1>4 DEF Runs, By, CallFits, AddRoute, Received,
                                       Remote!Execute, RemoveRoute, bridgeVars,
                                       driverVars, pageVars
<1>12. ASSUME NEW a \in Calls, Unregister(a)
      PROVE  Runs(c, s)'
  BY <1>12, <1>1, <1>2, <1>3, <1>4 DEF Runs, By, CallFits, Unregister, Received,
                                       Remote!Execute, bridgeVars, driverVars,
                                       pageVars, Removing
<1>13. ASSUME NEW a \in Calls, NEW how \in {"applied", "rejected"}, RegisterEnd(a, how)
      PROVE  Runs(c, s)'
  BY <1>13, <1>1, <1>2, <1>3, <1>4 DEF Runs, By, CallFits, RegisterEnd,
                                       Remote!Execute, bridgeVars, driverVars,
                                       pageVars
<1>14. CASE Quiet
  BY <1>14, <1>1, <1>2, <1>3, <1>4 DEF Runs, By, CallFits, Quiet, driverVars
<1> QED
  BY QuietEffect, <1>5, <1>6, <1>7, <1>8, <1>9, <1>10, <1>11, <1>12, <1>13, <1>14
     DEF Next, ToolStep, PageStep

\* Every step keeps RemovedStaysOut: a script that is listed, and so can be removed, was applied.
LEMMA RemovedStep ==
    ASSUME TypeOK, CallsFit, IdsAreDrawnOnce, ListedAreAdded, RemovedStaysOut,
           NEW c \in Calls, NEW d \in Calls, NEW s \in Scripts, [Next]_vars
    PROVE  Removed(c, d, s)'
<1> USE MocksAssumption, IdsAssumption
<1>1. /\ pc \in [Calls -> {"idle", "entered", "mocked", "found", "popped", "called", "done"}]
      /\ phase \in [Calls -> {"idle", "open", "refused", "ok", "remote", "unknown"}]
      /\ executed \in [Calls -> {"no", "applied", "rejected"}]
  BY DEF TypeOK, Remote!TypeOK, Remote!Phases, Remote!Executions
<1>2. \A a \in Calls : CallFits(a)
  BY DEF CallsFit
<1>3. Removed(c, d, s)
  BY DEF RemovedStaysOut
<1>4. \A a \in Calls : By(a, "addScript", s) /\ By(c, "addScript", s) => a = c
  BY DEF IdsAreDrawnOnce, SameDrawn
<1>5. s \in scripts => \E e \in Calls : By(e, "addScript", s) /\ phase[e] = "ok"
  BY DEF ListedAreAdded, Added
<1>6. ASSUME NEW a \in Calls, NEW x \in Routes, RouteEnter(a, x)
             \/ RouteMock(a, x) \/ UnrouteId(a, x)
      PROVE  Removed(c, d, s)'
  BY <1>6, <1>1, <1>2, <1>3, <1>4, <1>5, BeginsEffect
     DEF Removed, By, CallFits, Begins, Used, bridgeVars, pageVars
<1>7. ASSUME NEW a \in Calls, NEW x \in SUBSET Routes, UnroutePattern(a, x)
      PROVE  Removed(c, d, s)'
  BY <1>7, <1>1, <1>2, <1>3, <1>4, <1>5, BeginsEffect
     DEF Removed, By, CallFits, Begins, Used, bridgeVars, pageVars
<1>8. ASSUME NEW a \in Calls, NEW x \in Scripts, AddScript(a, x)
             \/ RemoveScript(a, x)
      PROVE  Removed(c, d, s)'
  BY <1>8, <1>1, <1>2, <1>3, <1>4, <1>5, BeginsEffect
     DEF Removed, By, CallFits, Begins, Used, bridgeVars, pageVars
<1>9. ASSUME NEW a \in Calls, RouteLeave(a) \/ RouteMockListed(a)
             \/ UnrouteLeave(a) \/ AddScriptLeave(a) \/ RemoveScriptLeave(a)
      PROVE  Removed(c, d, s)'
  BY <1>9, <1>1, <1>2, <1>3, <1>4, <1>5 DEF Removed, By, CallFits, RouteLeave,
                                            Leave, Raised, RouteMockListed,
                                            UnrouteLeave, AddScriptLeave,
                                            RemoveScriptLeave, bridgeVars,
                                            driverVars, pageVars
<1>10. ASSUME NEW a \in Calls, UnroutePop(a) \/ UnrouteMocks(a)
      PROVE  Removed(c, d, s)'
  BY <1>10, <1>1, <1>2, <1>3, <1>4, <1>5 DEF Removed, By, CallFits, UnroutePop,
                                             UnrouteMocks, bridgeVars, driverVars,
                                             pageVars
<1>11. ASSUME NEW a \in Calls, Request(a) \/ Answer(a)
      PROVE  Removed(c, d, s)'
  BY <1>11, <1>1, <1>2, <1>3, <1>4, <1>5 DEF Removed, By, CallFits, Request,
                                             Remote!Open, Remote!Refuse, Answer,
                                             Remote!ReturnResult,
                                             Remote!RaiseRemoteError, Remote!GiveUp,
                                             bridgeVars, driverVars, pageVars
<1>12. ASSUME NEW a \in Calls, AddRoute(a) \/ RemoveRoute(a) \/ Unregister(a)
      PROVE  Removed(c, d, s)'
  BY <1>12, <1>1, <1>2, <1>3, <1>4, <1>5 DEF Removed, By, CallFits, AddRoute,
                                             Received, Remote!Execute, RemoveRoute,
                                             Unregister, bridgeVars, driverVars,
                                             pageVars
<1>13. ASSUME NEW a \in Calls, NEW how \in {"applied", "rejected"}, RegisterEnd(a, how)
      PROVE  Removed(c, d, s)'
  BY <1>13, <1>1, <1>2, <1>3, <1>4, <1>5 DEF Removed, By, CallFits, RegisterEnd,
                                             Remote!Execute, bridgeVars, driverVars,
                                             pageVars
<1>14. CASE Quiet
  BY <1>14, <1>1, <1>2, <1>3, <1>4, <1>5 DEF Removed, By, CallFits, Quiet,
                                             driverVars
<1> QED
  BY QuietEffect, <1>6, <1>7, <1>8, <1>9, <1>10, <1>11, <1>12, <1>13, <1>14
     DEF Next, ToolStep, PageStep

\* The cause of an unlisted route stays, or its browser_route returns to find it taken.
LEMMA CauseStays ==
    ASSUME TypeOK, CallsFit, TakenIsGone, TakenEarly, NEW c \in Calls,
           NEW r \in Routes, Cause(c, r), r \in extRoutes, [Next]_vars
    PROVE  (r \in extRoutes' \ routes' => Cause(c, r)' \/ TakenUnsettled(r)')
<1> USE MocksAssumption, IdsAssumption
<1>1. /\ pc \in [Calls -> {"idle", "entered", "mocked", "found", "popped", "called", "done"}]
      /\ phase \in [Calls -> {"idle", "open", "refused", "ok", "remote", "unknown"}]
      /\ executed \in [Calls -> {"no", "applied", "rejected"}]
  BY DEF TypeOK, Remote!TypeOK, Remote!Phases, Remote!Executions
<1>2. \A a \in Calls : CallFits(a)
  BY DEF CallsFit
<1>3. Gone(c, r)
  BY DEF TakenIsGone
<1>4. Early(c, r)
  BY DEF TakenEarly
<1>5. TakenUnsettled(r) => TakenUnsettled(r)'
  BY CausesStay
<1>6. r \notin Mocks /\ r \notin Scripts
  BY DEF TypeOK
<1>7. tool[c].kind \in Kinds \ {"none"}
  BY DEF TypeOK, CallsFit, CallFits, Cause
<1>8. ASSUME NEW a \in Calls, NEW x \in Routes, RouteEnter(a, x)
             \/ RouteMock(a, x) \/ UnrouteId(a, x)
      PROVE  (r \in extRoutes' \ routes' => Cause(c, r)' \/ TakenUnsettled(r)')
  BY <1>8, <1>1, <1>2, <1>3, <1>4, <1>5, <1>6, <1>7, BeginsEffect
     DEF Cause, By, CallFits, Gone, Early, Kinds, Begins, Used, bridgeVars, pageVars
<1>9. ASSUME NEW a \in Calls, NEW x \in SUBSET Routes, UnroutePattern(a, x)
      PROVE  (r \in extRoutes' \ routes' => Cause(c, r)' \/ TakenUnsettled(r)')
  BY <1>9, <1>1, <1>2, <1>3, <1>4, <1>5, <1>6, <1>7, BeginsEffect
     DEF Cause, By, CallFits, Gone, Early, Kinds, Begins, Used, bridgeVars, pageVars
<1>10. ASSUME NEW a \in Calls, NEW x \in Scripts, AddScript(a, x)
              \/ RemoveScript(a, x)
      PROVE  (r \in extRoutes' \ routes' => Cause(c, r)' \/ TakenUnsettled(r)')
  BY <1>10, <1>1, <1>2, <1>3, <1>4, <1>5, <1>6, <1>7, BeginsEffect
     DEF Cause, By, CallFits, Gone, Early, Kinds, Begins, Used, bridgeVars, pageVars
<1>11. ASSUME NEW a \in Calls, RouteLeave(a) \/ RouteMockListed(a)
              \/ UnrouteLeave(a) \/ AddScriptLeave(a) \/ RemoveScriptLeave(a)
      PROVE  (r \in extRoutes' \ routes' => Cause(c, r)' \/ TakenUnsettled(r)')
  BY <1>11, <1>1, <1>2, <1>3, <1>4, <1>5, <1>6, <1>7
     DEF Cause, By, CallFits, Gone, Early, Kinds, RouteLeave, Leave, Raised,
         RouteMockListed, UnrouteLeave, AddScriptLeave, RemoveScriptLeave,
         bridgeVars, driverVars, pageVars
<1>12. ASSUME NEW a \in Calls, UnroutePop(a) \/ UnrouteMocks(a)
      PROVE  (r \in extRoutes' \ routes' => Cause(c, r)' \/ TakenUnsettled(r)')
  BY <1>12, <1>1, <1>2, <1>3, <1>4, <1>5, <1>6, <1>7
     DEF Cause, By, CallFits, Gone, Early, Kinds, UnroutePop, UnrouteMocks,
         bridgeVars, driverVars, pageVars
<1>13. ASSUME NEW a \in Calls, Request(a) \/ Answer(a)
      PROVE  (r \in extRoutes' \ routes' => Cause(c, r)' \/ TakenUnsettled(r)')
  BY <1>13, <1>1, <1>2, <1>3, <1>4, <1>5, <1>6, <1>7
     DEF Cause, By, CallFits, Gone, Early, Kinds, Request, Remote!Open,
         Remote!Refuse, Answer, Remote!ReturnResult, Remote!RaiseRemoteError,
         Remote!GiveUp, bridgeVars, driverVars, pageVars
<1>14. ASSUME NEW a \in Calls, AddRoute(a) \/ RemoveRoute(a) \/ Unregister(a)
      PROVE  (r \in extRoutes' \ routes' => Cause(c, r)' \/ TakenUnsettled(r)')
  BY <1>14, <1>1, <1>2, <1>3, <1>4, <1>5, <1>6, <1>7
     DEF Cause, By, CallFits, Gone, Early, Kinds, AddRoute, Received,
         Remote!Execute, RemoveRoute, Unregister, bridgeVars, driverVars, pageVars
<1>15. ASSUME NEW a \in Calls, NEW how \in {"applied", "rejected"}, RegisterEnd(a, how)
      PROVE  (r \in extRoutes' \ routes' => Cause(c, r)' \/ TakenUnsettled(r)')
  BY <1>15, <1>1, <1>2, <1>3, <1>4, <1>5, <1>6, <1>7
     DEF Cause, By, CallFits, Gone, Early, Kinds, RegisterEnd, Remote!Execute,
         bridgeVars, driverVars, pageVars
<1>16. CASE Quiet
  BY <1>16, <1>1, <1>2, <1>3, <1>4, <1>5, <1>6, <1>7
     DEF Cause, By, CallFits, Gone, Early, Kinds, Quiet, driverVars
<1> QED
  BY QuietEffect, <1>8, <1>9, <1>10, <1>11, <1>12, <1>13, <1>14, <1>15, <1>16
     DEF Next, ToolStep, PageStep

\* A route that becomes unlisted, or comes into force unlisted, has a cause.
LEMMA CauseArises ==
    ASSUME TypeOK, CallsFit, NEW r \in Routes, ~(r \in extRoutes \ routes), [Next]_vars
    PROVE  (r \in extRoutes' \ routes' => \E c \in Calls : Cause(c, r)')
<1> USE MocksAssumption, IdsAssumption
<1>1. /\ pc \in [Calls -> {"idle", "entered", "mocked", "found", "popped", "called", "done"}]
      /\ phase \in [Calls -> {"idle", "open", "refused", "ok", "remote", "unknown"}]
      /\ executed \in [Calls -> {"no", "applied", "rejected"}]
  BY DEF TypeOK, Remote!TypeOK, Remote!Phases, Remote!Executions
<1>2. \A a \in Calls : CallFits(a)
  BY DEF CallsFit
<1>3. ASSUME NEW a \in Calls, NEW x \in Routes, RouteEnter(a, x)
             \/ RouteMock(a, x) \/ UnrouteId(a, x)
      PROVE  (r \in extRoutes' \ routes' => \E c \in Calls : Cause(c, r)')
  BY <1>3, <1>1, <1>2, BeginsEffect DEF Cause, By, CallFits, Begins, Used,
                                        bridgeVars, pageVars
<1>4. ASSUME NEW a \in Calls, NEW x \in SUBSET Routes, UnroutePattern(a, x)
      PROVE  (r \in extRoutes' \ routes' => \E c \in Calls : Cause(c, r)')
  BY <1>4, <1>1, <1>2, BeginsEffect DEF Cause, By, CallFits, Begins, Used,
                                        bridgeVars, pageVars
<1>5. ASSUME NEW a \in Calls, NEW x \in Scripts, AddScript(a, x)
             \/ RemoveScript(a, x)
      PROVE  (r \in extRoutes' \ routes' => \E c \in Calls : Cause(c, r)')
  BY <1>5, <1>1, <1>2, BeginsEffect DEF Cause, By, CallFits, Begins, Used,
                                        bridgeVars, pageVars
<1>6. ASSUME NEW a \in Calls, RouteLeave(a) \/ RouteMockListed(a)
             \/ UnrouteLeave(a) \/ AddScriptLeave(a) \/ RemoveScriptLeave(a)
      PROVE  (r \in extRoutes' \ routes' => \E c \in Calls : Cause(c, r)')
  BY <1>6, <1>1, <1>2 DEF Cause, By, CallFits, RouteLeave, Leave, Raised,
                          RouteMockListed, UnrouteLeave, AddScriptLeave,
                          RemoveScriptLeave, bridgeVars, driverVars, pageVars
<1>7. ASSUME NEW a \in Calls, UnroutePop(a) \/ UnrouteMocks(a)
      PROVE  (r \in extRoutes' \ routes' => \E c \in Calls : Cause(c, r)')
  BY <1>7, <1>1, <1>2 DEF Cause, By, CallFits, UnroutePop, UnrouteMocks, bridgeVars,
                          driverVars, pageVars
<1>8. ASSUME NEW a \in Calls, Request(a) \/ Answer(a)
      PROVE  (r \in extRoutes' \ routes' => \E c \in Calls : Cause(c, r)')
  BY <1>8, <1>1, <1>2 DEF Cause, By, CallFits, Request, Remote!Open, Remote!Refuse,
                          Answer, Remote!ReturnResult, Remote!RaiseRemoteError,
                          Remote!GiveUp, bridgeVars, driverVars, pageVars
<1>9. ASSUME NEW a \in Calls, AddRoute(a) \/ RemoveRoute(a) \/ Unregister(a)
      PROVE  (r \in extRoutes' \ routes' => \E c \in Calls : Cause(c, r)')
  BY <1>9, <1>1, <1>2 DEF Cause, By, CallFits, AddRoute, Received, Remote!Execute,
                          RemoveRoute, Unregister, bridgeVars, driverVars, pageVars
<1>10. ASSUME NEW a \in Calls, NEW how \in {"applied", "rejected"}, RegisterEnd(a, how)
      PROVE  (r \in extRoutes' \ routes' => \E c \in Calls : Cause(c, r)')
  BY <1>10, <1>1, <1>2 DEF Cause, By, CallFits, RegisterEnd, Remote!Execute,
                           bridgeVars, driverVars, pageVars
<1>11. CASE Quiet
  BY <1>11, <1>1, <1>2 DEF Cause, By, CallFits, Quiet, driverVars
<1> QED
  BY QuietEffect, <1>3, <1>4, <1>5, <1>6, <1>7, <1>8, <1>9, <1>10, <1>11
     DEF Next, ToolStep, PageStep

\* Every step leaves each unlisted route a cause.
LEMMA HasCauseStep ==
    ASSUME TypeOK, CallsFit, TakenIsGone, TakenEarly, NEW r \in Routes, HasCause(r),
           [Next]_vars
    PROVE  HasCause(r)'
<1>1. CASE r \in extRoutes \ routes
  <2>1. PICK c \in Calls : Cause(c, r)
    BY <1>1 DEF HasCause
  <2>2. r \in extRoutes' \ routes' => Cause(c, r)' \/ TakenUnsettled(r)'
    BY <1>1, <2>1, CauseStays
  <2>3. TakenUnsettled(r)' => \E d \in Calls : Cause(d, r)'
    BY DEF TakenUnsettled, Cause, By
  <2>4. QED
    BY <2>2, <2>3 DEF HasCause
<1>2. CASE ~(r \in extRoutes \ routes)
  BY <1>2, CauseArises DEF HasCause
<1>3. QED
  BY <1>1, <1>2

\* An unlisted script stays one whose call runs or does not know.
LEMMA UntoldStays ==
    ASSUME TypeOK, CallsFit, IdsAreDrawnOnce, RunsAreApplied, NEW c \in Calls,
           NEW s \in Scripts, AddedButUntold(c, s), s \in extScripts, [Next]_vars
    PROVE  (s \in extScripts' \ scripts' => AddedButUntold(c, s)')
<1> USE MocksAssumption, IdsAssumption
<1>1. /\ pc \in [Calls -> {"idle", "entered", "mocked", "found", "popped", "called", "done"}]
      /\ phase \in [Calls -> {"idle", "open", "refused", "ok", "remote", "unknown"}]
      /\ executed \in [Calls -> {"no", "applied", "rejected"}]
  BY DEF TypeOK, Remote!TypeOK, Remote!Phases, Remote!Executions
<1>2. \A a \in Calls : CallFits(a)
  BY DEF CallsFit
<1>3. \A a \in Calls : By(a, "addScript", s) /\ By(c, "addScript", s) => a = c
  BY DEF IdsAreDrawnOnce, SameDrawn
<1>4. \E e \in Calls : By(e, "addScript", s) /\ executed[e] = "applied"
  BY DEF RunsAreApplied, Applied
<1>5. By(c, "addScript", s) /\ executed[c] = "applied"
  BY <1>3, <1>4 DEF AddedButUntold
<1>6. ASSUME NEW a \in Calls, NEW x \in Routes, RouteEnter(a, x)
             \/ RouteMock(a, x) \/ UnrouteId(a, x)
      PROVE  (s \in extScripts' \ scripts' => AddedButUntold(c, s)')
  BY <1>6, <1>1, <1>2, <1>3, <1>4, <1>5, BeginsEffect
     DEF AddedButUntold, By, CallFits, Begins, Used, bridgeVars, pageVars
<1>7. ASSUME NEW a \in Calls, NEW x \in SUBSET Routes, UnroutePattern(a, x)
      PROVE  (s \in extScripts' \ scripts' => AddedButUntold(c, s)')
  BY <1>7, <1>1, <1>2, <1>3, <1>4, <1>5, BeginsEffect
     DEF AddedButUntold, By, CallFits, Begins, Used, bridgeVars, pageVars
<1>8. ASSUME NEW a \in Calls, NEW x \in Scripts, AddScript(a, x)
             \/ RemoveScript(a, x)
      PROVE  (s \in extScripts' \ scripts' => AddedButUntold(c, s)')
  BY <1>8, <1>1, <1>2, <1>3, <1>4, <1>5, BeginsEffect
     DEF AddedButUntold, By, CallFits, Begins, Used, bridgeVars, pageVars
<1>9. ASSUME NEW a \in Calls, RouteLeave(a) \/ RouteMockListed(a)
             \/ UnrouteLeave(a) \/ AddScriptLeave(a) \/ RemoveScriptLeave(a)
      PROVE  (s \in extScripts' \ scripts' => AddedButUntold(c, s)')
  BY <1>9, <1>1, <1>2, <1>3, <1>4, <1>5 DEF AddedButUntold, By, CallFits,
                                            RouteLeave, Leave, Raised,
                                            RouteMockListed, UnrouteLeave,
                                            AddScriptLeave, RemoveScriptLeave,
                                            bridgeVars, driverVars, pageVars
<1>10. ASSUME NEW a \in Calls, UnroutePop(a) \/ UnrouteMocks(a)
      PROVE  (s \in extScripts' \ scripts' => AddedButUntold(c, s)')
  BY <1>10, <1>1, <1>2, <1>3, <1>4, <1>5 DEF AddedButUntold, By, CallFits,
                                             UnroutePop, UnrouteMocks, bridgeVars,
                                             driverVars, pageVars
<1>11. ASSUME NEW a \in Calls, Request(a) \/ Answer(a)
      PROVE  (s \in extScripts' \ scripts' => AddedButUntold(c, s)')
  BY <1>11, <1>1, <1>2, <1>3, <1>4, <1>5 DEF AddedButUntold, By, CallFits, Request,
                                             Remote!Open, Remote!Refuse, Answer,
                                             Remote!ReturnResult,
                                             Remote!RaiseRemoteError, Remote!GiveUp,
                                             bridgeVars, driverVars, pageVars
<1>12. ASSUME NEW a \in Calls, AddRoute(a) \/ RemoveRoute(a) \/ Unregister(a)
      PROVE  (s \in extScripts' \ scripts' => AddedButUntold(c, s)')
  BY <1>12, <1>1, <1>2, <1>3, <1>4, <1>5 DEF AddedButUntold, By, CallFits, AddRoute,
                                             Received, Remote!Execute, RemoveRoute,
                                             Unregister, bridgeVars, driverVars,
                                             pageVars
<1>13. ASSUME NEW a \in Calls, NEW how \in {"applied", "rejected"}, RegisterEnd(a, how)
      PROVE  (s \in extScripts' \ scripts' => AddedButUntold(c, s)')
  BY <1>13, <1>1, <1>2, <1>3, <1>4, <1>5 DEF AddedButUntold, By, CallFits,
                                             RegisterEnd, Remote!Execute,
                                             bridgeVars, driverVars, pageVars
<1>14. CASE Quiet
  BY <1>14, <1>1, <1>2, <1>3, <1>4, <1>5 DEF AddedButUntold, By, CallFits, Quiet,
                                             driverVars
<1> QED
  BY QuietEffect, <1>6, <1>7, <1>8, <1>9, <1>10, <1>11, <1>12, <1>13, <1>14
     DEF Next, ToolStep, PageStep

\* A script comes into force unlisted, and does not leave the list in force.
LEMMA UntoldArises ==
    ASSUME TypeOK, CallsFit, ListedAreAdded, RemovedStaysOut, NEW s \in Scripts,
           ~(s \in extScripts \ scripts), [Next]_vars
    PROVE  (s \in extScripts' \ scripts' => \E c \in Calls : AddedButUntold(c, s)')
<1> USE MocksAssumption, IdsAssumption
<1>1. /\ pc \in [Calls -> {"idle", "entered", "mocked", "found", "popped", "called", "done"}]
      /\ phase \in [Calls -> {"idle", "open", "refused", "ok", "remote", "unknown"}]
      /\ executed \in [Calls -> {"no", "applied", "rejected"}]
  BY DEF TypeOK, Remote!TypeOK, Remote!Phases, Remote!Executions
<1>2. \A a \in Calls : CallFits(a)
  BY DEF CallsFit
<1>3. s \in scripts => \E e \in Calls : By(e, "addScript", s)
  BY DEF ListedAreAdded, Added
<1>4. \A c, d \in Calls : Removed(c, d, s)
  BY DEF RemovedStaysOut
<1>5. ASSUME NEW a \in Calls, NEW x \in Routes, RouteEnter(a, x)
             \/ RouteMock(a, x) \/ UnrouteId(a, x)
      PROVE  (s \in extScripts' \ scripts' => \E c \in Calls : AddedButUntold(c, s)')
  BY <1>5, <1>1, <1>2, <1>3, <1>4, BeginsEffect
     DEF AddedButUntold, By, CallFits, Begins, Used, bridgeVars, pageVars
<1>6. ASSUME NEW a \in Calls, NEW x \in SUBSET Routes, UnroutePattern(a, x)
      PROVE  (s \in extScripts' \ scripts' => \E c \in Calls : AddedButUntold(c, s)')
  BY <1>6, <1>1, <1>2, <1>3, <1>4, BeginsEffect
     DEF AddedButUntold, By, CallFits, Begins, Used, bridgeVars, pageVars
<1>7. ASSUME NEW a \in Calls, NEW x \in Scripts, AddScript(a, x)
             \/ RemoveScript(a, x)
      PROVE  (s \in extScripts' \ scripts' => \E c \in Calls : AddedButUntold(c, s)')
  BY <1>7, <1>1, <1>2, <1>3, <1>4, BeginsEffect
     DEF AddedButUntold, By, CallFits, Begins, Used, bridgeVars, pageVars
<1>8. ASSUME NEW a \in Calls, RouteLeave(a) \/ RouteMockListed(a)
             \/ UnrouteLeave(a) \/ AddScriptLeave(a)
      PROVE  (s \in extScripts' \ scripts' => \E c \in Calls : AddedButUntold(c, s)')
  BY <1>8, <1>1, <1>2, <1>3, <1>4 DEF AddedButUntold, By, CallFits, RouteLeave,
                                      Leave, Raised, RouteMockListed, UnrouteLeave,
                                      AddScriptLeave, bridgeVars, driverVars,
                                      pageVars
<1>9. ASSUME NEW a \in Calls, RemoveScriptLeave(a)
      PROVE  (s \in extScripts' \ scripts' => \E c \in Calls : AddedButUntold(c, s)')
  BY <1>9, <1>1, <1>2, <1>3, <1>4 DEF AddedButUntold, By, CallFits,
                                      RemoveScriptLeave, Leave, Raised, bridgeVars,
                                      driverVars, pageVars, Removed
<1>10. ASSUME NEW a \in Calls, UnroutePop(a) \/ UnrouteMocks(a)
      PROVE  (s \in extScripts' \ scripts' => \E c \in Calls : AddedButUntold(c, s)')
  BY <1>10, <1>1, <1>2, <1>3, <1>4 DEF AddedButUntold, By, CallFits, UnroutePop,
                                       UnrouteMocks, bridgeVars, driverVars,
                                       pageVars
<1>11. ASSUME NEW a \in Calls, Request(a) \/ Answer(a)
      PROVE  (s \in extScripts' \ scripts' => \E c \in Calls : AddedButUntold(c, s)')
  BY <1>11, <1>1, <1>2, <1>3, <1>4 DEF AddedButUntold, By, CallFits, Request,
                                       Remote!Open, Remote!Refuse, Answer,
                                       Remote!ReturnResult, Remote!RaiseRemoteError,
                                       Remote!GiveUp, bridgeVars, driverVars,
                                       pageVars
<1>12. ASSUME NEW a \in Calls, AddRoute(a) \/ RemoveRoute(a) \/ Unregister(a)
      PROVE  (s \in extScripts' \ scripts' => \E c \in Calls : AddedButUntold(c, s)')
  BY <1>12, <1>1, <1>2, <1>3, <1>4 DEF AddedButUntold, By, CallFits, AddRoute,
                                       Received, Remote!Execute, RemoveRoute,
                                       Unregister, bridgeVars, driverVars, pageVars
<1>13. ASSUME NEW a \in Calls, NEW how \in {"applied", "rejected"}, RegisterEnd(a, how)
      PROVE  (s \in extScripts' \ scripts' => \E c \in Calls : AddedButUntold(c, s)')
  BY <1>13, <1>1, <1>2, <1>3, <1>4 DEF AddedButUntold, By, CallFits, RegisterEnd,
                                       Remote!Execute, bridgeVars, driverVars,
                                       pageVars
<1>14. CASE Quiet
  BY <1>14, <1>1, <1>2, <1>3, <1>4 DEF AddedButUntold, By, CallFits, Quiet,
                                       driverVars
<1> QED
  BY QuietEffect, <1>5, <1>6, <1>7, <1>8, <1>9, <1>10, <1>11, <1>12, <1>13, <1>14
     DEF Next, ToolStep, PageStep

\* Every step leaves each unlisted script its call.
LEMMA UntoldStep ==
    ASSUME TypeOK, CallsFit, IdsAreDrawnOnce, RunsAreApplied, ListedAreAdded,
           RemovedStaysOut,
           NEW s \in Scripts, Untold(s), [Next]_vars
    PROVE  Untold(s)'
<1>1. CASE s \in extScripts \ scripts
  <2>1. PICK c \in Calls : AddedButUntold(c, s)
    BY <1>1 DEF Untold
  <2>2. s \in extScripts' \ scripts' => AddedButUntold(c, s)'
    BY <1>1, <2>1, UntoldStays
  <2>3. QED
    BY <2>2 DEF Untold
<1>2. CASE ~(s \in extScripts \ scripts)
  BY <1>2, UntoldArises DEF Untold
<1>3. QED
  BY <1>1, <1>2

\* The initial states satisfy the invariant.
LEMMA InitInv == Init => RegistryInv
<1> SUFFICES ASSUME Init
             PROVE  RegistryInv
  OBVIOUS
<1> USE DEF Init, Remote!Init, Tool
<1>1. TypeOK
  <2>1. Tool("none", {}, {}) \in ToolCalls
    BY ToolTyped DEF Kinds
  <2>2. << >> \in Seq(Calls)
    OBVIOUS
  <2>3. QED
    BY <2>1, <2>2 DEF TypeOK, ToolCalls, Remote!TypeOK, Remote!Phases,
                      Remote!Executions
<1>2. CallsFit
  BY DEF CallsFit, CallFits
<1>3. \A d \in Calls : \A k, i : ~By(d, k, i)
  BY DEF By
<1>4. IdsAreDrawnOnce /\ ListedIsDrawn /\ ListedIsTold /\ ListedMockIsSet /\ MockedIsNew
  BY <1>3 DEF IdsAreDrawnOnce, SameDrawn, ListedIsDrawn, ListedIsTold,
              ListedMockIsSet, MockedIsNew, Told, MockSet, New
<1>5. TakenIsGone /\ SettledIsOver /\ TakenEarly
  BY <1>3 DEF TakenIsGone, SettledIsOver, TakenEarly, Gone, Settled, Early
<1>6. RunsAreApplied /\ ListedAreAdded /\ AppliedRuns /\ RemovedStaysOut
  BY <1>3 DEF RunsAreApplied, ListedAreAdded, AppliedRuns, RemovedStaysOut, Runs,
              Removed
<1>7. (\A r \in Routes : HasCause(r)) /\ (\A s \in Scripts : Untold(s))
  BY DEF HasCause, Untold
<1> QED
  BY <1>1, <1>2, <1>4, <1>5, <1>6, <1>7 DEF RegistryInv

\* Every step keeps it.
LEMMA InvStep == RegistryInv /\ [Next]_vars => RegistryInv'
<1> SUFFICES ASSUME TypeOK, CallsFit, IdsAreDrawnOnce, ListedIsDrawn, ListedIsTold, ListedMockIsSet, MockedIsNew,
                    TakenIsGone, SettledIsOver, TakenEarly, RunsAreApplied, ListedAreAdded, AppliedRuns,
                    RemovedStaysOut, \A r \in Routes : HasCause(r), \A s \in Scripts : Untold(s), [Next]_vars
             PROVE  RegistryInv'
  BY DEF RegistryInv
<1>0. CallsFit' /\ IdsAreDrawnOnce'
  BY CallsFitStep, DrawnOnceStep DEF CallsFit, IdsAreDrawnOnce
<1>1. TypeOK'
  BY TypedStep
<1>2. ListedIsDrawn'
  BY <1>1, DrawnStep DEF ListedIsDrawn, TypeOK
<1>3. ListedIsTold' /\ ListedMockIsSet' /\ MockedIsNew'
  BY ToldStep, MockSetStep, NewStep DEF ListedIsTold, ListedMockIsSet, MockedIsNew
<1>4. TakenIsGone' /\ SettledIsOver' /\ TakenEarly'
  BY GoneStep, SettledStep, EarlyStep DEF TakenIsGone, SettledIsOver, TakenEarly
<1>5. RunsAreApplied' /\ ListedAreAdded'
  BY <1>1, AppliedStep, AddedStep DEF RunsAreApplied, ListedAreAdded, TypeOK
<1>6. AppliedRuns' /\ RemovedStaysOut'
  BY RunsStep, RemovedStep DEF AppliedRuns, RemovedStaysOut
<1>7. (\A r \in Routes : HasCause(r)) ' /\ (\A s \in Scripts : Untold(s))'
  BY HasCauseStep, UntoldStep
<1> QED
  BY <1>0, <1>1, <1>2, <1>3, <1>4, <1>5, <1>6, <1>7 DEF RegistryInv

\* It is an invariant of the specification.
LEMMA SpecInv == Spec => []RegistryInv
BY InitInv, InvStep, PTL DEF Spec

\* Every variable of the tables, the calls and the page keeps its type.
THEOREM RegistryIsTyped == Spec => []TypeOK
BY SpecInv, PTL DEF RegistryInv

\* For any number of tools in flight, calls that fail or time out and frames that are lost: a
\* listed route is in force once its browser_route is over, and one in force that is not
\* listed has a cause (_helper_routes and the route tables of background.js).
THEOREM TablesAgree == Spec => []RouteTablesAgree
<1>1. RegistryInv => ListedRoutesAreInForce
  <2> SUFFICES ASSUME RegistryInv, NEW r \in routes
               PROVE  IF r \in Mocks THEN r \in mocks ELSE Over(r) => r \in extRoutes
    BY DEF ListedRoutesAreInForce
  <2>1. PICK d \in Calls : By(d, "route", r)
    BY DEF RegistryInv, ListedIsDrawn, Drawn
  <2>2. Told(d, r) /\ MockSet(d, r)
    BY DEF RegistryInv, ListedIsTold, ListedMockIsSet, TypeOK
  <2>3. CallFits(d)
    BY DEF RegistryInv, CallsFit
  <2>4. CASE r \in Mocks
    BY <2>2, <2>4 DEF MockSet
  <2>5. CASE r \notin Mocks
    BY <2>1, <2>2, <2>3, <2>5 DEF Told, Over, By, CallFits
  <2>6. QED
    BY <2>4, <2>5
<1>2. RegistryInv => UnlistedRoutesHaveACause
  BY DEF RegistryInv, TypeOK, UnlistedRoutesHaveACause, HasCause, Cause
<1> QED
  BY <1>1, <1>2, SpecInv, PTL DEF RouteTablesAgree

\* A route that was settled when browser_unroute began is not in force once it has returned.
THEOREM UnroutedStaysOut == Spec => []UnroutedIsFinal
<1>1. RegistryInv => UnroutedIsFinal
  <2> SUFFICES ASSUME RegistryInv, NEW c \in Calls, tool[c].kind = "unroute", pc[c] = "done",
                      phase[c] \in {"idle", "ok"}, NEW r \in tool[c].settled
               PROVE  r \notin extRoutes \cup mocks
    BY DEF UnroutedIsFinal
  <2>1. CallFits(c) /\ r \in Routes /\ By(c, "unroute", r)
    BY DEF RegistryInv, CallsFit, CallFits, By
  <2>2. Gone(c, r)
    BY <2>1 DEF RegistryInv, TakenIsGone
  <2>3. extRoutes \cap Mocks = {}
    BY DEF RegistryInv, TypeOK
  <2>4. QED
    BY <2>1, <2>2, <2>3 DEF Gone, CallFits
<1> QED
  BY <1>1, SpecInv, PTL

\* A script that runs is listed, or its call is not over or could not know; a removal that failed
\* can be tried again.
THEOREM ScriptsCanBeRemoved == Spec => []ScriptsStayRemovable
<1>1. RegistryInv => ScriptsStayRemovable
  <2> SUFFICES ASSUME RegistryInv
               PROVE  ScriptsStayRemovable
    OBVIOUS
  <2>1. \A s \in extScripts \ scripts : \E c \in Calls : By(c, "addScript", s) /\ (pc[c] # "done" \/ phase[c] = "unknown")
    BY DEF RegistryInv, TypeOK, Untold, AddedButUntold
  <2>2. ASSUME NEW s \in scripts \ extScripts
        PROVE  Removing(s)
    <3>1. PICK c \in Calls : By(c, "addScript", s) /\ phase[c] = "ok"
      BY DEF RegistryInv, ListedAreAdded, Added
    <3>2. Runs(c, s) /\ executed[c] = "applied"
      BY <3>1 DEF RegistryInv, TypeOK, AppliedRuns, CallsFit, CallFits
    <3>3. QED
      BY <3>1, <3>2 DEF Runs
  <2>3. QED
    BY <2>1, <2>2 DEF ScriptsStayRemovable, Removing
<1> QED
  BY <1>1, SpecInv, PTL
=============================================================================
