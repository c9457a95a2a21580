----------------------------- MODULE ToolSurface -----------------------------
(***************************************************************************)
(* The components that serve single tool calls and share no state with one *)
(* another, side by side: a behaviour follows one of them.                 *)
(***************************************************************************)
EXTENDS BrowserFocus, ScriptContext, GeckoCache, HttpOverTor, SocksTunnel,
        TorRouting, PagePolls, StoredState, OutputFiles, ToolAnswers

VARIABLE component

Components == {"focus", "script", "cache", "http", "tunnel", "routing", "poll", "state", "files", "answers"}

SurfaceInit ==
    /\ component \in Components
    /\ FocusInit /\ ScriptInit /\ CacheInit /\ HttpInit /\ TunnelInit
    /\ RoutingInit /\ PollInit /\ StateInit /\ FilesInit /\ AnswersInit

SurfaceNext ==
    /\ \/ component = "focus" /\ FocusNext
       \/ component = "script" /\ ScriptNext
       \/ component = "cache" /\ CacheNext
       \/ component = "http" /\ HttpNext
       \/ component = "tunnel" /\ TunnelNext
       \/ component = "routing" /\ RoutingNext
       \/ component = "poll" /\ PollNext
       \/ component = "state" /\ StateNext
       \/ component = "files" /\ FilesNext
       \/ component = "answers" /\ AnswersNext
    /\ UNCHANGED component
    /\ IF component = "focus" THEN TRUE ELSE UNCHANGED focusVars
    /\ IF component = "script" THEN TRUE ELSE UNCHANGED scriptVars
    /\ IF component = "cache" THEN TRUE ELSE UNCHANGED cacheVars
    /\ IF component = "http" THEN TRUE ELSE UNCHANGED httpVars
    /\ IF component = "tunnel" THEN TRUE ELSE UNCHANGED tunnelVars
    /\ IF component = "routing" THEN TRUE ELSE UNCHANGED routingVars
    /\ IF component = "poll" THEN TRUE ELSE UNCHANGED pollVars
    /\ IF component = "state" THEN TRUE ELSE UNCHANGED stateVars
    /\ IF component = "files" THEN TRUE ELSE UNCHANGED fileVars
    /\ IF component = "answers" THEN TRUE ELSE UNCHANGED answerVars

surfaceVars == <<component, focusVars, scriptVars, cacheVars, httpVars, tunnelVars,
                 routingVars, pollVars, stateVars, fileVars, answerVars>>

SurfaceSpec == SurfaceInit /\ [][SurfaceNext]_surfaceVars

\* Every variable of every component has its type.
SurfaceTypeOK ==
    /\ component \in Components
    /\ FocusTypeOK /\ ScriptTypeOK /\ CacheTypeOK /\ HttpTypeOK /\ TunnelTypeOK
    /\ RoutingTypeOK /\ PollTypeOK /\ StateTypeOK /\ FilesTypeOK
=============================================================================
