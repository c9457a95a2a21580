----------------------------- MODULE StoredState -----------------------------
(***************************************************************************)
(* torbrowser_driver/_state_primitives.py: cookies, localStorage and       *)
(* sessionStorage of the current document, and the storage state that is   *)
(* captured to a file and applied from it.                                 *)
(*                                                                         *)
(* A step is one WebDriver command.  A tool of one command is one step;    *)
(* capture and restore are several, and the document may change between    *)
(* them.                                                                   *)
(***************************************************************************)
EXTENDS Naturals, FiniteSets

CONSTANTS
    Origins,        \* origins of documents
    Items,          \* names of cookies and keys of storages
    Stored,         \* their values
    Unset,          \* no value
    MaxStateCalls,  \* bound: captures and restores
    MaxChanges      \* bound: changes of a store, and of the document

ASSUME OriginsAssumption == Origins # {}
ASSUME UnsetAssumption == Unset \notin Stored
ASSUME StateBoundsAssumption == MaxStateCalls \in Nat /\ MaxChanges \in Nat

Areas == {"cookies", "local", "session"}
Entries == [Items -> Stored \cup {Unset}]

VARIABLES
    origin,         \* of the current document
    store,          \* origin -> area -> entries
    saved,          \* the file: entries by area, the origin it names, and that of its cookies
    state,          \* the capture or restore in progress
    still,          \* history: the document has stayed, and so have the stores
    stateCalls,     \* captures and restores begun so far
    changes         \* changes so far

stateVars == <<origin, store, saved, state, still, stateCalls, changes>>

NoEntries == [i \in Items |-> Unset]
NoOrigin == "none"
NoFileYet == [origin |-> NoOrigin, site |-> NoOrigin, holds |-> [a \in Areas |-> NoEntries]]

\* "area" is being read or written, "left" are the items of it still to apply, "got"
\* is what a capture has read.
NoStateCall == [tool |-> "none", step |-> "idle", area |-> "cookies", left |-> {}, got |-> NoFileYet,
                skipped |-> FALSE]

Captures == [origin : Origins \cup {NoOrigin}, site : Origins \cup {NoOrigin}, holds : [Areas -> Entries]]
StateCalls ==
    [tool : {"none", "capture", "restore"}, step : {"idle", "command", "origin", "done", "raised"},
     area : Areas, left : SUBSET Items, got : Captures, skipped : BOOLEAN]

\* Every variable has its type.
StateTypeOK ==
    /\ origin \in Origins
    /\ store \in [Origins -> [Areas -> Entries]]
    /\ saved \in Captures /\ state \in StateCalls /\ still \in BOOLEAN
    /\ stateCalls \in 0..MaxStateCalls /\ changes \in 0..MaxChanges

FirstOrigin == CHOOSE o \in Origins : TRUE

StateInit ==
    /\ origin = FirstOrigin
    /\ store = [o \in Origins |-> [a \in Areas |-> NoEntries]]
    /\ saved = NoFileYet /\ state = NoStateCall /\ still = TRUE
    /\ stateCalls = 0 /\ changes = 0

-----------------------------------------------------------------------------
(* The tools of one command, and the document                              *)

Change == changes < MaxChanges /\ changes' = changes + 1 /\ still' = FALSE

Put(area, i, value) ==
    /\ Change
    /\ store' = [store EXCEPT ![origin][area][i] = value]
    /\ UNCHANGED <<origin, saved, state, stateCalls>>

\* The ..._set and, with Unset for the value, the ..._delete tools, or a page that
\* does the same.
SetCookie(i, value) == Put("cookies", i, value)
SetLocal(i, value) == Put("local", i, value)
SetSession(i, value) == Put("session", i, value)

\* The ..._clear tools.
ClearArea(area) ==
    /\ Change
    /\ store' = [store EXCEPT ![origin][area] = NoEntries]
    /\ UNCHANGED <<origin, saved, state, stateCalls>>

\* Another call, or the page, goes elsewhere.
MoveTo(o) ==
    /\ o # origin
    /\ Change
    /\ origin' = o
    /\ UNCHANGED <<store, saved, state, stateCalls>>

-----------------------------------------------------------------------------
(* browser_storage_state                                                   *)

\* The items that a restore has to put into an area.
ToApply(tool, area) ==
    IF tool = "restore" THEN {i \in Items : saved.holds[area][i] # Unset} ELSE {}

BeginState(tool) ==
    /\ state.step = "idle" /\ stateCalls < MaxStateCalls
    /\ tool = "restore" => saved # NoFileYet
    /\ stateCalls' = stateCalls + 1
    /\ state' = [NoStateCall EXCEPT !.tool = tool, !.step = "command", !.left = ToApply(tool, "cookies")]
    /\ still' = TRUE
    /\ UNCHANGED <<origin, store, saved, changes>>

EndState ==
    /\ state.step \in {"done", "raised"}
    /\ state' = NoStateCall
    /\ UNCHANGED <<origin, store, saved, still, stateCalls, changes>>

\* Any command may raise.
StateRaises ==
    /\ state.step \in {"command", "origin"}
    /\ state' = [state EXCEPT !.step = "raised"]
    /\ UNCHANGED <<origin, store, saved, still, stateCalls, changes>>

\* The cookies, the origin, and the two storages, each as it is by then.
Capture ==
    /\ state.tool = "capture" /\ state.step = "command"
    /\ LET got == [state.got EXCEPT !.holds[state.area] = store[origin][state.area]] IN
       CASE state.area = "cookies" ->
              state' = [state EXCEPT !.got = [got EXCEPT !.site = origin], !.step = "origin"] /\ UNCHANGED saved
         [] state.area = "local" ->
              state' = [state EXCEPT !.got = got, !.area = "session"] /\ UNCHANGED saved
         [] state.area = "session" ->
              state' = [state EXCEPT !.got = NoFileYet, !.step = "done"] /\ saved' = got
    /\ UNCHANGED <<origin, store, still, stateCalls, changes>>

ToStorages == [state EXCEPT !.got.origin = IF state.tool = "capture" THEN origin ELSE NoOrigin,
                            !.step = "command", !.area = "local", !.left = ToApply(state.tool, "local")]

\* Mutant: a restore takes the storages of any origin.
ReadOriginOnly ==
    /\ state.step = "origin"
    /\ state' = ToStorages
    /\ UNCHANGED <<origin, store, saved, still, stateCalls, changes>>

\* window.location.origin; a restore skips storages of another origin.
ReadOrigin ==
    /\ state.step = "origin"
    /\ state' = IF state.tool = "restore" /\ saved.origin # origin
                THEN [state EXCEPT !.step = "done", !.skipped = TRUE] ELSE ToStorages
    /\ UNCHANGED <<origin, store, saved, still, stateCalls, changes>>

-----------------------------------------------------------------------------
(* browser_set_storage_state                                               *)

PutIn(area) == area

\* add_cookie(), which raises for a cookie of another site, or setItem() in whatever
\* document is there by then.
Apply(i) ==
    /\ state.tool = "restore" /\ state.step = "command" /\ i \in state.left
    /\ IF state.area = "cookies" /\ saved.site # origin
       THEN state' = [state EXCEPT !.step = "raised"] /\ UNCHANGED store
       ELSE /\ store' = [store EXCEPT ![origin][PutIn(state.area)][i] = saved.holds[state.area][i]]
            /\ state' = [state EXCEPT !.left = @ \ {i}]
    /\ UNCHANGED <<origin, saved, still, stateCalls, changes>>

NextArea ==
    /\ state.tool = "restore" /\ state.step = "command" /\ state.left = {}
    /\ state' = CASE state.area = "cookies" -> [state EXCEPT !.step = "origin"]
                  [] state.area = "local" ->
                       [state EXCEPT !.area = "session", !.left = ToApply("restore", "session")]
                  [] OTHER -> [state EXCEPT !.step = "done"]
    /\ UNCHANGED <<origin, store, saved, still, stateCalls, changes>>

StateNext ==
    \/ \E i \in Items, value \in Stored \cup {Unset} :
          SetCookie(i, value) \/ SetLocal(i, value) \/ SetSession(i, value)
    \/ \E area \in Areas : ClearArea(area)
    \/ \E o \in Origins : MoveTo(o)
    \/ \E tool \in {"capture", "restore"} : BeginState(tool)
    \/ EndState \/ StateRaises \/ Capture \/ ReadOrigin \/ NextArea
    \/ \E i \in Items : Apply(i)

-----------------------------------------------------------------------------
(* Properties                                                              *)

Returned(tool) == state.tool = tool /\ state.step = "done" /\ still

\* A capture during which nothing moved is of one document: every area of the origin
\* it names.  A restore during which nothing moved brings each item back to its area
\* and its value, whatever was captured and whatever has been set since.
RestoreBringsBack ==
    /\ Returned("capture") => saved.origin = origin /\ saved.holds = store[origin]
    /\ Returned("restore") /\ ~state.skipped =>
          \A a \in Areas, i \in Items :
             saved.holds[a][i] # Unset => store[origin][a][i] = saved.holds[a][i]

\* A restore writes no storage of an origin other than the one its file names, unless
\* the document moved while it ran: it reads the origin once, and then writes to
\* whatever document is there.
RestoreStaysHome ==
    still' /\ store' # store =>
       \A o \in Origins \ {saved.origin}, a \in {"local", "session"} : store'[o][a] = store[o][a]

\* A capture and its restore are faithful: to the document, its areas and its values.
RestoreIsFaithful == [][RestoreBringsBack' /\ RestoreStaysHome]_stateVars
=============================================================================
