---------------------------- MODULE BrowserFocus ----------------------------
(***************************************************************************)
(* torbrowser_driver/_core_primitives.py: browser_close, browser_tabs and  *)
(* the frame tools.  The server runs every call in a thread of its own,    *)
(* and all of them drive one WebDriver session, whose focused window is    *)
(* the session's and not the call's.                                       *)
(*                                                                         *)
(* A step of a call is one WebDriver command: the browser answers these    *)
(* one at a time, and refuses one that needs a window when the focused     *)
(* window has been closed.                                                 *)
(***************************************************************************)
EXTENDS ToolThreads, Naturals, SequencesExt

TabTools == {"navigate", "close", "new", "select", "closeTab", "list", "frame", "unframe"}

CONSTANTS
    Tabbing,        \* the tools that are called
    MaxWindows,     \* bound: window handles given out
    MaxTabCalls     \* bound: calls begun

ASSUME TabbingAssumption == Tabbing \subseteq TabTools
ASSUME TabBoundsAssumption == MaxWindows \in Nat \ {0} /\ MaxTabCalls \in Nat

VARIABLES
    tabs,           \* driver.window_handles: the open windows, in order
    focus,          \* the window that commands go to; it may have been closed
    inFrame,        \* a frame of it is selected
    givenOut,       \* handles given out so far, by tools and by pages
    tabCall,        \* what each thread is doing
    tabCalls        \* calls begun so far

Windows == 1..MaxWindows    \* handles, numbered as they are given out
NoWindow == 0

focusVars == <<tabs, focus, inFrame, givenOut, tabCall, tabCalls>>

\* What a call keeps in locals.  "before" and "alone" are history: the window
\* focused when it began, and that no other call was in flight meanwhile.
NoTool == [tool |-> "none", step |-> "idle", index |-> 0, handles |-> <<>>, current |-> NoWindow,
           next |-> 0, before |-> NoWindow, alone |-> FALSE, ok |-> TRUE]

OpenWindows == {tabs[i] : i \in DOMAIN tabs}
Focused == focus \in OpenWindows
Busy == {t \in Threads : tabCall[t].step # "idle"}

FocusSteps == {"idle", "go", "report", "handle", "shut", "left", "refocus", "open", "enter", "choose", "chosen",
               "list", "current", "visit", "describe", "frame", "unframe", "done"}

\* What a thread may be doing.
TabCalls ==
    [tool : TabTools \cup {"none"}, step : FocusSteps,
     index : 0..MaxWindows, handles : Seq(Windows), current : Windows \cup {NoWindow}, next : Nat,
     before : Windows \cup {NoWindow}, alone : BOOLEAN, ok : BOOLEAN]

\* Every variable has its type; no handle is given out twice.
FocusTypeOK ==
    /\ tabs \in Seq(Windows) /\ \A i, j \in DOMAIN tabs : i # j => tabs[i] # tabs[j]
    /\ focus \in Windows /\ inFrame \in BOOLEAN
    /\ givenOut \in Windows /\ \A i \in DOMAIN tabs : tabs[i] <= givenOut
    /\ tabCalls \in 0..MaxTabCalls
    /\ tabCall \in [Threads -> TabCalls]

FocusInit ==
    /\ tabs = <<1>> /\ focus = 1 /\ givenOut = 1
    /\ inFrame = FALSE
    /\ tabCall = [t \in Threads |-> NoTool]
    /\ tabCalls = 0

-----------------------------------------------------------------------------
(* WebDriver commands                                                      *)

\* The call moves on, or is over because the command raised.
FocusTo(t, step) == tabCall' = [tabCall EXCEPT ![t].step = step]
FocusRaise(t) == tabCall' = [tabCall EXCEPT ![t].step = "done", ![t].ok = FALSE]

\* switch_to.window(w): the top-level document of w gets the commands.
SwitchTo(t, w, step) ==
    \/ /\ w \in OpenWindows
       /\ focus' = w /\ inFrame' = FALSE
       /\ FocusTo(t, step)
    \/ /\ w \notin OpenWindows
       /\ UNCHANGED <<focus, inFrame>>
       /\ FocusRaise(t)

\* driver.close(): the focus stays on what was closed.
CloseFocused(t, step) ==
    \/ /\ Focused
       /\ \E i \in DOMAIN tabs : tabs[i] = focus /\ tabs' = RemoveAt(tabs, i)
       /\ inFrame' = FALSE
       /\ FocusTo(t, step)
    \/ ~Focused /\ FocusRaise(t) /\ UNCHANGED <<tabs, inFrame>>

-----------------------------------------------------------------------------
(* A call begins and returns                                               *)

FirstStep(tool) ==
    CASE tool = "navigate" -> "go" [] tool = "close" -> "handle" [] tool = "new" -> "open" 
      [] tool = "select" -> "choose" [] tool = "closeTab" -> "choose" [] tool = "list" -> "list" [] OTHER -> tool

\* index is 0 for None: "close" the focused tab, and there is nothing to select.
FocusBegin(t, tool, index) ==
    /\ t \notin Busy
    /\ tabCalls < MaxTabCalls
    /\ tabCalls' = tabCalls + 1
    /\ (index = 0) => tool # "select"
    /\ (index # 0) => tool \in {"select", "closeTab"}
    /\ tabCall' = [u \in Threads |->
          IF u = t
          THEN [NoTool EXCEPT !.tool = tool, !.step = FirstStep(tool), !.index = index,
                            !.before = focus, !.alone = Busy = {}]
          ELSE [tabCall[u] EXCEPT !.alone = FALSE]]
    /\ UNCHANGED <<tabs, focus, inFrame, givenOut>>

FocusReturn(t) ==
    /\ tabCall[t].step = "done"
    /\ tabCall' = [tabCall EXCEPT ![t] = NoTool]
    /\ UNCHANGED <<tabs, focus, inFrame, givenOut, tabCalls>>

\* A page opens a window of its own; the focus stays where it is.
PageOpens ==
    /\ tabs # <<>> /\ givenOut < MaxWindows
    /\ tabs' = Append(tabs, givenOut + 1)
    /\ givenOut' = givenOut + 1
    /\ UNCHANGED <<focus, inFrame, tabCall, tabCalls>>

-----------------------------------------------------------------------------
(* browser_navigate, _navigate_back, _navigate_forward and _reload         *)

\* driver.get() and its like load a page in the window that is focused by now;
\* so does browser_tabs when "new" was given a URL.
Go(t) ==
    /\ tabCall[t].step = "go"
    /\ IF Focused
       THEN /\ inFrame' = FALSE
            /\ tabCall' = [tabCall EXCEPT ![t].current = focus,
                  ![t].step = IF tabCall[t].tool = "new" THEN "list" ELSE "report"]
       ELSE FocusRaise(t) /\ UNCHANGED inFrame
    /\ UNCHANGED <<tabs, focus, givenOut, tabCalls>>

\* driver.current_url, of the window that is focused by then.
Report(t) ==
    /\ tabCall[t].step = "report"
    /\ IF Focused THEN FocusTo(t, "done") ELSE FocusRaise(t)
    /\ UNCHANGED <<tabs, focus, inFrame, givenOut, tabCalls>>

-----------------------------------------------------------------------------
(* browser_close, and "new", "select" and "close" of browser_tabs          *)

\* browser_close asks for the handle it is about to close.
ReadHandle(t) ==
    /\ tabCall[t].step = "handle"
    /\ IF Focused THEN tabCall' = [tabCall EXCEPT ![t].step = "shut", ![t].current = focus] ELSE FocusRaise(t)
    /\ UNCHANGED <<tabs, focus, inFrame, givenOut, tabCalls>>

Shut(t) ==
    /\ tabCall[t].step = "shut"
    /\ CloseFocused(t, "left")
    /\ UNCHANGED <<focus, givenOut, tabCalls>>

\* What browser_close and "close" do when a window has been closed.
AfterClose(t) == IF tabCall[t].tool = "close" THEN "done" ELSE "list"

\* Mutant: the windows of before the close are the remaining ones.
ReadLeftStale(t) ==
    /\ tabCall[t].step = "left"
    /\ LET left == IF tabCall[t].handles = <<>> THEN tabs ELSE tabCall[t].handles
       IN IF left = <<>> THEN FocusTo(t, AfterClose(t))
          ELSE tabCall' = [tabCall EXCEPT ![t].step = "refocus", ![t].handles = left]
    /\ UNCHANGED <<tabs, focus, inFrame, givenOut, tabCalls>>

ReadLeft(t) ==
    /\ tabCall[t].step = "left"
    /\ IF tabs = <<>> THEN FocusTo(t, AfterClose(t))
       ELSE tabCall' = [tabCall EXCEPT ![t].step = "refocus", ![t].handles = tabs]
    /\ UNCHANGED <<tabs, focus, inFrame, givenOut, tabCalls>>

Refocus(t) ==
    /\ tabCall[t].step = "refocus"
    /\ SwitchTo(t, tabCall[t].handles[1], AfterClose(t))
    /\ UNCHANGED <<tabs, givenOut, tabCalls>>

\* switch_to.new_window("tab"), which then switches to what it opened.
OpenTab(t) ==
    /\ tabCall[t].step = "open"
    /\ IF Focused
       THEN /\ givenOut < MaxWindows
            /\ tabs' = Append(tabs, givenOut + 1)
            /\ givenOut' = givenOut + 1
            /\ tabCall' = [tabCall EXCEPT ![t].step = "enter", ![t].current = givenOut + 1]
       ELSE FocusRaise(t) /\ UNCHANGED <<tabs, givenOut>>
    /\ UNCHANGED <<focus, inFrame, tabCalls>>

EnterTab(t) ==
    /\ tabCall[t].step = "enter"
    /\ \E step \in {"go", "list"} : SwitchTo(t, tabCall[t].current, step)
    /\ UNCHANGED <<tabs, givenOut, tabCalls>>

\* window_handles, and handles[index]; "close" without an index does not use it.
Choose(t) ==
    /\ tabCall[t].step = "choose"
    /\ IF tabCall[t].index > Len(tabs) THEN FocusRaise(t)
       ELSE tabCall' = [tabCall EXCEPT ![t].handles = tabs,
                    ![t].step = IF tabCall[t].index = 0 THEN "shut" ELSE "chosen"]
    /\ UNCHANGED <<tabs, focus, inFrame, givenOut, tabCalls>>

Chosen(t) ==
    /\ tabCall[t].step = "chosen"
    /\ SwitchTo(t, tabCall[t].handles[tabCall[t].index],
                IF tabCall[t].tool = "select" THEN "list" ELSE "shut")
    /\ UNCHANGED <<tabs, givenOut, tabCalls>>

-----------------------------------------------------------------------------
(* The listing that ends every browser_tabs                                *)

\* window_handles.
ListHandles(t) ==
    /\ tabCall[t].step = "list"
    /\ tabCall' = [tabCall EXCEPT ![t].handles = tabs, ![t].current = NoWindow, ![t].next = 1,
                            ![t].step = IF tabs = <<>> THEN "done" ELSE "current"]
    /\ UNCHANGED <<tabs, focus, inFrame, givenOut, tabCalls>>

\* current_window_handle.
ListCurrent(t) ==
    /\ tabCall[t].step = "current"
    /\ IF Focused THEN tabCall' = [tabCall EXCEPT ![t].step = "visit", ![t].current = focus] ELSE FocusRaise(t)
    /\ UNCHANGED <<tabs, focus, inFrame, givenOut, tabCalls>>

\* Each window is visited for its title and its URL.
Visit(t) ==
    LET c == tabCall[t] IN
    /\ c.step = "visit" /\ c.next <= Len(c.handles)
    /\ SwitchTo(t, c.handles[c.next], "describe")
    /\ UNCHANGED <<tabs, givenOut, tabCalls>>

\* driver.title and driver.current_url, of whichever window is focused by now.
Describe(t) ==
    /\ tabCall[t].step = "describe"
    /\ IF Focused THEN tabCall' = [tabCall EXCEPT ![t].step = "visit", ![t].next = @ + 1] ELSE FocusRaise(t)
    /\ UNCHANGED <<tabs, focus, inFrame, givenOut, tabCalls>>

\* The window that was focused before the visits gets the focus back.
ListedAll(t) == tabCall[t].step = "visit" /\ tabCall[t].next > Len(tabCall[t].handles)
KnownWindow(t) == \E i \in DOMAIN tabCall[t].handles : tabCall[t].handles[i] = tabCall[t].current

GoBack(t) ==
    /\ ListedAll(t)
    /\ IF KnownWindow(t) THEN SwitchTo(t, tabCall[t].current, "done")
       ELSE FocusTo(t, "done") /\ UNCHANGED <<focus, inFrame>>
    /\ UNCHANGED <<tabs, givenOut, tabCalls>>

-----------------------------------------------------------------------------
(* browser_frame_select, _parent and _default                              *)

\* A frame that is not there, or no window: the command raises.
SelectFrame(t) ==
    /\ tabCall[t].step = "frame"
    /\ \/ Focused /\ inFrame' = TRUE /\ FocusTo(t, "done")
       \/ FocusRaise(t) /\ UNCHANGED inFrame
    /\ UNCHANGED <<tabs, focus, givenOut, tabCalls>>

LeaveFrame(t) ==
    /\ tabCall[t].step = "unframe"
    /\ IF Focused THEN inFrame' = FALSE /\ FocusTo(t, "done") ELSE FocusRaise(t) /\ UNCHANGED inFrame
    /\ UNCHANGED <<tabs, focus, givenOut, tabCalls>>

-----------------------------------------------------------------------------
FocusNext ==
    \/ \E t \in Threads :
          \/ \E tool \in Tabbing, i \in 0..MaxWindows : FocusBegin(t, tool, i)
          \/ FocusReturn(t)
          \/ Go(t) \/ Report(t)
          \/ ReadHandle(t) \/ Shut(t) \/ ReadLeft(t) \/ Refocus(t)
          \/ OpenTab(t) \/ EnterTab(t) \/ Choose(t) \/ Chosen(t)
          \/ ListHandles(t) \/ ListCurrent(t) \/ Visit(t) \/ Describe(t) \/ GoBack(t)
          \/ SelectFrame(t) \/ LeaveFrame(t)
    \/ PageOpens

-----------------------------------------------------------------------------
(* Properties                                                              *)

\* However calls overlap: once all have returned, the focus is on a window that
\* is open, if one is.  A close leaves the focus on nothing, a switch to what
\* another call closed meanwhile fails, and a listing wanders over the windows.
FocusSettles == Busy = {} /\ tabs # <<>> => Focused

\* A call that ran alone ends where its answer says: "current" is the focused
\* window, the selected one, or the one that was focused before the listing
\* visited them all; and a page was loaded in the window that had the focus.
LoneAnswerIsFocus ==
    \A t \in Threads :
       LET c == tabCall[t] IN
       c.step = "done" /\ c.alone /\ c.ok /\ c.tool \notin {"close", "frame", "unframe"}
       => /\ tabs = <<>> <=> c.current = NoWindow
          /\ tabs # <<>> => c.current = focus
          /\ c.tool \in {"list", "navigate"} => focus = c.before
          /\ c.tool = "select" => focus = c.handles[c.index]

\* The focus is where the calls that are over left it: on an open window, and after
\* a call that ran alone on the one it named.
FocusIsTrue == FocusSettles /\ LoneAnswerIsFocus
=============================================================================
