--------------------------- MODULE PageToolProofs ---------------------------
(***************************************************************************)
(* Invariants of the components that work on the page: the focus on tabs   *)
(* and frames, scripts and the state they borrow, and waits.  Each has its *)
(* inductive invariant, with the type invariant, and a lemma of its name   *)
(* that every step keeps each conjunct.                                    *)
(***************************************************************************)
EXTENDS BrowserFocus, ScriptContext, PagePolls, TLAPS

-----------------------------------------------------------------------------
(* BrowserFocus: windows, tabs and the focus                               *)

\* A call takes the steps of its tool, and has raised only when it is done.
CallFits(c) ==
    /\ c.step = "idle" <=> c.tool = "none"
    /\ c.step = "report" => c.tool = "navigate"
    /\ c.step = "go" => c.tool \in {"navigate", "new"}
    /\ c.step \in {"open", "enter"} => c.tool = "new"
    /\ c.step \in {"choose", "chosen"} => c.tool \in {"select", "closeTab"}
    /\ c.step = "handle" => c.tool = "close"
    /\ c.step \in {"shut", "left", "refocus"} => c.tool \in {"close", "closeTab"}
    /\ c.step \in {"list", "current", "visit", "describe"} => c.tool \in {"new", "select", "closeTab", "list"}
    /\ c.step \in {"frame", "unframe"} => c.tool = c.step
    /\ c.tool = "select" => c.index # 0
    /\ c.ok \/ c.step = "done"

\* Every call does.
CallsFit == \A t \in Threads : CallFits(tabCall[t])

\* A call that is alone is the only one.
LoneIsAlone ==
    \A t, u \in Threads : tabCall[t].alone /\ u # t => tabCall[u].step = "idle"

\* While the focus is on no window, one who closed a window is about to move it.
Returning(t) ==
    LET c == tabCall[t] IN
    c.step = "left" \/ (c.step = "refocus" /\ c.handles # <<>> /\ c.handles[1] \in OpenWindows)

\* The focus is on a window, or there is none, or someone is about to move it.
CloserReturns == ~Focused /\ tabs # <<>> => \E t \in Threads : Returning(t)

\* What a call that is alone knows of the focus, before its listing ...
KnowsFocus(t) ==
    LET c == tabCall[t] IN
    /\ c.tool \in {"list", "navigate"} /\ c.step \in {"go", "report", "list", "current"} => focus = c.before
    /\ c.step = "report" => c.current = focus
    /\ c.tool = "select" /\ c.step = "chosen" =>
          c.index \in DOMAIN tabs /\ c.index \in DOMAIN c.handles /\ c.handles[c.index] = tabs[c.index]
    /\ c.tool = "select" /\ c.step = "list" => c.index \in DOMAIN tabs /\ tabs[c.index] = focus

\* ... while it wanders over the windows ...
KnowsWindow(t) ==
    LET c == tabCall[t] IN
    /\ c.step = "current" => \E i \in DOMAIN c.handles : c.handles[i] = focus
    /\ c.tool = "select" /\ c.step = "current" =>
          c.index \in DOMAIN c.handles /\ c.handles[c.index] = focus
    /\ c.step \in {"visit", "describe"} =>
          /\ c.current \in OpenWindows /\ KnownWindow(t)
          /\ c.tool = "list" => c.current = c.before
          /\ c.tool = "select" => c.index \in DOMAIN c.handles /\ c.handles[c.index] = c.current

\* ... and once it is done.
KnowsAnswer(t) ==
    LET c == tabCall[t] IN
    c.step = "done" /\ c.ok /\ c.tool \notin {"close", "frame", "unframe"}
    => /\ tabs = <<>> <=> c.current = NoWindow
       /\ tabs # <<>> => c.current = focus
       /\ c.tool \in {"list", "navigate"} => focus = c.before
       /\ c.tool = "select" => focus = c.handles[c.index]

\* All that a call knows that is alone ...
KnowsTabs(t) == KnowsFocus(t) /\ KnowsWindow(t) /\ KnowsAnswer(t)

\* ... and every call that is alone knows it.
LoneKnows == \A t \in Threads : tabCall[t].alone => KnowsTabs(t)

\* The inductive invariant of the focus.
FocusInv == FocusTypeOK /\ CallsFit /\ LoneIsAlone /\ CloserReturns /\ LoneKnows

\* An idle call is a call.
LEMMA NoToolTyped == NoTool \in TabCalls
<1>1. <<>> \in Seq(Windows) /\ 0 \in 0..MaxWindows /\ 0 \in Nat
  BY TabBoundsAssumption
<1> QED
  BY <1>1 DEF NoTool, TabCalls, FocusSteps

\* A sequence without its i-th element.
LEMMA RemovedAt ==
    ASSUME NEW S, NEW s \in Seq(S), NEW i \in DOMAIN s
    PROVE  /\ RemoveAt(s, i) \in Seq(S) /\ Len(RemoveAt(s, i)) = Len(s) - 1
           /\ \A j \in 1 .. Len(s) - 1 : RemoveAt(s, i)[j] = IF j < i THEN s[j] ELSE s[j + 1]
<1> DEFINE front == SubSeq(s, 1, i - 1)
           back == SubSeq(s, i + 1, Len(s))
<1>1. i \in 1 .. Len(s) /\ Len(s) \in Nat
  OBVIOUS
<1>2. front \in Seq(S) /\ Len(front) = i - 1 /\ \A j \in 1 .. i - 1 : front[j] = s[j]
  BY <1>1
<1>3. back \in Seq(S) /\ Len(back) = Len(s) - i /\ \A j \in 1 .. Len(s) - i : back[j] = s[j + i]
  BY <1>1
<1>4. RemoveAt(s, i) = front \o back
  BY DEF RemoveAt
<1> HIDE DEF front, back
<1>5. front \o back \in Seq(S) /\ Len(front \o back) = Len(s) - 1
  BY <1>1, <1>2, <1>3
<1>6. \A j \in 1 .. Len(s) - 1 : (front \o back)[j] = IF j < i THEN front[j] ELSE back[j - (i - 1)]
  BY <1>1, <1>2, <1>3
<1>7. ASSUME NEW j \in 1 .. Len(s) - 1
      PROVE  (front \o back)[j] = IF j < i THEN s[j] ELSE s[j + 1]
  <2>1. CASE j < i
    BY <1>1, <1>2, <1>6, <2>1
  <2>2. CASE ~(j < i)
    <3>1. j - (i - 1) \in 1 .. Len(s) - i /\ j - (i - 1) + i = j + 1
      BY <1>1, <2>2
    <3> QED
      BY <1>3, <1>6, <2>2, <3>1
  <2> QED
    BY <2>1, <2>2
<1> QED
  BY <1>4, <1>5, <1>7

\* The windows once one has been opened: they are distinct, and the others stay.
LEMMA TabAppended ==
    ASSUME FocusTypeOK, givenOut < MaxWindows, tabs' = Append(tabs, givenOut + 1), givenOut' = givenOut + 1
    PROVE  /\ tabs' \in Seq(Windows) /\ \A i, j \in DOMAIN tabs' : i # j => tabs'[i] # tabs'[j]
           /\ givenOut' \in Windows /\ \A i \in DOMAIN tabs' : tabs'[i] <= givenOut'
           /\ Len(tabs') = Len(tabs) + 1 /\ \A i \in DOMAIN tabs : i \in DOMAIN tabs' /\ tabs'[i] = tabs[i]
<1>1. givenOut \in Nat /\ MaxWindows \in Nat /\ givenOut + 1 \in Windows
  BY TabBoundsAssumption DEF FocusTypeOK, Windows
<1>2. tabs \in Seq(Windows) /\ \A i \in DOMAIN tabs : tabs[i] <= givenOut
  BY DEF FocusTypeOK
<1>3. \A i \in DOMAIN tabs : tabs[i] \in Nat
  BY <1>1, <1>2 DEF Windows
<1>4. tabs' \in Seq(Windows) /\ Len(tabs') = Len(tabs) + 1
  BY <1>1, <1>2
<1>5. /\ DOMAIN tabs' = 1 .. Len(tabs) + 1 /\ DOMAIN tabs = 1 .. Len(tabs) /\ Len(tabs) \in Nat
      /\ tabs'[Len(tabs) + 1] = givenOut + 1
      /\ \A i \in DOMAIN tabs : tabs'[i] = tabs[i]
  BY <1>1, <1>2
<1>6. \A i, j \in DOMAIN tabs : i # j => tabs[i] # tabs[j]
  BY DEF FocusTypeOK
<1>7. \A i \in DOMAIN tabs' : i \in DOMAIN tabs \/ i = Len(tabs) + 1
  BY <1>5
<1>8. \A i \in DOMAIN tabs' : tabs'[i] <= givenOut'
  BY <1>1, <1>2, <1>3, <1>5, <1>7
<1>9. \A i \in DOMAIN tabs : tabs[i] # givenOut + 1
  BY <1>1, <1>2, <1>3
<1>10. \A i, j \in DOMAIN tabs' : i # j => tabs'[i] # tabs'[j]
  BY <1>5, <1>6, <1>7, <1>9
<1> QED
  BY <1>1, <1>4, <1>5, <1>8, <1>10

\* The windows once one has been closed: they are distinct.
LEMMA TabRemoved ==
    ASSUME FocusTypeOK, NEW i \in DOMAIN tabs, tabs' = RemoveAt(tabs, i)
    PROVE  /\ tabs' \in Seq(Windows) /\ \A j, k \in DOMAIN tabs' : j # k => tabs'[j] # tabs'[k]
           /\ \A j \in DOMAIN tabs' : tabs'[j] <= givenOut
<1>1. /\ tabs' \in Seq(Windows) /\ Len(tabs') = Len(tabs) - 1
      /\ \A j \in 1 .. Len(tabs) - 1 : tabs'[j] = IF j < i THEN tabs[j] ELSE tabs[j + 1]
  BY RemovedAt DEF FocusTypeOK
<1>2. DOMAIN tabs' = 1 .. Len(tabs) - 1 /\ DOMAIN tabs = 1 .. Len(tabs) /\ Len(tabs) \in Nat
  BY <1>1 DEF FocusTypeOK
<1>3. \A j \in DOMAIN tabs' : tabs'[j] <= givenOut
  BY <1>1, <1>2 DEF FocusTypeOK
<1>4. ASSUME NEW j \in DOMAIN tabs', NEW k \in DOMAIN tabs', j # k
      PROVE  tabs'[j] # tabs'[k]
  <2> DEFINE from(x) == IF x < i THEN x ELSE x + 1
  <2>1. from(j) \in DOMAIN tabs /\ from(k) \in DOMAIN tabs /\ from(j) # from(k)
    BY <1>2, <1>4
  <2>2. tabs'[j] = tabs[from(j)] /\ tabs'[k] = tabs[from(k)]
    BY <1>1, <1>2
  <2> QED
    BY <2>1, <2>2 DEF FocusTypeOK
<1> QED
  BY <1>1, <1>3, <1>4

\* The calls stay calls when one of them changes.
LEMMA TabCallTyped ==
    ASSUME FocusTypeOK, NEW t \in Threads, NEW call \in TabCalls, tabCall' = [tabCall EXCEPT ![t] = call]
    PROVE  tabCall' \in [Threads -> TabCalls]
BY DEF FocusTypeOK

\* Each operation on the focus keeps the types.
LEMMA FocusToTyped ==
    ASSUME FocusTypeOK, NEW t \in Threads, NEW step \in FocusSteps, FocusTo(t, step)
    PROVE  tabCall' \in [Threads -> TabCalls]
<1>1. tabCall[t] \in TabCalls /\ tabCall' = [tabCall EXCEPT ![t] = [tabCall[t] EXCEPT !.step = step]]
  BY DEF FocusTypeOK, FocusTo
<1>2. [tabCall[t] EXCEPT !.step = step] \in TabCalls
  BY <1>1 DEF TabCalls
<1> QED
  BY <1>1, <1>2, TabCallTyped

\* An error keeps the types.
LEMMA FocusRaiseTyped ==
    ASSUME FocusTypeOK, NEW t \in Threads, FocusRaise(t)
    PROVE  tabCall' \in [Threads -> TabCalls]
<1> DEFINE call == [tabCall[t] EXCEPT !.step = "done", !.ok = FALSE]
<1>1. tabCall[t] \in TabCalls /\ tabCall' = [tabCall EXCEPT ![t] = call]
  BY DEF FocusTypeOK, FocusRaise
<1>2. call \in TabCalls
  BY <1>1 DEF TabCalls, FocusSteps
<1> HIDE DEF call
<1> QED
  BY <1>1, <1>2, TabCallTyped

\* A switch of windows keeps the types, whether or not the window is there.
LEMMA SwitchToTyped ==
    ASSUME FocusTypeOK, NEW t \in Threads, NEW w, NEW step \in FocusSteps, SwitchTo(t, w, step)
    PROVE  focus' \in Windows /\ inFrame' \in BOOLEAN /\ tabCall' \in [Threads -> TabCalls]
<1>1. tabCall' \in [Threads -> TabCalls]
  BY FocusToTyped, FocusRaiseTyped DEF SwitchTo
<1>2. w \in OpenWindows => w \in Windows
  BY DEF OpenWindows, FocusTypeOK
<1>3. inFrame' \in BOOLEAN
  BY DEF SwitchTo, FocusTypeOK
<1> QED
  BY <1>1, <1>2, <1>3 DEF SwitchTo, FocusTypeOK

\* Closing the window in focus keeps the types.
LEMMA CloseFocusedTyped ==
    ASSUME FocusTypeOK, NEW t \in Threads, NEW step \in FocusSteps, CloseFocused(t, step)
    PROVE  /\ tabs' \in Seq(Windows) /\ \A j, k \in DOMAIN tabs' : j # k => tabs'[j] # tabs'[k]
           /\ \A j \in DOMAIN tabs' : tabs'[j] <= givenOut
           /\ inFrame' \in BOOLEAN /\ tabCall' \in [Threads -> TabCalls]
<1>1. tabCall' \in [Threads -> TabCalls]
  BY FocusToTyped, FocusRaiseTyped DEF CloseFocused
<1>2. inFrame' \in BOOLEAN
  BY DEF CloseFocused, FocusTypeOK
<1>3. CASE \E i \in DOMAIN tabs : tabs[i] = focus /\ tabs' = RemoveAt(tabs, i)
  BY <1>1, <1>2, <1>3, TabRemoved
<1>4. CASE tabs' = tabs
  BY <1>1, <1>2, <1>4 DEF FocusTypeOK
<1> QED
  BY <1>3, <1>4 DEF CloseFocused

\* Every step keeps the types.
LEMMA FocusTyped ==
    ASSUME FocusTypeOK, FocusNext
    PROVE  FocusTypeOK'
<1>1. ASSUME NEW t \in Threads, NEW tool \in Tabbing, NEW index \in 0..MaxWindows, FocusBegin(t, tool, index)
      PROVE  FocusTypeOK'
  <2>1. FirstStep(tool) \in FocusSteps
    BY TabbingAssumption DEF FirstStep, TabTools, FocusSteps
  <2>2. tool \in TabTools
    BY TabbingAssumption
  <2> DEFINE call == [NoTool EXCEPT !.tool = tool, !.step = FirstStep(tool), !.index = index,
                            !.before = focus, !.alone = Busy = {}]
  <2>3. NoTool \in TabCalls
    BY NoToolTyped
  <2>4. (Busy = {}) \in BOOLEAN
    OBVIOUS
  <2>5. call \in TabCalls
    BY <2>1, <2>2, <2>3, <2>4 DEF TabCalls, FocusTypeOK
  <2>6. \A u \in Threads : [tabCall[u] EXCEPT !.alone = FALSE] \in TabCalls
    BY DEF TabCalls, FocusTypeOK
  <2> HIDE DEF call
  <2>7. tabCall' = [u \in Threads |-> IF u = t THEN call ELSE [tabCall[u] EXCEPT !.alone = FALSE]]
    BY <1>1 DEF FocusBegin, call
  <2>8. tabCall' \in [Threads -> TabCalls]
    BY <2>5, <2>6, <2>7
  <2>9. tabCalls' \in 0..MaxTabCalls
    <3>1. tabCalls \in 0..MaxTabCalls /\ tabCalls < MaxTabCalls /\ tabCalls' = tabCalls + 1
      BY <1>1 DEF FocusBegin, FocusTypeOK
    <3> QED
      BY <3>1, TabBoundsAssumption
  <2> QED
    BY <1>1, <2>8, <2>9 DEF FocusBegin, FocusTypeOK
<1>2. ASSUME NEW t \in Threads, FocusReturn(t)
      PROVE  FocusTypeOK'
  <2>1. NoTool \in TabCalls
    BY NoToolTyped
  <2> QED
    BY <1>2, <2>1 DEF FocusReturn, FocusTypeOK
<1>3. ASSUME NEW t \in Threads, Go(t)
      PROVE  FocusTypeOK'
  <2>1. tabCall' \in [Threads -> TabCalls]
    <3> DEFINE call == [tabCall[t] EXCEPT !.current = focus, !.step = IF tabCall[t].tool = "new" THEN "list" ELSE "report"]
    <3>1. CASE FocusRaise(t)
      BY <3>1, FocusRaiseTyped
    <3>2. CASE tabCall' = [tabCall EXCEPT ![t] = call]
      <4>1. tabCall[t] \in TabCalls /\ focus \in Windows /\ {"list", "report"} \subseteq FocusSteps
        BY DEF FocusTypeOK, FocusSteps
      <4>2. call \in TabCalls
        BY <4>1 DEF TabCalls
      <4> HIDE DEF call
      <4> QED
        BY <3>2, <4>2, TabCallTyped
    <3> QED
      BY <1>3, <3>1, <3>2 DEF Go
  <2> QED
    BY <1>3, <2>1 DEF Go, FocusTypeOK
<1>4. ASSUME NEW t \in Threads, Report(t)
      PROVE  FocusTypeOK'
  <2>1. tabCall' \in [Threads -> TabCalls]
    BY <1>4, FocusToTyped, FocusRaiseTyped DEF Report, FocusSteps
  <2> QED
    BY <1>4, <2>1 DEF Report, FocusTypeOK
<1>5. ASSUME NEW t \in Threads, ReadHandle(t)
      PROVE  FocusTypeOK'
  <2>1. tabCall' \in [Threads -> TabCalls]
    <3> DEFINE call == [tabCall[t] EXCEPT !.step = "shut", !.current = focus]
    <3>1. CASE FocusRaise(t)
      BY <3>1, FocusRaiseTyped
    <3>2. CASE tabCall' = [tabCall EXCEPT ![t] = call]
      <4>1. tabCall[t] \in TabCalls /\ focus \in Windows /\ "shut" \in FocusSteps
        BY DEF FocusTypeOK, FocusSteps
      <4>2. call \in TabCalls
        BY <4>1 DEF TabCalls
      <4> HIDE DEF call
      <4> QED
        BY <3>2, <4>2, TabCallTyped
    <3> QED
      BY <1>5, <3>1, <3>2 DEF ReadHandle
  <2> QED
    BY <1>5, <2>1 DEF ReadHandle, FocusTypeOK
<1>6. ASSUME NEW t \in Threads, Shut(t)
      PROVE  FocusTypeOK'
  <2>1. /\ tabs' \in Seq(Windows) /\ \A j, k \in DOMAIN tabs' : j # k => tabs'[j] # tabs'[k]
        /\ \A j \in DOMAIN tabs' : tabs'[j] <= givenOut
        /\ inFrame' \in BOOLEAN /\ tabCall' \in [Threads -> TabCalls]
    BY <1>6, CloseFocusedTyped DEF Shut, FocusSteps
  <2> QED
    BY <1>6, <2>1 DEF Shut, FocusTypeOK
<1>7. ASSUME NEW t \in Threads, ReadLeft(t)
      PROVE  FocusTypeOK'
  <2>1. tabCall' \in [Threads -> TabCalls]
    <3> DEFINE call == [tabCall[t] EXCEPT !.step = "refocus", !.handles = tabs]
    <3>1. CASE FocusRaise(t)
      BY <3>1, FocusRaiseTyped
    <3>2. CASE tabCall' = [tabCall EXCEPT ![t] = call]
      <4>1. tabCall[t] \in TabCalls /\ tabs \in Seq(Windows) /\ "refocus" \in FocusSteps
        BY DEF FocusTypeOK, FocusSteps
      <4>2. call \in TabCalls
        BY <4>1 DEF TabCalls
      <4> HIDE DEF call
      <4> QED
        BY <3>2, <4>2, TabCallTyped
    <3>3. CASE FocusTo(t, AfterClose(t))
      BY <3>3, FocusToTyped DEF AfterClose, FocusSteps
    <3> QED
      BY <1>7, <3>1, <3>2, <3>3 DEF ReadLeft
  <2> QED
    BY <1>7, <2>1 DEF ReadLeft, FocusTypeOK
<1>8. ASSUME NEW t \in Threads, Refocus(t)
      PROVE  FocusTypeOK'
  <2>1. focus' \in Windows /\ inFrame' \in BOOLEAN /\ tabCall' \in [Threads -> TabCalls]
    BY <1>8, SwitchToTyped DEF Refocus, FocusSteps, AfterClose
  <2> QED
    BY <1>8, <2>1 DEF Refocus, FocusTypeOK
<1>9. ASSUME NEW t \in Threads, OpenTab(t)
      PROVE  FocusTypeOK'
  <2>1. CASE FocusRaise(t) /\ UNCHANGED <<tabs, givenOut>>
    <3>1. tabCall' \in [Threads -> TabCalls]
      BY <2>1, FocusRaiseTyped
    <3> QED
      BY <1>9, <2>1, <3>1 DEF OpenTab, FocusTypeOK
  <2>2. CASE Focused
    <3> DEFINE call == [tabCall[t] EXCEPT !.step = "enter", !.current = givenOut + 1]
    <3>1. /\ givenOut < MaxWindows /\ tabs' = Append(tabs, givenOut + 1) /\ givenOut' = givenOut + 1
          /\ tabCall' = [tabCall EXCEPT ![t] = call]
      BY <1>9, <2>2 DEF OpenTab
    <3>2. /\ tabs' \in Seq(Windows) /\ \A i, j \in DOMAIN tabs' : i # j => tabs'[i] # tabs'[j]
          /\ givenOut' \in Windows /\ \A i \in DOMAIN tabs' : tabs'[i] <= givenOut'
      BY <3>1, TabAppended
    <3>3. tabCall[t] \in TabCalls /\ givenOut + 1 \in Windows /\ "enter" \in FocusSteps
      BY <3>1, <3>2 DEF FocusTypeOK, FocusSteps
    <3>4. call \in TabCalls
      BY <3>3 DEF TabCalls
    <3> HIDE DEF call
    <3>5. tabCall' \in [Threads -> TabCalls]
      BY <3>1, <3>4, TabCallTyped
    <3> QED
      BY <1>9, <3>2, <3>5 DEF OpenTab, FocusTypeOK
  <2> QED
    BY <1>9, <2>1, <2>2 DEF OpenTab
<1>10. ASSUME NEW t \in Threads, EnterTab(t)
      PROVE  FocusTypeOK'
  <2>1. focus' \in Windows /\ inFrame' \in BOOLEAN /\ tabCall' \in [Threads -> TabCalls]
    BY <1>10, SwitchToTyped DEF EnterTab, FocusSteps
  <2> QED
    BY <1>10, <2>1 DEF EnterTab, FocusTypeOK
<1>11. ASSUME NEW t \in Threads, Choose(t)
      PROVE  FocusTypeOK'
  <2>1. tabCall' \in [Threads -> TabCalls]
    <3> DEFINE call == [tabCall[t] EXCEPT !.handles = tabs, !.step = IF tabCall[t].index = 0 THEN "shut" ELSE "chosen"]
    <3>1. CASE FocusRaise(t)
      BY <3>1, FocusRaiseTyped
    <3>2. CASE tabCall' = [tabCall EXCEPT ![t] = call]
      <4>1. tabCall[t] \in TabCalls /\ tabs \in Seq(Windows) /\ {"shut", "chosen"} \subseteq FocusSteps
        BY DEF FocusTypeOK, FocusSteps
      <4>2. call \in TabCalls
        BY <4>1 DEF TabCalls
      <4> HIDE DEF call
      <4> QED
        BY <3>2, <4>2, TabCallTyped
    <3> QED
      BY <1>11, <3>1, <3>2 DEF Choose
  <2> QED
    BY <1>11, <2>1 DEF Choose, FocusTypeOK
<1>12. ASSUME NEW t \in Threads, Chosen(t)
      PROVE  FocusTypeOK'
  <2>1. focus' \in Windows /\ inFrame' \in BOOLEAN /\ tabCall' \in [Threads -> TabCalls]
    BY <1>12, SwitchToTyped DEF Chosen, FocusSteps
  <2> QED
    BY <1>12, <2>1 DEF Chosen, FocusTypeOK
<1>13. ASSUME NEW t \in Threads, ListHandles(t)
      PROVE  FocusTypeOK'
  <2>1. tabCall' \in [Threads -> TabCalls]
    <3> DEFINE call == [tabCall[t] EXCEPT !.handles = tabs, !.current = NoWindow, !.next = 1, !.step = IF tabs = <<>> THEN "done" ELSE "current"]
    <3>1. CASE FocusRaise(t)
      BY <3>1, FocusRaiseTyped
    <3>2. CASE tabCall' = [tabCall EXCEPT ![t] = call]
      <4>1. tabCall[t] \in TabCalls /\ tabs \in Seq(Windows) /\ {"done", "current"} \subseteq FocusSteps
        BY DEF FocusTypeOK, FocusSteps
      <4>2. call \in TabCalls
        BY <4>1 DEF TabCalls
      <4> HIDE DEF call
      <4> QED
        BY <3>2, <4>2, TabCallTyped
    <3> QED
      BY <1>13, <3>1, <3>2 DEF ListHandles
  <2> QED
    BY <1>13, <2>1 DEF ListHandles, FocusTypeOK
<1>14. ASSUME NEW t \in Threads, ListCurrent(t)
      PROVE  FocusTypeOK'
  <2>1. tabCall' \in [Threads -> TabCalls]
    <3> DEFINE call == [tabCall[t] EXCEPT !.step = "visit", !.current = focus]
    <3>1. CASE FocusRaise(t)
      BY <3>1, FocusRaiseTyped
    <3>2. CASE tabCall' = [tabCall EXCEPT ![t] = call]
      <4>1. tabCall[t] \in TabCalls /\ focus \in Windows /\ "visit" \in FocusSteps
        BY DEF FocusTypeOK, FocusSteps
      <4>2. call \in TabCalls
        BY <4>1 DEF TabCalls
      <4> HIDE DEF call
      <4> QED
        BY <3>2, <4>2, TabCallTyped
    <3> QED
      BY <1>14, <3>1, <3>2 DEF ListCurrent
  <2> QED
    BY <1>14, <2>1 DEF ListCurrent, FocusTypeOK
<1>15. ASSUME NEW t \in Threads, Visit(t)
      PROVE  FocusTypeOK'
  <2>1. focus' \in Windows /\ inFrame' \in BOOLEAN /\ tabCall' \in [Threads -> TabCalls]
    BY <1>15, SwitchToTyped DEF Visit, FocusSteps
  <2> QED
    BY <1>15, <2>1 DEF Visit, FocusTypeOK
<1>16. ASSUME NEW t \in Threads, Describe(t)
      PROVE  FocusTypeOK'
  <2>1. tabCall' \in [Threads -> TabCalls]
    <3> DEFINE call == [tabCall[t] EXCEPT !.step = "visit", !.next = @ + 1]
    <3>1. CASE FocusRaise(t)
      BY <3>1, FocusRaiseTyped
    <3>2. CASE tabCall' = [tabCall EXCEPT ![t] = call]
      <4>1. tabCall[t] \in TabCalls /\ tabCall[t].next + 1 \in Nat /\ "visit" \in FocusSteps
        BY DEF FocusTypeOK, FocusSteps, TabCalls
      <4>2. call \in TabCalls
        BY <4>1 DEF TabCalls
      <4> HIDE DEF call
      <4> QED
        BY <3>2, <4>2, TabCallTyped
    <3> QED
      BY <1>16, <3>1, <3>2 DEF Describe
  <2> QED
    BY <1>16, <2>1 DEF Describe, FocusTypeOK
<1>17. ASSUME NEW t \in Threads, GoBack(t)
      PROVE  FocusTypeOK'
  <2>1. CASE SwitchTo(t, tabCall[t].current, "done")
    <3>1. focus' \in Windows /\ inFrame' \in BOOLEAN /\ tabCall' \in [Threads -> TabCalls]
      BY <2>1, SwitchToTyped DEF FocusSteps
    <3> QED
      BY <1>17, <3>1 DEF GoBack, FocusTypeOK
  <2>2. CASE FocusTo(t, "done") /\ UNCHANGED <<focus, inFrame>>
    <3>1. tabCall' \in [Threads -> TabCalls]
      BY <2>2, FocusToTyped DEF FocusSteps
    <3> QED
      BY <1>17, <2>2, <3>1 DEF GoBack, FocusTypeOK
  <2> QED
    BY <1>17, <2>1, <2>2 DEF GoBack
<1>18. ASSUME NEW t \in Threads, SelectFrame(t)
      PROVE  FocusTypeOK'
  <2>1. tabCall' \in [Threads -> TabCalls] /\ inFrame' \in BOOLEAN
    BY <1>18, FocusToTyped, FocusRaiseTyped DEF SelectFrame, FocusSteps, FocusTypeOK
  <2> QED
    BY <1>18, <2>1 DEF SelectFrame, FocusTypeOK
<1>19. ASSUME NEW t \in Threads, LeaveFrame(t)
      PROVE  FocusTypeOK'
  <2>1. tabCall' \in [Threads -> TabCalls] /\ inFrame' \in BOOLEAN
    BY <1>19, FocusToTyped, FocusRaiseTyped DEF LeaveFrame, FocusSteps, FocusTypeOK
  <2> QED
    BY <1>19, <2>1 DEF LeaveFrame, FocusTypeOK
<1>20. CASE PageOpens
  <2>1. /\ tabs' \in Seq(Windows) /\ \A i, j \in DOMAIN tabs' : i # j => tabs'[i] # tabs'[j]
        /\ givenOut' \in Windows /\ \A i \in DOMAIN tabs' : tabs'[i] <= givenOut'
    BY <1>20, TabAppended DEF PageOpens
  <2> QED
    BY <1>20, <2>1 DEF PageOpens, FocusTypeOK
<1> QED
  BY <1>1, <1>2, <1>3, <1>4, <1>5, <1>6, <1>7, <1>8, <1>9, <1>10, <1>11, <1>12,
     <1>13, <1>14, <1>15, <1>16, <1>17, <1>18, <1>19, <1>20
     DEF FocusNext

\* A step of a call of its own, other than its beginning and its end.
TabStep(t) ==
    \/ Go(t) \/ Report(t) \/ ReadHandle(t) \/ Shut(t) \/ ReadLeft(t) \/ Refocus(t)
    \/ OpenTab(t) \/ EnterTab(t) \/ Choose(t) \/ Chosen(t) \/ ListHandles(t) \/ ListCurrent(t)
    \/ Visit(t) \/ Describe(t) \/ GoBack(t) \/ SelectFrame(t) \/ LeaveFrame(t)

\* The other calls stay as they are, and the call itself keeps what it was given.
OthersStay(t) ==
    /\ \A u \in Threads \ {t} : tabCall'[u] = tabCall[u]
    /\ tabCall'[t].tool = tabCall[t].tool /\ tabCall'[t].index = tabCall[t].index
    /\ tabCall'[t].before = tabCall[t].before /\ tabCall'[t].alone = tabCall[t].alone

\* A step may leave what the call has read, and it may raise or go on to a step.
LocalsStay(t) == tabCall'[t].handles = tabCall[t].handles /\ tabCall'[t].current = tabCall[t].current

TabRaises(t) == tabCall'[t].step = "done" /\ tabCall'[t].ok = FALSE
TabMoves(t, step) == tabCall'[t].step = step /\ tabCall'[t].ok = tabCall[t].ok

\* What each operation does to the call, in these words.
LEMMA FocusToEffect ==
    ASSUME FocusTypeOK, NEW t \in Threads, NEW step, FocusTo(t, step)
    PROVE  OthersStay(t) /\ LocalsStay(t) /\ TabMoves(t, step)
<1>1. tabCall \in [Threads -> TabCalls]
  BY DEF FocusTypeOK
<1> QED
  BY <1>1 DEF FocusTo, TabCalls, OthersStay, LocalsStay, TabMoves

\* An error ends the call.
LEMMA FocusRaiseEffect ==
    ASSUME FocusTypeOK, NEW t \in Threads, FocusRaise(t)
    PROVE  OthersStay(t) /\ LocalsStay(t) /\ TabRaises(t)
<1>1. tabCall \in [Threads -> TabCalls]
  BY DEF FocusTypeOK
<1> QED
  BY <1>1 DEF FocusRaise, TabCalls, OthersStay, LocalsStay, TabRaises

\* A switch moves the focus to a window that is there, and raises otherwise.
LEMMA SwitchToEffect ==
    ASSUME FocusTypeOK, NEW t \in Threads, NEW w, NEW step, SwitchTo(t, w, step)
    PROVE  /\ OthersStay(t) /\ LocalsStay(t)
           /\ \/ w \in OpenWindows /\ focus' = w /\ TabMoves(t, step)
              \/ w \notin OpenWindows /\ focus' = focus /\ TabRaises(t)
BY FocusToEffect, FocusRaiseEffect DEF SwitchTo

\* A navigation reads the focus that it went to.
LEMMA GoEffect ==
    ASSUME FocusTypeOK, NEW t \in Threads, Go(t)
    PROVE  /\ OthersStay(t)
           /\ IF Focused THEN tabCall'[t].current = focus /\ TabMoves(t, IF tabCall[t].tool = "new" THEN "list" ELSE "report")
              ELSE TabRaises(t) /\ LocalsStay(t)
<1>1. tabCall \in [Threads -> TabCalls]
  BY DEF FocusTypeOK
<1>2. CASE Focused
  <2>1. tabCall' = [tabCall EXCEPT ![t].current = focus, ![t].step = IF tabCall[t].tool = "new" THEN "list" ELSE "report"]
    BY <1>2 DEF Go
  <2>2. OthersStay(t) /\ tabCall'[t].current = focus /\ TabMoves(t, IF tabCall[t].tool = "new" THEN "list" ELSE "report")
    BY <1>1, <2>1 DEF OthersStay, TabCalls, TabMoves, LocalsStay
  <2> QED
    BY <1>2, <2>2
<1>3. CASE ~(Focused)
  <2>1. FocusRaise(t)
    BY <1>3 DEF Go
  <2>2. OthersStay(t) /\ TabRaises(t) /\ LocalsStay(t)
    BY <2>1, FocusRaiseEffect, FocusToEffect
  <2> QED
    BY <1>3, <2>2
<1> QED
  BY <1>2, <1>3

\* browser_close reads the window in focus.
LEMMA ReadHandleEffect ==
    ASSUME FocusTypeOK, NEW t \in Threads, ReadHandle(t)
    PROVE  /\ OthersStay(t)
           /\ IF Focused THEN TabMoves(t, "shut")
              ELSE TabRaises(t) /\ LocalsStay(t)
<1>1. tabCall \in [Threads -> TabCalls]
  BY DEF FocusTypeOK
<1>2. CASE Focused
  <2>1. tabCall' = [tabCall EXCEPT ![t].step = "shut", ![t].current = focus]
    BY <1>2 DEF ReadHandle
  <2>2. OthersStay(t) /\ TabMoves(t, "shut")
    BY <1>1, <2>1 DEF OthersStay, TabCalls, TabMoves, LocalsStay
  <2> QED
    BY <1>2, <2>2
<1>3. CASE ~(Focused)
  <2>1. FocusRaise(t)
    BY <1>3 DEF ReadHandle
  <2>2. OthersStay(t) /\ TabRaises(t) /\ LocalsStay(t)
    BY <2>1, FocusRaiseEffect, FocusToEffect
  <2> QED
    BY <1>3, <2>2
<1> QED
  BY <1>2, <1>3

\* What is left is read after a close.
LEMMA ReadLeftEffect ==
    ASSUME FocusTypeOK, NEW t \in Threads, ReadLeft(t)
    PROVE  /\ OthersStay(t)
           /\ IF tabs # <<>> THEN tabCall'[t].handles = tabs /\ TabMoves(t, "refocus")
              ELSE TabMoves(t, AfterClose(t)) /\ LocalsStay(t)
<1>1. tabCall \in [Threads -> TabCalls]
  BY DEF FocusTypeOK
<1>2. CASE tabs # <<>>
  <2>1. tabCall' = [tabCall EXCEPT ![t].step = "refocus", ![t].handles = tabs]
    BY <1>2 DEF ReadLeft
  <2>2. OthersStay(t) /\ tabCall'[t].handles = tabs /\ TabMoves(t, "refocus")
    BY <1>1, <2>1 DEF OthersStay, TabCalls, TabMoves, LocalsStay
  <2> QED
    BY <1>2, <2>2
<1>3. CASE ~(tabs # <<>>)
  <2>1. FocusTo(t, AfterClose(t))
    BY <1>3 DEF ReadLeft
  <2>2. OthersStay(t) /\ TabMoves(t, AfterClose(t)) /\ LocalsStay(t)
    BY <2>1, FocusRaiseEffect, FocusToEffect
  <2> QED
    BY <1>3, <2>2
<1> QED
  BY <1>2, <1>3

\* A tab is chosen by its index among the windows as they are.
LEMMA ChooseEffect ==
    ASSUME FocusTypeOK, NEW t \in Threads, Choose(t)
    PROVE  /\ OthersStay(t)
           /\ IF ~(tabCall[t].index > Len(tabs)) THEN tabCall'[t].handles = tabs /\ TabMoves(t, IF tabCall[t].index = 0 THEN "shut" ELSE "chosen")
              ELSE TabRaises(t) /\ LocalsStay(t)
<1>1. tabCall \in [Threads -> TabCalls]
  BY DEF FocusTypeOK
<1>2. CASE ~(tabCall[t].index > Len(tabs))
  <2>1. tabCall' = [tabCall EXCEPT ![t].handles = tabs, ![t].step = IF tabCall[t].index = 0 THEN "shut" ELSE "chosen"]
    BY <1>2 DEF Choose
  <2>2. OthersStay(t) /\ tabCall'[t].handles = tabs /\ TabMoves(t, IF tabCall[t].index = 0 THEN "shut" ELSE "chosen")
    BY <1>1, <2>1 DEF OthersStay, TabCalls, TabMoves, LocalsStay
  <2> QED
    BY <1>2, <2>2
<1>3. CASE ~(~(tabCall[t].index > Len(tabs)))
  <2>1. FocusRaise(t)
    BY <1>3 DEF Choose
  <2>2. OthersStay(t) /\ TabRaises(t) /\ LocalsStay(t)
    BY <2>1, FocusRaiseEffect, FocusToEffect
  <2> QED
    BY <1>3, <2>2
<1> QED
  BY <1>2, <1>3

\* A listing reads the focus.
LEMMA ListCurrentEffect ==
    ASSUME FocusTypeOK, NEW t \in Threads, ListCurrent(t)
    PROVE  /\ OthersStay(t)
           /\ IF Focused THEN tabCall'[t].handles = tabCall[t].handles /\ tabCall'[t].current = focus /\ TabMoves(t, "visit")
              ELSE TabRaises(t) /\ LocalsStay(t)
<1>1. tabCall \in [Threads -> TabCalls]
  BY DEF FocusTypeOK
<1>2. CASE Focused
  <2>1. tabCall' = [tabCall EXCEPT ![t].step = "visit", ![t].current = focus]
    BY <1>2 DEF ListCurrent
  <2>2. OthersStay(t) /\ tabCall'[t].handles = tabCall[t].handles /\ tabCall'[t].current = focus /\ TabMoves(t, "visit")
    BY <1>1, <2>1 DEF OthersStay, TabCalls, TabMoves, LocalsStay
  <2> QED
    BY <1>2, <2>2
<1>3. CASE ~(Focused)
  <2>1. FocusRaise(t)
    BY <1>3 DEF ListCurrent
  <2>2. OthersStay(t) /\ TabRaises(t) /\ LocalsStay(t)
    BY <2>1, FocusRaiseEffect, FocusToEffect
  <2> QED
    BY <1>3, <2>2
<1> QED
  BY <1>2, <1>3

\* A window is described in the focus.
LEMMA DescribeEffect ==
    ASSUME FocusTypeOK, NEW t \in Threads, Describe(t)
    PROVE  /\ OthersStay(t)
           /\ IF Focused THEN LocalsStay(t) /\ TabMoves(t, "visit")
              ELSE TabRaises(t) /\ LocalsStay(t)
<1>1. tabCall \in [Threads -> TabCalls]
  BY DEF FocusTypeOK
<1>2. CASE Focused
  <2>1. tabCall' = [tabCall EXCEPT ![t].step = "visit", ![t].next = @ + 1]
    BY <1>2 DEF Describe
  <2>2. OthersStay(t) /\ LocalsStay(t) /\ TabMoves(t, "visit")
    BY <1>1, <2>1 DEF OthersStay, TabCalls, TabMoves, LocalsStay
  <2> QED
    BY <1>2, <2>2
<1>3. CASE ~(Focused)
  <2>1. FocusRaise(t)
    BY <1>3 DEF Describe
  <2>2. OthersStay(t) /\ TabRaises(t) /\ LocalsStay(t)
    BY <2>1, FocusRaiseEffect, FocusToEffect
  <2> QED
    BY <1>3, <2>2
<1> QED
  BY <1>2, <1>3

\* A tab is opened from a window in focus.
LEMMA OpenTabEffect ==
    ASSUME FocusTypeOK, NEW t \in Threads, OpenTab(t)
    PROVE  /\ OthersStay(t)
           /\ IF Focused THEN TabMoves(t, "enter")
              ELSE TabRaises(t) /\ LocalsStay(t)
<1>1. tabCall \in [Threads -> TabCalls]
  BY DEF FocusTypeOK
<1>2. CASE Focused
  <2>1. tabCall' = [tabCall EXCEPT ![t].step = "enter", ![t].current = givenOut + 1]
    BY <1>2 DEF OpenTab
  <2>2. OthersStay(t) /\ TabMoves(t, "enter")
    BY <1>1, <2>1 DEF OthersStay, TabCalls, TabMoves, LocalsStay
  <2> QED
    BY <1>2, <2>2
<1>3. CASE ~(Focused)
  <2>1. FocusRaise(t)
    BY <1>3 DEF OpenTab
  <2>2. OthersStay(t) /\ TabRaises(t) /\ LocalsStay(t)
    BY <2>1, FocusRaiseEffect, FocusToEffect
  <2> QED
    BY <1>3, <2>2
<1> QED
  BY <1>2, <1>3

\* A listing reads the windows.
LEMMA ListHandlesEffect ==
    ASSUME FocusTypeOK, NEW t \in Threads, ListHandles(t)
    PROVE  OthersStay(t) /\ tabCall'[t].handles = tabs /\ tabCall'[t].current = NoWindow
           /\ TabMoves(t, IF tabs = <<>> THEN "done" ELSE "current")
<1>1. tabCall \in [Threads -> TabCalls]
  BY DEF FocusTypeOK
<1> QED
  BY <1>1 DEF ListHandles, OthersStay, TabCalls, TabMoves

\* A step of a call leaves the others alone.
LEMMA TabStepKeeps ==
    ASSUME FocusTypeOK, NEW t \in Threads, TabStep(t)
    PROVE  OthersStay(t) /\ tabCall[t].step # "idle"
<1>1. CASE Go(t)
  BY <1>1, GoEffect DEF Go
<1>2. CASE Report(t)
  BY <1>2, FocusToEffect, FocusRaiseEffect DEF Report
<1>3. CASE ReadHandle(t)
  BY <1>3, ReadHandleEffect DEF ReadHandle
<1>4. CASE Shut(t)
  BY <1>4, FocusToEffect, FocusRaiseEffect DEF Shut, CloseFocused
<1>5. CASE ReadLeft(t)
  BY <1>5, ReadLeftEffect DEF ReadLeft
<1>6. CASE Refocus(t)
  BY <1>6, SwitchToEffect DEF Refocus
<1>7. CASE OpenTab(t)
  BY <1>7, OpenTabEffect DEF OpenTab
<1>8. CASE EnterTab(t)
  BY <1>8, SwitchToEffect DEF EnterTab
<1>9. CASE Choose(t)
  BY <1>9, ChooseEffect DEF Choose
<1>10. CASE Chosen(t)
  BY <1>10, SwitchToEffect DEF Chosen
<1>11. CASE ListHandles(t)
  BY <1>11, ListHandlesEffect DEF ListHandles
<1>12. CASE ListCurrent(t)
  BY <1>12, ListCurrentEffect DEF ListCurrent
<1>13. CASE Visit(t)
  BY <1>13, SwitchToEffect DEF Visit
<1>14. CASE Describe(t)
  BY <1>14, DescribeEffect DEF Describe
<1>15. CASE GoBack(t)
  BY <1>15, SwitchToEffect, FocusToEffect DEF GoBack, ListedAll
<1>16. CASE SelectFrame(t)
  BY <1>16, FocusToEffect, FocusRaiseEffect DEF SelectFrame
<1>17. CASE LeaveFrame(t)
  BY <1>17, FocusToEffect, FocusRaiseEffect DEF LeaveFrame
<1> QED
  BY <1>1, <1>2, <1>3, <1>4, <1>5, <1>6, <1>7, <1>8, <1>9, <1>10, <1>11, <1>12,
     <1>13, <1>14, <1>15, <1>16, <1>17
     DEF TabStep

\* A step of a call is one of its tool.
LEMMA CallFitsStep ==
    ASSUME FocusTypeOK, NEW t \in Threads, TabStep(t), CallFits(tabCall[t])
    PROVE  CallFits(tabCall'[t])
<1>1. CASE Go(t)
  <2>1. OthersStay(t) /\ (TabRaises(t) \/ TabMoves(t, IF tabCall[t].tool = "new" THEN "list" ELSE "report"))
    BY <1>1, GoEffect DEF Go
  <2>2. tabCall[t].step = "go"
    BY <1>1 DEF Go
  <2> QED
    BY <2>1, <2>2 DEF CallFits, TabMoves, TabRaises, OthersStay
<1>2. CASE Report(t)
  <2>1. OthersStay(t) /\ (TabRaises(t) \/ TabMoves(t, "done"))
    BY <1>2, FocusToEffect, FocusRaiseEffect DEF Report
  <2>2. tabCall[t].step = "report"
    BY <1>2 DEF Report
  <2> QED
    BY <2>1, <2>2 DEF CallFits, TabMoves, TabRaises, OthersStay
<1>3. CASE ReadHandle(t)
  <2>1. OthersStay(t) /\ (TabRaises(t) \/ TabMoves(t, "shut"))
    BY <1>3, ReadHandleEffect DEF ReadHandle
  <2>2. tabCall[t].step = "handle"
    BY <1>3 DEF ReadHandle
  <2> QED
    BY <2>1, <2>2 DEF CallFits, TabMoves, TabRaises, OthersStay
<1>4. CASE Shut(t)
  <2>1. OthersStay(t) /\ (TabRaises(t) \/ TabMoves(t, "left"))
    BY <1>4, FocusToEffect, FocusRaiseEffect DEF Shut, CloseFocused
  <2>2. tabCall[t].step = "shut"
    BY <1>4 DEF Shut, CloseFocused
  <2> QED
    BY <2>1, <2>2 DEF CallFits, TabMoves, TabRaises, OthersStay
<1>5. CASE ReadLeft(t)
  <2>1. OthersStay(t) /\ (TabRaises(t) \/ TabMoves(t, "refocus") \/ TabMoves(t, AfterClose(t)))
    BY <1>5, ReadLeftEffect DEF ReadLeft
  <2>2. tabCall[t].step = "left"
    BY <1>5 DEF ReadLeft
  <2> QED
    BY <2>1, <2>2 DEF CallFits, TabMoves, TabRaises, OthersStay, AfterClose
<1>6. CASE Refocus(t)
  <2>1. OthersStay(t) /\ (TabRaises(t) \/ TabMoves(t, AfterClose(t)))
    BY <1>6, SwitchToEffect DEF Refocus
  <2>2. tabCall[t].step = "refocus"
    BY <1>6 DEF Refocus
  <2> QED
    BY <2>1, <2>2 DEF CallFits, TabMoves, TabRaises, OthersStay, AfterClose
<1>7. CASE OpenTab(t)
  <2>1. OthersStay(t) /\ (TabRaises(t) \/ TabMoves(t, "enter"))
    BY <1>7, OpenTabEffect DEF OpenTab
  <2>2. tabCall[t].step = "open"
    BY <1>7 DEF OpenTab
  <2> QED
    BY <2>1, <2>2 DEF CallFits, TabMoves, TabRaises, OthersStay
<1>8. CASE EnterTab(t)
  <2>1. OthersStay(t) /\ (TabRaises(t) \/ TabMoves(t, "go") \/ TabMoves(t, "list"))
    BY <1>8, SwitchToEffect DEF EnterTab
  <2>2. tabCall[t].step = "enter"
    BY <1>8 DEF EnterTab
  <2> QED
    BY <2>1, <2>2 DEF CallFits, TabMoves, TabRaises, OthersStay
<1>9. CASE Choose(t)
  <2>1. OthersStay(t) /\ (TabRaises(t) \/ TabMoves(t, IF tabCall[t].index = 0 THEN "shut" ELSE "chosen"))
    BY <1>9, ChooseEffect DEF Choose
  <2>2. tabCall[t].step = "choose"
    BY <1>9 DEF Choose
  <2> QED
    BY <2>1, <2>2 DEF CallFits, TabMoves, TabRaises, OthersStay
<1>10. CASE Chosen(t)
  <2>1. OthersStay(t) /\ (TabRaises(t) \/ TabMoves(t, IF tabCall[t].tool = "select" THEN "list" ELSE "shut"))
    BY <1>10, SwitchToEffect DEF Chosen
  <2>2. tabCall[t].step = "chosen"
    BY <1>10 DEF Chosen
  <2> QED
    BY <2>1, <2>2 DEF CallFits, TabMoves, TabRaises, OthersStay
<1>11. CASE ListHandles(t)
  <2>1. OthersStay(t) /\ (TabRaises(t) \/ TabMoves(t, IF tabs = <<>> THEN "done" ELSE "current"))
    BY <1>11, ListHandlesEffect DEF ListHandles
  <2>2. tabCall[t].step = "list"
    BY <1>11 DEF ListHandles
  <2> QED
    BY <2>1, <2>2 DEF CallFits, TabMoves, TabRaises, OthersStay
<1>12. CASE ListCurrent(t)
  <2>1. OthersStay(t) /\ (TabRaises(t) \/ TabMoves(t, "visit"))
    BY <1>12, ListCurrentEffect DEF ListCurrent
  <2>2. tabCall[t].step = "current"
    BY <1>12 DEF ListCurrent
  <2> QED
    BY <2>1, <2>2 DEF CallFits, TabMoves, TabRaises, OthersStay
<1>13. CASE Visit(t)
  <2>1. OthersStay(t) /\ (TabRaises(t) \/ TabMoves(t, "describe"))
    BY <1>13, SwitchToEffect DEF Visit
  <2>2. tabCall[t].step = "visit"
    BY <1>13 DEF Visit
  <2> QED
    BY <2>1, <2>2 DEF CallFits, TabMoves, TabRaises, OthersStay
<1>14. CASE Describe(t)
  <2>1. OthersStay(t) /\ (TabRaises(t) \/ TabMoves(t, "visit"))
    BY <1>14, DescribeEffect DEF Describe
  <2>2. tabCall[t].step = "describe"
    BY <1>14 DEF Describe
  <2> QED
    BY <2>1, <2>2 DEF CallFits, TabMoves, TabRaises, OthersStay
<1>15. CASE GoBack(t)
  <2>1. OthersStay(t) /\ (TabRaises(t) \/ TabMoves(t, "done"))
    BY <1>15, SwitchToEffect, FocusToEffect DEF GoBack, ListedAll
  <2>2. tabCall[t].step = "visit"
    BY <1>15 DEF GoBack, ListedAll
  <2> QED
    BY <2>1, <2>2 DEF CallFits, TabMoves, TabRaises, OthersStay
<1>16. CASE SelectFrame(t)
  <2>1. OthersStay(t) /\ (TabRaises(t) \/ TabMoves(t, "done"))
    BY <1>16, FocusToEffect, FocusRaiseEffect DEF SelectFrame
  <2>2. tabCall[t].step = "frame"
    BY <1>16 DEF SelectFrame
  <2> QED
    BY <2>1, <2>2 DEF CallFits, TabMoves, TabRaises, OthersStay
<1>17. CASE LeaveFrame(t)
  <2>1. OthersStay(t) /\ (TabRaises(t) \/ TabMoves(t, "done"))
    BY <1>17, FocusToEffect, FocusRaiseEffect DEF LeaveFrame
  <2>2. tabCall[t].step = "unframe"
    BY <1>17 DEF LeaveFrame
  <2> QED
    BY <2>1, <2>2 DEF CallFits, TabMoves, TabRaises, OthersStay
<1> QED
  BY <1>1, <1>2, <1>3, <1>4, <1>5, <1>6, <1>7, <1>8, <1>9, <1>10, <1>11, <1>12,
     <1>13, <1>14, <1>15, <1>16, <1>17
     DEF TabStep

\* Every step keeps CallsFit.
LEMMA CallsFitStep ==
    ASSUME FocusTypeOK, CallsFit, FocusNext
    PROVE  CallsFit'
<1>1. tabCall \in [Threads -> TabCalls]
  BY DEF FocusTypeOK
<1>2. ASSUME NEW t \in Threads, NEW tool \in Tabbing, NEW index \in 0..MaxWindows,
             FocusBegin(t, tool, index)
      PROVE  CallsFit'
  <2>1. /\ tabCall'[t].tool = tool /\ tabCall'[t].step = FirstStep(tool) /\ tabCall'[t].index = index
        /\ tabCall'[t].ok = TRUE
    BY <1>2 DEF FocusBegin, NoTool
  <2>2. CallFits(tabCall'[t])
    <3>1. tool \in TabTools /\ (index = 0 => tool # "select")
      BY <1>2, TabbingAssumption DEF FocusBegin
    <3>2. /\ tool = "navigate" => FirstStep(tool) = "go"
          /\ tool = "close" => FirstStep(tool) = "handle"
          /\ tool = "new" => FirstStep(tool) = "open"
          /\ tool \in {"select", "closeTab"} => FirstStep(tool) = "choose"
          /\ tool = "list" => FirstStep(tool) = "list"
          /\ tool \in {"frame", "unframe"} => FirstStep(tool) = tool
      BY <3>1 DEF FirstStep, TabTools
    <3> QED
      BY <2>1, <3>1, <3>2 DEF TabTools, CallFits
  <2>3. ASSUME NEW u \in Threads, u # t
        PROVE  CallFits(tabCall'[u])
    <3>1. /\ tabCall'[u].tool = tabCall[u].tool /\ tabCall'[u].step = tabCall[u].step
          /\ tabCall'[u].index = tabCall[u].index /\ tabCall'[u].ok = tabCall[u].ok
      BY <1>1, <1>2, <2>3 DEF FocusBegin, TabCalls
    <3> QED
      BY <3>1 DEF CallsFit, CallFits
  <2> QED
    BY <2>2, <2>3 DEF CallsFit
<1>3. ASSUME NEW t \in Threads, FocusReturn(t)
      PROVE  CallsFit'
  <2>1. CallFits(NoTool)
    BY DEF NoTool, CallFits
  <2>2. \A u \in Threads : tabCall'[u] = IF u = t THEN NoTool ELSE tabCall[u]
    BY <1>1, <1>3 DEF FocusReturn
  <2> QED
    BY <2>1, <2>2 DEF CallsFit
<1>4. ASSUME NEW t \in Threads, TabStep(t)
      PROVE  CallsFit'
  BY <1>4, CallFitsStep, TabStepKeeps DEF CallsFit, OthersStay
<1>5. CASE PageOpens
  BY <1>5 DEF PageOpens, CallsFit
<1> QED
  BY <1>2, <1>3, <1>4, <1>5 DEF FocusNext, TabStep

\* Every step keeps LoneIsAlone.
LEMMA LoneIsAloneStep ==
    ASSUME FocusTypeOK, LoneIsAlone, FocusNext
    PROVE  LoneIsAlone'
<1>1. tabCall \in [Threads -> TabCalls]
  BY DEF FocusTypeOK
<1>2. ASSUME NEW t \in Threads, NEW tool \in Tabbing, NEW index \in 0..MaxWindows,
             FocusBegin(t, tool, index)
      PROVE  LoneIsAlone'
  <2>1. tabCall'[t].alone => \A u \in Threads : tabCall[u].step = "idle"
    BY <1>2 DEF FocusBegin, Busy, NoTool
  <2>2. \A u \in Threads \ {t} : tabCall'[u].alone = FALSE /\ tabCall'[u].step = tabCall[u].step
    BY <1>1, <1>2 DEF FocusBegin, TabCalls
  <2> QED
    BY <2>1, <2>2 DEF LoneIsAlone
<1>3. ASSUME NEW t \in Threads, FocusReturn(t)
      PROVE  LoneIsAlone'
  <2>1. \A u \in Threads : tabCall'[u] = IF u = t THEN NoTool ELSE tabCall[u]
    BY <1>1, <1>3 DEF FocusReturn
  <2> QED
    BY <2>1 DEF LoneIsAlone, NoTool
<1>4. ASSUME NEW t \in Threads, TabStep(t)
      PROVE  LoneIsAlone'
  <2>1. OthersStay(t) /\ tabCall[t].step # "idle"
    BY <1>4, TabStepKeeps
  <2> QED
    BY <2>1 DEF LoneIsAlone, OthersStay
<1>5. CASE PageOpens
  BY <1>5 DEF PageOpens, LoneIsAlone
<1> QED
  BY <1>2, <1>3, <1>4, <1>5 DEF FocusNext, TabStep

\* One who is about to move the focus stays so while others step.
LEMMA ReturningStays ==
    ASSUME CloserReturns, NEW t \in Threads, OthersStay(t), ~Returning(t),
           focus' = focus, OpenWindows \subseteq OpenWindows', tabs' # <<>> => tabs # <<>>
    PROVE  CloserReturns'
<1>1. \A u \in Threads \ {t} : Returning(u) => Returning(u)'
  BY DEF OthersStay, Returning
<1> QED
  BY <1>1 DEF CloserReturns, Focused

\* A switch of windows leaves a focus, or someone who is about to move it.
LEMMA SwitchKeepsCloser ==
    ASSUME FocusTypeOK, CloserReturns, NEW t \in Threads, NEW w, NEW step,
           SwitchTo(t, w, step), tabs' = tabs, w \notin OpenWindows => ~Returning(t)
    PROVE  CloserReturns'
<1>1. OpenWindows' = OpenWindows
  BY DEF OpenWindows
<1>2. CASE w \in OpenWindows
  BY <1>1, <1>2, SwitchToEffect DEF CloserReturns, Focused
<1>3. CASE w \notin OpenWindows
  BY <1>1, <1>3, SwitchToEffect, ReturningStays
<1> QED
  BY <1>2, <1>3

\* Opening a window keeps those there are.
LEMMA OpensKeep ==
    ASSUME FocusTypeOK, givenOut < MaxWindows, tabs' = Append(tabs, givenOut + 1), givenOut' = givenOut + 1
    PROVE  OpenWindows \subseteq OpenWindows' /\ tabs' # <<>>
<1>1. \A i \in DOMAIN tabs : i \in DOMAIN tabs' /\ tabs'[i] = tabs[i]
  BY TabAppended
<1>2. tabs' # <<>>
  BY DEF FocusTypeOK
<1> QED
  BY <1>1, <1>2 DEF OpenWindows

\* A step of a call keeps CloserReturns.
LEMMA CloserReturnsOwn ==
    ASSUME FocusTypeOK, NEW t \in Threads, TabStep(t), CloserReturns
    PROVE  CloserReturns'
<1>1. CASE Go(t)
  <2>1. tabCall[t].step = "go" /\ tabs' = tabs /\ focus' = focus /\ OthersStay(t)
    BY <1>1, TabStepKeeps DEF Go, TabStep
  <2> QED
    BY <2>1, ReturningStays DEF Returning, OpenWindows
<1>2. CASE Report(t)
  <2>1. tabCall[t].step = "report" /\ tabs' = tabs /\ focus' = focus /\ OthersStay(t)
    BY <1>2, TabStepKeeps DEF Report, TabStep
  <2> QED
    BY <2>1, ReturningStays DEF Returning, OpenWindows
<1>3. CASE ReadHandle(t)
  <2>1. tabCall[t].step = "handle" /\ tabs' = tabs /\ focus' = focus /\ OthersStay(t)
    BY <1>3, TabStepKeeps DEF ReadHandle, TabStep
  <2> QED
    BY <2>1, ReturningStays DEF Returning, OpenWindows
<1>4. CASE Shut(t)
  <2>1. tabCall[t].step = "shut" /\ focus' = focus /\ OthersStay(t)
    BY <1>4, TabStepKeeps DEF Shut, TabStep
  <2>2. CASE FocusTo(t, "left")
    BY <2>2, FocusToEffect DEF CloserReturns, Returning, TabMoves
  <2>3. CASE UNCHANGED tabs
    BY <2>1, <2>3, ReturningStays DEF Returning, OpenWindows
  <2> QED
    BY <1>4, <2>2, <2>3 DEF Shut, CloseFocused
<1>5. CASE ReadLeft(t)
  <2>1. tabs' = tabs
    BY <1>5 DEF ReadLeft
  <2>2. CASE tabs = <<>>
    BY <2>1, <2>2 DEF CloserReturns
  <2>3. CASE tabs # <<>>
    <3>1. tabCall'[t].handles = tabs /\ TabMoves(t, "refocus")
      BY <1>5, <2>3, ReadLeftEffect
    <3>2. tabs[1] \in OpenWindows'
      BY <2>1, <2>3 DEF OpenWindows, FocusTypeOK
    <3>3. Returning(t)'
      BY <2>3, <3>1, <3>2 DEF Returning, TabMoves
    <3> QED
      BY <3>3 DEF CloserReturns
  <2> QED
    BY <2>2, <2>3
<1>6. CASE Refocus(t)
  <2>1. tabCall[t].step = "refocus" /\ tabs' = tabs /\ \E step : SwitchTo(t, tabCall[t].handles[1], step)
    BY <1>6 DEF Refocus
  <2>2. tabCall[t].handles[1] \notin OpenWindows => ~Returning(t)
    BY <2>1 DEF Returning
  <2> QED
    BY <2>1, <2>2, SwitchKeepsCloser
<1>7. CASE OpenTab(t)
  <2>1. tabCall[t].step = "open" /\ focus' = focus /\ OthersStay(t)
    BY <1>7, TabStepKeeps DEF OpenTab, TabStep
  <2>2. CASE Focused
    <3>1. OpenWindows \subseteq OpenWindows'
      BY <1>7, <2>2, OpensKeep DEF OpenTab
    <3> QED
      BY <2>1, <2>2, <3>1 DEF CloserReturns, Focused
  <2>3. CASE ~Focused
    BY <1>7, <2>1, <2>3, ReturningStays DEF OpenTab, Returning, OpenWindows
  <2> QED
    BY <2>2, <2>3
<1>8. CASE EnterTab(t)
  <2>1. tabCall[t].step = "enter" /\ tabs' = tabs /\ \E step : SwitchTo(t, tabCall[t].current, step)
    BY <1>8 DEF EnterTab
  <2>2. tabCall[t].current \notin OpenWindows => ~Returning(t)
    BY <2>1 DEF Returning
  <2> QED
    BY <2>1, <2>2, SwitchKeepsCloser
<1>9. CASE Choose(t)
  <2>1. tabCall[t].step = "choose" /\ tabs' = tabs /\ focus' = focus /\ OthersStay(t)
    BY <1>9, TabStepKeeps DEF Choose, TabStep
  <2> QED
    BY <2>1, ReturningStays DEF Returning, OpenWindows
<1>10. CASE Chosen(t)
  <2>1. tabCall[t].step = "chosen" /\ tabs' = tabs /\ \E step : SwitchTo(t, tabCall[t].handles[tabCall[t].index], step)
    BY <1>10 DEF Chosen
  <2>2. tabCall[t].handles[tabCall[t].index] \notin OpenWindows => ~Returning(t)
    BY <2>1 DEF Returning
  <2> QED
    BY <2>1, <2>2, SwitchKeepsCloser
<1>11. CASE ListHandles(t)
  <2>1. tabCall[t].step = "list" /\ tabs' = tabs /\ focus' = focus /\ OthersStay(t)
    BY <1>11, TabStepKeeps DEF ListHandles, TabStep
  <2> QED
    BY <2>1, ReturningStays DEF Returning, OpenWindows
<1>12. CASE ListCurrent(t)
  <2>1. tabCall[t].step = "current" /\ tabs' = tabs /\ focus' = focus /\ OthersStay(t)
    BY <1>12, TabStepKeeps DEF ListCurrent, TabStep
  <2> QED
    BY <2>1, ReturningStays DEF Returning, OpenWindows
<1>13. CASE Visit(t)
  <2>1. tabCall[t].step = "visit" /\ tabs' = tabs /\ \E step : SwitchTo(t, tabCall[t].handles[tabCall[t].next], step)
    BY <1>13 DEF Visit
  <2>2. tabCall[t].handles[tabCall[t].next] \notin OpenWindows => ~Returning(t)
    BY <2>1 DEF Returning
  <2> QED
    BY <2>1, <2>2, SwitchKeepsCloser
<1>14. CASE Describe(t)
  <2>1. tabCall[t].step = "describe" /\ tabs' = tabs /\ focus' = focus /\ OthersStay(t)
    BY <1>14, TabStepKeeps DEF Describe, TabStep
  <2> QED
    BY <2>1, ReturningStays DEF Returning, OpenWindows
<1>15. CASE GoBack(t)
  <2>1. tabCall[t].step = "visit" /\ tabs' = tabs
    BY <1>15 DEF GoBack, ListedAll
  <2>2. ~Returning(t)
    BY <2>1 DEF Returning
  <2>3. CASE SwitchTo(t, tabCall[t].current, "done")
    BY <2>1, <2>2, <2>3, SwitchKeepsCloser
  <2>4. CASE focus' = focus
    BY <1>15, <2>1, <2>2, <2>4, TabStepKeeps, ReturningStays
       DEF TabStep, OpenWindows
  <2> QED
    BY <1>15, <2>3, <2>4 DEF GoBack
<1>16. CASE SelectFrame(t)
  <2>1. tabCall[t].step = "frame" /\ tabs' = tabs /\ focus' = focus /\ OthersStay(t)
    BY <1>16, TabStepKeeps DEF SelectFrame, TabStep
  <2> QED
    BY <2>1, ReturningStays DEF Returning, OpenWindows
<1>17. CASE LeaveFrame(t)
  <2>1. tabCall[t].step = "unframe" /\ tabs' = tabs /\ focus' = focus /\ OthersStay(t)
    BY <1>17, TabStepKeeps DEF LeaveFrame, TabStep
  <2> QED
    BY <2>1, ReturningStays DEF Returning, OpenWindows
<1> QED
  BY <1>1, <1>2, <1>3, <1>4, <1>5, <1>6, <1>7, <1>8, <1>9, <1>10, <1>11, <1>12,
     <1>13, <1>14, <1>15, <1>16, <1>17
     DEF TabStep

\* Every step keeps CloserReturns.
LEMMA CloserReturnsStep ==
    ASSUME FocusTypeOK, CloserReturns, FocusNext
    PROVE  CloserReturns'
<1>1. tabCall \in [Threads -> TabCalls]
  BY DEF FocusTypeOK
<1>2. ASSUME NEW t \in Threads, NEW tool \in Tabbing, NEW index \in 0..MaxWindows,
             FocusBegin(t, tool, index)
      PROVE  CloserReturns'
  <2>1. ~Returning(t) /\ tabs' = tabs /\ focus' = focus
    BY <1>2 DEF FocusBegin, Busy, Returning
  <2>2. ASSUME NEW u \in Threads, u # t
        PROVE  tabCall'[u].step = tabCall[u].step /\ tabCall'[u].handles = tabCall[u].handles
    BY <1>1, <1>2, <2>2 DEF FocusBegin, TabCalls
  <2>3. \A u \in Threads \ {t} : Returning(u) => Returning(u)'
    BY <2>1, <2>2 DEF Returning, OpenWindows
  <2> QED
    BY <2>1, <2>3 DEF CloserReturns, Focused, OpenWindows
<1>3. ASSUME NEW t \in Threads, FocusReturn(t)
      PROVE  CloserReturns'
  <2>1. ~Returning(t) /\ tabs' = tabs /\ focus' = focus
    BY <1>3 DEF FocusReturn, Returning
  <2>2. \A u \in Threads \ {t} : tabCall'[u] = tabCall[u]
    BY <1>1, <1>3 DEF FocusReturn
  <2>3. \A u \in Threads \ {t} : Returning(u) => Returning(u)'
    BY <2>1, <2>2 DEF Returning, OpenWindows
  <2> QED
    BY <2>1, <2>3 DEF CloserReturns, Focused, OpenWindows
<1>4. ASSUME NEW t \in Threads, TabStep(t)
      PROVE  CloserReturns'
  BY <1>4, CloserReturnsOwn
<1>5. CASE PageOpens
  <2>1. OpenWindows \subseteq OpenWindows' /\ tabs # <<>> /\ focus' = focus /\ tabCall' = tabCall
    BY <1>5, OpensKeep DEF PageOpens
  <2>2. \A u \in Threads : Returning(u) => Returning(u)'
    BY <2>1 DEF Returning
  <2> QED
    BY <2>1, <2>2 DEF CloserReturns, Focused
<1> QED
  BY <1>2, <1>3, <1>4, <1>5 DEF FocusNext, TabStep

\* A call that is alone finds the focus on a window, unless it has itself just closed one.
LEMMA LoneHasFocus ==
    ASSUME LoneIsAlone, CloserReturns, NEW t \in Threads, tabCall[t].alone, tabs # <<>>,
           tabCall[t].step \notin {"left", "refocus"}
    PROVE  Focused
<1>1. \A u \in Threads : ~Returning(u)
  BY DEF LoneIsAlone, Returning
<1> QED
  BY <1>1 DEF CloserReturns

\* No window is NoWindow.
LEMMA WindowsAreSome ==
    ASSUME FocusTypeOK
    PROVE  /\ tabs = <<>> <=> OpenWindows = {}
           /\ \A w \in OpenWindows : w # NoWindow
           /\ focus # NoWindow
<1>1. \A w \in Windows : w # NoWindow
  BY TabBoundsAssumption DEF Windows, NoWindow
<1>2. tabs \in Seq(Windows) /\ focus \in Windows
  BY DEF FocusTypeOK
<1>3. OpenWindows \subseteq Windows
  BY <1>2 DEF OpenWindows
<1>4. tabs # <<>> => tabs[1] \in OpenWindows
  BY <1>2 DEF OpenWindows
<1>5. tabs = <<>> => OpenWindows = {}
  BY DEF OpenWindows
<1> QED
  BY <1>1, <1>2, <1>3, <1>4, <1>5

\* A call that is alone knows what it knew, and what it has read.
LEMMA KnowsOwn ==
    ASSUME FocusTypeOK, NEW t \in Threads, TabStep(t), CallsFit, LoneIsAlone, CloserReturns, tabCall[t].alone, KnowsTabs(t)
    PROVE  KnowsTabs(t)'
<1> USE DEF CallsFit
<1>1. CASE Go(t)
  <2>1. tabCall[t].step = "go" /\ OthersStay(t)
    BY <1>1, TabStepKeeps DEF Go, TabStep
  <2>2. tabs' = tabs /\ focus' = focus
    BY <1>1 DEF Go
  <2>3. CASE Focused
    BY <1>1, <2>1, <2>2, <2>3, GoEffect DEF KnowsFocus, KnowsWindow, KnowsAnswer,
                                            KnowsTabs, TabMoves, TabRaises,
                                            OthersStay, LocalsStay, CallFits
  <2>4. CASE ~Focused
    BY <1>1, <2>1, <2>2, <2>4, GoEffect DEF KnowsFocus, KnowsWindow, KnowsAnswer,
                                            KnowsTabs, TabMoves, TabRaises,
                                            OthersStay, LocalsStay, CallFits
  <2> QED
    BY <2>3, <2>4
<1>2. CASE Report(t)
  <2>1. tabCall[t].step = "report" /\ OthersStay(t)
    BY <1>2, TabStepKeeps DEF Report, TabStep
  <2>2. tabs' = tabs /\ focus' = focus
    BY <1>2 DEF Report
  <2>3. CASE Focused /\ FocusTo(t, "done")
    <3>1. tabs # <<>>
      BY <2>3, WindowsAreSome DEF Focused
    <3>2. LocalsStay(t) /\ TabMoves(t, "done")
      BY <2>3, FocusToEffect
    <3> QED
      BY <2>1, <2>2, <3>1, <3>2, WindowsAreSome DEF KnowsFocus, KnowsWindow,
                                                    KnowsAnswer, KnowsTabs,
                                                    TabMoves, TabRaises, OthersStay,
                                                    LocalsStay, CallFits
  <2>4. CASE FocusRaise(t)
    BY <2>1, <2>2, <2>4, FocusRaiseEffect DEF KnowsFocus, KnowsWindow, KnowsAnswer,
                                              KnowsTabs, TabMoves, TabRaises,
                                              OthersStay, LocalsStay, CallFits
  <2> QED
    BY <1>2, <2>3, <2>4 DEF Report
<1>3. CASE ReadHandle(t)
  <2>1. tabCall[t].step = "handle" /\ OthersStay(t)
    BY <1>3, TabStepKeeps DEF ReadHandle, TabStep
  <2>2. TabRaises(t) \/ TabMoves(t, "shut")
    BY <1>3, ReadHandleEffect DEF ReadHandle
  <2> QED
    BY <2>1, <2>2 DEF KnowsFocus, KnowsWindow, KnowsAnswer, KnowsTabs, TabMoves,
                      TabRaises, OthersStay, CallFits
<1>4. CASE Shut(t)
  <2>1. tabCall[t].step = "shut" /\ OthersStay(t)
    BY <1>4, TabStepKeeps DEF Shut, CloseFocused, TabStep
  <2>2. TabRaises(t) \/ TabMoves(t, "left")
    BY <1>4, FocusToEffect, FocusRaiseEffect DEF Shut, CloseFocused
  <2> QED
    BY <2>1, <2>2 DEF KnowsFocus, KnowsWindow, KnowsAnswer, KnowsTabs, TabMoves,
                      TabRaises, OthersStay, CallFits
<1>5. CASE ReadLeft(t)
  <2>1. tabCall[t].step = "left" /\ OthersStay(t)
    BY <1>5, TabStepKeeps DEF ReadLeft, TabStep
  <2>2. TabRaises(t) \/ TabMoves(t, "refocus") \/ TabMoves(t, AfterClose(t))
    BY <1>5, ReadLeftEffect DEF ReadLeft
  <2> QED
    BY <2>1, <2>2 DEF KnowsFocus, KnowsWindow, KnowsAnswer, KnowsTabs, TabMoves,
                      TabRaises, OthersStay, CallFits, AfterClose
<1>6. CASE Refocus(t)
  <2>1. tabCall[t].step = "refocus" /\ OthersStay(t)
    BY <1>6, TabStepKeeps DEF Refocus, TabStep
  <2>2. TabRaises(t) \/ TabMoves(t, AfterClose(t))
    BY <1>6, SwitchToEffect DEF Refocus
  <2> QED
    BY <2>1, <2>2 DEF KnowsFocus, KnowsWindow, KnowsAnswer, KnowsTabs, TabMoves,
                      TabRaises, OthersStay, CallFits, AfterClose
<1>7. CASE OpenTab(t)
  <2>1. tabCall[t].step = "open" /\ OthersStay(t)
    BY <1>7, TabStepKeeps DEF OpenTab, TabStep
  <2>2. TabRaises(t) \/ TabMoves(t, "enter")
    BY <1>7, OpenTabEffect DEF OpenTab
  <2> QED
    BY <2>1, <2>2 DEF KnowsFocus, KnowsWindow, KnowsAnswer, KnowsTabs, TabMoves,
                      TabRaises, OthersStay, CallFits
<1>8. CASE EnterTab(t)
  <2>1. tabCall[t].step = "enter" /\ OthersStay(t)
    BY <1>8, TabStepKeeps DEF EnterTab, TabStep
  <2>2. TabRaises(t) \/ TabMoves(t, "go") \/ TabMoves(t, "list")
    BY <1>8, SwitchToEffect DEF EnterTab
  <2> QED
    BY <2>1, <2>2 DEF KnowsFocus, KnowsWindow, KnowsAnswer, KnowsTabs, TabMoves,
                      TabRaises, OthersStay, CallFits
<1>9. CASE Choose(t)
  <2>1. tabCall[t].step = "choose" /\ OthersStay(t)
    BY <1>9, TabStepKeeps DEF Choose, TabStep
  <2>2. tabs' = tabs /\ focus' = focus
    BY <1>9 DEF Choose
  <2>3. CASE tabCall[t].index > Len(tabs)
    BY <1>9, <2>1, <2>3, ChooseEffect DEF KnowsFocus, KnowsWindow, KnowsAnswer,
                                          KnowsTabs, TabMoves, TabRaises,
                                          OthersStay, LocalsStay, CallFits
  <2>4. CASE ~(tabCall[t].index > Len(tabs))
    <3>1. tabCall'[t].handles = tabs /\ TabMoves(t, IF tabCall[t].index = 0 THEN "shut" ELSE "chosen")
      BY <1>9, <2>4, ChooseEffect
    <3>2. tabCall[t].index # 0 => tabCall[t].index \in DOMAIN tabs
      <4>1. tabCall[t].index \in 0..MaxWindows /\ tabs \in Seq(Windows)
        BY DEF FocusTypeOK, TabCalls
      <4> QED
        BY <2>4, <4>1, TabBoundsAssumption
    <3> QED
      BY <2>1, <2>2, <3>1, <3>2 DEF KnowsFocus, KnowsWindow, KnowsAnswer, KnowsTabs,
                                    TabMoves, TabRaises, OthersStay, LocalsStay,
                                    CallFits
  <2> QED
    BY <2>3, <2>4
<1>10. CASE Chosen(t)
  <2>1. tabCall[t].step = "chosen" /\ OthersStay(t)
    BY <1>10, TabStepKeeps DEF Chosen, TabStep
  <2>2. tabs' = tabs
    BY <1>10 DEF Chosen
  <2>3. CASE TabRaises(t)
    BY <2>1, <2>3 DEF KnowsFocus, KnowsWindow, KnowsAnswer, KnowsTabs, TabMoves,
                      TabRaises, OthersStay, LocalsStay, CallFits
  <2>4. CASE /\ focus' = tabCall[t].handles[tabCall[t].index] /\ LocalsStay(t)
             /\ TabMoves(t, IF tabCall[t].tool = "select" THEN "list" ELSE "shut")
    BY <2>1, <2>2, <2>4 DEF KnowsFocus, KnowsWindow, KnowsAnswer, KnowsTabs,
                            TabMoves, TabRaises, OthersStay, LocalsStay, CallFits
  <2> QED
    BY <1>10, <2>3, <2>4, SwitchToEffect DEF Chosen
<1>11. CASE ListHandles(t)
  <2>1. tabCall[t].step = "list" /\ OthersStay(t)
    BY <1>11, TabStepKeeps DEF ListHandles, TabStep
  <2>2. tabs' = tabs /\ focus' = focus
    BY <1>11 DEF ListHandles
  <2>3. /\ tabCall'[t].handles = tabs /\ tabCall'[t].current = NoWindow
        /\ TabMoves(t, IF tabs = <<>> THEN "done" ELSE "current")
    BY <1>11, ListHandlesEffect
  <2>4. CASE tabs = <<>>
    <3>1. DOMAIN tabs = {}
      BY <2>4
    <3> QED
      BY <2>1, <2>2, <2>3, <2>4, <3>1 DEF KnowsFocus, KnowsWindow, KnowsAnswer,
                                          KnowsTabs, TabMoves, TabRaises,
                                          OthersStay, LocalsStay, CallFits
  <2>5. CASE tabs # <<>>
    <3>1. \E i \in DOMAIN tabs : tabs[i] = focus
      BY <2>1, <2>5, LoneHasFocus DEF Focused, OpenWindows
    <3> QED
      BY <2>1, <2>2, <2>3, <2>5, <3>1 DEF KnowsFocus, KnowsWindow, KnowsAnswer,
                                          KnowsTabs, TabMoves, TabRaises,
                                          OthersStay, LocalsStay, CallFits
  <2> QED
    BY <2>4, <2>5
<1>12. CASE ListCurrent(t)
  <2>1. tabCall[t].step = "current" /\ OthersStay(t)
    BY <1>12, TabStepKeeps DEF ListCurrent, TabStep
  <2>2. tabs' = tabs /\ focus' = focus
    BY <1>12 DEF ListCurrent
  <2>3. OpenWindows' = OpenWindows
    BY <2>2 DEF OpenWindows
  <2>4. CASE Focused
    <3>1. tabCall'[t].handles = tabCall[t].handles /\ tabCall'[t].current = focus /\ TabMoves(t, "visit")
      BY <1>12, <2>4, ListCurrentEffect
    <3>2. KnownWindow(t)'
      BY <2>1, <3>1 DEF KnownWindow, KnowsTabs, KnowsWindow
    <3> QED
      BY <2>1, <2>2, <2>3, <2>4, <3>1, <3>2 DEF KnowsFocus, KnowsWindow,
                                                KnowsAnswer, KnowsTabs, TabMoves,
                                                TabRaises, OthersStay, LocalsStay,
                                                CallFits, Focused
  <2>5. CASE ~Focused
    BY <1>12, <2>1, <2>5, ListCurrentEffect DEF KnowsFocus, KnowsWindow,
                                                KnowsAnswer, KnowsTabs, TabMoves,
                                                TabRaises, OthersStay, LocalsStay,
                                                CallFits
  <2> QED
    BY <2>4, <2>5
<1>13. CASE Visit(t)
  <2>1. tabCall[t].step = "visit" /\ OthersStay(t)
    BY <1>13, TabStepKeeps DEF Visit, TabStep
  <2>2. tabs' = tabs
    BY <1>13 DEF Visit
  <2>3. OpenWindows' = OpenWindows
    BY <2>2 DEF OpenWindows
  <2>4. CASE TabRaises(t)
    BY <2>1, <2>4 DEF KnowsFocus, KnowsWindow, KnowsAnswer, KnowsTabs, TabMoves,
                      TabRaises, OthersStay, LocalsStay, CallFits
  <2>5. CASE LocalsStay(t) /\ TabMoves(t, "describe")
    <3>1. KnownWindow(t) => KnownWindow(t)'
      BY <2>5 DEF KnownWindow, LocalsStay
    <3> QED
      BY <2>1, <2>3, <2>5, <3>1 DEF KnowsFocus, KnowsWindow, KnowsAnswer, KnowsTabs,
                                    TabMoves, TabRaises, OthersStay, LocalsStay,
                                    CallFits
  <2> QED
    BY <1>13, <2>4, <2>5, SwitchToEffect DEF Visit
<1>14. CASE Describe(t)
  <2>1. tabCall[t].step = "describe" /\ OthersStay(t)
    BY <1>14, TabStepKeeps DEF Describe, TabStep
  <2>2. tabs' = tabs
    BY <1>14 DEF Describe
  <2>3. OpenWindows' = OpenWindows
    BY <2>2 DEF OpenWindows
  <2>4. CASE TabRaises(t)
    BY <2>1, <2>4 DEF KnowsFocus, KnowsWindow, KnowsAnswer, KnowsTabs, TabMoves,
                      TabRaises, OthersStay, LocalsStay, CallFits
  <2>5. CASE LocalsStay(t) /\ TabMoves(t, "visit")
    <3>1. KnownWindow(t) => KnownWindow(t)'
      BY <2>5 DEF KnownWindow, LocalsStay
    <3> QED
      BY <2>1, <2>3, <2>5, <3>1 DEF KnowsFocus, KnowsWindow, KnowsAnswer, KnowsTabs,
                                    TabMoves, TabRaises, OthersStay, LocalsStay,
                                    CallFits
  <2> QED
    BY <1>14, <2>4, <2>5, DescribeEffect DEF Describe
<1>15. CASE GoBack(t)
  <2>1. tabCall[t].step = "visit" /\ OthersStay(t)
    BY <1>15, TabStepKeeps DEF GoBack, ListedAll, TabStep
  <2>2. tabs' = tabs
    BY <1>15 DEF GoBack
  <2>3. KnownWindow(t) /\ tabCall[t].current \in OpenWindows
    BY <2>1 DEF KnowsTabs, KnowsWindow
  <2>4. focus' = tabCall[t].current /\ LocalsStay(t) /\ TabMoves(t, "done")
    BY <1>15, <2>3, SwitchToEffect DEF GoBack
  <2>5. tabs # <<>> /\ tabCall[t].current # NoWindow
    BY <2>3, WindowsAreSome
  <2> QED
    BY <2>1, <2>2, <2>3, <2>4, <2>5 DEF KnowsFocus, KnowsWindow, KnowsAnswer,
                                        KnowsTabs, TabMoves, TabRaises, OthersStay,
                                        LocalsStay, CallFits
<1>16. CASE SelectFrame(t)
  <2>1. tabCall[t].step = "frame" /\ OthersStay(t)
    BY <1>16, TabStepKeeps DEF SelectFrame, TabStep
  <2>2. TabRaises(t) \/ TabMoves(t, "done")
    BY <1>16, FocusToEffect, FocusRaiseEffect DEF SelectFrame
  <2> QED
    BY <2>1, <2>2 DEF KnowsFocus, KnowsWindow, KnowsAnswer, KnowsTabs, TabMoves,
                      TabRaises, OthersStay, CallFits
<1>17. CASE LeaveFrame(t)
  <2>1. tabCall[t].step = "unframe" /\ OthersStay(t)
    BY <1>17, TabStepKeeps DEF LeaveFrame, TabStep
  <2>2. TabRaises(t) \/ TabMoves(t, "done")
    BY <1>17, FocusToEffect, FocusRaiseEffect DEF LeaveFrame
  <2> QED
    BY <2>1, <2>2 DEF KnowsFocus, KnowsWindow, KnowsAnswer, KnowsTabs, TabMoves,
                      TabRaises, OthersStay, CallFits
<1> QED
  BY <1>1, <1>2, <1>3, <1>4, <1>5, <1>6, <1>7, <1>8, <1>9, <1>10, <1>11, <1>12,
     <1>13, <1>14, <1>15, <1>16, <1>17
     DEF TabStep

\* What nobody changes is known still.
LEMMA KnowsStays ==
    ASSUME NEW t \in Threads, KnowsTabs(t), tabCall'[t] = tabCall[t], focus' = focus, tabs' = tabs
    PROVE  KnowsTabs(t)'
BY DEF KnowsTabs, KnowsFocus, KnowsWindow, KnowsAnswer, KnownWindow, OpenWindows

\* Every step keeps LoneKnows.
LEMMA LoneKnowsStep ==
    ASSUME FocusTypeOK, CallsFit, LoneIsAlone, CloserReturns, LoneKnows, FocusNext
    PROVE  LoneKnows'
<1>1. tabCall \in [Threads -> TabCalls]
  BY DEF FocusTypeOK
<1>2. ASSUME NEW t \in Threads, NEW tool \in Tabbing, NEW index \in 0..MaxWindows,
             FocusBegin(t, tool, index)
      PROVE  LoneKnows'
  <2>1. focus' = focus /\ tool \in TabTools /\ tabCall'[t].tool = tool
        /\ tabCall'[t].step = FirstStep(tool) /\ tabCall'[t].before = focus
    BY <1>2, TabbingAssumption DEF FocusBegin, NoTool
  <2>2. FirstStep(tool) \in {"go", "handle", "open", "choose", "list", "frame", "unframe"}
    BY <2>1 DEF FirstStep, TabTools
  <2>3. tool = "select" => FirstStep(tool) # "list"
    BY DEF FirstStep
  <2>4. KnowsTabs(t)'
    BY <2>1, <2>2, <2>3 DEF KnowsTabs, KnowsFocus, KnowsWindow, KnowsAnswer
  <2>5. \A u \in Threads \ {t} : tabCall'[u].alone = FALSE
    BY <1>1, <1>2 DEF FocusBegin, TabCalls
  <2> QED
    BY <2>4, <2>5 DEF LoneKnows
<1>3. ASSUME NEW t \in Threads, FocusReturn(t)
      PROVE  LoneKnows'
  <2>1. focus' = focus /\ tabs' = tabs
    BY <1>3 DEF FocusReturn
  <2>2. \A u \in Threads : tabCall'[u] = IF u = t THEN NoTool ELSE tabCall[u]
    BY <1>1, <1>3 DEF FocusReturn
  <2> QED
    BY <2>1, <2>2, KnowsStays DEF LoneKnows, NoTool
<1>4. ASSUME NEW t \in Threads, TabStep(t)
      PROVE  LoneKnows'
  <2>1. OthersStay(t) /\ tabCall[t].step # "idle"
    BY <1>4, TabStepKeeps
  <2>2. \A u \in Threads \ {t} : ~tabCall'[u].alone
    BY <2>1 DEF OthersStay, LoneIsAlone
  <2>3. tabCall'[t].alone => KnowsTabs(t)'
    BY <1>4, <2>1, KnowsOwn DEF LoneKnows, OthersStay
  <2> QED
    BY <2>2, <2>3 DEF LoneKnows
<1>5. CASE PageOpens
  <2>1. /\ focus' = focus /\ tabCall' = tabCall /\ tabs # <<>> /\ tabs' # <<>>
        /\ OpenWindows \subseteq OpenWindows'
    BY <1>5, OpensKeep DEF PageOpens
  <2>2. \A i \in DOMAIN tabs : i \in DOMAIN tabs' /\ tabs'[i] = tabs[i]
    BY <1>5, TabAppended DEF PageOpens
  <2>3. ASSUME NEW t \in Threads, KnowsTabs(t)
        PROVE  KnowsTabs(t)'
    <3>1. KnowsFocus(t)'
      BY <2>1, <2>2, <2>3 DEF KnowsTabs, KnowsFocus
    <3>2. KnowsWindow(t)'
      BY <2>1, <2>3 DEF KnowsTabs, KnowsWindow, KnownWindow
    <3>3. KnowsAnswer(t)'
      BY <2>1, <2>3 DEF KnowsTabs, KnowsAnswer
    <3> QED
      BY <3>1, <3>2, <3>3 DEF KnowsTabs
  <2> QED
    BY <2>1, <2>3 DEF LoneKnows
<1> QED
  BY <1>2, <1>3, <1>4, <1>5 DEF FocusNext, TabStep

\* The focus is true: FocusIsTrue follows from the invariant.
LEMMA FocusKept ==
    FocusInit /\ [][FocusNext]_focusVars => [](FocusTypeOK /\ FocusIsTrue)
<1>1. FocusInit => FocusInv
  <2> SUFFICES ASSUME FocusInit PROVE FocusInv
    OBVIOUS
  <2>1. 1 \in Windows /\ 0 \in 0..MaxTabCalls
    BY TabBoundsAssumption DEF Windows
  <2>2. tabs \in Seq(Windows) /\ DOMAIN tabs = {1} /\ tabs[1] = 1
    BY <2>1 DEF FocusInit
  <2>3. FocusTypeOK
    <3>1. /\ focus \in Windows /\ givenOut \in Windows /\ inFrame \in BOOLEAN
          /\ tabCalls \in 0..MaxTabCalls
      BY <2>1 DEF FocusInit
    <3>2. tabs[1] <= givenOut
      BY <2>2 DEF FocusInit
    <3>3. tabCall \in [Threads -> TabCalls]
      BY NoToolTyped DEF FocusInit
    <3> QED
      BY <2>2, <3>1, <3>2, <3>3 DEF FocusTypeOK
  <2>4. \A t \in Threads : tabCall[t] = NoTool
    BY DEF FocusInit
  <2>5. CallsFit /\ LoneIsAlone /\ LoneKnows
    BY <2>4 DEF CallsFit, CallFits, LoneIsAlone, LoneKnows, NoTool
  <2>6. Focused
    BY <2>2 DEF FocusInit, Focused, OpenWindows
  <2> QED
    BY <2>3, <2>5, <2>6 DEF FocusInv, CloserReturns
<1>2. FocusInv /\ [FocusNext]_focusVars => FocusInv'
  <2> SUFFICES ASSUME FocusInv, [FocusNext]_focusVars PROVE FocusInv'
    OBVIOUS
  <2>1. CASE FocusNext
    BY <2>1, FocusTyped, CallsFitStep, LoneIsAloneStep, CloserReturnsStep,
       LoneKnowsStep
       DEF FocusInv
  <2>2. CASE UNCHANGED focusVars
    <3>1. UNCHANGED <<tabs, focus, inFrame, givenOut, tabCall, tabCalls>>
      BY <2>2 DEF focusVars
    <3>2. FocusTypeOK' /\ CallsFit' /\ LoneIsAlone'
      BY <3>1 DEF FocusInv, FocusTypeOK, CallsFit, LoneIsAlone
    <3>3. CloserReturns'
      BY <3>1 DEF FocusInv, CloserReturns, Returning, Focused, OpenWindows
    <3>4. LoneKnows'
      BY <3>1, KnowsStays DEF FocusInv, LoneKnows
    <3> QED
      BY <3>2, <3>3, <3>4 DEF FocusInv
  <2> QED
    BY <2>1, <2>2
<1>3. FocusInv => FocusTypeOK /\ FocusIsTrue
  <2> SUFFICES ASSUME FocusInv PROVE FocusSettles /\ LoneAnswerIsFocus
    BY DEF FocusInv, FocusIsTrue
  <2>1. FocusSettles
    BY DEF FocusInv, CloserReturns, Returning, FocusSettles, Busy
  <2>2. LoneAnswerIsFocus
    BY DEF FocusInv, LoneKnows, KnowsTabs, KnowsAnswer, LoneAnswerIsFocus
  <2> QED
    BY <2>1, <2>2
<1> QED
  BY <1>1, <1>2, <1>3, PTL

-----------------------------------------------------------------------------
(* ScriptContext: scripts, their context, timeout and stdout               *)

\* The calls of script tools.
ScriptCalls ==
    [tool : ScriptTools \cup {"none"}, step : {"idle", "timeout", "enter", "run", "leave", "done"},
     timeout : Timeouts \cup {0}, ran : {"none", "content", "chrome", "server"},
     saved : Threads \cup {Process}]

\* A call that has replaced stdout is the only one, and keeps the process's.
LoneStdout ==
    ~nested =>
       /\ (\A t \in Threads : ~InPython(t)) => stdout = Process
       /\ \A t \in Threads : InPython(t) => script[t].saved = Process
       /\ \A t, u \in Threads : InPython(t) /\ InPython(u) => t = u

\* Only browser_evaluate_async sets a timeout.
TimeoutIsAsync ==
    \A t \in Threads : script[t].step = "timeout" => script[t].tool = "async"

\* The inductive invariant of scripts.
ScriptInv == ScriptTypeOK /\ TimeoutIsAsync /\ ContextComesBack /\ LoneStdout

\* The types stay when one call changes.
LEMMA ScriptCallTyped ==
    ASSUME ScriptTypeOK, NEW t \in Threads, NEW call \in ScriptCalls,
           script' = [script EXCEPT ![t] = call],
           context' \in {"content", "chrome"}, scriptTimeout' \in Timeouts \cup {0},
           stdout' \in Threads \cup {Process}, nested' \in BOOLEAN, scripts' \in 0..MaxScripts
    PROVE  ScriptTypeOK'
BY DEF ScriptTypeOK, ScriptCalls

\* Every step keeps the types.
LEMMA ScriptTyped ==
    ASSUME ScriptTypeOK, ScriptNext
    PROVE  ScriptTypeOK'
<1>1. ASSUME NEW t \in Threads, NEW tool \in Scripting, NEW timeout \in Timeouts \cup {0}, ScriptBegin(t, tool, timeout)
      PROVE  ScriptTypeOK'
  <2> DEFINE call == [NoScript EXCEPT !.tool = tool, !.step = Entry(tool), !.timeout = timeout]
  <2>1. Entry(tool) \in {"run", "timeout", "enter"}
    BY DEF Entry
  <2>2. NoScript \in ScriptCalls
    BY DEF NoScript, ScriptCalls
  <2>3. tool \in ScriptTools
    BY ScriptingAssumption
  <2>4. call \in ScriptCalls
    BY <2>1, <2>2, <2>3 DEF ScriptCalls
  <2>5. scripts' \in 0..MaxScripts
    BY <1>1, MaxScriptsAssumption DEF ScriptBegin, ScriptTypeOK
  <2>6. script' = [script EXCEPT ![t] = call]
    BY <1>1 DEF ScriptBegin
  <2>7. UNCHANGED <<context, scriptTimeout, stdout, nested>>
    BY <1>1 DEF ScriptBegin
  <2> HIDE DEF call
  <2> QED
    BY <2>4, <2>5, <2>6, <2>7, ScriptCallTyped DEF ScriptTypeOK
<1>2. ASSUME NEW t \in Threads, ScriptReturn(t)
      PROVE  ScriptTypeOK'
  BY <1>2 DEF ScriptTypeOK, ScriptTools, NoScript, ScriptTo, ScriptReturn
<1>3. ASSUME NEW t \in Threads, SetTimeout(t)
      PROVE  ScriptTypeOK'
  BY <1>3 DEF ScriptTypeOK, ScriptTools, NoScript, ScriptTo, SetTimeout
<1>4. ASSUME NEW t \in Threads, EnterChrome(t)
      PROVE  ScriptTypeOK'
  BY <1>4 DEF ScriptTypeOK, ScriptTools, NoScript, ScriptTo, EnterChrome
<1>5. ASSUME NEW t \in Threads, RedirectStdout(t)
      PROVE  ScriptTypeOK'
  <2> DEFINE call == [script[t] EXCEPT !.step = "run", !.saved = stdout]
  <2>1. call \in ScriptCalls
    BY DEF ScriptTypeOK, ScriptCalls
  <2>2. script' = [script EXCEPT ![t] = call]
    BY <1>5 DEF RedirectStdout, ScriptTypeOK
  <2>3. nested' \in BOOLEAN /\ stdout' \in Threads \cup {Process}
    BY <1>5 DEF RedirectStdout, ScriptTypeOK
  <2> HIDE DEF call
  <2> QED
    BY <1>5, <2>1, <2>2, <2>3, ScriptCallTyped DEF RedirectStdout, ScriptTypeOK
<1>6. ASSUME NEW t \in Threads, Run(t)
      PROVE  ScriptTypeOK'
  <2> DEFINE ran == IF script[t].tool = "python" THEN "server" ELSE context
             call == [script[t] EXCEPT !.step = AfterRun(t), !.ran = ran]
  <2>1. AfterRun(t) \in {"leave", "done"} /\ ran \in {"content", "chrome", "server"}
    BY DEF AfterRun, ScriptTypeOK
  <2>2. call \in ScriptCalls
    BY <2>1 DEF ScriptTypeOK, ScriptCalls
  <2>3. script' = [script EXCEPT ![t] = call]
    BY <1>6 DEF Run, ScriptTypeOK
  <2> HIDE DEF call
  <2> QED
    BY <1>6, <2>2, <2>3, ScriptCallTyped DEF Run, ScriptTypeOK
<1>7. ASSUME NEW t \in Threads, LeaveChrome(t)
      PROVE  ScriptTypeOK'
  BY <1>7 DEF ScriptTypeOK, ScriptTools, NoScript, ScriptTo, LeaveChrome
<1>8. ASSUME NEW t \in Threads, RestoreStdout(t)
      PROVE  ScriptTypeOK'
  BY <1>8 DEF ScriptTypeOK, ScriptTools, NoScript, ScriptTo, RestoreStdout
<1> QED
  BY <1>1, <1>2, <1>3, <1>4, <1>5, <1>6, <1>7, <1>8 DEF ScriptNext

\* Every step keeps TimeoutIsAsync.
LEMMA TimeoutIsAsyncStep ==
    ASSUME ScriptTypeOK, TimeoutIsAsync, ScriptNext
    PROVE  TimeoutIsAsync'
<1>1. ASSUME NEW t \in Threads, NEW tool \in Scripting, NEW timeout \in Timeouts \cup {0}, ScriptBegin(t, tool, timeout)
      PROVE  TimeoutIsAsync'
  BY <1>1, ScriptingAssumption, MaxScriptsAssumption
     DEF ScriptTypeOK, ScriptTools, NoScript, ScriptTo, Process, TimeoutIsAsync,
         ScriptBegin, Entry
<1>2. ASSUME NEW t \in Threads, ScriptReturn(t)
      PROVE  TimeoutIsAsync'
  BY <1>2 DEF ScriptTypeOK, ScriptTools, NoScript, ScriptTo, Process,
              TimeoutIsAsync, ScriptReturn
<1>3. ASSUME NEW t \in Threads, SetTimeout(t)
      PROVE  TimeoutIsAsync'
  BY <1>3 DEF ScriptTypeOK, ScriptTools, NoScript, ScriptTo, Process,
              TimeoutIsAsync, SetTimeout
<1>4. ASSUME NEW t \in Threads, EnterChrome(t)
      PROVE  TimeoutIsAsync'
  BY <1>4 DEF ScriptTypeOK, ScriptTools, NoScript, ScriptTo, Process,
              TimeoutIsAsync, EnterChrome
<1>5. ASSUME NEW t \in Threads, RedirectStdout(t)
      PROVE  TimeoutIsAsync'
  BY <1>5 DEF ScriptTypeOK, ScriptTools, NoScript, ScriptTo, Process,
              TimeoutIsAsync, RedirectStdout, InPython
<1>6. ASSUME NEW t \in Threads, Run(t)
      PROVE  TimeoutIsAsync'
  BY <1>6 DEF ScriptTypeOK, ScriptTools, NoScript, ScriptTo, Process,
              TimeoutIsAsync, Run, AfterRun
<1>7. ASSUME NEW t \in Threads, LeaveChrome(t)
      PROVE  TimeoutIsAsync'
  BY <1>7 DEF ScriptTypeOK, ScriptTools, NoScript, ScriptTo, Process,
              TimeoutIsAsync, LeaveChrome
<1>8. ASSUME NEW t \in Threads, RestoreStdout(t)
      PROVE  TimeoutIsAsync'
  BY <1>8 DEF ScriptTypeOK, ScriptTools, NoScript, ScriptTo, Process,
              TimeoutIsAsync, RestoreStdout
<1> QED
  BY <1>1, <1>2, <1>3, <1>4, <1>5, <1>6, <1>7, <1>8 DEF ScriptNext

\* Every step keeps ContextComesBack: whoever enters chrome leaves it, also by raising.
LEMMA ContextComesBackStep ==
    ASSUME ScriptTypeOK, ContextComesBack, ScriptNext
    PROVE  ContextComesBack'
<1>1. ASSUME NEW t \in Threads, NEW tool \in Scripting, NEW timeout \in Timeouts \cup {0}, ScriptBegin(t, tool, timeout)
      PROVE  ContextComesBack'
  BY <1>1, ScriptingAssumption, MaxScriptsAssumption
     DEF ScriptTypeOK, ScriptTools, NoScript, ScriptTo, Process, ContextComesBack,
         InChrome, ScriptBegin, Entry
<1>2. ASSUME NEW t \in Threads, ScriptReturn(t)
      PROVE  ContextComesBack'
  BY <1>2 DEF ScriptTypeOK, ScriptTools, NoScript, ScriptTo, Process,
              ContextComesBack, InChrome, ScriptReturn
<1>3. ASSUME NEW t \in Threads, SetTimeout(t)
      PROVE  ContextComesBack'
  BY <1>3 DEF ScriptTypeOK, ScriptTools, NoScript, ScriptTo, Process,
              ContextComesBack, InChrome, SetTimeout
<1>4. ASSUME NEW t \in Threads, EnterChrome(t)
      PROVE  ContextComesBack'
  BY <1>4 DEF ScriptTypeOK, ScriptTools, NoScript, ScriptTo, Process,
              ContextComesBack, InChrome, EnterChrome
<1>5. ASSUME NEW t \in Threads, RedirectStdout(t)
      PROVE  ContextComesBack'
  BY <1>5 DEF ScriptTypeOK, ScriptTools, NoScript, ScriptTo, Process,
              ContextComesBack, InChrome, RedirectStdout, InPython
<1>6. ASSUME NEW t \in Threads, Run(t)
      PROVE  ContextComesBack'
  BY <1>6 DEF ScriptTypeOK, ScriptTools, NoScript, ScriptTo, Process,
              ContextComesBack, InChrome, Run, AfterRun
<1>7. ASSUME NEW t \in Threads, LeaveChrome(t)
      PROVE  ContextComesBack'
  BY <1>7 DEF ScriptTypeOK, ScriptTools, NoScript, ScriptTo, Process,
              ContextComesBack, InChrome, LeaveChrome
<1>8. ASSUME NEW t \in Threads, RestoreStdout(t)
      PROVE  ContextComesBack'
  BY <1>8 DEF ScriptTypeOK, ScriptTools, NoScript, ScriptTo, Process,
              ContextComesBack, InChrome, RestoreStdout
<1> QED
  BY <1>1, <1>2, <1>3, <1>4, <1>5, <1>6, <1>7, <1>8 DEF ScriptNext

\* Every step keeps LoneStdout.
LEMMA LoneStdoutStep ==
    ASSUME ScriptTypeOK, TimeoutIsAsync, LoneStdout, ScriptNext
    PROVE  LoneStdout'
<1>1. ASSUME NEW t \in Threads, NEW tool \in Scripting, NEW timeout \in Timeouts \cup {0}, ScriptBegin(t, tool, timeout)
      PROVE  LoneStdout'
  BY <1>1, ScriptingAssumption, MaxScriptsAssumption
     DEF ScriptTypeOK, ScriptTools, NoScript, ScriptTo, Process, LoneStdout,
         TimeoutIsAsync, ScriptBegin, Entry, InPython
<1>2. ASSUME NEW t \in Threads, ScriptReturn(t)
      PROVE  LoneStdout'
  BY <1>2 DEF ScriptTypeOK, ScriptTools, NoScript, ScriptTo, Process, LoneStdout,
              TimeoutIsAsync, ScriptReturn, InPython
<1>3. ASSUME NEW t \in Threads, SetTimeout(t)
      PROVE  LoneStdout'
  BY <1>3 DEF ScriptTypeOK, ScriptTools, NoScript, ScriptTo, Process, LoneStdout,
              TimeoutIsAsync, SetTimeout, InPython
<1>4. ASSUME NEW t \in Threads, EnterChrome(t)
      PROVE  LoneStdout'
  BY <1>4 DEF ScriptTypeOK, ScriptTools, NoScript, ScriptTo, Process, LoneStdout,
              TimeoutIsAsync, EnterChrome, InPython
<1>5. ASSUME NEW t \in Threads, RedirectStdout(t)
      PROVE  LoneStdout'
  BY <1>5 DEF ScriptTypeOK, ScriptTools, NoScript, ScriptTo, Process, LoneStdout,
              TimeoutIsAsync, RedirectStdout, InPython
<1>6. ASSUME NEW t \in Threads, Run(t)
      PROVE  LoneStdout'
  BY <1>6 DEF ScriptTypeOK, ScriptTools, NoScript, ScriptTo, Process, LoneStdout,
              TimeoutIsAsync, Run, AfterRun, InPython
<1>7. ASSUME NEW t \in Threads, LeaveChrome(t)
      PROVE  LoneStdout'
  BY <1>7 DEF ScriptTypeOK, ScriptTools, NoScript, ScriptTo, Process, LoneStdout,
              TimeoutIsAsync, LeaveChrome, InPython
<1>8. ASSUME NEW t \in Threads, RestoreStdout(t)
      PROVE  LoneStdout'
  BY <1>8 DEF ScriptTypeOK, ScriptTools, NoScript, ScriptTo, Process, LoneStdout,
              TimeoutIsAsync, RestoreStdout, InPython
<1> QED
  BY <1>1, <1>2, <1>3, <1>4, <1>5, <1>6, <1>7, <1>8 DEF ScriptNext

\* Loans come back: LoansComeBack follows from the invariant.
LEMMA ScriptKept ==
    ScriptInit /\ [][ScriptNext]_scriptVars => [](ScriptTypeOK /\ LoansComeBack)
<1>1. ScriptInit => ScriptInv
  <2> SUFFICES ASSUME ScriptInit PROVE ScriptInv
    OBVIOUS
  <2>1. 0 \in 0..MaxScripts
    BY MaxScriptsAssumption
  <2>2. NoScript \in ScriptCalls
    BY DEF NoScript, ScriptCalls
  <2>3. ScriptTypeOK
    BY <2>1, <2>2 DEF ScriptInit, ScriptTypeOK, ScriptCalls
  <2>4. TimeoutIsAsync /\ ContextComesBack /\ LoneStdout
    BY DEF ScriptInit, NoScript, TimeoutIsAsync, ContextComesBack, LoneStdout,
           InPython
  <2> QED
    BY <2>3, <2>4 DEF ScriptInv
<1>2. ScriptInv /\ [ScriptNext]_scriptVars => ScriptInv'
  <2>1. CASE ScriptNext
    BY <2>1, ScriptTyped, TimeoutIsAsyncStep, ContextComesBackStep, LoneStdoutStep
       DEF ScriptInv
  <2>2. CASE UNCHANGED scriptVars
    BY <2>2 DEF scriptVars, ScriptInv, ScriptTypeOK, TimeoutIsAsync,
                ContextComesBack, LoneStdout, InPython, InChrome
  <2> QED
    BY <2>1, <2>2
<1>3. ScriptInv => ScriptTypeOK /\ LoansComeBack
  BY DEF ScriptInv, LoneStdout, LoansComeBack, StdoutComesBack
<1> QED
  BY <1>1, <1>2, <1>3, PTL

-----------------------------------------------------------------------------
(* PagePolls: waits and the Tor check                                      *)

\* The results of waits, and waits.
PollResults == {"none", "met", "timeout", "raised", "true", "false", "unknown"}
PollCalls ==
    [tool : PollTools \cup {"none"}, step : {"idle", "get", "locate", "look", "late", "sleep", "done"},
     timeout : PollTimeouts \cup {0}, deadline : Nat, wake : Nat, found : BOOLEAN,
     seen : Documents \cup {"nothing"}, result : PollResults]

\* A call has a result once it is done, and has seen nothing until it looks.
ResultsComeLast ==
    /\ poll.step # "done" => poll.result = "none"
    /\ poll.step \in {"get", "locate", "sleep"} => poll.seen = "nothing"
    /\ poll.tool = "check" => poll.step # "locate" /\ (poll.step = "look" => poll.seen = "nothing")
    /\ poll.tool # "check" => poll.step # "get"
    /\ poll.tool = "none" <=> poll.step = "idle"
    /\ poll.result \in {"unknown", "true", "false"} => poll.tool = "check"
    /\ poll.result = "timeout" => poll.tool # "check"

\* What is steady is there now, and is in what the call has seen, unless it is yet to look.
SteadyIsSeen ==
    /\ steady /\ poll.tool # "none" => Met(poll.tool, shows)
    /\ poll.step = "look" /\ poll.seen = "empty" /\ steady => Met(poll.tool, "empty")
    /\ poll.step = "late" /\ poll.tool = "check" /\ steady => Met("check", poll.seen)
    /\ poll.step = "late" /\ poll.tool # "check" => ~Met(poll.tool, poll.seen) /\ ~steady
    /\ poll.result \in {"timeout", "unknown"} => ~steady

\* A verdict that was seen stays on the page of the check.
VerdictIsSeen ==
    ofCheck =>
       /\ poll.step = "late" /\ poll.tool = "check" /\ poll.seen \in {"yes", "no"} => shows = poll.seen
       /\ VerdictIsTheChecks

\* The inductive invariant of the waits.
PollInv == PollTypeOK /\ ResultsComeLast /\ SteadyIsSeen /\ VerdictIsSeen

\* What is waited for is there or is not.
LEMMA MetIsBoolean == \A tool, document : Met(tool, document) \in BOOLEAN
<1> TAKE tool, document
<1>1. CASE tool = "text"
  BY <1>1 DEF Met
<1>2. CASE tool = "textGone"
  BY <1>2 DEF Met
<1>3. CASE tool = "check"
  BY <1>3 DEF Met
<1>4. CASE tool \notin {"text", "textGone", "check"}
  BY <1>4 DEF Met
<1> QED
  BY <1>1, <1>2, <1>3, <1>4

\* A wait that ends is a wait.
LEMMA FinishTyped ==
    ASSUME PollTypeOK, NEW result \in PollResults, Finish(result)
    PROVE  poll' \in PollCalls
BY DEF PollTypeOK, Finish, PollCalls, PollResults

\* Every step keeps the types.
LEMMA PollTyped ==
    ASSUME PollTypeOK, PollNext
    PROVE  PollTypeOK'
<1>1. CASE Tick
  BY <1>1, PollBoundsAssumption DEF PollTypeOK, NoPoll, PollTools, Documents,
                                    Finish, Sleep, Tick
<1>2. ASSUME NEW document \in Documents, PageChanges(document)
      PROVE  PollTypeOK'
  BY <1>2 DEF PollTypeOK, NoPoll, PollTools, Documents, Finish, Sleep, PageChanges
<1>3. ASSUME NEW document \in Documents, OtherNavigates(document)
      PROVE  PollTypeOK'
  BY <1>3 DEF PollTypeOK, NoPoll, PollTools, Documents, Finish, Sleep,
              OtherNavigates
<1>4. ASSUME NEW document \in Documents, GetCheck(document)
      PROVE  PollTypeOK'
  <2>1. CASE poll' = [poll EXCEPT !.step = "look", !.deadline = clock + poll.timeout]
    <3>1. clock + poll.timeout \in Nat
      <4>1. poll.timeout \in Nat
        <5>1. poll.timeout \in PollTimeouts \cup {0}
          BY DEF PollTypeOK
        <5>2. 0 \in Nat
          OBVIOUS
        <5> QED
          BY <5>1, <5>2, PollTimeoutsAssumption, Zenon
      <4>2. clock \in Nat
        BY PollBoundsAssumption DEF PollTypeOK
      <4> QED
        BY <4>1, <4>2
    <3>2. poll' \in PollCalls
      BY <2>1, <3>1 DEF PollTypeOK, PollCalls, PollResults
    <3>3. clock' = clock /\ polls' = polls /\ shows' \in Documents /\ ofCheck' \in BOOLEAN /\ steady' \in BOOLEAN
      <4>1. steady' = Met("check", document) \/ steady' = FALSE
        BY <1>4 DEF GetCheck
      <4>2. ofCheck' = TRUE \/ (ofCheck' = ofCheck /\ shows' = shows)
        BY <1>4 DEF GetCheck
      <4>3. shows' = document \/ shows' = shows
        BY <1>4 DEF GetCheck
      <4>4. clock' = clock /\ polls' = polls
        BY <1>4 DEF GetCheck
      <4>5. ofCheck \in BOOLEAN /\ shows \in Documents
        BY DEF PollTypeOK
      <4>6. steady' \in BOOLEAN
        BY <4>1, MetIsBoolean
      <4>7. ofCheck' \in BOOLEAN
        BY <4>2, <4>5
      <4> QED
        BY <4>3, <4>4, <4>5, <4>6, <4>7
    <3> QED
      BY <3>2, <3>3 DEF PollTypeOK, PollCalls, PollResults
  <2>2. CASE Finish("unknown")
    <3>1. poll' \in PollCalls
      BY <2>2, FinishTyped DEF PollResults
    <3>2. clock' = clock /\ polls' = polls /\ shows' \in Documents /\ ofCheck' \in BOOLEAN /\ steady' \in BOOLEAN
      <4>1. steady' = Met("check", document) \/ steady' = FALSE
        BY <1>4 DEF GetCheck
      <4>2. ofCheck' = TRUE \/ (ofCheck' = ofCheck /\ shows' = shows)
        BY <1>4 DEF GetCheck
      <4>3. shows' = document \/ shows' = shows
        BY <1>4 DEF GetCheck
      <4>4. clock' = clock /\ polls' = polls
        BY <1>4 DEF GetCheck
      <4>5. ofCheck \in BOOLEAN /\ shows \in Documents
        BY DEF PollTypeOK
      <4>6. steady' \in BOOLEAN
        BY <4>1, MetIsBoolean
      <4>7. ofCheck' \in BOOLEAN
        BY <4>2, <4>5
      <4> QED
        BY <4>3, <4>4, <4>5, <4>6, <4>7
    <3> QED
      BY <3>1, <3>2 DEF PollTypeOK, PollCalls, PollResults
  <2> QED
    BY <1>4, <2>1, <2>2 DEF GetCheck
<1>5. ASSUME NEW tool \in PollTools, NEW timeout \in PollTimeouts, BeginPoll(tool, timeout)
      PROVE  PollTypeOK'
  <2>1. clock + timeout \in Nat
    BY PollTimeoutsAssumption DEF PollTypeOK
  <2>2. poll' \in PollCalls
    BY <1>5, <2>1 DEF BeginPoll, NoPoll, PollCalls, PollResults, PollTools
  <2>3. polls' \in 0..MaxPolls
    BY <1>5, PollBoundsAssumption DEF BeginPoll, PollTypeOK
  <2>4. clock' = clock /\ shows' = shows /\ ofCheck' = ofCheck /\ steady' \in BOOLEAN
    BY <1>5, MetIsBoolean DEF BeginPoll
  <2> QED
    BY <2>2, <2>3, <2>4 DEF PollTypeOK, PollCalls, PollResults
<1>6. CASE EndPoll
  BY <1>6 DEF PollTypeOK, NoPoll, PollTools, Documents, Finish, Sleep, EndPoll
<1>7. CASE Locate
  BY <1>7 DEF PollTypeOK, NoPoll, PollTools, Documents, Finish, Sleep, Locate
<1>8. CASE LookForText
  <2>1. /\ poll \in PollCalls
        /\ shows \in Documents /\ "empty" \in Documents
    BY DEF PollTypeOK, PollCalls, PollResults, Documents
  <2>2. poll' \in PollCalls
    <3>1. CASE Finish("raised") \/ Finish("met")
      BY <3>1, FinishTyped DEF PollResults
    <3>2. CASE \E seen \in Documents : poll' = [poll EXCEPT !.step = "late", !.seen = seen]
      BY <2>1, <3>2 DEF PollCalls
    <3> QED
      BY <1>8, <2>1, <3>1, <3>2 DEF LookForText
  <2> QED
    BY <1>8, <2>2 DEF LookForText, PollTypeOK, PollCalls, PollResults
<1>9. CASE LookForVerdict
  BY <1>9 DEF PollTypeOK, NoPoll, PollTools, Documents, Finish, Sleep,
              LookForVerdict
<1>10. CASE CheckDeadline
  <2>1. poll \in PollCalls /\ clock + 1 \in Nat
    BY DEF PollTypeOK, PollCalls, PollResults
  <2>2. poll' \in PollCalls
    <3>1. CASE Finish(Verdict(poll.seen)) \/ Finish("timeout")
      BY <3>1, FinishTyped DEF PollResults, Verdict
    <3>2. CASE Sleep
      BY <2>1, <3>2 DEF Sleep, PollCalls
    <3> QED
      BY <1>10, <3>1, <3>2 DEF CheckDeadline
  <2>3. steady' \in BOOLEAN
    BY <1>10, MetIsBoolean DEF CheckDeadline, PollTypeOK
  <2> QED
    BY <1>10, <2>2, <2>3 DEF CheckDeadline, PollTypeOK, PollCalls, PollResults
<1>11. CASE Wake
  BY <1>11 DEF PollTypeOK, NoPoll, PollTools, Documents, Finish, Sleep, Wake
<1> QED
  BY <1>1, <1>2, <1>3, <1>4, <1>5, <1>6, <1>7, <1>8, <1>9, <1>10, <1>11 DEF PollNext

\* Every step keeps ResultsComeLast.
LEMMA ResultsComeLastStep ==
    ASSUME PollTypeOK, ResultsComeLast, PollNext
    PROVE  ResultsComeLast'
<1>1. CASE Tick
  BY <1>1, PollBoundsAssumption DEF PollTypeOK, NoPoll, PollTools, Documents,
                                    Finish, Sleep, ResultsComeLast, Tick
<1>2. ASSUME NEW document \in Documents, PageChanges(document)
      PROVE  ResultsComeLast'
  BY <1>2 DEF PollTypeOK, NoPoll, PollTools, Documents, Finish, Sleep,
              ResultsComeLast, PageChanges
<1>3. ASSUME NEW document \in Documents, OtherNavigates(document)
      PROVE  ResultsComeLast'
  BY <1>3 DEF PollTypeOK, NoPoll, PollTools, Documents, Finish, Sleep,
              ResultsComeLast, OtherNavigates
<1>4. ASSUME NEW document \in Documents, GetCheck(document)
      PROVE  ResultsComeLast'
  BY <1>4 DEF PollTypeOK, NoPoll, PollTools, Documents, Finish, Sleep,
              ResultsComeLast, GetCheck
<1>5. ASSUME NEW tool \in PollTools, NEW timeout \in PollTimeouts, BeginPoll(tool, timeout)
      PROVE  ResultsComeLast'
  BY <1>5, PollTimeoutsAssumption, PollBoundsAssumption
     DEF PollTypeOK, NoPoll, PollTools, Documents, Finish, Sleep, ResultsComeLast,
         BeginPoll
<1>6. CASE EndPoll
  BY <1>6 DEF PollTypeOK, NoPoll, PollTools, Documents, Finish, Sleep,
              ResultsComeLast, EndPoll
<1>7. CASE Locate
  BY <1>7 DEF PollTypeOK, NoPoll, PollTools, Documents, Finish, Sleep,
              ResultsComeLast, Locate
<1>8. CASE LookForText
  BY <1>8 DEF PollTypeOK, NoPoll, PollTools, Documents, Finish, Sleep,
              ResultsComeLast, LookForText
<1>9. CASE LookForVerdict
  BY <1>9 DEF PollTypeOK, NoPoll, PollTools, Documents, Finish, Sleep,
              ResultsComeLast, LookForVerdict
<1>10. CASE CheckDeadline
  BY <1>10 DEF PollTypeOK, NoPoll, PollTools, Documents, Finish, Sleep,
               ResultsComeLast, CheckDeadline, Verdict
<1>11. CASE Wake
  BY <1>11 DEF PollTypeOK, NoPoll, PollTools, Documents, Finish, Sleep,
               ResultsComeLast, Wake
<1> QED
  BY <1>1, <1>2, <1>3, <1>4, <1>5, <1>6, <1>7, <1>8, <1>9, <1>10, <1>11 DEF PollNext

\* Every step keeps SteadyIsSeen: whoever changes the page ends what was steady.
LEMMA SteadyIsSeenStep ==
    ASSUME PollTypeOK, ResultsComeLast, SteadyIsSeen, PollNext
    PROVE  SteadyIsSeen'
<1>1. CASE Tick
  BY <1>1, PollBoundsAssumption DEF PollTypeOK, NoPoll, PollTools, Documents,
                                    Finish, Sleep, ResultsComeLast, SteadyIsSeen,
                                    Met, Tick
<1>2. ASSUME NEW document \in Documents, PageChanges(document)
      PROVE  SteadyIsSeen'
  BY <1>2 DEF PollTypeOK, NoPoll, PollTools, Documents, Finish, Sleep,
              ResultsComeLast, SteadyIsSeen, Met, PageChanges
<1>3. ASSUME NEW document \in Documents, OtherNavigates(document)
      PROVE  SteadyIsSeen'
  BY <1>3 DEF PollTypeOK, NoPoll, PollTools, Documents, Finish, Sleep,
              ResultsComeLast, SteadyIsSeen, Met, OtherNavigates
<1>4. ASSUME NEW document \in Documents, GetCheck(document)
      PROVE  SteadyIsSeen'
  BY <1>4 DEF PollTypeOK, NoPoll, PollTools, Documents, Finish, Sleep,
              ResultsComeLast, SteadyIsSeen, Met, GetCheck
<1>5. ASSUME NEW tool \in PollTools, NEW timeout \in PollTimeouts, BeginPoll(tool, timeout)
      PROVE  SteadyIsSeen'
  BY <1>5, PollTimeoutsAssumption, PollBoundsAssumption
     DEF PollTypeOK, NoPoll, PollTools, Documents, Finish, Sleep, ResultsComeLast,
         SteadyIsSeen, Met, BeginPoll
<1>6. CASE EndPoll
  BY <1>6 DEF PollTypeOK, NoPoll, PollTools, Documents, Finish, Sleep,
              ResultsComeLast, SteadyIsSeen, Met, EndPoll
<1>7. CASE Locate
  BY <1>7 DEF PollTypeOK, NoPoll, PollTools, Documents, Finish, Sleep,
              ResultsComeLast, SteadyIsSeen, Met, Locate
<1>8. CASE LookForText
  BY <1>8 DEF PollTypeOK, NoPoll, PollTools, Documents, Finish, Sleep,
              ResultsComeLast, SteadyIsSeen, Met, LookForText
<1>9. CASE LookForVerdict
  <2>1. PICK seen \in {shows, "nothing"} :
           /\ steady' = (steady /\ seen # "nothing")
           /\ poll' = [poll EXCEPT !.step = "late", !.seen = seen]
    BY <1>9 DEF LookForVerdict
  <2>2. /\ poll'.step = "late" /\ poll'.tool = "check" /\ poll'.seen = seen
        /\ poll'.result = poll.result /\ shows' = shows
        /\ poll.tool = "check" /\ poll.step = "look"
    BY <1>9, <2>1 DEF LookForVerdict, PollTypeOK
  <2> QED
    BY <2>1, <2>2 DEF SteadyIsSeen, ResultsComeLast, Met
<1>10. CASE CheckDeadline
  <2>1. CASE Sleep
    <3>1. /\ poll'.step = "sleep" /\ poll'.tool = poll.tool /\ poll'.seen = "nothing"
          /\ poll'.result = "none" /\ shows' = shows
      BY <1>10, <2>1 DEF Sleep, CheckDeadline, PollTypeOK, ResultsComeLast
    <3>2. steady' = Met(poll.tool, shows)
      BY <1>10, <3>1 DEF CheckDeadline, Finish, PollTypeOK
    <3> QED
      BY <3>1, <3>2 DEF SteadyIsSeen
  <2>2. CASE Finish("timeout") /\ steady' = steady /\ poll.tool # "check"
    <3>1. /\ poll'.step = "done" /\ poll'.tool = poll.tool /\ poll'.seen = poll.seen
          /\ poll'.result = "timeout" /\ shows' = shows /\ poll.step = "late"
      BY <1>10, <2>2 DEF Finish, CheckDeadline, PollTypeOK
    <3> QED
      BY <2>2, <3>1 DEF SteadyIsSeen
  <2>3. CASE Finish(Verdict(poll.seen)) /\ steady' = steady /\ poll.tool = "check"
    <3>1. /\ poll'.step = "done" /\ poll'.tool = "check" /\ poll'.seen = poll.seen
          /\ poll'.result = Verdict(poll.seen) /\ shows' = shows /\ poll.step = "late"
      BY <1>10, <2>3 DEF Finish, CheckDeadline, PollTypeOK
    <3>2. steady => Met("check", poll.seen) /\ Met("check", shows)
      BY <3>1, <2>3 DEF SteadyIsSeen
    <3> QED
      BY <2>3, <3>1, <3>2 DEF SteadyIsSeen, Met, Verdict
  <2> QED
    BY <1>10, <2>1, <2>2, <2>3 DEF CheckDeadline
<1>11. CASE Wake
  BY <1>11 DEF PollTypeOK, NoPoll, PollTools, Documents, Finish, Sleep,
               ResultsComeLast, SteadyIsSeen, Met, Wake
<1> QED
  BY <1>1, <1>2, <1>3, <1>4, <1>5, <1>6, <1>7, <1>8, <1>9, <1>10, <1>11 DEF PollNext

\* Every step keeps VerdictIsSeen.
LEMMA VerdictIsSeenStep ==
    ASSUME PollTypeOK, ResultsComeLast, SteadyIsSeen, VerdictIsSeen, PollNext
    PROVE  VerdictIsSeen'
<1>1. CASE Tick
  BY <1>1, PollBoundsAssumption DEF PollTypeOK, NoPoll, PollTools, Documents,
                                    Finish, Sleep, ResultsComeLast, VerdictIsSeen,
                                    VerdictIsTheChecks, Met, Tick
<1>2. ASSUME NEW document \in Documents, PageChanges(document)
      PROVE  VerdictIsSeen'
  BY <1>2 DEF PollTypeOK, NoPoll, PollTools, Documents, Finish, Sleep,
              ResultsComeLast, VerdictIsSeen, VerdictIsTheChecks, Met, PageChanges
<1>3. ASSUME NEW document \in Documents, OtherNavigates(document)
      PROVE  VerdictIsSeen'
  BY <1>3 DEF PollTypeOK, NoPoll, PollTools, Documents, Finish, Sleep,
              ResultsComeLast, VerdictIsSeen, VerdictIsTheChecks, Met,
              OtherNavigates
<1>4. ASSUME NEW document \in Documents, GetCheck(document)
      PROVE  VerdictIsSeen'
  BY <1>4 DEF PollTypeOK, NoPoll, PollTools, Documents, Finish, Sleep,
              ResultsComeLast, VerdictIsSeen, VerdictIsTheChecks, Met, GetCheck
<1>5. ASSUME NEW tool \in PollTools, NEW timeout \in PollTimeouts, BeginPoll(tool, timeout)
      PROVE  VerdictIsSeen'
  BY <1>5, PollTimeoutsAssumption, PollBoundsAssumption
     DEF PollTypeOK, NoPoll, PollTools, Documents, Finish, Sleep, ResultsComeLast,
         VerdictIsSeen, VerdictIsTheChecks, Met, BeginPoll
<1>6. CASE EndPoll
  BY <1>6 DEF PollTypeOK, NoPoll, PollTools, Documents, Finish, Sleep,
              ResultsComeLast, VerdictIsSeen, VerdictIsTheChecks, Met, EndPoll
<1>7. CASE Locate
  BY <1>7 DEF PollTypeOK, NoPoll, PollTools, Documents, Finish, Sleep,
              ResultsComeLast, VerdictIsSeen, VerdictIsTheChecks, Met, Locate
<1>8. CASE LookForText
  BY <1>8 DEF PollTypeOK, NoPoll, PollTools, Documents, Finish, Sleep,
              ResultsComeLast, VerdictIsSeen, VerdictIsTheChecks, Met, LookForText
<1>9. CASE LookForVerdict
  BY <1>9 DEF PollTypeOK, NoPoll, PollTools, Documents, Finish, Sleep,
              ResultsComeLast, VerdictIsSeen, VerdictIsTheChecks, Met,
              LookForVerdict
<1>10. CASE CheckDeadline
  BY <1>10 DEF PollTypeOK, NoPoll, PollTools, Documents, Finish, Sleep,
               ResultsComeLast, VerdictIsSeen, VerdictIsTheChecks, Met,
               CheckDeadline, Verdict
<1>11. CASE Wake
  BY <1>11 DEF PollTypeOK, NoPoll, PollTools, Documents, Finish, Sleep,
               ResultsComeLast, VerdictIsSeen, VerdictIsTheChecks, Met, Wake
<1> QED
  BY <1>1, <1>2, <1>3, <1>4, <1>5, <1>6, <1>7, <1>8, <1>9, <1>10, <1>11 DEF PollNext

\* Waits are right: PollsAreRight follows from the invariant.
LEMMA PollKept ==
    PollInit /\ [][PollNext]_pollVars => [](PollTypeOK /\ PollsAreRight)
<1>1. PollInit => PollInv
  <2> SUFFICES ASSUME PollInit PROVE PollInv
    OBVIOUS
  <2>1. 0 \in 0..MaxTime /\ 0 \in 0..MaxPolls /\ 0 \in Nat
    BY PollBoundsAssumption
  <2>2. PollTypeOK
    BY <2>1 DEF PollInit, PollTypeOK, NoPoll, PollTools, Documents
  <2>3. ResultsComeLast /\ SteadyIsSeen /\ VerdictIsSeen
    BY DEF PollInit, NoPoll, ResultsComeLast, SteadyIsSeen, VerdictIsSeen
  <2> QED
    BY <2>2, <2>3 DEF PollInv
<1>2. PollInv /\ [PollNext]_pollVars => PollInv'
  <2>1. CASE PollNext
    BY <2>1, PollTyped, ResultsComeLastStep, SteadyIsSeenStep, VerdictIsSeenStep
       DEF PollInv
  <2>2. CASE UNCHANGED pollVars
    BY <2>2 DEF pollVars, PollInv, PollTypeOK, ResultsComeLast, SteadyIsSeen,
                VerdictIsSeen, VerdictIsTheChecks
  <2> QED
    BY <2>1, <2>2
<1>3. PollInv => PollTypeOK /\ PollsAreRight
  BY DEF PollInv, SteadyIsSeen, VerdictIsSeen, PollsAreRight, SteadyIsFound,
         VerdictIsTheChecks
<1> QED
  BY <1>1, <1>2, <1>3, PTL
=============================================================================
