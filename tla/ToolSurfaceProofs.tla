------------------------- MODULE ToolSurfaceProofs --------------------------
(***************************************************************************)
(* Invariants of the storage state and of the output directory, and the    *)
(* theorems about all components that serve single tool calls: what holds  *)
(* of each by itself holds of the surface.                                 *)
(***************************************************************************)
EXTENDS ToolSurface, TorToolProofs, PageToolProofs, FiniteSetTheorems,
        WellFoundedInduction

-----------------------------------------------------------------------------
(* Induction                                                               *)

\* The pairs of naturals of which the first is less.
Below == {ss \in Nat \X Nat : ss[1] < ss[2]}

\* Induction: a set of naturals that is not empty has a least element.
LEMMA LeastNat ==
    ASSUME NEW T, T \subseteq Nat, T # {}
    PROVE  \E x \in T : \A y \in T : x <= y
<1>1. IsWellFoundedOn(Below, Nat)
  BY NatLessThanWellFounded DEF OpToRel, Below
<1>2. PICK x \in T : \A y \in T : <<y, x>> \notin Below
  BY <1>1, WFMin
<1>3. ASSUME NEW y \in T
      PROVE  x <= y
  <2>1. ~(y < x)
    BY <1>2 DEF Below
  <2> QED
    BY <2>1
<1> QED
  BY <1>3

-----------------------------------------------------------------------------
(* StoredState: storage state                                              *)

\* While nothing moves, a capture has the areas that it has read as they are.
CaptureFollows ==
    state.tool = "capture" /\ still =>
       /\ state.step = "origin" => state.got.holds["cookies"] = store[origin]["cookies"]
       /\ state.step = "command" /\ state.area # "cookies" =>
             /\ state.got.origin = origin
             /\ state.got.holds["cookies"] = store[origin]["cookies"]
             /\ state.area = "session" => state.got.holds["local"] = store[origin]["local"]
       /\ state.step = "done" => saved.origin = origin /\ saved.holds = store[origin]

\* An area is back, but for the items that are left.
ItemsBack(area, left) ==
    \A i \in Items \ left : saved.holds[area][i] # Unset => store[origin][area][i] = saved.holds[area][i]

\* While nothing moves, a restore has brought back the areas that it is through with, and
\* gets to the storages only in a document of their origin.
RestoreFollows ==
    state.tool = "restore" /\ still =>
       /\ state.step = "command" => ItemsBack(state.area, state.left)
       /\ state.step = "origin" \/ (state.step = "command" /\ state.area # "cookies") => ItemsBack("cookies", {})
       /\ state.step = "command" /\ state.area # "cookies" => saved.origin = origin
       /\ state.step = "command" /\ state.area = "session" => ItemsBack("local", {})
       /\ state.step = "done" /\ ~state.skipped => \A a \in Areas : ItemsBack(a, {})

\* The inductive invariant of the storage state.
StateInv == StateTypeOK /\ CaptureFollows /\ RestoreFollows

\* No entries are entries, and no file yet is a capture.
LEMMA NoEntriesTyped == NoEntries \in Entries /\ NoFileYet \in Captures
<1>1. NoEntries \in Entries
  BY DEF NoEntries, Entries
<1> QED
  BY <1>1 DEF NoFileYet, Captures

\* No call is a call.
LEMMA NoStateCallTyped == NoStateCall \in StateCalls
BY NoEntriesTyped DEF NoStateCall, StateCalls, Areas

\* What is to be applied are items.
LEMMA ToApplyTyped ==
    ASSUME NEW tool, NEW area
    PROVE  ToApply(tool, area) \subseteq Items
BY DEF ToApply

\* The stores stay stores when an item is put into one.
LEMMA PutTyped ==
    ASSUME StateTypeOK, NEW area \in Areas, NEW i \in Items, NEW value \in Stored \cup {Unset}
    PROVE  [store EXCEPT ![origin][area][i] = value] \in [Origins -> [Areas -> Entries]]
<1>1. [store[origin][area] EXCEPT ![i] = value] \in Entries
  BY DEF StateTypeOK, Entries
<1>2. [store[origin] EXCEPT ![area] = [store[origin][area] EXCEPT ![i] = value]] \in [Areas -> Entries]
  BY <1>1 DEF StateTypeOK
<1> QED
  BY <1>2 DEF StateTypeOK

\* Every step keeps the types.
LEMMA StateTyped ==
    ASSUME StateTypeOK, StateNext
    PROVE  StateTypeOK'
<1>1. ASSUME NEW i \in Items, NEW value \in Stored \cup {Unset}, SetCookie(i, value)
      PROVE  StateTypeOK'
  <2>1. store' = [store EXCEPT ![origin]["cookies"][i] = value] /\ "cookies" \in Areas
    BY <1>1 DEF SetCookie, Put, Areas
  <2>2. store' \in [Origins -> [Areas -> Entries]]
    BY <2>1, PutTyped
  <2>3. changes' \in 0..MaxChanges
    BY <1>1, StateBoundsAssumption DEF SetCookie, Put, Change, StateTypeOK
  <2> QED
    BY <1>1, <2>2, <2>3 DEF SetCookie, Put, Change, StateTypeOK
<1>2. ASSUME NEW i \in Items, NEW value \in Stored \cup {Unset}, SetLocal(i, value)
      PROVE  StateTypeOK'
  <2>1. store' = [store EXCEPT ![origin]["local"][i] = value] /\ "local" \in Areas
    BY <1>2 DEF SetLocal, Put, Areas
  <2>2. store' \in [Origins -> [Areas -> Entries]]
    BY <2>1, PutTyped
  <2>3. changes' \in 0..MaxChanges
    BY <1>2, StateBoundsAssumption DEF SetLocal, Put, Change, StateTypeOK
  <2> QED
    BY <1>2, <2>2, <2>3 DEF SetLocal, Put, Change, StateTypeOK
<1>3. ASSUME NEW i \in Items, NEW value \in Stored \cup {Unset}, SetSession(i, value)
      PROVE  StateTypeOK'
  <2>1. store' = [store EXCEPT ![origin]["session"][i] = value] /\ "session" \in Areas
    BY <1>3 DEF SetSession, Put, Areas
  <2>2. store' \in [Origins -> [Areas -> Entries]]
    BY <2>1, PutTyped
  <2>3. changes' \in 0..MaxChanges
    BY <1>3, StateBoundsAssumption DEF SetSession, Put, Change, StateTypeOK
  <2> QED
    BY <1>3, <2>2, <2>3 DEF SetSession, Put, Change, StateTypeOK
<1>4. ASSUME NEW area \in Areas, ClearArea(area)
      PROVE  StateTypeOK'
  <2>1. store' \in [Origins -> [Areas -> Entries]]
    BY <1>4, NoEntriesTyped DEF ClearArea, StateTypeOK
  <2>2. changes' \in 0..MaxChanges
    BY <1>4, StateBoundsAssumption DEF ClearArea, Change, StateTypeOK
  <2> QED
    BY <1>4, <2>1, <2>2 DEF ClearArea, Change, StateTypeOK
<1>5. ASSUME NEW o \in Origins, MoveTo(o)
      PROVE  StateTypeOK'
  <2>1. changes' \in 0..MaxChanges
    BY <1>5, StateBoundsAssumption DEF MoveTo, Change, StateTypeOK
  <2> QED
    BY <1>5, <2>1 DEF MoveTo, Change, StateTypeOK
<1>6. ASSUME NEW tool \in {"capture", "restore"}, BeginState(tool)
      PROVE  StateTypeOK'
  <2>1. state' \in StateCalls
    BY <1>6, NoStateCallTyped, ToApplyTyped DEF BeginState, StateCalls
  <2>2. stateCalls' \in 0..MaxStateCalls
    BY <1>6, StateBoundsAssumption DEF BeginState, StateTypeOK
  <2> QED
    BY <1>6, <2>1, <2>2 DEF BeginState, StateTypeOK
<1>7. CASE EndState
  BY <1>7, NoStateCallTyped DEF EndState, StateTypeOK
<1>8. CASE StateRaises
  BY <1>8 DEF StateRaises, StateTypeOK, StateCalls
<1>9. CASE Capture
  <2> DEFINE got == [state.got EXCEPT !.holds[state.area] = store[origin][state.area]]
  <2>1. /\ state.got \in Captures /\ state.area \in Areas /\ store[origin][state.area] \in Entries
        /\ origin \in Origins /\ state \in StateCalls
    BY DEF StateTypeOK, StateCalls
  <2>2. got \in Captures /\ [got EXCEPT !.site = origin] \in Captures
    BY <2>1 DEF Captures
  <2> HIDE DEF got
  <2>3. /\ "session" \in Areas
        /\ \/ state' = [state EXCEPT !.got = [got EXCEPT !.site = origin], !.step = "origin"] /\ saved' = saved
           \/ state' = [state EXCEPT !.got = got, !.area = "session"] /\ saved' = saved
           \/ state' = [state EXCEPT !.got = NoFileYet, !.step = "done"] /\ saved' = got
    BY <1>9, <2>1 DEF Capture, Areas, got
  <2>4. state' \in StateCalls /\ saved' \in Captures
    BY <2>1, <2>2, <2>3, NoEntriesTyped DEF StateCalls, StateTypeOK
  <2> QED
    BY <1>9, <2>4 DEF Capture, StateTypeOK
<1>10. CASE ReadOrigin
  <2>1. state \in StateCalls /\ origin \in Origins
    BY DEF StateTypeOK
  <2>2. ToStorages \in StateCalls
    <3> DEFINE o == IF state.tool = "capture" THEN origin ELSE NoOrigin
    <3>1. [state.got EXCEPT !.origin = o] \in Captures
      BY <2>1 DEF StateCalls, Captures
    <3>2. ToStorages = [state EXCEPT !.got = [state.got EXCEPT !.origin = o], !.step = "command",
                                 !.area = "local", !.left = ToApply(state.tool, "local")]
      BY <2>1 DEF ToStorages, StateCalls
    <3> HIDE DEF o
    <3> QED
      BY <2>1, <3>1, <3>2, ToApplyTyped DEF StateCalls, Areas
  <2>3. [state EXCEPT !.step = "done", !.skipped = TRUE] \in StateCalls
    BY <2>1 DEF StateCalls
  <2> QED
    BY <1>10, <2>2, <2>3 DEF ReadOrigin, StateTypeOK
<1>11. CASE NextArea
  <2>1. state \in StateCalls
    BY DEF StateTypeOK
  <2>2. \/ state' = [state EXCEPT !.step = "origin"] \/ state' = [state EXCEPT !.step = "done"]
        \/ state' = [state EXCEPT !.area = "session", !.left = ToApply("restore", "session")]
    BY <1>11 DEF NextArea
  <2>3. "session" \in Areas /\ ToApply("restore", "session") \subseteq Items
    BY ToApplyTyped DEF Areas
  <2>7. state' \in StateCalls
    <3>1. CASE state' = [state EXCEPT !.step = "origin"]
      BY <2>1, <3>1 DEF StateCalls
    <3>2. CASE state' = [state EXCEPT !.step = "done"]
      BY <2>1, <3>2 DEF StateCalls
    <3>3. CASE state' = [state EXCEPT !.area = "session", !.left = ToApply("restore", "session")]
      BY <2>1, <2>3, <3>3 DEF StateCalls
    <3> QED
      BY <2>2, <3>1, <3>2, <3>3
  <2> QED
    BY <1>11, <2>7 DEF NextArea, StateTypeOK
<1>12. ASSUME NEW i \in Items, Apply(i)
      PROVE  StateTypeOK'
  <2>1. state \in StateCalls /\ saved \in Captures /\ state.area \in Areas
    BY DEF StateTypeOK, StateCalls
  <2>2. saved.holds[state.area][i] \in Stored \cup {Unset}
    BY <2>1 DEF Captures, Entries
  <2> DEFINE value == saved.holds[state.area][i]
  <2>3. store' = store \/ store' = [store EXCEPT ![origin][state.area][i] = value]
    BY <1>12 DEF Apply, PutIn
  <2> HIDE DEF value
  <2>5. value \in Stored \cup {Unset}
    BY <2>2 DEF value
  <2>6. [store EXCEPT ![origin][state.area][i] = value] \in [Origins -> [Areas -> Entries]]
    BY <2>1, <2>5, PutTyped
  <2>7. store' \in [Origins -> [Areas -> Entries]]
    BY <2>3, <2>6 DEF StateTypeOK
  <2>4. state' \in StateCalls
    BY <1>12, <2>1 DEF Apply, StateCalls
  <2> QED
    BY <1>12, <2>7, <2>4 DEF Apply, StateTypeOK
<1> QED
  BY <1>1, <1>2, <1>3, <1>4, <1>5, <1>6, <1>7, <1>8, <1>9, <1>10, <1>11, <1>12
     DEF StateNext

\* What an item of a restore does: it is put where it belongs, and nothing else changes,
\* or the call raises.
LEMMA ApplyEffect ==
    ASSUME StateTypeOK, NEW i \in Items, Apply(i)
    PROVE  /\ \/ state' = [state EXCEPT !.step = "raised"] /\ store' = store
              \/ /\ state' = [state EXCEPT !.left = @ \ {i}]
                 /\ store'[origin][state.area][i] = saved.holds[state.area][i]
           /\ \A o \in Origins \ {origin} : store'[o] = store[o]
           /\ \A a \in Areas \ {state.area} : store'[origin][a] = store[origin][a]
           /\ \A j \in Items \ {i} : store'[origin][state.area][j] = store[origin][state.area][j]
           /\ state.tool = "restore" /\ state.step = "command"
           /\ UNCHANGED <<origin, saved, still>>
<1>1. /\ state \in StateCalls /\ state.area \in Areas /\ origin \in Origins
      /\ store \in [Origins -> [Areas -> Entries]]
  BY DEF StateTypeOK, StateCalls
<1>2. /\ state.tool = "restore" /\ state.step = "command" /\ UNCHANGED <<origin, saved, still>>
      /\ \/ state' = [state EXCEPT !.step = "raised"] /\ store' = store
         \/ /\ store' = [store EXCEPT ![origin][state.area][i] = saved.holds[state.area][i]]
            /\ state' = [state EXCEPT !.left = @ \ {i}]
  BY DEF Apply, PutIn
<1>3. CASE store' = [store EXCEPT ![origin][state.area][i] = saved.holds[state.area][i]]
  <2>1. store[origin][state.area] \in Entries
    BY <1>1
  <2> QED
    BY <1>1, <1>2, <1>3, <2>1 DEF Entries
<1> QED
  BY <1>2, <1>3

\* Every step keeps CaptureFollows: whoever changes what was read ends that nothing moved.
LEMMA CaptureFollowsStep ==
    ASSUME StateTypeOK, CaptureFollows, StateNext
    PROVE  CaptureFollows'
<1>1. ASSUME NEW i \in Items, NEW value \in Stored \cup {Unset}, SetCookie(i, value)
      PROVE  CaptureFollows'
  BY <1>1 DEF CaptureFollows, SetCookie, Put, Change
<1>2. ASSUME NEW i \in Items, NEW value \in Stored \cup {Unset}, SetLocal(i, value)
      PROVE  CaptureFollows'
  BY <1>2 DEF CaptureFollows, SetLocal, Put, Change
<1>3. ASSUME NEW i \in Items, NEW value \in Stored \cup {Unset}, SetSession(i, value)
      PROVE  CaptureFollows'
  BY <1>3 DEF CaptureFollows, SetSession, Put, Change
<1>4. ASSUME NEW area \in Areas, ClearArea(area)
      PROVE  CaptureFollows'
  BY <1>4 DEF CaptureFollows, ClearArea, Change
<1>5. ASSUME NEW o \in Origins, MoveTo(o)
      PROVE  CaptureFollows'
  BY <1>5 DEF CaptureFollows, MoveTo, Change
<1>6. ASSUME NEW tool \in {"capture", "restore"}, BeginState(tool)
      PROVE  CaptureFollows'
  BY <1>6 DEF CaptureFollows, BeginState, NoStateCall
<1>7. CASE EndState
  BY <1>7 DEF CaptureFollows, EndState, NoStateCall
<1>8. CASE StateRaises
  BY <1>8 DEF CaptureFollows, StateRaises, StateTypeOK, StateCalls
<1>9. CASE Capture
  <2>1. /\ state \in StateCalls /\ store[origin] \in [Areas -> Entries]
        /\ state.got \in Captures /\ state.area \in Areas
    BY DEF StateTypeOK, StateCalls
  <2> DEFINE got == [state.got EXCEPT !.holds[state.area] = store[origin][state.area]]
  <2>2. /\ got.origin = state.got.origin
        /\ got.holds[state.area] = store[origin][state.area]
        /\ \A a \in Areas \ {state.area} : got.holds[a] = state.got.holds[a]
        /\ got.holds \in [Areas -> Entries]
        /\ got \in Captures
    BY <2>1 DEF Captures
  <2> HIDE DEF got
  <2>3. /\ state.tool = "capture" /\ state.step = "command"
        /\ UNCHANGED <<origin, store, still>>
        /\ \/ /\ state.area = "cookies"
              /\ state' = [state EXCEPT !.got = [got EXCEPT !.site = origin], !.step = "origin"]
           \/ state.area = "local" /\ state' = [state EXCEPT !.got = got, !.area = "session"]
           \/ /\ state.area = "session"
              /\ state' = [state EXCEPT !.got = NoFileYet, !.step = "done"] /\ saved' = got
    BY <1>9, <2>1 DEF Capture, Areas, got
  <2>4. CASE state.area = "cookies"
    <3>1. [got EXCEPT !.site = origin].holds = got.holds
      BY <2>2 DEF Captures
    <3>2. state'.step = "origin" /\ state'.got.holds["cookies"] = store[origin]["cookies"]
      BY <2>1, <2>2, <2>3, <2>4, <3>1 DEF StateCalls
    <3> QED
      BY <2>3, <3>2 DEF CaptureFollows
  <2>5. CASE state.area = "local"
    BY <2>1, <2>2, <2>3, <2>5 DEF CaptureFollows, StateCalls, Areas
  <2>6. CASE state.area = "session"
    <3>1. state'.step = "done" /\ saved' = got
      BY <2>1, <2>3, <2>6 DEF StateCalls
    <3>2. still => got.holds = store[origin] /\ got.origin = origin
      BY <2>1, <2>2, <2>3, <2>6 DEF CaptureFollows, Areas
    <3> QED
      BY <2>3, <3>1, <3>2 DEF CaptureFollows
  <2> QED
    BY <2>1, <2>4, <2>5, <2>6 DEF Areas
<1>10. CASE ReadOrigin
  <2>1. state \in StateCalls /\ state.got \in Captures
    BY DEF StateTypeOK, StateCalls
  <2>2. /\ state.step = "origin" /\ state'.tool = state.tool
        /\ UNCHANGED <<origin, store, saved, still>>
    BY <1>10, <2>1 DEF ReadOrigin, ToStorages, StateCalls
  <2>3. CASE state.tool = "capture"
    <3>1. state' = [state EXCEPT !.got = [state.got EXCEPT !.origin = origin], !.step = "command",
                                 !.area = "local", !.left = ToApply("capture", "local")]
      BY <1>10, <2>1, <2>3 DEF ReadOrigin, ToStorages, StateCalls
    <3>2. /\ [state.got EXCEPT !.origin = origin].origin = origin
          /\ [state.got EXCEPT !.origin = origin].holds = state.got.holds
      BY <2>1 DEF Captures
    <3>3. /\ state'.step = "command" /\ state'.area = "local" /\ state'.got.origin = origin
          /\ state'.got.holds = state.got.holds
      BY <2>1, <3>1, <3>2 DEF StateCalls
    <3> QED
      BY <2>2, <2>3, <3>3 DEF CaptureFollows
  <2>4. CASE state.tool # "capture"
    BY <2>2, <2>4 DEF CaptureFollows
  <2> QED
    BY <2>3, <2>4
<1>11. CASE NextArea
  <2>1. state'.tool = "restore"
    BY <1>11 DEF NextArea, StateTypeOK, StateCalls
  <2> QED
    BY <2>1 DEF CaptureFollows
<1>12. ASSUME NEW i \in Items, Apply(i)
      PROVE  CaptureFollows'
  <2>1. state'.tool = "restore"
    BY <1>12 DEF Apply, StateTypeOK, StateCalls
  <2> QED
    BY <2>1 DEF CaptureFollows
<1> QED
  BY <1>1, <1>2, <1>3, <1>4, <1>5, <1>6, <1>7, <1>8, <1>9, <1>10, <1>11, <1>12
     DEF StateNext

\* Every step keeps RestoreFollows: items are put back one by one, area by area.
LEMMA RestoreFollowsStep ==
    ASSUME StateTypeOK, RestoreFollows, StateNext
    PROVE  RestoreFollows'
<1>1. ASSUME NEW i \in Items, NEW value \in Stored \cup {Unset}, SetCookie(i, value)
      PROVE  RestoreFollows'
  BY <1>1 DEF RestoreFollows, ItemsBack, SetCookie, Put, Change
<1>2. ASSUME NEW i \in Items, NEW value \in Stored \cup {Unset}, SetLocal(i, value)
      PROVE  RestoreFollows'
  BY <1>2 DEF RestoreFollows, ItemsBack, SetLocal, Put, Change
<1>3. ASSUME NEW i \in Items, NEW value \in Stored \cup {Unset}, SetSession(i, value)
      PROVE  RestoreFollows'
  BY <1>3 DEF RestoreFollows, ItemsBack, SetSession, Put, Change
<1>4. ASSUME NEW area \in Areas, ClearArea(area)
      PROVE  RestoreFollows'
  BY <1>4 DEF RestoreFollows, ItemsBack, ClearArea, Change
<1>5. ASSUME NEW o \in Origins, MoveTo(o)
      PROVE  RestoreFollows'
  BY <1>5 DEF RestoreFollows, ItemsBack, MoveTo, Change
<1>6. ASSUME NEW tool \in {"capture", "restore"}, BeginState(tool)
      PROVE  RestoreFollows'
  BY <1>6 DEF RestoreFollows, ItemsBack, BeginState, NoStateCall, ItemsBack, ToApply
<1>7. CASE EndState
  BY <1>7 DEF RestoreFollows, ItemsBack, EndState, NoStateCall
<1>8. CASE StateRaises
  BY <1>8 DEF RestoreFollows, ItemsBack, StateRaises, StateTypeOK, StateCalls
<1>9. CASE Capture
  <2>1. state'.tool = "capture"
    BY <1>9 DEF Capture, StateTypeOK, StateCalls, Areas
  <2> QED
    BY <2>1 DEF RestoreFollows
<1>10. CASE ReadOrigin
  <2>1. state \in StateCalls /\ state.got \in Captures
    BY DEF StateTypeOK, StateCalls
  <2>2. /\ state.step = "origin" /\ state'.tool = state.tool
        /\ UNCHANGED <<origin, store, saved, still>>
    BY <1>10, <2>1 DEF ReadOrigin, ToStorages, StateCalls
  <2>3. CASE state.tool = "restore" /\ saved.origin = origin
    <3>1. /\ state'.step = "command" /\ state'.area = "local"
          /\ state'.left = ToApply("restore", "local")
      BY <1>10, <2>1, <2>3 DEF ReadOrigin, ToStorages, StateCalls
    <3>2. ItemsBack("local", ToApply("restore", "local"))
      BY DEF ItemsBack, ToApply
    <3> QED
      BY <2>2, <2>3, <3>1, <3>2 DEF RestoreFollows, ItemsBack
  <2>4. CASE state.tool = "restore" /\ saved.origin # origin
    <3>1. state'.step = "done" /\ state'.skipped = TRUE
      BY <1>10, <2>1, <2>4 DEF ReadOrigin, StateCalls
    <3> QED
      BY <3>1 DEF RestoreFollows
  <2>5. CASE state.tool # "restore"
    BY <2>2, <2>5 DEF RestoreFollows
  <2> QED
    BY <2>3, <2>4, <2>5
<1>11. CASE NextArea
  <2>1. state \in StateCalls
    BY DEF StateTypeOK
  <2>2. /\ state.tool = "restore" /\ state.step = "command" /\ state.left = {}
        /\ UNCHANGED <<origin, store, saved, still>>
    BY <1>11 DEF NextArea
  <2>3. CASE state.area = "cookies"
    <3>1. state' = [state EXCEPT !.step = "origin"]
      BY <1>11, <2>3 DEF NextArea
    <3>2. state'.step = "origin"
      BY <2>1, <3>1 DEF StateCalls
    <3> QED
      BY <2>2, <2>3, <3>2 DEF RestoreFollows, ItemsBack
  <2>4. CASE state.area = "local"
    <3>1. state' = [state EXCEPT !.area = "session", !.left = ToApply("restore", "session")]
      BY <1>11, <2>4 DEF NextArea
    <3>2. state'.step = "command" /\ state'.area = "session" /\ state'.left = ToApply("restore", "session")
      BY <2>1, <2>2, <3>1 DEF StateCalls
    <3>3. ItemsBack("session", ToApply("restore", "session"))
      BY DEF ItemsBack, ToApply
    <3> QED
      BY <2>2, <2>4, <3>2, <3>3 DEF RestoreFollows, ItemsBack
  <2>5. CASE state.area = "session"
    <3>1. state' = [state EXCEPT !.step = "done"]
      BY <1>11, <2>5 DEF NextArea
    <3>2. state'.step = "done"
      BY <2>1, <3>1 DEF StateCalls
    <3>3. still => ItemsBack("cookies", {}) /\ ItemsBack("local", {}) /\ ItemsBack("session", {})
      BY <1>11, <2>2, <2>5 DEF RestoreFollows, NextArea
    <3> QED
      BY <2>2, <3>2, <3>3 DEF RestoreFollows, ItemsBack, Areas
  <2> QED
    BY <2>1, <2>3, <2>4, <2>5 DEF StateCalls, Areas
<1>12. ASSUME NEW i \in Items, Apply(i)
      PROVE  RestoreFollows'
  <2>1. state \in StateCalls /\ state.area \in Areas
    BY DEF StateTypeOK, StateCalls
  <2>2. CASE state' = [state EXCEPT !.step = "raised"]
    BY <2>1, <2>2 DEF RestoreFollows, StateCalls
  <2>3. CASE /\ state' = [state EXCEPT !.left = @ \ {i}]
             /\ store'[origin][state.area][i] = saved.holds[state.area][i]
    <3>1. /\ state'.step = "command" /\ state'.area = state.area
          /\ state'.left = state.left \ {i} /\ state.tool = "restore" /\ state.step = "command"
          /\ UNCHANGED <<origin, saved, still>>
      BY <1>12, <2>1, <2>3, ApplyEffect DEF StateCalls
    <3>2. \A a \in Areas \ {state.area} : ItemsBack(a, {}) => ItemsBack(a, {})'
      BY <1>12, <3>1, ApplyEffect DEF ItemsBack
    <3>3. ItemsBack(state.area, state.left) => ItemsBack(state.area, state.left)'
      BY <1>12, <2>3, <3>1, ApplyEffect DEF ItemsBack
    <3> QED
      BY <2>1, <3>1, <3>2, <3>3 DEF RestoreFollows, Areas
  <2> QED
    BY <1>12, <2>2, <2>3, ApplyEffect
<1> QED
  BY <1>1, <1>2, <1>3, <1>4, <1>5, <1>6, <1>7, <1>8, <1>9, <1>10, <1>11, <1>12
     DEF StateNext

\* StateInv holds in every state of the stored state.
LEMMA StateInvariant == StateInit /\ [][StateNext]_stateVars => []StateInv
<1>1. StateInit => StateInv
  <2> SUFFICES ASSUME StateInit PROVE StateInv
    OBVIOUS
  <2>1. FirstOrigin \in Origins
    BY OriginsAssumption DEF FirstOrigin
  <2>2. StateTypeOK
    BY <2>1, NoEntriesTyped, NoStateCallTyped, StateBoundsAssumption
       DEF StateInit, StateTypeOK
  <2>3. CaptureFollows /\ RestoreFollows
    BY DEF StateInit, NoStateCall, CaptureFollows, RestoreFollows
  <2> QED
    BY <2>2, <2>3 DEF StateInv
<1>2. StateInv /\ [StateNext]_stateVars => StateInv'
  <2> SUFFICES ASSUME StateInv, [StateNext]_stateVars PROVE StateInv'
    OBVIOUS
  <2>1. CASE StateNext
    BY <2>1, StateTyped, CaptureFollowsStep, RestoreFollowsStep DEF StateInv
  <2>2. CASE UNCHANGED stateVars
    BY <2>2 DEF stateVars, StateInv, StateTypeOK, CaptureFollows, RestoreFollows,
                ItemsBack
  <2> QED
    BY <2>1, <2>2
<1> QED
  BY <1>1, <1>2, PTL

\* A capture that returns has all of one document, and a restore has it all back.
LEMMA InvBringsBack == StateInv => RestoreBringsBack
BY DEF StateInv, CaptureFollows, RestoreFollows, ItemsBack, RestoreBringsBack,
       Returned

\* A step that changes a storage while nothing else moves is one of a restore at home.
LEMMA StepStaysHome == ASSUME StateInv, StateNext PROVE RestoreStaysHome
<1>1. CASE \E i \in Items : Apply(i)
  <2> PICK i \in Items : Apply(i)
    BY <1>1
  <2>1. /\ \A o \in Origins \ {origin} : store'[o] = store[o]
        /\ \A a \in Areas \ {state.area} : store'[origin][a] = store[origin][a]
        /\ state.tool = "restore" /\ state.step = "command"
        /\ UNCHANGED <<origin, saved, still>>
    BY ApplyEffect DEF StateInv
  <2>2. still /\ state.area # "cookies" => saved.origin = origin
    BY <2>1 DEF StateInv, RestoreFollows
  <2> QED
    BY <2>1, <2>2 DEF RestoreStaysHome, Areas
<1>2. CASE ~(\E i \in Items : Apply(i))
  <2>1. still' = FALSE \/ store' = store
    BY <1>2 DEF StateNext, SetCookie, SetLocal, SetSession, Put, Change, ClearArea,
                MoveTo, BeginState, EndState, StateRaises, Capture, ReadOrigin,
                NextArea
  <2> QED
    BY <2>1 DEF RestoreStaysHome
<1> QED
  BY <1>1, <1>2

\* The storage state is well typed, and restores are faithful.
LEMMA StateKept == StateInit /\ [][StateNext]_stateVars => []StateTypeOK /\ RestoreIsFaithful
<1>1. StateInv /\ RestoreBringsBack' /\ [StateNext]_stateVars
         => [RestoreBringsBack' /\ RestoreStaysHome]_stateVars
  BY StepStaysHome
<1>2. StateInv => StateTypeOK
  BY DEF StateInv
<1> QED
  BY <1>1, <1>2, InvBringsBack, StateInvariant, PTL DEF RestoreIsFaithful

-----------------------------------------------------------------------------
(* PathPolicy: where a path leads                                          *)

\* A walk of the first m parts of a path.
IsWalk(f, path, m) ==
    f = [n \in 0 .. m |-> IF n = 0 THEN <<>> ELSE Walk(f[n - 1], path[n])]

\* A walk of a path goes on from a walk of its beginning.
LEMMA WalkGoesOn ==
    ASSUME NEW path, NEW m \in Nat, NEW f, IsWalk(f, path, m)
    PROVE  \E g : IsWalk(g, path, m + 1)
<1> DEFINE g == [n \in 0 .. m + 1 |-> IF n = m + 1 THEN Walk(f[m], path[m + 1]) ELSE f[n]]
<1>1. \A n \in 0 .. m : f[n] = IF n = 0 THEN <<>> ELSE Walk(f[n - 1], path[n])
  BY DEF IsWalk
<1>2. ASSUME NEW n \in 0 .. m + 1
      PROVE  g[n] = IF n = 0 THEN <<>> ELSE Walk(g[n - 1], path[n])
  <2>1. CASE n = m + 1
    <3>1. n - 1 = m /\ n # 0 /\ g[n - 1] = f[m] /\ g[n] = Walk(f[m], path[m + 1])
      BY <2>1
    <3> QED
      BY <2>1, <3>1
  <2>2. CASE n # m + 1
    <3>1. n \in 0 .. m /\ g[n] = f[n]
      BY <2>2
    <3>2. CASE n = 0
      BY <1>1, <3>1, <3>2
    <3>3. CASE n # 0
      <4>1. g[n - 1] = f[n - 1]
        BY <3>1, <3>3
      <4> QED
        BY <1>1, <3>1, <3>3, <4>1
    <3> QED
      BY <3>2, <3>3
  <2> QED
    BY <2>1, <2>2
<1>3. g = [n \in 0 .. m + 1 |-> g[n]]
  OBVIOUS
<1> HIDE DEF g
<1>4. IsWalk(g, path, m + 1)
  BY <1>2, <1>3 DEF IsWalk
<1> QED
  BY <1>4

\* So every path has a walk.
LEMMA WalkExists ==
    ASSUME NEW path, NEW l \in Nat
    PROVE  \E f : IsWalk(f, path, l)
<1> DEFINE T == {m \in Nat : ~ \E f : IsWalk(f, path, m)}
<1>1. ASSUME T # {}
      PROVE  FALSE
  <2>1. PICK m \in T : \A k \in T : m <= k
    BY <1>1, LeastNat
  <2>2. m \in Nat /\ ~ \E f : IsWalk(f, path, m)
    BY <2>1
  <2>3. CASE m = 0
    <3> DEFINE g == [n \in 0 .. 0 |-> <<>>]
    <3>1. g = [n \in 0 .. 0 |-> IF n = 0 THEN <<>> ELSE Walk(g[n - 1], path[n])]
      OBVIOUS
    <3> HIDE DEF g
    <3>2. IsWalk(g, path, 0)
      BY <3>1 DEF IsWalk
    <3> QED
      BY <2>2, <2>3, <3>2
  <2>4. CASE m # 0
    <3>1. m - 1 \in Nat /\ m - 1 \notin T /\ (m - 1) + 1 = m
      BY <2>1, <2>2, <2>4
    <3>2. PICK f : IsWalk(f, path, m - 1)
      BY <3>1
    <3>3. \E g : IsWalk(g, path, (m - 1) + 1)
      BY <3>1, <3>2, WalkGoesOn
    <3> QED
      BY <2>2, <3>1, <3>3
  <2> QED
    BY <2>3, <2>4
<1> QED
  BY <1>1

\* The beginning of a canonical path is canonical, ...
LEMMA FrontIsCanonical ==
    ASSUME NEW at \in PathSeqs, IsCanonical(at), at # <<>>
    PROVE  Front(at) \in PathSeqs /\ IsCanonical(Front(at))
<1> DEFINE f == Front(at)
<1>1. Len(at) \in Nat \ {0} /\ DOMAIN at = 1 .. Len(at)
  BY DEF PathSeqs
<1>2. /\ f \in PathSeqs /\ Len(f) = Len(at) - 1 /\ DOMAIN f = 1 .. Len(at) - 1
      /\ \A i \in 1 .. Len(at) - 1 : f[i] = at[i]
  BY <1>1 DEF PathSeqs, Front
<1> HIDE DEF f
<1>3. \A i \in DOMAIN f : f[i] # Up
  BY <1>1, <1>2 DEF IsCanonical
<1>4. ASSUME NEW link \in DOMAIN Links, IsPrefix(link, f)
      PROVE  FALSE
  <2>1. link \in PathSeqs /\ Len(link) \in Nat /\ Len(link) <= Len(f)
    BY <1>4, LinksAssumption DEF PathSeqs, IsPrefix
  <2>2. SubSeq(at, 1, Len(link)) = SubSeq(f, 1, Len(link))
    BY <1>1, <1>2, <2>1 DEF PathSeqs
  <2>3. IsPrefix(link, at)
    BY <1>1, <1>2, <1>4, <2>1, <2>2 DEF IsPrefix
  <2> QED
    BY <2>3 DEF IsCanonical
<1>5. IsCanonical(f)
  BY <1>3, <1>4 DEF IsCanonical
<1> QED
  BY <1>2, <1>5 DEF f

\* A sequence with one element more.
LEMMA OneLonger ==
    ASSUME NEW S, NEW s \in Seq(S), NEW e \in S
    PROVE  /\ Append(s, e) \in Seq(S) /\ Len(Append(s, e)) = Len(s) + 1
           /\ DOMAIN Append(s, e) = 1 .. Len(s) + 1 /\ Append(s, e)[Len(s) + 1] = e
           /\ \A i \in 1 .. Len(s) : Append(s, e)[i] = s[i]
  OBVIOUS

\* ... and so is one part more that is neither ".." nor a link.
LEMMA AppendIsCanonical ==
    ASSUME NEW at \in PathSeqs, IsCanonical(at), NEW piece \in Parts, piece # Up,
           Append(at, piece) \notin DOMAIN Links
    PROVE  Append(at, piece) \in PathSeqs /\ IsCanonical(Append(at, piece))
<1> DEFINE f == Append(at, piece)
<1>1. Len(at) \in Nat /\ DOMAIN at = 1 .. Len(at)
  BY DEF PathSeqs
<1>2. /\ f \in PathSeqs /\ Len(f) = Len(at) + 1 /\ DOMAIN f = 1 .. Len(at) + 1
      /\ f[Len(at) + 1] = piece
      /\ \A i \in 1 .. Len(at) : f[i] = at[i]
  BY OneLonger DEF PathSeqs
<1>0. f \notin DOMAIN Links
  OBVIOUS
<1> HIDE DEF f
<1>3. \A i \in DOMAIN f : f[i] # Up
  <2>1. \A i \in 1 .. Len(at) : at[i] # Up
    BY <1>1 DEF IsCanonical
  <2>2. \A i \in 1 .. Len(at) + 1 : i = Len(at) + 1 \/ i \in 1 .. Len(at)
    BY <1>1
  <2> QED
    BY <1>2, <2>1, <2>2
<1>4. ASSUME NEW link \in DOMAIN Links, IsPrefix(link, f)
      PROVE  FALSE
  <2>1. /\ link \in PathSeqs /\ Len(link) \in Nat /\ Len(link) <= Len(f)
        /\ SubSeq(link, 1, Len(link)) = link /\ SubSeq(f, 1, Len(f)) = f
    BY <1>2, <1>4, LinksAssumption DEF PathSeqs, IsPrefix
  <2>2. Len(link) # Len(f)
    <3>1. SubSeq(link, 1, Len(link)) = SubSeq(f, 1, Len(link))
      BY <1>4 DEF IsPrefix
    <3>2. ASSUME Len(link) = Len(f)
          PROVE  link = f
      BY <2>1, <3>1, <3>2
    <3>3. link # f
      BY <1>0
    <3> QED
      BY <3>2, <3>3
  <2>3. Len(link) <= Len(at)
    <3>1. Len(link) \in Nat /\ Len(link) <= Len(f)
      BY <2>1
    <3>2. Len(at) \in Nat /\ Len(f) = Len(at) + 1
      BY <1>1, <1>2
    <3> QED
      BY <2>2, <3>1, <3>2
  <2>4. SubSeq(at, 1, Len(link)) = SubSeq(f, 1, Len(link))
    BY <1>1, <1>2, <2>1, <2>3 DEF PathSeqs
  <2>5. IsPrefix(link, at)
    BY <1>4, <2>3, <2>4 DEF IsPrefix
  <2> QED
    BY <2>5 DEF IsCanonical
<1>5. IsCanonical(f)
  BY <1>3, <1>4 DEF IsCanonical
<1> QED
  BY <1>2, <1>5 DEF f

\* What one part leads to from a canonical path is canonical.
LEMMA WalkIsCanonical ==
    ASSUME NEW at \in PathSeqs, IsCanonical(at), NEW piece \in Parts
    PROVE  Walk(at, piece) \in PathSeqs /\ IsCanonical(Walk(at, piece))
<1>1. CASE piece = Up
  BY <1>1, FrontIsCanonical DEF Walk
<1>2. CASE piece # Up /\ Append(at, piece) \in DOMAIN Links
  BY <1>2, LinksAssumption DEF Walk
<1>3. CASE piece # Up /\ Append(at, piece) \notin DOMAIN Links
  BY <1>3, AppendIsCanonical DEF Walk
<1> QED
  BY <1>1, <1>2, <1>3

\* Whatever path is walked, the result has no ".." in it and does not go through a link.
LEMMA CanonicalIsCanonical ==
    ASSUME NEW path \in PathSeqs
    PROVE  Canonical(path) \in PathSeqs /\ IsCanonical(Canonical(path))
<1> DEFINE walked == CHOOSE f : IsWalk(f, path, Len(path))
<1>0. Len(path) \in Nat /\ \A n \in 1 .. Len(path) : path[n] \in Parts
  BY DEF PathSeqs
<1>1. IsWalk(walked, path, Len(path))
  BY <1>0, WalkExists
<1>2. Canonical(path) = walked[Len(path)]
  BY DEF Canonical, IsWalk
<1> HIDE DEF walked
<1>3. \A n \in 0 .. Len(path) : walked[n] = IF n = 0 THEN <<>> ELSE Walk(walked[n - 1], path[n])
  BY <1>1 DEF IsWalk
<1> DEFINE T == {n \in 0 .. Len(path) : ~(walked[n] \in PathSeqs /\ IsCanonical(walked[n]))}
<1>4. ASSUME T # {}
      PROVE  FALSE
  <2>0. T \subseteq Nat
    BY <1>0
  <2>1. PICK n \in T : \A k \in T : n <= k
    <3> HIDE DEF T
    <3> QED
      BY <1>4, <2>0, LeastNat
  <2>2. CASE n = 0
    <3>1. walked[0] = <<>>
      BY <1>0, <1>3
    <3>2. <<>> \in PathSeqs /\ Len(<<>>) = 0 /\ DOMAIN <<>> = 1 .. 0
      BY DEF PathSeqs
    <3>3. \A link \in DOMAIN Links : Len(link) \in Nat /\ Len(link) # 0
      BY LinksAssumption DEF PathSeqs
    <3>4. IsCanonical(<<>>)
      BY <3>2, <3>3 DEF IsCanonical, IsPrefix
    <3> QED
      BY <2>1, <2>2, <3>1, <3>2, <3>4
  <2>3. CASE n # 0
    <3>1. n - 1 \in 0 .. Len(path) /\ n - 1 \notin T /\ n \in 1 .. Len(path)
      BY <1>0, <2>1, <2>3
    <3>2. walked[n - 1] \in PathSeqs /\ IsCanonical(walked[n - 1])
      BY <3>1
    <3>3. walked[n] = Walk(walked[n - 1], path[n]) /\ path[n] \in Parts
      BY <1>0, <1>3, <2>3, <3>1
    <3> QED
      BY <2>1, <3>2, <3>3, WalkIsCanonical
  <2> QED
    BY <2>2, <2>3
<1>5. Len(path) \in 0 .. Len(path) /\ Len(path) \notin T
  BY <1>0, <1>4
<1> QED
  BY <1>2, <1>5

\* The path of every name that a call can be given is canonical.
LEMMA OutputPathIsCanonical ==
    ASSUME NEW g \in GivenNames
    PROVE  OutputPath(g) \in PathSeqs /\ IsCanonical(OutputPath(g))
<1>1. g.parts \in PathSeqs
  BY DEF GivenNames
<1>2. OutputDir \o g.parts \in PathSeqs
  BY <1>1, OutputDirAssumption DEF PathSeqs
<1> QED
  BY <1>1, <1>2, CanonicalIsCanonical DEF OutputPath

-----------------------------------------------------------------------------
(* Sequences: beginnings                                                   *)

\* Sequences are equal when they have the same elements.
LEMMA SeqEqual ==
    ASSUME NEW S, NEW s \in Seq(S), NEW t \in Seq(S), Len(s) = Len(t),
           \A i \in 1 .. Len(s) : s[i] = t[i]
    PROVE  s = t
  OBVIOUS

\* A sequence begins another when it is no longer and has the same elements.
LEMMA PrefixByElements ==
    ASSUME NEW S, NEW s \in Seq(S), NEW t \in Seq(S)
    PROVE  IsPrefix(s, t) <=> Len(s) <= Len(t) /\ \A i \in 1 .. Len(s) : s[i] = t[i]
<1>1. Len(s) \in Nat /\ Len(t) \in Nat /\ SubSeq(s, 1, Len(s)) = s
  OBVIOUS
<1>2. ASSUME Len(s) <= Len(t)
      PROVE  SubSeq(t, 1, Len(s)) = s <=> \A i \in 1 .. Len(s) : s[i] = t[i]
  <2> DEFINE b == SubSeq(t, 1, Len(s))
  <2>1. b \in Seq(S) /\ Len(b) = Len(s) /\ \A i \in 1 .. Len(s) : b[i] = t[i]
    BY <1>1, <1>2
  <2> HIDE DEF b
  <2>2. (\A i \in 1 .. Len(s) : s[i] = t[i]) => b = s
    BY <2>1, SeqEqual
  <2>3. b = s => \A i \in 1 .. Len(s) : s[i] = t[i]
    BY <2>1
  <2> QED
    BY <2>2, <2>3 DEF b
<1> QED
  BY <1>1, <1>2 DEF IsPrefix

\* The beginning of a beginning is one.
LEMMA PrefixOfPrefix ==
    ASSUME NEW S, NEW s \in Seq(S), NEW t \in Seq(S), NEW r \in Seq(S), IsPrefix(s, t), IsPrefix(t, r)
    PROVE  IsPrefix(s, r)
<1>1. Len(s) \in Nat /\ Len(t) \in Nat /\ Len(r) \in Nat
  OBVIOUS
<1>2. Len(s) <= Len(t) /\ \A i \in 1 .. Len(s) : s[i] = t[i]
  BY PrefixByElements
<1>3. Len(t) <= Len(r) /\ \A i \in 1 .. Len(t) : t[i] = r[i]
  BY PrefixByElements
<1>4. Len(s) <= Len(r) /\ \A i \in 1 .. Len(s) : s[i] = r[i]
  BY <1>1, <1>2, <1>3
<1> QED
  BY <1>4, PrefixByElements

\* From the beginning of a sequence that is not all of it, one element further on.
LEMMA PrefixGoesOn ==
    ASSUME NEW S, NEW s \in Seq(S), NEW t \in Seq(S), IsPrefix(s, t), s # t
    PROVE  \E e \in Prefixes(t) : Len(e) = Len(s) + 1 /\ IsPrefix(s, e) /\ IsPrefix(e, t)
<1>1. /\ Len(s) \in Nat /\ Len(t) \in Nat /\ Len(s) <= Len(t)
      /\ \A i \in 1 .. Len(s) : s[i] = t[i]
  BY PrefixByElements
<1>2. Len(s) # Len(t)
  BY <1>1, SeqEqual
<1> DEFINE n == Len(s) + 1
           e == SubSeq(t, 1, n)
<1>3. n \in 0 .. Len(t) /\ n \in Nat /\ n <= Len(t)
  BY <1>1, <1>2
<1>4. e \in Seq(S) /\ Len(e) = n /\ \A i \in 1 .. n : e[i] = t[i]
  BY <1>3
<1>5. e \in Prefixes(t)
  BY <1>3 DEF Prefixes
<1> HIDE DEF e
<1>6. IsPrefix(e, t)
  BY <1>3, <1>4, PrefixByElements
<1>7. Len(s) <= Len(e) /\ \A i \in 1 .. Len(s) : s[i] = e[i]
  BY <1>1, <1>4
<1>8. IsPrefix(s, e)
  BY <1>4, <1>7, PrefixByElements
<1> QED
  BY <1>4, <1>5, <1>6, <1>8

\* What begins a sequence is one of its prefixes, and is a sequence.
LEMMA PrefixesAreSequences ==
    ASSUME NEW S, NEW t \in Seq(S)
    PROVE  /\ \A e \in Prefixes(t) : e \in Seq(S)
           /\ Front(t) \in Seq(S) /\ IsPrefix(t, t)
<1>1. Len(t) \in Nat /\ \A n \in 0 .. Len(t) : SubSeq(t, 1, n) \in Seq(S)
  OBVIOUS
<1>2. Front(t) \in Seq(S)
  BY <1>1 DEF Front
<1>3. IsPrefix(t, t)
  BY <1>1 DEF IsPrefix
<1> QED
  BY <1>1, <1>2, <1>3 DEF Prefixes

-----------------------------------------------------------------------------
(* OutputFiles: the folders                                                *)

\* Paths, folders and the parts of paths are sequences.
LEMMA PathsAreSequences ==
    /\ Paths \subseteq PathSeqs /\ Folders \subseteq PathSeqs /\ OutputDir \in Folders
    /\ \A p \in Paths : Front(p) \in PathSeqs /\ Prefixes(Front(p)) \subseteq Folders
<1>1. ASSUME NEW p \in Paths
      PROVE  p \in PathSeqs
  <2>1. \A i \in DOMAIN Artifacts : Artifacts[i] \in GivenNames
    BY ArtifactsAssumption
  <2>2. \A g \in GivenNames : OutputPath(g) \in PathSeqs
    BY OutputPathIsCanonical
  <2> QED
    BY <1>1, <2>1, <2>2, NamesAssumption, OutsideAssumption DEF Paths
<1>2. ASSUME NEW p \in Paths
      PROVE  Front(p) \in PathSeqs /\ Prefixes(Front(p)) \subseteq PathSeqs
  BY <1>1, PrefixesAreSequences DEF PathSeqs
<1>3. \A p \in Paths : Prefixes(Front(p)) \subseteq Folders
  BY DEF Folders
<1>5. \A e : e \in Folders <=> e = OutputDir \/ \E p \in Paths : e \in Prefixes(Front(p))
  BY DEF Folders
<1>4. Folders \subseteq PathSeqs
  BY <1>2, <1>5, OutputDirAssumption
<1> QED
  BY <1>1, <1>2, <1>3, <1>4, <1>5

\* What each kind of listing is of, and the folders that it goes into.
Scope == [tool \in Listings |-> {p \in Paths : InScope(tool, p)}]
Tree == [tool \in Listings |->
           IF tool = "downloads" THEN {OutputDir} ELSE {d \in Folders : IsPrefix(OutputDir, d)}]

\* The folders on the way to each path.
Way == [p \in Paths |-> {d \in Folders : IsPrefix(d, Front(p))}]

\* A listing begins on the way to all that it is of.
LEMMA ListingBegins ==
    ASSUME NEW tool \in Listings
    PROVE  OutputDir \in Tree[tool] /\ \A p \in Scope[tool] : OutputDir \in Way[p]
<1>1. OutputDir \in Folders /\ OutputDir \in PathSeqs
  BY PathsAreSequences
<1>2. IsPrefix(OutputDir, OutputDir)
  BY <1>1, PrefixesAreSequences DEF PathSeqs
<1>3. ASSUME NEW p \in Scope[tool]
      PROVE  IsPrefix(OutputDir, Front(p)) /\ p \in Paths
  BY <1>2, <1>3 DEF Scope, InScope, IsWithin
<1> QED
  BY <1>1, <1>2, <1>3 DEF Tree, Way

\* What is in a folder of the listing is what the listing is of.
LEMMA ListingStays ==
    /\ \A tool \in Listings : \A d \in Tree[tool] : \A p \in Paths : Front(p) = d => p \in Scope[tool]
    /\ \A p \in Scope["downloads"] : Front(p) = OutputDir
    /\ Tree["downloads"] = {OutputDir}
    /\ \A d \in Tree["list"] : FoldersIn(d) \subseteq Tree["list"]
    /\ \A tool \in Listings : Tree[tool] \subseteq Folders /\ Scope[tool] \subseteq Paths
<1>0. "downloads" \in Listings /\ "list" \in Listings /\ \A tool \in Listings : tool = "downloads" \/ tool = "list"
  BY DEF Listings
<1>1. ASSUME NEW tool \in Listings, NEW d \in Tree[tool], NEW p \in Paths, Front(p) = d
      PROVE  p \in Scope[tool]
  BY <1>0, <1>1 DEF Scope, Tree, InScope, IsWithin
<1>2. \A p \in Scope["downloads"] : Front(p) = OutputDir
  BY <1>0 DEF Scope, InScope
<1>3. ASSUME NEW d \in Tree["list"], NEW e \in FoldersIn(d)
      PROVE  e \in Tree["list"]
  <2>1. /\ d \in Folders /\ e \in Folders /\ IsPrefix(OutputDir, d) /\ IsPrefix(d, e)
    BY <1>0 DEF Tree, FoldersIn
  <2>2. IsPrefix(OutputDir, e)
    BY <2>1, PathsAreSequences, OutputDirAssumption, PrefixOfPrefix DEF PathSeqs
  <2> QED
    BY <1>0, <2>1, <2>2 DEF Tree
<1>4. \A tool \in Listings : Tree[tool] \subseteq Folders /\ Scope[tool] \subseteq Paths
  BY PathsAreSequences DEF Tree, Scope
<1>5. Tree["downloads"] = {OutputDir}
  BY <1>0 DEF Tree
<1> QED
  BY <1>1, <1>2, <1>3, <1>4, <1>5

\* A folder on the way to a file is the one that it is in, or has another one in it that
\* is on the way.
LEMMA WayGoesOn ==
    ASSUME NEW p \in Paths, NEW d \in Way[p], Front(p) # d
    PROVE  \E e \in FoldersIn(d) : e \in Way[p]
<1>1. /\ d \in Folders /\ d \in PathSeqs /\ Front(p) \in PathSeqs /\ IsPrefix(d, Front(p))
      /\ Prefixes(Front(p)) \subseteq Folders
  BY PathsAreSequences DEF Way
<1>2. PICK e \in Prefixes(Front(p)) :
         Len(e) = Len(d) + 1 /\ IsPrefix(d, e) /\ IsPrefix(e, Front(p))
  BY <1>1, PrefixGoesOn DEF PathSeqs
<1> QED
  BY <1>1, <1>2 DEF FoldersIn, Way

\* A folder on the way to a file holds one.
LEMMA WayHoldsFile ==
    ASSUME NEW p \in Paths, p \in DOMAIN files, NEW d \in Way[p]
    PROVE  HoldsFile(d)
BY DEF HoldsFile, Way

-----------------------------------------------------------------------------
(* OutputFiles: the output directory                                       *)

\* The numbers that calls and downloads have been given are past, and those of downloads
\* are theirs alone.
NumbersFit ==
    /\ \A p \in DOMAIN files : files[p] <= made
    /\ arrived \subseteq 1..made /\ lost \subseteq 0..made
    /\ \A t \in Threads : fileCall[t].number <= made /\ fileCall[t].number \notin arrived

\* A download is nowhere once it is lost, and in one place until then.
InOnePlace ==
    \A n \in arrived :
       /\ n \in lost => \A p \in DOMAIN files : files[p] # n
       /\ n \notin lost => \E p \in DOMAIN files : files[p] = n
       /\ \A p, q \in DOMAIN files : files[p] = n /\ files[q] = n => p = q

\* Places that the tools may touch.
Places == {p \in Paths : Unrestricted \/ \E root \in Roots : IsPrefix(root, p)}

\* Named calls that are not refused are at such places.  Only a listing visits; only a
\* save moves, and it has two paths then.
FileStepFits(t) ==
    /\ fileCall[t].tool \in NamedTools /\ fileCall[t].step # "raised" =>
          {fileCall[t].source, fileCall[t].target} \subseteq Places
    /\ fileCall[t].step = "visit" => fileCall[t].tool \in Listings
    /\ fileCall[t].step = "first" => fileCall[t].tool \notin Listings
    /\ fileCall[t].step = "stat" => fileCall[t].tool \in Listings \cup {"save"}
    /\ fileCall[t].step = "move" => fileCall[t].tool = "save" /\ fileCall[t].source # fileCall[t].target
    /\ fileCall[t].step = "unlink" => fileCall[t].tool = "delete"

\* What a listing has not reached is still ahead of it, and there unless others have
\* been at work on it; and what is there now was there, or others have been at work on it.
ListingFollows(t) ==
    fileCall[t].tool \in Listings /\ fileCall[t].step \in {"visit", "stat", "done"} =>
       /\ fileCall[t].began \ fileCall[t].touched \subseteq DOMAIN files
       /\ \A p \in fileCall[t].began \ fileCall[t].touched :
             \/ p \in fileCall[t].listed \cup fileCall[t].pending
             \/ fileCall[t].unread \cap Way[p] # {}
       /\ DOMAIN files \cap Scope[fileCall[t].tool] \subseteq fileCall[t].began \cup fileCall[t].touched
       /\ fileCall[t].listed \cup fileCall[t].pending \subseteq fileCall[t].began \cup fileCall[t].touched
       /\ fileCall[t].began \subseteq Scope[fileCall[t].tool]
       /\ fileCall[t].unread \subseteq Tree[fileCall[t].tool]
       /\ fileCall[t].step = "stat" => fileCall[t].target \in fileCall[t].pending
       /\ fileCall[t].step # "visit" => fileCall[t].unread = {}
       /\ fileCall[t].step = "done" => fileCall[t].pending = {}

\* A dump has left each artifact that it is through with.
LeftArtifact(t, p) == p \in fileCall[t].touched \/ (p \in DOMAIN files /\ files[p] = fileCall[t].number)

\* A dump that has not failed has left each artifact that it is through with.
DumpFollows(t) ==
    fileCall[t].tool = "dump" /\ fileCall[t].step \in {"first", "done"} =>
       /\ \A i \in 1..fileCall[t].next - 1 : LeftArtifact(t, OutputPath(Artifacts[i]))
       /\ fileCall[t].step = "done" => fileCall[t].next > Len(Artifacts)

\* What is so of each call.
FileCallFollows(t) == FileStepFits(t) /\ ListingFollows(t) /\ DumpFollows(t)

\* The inductive invariant of the files.
FilesInv == FilesTypeOK /\ NumbersFit /\ InOnePlace /\ \A t \in Threads : FileCallFollows(t)

-----------------------------------------------------------------------------

\* There are as many artifacts as the type of a call says.
LEMMA ArtifactsCounted ==
    /\ Len(Artifacts) \in Nat /\ DOMAIN Artifacts = 1..Len(Artifacts)
    /\ \A i \in 1..Len(Artifacts) : OutputPath(Artifacts[i]) \in Paths
<1>1. Len(Artifacts) \in Nat /\ DOMAIN Artifacts = 1..Len(Artifacts)
  BY ArtifactsAssumption
<1> QED
  BY <1>1 DEF Paths

\* The paths of what is allowed are places, and those of downloads are.
LEMMA AllowedPlaces ==
    /\ \A g \in Given : OutputAllowed(g) => OutputPath(g) \in Places
    /\ \A g \in Downloads : OutputPath(g) \in Places
    /\ \A i \in 1..Len(Artifacts) : OutputAllowed(Artifacts[i]) => OutputPath(Artifacts[i]) \in Places
    /\ Places \subseteq Paths
<1>1. ASSUME NEW g, OutputAllowed(g), OutputPath(g) \in Paths
      PROVE  OutputPath(g) \in Places
  BY <1>1 DEF OutputAllowed, InputAllowed, OutputPath, IsWithin, Places, Roots
<1>2. \A g \in Given \cup Downloads : OutputPath(g) \in Paths
  BY DEF Paths
<1>3. Places \subseteq Paths
  BY DEF Places
<1> QED
  BY <1>1, <1>2, <1>3, DownloadsAssumption, ArtifactsCounted

\* A thread without a call.
LEMMA NoFileCallTyped == NoFileCall \in FileCalls
<1>1. 1 \in 1..Len(Artifacts) + 1 /\ 0 \in Made
  BY ArtifactsCounted, MaxMadeAssumption DEF Made
<1> QED
  BY <1>1 DEF NoFileCall, FileCalls

\* Numbers are bounded, and so is the next one.
LEMMA NextMade == ASSUME FilesTypeOK PROVE made < MaxMade => made + 1 \in Made
BY MaxMadeAssumption DEF FilesTypeOK, Made

\* What the other calls see of a change.
SeesFiles(u, changed) ==
    /\ fileCall'[u] = [fileCall[u] EXCEPT !.touched = fileCall'[u].touched]
    /\ fileCall'[u].touched \subseteq fileCall[u].touched \cup changed
    /\ fileCall[u].touched \subseteq fileCall'[u].touched
    /\ fileCall[u].step # "idle" => changed \subseteq fileCall'[u].touched

\* Nothing but what is at the changed paths changes.
FilesChangeOnly(changed) ==
    \A p : p \notin changed => (p \in DOMAIN files' <=> p \in DOMAIN files) /\ (p \in DOMAIN files => files'[p] = files[p])

\* A change leaves a call of its own, and the others see it.
LEMMA ChangingSeen ==
    ASSUME FilesTypeOK, NEW t, NEW call \in FileCalls, NEW changed \in SUBSET Paths,
           Changing(t, call, changed)
    PROVE  /\ fileCall' \in [Threads -> FileCalls]
           /\ t \in Threads => fileCall'[t] = call
           /\ \A u \in Threads \ {t} : SeesFiles(u, changed)
<1>1. \A u \in Threads : fileCall[u] \in FileCalls
  BY DEF FilesTypeOK
<1>2. ASSUME NEW u \in Threads
      PROVE  [fileCall[u] EXCEPT !.touched = @ \cup changed] \in FileCalls
  BY <1>1 DEF FileCalls
<1>3. ASSUME NEW u \in Threads \ {t}
      PROVE  SeesFiles(u, changed)
  <2>1. fileCall'[u] = IF fileCall[u].step = "idle" THEN fileCall[u]
                       ELSE [fileCall[u] EXCEPT !.touched = @ \cup changed]
    BY DEF Changing
  <2>2. fileCall[u] \in FileCalls
    BY <1>1
  <2>3. CASE fileCall[u].step = "idle"
    <3>1. fileCall[u] = [fileCall[u] EXCEPT !.touched = fileCall[u].touched]
      BY <2>2 DEF FileCalls
    <3> QED
      BY <2>1, <2>3, <3>1 DEF SeesFiles
  <2>4. CASE fileCall[u].step # "idle"
    <3>1. fileCall'[u].touched = fileCall[u].touched \cup changed
      BY <2>1, <2>2, <2>4 DEF FileCalls
    <3> QED
      BY <2>1, <2>4, <3>1 DEF SeesFiles
  <2> QED
    BY <2>3, <2>4
<1>4. fileCall' \in [Threads -> FileCalls]
  BY <1>1, <1>2 DEF Changing
<1> QED
  BY <1>3, <1>4 DEF Changing

\* A call that sees the changes of others follows them.
LEMMA OthersFollow ==
    ASSUME FilesTypeOK, NEW u \in Threads, FileCallFollows(u),
           NEW changed, SeesFiles(u, changed), FilesChangeOnly(changed)
    PROVE  FileCallFollows(u)'
<1>1. fileCall[u] \in FileCalls
  BY DEF FilesTypeOK
<1>2. /\ fileCall'[u].tool = fileCall[u].tool /\ fileCall'[u].step = fileCall[u].step
      /\ fileCall'[u].number = fileCall[u].number /\ fileCall'[u].source = fileCall[u].source
      /\ fileCall'[u].target = fileCall[u].target /\ fileCall'[u].pending = fileCall[u].pending
      /\ fileCall'[u].listed = fileCall[u].listed /\ fileCall'[u].began = fileCall[u].began
      /\ fileCall'[u].next = fileCall[u].next /\ fileCall'[u].unread = fileCall[u].unread
  BY <1>1 DEF SeesFiles, FileCalls
<1>3. /\ fileCall[u].touched \subseteq fileCall'[u].touched
      /\ fileCall[u].step # "idle" => changed \subseteq fileCall'[u].touched
  BY DEF SeesFiles
<1>4. FileStepFits(u)'
  BY <1>2 DEF FileCallFollows, FileStepFits
<1>5. ListingFollows(u)'
  BY <1>2, <1>3 DEF FileCallFollows, ListingFollows, FilesChangeOnly
<1>6. DumpFollows(u)'
  <2>1. \A p : fileCall[u].step # "idle" /\ LeftArtifact(u, p) => LeftArtifact(u, p)'
    BY <1>2, <1>3 DEF LeftArtifact, FilesChangeOnly
  <2> QED
    BY <1>2, <2>1 DEF FileCallFollows, DumpFollows
<1> QED
  BY <1>4, <1>5, <1>6 DEF FileCallFollows

\* A step of one call alone.
LEMMA LoneFileStep ==
    ASSUME FilesTypeOK, NEW t \in Threads, NEW call \in FileCalls, UNCHANGED files,
           fileCall' = [fileCall EXCEPT ![t] = call]
    PROVE  /\ fileCall' \in [Threads -> FileCalls] /\ fileCall'[t] = call
           /\ \A u \in Threads \ {t} : FileCallFollows(u) => FileCallFollows(u)'
<1>1. /\ fileCall' \in [Threads -> FileCalls] /\ fileCall'[t] = call
      /\ \A u \in Threads \ {t} : fileCall'[u] = fileCall[u]
  BY DEF FilesTypeOK
<1> QED
  BY <1>1 DEF FileCallFollows, FileStepFits, ListingFollows, DumpFollows,
              LeftArtifact

\* Every step keeps the types, and what is so of each call: its own step, and those of
\* others, which it sees.
LEMMA FileCallsFollowStep ==
    ASSUME FilesTypeOK, \A u \in Threads : FileCallFollows(u), FilesNext
    PROVE  FilesTypeOK' /\ \A u \in Threads : FileCallFollows(u)'
<1>1. ASSUME NEW g \in Downloads, DownloadBegins(OutputPath(g))
      PROVE  FilesTypeOK' /\ \A u \in Threads : FileCallFollows(u)'
  <2>1. arriving' \subseteq Paths /\ UNCHANGED <<files, fileCall, made, arrived, lost>>
    BY <1>1, AllowedPlaces DEF DownloadBegins, FilesTypeOK
  <2> QED
    BY <2>1 DEF FilesTypeOK, FileCallFollows, FileStepFits, ListingFollows,
                DumpFollows, NamedTools, Listings, LeftArtifact
<1>2. ASSUME NEW g \in Downloads, DownloadEnds(OutputPath(g))
      PROVE  FilesTypeOK' /\ \A u \in Threads : FileCallFollows(u)'
  <2> DEFINE p == OutputPath(g)
  <2>0. p \in Paths
    BY AllowedPlaces
  <2> HIDE DEF p
  <2>1. arriving' \subseteq Paths
    BY <1>2 DEF DownloadEnds, FilesTypeOK
  <2>2. CASE UNCHANGED <<files, fileCall, made, arrived, lost>>
    BY <2>1, <2>2 DEF FilesTypeOK, FileCallFollows, FileStepFits, ListingFollows,
                      DumpFollows, NamedTools, Listings, LeftArtifact
  <2>3. CASE /\ made < MaxMade
             /\ made' = made + 1 /\ arrived' = arrived \cup {made + 1}
             /\ files' = With(p, made + 1) /\ lost' = lost \cup Held(p)
             /\ Changing("browser", NoFileCall, {p})
    <3>1. /\ fileCall' \in [Threads -> FileCalls]
          /\ \A u \in Threads \ {"browser"} : SeesFiles(u, {p})
          /\ "browser" \in Threads => fileCall'["browser"] = NoFileCall
      BY <2>0, <2>3, NoFileCallTyped, ChangingSeen
    <3>2. FilesChangeOnly({p})
      BY <2>3 DEF FilesChangeOnly, With
    <3>3. \A u \in Threads \ {"browser"} : FileCallFollows(u)'
      BY <3>1, <3>2, OthersFollow
    <3>4. "browser" \in Threads => FileCallFollows("browser")'
      BY <3>1 DEF FileCallFollows, FileStepFits, ListingFollows, DumpFollows,
                  NamedTools, Listings, NoFileCall
    <3>5. /\ DOMAIN files' \subseteq Paths /\ \A q \in DOMAIN files' : files'[q] \in Made
          /\ made' \in Made /\ arrived' \subseteq Made /\ lost' \subseteq Made
      BY <2>0, <2>3, NextMade DEF FilesTypeOK, With, Held, Exists
    <3> QED
      BY <2>1, <3>1, <3>3, <3>4, <3>5 DEF FilesTypeOK
  <2> QED
    BY <1>2, <2>2, <2>3 DEF DownloadEnds, p
<1>3. ASSUME NEW t \in Threads, NEW tool \in NamedTools, NEW source \in Given, NEW target \in Given,
             BeginNamed(t, tool, source, target)
      PROVE  FilesTypeOK' /\ \A u \in Threads : FileCallFollows(u)'
  <2>0. /\ fileCall[t] \in FileCalls /\ fileCall \in [Threads -> FileCalls] /\ made \in Made
    BY DEF FilesTypeOK
  <2> DEFINE call == IF OutputAllowed(source) /\ OutputAllowed(target)
                     THEN [NoFileCall EXCEPT !.tool = tool, !.step = "first",
                              !.number = IF tool = "write" THEN made + 1 ELSE 0,
                              !.source = OutputPath(source), !.target = OutputPath(target)]
                     ELSE [NoFileCall EXCEPT !.tool = tool, !.step = "raised"]
  <2>1. made + 1 \in Made /\ 0 \in Made
    BY <1>3, NextMade, MaxMadeAssumption DEF BeginNamed, Made
  <2>2. /\ fileCall' = [fileCall EXCEPT ![t] = call]
        /\ UNCHANGED <<files, arriving, arrived, lost>> /\ made' = made + 1 /\ made < MaxMade
    BY <1>3 DEF BeginNamed
  <2>5. fileCall'[t] = call
    BY <2>0, <2>2
  <2>9. OutputPath(source) \in Paths /\ OutputPath(target) \in Paths
    BY DEF Paths
  <2>3. call \in FileCalls
    BY <2>1, <2>9, NoFileCallTyped DEF FileCalls, FileTools
  <2>4. /\ call.tool = tool /\ call.step \in {"first", "raised"}
        /\ call.step # "raised" => call.source \in Places /\ call.target \in Places
    BY AllowedPlaces DEF NoFileCall
  <2> HIDE DEF call
  <2>6. FileCallFollows(t)'
    BY <2>4, <2>5 DEF FileCallFollows, FileStepFits, ListingFollows, DumpFollows,
                      NamedTools, Listings, NamedTools, Listings
  <2>7. /\ fileCall' \in [Threads -> FileCalls]
        /\ \A u \in Threads \ {t} : FileCallFollows(u)'
    BY <2>2, <2>3, LoneFileStep
  <2>8. made' \in Made
    BY <2>2, NextMade
  <2> QED
    BY <2>2, <2>6, <2>7, <2>8 DEF FilesTypeOK
<1>4. ASSUME NEW t \in Threads, BeginDump(t)
      PROVE  FilesTypeOK' /\ \A u \in Threads : FileCallFollows(u)'
  <2>0. /\ fileCall[t] \in FileCalls /\ fileCall \in [Threads -> FileCalls] /\ made \in Made
    BY DEF FilesTypeOK
  <2> DEFINE call == [NoFileCall EXCEPT !.tool = "dump", !.step = "first", !.number = made + 1]
  <2>1. made + 1 \in Made /\ 0 \in Made
    BY <1>4, NextMade, MaxMadeAssumption DEF BeginDump, Made
  <2>2. /\ fileCall' = [fileCall EXCEPT ![t] = call]
        /\ UNCHANGED <<files, arriving, arrived, lost>> /\ made' = made + 1 /\ made < MaxMade
    BY <1>4 DEF BeginDump
  <2>5. fileCall'[t] = call
    BY <2>0, <2>2
  <2>3. call \in FileCalls
    BY <2>1, NoFileCallTyped DEF FileCalls, FileTools
  <2>4. call.tool = "dump" /\ call.step = "first" /\ call.next = 1
    BY DEF NoFileCall
  <2> HIDE DEF call
  <2>6. FileCallFollows(t)'
    <3>1. 1..call.next - 1 = {}
      BY <2>4
    <3> QED
      BY <2>4, <2>5, <3>1 DEF FileCallFollows, FileStepFits, ListingFollows,
                              DumpFollows, NamedTools, Listings, NamedTools,
                              Listings
  <2>7. /\ fileCall' \in [Threads -> FileCalls]
        /\ \A u \in Threads \ {t} : FileCallFollows(u)'
    BY <2>2, <2>3, LoneFileStep
  <2>8. made' \in Made
    BY <2>2, NextMade
  <2> QED
    BY <2>2, <2>6, <2>7, <2>8 DEF FilesTypeOK
<1>5. ASSUME NEW t \in Threads, NEW tool \in Listings, BeginListing(t, tool)
      PROVE  FilesTypeOK' /\ \A u \in Threads : FileCallFollows(u)'
  <2>0. /\ fileCall[t] \in FileCalls /\ fileCall \in [Threads -> FileCalls] /\ made \in Made
    BY DEF FilesTypeOK
  <2> DEFINE call == [NoFileCall EXCEPT !.tool = tool, !.step = "visit", !.unread = {OutputDir},
                        !.began = {p \in DOMAIN files : InScope(tool, p)}]
  <2>1. made + 1 \in Made /\ 0 \in Made
    BY <1>5, NextMade, MaxMadeAssumption DEF BeginListing, Made
  <2>2. /\ fileCall' = [fileCall EXCEPT ![t] = call]
        /\ UNCHANGED <<files, arriving, arrived, lost>> /\ made' = made + 1 /\ made < MaxMade
    BY <1>5 DEF BeginListing
  <2>5. fileCall'[t] = call
    BY <2>0, <2>2
  <2>9. {p \in DOMAIN files : InScope(tool, p)} = DOMAIN files \cap Scope[tool]
    BY DEF Scope, FilesTypeOK
  <2>3. call \in FileCalls
    <3>1. OutputDir \in Folders /\ DOMAIN files \subseteq Paths
      BY PathsAreSequences DEF FilesTypeOK
    <3> QED
      BY <2>9, <3>1, NoFileCallTyped DEF FileCalls, FileTools
  <2>4. /\ call.tool = tool /\ call.step = "visit" /\ call.unread = {OutputDir}
        /\ call.began = DOMAIN files \cap Scope[tool]
        /\ call.listed = {} /\ call.pending = {} /\ call.touched = {}
    BY <2>9 DEF NoFileCall
  <2> HIDE DEF call
  <2>6. FileCallFollows(t)'
    <3>1. OutputDir \in Tree[tool] /\ \A p \in Scope[tool] : OutputDir \in Way[p]
      BY ListingBegins
    <3>2. ListingFollows(t)'
      BY <2>2, <2>4, <2>5, <3>1 DEF ListingFollows
    <3> QED
      BY <2>4, <2>5, <3>2 DEF FileCallFollows, FileStepFits, DumpFollows,
                              NamedTools, Listings
  <2>7. /\ fileCall' \in [Threads -> FileCalls]
        /\ \A u \in Threads \ {t} : FileCallFollows(u)'
    BY <2>2, <2>3, LoneFileStep
  <2>8. made' \in Made
    BY <2>2, NextMade
  <2> QED
    BY <2>2, <2>6, <2>7, <2>8 DEF FilesTypeOK
<1>6. ASSUME NEW t \in Threads, EndFile(t)
      PROVE  FilesTypeOK' /\ \A u \in Threads : FileCallFollows(u)'
  <2> DEFINE call == NoFileCall
  <2>0. /\ fileCall[t] \in FileCalls /\ FileCallFollows(t) /\ fileCall \in [Threads -> FileCalls]
    BY DEF FilesTypeOK
  <2>1. call \in FileCalls
    BY <1>6, <2>0, NoFileCallTyped DEF EndFile, FileCalls
  <2>2. /\ fileCall' = [fileCall EXCEPT ![t] = call] /\ UNCHANGED files
        /\ UNCHANGED <<arriving, arrived, lost, made>>
    BY <1>6, <2>0, NoFileCallTyped DEF EndFile, FileCalls, Step, Exists
  <2>3. fileCall'[t] = call
    BY <2>0, <2>2
  <2>4. FileCallFollows(t)'
    BY <1>6, <2>0, <2>2, <2>3, NoFileCallTyped
       DEF EndFile, FileCallFollows, FileStepFits, ListingFollows, DumpFollows,
           NamedTools, Listings, LeftArtifact, FileCalls, NoFileCall
  <2> HIDE DEF call
  <2>5. /\ fileCall' \in [Threads -> FileCalls]
        /\ \A u \in Threads \ {t} : FileCallFollows(u)'
    BY <2>1, <2>2, LoneFileStep
  <2> QED
    BY <2>2, <2>4, <2>5 DEF FilesTypeOK
<1>7. ASSUME NEW t \in Threads, Write(t)
      PROVE  FilesTypeOK' /\ \A u \in Threads : FileCallFollows(u)'
  <2>0. fileCall[t] \in FileCalls /\ FileCallFollows(t)
    BY DEF FilesTypeOK
  <2> DEFINE call == [fileCall[t] EXCEPT !.step = "done"]
             changed == {fileCall[t].target}
  <2>1. call \in FileCalls /\ changed \in SUBSET Paths
    BY <1>7, <2>0, AllowedPlaces DEF Write, FileCalls, FileCallFollows,
                                     FileStepFits, NamedTools
  <2>2. Changing(t, call, changed) /\ UNCHANGED <<arriving, arrived, made>> /\ FilesChangeOnly(changed)
    BY <1>7, <2>0 DEF Write, With, FilesChangeOnly, Exists, FileCalls,
                      FileCallFollows, FileStepFits
  <2>3. /\ DOMAIN files' \subseteq Paths /\ \A q \in DOMAIN files' : files'[q] \in Made
        /\ lost' \subseteq Made
    BY <1>7, <2>0, <2>1 DEF Write, With, Held, Exists, FilesTypeOK, FileCalls
  <2>4. fileCall'[t] = call
    BY <2>1, <2>2, ChangingSeen
  <2>5. FileCallFollows(t)'
    BY <1>7, <2>0, <2>4 DEF Write, With, FileCallFollows, FileStepFits,
                            ListingFollows, DumpFollows, NamedTools, Listings,
                            LeftArtifact, FileCalls
  <2> HIDE DEF call, changed
  <2>6. /\ fileCall' \in [Threads -> FileCalls]
        /\ \A u \in Threads \ {t} : SeesFiles(u, changed)
    BY <2>1, <2>2, ChangingSeen
  <2>7. \A u \in Threads \ {t} : FileCallFollows(u)'
    BY <2>2, <2>6, OthersFollow
  <2> QED
    BY <2>2, <2>3, <2>5, <2>6, <2>7 DEF FilesTypeOK
<1>8. ASSUME NEW t \in Threads, ReadFile(t)
      PROVE  FilesTypeOK' /\ \A u \in Threads : FileCallFollows(u)'
  <2> DEFINE call == [fileCall[t] EXCEPT !.step = IF Exists(fileCall[t].target) THEN "done" ELSE "raised"]
  <2>0. /\ fileCall[t] \in FileCalls /\ FileCallFollows(t) /\ fileCall \in [Threads -> FileCalls]
    BY DEF FilesTypeOK
  <2>1. call \in FileCalls
    BY <1>8, <2>0 DEF ReadFile, FileCalls
  <2>2. /\ fileCall' = [fileCall EXCEPT ![t] = call] /\ UNCHANGED files
        /\ UNCHANGED <<arriving, arrived, lost, made>>
    BY <1>8, <2>0 DEF ReadFile, Step, Exists
  <2>3. fileCall'[t] = call
    BY <2>0, <2>2
  <2>4. FileCallFollows(t)'
    BY <1>8, <2>0, <2>2, <2>3 DEF ReadFile, FileCallFollows, FileStepFits,
                                  ListingFollows, DumpFollows, NamedTools, Listings,
                                  LeftArtifact, FileCalls, NamedTools, Listings
  <2> HIDE DEF call
  <2>5. /\ fileCall' \in [Threads -> FileCalls]
        /\ \A u \in Threads \ {t} : FileCallFollows(u)'
    BY <2>1, <2>2, LoneFileStep
  <2> QED
    BY <2>2, <2>4, <2>5 DEF FilesTypeOK
<1>9. ASSUME NEW t \in Threads, NEW d \in fileCall[t].unread, ReadFolder(t, d)
      PROVE  FilesTypeOK' /\ \A u \in Threads : FileCallFollows(u)'
  <2>0. /\ fileCall[t] \in FileCalls /\ fileCall \in [Threads -> FileCalls]
        /\ fileCall[t].tool \in Listings /\ fileCall[t].step = "visit" /\ ListingFollows(t)
    BY <1>9 DEF FilesTypeOK, ReadFolder, FileCallFollows, FileStepFits
  <2> DEFINE below == IF fileCall[t].tool = "list" THEN FoldersIn(d) ELSE {}
             names == {p \in DOMAIN files : Front(p) = d}
             parts == IF fileCall[t].tool = "list" THEN fileCall[t].parts \cup {p \in arriving : Front(p) = d}
                      ELSE {}
  <2>1. PICK found \in SUBSET below :
           /\ {e \in below : HoldsFile(e)} \subseteq found
           /\ fileCall' = [fileCall EXCEPT ![t] =
                 [fileCall[t] EXCEPT !.unread = (fileCall[t].unread \ {d}) \cup found,
                                     !.pending = fileCall[t].pending \cup names, !.parts = parts]]
    BY <1>9 DEF ReadFolder
  <2>2. UNCHANGED <<files, arriving, made, arrived, lost>> /\ d \in fileCall[t].unread
    BY <1>9 DEF ReadFolder
  <2>3. /\ below \subseteq Folders /\ names \subseteq Paths /\ parts \subseteq Paths
        /\ \A p \in Paths : p \in names <=> p \in DOMAIN files /\ Front(p) = d
    BY <2>0 DEF FilesTypeOK, FoldersIn, FileCalls
  <2>4. d \in Tree[fileCall[t].tool] /\ below \subseteq Tree[fileCall[t].tool]
    <3>1. d \in Tree[fileCall[t].tool]
      BY <2>0, <2>2 DEF ListingFollows
    <3> QED
      BY <3>1, ListingStays
  <2>5. fileCall[t].tool = "downloads" \/ below = FoldersIn(d)
    BY <2>0 DEF Listings
  <2> HIDE DEF below, names, parts
  <2> DEFINE call == [fileCall[t] EXCEPT !.unread = (fileCall[t].unread \ {d}) \cup found,
                                         !.pending = fileCall[t].pending \cup names, !.parts = parts]
  <2>6. /\ call \in FileCalls /\ call.tool = fileCall[t].tool /\ call.step = "visit"
        /\ call.unread = (fileCall[t].unread \ {d}) \cup found
        /\ call.pending = fileCall[t].pending \cup names
        /\ call.listed = fileCall[t].listed /\ call.began = fileCall[t].began
        /\ call.touched = fileCall[t].touched
    BY <2>0, <2>1, <2>3 DEF FileCalls
  <2>7. fileCall' = [fileCall EXCEPT ![t] = call] /\ fileCall'[t] = call
    BY <2>0, <2>1
  <2> HIDE DEF call
  <2>8. ASSUME NEW p \in call.began \ call.touched
        PROVE  p \in call.listed \cup call.pending \/ call.unread \cap Way[p] # {}
    <3>1. /\ p \in DOMAIN files /\ p \in Paths /\ p \in Scope[fileCall[t].tool]
          /\ \/ p \in fileCall[t].listed \cup fileCall[t].pending
             \/ fileCall[t].unread \cap Way[p] # {}
      BY <2>0, <2>6 DEF ListingFollows, FilesTypeOK
    <3>2. CASE p \in fileCall[t].listed \cup fileCall[t].pending
      BY <2>6, <3>2
    <3>3. CASE \E f \in fileCall[t].unread \cap Way[p] : f # d
      BY <2>6, <3>3
    <3>4. CASE d \in Way[p] /\ Front(p) = d
      BY <2>3, <2>6, <3>1, <3>4
    <3>5. CASE d \in Way[p] /\ Front(p) # d
      <4>1. fileCall[t].tool # "downloads"
        BY <2>4, <3>1, <3>5, ListingStays
      <4>2. PICK e \in FoldersIn(d) : e \in Way[p]
        BY <3>1, <3>5, WayGoesOn
      <4>3. HoldsFile(e)
        BY <3>1, <4>2, WayHoldsFile
      <4>4. e \in found
        BY <2>1, <2>5, <4>1, <4>2, <4>3
      <4> QED
        BY <2>6, <4>2, <4>4
    <3> QED
      BY <3>1, <3>2, <3>3, <3>4, <3>5
  <2>9. names \subseteq call.began \cup call.touched
    <3>1. ASSUME NEW p \in names
          PROVE  p \in Scope[fileCall[t].tool] /\ p \in DOMAIN files
      BY <2>0, <2>3, <2>4, ListingStays
    <3> QED
      BY <2>0, <2>6, <3>1 DEF ListingFollows
  <2>10. ListingFollows(t)'
    <3>1. found \subseteq Tree[fileCall[t].tool]
      BY <2>1, <2>4
    <3> QED
      BY <2>0, <2>2, <2>6, <2>7, <2>8, <2>9, <3>1 DEF ListingFollows
  <2>11. FileStepFits(t)' /\ DumpFollows(t)'
    BY <2>0, <2>6, <2>7 DEF FileStepFits, DumpFollows, NamedTools, Listings
  <2>12. /\ fileCall' \in [Threads -> FileCalls]
         /\ \A u \in Threads \ {t} : FileCallFollows(u)'
    BY <2>2, <2>6, <2>7, LoneFileStep
  <2> QED
    BY <2>2, <2>10, <2>11, <2>12 DEF FilesTypeOK, FileCallFollows
<1>10. ASSUME NEW t \in Threads, NEW p \in fileCall[t].pending, VisitName(t, p)
      PROVE  FilesTypeOK' /\ \A u \in Threads : FileCallFollows(u)'
  <2>0. /\ fileCall[t] \in FileCalls /\ FileCallFollows(t) /\ fileCall \in [Threads -> FileCalls]
        /\ fileCall[t].step = "visit" /\ fileCall[t].tool \in Listings /\ p \in Paths
        /\ fileCall[t].unread = {}
    BY <1>10 DEF FilesTypeOK, VisitName, FileCallFollows, FileStepFits, FileCalls
  <2>1. UNCHANGED <<files, arriving, made, arrived, lost>>
    BY <1>10 DEF VisitName
  <2> DEFINE call == IF p \in DOMAIN files THEN [fileCall[t] EXCEPT !.step = "stat", !.target = p]
                     ELSE [fileCall[t] EXCEPT !.pending = fileCall[t].pending \ {p}]
  <2>2. call \in FileCalls
    BY <2>0 DEF FileCalls
  <2>3. fileCall' = [fileCall EXCEPT ![t] = call] /\ fileCall'[t] = call
    BY <1>10, <2>0 DEF VisitName, Exists
  <2>4. /\ call.tool = fileCall[t].tool /\ call.listed = fileCall[t].listed
        /\ call.began = fileCall[t].began /\ call.touched = fileCall[t].touched
        /\ call.unread = {}
        /\ \/ call.step = "stat" /\ call.target = p /\ call.pending = fileCall[t].pending
           \/ p \notin DOMAIN files /\ call.step = "visit" /\ call.pending = fileCall[t].pending \ {p}
    BY <2>0 DEF FileCalls
  <2> HIDE DEF call
  <2>5. ListingFollows(t)'
    BY <2>0, <2>1, <2>3, <2>4 DEF FileCallFollows, ListingFollows
  <2>6. FileStepFits(t)' /\ DumpFollows(t)'
    BY <2>0, <2>3, <2>4 DEF FileStepFits, DumpFollows, NamedTools, Listings
  <2>7. /\ fileCall' \in [Threads -> FileCalls]
        /\ \A u \in Threads \ {t} : FileCallFollows(u)'
    BY <2>1, <2>2, <2>3, LoneFileStep
  <2> QED
    BY <2>1, <2>5, <2>6, <2>7 DEF FilesTypeOK, FileCallFollows
<1>11. ASSUME NEW t \in Threads, NEW p \in fileCall[t].parts, PartGone(t, p)
      PROVE  FilesTypeOK' /\ \A u \in Threads : FileCallFollows(u)'
  <2> DEFINE call == [fileCall[t] EXCEPT !.step = "raised"]
  <2>0. /\ fileCall[t] \in FileCalls /\ FileCallFollows(t) /\ fileCall \in [Threads -> FileCalls]
    BY DEF FilesTypeOK
  <2>1. call \in FileCalls
    BY <1>11, <2>0 DEF PartGone, FileCalls
  <2>2. /\ fileCall' = [fileCall EXCEPT ![t] = call] /\ UNCHANGED files
        /\ UNCHANGED <<arriving, arrived, lost, made>>
    BY <1>11, <2>0 DEF PartGone, Step, Exists
  <2>3. fileCall'[t] = call
    BY <2>0, <2>2
  <2>4. FileCallFollows(t)'
    BY <1>11, <2>0, <2>2, <2>3 DEF PartGone, FileCallFollows, FileStepFits,
                                   ListingFollows, DumpFollows, NamedTools,
                                   Listings, LeftArtifact, FileCalls, NamedTools,
                                   Listings
  <2> HIDE DEF call
  <2>5. /\ fileCall' \in [Threads -> FileCalls]
        /\ \A u \in Threads \ {t} : FileCallFollows(u)'
    BY <2>1, <2>2, LoneFileStep
  <2> QED
    BY <2>2, <2>4, <2>5 DEF FilesTypeOK
<1>12. ASSUME NEW t \in Threads, StatName(t)
      PROVE  FilesTypeOK' /\ \A u \in Threads : FileCallFollows(u)'
  <2>0. /\ fileCall[t] \in FileCalls /\ FileCallFollows(t) /\ fileCall \in [Threads -> FileCalls]
        /\ fileCall[t].step = "stat" /\ fileCall[t].tool \in Listings
    BY <1>12 DEF FilesTypeOK, StatName
  <2>1. UNCHANGED <<files, arriving, made, arrived, lost>>
    BY <1>12 DEF StatName
  <2> DEFINE p == fileCall[t].target
             call == IF p \in DOMAIN files
                     THEN [fileCall[t] EXCEPT !.step = "visit", !.pending = fileCall[t].pending \ {p},
                                              !.listed = fileCall[t].listed \cup {p}]
                     ELSE [fileCall[t] EXCEPT !.step = "raised"]
  <2>9. p \in fileCall[t].pending /\ p \in Paths
    BY <2>0 DEF FileCallFollows, ListingFollows, FileCalls
  <2>2. call \in FileCalls
    BY <2>0, <2>9 DEF FileCalls
  <2>3. fileCall' = [fileCall EXCEPT ![t] = call] /\ fileCall'[t] = call
    BY <1>12, <2>0 DEF StatName, Exists
  <2>4. /\ call.tool = fileCall[t].tool
        /\ call.began = fileCall[t].began /\ call.touched = fileCall[t].touched
        /\ call.unread = fileCall[t].unread
        /\ \/ call.step = "raised"
           \/ /\ call.step = "visit" /\ call.pending = fileCall[t].pending \ {p}
              /\ call.listed = fileCall[t].listed \cup {p}
    BY <2>0 DEF FileCalls
  <2> HIDE DEF call, p
  <2>5. ListingFollows(t)'
    BY <2>0, <2>1, <2>3, <2>4, <2>9 DEF FileCallFollows, ListingFollows
  <2>6. FileStepFits(t)' /\ DumpFollows(t)'
    BY <2>0, <2>3, <2>4 DEF FileStepFits, DumpFollows, NamedTools, Listings
  <2>7. /\ fileCall' \in [Threads -> FileCalls]
        /\ \A u \in Threads \ {t} : FileCallFollows(u)'
    BY <2>1, <2>2, <2>3, LoneFileStep
  <2> QED
    BY <2>1, <2>5, <2>6, <2>7 DEF FilesTypeOK, FileCallFollows
<1>13. ASSUME NEW t \in Threads, ListEnds(t)
      PROVE  FilesTypeOK' /\ \A u \in Threads : FileCallFollows(u)'
  <2> DEFINE call == [fileCall[t] EXCEPT !.step = "done"]
  <2>0. /\ fileCall[t] \in FileCalls /\ FileCallFollows(t) /\ fileCall \in [Threads -> FileCalls]
    BY DEF FilesTypeOK
  <2>1. call \in FileCalls
    BY <1>13, <2>0 DEF ListEnds, FileCalls
  <2>2. /\ fileCall' = [fileCall EXCEPT ![t] = call] /\ UNCHANGED files
        /\ UNCHANGED <<arriving, arrived, lost, made>>
    BY <1>13, <2>0 DEF ListEnds, FileCalls, Step, Exists
  <2>3. fileCall'[t] = call
    BY <2>0, <2>2
  <2>4. FileCallFollows(t)'
    BY <1>13, <2>0, <2>2, <2>3 DEF ListEnds, FileCallFollows, FileStepFits,
                                   ListingFollows, DumpFollows, NamedTools,
                                   Listings, LeftArtifact, FileCalls
  <2> HIDE DEF call
  <2>5. /\ fileCall' \in [Threads -> FileCalls]
        /\ \A u \in Threads \ {t} : FileCallFollows(u)'
    BY <2>1, <2>2, LoneFileStep
  <2> QED
    BY <2>2, <2>4, <2>5 DEF FilesTypeOK
<1>14. ASSUME NEW t \in Threads, FindDownload(t)
      PROVE  FilesTypeOK' /\ \A u \in Threads : FileCallFollows(u)'
  <2> DEFINE call == [fileCall[t] EXCEPT !.step =
                         IF ~Exists(fileCall[t].source) THEN "raised"
                         ELSE IF fileCall[t].source = fileCall[t].target THEN "stat" ELSE "move"]
  <2>0. /\ fileCall[t] \in FileCalls /\ FileCallFollows(t) /\ fileCall \in [Threads -> FileCalls]
    BY DEF FilesTypeOK
  <2>1. call \in FileCalls
    BY <1>14, <2>0 DEF FindDownload, FileCalls
  <2>2. /\ fileCall' = [fileCall EXCEPT ![t] = call] /\ UNCHANGED files
        /\ UNCHANGED <<arriving, arrived, lost, made>>
    BY <1>14, <2>0 DEF FindDownload, FileCalls, Step, Exists
  <2>3. fileCall'[t] = call
    BY <2>0, <2>2
  <2>4. FileCallFollows(t)'
    BY <1>14, <2>0, <2>2, <2>3 DEF FindDownload, FileCallFollows, FileStepFits,
                                   ListingFollows, DumpFollows, NamedTools,
                                   Listings, LeftArtifact, FileCalls
  <2> HIDE DEF call
  <2>5. /\ fileCall' \in [Threads -> FileCalls]
        /\ \A u \in Threads \ {t} : FileCallFollows(u)'
    BY <2>1, <2>2, LoneFileStep
  <2> QED
    BY <2>2, <2>4, <2>5 DEF FilesTypeOK
<1>15. ASSUME NEW t \in Threads, MoveDownload(t)
      PROVE  FilesTypeOK' /\ \A u \in Threads : FileCallFollows(u)'
  <2>1. CASE Exists(fileCall[t].source)
    <3>0. fileCall[t] \in FileCalls /\ FileCallFollows(t)
      BY DEF FilesTypeOK
    <3> DEFINE call == [fileCall[t] EXCEPT !.step = "stat"]
               changed == {fileCall[t].source, fileCall[t].target}
    <3>1. call \in FileCalls /\ changed \in SUBSET Paths
      BY <1>15, <3>0, <2>1, AllowedPlaces DEF MoveDownload, FileCalls,
                                              FileCallFollows, FileStepFits,
                                              NamedTools
    <3>2. Changing(t, call, changed) /\ UNCHANGED <<arriving, arrived, made>> /\ FilesChangeOnly(changed)
      BY <1>15, <3>0, <2>1 DEF MoveDownload, Moved, FilesChangeOnly, Exists,
                               FileCalls, FileCallFollows, FileStepFits
    <3>3. /\ DOMAIN files' \subseteq Paths /\ \A q \in DOMAIN files' : files'[q] \in Made
          /\ lost' \subseteq Made
      BY <1>15, <3>0, <3>1, <2>1 DEF MoveDownload, Moved, Held, Exists, FilesTypeOK,
                                     FileCalls
    <3>4. fileCall'[t] = call
      BY <3>1, <3>2, ChangingSeen
    <3>5. FileCallFollows(t)'
      BY <1>15, <3>0, <3>4, <2>1 DEF MoveDownload, Moved, FileCallFollows,
                                     FileStepFits, ListingFollows, DumpFollows,
                                     NamedTools, Listings, LeftArtifact, FileCalls
    <3> HIDE DEF call, changed
    <3>6. /\ fileCall' \in [Threads -> FileCalls]
          /\ \A u \in Threads \ {t} : SeesFiles(u, changed)
      BY <3>1, <3>2, ChangingSeen
    <3>7. \A u \in Threads \ {t} : FileCallFollows(u)'
      BY <3>2, <3>6, OthersFollow
    <3> QED
      BY <3>2, <3>3, <3>5, <3>6, <3>7 DEF FilesTypeOK
  <2>2. CASE ~Exists(fileCall[t].source)
    <3> DEFINE call == [fileCall[t] EXCEPT !.step = "raised"]
    <3>0. /\ fileCall[t] \in FileCalls /\ FileCallFollows(t) /\ fileCall \in [Threads -> FileCalls]
      BY DEF FilesTypeOK
    <3>1. call \in FileCalls
      BY <1>15, <3>0, <2>2 DEF MoveDownload, FileCalls
    <3>2. /\ fileCall' = [fileCall EXCEPT ![t] = call] /\ UNCHANGED files
          /\ UNCHANGED <<arriving, arrived, lost, made>>
      BY <1>15, <3>0, <2>2 DEF MoveDownload, FileCalls, Step, Exists
    <3>3. fileCall'[t] = call
      BY <3>0, <3>2
    <3>4. FileCallFollows(t)'
      BY <1>15, <3>0, <3>2, <3>3, <2>2 DEF MoveDownload, FileCallFollows,
                                           FileStepFits, ListingFollows,
                                           DumpFollows, NamedTools, Listings,
                                           LeftArtifact, FileCalls
    <3> HIDE DEF call
    <3>5. /\ fileCall' \in [Threads -> FileCalls]
          /\ \A u \in Threads \ {t} : FileCallFollows(u)'
      BY <3>1, <3>2, LoneFileStep
    <3> QED
      BY <3>2, <3>4, <3>5 DEF FilesTypeOK
  <2> QED
    BY <2>1, <2>2
<1>16. ASSUME NEW t \in Threads, StatSaved(t)
      PROVE  FilesTypeOK' /\ \A u \in Threads : FileCallFollows(u)'
  <2> DEFINE call == [fileCall[t] EXCEPT !.step = IF Exists(fileCall[t].target) THEN "done" ELSE "raised"]
  <2>0. /\ fileCall[t] \in FileCalls /\ FileCallFollows(t) /\ fileCall \in [Threads -> FileCalls]
    BY DEF FilesTypeOK
  <2>1. call \in FileCalls
    BY <1>16, <2>0 DEF StatSaved, FileCalls
  <2>2. /\ fileCall' = [fileCall EXCEPT ![t] = call] /\ UNCHANGED files
        /\ UNCHANGED <<arriving, arrived, lost, made>>
    BY <1>16, <2>0 DEF StatSaved, FileCalls, Step, Exists
  <2>3. fileCall'[t] = call
    BY <2>0, <2>2
  <2>4. FileCallFollows(t)'
    BY <1>16, <2>0, <2>2, <2>3 DEF StatSaved, FileCallFollows, FileStepFits,
                                   ListingFollows, DumpFollows, NamedTools,
                                   Listings, LeftArtifact, FileCalls
  <2> HIDE DEF call
  <2>5. /\ fileCall' \in [Threads -> FileCalls]
        /\ \A u \in Threads \ {t} : FileCallFollows(u)'
    BY <2>1, <2>2, LoneFileStep
  <2> QED
    BY <2>2, <2>4, <2>5 DEF FilesTypeOK
<1>17. ASSUME NEW t \in Threads, FindDeleted(t)
      PROVE  FilesTypeOK' /\ \A u \in Threads : FileCallFollows(u)'
  <2> DEFINE call == [fileCall[t] EXCEPT !.step = IF Exists(fileCall[t].target) THEN "unlink" ELSE "done"]
  <2>0. /\ fileCall[t] \in FileCalls /\ FileCallFollows(t) /\ fileCall \in [Threads -> FileCalls]
    BY DEF FilesTypeOK
  <2>1. call \in FileCalls
    BY <1>17, <2>0 DEF FindDeleted, FileCalls
  <2>2. /\ fileCall' = [fileCall EXCEPT ![t] = call] /\ UNCHANGED files
        /\ UNCHANGED <<arriving, arrived, lost, made>>
    BY <1>17, <2>0 DEF FindDeleted, FileCalls, Step, Exists
  <2>3. fileCall'[t] = call
    BY <2>0, <2>2
  <2>4. FileCallFollows(t)'
    BY <1>17, <2>0, <2>2, <2>3 DEF FindDeleted, FileCallFollows, FileStepFits,
                                   ListingFollows, DumpFollows, NamedTools,
                                   Listings, LeftArtifact, FileCalls
  <2> HIDE DEF call
  <2>5. /\ fileCall' \in [Threads -> FileCalls]
        /\ \A u \in Threads \ {t} : FileCallFollows(u)'
    BY <2>1, <2>2, LoneFileStep
  <2> QED
    BY <2>2, <2>4, <2>5 DEF FilesTypeOK
<1>18. ASSUME NEW t \in Threads, Unlink(t)
      PROVE  FilesTypeOK' /\ \A u \in Threads : FileCallFollows(u)'
  <2>1. CASE Exists(fileCall[t].target)
    <3>0. fileCall[t] \in FileCalls /\ FileCallFollows(t)
      BY DEF FilesTypeOK
    <3> DEFINE call == [fileCall[t] EXCEPT !.step = "done"]
               changed == {fileCall[t].target}
    <3>1. call \in FileCalls /\ changed \in SUBSET Paths
      BY <1>18, <3>0, <2>1, AllowedPlaces DEF Unlink, FileCalls, FileCallFollows,
                                              FileStepFits, NamedTools
    <3>2. Changing(t, call, changed) /\ UNCHANGED <<arriving, arrived, made>> /\ FilesChangeOnly(changed)
      BY <1>18, <3>0, <2>1 DEF Unlink, Without, FilesChangeOnly, Exists, FileCalls,
                               FileCallFollows, FileStepFits
    <3>3. /\ DOMAIN files' \subseteq Paths /\ \A q \in DOMAIN files' : files'[q] \in Made
          /\ lost' \subseteq Made
      BY <1>18, <3>0, <3>1, <2>1 DEF Unlink, Without, Held, Exists, FilesTypeOK,
                                     FileCalls
    <3>4. fileCall'[t] = call
      BY <3>1, <3>2, ChangingSeen
    <3>5. FileCallFollows(t)'
      BY <1>18, <3>0, <3>4, <2>1 DEF Unlink, Without, FileCallFollows, FileStepFits,
                                     ListingFollows, DumpFollows, NamedTools,
                                     Listings, LeftArtifact, FileCalls
    <3> HIDE DEF call, changed
    <3>6. /\ fileCall' \in [Threads -> FileCalls]
          /\ \A u \in Threads \ {t} : SeesFiles(u, changed)
      BY <3>1, <3>2, ChangingSeen
    <3>7. \A u \in Threads \ {t} : FileCallFollows(u)'
      BY <3>2, <3>6, OthersFollow
    <3> QED
      BY <3>2, <3>3, <3>5, <3>6, <3>7 DEF FilesTypeOK
  <2>2. CASE ~Exists(fileCall[t].target)
    <3> DEFINE call == [fileCall[t] EXCEPT !.step = "raised"]
    <3>0. /\ fileCall[t] \in FileCalls /\ FileCallFollows(t) /\ fileCall \in [Threads -> FileCalls]
      BY DEF FilesTypeOK
    <3>1. call \in FileCalls
      BY <1>18, <3>0, <2>2 DEF Unlink, FileCalls
    <3>2. /\ fileCall' = [fileCall EXCEPT ![t] = call] /\ UNCHANGED files
          /\ UNCHANGED <<arriving, arrived, lost, made>>
      BY <1>18, <3>0, <2>2 DEF Unlink, FileCalls, Step, Exists
    <3>3. fileCall'[t] = call
      BY <3>0, <3>2
    <3>4. FileCallFollows(t)'
      BY <1>18, <3>0, <3>2, <3>3, <2>2 DEF Unlink, FileCallFollows, FileStepFits,
                                           ListingFollows, DumpFollows, NamedTools,
                                           Listings, LeftArtifact, FileCalls
    <3> HIDE DEF call
    <3>5. /\ fileCall' \in [Threads -> FileCalls]
          /\ \A u \in Threads \ {t} : FileCallFollows(u)'
      BY <3>1, <3>2, LoneFileStep
    <3> QED
      BY <3>2, <3>4, <3>5 DEF FilesTypeOK
  <2> QED
    BY <2>1, <2>2
<1>19. ASSUME NEW t \in Threads, DumpFails(t)
      PROVE  FilesTypeOK' /\ \A u \in Threads : FileCallFollows(u)'
  <2> DEFINE call == [fileCall[t] EXCEPT !.step = "raised"]
  <2>0. /\ fileCall[t] \in FileCalls /\ FileCallFollows(t) /\ fileCall \in [Threads -> FileCalls]
    BY DEF FilesTypeOK
  <2>1. call \in FileCalls
    BY <1>19, <2>0 DEF DumpFails, FileCalls
  <2>2. /\ fileCall' = [fileCall EXCEPT ![t] = call] /\ UNCHANGED files
        /\ UNCHANGED <<arriving, arrived, lost, made>>
    BY <1>19, <2>0 DEF DumpFails, FileCalls, Step, Exists
  <2>3. fileCall'[t] = call
    BY <2>0, <2>2
  <2>4. FileCallFollows(t)'
    BY <1>19, <2>0, <2>2, <2>3 DEF DumpFails, FileCallFollows, FileStepFits,
                                   ListingFollows, DumpFollows, NamedTools,
                                   Listings, LeftArtifact, FileCalls
  <2> HIDE DEF call
  <2>5. /\ fileCall' \in [Threads -> FileCalls]
        /\ \A u \in Threads \ {t} : FileCallFollows(u)'
    BY <2>1, <2>2, LoneFileStep
  <2> QED
    BY <2>2, <2>4, <2>5 DEF FilesTypeOK
<1>20. ASSUME NEW t \in Threads, DumpNext(t)
      PROVE  FilesTypeOK' /\ \A u \in Threads : FileCallFollows(u)'
  <2>0. fileCall[t] \in FileCalls /\ FileCallFollows(t)
    BY DEF FilesTypeOK
  <2>9. /\ fileCall[t].next \in 1..Len(Artifacts) /\ fileCall[t].next + 1 \in 1..Len(Artifacts) + 1
        /\ OutputPath(Artifacts[fileCall[t].next]) \in Paths
    BY <1>20, <2>0, ArtifactsCounted DEF DumpNext, FileCalls
  <2> DEFINE call == [fileCall[t] EXCEPT !.next = @ + 1]
             changed == {OutputPath(Artifacts[fileCall[t].next])}
  <2>1. call \in FileCalls /\ changed \in SUBSET Paths
    BY <1>20, <2>0, <2>9, ArtifactsCounted DEF DumpNext, FileCalls, FileCallFollows,
                                               FileStepFits
  <2>2. Changing(t, call, changed) /\ UNCHANGED <<arriving, arrived, made>> /\ FilesChangeOnly(changed)
    BY <1>20, <2>0, <2>9, ArtifactsCounted DEF DumpNext, With, FilesChangeOnly,
                                               Exists, FileCalls, FileCallFollows,
                                               FileStepFits
  <2>3. /\ DOMAIN files' \subseteq Paths /\ \A q \in DOMAIN files' : files'[q] \in Made
        /\ lost' \subseteq Made
    BY <1>20, <2>0, <2>1, <2>9, ArtifactsCounted
       DEF DumpNext, With, Held, Exists, FilesTypeOK, FileCalls
  <2>4. fileCall'[t] = call
    BY <2>1, <2>2, ChangingSeen
  <2>5. FileCallFollows(t)'
    BY <1>20, <2>0, <2>4, <2>9, ArtifactsCounted
       DEF DumpNext, With, FileCallFollows, FileStepFits, ListingFollows,
           DumpFollows, NamedTools, Listings, LeftArtifact, FileCalls
  <2> HIDE DEF call, changed
  <2>6. /\ fileCall' \in [Threads -> FileCalls]
        /\ \A u \in Threads \ {t} : SeesFiles(u, changed)
    BY <2>1, <2>2, ChangingSeen
  <2>7. \A u \in Threads \ {t} : FileCallFollows(u)'
    BY <2>2, <2>6, OthersFollow
  <2> QED
    BY <2>2, <2>3, <2>5, <2>6, <2>7 DEF FilesTypeOK
<1>21. ASSUME NEW t \in Threads, DumpEnds(t)
      PROVE  FilesTypeOK' /\ \A u \in Threads : FileCallFollows(u)'
  <2> DEFINE call == [fileCall[t] EXCEPT !.step = "done"]
  <2>0. /\ fileCall[t] \in FileCalls /\ FileCallFollows(t) /\ fileCall \in [Threads -> FileCalls]
    BY DEF FilesTypeOK
  <2>1. call \in FileCalls
    BY <1>21, <2>0 DEF DumpEnds, FileCalls
  <2>2. /\ fileCall' = [fileCall EXCEPT ![t] = call] /\ UNCHANGED files
        /\ UNCHANGED <<arriving, arrived, lost, made>>
    BY <1>21, <2>0 DEF DumpEnds, FileCalls, Step, Exists
  <2>3. fileCall'[t] = call
    BY <2>0, <2>2
  <2>4. FileCallFollows(t)'
    BY <1>21, <2>0, <2>2, <2>3 DEF DumpEnds, FileCallFollows, FileStepFits,
                                   ListingFollows, DumpFollows, NamedTools,
                                   Listings, LeftArtifact, FileCalls
  <2> HIDE DEF call
  <2>5. /\ fileCall' \in [Threads -> FileCalls]
        /\ \A u \in Threads \ {t} : FileCallFollows(u)'
    BY <2>1, <2>2, LoneFileStep
  <2> QED
    BY <2>2, <2>4, <2>5 DEF FilesTypeOK
<1> QED
  BY <1>1, <1>2, <1>3, <1>4, <1>5, <1>6, <1>7, <1>8, <1>9, <1>10, <1>11, <1>12,
     <1>13, <1>14, <1>15, <1>16, <1>17, <1>18, <1>19, <1>20, <1>21
     DEF FilesNext

\* A step gives a number to one new call or to one new download, or to none.
NumbersMove ==
    \/ made' = made /\ arrived' = arrived /\ \A u \in Threads : fileCall'[u].number \in {fileCall[u].number, 0}
    \/ /\ made' = made + 1 /\ arrived' = arrived
       /\ \A u \in Threads : fileCall'[u].number \in {fileCall[u].number, 0, made + 1}
    \/ /\ made' = made + 1 /\ arrived' = arrived \cup {made + 1}
       /\ \A u \in Threads : fileCall'[u].number \in {fileCall[u].number, 0}

\* Every step moves the numbers so.
LEMMA NumbersMoveStep ==
    ASSUME FilesTypeOK, FilesNext
    PROVE  NumbersMove
<1>1. ASSUME NEW g \in Downloads, DownloadBegins(OutputPath(g))
      PROVE  NumbersMove
  BY <1>1 DEF DownloadBegins, NumbersMove
<1>2. ASSUME NEW g \in Downloads, DownloadEnds(OutputPath(g))
      PROVE  NumbersMove
  <2>1. \A u \in Threads : fileCall[u] \in FileCalls
    BY DEF FilesTypeOK
  <2>2. CASE UNCHANGED <<files, fileCall, made, arrived, lost>>
    BY <2>2 DEF NumbersMove
  <2>3. CASE /\ made' = made + 1 /\ arrived' = arrived \cup {made + 1}
             /\ Changing("browser", NoFileCall, {OutputPath(g)})
    <3>1. \A u \in Threads : fileCall'[u].number \in {fileCall[u].number, 0}
      BY <2>1, <2>3 DEF Changing, FileCalls, NoFileCall
    <3> QED
      BY <2>3, <3>1 DEF NumbersMove
  <2> QED
    BY <1>2, <2>2, <2>3 DEF DownloadEnds
<1>3. ASSUME NEW t \in Threads, NEW tool \in NamedTools, NEW source \in Given, NEW target \in Given,
             BeginNamed(t, tool, source, target)
      PROVE  NumbersMove
  <2>1. \A u \in Threads : fileCall'[u].number \in {fileCall[u].number, 0, made + 1}
    BY <1>3 DEF BeginNamed, NoFileCall, FilesTypeOK
  <2> QED
    BY <1>3, <2>1 DEF BeginNamed, NumbersMove
<1>4. ASSUME NEW t \in Threads, BeginDump(t)
      PROVE  NumbersMove
  <2>1. \A u \in Threads : fileCall'[u].number \in {fileCall[u].number, 0, made + 1}
    BY <1>4 DEF BeginDump, NoFileCall, FilesTypeOK
  <2> QED
    BY <1>4, <2>1 DEF BeginDump, NumbersMove
<1>5. ASSUME NEW t \in Threads, NEW tool \in Listings, BeginListing(t, tool)
      PROVE  NumbersMove
  <2>1. \A u \in Threads : fileCall'[u].number \in {fileCall[u].number, 0, made + 1}
    BY <1>5 DEF BeginListing, NoFileCall, FilesTypeOK
  <2> QED
    BY <1>5, <2>1 DEF BeginListing, NumbersMove
<1>6. ASSUME NEW t \in Threads, EndFile(t)
      PROVE  NumbersMove
  <2>1. \A u \in Threads : fileCall'[u].number \in {fileCall[u].number, 0}
    BY <1>6 DEF EndFile, NoFileCall, FilesTypeOK
  <2> QED
    BY <1>6, <2>1 DEF EndFile, NumbersMove
<1>7. ASSUME NEW t \in Threads, Write(t)
      PROVE  NumbersMove
  <2>1. \A u \in Threads : fileCall[u] \in FileCalls
    BY DEF FilesTypeOK
  <2>2. \A u \in Threads : fileCall'[u].number = fileCall[u].number
    BY <1>7, <2>1 DEF Write, Changing, FileCalls, Step, FilesTypeOK
  <2> QED
    BY <1>7, <2>2 DEF Write, NumbersMove
<1>8. ASSUME NEW t \in Threads, ReadFile(t)
      PROVE  NumbersMove
  <2>1. \A u \in Threads : fileCall[u] \in FileCalls
    BY DEF FilesTypeOK
  <2>2. \A u \in Threads : fileCall'[u].number = fileCall[u].number
    BY <1>8, <2>1 DEF ReadFile, Changing, FileCalls, Step, FilesTypeOK
  <2> QED
    BY <1>8, <2>2 DEF ReadFile, NumbersMove
<1>9. ASSUME NEW t \in Threads, NEW d \in fileCall[t].unread, ReadFolder(t, d)
      PROVE  NumbersMove
  <2>1. \A u \in Threads : fileCall[u] \in FileCalls
    BY DEF FilesTypeOK
  <2>2. \A u \in Threads : fileCall'[u].number = fileCall[u].number
    BY <1>9, <2>1 DEF ReadFolder, Changing, FileCalls, Step, FilesTypeOK
  <2> QED
    BY <1>9, <2>2 DEF ReadFolder, NumbersMove
<1>10. ASSUME NEW t \in Threads, NEW p \in fileCall[t].pending, VisitName(t, p)
      PROVE  NumbersMove
  <2>1. \A u \in Threads : fileCall[u] \in FileCalls
    BY DEF FilesTypeOK
  <2>2. \A u \in Threads : fileCall'[u].number = fileCall[u].number
    BY <1>10, <2>1 DEF VisitName, Changing, FileCalls, Step, FilesTypeOK
  <2> QED
    BY <1>10, <2>2 DEF VisitName, NumbersMove
<1>11. ASSUME NEW t \in Threads, NEW p \in fileCall[t].parts, PartGone(t, p)
      PROVE  NumbersMove
  <2>1. \A u \in Threads : fileCall[u] \in FileCalls
    BY DEF FilesTypeOK
  <2>2. \A u \in Threads : fileCall'[u].number = fileCall[u].number
    BY <1>11, <2>1 DEF PartGone, Changing, FileCalls, Step, FilesTypeOK
  <2> QED
    BY <1>11, <2>2 DEF PartGone, NumbersMove
<1>12. ASSUME NEW t \in Threads, StatName(t)
      PROVE  NumbersMove
  <2>1. \A u \in Threads : fileCall[u] \in FileCalls
    BY DEF FilesTypeOK
  <2>2. \A u \in Threads : fileCall'[u].number = fileCall[u].number
    BY <1>12, <2>1 DEF StatName, Changing, FileCalls, Step, FilesTypeOK
  <2> QED
    BY <1>12, <2>2 DEF StatName, NumbersMove
<1>13. ASSUME NEW t \in Threads, ListEnds(t)
      PROVE  NumbersMove
  <2>1. \A u \in Threads : fileCall[u] \in FileCalls
    BY DEF FilesTypeOK
  <2>2. \A u \in Threads : fileCall'[u].number = fileCall[u].number
    BY <1>13, <2>1 DEF ListEnds, Changing, FileCalls, Step, FilesTypeOK
  <2> QED
    BY <1>13, <2>2 DEF ListEnds, NumbersMove
<1>14. ASSUME NEW t \in Threads, FindDownload(t)
      PROVE  NumbersMove
  <2>1. \A u \in Threads : fileCall[u] \in FileCalls
    BY DEF FilesTypeOK
  <2>2. \A u \in Threads : fileCall'[u].number = fileCall[u].number
    BY <1>14, <2>1 DEF FindDownload, Changing, FileCalls, Step, FilesTypeOK
  <2> QED
    BY <1>14, <2>2 DEF FindDownload, NumbersMove
<1>15. ASSUME NEW t \in Threads, MoveDownload(t)
      PROVE  NumbersMove
  <2>1. \A u \in Threads : fileCall[u] \in FileCalls
    BY DEF FilesTypeOK
  <2>2. \A u \in Threads : fileCall'[u].number = fileCall[u].number
    BY <1>15, <2>1 DEF MoveDownload, Changing, FileCalls, Step, FilesTypeOK
  <2> QED
    BY <1>15, <2>2 DEF MoveDownload, NumbersMove
<1>16. ASSUME NEW t \in Threads, StatSaved(t)
      PROVE  NumbersMove
  <2>1. \A u \in Threads : fileCall[u] \in FileCalls
    BY DEF FilesTypeOK
  <2>2. \A u \in Threads : fileCall'[u].number = fileCall[u].number
    BY <1>16, <2>1 DEF StatSaved, Changing, FileCalls, Step, FilesTypeOK
  <2> QED
    BY <1>16, <2>2 DEF StatSaved, NumbersMove
<1>17. ASSUME NEW t \in Threads, FindDeleted(t)
      PROVE  NumbersMove
  <2>1. \A u \in Threads : fileCall[u] \in FileCalls
    BY DEF FilesTypeOK
  <2>2. \A u \in Threads : fileCall'[u].number = fileCall[u].number
    BY <1>17, <2>1 DEF FindDeleted, Changing, FileCalls, Step, FilesTypeOK
  <2> QED
    BY <1>17, <2>2 DEF FindDeleted, NumbersMove
<1>18. ASSUME NEW t \in Threads, Unlink(t)
      PROVE  NumbersMove
  <2>1. \A u \in Threads : fileCall[u] \in FileCalls
    BY DEF FilesTypeOK
  <2>2. \A u \in Threads : fileCall'[u].number = fileCall[u].number
    BY <1>18, <2>1 DEF Unlink, Changing, FileCalls, Step, FilesTypeOK
  <2> QED
    BY <1>18, <2>2 DEF Unlink, NumbersMove
<1>19. ASSUME NEW t \in Threads, DumpFails(t)
      PROVE  NumbersMove
  <2>1. \A u \in Threads : fileCall[u] \in FileCalls
    BY DEF FilesTypeOK
  <2>2. \A u \in Threads : fileCall'[u].number = fileCall[u].number
    BY <1>19, <2>1 DEF DumpFails, Changing, FileCalls, Step, FilesTypeOK
  <2> QED
    BY <1>19, <2>2 DEF DumpFails, NumbersMove
<1>20. ASSUME NEW t \in Threads, DumpNext(t)
      PROVE  NumbersMove
  <2>1. \A u \in Threads : fileCall[u] \in FileCalls
    BY DEF FilesTypeOK
  <2>2. \A u \in Threads : fileCall'[u].number = fileCall[u].number
    BY <1>20, <2>1 DEF DumpNext, Changing, FileCalls, Step, FilesTypeOK
  <2> QED
    BY <1>20, <2>2 DEF DumpNext, NumbersMove
<1>21. ASSUME NEW t \in Threads, DumpEnds(t)
      PROVE  NumbersMove
  <2>1. \A u \in Threads : fileCall[u] \in FileCalls
    BY DEF FilesTypeOK
  <2>2. \A u \in Threads : fileCall'[u].number = fileCall[u].number
    BY <1>21, <2>1 DEF DumpEnds, Changing, FileCalls, Step, FilesTypeOK
  <2> QED
    BY <1>21, <2>2 DEF DumpEnds, NumbersMove
<1> QED
  BY <1>1, <1>2, <1>3, <1>4, <1>5, <1>6, <1>7, <1>8, <1>9, <1>10, <1>11, <1>12,
     <1>13, <1>14, <1>15, <1>16, <1>17, <1>18, <1>19, <1>20, <1>21
     DEF FilesNext

\* What a step does to the files: it writes one, moves one or removes one, and what was
\* at the place of a file that is written or removed, or where one is moved to, is lost.
WritesFile(p, n) ==
    /\ files' = With(p, n) /\ lost' = lost \cup Held(p)
    /\ \/ arrived' = arrived /\ n \notin arrived /\ n <= made
       \/ n = made + 1 /\ arrived' = arrived \cup {n} /\ made' = made + 1

FilesMove ==
    \/ UNCHANGED <<files, lost, arrived>>
    \/ \E p \in Places, n \in Made : WritesFile(p, n)
    \/ \E p, q \in Places :
          /\ p # q /\ p \in DOMAIN files
          /\ files' = Moved(p, q) /\ lost' = lost \cup Held(q) /\ arrived' = arrived
    \/ \E p \in Places :
          p \in DOMAIN files /\ files' = Without(p) /\ lost' = lost \cup Held(p) /\ arrived' = arrived

\* Every step moves the files so: a move has two paths, and a number that is written is
\* a new one or that of a call.
LEMMA FilesMoveStep ==
    ASSUME FilesTypeOK, NumbersFit, \A u \in Threads : FileCallFollows(u), FilesNext
    PROVE  FilesMove
<1>1. ASSUME NEW g \in Downloads, DownloadBegins(OutputPath(g))
      PROVE  FilesMove
  BY <1>1 DEF DownloadBegins, FilesMove
<1>2. ASSUME NEW g \in Downloads, DownloadEnds(OutputPath(g))
      PROVE  FilesMove
  <2>1. CASE UNCHANGED <<files, fileCall, made, arrived, lost>>
    BY <2>1 DEF FilesMove
  <2>2. CASE /\ made < MaxMade /\ made' = made + 1 /\ arrived' = arrived \cup {made + 1}
             /\ files' = With(OutputPath(g), made + 1) /\ lost' = lost \cup Held(OutputPath(g))
    <3>1. OutputPath(g) \in Places /\ made + 1 \in Made
      BY <2>2, AllowedPlaces, NextMade
    <3>2. WritesFile(OutputPath(g), made + 1)
      BY <2>2 DEF WritesFile
    <3> QED
      BY <3>1, <3>2 DEF FilesMove
  <2> QED
    BY <1>2, <2>1, <2>2 DEF DownloadEnds
<1>3. ASSUME NEW t \in Threads, NEW tool \in NamedTools, NEW source \in Given, NEW target \in Given,
             BeginNamed(t, tool, source, target)
      PROVE  FilesMove
  BY <1>3 DEF BeginNamed, FilesMove
<1>4. ASSUME NEW t \in Threads, BeginDump(t)
      PROVE  FilesMove
  BY <1>4 DEF BeginDump, FilesMove
<1>5. ASSUME NEW t \in Threads, NEW tool \in Listings, BeginListing(t, tool)
      PROVE  FilesMove
  BY <1>5 DEF BeginListing, FilesMove
<1>6. ASSUME NEW t \in Threads, EndFile(t)
      PROVE  FilesMove
  BY <1>6 DEF EndFile, FilesMove
<1>7. ASSUME NEW t \in Threads, Write(t)
      PROVE  FilesMove
  <2>1. /\ fileCall[t] \in FileCalls /\ FileCallFollows(t) /\ fileCall[t].number <= made
        /\ fileCall[t].number \notin arrived
    BY DEF FilesTypeOK, NumbersFit
  <2>2. fileCall[t].target \in Places /\ fileCall[t].number \in Made
    BY <1>7, <2>1 DEF Write, FileCallFollows, FileStepFits, NamedTools, FileCalls
  <2>3. WritesFile(fileCall[t].target, fileCall[t].number)
    BY <1>7, <2>1 DEF Write, WritesFile
  <2> QED
    BY <2>2, <2>3 DEF FilesMove
<1>8. ASSUME NEW t \in Threads, ReadFile(t)
      PROVE  FilesMove
  BY <1>8 DEF ReadFile, FilesMove
<1>9. ASSUME NEW t \in Threads, NEW d \in fileCall[t].unread, ReadFolder(t, d)
      PROVE  FilesMove
  BY <1>9 DEF ReadFolder, FilesMove
<1>10. ASSUME NEW t \in Threads, NEW p \in fileCall[t].pending, VisitName(t, p)
      PROVE  FilesMove
  BY <1>10 DEF VisitName, FilesMove
<1>11. ASSUME NEW t \in Threads, NEW p \in fileCall[t].parts, PartGone(t, p)
      PROVE  FilesMove
  BY <1>11 DEF PartGone, FilesMove
<1>12. ASSUME NEW t \in Threads, StatName(t)
      PROVE  FilesMove
  BY <1>12 DEF StatName, FilesMove
<1>13. ASSUME NEW t \in Threads, ListEnds(t)
      PROVE  FilesMove
  BY <1>13 DEF ListEnds, FilesMove
<1>14. ASSUME NEW t \in Threads, FindDownload(t)
      PROVE  FilesMove
  BY <1>14 DEF FindDownload, FilesMove
<1>15. ASSUME NEW t \in Threads, MoveDownload(t)
      PROVE  FilesMove
  <2>1. fileCall[t] \in FileCalls /\ FileCallFollows(t)
    BY DEF FilesTypeOK
  <2>2. CASE fileCall[t].source \in DOMAIN files
    <3>1. /\ {fileCall[t].source, fileCall[t].target} \subseteq Places
          /\ fileCall[t].source # fileCall[t].target
      BY <1>15, <2>1 DEF MoveDownload, FileCallFollows, FileStepFits, NamedTools
    <3>2. /\ files' = Moved(fileCall[t].source, fileCall[t].target)
          /\ lost' = lost \cup Held(fileCall[t].target) /\ arrived' = arrived
      BY <1>15, <2>2 DEF MoveDownload, Exists
    <3> QED
      BY <2>2, <3>1, <3>2 DEF FilesMove
  <2>3. CASE fileCall[t].source \notin DOMAIN files
    BY <1>15, <2>3 DEF MoveDownload, Exists, FilesMove
  <2> QED
    BY <2>2, <2>3
<1>16. ASSUME NEW t \in Threads, StatSaved(t)
      PROVE  FilesMove
  BY <1>16 DEF StatSaved, FilesMove
<1>17. ASSUME NEW t \in Threads, FindDeleted(t)
      PROVE  FilesMove
  BY <1>17 DEF FindDeleted, FilesMove
<1>18. ASSUME NEW t \in Threads, Unlink(t)
      PROVE  FilesMove
  <2>1. fileCall[t] \in FileCalls /\ FileCallFollows(t)
    BY DEF FilesTypeOK
  <2>2. CASE fileCall[t].target \in DOMAIN files
    <3>1. fileCall[t].target \in Places
      BY <1>18, <2>1 DEF Unlink, FileCallFollows, FileStepFits, NamedTools
    <3>2. /\ files' = Without(fileCall[t].target)
          /\ lost' = lost \cup Held(fileCall[t].target) /\ arrived' = arrived
      BY <1>18, <2>2 DEF Unlink, Exists
    <3> QED
      BY <2>2, <3>1, <3>2 DEF FilesMove
  <2>3. CASE fileCall[t].target \notin DOMAIN files
    BY <1>18, <2>3 DEF Unlink, Exists, FilesMove
  <2> QED
    BY <2>2, <2>3
<1>19. ASSUME NEW t \in Threads, DumpFails(t)
      PROVE  FilesMove
  BY <1>19 DEF DumpFails, FilesMove
<1>20. ASSUME NEW t \in Threads, DumpNext(t)
      PROVE  FilesMove
  <2>1. /\ fileCall[t] \in FileCalls /\ FileCallFollows(t) /\ fileCall[t].number <= made
        /\ fileCall[t].number \notin arrived
    BY DEF FilesTypeOK, NumbersFit
  <2>2. OutputPath(Artifacts[fileCall[t].next]) \in Places /\ fileCall[t].number \in Made
    BY <1>20, <2>1, ArtifactsCounted, AllowedPlaces
       DEF DumpNext, FileCallFollows, FileStepFits, FileCalls
  <2>3. WritesFile(OutputPath(Artifacts[fileCall[t].next]), fileCall[t].number)
    BY <1>20, <2>1 DEF DumpNext, WritesFile
  <2> QED
    BY <2>2, <2>3 DEF FilesMove
<1>21. ASSUME NEW t \in Threads, DumpEnds(t)
      PROVE  FilesMove
  BY <1>21 DEF DumpEnds, FilesMove
<1> QED
  BY <1>1, <1>2, <1>3, <1>4, <1>5, <1>6, <1>7, <1>8, <1>9, <1>10, <1>11, <1>12,
     <1>13, <1>14, <1>15, <1>16, <1>17, <1>18, <1>19, <1>20, <1>21
     DEF FilesNext

\* Numbers go on fitting.
LEMMA NumbersFitStep ==
    ASSUME FilesTypeOK, FilesTypeOK', NumbersFit, NumbersMove, FilesMove
    PROVE  NumbersFit'
<1>1. made \in Nat /\ made' \in Nat /\ made <= made' /\ 0 \in 0..made'
  BY MaxMadeAssumption DEF FilesTypeOK, Made, NumbersMove
<1>2. \A t \in Threads : fileCall[t].number \in Nat
  BY MaxMadeAssumption DEF FilesTypeOK, FileCalls, Made
<1>3. arrived' \subseteq 1..made'
  <2>1. arrived \subseteq 1..made
    BY DEF NumbersFit
  <2>2. 1..made \subseteq 1..made'
    BY <1>1
  <2>3. made' = made + 1 => made + 1 \in 1..made'
    BY <1>1
  <2> QED
    BY <2>1, <2>2, <2>3 DEF NumbersMove
<1>4. ASSUME NEW t \in Threads
      PROVE  fileCall'[t].number <= made' /\ fileCall'[t].number \notin arrived'
  <2>1. fileCall[t].number <= made /\ fileCall[t].number \notin arrived /\ arrived \subseteq 1..made
    BY DEF NumbersFit
  <2>2. fileCall[t].number \in Nat
    BY <1>2
  <2>3. 0 \notin arrived /\ made + 1 \notin arrived /\ 0 <= made' /\ 0 # made + 1
    BY <1>1, <2>1
  <2>4. CASE made' = made /\ arrived' = arrived /\ fileCall'[t].number \in {fileCall[t].number, 0}
    BY <2>1, <2>3, <2>4
  <2>5. CASE made' = made + 1 /\ arrived' = arrived /\ fileCall'[t].number \in {fileCall[t].number, 0, made + 1}
    BY <1>1, <2>1, <2>2, <2>3, <2>5
  <2>6. CASE /\ made' = made + 1 /\ arrived' = arrived \cup {made + 1}
             /\ fileCall'[t].number \in {fileCall[t].number, 0}
    BY <1>1, <2>1, <2>2, <2>3, <2>6
  <2> QED
    BY <2>4, <2>5, <2>6 DEF NumbersMove
<1>5. 0..made \subseteq 0..made' /\ lost \subseteq 0..made' /\ \A p \in DOMAIN files : files[p] \in 0..made'
  <2>1. \A p \in DOMAIN files : files[p] \in 0..made
    BY <1>1, MaxMadeAssumption DEF NumbersFit, FilesTypeOK, Made
  <2>2. 0..made \subseteq 0..made'
    BY <1>1
  <2> QED
    BY <2>1, <2>2 DEF NumbersFit
<1>6. (\A p \in DOMAIN files' : files'[p] \in 0..made') /\ lost' \subseteq 0..made'
  <2>1. CASE UNCHANGED <<files, lost, arrived>>
    BY <1>5, <2>1
  <2>2. ASSUME NEW p \in Places, NEW n \in Made, WritesFile(p, n)
        PROVE  (\A q \in DOMAIN files' : files'[q] \in 0..made') /\ lost' \subseteq 0..made'
    <3>1. n \in 0..made'
      BY <1>1, <2>2, MaxMadeAssumption DEF WritesFile, Made
    <3> QED
      BY <1>5, <2>2, <3>1 DEF WritesFile, With, Held, Exists
  <2>3. ASSUME NEW p \in Places, NEW q \in Places, p # q, p \in DOMAIN files, files' = Moved(p, q),
               lost' = lost \cup Held(q)
        PROVE  (\A r \in DOMAIN files' : files'[r] \in 0..made') /\ lost' \subseteq 0..made'
    BY <1>5, <2>3 DEF Moved, Held, Exists
  <2>4. ASSUME NEW p \in Places, p \in DOMAIN files, files' = Without(p), lost' = lost \cup Held(p)
        PROVE  (\A r \in DOMAIN files' : files'[r] \in 0..made') /\ lost' \subseteq 0..made'
    BY <1>5, <2>4 DEF Without, Held, Exists
  <2> QED
    BY <2>1, <2>2, <2>3, <2>4 DEF FilesMove
<1>7. \A p \in DOMAIN files' : files'[p] <= made'
  BY <1>1, <1>6
<1> QED
  BY <1>3, <1>4, <1>6, <1>7 DEF NumbersFit

\* Downloads stay in one place each.
LEMMA InOnePlaceStep ==
    ASSUME FilesTypeOK, NumbersFit, InOnePlace, FilesMove
    PROVE  InOnePlace'
<1>1. /\ made \in Nat /\ arrived \subseteq 1..made /\ lost \subseteq 0..made
      /\ \A p \in DOMAIN files : files[p] \in 0..made
  BY MaxMadeAssumption DEF FilesTypeOK, Made, NumbersFit
<1>2. CASE UNCHANGED <<files, lost, arrived>>
  BY <1>2 DEF InOnePlace
<1>3. ASSUME NEW p \in Places, NEW n \in Made, WritesFile(p, n)
      PROVE  InOnePlace'
  <2>1. /\ DOMAIN files' = DOMAIN files \cup {p} /\ files'[p] = n
        /\ \A q \in DOMAIN files \ {p} : files'[q] = files[q]
        /\ p \in DOMAIN files => lost' = lost \cup {files[p]}
        /\ p \notin DOMAIN files => lost' = lost
    BY <1>3 DEF WritesFile, With, Held, Exists
  <2>2. CASE arrived' = arrived /\ n \notin arrived
    BY <2>1, <2>2 DEF InOnePlace
  <2>3. CASE n = made + 1 /\ arrived' = arrived \cup {n}
    <3>1. n \notin arrived /\ n \notin lost /\ \A q \in DOMAIN files : files[q] # n
      BY <1>1, <2>3
    <3> QED
      BY <2>1, <2>3, <3>1 DEF InOnePlace
  <2> QED
    BY <1>3, <2>2, <2>3 DEF WritesFile
<1>4. ASSUME NEW p \in Places, NEW q \in Places, p # q, p \in DOMAIN files, files' = Moved(p, q),
             lost' = lost \cup Held(q), arrived' = arrived
      PROVE  InOnePlace'
  <2>1. /\ DOMAIN files' = (DOMAIN files \ {p}) \cup {q} /\ files'[q] = files[p]
        /\ \A r \in DOMAIN files \ {p, q} : files'[r] = files[r]
        /\ q \in DOMAIN files => lost' = lost \cup {files[q]}
        /\ q \notin DOMAIN files => lost' = lost
    BY <1>4 DEF Moved, Held, Exists
  <2> QED
    BY <1>4, <2>1 DEF InOnePlace
<1>5. ASSUME NEW p \in Places, p \in DOMAIN files, files' = Without(p), lost' = lost \cup Held(p),
             arrived' = arrived
      PROVE  InOnePlace'
  <2>1. /\ DOMAIN files' = DOMAIN files \ {p} /\ lost' = lost \cup {files[p]}
        /\ \A r \in DOMAIN files \ {p} : files'[r] = files[r]
    BY <1>5 DEF Without, Held, Exists
  <2> QED
    BY <1>5, <2>1 DEF InOnePlace
<1> QED
  BY <1>2, <1>3, <1>4, <1>5 DEF FilesMove

\* FilesInv holds in every state of the files.
LEMMA FilesInvariant == FilesInit /\ [][FilesNext]_fileVars => []FilesInv
<1>1. FilesInit => FilesInv
  <2> SUFFICES ASSUME FilesInit PROVE FilesInv
    OBVIOUS
  <2>1. /\ DOMAIN files = Outside /\ \A p \in DOMAIN files : files[p] = 0
        /\ Outside \subseteq Paths /\ 0 \in Made
    BY MaxMadeAssumption DEF FilesInit, Made, Paths
  <2>2. FilesTypeOK
    BY <2>1, NoFileCallTyped DEF FilesInit, FilesTypeOK
  <2>3. NumbersFit /\ InOnePlace
    BY <2>1 DEF FilesInit, NumbersFit, InOnePlace, NoFileCall
  <2>4. \A t \in Threads : FileCallFollows(t)
    BY DEF FilesInit, FileCallFollows, FileStepFits, ListingFollows, DumpFollows,
           NoFileCall, NamedTools, Listings
  <2> QED
    BY <2>2, <2>3, <2>4 DEF FilesInv
<1>2. FilesInv /\ [FilesNext]_fileVars => FilesInv'
  <2> SUFFICES ASSUME FilesInv, [FilesNext]_fileVars PROVE FilesInv'
    OBVIOUS
  <2>1. CASE FilesNext
    <3>1. FilesTypeOK' /\ \A t \in Threads : FileCallFollows(t)'
      BY <2>1, FileCallsFollowStep DEF FilesInv
    <3>2. NumbersMove /\ FilesMove
      BY <2>1, NumbersMoveStep, FilesMoveStep DEF FilesInv
    <3>3. NumbersFit' /\ InOnePlace'
      BY <3>1, <3>2, NumbersFitStep, InOnePlaceStep DEF FilesInv
    <3> QED
      BY <3>1, <3>3 DEF FilesInv
  <2>2. CASE UNCHANGED fileVars
    BY <2>2 DEF fileVars, FilesInv, FilesTypeOK, NumbersFit, InOnePlace,
                FileCallFollows, FileStepFits, ListingFollows, DumpFollows,
                LeftArtifact
  <2> QED
    BY <2>1, <2>2
<1> QED
  BY <1>1, <1>2, PTL

\* The invariant has each part of SharedFilesAreKept.
LEMMA InvKeepsFiles == ASSUME FilesInv PROVE SharedFilesAreKept
<1>1. DownloadsAreKept
  <2> SUFFICES ASSUME NEW n \in arrived
               PROVE  Cardinality({p \in DOMAIN files : files[p] = n}) = IF n \in lost THEN 0 ELSE 1
    BY DEF DownloadsAreKept
  <2>1. CASE n \in lost
    <3>1. {p \in DOMAIN files : files[p] = n} = {}
      BY <2>1 DEF FilesInv, InOnePlace
    <3> QED
      BY <2>1, <3>1, FS_EmptySet
  <2>2. CASE n \notin lost
    <3>1. PICK p \in DOMAIN files : files[p] = n
      BY <2>2 DEF FilesInv, InOnePlace
    <3>2. {q \in DOMAIN files : files[q] = n} = {p}
      BY <3>1 DEF FilesInv, InOnePlace
    <3> QED
      BY <2>2, <3>2, FS_Singleton
  <2> QED
    BY <2>1, <2>2
<1>2. ListingIsSound
  BY DEF FilesInv, FileCallFollows, ListingFollows, ListingIsSound
<1>3. DumpIsWhole
  <2> SUFFICES ASSUME NEW t \in Threads, fileCall[t].tool = "dump", fileCall[t].step = "done",
                      NEW i \in DOMAIN Artifacts
               PROVE  \/ OutputPath(Artifacts[i]) \in fileCall[t].touched
                      \/ Held(OutputPath(Artifacts[i])) = {fileCall[t].number}
    BY DEF DumpIsWhole
  <2>1. fileCall[t].next > Len(Artifacts) /\ fileCall[t].next \in 1..Len(Artifacts) + 1
    BY DEF FilesInv, FileCallFollows, DumpFollows, FilesTypeOK, FileCalls
  <2>2. i \in 1..fileCall[t].next - 1
    BY <2>1, ArtifactsCounted
  <2>3. LeftArtifact(t, OutputPath(Artifacts[i]))
    BY <2>2 DEF FilesInv, FileCallFollows, DumpFollows
  <2> QED
    BY <2>3 DEF LeftArtifact, Held, Exists
<1> QED
  BY <1>1, <1>2, <1>3 DEF SharedFilesAreKept

\* The files are well typed, and shared ones are kept.
LEMMA FilesKept == FilesInit /\ [][FilesNext]_fileVars => [](FilesTypeOK /\ SharedFilesAreKept)
<1>1. FilesInv => FilesTypeOK /\ SharedFilesAreKept
  BY InvKeepsFiles DEF FilesInv
<1> QED
  BY <1>1, FilesInvariant, PTL

\* What was outside is there as it was, and every other file is at a place of the tools.
OutsideKept ==
    ~Unrestricted =>
       /\ \A p \in Outside : p \in DOMAIN files /\ files[p] = 0
       /\ \A p \in DOMAIN files \ Outside : p \in Places

\* So what is outside stays, and what is made is inside.
LEMMA OutsideStays ==
    ASSUME OutsideKept, FilesMove
    PROVE  OutsideKept'
<1> SUFFICES ASSUME ~Unrestricted
             PROVE  /\ \A p \in Outside : p \in DOMAIN files' /\ files'[p] = 0
                    /\ \A p \in DOMAIN files' \ Outside : p \in Places
  BY DEF OutsideKept
<1>1. /\ \A p \in Outside : p \in DOMAIN files /\ files[p] = 0
      /\ \A p \in DOMAIN files \ Outside : p \in Places
  BY DEF OutsideKept
<1>2. \A p \in Places : p \notin Outside
  BY OutsideAssumption DEF Places, IsWithin
<1>3. CASE UNCHANGED <<files, lost, arrived>>
  BY <1>1, <1>3
<1>4. ASSUME NEW p \in Places, NEW n \in Made, WritesFile(p, n)
      PROVE  /\ \A q \in Outside : q \in DOMAIN files' /\ files'[q] = 0
             /\ \A q \in DOMAIN files' \ Outside : q \in Places
  BY <1>1, <1>2, <1>4 DEF WritesFile, With
<1>5. ASSUME NEW p \in Places, NEW q \in Places, files' = Moved(p, q)
      PROVE  /\ \A r \in Outside : r \in DOMAIN files' /\ files'[r] = 0
             /\ \A r \in DOMAIN files' \ Outside : r \in Places
  BY <1>1, <1>2, <1>5 DEF Moved
<1>6. ASSUME NEW p \in Places, files' = Without(p)
      PROVE  /\ \A r \in Outside : r \in DOMAIN files' /\ files'[r] = 0
             /\ \A r \in DOMAIN files' \ Outside : r \in Places
  BY <1>1, <1>2, <1>6 DEF Without
<1> QED
  BY <1>3, <1>4, <1>5, <1>6 DEF FilesMove

\* Every path is canonical.
LEMMA PathsAreCanonical == \A p \in Paths : IsCanonical(p)
<1>1. \A i \in DOMAIN Artifacts : Artifacts[i] \in GivenNames
  BY ArtifactsAssumption
<1> QED
  BY <1>1, NamesAssumption, OutsideAssumption, OutputPathIsCanonical DEF Paths

\* The tools are at work inside, and touch nothing outside.
LEMMA FilesStayInside == FilesInit /\ [][FilesNext]_fileVars => []NothingOutside
<1>1. FilesInit => OutsideKept
  BY DEF FilesInit, OutsideKept
<1>2. FilesInv /\ OutsideKept /\ [FilesNext]_fileVars => OutsideKept'
  <2> SUFFICES ASSUME FilesInv, OutsideKept, [FilesNext]_fileVars PROVE OutsideKept'
    OBVIOUS
  <2>1. CASE FilesNext
    BY <2>1, FilesMoveStep, OutsideStays DEF FilesInv
  <2>2. CASE UNCHANGED fileVars
    BY <2>2 DEF fileVars, OutsideKept
  <2> QED
    BY <2>1, <2>2
<1>3. FilesInv /\ OutsideKept => NothingOutside
  <2> SUFFICES ASSUME FilesInv, OutsideKept, ~Unrestricted PROVE NothingOutside
    BY DEF NothingOutside
  <2>1. \A p \in Places : IsInside(p)
    BY PathsAreCanonical DEF Places, IsInside
  <2>2. \A p \in Outside : Held(p) = {0}
    BY DEF OutsideKept, Held, Exists
  <2> QED
    BY <2>1, <2>2 DEF FilesInv, FileCallFollows, FileStepFits, OutsideKept,
                      NothingOutside
<1> QED
  BY <1>1, <1>2, <1>3, FilesInvariant, PTL

-----------------------------------------------------------------------------
(* ToolAnswers: answers and their limits                                   *)

\* One scan from an offset: the first match there, and what scan says for after it.
ScanOnce(scan, pattern, body, from) ==
    IF FindFrom(pattern, body, from) < 0 THEN <<>>
    ELSE <<FindFrom(pattern, body, from)>> \o scan[After(FindFrom(pattern, body, from), pattern)]

\* The scans from the last m offsets.
IsScan(scan, pattern, body, m) ==
    scan = [from \in Len(body) + 1 - m .. Len(body) + 1 |-> ScanOnce(scan, pattern, body, from)]

\* A match is found at its first occurrence; none is found where there is none.
LEMMA FindsFirst ==
    ASSUME NEW pattern \in Seq(Letters), NEW body \in Seq(Letters), NEW from \in Nat
    PROVE  LET idx == FindFrom(pattern, body, from) IN
           \/ /\ idx = -1
              /\ \A j \in from .. Len(body) : ~OccursAt(pattern, body, j)
           \/ /\ idx \in from .. Len(body) /\ OccursAt(pattern, body, idx)
              /\ \A j \in from .. Len(body) : OccursAt(pattern, body, j) => idx <= j
<1> DEFINE found == {i \in from .. Len(body) : OccursAt(pattern, body, i)}
<1>0. Len(body) \in Nat
  OBVIOUS
<1>1. CASE found = {}
  BY <1>1 DEF FindFrom
<1>2. CASE found # {}
  <2>1. found \subseteq Nat
    BY <1>0
  <2>2. \E i \in found : \A j \in found : i <= j
    <3> HIDE DEF found
    <3> QED
      BY <1>2, <2>1, LeastNat
  <2>3. FindFrom(pattern, body, from) = CHOOSE i \in found : \A j \in found : i <= j
    BY <1>2 DEF FindFrom
  <2>4. /\ FindFrom(pattern, body, from) \in found
        /\ \A j \in found : FindFrom(pattern, body, from) <= j
    <3> HIDE DEF found
    <3> QED
      BY <2>2, <2>3
  <2> QED
    BY <2>4
<1> QED
  BY <1>1, <1>2

\* The next scan begins further on, and in the text.
LEMMA GoesOn ==
    ASSUME NEW pattern \in Seq(Letters), NEW body \in Seq(Letters), pattern # <<>>, NEW from \in Nat,
           ~(FindFrom(pattern, body, from) < 0)
    PROVE  After(FindFrom(pattern, body, from), pattern) \in from + 1 .. Len(body)
<1> DEFINE idx == FindFrom(pattern, body, from)
<1>1. idx \in from .. Len(body) /\ OccursAt(pattern, body, idx)
  BY FindsFirst
<1>2. Len(pattern) \in Nat \ {0} /\ Len(body) \in Nat
  OBVIOUS
<1>3. idx + Len(pattern) <= Len(body)
  BY <1>1 DEF OccursAt
<1> HIDE DEF idx
<1>4. idx + Len(pattern) \in from + 1 .. Len(body)
  BY <1>1, <1>2, <1>3
<1> QED
  BY <1>4 DEF After, idx

\* What one scan says depends on the scans from later offsets only: they are there, ...
LEMMA ScanGoesOn ==
    ASSUME NEW pattern \in Seq(Letters), NEW body \in Seq(Letters), pattern # <<>>,
           NEW m \in 0 .. Len(body), NEW f, IsScan(f, pattern, body, m)
    PROVE  \E g : IsScan(g, pattern, body, m + 1)
<1>0. Len(body) \in Nat /\ m \in Nat /\ m <= Len(body)
  OBVIOUS
<1> DEFINE l == Len(body)
           first == l - m
           g == [from \in first .. l + 1 |-> IF from = first THEN ScanOnce(f, pattern, body, from) ELSE f[from]]
<1>9. Len(body) + 1 - m = first + 1
  BY <1>0
<1>1. \A from \in first + 1 .. l + 1 : f[from] = ScanOnce(f, pattern, body, from)
  BY <1>9, Zenon DEF IsScan
<1>2. \A from \in first + 1 .. l + 1 : g[from] = f[from]
  BY <1>0
<1>3. g[first] = ScanOnce(f, pattern, body, first)
  BY <1>0
<1>4. g = [from \in first .. l + 1 |-> g[from]]
  OBVIOUS
<1> HIDE DEF g
<1>5. ASSUME NEW from \in first .. l + 1
      PROVE  g[from] = ScanOnce(g, pattern, body, from)
  <2>1. from \in Nat /\ \A i \in from + 1 .. Len(body) : f[i] = g[i]
    BY <1>0, <1>2
  <2>2. ScanOnce(f, pattern, body, from) = ScanOnce(g, pattern, body, from)
    BY <2>1, GoesOn DEF ScanOnce
  <2>3. from = first \/ from \in first + 1 .. l + 1
    BY <1>0
  <2> QED
    BY <1>1, <1>2, <1>3, <2>2, <2>3
<1>6. g = [from \in first .. l + 1 |-> ScanOnce(g, pattern, body, from)]
  BY <1>4, <1>5
<1>7. l + 1 - (m + 1) = first
  BY <1>0
<1>8. IsScan(g, pattern, body, m + 1)
  BY <1>6, <1>7 DEF IsScan
<1> QED
  BY <1>8

\* ... from every offset.
LEMMA ScanExists ==
    ASSUME NEW pattern \in Seq(Letters), NEW body \in Seq(Letters), pattern # <<>>
    PROVE  \E f : IsScan(f, pattern, body, Len(body) + 1)
<1>0. Len(body) \in Nat
  OBVIOUS
<1> DEFINE T == {m \in 0 .. Len(body) + 1 : ~ \E f : IsScan(f, pattern, body, m)}
<1>1. ASSUME T # {}
      PROVE  FALSE
  <2>0. T \subseteq Nat
    BY <1>0
  <2>1. PICK m \in T : \A k \in T : m <= k
    <3> HIDE DEF T
    <3> QED
      BY <1>1, <2>0, LeastNat
  <2>2. m \in 0 .. Len(body) + 1 /\ ~ \E f : IsScan(f, pattern, body, m)
    BY <2>1
  <2>3. CASE m = 0
    <3> DEFINE g == [from \in Len(body) + 1 .. Len(body) + 1 |-> ScanOnce(<<>>, pattern, body, from)]
    <3>1. g = [from \in Len(body) + 1 .. Len(body) + 1 |-> g[from]]
      OBVIOUS
    <3>2. \A from \in Len(body) + 1 .. Len(body) + 1 : g[from] = ScanOnce(<<>>, pattern, body, from)
      OBVIOUS
    <3> HIDE DEF g
    <3>3. ASSUME NEW from \in Len(body) + 1 .. Len(body) + 1
          PROVE  g[from] = ScanOnce(g, pattern, body, from)
      <4>1. from \in Nat /\ from + 1 .. Len(body) = {}
        BY <1>0
      <4>2. ScanOnce(<<>>, pattern, body, from) = ScanOnce(g, pattern, body, from)
        BY <4>1, GoesOn DEF ScanOnce
      <4> QED
        BY <3>2, <4>2
    <3>4. g = [from \in Len(body) + 1 .. Len(body) + 1 |-> ScanOnce(g, pattern, body, from)]
      BY <3>1, <3>3
    <3>5. Len(body) + 1 - 0 = Len(body) + 1
      BY <1>0
    <3>6. IsScan(g, pattern, body, 0)
      BY <3>4, <3>5 DEF IsScan
    <3> QED
      BY <2>2, <2>3, <3>6
  <2>4. CASE m # 0
    <3>1. m - 1 \in 0 .. Len(body) /\ m - 1 \notin T /\ (m - 1) + 1 = m
      BY <1>0, <2>1, <2>2, <2>4
    <3>2. m - 1 \in 0 .. Len(body) + 1
      BY <1>0, <3>1
    <3>3. PICK f : IsScan(f, pattern, body, m - 1)
      BY <3>1, <3>2
    <3>4. \E g : IsScan(g, pattern, body, (m - 1) + 1)
      BY <3>1, <3>3, ScanGoesOn
    <3> QED
      BY <2>2, <3>1, <3>4
  <2> QED
    BY <2>3, <2>4
<1>2. T = {}
  <2> HIDE DEF T
  <2> QED
    BY <1>1
<1>3. Len(body) + 1 \in 0 .. Len(body) + 1
  BY <1>0
<1> QED
  BY <1>2, <1>3

\* What a scan of the text from an offset on has to be: occurrences in their order, that do
\* not overlap, and of which one covers each occurrence there is.
ScanFits(found, pattern, body, from) ==
    /\ found \in Seq(Nat)
    /\ \A i \in 1 .. Len(found) : OccursAt(pattern, body, found[i]) /\ from <= found[i]
    /\ \A i \in 2 .. Len(found) : found[i - 1] + Len(pattern) <= found[i]
    /\ \A j \in from .. Len(body) :
          OccursAt(pattern, body, j) =>
             \E i \in 1 .. Len(found) : found[i] <= j /\ j < found[i] + Len(pattern)

\* In a scan each match ends before all that follow it.
LEMMA FitsApart ==
    ASSUME NEW pattern \in Seq(Letters), NEW body \in Seq(Letters), NEW found,
           ScanFits(found, pattern, body, 0), NEW k \in 1 .. Len(found), NEW i \in 1 .. Len(found), k < i
    PROVE  found[k] + Len(pattern) <= found[i]
<1> DEFINE n == Len(pattern)
           T == {e \in k + 1 .. Len(found) : ~(found[k] + n <= found[e])}
<1>1. /\ n \in Nat /\ Len(found) \in Nat /\ k \in Nat
      /\ \A e \in 1 .. Len(found) : found[e] \in Nat
      /\ \A e \in 2 .. Len(found) : found[e - 1] + n <= found[e]
  BY DEF ScanFits
<1>2. ASSUME T # {}
      PROVE  FALSE
  <2> HIDE DEF n
  <2>1. PICK e \in T : \A f \in T : e <= f
    <3>1. T \subseteq Nat
      BY <1>1
    <3> HIDE DEF T
    <3> QED
      BY <1>2, <3>1, LeastNat
  <2>2. e \in 2 .. Len(found) /\ e \in 1 .. Len(found) /\ e - 1 \in 1 .. Len(found) /\ k < e
    BY <1>1, <2>1
  <2>3. found[e - 1] + n <= found[e] /\ found[e - 1] \in Nat /\ found[e] \in Nat /\ found[k] \in Nat
    BY <1>1, <2>2
  <2>4. CASE e - 1 = k
    BY <2>1, <2>3, <2>4
  <2>5. CASE e - 1 # k
    <3>1. e - 1 \in k + 1 .. Len(found) /\ ~(e <= e - 1)
      BY <1>1, <2>2, <2>5
    <3>2. found[k] + n <= found[e - 1]
      BY <2>1, <3>1
    <3> QED
      BY <1>1, <2>1, <2>3, <3>2
  <2> QED
    BY <2>4, <2>5
<1>3. i \in k + 1 .. Len(found)
  BY <1>1
<1>4. i \notin T
  BY <1>2
<1> QED
  BY <1>3, <1>4

\* An element and what follows it.
LEMMA OneBefore ==
    ASSUME NEW e \in Nat, NEW s \in Seq(Nat)
    PROVE  /\ <<e>> \o s \in Seq(Nat) /\ Len(<<e>> \o s) = Len(s) + 1
           /\ (<<e>> \o s)[1] = e
           /\ \A i \in 2 .. Len(s) + 1 : (<<e>> \o s)[i] = s[i - 1]
<1>1. Len(<<e>>) = 1 /\ <<e>> \in Seq(Nat) /\ <<e>>[1] = e /\ Len(s) \in Nat
  OBVIOUS
<1>2. /\ <<e>> \o s \in Seq(Nat) /\ Len(<<e>> \o s) = Len(<<e>>) + Len(s)
      /\ \A i \in 1 .. Len(<<e>>) + Len(s) :
            (<<e>> \o s)[i] = IF i <= Len(<<e>>) THEN <<e>>[i] ELSE s[i - Len(<<e>>)]
  BY <1>1
<1> QED
  BY <1>1, <1>2

\* A match in front of a scan that begins where it ends.
LEMMA MatchThenScan ==
    ASSUME NEW pattern \in Seq(Letters), NEW body \in Seq(Letters), NEW from \in Nat,
           NEW idx \in from .. Len(body), OccursAt(pattern, body, idx),
           \A j \in from .. Len(body) : OccursAt(pattern, body, j) => idx <= j,
           NEW rest, ScanFits(rest, pattern, body, idx + Len(pattern))
    PROVE  ScanFits(<<idx>> \o rest, pattern, body, from)
<1> DEFINE found == <<idx>> \o rest
           n == Len(pattern)
<1>0. idx \in Nat /\ n \in Nat /\ Len(body) \in Nat /\ rest \in Seq(Nat) /\ Len(rest) \in Nat
      /\ from <= idx
  BY DEF ScanFits
<1>1. /\ found \in Seq(Nat) /\ Len(found) = Len(rest) + 1 /\ found[1] = idx
      /\ \A i \in 2 .. Len(rest) + 1 : found[i] = rest[i - 1]
  BY <1>0, OneBefore
<1>2. /\ \A i \in 1 .. Len(rest) : OccursAt(pattern, body, rest[i]) /\ idx + n <= rest[i] /\ rest[i] \in Nat
      /\ \A i \in 2 .. Len(rest) : rest[i - 1] + n <= rest[i]
      /\ \A j \in idx + n .. Len(body) :
            OccursAt(pattern, body, j) => \E i \in 1 .. Len(rest) : rest[i] <= j /\ j < rest[i] + n
  BY <1>0 DEF ScanFits
<1> HIDE DEF found, n
<1>3. ASSUME NEW i \in 1 .. Len(found)
      PROVE  OccursAt(pattern, body, found[i]) /\ from <= found[i]
  <2>1. CASE i = 1
    BY <1>0, <1>1, <2>1
  <2>2. CASE i # 1
    <3>1. i \in 2 .. Len(rest) + 1 /\ i - 1 \in 1 .. Len(rest) /\ found[i] = rest[i - 1]
      BY <1>0, <1>1, <2>2
    <3>2. OccursAt(pattern, body, rest[i - 1]) /\ idx + n <= rest[i - 1] /\ rest[i - 1] \in Nat
      BY <1>2, <3>1
    <3> QED
      BY <1>0, <3>1, <3>2
  <2> QED
    BY <2>1, <2>2
<1>4. ASSUME NEW i \in 2 .. Len(found)
      PROVE  found[i - 1] + n <= found[i]
  <2>1. i \in 2 .. Len(rest) + 1 /\ i - 1 \in 1 .. Len(rest) /\ found[i] = rest[i - 1]
    BY <1>0, <1>1
  <2>2. CASE i = 2
    <3>1. found[i - 1] = idx /\ idx + n <= rest[i - 1]
      BY <1>1, <1>2, <2>1, <2>2
    <3> QED
      BY <2>1, <3>1
  <2>3. CASE i # 2
    <3>1. i - 1 \in 2 .. Len(rest) /\ i - 1 \in 2 .. Len(rest) + 1
      <4>1. Len(rest) \in Nat /\ i \in 2 .. Len(rest) + 1
        BY <1>0, <2>1
      <4> QED
        BY <2>3, <4>1
    <3>2. found[i - 1] = rest[(i - 1) - 1] /\ rest[(i - 1) - 1] + n <= rest[i - 1]
      BY <1>1, <1>2, <3>1
    <3> QED
      BY <2>1, <3>2
  <2> QED
    BY <2>2, <2>3
<1>5. ASSUME NEW j \in from .. Len(body), OccursAt(pattern, body, j)
      PROVE  \E i \in 1 .. Len(found) : found[i] <= j /\ j < found[i] + n
  <2>0. idx <= j /\ j \in Nat
    BY <1>5
  <2>1. CASE j < idx + n
    <3>1. 1 \in 1 .. Len(found)
      BY <1>0, <1>1
    <3> QED
      BY <1>1, <2>0, <2>1, <3>1
  <2>2. CASE ~(j < idx + n)
    <3>1. j \in idx + n .. Len(body)
      BY <1>0, <2>0, <2>2
    <3>2. PICK i \in 1 .. Len(rest) : rest[i] <= j /\ j < rest[i] + n
      BY <1>2, <1>5, <3>1
    <3>3. i + 1 \in 2 .. Len(rest) + 1 /\ i + 1 \in 1 .. Len(found) /\ (i + 1) - 1 = i
      BY <1>0, <1>1
    <3>4. found[i + 1] = rest[i]
      BY <1>1, <3>3
    <3> QED
      BY <3>2, <3>3, <3>4
  <2> QED
    BY <2>1, <2>2
<1>6. ScanFits(found, pattern, body, from)
  BY <1>1, <1>3, <1>4, <1>5 DEF ScanFits, n
<1> QED
  BY <1>6 DEF found

\* The matches of a pattern are such a scan of the whole text.
LEMMA MatchesFit ==
    ASSUME NEW pattern \in Seq(Letters), NEW body \in Seq(Letters), pattern # <<>>
    PROVE  ScanFits(Matches(pattern, body), pattern, body, 0)
<1> DEFINE l == Len(body)
           scan == CHOOSE f : IsScan(f, pattern, body, l + 1)
<1>0. l \in Nat /\ l + 1 - (l + 1) = 0
  OBVIOUS
<1>1. IsScan(scan, pattern, body, l + 1)
  BY ScanExists
<1>2. Matches(pattern, body) = scan[0]
  BY <1>0 DEF Matches, IsScan, ScanOnce
<1> HIDE DEF scan
<1>3. \A from \in 0 .. l + 1 : scan[from] = ScanOnce(scan, pattern, body, from)
  BY <1>0, <1>1 DEF IsScan
<1> DEFINE T == {m \in 0 .. l + 1 : ~ScanFits(scan[l + 1 - m], pattern, body, l + 1 - m)}
<1>4. ASSUME T # {}
      PROVE  FALSE
  <2>0. T \subseteq Nat
    BY <1>0
  <2>1. PICK m \in T : \A k \in T : m <= k
    <3> HIDE DEF T
    <3> QED
      BY <1>4, <2>0, LeastNat
  <2> DEFINE from == l + 1 - m
             idx == FindFrom(pattern, body, from)
  <2>2. from \in Nat /\ from \in 0 .. l + 1 /\ m \in 0 .. l + 1 /\ ~ScanFits(scan[from], pattern, body, from)
    BY <1>0, <2>1
  <2>3. scan[from] = ScanOnce(scan, pattern, body, from)
    BY <1>3, <2>2
  <2>4. CASE idx < 0
    <3>1. scan[from] = <<>>
      BY <2>3, <2>4 DEF ScanOnce
    <3>2. \A j \in from .. Len(body) : ~OccursAt(pattern, body, j)
      BY <2>2, <2>4, FindsFirst
    <3>3. ScanFits(<<>>, pattern, body, from)
      <4>1. <<>> \in Seq(Nat) /\ Len(<<>>) = 0
        OBVIOUS
      <4> HIDE DEF from
      <4> QED
        BY <3>2, <4>1 DEF ScanFits
    <3> QED
      BY <2>2, <3>1, <3>3
  <2>5. CASE ~(idx < 0)
    <3>1. /\ idx \in from .. Len(body) /\ OccursAt(pattern, body, idx)
          /\ \A j \in from .. Len(body) : OccursAt(pattern, body, j) => idx <= j
      BY <2>2, <2>5, FindsFirst
    <3>2. After(idx, pattern) \in from + 1 .. l
      BY <2>2, <2>5, GoesOn
    <3>3. scan[from] = <<idx>> \o scan[After(idx, pattern)]
      BY <2>3, <2>5 DEF ScanOnce
    <3> DEFINE k == l + 1 - After(idx, pattern)
    <3>4. k \in 0 .. l + 1 /\ k < m /\ l + 1 - k = After(idx, pattern)
      <4> HIDE DEF idx
      <4> QED
        BY <1>0, <2>2, <3>2
    <3>5. k \notin T
      BY <2>1, <2>2, <3>4
    <3>6. ScanFits(scan[After(idx, pattern)], pattern, body, After(idx, pattern))
      <4> HIDE DEF k, idx
      <4> QED
        BY <3>4, <3>5
    <3>7. ScanFits(<<idx>> \o scan[After(idx, pattern)], pattern, body, from)
      <4> HIDE DEF idx, from
      <4> QED
        BY <2>2, <3>1, <3>6, MatchThenScan DEF After
    <3> QED
      BY <2>2, <3>3, <3>7
  <2> QED
    BY <2>4, <2>5
<1>5. T = {}
  <2> HIDE DEF T
  <2> QED
    BY <1>4
<1>7. l + 1 \in 0 .. l + 1
  BY <1>0
<1>6. ScanFits(scan[l + 1 - (l + 1)], pattern, body, l + 1 - (l + 1))
  BY <1>5, <1>7
<1> QED
  BY <1>0, <1>2, <1>6

\* The texts of a page and the patterns are sequences.
LEMMA TextsAreSequences == \A k : \A text \in Texts(k) : text \in Seq(Letters)
<1>1. ASSUME NEW k, NEW text \in Texts(k)
      PROVE  text \in Seq(Letters)
  <2>1. PICK n \in 0..k : text \in [1..n -> Letters]
    BY <1>1 DEF Texts
  <2> QED
    BY <2>1
<1> QED
  BY <1>1

\* A snippet has its match within it.
LEMMA SnippetHasMatch ==
    ASSUME NEW length \in Nat, NEW from \in Nat, NEW to \in Nat, to <= length
    PROVE  /\ Snippet(length, from, to)[1] <= from
           /\ to <= Snippet(length, from, to)[2] /\ Snippet(length, from, to)[2] <= length
<1>1. SnippetHalf \in Nat
  BY CapsAssumption
<1>2. /\ MostOf(0, from - SnippetHalf) <= from
      /\ to <= LeastOf(length, to + SnippetHalf) /\ LeastOf(length, to + SnippetHalf) <= length
  BY <1>1 DEF MostOf, LeastOf
<1> QED
  BY <1>2 DEF Snippet

\* A limit cuts what is more than it, and nothing else.
LEMMA LimitCuts ==
    ASSUME NEW total \in Nat, NEW limit \in Nat
    PROVE  \/ /\ LimitItems(total, limit) = [count |-> total, truncated |-> FALSE]
              /\ limit # NoLimit => total <= limit
           \/ LimitItems(total, limit) = [count |-> limit, truncated |-> TRUE] /\ limit < total
<1>1. CASE limit < total
  BY <1>1 DEF LimitItems, LeastOf
<1>2. CASE ~(limit < total)
  <2>1. total <= limit /\ (total > limit) = FALSE
    BY <1>2
  <2>2. limit # NoLimit => LeastOf(limit, total) = total
    BY <2>1 DEF LeastOf
  <2> QED
    BY <2>1, <2>2 DEF LimitItems
<1> QED
  BY <1>1, <1>2

\* Spans that are of a text.
OfText(spans, total, length) ==
    /\ Len(spans) = total
    /\ \A i \in 1 .. total : spans[i][1] \in Nat /\ spans[i][2] \in Nat /\ spans[i][2] <= length

\* An answer that gives the first of them, up to the limit, each within its snippet.
CutTo(a, spans, total, length, limit) ==
    /\ a.refused = FALSE /\ a.count \in Nat /\ a.count <= total /\ a.total = total
    /\ DOMAIN a.matches = 1 .. a.count
    /\ limit # NoLimit => a.count <= limit
    /\ \/ a.truncated = FALSE /\ a.count = total
       \/ a.truncated = TRUE /\ a.count = limit /\ limit < total
    /\ \A i \in 1 .. a.count :
          /\ a.matches[i].offset = spans[i][1]
          /\ a.matches[i].snippet[1] <= spans[i][1] /\ spans[i][2] <= a.matches[i].snippet[2]
          /\ a.matches[i].snippet[2] <= length

\* The matches given are such.
LEMMA FoundIsCut ==
    ASSUME NEW spans, NEW total \in Nat, NEW length \in Nat, NEW limit \in Int, ~(limit < 0),
           OfText(spans, total, length)
    PROVE  CutTo(Found(spans, length, limit), spans, total, length, limit)
<1>4. /\ Len(spans) = total
      /\ \A i \in 1 .. total : spans[i][1] \in Nat /\ spans[i][2] \in Nat /\ spans[i][2] <= length
  BY DEF OfText
<1> DEFINE a == Found(spans, length, limit)
           l == LimitItems(total, limit)
<1>0. limit \in Nat
  OBVIOUS
<1>1. /\ a.refused = FALSE /\ a.count = l.count /\ a.total = total /\ a.truncated = l.truncated
      /\ DOMAIN a.matches = 1 .. l.count
      /\ \A i \in 1 .. l.count : /\ a.matches[i].offset = spans[i][1]
                                 /\ a.matches[i].snippet = Snippet(length, spans[i][1], spans[i][2])
  <2>1. a = [refused |-> FALSE, count |-> l.count, total |-> total, truncated |-> l.truncated,
             matches |-> [i \in 1 .. l.count |->
                [offset |-> spans[i][1], snippet |-> Snippet(length, spans[i][1], spans[i][2])]]]
    BY <1>4 DEF Found
  <2> HIDE DEF a, l
  <2> QED
    BY <2>1
<1>2. /\ l.count \in Nat /\ l.count <= total
      /\ limit # NoLimit => l.count <= limit
      /\ \/ l.truncated = FALSE /\ l.count = total
         \/ l.truncated = TRUE /\ l.count = limit /\ limit < total
  <2>1. CASE l = [count |-> total, truncated |-> FALSE] /\ (limit # NoLimit => total <= limit)
    <3>1. l.count = total /\ l.truncated = FALSE
      BY <2>1
    <3> HIDE DEF l
    <3> QED
      BY <2>1, <3>1
  <2>2. CASE l = [count |-> limit, truncated |-> TRUE] /\ limit < total
    <3>1. l.count = limit /\ l.truncated = TRUE
      BY <2>2
    <3> HIDE DEF l
    <3> QED
      BY <1>0, <2>2, <3>1
  <2> QED
    BY <1>0, <2>1, <2>2, LimitCuts
<1> HIDE DEF a, l
<1>3. ASSUME NEW i \in 1 .. l.count
      PROVE  /\ a.matches[i].snippet[1] <= spans[i][1] /\ spans[i][2] <= a.matches[i].snippet[2]
             /\ a.matches[i].snippet[2] <= length
  <2>1. i \in 1 .. total
    BY <1>2
  <2> QED
    BY <1>1, <1>4, <2>1, SnippetHasMatch
<1>5. CutTo(a, spans, total, length, limit)
  BY <1>1, <1>2, <1>3 DEF CutTo
<1> QED
  BY <1>5 DEF a

\* How many an answer of browser_find_text gives.
LEMMA FoundUpToLimit ==
    ASSUME NEW length \in Nat, NEW limit \in Int, NEW total \in Nat,
           \/ answer'.refused = TRUE /\ asked'.limit < 0
           \/ /\ answer'.refused = FALSE /\ answer'.count \in Nat /\ answer'.total = total
              /\ DOMAIN answer'.matches = 1 .. answer'.count
              /\ limit # NoLimit => answer'.count <= limit
              /\ ~(asked'.limit < 0)
              /\ \/ answer'.truncated = FALSE /\ answer'.count = total
                 \/ answer'.truncated = TRUE /\ answer'.count = limit /\ limit < total,
           asked'.limit = limit,
           asked'.kind = "find" => asked'.pattern # <<>>
    PROVE  FindsUpToLimit'
<1>1. MaxItems \in Nat
  BY CapsAssumption
<1>2. limit \in 0 .. NoLimit - 1 => limit # NoLimit
  BY <1>1 DEF NoLimit
<1>3. answer'.refused <=> asked'.limit < 0
  OBVIOUS
<1>4. ASSUME ~answer'.refused
      PROVE  /\ DOMAIN answer'.matches = 1 .. answer'.count
             /\ answer'.truncated <=> answer'.count < answer'.total
             /\ answer'.truncated => answer'.count = limit
             /\ limit \in 0 .. NoLimit - 1 => answer'.count <= limit
  BY <1>2, <1>4
<1> QED
  BY <1>3, <1>4 DEF FindsUpToLimit

\* An answer of browser_find_text for a text is honest.
LEMMA FindIsHonest ==
    ASSUME NEW pattern \in Texts(MaxNeedle), NEW body \in Texts(MaxText), NEW limit \in Limits,
           FindText(pattern, body, limit)
    PROVE  FindsUpToLimit' /\ FindsEachOnce'
<1> DEFINE m == Matches(pattern, body)
           n == Len(pattern)
           l == Len(body)
           spans == [i \in 1 .. Len(m) |-> <<m[i], m[i] + Len(pattern)>>]
<1>1. pattern \in Seq(Letters) /\ body \in Seq(Letters) /\ n \in Nat /\ l \in Nat
  BY TextsAreSequences
<1>2. /\ asked' = [kind |-> "find", pattern |-> pattern, body |-> body, limit |-> limit]
      /\ answer' = IF pattern = <<>> THEN Found(<<>>, l, NoLimit) ELSE Found(spans, l, limit)
  BY DEF FindText
<1>3. asked'.pattern = pattern /\ asked'.body = body /\ asked'.limit = limit /\ asked'.kind = "find"
  BY <1>2
<1>6. limit \in Int /\ NoLimit \in Nat
  BY CapsAssumption DEF Limits, NoLimit
<1>4. CASE pattern = <<>>
  <2>1. answer' = Found(<<>>, l, NoLimit) /\ n = 0
    BY <1>2, <1>4
  <2>2. OfText(<<>>, 0, l)
    <3>1. Len(<<>>) = 0 /\ 1 .. 0 = {}
      OBVIOUS
    <3> QED
      BY <3>1 DEF OfText
  <2> HIDE DEF n, l
  <2>3. /\ answer'.refused = FALSE /\ answer'.count \in Nat /\ answer'.count <= 0 /\ answer'.total = 0
        /\ DOMAIN answer'.matches = 1 .. answer'.count
        /\ \/ answer'.truncated = FALSE
           \/ answer'.truncated = TRUE /\ answer'.count = NoLimit /\ NoLimit < 0
    <3>1. CutTo(answer', <<>>, 0, l, NoLimit)
      BY <1>1, <1>6, <2>1, <2>2, FoundIsCut
    <3> QED
      BY <3>1 DEF CutTo
  <2>4. answer'.truncated = FALSE /\ answer'.count = 0 /\ 1 .. answer'.count = {}
    BY <1>6, <2>3
  <2> QED
    BY <1>3, <1>4, <2>1, <2>3, <2>4 DEF FindsUpToLimit, FindsEachOnce, n
<1>5. CASE pattern # <<>>
  <2>1. ScanFits(m, pattern, body, 0)
    BY <1>1, <1>5, MatchesFit
  <2>12. answer' = Found(spans, l, limit)
    BY <1>2, <1>5
  <2> HIDE DEF m, n, l
  <2>2. m \in Seq(Nat) /\ Len(m) \in Nat /\ DOMAIN m = 1 .. Len(m)
    BY <2>1 DEF ScanFits
  <2>3. /\ \A i \in 1 .. Len(m) : OccursAt(pattern, body, m[i]) /\ m[i] \in Nat
        /\ \A i \in 2 .. Len(m) : m[i - 1] + n <= m[i]
        /\ \A j \in 0 .. l :
              OccursAt(pattern, body, j) => \E i \in 1 .. Len(m) : m[i] <= j /\ j < m[i] + n
    BY <2>1, <2>2 DEF ScanFits, n, l
  <2>4. /\ Len(spans) = Len(m)
        /\ \A i \in 1 .. Len(m) : spans[i][1] = m[i] /\ spans[i][2] = m[i] + n
    BY <2>2 DEF n
  <2>5. \A i \in 1 .. Len(m) : m[i] + n <= l
    BY <2>3 DEF OccursAt, n, l
  <2> HIDE DEF spans
  <2>6. CASE limit < 0
    <3>1. answer'.refused = TRUE
      BY <2>6, <2>12 DEF Found, Refused
    <3> QED
      BY <1>1, <1>3, <1>5, <1>6, <2>2, <2>6, <3>1, FoundUpToLimit DEF FindsEachOnce
  <2>7. CASE ~(limit < 0)
    <3>1. OfText(spans, Len(m), l)
      <4>1. ASSUME NEW i \in 1 .. Len(m)
            PROVE  spans[i][1] \in Nat /\ spans[i][2] \in Nat /\ spans[i][2] <= l
        <5>1. /\ m[i] \in Nat /\ m[i] + n <= l
              /\ spans[i][1] = m[i] /\ spans[i][2] = m[i] + n
          BY <2>3, <2>4, <2>5
        <5> QED
          BY <1>1, <5>1
      <4> QED
        BY <2>4, <4>1 DEF OfText
    <3>2. /\ answer'.refused = FALSE /\ answer'.count \in Nat /\ answer'.count <= Len(m)
          /\ answer'.total = Len(m) /\ DOMAIN answer'.matches = 1 .. answer'.count
          /\ limit # NoLimit => answer'.count <= limit
          /\ \/ answer'.truncated = FALSE /\ answer'.count = Len(m)
             \/ answer'.truncated = TRUE /\ answer'.count = limit /\ limit < Len(m)
          /\ \A i \in 1 .. answer'.count :
                /\ answer'.matches[i].offset = spans[i][1]
                /\ answer'.matches[i].snippet[1] <= spans[i][1]
                /\ spans[i][2] <= answer'.matches[i].snippet[2]
                /\ answer'.matches[i].snippet[2] <= l
      <4>1. CutTo(answer', spans, Len(m), l, limit)
        BY <1>1, <1>6, <2>2, <2>7, <2>12, <3>1, FoundIsCut
      <4> QED
        BY <4>1 DEF CutTo
    <3> DEFINE c == answer'.count
    <3>3. FindsUpToLimit'
      BY <1>1, <1>3, <1>5, <1>6, <2>2, <2>7, <3>2, FoundUpToLimit
    <3>4. c \in Nat /\ c <= Len(m) /\ 1 .. c \subseteq 1 .. Len(m) /\ 2 .. c \subseteq 2 .. Len(m)
      BY <2>2, <3>2
    <3>5. \A i \in 1 .. c : answer'.matches[i].offset = m[i]
      BY <2>4, <3>2, <3>4
    <3>6. ASSUME NEW i \in 1 .. c
          PROVE  /\ OccursAt(pattern, body, answer'.matches[i].offset)
                 /\ answer'.matches[i].snippet[1] <= answer'.matches[i].offset
                 /\ answer'.matches[i].offset + n <= answer'.matches[i].snippet[2]
                 /\ answer'.matches[i].snippet[2] <= l
                 /\ i > 1 => answer'.matches[i].offset >= answer'.matches[i - 1].offset + n
      <4> HIDE DEF c
      <4>1. i \in 1 .. Len(m) /\ m[i] \in Nat /\ OccursAt(pattern, body, m[i]) /\ spans[i][1] = m[i]
            /\ spans[i][2] = m[i] + n
        BY <2>3, <2>4, <3>4
      <4>2. ASSUME i > 1
            PROVE  answer'.matches[i].offset >= answer'.matches[i - 1].offset + n
        <5>1. i \in 2 .. Len(m) /\ i - 1 \in 1 .. c /\ i - 1 \in 1 .. Len(m)
          BY <2>2, <3>4, <4>1, <4>2
        <5>2. m[i - 1] + n <= m[i] /\ m[i - 1] \in Nat
          BY <2>3, <5>1
        <5>3. answer'.matches[i].offset = m[i] /\ answer'.matches[i - 1].offset = m[i - 1]
          BY <3>5, <5>1
        <5> QED
          BY <1>1, <4>1, <5>2, <5>3
      <4>3. answer'.matches[i].offset = m[i]
        BY <3>5
      <4>4. /\ answer'.matches[i].snippet[1] <= spans[i][1]
            /\ spans[i][2] <= answer'.matches[i].snippet[2]
            /\ answer'.matches[i].snippet[2] <= l
        BY <3>2 DEF c
      <4> QED
        BY <4>1, <4>2, <4>3, <4>4
    <3>7. ASSUME NEW j \in 0 .. l, OccursAt(pattern, body, j)
          PROVE  \/ \E i \in 1 .. c : answer'.matches[i].offset <= j /\ j < answer'.matches[i].offset + n
                 \/ answer'.truncated /\ \A i \in 1 .. c : answer'.matches[i].offset + n <= j
      <4> HIDE DEF c
      <4>1. PICK i \in 1 .. Len(m) : m[i] <= j /\ j < m[i] + n
        BY <2>3, <3>7
      <4>2. CASE i <= c
        <5>1. i \in 1 .. c
          BY <2>2, <3>4, <4>2
        <5> QED
          BY <3>5, <4>1, <5>1
      <4>3. CASE ~(i <= c)
        <5>1. answer'.truncated = TRUE
          BY <2>2, <3>2, <3>4, <4>3 DEF c
        <5>2. ASSUME NEW k \in 1 .. c
              PROVE  m[k] + n <= j
          <6>1. k \in 1 .. Len(m) /\ k < i
            BY <2>2, <3>4, <4>3
          <6>2. m[k] + n <= m[i]
            BY <1>1, <2>1, <2>2, <6>1, FitsApart DEF n
          <6>3. m[k] \in Nat /\ m[i] \in Nat /\ j \in Nat
            BY <1>1, <2>3, <6>1
          <6> QED
            BY <1>1, <4>1, <6>2, <6>3
        <5> QED
          BY <3>5, <5>1, <5>2
      <4> QED
        BY <2>2, <3>4, <4>2, <4>3
    <3>8. FindsEachOnce'
      BY <1>3, <3>6, <3>7 DEF FindsEachOnce, n, l
    <3> QED
      BY <3>3, <3>8
  <2> QED
    BY <2>6, <2>7
<1> QED
  BY <1>4, <1>5

\* What re.finditer yields are spans of the text.
LEMMA SpansAreOfText ==
    ASSUME NEW length \in Nat, NEW spans \in Spans(length)
    PROVE  Len(spans) \in Nat /\ OfText(spans, Len(spans), length)
<1>1. PICK k \in 0..MaxItems : spans \in [1..k -> (0..length) \X (0..length)]
  BY DEF Spans
<1>2. Len(spans) = k /\ k \in Nat
  BY <1>1, CapsAssumption
<1>3. \A i \in 1 .. k : spans[i] \in (0..length) \X (0..length)
  BY <1>1
<1> QED
  BY <1>2, <1>3 DEF OfText

\* An answer of browser_find_text for a regular expression is honest.
LEMMA RegexIsHonest ==
    ASSUME NEW length \in 0..MaxNeedle, NEW limit \in Limits, NEW spans \in Spans(length),
           FindRegex(spans, length, limit)
    PROVE  FindsUpToLimit' /\ FindsFirstSpans'
<1>1. length \in Nat /\ limit \in Int
  BY CapsAssumption DEF Limits, NoLimit
<1>2. /\ asked'.kind = "regex" /\ asked'.spans = spans /\ asked'.length = length /\ asked'.limit = limit
      /\ answer' = Found(spans, length, limit)
  BY DEF FindRegex
<1>3. Len(spans) \in Nat /\ OfText(spans, Len(spans), length)
  BY <1>1, SpansAreOfText
<1>4. CASE limit < 0
  <2>1. answer'.refused = TRUE
    BY <1>2, <1>4 DEF Found, Refused
  <2> QED
    BY <1>1, <1>2, <1>3, <1>4, <2>1, FoundUpToLimit DEF FindsFirstSpans
<1>5. CASE ~(limit < 0)
  <2>1. /\ answer'.refused = FALSE /\ answer'.count \in Nat /\ answer'.count <= Len(spans)
        /\ answer'.total = Len(spans) /\ DOMAIN answer'.matches = 1 .. answer'.count
        /\ limit # NoLimit => answer'.count <= limit
        /\ \/ answer'.truncated = FALSE /\ answer'.count = Len(spans)
           \/ answer'.truncated = TRUE /\ answer'.count = limit /\ limit < Len(spans)
        /\ \A i \in 1 .. answer'.count :
              /\ answer'.matches[i].offset = spans[i][1]
              /\ answer'.matches[i].snippet[1] <= spans[i][1]
              /\ spans[i][2] <= answer'.matches[i].snippet[2]
              /\ answer'.matches[i].snippet[2] <= length
    <3>1. CutTo(answer', spans, Len(spans), length, limit)
      BY <1>1, <1>2, <1>3, <1>5, FoundIsCut
    <3> QED
      BY <3>1 DEF CutTo
  <2>2. FindsUpToLimit'
    BY <1>1, <1>2, <1>3, <1>5, <2>1, FoundUpToLimit
  <2>3. FindsFirstSpans'
    BY <1>2, <2>1 DEF FindsFirstSpans
  <2> QED
    BY <2>2, <2>3
<1> QED
  BY <1>4, <1>5

\* A listing is honest, ...
LEMMA ListIsHonest ==
    ASSUME NEW items \in 0..MaxItems, NEW kept \in 0..MaxItems, NEW limit \in Limits, NEW toFile \in BOOLEAN,
           List(items, kept, limit, toFile)
    PROVE  AnswersAreHonest'
<1>0. MaxItems \in Nat /\ kept \in Nat /\ kept <= MaxItems /\ limit \in Int
  BY CapsAssumption DEF Limits, NoLimit
<1>1. asked' = [kind |-> "list", items |-> items, kept |-> kept, limit |-> limit, toFile |-> toFile]
  BY DEF List
<1>2. asked'.kind = "list" /\ asked'.kept = kept /\ asked'.limit = limit
  BY <1>1
<1>3. CASE limit < 0
  <2>1. answer' = [refused |-> TRUE]
    BY <1>3 DEF List, Refused
  <2> QED
    BY <1>2, <1>3, <2>1 DEF AnswersAreHonest, ListsAreHonest, CapsAreHonest,
                            FindsUpToLimit, FindsEachOnce, FindsFirstSpans
<1>4. CASE ~(limit < 0)
  <2>1. /\ answer'.refused = FALSE /\ answer'.total = kept
        /\ answer'.count = LimitItems(kept, limit).count
        /\ answer'.truncated = LimitItems(kept, limit).truncated
        /\ answer'.inline = (IF toFile THEN 0 ELSE LimitItems(kept, limit).count)
        /\ answer'.written = (IF toFile THEN LimitItems(kept, limit).count ELSE 0)
    BY <1>4 DEF List
  <2>2. limit \in Nat
    BY <1>0, <1>4
  <2>3. CASE /\ LimitItems(kept, limit) = [count |-> kept, truncated |-> FALSE]
             /\ limit # NoLimit => kept <= limit
    <3>1. /\ answer'.count = kept /\ answer'.truncated = FALSE
          /\ answer'.inline + answer'.written = kept
      BY <1>0, <2>1, <2>3
    <3> QED
      BY <1>0, <1>2, <1>4, <2>1, <2>3, <3>1 DEF AnswersAreHonest, ListsAreHonest,
                                                CapsAreHonest, FindsUpToLimit,
                                                FindsEachOnce, FindsFirstSpans
  <2>4. CASE LimitItems(kept, limit) = [count |-> limit, truncated |-> TRUE] /\ limit < kept
    <3>1. /\ answer'.count = limit /\ answer'.truncated = TRUE
          /\ answer'.inline + answer'.written = limit
      BY <2>1, <2>2, <2>4
    <3> QED
      BY <1>0, <1>2, <1>4, <2>1, <2>2, <2>4, <3>1
         DEF AnswersAreHonest, ListsAreHonest, CapsAreHonest, FindsUpToLimit,
             FindsEachOnce, FindsFirstSpans
  <2> QED
    BY <1>0, <2>2, <2>3, <2>4, LimitCuts
<1> QED
  BY <1>3, <1>4

\* ... and so are the rows of a table ...
LEMMA RowsAreHonest ==
    ASSUME NEW rows \in 0..RowCap + 1, TableRows(rows)
    PROVE  AnswersAreHonest'
<1>1. RowCap \in Nat /\ rows \in Nat
  BY CapsAssumption
<1>2. asked'.kind = "rows" /\ asked'.rows = rows
  BY DEF TableRows
<1>3. answer'.rowcount = LeastOf(rows, RowCap) /\ answer'.truncated = (rows > RowCap)
  BY DEF TableRows
<1>4. rows > RowCap <=> LeastOf(rows, RowCap) < rows
  BY <1>1 DEF LeastOf
<1> QED
  BY <1>2, <1>3, <1>4 DEF AnswersAreHonest, ListsAreHonest, CapsAreHonest,
                          FindsUpToLimit, FindsEachOnce, FindsFirstSpans

\* ... and what is given inline.
LEMMA InlineIsHonest ==
    ASSUME NEW tool \in {"source", "structured", "output"}, NEW bytes \in 0..InlineCap + 1, NEW utf8 \in BOOLEAN,
           Inline(tool, bytes, utf8)
    PROVE  AnswersAreHonest'
<1>1. InlineCap \in Nat /\ bytes \in Nat
  BY CapsAssumption
<1>2. asked'.kind = "inline" /\ asked'.bytes = bytes
  BY DEF Inline
<1>3. \/ answer' \in {Cut(bytes), Bounded(bytes)}
      \/ bytes <= InlineCap /\ answer' = [inline |-> bytes, truncated |-> FALSE, summary |-> FALSE]
  BY DEF Inline, ReadOutput
<1>4. /\ answer'.inline <= InlineCap
      /\ answer'.truncated <=> answer'.inline < bytes
      /\ answer'.summary => answer'.inline = 0
  <2>1. CASE answer' = Cut(bytes)
    <3>1. /\ answer'.inline = LeastOf(bytes, InlineCap) /\ answer'.truncated = (bytes > InlineCap)
          /\ answer'.summary = FALSE
      BY <2>1 DEF Cut
    <3>2. LeastOf(bytes, InlineCap) <= InlineCap /\ (bytes > InlineCap <=> LeastOf(bytes, InlineCap) < bytes)
      BY <1>1 DEF LeastOf
    <3> QED
      BY <3>1, <3>2
  <2>2. CASE answer' = Bounded(bytes) /\ bytes > InlineCap
    <3>1. answer'.inline = 0 /\ answer'.truncated = TRUE
      BY <1>1, <2>2 DEF Bounded
    <3> QED
      BY <1>1, <2>2, <3>1
  <2>3. CASE bytes <= InlineCap /\ answer' = [inline |-> bytes, truncated |-> FALSE, summary |-> FALSE]
    <3>1. answer'.inline = bytes /\ answer'.truncated = FALSE /\ answer'.summary = FALSE
      BY <2>3
    <3> QED
      BY <1>1, <2>3, <3>1
  <2>4. answer' = Bounded(bytes) /\ ~(bytes > InlineCap) =>
           answer' = [inline |-> bytes, truncated |-> FALSE, summary |-> FALSE]
    BY <1>1 DEF Bounded
  <2>5. bytes > InlineCap \/ bytes <= InlineCap
    BY <1>1
  <2> QED
    BY <1>3, <2>1, <2>2, <2>3, <2>4, <2>5
<1> QED
  BY <1>2, <1>4 DEF AnswersAreHonest, ListsAreHonest, CapsAreHonest, FindsUpToLimit,
                    FindsEachOnce, FindsFirstSpans

\* Every answer is honest.
LEMMA AnswersStayHonest == AnswersInit /\ [][AnswersNext]_answerVars => []AnswersAreHonest
<1>1. AnswersInit => AnswersAreHonest
  BY DEF AnswersInit, AnswersAreHonest, ListsAreHonest, CapsAreHonest,
         FindsUpToLimit, FindsEachOnce, FindsFirstSpans
<1>2. AnswersAreHonest /\ [AnswersNext]_answerVars => AnswersAreHonest'
  <2> SUFFICES ASSUME AnswersAreHonest, [AnswersNext]_answerVars PROVE AnswersAreHonest'
    OBVIOUS
  <2>1. ASSUME NEW pattern \in Texts(MaxNeedle), NEW body \in Texts(MaxText), NEW limit \in Limits,
               FindText(pattern, body, limit)
        PROVE  AnswersAreHonest'
    <3>1. asked'.kind = "find"
      BY <2>1 DEF FindText
    <3>2. FindsUpToLimit' /\ FindsEachOnce'
      BY <2>1, FindIsHonest
    <3> QED
      BY <3>1, <3>2 DEF AnswersAreHonest, ListsAreHonest, CapsAreHonest,
                        FindsFirstSpans
  <2>4. ASSUME NEW length \in 0..MaxNeedle, NEW limit \in Limits, NEW spans \in Spans(length),
               FindRegex(spans, length, limit)
        PROVE  AnswersAreHonest'
    <3>1. asked'.kind = "regex"
      BY <2>4 DEF FindRegex
    <3>2. FindsUpToLimit' /\ FindsFirstSpans'
      BY <2>4, RegexIsHonest
    <3> QED
      BY <3>1, <3>2 DEF AnswersAreHonest, ListsAreHonest, CapsAreHonest,
                        FindsEachOnce
  <2>2. CASE AnswersNext
    BY <2>1, <2>2, <2>4, ListIsHonest, RowsAreHonest, InlineIsHonest DEF AnswersNext
  <2>3. CASE UNCHANGED answerVars
    BY <2>3 DEF answerVars, AnswersAreHonest, ListsAreHonest, CapsAreHonest,
                FindsUpToLimit, FindsEachOnce, FindsFirstSpans
  <2> QED
    BY <2>2, <2>3
<1> QED
  BY <1>1, <1>2, PTL

-----------------------------------------------------------------------------
(* The surface: each component goes its own way                            *)

\* A behaviour of the surface is one of BrowserFocus.
LEMMA FocusIsApart == SurfaceSpec => FocusInit /\ [][FocusNext]_focusVars
<1>1. SurfaceInit => FocusInit
  BY DEF SurfaceInit
<1>2. [SurfaceNext]_surfaceVars => [FocusNext]_focusVars
  BY DEF SurfaceNext, surfaceVars
<1> QED
  BY <1>1, <1>2, PTL DEF SurfaceSpec

\* A behaviour of the surface is one of ScriptContext.
LEMMA ScriptIsApart == SurfaceSpec => ScriptInit /\ [][ScriptNext]_scriptVars
<1>1. SurfaceInit => ScriptInit
  BY DEF SurfaceInit
<1>2. [SurfaceNext]_surfaceVars => [ScriptNext]_scriptVars
  BY DEF SurfaceNext, surfaceVars
<1> QED
  BY <1>1, <1>2, PTL DEF SurfaceSpec

\* A behaviour of the surface is one of GeckoCache.
LEMMA CacheIsApart == SurfaceSpec => CacheInit /\ [][CacheNext]_cacheVars
<1>1. SurfaceInit => CacheInit
  BY DEF SurfaceInit
<1>2. [SurfaceNext]_surfaceVars => [CacheNext]_cacheVars
  BY DEF SurfaceNext, surfaceVars
<1> QED
  BY <1>1, <1>2, PTL DEF SurfaceSpec

\* A behaviour of the surface is one of HttpOverTor.
LEMMA HttpIsApart == SurfaceSpec => HttpInit /\ [][HttpNext]_httpVars
<1>1. SurfaceInit => HttpInit
  BY DEF SurfaceInit
<1>2. [SurfaceNext]_surfaceVars => [HttpNext]_httpVars
  BY DEF SurfaceNext, surfaceVars
<1> QED
  BY <1>1, <1>2, PTL DEF SurfaceSpec

\* A behaviour of the surface is one of SocksTunnel.
LEMMA TunnelIsApart == SurfaceSpec => TunnelInit /\ [][TunnelNext]_tunnelVars
<1>1. SurfaceInit => TunnelInit
  BY DEF SurfaceInit
<1>2. [SurfaceNext]_surfaceVars => [TunnelNext]_tunnelVars
  BY DEF SurfaceNext, surfaceVars
<1> QED
  BY <1>1, <1>2, PTL DEF SurfaceSpec

\* A behaviour of the surface is one of TorRouting.
LEMMA RoutingIsApart == SurfaceSpec => RoutingInit /\ [][RoutingNext]_routingVars
<1>1. SurfaceInit => RoutingInit
  BY DEF SurfaceInit
<1>2. [SurfaceNext]_surfaceVars => [RoutingNext]_routingVars
  BY DEF SurfaceNext, surfaceVars
<1> QED
  BY <1>1, <1>2, PTL DEF SurfaceSpec

\* A behaviour of the surface is one of PagePolls.
LEMMA PollIsApart == SurfaceSpec => PollInit /\ [][PollNext]_pollVars
<1>1. SurfaceInit => PollInit
  BY DEF SurfaceInit
<1>2. [SurfaceNext]_surfaceVars => [PollNext]_pollVars
  BY DEF SurfaceNext, surfaceVars
<1> QED
  BY <1>1, <1>2, PTL DEF SurfaceSpec

\* A behaviour of the surface is one of StoredState.
LEMMA StateIsApart == SurfaceSpec => StateInit /\ [][StateNext]_stateVars
<1>1. SurfaceInit => StateInit
  BY DEF SurfaceInit
<1>2. [SurfaceNext]_surfaceVars => [StateNext]_stateVars
  BY DEF SurfaceNext, surfaceVars
<1> QED
  BY <1>1, <1>2, PTL DEF SurfaceSpec

\* A behaviour of the surface is one of OutputFiles.
LEMMA FilesIsApart == SurfaceSpec => FilesInit /\ [][FilesNext]_fileVars
<1>1. SurfaceInit => FilesInit
  BY DEF SurfaceInit
<1>2. [SurfaceNext]_surfaceVars => [FilesNext]_fileVars
  BY DEF SurfaceNext, surfaceVars
<1> QED
  BY <1>1, <1>2, PTL DEF SurfaceSpec

\* A behaviour of the surface is one of ToolAnswers.
LEMMA AnswersIsApart == SurfaceSpec => AnswersInit /\ [][AnswersNext]_answerVars
<1>1. SurfaceInit => AnswersInit
  BY DEF SurfaceInit
<1>2. [SurfaceNext]_surfaceVars => [AnswersNext]_answerVars
  BY DEF SurfaceNext, surfaceVars
<1> QED
  BY <1>1, <1>2, PTL DEF SurfaceSpec

\* Every variable of every component keeps its type.
THEOREM SurfaceIsTyped == SurfaceSpec => []SurfaceTypeOK
<1>1. SurfaceInit => component \in Components
  BY DEF SurfaceInit
<1>2. component \in Components /\ [SurfaceNext]_surfaceVars => (component \in Components)'
  BY DEF SurfaceNext, surfaceVars
<1>3. SurfaceSpec => [](component \in Components)
  BY <1>1, <1>2, PTL DEF SurfaceSpec
<1> QED
  BY <1>3, FocusIsApart, ScriptIsApart, CacheIsApart, HttpIsApart, TunnelIsApart,
     RoutingIsApart, PollIsApart, StateIsApart, FilesIsApart, FocusKept, ScriptKept,
     CacheKept, HttpKept, TunnelKept, RoutingKept, PollKept, StateKept, FilesKept,
     PTL
     DEF SurfaceTypeOK

\* Once all calls have returned the focus is on an open window, if there is one, and a call
\* that ran alone ends where its answer says (BrowserFocus).
THEOREM FocusStaysTrue == SurfaceSpec => []FocusIsTrue
BY FocusIsApart, FocusKept, PTL

\* The session is in the content context while no chrome call is in progress, and the
\* process has its stdout back after every Python call that overlapped no other
\* (ScriptContext).
THEOREM LoansAreReturned == SurfaceSpec => []LoansComeBack
BY ScriptIsApart, ScriptKept, PTL

\* A binary that nobody extracts is whole unless the last extraction to begin was cut
\* short, and nothing else is left once every process has ended by itself (GeckoCache).
THEOREM CacheStaysClean == SurfaceSpec => []CacheIsClean
BY CacheIsApart, CacheKept, PTL

\* A Cookie header taken from the jar carries what that very host last set, and a Cookie among the
\* headers is sent instead on every hop of its entry (HttpOverTor).
THEOREM CookiesStayWithTheirHosts == SurfaceSpec => []CookiesGoToWhoSetThem
BY HttpIsApart, HttpKept, PTL

\* A result names the chain that led to it, and says that a body is cut exactly when it
\* is (HttpOverTor).
THEOREM HttpIsHonest == SurfaceSpec => []HttpAnswersAreHonest
BY HttpIsApart, HttpKept, PTL

\* No direction is cut short by the other unless an end was reset, and a connection that is
\* over leaves nothing open and has been answered once, or not at all where an unexpected
\* error ended its handler (SocksTunnel).
THEOREM TunnelsEndWhole == SurfaceSpec => []TunnelEndsWhole
BY TunnelIsApart, TunnelKept, PTL

\* Once no call is in flight each half of the exit policy is what a call of the last round
\* had in its command or, where none got there, what it was before; and a call that ran
\* alone is told what it replaced, as far as its queries were answered (TorRouting).
THEOREM PolicyFollowsItsCallers == SurfaceSpec => []ExitPolicyIsOfItsCallers
BY RoutingIsApart, RoutingKept, PTL

\* What has been there since the last sleep is found, also past the deadline, and a verdict
\* is of the page of the check (PagePolls).
THEOREM PollsStayRight == SurfaceSpec => []PollsAreRight
BY PollIsApart, PollKept, PTL

\* Downloads are in one place until they are lost; a listing that returns, walking folder by
\* folder, has all that nobody else touched; and a dump that returns is whole; whatever
\* other threads do to the directory (OutputFiles).
THEOREM SharedFilesStayKept == SurfaceSpec => []SharedFilesAreKept
BY FilesIsApart, FilesKept, PTL

\* A capture is of one document, a restore brings it back, and writes no storage of another
\* origin, as long as the document stays (StoredState).
THEOREM RestoresAreFaithful == SurfaceSpec => RestoreIsFaithful
BY StateIsApart, StateKept, PTL

\* Whatever names the tools are given, with ".." in them, absolute or through links: no call
\* that is not refused is at work outside of the output directory and the allowed roots,
\* and the files there stay as they were (OutputFiles).
THEOREM FilesStayInPlace == SurfaceSpec => []NothingOutside
BY FilesIsApart, FilesStayInside, PTL

\* A bounded answer says what it leaves out and keeps within its caps, and browser_find_text
\* gives, in order and up to its limit, every occurrence that overlaps none it has given,
\* or the first matches of a regular expression (ToolAnswers).
THEOREM AnswersStayTrue == SurfaceSpec => []AnswersAreHonest
BY AnswersIsApart, AnswersStayHonest, PTL
=============================================================================
