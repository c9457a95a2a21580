------------------------ MODULE FlowRecorderProofs --------------------------
(***************************************************************************)
(* Theorems about FlowRecorder, and about FlowTools over it, for every set *)
(* of flows, every capacity of the buffer, every number of clients and     *)
(* every length of the run.                                                *)
(***************************************************************************)
EXTENDS FlowTools, TLAPS

NewEntry(i, answered) ==
    [id |-> i, at |-> Len(log) + 1, since |-> nextSince, answered |-> answered]

\* One insertion shifts the buffer by one place when it was full, by none
\* otherwise, and puts the new entry last.
LEMMA InsertShape ==
    ASSUME RecorderInv, NEW i \in Ids, NEW answered \in BOOLEAN, Insert(i, answered)
    PROVE  /\ buffer' \in Seq(Entries)
           /\ \E d \in {0, 1} :
                /\ d = 1 <=> Full
                /\ d <= Len(buffer)
                /\ Len(buffer') = Len(buffer) - d + 1
                /\ \A k \in 1 .. Len(buffer) - d : buffer'[k] = buffer[k + d]
                /\ buffer'[Len(buffer')] = NewEntry(i, answered)
<1>1. buffer \in Seq(Entries) /\ nextSince \in Nat /\ Len(log) \in Nat /\ Len(buffer) \in Nat
  BY DEF RecorderInv, TypeOK
<1>2. NewEntry(i, answered) \in Entries
  BY <1>1 DEF NewEntry, Entries
<1>3. CASE Full
  <2>1. Len(buffer) > 0 /\ buffer # << >>
    BY <1>1, <1>3, MaxFlowsAssumption DEF Full
  <2>2. /\ Tail(buffer) \in Seq(Entries) /\ Len(Tail(buffer)) = Len(buffer) - 1
        /\ \A k \in 1 .. Len(buffer) - 1 : Tail(buffer)[k] = buffer[k + 1]
    BY <1>1, <2>1
  <2>3. buffer' = Append(Tail(buffer), NewEntry(i, answered))
    BY <1>3 DEF Insert, NewEntry
  <2>4. /\ buffer' \in Seq(Entries) /\ Len(buffer') = Len(buffer)
        /\ \A k \in 1 .. Len(buffer) - 1 : buffer'[k] = buffer[k + 1]
        /\ buffer'[Len(buffer')] = NewEntry(i, answered)
    BY <1>1, <1>2, <2>1, <2>2, <2>3
  <2> QED
    BY <1>1, <1>3, <2>1, <2>4
<1>4. CASE ~Full
  <2>1. buffer' = Append(buffer, NewEntry(i, answered))
    BY <1>4 DEF Insert, NewEntry
  <2>2. /\ buffer' \in Seq(Entries) /\ Len(buffer') = Len(buffer) + 1
        /\ \A k \in 1 .. Len(buffer) : buffer'[k] = buffer[k]
        /\ buffer'[Len(buffer')] = NewEntry(i, answered)
    BY <1>1, <1>2, <2>1
  <2> QED
    BY <1>1, <1>4, <2>2
<1> QED
  BY <1>3, <1>4

\* An insertion of an id that no buffered flow has preserves the invariant.
LEMMA InsertKeepsInv ==
    ASSUME RecorderInv, live' \in [Flows -> LiveStates],
           NEW i \in Ids, NEW answered \in BOOLEAN, Insert(i, answered),
           i \in Flows => byId[i] = NoSince
    PROVE  RecorderInv'
<1> DEFINE new == NewEntry(i, answered)
           evicted == IF Full THEN {Head(buffer).id} ELSE {}
<1>1. PICK d \in {0, 1} :
        /\ d = 1 <=> Full
        /\ d <= Len(buffer)
        /\ Len(buffer') = Len(buffer) - d + 1
        /\ \A k \in 1 .. Len(buffer) - d : buffer'[k] = buffer[k + d]
        /\ buffer'[Len(buffer')] = new
  BY InsertShape
<1>10. /\ Len(buffer) \in Nat /\ d \in Nat /\ d <= Len(buffer)
       /\ Len(buffer') = Len(buffer) - d + 1
  BY <1>1 DEF RecorderInv, TypeOK
<1>11. \A k \in 1 .. Len(buffer') : k # Len(buffer') =>
         k \in 1 .. Len(buffer) - d /\ k + d \in 1 .. Len(buffer)
  BY <1>10
<1>2. /\ nextSince' = nextSince + 1 /\ cleared' = cleared
      /\ byId' = [j \in Ids |-> IF j = i THEN nextSince
                                ELSE IF j \in evicted THEN NoSince ELSE byId[j]]
      /\ raw' = (raw \cup ({i} \cap Flows)) \ evicted
      /\ log' = Append(log, [id |-> i, since |-> nextSince])
  BY DEF Insert
<1>3. /\ nextSince \in Nat /\ Len(buffer) \in 0 .. MaxFlows /\ MaxFlows \in Nat \ {0}
      /\ log \in Seq([id : Ids, since : Nat]) /\ Len(log) \in Nat
      /\ cleared \in 0 .. Len(log) /\ buffer \in Seq(Entries)
      /\ byId \in [Ids -> Nat \cup {NoSince}] /\ raw \subseteq Flows
      /\ nextSince = Len(log) - cleared /\ Len(buffer) <= nextSince
      /\ Len(buffer) < nextSince => Full
  BY MaxFlowsAssumption DEF RecorderInv, TypeOK, BufferIsRecentLog
<1>4. new.id = i /\ new.at = Len(log) + 1 /\ new.since = nextSince
  BY DEF NewEntry
<1>5. \A k \in 1 .. Len(buffer) :
        /\ buffer[k] \in Entries /\ buffer[k].id \in Ids
        /\ buffer[k].at \in Nat /\ buffer[k].since \in Nat
  <2>1. \A k \in 1 .. Len(buffer) : buffer[k] \in Entries
    BY <1>3
  <2>2. \A e \in Entries : e.id \in Ids /\ e.at \in Nat /\ e.since \in Nat
    BY DEF Entries
  <2> QED
    BY <2>1, <2>2
<1>6. /\ Len(log') = Len(log) + 1 /\ log' \in Seq([id : Ids, since : Nat])
      /\ \A n \in 1 .. Len(log) : log'[n] = log[n]
      /\ log'[Len(log) + 1] = [id |-> i, since |-> nextSince]
  BY <1>2, <1>3
<1> HIDE DEF new, evicted
<1>7. TypeOK'
  <2>1. buffer' \in Seq(Entries)
    BY InsertShape
  <2>2. Len(buffer') \in 0 .. MaxFlows
    BY <1>1, <1>3 DEF Full
  <2>3. byId' \in [Ids -> Nat \cup {NoSince}]
    BY <1>2, <1>3
  <2>4. raw' \subseteq Flows /\ nextSince' \in Nat /\ cleared' \in 0 .. Len(log')
    BY <1>2, <1>3, <1>6
  <2> QED
    BY <1>6, <2>1, <2>2, <2>3, <2>4 DEF TypeOK
<1>8. BufferIsRecentLog'
  <2>1. nextSince' = Len(log') - cleared'
    BY <1>2, <1>3, <1>6
  <2>2. Len(buffer') <= nextSince' /\ (Len(buffer') < nextSince' => Len(buffer') = MaxFlows)
    BY <1>1, <1>2, <1>3 DEF Full
  <2>3. ASSUME NEW k \in 1 .. Len(buffer')
        PROVE  /\ buffer'[k].at = Len(log') - Len(buffer') + k
               /\ buffer'[k].since + 1 = buffer'[k].at - cleared'
               /\ log'[buffer'[k].at] = [id |-> buffer'[k].id, since |-> buffer'[k].since]
    <3>1. CASE k = Len(buffer')
      <4>1. buffer'[k] = new /\ Len(buffer') \in Nat
        BY <1>1, <1>3, <3>1
      <4>2. /\ new.at = Len(log') - Len(buffer') + k
            /\ new.since + 1 = new.at - cleared'
        BY <1>2, <1>3, <1>4, <1>6, <3>1, <4>1
      <4>3. log'[new.at] = [id |-> new.id, since |-> new.since]
        BY <1>4, <1>6
      <4> QED
        BY <4>1, <4>2, <4>3
    <3>2. CASE k # Len(buffer')
      <4>1. k \in 1 .. Len(buffer) - d /\ k + d \in 1 .. Len(buffer)
        BY <1>11, <3>2
      <4>2. buffer'[k] = buffer[k + d]
        BY <1>1, <4>1
      <4>3. /\ buffer[k + d].at = Len(log) - Len(buffer) + (k + d)
            /\ buffer[k + d].since + 1 = buffer[k + d].at - cleared
            /\ log[buffer[k + d].at] =
                   [id |-> buffer[k + d].id, since |-> buffer[k + d].since]
        BY <4>1 DEF RecorderInv, BufferIsRecentLog
      <4>4. buffer[k + d].at \in 1 .. Len(log)
        BY <1>3, <4>1, <4>3
      <4> QED
        BY <1>1, <1>2, <1>3, <1>6, <4>1, <4>2, <4>3, <4>4
    <3> QED
      BY <3>1, <3>2
  <2> QED
    BY <2>1, <2>2, <2>3 DEF BufferIsRecentLog, Full
<1>9. IndexCoversBuffer'
  <2>1. ASSUME NEW k \in 1 .. Len(buffer), NEW m \in 1 .. Len(buffer),
               buffer[k].since = buffer[m].since
        PROVE  k = m
    <3>1. /\ buffer[k].at = Len(log) - Len(buffer) + k
          /\ buffer[m].at = Len(log) - Len(buffer) + m
          /\ buffer[k].since + 1 = buffer[k].at - cleared
          /\ buffer[m].since + 1 = buffer[m].at - cleared
      BY DEF RecorderInv, BufferIsRecentLog
    <3> QED
      BY <1>3, <1>5, <2>1, <3>1
  <2>2. \A k \in 1 .. Len(buffer) :
          buffer[k].id \in Flows =>
              byId[buffer[k].id] = buffer[k].since /\ buffer[k].id \in raw
    BY DEF RecorderInv, IndexCoversBuffer
  <2>3. \A f \in Flows :
          byId[f] # NoSince =>
              \E k \in 1 .. Len(buffer) :
                  buffer[k].id = f /\ buffer[k].since = byId[f]
    BY DEF RecorderInv, IndexCoversBuffer
  <2>4. \A f \in Flows : f \in raw <=> byId[f] # NoSince
    BY DEF RecorderInv, IndexCoversBuffer
  <2>5. /\ d = 0 => evicted = {}
        /\ d = 1 => evicted = {buffer[1].id} /\ 1 \in 1 .. Len(buffer)
    BY <1>1, <1>3 DEF evicted, Full
  <2>6. \A k \in 1 .. Len(buffer) - d :
          /\ k + d \in 1 .. Len(buffer)
          /\ k + d # 1 \/ d = 0
    BY <1>1, <1>3
  <2>7. NoSince \notin Nat /\ Flows \subseteq Ids
    BY FlowsAssumption DEF Ids
  <2>8. \A k \in 1 .. Len(buffer) :
          buffer[k].id \in Flows => buffer[k].id # i
    BY <1>5, <2>2, <2>7
  <2>9. ASSUME NEW k \in 1 .. Len(buffer) - d, buffer[k + d].id \in Flows
        PROVE  buffer[k + d].id \notin evicted
    <3>1. CASE d = 0
      BY <2>5, <3>1
    <3>2. CASE d = 1
      <4>1. k + d \in 1 .. Len(buffer) /\ k + d # 1 /\ 1 \in 1 .. Len(buffer)
        BY <1>1, <1>3, <3>2
      <4>2. buffer[k + d].since # buffer[1].since
        BY <2>1, <4>1
      <4>3. buffer[1].id # buffer[k + d].id
        BY <2>2, <2>9, <4>1, <4>2
      <4> QED
        BY <2>5, <3>2, <4>3
    <3> QED
      BY <3>1, <3>2
  <2>10. ASSUME NEW k \in 1 .. Len(buffer'), buffer'[k].id \in Flows
         PROVE  byId'[buffer'[k].id] = buffer'[k].since /\ buffer'[k].id \in raw'
    <3>1. CASE k = Len(buffer')
      <4>1. buffer'[k].id = i /\ buffer'[k].since = nextSince
        BY <1>1, <1>4, <3>1
      <4>2. i \notin evicted
        BY <2>5, <2>8, <2>10, <4>1
      <4> QED
        BY <1>2, <2>7, <2>10, <4>1, <4>2
    <3>2. CASE k # Len(buffer')
      <4>1. /\ k \in 1 .. Len(buffer) - d /\ k + d \in 1 .. Len(buffer)
            /\ buffer'[k] = buffer[k + d]
        BY <1>1, <1>11, <3>2
      <4>2. buffer[k + d].id \notin evicted /\ buffer[k + d].id # i
        BY <2>8, <2>9, <2>10, <4>1
      <4> QED
        BY <1>2, <2>2, <2>7, <2>10, <4>1, <4>2
    <3> QED
      BY <3>1, <3>2
  <2>11. ASSUME NEW f \in Flows, byId'[f] # NoSince
         PROVE  \E k \in 1 .. Len(buffer') :
                    buffer'[k].id = f /\ buffer'[k].since = byId'[f]
    <3>1. CASE f = i
      <4>1. byId'[f] = nextSince
        BY <1>2, <2>7, <3>1
      <4>2. Len(buffer') \in 1 .. Len(buffer')
        BY <1>1, <1>3
      <4> QED
        BY <1>1, <1>4, <3>1, <4>1, <4>2
    <3>2. CASE f # i
      <4>1. f \notin evicted /\ byId'[f] = byId[f]
        BY <1>2, <2>7, <2>11, <3>2
      <4>2. PICK k \in 1 .. Len(buffer) : buffer[k].id = f /\ buffer[k].since = byId[f]
        BY <2>3, <2>11, <4>1
      <4>3. k - d \in 1 .. Len(buffer) - d
        <5>1. d = 1 => k # 1
          BY <2>5, <4>1, <4>2
        <5> QED
          BY <1>1, <1>3, <5>1
      <4>4. buffer'[k - d] = buffer[k] /\ k - d \in 1 .. Len(buffer')
        <5>1. buffer'[k - d] = buffer[(k - d) + d]
          BY <1>1, <4>3
        <5> QED
          BY <1>1, <1>3, <4>3, <5>1
      <4> QED
        BY <4>1, <4>2, <4>4
    <3> QED
      BY <3>1, <3>2
  <2>12. ASSUME NEW f \in Flows
         PROVE  f \in raw' <=> byId'[f] # NoSince
    <3>1. CASE f = i
      <4>1. i \notin evicted
        BY <2>5, <2>8, <3>1
      <4> QED
        BY <1>2, <1>3, <2>7, <3>1, <4>1
    <3>2. CASE f # i
      BY <1>2, <2>4, <2>7, <3>2
    <3> QED
      BY <3>1, <3>2
  <2> QED
    BY <2>10, <2>11, <2>12 DEF IndexCoversBuffer
<1> QED
  BY <1>7, <1>8, <1>9 DEF RecorderInv

\* An update in place moves nothing.
LEMMA UpdateKeepsInv ==
    ASSUME RecorderInv, live' \in [Flows -> LiveStates],
           NEW f \in Flows, NEW answered \in BOOLEAN, Update(f, answered),
           byId[f] # NoSince
    PROVE  RecorderInv'
<1>1. /\ buffer \in Seq(Entries) /\ Len(buffer) \in Nat /\ DOMAIN buffer = 1 .. Len(buffer)
  BY DEF RecorderInv, TypeOK
<1>2. UNCHANGED <<nextSince, byId, log, cleared>> /\ raw' = raw \cup {f} /\ f \in raw
  BY DEF Update, RecorderInv, IndexCoversBuffer
<1>3. \A k \in 1 .. Len(buffer) :
        /\ buffer[k] \in Entries
        /\ buffer'[k] \in {buffer[k], [buffer[k] EXCEPT !.answered = answered]}
  BY <1>1 DEF Update
<1>4. \A e \in Entries :
        LET u == [e EXCEPT !.answered = answered]
        IN  u \in Entries /\ u.id = e.id /\ u.at = e.at /\ u.since = e.since
  BY DEF Entries
<1>5. /\ buffer' \in Seq(Entries) /\ Len(buffer') = Len(buffer)
      /\ \A k \in 1 .. Len(buffer) :
           /\ buffer'[k].id = buffer[k].id /\ buffer'[k].at = buffer[k].at
           /\ buffer'[k].since = buffer[k].since
  <2>1. \A k \in 1 .. Len(buffer) : buffer'[k] \in Entries
    BY <1>3, <1>4
  <2>2. \E n \in Nat : n = Len(buffer) /\ buffer' = [k \in 1 .. n |-> buffer'[k]]
    BY <1>1 DEF Update
  <2>3. buffer' \in Seq(Entries) /\ Len(buffer') = Len(buffer)
    BY <2>1, <2>2
  <2> QED
    BY <1>3, <1>4, <2>3
<1>6. TypeOK'
  BY <1>2, <1>5 DEF RecorderInv, TypeOK
<1>7. BufferIsRecentLog'
  BY <1>2, <1>5 DEF RecorderInv, BufferIsRecentLog, Full
<1>8. IndexCoversBuffer'
  BY <1>2, <1>5 DEF RecorderInv, IndexCoversBuffer
<1> QED
  BY <1>6, <1>7, <1>8 DEF RecorderInv

\* Recording a flow, as new or in place, preserves the invariant.
LEMMA RecordKeepsInv ==
    ASSUME RecorderInv, live' \in [Flows -> LiveStates],
           NEW f \in Flows, NEW answered \in BOOLEAN, Record(f, answered)
    PROVE  RecorderInv'
<1>1. CASE byId[f] = NoSince
  BY <1>1, InsertKeepsInv DEF Record, Ids
<1>2. CASE byId[f] # NoSince
  BY <1>2, UpdateKeepsInv DEF Record
<1> QED
  BY <1>1, <1>2

\* A clear leaves an empty buffer and nothing to find.
LEMMA ClearKeepsInv ==
    ASSUME RecorderInv, live' \in [Flows -> LiveStates], Clear
    PROVE  RecorderInv'
<1>1. /\ buffer' = << >> /\ nextSince' = 0 /\ raw' = {} /\ log' = log
      /\ byId' = [j \in Ids |-> NoSince] /\ cleared' = Len(log)
  BY DEF Clear
<1>2. buffer' \in Seq(Entries) /\ Len(buffer') = 0
  BY <1>1
<1>3. TypeOK'
  BY <1>1, <1>2, MaxFlowsAssumption DEF RecorderInv, TypeOK
<1>4. Len(log) \in Nat
  BY DEF RecorderInv, TypeOK
<1>5. BufferIsRecentLog'
  BY <1>1, <1>2, <1>4 DEF BufferIsRecentLog
<1>6. IndexCoversBuffer'
  BY <1>1, <1>2, FlowsAssumption DEF IndexCoversBuffer, Ids
<1> QED
  BY <1>3, <1>5, <1>6 DEF RecorderInv

\* Every step of the recorder preserves the invariant.
LEMMA StepKeepsInv ==
    ASSUME RecorderInv, Next
    PROVE  RecorderInv'
<1>1. ASSUME NEW f \in Flows, NEW mocked \in BOOLEAN, RequestHook(f, mocked)
      PROVE  RecorderInv'
  <2>1. live' \in [Flows -> LiveStates]
    BY <1>1 DEF RequestHook, RecorderInv, TypeOK, LiveStates
  <2> QED
    BY <1>1, <2>1, RecordKeepsInv DEF RequestHook
<1>2. ASSUME NEW f \in Flows, Upstream(f)
      PROVE  RecorderInv'
  <2>1. live' \in [Flows -> LiveStates] /\ UNCHANGED recorderVars
    BY <1>2 DEF Upstream, RecorderInv, TypeOK, LiveStates
  <2> QED
    BY <2>1 DEF RecorderInv, TypeOK, BufferIsRecentLog, IndexCoversBuffer, Full,
                recorderVars
<1>3. ASSUME NEW f \in Flows, AnswerHook(f)
      PROVE  RecorderInv'
  <2>1. live' \in [Flows -> LiveStates]
    BY <1>3 DEF AnswerHook, RecorderInv, TypeOK, LiveStates
  <2> QED
    BY <1>3, <2>1, RecordKeepsInv DEF AnswerHook
<1>4. ASSUME NEW s \in Synthetic, TlsFailed(s)
      PROVE  RecorderInv'
  <2>1. live' \in [Flows -> LiveStates] /\ s \in Ids /\ s \notin Flows
    BY <1>4, FlowsAssumption DEF TlsFailed, RecorderInv, TypeOK, Ids
  <2>2. Insert(s, TRUE)
    BY <1>4 DEF TlsFailed
  <2> QED
    BY <2>1, <2>2, InsertKeepsInv
<1>5. ASSUME Clear, UNCHANGED live
      PROVE  RecorderInv'
  BY <1>5, ClearKeepsInv DEF RecorderInv, TypeOK
<1> QED
  BY <1>1, <1>2, <1>3, <1>4, <1>5 DEF Next, Hook

\* The recorder starts in its invariant.
LEMMA InitInv ==
    ASSUME Init
    PROVE  RecorderInv
<1>1. buffer \in Seq(Entries) /\ Len(buffer) = 0 /\ log = << >> /\ Len(log) = 0
  BY DEF Init
<1>2. TypeOK
  BY <1>1, MaxFlowsAssumption DEF Init, TypeOK, LiveStates
<1>3. BufferIsRecentLog
  BY <1>1 DEF Init, BufferIsRecentLog
<1>4. IndexCoversBuffer
  BY <1>1 DEF Init, IndexCoversBuffer, Ids
<1> QED
  BY <1>2, <1>3, <1>4 DEF RecorderInv

\* The recorder's invariant: types, the buffer as the recent end of the log,
\* the indexes as an exact cover of the buffer.
THEOREM RecorderInductive == Spec => []RecorderInv
<1>1. Init => RecorderInv
  BY InitInv
<1>2. RecorderInv /\ [Next]_vars => RecorderInv'
  <2>1. CASE UNCHANGED vars
    BY <2>1 DEF RecorderInv, TypeOK, BufferIsRecentLog, IndexCoversBuffer, Full,
                vars, recorderVars
  <2> QED
    BY <2>1, StepKeepsInv
<1> QED
  BY <1>1, <1>2, PTL DEF Spec

\* The recorder stays type correct and within its capacity.
THEOREM RecorderTypeCorrect == Spec => []TypeOK
<1>1. RecorderInv => TypeOK
  BY DEF RecorderInv
<1> QED
  BY <1>1, RecorderInductive, PTL

\* Cursors compare as ages, whatever was evicted or cleared.
THEOREM CursorsAreAges == Spec => []BufferIsRecentLog
<1>1. RecorderInv => BufferIsRecentLog
  BY DEF RecorderInv
<1> QED
  BY <1>1, RecorderInductive, PTL

\* A flow is found by its id exactly as long as it is buffered.
THEOREM IndexExact == Spec => []IndexCoversBuffer
<1>1. RecorderInv => IndexCoversBuffer
  BY DEF RecorderInv
<1> QED
  BY <1>1, RecorderInductive, PTL

-----------------------------------------------------------------------------
\* Recording a flow, as new or in place, leaves no finished flow without its
\* answer, when only the recorded flow may have come to its end.
LEMMA RecordKeepsAnswers ==
    ASSUME RecorderInv, AnswersAreRecorded,
           NEW f \in Flows, NEW answered \in BOOLEAN, Record(f, answered),
           \A g \in Flows : g # f /\ live'[g] = "over" => live[g] = "over",
           live'[f] = "over" => answered
    PROVE  AnswersAreRecorded'
<1>1. CASE byId[f] = NoSince
  <2>1. Insert(f, answered) /\ f \in Ids
    BY <1>1 DEF Record, Ids
  <2>2. PICK d \in {0, 1} :
          /\ d <= Len(buffer)
          /\ Len(buffer') = Len(buffer) - d + 1
          /\ \A k \in 1 .. Len(buffer) - d : buffer'[k] = buffer[k + d]
          /\ buffer'[Len(buffer')] = NewEntry(f, answered)
    BY <2>1, InsertShape
  <2>3. Len(buffer) \in Nat
    BY DEF RecorderInv, TypeOK
  <2> SUFFICES ASSUME NEW k \in 1 .. Len(buffer'),
                      buffer'[k].id \in Flows, live'[buffer'[k].id] = "over"
               PROVE  buffer'[k].answered
    BY DEF AnswersAreRecorded
  <2>4. CASE k = Len(buffer')
    BY <2>2, <2>4 DEF NewEntry
  <2>5. CASE k # Len(buffer')
    <3>1. /\ k + d \in 1 .. Len(buffer) /\ k \in 1 .. Len(buffer) - d
          /\ buffer'[k] = buffer[k + d]
      BY <2>2, <2>3, <2>5
    <3>2. byId[buffer[k + d].id] = buffer[k + d].since
      BY <3>1 DEF RecorderInv, IndexCoversBuffer
    <3>3. buffer[k + d].since \in Nat
      <4>1. buffer[k + d] \in Entries
        BY <3>1 DEF RecorderInv, TypeOK
      <4> QED
        BY <4>1 DEF Entries
    <3>4. buffer[k + d].id # f
      BY <1>1, <3>2, <3>3, FlowsAssumption
    <3> QED
      BY <3>1, <3>4 DEF AnswersAreRecorded
  <2> QED
    BY <2>4, <2>5
<1>2. CASE byId[f] # NoSince
  <2>1. Update(f, answered)
    BY <1>2 DEF Record
  <2>2. /\ buffer \in Seq(Entries) /\ DOMAIN buffer = 1 .. Len(buffer)
        /\ Len(buffer) \in Nat
    BY DEF RecorderInv, TypeOK
  <2>3. Len(buffer') = Len(buffer)
    BY <2>1, <2>2 DEF Update
  <2> SUFFICES ASSUME NEW k \in 1 .. Len(buffer),
                      buffer'[k].id \in Flows, live'[buffer'[k].id] = "over"
               PROVE  buffer'[k].answered
    BY <2>3 DEF AnswersAreRecorded
  <2>4. buffer[k] \in Entries
    BY <2>2
  <2>5. buffer'[k] = IF buffer[k].id = f /\ buffer[k].since = byId[f]
                       THEN [buffer[k] EXCEPT !.answered = answered]
                       ELSE buffer[k]
    BY <2>1, <2>2 DEF Update
  <2>6. CASE buffer[k].id = f
    <3>1. buffer[k].since = byId[f]
      BY <2>6 DEF RecorderInv, IndexCoversBuffer
    <3>2. buffer'[k].id = f /\ buffer'[k].answered = answered
      BY <2>4, <2>5, <2>6, <3>1 DEF Entries
    <3> QED
      BY <3>2
  <2>7. CASE buffer[k].id # f
    BY <2>5, <2>7 DEF AnswersAreRecorded
  <2> QED
    BY <2>6, <2>7
<1> QED
  BY <1>1, <1>2

\* No step of the recorder leaves a finished flow without its answer.
LEMMA StepKeepsAnswers ==
    ASSUME RecorderInv, AnswersAreRecorded, [Next]_vars
    PROVE  AnswersAreRecorded'
<1>1. ASSUME NEW f \in Flows, NEW mocked \in BOOLEAN, RequestHook(f, mocked)
      PROVE  AnswersAreRecorded'
  <2>1. /\ Record(f, mocked)
        /\ \A g \in Flows : g # f => live'[g] = live[g]
        /\ live'[f] # "over"
    BY <1>1 DEF RequestHook, RecorderInv, TypeOK
  <2> QED
    BY <2>1, RecordKeepsAnswers
<1>2. ASSUME NEW f \in Flows, Upstream(f)
      PROVE  AnswersAreRecorded'
  BY <1>2 DEF Upstream, recorderVars, RecorderInv, TypeOK, AnswersAreRecorded
<1>3. ASSUME NEW f \in Flows, AnswerHook(f)
      PROVE  AnswersAreRecorded'
  <2>1. Record(f, TRUE) /\ \A g \in Flows : g # f => live'[g] = live[g]
    BY <1>3 DEF AnswerHook, RecorderInv, TypeOK
  <2> QED
    BY <2>1, RecordKeepsAnswers
<1>4. ASSUME NEW s \in Synthetic, TlsFailed(s)
      PROVE  AnswersAreRecorded'
  <2>1. Insert(s, TRUE) /\ s \in Ids /\ s \notin Flows /\ live' = live
    BY <1>4, FlowsAssumption DEF TlsFailed, Ids
  <2>2. PICK d \in {0, 1} :
          /\ d <= Len(buffer)
          /\ Len(buffer') = Len(buffer) - d + 1
          /\ \A k \in 1 .. Len(buffer) - d : buffer'[k] = buffer[k + d]
          /\ buffer'[Len(buffer')] = NewEntry(s, TRUE)
    BY <2>1, InsertShape
  <2>3. Len(buffer) \in Nat
    BY DEF RecorderInv, TypeOK
  <2>4. \A k \in 1 .. Len(buffer') :
          \/ buffer'[k] = NewEntry(s, TRUE)
          \/ \E m \in 1 .. Len(buffer) : buffer'[k] = buffer[m]
    <3> TAKE k \in 1 .. Len(buffer')
    <3>1. CASE k = Len(buffer')
      BY <2>2, <3>1
    <3>2. CASE k # Len(buffer')
      <4>1. /\ k + d \in 1 .. Len(buffer) /\ k \in 1 .. Len(buffer) - d
            /\ buffer'[k] = buffer[k + d]
        BY <2>2, <2>3, <3>2
      <4> QED
        BY <4>1
    <3> QED
      BY <3>1, <3>2
  <2> QED
    BY <2>1, <2>4 DEF AnswersAreRecorded, NewEntry
<1>5. ASSUME Clear
      PROVE  AnswersAreRecorded'
  <2>1. Len(buffer') = 0
    BY <1>5 DEF Clear
  <2> QED
    BY <2>1 DEF AnswersAreRecorded
<1>6. CASE UNCHANGED vars
  BY <1>6 DEF vars, recorderVars, AnswersAreRecorded
<1> QED
  BY <1>1, <1>2, <1>3, <1>4, <1>5, <1>6 DEF Next, Hook

\* No flow stays in the buffer without the answer its hook has delivered.
THEOREM AnswersKept == Spec => []AnswersAreRecorded
<1>1. Init => AnswersAreRecorded
  BY DEF Init, AnswersAreRecorded
<1>2. RecorderInv /\ AnswersAreRecorded /\ [Next]_vars => AnswersAreRecorded'
  BY StepKeepsAnswers
<1> QED
  BY <1>1, <1>2, RecorderInductive, PTL DEF Spec

-----------------------------------------------------------------------------
(* The tools over the recorder.                                            *)

\* An entry as its updates leave it.
SameEntry(e, f) == e.id = f.id /\ e.at = f.at /\ e.since = f.since

\* What a hook does to the recorder, as far as the tools can tell.
Grows ==
    /\ cleared' = cleared /\ nextSince <= nextSince' /\ Len(log) <= Len(log')
    /\ \A n \in 1 .. Len(log) : log'[n] = log[n]
    /\ \A k \in DOMAIN buffer' :
          \/ \E m \in DOMAIN buffer : SameEntry(buffer'[k], buffer[m])
          \/ nextSince <= buffer'[k].since /\ Len(log) < buffer'[k].at

\* What was returned to a tail that no clear has cut is what its cursor has passed, ...
Tails(t) == begun[t] \in {"start", "none"}

SeenIsPassed(t) ==
    /\ begun[t] = "no" =>
          pc[t] # "listing" /\ page[t] = {} /\ seen[t] = {} /\ cursor[t] = NoCursor
    /\ begun[t] = "start" => cursor[t] \in Nat
    /\ Tails(t) /\ cursor[t] # NoCursor => cursor[t] <= nextSince
    /\ Tails(t) => \A n \in seen[t] : cursor[t] # NoCursor /\ n <= cleared + cursor[t]

\* ... what it still has to materialise is ahead of its cursor, from the same log, ...
PageIsAhead(t, e) ==
    Tails(t) =>
       /\ e.at = cleared + e.since + 1 /\ e.since < nextSince
       /\ cursor[t] # NoCursor => cursor[t] <= e.since

PageOnce(t) == \A e, f \in page[t] : e.at = f.at => e = f

\* ... and skips nothing that it wants, unless its status filter has declined it, ...
Settled(t) == seen[t] \cup IF byStatus[t] THEN declined[t] ELSE {}

PageSkipsNothing(t, e) ==
    Tails(t) =>
       \A k \in DOMAIN buffer :
          /\ buffer[k].id \in Wanted /\ buffer[k].since < e.since
          /\ cursor[t] # NoCursor => cursor[t] <= buffer[k].since
          => buffer[k].at \in Settled(t) \/ \E f \in page[t] : f.at = buffer[k].at

\* ... so that what it passes has been returned, or declined.
PassedIsSeen(t) ==
    begun[t] = "start" =>
       \A k \in DOMAIN buffer :
          buffer[k].id \in Wanted /\ buffer[k].at > begin[t] /\ buffer[k].since < cursor[t]
          => buffer[k].at \in Settled(t)

TailFits(t) ==
    /\ SeenIsPassed(t) /\ PassedIsSeen(t) /\ PageOnce(t)
    /\ \A e \in page[t] : PageIsAhead(t, e) /\ PageSkipsNothing(t, e)

TailInv == \A t \in Clients : TailFits(t)

\* A replay waits for a copy of its own, which has been answered when it returns.
CopyFits(t) ==
    /\ pc[t] \in {"dispatching", "waiting", "replayed"} \/ answer[t].how = "returned"
           => copy[t] \in Replays
    /\ copy[t] \in Replays \cup {Nobody}
    /\ pc[t] = "dispatching" => live[copy[t]] = "idle"
    /\ pc[t] = "replayed" \/ answer[t].how = "returned"
           => live[copy[t]] \in {"answered", "over"}

SameCopy(t, u) == copy[t] = copy[u] /\ copy[t] # Nobody => t = u

\* The since it reports is in the log.
SinceFits(t) ==
    answer[t].how = "returned" /\ answer[t].since > 0 =>
       \E n \in 1 .. Len(log) : log[n] = [id |-> copy[t], since |-> answer[t].since]

\* One that was given up before it ran is nobody's to dispatch any more.
LateFits(f) ==
    /\ f \in Replays /\ live[f] = "idle"
    /\ \A t \in Clients : pc[t] = "dispatching" => copy[t] # f

CopiesInv ==
    /\ \A t \in Clients : CopyFits(t) /\ SinceFits(t)
    /\ \A t, u \in Clients : SameCopy(t, u)
    /\ \A f \in late : LateFits(f)

\* An insertion only adds at the end.
LEMMA InsertGrows ==
    ASSUME RecorderInv, NEW i \in Ids, NEW answered \in BOOLEAN, Insert(i, answered)
    PROVE  Grows
<1>1. PICK d \in {0, 1} :
        /\ d <= Len(buffer)
        /\ Len(buffer') = Len(buffer) - d + 1
        /\ \A k \in 1 .. Len(buffer) - d : buffer'[k] = buffer[k + d]
        /\ buffer'[Len(buffer')] = NewEntry(i, answered)
  BY InsertShape
<1>2. /\ Len(buffer) \in Nat /\ DOMAIN buffer = 1 .. Len(buffer) /\ nextSince \in Nat
      /\ Len(log) \in Nat /\ log \in Seq([id : Ids, since : Nat])
  BY DEF RecorderInv, TypeOK
<1>3. DOMAIN buffer' = 1 .. Len(buffer')
  BY InsertShape
<1>4. /\ cleared' = cleared /\ nextSince' = nextSince + 1
      /\ log' = Append(log, [id |-> i, since |-> nextSince])
  BY DEF Insert
<1>5. Len(log) <= Len(log') /\ \A n \in 1 .. Len(log) : log'[n] = log[n]
  BY <1>2, <1>4
<1>6. ASSUME NEW k \in DOMAIN buffer'
      PROVE  \/ \E m \in DOMAIN buffer : SameEntry(buffer'[k], buffer[m])
             \/ nextSince <= buffer'[k].since /\ Len(log) < buffer'[k].at
  <2>1. CASE k = Len(buffer')
    BY <1>1, <1>2, <2>1 DEF NewEntry
  <2>2. CASE k # Len(buffer')
    <3>1. k + d \in DOMAIN buffer /\ buffer'[k] = buffer[k + d]
      BY <1>1, <1>2, <1>3, <2>2
    <3> QED
      BY <3>1 DEF SameEntry
  <2> QED
    BY <2>1, <2>2
<1> QED
  BY <1>2, <1>4, <1>5, <1>6 DEF Grows

\* An update changes no entry's id, place or since.
LEMMA UpdateGrows ==
    ASSUME RecorderInv, NEW f \in Flows, NEW answered \in BOOLEAN, Update(f, answered)
    PROVE  Grows
<1>1. /\ Len(buffer) \in Nat /\ DOMAIN buffer = 1 .. Len(buffer) /\ nextSince \in Nat
      /\ Len(log) \in Nat /\ \A k \in DOMAIN buffer : buffer[k] \in Entries
  BY DEF RecorderInv, TypeOK
<1>2. ASSUME NEW k \in DOMAIN buffer'
      PROVE  k \in DOMAIN buffer /\ SameEntry(buffer'[k], buffer[k])
  <2>1. k \in DOMAIN buffer
    BY DEF Update
  <2>2. buffer'[k] = buffer[k] \/ buffer'[k] = [buffer[k] EXCEPT !.answered = answered]
    BY <2>1 DEF Update
  <2> QED
    BY <1>1, <2>1, <2>2 DEF SameEntry, Entries
<1>3. UNCHANGED <<nextSince, log, cleared>>
  BY DEF Update
<1> QED
  BY <1>1, <1>2, <1>3 DEF Grows

\* What a hook does to the recorder and to the flows, as far as the tools can tell.
LEMMA HookGrows ==
    ASSUME RecorderInv, Hook
    PROVE  /\ Grows
           /\ \A f \in Flows :
                  live[f] \in {"answered", "over"} => live'[f] \in {"answered", "over"}
           /\ \A f \in Replays : live[f] = "idle" => live'[f] = "idle"
<1>0. live \in [Flows -> LiveStates] /\ Replays \subseteq Flows
  BY FlowsAssumption DEF RecorderInv, TypeOK
<1>1. ASSUME NEW f \in Flows, NEW answered \in BOOLEAN, Record(f, answered)
      PROVE  Grows
  <2>1. CASE byId[f] = NoSince
    BY <1>1, <2>1, InsertGrows DEF Record, Ids
  <2>2. CASE byId[f] # NoSince
    BY <1>1, <2>2, UpdateGrows DEF Record
  <2> QED
    BY <2>1, <2>2
<1>2. ASSUME NEW f \in Flows, NEW mocked \in BOOLEAN, RequestHook(f, mocked)
      PROVE  /\ Grows
             /\ \A g \in Flows :
                    live[g] \in {"answered", "over"} => live'[g] \in {"answered", "over"}
             /\ \A g \in Replays : live[g] = "idle" => live'[g] = "idle"
  BY <1>0, <1>1, <1>2 DEF RequestHook
<1>3. ASSUME NEW f \in Flows, AnswerHook(f)
      PROVE  /\ Grows
             /\ \A g \in Flows :
                    live[g] \in {"answered", "over"} => live'[g] \in {"answered", "over"}
             /\ \A g \in Replays : live[g] = "idle" => live'[g] = "idle"
  BY <1>0, <1>1, <1>3 DEF AnswerHook
<1>4. ASSUME NEW f \in Flows, Upstream(f)
      PROVE  /\ Grows
             /\ \A g \in Flows :
                    live[g] \in {"answered", "over"} => live'[g] \in {"answered", "over"}
             /\ \A g \in Replays : live[g] = "idle" => live'[g] = "idle"
  <2>1. UNCHANGED recorderVars /\ Len(log) \in Nat /\ nextSince \in Nat
    BY <1>4 DEF Upstream, RecorderInv, TypeOK
  <2>2. Grows
    BY <2>1 DEF Grows, SameEntry, recorderVars
  <2> QED
    BY <1>0, <1>4, <2>2 DEF Upstream
<1>5. ASSUME NEW s \in Synthetic, TlsFailed(s)
      PROVE  Grows /\ UNCHANGED live
  BY <1>5, InsertGrows DEF TlsFailed, Ids
<1> QED
  BY <1>2, <1>3, <1>4, <1>5 DEF Hook

\* What an invariant over the tools needs of the types of one client.
LEMMA ClientTyped ==
    ASSUME RecorderInv, ToolsTypeOK, NEW t \in Clients
    PROVE  /\ nextSince \in Nat /\ cleared \in Nat /\ begin[t] \in Nat /\ Len(log) \in Nat
           /\ cursor[t] \in Nat \cup {NoCursor}
           /\ seen[t] \subseteq Nat /\ page[t] \subseteq Entries
           /\ \A e \in page[t] : e.at \in Nat /\ e.since \in Nat
           /\ \A k \in DOMAIN buffer :
                /\ buffer[k] \in Entries /\ buffer[k].at \in Nat /\ buffer[k].since \in Nat
                /\ buffer[k].at = cleared + buffer[k].since + 1
                /\ buffer[k].since < nextSince /\ buffer[k].at <= Len(log)
<1>1. /\ nextSince \in Nat /\ cleared \in Nat /\ begin[t] \in Nat /\ Len(log) \in Nat
      /\ cursor[t] \in Nat \cup {NoCursor}
      /\ seen[t] \subseteq Nat /\ page[t] \subseteq Entries
      /\ Len(buffer) \in Nat /\ DOMAIN buffer = 1 .. Len(buffer)
      /\ \A k \in DOMAIN buffer : buffer[k] \in Entries
  BY DEF RecorderInv, TypeOK, ToolsTypeOK
<1>2. \A e \in Entries : e.at \in Nat /\ e.since \in Nat
  BY DEF Entries
<1>3. ASSUME NEW k \in DOMAIN buffer
      PROVE  /\ buffer[k].at = cleared + buffer[k].since + 1
             /\ buffer[k].since < nextSince /\ buffer[k].at <= Len(log)
  <2>1. /\ nextSince = Len(log) - cleared /\ buffer[k].at = Len(log) - Len(buffer) + k
        /\ buffer[k].since + 1 = buffer[k].at - cleared /\ k \in 1 .. Len(buffer)
    BY <1>1 DEF RecorderInv, BufferIsRecentLog
  <2>2. /\ buffer[k].at \in Nat /\ buffer[k].since \in Nat /\ k \in Nat /\ k <= Len(buffer)
        /\ Len(log) \in Nat /\ Len(buffer) \in Nat /\ cleared \in Nat /\ nextSince \in Nat
    BY <1>1, <1>2, <2>1
  <2> HIDE <1>1
  <2>3. buffer[k].at = cleared + buffer[k].since + 1
    BY <2>1, <2>2
  <2>4. buffer[k].at <= Len(log) /\ buffer[k].since < nextSince
    BY <2>1, <2>2
  <2> QED
    BY <2>3, <2>4
<1> QED
  BY <1>1, <1>2, <1>3

\* An entry of a snapshot after a hook is one it had, or what became of it.
LEMMA Refreshed ==
    ASSUME RecorderInv, RecorderInv', ToolsTypeOK, NEW t \in Clients, TailFits(t), Grows,
           page'[t] = Updated(page[t], buffer')
    PROVE  /\ \A f \in page'[t] : \E e \in page[t] :
                 e.at = f.at /\ (Tails(t) => e.since = f.since /\ f.since \in Nat)
           /\ \A e \in page[t] : \E f \in page'[t] : f.at = e.at
           /\ \A e, f \in page'[t] : e.at = f.at => e = f
           /\ page'[t] \subseteq page[t] \cup {buffer'[k] : k \in DOMAIN buffer'}
<1>1. /\ Len(buffer') \in Nat /\ DOMAIN buffer' = 1 .. Len(buffer') /\ Len(log') \in Nat
      /\ \A k \in DOMAIN buffer' : /\ buffer'[k] \in Entries
                                   /\ buffer'[k].at = Len(log') - Len(buffer') + k
                                   /\ buffer'[k].since + 1 = buffer'[k].at - cleared'
  <2>1. /\ Len(buffer') \in Nat /\ DOMAIN buffer' = 1 .. Len(buffer') /\ Len(log') \in Nat
        /\ \A k \in DOMAIN buffer' : buffer'[k] \in Entries
    BY DEF RecorderInv, TypeOK
  <2> QED
    BY <2>1 DEF RecorderInv, BufferIsRecentLog
<1>2. \A e \in Entries : e.at \in Nat /\ e.since \in Nat
  BY DEF Entries
<1>3. cleared \in Nat /\ page[t] \subseteq Entries /\ cleared' = cleared
  BY ClientTyped DEF Grows
<1>4. ASSUME NEW j \in DOMAIN buffer', NEW k \in DOMAIN buffer', buffer'[j].at = buffer'[k].at
      PROVE  j = k
  BY <1>1, <1>4
<1>5. \A e \in page[t] : Tails(t) => e.at = cleared + e.since + 1
  BY DEF TailFits, PageIsAhead
<1>6. ASSUME NEW f \in page'[t]
      PROVE  /\ \E e \in page[t] :
                   e.at = f.at /\ (Tails(t) => e.since = f.since /\ f.since \in Nat)
             /\ f \in page[t] \cup {buffer'[k] : k \in DOMAIN buffer'}
  <2>1. CASE f \in page[t]
    BY <1>2, <1>3, <2>1
  <2>2. CASE f \notin page[t]
    <3>1. PICK k \in DOMAIN buffer' : f = buffer'[k] /\ \E e \in page[t] : f.at = e.at
      BY <1>6, <2>2 DEF Updated
    <3>2. PICK e \in page[t] : f.at = e.at
      BY <3>1
    <3>3. /\ f.since + 1 = f.at - cleared /\ f.since \in Nat /\ f.at \in Nat
          /\ e.since \in Nat /\ e.at \in Nat
      BY <1>1, <1>2, <1>3, <3>1
    <3>4. Tails(t) => e.since = f.since
      <4>1. Tails(t) => e.at = cleared + e.since + 1
        BY <1>5
      <4> QED
        BY <1>3, <3>2, <3>3, <4>1
    <3> QED
      BY <3>1, <3>2, <3>3, <3>4
  <2> QED
    BY <2>1, <2>2
<1>7. ASSUME NEW e \in page[t]
      PROVE  \E f \in page'[t] : f.at = e.at
  <2>1. CASE \A k \in DOMAIN buffer' : buffer'[k].at # e.at
    BY <2>1 DEF Updated
  <2>2. ASSUME NEW k \in DOMAIN buffer', buffer'[k].at = e.at
        PROVE  \E f \in page'[t] : f.at = e.at
    BY <2>2 DEF Updated
  <2> QED
    BY <2>1, <2>2
<1>8. ASSUME NEW e \in page'[t], NEW f \in page'[t], e.at = f.at
      PROVE  e = f
  <2>1. CASE \E j \in DOMAIN buffer' : buffer'[j].at = e.at
    <3>1. PICK j \in DOMAIN buffer' : e = buffer'[j]
      BY <1>8, <2>1 DEF Updated
    <3>2. PICK k \in DOMAIN buffer' : f = buffer'[k]
      BY <1>8, <2>1 DEF Updated
    <3> QED
      BY <1>4, <1>8, <3>1, <3>2
  <2>2. CASE \A j \in DOMAIN buffer' : buffer'[j].at # e.at
    <3>1. e \in page[t] /\ f \in page[t]
      BY <1>8, <2>2 DEF Updated
    <3> QED
      BY <1>8, <3>1 DEF TailFits, PageOnce
  <2> QED
    BY <2>1, <2>2
<1> QED
  BY <1>6, <1>7, <1>8

\* A hook adds entries that are ahead of every cursor.
LEMMA GrowsTail ==
    ASSUME RecorderInv, RecorderInv', ToolsTypeOK, NEW t \in Clients, TailFits(t), Grows,
           HookStep
    PROVE  TailFits(t)'
<1>1. /\ begun' = begun /\ begin' = begin /\ cursor' = cursor /\ byStatus' = byStatus
      /\ seen' = seen /\ declined' = declined /\ pc' = pc
      /\ page'[t] = Updated(page[t], buffer')
  BY DEF HookStep
<1>2. /\ cleared' = cleared /\ nextSince <= nextSince' /\ Len(log) <= Len(log')
      /\ \A k \in DOMAIN buffer' :
            \/ \E m \in DOMAIN buffer : SameEntry(buffer'[k], buffer[m])
            \/ nextSince <= buffer'[k].since
  BY DEF Grows
<1>3. /\ nextSince \in Nat /\ nextSince' \in Nat /\ cursor[t] \in Nat \cup {NoCursor}
      /\ NoCursor \notin Nat /\ \A e \in page[t] : e.at \in Nat /\ e.since \in Nat
  BY ClientTyped, NoCursorAssumption DEF RecorderInv, TypeOK
<1>4. \A k \in DOMAIN buffer' : buffer'[k].since \in Nat
  <2>1. \A k \in DOMAIN buffer' : buffer'[k] \in Entries
    BY DEF RecorderInv, TypeOK
  <2> QED
    BY <2>1 DEF Entries
<1>5. Settled(t)' = Settled(t)
  BY <1>1 DEF Settled
<1>6. ASSUME NEW k \in DOMAIN buffer', begun[t] = "start", buffer'[k].since < cursor[t],
             buffer'[k].id \in Wanted, buffer'[k].at > begin[t]
      PROVE  buffer'[k].at \in Settled(t)
  <2>1. cursor[t] <= nextSince /\ cursor[t] \in Nat
    BY <1>3, <1>6 DEF TailFits, SeenIsPassed, Tails
  <2>2. PICK m \in DOMAIN buffer : SameEntry(buffer'[k], buffer[m])
    BY <1>2, <1>3, <1>4, <1>6, <2>1
  <2> QED
    BY <1>6, <2>2 DEF TailFits, PassedIsSeen, SameEntry
<1>7. PassedIsSeen(t)'
  BY <1>1, <1>5, <1>6 DEF PassedIsSeen
<1>8. /\ \A f \in page'[t] : \E e \in page[t] :
            e.at = f.at /\ (Tails(t) => e.since = f.since /\ f.since \in Nat)
      /\ \A e \in page[t] : \E f \in page'[t] : f.at = e.at
      /\ \A e, f \in page'[t] : e.at = f.at => e = f
  BY <1>1, Refreshed
<1>9. SeenIsPassed(t)' /\ PageOnce(t)'
  <2>1. page[t] = {} => page'[t] = {}
    BY <1>8
  <2> QED
    BY <1>1, <1>2, <1>3, <1>8, <2>1 DEF TailFits, SeenIsPassed, PageOnce, Tails
<1>10. ASSUME NEW f \in page'[t]
       PROVE  PageIsAhead(t, f)' /\ PageSkipsNothing(t, f)'
  <2>0. PICK e \in page[t] :
          e.at = f.at /\ (Tails(t) => e.since = f.since /\ f.since \in Nat)
    BY <1>8
  <2>1. PageIsAhead(t, f)'
    BY <1>1, <1>2, <1>3, <2>0 DEF TailFits, PageIsAhead, Tails
  <2>2. ASSUME NEW k \in DOMAIN buffer', Tails(t), buffer'[k].id \in Wanted,
               buffer'[k].since < f.since,
               cursor[t] # NoCursor => cursor[t] <= buffer'[k].since
        PROVE  buffer'[k].at \in Settled(t) \/ \E g \in page'[t] : g.at = buffer'[k].at
    <3>1. e.since < nextSince /\ f.since = e.since
      BY <2>0, <2>2 DEF TailFits, PageIsAhead
    <3>2. PICK m \in DOMAIN buffer : SameEntry(buffer'[k], buffer[m])
      BY <1>2, <1>3, <1>4, <2>2, <3>1
    <3>3. buffer'[k].at \in Settled(t) \/ \E g \in page[t] : g.at = buffer'[k].at
      BY <2>2, <3>1, <3>2 DEF TailFits, PageSkipsNothing, SameEntry
    <3> QED
      BY <1>8, <3>3
  <2>3. PageSkipsNothing(t, f)'
    BY <1>1, <1>5, <2>2 DEF PageSkipsNothing, Tails
  <2> QED
    BY <2>1, <2>3
<1> QED
  BY <1>7, <1>9, <1>10 DEF TailFits

\* A step that leaves the recorder and the client's tail alone.
LEMMA TailRests ==
    ASSUME NEW t \in Clients, TailFits(t), UNCHANGED recorderVars,
           begun'[t] = begun[t], begin'[t] = begin[t], cursor'[t] = cursor[t],
           byStatus'[t] = byStatus[t], declined'[t] = declined[t],
           page'[t] = page[t], seen'[t] = seen[t], pc'[t] = "listing" => pc[t] = "listing"
    PROVE  TailFits(t)'
<1>1. UNCHANGED <<buffer, nextSince, cleared, log>> /\ Settled(t)' = Settled(t)
  BY DEF recorderVars, Settled
<1>2. /\ SeenIsPassed(t)' /\ PassedIsSeen(t)' /\ PageOnce(t)'
  BY <1>1 DEF TailFits, SeenIsPassed, PassedIsSeen, PageOnce, Tails
<1>3. ASSUME NEW e \in page[t]
      PROVE  PageIsAhead(t, e)' /\ PageSkipsNothing(t, e)'
  BY <1>1 DEF TailFits, PageIsAhead, PageSkipsNothing, Tails
<1> QED
  BY <1>2, <1>3 DEF TailFits

\* A tail that a clear cuts promises nothing.
LEMMA TailCut ==
    ASSUME ToolsTypeOK, NEW t \in Clients, TailFits(t), StopClear(t),
           NEW u \in Clients, TailFits(u)
    PROVE  TailFits(u)'
<1>1. begun'[u] = IF begun[u] = "no" THEN "no" ELSE "cut"
  BY DEF StopClear
<1>2. /\ cursor' = cursor /\ page' = page /\ seen' = seen
      /\ pc'[u] = "listing" => pc[u] = "listing"
  BY DEF StopClear, Goto, ToolsTypeOK
<1>3. /\ SeenIsPassed(u)' /\ PassedIsSeen(u)' /\ PageOnce(u)'
  BY <1>1, <1>2 DEF TailFits, SeenIsPassed, PassedIsSeen, PageOnce, Tails
<1>4. ASSUME NEW e \in page[u]
      PROVE  PageIsAhead(u, e)' /\ PageSkipsNothing(u, e)'
  BY <1>1 DEF PageIsAhead, PageSkipsNothing, Tails
<1> QED
  BY <1>2, <1>3, <1>4 DEF TailFits

\* A tail that starts has everything behind it.
LEMMA StartTail ==
    ASSUME RecorderInv, ToolsTypeOK, NEW t \in Clients, TailFits(t),
           NEW filtered \in BOOLEAN, Start(t, filtered)
    PROVE  TailFits(t)'
<1>1. /\ begun'[t] = "start" /\ begin'[t] = Len(log) /\ cursor'[t] = nextSince
      /\ page' = page /\ seen' = seen
  BY DEF Start, ToolsTypeOK
<1>2. UNCHANGED <<buffer, nextSince, cleared, log>>
  BY DEF Start, vars, recorderVars
<1>3. page[t] = {} /\ seen[t] = {}
  BY DEF Start, TailFits, SeenIsPassed
<1>4. /\ nextSince \in Nat /\ Len(log) \in Nat
      /\ \A k \in DOMAIN buffer : buffer[k].at \in Nat /\ buffer[k].at <= Len(log)
  BY ClientTyped
<1>5. SeenIsPassed(t)' /\ PageOnce(t)'
  BY <1>1, <1>2, <1>3, <1>4 DEF SeenIsPassed, PageOnce, Tails
<1>6. PassedIsSeen(t)'
  BY <1>1, <1>2, <1>4 DEF PassedIsSeen
<1> QED
  BY <1>1, <1>3, <1>5, <1>6 DEF TailFits

\* A tail that starts without a cursor has been given nothing.
LEMMA StartWithoutTail ==
    ASSUME RecorderInv, ToolsTypeOK, NEW t \in Clients, TailFits(t),
           NEW filtered \in BOOLEAN, StartWithout(t, filtered)
    PROVE  TailFits(t)'
<1>1. begun'[t] = "none" /\ cursor' = cursor /\ page' = page /\ seen' = seen
  BY DEF StartWithout, ToolsTypeOK
<1>2. page[t] = {} /\ seen[t] = {} /\ cursor[t] = NoCursor
  BY DEF StartWithout, TailFits, SeenIsPassed
<1>3. SeenIsPassed(t)' /\ PassedIsSeen(t)' /\ PageOnce(t)'
  BY <1>1, <1>2 DEF SeenIsPassed, PassedIsSeen, PageOnce, Tails
<1> QED
  BY <1>1, <1>2, <1>3 DEF TailFits

\* A snapshot selects what is ahead of the cursor, and skips nothing of it.
LEMMA ListBeginTail ==
    ASSUME RecorderInv, ToolsTypeOK, NEW t \in Clients, TailFits(t), ListBegin(t)
    PROVE  TailFits(t)'
<1>1. /\ begun' = begun /\ begin' = begin /\ cursor' = cursor /\ seen' = seen
      /\ byStatus' = byStatus /\ declined' = declined
      /\ page'[t] = Matching(cursor[t]) /\ begun[t] # "no"
  BY DEF ListBegin, ToolsTypeOK
<1>2. UNCHANGED <<buffer, nextSince, cleared, log>> /\ Settled(t)' = Settled(t)
  BY <1>1 DEF ListBegin, vars, recorderVars, Settled
<1>3. /\ Len(buffer) \in Nat /\ DOMAIN buffer = 1 .. Len(buffer) /\ Len(log) \in Nat
      /\ \A k \in DOMAIN buffer : /\ buffer[k].at = Len(log) - Len(buffer) + k
                                  /\ buffer[k].at = cleared + buffer[k].since + 1
                                  /\ buffer[k].since < nextSince
                                  /\ buffer[k].at \in Nat /\ buffer[k].since \in Nat
      /\ cleared \in Nat /\ (cursor[t] # NoCursor => cursor[t] \in Nat)
  <2>1. Len(buffer) \in Nat /\ DOMAIN buffer = 1 .. Len(buffer)
    BY DEF RecorderInv, TypeOK
  <2>2. \A k \in DOMAIN buffer : buffer[k].at = Len(log) - Len(buffer) + k
    BY <2>1 DEF RecorderInv, BufferIsRecentLog
  <2> QED
    BY <2>1, <2>2, ClientTyped
<1>4. \A e \in page'[t] : \E j \in DOMAIN buffer :
          e = buffer[j] /\ (cursor[t] # NoCursor => e.since >= cursor[t])
  BY <1>1 DEF Matching, Matches
<1>5. SeenIsPassed(t)' /\ PassedIsSeen(t)'
  BY <1>1, <1>2 DEF TailFits, SeenIsPassed, PassedIsSeen, Tails
<1>6. ASSUME NEW e \in page'[t], NEW f \in page'[t], e.at = f.at
      PROVE  e = f
  <2>1. PICK j \in DOMAIN buffer : e = buffer[j]
    BY <1>4
  <2>2. PICK k \in DOMAIN buffer : f = buffer[k]
    BY <1>4
  <2>3. j = k
    BY <1>3, <1>6, <2>1, <2>2
  <2> QED
    BY <2>1, <2>2, <2>3
<1>7. ASSUME NEW e \in page'[t]
      PROVE  PageIsAhead(t, e)' /\ PageSkipsNothing(t, e)'
  <2>1. PICK j \in DOMAIN buffer :
          e = buffer[j] /\ (cursor[t] # NoCursor => e.since >= cursor[t])
    BY <1>4
  <2>2. PageIsAhead(t, e)'
    BY <1>1, <1>2, <1>3, <2>1 DEF PageIsAhead, Tails
  <2>3. ASSUME NEW k \in DOMAIN buffer, buffer[k].id \in Wanted,
               cursor[t] # NoCursor => cursor[t] <= buffer[k].since
        PROVE  \E f \in page'[t] : f.at = buffer[k].at
    <3>1. Matches(buffer[k], cursor[t])
      BY <1>3, <2>3 DEF Matches
    <3> QED
      BY <1>1, <3>1 DEF Matching
  <2>4. PageSkipsNothing(t, e)'
    BY <1>1, <1>2, <2>3 DEF PageSkipsNothing
  <2> QED
    BY <2>2, <2>4
<1> QED
  BY <1>5, <1>6, <1>7 DEF TailFits, PageOnce

\* The entry that is materialised is the first of those that are left.
LEMMA ListOneTail ==
    ASSUME RecorderInv, ToolsTypeOK, NEW t \in Clients, TailFits(t), ListOne(t)
    PROVE  TailFits(t)'
<1>1. PICK e \in page[t] :
        /\ First(t, e) /\ seen'[t] = seen[t] \cup {e.at} /\ cursor'[t] = e.since + 1
        /\ page'[t] = {} \/ page'[t] = page[t] \ {e}
        /\ Settled(t)' = Settled(t) \cup {e.at}
  <2>1. PICK e \in page[t] : Take(t, e, e.since + 1)
    BY DEF ListOne
  <2>2. /\ First(t, e) /\ seen'[t] = seen[t] \cup {e.at} /\ cursor'[t] = e.since + 1
        /\ page'[t] = {} \/ page'[t] = page[t] \ {e}
        /\ declined' = declined /\ byStatus' = byStatus
    BY <2>1 DEF Take, ToolsTypeOK
  <2>3. Settled(t)' = Settled(t) \cup {e.at}
    BY <2>2 DEF Settled
  <2> QED
    BY <2>2, <2>3
<1>2. begun' = begun /\ begin' = begin /\ UNCHANGED <<buffer, nextSince, cleared, log>>
  BY DEF ListOne, Take, vars, recorderVars
<1>3. /\ nextSince \in Nat /\ cleared \in Nat /\ begin[t] \in Nat /\ NoCursor \notin Nat
      /\ cursor[t] \in Nat \cup {NoCursor} /\ seen[t] \subseteq Nat
      /\ \A f \in page[t] : f.at \in Nat /\ f.since \in Nat
      /\ \A k \in DOMAIN buffer : /\ buffer[k].at \in Nat /\ buffer[k].since \in Nat
                                  /\ buffer[k].at = cleared + buffer[k].since + 1
  BY ClientTyped, NoCursorAssumption
<1>4. begun[t] # "no"
  BY <1>1 DEF TailFits, SeenIsPassed
<1>5. Tails(t) => \A f \in page[t] : f.at = cleared + f.since + 1 /\ f.since < nextSince
  BY DEF TailFits, PageIsAhead
<1>6. Tails(t) /\ cursor[t] # NoCursor => cursor[t] <= e.since
  BY DEF TailFits, PageIsAhead
<1>7. \A f \in page[t] : f # e /\ Tails(t) => e.since < f.since
  <2>1. \A f \in page[t] : f # e => e.at < f.at
    BY <1>1, <1>3 DEF First, TailFits, PageOnce
  <2> QED
    BY <1>3, <1>5, <2>1
<1>8. SeenIsPassed(t)'
  <2>1. Tails(t) => \A n \in seen[t] : n <= cleared + (e.since + 1)
    BY <1>3, <1>6 DEF TailFits, SeenIsPassed
  <2> QED
    BY <1>1, <1>2, <1>3, <1>4, <1>5, <2>1 DEF SeenIsPassed, Tails
<1>9. ASSUME NEW k \in DOMAIN buffer, begun[t] = "start", buffer[k].id \in Wanted,
             buffer[k].at > begin[t], buffer[k].since < e.since + 1
      PROVE  buffer[k].at \in Settled(t) \cup {e.at}
  <2>0. Tails(t) /\ cursor[t] \in Nat
    BY <1>9 DEF Tails, TailFits, SeenIsPassed
  <2>1. CASE buffer[k].since < cursor[t]
    BY <1>9, <2>1 DEF TailFits, PassedIsSeen
  <2>2. CASE buffer[k].since = e.since
    BY <1>3, <1>5, <2>0, <2>2
  <2>3. CASE cursor[t] <= buffer[k].since /\ buffer[k].since < e.since
    <3>1. ASSUME NEW f \in page[t], f.at = buffer[k].at
          PROVE  FALSE
      <4>1. e.at <= f.at
        BY <1>1 DEF First
      <4> QED
        BY <1>3, <1>5, <2>0, <2>3, <3>1, <4>1
    <3>2. buffer[k].at \in Settled(t) \/ \E f \in page[t] : f.at = buffer[k].at
      BY <1>9, <2>0, <2>3 DEF TailFits, PageSkipsNothing
    <3> QED
      BY <3>1, <3>2
  <2>4. buffer[k].since \in Nat /\ e.since \in Nat
    BY <1>3
  <2> QED
    BY <1>9, <2>0, <2>1, <2>2, <2>3, <2>4
<1>10. PassedIsSeen(t)'
  BY <1>1, <1>2, <1>9 DEF PassedIsSeen
<1>11. PageOnce(t)'
  BY <1>1 DEF TailFits, PageOnce
<1>12. ASSUME NEW f \in page'[t]
       PROVE  PageIsAhead(t, f)' /\ PageSkipsNothing(t, f)'
  <2>1. f \in page[t] /\ f # e
    BY <1>1, <1>12
  <2>2. PageIsAhead(t, f)'
    BY <1>1, <1>2, <1>3, <1>5, <1>7, <2>1 DEF PageIsAhead, Tails
  <2>3. ASSUME NEW k \in DOMAIN buffer, Tails(t), buffer[k].id \in Wanted,
               buffer[k].since < f.since, e.since + 1 <= buffer[k].since
        PROVE  buffer[k].at \in Settled(t) \/ \E g \in page'[t] : g.at = buffer[k].at
    <3>1. cursor[t] # NoCursor => cursor[t] <= buffer[k].since
      BY <1>3, <1>6, <2>3
    <3>2. ASSUME NEW g \in page[t], g.at = buffer[k].at
          PROVE  g \in page'[t]
      <4>1. g # e
        BY <1>3, <1>5, <2>3, <3>2
      <4> QED
        BY <1>1, <1>12, <4>1
    <3>3. buffer[k].at \in Settled(t) \/ \E g \in page[t] : g.at = buffer[k].at
      BY <2>1, <2>3, <3>1 DEF TailFits, PageSkipsNothing
    <3> QED
      BY <3>2, <3>3
  <2>4. PageSkipsNothing(t, f)'
    BY <1>1, <1>2, <1>3, <2>3 DEF PageSkipsNothing, Tails
  <2> QED
    BY <2>2, <2>4
<1> QED
  BY <1>8, <1>10, <1>11, <1>12 DEF TailFits

\* An entry that is passed over is settled, and the cursor stays before it.
LEMMA ListPassTail ==
    ASSUME RecorderInv, ToolsTypeOK, NEW t \in Clients, TailFits(t), ListPass(t)
    PROVE  TailFits(t)'
<1>1. PICK e \in page[t] :
        /\ ~StatusMatches(t, e) /\ page'[t] = page[t] \ {e}
        /\ declined'[t] = declined[t] \cup {e.at}
        /\ seen' = seen /\ byStatus' = byStatus /\ cursor' = cursor /\ pc' = pc
        /\ begun' = begun /\ begin' = begin
        /\ UNCHANGED <<buffer, nextSince, cleared, log>>
  BY DEF ListPass, ToolsTypeOK, vars, recorderVars
<1>2. Settled(t)' = Settled(t) \cup {e.at}
  BY <1>1 DEF Settled, StatusMatches
<1>3. page[t] # {}
  BY <1>1
<1>4. SeenIsPassed(t)' /\ PassedIsSeen(t)' /\ PageOnce(t)'
  BY <1>1, <1>2, <1>3 DEF TailFits, SeenIsPassed, PassedIsSeen, PageOnce, Tails
<1>5. ASSUME NEW f \in page'[t]
      PROVE  PageIsAhead(t, f)' /\ PageSkipsNothing(t, f)'
  <2>1. f \in page[t]
    BY <1>1, <1>5
  <2>2. PageIsAhead(t, f)'
    BY <1>1, <2>1 DEF TailFits, PageIsAhead, Tails
  <2>3. ASSUME NEW k \in DOMAIN buffer, Tails(t), buffer[k].id \in Wanted,
               buffer[k].since < f.since,
               cursor[t] # NoCursor => cursor[t] <= buffer[k].since
        PROVE  \/ buffer[k].at \in Settled(t) \cup {e.at}
               \/ \E g \in page'[t] : g.at = buffer[k].at
    <3>1. buffer[k].at \in Settled(t) \/ \E g \in page[t] : g.at = buffer[k].at
      BY <2>1, <2>3 DEF TailFits, PageSkipsNothing
    <3> QED
      BY <1>1, <3>1
  <2>4. PageSkipsNothing(t, f)'
    BY <1>1, <1>2, <2>3 DEF PageSkipsNothing, Tails
  <2> QED
    BY <2>2, <2>4
<1> QED
  BY <1>4, <1>5 DEF TailFits

\* A tail that had a cursor keeps it.
LEMMA ListNoneTail ==
    ASSUME RecorderInv, ToolsTypeOK, NEW t \in Clients, TailFits(t), ListNone(t)
    PROVE  TailFits(t)'
<1>1. /\ cursor'[t] = (IF cursor[t] = NoCursor THEN nextSince ELSE cursor[t])
      /\ page'[t] = {} /\ seen' = seen /\ begun' = begun /\ begin' = begin
      /\ Settled(t)' = Settled(t)
  BY DEF ListNone, Settled, ToolsTypeOK
<1>2. UNCHANGED <<buffer, nextSince, cleared, log>> /\ nextSince \in Nat /\ NoCursor \notin Nat
  BY NoCursorAssumption DEF ListNone, vars, recorderVars, RecorderInv, TypeOK
<1>3. begun[t] # "no"
  BY DEF ListNone, Goto, TailFits, SeenIsPassed
<1>4. SeenIsPassed(t)' /\ PassedIsSeen(t)' /\ PageOnce(t)'
  BY <1>1, <1>2, <1>3 DEF TailFits, SeenIsPassed, PassedIsSeen, PageOnce, Tails
<1> QED
  BY <1>1, <1>4 DEF TailFits

\* What a tool's step does to the recorder: nothing, unless it clears it.
LEMMA ToolAlone ==
    ASSUME NEW t \in Clients, ClientStep(t), ~StopClear(t)
    PROVE  UNCHANGED recorderVars
  BY DEF ClientStep, ListStep, ReplayStep, Start, StartWithout, ListBegin, ListOne,
         Take, ListPass, ListNone, StopCount, Replay, ReplayDispatched, Refuse,
         ReplayRefused, ReplayGivenUp, ReplayDone, ReplayTimeout, ReplayReturn,
         vars, replayVars

\* The recorder's invariant holds under the tools as well.
LEMMA ToolsKeepRecorder ==
    ASSUME RecorderInv, ToolsTypeOK, ToolsNext
    PROVE  RecorderInv'
<1>1. CASE HookStep
  BY <1>1, StepKeepsInv DEF HookStep, Next
<1>3. ASSUME NEW f \in late, LateReplay(f)
      PROVE  RecorderInv'
  <2>1. UNCHANGED recorderVars /\ live' \in [Flows -> LiveStates]
    BY <1>3 DEF LateReplay, RecorderInv, TypeOK, LiveStates
  <2> QED
    BY <2>1 DEF RecorderInv, TypeOK, BufferIsRecentLog, IndexCoversBuffer, Full,
                recorderVars
<1>2. ASSUME NEW t \in Clients, ClientStep(t)
      PROVE  RecorderInv'
  <2>1. CASE StopClear(t)
    BY <2>1, StepKeepsInv DEF StopClear, Next, replayVars
  <2>2. CASE ~StopClear(t)
    <3>1. UNCHANGED recorderVars
      BY <1>2, <2>2, ToolAlone
    <3>2. live' \in [Flows -> LiveStates]
      <4>1. CASE ReplayDispatched(t)
        BY <4>1 DEF ReplayDispatched, RecorderInv, TypeOK, LiveStates, replayVars
      <4>2. CASE ~ReplayDispatched(t)
        <5>1. UNCHANGED live
          BY <1>2, <2>2, <4>2 DEF ClientStep, ListStep, ReplayStep, Start,
                                  StartWithout, ListBegin, ListOne, Take, ListPass,
                                  ListNone, StopCount, Replay, Refuse,
                                  ReplayRefused, ReplayGivenUp, ReplayDone,
                                  ReplayTimeout, ReplayReturn, vars, replayVars
        <5> QED
          BY <5>1 DEF RecorderInv, TypeOK
      <4> QED
        BY <4>1, <4>2
    <3> QED
      BY <3>1, <3>2 DEF RecorderInv, TypeOK, BufferIsRecentLog, IndexCoversBuffer,
                        Full, recorderVars
  <2> QED
    BY <2>1, <2>2
<1> QED
  BY <1>1, <1>2, <1>3 DEF ToolsNext

\* Each tail keeps its invariant, whoever moves.
LEMMA TailStep ==
    ASSUME RecorderInv, RecorderInv', ToolsTypeOK, TailInv, ToolsNext
    PROVE  TailInv'
<1>1. CASE HookStep
  <2>1. Grows
    BY <1>1, HookGrows DEF HookStep
  <2> QED
    BY <1>1, <2>1, GrowsTail DEF TailInv
<1>3. ASSUME NEW f \in late, LateReplay(f), NEW u \in Clients
      PROVE  TailFits(u)'
  BY <1>3, TailRests DEF LateReplay, clientVars, TailInv
<1>2. ASSUME NEW t \in Clients, ClientStep(t), NEW u \in Clients
      PROVE  TailFits(u)'
  <2>0. TailFits(t) /\ TailFits(u)
    BY DEF TailInv
  <2>1. CASE StopClear(t)
    BY <2>0, <2>1, TailCut
  <2>2. CASE ~StopClear(t) /\ u # t
    <3>1. UNCHANGED recorderVars
      BY <1>2, <2>2, ToolAlone
    <3>2. /\ begun'[u] = begun[u] /\ begin'[u] = begin[u] /\ cursor'[u] = cursor[u]
          /\ byStatus'[u] = byStatus[u] /\ declined'[u] = declined[u]
          /\ page'[u] = page[u] /\ seen'[u] = seen[u]
          /\ pc'[u] = "listing" => pc[u] = "listing"
      BY <1>2, <2>2 DEF ClientStep, ListStep, ReplayStep, Start, StartWithout,
                        ListBegin, ListOne, Take, ListPass, ListNone, StopCount,
                        Replay, ReplayDispatched, Refuse, ReplayRefused,
                        ReplayGivenUp, ReplayDone, ReplayTimeout, ReplayReturn,
                        clientVars, Goto, ToolsTypeOK, replayVars
    <3> QED
      BY <2>0, <3>1, <3>2, TailRests
  <2>3. CASE \/ ListStep(t)
             \/ \E filtered \in BOOLEAN : Start(t, filtered) \/ StartWithout(t, filtered)
    <3>1. TailFits(t)'
      BY <2>0, <2>3, ListBeginTail, ListOneTail, ListPassTail, ListNoneTail,
         StartTail, StartWithoutTail
         DEF ListStep
    <3> QED
      BY <2>1, <2>2, <3>1
  <2>4. CASE StopCount(t) \/ ReplayStep(t)
    <3>1. UNCHANGED recorderVars
      BY <2>4, ToolAlone, <2>1 DEF ReplayStep, StopCount, Replay, ReplayDispatched,
                                   Refuse, ReplayRefused, ReplayGivenUp, ReplayDone,
                                   ReplayTimeout, ReplayReturn, vars, replayVars
    <3>2. UNCHANGED clientVars
      BY <2>4 DEF ReplayStep, StopCount, Replay, ReplayDispatched, Refuse,
                  ReplayRefused, ReplayGivenUp, ReplayDone, ReplayTimeout,
                  ReplayReturn, replayVars
    <3>3. pc'[u] = "listing" => pc[u] = "listing"
      BY <2>4 DEF ReplayStep, StopCount, Replay, ReplayDispatched, Refuse,
                  ReplayRefused, ReplayGivenUp, ReplayDone, ReplayTimeout,
                  ReplayReturn, Goto, ToolsTypeOK, replayVars
    <3> QED
      BY <2>0, <3>1, <3>2, <3>3, TailRests DEF clientVars
  <2> QED
    BY <1>2, <2>1, <2>2, <2>3, <2>4 DEF ClientStep
<1> QED
  BY <1>1, <1>2, <1>3 DEF ToolsNext, TailInv

\* What every step keeps of the answers: a copy that has been answered stays so,
\* and the log only grows.
LEMMA AnswersStay ==
    ASSUME RecorderInv, ToolsTypeOK, CopiesInv, ToolsNext
    PROVE  /\ \A f \in Flows :
                  live[f] \in {"answered", "over"} => live'[f] \in {"answered", "over"}
           /\ \A n \in 1 .. Len(log) : n \in 1 .. Len(log') /\ log'[n] = log[n]
<1>0. Len(log) \in Nat /\ live \in [Flows -> LiveStates]
  BY DEF RecorderInv, TypeOK
<1>1. CASE HookStep
  <2>1. Hook
    BY <1>1 DEF HookStep
  <2>2. Grows /\ Len(log') \in Nat
    BY <2>1, HookGrows, StepKeepsInv DEF Next, RecorderInv, TypeOK
  <2> QED
    BY <1>0, <2>1, <2>2, HookGrows DEF Grows
<1>3. ASSUME NEW f \in late, LateReplay(f)
      PROVE  /\ \A g \in Flows :
                    live[g] \in {"answered", "over"} => live'[g] \in {"answered", "over"}
             /\ log' = log
  <2>1. live[f] = "idle"
    BY DEF CopiesInv, LateFits
  <2> QED
    BY <1>0, <1>3, <2>1 DEF LateReplay, recorderVars
<1>2. ASSUME NEW t \in Clients, ClientStep(t)
      PROVE  /\ \A f \in Flows :
                    live[f] \in {"answered", "over"} => live'[f] \in {"answered", "over"}
             /\ log' = log
  <2>1. CASE StopClear(t)
    BY <2>1 DEF StopClear, Clear, replayVars
  <2>2. CASE ReplayDispatched(t)
    <3>1. live[copy[t]] = "idle"
      BY <2>2 DEF CopiesInv, CopyFits, ReplayDispatched, Goto, replayVars
    <3> QED
      BY <1>0, <2>2, <3>1 DEF ReplayDispatched, recorderVars, replayVars
  <2>3. CASE ~StopClear(t) /\ ~ReplayDispatched(t)
    <3>1. UNCHANGED live
      BY <1>2, <2>3 DEF ClientStep, ListStep, ReplayStep, Start, StartWithout,
                        ListBegin, ListOne, Take, ListPass, ListNone, StopCount,
                        Replay, Refuse, ReplayRefused, ReplayGivenUp, ReplayDone,
                        ReplayTimeout, ReplayReturn, vars, replayVars
    <3> QED
      BY <1>2, <2>3, <3>1, ToolAlone DEF recorderVars
  <2> QED
    BY <2>1, <2>2, <2>3
<1> QED
  BY <1>0, <1>1, <1>2, <1>3 DEF ToolsNext

\* A client whose replay does not move keeps its copy and the answer it has.
LEMMA CopyRests ==
    ASSUME RecorderInv, ToolsTypeOK, CopiesInv, ToolsNext, NEW u \in Clients,
           copy'[u] = copy[u],
           answer'[u] = answer[u] \/ answer'[u].how # "returned",
           pc'[u] \in {"dispatching", "waiting", "replayed"} =>
               pc[u] \in {"dispatching", "waiting", "replayed"},
           pc'[u] = "replayed" => pc[u] = "replayed",
           pc'[u] = "dispatching" => live'[copy[u]] = "idle"
    PROVE  CopyFits(u)' /\ SinceFits(u)'
<1>1. CopyFits(u) /\ SinceFits(u) /\ Replays \subseteq Flows
  BY FlowsAssumption DEF CopiesInv
<1>2. /\ \A f \in Flows :
             live[f] \in {"answered", "over"} => live'[f] \in {"answered", "over"}
      /\ \A n \in 1 .. Len(log) : n \in 1 .. Len(log') /\ log'[n] = log[n]
  BY AnswersStay
<1>3. CopyFits(u)'
  BY <1>1, <1>2 DEF CopyFits
<1>4. SinceFits(u)'
  BY <1>1, <1>2 DEF SinceFits
<1> QED
  BY <1>3, <1>4

\* The copies under way are the idle ones until they are dispatched.
LEMMA CopyWaits ==
    ASSUME RecorderInv, ToolsTypeOK, CopiesInv, ToolsNext, NEW u \in Clients,
           pc[u] = "dispatching", ~ReplayDispatched(u)
    PROVE  live'[copy[u]] = "idle"
<1>0. /\ copy[u] \in Replays /\ live[copy[u]] = "idle"
      /\ Replays \subseteq Flows /\ live \in [Flows -> LiveStates] /\ Nobody \notin Flows
  BY FlowsAssumption, NobodyAssumption DEF CopiesInv, CopyFits, RecorderInv, TypeOK
<1>1. CASE HookStep
  BY <1>0, <1>1, HookGrows DEF HookStep
<1>3. ASSUME NEW f \in late, LateReplay(f)
      PROVE  live'[copy[u]] = "idle"
  <2>1. copy[u] # f
    BY DEF CopiesInv, LateFits
  <2> QED
    BY <1>0, <1>3, <2>1 DEF LateReplay
<1>2. ASSUME NEW t \in Clients, ClientStep(t)
      PROVE  live'[copy[u]] = "idle"
  <2>1. CASE ReplayDispatched(t)
    <3>1. t # u
      BY <2>1
    <3>2. copy[t] # copy[u]
      BY <1>0, <3>1 DEF CopiesInv, SameCopy
    <3> QED
      BY <1>0, <2>1, <3>2 DEF ReplayDispatched, replayVars
  <2>2. CASE ~ReplayDispatched(t)
    <3>1. UNCHANGED live
      BY <1>2, <2>2 DEF ClientStep, ListStep, ReplayStep, Start, StartWithout,
                        ListBegin, ListOne, Take, ListPass, ListNone, StopCount,
                        StopClear, Replay, Refuse, ReplayRefused, ReplayGivenUp,
                        ReplayDone, ReplayTimeout, ReplayReturn, vars, replayVars
    <3> QED
      BY <1>0, <3>1
  <2> QED
    BY <2>1, <2>2
<1> QED
  BY <1>1, <1>2, <1>3 DEF ToolsNext

\* The entry a replay finds is one the log has.
LEMMA FoundIsLogged ==
    ASSUME RecorderInv, NEW k \in DOMAIN buffer
    PROVE  /\ buffer[k].since \in Nat
           /\ \E n \in 1 .. Len(log) :
                  log[n] = [id |-> buffer[k].id, since |-> buffer[k].since]
<1>1. /\ Len(buffer) \in Nat /\ DOMAIN buffer = 1 .. Len(buffer) /\ Len(log) \in Nat
      /\ buffer[k] \in Entries /\ cleared \in 0 .. Len(log)
  BY DEF RecorderInv, TypeOK
<1>2. /\ buffer[k].at = Len(log) - Len(buffer) + k /\ nextSince = Len(log) - cleared
      /\ Len(buffer) <= nextSince
      /\ log[buffer[k].at] = [id |-> buffer[k].id, since |-> buffer[k].since]
  BY <1>1 DEF RecorderInv, BufferIsRecentLog
<1>3. buffer[k].since \in Nat
  BY <1>1 DEF Entries
<1>4. buffer[k].at \in 1 .. Len(log)
  BY <1>1, <1>2
<1> QED
  BY <1>2, <1>3, <1>4

\* What a replay returns is its own copy's.
LEMMA ReplayReturnCopies ==
    ASSUME RecorderInv, ToolsTypeOK, CopiesInv, NEW t \in Clients, ReplayReturn(t)
    PROVE  CopyFits(t)' /\ SinceFits(t)'
<1>1. CopyFits(t) /\ pc[t] = "replayed" /\ pc'[t] = "idle"
          /\ copy' = copy /\ live' = live /\ log' = log
  BY DEF CopiesInv, ReplayReturn, Goto, ToolsTypeOK, vars, recorderVars, replayVars
<1> DEFINE found == {k \in DOMAIN buffer : buffer[k].id = copy[t]}
<1>2. answer'[t] = Answer("returned",
          IF found = {} THEN 0 ELSE buffer[CHOOSE k \in found : TRUE].since)
  BY DEF ReplayReturn, ToolsTypeOK, replayVars
<1>3. CASE found = {}
  BY <1>1, <1>2, <1>3 DEF Answer, CopyFits, SinceFits
<1>4. CASE found # {}
  <2>1. PICK k \in found : k = (CHOOSE j \in found : TRUE)
    BY <1>4
  <2>2. answer'[t] = [how |-> "returned", since |-> buffer[k].since]
    BY <1>2, <1>4, <2>1 DEF Answer
  <2>3. \E n \in 1 .. Len(log) : log[n] = [id |-> copy[t], since |-> buffer[k].since]
    BY FoundIsLogged
  <2> QED
    BY <1>1, <2>2, <2>3 DEF CopyFits, SinceFits
<1> QED
  BY <1>3, <1>4

\* A fresh copy is nobody else's.
LEMMA ReplayCopies ==
    ASSUME RecorderInv, ToolsTypeOK, CopiesInv, NEW t \in Clients,
           NEW source \in Flows, NEW fresh \in Replays, Replay(t, source, fresh)
    PROVE  /\ CopyFits(t)' /\ SinceFits(t)'
           /\ \A u, v \in Clients : SameCopy(u, v)'
<1>1. /\ pc'[t] = "dispatching" /\ copy' = [copy EXCEPT ![t] = fresh] /\ copy'[t] = fresh
      /\ answer'[t] = Answer("none", 0) /\ live' = live /\ live[fresh] = "idle"
      /\ \A u \in Clients : copy[u] # fresh
  BY DEF Replay, Goto, ToolsTypeOK, vars
<1>2. CopyFits(t)' /\ SinceFits(t)'
  BY <1>1 DEF CopyFits, SinceFits, Answer
<1>3. \A u \in Clients : u # t => copy'[u] = copy[u]
  BY <1>1 DEF ToolsTypeOK
<1>4. \A u, v \in Clients : SameCopy(u, v)
  BY DEF CopiesInv
<1>5. \A u, v \in Clients : SameCopy(u, v)'
  BY <1>1, <1>3, <1>4 DEF SameCopy
<1> QED
  BY <1>2, <1>5

\* It is none of those that were given up.
LEMMA ReplayLates ==
    ASSUME ToolsTypeOK, CopiesInv, NEW t \in Clients,
           NEW source \in Flows, NEW fresh \in Replays, Replay(t, source, fresh)
    PROVE  \A f \in late' : LateFits(f)'
<1>1. /\ late' = late /\ fresh \notin late /\ copy'[t] = fresh /\ live' = live
      /\ \A u \in Clients : u # t => copy'[u] = copy[u] /\ pc'[u] = pc[u]
  BY DEF Replay, Goto, ToolsTypeOK, vars
<1> QED
  BY <1>1 DEF CopiesInv, LateFits

\* A replay that is given up before it ran joins them; the others move none of them.
LEMMA LatesStay ==
    ASSUME RecorderInv, ToolsTypeOK, CopiesInv, NEW t \in Clients, ClientStep(t),
           ~ \E source \in Flows, fresh \in Replays : Replay(t, source, fresh)
    PROVE  \A f \in late' : LateFits(f)'
<1>0. copy' = copy /\ \A u \in Clients : pc'[u] = "dispatching" => pc[u] = "dispatching"
  BY DEF ClientStep, ListStep, ReplayStep, Start, StartWithout, ListBegin, ListOne,
         Take, ListPass, ListNone, StopCount, StopClear, ReplayDispatched, Refuse,
         ReplayRefused, ReplayGivenUp, ReplayDone, ReplayTimeout, ReplayReturn,
         Goto, ToolsTypeOK, replayVars
<1>1. CASE ReplayDispatched(t)
  <2>1. late' = late /\ live' = [live EXCEPT ![copy[t]] = "dispatched"] /\ pc[t] = "dispatching"
    BY <1>1 DEF ReplayDispatched, Goto, replayVars
  <2>2. \A f \in late : copy[t] # f
    BY <2>1 DEF CopiesInv, LateFits
  <2> QED
    BY <1>0, <2>1, <2>2 DEF CopiesInv, LateFits, RecorderInv, TypeOK
<1>2. CASE ReplayGivenUp(t)
  <2>1. late' = late \cup {copy[t]} /\ live' = live /\ pc[t] = "dispatching" /\ pc'[t] = "idle"
    BY <1>2 DEF ReplayGivenUp, Refuse, Goto, ToolsTypeOK, vars
  <2>2. copy[t] \in Replays /\ live[copy[t]] = "idle" /\ copy[t] # Nobody
    BY <2>1, FlowsAssumption, NobodyAssumption DEF CopiesInv, CopyFits
  <2>3. \A u \in Clients : pc'[u] = "dispatching" => copy'[u] # copy[t]
    BY <1>0, <2>1, <2>2 DEF CopiesInv, SameCopy
  <2> QED
    BY <1>0, <2>1, <2>2, <2>3 DEF CopiesInv, LateFits
<1>3. CASE ~ReplayDispatched(t) /\ ~ReplayGivenUp(t)
  <2>1. late' = late
    BY <1>3 DEF ClientStep, ListStep, ReplayStep, Start, StartWithout, ListBegin,
                ListOne, Take, ListPass, ListNone, StopCount, StopClear,
                ReplayRefused, ReplayDone, ReplayTimeout, ReplayReturn, replayVars
  <2>2. live' = live
    BY <1>3 DEF ClientStep, ListStep, ReplayStep, Start, StartWithout, ListBegin,
                ListOne, Take, ListPass, ListNone, StopCount, StopClear, Refuse,
                ReplayRefused, ReplayDone, ReplayTimeout, ReplayReturn, vars,
                replayVars
  <2> QED
    BY <1>0, <2>1, <2>2 DEF CopiesInv, LateFits
<1> QED
  BY <1>1, <1>2, <1>3

\* Each replay keeps its invariant, whoever moves.
LEMMA CopiesStep ==
    ASSUME RecorderInv, ToolsTypeOK, CopiesInv, ToolsNext
    PROVE  CopiesInv'
<1>0. \A u, v \in Clients : SameCopy(u, v)
  BY DEF CopiesInv
<1>1. CASE HookStep
  <2>1. copy' = copy /\ answer' = answer /\ pc' = pc /\ late' = late /\ Hook
    BY <1>1 DEF HookStep, replayVars
  <2>2. ASSUME NEW u \in Clients
        PROVE  CopyFits(u)' /\ SinceFits(u)'
    <3>1. pc[u] = "dispatching" => live'[copy[u]] = "idle"
      <4>1. Replays \subseteq Flows /\ CopyFits(u)
        BY FlowsAssumption DEF CopiesInv
      <4> QED
        BY <2>1, <4>1, HookGrows DEF CopyFits
    <3> QED
      BY <2>1, <3>1, CopyRests
  <2>3. \A f \in late' : LateFits(f)'
    BY <2>1, HookGrows DEF CopiesInv, LateFits
  <2> QED
    BY <1>0, <2>1, <2>2, <2>3 DEF CopiesInv, SameCopy
<1>3. ASSUME NEW f \in late, LateReplay(f)
      PROVE  CopiesInv'
  <2>1. /\ copy' = copy /\ answer' = answer /\ pc' = pc /\ late' = late \ {f}
        /\ live' = [live EXCEPT ![f] = "dispatched"]
    BY <1>3 DEF LateReplay
  <2>2. ASSUME NEW u \in Clients
        PROVE  CopyFits(u)' /\ SinceFits(u)'
    <3>1. pc[u] = "dispatching" => live'[copy[u]] = "idle"
      <4>1. pc[u] = "dispatching" => ~ReplayDispatched(u)
        BY <2>1 DEF ReplayDispatched, Goto, ToolsTypeOK, replayVars
      <4> QED
        BY <4>1, CopyWaits
    <3> QED
      BY <2>1, <3>1, CopyRests
  <2>3. \A g \in late' : LateFits(g)'
    BY <2>1 DEF CopiesInv, LateFits
  <2> QED
    BY <1>0, <2>1, <2>2, <2>3 DEF CopiesInv, SameCopy
<1>2. ASSUME NEW t \in Clients, ClientStep(t)
      PROVE  CopiesInv'
  <2>1. ASSUME NEW u \in Clients, u # t
        PROVE  CopyFits(u)' /\ SinceFits(u)'
    <3>1. copy'[u] = copy[u] /\ answer'[u] = answer[u] /\ pc'[u] = pc[u]
      BY <1>2, <2>1 DEF ClientStep, ListStep, ReplayStep, Start, StartWithout,
                        ListBegin, ListOne, Take, ListPass, ListNone, StopCount,
                        StopClear, Replay, ReplayDispatched, Refuse, ReplayRefused,
                        ReplayGivenUp, ReplayDone, ReplayTimeout, ReplayReturn,
                        Goto, ToolsTypeOK, replayVars
    <3>2. ~(ReplayDispatched(u) /\ pc[u] = "dispatching")
      BY <3>1 DEF ReplayDispatched, Goto, ToolsTypeOK, replayVars
    <3>3. pc[u] = "dispatching" => live'[copy[u]] = "idle"
      BY <3>2, CopyWaits
    <3> QED
      BY <3>1, <3>3, CopyRests
  <2>2. ASSUME NEW source \in Flows, NEW fresh \in Replays, Replay(t, source, fresh)
        PROVE  CopiesInv'
    <3>1. \A f \in late' : LateFits(f)'
      BY <2>2, ReplayLates
    <3> QED
      BY <2>1, <2>2, <3>1, ReplayCopies DEF CopiesInv
  <2>3. ASSUME ~ \E source \in Flows, fresh \in Replays : Replay(t, source, fresh)
        PROVE  CopiesInv'
    <3>1. copy' = copy
      BY <1>2, <2>3 DEF ClientStep, ListStep, ReplayStep, Start, StartWithout,
                        ListBegin, ListOne, Take, ListPass, ListNone, StopCount,
                        StopClear, ReplayDispatched, Refuse, ReplayRefused,
                        ReplayGivenUp, ReplayDone, ReplayTimeout, ReplayReturn,
                        replayVars
    <3>2. CopyFits(t)' /\ SinceFits(t)'
      <4>1. CASE ReplayReturn(t)
        BY <4>1, ReplayReturnCopies
      <4>2. CASE ReplayDone(t)
        <5>1. CopyFits(t) /\ SinceFits(t) /\ Complete(copy[t])
              /\ pc[t] = "waiting" /\ pc'[t] = "replayed"
              /\ copy' = copy /\ answer' = answer /\ live' = live /\ log' = log
          BY <4>2 DEF CopiesInv, ReplayDone, Goto, ToolsTypeOK, vars, recorderVars,
                      replayVars
        <5> QED
          BY <5>1 DEF CopyFits, SinceFits, Complete
      <4>3. CASE ReplayDispatched(t)
        <5>1. pc'[t] = "waiting" /\ pc[t] = "dispatching" /\ answer' = answer
          BY <4>3 DEF ReplayDispatched, Goto, ToolsTypeOK, replayVars
        <5> QED
          BY <3>1, <5>1, CopyRests
      <4>4. CASE ReplayRefused(t) \/ ReplayGivenUp(t) \/ ReplayTimeout(t)
        <5>1. pc'[t] = "idle" /\ answer'[t].how # "returned"
          BY <4>4 DEF Refuse, ReplayRefused, ReplayGivenUp, ReplayTimeout, Goto,
                      Answer, ToolsTypeOK, replayVars
        <5> QED
          BY <3>1, <5>1, CopyRests
      <4>5. CASE \/ \E filtered \in BOOLEAN : Start(t, filtered) \/ StartWithout(t, filtered)
                 \/ ListStep(t) \/ StopCount(t) \/ StopClear(t)
        <5>1. /\ answer' = answer
              /\ pc'[t] \notin {"dispatching", "waiting", "replayed"}
          BY <4>5 DEF Start, StartWithout, ListStep, ListBegin, ListOne, Take,
                      ListPass, ListNone, StopCount, StopClear, Goto, ToolsTypeOK,
                      replayVars
        <5> QED
          BY <3>1, <5>1, CopyRests
      <4> QED
        BY <1>2, <2>3, <4>1, <4>2, <4>3, <4>4, <4>5 DEF ClientStep, ReplayStep
    <3>3. \A f \in late' : LateFits(f)'
      BY <1>2, <2>3, LatesStay
    <3> QED
      BY <1>0, <2>1, <3>1, <3>2, <3>3 DEF CopiesInv, SameCopy
  <2> QED
    BY <2>2, <2>3
<1> QED
  BY <1>1, <1>2, <1>3 DEF ToolsNext

\* Each step keeps the types.
LEMMA TypesStep ==
    ASSUME RecorderInv, ToolsTypeOK, CopiesInv, ToolsNext
    PROVE  ToolsTypeOK'
<1>0. /\ nextSince \in Nat /\ Len(log) \in Nat /\ Len(buffer) \in 0 .. MaxFlows
      /\ Replays \subseteq Flows /\ \A e \in Entries : e.at \in Nat /\ e.since \in Nat
      /\ \A k \in DOMAIN buffer : buffer[k] \in Entries
  <2>1. \A e \in Entries : e.at \in Nat /\ e.since \in Nat
    BY DEF Entries
  <2> QED
    BY <2>1, FlowsAssumption DEF RecorderInv, TypeOK
<1>1. CASE HookStep
  <2>1. \A k \in DOMAIN buffer' : buffer'[k] \in Entries
    BY <1>1, StepKeepsInv DEF HookStep, Next, RecorderInv, TypeOK
  <2>2. ASSUME NEW u \in Clients
        PROVE  Updated(page[u], buffer') \subseteq Entries
    BY <2>1 DEF Updated, ToolsTypeOK
  <2> QED
    BY <1>1, <2>2 DEF HookStep, replayVars, ToolsTypeOK
<1>3. ASSUME NEW f \in late, LateReplay(f)
      PROVE  ToolsTypeOK'
  BY <1>3 DEF LateReplay, clientVars, ToolsTypeOK
<1>2. ASSUME NEW t \in Clients, ClientStep(t)
      PROVE  ToolsTypeOK'
  <2>1. ASSUME NEW filtered \in BOOLEAN, Start(t, filtered)
        PROVE  ToolsTypeOK'
    BY <1>0, <2>1 DEF Start, replayVars, ToolsTypeOK
  <2>2. ASSUME NEW filtered \in BOOLEAN, StartWithout(t, filtered)
        PROVE  ToolsTypeOK'
    BY <2>2 DEF StartWithout, replayVars, ToolsTypeOK
  <2>3. CASE ListBegin(t)
    <3>1. Matching(cursor[t]) \subseteq Entries
      BY <1>0 DEF Matching
    <3>2. Limit \in 0 .. Limit
      BY LimitAssumption
    <3> QED
      BY <2>3, <3>1, <3>2 DEF ListBegin, Goto, replayVars, ToolsTypeOK
  <2>4. CASE ListOne(t)
    <3>1. PICK e \in page[t] : Take(t, e, e.since + 1)
      BY <2>4 DEF ListOne
    <3>2. e.at \in Nat /\ e.since + 1 \in Nat /\ page[t] \ {e} \in SUBSET Entries
          /\ seen[t] \cup {e.at} \in SUBSET Nat
      BY <1>0 DEF ToolsTypeOK
    <3>3. PICK left \in {{}, page[t] \ {e}} :
            /\ page' = [page EXCEPT ![t] = left]
            /\ pc' = [pc EXCEPT ![t] = IF left = {} THEN "idle" ELSE "listing"]
      BY <3>1 DEF Take
    <3>4. left \in SUBSET Entries
      BY <3>2
    <3>5. room[t] - 1 \in 0 .. Limit
      BY <3>1, LimitAssumption DEF Take, ToolsTypeOK
    <3> QED
      BY <3>1, <3>2, <3>3, <3>4, <3>5 DEF Take, replayVars, ToolsTypeOK
  <2>13. CASE ListPass(t)
    <3>1. PICK e \in page[t] :
            /\ declined' = [declined EXCEPT ![t] = @ \cup {e.at}]
            /\ page' = [page EXCEPT ![t] = @ \ {e}]
      BY <2>13 DEF ListPass
    <3>2. page[t] \ {e} \in SUBSET Entries /\ declined[t] \cup {e.at} \in SUBSET Nat
      BY <1>0 DEF ToolsTypeOK
    <3> QED
      BY <2>13, <3>1, <3>2 DEF ListPass, replayVars, ToolsTypeOK
  <2>5. CASE ListNone(t)
    BY <1>0, <2>5 DEF ListNone, Goto, ToolsTypeOK, replayVars
  <2>6. CASE StopCount(t)
    BY <1>0, <2>6 DEF StopCount, Goto, clientVars, ToolsTypeOK, replayVars
  <2>7. CASE StopClear(t)
    BY <2>7 DEF StopClear, Goto, ToolsTypeOK, replayVars
  <2>8. ASSUME NEW source \in Flows, NEW fresh \in Replays, Replay(t, source, fresh)
        PROVE  ToolsTypeOK'
    BY <1>0, <2>8 DEF Replay, Goto, Answer, clientVars, ToolsTypeOK
  <2>9. CASE ReplayDispatched(t) \/ ReplayDone(t)
    BY <2>9 DEF ReplayDispatched, ReplayDone, Goto, clientVars, ToolsTypeOK,
                replayVars
  <2>10. CASE ReplayRefused(t)
    BY <2>10 DEF Refuse, ReplayRefused, Goto, Answer, clientVars, ToolsTypeOK
  <2>14. CASE ReplayGivenUp(t)
    <3>1. copy[t] \in Replays
      BY <2>14 DEF ReplayGivenUp, Refuse, Goto, CopiesInv, CopyFits
    <3> QED
      BY <2>14, <3>1 DEF Refuse, ReplayGivenUp, Goto, Answer, clientVars,
                         ToolsTypeOK
  <2>12. CASE ReplayTimeout(t)
    BY <2>12 DEF ReplayTimeout, Goto, Answer, clientVars, ToolsTypeOK, replayVars
  <2>11. CASE ReplayReturn(t)
    <3> DEFINE found == {k \in DOMAIN buffer : buffer[k].id = copy[t]}
               reported == IF found = {} THEN 0 ELSE buffer[CHOOSE k \in found : TRUE].since
    <3>1. reported \in Nat
      BY <1>0
    <3>2. answer' = [answer EXCEPT ![t] = Answer("returned", reported)]
      BY <2>11 DEF ReplayReturn, replayVars
    <3> HIDE DEF reported
    <3> QED
      BY <2>11, <3>1, <3>2 DEF ReplayReturn, Goto, Answer, clientVars, ToolsTypeOK,
                               replayVars
  <2> QED
    BY <1>2, <2>1, <2>2, <2>3, <2>4, <2>5, <2>6, <2>7, <2>8, <2>9, <2>10, <2>11,
       <2>12, <2>13, <2>14
       DEF ClientStep, ListStep, ReplayStep
<1> QED
  BY <1>1, <1>2, <1>3 DEF ToolsNext

\* Together they are inductive under the tools.
ToolsInv == RecorderInv /\ ToolsTypeOK /\ TailInv /\ CopiesInv

\* The tools start in their invariant.
LEMMA ToolsBegin ==
    ASSUME ToolsInit
    PROVE  ToolsInv
<1>1. Init
  BY DEF ToolsInit
<1>2. RecorderInv
  BY <1>1, InitInv
<1>3. ToolsTypeOK
  <2>1. MaxFlows \in Nat /\ Limit \in Nat
    BY MaxFlowsAssumption, LimitAssumption
  <2> QED
    BY <2>1 DEF ToolsInit, ToolsTypeOK, Answer
<1>4. TailInv
  BY DEF ToolsInit, TailInv, TailFits, SeenIsPassed, PassedIsSeen, PageOnce, Tails
<1>5. CopiesInv
  BY NobodyAssumption, FlowsAssumption DEF ToolsInit, CopiesInv, CopyFits,
                                           SinceFits, SameCopy, Answer
<1> QED
  BY <1>2, <1>3, <1>4, <1>5 DEF ToolsInv

\* Every step of the tools keeps it.
LEMMA ToolsStep ==
    ASSUME ToolsInv, [ToolsNext]_allVars
    PROVE  ToolsInv'
<1>1. CASE ToolsNext
  <2>1. RecorderInv' /\ ToolsTypeOK' /\ CopiesInv'
    BY <1>1, ToolsKeepRecorder, TypesStep, CopiesStep DEF ToolsInv
  <2>2. TailInv'
    BY <1>1, <2>1, TailStep DEF ToolsInv
  <2> QED
    BY <2>1, <2>2 DEF ToolsInv
<1>2. CASE UNCHANGED allVars
  <2>1. RecorderInv'
    BY <1>2 DEF ToolsInv, RecorderInv, TypeOK, BufferIsRecentLog, IndexCoversBuffer,
                Full, vars, recorderVars, allVars
  <2>2. ToolsTypeOK'
    BY <1>2 DEF ToolsInv, ToolsTypeOK, allVars, toolVars, clientVars, replayVars
  <2>3. ASSUME NEW t \in Clients
        PROVE  TailFits(t)'
    BY <1>2, TailRests DEF ToolsInv, TailInv, allVars, vars, toolVars, clientVars,
                           replayVars
  <2>4. CopiesInv'
    BY <1>2 DEF ToolsInv, CopiesInv, CopyFits, SinceFits, SameCopy, LateFits,
                allVars, vars, recorderVars, toolVars, replayVars
  <2> QED
    BY <2>1, <2>2, <2>3, <2>4 DEF ToolsInv, TailInv
<1> QED
  BY <1>1, <1>2

\* The invariant of the tools and of the recorder under them.
LEMMA ToolsInductive == ToolsSpec => []ToolsInv
<1>1. ToolsInit => ToolsInv
  BY ToolsBegin
<1>2. ToolsInv /\ [ToolsNext]_allVars => ToolsInv'
  BY ToolsStep
<1> QED
  BY <1>1, <1>2, PTL DEF ToolsSpec

\* The tools' state is well typed: what they count, select and report included.
THEOREM ToolsAreTyped == ToolsSpec => []ToolsTypeOK
<1>1. ToolsInv => ToolsTypeOK
  BY DEF ToolsInv
<1> QED
  BY <1>1, ToolsInductive, PTL

\* The recorder keeps its invariant when clients list, clear and replay over it.
THEOREM RecorderUnderTools == ToolsSpec => []RecorderInv
<1>1. ToolsInv => RecorderInv
  BY DEF ToolsInv
<1> QED
  BY <1>1, ToolsInductive, PTL

\* No flow stays in the buffer without its answer, when clients clear and replay
\* over the recorder.
THEOREM AnswersKeptUnderTools == ToolsSpec => []AnswersAreRecorded
<1>1. ToolsInit => AnswersAreRecorded
  BY DEF ToolsInit, Init, AnswersAreRecorded
<1>2. ASSUME ToolsInv, AnswersAreRecorded, [ToolsNext]_allVars
      PROVE  AnswersAreRecorded'
  <2>0. RecorderInv /\ live \in [Flows -> LiveStates]
    BY <1>2 DEF ToolsInv, RecorderInv, TypeOK
  <2>1. CASE HookStep \/ UNCHANGED allVars
    BY <1>2, <2>0, <2>1, StepKeepsAnswers DEF HookStep, Next, allVars
  <2>3. ASSUME NEW f \in late, LateReplay(f)
        PROVE  AnswersAreRecorded'
    <3>1. UNCHANGED recorderVars /\ live' = [live EXCEPT ![f] = "dispatched"]
      BY <2>3 DEF LateReplay
    <3>2. \A g \in Flows : live'[g] = "over" => live[g] = "over"
      BY <2>0, <3>1
    <3> QED
      BY <1>2, <3>1, <3>2 DEF AnswersAreRecorded, recorderVars
  <2>2. ASSUME NEW t \in Clients, ClientStep(t)
        PROVE  AnswersAreRecorded'
    <3>1. CASE StopClear(t)
      BY <1>2, <2>0, <3>1, StepKeepsAnswers DEF StopClear, Next, replayVars
    <3>2. CASE ~StopClear(t)
      <4>1. UNCHANGED recorderVars
        BY <2>2, <3>2, ToolAlone
      <4>2. \A f \in Flows : live'[f] = "over" => live[f] = "over"
        <5>1. CASE ReplayDispatched(t)
          BY <2>0, <5>1 DEF ReplayDispatched, replayVars
        <5>2. CASE ~ReplayDispatched(t)
          <6>1. UNCHANGED live
            BY <2>2, <3>2, <5>2 DEF ClientStep, ListStep, ReplayStep, Start,
                                    StartWithout, ListBegin, ListOne, Take,
                                    ListPass, ListNone, StopCount, Replay, Refuse,
                                    ReplayRefused, ReplayGivenUp, ReplayDone,
                                    ReplayTimeout, ReplayReturn, vars, replayVars
          <6> QED
            BY <6>1
        <5> QED
          BY <5>1, <5>2
      <4> QED
        BY <1>2, <4>1, <4>2 DEF AnswersAreRecorded, recorderVars
    <3> QED
      BY <3>1, <3>2
  <2> QED
    BY <1>2, <2>1, <2>2, <2>3 DEF ToolsNext
<1> QED
  BY <1>1, <1>2, ToolsInductive, PTL DEF ToolsSpec

\* A replay that returns has been answered, and reports a since of its own copy.
THEOREM ReplaysAreAnswered == ToolsSpec => []ReplayIsAnswered
<1>1. ToolsInv => ReplayIsAnswered
  BY DEF ToolsInv, CopiesInv, CopyFits, SinceFits, ReplayIsAnswered
<1> QED
  BY <1>1, ToolsInductive, PTL

\* What the cursor of a tail has passed was returned to it.
LEMMA NothingMissed ==
    ASSUME ToolsInv
    PROVE  TailMissesNothing
<1>1. Len(buffer) \in Nat /\ DOMAIN buffer = 1 .. Len(buffer)
  BY DEF ToolsInv, RecorderInv, TypeOK
<1>2. ASSUME NEW t \in Clients, begun[t] = "start"
      PROVE  Missed(t) \subseteq IF byStatus[t] THEN declined[t] ELSE {}
  <2>1. cursor[t] # NoCursor /\ PassedIsSeen(t)
    BY <1>2, NoCursorAssumption DEF ToolsInv, TailInv, TailFits, SeenIsPassed
  <2> QED
    BY <1>1, <1>2, <2>1 DEF PassedIsSeen, Settled, Missed
<1> QED
  BY <1>2 DEF TailMissesNothing

\* What a page selects is ahead of everything that was returned.
LEMMA SelectionIsNew ==
    ASSUME ToolsInv, NEW t \in Clients, ListBegin(t), begun[t] # "cut",
           NEW e \in page'[t]
    PROVE  e.at \notin seen[t]
<1>0. RecorderInv /\ ToolsTypeOK /\ TailFits(t) /\ NoCursor \notin Nat
  BY NoCursorAssumption DEF ToolsInv, TailInv
<1>1. Tails(t)
  BY <1>0 DEF ListBegin, Tails, ToolsTypeOK
<1>2. page'[t] = Matching(cursor[t])
  BY <1>0 DEF ListBegin, ToolsTypeOK
<1>3. PICK k \in DOMAIN buffer : e = buffer[k] /\ Matches(buffer[k], cursor[t])
  BY <1>2 DEF Matching
<1>4. e.at = cleared + e.since + 1 /\ cleared \in Nat /\ e.since \in Nat
      /\ cursor[t] \in Nat \cup {NoCursor} /\ seen[t] \subseteq Nat
  BY <1>0, <1>3, ClientTyped
<1>5. cursor[t] # NoCursor => e.since >= cursor[t]
  BY <1>3 DEF Matches
<1>6. \A n \in seen[t] : cursor[t] # NoCursor /\ n <= cleared + cursor[t]
  BY <1>0, <1>1 DEF TailFits, SeenIsPassed
<1> QED
  BY <1>4, <1>5, <1>6

\* A call starts to list by taking a snapshot, and no other way.
LEMMA OnlyListBeginSelects ==
    ASSUME ToolsTypeOK, [ToolsNext]_allVars, NEW t \in Clients,
           pc[t] = "idle", pc'[t] = "listing"
    PROVE  ListBegin(t)
<1>1. pc' # pc
  OBVIOUS
<1>2. PICK u \in Clients : ClientStep(u)
  BY <1>1 DEF ToolsNext, HookStep, LateReplay, allVars, toolVars, replayVars
<1>3. CASE u # t
  <2>1. pc'[t] = pc[t]
    BY <1>2, <1>3 DEF ClientStep, ListStep, ReplayStep, Start, StartWithout,
                      ListBegin, ListOne, Take, ListPass, ListNone, StopCount,
                      StopClear, Replay, ReplayDispatched, Refuse, ReplayRefused,
                      ReplayGivenUp, ReplayDone, ReplayTimeout, ReplayReturn, Goto,
                      ToolsTypeOK, replayVars
  <2> QED
    BY <2>1
<1>4. CASE u = t
  <2>1. /\ ~(\E filtered \in BOOLEAN : Start(t, filtered) \/ StartWithout(t, filtered))
        /\ ~(ListOne(t) \/ ListPass(t) \/ ListNone(t) \/ StopCount(t) \/ StopClear(t))
    BY DEF Start, StartWithout, ListOne, Take, ListPass, ListNone, StopCount,
           StopClear, Goto, ToolsTypeOK, replayVars
  <2>2. ~ReplayStep(t)
    BY DEF ReplayStep, Replay, ReplayDispatched, Refuse, ReplayRefused,
           ReplayGivenUp, ReplayDone, ReplayTimeout, ReplayReturn, Goto,
           ToolsTypeOK, replayVars
  <2> QED
    BY <1>2, <1>4, <2>1, <2>2 DEF ClientStep, ListStep
<1> QED
  BY <1>3, <1>4

\* A tail is exact: it passes over no wanted flow that is still buffered, except that
\* a status filter passes over one that had no such response when it was looked at, and
\* lists none twice, in whatever order hooks, pages, other clients and clears come.
THEOREM TailsAreExact == ToolsSpec => TailIsExact
<1>1. ToolsInv' => TailMissesNothing'
  BY NothingMissed, PTL
<1>2. ToolsInv /\ [ToolsNext]_allVars => NothingTwice
  <2> SUFFICES ASSUME ToolsInv, [ToolsNext]_allVars, NEW t \in Clients, begun[t] # "cut",
                      pc[t] = "idle", pc'[t] = "listing", NEW e \in page'[t]
               PROVE  e.at \notin seen[t]
    BY DEF NothingTwice
  <2>1. ListBegin(t)
    BY OnlyListBeginSelects DEF ToolsInv
  <2> QED
    BY <2>1, SelectionIsNew
<1>3. ToolsInv /\ ToolsInv' /\ [ToolsNext]_allVars
          => [TailMissesNothing' /\ NothingTwice]_allVars
  BY <1>1, <1>2
<1> QED
  BY <1>3, ToolsInductive, PTL DEF ToolsSpec, TailIsExact
=============================================================================
