--------------------------- MODULE TorToolProofs ----------------------------
(***************************************************************************)
(* Invariants of the components that reach the network: the SOCKS tunnel,  *)
(* the exit policy, requests over Tor and the cache of geckodriver.  Each  *)
(* has its inductive invariant, with the type invariant, and a lemma of    *)
(* its name that every step keeps each conjunct.                           *)
(***************************************************************************)
EXTENDS SocksTunnel, TorRouting, HttpOverTor, GeckoCache, TLAPS

-----------------------------------------------------------------------------
(* SocksTunnel: one CONNECT                                                *)

\* The steps of the handler before it relays, and those after.
BeforeSplice == {"request", "headers", "authority", "dial", "wrap", "confirm"}
AfterSplice == {"closing", "over"}

\* The client has been answered once the handler is past talking, unless an error that
\* was not expected ended it before it had, and what was opened for it is closed on the
\* way out.
AnswersFit ==
    /\ tunnel \in BeforeSplice => answers = <<>> /\ shut = {} /\ ~raised
    /\ tunnel = "splice" => answers = <<200>> /\ shut = {} /\ ~raised
    /\ tunnel \in AfterSplice /\ raised => answers = <<>>
    /\ tunnel \in AfterSplice /\ ~raised => \E code \in {200, 400, 502} : answers = <<code>>
    /\ tunnel \in {"request", "headers", "authority", "dial"} => ending["upstream"] = "none"
    /\ tunnel \in AfterSplice /\ ending["upstream"] # "none" => "upstream" \in shut
    /\ tunnel = "over" => "client" \in shut

\* A direction runs behind a 200, and ends with the end it reads from or with a reset.
DirectionsFit ==
    /\ tunnel \in AfterSplice /\ answers = <<200>> =>
          ending["client"] = "reset" \/ \A e \in Ends : splice[e] \in {"done", "failed"}
    /\ \A e \in Ends :
          /\ splice[e] = "off" => relayed[e] = 0
          /\ splice[e] # "off" => answers = <<200>> /\ tunnel \notin BeforeSplice
          /\ finished[Other(e)] => splice[e] \in {"done", "failed"}
          /\ splice[e] = "done" /\ ending[e] # "reset" => ending[e] = "ended" /\ relayed[e] = queued[e]
          /\ splice[e] = "failed" => \E f \in Ends : ending[f] = "reset"

\* The inductive invariant of the tunnel.
TunnelInv == TunnelTypeOK /\ AnswersFit /\ DirectionsFit

\* There are two ends, and each is the other of the other.
LEMMA EndsFacts ==
    /\ "client" \in Ends /\ "upstream" \in Ends
    /\ \A e \in Ends : Other(e) \in Ends /\ Other(Other(e)) = e /\ Other(e) # e
    /\ \A e, f \in Ends : f = e \/ f = Other(e)
BY DEF Ends, Other

\* What is sent first is all that has been sent.
LEMMA AppendFirst == \A code : Append(<<>>, code) = <<code>>
OBVIOUS

\* Every step keeps the types.
LEMMA TunnelTyped ==
    ASSUME TunnelTypeOK, TunnelNext
    PROVE  TunnelTypeOK'
<1>1. /\ Append(answers, 200) \in Seq({200, 400, 502})
      /\ Append(answers, 400) \in Seq({200, 400, 502})
      /\ Append(answers, 502) \in Seq({200, 400, 502})
  BY DEF TunnelTypeOK
<1>2. "client" \in Ends /\ "upstream" \in Ends
  BY EndsFacts
<1>3. ASSUME NEW e \in Ends, PeerSends(e)
      PROVE  TunnelTypeOK'
  BY <1>3, <1>1, <1>2, MaxChunksAssumption DEF TunnelTypeOK, PeerSends
<1>4. ASSUME NEW e \in Ends, PeerEnds(e)
      PROVE  TunnelTypeOK'
  BY <1>4, <1>1, <1>2 DEF TunnelTypeOK, PeerEnds
<1>5. ASSUME NEW e \in Ends, PeerResets(e)
      PROVE  TunnelTypeOK'
  BY <1>5, <1>1, <1>2 DEF TunnelTypeOK, PeerResets
<1>6. CASE ReadLine
  BY <1>6, <1>1, <1>2 DEF TunnelTypeOK, ReadLine, Answer
<1>7. CASE DrainHeaders
  BY <1>7, <1>1, <1>2 DEF TunnelTypeOK, DrainHeaders
<1>8. CASE CheckLine
  <2>1. answers' = answers \/ answers' = Append(answers, 400)
    BY <1>8 DEF CheckLine, Answer
  <2>2. answers' \in Seq({200, 400, 502})
    <3>1. answers \in Seq({200, 400, 502})
      BY DEF TunnelTypeOK
    <3> QED
      BY <2>1, <3>1, <1>1
  <2>3. tunnel' \in {"dial", "closing"}
    BY <1>8 DEF CheckLine
  <2> QED
    BY <1>8, <2>2, <2>3 DEF TunnelTypeOK, CheckLine
<1>9. CASE Dial
  <2>1. ending' \in [Ends -> {"none", "open", "ended", "reset"}]
    BY <1>9, <1>1, <1>2 DEF Dial, TunnelTypeOK
  <2>2. answers' \in Seq({200, 400, 502})
    <3>1. answers' = answers \/ answers' = Append(answers, 502)
      BY <1>9 DEF Dial, Answer
    <3>2. answers \in Seq({200, 400, 502})
      BY DEF TunnelTypeOK
    <3> QED
      BY <3>1, <3>2, <1>1
  <2> QED
    BY <1>9, <2>1, <2>2 DEF Dial, TunnelTypeOK
<1>10. CASE Wrap
  <2>1. answers' \in Seq({200, 400, 502})
    <3>1. answers' = answers \/ answers' = Append(answers, 502)
      BY <1>10 DEF Wrap, Answer
    <3>2. answers \in Seq({200, 400, 502})
      BY DEF TunnelTypeOK
    <3> QED
      BY <3>1, <3>2, <1>1
  <2>2. shut' \subseteq Ends
    BY <1>10, <1>2 DEF TunnelTypeOK, Wrap
  <2> QED
    BY <1>10, <2>1, <2>2 DEF TunnelTypeOK, Wrap
<1>11. CASE Confirm
  BY <1>11, <1>1, <1>2 DEF TunnelTypeOK, Confirm, Answer
<1>12. ASSUME NEW e \in Ends, SpliceRead(e)
      PROVE  TunnelTypeOK'
  <2>1. \A n \in relayed[e] + 1 .. queued[e] : n \in 0..MaxChunks
    BY MaxChunksAssumption DEF TunnelTypeOK
  <2>2. Other(e) \in Ends
    BY EndsFacts
  <2>3. relayed' \in [Ends -> 0..MaxChunks]
    BY <1>12, <2>1 DEF SpliceRead, TunnelTypeOK
  <2>4. finished' \in [Ends -> BOOLEAN]
    BY <1>12, <2>2 DEF SpliceRead, SpliceEnds, TunnelTypeOK
  <2>5. splice' \in [Ends -> {"off", "read", "drain", "done", "failed"}]
    <3>1. \E how \in {"drain", "done", "failed"} : splice' = [splice EXCEPT ![e] = how]
      BY <1>12 DEF SpliceRead, SpliceEnds
    <3> QED
      BY <3>1 DEF TunnelTypeOK
  <2> QED
    BY <1>12, <2>3, <2>4, <2>5 DEF SpliceRead, TunnelTypeOK
<1>13. ASSUME NEW e \in Ends, SpliceDrain(e)
      PROVE  TunnelTypeOK'
  <2>1. Other(e) \in Ends
    BY EndsFacts
  <2>2. finished' \in [Ends -> BOOLEAN]
    BY <1>13, <2>1 DEF SpliceDrain, SpliceEnds, TunnelTypeOK
  <2>3. splice' \in [Ends -> {"off", "read", "drain", "done", "failed"}]
    <3>1. \E how \in {"read", "failed"} : splice' = [splice EXCEPT ![e] = how]
      BY <1>13 DEF SpliceDrain, SpliceEnds
    <3> QED
      BY <3>1 DEF TunnelTypeOK
  <2> QED
    BY <1>13, <2>2, <2>3 DEF SpliceDrain, TunnelTypeOK
<1>14. CASE JoinBoth
  BY <1>14, <1>1, <1>2 DEF TunnelTypeOK, JoinBoth
<1>15. CASE CloseClient
  BY <1>15, <1>1, <1>2 DEF TunnelTypeOK, CloseClient
<1>16. CASE Unexpected
  BY <1>16 DEF TunnelTypeOK, Unexpected
<1> QED
  BY <1>3, <1>4, <1>5, <1>6, <1>7, <1>8, <1>9, <1>10, <1>11, <1>12, <1>13, <1>14,
     <1>15, <1>16
     DEF TunnelNext

\* Every step keeps AnswersFit: each exit of the handler answers once, and closes.
LEMMA AnswersFitStep ==
    ASSUME TunnelTypeOK, AnswersFit, DirectionsFit, TunnelNext
    PROVE  AnswersFit'
<1>1. ASSUME NEW e \in Ends, PeerSends(e)
      PROVE  AnswersFit'
  BY <1>1, EndsFacts, AppendFirst DEF TunnelTypeOK, AnswersFit, DirectionsFit,
                                      BeforeSplice, AfterSplice, PeerSends
<1>2. ASSUME NEW e \in Ends, PeerEnds(e)
      PROVE  AnswersFit'
  BY <1>2, EndsFacts, AppendFirst DEF TunnelTypeOK, AnswersFit, DirectionsFit,
                                      BeforeSplice, AfterSplice, PeerEnds
<1>3. ASSUME NEW e \in Ends, PeerResets(e)
      PROVE  AnswersFit'
  BY <1>3, EndsFacts, AppendFirst DEF TunnelTypeOK, AnswersFit, DirectionsFit,
                                      BeforeSplice, AfterSplice, PeerResets
<1>4. CASE ReadLine
  BY <1>4, EndsFacts, AppendFirst DEF TunnelTypeOK, AnswersFit, DirectionsFit,
                                      BeforeSplice, AfterSplice, ReadLine, Answer
<1>5. CASE DrainHeaders
  BY <1>5, EndsFacts, AppendFirst DEF TunnelTypeOK, AnswersFit, DirectionsFit,
                                      BeforeSplice, AfterSplice, DrainHeaders
<1>6. CASE CheckLine
  BY <1>6, EndsFacts, AppendFirst DEF TunnelTypeOK, AnswersFit, DirectionsFit,
                                      BeforeSplice, AfterSplice, CheckLine, Answer
<1>7. CASE Dial
  BY <1>7, EndsFacts, AppendFirst DEF TunnelTypeOK, AnswersFit, DirectionsFit,
                                      BeforeSplice, AfterSplice, Dial, Answer
<1>8. CASE Wrap
  BY <1>8, EndsFacts, AppendFirst DEF TunnelTypeOK, AnswersFit, DirectionsFit,
                                      BeforeSplice, AfterSplice, Wrap, Answer
<1>9. CASE Confirm
  BY <1>9, EndsFacts, AppendFirst DEF TunnelTypeOK, AnswersFit, DirectionsFit,
                                      BeforeSplice, AfterSplice, Confirm, Answer
<1>10. ASSUME NEW e \in Ends, SpliceRead(e)
      PROVE  AnswersFit'
  BY <1>10, EndsFacts, AppendFirst DEF TunnelTypeOK, AnswersFit, DirectionsFit,
                                       BeforeSplice, AfterSplice, SpliceRead,
                                       SpliceEnds
<1>11. ASSUME NEW e \in Ends, SpliceDrain(e)
      PROVE  AnswersFit'
  BY <1>11, EndsFacts, AppendFirst DEF TunnelTypeOK, AnswersFit, DirectionsFit,
                                       BeforeSplice, AfterSplice, SpliceDrain,
                                       SpliceEnds
<1>12. CASE JoinBoth
  BY <1>12, EndsFacts, AppendFirst DEF TunnelTypeOK, AnswersFit, DirectionsFit,
                                       BeforeSplice, AfterSplice, JoinBoth
<1>13. CASE CloseClient
  BY <1>13, EndsFacts, AppendFirst DEF TunnelTypeOK, AnswersFit, DirectionsFit,
                                       BeforeSplice, AfterSplice, CloseClient
<1>14. CASE Unexpected
  BY <1>14, EndsFacts DEF TunnelTypeOK, AnswersFit, DirectionsFit, BeforeSplice,
                          AfterSplice, Unexpected
<1> QED
  BY <1>1, <1>2, <1>3, <1>4, <1>5, <1>6, <1>7, <1>8, <1>9, <1>10, <1>11, <1>12,
     <1>13, <1>14
     DEF TunnelNext

\* Every step keeps DirectionsFit, the two directions interleaving as they may.
LEMMA DirectionsFitStep ==
    ASSUME TunnelTypeOK, AnswersFit, DirectionsFit, TunnelNext
    PROVE  DirectionsFit'
<1>1. ASSUME NEW e \in Ends, PeerSends(e)
      PROVE  DirectionsFit'
  BY <1>1, EndsFacts, AppendFirst DEF TunnelTypeOK, AnswersFit, DirectionsFit,
                                      BeforeSplice, AfterSplice, PeerSends
<1>2. ASSUME NEW e \in Ends, PeerEnds(e)
      PROVE  DirectionsFit'
  BY <1>2, EndsFacts, AppendFirst DEF TunnelTypeOK, AnswersFit, DirectionsFit,
                                      BeforeSplice, AfterSplice, PeerEnds
<1>3. ASSUME NEW e \in Ends, PeerResets(e)
      PROVE  DirectionsFit'
  BY <1>3, EndsFacts, AppendFirst DEF TunnelTypeOK, AnswersFit, DirectionsFit,
                                      BeforeSplice, AfterSplice, PeerResets
<1>4. CASE ReadLine
  BY <1>4, EndsFacts, AppendFirst DEF TunnelTypeOK, AnswersFit, DirectionsFit,
                                      BeforeSplice, AfterSplice, ReadLine, Answer
<1>5. CASE DrainHeaders
  BY <1>5, EndsFacts, AppendFirst DEF TunnelTypeOK, AnswersFit, DirectionsFit,
                                      BeforeSplice, AfterSplice, DrainHeaders
<1>6. CASE CheckLine
  BY <1>6, EndsFacts, AppendFirst DEF TunnelTypeOK, AnswersFit, DirectionsFit,
                                      BeforeSplice, AfterSplice, CheckLine, Answer
<1>7. CASE Dial
  BY <1>7, EndsFacts, AppendFirst DEF TunnelTypeOK, AnswersFit, DirectionsFit,
                                      BeforeSplice, AfterSplice, Dial, Answer
<1>8. CASE Wrap
  BY <1>8, EndsFacts, AppendFirst DEF TunnelTypeOK, AnswersFit, DirectionsFit,
                                      BeforeSplice, AfterSplice, Wrap, Answer
<1>9. CASE Confirm
  BY <1>9, EndsFacts, AppendFirst DEF TunnelTypeOK, AnswersFit, DirectionsFit,
                                      BeforeSplice, AfterSplice, Confirm, Answer
<1>10. ASSUME NEW e \in Ends, SpliceRead(e)
      PROVE  DirectionsFit'
  BY <1>10, EndsFacts, AppendFirst DEF TunnelTypeOK, AnswersFit, DirectionsFit,
                                       BeforeSplice, AfterSplice, SpliceRead,
                                       SpliceEnds
<1>11. ASSUME NEW e \in Ends, SpliceDrain(e)
      PROVE  DirectionsFit'
  BY <1>11, EndsFacts, AppendFirst DEF TunnelTypeOK, AnswersFit, DirectionsFit,
                                       BeforeSplice, AfterSplice, SpliceDrain,
                                       SpliceEnds
<1>12. CASE JoinBoth
  BY <1>12, EndsFacts, AppendFirst DEF TunnelTypeOK, AnswersFit, DirectionsFit,
                                       BeforeSplice, AfterSplice, JoinBoth
<1>13. CASE CloseClient
  BY <1>13, EndsFacts, AppendFirst DEF TunnelTypeOK, AnswersFit, DirectionsFit,
                                       BeforeSplice, AfterSplice, CloseClient
<1>14. CASE Unexpected
  <2>1. /\ tunnel \in BeforeSplice /\ answers = <<>> /\ answers' = answers
        /\ ending' = ending /\ splice' = splice /\ relayed' = relayed
        /\ finished' = finished /\ queued' = queued
    BY <1>14 DEF Unexpected, AnswersFit, BeforeSplice
  <2>2. \A e \in Ends : splice[e] = "off"
    BY <2>1, AppendFirst DEF DirectionsFit, TunnelTypeOK
  <2> QED
    BY <2>1, <2>2, EndsFacts DEF DirectionsFit, TunnelTypeOK
<1> QED
  BY <1>1, <1>2, <1>3, <1>4, <1>5, <1>6, <1>7, <1>8, <1>9, <1>10, <1>11, <1>12,
     <1>13, <1>14
     DEF TunnelNext

\* A tunnel is well typed and ends whole: TunnelEndsWhole follows from the invariant.
LEMMA TunnelKept == TunnelInit /\ [][TunnelNext]_tunnelVars => [](TunnelTypeOK /\ TunnelEndsWhole)
<1>1. TunnelInit => TunnelInv
  <2>1. TunnelInit => TunnelTypeOK
    <3>1. <<>> \in Seq({200, 400, 502}) /\ 0 \in 0..MaxChunks
      BY MaxChunksAssumption
    <3>3. [e \in Ends |-> IF e = "client" THEN "open" ELSE "none"]
             \in [Ends -> {"none", "open", "ended", "reset"}]
      OBVIOUS
    <3> SUFFICES ASSUME TunnelInit
                 PROVE  TunnelTypeOK
      OBVIOUS
    <3>4. answers \in Seq({200, 400, 502})
      BY <3>1 DEF TunnelInit
    <3>5. ending \in [Ends -> {"none", "open", "ended", "reset"}]
      BY <3>3 DEF TunnelInit
    <3>6. queued \in [Ends -> 0..MaxChunks] /\ relayed \in [Ends -> 0..MaxChunks]
      BY <3>1 DEF TunnelInit
    <3>7. /\ splice \in [Ends -> {"off", "read", "drain", "done", "failed"}]
          /\ finished \in [Ends -> BOOLEAN]
      BY DEF TunnelInit
    <3>8. tunnel = "request" /\ shut = {} /\ raised = FALSE
      BY DEF TunnelInit
    <3> QED
      BY <3>4, <3>5, <3>6, <3>7, <3>8 DEF TunnelTypeOK
  <2>2. TunnelInit => AnswersFit
    BY EndsFacts DEF TunnelInit, AnswersFit, BeforeSplice, AfterSplice
  <2>3. TunnelInit => DirectionsFit
    BY EndsFacts DEF TunnelInit, DirectionsFit, BeforeSplice, AfterSplice
  <2> QED
    BY <2>1, <2>2, <2>3 DEF TunnelInv
<1>2. TunnelInv /\ [TunnelNext]_tunnelVars => TunnelInv'
  <2>1. TunnelInv /\ UNCHANGED tunnelVars => TunnelInv'
    BY DEF tunnelVars, TunnelInv, TunnelTypeOK, AnswersFit, DirectionsFit
  <2> QED
    BY <2>1, TunnelTyped, AnswersFitStep, DirectionsFitStep DEF TunnelInv
<1>3. TunnelInv => TunnelEndsWhole
  <2>1. TunnelInv => NothingIsCutShort
    BY EndsFacts DEF NothingIsCutShort, TunnelInv, TunnelTypeOK, AnswersFit,
                     DirectionsFit, BeforeSplice, AfterSplice
  <2>2. TunnelInv => TunnelLeavesNothing
    BY EndsFacts DEF TunnelLeavesNothing, TunnelInv, TunnelTypeOK, AnswersFit,
                     DirectionsFit, BeforeSplice, AfterSplice
  <2> QED
    BY <2>1, <2>2 DEF TunnelEndsWhole
<1> QED
  BY <1>1, <1>2, <1>3, PTL DEF TunnelInv

-----------------------------------------------------------------------------
(* TorRouting: the exit policy                                             *)

\* Calls.
RoutingCalls == [step : {"idle", "read", "readStrict", "set", "setStrict", "reset", "done", "failed"},
               exits : Exits, strict : BOOLEAN, was : Policies,
               alone : BOOLEAN, blind : SUBSET {"exits", "strict"}]

\* What a call in flight asks for is of the round, and one of them that has still to
\* set an option may; once none has, the option is as one of the round asked.
RoundIsAsked ==
    /\ \A t \in Routing : \E r \in round : r.exits = routing[t].exits /\ r.strict = routing[t].strict
    /\ \A t \in Threads : routing[t].step = "reset" => routing[t].exits = 0 /\ routing[t].strict = FALSE
    /\ round # {} =>
          /\ exitNodes = base.exits \/ \E r \in round : r.exits = exitNodes
          /\ strictNodes = base.strict \/ \E r \in round : r.strict = strictNodes
          /\ \/ roundFailed \/ \E r \in round : r.exits = exitNodes
             \/ \E t \in Threads : routing[t].step \in {"read", "readStrict", "set", "reset"}
          /\ \/ roundFailed \/ \E r \in round : r.strict = strictNodes
             \/ \E t \in Threads : routing[t].step \in {"read", "readStrict", "set", "setStrict", "reset"}

\* A round of one call is between what was in force and what it asks for, exits first.
RoundOfOne ==
    \A r \in round : round = {r} =>
       /\ InForce \in {r, base, Policy(r.exits, base.strict)}
       /\ \A t \in Threads : routing[t].step = "setStrict" => exitNodes = r.exits

\* Nothing changes the policy behind a call that is alone.
LoneCallReads ==
    /\ \A t, u \in Routing : routing[t].alone => u = t
    /\ \A t \in Routing : routing[t].alone =>
          /\ routing[t].step \in {"read", "readStrict"} =>
                base.exits = exitNodes /\ base.strict = strictNodes
          /\ routing[t].step # "read" /\ routing[t].exits # 0 /\ "exits" \notin routing[t].blind =>
                routing[t].was.exits = base.exits
          /\ routing[t].step \notin {"read", "readStrict"} /\ routing[t].exits # 0
                /\ "strict" \notin routing[t].blind =>
                routing[t].was.strict = base.strict

\* The type of everything but the calls.
PolicyTypeOK ==
    /\ exitNodes \in Exits /\ strictNodes \in BOOLEAN
    /\ routings \in 0..MaxRoutings /\ roundFailed \in BOOLEAN
    /\ round \subseteq Policies /\ base \in Policies

\* The type invariant in two parts, now and after a step.
LEMMA RoutingTyped ==
    /\ RoutingTypeOK <=> PolicyTypeOK /\ routing \in [Threads -> RoutingCalls]
    /\ RoutingTypeOK' <=> PolicyTypeOK' /\ routing' \in [Threads -> RoutingCalls]
BY DEF RoutingTypeOK, PolicyTypeOK, RoutingCalls

\* What a call learns keeps the types.
LEMMA LearnTyped ==
    ASSUME RoutingTypeOK, NEW t \in Threads, NEW was \in Policies,
           NEW step \in {"readStrict", "set"}, NEW failed \in SUBSET {"exits", "strict"},
           Learn(t, step, was, failed)
    PROVE  RoutingTypeOK'
<1>1. routing \in [Threads -> RoutingCalls] /\ PolicyTypeOK
  BY RoutingTyped
<1> DEFINE c == [routing[t] EXCEPT !.step = step, !.was = was,
                                  !.blind = routing[t].blind \cup failed]
<1>2. c \in RoutingCalls
  BY <1>1 DEF RoutingCalls
<1>3. routing' = [routing EXCEPT ![t] = c]
  BY DEF Learn
<1>4. PolicyTypeOK'
  BY <1>1 DEF Learn, PolicyTypeOK
<1> QED
  BY <1>1, <1>2, <1>3, <1>4, RoutingTyped

\* What changes as a call learns something: its step, what it read and what it could not.
LEMMA LearnFacts ==
    ASSUME routing \in [Threads -> RoutingCalls], NEW t \in Threads, NEW was,
           NEW step, NEW failed, Learn(t, step, was, failed)
    PROVE  /\ routing'[t].step = step /\ routing'[t].was = was
           /\ routing'[t].blind = routing[t].blind \cup failed
           /\ routing'[t].exits = routing[t].exits /\ routing'[t].strict = routing[t].strict
           /\ routing'[t].alone = routing[t].alone
           /\ \A u \in Threads : u # t => routing'[u] = routing[u]
           /\ exitNodes' = exitNodes /\ strictNodes' = strictNodes /\ round' = round
           /\ base' = base /\ roundFailed' = roundFailed
<1> DEFINE c == [routing[t] EXCEPT !.step = step, !.was = was,
                                  !.blind = routing[t].blind \cup failed]
<1>1. routing' = [routing EXCEPT ![t] = c]
  BY DEF Learn
<1>2. routing[t] \in RoutingCalls
  OBVIOUS
<1>3. /\ c.step = step /\ c.was = was /\ c.blind = routing[t].blind \cup failed
      /\ c.exits = routing[t].exits /\ c.strict = routing[t].strict
      /\ c.alone = routing[t].alone
  BY <1>2 DEF RoutingCalls
<1>4. routing'[t] = c /\ \A u \in Threads : u # t => routing'[u] = routing[u]
  BY <1>1
<1>5. /\ exitNodes' = exitNodes /\ strictNodes' = strictNodes /\ round' = round
      /\ base' = base /\ roundFailed' = roundFailed
  BY DEF Learn
<1> QED
  BY <1>3, <1>4, <1>5

\* Every step keeps the types.
LEMMA RoutingType ==
    ASSUME RoutingTypeOK, RoutingNext
    PROVE  RoutingTypeOK'
<1>1. routing \in [Threads -> RoutingCalls] /\ PolicyTypeOK
  BY RoutingTyped
<1>2. ASSUME NEW t \in Threads, NEW clear \in BOOLEAN, NEW strict \in BOOLEAN, BeginRouting(t, clear, strict)
      PROVE  RoutingTypeOK'
  <2> DEFINE asked == Policy(IF clear THEN 0 ELSE routings + 1, strict)
             c == [NoRouting EXCEPT !.step = IF clear THEN "reset" ELSE "read",
                          !.exits = asked.exits, !.strict = strict, !.alone = Routing = {}]
  <2>1. routings + 1 \in Exits /\ 0 \in Exits
    <3>1. routings < MaxRoutings /\ routings \in 0..MaxRoutings
      BY <1>2, <1>1 DEF BeginRouting, PolicyTypeOK
    <3> QED
      BY <3>1, MaxRoutingsAssumption DEF Exits
  <2>2. c \in RoutingCalls
    BY <1>1, <2>1 DEF RoutingCalls, Policies, Policy, InForce, NoRouting,
                      PolicyTypeOK
  <2>3. \A u \in Threads : [routing[u] EXCEPT !.alone = FALSE] \in RoutingCalls
    BY <1>1 DEF RoutingCalls
  <2>4. routing' = [u \in Threads |-> IF u = t THEN c ELSE [routing[u] EXCEPT !.alone = FALSE]]
    <3>1. asked.exits = IF clear THEN 0 ELSE routings + 1
      BY DEF Policy
    <3> QED
      BY <1>2, <3>1 DEF BeginRouting
  <2>5. asked \in Policies /\ InForce \in Policies
    BY <2>1, <1>1 DEF Policies, Policy, InForce, PolicyTypeOK
  <2>6. PolicyTypeOK'
    <3>1. routings' \in 0..MaxRoutings
      BY <1>2, <2>1 DEF BeginRouting, Exits
    <3>2. round' = {asked} \/ round' = round \cup {asked}
      BY <1>2 DEF BeginRouting
    <3>3. round' \subseteq Policies
      BY <2>5, <3>2, <1>1 DEF PolicyTypeOK
    <3>4. base' \in Policies
      BY <1>2, <2>5, <1>1 DEF BeginRouting, PolicyTypeOK
    <3> QED
      BY <1>2, <3>1, <3>3, <3>4, <1>1 DEF BeginRouting, PolicyTypeOK
  <2> QED
    BY <2>2, <2>3, <2>4, <2>6, RoutingTyped
<1>3. ASSUME NEW t \in Threads, ReadExits(t)
      PROVE  RoutingTypeOK'
  <2>1. PICK was \in {Policy(exitNodes, FALSE), Policy(0, FALSE)},
             failed \in SUBSET {"exits", "strict"} : Learn(t, "readStrict", was, failed)
    BY <1>3 DEF ReadExits
  <2>2. was \in Policies
    <3>1. routing[t].was.exits \in Exits /\ exitNodes \in Exits /\ strictNodes \in BOOLEAN
      BY <1>1 DEF RoutingCalls, Policies, PolicyTypeOK
    <3>2. 0 \in Exits
      BY MaxRoutingsAssumption DEF Exits
    <3>3. \A e \in Exits, b \in BOOLEAN : Policy(e, b) \in Policies
      BY DEF Policies, Policy
    <3> QED
      BY <2>1, <3>1, <3>2, <3>3
  <2> QED
    BY <1>1, <2>1, <2>2, LearnTyped
<1>4. ASSUME NEW t \in Threads, ReadStrict(t)
      PROVE  RoutingTypeOK'
  <2>1. PICK was \in {Policy(routing[t].was.exits, strictNodes), Policy(routing[t].was.exits, FALSE)},
             failed \in SUBSET {"exits", "strict"} : Learn(t, "set", was, failed)
    BY <1>4 DEF ReadStrict
  <2>2. was \in Policies
    <3>1. routing[t].was.exits \in Exits /\ exitNodes \in Exits /\ strictNodes \in BOOLEAN
      BY <1>1 DEF RoutingCalls, Policies, PolicyTypeOK
    <3>2. 0 \in Exits
      BY MaxRoutingsAssumption DEF Exits
    <3>3. \A e \in Exits, b \in BOOLEAN : Policy(e, b) \in Policies
      BY DEF Policies, Policy
    <3> QED
      BY <2>1, <3>1, <3>2, <3>3
  <2> QED
    BY <1>1, <2>1, <2>2, LearnTyped
<1>5. ASSUME NEW t \in Threads, SetExits(t)
      PROVE  RoutingTypeOK'
  <2> DEFINE c == [routing[t] EXCEPT !.step = "setStrict"]
  <2>1. c \in RoutingCalls
    BY <1>1 DEF RoutingCalls, Policies, PolicyTypeOK
  <2>2. routing' = [routing EXCEPT ![t] = c]
    BY <1>5, <1>1 DEF SetExits, RoutingCalls
  <2>3. PolicyTypeOK'
    BY <1>5, <1>1, MaxRoutingsAssumption DEF SetExits, PolicyTypeOK, Exits,
                                             RoutingCalls
  <2> QED
    BY <1>1, <2>1, <2>2, <2>3, RoutingTyped
<1>6. ASSUME NEW t \in Threads, SetStrict(t)
      PROVE  RoutingTypeOK'
  <2> DEFINE c == [routing[t] EXCEPT !.step = "done"]
  <2>1. c \in RoutingCalls
    BY <1>1 DEF RoutingCalls, Policies, PolicyTypeOK
  <2>2. routing' = [routing EXCEPT ![t] = c]
    BY <1>6, <1>1 DEF SetStrict, RoutingCalls
  <2>3. PolicyTypeOK'
    BY <1>6, <1>1, MaxRoutingsAssumption DEF SetStrict, PolicyTypeOK, Exits,
                                             RoutingCalls
  <2> QED
    BY <1>1, <2>1, <2>2, <2>3, RoutingTyped
<1>7. ASSUME NEW t \in Threads, ResetExits(t)
      PROVE  RoutingTypeOK'
  <2> DEFINE c == [routing[t] EXCEPT !.step = "done"]
  <2>1. c \in RoutingCalls
    BY <1>1 DEF RoutingCalls
  <2>2. 0 \in Exits
    BY MaxRoutingsAssumption DEF Exits
  <2>3. PolicyTypeOK'
    BY <1>7, <1>1, <2>2 DEF ResetExits, PolicyTypeOK
  <2> QED
    BY <1>7, <1>1, <2>1, <2>3, RoutingTyped DEF ResetExits
<1>8. ASSUME NEW t \in Threads, RoutingFails(t)
      PROVE  RoutingTypeOK'
  <2> DEFINE c == [routing[t] EXCEPT !.step = "failed"]
  <2>1. c \in RoutingCalls
    BY <1>1 DEF RoutingCalls, Policies, PolicyTypeOK
  <2>2. routing' = [routing EXCEPT ![t] = c]
    BY <1>8, <1>1 DEF RoutingFails, RoutingCalls
  <2>3. PolicyTypeOK'
    BY <1>8, <1>1, MaxRoutingsAssumption DEF RoutingFails, PolicyTypeOK, Exits,
                                             RoutingCalls
  <2> QED
    BY <1>1, <2>1, <2>2, <2>3, RoutingTyped
<1>9. ASSUME NEW t \in Threads, EndRouting(t)
      PROVE  RoutingTypeOK'
  <2>1. NoRouting \in RoutingCalls
    BY MaxRoutingsAssumption DEF NoRouting, RoutingCalls, Policies, Policy, Exits
  <2>2. PolicyTypeOK'
    BY <1>9, <1>1 DEF EndRouting, PolicyTypeOK
  <2> QED
    BY <1>9, <1>1, <2>1, <2>2, RoutingTyped DEF EndRouting
<1> QED
  BY <1>2, <1>3, <1>4, <1>5, <1>6, <1>7, <1>8, <1>9 DEF RoutingNext

\* Every step keeps RoundIsAsked.
LEMMA RoundIsAskedStep ==
    ASSUME RoutingTypeOK, RoundIsAsked, RoutingNext
    PROVE  RoundIsAsked'
<1>1. routing \in [Threads -> RoutingCalls]
  BY RoutingTyped
<1>2. ASSUME NEW t \in Threads, NEW clear \in BOOLEAN, NEW strict \in BOOLEAN, BeginRouting(t, clear, strict)
      PROVE  RoundIsAsked'
  <2> DEFINE asked == Policy(IF clear THEN 0 ELSE routings + 1, strict)
  <2>1. asked \in round' /\ \A r \in round : Routing # {} => r \in round'
    BY <1>2 DEF BeginRouting
  <2>6. /\ exitNodes' = exitNodes /\ strictNodes' = strictNodes
        /\ Routing = {} => base'.exits = exitNodes /\ base'.strict = strictNodes
        /\ Routing # {} => base' = base /\ round # {}
    BY <1>2 DEF BeginRouting, InForce, Policy, RoundIsAsked
  <2>2. /\ routing'[t].step = (IF clear THEN "reset" ELSE "read")
        /\ routing'[t].exits = asked.exits /\ routing'[t].strict = asked.strict
        /\ clear => asked.exits = 0 /\ asked.strict = FALSE
    BY <1>2, <1>1 DEF BeginRouting, NoRouting, Policy
  <2>3. \A u \in Threads : u # t =>
           /\ routing'[u].step = routing[u].step /\ routing'[u].exits = routing[u].exits
           /\ routing'[u].strict = routing[u].strict
    BY <1>2, <1>1 DEF BeginRouting, RoutingCalls
  <2>4. \A u \in Threads : routing'[u].step = "reset" => routing'[u].exits = 0 /\ routing'[u].strict = FALSE
    BY <2>2, <2>3 DEF RoundIsAsked
  <2>5. \A u \in Routing' : \E r \in round' : r.exits = routing'[u].exits /\ r.strict = routing'[u].strict
    BY <2>1, <2>2, <2>3 DEF RoundIsAsked, Routing
  <2> QED
    BY <2>1, <2>2, <2>4, <2>5, <2>6 DEF RoundIsAsked
<1>3. ASSUME NEW t \in Threads, ReadExits(t)
      PROVE  RoundIsAsked'
  <2> PICK was \in {Policy(exitNodes, FALSE), Policy(0, FALSE)},
           failed \in SUBSET {"exits", "strict"} : Learn(t, "readStrict", was, failed)
    BY <1>3 DEF ReadExits
  <2>1. /\ exitNodes' = exitNodes /\ strictNodes' = strictNodes /\ round' = round
        /\ base' = base /\ roundFailed' = roundFailed
        /\ routing[t].step = "read" /\ routing'[t].step = "readStrict"
    BY <1>3, <1>1, LearnFacts DEF ReadExits
  <2>2. \A u \in Threads :
           /\ routing'[u].exits = routing[u].exits /\ routing'[u].strict = routing[u].strict
           /\ u # t => routing'[u].step = routing[u].step
    BY <1>1, LearnFacts
  <2> QED
    BY <2>1, <2>2 DEF RoundIsAsked, Routing
<1>4. ASSUME NEW t \in Threads, ReadStrict(t)
      PROVE  RoundIsAsked'
  <2> PICK was \in {Policy(routing[t].was.exits, strictNodes), Policy(routing[t].was.exits, FALSE)},
           failed \in SUBSET {"exits", "strict"} : Learn(t, "set", was, failed)
    BY <1>4 DEF ReadStrict
  <2>1. /\ exitNodes' = exitNodes /\ strictNodes' = strictNodes /\ round' = round
        /\ base' = base /\ roundFailed' = roundFailed
        /\ routing[t].step = "readStrict" /\ routing'[t].step = "set"
    BY <1>4, <1>1, LearnFacts DEF ReadStrict
  <2>2. \A u \in Threads :
           /\ routing'[u].exits = routing[u].exits /\ routing'[u].strict = routing[u].strict
           /\ u # t => routing'[u].step = routing[u].step
    BY <1>1, LearnFacts
  <2> QED
    BY <2>1, <2>2 DEF RoundIsAsked, Routing
<1>5. ASSUME NEW t \in Threads, SetExits(t)
      PROVE  RoundIsAsked'
  BY <1>5, <1>1 DEF RoundIsAsked, Routing, RoutingCalls, SetExits
<1>6. ASSUME NEW t \in Threads, SetStrict(t)
      PROVE  RoundIsAsked'
  BY <1>6, <1>1 DEF RoundIsAsked, Routing, RoutingCalls, SetStrict
<1>7. ASSUME NEW t \in Threads, ResetExits(t)
      PROVE  RoundIsAsked'
  <2>1. \E r \in round : r.exits = 0 /\ r.strict = FALSE
    BY <1>7 DEF ResetExits, RoundIsAsked, Routing
  <2>2. /\ exitNodes' = 0 /\ strictNodes' = FALSE /\ round' = round
        /\ \A u \in Threads :
              /\ routing'[u].exits = routing[u].exits /\ routing'[u].strict = routing[u].strict
              /\ routing'[u].step = "reset" => routing[u].step = "reset"
              /\ routing'[u].step # "idle" => routing[u].step # "idle"
    BY <1>7, <1>1 DEF ResetExits, RoutingCalls
  <2>3. \A u \in Routing' : u \in Routing
    BY <2>2 DEF Routing
  <2>4. \A u \in Routing' : \E r \in round' : r.exits = routing'[u].exits /\ r.strict = routing'[u].strict
    BY <2>2, <2>3 DEF RoundIsAsked, Routing
  <2>5. \A u \in Threads : routing'[u].step = "reset" => routing'[u].exits = 0 /\ routing'[u].strict = FALSE
    BY <2>2 DEF RoundIsAsked
  <2>7. base' = base
    BY <1>7 DEF ResetExits
  <2>6. (\E r \in round' : r.exits = exitNodes') /\ (\E r \in round' : r.strict = strictNodes')
    BY <2>1, <2>2
  <2> QED
    BY <2>4, <2>5, <2>6 DEF RoundIsAsked
<1>8. ASSUME NEW t \in Threads, RoutingFails(t)
      PROVE  RoundIsAsked'
  BY <1>8, <1>1 DEF RoundIsAsked, Routing, RoutingCalls, RoutingFails
<1>9. ASSUME NEW t \in Threads, EndRouting(t)
      PROVE  RoundIsAsked'
  BY <1>9, <1>1 DEF RoundIsAsked, Routing, RoutingCalls, EndRouting, NoRouting
<1> QED
  BY <1>2, <1>3, <1>4, <1>5, <1>6, <1>7, <1>8, <1>9 DEF RoutingNext

\* Every step keeps RoundOfOne: the calls in flight are all of the round.
LEMMA RoundOfOneStep ==
    ASSUME RoutingTypeOK, RoundIsAsked, RoundOfOne, RoutingNext
    PROVE  RoundOfOne'
<1>1. /\ routing \in [Threads -> RoutingCalls] /\ round \subseteq Policies /\ base \in Policies
      /\ \A p \in Policies : p = Policy(p.exits, p.strict)
  BY RoutingTyped DEF PolicyTypeOK, Policies, Policy
<1>2. ASSUME NEW t \in Threads, NEW clear \in BOOLEAN, NEW strict \in BOOLEAN, BeginRouting(t, clear, strict)
      PROVE  RoundOfOne'
  <2>1. \A u \in Threads : routing'[u].step = "setStrict" => routing[u].step = "setStrict"
    BY <1>2, <1>1 DEF BeginRouting, NoRouting, RoutingCalls
  <2>2. InForce' = InForce /\ exitNodes' = exitNodes
    BY <1>2 DEF BeginRouting, InForce
  <2>3. CASE Routing = {}
    <3>1. base' = InForce /\ \A u \in Threads : routing[u].step # "setStrict"
      BY <1>2, <2>3 DEF BeginRouting, Routing
    <3> QED
      BY <2>1, <2>2, <3>1 DEF RoundOfOne
  <2>4. CASE Routing # {}
    <3>1. base' = base /\ round # {} /\ round \subseteq round'
      BY <1>2, <2>4 DEF BeginRouting, RoundIsAsked
    <3>2. \A r \in round' : round' = {r} => r \in round /\ round = {r}
      BY <3>1
    <3> QED
      BY <2>1, <2>2, <3>1, <3>2 DEF RoundOfOne
  <2> QED
    BY <2>3, <2>4
<1>3. ASSUME NEW t \in Threads, ReadExits(t)
      PROVE  RoundOfOne'
  <2>1. /\ routing'[t].step # "setStrict"
        /\ \A u \in Threads : u # t => routing'[u] = routing[u]
        /\ exitNodes' = exitNodes /\ strictNodes' = strictNodes
        /\ round' = round /\ base' = base
    <3>1. PICK was, failed : Learn(t, "readStrict", was, failed)
      BY <1>3 DEF ReadExits
    <3>2. routing'[t].step = "readStrict"
      BY <3>1, <1>1, LearnFacts
    <3> QED
      BY <3>1, <3>2, <1>1, LearnFacts
  <2> QED
    BY <2>1 DEF RoundOfOne, InForce
<1>4. ASSUME NEW t \in Threads, ReadStrict(t)
      PROVE  RoundOfOne'
  <2>1. /\ routing'[t].step # "setStrict"
        /\ \A u \in Threads : u # t => routing'[u] = routing[u]
        /\ exitNodes' = exitNodes /\ strictNodes' = strictNodes
        /\ round' = round /\ base' = base
    <3>1. PICK was, failed : Learn(t, "set", was, failed)
      BY <1>4 DEF ReadStrict
    <3>2. routing'[t].step = "set"
      BY <3>1, <1>1, LearnFacts
    <3> QED
      BY <3>1, <3>2, <1>1, LearnFacts
  <2> QED
    BY <2>1 DEF RoundOfOne, InForce
<1>5. ASSUME NEW t \in Threads, SetExits(t), NEW r \in round, round = {r}
      PROVE  InForce' \in {r, base, Policy(r.exits, base.strict)} /\ exitNodes' = r.exits
  <2>1. exitNodes' = r.exits
    BY <1>5 DEF SetExits, RoundIsAsked, Routing
  <2>2. strictNodes' = strictNodes /\ strictNodes \in {r.strict, base.strict}
    BY <1>5 DEF SetExits, RoundOfOne, InForce, Policy
  <2>3. InForce' = Policy(r.exits, strictNodes)
    BY <2>1, <2>2 DEF InForce
  <2> QED
    BY <1>1, <2>1, <2>2, <2>3
<1>6. ASSUME NEW t \in Threads, SetStrict(t), NEW r \in round, round = {r}
      PROVE  InForce' = r /\ exitNodes' = r.exits
  <2>1. exitNodes' = r.exits /\ strictNodes' = r.strict
    BY <1>6 DEF SetStrict, RoundIsAsked, RoundOfOne, Routing
  <2> QED
    BY <1>1, <2>1 DEF InForce
<1>7. ASSUME NEW t \in Threads, ResetExits(t), NEW r \in round, round = {r}
      PROVE  InForce' = r /\ exitNodes' = r.exits
  <2>1. r.exits = 0 /\ r.strict = FALSE
    BY <1>7 DEF ResetExits, RoundIsAsked, Routing
  <2>2. exitNodes' = 0 /\ strictNodes' = FALSE
    BY <1>7 DEF ResetExits
  <2> QED
    BY <1>1, <2>1, <2>2 DEF InForce
<1>8. ASSUME NEW t \in Threads, SetExits(t) \/ SetStrict(t) \/ ResetExits(t)
      PROVE  RoundOfOne'
  <2>1. round' = round /\ base' = base
    BY <1>8 DEF SetExits, SetStrict, ResetExits
  <2> QED
    BY <1>5, <1>6, <1>7, <1>8, <2>1 DEF RoundOfOne
<1>9. ASSUME NEW t \in Threads, RoutingFails(t) \/ EndRouting(t)
      PROVE  RoundOfOne'
  <2>1. /\ round' = round /\ base' = base /\ exitNodes' = exitNodes
        /\ strictNodes' = strictNodes
    BY <1>9 DEF RoutingFails, EndRouting
  <2>2. \A u \in Threads : routing'[u].step = "setStrict" => routing[u].step = "setStrict"
    <3>1. ASSUME RoutingFails(t), NEW u \in Threads
          PROVE  routing'[u].step \in {routing[u].step, "failed"}
      BY <3>1, <1>1 DEF RoutingFails, RoutingCalls
    <3>2. ASSUME EndRouting(t), NEW u \in Threads
          PROVE  routing'[u].step \in {routing[u].step, "idle"}
      BY <3>2, <1>1 DEF EndRouting, NoRouting
    <3> QED
      BY <1>9, <3>1, <3>2
  <2> QED
    BY <2>1, <2>2 DEF RoundOfOne, InForce, Policy
<1> QED
  BY <1>2, <1>3, <1>4, <1>8, <1>9 DEF RoutingNext

\* Every step keeps LoneCallReads.
LEMMA LoneCallReadsStep ==
    ASSUME RoutingTypeOK, RoundIsAsked, LoneCallReads, RoutingNext
    PROVE  LoneCallReads'
<1>1. routing \in [Threads -> RoutingCalls]
  BY RoutingTyped
<1>2. ASSUME NEW t \in Threads, NEW clear \in BOOLEAN, NEW strict \in BOOLEAN, BeginRouting(t, clear, strict)
      PROVE  LoneCallReads'
  <2>1. /\ routing'[t].step \in {"read", "reset"}
        /\ routing'[t].alone = (Routing = {})
    BY <1>2, <1>1 DEF BeginRouting, NoRouting
  <2>2. \A u \in Threads : u # t => routing'[u].step = routing[u].step /\ ~routing'[u].alone
    BY <1>2, <1>1 DEF BeginRouting, RoutingCalls
  <2>3. /\ exitNodes' = exitNodes /\ strictNodes' = strictNodes
        /\ routing'[t].alone => base'.exits = exitNodes /\ base'.strict = strictNodes
    BY <1>2, <2>1 DEF BeginRouting, InForce, Policy
  <2>4. \A u \in Threads : routing'[t].alone /\ u # t => routing'[u].step = "idle"
    BY <2>1, <2>2 DEF Routing
  <2>5. routing'[t].exits = 0 \/ routing'[t].step = "read"
    BY <1>2, <1>1 DEF BeginRouting, NoRouting
  <2> QED
    BY <2>1, <2>2, <2>3, <2>4, <2>5 DEF LoneCallReads, Routing
<1>3. ASSUME NEW t \in Threads, ReadExits(t)
      PROVE  LoneCallReads'
  <2>1. /\ exitNodes' = exitNodes /\ strictNodes' = strictNodes /\ base' = base
        /\ routing[t].step = "read" /\ routing'[t].step = "readStrict"
        /\ routing'[t].alone = routing[t].alone
        /\ routing'[t].exits = routing[t].exits
        /\ "exits" \notin routing'[t].blind => routing'[t].was.exits = exitNodes
        /\ \A u \in Threads : u # t => routing'[u] = routing[u]
    <3>1. CASE Learn(t, "readStrict", Policy(exitNodes, FALSE), {})
      BY <1>3, <3>1, <1>1, LearnFacts DEF ReadExits, Policy
    <3>2. CASE Learn(t, "readStrict", Policy(0, FALSE), {"exits"})
      BY <1>3, <3>2, <1>1, LearnFacts DEF ReadExits, Policy
    <3> QED
      BY <1>3, <3>1, <3>2 DEF ReadExits
  <2>2. \A u \in Threads : u \in Routing' <=> u \in Routing
    BY <2>1 DEF Routing
  <2> QED
    BY <2>1, <2>2 DEF LoneCallReads, Routing
<1>4. ASSUME NEW t \in Threads, ReadStrict(t)
      PROVE  LoneCallReads'
  <2>1. /\ exitNodes' = exitNodes /\ strictNodes' = strictNodes /\ base' = base
        /\ routing[t].step = "readStrict" /\ routing'[t].step = "set"
        /\ routing'[t].alone = routing[t].alone
        /\ routing'[t].exits = routing[t].exits
        /\ routing'[t].was.exits = routing[t].was.exits
        /\ "exits" \notin routing'[t].blind => "exits" \notin routing[t].blind
        /\ "strict" \notin routing'[t].blind => routing'[t].was.strict = strictNodes
        /\ \A u \in Threads : u # t => routing'[u] = routing[u]
    <3>1. CASE Learn(t, "set", Policy(routing[t].was.exits, strictNodes), {})
      BY <1>4, <3>1, <1>1, LearnFacts DEF ReadStrict, Policy
    <3>2. CASE Learn(t, "set", Policy(routing[t].was.exits, FALSE), {"strict"})
      BY <1>4, <3>2, <1>1, LearnFacts DEF ReadStrict, Policy
    <3> QED
      BY <1>4, <3>1, <3>2 DEF ReadStrict
  <2>2. \A u \in Threads : u \in Routing' <=> u \in Routing
    BY <2>1 DEF Routing
  <2> QED
    BY <2>1, <2>2 DEF LoneCallReads, Routing
<1>5. ASSUME NEW t \in Threads, SetExits(t)
      PROVE  LoneCallReads'
  BY <1>5, <1>1 DEF LoneCallReads, Routing, RoutingCalls, Policies, SetExits
<1>6. ASSUME NEW t \in Threads, SetStrict(t)
      PROVE  LoneCallReads'
  BY <1>6, <1>1 DEF LoneCallReads, Routing, RoutingCalls, Policies, SetStrict
<1>7. ASSUME NEW t \in Threads, ResetExits(t)
      PROVE  LoneCallReads'
  BY <1>7, <1>1 DEF LoneCallReads, Routing, RoutingCalls, Policies, ResetExits,
                    RoundIsAsked
<1>8. ASSUME NEW t \in Threads, RoutingFails(t)
      PROVE  LoneCallReads'
  BY <1>8, <1>1 DEF LoneCallReads, Routing, RoutingCalls, Policies, RoutingFails
<1>9. ASSUME NEW t \in Threads, EndRouting(t)
      PROVE  LoneCallReads'
  BY <1>9, <1>1 DEF LoneCallReads, Routing, RoutingCalls, Policies, EndRouting,
                    NoRouting
<1> QED
  BY <1>2, <1>3, <1>4, <1>5, <1>6, <1>7, <1>8, <1>9 DEF RoutingNext

\* The inductive invariant of the exit policy.
RoutingInv == RoutingTypeOK /\ RoundIsAsked /\ RoundOfOne /\ LoneCallReads

\* The exit policy is that of its callers: ExitPolicyIsOfItsCallers follows from the
\* invariant.
LEMMA RoutingKept ==
    RoutingInit /\ [][RoutingNext]_routingVars => [](RoutingTypeOK /\ ExitPolicyIsOfItsCallers)
<1>1. RoutingInit => RoutingInv
  <2> SUFFICES ASSUME RoutingInit
               PROVE  RoutingInv
    OBVIOUS
  <2>1. NoRouting \in RoutingCalls /\ 0 \in Exits /\ 0 \in 0..MaxRoutings
    BY MaxRoutingsAssumption DEF NoRouting, RoutingCalls, Policies, Policy, Exits
  <2>2. RoutingTypeOK
    BY <2>1, RoutingTyped DEF RoutingInit, PolicyTypeOK, Policies, Policy, InForce
  <2>3. \A t \in Threads : routing[t].step = "idle"
    BY DEF RoutingInit, NoRouting
  <2>4. RoundIsAsked /\ RoundOfOne /\ LoneCallReads
    BY <2>3 DEF RoutingInit, RoundIsAsked, RoundOfOne, LoneCallReads, Routing
  <2> QED
    BY <2>2, <2>4 DEF RoutingInv
<1>2. RoutingInv /\ [RoutingNext]_routingVars => RoutingInv'
  <2>1. RoutingInv /\ UNCHANGED routingVars => RoutingInv'
    BY DEF routingVars, RoutingInv, RoutingTypeOK, RoundIsAsked, RoundOfOne,
           LoneCallReads, Routing, Exits, InForce, Policy
  <2> QED
    BY <2>1, RoutingType, RoundIsAskedStep, RoundOfOneStep, LoneCallReadsStep
       DEF RoutingInv
<1>3. RoutingInv => ExitPolicyIsOfItsCallers
  <2> SUFFICES ASSUME RoutingInv
               PROVE  ExitPolicyIsOfItsCallers
    OBVIOUS
  <2>1. routing \in [Threads -> RoutingCalls]
    BY RoutingTyped DEF RoutingInv
  <2>2. HalvesAreOfTheLastRound
    <3> SUFFICES ASSUME Routing = {}, round # {}
                 PROVE  /\ \/ \E r \in round : r.exits = exitNodes
                           \/ roundFailed /\ exitNodes = base.exits
                        /\ \/ \E r \in round : r.strict = strictNodes
                           \/ roundFailed /\ strictNodes = base.strict
      BY DEF HalvesAreOfTheLastRound
    <3>1. \A t \in Threads : routing[t].step = "idle"
      BY DEF Routing
    <3> QED
      BY <3>1 DEF RoutingInv, RoundIsAsked
  <2>3. PreviousIsWhatWas
    <3> SUFFICES ASSUME NEW t \in Threads, routing[t].step = "done", routing[t].alone,
                        routing[t].exits # 0
                 PROVE  /\ "exits" \notin routing[t].blind =>
                              routing[t].was.exits = base.exits
                        /\ "strict" \notin routing[t].blind =>
                              routing[t].was.strict = base.strict
      BY DEF PreviousIsWhatWas
    <3> QED
      BY DEF RoutingInv, LoneCallReads, Routing
  <2>4. OneCallIsInOrder
    BY DEF OneCallIsInOrder, RoutingInv, RoundOfOne
  <2> QED
    BY <2>2, <2>3, <2>4 DEF ExitPolicyIsOfItsCallers
<1> QED
  BY <1>1, <1>2, <1>3, PTL DEF RoutingInv

-----------------------------------------------------------------------------
(* HttpOverTor: requests, redirects and cookies                            *)

\* The results of requests.
HttpResults ==
    [url : Hosts, from : Hosts, chain : Seq(Hosts), size : BodySizes, bytes : Nat,
     truncated : BOOLEAN, body : Bodies]

\* The jar has what each host last set, as long as there is one.
JarIsLatest == hasJar => jar = latest

\* The Cookie header of a hop is chosen by what it was sent with.
SentIsChosen ==
    http = "answer" =>
       /\ sent = "own" <=> ownCookie = "given"
       /\ sent = "jar" <=> ownCookie = "absent" /\ JarHas(current)

\* The hop at hand is where the chain has led.
CurrentEndsChain ==
    http \in {"hop", "answer"} => current = IF chain = <<>> THEN start ELSE chain[Len(chain)]

\* An entry is only taken when its result has room.
RoomForResult == http \in {"hop", "answer"} => Len(results) < MaxEntries

\* The inductive invariant of the requests.
HttpInv ==
    HttpTypeOK /\ RoomForResult /\ JarIsLatest /\ SentIsChosen /\ CurrentEndsChain /\ ChainIsHonest /\ TruncationIsHonest

\* An element of a sequence with one more is that one or was there before.
LEMMA AppendedIs ==
    ASSUME NEW S, NEW s \in Seq(S), NEW e \in S, NEW i \in DOMAIN Append(s, e)
    PROVE  Append(s, e)[i] = e \/ (i \in DOMAIN s /\ Append(s, e)[i] = s[i])
OBVIOUS

\* A jar with the cookies of a response is a jar.
LEMMA MergeTyped ==
    ASSUME NEW held \in Jars, NEW h \in Hosts, NEW set \in [Cookies -> Values \cup {NoValue}]
    PROVE  [held EXCEPT ![h] = [c \in Cookies |-> IF set[c] = NoValue THEN @[c] ELSE set[c]]] \in Jars
BY DEF Jars

\* The jars stay jars when a response sets cookies.
LEMMA SetCookiesTyped ==
    ASSUME HttpTypeOK, NEW next \in Hosts, NEW set \in [Cookies -> Values \cup {NoValue}],
           SetCookies(set, next)
    PROVE  jar' \in Jars /\ latest' \in Jars
BY MergeTyped DEF HttpTypeOK, SetCookies, Merge

\* What is read of a body is a length and whether it is all.
LEMMA ReadBodyTyped ==
    ASSUME NEW size \in BodySizes
    PROVE  ReadBody(size).bytes \in Nat /\ ReadBody(size).truncated \in BOOLEAN
BY BodiesAssumption DEF ReadBody, Least

\* After an answer the results are those from before and the new one.
LEMMA AnsweredAt ==
    ASSUME HttpTypeOK, NEW size \in BodySizes, NEW body \in Bodies, Answered(size, body),
           NEW i \in DOMAIN results'
    PROVE  \/ results'[i] = [url |-> current, from |-> start, chain |-> chain, size |-> size, body |-> body,
                             bytes |-> ReadBody(size).bytes, truncated |-> ReadBody(size).truncated]
           \/ i \in DOMAIN results /\ results'[i] = results[i]
<1> DEFINE result == [url |-> current, from |-> start, chain |-> chain, size |-> size, body |-> body,
               bytes |-> ReadBody(size).bytes, truncated |-> ReadBody(size).truncated]
<1>1. result \in HttpResults
  BY ReadBodyTyped DEF HttpTypeOK, HttpResults
<1>2. results \in Seq(HttpResults) /\ results' = Append(results, result)
  BY DEF Answered, HttpTypeOK, HttpResults
<1> HIDE DEF result
<1>3. results'[i] = result \/ (i \in DOMAIN results /\ results'[i] = results[i])
  BY <1>1, <1>2, AppendedIs
<1> QED
  BY <1>3 DEF result

\* Every step keeps the types.
LEMMA HttpTyped ==
    ASSUME HttpTypeOK, RoomForResult, HttpNext
    PROVE  HttpTypeOK'
<1>1. CASE BeginHttp
  <2>1. EmptyJar \in Jars
    BY DEF EmptyJar, Jars
  <2>2. jar' \in Jars /\ latest' \in Jars
    BY <1>1, <2>1 DEF BeginHttp
  <2>3. hasJar' \in BOOLEAN
    BY <1>1 DEF BeginHttp
  <2> QED
    BY <1>1, <2>2, <2>3 DEF BeginHttp, HttpTypeOK
<1>2. CASE TakeEntry
  <2>1. chain' \in Seq(Hosts)
    BY <1>2 DEF TakeEntry
  <2> QED
    BY <1>2, <2>1 DEF TakeEntry, HttpTypeOK
<1>3. CASE Hop
  BY <1>3 DEF HttpTypeOK, Jars, EmptyJar, Hop
<1>4. ASSUME NEW h \in Hosts, Redirected(h)
      PROVE  HttpTypeOK'
  <2>1. jar' \in Jars /\ latest' \in Jars
    BY <1>4, SetCookiesTyped DEF Redirected
  <2>2. Append(chain, h) \in Seq(Hosts)
    BY DEF HttpTypeOK
  <2>3. chain' \in Seq(Hosts)
    BY <1>4, <2>2 DEF Redirected, HttpTypeOK
  <2> QED
    BY <1>4, <2>1, <2>3 DEF Redirected, HttpTypeOK
<1>5. ASSUME NEW size \in BodySizes, NEW body \in Bodies, Answered(size, body)
      PROVE  HttpTypeOK'
  <2>1. jar' \in Jars /\ latest' \in Jars
    BY <1>5, SetCookiesTyped DEF Answered, HttpTypeOK
  <2> DEFINE result == [url |-> current, from |-> start, chain |-> chain, size |-> size, body |-> body,
                 bytes |-> ReadBody(size).bytes, truncated |-> ReadBody(size).truncated]
  <2>2. result \in HttpResults
    BY ReadBodyTyped DEF HttpTypeOK, HttpResults
  <2>3. results \in Seq(HttpResults) /\ results' = Append(results, result)
    BY <1>5 DEF Answered, HttpTypeOK, HttpResults
  <2> HIDE DEF result
  <2>4. results' \in Seq(HttpResults) /\ Len(results') = Len(results) + 1
    BY <2>2, <2>3
  <2>5. Len(results') \in 0..MaxEntries
    <3>1. Len(results) < MaxEntries
      BY <1>5 DEF Answered, RoomForResult
    <3>2. Len(results) \in Nat
      BY DEF HttpTypeOK
    <3> QED
      BY <2>4, <3>1, <3>2, RedirectsAssumption
  <2> QED
    BY <1>5, <2>1, <2>4, <2>5 DEF Answered, HttpTypeOK, HttpResults
<1>6. CASE FinishHttp
  BY <1>6 DEF HttpTypeOK, Jars, EmptyJar, FinishHttp
<1> QED
  BY <1>1, <1>2, <1>3, <1>4, <1>5, <1>6 DEF HttpNext

\* Every step keeps RoomForResult.
LEMMA RoomForResultStep ==
    ASSUME HttpTypeOK, RoomForResult, HttpNext
    PROVE  RoomForResult'
<1>1. CASE BeginHttp
  BY <1>1, RedirectsAssumption DEF RoomForResult, HttpTypeOK, BeginHttp
<1>2. CASE TakeEntry
  BY <1>2, RedirectsAssumption DEF RoomForResult, HttpTypeOK, TakeEntry
<1>3. CASE Hop
  BY <1>3, RedirectsAssumption DEF RoomForResult, HttpTypeOK, Hop
<1>4. ASSUME NEW h \in Hosts, Redirected(h)
      PROVE  RoomForResult'
  BY <1>4, RedirectsAssumption DEF RoomForResult, HttpTypeOK, Redirected
<1>5. ASSUME NEW size \in BodySizes, NEW body \in Bodies, Answered(size, body)
      PROVE  RoomForResult'
  BY <1>5, RedirectsAssumption DEF RoomForResult, HttpTypeOK, Answered
<1>6. CASE FinishHttp
  BY <1>6, RedirectsAssumption DEF RoomForResult, HttpTypeOK, FinishHttp
<1> QED
  BY <1>1, <1>2, <1>3, <1>4, <1>5, <1>6 DEF HttpNext

\* Every step keeps JarIsLatest: a jar is filled in the step that hears of a cookie.
LEMMA JarIsLatestStep ==
    ASSUME HttpTypeOK, JarIsLatest, HttpNext
    PROVE  JarIsLatest'
<1>1. CASE BeginHttp
  BY <1>1 DEF JarIsLatest, BeginHttp, SetCookies, Merge
<1>2. CASE TakeEntry
  BY <1>2 DEF JarIsLatest, TakeEntry, SetCookies, Merge
<1>3. CASE Hop
  BY <1>3 DEF JarIsLatest, Hop, SetCookies, Merge
<1>4. ASSUME NEW h \in Hosts, Redirected(h)
      PROVE  JarIsLatest'
  BY <1>4 DEF JarIsLatest, Redirected, SetCookies, Merge
<1>5. ASSUME NEW size \in BodySizes, NEW body \in Bodies, Answered(size, body)
      PROVE  JarIsLatest'
  BY <1>5 DEF JarIsLatest, Answered, SetCookies, Merge
<1>6. CASE FinishHttp
  BY <1>6 DEF JarIsLatest, FinishHttp, SetCookies, Merge
<1> QED
  BY <1>1, <1>2, <1>3, <1>4, <1>5, <1>6 DEF HttpNext

\* Every step keeps SentIsChosen.
LEMMA SentIsChosenStep ==
    ASSUME HttpTypeOK, SentIsChosen, HttpNext
    PROVE  SentIsChosen'
<1>1. CASE BeginHttp
  BY <1>1 DEF SentIsChosen, JarHas, BeginHttp
<1>2. CASE TakeEntry
  BY <1>2 DEF SentIsChosen, JarHas, TakeEntry
<1>3. CASE Hop
  BY <1>3 DEF SentIsChosen, JarHas, Hop
<1>4. ASSUME NEW h \in Hosts, Redirected(h)
      PROVE  SentIsChosen'
  BY <1>4 DEF SentIsChosen, JarHas, Redirected
<1>5. ASSUME NEW size \in BodySizes, NEW body \in Bodies, Answered(size, body)
      PROVE  SentIsChosen'
  BY <1>5 DEF SentIsChosen, JarHas, Answered
<1>6. CASE FinishHttp
  BY <1>6 DEF SentIsChosen, JarHas, FinishHttp
<1> QED
  BY <1>1, <1>2, <1>3, <1>4, <1>5, <1>6 DEF HttpNext

\* Every step keeps CurrentEndsChain.
LEMMA CurrentEndsChainStep ==
    ASSUME HttpTypeOK, CurrentEndsChain, HttpNext
    PROVE  CurrentEndsChain'
<1>1. CASE BeginHttp
  BY <1>1 DEF CurrentEndsChain, HttpTypeOK, BeginHttp
<1>2. CASE TakeEntry
  BY <1>2 DEF CurrentEndsChain, HttpTypeOK, TakeEntry
<1>3. CASE Hop
  BY <1>3 DEF CurrentEndsChain, HttpTypeOK, Hop
<1>4. ASSUME NEW h \in Hosts, Redirected(h)
      PROVE  CurrentEndsChain'
  BY <1>4 DEF CurrentEndsChain, HttpTypeOK, Redirected
<1>5. ASSUME NEW size \in BodySizes, NEW body \in Bodies, Answered(size, body)
      PROVE  CurrentEndsChain'
  BY <1>5 DEF CurrentEndsChain, HttpTypeOK, Answered
<1>6. CASE FinishHttp
  BY <1>6 DEF CurrentEndsChain, HttpTypeOK, FinishHttp
<1> QED
  BY <1>1, <1>2, <1>3, <1>4, <1>5, <1>6 DEF HttpNext

\* Every step keeps ChainIsHonest: a result names the chain that led to it.
LEMMA ChainIsHonestStep ==
    ASSUME HttpTypeOK, CurrentEndsChain, ChainIsHonest, HttpNext
    PROVE  ChainIsHonest'
<1>1. CASE BeginHttp
  BY <1>1, RedirectsAssumption DEF ChainIsHonest, CurrentEndsChain, HttpTypeOK,
                                   MayFollow, BeginHttp
<1>2. CASE TakeEntry
  BY <1>2, RedirectsAssumption DEF ChainIsHonest, CurrentEndsChain, HttpTypeOK,
                                   MayFollow, TakeEntry
<1>3. CASE Hop
  BY <1>3, RedirectsAssumption DEF ChainIsHonest, CurrentEndsChain, HttpTypeOK,
                                   MayFollow, Hop
<1>4. ASSUME NEW h \in Hosts, Redirected(h)
      PROVE  ChainIsHonest'
  BY <1>4, RedirectsAssumption DEF ChainIsHonest, CurrentEndsChain, HttpTypeOK,
                                   MayFollow, Redirected
<1>5. ASSUME NEW size \in BodySizes, NEW body \in Bodies, Answered(size, body)
      PROVE  ChainIsHonest'
  <2>1. /\ chain' = chain /\ Len(chain) <= MaxRedirects
        /\ current = IF chain = <<>> THEN start ELSE chain[Len(chain)]
    BY <1>5 DEF Answered, ChainIsHonest, CurrentEndsChain
  <2>2. ASSUME NEW i \in DOMAIN results'
        PROVE  /\ Len(results'[i].chain) <= MaxRedirects
               /\ results'[i].url = IF results'[i].chain = <<>> THEN results'[i].from
                                   ELSE results'[i].chain[Len(results'[i].chain)]
    <3>1. CASE i \in DOMAIN results /\ results'[i] = results[i]
      BY <3>1 DEF ChainIsHonest
    <3>2. CASE results'[i] = [url |-> current, from |-> start, chain |-> chain, size |-> size, body |-> body,
                             bytes |-> ReadBody(size).bytes, truncated |-> ReadBody(size).truncated]
      BY <2>1, <3>2
    <3> QED
      BY <1>5, <3>1, <3>2, AnsweredAt
  <2> QED
    BY <2>1, <2>2 DEF ChainIsHonest
<1>6. CASE FinishHttp
  BY <1>6, RedirectsAssumption DEF ChainIsHonest, CurrentEndsChain, HttpTypeOK,
                                   MayFollow, FinishHttp
<1> QED
  BY <1>1, <1>2, <1>3, <1>4, <1>5, <1>6 DEF HttpNext

\* Every step keeps TruncationIsHonest: a result says that it is cut exactly when it is.
LEMMA TruncationIsHonestStep ==
    ASSUME HttpTypeOK, TruncationIsHonest, HttpNext
    PROVE  TruncationIsHonest'
<1>1. CASE BeginHttp
  BY <1>1, BodiesAssumption DEF TruncationIsHonest, HttpTypeOK, ReadBody, Least,
                                BeginHttp
<1>2. CASE TakeEntry
  BY <1>2, BodiesAssumption DEF TruncationIsHonest, HttpTypeOK, ReadBody, Least,
                                TakeEntry
<1>3. CASE Hop
  BY <1>3, BodiesAssumption DEF TruncationIsHonest, HttpTypeOK, ReadBody, Least, Hop
<1>4. ASSUME NEW h \in Hosts, Redirected(h)
      PROVE  TruncationIsHonest'
  BY <1>4, BodiesAssumption DEF TruncationIsHonest, HttpTypeOK, ReadBody, Least,
                                Redirected
<1>5. ASSUME NEW size \in BodySizes, NEW body \in Bodies, Answered(size, body)
      PROVE  TruncationIsHonest'
  <2>1. /\ ReadBody(size).truncated <=> size > ReadBody(size).bytes
        /\ ReadBody(size).truncated => ReadBody(size).bytes = IF BodyCap < 0 THEN 0 ELSE BodyCap
    <3>1. size \in Nat /\ BodyCap \in Int
      BY BodiesAssumption
    <3> DEFINE cap == IF BodyCap < 0 THEN 0 ELSE BodyCap
    <3>2. cap \in Nat
      BY <3>1
    <3>3. ReadBody(size) = [bytes |-> Least(Least(size, cap + 1), cap), truncated |-> Least(size, cap + 1) > cap]
      BY DEF ReadBody
    <3>4. ReadBody(size).truncated = (Least(size, cap + 1) > cap)
      BY <3>3
    <3>5. ReadBody(size).bytes = Least(Least(size, cap + 1), cap)
      BY <3>3
    <3> HIDE DEF cap
    <3>6. CASE size <= cap
      <4>1. Least(size, cap + 1) = size /\ Least(size, cap) = size
        BY <3>1, <3>2, <3>6 DEF Least
      <4>2. (Least(size, cap + 1) > cap) = FALSE
        BY <3>1, <3>2, <3>6, <4>1
      <4>3. ReadBody(size).truncated = FALSE /\ ReadBody(size).bytes = size
        BY <3>4, <3>5, <4>1, <4>2
      <4> QED
        BY <3>1, <4>3
    <3>7. CASE size > cap
      <4>1. Least(size, cap + 1) = cap + 1 /\ Least(cap + 1, cap) = cap
        BY <3>1, <3>2, <3>7 DEF Least
      <4>2. (Least(size, cap + 1) > cap) = TRUE
        BY <3>1, <3>2, <3>7, <4>1
      <4>3. ReadBody(size).truncated = TRUE /\ ReadBody(size).bytes = cap
        BY <3>4, <3>5, <4>1, <4>2
      <4>4. size > ReadBody(size).bytes
        BY <3>1, <3>2, <3>7, <4>3
      <4> QED
        BY <4>3, <4>4 DEF cap
    <3> QED
      BY <3>1, <3>2, <3>6, <3>7
  <2>2. ASSUME NEW i \in DOMAIN results'
        PROVE  /\ results'[i].truncated <=> results'[i].size > results'[i].bytes
               /\ results'[i].truncated => results'[i].bytes = IF BodyCap < 0 THEN 0 ELSE BodyCap
    <3>1. CASE i \in DOMAIN results /\ results'[i] = results[i]
      BY <3>1 DEF TruncationIsHonest
    <3>2. CASE results'[i] = [url |-> current, from |-> start, chain |-> chain, size |-> size, body |-> body,
                             bytes |-> ReadBody(size).bytes, truncated |-> ReadBody(size).truncated]
      BY <2>1, <3>2
    <3> QED
      BY <1>5, <3>1, <3>2, AnsweredAt
  <2> QED
    BY <2>2 DEF TruncationIsHonest
<1>6. CASE FinishHttp
  BY <1>6, BodiesAssumption DEF TruncationIsHonest, HttpTypeOK, ReadBody, Least,
                                FinishHttp
<1> QED
  BY <1>1, <1>2, <1>3, <1>4, <1>5, <1>6 DEF HttpNext

\* Cookies go to who set them, and answers are honest.
LEMMA HttpKept ==
    HttpInit /\ [][HttpNext]_httpVars
    => [](HttpTypeOK /\ CookiesGoToWhoSetThem /\ HttpAnswersAreHonest)
<1>1. HttpInit => HttpInv
  <2> SUFFICES ASSUME HttpInit PROVE HttpInv
    OBVIOUS
  <2>1. FirstHost \in Hosts
    BY HostsAssumption DEF FirstHost
  <2>2. EmptyJar \in Jars
    BY DEF EmptyJar, Jars
  <2>3. Len(results) \in 0..MaxEntries /\ Len(chain) <= MaxRedirects /\ DOMAIN results = {}
    BY RedirectsAssumption DEF HttpInit
  <2>4. HttpTypeOK
    <3>1. results \in Seq(HttpResults) /\ chain \in Seq(Hosts)
      BY DEF HttpInit
    <3> QED
      BY <2>1, <2>2, <2>3, <3>1 DEF HttpInit, HttpTypeOK, HttpResults,
                                     OwnCookies
  <2>5. JarIsLatest /\ SentIsChosen /\ CurrentEndsChain /\ RoomForResult
    BY DEF HttpInit, RoomForResult, JarIsLatest, SentIsChosen, CurrentEndsChain
  <2>6. ChainIsHonest /\ TruncationIsHonest
    BY <2>3 DEF ChainIsHonest, TruncationIsHonest
  <2> QED
    BY <2>4, <2>5, <2>6 DEF HttpInv
<1>2. HttpInv /\ [HttpNext]_httpVars => HttpInv'
  <2>1. CASE HttpNext
    BY <2>1, HttpTyped, RoomForResultStep, JarIsLatestStep, SentIsChosenStep,
       CurrentEndsChainStep, ChainIsHonestStep, TruncationIsHonestStep
       DEF HttpInv
  <2>2. CASE UNCHANGED httpVars
    BY <2>2 DEF httpVars, HttpInv, HttpTypeOK, RoomForResult, JarIsLatest,
                SentIsChosen, JarHas, CurrentEndsChain, ChainIsHonest,
                TruncationIsHonest
  <2> QED
    BY <2>1, <2>2
<1>3. HttpInv => HttpTypeOK /\ CookiesGoToWhoSetThem /\ HttpAnswersAreHonest
  <2> SUFFICES ASSUME HttpInv PROVE CookiesGoToWhoSetThem
    BY DEF HttpInv, HttpAnswersAreHonest
  <2> QED
    BY DEF HttpInv, HttpTypeOK, OwnCookies, JarIsLatest, SentIsChosen, JarHas,
           CookiesGoToWhoSetThem
<1> QED
  BY <1>1, <1>2, <1>3, PTL

-----------------------------------------------------------------------------
(* GeckoCache: the cached geckodriver                                      *)

\* A resolver that has a temporary file open, and one that unpacks the archive.
Downloading == {"copy", "size", "move"}
Unpacking == {"open", "target", "extract", "clean", "cleanRaised"}

\* A binary that is not whole is being extracted, by the one who truncated it last.
TornIsExtracted ==
    binary.holds = "partial" /\ ~spoiled
    => binary.by \in Resolvers /\ resolver[binary.by] = "extract"

\* A file left under a temporary name is somebody's who will remove it, or was killed.
PartIsSomeones ==
    part # NoFile => \E r \in Resolvers : resolver[r] \in Downloading \cup {"killed"}

\* An archive that is there is being unpacked, or its resolver was killed.
ArchiveIsSomeones ==
    archive # NoFile => \E r \in Resolvers : resolver[r] \in Unpacking \cup {"killed"}

\* The inductive invariant of the cache.
CacheInv == CacheTypeOK /\ TornIsExtracted /\ PartIsSomeones /\ ArchiveIsSomeones

\* Every step keeps the types.
LEMMA CacheTyped ==
    ASSUME CacheTypeOK, CacheNext
    PROVE  CacheTypeOK'
<1>1. ASSUME NEW r \in Resolvers, LookUp(r)
      PROVE  CacheTypeOK'
  BY <1>1 DEF CacheTypeOK, Active, Over, Contents, Truncated, At, LookUp
<1>2. ASSUME NEW r \in Resolvers, Fetch(r)
      PROVE  CacheTypeOK'
  BY <1>2 DEF CacheTypeOK, Active, Over, Contents, Truncated, At, Fetch
<1>3. ASSUME NEW r \in Resolvers, Copied(r)
      PROVE  CacheTypeOK'
  <2>1. PICK good \in BOOLEAN :
           /\ At(r, "copy", "size")
           /\ download' = [download EXCEPT ![file[r]].holds =
                 IF ~good THEN "bad" ELSE IF @ = "partial" /\ download[file[r]].by = r THEN "whole" ELSE @]
    BY <1>3 DEF Copied
  <2>2. download' \in [Resolvers -> [by : Resolvers \cup {NoFile}, holds : Contents]]
    BY <2>1 DEF CacheTypeOK, Contents
  <2>3. resolver' \in [Resolvers -> Active \cup Over \cup {"clean", "cleanRaised"}]
    BY <2>1 DEF CacheTypeOK, At, Active
  <2> QED
    BY <1>3, <2>2, <2>3 DEF Copied, CacheTypeOK
<1>4. ASSUME NEW r \in Resolvers, CopyFails(r)
      PROVE  CacheTypeOK'
  BY <1>4 DEF CacheTypeOK, Active, Over, Contents, Truncated, At, CopyFails
<1>5. ASSUME NEW r \in Resolvers, CheckSize(r)
      PROVE  CacheTypeOK'
  BY <1>5 DEF CacheTypeOK, Active, Over, Contents, Truncated, At, CheckSize
<1>6. ASSUME NEW r \in Resolvers, Move(r)
      PROVE  CacheTypeOK'
  BY <1>6 DEF CacheTypeOK, Active, Over, Contents, Truncated, At, Move
<1>7. ASSUME NEW r \in Resolvers, OpenArchive(r)
      PROVE  CacheTypeOK'
  BY <1>7 DEF CacheTypeOK, Active, Over, Contents, Truncated, At, OpenArchive
<1>8. ASSUME NEW r \in Resolvers, OpenTarget(r)
      PROVE  CacheTypeOK'
  BY <1>8 DEF CacheTypeOK, Active, Over, Contents, Truncated, At, OpenTarget
<1>9. ASSUME NEW r \in Resolvers, Extracted(r)
      PROVE  CacheTypeOK'
  BY <1>9 DEF CacheTypeOK, Active, Over, Contents, Truncated, At, Extracted
<1>10. ASSUME NEW r \in Resolvers, ExtractFails(r)
      PROVE  CacheTypeOK'
  BY <1>10 DEF CacheTypeOK, Active, Over, Contents, Truncated, At, ExtractFails
<1>11. ASSUME NEW r \in Resolvers, Clean(r)
      PROVE  CacheTypeOK'
  BY <1>11 DEF CacheTypeOK, Active, Over, Contents, Truncated, At, Clean
<1>12. ASSUME NEW r \in Resolvers, Kill(r)
      PROVE  CacheTypeOK'
  BY <1>12 DEF CacheTypeOK, Active, Over, Contents, Truncated, At, Kill
<1> QED
  BY <1>1, <1>2, <1>3, <1>4, <1>5, <1>6, <1>7, <1>8, <1>9, <1>10, <1>11, <1>12
     DEF CacheNext

\* Every step keeps TornIsExtracted.
LEMMA TornIsExtractedStep ==
    ASSUME CacheTypeOK, TornIsExtracted, CacheNext
    PROVE  TornIsExtracted'
<1>1. ASSUME NEW r \in Resolvers, LookUp(r)
      PROVE  TornIsExtracted'
  BY <1>1 DEF CacheTypeOK, Active, Over, Contents, Truncated, At, TornIsExtracted,
              LookUp
<1>2. ASSUME NEW r \in Resolvers, Fetch(r)
      PROVE  TornIsExtracted'
  BY <1>2 DEF CacheTypeOK, Active, Over, Contents, Truncated, At, TornIsExtracted,
              Fetch
<1>3. ASSUME NEW r \in Resolvers, Copied(r)
      PROVE  TornIsExtracted'
  BY <1>3 DEF CacheTypeOK, Active, Over, Contents, Truncated, At, TornIsExtracted,
              Copied
<1>4. ASSUME NEW r \in Resolvers, CopyFails(r)
      PROVE  TornIsExtracted'
  BY <1>4 DEF CacheTypeOK, Active, Over, Contents, Truncated, At, TornIsExtracted,
              CopyFails
<1>5. ASSUME NEW r \in Resolvers, CheckSize(r)
      PROVE  TornIsExtracted'
  BY <1>5 DEF CacheTypeOK, Active, Over, Contents, Truncated, At, TornIsExtracted,
              CheckSize
<1>6. ASSUME NEW r \in Resolvers, Move(r)
      PROVE  TornIsExtracted'
  BY <1>6 DEF CacheTypeOK, Active, Over, Contents, Truncated, At, TornIsExtracted,
              Move
<1>7. ASSUME NEW r \in Resolvers, OpenArchive(r)
      PROVE  TornIsExtracted'
  BY <1>7 DEF CacheTypeOK, Active, Over, Contents, Truncated, At, TornIsExtracted,
              OpenArchive
<1>8. ASSUME NEW r \in Resolvers, OpenTarget(r)
      PROVE  TornIsExtracted'
  BY <1>8 DEF CacheTypeOK, Active, Over, Contents, Truncated, At, TornIsExtracted,
              OpenTarget
<1>9. ASSUME NEW r \in Resolvers, Extracted(r)
      PROVE  TornIsExtracted'
  BY <1>9 DEF CacheTypeOK, Active, Over, Contents, Truncated, At, TornIsExtracted,
              Extracted
<1>10. ASSUME NEW r \in Resolvers, ExtractFails(r)
      PROVE  TornIsExtracted'
  BY <1>10 DEF CacheTypeOK, Active, Over, Contents, Truncated, At, TornIsExtracted,
               ExtractFails
<1>11. ASSUME NEW r \in Resolvers, Clean(r)
      PROVE  TornIsExtracted'
  BY <1>11 DEF CacheTypeOK, Active, Over, Contents, Truncated, At, TornIsExtracted,
               Clean
<1>12. ASSUME NEW r \in Resolvers, Kill(r)
      PROVE  TornIsExtracted'
  BY <1>12 DEF CacheTypeOK, Active, Over, Contents, Truncated, At, TornIsExtracted,
               Kill
<1> QED
  BY <1>1, <1>2, <1>3, <1>4, <1>5, <1>6, <1>7, <1>8, <1>9, <1>10, <1>11, <1>12
     DEF CacheNext

\* Every step keeps PartIsSomeones.
LEMMA PartIsSomeonesStep ==
    ASSUME CacheTypeOK, PartIsSomeones, CacheNext
    PROVE  PartIsSomeones'
<1>1. ASSUME NEW r \in Resolvers, LookUp(r)
      PROVE  PartIsSomeones'
  BY <1>1 DEF CacheTypeOK, Active, Over, Contents, Truncated, At, PartIsSomeones,
              Downloading, LookUp
<1>2. ASSUME NEW r \in Resolvers, Fetch(r)
      PROVE  PartIsSomeones'
  BY <1>2 DEF CacheTypeOK, Active, Over, Contents, Truncated, At, PartIsSomeones,
              Downloading, Fetch
<1>3. ASSUME NEW r \in Resolvers, Copied(r)
      PROVE  PartIsSomeones'
  BY <1>3 DEF CacheTypeOK, Active, Over, Contents, Truncated, At, PartIsSomeones,
              Downloading, Copied
<1>4. ASSUME NEW r \in Resolvers, CopyFails(r)
      PROVE  PartIsSomeones'
  BY <1>4 DEF CacheTypeOK, Active, Over, Contents, Truncated, At, PartIsSomeones,
              Downloading, CopyFails
<1>5. ASSUME NEW r \in Resolvers, CheckSize(r)
      PROVE  PartIsSomeones'
  BY <1>5 DEF CacheTypeOK, Active, Over, Contents, Truncated, At, PartIsSomeones,
              Downloading, CheckSize
<1>6. ASSUME NEW r \in Resolvers, Move(r)
      PROVE  PartIsSomeones'
  BY <1>6 DEF CacheTypeOK, Active, Over, Contents, Truncated, At, PartIsSomeones,
              Downloading, Move
<1>7. ASSUME NEW r \in Resolvers, OpenArchive(r)
      PROVE  PartIsSomeones'
  BY <1>7 DEF CacheTypeOK, Active, Over, Contents, Truncated, At, PartIsSomeones,
              Downloading, OpenArchive
<1>8. ASSUME NEW r \in Resolvers, OpenTarget(r)
      PROVE  PartIsSomeones'
  BY <1>8 DEF CacheTypeOK, Active, Over, Contents, Truncated, At, PartIsSomeones,
              Downloading, OpenTarget
<1>9. ASSUME NEW r \in Resolvers, Extracted(r)
      PROVE  PartIsSomeones'
  BY <1>9 DEF CacheTypeOK, Active, Over, Contents, Truncated, At, PartIsSomeones,
              Downloading, Extracted
<1>10. ASSUME NEW r \in Resolvers, ExtractFails(r)
      PROVE  PartIsSomeones'
  BY <1>10 DEF CacheTypeOK, Active, Over, Contents, Truncated, At, PartIsSomeones,
               Downloading, ExtractFails
<1>11. ASSUME NEW r \in Resolvers, Clean(r)
      PROVE  PartIsSomeones'
  BY <1>11 DEF CacheTypeOK, Active, Over, Contents, Truncated, At, PartIsSomeones,
               Downloading, Clean
<1>12. ASSUME NEW r \in Resolvers, Kill(r)
      PROVE  PartIsSomeones'
  BY <1>12 DEF CacheTypeOK, Active, Over, Contents, Truncated, At, PartIsSomeones,
               Downloading, Kill
<1> QED
  BY <1>1, <1>2, <1>3, <1>4, <1>5, <1>6, <1>7, <1>8, <1>9, <1>10, <1>11, <1>12
     DEF CacheNext

\* Every step keeps ArchiveIsSomeones.
LEMMA ArchiveIsSomeonesStep ==
    ASSUME CacheTypeOK, ArchiveIsSomeones, CacheNext
    PROVE  ArchiveIsSomeones'
<1>1. ASSUME NEW r \in Resolvers, LookUp(r)
      PROVE  ArchiveIsSomeones'
  BY <1>1 DEF CacheTypeOK, Active, Over, Contents, Truncated, At, ArchiveIsSomeones,
              Unpacking, LookUp
<1>2. ASSUME NEW r \in Resolvers, Fetch(r)
      PROVE  ArchiveIsSomeones'
  BY <1>2 DEF CacheTypeOK, Active, Over, Contents, Truncated, At, ArchiveIsSomeones,
              Unpacking, Fetch
<1>3. ASSUME NEW r \in Resolvers, Copied(r)
      PROVE  ArchiveIsSomeones'
  BY <1>3 DEF CacheTypeOK, Active, Over, Contents, Truncated, At, ArchiveIsSomeones,
              Unpacking, Copied
<1>4. ASSUME NEW r \in Resolvers, CopyFails(r)
      PROVE  ArchiveIsSomeones'
  BY <1>4 DEF CacheTypeOK, Active, Over, Contents, Truncated, At, ArchiveIsSomeones,
              Unpacking, CopyFails
<1>5. ASSUME NEW r \in Resolvers, CheckSize(r)
      PROVE  ArchiveIsSomeones'
  BY <1>5 DEF CacheTypeOK, Active, Over, Contents, Truncated, At, ArchiveIsSomeones,
              Unpacking, CheckSize
<1>6. ASSUME NEW r \in Resolvers, Move(r)
      PROVE  ArchiveIsSomeones'
  BY <1>6 DEF CacheTypeOK, Active, Over, Contents, Truncated, At, ArchiveIsSomeones,
              Unpacking, Move
<1>7. ASSUME NEW r \in Resolvers, OpenArchive(r)
      PROVE  ArchiveIsSomeones'
  BY <1>7 DEF CacheTypeOK, Active, Over, Contents, Truncated, At, ArchiveIsSomeones,
              Unpacking, OpenArchive
<1>8. ASSUME NEW r \in Resolvers, OpenTarget(r)
      PROVE  ArchiveIsSomeones'
  BY <1>8 DEF CacheTypeOK, Active, Over, Contents, Truncated, At, ArchiveIsSomeones,
              Unpacking, OpenTarget
<1>9. ASSUME NEW r \in Resolvers, Extracted(r)
      PROVE  ArchiveIsSomeones'
  BY <1>9 DEF CacheTypeOK, Active, Over, Contents, Truncated, At, ArchiveIsSomeones,
              Unpacking, Extracted
<1>10. ASSUME NEW r \in Resolvers, ExtractFails(r)
      PROVE  ArchiveIsSomeones'
  BY <1>10 DEF CacheTypeOK, Active, Over, Contents, Truncated, At,
               ArchiveIsSomeones, Unpacking, ExtractFails
<1>11. ASSUME NEW r \in Resolvers, Clean(r)
      PROVE  ArchiveIsSomeones'
  BY <1>11 DEF CacheTypeOK, Active, Over, Contents, Truncated, At,
               ArchiveIsSomeones, Unpacking, Clean
<1>12. ASSUME NEW r \in Resolvers, Kill(r)
      PROVE  ArchiveIsSomeones'
  BY <1>12 DEF CacheTypeOK, Active, Over, Contents, Truncated, At,
               ArchiveIsSomeones, Unpacking, Kill
<1> QED
  BY <1>1, <1>2, <1>3, <1>4, <1>5, <1>6, <1>7, <1>8, <1>9, <1>10, <1>11, <1>12
     DEF CacheNext

\* The cache is clean: CacheIsClean follows from the invariant.
LEMMA CacheKept ==
    CacheInit /\ [][CacheNext]_cacheVars => [](CacheTypeOK /\ CacheIsClean)
<1>1. CacheInit => CacheInv
  <2> SUFFICES ASSUME CacheInit PROVE CacheInv
    OBVIOUS
  <2>1. CacheTypeOK
    BY DEF CacheInit, CacheTypeOK, Active, Over, Contents, Truncated
  <2>2. TornIsExtracted
    BY DEF CacheInit, TornIsExtracted, Truncated
  <2>3. PartIsSomeones /\ ArchiveIsSomeones
    BY DEF CacheInit, PartIsSomeones, ArchiveIsSomeones
  <2> QED
    BY <2>1, <2>2, <2>3 DEF CacheInv
<1>2. CacheInv /\ [CacheNext]_cacheVars => CacheInv'
  <2>1. CASE CacheNext
    BY <2>1, CacheTyped, TornIsExtractedStep, PartIsSomeonesStep,
       ArchiveIsSomeonesStep
       DEF CacheInv
  <2>2. CASE UNCHANGED cacheVars
    BY <2>2 DEF cacheVars, CacheInv, CacheTypeOK, TornIsExtracted, PartIsSomeones,
                ArchiveIsSomeones
  <2> QED
    BY <2>1, <2>2
<1>3. CacheInv => CacheTypeOK /\ CacheIsClean
  <2> SUFFICES ASSUME CacheInv PROVE CachedBinaryIsWhole /\ NothingLeftInCache
    BY DEF CacheInv, CacheIsClean
  <2>1. CachedBinaryIsWhole
    BY DEF CacheInv, CacheTypeOK, Contents, TornIsExtracted, CachedBinaryIsWhole
  <2>2. NothingLeftInCache
    BY DEF CacheInv, PartIsSomeones, ArchiveIsSomeones, Downloading, Unpacking,
           NothingLeftInCache, Over
  <2> QED
    BY <2>1, <2>2
<1> QED
  BY <1>1, <1>2, <1>3, PTL
=============================================================================
