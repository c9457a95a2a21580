------------------------- MODULE HelperBridgeProofs -------------------------
(***************************************************************************)
(* What HelperBridge guarantees for every number of calls, of poll threads *)
(* and of ids.  Each Frame lemma says which actions touch a group of       *)
(* variables; each Step lemma shows that those keep one part of the        *)
(* inductive invariant; the theorems follow at the end.                    *)
(***************************************************************************)
EXTENDS HelperBridge, TLAPS

LEMMA BridgeFrame ==
    [Next]_vars =>
        \/ FallSilent \/ WatchdogDisconnect \/ WatchdogSnapshot \/ CloseMark
              \/ CloseSignal \/ CloseServer \/ HandleEvent \/ HandleHello \/
              ExtPoll
        \/ \E h \in Polls : PollTake(h)
        \/ \E i \in Ids : ResponseLookup(i)
        \/ UNCHANGED stateVars
BY DEF Next, CallStep, SweepStep, WatchdogStep, CloseStep, InstallStep,
       PollStep, ResponseStep, ExtStep, ReqRefuse, ReqAdmit, ReqRegister,
       ReqEnqueue, ReqWake, ReqTimeout, ReqExpire, ReqReturn, SweepSkip,
       SweepError, SweepSet, WatchdogResume, InstallConnected, InstallFailed,
       OwnerTearsDown, CloseSnapshot, CloseDone, PollExpire, PollReply,
       ResponseLost, ResponseAccept, ResponseAssign, ResponseSet, ExtHello,
       ExtPollFails, ExtDies, ExtHandle, vars

LEMMA TableFrame ==
    [Next]_vars =>
        \/ \E c \in Calls : ReqRegister(c) \/ ReqWake(c) \/ ReqTimeout(c)
        \/ WatchdogSnapshot \/ CloseSnapshot
        \/ UNCHANGED tableVars
BY DEF Next, CallStep, SweepStep, WatchdogStep, CloseStep, InstallStep,
       PollStep, ResponseStep, ExtStep, ReqRefuse, ReqAdmit, ReqEnqueue,
       ReqExpire, ReqReturn, SweepSkip, SweepError, SweepSet, FallSilent,
       WatchdogDisconnect, WatchdogResume, InstallConnected, InstallFailed,
       OwnerTearsDown, CloseMark, CloseSignal, CloseServer, CloseDone,
       PollTake, PollExpire, PollReply, ResponseLost, ResponseAccept,
       ResponseLookup, ResponseAssign, ResponseSet, HandleEvent, ExtHello,
       HandleHello, ExtPoll, ExtPollFails, ExtDies, ExtHandle, vars

LEMMA QueueFrame ==
    [Next]_vars =>
        \/ \E c \in Calls : ReqEnqueue(c)
        \/ \E h \in Polls : PollTake(h)
        \/ UNCHANGED queueVars
BY DEF Next, CallStep, SweepStep, WatchdogStep, CloseStep, InstallStep,
       PollStep, ResponseStep, ExtStep, ReqRefuse, ReqAdmit, ReqRegister,
       ReqWake, ReqTimeout, ReqExpire, ReqReturn, SweepSkip, SweepError,
       SweepSet, FallSilent, WatchdogDisconnect, WatchdogSnapshot,
       WatchdogResume, InstallConnected, InstallFailed, OwnerTearsDown,
       CloseMark, CloseSignal, CloseServer, CloseSnapshot, CloseDone,
       PollExpire, PollReply, ResponseLost, ResponseAccept, ResponseLookup,
       ResponseAssign, ResponseSet, HandleEvent, ExtHello, HandleHello,
       ExtPoll, ExtPollFails, ExtDies, ExtHandle, vars

LEMMA EntryFrame ==
    [Next]_vars =>
        \/ \E c \in Calls : ReqExpire(c)
        \/ \E s \in Sweepers, c \in Calls : SweepError(s, c)
        \/ \E s \in Sweepers : SweepSet(s)
        \/ \E i \in Ids : ResponseAssign(i) \/ ResponseSet(i)
        \/ UNCHANGED entryVars
BY DEF Next, CallStep, SweepStep, WatchdogStep, CloseStep, InstallStep,
       PollStep, ResponseStep, ExtStep, ReqRefuse, ReqAdmit, ReqRegister,
       ReqEnqueue, ReqWake, ReqTimeout, ReqReturn, SweepSkip, FallSilent,
       WatchdogDisconnect, WatchdogSnapshot, WatchdogResume,
       InstallConnected, InstallFailed, OwnerTearsDown, CloseMark,
       CloseSignal, CloseServer, CloseSnapshot, CloseDone, PollTake,
       PollExpire, PollReply, ResponseLost, ResponseAccept, ResponseLookup,
       HandleEvent, ExtHello, HandleHello, ExtPoll, ExtPollFails, ExtDies,
       ExtHandle, vars

LEMMA CallFrame ==
    [Next]_vars =>
        \/ \E c \in Calls : ReqRefuse(c) \/ ReqAdmit(c) \/ ReqRegister(c) \/
              ReqEnqueue(c) \/ ReqWake(c) \/ ReqTimeout(c) \/ ReqExpire(c) \/
              ReqReturn(c)
        \/ UNCHANGED callVars
BY DEF Next, CallStep, SweepStep, WatchdogStep, CloseStep, InstallStep,
       PollStep, ResponseStep, ExtStep, SweepSkip, SweepError, SweepSet,
       FallSilent, WatchdogDisconnect, WatchdogSnapshot, WatchdogResume,
       InstallConnected, InstallFailed, OwnerTearsDown, CloseMark,
       CloseSignal, CloseServer, CloseSnapshot, CloseDone, PollTake,
       PollExpire, PollReply, ResponseLost, ResponseAccept, ResponseLookup,
       ResponseAssign, ResponseSet, HandleEvent, ExtHello, HandleHello,
       ExtPoll, ExtPollFails, ExtDies, ExtHandle, vars

LEMMA OwnerFrame ==
    [Next]_vars =>
        \/ InstallConnected \/ InstallFailed \/ OwnerTearsDown \/ CloseMark
              \/ CloseSignal \/ CloseServer \/ CloseSnapshot \/ CloseDone
        \/ UNCHANGED ownerVars
BY DEF Next, CallStep, SweepStep, WatchdogStep, CloseStep, InstallStep,
       PollStep, ResponseStep, ExtStep, ReqRefuse, ReqAdmit, ReqRegister,
       ReqEnqueue, ReqWake, ReqTimeout, ReqExpire, ReqReturn, SweepSkip,
       SweepError, SweepSet, FallSilent, WatchdogDisconnect,
       WatchdogSnapshot, WatchdogResume, PollTake, PollExpire, PollReply,
       ResponseLost, ResponseAccept, ResponseLookup, ResponseAssign,
       ResponseSet, HandleEvent, ExtHello, HandleHello, ExtPoll,
       ExtPollFails, ExtDies, ExtHandle, vars

LEMMA SweepFrame ==
    [Next]_vars =>
        \/ \E s \in Sweepers, c \in Calls : SweepSkip(s, c) \/ SweepError(s,
              c)
        \/ \E s \in Sweepers : SweepSet(s)
        \/ WatchdogDisconnect \/ WatchdogSnapshot \/ WatchdogResume \/
              CloseSnapshot
        \/ UNCHANGED sweepVars
BY DEF Next, CallStep, SweepStep, WatchdogStep, CloseStep, InstallStep,
       PollStep, ResponseStep, ExtStep, ReqRefuse, ReqAdmit, ReqRegister,
       ReqEnqueue, ReqWake, ReqTimeout, ReqExpire, ReqReturn, FallSilent,
       InstallConnected, InstallFailed, OwnerTearsDown, CloseMark,
       CloseSignal, CloseServer, CloseDone, PollTake, PollExpire, PollReply,
       ResponseLost, ResponseAccept, ResponseLookup, ResponseAssign,
       ResponseSet, HandleEvent, ExtHello, HandleHello, ExtPoll,
       ExtPollFails, ExtDies, ExtHandle, vars

LEMMA HttpFrame ==
    [Next]_vars =>
        \/ \E h \in Polls : PollTake(h) \/ PollExpire(h) \/ PollReply(h)
        \/ \E i \in Ids : ResponseLost(i) \/ ResponseAccept(i) \/
              ResponseLookup(i) \/ ResponseAssign(i) \/ ResponseSet(i)
        \/ ExtHello \/ HandleHello \/ ExtPoll \/ ExtPollFails \/ ExtDies
        \/ \E i \in Ids, how \in {"applied", "rejected"} : ExtHandle(i, how)
        \/ UNCHANGED httpVars
BY DEF Next, CallStep, SweepStep, WatchdogStep, CloseStep, InstallStep,
       PollStep, ResponseStep, ExtStep, ReqRefuse, ReqAdmit, ReqRegister,
       ReqEnqueue, ReqWake, ReqTimeout, ReqExpire, ReqReturn, SweepSkip,
       SweepError, SweepSet, FallSilent, WatchdogDisconnect,
       WatchdogSnapshot, WatchdogResume, InstallConnected, InstallFailed,
       OwnerTearsDown, CloseMark, CloseSignal, CloseServer, CloseSnapshot,
       CloseDone, HandleEvent, vars

LEMMA PageFrame ==
    [Next]_vars =>
        \/ \E h \in Polls : PollExpire(h) \/ PollReply(h)
        \/ ExtHello \/ HandleHello \/ ExtPoll \/ ExtPollFails \/ ExtDies
        \/ \E i \in Ids, how \in {"applied", "rejected"} : ExtHandle(i, how)
        \/ UNCHANGED extVars
BY DEF Next, CallStep, SweepStep, WatchdogStep, CloseStep, InstallStep,
       PollStep, ResponseStep, ExtStep, ReqRefuse, ReqAdmit, ReqRegister,
       ReqEnqueue, ReqWake, ReqTimeout, ReqExpire, ReqReturn, SweepSkip,
       SweepError, SweepSet, FallSilent, WatchdogDisconnect,
       WatchdogSnapshot, WatchdogResume, InstallConnected, InstallFailed,
       OwnerTearsDown, CloseMark, CloseSignal, CloseServer, CloseSnapshot,
       CloseDone, PollTake, ResponseLost, ResponseAccept, ResponseLookup,
       ResponseAssign, ResponseSet, HandleEvent, vars

-----------------------------------------------------------------------------
LEMMA TypeInit == Init => TypeOK
<1> USE MaxIdAssumption DEF Init, Ids, NoId
<1> SUFFICES ASSUME Init PROVE TypeOK
  OBVIOUS
<1>1. BridgeType /\ OwnerType
  BY DEF BridgeType, OwnerType
<1>6. TableType
  BY DEF TableType
<1>2. QueueType /\ EntryType /\ CallType
  BY DEF QueueType, EntryType, CallType, Outcomes
<1>3. SweepType
  BY DEF SweepType
<1>4. HttpType
  BY DEF HttpType, PollStates, PollFree
<1>5. PageType
  BY DEF PageType
<1> QED
  BY <1>1, <1>2, <1>3, <1>4, <1>5, <1>6 DEF TypeOK

LEMMA TypeStep == TypeOK /\ [Next]_vars => TypeOK'
<1> SUFFICES ASSUME TypeOK, [Next]_vars PROVE TypeOK'
  OBVIOUS
<1> USE MaxIdAssumption DEF TypeOK
<1>1. BridgeType'
  BY BridgeFrame DEF BridgeType, stateVars, FallSilent, WatchdogDisconnect,
     WatchdogSnapshot, CloseMark, CloseSignal, CloseServer, HandleEvent,
     HandleHello, ExtPoll, PollTake, ResponseLookup
<1>2. TableType'
  BY TableFrame DEF TableType, tableVars, ReqRegister, ReqWake, ReqTimeout,
     WatchdogSnapshot, CloseSnapshot, Snapshot, Unregister, Ids
<1>3. QueueType'
  <2>1. CASE \E c \in Calls : ReqEnqueue(c)
    <3> PICK c \in Calls : ReqEnqueue(c)
      BY <2>1
    <3>1. pc[c] = "registered" /\ sent' = Append(sent, id[c]) /\ taken' = taken
      BY DEF ReqEnqueue
    <3>2. id[c] \in Ids
      BY <3>1 DEF CallType
    <3> QED
      BY <3>1, <3>2 DEF QueueType
  <2>2. CASE \E h \in Polls : PollTake(h)
    BY <2>2 DEF QueueType, PollTake
  <2>3. CASE UNCHANGED queueVars
    BY <2>3 DEF QueueType, queueVars
  <2> QED
    BY <2>1, <2>2, <2>3, QueueFrame
<1>4. EntryType'
  BY EntryFrame DEF EntryType, SweepType, HttpType, entryVars, ReqExpire, SweepError,
     SweepSet, ResponseAssign, ResponseSet, Sweepers
<1>5. CallType'
  <2>1. ASSUME NEW c \in Calls, ReqRefuse(c) PROVE CallType'
    BY <2>1 DEF ReqRefuse, CallType, TableType, EntryType, Outcomes
  <2>2. ASSUME NEW c \in Calls, ReqAdmit(c) PROVE CallType'
    BY <2>2 DEF ReqAdmit, CallType, TableType, EntryType, Outcomes
  <2>3. ASSUME NEW c \in Calls, ReqRegister(c) PROVE CallType'
    BY <2>3 DEF ReqRegister, CallType, TableType, EntryType, Outcomes
  <2>4. ASSUME NEW c \in Calls, ReqEnqueue(c) PROVE CallType'
    BY <2>4 DEF ReqEnqueue, CallType, TableType, EntryType, Outcomes
  <2>5. ASSUME NEW c \in Calls, ReqWake(c) PROVE CallType'
    BY <2>5 DEF ReqWake, CallType, TableType, EntryType, Outcomes
  <2>6. ASSUME NEW c \in Calls, ReqTimeout(c) PROVE CallType'
    BY <2>6 DEF ReqTimeout, CallType, TableType, EntryType, Outcomes
  <2>7. ASSUME NEW c \in Calls, ReqExpire(c) PROVE CallType'
    BY <2>7 DEF ReqExpire, CallType, TableType, EntryType, Outcomes
  <2>8. ASSUME NEW c \in Calls, ReqReturn(c) PROVE CallType'
    BY <2>8 DEF ReqReturn, CallType, TableType, EntryType, Outcomes
  <2>9. CASE UNCHANGED callVars
    BY <2>9 DEF CallType, TableType, EntryType, Outcomes, callVars
  <2> QED
    BY <2>1, <2>2, <2>3, <2>4, <2>5, <2>6, <2>7, <2>8, <2>9, CallFrame
<1>6. OwnerType'
  BY OwnerFrame DEF OwnerType, BridgeType, ownerVars, InstallConnected, InstallFailed,
     OwnerTearsDown, CloseMark, CloseSignal, CloseServer, CloseSnapshot, CloseDone
<1>7. SweepType'
  BY SweepFrame DEF SweepType, TableType, sweepVars, SweepSkip, SweepError, SweepSet,
     WatchdogDisconnect, WatchdogSnapshot, WatchdogResume, CloseSnapshot, Snapshot, Sweepers
<1>8. HttpType'
  <2>1. ASSUME NEW h \in Polls, PollTake(h) PROVE HttpType'
    <3>1. sent[taken + 1] \in Ids
      BY <2>1 DEF PollTake, QueueType
    <3>2. poll' = [poll EXCEPT ![h] = [at |-> "holding", item |-> sent[taken + 1],
                                       attached |-> poll[h].attached]]
      BY <2>1 DEF PollTake, HttpType, PollStates
    <3>3. poll[h].attached \in BOOLEAN
      BY <2>1 DEF HttpType, PollStates
    <3>4. [at |-> "holding", item |-> sent[taken + 1], attached |-> poll[h].attached] \in PollStates
      BY <3>1, <3>3 DEF PollStates
    <3>5. poll' \in [Polls -> PollStates]
      BY <3>2, <3>4 DEF HttpType
    <3> QED
      BY <2>1, <3>5 DEF PollTake, HttpType
  <2>2. ASSUME NEW h \in Polls, PollExpire(h) PROVE HttpType'
    BY <2>2 DEF PollExpire, HttpType, TableType, QueueType, PollStates, PollFree, Abandon
  <2>3. ASSUME NEW h \in Polls, PollReply(h) PROVE HttpType'
    BY <2>3 DEF PollReply, HttpType, TableType, QueueType, PollStates, PollFree, Abandon
  <2>4. ASSUME NEW i \in Ids, ResponseLost(i) PROVE HttpType'
    BY <2>4 DEF ResponseLost, HttpType, TableType, QueueType, PollStates, PollFree, Abandon
  <2>5. ASSUME NEW i \in Ids, ResponseAccept(i) PROVE HttpType'
    BY <2>5 DEF ResponseAccept, HttpType, TableType, QueueType, PollStates, PollFree, Abandon
  <2>6. ASSUME NEW i \in Ids, ResponseLookup(i) PROVE HttpType'
    BY <2>6 DEF ResponseLookup, HttpType, TableType, QueueType, PollStates, PollFree, Abandon
  <2>7. ASSUME NEW i \in Ids, ResponseAssign(i) PROVE HttpType'
    BY <2>7 DEF ResponseAssign, HttpType, TableType, QueueType, PollStates, PollFree, Abandon
  <2>8. ASSUME NEW i \in Ids, ResponseSet(i) PROVE HttpType'
    BY <2>8 DEF ResponseSet, HttpType, TableType, QueueType, PollStates, PollFree, Abandon
  <2>9. ASSUME ExtHello PROVE HttpType'
    BY <2>9 DEF ExtHello, HttpType, TableType, QueueType, PollStates, PollFree, Abandon
  <2>10. ASSUME HandleHello PROVE HttpType'
    BY <2>10 DEF HandleHello, HttpType, TableType, QueueType, PollStates, PollFree, Abandon
  <2>11. ASSUME ExtPoll PROVE HttpType'
    <3>1. [at |-> "parked", item |-> NoId, attached |-> TRUE] \in PollStates
      BY DEF PollStates
    <3>2. poll' \in [Polls -> PollStates]
      BY <2>11, <3>1 DEF ExtPoll, HttpType
    <3> QED
      BY <2>11, <3>2 DEF ExtPoll, HttpType
  <2>12. ASSUME ExtPollFails PROVE HttpType'
    BY <2>12 DEF ExtPollFails, HttpType, TableType, QueueType, PollStates, PollFree, Abandon
  <2>13. ASSUME ExtDies PROVE HttpType'
    BY <2>13 DEF ExtDies, HttpType, TableType, QueueType, PollStates, PollFree, Abandon
  <2>14. ASSUME NEW i \in Ids, NEW how \in {"applied", "rejected"}, ExtHandle(i, how) PROVE HttpType'
    BY <2>14 DEF ExtHandle, HttpType, TableType, QueueType, PollStates, PollFree, Abandon
  <2>15. CASE UNCHANGED httpVars
    BY <2>15 DEF HttpType, TableType, QueueType, PollStates, PollFree, Abandon, httpVars
  <2> QED
    BY <2>1, <2>2, <2>3, <2>4, <2>5, <2>6, <2>7, <2>8, <2>9, <2>10, <2>11, <2>12, <2>13, <2>14, <2>15, HttpFrame
<1>9. PageType'
  <2>1. ASSUME NEW h \in Polls, PollExpire(h) PROVE PageType'
    BY <2>1 DEF PollExpire, PageType, HttpType, PollStates
  <2>2. ASSUME NEW h \in Polls, PollReply(h) PROVE PageType'
    <3>1. poll[h].item \in Ids
      BY <2>2 DEF PollReply, HttpType, PollStates
    <3>2. received \in Seq(Ids) /\ received' \in Seq(Ids)
      BY <2>2, <3>1 DEF PollReply, PageType
    <3> QED
      BY <2>2, <3>1, <3>2 DEF PollReply, PageType
  <2>3. ASSUME ExtHello PROVE PageType'
    BY <2>3 DEF ExtHello, PageType, HttpType, PollStates
  <2>4. ASSUME HandleHello PROVE PageType'
    BY <2>4 DEF HandleHello, PageType, HttpType, PollStates
  <2>5. ASSUME ExtPoll PROVE PageType'
    BY <2>5 DEF ExtPoll, PageType, HttpType, PollStates
  <2>6. ASSUME ExtPollFails PROVE PageType'
    BY <2>6 DEF ExtPollFails, PageType, HttpType, PollStates
  <2>7. ASSUME ExtDies PROVE PageType'
    BY <2>7 DEF ExtDies, PageType, HttpType, PollStates
  <2>8. ASSUME NEW i \in Ids, NEW how \in {"applied", "rejected"}, ExtHandle(i, how) PROVE PageType'
    BY <2>8 DEF ExtHandle, PageType, HttpType, PollStates
  <2>9. CASE UNCHANGED extVars
    BY <2>9 DEF PageType, HttpType, PollStates, extVars
  <2> QED
    BY <2>1, <2>2, <2>3, <2>4, <2>5, <2>6, <2>7, <2>8, <2>9, PageFrame
<1> QED
  BY <1>1, <1>2, <1>3, <1>4, <1>5, <1>6, <1>7, <1>8, <1>9 DEF TypeOK

-----------------------------------------------------------------------------
(* An id belongs to one call; the table holds live calls.                  *)

LEMMA IdFrame ==
    [Next]_vars =>
        \/ \E c \in Calls : ReqRefuse(c) \/ ReqAdmit(c) \/ ReqRegister(c) \/
              ReqEnqueue(c) \/ ReqWake(c) \/ ReqTimeout(c) \/ ReqExpire(c) \/
              ReqReturn(c)
        \/ UNCHANGED <<callVars, nextId>>
BY DEF Next, CallStep, SweepStep, WatchdogStep, CloseStep, InstallStep,
       PollStep, ResponseStep, ExtStep, SweepSkip, SweepError, SweepSet,
       FallSilent, WatchdogDisconnect, WatchdogSnapshot, WatchdogResume,
       InstallConnected, InstallFailed, OwnerTearsDown, CloseMark,
       CloseSignal, CloseServer, CloseSnapshot, CloseDone, PollTake,
       PollExpire, PollReply, ResponseLost, ResponseAccept, ResponseLookup,
       ResponseAssign, ResponseSet, HandleEvent, ExtHello, HandleHello,
       ExtPoll, ExtPollFails, ExtDies, ExtHandle, tableVars,
       WatchdogSnapshot, CloseSnapshot, vars

LEMMA CallIdsStep == TypeOK /\ CallIds /\ [Next]_vars => CallIds'
<1> SUFFICES ASSUME TypeOK, CallIds, [Next]_vars PROVE CallIds'
  OBVIOUS
<1>1. ASSUME NEW c \in Calls, ReqRefuse(c) PROVE CallIds'
  BY <1>1 DEF ReqRefuse, CallIds, TypeOK, CallType, TableType, EntryType,
       Ids, NoId, Outcomes, tableVars
<1>2. ASSUME NEW c \in Calls, ReqAdmit(c) PROVE CallIds'
  BY <1>2 DEF ReqAdmit, CallIds, TypeOK, CallType, TableType, EntryType, Ids,
       NoId, Outcomes, tableVars
<1>3. ASSUME NEW c \in Calls, ReqRegister(c) PROVE CallIds'
  BY <1>3 DEF ReqRegister, CallIds, TypeOK, CallType, TableType, EntryType,
       Ids, NoId, Outcomes
<1>4. ASSUME NEW c \in Calls, ReqEnqueue(c) PROVE CallIds'
  BY <1>4 DEF ReqEnqueue, CallIds, TypeOK, CallType, TableType, EntryType,
       Ids, NoId, Outcomes, tableVars
<1>5. ASSUME NEW c \in Calls, ReqWake(c) PROVE CallIds'
  BY <1>5 DEF ReqWake, CallIds, TypeOK, CallType, TableType, EntryType, Ids,
       NoId, Outcomes, Unregister
<1>6. ASSUME NEW c \in Calls, ReqTimeout(c) PROVE CallIds'
  BY <1>6 DEF ReqTimeout, CallIds, TypeOK, CallType, TableType, EntryType,
       Ids, NoId, Outcomes, Unregister
<1>7. ASSUME NEW c \in Calls, ReqExpire(c) PROVE CallIds'
  BY <1>7 DEF ReqExpire, CallIds, TypeOK, CallType, TableType, EntryType,
       Ids, NoId, Outcomes, tableVars
<1>8. ASSUME NEW c \in Calls, ReqReturn(c) PROVE CallIds'
  BY <1>8 DEF ReqReturn, CallIds, TypeOK, CallType, TableType, EntryType,
       Ids, NoId, Outcomes, tableVars
<1>9. CASE UNCHANGED <<callVars, nextId>>
  BY <1>9 DEF CallIds, TypeOK, CallType, TableType, EntryType, Ids, NoId,
       Outcomes, callVars
<1> QED
  BY <1>1, <1>2, <1>3, <1>4, <1>5, <1>6, <1>7, <1>8, <1>9, IdFrame

LEMMA PendingFrame ==
    [Next]_vars =>
        \/ \E c \in Calls : ReqRefuse(c) \/ ReqAdmit(c) \/ ReqRegister(c) \/
              ReqEnqueue(c) \/ ReqWake(c) \/ ReqTimeout(c) \/ ReqExpire(c) \/
              ReqReturn(c)
        \/ WatchdogSnapshot \/ CloseSnapshot
        \/ UNCHANGED <<callVars, pending>>
BY DEF Next, CallStep, SweepStep, WatchdogStep, CloseStep, InstallStep,
       PollStep, ResponseStep, ExtStep, SweepSkip, SweepError, SweepSet,
       FallSilent, WatchdogDisconnect, WatchdogResume, InstallConnected,
       InstallFailed, OwnerTearsDown, CloseMark, CloseSignal, CloseServer,
       CloseDone, PollTake, PollExpire, PollReply, ResponseLost,
       ResponseAccept, ResponseLookup, ResponseAssign, ResponseSet,
       HandleEvent, ExtHello, HandleHello, ExtPoll, ExtPollFails, ExtDies,
       ExtHandle, tableVars, vars

LEMMA PendingStep == TypeOK /\ CallIds /\ PendingBelongsToLiveCall /\ [Next]_vars => PendingBelongsToLiveCall'
<1> SUFFICES ASSUME TypeOK, CallIds, PendingBelongsToLiveCall, [Next]_vars PROVE PendingBelongsToLiveCall'
  OBVIOUS
<1> USE CallsAssumption
<1>1. ASSUME NEW c \in Calls, ReqRefuse(c) PROVE PendingBelongsToLiveCall'
  BY <1>1 DEF ReqRefuse, PendingBelongsToLiveCall, CallIds, TypeOK, CallType,
       TableType, NoId, Ids, tableVars
<1>2. ASSUME NEW c \in Calls, ReqAdmit(c) PROVE PendingBelongsToLiveCall'
  BY <1>2 DEF ReqAdmit, PendingBelongsToLiveCall, CallIds, TypeOK, CallType,
       TableType, NoId, Ids, tableVars
<1>3. ASSUME NEW c \in Calls, ReqRegister(c) PROVE PendingBelongsToLiveCall'
  BY <1>3 DEF ReqRegister, PendingBelongsToLiveCall, CallIds, TypeOK,
       CallType, TableType, NoId, Ids
<1>4. ASSUME NEW c \in Calls, ReqEnqueue(c) PROVE PendingBelongsToLiveCall'
  BY <1>4 DEF ReqEnqueue, PendingBelongsToLiveCall, CallIds, TypeOK,
       CallType, TableType, NoId, Ids, tableVars
<1>5. ASSUME NEW c \in Calls, ReqWake(c) PROVE PendingBelongsToLiveCall'
  BY <1>5 DEF ReqWake, PendingBelongsToLiveCall, CallIds, TypeOK, CallType,
       TableType, NoId, Ids, Unregister
<1>6. ASSUME NEW c \in Calls, ReqTimeout(c) PROVE PendingBelongsToLiveCall'
  BY <1>6 DEF ReqTimeout, PendingBelongsToLiveCall, CallIds, TypeOK,
       CallType, TableType, NoId, Ids, Unregister
<1>7. ASSUME NEW c \in Calls, ReqExpire(c) PROVE PendingBelongsToLiveCall'
  BY <1>7 DEF ReqExpire, PendingBelongsToLiveCall, CallIds, TypeOK, CallType,
       TableType, NoId, Ids, tableVars
<1>8. ASSUME NEW c \in Calls, ReqReturn(c) PROVE PendingBelongsToLiveCall'
  BY <1>8 DEF ReqReturn, PendingBelongsToLiveCall, CallIds, TypeOK, CallType,
       TableType, NoId, Ids, tableVars
<1>9. ASSUME WatchdogSnapshot PROVE PendingBelongsToLiveCall'
  BY <1>9 DEF WatchdogSnapshot, PendingBelongsToLiveCall, CallIds, TypeOK,
       CallType, TableType, NoId, Ids, Snapshot, callVars
<1>10. ASSUME CloseSnapshot PROVE PendingBelongsToLiveCall'
  BY <1>10 DEF CloseSnapshot, PendingBelongsToLiveCall, CallIds, TypeOK,
       CallType, TableType, NoId, Ids, Snapshot, callVars
<1>11. CASE UNCHANGED <<callVars, pending>>
  BY <1>11 DEF PendingBelongsToLiveCall, CallIds, TypeOK, CallType,
       TableType, NoId, Ids, callVars
<1> QED
  BY <1>1, <1>2, <1>3, <1>4, <1>5, <1>6, <1>7, <1>8, <1>9, <1>10, <1>11,
       PendingFrame

-----------------------------------------------------------------------------
(* A frame exists once.                                                    *)

LEMMA SentFrame ==
    [Next]_vars =>
        \/ \E c \in Calls : ReqRefuse(c) \/ ReqAdmit(c) \/ ReqRegister(c) \/
              ReqEnqueue(c) \/ ReqWake(c) \/ ReqTimeout(c) \/ ReqExpire(c) \/
              ReqReturn(c)
        \/ UNCHANGED <<id, pc, nextId, sent>>
BY DEF Next, CallStep, SweepStep, WatchdogStep, CloseStep, InstallStep,
       PollStep, ResponseStep, ExtStep, SweepSkip, SweepError, SweepSet,
       FallSilent, WatchdogDisconnect, WatchdogSnapshot, WatchdogResume,
       InstallConnected, InstallFailed, OwnerTearsDown, CloseMark,
       CloseSignal, CloseServer, CloseSnapshot, CloseDone, PollTake,
       PollExpire, PollReply, ResponseLost, ResponseAccept, ResponseLookup,
       ResponseAssign, ResponseSet, HandleEvent, ExtHello, HandleHello,
       ExtPoll, ExtPollFails, ExtDies, ExtHandle, callVars, tableVars,
       queueVars, WatchdogSnapshot, CloseSnapshot, PollTake, vars

LEMMA SentStep == TypeOK /\ CallIds /\ SentOnce /\ [Next]_vars => SentOnce'
<1> SUFFICES ASSUME TypeOK, CallIds, SentOnce, [Next]_vars PROVE SentOnce'
  OBVIOUS
<1> USE MaxIdAssumption
<1>1. ASSUME NEW c \in Calls, ReqRefuse(c) PROVE SentOnce'
  BY <1>1 DEF ReqRefuse, SentOnce, TypeOK, CallType, TableType, Ids, NoId,
       tableVars, queueVars
<1>2. ASSUME NEW c \in Calls, ReqAdmit(c) PROVE SentOnce'
  BY <1>2 DEF ReqAdmit, SentOnce, TypeOK, CallType, TableType, Ids, NoId,
       tableVars, queueVars
<1>3. ASSUME NEW c \in Calls, ReqRegister(c) PROVE SentOnce'
  <2>1. /\ pc[c] = "admitted" /\ pc' = [pc EXCEPT ![c] = "registered"]
        /\ id' = [id EXCEPT ![c] = nextId] /\ nextId' = nextId + 1 /\ sent' = sent
    BY <1>3 DEF ReqRegister, queueVars
  <2>2. nextId \in Nat /\ \A x \in 1 .. Len(sent) : sent[x] \in Nat
    BY DEF TypeOK, TableType, QueueType, Ids
  <2> QED
    BY <2>1, <2>2 DEF SentOnce, TypeOK, CallType
<1>4. ASSUME NEW c \in Calls, ReqEnqueue(c) PROVE SentOnce'
  <2>1. /\ pc[c] = "registered" /\ sent' = Append(sent, id[c])
        /\ pc' = [pc EXCEPT ![c] = "waiting"] /\ id' = id /\ nextId' = nextId
    BY <1>4 DEF ReqEnqueue, tableVars
  <2>2. Len(sent') = Len(sent) + 1 /\ sent'[Len(sent) + 1] = id[c]
    BY <2>1 DEF TypeOK, QueueType, CallType
  <2>3. \A x \in 1 .. Len(sent) : sent'[x] = sent[x]
    BY <2>1 DEF TypeOK, QueueType, CallType
  <2>4. \A x \in 1 .. Len(sent) : sent[x] # id[c]
    BY <2>1 DEF SentOnce
  <2>5. id[c] < nextId /\ \A d \in Calls : id[d] = id[c] => d = c
    BY <2>1 DEF CallIds
  <2>6. Len(sent) \in Nat
    BY DEF TypeOK, QueueType
  <2>7. \A x \in 1 .. Len(sent') : x \in 1 .. Len(sent) \/ x = Len(sent) + 1
    BY <2>2, <2>6
  <2>8. ASSUME NEW x \in 1 .. Len(sent'), NEW y \in 1 .. Len(sent'), sent'[x] = sent'[y]
        PROVE  x = y
    BY <2>2, <2>3, <2>4, <2>7, <2>8 DEF SentOnce
  <2>9. ASSUME NEW x \in 1 .. Len(sent')
        PROVE  /\ sent'[x] < nextId'
               /\ \A d \in Calls : id'[d] = sent'[x] => pc'[d] # "registered"
    BY <2>1, <2>2, <2>3, <2>4, <2>5, <2>7 DEF SentOnce, TypeOK, CallType
  <2> QED
    BY <2>8, <2>9 DEF SentOnce
<1>5. ASSUME NEW c \in Calls, ReqWake(c) PROVE SentOnce'
  BY <1>5 DEF ReqWake, SentOnce, TypeOK, CallType, TableType, Ids, NoId,
       Unregister, queueVars
<1>6. ASSUME NEW c \in Calls, ReqTimeout(c) PROVE SentOnce'
  BY <1>6 DEF ReqTimeout, SentOnce, TypeOK, CallType, TableType, Ids, NoId,
       Unregister, queueVars
<1>7. ASSUME NEW c \in Calls, ReqExpire(c) PROVE SentOnce'
  BY <1>7 DEF ReqExpire, SentOnce, TypeOK, CallType, TableType, Ids, NoId,
       tableVars, queueVars
<1>8. ASSUME NEW c \in Calls, ReqReturn(c) PROVE SentOnce'
  BY <1>8 DEF ReqReturn, SentOnce, TypeOK, CallType, TableType, Ids, NoId,
       tableVars, queueVars
<1>9. CASE UNCHANGED <<id, pc, nextId, sent>>
  BY <1>9 DEF SentOnce, TypeOK, CallType, TableType, Ids, NoId
<1> QED
  BY <1>1, <1>2, <1>3, <1>4, <1>5, <1>6, <1>7, <1>8, <1>9, SentFrame

LEMMA FewerHands ==
    ASSUME FrameOnce, UNCHANGED <<sent, taken, inbox, handled>>,
           \A h \in Polls : poll'[h].at = "holding" =>
               poll[h].at = "holding" /\ poll'[h].item = poll[h].item
    PROVE  FrameOnce'
<1>1. \A i \in Ids : TakenFrame(i)' <=> TakenFrame(i)
  BY DEF TakenFrame
<1>2. \A i \in Ids : Held(i)' => Held(i)
  BY DEF Held
<1>3. \A h, g \in Polls :
         poll'[h].at = "holding" /\ poll'[g].at = "holding"
           /\ poll'[h].item = poll'[g].item => h = g
  BY DEF FrameOnce
<1> QED
  BY <1>1, <1>2, <1>3 DEF FrameOnce

LEMMA FrameFrame ==
    [Next]_vars =>
        \/ \E c \in Calls : ReqEnqueue(c)
        \/ \E h \in Polls : PollTake(h) \/ PollExpire(h) \/ PollReply(h)
        \/ ExtPoll \/ ExtPollFails \/ ExtDies
        \/ \E i \in Ids, how \in {"applied", "rejected"} : ExtHandle(i, how)
        \/ UNCHANGED <<sent, taken, poll, inbox, handled>>
BY DEF Next, CallStep, SweepStep, WatchdogStep, CloseStep, InstallStep,
       PollStep, ResponseStep, ExtStep, ReqRefuse, ReqAdmit, ReqRegister,
       ReqWake, ReqTimeout, ReqExpire, ReqReturn, SweepSkip, SweepError,
       SweepSet, FallSilent, WatchdogDisconnect, WatchdogSnapshot,
       WatchdogResume, InstallConnected, InstallFailed, OwnerTearsDown,
       CloseMark, CloseSignal, CloseServer, CloseSnapshot, CloseDone,
       ResponseLost, ResponseAccept, ResponseLookup, ResponseAssign,
       ResponseSet, HandleEvent, ExtHello, HandleHello, queueVars, httpVars,
       extVars, vars

LEMMA FrameStep == TypeOK /\ SentOnce /\ FrameOnce /\ [Next]_vars => FrameOnce'
<1> SUFFICES ASSUME TypeOK, SentOnce, FrameOnce, [Next]_vars PROVE FrameOnce'
  OBVIOUS
<1>1. ASSUME NEW c \in Calls, ReqEnqueue(c) PROVE FrameOnce'
  <2>1. sent' = Append(sent, id[c]) /\ taken' = taken /\ id[c] \in Ids
        /\ UNCHANGED <<poll, inbox, handled>>
    BY <1>1 DEF ReqEnqueue, TypeOK, CallType, httpVars, extVars
  <2>2. /\ Len(sent') = Len(sent) + 1 /\ Len(sent) \in Nat /\ taken \in Nat
        /\ \A x \in 1 .. Len(sent) : sent'[x] = sent[x]
    BY <2>1 DEF TypeOK, QueueType
  <2>3. \A i : TakenFrame(i) => TakenFrame(i)'
    BY <2>1, <2>2 DEF TakenFrame
  <2> QED
    BY <2>1, <2>3 DEF FrameOnce, Held
<1>2. ASSUME NEW h \in Polls, PollTake(h) PROVE FrameOnce'
  <2>1. /\ taken < Len(sent) /\ taken' = taken + 1
        /\ poll' = [poll EXCEPT ![h] = [at |-> "holding", item |-> sent[taken + 1],
                                        attached |-> poll[h].attached]]
        /\ UNCHANGED <<sent, inbox, handled>> /\ poll[h].at = "parked"
    BY <1>2 DEF PollTake, extVars
  <2> DEFINE fresh == sent[taken + 1]
  <2>2. taken \in Nat /\ Len(sent) \in Nat /\ taken + 1 \in 1 .. Len(sent) /\ fresh \in Ids
    BY <2>1 DEF TypeOK, QueueType
  <2>3. ~TakenFrame(fresh)
    BY <2>2 DEF TakenFrame, SentOnce
  <2>4. \A i : TakenFrame(i) \/ i = fresh => TakenFrame(i)'
    BY <2>1, <2>2 DEF TakenFrame
  <2>5. poll'[h].at = "holding" /\ poll'[h].item = fresh
    BY <2>1 DEF TypeOK, HttpType
  <2>6. \A g \in Polls : g # h => poll'[g] = poll[g]
    BY <2>1 DEF TypeOK, HttpType
  <2>13. \A g \in Polls : poll[g].at = "holding" => poll[g].item \in Ids
    BY DEF TypeOK, HttpType, PollStates
  <2> HIDE DEF fresh
  <2>7. \A g \in Polls : g # h /\ poll[g].at = "holding" => poll[g].item # fresh
    BY <2>3, <2>13 DEF FrameOnce, Held
  <2>8. \A i \in Ids : Held(i)' => Held(i) \/ i = fresh
    BY <2>5, <2>6 DEF Held
  <2>9. \A i \in Ids : i \in inbox \/ handled[i] # "no" => i # fresh
    BY <2>3 DEF FrameOnce
  <2>10. \A g, k \in Polls :
           poll'[g].at = "holding" /\ poll'[k].at = "holding"
             /\ poll'[g].item = poll'[k].item => g = k
    BY <2>5, <2>6, <2>7 DEF FrameOnce
  <2>11. \A i \in Ids : Held(i)' => TakenFrame(i)'
    BY <2>4, <2>8 DEF FrameOnce
  <2>12. \A i \in Ids : i \in inbox \/ handled[i] # "no" => TakenFrame(i)' /\ ~Held(i)'
    BY <2>4, <2>8, <2>9 DEF FrameOnce
  <2> QED
    BY <2>1, <2>10, <2>11, <2>12 DEF FrameOnce
<1>3. ASSUME NEW h \in Polls, PollExpire(h) PROVE FrameOnce'
  <2>1. /\ UNCHANGED <<sent, taken, inbox, handled>>
        /\ \A g \in Polls : poll'[g].at = "holding" =>
             poll[g].at = "holding" /\ poll'[g].item = poll[g].item
    BY <1>3 DEF PollExpire, TypeOK, HttpType, PollFree, PollStates, Abandon, queueVars
  <2> QED
    BY <2>1, FewerHands
<1>4. ASSUME NEW h \in Polls, PollReply(h) PROVE FrameOnce'
  <2>1. /\ poll[h].at = "holding" /\ poll' = [poll EXCEPT ![h] = PollFree]
        /\ UNCHANGED <<sent, taken, handled>>
        /\ inbox' = inbox \/ inbox' = inbox \cup {poll[h].item}
    BY <1>4 DEF PollReply, queueVars
  <2>2. /\ poll'[h].at = "free"
        /\ \A g \in Polls : g # h => poll'[g] = poll[g]
        /\ poll[h].item \in Ids
    BY <2>1 DEF TypeOK, HttpType, PollFree, PollStates
  <2>3. \A i : TakenFrame(i)' <=> TakenFrame(i)
    BY <2>1 DEF TakenFrame
  <2>4. \A i \in Ids : Held(i)' => Held(i) /\ i # poll[h].item
    BY <2>1, <2>2 DEF Held, FrameOnce
  <2>5. TakenFrame(poll[h].item) /\ Held(poll[h].item) /\ handled[poll[h].item] = "no"
    BY <2>1, <2>2 DEF FrameOnce, Held
  <2>6. \A g, k \in Polls :
           poll'[g].at = "holding" /\ poll'[k].at = "holding"
             /\ poll'[g].item = poll'[k].item => g = k
    BY <2>2 DEF FrameOnce
  <2>7. \A i \in Ids : Held(i)' => TakenFrame(i)'
    BY <2>3, <2>4 DEF FrameOnce
  <2>8. \A i \in Ids : i \in inbox' \/ handled[i] # "no" => TakenFrame(i)' /\ ~Held(i)'
    BY <2>1, <2>3, <2>4, <2>5 DEF FrameOnce
  <2>9. \A i \in inbox' : handled[i] = "no"
    BY <2>1, <2>5 DEF FrameOnce
  <2> QED
    BY <2>1, <2>6, <2>7, <2>8, <2>9 DEF FrameOnce
<1>5. ASSUME ExtPoll PROVE FrameOnce'
  <2>1. /\ UNCHANGED <<sent, taken, inbox, handled>>
        /\ \A g \in Polls : poll'[g].at = "holding" =>
             poll[g].at = "holding" /\ poll'[g].item = poll[g].item
    BY <1>5 DEF ExtPoll, TypeOK, HttpType, PollFree, PollStates, Abandon, queueVars
  <2> QED
    BY <2>1, FewerHands
<1>6. ASSUME ExtPollFails PROVE FrameOnce'
  <2>1. /\ UNCHANGED <<sent, taken, inbox, handled>>
        /\ \A g \in Polls : poll'[g].at = "holding" =>
             poll[g].at = "holding" /\ poll'[g].item = poll[g].item
    BY <1>6 DEF ExtPollFails, TypeOK, HttpType, PollFree, PollStates, Abandon, queueVars
  <2> QED
    BY <2>1, FewerHands
<1>7. ASSUME ExtDies PROVE FrameOnce'
  <2>1. /\ UNCHANGED <<sent, taken, inbox, handled>>
        /\ \A g \in Polls : poll'[g].at = "holding" =>
             poll[g].at = "holding" /\ poll'[g].item = poll[g].item
    BY <1>7 DEF ExtDies, TypeOK, HttpType, PollFree, PollStates, Abandon, queueVars
  <2> QED
    BY <2>1, FewerHands
<1>8. ASSUME NEW i \in Ids, NEW how \in {"applied", "rejected"}, ExtHandle(i, how) PROVE FrameOnce'
  <2>1. /\ i \in inbox /\ inbox' = inbox \ {i} /\ handled' = [handled EXCEPT ![i] = how]
        /\ UNCHANGED <<sent, taken, poll>>
    BY <1>8 DEF ExtHandle, queueVars
  <2> QED
    BY <2>1 DEF FrameOnce, TakenFrame, Held, TypeOK, PageType
<1>9. CASE UNCHANGED <<sent, taken, poll, inbox, handled>>
  BY <1>9 DEF FrameOnce, TakenFrame, Held
<1> QED
  BY <1>1, <1>2, <1>3, <1>4, <1>5, <1>6, <1>7, <1>8, <1>9, FrameFrame

-----------------------------------------------------------------------------
(* Answers travel to the call they answer and are there before it wakes.   *)

LEMMA TransitFrame ==
    [Next]_vars =>
        \/ \E c \in Calls : ReqRegister(c)
        \/ \E s \in Sweepers, c \in Calls : SweepError(s, c)
        \/ \E i \in Ids : ResponseLost(i) \/ ResponseAccept(i) \/
              ResponseLookup(i) \/ ResponseAssign(i) \/ ResponseSet(i)
        \/ \E i \in Ids, how \in {"applied", "rejected"} : ExtHandle(i, how)
        \/ UNCHANGED <<id, result, error, response, found, handled>>
BY DEF Next, CallStep, SweepStep, WatchdogStep, CloseStep, InstallStep,
       PollStep, ResponseStep, ExtStep, ReqRefuse, ReqAdmit, ReqEnqueue,
       ReqWake, ReqTimeout, ReqExpire, ReqReturn, SweepSkip, SweepSet,
       FallSilent, WatchdogDisconnect, WatchdogSnapshot, WatchdogResume,
       InstallConnected, InstallFailed, OwnerTearsDown, CloseMark,
       CloseSignal, CloseServer, CloseSnapshot, CloseDone, PollTake,
       PollExpire, PollReply, HandleEvent, ExtHello, HandleHello, ExtPoll,
       ExtPollFails, ExtDies, callVars, entryVars, httpVars, extVars, vars

LEMMA TransitStep == TypeOK /\ CallIds /\ PendingBelongsToLiveCall /\ FrameOnce /\ AnswersInTransit /\ [Next]_vars => AnswersInTransit'
<1> SUFFICES ASSUME TypeOK, CallIds, PendingBelongsToLiveCall, FrameOnce, AnswersInTransit, [Next]_vars PROVE AnswersInTransit'
  OBVIOUS
<1> USE CallsAssumption
<1>1. ASSUME NEW c \in Calls, ReqRegister(c) PROVE AnswersInTransit'
  BY <1>1 DEF ReqRegister, AnswersInTransit, Answered, TypeOK, CallType,
       TableType, EntryType, HttpType, SweepType, PageType, NoId, Ids,
       CallIds, PendingBelongsToLiveCall, entryVars, httpVars, extVars
<1>2. ASSUME NEW s \in Sweepers, NEW c \in Calls, SweepError(s, c) PROVE AnswersInTransit'
  BY <1>2 DEF SweepError, AnswersInTransit, Answered, TypeOK, CallType,
       TableType, EntryType, HttpType, SweepType, PageType, NoId, Ids,
       CallIds, PendingBelongsToLiveCall, callVars, tableVars, httpVars,
       extVars
<1>3. ASSUME NEW i \in Ids, ResponseLost(i) PROVE AnswersInTransit'
  BY <1>3 DEF ResponseLost, AnswersInTransit, Answered, TypeOK, CallType,
       TableType, EntryType, HttpType, SweepType, PageType, NoId, Ids,
       CallIds, PendingBelongsToLiveCall, callVars, tableVars, entryVars,
       extVars
<1>4. ASSUME NEW i \in Ids, ResponseAccept(i) PROVE AnswersInTransit'
  BY <1>4 DEF ResponseAccept, AnswersInTransit, Answered, TypeOK, CallType,
       TableType, EntryType, HttpType, SweepType, PageType, NoId, Ids,
       CallIds, PendingBelongsToLiveCall, callVars, tableVars, entryVars,
       extVars
<1>5. ASSUME NEW i \in Ids, ResponseLookup(i) PROVE AnswersInTransit'
  BY <1>5 DEF ResponseLookup, AnswersInTransit, Answered, TypeOK, CallType,
       TableType, EntryType, HttpType, SweepType, PageType, NoId, Ids,
       CallIds, PendingBelongsToLiveCall, callVars, tableVars, entryVars,
       extVars
<1>6. ASSUME NEW i \in Ids, ResponseAssign(i) PROVE AnswersInTransit'
  <2>1. found[i] \in Calls /\ handled[i] # "no"
    BY <1>6 DEF ResponseAssign, AnswersInTransit, TypeOK, HttpType, PageType
  <2>2. CASE dead[found[i]]
    BY <1>6, <2>2 DEF ResponseAssign, AnswersInTransit, Answered, TypeOK, HttpType, callVars, extVars
  <2>3. CASE ~dead[found[i]] /\ handled[i] = "rejected"
    BY <1>6, <2>1, <2>3 DEF ResponseAssign, AnswersInTransit, Answered, TypeOK, HttpType, EntryType,
       callVars, extVars
  <2>4. CASE ~dead[found[i]] /\ handled[i] # "rejected"
    <3>1. /\ result' = [result EXCEPT ![found[i]] = i] /\ error' = error
          /\ response' = [response EXCEPT ![i] = "assigned"]
          /\ UNCHANGED <<id, found, handled>>
      BY <1>6, <2>4 DEF ResponseAssign, callVars, extVars
    <3>2. result'[found[i]] = i /\ i # NoId
      BY <2>1, <3>1 DEF TypeOK, EntryType, Ids, NoId
    <3>3. \A c \in Calls : Answered(c) => Answered(c)'
      BY <3>1, <3>2 DEF Answered, TypeOK, EntryType
    <3>4. Answered(found[i])'
      BY <3>1, <3>2 DEF Answered
    <3> QED
      BY <1>6, <2>1, <3>1, <3>3, <3>4 DEF AnswersInTransit, TypeOK, HttpType
  <2> QED
    BY <2>2, <2>3, <2>4
<1>7. ASSUME NEW i \in Ids, ResponseSet(i) PROVE AnswersInTransit'
  BY <1>7 DEF ResponseSet, AnswersInTransit, Answered, TypeOK, CallType,
       TableType, EntryType, HttpType, SweepType, PageType, NoId, Ids,
       CallIds, PendingBelongsToLiveCall, callVars, tableVars, extVars
<1>8. ASSUME NEW i \in Ids, NEW how \in {"applied", "rejected"}, ExtHandle(i, how) PROVE AnswersInTransit'
  BY <1>8 DEF ExtHandle, AnswersInTransit, Answered, TypeOK, CallType,
       TableType, EntryType, HttpType, SweepType, PageType, NoId, Ids,
       CallIds, PendingBelongsToLiveCall, callVars, tableVars, entryVars
<1>9. CASE UNCHANGED <<id, result, error, response, found, handled>>
  BY <1>9 DEF AnswersInTransit, Answered, TypeOK, CallType, TableType,
       EntryType, HttpType, SweepType, PageType, NoId, Ids, CallIds,
       PendingBelongsToLiveCall
<1> QED
  BY <1>1, <1>2, <1>3, <1>4, <1>5, <1>6, <1>7, <1>8, <1>9, TransitFrame

LEMMA AnswerFrame ==
    [Next]_vars =>
        \/ \E c \in Calls : ReqRegister(c)
        \/ \E s \in Sweepers, c \in Calls : SweepError(s, c)
        \/ \E i \in Ids : ResponseAssign(i)
        \/ \E i \in Ids, how \in {"applied", "rejected"} : ExtHandle(i, how)
        \/ UNCHANGED <<id, result, error, handled>>
BY DEF Next, CallStep, SweepStep, WatchdogStep, CloseStep, InstallStep,
       PollStep, ResponseStep, ExtStep, ReqRefuse, ReqAdmit, ReqEnqueue,
       ReqWake, ReqTimeout, ReqExpire, ReqReturn, SweepSkip, SweepSet,
       FallSilent, WatchdogDisconnect, WatchdogSnapshot, WatchdogResume,
       InstallConnected, InstallFailed, OwnerTearsDown, CloseMark,
       CloseSignal, CloseServer, CloseSnapshot, CloseDone, PollTake,
       PollExpire, PollReply, ResponseLost, ResponseAccept, ResponseLookup,
       ResponseSet, HandleEvent, ExtHello, HandleHello, ExtPoll,
       ExtPollFails, ExtDies, callVars, entryVars, extVars, vars

LEMMA OwnAnswerStep == TypeOK /\ CallIds /\ FrameOnce /\ AnswersInTransit /\ AnswersOwnCall /\ [Next]_vars => AnswersOwnCall'
<1> SUFFICES ASSUME TypeOK, CallIds, FrameOnce, AnswersInTransit, AnswersOwnCall, [Next]_vars PROVE AnswersOwnCall'
  OBVIOUS
<1> USE CallsAssumption
<1>1. ASSUME NEW c \in Calls, ReqRegister(c) PROVE AnswersOwnCall'
  BY <1>1 DEF ReqRegister, AnswersOwnCall, CallIds, FrameOnce,
       AnswersInTransit, TypeOK, CallType, EntryType, HttpType, PageType,
       NoId, Ids, entryVars, extVars
<1>2. ASSUME NEW s \in Sweepers, NEW c \in Calls, SweepError(s, c) PROVE AnswersOwnCall'
  BY <1>2 DEF SweepError, AnswersOwnCall, CallIds, FrameOnce,
       AnswersInTransit, TypeOK, CallType, EntryType, HttpType, PageType,
       NoId, Ids, callVars, extVars
<1>3. ASSUME NEW i \in Ids, ResponseAssign(i) PROVE AnswersOwnCall'
  BY <1>3 DEF ResponseAssign, AnswersOwnCall, CallIds, FrameOnce,
       AnswersInTransit, TypeOK, CallType, EntryType, HttpType, PageType,
       NoId, Ids, callVars, extVars
<1>4. ASSUME NEW i \in Ids, NEW how \in {"applied", "rejected"}, ExtHandle(i, how) PROVE AnswersOwnCall'
  BY <1>4 DEF ExtHandle, AnswersOwnCall, CallIds, FrameOnce,
       AnswersInTransit, TypeOK, CallType, EntryType, HttpType, PageType,
       NoId, Ids, callVars, entryVars
<1>5. CASE UNCHANGED <<id, result, error, handled>>
  BY <1>5 DEF AnswersOwnCall, CallIds, FrameOnce, AnswersInTransit, TypeOK,
       CallType, EntryType, HttpType, PageType, NoId, Ids
<1> QED
  BY <1>1, <1>2, <1>3, <1>4, <1>5, AnswerFrame

LEMMA WakeFrame ==
    [Next]_vars =>
        \/ \E c \in Calls : ReqRefuse(c) \/ ReqAdmit(c) \/ ReqRegister(c) \/
              ReqEnqueue(c) \/ ReqWake(c) \/ ReqTimeout(c) \/ ReqExpire(c) \/
              ReqReturn(c)
        \/ \E s \in Sweepers, c \in Calls : SweepError(s, c)
        \/ \E s \in Sweepers : SweepSet(s)
        \/ \E i \in Ids : ResponseAssign(i) \/ ResponseSet(i)
        \/ UNCHANGED <<pc, event, result, error, sweeping>>
BY DEF Next, CallStep, SweepStep, WatchdogStep, CloseStep, InstallStep,
       PollStep, ResponseStep, ExtStep, SweepSkip, FallSilent,
       WatchdogDisconnect, WatchdogSnapshot, WatchdogResume,
       InstallConnected, InstallFailed, OwnerTearsDown, CloseMark,
       CloseSignal, CloseServer, CloseSnapshot, CloseDone, PollTake,
       PollExpire, PollReply, ResponseLost, ResponseAccept, ResponseLookup,
       HandleEvent, ExtHello, HandleHello, ExtPoll, ExtPollFails, ExtDies,
       ExtHandle, callVars, entryVars, sweepVars, SweepSkip,
       WatchdogDisconnect, WatchdogSnapshot, WatchdogResume, CloseSnapshot,
       vars

LEMMA WokenStep == TypeOK /\ AnswersInTransit /\ WokenHasAnswer /\ WakersHaveAnswered /\ [Next]_vars => (WokenHasAnswer /\ WakersHaveAnswered)'
<1> SUFFICES ASSUME TypeOK, AnswersInTransit, WokenHasAnswer, WakersHaveAnswered, [Next]_vars PROVE (WokenHasAnswer /\ WakersHaveAnswered)'
  OBVIOUS
<1> USE CallsAssumption
<1>1. ASSUME NEW c \in Calls, ReqRefuse(c) PROVE (WokenHasAnswer /\ WakersHaveAnswered)'
  BY <1>1 DEF ReqRefuse, WokenHasAnswer, WakersHaveAnswered, Answered,
       AnswersInTransit, TypeOK, CallType, EntryType, HttpType, SweepType,
       PageType, NoId, Ids, Sweepers, entryVars, sweepVars
<1>2. ASSUME NEW c \in Calls, ReqAdmit(c) PROVE (WokenHasAnswer /\ WakersHaveAnswered)'
  BY <1>2 DEF ReqAdmit, WokenHasAnswer, WakersHaveAnswered, Answered,
       AnswersInTransit, TypeOK, CallType, EntryType, HttpType, SweepType,
       PageType, NoId, Ids, Sweepers, entryVars, sweepVars
<1>3. ASSUME NEW c \in Calls, ReqRegister(c) PROVE (WokenHasAnswer /\ WakersHaveAnswered)'
  BY <1>3 DEF ReqRegister, WokenHasAnswer, WakersHaveAnswered, Answered,
       AnswersInTransit, TypeOK, CallType, EntryType, HttpType, SweepType,
       PageType, NoId, Ids, Sweepers, entryVars, sweepVars
<1>4. ASSUME NEW c \in Calls, ReqEnqueue(c) PROVE (WokenHasAnswer /\ WakersHaveAnswered)'
  BY <1>4 DEF ReqEnqueue, WokenHasAnswer, WakersHaveAnswered, Answered,
       AnswersInTransit, TypeOK, CallType, EntryType, HttpType, SweepType,
       PageType, NoId, Ids, Sweepers, entryVars, sweepVars
<1>5. ASSUME NEW c \in Calls, ReqWake(c) PROVE (WokenHasAnswer /\ WakersHaveAnswered)'
  BY <1>5 DEF ReqWake, WokenHasAnswer, WakersHaveAnswered, Answered,
       AnswersInTransit, TypeOK, CallType, EntryType, HttpType, SweepType,
       PageType, NoId, Ids, Sweepers, Unregister, entryVars, sweepVars
<1>6. ASSUME NEW c \in Calls, ReqTimeout(c) PROVE (WokenHasAnswer /\ WakersHaveAnswered)'
  BY <1>6 DEF ReqTimeout, WokenHasAnswer, WakersHaveAnswered, Answered,
       AnswersInTransit, TypeOK, CallType, EntryType, HttpType, SweepType,
       PageType, NoId, Ids, Sweepers, Unregister, entryVars, sweepVars
<1>7. ASSUME NEW c \in Calls, ReqExpire(c) PROVE (WokenHasAnswer /\ WakersHaveAnswered)'
  BY <1>7 DEF ReqExpire, WokenHasAnswer, WakersHaveAnswered, Answered,
       AnswersInTransit, TypeOK, CallType, EntryType, HttpType, SweepType,
       PageType, NoId, Ids, Sweepers, sweepVars
<1>8. ASSUME NEW c \in Calls, ReqReturn(c) PROVE (WokenHasAnswer /\ WakersHaveAnswered)'
  BY <1>8 DEF ReqReturn, WokenHasAnswer, WakersHaveAnswered, Answered,
       AnswersInTransit, TypeOK, CallType, EntryType, HttpType, SweepType,
       PageType, NoId, Ids, Sweepers, entryVars, sweepVars
<1>9. ASSUME NEW s \in Sweepers, NEW c \in Calls, SweepError(s, c) PROVE (WokenHasAnswer /\ WakersHaveAnswered)'
  BY <1>9 DEF SweepError, WokenHasAnswer, WakersHaveAnswered, Answered,
       AnswersInTransit, TypeOK, CallType, EntryType, HttpType, SweepType,
       PageType, NoId, Ids, Sweepers, callVars
<1>10. ASSUME NEW s \in Sweepers, SweepSet(s) PROVE (WokenHasAnswer /\ WakersHaveAnswered)'
  BY <1>10 DEF SweepSet, WokenHasAnswer, WakersHaveAnswered, Answered,
       AnswersInTransit, TypeOK, CallType, EntryType, HttpType, SweepType,
       PageType, NoId, Ids, Sweepers, callVars
<1>11. ASSUME NEW i \in Ids, ResponseAssign(i) PROVE (WokenHasAnswer /\ WakersHaveAnswered)'
  BY <1>11 DEF ResponseAssign, WokenHasAnswer, WakersHaveAnswered, Answered,
       AnswersInTransit, TypeOK, CallType, EntryType, HttpType, SweepType,
       PageType, NoId, Ids, Sweepers, callVars, sweepVars
<1>12. ASSUME NEW i \in Ids, ResponseSet(i) PROVE (WokenHasAnswer /\ WakersHaveAnswered)'
  BY <1>12 DEF ResponseSet, WokenHasAnswer, WakersHaveAnswered, Answered,
       AnswersInTransit, TypeOK, CallType, EntryType, HttpType, SweepType,
       PageType, NoId, Ids, Sweepers, callVars, sweepVars
<1>13. CASE UNCHANGED <<pc, event, result, error, sweeping>>
  BY <1>13 DEF WokenHasAnswer, WakersHaveAnswered, Answered,
       AnswersInTransit, TypeOK, CallType, EntryType, HttpType, SweepType,
       PageType, NoId, Ids, Sweepers
<1> QED
  BY <1>1, <1>2, <1>3, <1>4, <1>5, <1>6, <1>7, <1>8, <1>9, <1>10, <1>11,
       <1>12, <1>13, WakeFrame

-----------------------------------------------------------------------------
(* The inductive invariant                                                 *)

LEMMA IndInit == Init => IndInv
<1> SUFFICES ASSUME Init PROVE IndInv
  OBVIOUS
<1>1. TypeOK
  BY TypeInit
<1>2. CallIds /\ PendingBelongsToLiveCall
  BY MaxIdAssumption DEF Init, CallIds, PendingBelongsToLiveCall, NoId
<1>3. SentOnce /\ FrameOnce
  BY DEF Init, SentOnce, FrameOnce, TakenFrame, Held, PollFree
<1>4. AnswersInTransit /\ AnswersOwnCall /\ WokenHasAnswer /\ WakersHaveAnswered
  BY DEF Init, AnswersInTransit, AnswersOwnCall, WokenHasAnswer, WakersHaveAnswered
<1> QED
  BY <1>1, <1>2, <1>3, <1>4 DEF IndInv

LEMMA IndStep == IndInv /\ [Next]_vars => IndInv'
BY TypeStep, CallIdsStep, PendingStep, SentStep, FrameStep, TransitStep, OwnAnswerStep, WokenStep
   DEF IndInv

\* The invariant everything else follows from holds of every behaviour.
THEOREM Inductive == Spec => []IndInv
BY IndInit, IndStep, PTL DEF Spec

\* Type correctness of the bridge (TypeOK), for any number of calls and polls.
THEOREM TypeCorrect == Spec => []TypeOK
BY Inductive, PTL DEF IndInv

\* The assert at the end of request() never fails: a call whose event is set
\* finds an answer, whatever responses, sweeps and timeouts race for it.
THEOREM AssertHolds == Spec => []WokenHasAnswer
BY Inductive, PTL DEF IndInv

\* The pending table never holds the entry of a call that is over.
THEOREM NoStaleEntry == Spec => []PendingBelongsToLiveCall
BY Inductive, PTL DEF IndInv

\* No call ever receives the answer to another one.
THEOREM OwnAnswer == Spec => []AnswersOwnCall
BY Inductive, PTL DEF IndInv

-----------------------------------------------------------------------------
(* The bridge implements the at-most-once remote call.                     *)

LEMMA RemoteInit == Init => Remote!Init
<1> SUFFICES ASSUME Init PROVE Remote!Init
  OBVIOUS
<1>1. \A c \in Calls : Phase(c) = "idle" /\ Executed(c) = "no"
  BY DEF Init, Phase, Executed
<1> QED
  BY <1>1 DEF Remote!Init

\* A step of request() of one call leaves what every other call sees alone.
LEMMA OtherCalls ==
    ASSUME NEW c \in Calls, NEW p, NEW o, TypeOK, UNCHANGED <<id, handled>>,
           pc' = [pc EXCEPT ![c] = p], outcome' = [outcome EXCEPT ![c] = o]
    PROVE  /\ pc'[c] = p /\ outcome'[c] = o
           /\ [d \in Calls |-> Phase(d)]' =
                [[d \in Calls |-> Phase(d)] EXCEPT ![c] = Phase(c)']
           /\ UNCHANGED [d \in Calls |-> Executed(d)]
<1>1. pc'[c] = p /\ outcome'[c] = o
  BY DEF TypeOK, CallType
<1>2. \A d \in Calls : d # c => Phase(d)' = Phase(d)
  BY DEF TypeOK, CallType, Phase
<1>3. \A d \in Calls : Executed(d)' = Executed(d)
  BY DEF Executed
<1> QED
  BY <1>1, <1>2, <1>3

LEMMA RemoteFrame ==
    [Next]_vars =>
        \/ \E c \in Calls : ReqRefuse(c) \/ ReqAdmit(c) \/ ReqRegister(c) \/
              ReqEnqueue(c) \/ ReqWake(c) \/ ReqTimeout(c) \/ ReqExpire(c) \/
              ReqReturn(c)
        \/ \E i \in Ids, how \in {"applied", "rejected"} : ExtHandle(i, how)
        \/ UNCHANGED <<callVars, handled>>
BY DEF Next, CallStep, SweepStep, WatchdogStep, CloseStep, InstallStep,
       PollStep, ResponseStep, ExtStep, SweepSkip, SweepError, SweepSet,
       FallSilent, WatchdogDisconnect, WatchdogSnapshot, WatchdogResume,
       InstallConnected, InstallFailed, OwnerTearsDown, CloseMark,
       CloseSignal, CloseServer, CloseSnapshot, CloseDone, PollTake,
       PollExpire, PollReply, ResponseLost, ResponseAccept, ResponseLookup,
       ResponseAssign, ResponseSet, HandleEvent, ExtHello, HandleHello,
       ExtPoll, ExtPollFails, ExtDies, extVars, vars

LEMMA RemoteStep == IndInv /\ [Next]_vars => [Remote!Next]_(Remote!vars)
<1> SUFFICES ASSUME IndInv, [Next]_vars PROVE [Remote!Next]_(Remote!vars)
  OBVIOUS
<1> USE DEF IndInv
<1>1. ASSUME NEW c \in Calls, ReqRefuse(c) PROVE Remote!Refuse(c)
  <2>1. /\ pc' = [pc EXCEPT ![c] = "done"]
        /\ outcome' = [outcome EXCEPT ![c] = "refused"]
        /\ UNCHANGED <<id, handled>> /\ pc[c] = "idle"
    BY <1>1 DEF ReqRefuse, extVars
  <2>2. pc'[c] = "done" /\ outcome'[c] = "refused"
    BY <2>1, OtherCalls
  <2>3. Phase(c) = "idle" /\ Phase(c)' = "refused"
    BY <2>1, <2>2 DEF Phase
  <2> QED
    BY <2>1, <2>3, OtherCalls DEF Remote!Refuse
<1>2. ASSUME NEW c \in Calls, ReqAdmit(c) PROVE Remote!Open(c)
  <2>1. /\ pc' = [pc EXCEPT ![c] = "admitted"]
        /\ outcome' = [outcome EXCEPT ![c] = outcome[c]]
        /\ UNCHANGED <<id, handled>> /\ pc[c] = "idle"
    BY <1>2 DEF ReqAdmit, extVars, TypeOK, CallType
  <2>2. Phase(c) = "idle" /\ Phase(c)' = "open"
    BY <2>1, OtherCalls DEF Phase
  <2> QED
    BY <2>1, <2>2, OtherCalls DEF Remote!Open
<1>3. ASSUME NEW c \in Calls, ReqRegister(c) PROVE UNCHANGED Remote!vars
  <2>1. /\ pc' = [pc EXCEPT ![c] = "registered"] /\ id' = [id EXCEPT ![c] = nextId]
        /\ outcome' = outcome /\ handled' = handled /\ pc[c] = "admitted"
        /\ nextId \in Ids
    BY <1>3 DEF ReqRegister, extVars
  <2>2. \A d \in Calls : Phase(d)' = Phase(d)
    BY <2>1 DEF Phase, TypeOK, CallType
  <2>3. handled[nextId] = "no"
    <3>1. ~TakenFrame(nextId)
      BY DEF TakenFrame, SentOnce, TypeOK, TableType, QueueType
    <3> QED
      BY <2>1, <3>1 DEF FrameOnce
  <2>4. \A d \in Calls : Executed(d)' = Executed(d)
    BY <2>1, <2>3 DEF Executed, TypeOK, CallType, CallIds, Ids, NoId
  <2> QED
    BY <2>2, <2>4 DEF Remote!vars
<1>4. ASSUME NEW c \in Calls, ReqEnqueue(c) \/ ReqWake(c) \/ ReqTimeout(c)
      PROVE  UNCHANGED Remote!vars
  <2>1. /\ pc[c] \notin {"idle", "done"} /\ \E p \in {"waiting", "woken", "expired"} :
                                          pc' = [pc EXCEPT ![c] = p]
        /\ UNCHANGED <<id, outcome, handled>>
    BY <1>4 DEF ReqEnqueue, ReqWake, ReqTimeout, extVars
  <2>2. \A d \in Calls : Phase(d)' = Phase(d)
    BY <2>1 DEF Phase, TypeOK, CallType
  <2>3. \A d \in Calls : Executed(d)' = Executed(d)
    BY <2>1 DEF Executed
  <2> QED
    BY <2>2, <2>3 DEF Remote!vars
<1>5. ASSUME NEW c \in Calls, ReqExpire(c) PROVE Remote!GiveUp(c)
  <2>1. /\ pc' = [pc EXCEPT ![c] = "done"]
        /\ outcome' = [outcome EXCEPT ![c] = "timeout"]
        /\ UNCHANGED <<id, handled>> /\ pc[c] = "expired"
    BY <1>5 DEF ReqExpire, extVars
  <2>2. pc'[c] = "done" /\ outcome'[c] = "timeout"
    BY <2>1, OtherCalls
  <2>3. Phase(c) = "open" /\ Phase(c)' = "unknown"
    BY <2>1, <2>2 DEF Phase
  <2> QED
    BY <2>1, <2>3, OtherCalls DEF Remote!GiveUp
<1>6. ASSUME NEW c \in Calls, ReqReturn(c)
      PROVE  Remote!ReturnResult(c) \/ Remote!RaiseRemoteError(c) \/ Remote!GiveUp(c)
  <2> DEFINE told == IF error[c] # "none" THEN error[c] ELSE "ok"
  <2>1. /\ pc' = [pc EXCEPT ![c] = "done"]
        /\ outcome' = [outcome EXCEPT ![c] = told]
        /\ UNCHANGED <<id, handled>> /\ pc[c] = "woken"
    BY <1>6 DEF ReqReturn, extVars
  <2>2. Phase(c) = "open"
    BY <2>1 DEF Phase
  <2>3. told \in {"ok", "remote", "disconnected"}
    BY DEF TypeOK, EntryType
  <2>4. /\ told = "ok" => result[c] # NoId
        /\ told = "remote" => error[c] = "remote"
    BY <2>1 DEF WakersHaveAnswered, WokenHasAnswer, Answered, TypeOK, EntryType
  <2> HIDE DEF told
  <2>5. /\ told = "ok" => Executed(c) = "applied"
        /\ told = "remote" => Executed(c) = "rejected"
    BY <2>4 DEF AnswersOwnCall, Executed
  <2>7. pc'[c] = "done" /\ outcome'[c] = told
    BY <2>1, OtherCalls
  <2>6. Phase(c)' = IF told = "disconnected" THEN "unknown" ELSE told
    BY <2>3, <2>7 DEF Phase
  <2> QED
    BY <2>1, <2>2, <2>3, <2>5, <2>6, OtherCalls
       DEF Remote!ReturnResult, Remote!RaiseRemoteError, Remote!GiveUp
<1>7. ASSUME NEW i \in Ids, NEW how \in {"applied", "rejected"}, ExtHandle(i, how)
      PROVE  \/ \E c \in Calls : Remote!Execute(c, how)
             \/ UNCHANGED Remote!vars
  <2>1. /\ handled' = [handled EXCEPT ![i] = how] /\ i \in inbox
        /\ UNCHANGED <<pc, id, outcome>>
    BY <1>7 DEF ExtHandle, callVars
  <2>2. handled[i] = "no"
    BY <2>1 DEF FrameOnce
  <2>3. [d \in Calls |-> Phase(d)]' = [d \in Calls |-> Phase(d)]
    BY <2>1 DEF Phase
  <2>4. CASE \E c \in Calls : id[c] = i
    <3> PICK c \in Calls : id[c] = i
      BY <2>4
    <3>1. Executed(c) = "no" /\ Executed(c)' = how
      BY <2>1, <2>2 DEF Executed, TypeOK, PageType, Ids, NoId
    <3>2. \A d \in Calls : d # c => Executed(d)' = Executed(d)
      BY <2>1 DEF Executed, TypeOK, PageType, CallType, CallIds
    <3>3. Phase(c) \notin {"idle", "refused"}
      BY DEF Phase, TypeOK, CallType, CallIds, Ids, NoId, Outcomes
    <3>4. [d \in Calls |-> Executed(d)]' =
            [[d \in Calls |-> Executed(d)] EXCEPT ![c] = how]
      BY <3>1, <3>2
    <3> QED
      BY <2>3, <3>1, <3>3, <3>4 DEF Remote!Execute
  <2>5. CASE ~\E c \in Calls : id[c] = i
    <3>1. \A d \in Calls : Executed(d)' = Executed(d)
      BY <2>1, <2>5 DEF Executed, TypeOK, PageType, CallType
    <3> QED
      BY <2>3, <3>1 DEF Remote!vars
  <2> QED
    BY <2>4, <2>5
<1>8. CASE UNCHANGED <<callVars, handled>>
  BY <1>8 DEF callVars, Remote!vars, Phase, Executed
<1> QED
  BY <1>1, <1>2, <1>3, <1>4, <1>5, <1>6, <1>7, <1>8, RemoteFrame
     DEF Remote!Next, Remote!Executions

\* The bridge implements the at-most-once remote call of RemoteCall: a call
\* that returns a result was applied exactly once, one that raises the page's
\* error was rejected, a refused one never reaches the page.
THEOREM Implements == Spec => ImplementsRemoteCall
BY Inductive, RemoteInit, RemoteStep, PTL DEF Spec, ImplementsRemoteCall, Remote!Spec

-----------------------------------------------------------------------------
(* The page greets once.                                                   *)

\* A bridge that is, or was, connected has had its greeting.
GreetedOnce ==
    /\ connected \/ installed => hello = "done"
    /\ hello # "none" => ext # "starting"

\* What a step changes of the greeting.
LEMMA GreetFrame ==
    [Next]_vars =>
        \/ WatchdogDisconnect \/ CloseMark \/ InstallConnected \/ ExtHello \/ HandleHello
        \/ /\ UNCHANGED <<connected, installed, hello>>
           /\ ext' # ext => ext' # "starting"
BY DEF Next, CallStep, SweepStep, WatchdogStep, CloseStep, InstallStep, PollStep,
       ResponseStep, ExtStep, ReqRefuse, ReqAdmit, ReqRegister, ReqEnqueue, ReqWake,
       ReqTimeout, ReqExpire, ReqReturn, SweepSkip, SweepError, SweepSet,
       FallSilent, WatchdogSnapshot, WatchdogResume, InstallFailed, OwnerTearsDown,
       CloseSignal, CloseServer, CloseSnapshot, CloseDone, PollTake, PollExpire,
       PollReply, ResponseLost, ResponseAccept, ResponseLookup, ResponseAssign,
       ResponseSet, HandleEvent, ExtPoll, ExtPollFails, ExtDies, ExtHandle,
       stateVars, ownerVars, httpVars, extVars, vars

\* Every step keeps GreetedOnce.
LEMMA GreetStep == GreetedOnce /\ [Next]_vars => GreetedOnce'
<1> SUFFICES ASSUME GreetedOnce, [Next]_vars PROVE GreetedOnce'
  OBVIOUS
<1> USE DEF GreetedOnce, stateVars, ownerVars, httpVars, extVars
<1>1. CASE WatchdogDisconnect \/ CloseMark
  BY <1>1 DEF WatchdogDisconnect, CloseMark
<1>2. CASE InstallConnected
  BY <1>2 DEF InstallConnected
<1>3. CASE ExtHello \/ HandleHello
  BY <1>3 DEF ExtHello, HandleHello
<1>4. CASE UNCHANGED <<connected, installed, hello>> /\ (ext' # ext => ext' # "starting")
  BY <1>4
<1> QED
  BY <1>1, <1>2, <1>3, <1>4, GreetFrame

\* A bridge that was installed as connected, and that the watchdog or close() then gave
\* up, stays given up (DisconnectIsPermanent): the page greets once, that /hello has been
\* handled, and nothing else connects.
THEOREM DisconnectStays == Spec => DisconnectIsPermanent
<1>1. Init => GreetedOnce
  BY DEF Init, GreetedOnce
<1>2. GreetedOnce /\ [Next]_vars => (installed /\ ~connected => ~connected') \/ UNCHANGED vars
  BY GreetFrame DEF GreetedOnce, WatchdogDisconnect, CloseMark, InstallConnected,
                    ExtHello, HandleHello, stateVars
<1> QED
  BY <1>1, <1>2, GreetStep, PTL DEF Spec, DisconnectIsPermanent

-----------------------------------------------------------------------------
(* Frames are received in the order they were queued.                      *)

\* The page reads one /poll at most; what it has received was taken, and before what it is
\* about to be given.
OneReader ==
    \A h \in Polls : poll[h].attached => ext = "polling" /\ h = extPoll

ReceivedAreTaken == \A a \in 1 .. Len(received) : TakenFrame(received[a])

HeldIsNext ==
    \A h \in Polls : poll[h].at = "holding" /\ poll[h].attached =>
        \A a \in 1 .. Len(received) : Precedes(sent, received[a], poll[h].item)

OrderInv == OneReader /\ ReceivedAreTaken /\ HeldIsNext /\ ReceivedInQueueOrder

\* What a step changes of the order.
LEMMA OrderFrame ==
    [Next]_vars =>
        \/ \E c \in Calls : ReqEnqueue(c)
        \/ \E h \in Polls : PollTake(h) \/ PollExpire(h) \/ PollReply(h)
        \/ ExtHello \/ HandleHello \/ ExtPoll \/ ExtPollFails \/ ExtDies
        \/ UNCHANGED <<sent, taken, poll, received, ext, extPoll>>
BY DEF Next, CallStep, SweepStep, WatchdogStep, CloseStep, InstallStep, PollStep,
       ResponseStep, ExtStep, ReqRefuse, ReqAdmit, ReqRegister, ReqWake, ReqTimeout,
       ReqExpire, ReqReturn, SweepSkip, SweepError, SweepSet, FallSilent,
       WatchdogDisconnect, WatchdogSnapshot, WatchdogResume, InstallConnected,
       InstallFailed, OwnerTearsDown, CloseMark, CloseSignal, CloseServer,
       CloseSnapshot, CloseDone, ResponseLost, ResponseAccept, ResponseLookup,
       ResponseAssign, ResponseSet, HandleEvent, ExtHandle, queueVars, httpVars,
       extVars, vars

\* A queue that grows keeps the order of what it has.
LEMMA QueueGrows ==
    ASSUME TypeOK, NEW i \in Ids, sent' = Append(sent, i), taken' = taken
    PROVE  /\ \A j \in Ids : TakenFrame(j) => TakenFrame(j)'
           /\ \A j, k \in Ids : Precedes(sent, j, k) => Precedes(sent, j, k)'
<1>1. Len(sent') = Len(sent) + 1 /\ Len(sent) \in Nat
  BY DEF TypeOK, QueueType
<1>2. \A x \in 1 .. Len(sent) : x \in 1 .. Len(sent') /\ sent'[x] = sent[x]
  BY <1>1 DEF TypeOK, QueueType
<1> QED
  BY <1>2 DEF TakenFrame, Precedes

\* The order stays while nothing is received, taken or attached.
LEMMA OrderStays ==
    ASSUME OrderInv, UNCHANGED <<sent, taken, received>>, ext' = "polling" => extPoll' = extPoll,
           \A h \in Polls : /\ poll'[h].attached => poll[h].attached /\ ext' = "polling"
                            /\ poll'[h].at = "holding" => poll[h].at = "holding" /\ poll'[h].item = poll[h].item
    PROVE  OrderInv'
<1>1. OneReader'
  BY DEF OrderInv, OneReader
<1>2. ReceivedAreTaken' /\ HeldIsNext' /\ ReceivedInQueueOrder'
  BY DEF OrderInv, ReceivedAreTaken, HeldIsNext, ReceivedInQueueOrder, TakenFrame
<1> QED
  BY <1>1, <1>2 DEF OrderInv

\* Taking a frame: it is behind all that have been received.
LEMMA OrderTake ==
    ASSUME TypeOK, OrderInv, NEW h \in Polls, PollTake(h)
    PROVE  OrderInv'
<1>1. /\ taken < Len(sent) /\ taken' = taken + 1 /\ taken \in Nat /\ Len(sent) \in Nat
      /\ UNCHANGED <<sent, received, ext, extPoll>>
      /\ poll' = [poll EXCEPT ![h] = [at |-> "holding", item |-> sent[taken + 1], attached |-> poll[h].attached]]
  BY DEF PollTake, extVars, TypeOK, QueueType
<1>2. /\ poll'[h].item = sent[taken + 1] /\ poll'[h].attached = poll[h].attached
      /\ \A g \in Polls \ {h} : poll'[g] = poll[g]
  BY <1>1 DEF TypeOK, HttpType
<1>3. OneReader'
  BY <1>1, <1>2 DEF OrderInv, OneReader
<1>4. ReceivedAreTaken'
  BY <1>1 DEF OrderInv, ReceivedAreTaken, TakenFrame
<1>5. HeldIsNext'
  <2>1. \A a \in 1 .. Len(received) : Precedes(sent, received[a], sent[taken + 1])
    BY <1>1 DEF OrderInv, ReceivedAreTaken, TakenFrame, Precedes
  <2> QED
    BY <1>1, <1>2, <2>1 DEF OrderInv, HeldIsNext
<1>6. ReceivedInQueueOrder'
  BY <1>1 DEF OrderInv, ReceivedInQueueOrder
<1> QED
  BY <1>3, <1>4, <1>5, <1>6 DEF OrderInv

\* Receiving a frame: it was taken after all that have been received.
LEMMA OrderReceive ==
    ASSUME TypeOK, FrameOnce, OrderInv, NEW h \in Polls, PollReply(h), poll[h].attached
    PROVE  OrderInv'
<1> DEFINE i == poll[h].item
<1>1. /\ poll[h].at = "holding" /\ poll' = [poll EXCEPT ![h] = PollFree]
      /\ received' = Append(received, i) /\ ext' = "ready"
      /\ UNCHANGED <<sent, taken>>
  BY DEF PollReply, queueVars
<1>2. i \in Ids /\ received \in Seq(Ids)
  BY <1>1 DEF TypeOK, HttpType, PageType, PollStates
<1>3. /\ Len(received') = Len(received) + 1 /\ Len(received) \in Nat
      /\ received'[Len(received) + 1] = i
      /\ \A a \in 1 .. Len(received) : received'[a] = received[a]
  BY <1>1, <1>2
<1>4. \A g \in Polls : ~poll'[g].attached
  BY <1>1 DEF OrderInv, OneReader, PollFree, TypeOK, HttpType
<1>5. TakenFrame(i)
  BY <1>1, <1>2 DEF FrameOnce, Held
<1>6. \A a \in 1 .. Len(received) : Precedes(sent, received[a], i)
  BY <1>1 DEF OrderInv, HeldIsNext
<1> HIDE DEF i
<1>7. \A a \in 1 .. Len(received') : a \in 1 .. Len(received) \/ (a = Len(received) + 1 /\ received'[a] = i)
  BY <1>3
<1>8. OneReader' /\ HeldIsNext'
  BY <1>4 DEF OneReader, HeldIsNext
<1>9. ReceivedAreTaken'
  BY <1>1, <1>3, <1>5, <1>7 DEF OrderInv, ReceivedAreTaken, TakenFrame
<1>10. ASSUME NEW a \in 1 .. Len(received'), NEW b \in 1 .. Len(received'), a < b
       PROVE  Precedes(sent, received'[a], received'[b])
  <2>1. a \in 1 .. Len(received)
    BY <1>3, <1>10
  <2>2. CASE b \in 1 .. Len(received)
    BY <1>3, <1>10, <2>1, <2>2 DEF OrderInv, ReceivedInQueueOrder
  <2>3. CASE b = Len(received) + 1
    BY <1>3, <1>6, <2>1, <2>3
  <2> QED
    BY <1>7, <2>2, <2>3
<1> QED
  BY <1>1, <1>8, <1>9, <1>10 DEF OrderInv, ReceivedInQueueOrder

\* Every step keeps the order.
LEMMA OrderStep == TypeOK /\ FrameOnce /\ OrderInv /\ [Next]_vars => OrderInv'
<1> SUFFICES ASSUME TypeOK, FrameOnce, OrderInv, [Next]_vars PROVE OrderInv'
  OBVIOUS
<1> USE DEF queueVars, httpVars, extVars
<1>1. ASSUME NEW c \in Calls, ReqEnqueue(c) PROVE OrderInv'
  <2>1. /\ sent' = Append(sent, id[c]) /\ id[c] \in Ids /\ UNCHANGED <<taken, poll, received, ext, extPoll>>
    BY <1>1 DEF ReqEnqueue, TypeOK, CallType
  <2>2. /\ \A j \in Ids : TakenFrame(j) => TakenFrame(j)'
        /\ \A j, k \in Ids : Precedes(sent, j, k) => Precedes(sent, j, k)'
    BY <2>1, QueueGrows
  <2>3. /\ \A a \in 1 .. Len(received) : received[a] \in Ids
        /\ \A h \in Polls : poll[h].at = "holding" => poll[h].item \in Ids
    BY DEF TypeOK, PageType, HttpType, PollStates
  <2>4. OneReader' /\ ReceivedAreTaken'
    BY <2>1, <2>2, <2>3 DEF OrderInv, OneReader, ReceivedAreTaken
  <2>5. HeldIsNext' /\ ReceivedInQueueOrder'
    BY <2>1, <2>2, <2>3 DEF OrderInv, HeldIsNext, ReceivedInQueueOrder
  <2> QED
    BY <2>4, <2>5 DEF OrderInv
<1>2. ASSUME NEW h \in Polls, PollTake(h) PROVE OrderInv'
  BY <1>2, OrderTake
<1>3. ASSUME NEW h \in Polls, PollReply(h), poll[h].attached PROVE OrderInv'
  BY <1>3, OrderReceive
<1>4. ASSUME NEW h \in Polls, PollExpire(h)
             \/ (PollReply(h) /\ ~poll[h].attached) PROVE OrderInv'
  <2>1. /\ poll' = [poll EXCEPT ![h] = PollFree] /\ UNCHANGED <<sent, taken, received>>
        /\ IF poll[h].attached THEN ext' = "ready" /\ extPoll' = NoPoll ELSE UNCHANGED <<ext, extPoll>>
    BY <1>4 DEF PollExpire, PollReply
  <2>2. \A g \in Polls : poll'[g] = IF g = h THEN PollFree ELSE poll[g]
    BY <2>1 DEF TypeOK, HttpType
  <2>3. \A g \in Polls : poll'[g].attached => poll[g].attached /\ ext' = "polling"
    BY <2>1, <2>2 DEF OrderInv, OneReader, PollFree
  <2> QED
    BY <2>1, <2>2, <2>3, OrderStays DEF PollFree
<1>5. CASE ExtPoll
  <2>1. CASE closed
    BY <1>5, <2>1, OrderStays DEF ExtPoll, OrderInv, OneReader
  <2>2. CASE ~closed
    <3>1. PICK h \in Polls : poll' = [poll EXCEPT ![h] = [at |-> "parked", item |-> NoId, attached |-> TRUE]] /\ extPoll' = h
      BY <1>5, <2>2 DEF ExtPoll
    <3>2. ext = "ready" /\ ext' = "polling" /\ UNCHANGED <<sent, taken, received>>
      BY <1>5, <2>2 DEF ExtPoll
    <3>3. \A g \in Polls : poll'[g] = IF g = h THEN [at |-> "parked", item |-> NoId, attached |-> TRUE] ELSE poll[g]
      BY <3>1 DEF TypeOK, HttpType
    <3>4. OneReader'
      BY <3>1, <3>2, <3>3 DEF OrderInv, OneReader
    <3>5. ReceivedAreTaken' /\ HeldIsNext' /\ ReceivedInQueueOrder'
      BY <3>2, <3>3 DEF OrderInv, ReceivedAreTaken, HeldIsNext,
                        ReceivedInQueueOrder, TakenFrame
    <3> QED
      BY <3>4, <3>5 DEF OrderInv
  <2> QED
    BY <2>1, <2>2
<1>6. CASE ExtPollFails \/ ExtDies
  <2>1. poll' = [h \in Polls |-> [poll[h] EXCEPT !.attached = FALSE]] /\ UNCHANGED <<sent, taken, received>>
    BY <1>6 DEF ExtPollFails, ExtDies, Abandon
  <2>2. \A h \in Polls : ~poll'[h].attached /\ poll'[h].at = poll[h].at /\ poll'[h].item = poll[h].item
    BY <2>1 DEF TypeOK, HttpType, PollStates
  <2>3. ext' # "polling"
    BY <1>6 DEF ExtPollFails, ExtDies
  <2> QED
    BY <2>1, <2>2, <2>3, OrderStays
<1>7. CASE ExtHello \/ HandleHello
  <2>1. UNCHANGED <<sent, taken, received, poll, extPoll>> /\ (ext' # ext => ext # "polling" /\ ext' # "polling")
    BY <1>7 DEF ExtHello, HandleHello
  <2>2. \A h \in Polls : poll'[h].attached => poll[h].attached /\ ext' = "polling"
    BY <2>1 DEF OrderInv, OneReader
  <2> QED
    BY <2>1, <2>2, OrderStays
<1>8. CASE UNCHANGED <<sent, taken, poll, received, ext, extPoll>>
  BY <1>8, OrderStays DEF OrderInv, OneReader
<1> QED
  BY <1>1, <1>2, <1>3, <1>4, <1>5, <1>6, <1>7, <1>8, OrderFrame

\* The page receives every frame at most once and in the order they were queued, although
\* threads of abandoned polls still take frames.
THEOREM FramesInOrder == Spec => []ReceivedInQueueOrder
<1>1. Init => OrderInv
  BY DEF Init, OrderInv, OneReader, ReceivedAreTaken, HeldIsNext,
         ReceivedInQueueOrder, PollFree
<1>2. IndInv => TypeOK /\ FrameOnce
  BY DEF IndInv
<1>3. OrderInv => ReceivedInQueueOrder
  BY DEF OrderInv
<1> QED
  BY <1>1, <1>2, <1>3, OrderStep, Inductive, PTL DEF Spec
=============================================================================
