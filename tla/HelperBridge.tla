---------------------------- MODULE HelperBridge ----------------------------
(***************************************************************************)
(* torbrowser_driver/_helper_extension_bridge.py: the HTTP long-poll       *)
(* bridge between the driver's tool threads and the background page of the *)
(* helper WebExtension, together with the two parties it cannot work       *)
(* without: the thread that installs the extension and later closes the    *)
(* bridge (_helper_extension_install.py) and the page's poll loop          *)
(* (_helper_extension/background.js).                                      *)
(*                                                                         *)
(* One action is one critical section, one queue operation or one step on  *)
(* a threading.Event.  Time appears only as the freedom to expire: a wait  *)
(* with a timeout may end unanswered whenever its event is not set.        *)
(***************************************************************************)
EXTENDS Naturals, Sequences

CONSTANTS
    Calls,          \* invocations of request(), each by some tool thread
    NoCall,         \* stands for Python's None where a pending entry is expected
    Polls,          \* GET /poll handler threads that can exist at one time
    NoPoll,         \* the extension has no /poll outstanding
    MaxId,          \* bound on the request id counter
    Environment     \* what may happen to the bridge from outside

ASSUME CallsAssumption == NoCall \notin Calls
ASSUME PollsAssumption == NoPoll \notin Polls
ASSUME MaxIdAssumption == MaxId \in Nat

\* The page stalls for a minute; a fetch of its fails; a response of its fails;
\* it dies with the browser; it reports events; its methods fail; the installer
\* gives up on it; the driver is closed.
Disturbances == {"silence", "pollFails", "responseLost", "dies", "events",
                 "rejects", "installFails", "close"}
ASSUME EnvironmentAssumption == Environment \subseteq Disturbances

Ids  == 1 .. MaxId
NoId == 0

\* The two threads that run _fail_pending.
Sweepers == {"closer", "watchdog"}

VARIABLES
    (* HelperBridge, under _state_lock and its two events *)
    closed, connected,
    silent,         \* _last_seen is at least _SILENCE_DISCONNECT_SECONDS old
    connectEvent, shutdownEvent,
    serving,        \* the listener accepts connections
    (* HelperBridge, under _pending_lock, and the queue *)
    nextId,
    pending,        \* _pending: the call registered under each id
    sent,           \* every frame put on _outgoing, in order, by its id
    taken,          \* how many of them get() has removed
    (* one _PendingRequest and one request() activation for each call *)
    pc, id, event, result, error, dead, outcome,
    (* the thread that installs and closes; the watchdog; their sweeps *)
    owner, installed, watchdog, todo, sweeping,
    (* the /poll, /hello and /response handler threads *)
    poll, hello, response, found,
    (* background.js *)
    ext, extPoll, inbox, handled,
    received        \* ids in the order the page received their frames

stateVars == <<closed, connected, silent, connectEvent, shutdownEvent, serving>>
tableVars == <<nextId, pending>>
queueVars == <<sent, taken>>
entryVars == <<event, result, error, dead>>
callVars  == <<pc, id, outcome>>
ownerVars == <<owner, installed>>
sweepVars == <<watchdog, todo, sweeping>>
extVars   == <<ext, extPoll, inbox, handled, received>>
httpVars  == <<poll, hello, response, found>>

vars == <<stateVars, tableVars, queueVars, entryVars, callVars, ownerVars,
          sweepVars, httpVars, extVars>>

Outcomes == {"none", "refused", "ok", "remote", "disconnected", "timeout"}

\* A /poll thread: idle, inside _wait_for_outgoing, or holding a frame it has
\* dequeued but not yet written.  attached: the page still reads the socket.
PollFree    == [at |-> "free", item |-> NoId, attached |-> FALSE]
PollStates  ==
    [at : {"free", "parked"}, item : {NoId}, attached : BOOLEAN] \cup
    [at : {"holding"}, item : Ids, attached : BOOLEAN]

Init ==
    /\ closed = FALSE /\ connected = FALSE /\ silent = FALSE
    /\ connectEvent = FALSE /\ shutdownEvent = FALSE /\ serving = TRUE
    /\ nextId = 1
    /\ pending = [i \in Ids |-> NoCall]
    /\ sent = << >> /\ taken = 0
    /\ pc = [c \in Calls |-> "idle"]
    /\ id = [c \in Calls |-> NoId]
    /\ event = [c \in Calls |-> FALSE]
    /\ result = [c \in Calls |-> NoId]
    /\ error = [c \in Calls |-> "none"]
    /\ dead = [c \in Calls |-> FALSE]
    /\ outcome = [c \in Calls |-> "none"]
    /\ owner = "installing" /\ installed = FALSE
    /\ watchdog = "idle"
    /\ todo = [s \in Sweepers |-> {}]
    /\ sweeping = [s \in Sweepers |-> NoCall]
    /\ poll = [h \in Polls |-> PollFree]
    /\ hello = "none"
    /\ response = [i \in Ids |-> "none"]
    /\ found = [i \in Ids |-> NoCall]
    /\ ext = "starting" /\ extPoll = NoPoll
    /\ inbox = {} /\ handled = [i \in Ids |-> "no"]
    /\ received = << >>

-----------------------------------------------------------------------------
(* request(): tool threads call it once install_helper has returned.       *)

ReqRefuse(c) ==
    /\ pc[c] = "idle" /\ installed
    /\ closed \/ ~connected
    /\ pc' = [pc EXCEPT ![c] = "done"]
    /\ outcome' = [outcome EXCEPT ![c] = "refused"]
    /\ UNCHANGED <<stateVars, tableVars, queueVars, entryVars, id, ownerVars,
                   sweepVars, httpVars, extVars>>

ReqAdmit(c) ==
    /\ pc[c] = "idle" /\ installed
    /\ ~closed /\ connected
    /\ pc' = [pc EXCEPT ![c] = "admitted"]
    /\ UNCHANGED <<stateVars, tableVars, queueVars, entryVars, id, outcome,
                   ownerVars, sweepVars, httpVars, extVars>>

\* The id is drawn and, under _pending_lock, the entry registered; nobody can
\* see an id between the two.
ReqRegister(c) ==
    /\ pc[c] = "admitted" /\ nextId \in Ids
    /\ pc' = [pc EXCEPT ![c] = "registered"]
    /\ id' = [id EXCEPT ![c] = nextId]
    /\ pending' = [pending EXCEPT ![nextId] = c]
    /\ nextId' = nextId + 1
    /\ UNCHANGED <<stateVars, queueVars, entryVars, outcome, ownerVars,
                   sweepVars, httpVars, extVars>>

ReqEnqueue(c) ==
    /\ pc[c] = "registered"
    /\ pc' = [pc EXCEPT ![c] = "waiting"]
    /\ sent' = Append(sent, id[c])
    /\ UNCHANGED <<stateVars, tableVars, taken, entryVars, id, outcome,
                   ownerVars, sweepVars, httpVars, extVars>>

Unregister(c) == pending' = [pending EXCEPT ![id[c]] = NoCall]

ReqWake(c) ==
    /\ pc[c] = "waiting" /\ event[c]
    /\ pc' = [pc EXCEPT ![c] = "woken"]
    /\ Unregister(c)
    /\ UNCHANGED <<stateVars, nextId, queueVars, entryVars, id, outcome,
                   ownerVars, sweepVars, httpVars, extVars>>

\* Mutant: a timed-out call leaves its entry in the table.
ReqTimeoutKeepsEntry(c) ==
    /\ pc[c] = "waiting" /\ ~event[c]
    /\ pc' = [pc EXCEPT ![c] = "expired"]
    /\ UNCHANGED <<stateVars, tableVars, queueVars, entryVars, id, outcome,
                   ownerVars, sweepVars, httpVars, extVars>>

\* Mutant: event.wait() without a timeout.
ReqTimeoutNever(c) == pc[c] = "never" /\ ReqTimeoutKeepsEntry(c)

\* event.wait(timeout) returned False.  The frame stays where it is: in the
\* queue, in a handler's hand, on the wire or in the page.
ReqTimeout(c) ==
    /\ pc[c] = "waiting" /\ ~event[c]
    /\ pc' = [pc EXCEPT ![c] = "expired"]
    /\ Unregister(c)
    /\ UNCHANGED <<stateVars, nextId, queueVars, entryVars, id, outcome,
                   ownerVars, sweepVars, httpVars, extVars>>

ReqExpire(c) ==
    /\ pc[c] = "expired"
    /\ pc' = [pc EXCEPT ![c] = "done"]
    /\ dead' = [dead EXCEPT ![c] = TRUE]
    /\ outcome' = [outcome EXCEPT ![c] = "timeout"]
    /\ UNCHANGED <<stateVars, tableVars, queueVars, event, result, error, id,
                   ownerVars, sweepVars, httpVars, extVars>>

\* Mutant: only the extension's own error is raised.
ReqReturnForgetsDisconnect(c) ==
    /\ pc[c] = "woken"
    /\ pc' = [pc EXCEPT ![c] = "done"]
    /\ outcome' = [outcome EXCEPT ![c] =
                      IF error[c] = "remote" THEN "remote" ELSE "ok"]
    /\ UNCHANGED <<stateVars, tableVars, queueVars, entryVars, id, ownerVars,
                   sweepVars, httpVars, extVars>>

\* An error wins over a result that is there as well.
ReqReturn(c) ==
    /\ pc[c] = "woken"
    /\ pc' = [pc EXCEPT ![c] = "done"]
    /\ outcome' = [outcome EXCEPT ![c] =
                      IF error[c] # "none" THEN error[c] ELSE "ok"]
    /\ UNCHANGED <<stateVars, tableVars, queueVars, entryVars, id, ownerVars,
                   sweepVars, httpVars, extVars>>

-----------------------------------------------------------------------------
(* _fail_pending, run by two threads: the entries leave the table under    *)
(* the lock and are then failed one at a time without it.                  *)

Snapshot(s) ==
    /\ todo' = [todo EXCEPT ![s] = {pending[i] : i \in Ids} \ {NoCall}]
    /\ pending' = [i \in Ids |-> NoCall]

SweepSkip(s, c) ==
    /\ c \in todo[s] /\ sweeping[s] = NoCall /\ event[c]
    /\ todo' = [todo EXCEPT ![s] = @ \ {c}]
    /\ UNCHANGED <<stateVars, tableVars, queueVars, entryVars, callVars,
                   ownerVars, watchdog, sweeping, httpVars, extVars>>

\* Mutant: the sweep wakes the call before it writes the error.
SweepErrorWakesFirst(s, c) ==
    /\ c \in todo[s] /\ sweeping[s] = NoCall /\ ~event[c]
    /\ sweeping' = [sweeping EXCEPT ![s] = c]
    /\ event' = [event EXCEPT ![c] = TRUE]
    /\ UNCHANGED <<stateVars, tableVars, queueVars, error, result, dead,
                   callVars, ownerVars, watchdog, todo, httpVars, extVars>>

\* is_set() and the writing of the error are one step.  A response that sets the event in
\* between finds the call either not through: the error might as well have been written
\* right before; or gone: it might as well have been skipped, for nobody reads it.
SweepError(s, c) ==
    /\ c \in todo[s] /\ sweeping[s] = NoCall /\ ~event[c]
    /\ sweeping' = [sweeping EXCEPT ![s] = c]
    /\ error' = [error EXCEPT ![c] = "disconnected"]
    /\ UNCHANGED <<stateVars, tableVars, queueVars, event, result, dead,
                   callVars, ownerVars, watchdog, todo, httpVars, extVars>>

SweepSet(s) ==
    /\ sweeping[s] # NoCall
    /\ event' = [event EXCEPT ![sweeping[s]] = TRUE]
    /\ todo' = [todo EXCEPT ![s] = @ \ {sweeping[s]}]
    /\ sweeping' = [sweeping EXCEPT ![s] = NoCall]
    /\ UNCHANGED <<stateVars, tableVars, queueVars, result, error, dead,
                   callVars, ownerVars, watchdog, httpVars, extVars>>

\* No request was heard for a minute.  A parked /poll is answered within 25
\* seconds and refreshes _last_seen, so nothing is parked all that time; the
\* age matters only while connected.
FallSilent ==
    /\ "silence" \in Environment
    /\ connected /\ ~silent
    /\ \A h \in Polls : poll[h].at # "parked"
    /\ silent' = TRUE
    /\ UNCHANGED <<closed, connected, connectEvent, shutdownEvent, serving,
                   tableVars, queueVars, entryVars, callVars, ownerVars,
                   sweepVars, httpVars, extVars>>

WatchdogDisconnect ==
    /\ watchdog = "idle" /\ ~shutdownEvent
    /\ connected /\ silent
    /\ connected' = FALSE
    /\ watchdog' = "disconnected"
    /\ UNCHANGED <<closed, silent, connectEvent, shutdownEvent, serving,
                   tableVars, queueVars, entryVars, callVars, ownerVars, todo,
                   sweeping, httpVars, extVars>>

WatchdogSnapshot ==
    /\ watchdog = "disconnected"
    /\ watchdog' = "sweeping"
    /\ connectEvent' = TRUE
    /\ Snapshot("watchdog")
    /\ UNCHANGED <<closed, connected, silent, shutdownEvent, serving, nextId,
                   queueVars, entryVars, callVars, ownerVars, sweeping,
                   httpVars, extVars>>

WatchdogResume ==
    /\ watchdog = "sweeping" /\ todo["watchdog"] = {}
    /\ watchdog' = "idle"
    /\ UNCHANGED <<stateVars, tableVars, queueVars, entryVars, callVars,
                   ownerVars, todo, sweeping, httpVars, extVars>>

-----------------------------------------------------------------------------
(* The owner: install_helper, later uninstall_helper and close().          *)

InstallConnected ==
    /\ owner = "installing" /\ connectEvent
    /\ owner' = IF connected THEN "established" ELSE "closing"
    /\ installed' = connected
    /\ UNCHANGED <<stateVars, tableVars, queueVars, entryVars, callVars,
                   sweepVars, httpVars, extVars>>

\* _BRIDGE_HANDSHAKE_TIMEOUT, or the add-on manager rejected the XPI.
InstallFailed ==
    /\ "installFails" \in Environment
    /\ owner = "installing" /\ ~connectEvent
    /\ owner' = "closing"
    /\ UNCHANGED <<stateVars, tableVars, queueVars, entryVars, callVars,
                   installed, sweepVars, httpVars, extVars>>

OwnerTearsDown ==
    /\ "close" \in Environment
    /\ owner = "established"
    /\ owner' = "closing"
    /\ UNCHANGED <<stateVars, tableVars, queueVars, entryVars, callVars,
                   installed, sweepVars, httpVars, extVars>>

CloseMark ==
    /\ owner = "closing"
    /\ owner' = "marked"
    /\ closed' = TRUE /\ connected' = FALSE
    /\ UNCHANGED <<silent, connectEvent, shutdownEvent, serving, tableVars,
                   queueVars, entryVars, callVars, installed, sweepVars,
                   httpVars, extVars>>

CloseSignal ==
    /\ owner = "marked"
    /\ owner' = "signalled"
    /\ shutdownEvent' = TRUE /\ connectEvent' = TRUE
    /\ UNCHANGED <<closed, connected, silent, serving, tableVars, queueVars,
                   entryVars, callVars, installed, sweepVars, httpVars, extVars>>

\* The listener goes; daemon handler threads already running go on.
CloseServer ==
    /\ owner = "signalled"
    /\ owner' = "stopped"
    /\ serving' = FALSE
    /\ UNCHANGED <<closed, connected, silent, connectEvent, shutdownEvent,
                   tableVars, queueVars, entryVars, callVars, installed,
                   sweepVars, httpVars, extVars>>

CloseSnapshot ==
    /\ owner = "stopped"
    /\ owner' = "sweeping"
    /\ Snapshot("closer")
    /\ UNCHANGED <<stateVars, nextId, queueVars, entryVars, callVars,
                   installed, watchdog, sweeping, httpVars, extVars>>

CloseDone ==
    /\ owner = "sweeping" /\ todo["closer"] = {}
    /\ owner' = "done"
    /\ UNCHANGED <<stateVars, tableVars, queueVars, entryVars, callVars,
                   installed, sweepVars, httpVars, extVars>>

-----------------------------------------------------------------------------
(* POST /hello                                                             *)

ExtHello ==
    /\ ext = "starting"
    /\ IF serving /\ ~closed
         THEN ext' = "greeting" /\ hello' = "accepted"
         ELSE ext' = "stopped" /\ UNCHANGED hello
    /\ UNCHANGED <<stateVars, tableVars, queueVars, entryVars, callVars,
                   ownerVars, sweepVars, poll, response, found, extPoll,
                   inbox, handled, received>>

\* is_closed was asked before: the handler does not ask again.
HandleHello ==
    /\ hello = "accepted"
    /\ hello' = "done"
    /\ connected' = TRUE /\ silent' = FALSE /\ connectEvent' = TRUE
    /\ ext' = IF ext = "greeting" THEN "ready" ELSE ext
    /\ UNCHANGED <<closed, shutdownEvent, serving, tableVars, queueVars,
                   entryVars, callVars, ownerVars, sweepVars, poll, response,
                   found, extPoll, inbox, handled, received>>

-----------------------------------------------------------------------------
(* GET /poll                                                               *)

\* A closed bridge answers 503 and the loop ends; a socket nobody listens on
\* makes the loop back off and try again, which changes nothing here.
ExtPoll ==
    /\ ext = "ready" /\ serving
    /\ IF closed
         THEN ext' = "stopped" /\ UNCHANGED <<silent, poll, extPoll>>
         ELSE \E h \in Polls :
                /\ poll[h] = PollFree
                /\ poll' = [poll EXCEPT ![h] =
                               [at |-> "parked", item |-> NoId, attached |-> TRUE]]
                /\ silent' = FALSE
                /\ ext' = "polling" /\ extPoll' = h
    /\ UNCHANGED <<closed, connected, connectEvent, shutdownEvent, serving,
                   tableVars, queueVars, entryVars, callVars, ownerVars,
                   sweepVars, hello, response, found, inbox, handled, received>>

\* Mutant: the frame stays in the queue until it has been written.
PollTakePeeks(h) ==
    /\ poll[h].at = "parked" /\ taken < Len(sent)
    /\ poll' = [poll EXCEPT ![h] = [at |-> "holding", item |-> sent[taken + 1],
                                    attached |-> @.attached]]
    /\ silent' = FALSE
    /\ UNCHANGED <<closed, connected, connectEvent, shutdownEvent, serving,
                   tableVars, queueVars, entryVars, callVars, ownerVars,
                   sweepVars, hello, response, found, extVars>>

PollTake(h) ==
    /\ poll[h].at = "parked" /\ taken < Len(sent)
    /\ poll' = [poll EXCEPT ![h] = [at |-> "holding", item |-> sent[taken + 1],
                                    attached |-> @.attached]]
    /\ taken' = taken + 1
    /\ silent' = FALSE
    /\ UNCHANGED <<closed, connected, connectEvent, shutdownEvent, serving,
                   tableVars, sent, entryVars, callVars, ownerVars, sweepVars,
                   hello, response, found, extVars>>

\* The poll budget elapsed or the bridge shuts down: 204.
PollExpire(h) ==
    /\ poll[h].at = "parked"
    /\ poll' = [poll EXCEPT ![h] = PollFree]
    /\ IF poll[h].attached
         THEN ext' = "ready" /\ extPoll' = NoPoll
         ELSE UNCHANGED <<ext, extPoll>>
    /\ UNCHANGED <<stateVars, tableVars, queueVars, entryVars, callVars,
                   ownerVars, sweepVars, hello, response, found, inbox,
                   handled, received>>

\* Mutant: the page still acts on the answer of a fetch it gave up.
PollReplyAnyway(h) ==
    /\ poll[h].at = "holding"
    /\ poll' = [poll EXCEPT ![h] = PollFree]
    /\ inbox' = inbox \cup {poll[h].item}
    /\ received' = Append(received, poll[h].item)
    /\ IF poll[h].attached
         THEN ext' = "ready" /\ extPoll' = NoPoll
         ELSE UNCHANGED <<ext, extPoll>>
    /\ UNCHANGED <<stateVars, tableVars, queueVars, entryVars, callVars,
                   ownerVars, sweepVars, hello, response, found, handled>>

\* The frame is written.  Nobody reads it when the page has abandoned the
\* fetch, and then it is gone: get() already removed it.
PollReply(h) ==
    /\ poll[h].at = "holding"
    /\ poll' = [poll EXCEPT ![h] = PollFree]
    /\ IF poll[h].attached
         THEN /\ ext' = "ready" /\ extPoll' = NoPoll
              /\ inbox' = inbox \cup {poll[h].item}
              /\ received' = Append(received, poll[h].item)
         ELSE UNCHANGED <<ext, extPoll, inbox, received>>
    /\ UNCHANGED <<stateVars, tableVars, queueVars, entryVars, callVars,
                   ownerVars, sweepVars, hello, response, found, handled>>

Abandon == poll' = [h \in Polls |-> [poll[h] EXCEPT !.attached = FALSE]]

\* The fetch fails in the page (network reset, truncated body): the loop backs
\* off and polls again while the old handler thread still runs.
ExtPollFails ==
    /\ "pollFails" \in Environment
    /\ ext = "polling"
    /\ ext' = "ready" /\ extPoll' = NoPoll
    /\ Abandon
    /\ UNCHANGED <<stateVars, tableVars, queueVars, entryVars, callVars,
                   ownerVars, sweepVars, hello, response, found, inbox,
                   handled, received>>

\* The browser quits or crashes, or uninstall_helper removes the add-on.
ExtDies ==
    /\ "dies" \in Environment
    /\ ext # "gone"
    /\ ext' = "gone" /\ extPoll' = NoPoll
    /\ Abandon
    /\ UNCHANGED <<stateVars, tableVars, queueVars, entryVars, callVars,
                   ownerVars, sweepVars, hello, response, found, inbox,
                   handled, received>>

-----------------------------------------------------------------------------
(* handleRequest in the page and POST /response                            *)

\* handleRequest is not awaited: frames the page holds finish in any order.
ExtHandle(i, how) ==
    /\ ext # "gone" /\ i \in inbox
    /\ how = "rejected" => "rejects" \in Environment
    /\ inbox' = inbox \ {i}
    /\ handled' = [handled EXCEPT ![i] = how]
    /\ response' = [response EXCEPT ![i] = "flight"]
    /\ UNCHANGED <<stateVars, tableVars, queueVars, entryVars, callVars,
                   ownerVars, sweepVars, poll, hello, found, ext, extPoll,
                   received>>

\* The post fails or is answered 503; the page only logs it.
ResponseLost(i) ==
    /\ "responseLost" \in Environment
    /\ response[i] = "flight"
    /\ response' = [response EXCEPT ![i] = "gone"]
    /\ UNCHANGED <<stateVars, tableVars, queueVars, entryVars, callVars,
                   ownerVars, sweepVars, poll, hello, found, extVars>>

ResponseAccept(i) ==
    /\ response[i] = "flight" /\ serving /\ ~closed
    /\ response' = [response EXCEPT ![i] = "accepted"]
    /\ UNCHANGED <<stateVars, tableVars, queueVars, entryVars, callVars,
                   ownerVars, sweepVars, poll, hello, found, extVars>>

\* Mutant: answers are matched to calls by age, not by id.
ResponseLookupOldest(i) ==
    /\ response[i] = "accepted"
    /\ LET live == {j \in Ids : pending[j] # NoCall}
           oldest == CHOOSE j \in live : \A k \in live : j <= k
       IN  /\ response' = [response EXCEPT ![i] =
                              IF live = {} THEN "gone" ELSE "found"]
           /\ found' = [found EXCEPT ![i] =
                           IF live = {} THEN NoCall ELSE pending[oldest]]
    /\ silent' = FALSE
    /\ UNCHANGED <<closed, connected, connectEvent, shutdownEvent, serving,
                   tableVars, queueVars, entryVars, callVars, ownerVars,
                   sweepVars, poll, hello, extVars>>

ResponseLookup(i) ==
    /\ response[i] = "accepted"
    /\ response' = [response EXCEPT ![i] =
                       IF pending[i] = NoCall THEN "gone" ELSE "found"]
    /\ found' = [found EXCEPT ![i] = pending[i]]
    /\ silent' = FALSE
    /\ UNCHANGED <<closed, connected, connectEvent, shutdownEvent, serving,
                   tableVars, queueVars, entryVars, callVars, ownerVars,
                   sweepVars, poll, hello, extVars>>

\* The entry may have been popped, swept or given up since it was looked up.
ResponseAssign(i) ==
    /\ response[i] = "found"
    /\ IF dead[found[i]]
         THEN /\ response' = [response EXCEPT ![i] = "gone"]
              /\ UNCHANGED <<result, error>>
         ELSE /\ response' = [response EXCEPT ![i] = "assigned"]
              /\ IF handled[i] = "rejected"
                   THEN error' = [error EXCEPT ![found[i]] = "remote"] /\ UNCHANGED result
                   ELSE result' = [result EXCEPT ![found[i]] = i] /\ UNCHANGED error
    /\ UNCHANGED <<stateVars, tableVars, queueVars, event, dead, callVars,
                   ownerVars, sweepVars, poll, hello, found, extVars>>

ResponseSet(i) ==
    /\ response[i] = "assigned"
    /\ response' = [response EXCEPT ![i] = "gone"]
    /\ event' = [event EXCEPT ![found[i]] = TRUE]
    /\ UNCHANGED <<stateVars, tableVars, queueVars, result, error, dead,
                   callVars, ownerVars, sweepVars, poll, hello, found, extVars>>

\* Mutant: traffic that resumes reconnects the bridge.
HandleEventReconnects ==
    /\ ext \notin {"starting", "greeting", "gone"} /\ serving /\ ~closed /\ silent
    /\ silent' = FALSE /\ connected' = TRUE
    /\ UNCHANGED <<closed, connectEvent, shutdownEvent, serving,
                   tableVars, queueVars, entryVars, callVars, ownerVars,
                   sweepVars, httpVars, extVars>>

\* Any POST /event: here only the age of the last traffic.
HandleEvent ==
    /\ "events" \in Environment
    /\ ext \notin {"starting", "greeting", "gone"} /\ serving /\ ~closed /\ silent
    /\ silent' = FALSE
    /\ UNCHANGED <<closed, connected, connectEvent, shutdownEvent, serving,
                   tableVars, queueVars, entryVars, callVars, ownerVars,
                   sweepVars, httpVars, extVars>>

-----------------------------------------------------------------------------
CallStep(c) ==
    \/ ReqRefuse(c) \/ ReqAdmit(c) \/ ReqRegister(c) \/ ReqEnqueue(c)
    \/ ReqWake(c) \/ ReqTimeout(c) \/ ReqExpire(c) \/ ReqReturn(c)

SweepStep(s) ==
    \/ \E c \in Calls : SweepSkip(s, c) \/ SweepError(s, c)
    \/ SweepSet(s)

WatchdogStep == WatchdogDisconnect \/ WatchdogSnapshot \/ WatchdogResume

CloseStep ==
    CloseMark \/ CloseSignal \/ CloseServer \/ CloseSnapshot \/ CloseDone

InstallStep == InstallConnected \/ InstallFailed \/ OwnerTearsDown

PollStep(h) == PollTake(h) \/ PollExpire(h) \/ PollReply(h)

ResponseStep(i) ==
    \/ ResponseLost(i) \/ ResponseAccept(i) \/ ResponseLookup(i)
    \/ ResponseAssign(i) \/ ResponseSet(i)

ExtStep ==
    \/ ExtHello \/ HandleHello \/ ExtPoll \/ ExtPollFails \/ ExtDies
    \/ \E i \in Ids, how \in {"applied", "rejected"} : ExtHandle(i, how)

Next ==
    \/ \E c \in Calls : CallStep(c)
    \/ \E s \in Sweepers : SweepStep(s)
    \/ FallSilent \/ WatchdogStep
    \/ InstallStep \/ CloseStep
    \/ \E h \in Polls : PollStep(h)
    \/ \E i \in Ids : ResponseStep(i)
    \/ HandleEvent \/ ExtStep

Spec == Init /\ [][Next]_vars

\* What every Python thread does sooner or later once it can: a call that was
\* admitted goes on (its wait ends by the event or by the timeout), a sweep goes
\* through its entries, close() runs its course, a /poll thread reaches its
\* deadline or writes its frame.  Nothing is assumed of the page.
ReqAdvance(c) ==
    \/ ReqRegister(c) \/ ReqEnqueue(c) \/ ReqWake(c)
    \/ ReqTimeout(c) \/ ReqExpire(c) \/ ReqReturn(c)

Fairness ==
    /\ \A c \in Calls : WF_vars(ReqAdvance(c))
    /\ \A s \in Sweepers : WF_vars(SweepStep(s))
    /\ \A h \in Polls : WF_vars(PollExpire(h)) /\ WF_vars(PollReply(h))
    /\ WF_vars(CloseStep)

LiveSpec == Spec /\ Fairness

-----------------------------------------------------------------------------
(* Safety                                                                  *)

BridgeType ==
    /\ closed \in BOOLEAN /\ connected \in BOOLEAN /\ silent \in BOOLEAN
    /\ connectEvent \in BOOLEAN /\ shutdownEvent \in BOOLEAN /\ serving \in BOOLEAN

TableType ==
    /\ nextId \in 1 .. MaxId + 1
    /\ pending \in [Ids -> Calls \cup {NoCall}]

QueueType == sent \in Seq(Ids) /\ taken \in 0 .. Len(sent)

EntryType ==
    /\ event \in [Calls -> BOOLEAN]
    /\ result \in [Calls -> Ids \cup {NoId}]
    /\ error \in [Calls -> {"none", "remote", "disconnected"}]
    /\ dead \in [Calls -> BOOLEAN]

CallType ==
    /\ pc \in [Calls -> {"idle", "admitted", "registered", "waiting", "woken",
                         "expired", "done"}]
    /\ id \in [Calls -> Ids \cup {NoId}]
    /\ outcome \in [Calls -> Outcomes]
    /\ \A c \in Calls : pc[c] = "registered" => id[c] \in Ids

OwnerType ==
    /\ owner \in {"installing", "established", "closing", "marked",
                  "signalled", "stopped", "sweeping", "done"}
    /\ installed \in BOOLEAN

SweepType ==
    /\ watchdog \in {"idle", "disconnected", "sweeping"}
    /\ todo \in [Sweepers -> SUBSET Calls]
    /\ sweeping \in [Sweepers -> Calls \cup {NoCall}]

HttpType ==
    /\ poll \in [Polls -> PollStates]
    /\ hello \in {"none", "accepted", "done"}
    /\ response \in [Ids -> {"none", "flight", "accepted", "found", "assigned",
                             "gone"}]
    /\ found \in [Ids -> Calls \cup {NoCall}]

PageType ==
    /\ ext \in {"starting", "greeting", "ready", "polling", "stopped", "gone"}
    /\ extPoll \in Polls \cup {NoPoll}
    /\ inbox \subseteq Ids
    /\ handled \in [Ids -> {"no", "applied", "rejected"}]
    /\ received \in Seq(Ids)

\* Type correctness of the bridge, its threads and the page.
TypeOK ==
    /\ BridgeType /\ TableType /\ QueueType /\ EntryType /\ CallType
    /\ OwnerType /\ SweepType /\ HttpType /\ PageType

Answered(c) == error[c] # "none" \/ result[c] # NoId

\* request() ends in "assert pending.result is not None": whoever set the
\* event, the response handler or a sweep, wrote an answer first.
WokenHasAnswer == \A c \in Calls : event[c] => Answered(c)

\* The pending table holds an entry for nobody but a call that is still to
\* wait or waiting under that id: no answer finds a call that is over, and
\* nothing leaks when calls time out while responses and sweeps race them.
PendingBelongsToLiveCall ==
    \A i \in Ids :
        pending[i] # NoCall =>
            /\ id[pending[i]] = i
            /\ pc[pending[i]] \in {"registered", "waiting"}

\* An answer reaches the call it answers: one call never returns the result
\* of another, however polls, responses and timeouts interleave.
AnswersOwnCall ==
    \A c \in Calls :
        /\ result[c] # NoId => result[c] = id[c] /\ handled[id[c]] = "applied"
        /\ error[c] = "remote" => id[c] # NoId /\ handled[id[c]] = "rejected"

\* Frames are received at most once and in the order they were put on the
\* queue, although an abandoned /poll thread may still be taking frames.
Precedes(seq, i, j) ==
    \E x, y \in 1 .. Len(seq) : x < y /\ seq[x] = i /\ seq[y] = j

ReceivedInQueueOrder ==
    \A a, b \in 1 .. Len(received) :
        a < b => Precedes(sent, received[a], received[b])

\* An id belongs to one call, from its registration on.
CallIds ==
    \A c \in Calls :
        /\ pc[c] \in {"idle", "admitted"} => id[c] = NoId
        /\ pc[c] \in {"registered", "waiting", "woken", "expired"} => id[c] # NoId
        /\ pc[c] = "done" <=> outcome[c] # "none"
        /\ outcome[c] = "refused" => id[c] = NoId
        /\ id[c] < nextId
        /\ \A d \in Calls : id[c] = id[d] /\ id[c] # NoId => c = d

\* A frame exists once: in the queue, in the hand of one /poll thread, in the
\* page, or handled by it, or lost; a call enqueues only after it registered.
TakenFrame(i) == \E x \in 1 .. Len(sent) : x <= taken /\ sent[x] = i
Held(i) == \E h \in Polls : poll[h].at = "holding" /\ poll[h].item = i

SentOnce ==
    /\ \A x, y \in 1 .. Len(sent) : sent[x] = sent[y] => x = y
    /\ \A x \in 1 .. Len(sent) :
         /\ sent[x] < nextId
         /\ \A c \in Calls : id[c] = sent[x] => pc[c] # "registered"

FrameOnce ==
    /\ \A h, g \in Polls :
         poll[h].at = "holding" /\ poll[g].at = "holding"
           /\ poll[h].item = poll[g].item => h = g
    /\ \A i \in Ids : Held(i) => TakenFrame(i)
    /\ \A i \in Ids :
         i \in inbox \/ handled[i] # "no" => TakenFrame(i) /\ ~Held(i)
    /\ \A i \in inbox : handled[i] = "no"

\* What a /response thread carries: the answer to a handled frame, and the
\* entry of the call that waits, or waited, for it.
AnswersInTransit ==
    \A i \in Ids :
        /\ response[i] # "none" => handled[i] # "no"
        /\ response[i] \in {"found", "assigned"} => found[i] # NoCall
        /\ found[i] # NoCall => id[found[i]] = i
        /\ response[i] = "assigned" => Answered(found[i])

WakersHaveAnswered ==
    /\ \A s \in Sweepers : sweeping[s] # NoCall => Answered(sweeping[s])
    /\ \A c \in Calls : pc[c] = "woken" => event[c]

\* The inductive invariant: the safety properties and what they rest on.
IndInv ==
    /\ TypeOK /\ CallIds /\ PendingBelongsToLiveCall
    /\ SentOnce /\ FrameOnce /\ AnswersInTransit /\ AnswersOwnCall
    /\ WokenHasAnswer /\ WakersHaveAnswered

\* close() promises to "fail pending requests": once it has returned, a call
\* that is registered has been told.
ClosedLeavesNoWaiter ==
    owner = "done" =>
        \A c \in Calls : pc[c] = "waiting" => event[c]

\* The page greets once, so a bridge that install_helper() has returned as connected and
\* that the watchdog or close() then gave up stays given up: traffic that resumes never
\* reconnects it.  (Before install_helper() has seen it connected, a /hello accepted
\* before a close() is handled after it and does connect the closed bridge.)
DisconnectIsPermanent ==
    [][installed /\ ~connected => ~connected']_vars

\* Every call that was admitted returns: through lost frames, a dead page, a
\* bridge closed between its admission and its registration.
EveryCallReturns ==
    \A c \in Calls : pc[c] = "admitted" ~> pc[c] = "done"

\* close() comes to its end and every /poll thread, abandoned ones included,
\* leaves _wait_for_outgoing within its budget.
CloseDrainsPolls ==
    owner = "closing" ~>
        owner = "done" /\ \A h \in Polls : poll[h] = PollFree

\* Whoever waits on the bridge, a caller or a poll thread, stops waiting.
EveryWaitEnds == EveryCallReturns /\ CloseDrainsPolls

-----------------------------------------------------------------------------
(* The abstract view: the caller's outcome and what the page did.          *)

Phase(c) ==
    CASE pc[c] = "idle" -> "idle"
      [] pc[c] # "done" /\ pc[c] # "idle" -> "open"
      [] pc[c] = "done" /\ outcome[c] \in {"disconnected", "timeout"} -> "unknown"
      [] pc[c] = "done" /\ outcome[c] \notin {"disconnected", "timeout"} -> outcome[c]

Executed(c) == IF id[c] = NoId THEN "no" ELSE handled[id[c]]

Remote == INSTANCE RemoteCall WITH
    phase    <- [c \in Calls |-> Phase(c)],
    executed <- [c \in Calls |-> Executed(c)]

\* The bridge implements an at-most-once remote call: what a caller is told
\* agrees with what the page did.
ImplementsRemoteCall == Remote!Spec
=============================================================================
