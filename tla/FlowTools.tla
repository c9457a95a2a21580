----------------------------- MODULE FlowTools ------------------------------
(***************************************************************************)
(* torbrowser_driver/_proxy_intercept_primitives.py over FlowRecorder: the *)
(* browser_intercept_* tools, each call on a thread of its own while the   *)
(* hooks keep recording.  A tool takes the recorder's lock several times   *)
(* per call; everything between two of them is one action here.            *)
(*                                                                         *)
(* A client tails: it takes a cursor from browser_intercept_start (or none *)
(* at all) and passes each next_since back to browser_intercept_flows,     *)
(* always with the same filters.                                           *)
(***************************************************************************)
EXTENDS FlowRecorder

CONSTANTS
    Clients,        \* callers of the tools
    Wanted,         \* the ids the clients' host filter lets through
    Statused,       \* the flows whose response has the status_code asked for
    Limit,          \* the limit argument of browser_intercept_flows
    NoCursor,       \* since=None
    Nobody,         \* no replay copy
    Calls           \* the tools that are called

ASSUME WantedAssumption == Wanted \subseteq Flows /\ Statused \subseteq Flows
ASSUME LimitAssumption == Limit \in Nat \ {0}
ASSUME NoCursorAssumption == NoCursor \notin Nat
ASSUME NobodyAssumption == Nobody \notin Flows
ASSUME CallsAssumption == Calls \subseteq {"start", "none", "stop", "replay"}

VARIABLES
    pc,             \* what each client's call is doing
    begun,          \* how its tail began: "no", by "start", with "none"; or
                    \* that a clear has "cut" it
    begin,          \* the length of the log when it began
    byStatus,       \* it filters by status_code too
    cursor,         \* the since it will pass next
    page,           \* entries of its snapshot not yet looked at
    room,           \* how many of them it may still select
    seen,           \* entries returned to it, by their place in the log
    declined,       \* history: those it looked at before they had the status
    count,          \* flows_collected of its browser_intercept_stop
    copy,           \* the replay it waits for
    answer,         \* what its last replay returned
    late            \* replays given up that mitmproxy's loop has yet to run

clientVars == <<begun, begin, byStatus, cursor, page, room, seen, declined>>
replayVars == <<copy, answer, late>>
toolVars == <<pc, clientVars, count, replayVars>>
allVars == <<vars, toolVars>>

Answer(how, since) == [how |-> how, since |-> since]

ToolsInit ==
    /\ Init
    /\ pc = [t \in Clients |-> "idle"]
    /\ begun = [t \in Clients |-> "no"]
    /\ begin = [t \in Clients |-> 0]
    /\ byStatus = [t \in Clients |-> FALSE]
    /\ cursor = [t \in Clients |-> NoCursor]
    /\ page = [t \in Clients |-> {}]
    /\ room = [t \in Clients |-> 0]
    /\ seen = [t \in Clients |-> {}]
    /\ declined = [t \in Clients |-> {}]
    /\ count = [t \in Clients |-> 0]
    /\ copy = [t \in Clients |-> Nobody]
    /\ answer = [t \in Clients |-> Answer("none", 0)]
    /\ late = {}

Goto(t, from, to) == pc[t] = from /\ pc' = [pc EXCEPT ![t] = to]

-----------------------------------------------------------------------------
(* browser_intercept_start and browser_intercept_flows                     *)

Start(t, filtered) ==
    /\ "start" \in Calls
    /\ pc[t] = "idle" /\ begun[t] = "no"
    /\ begun' = [begun EXCEPT ![t] = "start"]
    /\ begin' = [begin EXCEPT ![t] = Len(log)]
    /\ byStatus' = [byStatus EXCEPT ![t] = filtered]
    /\ cursor' = [cursor EXCEPT ![t] = nextSince]
    /\ UNCHANGED <<vars, pc, page, room, seen, declined, count, replayVars>>

\* A client that lists without a cursor wants everything the buffer holds.
StartWithout(t, filtered) ==
    /\ "none" \in Calls
    /\ pc[t] = "idle" /\ begun[t] = "no"
    /\ begun' = [begun EXCEPT ![t] = "none"]
    /\ byStatus' = [byStatus EXCEPT ![t] = filtered]
    /\ UNCHANGED <<vars, pc, begin, cursor, page, room, seen, declined, count, replayVars>>

\* The filters whose verdict on an entry never changes: since and host.
Matches(e, since) == e.id \in Wanted /\ (since # NoCursor => e.since >= since)

\* The filter that reads the response, which an entry may get later.
StatusMatches(t, e) == byStatus[t] => e.answered /\ e.id \in Statused

Matching(since) == {buffer[k] : k \in {j \in DOMAIN buffer : Matches(buffer[j], since)}}

\* The snapshot.
ListBegin(t) ==
    /\ begun[t] # "no"
    /\ Goto(t, "idle", "listing")
    /\ page' = [page EXCEPT ![t] = Matching(cursor[t])]
    /\ room' = [room EXCEPT ![t] = Limit]
    /\ UNCHANGED <<vars, begun, begin, byStatus, cursor, seen, declined, count, replayVars>>

\* A snapshot holds the recorder's own entries: it sees them updated.
Updated(p, b) ==
    {e \in p : \A k \in DOMAIN b : b[k].at # e.at}
        \cup {b[k] : k \in {j \in DOMAIN b : \E e \in p : b[j].at = e.at}}

\* The entries are looked at in their order.
First(t, e) == e \in page[t] /\ \A f \in page[t] : e.at <= f.at

\* One that matches is selected, as long as there is room, and materialised.  The
\* greatest since is the last one; the client has seen the page, and has the cursor,
\* when the last entry is done.
Take(t, e, next) ==
    /\ pc[t] = "listing" /\ room[t] > 0
    /\ First(t, e) /\ StatusMatches(t, e)
    /\ seen' = [seen EXCEPT ![t] = @ \cup {e.at}]
    /\ cursor' = [cursor EXCEPT ![t] = next]
    /\ room' = [room EXCEPT ![t] = @ - 1]
    /\ LET left == IF room[t] = 1 THEN {} ELSE page[t] \ {e}
       IN  /\ page' = [page EXCEPT ![t] = left]
           /\ pc' = [pc EXCEPT ![t] = IF left = {} THEN "idle" ELSE "listing"]
    /\ UNCHANGED <<vars, begun, begin, byStatus, declined, count, replayVars>>

\* Mutant: next_since is the recorder's cursor once the page is made.
ListOneToEnd(t) == \E e \in page[t] : Take(t, e, nextSince)

\* Mutant: a cursor that was passed is echoed even when entries matched.
ListOneStays(t) ==
    \E e \in page[t] : Take(t, e, IF cursor[t] = NoCursor THEN e.since + 1 ELSE cursor[t])

ListOne(t) == \E e \in page[t] : Take(t, e, e.since + 1)

\* One that does not match, yet, is passed over.
ListPass(t) ==
    /\ pc[t] = "listing"
    /\ \E e \in page[t] :
         /\ First(t, e) /\ ~StatusMatches(t, e)
         /\ declined' = [declined EXCEPT ![t] = @ \cup {e.at}]
         /\ page' = [page EXCEPT ![t] = @ \ {e}]
    /\ UNCHANGED <<vars, pc, begun, begin, byStatus, cursor, room, seen, count, replayVars>>

\* Nothing is left.  If nothing matched, the cursor is echoed, or taken from the
\* recorder now.
ListNone(t) ==
    /\ page[t] = {}
    /\ Goto(t, "listing", "idle")
    /\ cursor' = [cursor EXCEPT ![t] = IF @ = NoCursor THEN nextSince ELSE @]
    /\ UNCHANGED <<vars, begun, begin, byStatus, page, room, seen, declined, count, replayVars>>

-----------------------------------------------------------------------------
(* browser_intercept_stop                                                  *)

\* Mutant: everything ever recorded is counted.
StopCountsLog(t) ==
    /\ "stop" \in Calls
    /\ Goto(t, "idle", "counted")
    /\ count' = [count EXCEPT ![t] = Len(log)]
    /\ UNCHANGED <<vars, clientVars, replayVars>>

StopCount(t) ==
    /\ "stop" \in Calls
    /\ Goto(t, "idle", "counted")
    /\ count' = [count EXCEPT ![t] = Len(buffer)]
    /\ UNCHANGED <<vars, clientVars, replayVars>>

StopClear(t) ==
    /\ Goto(t, "counted", "idle")
    /\ Clear
    /\ begun' = [u \in Clients |-> IF begun[u] = "no" THEN "no" ELSE "cut"]
    /\ UNCHANGED <<live, begin, byStatus, cursor, page, room, seen, declined, count, replayVars>>

-----------------------------------------------------------------------------
(* browser_intercept_replay and ProxyManager.replay_flow                   *)

\* The source's raw flow is looked up and copied: the copy has an id of its own.
Replay(t, source, fresh) ==
    /\ "replay" \in Calls
    /\ source \in raw
    /\ live[fresh] = "idle" /\ fresh \notin late /\ \A u \in Clients : copy[u] # fresh
    /\ Goto(t, "idle", "dispatching")
    /\ copy' = [copy EXCEPT ![t] = fresh]
    /\ answer' = [answer EXCEPT ![t] = Answer("none", 0)]
    /\ UNCHANGED <<vars, clientVars, count, late>>

\* The replay.client command runs on mitmproxy's loop.
ReplayDispatched(t) ==
    /\ Goto(t, "dispatching", "waiting")
    /\ live' = [live EXCEPT ![copy[t]] = "dispatched"]
    /\ UNCHANGED <<recorderVars, clientVars, count, replayVars>>

Refuse(t) ==
    /\ Goto(t, "dispatching", "idle")
    /\ answer' = [answer EXCEPT ![t] = Answer("refused", 0)]
    /\ UNCHANGED <<vars, clientVars, count, copy>>

\* The command raises: the flow cannot be replayed.
ReplayRefused(t) == Refuse(t) /\ UNCHANGED late

\* The loop did not get to the command in time.  future.cancel() does not reach a task
\* that the loop has yet to create, which still takes its first and only step.
ReplayGivenUp(t) == Refuse(t) /\ late' = late \cup {copy[t]}

LateReplay(f) ==
    /\ f \in late
    /\ late' = late \ {f}
    /\ live' = [live EXCEPT ![f] = "dispatched"]
    /\ UNCHANGED <<recorderVars, pc, clientVars, count, copy, answer>>

Complete(f) == f \in raw /\ live[f] \in {"answered", "over"}

\* A look at the flow finds a response or an error on it.
ReplayDone(t) ==
    /\ Complete(copy[t])
    /\ Goto(t, "waiting", "replayed")
    /\ UNCHANGED <<vars, clientVars, count, replayVars>>

\* A look finds none and the deadline has passed.
ReplayTimeout(t) ==
    /\ ~Complete(copy[t])
    /\ Goto(t, "waiting", "idle")
    /\ answer' = [answer EXCEPT ![t] = Answer("timeout", 0)]
    /\ UNCHANGED <<vars, clientVars, count, copy, late>>

\* Mutant: the since is taken from the newest entry, as if nothing else were recorded.
ReplayReturnNewest(t) ==
    /\ Goto(t, "replayed", "idle")
    /\ answer' = [answer EXCEPT ![t] = Answer("returned",
           IF buffer = <<>> THEN 0 ELSE buffer[Len(buffer)].since)]
    /\ UNCHANGED <<vars, clientVars, count, copy, late>>

\* The since is looked up in another snapshot of the buffer; 0 if it is gone.
ReplayReturn(t) ==
    /\ Goto(t, "replayed", "idle")
    /\ LET found == {k \in DOMAIN buffer : buffer[k].id = copy[t]}
       IN  answer' = [answer EXCEPT ![t] = Answer("returned",
               IF found = {} THEN 0 ELSE buffer[CHOOSE k \in found : TRUE].since)]
    /\ UNCHANGED <<vars, clientVars, count, copy, late>>

-----------------------------------------------------------------------------
ListStep(t) == ListBegin(t) \/ ListOne(t) \/ ListPass(t) \/ ListNone(t)

ReplayStep(t) ==
    \/ \E source \in Flows, fresh \in Replays : Replay(t, source, fresh)
    \/ ReplayDispatched(t) \/ ReplayRefused(t) \/ ReplayGivenUp(t)
    \/ ReplayDone(t) \/ ReplayTimeout(t) \/ ReplayReturn(t)

ClientStep(t) ==
    \/ \E filtered \in BOOLEAN : Start(t, filtered) \/ StartWithout(t, filtered)
    \/ ListStep(t) \/ StopCount(t) \/ StopClear(t) \/ ReplayStep(t)

\* What mitmproxy does, seen by the listings that run.
HookStep ==
    /\ Hook
    /\ page' = [t \in Clients |-> Updated(page[t], buffer')]
    /\ UNCHANGED <<pc, begun, begin, byStatus, cursor, room, seen, declined, count, replayVars>>

ToolsNext ==
    \/ HookStep
    \/ \E f \in late : LateReplay(f)
    \/ \E t \in Clients : ClientStep(t)

ToolsSpec == ToolsInit /\ [][ToolsNext]_allVars

\* A client that has begun keeps listing, and a call that runs ends.
TailSpec ==
    /\ ToolsSpec
    /\ \A t \in Clients : WF_allVars(ListStep(t)) /\ WF_allVars(StopClear(t))

-----------------------------------------------------------------------------
(* Type correctness of the tools. *)
ToolsTypeOK ==
    /\ pc \in [Clients -> {"idle", "listing", "counted", "dispatching",
                           "waiting", "replayed"}]
    /\ begun \in [Clients -> {"no", "start", "none", "cut"}]
    /\ begin \in [Clients -> Nat]
    /\ cursor \in [Clients -> Nat \cup {NoCursor}]
    /\ byStatus \in [Clients -> BOOLEAN]
    /\ page \in [Clients -> SUBSET Entries]
    /\ room \in [Clients -> 0 .. Limit]
    /\ seen \in [Clients -> SUBSET Nat] /\ declined \in [Clients -> SUBSET Nat]
    /\ count \in [Clients -> 0 .. MaxFlows]
    /\ copy \in [Clients -> Flows \cup {Nobody}]
    /\ answer \in [Clients -> [how : {"none", "refused", "timeout", "returned"},
                               since : Nat]]
    /\ late \subseteq Replays

\* The places of wanted entries of the buffer that came after the tail began, that
\* its cursor has passed and that were never returned to it.
Missed(t) ==
    {buffer[k].at : k \in {j \in DOMAIN buffer :
        /\ buffer[j].id \in Wanted /\ buffer[j].at > begin[t]
        /\ cursor[t] # NoCursor => buffer[j].since < cursor[t]
        /\ buffer[j].at \notin seen[t]}}

\* A tail begun with browser_intercept_start, and not cut by a clear, passes over no
\* flow that is still in the buffer: pages, limits, the host filter and flows recorded
\* while a page is made included.  Only a tail that filters by status_code passes over
\* some, and only flows that had no such response yet when it looked at them: when it
\* comes, the entry keeps the since that the cursor may have passed.
TailMissesNothing ==
    \A t \in Clients :
        pc[t] = "idle" /\ begun[t] = "start" =>
            Missed(t) \subseteq IF byStatus[t] THEN declined[t] ELSE {}

\* No flow is listed to a client twice before the buffer is cleared: what a
\* snapshot holds for it is new to it.
NothingTwice ==
    \A t \in Clients :
       begun[t] # "cut" /\ pc[t] = "idle" /\ pc'[t] = "listing" =>
           \A e \in page'[t] : e.at \notin seen[t]

\* A tail is exact, up to what its status filter declines: each flow that stays in the
\* buffer is listed, and once.
TailIsExact == [][TailMissesNothing' /\ NothingTwice]_allVars

\* The n-th insertion is one the tail is to be returned.
Due(t, n) ==
    /\ begun[t] = "start" /\ n > begin[t]
    /\ n <= Len(log) /\ log[n].id \in Wanted
    /\ byStatus[t] => log[n].id \in Statused
                      /\ \E k \in DOMAIN buffer : buffer[k].at = n /\ buffer[k].answered

\* Once flows stop coming, a tail catches up: every wanted flow in the buffer
\* is returned, unless it is evicted or cleared first; with a status filter, every one
\* with the status that the cursor has not passed before it had it.
TailCatchesUp ==
    \A t \in Clients, n \in 1 .. MaxLog :
        Due(t, n)
        ~> \/ begun[t] = "cut"
           \/ n \in seen[t]
           \/ ~ \E k \in 1 .. Len(buffer) : buffer[k].at = n
           \/ /\ byStatus[t] /\ n \in declined[t]
              /\ cursor[t] # NoCursor /\ log[n].since < cursor[t]

\* A replay that returns has been answered upstream, whatever was evicted or
\* cleared meanwhile, and the since it reports, unless it is the 0 that stands
\* for an entry that is gone, is one the recorder gave to the copy.  (The first half is
\* what replay_flow() says and does; browser_intercept_replay, which calls it, says
\* that it returns as soon as the request has been observed.)
ReplayIsAnswered ==
    \A t \in Clients :
        /\ pc[t] = "replayed" \/ answer[t].how = "returned" =>
               live[copy[t]] \in {"answered", "over"}
        /\ answer[t].how = "returned" /\ answer[t].since > 0 =>
               \E n \in 1 .. Len(log) :
                   log[n] = [id |-> copy[t], since |-> answer[t].since]

-----------------------------------------------------------------------------
(* What the documentation says and the code does not do.                   *)

\* A client that began with since=None passes over nothing either: next_since
\* is there to "tail strictly newer flows".
ListingMissesNothing ==
    \A t \in Clients :
        pc[t] = "idle" /\ begun[t] = "none" /\ ~byStatus[t] /\ cursor[t] # NoCursor
            => Missed(t) = {}
=============================================================================
