---------------------------- MODULE HelperCapture ---------------------------
(***************************************************************************)
(* Network captures: browser_network_capture_start and _stop with the      *)
(* event handlers of _helper_extension_primitives.py on the driver's side, *)
(* startCapture, stopCapture and the page-world events of background.js on *)
(* the other.  Tools and handlers each run on a thread of their own.  An   *)
(* event is a POST nobody waits for, so events pass each other on the way; *)
(* only the body chunks of one request wait for the one before.            *)
(*                                                                         *)
(* Every capture observes the same URLs, so any two of them overlap.  A    *)
(* body is the sequence of its bytes, each named by its place.             *)
(***************************************************************************)
EXTENDS Naturals, Sequences, FiniteSets

CONSTANTS
    Captures,       \* capture ids, one for each browser_network_capture_start
    Stops,          \* invocations of browser_network_capture_stop
    Requests,       \* web requests
    Bodies,         \* responses seen by the page-world fetch/XHR override
    Url,            \* the method and URL of each of them
    Size,           \* bytes the filter delivers of each request's response
    MaxBytes,       \* max_body_bytes
    MaxEvents,      \* bound on the events on their way to the driver at a time
    NoCapture

ASSUME NoCaptureAssumption == NoCapture \notin Captures
ASSUME SizeAssumption ==
    Size \in [Requests -> Nat] /\ MaxBytes \in Nat /\ MaxEvents \in Nat
ASSUME IdsAssumption == Captures \cap Stops = {} /\ Requests \cap Bodies = {}

VARIABLES
    phase, executed,    \* RemoteCall: each start and each stop is one call
    pc,                 \* where each tool invocation is
    target,             \* the capture each stop has been given
    captures,           \* the keys of _helper_captures
    entries,            \* state.entries: each request's body so far
    order,              \* the order in which a request's first event came
    pending,            \* state.page_pending
    result,             \* what a stop returned: [request, page body] pairs
    extCaptures,        \* captures in the page
    net,                \* each request: not begun, or bytes delivered and ended
    owners,             \* the captures whose listener saw it begin
    posted,             \* bytes of it queued for the driver by each owner
    chain,              \* its chunks not yet posted
    flight, held        \* events posted; events whose handler has the state

toolVars  == <<phase, executed, pc, target, result>>
stateVars == <<entries, order, pending>>
netVars   == <<net, owners, posted, chain>>
eventVars == <<flight, held>>
vars == <<toolVars, captures, stateVars, extCaptures, netVars, eventVars>>

Calls == Captures \cup Stops
Remote == INSTANCE RemoteCall

\* What the driver holds of a request: the URL once request.observed came, the
\* bytes of its body, the page body merged into it.
NoEntry == [url |-> FALSE, body |-> << >>, page |-> {}]

Event(c, kind, item, bytes) ==
    [cap |-> c, kind |-> kind, item |-> item, bytes |-> bytes]

Post(events) ==
    /\ Cardinality(flight \cup held \cup events) <= MaxEvents
    /\ flight' = flight \cup events

Init ==
    /\ Remote!Init
    /\ pc = [x \in Calls |-> "idle"]
    /\ target = [p \in Stops |-> NoCapture]
    /\ result = [p \in Stops |-> << >>]
    /\ captures = {} /\ extCaptures = {}
    /\ entries = [c \in Captures |-> [q \in Requests |-> NoEntry]]
    /\ order = [c \in Captures |-> << >>]
    /\ pending = [c \in Captures |-> << >>]
    /\ net = [x \in Requests \cup Bodies |-> [begun |-> FALSE, got |-> 0, ended |-> FALSE]]
    /\ owners = [q \in Requests |-> {}]
    /\ posted = [c \in Captures |-> [q \in Requests |-> 0]]
    /\ chain = [c \in Captures |-> [q \in Requests |-> << >>]]
    /\ flight = {} /\ held = {}

Goto(x, from, to) == pc[x] = from /\ pc' = [pc EXCEPT ![x] = to]
Raised(x) == phase[x] \in {"refused", "remote", "unknown"}

-----------------------------------------------------------------------------
(* browser_network_capture_start                                           *)

\* Nothing that runs overlaps: with one URL set, nothing runs.
StartCheck(c) ==
    /\ captures = {}
    /\ Goto(c, "idle", "checked")
    /\ UNCHANGED <<phase, executed, target, result, captures, stateVars,
                   extCaptures, netVars, eventVars>>

\* The id is drawn and the state put in the table before the page is told.
StartRegister(c) ==
    /\ Goto(c, "checked", "entered")
    /\ captures' = captures \cup {c}
    /\ UNCHANGED <<phase, executed, target, result, stateVars, extCaptures,
                   netVars, eventVars>>

\* Mutant: a failed start leaves its state in the table.
StartLeaveKeeps(c) ==
    /\ c \in Captures
    /\ \/ phase[c] = "ok" /\ Goto(c, "called", "live") /\ UNCHANGED captures
       \/ Raised(c) /\ Goto(c, "called", "failed") /\ UNCHANGED captures
    /\ UNCHANGED <<phase, executed, target, result, stateVars, extCaptures,
                   netVars, eventVars>>

StartLeave(c) ==
    /\ c \in Captures
    /\ \/ phase[c] = "ok" /\ Goto(c, "called", "live") /\ UNCHANGED captures
       \/ Raised(c) /\ Goto(c, "called", "failed") /\ captures' = captures \ {c}
    /\ UNCHANGED <<phase, executed, target, result, stateVars, extCaptures,
                   netVars, eventVars>>

-----------------------------------------------------------------------------
(* bridge.request(), of a start or a stop                                  *)

Request(x) ==
    /\ Goto(x, "entered", "called")
    /\ Remote!Open(x) \/ Remote!Refuse(x)
    /\ UNCHANGED <<target, result, captures, stateVars, extCaptures, netVars,
                   eventVars>>

Answer(x) ==
    /\ Remote!ReturnResult(x) \/ Remote!RaiseRemoteError(x) \/ Remote!GiveUp(x)
    /\ UNCHANGED <<pc, target, result, captures, stateVars, extCaptures,
                   netVars, eventVars>>

-----------------------------------------------------------------------------
(* browser_network_capture_stop                                            *)

\* The id is known once the start has returned it; two stops may have it.  (A start or a
\* stop that finds the bridge down before its request raises, and changes nothing.)
StopEnter(p, c) ==
    /\ pc[c] = "live" /\ c \in captures
    /\ Goto(p, "idle", "entered")
    /\ target' = [target EXCEPT ![p] = c]
    /\ UNCHANGED <<phase, executed, result, captures, stateVars, extCaptures,
                   netVars, eventVars>>

\* The capture leaves the table whatever the page answered.
StopPop(p) ==
    /\ p \in Stops
    /\ \/ phase[p] = "ok" /\ Goto(p, "called", "popped")
       \/ Raised(p) /\ Goto(p, "called", "failed")
    /\ captures' = captures \ {target[p]}
    /\ UNCHANGED <<phase, executed, target, result, stateVars, extCaptures,
                   netVars, eventVars>>

\* Envelopes without a body, in order, each take the oldest pending page body
\* of their method and URL: the n-th that needs one of a URL takes the n-th.  An
\* index has its place among the positions up to it.
Needs(c, q) ==
    entries[c][q].url /\ entries[c][q].body = << >> /\ entries[c][q].page = {}

Place(j, positions) == Cardinality({i \in positions : i <= j})

Rivals(c, q)  == {j \in DOMAIN order[c] : Needs(c, order[c][j]) /\ Url[order[c][j]] = Url[q]}
Fitting(c, q) == {j \in DOMAIN pending[c] : Url[pending[c][j]] = Url[q]}

Match(c, k) ==
    LET q == order[c][k]
    IN  {pending[c][j] : j \in {i \in Fitting(c, q) :
            Needs(c, q) /\ Place(i, Fitting(c, q)) = Place(k, Rivals(c, q))}}

Envelopes(c) ==
    [k \in 1 .. Len(order[c]) |->
        [request |-> {order[c][k]},
         page    |-> entries[c][order[c][k]].page \cup Match(c, k)]]

Merged(c) == UNION {Match(c, k) : k \in 1 .. Len(order[c])}

\* Bodies that found no envelope become envelopes of their own, in their order.
Unmerged(c) == {j \in DOMAIN pending[c] : pending[c][j] \notin Merged(c)}

Synthesised(c) ==
    [n \in 1 .. Cardinality(Unmerged(c)) |->
        [request |-> {},
         page    |-> {pending[c][j] : j \in {i \in Unmerged(c) : Place(i, Unmerged(c)) = n}}]]

Merge(c) ==
    entries' = [entries EXCEPT ![c] = [q \in Requests |->
        [entries[c][q] EXCEPT !.page =
            @ \cup UNION {Match(c, k) : k \in {j \in 1 .. Len(order[c]) : order[c][j] = q}}]]]

\* Mutant: a body that was merged is synthesised as well.
StopFinalizeAll(p) ==
    /\ p \in Stops /\ Goto(p, "popped", "done")
    /\ LET c == target[p]
       IN  /\ result' = [result EXCEPT ![p] =
                  Envelopes(c) \o [k \in 1 .. Len(pending[c]) |->
                                      [request |-> {}, page |-> {pending[c][k]}]]]
           /\ pending' = [pending EXCEPT ![c] = << >>]
           /\ Merge(c)
    /\ UNCHANGED <<phase, executed, target, captures, order,
                   extCaptures, netVars, eventVars>>

\* Under the state's lock.  A merged envelope keeps the body it was given.
StopFinalize(p) ==
    /\ p \in Stops /\ Goto(p, "popped", "done")
    /\ LET c == target[p]
       IN  /\ result' = [result EXCEPT ![p] = Envelopes(c) \o Synthesised(c)]
           /\ pending' = [pending EXCEPT ![c] = << >>]
           /\ Merge(c)
    /\ UNCHANGED <<phase, executed, target, captures, order,
                   extCaptures, netVars, eventVars>>

-----------------------------------------------------------------------------
(* background.js                                                           *)

\* Firefox may refuse the patterns when the listeners are added.
StartCapture(c, how) ==
    /\ c \in Captures
    /\ Remote!Execute(c, how)
    /\ extCaptures' = IF how = "applied" THEN extCaptures \cup {c} ELSE extCaptures
    /\ UNCHANGED <<pc, target, result, captures, stateVars, netVars, eventVars>>

\* Filters that are attached keep delivering.
StopCapture(p) ==
    /\ p \in Stops
    /\ Remote!Execute(p, "applied")
    /\ extCaptures' = extCaptures \ {target[p]}
    /\ UNCHANGED <<pc, target, result, captures, stateVars, netVars, eventVars>>

\* onBeforeRequest of every capture that listens.
BeginRequest(q) ==
    /\ ~net[q].begun
    /\ net' = [net EXCEPT ![q].begun = TRUE]
    /\ owners' = [owners EXCEPT ![q] = extCaptures]
    /\ Post({Event(c, "observed", q, << >>) : c \in extCaptures})
    /\ UNCHANGED <<toolVars, captures, stateVars, extCaptures, posted, chain, held>>

\* Mutant: a chunk is sent whole.
ClipNot(q, c, n) == net[q].got + n

\* ondata sends no more than MaxBytes of a response.
Clip(q, c, n) == IF net[q].got + n > MaxBytes THEN MaxBytes ELSE net[q].got + n

ResponseData(q, n) ==
    /\ net[q].begun /\ ~net[q].ended /\ net[q].got + n <= Size[q]
    /\ net' = [net EXCEPT ![q].got = @ + n]
    /\ posted' = [c \in Captures |->
           IF c \in owners[q] THEN [posted[c] EXCEPT ![q] = Clip(q, c, n)] ELSE posted[c]]
    /\ chain' = [c \in Captures |->
           IF c \in owners[q] /\ posted'[c][q] > posted[c][q]
             THEN [chain[c] EXCEPT ![q] =
                      Append(@, [k \in 1 .. posted'[c][q] - posted[c][q] |-> posted[c][q] + k])]
             ELSE chain[c]]
    /\ UNCHANGED <<toolVars, captures, stateVars, extCaptures, owners, eventVars>>

\* onstop queues the final marker, an empty chunk; onCompleted posts for the
\* captures that still listen, to those that saw the request begin or not.
ResponseEnd(q) ==
    /\ net[q].begun /\ ~net[q].ended
    /\ net' = [net EXCEPT ![q].ended = TRUE]
    /\ chain' = [c \in Captures |->
           IF c \in owners[q] THEN [chain[c] EXCEPT ![q] = Append(@, << >>)] ELSE chain[c]]
    /\ Post({Event(c, "completed", q, << >>) : c \in extCaptures})
    /\ UNCHANGED <<toolVars, captures, stateVars, extCaptures, owners, posted, held>>

\* Mutant: chunks are posted as they come.
PostChunkAtOnce(c, q) ==
    /\ chain[c][q] # << >>
    /\ Post({Event(c, "chunk", q, Head(chain[c][q]))})
    /\ chain' = [chain EXCEPT ![c][q] = Tail(@)]
    /\ UNCHANGED <<toolVars, captures, stateVars, extCaptures, net, owners,
                   posted, held>>

\* A chunk is posted once the one before was answered or has failed.
PostChunk(c, q) ==
    /\ chain[c][q] # << >>
    /\ ~ \E e \in flight \cup held : e.cap = c /\ e.item = q /\ e.kind = "chunk"
    /\ Post({Event(c, "chunk", q, Head(chain[c][q]))})
    /\ chain' = [chain EXCEPT ![c][q] = Tail(@)]
    /\ UNCHANGED <<toolVars, captures, stateVars, extCaptures, net, owners,
                   posted, held>>

\* handlePageCaptureEvent
PageResponse(b) ==
    /\ ~net[b].begun
    /\ net' = [net EXCEPT ![b].begun = TRUE]
    /\ Post({Event(c, "page", b, << >>) : c \in extCaptures})
    /\ UNCHANGED <<toolVars, captures, stateVars, extCaptures, owners, posted,
                   chain, held>>

-----------------------------------------------------------------------------
(* The event handlers of the driver                                        *)

\* The post fails.
EventLost(e) ==
    /\ e \in flight /\ flight' = flight \ {e}
    /\ UNCHANGED <<toolVars, captures, stateVars, extCaptures, netVars, held>>

\* _route_event looks the capture up, without a lock; unknown ones are dropped.
RouteEvent(e) ==
    /\ e \in flight /\ flight' = flight \ {e}
    /\ held' = IF e.cap \in captures THEN held \cup {e} ELSE held
    /\ UNCHANGED <<toolVars, captures, stateVars, extCaptures, netVars>>

Seen(c, q) == \E k \in 1 .. Len(order[c]) : order[c][k] = q

\* _ensure_entry
Ensure(c, q) ==
    order' = IF Seen(c, q) THEN order ELSE [order EXCEPT ![c] = Append(@, q)]

ApplyObserved(e) ==
    /\ e \in held /\ e.kind \in {"observed", "completed"} /\ held' = held \ {e}
    /\ Ensure(e.cap, e.item)
    /\ entries' = IF e.kind = "observed"
                    THEN [entries EXCEPT ![e.cap][e.item].url = TRUE] ELSE entries
    /\ UNCHANGED <<toolVars, captures, pending, extCaptures, netVars, flight>>

\* The body is appended up to MaxBytes and decoded anew with every chunk.
ApplyChunk(e) ==
    /\ e \in held /\ e.kind = "chunk" /\ held' = held \ {e}
    /\ Ensure(e.cap, e.item)
    /\ LET grown == entries[e.cap][e.item].body \o e.bytes
       IN  entries' = [entries EXCEPT ![e.cap][e.item].body =
               IF Len(grown) > MaxBytes THEN SubSeq(grown, 1, MaxBytes) ELSE grown]
    /\ UNCHANGED <<toolVars, captures, pending, extCaptures, netVars, flight>>

ApplyBodyObserved(e) ==
    /\ e \in held /\ e.kind = "page" /\ held' = held \ {e}
    /\ pending' = [pending EXCEPT ![e.cap] = Append(@, e.item)]
    /\ UNCHANGED <<toolVars, captures, entries, order, extCaptures, netVars, flight>>

-----------------------------------------------------------------------------
ToolStep ==
    \/ \E c \in Captures : StartCheck(c) \/ StartRegister(c) \/ StartLeave(c)
    \/ \E x \in Calls : Request(x) \/ Answer(x)
    \/ \E p \in Stops : StopPop(p) \/ StopFinalize(p) \/ \E c \in Captures : StopEnter(p, c)

PageStep ==
    \/ \E c \in Captures, how \in {"applied", "rejected"} : StartCapture(c, how)
    \/ \E p \in Stops : StopCapture(p)
    \/ \E q \in Requests :
         \/ BeginRequest(q) \/ ResponseEnd(q)
         \/ \E n \in 1 .. Size[q] : ResponseData(q, n)
         \/ \E c \in Captures : PostChunk(c, q)
    \/ \E b \in Bodies : PageResponse(b)

HandlerStep ==
    \E e \in flight \cup held :
        EventLost(e) \/ RouteEvent(e) \/ ApplyObserved(e) \/ ApplyChunk(e) \/ ApplyBodyObserved(e)

Next == ToolStep \/ PageStep \/ HandlerStep

Spec == Init /\ [][Next]_vars

-----------------------------------------------------------------------------
Events == [cap : Captures, kind : {"observed", "completed", "chunk", "page"},
           item : Requests \cup Bodies, bytes : Seq(Nat)]

(* Type correctness of the tools, the buffers, the page and the events. *)
TypeOK ==
    /\ Remote!TypeOK
    /\ pc \in [Calls -> {"idle", "checked", "entered", "called", "live", "failed",
                         "popped", "done"}]
    /\ target \in [Stops -> Captures \cup {NoCapture}]
    /\ result \in [Stops -> Seq([request : SUBSET Requests, page : SUBSET Bodies])]
    /\ captures \subseteq Captures /\ extCaptures \subseteq Captures
    /\ entries \in [Captures -> [Requests -> [url : BOOLEAN, body : Seq(Nat),
                                              page : SUBSET Bodies]]]
    /\ order \in [Captures -> Seq(Requests)] /\ pending \in [Captures -> Seq(Bodies)]
    /\ net \in [Requests \cup Bodies ->
                   [begun : BOOLEAN, got : Nat, ended : BOOLEAN]]
    /\ owners \in [Requests -> SUBSET Captures]
    /\ posted \in [Captures -> [Requests -> 0 .. MaxBytes]]
    /\ chain \in [Captures -> [Requests -> Seq(Seq(Nat))]]
    /\ flight \subseteq Events /\ held \subseteq Events

\* The bytes of a body are those of the response in their order, none twice,
\* and no more than max_body_bytes, although every chunk is a request of its
\* own: those of one response wait for each other, and one may be lost.
BodiesInOrder ==
    \A c \in Captures, q \in Requests :
        LET body == entries[c][q].body
        IN  Len(body) <= MaxBytes /\ \A j, k \in 1 .. Len(body) : j < k => body[j] < body[k]

\* What a stop returns accounts for all that was buffered: every request that
\* was seen has one envelope, and every page body is in exactly one, be it
\* merged or of its own, and merged only into one of its method and URL.
Places(envelopes, b) == {k \in DOMAIN envelopes : b \in envelopes[k].page}

StopAccountsForEverything ==
    [][\A p \in Stops : pc[p] = "popped" /\ pc'[p] = "done" =>
         LET c == target[p]
             envelopes == result'[p]
         IN  /\ \A q \in Requests : Seen(c, q) =>
                   Cardinality({k \in DOMAIN envelopes : q \in envelopes[k].request}) = 1
             /\ \A k \in DOMAIN pending[c] : Cardinality(Places(envelopes, pending[c][k])) = 1
             /\ \A k \in DOMAIN envelopes, q \in Requests, b \in Bodies :
                   q \in envelopes[k].request /\ b \in envelopes[k].page => Url[b] = Url[q]]_vars

\* A capture that listens but is not in the driver's table, whose events are
\* dropped and which nobody can stop any more, has a cause: its start or its
\* stop still runs or is not known to have reached the page.  One that the
\* driver has started listens until a stop is on its way, and one that failed
\* to start is not left in the table, where it would refuse every other.
CapturesAgree ==
    /\ \A c \in extCaptures \ captures :
         \/ pc[c] = "entered" \/ phase[c] \in {"open", "unknown"}
         \/ \E p \in Stops : target[p] = c /\ phase[p] \in {"refused", "unknown"}
    /\ \A c \in captures :
         /\ pc[c] # "failed"
         /\ pc[c] = "live" => c \in extCaptures \/ \E p \in Stops : target[p] = c

-----------------------------------------------------------------------------
(* What the documentation says and the code does not do.                   *)

\* Overlapping captures are refused "to keep the per-request envelopes
\* single-owner".
SingleOwner == \A q \in Requests : Cardinality(owners[q]) <= 1
=============================================================================
