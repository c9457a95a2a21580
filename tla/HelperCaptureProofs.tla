------------------------ MODULE HelperCaptureProofs -------------------------
(***************************************************************************)
(* Theorems about HelperCapture: for any number of captures, stops,        *)
(* requests, bodies and events on their way, and any max_body_bytes, the   *)
(* driver and the page agree on what listens, a body's bytes stay in order *)
(* and a stop accounts for all that was buffered.  The inductive invariant *)
(* follows each call, each response's bytes and each page body for one     *)
(* capture; the lemmas on Place say why the n-th envelope that needs a     *)
(* body and the n-th body that fits are a matching.                        *)
(***************************************************************************)
EXTENDS HelperCapture, FiniteSetTheorems, TLAPS

\* Where a call can be and what it has seen and done by then: a start, ...
Answered(x) ==
    /\ phase[x] = "ok" => executed[x] = "applied"
    /\ phase[x] = "remote" => executed[x] = "rejected"
    /\ phase[x] \in {"idle", "refused"} => executed[x] = "no"

StartFits(c) ==
    /\ Answered(c)
    /\ pc[c] \in {"idle", "checked", "entered", "called", "live", "failed"}
    /\ pc[c] \in {"idle", "checked", "entered"} => phase[c] = "idle"
    /\ pc[c] = "called" => phase[c] # "idle"
    /\ pc[c] = "live" => phase[c] = "ok"
    /\ pc[c] = "failed" => Raised(c)

\* ... and a stop, which has been given a capture that was started.
StopFits(p) ==
    /\ Answered(p)
    /\ pc[p] \in {"idle", "entered", "called", "popped", "done", "failed"}
    /\ pc[p] \in {"idle", "entered"} => phase[p] = "idle"
    /\ pc[p] = "called" => phase[p] # "idle"
    /\ pc[p] \in {"popped", "done"} => phase[p] = "ok"
    /\ pc[p] = "failed" => Raised(p)
    /\ executed[p] # "rejected"
    /\ IF pc[p] = "idle" THEN target[p] = NoCapture
                         ELSE target[p] \in Captures /\ pc[target[p]] = "live"

CallsFit == (\A c \in Captures : StartFits(c)) /\ (\A p \in Stops : StopFits(p))

\* A capture is in the table from its registration until a start that failed or a stop
\* takes it out, ...
Popped(c) == \E p \in Stops : target[p] = c /\ pc[p] \in {"popped", "done", "failed"}
Listed(c) ==
    /\ c \in captures => pc[c] \in {"entered", "called", "live"}
    /\ pc[c] \in {"entered", "called"} => c \in captures
    /\ pc[c] = "live" /\ c \notin captures => Popped(c)

\* ... and listens from its start until a stop has reached the page.
Stopped(c) == \E p \in Stops : target[p] = c
Listens(c) ==
    /\ c \in extCaptures => executed[c] = "applied"
    /\ executed[c] = "applied" /\ c \notin extCaptures => Stopped(c)
Silenced(p, c) == target[p] = c /\ executed[p] = "applied" => c \notin extCaptures

TablesInv ==
    /\ \A c \in Captures : Listed(c) /\ Listens(c)
    /\ \A p \in Stops, c \in Captures : Silenced(p, c)

\* The bytes of one response: those of its body come before those of the chunk on its
\* way, and these before those that wait, each in their order.
Rising(s) == \A j, k \in 1 .. Len(s) : j < k => s[j] < s[k]
Before(s, t) == \A j \in 1 .. Len(s), k \in 1 .. Len(t) : s[j] < t[k]
UpTo(s, n) == \A j \in 1 .. Len(s) : s[j] <= n

Sent(c, q, e) == e.cap = c /\ e.item = q /\ e.kind = "chunk"

OneSent(c, q, e, f) ==
    Sent(c, q, e) /\ Sent(c, q, f) => e = f /\ ~(e \in flight /\ f \in held)

Body(c, q) == entries[c][q].body

BodyRises(c, q) ==
    /\ Len(Body(c, q)) <= MaxBytes
    /\ Rising(Body(c, q)) /\ UpTo(Body(c, q), posted[c][q])
    /\ \A k \in DOMAIN chain[c][q] : Before(Body(c, q), chain[c][q][k])

SentRises(c, q, e) ==
    Sent(c, q, e) =>
       /\ Rising(e.bytes) /\ UpTo(e.bytes, posted[c][q])
       /\ Before(Body(c, q), e.bytes)
       /\ \A k \in DOMAIN chain[c][q] : Before(e.bytes, chain[c][q][k])

ChainRises(c, q) ==
    \A k \in DOMAIN chain[c][q] :
       /\ Rising(chain[c][q][k]) /\ UpTo(chain[c][q][k], posted[c][q])
       /\ \A j \in DOMAIN chain[c][q] : j < k => Before(chain[c][q][j], chain[c][q][k])

ResponseInv(c, q) ==
    /\ BodyRises(c, q) /\ ChainRises(c, q)
    /\ \A e \in flight \cup held : SentRises(c, q, e)
    /\ \A e, f \in flight \cup held : OneSent(c, q, e, f)

BytesInv == \A c \in Captures, q \in Requests : ResponseInv(c, q)

\* A request is in the order once.
SeenOnce(c) == \A j, k \in DOMAIN order[c] : order[c][j] = order[c][k] => j = k

\* A page body comes to a capture once: it is on its way, or pending, or in an entry.
Came(c, b, e) == e.cap = c /\ e.item = b /\ e.kind = "page"
Waits(c, b) == \E k \in DOMAIN pending[c] : pending[c][k] = b
Paired(c, b) == \E q \in Requests : b \in entries[c][q].page

PageOnce(c, b, e) ==
    Came(c, b, e) =>
       /\ e.bytes = << >> /\ net[b].begun
       /\ ~(e \in flight /\ e \in held)
       /\ ~Waits(c, b) /\ ~Paired(c, b)

WaitsOnce(c, b) ==
    /\ Waits(c, b) => net[b].begun /\ ~Paired(c, b)
    /\ Paired(c, b) => net[b].begun
    /\ \A j, k \in DOMAIN pending[c] : pending[c][j] = b /\ pending[c][k] = b => j = k

Fits(c, q, b) == b \in entries[c][q].page => Url[b] = Url[q]

PageInv(c, b) == WaitsOnce(c, b) /\ \A e \in flight \cup held : PageOnce(c, b, e)

PagesInv ==
    /\ \A c \in Captures : SeenOnce(c)
    /\ \A c \in Captures, b \in Bodies : PageInv(c, b)
    /\ \A c \in Captures, q \in Requests, b \in Bodies : Fits(c, q, b)

\* The item of an event is one of its kind.
EventsFit ==
    \A e \in flight \cup held : e.item \in IF e.kind = "page" THEN Bodies ELSE Requests

\* The bytes queued for the driver have been read.
PostedIsRead == \A c \in Captures, q \in Requests : posted[c][q] <= net[q].got

\* What a step does to the bytes of one response for one capture: nothing, ...
NoneSent(c, q) ==
    \A e \in (flight \cup held)' :
       Sent(c, q, e) => e \in flight \cup held /\ ~(e \in flight' /\ e \in held')

ChainKept(c, q) == chain'[c][q] = chain[c][q] /\ posted'[c][q] = posted[c][q]
BodyKept(c, q)  == Body(c, q)' = Body(c, q)

Stills(c, q) == BodyKept(c, q) /\ ChainKept(c, q) /\ NoneSent(c, q)

\* ... it queues a chunk, ...
Later(s, m, n) == Rising(s) /\ UpTo(s, n) /\ \A j \in 1 .. Len(s) : m < s[j]

Queues(c, q) ==
    /\ BodyKept(c, q) /\ NoneSent(c, q)
    /\ posted[c][q] <= posted'[c][q]
    /\ \/ chain'[c][q] = chain[c][q]
       \/ \E s \in Seq(Nat) : Later(s, posted[c][q], posted'[c][q])
                              /\ chain'[c][q] = Append(chain[c][q], s)

\* ... it posts one, ...
Posts(c, q) ==
    /\ BodyKept(c, q) /\ posted'[c][q] = posted[c][q]
    /\ chain[c][q] # << >> /\ chain'[c][q] = Tail(chain[c][q])
    /\ \A e \in flight \cup held : ~Sent(c, q, e)
    /\ flight' = flight \cup {Event(c, "chunk", q, Head(chain[c][q]))} /\ held' = held

\* ... or it is applied.
Clipped(s) == IF Len(s) > MaxBytes THEN SubSeq(s, 1, MaxBytes) ELSE s
Applies(c, q) ==
    /\ ChainKept(c, q)
    /\ \E e \in held :
          /\ Sent(c, q, e) /\ held' = held \ {e} /\ flight' = flight
          /\ Body(c, q)' = Clipped(Body(c, q) \o e.bytes)

\* What a step does to a page body for one capture: nothing, ...
NoneCame(c, b) ==
    \A e \in (flight \cup held)' :
       Came(c, b, e) => e \in flight \cup held /\ ~(e \in flight' /\ e \in held')

PagesKept(c) == \A q \in Requests : entries'[c][q].page = entries[c][q].page
BegunKept(b) == net[b].begun => net'[b].begun

Rests(c, b) == pending'[c] = pending[c] /\ PagesKept(c) /\ NoneCame(c, b) /\ BegunKept(b)

\* ... it comes, ...
Comes(c, b) ==
    /\ ~net[b].begun /\ net'[b].begun /\ pending'[c] = pending[c] /\ PagesKept(c) /\ held' = held
    /\ \A e \in flight' : Came(c, b, e) => e \in flight \/ e = Event(c, "page", b, << >>)

\* ... one joins those that are pending, ...
Joins(c, b) ==
    /\ PagesKept(c) /\ BegunKept(b)
    /\ \E e \in held :
          /\ e.cap = c /\ e.kind = "page" /\ held' = held \ {e} /\ flight' = flight
          /\ pending'[c] = Append(pending[c], e.item)

\* ... or all that are pending are merged or returned.
Leaves(c, b) ==
    /\ pending'[c] = << >> /\ NoneCame(c, b) /\ BegunKept(b)
    /\ \A q \in Requests : b \in entries'[c][q].page => b \in entries[c][q].page \/ Waits(c, b)

-----------------------------------------------------------------------------
(* Types                                                                   *)

\* A step of the tools, other than the last of a stop, leaves the data as it is, ...
DataRest == UNCHANGED <<result, stateVars, netVars, eventVars>>

\* ... and one of a response or an event leaves the calls as they are.
CallsRest == UNCHANGED <<toolVars, captures, extCaptures>>

\* The steps that leave the data or the calls as they are.
LEMMA QuietSteps ==
    /\ \A c \in Captures : StartCheck(c) \/ StartRegister(c) \/ StartLeave(c) => DataRest
    /\ \A x \in Calls : Request(x) \/ Answer(x) => DataRest
    /\ \A p \in Stops, c \in Captures : StopEnter(p, c) => DataRest
    /\ \A p \in Stops : StopPop(p) \/ StopCapture(p) => DataRest
    /\ \A c \in Captures, how \in {"applied", "rejected"} : StartCapture(c, how) => DataRest
    /\ \A q \in Requests : BeginRequest(q) \/ ResponseEnd(q) => CallsRest
    /\ \A q \in Requests : \A n \in 1 .. Size[q] : ResponseData(q, n) => CallsRest
    /\ \A q \in Requests, c \in Captures : PostChunk(c, q) => CallsRest
    /\ \A b \in Bodies : PageResponse(b) => CallsRest
    /\ \A e \in flight \cup held :
          /\ EventLost(e) \/ RouteEvent(e) => CallsRest
          /\ ApplyObserved(e) \/ ApplyChunk(e) \/ ApplyBodyObserved(e) => CallsRest
    /\ UNCHANGED vars => DataRest /\ CallsRest
BY DEF DataRest, CallsRest, vars, toolVars, stateVars, netVars, eventVars,
       StartCheck, StartRegister, StartLeave, Request, Answer, StopEnter, StopPop,
       StopCapture, StartCapture, BeginRequest, ResponseEnd, ResponseData,
       PostChunk, PageResponse, EventLost, RouteEvent, ApplyObserved, ApplyChunk,
       ApplyBodyObserved

\* The types of TypeOK, by the step that changes them.
ToolTypes ==
    /\ Remote!TypeOK
    /\ pc \in [Calls -> {"idle", "checked", "entered", "called", "live", "failed",
                         "popped", "done"}]
    /\ target \in [Stops -> Captures \cup {NoCapture}]
    /\ captures \subseteq Captures /\ extCaptures \subseteq Captures

BufferTypes ==
    /\ result \in [Stops -> Seq([request : SUBSET Requests, page : SUBSET Bodies])]
    /\ entries \in [Captures -> [Requests -> [url : BOOLEAN, body : Seq(Nat),
                                              page : SUBSET Bodies]]]
    /\ order \in [Captures -> Seq(Requests)] /\ pending \in [Captures -> Seq(Bodies)]

NetTypes ==
    /\ net \in [Requests \cup Bodies ->
                   [begun : BOOLEAN, got : Nat, ended : BOOLEAN]]
    /\ owners \in [Requests -> SUBSET Captures]
    /\ posted \in [Captures -> [Requests -> 0 .. MaxBytes]]
    /\ chain \in [Captures -> [Requests -> Seq(Seq(Nat))]]

EventTypes == flight \subseteq Events /\ held \subseteq Events

\* The type invariant is its parts.
LEMMA TypesOfParts == TypeOK <=> ToolTypes /\ BufferTypes /\ NetTypes /\ EventTypes
BY DEF TypeOK, ToolTypes, BufferTypes, NetTypes, EventTypes

\* A set of positions is finite.
LEMMA PlacesFinite ==
    ASSUME NEW n \in Nat, NEW P \in SUBSET (1 .. n)
    PROVE  IsFiniteSet(P) /\ Cardinality(P) \in Nat
<1>1. IsFiniteSet(1 .. n)
  BY FS_Interval
<1>2. IsFiniteSet(P)
  BY <1>1, FS_Subset
<1> QED
  BY <1>2, FS_CardinalityType

\* The types of one capture's buffers.
LEMMA BuffersAt ==
    ASSUME BufferTypes, NEW c \in Captures
    PROVE  /\ Len(order[c]) \in Nat /\ DOMAIN order[c] = 1 .. Len(order[c])
           /\ \A k \in DOMAIN order[c] : order[c][k] \in Requests
           /\ Len(pending[c]) \in Nat /\ DOMAIN pending[c] = 1 .. Len(pending[c])
           /\ \A k \in DOMAIN pending[c] : pending[c][k] \in Bodies
           /\ \A q \in Requests :
                 entries[c][q] \in [url : BOOLEAN, body : Seq(Nat), page : SUBSET Bodies]
BY DEF BufferTypes

\* What an envelope is matched with are bodies.
LEMMA MatchTyped ==
    ASSUME BufferTypes, NEW c \in Captures, NEW k \in DOMAIN order[c]
    PROVE  Match(c, k) \subseteq Bodies
<1>1. \A j \in Fitting(c, order[c][k]) : pending[c][j] \in Bodies
  BY BuffersAt DEF Fitting
<1> QED
  BY <1>1 DEF Match

\* An envelope of a request is typed, ...
LEMMA EnvelopeTyped ==
    ASSUME BufferTypes, NEW c \in Captures, NEW k \in DOMAIN order[c]
    PROVE  [request |-> {order[c][k]}, page |-> entries[c][order[c][k]].page \cup Match(c, k)]
                  \in [request : SUBSET Requests, page : SUBSET Bodies]
<1>1. order[c][k] \in Requests
  BY BuffersAt
<1>2. entries[c][order[c][k]].page \subseteq Bodies
  BY <1>1, BuffersAt
<1> QED
  BY <1>1, <1>2, MatchTyped

\* ... and so is all that a stop returns ...
LEMMA FinalTyped ==
    ASSUME BufferTypes, NEW c \in Captures
    PROVE  Envelopes(c) \o Synthesised(c) \in Seq([request : SUBSET Requests, page : SUBSET Bodies])
<1>1. Envelopes(c) \in Seq([request : SUBSET Requests, page : SUBSET Bodies])
  <2> DEFINE m == Len(order[c])
             f(k) == [request |-> {order[c][k]}, page |-> entries[c][order[c][k]].page \cup Match(c, k)]
  <2>1. m \in Nat /\ \A k \in 1 .. m : f(k) \in [request : SUBSET Requests, page : SUBSET Bodies]
    BY BuffersAt, EnvelopeTyped
  <2> HIDE DEF m, f
  <2>2. [k \in 1 .. m |-> f(k)] \in Seq([request : SUBSET Requests, page : SUBSET Bodies])
    BY <2>1
  <2> QED
    BY <2>2 DEF Envelopes, f, m
<1>2. Synthesised(c) \in Seq([request : SUBSET Requests, page : SUBSET Bodies])
  <2> DEFINE m == Cardinality(Unmerged(c))
             f(n) == [request |-> {}, page |-> {pending[c][j] : j \in {i \in Unmerged(c) : Place(i, Unmerged(c)) = n}}]
  <2>1. m \in Nat
    BY BuffersAt, PlacesFinite DEF Unmerged
  <2>2. \A j \in Unmerged(c) : pending[c][j] \in Bodies
    BY BuffersAt DEF Unmerged
  <2>3. \A n \in 1 .. m : f(n) \in [request : SUBSET Requests, page : SUBSET Bodies]
    BY <2>2
  <2> HIDE DEF m, f
  <2>4. [n \in 1 .. m |-> f(n)] \in Seq([request : SUBSET Requests, page : SUBSET Bodies])
    BY <2>1, <2>3
  <2> QED
    BY <2>4 DEF Synthesised, f, m
<1> QED
  BY <1>1, <1>2

\* ... and an entry with the bodies merged into it.
LEMMA MergedTyped ==
    ASSUME BufferTypes, NEW c \in Captures, NEW q \in Requests
    PROVE  [entries[c][q] EXCEPT !.page =
               @ \cup UNION {Match(c, k) : k \in {j \in 1 .. Len(order[c]) : order[c][j] = q}}]
              \in [url : BOOLEAN, body : Seq(Nat), page : SUBSET Bodies]
<1>1. UNION {Match(c, k) : k \in {j \in 1 .. Len(order[c]) : order[c][j] = q}} \subseteq Bodies
  BY BuffersAt, MatchTyped
<1> QED
  BY <1>1, BuffersAt

\* An order that has been added to is typed.
LEMMA EnsureTyped ==
    ASSUME BufferTypes, NEW c \in Captures, NEW q \in Requests, Ensure(c, q)
    PROVE  order' \in [Captures -> Seq(Requests)]
<1>1. CASE order' = order
  BY <1>1 DEF BufferTypes
<1>2. CASE order' = [order EXCEPT ![c] = Append(@, q)]
  <2>1. Append(order[c], q) \in Seq(Requests)
    BY DEF BufferTypes
  <2> QED
    BY <1>2, <2>1 DEF BufferTypes
<1> QED
  BY <1>1, <1>2 DEF Ensure

\* The beginning of a sequence.
LEMMA PrefixTyped ==
    ASSUME NEW s \in Seq(Nat), NEW n \in Nat, n < Len(s)
    PROVE  /\ SubSeq(s, 1, n) \in Seq(Nat) /\ Len(SubSeq(s, 1, n)) = n
           /\ \A k \in 1 .. n : SubSeq(s, 1, n)[k] = s[k]
OBVIOUS

\* A body with a chunk added and clipped is one.
LEMMA ChunkTyped ==
    ASSUME BufferTypes, NEW c \in Captures, NEW q \in Requests, NEW s \in Seq(Nat)
    PROVE  LET grown == entries[c][q].body \o s
           IN  (IF Len(grown) > MaxBytes THEN SubSeq(grown, 1, MaxBytes) ELSE grown) \in Seq(Nat)
<1> DEFINE grown == entries[c][q].body \o s
<1>1. grown \in Seq(Nat)
  BY BuffersAt
<1> HIDE DEF grown
<1>2. MaxBytes \in Nat
  BY SizeAssumption
<1>3. MaxBytes < Len(grown) => SubSeq(grown, 1, MaxBytes) \in Seq(Nat)
  BY <1>1, <1>2, PrefixTyped
<1>4. Len(grown) \in Nat
  BY <1>1
<1>5. (IF Len(grown) > MaxBytes THEN SubSeq(grown, 1, MaxBytes) ELSE grown) \in Seq(Nat)
  BY <1>1, <1>2, <1>3, <1>4
<1> QED
  BY <1>5 DEF grown

\* An entry that is replaced leaves the entries typed, ...
LEMMA EntryTyped ==
    ASSUME BufferTypes, NEW c \in Captures, NEW q \in Requests,
           NEW x \in [url : BOOLEAN, body : Seq(Nat), page : SUBSET Bodies]
    PROVE  [entries EXCEPT ![c][q] = x]
              \in [Captures -> [Requests -> [url : BOOLEAN, body : Seq(Nat), page : SUBSET Bodies]]]
<1> DEFINE R == [url : BOOLEAN, body : Seq(Nat), page : SUBSET Bodies]
<1>1. entries \in [Captures -> [Requests -> R]] /\ x \in R
  BY DEF BufferTypes
<1> HIDE DEF R
<1>2. [entries EXCEPT ![c][q] = x] \in [Captures -> [Requests -> R]]
  BY <1>1
<1> QED
  BY <1>2 DEF R

\* ... and one that is updated is replaced.
LEMMA EntryWith ==
    ASSUME BufferTypes, NEW c \in Captures, NEW q \in Requests, NEW s \in Seq(Nat)
    PROVE  /\ [entries EXCEPT ![c][q].url = TRUE] = [entries EXCEPT ![c][q] = [entries[c][q] EXCEPT !.url = TRUE]]
           /\ [entries EXCEPT ![c][q].body = s] = [entries EXCEPT ![c][q] = [entries[c][q] EXCEPT !.body = s]]
           /\ [entries[c][q] EXCEPT !.url = TRUE] \in [url : BOOLEAN, body : Seq(Nat), page : SUBSET Bodies]
           /\ [entries[c][q] EXCEPT !.body = s] \in [url : BOOLEAN, body : Seq(Nat), page : SUBSET Bodies]
<1>1. entries[c][q] \in [url : BOOLEAN, body : Seq(Nat), page : SUBSET Bodies]
  BY BuffersAt
<1> QED
  BY <1>1

\* Every step keeps the types of the tools, ...
LEMMA ToolTypesStep ==
    ASSUME TypeOK, [Next]_vars
    PROVE  ToolTypes'
<1>1. ASSUME NEW x \in Calls, Request(x)
      PROVE  ToolTypes'
  BY <1>1 DEF TypeOK, ToolTypes, Remote!TypeOK, Remote!Phases, Remote!Executions,
              Calls, Request, Goto, Remote!Open, Remote!Refuse, toolVars, stateVars,
              netVars, eventVars
<1>2. ASSUME NEW x \in Calls, Answer(x)
      PROVE  ToolTypes'
  BY <1>2 DEF TypeOK, ToolTypes, Remote!TypeOK, Remote!Phases, Remote!Executions,
              Calls, Answer, Remote!ReturnResult, Remote!RaiseRemoteError,
              Remote!GiveUp, toolVars, stateVars, netVars, eventVars
<1>3. ASSUME NEW c \in Captures, NEW how \in {"applied", "rejected"}, StartCapture(c, how)
      PROVE  ToolTypes'
  BY <1>3 DEF TypeOK, ToolTypes, Remote!TypeOK, Remote!Phases, Remote!Executions,
              Calls, StartCapture, Remote!Execute, toolVars, stateVars, netVars,
              eventVars
<1>4. ASSUME NEW p \in Stops, StopCapture(p)
      PROVE  ToolTypes'
  BY <1>4 DEF TypeOK, ToolTypes, Remote!TypeOK, Remote!Phases, Remote!Executions,
              Calls, StopCapture, Remote!Execute, toolVars, stateVars, netVars,
              eventVars
<1>5. ASSUME NEW p \in Stops, NEW c \in Captures, StopEnter(p, c)
      PROVE  ToolTypes'
  BY <1>5 DEF TypeOK, ToolTypes, Remote!TypeOK, Remote!Phases, Remote!Executions,
              Calls, StopEnter, Goto, toolVars, stateVars, netVars, eventVars
<1>6. ASSUME NEW p \in Stops, StopPop(p)
      PROVE  ToolTypes'
  BY <1>6 DEF TypeOK, ToolTypes, Remote!TypeOK, Remote!Phases, Remote!Executions,
              Calls, StopPop, Goto, toolVars, stateVars, netVars, eventVars
<1>7. ASSUME NEW p \in Stops, StopFinalize(p)
      PROVE  ToolTypes'
  BY <1>7 DEF TypeOK, ToolTypes, Remote!TypeOK, Remote!Phases, Remote!Executions,
              Calls, StopFinalize, Goto, Merge, toolVars, stateVars, netVars,
              eventVars
<1>8. ASSUME NEW c \in Captures, StartCheck(c) \/ StartRegister(c) \/ StartLeave(c)
      PROVE  ToolTypes'
  BY <1>8 DEF TypeOK, ToolTypes, Remote!TypeOK, Remote!Phases, Remote!Executions,
              Calls, StartCheck, Goto, StartRegister, StartLeave, toolVars,
              stateVars, netVars, eventVars
<1>9. CASE CallsRest
  BY <1>9 DEF TypeOK, ToolTypes, Remote!TypeOK, Remote!Phases, Remote!Executions,
              Calls, CallsRest, toolVars, stateVars, netVars, eventVars
<1> QED
  BY QuietSteps, <1>1, <1>2, <1>3, <1>4, <1>5, <1>6, <1>7, <1>8, <1>9
     DEF Next, ToolStep, PageStep, HandlerStep

\* An event has the capture and the bytes it should have.
LEMMA HeldTyped ==
    ASSUME TypeOK, NEW e \in flight \cup held
    PROVE  e.cap \in Captures /\ e.bytes \in Seq(Nat)
BY DEF TypeOK, Events

\* ... of the buffers, ...
LEMMA BufferTypesStep ==
    ASSUME TypeOK, CallsFit, EventsFit, [Next]_vars
    PROVE  BufferTypes'
<1>1. ASSUME NEW p \in Stops, StopFinalize(p)
      PROVE  BufferTypes'
  <2>1. target[p] \in Captures
    BY <1>1, TypesOfParts DEF CallsFit, StopFits, StopFinalize, Goto
  <2> DEFINE c == target[p]
             m(q) == [entries[c][q] EXCEPT !.page =
                        @ \cup UNION {Match(c, k) : k \in {j \in 1 .. Len(order[c]) : order[c][j] = q}}]
  <2>3. \A q \in Requests : m(q) \in [url : BOOLEAN, body : Seq(Nat), page : SUBSET Bodies]
    BY <2>1, MergedTyped, TypesOfParts
  <2>4. Envelopes(c) \o Synthesised(c) \in Seq([request : SUBSET Requests, page : SUBSET Bodies])
    BY <2>1, FinalTyped, TypesOfParts
  <2>a. /\ entries' = [entries EXCEPT ![c] = [q \in Requests |-> m(q)]]
        /\ result' = [result EXCEPT ![p] = Envelopes(c) \o Synthesised(c)]
        /\ pending' = [pending EXCEPT ![c] = << >>] /\ order' = order
    BY <1>1 DEF StopFinalize, Merge
  <2> HIDE DEF m, c
  <2>5. result' \in [Stops -> Seq([request : SUBSET Requests, page : SUBSET Bodies])]
    BY <2>a, <2>4, TypesOfParts DEF BufferTypes
  <2>b. << >> \in Seq(Bodies)
    OBVIOUS
  <2>6. pending' \in [Captures -> Seq(Bodies)] /\ order' \in [Captures -> Seq(Requests)]
    BY <2>a, <2>b, TypesOfParts DEF BufferTypes
  <2>7. entries' \in [Captures -> [Requests -> [url : BOOLEAN, body : Seq(Nat), page : SUBSET Bodies]]]
    BY <2>a, <2>3, TypesOfParts DEF BufferTypes
  <2> QED
    BY <2>5, <2>6, <2>7 DEF BufferTypes
<1>2. ASSUME NEW e \in flight \cup held, ApplyObserved(e)
      PROVE  BufferTypes'
  <2>1. e.cap \in Captures /\ e.item \in Requests /\ e.bytes \in Seq(Nat)
    BY <1>2, HeldTyped DEF EventsFit, ApplyObserved
  <2>2. order' \in [Captures -> Seq(Requests)]
    BY <1>2, <2>1, EnsureTyped, TypesOfParts DEF ApplyObserved
  <2>3. entries' \in [Captures -> [Requests -> [url : BOOLEAN, body : Seq(Nat), page : SUBSET Bodies]]]
    BY <1>2, <2>1, TypesOfParts, EntryTyped, EntryWith
       DEF ApplyObserved, BufferTypes
  <2> QED
    BY <1>2, <2>2, <2>3, TypesOfParts DEF ApplyObserved, BufferTypes, toolVars
<1>3. ASSUME NEW e \in flight \cup held, ApplyChunk(e)
      PROVE  BufferTypes'
  <2>1. e.cap \in Captures /\ e.item \in Requests /\ e.bytes \in Seq(Nat)
    BY <1>3, HeldTyped DEF EventsFit, ApplyChunk
  <2> DEFINE grown == entries[e.cap][e.item].body \o e.bytes
             kept  == IF Len(grown) > MaxBytes THEN SubSeq(grown, 1, MaxBytes) ELSE grown
  <2>2. order' \in [Captures -> Seq(Requests)]
    BY <1>3, <2>1, EnsureTyped, TypesOfParts DEF ApplyChunk
  <2>3. kept \in Seq(Nat)
    BY <2>1, ChunkTyped, TypesOfParts, SizeAssumption
  <2>4. entries' = [entries EXCEPT ![e.cap][e.item].body = kept]
    BY <1>3 DEF ApplyChunk
  <2> HIDE DEF kept
  <2>5. entries' \in [Captures -> [Requests -> [url : BOOLEAN, body : Seq(Nat), page : SUBSET Bodies]]]
    BY <2>1, <2>3, <2>4, TypesOfParts, EntryTyped, EntryWith
  <2> QED
    BY <1>3, <2>2, <2>5, TypesOfParts DEF ApplyChunk, BufferTypes, toolVars
<1>4. ASSUME NEW e \in flight \cup held, ApplyBodyObserved(e)
      PROVE  BufferTypes'
  <2>1. e.cap \in Captures /\ e.item \in Bodies /\ e.bytes \in Seq(Nat)
    BY <1>4, HeldTyped DEF EventsFit, ApplyBodyObserved
  <2>2. Append(pending[e.cap], e.item) \in Seq(Bodies)
    BY <2>1, TypesOfParts DEF BufferTypes
  <2>3. pending' \in [Captures -> Seq(Bodies)]
    BY <1>4, <2>2, TypesOfParts DEF ApplyBodyObserved, BufferTypes
  <2> QED
    BY <1>4, <2>3, TypesOfParts DEF ApplyBodyObserved, BufferTypes, toolVars
<1>5. ASSUME NEW q \in Requests, BeginRequest(q) \/ ResponseEnd(q)
      PROVE  BufferTypes'
  BY <1>5 DEF TypeOK, BufferTypes, BeginRequest, Post, ResponseEnd, toolVars,
              stateVars, netVars, eventVars
<1>6. ASSUME NEW q \in Requests, NEW n \in 1 .. Size[q], ResponseData(q, n)
      PROVE  BufferTypes'
  BY <1>6 DEF TypeOK, BufferTypes, ResponseData, toolVars, stateVars, netVars,
              eventVars
<1>7. ASSUME NEW c \in Captures, NEW q \in Requests, PostChunk(c, q)
      PROVE  BufferTypes'
  BY <1>7 DEF TypeOK, BufferTypes, PostChunk, Post, toolVars, stateVars, netVars,
              eventVars
<1>8. ASSUME NEW b \in Bodies, PageResponse(b)
      PROVE  BufferTypes'
  BY <1>8 DEF TypeOK, BufferTypes, PageResponse, Post, toolVars, stateVars, netVars,
              eventVars
<1>9. ASSUME NEW e \in flight \cup held, EventLost(e) \/ RouteEvent(e)
      PROVE  BufferTypes'
  BY <1>9 DEF TypeOK, BufferTypes, EventLost, RouteEvent, toolVars, stateVars,
              netVars, eventVars
<1>10. CASE DataRest
  BY <1>10 DEF TypeOK, BufferTypes, DataRest, toolVars, stateVars, netVars,
               eventVars
<1> QED
  BY QuietSteps, <1>1, <1>2, <1>3, <1>4, <1>5, <1>6, <1>7, <1>8, <1>9, <1>10
     DEF Next, ToolStep, PageStep, HandlerStep

\* An event that is posted is the page's, of a capture there is.
LEMMA PostTyped ==
    ASSUME TypeOK, NEW S \in SUBSET Captures, NEW i \in Requests \cup Bodies,
           NEW kind \in {"observed", "completed", "chunk", "page"}
    PROVE  {Event(c, kind, i, << >>) : c \in S} \subseteq Events
<1>1. << >> \in Seq(Nat)
  OBVIOUS
<1>2. \A c \in S : Event(c, kind, i, << >>) \in Events
  BY <1>1 DEF Event, Events
<1> QED
  BY <1>2

\* The first chunk of a chain is posted and the rest is a chain.
LEMMA ChunkPostTyped ==
    ASSUME NetTypes, NEW c \in Captures, NEW q \in Requests, chain[c][q] # << >>
    PROVE  /\ {Event(c, "chunk", q, Head(chain[c][q]))} \subseteq Events
           /\ Tail(chain[c][q]) \in Seq(Seq(Nat))
<1>1. chain[c][q] \in Seq(Seq(Nat))
  BY DEF NetTypes
<1>2. Head(chain[c][q]) \in Seq(Nat) /\ Tail(chain[c][q]) \in Seq(Seq(Nat))
  BY <1>1
<1> QED
  BY <1>2 DEF Event, Events

\* ... of the events, ...
LEMMA EventTypesStep ==
    ASSUME TypeOK, [Next]_vars
    PROVE  EventTypes'
<1>1. ASSUME NEW q \in Requests, BeginRequest(q)
      PROVE  EventTypes'
  BY <1>1, TypesOfParts, PostTyped DEF EventTypes, ToolTypes, BeginRequest, Post,
                                       toolVars, stateVars, netVars, eventVars
<1>2. ASSUME NEW q \in Requests, ResponseEnd(q)
      PROVE  EventTypes'
  BY <1>2, TypesOfParts, PostTyped DEF EventTypes, ToolTypes, ResponseEnd, Post,
                                       toolVars, stateVars, netVars, eventVars
<1>3. ASSUME NEW b \in Bodies, PageResponse(b)
      PROVE  EventTypes'
  BY <1>3, TypesOfParts, PostTyped DEF EventTypes, ToolTypes, PageResponse, Post,
                                       toolVars, stateVars, netVars, eventVars
<1>4. ASSUME NEW c \in Captures, NEW q \in Requests, PostChunk(c, q)
      PROVE  EventTypes'
  BY <1>4, TypesOfParts, ChunkPostTyped DEF EventTypes, ToolTypes, PostChunk, Post,
                                            toolVars, stateVars, netVars, eventVars
<1>5. ASSUME NEW q \in Requests, NEW n \in 1 .. Size[q], ResponseData(q, n)
      PROVE  EventTypes'
  BY <1>5, TypesOfParts DEF EventTypes, ToolTypes, ResponseData, toolVars,
                            stateVars, netVars, eventVars
<1>6. ASSUME NEW e \in flight \cup held, EventLost(e) \/ RouteEvent(e)
             \/ ApplyObserved(e) \/ ApplyChunk(e) \/ ApplyBodyObserved(e)
      PROVE  EventTypes'
  BY <1>6, TypesOfParts DEF EventTypes, ToolTypes, EventLost, RouteEvent,
                            ApplyObserved, ApplyChunk, ApplyBodyObserved, toolVars,
                            stateVars, netVars, eventVars
<1>7. ASSUME NEW p \in Stops, StopFinalize(p)
      PROVE  EventTypes'
  BY <1>7, TypesOfParts DEF EventTypes, ToolTypes, StopFinalize, Goto, Merge,
                            toolVars, stateVars, netVars, eventVars
<1>8. CASE DataRest
  BY <1>8, TypesOfParts DEF EventTypes, ToolTypes, DataRest, toolVars, stateVars,
                            netVars, eventVars
<1> QED
  BY QuietSteps, <1>1, <1>2, <1>3, <1>4, <1>5, <1>6, <1>7, <1>8
     DEF Next, ToolStep, PageStep, HandlerStep

\* ... which stay about what their kind is about, ...
LEMMA EventsFitStep ==
    ASSUME TypeOK, EventsFit, [Next]_vars
    PROVE  EventsFit'
<1>1. ASSUME NEW q \in Requests, BeginRequest(q)
      PROVE  EventsFit'
  BY <1>1, TypesOfParts DEF EventsFit, Event, BeginRequest, Post, toolVars,
                            stateVars, netVars, eventVars
<1>2. ASSUME NEW q \in Requests, ResponseEnd(q)
      PROVE  EventsFit'
  BY <1>2, TypesOfParts DEF EventsFit, Event, ResponseEnd, Post, toolVars,
                            stateVars, netVars, eventVars
<1>3. ASSUME NEW b \in Bodies, PageResponse(b)
      PROVE  EventsFit'
  BY <1>3, TypesOfParts DEF EventsFit, Event, PageResponse, Post, toolVars,
                            stateVars, netVars, eventVars
<1>4. ASSUME NEW c \in Captures, NEW q \in Requests, PostChunk(c, q)
      PROVE  EventsFit'
  BY <1>4, TypesOfParts DEF EventsFit, Event, PostChunk, Post, toolVars, stateVars,
                            netVars, eventVars
<1>5. ASSUME NEW q \in Requests, NEW n \in 1 .. Size[q], ResponseData(q, n)
      PROVE  EventsFit'
  BY <1>5, TypesOfParts DEF EventsFit, Event, ResponseData, toolVars, stateVars,
                            netVars, eventVars
<1>6. ASSUME NEW e \in flight \cup held, EventLost(e) \/ RouteEvent(e)
             \/ ApplyObserved(e) \/ ApplyChunk(e) \/ ApplyBodyObserved(e)
      PROVE  EventsFit'
  BY <1>6, TypesOfParts DEF EventsFit, Event, EventLost, RouteEvent, ApplyObserved,
                            ApplyChunk, ApplyBodyObserved, toolVars, stateVars,
                            netVars, eventVars
<1>7. ASSUME NEW p \in Stops, StopFinalize(p)
      PROVE  EventsFit'
  BY <1>7, TypesOfParts DEF EventsFit, Event, StopFinalize, Goto, Merge, toolVars,
                            stateVars, netVars, eventVars
<1>8. CASE DataRest
  BY <1>8, TypesOfParts DEF EventsFit, Event, DataRest, toolVars, stateVars,
                            netVars, eventVars
<1> QED
  BY QuietSteps, <1>1, <1>2, <1>3, <1>4, <1>5, <1>6, <1>7, <1>8
     DEF Next, ToolStep, PageStep, HandlerStep

\* ... and of the responses.
LEMMA NetTypesStep ==
    ASSUME TypeOK, [Next]_vars
    PROVE  NetTypes'
<1>1. ASSUME NEW q \in Requests, BeginRequest(q)
      PROVE  NetTypes'
  BY <1>1, TypesOfParts DEF NetTypes, BeginRequest, Post, toolVars, stateVars,
                            netVars, eventVars, ToolTypes
<1>2. ASSUME NEW q \in Requests, ResponseEnd(q)
      PROVE  NetTypes'
  <2>1. \A c \in Captures : Append(chain[c][q], << >>) \in Seq(Seq(Nat))
    BY TypesOfParts DEF NetTypes
  <2>2. chain' \in [Captures -> [Requests -> Seq(Seq(Nat))]]
    BY <1>2, <2>1, TypesOfParts DEF ResponseEnd, NetTypes
  <2> QED
    BY <1>2, <2>2, TypesOfParts DEF ResponseEnd, NetTypes
<1>3. ASSUME NEW b \in Bodies, PageResponse(b)
      PROVE  NetTypes'
  BY <1>3, TypesOfParts DEF NetTypes, PageResponse, Post, toolVars, stateVars,
                            netVars, eventVars
<1>4. ASSUME NEW c \in Captures, NEW q \in Requests, PostChunk(c, q)
      PROVE  NetTypes'
  BY <1>4, TypesOfParts, ChunkPostTyped DEF NetTypes, PostChunk, Post, toolVars,
                                            stateVars, netVars, eventVars
<1>5. ASSUME NEW q \in Requests, NEW n \in 1 .. Size[q], ResponseData(q, n)
      PROVE  NetTypes'
  <2>1. SizeAssumption /\ net[q].got \in Nat /\ n \in Nat /\ MaxBytes \in Nat
    BY SizeAssumption, TypesOfParts DEF NetTypes, SizeAssumption
  <2>2. \A c \in Captures : Clip(q, c, n) \in 0 .. MaxBytes
    BY <2>1 DEF Clip
  <2>3. posted' \in [Captures -> [Requests -> 0 .. MaxBytes]]
    BY <1>5, <2>2, TypesOfParts DEF ResponseData, NetTypes
  <2>4. net' \in [Requests \cup Bodies -> [begun : BOOLEAN, got : Nat, ended : BOOLEAN]]
    <3>1. [net[q] EXCEPT !.got = net[q].got + n] \in [begun : BOOLEAN, got : Nat, ended : BOOLEAN]
      <4>1. net[q] \in [begun : BOOLEAN, got : Nat, ended : BOOLEAN] /\ net[q].got + n \in Nat
        BY <2>1, TypesOfParts DEF NetTypes
      <4> QED
        BY <4>1
    <3>2. net' = [net EXCEPT ![q] = [net[q] EXCEPT !.got = net[q].got + n]]
      BY <1>5 DEF ResponseData
    <3> QED
      BY <3>1, <3>2, TypesOfParts DEF NetTypes
  <2>5. ASSUME NEW c \in Captures
        PROVE  LET new == [k \in 1 .. posted'[c][q] - posted[c][q] |-> posted[c][q] + k]
               IN  posted'[c][q] > posted[c][q] => Append(chain[c][q], new) \in Seq(Seq(Nat))
    <3>1. posted'[c][q] \in Nat /\ posted[c][q] \in Nat /\ chain[c][q] \in Seq(Seq(Nat))
      BY <2>1, <2>3, TypesOfParts DEF NetTypes
    <3>2. posted'[c][q] > posted[c][q] =>
             [k \in 1 .. posted'[c][q] - posted[c][q] |-> posted[c][q] + k] \in Seq(Nat)
      BY <3>1
    <3> QED
      BY <3>1, <3>2
  <2>6. chain' \in [Captures -> [Requests -> Seq(Seq(Nat))]]
    BY <1>5, <2>5, TypesOfParts DEF ResponseData, NetTypes
  <2> QED
    BY <1>5, <2>3, <2>4, <2>6, TypesOfParts DEF ResponseData, NetTypes
<1>6. ASSUME NEW e \in flight \cup held, EventLost(e) \/ RouteEvent(e)
             \/ ApplyObserved(e) \/ ApplyChunk(e) \/ ApplyBodyObserved(e)
      PROVE  NetTypes'
  BY <1>6, TypesOfParts DEF NetTypes, EventLost, RouteEvent, ApplyObserved,
                            ApplyChunk, ApplyBodyObserved, toolVars, stateVars,
                            netVars, eventVars
<1>7. ASSUME NEW p \in Stops, StopFinalize(p)
      PROVE  NetTypes'
  BY <1>7, TypesOfParts DEF NetTypes, StopFinalize, Goto, Merge, toolVars,
                            stateVars, netVars, eventVars
<1>8. CASE DataRest
  BY <1>8, TypesOfParts DEF NetTypes, DataRest, toolVars, stateVars, netVars,
                            eventVars
<1> QED
  BY QuietSteps, <1>1, <1>2, <1>3, <1>4, <1>5, <1>6, <1>7, <1>8
     DEF Next, ToolStep, PageStep, HandlerStep

\* Every step keeps the types.
LEMMA TypedStep == TypeOK /\ CallsFit /\ EventsFit /\ [Next]_vars => TypeOK'
BY TypesOfParts, ToolTypesStep, BufferTypesStep, NetTypesStep, EventTypesStep, PTL

-----------------------------------------------------------------------------
(* Calls and tables                                                        *)

\* Every step leaves a start where it can be ...
LEMMA StartFitsStep ==
    ASSUME TypeOK, CallsFit, NEW d \in Captures, [Next]_vars
    PROVE  StartFits(d)'
<1>1. StartFits(d) /\ \A p \in Stops : StopFits(p)
  BY DEF CallsFit
<1>2. ASSUME NEW c \in Captures, StartCheck(c)
      PROVE  StartFits(d)'
  BY <1>2, <1>1, IdsAssumption DEF StartFits, Answered, Raised, TypeOK,
                                   Remote!TypeOK, Calls, IdsAssumption, StartCheck,
                                   Goto, toolVars, stateVars, netVars, eventVars
<1>3. ASSUME NEW c \in Captures, StartRegister(c)
      PROVE  StartFits(d)'
  BY <1>3, <1>1, IdsAssumption DEF StartFits, Answered, Raised, TypeOK,
                                   Remote!TypeOK, Calls, IdsAssumption,
                                   StartRegister, Goto, toolVars, stateVars,
                                   netVars, eventVars
<1>4. ASSUME NEW c \in Captures, StartLeave(c)
      PROVE  StartFits(d)'
  BY <1>4, <1>1, IdsAssumption DEF StartFits, Answered, Raised, TypeOK,
                                   Remote!TypeOK, Calls, IdsAssumption, StartLeave,
                                   Goto, toolVars, stateVars, netVars, eventVars
<1>5. ASSUME NEW x \in Calls, Request(x)
      PROVE  StartFits(d)'
  BY <1>5, <1>1, IdsAssumption DEF StartFits, Answered, Raised, TypeOK,
                                   Remote!TypeOK, Calls, IdsAssumption, Request,
                                   Goto, Remote!Open, Remote!Refuse, toolVars,
                                   stateVars, netVars, eventVars
<1>6. ASSUME NEW x \in Calls, Answer(x)
      PROVE  StartFits(d)'
  BY <1>6, <1>1, IdsAssumption DEF StartFits, Answered, Raised, TypeOK,
                                   Remote!TypeOK, Calls, IdsAssumption, Answer,
                                   Remote!ReturnResult, Remote!RaiseRemoteError,
                                   Remote!GiveUp, toolVars, stateVars, netVars,
                                   eventVars
<1>7. ASSUME NEW p \in Stops, NEW c \in Captures, StopEnter(p, c)
      PROVE  StartFits(d)'
  BY <1>7, <1>1, IdsAssumption DEF StartFits, Answered, Raised, TypeOK,
                                   Remote!TypeOK, Calls, IdsAssumption, StopEnter,
                                   Goto, toolVars, stateVars, netVars, eventVars
<1>8. ASSUME NEW p \in Stops, StopPop(p)
      PROVE  StartFits(d)'
  BY <1>8, <1>1, IdsAssumption DEF StartFits, Answered, Raised, TypeOK,
                                   Remote!TypeOK, Calls, IdsAssumption, StopPop,
                                   Goto, toolVars, stateVars, netVars, eventVars
<1>9. ASSUME NEW p \in Stops, StopFinalize(p)
      PROVE  StartFits(d)'
  BY <1>9, <1>1, IdsAssumption DEF StartFits, Answered, Raised, TypeOK,
                                   Remote!TypeOK, Calls, IdsAssumption,
                                   StopFinalize, Goto, Merge, toolVars, stateVars,
                                   netVars, eventVars
<1>10. ASSUME NEW c \in Captures, NEW how \in {"applied", "rejected"}, StartCapture(c, how)
      PROVE  StartFits(d)'
  BY <1>10, <1>1, IdsAssumption DEF StartFits, Answered, Raised, TypeOK,
                                    Remote!TypeOK, Calls, IdsAssumption,
                                    StartCapture, Remote!Execute, toolVars,
                                    stateVars, netVars, eventVars
<1>11. ASSUME NEW p \in Stops, StopCapture(p)
      PROVE  StartFits(d)'
  BY <1>11, <1>1, IdsAssumption DEF StartFits, Answered, Raised, TypeOK,
                                    Remote!TypeOK, Calls, IdsAssumption,
                                    StopCapture, Remote!Execute, toolVars,
                                    stateVars, netVars, eventVars
<1>12. CASE CallsRest
  BY <1>12, <1>1, IdsAssumption DEF StartFits, Answered, Raised, TypeOK,
                                    Remote!TypeOK, Calls, IdsAssumption, CallsRest,
                                    toolVars, stateVars, netVars, eventVars
<1> QED
  BY QuietSteps, <1>2, <1>3, <1>4, <1>5, <1>6, <1>7, <1>8, <1>9, <1>10, <1>11, <1>12
     DEF Next, ToolStep, PageStep, HandlerStep

\* ... and a stop.
LEMMA StopFitsStep ==
    ASSUME TypeOK, CallsFit, NEW s \in Stops, [Next]_vars
    PROVE  StopFits(s)'
<1>1. StopFits(s) /\ (target[s] \in Captures => StartFits(target[s]))
  BY DEF CallsFit
<1>2. ASSUME NEW c \in Captures, StartCheck(c)
      PROVE  StopFits(s)'
  BY <1>2, <1>1, IdsAssumption, NoCaptureAssumption
     DEF StopFits, StartFits, Answered, Raised, TypeOK, Remote!TypeOK, Calls,
         IdsAssumption, NoCaptureAssumption, StartCheck, Goto, toolVars, stateVars,
         netVars, eventVars
<1>3. ASSUME NEW c \in Captures, StartRegister(c)
      PROVE  StopFits(s)'
  BY <1>3, <1>1, IdsAssumption, NoCaptureAssumption
     DEF StopFits, StartFits, Answered, Raised, TypeOK, Remote!TypeOK, Calls,
         IdsAssumption, NoCaptureAssumption, StartRegister, Goto, toolVars,
         stateVars, netVars, eventVars
<1>4. ASSUME NEW c \in Captures, StartLeave(c)
      PROVE  StopFits(s)'
  BY <1>4, <1>1, IdsAssumption, NoCaptureAssumption
     DEF StopFits, StartFits, Answered, Raised, TypeOK, Remote!TypeOK, Calls,
         IdsAssumption, NoCaptureAssumption, StartLeave, Goto, toolVars, stateVars,
         netVars, eventVars
<1>5. ASSUME NEW x \in Calls, Request(x)
      PROVE  StopFits(s)'
  BY <1>5, <1>1, IdsAssumption, NoCaptureAssumption
     DEF StopFits, StartFits, Answered, Raised, TypeOK, Remote!TypeOK, Calls,
         IdsAssumption, NoCaptureAssumption, Request, Goto, Remote!Open,
         Remote!Refuse, toolVars, stateVars, netVars, eventVars
<1>6. ASSUME NEW x \in Calls, Answer(x)
      PROVE  StopFits(s)'
  BY <1>6, <1>1, IdsAssumption, NoCaptureAssumption
     DEF StopFits, StartFits, Answered, Raised, TypeOK, Remote!TypeOK, Calls,
         IdsAssumption, NoCaptureAssumption, Answer, Remote!ReturnResult,
         Remote!RaiseRemoteError, Remote!GiveUp, toolVars, stateVars, netVars,
         eventVars
<1>7. ASSUME NEW p \in Stops, NEW c \in Captures, StopEnter(p, c)
      PROVE  StopFits(s)'
  BY <1>7, <1>1, IdsAssumption, NoCaptureAssumption
     DEF StopFits, StartFits, Answered, Raised, TypeOK, Remote!TypeOK, Calls,
         IdsAssumption, NoCaptureAssumption, StopEnter, Goto, toolVars, stateVars,
         netVars, eventVars
<1>8. ASSUME NEW p \in Stops, StopPop(p)
      PROVE  StopFits(s)'
  BY <1>8, <1>1, IdsAssumption, NoCaptureAssumption
     DEF StopFits, StartFits, Answered, Raised, TypeOK, Remote!TypeOK, Calls,
         IdsAssumption, NoCaptureAssumption, StopPop, Goto, toolVars, stateVars,
         netVars, eventVars
<1>9. ASSUME NEW p \in Stops, StopFinalize(p)
      PROVE  StopFits(s)'
  BY <1>9, <1>1, IdsAssumption, NoCaptureAssumption
     DEF StopFits, StartFits, Answered, Raised, TypeOK, Remote!TypeOK, Calls,
         IdsAssumption, NoCaptureAssumption, StopFinalize, Goto, Merge, toolVars,
         stateVars, netVars, eventVars
<1>10. ASSUME NEW c \in Captures, NEW how \in {"applied", "rejected"}, StartCapture(c, how)
      PROVE  StopFits(s)'
  BY <1>10, <1>1, IdsAssumption, NoCaptureAssumption
     DEF StopFits, StartFits, Answered, Raised, TypeOK, Remote!TypeOK, Calls,
         IdsAssumption, NoCaptureAssumption, StartCapture, Remote!Execute, toolVars,
         stateVars, netVars, eventVars
<1>11. ASSUME NEW p \in Stops, StopCapture(p)
      PROVE  StopFits(s)'
  BY <1>11, <1>1, IdsAssumption, NoCaptureAssumption
     DEF StopFits, StartFits, Answered, Raised, TypeOK, Remote!TypeOK, Calls,
         IdsAssumption, NoCaptureAssumption, StopCapture, Remote!Execute, toolVars,
         stateVars, netVars, eventVars
<1>12. CASE CallsRest
  BY <1>12, <1>1, IdsAssumption, NoCaptureAssumption
     DEF StopFits, StartFits, Answered, Raised, TypeOK, Remote!TypeOK, Calls,
         IdsAssumption, NoCaptureAssumption, CallsRest, toolVars, stateVars,
         netVars, eventVars
<1> QED
  BY QuietSteps, <1>2, <1>3, <1>4, <1>5, <1>6, <1>7, <1>8, <1>9, <1>10, <1>11, <1>12
     DEF Next, ToolStep, PageStep, HandlerStep

\* Every step leaves every call where it can be.
LEMMA CallsFitStep == TypeOK /\ CallsFit /\ [Next]_vars => CallsFit'
<1> SUFFICES ASSUME TypeOK, CallsFit, [Next]_vars PROVE CallsFit'
  OBVIOUS
<1> QED
  BY StartFitsStep, StopFitsStep DEF CallsFit

\* Every step keeps the table to the captures that are started and not stopped, ...
LEMMA ListedStep ==
    ASSUME TypeOK, CallsFit, TablesInv, NEW d \in Captures, [Next]_vars
    PROVE  Listed(d)'
<1>1. StartFits(d) /\ Listed(d) /\ Listens(d)
  BY DEF CallsFit, TablesInv
<1>2. \A p \in Stops : StopFits(p)
  BY DEF CallsFit
<1>3. ASSUME NEW c \in Captures, StartCheck(c)
      PROVE  Listed(d)'
  BY <1>3, <1>1, <1>2, IdsAssumption DEF StartFits, StopFits, Answered, Raised,
                                         Listed, Popped, TypeOK, Calls,
                                         IdsAssumption, StartCheck, Goto, toolVars,
                                         stateVars, netVars, eventVars
<1>4. ASSUME NEW c \in Captures, StartRegister(c)
      PROVE  Listed(d)'
  BY <1>4, <1>1, <1>2, IdsAssumption DEF StartFits, StopFits, Answered, Raised,
                                         Listed, Popped, TypeOK, Calls,
                                         IdsAssumption, StartRegister, Goto,
                                         toolVars, stateVars, netVars, eventVars
<1>5. ASSUME NEW c \in Captures, StartLeave(c)
      PROVE  Listed(d)'
  BY <1>5, <1>1, <1>2, IdsAssumption DEF StartFits, StopFits, Answered, Raised,
                                         Listed, Popped, TypeOK, Calls,
                                         IdsAssumption, StartLeave, Goto, toolVars,
                                         stateVars, netVars, eventVars
<1>6. ASSUME NEW x \in Calls, Request(x)
      PROVE  Listed(d)'
  BY <1>6, <1>1, <1>2, IdsAssumption DEF StartFits, StopFits, Answered, Raised,
                                         Listed, Popped, TypeOK, Calls,
                                         IdsAssumption, Request, Goto, Remote!Open,
                                         Remote!Refuse, toolVars, stateVars,
                                         netVars, eventVars
<1>7. ASSUME NEW x \in Calls, Answer(x)
      PROVE  Listed(d)'
  BY <1>7, <1>1, <1>2, IdsAssumption DEF StartFits, StopFits, Answered, Raised,
                                         Listed, Popped, TypeOK, Calls,
                                         IdsAssumption, Answer, Remote!ReturnResult,
                                         Remote!RaiseRemoteError, Remote!GiveUp,
                                         toolVars, stateVars, netVars, eventVars
<1>8. ASSUME NEW p \in Stops, NEW c \in Captures, StopEnter(p, c)
      PROVE  Listed(d)'
  <2>1. \A s \in Stops \ {p} : target'[s] = target[s] /\ pc'[s] = pc[s]
    BY <1>8, IdsAssumption DEF StopEnter, Goto, TypeOK, Calls
  <2>2. pc[p] = "idle" /\ target[p] = NoCapture /\ target'[p] \in Captures /\ pc'[d] = pc[d]
    BY <1>8, <1>2, IdsAssumption DEF StopEnter, Goto, StopFits, TypeOK, Calls
  <2>3. Popped(d) => Popped(d)'
    BY <2>1, <2>2, NoCaptureAssumption DEF Popped
  <2> QED
    BY <1>8, <1>1, <2>2, <2>3 DEF Listed, StopEnter, toolVars
<1>9. ASSUME NEW p \in Stops, StopPop(p)
      PROVE  Listed(d)'
  BY <1>9, <1>1, <1>2, IdsAssumption DEF StartFits, StopFits, Answered, Raised,
                                         Listed, Popped, TypeOK, Calls,
                                         IdsAssumption, StopPop, Goto, toolVars,
                                         stateVars, netVars, eventVars
<1>10. ASSUME NEW p \in Stops, StopFinalize(p)
      PROVE  Listed(d)'
  BY <1>10, <1>1, <1>2, IdsAssumption DEF StartFits, StopFits, Answered, Raised,
                                          Listed, Popped, TypeOK, Calls,
                                          IdsAssumption, StopFinalize, Goto, Merge,
                                          toolVars, stateVars, netVars, eventVars
<1>11. ASSUME NEW c \in Captures, NEW how \in {"applied", "rejected"}, StartCapture(c, how)
      PROVE  Listed(d)'
  BY <1>11, <1>1, <1>2, IdsAssumption DEF StartFits, StopFits, Answered, Raised,
                                          Listed, Popped, TypeOK, Calls,
                                          IdsAssumption, StartCapture,
                                          Remote!Execute, toolVars, stateVars,
                                          netVars, eventVars
<1>12. ASSUME NEW p \in Stops, StopCapture(p)
      PROVE  Listed(d)'
  BY <1>12, <1>1, <1>2, IdsAssumption DEF StartFits, StopFits, Answered, Raised,
                                          Listed, Popped, TypeOK, Calls,
                                          IdsAssumption, StopCapture,
                                          Remote!Execute, toolVars, stateVars,
                                          netVars, eventVars
<1>13. CASE CallsRest
  BY <1>13, <1>1, <1>2, IdsAssumption DEF StartFits, StopFits, Answered, Raised,
                                          Listed, Popped, TypeOK, Calls,
                                          IdsAssumption, CallsRest, toolVars,
                                          stateVars, netVars, eventVars
<1> QED
  BY QuietSteps, <1>3, <1>4, <1>5, <1>6, <1>7, <1>8, <1>9, <1>10, <1>11, <1>12,
     <1>13
     DEF Next, ToolStep, PageStep, HandlerStep

\* ... those that were started listening ...
LEMMA ListensStep ==
    ASSUME TypeOK, CallsFit, TablesInv, NEW d \in Captures, [Next]_vars
    PROVE  Listens(d)'
<1>1. StartFits(d) /\ Listed(d) /\ Listens(d)
  BY DEF CallsFit, TablesInv
<1>2. \A p \in Stops : StopFits(p)
  BY DEF CallsFit
<1>3. ASSUME NEW c \in Captures, StartCheck(c)
      PROVE  Listens(d)'
  BY <1>3, <1>1, <1>2, IdsAssumption DEF StartFits, StopFits, Answered, Raised,
                                         Listens, Stopped, TypeOK, Remote!TypeOK,
                                         Calls, IdsAssumption, StartCheck, Goto,
                                         toolVars, stateVars, netVars, eventVars
<1>4. ASSUME NEW c \in Captures, StartRegister(c)
      PROVE  Listens(d)'
  BY <1>4, <1>1, <1>2, IdsAssumption DEF StartFits, StopFits, Answered, Raised,
                                         Listens, Stopped, TypeOK, Remote!TypeOK,
                                         Calls, IdsAssumption, StartRegister, Goto,
                                         toolVars, stateVars, netVars, eventVars
<1>5. ASSUME NEW c \in Captures, StartLeave(c)
      PROVE  Listens(d)'
  BY <1>5, <1>1, <1>2, IdsAssumption DEF StartFits, StopFits, Answered, Raised,
                                         Listens, Stopped, TypeOK, Remote!TypeOK,
                                         Calls, IdsAssumption, StartLeave, Goto,
                                         toolVars, stateVars, netVars, eventVars
<1>6. ASSUME NEW x \in Calls, Request(x)
      PROVE  Listens(d)'
  BY <1>6, <1>1, <1>2, IdsAssumption DEF StartFits, StopFits, Answered, Raised,
                                         Listens, Stopped, TypeOK, Remote!TypeOK,
                                         Calls, IdsAssumption, Request, Goto,
                                         Remote!Open, Remote!Refuse, toolVars,
                                         stateVars, netVars, eventVars
<1>7. ASSUME NEW x \in Calls, Answer(x)
      PROVE  Listens(d)'
  BY <1>7, <1>1, <1>2, IdsAssumption DEF StartFits, StopFits, Answered, Raised,
                                         Listens, Stopped, TypeOK, Remote!TypeOK,
                                         Calls, IdsAssumption, Answer,
                                         Remote!ReturnResult,
                                         Remote!RaiseRemoteError, Remote!GiveUp,
                                         toolVars, stateVars, netVars, eventVars
<1>8. ASSUME NEW p \in Stops, NEW c \in Captures, StopEnter(p, c)
      PROVE  Listens(d)'
  <2>1. \A s \in Stops \ {p} : target'[s] = target[s] /\ pc'[s] = pc[s]
    BY <1>8, IdsAssumption DEF StopEnter, Goto, TypeOK, Calls
  <2>2. pc[p] = "idle" /\ target[p] = NoCapture /\ target'[p] \in Captures /\ pc'[d] = pc[d]
    BY <1>8, <1>2, IdsAssumption DEF StopEnter, Goto, StopFits, TypeOK, Calls
  <2>3. Stopped(d) => Stopped(d)'
    BY <2>1, <2>2, NoCaptureAssumption DEF Stopped
  <2> QED
    BY <1>8, <1>1, <2>2, <2>3 DEF Listens, StopEnter, toolVars
<1>9. ASSUME NEW p \in Stops, StopPop(p)
      PROVE  Listens(d)'
  BY <1>9, <1>1, <1>2, IdsAssumption DEF StartFits, StopFits, Answered, Raised,
                                         Listens, Stopped, TypeOK, Remote!TypeOK,
                                         Calls, IdsAssumption, StopPop, Goto,
                                         toolVars, stateVars, netVars, eventVars
<1>10. ASSUME NEW p \in Stops, StopFinalize(p)
      PROVE  Listens(d)'
  BY <1>10, <1>1, <1>2, IdsAssumption DEF StartFits, StopFits, Answered, Raised,
                                          Listens, Stopped, TypeOK, Remote!TypeOK,
                                          Calls, IdsAssumption, StopFinalize, Goto,
                                          Merge, toolVars, stateVars, netVars,
                                          eventVars
<1>11. ASSUME NEW c \in Captures, NEW how \in {"applied", "rejected"}, StartCapture(c, how)
      PROVE  Listens(d)'
  BY <1>11, <1>1, <1>2, IdsAssumption DEF StartFits, StopFits, Answered, Raised,
                                          Listens, Stopped, TypeOK, Remote!TypeOK,
                                          Calls, IdsAssumption, StartCapture,
                                          Remote!Execute, toolVars, stateVars,
                                          netVars, eventVars
<1>12. ASSUME NEW p \in Stops, StopCapture(p)
      PROVE  Listens(d)'
  BY <1>12, <1>1, <1>2, IdsAssumption DEF StartFits, StopFits, Answered, Raised,
                                          Listens, Stopped, TypeOK, Remote!TypeOK,
                                          Calls, IdsAssumption, StopCapture,
                                          Remote!Execute, toolVars, stateVars,
                                          netVars, eventVars
<1>13. ASSUME NEW e \in flight \cup held, EventLost(e)
      PROVE  Listens(d)'
  BY <1>13, <1>1, <1>2, IdsAssumption DEF StartFits, StopFits, Answered, Raised,
                                          Listens, Stopped, TypeOK, Remote!TypeOK,
                                          Calls, IdsAssumption, EventLost, toolVars,
                                          stateVars, netVars, eventVars
<1>14. ASSUME NEW e \in flight \cup held, ApplyObserved(e)
      PROVE  Listens(d)'
  BY <1>14, <1>1, <1>2, IdsAssumption DEF StartFits, StopFits, Answered, Raised,
                                          Listens, Stopped, TypeOK, Remote!TypeOK,
                                          Calls, IdsAssumption, ApplyObserved,
                                          toolVars, stateVars, netVars, eventVars
<1>15. ASSUME NEW e \in flight \cup held, ApplyChunk(e)
      PROVE  Listens(d)'
  BY <1>15, <1>1, <1>2, IdsAssumption DEF StartFits, StopFits, Answered, Raised,
                                          Listens, Stopped, TypeOK, Remote!TypeOK,
                                          Calls, IdsAssumption, ApplyChunk,
                                          toolVars, stateVars, netVars, eventVars
<1>16. CASE CallsRest
  BY <1>16, <1>1, <1>2, IdsAssumption DEF StartFits, StopFits, Answered, Raised,
                                          Listens, Stopped, TypeOK, Remote!TypeOK,
                                          Calls, IdsAssumption, CallsRest, toolVars,
                                          stateVars, netVars, eventVars
<1> QED
  BY QuietSteps, <1>3, <1>4, <1>5, <1>6, <1>7, <1>8, <1>9, <1>10, <1>11, <1>12,
     <1>13, <1>14, <1>15, <1>16
     DEF Next, ToolStep, PageStep, HandlerStep

\* ... and those that were stopped silent.
LEMMA SilencedStep ==
    ASSUME TypeOK, CallsFit, TablesInv, NEW s \in Stops, NEW d \in Captures, [Next]_vars
    PROVE  Silenced(s, d)'
<1>1. StopFits(s) /\ (target[s] \in Captures => StartFits(target[s]))
  BY DEF CallsFit
<1>2. Silenced(s, d)
  BY DEF TablesInv
<1>3. ASSUME NEW c \in Captures, StartCheck(c)
      PROVE  Silenced(s, d)'
  BY <1>3, <1>1, <1>2, IdsAssumption, NoCaptureAssumption
     DEF StopFits, StartFits, Answered, Raised, Silenced, TypeOK, Remote!TypeOK,
         Calls, IdsAssumption, NoCaptureAssumption, StartCheck, Goto, toolVars,
         stateVars, netVars, eventVars
<1>4. ASSUME NEW c \in Captures, StartRegister(c)
      PROVE  Silenced(s, d)'
  BY <1>4, <1>1, <1>2, IdsAssumption, NoCaptureAssumption
     DEF StopFits, StartFits, Answered, Raised, Silenced, TypeOK, Remote!TypeOK,
         Calls, IdsAssumption, NoCaptureAssumption, StartRegister, Goto, toolVars,
         stateVars, netVars, eventVars
<1>5. ASSUME NEW c \in Captures, StartLeave(c)
      PROVE  Silenced(s, d)'
  BY <1>5, <1>1, <1>2, IdsAssumption, NoCaptureAssumption
     DEF StopFits, StartFits, Answered, Raised, Silenced, TypeOK, Remote!TypeOK,
         Calls, IdsAssumption, NoCaptureAssumption, StartLeave, Goto, toolVars,
         stateVars, netVars, eventVars
<1>6. ASSUME NEW x \in Calls, Request(x)
      PROVE  Silenced(s, d)'
  BY <1>6, <1>1, <1>2, IdsAssumption, NoCaptureAssumption
     DEF StopFits, StartFits, Answered, Raised, Silenced, TypeOK, Remote!TypeOK,
         Calls, IdsAssumption, NoCaptureAssumption, Request, Goto, Remote!Open,
         Remote!Refuse, toolVars, stateVars, netVars, eventVars
<1>7. ASSUME NEW x \in Calls, Answer(x)
      PROVE  Silenced(s, d)'
  BY <1>7, <1>1, <1>2, IdsAssumption, NoCaptureAssumption
     DEF StopFits, StartFits, Answered, Raised, Silenced, TypeOK, Remote!TypeOK,
         Calls, IdsAssumption, NoCaptureAssumption, Answer, Remote!ReturnResult,
         Remote!RaiseRemoteError, Remote!GiveUp, toolVars, stateVars, netVars,
         eventVars
<1>8. ASSUME NEW p \in Stops, NEW c \in Captures, StopEnter(p, c)
      PROVE  Silenced(s, d)'
  BY <1>8, <1>1, <1>2, IdsAssumption, NoCaptureAssumption
     DEF StopFits, StartFits, Answered, Raised, Silenced, TypeOK, Remote!TypeOK,
         Calls, IdsAssumption, NoCaptureAssumption, StopEnter, Goto, toolVars,
         stateVars, netVars, eventVars
<1>9. ASSUME NEW p \in Stops, StopPop(p)
      PROVE  Silenced(s, d)'
  BY <1>9, <1>1, <1>2, IdsAssumption, NoCaptureAssumption
     DEF StopFits, StartFits, Answered, Raised, Silenced, TypeOK, Remote!TypeOK,
         Calls, IdsAssumption, NoCaptureAssumption, StopPop, Goto, toolVars,
         stateVars, netVars, eventVars
<1>10. ASSUME NEW p \in Stops, StopFinalize(p)
      PROVE  Silenced(s, d)'
  BY <1>10, <1>1, <1>2, IdsAssumption, NoCaptureAssumption
     DEF StopFits, StartFits, Answered, Raised, Silenced, TypeOK, Remote!TypeOK,
         Calls, IdsAssumption, NoCaptureAssumption, StopFinalize, Goto, Merge,
         toolVars, stateVars, netVars, eventVars
<1>11. ASSUME NEW c \in Captures, NEW how \in {"applied", "rejected"}, StartCapture(c, how)
      PROVE  Silenced(s, d)'
  BY <1>11, <1>1, <1>2, IdsAssumption, NoCaptureAssumption
     DEF StopFits, StartFits, Answered, Raised, Silenced, TypeOK, Remote!TypeOK,
         Calls, IdsAssumption, NoCaptureAssumption, StartCapture, Remote!Execute,
         toolVars, stateVars, netVars, eventVars
<1>12. ASSUME NEW p \in Stops, StopCapture(p)
      PROVE  Silenced(s, d)'
  BY <1>12, <1>1, <1>2, IdsAssumption, NoCaptureAssumption
     DEF StopFits, StartFits, Answered, Raised, Silenced, TypeOK, Remote!TypeOK,
         Calls, IdsAssumption, NoCaptureAssumption, StopCapture, Remote!Execute,
         toolVars, stateVars, netVars, eventVars
<1>13. CASE CallsRest
  BY <1>13, <1>1, <1>2, IdsAssumption, NoCaptureAssumption
     DEF StopFits, StartFits, Answered, Raised, Silenced, TypeOK, Remote!TypeOK,
         Calls, IdsAssumption, NoCaptureAssumption, CallsRest, toolVars, stateVars,
         netVars, eventVars
<1> QED
  BY QuietSteps, <1>3, <1>4, <1>5, <1>6, <1>7, <1>8, <1>9, <1>10, <1>11, <1>12,
     <1>13
     DEF Next, ToolStep, PageStep, HandlerStep

\* Every step keeps what the tables are.
LEMMA TablesStep == TypeOK /\ CallsFit /\ TablesInv /\ [Next]_vars => TablesInv'
<1> SUFFICES ASSUME TypeOK, CallsFit, TablesInv, [Next]_vars PROVE TablesInv'
  OBVIOUS
<1> QED
  BY ListedStep, ListensStep, SilencedStep DEF TablesInv

\* What the tables are is what CapturesAgree asks.
LEMMA TablesAgree ==
    ASSUME TypeOK, CallsFit, TablesInv
    PROVE  CapturesAgree
<1>1. ASSUME NEW c \in extCaptures \ captures
      PROVE  \/ pc[c] = "entered" \/ phase[c] \in {"open", "unknown"}
             \/ \E p \in Stops : target[p] = c /\ phase[p] \in {"refused", "unknown"}
  <2>1. c \in Captures /\ StartFits(c) /\ Listed(c) /\ Listens(c) /\ phase[c] \in Remote!Phases
    BY IdsAssumption DEF TypeOK, CallsFit, TablesInv, Remote!TypeOK, Calls
  <2>2. CASE phase[c] = "ok"
    <3>1. PICK p \in Stops : target[p] = c /\ pc[p] \in {"popped", "done", "failed"}
      BY <2>1, <2>2, <1>1 DEF StartFits, Raised, Listed, Popped
    <3>2. StopFits(p) /\ Silenced(p, c)
      BY <2>1 DEF CallsFit, TablesInv
    <3> QED
      BY <3>1, <3>2, <1>1 DEF StopFits, Answered, Silenced, Raised
  <2> QED
    BY <2>1, <2>2, <1>1 DEF StartFits, Answered, Listens, Remote!Phases
<1>2. ASSUME NEW c \in captures
      PROVE  pc[c] # "failed" /\ (pc[c] = "live" => c \in extCaptures \/ \E p \in Stops : target[p] = c)
  <2>1. c \in Captures /\ StartFits(c) /\ Listed(c) /\ Listens(c)
    BY DEF TypeOK, CallsFit, TablesInv
  <2> QED
    BY <2>1 DEF StartFits, Answered, Listed, Listens, Stopped
<1> QED
  BY <1>1, <1>2 DEF CapturesAgree

-----------------------------------------------------------------------------
(* Bytes                                                                   *)

\* Nothing is queued before it was read.
LEMMA PostedIsReadStep ==
    ASSUME TypeOK, PostedIsRead, NEW d \in Captures, NEW r \in Requests, [Next]_vars
    PROVE  posted'[d][r] <= net'[r].got
<1>1. posted[d][r] \in 0 .. MaxBytes /\ posted[d][r] <= net[r].got /\ net[r].got \in Nat
  BY DEF TypeOK, PostedIsRead
<1>2. ASSUME NEW q \in Requests, BeginRequest(q)
      PROVE  posted'[d][r] <= net'[r].got
  BY <1>2, <1>1, SizeAssumption, IdsAssumption
     DEF TypeOK, SizeAssumption, Clip, BeginRequest, Post, toolVars, stateVars,
         netVars, eventVars
<1>3. ASSUME NEW q \in Requests, NEW n \in 1 .. Size[q], ResponseData(q, n)
      PROVE  posted'[d][r] <= net'[r].got
  BY <1>3, <1>1, SizeAssumption, IdsAssumption
     DEF TypeOK, SizeAssumption, Clip, ResponseData, toolVars, stateVars, netVars,
         eventVars
<1>4. ASSUME NEW q \in Requests, ResponseEnd(q)
      PROVE  posted'[d][r] <= net'[r].got
  BY <1>4, <1>1, SizeAssumption, IdsAssumption
     DEF TypeOK, SizeAssumption, Clip, ResponseEnd, Post, toolVars, stateVars,
         netVars, eventVars
<1>5. ASSUME NEW b \in Bodies, PageResponse(b)
      PROVE  posted'[d][r] <= net'[r].got
  BY <1>5, <1>1, SizeAssumption, IdsAssumption
     DEF TypeOK, SizeAssumption, Clip, PageResponse, Post, toolVars, stateVars,
         netVars, eventVars
<1>6. ASSUME NEW c \in Captures, NEW q \in Requests, PostChunk(c, q)
      PROVE  posted'[d][r] <= net'[r].got
  BY <1>6, <1>1, SizeAssumption, IdsAssumption
     DEF TypeOK, SizeAssumption, Clip, PostChunk, Post, toolVars, stateVars,
         netVars, eventVars
<1>7. ASSUME NEW e \in flight \cup held, EventLost(e) \/ RouteEvent(e)
             \/ ApplyObserved(e) \/ ApplyChunk(e) \/ ApplyBodyObserved(e)
      PROVE  posted'[d][r] <= net'[r].got
  BY <1>7, <1>1, SizeAssumption, IdsAssumption
     DEF TypeOK, SizeAssumption, Clip, EventLost, RouteEvent, ApplyObserved,
         ApplyChunk, ApplyBodyObserved, toolVars, stateVars, netVars, eventVars
<1>8. ASSUME NEW p \in Stops, StopFinalize(p)
      PROVE  posted'[d][r] <= net'[r].got
  BY <1>8, <1>1, SizeAssumption, IdsAssumption
     DEF TypeOK, SizeAssumption, Clip, StopFinalize, Goto, Merge, toolVars,
         stateVars, netVars, eventVars
<1>9. CASE DataRest
  BY <1>9, <1>1, SizeAssumption, IdsAssumption
     DEF TypeOK, SizeAssumption, Clip, DataRest, toolVars, stateVars, netVars,
         eventVars
<1> QED
  BY QuietSteps, <1>2, <1>3, <1>4, <1>5, <1>6, <1>7, <1>8, <1>9
     DEF Next, ToolStep, PageStep, HandlerStep

\* The bytes that follow, as a chunk.
LEMMA CountLater ==
    ASSUME NEW m \in Nat, NEW n \in Nat, n > m
    PROVE  LET s == [k \in 1 .. n - m |-> m + k] IN s \in Seq(Nat) /\ Later(s, m, n)
<1> DEFINE s == [k \in 1 .. n - m |-> m + k]
<1>0. n - m \in Nat
  OBVIOUS
<1>1. s \in Seq(Nat) /\ Len(s) = n - m
  BY <1>0
<1>2. \A k \in 1 .. Len(s) : s[k] = m + k
  BY <1>1
<1> HIDE DEF s
<1>3. Later(s, m, n)
  BY <1>0, <1>1, <1>2 DEF Later, Rising, UpTo
<1> QED
  BY <1>1, <1>3 DEF s

\* Every step is one of these, for each response and capture.
LEMMA BytesEffect ==
    ASSUME TypeOK, EventsFit, PostedIsRead, BytesInv, NEW d \in Captures, NEW r \in Requests, [Next]_vars
    PROVE  Stills(d, r) \/ Queues(d, r) \/ Posts(d, r) \/ Applies(d, r)
<1>1. /\ posted[d][r] \in Nat /\ posted[d][r] <= MaxBytes /\ net[r].got \in Nat /\ posted[d][r] <= net[r].got
      /\ entries \in [Captures -> [Requests -> [url : BOOLEAN, body : Seq(Nat), page : SUBSET Bodies]]]
  BY SizeAssumption DEF TypeOK, PostedIsRead, SizeAssumption
<1>2. \A e, f \in flight \cup held : OneSent(d, r, e, f)
  BY DEF BytesInv, ResponseInv
<1>3. ASSUME NEW q \in Requests, NEW n \in 1 .. Size[q], ResponseData(q, n)
      PROVE  Stills(d, r) \/ Queues(d, r) \/ Posts(d, r) \/ Applies(d, r)
  <2>1. CASE r # q
    BY <1>3, <2>1, <1>1, <1>2 DEF ResponseData, Stills, BodyKept, ChainKept,
                                  NoneSent, Body, OneSent, stateVars, eventVars,
                                  TypeOK
  <2>2. CASE r = q /\ d \notin owners[q]
    BY <1>3, <2>2, <1>1, <1>2 DEF ResponseData, Stills, BodyKept, ChainKept,
                                  NoneSent, Body, OneSent, stateVars, eventVars,
                                  TypeOK
  <2>3. CASE r = q /\ d \in owners[q]
    <3>1. /\ posted'[d][r] = Clip(q, d, n)
          /\ chain'[d][r] = IF posted'[d][r] > posted[d][r]
               THEN Append(chain[d][r], [k \in 1 .. posted'[d][r] - posted[d][r] |-> posted[d][r] + k])
               ELSE chain[d][r]
          /\ UNCHANGED <<entries, flight, held>>
      BY <1>3, <2>3, <1>1, <1>2 DEF ResponseData, stateVars, eventVars, TypeOK
    <3>2. n \in Nat /\ MaxBytes \in Nat /\ net[q].got \in Nat /\ posted[d][r] <= net[q].got
      BY <2>3, <1>1, <1>2, SizeAssumption DEF SizeAssumption
    <3>3. posted'[d][r] \in Nat /\ posted[d][r] <= posted'[d][r]
      BY <3>1, <3>2, <1>1, <1>2 DEF Clip
    <3> DEFINE s == [k \in 1 .. posted'[d][r] - posted[d][r] |-> posted[d][r] + k]
    <3>4. ASSUME posted'[d][r] > posted[d][r]
          PROVE  s \in Seq(Nat) /\ Later(s, posted[d][r], posted'[d][r])
      BY <3>3, <3>4, <1>1, <1>2, CountLater
    <3>5. BodyKept(d, r) /\ NoneSent(d, r)
      BY <3>1, <1>1, <1>2 DEF BodyKept, Body, NoneSent, OneSent
    <3> HIDE DEF s
    <3>6. posted'[d][r] > posted[d][r] => chain'[d][r] = Append(chain[d][r], s)
      BY <3>1 DEF s
    <3>7. ~(posted'[d][r] > posted[d][r]) => chain'[d][r] = chain[d][r]
      BY <3>1
    <3> QED
      BY <3>3, <3>4, <3>5, <3>6, <3>7 DEF Queues
  <2> QED
    BY <2>1, <2>2, <2>3
<1>4. ASSUME NEW q \in Requests, ResponseEnd(q)
      PROVE  Stills(d, r) \/ Queues(d, r) \/ Posts(d, r) \/ Applies(d, r)
  <2>1. CASE r # q \/ d \notin owners[q]
    <3>1. ChainKept(d, r) /\ BodyKept(d, r)
      BY <1>4, <2>1, <1>1, <1>2 DEF ResponseEnd, ChainKept, BodyKept, Body,
                                    stateVars, TypeOK
    <3> QED
      BY <1>4, <3>1, <1>1, <1>2 DEF ResponseEnd, Post, Stills, NoneSent, OneSent,
                                    Event, Sent
  <2>2. CASE r = q /\ d \in owners[q]
    <3>1. posted'[d][r] = posted[d][r] /\ chain'[d][r] = Append(chain[d][r], << >>) /\ BodyKept(d, r)
      BY <1>4, <2>2, <1>1, <1>2 DEF ResponseEnd, BodyKept, Body, stateVars, TypeOK
    <3>2. << >> \in Seq(Nat) /\ Later(<< >>, posted[d][r], posted'[d][r])
      BY DEF Later, Rising, UpTo
    <3>3. NoneSent(d, r)
      BY <1>4, <1>1, <1>2 DEF ResponseEnd, Post, NoneSent, OneSent, Event, Sent
    <3>4. \E s \in Seq(Nat) : Later(s, posted[d][r], posted'[d][r])
                              /\ chain'[d][r] = Append(chain[d][r], s)
      BY <3>1, <3>2
    <3>5. posted[d][r] <= posted'[d][r]
      BY <3>1, <1>1, <1>2
    <3> QED
      BY <3>1, <3>3, <3>4, <3>5 DEF Queues
  <2> QED
    BY <2>1, <2>2
<1>5. ASSUME NEW c \in Captures, NEW q \in Requests, PostChunk(c, q)
      PROVE  Stills(d, r) \/ Queues(d, r) \/ Posts(d, r) \/ Applies(d, r)
  <2>1. CASE c = d /\ q = r
    <3>1. chain'[d][r] = Tail(chain[d][r]) /\ chain[d][r] # << >> /\ BodyKept(d, r) /\ posted'[d][r] = posted[d][r]
      BY <1>5, <2>1, <1>1, <1>2 DEF PostChunk, BodyKept, Body, stateVars, TypeOK
    <3> QED
      BY <1>5, <2>1, <3>1 DEF PostChunk, Post, Posts, Sent
  <2>2. CASE ~(c = d /\ q = r)
    <3>1. ChainKept(d, r) /\ BodyKept(d, r)
      BY <1>5, <2>2, <1>1, <1>2 DEF PostChunk, ChainKept, BodyKept, Body, stateVars,
                                    TypeOK
    <3> QED
      BY <1>5, <2>2, <3>1, <1>1, <1>2 DEF PostChunk, Post, Stills, NoneSent,
                                          OneSent, Event, Sent
  <2> QED
    BY <2>1, <2>2
<1>6. ASSUME NEW e \in flight \cup held, ApplyChunk(e)
      PROVE  Stills(d, r) \/ Queues(d, r) \/ Posts(d, r) \/ Applies(d, r)
  <2>0. e.cap \in Captures /\ e.item \in Requests /\ e.bytes \in Seq(Nat) /\ e.kind = "chunk" /\ e \in held
    BY <1>6, HeldTyped DEF EventsFit, ApplyChunk
  <2>1. CASE e.cap = d /\ e.item = r
    <3> DEFINE s == Clipped(Body(d, r) \o e.bytes)
    <3>a. s \in Seq(Nat)
      BY <2>0, ChunkTyped, TypesOfParts DEF Clipped, Body
    <3>b. entries' = [entries EXCEPT ![d][r].body = s]
      BY <1>6, <2>1 DEF ApplyChunk, Clipped, Body
    <3> HIDE DEF s
    <3>c. entries'[d][r].body = s
      BY <3>b, <1>1, <1>2 DEF TypeOK
    <3>1. Body(d, r)' = Clipped(Body(d, r) \o e.bytes) /\ ChainKept(d, r)
      BY <1>6, <3>c DEF ApplyChunk, Body, ChainKept, netVars, s
    <3> QED
      BY <1>6, <2>0, <2>1, <3>1 DEF ApplyChunk, Applies, Sent
  <2>2. CASE ~(e.cap = d /\ e.item = r)
    <3>1. ChainKept(d, r)
      BY <1>6 DEF ApplyChunk, ChainKept, netVars
    <3>2. BodyKept(d, r)
      <4> DEFINE s == Clipped(Body(e.cap, e.item) \o e.bytes)
      <4>1. entries' = [entries EXCEPT ![e.cap][e.item].body = s]
        BY <1>6 DEF ApplyChunk, Clipped, Body
      <4> HIDE DEF s
      <4> QED
        BY <4>1, <2>0, <2>2, <1>1, <1>2 DEF BodyKept, Body, TypeOK
    <3> QED
      BY <1>6, <2>2, <3>1, <3>2, <1>1, <1>2 DEF ApplyChunk, Stills, NoneSent,
                                                OneSent
  <2> QED
    BY <2>1, <2>2
<1>7. ASSUME NEW p \in Stops, StopFinalize(p)
      PROVE  Stills(d, r) \/ Queues(d, r) \/ Posts(d, r) \/ Applies(d, r)
  <2> DEFINE c == target[p]
             m(q) == [entries[c][q] EXCEPT !.page =
                        @ \cup UNION {Match(c, k) : k \in {j \in 1 .. Len(order[c]) : order[c][j] = q}}]
  <2>1. entries' = [entries EXCEPT ![c] = [q \in Requests |-> m(q)]]
    BY <1>7 DEF StopFinalize, Merge
  <2>2. m(r).body = entries[c][r].body \/ c # d
    BY <1>1, <1>2
  <2> HIDE DEF m, c
  <2>3. BodyKept(d, r)
    BY <2>1, <2>2, <1>1, <1>2 DEF BodyKept, Body, TypeOK
  <2> QED
    BY <1>7, <2>3, <1>1, <1>2 DEF StopFinalize, Stills, ChainKept, NoneSent,
                                  OneSent, netVars, eventVars
<1>8. ASSUME NEW q \in Requests, BeginRequest(q)
      PROVE  Stills(d, r) \/ Queues(d, r) \/ Posts(d, r) \/ Applies(d, r)
  BY <1>8, <1>1, <1>2, IdsAssumption DEF Stills, BodyKept, ChainKept, NoneSent,
                                         Body, OneSent, Event, Sent, IdsAssumption,
                                         BeginRequest, Post, toolVars, stateVars,
                                         netVars, eventVars
<1>9. ASSUME NEW b \in Bodies, PageResponse(b)
      PROVE  Stills(d, r) \/ Queues(d, r) \/ Posts(d, r) \/ Applies(d, r)
  BY <1>9, <1>1, <1>2, IdsAssumption DEF Stills, BodyKept, ChainKept, NoneSent,
                                         Body, OneSent, Event, Sent, IdsAssumption,
                                         PageResponse, Post, toolVars, stateVars,
                                         netVars, eventVars
<1>10. ASSUME NEW e \in flight \cup held, EventLost(e)
      PROVE  Stills(d, r) \/ Queues(d, r) \/ Posts(d, r) \/ Applies(d, r)
  BY <1>10, <1>1, <1>2, IdsAssumption DEF Stills, BodyKept, ChainKept, NoneSent,
                                          Body, OneSent, Event, Sent, IdsAssumption,
                                          EventLost, toolVars, stateVars, netVars,
                                          eventVars
<1>11. ASSUME NEW e \in flight \cup held, RouteEvent(e)
      PROVE  Stills(d, r) \/ Queues(d, r) \/ Posts(d, r) \/ Applies(d, r)
  BY <1>11, <1>1, <1>2, IdsAssumption DEF Stills, BodyKept, ChainKept, NoneSent,
                                          Body, OneSent, Event, Sent, IdsAssumption,
                                          RouteEvent, toolVars, stateVars, netVars,
                                          eventVars
<1>12. ASSUME NEW e \in flight \cup held, ApplyObserved(e)
      PROVE  Stills(d, r) \/ Queues(d, r) \/ Posts(d, r) \/ Applies(d, r)
  BY <1>12, <1>1, <1>2, IdsAssumption DEF Stills, BodyKept, ChainKept, NoneSent,
                                          Body, OneSent, Event, Sent, IdsAssumption,
                                          ApplyObserved, toolVars, stateVars,
                                          netVars, eventVars
<1>13. ASSUME NEW e \in flight \cup held, ApplyBodyObserved(e)
      PROVE  Stills(d, r) \/ Queues(d, r) \/ Posts(d, r) \/ Applies(d, r)
  BY <1>13, <1>1, <1>2, IdsAssumption DEF Stills, BodyKept, ChainKept, NoneSent,
                                          Body, OneSent, Event, Sent, IdsAssumption,
                                          ApplyBodyObserved, toolVars, stateVars,
                                          netVars, eventVars
<1>14. CASE DataRest
  BY <1>14, <1>1, <1>2, IdsAssumption DEF Stills, BodyKept, ChainKept, NoneSent,
                                          Body, OneSent, Event, Sent, IdsAssumption,
                                          DataRest, toolVars, stateVars, netVars,
                                          eventVars
<1> QED
  BY QuietSteps, <1>3, <1>4, <1>5, <1>6, <1>7, <1>8, <1>9, <1>10, <1>11, <1>12,
     <1>13, <1>14
     DEF Next, ToolStep, PageStep, HandlerStep

\* What the order of two sequences says of their concatenation and of its beginning.
LEMMA ConcatRises ==
    ASSUME NEW s \in Seq(Nat), NEW t \in Seq(Nat), Rising(s), Rising(t), Before(s, t)
    PROVE  /\ s \o t \in Seq(Nat) /\ Rising(s \o t)
           /\ \A n \in Nat : UpTo(s, n) /\ UpTo(t, n) => UpTo(s \o t, n)
           /\ \A u \in Seq(Nat) : Before(s, u) /\ Before(t, u) => Before(s \o t, u)
<1>1. /\ s \o t \in Seq(Nat) /\ Len(s) \in Nat /\ Len(t) \in Nat /\ Len(s \o t) = Len(s) + Len(t)
      /\ \A k \in 1 .. Len(s \o t) : (s \o t)[k] = IF k <= Len(s) THEN s[k] ELSE t[k - Len(s)]
  OBVIOUS
<1>2. \A k \in 1 .. Len(s \o t) : \/ k \in 1 .. Len(s) /\ (s \o t)[k] = s[k]
                                  \/ k - Len(s) \in 1 .. Len(t) /\ (s \o t)[k] = t[k - Len(s)]
  BY <1>1
<1>3. Rising(s \o t)
  <2> DEFINE w == s \o t
  <2>1. ASSUME NEW j \in 1 .. Len(w), NEW k \in 1 .. Len(w), j < k
        PROVE  w[j] < w[k]
    <3>1. CASE k <= Len(s)
      <4>1. j \in 1 .. Len(s) /\ k \in 1 .. Len(s) /\ w[j] = s[j] /\ w[k] = s[k]
        BY <1>1, <2>1, <3>1
      <4> QED
        BY <4>1, <2>1 DEF Rising
    <3>2. CASE j > Len(s)
      <4>1. /\ j - Len(s) \in 1 .. Len(t) /\ k - Len(s) \in 1 .. Len(t) /\ j - Len(s) < k - Len(s)
            /\ w[j] = t[j - Len(s)] /\ w[k] = t[k - Len(s)]
        BY <1>1, <2>1, <3>2
      <4> QED
        BY <4>1 DEF Rising
    <3>3. CASE j <= Len(s) /\ ~(k <= Len(s))
      <4>1. j \in 1 .. Len(s) /\ k - Len(s) \in 1 .. Len(t) /\ w[j] = s[j] /\ w[k] = t[k - Len(s)]
        BY <1>1, <2>1, <3>3
      <4> QED
        BY <4>1 DEF Before
    <3> QED
      BY <3>1, <3>2, <3>3, <1>1, <2>1
  <2> QED
    BY <2>1 DEF Rising
<1>4. \A n \in Nat : UpTo(s, n) /\ UpTo(t, n) => UpTo(s \o t, n)
  BY <1>1, <1>2 DEF UpTo
<1>5. \A u \in Seq(Nat) : Before(s, u) /\ Before(t, u) => Before(s \o t, u)
  BY <1>1, <1>2 DEF Before
<1> QED
  BY <1>1, <1>3, <1>4, <1>5

\* ... and of its beginning.
LEMMA ClippedRises ==
    ASSUME NEW s \in Seq(Nat), Rising(s)
    PROVE  /\ Clipped(s) \in Seq(Nat) /\ Len(Clipped(s)) <= MaxBytes /\ Rising(Clipped(s))
           /\ \A n \in Nat : UpTo(s, n) => UpTo(Clipped(s), n)
           /\ \A u \in Seq(Nat) : Before(s, u) => Before(Clipped(s), u)
<1>1. MaxBytes \in Nat /\ Len(s) \in Nat
  BY SizeAssumption DEF SizeAssumption
<1>2. CASE Len(s) > MaxBytes
  <2>1. /\ Clipped(s) \in Seq(Nat) /\ Len(Clipped(s)) = MaxBytes
        /\ \A k \in 1 .. MaxBytes : k \in 1 .. Len(s) /\ Clipped(s)[k] = s[k]
    BY <1>1, <1>2, PrefixTyped DEF Clipped
  <2> DEFINE t == Clipped(s)
  <2> HIDE DEF t
  <2>2. /\ t \in Seq(Nat) /\ Len(t) = MaxBytes
        /\ \A k \in 1 .. Len(t) : k \in 1 .. Len(s) /\ t[k] = s[k]
    BY <2>1, <1>1 DEF t
  <2>3. Rising(t)
    BY <2>2 DEF Rising
  <2>4. \A n \in Nat : UpTo(s, n) => UpTo(t, n)
    BY <2>2 DEF UpTo
  <2>5. \A u \in Seq(Nat) : Before(s, u) => Before(t, u)
    BY <2>2 DEF Before
  <2>6. Len(t) <= MaxBytes
    BY <2>2, <1>1
  <2> QED
    BY <2>2, <2>3, <2>4, <2>5, <2>6 DEF t
<1>3. CASE ~(Len(s) > MaxBytes)
  BY <1>1, <1>3 DEF Clipped
<1> QED
  BY <1>2, <1>3

\* The types of one response's bytes.
LEMMA ResponseTyped ==
    ASSUME TypeOK, NEW c \in Captures, NEW q \in Requests
    PROVE  /\ Body(c, q) \in Seq(Nat) /\ posted[c][q] \in Nat
           /\ chain[c][q] \in Seq(Seq(Nat)) /\ Len(chain[c][q]) \in Nat
           /\ DOMAIN chain[c][q] = 1 .. Len(chain[c][q])
           /\ \A k \in DOMAIN chain[c][q] : chain[c][q][k] \in Seq(Nat)
BY SizeAssumption DEF TypeOK, Body, SizeAssumption

\* The bytes stay in order when nothing happens to them, ...
LEMMA StillsRises ==
    ASSUME TypeOK, NEW c \in Captures, NEW q \in Requests, ResponseInv(c, q), Stills(c, q)
    PROVE  ResponseInv(c, q)'
<1>1. BodyRises(c, q)' /\ ChainRises(c, q)'
  BY DEF ResponseInv, Stills, BodyKept, ChainKept, BodyRises, ChainRises
<1>2. ASSUME NEW e \in (flight \cup held)' PROVE SentRises(c, q, e)'
  <2>1. Sent(c, q, e) => e \in flight \cup held
    BY <1>2 DEF Stills, NoneSent
  <2> QED
    BY <2>1 DEF ResponseInv, Stills, BodyKept, ChainKept, SentRises, Sent
<1>3. ASSUME NEW e \in (flight \cup held)', NEW f \in (flight \cup held)' PROVE OneSent(c, q, e, f)'
  BY <1>3 DEF ResponseInv, Stills, NoneSent, OneSent
<1> QED
  BY <1>1, <1>2, <1>3 DEF ResponseInv

\* ... when a chunk is queued, ...
LEMMA QueuesRises ==
    ASSUME TypeOK, TypeOK', NEW c \in Captures, NEW q \in Requests, ResponseInv(c, q), Queues(c, q)
    PROVE  ResponseInv(c, q)'
<1> DEFINE ch == chain[c][q]
           m == posted[c][q]
           n == posted'[c][q]
           bd == Body(c, q)
<1>0. /\ bd \in Seq(Nat) /\ m \in Nat /\ n \in Nat /\ m <= n /\ ch \in Seq(Seq(Nat)) /\ Body(c, q)' = bd
      /\ \A k \in DOMAIN ch : ch[k] \in Seq(Nat)
  <2>1. n \in Nat
    BY SizeAssumption DEF TypeOK, SizeAssumption
  <2> QED
    BY <2>1, ResponseTyped DEF Queues, BodyKept
<1>1. ASSUME NEW x \in Seq(Nat), UpTo(x, m) PROVE UpTo(x, n)
  BY <1>0, <1>1 DEF UpTo
<1>2. \A e \in (flight \cup held)' : Sent(c, q, e) => e \in flight \cup held /\ SentRises(c, q, e) /\ e.bytes \in Seq(Nat)
  BY HeldTyped DEF Queues, NoneSent, ResponseInv
<1>3. ASSUME NEW e \in (flight \cup held)', NEW f \in (flight \cup held)' PROVE OneSent(c, q, e, f)'
  BY <1>3 DEF ResponseInv, Queues, NoneSent, OneSent
<1>4. CASE chain'[c][q] = ch
  <2>1. BodyRises(c, q)'
    BY <1>0, <1>1, <1>4 DEF ResponseInv, BodyRises
  <2>2. ChainRises(c, q)'
    BY <1>0, <1>1, <1>4 DEF ResponseInv, ChainRises
  <2>3. \A e \in (flight \cup held)' : SentRises(c, q, e)'
    BY <1>0, <1>1, <1>2, <1>4 DEF SentRises, Sent
  <2> QED
    BY <2>1, <2>2, <2>3, <1>3 DEF ResponseInv
<1>5. ASSUME NEW s \in Seq(Nat), Later(s, m, n), chain'[c][q] = Append(ch, s)
      PROVE  ResponseInv(c, q)'
  <2>1. /\ Len(ch) \in Nat /\ DOMAIN ch = 1 .. Len(ch)
        /\ DOMAIN Append(ch, s) = 1 .. (Len(ch) + 1) /\ Append(ch, s)[Len(ch) + 1] = s
        /\ \A k \in 1 .. Len(ch) : Append(ch, s)[k] = ch[k]
    BY <1>0
  <2>2. \A x \in Seq(Nat) : UpTo(x, m) => Before(x, s)
    BY <1>0, <1>5 DEF UpTo, Later, Before
  <2>3. Rising(s) /\ UpTo(s, n)
    BY <1>5 DEF Later
  <2>4. \A k \in 1 .. (Len(ch) + 1) : k \in 1 .. Len(ch) \/ k = Len(ch) + 1
    BY <2>1
  <2> HIDE DEF ch, m, n, bd
  <2>5. BodyRises(c, q)'
    BY <1>0, <1>1, <1>5, <2>1, <2>2, <2>4 DEF ResponseInv, BodyRises, ch, m, n, bd
  <2>6. ChainRises(c, q)'
    <3> DEFINE nw == Append(ch, s)
    <3>1. /\ DOMAIN nw = 1 .. (Len(ch) + 1) /\ nw[Len(ch) + 1] = s /\ chain'[c][q] = nw
          /\ \A k \in 1 .. Len(ch) : nw[k] = ch[k]
      BY <2>1, <1>5
    <3> HIDE DEF nw
    <3>2. \A k \in 1 .. Len(ch) : Rising(ch[k]) /\ UpTo(ch[k], n) /\ Before(ch[k], s)
      BY <1>0, <1>1, <2>1, <2>2 DEF ResponseInv, ChainRises, ch, m
    <3>3. \A k, j \in 1 .. Len(ch) : j < k => Before(ch[j], ch[k])
      BY <2>1 DEF ResponseInv, ChainRises, ch
    <3>4. \A k \in 1 .. (Len(ch) + 1) : Rising(nw[k]) /\ UpTo(nw[k], n)
      BY <2>3, <2>4, <3>1, <3>2
    <3>5. \A j, k \in 1 .. (Len(ch) + 1) : j < k => j \in 1 .. Len(ch)
      BY <2>1
    <3>6. \A k, j \in 1 .. (Len(ch) + 1) : j < k => Before(nw[j], nw[k])
      BY <2>4, <3>1, <3>2, <3>3, <3>5
    <3> QED
      BY <3>1, <3>4, <3>6 DEF ChainRises, n
  <2>7. ASSUME NEW e \in (flight \cup held)' PROVE SentRises(c, q, e)'
    BY <1>0, <1>1, <1>2, <1>5, <2>1, <2>2, <2>4 DEF SentRises, Sent, ch, m, n, bd
  <2> QED
    BY <2>5, <2>6, <2>7, <1>3 DEF ResponseInv
<1> QED
  BY <1>4, <1>5 DEF Queues

\* ... when one is posted ...
LEMMA PostsRises ==
    ASSUME TypeOK, NEW c \in Captures, NEW q \in Requests, ResponseInv(c, q), Posts(c, q)
    PROVE  ResponseInv(c, q)'
<1> DEFINE ch == chain[c][q]
           g == Event(c, "chunk", q, Head(ch))
<1>1. /\ ch \in Seq(Seq(Nat)) /\ ch # << >> /\ chain'[c][q] = Tail(ch)
      /\ Body(c, q)' = Body(c, q) /\ posted'[c][q] = posted[c][q]
  BY ResponseTyped DEF Posts, BodyKept
<1>2. /\ Len(ch) \in Nat /\ DOMAIN ch = 1 .. Len(ch) /\ 1 \in DOMAIN ch /\ Head(ch) = ch[1]
      /\ DOMAIN Tail(ch) = 1 .. (Len(ch) - 1)
      /\ \A k \in 1 .. (Len(ch) - 1) : Tail(ch)[k] = ch[k + 1] /\ k + 1 \in 1 .. Len(ch)
  BY <1>1
<1>3. \A e \in (flight \cup held)' : Sent(c, q, e) => e = g /\ g \in flight' /\ g \notin held'
  BY DEF Posts, Sent, Event
<1> HIDE DEF ch
<1>4. /\ Rising(g.bytes) /\ UpTo(g.bytes, posted[c][q]) /\ Before(Body(c, q), g.bytes)
      /\ \A k \in 1 .. (Len(ch) - 1) : Before(g.bytes, ch[k + 1])
  <2>1. g.bytes = ch[1]
    BY <1>2 DEF Event
  <2>2. \A k \in 1 .. (Len(ch) - 1) : 1 < k + 1
    BY <1>2
  <2> QED
    BY <1>2, <2>1, <2>2 DEF ResponseInv, BodyRises, ChainRises, ch
<1> HIDE DEF g
<1>5. BodyRises(c, q)'
  BY <1>1, <1>2 DEF ResponseInv, BodyRises, ch
<1>6. ChainRises(c, q)'
  <2>1. \A j, k \in 1 .. (Len(ch) - 1) : j < k => j + 1 < k + 1
    BY <1>2
  <2> DEFINE t == Tail(ch)
  <2>2. /\ DOMAIN t = 1 .. (Len(ch) - 1) /\ chain'[c][q] = t
        /\ \A k \in 1 .. (Len(ch) - 1) : t[k] = ch[k + 1] /\ k + 1 \in DOMAIN ch
    BY <1>1, <1>2
  <2> HIDE DEF t
  <2> QED
    BY <1>1, <2>1, <2>2 DEF ResponseInv, ChainRises, ch
<1>7. ASSUME NEW e \in (flight \cup held)' PROVE SentRises(c, q, e)'
  BY <1>1, <1>2, <1>3, <1>4 DEF SentRises, Sent
<1>8. ASSUME NEW e \in (flight \cup held)', NEW f \in (flight \cup held)' PROVE OneSent(c, q, e, f)'
  BY <1>3, <1>8 DEF OneSent
<1> QED
  BY <1>5, <1>6, <1>7, <1>8 DEF ResponseInv

\* ... and when it is applied.
LEMMA AppliesRises ==
    ASSUME TypeOK, NEW c \in Captures, NEW q \in Requests, ResponseInv(c, q), Applies(c, q)
    PROVE  ResponseInv(c, q)'
<1>1. PICK e \in held : /\ Sent(c, q, e) /\ held' = held \ {e} /\ flight' = flight
                        /\ Body(c, q)' = Clipped(Body(c, q) \o e.bytes)
  BY DEF Applies
<1>2. ChainKept(c, q) /\ ChainRises(c, q) /\ BodyRises(c, q) /\ SentRises(c, q, e)
  BY DEF Applies, ResponseInv
<1>3. /\ e.bytes \in Seq(Nat) /\ Body(c, q) \in Seq(Nat) /\ posted[c][q] \in Nat
      /\ \A k \in DOMAIN chain[c][q] : chain[c][q][k] \in Seq(Nat)
  BY HeldTyped, ResponseTyped
<1>4. ASSUME NEW f \in (flight \cup held)' PROVE ~Sent(c, q, f)
  BY <1>1 DEF ResponseInv, OneSent
<1>5. ChainRises(c, q)'
  BY <1>2 DEF ChainRises, ChainKept
<1>6. BodyRises(c, q)'
  <2> DEFINE w == Body(c, q) \o e.bytes
  <2>1. w \in Seq(Nat) /\ Rising(w) /\ UpTo(w, posted[c][q])
    BY <1>1, <1>2, <1>3, ConcatRises DEF BodyRises, SentRises
  <2>2. \A k \in DOMAIN chain[c][q] : Before(w, chain[c][q][k])
    BY <1>1, <1>2, <1>3, ConcatRises DEF BodyRises, SentRises
  <2> HIDE DEF w
  <2>3. /\ Len(Clipped(w)) <= MaxBytes /\ Rising(Clipped(w)) /\ UpTo(Clipped(w), posted[c][q])
        /\ \A k \in DOMAIN chain[c][q] : Before(Clipped(w), chain[c][q][k])
    BY <2>1, <2>2, <1>3, ClippedRises
  <2>4. Body(c, q)' = Clipped(w)
    BY <1>1 DEF w
  <2> QED
    BY <2>3, <2>4, <1>2 DEF BodyRises, ChainKept
<1> QED
  BY <1>4, <1>5, <1>6 DEF ResponseInv, SentRises, OneSent

\* Every step keeps the bytes of every response in order.
LEMMA BytesStep ==
    TypeOK /\ TypeOK' /\ EventsFit /\ PostedIsRead /\ BytesInv /\ [Next]_vars => BytesInv'
<1> SUFFICES ASSUME TypeOK, TypeOK', EventsFit, PostedIsRead, BytesInv, [Next]_vars,
                    NEW c \in Captures, NEW q \in Requests
             PROVE  ResponseInv(c, q)'
  BY DEF BytesInv
<1>1. ResponseInv(c, q)
  BY DEF BytesInv
<1> QED
  BY <1>1, BytesEffect, StillsRises, QueuesRises, PostsRises, AppliesRises

-----------------------------------------------------------------------------
(* Page bodies                                                             *)

\* Every step is one of these, for each page body and capture.
LEMMA PagesEffect ==
    ASSUME TypeOK, CallsFit, EventsFit, PagesInv, NEW d \in Captures, NEW g \in Bodies, [Next]_vars
    PROVE  Rests(d, g) \/ Comes(d, g) \/ Joins(d, g) \/ Leaves(d, g)
<1>1. \A e \in flight \cup held : PageOnce(d, g, e)
  BY DEF PagesInv, PageInv
<1>2. /\ entries \in [Captures -> [Requests -> [url : BOOLEAN, body : Seq(Nat), page : SUBSET Bodies]]]
      /\ net \in [Requests \cup Bodies -> [begun : BOOLEAN, got : Nat, ended : BOOLEAN]] /\ g \notin Requests
      /\ pending \in [Captures -> Seq(Bodies)]
  BY IdsAssumption DEF TypeOK, IdsAssumption
<1>3. ASSUME NEW b \in Bodies, PageResponse(b)
      PROVE  Rests(d, g) \/ Comes(d, g) \/ Joins(d, g) \/ Leaves(d, g)
  <2>1. CASE b = g
    <3>1. net[g].begun = FALSE /\ net'[g].begun = TRUE
      BY <1>3, <2>1, <1>1, <1>2 DEF PageResponse
    <3> QED
      BY <1>3, <2>1, <3>1 DEF PageResponse, Post, Comes, PagesKept, Came, Event,
                              stateVars
  <2>2. CASE b # g
    <3>1. net'[g] = net[g]
      BY <1>3, <2>2, <1>1, <1>2 DEF PageResponse
    <3> QED
      BY <1>3, <2>2, <3>1, <1>1, <1>2 DEF PageResponse, Post, Rests, NoneCame,
                                          PagesKept, BegunKept, PageOnce, Came,
                                          Event, stateVars
  <2> QED
    BY <2>1, <2>2
<1>4. ASSUME NEW e \in flight \cup held, ApplyChunk(e)
      PROVE  Rests(d, g) \/ Comes(d, g) \/ Joins(d, g) \/ Leaves(d, g)
  <2>0. e.cap \in Captures /\ e.item \in Requests /\ e.bytes \in Seq(Nat) /\ e.kind = "chunk" /\ e \in held
    BY <1>4, HeldTyped DEF EventsFit, ApplyChunk
  <2> DEFINE s == Clipped(Body(e.cap, e.item) \o e.bytes)
  <2>1. entries' = [entries EXCEPT ![e.cap][e.item].body = s]
    BY <1>4 DEF ApplyChunk, Clipped, Body
  <2> HIDE DEF s
  <2>2. PagesKept(d)
    BY <2>0, <2>1, <1>1, <1>2 DEF PagesKept
  <2> QED
    BY <1>4, <2>2, <1>1, <1>2 DEF ApplyChunk, Rests, NoneCame, BegunKept, PageOnce,
                                  Came, netVars
<1>5. ASSUME NEW e \in flight \cup held, ApplyBodyObserved(e)
      PROVE  Rests(d, g) \/ Comes(d, g) \/ Joins(d, g) \/ Leaves(d, g)
  <2>0. e.cap \in Captures /\ e.item \in Bodies /\ e.kind = "page" /\ e \in held
    BY <1>5, HeldTyped DEF EventsFit, ApplyBodyObserved
  <2>1. CASE e.cap = d
    <3>1. pending'[d] = Append(pending[d], e.item)
      BY <1>5, <2>1, <1>1, <1>2 DEF ApplyBodyObserved
    <3> QED
      BY <1>5, <2>0, <2>1, <3>1 DEF ApplyBodyObserved, Joins, PagesKept, BegunKept,
                                    netVars
  <2>2. CASE e.cap # d
    <3>1. pending'[d] = pending[d]
      BY <1>5, <2>2, <1>1, <1>2 DEF ApplyBodyObserved
    <3> QED
      BY <1>5, <2>2, <3>1, <1>1, <1>2 DEF ApplyBodyObserved, Rests, NoneCame,
                                          PagesKept, BegunKept, PageOnce, Came,
                                          netVars
  <2> QED
    BY <2>1, <2>2
<1>6. ASSUME NEW p \in Stops, StopFinalize(p)
      PROVE  Rests(d, g) \/ Comes(d, g) \/ Joins(d, g) \/ Leaves(d, g)
  <2> DEFINE c == target[p]
             gain(q) == UNION {Match(c, k) : k \in {j \in 1 .. Len(order[c]) : order[c][j] = q}}
             m(q) == [entries[c][q] EXCEPT !.page = @ \cup gain(q)]
  <2>1. entries' = [entries EXCEPT ![c] = [q \in Requests |-> m(q)]] /\ pending' = [pending EXCEPT ![c] = << >>]
    BY <1>6 DEF StopFinalize, Merge
  <2>2. NoneCame(d, g) /\ BegunKept(g)
    BY <1>6, <1>1, <1>2 DEF StopFinalize, NoneCame, BegunKept, PageOnce, eventVars,
                            netVars
  <2>3. c \in Captures
    BY <1>6 DEF CallsFit, StopFits, StopFinalize, Goto
  <2>4. CASE c = d
    <3>1. \A q \in Requests : g \in gain(q) => Waits(d, g)
      BY <2>4 DEF Match, Fitting, Waits
    <3> HIDE DEF gain
    <3>2. \A q \in Requests : m(q).page = entries[d][q].page \cup gain(q)
      BY <2>4, <1>1, <1>2
    <3> HIDE DEF m, c
    <3>3. \A q \in Requests : entries'[d][q].page = entries[d][q].page \cup gain(q)
      BY <2>1, <2>3, <2>4, <3>2, <1>1, <1>2
    <3>4. pending'[d] = << >>
      BY <2>1, <2>3, <2>4, <1>1, <1>2
    <3> QED
      BY <2>2, <3>1, <3>3, <3>4 DEF Leaves
  <2>5. CASE c # d
    <3> HIDE DEF m, c
    <3>1. pending'[d] = pending[d] /\ PagesKept(d)
      BY <2>1, <2>5, <1>1, <1>2 DEF PagesKept
    <3> QED
      BY <2>2, <3>1 DEF Rests
  <2> QED
    BY <2>4, <2>5
<1>7. ASSUME NEW q \in Requests, BeginRequest(q)
      PROVE  Rests(d, g) \/ Comes(d, g) \/ Joins(d, g) \/ Leaves(d, g)
  BY <1>7, <1>1, <1>2 DEF Rests, NoneCame, PagesKept, BegunKept, PageOnce, Came,
                          Event, BeginRequest, Post, toolVars, stateVars, netVars,
                          eventVars
<1>8. ASSUME NEW q \in Requests, NEW n \in 1 .. Size[q], ResponseData(q, n)
      PROVE  Rests(d, g) \/ Comes(d, g) \/ Joins(d, g) \/ Leaves(d, g)
  BY <1>8, <1>1, <1>2 DEF Rests, NoneCame, PagesKept, BegunKept, PageOnce, Came,
                          Event, ResponseData, toolVars, stateVars, netVars,
                          eventVars
<1>9. ASSUME NEW q \in Requests, ResponseEnd(q)
      PROVE  Rests(d, g) \/ Comes(d, g) \/ Joins(d, g) \/ Leaves(d, g)
  BY <1>9, <1>1, <1>2 DEF Rests, NoneCame, PagesKept, BegunKept, PageOnce, Came,
                          Event, ResponseEnd, Post, toolVars, stateVars, netVars,
                          eventVars
<1>10. ASSUME NEW c \in Captures, NEW q \in Requests, PostChunk(c, q)
      PROVE  Rests(d, g) \/ Comes(d, g) \/ Joins(d, g) \/ Leaves(d, g)
  BY <1>10, <1>1, <1>2 DEF Rests, NoneCame, PagesKept, BegunKept, PageOnce, Came,
                           Event, PostChunk, Post, toolVars, stateVars, netVars,
                           eventVars
<1>11. ASSUME NEW e \in flight \cup held, EventLost(e)
      PROVE  Rests(d, g) \/ Comes(d, g) \/ Joins(d, g) \/ Leaves(d, g)
  BY <1>11, <1>1, <1>2 DEF Rests, NoneCame, PagesKept, BegunKept, PageOnce, Came,
                           Event, EventLost, toolVars, stateVars, netVars, eventVars
<1>12. ASSUME NEW e \in flight \cup held, RouteEvent(e)
      PROVE  Rests(d, g) \/ Comes(d, g) \/ Joins(d, g) \/ Leaves(d, g)
  BY <1>12, <1>1, <1>2 DEF Rests, NoneCame, PagesKept, BegunKept, PageOnce, Came,
                           Event, RouteEvent, toolVars, stateVars, netVars,
                           eventVars
<1>13. ASSUME NEW e \in flight \cup held, ApplyObserved(e)
      PROVE  Rests(d, g) \/ Comes(d, g) \/ Joins(d, g) \/ Leaves(d, g)
  BY <1>13, <1>1, <1>2 DEF Rests, NoneCame, PagesKept, BegunKept, PageOnce, Came,
                           Event, ApplyObserved, toolVars, stateVars, netVars,
                           eventVars
<1>14. CASE DataRest
  BY <1>14, <1>1, <1>2 DEF Rests, NoneCame, PagesKept, BegunKept, PageOnce, Came,
                           Event, DataRest, toolVars, stateVars, netVars, eventVars
<1> QED
  BY QuietSteps, <1>3, <1>4, <1>5, <1>6, <1>7, <1>8, <1>9, <1>10, <1>11, <1>12,
     <1>13, <1>14
     DEF Next, ToolStep, PageStep, HandlerStep

\* A page body is in one place when nothing happens to it, ...
LEMMA RestsOnce ==
    ASSUME TypeOK, NEW c \in Captures, NEW b \in Bodies, PageInv(c, b), Rests(c, b)
    PROVE  PageInv(c, b)'
<1>1. (Waits(c, b)' <=> Waits(c, b)) /\ (Paired(c, b)' <=> Paired(c, b))
  BY DEF Rests, PagesKept, Waits, Paired
<1>2. WaitsOnce(c, b)'
  BY <1>1 DEF PageInv, WaitsOnce, Rests, BegunKept
<1>3. ASSUME NEW e \in (flight \cup held)' PROVE PageOnce(c, b, e)'
  BY <1>1 DEF PageInv, PageOnce, Rests, NoneCame, BegunKept, Came
<1> QED
  BY <1>2, <1>3 DEF PageInv

\* ... when it comes, ...
LEMMA ComesOnce ==
    ASSUME TypeOK, NEW c \in Captures, NEW b \in Bodies, PageInv(c, b), Comes(c, b)
    PROVE  PageInv(c, b)'
<1>1. ~Waits(c, b) /\ ~Paired(c, b) /\ \A e \in flight \cup held : ~Came(c, b, e)
  BY DEF PageInv, WaitsOnce, PageOnce, Comes
<1>2. ~Waits(c, b)' /\ ~Paired(c, b)' /\ net'[b].begun
  BY <1>1 DEF Comes, PagesKept, Waits, Paired
<1>3. \A e \in (flight \cup held)' : Came(c, b, e) => e = Event(c, "page", b, << >>) /\ e \notin held'
  BY <1>1 DEF Comes
<1>4. WaitsOnce(c, b)'
  BY <1>2 DEF WaitsOnce, Waits
<1>5. ASSUME NEW e \in (flight \cup held)' PROVE PageOnce(c, b, e)'
  BY <1>2, <1>3 DEF PageOnce, Came, Event
<1> QED
  BY <1>4, <1>5 DEF PageInv

\* ... when one is added to those that are pending ...
LEMMA JoinsOnce ==
    ASSUME TypeOK, EventsFit, NEW c \in Captures, NEW b \in Bodies, PageInv(c, b), Joins(c, b)
    PROVE  PageInv(c, b)'
<1>1. PICK e \in held : /\ e.cap = c /\ e.kind = "page" /\ held' = held \ {e} /\ flight' = flight
                        /\ pending'[c] = Append(pending[c], e.item)
  BY DEF Joins
<1> DEFINE s == pending[c]
<1>2. s \in Seq(Bodies) /\ e.item \in Bodies /\ e \in Events
  BY <1>1 DEF TypeOK, EventsFit
<1>3. /\ Len(s) \in Nat /\ DOMAIN s = 1 .. Len(s)
      /\ DOMAIN pending'[c] = 1 .. (Len(s) + 1) /\ pending'[c][Len(s) + 1] = e.item
      /\ \A k \in 1 .. Len(s) : pending'[c][k] = s[k]
  BY <1>1, <1>2
<1>4. \A k \in 1 .. (Len(s) + 1) : k \in 1 .. Len(s) \/ k = Len(s) + 1
  BY <1>3
<1>5. Len(s) + 1 \in 1 .. (Len(s) + 1) /\ 1 .. Len(s) \subseteq 1 .. (Len(s) + 1)
  BY <1>3
<1> HIDE DEF s
<1>6. (Waits(c, b)' <=> Waits(c, b) \/ e.item = b) /\ (Paired(c, b)' <=> Paired(c, b))
  <2>1. Paired(c, b)' <=> Paired(c, b)
    BY DEF Joins, PagesKept, Paired
  <2>2. Waits(c, b)' <=> \E k \in 1 .. (Len(s) + 1) : pending'[c][k] = b
    BY <1>3 DEF Waits
  <2>3. Waits(c, b) <=> \E k \in 1 .. Len(s) : s[k] = b
    BY <1>3 DEF Waits, s
  <2>4. Waits(c, b)' <=> Waits(c, b) \/ e.item = b
    BY <1>3, <1>4, <1>5, <2>2, <2>3
  <2> QED
    BY <2>1, <2>4
<1>7. CASE e.item = b
  <2>1. Came(c, b, e) /\ PageOnce(c, b, e)
    BY <1>1, <1>7 DEF Came, PageInv
  <2>2. ASSUME NEW f \in (flight \cup held)' PROVE ~Came(c, b, f)
    <3>1. CASE Came(c, b, f)
      <4>1. PageOnce(c, b, f) /\ f \in Events
        BY <1>1, <2>2 DEF PageInv, TypeOK
      <4>2. f = e
        BY <1>2, <2>1, <3>1, <4>1 DEF Came, PageOnce, Events
      <4> QED
        BY <1>1, <2>1, <2>2, <4>2 DEF PageOnce
    <3> QED
      BY <3>1
  <2>3. ~Waits(c, b) /\ ~Paired(c, b) /\ net'[b].begun
    BY <2>1 DEF PageOnce, Joins, BegunKept
  <2>4. \A k \in 1 .. Len(s) : s[k] # b
    BY <1>3, <2>3 DEF Waits, s
  <2>5. \A j, k \in DOMAIN pending'[c] : pending'[c][j] = b /\ pending'[c][k] = b => j = k
    BY <1>3, <1>4, <2>4
  <2> QED
    BY <1>6, <2>2, <2>3, <2>5 DEF PageInv, WaitsOnce, PageOnce
<1>8. CASE e.item # b
  <2>1. (Waits(c, b)' <=> Waits(c, b)) /\ (Paired(c, b)' <=> Paired(c, b)) /\ BegunKept(b)
    BY <1>6, <1>8 DEF Joins
  <2>2. \A j, k \in DOMAIN pending'[c] : pending'[c][j] = b /\ pending'[c][k] = b => j = k
    BY <1>3, <1>4, <1>8 DEF PageInv, WaitsOnce, s
  <2>3. ASSUME NEW f \in (flight \cup held)' PROVE PageOnce(c, b, f)'
    BY <1>1, <2>1 DEF PageInv, PageOnce, BegunKept, Came
  <2> QED
    BY <2>1, <2>2, <2>3 DEF PageInv, WaitsOnce, BegunKept
<1> QED
  BY <1>7, <1>8

\* ... and when these are merged.
LEMMA LeavesOnce ==
    ASSUME TypeOK, NEW c \in Captures, NEW b \in Bodies, PageInv(c, b), Leaves(c, b)
    PROVE  PageInv(c, b)'
<1>1. pending'[c] = << >> /\ ~Waits(c, b)'
  BY DEF Leaves, Waits
<1>2. Paired(c, b)' => Paired(c, b) \/ Waits(c, b)
  BY DEF Leaves, Paired
<1>3. WaitsOnce(c, b)'
  BY <1>1, <1>2 DEF PageInv, WaitsOnce, Leaves, BegunKept
<1>4. ASSUME NEW e \in (flight \cup held)' PROVE PageOnce(c, b, e)'
  BY <1>1, <1>2 DEF PageInv, PageOnce, Leaves, NoneCame, BegunKept, Came
<1> QED
  BY <1>3, <1>4 DEF PageInv

\* A request is added to the order if it is not there, ...
LEMMA EnsureOnce ==
    ASSUME TypeOK, NEW d \in Captures, NEW c \in Captures, NEW q \in Requests,
           SeenOnce(d), Ensure(c, q)
    PROVE  SeenOnce(d)'
<1>1. CASE order'[d] = order[d]
  BY <1>1 DEF SeenOnce
<1>2. CASE c = d /\ ~Seen(d, q) /\ order'[d] = Append(order[d], q)
  <2> DEFINE s == order[d]
  <2>1. s \in Seq(Requests)
    BY DEF TypeOK
  <2>2. /\ Len(s) \in Nat /\ DOMAIN s = 1 .. Len(s)
        /\ DOMAIN Append(s, q) = 1 .. (Len(s) + 1) /\ Append(s, q)[Len(s) + 1] = q
        /\ \A k \in 1 .. Len(s) : Append(s, q)[k] = s[k]
    BY <2>1
  <2>3. \A k \in 1 .. (Len(s) + 1) : k \in 1 .. Len(s) \/ k = Len(s) + 1
    BY <2>2
  <2>4. \A k \in 1 .. Len(s) : s[k] # q
    BY <1>2 DEF Seen
  <2>5. \A j, k \in 1 .. Len(s) : s[j] = s[k] => j = k
    BY <2>2 DEF SeenOnce
  <2> HIDE DEF s
  <2>6. \A j, k \in 1 .. (Len(s) + 1) : Append(s, q)[j] = Append(s, q)[k] => j = k
    BY <2>2, <2>3, <2>4, <2>5
  <2> QED
    BY <1>2, <2>2, <2>6 DEF SeenOnce, s
<1> QED
  BY <1>1, <1>2 DEF Ensure, TypeOK

\* ... so every step leaves it there once.
LEMMA SeenOnceStep ==
    ASSUME TypeOK, EventsFit, PagesInv, NEW d \in Captures, [Next]_vars
    PROVE  SeenOnce(d)'
<1>1. SeenOnce(d)
  BY DEF PagesInv
<1>2. ASSUME NEW e \in flight \cup held, ApplyObserved(e)
      PROVE  SeenOnce(d)'
  <2>1. e.cap \in Captures /\ e.item \in Requests
    BY <1>2, HeldTyped DEF EventsFit, ApplyObserved
  <2> QED
    BY <1>2, <1>1, <2>1, EnsureOnce DEF ApplyObserved
<1>3. ASSUME NEW e \in flight \cup held, ApplyChunk(e)
      PROVE  SeenOnce(d)'
  <2>1. e.cap \in Captures /\ e.item \in Requests
    BY <1>3, HeldTyped DEF EventsFit, ApplyChunk
  <2> QED
    BY <1>3, <1>1, <2>1, EnsureOnce DEF ApplyChunk
<1>4. ASSUME NEW q \in Requests, BeginRequest(q) \/ ResponseEnd(q)
      PROVE  SeenOnce(d)'
  BY <1>4, <1>1 DEF SeenOnce, BeginRequest, Post, ResponseEnd, toolVars, stateVars,
                    netVars, eventVars
<1>5. ASSUME NEW q \in Requests, NEW n \in 1 .. Size[q], ResponseData(q, n)
      PROVE  SeenOnce(d)'
  BY <1>5, <1>1 DEF SeenOnce, ResponseData, toolVars, stateVars, netVars, eventVars
<1>6. ASSUME NEW c \in Captures, NEW q \in Requests, PostChunk(c, q)
      PROVE  SeenOnce(d)'
  BY <1>6, <1>1 DEF SeenOnce, PostChunk, Post, toolVars, stateVars, netVars,
                    eventVars
<1>7. ASSUME NEW b \in Bodies, PageResponse(b)
      PROVE  SeenOnce(d)'
  BY <1>7, <1>1 DEF SeenOnce, PageResponse, Post, toolVars, stateVars, netVars,
                    eventVars
<1>8. ASSUME NEW e \in flight \cup held, EventLost(e) \/ RouteEvent(e)
             \/ ApplyBodyObserved(e)
      PROVE  SeenOnce(d)'
  BY <1>8, <1>1 DEF SeenOnce, EventLost, RouteEvent, ApplyBodyObserved, toolVars,
                    stateVars, netVars, eventVars
<1>9. ASSUME NEW p \in Stops, StopFinalize(p)
      PROVE  SeenOnce(d)'
  BY <1>9, <1>1 DEF SeenOnce, StopFinalize, Goto, Merge, toolVars, stateVars,
                    netVars, eventVars
<1>10. CASE DataRest
  BY <1>10, <1>1 DEF SeenOnce, DataRest, toolVars, stateVars, netVars, eventVars
<1> QED
  BY QuietSteps, <1>2, <1>3, <1>4, <1>5, <1>6, <1>7, <1>8, <1>9, <1>10
     DEF Next, ToolStep, PageStep, HandlerStep

\* A body is merged into a request of its method and URL.
LEMMA FitsStep ==
    ASSUME TypeOK, CallsFit, EventsFit, PagesInv, NEW d \in Captures, NEW r \in Requests, NEW g \in Bodies, [Next]_vars
    PROVE  Fits(d, r, g)'
<1>1. Fits(d, r, g)
  BY DEF PagesInv
<1>2. entries \in [Captures -> [Requests -> [url : BOOLEAN, body : Seq(Nat), page : SUBSET Bodies]]]
  BY DEF TypeOK
<1>3. ASSUME NEW p \in Stops, StopFinalize(p)
      PROVE  Fits(d, r, g)'
  <2> DEFINE c == target[p]
             gain(q) == UNION {Match(c, k) : k \in {j \in 1 .. Len(order[c]) : order[c][j] = q}}
             m(q) == [entries[c][q] EXCEPT !.page = @ \cup gain(q)]
  <2>1. entries' = [entries EXCEPT ![c] = [q \in Requests |-> m(q)]]
    BY <1>3 DEF StopFinalize, Merge
  <2>2. c \in Captures
    BY <1>3 DEF CallsFit, StopFits, StopFinalize, Goto
  <2>3. g \in gain(r) => Url[g] = Url[r]
    BY DEF Match, Fitting
  <2>4. m(r).page = entries[c][r].page \cup gain(r)
    BY <2>2, <1>1, <1>2
  <2> HIDE DEF m, c, gain
  <2>5. entries'[d][r].page = entries[d][r].page \/ (c = d /\ entries'[d][r].page = entries[d][r].page \cup gain(r))
    BY <2>1, <2>2, <2>4, <1>1, <1>2
  <2> QED
    BY <2>3, <2>5, <1>1, <1>2 DEF Fits
<1>4. ASSUME NEW e \in flight \cup held, ApplyObserved(e)
      PROVE  Fits(d, r, g)'
  BY <1>4, <1>1, <1>2 DEF Fits, ApplyObserved, toolVars, stateVars, netVars,
                          eventVars
<1>5. ASSUME NEW e \in flight \cup held, ApplyChunk(e)
      PROVE  Fits(d, r, g)'
  <2>0. e.cap \in Captures /\ e.item \in Requests /\ e.bytes \in Seq(Nat) /\ e.kind = "chunk" /\ e \in held
    BY <1>5, HeldTyped DEF EventsFit, ApplyChunk
  <2> DEFINE s == Clipped(Body(e.cap, e.item) \o e.bytes)
  <2>1. entries' = [entries EXCEPT ![e.cap][e.item].body = s]
    BY <1>5 DEF ApplyChunk, Clipped, Body
  <2> HIDE DEF s
  <2>2. entries'[d][r].page = entries[d][r].page
    BY <2>0, <2>1, <1>1, <1>2
  <2> QED
    BY <2>2, <1>1, <1>2 DEF Fits
<1>6. ASSUME NEW q \in Requests, BeginRequest(q) \/ ResponseEnd(q)
      PROVE  Fits(d, r, g)'
  BY <1>6, <1>1, <1>2 DEF Fits, BeginRequest, Post, ResponseEnd, toolVars,
                          stateVars, netVars, eventVars
<1>7. ASSUME NEW q \in Requests, NEW n \in 1 .. Size[q], ResponseData(q, n)
      PROVE  Fits(d, r, g)'
  BY <1>7, <1>1, <1>2 DEF Fits, ResponseData, toolVars, stateVars, netVars,
                          eventVars
<1>8. ASSUME NEW c \in Captures, NEW q \in Requests, PostChunk(c, q)
      PROVE  Fits(d, r, g)'
  BY <1>8, <1>1, <1>2 DEF Fits, PostChunk, Post, toolVars, stateVars, netVars,
                          eventVars
<1>9. ASSUME NEW b \in Bodies, PageResponse(b)
      PROVE  Fits(d, r, g)'
  BY <1>9, <1>1, <1>2 DEF Fits, PageResponse, Post, toolVars, stateVars, netVars,
                          eventVars
<1>10. ASSUME NEW e \in flight \cup held, EventLost(e) \/ RouteEvent(e)
              \/ ApplyBodyObserved(e)
      PROVE  Fits(d, r, g)'
  BY <1>10, <1>1, <1>2 DEF Fits, EventLost, RouteEvent, ApplyBodyObserved, toolVars,
                           stateVars, netVars, eventVars
<1>11. CASE DataRest
  BY <1>11, <1>1, <1>2 DEF Fits, DataRest, toolVars, stateVars, netVars, eventVars
<1> QED
  BY QuietSteps, <1>3, <1>4, <1>5, <1>6, <1>7, <1>8, <1>9, <1>10, <1>11
     DEF Next, ToolStep, PageStep, HandlerStep

\* Every step keeps the page bodies and the order.
LEMMA PagesStep == TypeOK /\ CallsFit /\ EventsFit /\ PagesInv /\ [Next]_vars => PagesInv'
<1> SUFFICES ASSUME TypeOK, CallsFit, EventsFit, PagesInv, [Next]_vars PROVE PagesInv'
  OBVIOUS
<1>1. ASSUME NEW c \in Captures, NEW b \in Bodies PROVE PageInv(c, b)'
  <2>1. PageInv(c, b)
    BY DEF PagesInv
  <2> QED
    BY <2>1, PagesEffect, RestsOnce, ComesOnce, JoinsOnce, LeavesOnce
<1> QED
  BY <1>1, SeenOnceStep, FitsStep DEF PagesInv

-----------------------------------------------------------------------------
(* What a stop returns                                                     *)

\* The place of an index among positions is a place there is, and its own.
LEMMA PlaceIsOwn ==
    ASSUME NEW n \in Nat, NEW P \in SUBSET (1 .. n), NEW j \in P
    PROVE  /\ Place(j, P) \in 1 .. Cardinality(P)
           /\ \A k \in P : Place(k, P) = Place(j, P) => k = j
<1> DEFINE upto(k) == {i \in P : i <= k}
<1>1. ASSUME NEW k \in P
      PROVE  /\ IsFiniteSet(upto(k)) /\ Cardinality(upto(k)) \in Nat /\ Cardinality(P) \in Nat
             /\ Cardinality(upto(k)) <= Cardinality(P)
  <2>1. IsFiniteSet(P) /\ Cardinality(P) \in Nat
    BY PlacesFinite
  <2>2. upto(k) \in SUBSET P
    OBVIOUS
  <2> HIDE DEF upto
  <2> QED
    BY <2>1, <2>2, FS_Subset, FS_CardinalityType
<1>2. Cardinality(upto(j)) # 0
  BY <1>1, FS_EmptySet
<1>3. ASSUME NEW i \in P, NEW k \in P, Cardinality(upto(i)) = Cardinality(upto(k)), i < k
      PROVE  FALSE
  <2>0. \A x \in P : x \in Int
    OBVIOUS
  <2>1. ASSUME NEW x \in upto(i) PROVE x \in upto(k)
    BY <1>3, <2>0, <2>1
  <2>2. k \in upto(k) /\ k \notin upto(i)
    BY <1>3, <2>0
  <2> HIDE DEF upto
  <2> QED
    BY <1>1, <1>3, <2>1, <2>2, FS_Subset
<1>4. \A k \in P : k < j \/ j < k \/ j = k
  OBVIOUS
<1> QED
  BY <1>1, <1>2, <1>3, <1>4 DEF Place

\* Two positions of the order that take the same pending body are one.
LEMMA MatchIsOwn ==
    ASSUME BufferTypes, NEW c \in Captures, NEW b \in Bodies, WaitsOnce(c, b),
           NEW k \in DOMAIN order[c], NEW l \in DOMAIN order[c], b \in Match(c, k), b \in Match(c, l)
    PROVE  k = l
<1> DEFINE Taken(m, j) ==
             /\ j \in Fitting(c, order[c][m]) /\ b = pending[c][j] /\ Needs(c, order[c][m])
             /\ Place(j, Fitting(c, order[c][m])) = Place(m, Rivals(c, order[c][m]))
<1>1. PICK i \in DOMAIN pending[c] : Taken(k, i)
  BY DEF Match, Fitting
<1>2. PICK j \in DOMAIN pending[c] : Taken(l, j)
  BY DEF Match, Fitting
<1>3. i = j
  BY <1>1, <1>2 DEF WaitsOnce
<1>4. Url[order[c][k]] = Url[order[c][l]]
  BY <1>1, <1>2, <1>3 DEF Fitting
<1>5. Fitting(c, order[c][k]) = Fitting(c, order[c][l]) /\ Rivals(c, order[c][k]) = Rivals(c, order[c][l])
  BY <1>4 DEF Fitting, Rivals
<1>6. k \in Rivals(c, order[c][k]) /\ l \in Rivals(c, order[c][k])
  BY <1>1, <1>2, <1>4 DEF Rivals
<1>7. Place(k, Rivals(c, order[c][k])) = Place(l, Rivals(c, order[c][k]))
  BY <1>1, <1>2, <1>3, <1>5
<1>8. Rivals(c, order[c][k]) \in SUBSET (1 .. Len(order[c])) /\ Len(order[c]) \in Nat
  BY BuffersAt DEF Rivals
<1> DEFINE R == Rivals(c, order[c][k])
<1> HIDE DEF R
<1>9. \A x, y \in R : Place(y, R) = Place(x, R) => y = x
  BY <1>8, PlaceIsOwn DEF R
<1> QED
  BY <1>6, <1>7, <1>9 DEF R

\* What a stop returns, envelope by envelope: the requests in their order, then the
\* bodies that found none.
LEMMA EnvelopesAre ==
    ASSUME BufferTypes, NEW c \in Captures
    PROVE  LET s == Envelopes(c) \o Synthesised(c)
               m == Len(order[c])
               u == Cardinality(Unmerged(c))
           IN  /\ m \in Nat /\ u \in Nat /\ DOMAIN s = 1 .. (m + u)
               /\ \A k \in 1 .. m : /\ s[k].request = {order[c][k]}
                                    /\ s[k].page = entries[c][order[c][k]].page \cup Match(c, k)
               /\ \A n \in 1 .. u :
                     /\ s[m + n].request = {}
                     /\ s[m + n].page = {pending[c][j] : j \in {i \in Unmerged(c) : Place(i, Unmerged(c)) = n}}
<1> DEFINE m == Len(order[c])
           u == Cardinality(Unmerged(c))
           f(k) == [request |-> {order[c][k]}, page |-> entries[c][order[c][k]].page \cup Match(c, k)]
           g(n) == [request |-> {}, page |-> {pending[c][j] : j \in {i \in Unmerged(c) : Place(i, Unmerged(c)) = n}}]
           s == [k \in 1 .. m |-> f(k)] \o [n \in 1 .. u |-> g(n)]
<1>1. m \in Nat /\ u \in Nat
  BY BuffersAt, PlacesFinite DEF Unmerged
<1>2. s = Envelopes(c) \o Synthesised(c)
  BY DEF Envelopes, Synthesised
<1>3. /\ \A k \in 1 .. m : f(k).request = {order[c][k]} /\ f(k).page = entries[c][order[c][k]].page \cup Match(c, k)
      /\ \A n \in 1 .. u : /\ g(n).request = {}
                           /\ g(n).page = {pending[c][j] : j \in {i \in Unmerged(c) : Place(i, Unmerged(c)) = n}}
  OBVIOUS
<1> HIDE DEF m, u, f, g
<1>4. DOMAIN s = 1 .. (m + u) /\ (\A k \in 1 .. m : s[k] = f(k)) /\ (\A n \in 1 .. u : s[m + n] = g(n))
  <2> DEFINE F == [k \in 1 .. m |-> f(k)]
             G == [n \in 1 .. u |-> g(n)]
             R == {f(k) : k \in 1 .. m} \cup {g(n) : n \in 1 .. u}
  <2>1. F \in Seq(R) /\ Len(F) = m /\ \A k \in 1 .. m : F[k] = f(k)
    BY <1>1
  <2>2. G \in Seq(R) /\ Len(G) = u /\ \A n \in 1 .. u : G[n] = g(n)
    BY <1>1
  <2> HIDE DEF F, G, R
  <2>3. /\ Len(F \o G) = m + u /\ DOMAIN (F \o G) = 1 .. (m + u)
        /\ \A k \in 1 .. (m + u) : (F \o G)[k] = IF k <= m THEN F[k] ELSE G[k - m]
    BY <1>1, <2>1, <2>2
  <2>4. /\ \A k \in 1 .. m : k \in 1 .. (m + u) /\ k <= m
        /\ \A n \in 1 .. u : m + n \in 1 .. (m + u) /\ ~(m + n <= m) /\ m + n - m = n
    BY <1>1
  <2>5. s = F \o G
    BY DEF F, G
  <2> HIDE DEF s
  <2> QED
    BY <2>1, <2>2, <2>3, <2>4, <2>5
<1> HIDE DEF s
<1> QED
  BY <1>1, <1>2, <1>3, <1>4 DEF m, u

\* Only its own finalising takes a stop from popped to done.
LEMMA DoneByFinalize ==
    ASSUME TypeOK, NEW s \in Stops, pc[s] = "popped", pc'[s] = "done", [Next]_vars
    PROVE  StopFinalize(s)
<1>1. pc \in [Calls -> {"idle", "checked", "entered", "called", "live", "failed", "popped", "done"}] /\ s \in Calls
  BY DEF TypeOK, Calls
<1>2. ASSUME NEW p \in Stops, StopFinalize(p)
      PROVE  StopFinalize(s)
  <2>1. CASE p = s
    BY <1>2, <2>1
  <2>2. CASE p # s
    BY <1>2, <2>2, <1>1 DEF StopFinalize, Goto
  <2> QED
    BY <2>1, <2>2
<1>3. ASSUME NEW c \in Captures, StartCheck(c)
      PROVE  StopFinalize(s)
  BY <1>3, <1>1, IdsAssumption DEF Calls, StartCheck, Goto, toolVars, stateVars,
                                   netVars, eventVars
<1>4. ASSUME NEW c \in Captures, StartRegister(c)
      PROVE  StopFinalize(s)
  BY <1>4, <1>1, IdsAssumption DEF Calls, StartRegister, Goto, toolVars, stateVars,
                                   netVars, eventVars
<1>5. ASSUME NEW c \in Captures, StartLeave(c)
      PROVE  StopFinalize(s)
  BY <1>5, <1>1, IdsAssumption DEF Calls, StartLeave, Goto, toolVars, stateVars,
                                   netVars, eventVars
<1>6. ASSUME NEW x \in Calls, Request(x)
      PROVE  StopFinalize(s)
  BY <1>6, <1>1, IdsAssumption DEF Calls, Request, Goto, Remote!Open, Remote!Refuse,
                                   toolVars, stateVars, netVars, eventVars
<1>7. ASSUME NEW x \in Calls, Answer(x)
      PROVE  StopFinalize(s)
  BY <1>7, <1>1, IdsAssumption DEF Calls, Answer, Remote!ReturnResult,
                                   Remote!RaiseRemoteError, Remote!GiveUp, toolVars,
                                   stateVars, netVars, eventVars
<1>8. ASSUME NEW p \in Stops, NEW c \in Captures, StopEnter(p, c)
      PROVE  StopFinalize(s)
  BY <1>8, <1>1, IdsAssumption DEF Calls, StopEnter, Goto, toolVars, stateVars,
                                   netVars, eventVars
<1>9. ASSUME NEW p \in Stops, StopPop(p)
      PROVE  StopFinalize(s)
  BY <1>9, <1>1, IdsAssumption DEF Calls, StopPop, Goto, toolVars, stateVars,
                                   netVars, eventVars
<1>10. ASSUME NEW c \in Captures, NEW how \in {"applied", "rejected"}, StartCapture(c, how)
      PROVE  StopFinalize(s)
  BY <1>10, <1>1, IdsAssumption DEF Calls, StartCapture, Remote!Execute, toolVars,
                                    stateVars, netVars, eventVars
<1>11. ASSUME NEW p \in Stops, StopCapture(p)
      PROVE  StopFinalize(s)
  BY <1>11, <1>1, IdsAssumption DEF Calls, StopCapture, Remote!Execute, toolVars,
                                    stateVars, netVars, eventVars
<1>12. CASE CallsRest
  BY <1>12, <1>1, IdsAssumption DEF Calls, CallsRest, toolVars, stateVars, netVars,
                                    eventVars
<1> QED
  BY QuietSteps, <1>2, <1>3, <1>4, <1>5, <1>6, <1>7, <1>8, <1>9, <1>10, <1>11, <1>12
     DEF Next, ToolStep, PageStep, HandlerStep

\* A request that was seen has one envelope, ...
LEMMA RequestHasOne ==
    ASSUME BufferTypes, NEW c \in Captures, SeenOnce(c), NEW q \in Requests, Seen(c, q)
    PROVE  LET s == Envelopes(c) \o Synthesised(c)
           IN  Cardinality({k \in DOMAIN s : q \in s[k].request}) = 1
<1> DEFINE s == Envelopes(c) \o Synthesised(c)
           m == Len(order[c])
           u == Cardinality(Unmerged(c))
           S == {k \in DOMAIN s : q \in s[k].request}
<1>1. /\ m \in Nat /\ u \in Nat /\ DOMAIN s = 1 .. (m + u)
      /\ \A k \in 1 .. m : s[k].request = {order[c][k]}
      /\ \A n \in 1 .. u : s[m + n].request = {}
  BY EnvelopesAre
<1>2. DOMAIN order[c] = 1 .. m
  BY BuffersAt
<1>3. PICK k \in 1 .. m : order[c][k] = q
  BY DEF Seen
<1> HIDE DEF s, m, u
<1>4. \A j \in 1 .. (m + u) : j \in 1 .. m \/ (j - m \in 1 .. u /\ j = m + (j - m))
  BY <1>1
<1>5. k \in 1 .. (m + u)
  BY <1>1
<1>6. S = {k}
  <2>1. k \in S
    BY <1>1, <1>3, <1>5
  <2>2. ASSUME NEW j \in S PROVE j = k
    <3>1. j \in 1 .. (m + u) /\ q \in s[j].request
      BY <1>1
    <3>2. j \in 1 .. m
      BY <1>1, <1>4, <3>1
    <3>3. order[c][j] = q
      BY <1>1, <3>1, <3>2
    <3> QED
      BY <1>2, <1>3, <3>2, <3>3 DEF SeenOnce
  <2> QED
    BY <2>1, <2>2
<1> HIDE DEF S
<1>7. Cardinality(S) = 1
  BY <1>6, FS_Singleton
<1> QED
  BY <1>7 DEF S, s

\* ... a pending body is in one, ...
LEMMA BodyHasOne ==
    ASSUME BufferTypes, NEW c \in Captures, NEW i \in DOMAIN pending[c], WaitsOnce(c, pending[c][i])
    PROVE  Cardinality(Places(Envelopes(c) \o Synthesised(c), pending[c][i])) = 1
<1> DEFINE s == Envelopes(c) \o Synthesised(c)
           b == pending[c][i]
           m == Len(order[c])
           u == Cardinality(Unmerged(c))
           S == {k \in DOMAIN s : b \in s[k].page}
           Own(n) == {pending[c][j] : j \in {l \in Unmerged(c) : Place(l, Unmerged(c)) = n}}
<1>1. /\ m \in Nat /\ u \in Nat /\ DOMAIN s = 1 .. (m + u)
      /\ \A k \in 1 .. m : s[k].page = entries[c][order[c][k]].page \cup Match(c, k)
      /\ \A n \in 1 .. u : s[m + n].page = Own(n)
  BY EnvelopesAre
<1>2. DOMAIN order[c] = 1 .. m /\ b \in Bodies /\ \A k \in 1 .. m : order[c][k] \in Requests
  BY BuffersAt
<1>3. \A k \in 1 .. m : b \notin entries[c][order[c][k]].page
  BY <1>2 DEF WaitsOnce, Waits, Paired
<1>4. \A j \in DOMAIN pending[c] : pending[c][j] = b => j = i
  BY DEF WaitsOnce
<1>5. Unmerged(c) \in SUBSET (1 .. Len(pending[c])) /\ Len(pending[c]) \in Nat
  BY BuffersAt DEF Unmerged
<1>6. \A n \in 1 .. u : b \in Own(n) => i \in Unmerged(c) /\ Place(i, Unmerged(c)) = n
  BY <1>4 DEF Unmerged
<1>7. i \in Unmerged(c) <=> b \notin Merged(c)
  BY DEF Unmerged
<1>8. b \in Merged(c) <=> \E k \in 1 .. m : b \in Match(c, k)
  BY DEF Merged
<1>9. i \in Unmerged(c) => Place(i, Unmerged(c)) \in 1 .. u /\ b \in Own(Place(i, Unmerged(c)))
  BY <1>5, PlaceIsOwn
<1>10. \A k, l \in 1 .. m : b \in Match(c, k) /\ b \in Match(c, l) => k = l
  BY <1>2, MatchIsOwn
<1> HIDE DEF s, m, u, b, Own
<1>11. \A j \in 1 .. (m + u) : j \in 1 .. m \/ (j - m \in 1 .. u /\ j = m + (j - m))
  BY <1>1
<1>12. \A k \in 1 .. m : k \in 1 .. (m + u)
  BY <1>1
<1>13. \A n \in 1 .. u : m + n \in 1 .. (m + u) /\ m + n \notin 1 .. m
  BY <1>1
<1>14. \A k \in 1 .. m : k \in S <=> b \in Match(c, k)
  BY <1>1, <1>3, <1>12
<1>15. \A n \in 1 .. u : m + n \in S <=> b \in Own(n)
  BY <1>1, <1>13
<1>16. S \subseteq 1 .. (m + u)
  BY <1>1
<1> HIDE DEF S
<1>17. CASE b \in Merged(c)
  <2>1. PICK k \in 1 .. m : b \in Match(c, k)
    BY <1>8, <1>17
  <2>2. ASSUME NEW j \in S PROVE j = k
    <3>1. j \in 1 .. m
      BY <1>6, <1>7, <1>11, <1>15, <1>16, <1>17
    <3> QED
      BY <1>10, <1>14, <2>1, <3>1
  <2>3. S = {k}
    BY <1>14, <2>1, <2>2
  <2> QED
    BY <2>3, FS_Singleton DEF S, Places, s, b
<1>18. CASE b \notin Merged(c)
  <2> DEFINE n == Place(i, Unmerged(c))
  <2>1. n \in 1 .. u /\ b \in Own(n)
    BY <1>7, <1>9, <1>18
  <2> HIDE DEF n
  <2>2. ASSUME NEW j \in S PROVE j = m + n
    <3>1. j \notin 1 .. m
      BY <1>8, <1>14, <1>18
    <3>2. j - m \in 1 .. u /\ j = m + (j - m) /\ b \in Own(j - m)
      BY <1>11, <1>15, <1>16, <3>1
    <3>3. n = j - m
      BY <1>6, <3>2 DEF n
    <3> QED
      BY <3>2, <3>3
  <2>3. S = {m + n}
    BY <1>15, <2>1, <2>2
  <2> QED
    BY <2>3, FS_Singleton DEF S, Places, s, b
<1> QED
  BY <1>17, <1>18

\* ... and one that was merged fits the request it was merged into.
LEMMA MergedFits ==
    ASSUME BufferTypes, NEW c \in Captures, NEW q \in Requests, NEW b \in Bodies, Fits(c, q, b),
           NEW k \in DOMAIN (Envelopes(c) \o Synthesised(c)),
           q \in (Envelopes(c) \o Synthesised(c))[k].request,
           b \in (Envelopes(c) \o Synthesised(c))[k].page
    PROVE  Url[b] = Url[q]
<1> DEFINE s == Envelopes(c) \o Synthesised(c)
           m == Len(order[c])
           u == Cardinality(Unmerged(c))
<1>1. /\ m \in Nat /\ u \in Nat /\ DOMAIN s = 1 .. (m + u)
      /\ \A i \in 1 .. m : s[i].request = {order[c][i]} /\ s[i].page = entries[c][order[c][i]].page \cup Match(c, i)
      /\ \A n \in 1 .. u : s[m + n].request = {}
  BY EnvelopesAre
<1>2. k \in 1 .. (m + u) /\ q \in s[k].request /\ b \in s[k].page
  BY <1>1
<1> HIDE DEF s, m, u
<1>3. k \in 1 .. m \/ (k - m \in 1 .. u /\ k = m + (k - m))
  BY <1>1, <1>2
<1>4. k \in 1 .. m
  BY <1>1, <1>2, <1>3
<1>5. q = order[c][k] /\ b \in entries[c][q].page \cup Match(c, k)
  BY <1>1, <1>2, <1>4
<1> QED
  BY <1>5 DEF Fits, Match, Fitting

-----------------------------------------------------------------------------
(* Theorems                                                                *)

\* The inductive invariant.
CaptureInv ==
    /\ TypeOK /\ EventsFit /\ CallsFit /\ TablesInv
    /\ PostedIsRead /\ BytesInv /\ PagesInv

\* The inductive invariant holds at first, ...
LEMMA InitInv == Init => CaptureInv
<1> SUFFICES ASSUME Init PROVE CaptureInv
  OBVIOUS
<1>1. TypeOK
  <2>1. ToolTypes
    BY DEF Init, ToolTypes, Remote!Init, Remote!TypeOK, Remote!Phases,
           Remote!Executions
  <2>2. << >> \in Seq([request : SUBSET Requests, page : SUBSET Bodies]) /\ << >> \in Seq(Nat)
        /\ << >> \in Seq(Requests) /\ << >> \in Seq(Bodies) /\ << >> \in Seq(Seq(Nat))
    OBVIOUS
  <2>3. BufferTypes
    BY <2>2 DEF Init, BufferTypes, NoEntry
  <2>4. NetTypes
    BY <2>2, SizeAssumption DEF Init, NetTypes, SizeAssumption
  <2>5. EventTypes
    BY DEF Init, EventTypes
  <2> QED
    BY <2>1, <2>3, <2>4, <2>5, TypesOfParts
<1>2. EventsFit
  BY DEF Init, EventsFit
<1>3. CallsFit
  BY IdsAssumption DEF Init, Remote!Init, CallsFit, StartFits, StopFits, Answered,
                       Calls
<1>4. TablesInv
  BY DEF Init, Remote!Init, TablesInv, Listed, Listens, Silenced, Calls
<1>5. PostedIsRead
  BY DEF Init, PostedIsRead
<1>6. BytesInv
  <2>1. ASSUME NEW c \in Captures, NEW q \in Requests PROVE ResponseInv(c, q)
    <3>1. /\ Body(c, q) = << >> /\ chain[c][q] = << >> /\ flight \cup held = {}
          /\ Len(Body(c, q)) = 0 /\ DOMAIN chain[c][q] = {} /\ MaxBytes \in Nat
      BY SizeAssumption DEF Init, Body, NoEntry, SizeAssumption
    <3> QED
      BY <3>1 DEF ResponseInv, BodyRises, ChainRises, Rising, UpTo, Before
  <2> QED
    BY <2>1 DEF BytesInv
<1>7. PagesInv
  <2>1. /\ flight \cup held = {} /\ \A c \in Captures : order[c] = << >> /\ pending[c] = << >>
        /\ \A c \in Captures, q \in Requests : entries[c][q].page = {}
    BY DEF Init, NoEntry
  <2> QED
    BY <2>1 DEF PagesInv, SeenOnce, PageInv, WaitsOnce, Waits, Paired, Fits
<1> QED
  BY <1>1, <1>2, <1>3, <1>4, <1>5, <1>6, <1>7 DEF CaptureInv

\* ... every step keeps it ...
LEMMA InvStep == CaptureInv /\ [Next]_vars => CaptureInv'
<1> SUFFICES ASSUME CaptureInv, [Next]_vars PROVE CaptureInv'
  OBVIOUS
<1>1. TypeOK /\ EventsFit /\ CallsFit /\ TablesInv /\ PostedIsRead /\ BytesInv /\ PagesInv
  BY DEF CaptureInv
<1>2. TypeOK'
  BY <1>1, TypedStep
<1>3. EventsFit'
  BY <1>1, EventsFitStep
<1>4. CallsFit' /\ TablesInv'
  BY <1>1, CallsFitStep, TablesStep
<1>5. PostedIsRead'
  BY <1>1, PostedIsReadStep DEF PostedIsRead
<1>6. BytesInv'
  BY <1>1, <1>2, BytesStep
<1>7. PagesInv'
  BY <1>1, PagesStep
<1> QED
  BY <1>2, <1>3, <1>4, <1>5, <1>6, <1>7 DEF CaptureInv

\* ... so it always holds.
LEMMA SpecInv == Spec => []CaptureInv
BY InitInv, InvStep, PTL DEF Spec

\* The types hold: what is posted, buffered, merged and returned is what the tools
\* and the page expect, and no body is posted beyond max_body_bytes.
THEOREM CapturesAreTyped == Spec => []TypeOK
<1>1. CaptureInv => TypeOK
  BY DEF CaptureInv
<1> QED
  BY <1>1, SpecInv, PTL

\* A capture listens without the driver's table only if its start or its stop still
\* runs or may not have reached the page; one that is live listens until a stop comes,
\* and a start that failed leaves nothing.
THEOREM DriverAndPageAgree == Spec => []CapturesAgree
<1>1. CaptureInv => CapturesAgree
  BY TablesAgree DEF CaptureInv
<1> QED
  BY <1>1, SpecInv, PTL

\* A body is within max_body_bytes and its bytes are in the response's order, none
\* twice, whatever chunks are lost and however the page splits them.
THEOREM BodiesStayInOrder == Spec => []BodiesInOrder
<1>1. CaptureInv => BodiesInOrder
  <2> SUFFICES ASSUME CaptureInv, NEW c \in Captures, NEW q \in Requests
               PROVE  BodyRises(c, q) => /\ Len(entries[c][q].body) <= MaxBytes
                                         /\ \A j, k \in 1 .. Len(entries[c][q].body) :
                                               j < k => entries[c][q].body[j] < entries[c][q].body[k]
    BY DEF CaptureInv, BytesInv, ResponseInv, BodiesInOrder
  <2> QED
    BY DEF BodyRises, Rising, Body
<1> QED
  BY <1>1, SpecInv, PTL

\* Whatever events were lost or passed each other, and if two stops finalise one
\* capture, a stop returns one envelope for each request that was seen and has each
\* pending body in exactly one, that of a request of its method and URL or its own.
THEOREM StopsAccountForEverything == Spec => StopAccountsForEverything
<1>1. ASSUME CaptureInv, [Next]_vars, NEW p \in Stops, pc[p] = "popped", pc'[p] = "done"
      PROVE  LET c == target[p]
                 envelopes == result'[p]
             IN  /\ \A q \in Requests : Seen(c, q) =>
                       Cardinality({k \in DOMAIN envelopes : q \in envelopes[k].request}) = 1
                 /\ \A k \in DOMAIN pending[c] : Cardinality(Places(envelopes, pending[c][k])) = 1
                 /\ \A k \in DOMAIN envelopes, q \in Requests, b \in Bodies :
                       q \in envelopes[k].request /\ b \in envelopes[k].page => Url[b] = Url[q]
  <2> DEFINE c == target[p]
             s == Envelopes(c) \o Synthesised(c)
  <2>1. TypeOK /\ BufferTypes /\ CallsFit /\ PagesInv
    BY <1>1, TypesOfParts DEF CaptureInv
  <2>2. StopFinalize(p)
    BY <1>1, <2>1, DoneByFinalize
  <2>3. c \in Captures
    BY <1>1, <2>1 DEF CallsFit, StopFits
  <2>4. result'[p] = s
    BY <2>1, <2>2 DEF StopFinalize, BufferTypes
  <2>5. ASSUME NEW q \in Requests, Seen(c, q)
        PROVE  Cardinality({k \in DOMAIN s : q \in s[k].request}) = 1
    BY <2>1, <2>3, <2>5, RequestHasOne DEF PagesInv
  <2>6. ASSUME NEW k \in DOMAIN pending[c]
        PROVE  Cardinality(Places(s, pending[c][k])) = 1
    <3>1. pending[c][k] \in Bodies
      BY <2>1, <2>3, BuffersAt
    <3>2. WaitsOnce(c, pending[c][k])
      BY <2>1, <2>3, <3>1 DEF PagesInv, PageInv
    <3> QED
      BY <2>1, <2>3, <3>2, BodyHasOne
  <2>7. ASSUME NEW k \in DOMAIN s, NEW q \in Requests, NEW b \in Bodies,
               q \in s[k].request, b \in s[k].page
        PROVE  Url[b] = Url[q]
    <3>1. Fits(c, q, b)
      BY <2>1, <2>3 DEF PagesInv
    <3> QED
      BY <2>1, <2>3, <2>7, <3>1, MergedFits
  <2> HIDE DEF s
  <2> QED
    BY <2>4, <2>5, <2>6, <2>7
<1>2. CaptureInv /\ [Next]_vars =>
         [\A p \in Stops : pc[p] = "popped" /\ pc'[p] = "done" =>
            LET c == target[p]
                envelopes == result'[p]
            IN  /\ \A q \in Requests : Seen(c, q) =>
                      Cardinality({k \in DOMAIN envelopes : q \in envelopes[k].request}) = 1
                /\ \A k \in DOMAIN pending[c] : Cardinality(Places(envelopes, pending[c][k])) = 1
                /\ \A k \in DOMAIN envelopes, q \in Requests, b \in Bodies :
                      q \in envelopes[k].request /\ b \in envelopes[k].page => Url[b] = Url[q]]_vars
  BY <1>1
<1> QED
  BY <1>2, SpecInv, PTL DEF Spec, StopAccountsForEverything
=============================================================================
