---------------------------- MODULE FlowRecorder ----------------------------
(***************************************************************************)
(* torbrowser_driver/_proxy_intercept_substrate.py, class FlowRecorder:    *)
(* the mitmproxy addon that keeps the last max_flows flows, each under a   *)
(* monotonic "since", indexed by flow id.  The hooks run one at a time on  *)
(* mitmproxy's event loop; clear() is called by a tool thread.  One action *)
(* is one critical section of the recorder's lock.                         *)
(*                                                                         *)
(* log and cleared are history: every insertion ever made, and how many    *)
(* there were at the last clear().  An entry carries its place in the log. *)
(***************************************************************************)
EXTENDS Naturals, Sequences

CONSTANTS
    Flows,          \* ids mitmproxy gives to the flows it proxies
    Replays,        \* those of them that are copies made by a replay
    Synthetic,      \* microsecond-stamped ids of tls_failed_client entries
    NoSince,        \* the flow id is not a key of _by_id
    MaxFlows,       \* capacity of the buffer
    MaxLog          \* bound on the insertions

ASSUME FlowsAssumption ==
    Flows \cap Synthetic = {} /\ Replays \subseteq Flows /\ NoSince \notin Nat
ASSUME MaxFlowsAssumption == MaxFlows \in Nat \ {0}
ASSUME MaxLogAssumption == MaxLog \in Nat

Ids == Flows \cup Synthetic

VARIABLES
    live,           \* mitmproxy's own view of each flow
    buffer,         \* _buffer: the entries, oldest first
    nextSince,      \* _next
    byId,           \* _by_id: the since of the entry found under each id
    raw,            \* the keys of _raw_by_id
    log, cleared

recorderVars == <<buffer, nextSince, byId, raw, log, cleared>>
vars == <<live, recorderVars>>

Entries == [id : Ids, at : Nat, since : Nat, answered : BOOLEAN]

\* A flow is announced by request, then gets a response or an error: the flow
\* object has it ("answered") before the hook that tells the recorder runs.
LiveStates == {"idle", "dispatched", "request", "answered", "over"}

Init ==
    /\ live = [f \in Flows |-> "idle"]
    /\ buffer = << >> /\ nextSince = 0
    /\ byId = [i \in Ids |-> NoSince]
    /\ raw = {}
    /\ log = << >> /\ cleared = 0

-----------------------------------------------------------------------------
Full == Len(buffer) = MaxFlows

\* Mutant: eviction leaves the index alone.
InsertKeepsIndex(i, answered) ==
    /\ Len(log) < MaxLog
    /\ buffer' = Append(IF Full THEN Tail(buffer) ELSE buffer,
                        [id |-> i, at |-> Len(log) + 1, since |-> nextSince,
                         answered |-> answered])
    /\ nextSince' = nextSince + 1
    /\ byId' = [byId EXCEPT ![i] = nextSince]
    /\ raw' = raw \cup ({i} \cap Flows)
    /\ log' = Append(log, [id |-> i, since |-> nextSince])
    /\ UNCHANGED cleared

\* _insert_locked, and the raw flow that _record stored just before it: the
\* oldest entry leaves buffer and indexes when there is no room.
Insert(i, answered) ==
    LET evicted == IF Full THEN {Head(buffer).id} ELSE {}
    IN  /\ Len(log) < MaxLog
        /\ buffer' = Append(IF Full THEN Tail(buffer) ELSE buffer,
                            [id |-> i, at |-> Len(log) + 1, since |-> nextSince,
                             answered |-> answered])
        /\ nextSince' = nextSince + 1
        /\ byId' = [j \in Ids |-> IF j = i THEN nextSince
                                  ELSE IF j \in evicted THEN NoSince ELSE byId[j]]
        /\ raw' = (raw \cup ({i} \cap Flows)) \ evicted
        /\ log' = Append(log, [id |-> i, since |-> nextSince])
        /\ UNCHANGED cleared

\* The entry found under the id is updated in place and keeps its since.
Update(f, answered) ==
    /\ buffer' = [k \in DOMAIN buffer |->
                     IF buffer[k].id = f /\ buffer[k].since = byId[f]
                       THEN [buffer[k] EXCEPT !.answered = answered]
                       ELSE buffer[k]]
    /\ raw' = raw \cup {f}
    /\ UNCHANGED <<nextSince, byId, log, cleared>>

\* Mutant: only the first hook of a flow is recorded.
RecordOnce(f, answered) ==
    IF byId[f] = NoSince THEN Insert(f, answered) ELSE UNCHANGED recorderVars

Record(f, answered) ==
    IF byId[f] = NoSince THEN Insert(f, answered) ELSE Update(f, answered)

\* The request hook.  MockRouter runs before the recorder and may already have
\* put a response on the flow.
RequestHook(f, mocked) ==
    /\ live[f] = IF f \in Replays THEN "dispatched" ELSE "idle"
    /\ live' = [live EXCEPT ![f] = IF mocked THEN "answered" ELSE "request"]
    /\ Record(f, mocked)

\* The response reaches the flow object; its body is still on the way.
Upstream(f) ==
    /\ live[f] = "request"
    /\ live' = [live EXCEPT ![f] = "answered"]
    /\ UNCHANGED recorderVars

\* The response hook, or the error hook.
AnswerHook(f) ==
    /\ live[f] = "answered"
    /\ live' = [live EXCEPT ![f] = "over"]
    /\ Record(f, TRUE)

TlsFailed(s) ==
    /\ Insert(s, TRUE)
    /\ UNCHANGED live

Clear ==
    /\ buffer' = << >> /\ nextSince' = 0
    /\ byId' = [i \in Ids |-> NoSince]
    /\ raw' = {}
    /\ cleared' = Len(log)
    /\ UNCHANGED log

Hook ==
    \/ \E f \in Flows, mocked \in BOOLEAN : RequestHook(f, mocked)
    \/ \E f \in Flows : Upstream(f) \/ AnswerHook(f)
    \/ \E s \in Synthetic : TlsFailed(s)

-----------------------------------------------------------------------------
\* The recorder with a client that only clears: the tools are in FlowTools.
Next == Hook \/ (Clear /\ UNCHANGED live)

Spec == Init /\ [][Next]_vars

-----------------------------------------------------------------------------
(* Type correctness of the recorder. *)
TypeOK ==
    /\ live \in [Flows -> LiveStates]
    /\ buffer \in Seq(Entries)
    /\ Len(buffer) \in 0 .. MaxFlows
    /\ nextSince \in Nat
    /\ byId \in [Ids -> Nat \cup {NoSince}]
    /\ raw \subseteq Flows
    /\ log \in Seq([id : Ids, since : Nat])
    /\ cleared \in 0 .. Len(log)

\* The buffer is the end of the log, back to the last clear or as far as it has
\* room, and a since counts the insertions since then: whatever order requests,
\* answers, evictions and clears come in, cursors compare as ages.
BufferIsRecentLog ==
    /\ nextSince = Len(log) - cleared
    /\ Len(buffer) <= nextSince /\ (Len(buffer) < nextSince => Full)
    /\ \A k \in 1 .. Len(buffer) :
         /\ buffer[k].at = Len(log) - Len(buffer) + k
         /\ buffer[k].since + 1 = buffer[k].at - cleared
         /\ log[buffer[k].at] = [id |-> buffer[k].id, since |-> buffer[k].since]

\* The index and the raw flows cover the buffered flows and nothing else: an
\* evicted flow is neither found nor kept alive, a buffered one is found where
\* it is, and no flow has two entries.
IndexCoversBuffer ==
    /\ \A k \in 1 .. Len(buffer) :
         buffer[k].id \in Flows =>
             byId[buffer[k].id] = buffer[k].since /\ buffer[k].id \in raw
    /\ \A f \in Flows :
         byId[f] # NoSince =>
             \E k \in 1 .. Len(buffer) :
                 buffer[k].id = f /\ buffer[k].since = byId[f]
    /\ \A f \in Flows : f \in raw <=> byId[f] # NoSince

\* The recorder's invariant, and inductive: the place of every entry in the log and
\* what the indexes hold of it depend on each other when an entry is evicted.
RecorderInv == TypeOK /\ BufferIsRecentLog /\ IndexCoversBuffer

\* An answer is recorded on its flow's entry, wherever that is now: no flow
\* whose answer hook has run stays in the buffer without its answer.
AnswersAreRecorded ==
    \A k \in 1 .. Len(buffer) :
        buffer[k].id \in Flows /\ live[buffer[k].id] = "over" => buffer[k].answered
=============================================================================
