----------------------------- MODULE SocksTunnel -----------------------------
(***************************************************************************)
(* torbrowser_driver/_proxy_intercept_socks_adapter.py: one connection of  *)
(* the adapter, from mitmproxy's CONNECT to a stream through tor.  The     *)
(* client and the upstream each send, end their direction, or reset.       *)
(*                                                                         *)
(* serve() and close() are what ProxyManager uses of the adapter; the      *)
(* handlers of two connections share nothing.                              *)
(***************************************************************************)
EXTENDS Naturals, Sequences

CONSTANT MaxChunks      \* bound: chunks an end sends

ASSUME MaxChunksAssumption == MaxChunks \in Nat

VARIABLES
    tunnel,     \* where the handler is
    answers,    \* the status lines written to the client
    ending,     \* per end: it is open, has sent its last, or was reset
    queued,     \* chunks an end has sent
    relayed,    \* chunks of an end that were written to the other
    splice,     \* the task that relays what an end sends
    finished,   \* the other end was told that no more will come
    shut,       \* the writers that have been closed
    raised      \* history: an error reached _handle_client

tunnelVars == <<tunnel, answers, ending, queued, relayed, splice, finished, shut, raised>>

Ends == {"client", "upstream"}
Other(e) == IF e = "client" THEN "upstream" ELSE "client"

\* Every variable has its type.
TunnelTypeOK ==
    /\ tunnel \in {"request", "headers", "authority", "dial", "wrap", "confirm", "splice", "closing", "over"}
    /\ answers \in Seq({200, 400, 502})
    /\ ending \in [Ends -> {"none", "open", "ended", "reset"}]
    /\ queued \in [Ends -> 0..MaxChunks] /\ relayed \in [Ends -> 0..MaxChunks]
    /\ splice \in [Ends -> {"off", "read", "drain", "done", "failed"}]
    /\ finished \in [Ends -> BOOLEAN]
    /\ shut \subseteq Ends
    /\ raised \in BOOLEAN

TunnelInit ==
    /\ tunnel = "request" /\ answers = <<>>
    /\ ending = [e \in Ends |-> IF e = "client" THEN "open" ELSE "none"]
    /\ queued = [e \in Ends |-> 0] /\ relayed = [e \in Ends |-> 0]
    /\ splice = [e \in Ends |-> "off"]
    /\ finished = [e \in Ends |-> FALSE]
    /\ shut = {} /\ raised = FALSE

-----------------------------------------------------------------------------
(* The two ends                                                            *)

PeerSends(e) ==
    /\ ending[e] = "open" /\ queued[e] < MaxChunks /\ e \notin shut
    /\ queued' = [queued EXCEPT ![e] = @ + 1]
    /\ UNCHANGED <<tunnel, answers, ending, relayed, splice, finished, shut, raised>>

PeerEnds(e) ==
    /\ ending[e] = "open"
    /\ ending' = [ending EXCEPT ![e] = "ended"]
    /\ UNCHANGED <<tunnel, answers, queued, relayed, splice, finished, shut, raised>>

PeerResets(e) ==
    /\ ending[e] \in {"open", "ended"}
    /\ ending' = [ending EXCEPT ![e] = "reset"]
    /\ UNCHANGED <<tunnel, answers, queued, relayed, splice, finished, shut, raised>>

-----------------------------------------------------------------------------
(* _serve_one, up to the tunnel                                            *)

Answer(code) == answers' = Append(answers, code)

\* An error that no except clause but _handle_client's expects: an OSError that is no
\* ConnectionError while the request is read; whatever python_socks cannot be loaded
\* for, or raises for a host that it cannot encode.
Unexpected ==
    /\ tunnel \in {"request", "headers", "dial"}
    /\ tunnel' = "closing" /\ raised' = TRUE
    /\ UNCHANGED <<answers, ending, queued, relayed, splice, finished, shut>>

\* _read_request_line: a line that breaks off or is too long is answered with 400.
ReadLine ==
    /\ tunnel = "request"
    /\ \/ tunnel' = "headers" /\ UNCHANGED answers
       \/ tunnel' = "closing" /\ Answer(400)
    /\ UNCHANGED <<ending, queued, relayed, splice, finished, shut, raised>>

\* _drain_headers: up to the empty line, or until they break off or are too long.
DrainHeaders ==
    /\ tunnel = "headers"
    /\ tunnel' = "authority"
    /\ UNCHANGED <<answers, ending, queued, relayed, splice, finished, shut, raised>>

\* The line asks to CONNECT to a host and a port, or is answered with 400.
CheckLine ==
    /\ tunnel = "authority"
    /\ \/ tunnel' = "dial" /\ UNCHANGED answers
       \/ tunnel' = "closing" /\ Answer(400)
    /\ UNCHANGED <<ending, queued, relayed, splice, finished, shut, raised>>

\* proxy.connect(), or it fails in a way that is expected.
Dial ==
    /\ tunnel = "dial"
    /\ \/ /\ tunnel' = "wrap" /\ ending' = [ending EXCEPT !["upstream"] = "open"]
          /\ UNCHANGED answers
       \/ tunnel' = "closing" /\ Answer(502) /\ UNCHANGED ending
    /\ UNCHANGED <<queued, relayed, splice, finished, shut, raised>>

\* asyncio.open_connection(sock=...), or the socket is closed.
Wrap ==
    /\ tunnel = "wrap"
    /\ \/ tunnel' = "confirm" /\ UNCHANGED <<answers, shut>>
       \/ tunnel' = "closing" /\ Answer(502) /\ shut' = shut \cup {"upstream"}
    /\ UNCHANGED <<ending, queued, relayed, splice, finished, raised>>

\* The 200 is written and drained, and both directions start; or the client is gone.
Confirm ==
    /\ tunnel = "confirm"
    /\ Answer(200)
    /\ \/ tunnel' = "splice" /\ splice' = [e \in Ends |-> "read"] /\ UNCHANGED shut
       \/ /\ ending["client"] = "reset" /\ tunnel' = "closing"
          /\ shut' = shut \cup {"upstream"} /\ UNCHANGED splice
    /\ UNCHANGED <<ending, queued, relayed, finished, raised>>

-----------------------------------------------------------------------------
(* _splice                                                                 *)

\* However it ends, write_eof() tells the other end; what was written goes first.
SpliceEnds(e, how) ==
    /\ splice' = [splice EXCEPT ![e] = how]
    /\ finished' = [finished EXCEPT ![Other(e)] = TRUE]

\* src.read() gives some of what has arrived, which is written at once; after the last
\* of it, nothing.  A reset raises, whatever has arrived before it.
SpliceRead(e) ==
    /\ tunnel = "splice" /\ splice[e] = "read"
    /\ \/ /\ ending[e] # "reset"
          /\ \E n \in relayed[e] + 1 .. queued[e] : relayed' = [relayed EXCEPT ![e] = n]
          /\ splice' = [splice EXCEPT ![e] = "drain"] /\ UNCHANGED finished
       \/ /\ ending[e] = "ended" /\ relayed[e] = queued[e]
          /\ SpliceEnds(e, "done") /\ UNCHANGED relayed
       \/ ending[e] = "reset" /\ SpliceEnds(e, "failed") /\ UNCHANGED relayed
    /\ UNCHANGED <<tunnel, answers, ending, queued, shut, raised>>

\* dst.drain() raises if the other end was reset, and may block until then.
SpliceDrain(e) ==
    /\ tunnel = "splice" /\ splice[e] = "drain"
    /\ IF ending[Other(e)] = "reset" THEN SpliceEnds(e, "failed")
       ELSE splice' = [splice EXCEPT ![e] = "read"] /\ UNCHANGED finished
    /\ UNCHANGED <<tunnel, answers, ending, queued, relayed, shut, raised>>

\* Mutant: the first direction to end takes the other with it.
JoinFirst ==
    /\ tunnel = "splice" /\ \E e \in Ends : splice[e] \in {"done", "failed"}
    /\ tunnel' = "closing" /\ shut' = shut \cup {"upstream"}
    /\ UNCHANGED <<answers, ending, queued, relayed, splice, finished, raised>>

\* gather() waits for both; the upstream writer is closed.
JoinBoth ==
    /\ tunnel = "splice" /\ \A e \in Ends : splice[e] \in {"done", "failed"}
    /\ tunnel' = "closing" /\ shut' = shut \cup {"upstream"}
    /\ UNCHANGED <<answers, ending, queued, relayed, splice, finished, raised>>

\* The finally of _handle_client.
CloseClient ==
    /\ tunnel = "closing"
    /\ tunnel' = "over" /\ shut' = shut \cup {"client"}
    /\ UNCHANGED <<answers, ending, queued, relayed, splice, finished, raised>>

TunnelNext ==
    \/ \E e \in Ends : PeerSends(e) \/ PeerEnds(e) \/ PeerResets(e)
    \/ ReadLine \/ DrainHeaders \/ CheckLine \/ Dial \/ Wrap \/ Confirm \/ Unexpected
    \/ \E e \in Ends : SpliceRead(e) \/ SpliceDrain(e)
    \/ JoinBoth \/ CloseClient

-----------------------------------------------------------------------------
(* Properties                                                              *)

\* No direction is cut short by the other: an end that was not reset, talking to
\* one that was not, has had everything it sent relayed by the time the other end
\* is told that no more comes or a writer is closed, half-closed or not.
NothingIsCutShort ==
    \A e \in Ends :
       /\ 200 \in {answers[i] : i \in DOMAIN answers}
       /\ \A f \in Ends : ending[f] # "reset"
       /\ finished[Other(e)] \/ shut # {}
       => ending[e] = "ended" /\ relayed[e] = queued[e]

\* A connection that is over leaves nothing open, whichever step failed.  Its client
\* was given one status line, or none where an unexpected error ended the handler, which
\* is never after one was sent; and bytes of the upstream only after a 200.
TunnelLeavesNothing ==
    /\ tunnel = "over" =>
          /\ "client" \in shut /\ Len(answers) = IF raised THEN 0 ELSE 1
          /\ ending["upstream"] # "none" => "upstream" \in shut
    /\ relayed["upstream"] > 0 => answers = <<200>>

\* Both directions of a tunnel come to their own end, and nothing stays open behind.
\* (The docstring of the adapter has it splice "until either side closes".)
TunnelEndsWhole == NothingIsCutShort /\ TunnelLeavesNothing
=============================================================================
