# Verification of tor-browser-mcp

TLA+ models of `torbrowser_driver` and `torbrowser_mcp`, TLC configurations that
check them on small instances, and TLAPS proofs that hold for every instance.
All paths below are under `src/`.

The program drives one Tor Browser for MCP clients. An asyncio server dispatches
each tool call to a method of `TorBrowserDriver` on a thread of its own
(`torbrowser_mcp/server.py:125`, `asyncio.to_thread`); nothing serialises the
calls. Behind the methods are a bundled tor, a geckodriver with its browser, a
WebExtension reached through a local HTTP long-poll bridge, and a mitmproxy
daemon thread. Most of what can go wrong lies between these: two tool threads in
one table, an answer that comes after its timeout, a step of starting that
raises when others have already changed something.

Contents: [inventory](#1-inventory) · [modules](#2-modules) ·
[runs](#3-runs-and-what-they-show) · [fairness](#4-fairness) ·
[proofs](#5-proofs) · [divergences](#6-what-the-code-does-and-its-documentation-does-not-say) ·
[limits](#7-what-is-not-modelled) · [plan](#8-plan)

## 1. Inventory

| component | state it keeps | operations | how it interacts | hard behaviour | what makes it correct |
|---|---|---|---|---|---|
| **helper bridge** `_helper_extension_bridge.py` | `_closed`, `_connected`, `_last_seen` (one lock); `_pending`, `_next_id` (another); the `_outgoing` queue; an `Event` per call | `request`, `/poll`, `/response`, `/hello`, `/event`, watchdog, `close` | tool threads call it; the page polls it over HTTP; the driver closes it | two locks per call, a watchdog and a close that sweep the same table, polls the page has abandoned, answers after a timeout | an answer reaches its own call, a woken call has an answer, nothing stays in the table, every call returns |
| **helper install** `_helper_extension_install.py` | the addon id | `install_helper`, `uninstall_helper` | owns the bridge | handshake against timeout | close runs to its end |
| **helper page** `_helper_extension/background.js` | the poll loop; routes, captures, init scripts | `handleRequest`, listeners, `postEvent` | the bridge, the browser's webRequest | handlers are not awaited, every event is a POST of its own | applies a request at most once |
| **routes and scripts** `_helper_extension_primitives.py` | `_helper_routes`, `_helper_init_scripts`, the proxy's mocks | `browser_route`, `_unroute`, `_route_list`, `browser_add_init_script`, `_remove_` | one bridge call per change; `MockRouter` for mocks | the driver's table and the page's change in two steps, with a call between them that may fail or be lost | what is listed is in force, what is in force is listed or has a cause |
| **network capture** same file | `_helper_captures`: envelopes, order, page bodies | `browser_network_capture_start`, `_stop`, `_route_event` | events from the page on bridge threads | events pass each other or get lost; bodies in chunks | bodies in order and within the limit; a stop reports everything once |
| **flow recorder** `_proxy_intercept_substrate.py` | a bounded deque, an id index, raw flows, a cursor | mitmproxy hooks, `snapshot`, `clear` | mitmproxy's thread writes, tool threads read | eviction, clear and late answers between the hooks of one flow | index and buffer agree, cursors compare as ages |
| **intercept tools** `_proxy_intercept_primitives.py` | none (a client's cursor) | `browser_intercept_start`, `_stop`, `_flows`, `_replay`, `_flow`, `_save` | several lock acquisitions of the recorder per call | the buffer changes between the steps of one call | a tail passes over nothing but what its status filter declined, a replay that returns was answered |
| **proxy manager** `_proxy_intercept_substrate.py` | thread, loop, master, adapter, two events | `start`, `stop`, the daemon's `_run` and `_main` | the driver starts and stops it | start that times out while the daemon is still coming up; a shutdown that captured `None` | a session that has ended leaves no daemon that could have been stopped |
| **socks adapter** `_proxy_intercept_socks_adapter.py` | one listener | `serve`, `close`, a tunnel per client | mitmproxy connects to it, it connects to tor | half-closes, `wait_closed`, errors that nothing expects | every tunnel ends whole and leaves nothing open |
| **certificate policy** `_proxy_intercept_policies.py` | `policies.json` in the install directory; a snapshot in the session directory | install, restore | the driver's start and close | the file outlives the process, the restoring is not atomic | the owner's file comes back |
| **driver lifecycle** `driver.py`, `tor_process.py`, `browser_process.py` | one field per thing started; the session directory | `__enter__`, `close`, the reaper, `preflight_ports`, `launch_tor`, `launch_browser` | everything above | any step may raise; the process may die; another driver's reaper | whatever was started is stopped |
| **tabs, frames, contexts** `_core_primitives.py`, `_unsafe_primitives.py` | the browser's focused window and frame, its Marionette context and script timeout; `sys.stdout` | `browser_tabs`, `browser_close`, `browser_frame_*`, `browser_evaluate*`, `browser_chrome_evaluate_unsafe`, `browser_run_python_unsafe` | one WebDriver session shared by all tool threads | several WebDriver commands per tool, no lock | a tool leaves the focus it promises and gives back what it switched |
| **geckodriver resolver** `_geckodriver_resolver.py` | a cache directory shared by processes | `resolve_geckodriver` | at browser launch | a killed or truncated extraction, two processes on one `.part` file | a hit is a whole binary, nothing else stays in the cache |
| **HTTP over tor** `_http_over_tor_primitives.py` | a cookie jar for one sequence | `tor_http_request`, `_sequence` | tor's SOCKS port | redirect loop, jar across hosts, caps | cookies stay with their host; chain and truncation are told |
| **tor control** `_tor_primitives.py`, `_tor_routing_primitives.py` | tor's own configuration | status, NEWNYM, identity check, exit pinning | tor's control port, the check page | two SETCONFs per pin, queries with a default; a page that is polled | no half of a policy is of a call that had ended; a verdict is the page's |
| **storage state** `_state_primitives.py` | the page's cookies and storages | list, get, set, delete, clear, capture, restore | one browser command each | the document changes between the commands of a restore | what was captured comes back, where it was |
| **path policy** `path_policy.py` | roots | `resolve_input`, `resolve_output` | all tools with files | canonical paths | a result is within a root |
| **core page tools** `_core_primitives.py` | the output directory | navigation, waits, downloads, saves, dumps, page source | the browser, the file system | a directory shared with other calls and with the browser's downloads | no file is lost, a listing is sound |
| **read-only tools** extract, observe, diagnostics, pdf, highlight, vision | none | one script each | the browser | limits and caps | an answer says what it leaves out |
| **server** `torbrowser_mcp/` | the tool table | dispatch, schema, tool modules | MCP over stdio | concurrent dispatch | – |

`PROJECT.json` repeats this list with a status each, and lists the hazards with
the line at which each bites and the properties that watch it.

## 2. Modules

| module | models | extends |
|---|---|---|
| `RemoteCall` | the promise of `HelperBridge.request`: refused, or executed at most once, and what the caller may conclude | – |
| `HelperBridge` | the bridge, its installer and closer, the page's poll loop | – (instantiates `RemoteCall` as a refinement) |
| `HelperBridgeProofs` | proofs about it | `HelperBridge`, TLAPS |
| `HelperRegistry` | routes, mocks and init scripts in the driver and in the page | uses `RemoteCall` as its transport |
| `HelperRegistryProofs` | proofs about it | `HelperRegistry`, TLAPS |
| `HelperCapture` | one or more network captures | uses `RemoteCall` as its transport |
| `HelperCaptureProofs` | proofs about it | `HelperCapture`, TLAPS |
| `FlowRecorder` | the recorder under mitmproxy's hooks | – |
| `FlowTools` | the intercept tools over the recorder | `FlowRecorder` |
| `FlowRecorderProofs` | proofs about the recorder, by itself and under the tools | `FlowTools`, TLAPS |
| `SessionIds` | the sessions two components share | – |
| `ProxyManager` | the daemon of the intercept proxy | `SessionIds` |
| `CertificatePolicy` | `policies.json` and its snapshots | `SessionIds` |
| `DriverSession` | `__enter__` and `close()` over sessions that follow one another | `ProxyManager`, `CertificatePolicy` |
| `DriverSessionProofs` | proofs about it | `DriverSession`, TLAPS |
| `ToolThreads` | the threads in which the server runs tool calls | – |
| `BrowserFocus` | windows, focus and frame under the tab, navigation and frame tools | `ToolThreads` |
| `ScriptContext` | the session's context and script timeout, and `sys.stdout`, under the tools that run scripts | `ToolThreads` |
| `GeckoCache` | the cache of the geckodriver binary under several processes | – |
| `HttpOverTor` | one HTTP call over tor: redirects, jar, caps | – |
| `SocksTunnel` | one connection of the SOCKS adapter | – |
| `TorRouting` | tor's two exit options under the pinning tools | `ToolThreads` |
| `PagePolls` | the calls that poll a page until a deadline | – |
| `StoredState` | cookies and storages of documents, capture and restore | – |
| `PathPolicy` | canonical paths and the decisions over them | – |
| `OutputFiles` | the files of the output directory and the roots | `ToolThreads`, `PathPolicy` |
| `ToolAnswers` | limits, caps and the scan for a text, as functions | – |
| `ToolSurface` | the ten state machines above, side by side | all of them |
| `TorToolProofs` | invariants of `SocksTunnel`, `TorRouting`, `HttpOverTor` and `GeckoCache` | these, TLAPS |
| `PageToolProofs` | invariants of `BrowserFocus`, `ScriptContext` and `PagePolls` | these, TLAPS |
| `ToolSurfaceProofs` | invariants of `StoredState`, `OutputFiles`, `PathPolicy` and `ToolAnswers`; the theorems about the surface | `ToolSurface`, `TorToolProofs`, `PageToolProofs` |
| `MC*` | constants, symmetry and bounds for TLC | the module they are named after |

The composition is in two layers. `HelperBridge` is shown to implement
`RemoteCall`; `HelperRegistry` and `HelperCapture` then use `RemoteCall`'s
actions as their transport, so that the tools are checked against exactly what
the bridge was proved to give them, an answer that never comes included.
`DriverSession` conjoins the steps of the driver with the actions of
`ProxyManager` and `CertificatePolicy`, whose variables it shares.

`ToolSurface` puts the tools of single calls into one specification. Its
variable `component` is chosen at the start, and a behaviour takes only that
component's steps. Nothing is lost by that: these components have no state in
common (the browser's focus, its script context, the cache directory, tor's
options, the output directory, a page's stores, and calls that keep everything
in locals), so a behaviour of all of them is an interleaving of one of each, and
every property is about one. What one component does to another through the
browser (a navigation by another tool, say) is an action of the component it
disturbs.

### How state and actions correspond to the code

One action is one critical section, one operation on a queue, an `Event` or the
file system, or one stretch of code between two points at which another thread
can be observed. `PROJECT.json` ("map") gives the lines of each definition.

**HelperBridge.** `pending`, `nextId`, `connected`, `closed` and the two events
are the fields of those names; `_outgoing` is `sent` with `taken`, the number of
frames removed from it. `_PendingRequest` is `event`, `result`, `error` of the
call. A `request()` goes idle → admitted → registered → waiting → woken or
expired → done: each arrow is one lock acquisition or one wait. `_fail_pending`
takes the entries in one step (`todo`) and fails them one by one, without the
lock, setting the error and the event separately. A `/poll` thread is free, parked
in `queue.get`, or holding a frame it has removed and not yet written;
`attached` says whether the page still reads from it. Time is only the freedom of
a wait to expire.

**HelperRegistry, HelperCapture.** A tool is a call of `RemoteCall` with the
changes the driver makes to its own table before it and after it; the page's
handlers are the `Execute` of that call together with what they change in the
page. In `HelperCapture` a body is the sequence of the positions of its bytes,
so that order, loss and repetition can be told apart; events are records in
`flight` that may be handled in any order or lost.

**FlowRecorder, FlowTools.** `buffer` is the deque; an entry keeps its id, its
`since`, whether it is answered, and (for the properties) `at`, its place in
`log`, the history of insertions. `live` is where each flow is in mitmproxy. A
listing is a step that takes the snapshot, one step per entry looked at, and
the return of the cursor. The filters by host and cursor have a verdict that
never changes and choose the snapshot (`Matches`); the one by status reads the
entry's response, which an entry in the snapshot may still be given, when
the listing comes to it (`StatusMatches`, `ListOne`, `ListPass`). `declined` is
the history of what that filter passed over. A replay is a dispatch, a wait, and
the reading of the new entry's cursor; one that was given up before mitmproxy's
loop got to it (`ReplayGivenUp`) may still run (`LateReplay`).

**ProxyManager.** `thread` is the daemon's place between two awaits of `_main`.
`shutdown` is the coroutine that `_signal_shutdown` hands to the loop, with the
master and the adapter it captured. A start that fails is two steps: the error is
published and `start()` released (`StartFails`), then the adapter closed and the
thread ended (`FailureEnds`), which may outlast the join in `start()`.

**CertificatePolicy.** A file is absent, malformed, or well formed and then told
by whose policies and certificates it carries. Restoring is two steps, because
`write_bytes` truncates before it writes.

**DriverSession.** `pc` is where a session is in `__enter__` or `close()`. The
fields of the driver that decide what `close()` undoes (`_tor_process`,
`_proxy_manager`, `_policies_snapshot_dir`) are variables beside the things
themselves, since the question is whether they agree. Histories: `origin` (the
file before the first session), `damage` (what has befallen it) and `overdue`.

In the following modules a step of a call is one command to what it shares with
others: a WebDriver command, a control-port command, an operation of the file
system or of asyncio.

**BrowserFocus.** `tabs` is `driver.window_handles`, `focus` the window that
commands go to, which may have been closed; WebDriver then refuses any command
that needs a window, and the tool raises. `browser_tabs` is the listing of the
handles, the reading of the current one, a switch and a title per window, and
the switch back; the other tools are their one to four commands. Pages may open
windows at any time.

**ScriptContext.** `context`, `scriptTimeout` and `stdout` are the three things
that belong to the session or the process and that calls switch. A call enters,
runs (the script may raise) and leaves by its `finally` or `with`.

**GeckoCache.** `part` and `archive` are directory entries, naming the file that
some resolver created; `download` is what each such file holds and who opened it
for writing last. A step is an operation of the file system or a stretch of
copying; a kill may come at any of them, a network failure, a bad archive or a
full disk where the code meets it.

**HttpOverTor.** The jar maps a host to its cookies. A hop sends the caller's own
Cookie header or the jar's (an empty one of the caller's is not sent, and keeps
the jar's from being sent); a response sets or deletes cookies and redirects
anywhere or ends the entry with a body of some size. `latest` is a history: what
each host has set last.

**SocksTunnel.** `tunnel` follows `_serve_one`: request line, headers, authority,
dial, status, two splices. Each end may send, end its direction or reset at any
time; a splice reads, writes and drains, and ends its direction with
`write_eof()`. `JoinBoth` is `gather`. `Unexpected` is the path to the `except
Exception` of `_handle_client`, from the reads and the dial: the connection is
closed without a status line, and `raised` remembers it.

**TorRouting.** Each call's exits are told by the number of the call; a pin reads
both options and sets both, four commands that any other call's may come
between. A query that fails reads as the default it was made with and the call
goes on (`Learn`, with `blind` the queries that failed); a command that sets or
resets raises. A round is the calls that began since none was in flight, `base`
the policy in force then.

**PagePolls.** `clock` counts poll intervals, a step takes any time. The page
changes by itself and by other calls' navigations; a poll looks, checks its
deadline and sleeps, in the order of the code (`browser_wait_for` locates the
body before it reads its text, `tor_check_identity` navigates first).

**StoredState.** The stores of each origin are cookies, local and session
storage. A capture reads cookies, the origin, then each storage; a restore
writes cookies one by one, reads the origin once, and writes items into whatever
document is there.

**PathPolicy, OutputFiles.** A path is the sequence of its parts; `Canonical`
walks it with `..` and links (`Walk` is one part). `files` tells for each path
which call or download made what is there, 0 for the files that are none of the
tools' business (`Outside`). A call resolves the names that it is given, then
reads, writes, moves or deletes. A listing reads the names of one folder per
step (`ReadFolder`; `browser_output_list` finds further folders by it, as `rglob`
does), and then looks at one name after the other (`VisitName`, `StatName`).
`began`, `touched` and `lost` are histories.

**ToolAnswers.** No state but the last question and its answer: TLC enumerates
the questions within the bounds and compares each answer with its reference
definition. `FindText` is `browser_find_text` without and `FindRegex` with
`regex`, the latter over whatever spans `re.finditer` may yield; the empty pattern
returns before its limit is looked at, as in the code.

## 3. Runs and what they show

Every passing run's properties have a mutant: a changed definition (beside the
original, commented "Mutant") under which TLC finds the property violated.

| run | instance | what it shows |
|---|---|---|
| `bridge_polls` | 3 calls, 2 poll threads; the page abandons a poll or dies | answers reach their own call (`AnswersOwnCall`), frames are received once and in queue order although an abandoned thread competes for them (`ReceivedInQueueOrder`), and the proofs' invariant holds (`IndInv`) |
| `bridge_all` | 1 call, 2 poll threads, every disturbance | the woken call's `assert` (`WokenHasAnswer`); no entry outlives its call (`PendingBelongsToLiveCall`); a bridge given up stays given up (`DisconnectIsPermanent`); every call returns and `close()` drains the polls (`EveryWaitEnds`); the bridge implements `RemoteCall` (`ImplementsRemoteCall`) |
| `bridge_closed` | 1 call, a close | **violated**: a call can be left waiting on a closed bridge (`ClosedLeavesNoWaiter`) |
| `helper_registry` | 4 tool calls, 2 routes, 1 mock, 1 script | the tables agree or the disagreement has a cause (`RouteTablesAgree`); what is unrouted stays so (`UnroutedIsFinal`); a script can be removed as long as it runs (`ScriptsStayRemovable`) |
| `helper_capture` | 1 capture, 2 requests, 1 page body, 2 bytes kept of up to 3 | `BodiesInOrder`, `CapturesAgree`, `StopAccountsForEverything` |
| `capture_owner` | 2 captures of one URL | **violated**: both starts are admitted (`SingleOwner`) |
| `flow_tail` | 3 flows through a buffer of 2, pages of 1, one tailing client | with a host filter, and a status filter or none: what stays in the buffer is listed, and once, but for flows that the status filter declined before their response came (`TailIsExact`, of `TailMissesNothing` and `NothingTwice`); `TailCatchesUp` |
| `flow_replay` | 2 clients that replay and stop, 1 flow, 1 TLS failure, a buffer of 2 | the recorder's invariant (`RecorderInv`, of `TypeOK`, `BufferIsRecentLog` and `IndexCoversBuffer`), `AnswersAreRecorded`, `ReplayIsAnswered` |
| `flow_cursor_none` | 1 flow, 1 client that lists without a cursor | **violated**: the flow is passed over (`ListingMissesNothing`) |
| `driver_session` | 2 sessions with both capabilities or none; crashes, an age of a day, a full disk | the owner's `policies.json` comes back and its policies stay in force meanwhile (`OwnersFileComesBack`), `ClosedLeavesNothing`, `LeftoverDaemonIsOverdue`, `EverySessionResolves` |
| `session_reaped` | 1 session, another driver on the host | **violated**: the teardown of a session older than a day leaves its certificate behind (`ClosedRestoresPolicies`) |
| `tool_surface` | the tools of single calls, one component per behaviour (bounds below) | a type invariant and the twelve properties that follow |

`tool_surface`, by component; where a property is a conjunction, its named parts
are in the module:

- *focus*: once the calls are over the focus is on an open window, however a
  close, a switch and a listing overlapped, and a call that ran alone left it
  where its answer says (`FocusIsTrue`). For calls that overlap only the first half
  holds: a listing's last switch undoes a select, and says nothing.
- *script*: the context is content while no chrome call runs, and stdout is the
  process's after calls that did not overlap (`LoansComeBack`). Two
  `browser_run_python_unsafe` that overlap can leave stdout on a buffer for
  good; the property excludes exactly these.
- *cache*: whichever processes share the `.part` file and the archive, the binary
  is whole unless the last extraction was cut short, and those that end by
  themselves leave neither a download nor an archive (`CacheIsClean`).
- *http*: the jar's cookies go to the host that set them and to no other, on
  every hop of every entry (`CookiesGoToWhoSetThem`); the chain, its length and
  the truncation of a body are told (`HttpAnswersAreHonest`).
- *tunnel*: a direction is not cut short by the other's end, and a connection that
  is over leaves no writer open and has given its client one status line, or none
  where an unexpected error ended the handler before any was sent
  (`TunnelEndsWhole`).
- *routing*: once no call is in flight, no half of the exit policy is left from
  before the last round of calls, unless a call of the round failed
  (`HalvesAreOfTheLastRound`); a call alone that fails half way never leaves its
  strictness over other exits (`OneCallIsInOrder`); and its "previous" is what was
  there, option by option, as far as the query succeeded (`PreviousIsWhatWas`).
- *poll*: what stays is found, also past the deadline and with a timeout of zero,
  and a verdict is that of the page that was asked (`PollsAreRight`).
- *state*: a capture is of one document, a restore brings each item back to its
  area, and writes to no other origin unless the document moved
  (`RestoreIsFaithful`).
- *files*: no call that is not refused is at work outside the roots, neither by
  `..` nor by a link, to read, write, move or delete, and a file outside, which the
  instance has and calls name, stays as it was (`NothingOutside`); downloads,
  listings and dumps survive each other (`SharedFilesAreKept`). A listing that
  returns has all that was there and was not touched, however deep; a name that
  appears while it walks may be in it or not.
- *answers*: limits and caps are exact, the matches of a text are all that
  overlap none given before, up to the limit, those of a regular expression the first
  ones, and each is within its snippet (`AnswersAreHonest`).

Each model with a state of its own also has one type invariant.

### Bounds, and why they are enough

- `HelperBridge`: `MaxId` equals the number of calls, so ids are never exhausted.
  Three calls are needed for an order to be told from a swap next to a lost
  frame, two polls for an abandoned one beside a live one. Calls do not wait for
  each other, so one call meets every disturbance in `bridge_all`; two sweepers
  are built in.
- `HelperRegistry`: a route is added once (ids are fresh `uuid4`s), and four
  calls are an addition, two removals that race and one on another route.
- `HelperCapture`: 3 bytes against a limit of 2 make the page clip in
  the middle of a chunk and the driver clip again; two requests of one URL and
  one page body make the pairing ambiguous. `MaxEvents` bounds the events in
  flight.
- `FlowTools`: `MaxLog` bounds insertions; three flows through a buffer of two
  evict, a page of one makes every listing stop short of its snapshot.
- `DriverSession`: what one session leaves to the next shows with two; a third
  would meet the states the second has met. A session ages only when it is up or
  has crashed (24 hours do not pass inside a step of starting or closing).

- `tool_surface`: two threads and two calls in flight show every pair of tools
  against each other (`Threads`, and `MaxTabCalls` 2; `MaxScripts` 4 and
  `MaxRoutings` 3 let a third call meet what two that overlapped have left).
  `MaxWindows` 3 is a listing with a window before and after the current one.
  `Resolvers` 2 is one process against another's leavings or its writing.
  `Hosts` 2 and `Values` 2 tell a cookie of another host and a stale one;
  `MaxRedirects` 1 with `MaxEntries` 2 puts the end of the chain and a second
  entry's reuse of the jar within reach; `BodySizes` {2, 3} lie at and beyond
  `BodyCap`. `MaxChunks` 2 lets one chunk be relayed while one is
  on its way. `PollTimeouts` {0, 2} with `MaxTime` 4 leave two intervals after the
  deadline. `Origins` 2, `Items` 2, one value: a restore is wrong by place, not
  by value; `MaxChanges` 3 are a set, a move and a move back. The names in
  `MCToolSurface` are the download's own in other words (absolute, with `..`),
  a file in a root by an absolute and by a relative name through a link, one in a
  folder of the output directory, and a file that is outside of all roots, by
  an absolute name and by `..`. Both of the last are refused, and so is the relative
  name through the link, since a relative name has to stay in the output directory.
  `MaxMade` 3 are three calls or
  downloads, so that a listing meets two. `MaxItems` 3, `InlineCap` and
  `RowCap` 2 are one below, at and above each limit; texts of up to 5 of two
  letters and patterns of up to 3 have every overlap a scan can meet. The run has
810 thousand states.

Symmetry is used where no property or liveness condition names an element
(`Calls`, `Polls`, clients, replays, threads, cookie values), in runs without
liveness properties only.

`CHECK_DEADLOCK FALSE` in every run: calls, flows, sessions and tunnels are finite in
number and the system may come to rest when all are over.

## 4. Fairness

Fairness is assumed only of Python threads that have nothing to wait for but a
bounded wait: `HelperBridge!Fairness` of calls, sweeps, `close()` and poll
threads (their waits have deadlines: `event.wait(timeout)`, the poll budget);
`TailSpec` of a client's listing and stop; `DriverSession!FairSpec` of the
thread in `__enter__` or `close()` (`_start_event.wait(timeout)`,
`thread.join(timeout)`, process waits with timeouts). All are weak: none of
these steps is disabled again once enabled, except by the thread's own progress
or by an alternative of the same conjunct.

The components of `tool_surface` have safety properties only.

Nothing is assumed of the page, the network, the user or the daemon thread:
`EveryWaitEnds` and `EverySessionResolves` hold although the page may never
answer and the daemon may hang. One assumption is made of tor in
`EverySessionResolves`: it bootstraps or exits, because `launch_tor` waits for it
without a limit (section 6).

## 5. Proofs

tlapm proves the following for every value of the constants: any number of
calls, polls, requests, flows, sessions and threads, any size of buffer, page,
body or text. The assumptions are those named in the modules (`…Assumption`):
bounds are naturals, sets of hosts, origins and threads are not empty, a
placeholder is not what it stands for. Some say more, and the code gives them:
`OutputFiles!DownloadsAssumption` (the browser downloads into `output_dir`,
`browser_process.py:139`), `PathPolicy!LinksAssumption` (the root is no link and a
link is followed to its end, as `Path.resolve` does) with
`PathPolicy!RootsAssumption` (`from_config` makes the roots canonical), and the
typing of the names that calls are given.

Every safety and action property of the passing runs is stated by a theorem.
Each proof has the same form: an inductive invariant (two of them, `IndInv` and
`RecorderInv`, are properties of runs as well), one lemma per conjunct that a
step can disturb with one step per action, and the property from the invariant.

**`HelperBridgeProofs`** (`TypeCorrect`, `Inductive`, `AssertHolds`,
`NoStaleEntry`, `OwnAnswer`, `Implements`). Neither `WokenHasAnswer` nor
`AnswersOwnCall` is inductive: an answer passes through a frame in the queue, in
the hand of a poll thread, in the page, and through a response thread that has
looked its entry up and lost the lock. `IndInv` therefore adds

- `CallIds`: an id belongs to one call, from its registration on;
- `SentOnce`, `FrameOnce`: a frame is enqueued once, and is in one place;
- `AnswersInTransit`: a response thread carries the answer to a handled frame
  and the entry of the call that registered under its id;
- `WakersHaveAnswered`: whoever is about to set an event has set the result or
  the error before, and a call that has woken was woken by an event.

Each conjunct is preserved by a lemma of its own (`…Step`), with one step per
action that touches what it speaks of and a frame lemma (`…Frame`) for the
others. `IndInv` is itself a property of the run `bridge_polls`.

`Implements` proves the refinement: a caller that has not returned is `open`, a
timeout or a disconnect is `unknown`, and what was executed is what the page
handled under the call's id. The step that needs the invariant is the return of
a result: `AnswersOwnCall` and `AnswersInTransit` say that the page has applied
that very request, and `FrameOnce` that it handled it once.

`DisconnectStays` is about a bridge that `install_helper` has seen connected. It
needs `GreetedOnce`: such a bridge has had its greeting, and the page of one
process greets once. (A `/hello` that was accepted before a `close()` and is handled
after it does set `_connected`, while the installation still waits; `request()`
looks at `_closed` first.) `FramesInOrder` needs
`OrderInv`: the page reads one `/poll` at most, what it has received was taken,
and what the attached thread holds comes after it in the queue, so an abandoned
thread that took an earlier frame can lose it but not deliver it late.

**`FlowRecorderProofs`** (`RecorderTypeCorrect`, `RecorderInductive`,
`CursorsAreAges`, `IndexExact`, `AnswersKept`). `RecorderInv` is `TypeOK /\
BufferIsRecentLog /\ IndexCoversBuffer`: the place of an entry in the log
(`BufferIsRecentLog`) makes its `since` unique, and with it the id index can be
shown to lose exactly the head that the bounded deque drops. `InsertShape`
describes the buffer after an insertion, evicting or not, and `InsertKeepsInv`
and `UpdateKeepsInv` are the two halves of `_record`.

The same facts are proved of the recorder under the tools (`RecorderUnderTools`,
`AnswersKeptUnderTools`), whose steps are either none of the recorder's or
`clear()`. `ToolsAreTyped`, `ReplaysAreAnswered` and `TailsAreExact` come from
`ToolsInv`. A tail is exact because of what is so in the middle of a listing:
every entry the client was given is before its cursor (`SeenIsPassed`), every
wanted one that is buffered and before the cursor was given (`PassedIsSeen`),
and the page that the listing holds is ahead of the cursor and skips nothing that
is still buffered (`PageIsAhead`, `PageSkipsNothing`), although the buffer has moved
on. What the status filter has passed over is set apart (`declined`). A replay
waits for a copy of its own, which no other replay waits for, which no replay that
was given up may still dispatch, and which has been answered when it returns
(`CopiesInv`).

**`HelperRegistryProofs`** (`RegistryIsTyped`, `TablesAgree`, `UnroutedStaysOut`,
`ScriptsCanBeRemoved`). The driver's tables and the page's change at different
times, so `RegistryInv` says where each call stands between the two: ids are
drawn once (`IdsAreDrawnOnce`), what is listed was drawn and, outside its own
call, told to the page (`ListedIsDrawn`, `ListedIsTold`, `ListedMockIsSet`), what
a removal has taken is listed no more (`TakenIsGone`), what runs in the page was
applied by a call whose phase says so (`RunsAreApplied`, `AppliedRuns`,
`RemovedStaysOut`). `HasCause` is the disagreement: a route in force that is not
listed belongs to a call in flight, or to one that was told of a failure.

**`HelperCaptureProofs`** (`CapturesAreTyped`, `DriverAndPageAgree`,
`BodiesStayInOrder`, `StopsAccountForEverything`). `CaptureInv` has three parts.
`TablesInv`: a capture the page holds was started by a call and not stopped.
`BytesInv`: the bytes of a response are in its envelope, in the event on its way
and in the chain of unsent chunks, each rising and each before the next,
wherever `max_body_bytes` has clipped. `PagesInv`: a page body is in one place,
on its way, pending or merged, and merged only with a request of its URL. The
last is the longest argument. `stop()` merges pending bodies one after the other,
each with the first request left; the model says so by the place a body takes
among those that fit (`Place` in `Fitting` and `Rivals`), and the proof shows that two
bodies have different places, so that each is merged into one envelope or gets one
of its own.

**`DriverSessionProofs`** (`TypeCorrect`, `PoliciesComeBack`, `NothingIsLeft`,
`LeftoverIsOverdue`). `IInv` ties each field of the driver to the thing it stands
for, by where the session is in `__enter__` or `close()`: a tor that runs is
`_tor_process`'s (`TorIsOwned`), what `close()` has passed is stopped
(`PartsAreStopped`), a daemon that lives is `_proxy_manager`'s, waited for or
overdue (`DaemonIsKnown`), and what the owner's `policies.json` was is in the file,
in the snapshot or in the bytes about to be written (`OriginIsKept`,
`OwnerIsKept`). Sessions follow one another (`OneAtATime`), any number of them.

**`ToolSurfaceProofs`, `TorToolProofs`, `PageToolProofs`.** Each component of
`ToolSurface` has an invariant and a lemma (`…Kept`) over its own `Init`, `Next`
and variables. A behaviour of the surface is one of each component (`…IsApart`:
its step or a stutter), and the theorems are the two together.

- `FocusInv` → `FocusStaysTrue`: while one call is alone, it knows which windows are
  open and where the focus is (`LoneKnows`), for any number of windows.
- `ScriptInv` → `LoansAreReturned`; `PollInv` → `PollsStayRight`: a condition that has
  been steady since the last sleep is seen by the next look (`SteadyIsSeen`).
- `CacheInv` → `CacheStaysClean`: a `.part` or archive file is some resolver's that has
  not ended or was killed; a torn binary is of the last extraction.
- `HttpInv` → `CookiesStayWithTheirHosts`, `HttpIsHonest`: the jar has the latest of each
  host, and each entry of the answer ends its own chain.
- `TunnelInv` → `TunnelsEndWhole`: a direction that has ended without a reset has
  relayed all it was sent, for any number of chunks; an unexpected error comes
  before any status line.
- `RoutingInv` → `PolicyFollowsItsCallers`: each half of the policy was asked for in
  this round or is still `base`'s (`RoundIsAsked`), the strictness of a lone call
  comes after its exits (`RoundOfOne`), and nothing changes the policy behind it
  (`LoneCallReads`).
- `StateInv` → `RestoresAreFaithful`: while nothing moves, the areas a capture or restore
  is through with agree with the store.
- `FilesInv` → `SharedFilesStayKept`: a download is in one place (`InOnePlace`); what a
  listing has not reached is ahead of it, as a name that it has read or below a
  folder that it has still to read, unless others have touched it
  (`ListingFollows`); a dump has left what it is through with (`DumpFollows`).
- `OutsideKept` → `FilesStayInPlace`: what a call that was not refused is at work on
  is a place within a root from its resolution on (`FileStepFits`), and no step
  changes what is at any other. That every path is canonical is
  `CanonicalIsCanonical`: by induction over its parts, neither `..`, nor a link, nor
  one part more leads from a canonical path to one that is not.
- `AnswersStayTrue`: limits and caps by arithmetic (`LimitCuts`, `FoundIsCut`);
  `browser_find_text` by induction over the offsets (`MatchesFit`): a scan from an
  offset gives occurrences in order, apart from each other, one of which covers
  each occurrence from there on, and the limit keeps the first of them. Scans are
  defined from later offsets to earlier ones, and each goes on further to the right
  (`GoesOn`), so they exist (`ScanExists`). With a regular expression, for every
  sequence of spans within the text.

Induction is by the least counterexample (`LeastNat`), from the library's
well-foundedness of the naturals. Its theorems on recursive definitions take an operator
as a parameter, which the provers do not instantiate; the existence of the walk
of a path and of the scan of a text is therefore proved here.

Only model-checked: the liveness properties `EveryWaitEnds`, `TailCatchesUp` and
`EverySessionResolves`, which rest on fairness and so on `ENABLED`, beyond
the prover; and that the properties of the four violation runs fail, which is TLC's
counterexample.

## 6. What the code does and its documentation does not say

Four of these are violations that a run exhibits:

1. `_helper_extension_bridge.py:345`: `close()` is documented to "fail pending
   requests"; a call admitted before it and registered after its sweep waits its
   whole timeout on a closed bridge (`bridge_closed`).
2. `_helper_extension_primitives.py:814`: overlapping captures are to be
   "rejected … to keep the per-request envelopes single-owner"; two concurrent
   starts pass the check (`capture_owner`).
3. `_proxy_intercept_primitives.py:479`: `next_since` is there "to tail strictly
   newer flows"; an empty listing without a cursor returns one read after its
   snapshot and a flow recorded between them is skipped (`flow_cursor_none`).
4. `driver.py:310`: the reaper deletes the directory of a session that is still
   up after 24 hours, and with it the snapshot of `policies.json`
   (`session_reaped`).

The others were met while modelling, and the models include the behaviour:

- `launch_tor` (`tor_process.py:95-97`) claims a watchdog thread; its wait begins
  when stem's call, made with `timeout=None`, has already waited for bootstrap.
- `driver.py:84-86` says teardown is in reverse order; the proxy is stopped and
  `policies.json` restored before the browser, started after them, is quit.
- `except Exception` at `driver.py:137` does not see a `KeyboardInterrupt`: an
  interrupted `__enter__` closes nothing (a `Crash` in the model, whose children
  survive).
- `ProxyManager.start()` returns before `master.run()` has bound the port, so a
  taken port leaves a session up with a dead proxy.
- A `start()` that times out while the adapter or the master is still being
  built hands over a shutdown that has captured `None`; the daemon may come up
  afterwards, and `close()` does not know it. `LeftoverDaemonIsOverdue` says that
  nothing but an expired wait leaves a daemon behind.
- The stale-policy marker is written and never read.
- `browser_intercept_stop` counts and clears under two acquisitions of the lock;
  its count may differ from what it cleared.
- The `status_code` filter of `browser_intercept_flows` reads the response, which an
  entry is given later under the same `since`
  (`_proxy_intercept_primitives.py:448-453`): a tail that filters by status never
  sees a flow whose response came after the cursor had passed it. `TailIsExact` and
  `TailCatchesUp` except exactly these.
- `browser_intercept_replay` "returns once the dispatched request has been observed"
  and the response "may not yet be attached" (`_proxy_intercept_primitives.py:610-614`);
  `replay_flow`, which it calls, waits for a response or an error, as its own docstring
  says, and raises when neither comes in time. `ReplayIsAnswered` is what the code
  does.
- A replay given up because mitmproxy's loop did not get to it
  (`_proxy_intercept_substrate.py:588-594`) may still be dispatched.
- The socks adapter splices "until either side closes"
  (`_proxy_intercept_socks_adapter.py:57-58`); it waits for both directions (`gather`),
  which `TunnelEndsWhole` needs. Errors outside the tuple at line 180, and an
  `OSError` that is no `ConnectionError` in the reads, reach the `except Exception` at
  125 and the client is closed without a status line, though "SOCKS handshake failures
  surface as 502".
- `get_conf` is called with a default (`_tor_routing_primitives.py:84-85`, `116-117`):
  a query that fails reads as `""` or `"0"`, and "previous" is wrong.
- `browser_find_text` refuses a negative limit, except for the empty pattern, for which
  it returns before the limit is looked at (`_extract_primitives.py:401-412`); with
  `regex` an empty match is possible and the limit is always looked at.
- `browser_output_list` walks folder by folder (`_core_primitives.py:1012`): a
  name that appears in a folder not yet read is listed, and a file or a `.part` file
  that goes between `is_file()` and `stat()` makes the call raise.
- A raw flow evicted during a listing is listed without bodies; a replay
  whose deadline passes raises although its request may have been sent; the
  `since` of a replay whose entry is gone is 0; `clear()` resets the cursor, so a
  tail that began before it sees nothing for a while.
- `browser_unroute` by pattern can overtake a `route.add` that was not sent
  yet; a failed removal of a route cannot be tried again, that of a script can.
- A handler that looked a capture up before its stop may change envelopes the
  stop has returned. `browser_unroute` and the overlap check iterate dicts other
  threads change.
- `browser_route("*")` is accepted and matches nothing; `_helper_network_state`
  is never read; bodies the page truncates are not flagged.
- `tor_new_identity` sleeps 8 seconds "so subsequent calls do not race the
  cooldown", which is 10.
- `browser_evaluate_async` sets the script timeout "for the duration of the call"
  (`_core_primitives.py:760`) and never resets it.
- A script that overlaps a `browser_chrome_evaluate_unsafe` runs in the chrome
  context; overlapping `browser_run_python_unsafe` calls can leave `sys.stdout`
  on a buffer that nobody reads.
- A listing of `browser_tabs` moves the focus under other calls and undoes a
  `select` that came between.
- An extraction of geckodriver that is cut short stays in the cache as a hit
  (`_geckodriver_resolver.py:264`).
- The two SETCONFs of a pin (`_tor_routing_primitives.py:87-88`) are not undone when
  the second fails.
- `browser_set_storage_state` reads the origin once; after a navigation it writes
  one site's items into another's storage.
- `filename` of the extract tools writes the limited payload, not the full one;
  that of `tor_http_request` writes decoded text again as UTF-8, which is not the
  raw body when it was in another encoding.
- `browser_output_read` and `_delete` accept every allowed root, not the output
  directory alone.
- `browser_dump_page` is "always the same nine files", but an artifact
  that fails, other than the console, ends the call and leaves those before it.
- Two sessions that overlap on one install take each other's `policies.json` for
  the owner's (`_proxy_intercept_policies.py:98`).

## 7. What is not modelled

Data: headers, bodies other than their byte order, patterns, JSON, tokens,
file formats, log messages. Time is the freedom to expire; durations are not
compared. Authentication of the bridge's HTTP requests, XPI packing, the
chrome-context scripts, Firefox preferences and environment, and how a port's
holder is identified are left out. A well-formed `policies.json` is told by its
owner's block and the sessions' certificates; the marker beside a stale one is
left out because nothing reads it. Sessions that share an install follow one
another, as `_proxy_intercept_policies.py:23-26` demands. In a crash every thread
ends with the process, and its children may or may not survive: the guardian's
containment is best effort on every platform.

Of the tools: clicks, typing, forms, dialogs, uploads and the reading scripts
(extract, observe, diagnostics, pdf, highlight, vision) are one or two commands
to the page with no state of the driver's; `tor_new_identity` is a signal and a
sleep; `tor_control_command_unsafe` and `browser_chrome_evaluate_unsafe` may do
anything, and only what they leave switched is modelled. In `BrowserFocus` a page
does not close its own window, frames do not nest, and the chrome context's own
windows are absent; in `PagePolls` `browser_wait_for` waits for a text or for its absence, the
selector and the plain time modes being the same loop or a sleep. In `OutputFiles` the reading of one folder's names is one step, folders that hold
no file may exist or not, and links do not change. In `HelperBridge` the test of an
event and the writing of its error in the sweep are one step: a response that sets the
event between the two finds the call either not through, where the error might as well
have been written right before, or gone, where nobody reads it. In `GeckoCache` a damaged
archive of either kind is found by its checksums while it is extracted. `HttpOverTor`
knows a cookie by host, name and value (Set-Cookie attributes the code reads are
abstracted), `StoredState` by its site, one origin each. Caps count units, not bytes of
characters. The detection of the geckodriver version and of the platform, the
cancellation of open tunnels when the daemon's loop is closed, and the event
subscriptions of the bridge are left out. The server's dispatch and the
configuration are not modelled: they keep no state after start, and all that matters
of the dispatch, that calls overlap, is assumed in every module.

Code that is not under `src/` is modelled by how it is used: mitmproxy's flow
life cycle and its binding of the port, WebDriver's windows, the file system, the
peers of a tunnel, the host's clock. The map marks these
definitions external.

## 8. Plan

The modules planned at first are written, and the safety properties of every
passing run are proved. What would add most, in order:

1. Abstract specifications beside the properties: the recorder as an unbounded log of
   which clients see a suffix, implemented by deque and index; `BrowserFocus`
   with each tool as one step, to name the pairs of tools that are not
   equivalent to an order of the two.
2. `HelperRegistry` and `HelperCapture` over `HelperBridge` itself, by the
   refinement that is proved, instead of over its promise.
3. `ProxyManager` over `SocksTunnel`: how open tunnels end with the loop.
4. Form filling, dialogs and uploads (a dialog blocks the other
   threads' commands), and the subscriptions of the bridge.
