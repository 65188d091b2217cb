# Verification of veloce

veloce is a Python web framework with its own HTTP/1.1 server, an ASGI adapter,
routing, dependency injection, WebSockets, middleware, background tasks and a
Model Context Protocol (MCP) server. This directory holds TLA+ models of its
stateful core, the TLC configurations that check them on small instances, and
TLAPS proofs of the results that matter most. Paths below are relative to
`src/src/veloce/` unless they start with `src/`.

Every module is written from the code. `PROJECT.json` maps each definition to
the lines it stands for, lists the runs with the properties they check, the
mutants that show each property can fail, the hazards the properties are for,
the disagreements found, and the proved theorems.

## The system

veloce runs on one asyncio event loop per process. Code between two `await`s is
atomic; whatever happens across an `await`, a callback or a timer can interleave.
Those are the places where the models have separate actions.

| Part | State | Operations | What is hard | What makes it correct |
|---|---|---|---|---|
| HTTP/1.1 connection (`serving/protocol.py`) | parser position, request queue, server loop, current and served body, pause bits, two timers, refusal latch, draining flag | parser callbacks, `_serve`, `_dispatch`, timers, `begin_drain`, `connection_lost`, upgrade | callbacks write to the transport while the loop is mid-response; refusals, upgrades and losses arrive at any time | answers in request order, one timer at a time and one whenever idle, unread bodies drained, nothing started after a loss |
| request body (`http/_body.py`) | queued bytes, eof, disconnected, paused, cap | `feed`, `feed_eof`, `read`, `drain`, iteration | producer and consumer share water marks through the socket's one pause switch | a full body pauses the socket, a paused socket is resumed |
| server run and stop (`app/serving.py`, `workers.py`) | connection count, live set, shutdown latch, active tasks | admit, refuse, drain, wait, cancel, recycle | connections in a handshake while the server stops; Python 3.12 changed what leaving the server awaits | the count is exact, a stopping server serves at most one more request per connection, requests are not cut, the server stops |
| application lifespan (`app/lifecycle.py`) | exit stack, started sub-applications, handlers run | startup, shutdown | any step may fail after others succeeded | what was started is stopped, in reverse order, once |
| spawned tasks and supervisor (`app/background.py`) | named and anonymous registries, failure window, delay | spawn, cancel, drain, supervise | tasks spawned during the drain; a breaker with a window | no running task is forgotten, restarts are bounded |
| rate limiting (`ratelimit.py`) | per-key strategy state with an expiry, bounded table | evaluate, evict | window boundaries, fractions, eviction at the limit | never more than the limit per window, an honest `retry_after`, a bounded table |
| Redis backend (`contrib/redis.py`) | one counter per key, shared by processes | script by digest, or WATCH/GET/EXEC with retries | other processes write in between; the last retry writes blind | processes together stay within the budget while no retry runs out |
| cache (`cache.py`) | bounded table with expiry | get, set, delete, `@cached` | computing a value while the key is deleted | no value older than the last delete is served |
| WebSocket (`websocket.py`, `_ws_listener.py`) | frame assembly, close handshake, queues, pings | receive, send, close, fragments | close handshake against concurrent sends and pongs | at most one close frame, no data after it |
| dispatch (`app/dispatch.py`, `_pipeline.py`, `app/middleware.py`) | context stack, hook lists | before/after/teardown hooks, error handlers | an exception at any stage | every entered middleware is left, teardowns always run |
| dependency injection (`dependency.py`, `_handler_plan.py`) | per-request cache, exit stack | resolve, teardown | failure half-way through a graph | each dependency built once, torn down in reverse |
| routing (`routing/`) | trie of segments, converters | add, match | priorities between static, converted and catch-all segments | the trie finds what a linear scan finds |
| sessions (`sessions.py`, `middleware/sessions.py`) | stored data, modified flag, rotation | open, save, rotate, delete | two requests of one client | a deleted session does not come back |
| ASGI adapter (`app/asgi.py`) | none of its own: one coroutine per connection | read a body, answer, stream, run a lifespan | the peer goes between any two messages | one answer per request, nothing after its end |
| blueprints (`blueprints.py`, `app/core.py`) | hooks and error handlers under dotted names, nested and merged | declare, nest, register | declarations after a merge, one blueprint in two places | a route runs the hooks of its own ancestry, each once |
| request values, responses, files (`http/`, `contrib/staticfiles.py`, `middleware/`) | a form's open spools; a response's cached encoding | parse, negotiate, make conditional, compress, range | what one middleware computes another invalidates | what is announced is what is sent, caches and resumptions are never misled |
| security (`security/`, `passwords.py`, `middleware/`) | verifiers, sessions, nonces | check, upgrade, log in | settings that change under stored verifiers | a login leaves a verifier that keeps working; a policy names the nonce of its page |
| MCP (`contrib/mcp/`) | sessions, tasks, subscriptions, streams, event log | initialize, call, cancel, subscribe, resume, terminate | expiry and termination against running calls, replay after reconnect | terminated sessions stay so, tasks end in one final state, no event lost or repeated |
| MCP stdio and calls (`transports/stdio.py`, `_invocation.py`) | dispatch tasks, the parked questions, the stack of bound requests | read, start, ask, cancel, tear down | tools that call tools, cancellation during teardown, the end of the input | calls are serial, a context never leaks from one call into another |
| MCP authorization (`authorization.py`) | codes, token families, spent refresh tokens | exchange, refresh, revoke | a store that suspends between check and write | a code and a refresh token work once, a replay ends the family |
| reloader (`serving/reloader.py`) | modification times, one child | walk, compare, restart | edits while a child boots or between two stats | the running child has the files on disk |
| test clients and live server (`testclient.py`, `liveserver.py`) | the setup lock, the connections handed out | open, exchange, close | hooks that raise, clients that overlap | the application is left as it was found |

How the parts meet: the connection hands each parsed request to
`app.handle_request` as a task and writes what it returns; the handler pulls the
body from the source the parser fills; the server admits connections, tells them
to drain and waits for their tasks; the lifespan brackets both; middleware and
dependencies run inside the handler task; background tasks outlive requests and
are drained by the lifespan; WebSockets take a connection over and MCP runs on top
of ordinary routes.

## Modules

### HttpConnection

The module begins with the operations of one body (`RequestBodySource`) as operators on a record
(queued chunks, eof, disconnected, paused, bytes seen); bytes are counted in units
so that a chunk is 1. `HttpConnection` is one `HttpProtocol` with a client that
sends `MaxMsgs` messages.

| Variable | Code |
|---|---|
| `turn`, `phase`, `msg`, `kind`, `headersDone` | which callback holds the event loop, the parser's position, what it learned of each message |
| `queue`, `pc`, `cancelled`, `serving`, `handler` | `_request_queue`, where the `_server_loop` task stands, `_serving_source`, the `handle_request` task of each message |
| `src`, `current`, `pauses` | the body source of each message, `_current_source`, `_pause_reasons` |
| `kaTimer`, `rqTimer` | `_keep_alive_handle`, `_request_timer` |
| `transport`, `reading`, `canWrite`, `wire` | the transport: open, closing or gone, whether it delivers data, `_can_write`, and what has been written |
| `oversized`, `draining`, `closing`, `websocket`, `refusals` | the flags of the same names and the `_emit_refusal` tasks still to run |

One action is one callback or one stretch of a coroutine between awaits:
`data_received` opens a segment, `on_url`, `on_headers_complete`, `on_body`,
`on_message_complete` are the parser callbacks inside it, `SegmentEnd` closes it;
`ServeNext`, `ReadBody`, `HandlerReturned`, `DrainDone`, `Emit` and `Boundary` are
the server loop; `HandlerReads`, `HandlerEnds` and `DetachedEnds` the handler;
`request_timeout`, `keep_alive_timeout`, `emit_refusal`, `pause_writing`,
`resume_writing`, `begin_drain`, `connection_lost` the rest. Data is reduced to a
message's number, its kind (bodiless, sized, chunked, on a buffered or a streaming
route), the shape of its answer (plain, streamed, server-sent events) and, for a
refusal, that it is one.

### ServerShutdown

(`ServerInit`, `ServerNext` and `ServerSpec` are its specification, so that it can be
extended beside `AppLifespan` by the module that proves both.)

Connections of one process from the handshake to the loss, the admission count,
`_SHUTTING_DOWN`, and the steps of `run()`/`_serve`/`_graceful_shutdown`
(`mode.worker = FALSE`) or of the gunicorn worker's loop (`mode.worker = TRUE`).
`mode.awaits` says whether leaving the server waits for its connections, as
Python 3.12 and later do. A connection is abstracted to: idle, serving a buffered or
a streamed answer, a WebSocket; with a number of queued requests.

### SpawnedTasks and AppLifespan

`SpawnedTasks` is the registry of `app/background.py` with tasks that may end,
fail, or ignore a cancellation; `AppLifespan` composes it with the startup and
shutdown engine: lifespans on the exit stack, sub-applications, handlers, the
watchdog, and both drains. Any step that runs user code may fail and may spawn or
cancel tasks.

### Supervisor

The loop of `_run_supervised`: a run ends well or badly after any time, the
failure window, the breaker and the doubled delay, on an integer clock.

### RateLimit

The four strategies of `ratelimit.py` as operators on a key's state and the
in-memory table with expiry and eviction. Time is in ticks, `Sub` ticks to a
second, so that fractions of a second occur; fractional quantities are kept as
integers scaled by the window or the period. `strategy` is chosen in `Init` and
never changes.

### WebSocket

The module begins with the incremental validator of `websocket.py` as a state (bytes still
needed and the range of the next one) and a fold over a fragment, beside the
definition of UTF-8 it is compared with. The rest is one socket under the native
server, built by hand, or under ASGI (`host`, chosen in `Init`), with the task of
its handler and a helper task that share it.

| Variable | Code |
|---|---|
| `accepted`, `closed`, `peerClosed`, `closeSent`, `peerEvent`, `closeCode` | `_accepted`, `_closed`, `_peer_closed`, `_close_frame_sent`, `_peer_close_event`, `close_code` |
| `queue`, `frag` | `_receive_queue` with its disconnect sentinel, the reassembly buffer and its validator |
| `canWrite`, `pendingPong`, `transport` | back-pressure of the protocol, a PONG held back by it, the transport |
| `hb` | the heartbeat: timer, outstanding token, inbound bytes seen |
| `pc`, `cancelled`, `handlerExc` | where each task awaits, the cancellation of `connection_lost`, `_handler_exc` |

The frame actions are the branches of `_parse_frame`, one frame a step; the task
actions are the stretches of `send_*`, `receive_*` and `close` between awaits;
`HandlerEnds` is the end of `_run_websocket` and `HandlerCancelled` the loss of the
connection reaching it.

### FirstRequest and Dispatch

`FirstRequest` is the latch of `_fire_first_request`: where each request stands
(`at`), `_first_request_fired`, `_first_request_running`, and whether the requests
run on loops of several threads. `Dispatch` extends it and follows one of the
requests through `handle_request` and `_dispatch_request`.

| Variable | Code |
|---|---|
| `config` | what is registered: propagation of errors, a bare application, middleware functions, the matched route and what it excludes |
| `pc`, `entered`, `handling`, `exc`, `outcome` | the position, whether the `try` is entered and an `except` runs, `_exc`, how the `try` ends |
| `i`, `stash`, `excluded`, `rest` | the request phase, the filtered chain on `request._state`, the local `excluded`, what is left of a response phase |
| `stack`, `held` | the resolver's `_teardowns`, the local `resolver` |
| `bp`, `bpNext` | `_bp_name`, which an early answer gets only once its response phase is over |
| `form`, `sched`, `captured`, `bg` | `request._form`, `_scheduled_bg`, the form handed to the background tasks, those still running |

One action is one phase, or one middleware, dependency or teardown in it. Whatever
calls the application's code may raise, and a request may be cancelled at any
await. A response is what it has passed (`seen`); a mounted application answers or
raises in one step. The remaining variables are history for the properties.

### McpTasks, McpHttp and TaskLife

`TaskLife` is the promise to a client that polls: a task is made once, settles once,
keeps what it settled to, and a task that is forgotten does not come back. `McpTasks`
is the registry with its runners, owners and expiry; `McpHttp` extends it with the
transport in front of it. That `McpHttp` implements `TaskLife` under the mapping
`state[t] <- Polled(t)` (the status while the task is registered, `gone` after) is
the property `TasksAreOneShot`.

| Variable | Code |
|---|---|
| `status`, `owner`, `registered`, `runner`, `cancelling`, `expired` | an `MCPTask`, the registry's table, the asyncio task behind it |
| `live`, `idle`, `record`, `nobj`, `ready`, `listens`, `deleting`, `ended` | the session store in order of use, the shared backend, the session objects and their listen streams, DELETEs half done |
| `rq`, `inflight`, `rcancel`, `sinks` | the dispatch of each POST, the holder of its JSON-RPC id, cancellations, the `ConnectionRegistry` |
| `said`, `queue`, `link`, `got`, `log`, `order` | each stream: what was sent, what waits to be yielded, the client's link, what arrived, and the ring of the event store |

A request arrives, may be refused by the gate of the session, and is then a POST with
a stream, a listen, a task or a notification. `Disconnect` drops a link, `Resume`
opens it again with the last event id. With a backend a DELETE has two halves
(`Delete`, `DeleteShared`).

### McpStdio

One reader, one dispatch task per message. `stack` is the chain of calls of a message:
a tool may, through `sample_with_tools`, ask the client and call further tools. `bound`
is the context variable with the request of the innermost call and has to be restored
however a call ends. A cancellation may be delivered at any await of a call: in the tool, in a teardown
(`CancelledTeardown`, which leaves the loop of `run_teardowns` because that catches `Exception` only; `cut`
records it) and after (`CancelledAfter`). `EndOfInput` fails what waits for the client.

### WebSessions

`mw` is the middleware (signed or server-side, with its options), `entries` the store,
`jar` the cookies of one client whose concurrent calls (`call`) send what the jar has,
run a handler that reads, changes, logs in or out, and write their answers back in any
order; `Tick` lets entries and cookies expire. `minted`, `ended` and `anon` are history.

### Injection

The plan operators (`compute_dep_waves`, `batched_waves`, `Steps`) compute what a graph
is run as; the actions run it, one activation per path of slots. The generated
resolver is `compile_graph_resolver`, compared call by call with the interpreter
(`CompiledAgrees`). `TestGraphs` of `MCRequests` has up to three dependencies.

### Routing

Registration (`add_route`, `include_router`) grows a tree per router; an inclusion walks the
other tree depth first (`WalkFrom`), lets an identical route through (`AllowDuplicate`) and
stops at any other duplicate under the policy "error". `match_node` is the matcher with backtracking;
the reference is `Covers`, which compares a path with a template segment by segment. `match` adds the
static map, slash forms and 405. `UrlsResolve` follows every URL `url_for` builds back: to the route of that
name, at once or by one redirect, with the values it was built from; or to a node that is tried before the
route's own (`TriedBefore`: a literal, a stricter converter, or an earlier one as strict). Where a replacement took the
handlers of the route's own node the URL stops there, and is no 404. The templates are `AllRoutes` of `MCRequests`,
one `any(...)` among them; two of one name at one place are in the departures below.

### RequestBody and AsgiAdapter

`AsgiAdapter` is one ASGI connection of each scope, the listener loop on a WebSocket
included; its sequence `events` is what it sent. A listener returns, raises, closes its socket itself
or is cancelled at any of its awaits: `pc` ends at "done" or, when a cancellation leaves `_run_websocket`, at "cut", where
the close may be missing. `RequestBody` is several readers
(body, json, form, stream) of one `Request` over the ASGI channel: in turn, together,
or in turn with `stream()`.

### Blueprints

`own`, `errs`, `scoped`, `scopedErrs`, `routes` are the tables of each blueprint, `bpHooks`,
`bpErrs`, `byName`, `mounted` those of the app. `nest` and `register_blueprint` merge them; `HooksFor`
and `find_scoped` are the look-ups of a request. A mounted route also remembers which
blueprints it came through, for the properties. A blueprint may be registered again at the same
prefix: its routes are written again (`SameRoute`, `Placed`), its hooks are not added twice, its error
tables are.

### Services

* `Signals`: the list of subscriptions, the walk of a send by position, weak receivers.
* `Caching`: the table with its order, callers between a miss and the write, the version a
  value was computed from.
* `EventStream`: the pending future of the next event beside the pings that time out on it.
* `Subscriptions`: sinks and listen streams, the walk of a notification over a dictionary
  that changes under it, holes included.
* `RedisLimits`: workers between `GET` and `EXEC`, the script cache, the blind fallback.
* `OAuthGrants`: codes, token families, the set of spent refresh tokens, and stores that
  suspend between a look-up and a write.
* `Reloader`: the supervisor's walk file by file, the child's boot, edits and SIGTERM at any
  point between.
* `TestClients`: the setup lock around several clients, one exchange with the poll that
  decides whether its client left. `LiveServer`: entering and leaving, each await of the
  exit and of a failing startup open to a cancellation; `waits` says whether `Server.wait_closed()` waits for
  the connections, as it does from Python 3.12 on.

### Operators from request to answer

These modules have no state: each is a set of pure operators named after the
functions they translate, with the properties as predicates over a set of cases.

* `Parameters`: a declaration's slot, its value by the interpreter, by the generated code
  and from an MCP call, and whether the published document requires it; the multipart
  machine as a fold over its callbacks; Accept negotiation.
* `Responses`: operations on a response, the middlewares in any order, the bytes written;
  what a returned value becomes, beside `make_response`.
* `FileServing`: the file a path names, its tag, ranges, and what a client joins; mounts, static
  prefixes and the order of middleware.
* `SecurityMiddleware`: CSRF, proxies, https, nonces, hosts and origins; strategy and counter of a
  rate-limited request.
* `Credentials`: schemes, tokens, verifiers, login and logout.
* `TestHarness`: redirects, cookies and framing as the test clients see them.
* `McpCatalogue`: versions, listings, pages, plans, derived tools, sampling transcripts, and JSON
  values put into declared types.

### MCWeb, MCServices and MCRequests

`MCWeb` makes a state of each case: `about` names the operators, `x` the
arguments, and a property reads `about = ... => ...`. `MCServices` and `MCRequests`
are machines of several parts that share nothing: `which` names the part a behaviour
is of and `s1`, `s2`, ... are its variables, bound to the part's own by `INSTANCE ... WITH`.
The states of such a machine are the union of the parts', so nothing is lost against
running each alone. `MCServices` has the fourteen parts without recursive operators: rate limits,
the supervisor, signals, cache, event streams, subscriptions, Redis, the reloader, stdio, test clients,
the live server, the ASGI adapter, body readers and the token endpoint. `MCRequests` has the router,
blueprints, dependency injection and `MCWeb`.
## Runs

Each passing run asks one question of the system. The bounds are the smallest at
which the interesting case occurs; the mutants (at least one per property, see
`PROJECT.json`) show that they are large enough for every property to fail when
the code has a plausible bug.

| Run | Instance | Shows |
|---|---|---|
| `conn_core` | 2 messages of up to 3 units, depth 2, high water 2, cap 2, buffered and streaming routes, drain and recycling, fairness | bodies are drained before the next request, a quiet client is dropped |
| `conn_full` | 2 messages, every kind of message, answer, upgrade and failure at once | types, order of the loop's answers, exclusive timers |
| `life` | 2 lifespans, 2 sub-applications, 2 handlers, 2 tasks, one name, fairness | no teardown is skipped; startup and shutdown come to an end |
| `stop` | `run()` and the worker, before and from Python 3.12; 3 connections, cap 2, 2 requests; fairness | exact admission, at most one more request, the server stops |
| `ws` | native, hand-built and ASGI sockets; handler and helper; up to 3 data frames of 1 byte, queue of 1, messages of 3 bytes; fairness | no message lost while open, the handler of a lost socket unwinds |
| `dispatch` | 2 requests at the latch on one or two loops; 2 middlewares of which the route may exclude one, 2 yield dependencies, 2 background tasks; every error and a cancellation | started dependencies are resumed once, newest first; the first-request hooks run once; every response passes the chain |
| `mcp_http` | 2 sessions over a table of one, 2 POSTs of any kind (one when sessions are shared), a ring of 2 events over 2 streams, 1 task; fairness | no event is lost or repeated; a task settles once (refinement of `TaskLife`); every dispatch ends |
| `sessions` | 2 concurrent calls of up to 2 hops, 2 chunks, sizes to 3, both middlewares, whole and half lifetimes | nothing in flight revives an ended session; the jar never holds chunks of two |
| `services` | per part: 3 clients over a table of 2; 1 restart in a window of 6 over 15 ticks; 3 receivers, 1 send; 2 callers, 3 keys, table of 2, ttl 2; 3 events, 2 pings; 1 peer, 2 streams; 3 processes, budget 3, 2 retries, 5 calls; 1 file, 4 edits, 2 children; 3 messages, calls 2 deep; 3 test clients; 3 connections; bodies to 3 units, limits 1 to 3; 3 readers, 3 chunks; 2 clients, 2 codes, 2 calls, 3 tokens, both stores | see below |
| `requests` | per part: 3 registrations from 12 templates; 3 blueprints, 4 calls; graphs of 3 dependencies; every case of `MCWeb` | see below |

`services` shows that limiters admit within their limits (the sliding window within the estimate it
makes: the limit, weighted by one and the offset in the window, `EstimatedBound`), the
supervisor gives up on tight loops only, calm deliveries of signals, events and
notifications reach everyone once, processes share a Redis budget, the cache keeps its
bounds, the reloader ends up serving what is on disk, stdio calls are serial with contexts of their own and
tear down what they opened (also cancelled ones, unless a teardown lets the cancellation through), test clients closed
in reverse order, their hooks raising nothing, leave no trace, nor does a live server that was left (one whose startup
failed has closed its port), bodies reach handlers and readers that take turns
whole, an accepted socket ends exactly once unless its listener is cancelled, and grants work once.
`requests` shows that the tree matches what templates cover and URLs lead back to their route, hooks
of blueprints follow nesting, dependencies run once, in their scopes and before those they
feed, compiled resolvers agree with interpreted ones on graphs and on values,
`Vary` suffices for caches, ranges joined under `If-Range` are of one version, plans
of tool calls run as declared, one login settles a verifier, a page and its policies
have one nonce, and tool arguments arrive in their types as they were sent.

Their parts share no state; a machine of several parts has the states of each and no
others, so the property of a part means in it what it means alone. Deadlock checking
is off in them, in `MCWeb` because a state is a case, in the others because a behaviour
ends at its bounds (messages read, clock, calls made).

Two messages are enough for the connection: an order or a leftover needs a
request and its successor, and pipelining at depth 1 or 2 already holds one back.
Two tasks are enough for races of the lifespan and of the socket, since every
hazard listed is a race of two actors. The limits (queue 1 or 2, cap 2, table of
2 keys with 3 clients, ring of 2 events) are reached and passed. Two readers, two
codes, two concurrent calls: what a third could do one of the two does in
another behaviour. Graphs of three dependencies have a shared one, a diamond, a
scope over one branch and an uncached repetition.

More of what holds on these instances is stated by definitions that no run lists, since
every listed property costs runs of its mutants. Put in place of the properties of a
run of its module, each is checked without error; those marked * are also proved, or follow from
what is:

* connection: `IdleIsTimed`, `NoAnswerSkipped`, `PausesHaveResumers`, `NothingStartsAfterLoss`,
  `DrainStopsAtBoundary`, `PausedReadingResumes` (the last under fairness);
* lifespan: `TypeOK`*, `RunningIsTracked`*, `FailedStartupUnwinds`*, `TasksAskedToStop`*, `TeardownOrder`*;
  shutdown: `ServerTypeOK`, `NoRequestCut`, `AdmittedDrain`, `BusyKeepsSocket`;
* WebSocket: `TypeOK`*, `CodesMayBeSent`*, `HeartbeatArmed`*, `OneCloseFrame`*, `SilentAfterClose`*,
  `TextIsUtf8`, `ErrorReported`*, `SilentPeerDropped`, `ReceiverWoken`, `HeartbeatSparesLive`*;
* dispatch: `TypeOK`, `TeardownHooksRun`*, `UploadsReleased`*, `ErrorsAnswered`*; the latch alone under
  `FairLatchSpec`: `LatchInv`*, `WaitersProceed`;
* MCP: `EvictedTasksStop`*, `SinksAreRunning`*; sessions: `LoginMovesId`;
* services, of a part alone: `LiveEvictedLast`, `BackoffRespected`, `EofEndsServe` without questions after the end, `TeardownEnds`;
* requests: the other definitions of the first half of `MCWeb`.

Two runs expect a violation: they state what a comment or a test says and show
the code doing otherwise; each has an entry under `findings`:

* `dispatch_unheld` - yield dependencies started before a failing one are not resumed.
* `ws_close_reply` - the peer's reply to this side's Close is never parsed, so `close`
  always waits for its timeout.

### Other departures met while modelling

These are stated by definitions no run lists either: put in place of the properties
of a run of its module (or of its part, alone with the constants `MCServices` or
`MCRequests` gives it) each ends in a counterexample. Those of the connection need the
features `conn_full` turns on, or the longer bodies of `conn_core`, and `RefusalTerminates` a third
message; `FailedStartupLeavesNothing` needs `Native = FALSE`, `DeleteEndsSession` needs
`SharedReq = {1, 2}`; the others that need constants of their own say so. The last list is of `MCWeb`.

Server and lifespan:

* `FullSourceIsPaused` - a body over its mark is fed on, its pause undone by another
  body (`_body.py:201` promises the pause).
* `WireInOrder` - a refusal is written from the parser's callback and overtakes the answer of the request
  before it (`protocol.py:214`, "one loop drains this serially").
* `RefusalTerminates` - the latch of a refusal is cleared by an earlier request.
* `LoopGivesUpOnlyWhenLost` - a handler's own `CancelledError` ends the connection's loop unanswered.
* `UpgradedIsUntimed` - a keep-alive timer runs on an upgraded connection.
* `LossUnwindsLoop` - losing an upgraded connection leaves an earlier handler running.
* `BodyWaitIsTimed` - a message that starts in the segment ending another has no request timer.
* `SpawnedAreDrained` - a task spawned while the drain runs outlives it (`background.py:33`).
* `FailedStartupLeavesNothing` - a failed startup leaves spawned tasks.
* `Stops` under `FairServerSpec` - a WebSocket or stream that does not end keeps the server from stopping
  (`serving.py:299`).
* `RestartsWithinAnyWindow` - the failure count is cleared as a whole, so a burst across that moment has more
  restarts within a window than `max_restarts` (`background.py:97`).
* `ProducerReleased` - a producer parked in `drain` when an upgraded connection is
  lost stays there: the early return of `connection_lost` does not set `_can_write`.
* `HandlersSeeWholeBodies` - `http.disconnect` within a body carries no `more_body`, so the handler runs on
  the part that came.
* `ServesWhatIsThere` with `SlowBoot = FALSE` - a child that imports before the supervisor's first
  walk keeps what an edit in between replaced; with `MtimeSteps = {0, 1}` - so does an edit within
  the granule of the clock;
  `NoOrphans` - a SIGTERM between `Popen` and its assignment, or a second one, leaves the
  child (`reloader.py:204`); `HooksArePaired` - a child told to end too early or killed while it
  drains runs no shutdown hooks.

Dispatch and what it calls:

* `ExcludedNeverRuns` - an excluded middleware sees the answer to an `HTTPException` of
  the request phase: `excluded` is not assigned when that phase raises (`middleware.md:661`).
* `HooksOnceOnAnyLoop` - on loops of several threads the first-request hooks can run
  twice: the flag is not tested again under the guard (`dispatch.py:305`).
* `ToldTheTruth` - a cancelled request resumes its yield dependencies as if it had
  succeeded, since `_exc` is set for exceptions only.
* `BlueprintTornDown` - a blueprint's before hook that raises leaves `_bp_name`
  unbound, so the blueprint's teardown hooks are skipped.
* `FormsReleased` - a form first parsed after background tasks were scheduled is
  closed by nobody.
* `NoStragglers` - when a dependency of a wave fails the others run on, after the teardowns of
  the request.
* `CachedRunsOnce` with `over` mapping two dependencies to one - waves are computed on the callables
  before overriding, so that one callable runs twice.
* `MatchIsCovered` with two templates that differ in their `any(...)` alternatives - such
  parameters of one name share a node, so a route is matched by those of another (`routing.md:89`);
  `ParamsAreTheRoutes` - the parameter of a failed branch stays in `path_params`; `NamesAreLive` -
  replacing two methods of one route leaves its name; `RefusedChangesNothing` - a refused registration has already
  marked the slash form of its template.
* `HooksFollowRoutes`, `OnlyItsOwnHooks` with equal `NameOf`, `AppHandlersAreFallback` - hooks added after a blueprint was merged,
  or after a registration that raised, miss its routes; two blueprints of one dotted name share hooks; an
  app handler for a status goes before a blueprint's for its class.
* `EveryReaderGetsTheBody` - readers of one wave take chunks from each other, although `body()` returns "the
  full request body" (`request.py:1347`); after `stream()` the body reads as empty;
  `UploadsAreAlwaysKnown` - a form parsed by two at once leaves the files of the first open.
* `AcceptedAreClosed` - a listener that is cancelled leaves its accepted socket without a close: no
  `except` clause of `_run_websocket` takes a `CancelledError`.
* `SendReachesAll`, `DisconnectedStaysOut` - a receiver that disconnects within a send hides the next one, and comes
  back when a dead reference is pruned.
* `DeleteIsFinal` - a value computed before a delete is stored after it.
* `SourceIsClosed` - a stream left at an event does not close its source.
* `BudgetAlwaysHolds` - after the last retry the write is blind, so contention admits more.

MCP:

* `DeleteEndsSession` - the write-back of a request under way puts the record of a session back
  after its DELETE was answered, and the next request adopts it; `ListenLasts` - the end of
  any other request of the session forgets its listen streams.
* `EveryTeardownRuns` - a teardown that lets a cancellation through keeps those of the older dependencies of
  a call from running (`dependency.py:744`, `dependency-injection.md:395`); `EofEndsServe` - a tool that asks the client after the end of the input waits for ever.
* `FanOutReachesAll` - a stream that opens or closes during a notification ends it with the
  iterator's error, and the rest are not told.
* `ReplayEndsAlways` - with a store that suspends, a rotation under way when its family is revoked
  saves a live pair; `RefreshOutlivesAccess` - using an expired access token once removes the refresh token.
* A message read twice with one JSON-RPC id overwrites the holder of the first, whose cancellation
  is then lost; a stdio call that waits for its turn is not found by a cancellation
  either; adopting a session from the backend does not count against `max_sessions`; a task
  bound before its session is evicted keeps running without an owner. The models do all of this.

Test tools: `LockAlwaysComesBack` - the setup lock is not put back when clients close out of order or a
hook raises (`testclient.py:1441`); `ServedOnceStarted` - the live server answers before its startup hooks ran;
`RefusedIsEmpty` - a live server whose startup failed leaves connections open: before Python 3.12
`wait_closed()` does not wait for them, and a cancelled wait does not either; `FailedStartupEnds` - from 3.12 on
it waits for connections nobody forces.

The operators (`MCWeb`):

Each of these states what should hold and does not:

* `RequiredIsRefused` - A missing required parameter is a 422 (parameters.md:345).
* `ModelsAreBuilt` - A model given to a handler by an MCP call was validated.
* `BodilessHasNoBody` - A stream under a status without a body sends none (response.py:1154).
* `CacheKeptFor` - An answer for any origin may be cached for any (cors.py:152).
* `TagsAreOfSentBytes` - An ETag is of the bytes sent (middleware.md:240).
* `RevalidationAnyOrder` - RevalidationWorks in any order of the middlewares.
* `HeadMatchesGet` - HEAD answers as GET would, without the body (protocol.py:1089).
* `UnknownIsOmitted` - A 304 announces no length it does not know (response.py:203).
* `EncodedIsCurrent` - A cached encoding is of the response as it is.
* `PartsWithinASecond` - PartsOfOneVersion for versions of the same second.
* `TagsTellSizesApart` - Files of different sizes have different tags (static-files.md:175).
* `LengthIsKept` - As many bytes follow as were announced when the file changes.
* `FirstFormPasses` - The first form after a safe request passes.
* `DuplicatesAreRefused` - A version registered twice is refused (mcp.md:1295).
* `PagesSurviveRemovals` - PagesAreComplete also when the entry a cursor names is removed (mcp.md:2326).
* `RanIsReported` - What ran is in the report of the plan.
* `DerivedNamesAreApart` - Two arguments of a derived tool have two names.
* `NotificationsAreUnanswered` - A notification is not answered (server.py:607).
* `CallsAreToldAsTheyEnd` - A call is counted as it ended.
* `AnyMountsAreApart` - MountsAreApart with prefixes written with a final slash.
* `StaticStaysUnderPrefix` - A static directory answers under its prefix only.
* `LabelsFollowBodies` - A request without body has no content type.
* `RefusalsChallenge` - A 401 says how to authenticate.
* `StrictFormsAgree` - Both forms of the strict grant type accept the same.
* `RehashNeverWeakens` - An upgrade never lowers a cost.
* `BoundsAreUsable` - Costs within the published bounds are accepted (passwords.py:48).
* `PrincipalIsKept` - What a principal says does not depend on which request asks.
* `NothingOfAnother` - A session that changed hands holds nothing of another (session.py:178).
* `TagsAreOfTheirHandler` - A decorated limit is that of the handler that runs (ratelimit.py:353).
* `OnlyChangesAreTold` - Only the lists that changed are told (context.py:696).
* `EveryPageHasItsNonce` - A page that asks gets the nonce of the policy sent.
* `PolicyIsSent` - A nonce policy enforced outermost is the one sent.
* `BracketsMayBeListed` - An IPv6 host may be listed as headers spell it.
* `UndeclaredAlwaysDrop` - UndeclaredFieldsDrop for any value.
* `ExplicitStatusWins` - A tuple overrides the status of its route (requests-responses.md:358).
* `TuplesUnderModels` - A tuple means the same under a response model (requests-responses.md:294).
* `MadeAlwaysAsDispatched` - MadeAsDispatched for a tuple in a tuple.
* `ToldNotCorrected` - A value of the wrong JSON type is refused (plan_bridge.py:664).
* `TextStaysText` - A text sent where one is declared stays one.

The models also admit, as what the code does: a data frame or a PONG after the
Close frame, when it was parked for back-pressure before; messages queued before a
close that the application can no longer receive; a heartbeat that is never armed
on the native path; a sliding window that is an estimate, with a `retry_after` that
can be too short; before Python 3.12, a connection admitted late and cut.

Deadlock checking is off where the system may rest: a connection that is lost, a
server that has stopped, a clock at its bound.

### Further hazards

`PROJECT.json` lists forty hazards and the runs' properties for them. Others, with the
definition about each, unlisted or a conjunct of a run's property:

* `serving/protocol.py:679` - One pause bit for the socket, one _paused flag per body: draining
  one body resumes the socket while another is over its mark (PausesHaveResumers).
* `serving/protocol.py:975` - Reading stops at MAX_PIPELINE_DEPTH queued requests; if it is not
  resumed on the way down the client waits for ever (PausedReadingResumes, PausesHaveResumers).
* `serving/protocol.py:596` - The connection is lost between two steps of the server loop; no
  queued request may start afterwards (NothingStartsAfterLoss).
* `app/background.py:275` - A task spawned while the drain waits is dropped from the registry
  without having been cancelled (RunningIsTracked).
* `app/lifecycle.py:446` - One of several startup steps fails after earlier ones entered
  lifespans, started sub-applications and spawned tasks (FailedStartupUnwinds).
* `ratelimit.py:179` - A client that waits for exactly retry_after is refused again
  (RetryIsHonest).
* `ratelimit.py:346` - At max_keys an insertion evicts: a live counter thrown out while an
  expired one stays gives its client a fresh limit (LiveEvictedLast).
* `ratelimit.py:244` - A token bucket refilled lazily at fractional rates must not hand out more
  than burst plus rate times time (BucketBound).
* `app/serving.py:309` - The drain waits for the tasks of one moment while a late connection
  starts another (NoRequestCut).
* `app/serving.py:319` - The shutdown latch is cleared while a handshake is still to be admitted
  (AdmittedDrain).
* `websocket.py:1159` - The parser, two tasks, the idle timer and the dispatcher can all close;
  two flags tell who owes the Close frame (OneCloseFrame, SilentAfterClose).
* `websocket.py:1590` - _raw_send tests _closed before it parks in drain and writes after it,
  when the socket may have been closed; a PONG deferred by back-pressure likewise
  (SilentAfterClose).
* `websocket.py:214` - A code point split over fragments, surrogates and overlong forms in an
  incremental validator (TextIsUtf8).
* `websocket.py:1512` - A heartbeat tick races the answer of a live peer; a window with traffic
  has to arm the next one (HeartbeatSparesLive).
* `app/asgi.py:415` - The handler raises and, while it closes, the peer is gone and the task
  cancelled: the error must not be lost (ErrorReported).
* `app/dispatch.py:583` - An early answer, an error, an error of the error handler or a failing
  teardown must not skip the teardown hooks (TeardownHooksRun, ErrorsAnswered).
* `app/dispatch.py:607` - Background tasks outlive dispatch and read the uploads that its
  finally would close (UploadsReleased).
* `middleware/sessions.py:839` - A session id handed out before a login is still good after it
  when the login races other writes of the session (LoginMovesId).
* `routing/router.py:1271` - Backtracking out of a parameter that accepted the segment but led
  nowhere: a route registered later hides one that was reachable (UrlsResolve).
* `routing/router.py:344` - The static map is a cache of the tree that every registration and
  inclusion has to drop, and it answers before the tree is asked (StaticMapAgrees).
* `dependency.py:1244` - The scope stack is one list for all dependencies of a request, and a
  dependency takes off as many entries as it pushed, whoever pushed last (OwnScopes).
* `contrib/mcp/plan_bridge.py:652` - A value from an MCP call has its JSON type already; a path
  of the bridge that skips the coercion hands the handler a value its annotation excludes
  (TypedOrRefused).
* `contrib/openapi.py:212` - The document, the resolver and the MCP bridge each decide on their
  own whether a parameter may be left out (OptionalMayBeOmitted).
* `middleware/compression.py:390` - A middleware replaces the body or the stream of a response
  whose Content-Length was set before it; a stale length moves the end of the message
  (FramedAsAdvertised).
* `middleware/conditional.py:38` - The tag is made from bytes that another middleware changes
  later, or that differ each time; the client then never revalidates, or keeps an old
  representation (RevalidationWorks).
* `contrib/staticfiles.py:153` - Two functions compute the bytes of a range, each with its own
  handling of an open end, a suffix longer than the file and an empty file (RangesAreExact).
* `contrib/staticfiles.py:486` - The tag of a path is remembered across requests and outlives
  the file it was computed from (TagsTellTimesApart).
* `http/formparsers.py:404` - A form is refused in the middle of a part, after earlier parts
  opened temporary files (NoSpoolLeaks).
* `http/formparsers.py:224` - Six limits are counted at different callbacks: a part without
  data, without a name or with a filename takes another path through them (LimitsAreExact).
* `http/datastructures.py:828` - A refusal of a media type hidden behind a wildcard with a
  higher weight, or the reverse (NegotiatedIsWanted).
* `middleware/csrf.py:170` - A client whose token cookie expired is refused for good if the
  refusal does not replace the cookie (EchoingPasses).
* `middleware/proxy_fix.py:267` - A list of hops of which the client wrote the first ones,
  counted from the wrong end or off by one (ProxyIsBelieved).
* `contrib/mcp/pagination.py:49` - The catalogue changes while a client walks its pages: what
  stays in it must not be skipped or listed twice (PagesAreComplete).
* `contrib/mcp/server.py:1069` - A list that differs between callers is marked public and served
  by a gateway to another (PublicIsShared).
* `contrib/mcp/registry.py:142` - add() compares a version with that of the listed tool only:
  1.0, 2.0 and then 1.0 again silently replaces the first (VersionsAreKept).
* `app/core.py:897` - The name is recorded before the routes are added: after a duplicate route
  raises, registering again under another prefix skips the hooks (OnlyItsOwnHooks).
* `sse.py:264` - The wait for the next event is cut by a ping: the event it was for must not be
  lost (PingsLoseNothing).
* `liveserver.py:407` - Every phase of the exit must run although an earlier one was cancelled
  or raised, and no connection may outlive the registry that can force it (TeardownIsComplete).
* `security/session.py:166` - A login over a session somebody else logged into: what the earlier
  login wrote must not be read as the later one's (LastLoginCounts).
* `passwords.py:173` - The memory asked of scrypt, 256*n*r*p, passes what hashlib takes for
  costs the bounds of the file still permit; the login is then answered as a wrong password
  (RehashSettles).
* `security/jwt.py:155` - A token at the very instant of its expiry, or of its beginning, with
  leeway on both sides (TokensLiveTheirLife).
* `middleware/security.py:570` - Limits are kept by route template: two methods of one template
  share a tag and its counter, the untagged one too (OneStrategyPerCounter).
* `contrib/mcp/context.py:514` - A model that asks for tools in every round, for tools that were
  not offered, or again in the round that offers none (TranscriptsAreAnswered).
* `app/dispatch.py:1224` - A handler returns an instance of a subclass of its response model,
  whose further fields the model was to keep off the wire (UndeclaredFieldsDrop).

### Fairness

* `HttpConnection`: a callback that holds the loop finishes (weak fairness); a
  ready task is scheduled by asyncio's FIFO ready queue, and a due timer fires,
  although other work may disable them in between (strong fairness; messages are
  finite in number). Nothing is assumed of the peer, the handler, a stream or a
  refusal being built.
* `AppLifespan`: the engine takes its next step, `asyncio.wait` honours its
  timeout. Tasks may never end.
* `ServerShutdown`: the shutdown coroutine steps, timers fire, handshakes end,
  closing sockets are lost. `FairHandlersSpec` adds that streams and WebSocket
  handlers end; `stop` needs it and `Stops` under `FairServerSpec` shows why.
* `FirstRequest` (`FairLatchSpec`): a request that can go on does, and hooks
  that have started end.
* `WebSocket`: ready tasks run, armed timers fire, a closing transport is lost in
  the end. Nothing is assumed of the peer or of what the tasks do.
* `McpHttp`: a dispatch that can take its next step does, cancellations are
  delivered, and tools return; listens and links are left to the client.
* `McpStdio` (alone): dispatches step and the reader notices the end of the input.
* `LiveServer` (alone): the exit takes its next step, and waits that have a timeout end.
## Proofs

Eight modules hold the theorems; `PROJECT.json` lists those a reader should know of.
Each safety proof has the same shape: an inductive invariant that contains the
property or implies it, the lemmas that each action preserves each of its parts,
and a temporal step that combines `Init => Inv`, `Inv /\ [Next]_vars => Inv'` and
`Inv => Property`. The parts of an invariant are named for what they say, and
below is why each is needed: none of these properties is inductive as it stands.

**`HttpConnectionProofs`** (any number of messages, any limits)

* `TypeCorrect`, `TimersNeverTogether`: types; the two timers are never both scheduled.
* `AnswersInOrder`: the loop's answers are written in request order and none cuts
  into another. `OrderInv` adds that queued requests are in increasing order
  (`QueueInOrder`), that all the loop has written is of a request before those queued or
  served (`WireBehindQueue`), and that tasks work on messages that exist
  (`ActorsHaveMessages`).
* `BodiesNeverLeftBehind`: no request is left on an open connection with its body unread, and
  a buffered handler had all of its body. `BodyInv` ties each place of a request (queued,
  in the loop, behind it) to the state of its body source, and says that the loop unwinds
  only on a connection that is closing. That is false of a handler that ends in a `CancelledError` of
  its own, so the theorem has the hypothesis `~HandlerMayCancel`; `LoopGivesUpOnlyWhenLost`
  below shows what such a handler does.

**`LifecycleProofs`** (any number of lifespans, sub-applications, handlers and tasks; any
finite set of connections and any cap)

* `LifespanTypes`, `TeardownIsWhole`, `FailedStartupIsUnwound`, `TornDownInOrder` (an action
  property), `TasksStayTracked`, `TasksAreAsked` (an action property): the startup and
  shutdown engine with its tasks. `LifeInv` is `EngineType`, `EngineInv`, `TasksType` and
  `TasksInv`. `EngineInv` relates where the engine stands to what has been acquired: what is
  on the exit stack and in `_started_subapps` is exactly what the steps before it left
  there. `TasksInv` says that what a drain waits for was asked to stop and that what is
  registered when it ends was waited for or came late.
* `AdmissionIsExact`: the counter equals the number of connections that hold a
  place, never above the cap. `PlaceInv` ties it to the sockets that are open or closing.
* `StopsAtTheBoundary`: a connection told to stop completes at most one more
  request; `StopInv` says that one that has done so is retired.

**`DispatchProofs`** (any set of requests, any chain of middlewares, any subset a route
excludes, any number of yield dependencies)

* `HooksRunOnce` is about the latch alone: `LatchInv` adds that the claim is held by who runs
  the hooks or is about to give it up, that a claim is given up after the flag is set, and
  that on one loop nobody stands between the test and the claim.
* `DispatchKeepsLatch`: dispatch implements the specification of the latch, step for step;
  `DispatchRunsHooksOnce` is the corollary.
* `DependenciesAreTornDown`, `ResponsesPassTheChain`, `TeardownHooksRunOnce`, `UploadsAreReleased`,
  `ErrorsAreAnswered`: from `DispatchInv`, whose parts follow the position of the request
  (`FlowInv`), the resolver's stack (`DepsInv`), hooks and background tasks (`HooksInv`, `UploadsInv`),
  the chain a response has still to pass (`ChainInv`) and which error is pending (`ErrorInv`).

**`WebSessionsProofs`** (any number of concurrent calls, values and chunks)

* `SessionTypes`, `EndedIdsStayEnded`, `JarHoldsOneSession`. Besides the types `SessionInv` says where a
  session's id or pieces may be at all (the store, the jar, a call, an answer under
  way: `PlacesInv`), and that the cookies of one answer are the pieces of one value, in order
  (`CookiesInv`).

**`McpHttpProofs`** (any number of sessions, requests, listens and tasks; any ring)

* `TasksKeepTheirPromise`: `McpHttp` implements `TaskLife` under the mapping
  `state <- Polled`. `TasksMade` adds that what is registered or running has been made. `TaskStep`
  says what a step may do to tasks at all; one lemma per operation of the registry
  shows it a `TaskStep`, `TransportStep` that an action of the transport makes one of these
  steps or none, `StepIsPromised` that a `TaskStep` moves what is polled as `TaskLife` allows.
* `StreamsAreExact`, `HttpTypesKept`, `SinksBelongToRunners`, `DroppedTasksAreCancelled`: from `HttpInv`,
  that is `StoreInv` (the table and its objects), `ReqInv` (requests and what they may hold),
  `StreamInv` (what was sent, what waits, what arrived and the ring that replays it) and
  `SilentBeforeStart`, which makes the others inductive: a request that has not started
  has sent nothing.

**`WebSocketProofs`** (any driver, frames, payloads and bounds)

* `SocketTypes`; `NothingLost`: while a socket is open, what was delivered and what is queued
  are exactly the messages the peer completed; `SocketClosesOnce`, `HandlerErrorsReported`,
  `HeartbeatGuards`. `SocketInv` has `Receiving` (completed = delivered, then queued, then in
  assembly), `Shut` and `HeldBack` (who may still write, and what drain or back-pressure
  holds back), `Counted` and `Last` (one Close frame, with nothing but what was held back
  after it), `Noted` (the handler's error), `Guarded` (the heartbeat).

**`MCServicesProofs`** and **`BodiesAndGrantsProofs`** (the parts of `MCServices`, for any value
of their constants)

* `ServicesInv` is a conjunction `which = <part> => <invariant of the part>`, and `OneService` says that a
  step is one of the part a behaviour is about. `BudgetIsShared` rests on what a process read of the counter
  still standing while its watch does (`RedisInv`); `BreakerHolds` on the failure window being the
  last ends of runs (`SupInv`); `StdioCallsAreSound` on the order in which messages are read and begun (`OrderInv`)
  and on the shape of the stack of calls (`FramesInv`: what is past its teardowns has run them, or one of them let a
  cancellation through); `HarnessIsClean` on who opened the lock in which
  order (`ClientsInv`) and which resource each phase of the exit has left (`LiveInv`), for both behaviours
  of `wait_closed()`; `DeliveriesArrive` on
  the place of a walk over subscriptions that change under it (`SignalInv`, `SubsInv`) and on the event
  that a ping cut off being held by its future (`StreamInv`); `CacheStaysInBounds` on `CacheInv`.
* `ServerRunsItsFiles` assumes distinct modification times (`MtimeSteps = {1}`) and a child that
  imports after the first walk (`SlowBoot`): without either it is false (below). `TimedInv` carries them.
* `BodiesArriveWhole`: `AdapterInv` follows the events the ASGI adapter has sent (`HttpInv`,
  `ListenerInv`: which end of its socket a listener has met where it stands); `BodyInv` says that readers take their turn (`Turns`), what the one reading and those
  done hold of the body (`Reading`, `Drained`) and which forms are known (`FormsKnown`).
* `GrantsWorkOnce`: `GrantsInv` says that a code that was taken is gone from the store (`CodesUsedUp`,
  `TakenIsGone`), that one refresh token of a family is good or in a call's hands
  (`OneOfAFamily`) and, of stores in memory, that what was spent is remembered (`Remembered`).

Assumptions are the named `ASSUME`s of the modules: bounds are naturals, sets that are counted are
finite, sets of options are subsets of the options there are. TLC evaluates them in the runs. What a
theorem needs beyond them is among its hypotheses: `~HandlerMayCancel`, and `SlowBoot` with
`MtimeSteps = {1}`.

Facts about numbers of steps or bytes (a fold over a fragment, a sum, the length of a
filtered list) are proved by `SetInduction`: a set that holds 0 and with n also n + 1 holds every natural,
which follows from the pigeonhole of finite sets.

### Model-checked only

* Liveness: `QuietClientIsDropped`, `EngineSettles`, `Stops`, `HandlerUnwinds`, `RunnersEnd`. The provers handle
  neither `ENABLED` nor fairness.
* `AdmittedWithinLimits`: sums over windows, and products of rates and times, which
  the arithmetic of the provers does not reach.
* `TextIsUtf8`: that the incremental validator agrees with the definition of UTF-8 is
  an enumeration of byte classes.
* The properties of `requests`. `Routing` and `Injection` are recursive over trees and graphs, by `RECURSIVE` operators,
  which no module with a theorem may reach; the operators of `MCWeb` are pure, and their
  properties are over finite tables of cases that the run visits completely. So are the unlisted
  definitions below that no theorem names.

### What the proofs changed

Attempts that failed showed where the models said something else than the code, or
a property more than it should: two actions of `WebSessions` overlapped after the first hop
of a redirect; `Reloader` did not tell two versions of a file with one time apart, and
`ServesWhatIsThere` had to except a file that came and went between two polls, whose module may stay
imported; premises of `StreamExact` were redundant; a bound object of `McpHttp` may be in its
creation phase. Each change was checked again by the runs and the mutants.
## Plan

Modelled, checked and proved: connection, server stop, lifespan, dispatch, WebSocket, MCP over
HTTP and stdio, sessions, the services, the ASGI adapter, body readers and the token endpoint.
What is left, in this order:

1. An abstract FIFO server that `HttpConnection` implements while no refusal is made.
2. The bounds of the fixed window and of the token bucket as theorems, one strategy a module.
3. `Routing` and `Injection` with recursive functions in place of operators, so that theorems can reach them.
4. Probes with timeouts (`health.py`), the master process of the workers, WebSocket
   sessions of the test client, class and threaded dependencies.

## Not modelled

Bytes and header contents, TLS, forking, templates, OpenAPI generation but for what it
requires, the command line, cryptography and encoders: they hold no control state
worth exploring. Within what is modelled the notes of `PROJECT.json` name what each
component leaves out: for the most part the decoding of payloads, the text of headers and
rarely used options. `MCP` prompts, completion and composition of servers follow the paths of tools.

Small things seen in passing that no model is about: a synchronous receiver that raises in the
middle of `asend` leaves the coroutines made before it unrun, which its docstring does not say;
`request()` of the test client drops `params` when a body is given; `json()` returns a value kept by a
forced `get_json` although the content type is not JSON.
