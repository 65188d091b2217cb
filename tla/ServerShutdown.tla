--------------------------- MODULE ServerShutdown ---------------------------
(***************************************************************************)
(* The native server around its connections: admission against the         *)
(* concurrency cap, the set of tracked dispatch tasks, and the two-phase   *)
(* graceful shutdown of Veloce.run() (app/serving.py) and of VeloceWorker  *)
(* (workers.py).  A connection is reduced to what shutdown sees of it: its *)
(* socket, the task that serves it and its pipelined follow-ups.           *)
(***************************************************************************)
EXTENDS Integers, FiniteSets

\* The deployments there are: see mode.
Deployments == [worker : BOOLEAN, awaits : BOOLEAN]

CONSTANTS
    Conns,        \* the connections; each is accepted at most once
    Cap,          \* MAX_CONCURRENT_CONNECTIONS
    Modes,        \* the deployments: [worker, awaits], see mode
    MaxHandled,   \* the worker's max_requests; 0 never recycles
    MaxQueue,     \* bound: pipelined requests waiting on one connection
    MaxRequests   \* bound: requests in a behaviour

ASSUME ServerAssumption ==
    /\ IsFiniteSet(Conns)
    /\ {Cap, MaxHandled, MaxQueue, MaxRequests} \subseteq Nat
    /\ Modes \subseteq Deployments

VARIABLES
    mode,       \* worker: VeloceWorker serves, not Veloce.run();
                \* awaits: wait_closed() awaits connections (Python 3.12+)
    phase,      \* where run() is, from "serving" to "stopped"
    accepting,  \* the listener is open
    latch,      \* _SHUTTING_DOWN
    alive,      \* the worker's flag behind should_keep_serving
    handled,    \* the worker's request counter nr
    sock,       \* per connection: its transport
    hand,       \* per connection: what its task is doing
    queue,      \* per connection: pipelined requests waiting
    draining,   \* connections with _draining set
    counted,    \* connections with _counted set
    live,       \* _live_connections
    count,      \* _active_connections
    active,     \* connections with a task in _active_tasks
    cancelled,  \* connections whose task was cancelled and still unwinds
    waitedFor,  \* the tasks asyncio.wait was given
    cut,        \* history: requests cancelled before any timeout elapsed
    extra,      \* history: requests completed after being told to stop
    requests    \* requests so far, for the bound

connVars == <<sock, hand, queue, draining, counted, live, count>>
dispatchVars == <<active, cancelled>>
workVars == <<alive, handled, mode>>
phaseVars == <<phase, accepting, latch, waitedFor>>
histVars == <<cut, extra, requests>>
serverVars == <<connVars, dispatchVars, workVars, phaseVars, histVars>>

\* The event loop runs until run() returns.
LoopRuns == phase # "stopped"

\* Connections the asyncio server has attached.
Attached == {c \in Conns : sock[c] \in {"accepted", "open", "closing"}}

Serving == {"handler", "streaming"}

\* on_request_complete and should_keep_serving are installed.
Hooked == mode.worker /\ phase \notin {"lifecycle", "stopped"}

-----------------------------------------------------------------------------
(* Admission and loss of a connection.                                      *)

Accept(c) ==
    /\ LoopRuns /\ accepting /\ sock[c] = "none"
    /\ sock' = [sock EXCEPT ![c] = "accepted"]
    /\ UNCHANGED <<hand, queue, draining, counted, live, count,
                   dispatchVars, workVars, phaseVars, histVars>>

UnderCap == count < Cap

\* connection_made; under TLS it waits for the handshake.
ConnectionMade(c) ==
    /\ LoopRuns /\ sock[c] = "accepted"
    /\ IF UnderCap
         THEN /\ sock' = [sock EXCEPT ![c] = "open"]
              /\ count' = count + 1
              /\ counted' = counted \cup {c}
              /\ live' = live \cup {c}
              /\ draining' = IF latch THEN draining \cup {c} ELSE draining
         ELSE /\ sock' = [sock EXCEPT ![c] = "closing"]
              /\ UNCHANGED <<count, counted, live, draining>>
    /\ UNCHANGED <<hand, queue, dispatchVars, workVars, phaseVars, histVars>>

\* The handshake fails or times out: the protocol never hears of it.
HandshakeFails(c) ==
    /\ LoopRuns /\ sock[c] = "accepted"
    /\ sock' = [sock EXCEPT ![c] = "lost"]
    /\ UNCHANGED <<hand, queue, draining, counted, live, count,
                   dispatchVars, workVars, phaseVars, histVars>>

\* Mutant: every lost connection gives a place back, counted or not.
ReleasedAlways(c) == count - 1

\* What _active_connections is once connection c is lost.
Released(c) == IF c \in counted THEN count - 1 ELSE count

\* connection_lost: a serving loop or WebSocket task is cancelled, a handler
\* that outlived its timeout is not.
ConnectionLost(c) ==
    /\ LoopRuns /\ sock[c] \in {"open", "closing"}
    /\ sock' = [sock EXCEPT ![c] = "lost"]
    /\ count' = Released(c)
    /\ counted' = counted \ {c}
    /\ live' = live \ {c}
    /\ queue' = [queue EXCEPT ![c] = 0]
    /\ cancelled' = IF hand[c] \in Serving \cup {"ws"}
                      THEN cancelled \cup {c} ELSE cancelled
    /\ UNCHANGED <<hand, draining, active, workVars, phaseVars, histVars>>

\* _keep_alive_timeout or, once bytes arrived, _request_timeout: no request is
\* being served.
KeepAliveTimeout(c) ==
    /\ LoopRuns /\ sock[c] = "open" /\ hand[c] = "none"
    /\ sock' = [sock EXCEPT ![c] = "closing"]
    /\ UNCHANGED <<hand, queue, draining, counted, live, count,
                   dispatchVars, workVars, phaseVars, histVars>>

-----------------------------------------------------------------------------
(* Requests.                                                                *)

\* A request's headers are complete: it is queued, or starts the serve loop.
RequestArrives(c) ==
    /\ LoopRuns /\ sock[c] = "open" /\ requests < MaxRequests
    /\ requests' = requests + 1
    /\ \/ /\ hand[c] = "none"
          /\ hand' = [hand EXCEPT ![c] = "handler"]
          /\ active' = active \cup {c}
          /\ UNCHANGED queue
       \/ /\ hand[c] \in Serving /\ queue[c] < MaxQueue
          /\ queue' = [queue EXCEPT ![c] = @ + 1]
          /\ UNCHANGED <<hand, active>>
    /\ UNCHANGED <<sock, draining, counted, live, count, cancelled,
                   workVars, phaseVars, cut, extra>>

\* A WebSocket handshake on an idle connection.
Upgrade(c) ==
    /\ LoopRuns /\ sock[c] = "open" /\ hand[c] = "none"
    /\ requests < MaxRequests
    /\ requests' = requests + 1
    /\ hand' = [hand EXCEPT ![c] = "ws"]
    /\ active' = active \cup {c}
    /\ UNCHANGED <<sock, queue, draining, counted, live, count, cancelled,
                   workVars, phaseVars, cut, extra>>

\* The handler answers with a stream, which no timeout covers.
StreamStarts(c) ==
    /\ LoopRuns /\ hand[c] = "handler" /\ c \notin cancelled
    /\ sock[c] = "open"
    /\ hand' = [hand EXCEPT ![c] = "streaming"]
    /\ UNCHANGED <<sock, queue, draining, counted, live, count,
                   dispatchVars, workVars, phaseVars, histVars>>

\* Mutant: a draining connection goes on with its follow-ups.
KeepsServingDraining(c, keep) == keep /\ (Hooked => alive')

\* After a response: Connection: close, draining, then should_keep_serving.
KeepsServing(c, keep) == keep /\ c \notin draining /\ (Hooked => alive')

\* _serve goes on with a pipelined request.
TakesNext(c, keep) == KeepsServing(c, keep) /\ queue[c] > 0

\* The response is complete; the hooks run and _serve decides what is next.
RequestDone(c) ==
    /\ LoopRuns /\ hand[c] \in Serving /\ c \notin cancelled
    /\ handled' = IF Hooked THEN handled + 1 ELSE handled
    /\ alive' = (alive /\ ~(Hooked /\ MaxHandled > 0 /\ handled' >= MaxHandled))
    /\ phase' = IF ~alive' /\ phase = "serving" THEN "signalled" ELSE phase
    /\ \E keep \in BOOLEAN :
         /\ hand' = [hand EXCEPT ![c] =
                        IF TakesNext(c, keep) THEN "handler" ELSE "none"]
         /\ queue' = [queue EXCEPT ![c] = IF TakesNext(c, keep) THEN @ - 1 ELSE 0]
         /\ active' = IF TakesNext(c, keep) THEN active ELSE active \ {c}
         /\ sock' = [sock EXCEPT ![c] = IF KeepsServing(c, keep) THEN @ ELSE "closing"]
    /\ extra' = [extra EXCEPT ![c] =
                    IF c \in draining \/ (Hooked /\ ~alive) THEN @ + 1 ELSE @]
    /\ UNCHANGED <<draining, counted, live, count, cancelled, mode,
                   accepting, latch, waitedFor, cut, requests>>

\* REQUEST_HANDLER_TIMEOUT: a 504 is written, the connection closes, and the
\* handler runs on, tracked by itself.
HandlerTimeout(c) ==
    /\ LoopRuns /\ hand[c] = "handler" /\ c \notin cancelled
    /\ hand' = [hand EXCEPT ![c] = "detached"]
    /\ sock' = [sock EXCEPT ![c] = "closing"]
    /\ queue' = [queue EXCEPT ![c] = 0]
    /\ UNCHANGED <<draining, counted, live, count,
                   dispatchVars, workVars, phaseVars, histVars>>

\* A WebSocket or detached handler returns, or a cancelled task has unwound;
\* only the WebSocket closes its connection on the way out.
DispatchEnds(c) ==
    /\ LoopRuns /\ (hand[c] \in {"ws", "detached"} \/ c \in cancelled)
    /\ hand' = [hand EXCEPT ![c] = "none"]
    /\ active' = active \ {c}
    /\ cancelled' = cancelled \ {c}
    /\ sock' = [sock EXCEPT ![c] =
                    IF hand[c] = "ws" /\ @ = "open" THEN "closing" ELSE @]
    /\ queue' = [queue EXCEPT ![c] = 0]
    /\ UNCHANGED <<draining, counted, live, count, workVars, phaseVars, histVars>>

-----------------------------------------------------------------------------
(* Shutdown.                                                                *)

\* SIGINT or SIGTERM: run() closes its listener at once, the worker clears
\* alive and keeps accepting until its loop wakes.
Signal ==
    /\ phase = "serving"
    /\ phase' = "signalled"
    /\ IF mode.worker THEN alive' = FALSE /\ UNCHANGED accepting
                 ELSE accepting' = FALSE /\ UNCHANGED alive
    /\ UNCHANGED <<connVars, dispatchVars, handled, mode, latch, waitedFor, histVars>>

\* begin_drain closes a connection with no serving loop and an empty queue;
\* it does not look at a WebSocket's task.
Idle(c) == sock[c] = "open" /\ hand[c] \notin Serving

DrainCloses == {c \in live : Idle(c)}

\* Mutant: begin_drain only closes what is idle.
QuiescedIdle == draining \cup DrainCloses

Quiesced == draining \cup live

StartGracefulDrain ==
    /\ latch' = TRUE
    /\ draining' = Quiesced
    /\ sock' = [c \in Conns |-> IF c \in DrainCloses THEN "closing" ELSE sock[c]]

\* _serve wakes: phase one, before the listener is awaited.
WakeAndDrain ==
    /\ phase = "signalled"
    /\ phase' = "leaving"
    /\ accepting' = FALSE
    /\ StartGracefulDrain
    /\ UNCHANGED <<hand, queue, counted, live, count,
                   dispatchVars, workVars, waitedFor, histVars>>

\* Mutant: phase two starts with connections still attached.
LeaveServerEarly ==
    /\ phase = "leaving"
    /\ phase' = "waiting"
    /\ StartGracefulDrain
    /\ waitedFor' = active
    /\ UNCHANGED <<accepting, hand, queue, counted, live, count,
                   dispatchVars, workVars, histVars>>

\* asyncio.Server.wait_closed returns and phase two starts; asyncio.wait is
\* given the tasks of this moment.
LeaveServer ==
    /\ phase = "leaving"
    /\ mode.awaits => Attached = {}
    /\ phase' = "waiting"
    /\ StartGracefulDrain
    /\ waitedFor' = active
    /\ UNCHANGED <<accepting, hand, queue, counted, live, count,
                   dispatchVars, workVars, histVars>>

\* Stragglers are cancelled and forgotten, the latch is cleared by run(), the
\* hooks are detached by the worker.
CancelStragglers ==
    /\ phase' = "lifecycle"
    /\ cancelled' = cancelled \cup active
    /\ active' = {}
    /\ latch' = (latch /\ mode.worker)
    /\ UNCHANGED <<connVars, workVars, accepting, waitedFor, extra, requests>>

DrainCompletes ==
    /\ phase = "waiting" /\ waitedFor \cap active = {}
    /\ CancelStragglers
    /\ cut' = cut \cup {c \in active \ cancelled : hand[c] \in Serving}

\* Mutant: asyncio.wait is given no timeout.
DrainTimesOutNever ==
    /\ phase = "waiting" /\ waitedFor \cap active = {}
    /\ CancelStragglers
    /\ UNCHANGED cut

DrainTimesOut ==
    /\ phase = "waiting" /\ waitedFor \cap active # {}
    /\ CancelStragglers
    /\ UNCHANGED cut

\* The shutdown lifecycle has run and the loop is closed.
LifecycleDone ==
    /\ phase = "lifecycle"
    /\ phase' = "stopped"
    /\ UNCHANGED <<connVars, dispatchVars, workVars, accepting, latch, waitedFor, histVars>>

-----------------------------------------------------------------------------
ServerInit ==
    /\ mode \in Modes
    /\ phase = "serving" /\ accepting = TRUE /\ latch = FALSE
    /\ alive = TRUE /\ handled = 0 /\ count = 0 /\ requests = 0
    /\ sock = [c \in Conns |-> "none"]
    /\ hand = [c \in Conns |-> "none"]
    /\ queue = [c \in Conns |-> 0]
    /\ extra = [c \in Conns |-> 0]
    /\ draining = {} /\ counted = {} /\ live = {}
    /\ active = {} /\ cancelled = {} /\ waitedFor = {} /\ cut = {}

ConnStep(c) ==
    \/ Accept(c) \/ ConnectionMade(c) \/ HandshakeFails(c)
    \/ ConnectionLost(c) \/ KeepAliveTimeout(c)
    \/ RequestArrives(c) \/ Upgrade(c) \/ StreamStarts(c)
    \/ RequestDone(c) \/ HandlerTimeout(c) \/ DispatchEnds(c)

ShutdownStep ==
    \/ WakeAndDrain \/ LeaveServer
    \/ DrainCompletes \/ DrainTimesOut \/ LifecycleDone

ServerNext == (\E c \in Conns : ConnStep(c)) \/ Signal \/ ShutdownStep

ServerSpec == ServerInit /\ [][ServerNext]_serverVars

\* The loop keeps running its own steps and timers.  Nothing is assumed of
\* the stop signal, of clients, of streams or of handlers.
FairServerSpec ==
    /\ ServerSpec
    /\ WF_serverVars(ShutdownStep)
    /\ \A c \in Conns :
         /\ WF_serverVars(ConnectionMade(c) \/ HandshakeFails(c))
         /\ WF_serverVars(sock[c] = "closing" /\ ConnectionLost(c))
         /\ WF_serverVars(KeepAliveTimeout(c))
         /\ WF_serverVars(HandlerTimeout(c))

\* The same with streams and WebSocket handlers that end.
FairHandlersSpec ==
    /\ FairServerSpec
    /\ \A c \in Conns :
         /\ WF_serverVars(RequestDone(c))
         /\ WF_serverVars(hand[c] = "ws" /\ DispatchEnds(c))

-----------------------------------------------------------------------------
(* What the server promises.                                                *)

\* The type of every variable.
ServerTypeOK ==
    /\ mode \in Modes
    /\ phase \in {"serving", "signalled", "leaving", "waiting", "lifecycle", "stopped"}
    /\ {accepting, latch, alive} \subseteq BOOLEAN
    /\ handled \in Nat /\ count \in Nat /\ requests \in 0 .. MaxRequests
    /\ sock \in [Conns -> {"none", "accepted", "open", "closing", "lost"}]
    /\ hand \in [Conns -> {"none", "handler", "streaming", "ws", "detached"}]
    /\ queue \in [Conns -> 0 .. MaxQueue]
    /\ extra \in [Conns -> Nat]
    /\ draining \subseteq Conns /\ counted \subseteq Conns /\ live \subseteq Conns
    /\ active \subseteq Conns /\ cancelled \subseteq Conns
    /\ waitedFor \subseteq Conns /\ cut \subseteq Conns

\* The process-wide counter is exactly the number of connections holding a
\* place, and never passes the cap, whatever order connections are refused,
\* admitted and lost in (connection_made, connection_lost).
AdmissionExact == count = Cardinality(counted) /\ count <= Cap

\* A connection told to stop, by draining or by recycling, completes at most
\* the request it is serving (_serve, at the request boundary).
OneMoreRequest == \A c \in Conns : extra[c] <= 1

\* Where leaving the server awaits its connections, no request is cancelled
\* by shutdown before a drain window has elapsed (_graceful_shutdown, phase
\* one).  Before Python 3.12 one that starts during asyncio.wait is.
NoRequestCut == mode.awaits => cut = {}

\* Once phase one has begun every admitted connection is draining
\* ("Admitted after shutdown began: drain at once"), also the one that only
\* now ends its handshake.  The worker keeps this to the end; run() clears
\* the latch before the shutdown lifecycle.
AdmittedDrain ==
    phase \in {"leaving", "waiting"} \/ (phase = "lifecycle" /\ mode.worker)
        => live \subseteq draining

\* Drain never closes the socket of a request in progress.
BusyKeepsSocket ==
    [][\A c \in Conns :
         (phase' # phase /\ hand[c] \in Serving /\ c \notin cancelled)
             => (sock'[c] = sock[c] \/ hand'[c] # hand[c])]_serverVars

\* A stop request ends the process, whatever handlers do (phase two).
Stops == (phase = "signalled") ~> (phase = "stopped")
=============================================================================
