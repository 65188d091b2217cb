----------------------------- MODULE LiveServer -----------------------------
(***************************************************************************)
(* LiveServer: an application on a real loopback socket for the duration   *)
(* of a test.  __aenter__ binds, listens, then runs the startup hooks;     *)
(* __aexit__ closes the connections it handed out, drains and forces the   *)
(* others, and runs the shutdown hooks, each phase whatever the one before *)
(* raised.  Connections come from the test (`connect`) and from clients    *)
(* outside it, which know the port as soon as it listens when it was asked *)
(* for by number.  A cancellation may reach any await of the exit and of a *)
(* startup that fails; both behaviours of Server.wait_closed are modelled. *)
(***************************************************************************)
EXTENDS FiniteSets

CONSTANTS
    Links,      \* TCP connections
    OwnLinks    \* those made with LiveServer.connect()

LiveAssumption == OwnLinks \subseteq Links

VARIABLES
    phase,      \* where __aenter__ or __aexit__ is
    listening,  \* the listening socket is open
    link,       \* per connection: "none", "idle", "busy", "draining", "closed"
    tracked,    \* _protocols
    hooks,      \* "none", "started", "ended": the application's lifespan
    waits       \* Server.wait_closed waits for the connections: from Python 3.12

vars == <<phase, listening, link, tracked, hooks, waits>>

Init ==
    /\ phase = "new"
    /\ listening = FALSE
    /\ link = [c \in Links |-> "none"]
    /\ tracked = {}
    /\ hooks = "none"
    /\ waits \in BOOLEAN

Live(c) == link[c] \in {"idle", "busy", "draining"}

(* _held: tracked connections whose transport is not closing.              *)
_held == {c \in tracked : Live(c)}

Closing(S) == [c \in Links |-> IF c \in S /\ Live(c) THEN "closed" ELSE link[c]]

----------------------------------------------------------------------------
(* __aenter__ up to create_server; a socket that cannot be served is closed *)
(* before the error leaves.                                                *)
Bind ==
    /\ phase = "new"
    /\ \/ phase' = "starting" /\ listening' = TRUE
       \/ phase' = "refused" /\ listening' = FALSE
    /\ UNCHANGED <<link, tracked, hooks, waits>>

(* The startup hooks end, or raise: then the listener is closed.           *)
Startup ==
    /\ phase = "starting"
    /\ \/ phase' = "entered" /\ hooks' = "started" /\ UNCHANGED listening
       \/ phase' = "failing" /\ listening' = FALSE /\ UNCHANGED hooks
    /\ UNCHANGED <<link, tracked, waits>>

(* wait_closed, then the error leaves: before Python 3.12 it returns at    *)
(* once, from then on when no accepted connection is left.                 *)
StartupFailed ==
    /\ phase = "failing"
    /\ waits => _held = {}
    /\ phase' = "refused"
    /\ UNCHANGED <<listening, link, tracked, hooks, waits>>

(* The wait is cancelled: nothing forces what is still connected.          *)
StartupCancelled ==
    /\ phase = "failing"
    /\ phase' = "abandoned"
    /\ UNCHANGED <<listening, link, tracked, hooks, waits>>

(* _track on an accepted connection, and the requests that come on it; the *)
(* test's own come once `_server` is set, so also from a startup hook.     *)
Accept(c) ==
    /\ listening /\ link[c] = "none"
    /\ c \in OwnLinks => phase \in {"starting", "entered", "clients"}
    /\ link' = [link EXCEPT ![c] = "idle"]
    /\ tracked' = tracked \cup {c}
    /\ UNCHANGED <<phase, listening, hooks, waits>>

Serve(c) ==
    /\ link[c] = "idle"
    /\ link' = [link EXCEPT ![c] = "busy"]
    /\ UNCHANGED <<phase, listening, tracked, hooks, waits>>

Served(c) ==
    /\ link[c] \in {"busy", "draining"}
    /\ link' = [link EXCEPT ![c] = IF @ = "busy" THEN "idle" ELSE "closed"]
    /\ UNCHANGED <<phase, listening, tracked, hooks, waits>>

PeerCloses(c) ==
    /\ Live(c)
    /\ link' = Closing({c})
    /\ UNCHANGED <<phase, listening, tracked, hooks, waits>>

----------------------------------------------------------------------------
Exit ==
    /\ phase = "entered"
    /\ phase' = "clients"
    /\ UNCHANGED <<listening, link, tracked, hooks, waits>>

(* _close_client_connections: aclose() on each connection of the test, a   *)
(* cancellation leaving some of them as they were.                         *)
CloseClients ==
    /\ phase = "clients"
    /\ phase' = "listener"
    /\ \E S \in SUBSET OwnLinks : link' = Closing(S)
    /\ UNCHANGED <<listening, tracked, hooks, waits>>

(* server.close() and begin_drain: idle connections close, busy ones after *)
(* their request.                                                          *)
StopListening ==
    /\ phase = "listener"
    /\ phase' = "awaiting"
    /\ listening' = FALSE
    /\ link' = [c \in Links |-> IF c \notin tracked THEN link[c]
                                ELSE IF link[c] = "idle" THEN "closed"
                                ELSE IF link[c] = "busy" THEN "draining" ELSE link[c]]
    /\ UNCHANGED <<tracked, hooks, waits>>

(* _await_connections_closed: none held, the deadline, or a cancellation.  *)
Awaited ==
    /\ phase = "awaiting"
    /\ phase' = "forcing"
    /\ UNCHANGED <<listening, link, tracked, hooks, waits>>

(* _force_close, wait_closed, and the finally that forces and forgets      *)
(* whatever the drain did.                                                 *)
ForgetOnly ==
    /\ phase = "forcing"
    /\ phase' = "hooks"
    /\ tracked' = {}
    /\ UNCHANGED <<listening, link, hooks, waits>>

Force ==
    /\ phase = "forcing"
    /\ phase' = "hooks"
    /\ link' = Closing(_held)
    /\ tracked' = {}
    /\ UNCHANGED <<listening, hooks, waits>>

(* _run_shutdown_hooks: once, and only after a startup.                    *)
Shutdown ==
    /\ phase = "hooks"
    /\ phase' = "left"
    /\ hooks' = IF hooks = "started" THEN "ended" ELSE hooks
    /\ UNCHANGED <<listening, link, tracked, waits>>

Leaving == CloseClients \/ StopListening \/ Awaited \/ Force \/ Shutdown

Next ==
    \/ Bind \/ Startup \/ StartupFailed \/ StartupCancelled \/ Exit \/ Leaving
    \/ \E c \in Links : Accept(c) \/ Serve(c) \/ Served(c) \/ PeerCloses(c)

(* The exit's waits are bounded by the two timeouts, so its steps happen;  *)
(* no fairness is asked of handlers or of clients outside the test.        *)
Spec == Init /\ [][Next]_vars /\ WF_vars(Leaving) /\ WF_vars(StartupFailed)

----------------------------------------------------------------------------
(* A server that was left, by any path, has closed its port, holds no      *)
(* connection, and has shut the application down if it had started it. One *)
(* that never started has closed its port and owes no shutdown; it holds   *)
(* no connection if it waited for those it had accepted.                   *)
TeardownIsComplete ==
    /\ phase \in {"left", "refused", "abandoned"} => ~listening /\ hooks # "started"
    /\ phase = "left" \/ (phase = "refused" /\ waits) => \A c \in Links : ~Live(c)

(* Nobody is left connected to a server that never started: not before     *)
(* Python 3.12, nor when its wait is cancelled.                            *)
RefusedIsEmpty == phase \in {"refused", "abandoned"} => \A c \in Links : ~Live(c)

(* Why: every connection that is open is tracked, the port is open only    *)
(* between the bind and StopListening, and what the exit passes it leaves  *)
(* settled.                                                                *)
TypeOK ==
    /\ phase \in {"new", "starting", "entered", "failing", "refused", "abandoned", "clients",
                  "listener", "awaiting", "forcing", "hooks", "left"}
    /\ listening \in BOOLEAN /\ waits \in BOOLEAN /\ hooks \in {"none", "started", "ended"}
    /\ link \in [Links -> {"none", "idle", "busy", "draining", "closed"}]
    /\ tracked \subseteq Links

Settled ==
    /\ listening => phase \in {"starting", "entered", "clients", "listener"}
    /\ \A c \in Links : Live(c) => c \in tracked
    /\ phase \in {"new", "hooks", "left"} \/ (phase = "refused" /\ waits)
         => \A c \in Links : ~Live(c)
    /\ hooks = "started" => phase \in {"entered", "clients", "listener", "awaiting", "forcing", "hooks"}

(* Leaving ends, however long handlers and outside clients hold on.        *)
TeardownEnds == (phase = "clients") ~> (phase = "left")

(* So does a startup that fails: not from Python 3.12 on, with a client of *)
(* a numbered port that keeps its connection, which nothing forces here.   *)
FailedStartupEnds == (phase = "failing") ~> (phase \in {"refused", "abandoned"})

(* No request runs before the startup hooks have: the socket listens while *)
(* they run.                                                               *)
ServedOnceStarted ==
    (phase = "starting") => \A c \in Links : link[c] # "busy"
============================================================================
