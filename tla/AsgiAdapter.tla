---------------------------- MODULE AsgiAdapter ----------------------------
(***************************************************************************)
(* The app as an ASGI application (app/asgi.py) and the message loop of a  *)
(* WebSocket listener it runs (_ws_listener.py).  One connection, of one   *)
(* of three scopes: an HTTP request whose body comes in messages of one    *)
(* unit each, a lifespan, or a WebSocket with a listener on it.  Every     *)
(* await of receive or send is a step; the peer may go at any of them.     *)
(***************************************************************************)
EXTENDS Integers, Sequences, SequencesExt

CONSTANTS BodyLen,  \* most units of a body
          Limits    \* MAX_CONTENT_LENGTH

\* What the constants have to satisfy.
AdapterAssumption == BodyLen \in Nat /\ Limits \subseteq Nat

VARIABLES scope,    \* "http", "lifespan" or "websocket"
          req,      \* the request: its body, head and limit
          wire,     \* body messages not yet received
          gone,     \* the peer has disconnected
          pc, got, events, hooks

vars == <<scope, req, wire, gone, pc, got, events, hooks>>

(* What the request declares of its length need not be true.               *)
Heads == [head : BOOLEAN, query : {"ascii", "other"}, declared : {"none", "under", "over"},
          limit : Limits, body : 0..BodyLen, stream : BOOLEAN]

Init ==
    /\ scope \in {"http", "lifespan", "websocket"}
    /\ req \in {h \in Heads : scope # "http" => h = CHOOSE x \in Heads : TRUE}
    /\ wire = req.body /\ gone = FALSE
    /\ pc = "start" /\ got = 0 /\ events = <<>> /\ hooks = <<>>

Emit(e) == events' = Append(events, e)
Same == UNCHANGED <<scope, req>>

(* The client, or the server on its way down, gives up.                    *)
Disconnect ==
    /\ ~gone /\ pc \notin {"done", "cut"} /\ gone' = TRUE
    /\ Same /\ UNCHANGED <<wire, pc, got, events, hooks>>

-----------------------------------------------------------------------------
(* HTTP.                                                                   *)

Refused(status) == pc' = "done" /\ events' = events \o <<status, "last">>

declared_over == ~req.head /\ req.declared = "over"

NeverOver(n) == FALSE

over(n) == n > req.limit

(* A query that is not ASCII is refused before a length that is too large; *)
(* a route that streams reads the body itself.                             *)
Start ==
    /\ scope = "http" /\ pc = "start"
    /\ CASE req.query # "ascii" -> Refused("400")
         [] req.query = "ascii" /\ declared_over -> Refused("413")
         [] OTHER -> pc' = (IF req.stream THEN "handle" ELSE "read") /\ UNCHANGED events
    /\ Same /\ UNCHANGED <<wire, gone, got, hooks>>

(* One message: a unit of the body and whether more follows.  After the    *)
(* client has gone the message is http.disconnect, which has neither.      *)
TooLarge(n) == Refused("413") /\ got' = n
Read ==
    /\ scope = "http" /\ pc = "read"
    /\ IF gone
       THEN pc' = "handle" /\ UNCHANGED <<got, events, wire>>
       ELSE LET n == IF wire > 0 THEN got + 1 ELSE got IN
            /\ wire' = IF wire > 0 THEN wire - 1 ELSE 0
            /\ IF over(n) THEN TooLarge(n)
               ELSE got' = n /\ UNCHANGED events /\ pc' = (IF wire > 1 THEN "read" ELSE "handle")
    /\ Same /\ UNCHANGED <<gone, hooks>>

(* handle_request, then the head of the response.                          *)
Handle ==
    /\ scope = "http" /\ pc = "handle"
    /\ \E to \in {"plain", "stream", "bodiless"} :
         /\ pc' = to /\ Emit("200")
    /\ Same /\ UNCHANGED <<wire, gone, got, hooks>>

(* _emit_stream: chunks while the source has some; a source that raises    *)
(* leaves the response without its last message.                           *)
Stream ==
    /\ scope = "http" /\ pc = "stream"
    /\ \/ ~req.head /\ Len(events) < 3 /\ Emit("more") /\ pc' = pc
       \/ ~req.head /\ pc' = "raised" /\ UNCHANGED events
       \/ Emit("last") /\ pc' = "done"
    /\ Same /\ UNCHANGED <<wire, gone, got, hooks>>

(* One message for the whole body, empty after a HEAD and with a status    *)
(* that has none.                                                          *)
Plain ==
    /\ scope = "http" /\ pc \in {"plain", "bodiless"}
    /\ Emit(IF pc = "plain" /\ ~req.head THEN "whole" ELSE "last") /\ pc' = "done"
    /\ Same /\ UNCHANGED <<wire, gone, got, hooks>>

-----------------------------------------------------------------------------
(* Lifespan: startup, then shutdown; each answered, and a failed startup   *)
(* ends the loop.                                                          *)
Startup ==
    /\ scope = "lifespan" /\ pc = "start"
    /\ \/ Emit("startup.complete") /\ pc' = "up"
       \/ Emit("startup.failed") /\ pc' = "done"
    /\ Same /\ UNCHANGED <<wire, gone, got, hooks>>

Shutdown ==
    /\ scope = "lifespan" /\ pc = "up" /\ pc' = "done"
    /\ \/ Emit("shutdown.complete") \/ Emit("shutdown.failed")
    /\ Same /\ UNCHANGED <<wire, gone, got, hooks>>

-----------------------------------------------------------------------------
(* The listener.  accept() takes the connect message.  hooks records the   *)
(* calls of on_connect and on_disconnect.  A cancellation may reach any    *)
(* await of the handler: one that leaves _run_websocket ends at "cut".     *)

\* What ends the socket: a close of this side, or the peer found gone.
Ends == {"close 1007", "close 1001", "close 1000", "close 1011", "close own", "disconnect"}

Accept ==
    /\ scope = "websocket" /\ pc = "start"
    /\ \/ Emit("accept") /\ pc' \in {"connect", "cut"}
       \/ UNCHANGED events /\ (pc' = "cut" \/ (gone /\ pc' = "failed"))
    /\ Same /\ UNCHANGED <<wire, gone, got, hooks>>

(* on_connect returns, raises or is cancelled, or leaves with a            *)
(* WebSocketDisconnect: its own, or that of a peer it found gone.          *)
OnConnect ==
    /\ scope = "websocket" /\ pc = "connect"
    /\ hooks' = Append(hooks, "connect")
    /\ \/ pc' \in {"receive", "finally", "finally raised"} /\ UNCHANGED events
       \/ gone /\ pc' = "finally" /\ Emit("disconnect")
    /\ Same /\ UNCHANGED <<wire, gone, got>>

(* A message that does not match the schema closes the socket with 1007,   *)
(* an idle timeout with 1001, a callback with a code of its own; one that  *)
(* is not JSON at all, a callback that raises and a cancellation are       *)
(* errors; a callback may leave with a WebSocketDisconnect of its own.     *)
(* Messages that came before the peer went are still read after it.        *)
Receive ==
    /\ scope = "websocket" /\ pc = "receive"
    /\ \/ gone /\ pc' = "finally" /\ Emit("disconnect")
       \/ pc' = "finally" /\ \E e \in {"close 1007", "close 1001", "close own"} : Emit(e)
       \/ pc' \in {"finally", "finally raised"} /\ UNCHANGED events
       \/ Len(events) < 3 /\ pc' = "receive" /\ Emit("send")
    /\ Same /\ UNCHANGED <<wire, gone, got, hooks>>

(* Without the finally.                                                    *)
OnDisconnectClean ==
    /\ scope = "websocket" /\ pc \in {"finally", "finally raised"}
    /\ hooks' = IF pc = "finally" THEN Append(hooks, "disconnect") ELSE hooks
    /\ pc' \in IF pc = "finally" THEN {"ended"} ELSE {"failed", "cut"}
    /\ Same /\ UNCHANGED <<wire, gone, got, events>>

(* on_disconnect may raise, also over a cancellation, or be cancelled.     *)
OnDisconnect ==
    /\ scope = "websocket" /\ pc \in {"finally", "finally raised"}
    /\ hooks' = Append(hooks, "disconnect")
    /\ pc' \in {"failed", "cut"} \cup (IF pc = "finally" THEN {"ended"} ELSE {})
    /\ Same /\ UNCHANGED <<wire, gone, got, events>>

NeedsClose == ~\E i \in DOMAIN events : events[i] \in Ends

(* The close a handler owes that returned, 1000, or raised: 1011, or the   *)
(* code of a WebSocketException.                                           *)
Owed == IF pc = "ended" THEN {"close 1000"} ELSE {"close 1011", "close own"}

RunEndsOpen ==
    /\ scope = "websocket" /\ pc \in {"ended", "failed"}
    /\ \/ pc' = "done" /\ IF NeedsClose /\ pc = "failed" THEN \E e \in Owed : Emit(e) ELSE UNCHANGED events
       \/ NeedsClose /\ pc' = "cut" /\ (UNCHANGED events \/ \E e \in Owed : Emit(e))
    /\ Same /\ UNCHANGED <<wire, gone, got, hooks>>

(* _run_websocket: the close the handler still owes, then its teardowns.   *)
(* The close may be cancelled, before or after it was sent.                *)
RunEnds ==
    /\ scope = "websocket" /\ pc \in {"ended", "failed"}
    /\ \/ pc' = "done" /\ IF NeedsClose THEN \E e \in Owed : Emit(e) ELSE UNCHANGED events
       \/ NeedsClose /\ pc' = "cut" /\ (UNCHANGED events \/ \E e \in Owed : Emit(e))
    /\ Same /\ UNCHANGED <<wire, gone, got, hooks>>

Next ==
    \/ Disconnect
    \/ Start \/ Read \/ Handle \/ Stream \/ Plain
    \/ Startup \/ Shutdown
    \/ Accept \/ OnConnect \/ Receive \/ OnDisconnect \/ RunEnds

Spec == Init /\ [][Next]_vars

-----------------------------------------------------------------------------
(* A handler whose body is read for it gets all of it, unless the client   *)
(* has gone, and never more than MAX_CONTENT_LENGTH, whatever the request  *)
(* declared and however the body is cut into messages.                     *)
WholeOrGone ==
    (scope = "http" /\ ~req.stream /\ "200" \in Range(events))
    => got <= req.limit /\ (got = req.body \/ gone)

(* A handler is only run with the body that was sent: an http.disconnect   *)
(* while the body is read ends it as its last message would.               *)
HandlersSeeWholeBodies ==
    (scope = "http" /\ ~req.stream /\ "200" \in Range(events)) => got = req.body

(* Every scope answers in the order ASGI asks for: a status once and first, *)
(* one last message; a reply to each lifespan message. A listener whose    *)
(* on_connect ran has run on_disconnect once after it, also a cancelled    *)
(* one; its socket ends once, by one close or by the peer's going, and     *)
(* remains open only if the listener was cancelled.                        *)
ConversationsEnd ==
    /\ scope = "http" => /\ \A i \in DOMAIN events : events[i] \in {"200", "400", "413"} <=> i = 1
                         /\ \A i \in DOMAIN events : events[i] \in {"last", "whole"} => i = Len(events)
                         /\ pc = "done" => events[Len(events)] \in {"last", "whole"}
                         /\ req.head => \A i \in DOMAIN events : events[i] \notin {"more", "whole"}
    /\ scope = "websocket" /\ pc \in {"done", "cut"} =>
         /\ hooks # <<>> => hooks = <<"connect", "disconnect">>
         /\ \A i, j \in DOMAIN events : events[i] \in Ends /\ events[j] \in Ends => i = j
    /\ scope = "websocket" /\ pc = "done" =>
         /\ Len(events) > 0 /\ events[1] = "accept" => hooks = <<"connect", "disconnect">>
         /\ \E i \in DOMAIN events : events[i] \in Ends

(* Every accepted socket is closed: not when its handler is cancelled,     *)
(* which no except clause of _run_websocket takes.                         *)
AcceptedAreClosed ==
    scope = "websocket" /\ pc \in {"done", "cut"} /\ "accept" \in Range(events)
    => \E i \in DOMAIN events : events[i] \in Ends
=============================================================================
