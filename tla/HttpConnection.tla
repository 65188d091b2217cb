--------------------------- MODULE HttpConnection ---------------------------
(***************************************************************************)
(* One connection of the native server (serving/protocol.py, HttpProtocol):*)
(* the httptools callbacks, the two timers, the pipelining queue and the   *)
(* per-connection server loop, the handler it shields, the bodies' queues  *)
(* (RequestBodySource) and the pause bits they share.                      *)
(*                                                                         *)
(* asyncio runs one callback or task step at a time, up to its next await. *)
(* `turn' names the callback that is in the middle of such a step: the     *)
(* parser while data_received feeds a segment, the server loop while it    *)
(* runs from one await to the next.  Everything else needs turn = "none".  *)
(*                                                                         *)
(* Messages are numbered in the order their first byte is parsed.  Bytes,  *)
(* header contents and status codes are abstracted away; `wire' is the     *)
(* order of what was handed to transport.write.                            *)
(***************************************************************************)
EXTENDS Integers, Sequences

CONSTANTS
    MaxMsgs,          \* bound: messages a client sends on the connection
    MaxBody,          \* bound: chunks of one body
    MaxPipelined,     \* MAX_PIPELINED_REQUESTS
    Kinds,            \* the requests a client may send
    Responses,        \* what a handler may answer with
    Expects,          \* whether a client may send Expect: 100-continue
    Upgrades,         \* outcomes of an upgrade request
    RefusalAwaits,    \* a response phase or a 413 handler is registered
    HandlerMayCancel, \* a handler may end in a CancelledError of its own
    Recycles          \* should_keep_serving may answer False

ASSUME BoundAssumption == MaxMsgs \in Nat \ {0} /\ MaxBody \in Nat

ASSUME PipelineAssumption == MaxPipelined \in Nat \ {0}

\* `keep' is the parser's should_keep_alive, `stream' the matched route's flag.
Kind == [keep : BOOLEAN, stream : BOOLEAN]

ASSUME KindAssumption ==
    /\ Kinds \subseteq Kind
    /\ Kinds # {}
    /\ Responses \subseteq {"plain", "streamed", "sse"}
    /\ Upgrades \subseteq {"accepted", "refused", "notWebSocket"}
    /\ Expects \subseteq BOOLEAN
    /\ {RefusalAwaits, HandlerMayCancel, Recycles} \subseteq BOOLEAN

-----------------------------------------------------------------------------
(* The push-fed body queue of one request (http/_body.py,                   *)
(* RequestBodySource), as operators on its record: the parser's callbacks   *)
(* feed it, a single consumer reads or drains it.  A chunk is one unit of   *)
(* the byte count.                                                          *)
CONSTANTS
    HighWater,         \* chunks at which feed() asks for a pause
    LowWater,          \* chunks at which a reader asks for a resume
    MaxContentLength   \* the running-total cap, in chunks

ASSUME WaterAssumption ==
    /\ HighWater \in Nat \ {0}
    /\ LowWater \in Nat
    /\ LowWater < HighWater

ASSUME CapAssumption == MaxContentLength \in Nat

Source == [chunks : Nat, size : Nat, eof : BOOLEAN, overflow : BOOLEAN,
           paused : BOOLEAN, draining : BOOLEAN, disconnected : BOOLEAN]

NewSource == [chunks |-> 0, size |-> 0, eof |-> FALSE, overflow |-> FALSE,
              paused |-> FALSE, draining |-> FALSE, disconnected |-> FALSE]

\* Mutant: queued chunks are forgotten.
AtEofSignalled(s) == s.eof

AtEof(s) == s.eof /\ s.chunks = 0

\* A parked consumer has something to wake for.
Readable(s) == s.chunks > 0 \/ s.overflow \/ s.eof

Feed(s) ==
    IF s.draining THEN [s EXCEPT !.size = 0]
    ELSE IF s.size + 1 > MaxContentLength
         THEN [s EXCEPT !.size = @ + 1, !.overflow = TRUE]
         ELSE [s EXCEPT !.size = @ + 1, !.chunks = @ + 1,
                        !.paused = s.paused \/ s.chunks + 1 >= HighWater]

FeedEof(s) == [s EXCEPT !.eof = TRUE]

FeedDisconnected(s) == [s EXCEPT !.eof = TRUE, !.disconnected = TRUE]

MarkDisconnected(s) == [s EXCEPT !.disconnected = TRUE]

\* Mutant: a chunk is lost with each one read.
ReadOneTwice(s) == [s EXCEPT !.chunks = s.chunks - 2, !.paused = FALSE]

\* __anext__ takes one chunk and resumes at the low-water mark.
ReadOne(s) ==
    [s EXCEPT !.chunks = s.chunks - 1,
              !.paused = s.paused /\ s.chunks - 1 > LowWater]

\* read() takes everything queued without suspending.
ReadAll(s) ==
    [s EXCEPT !.chunks = 0, !.paused = s.paused /\ s.chunks = 0]

\* drain() up to its first await, or to its end when EOF is already in.
Drain(s) ==
    [s EXCEPT !.draining = TRUE, !.paused = FALSE, !.chunks = 0,
              !.size = IF s.eof THEN s.size ELSE 0]

\* The queue called its pause, or its resume, callback between s and t.
Pauses(s, t)  == ~s.paused /\ t.paused
Resumes(s, t) == s.paused /\ ~t.paused

-----------------------------------------------------------------------------
Msgs == 1 .. MaxMsgs
Msg0 == 0 .. MaxMsgs        \* 0 stands for None

VARIABLES
    transport,      \* "open", "closing", or "none" once connection_lost ran
    reading,        \* the transport delivers data (not pause_reading)
    canWrite,       \* _can_write
    wire,           \* what was written, in order
    kaTimer,        \* _keep_alive_handle is scheduled
    rqTimer,        \* _request_timer is scheduled
    closing,        \* _closing
    draining,       \* _draining
    turn,           \* the callback now running, or "none"
    phase,          \* where the parser stands in the message
    msg,            \* the message the parser stands in
    kind,           \* what the parser learned of each message
    headersDone,    \* _headers_done
    oversized,      \* _oversized
    queue,          \* _request_queue
    pauses,         \* _pause_reasons
    current,        \* _current_source
    src,            \* the body source of each message
    pc,             \* where the server loop stands
    cancelled,      \* the server loop was cancelled and has not unwound yet
    serving,        \* _serving_source
    handler,        \* the state of each message's handle_request task
    refusals,       \* messages whose _emit_refusal task has not run
    websocket       \* _websocket is set: the stream was upgraded

connVars   == <<transport, canWrite, wire>>
timers     == <<kaTimer, rqTimer>>
stopVars   == <<closing, draining>>
parserVars == <<phase, msg, kind, headersDone>>
flowVars   == <<reading, pauses>>
bodyVars   == <<current, src>>
loopVars   == <<pc, cancelled, serving, handler>>

vars == <<transport, reading, canWrite, wire, kaTimer, rqTimer, closing,
          draining, turn, phase, msg, kind, headersDone, oversized, queue,
          pauses, current, src, pc, cancelled, serving, handler, refusals,
          websocket>>

Write(what, m) == wire' = Append(wire, [what |-> what, req |-> m])

Open == transport = "open"

Shut == transport' = IF Open THEN "closing" ELSE transport

\* _emit_http_error and _emit_and_close: nothing on a closing transport.
EmitAndClose(what, m) ==
    /\ IF Open THEN Write(what, m) ELSE UNCHANGED wire
    /\ Shut
    /\ UNCHANGED canWrite

\* The message a refusal answers: the one being parsed, or the next.
Refused == IF phase \in {"headers", "body"} THEN msg ELSE msg + 1

\* Mutant: any resume resumes, whatever other reason stands.
SetPauseReasonsLastWins(after) ==
    /\ pauses' = after
    /\ reading' = IF pauses = after \/ ~Open THEN reading
                  ELSE after \subseteq pauses

SetPauseReasons(after) ==
    /\ pauses' = after
    /\ reading' = IF (pauses = {}) = (after = {}) \/ ~Open
                    THEN reading ELSE after = {}

\* A source went from src[m] to s: its callbacks move the body bit.
UpdateSource(m, s) ==
    /\ src' = [src EXCEPT ![m] = s]
    /\ SetPauseReasons(CASE Pauses(src[m], s)  -> pauses \cup {"body"}
                         [] Resumes(src[m], s) -> pauses \ {"body"}
                         [] OTHER              -> pauses)

(***************************************************************************)
(* An admitted connection, as connection_made leaves it; a connection      *)
(* admitted after shutdown began is born draining.                         *)
(***************************************************************************)
Init ==
    /\ transport = "open" /\ reading = TRUE /\ canWrite = TRUE
    /\ wire = <<>>
    /\ kaTimer = TRUE /\ rqTimer = FALSE
    /\ closing = FALSE /\ draining \in BOOLEAN
    /\ turn = "none"
    /\ phase = "idle" /\ msg = 0 /\ headersDone = FALSE
    /\ kind = [m \in Msgs |-> [keep |-> TRUE, stream |-> FALSE]]
    /\ oversized = FALSE
    /\ queue = <<>> /\ pauses = {}
    /\ current = 0
    /\ src = [m \in Msgs |-> NewSource]
    /\ pc = "none" /\ cancelled = FALSE /\ serving = 0
    /\ handler = [m \in Msgs |-> "none"]
    /\ refusals = {}
    /\ websocket = FALSE

-----------------------------------------------------------------------------
(* The parser callbacks: data_received opens a segment, the callbacks that  *)
(* follow run inside it, SegmentEnd or an exception of the parser ends it.  *)

ArmRequestTimer == kaTimer' = FALSE /\ rqTimer' = TRUE

\* A segment arrives; the request timer is armed unless it is running.
data_received ==
    /\ turn = "none" /\ Open /\ reading
    /\ ~websocket /\ ~oversized
    /\ turn' = "parser"
    /\ IF rqTimer THEN UNCHANGED timers ELSE ArmRequestTimer
    /\ UNCHANGED <<connVars, flowVars, stopVars, parserVars, oversized, queue,
                   bodyVars, loopVars, refusals, websocket>>

\* The first bytes of a message; the target itself is abstracted away.
on_url ==
    /\ turn = "parser" /\ phase = "idle" /\ msg < MaxMsgs
    /\ phase' = "headers"
    /\ msg' = msg + 1
    /\ UNCHANGED <<connVars, flowVars, timers, stopVars, turn, kind,
                   headersDone, oversized, queue, bodyVars, loopVars,
                   refusals, websocket>>

\* on_url or on_header passes a cap (a trailer's on_header too): 414 or 431.
reject_oversized ==
    /\ turn = "parser" /\ phase \in {"headers", "body"} /\ ~oversized
    /\ oversized' = TRUE
    /\ EmitAndClose("refusal", msg)
    /\ UNCHANGED <<flowVars, timers, stopVars, turn, parserVars, queue,
                   bodyVars, loopVars, refusals, websocket>>

\* _oversized or a closing transport: the request is not built.
HeadersIgnored ==
    /\ oversized \/ ~Open
    /\ phase' = "body"
    /\ UNCHANGED <<connVars, flowVars, timers, headersDone, oversized, queue,
                   bodyVars, pc, refusals, websocket>>

\* The handshake diverts the connection; both timers go with it.
UpgradeAccepted ==
    /\ Write("switch", msg)
    /\ websocket' = TRUE
    /\ kaTimer' = FALSE /\ rqTimer' = FALSE
    /\ UNCHANGED <<transport, canWrite, oversized>>

\* 400, 403, 404 or 426 before the switch.
UpgradeRefused ==
    /\ EmitAndClose("refusal", msg)
    /\ oversized' = TRUE
    /\ rqTimer' = FALSE
    /\ UNCHANGED <<kaTimer, websocket>>

\* An upgrade to something else draws a 400.
UpgradeUnknown ==
    /\ EmitAndClose("refusal", msg)
    /\ rqTimer' = FALSE
    /\ UNCHANGED <<kaTimer, oversized, websocket>>

\* on_message_complete follows an upgrade before the parser raises.
HeadersUpgrade ==
    /\ ~oversized /\ Open
    /\ \/ "accepted" \in Upgrades /\ UpgradeAccepted
       \/ "refused" \in Upgrades /\ UpgradeRefused
       \/ "notWebSocket" \in Upgrades /\ UpgradeUnknown
    /\ phase' = "upgraded"
    /\ UNCHANGED <<flowVars, headersDone, queue, bodyVars, pc, refusals>>

\* A declared Content-Length over the cap: _reject_413 with a request.
HeadersTooLarge ==
    /\ ~oversized /\ Open /\ MaxContentLength < MaxBody
    /\ oversized' = TRUE
    /\ \/ /\ RefusalAwaits
          /\ refusals' = refusals \cup {msg}
          /\ UNCHANGED connVars
       \/ /\ EmitAndClose("refusal", msg)
          /\ UNCHANGED refusals
    /\ src' = IF current = 0 THEN src
              ELSE [src EXCEPT ![current] = FeedEof(@)]
    /\ current' = 0
    /\ phase' = "body"
    /\ UNCHANGED <<flowVars, timers, headersDone, queue, pc, websocket>>

\* The request is built, queued, and the server loop started if need be.
Enqueue(expect) ==
    /\ ~oversized /\ Open
    /\ IF expect THEN Write("interim", msg) ELSE UNCHANGED wire
    /\ src' = [src EXCEPT ![msg] = NewSource]
    /\ current' = msg
    /\ headersDone' = TRUE
    /\ phase' = "body"
    /\ queue' = Append(queue, msg)
    /\ SetPauseReasons(IF Len(queue) + 1 >= MaxPipelined
                         THEN pauses \cup {"depth"} ELSE pauses)
    /\ pc' = IF pc = "none" THEN "head" ELSE pc
    /\ UNCHANGED <<transport, canWrite, timers, oversized, refusals, websocket>>

on_headers_complete ==
    /\ turn = "parser" /\ phase = "headers"
    /\ \E k \in Kinds : kind' = [kind EXCEPT ![msg] = k]
    /\ \/ HeadersIgnored
       \/ HeadersUpgrade
       \/ HeadersTooLarge
       \/ \E expect \in Expects : Enqueue(expect)
    /\ UNCHANGED <<stopVars, turn, msg, cancelled, serving, handler>>

\* A chunk of the body; past the cap the source latches and _reject_413 runs.
on_body ==
    /\ turn = "parser" /\ phase = "body"
    /\ current # 0
    /\ src[current].size < MaxBody
    /\ LET s == Feed(src[current]) IN
         IF s.overflow
           THEN /\ UpdateSource(current, FeedEof(s))
                /\ current' = 0
                /\ oversized' = TRUE
                /\ EmitAndClose("refusal", msg)
           ELSE /\ UpdateSource(current, s)
                /\ UNCHANGED <<current, oversized, connVars>>
    /\ UNCHANGED <<timers, stopVars, turn, parserVars, queue, loopVars,
                   refusals, websocket>>

on_message_complete ==
    /\ turn = "parser" /\ phase = "body"
    /\ headersDone' = FALSE
    /\ rqTimer' = FALSE
    /\ src' = IF current = 0 THEN src
              ELSE [src EXCEPT ![current] = FeedEof(@)]
    /\ current' = 0
    /\ phase' = IF kind[msg].keep THEN "idle" ELSE "closed"
    /\ UNCHANGED <<connVars, flowVars, kaTimer, stopVars, turn, msg, kind,
                   oversized, queue, loopVars, refusals, websocket>>

\* The parser raises (bytes after a closing message are an error too): 400.
ParserError ==
    /\ turn = "parser" /\ phase # "upgraded"
    /\ EmitAndClose("refusal", Refused)
    /\ phase' = "failed"
    /\ turn' = "none"
    /\ UNCHANGED <<flowVars, timers, stopVars, msg, kind, headersDone,
                   oversized, queue, bodyVars, loopVars, refusals, websocket>>

\* The segment is used up; a header phase past its byte budget draws a 431.
SegmentEnd ==
    /\ turn = "parser"
    /\ turn' = "none"
    /\ \/ UNCHANGED <<connVars, oversized>>
       \/ /\ ~headersDone /\ phase # "upgraded"
          /\ oversized' = TRUE
          /\ EmitAndClose("refusal", Refused)
    /\ UNCHANGED <<flowVars, timers, stopVars, parserVars, queue, bodyVars,
                   loopVars, refusals, websocket>>

-----------------------------------------------------------------------------
(* The server loop: _serve and _dispatch.                                   *)

\* The loop returns: `finally' clears the serving source, the task is done.
LoopReturns ==
    /\ pc' = "none" /\ serving' = 0 /\ turn' = "none"
    /\ UNCHANGED cancelled

\* Mutant: deque.pop.
PopRight == [item |-> queue[Len(queue)],
             rest |-> SubSeq(queue, 1, Len(queue) - 1)]

PopLeft == [item |-> Head(queue), rest |-> Tail(queue)]

\* Half the limit, so a steady pipeline does not pause per request.
DepthDrained(n) == n <= MaxPipelined \div 2

\* The while condition holds: popleft, depth resume, and into _dispatch.
ServeNext ==
    /\ pc = "head" /\ turn # "parser" /\ ~cancelled
    /\ queue # <<>> /\ ~closing
    /\ LET m == PopLeft.item IN
         /\ queue' = PopLeft.rest
         /\ serving' = m
         /\ SetPauseReasons(IF DepthDrained(Len(queue) - 1)
                              THEN pauses \ {"depth"} ELSE pauses)
         /\ IF kind[m].stream \/ (AtEof(src[m]) /\ src[m].size = 0)
              THEN /\ pc' = "wait" /\ turn' = "none"
                   /\ handler' = [handler EXCEPT ![m] = "running"]
              ELSE /\ pc' = "body" /\ turn' = "serve"
                   /\ UNCHANGED handler
    /\ UNCHANGED <<connVars, timers, stopVars, parserVars, oversized,
                   bodyVars, cancelled, refusals, websocket>>

\* Mutant: armed in the middle of a message, too.
StartsKeepAliveMidMessage == ~closing /\ Open /\ queue = <<>>

StartsKeepAlive == ~closing /\ Open /\ ~rqTimer /\ queue = <<>>

\* The queue is empty or the connection closing: the loop ends, and an idle
\* connection starts its keep-alive timer unless a message is being received.
ServeIdle ==
    /\ pc = "head" /\ turn # "parser" /\ ~cancelled
    /\ queue = <<>> \/ closing
    /\ kaTimer' = (kaTimer \/ StartsKeepAlive)
    /\ LoopReturns
    /\ UNCHANGED <<connVars, flowVars, rqTimer, stopVars, parserVars,
                   oversized, queue, bodyVars, handler, refusals, websocket>>

\* _drain_body buffers what is queued; at EOF or overflow the handler starts.
ReadBody ==
    /\ pc = "body" /\ turn # "parser" /\ ~cancelled
    /\ turn = "serve" \/ Readable(src[serving])
    /\ UpdateSource(serving, ReadAll(src[serving]))
    /\ IF src[serving].eof \/ src[serving].overflow
         THEN /\ pc' = "wait"
              /\ handler' = [handler EXCEPT ![serving] = "running"]
         ELSE UNCHANGED <<pc, handler>>
    /\ turn' = "none"
    /\ UNCHANGED <<connVars, timers, stopVars, parserVars, oversized, queue,
                   current, cancelled, serving, refusals, websocket>>

\* The handler came back: an unread body is drained before the answer.
HandlerReturned ==
    /\ pc = "wait" /\ turn = "none" /\ ~cancelled
    /\ handler[serving] = "done"
    /\ handler' = [handler EXCEPT ![serving] = "gone"]
    /\ IF closing \/ AtEof(src[serving])
         THEN /\ pc' = "emit" /\ turn' = "serve"
              /\ UNCHANGED <<src, flowVars>>
         ELSE /\ UpdateSource(serving, Drain(src[serving]))
              /\ IF src[serving].eof
                   THEN pc' = "emit" /\ turn' = "serve"
                   ELSE pc' = "drain" /\ turn' = "none"
    /\ UNCHANGED <<connVars, timers, stopVars, parserVars, oversized, queue,
                   current, cancelled, serving, refusals, websocket>>

\* The body's EOF reached the parked drain.
DrainDone ==
    /\ pc = "drain" /\ turn = "none" /\ ~cancelled
    /\ src[serving].eof
    /\ src' = [src EXCEPT ![serving].chunks = 0]
    /\ pc' = "emit" /\ turn' = "serve"
    /\ UNCHANGED <<connVars, flowVars, timers, stopVars, parserVars, oversized,
                   queue, current, cancelled, serving, handler, refusals,
                   websocket>>

\* Mutant: only stream routes get the timeout.
HandlerTimeoutStreams ==
    /\ pc = "wait" /\ turn = "none" /\ ~cancelled
    /\ handler[serving] = "running" /\ kind[serving].stream
    /\ handler' = [handler EXCEPT ![serving] = "detached"]
    /\ EmitAndClose("resp", serving)
    /\ LoopReturns
    /\ UNCHANGED <<flowVars, timers, stopVars, parserVars, oversized, queue,
                   bodyVars, refusals, websocket>>

\* REQUEST_HANDLER_TIMEOUT: the shielded handler is left behind, 504, close.
HandlerTimeout ==
    /\ pc = "wait" /\ turn = "none" /\ ~cancelled
    /\ handler[serving] = "running"
    /\ handler' = [handler EXCEPT ![serving] = "detached"]
    /\ EmitAndClose("resp", serving)
    /\ LoopReturns
    /\ UNCHANGED <<flowVars, timers, stopVars, parserVars, oversized, queue,
                   bodyVars, refusals, websocket>>

\* The transport closed while the handler ran: nothing is written.
EmitDropped ==
    /\ pc = "emit" /\ turn = "serve" /\ ~Open
    /\ LoopReturns
    /\ UNCHANGED <<connVars, oversized, handler>>

\* A buffered response (and any HEAD), then Connection: close or _reset.
EmitPlain ==
    /\ pc = "emit" /\ turn = "serve" /\ Open
    /\ "plain" \in Responses
    /\ Write("resp", serving)
    /\ IF kind[serving].keep
         THEN /\ oversized' = FALSE
              /\ pc' = "boundary"
              /\ UNCHANGED <<transport, turn, cancelled, serving>>
         ELSE Shut /\ LoopReturns /\ UNCHANGED oversized
    /\ UNCHANGED <<canWrite, handler>>

\* stream_to writes the head and awaits the first chunk.
StreamStart ==
    /\ pc = "emit" /\ turn = "serve" /\ Open
    /\ \E r \in Responses \ {"plain"} : pc' = r
    /\ Write("head", serving)
    /\ turn' = "none"
    /\ UNCHANGED <<transport, canWrite, oversized, cancelled, serving, handler>>

\* The last chunk, once the write gate allows; stream_to does not look at
\* is_closing, and a closing transport may flush or drop what it writes.
StreamEnd ==
    /\ pc \in {"streamed", "sse"} /\ turn = "none" /\ ~cancelled
    /\ canWrite \/ ~Open
    /\ \/ Write("end", serving)
       \/ ~Open /\ UNCHANGED wire
    /\ IF pc = "streamed" /\ kind[serving].keep
         THEN /\ oversized' = FALSE
              /\ pc' = "boundary" /\ turn' = "serve"
              /\ UNCHANGED <<transport, cancelled, serving>>
         ELSE Shut /\ LoopReturns /\ UNCHANGED oversized
    /\ UNCHANGED <<canWrite, handler>>

\* Encoding or streaming raised: logged, closed, stop serving.
EmitFails ==
    /\ \/ pc = "emit" /\ turn = "serve" /\ Open
       \/ pc \in {"streamed", "sse"} /\ turn = "none" /\ ~cancelled
    /\ Shut
    /\ LoopReturns
    /\ UNCHANGED <<canWrite, wire, oversized, handler>>

Emit ==
    /\ EmitDropped \/ EmitPlain \/ StreamStart \/ StreamEnd \/ EmitFails
    /\ UNCHANGED <<flowVars, timers, stopVars, parserVars, queue, bodyVars,
                   refusals, websocket>>

\* Mutant: draining is left to the shutdown code.
StopsServingRecycle(keep) == ~keep

StopsServing(keep) == draining \/ ~keep

\* Between two requests: draining and recycling stop here, at the boundary.
Boundary ==
    /\ pc = "boundary" /\ turn = "serve"
    /\ \E keep \in IF Recycles THEN BOOLEAN ELSE {TRUE} :
         IF StopsServing(keep)
           THEN Shut /\ LoopReturns
           ELSE /\ pc' = "head" /\ serving' = 0
                /\ UNCHANGED <<transport, turn, cancelled>>
    /\ UNCHANGED <<wire, canWrite, flowVars, timers, stopVars, parserVars,
                   oversized, queue, bodyVars, handler, refusals, websocket>>

\* CancelledError reaches the loop: from connection_lost, or the handler's own.
LoopUnwinds ==
    /\ turn = "none" /\ pc # "none"
    /\ cancelled \/ (pc = "wait" /\ handler[serving] = "aborted")
    /\ handler' = IF pc = "wait" THEN [handler EXCEPT ![serving] = "gone"]
                                 ELSE handler
    /\ pc' = "none" /\ serving' = 0 /\ cancelled' = FALSE
    /\ UNCHANGED <<connVars, flowVars, timers, stopVars, turn, parserVars,
                   oversized, queue, bodyVars, refusals, websocket>>

-----------------------------------------------------------------------------
(* Handlers, timers, refusal tasks, the peer and shutdown.                  *)

\* A stream=True handler reads its body chunk by chunk.
HandlerReads(m) ==
    /\ turn = "none"
    /\ handler[m] \in {"running", "detached"} /\ kind[m].stream
    /\ src[m].chunks > 0
    /\ UpdateSource(m, ReadOne(src[m]))
    /\ UNCHANGED <<connVars, timers, stopVars, turn, parserVars, oversized,
                   queue, current, loopVars, refusals, websocket>>

\* handle_request ends, in a response, in an exception or in a cancellation.
HandlerEnds(m) ==
    /\ turn = "none" /\ handler[m] = "running"
    /\ \/ handler' = [handler EXCEPT ![m] = "done"]
       \/ /\ HandlerMayCancel
          /\ handler' = [handler EXCEPT ![m] = "aborted"]
    /\ UNCHANGED <<connVars, flowVars, timers, stopVars, turn, parserVars,
                   oversized, queue, bodyVars, pc, cancelled, serving,
                   refusals, websocket>>

\* _on_detached_handler_done: EOF first, then a task drains the body.
DetachedEnds(m) ==
    /\ turn = "none"
    /\ \/ /\ handler[m] = "detached"
          /\ handler' = [handler EXCEPT ![m] = "draining"]
          /\ UpdateSource(m, FeedEof(src[m]))
       \/ /\ handler[m] = "draining"
          /\ handler' = [handler EXCEPT ![m] = "gone"]
          /\ UpdateSource(m, Drain(src[m]))
    /\ UNCHANGED <<connVars, timers, stopVars, turn, parserVars, oversized,
                   queue, current, pc, cancelled, serving, refusals, websocket>>

request_timeout ==
    /\ turn = "none" /\ rqTimer
    /\ rqTimer' = FALSE
    /\ EmitAndClose("refusal", Refused)
    /\ UNCHANGED <<flowVars, kaTimer, stopVars, turn, parserVars, oversized,
                   queue, bodyVars, loopVars, refusals, websocket>>

\* Mutant: a connection that served nothing yet is left alone.
keep_alive_timeout_served ==
    /\ turn = "none" /\ kaTimer /\ wire # <<>>
    /\ kaTimer' = FALSE
    /\ Shut
    /\ UNCHANGED <<wire, canWrite, flowVars, rqTimer, stopVars, turn,
                   parserVars, oversized, queue, bodyVars, loopVars, refusals,
                   websocket>>

keep_alive_timeout ==
    /\ turn = "none" /\ kaTimer
    /\ kaTimer' = FALSE
    /\ Shut
    /\ UNCHANGED <<wire, canWrite, flowVars, rqTimer, stopVars, turn,
                   parserVars, oversized, queue, bodyVars, loopVars, refusals,
                   websocket>>

\* The awaited 413 is ready; it is framed and the connection closed.
emit_refusal(m) ==
    /\ turn = "none" /\ m \in refusals
    /\ refusals' = refusals \ {m}
    /\ EmitAndClose("refusal", m)
    /\ UNCHANGED <<flowVars, timers, stopVars, turn, parserVars, oversized,
                   queue, bodyVars, loopVars, websocket>>

\* The write buffer crosses its marks; only a stream waits on the gate.
pause_writing ==
    /\ turn = "none" /\ Open /\ pc \in {"streamed", "sse"} /\ canWrite
    /\ canWrite' = FALSE
    /\ UNCHANGED <<transport, wire, flowVars, timers, stopVars, turn,
                   parserVars, oversized, queue, bodyVars, loopVars, refusals,
                   websocket>>

resume_writing ==
    /\ turn = "none" /\ transport # "none" /\ ~canWrite
    /\ canWrite' = TRUE
    /\ UNCHANGED <<transport, wire, flowVars, timers, stopVars, turn,
                   parserVars, oversized, queue, bodyVars, loopVars, refusals,
                   websocket>>

\* The peer's EOF, or the websocket's close, closes the transport.
PeerCloses ==
    /\ turn = "none" /\ Open
    /\ Shut
    /\ UNCHANGED <<wire, canWrite, flowVars, timers, stopVars, turn,
                   parserVars, oversized, queue, bodyVars, loopVars, refusals,
                   websocket>>

begin_drain ==
    /\ turn = "none" /\ transport # "none" /\ ~draining
    /\ draining' = TRUE
    /\ IF pc = "none" /\ queue = <<>> /\ Open
         THEN closing' = TRUE /\ kaTimer' = FALSE /\ Shut
         ELSE UNCHANGED <<closing, kaTimer, transport>>
    /\ UNCHANGED <<wire, canWrite, flowVars, rqTimer, turn, parserVars,
                   oversized, queue, bodyVars, loopVars, refusals, websocket>>

\* An upgraded connection only ends its websocket task.
WebSocketLost ==
    /\ websocket
    /\ websocket' = FALSE
    /\ UNCHANGED <<canWrite, closing, queue, bodyVars, cancelled, timers>>

\* Mutant: the loop is left to notice by itself.
CancelLoopNever == UNCHANGED cancelled

CancelLoop == cancelled' = (pc # "none")

HttpLost ==
    /\ ~websocket
    /\ closing' = TRUE
    /\ canWrite' = TRUE
    /\ queue' = <<>>
    /\ src' = [m \in Msgs |->
                 IF m = current THEN FeedDisconnected(src[m])
                 ELSE IF m = serving THEN MarkDisconnected(src[m])
                 ELSE src[m]]
    /\ current' = 0
    /\ CancelLoop
    /\ kaTimer' = FALSE /\ rqTimer' = FALSE
    /\ UNCHANGED websocket

connection_lost ==
    /\ turn = "none" /\ transport # "none"
    /\ WebSocketLost \/ HttpLost
    /\ transport' = "none"
    /\ UNCHANGED <<wire, flowVars, draining, turn, parserVars, oversized, pc,
                   serving, handler, refusals>>

-----------------------------------------------------------------------------
ParserNext ==
    \/ data_received \/ on_url \/ reject_oversized \/ on_headers_complete
    \/ on_body \/ on_message_complete \/ ParserError \/ SegmentEnd

LoopNext ==
    \/ ServeNext \/ ServeIdle \/ ReadBody \/ HandlerReturned \/ DrainDone
    \/ HandlerTimeout \/ Emit \/ Boundary \/ LoopUnwinds

Next ==
    \/ ParserNext
    \/ LoopNext
    \/ \E m \in Msgs : \/ HandlerReads(m) \/ HandlerEnds(m)
                       \/ DetachedEnds(m) \/ emit_refusal(m)
    \/ request_timeout \/ keep_alive_timeout
    \/ pause_writing \/ resume_writing
    \/ PeerCloses \/ begin_drain \/ connection_lost

Spec == Init /\ [][Next]_vars

(***************************************************************************)
(* A callback that has the turn finishes; the event loop gets to every     *)
(* ready task however much data arrives; an armed timer fires unless it is *)
(* stood down.  Nothing is assumed of the peer, of the handler (its        *)
(* timeout stands in), of a response's stream or of an awaited refusal.    *)
(***************************************************************************)
Fairness ==
    /\ WF_vars(SegmentEnd)
    /\ WF_vars(turn = "serve" /\ LoopNext)
    /\ SF_vars(ServeNext \/ ServeIdle \/ ReadBody)
    /\ SF_vars(HandlerReturned \/ HandlerTimeout \/ DrainDone \/ LoopUnwinds)
    /\ SF_vars(request_timeout)
    /\ WF_vars(keep_alive_timeout)

FairSpec == Spec /\ Fairness

-----------------------------------------------------------------------------
(* What the connection promises.                                            *)

Answered == 1 .. MaxMsgs + 1

Output == [what : {"resp", "head", "end", "refusal", "interim", "switch"},
           req : Answered]

Phases == {"idle", "headers", "body", "closed", "failed", "upgraded"}

Steps == {"none", "head", "body", "wait", "drain", "emit", "streamed", "sse",
          "boundary"}

HandlerStates == {"none", "running", "done", "aborted", "detached",
                  "draining", "gone"}

ConnType ==
    transport \in {"open", "closing", "none"} /\ canWrite \in BOOLEAN
    /\ wire \in Seq(Output)

TimerType == kaTimer \in BOOLEAN /\ rqTimer \in BOOLEAN

StopType == closing \in BOOLEAN /\ draining \in BOOLEAN

ParserType ==
    /\ phase \in Phases /\ msg \in Msg0 /\ kind \in [Msgs -> Kind]
    /\ headersDone \in BOOLEAN

FlowType == reading \in BOOLEAN /\ pauses \subseteq {"body", "depth"}

BodyType == current \in Msg0 /\ src \in [Msgs -> Source]

LoopType ==
    /\ pc \in Steps /\ cancelled \in BOOLEAN /\ serving \in Msg0
    /\ handler \in [Msgs -> HandlerStates]

\* The type of every variable.
TypeOK ==
    /\ ConnType /\ TimerType /\ StopType /\ ParserType /\ FlowType /\ BodyType
    /\ LoopType
    /\ turn \in {"none", "parser", "serve"}
    /\ oversized \in BOOLEAN
    /\ queue \in Seq(Msgs)
    /\ refusals \subseteq Msgs
    /\ websocket \in BOOLEAN

\* What the server loop writes: a buffered answer, or a stream's two ends.
Served == {"resp", "head", "end"}

\* The loop's answers leave in the order the requests came, and a streamed one
\* is not cut into by another answer (_serve awaits each _dispatch).
ResponsesInOrder ==
    \A i, j \in DOMAIN wire :
        (i < j /\ wire[i].what \in Served /\ wire[j].what \in Served) =>
            \/ wire[i].req < wire[j].req
            \/ /\ wire[i].req = wire[j].req
               /\ wire[i].what = "head" /\ wire[j].what = "end"

\* Each message before wire[j]'s has its complete answer on the wire by then.
AnswersPrecede(j) ==
    \A m \in 1 .. wire[j].req - 1 :
        \E i \in 1 .. j - 1 :
            wire[i].req = m /\ wire[i].what \in {"resp", "end"}

\* No answer takes an earlier request's place: when the loop starts one, each
\* earlier message has been answered in full.
NoAnswerSkipped ==
    \A j \in DOMAIN wire : wire[j].what \in Served => AnswersPrecede(j)

\* The keep-alive and the request timer are never both scheduled
\* (_arm_request_timer, and the check at the end of _serve).
TimersExclusive == ~(kaTimer /\ rqTimer)

\* An open connection nobody serves is always on a timer, so no client keeps
\* one by doing nothing; a pending refusal closes it itself.
IdleIsTimed ==
    (turn = "none" /\ Open /\ pc = "none" /\ refusals = {} /\ ~websocket) =>
        queue = <<>> /\ (kaTimer \/ rqTimer)

\* A request moved past on an open connection left no byte of its body behind
\* (_dispatch drains it), and a buffered route's handler had all of its body.
BodiesAreDrained ==
    \A m \in Msgs :
        /\ (Open /\ handler[m] = "gone" /\ serving # m) =>
               src[m].eof /\ src[m].chunks = 0
        /\ (handler[m] = "running" /\ ~kind[m].stream) =>
               src[m].eof \/ src[m].overflow

\* The transport is paused exactly while a reason stands, and each reason has
\* somebody left to clear it: a queue still over half its limit, or a source
\* over its low mark that waits its turn or is being consumed.
PausesHaveResumers ==
    Open =>
        /\ reading = (pauses = {})
        /\ "depth" \in pauses => Len(queue) > MaxPipelined \div 2
        /\ "body" \in pauses =>
              \E m \in Msgs :
                 /\ src[m].paused /\ src[m].chunks > LowWater
                 /\ m = serving \/ \E i \in DOMAIN queue : queue[i] = m

\* Once draining, the request in service is the last: the loop never goes on
\* to a follow-up, and no open connection is left behind (begin_drain).
DrainStopsAtBoundary ==
    [][(draining /\ serving # 0 /\ serving' # serving) =>
          serving' = 0 /\ transport' # "open"]_vars

\* connection_lost is final: no handler starts afterwards, nothing is queued.
NothingStartsAfterLoss ==
    [][transport = "none" =>
          /\ \A m \in Msgs : handler[m] = "none" => handler'[m] = "none"
          /\ Len(queue') <= Len(queue)]_vars

(* The inductive invariant behind TypeOK, TimersExclusive and               *)
(* ResponsesInOrder.                                                        *)

\* The number the next message to be queued has at least.
NextNew == IF phase = "headers" THEN msg ELSE msg + 1

\* A message is being parsed in these phases; the loop serves one at these.
ActorsHaveMessages ==
    /\ phase \in {"headers", "body", "upgraded"} => msg \in Msgs
    /\ (serving = 0) <=> pc \in {"none", "head"}

\* The queue is in the order of arrival, behind the request in service.
QueueInOrder ==
    /\ serving < NextNew
    /\ \A i \in DOMAIN queue : serving < queue[i] /\ queue[i] < NextNew
    /\ \A i, j \in DOMAIN queue : i < j => queue[i] < queue[j]

\* What the loop wrote is older than the queue, and than the request in
\* service until its own answer has begun.
WireBehindQueue ==
    \A k \in DOMAIN wire : wire[k].what \in Served =>
        /\ wire[k].req < NextNew
        /\ \A i \in DOMAIN queue : wire[k].req < queue[i]
        /\ pc \in {"body", "wait", "drain", "emit"} => wire[k].req < serving
        /\ pc \in {"streamed", "sse"} =>
              \/ wire[k].req < serving
              \/ wire[k].req = serving /\ wire[k].what = "head"

OrderInv ==
    /\ TypeOK
    /\ TimersExclusive
    /\ ActorsHaveMessages
    /\ QueueInOrder
    /\ WireBehindQueue
    /\ ResponsesInOrder

\* The loop waits for body bytes that no timer limits: see BodyWaitIsTimed.
UntimedBodyWait ==
    Open /\ pc \in {"body", "drain"} /\ ~src[serving].eof /\ ~rqTimer

\* A response streams for as long as its generator yields.
Streaming == pc \in {"streamed", "sse"}

\* A client that goes quiet loses the connection (keep-alive, request and
\* handler timeouts), whatever it sent before; the untimed wait and an answer
\* that never ends excepted.
QuietClientIsDropped == <>(~Open \/ []UntimedBodyWait \/ []Streaming)

\* A paused socket is read again or closed: both the depth pause and the
\* body pause come to an end, unless the answer in service never does.
PausedReadingResumes == (Open /\ ~reading) ~> (reading \/ ~Open \/ []Streaming)

-----------------------------------------------------------------------------
(* What comments and docstrings say of it, and the code does not keep.      *)

\* Everything written leaves in FIFO order, which _serve and the queue's
\* comment claim: a refusal, too, follows the answers it comes after.
WireInOrder == \A j \in DOMAIN wire : AnswersPrecede(j)

\* A 413 terminates the connection (_reject_413): once one is owed, no message
\* after the refused one reaches a handler.
RefusalTerminates ==
    \A m \in refusals : \A n \in Msgs : n > m => handler[n] = "none"

\* A queue at its high-water mark keeps the socket quiet (feed).
FullSourceIsPaused ==
    (turn = "none" /\ Open) =>
        \A m \in Msgs :
            (src[m].chunks >= HighWater /\ ~src[m].draining) => ~reading

\* The loop only gives up a connection nobody is left on (_dispatch's
\* CancelledError branch).
LoopGivesUpOnlyWhenLost ==
    [][(pc = "wait" /\ pc' = "none" /\ wire' = wire) =>
          transport' # "open"]_vars

\* The idle timeout is for connections that await a request: an upgraded one
\* has none scheduled (_start_keep_alive_timer).
UpgradedIsUntimed == websocket => ~kaTimer

\* connection_lost unwinds the handler in flight.
LossUnwindsLoop == (transport = "none" /\ pc # "none") => cancelled

\* The request budget covers the body: while the loop waits for body bytes
\* the slowloris timer is scheduled (REQUEST_TIMEOUT).
BodyWaitIsTimed ==
    (turn = "none" /\ Open /\ pc \in {"body", "drain"}
       /\ ~Readable(src[serving])) => rqTimer

----------------------------------------------------------------------------
(* For TLC: the kinds of request the client of a run may send.               *)
KeepAliveKinds == {[keep |-> TRUE, stream |-> FALSE]}

BufferedKinds == {[keep |-> k, stream |-> FALSE] : k \in BOOLEAN}

StreamKinds == {[keep |-> TRUE, stream |-> s] : s \in BOOLEAN}

NoUpgrades == {}
=============================================================================
