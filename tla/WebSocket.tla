------------------------------ MODULE WebSocket ------------------------------
(***************************************************************************)
(* One WebSocket of websocket.py, driven by its protocol (serving/         *)
(* protocol.py), by the task of its handler under Veloce._run_websocket    *)
(* (app/asgi.py) and by a helper task the handler started.                 *)
(*                                                                         *)
(* host says who drives the object: "native" is HttpProtocol after an      *)
(* upgrade, "manual" an object built by hand on a transport, the only one  *)
(* whose heartbeat is ever armed, "asgi" an ASGI server.  A frame of the   *)
(* peer is one step, so is a stretch of a coroutine between two awaits.    *)
(* Deadlines have no clock: an armed timer may fire at any moment.         *)
(***************************************************************************)
EXTENDS Integers, Sequences, FiniteSets

(***************************************************************************)
(* The incremental UTF-8 validator of websocket.py (_Utf8Validator), and   *)
(* what UTF-8 is: code points in their shortest form, surrogates excluded. *)
(***************************************************************************)

\* A validator waits for need more bytes, the next of them in lo .. hi.
Validator == [need : 0 .. 3, lo : {128, 144, 160}, hi : {143, 159, 191}]

NewValidator == [need |-> 0, lo |-> 128, hi |-> 191]

Awaits(n, lo, hi) == [need |-> n, lo |-> lo, hi |-> hi]

\* The bytes that may open a code point of more than one byte.
Leads == 194 .. 244

\* Mutant: the lead byte of the surrogates gets no upper bound of its own.
AfterLeadLax(b) ==
    CASE b \in 194 .. 223               -> Awaits(1, 128, 191)
      [] b = 224                        -> Awaits(2, 160, 191)
      [] b \in 225 .. 239               -> Awaits(2, 128, 191)
      [] b = 240                        -> Awaits(3, 144, 191)
      [] b \in 241 .. 243               -> Awaits(3, 128, 191)
      [] b = 244                        -> Awaits(3, 128, 143)

AfterLead(b) ==
    CASE b \in 194 .. 223               -> Awaits(1, 128, 191)
      [] b = 224                        -> Awaits(2, 160, 191)
      [] b \in 225 .. 236 \cup 238 .. 239 -> Awaits(2, 128, 191)
      [] b = 237                        -> Awaits(2, 128, 159)
      [] b = 240                        -> Awaits(3, 144, 191)
      [] b \in 241 .. 243               -> Awaits(3, 128, 191)
      [] b = 244                        -> Awaits(3, 128, 143)

\* The byte b is acceptable to validator v.
Accepts(v, b) ==
    IF v.need = 0 THEN b < 128 \/ b \in Leads ELSE b \in v.lo .. v.hi

\* One byte of feed.
Consume(v, b) ==
    CASE v.need > 0 -> Awaits(v.need - 1, 128, 191)
      [] v.need = 0 /\ b < 128 -> v
      [] OTHER -> AfterLead(b)

\* feed: <<>> once a byte was refused, else the validator after the chunk.
Fed(v, chunk) ==
    LET after[i \in 0 .. Len(chunk)] ==
          IF i = 0 THEN <<v>>
          ELSE IF after[i - 1] = <<>> \/ ~Accepts(after[i - 1][1], chunk[i])
                 THEN <<>> ELSE <<Consume(after[i - 1][1], chunk[i])>>
    IN after[Len(chunk)]

-----------------------------------------------------------------------------
(* The reference: a byte string is UTF-8 when it splits into code points.   *)

Low(b) == b - 128

\* The value of the n bytes of s that start at i, read as one code point.
CodePoint(s, i, n) ==
    CASE n = 1 -> s[i]
      [] n = 2 -> (s[i] - 192) * 64 + Low(s[i + 1])
      [] n = 3 -> ((s[i] - 224) * 64 + Low(s[i + 1])) * 64 + Low(s[i + 2])
      [] n = 4 -> (((s[i] - 240) * 64 + Low(s[i + 1])) * 64
                     + Low(s[i + 2])) * 64 + Low(s[i + 3])

\* Those bytes have the shape of an encoding of length n ...
Shaped(s, i, n) ==
    /\ i + n - 1 <= Len(s)
    /\ s[i] \in CASE n = 1 -> 0 .. 127
                  [] n = 2 -> 192 .. 223
                  [] n = 3 -> 224 .. 239
                  [] n = 4 -> 240 .. 247
    /\ \A k \in 1 .. n - 1 : s[i + k] \in 128 .. 191

\* ... and of a code point that needs that length and is not a surrogate.
Encodes(s, i, n) ==
    /\ Shaped(s, i, n)
    /\ CodePoint(s, i, n) \in
         CASE n = 1 -> 0 .. 127
           [] n = 2 -> 128 .. 2047
           [] n = 3 -> (2048 .. 55295) \cup (57344 .. 65535)
           [] n = 4 -> 65536 .. 1114111

IsUtf8(s) ==
    LET from[i \in 1 .. Len(s) + 1] ==
          i = Len(s) + 1 \/ \E n \in 1 .. 4 : Encodes(s, i, n) /\ from[i + n]
    IN from[1]

-----------------------------------------------------------------------------
CONSTANTS
    Hosts,          \* the drivers explored
    Payloads,       \* for each host, what the peer puts into a data frame
    Readers,        \* the tasks that receive
    AppCodes,       \* close codes the application asks for
    MaxFrames,      \* for each host, how many data frames are taken (a bound)
    QueueMax,       \* recv_queue_maxsize
    MaxMessage      \* MAX_MESSAGE_SIZE, in bytes

ASSUME HostsAssumption == Hosts \subseteq {"native", "manual", "asgi"}
ASSUME BoundsAssumption ==
    /\ MaxFrames \in [Hosts -> Nat]
    /\ Payloads \in [Hosts -> SUBSET Seq(0 .. 255)]
    /\ QueueMax \in Nat \ {0} /\ MaxMessage \in Nat

VARIABLES
    host,           \* the driver, chosen once
    accepted, closed, peerClosed, closeSent,    \* flags of the WebSocket
    peerEvent,      \* _peer_close_event: "none", "armed", "set"
    closeCode,      \* close_code, 0 while unset
    queue,          \* _receive_queue: messages and Disconnect
    frag,           \* the message being reassembled, or NoFrag
    canWrite,       \* the protocol's _can_write
    pendingPong,    \* a PONG waits for canWrite
    transport,      \* "open", "closing", "lost"
    hb,             \* heartbeat: timer armed, PING outstanding, inbound seen
    pc,             \* where each task stands
    cancelled,      \* connection_lost cancelled the handler's task
    handlerExc,     \* _handler_exc is set
    \* History.
    raised,         \* the handler raised an error
    logged,         \* ... and it was reported when the task was done
    log,            \* the data frames taken, in order
    delivered,      \* messages the application received, in order
    tail,           \* what was written from the first Close frame on
    replied,        \* the peer's Close arrived after this side's own
    probed          \* a PING went out after the peer's last bytes

stateVars == <<accepted, closed, peerClosed, closeSent, peerEvent, closeCode>>
inVars == <<queue, frag, log, delivered>>
outVars == <<canWrite, pendingPong, transport, tail>>
hbVars == <<hb, probed>>
taskVars == <<pc, cancelled, handlerExc, raised, logged>>
vars == <<host, stateVars, inVars, outVars, hbVars, taskVars, replied>>

Tasks == {"handler", "helper"}
Raw == host \in {"native", "manual"}

NoFrag == [op |-> "none", bytes |-> <<>>, val |-> <<NewValidator>>]
Disconnect == [op |-> "disconnect", bytes |-> <<>>]

DataFrames == [op : {"text", "bin", "cont"}, fin : BOOLEAN, bytes : Payloads[host]]

\* _PEER_CLOSE_CODES_OK and the private range.
WireCodes == {1000, 1001, 1002, 1003} \cup (1007 .. 1014) \cup (3000 .. 4999)

Unarmed == [armed |-> FALSE, token |-> FALSE, saw |-> FALSE]

Init ==
    /\ host \in Hosts
    /\ accepted = FALSE /\ closed = FALSE
    /\ peerClosed = FALSE /\ closeSent = FALSE
    /\ peerEvent = "none" /\ closeCode = 0
    /\ queue = <<>> /\ frag = NoFrag /\ log = <<>> /\ delivered = <<>>
    /\ canWrite = TRUE /\ pendingPong = FALSE
    /\ transport = "open" /\ tail = <<>>
    /\ hb = Unarmed /\ probed = FALSE
    /\ pc = [t \in Tasks |-> IF t = "handler" THEN "start" ELSE "idle"]
    /\ cancelled = FALSE /\ handlerExc = FALSE
    /\ raised = FALSE /\ logged = FALSE
    /\ replied = FALSE

-----------------------------------------------------------------------------
(* Writing.                                                                 *)

\* A closing transport still takes bytes while its buffer is not empty, a
\* lost one drops them.  Frames before the first Close are not recorded.
Written(f) ==
    CASE transport = "lost" \/ (tail = <<>> /\ f.op # "close") -> {tail}
      [] transport = "open" /\ (tail # <<>> \/ f.op = "close")
           -> {Append(tail, f)}
      [] OTHER -> {tail, Append(tail, f)}

send_frame(f) == tail' \in Written(f)

\* Of a code only what may be asked of it is kept: may it be sent?
Data == [op |-> "data", legal |-> TRUE]
Pong == [op |-> "pong", legal |-> TRUE]
Close(code) == [op |-> "close", legal |-> code \in WireCodes]

sanitise_close(code) == IF code \in WireCodes THEN code ELSE 1000

\* The sentinel for a parked receiver, unless the queue is full.
Woken(q) == IF Len(q) < QueueMax THEN Append(q, Disconnect) ELSE q

\* Mutant: the parser's teardown does not note that a Close frame is out.
terminate_rawUnnoted(code, recorded) ==
    /\ send_frame(Close(code))
    /\ hb' = Unarmed
    /\ closeCode' = recorded
    /\ closed' = TRUE
    /\ queue' = Woken(queue)
    /\ transport' = "closing"
    /\ UNCHANGED closeSent

\* _terminate_raw: recorded is the close_code it leaves behind.
terminate_raw(code, recorded) ==
    /\ send_frame(Close(code))
    /\ hb' = Unarmed
    /\ closeCode' = recorded
    /\ closed' = TRUE
    /\ closeSent' = TRUE
    /\ queue' = Woken(queue)
    /\ transport' = "closing"

-----------------------------------------------------------------------------
(* The frame parser: data_received, feed_data and _parse_frame.             *)

\* Mutant: inbound bytes are not noted for the heartbeat.
InboundUnnoted == hb

\* _note_heartbeat_inbound
Inbound == [hb EXCEPT !.saw = @ \/ hb.armed]

\* Bytes reach the parser while the transport is read and this side is open.
Parsing == Raw /\ transport = "open" /\ ~closed

parserFrame == UNCHANGED <<host, accepted, peerEvent, canWrite, taskVars, replied>>

\* A frame that is not complete yet, or whose opcode has no meaning.
FrameWithoutEffect ==
    /\ Parsing
    /\ hb' = Inbound /\ probed' = FALSE
    /\ UNCHANGED <<host, stateVars, inVars, outVars, taskVars, replied>>

\* RSV bits, no mask, a long or fragmented control frame; a declared length
\* over MAX_FRAME_SIZE.
FrameRefused ==
    /\ Parsing
    /\ \E code \in {1002, 1009} : terminate_raw(code, code)
    /\ probed' = FALSE
    /\ UNCHANGED <<peerClosed, frag, log, delivered, pendingPong>> /\ parserFrame

FramePing ==
    /\ Parsing
    /\ hb' = Inbound /\ probed' = FALSE
    /\ IF host = "manual" \/ canWrite
         THEN send_frame(Pong) /\ UNCHANGED pendingPong
         ELSE pendingPong' = TRUE /\ UNCHANGED tail
    /\ UNCHANGED <<stateVars, inVars, transport, canWrite, host, taskVars, replied>>

\* A PONG echoes the outstanding token, or another one.
FramePong ==
    /\ Parsing
    /\ \E match \in BOOLEAN :
         hb' = [Inbound EXCEPT !.token = @ /\ ~match]
    /\ probed' = FALSE
    /\ UNCHANGED <<host, stateVars, inVars, outVars, taskVars, replied>>

\* The reassembly buffer once f has been added to it.
Extended(f) ==
    IF f.op = "cont"
      THEN [op |-> frag.op, bytes |-> frag.bytes \o f.bytes,
            val |-> IF frag.op = "text" THEN Fed(frag.val[1], f.bytes)
                                        ELSE frag.val]
      ELSE [op |-> f.op, bytes |-> f.bytes,
            val |-> IF f.op = "text" THEN Fed(NewValidator, f.bytes)
                                     ELSE <<NewValidator>>]

\* What a data frame comes to: a close code, 0 for a message, 1 for a part.
\* Only continuations may follow a part; the size of a message is bounded
\* where it is reassembled, that of a single frame by MAX_FRAME_SIZE.
Verdict(f) ==
    LET g == Extended(f)
    IN IF (f.op = "cont") = (frag = NoFrag) THEN 1002
       ELSE IF g.val = <<>> THEN 1007
       ELSE IF Len(g.bytes) > MaxMessage /\ (f.op = "cont" \/ ~f.fin) THEN 1009
       ELSE IF f.fin /\ g.val[1].need # 0 THEN 1007
       ELSE IF f.fin THEN 0 ELSE 1

\* Mutant: a message that finds the queue full is dropped.
enqueue_or_closeDrops(message) ==
    /\ queue' = IF Len(queue) < QueueMax THEN Append(queue, message) ELSE queue
    /\ hb' = Inbound
    /\ UNCHANGED <<closed, closeSent, closeCode, tail, transport>>

enqueue_or_close(message) ==
    IF Len(queue) < QueueMax
      THEN /\ queue' = Append(queue, message)
           /\ hb' = Inbound
           /\ UNCHANGED <<closed, closeSent, closeCode, tail, transport>>
      ELSE terminate_raw(1009, 1009)

\* A data frame.  What a refused one leaves in the reassembly buffer is not
\* followed: nothing is parsed after it.
FrameData(f) ==
    /\ Parsing
    /\ Len(log) < MaxFrames[host]
    /\ log' = IF Verdict(f) \in {0, 1} THEN Append(log, f) ELSE log
    /\ CASE Verdict(f) = 0 ->
              /\ enqueue_or_close([op |-> Extended(f).op, bytes |-> Extended(f).bytes])
              /\ frag' = NoFrag
         [] Verdict(f) = 1 ->
              /\ frag' = Extended(f)
              /\ hb' = Inbound
              /\ UNCHANGED <<queue, closed, closeSent, closeCode, tail, transport>>
         [] OTHER -> terminate_raw(Verdict(f), Verdict(f)) /\ UNCHANGED frag
    /\ probed' = FALSE
    /\ UNCHANGED <<peerClosed, delivered, pendingPong>> /\ parserFrame

\* _handle_close_frame: the code answered and the code recorded.
close_reply(body) ==
    CASE body = "empty" -> <<1000, 1005>>
      [] body = "code" -> <<3000, 3000>>
      [] body \in {"short", "reserved"} -> <<1002, 1002>>
      [] body = "reason" -> <<1007, 1007>>

\* The peer closes first; its code is valid, absent, cut short, reserved, or
\* comes with a reason that is not UTF-8.
FrameClose ==
    /\ Parsing
    /\ \E body \in {"empty", "code", "short", "reserved", "reason"} :
         terminate_raw(close_reply(body)[1], close_reply(body)[2])
    /\ peerClosed' = TRUE
    /\ peerEvent' = IF peerEvent = "armed" THEN "set" ELSE peerEvent
    /\ probed' = FALSE
    /\ UNCHANGED <<host, accepted, frag, log, delivered, canWrite, pendingPong,
                   taskVars, replied>>

\* feed_data once _closed is set: bytes are kept and not parsed, the peer's
\* reply to this side's Close among them.
FrameUnparsed ==
    /\ Raw /\ transport = "open" /\ closed
    /\ tail # <<>>
    /\ replied' = TRUE
    /\ UNCHANGED <<host, stateVars, inVars, outVars, hbVars, taskVars>>

-----------------------------------------------------------------------------
(* The protocol: back-pressure and loss of the connection.                  *)

pause_writing ==
    /\ host = "native" /\ transport # "lost" /\ canWrite
    /\ canWrite' = FALSE
    /\ UNCHANGED <<host, stateVars, inVars, pendingPong, transport, tail, hbVars,
                   taskVars, replied>>

\* Event.set releases everyone who waits; the deferred PONG goes out.
resume_writing ==
    /\ host = "native" /\ transport # "lost" /\ ~canWrite
    /\ canWrite' = TRUE
    /\ IF pendingPong THEN send_frame(Pong) ELSE UNCHANGED tail
    /\ pendingPong' = FALSE
    /\ pc' = [t \in Tasks |-> IF pc[t] = "drain" THEN "flush" ELSE pc[t]]
    /\ UNCHANGED <<host, stateVars, inVars, transport, hbVars, cancelled,
                   handlerExc, raised, logged, replied>>

\* Mutant: the handler is left to notice the flag on its next read.
connection_lostFlagOnly ==
    /\ transport # "lost"
    /\ transport' = "lost"
    /\ IF host = "native" THEN closed' = TRUE ELSE UNCHANGED closed
    /\ UNCHANGED <<host, accepted, peerClosed, closeSent, peerEvent, closeCode,
                   inVars, canWrite, pendingPong, tail, hbVars, taskVars, replied>>

\* The upgraded branch of connection_lost returns before _can_write is set.
\* A hand-built object hears nothing of the loss, an ASGI one on receive.
connection_lost ==
    /\ transport # "lost"
    /\ transport' = "lost"
    /\ IF host = "native"
         THEN closed' = TRUE /\ cancelled' = (pc["handler"] # "done")
         ELSE UNCHANGED <<closed, cancelled>>
    /\ UNCHANGED <<host, accepted, peerClosed, closeSent, peerEvent, closeCode,
                   inVars, canWrite, pendingPong, tail, hbVars, pc, handlerExc,
                   raised, logged, replied>>

-----------------------------------------------------------------------------
(* The heartbeat of a hand-built object.                                    *)

beatFrame == UNCHANGED <<host, frag, log, delivered, canWrite, pendingPong, tail,
                         taskVars, replied>>

\* _heartbeat_tick after a window in which bytes arrived.
HeartbeatAlive ==
    /\ host = "manual" /\ hb.armed /\ hb.saw
    /\ hb' = [Unarmed EXCEPT !.armed = TRUE]
    /\ UNCHANGED <<stateVars, queue, transport, probed>> /\ beatFrame

\* _heartbeat_tick after a silent one: a PING with a new token.
HeartbeatProbe ==
    /\ host = "manual" /\ hb.armed /\ ~hb.saw /\ ~hb.token
    /\ hb' = [hb EXCEPT !.token = TRUE]
    /\ probed' = TRUE
    /\ UNCHANGED <<stateVars, queue, transport>> /\ beatFrame

\* ... and a PING that went unanswered for a window: the peer is dropped, no
\* Close frame is sent.
close_heartbeat_timeout ==
    /\ host = "manual" /\ hb.armed /\ ~hb.saw /\ hb.token
    /\ closed' = TRUE /\ closeCode' = 1006
    /\ hb' = Unarmed
    /\ queue' = Woken(queue)
    /\ transport' = IF transport = "lost" THEN "lost" ELSE "closing"
    /\ UNCHANGED <<accepted, peerClosed, closeSent, peerEvent, probed>>
    /\ beatFrame

-----------------------------------------------------------------------------
(* What the tasks call.  A call on a closed socket raises and leaves the    *)
(* task where it is, free to go on or to end.                               *)

goto(t, to) == pc' = [pc EXCEPT ![t] = to]

errorFrame == UNCHANGED <<cancelled, handlerExc, raised, logged>>

\* A heartbeat is configured, and accept comes to start it, by hand only.
start_heartbeat == [Unarmed EXCEPT !.armed = (host = "manual")]

\* accept: the 101 is out on the native path, so only the flag is set there;
\* under ASGI a first event other than websocket.connect raises.
accept ==
    /\ pc["handler"] = "start" /\ ~closed
    /\ \/ /\ accepted' = TRUE
          /\ hb' = start_heartbeat
          /\ pc' = [t \in Tasks |-> "run"]
       \/ /\ host = "asgi" /\ transport = "lost"
          /\ goto("handler", "run")
          /\ UNCHANGED <<accepted, hb>>
    /\ UNCHANGED <<host, closed, peerClosed, closeSent, peerEvent, closeCode,
                   inVars, outVars, probed, replied>> /\ errorFrame

\* Mutant: a send does not look at _closed.
sendUnchecked(t) ==
    /\ pc[t] = "run" /\ accepted /\ host = "manual" /\ Len(tail) < 5
    /\ send_frame(Data)
    /\ UNCHANGED <<host, stateVars, inVars, canWrite, pendingPong, transport,
                   hbVars, pc, replied>> /\ errorFrame

\* send_text, send_bytes, send_json up to the first await.  On the native
\* path drain parks the task over the high-water mark; elsewhere it writes.
send(t) ==
    /\ pc[t] = "run" /\ accepted /\ ~closed
    /\ \/ /\ host = "native" /\ ~canWrite /\ transport = "open"
          /\ goto(t, "drain")
          /\ UNCHANGED <<closed, tail>>
       \/ /\ host = "manual" \/ (host = "native" /\ (canWrite \/ transport # "open"))
          /\ send_frame(Data)
          /\ UNCHANGED <<closed, pc>>
       \/ /\ host = "asgi" /\ transport = "lost"     \* _asgi_send_failed
          /\ closed' = TRUE
          /\ UNCHANGED <<tail, pc>>
    /\ UNCHANGED <<host, accepted, peerClosed, closeSent, peerEvent, closeCode,
                   inVars, canWrite, pendingPong, transport, hbVars, replied>>
    /\ errorFrame

\* _raw_send after its drain: _closed is not looked at again.
Flush(t) ==
    /\ pc[t] = "flush"
    /\ send_frame(Data)
    /\ goto(t, "run")
    /\ UNCHANGED <<host, stateVars, inVars, canWrite, pendingPong, transport,
                   hbVars, replied>> /\ errorFrame

\* receive_text and receive_bytes up to the await.
receive(t) ==
    /\ t \in Readers
    /\ pc[t] = "run" /\ accepted /\ ~closed
    /\ goto(t, "recv")
    /\ UNCHANGED <<host, stateVars, inVars, outVars, hbVars, replied>> /\ errorFrame

\* _raw_recv takes the head of the queue; the sentinel raises.
Received(t) ==
    /\ pc[t] = "recv" /\ queue # <<>>
    /\ queue' = Tail(queue)
    /\ delivered' = IF Head(queue) = Disconnect THEN delivered
                                                ELSE Append(delivered, Head(queue))
    /\ goto(t, "run")
    /\ UNCHANGED <<host, stateVars, frag, log, outVars, hbVars, replied>>
    /\ errorFrame

\* The ASGI receive returns a message, or websocket.disconnect.
AsgiReceived(t) ==
    /\ host = "asgi" /\ pc[t] = "recv"
    /\ IF transport = "lost"
         THEN closed' = TRUE /\ closeCode' = 1005
         ELSE UNCHANGED <<closed, closeCode>>
    /\ goto(t, "run")
    /\ UNCHANGED <<host, accepted, peerClosed, closeSent, peerEvent, inVars,
                   outVars, hbVars, replied>> /\ errorFrame

\* A deadline of the call itself, not of the connection, expires.
CallTimesOut(t) ==
    /\ pc[t] = "recv"
    /\ goto(t, "run")
    /\ UNCHANGED <<host, stateVars, inVars, outVars, hbVars, replied>> /\ errorFrame

\* close: nothing is owed when a Close frame is out (under ASGI, when
\* closed).  The raw path then waits for the peer unless it closed first.
close_call(t, code, wait, after) ==
    IF IF Raw THEN closeSent ELSE closed
      THEN goto(t, after) /\ UNCHANGED <<stateVars, tail, hb, transport>>
      ELSE /\ closed' = TRUE
           /\ closeSent' = (closeSent \/ Raw)
           /\ hb' = Unarmed
           /\ send_frame(Close(sanitise_close(code)))
           /\ IF Raw /\ ~peerClosed
                THEN peerEvent' = "armed" /\ goto(t, wait) /\ UNCHANGED transport
                ELSE /\ goto(t, after) /\ UNCHANGED peerEvent
                     /\ transport' = IF Raw /\ transport = "open"
                                       THEN "closing" ELSE transport
           /\ UNCHANGED <<accepted, peerClosed, closeCode>>

\* The application closes, or the idle window of a receive ran out.
close(t) ==
    /\ \/ pc[t] = "run" /\ \E code \in AppCodes : close_call(t, code, "closing", "run")
       \/ pc[t] = "recv" /\ close_call(t, 1001, "closing", "run")
    /\ UNCHANGED <<host, inVars, canWrite, pendingPong, probed, replied>>
    /\ errorFrame

\* The peer's Close or CLOSE_HANDSHAKE_TIMEOUT ends the wait of close.
CloseWaited(t) ==
    /\ pc[t] \in {"closing", "ending"}
    /\ transport' = IF transport = "open" THEN "closing" ELSE transport
    /\ goto(t, IF pc[t] = "closing" THEN "run" ELSE "done")
    /\ logged' = IF pc[t] = "ending" THEN raised ELSE logged
    /\ UNCHANGED <<host, stateVars, inVars, canWrite, pendingPong, tail, hbVars,
                   cancelled, handlerExc, raised, replied>>

-----------------------------------------------------------------------------
(* The end of the handler: _run_websocket and _ws_task_done.                *)

\* The handler is over with the close code of its outcome; under a driver a
\* Close frame is owed when _needs_close says so, a hand-built socket is
\* closed by its context manager unless an error goes through it.
CloseOnExit(code, error) ==
    IF host = "manual" /\ error
      THEN goto("handler", "done") /\ UNCHANGED <<stateVars, tail, hb, transport>>
      ELSE close_call("handler", code, "ending", "done")

\* Mutant: the error is noted on the socket only when the close is over.
HandlerEndsLateNote ==
    /\ pc["handler"] \in {"start", "run"}
    /\ \E code \in {1000, 1008, 1011} \cup AppCodes :
         /\ CloseOnExit(code, code = 1011)
         /\ raised' = (code = 1011)
         /\ logged' = (code = 1011 /\ pc'["handler"] = "done")
    /\ UNCHANGED <<host, inVars, canWrite, pendingPong, probed, cancelled,
                   handlerExc, replied>>

\* It returns (1000), its parameters do not validate (1008), it raises
\* WebSocketException with a code of its own, or any other error (1011),
\* which is noted on the socket before the close, where the task may end.
HandlerEnds ==
    /\ pc["handler"] \in {"start", "run"}
    /\ \E code \in {1000, 1008, 1011} \cup AppCodes :
         /\ CloseOnExit(code, code = 1011)
         /\ raised' = (code = 1011)
         /\ handlerExc' = (code = 1011)
         /\ logged' = (code = 1011 /\ pc'["handler"] = "done")
    /\ UNCHANGED <<host, inVars, canWrite, pendingPong, probed, cancelled, replied>>

\* The cancellation of connection_lost is thrown at the await where the
\* handler's task stands; _ws_task_done reports the noted error.
HandlerCancelled ==
    /\ cancelled /\ pc["handler"] # "done"
    /\ goto("handler", "done")
    /\ logged' = handlerExc
    /\ UNCHANGED <<host, stateVars, inVars, outVars, hbVars, cancelled,
                   handlerExc, raised, replied>>

\* The helper ends by itself.
HelperEnds ==
    /\ pc["helper"] = "run"
    /\ goto("helper", "done")
    /\ UNCHANGED <<host, stateVars, inVars, outVars, hbVars, replied>> /\ errorFrame

TaskStep(t) ==
    \/ send(t) \/ Flush(t) \/ receive(t) \/ Received(t) \/ AsgiReceived(t)
    \/ CallTimesOut(t) \/ close(t) \/ CloseWaited(t)

Next ==
    \/ FrameWithoutEffect \/ FrameRefused \/ FramePing \/ FramePong
    \/ (\E f \in DataFrames : FrameData(f)) \/ FrameClose \/ FrameUnparsed
    \/ pause_writing \/ resume_writing \/ connection_lost
    \/ HeartbeatAlive \/ HeartbeatProbe \/ close_heartbeat_timeout
    \/ accept \/ HandlerEnds \/ HandlerCancelled \/ HelperEnds
    \/ \E t \in Tasks : TaskStep(t)

Spec == Init /\ [][Next]_vars

\* Ready tasks run and armed timers fire; a closing transport is lost in the
\* end.  Nothing is assumed of the peer or of what the tasks do.
FairSpec ==
    /\ Spec
    /\ \A t \in Tasks : /\ WF_vars(Flush(t)) /\ WF_vars(Received(t))
                        /\ WF_vars(CloseWaited(t))
    /\ WF_vars(HandlerCancelled)
    /\ WF_vars(transport = "closing" /\ connection_lost)
    /\ WF_vars(HeartbeatAlive \/ HeartbeatProbe \/ close_heartbeat_timeout)

-----------------------------------------------------------------------------
(* Properties.                                                              *)

Messages == [op : {"text", "bin"}, bytes : Seq(0 .. 255)]

\* Types, and the bound of the receive queue.
TypeOK ==
    /\ host \in Hosts
    /\ {accepted, closed, peerClosed, closeSent, canWrite, pendingPong, cancelled,
        handlerExc, raised, logged, replied, probed} \subseteq BOOLEAN
    /\ peerEvent \in {"none", "armed", "set"}
    /\ closeCode \in {0, 1002, 1005, 1006, 1007, 1009, 3000}
    /\ Len(queue) <= QueueMax
    /\ \A i \in 1 .. Len(queue) : queue[i] \in Messages \cup {Disconnect}
    /\ frag.op \in {"none", "text", "bin"} /\ Len(frag.bytes) <= MaxMessage
    /\ transport \in {"open", "closing", "lost"}
    /\ hb \in [armed : BOOLEAN, token : BOOLEAN, saw : BOOLEAN]
    /\ pc \in [Tasks -> {"idle", "start", "run", "recv", "drain", "flush",
                         "closing", "ending", "done"}]

\* Whoever closes, and in whatever order the parser, the tasks and the
\* dispatcher's exit get to it, one Close frame is written (_needs_close,
\* _close_frame_sent).
OneCloseFrame == \A i \in 2 .. Len(tail) : tail[i].op # "close"

\* No code that is reserved or unassigned goes on the wire, whether it comes
\* from the application, from the parser or from the peer's own frame.
CodesMayBeSent ==
    \A i \in 1 .. Len(tail) : tail[i].legal

Parked == {t \in Tasks : pc[t] \in {"drain", "flush"}}
Late(op) == {i \in 2 .. Len(tail) : tail[i].op = op}

\* After the Close frame only the native path writes, and there only what was
\* held back when the socket closed: a frame of each task that was parked in
\* drain, which _raw_send does not reconsider, and one deferred PONG.
SilentAfterClose ==
    IF host = "native"
      THEN /\ Cardinality(Late("data")) + Cardinality(Parked) <= Cardinality(Tasks)
           /\ Cardinality(Late("pong")) + (IF pendingPong THEN 1 ELSE 0) <= 1
      ELSE Len(tail) <= 1

\* Reference: what a list of data frames is made of, its whole messages and
\* the part that follows them.
NothingYet == [whole |-> <<>>, part |-> <<>>, op |-> "none"]

AndThen(p, f) ==
    LET op == IF f.op = "cont" THEN p.op ELSE f.op
        bytes == p.part \o f.bytes
    IN IF f.fin
         THEN [whole |-> Append(p.whole, [op |-> op, bytes |-> bytes]),
               part |-> <<>>, op |-> "none"]
         ELSE [whole |-> p.whole, part |-> bytes, op |-> op]

Reassembly(frames) ==
    LET upTo[i \in 0 .. Len(frames)] ==
          IF i = 0 THEN NothingYet ELSE AndThen(upTo[i - 1], frames[i])
    IN upTo[Len(frames)]

MessagesOf(frames) == Reassembly(frames).whole

\* While the socket is open every message the peer completed was delivered or
\* is queued, in order, whole, and once: fragments interleaved with control
\* frames, and a queue at its bound, lose nothing silently.
NothingLostWhileOpen ==
    (Raw /\ ~closed) => delivered \o queue = MessagesOf(log)

\* What the application receives as text is UTF-8, although the parser checks
\* fragment by fragment and never decodes the whole.
TextIsUtf8 ==
    \A m \in {delivered[i] : i \in 1 .. Len(delivered)} :
        m.op = "text" => IsUtf8(m.bytes)

\* An error of the handler is reported when its task is done, even if the
\* peer was gone and the task cancelled while it closed the socket.
ErrorReported == (host = "native" /\ pc["handler"] = "done" /\ raised) => logged

\* An open, accepted, hand-built socket always has its heartbeat armed.
HeartbeatArmed == (host = "manual" /\ accepted /\ ~closed) => hb.armed

\* The heartbeat drops no peer from which bytes arrived since the last PING.
HeartbeatSparesLive ==
    [][(closed' /\ ~closed /\ closeCode' = 1006) => probed]_vars

\* A PING the peer leaves unanswered is followed by other bytes or the end.
SilentPeerDropped == probed ~> (~probed \/ closed)

\* Once a native socket is closed, by whomever, its handler does not stay in
\* a receive, in drain or in the close handshake.
HandlerUnwinds ==
    (host = "native" /\ closed) ~> (pc["handler"] \in {"start", "run", "done"})

\* A receiver parked on a hand-built socket is woken by the parser's and by
\* the heartbeat's teardown.
ReceiverWoken ==
    (host = "manual" /\ closeCode # 0) ~> (pc["handler"] # "recv")

\* tests/test_websocket_close_handshake.py: the wait of close ends on the
\* peer's reply rather than on the clock.
ReplyEndsWait == (replied /\ peerEvent # "none") => peerEvent = "set"

\* drain: a torn-down connection never parks the producer.
ProducerReleased == (transport = "lost") ~> (pc["helper"] # "drain")

----------------------------------------------------------------------------
(* For TLC: 65 is a letter, 237 opens a code point of three bytes and 237,   *)
(* 160 a surrogate, which UTF-8 excludes.                                    *)
AllHosts == {"native", "manual", "asgi"}
PeerPayloads == [native |-> {<<65>>}, manual |-> {<<65>>, <<237>>, <<160>>},
                 asgi |-> {}]
PeerFrames == [native |-> 2, manual |-> 3, asgi |-> 0]

NativePayloads == [native |-> {<<65>>}]
NativeFrames == [native |-> 1]
=============================================================================
