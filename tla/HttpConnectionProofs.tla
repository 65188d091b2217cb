------------------------ MODULE HttpConnectionProofs ------------------------
(* Proofs about HttpConnection, for any number of messages, any bounds and  *)
(* any mix of requests, upgrades, refusals and cancelled handlers.          *)
EXTENDS HttpConnection, TLAPS

\* The ranges of the message numbers.
LEMMA MsgRanges ==
    /\ 0 \in Msg0
    /\ \A m \in Msgs : m \in Msg0 /\ m \in Answered /\ m # 0
    /\ \A m \in Msg0 : m # 0 => m \in Msgs
    /\ \A m \in Msg0 : m + 1 \in Answered
    /\ \A m \in Msg0 : m < MaxMsgs => m + 1 \in Msgs
BY BoundAssumption DEF Msgs, Msg0, Answered

\* The empty sequence has every element type.
LEMMA EmptyType == \A S : <<>> \in Seq(S)
OBVIOUS

\* Every operation of a body source yields a body source.
LEMMA SourceOps ==
    ASSUME NEW s \in Source
    PROVE  /\ NewSource \in Source /\ Feed(s) \in Source
           /\ FeedEof(s) \in Source /\ FeedEof(Feed(s)) \in Source
           /\ FeedDisconnected(s) \in Source /\ MarkDisconnected(s) \in Source
           /\ s.chunks > 0 => ReadOne(s) \in Source
           /\ ReadAll(s) \in Source /\ Drain(s) \in Source
<1>1. NewSource \in Source
  BY DEF Source, NewSource
<1>2. Feed(s) \in Source
  <2>1. s.size + 1 \in Nat /\ s.chunks + 1 \in Nat /\ 0 \in Nat
    BY DEF Source
  <2>2. (s.paused \/ s.chunks + 1 >= HighWater) \in BOOLEAN
    OBVIOUS
  <2>3. [s EXCEPT !.size = 0] \in Source
    BY <2>1, Zenon DEF Source
  <2>4. [s EXCEPT !.size = @ + 1, !.overflow = TRUE] \in Source
    BY <2>1, Zenon DEF Source
  <2>5. [s EXCEPT !.size = @ + 1, !.chunks = @ + 1,
                  !.paused = s.paused \/ s.chunks + 1 >= HighWater] \in Source
    BY <2>1, <2>2, Zenon DEF Source
  <2>. QED BY <2>3, <2>4, <2>5, Zenon DEF Feed
<1>3. \A t \in Source : FeedEof(t) \in Source
  BY DEF Source, FeedEof
<1>4. FeedDisconnected(s) \in Source /\ MarkDisconnected(s) \in Source
  BY DEF Source, FeedDisconnected, MarkDisconnected
<1>5. s.chunks > 0 => ReadOne(s) \in Source
  <2>1. SUFFICES ASSUME s.chunks > 0 PROVE ReadOne(s) \in Source
    OBVIOUS
  <2>2. s.chunks - 1 \in Nat
    BY <2>1 DEF Source
  <2>3. (s.paused /\ s.chunks - 1 > LowWater) \in BOOLEAN
    OBVIOUS
  <2>. QED BY <2>2, <2>3, Zenon DEF Source, ReadOne
<1>6. ReadAll(s) \in Source
  BY DEF Source, ReadAll
<1>7. Drain(s) \in Source
  BY DEF Source, Drain
<1>. QED BY <1>1, <1>2, <1>3, <1>4, <1>5, <1>6, <1>7

\* Storing a source keeps the types of the sources and of the pause bits.
LEMMA UpdateSourceType ==
    ASSUME TypeOK, NEW m \in Msgs, NEW s \in Source, UpdateSource(m, s)
    PROVE  /\ src' \in [Msgs -> Source]
           /\ pauses' \subseteq {"body", "depth"} /\ reading' \in BOOLEAN
BY DEF TypeOK, BodyType, FlowType, UpdateSource, SetPauseReasons

\* A write of a known sort about a message in range keeps the wire's type.
LEMMA WriteType ==
    ASSUME TypeOK, NEW m \in Answered,
           NEW w \in {"resp", "head", "end", "refusal", "interim", "switch"},
           Write(w, m)
    PROVE  wire' \in Seq(Output)
BY DEF TypeOK, ConnType, Write, Output

\* The same for a write that closes the transport.
LEMMA EmitAndCloseType ==
    ASSUME TypeOK, NEW m \in Answered, NEW w \in {"resp", "refusal"},
           EmitAndClose(w, m)
    PROVE  /\ wire' \in Seq(Output)
           /\ transport' \in {"open", "closing", "none"}
           /\ canWrite' = canWrite
<1>1. CASE Open
  BY <1>1, WriteType DEF EmitAndClose, Shut, Open, TypeOK, ConnType
<1>2. CASE ~Open
  BY <1>2 DEF EmitAndClose, Shut, TypeOK, ConnType
<1>. QED BY <1>1, <1>2

\* The message a refusal answers is in range.
LEMMA RefusedType ==
    ASSUME TypeOK, ActorsHaveMessages
    PROVE  Refused \in Answered
BY MsgRanges DEF TypeOK, ParserType, ActorsHaveMessages, Refused


-----------------------------------------------------------------------------
(* Types.                                                                   *)

\* A fresh source is a source.
LEMMA NewSourceType == NewSource \in Source
BY DEF NewSource, Source

\* An admitted connection is well typed, its timers apart, nobody at work.
LEMMA InitType == Init => TypeOK /\ ActorsHaveMessages /\ TimersExclusive
<1>. SUFFICES ASSUME Init PROVE TypeOK /\ ActorsHaveMessages /\ TimersExclusive
  OBVIOUS
<1>1. TypeOK
  <2>1. ConnType /\ TimerType /\ StopType /\ FlowType
    BY EmptyType, Zenon DEF Init, ConnType, TimerType, StopType, FlowType
  <2>2. ParserType
    <3>1. [keep |-> TRUE, stream |-> FALSE] \in Kind
      BY DEF Kind
    <3>. QED BY <3>1, MsgRanges, Zenon DEF Init, ParserType, Phases
  <2>3. BodyType
    BY MsgRanges, NewSourceType, Zenon DEF Init, BodyType
  <2>4. LoopType
    BY MsgRanges, Zenon DEF Init, LoopType, Steps, HandlerStates
  <2>. QED BY <2>1, <2>2, <2>3, <2>4, EmptyType, Zenon DEF Init, TypeOK
<1>2. ActorsHaveMessages /\ TimersExclusive
  BY DEF Init, ActorsHaveMessages, TimersExclusive
<1>. QED BY <1>1, <1>2

\* The names the parser's phase, the loop's step and a handler's state take.
LEMMA Names ==
    /\ {"idle", "headers", "body", "closed", "failed", "upgraded"}
         \subseteq Phases
    /\ {"none", "head", "body", "wait", "drain", "emit", "streamed", "sse",
        "boundary"} \subseteq Steps
    /\ {"none", "running", "done", "aborted", "detached", "draining", "gone"}
         \subseteq HandlerStates
BY DEF Phases, Steps, HandlerStates

\* The callbacks of the parser keep the types.
LEMMA ParserTypeStep ==
    ASSUME TypeOK, ActorsHaveMessages, ParserNext
    PROVE  TypeOK'
<1>. USE DEF ConnType, TimerType, StopType, ParserType, FlowType, BodyType,
             LoopType, connVars, timers, stopVars, parserVars, flowVars,
             bodyVars, loopVars
<1>1. CASE data_received
  BY <1>1 DEF data_received, ArmRequestTimer, TypeOK
<1>2. CASE on_url
  BY <1>2, MsgRanges, Names DEF on_url, TypeOK
<1>3. CASE reject_oversized
  <2>1. msg \in Answered
    BY <1>3, MsgRanges DEF reject_oversized, TypeOK, ActorsHaveMessages
  <2>2. ConnType'
    BY <1>3, <2>1, EmitAndCloseType DEF reject_oversized, TypeOK
  <2>. QED BY <1>3, <2>2 DEF reject_oversized, TypeOK
<1>4. CASE on_headers_complete
  <2>1. msg \in Msgs /\ msg \in Answered
    BY <1>4, MsgRanges DEF on_headers_complete, TypeOK, ActorsHaveMessages
  <2>2. kind' \in [Msgs -> Kind]
    BY <1>4, <2>1, KindAssumption DEF on_headers_complete, TypeOK
  <2>3. UNCHANGED <<stopVars, turn, msg, cancelled, serving, handler>>
    BY <1>4 DEF on_headers_complete
  <2>4. CASE HeadersIgnored
    BY <2>1, <2>2, <2>3, <2>4, Names DEF HeadersIgnored, TypeOK
  <2>5. CASE HeadersUpgrade
    <3>1. /\ phase' = "upgraded"
          /\ UNCHANGED <<flowVars, headersDone, queue, bodyVars, pc, refusals>>
      BY <2>5 DEF HeadersUpgrade
    <3>2. /\ ConnType' /\ TimerType'
          /\ oversized' \in BOOLEAN /\ websocket' \in BOOLEAN
      <4>1. CASE UpgradeAccepted
        <5>1. wire' \in Seq(Output)
          BY <4>1, <2>1, WriteType DEF UpgradeAccepted
        <5>. QED BY <4>1, <5>1 DEF UpgradeAccepted, TypeOK
      <4>2. CASE UpgradeRefused
        <5>1. ConnType'
          BY <4>2, <2>1, EmitAndCloseType DEF UpgradeRefused, TypeOK
        <5>. QED BY <4>2, <5>1 DEF UpgradeRefused, TypeOK
      <4>3. CASE UpgradeUnknown
        <5>1. ConnType'
          BY <4>3, <2>1, EmitAndCloseType DEF UpgradeUnknown, TypeOK
        <5>. QED BY <4>3, <5>1 DEF UpgradeUnknown, TypeOK
      <4>. QED BY <2>5, <4>1, <4>2, <4>3 DEF HeadersUpgrade
    <3>. QED BY <2>1, <2>2, <2>3, <3>1, <3>2, Names DEF TypeOK
  <2>6. CASE HeadersTooLarge
    <3>1. /\ phase' = "body" /\ current' = 0 /\ oversized' = TRUE
          /\ UNCHANGED <<flowVars, timers, headersDone, queue, pc, websocket>>
      BY <2>6 DEF HeadersTooLarge
    <3>2. src' \in [Msgs -> Source]
      BY <2>6, SourceOps, MsgRanges DEF HeadersTooLarge, TypeOK
    <3>3. ConnType' /\ refusals' \subseteq Msgs
      <4>1. CASE refusals' = refusals \cup {msg} /\ UNCHANGED connVars
        BY <2>1, <4>1 DEF TypeOK
      <4>2. CASE EmitAndClose("refusal", msg) /\ UNCHANGED refusals
        BY <2>1, <4>2, EmitAndCloseType DEF TypeOK
      <4>. QED BY <2>6, <4>1, <4>2 DEF HeadersTooLarge
    <3>. QED BY <2>1, <2>2, <2>3, <3>1, <3>2, <3>3, Names, MsgRanges DEF TypeOK
  <2>7. ASSUME NEW expect \in Expects, Enqueue(expect) PROVE TypeOK'
    <3>1. /\ current' = msg /\ headersDone' = TRUE /\ phase' = "body"
          /\ pc' = (IF pc = "none" THEN "head" ELSE pc)
          /\ UNCHANGED <<transport, canWrite, timers, oversized, refusals,
                         websocket>>
      BY <2>7 DEF Enqueue
    <3>2. wire' \in Seq(Output)
      BY <2>1, <2>7, WriteType DEF Enqueue, TypeOK
    <3>3. src' \in [Msgs -> Source]
      BY <2>7, NewSourceType DEF Enqueue, TypeOK
    <3>4. queue' \in Seq(Msgs)
      BY <2>1, <2>7 DEF Enqueue, TypeOK
    <3>5. FlowType'
      BY <2>7 DEF Enqueue, SetPauseReasons, TypeOK
    <3>. QED BY <2>1, <2>2, <2>3, <3>1, <3>2, <3>3, <3>4, <3>5, Names,
                MsgRanges DEF TypeOK
  <2>. QED BY <1>4, <2>4, <2>5, <2>6, <2>7 DEF on_headers_complete
<1>5. CASE on_body
  <2>1. current \in Msgs /\ msg \in Answered /\ src[current] \in Source
    BY <1>5, MsgRanges DEF on_body, TypeOK, ActorsHaveMessages
  <2>2. /\ src' \in [Msgs -> Source] /\ FlowType'
    BY <1>5, <2>1, SourceOps, UpdateSourceType DEF on_body
  <2>3. ConnType' /\ current' \in Msg0 /\ oversized' \in BOOLEAN
    <3>1. CASE EmitAndClose("refusal", msg) /\ current' = 0 /\ oversized' = TRUE
      BY <2>1, <3>1, EmitAndCloseType, MsgRanges DEF TypeOK
    <3>2. CASE UNCHANGED <<current, oversized, connVars>>
      BY <3>2 DEF TypeOK
    <3>. QED BY <1>5, <3>1, <3>2 DEF on_body
  <2>4. UNCHANGED <<timers, stopVars, turn, parserVars, queue, loopVars,
                    refusals, websocket>>
    BY <1>5 DEF on_body
  <2>. QED BY <2>2, <2>3, <2>4 DEF TypeOK
<1>6. CASE on_message_complete
  <2>1. src' \in [Msgs -> Source]
    BY <1>6, SourceOps, MsgRanges DEF on_message_complete, TypeOK
  <2>2. phase' \in Phases
    BY <1>6, Names DEF on_message_complete
  <2>3. /\ headersDone' = FALSE /\ rqTimer' = FALSE /\ current' = 0
        /\ UNCHANGED <<connVars, flowVars, kaTimer, stopVars, turn, msg, kind,
                       oversized, queue, loopVars, refusals, websocket>>
    BY <1>6 DEF on_message_complete
  <2>4. TimerType' /\ ParserType' /\ BodyType'
    BY <2>1, <2>2, <2>3, MsgRanges DEF TypeOK
  <2>5. /\ ConnType' /\ StopType' /\ FlowType' /\ LoopType'
        /\ turn' \in {"none", "parser", "serve"} /\ oversized' \in BOOLEAN
        /\ queue' \in Seq(Msgs) /\ refusals' \subseteq Msgs
        /\ websocket' \in BOOLEAN
    BY <2>3 DEF TypeOK
  <2>. QED BY <2>4, <2>5, Zenon DEF TypeOK
<1>7. CASE ParserError
  <2>1. ConnType'
    BY <1>7, RefusedType, EmitAndCloseType DEF ParserError, TypeOK
  <2>. QED BY <1>7, <2>1, Names DEF ParserError, TypeOK
<1>8. CASE SegmentEnd
  <2>1. ConnType' /\ oversized' \in BOOLEAN
    <3>1. CASE UNCHANGED <<connVars, oversized>>
      BY <3>1 DEF TypeOK
    <3>2. CASE oversized' = TRUE /\ EmitAndClose("refusal", Refused)
      BY <3>2, RefusedType, EmitAndCloseType DEF TypeOK
    <3>. QED BY <1>8, <3>1, <3>2 DEF SegmentEnd
  <2>. QED BY <1>8, <2>1 DEF SegmentEnd, TypeOK
<1>. QED BY <1>1, <1>2, <1>3, <1>4, <1>5, <1>6, <1>7, <1>8 DEF ParserNext

\* The steps of the server loop keep the types.
LEMMA LoopTypeStep ==
    ASSUME TypeOK, ActorsHaveMessages, LoopNext
    PROVE  TypeOK'
<1>. USE DEF ConnType, TimerType, StopType, ParserType, FlowType, BodyType,
             LoopType, connVars, timers, stopVars, parserVars, flowVars,
             bodyVars, loopVars
<1>0. pc \notin {"none", "head"} =>
          /\ serving \in Msgs /\ serving \in Answered
          /\ src[serving] \in Source
  BY MsgRanges DEF TypeOK, ActorsHaveMessages
<1>1. CASE ServeNext
  <2>1. PopLeft.item \in Msgs /\ PopLeft.rest \in Seq(Msgs)
    BY <1>1 DEF ServeNext, PopLeft, TypeOK
  <2>2. serving' \in Msg0 /\ queue' \in Seq(Msgs)
    BY <1>1, <2>1, MsgRanges DEF ServeNext
  <2>3. FlowType'
    BY <1>1 DEF ServeNext, SetPauseReasons, TypeOK
  <2>4. /\ pc' \in Steps /\ turn' \in {"none", "serve"}
        /\ handler' \in [Msgs -> HandlerStates]
    BY <1>1, <2>1, Names DEF ServeNext, TypeOK
  <2>5. UNCHANGED <<connVars, timers, stopVars, parserVars, oversized,
                    bodyVars, cancelled, refusals, websocket>>
    BY <1>1 DEF ServeNext
  <2>. QED BY <2>2, <2>3, <2>4, <2>5 DEF TypeOK
<1>2. CASE ServeIdle
  BY <1>2, Names, MsgRanges DEF ServeIdle, LoopReturns, TypeOK
<1>3. CASE ReadBody
  <2>1. src' \in [Msgs -> Source] /\ FlowType'
    BY <1>0, <1>3, SourceOps, UpdateSourceType DEF ReadBody
  <2>2. pc' \in Steps /\ handler' \in [Msgs -> HandlerStates]
    BY <1>0, <1>3, Names DEF ReadBody, TypeOK
  <2>3. /\ turn' = "none"
        /\ UNCHANGED <<connVars, timers, stopVars, parserVars, oversized,
                       queue, current, cancelled, serving, refusals, websocket>>
    BY <1>3 DEF ReadBody
  <2>. QED BY <2>1, <2>2, <2>3 DEF TypeOK
<1>4. CASE HandlerReturned
  <2>1. src' \in [Msgs -> Source] /\ FlowType'
    <3>1. CASE UNCHANGED <<src, flowVars>>
      BY <3>1 DEF TypeOK
    <3>2. CASE UpdateSource(serving, Drain(src[serving]))
      BY <1>0, <1>4, <3>2, SourceOps, UpdateSourceType DEF HandlerReturned
    <3>. QED BY <1>4, <3>1, <3>2 DEF HandlerReturned
  <2>2. /\ pc' \in Steps /\ turn' \in {"none", "serve"}
        /\ handler' \in [Msgs -> HandlerStates]
    BY <1>0, <1>4, Names DEF HandlerReturned, TypeOK
  <2>3. UNCHANGED <<connVars, timers, stopVars, parserVars, oversized, queue,
                    current, cancelled, serving, refusals, websocket>>
    BY <1>4 DEF HandlerReturned
  <2>. QED BY <2>1, <2>2, <2>3 DEF TypeOK
<1>5. CASE DrainDone
  <2>1. [src[serving] EXCEPT !.chunks = 0] \in Source
    BY <1>0, <1>5, Zenon DEF DrainDone, Source
  <2>2. src' \in [Msgs -> Source]
    BY <1>0, <1>5, <2>1 DEF DrainDone, TypeOK
  <2>3. /\ pc' = "emit" /\ turn' = "serve"
        /\ UNCHANGED <<connVars, flowVars, timers, stopVars, parserVars,
                       oversized, queue, current, cancelled, serving, handler,
                       refusals, websocket>>
    BY <1>5 DEF DrainDone
  <2>. QED BY <2>2, <2>3, Names DEF TypeOK
<1>6. CASE HandlerTimeout
  <2>1. ConnType'
    BY <1>0, <1>6, EmitAndCloseType DEF HandlerTimeout, TypeOK
  <2>2. handler' \in [Msgs -> HandlerStates]
    BY <1>6, Names DEF HandlerTimeout, TypeOK
  <2>3. /\ pc' = "none" /\ serving' = 0 /\ turn' = "none"
        /\ UNCHANGED <<cancelled, flowVars, timers, stopVars, parserVars,
                       oversized, queue, bodyVars, refusals, websocket>>
    BY <1>6 DEF HandlerTimeout, LoopReturns
  <2>. QED BY <2>1, <2>2, <2>3, Names, MsgRanges DEF TypeOK
<1>7. CASE Emit
  <2>0. UNCHANGED <<flowVars, timers, stopVars, parserVars, queue, bodyVars,
                    refusals, websocket>>
    BY <1>7 DEF Emit
  <2>1. CASE EmitDropped
    BY <2>0, <2>1, Names, MsgRanges DEF EmitDropped, LoopReturns, TypeOK
  <2>2. CASE EmitPlain
    <3>1. wire' \in Seq(Output)
      BY <1>0, <2>2, WriteType DEF EmitPlain
    <3>2. UNCHANGED <<canWrite, handler>>
      BY <2>2 DEF EmitPlain
    <3>3. CASE kind[serving].keep
      <4>1. /\ oversized' = FALSE /\ pc' = "boundary"
            /\ UNCHANGED <<transport, turn, cancelled, serving>>
        BY <2>2, <3>3 DEF EmitPlain
      <4>2. ConnType' /\ LoopType'
        BY <3>1, <3>2, <4>1, Names DEF TypeOK
      <4>3. /\ TimerType' /\ StopType' /\ ParserType' /\ FlowType' /\ BodyType'
            /\ queue' \in Seq(Msgs) /\ refusals' \subseteq Msgs
            /\ websocket' \in BOOLEAN
        BY <2>0 DEF TypeOK
      <4>4. turn' \in {"none", "parser", "serve"} /\ oversized' \in BOOLEAN
        BY <4>1 DEF TypeOK
      <4>. QED BY <4>2, <4>3, <4>4, Zenon DEF TypeOK
    <3>4. CASE ~kind[serving].keep
      <4>1. /\ Shut /\ pc' = "none" /\ serving' = 0 /\ turn' = "none"
            /\ UNCHANGED <<cancelled, oversized>>
        BY <2>2, <3>4 DEF EmitPlain, LoopReturns
      <4>2. transport' \in {"open", "closing", "none"}
        BY <4>1 DEF Shut, TypeOK
      <4>. QED BY <2>0, <3>1, <3>2, <4>1, <4>2, Names, MsgRanges DEF TypeOK
    <3>. QED BY <3>3, <3>4
  <2>3. CASE StreamStart
    <3>1. wire' \in Seq(Output)
      BY <1>0, <2>3, WriteType DEF StreamStart
    <3>2. pc' \in Steps
      BY <2>3, KindAssumption, Names DEF StreamStart
    <3>. QED BY <2>0, <2>3, <3>1, <3>2 DEF StreamStart, TypeOK
  <2>4. CASE StreamEnd
    <3>1. wire' \in Seq(Output)
      BY <1>0, <2>4, WriteType DEF StreamEnd, TypeOK
    <3>2. UNCHANGED <<canWrite, handler>>
      BY <2>4 DEF StreamEnd
    <3>3. CASE pc = "streamed" /\ kind[serving].keep
      <4>1. /\ oversized' = FALSE /\ pc' = "boundary" /\ turn' = "serve"
            /\ UNCHANGED <<transport, cancelled, serving>>
        BY <2>4, <3>3 DEF StreamEnd
      <4>2. ConnType' /\ LoopType'
        BY <3>1, <3>2, <4>1, Names DEF TypeOK
      <4>3. /\ TimerType' /\ StopType' /\ ParserType' /\ FlowType' /\ BodyType'
            /\ queue' \in Seq(Msgs) /\ refusals' \subseteq Msgs
            /\ websocket' \in BOOLEAN
        BY <2>0 DEF TypeOK
      <4>4. turn' \in {"none", "parser", "serve"} /\ oversized' \in BOOLEAN
        BY <4>1 DEF TypeOK
      <4>. QED BY <4>2, <4>3, <4>4, Zenon DEF TypeOK
    <3>4. CASE ~(pc = "streamed" /\ kind[serving].keep)
      <4>1. /\ Shut /\ pc' = "none" /\ serving' = 0 /\ turn' = "none"
            /\ UNCHANGED <<cancelled, oversized>>
        BY <2>4, <3>4 DEF StreamEnd, LoopReturns
      <4>2. transport' \in {"open", "closing", "none"}
        BY <4>1 DEF Shut, TypeOK
      <4>. QED BY <2>0, <3>1, <3>2, <4>1, <4>2, Names, MsgRanges DEF TypeOK
    <3>. QED BY <3>3, <3>4
  <2>5. CASE EmitFails
    BY <2>0, <2>5, Names, MsgRanges DEF EmitFails, LoopReturns, Shut, TypeOK
  <2>. QED BY <1>7, <2>1, <2>2, <2>3, <2>4, <2>5 DEF Emit
<1>8. CASE Boundary
  BY <1>8, Names, MsgRanges DEF Boundary, LoopReturns, Shut, TypeOK
<1>9. CASE LoopUnwinds
  <2>1. handler' \in [Msgs -> HandlerStates]
    BY <1>9, Names DEF LoopUnwinds, TypeOK
  <2>2. /\ pc' = "none" /\ serving' = 0 /\ cancelled' = FALSE
        /\ UNCHANGED <<connVars, flowVars, timers, stopVars, turn, parserVars,
                       oversized, queue, bodyVars, refusals, websocket>>
    BY <1>9 DEF LoopUnwinds
  <2>3. LoopType'
    BY <2>1, <2>2, Names, MsgRanges
  <2>4. /\ ConnType' /\ TimerType' /\ StopType' /\ ParserType' /\ FlowType' /\ BodyType'
        /\ turn' \in {"none", "parser", "serve"} /\ oversized' \in BOOLEAN
        /\ queue' \in Seq(Msgs) /\ refusals' \subseteq Msgs
        /\ websocket' \in BOOLEAN
    BY <2>2 DEF TypeOK
  <2>. QED BY <2>3, <2>4, Zenon DEF TypeOK
<1>. QED BY <1>1, <1>2, <1>3, <1>4, <1>5, <1>6, <1>7, <1>8, <1>9 DEF LoopNext

\* Everything that is neither the parser nor the loop.
OtherNext ==
    \/ \E m \in Msgs : \/ HandlerReads(m) \/ HandlerEnds(m)
                       \/ DetachedEnds(m) \/ emit_refusal(m)
    \/ request_timeout \/ keep_alive_timeout
    \/ pause_writing \/ resume_writing
    \/ PeerCloses \/ begin_drain \/ connection_lost

\* Handlers, timers, refusals, the peer and shutdown keep the types.
LEMMA OtherTypeStep ==
    ASSUME TypeOK, ActorsHaveMessages, OtherNext
    PROVE  TypeOK'
<1>. USE DEF ConnType, TimerType, StopType, ParserType, FlowType, BodyType,
             LoopType, connVars, timers, stopVars, parserVars, flowVars,
             bodyVars, loopVars
<1>1. ASSUME NEW m \in Msgs, HandlerReads(m) PROVE TypeOK'
  <2>1. src' \in [Msgs -> Source] /\ FlowType'
    BY <1>1, SourceOps, UpdateSourceType DEF HandlerReads, TypeOK
  <2>2. UNCHANGED <<connVars, timers, stopVars, turn, parserVars, oversized,
                    queue, current, loopVars, refusals, websocket>>
    BY <1>1 DEF HandlerReads
  <2>. QED BY <2>1, <2>2 DEF TypeOK
<1>2. ASSUME NEW m \in Msgs, HandlerEnds(m) PROVE TypeOK'
  <2>1. handler' \in [Msgs -> HandlerStates]
    BY <1>2, Names DEF HandlerEnds, TypeOK
  <2>. QED BY <1>2, <2>1 DEF HandlerEnds, TypeOK
<1>3. ASSUME NEW m \in Msgs, DetachedEnds(m) PROVE TypeOK'
  <2>1. src' \in [Msgs -> Source] /\ FlowType'
    BY <1>3, SourceOps, UpdateSourceType DEF DetachedEnds, TypeOK
  <2>2. handler' \in [Msgs -> HandlerStates]
    BY <1>3, Names DEF DetachedEnds, TypeOK
  <2>3. UNCHANGED <<connVars, timers, stopVars, turn, parserVars, oversized,
                    queue, current, pc, cancelled, serving, refusals,
                    websocket>>
    BY <1>3 DEF DetachedEnds
  <2>. QED BY <2>1, <2>2, <2>3 DEF TypeOK
<1>4. ASSUME NEW m \in Msgs, emit_refusal(m) PROVE TypeOK'
  <2>1. ConnType'
    BY <1>4, EmitAndCloseType, MsgRanges DEF emit_refusal, TypeOK
  <2>. QED BY <1>4, <2>1 DEF emit_refusal, TypeOK
<1>5. CASE request_timeout
  <2>1. ConnType'
    BY <1>5, RefusedType, EmitAndCloseType DEF request_timeout, TypeOK
  <2>. QED BY <1>5, <2>1 DEF request_timeout, TypeOK
<1>6. CASE keep_alive_timeout
  BY <1>6 DEF keep_alive_timeout, Shut, TypeOK
<1>7. CASE pause_writing \/ resume_writing
  <2>1. /\ canWrite' \in BOOLEAN
        /\ UNCHANGED <<transport, wire, flowVars, timers, stopVars, turn,
                       parserVars, oversized, queue, bodyVars, loopVars,
                       refusals, websocket>>
    BY <1>7 DEF pause_writing, resume_writing
  <2>. QED BY <2>1 DEF TypeOK
<1>8. CASE PeerCloses
  BY <1>8 DEF PeerCloses, Shut, TypeOK
<1>9. CASE begin_drain
  <2>1. /\ draining' = TRUE /\ closing' \in BOOLEAN /\ kaTimer' \in BOOLEAN
        /\ transport' \in {"open", "closing", "none"}
    <3>1. closing' \in BOOLEAN /\ kaTimer' \in BOOLEAN /\ draining' = TRUE
      BY <1>9 DEF begin_drain, TypeOK
    <3>2. Shut \/ transport' = transport
      BY <1>9 DEF begin_drain
    <3>3. transport' \in {"open", "closing", "none"}
      BY <3>2 DEF Shut, TypeOK
    <3>. QED BY <3>1, <3>3
  <2>2. UNCHANGED <<wire, canWrite, flowVars, rqTimer, turn, parserVars,
                    oversized, queue, bodyVars, loopVars, refusals, websocket>>
    BY <1>9 DEF begin_drain
  <2>3. ConnType' /\ TimerType' /\ StopType' /\ FlowType'
    BY <2>1, <2>2 DEF TypeOK
  <2>4. ParserType' /\ BodyType' /\ LoopType'
    BY <2>2 DEF TypeOK
  <2>5. /\ turn' \in {"none", "parser", "serve"} /\ oversized' \in BOOLEAN
        /\ queue' \in Seq(Msgs) /\ refusals' \subseteq Msgs
        /\ websocket' \in BOOLEAN
    BY <2>2 DEF TypeOK
  <2>. QED BY <2>3, <2>4, <2>5, Zenon DEF TypeOK
<1>10. CASE connection_lost
  <2>1. /\ transport' = "none"
        /\ UNCHANGED <<wire, flowVars, draining, turn, parserVars, oversized,
                       pc, serving, handler, refusals>>
    BY <1>10 DEF connection_lost
  <2>2. CASE WebSocketLost
    <3>1. websocket' = FALSE /\ UNCHANGED <<canWrite, closing, queue, bodyVars, cancelled, timers>>
      BY <2>2 DEF WebSocketLost
    <3>2. ConnType' /\ TimerType' /\ StopType' /\ FlowType'
      BY <2>1, <3>1 DEF TypeOK
    <3>3. ParserType' /\ BodyType' /\ LoopType'
      BY <2>1, <3>1 DEF TypeOK
    <3>4. /\ turn' \in {"none", "parser", "serve"} /\ oversized' \in BOOLEAN
          /\ queue' \in Seq(Msgs) /\ refusals' \subseteq Msgs
          /\ websocket' \in BOOLEAN
      BY <2>1, <3>1 DEF TypeOK
    <3>. QED BY <3>2, <3>3, <3>4, Zenon DEF TypeOK
  <2>3. CASE HttpLost
    <3>1. src' \in [Msgs -> Source]
      BY <2>3, SourceOps DEF HttpLost, TypeOK
    <3>2. /\ closing' = TRUE /\ canWrite' = TRUE /\ queue' = <<>>
          /\ current' = 0 /\ cancelled' \in BOOLEAN
          /\ kaTimer' = FALSE /\ rqTimer' = FALSE /\ UNCHANGED websocket
      BY <2>3 DEF HttpLost, CancelLoop
    <3>. QED BY <2>1, <3>1, <3>2, MsgRanges, EmptyType DEF TypeOK
  <2>. QED BY <1>10, <2>2, <2>3 DEF connection_lost
<1>. QED BY <1>1, <1>2, <1>3, <1>4, <1>5, <1>6, <1>7, <1>8, <1>9, <1>10
     DEF OtherNext

-----------------------------------------------------------------------------
(* The parser has its message, the loop its request, and the timers.        *)

\* The parser's callbacks keep the timers apart, and the parser its message.
LEMMA ParserActorsStep ==
    ASSUME TypeOK, ActorsHaveMessages, TimersExclusive, ParserNext
    PROVE  ActorsHaveMessages' /\ TimersExclusive'
<1>. USE DEF ActorsHaveMessages, TimersExclusive, timers, parserVars, loopVars
<1>1. CASE data_received
  BY <1>1 DEF data_received, ArmRequestTimer
<1>2. CASE on_url
  BY <1>2, MsgRanges DEF on_url, TypeOK, ParserType
<1>3. CASE reject_oversized
  BY <1>3 DEF reject_oversized
<1>4. CASE on_headers_complete
  <2>1. UNCHANGED <<msg, serving>> /\ msg \in Msgs
    BY <1>4 DEF on_headers_complete
  <2>2. /\ pc' = pc \/ (pc = "none" /\ pc' = "head")
        /\ kaTimer' => kaTimer
        /\ rqTimer' => rqTimer
    <3>1. CASE HeadersIgnored
      BY <3>1 DEF HeadersIgnored
    <3>2. CASE HeadersUpgrade
      BY <3>2 DEF HeadersUpgrade, UpgradeAccepted, UpgradeRefused,
                  UpgradeUnknown
    <3>3. CASE HeadersTooLarge
      BY <3>3 DEF HeadersTooLarge
    <3>4. ASSUME NEW expect \in Expects, Enqueue(expect)
          PROVE  pc' = (IF pc = "none" THEN "head" ELSE pc) /\ UNCHANGED timers
      BY <3>4 DEF Enqueue
    <3>. QED BY <1>4, <3>1, <3>2, <3>3, <3>4 DEF on_headers_complete
  <2>. QED BY <2>1, <2>2
<1>5. CASE on_body
  BY <1>5 DEF on_body
<1>6. CASE on_message_complete
  BY <1>6 DEF on_message_complete
<1>7. CASE ParserError
  BY <1>7 DEF ParserError
<1>8. CASE SegmentEnd
  BY <1>8 DEF SegmentEnd
<1>. QED BY <1>1, <1>2, <1>3, <1>4, <1>5, <1>6, <1>7, <1>8 DEF ParserNext

\* So do the steps of the server loop; ServeIdle looks at the request timer.
LEMMA LoopActorsStep ==
    ASSUME TypeOK, ActorsHaveMessages, TimersExclusive, LoopNext
    PROVE  ActorsHaveMessages' /\ TimersExclusive'
<1>. USE DEF ActorsHaveMessages, TimersExclusive, timers, parserVars, loopVars,
             LoopReturns
<1>1. CASE ServeNext
  <2>1. PopLeft.item \in Msgs
    BY <1>1 DEF ServeNext, PopLeft, TypeOK
  <2>2. serving' # 0
    BY <1>1, <2>1, MsgRanges DEF ServeNext
  <2>3. pc' \in {"wait", "body"} /\ UNCHANGED <<timers, parserVars>>
    BY <1>1 DEF ServeNext
  <2>. QED BY <2>2, <2>3
<1>2. CASE ServeIdle
  BY <1>2 DEF ServeIdle, StartsKeepAlive
<1>3. CASE ReadBody
  BY <1>3 DEF ReadBody
<1>4. CASE HandlerReturned
  BY <1>4 DEF HandlerReturned
<1>5. CASE DrainDone
  BY <1>5 DEF DrainDone
<1>6. CASE HandlerTimeout
  BY <1>6 DEF HandlerTimeout
<1>7. CASE Emit
  <2>1. UNCHANGED <<timers, parserVars>>
    BY <1>7 DEF Emit
  <2>2. \/ pc' = "none" /\ serving' = 0
        \/ pc \notin {"none", "head"} /\ UNCHANGED serving
           /\ pc' \notin {"none", "head"}
    BY <1>7, KindAssumption
    DEF Emit, EmitDropped, EmitPlain, StreamStart, StreamEnd, EmitFails
  <2>. QED BY <2>1, <2>2
<1>8. CASE Boundary
  BY <1>8 DEF Boundary
<1>9. CASE LoopUnwinds
  BY <1>9 DEF LoopUnwinds
<1>. QED BY <1>1, <1>2, <1>3, <1>4, <1>5, <1>6, <1>7, <1>8, <1>9 DEF LoopNext

\* Nothing else moves the parser or the loop; timers are only stood down.
LEMMA OtherActorsStep ==
    ASSUME TypeOK, ActorsHaveMessages, TimersExclusive, OtherNext
    PROVE  ActorsHaveMessages' /\ TimersExclusive'
<1>. USE DEF timers, parserVars, loopVars
<1>1. /\ UNCHANGED <<phase, msg, pc, serving>>
      /\ kaTimer' => kaTimer
      /\ rqTimer' => rqTimer
  <2>1. ASSUME NEW m \in Msgs,
               HandlerReads(m) \/ HandlerEnds(m) \/ DetachedEnds(m)
                 \/ emit_refusal(m)
        PROVE  UNCHANGED <<phase, msg, pc, serving, kaTimer, rqTimer>>
    BY <2>1 DEF HandlerReads, HandlerEnds, DetachedEnds, emit_refusal
  <2>2. CASE request_timeout \/ keep_alive_timeout
    BY <2>2 DEF request_timeout, keep_alive_timeout
  <2>3. CASE pause_writing \/ resume_writing
    BY <2>3 DEF pause_writing, resume_writing
  <2>4. CASE PeerCloses \/ begin_drain
    BY <2>4 DEF PeerCloses, begin_drain
  <2>5. CASE connection_lost
    BY <2>5 DEF connection_lost, WebSocketLost, HttpLost
  <2>. QED BY <2>1, <2>2, <2>3, <2>4, <2>5 DEF OtherNext
<1>. QED BY <1>1 DEF ActorsHaveMessages, TimersExclusive

\* The part of OrderInv that says nothing about the order.
BaseInv == TypeOK /\ ActorsHaveMessages /\ TimersExclusive

\* Types, actors and timers are kept by every step.
LEMMA BaseStep == BaseInv /\ [Next]_vars => BaseInv'
<1>. SUFFICES ASSUME BaseInv, [Next]_vars PROVE BaseInv'
  OBVIOUS
<1>. USE DEF BaseInv
<1>1. CASE ParserNext
  BY <1>1, ParserTypeStep, ParserActorsStep
<1>2. CASE LoopNext
  BY <1>2, LoopTypeStep, LoopActorsStep
<1>3. CASE OtherNext
  BY <1>3, OtherTypeStep, OtherActorsStep
<1>4. CASE UNCHANGED vars
  BY <1>4 DEF vars, TypeOK, ConnType, TimerType, StopType, ParserType,
              FlowType, BodyType, LoopType, ActorsHaveMessages, TimersExclusive
<1>. QED BY <1>1, <1>2, <1>3, <1>4 DEF Next, OtherNext

\* Every reachable state of the connection is well typed.
THEOREM TypeCorrect == Spec => []TypeOK
<1>1. Init => BaseInv
  BY InitType DEF BaseInv
<1>2. BaseInv => TypeOK
  BY DEF BaseInv
<1>. QED BY <1>1, <1>2, BaseStep, PTL DEF Spec

\* The keep-alive timer and the request timer never run together.
THEOREM TimersNeverTogether == Spec => []TimersExclusive
<1>1. Init => BaseInv
  BY InitType DEF BaseInv
<1>2. BaseInv => TimersExclusive
  BY DEF BaseInv
<1>. QED BY <1>1, <1>2, BaseStep, PTL DEF Spec

-----------------------------------------------------------------------------
(* The order of the answers.                                                *)

\* The numbers the order invariant compares are integers.
LEMMA OrderNumbers ==
    ASSUME TypeOK
    PROVE  /\ serving \in Int /\ serving >= 0
           /\ msg \in Int /\ msg >= 0 /\ NextNew \in Int /\ NextNew > 0 - 1
           /\ \A i \in DOMAIN queue : queue[i] \in Int /\ queue[i] > 0
           /\ \A k \in DOMAIN wire : wire[k].req \in Int
<1>1. serving \in Int /\ serving >= 0 /\ msg \in Int /\ msg >= 0
  BY BoundAssumption DEF TypeOK, LoopType, ParserType, Msg0
<1>2. NextNew \in Int /\ NextNew > 0 - 1
  BY <1>1 DEF NextNew
<1>3. \A m \in Msgs : m \in Int /\ m > 0
  BY BoundAssumption DEF Msgs
<1>4. \A i \in DOMAIN queue : queue[i] \in Msgs
  BY DEF TypeOK
<1>5. \A a \in Answered : a \in Int
  BY BoundAssumption DEF Answered
<1>6. \A k \in DOMAIN wire : wire[k].req \in Answered
  <2>1. \A k \in DOMAIN wire : wire[k] \in Output
    BY DEF TypeOK, ConnType
  <2>. QED BY <2>1 DEF Output
<1>. QED BY <1>1, <1>2, <1>3, <1>4, <1>5, <1>6

\* Nothing the loop wrote is new on the wire.
ServedKept ==
    \A k \in DOMAIN wire' :
        wire'[k].what \in Served => k \in DOMAIN wire /\ wire'[k] = wire[k]

\* A write that is not an answer of the loop, or none, keeps them.
LEMMA UnservedWrite ==
    ASSUME TypeOK,
           NEW m, NEW w \in {"refusal", "interim", "switch"},
           Write(w, m) \/ UNCHANGED wire
    PROVE  ServedKept
<1>1. CASE UNCHANGED wire
  BY <1>1 DEF ServedKept
<1>2. CASE Write(w, m)
  <2>1. /\ DOMAIN wire' = 1 .. Len(wire) + 1
        /\ \A k \in 1 .. Len(wire) : wire'[k] = wire[k]
        /\ wire'[Len(wire) + 1] = [what |-> w, req |-> m]
        /\ DOMAIN wire = 1 .. Len(wire) /\ Len(wire) \in Nat
    BY <1>2 DEF Write, TypeOK, ConnType
  <2>2. wire'[Len(wire) + 1].what \notin Served
    BY <2>1 DEF Served
  <2>. QED BY <2>1, <2>2 DEF ServedKept
<1>. QED BY <1>1, <1>2

\* The same for a refusal that closes the transport.
LEMMA RefusalKeeps ==
    ASSUME TypeOK, NEW m, EmitAndClose("refusal", m)
    PROVE  ServedKept
BY UnservedWrite DEF EmitAndClose

\* Steps of the loop before its answer has begun, and while it streams.
Before == {"body", "wait", "drain", "emit"}
During == {"streamed", "sse"}

\* A step that starts no answer, queues nothing and serves nothing new.
Quiet ==
    /\ ServedKept
    /\ queue' = queue \/ queue' = <<>>
    /\ NextNew' >= NextNew
    /\ serving' = serving \/ serving' = 0
    /\ pc' \in Before => pc \in Before /\ serving' = serving
    /\ pc' \in During => pc \in During /\ serving' = serving

\* The conjuncts of OrderInv that are about the order.
Ordered == QueueInOrder /\ WireBehindQueue /\ ResponsesInOrder

\* A quiet step keeps the order.
LEMMA QuietStep ==
    ASSUME TypeOK, TypeOK', Ordered, Quiet
    PROVE  Ordered'
<1>1. /\ serving \in Int /\ NextNew \in Int
      /\ \A i \in DOMAIN queue : queue[i] \in Int /\ queue[i] > 0
      /\ \A k \in DOMAIN wire : wire[k].req \in Int
      /\ NextNew > 0 - 1 /\ serving >= 0
  BY OrderNumbers
<1>0. NextNew' \in Int
  <2>1. msg' \in Int
    BY BoundAssumption DEF TypeOK, ParserType, Msg0
  <2>. QED BY <2>1 DEF NextNew
<1>2. QueueInOrder'
  <2>1. serving' < NextNew'
    BY <1>1, <1>0 DEF Quiet, Ordered, QueueInOrder
  <2>2. CASE queue' = <<>>
    BY <2>1, <2>2 DEF QueueInOrder
  <2>3. CASE queue' = queue
    BY <1>1, <1>0, <2>1, <2>3 DEF Quiet, Ordered, QueueInOrder
  <2>. QED BY <2>2, <2>3 DEF Quiet
<1>3. WireBehindQueue'
  <2>. SUFFICES ASSUME NEW k \in DOMAIN wire', wire'[k].what \in Served
                PROVE  /\ wire'[k].req < NextNew'
                       /\ \A i \in DOMAIN queue' : wire'[k].req < queue'[i]
                       /\ pc' \in Before => wire'[k].req < serving'
                       /\ pc' \in During =>
                             \/ wire'[k].req < serving'
                             \/ /\ wire'[k].req = serving'
                                /\ wire'[k].what = "head"
    BY DEF WireBehindQueue, Before, During
  <2>1. k \in DOMAIN wire /\ wire'[k] = wire[k]
    BY DEF Quiet, ServedKept
  <2>2. wire[k].req < NextNew'
    BY <1>1, <1>0, <2>1 DEF Quiet, Ordered, WireBehindQueue
  <2>3. \A i \in DOMAIN queue' : wire'[k].req < queue'[i]
    BY <2>1 DEF Quiet, Ordered, WireBehindQueue
  <2>4. pc' \in Before => wire[k].req < serving'
    BY <2>1 DEF Quiet, Ordered, WireBehindQueue, Before
  <2>5. pc' \in During =>
          wire[k].req < serving'
          \/ (wire[k].req = serving' /\ wire[k].what = "head")
    BY <2>1 DEF Quiet, Ordered, WireBehindQueue, During
  <2>. QED BY <2>1, <2>2, <2>3, <2>4, <2>5
<1>4. ResponsesInOrder'
  BY DEF Quiet, ServedKept, Ordered, ResponsesInOrder
<1>. QED BY <1>2, <1>3, <1>4 DEF Ordered

\* The loop writes about the request it serves: a whole answer or a stream's
\* head before anything else, or the end of the stream it is in.
Answers(w) ==
    /\ Write(w, serving)
    /\ \/ pc \in Before /\ w \in {"resp", "head"}
       \/ pc \in During /\ w = "end"
    /\ UNCHANGED <<queue, NextNew>>
    /\ serving' = serving \/ serving' = 0
    /\ pc' \notin Before
    /\ pc' \in During => w = "head" /\ serving' = serving

\* An answer of the loop keeps the order: it is the newest on the wire.
LEMMA AnswerStep ==
    ASSUME TypeOK, Ordered, NEW w, Answers(w)
    PROVE  Ordered'
<1>1. /\ serving \in Int /\ NextNew \in Int
      /\ \A i \in DOMAIN queue : queue[i] \in Int /\ queue[i] > 0
      /\ \A k \in DOMAIN wire : wire[k].req \in Int
      /\ NextNew > 0 - 1 /\ serving >= 0
  BY OrderNumbers
<1>2. /\ DOMAIN wire' = 1 .. Len(wire) + 1
      /\ \A k \in 1 .. Len(wire) : wire'[k] = wire[k]
      /\ wire'[Len(wire) + 1] = [what |-> w, req |-> serving]
      /\ DOMAIN wire = 1 .. Len(wire) /\ Len(wire) \in Nat
  BY DEF Answers, Write, TypeOK, ConnType
<1>3. \A k \in DOMAIN wire : wire[k].what \in Served =>
          /\ wire[k].req < NextNew
          /\ \A i \in DOMAIN queue : wire[k].req < queue[i]
          /\ \/ wire[k].req < serving
             \/ wire[k].req = serving /\ wire[k].what = "head" /\ w = "end"
  BY DEF Answers, Ordered, WireBehindQueue, Before, During
<1>4. QueueInOrder'
  BY <1>1 DEF Answers, Ordered, QueueInOrder
<1>5. WireBehindQueue'
  <2>. SUFFICES ASSUME NEW k \in DOMAIN wire', wire'[k].what \in Served
                PROVE  /\ wire'[k].req < NextNew'
                       /\ \A i \in DOMAIN queue' : wire'[k].req < queue'[i]
                       /\ pc' \in Before => wire'[k].req < serving'
                       /\ pc' \in During =>
                             \/ wire'[k].req < serving'
                             \/ /\ wire'[k].req = serving'
                                /\ wire'[k].what = "head"
    BY DEF WireBehindQueue, Before, During
  <2>1. CASE k \in DOMAIN wire
    <3>1. wire'[k] = wire[k]
      BY <1>2, <2>1
    <3>2. pc' \in During => w = "head" /\ serving' = serving
      BY DEF Answers
    <3>3. wire[k].what \in Served
      BY <3>1
    <3>. QED BY <1>3, <2>1, <3>1, <3>2, <3>3 DEF Answers
  <2>2. CASE k = Len(wire) + 1
    <3>1. wire'[k].req = serving /\ wire'[k].what = w
      BY <1>2, <2>2
    <3>2. serving < NextNew /\ \A i \in DOMAIN queue : serving < queue[i]
      BY DEF Ordered, QueueInOrder
    <3>. QED BY <3>1, <3>2 DEF Answers
  <2>. QED BY <1>2, <2>1, <2>2
<1>6. ResponsesInOrder'
  <2>. SUFFICES ASSUME NEW i \in DOMAIN wire', NEW j \in DOMAIN wire', i < j,
                       wire'[i].what \in Served, wire'[j].what \in Served
                PROVE  \/ wire'[i].req < wire'[j].req
                       \/ /\ wire'[i].req = wire'[j].req
                          /\ wire'[i].what = "head" /\ wire'[j].what = "end"
    BY DEF ResponsesInOrder
  <2>1. i \in DOMAIN wire /\ wire'[i] = wire[i]
    BY <1>2
  <2>2. CASE j \in DOMAIN wire
    BY <1>2, <2>1, <2>2 DEF Ordered, ResponsesInOrder
  <2>3. CASE j = Len(wire) + 1
    <3>1. wire'[j].req = serving /\ wire'[j].what = w
      BY <1>2, <2>3
    <3>. QED BY <1>3, <2>1, <3>1
  <2>. QED BY <1>2, <2>2, <2>3
<1>. QED BY <1>4, <1>5, <1>6 DEF Ordered

\* The request just parsed goes to the end of the queue.
Queues ==
    /\ ServedKept
    /\ queue' = Append(queue, msg)
    /\ NextNew = msg /\ NextNew' = msg + 1
    /\ serving' = serving
    /\ pc' \in Before \cup During => pc' = pc

\* Queueing the newest request keeps the order.
LEMMA QueuesStep ==
    ASSUME TypeOK, Ordered, Queues
    PROVE  Ordered'
<1>1. /\ serving \in Int /\ NextNew \in Int /\ msg \in Int
      /\ \A i \in DOMAIN queue : queue[i] \in Int /\ queue[i] > 0
      /\ \A k \in DOMAIN wire : wire[k].req \in Int
  BY OrderNumbers
<1>2. /\ DOMAIN queue' = 1 .. Len(queue) + 1
      /\ \A i \in 1 .. Len(queue) : queue'[i] = queue[i]
      /\ queue'[Len(queue) + 1] = msg
      /\ DOMAIN queue = 1 .. Len(queue) /\ Len(queue) \in Nat
  BY DEF Queues, TypeOK
<1>3. QueueInOrder'
  <2>1. /\ serving < msg
        /\ \A i \in DOMAIN queue : serving < queue[i] /\ queue[i] < msg
        /\ \A i, j \in DOMAIN queue : i < j => queue[i] < queue[j]
    BY DEF Queues, Ordered, QueueInOrder
  <2>2. serving' < NextNew'
    BY <1>1, <2>1 DEF Queues
  <2>3. \A i \in DOMAIN queue' : serving' < queue'[i] /\ queue'[i] < NextNew'
    BY <1>1, <1>2, <2>1 DEF Queues
  <2>4. \A i, j \in DOMAIN queue' : i < j => queue'[i] < queue'[j]
    BY <1>1, <1>2, <2>1
  <2>. QED BY <2>2, <2>3, <2>4 DEF QueueInOrder
<1>4. WireBehindQueue'
  <2>. SUFFICES ASSUME NEW k \in DOMAIN wire', wire'[k].what \in Served
                PROVE  /\ wire'[k].req < NextNew'
                       /\ \A i \in DOMAIN queue' : wire'[k].req < queue'[i]
                       /\ pc' \in Before => wire'[k].req < serving'
                       /\ pc' \in During =>
                             \/ wire'[k].req < serving'
                             \/ /\ wire'[k].req = serving'
                                /\ wire'[k].what = "head"
    BY DEF WireBehindQueue, Before, During
  <2>1. k \in DOMAIN wire /\ wire'[k] = wire[k]
    BY DEF Queues, ServedKept
  <2>2. /\ wire[k].req < msg
        /\ \A i \in DOMAIN queue : wire[k].req < queue[i]
    BY <2>1 DEF Queues, Ordered, WireBehindQueue
  <2>3. \A i \in DOMAIN queue' : wire'[k].req < queue'[i]
    BY <1>1, <1>2, <2>1, <2>2
  <2>4. pc' \in Before => wire[k].req < serving
    BY <2>1 DEF Queues, Ordered, WireBehindQueue, Before
  <2>5. pc' \in During =>
          wire[k].req < serving
          \/ (wire[k].req = serving /\ wire[k].what = "head")
    BY <2>1 DEF Queues, Ordered, WireBehindQueue, During
  <2>6. wire[k].req < NextNew'
    BY <1>1, <2>1, <2>2 DEF Queues
  <2>. QED BY <2>1, <2>3, <2>4, <2>5, <2>6 DEF Queues
<1>5. ResponsesInOrder'
  BY DEF Queues, ServedKept, Ordered, ResponsesInOrder
<1>. QED BY <1>3, <1>4, <1>5 DEF Ordered

\* The loop takes the oldest request off the queue (popleft).
LEMMA ServeNextStep ==
    ASSUME TypeOK, Ordered, ServeNext
    PROVE  Ordered'
<1>1. /\ serving \in Int /\ NextNew \in Int
      /\ \A i \in DOMAIN queue : queue[i] \in Int /\ queue[i] > 0
      /\ \A k \in DOMAIN wire : wire[k].req \in Int
  BY OrderNumbers
<1>2. /\ queue' = Tail(queue) /\ serving' = Head(queue)
      /\ pc' \in {"wait", "body"}
      /\ UNCHANGED <<wire, phase, msg>> /\ queue # <<>>
  BY DEF ServeNext, PopLeft, connVars, parserVars
<1>3. /\ Len(queue) \in Nat \ {0} /\ DOMAIN queue = 1 .. Len(queue)
      /\ serving' = queue[1]
      /\ DOMAIN queue' = 1 .. Len(queue) - 1
      /\ \A i \in DOMAIN queue' : queue'[i] = queue[i + 1]
  BY <1>2 DEF TypeOK
<1>4. NextNew' = NextNew
  BY <1>2 DEF NextNew
<1>5. /\ \A i \in DOMAIN queue : queue[i] < NextNew
      /\ \A i, j \in DOMAIN queue : i < j => queue[i] < queue[j]
  BY DEF Ordered, QueueInOrder
<1>6. QueueInOrder'
  <2>1. serving' < NextNew'
    BY <1>3, <1>4, <1>5
  <2>2. \A i \in DOMAIN queue' : i + 1 \in DOMAIN queue /\ 1 < i + 1
    BY <1>3
  <2>3. \A i \in DOMAIN queue' : serving' < queue'[i] /\ queue'[i] < NextNew'
    BY <1>3, <1>4, <1>5, <2>2
  <2>4. \A i, j \in DOMAIN queue' : i < j => queue'[i] < queue'[j]
    BY <1>3, <1>5, <2>2
  <2>. QED BY <2>1, <2>3, <2>4 DEF QueueInOrder
<1>7. WireBehindQueue'
  <2>. SUFFICES ASSUME NEW k \in DOMAIN wire', wire'[k].what \in Served
                PROVE  /\ wire'[k].req < NextNew'
                       /\ \A i \in DOMAIN queue' : wire'[k].req < queue'[i]
                       /\ wire'[k].req < serving'
    BY <1>2 DEF WireBehindQueue
  <2>1. /\ wire[k].req < NextNew
        /\ \A i \in DOMAIN queue : wire[k].req < queue[i]
    BY <1>2 DEF Ordered, WireBehindQueue
  <2>2. 1 \in DOMAIN queue /\ \A i \in DOMAIN queue' : i + 1 \in DOMAIN queue
    BY <1>3
  <2>. QED BY <1>2, <1>3, <1>4, <2>1, <2>2
<1>8. ResponsesInOrder'
  BY <1>2 DEF Ordered, ResponsesInOrder
<1>. QED BY <1>6, <1>7, <1>8 DEF Ordered

\* A step that leaves the loop, the queue and the parser's place alone is
\* quiet if it writes no answer.
LEMMA IdleIsQuiet ==
    ASSUME TypeOK, ServedKept, UNCHANGED <<queue, phase, msg, pc, serving>>
    PROVE  Quiet
<1>1. NextNew \in Int /\ NextNew' = NextNew
  BY OrderNumbers DEF NextNew
<1>. QED BY <1>1 DEF Quiet

\* The parser's callbacks queue a request or are quiet.
LEMMA ParserOrderStep ==
    ASSUME BaseInv, TypeOK', Ordered, ParserNext
    PROVE  Ordered'
<1>. USE DEF connVars, parserVars, loopVars
<1>0. TypeOK /\ ActorsHaveMessages /\ msg \in Int
  BY OrderNumbers DEF BaseInv
<1>1. CASE data_received
  <2>1. ServedKept /\ UNCHANGED <<queue, phase, msg, pc, serving>>
    BY <1>1 DEF data_received, ServedKept
  <2>. QED BY <1>0, <2>1, IdleIsQuiet, QuietStep
<1>2. CASE on_url
  <2>1. ServedKept /\ UNCHANGED <<queue, pc, serving>>
    BY <1>2 DEF on_url, ServedKept
  <2>2. NextNew' = NextNew
    BY <1>0, <1>2 DEF on_url, NextNew
  <2>3. Quiet
    BY <1>0, <2>1, <2>2, OrderNumbers DEF Quiet
  <2>. QED BY <1>0, <2>3, QuietStep
<1>3. CASE reject_oversized
  <2>1. ServedKept
    BY <1>0, <1>3, RefusalKeeps DEF reject_oversized
  <2>2. UNCHANGED <<queue, phase, msg, pc, serving>>
    BY <1>3 DEF reject_oversized
  <2>. QED BY <1>0, <2>1, <2>2, IdleIsQuiet, QuietStep
<1>4. CASE on_headers_complete
  <2>0. UNCHANGED <<msg, serving>> /\ phase = "headers"
    BY <1>4 DEF on_headers_complete
  <2>1. ASSUME phase' # "headers", ServedKept, UNCHANGED <<queue, pc>>
        PROVE  Ordered'
    <3>1. NextNew' >= NextNew
      BY <1>0, <2>0, <2>1 DEF NextNew
    <3>2. Quiet
      BY <2>0, <2>1, <3>1 DEF Quiet
    <3>. QED BY <1>0, <3>2, QuietStep
  <2>2. CASE HeadersIgnored
    <3>1. phase' # "headers" /\ ServedKept /\ UNCHANGED <<queue, pc>>
      BY <2>2 DEF HeadersIgnored, ServedKept
    <3>. QED BY <2>1, <3>1
  <2>3. CASE HeadersUpgrade
    <3>1. phase' # "headers" /\ UNCHANGED <<queue, pc>>
      BY <2>3 DEF HeadersUpgrade
    <3>2. ServedKept
      <4>1. UpgradeAccepted => Write("switch", msg)
        BY DEF UpgradeAccepted
      <4>2. UpgradeRefused \/ UpgradeUnknown => EmitAndClose("refusal", msg)
        BY DEF UpgradeRefused, UpgradeUnknown
      <4>3. UpgradeAccepted \/ UpgradeRefused \/ UpgradeUnknown
        BY <2>3 DEF HeadersUpgrade
      <4>. QED BY <1>0, <4>1, <4>2, <4>3, UnservedWrite, RefusalKeeps
    <3>. QED BY <2>1, <3>1, <3>2
  <2>4. CASE HeadersTooLarge
    <3>1. phase' # "headers" /\ UNCHANGED <<queue, pc>>
      BY <2>4 DEF HeadersTooLarge
    <3>2. UNCHANGED wire \/ EmitAndClose("refusal", msg)
      BY <2>4 DEF HeadersTooLarge
    <3>3. ServedKept
      BY <1>0, <3>2, RefusalKeeps DEF ServedKept
    <3>. QED BY <2>1, <3>1, <3>3
  <2>5. ASSUME NEW expect \in Expects, Enqueue(expect) PROVE Ordered'
    <3>1. Write("interim", msg) \/ UNCHANGED wire
      BY <2>5 DEF Enqueue
    <3>2. ServedKept
      BY <1>0, <3>1, UnservedWrite
    <3>3. /\ queue' = Append(queue, msg) /\ phase' = "body"
          /\ pc' = (IF pc = "none" THEN "head" ELSE pc)
      BY <2>5 DEF Enqueue
    <3>4. NextNew = msg /\ NextNew' = msg + 1
      BY <2>0, <3>3 DEF NextNew
    <3>5. Queues
      BY <2>0, <3>2, <3>3, <3>4 DEF Queues, Before, During
    <3>. QED BY <1>0, <3>5, QueuesStep
  <2>. QED BY <1>4, <2>2, <2>3, <2>4, <2>5 DEF on_headers_complete
<1>5. CASE on_body
  <2>1. UNCHANGED wire \/ EmitAndClose("refusal", msg)
    BY <1>5 DEF on_body
  <2>2. ServedKept
    BY <1>0, <2>1, RefusalKeeps DEF ServedKept
  <2>3. UNCHANGED <<queue, phase, msg, pc, serving>>
    BY <1>5 DEF on_body
  <2>. QED BY <1>0, <2>2, <2>3, IdleIsQuiet, QuietStep
<1>6. CASE on_message_complete
  <2>1. ServedKept /\ UNCHANGED <<queue, pc, serving>>
    BY <1>6 DEF on_message_complete, ServedKept
  <2>2. NextNew' = NextNew
    BY <1>6 DEF on_message_complete, NextNew
  <2>3. Quiet
    BY <1>0, <2>1, <2>2, OrderNumbers DEF Quiet
  <2>. QED BY <1>0, <2>3, QuietStep
<1>7. CASE ParserError
  <2>1. ServedKept
    BY <1>0, <1>7, RefusalKeeps DEF ParserError
  <2>2. UNCHANGED <<queue, msg, pc, serving>> /\ phase' = "failed"
    BY <1>7 DEF ParserError
  <2>3. NextNew' >= NextNew
    BY <1>0, <2>2 DEF NextNew
  <2>4. Quiet
    BY <2>1, <2>2, <2>3 DEF Quiet
  <2>. QED BY <1>0, <2>4, QuietStep
<1>8. CASE SegmentEnd
  <2>1. UNCHANGED wire \/ EmitAndClose("refusal", Refused)
    BY <1>8 DEF SegmentEnd
  <2>2. ServedKept
    BY <1>0, <2>1, RefusalKeeps DEF ServedKept
  <2>3. UNCHANGED <<queue, phase, msg, pc, serving>>
    BY <1>8 DEF SegmentEnd
  <2>. QED BY <1>0, <2>2, <2>3, IdleIsQuiet, QuietStep
<1>. QED BY <1>1, <1>2, <1>3, <1>4, <1>5, <1>6, <1>7, <1>8 DEF ParserNext

\* The steps of the loop take a request, answer one, or are quiet.
LEMMA LoopOrderStep ==
    ASSUME BaseInv, TypeOK', Ordered, LoopNext
    PROVE  Ordered'
<1>. USE DEF connVars, parserVars, loopVars
<1>0. TypeOK
  BY DEF BaseInv
<1>1. CASE ServeNext
  BY <1>0, <1>1, ServeNextStep
<1>q. ASSUME UNCHANGED <<wire, queue, phase, msg>>,
             serving' = serving \/ serving' = 0,
             pc' \in Before => pc \in Before /\ serving' = serving,
             pc' \notin During
      PROVE  Ordered'
  <2>1. NextNew \in Int /\ NextNew' = NextNew
    BY <1>0, <1>q, OrderNumbers DEF NextNew
  <2>2. Quiet
    BY <1>q, <2>1 DEF Quiet, ServedKept
  <2>. QED BY <1>0, <2>2, QuietStep
<1>2. CASE ServeIdle
  <2>1. pc' = "none" /\ serving' = 0 /\ UNCHANGED <<wire, queue, phase, msg>>
    BY <1>2 DEF ServeIdle, LoopReturns
  <2>. QED BY <1>q, <2>1 DEF Before, During
<1>3. CASE ReadBody
  <2>1. /\ pc = "body" /\ pc' \in {"body", "wait"}
        /\ UNCHANGED <<wire, queue, phase, msg, serving>>
    BY <1>3 DEF ReadBody
  <2>. QED BY <1>q, <2>1 DEF Before, During
<1>4. CASE HandlerReturned
  <2>1. /\ pc = "wait" /\ pc' \in {"emit", "drain"}
        /\ UNCHANGED <<wire, queue, phase, msg, serving>>
    BY <1>4 DEF HandlerReturned
  <2>. QED BY <1>q, <2>1 DEF Before, During
<1>5. CASE DrainDone
  <2>1. /\ pc = "drain" /\ pc' = "emit"
        /\ UNCHANGED <<wire, queue, phase, msg, serving>>
    BY <1>5 DEF DrainDone
  <2>. QED BY <1>q, <2>1 DEF Before, During
<1>a. ASSUME NEW w, Write(w, serving),
             \/ pc \in Before /\ w \in {"resp", "head"}
             \/ pc \in During /\ w = "end",
             UNCHANGED <<queue, phase, msg>>,
             serving' = serving \/ serving' = 0,
             pc' \notin Before,
             pc' \in During => w = "head" /\ serving' = serving
      PROVE  Ordered'
  <2>1. NextNew' = NextNew
    BY <1>a DEF NextNew
  <2>2. Answers(w)
    BY <1>a, <2>1 DEF Answers
  <2>. QED BY <1>0, <2>2, AnswerStep
<1>6. CASE HandlerTimeout
  <2>1. /\ pc = "wait" /\ pc' = "none" /\ serving' = 0
        /\ UNCHANGED <<queue, phase, msg>>
        /\ Write("resp", serving) \/ UNCHANGED wire
    BY <1>6 DEF HandlerTimeout, EmitAndClose, LoopReturns
  <2>2. CASE Write("resp", serving)
    BY <1>a, <2>1, <2>2 DEF Before, During
  <2>3. CASE UNCHANGED wire
    BY <1>q, <2>1, <2>3 DEF Before, During
  <2>. QED BY <2>1, <2>2, <2>3
<1>7. CASE Emit
  <2>0. UNCHANGED <<queue, phase, msg>>
    BY <1>7 DEF Emit
  <2>1. CASE EmitDropped \/ EmitFails
    <3>1. pc' = "none" /\ serving' = 0 /\ UNCHANGED wire
      BY <2>1 DEF EmitDropped, EmitFails, LoopReturns
    <3>. QED BY <1>q, <2>0, <3>1 DEF Before, During
  <2>2. CASE EmitPlain
    <3>1. /\ pc = "emit" /\ Write("resp", serving)
          /\ pc' \in {"boundary", "none"} /\ serving' \in {serving, 0}
      BY <2>2 DEF EmitPlain, LoopReturns
    <3>. QED BY <1>a, <2>0, <3>1 DEF Before, During
  <2>3. CASE StreamStart
    <3>1. /\ pc = "emit" /\ Write("head", serving) /\ serving' = serving
          /\ pc' \in {"streamed", "sse"}
      BY <2>3, KindAssumption DEF StreamStart
    <3>. QED BY <1>a, <2>0, <3>1 DEF Before, During
  <2>4. CASE StreamEnd
    <3>1. /\ pc \in {"streamed", "sse"}
          /\ pc' \in {"boundary", "none"} /\ serving' \in {serving, 0}
          /\ Write("end", serving) \/ UNCHANGED wire
      BY <2>4 DEF StreamEnd, LoopReturns
    <3>2. CASE Write("end", serving)
      BY <1>a, <2>0, <3>1, <3>2 DEF Before, During
    <3>3. CASE UNCHANGED wire
      BY <1>q, <2>0, <3>1, <3>3 DEF Before, During
    <3>. QED BY <3>1, <3>2, <3>3
  <2>. QED BY <1>7, <2>1, <2>2, <2>3, <2>4 DEF Emit
<1>8. CASE Boundary
  <2>1. /\ pc' \in {"none", "head"} /\ serving' = 0
        /\ UNCHANGED <<wire, queue, phase, msg>>
    BY <1>8 DEF Boundary, LoopReturns
  <2>. QED BY <1>q, <2>1 DEF Before, During
<1>9. CASE LoopUnwinds
  <2>1. pc' = "none" /\ serving' = 0 /\ UNCHANGED <<wire, queue, phase, msg>>
    BY <1>9 DEF LoopUnwinds
  <2>. QED BY <1>q, <2>1 DEF Before, During
<1>. QED BY <1>1, <1>2, <1>3, <1>4, <1>5, <1>6, <1>7, <1>8, <1>9 DEF LoopNext

\* Everything else is quiet.
LEMMA OtherOrderStep ==
    ASSUME BaseInv, TypeOK', Ordered, OtherNext
    PROVE  Ordered'
<1>. USE DEF connVars, parserVars, loopVars
<1>0. TypeOK
  BY DEF BaseInv
<1>1. UNCHANGED <<phase, msg, pc, serving>> /\ (queue' = queue \/ queue' = <<>>)
  <2>1. ASSUME NEW m \in Msgs,
               HandlerReads(m) \/ HandlerEnds(m) \/ DetachedEnds(m)
                 \/ emit_refusal(m)
        PROVE  UNCHANGED <<phase, msg, pc, serving, queue>>
    BY <2>1 DEF HandlerReads, HandlerEnds, DetachedEnds, emit_refusal
  <2>2. CASE request_timeout \/ keep_alive_timeout
    BY <2>2 DEF request_timeout, keep_alive_timeout
  <2>3. CASE pause_writing \/ resume_writing
    BY <2>3 DEF pause_writing, resume_writing
  <2>4. CASE PeerCloses \/ begin_drain
    BY <2>4 DEF PeerCloses, begin_drain
  <2>5. CASE connection_lost
    BY <2>5 DEF connection_lost, WebSocketLost, HttpLost
  <2>. QED BY <2>1, <2>2, <2>3, <2>4, <2>5 DEF OtherNext
<1>2. UNCHANGED wire \/ \E m : EmitAndClose("refusal", m)
  <2>1. ASSUME NEW m \in Msgs, HandlerReads(m) \/ HandlerEnds(m)
                                 \/ DetachedEnds(m)
        PROVE  UNCHANGED wire
    BY <2>1 DEF HandlerReads, HandlerEnds, DetachedEnds
  <2>2. ASSUME NEW m \in Msgs, emit_refusal(m)
        PROVE  EmitAndClose("refusal", m)
    BY <2>2 DEF emit_refusal
  <2>3. request_timeout => EmitAndClose("refusal", Refused)
    BY DEF request_timeout
  <2>4. CASE keep_alive_timeout \/ PeerCloses \/ begin_drain
    BY <2>4 DEF keep_alive_timeout, PeerCloses, begin_drain
  <2>5. CASE pause_writing \/ resume_writing \/ connection_lost
    BY <2>5 DEF pause_writing, resume_writing, connection_lost
  <2>. QED BY <2>1, <2>2, <2>3, <2>4, <2>5 DEF OtherNext
<1>3. ServedKept
  BY <1>0, <1>2, RefusalKeeps DEF ServedKept
<1>4. NextNew \in Int /\ NextNew' = NextNew
  BY <1>0, <1>1, OrderNumbers DEF NextNew
<1>5. Quiet
  BY <1>1, <1>3, <1>4 DEF Quiet
<1>. QED BY <1>0, <1>5, QuietStep

\* OrderInv is inductive.
LEMMA OrderStep == OrderInv /\ [Next]_vars => OrderInv'
<1>. SUFFICES ASSUME OrderInv, [Next]_vars PROVE OrderInv'
  OBVIOUS
<1>1. BaseInv /\ Ordered
  BY DEF OrderInv, BaseInv, Ordered
<1>2. BaseInv' /\ TypeOK'
  BY <1>1, BaseStep DEF BaseInv
<1>3. Ordered'
  <2>1. CASE ParserNext
    BY <1>1, <1>2, <2>1, ParserOrderStep
  <2>2. CASE LoopNext
    BY <1>1, <1>2, <2>2, LoopOrderStep
  <2>3. CASE OtherNext
    BY <1>1, <1>2, <2>3, OtherOrderStep
  <2>4. CASE UNCHANGED vars
    <3>1. ServedKept /\ UNCHANGED <<queue, phase, msg, pc, serving>>
      BY <2>4 DEF vars, ServedKept
    <3>. QED BY <1>1, <1>2, <3>1, IdleIsQuiet, QuietStep DEF BaseInv
  <2>. QED BY <2>1, <2>2, <2>3, <2>4 DEF Next, OtherNext
<1>. QED BY <1>2, <1>3 DEF OrderInv, BaseInv, Ordered

\* The order invariant holds of an admitted connection.
LEMMA InitOrder == Init => OrderInv
<1>. SUFFICES ASSUME Init PROVE OrderInv
  OBVIOUS
<1>1. BaseInv
  BY InitType DEF BaseInv
<1>2. wire = <<>> /\ queue = <<>> /\ serving = 0 /\ msg = 0 /\ phase = "idle"
  BY DEF Init
<1>3. QueueInOrder
  BY <1>2 DEF QueueInOrder, NextNew
<1>4. WireBehindQueue /\ ResponsesInOrder
  BY <1>2 DEF WireBehindQueue, ResponsesInOrder
<1>. QED BY <1>1, <1>3, <1>4 DEF OrderInv, BaseInv

\* The answers of the server loop leave in the order of the requests, and no
\* answer cuts into a streamed one, whatever the handlers, the timers, the
\* peer and a shutdown do.
THEOREM AnswersInOrder == Spec => []ResponsesInOrder
<1>1. OrderInv => ResponsesInOrder
  BY DEF OrderInv
<1>. QED BY <1>1, InitOrder, OrderStep, PTL DEF Spec

Late == {"emit", "streamed", "sse", "boundary"}

(* One message's body and handler, while and after it is served.            *)
Kept(m) ==
    /\ (Open /\ handler[m] = "gone" /\ (serving # m \/ pc \in Late)) =>
           src[m].eof /\ src[m].chunks = 0
    /\ (handler[m] = "running" /\ ~kind[m].stream) => src[m].eof \/ src[m].overflow
    /\ handler[m] # "aborted"
    /\ handler[m] # "none" => m < NextNew
    /\ handler[m] \in {"detached", "draining"} => ~Open
    /\ (Open /\ current = m) => ~src[m].eof

(* A loop that is cancelled, or told to close, has lost its connection.     *)
BodyInv ==
    /\ closing \/ cancelled => ~Open
    /\ pc \in Late \cup {"drain"} => handler[serving] = "gone"
    /\ \A m \in Msgs : Kept(m)

\* What each operation of a body source does to its end, its overflow and its
\* chunks.
LEMMA SourceFacts ==
    ASSUME NEW s \in Source
    PROVE  /\ ~NewSource.eof
           /\ Feed(s).eof = s.eof /\ (s.overflow => Feed(s).overflow)
           /\ FeedEof(s).eof /\ FeedEof(s).chunks = s.chunks /\ FeedEof(s).overflow = s.overflow
           /\ ReadOne(s).eof = s.eof /\ ReadOne(s).overflow = s.overflow
           /\ ReadAll(s).eof = s.eof /\ ReadAll(s).overflow = s.overflow /\ ReadAll(s).chunks = 0
           /\ Drain(s).eof = s.eof /\ Drain(s).overflow = s.overflow /\ Drain(s).chunks = 0
<1>1. ~NewSource.eof
  BY DEF NewSource
<1>2. Feed(s).eof = s.eof /\ (s.overflow => Feed(s).overflow)
  <2>1. [s EXCEPT !.size = 0].eof = s.eof /\ [s EXCEPT !.size = 0].overflow = s.overflow
    BY DEF Source
  <2>2. /\ [s EXCEPT !.size = @ + 1, !.overflow = TRUE].eof = s.eof
        /\ [s EXCEPT !.size = @ + 1, !.overflow = TRUE].overflow
    BY DEF Source
  <2>3. PICK p : p = (s.paused \/ s.chunks + 1 >= HighWater)
    OBVIOUS
  <2>4. /\ [s EXCEPT !.size = @ + 1, !.chunks = @ + 1, !.paused = p].eof = s.eof
        /\ [s EXCEPT !.size = @ + 1, !.chunks = @ + 1, !.paused = p].overflow = s.overflow
    BY DEF Source
  <2>. QED BY <2>1, <2>2, <2>3, <2>4 DEF Feed
<1>3. FeedEof(s).eof /\ FeedEof(s).chunks = s.chunks /\ FeedEof(s).overflow = s.overflow
  BY DEF FeedEof, Source
<1>4. ReadOne(s).eof = s.eof /\ ReadOne(s).overflow = s.overflow
  BY DEF ReadOne, Source
<1>5. ReadAll(s).eof = s.eof /\ ReadAll(s).overflow = s.overflow /\ ReadAll(s).chunks = 0
  BY DEF ReadAll, Source
<1>6. Drain(s).eof = s.eof /\ Drain(s).overflow = s.overflow /\ Drain(s).chunks = 0
  BY DEF Drain, Source
<1>. QED BY <1>1, <1>2, <1>3, <1>4, <1>5, <1>6

(* The transport does not reopen, and messages are numbered upwards.        *)
Onwards ==
    /\ Open' => Open
    /\ NextNew \in Int /\ NextNew' \in Int /\ NextNew <= NextNew'

(* What most steps leave alone.                                             *)
BodiesAlone ==
    /\ Onwards
    /\ handler' = handler /\ src' = src
    /\ \A m \in Msgs : handler[m] # "none" => kind'[m] = kind[m]
    /\ closing' \/ cancelled' => closing \/ cancelled \/ ~Open'
    /\ current' \in {0, current}
    /\ \/ UNCHANGED <<pc, serving>>
       \/ pc = "none" /\ pc' = "head" /\ serving' = serving
       \/ pc \in Late /\ pc' \in Late /\ serving' = serving
       \/ serving' = 0 /\ pc' \in {"none", "head"} /\ (serving = 0 \/ pc \in Late \/ ~Open)

\* A step that leaves the bodies and the handlers alone keeps the invariant.
LEMMA AloneKeeps ==
    ASSUME TypeOK, BodyInv, BodiesAlone PROVE BodyInv'
<1>1. (closing' \/ cancelled' => ~Open') /\ (pc' \in Late \cup {"drain"} => handler'[serving'] = "gone")
  BY DEF BodiesAlone, Onwards, BodyInv, Late
<1>2. ASSUME NEW m \in Msgs PROVE Kept(m)'
  <2>0. /\ Kept(m) /\ (Open' => Open) /\ NextNew \in Int /\ NextNew' \in Int /\ NextNew <= NextNew'
        /\ m \in Int /\ m # 0 /\ handler'[m] = handler[m] /\ src'[m] = src[m]
    BY MsgRanges DEF BodiesAlone, Onwards, BodyInv, Msgs
  <2>1. (Open' /\ handler'[m] = "gone" /\ (serving' # m \/ pc' \in Late)) =>
            src'[m].eof /\ src'[m].chunks = 0
    <3>1. serving' = m => serving = m
      BY <2>0 DEF BodiesAlone
    <3>2. pc' \in Late /\ serving = m => pc \in Late \/ serving' # m
      BY <2>0 DEF BodiesAlone, Late
    <3>3. serving = m /\ serving' # m => pc \in Late \/ ~Open
      BY <2>0 DEF BodiesAlone
    <3>. QED BY <2>0, <3>1, <3>2, <3>3 DEF Kept
  <2>2. (handler'[m] = "running" /\ ~kind'[m].stream) => src'[m].eof \/ src'[m].overflow
    BY <2>0 DEF BodiesAlone, Kept
  <2>3. /\ handler'[m] # "aborted" /\ (handler'[m] # "none" => m < NextNew')
        /\ handler'[m] \in {"detached", "draining"} => ~Open'
        /\ (Open' /\ current' = m) => ~src'[m].eof
    BY <2>0 DEF BodiesAlone, Kept
  <2>. QED BY <2>1, <2>2, <2>3 DEF Kept
<1>. QED BY <1>1, <1>2 DEF BodyInv

\* The transport does not reopen, and no step takes a message number back.
LEMMA GoesOnwards ==
    ASSUME OrderInv, TypeOK', [Next]_vars PROVE Onwards
<1>. USE DEF connVars, parserVars
<1>1. Open' => Open
  <2>1. ASSUME NEW w, NEW m, EmitAndClose(w, m) \/ Shut PROVE Open' => Open
    BY <2>1 DEF EmitAndClose, Shut, Open
  <2>2. CASE ParserNext
    <3>1. CASE on_headers_complete
      BY <2>1, <3>1 DEF on_headers_complete, HeadersIgnored, HeadersUpgrade, UpgradeAccepted, UpgradeRefused,
                        UpgradeUnknown, HeadersTooLarge, Enqueue, Open
    <3>2. CASE on_body
      BY <2>1, <3>2 DEF on_body, Open
    <3>. QED BY <2>1, <2>2, <3>1, <3>2 DEF ParserNext, data_received, on_url, reject_oversized,
                on_message_complete, ParserError, SegmentEnd, Open
  <2>3. CASE LoopNext
    <3>1. CASE Emit
      BY <2>1, <3>1 DEF Emit, EmitDropped, EmitPlain, StreamStart, StreamEnd, EmitFails, Open
    <3>2. CASE HandlerTimeout \/ Boundary
      BY <2>1, <3>2 DEF HandlerTimeout, Boundary, Open
    <3>. QED BY <2>3, <3>1, <3>2 DEF LoopNext, ServeNext, ServeIdle, ReadBody, HandlerReturned, DrainDone,
                LoopUnwinds, Open
  <2>4. CASE OtherNext
    <3>1. CASE \E m \in Msgs : HandlerReads(m) \/ HandlerEnds(m) \/ DetachedEnds(m) \/ emit_refusal(m)
      BY <2>1, <3>1 DEF HandlerReads, HandlerEnds, DetachedEnds, emit_refusal, Open
    <3>2. CASE request_timeout \/ keep_alive_timeout \/ PeerCloses \/ begin_drain
      BY <2>1, <3>2 DEF request_timeout, keep_alive_timeout, PeerCloses, begin_drain, Open
    <3>3. CASE pause_writing \/ resume_writing \/ connection_lost
      BY <3>3 DEF pause_writing, resume_writing, connection_lost, Open
    <3>. QED BY <2>4, <3>1, <3>2, <3>3 DEF OtherNext
  <2>5. CASE UNCHANGED vars
    BY <2>5 DEF vars, Open
  <2>. QED BY <2>2, <2>3, <2>4, <2>5 DEF Next, OtherNext
<1>2. NextNew \in Int /\ NextNew' \in Int /\ msg \in Int /\ msg' \in Int
  <2>1. msg \in Int /\ msg' \in Int
    BY BoundAssumption DEF OrderInv, TypeOK, ParserType, Msg0
  <2>. QED BY <2>1 DEF NextNew
<1>3. \/ UNCHANGED <<phase, msg>>
      \/ phase # "headers" /\ msg' = msg + 1
      \/ msg' = msg /\ phase' # "headers"
  <2>1. CASE ParserNext
    BY <2>1 DEF ParserNext, data_received, on_url, reject_oversized, on_headers_complete, HeadersIgnored,
          HeadersUpgrade, HeadersTooLarge, Enqueue, on_body, on_message_complete, ParserError, SegmentEnd
  <2>2. CASE LoopNext
    BY <2>2 DEF LoopNext, ServeNext, ServeIdle, ReadBody, HandlerReturned, DrainDone, HandlerTimeout, Emit,
          Boundary, LoopUnwinds
  <2>3. CASE OtherNext
    BY <2>3 DEF OtherNext, HandlerReads, HandlerEnds, DetachedEnds, emit_refusal, request_timeout,
          keep_alive_timeout, pause_writing, resume_writing, PeerCloses, begin_drain, connection_lost
  <2>4. CASE UNCHANGED vars
    BY <2>4 DEF vars
  <2>. QED BY <2>1, <2>2, <2>3, <2>4 DEF Next, OtherNext
<1>4. NextNew <= NextNew'
  <2>1. /\ NextNew = IF phase = "headers" THEN msg ELSE msg + 1
        /\ NextNew' = IF phase' = "headers" THEN msg' ELSE msg' + 1
    BY DEF NextNew
  <2>2. CASE UNCHANGED <<phase, msg>>
    BY <1>2, <2>1, <2>2
  <2>3. CASE phase # "headers" /\ msg' = msg + 1
    BY <1>2, <2>1, <2>3
  <2>4. CASE msg' = msg /\ phase' # "headers"
    BY <1>2, <2>1, <2>4
  <2>. QED BY <1>3, <2>2, <2>3, <2>4
<1>. QED BY <1>1, <1>2, <1>4 DEF Onwards

\* The parser keeps the invariant: it feeds only the message it is reading.
LEMMA ParserBodies ==
    ASSUME OrderInv, BodyInv, TypeOK', ParserNext PROVE BodyInv'
<1>. USE DEF stopVars, parserVars, bodyVars, loopVars
<1>0. TypeOK /\ Onwards
  BY GoesOnwards DEF OrderInv, Next
<1>1. CASE data_received \/ on_url \/ reject_oversized \/ ParserError \/ SegmentEnd
  <2>1. BodiesAlone
    BY <1>0, <1>1 DEF data_received, on_url, reject_oversized, ParserError, SegmentEnd, BodiesAlone
  <2>. QED BY <1>0, <2>1, AloneKeeps
<1>2. CASE on_headers_complete
  <2>1. /\ msg \in Msgs /\ phase = "headers" /\ NextNew = msg
        /\ UNCHANGED <<stopVars, msg, cancelled, serving, handler>>
        /\ \A m \in Msgs : m # msg => kind'[m] = kind[m]
    BY <1>0, <1>2, MsgRanges DEF on_headers_complete, OrderInv, ActorsHaveMessages, NextNew, TypeOK, ParserType
  <2>2. handler[msg] = "none" /\ serving # msg /\ \A m \in Msgs : handler[m] # "none" => m # msg
    <3>1. \A m \in Msgs : m \in Int /\ (handler[m] # "none" => m < msg)
      BY <2>1, BoundAssumption DEF BodyInv, Kept, Msgs
    <3>2. serving < msg /\ serving \in Int
      BY <1>0, <2>1, OrderNumbers DEF OrderInv, QueueInOrder
    <3>. QED BY <2>1, <3>1, <3>2
  <2>3. CASE HeadersIgnored \/ HeadersUpgrade
    <3>1. UNCHANGED <<src, current, pc>>
      BY <2>3 DEF HeadersIgnored, HeadersUpgrade
    <3>2. BodiesAlone
      BY <1>0, <2>1, <2>2, <3>1 DEF BodiesAlone
    <3>. QED BY <1>0, <3>2, AloneKeeps
  <2>4. CASE HeadersTooLarge
    <3>1. /\ UNCHANGED pc /\ current' = 0
          /\ src' = IF current = 0 THEN src ELSE [src EXCEPT ![current] = FeedEof(@)]
      BY <2>4 DEF HeadersTooLarge
    <3>2. ASSUME NEW m \in Msgs PROVE Kept(m)'
      <4>1. CASE m # current
        <5>1. src'[m] = src[m] /\ current' # m
          BY <1>0, <3>1, <4>1, MsgRanges DEF TypeOK, BodyType
        <5>. QED BY <1>0, <2>1, <2>2, <3>1, <5>1 DEF BodyInv, Kept, Onwards, Msgs
      <4>2. CASE m = current
        <5>1. src[m] \in Source /\ src'[m] = FeedEof(src[m]) /\ current' # m
          BY <1>0, <3>1, <4>2, MsgRanges DEF TypeOK, BodyType
        <5>2. src'[m].eof /\ src'[m].chunks = src[m].chunks
          BY <5>1, SourceFacts
        <5>3. Kept(m) /\ (Open' => Open /\ ~src[m].eof)
          BY <1>0, <4>2 DEF BodyInv, Kept, Onwards
        <5>. QED BY <1>0, <2>1, <2>2, <3>1, <5>1, <5>2, <5>3 DEF Kept, Onwards, Msgs
      <4>. QED BY <4>1, <4>2
    <3>3. (closing' \/ cancelled' => ~Open') /\ (pc' \in Late \cup {"drain"} => handler'[serving'] = "gone")
      BY <1>0, <2>1, <3>1 DEF BodyInv, Onwards
    <3>. QED BY <3>2, <3>3 DEF BodyInv
  <2>5. ASSUME NEW expect, Enqueue(expect) PROVE BodyInv'
    <3>1. /\ current' = msg /\ pc' = (IF pc = "none" THEN "head" ELSE pc)
          /\ src' = [src EXCEPT ![msg] = NewSource]
      BY <2>5 DEF Enqueue
    <3>2. ASSUME NEW m \in Msgs PROVE Kept(m)'
      <4>1. CASE m # msg
        <5>1. src'[m] = src[m] /\ current' # m
          BY <1>0, <3>1, <4>1, MsgRanges DEF TypeOK, BodyType
        <5>2. pc' \in Late => pc \in Late
          BY <3>1 DEF Late
        <5>. QED BY <1>0, <2>1, <2>2, <3>1, <4>1, <5>1, <5>2 DEF BodyInv, Kept, Onwards, Msgs
      <4>2. CASE m = msg
        <5>1. ~src'[m].eof /\ handler'[m] = "none"
          BY <1>0, <2>1, <2>2, <3>1, <4>2 DEF TypeOK, BodyType, NewSource
        <5>. QED BY <5>1 DEF Kept
      <4>. QED BY <4>1, <4>2
    <3>3. (closing' \/ cancelled' => ~Open') /\ (pc' \in Late \cup {"drain"} => handler'[serving'] = "gone")
      BY <1>0, <2>1, <3>1 DEF BodyInv, Onwards, Late
    <3>. QED BY <3>2, <3>3 DEF BodyInv
  <2>. QED BY <1>2, <2>3, <2>4, <2>5 DEF on_headers_complete
<1>3. CASE on_body
  <2>1. /\ current \in Msgs /\ src[current] \in Source /\ current' \in {0, current}
        /\ \/ src' = [src EXCEPT ![current] = Feed(src[current])] /\ current' = current
           \/ src' = [src EXCEPT ![current] = FeedEof(Feed(src[current]))] /\ current' = 0
        /\ UNCHANGED <<stopVars, phase, msg, kind, headersDone, pc, cancelled, serving, handler>>
    BY <1>0, <1>3, MsgRanges DEF on_body, UpdateSource, TypeOK, BodyType
  <2>2. ASSUME NEW m \in Msgs PROVE Kept(m)'
    <3>1. CASE m # current
      <4>1. src'[m] = src[m] /\ current' # m
        BY <1>0, <2>1, <3>1, MsgRanges DEF TypeOK, BodyType
      <4>. QED BY <1>0, <2>1, <4>1 DEF BodyInv, Kept, Onwards, Msgs
    <3>2. CASE m = current
      <4>1. /\ src'[m].overflow \/ ~src[m].overflow
            /\ src'[m].eof \/ ~src[m].eof
            /\ current' = m => src'[m].eof = src[m].eof
        <5>1. src[m] \in Source /\ Feed(src[m]) \in Source
          BY <2>1, <3>2, SourceOps
        <5>2. /\ Feed(src[m]).eof = src[m].eof /\ (src[m].overflow => Feed(src[m]).overflow)
              /\ FeedEof(Feed(src[m])).eof /\ FeedEof(Feed(src[m])).overflow = Feed(src[m]).overflow
          BY <5>1, SourceFacts
        <5>. QED BY <1>0, <2>1, <3>2, <5>2, MsgRanges DEF TypeOK, BodyType
      <4>2. Kept(m) /\ (Open' => Open /\ ~src[m].eof)
        BY <1>0, <3>2 DEF BodyInv, Kept, Onwards
      <4>. QED BY <1>0, <2>1, <4>1, <4>2 DEF Kept, Onwards, Msgs
    <3>. QED BY <3>1, <3>2
  <2>3. (closing' \/ cancelled' => ~Open') /\ (pc' \in Late \cup {"drain"} => handler'[serving'] = "gone")
    BY <1>0, <2>1 DEF BodyInv, Onwards
  <2>. QED BY <2>2, <2>3 DEF BodyInv
<1>4. CASE on_message_complete
  <2>1. /\ UNCHANGED <<stopVars, pc, cancelled, serving, handler, msg, kind>> /\ current' = 0
        /\ src' = IF current = 0 THEN src ELSE [src EXCEPT ![current] = FeedEof(@)]
    BY <1>4 DEF on_message_complete
  <2>2. ASSUME NEW m \in Msgs PROVE Kept(m)'
    <3>1. CASE m # current
      <4>1. src'[m] = src[m] /\ current' # m
        BY <1>0, <2>1, <3>1, MsgRanges DEF TypeOK, BodyType
      <4>. QED BY <1>0, <2>1, <4>1 DEF BodyInv, Kept, Onwards, Msgs
    <3>2. CASE m = current
      <4>1. src[m] \in Source /\ src'[m] = FeedEof(src[m]) /\ current' # m
        BY <1>0, <2>1, <3>2, MsgRanges DEF TypeOK, BodyType
      <4>2. src'[m].eof /\ src'[m].chunks = src[m].chunks
        BY <4>1, SourceFacts
      <4>3. Kept(m) /\ (Open' => Open /\ ~src[m].eof)
        BY <1>0, <3>2 DEF BodyInv, Kept, Onwards
      <4>. QED BY <1>0, <2>1, <4>1, <4>2, <4>3 DEF Kept, Onwards, Msgs
    <3>. QED BY <3>1, <3>2
  <2>3. (closing' \/ cancelled' => ~Open') /\ (pc' \in Late \cup {"drain"} => handler'[serving'] = "gone")
    BY <1>0, <2>1 DEF BodyInv, Onwards
  <2>. QED BY <2>2, <2>3 DEF BodyInv
<1>. QED BY <1>1, <1>2, <1>3, <1>4 DEF ParserNext

(* One source changes for one that is as far, in a message not in service   *)
(* or whose handler is at work.                                             *)
\* A step of the loop that moves one message's source and handler keeps the
\* invariant, on the terms the loop's actions meet.
LEMMA SourceMoves ==
    ASSUME TypeOK, BodyInv, Onwards, NEW m \in Msgs, NEW s, NEW h,
           src' = [src EXCEPT ![m] = s], handler' = [handler EXCEPT ![m] = h],
           UNCHANGED <<kind, current, closing, cancelled>>,
           serving' = serving \/ (serving' = 0 /\ pc' = "none" /\ (pc \in Late \/ ~Open')),
           pc' \in Late \cup {"drain"} => handler'[serving'] = "gone",
           pc' \in Late => pc \in Late \/ serving' = m,
           h # "aborted" /\ (h # "none" => m < NextNew) /\ (h \in {"detached", "draining"} => ~Open'),
           (Open' /\ h = "gone" /\ (serving' # m \/ pc' \in Late)) => s.eof /\ s.chunks = 0,
           h = "running" => kind[m].stream \/ s.eof \/ s.overflow,
           Open' => s.eof = src[m].eof
    PROVE  BodyInv'
<1>1. (closing' \/ cancelled' => ~Open') /\ (pc' \in Late \cup {"drain"} => handler'[serving'] = "gone")
  BY DEF BodyInv, Onwards
<1>2. ASSUME NEW n \in Msgs PROVE Kept(n)'
  <2>0. n \in Int /\ n # 0
    BY MsgRanges DEF Msgs
  <2>1. CASE n # m
    <3>1. src'[n] = src[n] /\ handler'[n] = handler[n] /\ kind'[n] = kind[n] /\ Kept(n)
      BY <2>1 DEF TypeOK, BodyType, LoopType, BodyInv
    <3>2. (serving' # n \/ pc' \in Late) /\ Open' => serving # n \/ pc \in Late
      BY <2>0, <2>1 DEF Onwards
    <3>. QED BY <2>0, <3>1, <3>2 DEF Kept, Onwards
  <2>2. CASE n = m
    <3>1. src'[n] = s /\ handler'[n] = h /\ Kept(m)
      BY <2>2 DEF TypeOK, BodyType, LoopType, BodyInv
    <3>. QED BY <2>0, <2>2, <3>1 DEF Kept, Onwards
  <2>. QED BY <2>1, <2>2
<1>. QED BY <1>1, <1>2 DEF BodyInv

\* A loop past the head of its queue serves a message that was parsed.
LEMMA ServedIsKnown ==
    ASSUME OrderInv
    PROVE  /\ pc \notin {"none", "head"} => serving \in Msgs /\ src[serving] \in Source /\ serving < NextNew
           /\ pc = "none" \/ pc = "head" => serving = 0
<1>1. TypeOK
  BY DEF OrderInv
<1>. QED BY <1>1, MsgRanges DEF OrderInv, ActorsHaveMessages, QueueInOrder, TypeOK, BodyType, LoopType

\* The server loop keeps the invariant: it leaves a message only with its body
\* drained, or without the connection.
LEMMA LoopBodies ==
    ASSUME OrderInv, BodyInv, TypeOK', LoopNext PROVE BodyInv'
<1>. USE DEF connVars, stopVars, bodyVars
<1>0. TypeOK /\ Onwards
  BY GoesOnwards DEF OrderInv, Next
<1>1. CASE ServeNext
  <2>1. PICK m \in Msgs : /\ m = PopLeft.item /\ m < NextNew
    <3>1. Head(queue) \in Msgs /\ queue[1] = Head(queue) /\ 1 \in DOMAIN queue
      BY <1>0, <1>1 DEF ServeNext, TypeOK
    <3>. QED BY <3>1 DEF PopLeft, OrderInv, QueueInOrder
  <2>2. /\ serving = 0 /\ pc = "head" /\ serving' = m /\ pc' \in {"wait", "body"}
        /\ UNCHANGED <<src, current, closing, cancelled, kind>>
        /\ \/ handler' = handler
           \/ /\ handler' = [handler EXCEPT ![m] = "running"]
              /\ kind[m].stream \/ src[m].eof
    BY <1>1, <2>1, ServedIsKnown DEF ServeNext, AtEof, parserVars
  <2>3. ASSUME NEW n \in Msgs PROVE Kept(n)'
    <3>1. /\ Kept(n) /\ n \in Int /\ m \in Int /\ n # 0
      BY MsgRanges DEF BodyInv, Msgs
    <3>2. CASE handler'[n] = handler[n]
      BY <1>0, <2>2, <3>1, <3>2 DEF Kept, Onwards, Late
    <3>3. CASE handler'[n] # handler[n]
      <4>1. n = m /\ handler'[n] = "running" /\ (kind[m].stream \/ src[m].eof)
        BY <1>0, <2>2, <3>3 DEF TypeOK, LoopType
      <4>. QED BY <1>0, <2>1, <2>2, <3>1, <4>1 DEF Kept, Onwards, Late
    <3>. QED BY <3>2, <3>3
  <2>4. (closing' \/ cancelled' => ~Open') /\ pc' \notin Late \cup {"drain"}
    BY <1>0, <2>2 DEF BodyInv, Onwards, Late
  <2>. QED BY <2>3, <2>4 DEF BodyInv
<1>2. CASE ServeIdle
  <2>1. BodiesAlone
    BY <1>0, <1>2, ServedIsKnown DEF ServeIdle, LoopReturns, BodiesAlone, parserVars
  <2>. QED BY <1>0, <2>1, AloneKeeps
<1>3. CASE ReadBody
  <2>1. serving \in Msgs /\ src[serving] \in Source /\ serving < NextNew /\ pc = "body"
    BY <1>3, ServedIsKnown DEF ReadBody
  <2>2. PICK s : s = ReadAll(src[serving]) /\ s.eof = src[serving].eof /\ s.overflow = src[serving].overflow
    BY <2>1, SourceFacts
  <2>3. src' = [src EXCEPT ![serving] = s] /\ UNCHANGED <<kind, current, closing, cancelled, serving>>
    BY <1>3, <2>2 DEF ReadBody, UpdateSource, parserVars
  <2>4. \/ /\ pc' = "wait" /\ handler' = [handler EXCEPT ![serving] = "running"]
           /\ s.eof \/ s.overflow
        \/ pc' = pc /\ handler' = handler
    BY <1>3, <2>2 DEF ReadBody
  <2>5. CASE pc' = "wait" /\ handler' = [handler EXCEPT ![serving] = "running"] /\ (s.eof \/ s.overflow)
    <3>1. PICK h : h = "running"
      OBVIOUS
    <3>. QED BY <1>0, <2>1, <2>2, <2>3, <2>5, <3>1, SourceMoves DEF Late
  <2>6. CASE pc' = pc /\ handler' = handler
    <3>1. PICK h : h = handler[serving] /\ handler' = [handler EXCEPT ![serving] = h]
      BY <1>0, <2>1, <2>6 DEF TypeOK, LoopType
    <3>2. Kept(serving)
      BY <2>1 DEF BodyInv
    <3>. QED BY <1>0, <2>1, <2>2, <2>3, <2>6, <3>1, <3>2, SourceMoves DEF Late, Kept, Onwards
  <2>. QED BY <2>4, <2>5, <2>6
<1>4. CASE HandlerReturned
  <2>1. serving \in Msgs /\ src[serving] \in Source /\ serving < NextNew /\ pc = "wait"
    BY <1>4, ServedIsKnown DEF HandlerReturned
  <2>2. PICK h : h = "gone" /\ handler' = [handler EXCEPT ![serving] = h]
    BY <1>4 DEF HandlerReturned
  <2>3. UNCHANGED <<kind, current, closing, cancelled, serving>> /\ handler'[serving'] = "gone"
    BY <1>0, <1>4, <2>1, <2>2 DEF HandlerReturned, parserVars, TypeOK, LoopType
  <2>4. CASE closing \/ AtEof(src[serving])
    <3>1. PICK s : s = src[serving] /\ src' = [src EXCEPT ![serving] = s]
      BY <1>0, <1>4, <2>1, <2>4 DEF HandlerReturned, TypeOK, BodyType
    <3>2. Open' => s.eof /\ s.chunks = 0
      BY <1>0, <2>4, <3>1 DEF BodyInv, Onwards, AtEof
    <3>. QED BY <1>0, <2>1, <2>2, <2>3, <3>1, <3>2, SourceMoves
  <2>5. CASE ~(closing \/ AtEof(src[serving]))
    <3>1. PICK s : s = Drain(src[serving]) /\ src' = [src EXCEPT ![serving] = s]
      BY <1>4, <2>5 DEF HandlerReturned, UpdateSource
    <3>2. s.eof = src[serving].eof /\ s.chunks = 0
      BY <2>1, <3>1, SourceFacts
    <3>3. (pc' = "emit" /\ s.eof) \/ pc' = "drain"
      BY <1>4, <2>5, <3>2 DEF HandlerReturned
    <3>4. Open' /\ (serving' # serving \/ pc' \in Late) => s.eof /\ s.chunks = 0
      BY <2>3, <3>2, <3>3 DEF Late
    <3>. QED BY <1>0, <2>1, <2>2, <2>3, <3>1, <3>2, <3>4, SourceMoves
  <2>. QED BY <2>4, <2>5
<1>5. CASE DrainDone
  <2>1. serving \in Msgs /\ src[serving] \in Source /\ serving < NextNew /\ pc = "drain" /\ src[serving].eof
    BY <1>5, ServedIsKnown DEF DrainDone
  <2>2. handler[serving] = "gone"
    BY <2>1 DEF BodyInv
  <2>3. PICK h : h = "gone" /\ handler' = [handler EXCEPT ![serving] = h] /\ handler'[serving] = "gone"
    BY <1>0, <1>5, <2>1, <2>2 DEF DrainDone, TypeOK, LoopType
  <2>4. PICK s : s = [src[serving] EXCEPT !.chunks = 0] /\ src' = [src EXCEPT ![serving] = s]
    BY <1>5 DEF DrainDone
  <2>5. s.eof /\ s.chunks = 0 /\ s.eof = src[serving].eof
    BY <2>1, <2>4 DEF Source
  <2>6. UNCHANGED <<kind, current, closing, cancelled, serving>>
    BY <1>5 DEF DrainDone, parserVars
  <2>. QED BY <1>0, <2>1, <2>3, <2>4, <2>5, <2>6, SourceMoves
<1>6. CASE HandlerTimeout
  <2>1. serving \in Msgs /\ src[serving] \in Source /\ serving < NextNew
    BY <1>6, ServedIsKnown DEF HandlerTimeout
  <2>2. PICK h : h = "detached" /\ handler' = [handler EXCEPT ![serving] = h]
    BY <1>6 DEF HandlerTimeout
  <2>3. PICK s : s = src[serving] /\ src' = [src EXCEPT ![serving] = s]
    BY <1>0, <1>6, <2>1 DEF HandlerTimeout, TypeOK, BodyType
  <2>4. UNCHANGED <<kind, current, closing, cancelled>> /\ serving' = 0 /\ pc' = "none" /\ ~Open'
    BY <1>6 DEF HandlerTimeout, LoopReturns, parserVars, EmitAndClose, Shut, Open
  <2>. QED BY <1>0, <2>1, <2>2, <2>3, <2>4, SourceMoves DEF Late
<1>7. CASE Emit
  <2>1. UNCHANGED <<handler, src, current, kind, closing>>
    BY <1>7 DEF Emit, EmitDropped, EmitPlain, StreamStart, StreamEnd, EmitFails, parserVars
  <2>2. pc \in Late /\ cancelled' = cancelled
    BY <1>7 DEF Emit, EmitDropped, EmitPlain, StreamStart, StreamEnd, EmitFails, LoopReturns, Late
  <2>3. (pc' \in Late /\ serving' = serving) \/ (serving' = 0 /\ pc' = "none")
    BY <1>7, KindAssumption DEF Emit, EmitDropped, EmitPlain, StreamStart, StreamEnd, EmitFails, LoopReturns, Late
  <2>4. BodiesAlone
    BY <1>0, <2>1, <2>2, <2>3 DEF BodiesAlone
  <2>. QED BY <1>0, <2>4, AloneKeeps
<1>8. CASE Boundary
  <2>1. BodiesAlone
    BY <1>0, <1>8 DEF Boundary, LoopReturns, BodiesAlone, parserVars, Late
  <2>. QED BY <1>0, <2>1, AloneKeeps
<1>9. CASE LoopUnwinds
  <2>1. ~Open
    <3>1. pc = "wait" => handler[serving] # "aborted"
      BY ServedIsKnown DEF BodyInv, Kept
    <3>. QED BY <1>9, <3>1 DEF LoopUnwinds, BodyInv
  <2>2. /\ pc' = "none" /\ serving' = 0 /\ cancelled' = FALSE /\ ~Open'
        /\ UNCHANGED <<src, current, kind, closing>>
    BY <1>0, <1>9, <2>1 DEF LoopUnwinds, parserVars, Onwards
  <2>3. ASSUME NEW m \in Msgs PROVE Kept(m)'
    <3>1. Kept(m) /\ m \in Int /\ (handler'[m] = handler[m] \/ (handler'[m] = "gone" /\ m < NextNew))
      <4>1. pc = "wait" => serving < NextNew
        BY ServedIsKnown
      <4>2. handler' = handler \/ (pc = "wait" /\ handler' = [handler EXCEPT ![serving] = "gone"])
        BY <1>9 DEF LoopUnwinds
      <4>. QED BY <1>0, <4>1, <4>2 DEF BodyInv, Msgs, TypeOK, LoopType
    <3>. QED BY <1>0, <2>1, <2>2, <3>1 DEF Kept, Onwards
  <2>. QED BY <2>2, <2>3 DEF BodyInv, Late
<1>. QED BY <1>1, <1>2, <1>3, <1>4, <1>5, <1>6, <1>7, <1>8, <1>9 DEF LoopNext

\* So do the handlers, the timers, the peer, a shutdown and the transport.
LEMMA OtherBodies ==
    ASSUME OrderInv, BodyInv, TypeOK', OtherNext, ~HandlerMayCancel PROVE BodyInv'
<1>. USE DEF stopVars, bodyVars, loopVars, parserVars
<1>0. TypeOK /\ Onwards
  BY GoesOnwards DEF OrderInv, Next, OtherNext
<1>1. ASSUME NEW m \in Msgs, HandlerReads(m) PROVE BodyInv'
  <2>1. PICK s : s = ReadOne(src[m]) /\ src' = [src EXCEPT ![m] = s]
    BY <1>1 DEF HandlerReads, UpdateSource
  <2>2. PICK h : h = handler[m] /\ handler' = [handler EXCEPT ![m] = h]
    BY <1>0, <1>1 DEF HandlerReads, TypeOK, LoopType
  <2>3. s.eof = src[m].eof /\ s.overflow = src[m].overflow
    BY <1>0, <2>1, SourceFacts DEF TypeOK, BodyType
  <2>4. /\ UNCHANGED <<kind, current, closing, cancelled, serving, pc, handler>>
        /\ h \in {"running", "detached"} /\ kind[m].stream /\ Kept(m)
    BY <1>1, <2>2 DEF HandlerReads, BodyInv
  <2>5. pc' \in Late \cup {"drain"} => handler'[serving'] = "gone"
    BY <2>4 DEF BodyInv
  <2>. QED BY <1>0, <2>1, <2>2, <2>3, <2>4, <2>5, SourceMoves DEF Kept, Onwards
<1>2. ASSUME NEW m \in Msgs, HandlerEnds(m) PROVE BodyInv'
  <2>1. PICK h : h = "done" /\ handler' = [handler EXCEPT ![m] = h]
    BY <1>2 DEF HandlerEnds
  <2>2. PICK s : s = src[m] /\ src' = [src EXCEPT ![m] = s]
    BY <1>0, <1>2 DEF HandlerEnds, TypeOK, BodyType
  <2>3. /\ UNCHANGED <<kind, current, closing, cancelled, serving, pc>>
        /\ handler[m] = "running" /\ Kept(m)
    BY <1>2 DEF HandlerEnds, BodyInv
  <2>4. pc' \in Late \cup {"drain"} => handler'[serving'] = "gone"
    <3>1. pc \in Late \cup {"drain"} => handler[serving] = "gone" /\ serving # m
      BY <2>3 DEF BodyInv
    <3>. QED BY <1>0, <2>1, <2>3, <3>1, ServedIsKnown DEF TypeOK, LoopType, Late
  <2>. QED BY <1>0, <2>1, <2>2, <2>3, <2>4, SourceMoves DEF Kept, Onwards
<1>3. ASSUME NEW m \in Msgs, DetachedEnds(m) PROVE BodyInv'
  <2>1. /\ UNCHANGED <<kind, current, closing, cancelled, serving, pc>>
        /\ handler[m] \in {"detached", "draining"} /\ Kept(m) /\ ~Open'
    BY <1>0, <1>3 DEF DetachedEnds, BodyInv, Kept, Onwards
  <2>2. PICK h : h \in {"draining", "gone"} /\ handler' = [handler EXCEPT ![m] = h]
    BY <1>3 DEF DetachedEnds
  <2>3. PICK s : src' = [src EXCEPT ![m] = s]
    BY <1>3 DEF DetachedEnds, UpdateSource
  <2>4. pc' \in Late \cup {"drain"} => handler'[serving'] = "gone"
    <3>1. pc \in Late \cup {"drain"} => handler[serving] = "gone" /\ serving # m
      BY <2>1 DEF BodyInv
    <3>. QED BY <1>0, <2>1, <2>2, <3>1, ServedIsKnown DEF TypeOK, LoopType, Late
  <2>. QED BY <1>0, <2>1, <2>2, <2>3, <2>4, SourceMoves DEF Kept, Onwards
<1>4. CASE (\E m \in Msgs : emit_refusal(m)) \/ request_timeout \/ keep_alive_timeout \/ pause_writing
           \/ resume_writing \/ PeerCloses \/ begin_drain
  <2>1. UNCHANGED <<handler, src, kind, current, pc, serving, cancelled>>
    BY <1>4 DEF emit_refusal, request_timeout, keep_alive_timeout, pause_writing, resume_writing, PeerCloses,
                begin_drain
  <2>2. closing' => closing \/ ~Open'
    BY <1>4 DEF emit_refusal, request_timeout, keep_alive_timeout, pause_writing, resume_writing, PeerCloses,
                begin_drain, Shut, Open
  <2>3. BodiesAlone
    BY <1>0, <2>1, <2>2 DEF BodiesAlone
  <2>. QED BY <1>0, <2>3, AloneKeeps
<1>5. CASE connection_lost
  <2>1. ~Open' /\ UNCHANGED <<handler, kind, pc, serving>> /\ current' \in {0, current}
    BY <1>5 DEF connection_lost, WebSocketLost, HttpLost, Open
  <2>2. ASSUME NEW m \in Msgs
        PROVE  /\ src[m].eof => src'[m].eof
               /\ src[m].overflow => src'[m].overflow
    <3>1. src[m] \in Source
      BY <1>0 DEF TypeOK, BodyType
    <3>2. src'[m] \in {src[m], FeedDisconnected(src[m]), MarkDisconnected(src[m])}
      BY <1>5 DEF connection_lost, WebSocketLost, HttpLost
    <3>3. /\ FeedDisconnected(src[m]).eof /\ FeedDisconnected(src[m]).overflow = src[m].overflow
          /\ MarkDisconnected(src[m]).eof = src[m].eof /\ MarkDisconnected(src[m]).overflow = src[m].overflow
      BY <3>1 DEF Source, FeedDisconnected, MarkDisconnected
    <3>. QED BY <3>2, <3>3
  <2>3. ASSUME NEW m \in Msgs PROVE Kept(m)'
    <3>1. Kept(m) /\ m \in Int
      BY DEF BodyInv, Msgs
    <3>. QED BY <1>0, <2>1, <2>2, <3>1 DEF Kept, Onwards
  <2>. QED BY <2>1, <2>3 DEF BodyInv
<1>. QED BY <1>1, <1>2, <1>3, <1>4, <1>5 DEF OtherNext

\* When no handler ends in a CancelledError of its own, the loop never goes on
\* to the next request of an open connection with chunks of the last body left
\* unread, however the handler, the parser and the client interleave.
THEOREM BodiesNeverLeftBehind == ~HandlerMayCancel /\ Spec => []BodiesAreDrained
<1>. SUFFICES ASSUME ~HandlerMayCancel PROVE Spec => []BodiesAreDrained
  OBVIOUS
<1>1. Init => BodyInv
  <2>. SUFFICES ASSUME Init PROVE BodyInv
    OBVIOUS
  <2>1. pc = "none" /\ ~closing /\ ~cancelled /\ current = 0
    BY DEF Init
  <2>2. ASSUME NEW m \in Msgs PROVE Kept(m)
    <3>1. handler[m] = "none" /\ m # 0
      BY MsgRanges DEF Init
    <3>. QED BY <2>1, <3>1 DEF Kept
  <2>. QED BY <2>1, <2>2 DEF BodyInv, Late
<1>2. OrderInv /\ BodyInv /\ [Next]_vars => BodyInv'
  <2>. SUFFICES ASSUME OrderInv, BodyInv, [Next]_vars PROVE BodyInv'
    OBVIOUS
  <2>1. TypeOK'
    BY OrderStep DEF OrderInv
  <2>2. CASE UNCHANGED vars
    BY <2>2 DEF vars, BodyInv, Kept, Open, NextNew
  <2>. QED BY <2>1, <2>2, ParserBodies, LoopBodies, OtherBodies DEF Next, OtherNext
<1>3. OrderInv /\ BodyInv => BodiesAreDrained
  BY DEF OrderInv, BodyInv, Kept, BodiesAreDrained
<1>. QED BY <1>1, <1>2, <1>3, InitOrder, OrderStep, PTL DEF Spec

=============================================================================
