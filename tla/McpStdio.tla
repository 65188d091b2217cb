------------------------------ MODULE McpStdio ------------------------------
(***************************************************************************)
(* The MCP stdio transport and the invocation of a tool under it           *)
(* (contrib/mcp/transports/stdio.py, contrib/mcp/_invocation.py,           *)
(* contrib/mcp/context.py): one reader, one dispatch task per message,     *)
(* tool calls one after another, control messages beside them, questions   *)
(* a running tool asks the client, cancellation, and the end of the input. *)
(* A tool called by the client may, through sample_with_tools, call other  *)
(* tools: the calls of one dispatch form a stack of frames.                *)
(***************************************************************************)
EXTENDS Integers, Sequences, FiniteSets

CONSTANTS NMsg,         \* bound on messages read
          MaxDeps,      \* bound on yield dependencies of one call
          MaxDepth,     \* bound on tool calls within tool calls
          MaxRounds,    \* max_tool_rounds of sample_with_tools
          MaxAsks,      \* bound on questions a dispatch asks the client
          AskAfterEof   \* whether a tool may ask once the input has ended

StdioAssumption ==
    {NMsg, MaxDeps, MaxDepth, MaxRounds, MaxAsks} \subseteq Nat /\ AskAfterEof \in BOOLEAN

VARIABLES kind,       \* kind[m]: "none" before it is read
          serving,    \* "reading", "draining" (EOF) or "ended"
          phase,      \* dispatch task of m
          stack,      \* frames of the tool calls of m, innermost last
          bound,      \* _current_request_var of m: the frame it was set by
          waiting,    \* dispatches parked on a client's reply (_pending)
          asks,       \* questions asked so far
          cancelled,  \* dispatches with a cancellation to be delivered
          answers     \* replies written per message

vars == <<kind, serving, phase, stack, bound, waiting, asks, cancelled, answers>>

Msg == 1..NMsg
Serial == {"call", "other"}
Ended == {"done", "dropped"}

(* A frame of _run_invoke: route-derived or pure, where it is, how many    *)
(* yield dependencies it opened and tore down, what it is unwinding with,  *)
(* whether teardowns failed, whether one let a cancellation through.       *)
Frame(route) == [route |-> route, at |-> "before", opened |-> 0, torn |-> 0,
                 exc |-> "none", failed |-> FALSE, cut |-> FALSE, outer |-> 0, hooks |-> FALSE, rounds |-> 0]

Init ==
    /\ kind = [m \in Msg |-> "none"]
    /\ serving = "reading"
    /\ phase = [m \in Msg |-> "unread"]
    /\ stack = [m \in Msg |-> <<>>]
    /\ bound = [m \in Msg |-> 0]
    /\ waiting = {} /\ cancelled = {}
    /\ asks = 0
    /\ answers = [m \in Msg |-> 0]

-----------------------------------------------------------------------------
(* The reader.                                                             *)

Unread(m) == phase[m] = "unread" /\ \A n \in Msg : n < m => phase[n] # "unread"

(* A message becomes a dispatch task; ping and notifications/cancelled do  *)
(* not wait for the tool calls before them.                                *)
Read(m, k) ==
    /\ serving = "reading" /\ Unread(m)
    /\ kind' = [kind EXCEPT ![m] = k]
    /\ phase' = [phase EXCEPT ![m] = IF k \in Serial THEN "queued" ELSE "start"]
    /\ UNCHANGED <<serving, stack, bound, waiting, asks, cancelled, answers>>

(* A reply settles the pending question; one nobody waits for is dropped.  *)
resolve_reply(m) ==
    /\ serving = "reading" /\ m \in waiting
    /\ waiting' = waiting \ {m}
    /\ UNCHANGED <<kind, serving, phase, stack, bound, asks, cancelled, answers>>

EndOfInputOnly ==
    /\ serving = "reading"
    /\ serving' = "draining"
    /\ UNCHANGED <<kind, phase, stack, bound, waiting, asks, cancelled, answers>>

(* EOF: the parked questions fail, then the dispatches are awaited.        *)
EndOfInput ==
    /\ serving = "reading"
    /\ serving' = "draining"
    /\ waiting' = {}
    /\ UNCHANGED <<kind, phase, stack, bound, asks, cancelled, answers>>

ServeEnds ==
    /\ serving = "draining"
    /\ \A m \in Msg : phase[m] \in Ended \cup {"unread"}
    /\ serving' = "ended"
    /\ UNCHANGED <<kind, phase, stack, bound, waiting, asks, cancelled, answers>>

-----------------------------------------------------------------------------
(* Dispatch.                                                               *)

SerialBefore(m) == {n \in Msg : n < m /\ kind[n] \in Serial}

MayStartAtOnce(m) == phase[m] \in {"start", "queued"}

(* _dispatch_in_order waits for the task read before it.                   *)
MayStart(m) ==
    \/ phase[m] = "start"
    \/ phase[m] = "queued" /\ \A n \in SerialBefore(m) : phase[n] \in Ended

(* ping and the methods that run no tool are answered at once.             *)
Answer(m) ==
    /\ MayStart(m) /\ kind[m] \in {"ping", "other"}
    /\ phase' = [phase EXCEPT ![m] = "emit"]
    /\ UNCHANGED <<kind, serving, stack, bound, waiting, asks, cancelled, answers>>

(* tools/call, a pure tool or one made from a route.                       *)
StartCall(m, route) ==
    /\ MayStart(m) /\ kind[m] = "call"
    /\ phase' = [phase EXCEPT ![m] = "run"]
    /\ stack' = [stack EXCEPT ![m] = <<Frame(route)>>]
    /\ UNCHANGED <<kind, serving, bound, waiting, asks, cancelled, answers>>

(* _handle_cancelled: only a call that is in flight is found, which it is  *)
(* until its result is shaped.                                             *)
HandleCancelled(m, target) ==
    /\ MayStart(m) /\ kind[m] = "cancel"
    /\ phase' = [phase EXCEPT ![m] = "done"]
    /\ cancelled' = IF phase[target] \in {"run", "drain"} THEN cancelled \cup {target} ELSE cancelled
    /\ UNCHANGED <<kind, serving, stack, bound, waiting, asks, answers>>

(* _emit under the write lock: one whole line.                             *)
Emit(m) ==
    /\ phase[m] = "emit"
    /\ answers' = [answers EXCEPT ![m] = @ + 1]
    /\ phase' = [phase EXCEPT ![m] = "done"]
    /\ UNCHANGED <<kind, serving, stack, bound, waiting, asks, cancelled>>

-----------------------------------------------------------------------------
(* A frame. Top(m) is the innermost call; Put changes it.                  *)

Top(m) == stack[m][Len(stack[m])]
At(m, where) == phase[m] = "run" /\ stack[m] # <<>> /\ Top(m).at = where /\ m \notin waiting
Put(m, f) == stack' = [stack EXCEPT ![m][Len(stack[m])] = f]
Only(m, f) == Put(m, f) /\ UNCHANGED <<kind, serving, phase, bound, waiting, asks, cancelled, answers>>

(* mcp_before_call hooks: one may answer for the tool. Otherwise _invoke   *)
(* binds the request context; the outer one is kept for the restore.       *)
BeforeCall(m, shorts) ==
    /\ At(m, "before")
    /\ IF shorts
       THEN Only(m, [Top(m) EXCEPT !.at = "out", !.outer = bound[m]])
       ELSE /\ Put(m, [Top(m) EXCEPT !.at = IF Top(m).route THEN "chain" ELSE "bind",
                                     !.outer = bound[m]])
            /\ bound' = [bound EXCEPT ![m] = Len(stack[m])]
            /\ UNCHANGED <<kind, serving, phase, waiting, asks, cancelled, answers>>

(* A route's request middleware and before hooks: on, an early response,   *)
(* or an exception that the application's handlers turn into a response.   *)
RouteChain(m, next) ==
    /\ At(m, "chain")
    /\ \/ next = "bind" /\ Only(m, [Top(m) EXCEPT !.at = "bind"])
       \/ next = "early" /\ Only(m, [Top(m) EXCEPT !.at = "teardown"])
       \/ next = "raise" /\ Only(m, [Top(m) EXCEPT !.at = "teardown", !.exc = "error"])

(* bind_arguments resolves the dependencies, d of them generators; it may  *)
(* fail after some of them were entered.                                   *)
Bind(m, d, ok) ==
    /\ At(m, "bind")
    /\ Only(m, [Top(m) EXCEPT !.opened = d, !.at = IF ok THEN "tool" ELSE "teardown",
                              !.exc = IF ok THEN "none" ELSE "error"])

(* ctx.sample, ctx.elicit, ctx.roots: StdioTransport.request.              *)
Ask(m) ==
    /\ At(m, "tool") /\ asks < MaxAsks
    /\ serving = "reading" \/ (serving = "draining" /\ AskAfterEof)
    /\ waiting' = waiting \cup {m}
    /\ asks' = asks + 1
    /\ UNCHANGED <<kind, serving, phase, stack, bound, cancelled, answers>>

(* sample_with_tools: the model asked for a tool of this server.           *)
RunSampledTool(m) ==
    /\ At(m, "tool") /\ Len(stack[m]) < MaxDepth /\ Top(m).rounds < MaxRounds
    /\ stack' = [stack EXCEPT ![m] =
                    Append([stack[m] EXCEPT ![Len(stack[m])].rounds = @ + 1], Frame(FALSE))]
    /\ UNCHANGED <<kind, serving, phase, bound, waiting, asks, cancelled, answers>>

ToolReturns(m, ok) ==
    /\ At(m, "tool")
    /\ Only(m, [Top(m) EXCEPT !.at = IF ok THEN "after" ELSE "teardown",
                              !.exc = IF ok THEN "none" ELSE "error"])

(* _build_response, after hooks and background work; the last never raises.*)
After(m, ok) ==
    /\ At(m, "after")
    /\ Only(m, [Top(m) EXCEPT !.at = "teardown", !.exc = IF ok THEN "none" ELSE "error"])

(* The cancellation is delivered at the await the dispatch is parked on. A *)
(* frame unwinds with it; StdioTransport.request turns it into an error of *)
(* the question, and the tool goes on.                                     *)
Cancelled(m) ==
    /\ m \in cancelled /\ phase[m] = "run"
    /\ cancelled' = cancelled \ {m}
    /\ IF m \in waiting
       THEN waiting' = waiting \ {m} /\ UNCHANGED stack
       ELSE /\ Top(m).at \in {"before", "chain", "bind", "tool", "after"}
            /\ Put(m, [Top(m) EXCEPT !.exc = "cancel",
                                     !.at = IF @ = "before" THEN "out" ELSE "teardown",
                                     !.outer = IF Top(m).at = "before" THEN bound[m] ELSE @])
            /\ UNCHANGED waiting
    /\ UNCHANGED <<kind, serving, phase, bound, asks, answers>>

(* Past the teardowns it is delivered in a request teardown hook, in the   *)
(* drain of a stream or at the write of the answer, which is not made.     *)
CancelledAfter(m) ==
    /\ m \in cancelled
    /\ cancelled' = cancelled \ {m}
    /\ \/ /\ At(m, "hooks")
          /\ Put(m, [Top(m) EXCEPT !.at = "out", !.exc = "cancel"])
          /\ UNCHANGED phase
       \/ /\ phase[m] \in {"drain", "emit"}
          /\ phase' = [phase EXCEPT ![m] = "dropped"]
          /\ UNCHANGED stack
    /\ UNCHANGED <<kind, serving, bound, waiting, asks, answers>>

(* Where nothing is awaited any more, or what is swallows it, it is lost.  *)
CancelledLate(m) ==
    /\ m \in cancelled
    /\ phase[m] \in Ended \cup {"emit"} \/ (phase[m] = "run" /\ Top(m).at \in {"teardown", "hooks", "out"})
    /\ cancelled' = cancelled \ {m}
    /\ UNCHANGED <<kind, serving, phase, stack, bound, waiting, asks, answers>>

TeardownStepStops(m, how) ==
    LET f == Top(m) IN
    /\ At(m, "teardown") /\ f.torn < f.opened
    /\ Only(m, [f EXCEPT !.torn = @ + 1, !.at = IF how = "ends" THEN @ ELSE "out",
                         !.exc = IF how = "ends" THEN @ ELSE "error"])

(* run_teardowns: newest first; a teardown that raises does not stop the   *)
(* others.                                                                 *)
TeardownStep(m, how) ==
    LET f == Top(m) IN
    /\ At(m, "teardown") /\ f.torn < f.opened
    /\ Only(m, [f EXCEPT !.torn = @ + 1, !.failed = @ \/ how = "raises"])

(* A CancelledError, thrown into the generator or delivered at an await of *)
(* it, that it does not keep is no Exception: it leaves the loop.          *)
CancelledTeardown(m) ==
    LET f == Top(m) IN
    /\ At(m, "teardown") /\ f.torn < f.opened
    /\ f.exc = "cancel" \/ m \in cancelled
    /\ Put(m, [f EXCEPT !.torn = @ + 1, !.at = "out", !.exc = "cancel", !.cut = TRUE])
    /\ cancelled' = IF f.exc = "cancel" THEN cancelled ELSE cancelled \ {m}
    /\ UNCHANGED <<kind, serving, phase, bound, waiting, asks, answers>>

(* The loop is over: the collected failures are raised, else the request   *)
(* teardown hooks of a route run.                                          *)
TeardownsDone(m) ==
    LET f == Top(m) IN
    /\ At(m, "teardown") /\ f.torn = f.opened
    /\ Only(m, [f EXCEPT !.at = IF f.route /\ ~f.failed THEN "hooks" ELSE "out",
                         !.exc = IF f.failed THEN "error" ELSE @])

RequestTeardown(m) ==
    /\ At(m, "hooks")
    /\ Only(m, [Top(m) EXCEPT !.at = "out", !.hooks = TRUE])

InvokeReturnsUnrestored(m) ==
    LET rest == SubSeq(stack[m], 1, Len(stack[m]) - 1)
    IN /\ At(m, "out")
       /\ stack' = [stack EXCEPT ![m] = rest]
       /\ phase' = [phase EXCEPT ![m] = IF rest = <<>> THEN "drain" ELSE "run"]
       /\ UNCHANGED <<kind, serving, bound, waiting, asks, cancelled, answers>>

(* _run_invoke returns or raises: the outer context comes back. An error   *)
(* is a result in band; a cancellation goes on to the enclosing call and   *)
(* at last to the dispatch, which then writes nothing.                     *)
InvokeReturns(m) ==
    LET f == Top(m)
        rest == SubSeq(stack[m], 1, Len(stack[m]) - 1)
    IN /\ At(m, "out")
       /\ bound' = [bound EXCEPT ![m] = f.outer]
       /\ stack' = [stack EXCEPT ![m] =
             IF rest = <<>> \/ f.exc # "cancel" THEN rest
             ELSE [rest EXCEPT ![Len(rest)].exc = "cancel", ![Len(rest)].at = "teardown"]]
       /\ phase' = [phase EXCEPT ![m] = IF rest # <<>> THEN "run"
                                        ELSE IF f.exc = "cancel" THEN "dropped" ELSE "drain"]
       /\ UNCHANGED <<kind, serving, waiting, asks, cancelled, answers>>

(* _drain_stream and the shaping of the result: a stream that is too slow  *)
(* or too large becomes an error in band, like any other failure.          *)
ShapeResult(m) ==
    /\ phase[m] = "drain"
    /\ phase' = [phase EXCEPT ![m] = "emit"]
    /\ UNCHANGED <<kind, serving, stack, bound, waiting, asks, cancelled, answers>>

-----------------------------------------------------------------------------
DispatchStep(m) ==
    \/ Answer(m) \/ Emit(m) \/ Cancelled(m) \/ CancelledAfter(m) \/ CancelledLate(m)
    \/ CancelledTeardown(m)
    \/ TeardownsDone(m) \/ RequestTeardown(m) \/ InvokeReturns(m) \/ ShapeResult(m)
    \/ \E b \in BOOLEAN : StartCall(m, b) \/ BeforeCall(m, b) \/ ToolReturns(m, b)
                          \/ After(m, b)
    \/ \E how \in {"ends", "raises"} : TeardownStep(m, how)
    \/ \E d \in 0..MaxDeps, b \in BOOLEAN : Bind(m, d, b)
    \/ \E x \in {"bind", "early", "raise"} : RouteChain(m, x)
    \/ \E t \in Msg \ {m} : HandleCancelled(m, t)

Next ==
    \/ \E m \in Msg :
          \/ \E k \in {"call", "other", "ping", "cancel"} : Read(m, k)
          \/ resolve_reply(m) \/ Ask(m) \/ RunSampledTool(m) \/ DispatchStep(m)
    \/ EndOfInput \/ ServeEnds

(* The loop runs what can run, and every tool, hook and teardown ends. The *)
(* client owes no reply.                                                   *)
Fairness == WF_vars(ServeEnds) /\ \A m \in Msg : WF_vars(DispatchStep(m))

Spec == Init /\ [][Next]_vars /\ Fairness

-----------------------------------------------------------------------------
(* Properties.                                                             *)

(* A frame.                                                                *)
Frames == [route : BOOLEAN,
           at : {"before", "chain", "bind", "tool", "after", "teardown", "hooks", "out"},
           opened : Nat, torn : Nat, exc : {"none", "error", "cancel"}, failed : BOOLEAN,
           cut : BOOLEAN, outer : Nat, hooks : BOOLEAN, rounds : Nat]

TypeOK ==
    /\ kind \in [Msg -> {"none", "call", "other", "ping", "cancel"}]
    /\ serving \in {"reading", "draining", "ended"}
    /\ phase \in [Msg -> {"unread", "start", "queued", "run", "drain", "emit"} \cup Ended]
    /\ stack \in [Msg -> Seq(Frames)] /\ bound \in [Msg -> Nat]
    /\ waiting \subseteq Msg /\ cancelled \subseteq Msg
    /\ asks \in 0..MaxAsks /\ answers \in [Msg -> Nat]

(* Tool calls run one at a time and in the order they were read            *)
(* (_dispatch_in_order).                                                   *)
SerialCalls ==
    \A m, n \in Msg : m < n /\ kind[m] \in Serial /\ kind[n] \in Serial
        /\ phase[n] \notin {"unread", "queued"} => phase[m] \in Ended

(* While a tool runs, the request context is its own, also after a tool it *)
(* called has returned or failed (_run_invoke restores the outer one).     *)
ContextIsOwn ==
    \A m \in Msg : \A i \in DOMAIN stack[m] :
        stack[m][i].at \in {"chain", "bind", "tool", "after"} /\ i = Len(stack[m]) => bound[m] = i

(* However a call ends, cancelled ones included, it has torn down every    *)
(* dependency it opened, unless a teardown let a cancellation through: the *)
(* call then ends with that cancellation and the older ones are left       *)
(* (EveryTeardownRuns).                                                    *)
OpenedAreTorn ==
    \A m \in Msg : \A i \in DOMAIN stack[m] :
        LET f == stack[m][i] IN
        f.at = "out" => f.torn = f.opened \/ (f.cut /\ f.exc = "cancel")

(* Why: an enclosing call waits at its tool, a call that has begun knows   *)
(* the context it found, and what is past its teardowns has run them.      *)
(* Frame f, the i-th of n, under the context b:                            *)
FrameOk(f, i, n, b) ==
    /\ i < n => f.at = "tool"
    /\ IF f.at = "before" THEN b = i - 1 ELSE f.outer = i - 1
    /\ f.at \in {"chain", "bind", "tool", "after"} /\ i = n => b = i
    /\ f.at \in {"before", "chain", "bind"} => f.opened = 0
    /\ f.at \in {"before", "chain", "bind", "tool", "after"} => f.torn = 0
    /\ f.at \in {"hooks", "out"} => f.torn = f.opened \/ (f.at = "out" /\ f.cut /\ f.exc = "cancel")

StacksAreSound ==
    \A m \in Msg :
        /\ phase[m] = "run" <=> stack[m] # <<>>
        /\ stack[m] = <<>> => bound[m] = 0
        /\ \A i \in DOMAIN stack[m] : FrameOk(stack[m][i], i, Len(stack[m]), bound[m])

(* What is read is read in order; only a call or another serial message    *)
(* waits in the queue.                                                     *)
ReadInOrder ==
    /\ \A m \in Msg : phase[m] = "unread" <=> kind[m] = "none"
    /\ \A m \in Msg : phase[m] = "start" => kind[m] \notin Serial
    /\ \A m, n \in Msg : m < n /\ phase[m] = "unread" => phase[n] = "unread"

(* run_teardowns: "Every teardown runs even when an earlier one fails".    *)
(* It catches Exception, and a CancelledError is none: what a cancelled    *)
(* call opened before the dependency that lets it through is left open.    *)
EveryTeardownRuns ==
    \A m \in Msg : \A i \in DOMAIN stack[m] :
        stack[m][i].at = "out" => stack[m][i].torn = stack[m][i].opened

(* After the end of the input the transport comes to an end: nothing is    *)
(* left waiting for a reply that cannot come.                              *)
EofEndsServe == serving = "draining" ~> serving = "ended"
=============================================================================
