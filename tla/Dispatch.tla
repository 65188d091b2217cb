------------------------------ MODULE Dispatch ------------------------------
(***************************************************************************)
(* One request in DispatchMixin.handle_request (app/dispatch.py), from the *)
(* first-request latch, which it shares with the other requests, through   *)
(* middleware, hooks, route, dependencies and handler to the finally that  *)
(* tears them down.  Whatever runs the application's code may raise        *)
(* HTTPException ("http") or another error ("other"), and the request may  *)
(* be cancelled once, at any await.                                        *)
(*                                                                         *)
(* Responses are not told apart; seen lists the middleware the present one *)
(* has passed.  A mounted application answers or raises in one step.       *)
(***************************************************************************)
EXTENDS FirstRequest, Sequences, SequencesExt

CONSTANTS
    Own,            \* the request that is followed
    Middlewares,    \* _middlewares in the order of the request phase
    Dropped,        \* the middleware the "excluding" route excludes
    MaxYields       \* yield dependencies of a handler (a bound)

ASSUME OwnAssumption == Own \in Requests
ASSUME YieldsAssumption == MaxYields \in Nat
ASSUME DroppedAssumption == Dropped \subseteq {Middlewares[n] : n \in DOMAIN Middlewares}

\* _route_middleware_chains: what the "excluding" route keeps.
KeptMiddlewares == SelectSeq(Middlewares, LAMBDA m : m \notin Dropped)

\* Both chains are finite lists of middlewares.
ASSUME ChainsAssumption ==
    {Middlewares, KeptMiddlewares} \subseteq Seq({Middlewares[n] : n \in DOMAIN Middlewares})

VARIABLES
    config,         \* chosen once: propagate, bare, around, route
    pc,             \* where the request stands
    i,              \* the next middleware of the request phase
    entered,        \* _dispatch_request has begun, its finally is owed
    exc,            \* _exc
    handling,       \* an except clause runs
    outcome,        \* how the try statement ends
    stash,          \* the filtered response chain is on request._state
    excluded,       \* the local of that name
    stack,          \* the resolver's _teardowns
    held,           \* the local resolver is bound
    bp,             \* _bp_name is the endpoint's blueprint
    bpNext,         \* the value it gets when the response phase returns
    rest,           \* what is left of the response phase
    form,           \* request._form is parsed
    sched, captured, bg,    \* background tasks: scheduled, with the form, running
    broken,         \* a yield dependency's teardown raised
    \* History.
    seen,           \* middleware the present response has passed, in order
    intruder,       \* a middleware ran on a route that excludes it
    opened,         \* yield dependencies started, in order
    torn,           \* those resumed, in order
    told,           \* what they were told: "ok" or "error"
    bpTouched,      \* a hook of the blueprint ran
    tdRan, bpTdRan, ctxRan,     \* how often the teardown hooks ran
    closed,         \* how often the uploads were closed
    secondary,      \* an error was raised while one was answered
    cancelled, cut  \* the request was cancelled; in its finally

flow == <<pc, exc, handling, outcome, entered>>
chain == <<i, stash, excluded, rest, seen>>
deps == <<stack, held, opened>>
uploads == <<form, sched, captured, bg, closed>>
unwinding == <<torn, told, broken, tdRan, bpTdRan, ctxRan, cut>>
names == <<bp, bpNext, bpTouched>>
vars == <<latchVars, config, flow, chain, deps, uploads, unwinding, names,
          secondary, intruder, cancelled>>

Routes == {"none", "plain", "excluding"}
Errors == {"http", "other"}

\* A bare application has no middleware and no hooks.
Configs == {c \in [propagate : BOOLEAN, bare : BOOLEAN, around : BOOLEAN,
                   route : Routes] : c.bare => ~c.around /\ c.route # "excluding"}

All == IF config.bare THEN <<>> ELSE Middlewares

Filtered == IF config.bare THEN <<>> ELSE KeptMiddlewares

\* The chain of _run_response_middleware, and that of _run_response_phase.
DynamicChain == IF stash THEN Filtered ELSE All
PhaseChain == IF excluded THEN DynamicChain ELSE All

Init ==
    /\ LatchInit
    /\ config \in Configs
    /\ pc = "latch" /\ entered = FALSE
    /\ exc = "none" /\ handling = FALSE /\ outcome = "none"
    /\ i = 1 /\ stash = FALSE /\ excluded = FALSE
    /\ rest = <<>> /\ seen = <<>> /\ intruder = FALSE
    /\ stack = <<>> /\ held = FALSE /\ opened = <<>>
    /\ bp = FALSE /\ bpNext = FALSE /\ bpTouched = FALSE
    /\ form = FALSE /\ sched = FALSE /\ captured = FALSE /\ bg = 0 /\ closed = 0
    /\ torn = <<>> /\ told = {} /\ broken = FALSE
    /\ tdRan = 0 /\ bpTdRan = 0 /\ ctxRan = 0 /\ cut = FALSE
    /\ secondary = FALSE /\ cancelled = FALSE

-----------------------------------------------------------------------------
(* Ways on.                                                                 *)

\* A response of the try statement, or of an except clause, goes through the
\* response phase of the chain.
respond(c) ==
    /\ rest' = Reverse(c) /\ seen' = <<>> /\ pc' = "post"
    /\ UNCHANGED <<i, stash, excluded, exc, handling, outcome, entered>>

\* An error reaches the except clauses, unless it comes from one of them or
\* from outside the try statement.
raise ==
    /\ IF entered /\ ~handling
         THEN /\ pc' = "error" /\ exc' \in Errors /\ handling' = TRUE
              /\ UNCHANGED outcome
         ELSE /\ pc' = IF entered THEN "teardown" ELSE "over"
              /\ outcome' = "raised"
              /\ UNCHANGED <<exc, handling>>
    /\ UNCHANGED <<entered, chain>>

go(to) == pc' = to /\ UNCHANGED <<exc, handling, outcome, entered>>

\* What most steps of the try statement leave alone.
tryFrame == UNCHANGED <<latchVars, config, uploads, unwinding, secondary,
                        intruder, cancelled>>

-----------------------------------------------------------------------------
(* handle_request                                                           *)

\* The latch lets the request through, or a first-request hook's error does
\* not: no except clause is around it.
LatchLeft ==
    /\ pc = "latch"
    /\ \/ at[Own] = "past" /\ go("size")
       \/ /\ at[Own] = "failed"
          /\ pc' = "over" /\ outcome' = "raised"
          /\ UNCHANGED <<exc, handling, entered>>
    /\ UNCHANGED <<chain, deps, names>> /\ tryFrame

\* MAX_CONTENT_LENGTH; a refusal is _body_too_large_response.
LimitChecked ==
    /\ pc = "size"
    /\ \/ go("around") /\ UNCHANGED chain
       \/ respond(All)
       \/ raise
    /\ UNCHANGED <<deps, names>> /\ tryFrame

\* _run_http_middleware_chain: a function may answer, raise or call_next.
AroundBefore ==
    /\ pc = "around"
    /\ \/ go("match")
       \/ /\ config.around
          /\ outcome' \in {"returned", "raised"} /\ pc' = "finish"
          /\ UNCHANGED <<exc, handling, entered>>
    /\ UNCHANGED <<chain, deps, names>> /\ tryFrame

-----------------------------------------------------------------------------
(* The try statement of _dispatch_request.                                  *)

\* The route is matched once; the fast path leads straight to the handler.
Match ==
    /\ pc = "match"
    /\ entered' = TRUE
    /\ stash' = (config.route = "excluding")
    /\ \/ pc' = "request"
       \/ config.bare /\ config.route # "none" /\ pc' = "handler"
    /\ UNCHANGED <<exc, handling, outcome, i, excluded, rest, seen,
                   deps, names>> /\ tryFrame

\* _run_request_phase.  excluded is bound when it returns.
process_request ==
    /\ pc = "request"
    /\ IF i > Len(DynamicChain)
         THEN go("before") /\ excluded' = stash
              /\ UNCHANGED <<i, stash, rest, seen>>
         ELSE \/ /\ i' = i + 1
                 /\ UNCHANGED <<flow, stash, excluded, rest, seen>>
              \/ respond(DynamicChain)
              \/ raise
    /\ UNCHANGED <<deps, names>> /\ tryFrame

\* Mutant: the answer of a hook is returned as it is.
EarlyChainNone == <<>>

\* A hook's answer goes through _run_response_middleware.
EarlyChain == DynamicChain

\* The application's hooks of _run_before_hooks; without hooks only _bp_name
\* is bound.
before_request_hooks ==
    /\ pc = "before"
    /\ \/ go("route") /\ bp' = (config.route # "none") /\ UNCHANGED <<chain, bpNext, bpTouched>>
       \/ /\ ~config.bare
          /\ \/ go("bp_before") /\ UNCHANGED <<chain, names>>
             \/ respond(EarlyChain) /\ bpNext' = FALSE /\ UNCHANGED <<bp, bpTouched>>
             \/ raise /\ UNCHANGED names
    /\ UNCHANGED deps /\ tryFrame

\* ... and those of the endpoint's blueprint.  _bp_name is bound when
\* _run_before_hooks returns, after the response phase of an early answer.
bp_before_hooks ==
    /\ pc = "bp_before"
    /\ bpTouched' = (config.route # "none")
    /\ \/ go("route") /\ bp' = (config.route # "none") /\ UNCHANGED <<chain, bpNext>>
       \/ config.route # "none" /\ respond(EarlyChain) /\ bpNext' = TRUE /\ UNCHANGED bp
       \/ config.route # "none" /\ raise /\ UNCHANGED <<bp, bpNext>>
    /\ UNCHANGED deps /\ tryFrame

\* _resolve_route: a mounted application or a static handler answers; a 405
\* is composed by _handle_error; a redirect and OPTIONS are answered here; an
\* error of any of these, or a 404, is raised; or there is a route.  Code that
\* ran before may have rewritten the path and so have changed the match.
resolve_route ==
    /\ pc = "route"
    /\ \/ respond(DynamicChain) /\ bpNext' = bp /\ UNCHANGED <<bp, bpTouched>>
       \/ /\ config.route = "none" \/ ~config.bare
          /\ respond(PhaseChain) /\ bpNext' = bp /\ UNCHANGED <<bp, bpTouched>>
       \/ raise /\ UNCHANGED names
       \/ /\ config.route # "none" \/ ~config.bare
          /\ go("deps") /\ bp' = TRUE /\ UNCHANGED <<chain, bpNext, bpTouched>>
    /\ UNCHANGED deps /\ tryFrame

\* _resolve_dependencies: yield dependencies are started one by one; the
\* local resolver is bound when all of them, and the parameters, are there.
resolve_dependencies ==
    /\ pc = "deps"
    /\ \/ /\ Len(opened) < MaxYields
          /\ opened' = Append(opened, Len(opened) + 1)
          /\ stack' = Append(stack, Len(opened) + 1)
          /\ UNCHANGED <<held, flow, chain>>
       \/ go("handler") /\ held' = TRUE /\ UNCHANGED <<chain, stack, opened>>
       \/ raise /\ UNCHANGED deps
    /\ UNCHANGED names /\ tryFrame

\* The handler, and _build_response on what it returns.
call_handler ==
    /\ pc = "handler"
    /\ \/ go("after") /\ UNCHANGED chain
       \/ raise
    /\ UNCHANGED <<deps, names>> /\ tryFrame

\* _run_after_hooks
after_hooks ==
    /\ pc = "after"
    /\ \/ go("schedule") /\ UNCHANGED chain
       \/ raise
    /\ UNCHANGED <<deps, names>> /\ tryFrame

\* The injected queue and the response's own task, each a spawned task; the
\* form is captured if it is there by now.
schedule_background_tasks ==
    /\ pc = "schedule"
    /\ \E n \in 0 .. 2 :
         /\ bg' = n
         /\ sched' = (n > 0)
         /\ captured' = (n > 0 /\ form)
    /\ respond(PhaseChain)
    /\ bpNext' = bp
    /\ UNCHANGED <<latchVars, config, deps, form, closed, unwinding, bp, bpTouched,
                   secondary, intruder, cancelled>>

\* One process_response, or the end of the phase.
process_response ==
    /\ pc = "post"
    /\ \/ /\ rest # <<>>
          /\ rest' = Tail(rest) /\ seen' = Append(seen, Head(rest))
          /\ UNCHANGED <<flow, i, stash, excluded, names, secondary>>
       \/ /\ rest # <<>>
          /\ raise
          /\ secondary' = (secondary \/ handling)
          /\ UNCHANGED names
       \/ /\ rest = <<>>
          /\ outcome' = "returned"
          /\ bp' = IF handling \/ ~entered THEN bp ELSE bpNext
          /\ pc' = IF entered THEN "teardown" ELSE "over"
          /\ UNCHANGED <<exc, handling, entered, chain, bpNext, bpTouched, secondary>>
    /\ intruder' = (intruder \/ (stash /\ rest # <<>> /\ Head(rest) \in Dropped))
    /\ UNCHANGED <<latchVars, config, deps, uploads, unwinding, cancelled>>

\* User code on the way reads request.form().
ParseForm ==
    /\ pc \in {"request", "before", "bp_before", "deps", "handler", "after", "post"}
    /\ entered /\ ~form
    /\ form' = TRUE
    /\ UNCHANGED <<latchVars, config, flow, chain, deps, sched, captured, bg, closed,
                   unwinding, names, secondary, intruder, cancelled>>

-----------------------------------------------------------------------------
(* The except clauses.                                                      *)

\* Mutant: an error handler is called without a guard.
HandlerErrorLeaves == TRUE

\* _dispatch_exc_handler lets a handler's own error out.
HandlerErrorEscapes == config.propagate

\* A registered handler answers, or HTTPException's default does.
ErrorAnswered ==
    /\ pc = "error"
    /\ respond(PhaseChain)
    /\ UNCHANGED <<deps, names>> /\ tryFrame

\* A registered handler raises: answered with a 500, or let out.
ErrorHandlerRaises ==
    /\ pc = "error"
    /\ IF HandlerErrorEscapes THEN raise ELSE respond(PhaseChain)
    /\ UNCHANGED <<deps, names>> /\ tryFrame

\* What a handler returned cannot be encoded: _coerce_response is outside the
\* guard.
ErrorAnswerUnusable ==
    /\ pc = "error"
    /\ raise
    /\ secondary' = TRUE
    /\ UNCHANGED <<latchVars, config, deps, names, uploads, unwinding, intruder,
                   cancelled>>

\* No handler: re-raised, or shaped by _shape_server_error, whose debug page
\* takes the phase's chain and whose _handle_error the dynamic one.
ErrorUnhandled ==
    /\ pc = "error" /\ exc = "other"
    /\ IF config.propagate THEN raise ELSE respond(PhaseChain) \/ respond(DynamicChain)
    /\ UNCHANGED <<deps, names>> /\ tryFrame

-----------------------------------------------------------------------------
(* The finally, and the rest of handle_request.                             *)

finallyFrame == UNCHANGED <<latchVars, config, chain, opened, held, names, secondary,
                            intruder, cancelled>>

\* Mutant: the first teardown that raises ends the loop.
LeftAfterFailureNone == <<>>

\* What run_teardowns still has to do when one raised.
LeftAfterFailure == Front(stack)

\* run_teardowns resumes one dependency, or throws the error into it.
run_teardown ==
    /\ pc = "teardown" /\ held /\ stack # <<>>
    /\ torn' = Append(torn, Last(stack))
    /\ told' = told \cup {IF exc = "none" THEN "ok" ELSE "error"}
    /\ \/ stack' = Front(stack) /\ UNCHANGED broken
       \/ stack' = LeftAfterFailure /\ broken' = TRUE
    /\ UNCHANGED <<flow, uploads, tdRan, bpTdRan, ctxRan, cut>> /\ finallyFrame

\* Mutant: a teardown's error leaves at once under PROPAGATE_EXCEPTIONS.
AfterTeardownsAtOnce == IF broken /\ config.propagate THEN "leave" ELSE "td_hooks"

\* A teardown's error is kept until the end of the finally.
AfterTeardowns == "td_hooks"

TeardownsDone ==
    /\ pc = "teardown" /\ (held => stack = <<>>)
    /\ go(AfterTeardowns)
    /\ UNCHANGED <<stack, uploads, unwinding>> /\ finallyFrame

\* Mutant: the uploads are closed whether or not a background task reads them.
FinallyClosesAlways == form

\* _close_uploads, unless a background task releases them.
FinallyCloses == form /\ ~sched

\* teardown_request hooks of the application and of _bp_name, then the
\* uploads.  A hook's error is logged.
teardown_request ==
    /\ pc = "td_hooks"
    /\ tdRan' = tdRan + 1
    /\ bpTdRan' = IF bp THEN bpTdRan + 1 ELSE bpTdRan
    /\ closed' = IF FinallyCloses THEN closed + 1 ELSE closed
    /\ go("appcontext")
    /\ UNCHANGED <<stack, form, sched, captured, bg, torn, told, broken, ctxRan, cut>>
    /\ finallyFrame

\* teardown_appcontext hooks, signals, and the teardown's error.
teardown_appcontext ==
    /\ pc = "appcontext"
    /\ ctxRan' = ctxRan + 1
    /\ outcome' = IF broken /\ config.propagate THEN "raised" ELSE outcome
    /\ pc' = "leave"
    /\ UNCHANGED <<exc, handling, entered, stack, uploads, torn, told, broken, tdRan,
                   bpTdRan, cut>> /\ finallyFrame

\* What a middleware function makes of the end of call_next: it passes it on,
\* answers for an error, or raises, a second call_next included.
AroundAfter ==
    /\ pc = "leave"
    /\ pc' = "finish"
    /\ \/ UNCHANGED outcome
       \/ config.around /\ outcome # "cancelled" /\ outcome' \in {"returned", "raised"}
    /\ UNCHANGED <<exc, handling, entered, stack, uploads, unwinding>> /\ finallyFrame

\* request_finished and the instrumentation; neither changes the outcome.
Finish ==
    /\ pc = "finish"
    /\ go("over")
    /\ UNCHANGED <<stack, uploads, unwinding>> /\ finallyFrame

\* A background task of the request is done, well or badly; the last one
\* closes the captured form.
BackgroundEnds ==
    /\ bg > 0
    /\ bg' = bg - 1
    /\ closed' = IF bg = 1 /\ captured THEN closed + 1 ELSE closed
    /\ UNCHANGED <<latchVars, config, flow, chain, deps, form, sched, captured,
                   unwinding, names, secondary, intruder, cancelled>>

\* CancelledError at an await: no except clause takes it, _exc stays as it
\* is, and in the finally it skips what is left.
Cancel ==
    /\ pc \notin {"latch", "match", "schedule", "over"} /\ ~cancelled
    /\ cancelled' = TRUE
    /\ outcome' = "cancelled"
    /\ IF pc \in {"teardown", "td_hooks", "appcontext"}
         THEN pc' = "leave" /\ cut' = TRUE
         ELSE /\ pc' = IF entered /\ pc \notin {"leave", "finish"}
                          THEN "teardown" ELSE "over"
              /\ UNCHANGED cut
    /\ UNCHANGED <<latchVars, config, exc, handling, entered, chain, deps, uploads,
                   torn, told, broken, tdRan, bpTdRan, ctxRan, names, secondary,
                   intruder>>

Latch ==
    /\ LatchNext
    /\ UNCHANGED <<config, flow, chain, deps, uploads, unwinding, names, secondary,
                   intruder, cancelled>>

Next ==
    \/ Latch \/ LatchLeft \/ LimitChecked \/ AroundBefore \/ Match
    \/ process_request \/ before_request_hooks \/ bp_before_hooks
    \/ resolve_route \/ resolve_dependencies \/ call_handler \/ after_hooks
    \/ schedule_background_tasks \/ process_response \/ ParseForm
    \/ ErrorAnswered \/ ErrorHandlerRaises \/ ErrorAnswerUnusable \/ ErrorUnhandled
    \/ run_teardown \/ TeardownsDone \/ teardown_request \/ teardown_appcontext
    \/ AroundAfter \/ Finish \/ BackgroundEnds \/ Cancel

Spec == Init /\ [][Next]_vars

-----------------------------------------------------------------------------
(* Properties.                                                              *)

TypeOK ==
    /\ LatchTypeOK
    /\ config \in Configs
    /\ pc \in {"latch", "size", "around", "match", "request", "before", "bp_before",
               "route", "deps", "handler", "after", "schedule", "post", "error",
               "teardown", "td_hooks", "appcontext", "leave", "finish", "over"}
    /\ exc \in Errors \cup {"none"}
    /\ outcome \in {"none", "returned", "raised", "cancelled"}
    /\ i \in 1 .. Len(Middlewares) + 1
    /\ {entered, handling, stash, excluded, held, bp, bpNext, bpTouched, form, sched,
        captured, broken, cut, secondary, intruder, cancelled} \subseteq BOOLEAN
    /\ bg \in 0 .. 2 /\ closed \in 0 .. 2
    /\ Len(stack) <= MaxYields /\ Len(torn) <= MaxYields

\* The try statement of dispatch is over and its finally was not cancelled.
Unwound == entered /\ ~cut /\ pc \in {"leave", "finish", "over"}

\* Once the handler's arguments are complete, every yield dependency is
\* resumed once, newest first, whatever fails afterwards, teardowns included.
HeldAreTornDown == (Unwound /\ held) => torn = Reverse(opened)

\* The teardown hooks run once whatever failed or answered early, those of
\* the blueprint too once a route was resolved.
TeardownHooksRun ==
    (Unwound /\ ~config.bare) =>
        /\ tdRan = 1 /\ ctxRan = 1
        /\ held => bpTdRan = 1

\* The uploads of a form are not closed while a background task of the
\* request may read them, and closed once when dispatch and tasks are over.
\* A form that is parsed after the tasks were scheduled is nobody's.
UploadsReleased ==
    /\ closed <= 1
    /\ closed > 0 => bg = 0
    /\ (Unwound /\ form /\ bg = 0 /\ (sched => captured)) => closed = 1

\* Without PROPAGATE_EXCEPTIONS an error leaves dispatch only when the answer
\* to it could not be encoded or its response phase raised.
ErrorsAnswered ==
    (pc = "leave" /\ outcome = "raised") => (config.propagate \/ secondary)

\* A response that dispatch returns has passed every middleware of the
\* request once, last registered first, whichever of its many exits it took;
\* where the route excludes some, all of them or all of the others.
ResponseThroughChain ==
    (pc = "leave" /\ outcome = "returned") =>
        seen \in {Reverse(All), Reverse(DynamicChain)}

\* docs/guide/middleware.md: a skipped middleware never runs for that route.
ExcludedNeverRuns == ~intruder

\* docs/guide/dependency-injection.md: a yield dependency behaves like a
\* context manager scoped to the request.
OpenedAreTornDown == Unwound => torn = Reverse(opened)

\* ... and is told of the failure that ends the request.
ToldTheTruth == "ok" \in told => outcome = "returned" \/ broken

\* lifecycle.py: teardown_request hooks run even if an exception occurred.
BlueprintTornDown == (Unwound /\ bpTouched) => bpTdRan = 1

\* request.py: the spool files are closed once the request is finished with.
FormsReleased == (Unwound /\ form /\ bg = 0) => closed = 1

----------------------------------------------------------------------------
(* For TLC: two middlewares, of which the route may exclude one.            *)
TwoMiddlewares == <<"m1", "m2">>
=============================================================================
