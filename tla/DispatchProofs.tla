--------------------------- MODULE DispatchProofs ---------------------------
(***************************************************************************)
(* One request in dispatch, for any chain of middlewares, any number of    *)
(* yield dependencies and of other requests at the latch: what the finally *)
(* of _dispatch_request owes, and what a response has passed.              *)
(***************************************************************************)
EXTENDS Dispatch, SequenceTheorems, TLAPS

Before == {"latch", "size", "around", "match"}
InTry == {"request", "before", "bp_before", "route", "deps", "handler", "after",
          "schedule"}
Finally == {"teardown", "td_hooks", "appcontext"}
Done == {"leave", "finish", "over"}

\* What the control of dispatch knows at each place.
FlowInv ==
    /\ pc \in Before \cup InTry \cup {"post", "error"} \cup Finally \cup Done
    /\ {entered, handling, held, cut, broken} \subseteq BOOLEAN
    /\ pc \in Before => ~entered
    /\ pc \in InTry \cup {"error"} \cup Finally => entered
    /\ pc = "leave" => entered
    /\ pc = "error" => handling
    /\ handling => entered /\ pc \notin InTry
    /\ ~entered => ~held /\ ~cut
    /\ held => pc \notin Before \cup {"request", "before", "bp_before", "route", "deps"}
    /\ pc \notin Finally \cup Done => ~cut /\ outcome = "none"

\* Yield dependencies are started in order; those not yet resumed are a prefix
\* of them, those resumed the others, newest first.
DepsInv ==
    LET n == Len(opened)
    IN  /\ {opened, stack, torn} \subseteq Seq(Nat)
        /\ Len(stack) + Len(torn) = n
        /\ \A k \in 1 .. n : opened[k] = k
        /\ \A k \in 1 .. Len(stack) : stack[k] = k
        /\ \A k \in 1 .. Len(torn) : torn[k] = n - k + 1
        /\ pc \notin Finally \cup Done => torn = <<>>
        /\ held /\ ~cut /\ pc \in (Finally \cup Done) \ {"teardown"} => stack = <<>>

\* The teardown hooks that have run at each place of the finally.
HooksInv ==
    /\ {tdRan, ctxRan, bpTdRan} \subseteq Nat /\ {bp, bpNext} \subseteq BOOLEAN
    /\ held => bp
    /\ pc = "deps" => bp
    /\ held /\ pc = "post" /\ ~handling => bpNext
    /\ pc \notin {"appcontext"} \cup Done => tdRan = 0 /\ bpTdRan = 0 /\ ctxRan = 0
    /\ pc = "appcontext" => tdRan = 1 /\ ctxRan = 0 /\ (held => bpTdRan = 1)
    /\ Unwound => tdRan = 1 /\ ctxRan = 1 /\ (held => bpTdRan = 1)

\* Who closes the uploads: the finally, or the last background task.
UploadsInv ==
    /\ {form, sched, captured} \subseteq BOOLEAN /\ bg \in 0 .. 2 /\ closed \in 0 .. 1
    /\ sched => pc \in {"post", "error"} \cup Finally \cup Done
    /\ captured => form /\ sched
    /\ ~sched => bg = 0
    /\ sched => closed = (IF captured /\ bg = 0 THEN 1 ELSE 0)
    /\ ~sched /\ pc \notin {"appcontext"} \cup Done => closed = 0
    /\ ~sched /\ (pc = "appcontext" \/ Unwound) => closed = (IF form THEN 1 ELSE 0)

\* What is left of the response phase and what has passed make up the chain.
ChainInv ==
    LET S == {Middlewares[n] : n \in DOMAIN Middlewares}
        Wholes == {Reverse(All), Reverse(DynamicChain)}
    IN  /\ {seen, rest} \subseteq Seq(S)
        /\ pc = "post" => seen \o rest \in Wholes
        /\ pc \in Finally \cup {"leave"} /\ outcome = "returned" => seen \in Wholes

\* An error on its way out was let out on purpose, or met another one.
ErrorInv ==
    /\ secondary \in BOOLEAN
    /\ pc \in Finally \cup {"leave"} /\ outcome = "raised" => config.propagate \/ secondary
-----------------------------------------------------------------------------
(* The latch of the first request, for any set of requests.                 *)

\* Every step keeps the types.
LEMMA TypeStep == LatchTypeOK /\ [LatchNext]_latchVars => LatchTypeOK'
<1> SUFFICES ASSUME LatchTypeOK, [LatchNext]_latchVars PROVE LatchTypeOK'
    OBVIOUS
<1> USE DEF LatchTypeOK, Places, stand, try_claim
<1>1. ASSUME NEW r \in Requests, read_fired(r) PROVE LatchTypeOK'
    BY <1>1 DEF read_fired
<1>2. ASSUME NEW r \in Requests, claim(r) PROVE LatchTypeOK'
    BY <1>2 DEF claim
<1>3. ASSUME NEW r \in Requests, HooksDone(r) PROVE LatchTypeOK'
    BY <1>3 DEF HooksDone
<1>4. ASSUME NEW r \in Requests, release(r) PROVE LatchTypeOK'
    BY <1>4 DEF release
<1>5. ASSUME NEW r \in Requests, LatchFails(r) PROVE LatchTypeOK'
    BY <1>5 DEF LatchFails
<1>6. CASE UNCHANGED latchVars
    BY <1>6 DEF latchVars
<1>7. QED
    BY <1>1, <1>2, <1>3, <1>4, <1>5, <1>6 DEF LatchNext, LatchStep

\* Every step keeps the inductive invariant.
LEMMA InvStep ==
    LatchTypeOK /\ LatchInv /\ [LatchNext]_latchVars => LatchInv'
<1> SUFFICES ASSUME LatchTypeOK, LatchInv, [LatchNext]_latchVars PROVE LatchInv'
    OBVIOUS
<1> USE DEF LatchTypeOK, LatchInv, FirstHooksOnce, ClaimIsHeld, ReleaseIsFired,
            OneLoop, Holders, stand, try_claim
<1>1. ASSUME NEW r \in Requests, read_fired(r) PROVE LatchInv'
  <2>1. CASE fired
    BY <1>1, <2>1 DEF read_fired
  <2>2. CASE ~fired /\ threaded
    BY <1>1, <2>2 DEF read_fired
  <2>3. CASE ~fired /\ ~threaded /\ running
    BY <1>1, <2>3 DEF read_fired
  <2>4. CASE ~fired /\ ~threaded /\ ~running
    BY <1>1, <2>4 DEF read_fired
  <2>5. QED
    BY <2>1, <2>2, <2>3, <2>4
<1>2. ASSUME NEW r \in Requests, claim(r) PROVE LatchInv'
    BY <1>2 DEF claim
<1>3. ASSUME NEW r \in Requests, HooksDone(r) PROVE LatchInv'
    BY <1>3 DEF HooksDone
<1>4. ASSUME NEW r \in Requests, release(r) PROVE LatchInv'
    BY <1>4 DEF release
<1>5. ASSUME NEW r \in Requests, LatchFails(r) PROVE LatchInv'
    BY <1>5 DEF LatchFails
<1>6. CASE UNCHANGED latchVars
    BY <1>6 DEF latchVars
<1>7. QED
    BY <1>1, <1>2, <1>3, <1>4, <1>5, <1>6 DEF LatchNext, LatchStep

\* On one event loop the before_first_request hooks run to their end at most
\* once, on any loops never twice at a time, and no request is dispatched
\* before them (_fire_first_request).
THEOREM HooksRunOnce == LatchSpec => []FirstHooksOnce
<1>1. LatchInit => LatchTypeOK /\ LatchInv
  <2> SUFFICES ASSUME LatchInit PROVE LatchTypeOK /\ LatchInv
    OBVIOUS
  <2>1. LatchTypeOK
    BY DEF LatchInit, LatchTypeOK, Places
  <2>2. Holders = {} /\ \A r \in Requests : at[r] = "new"
    BY DEF LatchInit, Holders
  <2>3. ~running /\ ~fired /\ runs = 0
    BY DEF LatchInit
  <2>4. FirstHooksOnce /\ ClaimIsHeld /\ ReleaseIsFired /\ OneLoop
    BY <2>2, <2>3 DEF FirstHooksOnce, ClaimIsHeld, ReleaseIsFired, OneLoop
  <2>5. QED
    BY <2>1, <2>4 DEF LatchInv
<1>2. LatchTypeOK /\ LatchInv /\ [LatchNext]_latchVars => (LatchTypeOK /\ LatchInv)'
    BY TypeStep, InvStep
<1>3. LatchInv => FirstHooksOnce
    BY DEF LatchInv
<1>4. QED
    BY <1>1, <1>2, <1>3, PTL DEF LatchSpec

-----------------------------------------------------------------------------
(* The control of dispatch.                                                 *)

\* An error, inside the try statement or outside.
LEMMA FlowRaised ==
    ASSUME FlowInv, raise, pc \in Before \cup InTry \cup {"post", "error"},
           UNCHANGED <<held, cut, broken>>
    PROVE  FlowInv'
<1> USE DEF FlowInv, Before, InTry, Finally, Done
<1>1. CASE entered /\ ~handling
    BY <1>1 DEF raise
<1>2. CASE entered /\ handling
    BY <1>2 DEF raise
<1>3. CASE ~entered
    BY <1>3 DEF raise
<1>4. QED
    BY <1>1, <1>2, <1>3

\* A response enters the response phase.
LEMMA FlowResponded ==
    ASSUME FlowInv, NEW c, respond(c), pc \in Before \cup InTry \cup {"error"},
           UNCHANGED <<held, cut, broken>>
    PROVE  FlowInv'
BY DEF FlowInv, Before, InTry, Finally, Done, respond

\* One place of the try statement to the next.
LEMMA FlowWent ==
    ASSUME FlowInv, pc \in InTry, pc' \in InTry, held' \in BOOLEAN,
           held' => pc' \notin {"request", "before", "bp_before", "route", "deps"},
           UNCHANGED <<handling, outcome, entered, cut, broken>>
    PROVE  FlowInv'
<1>1. entered /\ ~handling /\ ~cut /\ outcome = "none"
    BY DEF FlowInv, InTry, Finally, Done
<1>2. {entered, handling, cut, broken} \subseteq BOOLEAN
    BY DEF FlowInv
<1>3. entered' /\ ~handling' /\ ~cut' /\ outcome' = "none"
    BY <1>1
<1>4. {entered, handling, held, cut, broken}' \subseteq BOOLEAN
    BY <1>2
<1>5. pc' \notin Before \cup {"error", "leave", "post"} \cup Finally \cup Done
    BY DEF InTry, Before, Finally, Done
<1>6. QED
    BY <1>3, <1>4, <1>5 DEF FlowInv

\* Every step keeps what the control knows.
LEMMA FlowStep == ASSUME FlowInv, [Next]_vars PROVE FlowInv'
<1> USE DEF Before, InTry, Finally, Done, flow, chain, deps, unwinding,
            tryFrame, finallyFrame, go
<1>1. CASE LatchLeft
    BY <1>1 DEF LatchLeft, FlowInv
<1>2. CASE LimitChecked
  <2>1. CASE raise
    BY <1>2, <2>1, FlowRaised DEF LimitChecked
  <2>2. CASE respond(All)
    BY <1>2, <2>2, FlowResponded DEF LimitChecked
  <2>3. CASE ~raise /\ ~respond(All)
    BY <1>2, <2>3 DEF LimitChecked, FlowInv
  <2>4. QED
    BY <2>1, <2>2, <2>3
<1>3. CASE AroundBefore
    BY <1>3 DEF AroundBefore, FlowInv
<1>4. CASE Match
    BY <1>4 DEF Match, FlowInv
<1>5. CASE process_request
  <2>1. CASE raise
    BY <1>5, <2>1, FlowRaised DEF process_request
  <2>2. CASE respond(DynamicChain)
    BY <1>5, <2>2, FlowResponded DEF process_request
  <2>3. CASE ~raise /\ ~respond(DynamicChain)
    BY <1>5, <2>3 DEF process_request, FlowInv
  <2>4. QED
    BY <2>1, <2>2, <2>3
<1>6. CASE before_request_hooks
  <2>1. CASE raise
    BY <1>6, <2>1, FlowRaised DEF before_request_hooks
  <2>2. CASE respond(EarlyChain)
    BY <1>6, <2>2, FlowResponded DEF before_request_hooks
  <2>3. CASE ~raise /\ ~respond(EarlyChain)
    <3>1. pc \in InTry /\ pc' \in InTry
        BY <1>6, <2>3 DEF before_request_hooks
    <3>2. UNCHANGED <<handling, outcome, entered, cut, broken>>
        BY <1>6, <2>3 DEF before_request_hooks
    <3>3. held \in BOOLEAN /\ (held => pc \notin {"request", "before", "bp_before", "route", "deps"})
        BY DEF FlowInv
    <3>4. held' \in BOOLEAN /\ (held' => pc' \notin {"request", "before", "bp_before", "route", "deps"})
        BY <1>6, <2>3, <3>3 DEF before_request_hooks
    <3>5. QED
        BY <3>1, <3>2, <3>4, FlowWent
  <2>4. QED
    BY <2>1, <2>2, <2>3
<1>7. CASE bp_before_hooks
  <2>1. CASE raise
    BY <1>7, <2>1, FlowRaised DEF bp_before_hooks
  <2>2. CASE respond(EarlyChain)
    BY <1>7, <2>2, FlowResponded DEF bp_before_hooks
  <2>3. CASE ~raise /\ ~respond(EarlyChain)
    <3>1. pc \in InTry /\ pc' \in InTry
        BY <1>7, <2>3 DEF bp_before_hooks
    <3>2. UNCHANGED <<handling, outcome, entered, cut, broken>>
        BY <1>7, <2>3 DEF bp_before_hooks
    <3>3. held \in BOOLEAN /\ (held => pc \notin {"request", "before", "bp_before", "route", "deps"})
        BY DEF FlowInv
    <3>4. held' \in BOOLEAN /\ (held' => pc' \notin {"request", "before", "bp_before", "route", "deps"})
        BY <1>7, <2>3, <3>3 DEF bp_before_hooks
    <3>5. QED
        BY <3>1, <3>2, <3>4, FlowWent
  <2>4. QED
    BY <2>1, <2>2, <2>3
<1>8. CASE resolve_route
  <2>1. CASE raise
    BY <1>8, <2>1, FlowRaised DEF resolve_route
  <2>2. CASE respond(DynamicChain)
    BY <1>8, <2>2, FlowResponded DEF resolve_route
  <2>3. CASE respond(PhaseChain)
    BY <1>8, <2>3, FlowResponded DEF resolve_route
  <2>4. CASE ~raise /\ ~respond(DynamicChain) /\ ~respond(PhaseChain)
    <3>1. pc \in InTry /\ pc' \in InTry
        BY <1>8, <2>4 DEF resolve_route
    <3>2. UNCHANGED <<handling, outcome, entered, cut, broken>>
        BY <1>8, <2>4 DEF resolve_route
    <3>3. held \in BOOLEAN /\ (held => pc \notin {"request", "before", "bp_before", "route", "deps"})
        BY DEF FlowInv
    <3>4. held' \in BOOLEAN /\ (held' => pc' \notin {"request", "before", "bp_before", "route", "deps"})
        BY <1>8, <2>4, <3>3 DEF resolve_route
    <3>5. QED
        BY <3>1, <3>2, <3>4, FlowWent
  <2>5. QED
    BY <2>1, <2>2, <2>3, <2>4
<1>9. CASE resolve_dependencies
  <2>1. CASE (raise /\ UNCHANGED deps)
    BY <1>9, <2>1, FlowRaised DEF resolve_dependencies
  <2>2. CASE ~(raise /\ UNCHANGED deps)
    <3>1. pc \in InTry /\ pc' \in InTry
        BY <1>9, <2>2 DEF resolve_dependencies
    <3>2. UNCHANGED <<handling, outcome, entered, cut, broken>>
        BY <1>9, <2>2 DEF resolve_dependencies
    <3>3. held \in BOOLEAN /\ (held => pc \notin {"request", "before", "bp_before", "route", "deps"})
        BY DEF FlowInv
    <3>4. held' \in BOOLEAN /\ (held' => pc' \notin {"request", "before", "bp_before", "route", "deps"})
      <4>1. CASE held' = TRUE /\ pc' = "handler"
        BY <4>1
      <4>2. CASE held' = held /\ pc' = "deps" /\ pc = "deps"
        BY <3>3, <4>2
      <4>3. QED
        BY <1>9, <2>2, <4>1, <4>2 DEF resolve_dependencies
    <3>5. QED
        BY <3>1, <3>2, <3>4, FlowWent
  <2>3. QED
    BY <2>1, <2>2
<1>10. CASE call_handler
  <2>1. CASE raise
    BY <1>10, <2>1, FlowRaised DEF call_handler
  <2>2. CASE ~raise
    <3>1. pc \in InTry /\ pc' \in InTry
        BY <1>10, <2>2 DEF call_handler
    <3>2. UNCHANGED <<handling, outcome, entered, cut, broken>>
        BY <1>10, <2>2 DEF call_handler
    <3>3. held \in BOOLEAN /\ (held => pc \notin {"request", "before", "bp_before", "route", "deps"})
        BY DEF FlowInv
    <3>4. held' \in BOOLEAN /\ (held' => pc' \notin {"request", "before", "bp_before", "route", "deps"})
        BY <1>10, <2>2, <3>3 DEF call_handler
    <3>5. QED
        BY <3>1, <3>2, <3>4, FlowWent
  <2>3. QED
    BY <2>1, <2>2
<1>11. CASE after_hooks
  <2>1. CASE raise
    BY <1>11, <2>1, FlowRaised DEF after_hooks
  <2>2. CASE ~raise
    <3>1. pc \in InTry /\ pc' \in InTry
        BY <1>11, <2>2 DEF after_hooks
    <3>2. UNCHANGED <<handling, outcome, entered, cut, broken>>
        BY <1>11, <2>2 DEF after_hooks
    <3>3. held \in BOOLEAN /\ (held => pc \notin {"request", "before", "bp_before", "route", "deps"})
        BY DEF FlowInv
    <3>4. held' \in BOOLEAN /\ (held' => pc' \notin {"request", "before", "bp_before", "route", "deps"})
        BY <1>11, <2>2, <3>3 DEF after_hooks
    <3>5. QED
        BY <3>1, <3>2, <3>4, FlowWent
  <2>3. QED
    BY <2>1, <2>2
<1>12. CASE schedule_background_tasks
    BY <1>12 DEF schedule_background_tasks, FlowInv, respond
<1>13. CASE process_response
  <2>1. CASE raise
    BY <1>13, <2>1, FlowRaised DEF process_response
  <2>2. CASE ~raise
    BY <1>13, <2>2 DEF process_response, FlowInv
  <2>3. QED
    BY <2>1, <2>2
<1>14. CASE ParseForm
    BY <1>14 DEF ParseForm, FlowInv
<1>15. CASE ErrorAnswered
  <2>1. CASE respond(PhaseChain)
    BY <1>15, <2>1, FlowResponded DEF ErrorAnswered
  <2>2. CASE ~respond(PhaseChain)
    BY <1>15, <2>2 DEF ErrorAnswered, FlowInv
  <2>3. QED
    BY <2>1, <2>2
<1>16. CASE ErrorHandlerRaises
  <2>1. CASE raise
    BY <1>16, <2>1, FlowRaised DEF ErrorHandlerRaises
  <2>2. CASE respond(PhaseChain)
    BY <1>16, <2>2, FlowResponded DEF ErrorHandlerRaises
  <2>3. CASE ~raise /\ ~respond(PhaseChain)
    BY <1>16, <2>3 DEF ErrorHandlerRaises, FlowInv
  <2>4. QED
    BY <2>1, <2>2, <2>3
<1>17. CASE ErrorAnswerUnusable
  <2>1. CASE raise
    BY <1>17, <2>1, FlowRaised DEF ErrorAnswerUnusable
  <2>2. CASE ~raise
    BY <1>17, <2>2 DEF ErrorAnswerUnusable, FlowInv
  <2>3. QED
    BY <2>1, <2>2
<1>18. CASE ErrorUnhandled
  <2>1. CASE raise
    BY <1>18, <2>1, FlowRaised DEF ErrorUnhandled
  <2>2. CASE respond(PhaseChain)
    BY <1>18, <2>2, FlowResponded DEF ErrorUnhandled
  <2>3. CASE respond(DynamicChain)
    BY <1>18, <2>3, FlowResponded DEF ErrorUnhandled
  <2>4. CASE ~raise /\ ~respond(PhaseChain) /\ ~respond(DynamicChain)
    BY <1>18, <2>4 DEF ErrorUnhandled, FlowInv
  <2>5. QED
    BY <2>1, <2>2, <2>3, <2>4
<1>19. CASE run_teardown
    BY <1>19 DEF run_teardown, FlowInv
<1>20. CASE TeardownsDone
    BY <1>20 DEF TeardownsDone, FlowInv, AfterTeardowns
<1>21. CASE teardown_request
    BY <1>21 DEF teardown_request, FlowInv
<1>22. CASE teardown_appcontext
    BY <1>22 DEF teardown_appcontext, FlowInv
<1>23. CASE AroundAfter
    BY <1>23 DEF AroundAfter, FlowInv
<1>24. CASE Finish
    BY <1>24 DEF Finish, FlowInv
<1>25. CASE BackgroundEnds
    BY <1>25 DEF BackgroundEnds, FlowInv
<1>26. CASE Cancel
    BY <1>26 DEF Cancel, FlowInv
<1>27. CASE Latch \/ UNCHANGED vars
    BY <1>27 DEF Latch, vars, FlowInv
<1>28. QED
    BY <1>1, <1>2, <1>3, <1>4, <1>5, <1>6, <1>7, <1>8, <1>9, <1>10, <1>11, <1>12, <1>13, <1>14, <1>15, <1>16, <1>17, <1>18, <1>19, <1>20, <1>21, <1>22, <1>23, <1>24, <1>25, <1>26, <1>27 DEF Next

\* The steps before the finally.
TryAction ==
    \/ LatchLeft \/ LimitChecked \/ AroundBefore \/ Match
    \/ process_request \/ before_request_hooks \/ bp_before_hooks
    \/ resolve_route \/ resolve_dependencies \/ call_handler \/ after_hooks
    \/ schedule_background_tasks \/ process_response \/ ParseForm
    \/ ErrorAnswered \/ ErrorHandlerRaises \/ ErrorAnswerUnusable \/ ErrorUnhandled

\* Where an error or a response leads: on, to the finally, or out of
\* handle_request where no finally is owed.
LEMMA WaysOn ==
    ASSUME FlowInv, pc \notin Finally \cup Done, raise \/ \E c : respond(c)
    PROVE  pc' \in {"error", "post", "teardown"} \/ (pc' = "over" /\ ~entered)
<1>1. CASE raise
    BY <1>1 DEF raise
<1>2. CASE \E c : respond(c)
    BY <1>2 DEF respond
<1>3. QED
    BY <1>1, <1>2

\* Such a step resumes no dependency and runs no teardown hook; it stays in
\* the try statement, or enters the finally, or none is owed.
LEMMA TrySteps ==
    ASSUME FlowInv, TryAction
    PROVE  /\ pc \notin Finally \cup Done
           /\ UNCHANGED <<torn, told, broken, tdRan, bpTdRan, ctxRan, cut>>
           /\ \/ pc' \notin Finally \cup Done
              \/ pc' = "teardown"
              \/ pc' \in Done /\ ~entered /\ ~entered' /\ ~held'
<1> USE DEF Finally, Done, tryFrame, go
<1>1. pc \notin Finally \cup Done
    BY DEF TryAction, LatchLeft, LimitChecked, AroundBefore, Match, process_request,
               before_request_hooks, bp_before_hooks,
               resolve_route, resolve_dependencies,
               call_handler, after_hooks,
               schedule_background_tasks, process_response,
               ParseForm, ErrorAnswered, ErrorHandlerRaises,
               ErrorAnswerUnusable, ErrorUnhandled
<1>2. UNCHANGED <<torn, told, broken, tdRan, bpTdRan, ctxRan, cut>>
    BY DEF TryAction, unwinding, LatchLeft, LimitChecked, AroundBefore, Match,
               process_request, before_request_hooks,
               bp_before_hooks, resolve_route,
               resolve_dependencies, call_handler,
               after_hooks, schedule_background_tasks,
               process_response, ParseForm, ErrorAnswered,
               ErrorHandlerRaises, ErrorAnswerUnusable,
               ErrorUnhandled
<1>3. ~entered => ~held
    BY DEF FlowInv
<1>4. ASSUME raise \/ \E c : respond(c)
      PROVE  \/ pc' \notin Finally \cup Done
             \/ pc' = "teardown"
             \/ pc' \in Done /\ ~entered
    BY <1>1, <1>4, WaysOn
<1>5. ASSUME ~raise, \A c : ~respond(c)
      PROVE  \/ pc' \notin Finally \cup Done
             \/ pc' = "teardown"
             \/ pc' \in Done /\ ~entered
  <2>1. CASE LatchLeft
    BY <1>1, <1>5, <2>1 DEF LatchLeft, FlowInv, Before
  <2>2. CASE LimitChecked
    BY <1>1, <1>5, <2>2 DEF LimitChecked
  <2>3. CASE AroundBefore
    BY <1>1, <1>5, <2>3 DEF AroundBefore, FlowInv, Before
  <2>4. CASE Match
    BY <1>1, <1>5, <2>4 DEF Match
  <2>5. CASE process_request
    BY <1>1, <1>5, <2>5 DEF process_request, flow
  <2>6. CASE before_request_hooks
    BY <1>1, <1>5, <2>6 DEF before_request_hooks
  <2>7. CASE bp_before_hooks
    BY <1>1, <1>5, <2>7 DEF bp_before_hooks
  <2>8. CASE resolve_route
    BY <1>1, <1>5, <2>8 DEF resolve_route
  <2>9. CASE resolve_dependencies
    BY <1>1, <1>5, <2>9 DEF resolve_dependencies, flow
  <2>10. CASE call_handler
    BY <1>1, <1>5, <2>10 DEF call_handler
  <2>11. CASE after_hooks
    BY <1>1, <1>5, <2>11 DEF after_hooks
  <2>12. CASE schedule_background_tasks
    BY <1>1, <1>5, <2>12 DEF schedule_background_tasks
  <2>13. CASE process_response
    BY <1>1, <1>5, <2>13 DEF process_response, flow
  <2>14. CASE ParseForm
    BY <1>1, <1>5, <2>14 DEF ParseForm, flow
  <2>15. CASE ErrorAnswered
    BY <1>1, <1>5, <2>15 DEF ErrorAnswered
  <2>16. CASE ErrorHandlerRaises
    BY <1>1, <1>5, <2>16 DEF ErrorHandlerRaises
  <2>17. CASE ErrorAnswerUnusable
    BY <1>1, <1>5, <2>17 DEF ErrorAnswerUnusable
  <2>18. CASE ErrorUnhandled
    BY <1>1, <1>5, <2>18 DEF ErrorUnhandled
  <2>19. QED
    BY <2>1, <2>2, <2>3, <2>4, <2>5, <2>6, <2>7, <2>8, <2>9, <2>10, <2>11, <2>12, <2>13, <2>14, <2>15, <2>16, <2>17, <2>18 DEF TryAction
<1>6. pc' \in Done => (entered' <=> entered) /\ (held' <=> held)
    BY DEF TryAction, flow, deps, raise, respond, LatchLeft, LimitChecked, AroundBefore, Match,
               process_request, before_request_hooks,
               bp_before_hooks, resolve_route,
               resolve_dependencies, call_handler,
               after_hooks, schedule_background_tasks,
               process_response, ParseForm, ErrorAnswered,
               ErrorHandlerRaises, ErrorAnswerUnusable,
               ErrorUnhandled
<1>7. QED
    BY <1>1, <1>2, <1>3, <1>4, <1>5, <1>6

-----------------------------------------------------------------------------
(* The yield dependencies.                                                  *)

\* A step that starts and resumes none.
LEMMA DepsKept ==
    ASSUME DepsInv, UNCHANGED <<opened, stack, torn>>,
           pc' \notin Finally \cup Done => pc \notin Finally \cup Done,
           held' /\ ~cut' /\ pc' \in (Finally \cup Done) \ {"teardown"} => stack = <<>>
    PROVE  DepsInv'
BY DEF DepsInv

\* Counting up: a dependency more.
LEMMA CountsOn ==
    ASSUME NEW s \in Seq(Nat), \A k \in 1 .. Len(s) : s[k] = k
    PROVE  /\ Len(s) \in Nat
           /\ Append(s, Len(s) + 1) \in Seq(Nat)
           /\ Len(Append(s, Len(s) + 1)) = Len(s) + 1
           /\ \A k \in 1 .. Len(s) + 1 : Append(s, Len(s) + 1)[k] = k
<1>1. Len(s) \in Nat
    BY LenProperties
<1>2. PICK n \in Nat : n = Len(s)
    BY <1>1
<1>3. PICK u : u = Append(s, n + 1)
    OBVIOUS
<1>4. /\ u \in Seq(Nat) /\ Len(u) = n + 1 /\ u[n + 1] = n + 1
      /\ \A k \in 1 .. n : u[k] = s[k]
    BY <1>2, <1>3, AppendProperties
<1>5. ASSUME NEW k \in 1 .. n + 1 PROVE u[k] = k
  <2>1. CASE k = n + 1
    BY <1>4, <2>1
  <2>2. CASE k \in 1 .. n
    BY <1>2, <1>4, <2>2
  <2>3. QED
    BY <2>1, <2>2
<1>6. QED
    BY <1>1, <1>2, <1>3, <1>4, <1>5

\* One less.
LEMMA CountsBack ==
    ASSUME NEW s \in Seq(Nat), s # <<>>, \A k \in 1 .. Len(s) : s[k] = k
    PROVE  /\ Len(s) \in Nat \ {0} /\ Last(s) = Len(s)
           /\ Front(s) \in Seq(Nat) /\ Len(Front(s)) = Len(s) - 1
           /\ \A k \in 1 .. Len(s) - 1 : Front(s)[k] = k
<1>1. Len(s) \in Nat \ {0}
    BY EmptySeq
<1>2. PICK n \in Nat \ {0} : n = Len(s)
    BY <1>1
<1>3. Last(s) = n /\ Front(s) = SubSeq(s, 1, n - 1)
    BY <1>2 DEF Last, Front
<1>4. \A k \in 1 .. n - 1 : s[k] \in Nat
    BY <1>2
<1>5. /\ SubSeq(s, 1, n - 1) \in Seq(Nat)
      /\ Len(SubSeq(s, 1, n - 1)) = IF 1 <= n - 1 THEN n - 1 - 1 + 1 ELSE 0
      /\ \A k \in 1 .. n - 1 - 1 + 1 : SubSeq(s, 1, n - 1)[k] = s[1 + k - 1]
    BY <1>4, SubSeqProperties
<1>6. PICK u : u = SubSeq(s, 1, n - 1)
    OBVIOUS
<1>7. u \in Seq(Nat) /\ Len(u) = n - 1 /\ \A k \in 1 .. n - 1 : u[k] = s[k]
    BY <1>5, <1>6
<1>8. \A k \in 1 .. n - 1 : u[k] = k
    BY <1>2, <1>7
<1>9. QED
    BY <1>1, <1>2, <1>3, <1>6, <1>7, <1>8

\* Counting down from n: the next one is m.
LEMMA CountsDown ==
    ASSUME NEW n \in Nat, NEW m \in 1 .. n, NEW s \in Seq(Nat), Len(s) = n - m,
           \A k \in 1 .. Len(s) : s[k] = n - k + 1
    PROVE  /\ Append(s, m) \in Seq(Nat) /\ Len(Append(s, m)) = n - m + 1
           /\ \A k \in 1 .. n - m + 1 : Append(s, m)[k] = n - k + 1
<1>1. PICK d \in Nat : d = n - m
    OBVIOUS
<1>2. PICK u : u = Append(s, m)
    OBVIOUS
<1>3. /\ u \in Seq(Nat) /\ Len(u) = d + 1 /\ u[d + 1] = m
      /\ \A k \in 1 .. d : u[k] = s[k]
    BY <1>1, <1>2, AppendProperties
<1>4. ASSUME NEW k \in 1 .. d + 1 PROVE u[k] = n - k + 1
  <2>1. CASE k = d + 1
    BY <1>1, <1>3, <2>1
  <2>2. CASE k \in 1 .. d
    BY <1>1, <1>3, <2>2
  <2>3. QED
    BY <2>1, <2>2
<1>5. QED
    BY <1>1, <1>2, <1>3, <1>4

\* Another dependency is started, in the try statement.
LEMMA DepsOpened ==
    ASSUME DepsInv, pc \notin Finally \cup Done, pc' = pc, UNCHANGED torn,
           opened' = Append(opened, Len(opened) + 1),
           stack' = Append(stack, Len(opened) + 1)
    PROVE  DepsInv'
<1>1. /\ opened \in Seq(Nat) /\ stack \in Seq(Nat) /\ torn = <<>>
      /\ \A k \in 1 .. Len(opened) : opened[k] = k
      /\ \A k \in 1 .. Len(stack) : stack[k] = k
    BY DEF DepsInv
<1>2. Len(torn) = 0 /\ Len(stack) \in Nat /\ Len(stack) + Len(torn) = Len(opened)
    BY <1>1, EmptySeq, LenProperties DEF DepsInv
<1>3. Len(stack) = Len(opened)
    BY <1>2
<1>4. /\ opened' \in Seq(Nat) /\ Len(opened') = Len(opened) + 1
      /\ \A k \in 1 .. Len(opened) + 1 : opened'[k] = k
    BY <1>1, CountsOn
<1>5. /\ stack' \in Seq(Nat) /\ Len(stack') = Len(opened) + 1
      /\ \A k \in 1 .. Len(opened) + 1 : stack'[k] = k
    BY <1>1, <1>3, CountsOn
<1>6. torn' = <<>> /\ Len(torn') = 0 /\ torn' \in Seq(Nat)
    BY <1>1, EmptySeq
<1>7. Len(stack') + Len(torn') = Len(opened')
    BY <1>2, <1>3, <1>4, <1>5, <1>6
<1>8. \A k \in 1 .. Len(torn') : FALSE
    BY <1>6
<1>9. pc' \notin Finally \cup Done
    OBVIOUS
<1>10. QED
    BY <1>4, <1>5, <1>6, <1>7, <1>8, <1>9 DEF DepsInv

\* The newest one left is resumed, whether or not it raises.
LEMMA DepsResumed ==
    ASSUME DepsInv, pc = "teardown", pc' = pc, stack # <<>>, UNCHANGED opened,
           torn' = Append(torn, Last(stack)), stack' = Front(stack)
    PROVE  DepsInv'
<1>1. /\ {opened, stack, torn} \subseteq Seq(Nat)
      /\ \A k \in 1 .. Len(opened) : opened[k] = k
      /\ \A k \in 1 .. Len(stack) : stack[k] = k
      /\ \A k \in 1 .. Len(torn) : torn[k] = Len(opened) - k + 1
      /\ Len(stack) + Len(torn) = Len(opened)
    BY DEF DepsInv
<1>2. PICK n \in Nat : n = Len(opened)
    BY <1>1, LenProperties
<1>3. PICK m \in Nat \ {0} : m = Len(stack)
    BY <1>1, EmptySeq
<1>4. Len(torn) \in Nat
    BY <1>1, LenProperties
<1>5. m \in 1 .. n /\ Len(torn) = n - m
    BY <1>1, <1>2, <1>3, <1>4
<1>6. /\ Last(stack) = m /\ stack' \in Seq(Nat) /\ Len(stack') = m - 1
      /\ \A k \in 1 .. m - 1 : stack'[k] = k
    BY <1>1, <1>3, CountsBack
<1>7. /\ torn' \in Seq(Nat) /\ Len(torn') = n - m + 1
      /\ \A k \in 1 .. n - m + 1 : torn'[k] = n - k + 1
  <2>1. torn \in Seq(Nat) /\ torn' = Append(torn, m)
    BY <1>1, <1>6
  <2>2. \A k \in 1 .. Len(torn) : torn[k] = n - k + 1
    BY <1>1, <1>2
  <2>3. QED
    BY <1>5, <2>1, <2>2, CountsDown
<1>8. Len(stack') + Len(torn') = n
    BY <1>6, <1>7
<1>9. pc' = "teardown" /\ pc' \in Finally \cup Done
    BY DEF Finally
<1>10. Len(opened') = n /\ opened' \in Seq(Nat) /\ \A k \in 1 .. n : opened'[k] = k
    BY <1>1, <1>2
<1>11. QED
    BY <1>6, <1>7, <1>8, <1>9, <1>10 DEF DepsInv

\* Every step keeps the order of the dependencies.
LEMMA DepsStep == ASSUME FlowInv, DepsInv, [Next]_vars PROVE DepsInv'
<1>1. CASE TryAction
  <2>1. /\ pc \notin Finally \cup Done /\ UNCHANGED <<torn, cut>>
        /\ \/ pc' \notin Finally \cup Done
           \/ pc' = "teardown"
           \/ pc' \in Done /\ ~held'
    BY <1>1, TrySteps
  <2>2. CASE UNCHANGED <<opened, stack>>
    BY <2>1, <2>2, DepsKept
  <2>3. CASE ~UNCHANGED <<opened, stack>>
    <3>1. resolve_dependencies
        BY <1>1, <2>3 DEF TryAction, tryFrame, deps,
           LatchLeft, LimitChecked, AroundBefore, Match, process_request,
           before_request_hooks, bp_before_hooks, resolve_route,
           call_handler, after_hooks, schedule_background_tasks,
           process_response, ParseForm, ErrorAnswered,
           ErrorHandlerRaises, ErrorAnswerUnusable, ErrorUnhandled
    <3>2. /\ pc' = pc
          /\ opened' = Append(opened, Len(opened) + 1)
          /\ stack' = Append(stack, Len(opened) + 1)
        BY <2>3, <3>1 DEF resolve_dependencies, flow, deps
    <3>3. QED
        BY <2>1, <3>2, DepsOpened
  <2>4. QED
    BY <2>2, <2>3
<1>2. CASE run_teardown
  <2>1. /\ pc = "teardown" /\ pc' = pc /\ stack # <<>> /\ UNCHANGED opened
        /\ torn' = Append(torn, Last(stack)) /\ stack' = Front(stack)
    BY <1>2 DEF run_teardown, LeftAfterFailure, flow, finallyFrame
  <2>2. QED
    BY <2>1, DepsResumed
<1>3. CASE TeardownsDone
  <2>1. /\ pc = "teardown" /\ pc' = "td_hooks" /\ (held => stack = <<>>)
        /\ UNCHANGED <<opened, stack, torn, held>>
    BY <1>3 DEF TeardownsDone, go, AfterTeardowns, unwinding, finallyFrame
  <2>2. QED
    BY <2>1, DepsKept DEF Finally
<1>4. CASE teardown_request \/ teardown_appcontext \/ AroundAfter \/ Finish
  <2>1. /\ pc \in {"td_hooks", "appcontext", "leave", "finish"}
        /\ pc' \in {"appcontext", "leave", "finish", "over"}
        /\ UNCHANGED <<opened, stack, torn, held, cut>>
    BY <1>4 DEF teardown_request, teardown_appcontext, AroundAfter, Finish, go,
                unwinding, finallyFrame
  <2>2. held /\ ~cut => stack = <<>>
    BY <2>1 DEF DepsInv, Finally, Done
  <2>3. QED
    BY <2>1, <2>2, DepsKept DEF Finally, Done
<1>5. CASE Cancel
  <2>1. /\ UNCHANGED <<opened, stack, torn, held, entered>>
        /\ \/ pc \in Finally /\ pc' = "leave" /\ cut'
           \/ pc \in {"leave", "finish"} /\ pc' = "over" /\ cut' = cut
           \/ entered /\ pc \notin Finally \cup Done /\ pc' = "teardown" /\ cut' = cut
           \/ ~entered /\ pc' = "over" /\ cut' = cut
    BY <1>5 DEF Cancel, deps, Finally, Done
  <2>2. ~entered => ~held
    BY DEF FlowInv
  <2>3. pc \in {"leave", "finish"} /\ held /\ ~cut => stack = <<>>
    BY DEF DepsInv, Done
  <2>4. CASE ~entered
    BY <2>1, <2>2, <2>4, DepsKept DEF Finally, Done
  <2>5. CASE entered
    BY <2>1, <2>3, <2>5, DepsKept DEF Finally, Done
  <2>6. QED
    BY <2>4, <2>5 DEF FlowInv
<1>6. CASE BackgroundEnds \/ Latch \/ UNCHANGED vars
  <2>1. UNCHANGED <<opened, stack, torn, held, cut, pc>>
    BY <1>6 DEF BackgroundEnds, Latch, vars, deps, unwinding, flow
  <2>2. QED
    BY <2>1 DEF DepsInv
<1>7. QED
    BY <1>1, <1>2, <1>3, <1>4, <1>5, <1>6 DEF Next, TryAction

-----------------------------------------------------------------------------
(* The teardown hooks and the uploads.                                      *)

\* What the try statement knows of the blueprint.
LEMMA BlueprintStep ==
    ASSUME FlowInv, HooksInv, TryAction
    PROVE  /\ {bp, bpNext}' \subseteq BOOLEAN
           /\ held' => bp'
           /\ pc' = "deps" => bp'
           /\ held' /\ pc' = "post" /\ ~handling' => bpNext'
<1> DEFINE Goal == /\ {bp, bpNext}' \subseteq BOOLEAN
                   /\ held' => bp'
                   /\ pc' = "deps" => bp'
                   /\ held' /\ pc' = "post" /\ ~handling' => bpNext'
<1>0. /\ {bp, bpNext, held, handling} \subseteq BOOLEAN /\ (held => bp)
      /\ pc = "deps" => bp
      /\ held /\ pc = "post" /\ ~handling => bpNext
      /\ held => pc \notin Before \cup {"request", "before", "bp_before", "route", "deps"}
      /\ pc = "error" => handling
    BY DEF HooksInv, FlowInv
<1>1. CASE LatchLeft \/ LimitChecked \/ AroundBefore \/ Match \/ process_request
  <2>1. /\ pc \in Before \cup {"request"} /\ UNCHANGED <<bp, bpNext, held>>
        /\ pc' # "deps"
    BY <1>1 DEF LatchLeft, LimitChecked, AroundBefore, Match, process_request, deps,
                names, Before, go, raise, respond, flow
  <2>2. QED
    BY <1>0, <2>1
<1>2. CASE before_request_hooks \/ bp_before_hooks
  <2>1. /\ pc \in {"before", "bp_before"} /\ UNCHANGED held
        /\ pc' # "deps" /\ bp' \in BOOLEAN /\ bpNext' \in BOOLEAN
    BY <1>0, <1>2 DEF before_request_hooks, bp_before_hooks, deps, names, go, raise,
                      respond
  <2>2. QED
    BY <1>0, <2>1
<1>3. CASE resolve_route
  <2>1. /\ pc = "route" /\ UNCHANGED held /\ bp' \in BOOLEAN /\ bpNext' \in BOOLEAN
        /\ pc' = "deps" => bp' = TRUE
    BY <1>0, <1>3 DEF resolve_route, deps, names, go, raise, respond
  <2>2. QED
    BY <1>0, <2>1
<1>4. CASE resolve_dependencies
  <2>1. pc = "deps" /\ UNCHANGED <<bp, bpNext>> /\ pc' # "post"
    BY <1>4 DEF resolve_dependencies, names, go, raise, flow
  <2>2. QED
    BY <1>0, <2>1
<1>5. CASE call_handler \/ after_hooks
  <2>1. UNCHANGED <<bp, bpNext, held>> /\ pc' \notin {"deps", "post"}
    BY <1>5 DEF call_handler, after_hooks, names, deps, go, raise
  <2>2. QED
    BY <1>0, <2>1
<1>6. CASE schedule_background_tasks
  <2>1. UNCHANGED <<bp, held>> /\ bpNext' = bp /\ pc' = "post"
    BY <1>6 DEF schedule_background_tasks, deps, respond
  <2>2. QED
    BY <1>0, <2>1
<1>7. CASE process_response
  <2>1. pc = "post" /\ UNCHANGED held /\ pc' # "deps"
    BY <1>7 DEF process_response, deps, raise, flow
  <2>2. CASE UNCHANGED <<bp, bpNext>>
    <3>1. pc' = "post" => handling' = handling
        BY <1>7 DEF process_response, raise, flow
    <3>2. QED
        BY <1>0, <2>1, <2>2, <3>1
  <2>3. CASE ~UNCHANGED <<bp, bpNext>>
    <3>1. /\ pc' # "post" /\ UNCHANGED bpNext
          /\ bp' = IF handling \/ ~entered THEN bp ELSE bpNext
        BY <1>7, <2>3 DEF process_response, names, flow
    <3>2. QED
        BY <1>0, <2>1, <3>1
  <2>4. QED
    BY <2>2, <2>3
<1>8. CASE ParseForm
  <2>1. UNCHANGED <<bp, bpNext, held, pc, handling>>
    BY <1>8 DEF ParseForm, names, deps, flow
  <2>2. QED
    BY <1>0, <2>1
<1>9. CASE ErrorAnswered \/ ErrorHandlerRaises \/ ErrorAnswerUnusable \/ ErrorUnhandled
  <2>1. /\ pc = "error" /\ UNCHANGED <<bp, bpNext, held>> /\ pc' # "deps"
        /\ handling' = handling \/ pc' # "post"
    BY <1>9 DEF ErrorAnswered, ErrorHandlerRaises, ErrorAnswerUnusable, ErrorUnhandled,
                names, deps, raise, respond
  <2>2. pc' = "post" => handling'
    BY <1>0, <2>1
  <2>3. QED
    BY <1>0, <2>1, <2>2
<1>10. QED
    BY <1>1, <1>2, <1>3, <1>4, <1>5, <1>6, <1>7, <1>8, <1>9 DEF TryAction

\* Every step keeps what is known of the teardown hooks.
LEMMA HooksStep == ASSUME FlowInv, HooksInv, [Next]_vars PROVE HooksInv'
<1>1. CASE TryAction
  <2>1. /\ pc \notin Finally \cup Done
        /\ UNCHANGED <<tdRan, bpTdRan, ctxRan, cut>>
        /\ \/ pc' \notin Finally \cup Done
           \/ pc' = "teardown"
           \/ pc' \in Done /\ ~entered'
    BY <1>1, TrySteps
  <2>2. tdRan = 0 /\ bpTdRan = 0 /\ ctxRan = 0
    BY <2>1 DEF HooksInv, Finally
  <2>3. pc' # "appcontext" /\ ~Unwound'
    BY <2>1 DEF Finally, Done, Unwound
  <2>4. QED
    BY <1>1, <2>1, <2>2, <2>3, BlueprintStep DEF HooksInv
<1>2. CASE run_teardown \/ TeardownsDone
  <2>1. /\ UNCHANGED <<tdRan, bpTdRan, ctxRan, bp, bpNext, held>>
        /\ pc = "teardown" /\ pc' \in {"teardown", "td_hooks"}
    BY <1>2 DEF run_teardown, TeardownsDone, AfterTeardowns, go, unwinding,
                finallyFrame, names, flow
  <2>2. QED
    BY <2>1 DEF HooksInv, Unwound, Done
<1>3. CASE teardown_request
  <2>1. /\ pc = "td_hooks" /\ pc' = "appcontext" /\ tdRan' = tdRan + 1
        /\ bpTdRan' = IF bp THEN bpTdRan + 1 ELSE bpTdRan
        /\ UNCHANGED <<ctxRan, bp, bpNext, held>>
    BY <1>3 DEF teardown_request, go, finallyFrame, names
  <2>2. tdRan = 0 /\ bpTdRan = 0 /\ ctxRan = 0 /\ (held => bp)
    BY <2>1 DEF HooksInv, Done
  <2>3. tdRan' = 1 /\ bpTdRan' \in {0, 1} /\ ctxRan' = 0 /\ (held' => bpTdRan' = 1)
    BY <2>1, <2>2
  <2>4. {bp, bpNext}' \subseteq BOOLEAN /\ (held' => bp')
    BY <2>1 DEF HooksInv
  <2>5. QED
    BY <2>1, <2>3, <2>4 DEF HooksInv, Unwound, Done
<1>4. CASE teardown_appcontext
  <2>1. /\ pc = "appcontext" /\ pc' = "leave" /\ ctxRan' = ctxRan + 1
        /\ UNCHANGED <<tdRan, bpTdRan, bp, bpNext, held>>
    BY <1>4 DEF teardown_appcontext, finallyFrame, names
  <2>2. ctxRan' = 1 /\ tdRan' = 1 /\ (held' => bpTdRan' = 1) /\ bpTdRan' \in Nat
    BY <2>1 DEF HooksInv
  <2>3. {bp, bpNext}' \subseteq BOOLEAN /\ (held' => bp')
    BY <2>1 DEF HooksInv
  <2>4. QED
    BY <2>1, <2>2, <2>3 DEF HooksInv, Done
<1>5. CASE AroundAfter \/ Finish
  <2>1. /\ pc \in {"leave", "finish"} /\ pc' \in {"finish", "over"}
        /\ UNCHANGED <<tdRan, bpTdRan, ctxRan, cut, entered, bp, bpNext, held>>
    BY <1>5 DEF AroundAfter, Finish, go, unwinding, finallyFrame, names
  <2>2. QED
    BY <2>1 DEF HooksInv, Unwound, Done
<1>6. CASE Cancel
  <2>1. UNCHANGED <<tdRan, bpTdRan, ctxRan, entered, bp, bpNext, held>>
    BY <1>6 DEF Cancel, names, deps
  <2>2. /\ pc' \notin {"appcontext", "deps", "post"}
        /\ pc' \notin Done => pc \notin Finally \cup Done /\ pc' = "teardown"
        /\ Unwound' => Unwound
    BY <1>6 DEF Cancel, Unwound, Finally, Done
  <2>3. QED
    BY <2>1, <2>2 DEF HooksInv, Finally
<1>7. CASE BackgroundEnds \/ Latch \/ UNCHANGED vars
  <2>1. UNCHANGED <<tdRan, bpTdRan, ctxRan, cut, entered, bp, bpNext, held, pc, handling>>
    BY <1>7 DEF BackgroundEnds, Latch, vars, deps, unwinding, flow, names
  <2>2. QED
    BY <2>1 DEF HooksInv, Unwound
<1>8. QED
    BY <1>1, <1>2, <1>3, <1>4, <1>5, <1>6, <1>7 DEF Next, TryAction

\* Every step keeps what is known of the uploads.
LEMMA UploadsStep == ASSUME FlowInv, UploadsInv, [Next]_vars PROVE UploadsInv'
<1>1. CASE TryAction
  <2>1. /\ pc \notin Finally \cup Done
        /\ \/ pc' \notin Finally \cup Done
           \/ pc' = "teardown"
           \/ pc' \in Done /\ ~entered'
    BY <1>1, TrySteps
  <2>2. pc' # "appcontext" /\ ~Unwound'
    BY <2>1 DEF Finally, Done, Unwound
  <2>3. pc \notin {"appcontext"} \cup Done
    BY <2>1 DEF Finally
  <2>4. CASE schedule_background_tasks
    <3>1. /\ pc = "schedule" /\ pc' = "post" /\ bg' \in 0 .. 2 /\ sched' = (bg' > 0)
          /\ captured' = (bg' > 0 /\ form) /\ UNCHANGED <<form, closed>>
        BY <2>4 DEF schedule_background_tasks, respond
    <3>2. ~sched /\ closed = 0 /\ form \in BOOLEAN
        BY <2>3, <3>1 DEF UploadsInv, Finally, Done
    <3>3. CASE bg' > 0
      <4>1. sched' = TRUE /\ captured' = form /\ closed' = 0 /\ bg' # 0
        <5>1. (bg' > 0) = TRUE
            BY <3>3
        <5>2. form = TRUE \/ form = FALSE
            BY <3>2
        <5>3. bg' # 0 /\ closed' = 0
            BY <3>1, <3>2, <3>3
        <5>4. sched' = TRUE
            BY <3>1, <5>1
        <5>5. captured' = form
          <6>1. CASE form = TRUE
            BY <3>1, <5>1, <6>1
          <6>2. CASE form = FALSE
            BY <3>1, <6>2
          <6>3. QED
            BY <5>2, <6>1, <6>2
        <5>6. QED
            BY <5>3, <5>4, <5>5
      <4>2. closed' = IF captured' /\ bg' = 0 THEN 1 ELSE 0
        BY <4>1
      <4>3. QED
        BY <2>2, <3>1, <3>2, <4>1, <4>2 DEF UploadsInv
    <3>4. CASE ~(bg' > 0)
        BY <3>1, <3>2, <3>4, <2>2 DEF UploadsInv
    <3>5. QED
        BY <3>3, <3>4
  <2>5. CASE ParseForm
    <3>1. form' = TRUE /\ UNCHANGED <<sched, captured, bg, closed, pc>>
        BY <2>5 DEF ParseForm, flow
    <3>2. QED
        BY <2>2, <3>1 DEF UploadsInv
  <2>6. CASE ~schedule_background_tasks /\ ~ParseForm
    <3>1. UNCHANGED <<form, sched, captured, bg, closed>>
        BY <1>1, <2>6 DEF TryAction, tryFrame, uploads,
           LatchLeft, LimitChecked, AroundBefore, Match, process_request,
           before_request_hooks, bp_before_hooks, resolve_route,
           resolve_dependencies, call_handler, after_hooks,
           process_response, ErrorAnswered, ErrorHandlerRaises,
           ErrorAnswerUnusable, ErrorUnhandled
    <3>2. pc \in {"post", "error"} => pc' \in {"post", "error", "teardown", "over"}
        BY <1>1 DEF TryAction, respond, raise, flow,
           LatchLeft, LimitChecked, AroundBefore, Match, process_request,
           before_request_hooks, bp_before_hooks, resolve_route,
           resolve_dependencies, call_handler, after_hooks,
           schedule_background_tasks, process_response, ParseForm,
           ErrorAnswered, ErrorHandlerRaises, ErrorAnswerUnusable,
           ErrorUnhandled
    <3>3. sched' => pc' \in {"post", "error"} \cup Finally \cup Done
        BY <2>1, <3>1, <3>2 DEF UploadsInv, Finally, Done
    <3>4. QED
        BY <2>2, <2>3, <3>1, <3>3 DEF UploadsInv
  <2>7. QED
    BY <2>4, <2>5, <2>6
<1>2. CASE run_teardown \/ TeardownsDone
  <2>1. /\ UNCHANGED <<form, sched, captured, bg, closed>>
        /\ pc = "teardown" /\ pc' \in {"teardown", "td_hooks"}
    BY <1>2 DEF run_teardown, TeardownsDone, AfterTeardowns, go, uploads, flow
  <2>2. QED
    BY <2>1 DEF UploadsInv, Unwound, Done, Finally
<1>3. CASE teardown_request
  <2>1. /\ pc = "td_hooks" /\ pc' = "appcontext" /\ UNCHANGED <<form, sched, captured, bg>>
        /\ closed' = IF form /\ ~sched THEN closed + 1 ELSE closed
    BY <1>3 DEF teardown_request, FinallyCloses, go
  <2>2. {form, sched, captured} \subseteq BOOLEAN /\ closed \in 0 .. 1
    BY DEF UploadsInv
  <2>3. CASE sched
    BY <2>1, <2>2, <2>3 DEF UploadsInv, Unwound, Done, Finally
  <2>4. CASE ~sched
    <3>1. closed = 0
        BY <2>1, <2>4 DEF UploadsInv, Done
    <3>2. closed' = IF form THEN 1 ELSE 0
        BY <2>1, <2>4, <3>1
    <3>3. QED
        BY <2>1, <2>4, <3>2 DEF UploadsInv, Unwound, Done, Finally
  <2>5. QED
    BY <2>3, <2>4
<1>4. CASE teardown_appcontext \/ AroundAfter \/ Finish
  <2>1. /\ UNCHANGED <<form, sched, captured, bg, closed, entered>>
        /\ pc' \in {"leave", "finish", "over"}
        /\ pc = "appcontext" \/ (pc \in Done /\ UNCHANGED cut)
    BY <1>4 DEF teardown_appcontext, AroundAfter, Finish, go, uploads, unwinding, Done
  <2>2. Unwound' => pc = "appcontext" \/ Unwound
    BY <2>1 DEF Unwound, Done
  <2>3. pc' \in Done /\ pc' # "appcontext"
    BY <2>1 DEF Done
  <2>4. QED
    BY <2>1, <2>2, <2>3 DEF UploadsInv
<1>5. CASE Cancel
  <2>1. UNCHANGED <<form, sched, captured, bg, closed>>
    BY <1>5 DEF Cancel, uploads
  <2>2. /\ pc' \in {"teardown"} \cup Done
        /\ pc' \notin Done => pc \notin Finally \cup Done
        /\ Unwound' => Unwound
    BY <1>5 DEF Cancel, Unwound, Finally, Done
  <2>3. QED
    BY <2>1, <2>2 DEF UploadsInv, Finally, Done
<1>6. CASE BackgroundEnds
  <2>1. /\ bg > 0 /\ bg' = bg - 1 /\ UNCHANGED <<form, sched, captured, pc>>
        /\ closed' = IF bg = 1 /\ captured THEN closed + 1 ELSE closed
        /\ Unwound' <=> Unwound
    BY <1>6 DEF BackgroundEnds, flow, unwinding, Unwound
  <2>2. /\ bg \in 1 .. 2 /\ sched /\ closed = 0
        /\ {form, sched, captured} \subseteq BOOLEAN
    BY <2>1 DEF UploadsInv
  <2>3. closed' = IF captured /\ bg' = 0 THEN 1 ELSE 0
    BY <2>1, <2>2
  <2>4. bg' \in 0 .. 2
    BY <2>1, <2>2
  <2>5. QED
    BY <2>1, <2>2, <2>3, <2>4 DEF UploadsInv
<1>7. CASE Latch \/ UNCHANGED vars
  <2>1. UNCHANGED <<form, sched, captured, bg, closed, pc, entered, cut>>
    BY <1>7 DEF Latch, vars, uploads, flow, unwinding
  <2>2. QED
    BY <2>1 DEF UploadsInv, Unwound
<1>8. QED
    BY <1>1, <1>2, <1>3, <1>4, <1>5, <1>6, <1>7 DEF Next, TryAction

-----------------------------------------------------------------------------
(* The response phase.                                                      *)

Registered == {Middlewares[n] : n \in DOMAIN Middlewares}

\* A chain read backwards is a chain.
LEMMA Reversed == ASSUME NEW S, NEW c \in Seq(S) PROVE Reverse(c) \in Seq(S)
<1>1. PICK n \in Nat : n = Len(c)
    BY LenProperties
<1>2. \A k \in 1 .. n : c[(n - k) + 1] \in S
    BY <1>1, ElementOfSeq
<1>3. [k \in 1 .. n |-> c[(n - k) + 1]] \in [1 .. n -> S]
    BY <1>2
<1>4. Reverse(c) \in [1 .. n -> S]
    BY <1>1, <1>3 DEF Reverse
<1>5. QED
    BY <1>4, SeqDef

\* One more middleware has passed: what passed and what is left stay the whole.
LEMMA OnePasses ==
    ASSUME NEW S, NEW s \in Seq(S), NEW r \in Seq(S), r # <<>>
    PROVE  /\ Append(s, Head(r)) \in Seq(S) /\ Tail(r) \in Seq(S)
           /\ Append(s, Head(r)) \o Tail(r) = s \o r
<1>1. /\ Head(r) \in S /\ Tail(r) \in Seq(S)
      /\ r = <<Head(r)>> \o Tail(r)
    BY HeadTailProperties
<1>2. <<Head(r)>> \in Seq(S)
    BY <1>1
<1>3. Append(s, Head(r)) = s \o <<Head(r)>> /\ Append(s, Head(r)) \in Seq(S)
    BY <1>1, AppendIsConcat, AppendProperties
<1>4. (s \o <<Head(r)>>) \o Tail(r) = s \o (<<Head(r)>> \o Tail(r))
    BY <1>1, <1>2, ConcatAssociative
<1>5. QED
    BY <1>1, <1>3, <1>4

\* The chains of dispatch are sequences of registered middlewares.
LEMMA Chains == All \in Seq(Registered) /\ DynamicChain \in Seq(Registered)
<1>1. <<>> \in Seq(Registered) /\ Middlewares \in Seq(Registered)
    BY ChainsAssumption, EmptySeq DEF Registered
<1>2. All \in Seq(Registered)
    BY <1>1 DEF All
<1>3. Filtered \in Seq(Registered)
    BY <1>1, ChainsAssumption DEF Filtered, Registered
<1>4. QED
    BY <1>2, <1>3 DEF DynamicChain

\* Every step keeps what is known of the response phase.
LEMMA ChainStep == ASSUME FlowInv, ChainInv, [Next]_vars PROVE ChainInv'
<1> DEFINE Wholes == {Reverse(All), Reverse(DynamicChain)}
<1>0. {seen, rest} \subseteq Seq(Registered) /\ (pc = "post" => seen \o rest \in Wholes)
    BY DEF ChainInv, Registered
<1>1. Wholes \subseteq Seq(Registered)
    BY Chains, Reversed
<1>2. ASSUME NEW c \in {All, DynamicChain}, respond(c), UNCHANGED config
      PROVE  ChainInv'
  <2>1. rest' = Reverse(c) /\ seen' = <<>> /\ pc' = "post" /\ UNCHANGED stash
    BY <1>2 DEF respond
  <2>2. rest' \in Wholes /\ rest' \in Seq(Registered) /\ seen' \in Seq(Registered)
    BY <1>1, <1>2, <2>1, EmptySeq
  <2>3. Wholes' = Wholes
    BY <1>2, <2>1 DEF All, DynamicChain, Filtered
  <2>4. seen' \o rest' = rest'
    BY <2>1, <2>2, ConcatEmptySeq
  <2>5. QED
    BY <2>1, <2>2, <2>3, <2>4 DEF ChainInv, Registered, Finally
<1>3. ASSUME UNCHANGED <<seen, rest, stash, config>>, pc' # "post",
             pc' \in Finally \cup {"leave"} /\ outcome' = "returned" =>
                 pc \in Finally \cup {"leave"} /\ outcome = "returned"
      PROVE  ChainInv'
  <2>1. Wholes' = Wholes
    BY <1>3 DEF All, DynamicChain, Filtered
  <2>2. QED
    BY <1>3, <2>1 DEF ChainInv
<1>4. ASSUME raise, pc \notin Finally \cup Done, UNCHANGED config
      PROVE  ChainInv'
  <2>1. /\ UNCHANGED <<seen, rest, stash>> /\ pc' \in {"error", "teardown", "over"}
        /\ outcome' \in {outcome, "raised"}
    BY <1>4 DEF raise, chain
  <2>2. outcome = "none"
    BY <1>4 DEF FlowInv
  <2>3. QED
    BY <1>3, <1>4, <2>1, <2>2
<1>5. CASE TryAction /\ (raise \/ respond(All) \/ respond(DynamicChain))
  <2>1. pc \notin Finally \cup Done
    BY <1>5, TrySteps
  <2>2. UNCHANGED config
    BY <1>5 DEF TryAction, tryFrame,
           LatchLeft, LimitChecked, AroundBefore, Match, process_request,
           before_request_hooks, bp_before_hooks, resolve_route,
           resolve_dependencies, call_handler, after_hooks,
           schedule_background_tasks, process_response, ParseForm,
           ErrorAnswered, ErrorHandlerRaises, ErrorAnswerUnusable,
           ErrorUnhandled
  <2>3. QED
    BY <1>2, <1>4, <1>5, <2>1, <2>2
<1>6. CASE TryAction /\ ~(raise \/ respond(All) \/ respond(DynamicChain))
  <2>1. PhaseChain \in {All, DynamicChain} /\ EarlyChain = DynamicChain
    BY DEF PhaseChain, EarlyChain
  <2>2. CASE Match
    <3>1. /\ UNCHANGED <<seen, rest, config>> /\ pc' \in {"request", "handler"}
        BY <2>2 DEF Match, tryFrame
    <3>2. QED
        BY <1>0, <3>1 DEF ChainInv, Registered, Finally
  <2>3. CASE process_response
    <3>1. CASE /\ rest # <<>> /\ UNCHANGED <<flow, stash>>
               /\ rest' = Tail(rest) /\ seen' = Append(seen, Head(rest))
      <4>1. pc = "post" /\ pc' = pc /\ outcome' = outcome /\ UNCHANGED config
        BY <2>3, <3>1 DEF process_response, flow
      <4>2. Wholes' = Wholes
        BY <3>1, <4>1 DEF All, DynamicChain, Filtered
      <4>3. /\ seen' \in Seq(Registered) /\ rest' \in Seq(Registered)
            /\ seen' \o rest' = seen \o rest
        BY <1>0, <3>1, OnePasses
      <4>4. QED
        BY <1>0, <4>1, <4>2, <4>3 DEF ChainInv, Registered, Finally
    <3>2. CASE /\ rest = <<>> /\ outcome' = "returned" /\ UNCHANGED <<chain, entered>>
               /\ pc' = IF entered THEN "teardown" ELSE "over"
      <4>1. pc = "post" /\ UNCHANGED <<config, stash, seen, rest>>
        BY <2>3, <3>2 DEF process_response, chain
      <4>2. seen \o rest = seen
        BY <1>0, <3>2, ConcatEmptySeq
      <4>3. Wholes' = Wholes
        BY <4>1 DEF All, DynamicChain, Filtered
      <4>4. QED
        BY <1>0, <3>2, <4>1, <4>2, <4>3 DEF ChainInv, Registered, Finally
    <3>3. QED
        BY <1>6, <2>3, <3>1, <3>2 DEF process_response, flow
  <2>4. CASE ParseForm
    <3>1. UNCHANGED <<seen, rest, stash, config, pc, outcome>>
        BY <2>4 DEF ParseForm, chain, flow
    <3>2. Wholes' = Wholes
        BY <3>1 DEF All, DynamicChain, Filtered
    <3>3. QED
        BY <3>1, <3>2 DEF ChainInv
  <2>5. CASE ~Match /\ ~process_response /\ ~ParseForm
    <3>1. CASE respond(PhaseChain) \/ respond(EarlyChain)
        BY <1>6, <2>1, <3>1
    <3>2. CASE ~respond(PhaseChain) /\ ~respond(EarlyChain)
      <4>1. UNCHANGED <<seen, rest, stash, config>>
        BY <1>6, <2>5, <3>2 DEF TryAction, tryFrame, chain, go,
           LatchLeft, LimitChecked, AroundBefore, process_request,
           before_request_hooks, bp_before_hooks, resolve_route,
           resolve_dependencies, call_handler, after_hooks,
           schedule_background_tasks, ErrorAnswered,
           ErrorHandlerRaises, ErrorAnswerUnusable, ErrorUnhandled
      <4>2. pc' # "post" /\ pc' \notin Finally \cup {"leave"}
        BY <1>6, <2>5, <3>2 DEF TryAction, go, flow, Finally,
           LatchLeft, LimitChecked, AroundBefore, process_request,
           before_request_hooks, bp_before_hooks, resolve_route,
           resolve_dependencies, call_handler, after_hooks,
           schedule_background_tasks, ErrorAnswered,
           ErrorHandlerRaises, ErrorAnswerUnusable, ErrorUnhandled
      <4>3. QED
        BY <1>3, <4>1, <4>2
    <3>3. QED
        BY <3>1, <3>2
  <2>6. QED
    BY <2>2, <2>3, <2>4, <2>5
<1>7. CASE run_teardown \/ TeardownsDone \/ teardown_request \/ teardown_appcontext
           \/ AroundAfter \/ Finish
  <2>1. UNCHANGED <<seen, rest, stash, config>>
    BY <1>7 DEF run_teardown, TeardownsDone, teardown_request, teardown_appcontext,
                AroundAfter, Finish, finallyFrame, chain
  <2>2. /\ pc' # "post"
        /\ pc' \in Finally \cup {"leave"} /\ outcome' = "returned" =>
               pc \in Finally \cup {"leave"} /\ outcome = "returned"
    BY <1>7 DEF run_teardown, TeardownsDone, teardown_request, teardown_appcontext,
                AroundAfter, Finish, go, flow, AfterTeardowns, Finally
  <2>3. QED
    BY <1>3, <2>1, <2>2
<1>8. CASE Cancel
  <2>1. UNCHANGED <<seen, rest, stash, config>> /\ outcome' = "cancelled" /\ pc' # "post"
    BY <1>8 DEF Cancel, chain
  <2>2. QED
    BY <1>3, <2>1
<1>9. CASE BackgroundEnds \/ Latch \/ UNCHANGED vars
  <2>1. UNCHANGED <<seen, rest, stash, config, pc, outcome>>
    BY <1>9 DEF BackgroundEnds, Latch, vars, chain, flow
  <2>2. Wholes' = Wholes
    BY <2>1 DEF All, DynamicChain, Filtered
  <2>3. QED
    BY <2>1, <2>2 DEF ChainInv
<1>10. QED
    BY <1>5, <1>6, <1>7, <1>8, <1>9 DEF Next, TryAction

-----------------------------------------------------------------------------
(* The errors.                                                              *)

\* Every step keeps what is known of an error on its way out.
LEMMA ErrorStep == ASSUME FlowInv, ErrorInv, [Next]_vars PROVE ErrorInv'
<1>1. CASE TryAction
  <2>1. pc \notin Finally \cup Done /\ pc' # "leave" /\ pc' \notin Finally \ {"teardown"}
    <3>1. pc \notin Finally \cup Done
        BY <1>1, TrySteps
    <3>2. ~entered => pc' # "leave"
        BY <1>1 DEF TryAction, raise, respond, go, flow,
           LatchLeft, LimitChecked, AroundBefore, Match, process_request,
           before_request_hooks, bp_before_hooks, resolve_route,
           resolve_dependencies, call_handler, after_hooks,
           schedule_background_tasks, process_response, ParseForm,
           ErrorAnswered, ErrorHandlerRaises, ErrorAnswerUnusable,
           ErrorUnhandled
    <3>3. \/ pc' \notin Finally \cup Done \/ pc' = "teardown"
          \/ pc' \in Done /\ ~entered
        BY <1>1, TrySteps
    <3>4. QED
        BY <3>1, <3>2, <3>3 DEF Finally, Done
  <2>2. outcome = "none"
    BY <2>1 DEF FlowInv
  <2>3. secondary' \in BOOLEAN /\ UNCHANGED config
    BY <1>1 DEF TryAction, tryFrame, ErrorInv, FlowInv,
           LatchLeft, LimitChecked, AroundBefore, Match, process_request,
           before_request_hooks, bp_before_hooks, resolve_route,
           resolve_dependencies, call_handler, after_hooks,
           schedule_background_tasks, process_response, ParseForm,
           ErrorAnswered, ErrorHandlerRaises, ErrorAnswerUnusable,
           ErrorUnhandled
  <2>4. CASE ~(pc' = "teardown" /\ outcome' = "raised")
    BY <2>1, <2>3, <2>4 DEF ErrorInv, Finally
  <2>5. CASE pc' = "teardown" /\ outcome' = "raised"
    <3>1. raise /\ entered /\ handling
      <4>1. raise
        BY <1>1, <2>2, <2>5 DEF TryAction, respond, go, flow,
           LatchLeft, LimitChecked, AroundBefore, Match, process_request,
           before_request_hooks, bp_before_hooks, resolve_route,
           resolve_dependencies, call_handler, after_hooks,
           schedule_background_tasks, process_response, ParseForm,
           ErrorAnswered, ErrorHandlerRaises, ErrorAnswerUnusable,
           ErrorUnhandled
      <4>2. QED
        BY <2>2, <2>5, <4>1 DEF raise
    <3>2. pc \notin InTry \cup Before
        BY <3>1 DEF FlowInv
    <3>3. process_response \/ ErrorHandlerRaises
          \/ ErrorAnswerUnusable \/ ErrorUnhandled
        BY <1>1, <2>2, <2>5, <3>2 DEF TryAction, InTry, Before, respond, flow,
           LatchLeft, LimitChecked, AroundBefore, Match, process_request,
           before_request_hooks, bp_before_hooks, resolve_route,
           resolve_dependencies, call_handler, after_hooks,
           schedule_background_tasks, ParseForm, ErrorAnswered
    <3>4. CASE process_response
        BY <2>2, <2>3, <2>5, <3>1, <3>4 DEF process_response, ErrorInv, flow
    <3>5. CASE ErrorHandlerRaises
      <4>1. config.propagate
        BY <2>5, <3>5 DEF ErrorHandlerRaises, HandlerErrorEscapes, respond
      <4>2. QED
        BY <2>3, <4>1 DEF ErrorInv
    <3>6. CASE ErrorAnswerUnusable
        BY <2>3, <3>6 DEF ErrorAnswerUnusable, ErrorInv
    <3>7. CASE ErrorUnhandled
      <4>1. config.propagate
        BY <2>5, <3>7 DEF ErrorUnhandled, respond
      <4>2. QED
        BY <2>3, <4>1 DEF ErrorInv
    <3>8. QED
        BY <3>3, <3>4, <3>5, <3>6, <3>7
  <2>6. QED
    BY <2>4, <2>5
<1>2. CASE run_teardown \/ TeardownsDone \/ teardown_request \/ teardown_appcontext
           \/ AroundAfter \/ Finish
  <2>1. UNCHANGED <<secondary, config>>
    BY <1>2 DEF run_teardown, TeardownsDone, teardown_request, teardown_appcontext,
                AroundAfter, Finish, finallyFrame
  <2>2. pc' \in Finally \cup {"leave"} /\ outcome' = "raised" =>
           config.propagate \/ (pc \in Finally \cup {"leave"} /\ outcome = "raised")
    BY <1>2 DEF run_teardown, TeardownsDone, teardown_request, teardown_appcontext,
                AroundAfter, Finish, go, flow, AfterTeardowns, Finally
  <2>3. QED
    BY <2>1, <2>2 DEF ErrorInv
<1>3. CASE Cancel
  <2>1. UNCHANGED <<secondary, config>> /\ outcome' = "cancelled"
    BY <1>3 DEF Cancel
  <2>2. QED
    BY <2>1 DEF ErrorInv
<1>4. CASE BackgroundEnds \/ Latch \/ UNCHANGED vars
  <2>1. UNCHANGED <<secondary, config, pc, outcome>>
    BY <1>4 DEF BackgroundEnds, Latch, vars, flow
  <2>2. QED
    BY <2>1 DEF ErrorInv
<1>5. QED
    BY <1>1, <1>2, <1>3, <1>4 DEF Next, TryAction

-----------------------------------------------------------------------------
(* The theorems.                                                            *)

DispatchInv ==
    FlowInv /\ DepsInv /\ HooksInv /\ UploadsInv /\ ChainInv /\ ErrorInv

\* All of it is an invariant of dispatch.
LEMMA DispatchInvariant == Spec => []DispatchInv
<1>1. Init => DispatchInv
  <2> SUFFICES ASSUME Init PROVE DispatchInv
    OBVIOUS
  <2>1. FlowInv
    BY DEF Init, FlowInv, Before, InTry, Finally, Done
  <2>2. <<>> \in Seq(Nat) /\ <<>> \in Seq(Registered) /\ Len(<<>>) = 0
    BY EmptySeq
  <2>3. DepsInv
    BY <2>2 DEF Init, DepsInv, Finally, Done
  <2>4. HooksInv
    <3>1. /\ pc = "latch" /\ tdRan = 0 /\ bpTdRan = 0 /\ ctxRan = 0
          /\ bp = FALSE /\ bpNext = FALSE /\ held = FALSE
        BY DEF Init
    <3>2. pc \notin {"deps", "post", "appcontext"} \cup Done /\ ~Unwound
        BY <3>1 DEF Unwound, Done
    <3>3. ~held /\ bp \in BOOLEAN /\ bpNext \in BOOLEAN
        BY <3>1, Zenon
    <3>4. {tdRan, ctxRan, bpTdRan} \subseteq Nat
        BY <3>1, SMT
    <3>5. QED
        BY <3>1, <3>2, <3>3, <3>4, Zenon DEF HooksInv
  <2>5. UploadsInv
    <3>1. /\ pc = "latch" /\ bg = 0 /\ closed = 0
          /\ form = FALSE /\ sched = FALSE /\ captured = FALSE
        BY DEF Init
    <3>2. pc # "appcontext" /\ ~Unwound
        BY <3>1 DEF Unwound, Done
    <3>3. /\ ~form /\ ~sched /\ ~captured
          /\ form \in BOOLEAN /\ sched \in BOOLEAN /\ captured \in BOOLEAN
        BY <3>1, Zenon
    <3>4. bg \in 0 .. 2 /\ closed \in 0 .. 1
        BY <3>1, SMT
    <3>5. QED
        BY <3>1, <3>2, <3>3, <3>4, Zenon DEF UploadsInv
  <2>6. ChainInv
    BY <2>2 DEF Init, ChainInv, Registered, Finally
  <2>7. ErrorInv
    BY DEF Init, ErrorInv, Finally
  <2>8. QED
    BY <2>1, <2>3, <2>4, <2>5, <2>6, <2>7 DEF DispatchInv
<1>2. DispatchInv /\ [Next]_vars => DispatchInv'
    BY FlowStep, DepsStep, HooksStep, UploadsStep, ChainStep, ErrorStep DEF DispatchInv
<1>3. QED
    BY <1>1, <1>2, PTL DEF Spec

\* Dispatch leaves the latch of the first request as FirstRequest describes it.
THEOREM DispatchKeepsLatch == Spec => LatchSpec
<1>1. Init => LatchInit
    BY DEF Init
<1>2. [Next]_vars => [LatchNext]_latchVars
  <2>1. TryAction => UNCHANGED latchVars
    BY DEF TryAction, tryFrame,
           LatchLeft, LimitChecked, AroundBefore, Match, process_request,
           before_request_hooks, bp_before_hooks, resolve_route,
           resolve_dependencies, call_handler, after_hooks,
           schedule_background_tasks, process_response, ParseForm,
           ErrorAnswered, ErrorHandlerRaises, ErrorAnswerUnusable,
           ErrorUnhandled
  <2>2. (run_teardown \/ TeardownsDone \/ teardown_request \/ teardown_appcontext
           \/ AroundAfter \/ Finish \/ BackgroundEnds \/ Cancel) => UNCHANGED latchVars
    BY DEF run_teardown, TeardownsDone, teardown_request, teardown_appcontext,
           AroundAfter, Finish, BackgroundEnds, Cancel, finallyFrame
  <2>3. Latch => LatchNext
    BY DEF Latch
  <2>4. UNCHANGED vars => UNCHANGED latchVars
    BY DEF vars
  <2>5. QED
    BY <2>1, <2>2, <2>3, <2>4 DEF Next, TryAction
<1>3. QED
    BY <1>1, <1>2, PTL DEF Spec, LatchSpec

\* In dispatch too the before_first_request hooks run as HooksRunOnce says.
THEOREM DispatchRunsHooksOnce == Spec => []FirstHooksOnce
BY DispatchKeepsLatch, HooksRunOnce, PTL

\* For any number of yield dependencies: once the local resolver is bound,
\* every one that was started is resumed, newest first, whatever fails.
THEOREM DependenciesAreTornDown == Spec => []HeldAreTornDown
<1>1. DispatchInv => HeldAreTornDown
  <2> SUFFICES ASSUME DispatchInv, Unwound, held PROVE torn = Reverse(opened)
    BY DEF HeldAreTornDown
  <2>1. stack = <<>> /\ {opened, stack, torn} \subseteq Seq(Nat)
    BY DEF DispatchInv, DepsInv, Unwound, Done, Finally
  <2>2. PICK n \in Nat : n = Len(opened)
    BY <2>1, LenProperties
  <2>3. Len(stack) = 0 /\ Len(torn) \in Nat
    BY <2>1, EmptySeq, LenProperties
  <2>4. Len(torn) = n
    BY <2>2, <2>3 DEF DispatchInv, DepsInv
  <2>5. \A k \in 1 .. n : torn[k] = n - k + 1 /\ opened[k] = k
    BY <2>2, <2>4 DEF DispatchInv, DepsInv
  <2>6. \A k \in 1 .. n : torn[k] = opened[(n - k) + 1]
    BY <2>5
  <2>7. torn = [k \in 1 .. n |-> torn[k]]
    BY <2>1, <2>4, LenProperties
  <2>8. torn = [k \in 1 .. n |-> opened[(n - k) + 1]]
    BY <2>6, <2>7
  <2>9. QED
    BY <2>2, <2>8 DEF Reverse
<1>2. QED
    BY <1>1, DispatchInvariant, PTL

\* For any chain of middlewares and any the route excludes: what dispatch
\* returns has passed a whole chain, last registered first.
THEOREM ResponsesPassTheChain == Spec => []ResponseThroughChain
<1>1. DispatchInv => ResponseThroughChain
    BY DEF DispatchInv, ChainInv, ResponseThroughChain
<1>2. QED
    BY <1>1, DispatchInvariant, PTL

\* The teardown hooks run once, whatever failed or answered early.
THEOREM TeardownHooksRunOnce == Spec => []TeardownHooksRun
<1>1. DispatchInv => TeardownHooksRun
    BY DEF DispatchInv, HooksInv, TeardownHooksRun
<1>2. QED
    BY <1>1, DispatchInvariant, PTL

\* The uploads are closed once, by the finally or by the last background task.
THEOREM UploadsAreReleased == Spec => []UploadsReleased
<1>1. DispatchInv => UploadsReleased
  <2> SUFFICES ASSUME UploadsInv PROVE UploadsReleased
    BY DEF DispatchInv
  <2>1. {form, sched, captured} \subseteq BOOLEAN /\ bg \in 0 .. 2 /\ closed \in 0 .. 1
    BY DEF UploadsInv
  <2>2. closed > 0 => bg = 0
    BY <2>1 DEF UploadsInv
  <2>3. (Unwound /\ form /\ bg = 0 /\ (sched => captured)) => closed = 1
    <3>1. CASE sched
        BY <2>1, <3>1 DEF UploadsInv
    <3>2. CASE ~sched
        BY <2>1, <3>2 DEF UploadsInv
    <3>3. QED
        BY <3>1, <3>2
  <2>4. QED
    BY <2>1, <2>2, <2>3 DEF UploadsReleased
<1>2. QED
    BY <1>1, DispatchInvariant, PTL

\* Without PROPAGATE_EXCEPTIONS an error leaves dispatch only after a second
\* one met the answer to it.
THEOREM ErrorsAreAnswered == Spec => []ErrorsAnswered
<1>1. DispatchInv => ErrorsAnswered
    BY DEF DispatchInv, ErrorInv, ErrorsAnswered
<1>2. QED
    BY <1>1, DispatchInvariant, PTL
=============================================================================
