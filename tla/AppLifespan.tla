---------------------------- MODULE AppLifespan ----------------------------
(***************************************************************************)
(* The lifespan engine of an application (app/lifecycle.py): startup       *)
(* acquires the lifespans, the mounted sub-applications and the watchdog,  *)
(* a failure unwinds what was acquired, shutdown drains the background     *)
(* tasks (SpawnedTasks) and tears everything down.  Each step of the       *)
(* engine is what it does from one await to the next; tasks and user code  *)
(* run in between.  Event handlers are one step each, whatever they do     *)
(* except for the tasks they spawn.                                        *)
(***************************************************************************)
EXTENDS SpawnedTasks, Sequences

CONSTANTS
    Lifespans,  \* lifespan= and the add_lifespan factories
    Subs,       \* mounted Veloce sub-applications
    Handlers,   \* on_shutdown handlers
    Watchdog,   \* EVENT_LOOP_WATCHDOG is configured
    Native      \* the native server runs shutdown after a failed startup

ASSUME LifespanAssumption ==
    /\ {Lifespans, Subs, Handlers} \subseteq Nat
    /\ {Watchdog, Native} \subseteq BOOLEAN

VARIABLES
    pc,         \* where the engine stands
    stack,      \* what the exit stack will exit, oldest first
    subsUp,     \* the sub-applications that are up
    started,    \* _started_subapps
    ran,        \* on_shutdown handlers run so far
    errors      \* teardown failures collected so far

engineVars == <<stack, subsUp, started, ran, errors>>
vars == <<taskVars, pc, engineVars>>

Init ==
    /\ TasksInit
    /\ pc = "off"
    /\ stack = <<>> /\ subsUp = {} /\ started = <<>>
    /\ ran = 0 /\ errors = 0

-----------------------------------------------------------------------------
(* Startup.                                                                 *)

\* The first startup, or another one (a test client, a live server).
BeginStartup ==
    /\ pc = "off" \/ (pc = "failed" /\ ~Native)
    /\ pc' = "lifespans"
    /\ stack' = <<>>
    /\ UNCHANGED <<taskVars, subsUp, started, ran, errors>>

\* The next lifespan is entered, or raises.
EnterLifespan ==
    /\ pc = "lifespans" /\ Len(stack) < Lifespans
    /\ \/ stack' = Append(stack, [lifespan |-> Len(stack) + 1]) /\ UNCHANGED pc
       \/ pc' = "failSubs" /\ UNCHANGED stack
    /\ UNCHANGED <<taskVars, subsUp, started, ran, errors>>

LifespansEntered ==
    /\ pc = "lifespans" /\ Len(stack) = Lifespans
    /\ pc' = "onStartup"
    /\ UNCHANGED <<taskVars, engineVars>>

\* The on_startup handlers have run, or one raised.
StartupHandlersDone ==
    /\ pc = "onStartup"
    /\ \/ pc' = "subs" /\ started' = <<>>
       \/ pc' = "failSubs" /\ UNCHANGED started
    /\ UNCHANGED <<taskVars, stack, subsUp, ran, errors>>

\* A sub-application comes up, or fails and unwinds itself.
SubStarts ==
    /\ pc = "subs" /\ Len(started) < Subs
    /\ LET s == Len(started) + 1 IN
         \/ /\ subsUp' = subsUp \cup {s}
            /\ started' = Append(started, s)
            /\ UNCHANGED pc
         \/ /\ pc' = "failSubs"
            /\ UNCHANGED <<subsUp, started>>
    /\ UNCHANGED <<taskVars, stack, ran, errors>>

\* The watchdog is pushed, the audit passes or fails the boot.
StartupEnds ==
    /\ pc = "subs" /\ Len(started) = Subs
    /\ stack' = IF Watchdog THEN Append(stack, [lifespan |-> 0]) ELSE stack
    /\ pc' \in {"up", "failSubs"}
    /\ UNCHANGED <<taskVars, subsUp, started, ran, errors>>

\* The children that came up go down again, newest first.
FailUnwindsSubs ==
    /\ pc = "failSubs"
    /\ IF started = <<>>
         THEN pc' = "failStack" /\ UNCHANGED <<subsUp, started>>
         ELSE /\ subsUp' = subsUp \ {started[Len(started)]}
              /\ started' = SubSeq(started, 1, Len(started) - 1)
              /\ UNCHANGED pc

FailSubs ==
    /\ FailUnwindsSubs
    /\ UNCHANGED <<taskVars, stack, ran, errors>>

\* Mutant: the oldest exits first.
PopOldest == Tail(stack)

PopNewest == SubSeq(stack, 1, Len(stack) - 1)

\* Mutant: the unwinding ends with the first exit.
FailStackOnce ==
    /\ pc = "failStack"
    /\ pc' = "failed"
    /\ stack' = IF stack = <<>> THEN stack ELSE PopNewest
    /\ UNCHANGED <<taskVars, subsUp, started, ran, errors>>

FailStack ==
    /\ pc = "failStack"
    /\ IF stack = <<>> THEN pc' = "failed" /\ UNCHANGED stack
                       ELSE stack' = PopNewest /\ UNCHANGED pc
    /\ UNCHANGED <<taskVars, subsUp, started, ran, errors>>

-----------------------------------------------------------------------------
(* Shutdown.                                                                *)

BeginShutdown ==
    /\ pc = "up" \/ (pc = "failed" /\ Native)
    /\ pc' = "drain1"
    /\ ran' = 0 /\ errors' = 0
    /\ UNCHANGED <<taskVars, stack, subsUp, started>>

\* A drain with nothing registered returns at once.
AfterDrain == IF pc = "drain1" THEN "shutSubs" ELSE "off"

DrainBegins ==
    /\ pc \in {"drain1", "drain2"} /\ awaited = {}
    /\ DrainCancels
    /\ pc' = IF Registered = {} THEN AfterDrain ELSE pc
    /\ UNCHANGED engineVars

DrainEnds ==
    /\ pc \in {"drain1", "drain2"}
    /\ DrainClears
    /\ pc' = AfterDrain
    /\ UNCHANGED engineVars

\* A teardown that raises is collected, and the next one runs.
Collect == errors' \in {errors, errors + 1}

ShutSubs ==
    /\ pc = "shutSubs"
    /\ IF started = <<>>
         THEN pc' = "onShutdown" /\ UNCHANGED <<subsUp, started, errors>>
         ELSE /\ subsUp' = subsUp \ {started[Len(started)]}
              /\ started' = SubSeq(started, 1, Len(started) - 1)
              /\ Collect
              /\ UNCHANGED pc
    /\ UNCHANGED <<taskVars, stack, ran>>

\* Mutant: a handler that raises ends the sequence.
AllHandlersRanOrRaised == ran = Handlers \/ errors > 0

AllHandlersRan == ran = Handlers

\* The on_shutdown handlers, newest first.
OnShutdown ==
    /\ pc = "onShutdown"
    /\ IF AllHandlersRan
         THEN pc' = "close" /\ UNCHANGED <<ran, errors>>
         ELSE Collect /\ ran' = ran + 1 /\ UNCHANGED pc
    /\ UNCHANGED <<taskVars, stack, subsUp, started>>

AfterClose == "drain2"

CloseStack ==
    /\ pc = "close"
    /\ IF stack = <<>>
         THEN pc' = AfterClose /\ UNCHANGED <<stack, errors>>
         ELSE stack' = PopNewest /\ Collect /\ UNCHANGED pc
    /\ UNCHANGED <<taskVars, subsUp, started, ran>>

-----------------------------------------------------------------------------
(* User code: what a lifespan, an event handler, a request or a task does.  *)

UserCodeRuns ==
    \/ pc \in {"lifespans", "onStartup", "up", "onShutdown", "close",
               "failStack"}
    \/ Running # {}

UserSpawns ==
    /\ UserCodeRuns
    /\ \E t \in Tasks, n \in Names \cup {None} : spawn(t, n)
    /\ UNCHANGED <<pc, engineVars>>

UserCancels ==
    /\ UserCodeRuns
    /\ \E n \in Names : cancel_spawned_task(n)
    /\ UNCHANGED <<pc, engineVars>>

TaskStep ==
    /\ \E t \in Tasks : TaskEnds(t) \/ spawned_task_done(t)
    /\ UNCHANGED <<pc, engineVars>>

Engine ==
    \/ EnterLifespan \/ LifespansEntered \/ StartupHandlersDone
    \/ SubStarts \/ StartupEnds \/ FailSubs \/ FailStack
    \/ DrainBegins \/ DrainEnds \/ ShutSubs \/ OnShutdown \/ CloseStack

Next ==
    \/ BeginStartup \/ BeginShutdown
    \/ Engine
    \/ UserSpawns \/ UserCancels \/ TaskStep

Spec == Init /\ [][Next]_vars

\* The engine goes on, user callbacks return, asyncio.wait honours its timeout.
FairSpec == Spec /\ WF_vars(Engine)
-----------------------------------------------------------------------------
(* What the engine promises.                                                *)

Rest == {"off", "up", "failed"}

\* The type of every variable.
TypeOK ==
    /\ TasksType
    /\ pc \in Rest \cup {"lifespans", "onStartup", "subs", "failSubs",
                         "failStack", "drain1", "shutSubs", "onShutdown",
                         "close", "drain2"}
    /\ stack \in Seq([lifespan : 0 .. Lifespans])
    /\ subsUp \subseteq 1 .. Subs /\ started \in Seq(1 .. Subs)
    /\ ran \in 0 .. Handlers /\ errors \in Nat

\* The loop cannot collect a task in flight (spawn): a running task is in a
\* registry, unless a drain gave it up.  A late callback of a task that was
\* given up must not take the entry of its name's next holder.
RunningIsTracked == Running \subseteq Registered \cup dropped

\* A failed startup leaves neither a lifespan, a sub-application nor the
\* watchdog behind (_run_startup's except branch).
FailedStartupUnwinds == pc = "failed" => stack = <<>> /\ subsUp = {}

\* Whatever raised during shutdown, everything was torn down before the last
\* drain (_run_shutdown, _shutdown_subapps).
NoTeardownSkipped ==
    pc = "drain2" => ran = Handlers /\ stack = <<>> /\ subsUp = {}

\* The newest entry of the exit stack leaves first, and none leaves while a
\* sub-application is up that may use it.
TeardownOrder ==
    [][Len(stack') < Len(stack) =>
          /\ subsUp = {}
          /\ \A i \in DOMAIN stack' : stack'[i] = stack[i]]_vars

\* Before the first child closes, and again before shutdown ends, every
\* running task was asked to stop; only one spawned while a drain was waiting
\* escapes (see SpawnedAreDrained).
TasksAskedToStop ==
    [][(pc # pc' /\ pc' \in {"shutSubs", "off"}) =>
          Running \subseteq asked' \cup late]_vars

\* Startup and shutdown both come to an end, even when a task ignores its
\* cancellation (GRACEFUL_TASK_TIMEOUT).
EngineSettles == (pc \notin Rest) ~> (pc \in Rest)

-----------------------------------------------------------------------------
(* What docstrings say, and the code does not keep.                         *)

\* A spawned task is cancelled and drained at shutdown (spawn).
SpawnedAreDrained == [][(pc # "off" /\ pc' = "off") => Running \subseteq asked']_vars

\* A partially started app leaves nothing running (_run_startup).
FailedStartupLeavesNothing == pc = "failed" => Running = {}
=============================================================================
