--------------------------- MODULE LifecycleProofs ---------------------------
(***************************************************************************)
(* The life of an application and of the server around it.                 *)
(* The lifespan engine, for any number of lifespans, sub-applications,     *)
(* shutdown handlers and background tasks: what a failed startup and a     *)
(* shutdown leave behind, the order of the teardown, and what becomes of   *)
(* the tasks.  The engine's invariant and the tasks' invariant are         *)
(* independent of each other; both are inductive on top of TypeOK.         *)
(* The server, for every number of connections and every cap: its          *)
(* connection counter is exact and stays under the cap, and a connection   *)
(* told to stop serves at most one more request.                           *)
(***************************************************************************)
EXTENDS AppLifespan, ServerShutdown, SequenceTheorems, FiniteSetTheorems, TLAPS

-----------------------------------------------------------------------------
(* The lifespan engine.                                                     *)

\* _started_subapps lists the children that are up, in the order they came.
StartedAreUp ==
    /\ \A i \in DOMAIN started : started[i] = i
    /\ subsUp = 1 .. Len(started)

\* The children are down wherever the engine has unwound them.
SubsDown ==
    pc \in {"off", "lifespans", "onStartup", "failStack", "failed",
            "onShutdown", "close", "drain2"} => started = <<>>

\* The exit stack is empty wherever the engine has closed it.
StackClosed == pc \in {"off", "failed", "drain2"} => stack = <<>>

\* While lifespans are entered the stack holds nothing else.
StackFilling == pc = "lifespans" => Len(stack) <= Lifespans

\* All handlers have run once the stack is being closed.
HandlersDone == pc \in {"close", "drain2"} => ran = Handlers

EngineInv ==
    StartedAreUp /\ SubsDown /\ StackClosed /\ StackFilling /\ HandlersDone

\* What a drain waits for was asked to stop; what it finds registered when it
\* is over was waited for or came late; what it gave up was asked or late.
AwaitedAsked == awaited \subseteq asked
RegisteredWaited == awaited # {} => Registered \subseteq awaited \cup late
DroppedAsked == dropped \subseteq asked \cup late

TasksInv == RunningIsTracked /\ AwaitedAsked /\ RegisteredWaited /\ DroppedAsked

-----------------------------------------------------------------------------
(* Sequences and the tasks' registries.                                     *)

\* What the exit stack and _started_subapps go through: one entry more at the
\* end.
LEMMA Pushed ==
    ASSUME NEW S, NEW s \in Seq(S), NEW e \in S
    PROVE  /\ Append(s, e) \in Seq(S) /\ Len(Append(s, e)) = Len(s) + 1
           /\ \A i \in 1 .. Len(s) : Append(s, e)[i] = s[i]
           /\ Append(s, e)[Len(s) + 1] = e
BY AppendProperties

\* One entry less at the end.
LEMMA Pops ==
    ASSUME NEW S, NEW s \in Seq(S), s # <<>>
    PROVE  /\ SubSeq(s, 1, Len(s) - 1) \in Seq(S)
           /\ Len(SubSeq(s, 1, Len(s) - 1)) = Len(s) - 1
           /\ \A i \in 1 .. Len(s) - 1 : SubSeq(s, 1, Len(s) - 1)[i] = s[i]
<1>1. Len(s) - 1 \in Nat
    BY LenProperties, EmptySeq
<1>2. \A i \in 1 .. Len(s) - 1 : s[i] \in S
    BY <1>1, ElementOfSeq
<1> DEFINE n == Len(s) - 1
<1>3. /\ SubSeq(s, 1, n) \in Seq(S)
      /\ Len(SubSeq(s, 1, n)) = IF 1 <= n THEN n - 1 + 1 ELSE 0
      /\ \A i \in 1 .. n - 1 + 1 : SubSeq(s, 1, n)[i] = s[1 + i - 1]
  <2> HIDE DEF n
  <2>1. n \in Int /\ \A i \in 1 .. n : s[i] \in S
    BY <1>1, <1>2 DEF n
  <2>2. QED
    BY <2>1, SubSeqProperties
<1> HIDE DEF n
<1>4. n \in Nat
    BY <1>1 DEF n
<1>5. /\ SubSeq(s, 1, n) \in Seq(S) /\ Len(SubSeq(s, 1, n)) = n
      /\ \A i \in 1 .. n : SubSeq(s, 1, n)[i] = s[i]
    BY <1>3, <1>4
<1>6. QED
    BY <1>5 DEF n

\* Every step keeps the registries' types.
LEMMA TaskTypes ==
    ASSUME TasksType,
           \/ \E t \in Tasks, n \in Names \cup {None} : spawn(t, n)
           \/ \E n \in Names : cancel_spawned_task(n)
           \/ \E t \in Tasks : TaskEnds(t) \/ spawned_task_done(t)
           \/ DrainCancels \/ DrainClears \/ UNCHANGED taskVars
    PROVE  TasksType'
<1> USE DEF TasksType
<1>1. Registered \subseteq Tasks
    BY DEF Registered
<1>2. ASSUME NEW t \in Tasks, NEW n \in Names \cup {None}, spawn(t, n)
      PROVE  TasksType'
    BY <1>2 DEF spawn
<1>3. ASSUME NEW n \in Names, cancel_spawned_task(n) PROVE TasksType'
    BY <1>3 DEF cancel_spawned_task
<1>4. ASSUME NEW t \in Tasks, TaskEnds(t) PROVE TasksType'
    BY <1>4 DEF TaskEnds
<1>5. ASSUME NEW t \in Tasks, spawned_task_done(t) PROVE TasksType'
    BY <1>5 DEF spawned_task_done, Forget
<1>6. CASE DrainCancels
    BY <1>1, <1>6 DEF DrainCancels
<1>7. CASE DrainClears
    BY <1>1, <1>7 DEF DrainClears
<1>8. CASE UNCHANGED taskVars
    BY <1>8 DEF taskVars
<1>9. QED
    BY <1>2, <1>3, <1>4, <1>5, <1>6, <1>7, <1>8

\* Every step of the engine or of user code keeps the tasks' invariant.
LEMMA TaskStepInv ==
    ASSUME TasksType, TasksInv,
           \/ \E t \in Tasks, n \in Names \cup {None} : spawn(t, n)
           \/ \E n \in Names : cancel_spawned_task(n)
           \/ \E t \in Tasks : TaskEnds(t) \/ spawned_task_done(t)
           \/ DrainCancels \/ DrainClears \/ UNCHANGED taskVars
    PROVE  TasksInv'
<1> USE DEF TasksType, TasksInv, RunningIsTracked, AwaitedAsked,
            RegisteredWaited, DroppedAsked
<1>1. None \notin Tasks /\ None \notin Names
    BY TaskAssumption
<1>2. ASSUME NEW t \in Tasks, NEW n \in Names \cup {None}, spawn(t, n)
      PROVE  TasksInv'
  <2>1. Registered' = Registered \cup {t}
    <3>1. CASE n = None
        BY <1>1, <1>2, <3>1 DEF spawn, Registered
    <3>2. CASE n # None
        BY <1>1, <1>2, <3>2 DEF spawn, Registered
    <3>3. QED
        BY <3>1, <3>2
  <2>2. Running' \subseteq Running \cup {t}
    BY <1>2 DEF spawn, Running
  <2>3. /\ UNCHANGED <<asked, awaited, dropped>>
        /\ late' = IF awaited = {} THEN late ELSE late \cup {t}
    BY <1>2 DEF spawn
  <2>4. QED
    BY <2>1, <2>2, <2>3
<1>3. ASSUME NEW n \in Names, cancel_spawned_task(n) PROVE TasksInv'
    BY <1>3 DEF cancel_spawned_task, Registered, Running
<1>4. ASSUME NEW t \in Tasks, TaskEnds(t) PROVE TasksInv'
    BY <1>4 DEF TaskEnds, Registered, Running
<1>5. ASSUME NEW t \in Tasks, spawned_task_done(t) PROVE TasksInv'
  <2>1. Registered' \subseteq Registered /\ Registered \subseteq Registered' \cup {t}
    BY <1>1, <1>5 DEF spawned_task_done, Forget, Registered
  <2>2. Running' = Running /\ t \notin Running
    BY <1>5 DEF spawned_task_done, Running
  <2>3. UNCHANGED <<asked, awaited, late, dropped>>
    BY <1>5 DEF spawned_task_done
  <2>4. QED
    BY <2>1, <2>2, <2>3
<1>6. CASE DrainCancels
    BY <1>6 DEF DrainCancels, Registered, Running
<1>7. CASE DrainClears
  <2>1. Running' = Running /\ Registered' = {}
    BY <1>7 DEF DrainClears, Registered, Running
  <2>2. dropped' = dropped \cup (Registered \cap Running)
    BY <1>7 DEF DrainClears
  <2>3. awaited # {} /\ awaited' = {} /\ UNCHANGED <<asked, late>>
    BY <1>7 DEF DrainClears
  <2>4. QED
    BY <2>1, <2>2, <2>3
<1>8. CASE UNCHANGED taskVars
    BY <1>8 DEF taskVars, Registered, Running
<1>9. QED
    BY <1>2, <1>3, <1>4, <1>5, <1>6, <1>7, <1>8

\* No step does anything else to the tasks.
LEMMA StepsOfTasks ==
    ASSUME [Next]_vars
    PROVE  \/ \E t \in Tasks, n \in Names \cup {None} : spawn(t, n)
           \/ \E n \in Names : cancel_spawned_task(n)
           \/ \E t \in Tasks : TaskEnds(t) \/ spawned_task_done(t)
           \/ DrainCancels \/ DrainClears \/ UNCHANGED taskVars
<1>1. CASE BeginStartup \/ BeginShutdown \/ EnterLifespan \/ LifespansEntered
            \/ StartupHandlersDone \/ SubStarts \/ StartupEnds
    BY <1>1 DEF BeginStartup, BeginShutdown, EnterLifespan, LifespansEntered,
                StartupHandlersDone, SubStarts, StartupEnds
<1>2. CASE FailSubs \/ FailStack \/ ShutSubs \/ OnShutdown \/ CloseStack
    BY <1>2 DEF FailSubs, FailStack, ShutSubs, OnShutdown, CloseStack
<1>3. CASE DrainBegins \/ DrainEnds
    BY <1>3 DEF DrainBegins, DrainEnds
<1>4. CASE UserSpawns \/ UserCancels \/ TaskStep
    BY <1>4 DEF UserSpawns, UserCancels, TaskStep
<1>5. CASE UNCHANGED vars
    BY <1>5 DEF vars
<1>6. QED
    BY <1>1, <1>2, <1>3, <1>4, <1>5 DEF Next, Engine

-----------------------------------------------------------------------------
(* The engine.                                                              *)

EngineType ==
    /\ pc \in Rest \cup {"lifespans", "onStartup", "subs", "failSubs",
                         "failStack", "drain1", "shutSubs", "onShutdown",
                         "close", "drain2"}
    /\ stack \in Seq([lifespan : 0 .. Lifespans])
    /\ subsUp \subseteq 1 .. Subs /\ started \in Seq(1 .. Subs)
    /\ ran \in 0 .. Handlers /\ errors \in Nat

\* A child more at the end of _started_subapps.
LEMMA SubUp ==
    ASSUME EngineType, StartedAreUp, Len(started) < Subs,
           started' = Append(started, Len(started) + 1),
           subsUp' = subsUp \cup {Len(started) + 1}
    PROVE  started' \in Seq(1 .. Subs) /\ subsUp' \subseteq 1 .. Subs /\ StartedAreUp'
<1> DEFINE n == Len(started)
<1>1. n \in Nat /\ n + 1 \in 1 .. Subs
    BY LenProperties, LifespanAssumption DEF EngineType
<1>2. /\ started' \in Seq(1 .. Subs) /\ Len(started') = n + 1
      /\ \A i \in 1 .. n : started'[i] = started[i]
      /\ started'[n + 1] = n + 1
      /\ DOMAIN started = 1 .. n
    BY <1>1, Pushed, LenProperties DEF EngineType
<1>3. DOMAIN started' = 1 .. n + 1
    BY <1>2, LenProperties
<1>4. QED
    BY <1>1, <1>2, <1>3 DEF StartedAreUp, EngineType

\* The newest child goes down.
LEMMA SubDown ==
    ASSUME EngineType, StartedAreUp, started # <<>>,
           started' = SubSeq(started, 1, Len(started) - 1),
           subsUp' = subsUp \ {started[Len(started)]}
    PROVE  started' \in Seq(1 .. Subs) /\ subsUp' \subseteq 1 .. Subs /\ StartedAreUp'
<1> DEFINE n == Len(started)
<1>1. n \in Nat \ {0} /\ DOMAIN started = 1 .. n
    BY LenProperties, EmptySeq DEF EngineType
<1>2. started[n] = n /\ n \in 1 .. Subs
    BY <1>1, ElementOfSeq DEF StartedAreUp, EngineType
<1>3. /\ started' \in Seq(1 .. Subs) /\ Len(started') = n - 1
      /\ \A i \in 1 .. n - 1 : started'[i] = started[i]
    BY <1>1, Pops DEF EngineType
<1>4. DOMAIN started' = 1 .. n - 1
    BY <1>3, LenProperties
<1>5. QED
    BY <1>1, <1>2, <1>3, <1>4 DEF StartedAreUp, EngineType

\* An entry of the exit stack is left.
LEMMA Popped ==
    ASSUME EngineType, stack # <<>>
    PROVE  /\ PopNewest \in Seq([lifespan : 0 .. Lifespans])
           /\ \A i \in DOMAIN PopNewest : PopNewest[i] = stack[i]
<1>1. stack \in Seq([lifespan : 0 .. Lifespans])
    BY DEF EngineType
<1>2. /\ PopNewest \in Seq([lifespan : 0 .. Lifespans])
      /\ Len(PopNewest) = Len(stack) - 1
      /\ \A i \in 1 .. Len(stack) - 1 : PopNewest[i] = stack[i]
    BY <1>1, Pops DEF PopNewest
<1>3. QED
    BY <1>2, LenProperties

\* Every step keeps the engine's types and its invariant.
LEMMA EngineStep ==
    ASSUME EngineType, EngineInv, [Next]_vars
    PROVE  EngineType' /\ EngineInv'
<1> USE DEF EngineInv, SubsDown, StackClosed, StackFilling, HandlersDone
<1>0. /\ Lifespans \in Nat /\ Subs \in Nat /\ Handlers \in Nat
      /\ Len(stack) \in Nat /\ Len(started) \in Nat
      /\ stack = <<>> <=> Len(stack) = 0
      /\ started = <<>> <=> Len(started) = 0
    BY LifespanAssumption, LenProperties, EmptySeq DEF EngineType
<1>1. CASE BeginStartup
    BY <1>0, <1>1 DEF BeginStartup, EngineType, StartedAreUp, Rest
<1>2. CASE BeginShutdown
    BY <1>0, <1>2 DEF BeginShutdown, EngineType, StartedAreUp, Rest
<1>3. CASE EnterLifespan
  <2>1. CASE /\ stack' = Append(stack, [lifespan |-> Len(stack) + 1])
             /\ UNCHANGED pc
    <3>1. [lifespan |-> Len(stack) + 1] \in [lifespan : 0 .. Lifespans]
        BY <1>0, <1>3 DEF EnterLifespan
    <3>2. /\ stack' \in Seq([lifespan : 0 .. Lifespans])
          /\ Len(stack') = Len(stack) + 1
        BY <2>1, <3>1, Pushed DEF EngineType
    <3>3. QED
        BY <1>0, <1>3, <2>1, <3>2 DEF EnterLifespan, EngineType, StartedAreUp, Rest
  <2>2. CASE pc' = "failSubs" /\ UNCHANGED stack
    BY <1>0, <1>3, <2>2 DEF EnterLifespan, EngineType, StartedAreUp, Rest
  <2>3. QED
    BY <1>3, <2>1, <2>2 DEF EnterLifespan
<1>4. CASE LifespansEntered
    BY <1>0, <1>4 DEF LifespansEntered, engineVars, EngineType, StartedAreUp, Rest
<1>5. CASE StartupHandlersDone
    BY <1>0, <1>5 DEF StartupHandlersDone, EngineType, StartedAreUp, Rest
<1>6. CASE SubStarts
  <2>1. CASE subsUp' = subsUp
    <3>1. pc' = "failSubs" /\ UNCHANGED <<stack, subsUp, started, ran, errors>>
      <4>1. subsUp' = subsUp \cup {Len(started) + 1} => Len(started) + 1 \in subsUp
        BY <2>1
      <4>2. Len(started) + 1 \notin subsUp
        BY <1>0 DEF StartedAreUp
      <4>3. QED
        BY <1>6, <4>1, <4>2 DEF SubStarts
    <3>2. QED
      BY <1>0, <3>1 DEF EngineType, StartedAreUp
  <2>2. CASE subsUp' # subsUp
    <3>1. /\ started' = Append(started, Len(started) + 1)
          /\ subsUp' = subsUp \cup {Len(started) + 1}
          /\ Len(started) < Subs
          /\ UNCHANGED <<pc, stack, ran, errors>> /\ pc = "subs"
        BY <1>6, <2>2 DEF SubStarts
    <3>2. started' \in Seq(1 .. Subs) /\ subsUp' \subseteq 1 .. Subs /\ StartedAreUp'
        BY <3>1, SubUp
    <3>3. QED
        BY <3>1, <3>2 DEF EngineType
  <2>3. QED
    BY <2>1, <2>2
<1>7. CASE StartupEnds
  <2>1. stack' \in Seq([lifespan : 0 .. Lifespans])
    <3>1. [lifespan |-> 0] \in [lifespan : 0 .. Lifespans]
        BY <1>0
    <3>2. QED
        BY <1>7, <3>1, Pushed DEF StartupEnds, EngineType
  <2>2. QED
    BY <1>0, <1>7, <2>1 DEF StartupEnds, EngineType, StartedAreUp, Rest
<1>8. CASE FailSubs
  <2>1. CASE started = <<>>
    BY <1>0, <1>8, <2>1 DEF FailSubs, FailUnwindsSubs, EngineType, StartedAreUp, Rest
  <2>2. CASE started # <<>>
    <3>1. /\ started' = SubSeq(started, 1, Len(started) - 1)
          /\ subsUp' = subsUp \ {started[Len(started)]}
          /\ UNCHANGED <<pc, stack, ran, errors>> /\ pc = "failSubs"
        BY <1>8, <2>2 DEF FailSubs, FailUnwindsSubs
    <3>2. started' \in Seq(1 .. Subs) /\ subsUp' \subseteq 1 .. Subs /\ StartedAreUp'
        BY <2>2, <3>1, SubDown
    <3>3. QED
        BY <3>1, <3>2 DEF EngineType
  <2>3. QED
    BY <2>1, <2>2
<1>9. CASE FailStack
  <2>1. CASE stack = <<>>
    BY <1>0, <1>9, <2>1 DEF FailStack, EngineType, StartedAreUp, Rest
  <2>2. CASE stack # <<>>
    <3>1. stack' \in Seq([lifespan : 0 .. Lifespans])
        BY <1>9, <2>2, Popped DEF FailStack
    <3>2. QED
        BY <1>0, <1>9, <2>2, <3>1 DEF FailStack, EngineType, StartedAreUp, Rest
  <2>3. QED
    BY <2>1, <2>2
<1>10. CASE DrainBegins \/ DrainEnds
  <2>1. pc \in {"drain1", "drain2"} /\ pc' \in {pc, AfterDrain}
    BY <1>10 DEF DrainBegins, DrainEnds
  <2>2. UNCHANGED <<stack, subsUp, started, ran, errors>>
    BY <1>10 DEF DrainBegins, DrainEnds, engineVars
  <2>3. QED
    BY <1>0, <2>1, <2>2 DEF AfterDrain, EngineType, StartedAreUp, Rest
<1>11. CASE ShutSubs
  <2>1. CASE started = <<>>
    BY <1>0, <1>11, <2>1 DEF ShutSubs, EngineType, StartedAreUp, Rest
  <2>2. CASE started # <<>>
    <3>1. /\ started' = SubSeq(started, 1, Len(started) - 1)
          /\ subsUp' = subsUp \ {started[Len(started)]}
          /\ errors' \in {errors, errors + 1}
          /\ UNCHANGED <<pc, stack, ran>> /\ pc = "shutSubs"
        BY <1>11, <2>2 DEF ShutSubs, Collect
    <3>2. started' \in Seq(1 .. Subs) /\ subsUp' \subseteq 1 .. Subs /\ StartedAreUp'
        BY <2>2, <3>1, SubDown
    <3>3. QED
        BY <3>1, <3>2 DEF EngineType
  <2>3. QED
    BY <2>1, <2>2
<1>12. CASE OnShutdown
  <2>1. errors' \in Nat
    BY <1>12 DEF OnShutdown, Collect, EngineType
  <2>2. QED
    BY <1>0, <1>12, <2>1 DEF OnShutdown, AllHandlersRan, EngineType, StartedAreUp, Rest
<1>13. CASE CloseStack
  <2>1. CASE stack = <<>>
    BY <1>0, <1>13, <2>1 DEF CloseStack, AfterClose, EngineType, StartedAreUp, Rest
  <2>2. CASE stack # <<>>
    <3>1. stack' \in Seq([lifespan : 0 .. Lifespans])
        BY <1>13, <2>2, Popped DEF CloseStack
    <3>2. errors' \in Nat
        BY <1>13, <2>2 DEF CloseStack, Collect, EngineType
    <3>3. QED
        BY <1>0, <1>13, <2>2, <3>1, <3>2 DEF CloseStack, EngineType, StartedAreUp, Rest
  <2>3. QED
    BY <2>1, <2>2
<1>14. CASE UserSpawns \/ UserCancels \/ TaskStep \/ UNCHANGED vars
  <2>1. UNCHANGED <<pc, stack, subsUp, started, ran, errors>>
    BY <1>14 DEF UserSpawns, UserCancels, TaskStep, engineVars, vars
  <2>2. QED
    BY <2>1 DEF EngineType, StartedAreUp
<1>15. QED
    BY <1>1, <1>2, <1>3, <1>4, <1>5, <1>6, <1>7, <1>8, <1>9, <1>10, <1>11, <1>12,
       <1>13, <1>14 DEF Next, Engine

-----------------------------------------------------------------------------
(* The theorems.                                                            *)

LifeInv == EngineType /\ EngineInv /\ TasksType /\ TasksInv

\* The engine's and the tasks' invariants hold together in every behaviour.
LEMMA LifeInvariant == Spec => []LifeInv
<1>1. Init => LifeInv
  <2> SUFFICES ASSUME Init PROVE LifeInv
    OBVIOUS
  <2>1. <<>> \in Seq([lifespan : 0 .. Lifespans]) /\ <<>> \in Seq(1 .. Subs)
    BY EmptySeq
  <2>2. EngineType /\ EngineInv
    BY <2>1, LifespanAssumption, LenProperties, EmptySeq
       DEF Init, EngineType, EngineInv, StartedAreUp, SubsDown, StackClosed,
           StackFilling, HandlersDone, Rest
  <2>3. TasksType
    BY DEF Init, TasksInit, TasksType
  <2>4. TasksInv
    BY DEF Init, TasksInit, TasksInv, RunningIsTracked, AwaitedAsked,
           RegisteredWaited, DroppedAsked, Running
  <2>5. QED
    BY <2>2, <2>3, <2>4 DEF LifeInv
<1>2. LifeInv /\ [Next]_vars => LifeInv'
    BY EngineStep, StepsOfTasks, TaskTypes, TaskStepInv DEF LifeInv
<1>3. QED
    BY <1>1, <1>2, PTL DEF Spec

\* Every variable keeps its type, for any number of lifespans, children,
\* handlers and tasks.
THEOREM LifespanTypes == Spec => []TypeOK
<1>1. LifeInv => TypeOK
    BY DEF LifeInv, EngineType, TypeOK
<1>2. QED
    BY <1>1, LifeInvariant, PTL

\* However many teardowns raise, _run_shutdown reaches its last drain only
\* after every handler ran, every child was shut down and the exit stack was
\* closed.
THEOREM TeardownIsWhole == Spec => []NoTeardownSkipped
<1>1. LifeInv => NoTeardownSkipped
  <2> SUFFICES ASSUME LifeInv, pc = "drain2"
               PROVE  ran = Handlers /\ stack = <<>> /\ subsUp = {}
    BY DEF NoTeardownSkipped
  <2>1. started = <<>> /\ Len(started) = 0
    BY EmptySeq DEF LifeInv, EngineInv, SubsDown
  <2>2. QED
    BY <2>1 DEF LifeInv, EngineInv, StartedAreUp, StackClosed, HandlersDone
<1>2. QED
    BY <1>1, LifeInvariant, PTL

\* A startup that fails, wherever it fails, has unwound what it acquired.
THEOREM FailedStartupIsUnwound == Spec => []FailedStartupUnwinds
<1>1. LifeInv => FailedStartupUnwinds
  <2> SUFFICES ASSUME LifeInv, pc = "failed" PROVE stack = <<>> /\ subsUp = {}
    BY DEF FailedStartupUnwinds
  <2>1. started = <<>> /\ Len(started) = 0
    BY EmptySeq DEF LifeInv, EngineInv, SubsDown
  <2>2. QED
    BY <2>1 DEF LifeInv, EngineInv, StartedAreUp, StackClosed
<1>2. QED
    BY <1>1, LifeInvariant, PTL

\* The exit stack is left newest first, and only once the children are down.
THEOREM TornDownInOrder == Spec => TeardownOrder
<1>1. LifeInv /\ [Next]_vars =>
          [Len(stack') < Len(stack) =>
              /\ subsUp = {}
              /\ \A i \in DOMAIN stack' : stack'[i] = stack[i]]_vars
  <2> SUFFICES ASSUME LifeInv, [Next]_vars, Len(stack') < Len(stack)
               PROVE  /\ subsUp = {}
                      /\ \A i \in DOMAIN stack' : stack'[i] = stack[i]
    OBVIOUS
  <2>1. EngineType /\ EngineInv /\ Len(stack) \in Nat
    BY LenProperties DEF LifeInv, EngineType
  <2>2. Len(<<>>) = 0
    BY EmptySeq
  <2>3. ~BeginStartup
    BY <2>1, <2>2 DEF BeginStartup, EngineInv, StackClosed
  <2>4. ~EnterLifespan
    <3>1. SUFFICES ASSUME EnterLifespan PROVE FALSE
        OBVIOUS
    <3>2. [lifespan |-> Len(stack) + 1] \in [lifespan : 0 .. Lifespans]
        BY <2>1, <3>1, LifespanAssumption DEF EnterLifespan
    <3>3. Len(stack') \in {Len(stack), Len(stack) + 1}
        BY <3>1, <3>2, Pushed, <2>1 DEF EnterLifespan, EngineType
    <3>4. QED
        BY <2>1, <3>3
  <2>5. ~StartupEnds
    <3>1. SUFFICES ASSUME StartupEnds PROVE FALSE
        OBVIOUS
    <3>2. [lifespan |-> 0] \in [lifespan : 0 .. Lifespans]
        BY LifespanAssumption
    <3>3. Len(stack') \in {Len(stack), Len(stack) + 1}
        BY <3>1, <3>2, Pushed, <2>1 DEF StartupEnds, EngineType
    <3>4. QED
        BY <2>1, <3>3
  <2>6. FailStack \/ CloseStack
    <3>1. stack' # stack
        BY <2>1
    <3>2. ~(BeginShutdown \/ LifespansEntered \/ StartupHandlersDone \/ SubStarts)
        BY <3>1 DEF BeginShutdown, LifespansEntered, StartupHandlersDone, SubStarts,
                    engineVars
    <3>3. ~(FailSubs \/ DrainBegins \/ DrainEnds \/ ShutSubs \/ OnShutdown)
        BY <3>1 DEF FailSubs, DrainBegins, DrainEnds, ShutSubs, OnShutdown, engineVars
    <3>4. ~(UserSpawns \/ UserCancels \/ TaskStep \/ UNCHANGED vars)
        BY <3>1 DEF UserSpawns, UserCancels, TaskStep, engineVars, vars
    <3>5. QED
        BY <2>3, <2>4, <2>5, <3>2, <3>3, <3>4 DEF Next, Engine
  <2>7. pc \in {"failStack", "close"} /\ stack # <<>> /\ stack' = PopNewest
    BY <2>1, <2>6 DEF FailStack, CloseStack
  <2>8. started = <<>>
    BY <2>1, <2>7 DEF EngineInv, SubsDown
  <2>9. subsUp = {}
    BY <2>1, <2>2, <2>8 DEF EngineInv, StartedAreUp
  <2>10. QED
    BY <2>1, <2>7, <2>9, Popped
<1>2. QED
    BY <1>1, LifeInvariant, PTL DEF Spec, TeardownOrder

\* A task in flight is in a registry, or a drain gave it up: a callback that
\* runs late never takes the entry of its name's next holder.
THEOREM TasksStayTracked == Spec => []RunningIsTracked
<1>1. LifeInv => RunningIsTracked
    BY DEF LifeInv, TasksInv
<1>2. QED
    BY <1>1, LifeInvariant, PTL

\* Before the children close and before shutdown ends, every running task was
\* asked to stop, except those spawned while a drain was waiting.
THEOREM TasksAreAsked == Spec => TasksAskedToStop
<1>1. LifeInv /\ [Next]_vars =>
          [(pc # pc' /\ pc' \in {"shutSubs", "off"}) =>
              Running \subseteq asked' \cup late]_vars
  <2> SUFFICES ASSUME LifeInv, [Next]_vars, pc # pc', pc' \in {"shutSubs", "off"}
               PROVE  Running \subseteq asked' \cup late
    OBVIOUS
  <2>1. DrainBegins \/ DrainEnds
    <3>1. ~(BeginStartup \/ BeginShutdown \/ EnterLifespan \/ LifespansEntered
              \/ StartupHandlersDone \/ SubStarts \/ StartupEnds)
        BY DEF BeginStartup, BeginShutdown, EnterLifespan, LifespansEntered,
               StartupHandlersDone, SubStarts, StartupEnds
    <3>2. ~(FailSubs \/ FailStack \/ ShutSubs \/ OnShutdown \/ CloseStack)
        BY DEF FailSubs, FailUnwindsSubs, FailStack, ShutSubs, OnShutdown,
               CloseStack, AfterClose
    <3>3. ~(UserSpawns \/ UserCancels \/ TaskStep \/ UNCHANGED vars)
        BY DEF UserSpawns, UserCancels, TaskStep, vars
    <3>4. QED
        BY <3>1, <3>2, <3>3 DEF Next, Engine
  <2>2. CASE DrainBegins
    <3>1. asked \cup Registered \subseteq asked'
        BY <2>2 DEF DrainBegins, DrainCancels
    <3>2. QED
        BY <3>1 DEF LifeInv, TasksInv, RunningIsTracked, DroppedAsked
  <2>3. CASE DrainEnds
    <3>1. awaited # {} /\ asked' = asked
        BY <2>3 DEF DrainEnds, DrainClears
    <3>2. QED
        BY <3>1 DEF LifeInv, TasksInv, RunningIsTracked, AwaitedAsked,
                    RegisteredWaited, DroppedAsked
  <2>4. QED
    BY <2>1, <2>2, <2>3
<1>2. QED
    BY <1>1, LifeInvariant, PTL DEF Spec, TasksAskedToStop

-----------------------------------------------------------------------------
(* The server around it: admission and the graceful shutdown.               *)

\* What the counter's proof needs to know of the state: a place is held only
\* by a connection whose connection_made has run and connection_lost has not.
PlaceInv ==
    /\ sock \in [Conns -> {"none", "accepted", "open", "closing", "lost"}]
    /\ counted \subseteq {c \in Conns : sock[c] \in {"open", "closing"}}
    /\ count \in Nat
    /\ AdmissionExact

\* A step that leaves the counter alone and closes open sockets at most, or
\* opens none that holds a place, keeps the invariant.
LEMMA SocketStep ==
    ASSUME PlaceInv, UNCHANGED <<count, counted>>,
           sock' \in [Conns -> {"none", "accepted", "open", "closing", "lost"}],
           \A c \in counted : sock'[c] \in {"open", "closing"}
    PROVE  PlaceInv'
  BY DEF PlaceInv, AdmissionExact

\* Initially nobody is counted.
LEMMA InitPlace == ServerInit => PlaceInv
  <1> SUFFICES ASSUME ServerInit PROVE PlaceInv
      OBVIOUS
  <1>1. Cardinality({}) = 0
      BY FS_EmptySet
  <1>2. Cap \in Nat
      BY ServerAssumption
  <1> QED
      BY <1>1, <1>2 DEF ServerInit, PlaceInv, AdmissionExact

\* connection_made takes a place only below the cap, and only once.
LEMMA AdmissionStep ==
    ASSUME PlaceInv, NEW c \in Conns, ConnectionMade(c)
    PROVE  PlaceInv'
  <1>1. CASE UnderCap
    <2>1. c \notin counted
        BY DEF PlaceInv, ConnectionMade
    <2>2. IsFiniteSet(counted)
        BY ServerAssumption, FS_Subset DEF PlaceInv
    <2>3. Cardinality(counted \cup {c}) = Cardinality(counted) + 1
        BY <2>1, <2>2, FS_AddElement
    <2>4. /\ sock' = [sock EXCEPT ![c] = "open"]
          /\ count' = count + 1
          /\ counted' = counted \cup {c}
        BY <1>1 DEF ConnectionMade
    <2>5. Cap \in Nat /\ count < Cap
        BY <1>1, ServerAssumption DEF UnderCap
    <2> QED
        BY <2>3, <2>4, <2>5 DEF PlaceInv, AdmissionExact
  <1>2. CASE ~UnderCap
    <2>1. /\ sock' = [sock EXCEPT ![c] = "closing"]
          /\ UNCHANGED <<count, counted>>
        BY <1>2 DEF ConnectionMade
    <2> QED
        BY <2>1, SocketStep DEF PlaceInv
  <1> QED
      BY <1>1, <1>2

\* connection_lost gives back the place it holds, if it holds one.
LEMMA LossStep ==
    ASSUME PlaceInv, NEW c \in Conns, ConnectionLost(c)
    PROVE  PlaceInv'
  <1>1. /\ sock' = [sock EXCEPT ![c] = "lost"]
        /\ count' = Released(c)
        /\ counted' = counted \ {c}
      BY DEF ConnectionLost
  <1>2. IsFiniteSet(counted)
      BY ServerAssumption, FS_Subset DEF PlaceInv
  <1>3. Cap \in Nat
      BY ServerAssumption
  <1>4. CASE c \in counted
    <2>1. Cardinality(counted \ {c}) = Cardinality(counted) - 1
        BY <1>2, <1>4, FS_RemoveElement
    <2>2. Cardinality(counted \ {c}) \in Nat
        BY <1>2, FS_RemoveElement, FS_CardinalityType
    <2>3. count' = count - 1
        BY <1>1, <1>4 DEF Released
    <2> QED
        BY <1>1, <1>3, <2>1, <2>2, <2>3 DEF PlaceInv, AdmissionExact
  <1>5. CASE c \notin counted
    <2>1. counted' = counted /\ count' = count
        BY <1>1, <1>5 DEF Released
    <2> QED
        BY <1>1, <1>5, <2>1, SocketStep DEF PlaceInv
  <1> QED
      BY <1>4, <1>5

\* No other step of a connection touches the counter, and none reopens or
\* loses a socket.
LEMMA OtherConnStep ==
    ASSUME PlaceInv, NEW c \in Conns,
           \/ Accept(c) \/ HandshakeFails(c) \/ KeepAliveTimeout(c)
           \/ RequestArrives(c) \/ Upgrade(c) \/ StreamStarts(c)
           \/ RequestDone(c) \/ HandlerTimeout(c) \/ DispatchEnds(c)
    PROVE  PlaceInv'
  <1>1. UNCHANGED <<count, counted>>
      BY DEF Accept, HandshakeFails, KeepAliveTimeout, RequestArrives, Upgrade,
             StreamStarts, RequestDone, HandlerTimeout, DispatchEnds
  <1>2. CASE Accept(c)
      BY <1>1, <1>2, SocketStep DEF PlaceInv, Accept
  <1>3. CASE HandshakeFails(c)
      BY <1>1, <1>3, SocketStep DEF PlaceInv, HandshakeFails
  <1>4. CASE KeepAliveTimeout(c)
      BY <1>1, <1>4, SocketStep DEF PlaceInv, KeepAliveTimeout
  <1>5. CASE RequestArrives(c) \/ Upgrade(c) \/ StreamStarts(c)
    <2>1. sock' = sock
        BY <1>5 DEF RequestArrives, Upgrade, StreamStarts
    <2> QED
        BY <1>1, <2>1, SocketStep DEF PlaceInv
  <1>6. CASE RequestDone(c)
    <2>1. PICK keep \in BOOLEAN :
             sock' = [sock EXCEPT ![c] = IF KeepsServing(c, keep) THEN @ ELSE "closing"]
        BY <1>6 DEF RequestDone
    <2> QED
        BY <1>1, <2>1, SocketStep DEF PlaceInv
  <1>7. CASE HandlerTimeout(c)
      BY <1>1, <1>7, SocketStep DEF PlaceInv, HandlerTimeout
  <1>8. CASE DispatchEnds(c)
      BY <1>1, <1>8, SocketStep DEF PlaceInv, DispatchEnds
  <1> QED
      BY <1>2, <1>3, <1>4, <1>5, <1>6, <1>7, <1>8

\* Shutdown closes sockets; the places are given back by connection_lost.
LEMMA ShutdownKeepsPlaces ==
    ASSUME PlaceInv, Signal \/ ShutdownStep
    PROVE  PlaceInv'
  <1>1. UNCHANGED <<count, counted>>
      BY DEF ShutdownStep, Signal, WakeAndDrain, LeaveServer, DrainCompletes,
             DrainTimesOut, CancelStragglers, LifecycleDone, connVars
  <1>2. \/ sock' = sock
        \/ sock' = [c \in Conns |-> IF c \in DrainCloses THEN "closing" ELSE sock[c]]
      BY DEF ShutdownStep, Signal, WakeAndDrain, LeaveServer, DrainCompletes,
             DrainTimesOut, CancelStragglers, LifecycleDone, connVars,
             StartGracefulDrain
  <1> QED
      BY <1>1, <1>2, SocketStep DEF PlaceInv

\* For every set of connections and every cap, _active_connections is the
\* number of connections holding a place and never passes the cap.
THEOREM AdmissionIsExact == ServerSpec => []AdmissionExact
  <1>1. PlaceInv /\ [ServerNext]_serverVars => PlaceInv'
    <2> SUFFICES ASSUME PlaceInv, [ServerNext]_serverVars PROVE PlaceInv'
        OBVIOUS
    <2>1. CASE \E c \in Conns : ConnStep(c)
        BY <2>1, AdmissionStep, LossStep, OtherConnStep DEF ConnStep
    <2>2. CASE Signal \/ ShutdownStep
        BY <2>2, ShutdownKeepsPlaces
    <2>3. CASE UNCHANGED serverVars
        BY <2>3, SocketStep DEF PlaceInv, serverVars, connVars
    <2> QED
        BY <2>1, <2>2, <2>3 DEF ServerNext
  <1>2. PlaceInv => AdmissionExact
      BY DEF PlaceInv
  <1> QED
      BY InitPlace, <1>1, <1>2, PTL DEF ServerSpec

-----------------------------------------------------------------------------
(* Told to stop, a connection completes at most one more request.           *)

\* The socket of c is on its way out and nothing is being served on it.
Retired(c) == sock[c] \in {"closing", "lost"} /\ hand[c] \notin Serving

\* Who has completed a request after being told to stop is retired.
StopInv ==
    /\ sock \in [Conns -> {"none", "accepted", "open", "closing", "lost"}]
    /\ hand \in [Conns -> {"none", "handler", "streaming", "ws", "detached"}]
    /\ extra \in [Conns -> Nat]
    /\ \A c \in Conns : extra[c] = 0 \/ (extra[c] = 1 /\ Retired(c))

\* A step that completes no such request and revives no retired connection
\* keeps the invariant.
LEMMA RetiredStep ==
    ASSUME StopInv, extra' = extra,
           sock' \in [Conns -> {"none", "accepted", "open", "closing", "lost"}],
           hand' \in [Conns -> {"none", "handler", "streaming", "ws", "detached"}],
           \A c \in Conns : Retired(c) => Retired(c)'
    PROVE  StopInv'
  BY DEF StopInv

\* A request completed after the connection was told to stop retires it.
LEMMA DoneRetires ==
    ASSUME StopInv, NEW c \in Conns, RequestDone(c)
    PROVE  StopInv'
  <1>1. PICK keep \in BOOLEAN :
          /\ hand' = [hand EXCEPT ![c] = IF TakesNext(c, keep) THEN "handler" ELSE "none"]
          /\ sock' = [sock EXCEPT ![c] = IF KeepsServing(c, keep) THEN @ ELSE "closing"]
      BY DEF RequestDone
  <1>2. extra' = [extra EXCEPT ![c] =
                    IF c \in draining \/ (Hooked /\ ~alive) THEN @ + 1 ELSE @]
      BY DEF RequestDone
  <1>3. extra[c] = 0
      BY DEF StopInv, RequestDone, Retired
  <1>4. \A d \in Conns \ {c} : extra'[d] = extra[d] /\ (Retired(d) => Retired(d)')
      BY <1>1, <1>2 DEF StopInv, Retired
  <1>5. /\ sock' \in [Conns -> {"none", "accepted", "open", "closing", "lost"}]
        /\ hand' \in [Conns -> {"none", "handler", "streaming", "ws", "detached"}]
        /\ extra' \in [Conns -> Nat]
      BY <1>1, <1>2 DEF StopInv
  <1>6. CASE c \in draining \/ (Hooked /\ ~alive)
    <2>1. alive' => alive
        BY DEF RequestDone
    <2>2. ~KeepsServing(c, keep) /\ ~TakesNext(c, keep)
        BY <1>6, <2>1 DEF KeepsServing, TakesNext
    <2>3. sock'[c] = "closing" /\ hand'[c] = "none" /\ extra'[c] = 1
        BY <1>1, <1>2, <1>3, <1>6, <2>2 DEF StopInv
    <2> QED
        BY <1>4, <1>5, <2>3 DEF StopInv, Retired, Serving
  <1>7. CASE ~(c \in draining \/ (Hooked /\ ~alive))
    <2>1. extra'[c] = 0
        BY <1>2, <1>3, <1>7 DEF StopInv
    <2> QED
        BY <1>4, <1>5, <2>1 DEF StopInv
  <1> QED
      BY <1>6, <1>7

\* No other step of a connection revives it: work starts on an open socket
\* only, and no step reopens one.
LEMMA ConnKeepsRetired ==
    ASSUME StopInv, NEW c \in Conns,
           \/ Accept(c) \/ ConnectionMade(c) \/ HandshakeFails(c)
           \/ ConnectionLost(c) \/ KeepAliveTimeout(c)
           \/ RequestArrives(c) \/ Upgrade(c) \/ StreamStarts(c)
           \/ HandlerTimeout(c) \/ DispatchEnds(c)
    PROVE  StopInv'
  <1>1. extra' = extra
      BY DEF Accept, ConnectionMade, HandshakeFails, ConnectionLost, KeepAliveTimeout,
             RequestArrives, Upgrade, StreamStarts, HandlerTimeout, DispatchEnds, histVars
  <1>2. CASE Accept(c)
      BY <1>1, <1>2, RetiredStep DEF StopInv, Accept, Retired
  <1>3. CASE ConnectionMade(c)
    <2>1. /\ sock[c] = "accepted" /\ hand' = hand
          /\ \/ sock' = [sock EXCEPT ![c] = "open"]
             \/ sock' = [sock EXCEPT ![c] = "closing"]
        BY <1>3 DEF ConnectionMade
    <2> QED
        BY <1>1, <2>1, RetiredStep DEF StopInv, Retired
  <1>4. CASE HandshakeFails(c)
      BY <1>1, <1>4, RetiredStep DEF StopInv, HandshakeFails, Retired
  <1>5. CASE ConnectionLost(c)
      BY <1>1, <1>5, RetiredStep DEF StopInv, ConnectionLost, Retired
  <1>6. CASE KeepAliveTimeout(c)
      BY <1>1, <1>6, RetiredStep DEF StopInv, KeepAliveTimeout, Retired
  <1>7. CASE RequestArrives(c)
    <2>1. /\ sock[c] = "open" /\ sock' = sock
          /\ hand' = hand \/ hand' = [hand EXCEPT ![c] = "handler"]
        BY <1>7 DEF RequestArrives
    <2> QED
        BY <1>1, <2>1, RetiredStep DEF StopInv, Retired
  <1>8. CASE Upgrade(c)
      BY <1>1, <1>8, RetiredStep DEF StopInv, Upgrade, Retired
  <1>9. CASE StreamStarts(c)
      BY <1>1, <1>9, RetiredStep DEF StopInv, StreamStarts, Retired, Serving
  <1>10. CASE HandlerTimeout(c)
      BY <1>1, <1>10, RetiredStep DEF StopInv, HandlerTimeout, Retired, Serving
  <1>11. CASE DispatchEnds(c)
      BY <1>1, <1>11, RetiredStep DEF StopInv, DispatchEnds, Retired, Serving
  <1> QED
      BY <1>2, <1>3, <1>4, <1>5, <1>6, <1>7, <1>8, <1>9, <1>10, <1>11

\* Shutdown only closes sockets.
LEMMA ShutdownKeepsRetired ==
    ASSUME StopInv, Signal \/ ShutdownStep
    PROVE  StopInv'
  <1>1. UNCHANGED <<extra, hand>>
      BY DEF ShutdownStep, Signal, WakeAndDrain, LeaveServer, DrainCompletes,
             DrainTimesOut, CancelStragglers, LifecycleDone, connVars, histVars
  <1>2. \/ sock' = sock
        \/ sock' = [c \in Conns |-> IF c \in DrainCloses THEN "closing" ELSE sock[c]]
      BY DEF ShutdownStep, Signal, WakeAndDrain, LeaveServer, DrainCompletes,
             DrainTimesOut, CancelStragglers, LifecycleDone, connVars,
             StartGracefulDrain
  <1> QED
      BY <1>1, <1>2, RetiredStep DEF StopInv, Retired

\* For every number of connections, requests and workers' limits, a connection
\* told to stop completes at most the request it is serving.
THEOREM StopsAtTheBoundary == ServerSpec => []OneMoreRequest
  <1>1. ServerInit => StopInv
      BY DEF ServerInit, StopInv
  <1>2. StopInv /\ [ServerNext]_serverVars => StopInv'
    <2> SUFFICES ASSUME StopInv, [ServerNext]_serverVars PROVE StopInv'
        OBVIOUS
    <2>1. CASE \E c \in Conns : ConnStep(c)
        BY <2>1, DoneRetires, ConnKeepsRetired DEF ConnStep
    <2>2. CASE Signal \/ ShutdownStep
        BY <2>2, ShutdownKeepsRetired
    <2>3. CASE UNCHANGED serverVars
        BY <2>3, RetiredStep DEF StopInv, serverVars, connVars, histVars, Retired
    <2> QED
        BY <2>1, <2>2, <2>3 DEF ServerNext
  <1>3. StopInv => OneMoreRequest
      BY DEF StopInv, OneMoreRequest
  <1> QED
      BY <1>1, <1>2, <1>3, PTL DEF ServerSpec
=============================================================================
