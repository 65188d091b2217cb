---------------------------- MODULE SpawnedTasks ----------------------------
(***************************************************************************)
(* The application's background tasks (app/background.py): spawn, the two  *)
(* registries, the done-callback, cancellation by name, and the drain that *)
(* shutdown runs.  A task ends when it likes; cancel() only asks.          *)
(***************************************************************************)
EXTENDS Naturals, FiniteSets

CONSTANTS
    Tasks,      \* bound: the tasks ever spawned
    Names,      \* the names they may be spawned under
    None        \* no name, no task

ASSUME TaskAssumption == None \notin Tasks /\ None \notin Names

VARIABLES
    task,       \* unborn, running, ended (callback still due) or gone
    nameOf,     \* the name each was spawned under, or None
    asked,      \* tasks that cancel() was called on
    named,      \* _spawned_named
    anon,       \* _spawned_anon
    awaited,    \* the tasks the current _drain_spawned_tasks waits for
    late,       \* history: spawned while a drain was waiting
    dropped     \* history: unfinished when a drain cleared the registries

taskVars == <<task, nameOf, asked, named, anon, awaited, late, dropped>>

TasksInit ==
    /\ task = [t \in Tasks |-> "unborn"]
    /\ nameOf = [t \in Tasks |-> None]
    /\ named = [n \in Names |-> None]
    /\ asked = {} /\ anon = {} /\ awaited = {} /\ late = {} /\ dropped = {}

Running == {t \in Tasks : task[t] = "running"}

\* What _drain_spawned_tasks reads: finished tasks whose callback is due, too.
Registered == anon \cup ({named[n] : n \in Names} \ {None})

\* A name that is taken raises, so nothing happens.
spawn(t, n) ==
    /\ task[t] = "unborn"
    /\ n # None => named[n] = None
    /\ task' = [task EXCEPT ![t] = "running"]
    /\ nameOf' = [nameOf EXCEPT ![t] = n]
    /\ IF n = None
         THEN anon' = anon \cup {t} /\ UNCHANGED named
         ELSE named' = [named EXCEPT ![n] = t] /\ UNCHANGED anon
    /\ late' = IF awaited = {} THEN late ELSE late \cup {t}
    /\ UNCHANGED <<asked, awaited, dropped>>

cancel_spawned_task(n) ==
    /\ named[n] # None
    /\ asked' = asked \cup {named[n]}
    /\ UNCHANGED <<task, nameOf, named, anon, awaited, late, dropped>>

\* It returns, raises, or honours a cancellation; the callback is scheduled.
TaskEnds(t) ==
    /\ task[t] = "running"
    /\ task' = [task EXCEPT ![t] = "ended"]
    /\ UNCHANGED <<nameOf, asked, named, anon, awaited, late, dropped>>

\* Mutant: the entry goes whoever holds the name by now.
ForgetByName(t) ==
    IF nameOf[t] = None THEN named ELSE [named EXCEPT ![nameOf[t]] = None]

Forget(t) == [n \in Names |-> IF named[n] = t THEN None ELSE named[n]]

spawned_task_done(t) ==
    /\ task[t] = "ended"
    /\ task' = [task EXCEPT ![t] = "gone"]
    /\ named' = Forget(t)
    /\ anon' = anon \ {t}
    /\ UNCHANGED <<nameOf, asked, awaited, late, dropped>>

\* The drain up to its await: a snapshot, and cancel() on each of it.
DrainCancels ==
    /\ awaited' = Registered
    /\ asked' = asked \cup Registered
    /\ UNCHANGED <<task, nameOf, named, anon, late, dropped>>

\* Mutant: the budget is not passed to asyncio.wait.
WaitIsOverUnbounded(timedOut) == awaited \cap Running = {}

\* All have ended, or GRACEFUL_TASK_TIMEOUT went by.
WaitIsOver(timedOut) == awaited \cap Running = {} \/ timedOut

\* The drain after its await: the registries are emptied.
DrainClears ==
    /\ awaited # {}
    /\ \E timedOut \in BOOLEAN : WaitIsOver(timedOut)
    /\ dropped' = dropped \cup (Registered \cap Running)
    /\ named' = [n \in Names |-> None]
    /\ anon' = {}
    /\ awaited' = {}
    /\ UNCHANGED <<task, nameOf, asked, late>>

TasksType ==
    /\ task \in [Tasks -> {"unborn", "running", "ended", "gone"}]
    /\ nameOf \in [Tasks -> Names \cup {None}]
    /\ named \in [Names -> Tasks \cup {None}]
    /\ \A S \in {asked, anon, awaited, late, dropped} : S \subseteq Tasks
=============================================================================
