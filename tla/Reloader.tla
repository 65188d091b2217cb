------------------------------- MODULE Reloader -------------------------------
(***************************************************************************)
(* Veloce.run(reload=True): a supervisor (serving/reloader.py) that spawns *)
(* the server as a child, polls the modification times of the sources and  *)
(* replaces the child when one changed; the child is app/serving.py's      *)
(* run().  The files are edited and the supervisor is told to stop         *)
(* (SIGTERM) at any point between two of its steps.                        *)
(***************************************************************************)
EXTENDS Integers

CONSTANTS
    Files,      \* the watched sources
    MaxEdits,   \* bound on edits
    MaxSpawns,  \* bound on children
    MtimeSteps, \* how far an edit moves the clock of the files: 0 within a granule
    SlowBoot,   \* a child imports its sources after the first walk over them
    MaxSignals  \* bound on SIGTERMs

ReloaderAssumption ==
    /\ {MaxEdits, MaxSpawns, MaxSignals} \subseteq Nat /\ MtimeSteps \subseteq Nat
    /\ SlowBoot \in BOOLEAN

Gone == -1      \* not there, and not imported
Removed == -2   \* the version of a file that is not there
NoChild == 0
Pids == 1 .. MaxSpawns

VARIABLES
    disk,     \* of each file its version and modification time
    edits,    \* how many edits there were
    sup,      \* where the supervisor is
    spawned,  \* how many children were spawned
    ptr,      \* the local `child`
    snap,     \* the walk under way: the times found so far
    baseline, \* the snapshot compared with
    first,    \* whether the walk under way is for the baseline
    editsSeen, \* edits when the walk under way began
    proc,     \* of each child its state, the versions it imported and, as
              \* history, the edits there were when it was spawned
    signals

vars == <<disk, edits, sup, spawned, ptr, snap, baseline, first, editsSeen, proc, signals>>

Unread == [f \in Files |-> Gone]
watch == <<snap, baseline, first, editsSeen>>

-----------------------------------------------------------------------------
(* The supervisor: run_with_reloader.  Popen has returned before its       *)
(* result is bound to `child`.                                             *)
Popen ==
    /\ sup = "spawn" /\ spawned < MaxSpawns
    /\ spawned' = spawned + 1
    /\ proc' = [proc EXCEPT ![spawned + 1].st = "importing", ![spawned + 1].born = edits]
    /\ sup' = "bind"
    /\ UNCHANGED <<disk, edits, ptr, watch, signals>>

BeginWalk(isFirst) ==
    /\ sup' = "walk" /\ first' = isFirst
    /\ snap' = [f \in {} |-> Gone] /\ editsSeen' = edits

Bind ==
    /\ sup = "bind" /\ ptr' = spawned
    /\ BeginWalk(TRUE)
    /\ UNCHANGED <<disk, edits, spawned, baseline, proc, signals>>

(* _snapshot: one file after the other; a missing one is left out, which   *)
(* Gone stands for.                                                        *)
Stat(f) ==
    /\ sup = "walk" /\ f \notin DOMAIN snap
    /\ snap' = [g \in DOMAIN snap \cup {f} |-> IF g = f THEN disk[f].mtime ELSE snap[g]]
    /\ UNCHANGED <<disk, edits, sup, spawned, ptr, baseline, first, editsSeen, proc, signals>>

(* _changed_path: added, modified or removed.                              *)
ModifiedOnly(before, after) == \E f \in Files : after[f] # Gone /\ before[f] # after[f]

changed_path(before, after) == \E f \in Files : before[f] # after[f]

(* _wait_for_change_stat.                                                  *)
Compare ==
    /\ sup = "walk" /\ DOMAIN snap = Files
    /\ IF ~first /\ changed_path(baseline, snap)
       THEN sup' = "terminate" /\ UNCHANGED baseline
       ELSE sup' = "sleep" /\ baseline' = snap
    /\ UNCHANGED <<disk, edits, spawned, ptr, snap, first, editsSeen, proc, signals>>

Poll ==
    /\ sup = "sleep" /\ BeginWalk(FALSE)
    /\ UNCHANGED <<disk, edits, spawned, ptr, baseline, proc, signals>>

(* SIGTERM of a child: it has no handler before it serves.                 *)
Told(st) == IF st = "serving" THEN "draining" ELSE IF st = "draining" THEN st ELSE "ended"
Alive(p) == proc[p].st \notin {"unborn", "ended"}

(* _terminate: nothing for who is gone or nobody; else SIGTERM, and the    *)
(* wait.  From the loop, and from the `finally`.                           *)
WithoutWait(from, waiting, next) ==
    /\ sup = from
    /\ IF ptr = NoChild \/ ~Alive(ptr) THEN UNCHANGED proc
       ELSE proc' = [proc EXCEPT ![ptr].st = Told(@)]
    /\ sup' = next
    /\ UNCHANGED <<disk, edits, spawned, ptr, watch, signals>>

Terminate(from, waiting, next) ==
    /\ sup = from
    /\ IF ptr = NoChild \/ ~Alive(ptr)
       THEN sup' = next /\ UNCHANGED proc
       ELSE sup' = waiting /\ proc' = [proc EXCEPT ![ptr].st = Told(@)]
    /\ UNCHANGED <<disk, edits, spawned, ptr, watch, signals>>

(* The child is gone, or after five seconds it is killed.                  *)
Reap(waiting, next) ==
    /\ sup = waiting
    /\ proc' = [proc EXCEPT ![ptr].st = "ended"]
    /\ sup' = next
    /\ UNCHANGED <<disk, edits, spawned, ptr, watch, signals>>

(* _request_stop raises KeyboardInterrupt where the supervisor is; its     *)
(* `finally` gives SIGTERM back to the default before it stops the child,  *)
(* and a second one ends the supervisor there.                             *)
StopSignal ==
    /\ signals < MaxSignals /\ sup # "gone" /\ signals' = signals + 1
    /\ sup' = IF sup \in {"final", "final wait"} THEN "gone" ELSE "final"
    /\ UNCHANGED <<disk, edits, spawned, ptr, watch, proc>>

-----------------------------------------------------------------------------
(* The child: it imports, runs its startup hooks, serves, and on SIGTERM   *)
(* drains and runs its shutdown hooks.                                     *)
Import(p, f) ==
    /\ proc[p].st = "importing" /\ proc[p].loaded[f] = Gone
    /\ SlowBoot => ~(sup = "bind" \/ (sup = "walk" /\ first))
    /\ \/ proc' = [proc EXCEPT ![p].loaded[f] = disk[f].version]
       \/ proc' = [proc EXCEPT ![p].st = "ended"] \* an import that fails
    /\ UNCHANGED <<disk, edits, sup, spawned, ptr, watch, signals>>

Startup(p) ==
    /\ proc[p].st = "importing" /\ \A f \in Files : proc[p].loaded[f] # Gone
    /\ proc' = [proc EXCEPT ![p].st = "starting", ![p].hooks = "up"]
    /\ UNCHANGED <<disk, edits, sup, spawned, ptr, watch, signals>>

Serve(p) ==
    /\ proc[p].st = "starting"
    /\ proc' = [proc EXCEPT ![p].st = "serving"]
    /\ UNCHANGED <<disk, edits, sup, spawned, ptr, watch, signals>>

Drained(p) ==
    /\ proc[p].st = "draining"
    /\ proc' = [proc EXCEPT ![p].st = "ended", ![p].hooks = "down"]
    /\ UNCHANGED <<disk, edits, sup, spawned, ptr, watch, signals>>

(* A file is written, or removed.                                          *)
Edit(f) ==
    /\ edits < MaxEdits /\ edits' = edits + 1
    /\ \/ \E step \in MtimeSteps :
             disk' = [disk EXCEPT ![f] = [version |-> edits + 1, mtime |-> edits + step]]
       \/ disk[f].mtime # Gone /\ disk' = [disk EXCEPT ![f] = [version |-> Removed, mtime |-> Gone]]
    /\ UNCHANGED <<sup, spawned, ptr, watch, proc, signals>>

Init ==
    /\ disk = [f \in Files |-> [version |-> 0, mtime |-> 0]] /\ edits = 0
    /\ sup = "spawn" /\ spawned = 0 /\ ptr = NoChild /\ signals = 0
    /\ snap = [f \in {} |-> Gone] /\ baseline = Unread /\ first = TRUE /\ editsSeen = 0
    /\ proc = [p \in Pids |-> [st |-> "unborn", hooks |-> "none", born |-> 0, loaded |-> Unread]]

Supervise ==
    \/ Popen \/ Bind \/ Compare \/ Poll \/ \E f \in Files : Stat(f)
    \/ Terminate("terminate", "wait", "spawn") \/ Reap("wait", "spawn")
    \/ Terminate("final", "final wait", "gone") \/ Reap("final wait", "gone")

ChildStep(p) == Startup(p) \/ Serve(p) \/ Drained(p) \/ \E f \in Files : Import(p, f)

Next == Supervise \/ StopSignal \/ (\E p \in Pids : ChildStep(p)) \/ \E f \in Files : Edit(f)

Spec == Init /\ [][Next]_vars

-----------------------------------------------------------------------------
(* A child, and what there is of a file.                                   *)
Child == [st : {"unborn", "importing", "starting", "serving", "draining", "ended"},
          hooks : {"none", "up", "down"}, born : Nat, loaded : [Files -> Nat \cup {Gone, Removed}]]
File == [version : Nat \cup {Removed}, mtime : Nat \cup {Gone}]

TypeOK ==
    /\ sup \in {"spawn", "bind", "walk", "sleep", "terminate", "wait", "final", "final wait", "gone"}
    /\ ptr \in {NoChild} \cup Pids /\ spawned \in 0 .. MaxSpawns
    /\ proc \in [Pids -> Child] /\ disk \in [Files -> File]
    /\ edits \in Nat /\ editsSeen \in 0 .. edits /\ first \in BOOLEAN
    /\ DOMAIN snap \subseteq Files /\ \A f \in DOMAIN snap : snap[f] \in Nat \cup {Gone}
    /\ DOMAIN baseline = Files /\ \A f \in Files : baseline[f] \in Nat \cup {Gone}

(* There are never two servers at once, which would share the port         *)
(* (SO_REUSEPORT) and each answer some of the requests.                    *)
OneServerAtATime == \A p, q \in Pids : Alive(p) /\ Alive(q) => p = q

(* Why: only the last child spawned may be alive, and none when the next   *)
(* is due.                                                                 *)
LastAlive ==
    /\ \A p \in Pids : Alive(p) => p = spawned
    /\ \A p \in Pids : p > spawned => \A f \in Files : proc[p].loaded[f] = Gone
    /\ sup = "spawn" => \A p \in Pids : ~Alive(p)
    /\ sup \in {"bind", "walk", "sleep", "terminate", "wait"} => spawned > 0
    /\ sup \in {"walk", "sleep", "terminate", "wait"} => ptr = spawned
    /\ sup = "final wait" => ptr # NoChild

(* When a whole poll has found nothing new since the last edit, the server *)
(* is of the sources as they are, removed files included; but for a file   *)
(* that came after the server was started and went before the next poll.   *)
ServesWhatIsThere ==
    sup = "sleep" /\ ~first /\ editsSeen = edits /\ proc[ptr].st = "serving" =>
        \A f \in Files :
            \/ proc[ptr].loaded[f] = disk[f].version
            \/ disk[f].version = Removed /\ proc[ptr].loaded[f] > proc[ptr].born

(* Why, while every edit has a time of its own and a child imports after   *)
(* the first walk: a file keeps the time of its version; what a walk has   *)
(* found stands until the next edit; a file that is there unchanged since  *)
(* the child was spawned was found by its baseline; and a child that runs  *)
(* another version than the one that is there runs one from before it,     *)
(* younger than the baseline's.                                            *)
TimesAreVersions ==
    /\ \A f \in Files : /\ disk[f].version <= edits /\ baseline[f] <= edits
                        /\ disk[f].mtime = IF disk[f].version = Removed THEN Gone ELSE disk[f].version
    /\ \A f \in DOMAIN snap : snap[f] <= edits

WalkStands ==
    /\ editsSeen = edits /\ sup \in {"walk", "sleep"} => \A f \in DOMAIN snap : snap[f] = disk[f].mtime
    /\ sup = "sleep" => baseline = snap

(* A file f of the version w, in the child c, found at the time t.         *)
FoundIfOld(w, c, t) == w \in 0 .. c.born => t # Gone
Follows(w, c, f, t) ==
    LET v == c.loaded[f]
    IN v # Gone => /\ w # Removed /\ v # w => w > t
                   /\ v \in 0 .. c.born => t # Gone

ImportsFollow ==
    /\ \A p \in Pids : proc[p].born <= edits
    /\ \A p \in Pids : proc[p].st \in {"starting", "serving", "draining"} =>
          \A f \in Files : proc[p].loaded[f] # Gone
    /\ sup = "bind" \/ (sup = "walk" /\ first) =>
          \A f \in Files : proc[spawned].loaded[f] = Gone
    /\ sup = "walk" /\ first =>
          \A f \in DOMAIN snap : FoundIfOld(disk[f].version, proc[spawned], snap[f])
    /\ sup = "sleep" \/ (sup = "walk" /\ ~first) =>
          \A f \in Files : /\ FoundIfOld(disk[f].version, proc[spawned], baseline[f])
                           /\ Follows(disk[f].version, proc[spawned], f, baseline[f])

(* "so the serving child is never orphaned" (reloader.py:204).  Not kept:  *)
(* a SIGTERM between Popen and its assignment, or a second one.            *)
NoOrphans == sup = "gone" => \A p \in Pids : ~Alive(p)

(* A child whose startup hooks ran runs its shutdown hooks.  Not kept: it  *)
(* is told to end before it has a handler, or killed while it drains.      *)
HooksArePaired == \A p \in Pids : proc[p].st = "ended" => proc[p].hooks # "up"
=============================================================================
