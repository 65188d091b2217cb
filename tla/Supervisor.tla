----------------------------- MODULE Supervisor -----------------------------
(***************************************************************************)
(* app.supervise() (app/background.py): a long-lived coroutine restarted   *)
(* after a doubling backoff, with a breaker that gives up on a tight loop  *)
(* of failures.  Time is counted in ticks; a sleep may end late.           *)
(***************************************************************************)
EXTENDS Integers, Sequences

CONSTANTS
    MaxRestarts,  \* max_restarts
    Window,       \* restart_window
    Backoff,      \* backoff
    MaxBackoff,   \* max_backoff
    MaxTime       \* bound: the last tick

SupervisorAssumption ==
    /\ {MaxRestarts, Window, MaxTime} \subseteq Nat
    /\ {Backoff, MaxBackoff} \subseteq Nat \ {0}
    /\ Backoff <= MaxBackoff

VARIABLES
    now,          \* time.monotonic()
    state,        \* "running", "sleeping", "gaveup", "failed" or "cancelled"
    started,      \* when the current run began
    failures,     \* counted failures
    windowStart,  \* window_start
    delay,        \* the next backoff
    wakeAt,       \* when the sleep ends
    ends,         \* history: when each run ended
    restarts      \* history: when each restart happened

vars == <<now, state, started, failures, windowStart, delay, wakeAt, ends, restarts>>

Smaller(a, b) == IF a <= b THEN a ELSE b

-----------------------------------------------------------------------------
\* Mutant: the breaker never forgets.
ForgetsNever == FALSE

\* The counter starts afresh: after a run as long as the window, or when the
\* counted failures began a window ago.
Forgets == now - started >= Window \/ now - windowStart >= Window

\* A run that lasted the whole window is not counted itself.
CleanRun == now - started >= Window

\* Mutant: one restart more than allowed.
TripsLate(n) == n > MaxRestarts + 1

Trips(n) == n > MaxRestarts

Doubled(d) == Smaller(2 * d, MaxBackoff)

\* The factory raises, the coroutine raises, or it returns: all are restarted.
RunEnds ==
    /\ state = "running"
    /\ LET base  == IF Forgets THEN 0 ELSE failures
           count == IF CleanRun THEN 0 ELSE base + 1
           pause == IF Forgets THEN Backoff ELSE delay
       IN /\ failures' = count
          /\ windowStart' = IF Forgets THEN now ELSE windowStart
          /\ delay' = pause
          /\ IF ~CleanRun /\ Trips(count)
               THEN state' = "gaveup" /\ UNCHANGED wakeAt
               ELSE state' = "sleeping" /\ wakeAt' = now + pause
    /\ ends' = Append(ends, now)
    /\ UNCHANGED <<now, started, restarts>>

\* The sleep is over: the backoff doubles and a fresh run starts.
Restart ==
    /\ state = "sleeping" /\ now >= wakeAt
    /\ state' = "running"
    /\ started' = now
    /\ delay' = Doubled(delay)
    /\ restarts' = Append(restarts, now)
    /\ UNCHANGED <<now, failures, windowStart, wakeAt, ends>>

\* A factory that returns no awaitable fails at once, before any time passes.
NotAwaitable ==
    /\ state = "running" /\ now = started
    /\ state' = "failed"
    /\ UNCHANGED <<now, started, failures, windowStart, delay, wakeAt, ends, restarts>>

\* CancelledError, at either await, is never suppressed.
Cancel ==
    /\ state \in {"running", "sleeping"}
    /\ state' = "cancelled"
    /\ UNCHANGED <<now, started, failures, windowStart, delay, wakeAt, ends, restarts>>

Tick ==
    /\ now < MaxTime
    /\ state \in {"running", "sleeping"}
    /\ now' = now + 1
    /\ UNCHANGED <<state, started, failures, windowStart, delay, wakeAt, ends, restarts>>

Init ==
    /\ now = 0 /\ started = 0 /\ failures = 0 /\ windowStart = 0 /\ wakeAt = 0
    /\ state = "running"
    /\ delay = Backoff
    /\ ends = <<>> /\ restarts = <<>>

Next == RunEnds \/ Restart \/ NotAwaitable \/ Cancel \/ Tick

Spec == Init /\ [][Next]_vars

-----------------------------------------------------------------------------
(* What the supervisor promises.                                            *)

\* The type of every variable; the backoff stays between its two settings.
TypeOK ==
    /\ now \in 0 .. MaxTime /\ started \in 0 .. now /\ windowStart \in 0 .. now
    /\ state \in {"running", "sleeping", "gaveup", "failed", "cancelled"}
    /\ failures \in Nat
    /\ delay \in Backoff .. MaxBackoff
    /\ wakeAt \in 0 .. MaxTime + MaxBackoff
    /\ ends \in Seq(0 .. MaxTime) /\ restarts \in Seq(0 .. MaxTime)

\* The breaker trips only on a tight loop: the last max_restarts + 1 runs all
\* ended within less than one window ("failures spaced further apart than the
\* window never trip the breaker").
TripsOnTightLoopsOnly ==
    state = "gaveup" =>
        /\ Len(ends) > MaxRestarts
        /\ ends[Len(ends)] - ends[Len(ends) - MaxRestarts] < Window

\* The i-th restart and the n - 1 before it fall within less than a window.
Burst(n) ==
    \E i \in DOMAIN restarts :
        /\ i >= n
        /\ restarts[i] - restarts[i - n + 1] < Window

\* Runaway restarts are bounded: no window sees more than twice the budget
\* and the restart that opened it.
RestartsBounded == ~Burst(2 * MaxRestarts + 2)

\* At most max_restarts within any restart_window seconds, as documented.
RestartsWithinAnyWindow == ~Burst(MaxRestarts + 1)

\* Why: runs end and are restarted in turn; the counted failures, at most the
\* budget while the task is alive, lie in the window, and what is older than
\* the budget before it lies a window before it.
InTurn ==
    /\ \A j \in DOMAIN ends : ends[j] <= now
    /\ \A j \in DOMAIN restarts : j + 1 \in DOMAIN ends => restarts[j] <= ends[j + 1]
    /\ state = "running" => /\ Len(restarts) = Len(ends)
                            /\ \A j \in DOMAIN ends : ends[j] <= started
                            /\ ends # <<>> => restarts[Len(ends)] = started
    /\ state = "sleeping" => Len(ends) = Len(restarts) + 1

CountedInWindow ==
    LET n == Len(ends)
        older == Len(ends) - failures
    IN /\ older >= 0
       /\ state \in {"running", "sleeping"} => failures <= MaxRestarts
       /\ state = "gaveup" => failures = MaxRestarts + 1
       /\ failures > 0 => ends[older + 1] >= windowStart /\ ends[n] - windowStart < Window
       /\ \A j \in 1 .. older : ends[j] <= windowStart
       /\ MaxRestarts > 0 => \A j \in 1 .. older - MaxRestarts : windowStart - ends[j] >= Window
       /\ failures = 0 /\ n >= 2 => ends[n] - restarts[n - 1] >= Window

\* However short the runs, two restarts are at least the backoff apart: the
\* supervisor never spins.
BackoffRespected ==
    \A i \in 2 .. Len(restarts) : restarts[i] - restarts[i - 1] >= Backoff
=============================================================================
