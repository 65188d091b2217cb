---------------------------- MODULE FirstRequest ----------------------------
(***************************************************************************)
(* The latch of app/dispatch.py that runs the before_first_request hooks:  *)
(* every request reads a flag, one of them claims the run, the others poll *)
(* until the flag is set.  threaded says whether the requests run on event *)
(* loops of different threads, which may switch between the test of the    *)
(* flag and the claim; on one loop nothing runs in between.                *)
(***************************************************************************)
EXTENDS Naturals, FiniteSets

CONSTANTS
    Requests,       \* the requests that arrive
    Threading       \* the values of threaded explored

ASSUME ThreadingAssumption == Threading \subseteq BOOLEAN

VARIABLES
    threaded,       \* chosen once
    fired,          \* _first_request_fired
    running,        \* _first_request_running
    at,             \* where each request stands in the latch
    runs            \* history: how often the hooks have run to their end

latchVars == <<threaded, fired, running, at, runs>>

LatchInit ==
    /\ threaded \in Threading
    /\ fired = FALSE /\ running = FALSE
    /\ at = [r \in Requests |-> "new"]
    /\ runs = 0

stand(r, where) == at' = [at EXCEPT ![r] = where]

\* Mutant: every request that finds the flag unset runs the hooks.
try_claimBlind(r) ==
    /\ running' = TRUE /\ stand(r, "hooks")

\* Under _first_request_guard.
try_claim(r) ==
    IF running
      THEN stand(r, "poll") /\ UNCHANGED running
      ELSE stand(r, "hooks") /\ running' = TRUE

\* handle_request, and the while of _fire_first_request after a sleep.
read_fired(r) ==
    /\ at[r] \in {"new", "poll"}
    /\ IF fired THEN stand(r, "past") /\ UNCHANGED running
       ELSE IF threaded THEN stand(r, "claim") /\ UNCHANGED running
       ELSE try_claim(r)
    /\ UNCHANGED <<threaded, fired, runs>>

\* On a loop of its own the claim is a step of its own.
claim(r) ==
    /\ at[r] = "claim"
    /\ try_claim(r)
    /\ UNCHANGED <<threaded, fired, runs>>

\* The hooks ran: the flag is set, then the claim given up under the guard.
HooksDone(r) ==
    /\ at[r] = "hooks"
    /\ fired' = TRUE
    /\ runs' = runs + 1
    /\ stand(r, "release")
    /\ UNCHANGED <<threaded, running>>

release(r) ==
    /\ at[r] = "release"
    /\ running' = FALSE
    /\ stand(r, "past")
    /\ UNCHANGED <<threaded, fired, runs>>

\* A hook raises, or the request is cancelled while it runs or waits: the
\* finally gives the claim up and the error leaves handle_request.
LatchFails(r) ==
    /\ at[r] \in {"hooks", "poll"}
    /\ running' = (running /\ at[r] # "hooks")
    /\ stand(r, "failed")
    /\ UNCHANGED <<threaded, fired, runs>>

LatchStep(r) ==
    read_fired(r) \/ claim(r) \/ HooksDone(r) \/ release(r) \/ LatchFails(r)

LatchNext == \E r \in Requests : LatchStep(r)

LatchSpec == LatchInit /\ [][LatchNext]_latchVars

\* A request that can go on does.  Hooks that have started end.
LatchFair ==
    \A r \in Requests :
        WF_latchVars(read_fired(r) \/ claim(r) \/ HooksDone(r) \/ release(r))

FairLatchSpec == LatchSpec /\ LatchFair

-----------------------------------------------------------------------------

Places == {"new", "claim", "poll", "hooks", "release", "past", "failed"}

LatchTypeOK ==
    /\ threaded \in Threading
    /\ fired \in BOOLEAN /\ running \in BOOLEAN
    /\ at \in [Requests -> Places]
    /\ runs \in Nat

\* The requests that hold the claim.
Holders == {r \in Requests : at[r] \in {"hooks", "release"}}

\* No request is dispatched before the hooks have run, no two run them at the
\* same time, and on one event loop they run to their end once, although a
\* run that raises is tried again by the next request.
FirstHooksOnce ==
    /\ \A r \in Requests : at[r] = "past" => fired
    /\ \A r, q \in Holders : r = q
    /\ ~threaded => runs <= 1

\* What makes FirstHooksOnce inductive: the claim is held by whoever runs the
\* hooks or is about to give it up, and on one loop a run under way has not
\* fired yet.
ClaimIsHeld == running <=> Holders # {}
ReleaseIsFired == \A r \in Requests : at[r] = "release" => fired
OneLoop ==
    ~threaded => /\ \A r \in Requests : at[r] # "claim" /\ (at[r] = "hooks" => ~fired)
                 /\ runs = (IF fired THEN 1 ELSE 0)

LatchInv == FirstHooksOnce /\ ClaimIsHeld /\ ReleaseIsFired /\ OneLoop

\* "Run the before_first_request hooks once per app, on any loop."
HooksOnceOnAnyLoop == runs <= 1

\* A request that waits for another's hooks gets to go on, or to run them.
WaitersProceed ==
    \A r \in Requests : (at[r] = "poll") ~> (at[r] # "poll")
=============================================================================
