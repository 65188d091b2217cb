---------------------------- MODULE RedisLimits ----------------------------
(***************************************************************************)
(* RedisRateLimitBackend: one key of a shared Redis server, evaluated by   *)
(* several workers.  A strategy's script runs on the server in one step,   *)
(* found by a digest the server may have forgotten; a server without       *)
(* scripting is given WATCH, GET and MULTI/EXEC, retried when another      *)
(* worker wrote in between, and after the last retry a GET and a SET.      *)
(* The strategy is a counter that refuses at Budget; a refusal writes its  *)
(* state back too.                                                         *)
(***************************************************************************)
EXTENDS Naturals, FiniteSets

CONSTANTS
    RedisWorkers,   \* processes sharing the key
    Budget,         \* requests the strategy admits
    WatchRetries,   \* _MAX_WATCH_RETRIES, 8 in the code
    MaxCalls        \* bound: evaluations begun

RedisAssumption == {Budget, WatchRetries, MaxCalls} \subseteq Nat

VARIABLES
    scripting,  \* the server has EVALSHA
    loaded,     \* the server's script cache holds the script
    count,      \* the value of the key
    version,    \* writes to the key, as WATCH sees them
    wk,         \* per worker: where it is and what it read
    calls,      \* evaluations begun
    admitted,   \* history: requests let through
    fellback    \* history: some evaluation ran out of retries

vars == <<scripting, loaded, count, version, wk, calls, admitted, fellback>>

Fresh == [pc |-> "idle", digest |-> FALSE, plain |-> FALSE, again |-> FALSE,
          watched |-> 0, seen |-> 0, tries |-> 0]

Init ==
    /\ scripting \in BOOLEAN
    /\ loaded = FALSE
    /\ count = 0 /\ version = 0
    /\ wk = [w \in RedisWorkers |-> Fresh]
    /\ calls = 0 /\ admitted = 0 /\ fellback = FALSE

(* strategy.evaluate on a value, written back: a plain counter, which is   *)
(* SlidingWindow within one window that nothing came before (RateLimit has *)
(* every strategy with its windows).                                       *)
Written(seen) == IF seen < Budget THEN seen + 1 ELSE seen

Ends(w, seen) ==
    /\ count' = Written(seen)
    /\ version' = version + 1
    /\ admitted' = IF seen < Budget THEN admitted + 1 ELSE admitted
    /\ wk' = [wk EXCEPT ![w].pc = "idle", ![w].again = FALSE, ![w].tries = 0]

Goes(w, pc) == wk' = [wk EXCEPT ![w].pc = pc]

----------------------------------------------------------------------------
evaluate(w) ==
    /\ wk[w].pc = "idle" /\ calls < MaxCalls
    /\ calls' = calls + 1
    /\ Goes(w, IF wk[w].plain THEN "watch" ELSE IF wk[w].digest THEN "evalsha" ELSE "load")
    /\ UNCHANGED <<scripting, loaded, count, version, admitted, fellback>>

(* script_load: a digest, or the "unknown command" that turns scripting    *)
(* off for this backend.                                                   *)
script_load(w) ==
    /\ wk[w].pc = "load"
    /\ IF scripting
       THEN /\ loaded' = TRUE
            /\ wk' = [wk EXCEPT ![w].pc = "evalsha", ![w].digest = TRUE]
       ELSE /\ wk' = [wk EXCEPT ![w].pc = "watch", ![w].plain = TRUE]
            /\ UNCHANGED loaded
    /\ UNCHANGED <<scripting, count, version, calls, admitted, fellback>>

(* evalsha: the script, or NoScriptError: loaded again once, then raised.  *)
_evaluate_lua(w) ==
    /\ wk[w].pc = "evalsha"
    /\ \/ loaded /\ Ends(w, count)
       \/ /\ ~loaded
          /\ wk' = [wk EXCEPT ![w].pc = IF wk[w].again THEN "idle" ELSE "load",
                              ![w].again = ~wk[w].again]
          /\ UNCHANGED <<count, version, admitted>>
    /\ UNCHANGED <<scripting, loaded, calls, fellback>>

ScriptsFlushed ==
    /\ loaded
    /\ loaded' = FALSE
    /\ UNCHANGED <<scripting, count, version, wk, calls, admitted, fellback>>

----------------------------------------------------------------------------
Watch(w) ==
    /\ wk[w].pc = "watch"
    /\ wk' = [wk EXCEPT ![w].pc = "get", ![w].watched = version]
    /\ UNCHANGED <<scripting, loaded, count, version, calls, admitted, fellback>>

Get(w) ==
    /\ wk[w].pc \in {"get", "last get"}
    /\ wk' = [wk EXCEPT ![w].pc = IF @ = "get" THEN "exec" ELSE "set", ![w].seen = count]
    /\ UNCHANGED <<scripting, loaded, count, version, calls, admitted, fellback>>

ExecBlind(w) ==
    /\ wk[w].pc = "exec"
    /\ Ends(w, wk[w].seen)
    /\ UNCHANGED <<scripting, loaded, calls, fellback>>

(* MULTI, SET, EXEC: the write of a key nobody else wrote since WATCH, or  *)
(* WatchError and another try.                                             *)
Exec(w) ==
    /\ wk[w].pc = "exec"
    /\ IF wk[w].watched = version
       THEN Ends(w, wk[w].seen) /\ UNCHANGED fellback
       ELSE /\ wk' = [wk EXCEPT ![w].tries = @ + 1,
                         ![w].pc = IF wk[w].tries + 1 < WatchRetries THEN "watch" ELSE "last get"]
            /\ fellback' = (fellback \/ wk[w].tries + 1 >= WatchRetries)
            /\ UNCHANGED <<count, version, admitted>>
    /\ UNCHANGED <<scripting, loaded, calls>>

(* The non-atomic SET after the last retry.                                *)
Fallback(w) ==
    /\ wk[w].pc = "set"
    /\ Ends(w, wk[w].seen)
    /\ UNCHANGED <<scripting, loaded, calls, fellback>>

Next ==
    \/ \E w \in RedisWorkers :
          \/ evaluate(w) \/ script_load(w) \/ _evaluate_lua(w)
          \/ Watch(w) \/ Get(w) \/ Exec(w) \/ Fallback(w)
    \/ ScriptsFlushed

Spec == Init /\ [][Next]_vars

----------------------------------------------------------------------------
(* Workers sharing a key admit no more than the strategy's budget between  *)
(* them, with scripts that are forgotten and reloaded and with watched     *)
(* writes that are retried, as long as none runs out of retries.           *)
SharedBudgetHolds == fellback \/ admitted <= Budget

(* Why: until then what was admitted is what the key holds, and a watched   *)
(* write that goes through writes over the value it read.                  *)
Worker == [pc : {"idle", "load", "evalsha", "watch", "get", "last get", "exec", "set"},
           digest : BOOLEAN, plain : BOOLEAN, again : BOOLEAN,
           watched : Nat, seen : Nat, tries : Nat]

TypeOK ==
    /\ scripting \in BOOLEAN /\ loaded \in BOOLEAN /\ fellback \in BOOLEAN
    /\ count \in Nat /\ version \in Nat /\ calls \in Nat /\ admitted \in Nat
    /\ wk \in [RedisWorkers -> Worker]

ReadsStandFast ==
    fellback
    \/ /\ admitted = count /\ count <= Budget
       /\ \A w \in RedisWorkers :
             /\ wk[w].pc \notin {"last get", "set"}
             /\ wk[w].watched <= version
             /\ wk[w].pc = "exec" /\ wk[w].watched = version => wk[w].seen = count

(* They never do: after WatchRetries conflicts the last write is blind.    *)
BudgetAlwaysHolds == admitted <= Budget
============================================================================
