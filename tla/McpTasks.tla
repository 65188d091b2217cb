------------------------------ MODULE McpTasks ------------------------------
(***************************************************************************)
(* The task registry of the MCP server (contrib/mcp/tasks.py and           *)
(* contrib/mcp/_tasks.py): tasks/call with a task field starts a runner    *)
(* that outlives its request; the owner polls and cancels it.              *)
(***************************************************************************)
EXTENDS Integers, FiniteSets

CONSTANTS Task,    \* task ids (uuid4 hex: never reused)
          NoOwner

VARIABLES status,      \* MCPTask.status, "none" before the task is made
          owner,       \* MCPTask.owner_key: the session object that made it
          registered,  \* keys of TaskRegistry.tasks
          runner,      \* tasks whose runner has not ended
          cancelling,  \* runners with a cancellation requested
          expired      \* tasks with now >= expires_at

taskVars == <<status, owner, registered, runner, cancelling, expired>>

Terminal == {"completed", "failed", "cancelled"}

TasksTypeOK ==
    /\ status \in [Task -> {"none", "working"} \cup Terminal]
    /\ registered \subseteq Task /\ runner \subseteq Task
    /\ cancelling \subseteq Task /\ expired \subseteq Task

TasksInit ==
    /\ status = [t \in Task |-> "none"]
    /\ owner = [t \in Task |-> NoOwner]
    /\ registered = {} /\ runner = {} /\ cancelling = {} /\ expired = {}

(* evict_expired: only a settled task is reaped, however late it is.       *)
Reaped == {t \in registered : t \in expired /\ status[t] \in Terminal}

(* owned_by: the tasks of the session objects os.                          *)
owned_by(os) == {t \in registered : owner[t] \in os}

SettleAlways(t, out) == [status EXCEPT ![t] = out]

(* settle: a terminal status stays.                                        *)
settle(t, out) ==
    IF status[t] \in Terminal THEN status ELSE [status EXCEPT ![t] = out]

(* _create_task for the session object o.                                  *)
create_task(t, o) ==
    /\ status[t] = "none"
    /\ status' = [status EXCEPT ![t] = "working"]
    /\ owner' = [owner EXCEPT ![t] = o]
    /\ registered' = (registered \ Reaped) \cup {t}
    /\ runner' = runner \cup {t}
    /\ UNCHANGED <<cancelling, expired>>

(* _lookup: what the caller o may see after the reaping.                   *)
Visible(t, o) == t \in registered \ Reaped /\ owner[t] = o

(* _cancel_task: settle first, then cancel the runner.                     *)
cancel_task(t) ==
    /\ status' = settle(t, "cancelled")
    /\ cancelling' = IF status[t] \in Terminal THEN cancelling ELSE cancelling \cup ({t} \cap runner)
    /\ registered' = registered \ Reaped
    /\ UNCHANGED <<owner, runner, expired>>

evict_tasks_only_drop(os) ==
    /\ registered' = registered \ owned_by(os)
    /\ UNCHANGED <<status, owner, runner, cancelling, expired>>

(* evict_session: cancel the runners that are not done, drop the tasks.    *)
evict_tasks(os) ==
    /\ cancelling' = cancelling \cup {t \in owned_by(os) \cap runner : status[t] \notin Terminal}
    /\ registered' = registered \ owned_by(os)
    /\ UNCHANGED <<status, owner, runner, expired>>

(* _run_task ends: a result, an in-band error or InvalidParamsError. A     *)
(* tool may swallow the CancelledError and still return.                   *)
run_task(t, out) ==
    /\ t \in runner /\ out \in {"completed", "failed"}
    /\ status' = settle(t, out)
    /\ runner' = runner \ {t}
    /\ cancelling' = cancelling \ {t}
    /\ UNCHANGED <<owner, registered, expired>>

(* _run_task unwinds on its cancellation: it settles nothing.              *)
run_task_cancelled(t) ==
    /\ t \in runner \cap cancelling
    /\ runner' = runner \ {t}
    /\ cancelling' = cancelling \ {t}
    /\ UNCHANGED <<status, owner, registered, expired>>

(* Time passes the ttl of a task.                                          *)
Expire(t) ==
    /\ t \in registered \ expired
    /\ expired' = expired \cup {t}
    /\ UNCHANGED <<status, owner, registered, runner, cancelling>>

(* What a poll of the owner reports: it reaps before it looks.             *)
Polled == [t \in Task |-> IF status[t] = "none" THEN "none"
                          ELSE IF t \in registered \ Reaped THEN status[t] ELSE "gone"]
=============================================================================
