------------------------------ MODULE TaskLife ------------------------------
(***************************************************************************)
(* What the MCP tasks capability promises a client that polls a task: it   *)
(* is created once, it settles at most once, a settled status and its      *)
(* result never change, and a task that is forgotten does not return.      *)
(***************************************************************************)
CONSTANT Task

VARIABLE state  \* state[t]: what tasks/get on t reports

Settled == {"completed", "failed", "cancelled"}
States == {"none", "working", "gone"} \cup Settled

(* A task may be settled and forgotten between two polls, and forgotten    *)
(* without having been settled (its session ended).                        *)
Moves == {<<"none", "working">>} \cup ({"working"} \X Settled)
         \cup (({"working"} \cup Settled) \X {"gone"})

LifeInit == state = [t \in Task |-> "none"]

LifeNext ==
    /\ state' \in [Task -> States]
    /\ \A t \in Task : state'[t] # state[t] => <<state[t], state'[t]>> \in Moves

Spec == LifeInit /\ [][LifeNext]_state
=============================================================================
