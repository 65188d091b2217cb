------------------------------ MODULE Signals ------------------------------
(***************************************************************************)
(* A signal (signals.py): receivers connect, strongly or through a weak    *)
(* reference, and disconnect; the four ways to send walk the list of       *)
(* subscriptions and call each receiver from inside the walk, and drop the *)
(* references that died.  A receiver may connect and disconnect while it   *)
(* is called, and may raise.  The two asynchronous ways call coroutine     *)
(* functions in the walk and run what they returned together after it.     *)
(***************************************************************************)
EXTENDS Integers, Sequences, FiniteSets, SequencesExt

CONSTANTS Receivers,
          Asyncs,     \* those that are coroutine functions
          Filtered,   \* those subscribed for the sender "own" only
          MaxSends

\* What the constants have to satisfy.
SignalsAssumption == Asyncs \subseteq Receivers /\ Filtered \subseteq Receivers

VARIABLES subs,    \* _subs
          dead,    \* receivers that were collected
          walk,    \* the send: which of the four, its sender, where it is,
                   \* its position, its live list, whom it called and with
                   \* what outcome, and whether it raised
          due,     \* receivers that were there all through the walk
          quiet,   \* nobody disconnected during a walk
          wanted,  \* receivers connected and not disconnected
          sends

vars == <<subs, dead, walk, due, quiet, wanted, sends>>

Ways == {"send", "send_robust", "asend", "send_robust_async"}
Robust == {"send_robust", "send_robust_async"}
Awaiting == {"asend", "send_robust_async"}
Senders == {"own", "other"}
Outcomes == {"value", "error", "handed back", "refused", "pending"}

Idle == [pc |-> "idle", way |-> "send", sender |-> "own", at |-> 1, live |-> <<>>,
         called |-> <<>>, out |-> <<>>, raised |-> FALSE]

Init ==
    /\ subs = <<>> /\ dead = {} /\ walk = Idle /\ due = {} /\ quiet = TRUE
    /\ wanted = {} /\ sends = 0

(* connect, from anywhere, a receiver during a send included.              *)
connect(r) ==
    /\ r \notin dead /\ r \notin Range(subs)
    /\ subs' = Append(subs, r) /\ wanted' = wanted \cup {r}
    /\ UNCHANGED <<dead, walk, due, quiet, sends>>

(* disconnect: the first subscription of the receiver.                     *)
disconnect(r) ==
    /\ r \notin dead
    /\ \E i \in DOMAIN subs : /\ subs[i] = r /\ \A j \in 1 .. i - 1 : subs[j] # r
                            /\ subs' = RemoveAt(subs, i)
    /\ wanted' = wanted \ {r} /\ due' = due \ {r}
    /\ quiet' = (quiet /\ walk.pc # "walking")
    /\ UNCHANGED <<dead, walk, sends>>

(* The last strong reference to a receiver goes.                           *)
collect(r) ==
    /\ r \notin dead /\ r \in Range(subs)
    /\ dead' = dead \cup {r} /\ wanted' = wanted \ {r} /\ due' = due \ {r}
    /\ UNCHANGED <<subs, walk, quiet, sends>>

_matches(r, sender) == r \notin Filtered \/ sender = "own"

(* One of the four sends begins; without a subscription it returns at      *)
(* once.                                                                   *)
send(way, sender) ==
    /\ walk.pc = "idle" /\ subs # <<>> /\ sends < MaxSends
    /\ walk' = [Idle EXCEPT !.pc = "walking", !.way = way, !.sender = sender]
    /\ sends' = sends + 1
    /\ due' = {r \in wanted : _matches(r, sender)}
    /\ UNCHANGED <<subs, dead, quiet, wanted>>

(* What a call that does not raise comes to: a coroutine is handed to the  *)
(* caller by send, closed and reported by send_robust, and put by for the  *)
(* end of the walk by the other two.                                       *)
returned(r) ==
    CASE r \notin Asyncs -> "value"
      [] walk.way = "send" -> "handed back"
      [] walk.way = "send_robust" -> "refused"
      [] OTHER -> "pending"

(* _iter_live_pairs: one turn of the walk over the list as it is now, and  *)
(* the call of the receiver it yields.  Calling a coroutine function does  *)
(* not raise.                                                              *)
Step(r, out) ==
    walk' = [walk EXCEPT !.at = @ + 1,
                         !.live = IF r \in dead THEN @ ELSE Append(@, r),
                         !.called = IF out = "" THEN @ ELSE Append(@, r),
                         !.out = IF out = "" THEN @ ELSE Append(@, out)]
turn ==
    /\ walk.pc = "walking" /\ walk.at <= Len(subs)
    /\ LET r == subs[walk.at] IN
       IF r \in dead \/ ~_matches(r, walk.sender) THEN Step(r, "")
       ELSE \/ Step(r, returned(r))
            \/ r \notin Asyncs /\ walk.way \in Robust /\ Step(r, "error")
    /\ UNCHANGED <<subs, dead, due, quiet, wanted, sends>>

(* A receiver raises under send or asend: the walk is given up where it    *)
(* is, nothing is pruned, and coroutines put by are never run.             *)
raises ==
    /\ walk.pc = "walking" /\ walk.at <= Len(subs) /\ walk.way \notin Robust
    /\ subs[walk.at] \notin dead \cup Asyncs /\ _matches(subs[walk.at], walk.sender)
    /\ walk' = [walk EXCEPT !.pc = "idle", !.raised = TRUE]
    /\ UNCHANGED <<subs, dead, due, quiet, wanted, sends>>

Pending(out) == {i \in DOMAIN out : out[i] = "pending"}

PrunedToCalled == IF Len(walk.called) # Len(subs) THEN walk.called ELSE subs

(* The walk ends: the live ones replace the list when the lengths differ.  *)
pruned == IF Len(walk.live) # Len(subs) THEN walk.live ELSE subs
finish ==
    /\ walk.pc = "walking" /\ walk.at > Len(subs)
    /\ subs' = pruned
    /\ walk' = [walk EXCEPT !.pc = IF Pending(walk.out) = {} THEN "idle" ELSE "awaiting"]
    /\ UNCHANGED <<dead, due, quiet, wanted, sends>>

(* _run_async_concurrently: one of the coroutines ends; after the last the *)
(* send returns, asend by raising the first error there is.                *)
settle(i, out) ==
    /\ walk.pc = "awaiting" /\ i \in Pending(walk.out)
    /\ LET outs == [walk.out EXCEPT ![i] = out] IN
       walk' = [walk EXCEPT !.out = outs,
                            !.pc = IF Pending(outs) = {} THEN "idle" ELSE @,
                            !.raised = /\ Pending(outs) = {} /\ walk.way = "asend"
                                       /\ "error" \in Range(outs)]
    /\ UNCHANGED <<subs, dead, due, quiet, wanted, sends>>

Next ==
    \/ \E r \in Receivers : connect(r) \/ disconnect(r) \/ collect(r)
    \/ \E way \in Ways, sender \in Senders : send(way, sender)
    \/ turn \/ raises \/ finish
    \/ \E i \in DOMAIN walk.out, out \in {"value", "error"} : settle(i, out)

Spec == Init /\ [][Next]_vars

-----------------------------------------------------------------------------
Ended == walk.pc = "idle" /\ sends > 0

(* A walk that was not given up ends with whoever was subscribed all       *)
(* through it called, once, and still subscribed.  A receiver that         *)
(* disconnects during the walk makes the next one be passed over, and when *)
(* a dead reference is pruned at the end that one is unsubscribed and the  *)
(* first comes back.                                                       *)
SendReachesAll ==
    Ended => /\ Len(walk.called) = Len(walk.out)
             /\ IsInjective(walk.called)
             /\ wanted \subseteq Range(subs)
             /\ ~walk.raised => due \subseteq Range(walk.called)

(* A send that does not raise leaves no coroutine running, and asend none  *)
(* that failed; the robust ways do not raise.                              *)
NothingLeftRunning ==
    Ended => /\ ~walk.raised => Pending(walk.out) = {}
             /\ walk.way = "asend" /\ ~walk.raised => Range(walk.out) \subseteq {"value"}
             /\ walk.way \in Robust => ~walk.raised

(* Whoever disconnected is no longer called.                               *)
DisconnectedStaysOut == (Range(subs) \ dead) \subseteq wanted

(* All of it holds as long as nobody disconnects in the middle of a walk.  *)
QuietSendReachesAll ==
    quiet => SendReachesAll /\ NothingLeftRunning /\ DisconnectedStaysOut
=============================================================================
