--------------------------- MODULE McpHttpProofs ---------------------------
(***************************************************************************)
(* For any number of sessions, requests, tasks and ids, any limits of the  *)
(* stores, with and without a backend: McpHttp implements TaskLife; streams*)
(* are exact; sinks belong to runners; dropped tasks are cancelled.        *)
(***************************************************************************)
EXTENDS McpHttp, FiniteSetTheorems, SequenceTheorems, TLAPS

(* A task has one of the statuses of MCPTask, or has not been made; what   *)
(* is registered or running has been made.                                 *)
TasksMade ==
    /\ status \in [Task -> {"none", "working"} \cup Terminal]
    /\ \A t \in Task : t \in registered \cup runner => status[t] # "none"

(* How a step may change tasks: a status is settled once, what is made     *)
(* becomes registered, nothing is registered again, and time only passes.  *)
TaskStep ==
    /\ \A t \in Task : \/ status'[t] = status[t]
                       \/ status[t] = "none" /\ status'[t] = "working" /\ t \in registered'
                       \/ status[t] = "working" /\ status'[t] \in Terminal
    /\ \A t \in Task : t \in registered' => t \in registered \/ status[t] = "none"
    /\ expired \subseteq expired'
    /\ \A t \in Task : t \in runner' /\ status'[t] = "working" /\ t \notin registered' =>
          \/ t \in cancelling'
          \/ t \in runner /\ status[t] = "working" /\ t \notin registered /\ t \notin cancelling

\* Such a step moves what is polled as TaskLife promises.
LEMMA StepIsPromised ==
    ASSUME TasksMade, TasksMade', TaskStep PROVE Life!LifeNext
<1>1. Polled' \in [Task -> Life!States]
    BY DEF Polled, TasksMade, Terminal, Life!States, Life!Settled
<1>2. ASSUME NEW t \in Task, Polled'[t] # Polled[t]
      PROVE <<Polled[t], Polled'[t]>> \in Life!Moves
  <2>1. CASE status[t] = "none"
    <3>1. Polled[t] = "none" /\ status'[t] # "none"
        BY <1>2, <2>1 DEF Polled
    <3>2. status'[t] = "working" /\ t \in registered'
        BY <1>2, <2>1, <3>1 DEF TaskStep
    <3>3. Polled'[t] = "working"
        BY <3>2 DEF Polled, Reaped, Terminal
    <3>4. QED
        BY <3>1, <3>3 DEF Life!Moves
  <2>2. CASE status[t] # "none" /\ t \in registered \ Reaped
    <3>1. Polled[t] = status[t] /\ status[t] \in {"working"} \cup Life!Settled
        BY <1>2, <2>2 DEF Polled, TasksMade, Terminal, Life!Settled
    <3>2. \/ status'[t] = status[t]
          \/ status[t] = "working" /\ status'[t] \in Life!Settled
        BY <1>2, <2>2 DEF TaskStep, Terminal, Life!Settled
    <3>3. Polled'[t] = "gone" \/ Polled'[t] = status'[t]
        BY <3>1, <3>2 DEF Polled
    <3>4. QED
        BY <1>2, <3>1, <3>2, <3>3 DEF Life!Moves
  <2>3. CASE status[t] # "none" /\ t \notin registered \ Reaped
    <3>1. Polled[t] = "gone"
        BY <1>2, <2>3 DEF Polled
    <3>2. status'[t] # "none"
        BY <1>2, <2>3 DEF TaskStep, Terminal
    <3>3. t \in registered' => t \in Reaped'
        BY <1>2, <2>3 DEF TaskStep, Reaped, Terminal
    <3>4. Polled'[t] = "gone"
        BY <3>2, <3>3 DEF Polled
    <3>5. QED
        BY <1>2, <3>1, <3>4
  <2>4. QED
    BY <2>1, <2>2, <2>3
<1>3. QED
    BY <1>1, <1>2 DEF Life!LifeNext

\* _create_task: the id has never been seen.
LEMMA CreateStep ==
    ASSUME TasksMade, NEW t, NEW o, create_task(t, o) PROVE TasksMade' /\ TaskStep
BY DEF TasksMade, TaskStep, create_task, Reaped, Terminal

\* _cancel_task: settle() leaves a terminal status alone.
LEMMA CancelStep ==
    ASSUME TasksMade, NEW t \in registered, cancel_task(t) PROVE TasksMade' /\ TaskStep
BY DEF TasksMade, TaskStep, cancel_task, settle, Reaped, Terminal

\* evict_expired, by itself.
LEMMA ReapStep ==
    ASSUME TasksMade, registered' = registered \ Reaped,
           UNCHANGED <<status, owner, runner, cancelling, expired>>
    PROVE  TasksMade' /\ TaskStep
BY DEF TasksMade, TaskStep, Reaped, Terminal

\* evict_session, for whichever session objects leave the store.
LEMMA EvictStep ==
    ASSUME TasksMade, NEW os, evict_tasks(os) PROVE TasksMade' /\ TaskStep
BY DEF TasksMade, TaskStep, evict_tasks, owned_by, Terminal

\* _run_task: its result comes late if the task was cancelled.
LEMMA RunStep ==
    ASSUME TasksMade, NEW t, NEW out, run_task(t, out) PROVE TasksMade' /\ TaskStep
BY DEF TasksMade, TaskStep, run_task, settle, Terminal

\* _run_task, cancelled.
LEMMA UnwindStep ==
    ASSUME TasksMade, NEW t, run_task_cancelled(t) PROVE TasksMade' /\ TaskStep
BY DEF TasksMade, TaskStep, run_task_cancelled

\* The ttl of a task passes.
LEMMA ExpireStep ==
    ASSUME TasksMade, NEW t, Expire(t) PROVE TasksMade' /\ TaskStep
BY DEF TasksMade, TaskStep, Expire

\* Whatever leaves the tasks alone.
LEMMA OtherStep ==
    ASSUME TasksMade, UNCHANGED taskVars PROVE TasksMade' /\ TaskStep
BY DEF TasksMade, TaskStep, taskVars

\* The task registry changes by these steps only, whichever action of the
\* transport makes them; session evictions ride on any of them.
LEMMA TransportStep ==
    ASSUME TasksMade, [Next]_vars PROVE TasksMade' /\ TaskStep
<1>1. ASSUME NEW r, NEW s, Initialize(r, s)
      PROVE TasksMade' /\ TaskStep
    BY <1>1, EvictStep DEF Initialize
<1>2. ASSUME NEW r, NEW k, NEW s, NEW i, NEW a, Arrive(r, k, s, i, a)
      PROVE TasksMade' /\ TaskStep
    BY <1>2, EvictStep DEF Arrive
<1>3. ASSUME NEW r, RunTask(r) PROVE TasksMade' /\ TaskStep
    BY <1>3, CreateStep DEF RunTask
<1>4. ASSUME NEW r, RunTaskCancel(r) PROVE TasksMade' /\ TaskStep
  <2>1. CASE Visible(rq[r].arg, rq[r].obj)
    <3>1. rq[r].arg \in registered /\ cancel_task(rq[r].arg)
        BY <1>4, <2>1 DEF RunTaskCancel, Visible
    <3>2. QED
        BY <3>1, CancelStep
  <2>2. CASE ~Visible(rq[r].arg, rq[r].obj)
    <3>1. registered' = registered \ Reaped
          /\ UNCHANGED <<status, owner, runner, cancelling, expired>>
        BY <1>4, <2>2 DEF RunTaskCancel
    <3>2. QED
        BY <3>1, ReapStep
  <2>3. QED
    BY <2>1, <2>2
<1>5. ASSUME NEW r, Resolved(r) PROVE TasksMade' /\ TaskStep
    BY <1>5, EvictStep DEF Resolved
<1>6. ASSUME NEW r, Resume(r) PROVE TasksMade' /\ TaskStep
    BY <1>6, EvictStep DEF Resume
<1>7. ASSUME NEW s, Delete(s) PROVE TasksMade' /\ TaskStep
    BY <1>7, EvictStep DEF Delete
<1>8. ASSUME NEW t, TaskUnwinds(t) PROVE TasksMade' /\ TaskStep
    BY <1>8, UnwindStep DEF TaskUnwinds
<1>9. ASSUME NEW t, TaskExpires(t) PROVE TasksMade' /\ TaskStep
    BY <1>9, ExpireStep DEF TaskExpires
<1>10. ASSUME NEW t, NEW out, TaskEnds(t, out)
       PROVE TasksMade' /\ TaskStep
    BY <1>10, RunStep DEF TaskEnds
<1>11. ASSUME NEW r,
              \/ RunAtOnce(r) \/ RunCall(r) \/ RunListen(r) \/ ToolReturns(r)
              \/ CallCancelled(r) \/ Persisted(r) \/ ListenEnds(r) \/ CreateWritten(r)
              \/ NeverStarted(r) \/ ToolEmits(r) \/ Deliver(r) \/ Disconnect(r)
       PROVE UNCHANGED taskVars
    BY <1>11 DEF RunAtOnce, RunCall, RunListen, ToolReturns, CallCancelled, Persisted, ListenEnds,
        CreateWritten, NeverStarted, ToolEmits, Deliver, Disconnect
<1>12. ASSUME \/ \E s \in Session : DeleteShared(s)
              \/ GoesIdle \/ AppNotifies \/ UNCHANGED vars
       PROVE UNCHANGED taskVars
    BY <1>12 DEF DeleteShared, GoesIdle, AppNotifies, vars
<1>13. ASSUME NEW r, RunnerStep(r) PROVE TasksMade' /\ TaskStep
    BY <1>3, <1>4, <1>5, <1>11, <1>13, OtherStep DEF RunnerStep
<1>14. CASE Next
    BY <1>1, <1>2, <1>6, <1>7, <1>8, <1>9, <1>10, <1>11, <1>12, <1>13, <1>14, OtherStep DEF Next
<1>15. QED
    BY <1>12, <1>14, OtherStep

\* McpHttp implements TaskLife: a task is made once, settles once, keeps its
\* status and does not return once forgotten, whatever cancellations, late
\* results, expiries and evictions race (contrib/mcp/tasks.py).
THEOREM TasksKeepTheirPromise == Spec => TasksAreOneShot
<1>1. Init => TasksMade /\ Life!LifeInit
    BY DEF Init, TasksInit, TasksMade, Life!LifeInit, Polled
<1>2. TasksMade /\ [Next]_vars => TasksMade' /\ Life!LifeNext
    BY TransportStep, StepIsPromised
<1>3. QED
    BY <1>1, <1>2, PTL DEF Spec, TasksAreOneShot, Life!Spec

-----------------------------------------------------------------------------
Payload == {"ack", "progress", "note", "status", "answer"}

(* RingIsTail and RingIsWhole of one stream: what was said, what waits,    *)
(* what arrived, the ring and the link.                                    *)
EndsWith(sd, lg) == Len(lg) <= Len(sd) /\ \A n \in DOMAIN lg : lg[n] = Len(sd) - Len(lg) + n

Whole(sd, q, g, lg, lk) ==
    /\ EndsWith(sd, lg)
    /\ Len(lg) = Len(sd) =>
        /\ Len(g) <= Len(sd) /\ \A n \in DOMAIN g : g[n] = n
        /\ lk = "open" => /\ Len(g) + Len(q) = Len(sd)
                          /\ \A n \in DOMAIN q : q[n] = Len(g) + n

\* LastOf is a suffix: the last n elements, or everything.
LEMMA LastOfType ==
    ASSUME NEW S, NEW q \in Seq(S), NEW n \in Nat
    PROVE  /\ LastOf(q, n) \in Seq(S)
           /\ Len(q) <= n => LastOf(q, n) = q
           /\ Len(q) > n => /\ Len(LastOf(q, n)) = n
                            /\ \A i \in 1 .. n : LastOf(q, n)[i] = q[(Len(q) - n) + i]
<1>3. PICK k \in Nat : k = Len(q)
    BY LenProperties
<1>4. SUFFICES /\ LastOf(q, n) \in Seq(S)
               /\ k <= n => LastOf(q, n) = q
               /\ k > n => /\ Len(LastOf(q, n)) = n
                           /\ \A i \in 1 .. n : LastOf(q, n)[i] = q[(k - n) + i]
    BY <1>3
<1>1. CASE k <= n
    BY <1>1, <1>3 DEF LastOf
<1>2. CASE k > n
    <2>2. DOMAIN q = 1 .. k /\ \A i \in 1 .. k : q[i] \in S
        BY <1>3, LenProperties, ElementOfSeq
    <2>3. \A i \in (k - n + 1) .. k : q[i] \in S
        BY <1>2, <2>2
    <2>4. PICK m \in Int : m = k - n + 1
        OBVIOUS
    <2>5. LastOf(q, n) = SubSeq(q, m, k)
        BY <1>2, <1>3, <2>4 DEF LastOf
    <2>6. /\ SubSeq(q, m, k) \in Seq(S)
          /\ Len(SubSeq(q, m, k)) = IF m <= k THEN k - m + 1 ELSE 0
          /\ \A i \in 1 .. k - m + 1 : SubSeq(q, m, k)[i] = q[m + i - 1]
        <3>1. m \in Int /\ k \in Int /\ \A i \in m .. k : q[i] \in S
            BY <1>3, <2>3, <2>4
        <3> QED
            BY <3>1, SubSeqProperties
    <2>7. k - m + 1 = n /\ (~(m <= k) => n = 0)
        BY <1>2, <2>4
    <2>8. ASSUME NEW i \in 1 .. n PROVE SubSeq(q, m, k)[i] = q[(k - n) + i]
        <3>1. m + i - 1 = (k - n) + i
            BY <2>4, <2>8
        <3> QED
            BY <2>6, <2>7, <2>8, <3>1
    <2> QED
        BY <1>2, <2>5, <2>6, <2>7, <2>8
<1> QED
    BY <1>1, <1>2

\* A sequence followed by the positions a + 1, a + 2, ... of what is added.
LEMMA Counted ==
    ASSUME NEW q \in Seq(Nat), NEW c \in Nat, c = Len(q), NEW a \in Nat, NEW b \in Nat,
           NEW ps, ps = [i \in 1 .. b |-> a + i], NEW y, y = q \o ps
    PROVE  /\ y \in Seq(Nat) /\ Len(y) = c + b /\ DOMAIN y = 1 .. (c + b)
           /\ \A i \in 1 .. c : y[i] = q[i]
           /\ \A i \in 1 .. b : y[c + i] = a + i
<1>1. ps \in Seq(Nat) /\ Len(ps) = b
    OBVIOUS
<1>2. /\ y \in Seq(Nat) /\ Len(y) = c + b
      /\ \A i \in 1 .. (Len(q) + Len(ps)) : y[i] = IF i <= Len(q) THEN q[i] ELSE ps[i - Len(q)]
    BY <1>1, ConcatProperties
<1>3. DOMAIN y = 1 .. (c + b)
    BY <1>2, LenProperties
<1>4. ASSUME NEW i \in 1 .. c PROVE y[i] = q[i]
    <2>1. i \in 1 .. (c + b) /\ i <= c
        BY <1>4
    <2> QED
        BY <1>1, <1>2, <2>1
<1>5. ASSUME NEW i \in 1 .. b PROVE y[c + i] = a + i
    <2>1. PICK n \in Nat : n = c + i
        BY <1>5
    <2>2. n \in 1 .. (c + b) /\ ~(n <= c) /\ n - c = i
        BY <1>5, <2>1
    <2>3. y[n] = ps[n - c]
        BY <1>1, <1>2, <2>2
    <2>4. ps[i] = a + i
        BY <1>5
    <2> QED
        BY <2>1, <2>2, <2>3, <2>4
<1> QED
    BY <1>2, <1>3, <1>4, <1>5

(* Sends, on one stream: m is said on it, q2 and lg2 are its queue and its *)
(* ring afterwards, lk2 its link, which may have opened for it.            *)
SaidOn(sd, m, q, g, lg, lk, lk2, q2, lg2) ==
    LET ps == [i \in 1 .. Len(m) |-> Len(sd) + i]
    IN /\ lk2 = lk \/ (sd = <<>> /\ q = <<>> /\ g = <<>>)
       /\ q2 = IF lk2 = "open" THEN q \o ps ELSE q
       /\ lg2 = LastOf(lg \o ps, RingSize) \/ lg2 = <<>>

\* send: what is said goes to the queue and to the ring in the same order,
\* so the ring stays a tail, and while it is whole nothing is missing.
LEMMA WholeSends ==
    ASSUME NEW sd \in Seq(Payload), NEW m \in Seq(Payload), NEW q \in Seq(Nat), NEW g \in Seq(Nat),
           NEW lg \in Seq(Nat), NEW lk, NEW lk2, NEW q2, NEW lg2,
           Whole(sd, q, g, lg, lk), SaidOn(sd, m, q, g, lg, lk, lk2, q2, lg2)
    PROVE  /\ Whole(sd \o m, q2, g, lg2, lk2)
           /\ sd \o m \in Seq(Payload) /\ q2 \in Seq(Nat) /\ lg2 \in Seq(Nat)
<1>1. PICK a \in Nat, b \in Nat, c \in Nat, d \in Nat, e \in Nat :
         a = Len(sd) /\ b = Len(m) /\ c = Len(q) /\ d = Len(g) /\ e = Len(lg)
    BY LenProperties
<1>2. /\ DOMAIN sd = 1 .. a /\ DOMAIN m = 1 .. b /\ DOMAIN q = 1 .. c /\ DOMAIN g = 1 .. d /\ DOMAIN lg = 1 .. e
    BY <1>1, LenProperties
<1>3. PICK ps : ps = [i \in 1 .. b |-> a + i]
    OBVIOUS
<1>11. ps \in Seq(Nat) /\ Len(ps) = b /\ \A i \in 1 .. b : ps[i] = a + i
    BY <1>1, <1>3
<1>4. sd \o m \in Seq(Payload) /\ Len(sd \o m) = a + b
    BY <1>1, ConcatProperties
<1>12. PICK y, z : y = q \o ps /\ z = lg \o ps
    OBVIOUS
<1>5. /\ y \in Seq(Nat) /\ Len(y) = c + b /\ DOMAIN y = 1 .. (c + b)
      /\ \A i \in 1 .. c : y[i] = q[i]
      /\ \A i \in 1 .. b : y[c + i] = a + i
    BY <1>1, <1>3, <1>12, Counted
<1>6. /\ z \in Seq(Nat) /\ Len(z) = e + b /\ DOMAIN z = 1 .. (e + b)
      /\ \A i \in 1 .. e : z[i] = lg[i]
      /\ \A i \in 1 .. b : z[e + i] = a + i
    BY <1>1, <1>3, <1>12, Counted
<1>7. /\ LastOf(z, RingSize) \in Seq(Nat)
      /\ e + b <= RingSize => LastOf(z, RingSize) = z
      /\ e + b > RingSize => /\ Len(LastOf(z, RingSize)) = RingSize
                             /\ \A i \in 1 .. RingSize : LastOf(z, RingSize)[i] = z[((e + b) - RingSize) + i]
    <2>1. PICK k \in Nat : k = e + b
        OBVIOUS
    <2>2. RingSize \in Nat
        BY McpAssumption
    <2>3. /\ LastOf(z, RingSize) \in Seq(Nat)
          /\ k <= RingSize => LastOf(z, RingSize) = z
          /\ k > RingSize => /\ Len(LastOf(z, RingSize)) = RingSize
                             /\ \A i \in 1 .. RingSize : LastOf(z, RingSize)[i] = z[(k - RingSize) + i]
        <3>1. k = Len(z)
            BY <1>6, <2>1
        <3>2. z \in Seq(Nat)
            BY <1>6
        <3>3. /\ LastOf(z, RingSize) \in Seq(Nat)
              /\ Len(z) <= RingSize => LastOf(z, RingSize) = z
              /\ Len(z) > RingSize => /\ Len(LastOf(z, RingSize)) = RingSize
                                      /\ \A i \in 1 .. RingSize :
                                            LastOf(z, RingSize)[i] = z[(Len(z) - RingSize) + i]
            BY <2>2, <3>2, LastOfType, ZenonT(60)
        <3> QED
            BY <3>1, <3>3
    <2> QED
        BY <2>1, <2>3
<1>13. q2 = (IF lk2 = "open" THEN y ELSE q) /\ (lg2 = LastOf(z, RingSize) \/ lg2 = <<>>)
    BY <1>1, <1>3, <1>12 DEF SaidOn
<1>14. lk2 = lk \/ (sd = <<>> /\ q = <<>> /\ g = <<>>)
    BY DEF SaidOn
<1>8. q2 \in Seq(Nat) /\ lg2 \in Seq(Nat)
    BY <1>5, <1>7, <1>13, EmptySeq
<1>15. PICK h \in Nat : h = Len(lg2) /\ DOMAIN lg2 = 1 .. h
    BY <1>8, LenProperties
<1>16. e <= a /\ \A n \in 1 .. e : lg[n] = (a - e) + n
    BY <1>1, <1>2 DEF Whole, EndsWith
<1>17. ASSUME NEW n \in 1 .. (e + b) PROVE z[n] = (a - e) + n
    <2>2. CASE n \in 1 .. e
        BY <1>6, <1>16, <2>2
    <2>3. CASE n \notin 1 .. e
        <3>1. n - e \in 1 .. b /\ n = e + (n - e)
            BY <1>17, <2>3
        <3>2. PICK k \in 1 .. b : n = e + k
            BY <3>1
        <3>3. z[n] = a + k
            BY <1>6, <3>2
        <3>4. a + k = (a - e) + (e + k)
            BY <3>2
        <3> QED
            BY <3>2, <3>3, <3>4
    <2> QED
        BY <2>2, <2>3
<1>18. h <= a + b /\ \A n \in 1 .. h : lg2[n] = ((a + b) - h) + n
    <2>1. CASE lg2 = <<>>
        BY <1>15, <2>1, EmptySeq
    <2>2. CASE lg2 = LastOf(z, RingSize) /\ e + b <= RingSize
        <3>1. lg2 = z /\ h = e + b
            BY <1>6, <1>7, <1>15, <2>2
        <3>2. e + b <= a + b /\ (a + b) - (e + b) = a - e
            BY <1>16
        <3> QED
            BY <1>17, <3>1, <3>2
    <2>3. CASE lg2 = LastOf(z, RingSize) /\ e + b > RingSize
        <3>1. h = RingSize /\ \A i \in 1 .. h : lg2[i] = z[((e + b) - h) + i]
            BY <1>7, <1>15, <2>3
        <3>2. h < e + b /\ h <= a + b
            BY <1>16, <2>3, <3>1
        <3>3. ASSUME NEW n \in 1 .. h PROVE lg2[n] = ((a + b) - h) + n
            <4>1. PICK k \in 1 .. (e + b) : k = ((e + b) - h) + n
                BY <3>2, <3>3
            <4>2. z[k] = (a - e) + k
                BY <1>17
            <4>3. (a - e) + k = ((a + b) - h) + n
                BY <4>1, <3>3
            <4> QED
                BY <3>1, <3>3, <4>1, <4>2, <4>3
        <3> QED
            BY <3>2, <3>3
    <2> QED
        BY <1>13, <2>1, <2>2, <2>3, McpAssumption
<1>19. ASSUME h = a + b
       PROVE  /\ d <= a + b /\ \A n \in DOMAIN g : g[n] = n
              /\ lk2 = "open" => /\ d + Len(q2) = a + b
                                 /\ \A n \in DOMAIN q2 : q2[n] = d + n
    <2>1. e = a
        <3>1. CASE lg2 = <<>>
            <4>1. h = 0
                BY <1>15, <3>1, EmptySeq
            <4> QED
                BY <1>16, <1>19, <4>1
        <3>2. CASE lg2 = LastOf(z, RingSize) /\ e + b <= RingSize
            <4>1. h = e + b
                BY <1>6, <1>7, <1>15, <3>2
            <4>2. e + b = a + b
                BY <1>19, <4>1
            <4> QED
                BY <4>2
        <3>3. CASE lg2 = LastOf(z, RingSize) /\ e + b > RingSize
            <4>1. h = RingSize
                BY <1>7, <1>15, <3>3
            <4> QED
                BY <1>16, <1>19, <3>3, <4>1
        <3> QED
            BY <1>13, <3>1, <3>2, <3>3, McpAssumption
    <2>3. /\ d <= a /\ \A n \in 1 .. d : g[n] = n
          /\ lk = "open" => d + c = a /\ \A n \in 1 .. c : q[n] = d + n
        BY <1>1, <1>2, <2>1 DEF Whole
    <2>4. lk2 = "open" => d + c = a /\ \A n \in 1 .. c : q[n] = d + n
        <3>1. CASE sd = <<>> /\ q = <<>> /\ g = <<>>
            BY <1>1, <3>1, EmptySeq
        <3> QED
            BY <1>14, <2>3, <3>1
    <2>7. lk2 = "open" => /\ d + Len(q2) = a + b
                          /\ \A n \in DOMAIN q2 : q2[n] = d + n
        <3>1. SUFFICES ASSUME lk2 = "open" PROVE d + Len(y) = a + b /\ \A n \in DOMAIN y : y[n] = d + n
            BY <1>13
        <3>2. d + c = a /\ \A n \in 1 .. c : q[n] = d + n
            BY <2>4, <3>1
        <3>3. ASSUME NEW n \in 1 .. (c + b) PROVE y[n] = d + n
            <4>2. CASE n \in 1 .. c
                BY <1>5, <3>2, <4>2
            <4>3. CASE n \notin 1 .. c
                <5>1. n - c \in 1 .. b /\ n = c + (n - c)
                    BY <3>3, <4>3
                <5>2. PICK k \in 1 .. b : n = c + k
                    BY <5>1
                <5>3. y[n] = a + k
                    BY <1>5, <5>2
                <5>4. a + k = d + (c + k)
                    BY <3>2
                <5> QED
                    BY <5>2, <5>3, <5>4
            <4> QED
                BY <4>2, <4>3
        <3>4. d + (c + b) = a + b
            BY <3>2
        <3> QED
            BY <1>5, <3>3, <3>4
    <2>10. d <= a + b /\ \A n \in DOMAIN g : g[n] = n
        BY <1>2, <2>3
    <2> QED
        BY <2>7, <2>10
<1> QED
    BY <1>1, <1>4, <1>8, <1>15, <1>18, <1>19 DEF Whole, EndsWith

StreamTypes ==
    /\ said \in [Req -> Seq(Payload)]
    /\ queue \in [Req -> Seq(Nat)] /\ got \in [Req -> Seq(Nat)] /\ log \in [Req -> Seq(Nat)]
    /\ link \in [Req -> {"none", "open", "gone"}]

StreamInv ==
    /\ StreamTypes
    /\ \A r \in Req : Whole(said[r], queue[r], got[r], log[r], link[r])

\* Sends keeps every stream exact, those that open with it too, and leaves
\* alone the streams on which nothing is said.
LEMMA SendsKeep ==
    ASSUME StreamInv, NEW m \in [Req -> Seq(Payload)], NEW open, Sends(m, open), got' = got,
           link' \in [Req -> {"none", "open", "gone"}],
           \A r \in Req : r \in open <=> link'[r] = "open",
           \A r \in Req : link'[r] = link[r] \/ (said[r] = <<>> /\ queue[r] = <<>> /\ got[r] = <<>>)
    PROVE  /\ StreamInv'
           /\ \A r \in Req : m[r] = <<>> => said'[r] = said[r] /\ queue'[r] = queue[r]
<1>1. ASSUME NEW r \in Req
      PROVE  SaidOn(said[r], m[r], queue[r], got[r], log[r], link[r], link'[r], queue'[r], log'[r])
    <2>1. Positions(m, r) = [i \in 1 .. Len(m[r]) |-> Len(said[r]) + i]
        BY DEF Positions
    <2>2. queue'[r] = IF link'[r] = "open" THEN queue[r] \o Positions(m, r) ELSE queue[r]
        BY <1>1 DEF Sends
    <2>3. log'[r] = LastOf(log[r] \o Positions(m, r), RingSize) \/ log'[r] = <<>>
        BY <1>1 DEF Sends
    <2> QED
        BY <1>1, <2>1, <2>2, <2>3 DEF SaidOn
<1>2. ASSUME NEW r \in Req
      PROVE  /\ Whole(said'[r], queue'[r], got'[r], log'[r], link'[r])
             /\ said'[r] \in Seq(Payload) /\ queue'[r] \in Seq(Nat) /\ log'[r] \in Seq(Nat)
    <2>1. /\ said[r] \in Seq(Payload) /\ m[r] \in Seq(Payload) /\ queue[r] \in Seq(Nat) /\ got[r] \in Seq(Nat)
          /\ log[r] \in Seq(Nat) /\ Whole(said[r], queue[r], got[r], log[r], link[r])
        BY <1>2 DEF StreamInv, StreamTypes
    <2>2. said'[r] = said[r] \o m[r] /\ got'[r] = got[r]
        BY <1>2 DEF Sends
    <2>3. /\ Whole(said[r] \o m[r], queue'[r], got[r], log'[r], link'[r])
          /\ said[r] \o m[r] \in Seq(Payload) /\ queue'[r] \in Seq(Nat) /\ log'[r] \in Seq(Nat)
        BY <1>1, <1>2, <2>1, WholeSends
    <2> QED
        BY <2>2, <2>3
<1>3. said' \in [Req -> Seq(Payload)] /\ queue' \in [Req -> Seq(Nat)] /\ log' \in [Req -> Seq(Nat)]
    <2>1. /\ said' = [r \in Req |-> said'[r]] /\ queue' = [r \in Req |-> queue'[r]]
          /\ log' = [r \in Req |-> log'[r]]
        BY DEF Sends
    <2> QED
        BY <1>2, <2>1
<1>4. ASSUME NEW r \in Req, m[r] = <<>> PROVE said'[r] = said[r] /\ queue'[r] = queue[r]
    <2>1. said[r] \in Seq(Payload) /\ queue[r] \in Seq(Nat)
        BY <1>4 DEF StreamInv, StreamTypes
    <2>2. said[r] \o <<>> = said[r] /\ queue[r] \o <<>> = queue[r]
        BY <2>1, ConcatEmptySeq
    <2>3. Positions(m, r) = <<>>
        BY <1>4 DEF Positions
    <2>4. said'[r] = said[r] \o <<>> /\ (queue'[r] = queue[r] \o <<>> \/ queue'[r] = queue[r])
        BY <1>4, <2>3 DEF Sends
    <2> QED
        BY <2>2, <2>4
<1> QED
    BY <1>2, <1>3, <1>4 DEF StreamInv, StreamTypes

\* Two stretches of consecutive positions make one.
LEMMA Joined ==
    ASSUME NEW g \in Seq(Nat), NEW q \in Seq(Nat),
           \A n \in DOMAIN g : g[n] = n, \A n \in DOMAIN q : q[n] = Len(g) + n
    PROVE  Len(g \o q) = Len(g) + Len(q) /\ \A n \in DOMAIN (g \o q) : (g \o q)[n] = n
<1>1. PICK y : y = g \o q
    OBVIOUS
<1>5. PICK d \in Nat, c \in Nat : d = Len(g) /\ c = Len(q) /\ DOMAIN g = 1 .. d /\ DOMAIN q = 1 .. c
    BY LenProperties
<1>6. (\A n \in 1 .. d : g[n] = n) /\ \A n \in 1 .. c : q[n] = d + n
    BY <1>5
<1>2. /\ y \in Seq(Nat) /\ Len(y) = d + c
      /\ \A i \in 1 .. (Len(g) + Len(q)) : y[i] = IF i <= Len(g) THEN g[i] ELSE q[i - Len(g)]
    BY <1>1, <1>5, ConcatProperties
<1>3. DOMAIN y = 1 .. (d + c)
    BY <1>2, LenProperties
<1>4. ASSUME NEW n \in 1 .. (d + c) PROVE y[n] = n
    <2>1. CASE n <= d
        BY <1>2, <1>4, <1>5, <1>6, <2>1
    <2>2. CASE n > d
        <3>1. PICK k \in 1 .. c : k = n - d
            BY <1>4, <2>2
        <3>2. y[n] = q[k]
            BY <1>2, <1>4, <1>5, <2>2, <3>1
        <3> QED
            BY <1>4, <1>6, <3>1, <3>2
    <2> QED
        BY <1>4, <2>1, <2>2
<1> QED
    BY <1>1, <1>2, <1>3, <1>4, <1>5

\* events(): what waits is what the client lacks.
LEMMA WholeDelivers ==
    ASSUME NEW sd \in Seq(Payload), NEW q \in Seq(Nat), NEW g \in Seq(Nat), NEW lg \in Seq(Nat),
           Whole(sd, q, g, lg, "open")
    PROVE  Whole(sd, <<>>, g \o q, lg, "open") /\ g \o q \in Seq(Nat)
<1>1. PICK c \in Nat, d \in Nat, a \in Nat : c = Len(q) /\ d = Len(g) /\ a = Len(sd)
    BY LenProperties
<1>2. DOMAIN q = 1 .. c /\ DOMAIN g = 1 .. d
    BY <1>1, LenProperties
<1>3. g \o q \in Seq(Nat)
    BY ConcatProperties
<1>4. ASSUME Len(lg) = a
      PROVE  Len(g \o q) = a /\ \A n \in DOMAIN (g \o q) : (g \o q)[n] = n
    <2>1. d + c = a /\ (\A n \in DOMAIN g : g[n] = n) /\ \A n \in DOMAIN q : q[n] = Len(g) + n
        BY <1>1, <1>4 DEF Whole
    <2>2. Len(g \o q) = Len(g) + Len(q) /\ \A n \in DOMAIN (g \o q) : (g \o q)[n] = n
        BY <2>1, Joined
    <2> QED
        BY <1>1, <2>1, <2>2
<1>5. Len(<<>>) = 0 /\ DOMAIN <<>> = {}
    OBVIOUS
<1> QED
    BY <1>1, <1>3, <1>4, <1>5 DEF Whole

\* A stream that is dropped keeps what it delivered.
LEMMA WholeDrops ==
    ASSUME NEW sd, NEW q, NEW g, NEW lg, NEW lk, Whole(sd, q, g, lg, lk)
    PROVE  Whole(sd, <<>>, g, lg, "gone")
BY DEF Whole

(* What a client that has g is sent again of the ring lg.                  *)
Known(lg, last) == CHOOSE k \in 0 .. Len(lg) : \A i \in DOMAIN lg : lg[i] > last <=> i > k

\* The entries of a ring beyond the client's last event form its tail.
LEMMA KnownIs ==
    ASSUME NEW sd \in Seq(Payload), NEW lg \in Seq(Nat), EndsWith(sd, lg), NEW last \in Nat
    PROVE  /\ Known(lg, last) \in 0 .. Len(lg)
           /\ \A i \in DOMAIN lg : lg[i] > last <=> i > Known(lg, last)
<1>1. PICK a \in Nat, e \in Nat : a = Len(sd) /\ e = Len(lg) /\ DOMAIN lg = 1 .. e
    BY LenProperties
<1>2. e <= a /\ \A i \in 1 .. e : lg[i] = (a - e) + i
    BY <1>1 DEF EndsWith
<1>3. \E k \in 0 .. e : \A i \in 1 .. e : lg[i] > last <=> i > k
    <2>1. CASE last <= a - e
        <3>1. \A i \in 1 .. e : lg[i] > last <=> i > 0
            BY <1>2, <2>1
        <3>2. 0 \in 0 .. e
            OBVIOUS
        <3> QED
            BY <3>1, <3>2
    <2>2. CASE last >= a
        <3>1. \A i \in 1 .. e : lg[i] > last <=> i > e
            BY <1>2, <2>2
        <3> QED
            BY <3>1
    <2>3. CASE last > a - e /\ last < a
        <3>1. PICK k \in 0 .. e : k = last - (a - e)
            BY <1>2, <2>3
        <3>2. \A i \in 1 .. e : lg[i] > last <=> i > k
            BY <1>2, <3>1
        <3> QED
            BY <3>2
    <2> QED
        BY <1>2, <2>1, <2>2, <2>3
<1> QED
    BY <1>1, <1>3 DEF Known

\* replay_after sends exactly what is missing.
LEMMA WholeReplays ==
    ASSUME NEW sd \in Seq(Payload), NEW q \in Seq(Nat), NEW g \in Seq(Nat), NEW lg \in Seq(Nat),
           Whole(sd, q, g, lg, "gone"), NEW last, last = IF g = <<>> THEN 0 ELSE g[Len(g)],
           NEW rep, rep = SubSeq(lg, Known(lg, last) + 1, Len(lg))
    PROVE  Whole(sd, q, g \o rep, lg, "gone") /\ g \o rep \in Seq(Nat)
<1>1. PICK a \in Nat, d \in Nat, e \in Nat : a = Len(sd) /\ d = Len(g) /\ e = Len(lg)
    BY LenProperties
<1>2. DOMAIN g = 1 .. d /\ DOMAIN lg = 1 .. e
    BY <1>1, LenProperties
<1>3. last \in Nat /\ (d = 0 => last = 0) /\ (d # 0 => last = g[d])
    <2>1. CASE g = <<>>
        BY <1>1, <2>1, EmptySeq
    <2>2. CASE g # <<>>
        <3>1. d \in 1 .. d
            BY <1>1, <2>2, EmptySeq
        <3> QED
            BY <1>1, <2>2, <3>1, ElementOfSeq
    <2> QED
        BY <2>1, <2>2
<1>4. EndsWith(sd, lg)
    BY DEF Whole
<1>5. PICK k \in 0 .. e : k = Known(lg, last) /\ \A i \in 1 .. e : lg[i] > last <=> i > k
    BY <1>1, <1>2, <1>3, <1>4, KnownIs
<1>6. \A i \in (k + 1) .. e : lg[i] \in Nat
    <2>1. \A i \in 1 .. e : lg[i] \in Nat
        BY <1>1, ElementOfSeq
    <2>2. \A i \in (k + 1) .. e : i \in 1 .. e
        OBVIOUS
    <2> QED
        BY <2>1, <2>2
<1>7. /\ rep \in Seq(Nat) /\ Len(rep) = IF k + 1 <= e THEN e - (k + 1) + 1 ELSE 0
      /\ \A i \in 1 .. e - (k + 1) + 1 : rep[i] = lg[(k + 1) + i - 1]
    <2>1. PICK m \in Int : m = k + 1
        OBVIOUS
    <2>2. rep = SubSeq(lg, m, e) /\ e \in Int
        BY <1>1, <1>5, <2>1
    <2>3. \A i \in m .. e : lg[i] \in Nat
        BY <1>6, <2>1
    <2>4. /\ SubSeq(lg, m, e) \in Seq(Nat) /\ Len(SubSeq(lg, m, e)) = IF m <= e THEN e - m + 1 ELSE 0
          /\ \A i \in 1 .. e - m + 1 : SubSeq(lg, m, e)[i] = lg[m + i - 1]
        BY <2>3, SubSeqProperties
    <2> QED
        BY <2>1, <2>2, <2>4
<1>8. Len(rep) = e - k /\ \A i \in 1 .. (e - k) : rep[i] = lg[k + i]
    <2>1. e - (k + 1) + 1 = e - k /\ (~(k + 1 <= e) => e - k = 0)
        OBVIOUS
    <2>2. \A i \in 1 .. (e - k) : (k + 1) + i - 1 = k + i
        OBVIOUS
    <2> QED
        BY <1>7, <2>1, <2>2
<1>9. g \o rep \in Seq(Nat)
    BY <1>7, ConcatProperties
<1>10. ASSUME e = a
       PROVE  Len(g \o rep) = a /\ \A n \in DOMAIN (g \o rep) : (g \o rep)[n] = n
    <2>1. d <= a /\ (\A n \in 1 .. d : g[n] = n) /\ \A i \in 1 .. e : lg[i] = i
        <3>1. \A i \in 1 .. e : lg[i] = (a - e) + i
            BY <1>1, <1>2, <1>4 DEF EndsWith
        <3>2. \A i \in 1 .. e : (a - e) + i = i
            BY <1>10
        <3> QED
            BY <1>1, <1>2, <1>10, <3>1, <3>2 DEF Whole
    <2>2. last = d
        <3>1. d # 0 => d \in 1 .. d
            OBVIOUS
        <3> QED
            BY <1>3, <2>1, <3>1
    <2>3. k = d
        <3>1. \A i \in 1 .. e : i > d <=> i > k
            BY <1>5, <2>1, <2>2
        <3>2. ASSUME k < d PROVE FALSE
            <4>1. k + 1 \in 1 .. e /\ k + 1 > k /\ ~(k + 1 > d)
                BY <1>5, <1>10, <2>1, <3>2
            <4> QED
                BY <3>1, <4>1
        <3>3. ASSUME k > d PROVE FALSE
            <4>1. d + 1 \in 1 .. e /\ d + 1 > d /\ ~(d + 1 > k)
                BY <1>5, <3>3
            <4> QED
                BY <3>1, <4>1
        <3> QED
            BY <1>5, <3>2, <3>3
    <2>4. PICK c \in Nat : c = e - d /\ c = Len(rep)
        <3>1. e - d \in Nat /\ e - k = e - d
            BY <1>10, <2>1, <2>3
        <3> QED
            BY <1>8, <3>1
    <2>5. ASSUME NEW n \in 1 .. c PROVE rep[n] = d + n
        <3>1. n \in 1 .. (e - k) /\ d + n \in 1 .. e /\ k + n = d + n
            BY <2>3, <2>4, <2>5
        <3> QED
            BY <1>8, <2>1, <3>1
    <2>6. Len(g \o rep) = d + c /\ \A n \in DOMAIN (g \o rep) : (g \o rep)[n] = n
        <3>1. (\A n \in DOMAIN g : g[n] = n) /\ \A n \in DOMAIN rep : rep[n] = Len(g) + n
            <4>1. DOMAIN rep = 1 .. c
                BY <1>7, <2>4, LenProperties
            <4>2. \A n \in DOMAIN rep : rep[n] = Len(g) + n
                BY <1>1, <2>5, <4>1
            <4> QED
                BY <1>2, <2>1, <4>2
        <3>2. /\ Len(g \o rep) = Len(g) + Len(rep)
              /\ \A n \in DOMAIN (g \o rep) : (g \o rep)[n] = n
            BY <1>7, <3>1, Joined
        <3> QED
            BY <1>1, <2>4, <3>2
    <2>7. d + c = a
        BY <1>10, <2>4
    <2> QED
        BY <2>6, <2>7
<1> QED
    <2>1. Len(lg) = Len(sd) => Len(g \o rep) <= Len(sd) /\ \A n \in DOMAIN (g \o rep) : (g \o rep)[n] = n
        <3>1. PICK x : x = g \o rep
            OBVIOUS
        <3>2. e = a => Len(x) = a /\ \A n \in DOMAIN x : x[n] = n
            BY <1>10, <3>1
        <3>3. e = a => Len(x) <= a
            BY <3>2
        <3> QED
            BY <1>1, <3>1, <3>2, <3>3
    <2> QED
        BY <1>4, <1>9, <2>1 DEF Whole

\* A delivery keeps every stream exact.
LEMMA DeliverKeeps ==
    ASSUME StreamInv, NEW r \in Req, link[r] = "open", got' = [got EXCEPT ![r] = @ \o queue[r]],
           queue' = [queue EXCEPT ![r] = <<>>], UNCHANGED <<said, link, log>>
    PROVE  StreamInv'
<1>1. Whole(said[r], <<>>, got[r] \o queue[r], log[r], link[r]) /\ got[r] \o queue[r] \in Seq(Nat)
    <2>1. /\ said[r] \in Seq(Payload) /\ queue[r] \in Seq(Nat) /\ got[r] \in Seq(Nat) /\ log[r] \in Seq(Nat)
          /\ Whole(said[r], queue[r], got[r], log[r], "open")
        BY DEF StreamInv, StreamTypes
    <2> QED
        BY <2>1, WholeDelivers
<1>2. got' \in [Req -> Seq(Nat)] /\ queue' \in [Req -> Seq(Nat)]
    BY <1>1, EmptySeq DEF StreamInv, StreamTypes
<1>3. ASSUME NEW q \in Req PROVE Whole(said'[q], queue'[q], got'[q], log'[q], link'[q])
    BY <1>1, <1>3 DEF StreamInv, StreamTypes
<1> QED
    BY <1>2, <1>3 DEF StreamInv, StreamTypes

\* So does a disconnection.
LEMMA DisconnectKeeps ==
    ASSUME StreamInv, NEW r \in Req, link' = [link EXCEPT ![r] = "gone"],
           queue' = [queue EXCEPT ![r] = <<>>], UNCHANGED <<said, got, log>>
    PROVE  StreamInv'
<1>1. Whole(said[r], <<>>, got[r], log[r], "gone")
    BY WholeDrops DEF StreamInv
<1>2. link' \in [Req -> {"none", "open", "gone"}] /\ queue' \in [Req -> Seq(Nat)]
    BY EmptySeq DEF StreamInv, StreamTypes
<1>3. ASSUME NEW q \in Req PROVE Whole(said'[q], queue'[q], got'[q], log'[q], link'[q])
    BY <1>1, <1>3 DEF StreamInv, StreamTypes
<1> QED
    BY <1>2, <1>3 DEF StreamInv, StreamTypes

\* So does a resumption with Last-Event-ID.
LEMMA ResumeKeeps ==
    ASSUME StreamInv, NEW r \in Req, link[r] = "gone", UNCHANGED <<said, queue, link, log>>,
           got' = [got EXCEPT ![r] = @ \o replay_after(r, IF got[r] = <<>> THEN 0 ELSE got[r][Len(got[r])])]
    PROVE  StreamInv'
<1>1. PICK last : last = IF got[r] = <<>> THEN 0 ELSE got[r][Len(got[r])]
    OBVIOUS
<1>2. PICK rep : rep = replay_after(r, last)
    OBVIOUS
<1>3. rep = SubSeq(log[r], Known(log[r], last) + 1, Len(log[r]))
    BY <1>2 DEF replay_after, Known
<1>4. Whole(said[r], queue[r], got[r] \o rep, log[r], link[r]) /\ got[r] \o rep \in Seq(Nat)
    <2>1. /\ said[r] \in Seq(Payload) /\ queue[r] \in Seq(Nat) /\ got[r] \in Seq(Nat) /\ log[r] \in Seq(Nat)
          /\ Whole(said[r], queue[r], got[r], log[r], "gone")
        BY DEF StreamInv, StreamTypes
    <2>2. PICK sd \in Seq(Payload), q \in Seq(Nat), g \in Seq(Nat), lg \in Seq(Nat) :
             sd = said[r] /\ q = queue[r] /\ g = got[r] /\ lg = log[r]
        BY <2>1
    <2>3. /\ Whole(sd, q, g, lg, "gone") /\ last = (IF g = <<>> THEN 0 ELSE g[Len(g)])
          /\ rep = SubSeq(lg, Known(lg, last) + 1, Len(lg))
        BY <1>1, <1>3, <2>1, <2>2
    <2>4. Whole(sd, q, g \o rep, lg, "gone") /\ g \o rep \in Seq(Nat)
        BY <2>3, WholeReplays
    <2> QED
        BY <2>2, <2>4
<1>5. got' = [got EXCEPT ![r] = got[r] \o rep]
    BY <1>1, <1>2
<1>6. got' \in [Req -> Seq(Nat)]
    BY <1>4, <1>5 DEF StreamInv, StreamTypes
<1>7. ASSUME NEW q \in Req PROVE Whole(said'[q], queue'[q], got'[q], log'[q], link'[q])
    BY <1>4, <1>5, <1>7 DEF StreamInv, StreamTypes
<1> QED
    BY <1>6, <1>7 DEF StreamInv, StreamTypes

-----------------------------------------------------------------------------
\* The store's own operations: what they return are entries of it.
LEMMA LiveKeeps ==
    ASSUME NEW q \in Seq(Session \X Obj), NEW s
    PROVE  /\ Without(q, s) \in Seq(Session \X Obj)
           /\ s \in Sids(q) => s \in Session /\ ObjOf(q, s) \in Obj
           /\ \A n \in Nat : SubSeq(q, n + 1, Len(q)) \in Seq(Session \X Obj)
<1>1. PICK k \in Nat : k = Len(q) /\ DOMAIN q = 1 .. k
    BY LenProperties
<1>2. \A i \in 1 .. k : q[i] \in Session \X Obj
    BY <1>1, ElementOfSeq
<1>3. ASSUME NEW m \in Int, NEW n \in Int, m >= 1, n <= k PROVE SubSeq(q, m, n) \in Seq(Session \X Obj)
    <2>1. \A i \in m .. n : q[i] \in Session \X Obj
        BY <1>2, <1>3
    <2> QED
        BY <2>1, SubSeqProperties
<1>4. ASSUME NEW i \in 1 .. k PROVE RemoveAt(q, i) \in Seq(Session \X Obj)
    <2>1. PICK a \in Int, b \in Int : a = i - 1 /\ b = i + 1
        OBVIOUS
    <2>2. SubSeq(q, 1, a) \in Seq(Session \X Obj)
        BY <1>3, <2>1
    <2>3. SubSeq(q, b, k) \in Seq(Session \X Obj)
        BY <1>3, <2>1
    <2> QED
        BY <1>1, <2>1, <2>2, <2>3, ConcatProperties DEF RemoveAt
<1>5. Without(q, s) \in Seq(Session \X Obj)
    <2>1. CASE s \in Sids(q)
        <3>1. \E i \in 1 .. k : q[i][1] = s
            BY <1>1, <2>1 DEF Sids
        <3>2. PICK i \in 1 .. k : i = CHOOSE j \in DOMAIN q : q[j][1] = s
            BY <1>1, <3>1
        <3> QED
            BY <1>4, <2>1, <3>2 DEF Without
    <2> QED
        BY <2>1 DEF Without
<1>6. s \in Sids(q) => s \in Session /\ ObjOf(q, s) \in Obj
    <2>1. SUFFICES ASSUME s \in Sids(q) PROVE s \in Session /\ ObjOf(q, s) \in Obj
        OBVIOUS
    <2>2. Range(q) \subseteq Session \X Obj
        BY <1>1, <1>2 DEF Range
    <2>3. \E e \in Range(q) : e[1] = s
        BY <2>1 DEF Sids, Range
    <2>4. PICK e : e = CHOOSE x \in Range(q) : x[1] = s
        OBVIOUS
    <2>5. e \in Range(q) /\ e[1] = s
        BY <2>3, <2>4
    <2>6. e \in Session \X Obj
        BY <2>2, <2>5
    <2>7. e[1] \in Session /\ e[2] \in Obj
        BY <2>6
    <2>8. ObjOf(q, s) = e[2]
        BY <2>4 DEF ObjOf
    <2> QED
        BY <2>5, <2>7, <2>8
<1>7. ASSUME NEW n \in Nat PROVE SubSeq(q, n + 1, Len(q)) \in Seq(Session \X Obj)
    BY <1>1, <1>3
<1> QED
    BY <1>5, <1>6, <1>7

StoreInv == live \in Seq(Session \X Obj) /\ idle \in Nat /\ nobj \in Nat

Phases == {"free", "create", "resolve", "bound", "run", "persist", "listen", "done"}

Request == [phase : Phases, kind : Kinds \cup {"none"}, sid : Session \cup {"none"}, obj : 0 .. MaxObj,
            id : Id \cup {0}, arg : Task \cup {NoReq}, ans : BOOLEAN, late : BOOLEAN]

(* BoundHaveObjects, of one request.                                       *)
Fits(x) ==
    /\ x.phase \in {"create", "bound", "run", "persist", "listen"} => x.obj # 0
    /\ x.phase # "free" => x.sid \in Session
    /\ x.kind = "listen" => x.id \in Id
    /\ x.kind = "task" => x.arg \in Task

ReqInv ==
    /\ rq \in [Req -> Request] /\ listens \in [Obj -> SUBSET Id] /\ sinks \subseteq Req
    /\ BoundHaveObjects /\ TasksHaveStreams

(* x is the request y, in one of the phases ps.                            *)
Later(x, y, ps) ==
    /\ x \in Request /\ x.phase \in ps
    /\ x.kind = y.kind /\ x.sid = y.sid /\ x.obj = y.obj /\ x.id = y.id /\ x.arg = y.arg

\* An update of phase (and ans) alone gives the same request, later.
LEMMA PhaseSet ==
    ASSUME NEW f \in [Req -> Request], NEW r \in Req, NEW p \in Phases, NEW g,
           \/ g = [f EXCEPT ![r].phase = p]
           \/ \E a \in BOOLEAN : g = [f EXCEPT ![r].phase = p, ![r].ans = a]
    PROVE  \E x : g = [f EXCEPT ![r] = x] /\ Later(x, f[r], {p})
<1>1. PICK y \in Request : y = f[r]
    OBVIOUS
<1>2. CASE g = [f EXCEPT ![r].phase = p]
    <2>1. PICK x : x = [y EXCEPT !.phase = p]
        OBVIOUS
    <2>2. Later(x, y, {p})
        BY <2>1 DEF Later, Request
    <2> QED
        BY <1>1, <1>2, <2>1, <2>2
<1>3. ASSUME NEW a \in BOOLEAN, g = [f EXCEPT ![r].phase = p, ![r].ans = a]
      PROVE  \E x : g = [f EXCEPT ![r] = x] /\ Later(x, f[r], {p})
    <2>1. PICK x : x = [y EXCEPT !.phase = p, !.ans = a]
        OBVIOUS
    <2>2. Later(x, y, {p})
        BY <1>3, <2>1 DEF Later, Request
    <2> QED
        BY <1>1, <1>3, <2>1, <2>2
<1> QED
    BY <1>2, <1>3

Waiting(x) == x.phase \in {"free", "create", "resolve", "bound"}

HttpInv == StoreInv /\ ReqInv /\ StreamInv /\ SilentBeforeStart

(* On the stream of a runner that has not started nothing happens.         *)
OthersQuiet ==
    \A q \in Req : Waiting(rq'[q]) => /\ link'[q] = link[q] /\ said'[q] = said[q]
                                      /\ got'[q] = got[q] /\ queue'[q] = queue[q]

\* One request moves: the conditions under which all is well afterwards.
LEMMA RequestMoves ==
    ASSUME ReqInv, SilentBeforeStart, NEW r \in Req, NEW x \in Request, rq' = [rq EXCEPT ![r] = x],
           listens' \in [Obj -> SUBSET Id], sinks' \subseteq sinks \cup {r},
           Fits(x), r \in sinks' => x.obj # 0 /\ ~Waiting(x),
           \/ x.kind = rq[r].kind /\ x.arg = rq[r].arg
           \/ Waiting(rq[r]) /\ (x.kind = "task" => \A q \in Req : rq[q].arg # x.arg),
           Waiting(x) => Waiting(rq[r]),
           \A t \in runner' : t \in runner \/ (x.kind = "task" /\ x.arg = t /\ ~Waiting(x)),
           OthersQuiet
    PROVE  ReqInv' /\ SilentBeforeStart'
<1>1. rq' \in [Req -> Request] /\ rq'[r] = x /\ \A q \in Req : q # r => rq'[q] = rq[q]
    BY DEF ReqInv
<1>2. BoundHaveObjects'
    BY <1>1 DEF ReqInv, BoundHaveObjects, Fits
<1>3. ASSUME NEW t \in runner' PROVE \E q \in Req : rq'[q].kind = "task" /\ rq'[q].arg = t /\ ~Waiting(rq'[q])
    <2>1. CASE x.kind = "task" /\ x.arg = t /\ ~Waiting(x)
        BY <1>1, <2>1
    <2>2. CASE t \in runner
        <3>1. PICK q \in Req : rq[q].kind = "task" /\ rq[q].arg = t /\ ~Waiting(rq[q])
            BY <2>2 DEF ReqInv, TasksHaveStreams, Unstarted, Waiting
        <3> QED
            BY <1>1, <3>1
    <2> QED
        BY <1>3, <2>1, <2>2
<1>4. \A p, q \in Req : rq'[p].kind = "task" /\ rq'[q].kind = "task" /\ rq'[p].arg = rq'[q].arg => p = q
    BY <1>1 DEF ReqInv, TasksHaveStreams
<1>5. TasksHaveStreams'
    BY <1>3, <1>4 DEF TasksHaveStreams, Unstarted, Waiting
<1>6. ASSUME NEW q \in Req, Waiting(rq'[q])
      PROVE  /\ Waiting(rq[q]) /\ (q \in sinks' => q \in sinks)
             /\ link'[q] = link[q] /\ said'[q] = said[q] /\ got'[q] = got[q] /\ queue'[q] = queue[q]
    BY <1>1, <1>6 DEF OthersQuiet
<1>7. SilentBeforeStart'
    BY <1>6 DEF SilentBeforeStart, Unstarted, Waiting
<1> QED
    BY <1>1, <1>2, <1>5, <1>7 DEF ReqInv

\* No request moves, some sinks and task runners may go.
LEMMA RequestsStay ==
    ASSUME ReqInv, SilentBeforeStart, rq' = rq, listens' = listens, sinks' \subseteq sinks,
           runner' \subseteq runner, OthersQuiet
    PROVE  ReqInv' /\ SilentBeforeStart'
<1>1. ReqInv'
    BY DEF ReqInv, BoundHaveObjects, TasksHaveStreams, Unstarted
<1>2. SilentBeforeStart'
    BY DEF SilentBeforeStart, OthersQuiet, Unstarted, Waiting
<1> QED
    BY <1>1, <1>2

\* No stream is touched.
LEMMA StreamsStay ==
    ASSUME UNCHANGED streamVars PROVE OthersQuiet /\ (StreamInv => StreamInv')
BY DEF streamVars, OthersQuiet, StreamInv, StreamTypes

\* A stream on which nothing was said may open.
LEMMA OpenKeeps ==
    ASSUME StreamInv, NEW r \in Req, said[r] = <<>>, got[r] = <<>>, queue[r] = <<>>,
           link' = [link EXCEPT ![r] = "open"], UNCHANGED <<said, queue, got, log>>
    PROVE  StreamInv'
<1>1. Whole(said[r], queue[r], got[r], log[r], "open")
    <2>1. EndsWith(said[r], log[r])
        BY DEF StreamInv, Whole
    <2>2. Len(<<>>) = 0 /\ DOMAIN <<>> = {}
        OBVIOUS
    <2> QED
        BY <2>1, <2>2 DEF Whole
<1>2. ASSUME NEW q \in Req PROVE Whole(said'[q], queue'[q], got'[q], log'[q], link'[q])
    BY <1>1, <1>2 DEF StreamInv, StreamTypes
<1> QED
    BY <1>2 DEF StreamInv, StreamTypes

\* _bind_session: the request goes on with its object.
LEMMA Binds ==
    ASSUME ReqInv, NEW r \in Req, NEW q \in Request, q.obj # 0, NEW rdy, Bound(r, q, rdy)
    PROVE  /\ \E x : /\ rq' = [rq EXCEPT ![r] = x] /\ Later(x, q, {"bound", "persist", "done"})
                     /\ x.phase = "bound" => q.kind \notin Notifications
           /\ listens' \in [Obj -> SUBSET Id]
<1>1. ASSUME NEW p \in {"bound", "persist", "done"} PROVE Later([q EXCEPT !.phase = p], q, {"bound", "persist", "done"})
    BY <1>1 DEF Later, Request, Phases
<1>2. \E x : /\ rq' = [rq EXCEPT ![r] = x] /\ Later(x, q, {"bound", "persist", "done"})
             /\ x.phase = "bound" => q.kind \notin Notifications
    <2>1. \E p \in {"bound", "persist", "done"} : /\ rq' = [rq EXCEPT ![r] = [q EXCEPT !.phase = p]]
                                                  /\ p = "bound" => q.kind \notin Notifications
        BY DEF Bound
    <2>2. \A p \in {"bound", "persist", "done"} : [q EXCEPT !.phase = p].phase = p
        BY DEF Request
    <2> QED
        BY <1>1, <2>1, <2>2
<1>3. listens' \in [Obj -> SUBSET Id]
    <2>1. CASE q.kind \in Notifications
        <3>1. listens' = NotificationEffect(q, listens, rcancel, rdy)[1]
            BY <2>1 DEF Bound
        <3>2. NotificationEffect(q, listens, rcancel, rdy)[1] \in {listens, [listens EXCEPT ![q.obj] = @ \ {q.id}]}
            BY DEF NotificationEffect
        <3>3. [listens EXCEPT ![q.obj] = @ \ {q.id}] \in [Obj -> SUBSET Id] /\ listens \in [Obj -> SUBSET Id]
            BY DEF ReqInv
        <3> QED
            BY <3>1, <3>2, <3>3
    <2>2. CASE q.kind \notin Notifications
        BY <2>2 DEF Bound, ReqInv
    <2> QED
        BY <2>1, <2>2
<1> QED
    BY <1>2, <1>3

\* The end of runner(): the phases it may reach; it says something on its own
\* stream only, and stays registered only while it goes on.
LEMMA Concludes ==
    ASSUME ReqInv, NEW r \in Req, NEW ps \in Seq(Payload), NEW ans \in BOOLEAN, NEW in, NEW lst, NEW open,
           lst \in [Obj -> SUBSET Id], Conclude(r, ps, ans, in, lst, open)
    PROVE  /\ \E x : /\ rq' = [rq EXCEPT ![r] = x] /\ Later(x, rq[r], {"persist", "listen", "done"})
                     /\ r \in sinks' => x.phase \in {"persist", "listen"}
           /\ sinks' \subseteq in /\ listens' \in [Obj -> SUBSET Id]
           /\ \E p \in Seq(Payload) : Sends(On(r, p), open)
<1>1. ASSUME NEW p \in {"persist", "listen", "done"}, NEW g,
             \/ g = [rq EXCEPT ![r].phase = p]
             \/ \E a \in BOOLEAN : g = [rq EXCEPT ![r].phase = p, ![r].ans = a]
      PROVE  \E x : /\ g = [rq EXCEPT ![r] = x] /\ Later(x, rq[r], {"persist", "listen", "done"})
                   /\ x.phase = p
    <2>2. rq \in [Req -> Request] /\ p \in Phases
        BY DEF ReqInv, Phases
    <2>3. PICK f \in [Req -> Request] : f = rq
        BY <2>2
    <2>4. \/ g = [f EXCEPT ![r].phase = p]
          \/ \E a \in BOOLEAN : g = [f EXCEPT ![r].phase = p, ![r].ans = a]
        BY <1>1, <2>3
    <2>5. \E x : g = [f EXCEPT ![r] = x] /\ Later(x, f[r], {p})
        BY <2>2, <2>4, PhaseSet
    <2>1. \E x : g = [rq EXCEPT ![r] = x] /\ Later(x, rq[r], {p})
        BY <2>3, <2>5
    <2> QED
        BY <1>1, <2>1 DEF Later
<1>2. \E p \in {"persist", "listen", "done"} :
        /\ \/ rq' = [rq EXCEPT ![r].phase = p]
           \/ \E a \in BOOLEAN : rq' = [rq EXCEPT ![r].phase = p, ![r].ans = a]
        /\ r \in sinks' => p # "done"
    BY DEF Conclude, Unregister
<1>3. sinks' \subseteq in /\ listens' \in [Obj -> SUBSET Id]
    BY DEF Conclude, Unregister
<1>4. Append(ps, "answer") \in Seq(Payload)
    BY AppendProperties DEF Payload
<1>5. \E p \in Seq(Payload) : Sends(On(r, p), open)
    <2>1. Sends(On(r, ps), open) \/ Sends(On(r, Append(ps, "answer")), open)
        BY DEF Conclude
    <2> QED
        BY <1>4, <2>1
<1>6. PICK p \in {"persist", "listen", "done"} :
          /\ \/ rq' = [rq EXCEPT ![r].phase = p]
             \/ \E a \in BOOLEAN : rq' = [rq EXCEPT ![r].phase = p, ![r].ans = a]
          /\ r \in sinks' => p # "done"
    BY <1>2
<1>7. PICK x : /\ rq' = [rq EXCEPT ![r] = x] /\ Later(x, rq[r], {"persist", "listen", "done"})
               /\ x.phase = p
    BY <1>1, <1>6
<1>8. r \in sinks' => x.phase \in {"persist", "listen"}
    BY <1>6, <1>7
<1> QED
    BY <1>3, <1>5, <1>7, <1>8

\* What is said on one stream is said on no other.
LEMMA OnType ==
    ASSUME NEW r, NEW p \in Seq(Payload)
    PROVE  On(r, p) \in [Req -> Seq(Payload)] /\ \A q \in Req : q # r => On(r, p)[q] = <<>>
BY EmptySeq DEF On
-----------------------------------------------------------------------------
\* A request slot that is not used yet is well formed.
LEMMA FreeType == Free \in Request
<1>1. 0 \in 0 .. MaxObj
    BY McpAssumption
<1> QED
    BY <1>1 DEF Free, Request, Phases

\* initialize makes a session and evicts what is too much.
LEMMA InitializeStep ==
    ASSUME HttpInv, NEW r \in Req, NEW s \in Session, "initialize" \in Kinds, Initialize(r, s) PROVE HttpInv'
<1>1. PICK x : x = [Free EXCEPT !.kind = "initialize", !.sid = s, !.obj = nobj + 1,
                                !.phase = IF backend THEN "create" ELSE "bound"]
    OBVIOUS
<1>2. rq' = [rq EXCEPT ![r] = x]
    BY <1>1 DEF Initialize
<1>3. /\ nobj + 1 \in Obj /\ x \in Request /\ x.kind = "initialize" /\ x.sid = s /\ x.obj = nobj + 1
      /\ x.phase \in {"create", "bound"}
    <2>1. PICK f \in Request : f = Free
        BY FreeType
    <2>2. PICK p \in {"create", "bound"} : p = IF backend THEN "create" ELSE "bound"
        OBVIOUS
    <2>3. nobj + 1 \in 1 .. MaxObj /\ nobj + 1 \in 0 .. MaxObj
        BY McpAssumption DEF Initialize, HttpInv, StoreInv
    <2>4. PICK o \in 0 .. MaxObj : o = nobj + 1
        BY <2>3
    <2>5. x = [f EXCEPT !.kind = "initialize", !.sid = s, !.obj = o, !.phase = p]
        BY <1>1, <2>1, <2>2, <2>4
    <2>6. x \in Request /\ x.kind = "initialize" /\ x.sid = s /\ x.obj = o /\ x.phase = p
        BY <2>5 DEF Request, Phases
    <2> QED
        BY <2>2, <2>3, <2>4, <2>6 DEF Obj
<1>4. StoreInv'
    <2>1. AfterIdle \in Seq(Session \X Obj)
        BY LiveKeeps DEF HttpInv, StoreInv, AfterIdle
    <2>2. LastOf(AfterIdle, MaxLive - 1) \in Seq(Session \X Obj)
        <3>1. MaxLive - 1 \in Nat
            BY McpAssumption
        <3> QED
            BY <2>1, <3>1, LastOfType
    <2>3. Created(s) \in Seq(Session \X Obj)
        BY <1>3, <2>2, AppendProperties DEF Created
    <2> QED
        BY <2>3 DEF Initialize, HttpInv, StoreInv
<1>5. rq[r].phase = "free"
    BY DEF Initialize
<1>6. ReqInv' /\ SilentBeforeStart'
    <2>1. Fits(x)
        BY <1>3 DEF Fits, HttpInv, StoreInv
    <2>2. sinks' \subseteq sinks /\ r \notin sinks'
        BY <1>5 DEF Initialize, StayingSinks, HttpInv, SilentBeforeStart, Unstarted
    <2>3. listens' \in [Obj -> SUBSET Id] /\ runner' = runner /\ OthersQuiet
        BY StreamsStay DEF Initialize, evict_tasks, HttpInv, ReqInv
    <2>4. Waiting(rq[r])
        BY <1>5 DEF Waiting
    <2> QED
        BY <1>2, <1>3, <2>1, <2>2, <2>3, <2>4, RequestMoves DEF HttpInv
<1>7. StreamInv'
    BY StreamsStay DEF Initialize, HttpInv
<1> QED
    BY <1>4, <1>6, <1>7 DEF HttpInv

\* A POST arrives.
LEMMA ArriveStep ==
    ASSUME HttpInv, NEW r \in Req, NEW k \in Kinds \ {"initialize"}, NEW s \in Session, NEW i \in Id,
           NEW a \in Task \cup {NoReq}, k = "task" => a \in Task /\ \A q \in Req : rq[q].arg # a,
           Arrive(r, k, s, i, a)
    PROVE  HttpInv'
<1>1. PICK y : y = [Free EXCEPT !.kind = k, !.sid = s, !.id = i, !.arg = a, !.late = s \in ended]
    OBVIOUS
<1>2. y \in Request /\ y.kind = k /\ y.sid = s /\ y.id = i /\ y.arg = a
    <2>1. PICK f \in Request : f = Free
        BY FreeType
    <2>2. PICK l : l = (s \in ended)
        OBVIOUS
    <2>4. l \in BOOLEAN
        BY <2>2
    <2>3. y = [f EXCEPT !.kind = k, !.sid = s, !.id = i, !.arg = a, !.late = l]
        BY <1>1, <2>1, <2>2
    <2> QED
        BY <2>3, <2>4 DEF Request
<1>3. /\ AfterIdle \in Seq(Session \X Obj)
      /\ s \in Sids(AfterIdle) => ObjOf(AfterIdle, s) \in Obj
      /\ StoreInv'
    <2>1. AfterIdle \in Seq(Session \X Obj)
        BY LiveKeeps DEF HttpInv, StoreInv, AfterIdle
    <2>2. Without(AfterIdle, s) \in Seq(Session \X Obj) /\ (s \in Sids(AfterIdle) => ObjOf(AfterIdle, s) \in Obj)
        BY <2>1, LiveKeeps
    <2>3. s \in Sids(AfterIdle) => Touch(AfterIdle, s) \in Seq(Session \X Obj)
        BY <2>2, AppendProperties DEF Touch
    <2>4. live' \in Seq(Session \X Obj) /\ idle' \in Nat
        BY <2>1, <2>3 DEF Arrive
    <2> QED
        BY <2>1, <2>2, <2>4 DEF Arrive, HttpInv, StoreInv
<1>4. rq[r].phase = "free" /\ Waiting(rq[r]) /\ r \notin sinks
    BY DEF Arrive, Waiting, HttpInv, SilentBeforeStart, Unstarted
<1>5. /\ \E x : rq' = [rq EXCEPT ![r] = x] /\ x \in Request /\ Fits(x) /\ x.kind = k /\ x.arg = a
      /\ listens' \in [Obj -> SUBSET Id]
    <2>1. ASSUME NEW x, x \in Request, x.kind = k, x.sid = s, x.id = i, x.arg = a,
                 x.phase \in {"bound", "persist"} => x.obj # 0, x.phase \in {"bound", "persist", "done", "resolve"}
          PROVE  Fits(x)
        BY <2>1 DEF Fits
    <2>2. CASE ~backend /\ s \in Sids(AfterIdle)
        <3>1. PICK z : z = [y EXCEPT !.obj = ObjOf(AfterIdle, s)]
            OBVIOUS
        <3>2. ObjOf(AfterIdle, s) \in 1 .. MaxObj
            BY <1>3, <2>2 DEF Obj
        <3>3. z \in Request /\ z.obj # 0 /\ z.kind = k /\ z.sid = s /\ z.id = i /\ z.arg = a
            BY <1>2, <3>1, <3>2, McpAssumption DEF Request
        <3>4. Bound(r, z, ready)
            BY <1>1, <2>2, <3>1 DEF Arrive
        <3>5. /\ \E x : rq' = [rq EXCEPT ![r] = x] /\ Later(x, z, {"bound", "persist", "done"})
              /\ listens' \in [Obj -> SUBSET Id]
            BY <3>3, <3>4, Binds DEF HttpInv
        <3> QED
            BY <2>1, <3>3, <3>5 DEF Later
    <2>3. CASE backend \/ s \notin Sids(AfterIdle)
        <3>1. PICK p \in {"resolve", "done"} : rq' = [rq EXCEPT ![r] = [y EXCEPT !.phase = p]]
            BY <1>1, <2>3 DEF Arrive
        <3>2. PICK x : x = [y EXCEPT !.phase = p]
            OBVIOUS
        <3>3. x \in Request /\ x.phase = p /\ x.kind = k /\ x.sid = s /\ x.id = i /\ x.arg = a
            BY <1>2, <3>2 DEF Request, Phases
        <3>4. listens' \in [Obj -> SUBSET Id]
            BY <2>3 DEF Arrive, HttpInv, ReqInv
        <3> QED
            BY <2>1, <3>1, <3>2, <3>3, <3>4
    <2> QED
        BY <2>2, <2>3
<1>6. PICK x \in Request : rq' = [rq EXCEPT ![r] = x] /\ Fits(x) /\ x.kind = k /\ x.arg = a
    BY <1>5
<1>7. sinks' \subseteq sinks /\ r \notin sinks' /\ runner' = runner /\ OthersQuiet
    BY <1>4, StreamsStay DEF Arrive, StayingSinks, evict_tasks
<1>8. ReqInv' /\ SilentBeforeStart'
    BY <1>4, <1>5, <1>6, <1>7, RequestMoves DEF HttpInv
<1>9. StreamInv'
    BY StreamsStay DEF Arrive, HttpInv
<1> QED
    BY <1>3, <1>8, <1>9 DEF HttpInv

\* The write of a new session to the backend.
LEMMA CreateWrittenStep ==
    ASSUME HttpInv, NEW r \in Req, CreateWritten(r) PROVE HttpInv'
<1>1. PICK x : rq' = [rq EXCEPT ![r] = x] /\ Later(x, rq[r], {"bound"})
    BY PhaseSet DEF CreateWritten, HttpInv, ReqInv, Phases
<1>2. rq[r].phase = "create" /\ r \notin sinks /\ Waiting(rq[r])
    BY DEF CreateWritten, Waiting, HttpInv, SilentBeforeStart, Unstarted
<1>3. Fits(x)
    BY <1>1, <1>2 DEF Fits, Later, HttpInv, ReqInv, BoundHaveObjects
<1>4. OthersQuiet /\ StreamInv' /\ sinks' = sinks /\ listens' = listens /\ runner' = runner
    BY StreamsStay DEF CreateWritten, HttpInv, taskVars
<1>5. ReqInv' /\ SilentBeforeStart'
    BY <1>1, <1>2, <1>3, <1>4, RequestMoves DEF HttpInv, ReqInv, Later
<1> QED
    BY <1>4, <1>5 DEF HttpInv, StoreInv, CreateWritten

\* The backend has answered resolve.
LEMMA ResolvedStep ==
    ASSUME HttpInv, NEW r \in Req, Resolved(r) PROVE HttpInv'
<1>1. PICK s \in Session : s = rq[r].sid
    BY DEF Resolved, HttpInv, ReqInv, BoundHaveObjects
<1>2. PICK o : o = IF s \in Sids(live) THEN ObjOf(live, s) ELSE nobj + 1
    OBVIOUS
<1>3. /\ Without(live, s) \in Seq(Session \X Obj)
      /\ record[s] # "none" => o \in Obj
    BY <1>1, <1>2, LiveKeeps DEF Resolved, HttpInv, StoreInv
<1>4. StoreInv'
    <2>1. record[s] # "none" => Append(Without(live, s), <<s, o>>) \in Seq(Session \X Obj)
        BY <1>3, AppendProperties
    <2>2. live' = IF record[s] = "none" THEN Without(live, s) ELSE Append(Without(live, s), <<s, o>>)
        BY <1>1, <1>2 DEF Resolved
    <2>3. live' \in Seq(Session \X Obj)
        BY <1>3, <2>1, <2>2
    <2>4. idle' \in Nat
        <3>1. idle \in Nat /\ (idle' = idle \/ (idle > 0 /\ idle' = idle - 1))
            BY <1>1 DEF Resolved, HttpInv, StoreInv
        <3> QED
            BY <3>1
    <2>5. nobj' \in Nat
        <3>1. nobj' = nobj \/ nobj' \in Obj
            BY <1>1, <1>2, <1>3 DEF Resolved
        <3> QED
            BY <3>1 DEF HttpInv, StoreInv, Obj
    <2> QED
        BY <2>3, <2>4, <2>5 DEF StoreInv
<1>5. rq[r] \in Request /\ rq[r].phase = "resolve" /\ Waiting(rq[r]) /\ r \notin sinks
    BY DEF Resolved, Waiting, HttpInv, ReqInv, SilentBeforeStart, Unstarted
<1>6. /\ \E x \in Request : /\ rq' = [rq EXCEPT ![r] = x] /\ Fits(x)
                            /\ x.kind = rq[r].kind /\ x.arg = rq[r].arg
      /\ listens' \in [Obj -> SUBSET Id]
    <2>1. (rq[r].kind = "listen" => rq[r].id \in Id) /\ (rq[r].kind = "task" => rq[r].arg \in Task)
        BY DEF HttpInv, ReqInv, BoundHaveObjects
    <2>2. CASE record[s] = "none"
        <3>1. rq' = [rq EXCEPT ![r].phase = "done"] /\ listens' = listens
            BY <1>1, <2>2 DEF Resolved
        <3>2. PICK x : rq' = [rq EXCEPT ![r] = x] /\ Later(x, rq[r], {"done"})
            BY <3>1, PhaseSet DEF HttpInv, ReqInv, Phases
        <3>3. Fits(x)
            BY <1>1, <2>1, <3>2 DEF Fits, Later
        <3> QED
            BY <3>1, <3>2, <3>3 DEF Later, HttpInv, ReqInv
    <2>3. CASE record[s] # "none"
        <3>1. PICK z : z = [rq[r] EXCEPT !.obj = o]
            OBVIOUS
        <3>2. o \in 1 .. MaxObj
            BY <1>3, <2>3 DEF Obj
        <3>3. /\ z \in Request /\ z.obj = o /\ z.kind = rq[r].kind /\ z.sid = s /\ z.id = rq[r].id
              /\ z.arg = rq[r].arg
            BY <1>1, <1>5, <3>1, <3>2, McpAssumption DEF Request
        <3>4. \E rdy : Bound(r, z, rdy)
            BY <1>1, <1>2, <2>3, <3>1 DEF Resolved
        <3>5. z.obj # 0
            BY <3>2, <3>3
        <3>6. /\ \E x : rq' = [rq EXCEPT ![r] = x] /\ Later(x, z, {"bound", "persist", "done"})
              /\ listens' \in [Obj -> SUBSET Id]
            BY <3>3, <3>4, <3>5, Binds DEF HttpInv
        <3> QED
            BY <2>1, <3>3, <3>5, <3>6 DEF Later, Fits
    <2> QED
        BY <2>2, <2>3
<1>7. sinks' \subseteq sinks /\ r \notin sinks' /\ runner' = runner /\ OthersQuiet /\ StreamInv'
    BY <1>5, StreamsStay DEF Resolved, StayingSinks, evict_tasks, HttpInv
<1>8. ReqInv' /\ SilentBeforeStart'
    BY <1>5, <1>6, <1>7, RequestMoves DEF HttpInv
<1> QED
    BY <1>4, <1>7, <1>8 DEF HttpInv

\* A runner starts and concludes in one stretch.
LEMMA StartKeeps ==
    ASSUME HttpInv, NEW r \in Req, Starts(r), NEW ps \in Seq(Payload), NEW ans \in BOOLEAN, NEW lst,
           lst \in [Obj -> SUBSET Id], Conclude(r, ps, ans, HeldWith(r), lst, Opened(r)),
           \A t \in runner' : t \in runner \/ (rq[r].kind = "task" /\ rq[r].arg = t)
    PROVE  HttpInv'
<1>1. PICK x : rq' = [rq EXCEPT ![r] = x] /\ Later(x, rq[r], {"persist", "listen", "done"})
    BY Concludes DEF HttpInv
<1>2. /\ sinks' \subseteq sinks \cup {r} /\ listens' \in [Obj -> SUBSET Id]
      /\ \E p \in Seq(Payload) : Sends(On(r, p), Opened(r))
    BY Concludes DEF HttpInv, HeldWith
<1>3. PICK p \in Seq(Payload) : Sends(On(r, p), Opened(r))
    BY <1>2
<1>4. /\ rq[r].phase = "bound" /\ link' = [link EXCEPT ![r] = "open"] /\ got' = got
      /\ link[r] = "none" /\ said[r] = <<>> /\ queue[r] = <<>> /\ got[r] = <<>>
    BY DEF Starts, HttpInv, SilentBeforeStart, Unstarted
<1>5. StreamInv' /\ \A q \in Req : q # r => said'[q] = said[q] /\ queue'[q] = queue[q]
    <2>1. PICK m : m = On(r, p)
        OBVIOUS
    <2>2. m \in [Req -> Seq(Payload)] /\ \A q \in Req : q # r => m[q] = <<>>
        BY <2>1, OnType
    <2>3. link' \in [Req -> {"none", "open", "gone"}] /\ \A q \in Req : q \in Opened(r) <=> link'[q] = "open"
        BY <1>4 DEF Opened, Draining, HttpInv, StreamInv, StreamTypes
    <2>4. \A q \in Req : link'[q] = link[q] \/ (said[q] = <<>> /\ queue[q] = <<>> /\ got[q] = <<>>)
        BY <1>4 DEF HttpInv, StreamInv, StreamTypes
    <2>5. StreamInv' /\ \A q \in Req : m[q] = <<>> => said'[q] = said[q] /\ queue'[q] = queue[q]
        BY <1>3, <1>4, <2>1, <2>2, <2>3, <2>4, SendsKeep DEF HttpInv
    <2> QED
        BY <2>2, <2>5
<1>6. OthersQuiet
    BY <1>1, <1>4, <1>5 DEF OthersQuiet, Waiting, Later, HttpInv, ReqInv, StreamInv, StreamTypes
<1>7. ReqInv' /\ SilentBeforeStart'
    <2>1. Fits(x) /\ x.obj # 0 /\ ~Waiting(x) /\ x \in Request /\ x.kind = rq[r].kind /\ x.arg = rq[r].arg
        BY <1>1, <1>4 DEF Fits, Later, Waiting, HttpInv, ReqInv, BoundHaveObjects
    <2> QED
        BY <1>1, <1>2, <1>6, <2>1, RequestMoves DEF HttpInv
<1> QED
    BY <1>5, <1>7 DEF HttpInv, StoreInv, Starts, storeVars

\* Every request that is served has its session object.
LEMMA StartedObj ==
    ASSUME HttpInv, NEW r \in Req, rq[r].phase \in {"bound", "run", "persist", "listen"} \/ r \in sinks
    PROVE  rq[r].obj \in Obj
BY DEF HttpInv, ReqInv, BoundHaveObjects, Request, Obj

\* The runners that conclude without an await.
LEMMA StartsStep ==
    ASSUME HttpInv, NEW r \in Req, RunAtOnce(r) \/ RunTask(r) \/ RunTaskCancel(r) \/ RunListen(r) PROVE HttpInv'
<1>1. CASE RunAtOnce(r)
    <2>1. /\ Starts(r) /\ Conclude(r, <<>>, TRUE, HeldWith(r), listens, Opened(r)) /\ runner' = runner
        BY <1>1 DEF RunAtOnce, taskVars
    <2> QED
        BY <2>1, EmptySeq, StartKeeps DEF HttpInv, ReqInv
<1>2. CASE RunTask(r)
    <2>1. /\ Starts(r) /\ Conclude(r, <<>>, TRUE, HeldWith(r), listens, Opened(r)) /\ rq[r].kind = "task"
          /\ runner' = runner \cup {rq[r].arg}
        BY <1>2 DEF RunTask, create_task
    <2> QED
        BY <2>1, EmptySeq, StartKeeps DEF HttpInv, ReqInv
<1>3. CASE RunTaskCancel(r)
    <2>1. /\ Starts(r) /\ runner' = runner
          /\ \/ Conclude(r, <<"status">>, TRUE, HeldWith(r), listens, Opened(r))
             \/ Conclude(r, <<>>, TRUE, HeldWith(r), listens, Opened(r))
        BY <1>3 DEF RunTaskCancel, cancel_task
    <2>2. <<"status">> \in Seq(Payload) /\ <<>> \in Seq(Payload)
        BY DEF Payload
    <2> QED
        BY <2>1, <2>2, StartKeeps DEF HttpInv, ReqInv
<1>4. CASE RunListen(r)
    <2>1. PICK lst : lst = [listens EXCEPT ![rq[r].obj] = @ \cup {rq[r].id}]
        OBVIOUS
    <2>2. Starts(r) /\ Conclude(r, <<"ack">>, FALSE, HeldWith(r), lst, Opened(r)) /\ runner' = runner
        BY <1>4, <2>1 DEF RunListen, taskVars
    <2>3. rq[r].id \in Id /\ rq[r].obj \in Obj
        BY <1>4, StartedObj DEF RunListen, Starts, HttpInv, ReqInv, BoundHaveObjects
    <2>4. lst \in [Obj -> SUBSET Id]
        BY <2>1, <2>3 DEF HttpInv, ReqInv
    <2>5. <<"ack">> \in Seq(Payload)
        BY DEF Payload
    <2> QED
        BY <2>2, <2>4, <2>5, StartKeeps
<1> QED
    BY <1>1, <1>2, <1>3, <1>4

\* tools/call starts the tool.
LEMMA RunCallStep ==
    ASSUME HttpInv, NEW r \in Req, RunCall(r) PROVE HttpInv'
<1>1. PICK x : rq' = [rq EXCEPT ![r] = x] /\ Later(x, rq[r], {"run"})
    BY PhaseSet DEF RunCall, HttpInv, ReqInv, Phases
<1>2. /\ rq[r].phase = "bound" /\ link' = [link EXCEPT ![r] = "open"] /\ UNCHANGED <<got, said, queue, log>>
      /\ said[r] = <<>> /\ queue[r] = <<>> /\ got[r] = <<>>
    BY DEF RunCall, Starts, HttpInv, SilentBeforeStart, Unstarted
<1>3. StreamInv'
    BY <1>2, OpenKeeps DEF HttpInv
<1>4. OthersQuiet
    BY <1>1, <1>2 DEF OthersQuiet, Waiting, Later, HttpInv, ReqInv, StreamInv, StreamTypes
<1>5. sinks' \subseteq sinks \cup {r} /\ listens' = listens /\ runner' = runner
    BY DEF RunCall, HeldWith, taskVars
<1>6. Fits(x) /\ x.obj # 0 /\ ~Waiting(x) /\ x \in Request /\ x.kind = rq[r].kind /\ x.arg = rq[r].arg
    BY <1>1, <1>2 DEF Fits, Later, Waiting, HttpInv, ReqInv, BoundHaveObjects
<1>7. ReqInv' /\ SilentBeforeStart'
    BY <1>1, <1>4, <1>5, <1>6, RequestMoves DEF HttpInv, ReqInv
<1> QED
    BY <1>3, <1>7 DEF HttpInv, StoreInv, RunCall, Starts, storeVars

\* Something is said, but not on streams whose runners have not started.
LEMMA SayKeeps ==
    ASSUME HttpInv, NEW m \in [Req -> Seq(Payload)], Sends(m, Draining), UNCHANGED <<got, link>>,
           \A q \in Req : Waiting(rq'[q]) => m[q] = <<>>
    PROVE  StreamInv' /\ OthersQuiet
<1>1. /\ link' \in [Req -> {"none", "open", "gone"}]
      /\ \A q \in Req : (q \in Draining <=> link'[q] = "open") /\ link'[q] = link[q]
    BY DEF Draining, HttpInv, StreamInv, StreamTypes
<1>2. StreamInv' /\ \A q \in Req : m[q] = <<>> => said'[q] = said[q] /\ queue'[q] = queue[q]
    BY <1>1, SendsKeep DEF HttpInv
<1> QED
    BY <1>2 DEF OthersQuiet

\* A runner that has started goes on, and may say something on its stream.
LEMMA GoesOn ==
    ASSUME HttpInv, NEW r \in Req, ~Waiting(rq[r]), NEW x, rq' = [rq EXCEPT ![r] = x],
           Later(x, rq[r], {"persist", "listen", "done"}), rq[r].phase = "done" \/ rq[r].obj # 0,
           rq[r].phase = "done" => x.phase = "done",
           sinks' \subseteq sinks, listens' \in [Obj -> SUBSET Id], runner' = runner,
           \/ \E p \in Seq(Payload) : Sends(On(r, p), Draining) /\ UNCHANGED <<got, link>>
           \/ UNCHANGED streamVars,
           UNCHANGED <<live, idle, nobj>>
    PROVE  HttpInv'
<1>1. StreamInv' /\ OthersQuiet
    <2>1. CASE UNCHANGED streamVars
        BY <2>1, StreamsStay DEF HttpInv
    <2>2. ASSUME NEW p \in Seq(Payload), Sends(On(r, p), Draining), UNCHANGED <<got, link>>
          PROVE  StreamInv' /\ OthersQuiet
        <3>1. On(r, p) \in [Req -> Seq(Payload)] /\ \A q \in Req : q # r => On(r, p)[q] = <<>>
            BY OnType
        <3>2. ~Waiting(rq'[r])
            BY DEF HttpInv, ReqInv, Later, Waiting
        <3>3. \A q \in Req : Waiting(rq'[q]) => On(r, p)[q] = <<>>
            BY <3>1, <3>2
        <3> QED
            BY <2>2, <3>1, <3>3, SayKeeps
    <2> QED
        BY <2>1, <2>2
<1>2. Fits(x) /\ ~Waiting(x) /\ x \in Request /\ x.kind = rq[r].kind /\ x.arg = rq[r].arg
    BY DEF Fits, Later, Waiting, HttpInv, ReqInv, BoundHaveObjects
<1>3. r \in sinks' => x.obj # 0
    BY DEF Later, HttpInv, ReqInv, BoundHaveObjects
<1>4. ReqInv' /\ SilentBeforeStart'
    BY <1>1, <1>2, <1>3, RequestMoves DEF HttpInv
<1> QED
    BY <1>1, <1>4 DEF HttpInv, StoreInv

\* The tool returns or is cancelled, the session is persisted, a listen ends.
LEMMA GoesOnStep ==
    ASSUME HttpInv, NEW r \in Req,
           ToolReturns(r) \/ CallCancelled(r) \/ Persisted(r) \/ ListenEnds(r)
    PROVE  HttpInv'
<1>1. CASE ToolReturns(r)
    <2>1. /\ rq[r].phase = "run" /\ Conclude(r, <<>>, TRUE, sinks, listens, Draining)
          /\ UNCHANGED <<live, idle, nobj>> /\ UNCHANGED <<got, link>> /\ runner' = runner
        BY <1>1 DEF ToolReturns, storeVars, taskVars
    <2>2. /\ \E x : rq' = [rq EXCEPT ![r] = x] /\ Later(x, rq[r], {"persist", "listen", "done"})
          /\ sinks' \subseteq sinks /\ listens' \in [Obj -> SUBSET Id]
          /\ \E p \in Seq(Payload) : Sends(On(r, p), Draining)
        BY <2>1, Concludes, EmptySeq DEF HttpInv, ReqInv
    <2>3. ~Waiting(rq[r]) /\ rq[r].obj # 0 /\ rq[r].phase # "done"
        BY <2>1 DEF Waiting, HttpInv, ReqInv, BoundHaveObjects
    <2> QED
        BY <2>1, <2>2, <2>3, GoesOn
<1>2. CASE CallCancelled(r) \/ ListenEnds(r)
    <2>1. /\ rq[r].phase \in {"run", "listen"} /\ rq' = [rq EXCEPT ![r].phase = "done"]
          /\ sinks' \subseteq sinks /\ (listens' = listens \/ listens' = [listens EXCEPT ![rq[r].obj] = {}])
          /\ UNCHANGED <<live, idle, nobj>> /\ UNCHANGED streamVars /\ runner' = runner
        BY <1>2 DEF CallCancelled, ListenEnds, Unregister, storeVars, taskVars
    <2>2. PICK x : rq' = [rq EXCEPT ![r] = x] /\ Later(x, rq[r], {"done"})
        BY <2>1, PhaseSet DEF HttpInv, ReqInv, Phases
    <2>3. ~Waiting(rq[r]) /\ rq[r].obj # 0 /\ rq[r].phase # "done"
        BY <2>1 DEF Waiting, HttpInv, ReqInv, BoundHaveObjects
    <2>4. listens' \in [Obj -> SUBSET Id]
        BY <2>1 DEF HttpInv, ReqInv
    <2>5. Later(x, rq[r], {"persist", "listen", "done"})
        BY <2>2 DEF Later
    <2> QED
        BY <2>1, <2>2, <2>3, <2>4, <2>5, GoesOn
<1>3. CASE Persisted(r)
    <2>1. PICK p \in {"listen", "done"} : rq' = [rq EXCEPT ![r].phase = p]
        BY <1>3 DEF Persisted
    <2>2. /\ rq[r].phase = "persist"
          /\ sinks' \subseteq sinks /\ (listens' = listens \/ listens' = [listens EXCEPT ![rq[r].obj] = {}])
          /\ UNCHANGED <<live, idle, nobj>> /\ UNCHANGED <<got, link>> /\ runner' = runner
          /\ Sends(On(r, <<"answer">>), Draining) \/ Sends(On(r, <<>>), Draining)
        BY <1>3 DEF Persisted, Unregister, taskVars
    <2>3. PICK x : rq' = [rq EXCEPT ![r] = x] /\ Later(x, rq[r], {p})
        BY <2>1, PhaseSet DEF HttpInv, ReqInv, Phases
    <2>4. ~Waiting(rq[r]) /\ rq[r].obj # 0 /\ rq[r].phase # "done"
        BY <2>2 DEF Waiting, HttpInv, ReqInv, BoundHaveObjects
    <2>5. listens' \in [Obj -> SUBSET Id]
        BY <2>2 DEF HttpInv, ReqInv
    <2>6. Later(x, rq[r], {"persist", "listen", "done"})
        BY <2>3 DEF Later
    <2>7. <<"answer">> \in Seq(Payload) /\ <<>> \in Seq(Payload)
        BY DEF Payload
    <2>8. \E ps \in Seq(Payload) : Sends(On(r, ps), Draining)
        BY <2>2, <2>7
    <2> QED
        BY <2>2, <2>3, <2>4, <2>5, <2>6, <2>8, GoesOn
<1> QED
    BY <1>1, <1>2, <1>3

\* The client has gone before the response started.
LEMMA NeverStartedStep ==
    ASSUME HttpInv, NEW r \in Req, NeverStarted(r) PROVE HttpInv'
<1>1. PICK x : rq' = [rq EXCEPT ![r] = x] /\ Later(x, rq[r], {"done"})
    BY PhaseSet DEF NeverStarted, HttpInv, ReqInv, Phases
<1>2. rq[r].phase = "bound" /\ r \notin sinks
    BY DEF NeverStarted, HttpInv, SilentBeforeStart, Unstarted
<1>3. OthersQuiet /\ StreamInv' /\ sinks' = sinks /\ listens' = listens /\ runner' = runner
    BY StreamsStay DEF NeverStarted, HttpInv, taskVars
<1>4. Fits(x) /\ ~Waiting(x) /\ x \in Request /\ x.kind = rq[r].kind /\ x.arg = rq[r].arg
    BY <1>1, <1>2 DEF Fits, Later, Waiting, HttpInv, ReqInv, BoundHaveObjects
<1>5. ReqInv' /\ SilentBeforeStart'
    BY <1>1, <1>2, <1>3, <1>4, RequestMoves DEF HttpInv, ReqInv
<1> QED
    BY <1>3, <1>5 DEF HttpInv, StoreInv, NeverStarted, storeVars

\* No request moves.
LEMMA StillKeeps ==
    ASSUME HttpInv, rq' = rq, listens' = listens, sinks' \subseteq sinks, runner' \subseteq runner,
           StoreInv', StreamInv', OthersQuiet
    PROVE  HttpInv'
BY RequestsStay DEF HttpInv

\* Progress of a tool.
LEMMA ToolEmitsStep ==
    ASSUME HttpInv, NEW r \in Req, ToolEmits(r) PROVE HttpInv'
<1>1. PICK m : m = On(r, <<"progress">>)
    OBVIOUS
<1>2. /\ rq[r].phase = "run" /\ Sends(m, Draining) /\ UNCHANGED <<got, link>> /\ UNCHANGED storeVars
      /\ UNCHANGED reqVars /\ runner' = runner
    BY <1>1 DEF ToolEmits, taskVars
<1>3. <<"progress">> \in Seq(Payload)
    BY DEF Payload
<1>4. m \in [Req -> Seq(Payload)] /\ \A q \in Req : q # r => m[q] = <<>>
    BY <1>1, <1>3, OnType
<1>5. \A q \in Req : Waiting(rq'[q]) => m[q] = <<>>
    BY <1>2, <1>4 DEF Waiting, reqVars
<1>6. StreamInv' /\ OthersQuiet
    BY <1>2, <1>4, <1>5, SayKeeps
<1> QED
    BY <1>2, <1>6, StillKeeps DEF reqVars, storeVars, HttpInv, StoreInv

\* A signal to all sinks: their runners have started.
LEMMA AppNotifiesStep ==
    ASSUME HttpInv, AppNotifies PROVE HttpInv'
<1>1. PICK m : m = [r \in Req |-> IF r \notin sinks THEN <<>>
                                  ELSE IF listens[rq[r].obj] = {} THEN <<"note">>
                                  ELSE [i \in 1..Cardinality(listens[rq[r].obj]) |-> "note"]]
    OBVIOUS
<1>2. /\ Sends(m, Draining) /\ UNCHANGED <<got, link>> /\ UNCHANGED storeVars
      /\ UNCHANGED reqVars /\ runner' = runner
    BY <1>1 DEF AppNotifies, taskVars
<1>3. ASSUME NEW r \in Req PROVE m[r] \in Seq(Payload)
    <2>1. CASE r \notin sinks
        BY <1>1, <2>1, EmptySeq
    <2>2. CASE r \in sinks /\ listens[rq[r].obj] = {}
        <3>1. m[r] = <<"note">>
            BY <1>1, <2>2
        <3> QED
            BY <3>1 DEF Payload
    <2>3. CASE r \in sinks /\ listens[rq[r].obj] # {}
        <3>1. PICK n : n = Cardinality(listens[rq[r].obj])
            OBVIOUS
        <3>2. listens[rq[r].obj] \subseteq Id
            BY <2>3, StartedObj DEF HttpInv, ReqInv
        <3>3. n \in Nat
            BY <3>1, <3>2, FS_Subset, FS_CardinalityType, McpAssumption
        <3>4. m[r] = [i \in 1 .. n |-> "note"]
            BY <1>1, <2>3, <3>1
        <3> QED
            BY <3>3, <3>4 DEF Payload
    <2> QED
        BY <2>1, <2>2, <2>3
<1>4. m \in [Req -> Seq(Payload)]
    BY <1>1, <1>3
<1>5. \A q \in Req : Waiting(rq'[q]) => m[q] = <<>>
    BY <1>1, <1>2 DEF reqVars, Waiting, HttpInv, SilentBeforeStart, Unstarted
<1>6. StreamInv' /\ OthersQuiet
    BY <1>2, <1>4, <1>5, SayKeeps
<1> QED
    BY <1>2, <1>6, StillKeeps DEF reqVars, storeVars, HttpInv, StoreInv

\* A task reports on the stream of the request that made it.
LEMMA TaskEndsStep ==
    ASSUME HttpInv, NEW t, NEW out, TaskEnds(t, out) PROVE HttpInv'
<1>1. PICK m : m = On(Origin(t), <<"status">>)
    OBVIOUS
<1>2. /\ Sends(m, Draining) /\ UNCHANGED <<got, link>> /\ UNCHANGED storeVars /\ UNCHANGED reqVars
      /\ t \in runner /\ runner' \subseteq runner
    BY <1>1 DEF TaskEnds, run_task
<1>3. PICK r \in Req : rq[r].kind = "task" /\ rq[r].arg = t /\ ~Unstarted(r)
    BY <1>2 DEF HttpInv, ReqInv, TasksHaveStreams
<1>4. Origin(t) = r
    BY <1>3 DEF Origin, HttpInv, ReqInv, TasksHaveStreams
<1>5. <<"status">> \in Seq(Payload)
    BY DEF Payload
<1>6. m \in [Req -> Seq(Payload)] /\ \A q \in Req : q # r => m[q] = <<>>
    BY <1>1, <1>4, <1>5, OnType
<1>7. \A q \in Req : Waiting(rq'[q]) => m[q] = <<>>
    BY <1>2, <1>3, <1>6 DEF Waiting, Unstarted, reqVars
<1>8. StreamInv' /\ OthersQuiet
    BY <1>2, <1>6, <1>7, SayKeeps
<1> QED
    BY <1>2, <1>8, StillKeeps DEF reqVars, storeVars, HttpInv, StoreInv

\* The client reads, or goes.
LEMMA ClientStep ==
    ASSUME HttpInv, NEW r \in Req, Deliver(r) \/ Disconnect(r) PROVE HttpInv'
<1>1. /\ link[r] = "open" /\ UNCHANGED storeVars /\ UNCHANGED reqVars /\ runner' = runner /\ said' = said
      /\ \A q \in Req : q # r => link'[q] = link[q] /\ got'[q] = got[q] /\ queue'[q] = queue[q]
    BY DEF Deliver, Disconnect, taskVars, HttpInv, StreamInv, StreamTypes
<1>2. ~Waiting(rq'[r])
    BY <1>1 DEF reqVars, Waiting, HttpInv, SilentBeforeStart, Unstarted
<1>3. OthersQuiet
    BY <1>1, <1>2 DEF OthersQuiet
<1>4. StreamInv'
    BY DeliverKeeps, DisconnectKeeps DEF Deliver, Disconnect, HttpInv
<1> QED
    BY <1>1, <1>3, <1>4, StillKeeps DEF reqVars, storeVars, HttpInv, StoreInv

\* The client resumes a stream.
LEMMA ResumeStep ==
    ASSUME HttpInv, NEW r \in Req, Resume(r) PROVE HttpInv'
<1>1. PICK s : s = rq[r].sid
    OBVIOUS
<1>2. StoreInv'
    <2>1. AfterIdle \in Seq(Session \X Obj)
        BY LiveKeeps DEF HttpInv, StoreInv, AfterIdle
    <2>2. s \in Sids(AfterIdle)
        BY <1>1 DEF Resume
    <2>3. Without(AfterIdle, s) \in Seq(Session \X Obj) /\ s \in Session /\ ObjOf(AfterIdle, s) \in Obj
        BY <2>1, <2>2, LiveKeeps
    <2>4. Touch(AfterIdle, s) \in Seq(Session \X Obj)
        BY <2>3, AppendProperties DEF Touch
    <2>5. live' = Touch(AfterIdle, s) /\ idle' = 0 /\ nobj' = nobj
        BY <1>1 DEF Resume
    <2> QED
        BY <2>4, <2>5 DEF HttpInv, StoreInv
<1>3. /\ link[r] = "gone" /\ sinks' \subseteq sinks /\ rq' = rq /\ listens' = listens /\ runner' = runner
      /\ UNCHANGED <<said, queue, link, log>>
      /\ got' = [got EXCEPT ![r] = @ \o replay_after(r, IF got[r] = <<>> THEN 0 ELSE got[r][Len(got[r])])]
    BY DEF Resume, StayingSinks, evict_tasks
<1>4. StreamInv'
    BY <1>3, ResumeKeeps DEF HttpInv
<1>5. OthersQuiet
    BY <1>3 DEF OthersQuiet, Waiting, Unstarted, HttpInv, SilentBeforeStart, StreamInv, StreamTypes
<1> QED
    BY <1>2, <1>3, <1>4, <1>5, StillKeeps

\* Steps of the store and of the tasks that say nothing.
LEMMA StoreStep ==
    ASSUME HttpInv,
           \/ \E s \in Session : Delete(s) \/ DeleteShared(s)
           \/ GoesIdle \/ (\E t \in Task : TaskUnwinds(t) \/ TaskExpires(t)) \/ UNCHANGED vars
    PROVE  HttpInv'
<1>1. /\ rq' = rq /\ listens' = listens /\ sinks' \subseteq sinks /\ runner' \subseteq runner
      /\ UNCHANGED streamVars /\ nobj' = nobj
    BY DEF Delete, DeleteShared, GoesIdle, TaskUnwinds, TaskExpires, run_task_cancelled, Expire, evict_tasks,
           StayingSinks, vars, storeVars, reqVars, taskVars
<1>2. live' \in Seq(Session \X Obj)
    <2>1. live' = live \/ \E s \in Session : live' = Without(live, s)
        BY DEF Delete, DeleteShared, GoesIdle, TaskUnwinds, TaskExpires, vars, storeVars
    <2> QED
        BY <2>1, LiveKeeps DEF HttpInv, StoreInv
<1>3. idle' \in Nat
    <2>1. idle' = idle \/ (idle > 0 /\ idle' = idle - 1) \/ idle' = idle + 1
        BY DEF Delete, DeleteShared, GoesIdle, TaskUnwinds, TaskExpires, vars, storeVars
    <2>2. idle \in Nat
        BY DEF HttpInv, StoreInv
    <2> QED
        BY <2>1, <2>2
<1>4. StoreInv'
    BY <1>1, <1>2, <1>3 DEF HttpInv, StoreInv
<1> QED
    BY <1>1, <1>4, StreamsStay, StillKeeps DEF HttpInv

\* The invariant holds at first ...
LEMMA HttpInvInit == Init => HttpInv
<1> SUFFICES ASSUME Init PROVE HttpInv
    OBVIOUS
<1>1. StoreInv
    <2>1. PICK s \in Session : s = CHOOSE x \in Session : TRUE
        BY McpAssumption
    <2>2. live = <<<<s, 1>>>> /\ idle = 0 /\ nobj = 1
        BY <2>1 DEF Init
    <2>3. <<s, 1>> \in Session \X Obj
        BY McpAssumption DEF Obj
    <2>4. PICK e \in Session \X Obj : e = <<s, 1>>
        BY <2>3
    <2>5. <<e>> \in Seq(Session \X Obj)
        OBVIOUS
    <2> QED
        BY <2>2, <2>4, <2>5 DEF StoreInv
<1>2. ReqInv
    <2>1. rq \in [Req -> Request] /\ \A r \in Req : rq[r] = Free
        BY FreeType DEF Init
    <2>2. Free.phase = "free" /\ Free.kind = "none"
        BY DEF Free
    <2>3. listens \in [Obj -> SUBSET Id] /\ sinks = {} /\ runner = {}
        BY DEF Init, TasksInit
    <2> QED
        BY <2>1, <2>2, <2>3 DEF ReqInv, BoundHaveObjects, TasksHaveStreams
<1>3. StreamInv
    <2>1. StreamTypes
        BY EmptySeq DEF Init, StreamTypes
    <2>2. Whole(<<>>, <<>>, <<>>, <<>>, "none")
        <3>1. Len(<<>>) = 0 /\ DOMAIN <<>> = {}
            OBVIOUS
        <3> QED
            BY <3>1 DEF Whole, EndsWith
    <2> QED
        BY <2>1, <2>2 DEF Init, StreamInv
<1>4. SilentBeforeStart
    BY DEF Init, SilentBeforeStart
<1> QED
    BY <1>1, <1>2, <1>3, <1>4 DEF HttpInv

\* ... and every step keeps it.
LEMMA HttpInvStep == HttpInv /\ [Next]_vars => HttpInv'
<1> SUFFICES ASSUME HttpInv, [Next]_vars PROVE HttpInv'
    OBVIOUS
<1>1. ASSUME NEW r \in Req, RunnerStep(r) PROVE HttpInv'
    BY <1>1, StartsStep, RunCallStep, GoesOnStep, CreateWrittenStep, ResolvedStep DEF RunnerStep
<1>2. ASSUME NEW r \in Req, NEW k \in Kinds \ {"initialize"}, NEW s \in Session, NEW i \in Id,
             NEW a \in IF k \in {"task", "taskcancel"} THEN Task ELSE {NoReq},
             k = "task" => status[a] = "none" /\ \A q \in Req : rq[q].arg # a, Arrive(r, k, s, i, a)
      PROVE  HttpInv'
    <2>1. a \in Task \cup {NoReq} /\ (k = "task" => a \in Task /\ \A q \in Req : rq[q].arg # a)
        BY <1>2
    <2> QED
        BY <1>2, <2>1, ArriveStep
<1>3. ASSUME NEW r \in Req, NEW s \in Session, "initialize" \in Kinds, Initialize(r, s) PROVE HttpInv'
    BY <1>3, InitializeStep
<1>4. ASSUME NEW r \in Req, NeverStarted(r) \/ ToolEmits(r) \/ Deliver(r) \/ Disconnect(r) \/ Resume(r)
      PROVE  HttpInv'
    BY <1>4, NeverStartedStep, ToolEmitsStep, ClientStep, ResumeStep
<1>5. ASSUME NEW t \in Task, NEW out \in Terminal, TaskEnds(t, out) PROVE HttpInv'
    BY <1>5, TaskEndsStep
<1>6. CASE Next
    <2>1. \A r : r \in (IF backend THEN SharedReq ELSE Req) => r \in Req
        BY McpAssumption
    <2> QED
        BY <1>1, <1>2, <1>3, <1>4, <1>5, <1>6, <2>1, AppNotifiesStep, StoreStep DEF Next
<1> QED
    BY <1>6, StoreStep

\* A ring that holds position 1 is whole, so the stream is exact.
LEMMA ExactFromInv == HttpInv => StreamExact
<1> SUFFICES ASSUME HttpInv, NEW r \in Req, said[r] # <<>> => 1 \in Range(log[r]),
                    NEW seen, seen = IF link[r] = "open" THEN got[r] \o queue[r] ELSE got[r]
             PROVE  /\ seen = [n \in 1..Len(seen) |-> n]
                    /\ link[r] = "open" => Len(seen) = Len(said[r])
                    /\ \A n \in Len(got[r]) + 1..Len(said[r]) : n \in Range(log[r])
    BY DEF StreamExact
<1>1. PICK sd \in Seq(Payload), q \in Seq(Nat), g \in Seq(Nat), lg \in Seq(Nat) :
         /\ sd = said[r] /\ q = queue[r] /\ g = got[r] /\ lg = log[r]
         /\ Whole(sd, q, g, lg, link[r])
    BY DEF HttpInv, StreamInv, StreamTypes
<1>2. PICK a \in Nat, e \in Nat : a = Len(sd) /\ e = Len(lg) /\ DOMAIN lg = 1 .. e
    BY LenProperties
<1>3. e <= a /\ \A n \in 1 .. e : lg[n] = (a - e) + n
    BY <1>1, <1>2 DEF Whole, EndsWith
<1>4. e = a
    <2>1. CASE sd = <<>>
        BY <1>2, <1>3, <2>1, EmptySeq
    <2>2. CASE sd # <<>>
        <3>1. PICK n \in 1 .. e : lg[n] = 1
            BY <1>1, <1>2, <2>2 DEF Range
        <3>2. (a - e) + n = 1
            BY <1>3, <3>1
        <3> QED
            BY <1>3, <3>2
    <2> QED
        BY <2>1, <2>2
<1>5. /\ Len(g) <= a /\ \A n \in DOMAIN g : g[n] = n
      /\ link[r] = "open" => Len(g) + Len(q) = a /\ \A n \in DOMAIN q : q[n] = Len(g) + n
    BY <1>1, <1>2, <1>4 DEF Whole
<1>6. seen \in Seq(Nat) /\ (\A n \in DOMAIN seen : seen[n] = n) /\ (link[r] = "open" => Len(seen) = a)
    <2>1. CASE link[r] = "open"
        <3>1. seen = g \o q
            BY <1>1, <2>1
        <3>2. g \o q \in Seq(Nat)
            BY ConcatProperties
        <3>3. Len(g \o q) = Len(g) + Len(q) /\ \A n \in DOMAIN (g \o q) : (g \o q)[n] = n
            BY <1>5, <2>1, Joined
        <3> QED
            BY <1>5, <2>1, <3>1, <3>2, <3>3
    <2>2. CASE link[r] # "open"
        BY <1>1, <1>5, <2>2
    <2> QED
        BY <2>1, <2>2
<1>7. seen = [n \in 1 .. Len(seen) |-> n]
    <2>1. DOMAIN seen = 1 .. Len(seen) /\ seen = [n \in 1 .. Len(seen) |-> seen[n]]
        BY <1>6, LenProperties
    <2> QED
        BY <1>6, <2>1
<1>8. ASSUME NEW n \in Len(g) + 1 .. a PROVE n \in Range(lg)
    <2>1. n \in 1 .. e /\ lg[n] = n
        <3>1. Len(g) \in Nat
            BY LenProperties
        <3>2. n \in 1 .. e
            BY <1>4, <1>8, <3>1
        <3> QED
            BY <1>3, <1>4, <3>2
    <2> QED
        BY <1>2, <2>1 DEF Range
<1> QED
    BY <1>1, <1>2, <1>6, <1>7, <1>8

\* No event is lost, repeated or out of order on a resumable stream, whatever
\* sends, disconnections, resumptions and evictions from the event store do
\* (event_store.py replay_after, http.py _stream_response).
THEOREM StreamsAreExact == Spec => []StreamExact
<1>1. Init => HttpInv
    BY HttpInvInit
<1>2. HttpInv /\ [Next]_vars => HttpInv'
    BY HttpInvStep
<1>3. HttpInv => StreamExact
    BY ExactFromInv
<1> QED
    BY <1>1, <1>2, <1>3, PTL DEF Spec

\* Every variable keeps its type; a ring is a tail of what was said on its
\* stream; a stream is silent before its runner starts (http.py runner()).
THEOREM HttpTypesKept == Spec => [](TypeOK /\ RingIsTail /\ RingIsWhole /\ SilentBeforeStart)
<1>1. HttpInv => TypeOK
    BY DEF HttpInv, StoreInv, ReqInv, StreamInv, StreamTypes, Request, Phases, Payload, TypeOK
<1>2. HttpInv => RingIsTail /\ RingIsWhole /\ SilentBeforeStart
    BY DEF HttpInv, StreamInv, Whole, EndsWith, RingIsTail, RingIsWhole
<1> QED
    BY <1>1, <1>2, HttpInvInit, HttpInvStep, PTL DEF Spec

(* SinksAreRunning, and why: a notification has no runner and no sink.     *)
SinksInv ==
    \A r \in Req : /\ r \in sinks => rq[r].phase \in {"run", "persist", "listen"}
                   /\ r \in sinks \/ rq[r].phase \in {"bound", "create"} => rq[r].kind \notin Notifications

\* One request moves, and its sink with it.
LEMMA SinksFollow ==
    ASSUME HttpInv, SinksInv, NEW r \in Req, NEW x, rq' = [rq EXCEPT ![r] = x],
           sinks' \subseteq sinks \cup {r},
           r \in sinks' => x.phase \in {"run", "persist", "listen"},
           r \in sinks' \/ x.phase \in {"bound", "create"} => x.kind \notin Notifications
    PROVE  SinksInv'
BY DEF SinksInv, HttpInv, ReqInv

\* A runner that starts is registered unless it ended at once.
LEMMA SinksStart ==
    ASSUME HttpInv, SinksInv, NEW r \in Req, rq[r].phase = "bound", NEW ps \in Seq(Payload),
           NEW ans \in BOOLEAN, NEW lst, lst \in [Obj -> SUBSET Id],
           Conclude(r, ps, ans, HeldWith(r), lst, Opened(r))
    PROVE  SinksInv'
<1>1. PICK x : /\ rq' = [rq EXCEPT ![r] = x] /\ Later(x, rq[r], {"persist", "listen", "done"})
               /\ r \in sinks' => x.phase \in {"persist", "listen"}
    BY Concludes DEF HttpInv
<1>2. sinks' \subseteq sinks \cup {r}
    BY Concludes DEF HttpInv, HeldWith
<1> QED
    BY <1>1, <1>2, SinksFollow DEF Later, SinksInv

\* The steps of the runners.
LEMMA SinksStep ==
    ASSUME HttpInv, SinksInv, NEW r \in Req, RunnerStep(r) PROVE SinksInv'
<1>1. CASE RunAtOnce(r) \/ RunTask(r)
    <2>1. rq[r].phase = "bound" /\ Conclude(r, <<>>, TRUE, HeldWith(r), listens, Opened(r))
        BY <1>1 DEF RunAtOnce, RunTask, Starts
    <2> QED
        BY <2>1, EmptySeq, SinksStart DEF HttpInv, ReqInv
<1>2. CASE RunTaskCancel(r)
    <2>1. /\ rq[r].phase = "bound"
          /\ \/ Conclude(r, <<"status">>, TRUE, HeldWith(r), listens, Opened(r))
             \/ Conclude(r, <<>>, TRUE, HeldWith(r), listens, Opened(r))
        BY <1>2 DEF RunTaskCancel, Starts
    <2>2. <<"status">> \in Seq(Payload) /\ <<>> \in Seq(Payload)
        BY DEF Payload
    <2> QED
        BY <2>1, <2>2, SinksStart DEF HttpInv, ReqInv
<1>3. CASE RunListen(r)
    <2>1. PICK lst : lst = [listens EXCEPT ![rq[r].obj] = @ \cup {rq[r].id}]
        OBVIOUS
    <2>2. rq[r].phase = "bound" /\ Conclude(r, <<"ack">>, FALSE, HeldWith(r), lst, Opened(r))
        BY <1>3, <2>1 DEF RunListen, Starts
    <2>3. rq[r].id \in Id /\ rq[r].obj \in Obj
        BY <1>3, StartedObj DEF RunListen, Starts, HttpInv, ReqInv, BoundHaveObjects
    <2>4. lst \in [Obj -> SUBSET Id]
        BY <2>1, <2>3 DEF HttpInv, ReqInv
    <2>5. <<"ack">> \in Seq(Payload)
        BY DEF Payload
    <2> QED
        BY <2>2, <2>4, <2>5, SinksStart
<1>4. CASE RunCall(r)
    <2>1. PICK x : rq' = [rq EXCEPT ![r] = x] /\ Later(x, rq[r], {"run"})
        BY <1>4, PhaseSet DEF RunCall, HttpInv, ReqInv, Phases
    <2>2. sinks' = sinks \cup {r} /\ rq[r].kind = "call"
        BY <1>4 DEF RunCall, HeldWith
    <2> QED
        BY <2>1, <2>2, SinksFollow DEF Later, Notifications
<1>5. CASE ToolReturns(r)
    <2>1. Conclude(r, <<>>, TRUE, sinks, listens, Draining)
        BY <1>5 DEF ToolReturns
    <2>2. PICK x : /\ rq' = [rq EXCEPT ![r] = x] /\ Later(x, rq[r], {"persist", "listen", "done"})
                   /\ r \in sinks' => x.phase \in {"persist", "listen"}
        BY <2>1, Concludes, EmptySeq DEF HttpInv, ReqInv
    <2>3. sinks' \subseteq sinks
        BY <2>1, Concludes, EmptySeq DEF HttpInv, ReqInv
    <2> QED
        BY <2>2, <2>3, SinksFollow DEF Later, SinksInv
<1>6. CASE CallCancelled(r) \/ ListenEnds(r)
    <2>1. rq' = [rq EXCEPT ![r].phase = "done"] /\ sinks' = sinks \ {r}
        BY <1>6 DEF CallCancelled, ListenEnds, Unregister
    <2>2. PICK x : rq' = [rq EXCEPT ![r] = x] /\ Later(x, rq[r], {"done"})
        BY <2>1, PhaseSet DEF HttpInv, ReqInv, Phases
    <2> QED
        BY <2>1, <2>2, SinksFollow DEF Later
<1>7. CASE Persisted(r)
    <2>1. PICK p \in {"listen", "done"} :
             /\ rq' = [rq EXCEPT ![r].phase = p] /\ sinks' \subseteq sinks
             /\ p = "done" => rq[r].kind \in Notifications \/ r \notin sinks'
        BY <1>7 DEF Persisted, Unregister
    <2>2. PICK x : rq' = [rq EXCEPT ![r] = x] /\ Later(x, rq[r], {p})
        BY <2>1, PhaseSet DEF HttpInv, ReqInv, Phases
    <2> QED
        BY <2>1, <2>2, SinksFollow DEF Later, SinksInv
<1>8. CASE CreateWritten(r)
    <2>1. rq' = [rq EXCEPT ![r].phase = "bound"] /\ sinks' = sinks /\ r \notin sinks
        BY <1>8 DEF CreateWritten, HttpInv, SilentBeforeStart, Unstarted
    <2>2. rq[r].kind \notin Notifications
        BY <1>8 DEF CreateWritten, SinksInv
    <2>3. PICK x : rq' = [rq EXCEPT ![r] = x] /\ Later(x, rq[r], {"bound"})
        BY <2>1, PhaseSet DEF HttpInv, ReqInv, Phases
    <2> QED
        BY <2>1, <2>2, <2>3, SinksFollow DEF Later
<1>9. CASE Resolved(r)
    <2>1. sinks' \subseteq sinks /\ r \notin sinks
        BY <1>9 DEF Resolved, StayingSinks, HttpInv, SilentBeforeStart, Unstarted
    <2>2. CASE rq' = [rq EXCEPT ![r].phase = "done"]
        <3>1. PICK x : rq' = [rq EXCEPT ![r] = x] /\ Later(x, rq[r], {"done"})
            BY <2>2, PhaseSet DEF HttpInv, ReqInv, Phases
        <3> QED
            BY <2>1, <3>1, SinksFollow DEF Later
    <2>3. CASE \E o \in Obj : \E rdy : Bound(r, [rq[r] EXCEPT !.obj = o], rdy)
        <3>1. PICK o \in Obj : \E rdy : Bound(r, [rq[r] EXCEPT !.obj = o], rdy)
            BY <2>3
        <3>2. PICK z : z = [rq[r] EXCEPT !.obj = o]
            OBVIOUS
        <3>3. z \in Request /\ z.obj = o /\ z.obj # 0
            <4>1. o \in 1 .. MaxObj /\ rq[r] \in Request
                BY DEF HttpInv, ReqInv, Obj
            <4> QED
                BY <3>2, <4>1, McpAssumption DEF Request
        <3>5. PICK rdy : Bound(r, z, rdy)
            BY <3>1, <3>2
        <3>4. PICK x : /\ rq' = [rq EXCEPT ![r] = x] /\ Later(x, z, {"bound", "persist", "done"})
                       /\ x.phase = "bound" => z.kind \notin Notifications
            BY <3>3, <3>5, Binds DEF HttpInv
        <3> QED
            BY <2>1, <3>4, SinksFollow DEF Later
    <2> QED
        <3>1. PICK s \in Session : s = rq[r].sid
            BY <1>9 DEF Resolved, HttpInv, ReqInv, BoundHaveObjects
        <3>2. s \in Sids(live) => ObjOf(live, s) \in Obj
            BY LiveKeeps DEF HttpInv, StoreInv
        <3> QED
            BY <1>9, <2>2, <2>3, <3>1, <3>2 DEF Resolved
<1> QED
    BY <1>1, <1>2, <1>3, <1>4, <1>5, <1>6, <1>7, <1>8, <1>9 DEF RunnerStep

\* Every step keeps it.
LEMMA SinksInvStep == HttpInv /\ SinksInv /\ [Next]_vars => SinksInv'
<1> SUFFICES ASSUME HttpInv, SinksInv, [Next]_vars PROVE SinksInv'
    OBVIOUS
<1>1. ASSUME NEW r \in Req, NEW s, Initialize(r, s) PROVE SinksInv'
    <2>1. PICK x : /\ rq' = [rq EXCEPT ![r] = x]
                   /\ x = [Free EXCEPT !.kind = "initialize", !.sid = s, !.obj = nobj + 1,
                                       !.phase = IF backend THEN "create" ELSE "bound"]
        BY <1>1 DEF Initialize
    <2>2. x.kind = "initialize"
        BY <2>1 DEF Free
    <2>3. sinks' \subseteq sinks /\ r \notin sinks
        BY <1>1 DEF Initialize, StayingSinks, HttpInv, SilentBeforeStart, Unstarted
    <2> QED
        BY <2>1, <2>2, <2>3, SinksFollow DEF Notifications
<1>2. ASSUME NEW r \in Req, NEW k \in Kinds, NEW s \in Session, NEW i \in Id, NEW a \in Task \cup {NoReq},
             Arrive(r, k, s, i, a)
      PROVE  SinksInv'
    <2>1. PICK y : y = [Free EXCEPT !.kind = k, !.sid = s, !.id = i, !.arg = a, !.late = s \in ended]
        OBVIOUS
    <2>2. y \in Request
        <3>1. PICK f \in Request : f = Free
            BY FreeType
        <3>2. PICK l : l = (s \in ended)
            OBVIOUS
        <3>3. l \in BOOLEAN
            BY <3>2
        <3>4. y = [f EXCEPT !.kind = k, !.sid = s, !.id = i, !.arg = a, !.late = l]
            BY <2>1, <3>1, <3>2
        <3> QED
            BY <3>3, <3>4 DEF Request
    <2>3. sinks' \subseteq sinks /\ r \notin sinks
        BY <1>2 DEF Arrive, StayingSinks, HttpInv, SilentBeforeStart, Unstarted
    <2>4. CASE \E p \in {"resolve", "done"} : rq' = [rq EXCEPT ![r] = [y EXCEPT !.phase = p]]
        <3>1. PICK p \in {"resolve", "done"} : rq' = [rq EXCEPT ![r] = [y EXCEPT !.phase = p]]
            BY <2>4
        <3>2. PICK x : x = [y EXCEPT !.phase = p]
            OBVIOUS
        <3>3. x.phase = p
            BY <2>2, <3>2 DEF Request
        <3> QED
            BY <2>3, <3>1, <3>2, <3>3, SinksFollow
    <2>5. CASE s \in Sids(AfterIdle) /\ Bound(r, [y EXCEPT !.obj = ObjOf(AfterIdle, s)], ready)
        <3>1. PICK z : z = [y EXCEPT !.obj = ObjOf(AfterIdle, s)]
            OBVIOUS
        <3>2. ObjOf(AfterIdle, s) \in 1 .. MaxObj
            <4>1. AfterIdle \in Seq(Session \X Obj)
                BY LiveKeeps DEF HttpInv, StoreInv, AfterIdle
            <4> QED
                BY <2>5, <4>1, LiveKeeps DEF Obj
        <3>3. z \in Request /\ z.obj # 0
            BY <2>2, <3>1, <3>2, McpAssumption DEF Request
        <3>4. PICK x : /\ rq' = [rq EXCEPT ![r] = x] /\ Later(x, z, {"bound", "persist", "done"})
                       /\ x.phase = "bound" => z.kind \notin Notifications
            BY <2>5, <3>1, <3>3, Binds DEF HttpInv
        <3> QED
            BY <2>3, <3>4, SinksFollow DEF Later
    <2> QED
        BY <1>2, <2>1, <2>4, <2>5 DEF Arrive
<1>3. ASSUME NEW r \in Req, NeverStarted(r) PROVE SinksInv'
    <2>1. rq' = [rq EXCEPT ![r].phase = "done"] /\ sinks' = sinks /\ r \notin sinks
        BY <1>3 DEF NeverStarted, HttpInv, SilentBeforeStart, Unstarted
    <2>2. PICK x : rq' = [rq EXCEPT ![r] = x] /\ Later(x, rq[r], {"done"})
        BY <2>1, PhaseSet DEF HttpInv, ReqInv, Phases
    <2> QED
        BY <2>1, <2>2, SinksFollow DEF Later
<1>4. ASSUME rq' = rq, sinks' \subseteq sinks PROVE SinksInv'
    BY <1>4 DEF SinksInv
<1>5. ASSUME NEW r, ToolEmits(r) \/ Deliver(r) \/ Disconnect(r) \/ Resume(r) PROVE SinksInv'
    BY <1>4, <1>5 DEF ToolEmits, Deliver, Disconnect, Resume, reqVars, StayingSinks
<1>6. ASSUME NEW s, Delete(s) \/ DeleteShared(s) PROVE SinksInv'
    BY <1>4, <1>6 DEF Delete, DeleteShared, reqVars, StayingSinks
<1>7. ASSUME NEW t, TaskUnwinds(t) \/ TaskExpires(t) \/ \E out \in Terminal : TaskEnds(t, out) PROVE SinksInv'
    BY <1>4, <1>7 DEF TaskUnwinds, TaskExpires, TaskEnds, reqVars
<1>8. ASSUME GoesIdle \/ AppNotifies \/ UNCHANGED vars PROVE SinksInv'
    BY <1>4, <1>8 DEF GoesIdle, AppNotifies, vars, reqVars
<1>9. CASE Next
    <2>1. \A r : r \in (IF backend THEN SharedReq ELSE Req) => r \in Req
        BY McpAssumption
    <2>2. \A k, a : a \in (IF k \in {"task", "taskcancel"} THEN Task ELSE {NoReq}) => a \in Task \cup {NoReq}
        OBVIOUS
    <2> QED
        BY <1>1, <1>2, <1>3, <1>5, <1>6, <1>7, <1>8, <1>9, <2>1, <2>2, SinksStep DEF Next
<1> QED
    BY <1>8, <1>9

\* Every way out of runner() unregisters its connection: a registered sink is
\* of a runner that is under way (http.py unregister_connection).
THEOREM SinksBelongToRunners == Spec => []SinksAreRunning
<1>1. Init => SinksInv
    BY DEF Init, SinksInv, Free
<1>2. HttpInv /\ SinksInv => SinksAreRunning
    BY DEF SinksInv, SinksAreRunning, HttpInv, ReqInv
<1> QED
    BY <1>1, <1>2, HttpInvInit, HttpInvStep, SinksInvStep, PTL DEF Spec

(* A task that runs and is in nobody's registry has been cancelled.        *)
AbandonedAreCancelled ==
    \A t \in Task : t \in runner /\ status[t] = "working" /\ t \notin registered => t \in cancelling

\* evict_session: a session's tasks are dropped from the registry only with
\* their runners cancelled (server.py evict_session, tasks.py evict_expired).
THEOREM DroppedTasksAreCancelled == Spec => []EvictedTasksStop
<1>1. Init => AbandonedAreCancelled
    BY DEF Init, TasksInit, AbandonedAreCancelled
<1>2. AbandonedAreCancelled /\ TaskStep => AbandonedAreCancelled'
    BY DEF AbandonedAreCancelled, TaskStep
<1>3. AbandonedAreCancelled /\ HttpInv => EvictedTasksStop
    BY DEF AbandonedAreCancelled, HttpInv, ReqInv, BoundHaveObjects, TasksHaveStreams, EvictedTasksStop
<1>4. Init => TasksMade
    BY DEF Init, TasksInit, TasksMade
<1> QED
    BY <1>1, <1>2, <1>3, <1>4, TransportStep, HttpInvInit, HttpInvStep, PTL DEF Spec
=============================================================================
