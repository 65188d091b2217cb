------------------------------- MODULE McpHttp -------------------------------
(***************************************************************************)
(* The MCP streamable-HTTP transport in front of one server: the session   *)
(* store with its idle and size limits and its optional shared backend,    *)
(* one dispatch task and one event stream per request, listen streams,     *)
(* cancellation, resumption from the event store, and the tasks that       *)
(* outlive their requests (contrib/mcp/transports/{http,session_store,     *)
(* event_store}.py, server.py, subscriptions.py).                          *)
(* Between two awaits the code runs alone, so one action is one stretch.   *)
(***************************************************************************)
EXTENDS Sequences, SequencesExt, McpTasks

CONSTANTS Session,     \* Mcp-Session-Id values (random: never reused)
          Req,         \* POSTs, numbered in the order of their arrival
          Id,          \* JSON-RPC ids a client uses
          Kinds,       \* the messages the clients send
          SharedReq,   \* bound: the POSTs sent when there is a backend
          MaxLive,     \* max_sessions
          MaxObj,      \* bound on MCPSession objects made
          Backends,    \* whether a session_backend is configured: the cases
          Resumable,   \* whether an event store is configured
          RingSize,    \* _MAX_EVENTS_PER_STREAM
          MaxStreams,  \* _MAX_STREAMS
          MaxSaid,     \* bound on what progress and signals add to a stream
          NoReq

ASSUME McpAssumption ==
    /\ MaxLive \in Nat \ {0} /\ MaxObj \in Nat \ {0} /\ RingSize \in Nat
    /\ IsFiniteSet(Id) /\ Session # {} /\ SharedReq \subseteq Req /\ Resumable \in BOOLEAN
    /\ Kinds \subseteq {"initialize", "initialized", "call", "task", "taskcancel", "listen", "cancel"}

VARIABLES backend,   \* the configured case
          live,      \* _live in order of last use: <<sid, object>>
          idle,      \* how many of them are past the idle deadline
          record,    \* backend: sid -> "none" | "new" | "ready"
          nobj,      \* MCPSession objects made so far
          ready,     \* objects with initialized = True
          listens,   \* object -> keys of listen_streams
          deleting,  \* DELETEs between the local and the shared half
          ended,     \* sessions whose DELETE was answered 204
          rq,        \* the requests
          inflight,  \* <<object, id>> -> request, or NoReq
          rcancel,   \* requests whose task has been cancelled
          sinks,     \* requests registered in the ConnectionRegistry
          said,      \* stream -> everything sent on it, in order
          queue,     \* stream -> positions of said not yet yielded
          link,      \* stream -> "none" | "open" | "gone" (draining = False)
          got,       \* stream -> positions the client has received
          log,       \* event store: stream -> ring of positions
          order      \* event store: streams by last record

storeVars == <<backend, live, idle, record, nobj, ready, deleting, ended>>
streamVars == <<said, queue, link, got, log, order>>
reqVars == <<rq, inflight, rcancel, sinks, listens>>
vars == <<storeVars, streamVars, reqVars, taskVars>>

Obj == 1..MaxObj
Notifications == {"initialized", "cancel"}
Free == [phase |-> "free", kind |-> "none", sid |-> "none", obj |-> 0, id |-> 0,
         arg |-> NoReq, ans |-> FALSE, late |-> FALSE]

(* One client has initialized; the others have not come yet.               *)
Init ==
    /\ backend \in Backends
    /\ LET s == CHOOSE s \in Session : TRUE
       IN live = <<<<s, 1>>>>
          /\ record = [x \in Session |-> IF backend /\ x = s THEN "ready" ELSE "none"]
    /\ idle = 0 /\ nobj = 1 /\ ready = {1} /\ deleting = {} /\ ended = {}
    /\ listens = [o \in Obj |-> {}]
    /\ rq = [r \in Req |-> Free]
    /\ inflight = [k \in Obj \X Id |-> NoReq]
    /\ rcancel = {} /\ sinks = {}
    /\ said = [r \in Req |-> <<>>] /\ queue = [r \in Req |-> <<>>]
    /\ link = [r \in Req |-> "none"] /\ got = [r \in Req |-> <<>>]
    /\ log = [r \in Req |-> <<>>] /\ order = <<>>
    /\ TasksInit

-----------------------------------------------------------------------------
(* The session store.                                                      *)

Sids(q) == {q[i][1] : i \in DOMAIN q}
Objs(q) == {q[i][2] : i \in DOMAIN q}
ObjOf(q, s) == (CHOOSE e \in Range(q) : e[1] = s)[2]
(* A dictionary: a session has at most one entry.                          *)
Without(q, s) == IF s \in Sids(q) THEN RemoveAt(q, CHOOSE i \in DOMAIN q : q[i][1] = s) ELSE q
LastOf(q, n) == IF Len(q) <= n THEN q ELSE SubSeq(q, Len(q) - n + 1, Len(q))

(* _evict_idle: entries are ordered by touched_at, so the idle ones lead.  *)
AfterIdle == SubSeq(live, idle + 1, Len(live))

(* _touch: moved to the end.                                               *)
Touch(q, s) == Append(Without(q, s), <<s, ObjOf(q, s)>>)

(* create: the idle go, then the least recently used until there is room.  *)
Created(s) == Append(LastOf(AfterIdle, MaxLive - 1), <<s, nobj + 1>>)

(* on_evict = server.evict_session, for the objects that leave the store:  *)
(* their connections are removed, their tasks cancelled and dropped.       *)
Leaving == Objs(live) \ Objs(live')
StayingSinks == {r \in sinks : rq[r].obj \notin Leaving}

(* _record_of: what the backend keeps of an object.                        *)
RecordOf(o, rdy) == IF o \in rdy THEN "ready" ELSE "new"

-----------------------------------------------------------------------------
(* Streams.                                                                *)

Positions(m, r) == [i \in 1..Len(m[r]) |-> Len(said[r]) + i]
On(r, ps) == [q \in Req |-> IF q = r THEN ps ELSE <<>>]

SendsWhileDraining(m, open) ==
    /\ said' = [r \in Req |-> said[r] \o m[r]]
    /\ queue' = [r \in Req |-> IF r \in open THEN queue[r] \o Positions(m, r) ELSE queue[r]]
    /\ log' = [r \in Req |-> IF r \in open THEN LastOf(log[r] \o Positions(m, r), RingSize) ELSE log[r]]
    /\ order' = order

(* send and emit_id: each payload is recorded, then queued while the       *)
(* generator drains. The store forgets the stream least recently recorded. *)
Sends(m, open) ==
    LET sent == {r \in Req : m[r] # <<>>}
        recent == LastOf(SelectSeq(order, LAMBDA r : r \notin sent) \o SetToSeq(sent), MaxStreams)
    IN /\ said' = [r \in Req |-> said[r] \o m[r]]
       /\ queue' = [r \in Req |-> IF r \in open THEN queue[r] \o Positions(m, r) ELSE queue[r]]
       /\ order' = IF Resumable THEN recent ELSE order
       /\ log' = [r \in Req |-> IF r \in Range(order') THEN LastOf(log[r] \o Positions(m, r), RingSize)
                                ELSE <<>>]

Draining == {r \in Req : link[r] = "open"}

(* unregister_connection: forget_streams drops every listen stream of the  *)
(* connection's session, then the sink goes.                               *)
Unregister(r, in, lst) ==
    /\ sinks' = in \ {r}
    /\ listens' = IF r \in in THEN [lst EXCEPT ![rq[r].obj] = {}] ELSE lst

(* handle_message has returned in runner(): persist, then the response and *)
(* the end of the stream, or, for a listen that is still held, the wait.   *)
(* ps: what the handler sent; ans: whether there is a response.            *)
Conclude(r, ps, ans, in, lst, open) ==
    LET waits == ~ans /\ rq[r].kind = "listen" /\ rq[r].id \in lst[rq[r].obj]
    IN IF backend
       THEN /\ rq' = [rq EXCEPT ![r].phase = "persist", ![r].ans = ans]
            /\ sinks' = in /\ listens' = lst
            /\ Sends(On(r, ps), open)
       ELSE /\ rq' = [rq EXCEPT ![r].phase = IF waits THEN "listen" ELSE "done"]
            /\ IF waits THEN sinks' = in /\ listens' = lst ELSE Unregister(r, in, lst)
            /\ Sends(On(r, IF ans THEN Append(ps, "answer") ELSE ps), open)

-----------------------------------------------------------------------------
(* A POST arrives (_handle_http, _bind_session).                           *)

(* A notification: handled in the request's own task, answered 202.        *)
NotificationEffect(q, lst, rc, rdy) ==
    LET o == q.obj IN
    CASE q.kind = "initialized" -> <<lst, rc, rdy \cup {o}>>
      [] q.kind = "cancel" /\ q.id \in lst[o] -> <<[lst EXCEPT ![o] = @ \ {q.id}], rc, rdy>>
      [] q.kind = "cancel" /\ q.id \notin lst[o] /\ inflight[<<o, q.id>>] # NoReq
            -> <<lst, rc \cup {inflight[<<o, q.id>>]}, rdy>>
      [] OTHER -> <<lst, rc, rdy>>

(* The session is bound: a notification is handled at once; a request      *)
(* becomes a stream response whose generator has not started.              *)
Bound(r, q, rdy) ==
    IF q.kind \in Notifications
    THEN LET e == NotificationEffect(q, listens, rcancel, rdy)
         IN /\ rq' = [rq EXCEPT ![r] = [q EXCEPT !.phase = IF backend THEN "persist" ELSE "done"]]
            /\ listens' = e[1] /\ rcancel' = e[2] /\ ready' = e[3]
    ELSE /\ rq' = [rq EXCEPT ![r] = [q EXCEPT !.phase = "bound"]]
         /\ ready' = rdy
         /\ UNCHANGED <<listens, rcancel>>

Initialize(r, s) ==
    /\ rq[r].phase = "free" /\ nobj < MaxObj
    /\ \A q \in Req : rq[q].sid # s
    /\ s \notin Sids(live) /\ record[s] = "none" /\ s \notin ended
    /\ live' = Created(s) /\ idle' = 0 /\ nobj' = nobj + 1
    /\ evict_tasks(Leaving) /\ sinks' = StayingSinks
    /\ rq' = [rq EXCEPT ![r] = [Free EXCEPT !.kind = "initialize", !.sid = s, !.obj = nobj + 1,
                                            !.phase = IF backend THEN "create" ELSE "bound"]]
    /\ UNCHANGED <<backend, record, ready, deleting, ended, listens, inflight, rcancel, streamVars>>

(* create: the write to the backend is awaited.                            *)
CreateWritten(r) ==
    /\ rq[r].phase = "create"
    /\ record' = [record EXCEPT ![rq[r].sid] = RecordOf(rq[r].obj, ready)]
    /\ rq' = [rq EXCEPT ![r].phase = "bound"]
    /\ UNCHANGED <<backend, live, idle, nobj, ready, deleting, ended, inflight, rcancel, sinks, listens, streamVars, taskVars>>

(* The answer of initialize has told the client the id of its session.     *)
Told(s) == \A q \in Req : rq[q].sid = s => rq[q].phase # "create"

(* resolve, as far as its first await: 404 when no backend knows better.   *)
Arrive(r, k, s, i, a) ==
    LET q == [Free EXCEPT !.kind = k, !.sid = s, !.id = i, !.arg = a, !.late = s \in ended]
        found == s \in Sids(AfterIdle)
    IN /\ rq[r].phase = "free" /\ Told(s)
       /\ live' = IF found /\ ~backend THEN Touch(AfterIdle, s) ELSE AfterIdle
       /\ idle' = 0
       /\ evict_tasks(Leaving) /\ sinks' = StayingSinks
       /\ IF backend
          THEN /\ rq' = [rq EXCEPT ![r] = [q EXCEPT !.phase = "resolve"]]
               /\ UNCHANGED <<ready, listens, rcancel>>
          ELSE IF found
          THEN Bound(r, [q EXCEPT !.obj = ObjOf(AfterIdle, s)], ready)
          ELSE /\ rq' = [rq EXCEPT ![r] = [q EXCEPT !.phase = "done"]]
               /\ UNCHANGED <<ready, listens, rcancel>>
       /\ UNCHANGED <<backend, record, nobj, deleting, ended, inflight, streamVars>>

(* resolve after the backend's answer: drop the local copy of a session    *)
(* that ended elsewhere, adopt one that is not held here.                  *)
Resolved(r) ==
    LET s == rq[r].sid
        held == s \in Sids(live)
        o == IF held THEN ObjOf(live, s) ELSE nobj + 1
    IN /\ rq[r].phase = "resolve"
       /\ IF record[s] = "none"
          THEN /\ live' = Without(live, s)
               /\ idle' = IF idle > 0 /\ s \in Sids(SubSeq(live, 1, idle)) THEN idle - 1 ELSE idle
               /\ rq' = [rq EXCEPT ![r].phase = "done"]
               /\ UNCHANGED <<nobj, ready, listens, rcancel>>
          ELSE /\ o \in Obj
               /\ live' = Append(Without(live, s), <<s, o>>)
               /\ idle' = IF idle > 0 /\ s \in Sids(SubSeq(live, 1, idle)) THEN idle - 1 ELSE idle
               /\ nobj' = IF held THEN nobj ELSE o
               /\ Bound(r, [rq[r] EXCEPT !.obj = o],
                        IF record[s] = "ready" THEN ready \cup {o} ELSE ready \ {o})
       /\ evict_tasks(Leaving) /\ sinks' = StayingSinks
       /\ UNCHANGED <<backend, record, deleting, ended, inflight, streamVars>>

-----------------------------------------------------------------------------
(* The dispatch task of a stream: runner() up to its first await.          *)

Starts(r) ==
    /\ rq[r].phase = "bound"
    /\ link' = [link EXCEPT ![r] = "open"]
    /\ UNCHANGED <<storeVars, got, rcancel>>

Opened(r) == Draining \cup {r}
HeldWith(r) == sinks \cup {r}

(* _gate_session: nothing but the handshake before it is complete.         *)
Gated(r) == rq[r].kind # "initialize" /\ rq[r].obj \notin ready

(* initialize, a gated request, and any request answered at once.          *)
RunAtOnce(r) ==
    /\ Starts(r)
    /\ Gated(r) \/ rq[r].kind = "initialize"
    /\ Conclude(r, <<>>, TRUE, HeldWith(r), listens, Opened(r))
    /\ UNCHANGED <<inflight, taskVars>>

(* tools/call: tracked for cancellation while the tool runs.               *)
RunCall(r) ==
    /\ Starts(r)
    /\ ~Gated(r) /\ rq[r].kind = "call"
    /\ inflight' = [inflight EXCEPT ![<<rq[r].obj, rq[r].id>>] = r]
    /\ rq' = [rq EXCEPT ![r].phase = "run"]
    /\ sinks' = HeldWith(r)
    /\ UNCHANGED <<listens, said, queue, log, order, taskVars>>

(* tools/call with a task field.                                           *)
RunTask(r) ==
    /\ Starts(r)
    /\ ~Gated(r) /\ rq[r].kind = "task"
    /\ create_task(rq[r].arg, rq[r].obj)
    /\ Conclude(r, <<>>, TRUE, HeldWith(r), listens, Opened(r))
    /\ UNCHANGED inflight

(* tasks/cancel: an unknown task, or one of another session, is refused.   *)
RunTaskCancel(r) ==
    /\ Starts(r)
    /\ ~Gated(r) /\ rq[r].kind = "taskcancel"
    /\ LET t == rq[r].arg
           seen == Visible(t, rq[r].obj)
       IN /\ IF seen THEN cancel_task(t) 
             ELSE registered' = registered \ Reaped
                  /\ UNCHANGED <<status, owner, runner, cancelling, expired>>
          /\ Conclude(r, IF seen /\ status[t] \notin Terminal THEN <<"status">> ELSE <<>>, TRUE,
                      HeldWith(r), listens, Opened(r))
    /\ UNCHANGED inflight

(* subscriptions/listen: acknowledged, and answered only by its close.     *)
RunListen(r) ==
    /\ Starts(r)
    /\ ~Gated(r) /\ rq[r].kind = "listen"
    /\ Conclude(r, <<"ack">>, FALSE, HeldWith(r),
                [listens EXCEPT ![rq[r].obj] = @ \cup {rq[r].id}], Opened(r))
    /\ UNCHANGED <<inflight, taskVars>>

(* The client is gone before the response started: nothing runs.           *)
NeverStarted(r) ==
    /\ rq[r].phase = "bound"
    /\ rq' = [rq EXCEPT ![r].phase = "done"]
    /\ UNCHANGED <<storeVars, streamVars, inflight, rcancel, sinks, listens, taskVars>>

ToolEmits(r) ==
    /\ rq[r].phase = "run" /\ Len(said[r]) < MaxSaid
    /\ Sends(On(r, <<"progress">>), Draining)
    /\ UNCHANGED <<storeVars, reqVars, link, got, taskVars>>

(* handle_message's finally: the in-flight key is popped, whoever holds it.*)
Untrack(r) == inflight' = [inflight EXCEPT ![<<rq[r].obj, rq[r].id>>] = NoReq]

ToolReturns(r) ==
    /\ rq[r].phase = "run"
    /\ Untrack(r)
    /\ Conclude(r, <<>>, TRUE, sinks, listens, Draining)
    /\ UNCHANGED <<storeVars, rcancel, link, got, taskVars>>

CallCancelledLeaks(r) ==
    /\ rq[r].phase = "run" /\ r \in rcancel
    /\ Untrack(r)
    /\ rq' = [rq EXCEPT ![r].phase = "done"]
    /\ UNCHANGED <<storeVars, rcancel, sinks, listens, streamVars, taskVars>>

(* The cancelled task unwinds: no response, the stream ends.               *)
CallCancelled(r) ==
    /\ rq[r].phase = "run" /\ r \in rcancel
    /\ Untrack(r)
    /\ rq' = [rq EXCEPT ![r].phase = "done"]
    /\ Unregister(r, sinks, listens)
    /\ UNCHANGED <<storeVars, rcancel, streamVars, taskVars>>

(* persist, then what runner() does after it. A notification only persists.*)
Persisted(r) ==
    LET q == rq[r]
        waits == ~q.ans /\ q.kind = "listen" /\ q.id \in listens[q.obj]
    IN /\ q.phase = "persist"
       /\ record' = [record EXCEPT ![q.sid] = RecordOf(q.obj, ready)]
       /\ rq' = [rq EXCEPT ![r].phase = IF waits THEN "listen" ELSE "done"]
       /\ IF waits \/ q.kind \in Notifications THEN UNCHANGED <<sinks, listens>>
          ELSE Unregister(r, sinks, listens)
       /\ Sends(On(r, IF q.ans THEN <<"answer">> ELSE <<>>), Draining)
       /\ UNCHANGED <<backend, live, idle, nobj, ready, deleting, ended, inflight, rcancel, link, got, taskVars>>

ListenEndsOnClose(r) ==
    /\ rq[r].phase = "listen" /\ rq[r].id \notin listens[rq[r].obj]
    /\ rq' = [rq EXCEPT ![r].phase = "done"]
    /\ Unregister(r, sinks, listens)
    /\ UNCHANGED <<storeVars, inflight, rcancel, streamVars, taskVars>>

(* A listen waits for client_gone, whatever became of its entry.           *)
ListenEnds(r) ==
    /\ rq[r].phase = "listen" /\ link[r] = "gone"
    /\ rq' = [rq EXCEPT ![r].phase = "done"]
    /\ Unregister(r, sinks, listens)
    /\ UNCHANGED <<storeVars, inflight, rcancel, streamVars, taskVars>>

-----------------------------------------------------------------------------
(* The generator and the client.                                           *)

(* events() yields what is queued to a client that reads.                  *)
Deliver(r) ==
    /\ link[r] = "open" /\ queue[r] # <<>>
    /\ got' = [got EXCEPT ![r] = @ \o queue[r]]
    /\ queue' = [queue EXCEPT ![r] = <<>>]
    /\ UNCHANGED <<storeVars, reqVars, said, link, log, order, taskVars>>

(* events() is closed: the client is gone at any moment, or the stream     *)
(* has ended and all of it was yielded.                                    *)
Disconnect(r) ==
    /\ link[r] = "open"
    /\ link' = [link EXCEPT ![r] = "gone"]
    /\ queue' = [queue EXCEPT ![r] = <<>>]
    /\ UNCHANGED <<storeVars, reqVars, said, got, log, order, taskVars>>

(* replay_after: what the ring holds beyond the client's last event. A     *)
(* ring is in the order of the sequence numbers, so this is its tail.      *)
replay_after(r, last) ==
    LET known == CHOOSE k \in 0 .. Len(log[r]) : \A i \in DOMAIN log[r] : log[r][i] > last <=> i > k
    IN SubSeq(log[r], known + 1, Len(log[r]))

(* GET with Last-Event-ID, in a session that resolves (no backend) or has  *)
(* a record: _handle_get.                                                  *)
Resume(r) ==
    LET s == rq[r].sid
        last == IF got[r] = <<>> THEN 0 ELSE got[r][Len(got[r])]
    IN /\ Resumable /\ link[r] = "gone" /\ s \in Sids(AfterIdle)
       /\ backend => record[s] # "none"
       /\ live' = Touch(AfterIdle, s) /\ idle' = 0
       /\ evict_tasks(Leaving) /\ sinks' = StayingSinks
       /\ got' = [got EXCEPT ![r] = @ \o replay_after(r, last)]
       /\ UNCHANGED <<backend, record, nobj, ready, deleting, ended, rq, inflight, rcancel, listens,
                      said, queue, link, log, order>>

-----------------------------------------------------------------------------
(* DELETE (terminate), time, the application and the task runners.         *)

Delete(s) ==
    /\ s \in Sids(live) \/ (backend /\ record[s] # "none")
    /\ s \notin deleting /\ Told(s)
    /\ live' = Without(live, s)
    /\ idle' = IF idle > 0 /\ s \in Sids(SubSeq(live, 1, idle)) THEN idle - 1 ELSE idle
    /\ evict_tasks(Leaving) /\ sinks' = StayingSinks
    /\ deleting' = IF backend THEN deleting \cup {s} ELSE deleting
    /\ ended' = IF backend THEN ended ELSE ended \cup {s}
    /\ UNCHANGED <<backend, record, nobj, ready, rq, inflight, rcancel, listens, streamVars>>

DeleteShared(s) ==
    /\ s \in deleting
    /\ record' = [record EXCEPT ![s] = "none"]
    /\ deleting' = deleting \ {s}
    /\ ended' = ended \cup {s}
    /\ UNCHANGED <<backend, live, idle, nobj, ready, reqVars, streamVars, taskVars>>

GoesIdle ==
    /\ idle < Len(live)
    /\ idle' = idle + 1
    /\ UNCHANGED <<backend, live, record, nobj, ready, deleting, ended, reqVars, streamVars, taskVars>>

(* notify_resources_list_changed: one copy per listen stream of the sink's *)
(* session, or one for a session without any. Queue.put does not suspend.  *)
AppNotifies ==
    /\ sinks # {} /\ \A r \in sinks : Len(said[r]) < MaxSaid
    /\ Sends([r \in Req |-> IF r \notin sinks THEN <<>>
                            ELSE IF listens[rq[r].obj] = {} THEN <<"note">>
                            ELSE [i \in 1..Cardinality(listens[rq[r].obj]) |-> "note"]], Draining)
    /\ UNCHANGED <<storeVars, reqVars, link, got, taskVars>>

(* The stream a task's status goes to: the one of the request that made it.*)
Origin(t) == CHOOSE r \in Req : rq[r].kind = "task" /\ rq[r].arg = t

TaskEnds(t, out) ==
    /\ run_task(t, out)
    /\ Sends(On(Origin(t), <<"status">>), Draining)
    /\ UNCHANGED <<storeVars, reqVars, link, got>>

TaskUnwinds(t) ==
    /\ run_task_cancelled(t)
    /\ UNCHANGED <<storeVars, reqVars, streamVars>>

TaskExpires(t) ==
    /\ Expire(t)
    /\ UNCHANGED <<storeVars, reqVars, streamVars>>

RunnerStep(r) ==
    \/ RunAtOnce(r) \/ RunCall(r) \/ RunTask(r) \/ RunTaskCancel(r) \/ RunListen(r)
    \/ ToolReturns(r) \/ CallCancelled(r) \/ Persisted(r) \/ ListenEnds(r)
    \/ CreateWritten(r) \/ Resolved(r)

Next ==
    \/ \E r \in {r \in (IF backend THEN SharedReq ELSE Req) : \A q \in Req : q < r => rq[q].phase # "free"} :
          \/ \E s \in Session : "initialize" \in Kinds /\ Initialize(r, s)
          \/ \E k \in Kinds \ {"initialize"}, s \in Session, i \in Id :
                \E a \in IF k \in {"task", "taskcancel"} THEN Task ELSE {NoReq} :
                   /\ k = "task" => status[a] = "none" /\ \A q \in Req : rq[q].arg # a
                   /\ Arrive(r, k, s, i, a)
          \/ RunnerStep(r)
          \/ NeverStarted(r) \/ ToolEmits(r) \/ Deliver(r) \/ Disconnect(r) \/ Resume(r)
    \/ \E s \in Session : Delete(s) \/ DeleteShared(s)
    \/ \E t \in Task : TaskUnwinds(t) \/ TaskExpires(t) \/ \E out \in Terminal : TaskEnds(t, out)
    \/ GoesIdle \/ AppNotifies

(* The event loop runs every task that can run; tools come to an end.      *)
Fairness == \A r \in Req : WF_vars(RunnerStep(r))

Spec == Init /\ [][Next]_vars /\ Fairness

-----------------------------------------------------------------------------
(* Properties.                                                             *)

(* No event is lost, repeated or out of order on a resumable stream: what  *)
(* a client has received, live and replayed, is a prefix of what was sent, *)
(* and the rest is on its way or still in the event store (_stream_response*)
(* records before it queues). The store's two limits are the exceptions.   *)
StreamExact ==
    \A r \in Req :
        (said[r] # <<>> => 1 \in Range(log[r])) =>
            LET seen == IF link[r] = "open" THEN got[r] \o queue[r] ELSE got[r]
            IN /\ seen = [n \in 1..Len(seen) |-> n]
               /\ link[r] = "open" => Len(seen) = Len(said[r])
               /\ \A n \in Len(got[r]) + 1..Len(said[r]) : n \in Range(log[r])

(* Why: the ring is a tail of what was sent, all of it while neither limit *)
(* was passed; a stream has said nothing before its runner starts, and     *)
(* what speaks on it later (a sink, a task) is of a runner that started.   *)
Unstarted(r) == rq[r].phase \in {"free", "create", "resolve", "bound"}

TypeOK ==
    /\ live \in Seq(Session \X Obj) /\ idle \in Nat /\ nobj \in Nat
    /\ rq \in [Req -> [phase : {"free", "create", "resolve", "bound", "run", "persist", "listen", "done"},
                       kind : Kinds \cup {"none"}, sid : Session \cup {"none"}, obj : 0 .. MaxObj,
                       id : Id \cup {0}, arg : Task \cup {NoReq}, ans : BOOLEAN, late : BOOLEAN]]
    /\ listens \in [Obj -> SUBSET Id] /\ sinks \subseteq Req
    /\ said \in [Req -> Seq({"ack", "progress", "note", "status", "answer"})]
    /\ queue \in [Req -> Seq(Nat)] /\ got \in [Req -> Seq(Nat)] /\ log \in [Req -> Seq(Nat)]
    /\ link \in [Req -> {"none", "open", "gone"}]

BoundHaveObjects ==
    \A r \in Req : /\ rq[r].phase \in {"create", "bound", "run", "persist", "listen"} => rq[r].obj # 0
                   /\ r \in sinks => rq[r].obj # 0
                   /\ rq[r].phase # "free" => rq[r].sid \in Session
                   /\ rq[r].kind = "listen" => rq[r].id \in Id
                   /\ rq[r].kind = "task" => rq[r].arg \in Task

SilentBeforeStart ==
    \A r \in Req : Unstarted(r) => /\ r \notin sinks /\ link[r] = "none"
                                   /\ said[r] = <<>> /\ got[r] = <<>> /\ queue[r] = <<>>

TasksHaveStreams ==
    /\ \A t \in runner : \E r \in Req : rq[r].kind = "task" /\ rq[r].arg = t /\ ~Unstarted(r)
    /\ \A q, r \in Req : rq[q].kind = "task" /\ rq[r].kind = "task" /\ rq[q].arg = rq[r].arg => q = r

RingIsTail ==
    \A r \in Req : /\ Len(log[r]) <= Len(said[r])
                   /\ \A n \in DOMAIN log[r] : log[r][n] = Len(said[r]) - Len(log[r]) + n

RingIsWhole ==
    \A r \in Req : Len(log[r]) = Len(said[r]) =>
        /\ Len(got[r]) <= Len(said[r]) /\ \A n \in DOMAIN got[r] : got[r][n] = n
        /\ link[r] = "open" => /\ Len(got[r]) + Len(queue[r]) = Len(said[r])
                               /\ \A n \in DOMAIN queue[r] : queue[r][n] = Len(got[r]) + n

(* What pollers see of the tasks is what TaskLife promises, whatever       *)
(* cancellations, late results, expiries and session evictions race.       *)
Life == INSTANCE TaskLife WITH state <- Polled
TasksAreOneShot == Life!Spec

(* A registered connection belongs to a dispatch task that is under way:   *)
(* every way out of runner() unregisters, so no signal goes to a dead one. *)
SinksAreRunning ==
    \A r \in sinks : rq[r].phase \in {"run", "persist", "listen"}

(* A session the store no longer holds has no task left running without a  *)
(* cancellation, except one made by a request admitted before it went.     *)
EvictedTasksStop ==
    \A t \in runner : owner[t] \notin Objs(live) /\ status[t] = "working"
        => t \in cancelling \/ t \in registered

(* Every request that was bound is finished, a listen once its client has  *)
(* gone: client_gone releases the dispatch task of a dropped stream.       *)
RunnersEnd ==
    \A r \in Req : rq[r].phase \notin {"free", "bound"}
        ~> (rq[r].phase \in {"done", "bound"} \/ (rq[r].phase = "listen" /\ link[r] = "open"))

(* guide/mcp.md: "A DELETE reaching any worker ends the session            *)
(* everywhere": no request that arrives after its 204 is served.           *)
DeleteEndsSession ==
    \A r \in Req : rq[r].late => rq[r].phase \in {"resolve", "done"} /\ rq[r].obj = 0

(* guide/mcp.md: "A stream ends when the client cancels it": as long as    *)
(* neither the client has gone nor cancelled it, a listen keeps its entry. *)
ListenLasts ==
    [][\A r \in Req : rq[r].phase = "listen" /\ rq'[r].phase = "listen" /\ link'[r] = "open"
            /\ rq[r].id \in listens[rq[r].obj]
         => \/ rq[r].id \in listens'[rq[r].obj]
            \/ \E q \in Req : rq[q].phase # "done" /\ rq'[q].kind = "cancel" /\ rq'[q].id = rq[r].id]_vars

=============================================================================
