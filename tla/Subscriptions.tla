---------------------------- MODULE Subscriptions ----------------------------
(***************************************************************************)
(* MCP subscriptions: the registry of connections, the streams that        *)
(* subscriptions/listen opens on a session, the resources a session        *)
(* subscribed to, and the fan-out of a notification over all of them.      *)
(*                                                                         *)
(* Every send of the fan-out may suspend (a stdio line is written in a     *)
(* worker thread), and the requests handled meanwhile open and close       *)
(* streams.  The fan-out walks a copy of the sinks but the session's own   *)
(* dictionary of streams: its entries are kept here with the holes that    *)
(* deletions leave, as the iterator sees them.                             *)
(***************************************************************************)
EXTENDS Integers, Sequences, FiniteSets, SequencesExt

CONSTANTS
    Peers,        \* sessions, one connection each
    StreamIds,    \* ids of subscriptions/listen requests
    MaxOpened,    \* bound: streams opened over a session's life
    MaxWalks      \* bound: notifications sent

(* An entry that was deleted; no request has it for an id.                 *)
Hole == 0

SubscriptionsAssumption == Hole \notin StreamIds

VARIABLES
    sinks,        \* _sinks: the connected sessions, in order
    streams,      \* listen_streams of each session: ids and holes
    plain,        \* sessions whose `subscriptions` hold the resource
    walk,         \* the fan-out in progress
    walks,        \* notifications begun
    heard         \* history of the walk: <<session, id>>, id 0 unstamped

vars == <<sinks, streams, plain, walk, walks, heard>>

Size(s) == Cardinality({i \in DOMAIN streams[s] : streams[s][i] # Hole})
Open(s) == {streams[s][i] : i \in DOMAIN streams[s]} \ {Hole}

Idle == [at |-> "idle", rest |-> <<>>, pos |-> 0, size |-> 0, due |-> {}, calm |-> TRUE]

Init ==
    /\ sinks = <<>>
    /\ streams = [s \in Peers |-> <<>>]
    /\ plain = {}
    /\ walk = Idle
    /\ walks = 0
    /\ heard = {}

Connected(s) == \E i \in DOMAIN sinks : sinks[i] = s

(* A change of what a walk is due: what is dropped is due no more, and the *)
(* walk is not a calm one if a dictionary it may be in has changed.        *)
Disturbed(gone) ==
    IF walk = Idle THEN Idle ELSE [walk EXCEPT !.due = @ \ gone, !.calm = FALSE]

----------------------------------------------------------------------------
register_connection(s) ==
    /\ ~Connected(s)
    /\ sinks' = Append(sinks, s)
    /\ UNCHANGED <<streams, plain, walk, walks, heard>>

(* unregister_connection: forget_streams, then remove.                     *)
unregister_connection(s) ==
    /\ \E i \in DOMAIN sinks : sinks[i] = s /\ sinks' = RemoveAt(sinks, i)
    /\ streams' = [streams EXCEPT ![s] = <<>>]
    /\ walk' = Disturbed({s} \X (StreamIds \cup {Hole}))
    /\ UNCHANGED <<plain, walks, heard>>

(* _listen: an open stream to deliver on, a new entry or, for an id that   *)
(* is already there, the same one again.                                   *)
_listen(s, id) ==
    /\ Connected(s)
    /\ Len(streams[s]) < MaxOpened
    /\ streams' = [streams EXCEPT ![s] = IF id \in Open(s) THEN @ ELSE Append(@, id)]
    /\ walk' = Disturbed({})
    /\ UNCHANGED <<sinks, plain, walks, heard>>

(* close_listen_stream, when notifications/cancelled names the stream.     *)
close_listen_stream(s, id) ==
    /\ id \in Open(s)
    /\ streams' = [streams EXCEPT ![s] =
                      [i \in DOMAIN @ |-> IF @[i] = id THEN Hole ELSE @[i]]]
    /\ walk' = Disturbed({<<s, id>>})
    /\ UNCHANGED <<sinks, plain, walks, heard>>

Subscribe(s) ==
    /\ Connected(s)
    /\ plain' = (plain \cup {s}) \ (plain \cap {s})
    /\ walk' = [walk EXCEPT !.due = @ \ {<<s, Hole>>}]
    /\ UNCHANGED <<sinks, streams, walks, heard>>

----------------------------------------------------------------------------
(* notify_updated: a copy of the sinks; of each session the unstamped      *)
(* message if it subscribed, then one stamped copy for each open stream.   *)
Due ==
    {<<s, Hole>> : s \in {t \in plain : Connected(t)}}
    \cup UNION {{<<s, id>> : id \in Open(s)} : s \in {t \in Peers : Connected(t)}}

notify_updated ==
    /\ walk.at = "idle" /\ walks < MaxWalks
    /\ walk' = [Idle EXCEPT !.at = "session", !.rest = sinks, !.due = Due]
    /\ walks' = walks + 1
    /\ UNCHANGED <<sinks, streams, plain, heard>>

Session ==
    /\ walk.at = "session"
    /\ IF walk.rest = <<>> THEN walk' = [walk EXCEPT !.at = "told"] /\ UNCHANGED heard
       ELSE LET s == Head(walk.rest) IN
            /\ walk' = [walk EXCEPT !.at = "plain"]
            /\ heard' = IF s \in plain THEN heard \cup {<<s, Hole>>} ELSE heard
    /\ UNCHANGED <<sinks, streams, plain, walks>>

(* listen_streams.items() is asked for after the unstamped send returned.  *)
Iterate ==
    /\ walk.at = "plain"
    /\ walk' = [walk EXCEPT !.at = "streams", !.pos = 0, !.size = Size(Head(walk.rest))]
    /\ UNCHANGED <<sinks, streams, plain, walks, heard>>

(* The iterator refuses to go on when the dictionary has changed its size. *)
outgrown(s) == Size(s) # walk.size

(* A loop that returns once it has sent.                                   *)
FirstOnly(s) == {i \in DOMAIN streams[s] : walk.pos = 0 /\ streams[s][i] # Hole}

(* The entries the iterator has not come to.                               *)
ahead(s) == {i \in DOMAIN streams[s] : i > walk.pos /\ streams[s][i] # Hole}

StreamStep ==
    /\ walk.at = "streams"
    /\ LET s == Head(walk.rest)
           left == ahead(s) IN
       CASE outgrown(s) -> walk' = [walk EXCEPT !.at = "failed"] /\ UNCHANGED heard
         [] ~outgrown(s) /\ left = {} ->
              /\ walk' = [walk EXCEPT !.at = "session", !.rest = Tail(@)]
              /\ UNCHANGED heard
         [] OTHER -> LET i == CHOOSE j \in left : \A k \in left : j <= k IN
              /\ walk' = [walk EXCEPT !.pos = i]
              /\ heard' = heard \cup {<<s, streams[s][i]>>}
    /\ UNCHANGED <<sinks, streams, plain, walks>>

Done ==
    /\ walk.at \in {"told", "failed"}
    /\ walk' = Idle
    /\ heard' = {}
    /\ UNCHANGED <<sinks, streams, plain, walks>>

Next ==
    \/ \E s \in Peers : register_connection(s) \/ unregister_connection(s) \/ Subscribe(s)
    \/ \E s \in Peers, id \in StreamIds : _listen(s, id) \/ close_listen_stream(s, id)
    \/ notify_updated \/ Session \/ Iterate \/ StreamStep \/ Done

Spec == Init /\ [][Next]_vars

----------------------------------------------------------------------------
(* A fan-out no stream is opened or closed under reaches every session and *)
(* every stream that was there when it began and still is, and it ends     *)
(* without an error, sinks coming and resources being subscribed to        *)
(* meanwhile.                                                              *)
CalmFanOutReachesAll ==
    walk.calm => walk.at # "failed" /\ (walk.at = "told" => walk.due \subseteq heard)

(* Any fan-out does: not one under which a stream opens or closes, which   *)
(* ends with the iterator's RuntimeError and leaves the rest untold.       *)
FanOutReachesAll == walk.at \in {"told", "failed"} => walk.due \subseteq heard
============================================================================
