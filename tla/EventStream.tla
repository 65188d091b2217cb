---------------------------- MODULE EventStream ----------------------------
(***************************************************************************)
(* A server-sent event stream with keep-alive pings (sse.py,               *)
(* EventSourceResponse._encode_with_ping): the wait for the next event of  *)
(* the source outlives the timeout that sends a ping, and the consumer     *)
(* may stop at any frame or be cancelled while it waits.                   *)
(***************************************************************************)
EXTENDS Integers, Sequences

CONSTANTS Items,    \* events the source has
          MaxPings

\* What the constants have to satisfy.
StreamAssumption == Items \in Nat /\ MaxPings \in Nat

VARIABLES made,     \* events the source has produced
          source,   \* "running", "ended" or "closed"
          pending,  \* the future of the next event
          frames, pings,
          pc        \* "loop", "at yield" or "over"

vars == <<made, source, pending, frames, pings, pc>>

Init ==
    /\ made = 0 /\ source = "running" /\ pending = "none" /\ frames = <<>> /\ pings = 0
    /\ pc = "loop"

Ask ==
    /\ pc = "loop" /\ pending = "none" /\ pending' = "asked"
    /\ UNCHANGED <<made, source, frames, pings, pc>>

(* The source runs in a task of its own.                                   *)
Produce ==
    /\ pending = "asked" /\ source = "running"
    /\ IF made < Items THEN made' = made + 1 /\ pending' = "event" /\ UNCHANGED source
       ELSE pending' = "stop" /\ source' = "ended" /\ UNCHANGED made
    /\ UNCHANGED <<frames, pings, pc>>

(* A wait that gives the future up with its timeout.                       *)
PingGivesUp ==
    /\ pc = "loop" /\ pending = "asked" /\ pings < MaxPings
    /\ frames' = Append(frames, 0) /\ pings' = pings + 1 /\ pc' = "at yield"
    /\ pending' = "none" /\ made' = made + 1
    /\ UNCHANGED source

(* The interval passes and nothing is there: the future stays.             *)
Ping ==
    /\ pc = "loop" /\ pending = "asked" /\ pings < MaxPings
    /\ frames' = Append(frames, 0) /\ pings' = pings + 1 /\ pc' = "at yield"
    /\ UNCHANGED <<made, source, pending>>

Deliver ==
    /\ pc = "loop" /\ pending \in {"event", "stop"} /\ pending' = "none"
    /\ IF pending = "stop" THEN pc' = "over" /\ UNCHANGED frames
       ELSE frames' = Append(frames, made) /\ pc' = "at yield"
    /\ UNCHANGED <<made, source, pings>>

Resume == pc = "at yield" /\ pc' = "loop" /\ UNCHANGED <<made, source, pending, frames, pings>>

(* The consumer closes the stream at a frame, or is cancelled in the wait: *)
(* a future that is there is cancelled, and the source with it.            *)
Abandon ==
    /\ pc # "over" /\ ~(pc = "loop" /\ pending = "none")
    /\ pc' = "over"
    /\ source' = IF pending = "asked" THEN "closed" ELSE source
    /\ pending' = "none"
    /\ UNCHANGED <<made, frames, pings>>

Next == Ask \/ Produce \/ Ping \/ Deliver \/ Resume \/ Abandon

Spec == Init /\ [][Next]_vars

-----------------------------------------------------------------------------
Events == {i \in DOMAIN frames : frames[i] # 0}

(* The events go out in order, once, and none is lost to a ping: whatever  *)
(* the source has produced is on the wire or in the future.                *)
PingsLoseNothing ==
    /\ \A i, j \in Events : i < j => frames[i] < frames[j]
    /\ \E n \in 0 .. made :
         /\ {frames[i] : i \in Events} = 1 .. n
         /\ pc # "over" => n = made - (IF pending = "event" THEN 1 ELSE 0)

(* When the stream is over the source is too: it ended, or was closed so   *)
(* that its finally runs.  Left at an event, the source is only abandoned. *)
SourceIsClosed == pc = "over" => source # "running"
=============================================================================
