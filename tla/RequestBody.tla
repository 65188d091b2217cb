---------------------------- MODULE RequestBody -----------------------------
(***************************************************************************)
(* The body of a request on a route that streams it (http/request.py:      *)
(* body, json, form, stream, is_disconnected; http/_body.py:               *)
(* ASGIBodySource): readers that share one Request, such as a dependency   *)
(* and the handler, or two dependencies of one wave.                       *)
(* The body is a sequence of chunks, the peer may go away within it.       *)
(***************************************************************************)
EXTENDS Integers, Sequences, FiniteSets

CONSTANTS
    Readers,                        \* who reads, and in which order
    Chunks,                         \* the body as it was sent
    Limits,                         \* values of MAX_CONTENT_LENGTH, in chunks
    Modes                           \* how they read: "in turn", "together", or in
                                    \* turn with stream() too ("streaming")

\* What the constants have to satisfy.
BodyAssumption ==
    /\ Chunks \in Seq({Chunks[i] : i \in DOMAIN Chunks})
    /\ Limits \subseteq Nat /\ Modes \subseteq {"in turn", "together", "streaming"}

VARIABLES
    channel,                        \* messages receive() has not handed out
    source,                         \* [done, disconnected, size, max] of the source
    request,                        \* [drained, body, json, form] of the Request
    reader,                         \* Readers -> [op, at, parts, result]
    uploads,                        \* form parses whose files are open
    mode                            \* one of Modes

vars == <<channel, source, request, reader, uploads, mode>>

Unset == <<"unset">>
Operations == {"body", "json", "form"} \cup IF mode = "streaming" THEN {"stream"} ELSE {}
Idle == [op |-> "none", at |-> "idle", parts |-> <<>>, result |-> Unset]

Message(kind, chunk, more) == [kind |-> kind, chunk |-> chunk, more |-> more]
Sent == [i \in DOMAIN Chunks |-> Message("request", <<Chunks[i]>>, i < Len(Chunks))]
Gone == <<Message("disconnect", <<>>, FALSE)>>

Init ==
    /\ channel \in {Sent} \cup {SubSeq(Sent, 1, n) \o Gone : n \in 0 .. Len(Chunks)}
    /\ source \in [done : {FALSE}, disconnected : {FALSE}, size : {0}, max : Limits]
    /\ request = [drained |-> FALSE, body |-> <<>>, json |-> Unset, form |-> {}]
    /\ reader = [r \in Readers |-> Idle]
    /\ uploads = {}
    /\ mode \in Modes

-----------------------------------------------------------------------------
(* What a reader makes of the drained body.  json() keeps the first parse; *)
(* form() keeps the last, and with it its files.                           *)
Deliver(r, op, body) ==
    CASE op = "json" ->
            LET parsed == IF request.json = Unset THEN body ELSE request.json
            IN  /\ reader' = [reader EXCEPT ![r] = [op |-> op, at |-> "done", parts |-> <<>>, result |-> parsed]]
                /\ request' = [request EXCEPT !.drained = TRUE, !.body = body, !.json = parsed]
                /\ UNCHANGED uploads
      [] op = "form" ->
            LET again == request.form # {} /\ reader[r].at # "reading"
            IN  /\ reader' = [reader EXCEPT ![r] = [op |-> op, at |-> "done", parts |-> <<>>, result |-> body]]
                /\ request' = [request EXCEPT !.drained = TRUE, !.body = body, !.form = IF again THEN @ ELSE {r}]
                /\ uploads' = IF again THEN uploads ELSE uploads \cup {r}
      [] OTHER ->
            /\ reader' = [reader EXCEPT ![r] = [op |-> op, at |-> "done", parts |-> <<>>, result |-> body]]
            /\ request' = [request EXCEPT !.drained = TRUE, !.body = body]
            /\ UNCHANGED uploads

(* An operation begins.  What is drained, or parsed, is not read again; a  *)
(* source that is at its end gives nothing.  One after the other, and not  *)
(* after a failure, unless they read together.                             *)
Begin(r, op) ==
    /\ reader[r].at = "idle"
    /\ mode = "together" \/ \A s \in Readers : reader[s].at \in {"idle", "done"}
    /\ UNCHANGED <<channel, source, mode>>
    /\ CASE request.drained -> Deliver(r, op, request.body)
         [] ~request.drained /\ source.done /\ op # "stream" -> Deliver(r, op, <<>>)
         [] OTHER -> /\ reader' = [reader EXCEPT ![r] = [Idle EXCEPT !.op = op, !.at = "reading"]]
                     /\ UNCHANGED <<request, uploads>>

(* One receive(), in read() or in the iterator of stream().  A chunk past  *)
(* the limit is refused; a disconnect ends the body where it is.           *)
ForgetSize(s, m) == [s EXCEPT !.done = ~m.more]

Take(s, m) ==
    [s EXCEPT !.done = ~m.more, !.disconnected = m.kind = "disconnect", !.size = @ + Len(m.chunk)]

Receive(r) ==
    LET m == Head(channel)
        now == Take(source, m)
        had == reader[r].parts \o m.chunk
    IN  /\ reader[r].at = "reading" /\ ~source.done /\ channel # <<>>
        /\ channel' = Tail(channel)
        /\ source' = now
        /\ UNCHANGED mode
        /\ IF now.size > source.max
           THEN /\ reader' = [reader EXCEPT ![r].at = "failed"] /\ UNCHANGED <<request, uploads>>
           ELSE IF now.done /\ reader[r].op # "stream" THEN Deliver(r, reader[r].op, had)
           ELSE /\ reader' = [reader EXCEPT ![r].parts = had] /\ UNCHANGED <<request, uploads>>

(* The source was ended by another reader, or is at its end: stream() only *)
(* marks the body as drained, which leaves it empty.                       *)
AtEnd(r) ==
    /\ reader[r].at = "reading" /\ source.done
    /\ UNCHANGED <<channel, source, mode>>
    /\ IF reader[r].op = "stream"
       THEN /\ reader' = [reader EXCEPT ![r].at = "done", ![r].result = reader[r].parts]
            /\ request' = [request EXCEPT !.drained = TRUE]
            /\ UNCHANGED uploads
       ELSE Deliver(r, reader[r].op, reader[r].parts)

(* is_disconnected(), asked between reads: only once the body is in.       *)
Poll ==
    /\ source.done /\ ~source.disconnected /\ channel # <<>>
    /\ source' = [source EXCEPT !.disconnected = Head(channel).kind = "disconnect"]
    /\ channel' = Tail(channel)
    /\ UNCHANGED <<request, reader, uploads, mode>>

(* The request ends: _close_uploads closes the form it has.                *)
Close ==
    /\ \A r \in Readers : reader[r].at # "reading"
    /\ uploads # {}
    /\ uploads' = uploads \ request.form
    /\ uploads' # uploads
    /\ UNCHANGED <<channel, source, request, reader, mode>>

Next ==
    \/ \E r \in Readers, op \in Operations : Begin(r, op)
    \/ \E r \in Readers : Receive(r) \/ AtEnd(r)
    \/ Poll
    \/ Close

Spec == Init /\ [][Next]_vars

-----------------------------------------------------------------------------
(* The body as far as it arrived.                                          *)
Prefixes == {SubSeq(Chunks, 1, n) : n \in 0 .. Len(Chunks)}
Cut == {SubSeq(Chunks, 1, n) : n \in 0 .. Len(Chunks) - 1}

SameBody ==
    /\ \A r, s \in Readers : reader[r].at = "done" /\ reader[s].at = "done" => reader[r].result = reader[s].result
    /\ \A r \in Readers : reader[r].at = "done" => reader[r].result \in Prefixes /\ Len(reader[r].result) <= source.max
    /\ \A r \in Readers : reader[r].at = "done" /\ reader[r].result \in Cut => source.disconnected

(* Readers that take their turn all get the same body, however they read   *)
(* it and wherever the peer went away, and a body that is too long is      *)
(* given to none of them (request.py: the body is drained once and kept).  *)
ReadersGetTheBody == mode = "in turn" => SameBody

(* body() returns "the full request body".  Not to readers of one wave,    *)
(* which take chunks from each other, nor after stream(), which leaves an  *)
(* empty body behind.                                                      *)
EveryReaderGetsTheBody == SameBody

(* A form that was parsed is closed with the request.  Not kept by two     *)
(* form() of one wave: the request holds the last, the files of the other  *)
(* stay open.                                                              *)
UploadsAreKnown == mode # "together" => uploads \subseteq request.form
UploadsAreAlwaysKnown == uploads \subseteq request.form
=============================================================================
