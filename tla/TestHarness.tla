----------------------------- MODULE TestHarness -----------------------------
(***************************************************************************)
(* What the test clients put on the wire and make of what comes back:      *)
(* bodies assembled from the arguments of a call, redirects that are       *)
(* followed, the cookie jar between hops, and the reader of LiveServer's   *)
(* connections, which has to find the end of each of several responses.    *)
(***************************************************************************)
EXTENDS Naturals, Sequences, FiniteSets

(* Bound: the redirects the model follows; _MAX_REDIRECTS is 10.           *)
_MAX_REDIRECTS == 2

----------------------------------------------------------------------------
(* _assemble_body and _prepare_body_request: which argument is encoded and *)
(* the content type it is sent under; `ct` is the caller's, or "none".     *)
Arguments == {"files", "json", "data", "content", "stream"}

encoded(args) ==
    CHOOSE a \in Arguments \cup {"none"} :
        \/ a = "stream" /\ a \in args
        \/ a = "files" /\ a \in args
        \/ a = "json" /\ a \in args /\ "files" \notin args
        \/ a = "data" /\ a \in args /\ args \cap {"files", "json"} = {}
        \/ a = "content" /\ args = {"content"}
        \/ a = "none" /\ args = {}

_assemble_body(args, ct) ==
    LET e == encoded(args) IN
    [body |-> e,
     ct |-> IF e = "files" THEN "files"
            ELSE IF e \in {"json", "data"} /\ ct = "none" THEN e ELSE ct]

----------------------------------------------------------------------------
(* A call of a client: the method of a verb or request(verb, ...), on the  *)
(* sync client or on the async one, which has to be entered first.  `path` *)
(* says whether the path has a query of its own.                           *)
Verbs == {"GET", "POST", "PUT", "PATCH", "DELETE", "HEAD", "OPTIONS"}
BodyVerbs == {"POST", "PUT", "PATCH"}
accepts(verb) ==
    CASE verb = "GET" -> {"params"} [] verb \in BodyVerbs -> Arguments [] OTHER -> {}

NothingSent == [method |-> "none", query |-> <<>>, body |-> "none", ct |-> "none"]

(* _make_request: the query of the path comes before the parameters.       *)
_make_request(c, query, b) ==
    IF c.client = "async" /\ ~c.entered THEN NothingSent
    ELSE [method |-> c.verb, body |-> b.body, ct |-> b.ct,
          query |-> (IF c.path THEN <<"path">> ELSE <<>>) \o query]

(* _dispatch_body: a stream excludes the other forms, loudly.              *)
_dispatch_body(c) ==
    IF "stream" \in c.args /\ c.args \cap Arguments # {"stream"} THEN NothingSent
    ELSE _make_request(c, <<>>, _assemble_body(c.args \cap Arguments, c.ct))

urlencoded(c) == IF "params" \in c.args THEN <<"params">> ELSE <<>>
Bodiless(c) == [body |-> "none", ct |-> c.ct]

(* get, post, put, patch, delete, head, options of either client.          *)
shortcut(c) ==
    IF c.verb \in BodyVerbs THEN _dispatch_body(c)
    ELSE _make_request(c, urlencoded(c), Bodiless(c))

(* request of either client: parameters beside a body are dropped.         *)
request(c) ==
    IF c.args \cap Arguments # {} THEN _dispatch_body(c)
    ELSE _make_request(c, urlencoded(c), Bodiless(c))

VerbCases ==
    {c \in [verb : Verbs, client : {"sync", "async"}, entered : BOOLEAN, path : BOOLEAN,
            ct : {"none", "own"}, args : SUBSET (Arguments \cup {"params"})] :
        c.client = "sync" => c.entered}

----------------------------------------------------------------------------
(* _follow_redirects.  `answers` is what the application says to each      *)
(* request: a status, a Location and the cookie it sets or deletes.        *)
Redirects == {301, 302, 303, 307, 308}
_REDIRECT_TO_GET == {301, 302, 303}

(* _apply_set_cookie_to_jar, for the one cookie a case tells apart.        *)
_update_jar(jar, cookie) ==
    IF cookie = "set" THEN {"cookie"} ELSE IF cookie = "deleted" THEN {} ELSE jar

replayed(req, status) ==
    IF status \in _REDIRECT_TO_GET
    THEN [req EXCEPT !.method = "GET", !.body = "none"] ELSE req

NeverUnrepeatable(req, status) == FALSE

(* A body given as an iterator can be sent once: a redirect that would     *)
(* repeat it is an error.                                                  *)
unrepeatable(req, status) == status \notin _REDIRECT_TO_GET /\ req.body = "stream"

follow_redirects(c) ==
    LET first == _assemble_body(c.args, "none")
        step[n \in 0 .. _MAX_REDIRECTS + 1] ==
            IF n = 0
            THEN [sent |-> <<>>, jar |-> c.jar, end |-> "going",
                  req |-> [method |-> c.method, cookie |-> FALSE, body |-> first.body,
                           ct |-> first.ct]]
            ELSE LET b == step[n - 1]
                     a == c.answers[n]
                     sent == Append(b.sent, [b.req EXCEPT !.cookie = b.jar # {}])
                     ends(e) == [b EXCEPT !.sent = sent, !.end = e,
                                          !.jar = _update_jar(b.jar, a.cookie)]
                 IN IF b.end # "going" THEN b
                    ELSE IF \/ ~c.follow
                            \/ a.status \notin Redirects
                            \/ a.location = "none" THEN ends("answered")
                    ELSE IF unrepeatable(b.req, a.status) THEN ends("error")
                    ELSE IF a.location = "elsewhere" THEN ends("error")
                    ELSE [ends("going") EXCEPT !.req = replayed(b.req, a.status)]
        last == step[_MAX_REDIRECTS + 1]
    IN IF last.end = "going" THEN [last EXCEPT !.end = "error"] ELSE last

Answers == {a \in [status : {200, 302, 307}, location : {"none", "here", "elsewhere"},
                   cookie : {"kept", "set", "deleted"}] :
               a.status = 200 => a.location = "none"}
RedirectCases ==
    {c \in [method : {"POST"}, follow : BOOLEAN,
            args : {{}, {"json"}, {"content"}, {"files", "data"}, {"stream"}},
            jar : {{}}, answers : [1 .. _MAX_REDIRECTS + 1 -> Answers]] :
        ~c.follow => c.answers \in [DOMAIN c.answers -> {c.answers[1]}]}

----------------------------------------------------------------------------
(* The responses of one LiveServer connection.  The wire is a sequence of  *)
(* marks: an interim head, a head, one mark for each byte, chunk or final  *)
(* chunk of a body.                                                        *)
_BODYLESS_STATUSES == {204, 304}
HasBody(r) == r.method # "HEAD" /\ r.status \notin _BODYLESS_STATUSES

Marks(mark, n) == [i \in 1 .. n |-> mark]

framed(r) ==
    Marks("interim", r.interim) \o <<"head">>
    \o (IF HasBody(r) THEN Marks("data", r.len) ELSE <<>>)
    \o (IF HasBody(r) /\ r.framing = "chunked" THEN <<"last">> ELSE <<>>)

(* _read_response from mark `at`: interim heads are skipped, then the head *)
(* says how the body ends (_read_chunked_body, readexactly, or the close   *)
(* of the connection).                                                     *)
reads_body(r) == r.method # "HEAD" /\ r.status \notin _BODYLESS_STATUSES

ReadsAnyBody(r) == r.method # "HEAD"

_read_response(wire, at, r) ==
    LET heads == {i \in at .. Len(wire) : wire[i] = "head"}
        h == CHOOSE i \in heads : \A j \in heads : i <= j
        lasts == {i \in h .. Len(wire) : wire[i] = "last"}
        end == CASE ~reads_body(r) -> h
                 [] r.framing = "length" -> h + r.len
                 [] r.framing = "chunked" ->
                       IF lasts = {} THEN Len(wire) + 1
                       ELSE CHOOSE i \in lasts : \A j \in lasts : i <= j
                 [] OTHER -> Len(wire)
    IN IF heads = {} THEN Len(wire) + 2 ELSE end + 1

(* The second exchange is only made on a connection the first leaves open. *)
Exchanges ==
    [method : {"GET", "HEAD"}, status : {200, 204, 304}, len : 0 .. 2,
     interim : 0 .. 1, framing : {"length", "chunked", "close"}]
ReadCases == [first : {r \in Exchanges : r.framing # "close"}, then : Exchanges]

----------------------------------------------------------------------------
(* request(verb) sends what the method of the verb sends where that takes  *)
(* the arguments, sync as async; no argument but the one encoded is on the *)
(* wire, a stream never beside another, a content type of the caller's is  *)
(* kept except under files, whose boundary it must name, and a query in    *)
(* the path is never dropped.                                              *)
VerbsAgree(c) ==
    LET r == request(c) IN
    /\ c.args \subseteq accepts(c.verb) => r = shortcut(c)
    /\ c.entered => r = request([c EXCEPT !.client = "sync"])
    /\ r # NothingSent =>
          /\ c.path => r.query # <<>> /\ r.query[1] = "path"
          /\ r.body = "none" <=> c.args \cap Arguments = {}
          /\ r.body \in c.args \cup {"none"}
          /\ r.body = "stream" => c.args \cap Arguments = {"stream"}
          /\ c.ct = "own" => r.ct = (IF "files" \in c.args THEN "files" ELSE "own")
    /\ r = NothingSent =>
          \/ c.client = "async" /\ ~c.entered
          \/ "stream" \in c.args

(* Following redirects ends with an answer that is not one to follow, or   *)
(* an error, after at most _MAX_REDIRECTS more requests; a body that can   *)
(* be read once is sent once, and a GET never carries one it was not given. *)
RedirectsSettle(c) ==
    LET r == follow_redirects(c)
        n == Len(r.sent) IN
    /\ r.end = "answered" =>
          \/ ~c.follow
          \/ c.answers[n].status \notin Redirects
          \/ c.answers[n].location = "none"
    /\ Cardinality({i \in 1 .. n : r.sent[i].body = "stream"}) <= 1
    /\ \A i \in 2 .. n : r.sent[i].body # "none" =>
          r.sent[i].method = c.method /\ r.sent[i].body = r.sent[1].body

(* A request without a body has no content type: the headers of the call  *)
(* are sent again with every hop, the Content-Type its body was given too. *)
LabelsFollowBodies(c) ==
    LET r == follow_redirects(c) IN
    \A i \in 1 .. Len(r.sent) : r.sent[i].body = "none" => r.sent[i].ct = "none"

(* Each request carries the cookies the answers before it left.            *)
HopsCarryCookies(c) ==
    LET r == follow_redirects(c) IN
    \A i \in 2 .. Len(r.sent) :
        CASE c.answers[i - 1].cookie = "set" -> r.sent[i].cookie
          [] c.answers[i - 1].cookie = "deleted" -> ~r.sent[i].cookie
          [] OTHER -> r.sent[i].cookie = r.sent[i - 1].cookie

(* The reader of a kept connection stays in step: after each response it   *)
(* is at the head of the next, whatever the method, status and framing.    *)
ReaderStaysInStep(c) ==
    LET wire == framed(c.first) \o framed(c.then)
        mid == _read_response(wire, 1, c.first) IN
    /\ mid = Len(framed(c.first)) + 1
    /\ _read_response(wire, mid, c.then) = Len(wire) + 1
============================================================================
