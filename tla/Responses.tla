----------------------------- MODULE Responses -----------------------------
(***************************************************************************)
(* A response on its way out (http/response.py, sse.py, middleware/cors.py,*)
(* compression.py, conditional.py, security.py, serving/protocol.py): the  *)
(* operations on a Response object, the response middleware in the order   *)
(* they run, and the message that is written.                              *)
(* A body is a version of the representation, plain or compressed; gzip    *)
(* stamps the time into what it compresses.                                *)
(***************************************************************************)
EXTENDS Integers, Sequences, FiniteSets, SequencesExt

None == "none"
Codings == <<"br", "gzip">>         \* algorithms, in the server's order

(* Bodies and their length.                                                *)
NoBody == [form |-> "nothing", v |-> 0, at |-> 0]
Plain(v) == [form |-> "plain", v |-> v, at |-> 0]
Zipped(body, coding, at) == [form |-> coding, v |-> body.v, at |-> IF coding = "gzip" THEN at ELSE 0]
Length(body) == CASE body.form = "nothing" -> 0 [] body.form = "plain" -> 2 [] OTHER -> 1

NoTag == [weak |-> FALSE, of |-> NoBody]
Unknown == -1                       \* no Content-Length

-----------------------------------------------------------------------------
(* What a handler returns (Response, JSONResponse, StreamingResponse,      *)
(* FileResponse, EventSourceResponse).                                     *)
Made(kind, status, v) ==
    [kind |-> kind, streamed |-> kind # "buffered", status |-> status,
     body |-> IF kind = "buffered" THEN Plain(v) ELSE NoBody,
     stream |-> IF kind = "buffered" THEN NoBody ELSE Plain(v),
     cl |-> IF kind = "file" THEN Length(Plain(v)) ELSE Unknown,
     tag |-> IF kind = "file" THEN [weak |-> TRUE, of |-> Plain(v)] ELSE NoTag,
     modified |-> IF kind = "file" THEN v ELSE 0,
     coding |-> None, vary |-> {}, acao |-> None, hardened |-> FALSE,
     noStore |-> FALSE, textual |-> kind # "events", cached |-> <<>>]

(* The fields the head is encoded from.                                    *)
Head_(r) == [status |-> r.status, cl |-> r.cl, coding |-> r.coding, vary |-> r.vary, tag |-> r.tag,
             acao |-> r.acao, hardened |-> r.hardened]

Stale(r) == [r EXCEPT !.cached = <<>>]      \* _encoded = None

(* add_vary, add_etag, set_etag and the body setter.                       *)
add_vary(r, name) == Stale([r EXCEPT !.vary = @ \cup {name}])
add_etag(r, weak) == Stale([r EXCEPT !.tag = [weak |-> weak, of |-> r.body]])
set_body(r, body) == Stale([r EXCEPT !.body = body, !.cl = IF @ = Unknown THEN Unknown ELSE Length(body)])

(* status_permits_body, and advertised_length: a 304 of unknown length     *)
(* advertises none.                                                        *)
status_permits_body(status) == status \notin {204, 205, 304}

advertised_length(status, body) ==
    CASE status_permits_body(status) -> Length(body)
      [] status = 304 -> IF Length(body) = 0 THEN Unknown ELSE Length(body)
      [] OTHER -> 0

(* _encode_response_head: what was set overrides the default.              *)
Declared(r, default) == IF r.cl # Unknown THEN r.cl ELSE default

(* Response.encode, and freeze() which is an encode() for later.           *)
encode(r) == [head |-> Head_(r), chunked |-> FALSE, cl |-> Declared(r, advertised_length(r.status, r.body)),
              sent |-> IF status_permits_body(r.status) THEN r.body ELSE NoBody]

encoded(r, keepAlive) == IF keepAlive /\ r.cached # <<>> THEN r.cached[1] ELSE encode(r)
freeze(r) == IF r.streamed THEN r ELSE [r EXCEPT !.cached = <<encoded(r, TRUE)>>]

(* _encode_streaming_head: chunks, or a zero length when there is no body. *)
StreamEncode(r) ==
    [head |-> Head_(r), chunked |-> status_permits_body(r.status),
     cl |-> Declared(r, IF status_permits_body(r.status) THEN Unknown ELSE 0), sent |-> NoBody]

-----------------------------------------------------------------------------
(* Conditions.                                                             *)

(* _etag_matches_weak and _etag_matches_strong.                            *)
matches_weak(a, b) == a.of = b.of
matches_strong(a, b) == ~a.weak /\ ~b.weak /\ a.of = b.of

ByStrongTag(q, r) ==
    IF q.inm # NoTag THEN r.tag # NoTag /\ matches_strong(r.tag, q.inm)
    ELSE q.ims # 0 /\ r.modified # 0 /\ r.modified <= q.ims

(* _preconditions_say_unchanged.                                           *)
say_unchanged(q, r) ==
    IF q.inm # NoTag THEN r.tag # NoTag /\ matches_weak(r.tag, q.inm)
    ELSE q.ims # 0 /\ r.modified # 0 /\ r.modified <= q.ims

(* _downgrade_to_304 keeps the length a 200 would have had.                *)
downgrade_to_304(r) ==
    IF r.status = 304 THEN r
    ELSE Stale([r EXCEPT !.status = 304, !.body = NoBody, !.stream = NoBody, !.streamed = FALSE,
                         !.cl = IF r.streamed THEN r.cl ELSE Length(r.body)])

make_conditional(q, r) == IF say_unchanged(q, r) THEN downgrade_to_304(r) ELSE r

(* ConditionalGetMiddleware.process_response.                              *)
conditional(q, r) ==
    LET tagged == IF r.tag = NoTag /\ r.status = 200 /\ r.kind # "stream" /\ Length(r.body) > 0 /\ ~r.noStore
                  THEN add_etag(r, TRUE) ELSE r
    IN  IF q.method \notin {"GET", "HEAD"} THEN r
        ELSE IF tagged.tag # NoTag \/ tagged.modified # 0 THEN make_conditional(q, tagged) ELSE tagged

-----------------------------------------------------------------------------
(* Compression.  An Accept-Encoding is a list of codings with weights.     *)

(* _negotiate: of a repeated coding the last, then the wildcard; of equal  *)
(* weights the server's first.                                             *)
Weight(accept, coding) ==
    LET at(c) == {i \in DOMAIN accept : accept[i].coding = c}
        last(c) == accept[CHOOSE i \in at(c) : \A j \in at(c) : j <= i].q
    IN  IF at(coding) # {} THEN last(coding) ELSE IF at("*") # {} THEN last("*") ELSE 0

negotiate(accept) ==
    LET usable == {i \in DOMAIN Codings : Weight(accept, Codings[i]) > 0}
        better(i, j) == LET a == Weight(accept, Codings[i])  b == Weight(accept, Codings[j])
                        IN  a > b \/ (a = b /\ i < j)
    IN  IF usable = {} THEN None ELSE Codings[CHOOSE i \in usable : \A j \in usable \ {i} : better(i, j)]

(* _skip_compression and _should_compress_type.                            *)
skip_compression(r) == r.status = 206 \/ ~r.textual \/ r.coding # None

(* _finalize_encoding_headers with _weaken_strong_etag.                    *)
KeepLength(r, coding, cl) == [r EXCEPT !.coding = coding]

finalize(r, coding, cl) ==
    Stale([r EXCEPT !.coding = coding, !.cl = cl, !.tag = IF r.tag = NoTag THEN NoTag ELSE [r.tag EXCEPT !.weak = TRUE]])

(* CompressionMiddleware.process_response and _process_stream.             *)
compress(q, r0, now) ==
    LET r == add_vary(r0, "Accept-Encoding")
        coding == negotiate(q.accept)
        small == Zipped(r.body, coding, now)
    IN  CASE coding = None \/ skip_compression(r) -> r
          [] coding # None /\ ~skip_compression(r) /\ r.streamed ->
                IF r.kind = "events" THEN r
                ELSE finalize([r EXCEPT !.stream = Zipped(@, coding, now)], coding, Unknown)
          [] OTHER -> IF Length(r.body) < 2 THEN r ELSE finalize(set_body(r, small), coding, Length(small))

-----------------------------------------------------------------------------
(* Cross-origin requests.  A policy: "*", listed origins, a pattern,       *)
(* credentials; "a" is listed, "p" fits the pattern, "b" does neither.     *)

varies_by_origin(c) == c.pattern \/ c.credentials \/ ~c.star

OnlyAllowedVary(c, r, allowed) == IF allowed /\ varies_by_origin(c) THEN add_vary(r, "Origin") ELSE r

origin_allowed(c, origin) ==
    origin # "" /\ (c.star \/ (c.listed /\ origin = "a") \/ (c.pattern /\ origin = "p"))

resolve_allow_origin(c, origin) ==
    CASE ~origin_allowed(c, origin) -> None
      [] origin_allowed(c, origin) /\ (c.credentials \/ ~c.star) -> origin
      [] OTHER -> "*"

vary_by_origin(c, r, allowed) == IF varies_by_origin(c) THEN add_vary(r, "Origin") ELSE r

(* _add_cors_headers.  The header is set without dropping what is cached.  *)
add_cors_headers(c, q, r) ==
    LET allow == resolve_allow_origin(c, q.origin)
        r1 == IF allow = None THEN r ELSE [r EXCEPT !.acao = allow]
    IN  vary_by_origin(c, r1, allow # None)

(* process_request: a preflight is answered here, a refused one with 400.  *)
Preflight(c, q) == q.method = "OPTIONS" /\ q.origin # ""

answer_preflight(c, q) ==
    IF ~origin_allowed(c, q.origin) \/ ~q.allowedMethod THEN Made("buffered", 400, 1)
    ELSE add_cors_headers(c, q, [Made("buffered", 204, 1) EXCEPT !.body = NoBody])

(* SecurityHeadersMiddleware and CSPMiddleware set what is not there.      *)
harden(r) == [r EXCEPT !.hardened = TRUE]

-----------------------------------------------------------------------------
(* The response middleware run last registered first.                      *)
Pass(c, q, r, name, now) ==
    CASE name = "cors" -> add_cors_headers(c.cors, q, r)
      [] name = "compress" -> compress(q, r, now)
      [] name = "conditional" -> conditional(q, r)
      [] OTHER -> harden(r)

process_response(c, q, r, now) ==
    FoldLeft(LAMBDA acc, name : Pass(c, q, acc, name, now), r, Reverse(c.registered))

Answered(c, q, made, now) ==
    LET cors == \E i \in DOMAIN c.registered : c.registered[i] = "cors"
    IN  process_response(c, q, IF cors /\ Preflight(c.cors, q) THEN answer_preflight(c.cors, q) ELSE made, now)

(* _handle_request's tail (protocol.py): what is written.  Of a HEAD only  *)
(* the header section.  A streamed file declares its length or is chunked. *)
stream_to(r) ==
    CASE r.kind = "file" /\ r.cl # Unknown -> [encode(r) EXCEPT !.sent = r.stream]
      [] r.kind = "file" /\ r.cl = Unknown -> [StreamEncode(r) EXCEPT !.sent = r.stream]
      [] OTHER -> [StreamEncode(r) EXCEPT !.sent = r.stream]

Write(q, r) ==
    LET class == IF r.kind \in {"stream", "events"} THEN StreamEncode(r) ELSE encoded(r, q.keepAlive)
    IN  CASE q.method = "HEAD" -> [class EXCEPT !.sent = NoBody]
          [] q.method # "HEAD" /\ r.streamed -> stream_to(r)
          [] OTHER -> class

-----------------------------------------------------------------------------
(* Cases: a configuration, a request, what the handler returned.           *)
Policies == {c \in [star : BOOLEAN, listed : BOOLEAN, pattern : BOOLEAN, credentials : BOOLEAN] :
                ~(c.credentials /\ c.star) /\ (c.star \/ c.listed \/ c.pattern)}

Stacks == {<<"cors", "compress", "conditional">>, <<"compress", "conditional", "cors">>,
           <<"cors", "headers">>, <<"headers", "compress">>, <<"conditional", "compress">>}

Accepts == {<<>>} \cup {<<[coding |-> c, q |-> 1]>> : c \in {"gzip", "br", "identity"}}

RequestsOut ==
    {[method |-> m, origin |-> o, accept |-> a, inm |-> NoTag, ims |-> 0, keepAlive |-> TRUE, allowedMethod |-> TRUE] :
        m \in {"GET", "HEAD", "POST", "OPTIONS"}, o \in {"", "a", "b", "p"}, a \in Accepts}

(* None of the kinds with status 206 is a file: those are in FileServing.  *)
Handlers == {Made(k, s, 1) : k \in {"buffered", "stream", "file", "events"}, s \in {200, 204}}
            \cup {[Made("buffered", 200, 1) EXCEPT !.tag = [weak |-> FALSE, of |-> Plain(1)]],
                  [Made("buffered", 200, 1) EXCEPT !.textual = FALSE, !.noStore = TRUE],
                  Made("buffered", 206, 1)}

OutCases == {x \in [registered : Stacks, cors : Policies, q : RequestsOut, made : Handlers] :
                x.made.kind \in {"file", "events"} => x.made.status = 200}

Config(x) == [registered |-> x.registered, cors |-> x.cors]
Final(x, q, now) == Answered(Config(x), q, x.made, now)
Wire(x, q, now) == Write(q, Final(x, q, now))

-----------------------------------------------------------------------------
(* Where the message ends is what its header section says: the bytes that  *)
(* follow are as many as Content-Length, or chunks.  (protocol.py: a body  *)
(* the head does not announce is taken for the next response.)  A stream   *)
(* under a status without a body is BodilessHasNoBody.                     *)
Framed(w) == w.chunked \/ Length(w.sent) = w.cl

FramedAsAdvertised(x) ==
    x.q.method # "HEAD" /\ ~(x.made.streamed /\ ~status_permits_body(x.made.status)) =>
        LET r == Final(x, x.q, 1)  w == Wire(x, x.q, 1)
        IN  (status_permits_body(r.status) => Framed(w)) /\ (r.status = 304 => w.sent = NoBody)

(* response.py:1154: "a 204 that ships chunks desynchronises a keep-alive  *)
(* connection".  The head is corrected, the chunks are still written.      *)
BodilessHasNoBody(x) ==
    x.q.method # "HEAD" /\ ~status_permits_body(Final(x, x.q, 1).status) => Wire(x, x.q, 1).sent = NoBody

(* cors.py, compression.py: a shared cache may hand a stored response to   *)
(* whoever sends the same values of the fields Vary names; that response   *)
(* is then one the server would have given, and one the browser accepts.   *)
(* Of a policy that allows every origin this is only so among the requests *)
(* that have an Origin: see CacheKeptFor.                                  *)
SameKey(vary, q1, q2) ==
    /\ "Origin" \in vary => q1.origin = q2.origin
    /\ "Accept-Encoding" \in vary => q1.accept = q2.accept

Interchangeable(x, origin, accept) ==
    LET q2 == [x.q EXCEPT !.origin = origin, !.accept = accept]
        r1 == Final(x, x.q, 1)
        r2 == Final(x, q2, 1)
    IN  SameKey(r1.vary, x.q, q2) => r1.acao = r2.acao /\ r1.coding = r2.coding /\ r1.body = r2.body

Cacheable(x) == x.q.method = "GET" /\ x.made.status = 200

VaryIsEnough(x) ==
    Cacheable(x) => \A o \in {"", "a", "b", "p"}, a \in Accepts :
        (varies_by_origin(x.cors) \/ ((x.q.origin = "") = (o = ""))) => Interchangeable(x, o, a)

(* cors.py:152: "Exactly when `Vary: Origin` is required."                 *)
CacheKeptFor(x) == Cacheable(x) => \A o \in {"", "a", "b", "p"} : Interchangeable(x, o, x.q.accept)

(* ConditionalGetMiddleware: who has the current representation and asks   *)
(* again, at another time, with the ETag that came with it, is told 304;   *)
(* who has an older one is sent the new one.  Where the compressed bytes   *)
(* are what is tagged the first half fails: TagsAreOfSentBytes.            *)
Again(x, now) == [x.q EXCEPT !.inm = Final(x, x.q, now).tag]

Documented(x) == x.registered # <<"conditional", "compress">>
RevalidationWorks(x) ==
    LET conditionally == \E i \in DOMAIN x.registered : x.registered[i] = "conditional"
        newer == [x EXCEPT !.made = Made(x.made.kind, x.made.status, 2)]
    IN  (x.q.method = "GET" /\ conditionally /\ Documented(x) /\ x.made.status = 200 /\ Final(x, x.q, 1).tag # NoTag) =>
            /\ Final(x, Again(x, 1), 2).status = 304
            /\ Final(newer, Again(x, 1), 2).status = 200

(* conditional.py:24: registered after GZipMiddleware "so a synthesized/   *)
(* forwarded ETag reflects the post-compression bytes".  Response          *)
(* middleware run in reverse, so it is of the bytes before.                *)
TagsAreOfSentBytes(x) ==
    LET r == Final(x, x.q, 1)
    IN  x.made.tag = NoTag /\ r.tag # NoTag /\ x.registered = <<"compress", "conditional", "cors">> => r.tag.of = r.body

(* The other order: a tag of compressed bytes is of the time they were     *)
(* compressed at.                                                          *)
RevalidationAnyOrder(x) ==
    (x.q.method = "GET" /\ x.registered = <<"conditional", "compress">> /\ x.made.status = 200
        /\ Final(x, x.q, 1).tag # NoTag) => Final(x, Again(x, 1), 2).status = 304

(* protocol.py:1089: a HEAD is answered with "the header section a GET     *)
(* would" have, its Content-Length included.                               *)
HeadMatchesGet(x) ==
    x.q.method = "HEAD" => Wire(x, x.q, 1).cl = Wire(x, [x.q EXCEPT !.method = "GET"], 1).cl

(* response.py:203: of a 304 an unknown length "is omitted rather than     *)
(* reported as 0".                                                         *)
UnknownIsOmitted(x) ==
    LET again == [x EXCEPT !.made.modified = 1]
        r == Final(again, [x.q EXCEPT !.ims = 1], 1)
    IN  r.status = 304 /\ x.made.kind = "stream" => Wire(again, [x.q EXCEPT !.ims = 1], 1).cl # 0

(* What is written is what the Response holds, also of one that was        *)
(* encoded before the middleware ran (freeze(), or a response returned     *)
(* again).                                                                 *)
EncodedIsCurrent(x) ==
    LET r == process_response(Config(x), x.q, freeze(x.made), 1)
    IN  ~r.streamed /\ r.kind = "buffered" => Write(x.q, r).head = Head_(r)

-----------------------------------------------------------------------------
(***************************************************************************)
(* From what a handler returns to a response (app/dispatch.py:             *)
(* _build_response, _apply_response_model, _coerce_response, make_response *)
(* and helpers.py: make_response).  Bodies are the set of fields they      *)
(* show; the response model declares "id" and requires it.                 *)
(***************************************************************************)

ModelFields == {"id"}
OK == 200
Unset == 0

(* A return value: a mapping, an instance of the model or of a subclass, a *)
(* text, a Response, a list of values, or a tuple.                         *)
Mapping(fields) == [kind |-> "mapping", fields |-> fields]
Exact == [kind |-> "exact", fields |-> ModelFields]
Subclass == [kind |-> "subclass", fields |-> ModelFields \cup {"secret"}]
Text == [kind |-> "text", fields |-> {}]
Response(code) == [kind |-> "response", fields |-> {"own"}, code |-> code]
Items == {Mapping({"id"}), Mapping({"id", "secret"}), Mapping({"secret"}), Exact, Subclass}
Bodies == Items \cup {Text} \cup {Response(200), Response(404)}

List(items) == [kind |-> "list", items |-> items]
Lists == {List(s) : s \in BoundedSeq(Items, 2)}

(* (body, status), (body, headers) and (body, status, headers); a tuple of *)
(* another length is a list.  Unset or {}: not in the tuple.               *)
Tuple(body, code, headers) == [kind |-> "tuple", body |-> body, code |-> code, headers |-> headers]
Carries == {<<c, h>> \in {Unset, 200, 201} \X {{}, {"x"}} : c # Unset \/ h # {}}
Tuples(bodies) == {Tuple(b, ch[1], ch[2]) : b \in bodies, ch \in Carries}
Flat == Tuples(Bodies)
Nested == Tuples({Tuple(b, 202, h) : b \in {Text, Response(404)}, h \in {{}, {"y"}}})

Failed == [kind |-> "failed", fields |-> {}]

-----------------------------------------------------------------------------
(* One value through the model: an instance of exactly that type is dumped *)
(* as it is, anything else goes through validation, which drops what the   *)
(* model does not declare and fails without what it requires.              *)
shape_subclass(v) ==
    IF v.kind \in {"exact", "subclass"} THEN Mapping(v.fields)
    ELSE IF ModelFields \subseteq v.fields THEN Mapping(ModelFields) ELSE Failed

shape_through_model(v) ==
    IF v.kind = "exact" THEN Mapping(v.fields)
    ELSE IF ModelFields \subseteq v.fields THEN Mapping(ModelFields) ELSE Failed

(* _apply_response_model: list[Model] or Model.  A tuple is a list of its  *)
(* elements for the one, and no mapping for the other; what is no list is  *)
(* left as it is under list[Model].                                        *)
apply_response_model(model, v) ==
    CASE model = "list" /\ v.kind = "list" ->
            LET shaped == [i \in DOMAIN v.items |-> shape_through_model(v.items[i])]
            IN  IF Failed \in Range(shaped) THEN Failed ELSE List(shaped)
      [] model = "list" /\ v.kind = "tuple" -> Failed
      [] model = "list" /\ v.kind \notin {"list", "tuple"} -> v
      [] model = "one" -> IF v.kind \in {"list", "tuple"} THEN Failed ELSE shape_through_model(v)

-----------------------------------------------------------------------------
PlainResponse(v, code) ==
    [code |-> code, mime |-> IF v.kind = "text" THEN "html" ELSE "json", headers |-> {},
     fields |-> IF v.kind = "list" THEN UNION {v.items[i].fields : i \in DOMAIN v.items} ELSE v.fields]

AsItIs(v) == [code |-> v.code, mime |-> "own", headers |-> {}, fields |-> v.fields]

Overlaid(r, code, headers) ==
    [r EXCEPT !.code = IF code = Unset THEN @ ELSE code, !.headers = @ \cup headers]

(* _unpack_response_tuple, then the body again: the outer tuple last.      *)
(* (Two levels are as deep as the cases go.)                               *)
value_of(v) == IF v.kind = "response" THEN AsItIs(v) ELSE PlainResponse(v, OK)
coerce_flat(v) == IF v.kind = "tuple" THEN Overlaid(value_of(v.body), v.code, v.headers) ELSE value_of(v)
coerce_response(v) == IF v.kind = "tuple" THEN Overlaid(coerce_flat(v.body), v.code, v.headers) ELSE coerce_flat(v)

(* helpers.make_response: what the tuple carries becomes the arguments of  *)
(* a call for the body, and replaces those that were passed.               *)
make_value(v, code, headers) ==
    IF v.kind = "response" THEN Overlaid(AsItIs(v), code, headers)
    ELSE Overlaid(PlainResponse(v, OK), code, headers)

Carried(old, new, none) == IF new = none THEN old ELSE new

ArgumentsFirst(old, new, none) == IF old = none THEN new ELSE old

make_flat(v, code, headers) ==
    IF v.kind = "tuple" THEN make_value(v.body, Carried(code, v.code, Unset), Carried(headers, v.headers, {}))
    ELSE make_value(v, code, headers)

make_response(v, code, headers) ==
    IF v.kind = "tuple" THEN make_flat(v.body, Carried(code, v.code, Unset), Carried(headers, v.headers, {}))
    ELSE make_value(v, code, headers)

(* _build_response: the model, the response, and the route's status where  *)
(* the response still has the default.                                     *)
RouteStatusAlways(r, status) == [r EXCEPT !.code = status]

default_status(r, status) == IF status # OK /\ r.code = OK THEN [r EXCEPT !.code = status] ELSE r

build_response(route, v) ==
    LET shaped == IF route.model # "none" /\ v.kind # "response" THEN apply_response_model(route.model, v) ELSE v
    IN  IF shaped = Failed THEN [code |-> 500, mime |-> "json", headers |-> {}, fields |-> {}]
        ELSE default_status(coerce_response(shaped), route.status)

ResultCases == [route : [model : {"none", "one", "list"}, status : {200, 201}], v : Bodies \cup Lists \cup Flat \cup Nested]
MakeCases == Bodies \cup Flat \cup Nested

-----------------------------------------------------------------------------
(* "undeclared fields drop" (requests-responses.md:464): nothing but the   *)
(* model's fields leaves, from an instance of a subclass neither, where    *)
(* the value has the declared shape.                                       *)
UndeclaredFieldsDrop(x) ==
    x.v.kind # "response" /\ (x.route.model = "one" \/ (x.route.model = "list" /\ x.v.kind = "list")) =>
        build_response(x.route, x.v).fields \subseteq ModelFields

(* The same of any value.  Not kept: one value where list[Model] is        *)
(* declared is sent as it is.                                              *)
UndeclaredAlwaysDrop(x) ==
    x.v.kind # "response" /\ x.route.model # "none" => build_response(x.route, x.v).fields \subseteq ModelFields

(* A status other than 200 that a handler gives is the one sent, and       *)
(* without one it is the route's.                                          *)
StatusIsTheHandlers(x) ==
    LET sent == build_response(x.route, x.v).code
        given == coerce_response(x.v).code
    IN  sent # 500 => sent = IF given = OK THEN x.route.status ELSE given

(* "a tuple or an explicit Response overrides it per return"               *)
(* (requests-responses.md:358).  Not kept for a status of 200.             *)
ExplicitStatusWins(x) ==
    x.v.kind = "tuple" /\ x.v.code # Unset /\ x.route.model = "none" =>
        build_response(x.route, x.v).code = x.v.code

(* A tuple means the same under a response model ("body coerced, then      *)
(* status applied").  Not kept: the model is given the tuple.              *)
TuplesUnderModels(x) ==
    x.route.model = "one" /\ x.v \in Flat /\ x.v.body = Exact => build_response(x.route, x.v).code # 500

(* make_response: "the same shapes a handler may return", to the same      *)
(* response.  Kept for a tuple of a value; not for a tuple in a tuple,     *)
(* where the inner status wins.                                            *)
MadeAsDispatched(v) == v \notin Nested => make_response(v, Unset, {}) = coerce_response(v)
MadeAlwaysAsDispatched(v) == make_response(v, Unset, {}) = coerce_response(v)
-----------------------------------------------------------------------------
(***************************************************************************)
(* One field of a response's headers, which are a dictionary that tells    *)
(* spellings apart: a sequence of entries in the order they were first     *)
(* written, "X" being the spelling the framework writes.                   *)
(***************************************************************************)
Spellings == {"X", "x"}
Dicts == {<<>>} \cup {<<[key |-> k, v |-> 0]>> : k \in Spellings}
         \cup {<<[key |-> k, v |-> 0], [key |-> IF k = "X" THEN "x" ELSE "X", v |-> 1]>> : k \in Spellings}
Plainly(h) == Len(h) <= 1           \* nobody wrote a second spelling

Assign(h, key, v) ==
    IF \E i \in DOMAIN h : h[i].key = key
    THEN [i \in DOMAIN h |-> IF h[i].key = key THEN [h[i] EXCEPT !.v = v] ELSE h[i]]
    ELSE Append(h, [key |-> key, v |-> v])

(* header_key, header_get and header_pop: the framework's spelling, else   *)
(* the first other.                                                        *)
header_key(h) ==
    IF \E i \in DOMAIN h : h[i].key = "X" THEN "X" ELSE IF h = <<>> THEN None ELSE h[1].key
header_get(h) ==
    IF header_key(h) = None THEN Unknown ELSE h[CHOOSE i \in DOMAIN h : h[i].key = header_key(h)].v
header_pop(h) == SelectSeq(h, LAMBDA e : e.key # header_key(h))

(* headerlist and both emit paths: of two spellings the last is sent.      *)
headerlist(h) == IF h = <<>> THEN Unknown ELSE h[Len(h)].v

(* _set_or_pop, _set_http_date_header, the setters of retry_after and age, *)
(* set_content_range, set_etag and set_cache_control write over the entry  *)
(* of their own spelling; _set_header_set and add_vary take the old entry  *)
(* out first.                                                              *)
set_or_pop(h, v) == IF v = Unknown THEN header_pop(h) ELSE Assign(h, "X", v)
set_http_date_header(h, v) == set_or_pop(h, v)
set_numeric(h, v) == set_or_pop(h, v)
set_outright(h, v) == Assign(h, "X", v)
set_header_set(h, v) == Assign(header_pop(h), "X", v)

(* A 304's or a write's condition: If-Match by strong tags and, without    *)
(* one, If-Unmodified-Since in whole seconds (check_preconditions,         *)
(* _check_unmodified_since).  A resource has a tag, weak or not or none,   *)
(* and a time of change in halves of a second or none.                     *)
Resources == [tag : {NoTag} \cup {[weak |-> w, of |-> Plain(v)] : w \in BOOLEAN, v \in 1 .. 2}, modified : {Unknown, 2, 3, 4}]
AnyTag == [weak |-> FALSE, of |-> Plain(0)]     \* If-Match: *
Wishes == [match : {<<>>, <<AnyTag>>} \cup {<<[weak |-> w, of |-> Plain(1)]>> : w \in BOOLEAN}, since : {Unknown, 1, 2}]

check_unmodified_since(r, q) == q.since = Unknown \/ r.modified = Unknown \/ r.modified \div 2 <= q.since

check_preconditions(r, q) ==
    CASE q.match = <<>> -> check_unmodified_since(r, q)
      [] q.match = <<AnyTag>> -> TRUE
      [] OTHER -> \E i \in DOMAIN q.match : r.tag # NoTag /\ matches_strong(r.tag, q.match[i])

(* iter_chunked: the lengths of the slices of a body.                      *)
iter_chunked(length, size) ==
    [i \in 1 .. (length + size - 1) \div size |-> IF i * size <= length THEN size ELSE length % size]

(***************************************************************************)
(* Cookies of a response (set_cookie, delete_cookie, http/cookies.py).  A  *)
(* browser keeps one cookie for each name, domain, path and partition.     *)
(***************************************************************************)
CookieCalls == [path : {"/", "/a"}, domain : {None, "d"}, secure : BOOLEAN, partitioned : BOOLEAN,
                prefix : {None, "secure", "host"}]

(* dump_cookie: what a prefix asks for.                                    *)
NoRules(c) == FALSE

dump_refused(c) ==
    \/ c.prefix # None /\ ~c.secure
    \/ c.prefix = "host" /\ (c.path # "/" \/ c.domain # None)

(* set_cookie: a line more, the name under its prefix, Partitioned only    *)
(* with Secure; nothing when dump_cookie raises.                           *)
SetCookieLine(c, v, age) ==
    [name |-> c.prefix, path |-> c.path, domain |-> c.domain, secure |-> c.secure,
     partitioned |-> c.partitioned /\ c.secure, v |-> v, age |-> age]
set_cookie(lines, c, v, age) == IF dump_refused(c) THEN lines ELSE Append(lines, SetCookieLine(c, v, age))
delete_cookie(lines, c) == set_cookie(lines, c, 0, 0)

(* Response.cookies: by name, the last line counts.                        *)
response_cookies(lines, name) ==
    LET of == {i \in DOMAIN lines : lines[i].name = name}
    IN  IF of = {} THEN Unknown ELSE lines[CHOOSE i \in of : \A j \in of : j <= i].v

(* What the browser holds after the lines.                                 *)
Keeps(lines) ==
    LET same(a, b) == <<a.name, a.path, a.domain, a.partitioned>> = <<b.name, b.path, b.domain, b.partitioned>>
    IN  {lines[i] : i \in {i \in DOMAIN lines : lines[i].age # 0
                            /\ ~\E j \in DOMAIN lines : i < j /\ same(lines[i], lines[j])}}

FieldCases == [of : {"field"}, h : Dicts, v : {Unknown, 5}]
              \cup [of : {"write"}, r : Resources, q : Wishes]
              \cup [of : {"cookies"}, first : CookieCalls, then : CookieCalls]
              \cup [of : {"chunks"}, length : 0 .. 6, size : 1 .. 4]

(* What an accessor sets is what it reads back and what is sent, as long   *)
(* as the field was there under one spelling; what it removes is gone.     *)
AccessorsRoundTrip(x) ==
    x.of = "field" /\ Plainly(x.h) =>
        \A h \in {set_or_pop(x.h, x.v), set_http_date_header(x.h, x.v), set_numeric(x.h, x.v)}
               \cup (IF x.v = Unknown THEN {} ELSE {set_header_set(x.h, x.v), set_outright(x.h, x.v)}) :
            header_get(h) = x.v /\ headerlist(h) = x.v

(* A write made with the tag or the time of an older representation is     *)
(* refused, and one made with the strong tag of the current one is not.    *)
StaleWritesAreRefused(x) ==
    x.of = "write" /\ x.q.match # <<AnyTag>> =>
        LET ok == check_preconditions(x.r, x.q) IN
        /\ x.q.match # <<>> /\ ok => x.r.tag = x.q.match[1]
        /\ x.q.match # <<>> /\ ~x.q.match[1].weak /\ x.r.tag = x.q.match[1] => ok
        /\ x.q.match = <<>> /\ x.q.since # Unknown /\ ok /\ x.r.modified # Unknown
           => x.r.modified < 2 * (x.q.since + 1)

(* A cookie deleted with the flags it was set with is gone from the        *)
(* browser and reads as empty; what a prefix forbids is never sent.        *)
DeletedCookiesGo(x) ==
    x.of = "cookies" =>
        LET set == set_cookie(<<>>, x.first, 1, Unknown)
            both == set_cookie(set, x.then, 2, Unknown)
            gone == delete_cookie(both, x.first)
        IN  /\ \A c \in Keeps(gone) : ~dump_refused(x.first) => c = SetCookieLine(x.then, 2, Unknown)
            /\ \A c \in Keeps(both) : (c.name # None => c.secure) /\ (c.name = "host" => c.path = "/" /\ c.domain = None)
            /\ set # <<>> => response_cookies(gone, x.first.prefix) = 0

(* The slices are the body: none is empty, all but the last are full.      *)
ChunksAreTheBody(x) ==
    x.of = "chunks" =>
        LET c == iter_chunked(x.length, x.size) IN
        /\ FoldLeft(LAMBDA a, b : a + b, 0, c) = x.length
        /\ \A i \in DOMAIN c : c[i] > 0 /\ (i < Len(c) => c[i] = x.size)

FieldsAreKept(x) == AccessorsRoundTrip(x) /\ StaleWritesAreRefused(x) /\ DeletedCookiesGo(x) /\ ChunksAreTheBody(x)
=============================================================================
