----------------------------- MODULE Parameters -----------------------------
(***************************************************************************)
(* Parameters of a handler (_handler_plan.py, _params.py, dependency.py,   *)
(* _resolver_codegen.py, contrib/mcp/plan_bridge.py, _route_contract.py,   *)
(* contrib/openapi.py): what a declaration becomes when the plan is built, *)
(* what value it gets from a request by the interpreter and by the         *)
(* generated resolver, what it gets from an MCP call, and what the         *)
(* published document says of it.                                          *)
(* One parameter and one request.  A raw value is "7", "9" or "x": two     *)
(* numbers, of which "9" breaks a declared bound, and a word.              *)
(***************************************************************************)
EXTENDS Integers, Sequences, FiniteSets, SequencesExt

Raw == {"7", "9", "x"}
Absent == "absent"

(* A declaration: annotation, marker, what it defaults to, where it is.    *)
Annotations == {"str", "int", "list", "model", "UploadFile", "Request", "WebSocket",
                "BackgroundTasks", "Response", "SecurityScopes"}
Backends == {"pydantic", "adapted", "msgspec"}
Markers == {"none", "Depends", "Query", "Path", "Header", "Cookie", "Body", "Form", "File"}

Declarations ==
    {d \in [ann : Annotations, marker : Markers, default : BOOLEAN, optional : BOOLEAN,
            bounds : BOOLEAN, backend : Backends, magic : BOOLEAN, websocket : BOOLEAN, inPath : BOOLEAN] :
        /\ d.bounds => d.ann \in {"str", "int", "list"}
        /\ d.backend # "pydantic" => d.ann = "model"
        /\ d.marker = "Path" => d.ann \in {"str", "int"}
        /\ d.marker = "File" => d.ann \in {"str", "UploadFile"}
        /\ d.inPath => d.marker \in {"none", "Path"} /\ d.ann \in {"str", "int", "list"}
        /\ d.magic => d.ann = "str"
        /\ d.ann \in {"Request", "WebSocket", "BackgroundTasks", "Response", "SecurityScopes"} =>
              d.marker = "none" /\ ~d.default /\ ~d.optional
        /\ d.marker = "Depends" => d.ann \in {"str", "model"} /\ ~d.default /\ ~d.optional /\ ~d.bounds}

(* A request: the path parameter, the values under its name in the source  *)
(* it is read from, and the body.                                          *)
Bodies == {"empty", "null", "good", "bad", "malformed", "otherType"}

Requests ==
    [path : Raw \cup {Absent}, values : SeqOf(Raw, 2), body : {"empty"}]
    \cup [path : {Absent}, values : {<<>>}, body : Bodies]

-----------------------------------------------------------------------------
(* The plan.                                                               *)

Slot(kind, mk, d) ==
    [kind |-> kind, mk |-> mk, list |-> d.ann = "list", ann |-> d.ann, default |-> d.default,
     optional |-> d.optional, bounds |-> d.bounds, backend |-> d.backend]

(* _build_marker_slot: a socket has no body to read.                       *)
build_marker_slot(d) ==
    IF d.websocket /\ d.marker \in {"Body", "Form", "File"} THEN Slot("dropped", "none", d)
    ELSE IF d.ann = "model" /\ d.marker \in {"Query", "Header", "Cookie", "Form"} THEN Slot("group", d.marker, d)
    ELSE Slot("marker", d.marker, d)

(* _build_annotated_slot: by the annotation alone.                         *)
build_annotated_slot(d) ==
    CASE d.ann = "UploadFile" -> Slot(IF d.websocket THEN "dropped" ELSE "upload", "none", d)
      [] d.ann = "model" -> Slot(IF d.websocket THEN "dropped" ELSE "body", "none", d)
      [] d.ann = "list" -> Slot("list", "none", d)
      [] OTHER -> Slot("query", "none", d)

(* build_plan, one parameter: reserved names, then the injected types,     *)
(* then the marker, then the annotation.                                   *)
build_plan(d) ==
    CASE d.magic /\ d.marker \notin {"none", "Depends"} -> Slot("refused", "none", d)
      [] d.websocket /\ (d.ann = "WebSocket" \/ d.magic) -> Slot("websocket", "none", d)
      [] d.magic \/ d.ann = "Request" -> Slot("request", "none", d)
      [] d.ann \in {"BackgroundTasks", "Response"} -> Slot(IF d.websocket THEN "dropped" ELSE "bound", "none", d)
      [] d.ann = "SecurityScopes" -> Slot("bound", "none", d)
      [] d.marker = "Depends" -> Slot("depends", "none", d)
      [] d.marker # "none" -> build_marker_slot(d)
      [] OTHER -> build_annotated_slot(d)

-----------------------------------------------------------------------------
(* Values.                                                                 *)

Bound(v) == [tag |-> "value", v |-> v]
Answer(tag) == [tag |-> tag, v |-> <<>>]
Invalid == Answer("422")

(* resolve_default, None for an optional parameter, or a 422.              *)
Missing(slot) ==
    IF slot.default THEN Answer("default") ELSE IF slot.optional THEN Answer("none") ELSE Invalid

(* _coerce_value: a number has to be one.                                  *)
coerces(ann, raw) == ann \in {"int", "list"} => raw # "x"

(* ParamBase.validate: the bounds of a marker or of a Field().             *)
ValidateNothing(slot, raw) == TRUE

validates(slot, raw) == slot.bounds => raw # "9"

Scalar(slot, raw) ==
    IF coerces(slot.ann, raw) /\ validates(slot, raw) THEN Bound(<<raw>>) ELSE Invalid

(* _collect_sequence_marker and _validate_list_marker: every member.       *)
List(slot, values) ==
    IF \A i \in DOMAIN values : coerces(slot.ann, values[i]) /\ validates(slot, values[i])
    THEN Bound(values) ELSE Invalid

(* _resolve_scalar_param and _resolve_list_param: the path, then the query *)
(* string.                                                                 *)
resolve_scalar_param(slot, r) ==
    IF r.path # Absent THEN Scalar(slot, r.path)
    ELSE IF r.values # <<>> THEN Scalar(slot, Head(r.values)) ELSE Missing(slot)

resolve_list_param(slot, r) ==
    IF r.path # Absent THEN List(slot, <<r.path>>)
    ELSE IF r.values # <<>> THEN List(slot, r.values) ELSE Missing(slot)

(* _require_json_body and Request.json: another media type is refused      *)
(* unless there is nothing in the body.                                    *)
Json(r) ==
    CASE r.body = "otherType" -> "422"
      [] r.body = "malformed" -> "400"
      [] r.body \in {"empty", "null"} -> Absent
      [] OTHER -> r.body

(* The body of a marker: of a list, of a model or of a scalar.             *)
marker_body(slot, r) ==
    CASE Json(r) \in {"422", "400"} -> Answer(Json(r))
      [] Json(r) = Absent -> Missing(slot)
      [] Json(r) = "good" -> Bound(<<"7">>)
      [] OTHER -> Invalid

(* _resolve_marker.                                                        *)
resolve_marker(slot, r) ==
    CASE slot.mk = "Body" -> marker_body(slot, r)
      [] slot.mk = "Path" -> IF r.path = Absent THEN Missing(slot) ELSE Scalar(slot, r.path)
      [] slot.list /\ slot.mk # "File" -> IF r.values = <<>> THEN Missing(slot) ELSE List(slot, r.values)
      [] OTHER -> IF r.values = <<>> THEN Missing(slot) ELSE Scalar(slot, Head(r.values))

(* _resolve_model_group: the fields of a model, from one source; nothing   *)
(* of it there counts as missing only when it may be.                      *)
resolve_model_group(slot, r) ==
    IF r.values = <<>> THEN Missing(slot)
    ELSE IF Head(r.values) # "x" THEN Bound(<<Head(r.values)>>) ELSE Invalid

(* _resolve_pydantic_body; _resolve_adapted_body and _resolve_msgspec_body *)
(* give None for an empty body that may be missing.                        *)
resolve_body_model(slot, r) ==
    CASE r.body = "otherType" -> Invalid
      [] r.body = "empty" /\ slot.backend # "pydantic" /\ slot.optional -> Answer("none")
      [] r.body = "malformed" /\ slot.backend = "pydantic" -> Answer("400")
      [] r.body = "good" -> Bound(<<"7">>)
      [] OTHER -> Invalid

(* _resolve_upload_file leaves a missing file to the handler's own default *)
resolve_upload_file(slot, r) ==
    IF r.values # <<>> THEN Bound(<<Head(r.values)>>)
    ELSE IF slot.optional THEN Answer("none") ELSE Answer("unset")

(* _resolve_slots, one slot.                                               *)
resolve_slot(slot, r) ==
    CASE slot.kind \in {"request", "websocket", "bound", "depends"} -> Answer("injected")
      [] slot.kind = "marker" -> resolve_marker(slot, r)
      [] slot.kind = "body" -> resolve_body_model(slot, r)
      [] slot.kind = "group" -> resolve_model_group(slot, r)
      [] slot.kind = "upload" -> resolve_upload_file(slot, r)
      [] slot.kind = "list" -> resolve_list_param(slot, r)
      [] slot.kind = "query" -> resolve_scalar_param(slot, r)
      [] OTHER -> Answer("unset")

(* The handler is called with what was bound; Python fills in its own      *)
(* default, and a parameter without one is a TypeError.                    *)
CallWith(slot, a) ==
    IF a.tag # "unset" THEN a ELSE IF slot.default THEN Answer("default") ELSE Answer("500")

-----------------------------------------------------------------------------
(* The generated resolver (compile_param_resolver).                        *)

Compilable(slot) ==
    slot.kind \in {"request", "query"} \/ (slot.kind = "marker" /\ slot.mk \in {"Query", "Path", "Header", "Cookie"})

(* _emit_coerced and _emit_field_validate, around one value.               *)
emit_coerced(slot, raw) ==
    IF ~coerces(slot.ann, raw) THEN Invalid ELSE IF ~validates(slot, raw) THEN Invalid ELSE Bound(<<raw>>)

(* Query before path, as a resolver written for query parameters would.    *)
EmitQueryFirst(slot, r) ==
    IF r.values # <<>> THEN emit_coerced(slot, Head(r.values))
    ELSE IF r.path # Absent THEN emit_coerced(slot, r.path) ELSE Missing(slot)

(* _emit_scalar_param.                                                     *)
emit_scalar_param(slot, r) ==
    CASE r.path # Absent -> emit_coerced(slot, r.path)
      [] r.path = Absent /\ r.values # <<>> -> emit_coerced(slot, Head(r.values))
      [] OTHER -> Missing(slot)

(* _emit_marker: a list is only collected from a source with many values.  *)
emit_marker(slot, r) ==
    LET collected == [i \in DOMAIN r.values |-> emit_coerced(slot, r.values[i])]
        raw == IF slot.mk = "Path" THEN r.path ELSE IF r.values = <<>> THEN Absent ELSE Head(r.values)
    IN  IF slot.list /\ slot.mk # "Path"
        THEN IF r.values = <<>> THEN Missing(slot)
             ELSE IF Invalid \in Range(collected) THEN Invalid ELSE Bound(r.values)
        ELSE IF raw = Absent THEN Missing(slot) ELSE emit_coerced(slot, raw)

compile_param_resolver(slot, r) ==
    CASE slot.kind = "request" -> Answer("injected")
      [] slot.kind = "marker" -> emit_marker(slot, r)
      [] OTHER -> emit_scalar_param(slot, r)

-----------------------------------------------------------------------------
(* An MCP call (bind_arguments) with the argument or without.              *)

InputKinds == {"body", "list", "marker", "query"}

(* Whether a model is validated at all: a msgspec body or group is passed  *)
(* on as the object it came as, and so is an adapted one under Body().     *)
validates_model(slot) ==
    slot.backend = "pydantic" \/ (slot.backend = "adapted" /\ slot.kind # "marker")

(* _coerce_argument: a JSON value is held to the declared type.            *)
coerce_argument(slot, v) ==
    CASE slot.kind = "list" \/ (slot.kind = "marker" /\ slot.list) -> List(slot, v)
      [] slot.kind \in {"marker", "query"} /\ slot.ann # "model" -> Scalar(slot, Head(v))
      [] slot.ann = "model" /\ validates_model(slot) /\ Head(v) = "x" -> Invalid
      [] OTHER -> Bound(v)

bind_arguments(slot, v) ==
    CASE slot.kind \in {"request", "websocket", "bound", "depends"} -> Answer("injected")
      [] slot.kind = "group" -> IF v = <<>> THEN Missing(slot) ELSE coerce_argument(slot, v)
      [] v # <<>> -> coerce_argument(slot, v)
      [] v = <<>> /\ (slot.default \/ slot.optional \/ slot.kind \in InputKinds) -> Missing(slot)
      [] OTHER -> Answer("unset")

-----------------------------------------------------------------------------
(* The published document.                                                 *)

(* describe_slot: only these are parameters a client can send.             *)
Described(slot) == slot.kind \in {"marker", "body", "upload", "list", "query", "group"}

(* _is_required, for a parameter, a form field or a body: a model body     *)
(* always is, a path parameter always is, and of a group its fields are    *)
(* unless the group is optional.                                           *)
RequiredUnlessOptional(slot, inPath) == inPath \/ ~(slot.default \/ slot.optional)

is_required(slot, inPath) ==
    CASE slot.kind = "body" \/ inPath -> TRUE
      [] slot.kind = "group" -> ~slot.optional
      [] slot.kind = "marker" /\ slot.mk = "Body" /\ slot.ann = "model" -> TRUE
      [] OTHER -> ~(slot.default \/ slot.optional)

(* _slot_schema, for the input schema of an MCP tool: files are left out.  *)
McpDescribed(slot) == Described(slot) /\ slot.kind # "upload"
slot_required(slot) == IF slot.kind = "group" THEN TRUE ELSE ~(slot.default \/ slot.optional)

-----------------------------------------------------------------------------
(* A declaration and a request that can meet: only what is in the path     *)
(* template has a path value, and a socket's handshake has no body.        *)
Meets(d, r) ==
    /\ (r.path # Absent) = d.inPath
    /\ d.websocket => r.body = "empty"

(* A value the handler gets from a request or a call is of the declared    *)
(* type and within the declared bounds, whichever source it came from and  *)
(* whichever of the resolvers bound it.                                    *)
TypedOrRefused(d, r) ==
    LET slot == build_plan(d)
        fits(a) == a.tag = "value" =>
                       \A i \in DOMAIN a.v : (d.ann \in {"int", "list"} => a.v[i] # "x") /\ (d.bounds => a.v[i] # "9")
    IN  /\ fits(resolve_slot(slot, r))
        /\ Compilable(slot) => fits(compile_param_resolver(slot, r))
        /\ slot.kind # "refused" /\ ~d.websocket => fits(bind_arguments(slot, r.values))

(* _resolver_codegen.py: the generated resolver answers every request as   *)
(* the interpreter does.                                                   *)
ResolversAgree(d, r) ==
    LET slot == build_plan(d) IN
    Compilable(slot) => compile_param_resolver(slot, r) = resolve_slot(slot, r)

(* What the document does not call required may be left out: the request   *)
(* and the MCP call are then not refused for it.                           *)
OptionalMayBeOmitted(d, r) ==
    LET slot == build_plan(d) IN
    r.path = Absent /\ r.values = <<>> /\ r.body = "empty" /\ ~d.websocket /\ Described(slot) =>
        /\ ~is_required(slot, d.inPath) => CallWith(slot, resolve_slot(slot, r)).tag \in {"default", "none"}
        /\ McpDescribed(slot) /\ ~slot_required(slot) =>
              CallWith(slot, bind_arguments(slot, r.values)).tag \in {"default", "none"}

(* A model given to a handler by an MCP call was validated.  The code does *)
(* not keep this for a msgspec model, nor for an adapted one under Body(). *)
ModelsAreBuilt(d, r) ==
    LET slot == build_plan(d) IN
    slot.kind \in {"body", "group", "marker"} /\ d.ann = "model" /\ ~d.websocket
        => bind_arguments(slot, r.values) # Bound(<<"x">>)

(* docs/guide/parameters.md: "a required parameter is missing, Veloce      *)
(* responds with a `422`".  The code does not keep this for an UploadFile  *)
(* without a marker, whose absence is the handler's TypeError, nor for a   *)
(* body model that is optional and not pydantic's.                         *)
RequiredIsRefused(d, r) ==
    LET slot == build_plan(d) IN
    r.path = Absent /\ r.values = <<>> /\ r.body = "empty" /\ ~d.websocket /\ Described(slot)
        /\ is_required(slot, d.inPath) /\ ~d.inPath =>
            CallWith(slot, resolve_slot(slot, r)).tag = "422"

-----------------------------------------------------------------------------
(***************************************************************************)
(* What is read out of a request (http/formparsers.py, datastructures.py): *)
(* a multipart form under its limits, with the temporary files it opens,   *)
(* and the Accept headers.                                                 *)
(***************************************************************************)

(***************************************************************************)
(* Multipart forms.  A part: has a name, has a filename, so many bytes,    *)
(* can be decoded.  The body ends after its last part, within it, or in    *)
(* something that is no multipart.                                         *)
(***************************************************************************)
Off == 99                           \* a limit that is not set

Fresh == [error |-> 0, parts |-> 0, files |-> 0, fields |-> 0, memory |-> 0,
          spool |-> 0, uploads |-> {}, open |-> {}, size |-> 0, known |-> FALSE]

Fail(c, status) == [c EXCEPT !.error = status]
Running(c) == c.error = 0

(* on_part_begin opens the temporary file of a part that is within the     *)
(* number of parts.                                                        *)
CountFirst(lim, c, i) ==
    IF c.parts >= lim.parts + 1 THEN Fail(c, 413)
    ELSE [c EXCEPT !.parts = @ + 1, !.spool = i, !.open = @ \cup {i}, !.size = 0, !.known = FALSE]

on_part_begin(lim, c, i) ==
    IF c.parts + 1 > lim.parts THEN Fail([c EXCEPT !.parts = @ + 1], 413)
    ELSE [c EXCEPT !.parts = @ + 1, !.spool = i, !.open = @ \cup {i}, !.size = 0, !.known = FALSE]

(* _resolve_part_kind, at the first byte or at the end of the part.        *)
resolve_part_kind(lim, c, p) ==
    LET counted == IF p.file THEN [c EXCEPT !.files = @ + 1, !.known = TRUE]
                   ELSE [c EXCEPT !.fields = @ + 1, !.known = TRUE]
    IN  CASE c.known -> c
          [] ~c.known /\ (counted.files > lim.files \/ counted.fields > lim.fields) -> Fail(counted, 413)
          [] OTHER -> counted

(* on_part_data: a byte, of a field also held in memory.                   *)
remember(lim, c, n) ==
    LET held == [c EXCEPT !.memory = @ + n] IN IF held.memory > lim.memory THEN Fail(held, 413) ELSE held

on_part_data(lim, c, p) ==
    LET d == resolve_part_kind(lim, c, p)
        grown == [d EXCEPT !.size = @ + 1]
    IN  CASE ~Running(d) -> d
          [] Running(d) /\ grown.size > (IF p.file THEN lim.fileSize ELSE lim.fieldSize) -> Fail(grown, 413)
          [] OTHER -> IF p.file THEN grown ELSE remember(lim, grown, 1)

(* on_part_end: a file keeps its temporary file, anything else closes it;  *)
(* a part without a name is dropped.                                       *)
on_part_end(lim, c, p, i) ==
    LET d == resolve_part_kind(lim, c, p)
        closed == [d EXCEPT !.spool = 0, !.open = @ \ {i}]
    IN  CASE ~Running(d) -> d
          [] Running(d) /\ ~p.name -> closed
          [] Running(d) /\ p.name /\ p.file -> [d EXCEPT !.spool = 0, !.uploads = @ \cup {i}]
          [] OTHER -> IF ~p.text THEN Fail(closed, 400) ELSE remember(lim, closed, 1)

(* MultipartParser.write, part by part; an error stops it.                 *)
Part(lim, c, p, i, ends) ==
    LET then(d, step(_)) == IF Running(d) THEN step(d) ELSE d
        begun == then(c, LAMBDA d : on_part_begin(lim, d, i))
        filled == FoldLeft(LAMBDA d, b : then(d, LAMBDA e : on_part_data(lim, e, p)), begun, [b \in 1 .. p.size |-> b])
    IN  IF ends THEN then(filled, LAMBDA d : on_part_end(lim, d, p, i)) ELSE filled

(* parse_multipart_form: on an error the files of the form are closed, and *)
(* in any case the one of the part it stopped in.                          *)
OnlyInProgress(c) == [c EXCEPT !.open = @ \ {c.spool}, !.spool = 0]

finish(c) ==
    LET closed == IF Running(c) THEN c ELSE [c EXCEPT !.open = @ \ c.uploads] IN OnlyInProgress(closed)

parse_multipart_form(lim, parts, ending) ==
    LET n == Len(parts)
        fed == FoldLeft(LAMBDA c, i : IF Running(c) THEN Part(lim, c, parts[i], i, i < n \/ ending # "truncated") ELSE c,
                        Fresh, [i \in 1 .. n |-> i])
    IN  finish(IF Running(fed) /\ ending # "complete" THEN Fail(fed, 400) ELSE fed)

PartKinds == {p \in [name : BOOLEAN, file : BOOLEAN, size : {0, 2}, text : BOOLEAN] : p.file => p.text}
Limits == {[parts |-> a, files |-> b, fields |-> c, fileSize |-> d, fieldSize |-> e, memory |-> f] :
            a \in {1, Off}, b \in {0, 1, Off}, c \in {1, Off}, d \in {1, Off}, e \in {1, Off}, f \in {2, Off}}
Endings == {"complete", "truncated", "malformed"}
FormCases == [parts : UNION {[1 .. n -> PartKinds] : n \in 1 .. 2}, lim : Limits, ending : Endings]

(* Nothing of a form that is refused stays open, and of one that is        *)
(* accepted exactly its uploads do (formparsers.py: the spools of a parse  *)
(* that fails are closed before the error leaves it).                      *)
NoSpoolLeaks(x) ==
    LET c == parse_multipart_form(x.lim, x.parts, x.ending)
    IN  c.open = (IF Running(c) THEN {i \in DOMAIN x.parts : x.parts[i].name /\ x.parts[i].file} ELSE {})

(* A form that is well formed is accepted exactly when it is within every  *)
(* limit, counted over all its parts.                                      *)
Which(parts, P(_)) == {i \in DOMAIN parts : P(parts[i])}
Within(lim, parts) ==
    LET field(p) == ~p.file
        held == FoldLeft(LAMBDA n, p : n + IF p.file THEN 0 ELSE p.size + IF p.name THEN 1 ELSE 0, 0, parts)
        counts == \A i \in DOMAIN parts : parts[i].size <= IF parts[i].file THEN lim.fileSize ELSE lim.fieldSize
    IN  /\ Len(parts) <= lim.parts
        /\ Cardinality(Which(parts, LAMBDA p : p.file)) <= lim.files
        /\ Cardinality(Which(parts, field)) <= lim.fields
        /\ counts /\ held <= lim.memory

LimitsAreExact(x) ==
    LET c == parse_multipart_form(x.lim, x.parts, "complete")
        texts == \A i \in DOMAIN x.parts : x.parts[i].text \/ ~x.parts[i].name
    IN  Running(c) <=> Within(x.lim, x.parts) /\ texts

-----------------------------------------------------------------------------
(***************************************************************************)
(* Accept and Accept-Encoding: entries with a weight, in the order they    *)
(* came.  A media range is any, a type, a media type or one with a         *)
(* parameter; a media type of the server's has a parameter or not.         *)
(***************************************************************************)
Refused == 0
Ranges == {"*/*", "a/*", "a/b", "a/b;c", "a/d"}
Types == {"a/b", "a/b;c", "a/d"}

Specificity(range) == CASE range = "*/*" -> 0 [] range = "a/*" -> 1 [] range = "a/b;c" -> 3 [] OTHER -> 2

(* _mime_matches: the parameters of the range are among those of the type. *)
mime_matches(range, type) ==
    range \in {"*/*", "a/*", type} \/ (range = "a/b" /\ type = "a/b;c")

(* _mime_best: the most specific range, of equal ones the higher weight.   *)
HighestWeight(accept, type) ==
    LET found == {[q |-> accept[i].q, spec |-> 0] : i \in {i \in DOMAIN accept : mime_matches(accept[i].range, type)}}
    IN  IF found = {} THEN [q |-> 0, spec |-> -1] ELSE CHOOSE a \in found : \A b \in found : b.q <= a.q

mime_best(accept, type) ==
    LET found == {[q |-> accept[i].q, spec |-> Specificity(accept[i].range)] :
                    i \in {i \in DOMAIN accept : mime_matches(accept[i].range, type)}}
    IN  IF found = {} THEN [q |-> 0, spec |-> -1]
        ELSE CHOOSE a \in found : \A b \in found : b.spec < a.spec \/ (b.spec = a.spec /\ b.q <= a.q)

(* best_match: by weight, then by specificity, then the server's order;    *)
(* without a header the first.                                             *)
best_match(accept, options) ==
    LET rank(i) == mime_best(accept, options[i])
        above(i, j) == rank(i).q > rank(j).q \/ (rank(i).q = rank(j).q /\ rank(i).spec > rank(j).spec)
        usable == {i \in DOMAIN options : rank(i).q > 0}
    IN  CASE accept = <<>> -> options[1]
          [] accept # <<>> /\ usable = {} -> "none"
          [] OTHER -> options[CHOOSE i \in usable : \A j \in usable \ {i} : above(i, j) \/ (~above(j, i) /\ i < j)]

(* quality_explicit: a refusal anywhere wins, then the first entry, then   *)
(* the wildcard.                                                           *)
quality_explicit(accept, coding) ==
    LET at(c) == {i \in DOMAIN accept : accept[i].range = c}
        first(s) == accept[CHOOSE i \in s : \A j \in s : i <= j].q
    IN  CASE \E i \in at(coding) : accept[i].q = Refused -> Refused
          [] at(coding) # {} /\ ~\E i \in at(coding) : accept[i].q = Refused -> first(at(coding))
          [] OTHER -> IF at("*/*") # {} THEN first(at("*/*")) ELSE Refused

AcceptCases ==
    [accept : SeqOf([range : Ranges, q : 0 .. 2], 3), options : {<<"a/b", "a/b;c", "a/d">>, <<"a/d", "a/b;c", "a/b">>}]

(* What best_match returns the client did not refuse: the most specific    *)
(* thing it said of it has a weight, and nothing it said as specifically   *)
(* of another option has a higher one.                                     *)
LastWord(accept, type) ==
    {i \in DOMAIN accept : mime_matches(accept[i].range, type)
        /\ \A j \in DOMAIN accept : mime_matches(accept[j].range, type) => Specificity(accept[j].range) <= Specificity(accept[i].range)}

Wants(accept, type, q) == \E i \in LastWord(accept, type) : accept[i].q >= q

NegotiatedIsWanted(x) ==
    LET b == best_match(x.accept, x.options) IN
    x.accept # <<>> =>
        IF b = "none" THEN \A i \in DOMAIN x.options : ~Wants(x.accept, x.options[i], 1)
        ELSE Wants(x.accept, b, 1)
             /\ \A i \in DOMAIN x.options, q \in 1 .. 2 : Wants(x.accept, x.options[i], q) => Wants(x.accept, b, q)
-----------------------------------------------------------------------------
(***************************************************************************)
(* The message of a WebSocket listener (_ws_listener.py): what its         *)
(* annotation becomes at registration, and what a frame becomes for the    *)
(* callback.  A model has a backend, the tag field its class declares and  *)
(* the value of it; a frame is JSON of some type, an object with a tag.    *)
(***************************************************************************)
MessageModels == [backend : {"pydantic", "msgspec"}, tagField : {"none", "kind", "type"}, is : {"ping", "pong"}]
Messages ==
    [of : {"nothing", "any"}]
    \cup [of : {"scalar"}, types : SUBSET {"bool", "int", "float", "str"} \ {{}}, null : BOOLEAN, bounds : BOOLEAN]
    \cup [of : {"models"}, members : {<<a>> : a \in MessageModels} \cup {<<a, b>> : a, b \in MessageModels},
          null : BOOLEAN, discriminator : {"none", "kind"}]
Frames == [json : {"null", "bool", "int", "float", "str"}, within : BOOLEAN]
          \cup [json : {"object"}, field : {"kind", "type"}, tag : {"ping", "pong", "other"}]

(* _callback_wants_socket and _message_annotation: which positional        *)
(* parameter the socket and which the message goes to, of the names the    *)
(* callback gives them; 0 is none.                                         *)
callback_wants_socket(names) == names # <<>> /\ (names[1] \in {"ws", "socket"} \/ Len(names) >= 2)

message_parameter(names) ==
    IF names = <<>> THEN 0 ELSE IF callback_wants_socket(names) /\ Len(names) >= 2 THEN 2 ELSE 1

(* _msgspec_tag_fields.                                                    *)
msgspec_tag_fields(members) ==
    LET structs == SelectSeq(members, LAMBDA k : k.backend = "msgspec")
    IN  [i \in DOMAIN structs |-> structs[i].tagField]

(* _declared_discriminator: of the annotation, else the tag field all the  *)
(* structs declare.                                                        *)
declared_discriminator(a) ==
    LET tags == msgspec_tag_fields(a.members)
    IN  CASE Len(a.members) < 2 -> "none"
          [] Len(a.members) >= 2 /\ a.discriminator # "none" -> a.discriminator
          [] OTHER -> IF tags # <<>> /\ "none" \notin Range(tags) THEN tags[1] ELSE "none"

(* _reject_ambiguous_union: two backends, two tag fields, or no tag.       *)
NoUnionRefused(a) == FALSE

reject_ambiguous_union(a) ==
    /\ Len(a.members) >= 2
    /\ \/ Cardinality({k.backend : k \in Range(a.members)}) > 1
       \/ Cardinality(Range(msgspec_tag_fields(a.members))) > 1
       \/ declared_discriminator(a) = "none"

(* _build_message_contract: refused at registration, left unvalidated, or  *)
(* validated with the models or against the bounds.                        *)
build_message_contract(a) ==
    CASE a.of \in {"nothing", "any"} -> "none"
      [] a.of = "models" -> IF reject_ambiguous_union(a) THEN "refused" ELSE "models"
      [] OTHER -> IF a.bounds THEN "bounded" ELSE "none"

(* _frame_matches, a union of scalars by any of them.                      *)
frame_matches(json, types) ==
    json \in types \/ (json = "int" /\ "float" \in types)

(* _bounded_scalar: null apart, then the type, then the bound.             *)
bounded_scalar(a, f) ==
    IF f.json = "null" THEN (IF a.null THEN "null" ELSE "invalid")
    ELSE IF f.json = "object" \/ ~frame_matches(f.json, a.types) \/ ~f.within THEN "invalid" ELSE f.json

(* The model backends, which choose by the discriminator if there is one   *)
(* and else take the first member in the order of the declaration that     *)
(* fits; an object fits a model that does not look at its tag.             *)
Fits(k, f, by) == f.json = "object" /\ (by = "none" \/ (f.field = by /\ f.tag = k.is))
Validated(a, f) ==
    LET by == declared_discriminator(a)
        fitting == SelectSeq(a.members, LAMBDA k : Fits(k, f, by))
    IN  IF f.json = "null" /\ a.null THEN "null" ELSE IF fitting = <<>> THEN "invalid" ELSE fitting[1].is

(* _message_validator, and the listener's close with 1007 when it raises.  *)
message_validator(a, f) ==
    CASE build_message_contract(a) = "models" -> Validated(a, f)
      [] build_message_contract(a) = "bounded" -> bounded_scalar(a, f)
      [] OTHER -> f.json

ListenerCases ==
    [message : Messages, frame : Frames, names : {<<"ws", "data">>}]
    \cup [message : [of : {"any"}], frame : [json : {"str"}, within : {TRUE}],
          names : {<<"ws">>, <<"data">>, <<"data", "more">>, <<>>}]

(* What a listener accepts at registration it decodes the same whatever    *)
(* order its message types are declared in; a callback with declared       *)
(* bounds gets only values of a declared type and within them; and the     *)
(* socket and the message never go to the same parameter of two.           *)
ListenersAreUnambiguous(x) ==
    LET a == x.message
        got == message_validator(a, x.frame)
    IN  /\ a.of = "models" /\ build_message_contract(a) # "refused" /\ Len(a.members) = 2
             /\ a.members[1].is # a.members[2].is
           => got = message_validator([a EXCEPT !.members = Reverse(@)], x.frame)
        /\ build_message_contract(a) = "bounded" /\ got \notin {"invalid", "null"}
           => x.frame.within /\ (got \in a.types \/ (got = "int" /\ "float" \in a.types))
        /\ Len(x.names) = 2 => message_parameter(x.names) = 2
-----------------------------------------------------------------------------
(***************************************************************************)
(* The doors to a JSON body that is buffered (http/request.py: get_json,   *)
(* json): calls one after another on a request, which keeps what it        *)
(* parsed.  An answer is the document, "null", or the status raised.       *)
(***************************************************************************)
JsonCalls ==
    {[door |-> "json", force |-> FALSE, silent |-> FALSE, cache |-> TRUE]}
    \cup [door : {"get_json"}, force : BOOLEAN, silent : BOOLEAN, cache : BOOLEAN]
JsonCases == [type : {"json", "text", "none"}, content : {"empty", "document", "malformed"},
              calls : SeqOf(JsonCalls, 3)]

json_body_refused(type) == type # "json"

(* on_json_loading_failed: without a decoder error the type was refused.   *)
on_json_loading_failed(content) == IF content = "malformed" THEN "400" ELSE "415"

(* One call on request x, which has `kept` in _json: its answer, and what  *)
(* the request keeps from then on.                                         *)
Told(answer, kept) == [answer |-> answer, kept |-> kept]

get_json(x, c, kept) ==
    IF ~c.force /\ json_body_refused(x.type)
    THEN Told(IF c.silent THEN "null" ELSE on_json_loading_failed("refused"), kept)
    ELSE CASE x.content = "empty" -> Told("null", kept)
           [] x.content # "empty" /\ c.cache /\ kept # "unparsed" -> Told(kept, kept)
           [] x.content = "malformed" -> Told(IF c.silent THEN "null" ELSE on_json_loading_failed("malformed"), kept)
           [] OTHER -> Told("document", IF c.cache THEN "document" ELSE kept)

json(x, kept) ==
    CASE kept # "unparsed" -> Told(kept, kept)
      [] kept = "unparsed" /\ json_body_refused(x.type) -> Told("null", kept)
      [] OTHER -> CASE x.content = "empty" -> Told("null", "null")
                    [] x.content = "malformed" -> Told(on_json_loading_failed("malformed"), kept)
                    [] OTHER -> Told("document", "document")

JsonAnswers(x) ==
    LET after[n \in 0 .. Len(x.calls)] ==
            IF n = 0 THEN Told("none", "unparsed")
            ELSE LET c == x.calls[n] IN
                 IF c.door = "json" THEN json(x, after[n - 1].kept) ELSE get_json(x, c, after[n - 1].kept)
    IN  [n \in DOMAIN x.calls |-> after[n].answer]

(* Whichever door is used, and after whichever calls: the document comes   *)
(* out only where the body is one; under a type that is not JSON only by   *)
(* force, or through json() once a forced call has kept it; a document of  *)
(* the right type is never denied; and only the loud calls raise.          *)
JsonDoorsAgree(x) ==
    LET a == JsonAnswers(x) IN
    \A n \in DOMAIN a :
        LET c == x.calls[n]
            forced(k) == x.calls[k].force /\ x.calls[k].cache
        IN  /\ a[n] = "document" => x.content = "document"
            /\ a[n] = "document" /\ json_body_refused(x.type) /\ ~c.force =>
                  c.door = "json" /\ \E k \in 1 .. n - 1 : forced(k)
            /\ x.content = "document" /\ (c.force \/ ~json_body_refused(x.type)) => a[n] = "document"
            /\ c.silent => a[n] \notin {"400", "415"}
            /\ c.door = "json" => a[n] # "415"
=============================================================================
